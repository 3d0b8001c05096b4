------------------------ MODULE VoiceSessions_proofs ------------------------
(***************************************************************************)
(* Theorems about VoiceSessions, for any number of sessions, connections,  *)
(* closings and processes.                                                 *)
(*                                                                         *)
(* The strengthening is that the lock of the database is held: by every    *)
(* connection between its registration and its unlock, and by every        *)
(* closing that is about to save (Held).  What the processes know of their *)
(* connections and the flags between their tasks play no part in it.       *)
(***************************************************************************)
EXTENDS VoiceSessions, TLAPS

Connected == {"configure", "live", "down", "last"}
ConnSteps == {"none", "gone", "lock", "unlock", "forget"} \cup Connected
Statuses == {"ready", "connected", "disconnected", "closed"}

Conns == [pc : ConnSteps, session : Sessions \cup {None}, at : Servers \cup {None},
          copy : SessionRow \cup {None}, stop : BOOLEAN, reason : Reasons \cup {"server_closed", "false_wake"}, waiting : BOOLEAN,
          saving : SUBSET {"recognize", "timer"}]

Closings == [pc : {"none", "read", "save", "done"}, session : Sessions \cup {None}, at : Servers \cup {None},
             copy : SessionRow \cup {None}]

SessionsShape ==
  /\ record \in [Sessions -> SessionRow \cup {None}]
  /\ locked \in [Sessions -> Connections \cup Deletes \cup {None}]
  /\ conn \in [Connections -> Conns]
  /\ deletion \in [Deletes -> Closings]
  /\ told \subseteq Sessions

\* Whoever is about a session has read its record, which never goes away.
Read ==
  /\ \A c \in Connections :
       /\ conn[c].pc \notin {"none", "gone"} => conn[c].session \in Sessions /\ record[conn[c].session] # None
       /\ conn[c].pc \in Connected => conn[c].copy \in SessionRow
  /\ \A d \in Deletes : deletion[d].pc \in {"read", "save"} =>
       /\ deletion[d].session \in Sessions /\ record[deletion[d].session] # None
       /\ deletion[d].copy \in SessionRow
  /\ \A s \in told : record[s] # None

Held ==
  /\ \A c \in Connections : conn[c].pc \in Connected \cup {"unlock"} => locked[conn[c].session] = c
  /\ \A d \in Deletes : deletion[d].pc = "save" => locked[deletion[d].session] = d

\* A session that is told to be closed is not connected any more.
LeftAlone == \A c \in Connections : conn[c].pc \in Connected => conn[c].session \notin told

SInv == SessionsShape /\ Read /\ Held /\ LeftAlone /\ ToldClosedStaysClosed

-----------------------------------------------------------------------------
LEMMA FarAway ==
  /\ Far \in Conns /\ Far.pc = "none"
  /\ \A q : q = [Far EXCEPT !.pc = "gone"] => q \in Conns /\ q.pc = "gone"
<1>1. Far = [pc |-> "none", session |-> None, at |-> None, copy |-> None, stop |-> FALSE, reason |-> "disconnected",
             waiting |-> FALSE, saving |-> {}]
  BY DEF Far
<1>2. Far \in Conns /\ Far.pc = "none"
  BY <1>1 DEF Conns, ConnSteps, Reasons
<1> QED BY <1>2 DEF Conns, ConnSteps

LEMMA SessionsBegin == VoiceSessionsInit => SInv
<1> SUFFICES ASSUME VoiceSessionsInit PROVE SInv
  OBVIOUS
<1>1. SessionsShape
  BY FarAway DEF VoiceSessionsInit, SessionsShape, Closings
<1>2. Read /\ Held /\ LeftAlone /\ ToldClosedStaysClosed
  BY FarAway DEF VoiceSessionsInit, Read, Held, LeftAlone, ToldClosedStaysClosed, Connected
<1> QED BY <1>1, <1>2 DEF SInv

\* A step of one connection that keeps its session, and the lock if it has to hold it.
LEMMA ConnectionMoves ==
  ASSUME SInv, NEW c \in Connections, NEW q \in Conns,
         conn' = [conn EXCEPT ![c] = q],
         q.pc \notin {"none", "gone"} => q.session = conn[c].session /\ conn[c].pc \notin {"none", "gone"},
         q.pc \in Connected => conn[c].pc \in Connected /\ q.copy \in SessionRow,
         q.pc = "unlock" => conn[c].pc \in Connected,
         UNCHANGED <<record, locked, deletion, told>>
  PROVE  SInv'
<1>1. SessionsShape'
  BY DEF SInv, SessionsShape
<1>2. conn'[c] = q /\ \A e \in Connections \ {c} : conn'[e] = conn[e]
  BY DEF SInv, SessionsShape
<1>3. Read'
  BY <1>2 DEF SInv, Read
<1>4. Held'
  BY <1>2 DEF SInv, Held, Connected
<1>5. LeftAlone' /\ ToldClosedStaysClosed'
  BY <1>2 DEF SInv, LeftAlone, ToldClosedStaysClosed, Connected
<1> QED BY <1>1, <1>3, <1>4, <1>5 DEF SInv

\* The same, with the record saved of a session that is connected.
LEMMA ConnectionSaves ==
  ASSUME SInv, NEW c \in Connections, NEW q \in Conns, NEW row \in SessionRow,
         conn[c].pc \in Connected,
         conn' = [conn EXCEPT ![c] = q],
         q.session = conn[c].session, q.pc \in Connected \cup {"unlock"}, q.copy \in SessionRow,
         record' = [record EXCEPT ![conn[c].session] = row],
         UNCHANGED <<locked, deletion, told>>
  PROVE  SInv'
<1>1. conn[c].session \in Sessions /\ conn[c].session \notin told
  BY DEF SInv, Read, LeftAlone, Connected
<1>2. conn'[c] = q /\ \A e \in Connections \ {c} : conn'[e] = conn[e]
  BY DEF SInv, SessionsShape
<1>3. record'[conn[c].session] = row /\ \A s \in Sessions : s # conn[c].session => record'[s] = record[s]
  BY <1>1 DEF SInv, SessionsShape
<1>4. SessionsShape'
  BY <1>1 DEF SInv, SessionsShape
<1>5. Read'
  BY <1>1, <1>2, <1>3, NoneIsNoRow DEF SInv, Read, Connected
<1>6. Held' /\ LeftAlone'
  BY <1>1, <1>2 DEF SInv, Held, LeftAlone, Connected
<1>7. ToldClosedStaysClosed'
  BY <1>1, <1>3 DEF SInv, SessionsShape, ToldClosedStaysClosed
<1> QED BY <1>4, <1>5, <1>6, <1>7 DEF SInv

LEMMA Registers ==
  ASSUME SInv, NEW c \in Connections, Register(c)
  PROVE  SInv'
<1> DEFINE s == conn[c].session
           q == [conn[c] EXCEPT !.pc = "configure", !.copy = record[s], !.waiting = record[s].wake # "not_required"]
<1>1. /\ conn[c] \in Conns /\ conn[c].pc = "lock" /\ s \in Sessions /\ record[s] \in SessionRow
      /\ locked[s] = None /\ record[s].status # "closed"
  BY DEF Register, SInv, SessionsShape, Read
<1>2. /\ conn' = [conn EXCEPT ![c] = q] /\ locked' = [locked EXCEPT ![s] = c]
      /\ UNCHANGED <<record, deletion, told>>
  BY DEF Register, Registered, Set
<1>3. q \in Conns /\ q.pc = "configure" /\ q.session = s /\ q.copy \in SessionRow
  BY <1>1 DEF Conns, ConnSteps, Connected
<1> HIDE DEF q
<1>4. conn'[c] = q /\ \A e \in Connections \ {c} : conn'[e] = conn[e]
  BY <1>2 DEF SInv, SessionsShape
<1>5. SessionsShape'
  BY <1>1, <1>2, <1>3 DEF SInv, SessionsShape
<1>6. Read'
  BY <1>1, <1>2, <1>3, <1>4, NoneIsNoRow DEF SInv, Read
<1>7. Held'
  BY <1>1, <1>2, <1>3, <1>4, SessionConstantsOK DEF SInv, SessionsShape, Held
<1>8. LeftAlone' /\ ToldClosedStaysClosed'
  BY <1>1, <1>2, <1>3, <1>4 DEF SInv, LeftAlone, ToldClosedStaysClosed
<1> QED BY <1>5, <1>6, <1>7, <1>8 DEF SInv

\* Arrive, TurnAway and the steps of a connection that save nothing.
LEMMA QuietSteps ==
  ASSUME SInv, NEW c \in Connections,
         \/ \E s \in Sessions, p \in Servers : Arrive(c, s, p)
         \/ TurnAway(c) \/ AcceptWake(c) \/ Decide(c) \/ Unregister(c)
         \/ \E task \in {"recognize", "timer"} : RejectWake(c, task)
         \/ \E reason \in Reasons : GoDown(c, reason)
  PROVE  SInv'
<1>1. conn[c] \in Conns
  BY DEF SInv, SessionsShape
<1>2. conn[c].pc \in Connected => conn[c].copy \in SessionRow
  BY DEF SInv, Read
<1>3. [Far EXCEPT !.pc = "gone"] \in Conns /\ [Far EXCEPT !.pc = "gone"].pc = "gone"
  BY FarAway
<1>4. ASSUME NEW s \in Sessions, NEW p \in Servers, Arrive(c, s, p) PROVE SInv'
  <2> DEFINE q == [Far EXCEPT !.pc = "lock", !.session = s, !.at = p, !.copy = record[s]]
  <2>1. conn' = [conn EXCEPT ![c] = q] /\ UNCHANGED <<record, locked, deletion, told>> /\ record[s] # None
    BY <1>4 DEF Arrive, Set
  <2>2. q \in Conns /\ q.pc = "lock" /\ q.session = s
    <3>1. record[s] \in SessionRow \cup {None}
      BY DEF SInv, SessionsShape
    <3> QED BY <3>1, FarAway DEF Conns, ConnSteps
  <2> HIDE DEF q
  <2>3. conn'[c] = q /\ \A e \in Connections \ {c} : conn'[e] = conn[e]
    BY <2>1 DEF SInv, SessionsShape
  <2>4. SessionsShape' /\ Read'
    BY <2>1, <2>2, <2>3 DEF SInv, SessionsShape, Read, Connected
  <2>5. Held' /\ LeftAlone' /\ ToldClosedStaysClosed'
    BY <2>1, <2>2, <2>3 DEF SInv, Held, LeftAlone, ToldClosedStaysClosed, Connected
  <2> QED BY <2>4, <2>5 DEF SInv
<1>5. CASE TurnAway(c) \/ Unregister(c)
  <2>1. conn' = [conn EXCEPT ![c] = [Far EXCEPT !.pc = "gone"]] /\ UNCHANGED <<record, locked, deletion, told>>
    BY <1>5 DEF TurnAway, Unregister, Away, Set
  <2> QED BY <1>3, <2>1, ConnectionMoves DEF Connected
<1>6. CASE AcceptWake(c)
  <2> DEFINE q == [conn[c] EXCEPT !.waiting = FALSE, !.copy.wake = "accepted", !.saving = @ \cup {"recognize"}]
  <2>1. conn' = [conn EXCEPT ![c] = q] /\ conn[c].pc = "live" /\ UNCHANGED <<record, locked, deletion, told>>
    BY <1>6 DEF AcceptWake, Set
  <2>2. q \in Conns /\ q.pc = "live" /\ q.session = conn[c].session /\ q.copy \in SessionRow
    BY <1>1, <1>2, <2>1 DEF Conns, SessionRow, Wakes, Connected
  <2> HIDE DEF q
  <2> QED BY <2>1, <2>2, ConnectionMoves DEF Connected
<1>7. ASSUME NEW task \in {"recognize", "timer"}, RejectWake(c, task) PROVE SInv'
  <2> DEFINE q == [conn[c] EXCEPT !.copy = [status |-> "closed", wake |-> "rejected"], !.saving = @ \cup {task}]
  <2>1. conn' = [conn EXCEPT ![c] = q] /\ conn[c].pc = "live" /\ UNCHANGED <<record, locked, deletion, told>>
    BY <1>7 DEF RejectWake, Set
  <2>2. q \in Conns /\ q.pc = "live" /\ q.session = conn[c].session /\ q.copy \in SessionRow
    BY <1>1, <2>1 DEF Conns, SessionRow, Wakes
  <2> HIDE DEF q
  <2> QED BY <2>1, <2>2, ConnectionMoves DEF Connected
<1>8. ASSUME NEW reason \in Reasons, GoDown(c, reason) PROVE SInv'
  <2> DEFINE q == [conn[c] EXCEPT !.pc = "down", !.reason = IF reason = "disconnected" THEN @ ELSE reason]
  <2>1. /\ conn' = [conn EXCEPT ![c] = q] /\ conn[c].pc \in {"configure", "live"}
        /\ UNCHANGED <<record, locked, deletion, told>>
    BY <1>8 DEF GoDown, Set
  <2>2. q \in Conns /\ q.pc = "down" /\ q.session = conn[c].session /\ q.copy = conn[c].copy
    <3>1. PICK why \in Reasons \cup {"server_closed", "false_wake"} : q = [conn[c] EXCEPT !.pc = "down", !.reason = why]
      <4>1. CASE reason = "disconnected"
        BY <1>1, <4>1 DEF Conns
      <4>2. CASE reason # "disconnected"
        <5>1. q = [conn[c] EXCEPT !.pc = "down", !.reason = reason] 
          BY <4>2
        <5> QED BY <5>1
      <4> QED BY <4>1, <4>2
    <3> HIDE DEF q
    <3> QED BY <1>1, <3>1 DEF Conns, ConnSteps, Connected
  <2> HIDE DEF q
  <2> QED BY <1>2, <2>1, <2>2, ConnectionMoves DEF Connected
<1>9. CASE Decide(c)
  <2> DEFINE status == IF conn[c].reason \in {"client_closed", "server_closed", "expired", "false_wake"}
                       THEN "closed" ELSE "disconnected"
             q == [conn[c] EXCEPT !.pc = "last", !.saving = {}, !.copy.status = status]
  <2>1. conn' = [conn EXCEPT ![c] = q] /\ conn[c].pc = "down" /\ UNCHANGED <<record, locked, deletion, told>>
    BY <1>9 DEF Decide, Set
  <2>2. q \in Conns /\ q.pc = "last" /\ q.session = conn[c].session /\ q.copy \in SessionRow
    BY <1>1, <1>2, <2>1 DEF Conns, ConnSteps, Connected, SessionRow
  <2> HIDE DEF q
  <2> QED BY <2>1, <2>2, ConnectionMoves DEF Connected
<1> QED BY <1>4, <1>5, <1>6, <1>7, <1>8, <1>9

\* Those that save the record.
LEMMA SavingSteps ==
  ASSUME SInv, NEW c \in Connections,
         Configure(c) \/ LastSave(c) \/ \E task \in {"recognize", "timer"} : SavedWake(c, task)
  PROVE  SInv'
<1>1. conn[c] \in Conns /\ (conn[c].pc \in Connected => conn[c].copy \in SessionRow)
  BY DEF SInv, SessionsShape, Read
<1>2. CASE Configure(c)
  <2> DEFINE row == [conn[c].copy EXCEPT !.status = "connected"]
             q == [conn[c] EXCEPT !.pc = "live", !.copy = row]
  <2>1. /\ conn[c].pc = "configure" /\ conn' = [conn EXCEPT ![c] = q]
        /\ record' = [record EXCEPT ![conn[c].session] = row] /\ UNCHANGED <<locked, deletion, told>>
    BY <1>2 DEF Configure, Set
  <2>2. row \in SessionRow
    BY <1>1, <2>1 DEF SessionRow, Connected
  <2>3. q \in Conns /\ q.pc = "live" /\ q.session = conn[c].session /\ q.copy = row
    BY <1>1, <2>2 DEF Conns, ConnSteps, Connected
  <2> HIDE DEF q, row
  <2> QED BY <2>1, <2>2, <2>3, ConnectionSaves DEF Connected
<1>3. ASSUME NEW task \in {"recognize", "timer"}, SavedWake(c, task) PROVE SInv'
  <2>1. /\ conn[c].pc = "live" /\ record' = [record EXCEPT ![conn[c].session] = conn[c].copy]
        /\ UNCHANGED <<locked, deletion, told>>
    BY <1>3 DEF SavedWake
  <2>2. PICK q \in Conns : /\ conn' = [conn EXCEPT ![c] = q] /\ q.pc \in {"live", "down"}
                           /\ q.session = conn[c].session /\ q.copy = conn[c].copy
    <3> DEFINE stop == conn[c].copy.status = "closed" \/ conn[c].stop
               reason == IF conn[c].copy.status = "closed" THEN "false_wake" ELSE conn[c].reason
               q1 == [conn[c] EXCEPT !.saving = @ \ {task}, !.stop = stop, !.reason = reason]
               q2 == [conn[c] EXCEPT !.saving = @ \ {task}, !.stop = stop, !.pc = "down"]
    <3>1. conn' = [conn EXCEPT ![c] = q1] \/ conn' = [conn EXCEPT ![c] = q2]
      BY <1>3 DEF SavedWake, Set
    <3>2. q1 \in Conns /\ q1.pc = "live" /\ q1.session = conn[c].session /\ q1.copy = conn[c].copy
      <4>1. stop \in BOOLEAN /\ reason \in Reasons \cup {"server_closed", "false_wake"}
        <5>1. conn[c].stop \in BOOLEAN /\ conn[c].reason \in Reasons \cup {"server_closed", "false_wake"}
          BY <1>1 DEF Conns
        <5> QED BY <5>1
      <4> HIDE DEF stop, reason
      <4> QED BY <1>1, <2>1, <4>1 DEF Conns
    <3>3. q2 \in Conns /\ q2.pc = "down" /\ q2.session = conn[c].session /\ q2.copy = conn[c].copy
      BY <1>1, <2>1 DEF Conns, ConnSteps, Connected
    <3> HIDE DEF q1, q2
    <3> QED BY <3>1, <3>2, <3>3
  <2> QED BY <1>1, <2>1, <2>2, ConnectionSaves DEF Connected
<1>4. CASE LastSave(c)
  <2> DEFINE q == [conn[c] EXCEPT !.pc = "unlock"]
  <2>1. /\ conn[c].pc = "last" /\ conn' = [conn EXCEPT ![c] = q]
        /\ record' = [record EXCEPT ![conn[c].session] = conn[c].copy] /\ UNCHANGED <<locked, deletion, told>>
    BY <1>4 DEF LastSave, Set
  <2>2. q \in Conns /\ q.pc = "unlock" /\ q.session = conn[c].session /\ q.copy = conn[c].copy
    BY <1>1 DEF Conns, ConnSteps
  <2> HIDE DEF q
  <2> QED BY <1>1, <2>1, <2>2, ConnectionSaves DEF Connected
<1> QED BY <1>2, <1>3, <1>4

LEMMA Unlocks ==
  ASSUME SInv, NEW c \in Connections, Unlock(c)
  PROVE  SInv'
<1> DEFINE q == [conn[c] EXCEPT !.pc = "forget"]
<1>1. /\ conn[c].pc = "unlock" /\ conn' = [conn EXCEPT ![c] = q]
      /\ locked' = [locked EXCEPT ![conn[c].session] = None] /\ UNCHANGED <<record, deletion, told>>
  BY DEF Unlock, Set
<1>2. conn[c] \in Conns /\ conn[c].session \in Sessions /\ locked[conn[c].session] = c
  BY <1>1 DEF SInv, SessionsShape, Read, Held
<1>3. q \in Conns /\ q.pc = "forget" /\ q.session = conn[c].session
  BY <1>2 DEF Conns, ConnSteps
<1> HIDE DEF q
<1>4. conn'[c] = q /\ \A e \in Connections \ {c} : conn'[e] = conn[e]
  BY <1>1 DEF SInv, SessionsShape
<1>5. SessionsShape'
  BY <1>1, <1>2, <1>3 DEF SInv, SessionsShape
<1>6. Read' /\ LeftAlone' /\ ToldClosedStaysClosed'
  BY <1>1, <1>2, <1>3, <1>4 DEF SInv, Read, LeftAlone, ToldClosedStaysClosed, Connected
<1>7. Held'
  BY <1>1, <1>2, <1>3, <1>4, SessionConstantsOK DEF SInv, SessionsShape, Held, Read, Connected
<1> QED BY <1>5, <1>6, <1>7 DEF SInv

\* Creating and closing a session.
LEMMA RouteSteps ==
  ASSUME SInv,
         \/ \E s \in Sessions, wake \in Wakes \ {"rejected"} : CreateSession(s, wake)
         \/ \E d \in Deletes, s \in Sessions, p \in Servers : CloseSession(d, s, p)
         \/ \E d \in Deletes : LockToClose(d) \/ SaveClosed(d)
  PROVE  SInv'
<1> USE SessionConstantsOK, NoneIsNoRow
<1>1. ASSUME NEW s \in Sessions, NEW wake \in Wakes \ {"rejected"}, CreateSession(s, wake) PROVE SInv'
  <2>1. [status |-> "ready", wake |-> wake] \in SessionRow
    BY DEF SessionRow
  <2>2. /\ record' = [record EXCEPT ![s] = [status |-> "ready", wake |-> wake]] /\ record[s] = None
        /\ UNCHANGED <<locked, conn, deletion, told>>
    BY <1>1 DEF CreateSession
  <2>3. s \notin told
    BY <2>2 DEF SInv, Read
  <2> QED BY <2>1, <2>2, <2>3 DEF SInv, SessionsShape, Read, Held, LeftAlone, ToldClosedStaysClosed
<1>2. ASSUME NEW d \in Deletes, NEW s \in Sessions, NEW p \in Servers, CloseSession(d, s, p) PROVE SInv'
  <2> DEFINE q == [pc |-> "read", session |-> s, at |-> p, copy |-> record[s]]
  <2>1. q \in Closings /\ q.pc = "read" /\ q.session = s /\ q.copy \in SessionRow /\ record[s] # None
    BY <1>2 DEF CloseSession, Closings, SInv, SessionsShape
  <2>2. deletion' = [deletion EXCEPT ![d] = q] /\ UNCHANGED <<record, locked, conn, told>>
    BY <1>2 DEF CloseSession
  <2> HIDE DEF q
  <2> QED BY <2>1, <2>2 DEF SInv, SessionsShape, Read, Held, LeftAlone, ToldClosedStaysClosed
<1>3. ASSUME NEW d \in Deletes, LockToClose(d) PROVE SInv'
  <2>1. UNCHANGED <<record, conn, told>> /\ deletion[d].pc = "read" /\ deletion[d] \in Closings
    BY <1>3 DEF LockToClose, SInv, SessionsShape
  <2>2. deletion[d].session \in Sessions
    BY <2>1 DEF SInv, Read
  <2>3. CASE /\ locked[deletion[d].session] = None /\ locked' = [locked EXCEPT ![deletion[d].session] = d]
             /\ deletion' = [deletion EXCEPT ![d].pc = "save"]
    <3>1. SessionsShape' /\ Read' /\ LeftAlone' /\ ToldClosedStaysClosed'
      BY <2>1, <2>2, <2>3
      DEF SInv, SessionsShape, Closings, Read, LeftAlone, ToldClosedStaysClosed
    <3>2. Held'
      BY <2>1, <2>2, <2>3 DEF SInv, SessionsShape, Closings, Held, Read, Connected
    <3> QED BY <3>1, <3>2 DEF SInv
  <2>4. CASE deletion' = [deletion EXCEPT ![d].pc = "done"] /\ UNCHANGED locked
    BY <2>1, <2>4 DEF SInv, SessionsShape, Closings, Read, Held, LeftAlone, ToldClosedStaysClosed
  <2> QED BY <1>3, <2>3, <2>4 DEF LockToClose
<1>4. ASSUME NEW d \in Deletes, SaveClosed(d) PROVE SInv'
  <2> DEFINE s == deletion[d].session
             row == [deletion[d].copy EXCEPT !.status = "closed"]
  <2>1. /\ deletion[d].pc = "save" /\ record' = [record EXCEPT ![s] = row]
        /\ locked' = [locked EXCEPT ![s] = None] /\ deletion' = [deletion EXCEPT ![d].pc = "done"]
        /\ told' = told \cup {s} /\ conn' = conn
    BY <1>4 DEF SaveClosed
  <2>2. s \in Sessions /\ locked[s] = d /\ row \in SessionRow /\ row.status = "closed" /\ deletion[d] \in Closings
    BY <2>1 DEF SInv, SessionsShape, Read, Held, SessionRow
  <2> HIDE DEF s, row
  <2>3. \A c \in Connections : conn[c].pc \in Connected \cup {"unlock"} => conn[c].session # s
    BY <2>2 DEF SInv, Held
  <2>4. SessionsShape' /\ LeftAlone'
    BY <2>1, <2>2, <2>3 DEF SInv, SessionsShape, Closings, LeftAlone
  <2>5. ToldClosedStaysClosed'
    BY <2>1, <2>2 DEF SInv, SessionsShape, ToldClosedStaysClosed
  <2>6. Read'
    BY <2>1, <2>2 DEF SInv, SessionsShape, Closings, Read
  <2>7. Held'
    BY <2>1, <2>2, <2>3 DEF SInv, SessionsShape, Closings, Held, Read, Connected, s
  <2> QED BY <2>4, <2>5, <2>6, <2>7 DEF SInv
<1> QED BY <1>1, <1>2, <1>3, <1>4

LEMMA StopSteps ==
  ASSUME SInv,
         (\E d \in Deletes : StopConnection(d)) \/ (\E p \in Servers : ServerDies(p)) \/ UNCHANGED voiceSessions
  PROVE  SInv'
<1>1. ASSUME NEW d \in Deletes, StopConnection(d) PROVE SInv'
  <2> DEFINE c == known[deletion[d].at][deletion[d].session]
  <2>1. /\ conn' = [conn EXCEPT ![c].stop = TRUE, ![c].reason = "server_closed"]
        /\ deletion' = [deletion EXCEPT ![d].pc = "done"] /\ UNCHANGED <<record, locked, told>>
    BY <1>1 DEF StopConnection
  <2> HIDE DEF c
  <2>2. /\ conn' \in [Connections -> Conns]
        /\ \A e \in Connections : /\ conn'[e].pc = conn[e].pc /\ conn'[e].session = conn[e].session
                                 /\ conn'[e].copy = conn[e].copy
    <3>1. CASE c \notin Connections
      <4>1. conn' = conn
        BY <2>1, <3>1 DEF SInv, SessionsShape
      <4> QED BY <4>1 DEF SInv, SessionsShape
    <3>2. CASE c \in Connections
      <4> DEFINE q == [conn[c] EXCEPT !.stop = TRUE, !.reason = "server_closed"]
      <4>1. conn[c] \in Conns /\ conn \in [Connections -> Conns]
        BY <3>2 DEF SInv, SessionsShape
      <4>2. q \in Conns /\ q.pc = conn[c].pc /\ q.session = conn[c].session /\ q.copy = conn[c].copy
        BY <4>1 DEF Conns
      <4>3. conn' = [conn EXCEPT ![c] = q]
        BY <2>1, <3>2, <4>1 DEF Conns
      <4> HIDE DEF q
      <4> QED BY <4>1, <4>2, <4>3
    <3> QED BY <3>1, <3>2
  <2>3. SessionsShape'
    BY <2>1, <2>2 DEF SInv, SessionsShape, Closings
  <2>4. Read' /\ Held' /\ LeftAlone' /\ ToldClosedStaysClosed'
    BY <2>1, <2>2 DEF SInv, SessionsShape, Closings, Read, Held, LeftAlone, ToldClosedStaysClosed
  <2> QED BY <2>3, <2>4 DEF SInv
<1>2. ASSUME NEW p \in Servers, ServerDies(p) PROVE SInv'
  <2>1. /\ conn' = [c \in Connections |-> IF conn[c].at = p THEN [Far EXCEPT !.pc = "gone"] ELSE conn[c]]
        /\ deletion' = [d \in Deletes |-> IF deletion[d].at = p THEN [deletion[d] EXCEPT !.pc = "done"] ELSE deletion[d]]
        /\ locked' = [s \in Sessions |->
              IF locked[s] # None /\ \/ locked[s] \in Connections /\ conn[locked[s]].at = p
                                     \/ locked[s] \in Deletes /\ deletion[locked[s]].at = p
              THEN None ELSE locked[s]]
        /\ UNCHANGED <<record, told>>
    BY <1>2 DEF ServerDies
  <2>2. [Far EXCEPT !.pc = "gone"] \in Conns /\ [Far EXCEPT !.pc = "gone"].pc = "gone"
    BY FarAway
  <2>3. SessionsShape'
    BY <2>1, <2>2 DEF SInv, SessionsShape, Closings
  <2>4. \A c \in Connections : conn'[c].pc = "gone" \/ (conn'[c] = conn[c] /\ conn[c].at # p)
    <3> TAKE c \in Connections
    <3>1. conn'[c] = IF conn[c].at = p THEN [Far EXCEPT !.pc = "gone"] ELSE conn[c]
      BY <2>1
    <3> QED BY <2>2, <3>1
  <2>5. \A d \in Deletes : deletion'[d].pc = "done" \/ (deletion'[d] = deletion[d] /\ deletion[d].at # p)
    <3> TAKE d \in Deletes
    <3>1. deletion'[d] = IF deletion[d].at = p THEN [deletion[d] EXCEPT !.pc = "done"] ELSE deletion[d]
      BY <2>1
    <3>2. deletion[d] \in Closings
      BY DEF SInv, SessionsShape
    <3> QED BY <3>1, <3>2 DEF Closings
  <2>6. Read' /\ LeftAlone' /\ ToldClosedStaysClosed'
    BY <2>1, <2>4, <2>5 DEF SInv, Read, LeftAlone, ToldClosedStaysClosed, Connected
  <2>7. Held'
    BY <2>1, <2>4, <2>5, SessionConstantsOK DEF SInv, SessionsShape, Read, Held, Connected
  <2> QED BY <2>3, <2>6, <2>7 DEF SInv
<1>3. CASE UNCHANGED voiceSessions
  BY <1>3 DEF voiceSessions, SInv, SessionsShape, Read, Held, LeftAlone, ToldClosedStaysClosed
<1> QED BY <1>1, <1>2, <1>3

LEMMA SessionsStep == SInv /\ [VoiceSessionsNext]_voiceSessions => SInv'
  BY Registers, QuietSteps, SavingSteps, Unlocks, RouteSteps, StopSteps DEF VoiceSessionsNext

LEMMA HeldByOne == SInv => OneConnection
  BY DEF SInv, Held, OneConnection, Connected

\* A session has one connection at a time, through crashes and in whichever process (voice.py:208).
THEOREM OneConnectionAtATime == VoiceSessionsSpec => []OneConnection
<1> QED BY SessionsBegin, SessionsStep, HeldByOne, PTL DEF VoiceSessionsSpec

\* What the user was told is closed stays closed, however a connection and the closing overlap
\* (voice.py:191, 211).
THEOREM ClosedForGood == VoiceSessionsSpec => []ToldClosedStaysClosed
<1>1. SInv => ToldClosedStaysClosed
  BY DEF SInv
<1> QED BY <1>1, SessionsBegin, SessionsStep, PTL DEF VoiceSessionsSpec

=============================================================================
