--------------------------- MODULE VoiceSessions ----------------------------
(***************************************************************************)
(* The voice sessions of one user: the routes of src/app/api/voice.py over *)
(* src/app/repositories/voice.py, and what run(), stop() and the wake word *)
(* of src/app/api/voice_connection.py do to the record of the session.     *)
(* The record is one row, written as a whole; a connection holds the       *)
(* session's advisory lock while it lives, and its process knows it.       *)
(* VoiceTurns is about what happens inside a connection.                   *)
(***************************************************************************)
EXTENDS Nothing, Naturals, FiniteSets

CONSTANTS
  Sessions,     \* session ids
  Connections,  \* attempts to connect over a websocket
  Deletes,      \* requests to close a session
  Servers,      \* server processes
  MaxOpen,      \* VOICE_MAX_SESSIONS of a process
  MaxActive     \* sessions a user may have: 2 in the code

ASSUME SessionConstantsOK ==
  /\ None \notin Sessions \cup Connections \cup Deletes \cup Servers
  /\ Connections \cap Deletes = {}
  /\ {MaxOpen, MaxActive} \subseteq Nat

VARIABLES
  record,   \* voice_sessions: None, or the status and the wake status of a session
  locked,   \* who holds the lock voice-session
  conn,     \* the attempts to connect
  known,    \* app.state.voice_connections of each process: the connection it knows of a session
  deletion, \* the requests to close
  told      \* history variable: sessions whose user was told that they are closed

voiceSessions == <<record, locked, conn, known, deletion, told>>

Wakes == {"not_required", "pending", "accepted", "rejected"}
SessionRow == [status : {"ready", "connected", "disconnected", "closed"}, wake : Wakes]

ASSUME NoneIsNoRow == None \notin SessionRow

Far == [pc |-> "none", session |-> None, at |-> None, copy |-> None, stop |-> FALSE, reason |-> "disconnected",
        waiting |-> FALSE, saving |-> {}]

VoiceSessionsInit ==
  /\ record = [s \in Sessions |-> None]
  /\ locked = [s \in Sessions |-> None]
  /\ conn = [c \in Connections |-> Far]
  /\ known = [p \in Servers |-> [s \in Sessions |-> None]]
  /\ deletion = [d \in Deletes |-> [pc |-> "none", session |-> None, at |-> None, copy |-> None]]
  /\ told = {}

-----------------------------------------------------------------------------
(* create_session and close_session. *)

\* active_sessions: a session that was created and not yet connected is "ready".
Active == {s \in Sessions : record[s] # None /\ record[s].status \in {"created", "connected"}}

\* The user's guard makes counting and saving one step.
CreateSession(s, wake) ==
  /\ record[s] = None
  /\ Cardinality(Active) < MaxActive
  /\ record' = [record EXCEPT ![s] = [status |-> "ready", wake |-> wake]]
  /\ UNCHANGED <<locked, conn, known, deletion, told>>

CloseSession(d, s, p) ==
  /\ deletion[d].pc = "none" /\ record[s] # None
  /\ deletion' = [deletion EXCEPT ![d] = [pc |-> "read", session |-> s, at |-> p, copy |-> record[s]]]
  /\ UNCHANGED <<record, locked, conn, known, told>>

\* A connection of this process is told to stop, and the user that the session is closing.
StopConnection(d) ==
  LET q == deletion[d]
      c == known[q.at][q.session]
  IN /\ q.pc = "read" /\ c # None
     /\ conn' = [conn EXCEPT ![c].stop = TRUE, ![c].reason = "server_closed"]
     /\ deletion' = [deletion EXCEPT ![d].pc = "done"]
     /\ UNCHANGED <<record, locked, known, told>>

\* Otherwise the lock is tried; under it the record that was read before is saved as closed.
LockToClose(d) ==
  LET q == deletion[d] IN
  /\ q.pc = "read" /\ known[q.at][q.session] = None
  /\ IF locked[q.session] = None
     THEN /\ locked' = [locked EXCEPT ![q.session] = d]
          /\ deletion' = [deletion EXCEPT ![d].pc = "save"]
     ELSE /\ deletion' = [deletion EXCEPT ![d].pc = "done"]
          /\ UNCHANGED locked
  /\ UNCHANGED <<record, conn, known, told>>

SaveClosed(d) ==
  LET q == deletion[d] IN
  /\ q.pc = "save"
  /\ record' = [record EXCEPT ![q.session] = [q.copy EXCEPT !.status = "closed"]]
  /\ locked' = [locked EXCEPT ![q.session] = None]
  /\ deletion' = [deletion EXCEPT ![d].pc = "done"]
  /\ told' = told \cup {q.session}
  /\ UNCHANGED <<conn, known>>

-----------------------------------------------------------------------------
(* voice_websocket and VoiceConnection.run. *)

Set(c, q) == conn' = [conn EXCEPT ![c] = q]
Away(c) == Set(c, [Far EXCEPT !.pc = "gone"])

\* The first look at the session and at the capacity of the process.
Arrive(c, s, p) ==
  /\ conn[c].pc = "none"
  /\ record[s] # None /\ record[s].status # "closed"
  /\ Cardinality({e \in Sessions : known[p][e] # None}) < MaxOpen
  /\ Set(c, [Far EXCEPT !.pc = "lock", !.session = s, !.at = p, !.copy = record[s]])
  /\ UNCHANGED <<record, locked, known, deletion, told>>

Registered(c) ==
  LET q == conn[c] IN
  /\ locked' = [locked EXCEPT ![q.session] = c]
  /\ known' = [known EXCEPT ![q.at][q.session] = c]
  /\ Set(c, [q EXCEPT !.pc = "configure", !.copy = record[q.session],
                      !.waiting = record[q.session].wake # "not_required"])

RegisterStale(c) ==
  /\ conn[c].pc = "lock" /\ locked[conn[c].session] = None
  /\ Registered(c)
  /\ UNCHANGED <<record, deletion, told>>

RegisterUnlocked(c) ==
  /\ conn[c].pc = "lock" /\ record[conn[c].session].status # "closed"
  /\ Registered(c)
  /\ UNCHANGED <<record, deletion, told>>

\* With the lock the session is read again, and the connection becomes known.
Register(c) ==
  /\ conn[c].pc = "lock" /\ locked[conn[c].session] = None
  /\ record[conn[c].session].status # "closed"
  /\ Registered(c)
  /\ UNCHANGED <<record, deletion, told>>

\* 409, 410, or the client has gone.
TurnAway(c) == conn[c].pc = "lock" /\ Away(c) /\ UNCHANGED <<record, locked, known, deletion, told>>

\* session.configure was the first event.
Configure(c) ==
  LET q == conn[c]
      copy == [q.copy EXCEPT !.status = "connected"]
  IN /\ q.pc = "configure"
     /\ Set(c, [q EXCEPT !.pc = "live", !.copy = copy])
     /\ record' = [record EXCEPT ![q.session] = copy]
     /\ UNCHANGED <<locked, known, deletion, told>>

\* confirm_wake of a whole wake word, or of any text where that is not asked for.
AcceptWake(c) ==
  LET q == conn[c] IN
  /\ q.pc = "live" /\ q.waiting /\ "recognize" \notin q.saving
  /\ Set(c, [q EXCEPT !.waiting = FALSE, !.copy.wake = "accepted", !.saving = @ \cup {"recognize"}])
  /\ UNCHANGED <<record, locked, known, deletion, told>>

\* reject_wake, of other words by recognize, of silence by the timer; waiting stays.
RejectWake(c, task) ==
  LET q == conn[c] IN
  /\ q.pc = "live" /\ q.waiting /\ task \notin q.saving
  /\ Set(c, [q EXCEPT !.copy = [status |-> "closed", wake |-> "rejected"], !.saving = @ \cup {task}])
  /\ UNCHANGED <<record, locked, known, deletion, told>>

\* save_session of a task is through; the rejection then has its reason.
SavedWake(c, task) ==
  LET q == conn[c]
      rejects == q.copy.status = "closed"
  IN /\ q.pc = "live" /\ task \in q.saving
     /\ record' = [record EXCEPT ![q.session] = q.copy]
     /\ \/ Set(c, [q EXCEPT !.saving = @ \ {task}, !.stop = rejects \/ @,
                            !.reason = IF rejects THEN "false_wake" ELSE @])
        \/ Set(c, [q EXCEPT !.saving = @ \ {task}, !.stop = rejects \/ @, !.pc = "down"])
     /\ UNCHANGED <<locked, known, deletion, told>>

Reasons == {"disconnected", "client_closed", "idle_timeout", "expired", "invalid_protocol", "upstream_error"}

\* A task ends: the client leaves or closes, time is over, something fails; or stop() was called.
GoDown(c, reason) ==
  /\ conn[c].pc \in {"configure", "live"}
  /\ Set(c, [conn[c] EXCEPT !.pc = "down", !.reason = IF reason = "disconnected" THEN @ ELSE reason])
  /\ UNCHANGED <<record, locked, known, deletion, told>>

\* The tasks are cancelled, and the reason decides how the session ends.
Decide(c) ==
  LET q == conn[c] IN
  /\ q.pc = "down"
  /\ Set(c, [q EXCEPT !.pc = "last", !.saving = {},
                      !.copy.status = IF q.reason \in {"client_closed", "server_closed", "expired", "false_wake"}
                                      THEN "closed" ELSE "disconnected"])
  /\ UNCHANGED <<record, locked, known, deletion, told>>

LastSave(c) ==
  LET q == conn[c] IN
  /\ q.pc = "last"
  /\ record' = [record EXCEPT ![q.session] = q.copy]
  /\ Set(c, [q EXCEPT !.pc = "unlock"])
  /\ UNCHANGED <<locked, known, deletion, told>>

Unlock(c) ==
  LET q == conn[c] IN
  /\ q.pc = "unlock"
  /\ locked' = [locked EXCEPT ![q.session] = None]
  /\ Set(c, [q EXCEPT !.pc = "forget"])
  /\ UNCHANGED <<record, known, deletion, told>>

\* The entry of the session is removed, whichever connection it names by now.
Unregister(c) ==
  /\ conn[c].pc = "forget"
  /\ known' = [known EXCEPT ![conn[c].at][conn[c].session] = None]
  /\ Away(c)
  /\ UNCHANGED <<record, locked, deletion, told>>

\* The process dies, and PostgreSQL frees its locks.
ServerDies(p) ==
  /\ \E s \in Sessions : known[p][s] # None
  /\ known' = [known EXCEPT ![p] = [s \in Sessions |-> None]]
  /\ conn' = [c \in Connections |-> IF conn[c].at = p THEN [Far EXCEPT !.pc = "gone"] ELSE conn[c]]
  /\ deletion' = [d \in Deletes |-> IF deletion[d].at = p THEN [deletion[d] EXCEPT !.pc = "done"] ELSE deletion[d]]
  /\ locked' = [s \in Sessions |->
                  IF locked[s] # None /\ \/ locked[s] \in Connections /\ conn[locked[s]].at = p
                                         \/ locked[s] \in Deletes /\ deletion[locked[s]].at = p
                  THEN None ELSE locked[s]]
  /\ UNCHANGED <<record, told>>

VoiceSessionsNext ==
  \/ \E s \in Sessions, wake \in Wakes \ {"rejected"} : CreateSession(s, wake)
  \/ \E d \in Deletes, s \in Sessions, p \in Servers : CloseSession(d, s, p)
  \/ \E d \in Deletes : StopConnection(d) \/ LockToClose(d) \/ SaveClosed(d)
  \/ \E c \in Connections, s \in Sessions, p \in Servers : Arrive(c, s, p)
  \/ \E c \in Connections :
       \/ Register(c) \/ TurnAway(c) \/ Configure(c) \/ AcceptWake(c)
       \/ \E task \in {"recognize", "timer"} : RejectWake(c, task) \/ SavedWake(c, task)
       \/ \E reason \in Reasons : GoDown(c, reason)
       \/ Decide(c) \/ LastSave(c) \/ Unlock(c) \/ Unregister(c)
  \/ \E p \in Servers : ServerDies(p)

VoiceSessionsSpec == VoiceSessionsInit /\ [][VoiceSessionsNext]_voiceSessions

-----------------------------------------------------------------------------
(* Properties. *)

\* A session has one connection at a time, in whichever process, also while the one before is
\* still saving what became of it (voice.py:208).
OneConnection ==
  \A c, e \in Connections :
    {conn[c].pc, conn[e].pc} \subseteq {"configure", "live", "down", "last"} /\ conn[c].session = conn[e].session => c = e

\* A session whose user was told that it is closed is never anything else again, whichever
\* connection was about to begin or to end meanwhile (voice.py:191, 211).
ToldClosedStaysClosed == \A s \in told : record[s].status = "closed"

=============================================================================
