------------------------- MODULE ChatThreads_proofs -------------------------
(***************************************************************************)
(* Theorems about ChatThreads, for any number of users, agents, threads    *)
(* and runs; ThreadUserNeverChanges and DaysAreTheThread as long as nobody *)
(* holds the service's secret.                                             *)
(*                                                                         *)
(* The strengthening of ThreadUserFixed says what a run knows on its way:  *)
(* what it is about to claim is what the thread's checkpoints say already  *)
(* (Claims), and once it has passed the owners, they name its user         *)
(* (Proven).  The one of HistoryGrows says that a run has the guard while  *)
(* it reads and writes the thread (Guarding), so that nothing is added     *)
(* behind what it has read (Reading).                                      *)
(*                                                                         *)
(* The two lists rest on what the log looks like: whatever has a first     *)
(* checkpoint has a thread that says something (Headed), checkpoints come  *)
(* in the order of their days (InOrder), and each says what those before   *)
(* it said (Growing).                                                      *)
(***************************************************************************)
EXTENDS ChatThreads, SequenceTheorems, FiniteSetTheorems, FunctionTheorems, TLAPS

RunSteps == {"guard", "authorize", "claim", "build", "run", "done", "refused"}
Row == [thread : Threads, user : Users, agent : Agents, day : Nat, messages : Seq(Nat)]
HeadRows == [thread : Threads, user : Users, agent : Agents]
Asked == [pc : RunSteps, route : RunRoutes, thread : Threads, user : Users, agent : Agents, admin : BOOLEAN,
          claim : (Users \X Agents) \cup {None}, seen : Seq(Nat)]

ThreadsShape ==
  /\ owners \in [Threads -> (Users \X Agents) \cup {None}]
  /\ rows \in Seq(Row) /\ heads \in Seq(HeadRows)
  /\ run \in [Runs -> Asked \cup {None}]
  /\ holder \in [Threads -> Runs \cup {None}]
  /\ day \in Nat

\* The checkpoints of a thread have a last one.
HasLast == \A t \in Threads : Log(t) # {} => \E i \in Log(t) : \A j \in Log(t) : j =< i

Me(r) == <<run[r].user, run[r].agent>>
RowUser(i) == <<rows[i].user, rows[i].agent>>
AllOf(t, me) == \A i \in DOMAIN rows : rows[i].thread = t => RowUser(i) = me

Untrusted == \A r \in Runs : run[r] # None => ~run[r].admin

Claims ==
  \A r \in Runs : RunAt(r, "claim") =>
    /\ run[r].claim = Me(r)
    /\ owners[run[r].thread] = None => AllOf(run[r].thread, Me(r))

Passed(r) == RunAt(r, "build") \/ RunAt(r, "run") \/ (RunAt(r, "guard") /\ run[r].route = "stream")

Proven == \A r \in Runs : Passed(r) => owners[run[r].thread] = Me(r)

TInv == ThreadsShape /\ HasLast /\ Untrusted /\ Claims /\ Proven /\ ThreadUserFixed

Inside(r) ==
  \/ RunAt(r, "build") \/ RunAt(r, "run")
  \/ (RunAt(r, "authorize") \/ RunAt(r, "claim")) /\ run[r].route = "invoke"

Guarding == \A r \in Runs : Inside(r) => holder[run[r].thread] = r

Reading == \A r \in Runs, t \in Threads : RunAt(r, "run") /\ run[r].thread = t => run[r].seen = Tip(t)

HInv == ThreadsShape /\ HasLast /\ Guarding /\ Reading

-----------------------------------------------------------------------------
(* The log of checkpoints. *)

LEMMA Greatest ==
  ASSUME NEW S \in SUBSET Int, NEW i \in S, \A j \in S : j =< i
  PROVE  (CHOOSE k \in S : \A j \in S : j =< k) = i
<1>1. \E k \in S : \A j \in S : j =< k
  OBVIOUS
<1> DEFINE m == CHOOSE k \in S : \A j \in S : j =< k
<1>2. m \in S /\ \A j \in S : j =< m
  BY <1>1
<1> HIDE DEF m
<1>3. m = i
  BY <1>2
<1> QED BY <1>3 DEF m

\* A row is behind all the others of its thread.
LEMMA Appended ==
  ASSUME rows \in Seq(Row), HasLast, NEW c \in Row, rows' = Append(rows, c)
  PROVE  /\ rows' \in Seq(Row) /\ HasLast'
         /\ DOMAIN rows' = DOMAIN rows \cup {Len(rows) + 1}
         /\ \A i \in DOMAIN rows : rows'[i] = rows[i]
         /\ rows'[Len(rows) + 1] = c
         /\ Tip(c.thread)' = c.messages
         /\ \A t \in Threads \ {c.thread} : Tip(t)' = Tip(t)
<1>1. /\ rows' \in Seq(Row) /\ DOMAIN rows' = 1 .. Len(rows) + 1 /\ DOMAIN rows = 1 .. Len(rows)
      /\ \A i \in DOMAIN rows : rows'[i] = rows[i]
      /\ rows'[Len(rows) + 1] = c /\ Len(rows) \in Nat
  BY AppendProperties
<1>2. c.thread \in Threads
  BY DEF Row
<1>3. Log(c.thread)' \subseteq 1 .. Len(rows) + 1 /\ Len(rows) + 1 \in Log(c.thread)'
  BY <1>1 DEF Log
<1>4. \A t \in Threads \ {c.thread} : Log(t)' = Log(t)
  BY <1>1 DEF Log
<1>5. HasLast'
  <2> SUFFICES ASSUME NEW t \in Threads, Log(t)' # {}
               PROVE  \E i \in Log(t)' : \A j \in Log(t)' : j =< i
    BY DEF HasLast
  <2>1. CASE t = c.thread
    BY <1>1, <1>3, <2>1
  <2>2. CASE t # c.thread
    BY <1>4, <2>2 DEF HasLast
  <2> QED BY <2>1, <2>2
<1>6. LastRow(c.thread)' = Len(rows) + 1
  <2>1. Log(c.thread)' \in SUBSET Int /\ \A j \in Log(c.thread)' : j =< Len(rows) + 1
    BY <1>1, <1>3
  <2>2. (CHOOSE k \in Log(c.thread)' : \A j \in Log(c.thread)' : j =< k) = Len(rows) + 1
    BY <1>3, <2>1, Greatest
  <2> QED BY <2>2, Zenon DEF LastRow, Latest
<1>7. Tip(c.thread)' = c.messages
  BY <1>1, <1>3, <1>6 DEF Tip, Says, LastRow
<1>8. ASSUME NEW t \in Threads \ {c.thread}
      PROVE  Tip(t)' = Tip(t)
  <2>1. CASE Log(t) = {}
    BY <1>4, <2>1 DEF Tip, Says, LastRow
  <2>2. CASE Log(t) # {}
    <3>1. PICK i \in Log(t) : \A j \in Log(t) : j =< i
      BY <2>2 DEF HasLast
    <3>2. Log(t) \in SUBSET Int
      BY <1>1 DEF Log
    <3>3. (CHOOSE k \in Log(t) : \A j \in Log(t) : j =< k) = i
      BY <3>1, <3>2, Greatest
    <3>4. LastRow(t) = i
      BY <3>3, Zenon DEF LastRow, Latest
    <3>5. Log(t)' \in SUBSET Int /\ i \in Log(t)' /\ \A j \in Log(t)' : j =< i
      BY <1>4, <3>1, <3>2
    <3>6. (CHOOSE k \in Log(t)' : \A j \in Log(t)' : j =< k) = i
      BY <3>5, Greatest
    <3>7. LastRow(t)' = i
      BY <3>6, Zenon DEF LastRow, Latest
    <3>8. rows'[i] = rows[i]
      BY <1>1, <3>1 DEF Log
    <3> QED BY <1>4, <2>2, <3>4, <3>7, <3>8 DEF Tip, Says, LastRow
  <2> QED BY <2>1, <2>2
<1> QED BY <1>1, <1>5, <1>7, <1>8

\* What a thread says is known from its last checkpoint, which is one of its own.
LEMMA TipIsARow ==
  ASSUME rows \in Seq(Row), HasLast, NEW t \in Threads
  PROVE  /\ Tip(t) \in Seq(Nat)
         /\ Log(t) # {} => LastRow(t) \in DOMAIN rows /\ rows[LastRow(t)].thread = t
<1>1. CASE Log(t) = {}
  BY <1>1 DEF Tip, Says, LastRow
<1>2. CASE Log(t) # {}
  <2>1. PICK i \in Log(t) : \A j \in Log(t) : j =< i
    BY <1>2 DEF HasLast
  <2>2. Log(t) \in SUBSET Int
    BY DEF Log
  <2>3. (CHOOSE k \in Log(t) : \A j \in Log(t) : j =< k) = i
    BY <2>1, <2>2, Greatest
  <2>4. LastRow(t) = i
    BY <2>3, Zenon DEF LastRow, Latest
  <2>5. i \in DOMAIN rows /\ rows[i].thread = t /\ rows[i] \in Row
    BY <2>1 DEF Log
  <2> QED BY <1>2, <2>4, <2>5 DEF Tip, Says, LastRow, Row
<1> QED BY <1>1, <1>2

LEMMA SameUser ==
  ASSUME rows \in Seq(Row), ThreadUserFixed, NEW i \in DOMAIN rows, NEW j \in DOMAIN rows,
         rows[i].thread = rows[j].thread
  PROVE  RowUser(i) = RowUser(j)
<1>1. i \in Nat \ {0} /\ j \in Nat \ {0} /\ (i \in 1 .. j \/ j \in 1 .. i)
  OBVIOUS
<1> QED BY <1>1 DEF ThreadUserFixed, RowUser

LEMMA SameLog ==
  ASSUME rows' = rows
  PROVE  /\ HasLast => HasLast'
         /\ \A t : Log(t)' = Log(t) /\ Tip(t)' = Tip(t)
<1>1. \A t : Log(t)' = Log(t)
  BY DEF Log
<1>2. \A t : LastRow(t)' = LastRow(t)
  BY Zenon DEF LastRow, Latest, Log
<1>3. \A t : Tip(t)' = Tip(t)
  BY <1>1, <1>2 DEF Tip, Says, LastRow
<1> QED BY <1>1, <1>3 DEF HasLast

-----------------------------------------------------------------------------
(* The steps of a run. *)

\* What a run knows after a step that only moves it on.
LEMMA Goes ==
  ASSUME ThreadsShape, NEW r \in Runs, run[r] # None, NEW pc \in RunSteps, RunGoto(r, pc)
  PROVE  /\ run' \in [Runs -> Asked \cup {None}]
         /\ run'[r] = [run[r] EXCEPT !.pc = pc]
         /\ run[r] \in Asked
         /\ \A q \in Runs \ {r} : run'[q] = run[q]
<1>1. run \in [Runs -> Asked \cup {None}] /\ run[r] \in Asked
  BY DEF ThreadsShape
<1>2. [run[r] EXCEPT !.pc = pc] \in Asked
  BY <1>1 DEF Asked
<1>3. run' = [run EXCEPT ![r] = [run[r] EXCEPT !.pc = pc]]
  BY DEF RunGoto
<1>4. run'[r] = [run[r] EXCEPT !.pc = pc] /\ \A q \in Runs \ {r} : run'[q] = run[q]
  BY <1>1, <1>3
<1>5. run' \in [Runs -> Asked \cup {None}]
  BY <1>1, <1>2, <1>3
<1> QED BY <1>1, <1>4, <1>5

LEMMA ThreadsBegin == ThreadsInit => TInv /\ HInv
<1> SUFFICES ASSUME ThreadsInit PROVE TInv /\ HInv
  OBVIOUS
<1>1. ThreadsShape
  <2>2. \A t \in Threads, u \in Users, a \in Agents :
          <<[thread |-> t, user |-> u, agent |-> a, day |-> 1, messages |-> <<>>],
            [thread |-> t, user |-> u, agent |-> a, day |-> 1, messages |-> <<0>>]>> \in Seq(Row)
    BY DEF Row
  <2>3. \A t \in Threads, u \in Users, a \in Agents : <<[thread |-> t, user |-> u, agent |-> a]>> \in Seq(HeadRows)
    BY DEF HeadRows
  <2>4. <<>> \in Seq(Row) /\ <<>> \in Seq(HeadRows)
    OBVIOUS
  <2>5. rows \in Seq(Row) /\ heads \in Seq(HeadRows)
    BY <2>2, <2>3, <2>4 DEF ThreadsInit
  <2> QED BY <2>5 DEF ThreadsInit, ThreadsShape
<1>2. HasLast
  <2>1. CASE rows = <<>>
    BY <2>1 DEF HasLast, Log
  <2>2. CASE Len(rows) = 2 /\ rows[1].thread = rows[2].thread
    BY <1>1, <2>2 DEF HasLast, Log, ThreadsShape
  <2> QED BY <2>1, <2>2 DEF ThreadsInit
<1>3. ThreadUserFixed
  <2>1. \A i, j \in DOMAIN rows : RowUser(i) = RowUser(j)
    <3>1. CASE rows = <<>>
      BY <3>1
    <3>2. CASE Len(rows) = 2 /\ rows[1].user = rows[2].user /\ rows[1].agent = rows[2].agent
      BY <1>1, <3>2 DEF RowUser, ThreadsShape
    <3> QED BY <3>1, <3>2 DEF ThreadsInit
  <2>2. \A i \in DOMAIN rows : rows[i] \in Row
    BY <1>1 DEF ThreadsShape
  <2> QED BY <1>1, <2>1, <2>2 DEF ThreadUserFixed, RowUser, Row, ThreadsInit, ThreadsShape
<1>4. \A r \in Runs : run[r] = None
  BY DEF ThreadsInit
<1> QED
  BY <1>1, <1>2, <1>3, <1>4
  DEF TInv, HInv, Untrusted, Claims, Proven, Passed, Guarding, Inside, Reading, RunAt

\* A step of one run that writes no checkpoint and no owner.
LEMMA TKeep ==
  ASSUME TInv, NEW r \in Runs, UNCHANGED <<owners, rows>>, ThreadsShape',
         \A q \in Runs \ {r} : run'[q] = run[q],
         run'[r] # None => ~run'[r].admin,
         RunAt(r, "claim")' =>
           /\ run'[r].claim = Me(r)'
           /\ owners[run'[r].thread] = None => AllOf(run'[r].thread, Me(r)'),
         Passed(r)' => owners[run'[r].thread] = Me(r)'
  PROVE  TInv'
<1>1. HasLast'
  BY SameLog DEF TInv
<1>2. Untrusted'
  BY DEF TInv, Untrusted
<1>3. Claims'
  <2>1. ASSUME NEW q \in Runs \ {r}, RunAt(q, "claim")'
        PROVE  run'[q].claim = Me(q)' /\ (owners'[run'[q].thread] = None => AllOf(run[q].thread, Me(q))')
    BY <2>1 DEF TInv, Claims, RunAt, Me, AllOf, RowUser
  <2>2. RunAt(r, "claim")' =>
          run'[r].claim = Me(r)' /\ (owners'[run'[r].thread] = None => AllOf(run[r].thread, Me(r))')
    BY DEF AllOf, RowUser, Me
  <2> QED BY <2>1, <2>2 DEF Claims
<1>4. Proven'
  BY DEF TInv, Proven, Passed, RunAt, Me
<1>5. ThreadUserFixed'
  BY DEF TInv, ThreadUserFixed
<1> QED BY <1>1, <1>2, <1>3, <1>4, <1>5 DEF TInv

\* A step of one run that writes no checkpoint, and gives or takes the guard for this run only.
LEMMA HKeep ==
  ASSUME HInv, NEW r \in Runs, rows' = rows, ThreadsShape',
         \A q \in Runs \ {r} : run'[q] = run[q],
         \A t \in Threads : holder'[t] = holder[t] \/ holder[t] \in {r, None},
         Inside(r)' => holder'[run'[r].thread] = r,
         ~RunAt(r, "run")'
  PROVE  HInv'
<1>1. HasLast'
  BY SameLog DEF HInv
<1>2. Guarding'
  <2>1. ASSUME NEW q \in Runs \ {r}, Inside(q)' PROVE holder'[run'[q].thread] = q
    <3>1. run'[q] = run[q] /\ run[q] # None /\ holder[run[q].thread] = q
      BY <2>1 DEF HInv, Guarding, Inside, RunAt
    <3>2. run[q].thread \in Threads
      BY <3>1 DEF HInv, ThreadsShape, Asked
    <3> QED BY <3>1, <3>2, ThreadConstantsOK
  <2> QED BY <2>1 DEF Guarding
<1>3. Reading'
  <2>1. \A t : Tip(t)' = Tip(t)
    BY SameLog
  <2>2. ASSUME NEW q \in Runs, NEW t \in Threads, RunAt(q, "run")', run'[q].thread = t
        PROVE  run'[q].seen = Tip(t)'
    <3>1. q # r /\ run'[q] = run[q]
      BY <2>2
    <3>2. RunAt(q, "run") /\ run[q].thread = t
      BY <2>2, <3>1 DEF RunAt
    <3> QED BY <2>1, <3>1, <3>2 DEF HInv, Reading
  <2> QED BY <2>2 DEF Reading
<1> QED BY <1>1, <1>2, <1>3 DEF HInv

LEMMA RequestStep ==
  ASSUME ThreadsShape, NEW r \in Runs, NEW route \in RunRoutes, NEW t \in Threads, NEW u \in Users, NEW a \in Agents,
         NEW admin \in Trusted, RequestRun(r, route, t, u, a, admin)
  PROVE  /\ TRUE \notin Trusted /\ TInv => TInv'
         /\ HInv => HInv'
<1> DEFINE q == [pc |-> IF route = "invoke" THEN "guard" ELSE "authorize", route |-> route,
                 thread |-> t, user |-> u, agent |-> a, admin |-> admin, claim |-> None, seen |-> <<>>]
<1>1. /\ run' = [run EXCEPT ![r] = q] /\ UNCHANGED <<owners, rows, heads, holder, day>>
  BY DEF RequestRun
<1>2. q \in Asked /\ q.admin = admin /\ q.pc \notin {"claim", "build", "run"}
      /\ (q.pc = "guard" => q.route = "invoke") /\ (q.pc = "authorize" => q.route = "stream")
  BY ThreadConstantsOK DEF Asked, RunSteps, RunRoutes
<1> HIDE DEF q
<1>3. ThreadsShape' /\ run'[r] = q /\ \A p \in Runs \ {r} : run'[p] = run[p]
  BY <1>1, <1>2 DEF ThreadsShape
<1>4. ~RunAt(r, "claim")' /\ ~Passed(r)' /\ ~RunAt(r, "run")' /\ ~Inside(r)'
  BY <1>2, <1>3 DEF RunAt, Passed, Inside
<1>5. ASSUME TRUE \notin Trusted, TInv PROVE TInv'
  BY <1>1, <1>2, <1>3, <1>4, <1>5, TKeep, ThreadConstantsOK
<1>6. ASSUME HInv PROVE HInv'
  BY <1>1, <1>3, <1>4, <1>6, HKeep
<1> QED BY <1>5, <1>6

\* A run that is refused, or breaks, knows nothing and holds nothing.
LEMMA RefuseStep ==
  ASSUME ThreadsShape, NEW r \in Runs, run[r] # None, RefuseRun(r), UNCHANGED <<owners, rows, heads, day>>
  PROVE  (TInv => TInv') /\ (HInv => HInv')
<1>1. /\ run' \in [Runs -> Asked \cup {None}] /\ run[r] \in Asked /\ run'[r] = [run[r] EXCEPT !.pc = "refused"]
      /\ \A q \in Runs \ {r} : run'[q] = run[q]
  BY Goes DEF RefuseRun, RunSteps
<1>2. run'[r].pc = "refused" /\ run'[r].admin = run[r].admin
  BY <1>1 DEF Asked
<1>3. ThreadsShape' /\ \A t \in Threads : holder'[t] = holder[t] \/ holder[t] = r
  BY <1>1 DEF ThreadsShape, RefuseRun, ReleaseThread
<1>4. ~RunAt(r, "claim")' /\ ~Passed(r)' /\ ~RunAt(r, "run")' /\ ~Inside(r)'
  BY <1>2 DEF RunAt, Passed, Inside
<1>5. ASSUME TInv PROVE TInv'
  <2>1. ~run[r].admin
    BY <1>5 DEF TInv, Untrusted
  <2> QED BY <1>1, <1>2, <1>3, <1>4, <1>5, <2>1, TKeep
<1>6. ASSUME HInv PROVE HInv'
  BY <1>1, <1>3, <1>4, <1>6, HKeep
<1> QED BY <1>5, <1>6

LEMMA AuthorizeStep ==
  ASSUME ThreadsShape, NEW r \in Runs, Authorize(r)
  PROVE  (TInv => TInv') /\ (HInv => HInv')
<1> DEFINE t == run[r].thread
           me == <<run[r].user, run[r].agent>>
           known == IF Log(t) = {} THEN None ELSE <<rows[LastRow(t)].user, rows[LastRow(t)].agent>>
<1>1. RunAt(r, "authorize") /\ run[r] # None /\ run[r] \in Asked /\ UNCHANGED <<owners, rows, heads, day>>
  BY DEF Authorize, RunAt, ThreadsShape
<1>2. t \in Threads /\ me \in Users \X Agents
  BY <1>1 DEF Asked
<1>3. CASE RefuseRun(r)
  BY <1>1, <1>3, RefuseStep
<1>4. CASE owners[t] = me /\ RunGoto(r, WhenAuthorized(r)) /\ UNCHANGED holder
  <2>1. WhenAuthorized(r) \in RunSteps
    BY DEF WhenAuthorized, RunSteps
  <2>2. /\ run' \in [Runs -> Asked \cup {None}] /\ run'[r] = [run[r] EXCEPT !.pc = WhenAuthorized(r)]
        /\ \A q \in Runs \ {r} : run'[q] = run[q]
    BY <1>1, <1>4, <2>1, Goes
  <2>3. /\ run'[r].pc = WhenAuthorized(r) /\ run'[r].thread = t /\ run'[r].admin = run[r].admin
        /\ Me(r)' = me /\ run'[r].route = run[r].route
    BY <1>1, <2>2 DEF Asked, Me
  <2>4. ThreadsShape'
    BY <1>1, <1>4, <2>2 DEF ThreadsShape
  <2>5. ~RunAt(r, "claim")' /\ ~RunAt(r, "run")'
    BY <2>3 DEF RunAt, WhenAuthorized
  <2>6. Inside(r)' => Inside(r)
    BY <1>1, <2>3 DEF Inside, RunAt, WhenAuthorized
  <2>7. ASSUME TInv PROVE TInv'
    <3>1. ~run[r].admin
      BY <1>1, <2>7 DEF TInv, Untrusted
    <3> QED BY <1>1, <1>4, <2>2, <2>3, <2>4, <2>5, <2>7, <3>1, TKeep
  <2>8. ASSUME HInv PROVE HInv'
    <3>1. Inside(r)' => holder'[run'[r].thread] = r
      BY <1>4, <2>3, <2>6, <2>8 DEF HInv, Guarding
    <3> QED BY <1>1, <1>4, <2>2, <2>4, <2>5, <2>8, <3>1, HKeep
  <2> QED BY <2>7, <2>8
<1>5. CASE /\ owners[t] = None /\ (known \in {None, me} \/ run[r].admin)
           /\ run' = [run EXCEPT ![r].pc = "claim", ![r].claim = IF known = None THEN me ELSE known]
           /\ UNCHANGED holder
  <2> DEFINE c == IF known = None THEN me ELSE known
             q == [run[r] EXCEPT !.pc = "claim", !.claim = c]
  <2>1. run' = [run EXCEPT ![r] = q]
    BY <1>1, <1>5 DEF ThreadsShape
  <2>2. ASSUME HasLast, Log(t) # {}
        PROVE  /\ LastRow(t) \in DOMAIN rows /\ rows[LastRow(t)].thread = t /\ known = RowUser(LastRow(t))
               /\ known \in Users \X Agents /\ known # None
    <3>1. LastRow(t) \in DOMAIN rows /\ rows[LastRow(t)].thread = t
      BY <1>2, <2>2, TipIsARow DEF ThreadsShape
    <3>2. rows[LastRow(t)] \in Row
      BY <3>1 DEF ThreadsShape
    <3> QED BY <2>2, <3>1, <3>2, ThreadConstantsOK DEF Row, RowUser
  <2>3. ASSUME HasLast PROVE c \in Users \X Agents
    BY <1>2, <2>2, <2>3
  <2> HIDE DEF c
  <2>4. q.pc = "claim" /\ q.claim = c /\ q.thread = t /\ q.admin = run[r].admin /\ q.route = run[r].route
        /\ <<q.user, q.agent>> = me
    BY <1>1 DEF Asked
  <2>5. ASSUME HasLast PROVE q \in Asked
    BY <1>1, <2>3, <2>5 DEF Asked, RunSteps
  <2> HIDE DEF q
  <2>6. ASSUME HasLast PROVE ThreadsShape'
    <3>1. UNCHANGED <<owners, rows, heads, holder, day>> /\ run' \in [Runs -> Asked \cup {None}]
      <4>1. q \in Asked
        BY <2>5, <2>6
      <4>2. UNCHANGED holder
        BY <1>5
      <4> QED BY <1>1, <2>1, <4>1, <4>2 DEF ThreadsShape
    <3> QED BY <3>1 DEF ThreadsShape
  <2>7. run'[r] = q /\ \A p \in Runs \ {r} : run'[p] = run[p]
    BY <2>1 DEF ThreadsShape
  <2>8. ~Passed(r)' /\ ~RunAt(r, "run")' /\ (Inside(r)' => Inside(r))
    BY <1>1, <2>4, <2>7 DEF Passed, RunAt, Inside
  <2>9. ASSUME TInv PROVE TInv'
    <3>1. ~run[r].admin /\ known \in {None, me} /\ HasLast
      BY <1>1, <1>5, <2>9 DEF TInv, Untrusted
    <3>2. c = me
      BY <3>1 DEF c
    <3>3. AllOf(t, me)
      <4>1. CASE Log(t) = {}
        BY <4>1 DEF AllOf, Log
      <4>2. CASE Log(t) # {}
        <5>1. LastRow(t) \in DOMAIN rows /\ rows[LastRow(t)].thread = t /\ RowUser(LastRow(t)) = me
          BY <2>2, <3>1, <4>2
        <5>2. \A i \in DOMAIN rows : rows[i].thread = t => RowUser(i) = RowUser(LastRow(t))
          BY <2>9, <5>1, SameUser DEF TInv, ThreadsShape
        <5> QED BY <5>1, <5>2 DEF AllOf
      <4> QED BY <4>1, <4>2
    <3>4. Me(r)' = me
      BY <2>4, <2>7 DEF Me
    <3> QED BY <1>1, <2>4, <2>6, <2>7, <2>8, <2>9, <3>1, <3>2, <3>3, <3>4, TKeep
  <2>10. ASSUME HInv PROVE HInv'
    <3>1. Inside(r)' => holder'[run'[r].thread] = r
      BY <1>5, <2>4, <2>7, <2>8, <2>10 DEF HInv, Guarding
    <3> QED BY <1>1, <1>5, <2>6, <2>7, <2>8, <2>10, <3>1, HKeep DEF HInv
  <2> QED BY <2>9, <2>10
<1> QED BY <1>3, <1>4, <1>5 DEF Authorize

LEMMA ClaimStep ==
  ASSUME ThreadsShape, NEW r \in Runs, Claim(r)
  PROVE  (TInv => TInv') /\ (HInv => HInv')
<1> DEFINE t == run[r].thread
           claim == run[r].claim
<1>1. /\ RunAt(r, "claim") /\ run[r] # None /\ run[r] \in Asked /\ t \in Threads
      /\ owners' = [owners EXCEPT ![t] = IF @ = None THEN claim ELSE @]
      /\ rows' = rows /\ heads' = heads /\ day' = day
  BY DEF Claim, RunAt, ThreadsShape, Asked
<1>2. /\ claim \in (Users \X Agents) \cup {None}
      /\ owners' \in [Threads -> (Users \X Agents) \cup {None}]
      /\ owners'[t] = IF owners[t] = None THEN claim ELSE owners[t]
      /\ \A s \in Threads \ {t} : owners'[s] = owners[s]
  BY <1>1 DEF ThreadsShape, Asked
<1>3. ASSUME TInv
      PROVE  /\ owners[t] = None => claim = Me(r) /\ AllOf(t, Me(r))
             /\ claim = Me(r) /\ Me(r) # None /\ ~run[r].admin
  BY <1>1, <1>3, ThreadConstantsOK DEF TInv, Claims, Untrusted, Me, Asked
<1>4. ASSUME TInv PROVE ThreadUserFixed' /\ HasLast'
  <2>1. HasLast'
    BY <1>1, <1>4, SameLog DEF TInv
  <2>2. \A i \in DOMAIN rows : rows[i].thread \in Threads
    <3>1. \A i \in DOMAIN rows : rows[i] \in Row
      BY DEF ThreadsShape
    <3> QED BY <3>1 DEF Row
  <2>3. ASSUME NEW i \in DOMAIN rows PROVE owners'[rows[i].thread] \in {None, <<rows[i].user, rows[i].agent>>}
    <3>1. CASE rows[i].thread = t /\ owners[t] = None
      BY <1>2, <1>3, <1>4, <3>1 DEF AllOf, RowUser
    <3>2. CASE rows[i].thread # t \/ owners[t] # None
      <4>1. owners'[rows[i].thread] = owners[rows[i].thread]
        BY <1>2, <2>2, <3>2
      <4> QED BY <1>4, <4>1 DEF TInv, ThreadUserFixed
    <3> QED BY <3>1, <3>2
  <2>4. ThreadUserFixed'
    BY <1>1, <1>4, <2>3 DEF TInv, ThreadUserFixed
  <2> QED BY <2>1, <2>4
\* What others know of owners stays true.
<1>5. ASSUME TInv, NEW q \in Runs, run'[q] = run[q]
      PROVE  /\ RunAt(q, "claim")' =>
                  /\ run'[q].claim = Me(q)'
                  /\ owners'[run'[q].thread] = None => AllOf(run[q].thread, Me(q))'
             /\ Passed(q)' => owners'[run'[q].thread] = Me(q)'
             /\ run'[q] # None => ~run'[q].admin
  <2>1. run[q] # None => run[q].thread \in Threads /\ Me(q) # None
    BY ThreadConstantsOK DEF ThreadsShape, Asked, Me
  <2>2. \A s \in Threads : owners[s] # None => owners'[s] = owners[s]
    BY <1>2
  <2>3. RunAt(q, "claim")' =>
          /\ run'[q].claim = Me(q)'
          /\ owners'[run'[q].thread] = None => AllOf(run[q].thread, Me(q))'
    BY <1>1, <1>5, <2>1, <2>2 DEF TInv, Claims, RunAt, Me, AllOf, RowUser
  <2>4. Passed(q)' => owners'[run'[q].thread] = Me(q)'
    BY <1>5, <2>1, <2>2 DEF TInv, Proven, Passed, RunAt, Me
  <2> QED BY <1>5, <2>3, <2>4 DEF TInv, Untrusted
<1>6. CASE owners'[t] = claim /\ RunGoto(r, WhenAuthorized(r)) /\ UNCHANGED holder
  <2>1. WhenAuthorized(r) \in RunSteps
    BY DEF WhenAuthorized, RunSteps
  <2>2. /\ run' \in [Runs -> Asked \cup {None}] /\ run'[r] = [run[r] EXCEPT !.pc = WhenAuthorized(r)]
        /\ \A q \in Runs \ {r} : run'[q] = run[q]
    BY <1>1, <1>6, <2>1, Goes
  <2>3. /\ run'[r].pc = WhenAuthorized(r) /\ run'[r].thread = t /\ run'[r].admin = run[r].admin
        /\ Me(r)' = Me(r) /\ run'[r].route = run[r].route
    BY <1>1, <2>2 DEF Asked, Me
  <2>4. ThreadsShape'
    BY <1>1, <1>2, <1>6, <2>2 DEF ThreadsShape
  <2>5. ~RunAt(r, "claim")' /\ ~RunAt(r, "run")'
    BY <2>3 DEF RunAt, WhenAuthorized
  <2>6. Inside(r)' => Inside(r)
    BY <1>1, <2>3 DEF Inside, RunAt, WhenAuthorized
  <2>7. ASSUME TInv PROVE TInv'
    <3>1. Claims'
      BY <1>5, <2>2, <2>5, <2>7 DEF Claims
    <3>2. Proven'
      BY <1>3, <1>5, <1>6, <2>2, <2>3, <2>7 DEF Proven
    <3>3. Untrusted'
      BY <1>3, <1>5, <2>2, <2>3, <2>7 DEF Untrusted
    <3> QED BY <1>4, <2>4, <2>7, <3>1, <3>2, <3>3 DEF TInv
  <2>8. ASSUME HInv PROVE HInv'
    <3>1. Inside(r)' => holder'[run'[r].thread] = r
      BY <1>6, <2>3, <2>6, <2>8 DEF HInv, Guarding
    <3> QED BY <1>1, <1>6, <2>2, <2>4, <2>5, <2>8, <3>1, HKeep
  <2> QED BY <2>7, <2>8
<1>7. CASE RefuseRun(r)
  <2>1. /\ run' \in [Runs -> Asked \cup {None}] /\ run'[r] = [run[r] EXCEPT !.pc = "refused"]
        /\ \A q \in Runs \ {r} : run'[q] = run[q]
    BY <1>1, <1>7, Goes DEF RefuseRun, RunSteps
  <2>2. run'[r].pc = "refused" /\ run'[r].admin = run[r].admin
    BY <1>1, <2>1 DEF Asked
  <2>3. ThreadsShape' /\ \A s \in Threads : holder'[s] = holder[s] \/ holder[s] = r
    BY <1>1, <1>2, <1>7, <2>1 DEF ThreadsShape, RefuseRun, ReleaseThread
  <2>4. ~RunAt(r, "claim")' /\ ~Passed(r)' /\ ~RunAt(r, "run")' /\ ~Inside(r)'
    BY <2>2 DEF RunAt, Passed, Inside
  <2>5. ASSUME TInv PROVE TInv'
    <3>1. Claims' /\ Proven'
      BY <1>5, <2>1, <2>4, <2>5 DEF Claims, Proven
    <3>2. Untrusted'
      BY <1>3, <1>5, <2>1, <2>2, <2>5 DEF Untrusted
    <3> QED BY <1>4, <2>3, <2>5, <3>1, <3>2 DEF TInv
  <2>6. ASSUME HInv PROVE HInv'
    BY <1>1, <2>1, <2>3, <2>4, <2>6, HKeep
  <2> QED BY <2>5, <2>6
<1> QED BY <1>6, <1>7 DEF Claim

LEMMA EnterStep ==
  ASSUME ThreadsShape, NEW r \in Runs, EnterThread(r)
  PROVE  (TInv => TInv') /\ (HInv => HInv')
<1> DEFINE t == run[r].thread
           pc == IF run[r].route = "invoke" THEN "authorize" ELSE "build"
<1>1. RunAt(r, "guard") /\ run[r] # None /\ run[r] \in Asked /\ UNCHANGED <<owners, rows, heads, day>> /\ t \in Threads
  BY DEF EnterThread, RunAt, ThreadsShape, Asked
<1>2. CASE RefuseRun(r)
  BY <1>1, <1>2, RefuseStep
<1>3. CASE holder[t] = None /\ holder' = [holder EXCEPT ![t] = r] /\ RunGoto(r, pc)
  <2>1. pc \in RunSteps
    BY DEF RunSteps
  <2>2. /\ run' \in [Runs -> Asked \cup {None}] /\ run'[r] = [run[r] EXCEPT !.pc = pc]
        /\ \A q \in Runs \ {r} : run'[q] = run[q]
    BY <1>1, <1>3, <2>1, Goes
  <2>3. /\ run'[r].pc = pc /\ run'[r].thread = t /\ run'[r].admin = run[r].admin
        /\ Me(r)' = Me(r) /\ run'[r].route = run[r].route
    BY <1>1, <2>2 DEF Asked, Me
  <2>4. /\ ThreadsShape' /\ holder'[t] = r
        /\ \A s \in Threads : holder'[s] = holder[s] \/ holder[s] = None
    BY <1>1, <1>3, <2>2 DEF ThreadsShape
  <2>5. ~RunAt(r, "claim")' /\ ~RunAt(r, "run")' /\ (Passed(r)' => Passed(r))
    BY <1>1, <2>3 DEF RunAt, Passed, Asked, RunRoutes
  <2>6. ASSUME TInv PROVE TInv'
    <3>1. ~run[r].admin
      BY <1>1, <2>6 DEF TInv, Untrusted
    <3>2. Passed(r)' => owners[run'[r].thread] = Me(r)'
      BY <2>3, <2>5, <2>6 DEF TInv, Proven
    <3> QED BY <1>1, <2>2, <2>3, <2>4, <2>5, <2>6, <3>1, <3>2, TKeep
  <2>7. ASSUME HInv PROVE HInv'
    BY <1>1, <2>2, <2>3, <2>4, <2>5, <2>7, HKeep
  <2> QED BY <2>6, <2>7
<1> QED BY <1>2, <1>3 DEF EnterThread

\* A run writes a checkpoint, keeps or gives back the guard, and goes on to "run" or is done.
LEMMA WriteStep ==
  ASSUME ThreadsShape, NEW r \in Runs, RunAt(r, "build") \/ RunAt(r, "run"), NEW messages \in Seq(Nat),
         NEW t, t = run[r].thread,
         Checkpoint(r, messages), UNCHANGED <<owners, day>>,
         NEW pc \in {"run", "done"}, NEW seen \in Seq(Nat), pc = "run" => seen = messages,
         run' = [run EXCEPT ![r].pc = pc, ![r].seen = seen],
         IF pc = "run" THEN UNCHANGED holder ELSE ReleaseThread(r)
  PROVE  /\ TInv => TInv'
         /\ HInv => HInv' /\ Tip(t)' = messages /\ \A s \in Threads \ {t} : Tip(s)' = Tip(s)
<1>1. run[r] # None /\ run[r] \in Asked /\ t \in Threads
  BY DEF RunAt, ThreadsShape, Asked
<1>2. PICK c \in Row : /\ rows' = Append(rows, c) /\ c.thread = t /\ <<c.user, c.agent>> = Me(r)
                       /\ c.messages = messages
  <2> DEFINE d == [thread |-> t, user |-> run[r].user, agent |-> run[r].agent, day |-> day,
                   messages |-> messages]
  <2>1. rows' = Append(rows, d)
    BY DEF Checkpoint
  <2>2. d \in Row /\ d.thread = t /\ <<d.user, d.agent>> = Me(r) /\ d.messages = messages
    BY <1>1 DEF Row, Asked, ThreadsShape, Me
  <2> HIDE DEF d
  <2> QED BY <2>1, <2>2
<1>3. heads' \in Seq(HeadRows)
  <2>1. HeadRow(r) \in HeadRows
    BY <1>1 DEF HeadRow, HeadRows, Asked
  <2>2. heads \in Seq(HeadRows) /\ Append(heads, HeadRow(r)) \in Seq(HeadRows)
    BY <2>1, AppendProperties DEF ThreadsShape
  <2> QED BY <2>2 DEF Checkpoint
<1>4. ASSUME HasLast
      PROVE  /\ rows' \in Seq(Row) /\ HasLast'
             /\ DOMAIN rows' = DOMAIN rows \cup {Len(rows) + 1}
             /\ \A i \in DOMAIN rows : rows'[i] = rows[i]
             /\ rows'[Len(rows) + 1] = c
             /\ Tip(t)' = messages
             /\ \A s \in Threads \ {t} : Tip(s)' = Tip(s)
  <2>1. rows \in Seq(Row)
    BY DEF ThreadsShape
  <2> QED BY <1>2, <1>4, <2>1, Appended
<1>5. /\ run'[r].pc = pc /\ run'[r].seen = seen /\ run'[r].thread = t /\ run'[r].admin = run[r].admin
      /\ Me(r)' = Me(r) /\ run'[r] \in Asked
      /\ \A q \in Runs \ {r} : run'[q] = run[q]
  BY <1>1 DEF ThreadsShape, Asked, RunSteps, Me
<1>6. /\ \A s \in Threads : holder'[s] = holder[s] \/ holder[s] = r
      /\ pc = "run" => holder' = holder
      /\ holder' \in [Threads -> Runs \cup {None}]
  BY DEF ReleaseThread, ThreadsShape
<1>7. ASSUME HasLast PROVE ThreadsShape'
  BY <1>3, <1>4, <1>5, <1>6, <1>7 DEF ThreadsShape
<1>8. ASSUME TInv PROVE TInv'
  <2>1. HasLast /\ owners[t] = Me(r) /\ Me(r) # None /\ ~run[r].admin
    <3>1. Passed(r)
      BY DEF Passed
    <3>2. Me(r) \in Users \X Agents
      BY <1>1 DEF Me, Asked
    <3> QED BY <1>1, <1>8, <3>1, <3>2, ThreadConstantsOK DEF TInv, Proven, Untrusted
  <2>2. \A i \in DOMAIN rows : rows[i].thread = t => RowUser(i) = Me(r)
    BY <1>8, <2>1 DEF TInv, ThreadUserFixed, RowUser
  <2>3. \A i \in DOMAIN rows' : rows'[i].thread = t => RowUser(i)' = Me(r)
    BY <1>2, <1>4, <2>1, <2>2 DEF RowUser
  <2>4. \A i \in DOMAIN rows' : rows'[i].thread # t =>
           i \in DOMAIN rows /\ rows'[i] = rows[i] /\ RowUser(i)' = RowUser(i)
    BY <1>2, <1>4, <2>1 DEF RowUser
  <2>5. ThreadUserFixed'
    <3> SUFFICES ASSUME NEW i \in DOMAIN rows'
                 PROVE  /\ \A j \in 1 .. i : rows'[j].thread = rows'[i].thread => RowUser(j)' = RowUser(i)'
                        /\ owners'[rows'[i].thread] \in {None, RowUser(i)'}
      BY DEF ThreadUserFixed, RowUser
    <3>1. 1 .. i \subseteq DOMAIN rows'
      BY <1>4, <2>1 DEF ThreadsShape
    <3>2. CASE rows'[i].thread = t
      BY <2>1, <2>3, <3>1, <3>2
    <3>3. CASE rows'[i].thread # t
      <4>1. i \in DOMAIN rows /\ rows'[i] = rows[i] /\ RowUser(i)' = RowUser(i)
        BY <2>4, <3>3
      <4>2. owners'[rows'[i].thread] \in {None, RowUser(i)'}
        BY <1>8, <4>1 DEF TInv, ThreadUserFixed, RowUser
      <4>3. ASSUME NEW j \in 1 .. i, rows'[j].thread = rows'[i].thread PROVE RowUser(j)' = RowUser(i)'
        <5>1. j \in DOMAIN rows /\ rows'[j] = rows[j] /\ RowUser(j)' = RowUser(j)
          BY <2>4, <3>1, <3>3, <4>3
        <5>2. RowUser(j) = RowUser(i)
          BY <1>8, <4>1, <4>3, <5>1 DEF TInv, ThreadUserFixed, RowUser
        <5> QED BY <4>1, <5>1, <5>2
      <4> QED BY <4>2, <4>3
    <3> QED BY <3>2, <3>3
  <2>6. Claims'
    <3> SUFFICES ASSUME NEW q \in Runs, RunAt(q, "claim")'
                 PROVE  /\ run'[q].claim = Me(q)'
                        /\ owners'[run'[q].thread] = None => AllOf(run[q].thread, Me(q))'
      BY DEF Claims
    <3>1. run'[q] = run[q] /\ RunAt(q, "claim") /\ Me(q)' = Me(q)
      BY <1>5 DEF RunAt, Me
    <3>2. run[q].claim = Me(q) /\ (owners[run[q].thread] = None => AllOf(run[q].thread, Me(q)))
      BY <1>8, <3>1 DEF TInv, Claims
    <3>3. ASSUME owners[run[q].thread] = None PROVE AllOf(run[q].thread, Me(q))'
      BY <2>1, <2>4, <3>1, <3>2, <3>3 DEF AllOf
    <3> QED BY <3>1, <3>2, <3>3
  <2>7. Proven'
    <3>1. ASSUME NEW q \in Runs \ {r}, Passed(q)' PROVE owners'[run'[q].thread] = Me(q)'
      BY <1>5, <1>8, <3>1 DEF TInv, Proven, Passed, RunAt, Me
    <3> QED BY <1>5, <2>1, <3>1 DEF Proven
  <2>8. Untrusted'
    BY <1>5, <1>8, <2>1 DEF TInv, Untrusted
  <2> QED BY <1>4, <1>7, <2>1, <2>5, <2>6, <2>7, <2>8 DEF TInv
<1>9. ASSUME HInv
      PROVE  HInv' /\ Tip(t)' = messages /\ \A s \in Threads \ {t} : Tip(s)' = Tip(s)
  <2>1. HasLast /\ holder[t] = r /\ r # None
    BY <1>9, ThreadConstantsOK DEF HInv, Guarding, Inside
  <2>2. ASSUME NEW q \in Runs \ {r}, Inside(q)'
        PROVE  holder'[run'[q].thread] = q /\ run'[q].thread \in Threads \ {t}
    <3>1. run'[q] = run[q] /\ run[q] # None /\ holder[run[q].thread] = q
      BY <1>5, <1>9, <2>2 DEF HInv, Guarding, Inside, RunAt
    <3>2. run[q].thread \in Threads
      BY <3>1 DEF ThreadsShape, Asked
    <3> QED BY <1>6, <2>1, <3>1, <3>2
  <2>3. Guarding'
    <3>1. Inside(r)' => holder'[run'[r].thread] = r
      BY <1>5, <1>6, <2>1 DEF Inside, RunAt
    <3> QED BY <2>2, <3>1 DEF Guarding
  <2>4. Reading'
    <3>1. ASSUME NEW q \in Runs \ {r}, NEW s \in Threads, RunAt(q, "run")', run'[q].thread = s
          PROVE  run'[q].seen = Tip(s)'
      <4>1. run'[q] = run[q] /\ RunAt(q, "run")
        BY <1>5, <3>1 DEF RunAt
      <4>2. s # t
        BY <2>2, <3>1, <4>1 DEF Inside
      <4>3. run[q].seen = Tip(s)
        BY <1>9, <3>1, <4>1 DEF HInv, Reading
      <4> QED BY <1>4, <2>1, <4>1, <4>2, <4>3
    <3>2. RunAt(r, "run")' => run'[r].thread = t /\ run'[r].seen = Tip(t)'
      BY <1>4, <1>5, <2>1 DEF RunAt
    <3> QED BY <3>1, <3>2 DEF Reading
  <2> QED BY <1>4, <1>7, <2>1, <2>3, <2>4 DEF HInv
<1> QED BY <1>8, <1>9

LEMMA BreakStep ==
  ASSUME ThreadsShape, NEW r \in Runs, BreakRun(r)
  PROVE  (TInv => TInv') /\ (HInv => HInv')
  BY RefuseStep DEF BreakRun, RunAt

LEMMA PrefixOfAppend ==
  ASSUME NEW s \in Seq(Nat), NEW n
  PROVE  IsPrefix(s, s) /\ IsPrefix(s, Append(s, n))
<1>1. Len(Append(s, n)) = Len(s) + 1 /\ Len(s) \in Nat
  OBVIOUS
<1>2. SubSeq(s, 1, Len(s)) = s
  OBVIOUS
<1>3. SubSeq(Append(s, n), 1, Len(s)) = s
  OBVIOUS
<1> QED BY <1>1, <1>2, <1>3 DEF IsPrefix

\* StartRun and EndRun read and write the thread under the guard.
LEMMA RunSteps_Write ==
  ASSUME ThreadsShape, NEW r \in Runs, StartRun(r) \/ EndRun(r)
  PROVE  /\ TInv => TInv'
         /\ HInv => HInv' /\ \A t \in Threads : IsPrefix(Tip(t), Tip(t)')
<1>1. run[r] # None /\ run[r] \in Asked /\ (RunAt(r, "build") \/ RunAt(r, "run"))
  BY DEF StartRun, EndRun, RunAt, ThreadsShape
<1>2. PICK t \in Threads : t = run[r].thread
  BY <1>1 DEF Asked
<1>3. TInv \/ HInv => Tip(t) \in Seq(Nat) /\ \A s \in Threads : Tip(s) \in Seq(Nat)
  BY <1>2, TipIsARow DEF TInv, HInv, ThreadsShape
<1>4. CASE StartRun(r)
  <2> SUFFICES ASSUME TInv \/ HInv
               PROVE  (TInv => TInv') /\ (HInv => HInv' /\ \A s \in Threads : IsPrefix(Tip(s), Tip(s)'))
    OBVIOUS
  <2>1. PICK m \in Seq(Nat) : m = Tip(t)
    BY <1>3
  <2>2. /\ Checkpoint(r, m) /\ UNCHANGED <<owners, day>> /\ UNCHANGED holder
        /\ run' = [run EXCEPT ![r].pc = "run", ![r].seen = m]
    BY <1>2, <1>4, <2>1 DEF StartRun
  <2>3. (TInv => TInv') /\ (HInv => HInv' /\ Tip(t)' = m /\ \A s \in Threads \ {t} : Tip(s)' = Tip(s))
    BY <1>1, <1>2, <2>2, WriteStep
  <2> QED BY <1>3, <2>1, <2>3, PrefixOfAppend
<1>5. CASE EndRun(r)
  <2>1. run[r].seen \in Seq(Nat)
    BY <1>1 DEF Asked
  <2>2. PICK m \in Seq(Nat) : m = Append(run[r].seen, Len(rows))
    <3>1. Len(rows) \in Nat
      BY DEF ThreadsShape
    <3>2. Append(run[r].seen, Len(rows)) \in Seq(Nat)
      BY <2>1, <3>1, AppendProperties
    <3> QED BY <3>2
  <2>3. PICK seen \in Seq(Nat) : seen = run[r].seen
    BY <2>1
  <2>4. /\ Checkpoint(r, m) /\ UNCHANGED <<owners, day>> /\ ReleaseThread(r)
        /\ run' = [run EXCEPT ![r].pc = "done", ![r].seen = seen]
    BY <1>1, <1>5, <2>2, <2>3 DEF EndRun, RunGoto, Asked, ThreadsShape
  <2>5. (TInv => TInv') /\ (HInv => HInv' /\ Tip(t)' = m /\ \A s \in Threads \ {t} : Tip(s)' = Tip(s))
    BY <1>1, <1>2, <2>4, WriteStep
  <2>6. HInv => seen = Tip(t)
    BY <1>2, <1>5, <2>3 DEF HInv, Reading, EndRun
  <2> QED BY <1>3, <2>2, <2>3, <2>5, <2>6, PrefixOfAppend
<1> QED BY <1>4, <1>5

\* A subgraph's namespace begins behind the others.
LEMMA CallStep ==
  ASSUME ThreadsShape, NEW r \in Runs, CallSubgraph(r)
  PROVE  (TInv => TInv') /\ (HInv => HInv') /\ ThreadsShape'
<1>1. run[r] \in Asked /\ UNCHANGED <<owners, rows, run, holder, day>>
  BY DEF CallSubgraph, RunAt, ThreadsShape
<1>2. HeadRow(r) \in HeadRows
  BY <1>1 DEF HeadRow, HeadRows, Asked
<1>3. heads' \in Seq(HeadRows)
  BY <1>2, AppendProperties DEF CallSubgraph, ThreadsShape
<1>4. ThreadsShape'
  BY <1>1, <1>3 DEF ThreadsShape
<1>5. TInv => TInv'
  BY <1>1, <1>4, SameLog
  DEF TInv, Untrusted, Claims, Proven, Passed, RunAt, Me, AllOf, RowUser, ThreadUserFixed
<1>6. HInv => HInv'
  <2>1. Reading => Reading'
    BY <1>1, SameLog DEF Reading, RunAt
  <2> QED BY <1>1, <1>4, <2>1, SameLog DEF HInv, Guarding, Inside, RunAt
<1> QED BY <1>4, <1>5, <1>6

LEMMA OtherThreadSteps ==
  ASSUME Midnight \/ UNCHANGED threadVars
  PROVE  (TInv => TInv') /\ (HInv => HInv')
<1>1. UNCHANGED <<owners, rows, heads, run, holder>> /\ day' \in {day, day + 1}
  BY DEF Midnight, threadVars
<1>2. ThreadsShape => ThreadsShape'
  BY <1>1 DEF ThreadsShape
<1>3. TInv => TInv'
  BY <1>1, <1>2, SameLog
  DEF TInv, Untrusted, Claims, Proven, Passed, RunAt, Me, AllOf, RowUser, ThreadUserFixed
<1>4. HInv => HInv'
  <2>1. Reading => Reading'
    BY <1>1, SameLog DEF Reading, RunAt
  <2> QED BY <1>1, <1>2, <2>1, SameLog DEF HInv, Guarding, Inside, RunAt
<1> QED BY <1>3, <1>4

LEMMA ThreadsStep ==
  ASSUME [ThreadsNext]_threadVars, ThreadsShape
  PROVE  /\ TRUE \notin Trusted /\ TInv => TInv'
         /\ HInv => HInv'
  BY RequestStep, AuthorizeStep, ClaimStep, EnterStep, RunSteps_Write, CallStep, BreakStep, OtherThreadSteps
  DEF ThreadsNext

\* What a thread says is added to, in every step.
LEMMA TipsGrow ==
  HInv /\ [ThreadsNext]_threadVars => [\A t \in Threads : IsPrefix(Tip(t), Tip(t)')]_threadVars
<1> SUFFICES ASSUME HInv, [ThreadsNext]_threadVars PROVE \A t \in Threads : IsPrefix(Tip(t), Tip(t)')
  OBVIOUS
<1>1. ASSUME rows' = rows PROVE \A t \in Threads : IsPrefix(Tip(t), Tip(t)')
  BY <1>1, SameLog, TipIsARow, PrefixOfAppend DEF HInv, ThreadsShape
<1>2. ASSUME NEW r \in Runs, StartRun(r) \/ EndRun(r) PROVE \A t \in Threads : IsPrefix(Tip(t), Tip(t)')
  BY <1>2, RunSteps_Write DEF HInv
<1> QED
  BY <1>1, <1>2
  DEF ThreadsNext, threadVars, RequestRun, Authorize, Claim, EnterThread, CallSubgraph, BreakRun, Midnight

\* Whoever races for a new thread, its checkpoints and its owner name one user and one agent
\* ("Thread user_id cannot change", auth.py:79).
THEOREM ThreadUserNeverChanges ==
  ASSUME TRUE \notin Trusted
  PROVE  ThreadsSpec => []ThreadUserFixed
<1>1. TInv /\ [ThreadsNext]_threadVars => TInv'
  BY ThreadsStep DEF TInv
<1>2. TInv => ThreadUserFixed
  BY DEF TInv
<1>3. ThreadsInit => TInv
  BY ThreadsBegin
<1> QED BY <1>1, <1>2, <1>3, PTL DEF ThreadsSpec

\* Overlapping runs of a thread, trusted or not, lose none of its messages (agent_runner.py:47).
THEOREM NothingIsLost == ThreadsSpec => HistoryGrows
<1>1. HInv /\ [ThreadsNext]_threadVars => HInv'
  BY ThreadsStep DEF HInv
<1>2. ThreadsInit => HInv
  BY ThreadsBegin
<1> QED BY <1>1, <1>2, TipsGrow, PTL DEF ThreadsSpec, HistoryGrows

-----------------------------------------------------------------------------
(* Numbers, orders and pieces of sequences. *)

\* A set of numbers has a least one.
LEMMA Least ==
  ASSUME NEW S \in SUBSET Nat, S # {}
  PROVE  \E m \in S : \A k \in S : m =< k
<1> DEFINE Up(k) == 1 .. k
           F == {Up(k) : k \in S}
<1>1. F \subseteq FiniteSubsetsOf(Nat) /\ F # {}
  <2>1. \A k \in S : Up(k) \subseteq Nat /\ IsFiniteSet(Up(k))
    BY FS_Interval
  <2> QED BY <2>1 DEF FiniteSubsetsOf
<1>2. PICK U \in F : \A V \in F : <<V, U>> \notin StrictSubsetOrdering(Nat)
  BY <1>1, FS_StrictSubsetOrderingWellFounded, WFMin
<1>3. PICK m \in S : U = Up(m)
  BY <1>2
<1>4. ASSUME NEW k \in S, k < m PROVE FALSE
  <2>1. Up(k) \subseteq Up(m) /\ m \in Up(m) /\ m \notin Up(k) /\ Up(k) \subseteq Nat /\ Up(m) \subseteq Nat
    BY <1>4
  <2>2. <<Up(k), U>> \in StrictSubsetOrdering(Nat)
    BY <1>3, <2>1 DEF StrictSubsetOrdering
  <2> QED BY <1>2, <2>2
<1> QED BY <1>4

\* Elements that are told apart by a number can be put in its order.
LEMMA Order ==
  ASSUME NEW S, IsFiniteSet(S), NEW f \in [S -> Int], \A x, y \in S : f[x] = f[y] => x = y
  PROVE  \E s \in [1 .. Cardinality(S) -> S] : \A i, j \in DOMAIN s : i < j => f[s[i]] < f[s[j]]
<1> DEFINE n == Cardinality(S)
           Below(x) == {y \in S : f[y] < f[x]}
           rank == [x \in S |-> Cardinality(Below(x)) + 1]
<1>1. n \in Nat
  BY FS_CardinalityType
<1>2. \A x \in S : /\ IsFiniteSet(Below(x)) /\ Cardinality(Below(x)) \in Nat
                   /\ Cardinality(Below(x)) =< n /\ Cardinality(Below(x)) # n
  <2> SUFFICES ASSUME NEW x \in S
               PROVE  /\ IsFiniteSet(Below(x)) /\ Cardinality(Below(x)) \in Nat
                      /\ Cardinality(Below(x)) =< n /\ Cardinality(Below(x)) # n
    OBVIOUS
  <2>1. Below(x) \in SUBSET S /\ x \notin Below(x)
    OBVIOUS
  <2> HIDE DEF Below
  <2> QED BY <2>1, FS_Subset, FS_CardinalityType
<1>3. \A x, y \in S : f[x] < f[y] => rank[x] < rank[y]
  <2> SUFFICES ASSUME NEW x \in S, NEW y \in S, f[x] < f[y] PROVE rank[x] < rank[y]
    OBVIOUS
  <2>1. Below(x) \in SUBSET Below(y) /\ x \in Below(y) /\ x \notin Below(x)
    OBVIOUS
  <2> HIDE DEF Below
  <2>2. Cardinality(Below(x)) =< Cardinality(Below(y)) /\ Cardinality(Below(x)) # Cardinality(Below(y))
    BY <1>2, <2>1, FS_Subset
  <2> QED BY <1>2, <2>2
<1>4. rank \in [S -> 1 .. n]
  <2> HIDE DEF Below
  <2> QED BY <1>1, <1>2
<1> HIDE DEF rank
<1>5. rank \in Injection(S, 1 .. n)
  <2>1. \A x, y \in S : rank[x] = rank[y] => x = y
    BY <1>3, <1>4
  <2> QED BY <1>4, <2>1, Fun_IsInj
<1>6. rank \in Surjection(S, 1 .. n)
  <2>1. IsFiniteSet(1 .. n) /\ Cardinality(1 .. n) = n
    BY <1>1, FS_Interval
  <2> QED BY <1>5, <2>1, FS_Injection
<1> DEFINE s == [i \in 1 .. n |-> CHOOSE x \in S : rank[x] = i]
<1>7. \A i \in 1 .. n : s[i] \in S /\ rank[s[i]] = i
  <2>1. \A i \in 1 .. n : \E x \in S : rank[x] = i
    BY <1>6 DEF Surjection
  <2> QED BY <2>1
<1>8. s \in [1 .. n -> S]
  BY <1>7
<1>9. \A i, j \in 1 .. n : i < j => f[s[i]] < f[s[j]]
  <2> SUFFICES ASSUME NEW i \in 1 .. n, NEW j \in 1 .. n, i < j PROVE f[s[i]] < f[s[j]]
    OBVIOUS
  <2> HIDE DEF s
  <2>1. s[i] \in S /\ s[j] \in S /\ f[s[i]] \in Int /\ f[s[j]] \in Int
    BY <1>7
  <2>2. f[s[j]] # f[s[i]] /\ ~(f[s[j]] < f[s[i]])
    BY <1>3, <1>7, <2>1
  <2> QED BY <2>1, <2>2
<1> QED BY <1>8, <1>9

\* Such an enumeration leaves none of them out.
LEMMA OrderedIsAll ==
  ASSUME NEW S, IsFiniteSet(S), NEW f \in [S -> Int],
         NEW s \in [1 .. Cardinality(S) -> S], \A i, j \in DOMAIN s : i < j => f[s[i]] < f[s[j]]
  PROVE  \A x \in S : \E i \in DOMAIN s : s[i] = x
<1> DEFINE n == Cardinality(S)
<1>1. n \in Nat /\ IsFiniteSet(1 .. n) /\ Cardinality(1 .. n) = n
  BY FS_CardinalityType, FS_Interval
<1>2. \A i, j \in 1 .. n : s[i] = s[j] => i = j
  <2> SUFFICES ASSUME NEW i \in 1 .. n, NEW j \in 1 .. n, s[i] = s[j] PROVE i = j
    OBVIOUS
  <2>1. f[s[i]] \in Int /\ ~(i < j) /\ ~(j < i)
    OBVIOUS
  <2> QED BY <1>1, <2>1
<1>3. s \in Injection(1 .. n, S)
  BY <1>2, Fun_IsInj
<1>4. s \in Surjection(1 .. n, S)
  BY <1>1, <1>3, FS_Injection
<1> QED BY <1>4 DEF Surjection
\* What a sequence shares with a longer one that starts with it is all of it.
LEMMA SharedByPrefix ==
  ASSUME NEW s \in Seq(Nat), NEW t \in Seq(Nat), IsPrefix(s, t)
  PROVE  Len(LongestCommonPrefix({s, t})) = Len(s)
<1> DEFINE C == CommonPrefixes({s, t})
           best == CHOOSE p \in C : \A q \in C : Len(q) =< Len(p)
<1>1. \A p \in C : Len(p) =< Len(s) /\ Len(p) \in Nat
  <2>1. \A p \in C : IsPrefix(p, s)
    BY DEF CommonPrefixes
  <2>2. \A p \in C : p \in Prefixes(s) \cup Prefixes(t)
    BY DEF CommonPrefixes
  <2> QED BY <2>1, <2>2 DEF IsPrefix, Prefixes
<1>2. s \in C
  <2>1. s = SubSeq(s, 1, Len(s)) /\ Len(s) \in Nat
    OBVIOUS
  <2>2. s \in Prefixes(s) /\ IsPrefix(s, s)
    <3>1. Len(s) \in 0 .. Len(s)
      BY <2>1
    <3>2. s \in Prefixes(s)
      BY <2>1, <3>1, Zenon DEF Prefixes
    <3> QED BY <2>1, <3>2 DEF IsPrefix
  <2> QED BY <2>2 DEF CommonPrefixes
<1>3. best \in C /\ \A q \in C : Len(q) =< Len(best)
  BY <1>1, <1>2
<1>4. LongestCommonPrefix({s, t}) = best
  BY Zenon DEF LongestCommonPrefix
<1> HIDE DEF best, C
<1> QED BY <1>1, <1>2, <1>3, <1>4

\* Pieces of a sequence, each from where the one before ends, make up what they span.
LEMMA Pieces ==
  ASSUME NEW q \in Seq(Nat), NEW n \in Nat, NEW b \in [0 .. n -> 0 .. Len(q)],
         \A i \in 1 .. n : b[i - 1] =< b[i],
         NEW p, p = [i \in 1 .. n |-> SubSeq(q, b[i - 1] + 1, b[i])]
  PROVE  FlattenSeq(p) = SubSeq(q, b[0] + 1, b[n])
<1>1. Len(p) = n
  OBVIOUS
<1>2. CASE n = 0
  <2>1. p = <<>>
    BY <1>2
  <2>2. SubSeq(q, b[0] + 1, b[0]) = <<>>
    BY SubSeqEmpty
  <2> QED BY <1>1, <1>2, <2>1, <2>2 DEF FlattenSeq
<1>3. CASE n # 0
  <2> DEFINE g == [i \in 1 .. n |-> SubSeq(q, b[0] + 1, b[i])]
             Flat(h) == h = [i \in 1 .. n |-> IF i = 1 THEN p[i] ELSE h[i - 1] \o p[i]]
             flatten == CHOOSE h : Flat(h)
  <2>0. \A i \in 1 .. n : b[0] =< b[i]
    <3> DEFINE Bad == {i \in 1 .. n : b[i] < b[0]}
    <3>1. Bad \in SUBSET Nat /\ \A i : i \in Bad <=> i \in 1 .. n /\ b[i] < b[0]
      OBVIOUS
    <3> HIDE DEF Bad
    <3>2. ASSUME Bad # {} PROVE FALSE
      <4>1. PICK m \in Bad : \A k \in Bad : m =< k
        BY <3>1, <3>2, Least
      <4>2. m \in 1 .. n /\ b[m] < b[0]
        BY <3>1
      <4>3. b[m - 1] =< b[m] /\ b[m - 1] \in Int /\ b[m] \in Int /\ b[0] \in Int
        BY <4>2
      <4>4. m # 1 /\ m - 1 \in 1 .. n /\ b[m - 1] < b[0]
        BY <4>2, <4>3
      <4>5. m - 1 \in Bad
        BY <3>1, <4>4
      <4> QED BY <4>1, <4>2, <4>5
    <3>3. ASSUME NEW i \in 1 .. n PROVE b[0] =< b[i]
      <4>1. ~(b[i] < b[0])
        BY <3>1, <3>2
      <4>2. b[i] \in Int /\ b[0] \in Int
        OBVIOUS
      <4> QED BY <4>1, <4>2
    <3> QED BY <3>3
  <2>1. Flat(g)
    <3>1. ASSUME NEW i \in 1 .. n, i # 1 PROVE g[i] = g[i - 1] \o p[i]
      <4>1. /\ b[0] \in Nat /\ b[i - 1] \in Nat /\ b[i] \in Nat /\ b[0] =< b[i - 1] /\ b[i - 1] =< b[i]
            /\ b[i] =< Len(q) /\ i - 1 \in 1 .. n
        BY <2>0, <3>1
      <4>0. Len(q) \in Nat
        OBVIOUS
      <4>2. /\ b[0] + 1 \in 1 .. Len(q) + 1 /\ b[i - 1] \in (b[0] + 1) - 1 .. Len(q)
            /\ b[i] \in b[i - 1] .. Len(q)
        BY <4>0, <4>1
      <4>3. SubSeq(q, b[0] + 1, b[i - 1]) \o SubSeq(q, b[i - 1] + 1, b[i]) = SubSeq(q, b[0] + 1, b[i])
        BY <4>2, ConcatAdjacentSubSeq
      <4> QED BY <4>1, <4>3
    <3>2. g[1] = p[1]
      BY <1>3
    <3> HIDE DEF g
    <3>3. \A i \in 1 .. n : g[i] = IF i = 1 THEN p[i] ELSE g[i - 1] \o p[i]
      BY <3>1, <3>2
    <3>4. g = [i \in 1 .. n |-> g[i]]
      BY DEF g
    <3> QED BY <3>3, <3>4
  <2>2. Flat(flatten)
    BY <2>1
  <2> HIDE DEF flatten
  <2>3. \A i \in 1 .. n : flatten[i] = IF i = 1 THEN p[i] ELSE flatten[i - 1] \o p[i]
    BY <2>2
  <2>4. \A i \in 1 .. n : g[i] = IF i = 1 THEN p[i] ELSE g[i - 1] \o p[i]
    <3> HIDE DEF g
    <3> QED BY <2>1
  <2>5. \A i \in 1 .. n : flatten[i] = g[i]
    <3> HIDE DEF g
    <3> DEFINE Bad == {i \in 1 .. n : flatten[i] # g[i]}
    <3>1. Bad \in SUBSET Nat /\ \A i : i \in Bad <=> i \in 1 .. n /\ flatten[i] # g[i]
      OBVIOUS
    <3> HIDE DEF Bad
    <3>2. ASSUME Bad # {} PROVE FALSE
      <4>1. PICK m \in Bad : \A k \in Bad : m =< k
        BY <3>1, <3>2, Least
      <4>2. m \in 1 .. n /\ flatten[m] # g[m]
        BY <3>1
      <4>3. m # 1
        BY <2>3, <2>4, <4>2
      <4>4. m - 1 \in 1 .. n /\ ~(m =< m - 1)
        BY <4>2, <4>3
      <4>5. flatten[m - 1] = g[m - 1]
        BY <3>1, <4>1, <4>4
      <4> QED BY <2>3, <2>4, <4>2, <4>3, <4>5
    <3> QED BY <3>1, <3>2
  <2>6. FlattenSeq(p) = flatten[n]
    <3>1. Len(p) # 0
      BY <1>1, <1>3
    <3>2. FlattenSeq(p) = (CHOOSE h : h = [i \in 1 .. Len(p) |-> IF i = 1 THEN p[i] ELSE h[i - 1] \o p[i]])[Len(p)]
      BY <3>1, Zenon DEF FlattenSeq
    <3> QED BY <1>1, <3>2 DEF flatten
  <2>7. n \in 1 .. n
    BY <1>3
  <2>8. g[n] = SubSeq(q, b[0] + 1, b[n])
    BY <2>7
  <2> HIDE DEF g
  <2> QED BY <2>5, <2>6, <2>7, <2>8
<1> QED BY <1>2, <1>3

-----------------------------------------------------------------------------
(* What the lists show. *)

\* The last of some checkpoints.
LEMMA LatestOf ==
  ASSUME rows \in Seq(Row), NEW is \in SUBSET DOMAIN rows, is # {}
  PROVE  Latest(is) \in is /\ \A j \in is : j =< Latest(is)
<1> DEFINE n == Len(rows)
           D == {n - i : i \in is}
<1>1. n \in Nat /\ is \subseteq 1 .. n
  OBVIOUS
<1>2. D \in SUBSET Nat /\ D # {}
  BY <1>1
<1>3. PICK m \in D : \A k \in D : m =< k
  BY <1>2, Least
<1>4. PICK i \in is : m = n - i
  BY <1>3
<1>5. ASSUME NEW j \in is PROVE j =< i
  <2>1. n - j \in D
    OBVIOUS
  <2>2. n - i =< n - j /\ i \in Nat /\ j \in Nat
    BY <1>1, <1>3, <1>4, <2>1
  <2> QED BY <1>1, <2>2
<1>6. is \in SUBSET Int
  BY <1>1
<1>7. (CHOOSE k \in is : \A j \in is : j =< k) = i
  BY <1>5, <1>6, Greatest
<1>8. Latest(is) = i
  BY <1>7, Zenon DEF Latest
<1> QED BY <1>5, <1>8

LEMMA LatestIs ==
  ASSUME NEW is \in SUBSET Int, NEW i \in is, \A j \in is : j =< i
  PROVE  Latest(is) = i
<1>1. (CHOOSE k \in is : \A j \in is : j =< k) = i
  BY Greatest
<1> QED BY <1>1, Zenon DEF Latest

Headed == \A i \in DOMAIN heads : Log(heads[i].thread) # {}
Begun == \A r \in Runs : RunAt(r, "run") => Log(run[r].thread) # {}

\* A thread's last checkpoint tells it from all others.
LEMMA LastRows ==
  ASSUME rows \in Seq(Row), NEW t, Log(t) # {}
  PROVE  LastRow(t) \in DOMAIN rows /\ LastRow(t) \in Int /\ rows[LastRow(t)].thread = t
<1>1. Log(t) \in SUBSET DOMAIN rows
  BY DEF Log
<1>2. LastRow(t) \in Log(t)
  BY <1>1, LatestOf DEF LastRow
<1> QED BY <1>1, <1>2 DEF Log

LEMMA UpdatedInOrder ==
  ASSUME rows \in Seq(Row), NEW ts, IsFiniteSet(ts), \A t \in ts : Log(t) # {}
  PROVE  /\ ByUpdate(ts) \in [1 .. Cardinality(ts) -> ts]
         /\ \A i, j \in 1 .. Cardinality(ts) : i < j => LastRow(ByUpdate(ts)[i]) > LastRow(ByUpdate(ts)[j])
         /\ \A t \in ts : \E i \in 1 .. Cardinality(ts) : ByUpdate(ts)[i] = t
<1> DEFINE f == [t \in ts |-> - LastRow(t)]
           n == Cardinality(ts)
           Good(s) == s \in [1 .. n -> ts] /\ \A i, j \in DOMAIN s : i < j => LastRow(s[i]) > LastRow(s[j])
<1>1. \A t \in ts : LastRow(t) \in Int /\ rows[LastRow(t)].thread = t
  BY LastRows
<1>2. f \in [ts -> Int] /\ \A x, y \in ts : f[x] = f[y] => x = y
  BY <1>1
<1>3. \A s \in [1 .. n -> ts] : (\A i, j \in DOMAIN s : i < j => f[s[i]] < f[s[j]]) <=> Good(s)
  <2> SUFFICES ASSUME NEW s \in [1 .. n -> ts], NEW i \in DOMAIN s, NEW j \in DOMAIN s
               PROVE  f[s[i]] < f[s[j]] <=> LastRow(s[i]) > LastRow(s[j])
    OBVIOUS
  <2> QED BY <1>1
<1> HIDE DEF f
<1>4. \E s \in [1 .. n -> ts] : \A i, j \in DOMAIN s : i < j => f[s[i]] < f[s[j]]
  BY <1>2, Order
<1>5. \E s : Good(s)
  BY <1>3, <1>4
<1>6. ByUpdate(ts) = CHOOSE s \in [1 .. n -> ts] : \A i, j \in DOMAIN s : i < j => LastRow(s[i]) > LastRow(s[j])
  BY Zenon DEF ByUpdate
<1>7. Good(ByUpdate(ts))
  BY <1>5, <1>6
<1>8. PICK s \in [1 .. n -> ts] : s = ByUpdate(ts)
  BY <1>7
<1>9. \A i, j \in DOMAIN s : i < j => f[s[i]] < f[s[j]]
  BY <1>3, <1>7, <1>8
<1>10. \A x \in ts : \E i \in DOMAIN s : s[i] = x
  BY <1>2, <1>9, OrderedIsAll
<1> QED BY <1>7, <1>8, <1>10

\* Finitely many heads have finitely many threads.
LEMMA ThreadsFinite ==
  ASSUME NEW hs, IsFiniteSet(hs)
  PROVE  IsFiniteSet(ThreadsOf(hs))
<1> DEFINE f == [i \in hs |-> heads[i].thread]
<1>1. f \in [hs -> ThreadsOf(hs)] /\ \A t \in ThreadsOf(hs) : \E i \in hs : f[i] = t
  BY DEF ThreadsOf
<1> HIDE DEF f
<1>2. f \in Surjection(hs, ThreadsOf(hs))
  BY <1>1, Fun_IsSurj
<1> QED BY <1>2, FS_Surjection

\* A head that the pages leave out comes after as many rows, or threads, as are read at most.
LEMMA PagesReach ==
  ASSUME heads \in Seq(HeadRows), NEW hs, hs \subseteq DOMAIN heads, NEW i \in hs, i \notin Newest(hs, Scanned(hs))
  PROVE  LET newer == {j \in hs : j > i}
         IN Cardinality(newer) >= MaxRows \/ Cardinality(ThreadsOf(newer)) >= MaxHeads
<1> DEFINE h == Cardinality(hs)
           newer == {j \in hs : j > i}
           Full(k) == EnoughHeads(hs, k * PageSize)
           first == CHOOSE k \in 1 .. h + 1 : Full(k) /\ \A j \in 1 .. k - 1 : ~Full(j)
           n == Scanned(hs)
           read == Newest(hs, n)
<1>1. IsFiniteSet(hs) /\ h \in Nat /\ hs \in SUBSET Int
  <2>1. DOMAIN heads = 1 .. Len(heads) /\ Len(heads) \in Nat
    OBVIOUS
  <2>2. IsFiniteSet(DOMAIN heads)
    BY <2>1, FS_Interval
  <2> QED BY <2>1, <2>2, FS_Subset, FS_CardinalityType
<1>2. PageSize \in Nat \ {0} /\ MaxHeads \in Nat /\ MaxRows \in Nat
  BY ThreadConstantsOK
<1>3. Full(h + 1)
  <2>1. \A x \in Nat, p \in Nat \ {0} : x * p >= x /\ x * p \in Nat
    OBVIOUS
  <2>2. (h + 1) * PageSize > h
    BY <1>1, <1>2, <2>1
  <2> QED BY <2>2 DEF EnoughHeads
<1> DEFINE K == {k \in 1 .. h + 1 : Full(k)}
<1>4. PICK m \in K : \A k \in K : m =< k
  <2>1. K \in SUBSET Nat /\ K # {}
    BY <1>1, <1>3
  <2> HIDE DEF K
  <2> QED BY <2>1, Least
<1>5. m \in 1 .. h + 1 /\ Full(m) /\ \A j \in 1 .. m - 1 : ~Full(j)
  <2>1. \A j \in 1 .. m - 1 : j \in 1 .. h + 1 /\ ~(m =< j)
    BY <1>1, <1>4
  <2> HIDE DEF Full
  <2> QED BY <1>4, <2>1
<1>6. first \in 1 .. h + 1 /\ Full(first)
  <2> HIDE DEF Full
  <2> QED BY <1>5
<1>7. n \in Nat /\ EnoughHeads(hs, n)
  <2>1. n = PageSize * first
    BY Zenon DEF Scanned
  <2> HIDE DEF first, n
  <2>2. first * PageSize = PageSize * first /\ first * PageSize \in Nat
    BY <1>1, <1>2, <1>6
  <2> QED BY <1>6, <2>1, <2>2
<1>8. newer \in SUBSET hs /\ i \notin newer /\ IsFiniteSet(newer) /\ Cardinality(newer) \in Nat /\ Cardinality(newer) < h
  <2>1. newer \in SUBSET hs /\ i \notin newer
    BY <1>1
  <2> HIDE DEF newer
  <2>2. IsFiniteSet(newer) /\ Cardinality(newer) \in Nat /\ Cardinality(newer) =< h /\ Cardinality(newer) # h
    BY <1>1, <2>1, FS_Subset, FS_CardinalityType
  <2> QED BY <1>1, <2>1, <2>2
<1>9. Cardinality(newer) >= n
  <2>1. ~(Cardinality(newer) < n)
    BY DEF Newest
  <2> HIDE DEF n, newer
  <2> QED BY <1>7, <1>8, <2>1
\* What was read is newer than the head that was not.
<1>10. read \subseteq newer
  <2> SUFFICES ASSUME NEW j \in read, ~(j > i) PROVE FALSE
    BY DEF Newest
  <2> DEFINE newerJ == {k \in hs : k > j}
  <2>1. j \in hs /\ Cardinality(newerJ) < n
    BY DEF Newest
  <2>2. newer \in SUBSET newerJ /\ newerJ \in SUBSET hs
    BY <1>1, <2>1
  <2> HIDE DEF newer, newerJ, n
  <2>3. Cardinality(newer) =< Cardinality(newerJ) /\ Cardinality(newerJ) \in Nat
    BY <1>1, <2>2, FS_Subset, FS_CardinalityType
  <2> QED BY <1>7, <1>8, <1>9, <2>1, <2>3
<1>11. IsFiniteSet(ThreadsOf(newer)) /\ Cardinality(ThreadsOf(newer)) \in Nat
       /\ Cardinality(ThreadsOf(read)) \in Nat /\ Cardinality(ThreadsOf(read)) =< Cardinality(ThreadsOf(newer))
  <2> HIDE DEF newer, read
  <2>1. ThreadsOf(read) \in SUBSET ThreadsOf(newer)
    BY <1>10 DEF ThreadsOf
  <2>2. IsFiniteSet(ThreadsOf(newer))
    BY <1>8, ThreadsFinite
  <2> QED BY <2>1, <2>2, FS_Subset, FS_CardinalityType
<1>12. n > h \/ n >= MaxRows \/ Cardinality(ThreadsOf(read)) >= MaxHeads
  BY <1>7 DEF EnoughHeads
<1> HIDE DEF newer, read, n, h
<1>13. Cardinality(newer) >= MaxRows \/ Cardinality(ThreadsOf(newer)) >= MaxHeads
  BY <1>1, <1>2, <1>7, <1>8, <1>9, <1>11, <1>12
<1> QED BY <1>13 DEF newer

\* The list names threads of the user, once each and the one updated last in front, and leaves out
\* none but those that its bounds overlook and those updated before all of a full list.
LEMMA ListsNewest ==
  ASSUME rows \in Seq(Row), heads \in Seq(HeadRows), Headed
  PROVE  NewestListed
<1> SUFFICES ASSUME NEW u \in Users, NEW a \in Agents
             PROVE  LET hs == Heads(u, a)
                        list == ThreadList(u, a)
                    IN /\ ToSet(list) \subseteq ThreadsOf(hs)
                       /\ \A i, j \in DOMAIN list : i < j => LastRow(list[i]) > LastRow(list[j])
                       /\ \A t \in ThreadsOf(hs) \ ToSet(list) :
                            \/ Overlooked(hs, t)
                            \/ Len(list) = Limit /\ \A i \in DOMAIN list : LastRow(list[i]) > LastRow(t)
  BY DEF NewestListed
<1> DEFINE hs == Heads(u, a)
           read == Newest(hs, Scanned(hs))
           found == ThreadsOf(read)
           n == Cardinality(found)
           s == ByUpdate(found)
           len == IF n < Limit THEN n ELSE Limit
           list == ThreadList(u, a)
<1>1. hs \subseteq DOMAIN heads /\ read \in SUBSET hs /\ IsFiniteSet(read)
  <2>1. hs \subseteq 1 .. Len(heads) /\ DOMAIN heads = 1 .. Len(heads) /\ Len(heads) \in Nat
    BY DEF Heads
  <2>2. IsFiniteSet(1 .. Len(heads))
    BY <2>1, FS_Interval
  <2>3. read \in SUBSET hs
    BY DEF Newest
  <2> QED BY <2>1, <2>2, <2>3, FS_Subset
<1>2. IsFiniteSet(found) /\ n \in Nat /\ found \subseteq ThreadsOf(hs)
  <2>1. IsFiniteSet(found)
    BY <1>1, ThreadsFinite
  <2>2. found \subseteq ThreadsOf(hs)
    BY <1>1 DEF ThreadsOf
  <2> QED BY <2>1, <2>2, FS_CardinalityType
<1>3. \A t \in ThreadsOf(hs) : Log(t) # {}
  BY <1>1 DEF ThreadsOf, Headed
<1>4. \A t \in ThreadsOf(hs) : LastRow(t) \in Int
  BY <1>3, LastRows
<1>5. /\ s \in [1 .. n -> found]
      /\ \A i, j \in 1 .. n : i < j => LastRow(s[i]) > LastRow(s[j])
      /\ \A t \in found : \E i \in 1 .. n : s[i] = t
  <2> HIDE DEF found
  <2> QED BY <1>2, <1>3, UpdatedInOrder
<1>6. list = SubSeq(s, 1, len)
  <2>1. Len(s) = n
    BY <1>2, <1>5
  <2>2. list = SubSeq(s, 1, IF Len(s) < Limit THEN Len(s) ELSE Limit)
    BY Zenon DEF ThreadList
  <2> QED BY <2>1, <2>2
<1>8. Limit \in Nat \ {0}
  BY ThreadConstantsOK
<1> HIDE DEF s, list, found, read
<1>9. DOMAIN list = 1 .. len /\ len \in Nat /\ len =< n /\ Len(list) = len /\ \A i \in 1 .. len : list[i] = s[i]
  <2>1. len \in Nat /\ len =< n
    BY <1>2, <1>8
  <2>2. \A i \in 1 .. len : s[i] \in found
    BY <1>2, <1>5, <2>1
  <2> HIDE DEF len
  <2> QED BY <1>6, <2>1, <2>2, SubSeqProperties
<1>10. \A i \in DOMAIN list : i \in 1 .. n /\ list[i] = s[i] /\ list[i] \in found
  <2>1. \A i \in DOMAIN list : i \in 1 .. n /\ list[i] = s[i]
    BY <1>2, <1>9
  <2> QED BY <1>5, <2>1
<1>11. ToSet(list) \subseteq ThreadsOf(hs)
  BY <1>2, <1>10 DEF ToSet
<1>12. \A i, j \in DOMAIN list : i < j => LastRow(list[i]) > LastRow(list[j])
  BY <1>5, <1>10
<1>13. ASSUME NEW t \in ThreadsOf(hs) \ ToSet(list)
       PROVE  \/ Overlooked(hs, t)
              \/ Len(list) = Limit /\ \A i \in DOMAIN list : LastRow(list[i]) > LastRow(t)
  <2>1. CASE t \in found
    <3>1. PICK j \in 1 .. n : s[j] = t
      BY <1>5, <2>1
    <3>2. j \notin DOMAIN list
      BY <1>10, <1>13, <3>1 DEF ToSet
    <3>3. len = Limit /\ \A i \in DOMAIN list : i < j
      BY <1>2, <1>8, <1>9, <3>1, <3>2
    <3> QED BY <1>5, <1>9, <1>10, <3>1, <3>3
  <2>2. CASE t \notin found
    <3> SUFFICES ASSUME NEW i \in hs, heads[i].thread = t
                 PROVE  LET newer == {j \in hs : j > i}
                        IN Cardinality(newer) >= MaxRows \/ Cardinality(ThreadsOf(newer)) >= MaxHeads
      BY DEF Overlooked
    <3>1. i \notin read
      BY <2>2 DEF found, ThreadsOf
    <3> QED BY <1>1, <3>1, PagesReach DEF read
  <2> QED BY <2>1, <2>2
<1> QED BY <1>11, <1>12, <1>13 DEF list

\* The log is in the order of its days, and of what its threads say.
InOrder == \A i, j \in DOMAIN rows : i =< j => rows[i].day =< rows[j].day /\ rows[j].day =< day
Growing ==
  \A i, j \in DOMAIN rows : i =< j /\ rows[i].thread = rows[j].thread => IsPrefix(rows[i].messages, rows[j].messages)

Before(d, t) == {i \in Log(t) : rows[i].day < d}
On(d, t) == {i \in Log(t) : rows[i].day = d}

LEMMA RowDays ==
  ASSUME rows \in Seq(Row), NEW i \in DOMAIN rows
  PROVE  i \in Int /\ rows[i].day \in Nat
<1>1. rows[i] \in Row /\ i \in Int
  OBVIOUS
<1> QED BY <1>1 DEF Row

\* More checkpoints of a thread say no less.
LEMMA MoreSaysMore ==
  ASSUME rows \in Seq(Row), Growing, NEW t, NEW js \in SUBSET Log(t), NEW is \in SUBSET js
  PROVE  Says(is) \in Seq(Nat) /\ Says(js) \in Seq(Nat) /\ IsPrefix(Says(is), Says(js))
<1>1. \A ks \in SUBSET Log(t) : ks # {} =>
         /\ Latest(ks) \in ks /\ \A k \in ks : k =< Latest(ks)
         /\ Latest(ks) \in DOMAIN rows /\ rows[Latest(ks)].thread = t
         /\ Says(ks) = rows[Latest(ks)].messages /\ Says(ks) \in Seq(Nat)
  <2> SUFFICES ASSUME NEW ks \in SUBSET Log(t), ks # {}
               PROVE  /\ Latest(ks) \in ks /\ \A k \in ks : k =< Latest(ks)
                      /\ Latest(ks) \in DOMAIN rows /\ rows[Latest(ks)].thread = t
                      /\ Says(ks) = rows[Latest(ks)].messages /\ Says(ks) \in Seq(Nat)
    OBVIOUS
  <2>1. ks \in SUBSET DOMAIN rows
    BY DEF Log
  <2>2. Latest(ks) \in ks /\ \A k \in ks : k =< Latest(ks)
    BY <2>1, LatestOf
  <2>3. Latest(ks) \in DOMAIN rows /\ rows[Latest(ks)].thread = t /\ rows[Latest(ks)] \in Row
    BY <2>1, <2>2 DEF Log
  <2> QED BY <2>2, <2>3 DEF Says, Row
<1>2. is \in SUBSET Log(t)
  OBVIOUS
<1>3. CASE is = {}
  <2>1. Says(is) = <<>>
    BY <1>3 DEF Says
  <2>2. Says(js) \in Seq(Nat)
    BY <1>1 DEF Says
  <2> QED BY <2>1, <2>2 DEF IsPrefix
<1>4. CASE is # {}
  <2>1. Latest(is) \in js /\ js # {}
    BY <1>1, <1>2, <1>4
  <2>2. Latest(is) =< Latest(js)
    BY <1>1, <2>1
  <2> QED BY <1>1, <1>2, <1>4, <2>1, <2>2 DEF Growing
<1> QED BY <1>3, <1>4

\* What a thread says on a day is what it said before the day after.
LEMMA DaySays ==
  ASSUME rows \in Seq(Row), InOrder, NEW t, NEW d \in Int, On(d, t) # {}
  PROVE  Says(On(d, t)) = Says(Before(d + 1, t))
<1> DEFINE is == On(d, t)
           js == Before(d + 1, t)
           x == Latest(is)
<1>1. \A i \in DOMAIN rows : rows[i].day \in Nat /\ i \in Int
  BY RowDays
<1>2. is \in SUBSET DOMAIN rows /\ js \in SUBSET Int
  BY <1>1 DEF On, Before, Log
<1>3. x \in is /\ \A j \in is : j =< x
  BY <1>2, LatestOf
<1>4. x \in js
  BY <1>1, <1>2, <1>3 DEF On, Before
<1>5. ASSUME NEW j \in js PROVE j =< x
  <2>1. j \in Log(t) /\ rows[j].day < d + 1 /\ j \in DOMAIN rows
    BY DEF Before, Log
  <2>2. x \in DOMAIN rows /\ rows[x].day = d
    BY <1>2, <1>3 DEF On
  <2>3. CASE rows[j].day = d
    <3>1. j \in is
      BY <2>1, <2>3 DEF On
    <3> HIDE DEF x
    <3> QED BY <1>3, <3>1
  <2>4. CASE rows[j].day # d
    <3> HIDE DEF x
    <3>1. rows[j].day < d
      BY <1>1, <2>1, <2>4
    <3>2. ~(x =< j)
      BY <1>1, <2>1, <2>2, <3>1 DEF InOrder
    <3> QED BY <1>1, <2>1, <2>2, <3>2
  <2> QED BY <2>3, <2>4
<1>6. Latest(js) = x
  <2> HIDE DEF x
  <2> QED BY <1>2, <1>4, <1>5, LatestIs
<1> QED BY <1>3, <1>4, <1>6 DEF Says

\* Nothing is said between two days without checkpoints.
LEMMA Quiet ==
  ASSUME rows \in Seq(Row), NEW t, NEW c \in Int, NEW d \in Int, c =< d,
         \A i \in Log(t) : ~(c =< rows[i].day /\ rows[i].day < d)
  PROVE  Before(c, t) = Before(d, t)
<1>1. \A i \in Log(t) : rows[i].day \in Int
  BY RowDays DEF Log
<1> QED BY <1>1 DEF Before

LEMMA InChronology ==
  ASSUME NEW ds \in SUBSET Int, IsFiniteSet(ds)
  PROVE  /\ Cardinality(ds) \in Nat
         /\ Chronological(ds) \in [1 .. Cardinality(ds) -> ds]
         /\ \A i, j \in 1 .. Cardinality(ds) : i < j => Chronological(ds)[i] < Chronological(ds)[j]
         /\ \A d \in ds : \E i \in 1 .. Cardinality(ds) : Chronological(ds)[i] = d
<1> DEFINE f == [d \in ds |-> d]
           n == Cardinality(ds)
           Good(s) == s \in [1 .. n -> ds] /\ \A i, j \in DOMAIN s : i < j => s[i] < s[j]
<1>1. f \in [ds -> Int] /\ \A x, y \in ds : f[x] = f[y] => x = y
  OBVIOUS
<1>2. \A s \in [1 .. n -> ds] : (\A i, j \in DOMAIN s : i < j => f[s[i]] < f[s[j]]) <=> Good(s)
  OBVIOUS
<1> HIDE DEF f
<1>3. \E s : Good(s)
  BY <1>1, <1>2, Order
<1>4. Chronological(ds) = CHOOSE s \in [1 .. n -> ds] : \A i, j \in DOMAIN s : i < j => s[i] < s[j]
  BY Zenon DEF Chronological
<1>5. Good(Chronological(ds))
  BY <1>3, <1>4
<1>6. PICK s \in [1 .. n -> ds] : s = Chronological(ds)
  BY <1>5
<1>7. \A i, j \in DOMAIN s : i < j => f[s[i]] < f[s[j]]
  BY <1>2, <1>5, <1>6
<1>8. \A x \in ds : \E i \in DOMAIN s : s[i] = x
  BY <1>1, <1>7, OrderedIsAll
<1> QED BY <1>5, <1>6, <1>8, FS_CardinalityType

\* What one of the listed days shows of a thread that is all of one user's.
LEMMA DayShows ==
  ASSUME rows \in Seq(Row), Growing, InOrder, NEW u, NEW a, NEW t, RowsWith(u, a, t) = Log(t),
         NEW d \in Int, On(d, t) # {}
  PROVE  LET l(e) == Len(Says(Before(e, t)))
         IN MessagesAdded(u, a, d, t) = SubSeq(Tip(t), l(d) + 1, l(d + 1)) /\ l(d) =< l(d + 1)
<1> DEFINE before == Says(Before(d, t))
           latest == Says(Before(d + 1, t))
<1>1. MessagesBefore(u, a, d, t) = before
  BY DEF MessagesBefore, Before
<1>2. Says(RowsOf(u, a, d, t)) = latest
  BY DaySays DEF RowsOf, On
<1>3. Before(d, t) \subseteq Before(d + 1, t) /\ Before(d + 1, t) \subseteq Log(t)
  <2>1. \A i \in Log(t) : rows[i].day \in Int
    BY RowDays DEF Log
  <2> QED BY <2>1 DEF Before
<1>4. before \in Seq(Nat) /\ latest \in Seq(Nat) /\ IsPrefix(before, latest)
  BY <1>3, MoreSaysMore
<1>5. Tip(t) \in Seq(Nat) /\ IsPrefix(latest, Tip(t))
  BY <1>3, MoreSaysMore DEF Tip
<1>6. MessagesAdded(u, a, d, t) = SubSeq(latest, Len(LongestCommonPrefix({before, latest})) + 1, Len(latest))
  BY <1>1, <1>2, Zenon DEF MessagesAdded
<1> HIDE DEF before, latest
<1>7. Len(LongestCommonPrefix({before, latest})) = Len(before)
  BY <1>4, SharedByPrefix
<1>8. Len(before) =< Len(latest) /\ Len(latest) =< Len(Tip(t)) /\ latest = SubSeq(Tip(t), 1, Len(latest))
      /\ Len(before) \in Nat /\ Len(latest) \in Nat
  BY <1>4, <1>5 DEF IsPrefix
<1>9. SubSeq(latest, Len(before) + 1, Len(latest)) = SubSeq(Tip(t), Len(before) + 1, Len(latest))
  <2>1. CASE Len(before) = Len(latest)
    <3>1. Len(before) + 1 \in Int /\ Len(latest) \in Int /\ Len(latest) < Len(before) + 1
      BY <1>8, <2>1
    <3> QED BY <3>1, SubSeqEmpty
  <2>2. CASE Len(before) < Len(latest)
    <3> DEFINE m == Len(latest)
               k == Len(before) + 1
    <3>1. 1 \in 1 .. Len(Tip(t)) /\ m \in 1 .. Len(Tip(t)) /\ k \in 1 .. m - 1 + 1 /\ m \in 1 .. m - 1 + 1
      BY <1>5, <1>8, <2>2
    <3>2. SubSeq(SubSeq(Tip(t), 1, m), k, m) = SubSeq(Tip(t), 1 + k - 1, 1 + m - 1)
      <4> HIDE DEF m, k
      <4> QED BY <1>5, <3>1, SubSeqOfSubSeq
    <3>3. 1 + k - 1 = k /\ 1 + m - 1 = m
      BY <1>8
    <3> QED BY <1>8, <3>2, <3>3
  <2> QED BY <1>8, <2>1, <2>2
<1> QED BY <1>6, <1>7, <1>8, <1>9 DEF before, latest

\* A thread's days, in their order, leave nothing out that is said from the first of them on.
LEMMA DaysJoin ==
  ASSUME rows \in Seq(Row), Growing, InOrder, NEW t, Log(t) # {}, NEW c \in Int, day \in Int,
         NEW n \in Nat, NEW s \in [1 .. n -> c .. day],
         \A i, j \in 1 .. n : i < j => s[i] < s[j],
         \A d \in c .. day : On(d, t) # {} <=> \E i \in 1 .. n : s[i] = d
  PROVE  LET l(e) == Len(Says(Before(e, t)))
         IN Says(Before(c, t)) \o FlattenSeq([i \in 1 .. n |-> SubSeq(Tip(t), l(s[i]) + 1, l(s[i] + 1))]) = Tip(t)
<1> DEFINE l(e) == Len(Says(Before(e, t)))
           b == [i \in 0 .. n |-> IF i = 0 THEN l(c) ELSE l(s[i] + 1)]
           p == [i \in 1 .. n |-> SubSeq(Tip(t), l(s[i]) + 1, l(s[i] + 1))]
<1>1. \A i \in Log(t) : /\ rows[i].day \in Int /\ rows[i].day =< day
                        /\ rows[i].day >= c => \E k \in 1 .. n : s[k] = rows[i].day
  <2> SUFFICES ASSUME NEW i \in Log(t)
               PROVE  /\ rows[i].day \in Int /\ rows[i].day =< day
                      /\ rows[i].day >= c => \E k \in 1 .. n : s[k] = rows[i].day
    OBVIOUS
  <2>1. rows[i].day \in Int /\ rows[i].day =< day
    BY RowDays DEF Log, InOrder
  <2>2. i \in On(rows[i].day, t)
    BY DEF On
  <2> QED BY <2>1, <2>2
<1>2. \A k \in 1 .. n : s[k] \in Int /\ c =< s[k] /\ s[k] =< day
  OBVIOUS
<1>3. \A e \in Int : /\ Says(Before(e, t)) \in Seq(Nat) /\ l(e) \in Nat /\ l(e) =< Len(Tip(t))
                     /\ IsPrefix(Says(Before(e, t)), Tip(t))
  <2> SUFFICES ASSUME NEW e \in Int
               PROVE  /\ Says(Before(e, t)) \in Seq(Nat) /\ l(e) \in Nat /\ l(e) =< Len(Tip(t))
                      /\ IsPrefix(Says(Before(e, t)), Tip(t))
    OBVIOUS
  <2>1. Before(e, t) \subseteq Log(t)
    BY DEF Before
  <2>2. Says(Before(e, t)) \in Seq(Nat) /\ IsPrefix(Says(Before(e, t)), Tip(t))
    BY <2>1, MoreSaysMore DEF Tip
  <2> QED BY <2>2 DEF IsPrefix
<1>4. Tip(t) \in Seq(Nat)
  BY MoreSaysMore DEF Tip
<1>5. \A e \in Int : l(e) \in 0 .. Len(Tip(t))
  <2> SUFFICES ASSUME NEW e \in Int PROVE l(e) \in 0 .. Len(Tip(t))
    OBVIOUS
  <2>1. Len(Tip(t)) \in Nat
    BY <1>4
  <2>2. l(e) \in Nat /\ l(e) =< Len(Tip(t))
    BY <1>3
  <2> HIDE DEF l
  <2> QED BY <2>1, <2>2
\* From one of the days to the next, before the first and behind the last.
<1>6. ASSUME NEW i \in 1 .. n PROVE b[i - 1] = l(s[i])
  <2>1. CASE i = 1
    <3>1. \A k \in 1 .. n : ~(s[k] < s[i])
      BY <1>2, <2>1
    <3>2. \A j \in Log(t) : ~(c =< rows[j].day /\ rows[j].day < s[i])
      BY <1>1, <3>1
    <3>3. Before(c, t) = Before(s[i], t)
      BY <1>2, <3>2, Quiet
    <3> QED BY <2>1, <3>3
  <2>2. CASE i # 1
    <3>1. i - 1 \in 1 .. n /\ i - 1 # 0 /\ s[i - 1] < s[i] /\ s[i - 1] \in Int /\ s[i] \in Int /\ c =< s[i - 1]
      BY <1>2, <2>2
    <3>2. \A k \in 1 .. n : ~(s[i - 1] < s[k] /\ s[k] < s[i])
      <4> SUFFICES ASSUME NEW k \in 1 .. n, s[i - 1] < s[k], s[k] < s[i] PROVE FALSE
        OBVIOUS
      <4>1. s[k] \in Int
        BY <1>2
      <4>2. ~(k =< i - 1)
        <5>1. k < i - 1 => s[k] < s[i - 1]
          BY <3>1
        <5> QED BY <3>1, <4>1, <5>1
      <4>3. ~(i =< k)
        <5>1. i < k => s[i] < s[k]
          OBVIOUS
        <5> QED BY <3>1, <4>1, <5>1
      <4> QED BY <4>2, <4>3
    <3>3. ASSUME NEW j \in Log(t), s[i - 1] + 1 =< rows[j].day, rows[j].day < s[i] PROVE FALSE
      <4>1. rows[j].day \in Int /\ rows[j].day >= c /\ s[i - 1] < rows[j].day
        BY <1>1, <3>1, <3>3
      <4>2. PICK k \in 1 .. n : s[k] = rows[j].day
        BY <1>1, <4>1
      <4> QED BY <3>2, <3>3, <4>1, <4>2
    <3>4. Before(s[i - 1] + 1, t) = Before(s[i], t)
      <4>1. s[i - 1] + 1 \in Int /\ s[i - 1] + 1 =< s[i]
        BY <3>1
      <4>2. \A j \in Log(t) : ~(s[i - 1] + 1 =< rows[j].day /\ rows[j].day < s[i])
        BY <3>3
      <4>3. s[i] \in Int
        BY <3>1
      <4> HIDE DEF b, l, p
      <4> QED BY <4>1, <4>2, <4>3, Quiet
    <3>5. b[i - 1] = l(s[i - 1] + 1)
      BY <3>1
    <3> QED BY <3>4, <3>5
  <2> QED BY <2>1, <2>2
<1>7. b[n] = Len(Tip(t))
  <2>1. PICK e \in Int : b[n] = l(e) /\ \A j \in Log(t) : rows[j].day < e
    <3>1. CASE n = 0
      BY <1>1, <3>1
    <3>2. CASE n # 0
      <4>1. n \in 1 .. n /\ b[n] = l(s[n] + 1) /\ s[n] \in Int
        BY <1>2, <3>2
      <4>2. \A k \in 1 .. n : s[k] =< s[n]
        <5> SUFFICES ASSUME NEW k \in 1 .. n PROVE s[k] =< s[n]
          OBVIOUS
        <5>1. k < n => s[k] < s[n]
          BY <4>1
        <5> QED BY <1>2, <4>1, <5>1
      <4>3. ASSUME NEW j \in Log(t) PROVE rows[j].day < s[n] + 1
        <5>1. CASE rows[j].day >= c
          BY <1>1, <4>1, <4>2, <5>1
        <5>2. CASE ~(rows[j].day >= c)
          BY <1>1, <1>2, <4>1, <5>2
        <5> QED BY <5>1, <5>2
      <4>4. s[n] + 1 \in Int
        BY <4>1
      <4> HIDE DEF b, l
      <4> QED BY <4>1, <4>3, <4>4
    <3> QED BY <3>1, <3>2
  <2>2. Before(e, t) = Log(t)
    BY <2>1 DEF Before
  <2> QED BY <2>1, <2>2 DEF Tip
<1>8. \A i \in 1 .. n : b[i] = l(s[i] + 1) /\ b[i - 1] =< b[i]
  <2> SUFFICES ASSUME NEW i \in 1 .. n PROVE b[i] = l(s[i] + 1) /\ b[i - 1] =< b[i]
    OBVIOUS
  <2>1. b[i] = l(s[i] + 1)
    OBVIOUS
  <2>2. On(s[i], t) # {} /\ s[i] \in Int
    BY <1>2
  <2>3. Before(s[i], t) \subseteq Before(s[i] + 1, t) /\ Before(s[i] + 1, t) \subseteq Log(t)
    BY <1>1, <2>2 DEF Before
  <2>4. IsPrefix(Says(Before(s[i], t)), Says(Before(s[i] + 1, t)))
    BY <2>3, MoreSaysMore
  <2>5. l(s[i]) =< l(s[i] + 1)
    BY <2>4 DEF IsPrefix
  <2> QED BY <1>6, <2>1, <2>5
<1>9. b \in [0 .. n -> 0 .. Len(Tip(t))]
  <2>1. \A i \in 0 .. n : b[i] \in 0 .. Len(Tip(t))
    <3>1. b[0] = l(c) /\ \A i \in 1 .. n : s[i] + 1 \in Int
      BY <1>2
    <3>2. \A e \in Int : l(e) \in 0 .. Len(Tip(t))
      BY <1>5
    <3>3. \A i \in 0 .. n : i = 0 \/ i \in 1 .. n
      OBVIOUS
    <3> HIDE DEF b, l
    <3> QED BY <1>8, <3>1, <3>2, <3>3
  <2> QED BY <2>1
<1>10. p = [i \in 1 .. n |-> SubSeq(Tip(t), b[i - 1] + 1, b[i])]
  <2> HIDE DEF b
  <2> QED BY <1>6, <1>8
<1>11. b[0] = l(c)
  OBVIOUS
<1> HIDE DEF b, p
<1>12. FlattenSeq(p) = SubSeq(Tip(t), b[0] + 1, b[n])
  BY <1>4, <1>8, <1>9, <1>10, Pieces
<1>13. Says(Before(c, t)) = SubSeq(Tip(t), 1, l(c))
  <2>1. Says(Before(c, t)) = SubSeq(Says(Before(c, t)), 1, l(c))
    BY <1>3, SubSeqFull
  <2> QED BY <1>3, <2>1 DEF IsPrefix
<1>14. SubSeq(Tip(t), 1, l(c)) \o SubSeq(Tip(t), l(c) + 1, Len(Tip(t))) = Tip(t)
  <2>1. 1 \in 1 .. Len(Tip(t)) + 1 /\ l(c) \in 1 - 1 .. Len(Tip(t)) /\ Len(Tip(t)) \in l(c) .. Len(Tip(t))
    <3>1. Len(Tip(t)) \in Nat
      BY <1>4
    <3>2. l(c) \in 0 .. Len(Tip(t))
      BY <1>5
    <3> HIDE DEF l
    <3> QED BY <3>1, <3>2
  <2>2. SubSeq(Tip(t), 1, l(c)) \o SubSeq(Tip(t), l(c) + 1, Len(Tip(t))) = SubSeq(Tip(t), 1, Len(Tip(t)))
    <3> HIDE DEF l
    <3> QED BY <1>4, <2>1, ConcatAdjacentSubSeq
  <2> QED BY <1>4, <2>2, SubSeqFull
<1> QED BY <1>7, <1>11, <1>12, <1>13, <1>14 DEF p

\* The details of the days that are listed, one after the other, are all that the thread says after
\* what it said before them: each message is shown on one day and none is lost between two
\* (chat_records.py:108, 172).
LEMMA DaysShowAll ==
  ASSUME ThreadsShape, ThreadUserFixed, InOrder, Growing
  PROVE  DaysMakeTheThread
<1> SUFFICES ASSUME NEW u \in Users, NEW a \in Agents, NEW t \in Threads,
                    Log(t) # {}, rows[LastRow(t)].user = u, rows[LastRow(t)].agent = a
             PROVE  LET days == Chronological({d \in RecordDays(u, a) : t \in ActiveThreads(u, a, d)})
                        shown == FlattenSeq([i \in DOMAIN days |-> DayDetail(u, a, days[i])[t]])
                    IN Tip(t) = MessagesBefore(u, a, day - RecentDays + 1, t) \o shown
  BY Zenon DEF DaysMakeTheThread
<1> DEFINE c == day - RecentDays + 1
           ds == {d \in RecordDays(u, a) : t \in ActiveThreads(u, a, d)}
           days == Chronological(ds)
           n == Cardinality(ds)
           l(e) == Len(Says(Before(e, t)))
<1>1. rows \in Seq(Row) /\ day \in Nat /\ c \in Int
  BY ThreadConstantsOK DEF ThreadsShape
<1>2. RowsWith(u, a, t) = Log(t)
  <2>1. LastRow(t) \in DOMAIN rows /\ rows[LastRow(t)].thread = t
    BY <1>1, LastRows
  <2>2. ASSUME NEW i \in Log(t) PROVE rows[i].user = u /\ rows[i].agent = a
    <3>1. i \in DOMAIN rows /\ rows[i].thread = rows[LastRow(t)].thread
      BY <2>1 DEF Log
    <3>2. RowUser(i) = RowUser(LastRow(t))
      BY <1>1, <2>1, <3>1, SameUser
    <3> QED BY <3>2 DEF RowUser
  <2> QED BY <2>2 DEF RowsWith
<1>3. \A d : RowsOf(u, a, d, t) = On(d, t)
  BY <1>2 DEF RowsOf, On
<1>4. \A d : t \in ActiveThreads(u, a, d) <=> On(d, t) # {}
  BY <1>3 DEF ActiveThreads
<1>5. ds = {d \in c .. day : On(d, t) # {}}
  <2>1. RecordDays(u, a) = {d \in c .. day : ActiveThreads(u, a, d) # {}}
    BY DEF RecordDays
  <2> QED BY <1>4, <2>1
<1>6. ds \in SUBSET Int /\ IsFiniteSet(ds)
  <2>1. ds \subseteq c .. day /\ IsFiniteSet(c .. day)
    BY <1>1, <1>5, FS_Interval
  <2> HIDE DEF ds, c
  <2>2. ds \in SUBSET (c .. day)
    BY <2>1
  <2>3. IsFiniteSet(ds)
    BY <2>1, <2>2, FS_Subset
  <2> QED BY <1>1, <2>1, <2>3
<1>7. /\ n \in Nat /\ days \in [1 .. n -> ds]
      /\ \A i, j \in 1 .. n : i < j => days[i] < days[j]
      /\ \A d \in ds : \E i \in 1 .. n : days[i] = d
  <2> HIDE DEF ds
  <2> QED BY <1>6, InChronology
<1> HIDE DEF days, ds, n, c
<1>8. /\ days \in [1 .. n -> c .. day]
      /\ \A d \in c .. day : On(d, t) # {} <=> \E i \in 1 .. n : days[i] = d
  <2>1. \A i \in 1 .. n : days[i] \in c .. day /\ On(days[i], t) # {}
    BY <1>5, <1>7
  <2>2. \A d \in c .. day : On(d, t) # {} => \E i \in 1 .. n : days[i] = d
    BY <1>5, <1>7
  <2> QED BY <1>7, <2>1, <2>2
<1>9. ASSUME NEW i \in DOMAIN days
      PROVE  DayDetail(u, a, days[i])[t] = SubSeq(Tip(t), l(days[i]) + 1, l(days[i] + 1))
  <2>1. days[i] \in Int /\ On(days[i], t) # {}
    <3>1. i \in 1 .. n
      BY <1>7
    <3>2. days[i] \in c .. day
      BY <1>8, <3>1
    <3> QED BY <1>1, <1>8, <3>1, <3>2
  <2>2. DayDetail(u, a, days[i])[t] = MessagesAdded(u, a, days[i], t)
    BY <1>4, <2>1 DEF DayDetail
  <2>3. PICK d \in Int : d = days[i]
    BY <2>1
  <2>4. MessagesAdded(u, a, d, t) = SubSeq(Tip(t), l(d) + 1, l(d + 1))
    BY <1>1, <1>2, <2>1, <2>3, DayShows
  <2> QED BY <2>2, <2>3, <2>4
<1>10. MessagesBefore(u, a, c, t) = Says(Before(c, t))
  BY <1>2 DEF MessagesBefore, Before
<1>11. Says(Before(c, t)) \o FlattenSeq([i \in 1 .. n |-> SubSeq(Tip(t), l(days[i]) + 1, l(days[i] + 1))]) = Tip(t)
  <2>1. day \in Int
    BY <1>1
  <2> QED BY <1>1, <1>7, <1>8, <2>1, DaysJoin
<1>12. [i \in DOMAIN days |-> DayDetail(u, a, days[i])[t]]
       = [i \in 1 .. n |-> SubSeq(Tip(t), l(days[i]) + 1, l(days[i] + 1))]
  <2>1. DOMAIN days = 1 .. n
    BY <1>7
  <2> HIDE DEF l
  <2> QED BY <1>9, <2>1
<1>13. Tip(t) = MessagesBefore(u, a, c, t) \o FlattenSeq([i \in DOMAIN days |-> DayDetail(u, a, days[i])[t]])
  BY <1>10, <1>11, <1>12
<1> QED BY <1>13 DEF days, ds, c

-----------------------------------------------------------------------------
(* The steps, again. *)

LInv == HInv /\ Headed /\ Begun /\ InOrder /\ Growing

LEMMA LogBegins == ThreadsInit => LInv
<1> SUFFICES ASSUME ThreadsInit PROVE Headed /\ Begun /\ InOrder /\ Growing
  BY ThreadsBegin DEF LInv
<1>0. Begun
  BY DEF ThreadsInit, Begun, RunAt
<1>1. CASE rows = <<>> /\ heads = <<>>
  BY <1>0, <1>1 DEF Headed, InOrder, Growing
<1>2. CASE /\ DOMAIN rows = {1, 2} /\ DOMAIN heads = {1} /\ heads[1].thread = rows[1].thread
           /\ rows[1].day = 1 /\ rows[2].day = 1 /\ day = 1
           /\ rows[1].messages = <<>> /\ rows[2].messages = <<0>>
  <2>1. IsPrefix(<<>>, <<>>) /\ IsPrefix(<<>>, <<0>>) /\ IsPrefix(<<0>>, <<0>>)
    BY DEF IsPrefix
  <2>2. Headed /\ InOrder
    BY <1>2 DEF Headed, InOrder, Log
  <2>3. ASSUME NEW i \in {1, 2}, NEW j \in {1, 2}, i =< j PROVE IsPrefix(rows[i].messages, rows[j].messages)
    BY <1>2, <2>1, <2>3
  <2> QED BY <1>0, <1>2, <2>2, <2>3 DEF Growing
<1> QED BY <1>1, <1>2 DEF ThreadsInit

LEMMA PrefixOfPrefix ==
  ASSUME NEW p \in Seq(Nat), NEW q \in Seq(Nat), NEW s \in Seq(Nat), IsPrefix(p, q), IsPrefix(q, s)
  PROVE  IsPrefix(p, s)
<1>1. Len(p) =< Len(q) /\ Len(q) =< Len(s) /\ Len(p) \in Nat /\ Len(q) \in Nat /\ Len(s) \in Nat
  BY DEF IsPrefix
<1>2. \A i \in 1 .. Len(p) : p[i] = q[i]
  BY <1>1 DEF IsPrefix
<1>3. \A i \in 1 .. Len(q) : q[i] = s[i]
  BY <1>1 DEF IsPrefix
<1>4. SubSeq(p, 1, Len(p)) = SubSeq(s, 1, Len(p))
  <2>1. SubSeq(p, 1, Len(p)) \in Seq(Nat) /\ SubSeq(s, 1, Len(p)) \in Seq(Nat)
    BY <1>1
  <2>2. Len(SubSeq(p, 1, Len(p))) = Len(SubSeq(s, 1, Len(p))) /\ Len(SubSeq(p, 1, Len(p))) = Len(p)
    BY <1>1
  <2>3. \A i \in 1 .. Len(p) : SubSeq(p, 1, Len(p))[i] = SubSeq(s, 1, Len(p))[i]
    BY <1>1, <1>2, <1>3
  <2> QED BY <2>1, <2>2, <2>3, SeqEqual
<1> QED BY <1>1, <1>4 DEF IsPrefix

LEMMA HeadedStep ==
  ASSUME ThreadsShape, Headed, Begun, [ThreadsNext]_threadVars
  PROVE  Headed' /\ Begun'
<1>1. rows \in Seq(Row) /\ heads \in Seq(HeadRows) /\ run \in [Runs -> Asked \cup {None}] /\ None \notin Runs
  BY ThreadConstantsOK DEF ThreadsShape
<1>2. CASE UNCHANGED <<rows, heads>> /\ \A q \in Runs : RunAt(q, "run")' => RunAt(q, "run") /\ run'[q].thread = run[q].thread
  <2>1. \A t : Log(t)' = Log(t)
    BY <1>2, SameLog
  <2> QED BY <1>2, <2>1 DEF Headed, Begun
\* A head is added for a thread that has checkpoints by then.
<1>3. ASSUME NEW r \in Runs, NEW t, t = run[r].thread, \A s : Log(s) \subseteq Log(s)', Log(t)' # {},
             heads' = heads \/ heads' = Append(heads, HeadRow(r)), run[r] \in Asked,
             \A q \in Runs \ {r} : run'[q] = run[q], run'[r].thread = t
      PROVE  Headed' /\ Begun'
  <2>1. HeadRow(r) \in HeadRows /\ HeadRow(r).thread = t
    BY <1>3 DEF HeadRow, HeadRows, Asked
  <2>2. \A i \in DOMAIN heads' : (i \in DOMAIN heads /\ heads'[i] = heads[i]) \/ heads'[i] = HeadRow(r)
    BY <1>1, <1>3, <2>1, AppendProperties
  <2>3. Headed'
    BY <1>3, <2>1, <2>2 DEF Headed
  <2>4. ASSUME NEW q \in Runs, RunAt(q, "run")' PROVE Log(run[q].thread)' # {}
    <3>1. CASE q = r
      BY <1>3, <3>1
    <3>2. CASE q # r
      <4>1. run'[q] = run[q] /\ RunAt(q, "run")
        BY <1>3, <2>4, <3>2 DEF RunAt
      <4> QED BY <1>3, <4>1 DEF Begun
    <3> QED BY <3>1, <3>2
  <2> QED BY <2>3, <2>4 DEF Begun
<1>4. ASSUME NEW r \in Runs, StartRun(r) \/ EndRun(r) PROVE Headed' /\ Begun'
  <2>1. run[r] \in Asked /\ run[r] # None
    BY <1>4 DEF StartRun, EndRun, RunAt, ThreadsShape
  <2>2. PICK c, t : t = run[r].thread /\ c.thread = t /\ rows' = Append(rows, c)
                    /\ (heads' = heads \/ heads' = Append(heads, HeadRow(r)))
    <3>1. PICK m : Checkpoint(r, m)
      BY <1>4 DEF StartRun, EndRun
    <3> DEFINE d == [thread |-> run[r].thread, user |-> run[r].user, agent |-> run[r].agent,
                     day |-> day, messages |-> m]
    <3>2. rows' = Append(rows, d) /\ d.thread = run[r].thread /\ (heads' = heads \/ heads' = Append(heads, HeadRow(r)))
      BY <3>1 DEF Checkpoint
    <3> HIDE DEF d
    <3> QED BY <3>2
  <2>3. /\ \A i \in DOMAIN rows : i \in DOMAIN rows' /\ rows'[i] = rows[i]
        /\ Len(rows) + 1 \in DOMAIN rows' /\ rows'[Len(rows) + 1] = c
    BY <1>1, <2>2
  <2>4. (\A s : Log(s) \subseteq Log(s)') /\ Len(rows) + 1 \in Log(t)'
    BY <2>2, <2>3 DEF Log
  <2>5. \A q \in Runs \ {r} : run'[q] = run[q]
    BY <1>1, <1>4 DEF StartRun, EndRun, RunGoto
  <2>6. run'[r].thread = t
    BY <1>1, <1>4, <2>1, <2>2 DEF StartRun, EndRun, RunGoto, Asked
  <2> QED BY <1>3, <2>1, <2>2, <2>4, <2>5, <2>6
<1>5. ASSUME NEW r \in Runs, CallSubgraph(r) PROVE Headed' /\ Begun'
  <2>1. run[r] \in Asked /\ Log(run[r].thread) # {} /\ rows' = rows /\ run' = run
    BY <1>5 DEF CallSubgraph, RunAt, ThreadsShape, Begun
  <2>2. \A t : Log(t)' = Log(t)
    BY <2>1, SameLog
  <2>3. heads' = Append(heads, HeadRow(r))
    BY <1>5 DEF CallSubgraph
  <2> QED BY <1>3, <2>1, <2>2, <2>3
<1>6. CASE Midnight \/ UNCHANGED threadVars
  BY <1>2, <1>6 DEF Midnight, threadVars, RunAt
<1>7. ASSUME NEW r \in Runs, NEW q, run' = [run EXCEPT ![r] = q], q.pc # "run", UNCHANGED <<rows, heads>>
      PROVE  Headed' /\ Begun'
  <2>1. run'[r] = q /\ \A p \in Runs \ {r} : run'[p] = run[p]
    BY <1>1, <1>7
  <2> QED BY <1>2, <1>7, <2>1 DEF RunAt
<1>8. ASSUME NEW r \in Runs, NEW pc, pc # "run", run[r] # None, RunGoto(r, pc), UNCHANGED <<rows, heads>>
      PROVE  Headed' /\ Begun'
  <2> DEFINE q == [run[r] EXCEPT !.pc = pc]
  <2>1. run[r] \in Asked
    BY <1>1, <1>8
  <2>2. run' = [run EXCEPT ![r] = q] /\ q.pc = pc
    BY <1>8, <2>1 DEF RunGoto, Asked
  <2> HIDE DEF q
  <2> QED BY <1>7, <1>8, <2>2
<1>9. ASSUME NEW r \in Runs, NEW route \in RunRoutes, NEW t \in Threads, NEW u \in Users, NEW a \in Agents,
             NEW admin \in Trusted, RequestRun(r, route, t, u, a, admin)
      PROVE  Headed' /\ Begun'
  <2> DEFINE q == [pc |-> IF route = "invoke" THEN "guard" ELSE "authorize", route |-> route,
                   thread |-> t, user |-> u, agent |-> a, admin |-> admin, claim |-> None, seen |-> <<>>]
  <2>1. run' = [run EXCEPT ![r] = q] /\ q.pc # "run" /\ UNCHANGED <<rows, heads>>
    BY <1>9 DEF RequestRun
  <2> HIDE DEF q
  <2> QED BY <1>7, <2>1
<1>10. ASSUME NEW r \in Runs, Authorize(r) PROVE Headed' /\ Begun'
  <2>1. run[r] \in Asked /\ run[r] # None /\ UNCHANGED <<rows, heads>> /\ WhenAuthorized(r) # "run"
    BY <1>10 DEF Authorize, RunAt, ThreadsShape, WhenAuthorized
  <2>2. CASE RunGoto(r, WhenAuthorized(r)) \/ RefuseRun(r)
    BY <1>8, <2>1, <2>2 DEF RefuseRun
  <2>3. ASSUME NEW c, run' = [run EXCEPT ![r].pc = "claim", ![r].claim = c] PROVE Headed' /\ Begun'
    <3> DEFINE q == [run[r] EXCEPT !.pc = "claim", !.claim = c]
    <3>1. run' = [run EXCEPT ![r] = q] /\ q.pc = "claim"
      BY <1>1, <2>1, <2>3 DEF Asked
    <3> HIDE DEF q
    <3> QED BY <1>7, <2>1, <3>1
  <2> QED BY <1>10, <2>2, <2>3 DEF Authorize
<1>11. ASSUME NEW r \in Runs, Claim(r) \/ EnterThread(r) \/ BreakRun(r) PROVE Headed' /\ Begun'
  <2>1. run[r] # None /\ UNCHANGED <<rows, heads>>
    BY <1>11 DEF Claim, EnterThread, BreakRun, RunAt
  <2>2. PICK pc : pc # "run" /\ RunGoto(r, pc)
    BY <1>11 DEF Claim, EnterThread, BreakRun, RefuseRun, WhenAuthorized
  <2> QED BY <1>8, <2>1, <2>2
<1> QED BY <1>4, <1>5, <1>6, <1>9, <1>10, <1>11 DEF ThreadsNext

\* A run's checkpoint goes behind the others, with all the thread said before.
LEMMA LogStep == LInv /\ [ThreadsNext]_threadVars => LInv'
<1> SUFFICES ASSUME LInv, [ThreadsNext]_threadVars PROVE InOrder' /\ Growing'
  BY ThreadsStep, HeadedStep DEF LInv, HInv
<1>1. rows \in Seq(Row) /\ HasLast /\ day \in Nat /\ day' \in {day, day + 1} /\ rows' \in Seq(Row)
  <2>1. HInv'
    BY ThreadsStep DEF LInv, HInv
  <2>2. day' \in {day, day + 1}
    BY DEF ThreadsNext, threadVars, RequestRun, Authorize, Claim, EnterThread, StartRun, CallSubgraph, EndRun,
           BreakRun, Midnight
  <2> QED BY <2>1, <2>2 DEF LInv, HInv, ThreadsShape
<1>2. CASE rows' = rows
  <2>1. \A i \in DOMAIN rows : rows[i].day \in Nat
    BY <1>1, RowDays
  <2>2. InOrder'
    BY <1>1, <1>2, <2>1 DEF LInv, InOrder
  <2> QED BY <1>2, <2>2 DEF LInv, Growing
<1>3. ASSUME NEW r \in Runs, StartRun(r) \/ EndRun(r) PROVE InOrder' /\ Growing'
  <2> DEFINE n == Len(rows) + 1
  <2>1. \A t \in Threads : IsPrefix(Tip(t), Tip(t)')
    BY <1>3, RunSteps_Write DEF LInv, HInv
  <2>2. PICK c \in Row : rows' = Append(rows, c) /\ c.day = day
    <3>1. run[r] \in Asked
      BY <1>3 DEF LInv, HInv, ThreadsShape, StartRun, EndRun, RunAt
    <3>2. PICK m \in Seq(Nat) : Checkpoint(r, m)
      <4>1. CASE StartRun(r)
        <5>1. Tip(run[r].thread) \in Seq(Nat)
          BY <1>1, <3>1, TipIsARow DEF Asked
        <5> QED BY <4>1, <5>1 DEF StartRun
      <4>2. CASE EndRun(r)
        <5>1. Append(run[r].seen, Len(rows)) \in Seq(Nat)
          BY <1>1, <3>1, AppendProperties DEF Asked
        <5> QED BY <4>2, <5>1 DEF EndRun
      <4> QED BY <1>3, <4>1, <4>2
    <3> DEFINE d == [thread |-> run[r].thread, user |-> run[r].user, agent |-> run[r].agent,
                     day |-> day, messages |-> m]
    <3>3. rows' = Append(rows, d)
      BY <3>2 DEF Checkpoint
    <3>4. d \in Row /\ d.day = day
      BY <1>1, <3>1 DEF Row, Asked
    <3> HIDE DEF d
    <3> QED BY <3>3, <3>4
  <2>3. /\ DOMAIN rows' = DOMAIN rows \cup {n} /\ rows'[n] = c /\ Tip(c.thread)' = c.messages
        /\ \A i \in DOMAIN rows : rows'[i] = rows[i]
    BY <1>1, <2>2, Appended
  <2>4. day' = day
    BY <1>3 DEF StartRun, EndRun
  <2>5. /\ \A i \in DOMAIN rows : i < n /\ i \in Nat /\ rows[i] \in Row /\ rows[i].messages \in Seq(Nat)
        /\ n \in Nat /\ c.messages \in Seq(Nat) /\ c.thread \in Threads
    <3>1. \A i \in DOMAIN rows : i < n /\ i \in Nat /\ rows[i] \in Row
      BY <1>1
    <3>2. n \in Nat
      BY <1>1
    <3> QED BY <3>1, <3>2 DEF Row
  <2> HIDE DEF n
  <2>7. InOrder'
    <3> SUFFICES ASSUME NEW i \in DOMAIN rows', NEW j \in DOMAIN rows', i =< j
                 PROVE  rows'[i].day =< rows'[j].day /\ rows'[j].day =< day
      BY <2>4 DEF InOrder
    <3>1. CASE j \in DOMAIN rows
      <4>1. i \in DOMAIN rows
        BY <2>3, <2>5, <3>1
      <4> QED BY <2>3, <3>1, <4>1 DEF LInv, InOrder
    <3>2. CASE j = n
      <4>1. rows'[j].day = day
        BY <2>2, <2>3, <3>2
      <4>2. i \in DOMAIN rows => rows'[i].day =< day
        BY <2>3, <2>5 DEF LInv, InOrder
      <4> QED BY <1>1, <2>2, <2>3, <4>1, <4>2
    <3> QED BY <2>3, <3>1, <3>2
  <2>8. Growing'
    <3> SUFFICES ASSUME NEW i \in DOMAIN rows', NEW j \in DOMAIN rows', i =< j, rows'[i].thread = rows'[j].thread
                 PROVE  IsPrefix(rows'[i].messages, rows'[j].messages)
      BY DEF Growing
    <3>1. CASE j \in DOMAIN rows
      <4>1. i \in DOMAIN rows
        BY <2>3, <2>5, <3>1
      <4> QED BY <2>3, <3>1, <4>1 DEF LInv, Growing
    <3>2. CASE i = n /\ j = n
      BY <2>3, <2>5, <3>2, PrefixOfAppend
    <3>3. CASE i \in DOMAIN rows /\ j = n
      <4>1. rows'[i] = rows[i] /\ rows[i].thread = c.thread /\ rows'[j] = c /\ i \in Log(c.thread)
        BY <2>3, <3>3 DEF Log
      <4>2. LastRow(c.thread) \in Log(c.thread) /\ i =< LastRow(c.thread)
        <5>1. Log(c.thread) \in SUBSET DOMAIN rows
          BY DEF Log
        <5> QED BY <1>1, <4>1, <5>1, LatestOf DEF LastRow
      <4>3. LastRow(c.thread) \in DOMAIN rows /\ rows[LastRow(c.thread)].thread = c.thread
        BY <4>2 DEF Log
      <4>4. Tip(c.thread) = rows[LastRow(c.thread)].messages
        BY <4>2 DEF Tip, Says, LastRow
      <4>5. IsPrefix(rows[i].messages, Tip(c.thread))
        BY <3>3, <4>1, <4>2, <4>3, <4>4 DEF LInv, Growing
      <4>6. IsPrefix(Tip(c.thread), c.messages)
        BY <2>1, <2>3, <2>5
      <4>7. Tip(c.thread) \in Seq(Nat) /\ rows[i].messages \in Seq(Nat)
        BY <2>5, <3>3, <4>3, <4>4
      <4> QED BY <2>5, <4>1, <4>5, <4>6, <4>7, PrefixOfPrefix
    <3>4. ~(i = n /\ j \in DOMAIN rows)
      BY <2>5
    <3> QED BY <2>3, <3>1, <3>2, <3>3, <3>4
  <2> QED BY <2>7, <2>8
<1> QED
  BY <1>2, <1>3 DEF ThreadsNext, threadVars, RequestRun, Authorize, Claim, EnterThread, CallSubgraph, BreakRun, Midnight

\* The list names threads of the user, once each and the one updated last in front, and leaves out
\* none but those that its bounds overlook and those updated before all of a full list
\* (threads.py:72), however many subgraphs the runs call and whoever is trusted.
THEOREM NewestAreListed == ThreadsSpec => []NewestListed
<1>1. LInv => NewestListed
  BY ListsNewest DEF LInv, HInv, ThreadsShape
<1> QED BY <1>1, LogBegins, LogStep, PTL DEF ThreadsSpec

\* Each message of a thread is shown on one of the days that are listed, and none is lost between two
\* (chat_records.py:108, 172).
THEOREM DaysAreTheThread ==
  ASSUME TRUE \notin Trusted
  PROVE  ThreadsSpec => []DaysMakeTheThread
<1>1. TInv /\ [ThreadsNext]_threadVars => TInv'
  BY ThreadsStep DEF TInv
<1>2. TInv /\ LInv => DaysMakeTheThread
  BY DaysShowAll DEF TInv, LInv
<1> QED BY <1>1, <1>2, ThreadsBegin, LogBegins, LogStep, PTL DEF ThreadsSpec

=============================================================================
