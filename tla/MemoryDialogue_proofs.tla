----------------------- MODULE MemoryDialogue_proofs ------------------------
(***************************************************************************)
(* Theorems about MemoryDialogue and the memory service, for any number of *)
(* processes, requests, memories and failures.                             *)
(*                                                                         *)
(* The strengthening says that a request is in one queue only (Queued),    *)
(* that a worker with something to do holds the user's lock (Locked), and  *)
(* that every row it is still going to erase or write is as the user was   *)
(* shown it, or gone already (Planned).  The last parts add, for each      *)
(* operation under way, what its statements have done so far to the rows   *)
(* it found (Progress), that no row is younger than the clock (Past), and  *)
(* that whoever has the lock is at work (LockUsed).                        *)
(***************************************************************************)
EXTENDS MemoryDialogue, FiniteSetTheorems, TLAPS

Confirmations == {"confirm_update", "confirm_delete", "confirm_delete_many", "confirm_delete_all"}
Changes == {"remember", "update", "confirm_update"}

\* The operation of a call, and the one a worker is at.
OpOf(r) == call[r].op
Current(p) == OpOf(Head(pending[p]))

\* What an operation brings with it.
WellFormed(o) ==
  /\ o \in Operation
  /\ o.ids \in Seq(Memories)
  /\ o.kind \in Changes => o.text \in Texts
  /\ o.seen # NothingShown => o.kind \in Confirmations
  /\ o.kind \notin {"remember", "delete_all", "confirm_delete_all"} => o.ids # <<>>

Queued ==
  /\ \A p \in Procs : \A k \in DOMAIN pending[p] :
       /\ call[pending[p][k]] # None
       /\ WellFormed(OpOf(pending[p][k]))
  /\ \A p, q \in Procs : \A j \in DOMAIN pending[p], k \in DOMAIN pending[q] :
       pending[p][j] = pending[q][k] => p = q /\ j = k

Locked == \A p \in Procs : /\ work[p].on => lock = p /\ pending[p] # <<>>
                           /\ work[p].todo # <<>> => work[p].on

\* Todo as the operation o may still have it.
Fits(todo, o) ==
  \A k \in DOMAIN todo :
    /\ todo[k].do \in {"write", "insert"} =>
         o.text \in Texts /\ k = 1 /\ \A j \in DOMAIN todo : todo[j].do # "erase"
    /\ o.seen # NothingShown =>
         /\ todo[k].do # "insert"
         /\ todo[k].do = "erase" => store[todo[k].id] \in {o.seen[todo[k].id], None}
         /\ todo[k].do = "write" => store[todo[k].id] = o.seen[todo[k].id]

Planned == \A p \in Procs : work[p].on => Fits(work[p].todo, Current(p))

Speaks ==
  /\ turn.pc = "apply" => turn.request \in Requests /\ call[turn.request] # None /\ dlg.pending # None
  /\ turn.pc = "gather" => turn.ids # <<>> /\ turn.proc \in Procs
  /\ dlg.pending # None =>
       LET q == dlg.pending IN
       /\ q.action = "update" => q.text \in Texts
       /\ q.action = "history" => q.stage = "select"
       /\ q.action # "delete_all" => q.choices # <<>>

SInv == ServiceTypeOK /\ Queued /\ Locked /\ Planned
DInv == DialogueTypeOK /\ Speaks

-----------------------------------------------------------------------------
(* What an operation plans. *)

LEMMA LiveRows ==
  ASSUME ServiceTypeOK
  PROVE  /\ Live \subseteq Mine /\ Mine \subseteq Memories
         /\ IsFiniteSet(Live) /\ Cardinality(Live) \in Nat /\ (Live = {} => Cardinality(Live) = 0)
         /\ \A m \in Memories : Owned(m) <=> m \in Live
<1>1. Live \subseteq Mine /\ Mine \subseteq Memories
  BY DEF Live, Mine
<1>2. IsFiniteSet(Live)
  BY <1>1, ServiceConstantsOK, FS_Subset
<1> QED BY <1>1, <1>2, FS_CardinalityType, FS_EmptySet DEF Live, Owned

LEMMA DeletionsFit ==
  ASSUME ServiceTypeOK, NEW o, NEW ms \in Seq(Mine),
         o.seen # NothingShown => \A i \in DOMAIN ms : store[ms[i]] = o.seen[ms[i]]
  PROVE  DeleteEach(ms) \in Seq(Statement) /\ Fits(DeleteEach(ms), o)
<1> DEFINE n == 2 * Len(ms)
<1>1. n \in Nat /\ DOMAIN DeleteEach(ms) = 1 .. n
  BY DEF DeleteEach
<1>2. ASSUME NEW k \in 1 .. n
      PROVE  /\ (k + 1) \div 2 \in DOMAIN ms /\ DeleteEach(ms)[k].id = ms[(k + 1) \div 2]
             /\ DeleteEach(ms)[k].do \in {"erase", "log"} /\ DeleteEach(ms)[k] \in Statement
  <2>1. (k + 1) \div 2 \in 1 .. Len(ms)
    BY <1>1
  <2>2. ms[(k + 1) \div 2] \in Mine
    BY <2>1
  <2>3. DeleteEach(ms)[k] = S(IF k % 2 = 1 THEN "erase" ELSE "log", ms[(k + 1) \div 2])
    BY DEF DeleteEach
  <2> QED BY <2>1, <2>2, <2>3 DEF S, Statement
<1>3. DeleteEach(ms) \in Seq(Statement)
  <2>1. DeleteEach(ms) \in [1 .. n -> Statement]
    BY <1>1, <1>2 DEF DeleteEach
  <2> QED BY <1>1, <2>1
<1>4. Fits(DeleteEach(ms), o)
  BY <1>1, <1>2 DEF Fits
<1> QED BY <1>3, <1>4

LEMMA PlansFit ==
  ASSUME ServiceTypeOK, NEW o, WellFormed(o), NEW w \in Plans(o)
  PROVE  w \in Work /\ w.on /\ Fits(w.todo, o)
<1>1. \A todo \in Seq(Statement), result \in Results : Plan(todo, result) \in Work /\ Plan(todo, result).on
        /\ Plan(todo, result).todo = todo
  BY DEF Plan, Work
<1>2. <<>> \in Seq(Statement) /\ Fits(<<>>, o)
  BY DEF Fits
<1>3. {"saved", "conflict", "cleared", "unchanged", "not_found", "updated", "deleted"} \subseteq Results
  BY DEF Results
<1>4. \A result \in Results : w = Plan(<<>>, result) => w \in Work /\ w.on /\ Fits(w.todo, o)
  BY <1>1, <1>2
<1>5. CASE o.kind = "remember"
  <2>1. w = Plan(<<>>, "saved") \/ \E m \in Mine \ Live : w = Plan(<<S("insert", m), S("log", m)>>, "saved")
    <3>1. Plans(o) = {Plan(<<>>, "saved")} \cup {Plan(<<S("insert", m), S("log", m)>>, "saved") : m \in Mine \ Live}
      BY <1>5, Zenon DEF Plans
    <3> QED BY <3>1
  <2>2. ASSUME NEW m \in Mine, w = Plan(<<S("insert", m), S("log", m)>>, "saved")
        PROVE  w \in Work /\ w.on /\ Fits(w.todo, o)
    <3> DEFINE todo == <<S("insert", m), S("log", m)>>
    <3>1. todo \in Seq(Statement)
      BY DEF S, Statement
    <3>2. o.text \in Texts /\ o.seen = NothingShown
      BY <1>5 DEF WellFormed, Changes, Confirmations
    <3>3. DOMAIN todo = {1, 2} /\ todo[1].do = "insert" /\ todo[2].do = "log"
      BY DEF S
    <3> HIDE DEF todo
    <3>4. Fits(todo, o)
      BY <3>2, <3>3 DEF Fits
    <3> QED BY <1>1, <1>3, <2>2, <3>1, <3>4 DEF todo
  <2> QED BY <1>3, <1>4, <2>1, <2>2
<1>6. CASE o.kind = "confirm_delete_all" /\ Live # {} /\ o.seen # Snapshot
  <2>1. o.kind # "remember"
    BY <1>6
  <2>2. Plans(o) = {Plan(<<>>, "conflict")}
    BY <1>6, <2>1, Zenon DEF Plans
  <2> QED BY <1>3, <1>4, <2>2
<1>7. CASE o.kind = "delete_all" \/ (o.kind = "confirm_delete_all" /\ (Live = {} \/ o.seen = Snapshot))
  <2>1. o.kind # "remember" /\ ~(o.kind = "confirm_delete_all" /\ Live # {} /\ o.seen # Snapshot)
    BY <1>7
  <2>2. Plans(o) = {Plan(DeleteEach(ms), "cleared") : ms \in Orders}
    BY <1>7, <2>1, Zenon DEF Plans
  <2>3. PICK ms \in Orders : w = Plan(DeleteEach(ms), "cleared")
    BY <2>2
  <2>4. ms \in Seq(Mine) /\ (Live = {} => DOMAIN ms = {}) /\ \A i \in DOMAIN ms : ms[i] \in Live
    <3>1. ms \in [1 .. Cardinality(Live) -> Live]
      BY DEF Orders
    <3>2. ms \in [1 .. Cardinality(Live) -> Mine]
      BY <3>1, LiveRows
    <3>3. Live = {} => 1 .. Cardinality(Live) = {}
      BY LiveRows
    <3> QED BY <3>1, <3>2, <3>3, LiveRows
  <2>5. o.seen # NothingShown => \A i \in DOMAIN ms : store[ms[i]] = o.seen[ms[i]]
    <3>1. CASE o.kind = "delete_all"
      BY <3>1 DEF WellFormed, Confirmations
    <3>2. CASE Live = {}
      BY <2>4, <3>2
    <3>3. CASE o.seen = Snapshot
      <4>1. \A m \in Live : Snapshot[m] = store[m]
        BY LiveRows DEF Snapshot
      <4> QED BY <2>4, <3>3, <4>1
    <3> QED BY <1>7, <3>1, <3>2, <3>3
  <2>6. DeleteEach(ms) \in Seq(Statement) /\ Fits(DeleteEach(ms), o)
    BY <2>4, <2>5, DeletionsFit
  <2> QED BY <1>1, <1>3, <2>3, <2>6
<1>8. CASE o.kind \notin {"remember", "delete_all", "confirm_delete_all"}
  <2>1. w = TargetPlan(o)
    <3>1. /\ o.kind # "remember" /\ ~(o.kind = "confirm_delete_all" /\ Live # {} /\ o.seen # Snapshot)
          /\ ~(o.kind = "delete_all" \/ (o.kind = "confirm_delete_all" /\ (Live = {} \/ o.seen = Snapshot)))
      BY <1>8
    <3>2. Plans(o) = {TargetPlan(o)}
      BY <3>1, Zenon DEF Plans
    <3> QED BY <3>2
  <2>2. CASE Unchanged(o)
    BY <1>3, <1>4, <2>1, <2>2 DEF TargetPlan
  <2>3. CASE ~Unchanged(o) /\ Refused(o) # {}
    BY <1>3, <1>4, <2>1, <2>3 DEF TargetPlan, Refusal
  <2>4. ASSUME Refused(o) = {}
        PROVE  /\ o.ids \in Seq(Mine) /\ o.ids # <<>>
               /\ o.seen # NothingShown => \A i \in DOMAIN o.ids : store[o.ids[i]] = o.seen[o.ids[i]]
    <3>1. o.ids \in Seq(Memories) /\ o.ids # <<>>
      BY <1>8 DEF WellFormed
    <3>2. \A i \in DOMAIN o.ids : Owned(o.ids[i])
      BY <2>4 DEF Refused
    <3>3. o.ids \in Seq(Mine)
      BY <3>1, <3>2 DEF Owned
    <3>4. o.seen # NothingShown => o.kind \in {"confirm_update", "confirm_delete", "confirm_delete_many"}
      BY <1>8 DEF WellFormed, Confirmations
    <3> QED BY <2>4, <3>1, <3>3, <3>4 DEF Refused
  <2>5. CASE ~Unchanged(o) /\ Refused(o) = {} /\ o.kind \in {"update", "confirm_update"}
    <3> DEFINE m == o.ids[1]
               todo == Update(m)
    <3>1. w = Plan(todo, "updated")
      BY <2>1, <2>5 DEF TargetPlan
    <3>2. m \in Mine /\ 1 \in DOMAIN o.ids
      BY <2>4, <2>5
    <3>3. o.text \in Texts
      BY <2>5 DEF WellFormed, Changes
    <3>4. todo \in Seq(Statement)
      BY <3>2 DEF Update, S, Statement
    <3>5. DOMAIN todo = {1, 2} /\ todo[1].do = "write" /\ todo[1].id = m /\ todo[2].do = "log"
      BY DEF Update, S
    <3>6. o.seen # NothingShown => store[m] = o.seen[m]
      BY <2>4, <2>5, <3>2
    <3> HIDE DEF todo, m
    <3>7. Fits(todo, o)
      BY <3>3, <3>5, <3>6 DEF Fits
    <3> QED BY <1>1, <1>3, <3>1, <3>4, <3>7
  <2>6. CASE ~Unchanged(o) /\ Refused(o) = {} /\ o.kind \notin {"update", "confirm_update"}
    <3>1. w = Plan(DeleteEach(o.ids), "deleted")
      BY <2>1, <2>6 DEF TargetPlan
    <3>2. DeleteEach(o.ids) \in Seq(Statement) /\ Fits(DeleteEach(o.ids), o)
      BY <2>4, <2>6, DeletionsFit
    <3> QED BY <1>1, <1>3, <3>1, <3>2
  <2> QED BY <2>2, <2>3, <2>5, <2>6
<1> QED BY <1>5, <1>6, <1>7, <1>8

-----------------------------------------------------------------------------
(* Calls and workers. *)

\* No call is forgotten, and the rest of what the dialogue sees is left alone.
Remembered == \A r \in Requests : call[r] # None => call'[r] # None

\* Whoever is at work afterwards was so before, at the same operation.
Undisturbed ==
  /\ UNCHANGED <<store, clock>>
  /\ \A q \in Procs : work'[q].on => /\ work[q].on /\ work'[q] = work[q]
                                     /\ Current(q)' = Current(q) /\ base' = base

\* Who leaves the workers and the rows alone leaves their plans alone.
LEMMA UndisturbedPlans ==
  ASSUME Planned, Undisturbed
  PROVE  Planned'
<1> SUFFICES ASSUME NEW q \in Procs, work'[q].on PROVE Fits(work[q].todo, Current(q))'
  BY DEF Planned
<1>1. PICK o : o = Current(q)
  OBVIOUS
<1>2. Current(q)' = o /\ work'[q] = work[q] /\ UNCHANGED store
  BY <1>1 DEF Undisturbed
<1>3. Fits(work[q].todo, o)
  BY <1>1 DEF Planned, Undisturbed
<1> QED BY <1>2, <1>3 DEF Fits

LEMMA CallKeeps ==
  ASSUME SInv, NEW p \in Procs, NEW r \in Requests, NEW o, WellFormed(o),
         NEW result \in {"waiting", "unheard"}, Call(p, r, o, result)
  PROVE  SInv' /\ Remembered /\ Undisturbed /\ call'[r] # None
<1> DEFINE c == [op |-> o, result |-> result]
<1>1. /\ call \in [Requests -> CallRecord \cup {None}] /\ pending \in [Procs -> Seq(Requests)]
      /\ MaxPending \in Nat
  BY ServiceConstantsOK DEF SInv, ServiceTypeOK
<1>2. c \in CallRecord /\ c # None /\ c.op = o
  BY NoneIsNothing DEF CallRecord, Results, WellFormed
<1>3. /\ call[r] = None /\ call' = [call EXCEPT ![r] = c]
      /\ Len(pending[p]) < MaxPending /\ pending' = [pending EXCEPT ![p] = Append(pending[p], r)]
      /\ UNCHANGED <<store, history, clock, lock, work, faults, base>>
  BY DEF Call
<1> HIDE DEF c
<1>4. /\ call' \in [Requests -> CallRecord \cup {None}] /\ call'[r] = c
      /\ \A x \in Requests \ {r} : call'[x] = call[x]
  BY <1>1, <1>2, <1>3
<1>5. \A q \in Procs : \A k \in DOMAIN pending[q] : pending[q][k] \in Requests \ {r}
  BY <1>1, <1>3 DEF SInv, Queued
<1>6. /\ pending' \in [Procs -> Seq(Requests)] /\ Len(pending'[p]) <= MaxPending
      /\ DOMAIN pending'[p] = DOMAIN pending[p] \cup {Len(pending[p]) + 1}
      /\ Len(pending[p]) + 1 \notin DOMAIN pending[p]
      /\ pending'[p][Len(pending[p]) + 1] = r
      /\ \A k \in DOMAIN pending[p] : pending'[p][k] = pending[p][k]
      /\ \A q \in Procs \ {p} : pending'[q] = pending[q]
  BY <1>1, <1>3
<1>7. ServiceTypeOK'
  BY <1>3, <1>4, <1>6 DEF SInv, ServiceTypeOK
<1>8. Queued'
  <2>1. \A q \in Procs : \A k \in DOMAIN pending'[q] :
          \/ k \in DOMAIN pending[q] /\ pending'[q][k] = pending[q][k]
          \/ q = p /\ k = Len(pending[p]) + 1 /\ pending'[q][k] = r
    BY <1>6
  <2>2. ASSUME NEW q \in Procs, NEW k \in DOMAIN pending'[q]
        PROVE  call'[pending'[q][k]] # None /\ WellFormed(call'[pending'[q][k]].op)
    <3>1. CASE k \in DOMAIN pending[q] /\ pending'[q][k] = pending[q][k]
      BY <1>4, <1>5, <3>1 DEF SInv, Queued, OpOf
    <3>2. CASE pending'[q][k] = r
      BY <1>2, <1>4, <3>2
    <3> QED BY <2>1, <2>2, <3>1, <3>2
  <2>3. ASSUME NEW q \in Procs, NEW x \in Procs, NEW j \in DOMAIN pending'[q], NEW k \in DOMAIN pending'[x],
               pending'[q][j] = pending'[x][k]
        PROVE  q = x /\ j = k
    BY <1>5, <2>1, <2>3 DEF SInv, Queued
  <2> QED BY <2>2, <2>3 DEF Queued, OpOf, WellFormed
<1>9. \A q \in Procs : pending[q] # <<>> =>
        pending'[q] # <<>> /\ Head(pending'[q]) = Head(pending[q]) /\ Current(q)' = Current(q)
  <2> SUFFICES ASSUME NEW q \in Procs, pending[q] # <<>>
               PROVE  pending'[q] # <<>> /\ Head(pending'[q]) = Head(pending[q]) /\ Current(q)' = Current(q)
    OBVIOUS
  <2>1. pending[q] \in Seq(Requests) /\ pending'[q] \in Seq(Requests) /\ 1 \in DOMAIN pending[q]
    BY <1>1, <1>6
  <2>2. 1 \in DOMAIN pending'[q] /\ pending'[q][1] = pending[q][1]
    BY <1>6, <2>1
  <2>3. Head(pending'[q]) = Head(pending[q]) /\ Head(pending[q]) \in Requests \ {r} /\ pending'[q] # <<>>
    BY <1>5, <2>1, <2>2
  <2> QED BY <1>4, <2>3 DEF Current, OpOf
<1>10. Locked'
  BY <1>3, <1>9 DEF SInv, Locked
<1>11. Planned'
  BY <1>3, <1>9 DEF SInv, Locked, Planned, Fits
<1>12. Undisturbed
  BY <1>3, <1>9 DEF SInv, Locked, Undisturbed
<1> QED BY <1>2, <1>4, <1>7, <1>8, <1>10, <1>11, <1>12 DEF SInv, Remembered

\* What a caller knows changes, but not what its operation is.
LEMMA AnswerKeeps ==
  ASSUME SInv, NEW r \in Requests, call[r] # None, NEW result \in Results,
         call' = [call EXCEPT ![r].result = result],
         UNCHANGED <<store, history, clock, lock, pending, work, faults, base>>
  PROVE  SInv' /\ Remembered /\ Undisturbed
<1>1. call \in [Requests -> CallRecord \cup {None}] /\ call[r] \in CallRecord
  BY DEF SInv, ServiceTypeOK
<1>2. /\ call' \in [Requests -> CallRecord \cup {None}]
      /\ \A x \in Requests : call[x] # None => call'[x] # None /\ call'[x].op = call[x].op
  BY <1>1, NoneIsNothing DEF CallRecord
<1>3. ServiceTypeOK'
  BY <1>2 DEF SInv, ServiceTypeOK
<1>4. pending \in [Procs -> Seq(Requests)]
  BY DEF SInv, ServiceTypeOK
<1>5. \A p \in Procs : \A k \in DOMAIN pending[p] :
        pending[p][k] \in Requests /\ call[pending[p][k]] # None /\ OpOf(pending[p][k])' = OpOf(pending[p][k])
  BY <1>2, <1>4 DEF SInv, Queued, OpOf
<1>6. Queued'
  BY <1>2, <1>5 DEF SInv, Queued, OpOf, WellFormed
<1>7. Locked'
  BY DEF SInv, Locked
<1>8. \A p \in Procs : pending[p] # <<>> => Current(p)' = Current(p)
  <2> SUFFICES ASSUME NEW p \in Procs, pending[p] # <<>> PROVE Current(p)' = Current(p)
    OBVIOUS
  <2>1. 1 \in DOMAIN pending[p] /\ Head(pending[p]) = pending[p][1]
    BY <1>4
  <2> QED BY <1>5, <2>1 DEF Current, OpOf
<1>9. Planned'
  BY <1>8 DEF SInv, Locked, Planned, Fits
<1>10. Undisturbed
  BY <1>8 DEF SInv, Locked, Undisturbed
<1> QED BY <1>2, <1>3, <1>6, <1>7, <1>9, <1>10 DEF SInv, Remembered

LEMMA TakeLockKeeps ==
  ASSUME SInv, NEW p \in Procs, TakeLock(p)
  PROVE  SInv'
<1>1. /\ work \in [Procs -> Work] /\ pending \in [Procs -> Seq(Requests)] /\ store \in Shown
  BY DEF SInv, ServiceTypeOK
<1>2. /\ pending[p] # <<>> /\ lock = None /\ lock' = p /\ base' = store
      /\ UNCHANGED <<store, history, clock, pending, call, faults>>
  BY DEF TakeLock
<1>3. PICK w \in Plans(Current(p)) : work' = [work EXCEPT ![p] = w]
  BY DEF TakeLock, Current, OpOf
<1>4. WellFormed(Current(p))
  <2>1. 1 \in DOMAIN pending[p] /\ Head(pending[p]) = pending[p][1]
    BY <1>1, <1>2
  <2> QED BY <2>1 DEF SInv, Queued, Current
<1>5. w \in Work /\ w.on /\ Fits(w.todo, Current(p))
  BY <1>3, <1>4, PlansFit DEF SInv
<1>6. work' \in [Procs -> Work] /\ work'[p] = w /\ \A q \in Procs \ {p} : work'[q] = work[q]
  BY <1>1, <1>3, <1>5
<1>7. \A q \in Procs : ~work[q].on /\ work[q].todo = <<>>
  BY <1>2, ServiceConstantsOK DEF SInv, Locked
<1>8. ServiceTypeOK'
  BY <1>1, <1>2, <1>6 DEF SInv, ServiceTypeOK
<1>9. Queued'
  BY <1>2 DEF SInv, Queued, OpOf, WellFormed
<1>10. Locked'
  BY <1>2, <1>5, <1>6, <1>7 DEF Locked
<1>11. Planned'
  <2>1. Fits(w.todo, Current(p))'
    BY <1>2, <1>3, <1>5 DEF Fits, Current, OpOf
  <2> SUFFICES ASSUME NEW q \in Procs, work'[q].on PROVE Fits(work[q].todo, Current(q))'
    BY DEF Planned
  <2>2. q = p /\ work'[q] = w
    BY <1>6, <1>7
  <2> QED BY <2>1, <2>2 DEF Fits, Current, OpOf
<1> QED BY <1>8, <1>9, <1>10, <1>11 DEF SInv

\* A statement of the operation at the head of a queue, whose worker alone holds the lock.
LEMMA ExecuteKeeps ==
  ASSUME SInv, NEW p \in Procs, Execute(p)
  PROVE  /\ SInv'
         /\ lock = p /\ pending[p] # <<>>
         /\ Current(p).seen # NothingShown =>
              \A m \in Memories : store'[m] # store[m] => store[m] = Current(p).seen[m]
<1> DEFINE todo == work[p].todo
           s == Head(todo)
           o == Current(p)
<1>1. /\ work \in [Procs -> Work] /\ pending \in [Procs -> Seq(Requests)] /\ store \in Shown /\ clock \in Nat
      /\ history \in [Memories -> {"none", "ownerless", "owned"}]
  BY DEF SInv, ServiceTypeOK
<1>2. todo # <<>> /\ todo \in Seq(Statement) /\ work[p] \in Work
  BY <1>1 DEF Execute, Work
<1>3. work[p].on /\ lock = p /\ pending[p] # <<>> /\ Fits(todo, o)
  BY <1>2 DEF SInv, Locked, Planned
<1>4. WellFormed(o)
  <2>1. 1 \in DOMAIN pending[p] /\ Head(pending[p]) = pending[p][1]
    BY <1>1, <1>3
  <2> QED BY <2>1 DEF SInv, Queued, Current
<1>5. /\ 1 \in DOMAIN todo /\ s = todo[1] /\ s \in Statement /\ s.id \in Mine /\ s.id \in Memories
      /\ s.do \in {"erase", "write", "insert", "log"}
  <2>1. 1 \in DOMAIN todo /\ s = todo[1] /\ s \in Statement
    BY <1>2
  <2> HIDE DEF s
  <2> QED BY <2>1 DEF Statement, Mine
<1>6. /\ Tail(todo) \in Seq(Statement)
      /\ \A k \in DOMAIN Tail(todo) : k + 1 \in DOMAIN todo /\ k + 1 # 1 /\ Tail(todo)[k] = todo[k + 1] /\ k \in Nat
  BY <1>2
<1>7. /\ work' = [work EXCEPT ![p].todo = Tail(todo)]
      /\ UNCHANGED <<lock, pending, call, faults, base>>
  BY DEF Execute
<1>8. /\ work' \in [Procs -> Work] /\ work'[p].todo = Tail(todo) /\ work'[p].on = work[p].on
      /\ \A q \in Procs \ {p} : work'[q] = work[q]
  BY <1>1, <1>2, <1>6, <1>7 DEF Work
<1>9. /\ s.do = "erase" => store' = [store EXCEPT ![s.id] = None]
      /\ s.do \in {"write", "insert"} => store' = [store EXCEPT ![s.id] = [text |-> o.text, at |-> clock]]
      /\ s.do = "log" => UNCHANGED store
  BY DEF Execute, Current, OpOf
<1>10. \A m \in Memories : m # s.id => store'[m] = store[m]
  BY <1>1, <1>5, <1>9 DEF Shown
<1>11. s.do \in {"write", "insert"} => [text |-> o.text, at |-> clock] \in Record
  BY <1>1, <1>3, <1>5 DEF Fits, Record
<1>12. store' \in Shown
  BY <1>1, <1>5, <1>9, <1>11 DEF Shown
<1>13. history' \in [Memories -> {"none", "ownerless", "owned"}] /\ clock' \in Nat
  BY <1>1, <1>5 DEF Execute, Bound
<1>14. ServiceTypeOK'
  BY <1>7, <1>8, <1>12, <1>13 DEF SInv, ServiceTypeOK
<1>15. Queued'
  BY <1>7 DEF SInv, Queued, OpOf, WellFormed
<1>16. Locked'
  BY <1>3, <1>7, <1>8 DEF SInv, Locked
<1>17. Planned'
  <2>1. \A q \in Procs : work'[q].on => q = p
    BY <1>3, <1>7, <1>16 DEF Locked
  <2>2. Current(p)' = o
    BY <1>7 DEF Current, OpOf
  <2> HIDE DEF o, todo, s
  <2>3. ASSUME NEW k \in DOMAIN Tail(todo)
        PROVE  /\ Tail(todo)[k].do \notin {"write", "insert"}
               /\ o.seen # NothingShown /\ Tail(todo)[k].do = "erase" =>
                    store'[Tail(todo)[k].id] \in {o.seen[Tail(todo)[k].id], None}
    <3>1. k + 1 \in DOMAIN todo /\ k + 1 # 1 /\ Tail(todo)[k] = todo[k + 1]
      BY <1>6
    <3>2. Tail(todo)[k].do \notin {"write", "insert"}
      BY <1>3, <3>1 DEF Fits
    <3>3. ASSUME o.seen # NothingShown, Tail(todo)[k].do = "erase"
          PROVE  store'[Tail(todo)[k].id] \in {o.seen[Tail(todo)[k].id], None}
      <4>1. s.do \in {"erase", "log"}
        BY <1>3, <1>5, <3>1, <3>3 DEF Fits
      <4>2. todo[k + 1].id \in Memories
        <5>1. todo[k + 1] \in Statement
          BY <1>2, <3>1
        <5> QED BY <5>1 DEF Statement, Mine
      <4>3. store[todo[k + 1].id] \in {o.seen[todo[k + 1].id], None}
        BY <1>3, <3>1, <3>3 DEF Fits
      <4>4. store'[todo[k + 1].id] = store[todo[k + 1].id] \/ store'[todo[k + 1].id] = None
        BY <1>1, <1>5, <1>9, <4>1, <4>2 DEF Shown
      <4> QED BY <3>1, <4>3, <4>4
    <3> QED BY <3>2, <3>3
  <2>4. Fits(work[p].todo, Current(p))'
    BY <1>8, <2>2, <2>3 DEF Fits
  <2> QED BY <2>1, <2>4 DEF Planned
<1>18. ASSUME o.seen # NothingShown, NEW m \in Memories, store'[m] # store[m]
       PROVE  store[m] = o.seen[m]
  <2>1. m = s.id /\ s.do # "log"
    BY <1>9, <1>10, <1>18
  <2>2. s.do = "erase" => store'[m] = None
    BY <1>1, <1>9, <2>1, <1>5 DEF Shown
  <2>3. /\ s.do # "insert"
        /\ s.do = "erase" => store[m] \in {o.seen[m], None}
        /\ s.do = "write" => store[m] = o.seen[m]
    BY <1>3, <1>5, <1>18, <2>1 DEF Fits
  <2> QED BY <1>5, <1>18, <2>1, <2>2, <2>3
<1> QED BY <1>3, <1>14, <1>15, <1>16, <1>17, <1>18 DEF SInv

\* An operation leaves the queue of its process.
LEMMA ReturnKeeps ==
  ASSUME SInv, NEW p \in Procs, pending[p] # <<>>, NEW result \in Results, Return(p, result),
         faults' \in 0 .. MaxFaults
  PROVE  SInv' /\ Remembered /\ Undisturbed
<1> DEFINE r == Head(pending[p])
           c == [op |-> None, result |-> IF Waits(r) THEN result ELSE "unheard"]
<1>1. /\ work \in [Procs -> Work] /\ pending \in [Procs -> Seq(Requests)]
      /\ call \in [Requests -> CallRecord \cup {None}] /\ store \in Shown /\ base \in Shown
  BY DEF SInv, ServiceTypeOK
<1>2. /\ 1 \in DOMAIN pending[p] /\ r = pending[p][1] /\ r \in Requests
      /\ Tail(pending[p]) \in Seq(Requests) /\ Len(Tail(pending[p])) <= Len(pending[p])
      /\ \A k \in DOMAIN Tail(pending[p]) :
           k + 1 \in DOMAIN pending[p] /\ k + 1 # 1 /\ Tail(pending[p])[k] = pending[p][k + 1] /\ k \in Nat
  BY <1>1
<1>3. c \in CallRecord /\ c # None
  BY NoneIsNothing DEF CallRecord, Results
<1>4. /\ pending' = [pending EXCEPT ![p] = Tail(pending[p])] /\ work' = [work EXCEPT ![p] = Idle]
      /\ call' = [call EXCEPT ![r] = c] /\ lock' = (IF lock = p THEN None ELSE lock)
      /\ base' = (IF lock = p THEN NothingShown ELSE base)
      /\ UNCHANGED <<store, history, clock>>
  BY DEF Return
<1> HIDE DEF c, r
<1>5. NothingShown \in Shown /\ Idle \in Work /\ ~Idle.on /\ Idle.todo = <<>>
  BY DEF NothingShown, Shown, Idle, Work, Results
<1>6. /\ call' \in [Requests -> CallRecord \cup {None}] /\ call'[r] = c
      /\ \A x \in Requests \ {r} : call'[x] = call[x]
  BY <1>1, <1>2, <1>3, <1>4
<1>7. /\ pending' \in [Procs -> Seq(Requests)] /\ pending'[p] = Tail(pending[p])
      /\ \A q \in Procs \ {p} : pending'[q] = pending[q]
      /\ work' \in [Procs -> Work] /\ work'[p] = Idle /\ \A q \in Procs \ {p} : work'[q] = work[q]
  BY <1>1, <1>2, <1>4, <1>5
<1>8. \A q \in Procs : Len(pending'[q]) <= MaxPending
  <2>1. MaxPending \in Nat /\ \A q \in Procs : Len(pending[q]) <= MaxPending
    BY ServiceConstantsOK DEF SInv, ServiceTypeOK
  <2>2. Len(Tail(pending[p])) \in Nat /\ Len(pending[p]) \in Nat
    BY <1>1, <1>2
  <2>3. Len(Tail(pending[p])) <= MaxPending
    BY <1>2, <2>1, <2>2
  <2> QED BY <1>7, <2>1, <2>3
<1>9. ServiceTypeOK'
  BY <1>1, <1>4, <1>5, <1>6, <1>7, <1>8 DEF SInv, ServiceTypeOK
<1>10. /\ \A q \in Procs : \A k \in DOMAIN pending'[q] :
            \E j \in DOMAIN pending[q] :
              /\ pending'[q][k] = pending[q][j] /\ (q = p => j = k + 1 /\ k \in Nat) /\ (q # p => j = k)
              /\ pending[q][j] # r
  <2> SUFFICES ASSUME NEW q \in Procs, NEW k \in DOMAIN pending'[q]
               PROVE  \E j \in DOMAIN pending[q] :
                        /\ pending'[q][k] = pending[q][j]
                        /\ (q = p => j = k + 1 /\ k \in Nat) /\ (q # p => j = k) /\ pending[q][j] # r
    OBVIOUS
  <2>1. CASE q = p
    <3>1. k + 1 \in DOMAIN pending[p] /\ k + 1 # 1 /\ pending'[p][k] = pending[p][k + 1] /\ k \in Nat
      BY <1>2, <1>7, <2>1
    <3>2. pending[p][k + 1] # r
      BY <1>2, <3>1 DEF SInv, Queued
    <3> QED BY <2>1, <3>1, <3>2
  <2>2. CASE q # p
    <3>1. k \in DOMAIN pending[q] /\ pending'[q][k] = pending[q][k]
      BY <1>7, <2>2
    <3>2. pending[q][k] # r
      BY <1>2, <2>2, <3>1 DEF SInv, Queued
    <3> QED BY <2>2, <3>1, <3>2
  <2> QED BY <2>1, <2>2
<1>11. Queued'
  <2>1. ASSUME NEW q \in Procs, NEW k \in DOMAIN pending'[q]
        PROVE  call'[pending'[q][k]] # None /\ WellFormed(call'[pending'[q][k]].op)
    <3>1. PICK j \in DOMAIN pending[q] : pending'[q][k] = pending[q][j] /\ pending[q][j] # r
      BY <1>10
    <3>2. pending[q][j] \in Requests
      BY <1>1
    <3> QED BY <1>6, <3>1, <3>2 DEF SInv, Queued, OpOf
  <2>2. ASSUME NEW q \in Procs, NEW x \in Procs, NEW j \in DOMAIN pending'[q], NEW k \in DOMAIN pending'[x],
               pending'[q][j] = pending'[x][k]
        PROVE  q = x /\ j = k
    <3>1. PICK j2 \in DOMAIN pending[q] :
            pending'[q][j] = pending[q][j2] /\ (q = p => j2 = j + 1 /\ j \in Nat) /\ (q # p => j2 = j)
      BY <1>10
    <3>2. PICK k2 \in DOMAIN pending[x] :
            pending'[x][k] = pending[x][k2] /\ (x = p => k2 = k + 1 /\ k \in Nat) /\ (x # p => k2 = k)
      BY <1>10
    <3>3. pending[q][j2] = pending[x][k2]
      BY <2>2, <3>1, <3>2
    <3>4. q = x /\ j2 = k2
      BY <3>3 DEF SInv, Queued
    <3> QED BY <3>1, <3>2, <3>4
  <2> QED BY <2>1, <2>2 DEF Queued, OpOf, WellFormed
<1>12. \A q \in Procs : work'[q].on => q # p /\ work[q].on /\ work'[q] = work[q] /\ lock = q /\ pending[q] # <<>>
  BY <1>5, <1>7 DEF SInv, Locked
<1>13. Locked'
  BY <1>4, <1>5, <1>7, <1>12 DEF SInv, Locked
<1>14. ASSUME NEW q \in Procs, work'[q].on PROVE Current(q)' = Current(q)
  <2>1. q # p /\ pending'[q] = pending[q] /\ pending[q] # <<>>
    BY <1>7, <1>12, <1>14
  <2>2. 1 \in DOMAIN pending[q] /\ Head(pending[q]) = pending[q][1] /\ pending[q][1] \in Requests
    BY <1>1, <2>1
  <2>3. pending[q][1] # r
    BY <1>2, <2>1, <2>2 DEF SInv, Queued
  <2> QED BY <1>6, <2>1, <2>2, <2>3 DEF Current, OpOf
<1>15. Undisturbed
  BY <1>4, <1>12, <1>14 DEF Undisturbed
<1>16. Planned'
  BY <1>15, UndisturbedPlans DEF SInv
<1> QED BY <1>3, <1>6, <1>9, <1>11, <1>13, <1>15, <1>16 DEF SInv, Remembered

LEMMA CrashKeeps ==
  ASSUME SInv, NEW p \in Procs, Crash(p)
  PROVE  SInv' /\ Remembered /\ Undisturbed
<1>1. /\ work \in [Procs -> Work] /\ pending \in [Procs -> Seq(Requests)] /\ MaxPending \in Nat
      /\ call \in [Requests -> CallRecord \cup {None}] /\ store \in Shown /\ base \in Shown
      /\ faults \in 0 .. MaxFaults /\ MaxFaults \in Nat
  BY ServiceConstantsOK DEF SInv, ServiceTypeOK
<1>2. /\ pending' = [pending EXCEPT ![p] = <<>>] /\ work' = [work EXCEPT ![p] = Idle]
      /\ lock' = (IF lock = p THEN None ELSE lock) /\ base' = (IF lock = p THEN NothingShown ELSE base)
      /\ UNCHANGED <<store, history, clock>> /\ faults' \in 0 .. MaxFaults
  BY <1>1 DEF Crash
<1>3. NothingShown \in Shown /\ Idle \in Work /\ ~Idle.on /\ Idle.todo = <<>>
  BY DEF NothingShown, Shown, Idle, Work, Results
<1>4. /\ call' \in [Requests -> CallRecord \cup {None}]
      /\ \A r \in Requests : call[r] # None => call'[r] # None
      /\ \A r \in Requests : r \notin Range(pending[p]) => call'[r] = call[r]
  <2> DEFINE c(r) == [op |-> None, result |-> IF Waits(r) THEN "lost" ELSE "unheard"]
  <2>1. \A r \in Requests : c(r) \in CallRecord /\ c(r) # None
    BY NoneIsNothing DEF CallRecord, Results
  <2>2. call' = [r \in Requests |-> IF r \in Range(pending[p]) THEN c(r) ELSE call[r]]
    BY DEF Crash
  <2> HIDE DEF c
  <2> QED BY <1>1, <2>1, <2>2
<1>5. /\ pending' \in [Procs -> Seq(Requests)] /\ pending'[p] = <<>> /\ \A q \in Procs \ {p} : pending'[q] = pending[q]
      /\ work' \in [Procs -> Work] /\ work'[p] = Idle /\ \A q \in Procs \ {p} : work'[q] = work[q]
  BY <1>1, <1>2, <1>3
<1>6. ServiceTypeOK'
  <2>1. \A q \in Procs : Len(pending'[q]) <= MaxPending
    <3>1. Len(<<>>) <= MaxPending
      BY <1>1
    <3> QED BY <1>5, <3>1 DEF SInv, ServiceTypeOK
  <2> QED BY <1>1, <1>2, <1>3, <1>4, <1>5, <2>1 DEF SInv, ServiceTypeOK
<1>7. \A q \in Procs \ {p} : \A k \in DOMAIN pending[q] :
        pending[q][k] \in Requests /\ call'[pending[q][k]] = call[pending[q][k]]
  <2> SUFFICES ASSUME NEW q \in Procs \ {p}, NEW k \in DOMAIN pending[q]
               PROVE  pending[q][k] \in Requests /\ pending[q][k] \notin Range(pending[p])
    BY <1>4
  <2>1. \A j \in DOMAIN pending[p] : pending[p][j] # pending[q][k]
    BY DEF SInv, Queued
  <2> QED BY <1>1, <2>1 DEF Range
<1>8. Queued'
  <2>1. \A q \in Procs : \A k \in DOMAIN pending'[q] : q # p /\ k \in DOMAIN pending[q] /\ pending'[q] = pending[q]
    BY <1>5
  <2>2. ASSUME NEW q \in Procs, NEW k \in DOMAIN pending'[q]
        PROVE  call'[pending'[q][k]] # None /\ WellFormed(call'[pending'[q][k]].op)
    BY <1>7, <2>1 DEF SInv, Queued, OpOf
  <2>3. ASSUME NEW q \in Procs, NEW x \in Procs, NEW j \in DOMAIN pending'[q], NEW k \in DOMAIN pending'[x],
               pending'[q][j] = pending'[x][k]
        PROVE  q = x /\ j = k
    BY <2>1, <2>3 DEF SInv, Queued
  <2> QED BY <2>2, <2>3 DEF Queued, OpOf, WellFormed
<1>9. \A q \in Procs : work'[q].on => q # p /\ work[q].on /\ work'[q] = work[q] /\ lock = q /\ pending[q] # <<>>
  BY <1>3, <1>5 DEF SInv, Locked
<1>10. Locked'
  BY <1>2, <1>3, <1>5, <1>9 DEF SInv, Locked
<1>11. ASSUME NEW q \in Procs, work'[q].on PROVE Current(q)' = Current(q)
  <2>1. q # p /\ pending'[q] = pending[q] /\ pending[q] # <<>>
    BY <1>5, <1>9, <1>11
  <2>2. 1 \in DOMAIN pending[q] /\ Head(pending[q]) = pending[q][1]
    BY <1>1, <2>1
  <2> QED BY <1>7, <2>1, <2>2 DEF Current, OpOf
<1>12. Undisturbed
  BY <1>2, <1>9, <1>11 DEF Undisturbed
<1>13. Planned'
  BY <1>12, UndisturbedPlans DEF SInv
<1> QED BY <1>4, <1>6, <1>8, <1>10, <1>12, <1>13 DEF SInv, Remembered

\* What a worker, a fault or a crash does.
ServiceStep == \E p \in Procs : Worker(p) \/ Fault(p) \/ Crash(p)

LEMMA WorkerKeeps ==
  ASSUME SInv, ServiceStep
  PROVE  SInv' /\ Remembered
<1>1. PICK p \in Procs : Worker(p) \/ Fault(p) \/ Crash(p)
  BY DEF ServiceStep
<1>2. CASE TakeLock(p)
  BY <1>2, TakeLockKeeps DEF TakeLock, Remembered
<1>3. CASE Execute(p)
  BY <1>3, ExecuteKeeps DEF Execute, Remembered
<1>4. CASE Finish(p)
  <2>1. pending[p] # <<>> /\ work[p].result \in Results /\ faults' \in 0 .. MaxFaults
    BY <1>4 DEF Finish, SInv, Locked, ServiceTypeOK, Work
  <2> QED BY <1>4, <2>1, ReturnKeeps DEF Finish
<1>5. CASE Fault(p)
  <2>1. pending[p] # <<>> /\ "failed" \in Results /\ faults' \in 0 .. MaxFaults
    BY <1>5, ServiceConstantsOK DEF Fault, SInv, ServiceTypeOK, Results
  <2> QED BY <1>5, <2>1, ReturnKeeps DEF Fault
<1>6. CASE Crash(p)
  BY <1>6, CrashKeeps
<1> QED BY <1>1, <1>2, <1>3, <1>4, <1>5, <1>6 DEF Worker

LEMMA ServiceSame ==
  ASSUME SInv, UNCHANGED service
  PROVE  SInv' /\ Remembered
<1>1. ServiceTypeOK'
  BY DEF SInv, service, ServiceTypeOK
<1>2. Queued'
  BY DEF SInv, service, Queued, OpOf, WellFormed
<1>3. Locked'
  BY DEF SInv, service, Locked
<1>4. Planned'
  <2> SUFFICES ASSUME NEW p \in Procs, work'[p].on PROVE Fits(work[p].todo, Current(p))'
    BY DEF Planned
  <2>1. PICK o : o = Current(p)
    OBVIOUS
  <2>2. Current(p)' = o
    BY <2>1 DEF service, Current, OpOf
  <2>3. Fits(work[p].todo, o)
    BY <2>1 DEF service, SInv, Planned
  <2> QED BY <2>2, <2>3 DEF service, Fits
<1> QED BY <1>1, <1>2, <1>3, <1>4 DEF SInv, service, Remembered

-----------------------------------------------------------------------------
(* What the callers ask for. *)

LEMMA RoutesWellFormed == \A o \in Routes : WellFormed(o)
<1>1. NothingShown \in Shown
  BY DEF NothingShown, Shown
<1> SUFFICES ASSUME NEW o \in Routes PROVE WellFormed(o)
  OBVIOUS
<1>2. ASSUME NEW m \in Memories PROVE <<m>> \in Seq(Memories) /\ <<m>> # <<>>
  OBVIOUS
<1>3. CASE \E x \in Texts : o = Op("remember", <<>>, x, NothingShown)
  BY <1>1, <1>3 DEF Op, WellFormed, Operation, Kinds, Changes, Confirmations
<1>4. CASE \E m \in Memories, x \in Texts : o = Op("update", <<m>>, x, NothingShown)
  BY <1>1, <1>2, <1>4 DEF Op, WellFormed, Operation, Kinds, Changes, Confirmations
<1>5. CASE \E m \in Memories : o = Op("delete", <<m>>, None, NothingShown)
  BY <1>1, <1>2, <1>5 DEF Op, WellFormed, Operation, Kinds, Changes, Confirmations
<1>6. CASE o = Op("delete_all", <<>>, None, NothingShown)
  BY <1>1, <1>6 DEF Op, WellFormed, Operation, Kinds, Changes, Confirmations
<1> QED BY <1>3, <1>4, <1>5, <1>6 DEF Routes

LEMMA CopyIsShown ==
  ASSUME NEW ts \in Seq(Target)
  PROVE  Copy(ts) \in Shown
<1>1. ASSUME NEW m \in Memories PROVE Copy(ts)[m] \in Record \cup {None}
  <2>1. CASE \E i \in DOMAIN ts : ts[i].id = m
    <3> DEFINE j == CHOOSE i \in DOMAIN ts : ts[i].id = m
    <3>1. j \in DOMAIN ts
      BY <2>1
    <3>2. Copy(ts)[m] = ts[j].was
      BY <2>1 DEF Copy
    <3>3. ts[j] \in Target
      BY <3>1
    <3> QED BY <3>2, <3>3 DEF Target
  <2>2. CASE ~ \E i \in DOMAIN ts : ts[i].id = m
    BY <2>2 DEF Copy
  <2> QED BY <2>1, <2>2
<1> QED BY <1>1 DEF Copy, Shown

LEMMA MutationWellFormed ==
  ASSUME DInv, Confirmable
  PROVE  WellFormed(Mutation(dlg.pending))
<1> DEFINE q == dlg.pending
<1>1. /\ q \in PendingCommand /\ q.stage = "confirm" /\ q.choices \in Seq(Target) /\ q.snapshot \in Shown
      /\ q.action \in {"update", "delete", "delete_many", "delete_all"}
      /\ q.action = "update" => q.text \in Texts
      /\ q.action # "delete_all" => q.choices # <<>>
  BY DEF Confirmable, Pending, DInv, DialogueTypeOK, Speaks, PendingCommand, Actions
<1> HIDE DEF q
<1>2. Copy(q.choices) \in Shown
  BY <1>1, CopyIsShown
<1>3. q.choices # <<>> => q.choices[1].id \in Memories /\ <<q.choices[1].id>> \in Seq(Memories)
  <2> SUFFICES ASSUME q.choices # <<>> PROVE q.choices[1].id \in Memories
    OBVIOUS
  <2>1. q.choices[1] \in Target
    BY <1>1
  <2> QED BY <2>1 DEF Target, Mine
<1>4. CASE q.action = "delete_all"
  <2>1. Mutation(q) = Op("confirm_delete_all", <<>>, None, q.snapshot)
    BY <1>4, Zenon DEF Mutation
  <2> QED BY <1>1, <2>1 DEF q, Op, WellFormed, Operation, Kinds, Changes, Confirmations
<1>5. CASE q.action = "delete_many"
  <2> DEFINE ids == [i \in DOMAIN q.choices |-> q.choices[i].id]
  <2>1. q.action # "delete_all"
    BY <1>5
  <2>2. Mutation(q) = Op("confirm_delete_many", ids, None, Copy(q.choices))
    BY <1>5, <2>1, Zenon DEF Mutation
  <2>3. \A i \in DOMAIN q.choices : q.choices[i].id \in Memories
    <3>1. \A i \in DOMAIN q.choices : q.choices[i] \in Target
      BY <1>1
    <3> QED BY <3>1 DEF Target, Mine
  <2>4. ids \in Seq(Memories) /\ ids # <<>>
    <3>1. DOMAIN q.choices = 1 .. Len(q.choices) /\ Len(q.choices) \in Nat /\ Len(q.choices) # 0
      BY <1>1, <2>1
    <3>2. ids \in [1 .. Len(q.choices) -> Memories]
      BY <2>3, <3>1
    <3>3. ids \in Seq(Memories)
      BY <3>1, <3>2
    <3>4. Len(ids) = Len(q.choices)
      BY <3>1, <3>2
    <3> QED BY <3>1, <3>3, <3>4
  <2> HIDE DEF ids
  <2> QED BY <1>2, <2>2, <2>4 DEF q, Op, WellFormed, Operation, Kinds, Changes, Confirmations
<1>6. CASE q.action = "delete"
  <2>1. q.action \notin {"delete_all", "delete_many"}
    BY <1>6
  <2>2. Mutation(q) = Op("confirm_delete", <<q.choices[1].id>>, None, Copy(q.choices))
    BY <1>6, <2>1, Zenon DEF Mutation
  <2> QED BY <1>1, <1>2, <1>3, <2>1, <2>2 DEF q, Op, WellFormed, Operation, Kinds, Changes, Confirmations
<1>7. CASE q.action = "update"
  <2>1. q.action # "delete_all" /\ q.action # "delete_many" /\ q.action # "delete"
    BY <1>7
  <2>2. Mutation(q) = Op("confirm_update", <<q.choices[1].id>>, q.text, Copy(q.choices))
    BY <2>1, Zenon DEF Mutation
  <2> QED BY <1>1, <1>2, <1>3, <1>7, <2>1, <2>2 DEF q, Op, WellFormed, Operation, Kinds, Changes, Confirmations
<1> QED BY <1>1, <1>4, <1>5, <1>6, <1>7

-----------------------------------------------------------------------------
(* Turns of the dialogue. *)

LEMMA DialogueRecord ==
  ASSUME DInv
  PROVE  /\ dlg = [pending |-> dlg.pending, choices |-> dlg.choices, last |-> dlg.last]
         /\ dlg.pending \in PendingCommand \cup {None} /\ dlg.choices \in Seq(Mine) /\ dlg.last \in Mine \cup {None}
  BY DEF DInv, DialogueTypeOK

\* The pending command is dropped; choices and last target are the user's memories.
LEMMA Dropped ==
  ASSUME DInv, NEW choices \in Seq(Mine), NEW last \in Mine \cup {None},
         dlg' = [pending |-> None, choices |-> choices, last |-> last],
         UNCHANGED turn \/ turn' = NoTurn, turn.pc = "apply" => turn' = NoTurn,
         said' \in 0 .. MaxCommands, Remembered
  PROVE  DInv'
<1>1. NoTurn.pc = "idle" /\ NoTurn \in [pc : {"idle", "gather", "apply"}, proc : Procs \cup {None},
                                        request : Requests \cup {None}, ids : Seq(Mine), got : Seq(Target)]
  BY DEF NoTurn
<1>2. dlg'.pending = None
  OBVIOUS
<1>3. DialogueTypeOK'
  BY <1>1 DEF DInv, DialogueTypeOK
<1>4. Speaks'
  BY <1>1, <1>2 DEF DInv, Speaks
<1> QED BY <1>3, <1>4 DEF DInv

\* A command is pending from now on.
LEMMA Previewed ==
  ASSUME DInv, NEW q \in PendingCommand, NEW choices \in Seq(Mine), NEW last \in Mine \cup {None},
         dlg' = [pending |-> q, choices |-> choices, last |-> last],
         q.action = "update" => q.text \in Texts,
         q.action = "history" => q.stage = "select",
         q.action # "delete_all" => q.choices # <<>>,
         (turn.pc = "idle" /\ UNCHANGED turn) \/ turn' = NoTurn, said' \in 0 .. MaxCommands
  PROVE  DInv'
<1>1. NoTurn.pc = "idle" /\ NoTurn \in [pc : {"idle", "gather", "apply"}, proc : Procs \cup {None},
                                        request : Requests \cup {None}, ids : Seq(Mine), got : Seq(Target)]
  BY DEF NoTurn
<1>2. dlg'.pending = q
  OBVIOUS
<1>3. DialogueTypeOK'
  BY <1>1 DEF DInv, DialogueTypeOK
<1>4. Speaks'
  BY <1>1, <1>2 DEF DInv, Speaks
<1> QED BY <1>3, <1>4 DEF DInv

\* Found memories, and the targets made of them.
LEMMA FoundIsMine ==
  ASSUME ServiceTypeOK, NEW ms \in Found
  PROVE  ms \in Seq(Mine) /\ \A i \in DOMAIN ms : ms[i] \in Live
<1>1. PICK n \in 0 .. MaxChoices : ms \in [1 .. n -> Live]
  BY DEF Found, SeqOf
<1>2. n \in Nat
  BY <1>1 DEF MaxChoices
<1>3. ms \in [1 .. n -> Mine]
  BY <1>1, LiveRows
<1> QED BY <1>1, <1>2, <1>3

LEMMA ATarget ==
  ASSUME ServiceTypeOK, NEW m \in Live
  PROVE  TargetOf(m) \in Target /\ m \in Mine /\ TargetOf(m).id = m
  BY LiveRows DEF Live, TargetOf, Target, ServiceTypeOK, Shown, Mine

LEMMA TargetsAreTargets ==
  ASSUME ServiceTypeOK, NEW ms \in Seq(Mine), \A i \in DOMAIN ms : ms[i] \in Live
  PROVE  Targets(ms) \in Seq(Target) /\ Len(Targets(ms)) = Len(ms)
<1>1. Targets(ms) \in [1 .. Len(ms) -> Target] /\ Len(ms) \in Nat
  BY ATarget DEF Targets
<1> QED BY <1>1

\* A command for one memory, or for those among which the user is to choose.
LEMMA OneKeeps ==
  ASSUME SInv, DInv, NEW action \in Actions, NEW text \in Texts \cup {None}, action = "update" => text \in Texts,
         NEW ms \in Seq(Mine), \A i \in DOMAIN ms : ms[i] \in Live, Command, One(action, text, ms)
  PROVE  DInv'
<1> DEFINE ts == Targets(ms)
           q == [action |-> action, stage |-> IF Len(ts) > 1 THEN "select" ELSE "confirm", choices |-> ts, text |-> text,
                 snapshot |-> NothingShown]
           last == IF Len(ts) = 1 THEN ts[1].id ELSE dlg.last
<1>1. ts \in Seq(Target) /\ Len(ts) = Len(ms) /\ Len(ts) \in Nat /\ Len(ts) # 0
  BY TargetsAreTargets DEF SInv, One
<1>2. [Preview(action, ts, text, NothingShown) EXCEPT !.stage = IF Len(ts) > 1 THEN "select" ELSE @] = q
  BY DEF Preview
<1>3. q \in PendingCommand
  BY <1>1 DEF PendingCommand, NothingShown, Shown
<1>4. last \in Mine \cup {None}
  <2>1. CASE Len(ts) = 1
    <3> HIDE DEF ts, q
    <3>1. 1 \in DOMAIN ts
      BY <1>1, <2>1
    <3>2. ts[1] \in Target
      BY <1>1, <3>1
    <3> QED BY <2>1, <3>2 DEF Target
  <2>2. CASE Len(ts) # 1
    BY <2>2, DialogueRecord
  <2> QED BY <2>1, <2>2
<1>5. dlg' = [pending |-> q, choices |-> ms, last |-> last]
  <2>1. dlg' = [dlg EXCEPT !.pending = [Preview(action, ts, text, NothingShown) EXCEPT
                                          !.stage = IF Len(ts) > 1 THEN "select" ELSE @],
                           !.choices = ms, !.last = IF Len(ts) = 1 THEN ts[1].id ELSE @]
    BY DEF One, Answer
  <2>2. dlg' = [dlg EXCEPT !.pending = q, !.choices = ms, !.last = IF Len(ts) = 1 THEN ts[1].id ELSE @]
    BY <1>2, <2>1
  <2> HIDE DEF q, ts
  <2> QED BY <2>2, DialogueRecord
<1>6. q.action = "history" => q.stage = "select"
  <2> SUFFICES ASSUME action = "history" PROVE Len(ts) > 1
    OBVIOUS
  <2> QED BY <1>1 DEF One
<1>7. q.choices # <<>> /\ (q.action = "update" => q.text \in Texts)
  BY <1>1
<1>8. turn.pc = "idle" /\ UNCHANGED turn /\ said' \in 0 .. MaxCommands
  BY DialogueConstantsOK DEF One, Answer, Command, DInv, DialogueTypeOK
<1> HIDE DEF q, last
<1> QED BY <1>3, <1>4, <1>5, <1>6, <1>7, <1>8, Previewed

LEMMA CommandKeeps ==
  ASSUME SInv, DInv, NewCommand
  PROVE  DInv' /\ UNCHANGED service
<1>1. UNCHANGED service
  BY DEF NewCommand, List, LookAt, DeleteMany, DeleteEverything, Change, One, Answer
<1>2. Remembered
  BY <1>1 DEF service, Remembered
<1>0. Command
  BY DEF NewCommand
<1>3. turn.pc = "idle" /\ said' \in 0 .. MaxCommands
  BY <1>0, DialogueConstantsOK DEF Command, DInv, DialogueTypeOK
<1>4. ASSUME NEW ms \in Found, List(ms) PROVE DInv'
  <2>1. dlg' = [pending |-> None, choices |-> ms, last |-> dlg.last] /\ UNCHANGED turn
    BY <1>4, DialogueRecord DEF List, Answer
  <2> QED BY <1>2, <1>3, <2>1, FoundIsMine, DialogueRecord, Dropped DEF SInv
<1>5. \A how \in 0 .. MaxChoices : Meant(how) \in Mine \cup {None}
  BY DialogueRecord DEF Meant
<1>6. ASSUME NEW how \in 0 .. MaxChoices, LookAt(how) PROVE DInv'
  <2>1. dlg' = [pending |-> None, choices |-> dlg.choices, last |-> Meant(how)] /\ UNCHANGED turn
    BY <1>6, DialogueRecord DEF LookAt, Answer
  <2> QED BY <1>2, <1>3, <1>5, <2>1, DialogueRecord, Dropped
<1>7. ASSUME NEW p \in Procs, NEW is \in {<< 1 >>, <<1, 2>>, <<2, 1>>}, DeleteMany(p, is) PROVE DInv'
  <2> DEFINE ids == [i \in DOMAIN is |-> dlg.choices[is[i]]]
  <2>1. dlg.choices \in Seq(Mine) /\ \A i \in DOMAIN is : is[i] \in DOMAIN dlg.choices
    BY <1>7, DialogueRecord DEF DeleteMany, Range
  <2>2. \A i \in DOMAIN is : dlg.choices[is[i]] \in Mine
    BY <2>1
  <2>3. \E n \in {1, 2} : DOMAIN is = 1 .. n
    OBVIOUS
  <2>4. ids \in Seq(Mine) /\ ids # <<>>
    <3>1. PICK n \in {1, 2} : DOMAIN is = 1 .. n
      BY <2>3
    <3>2. ids \in [1 .. n -> Mine]
      BY <2>2, <3>1
    <3>3. ids \in Seq(Mine) /\ Len(ids) = n
      BY <3>1, <3>2
    <3> QED BY <3>1, <3>3
  <2>5. turn' = [pc |-> "gather", proc |-> p, request |-> None, ids |-> ids, got |-> <<>>] /\ UNCHANGED dlg
    BY <1>7 DEF DeleteMany, NoTurn
  <2> HIDE DEF ids
  <2>6. DialogueTypeOK'
    BY <1>3, <2>4, <2>5 DEF DInv, DialogueTypeOK
  <2>7. Speaks'
    BY <2>4, <2>5 DEF DInv, Speaks
  <2> QED BY <2>6, <2>7 DEF DInv
<1>8. CASE DeleteEverything
  <2> DEFINE q == [action |-> "delete_all", stage |-> "confirm", choices |-> <<>>, text |-> None, snapshot |-> Snapshot]
  <2>1. Snapshot \in Shown
    BY DEF Snapshot, SInv, ServiceTypeOK, Shown
  <2>2. q \in PendingCommand
    BY <2>1 DEF PendingCommand, Actions
  <2>3. dlg' = [pending |-> q, choices |-> dlg.choices, last |-> dlg.last] /\ UNCHANGED turn
    BY <1>8, DialogueRecord DEF DeleteEverything, Answer, Preview
  <2>4. q.action = "delete_all" /\ q.action # "update" /\ q.action # "history"
    OBVIOUS
  <2> HIDE DEF q
  <2> QED BY <1>1, <1>3, <2>2, <2>3, <2>4, DialogueRecord, Previewed
<1>9. ASSUME NEW action \in Actions, NEW text \in Texts \cup {None}, action = "update" => text \in Texts,
             Change(action, text)
      PROVE  DInv'
  <2>1. ASSUME NEW how \in 0 .. MaxChoices, Meant(how) \in Live, One(action, text, <<Meant(how)>>)
        PROVE  DInv'
    <3> DEFINE ms == <<Meant(how)>>
    <3>1. Meant(how) \in Mine
      BY <2>1, LiveRows DEF SInv
    <3>2. ms \in Seq(Mine) /\ \A i \in DOMAIN ms : ms[i] \in Live
      BY <2>1, <3>1
    <3> HIDE DEF ms
    <3>3. One(action, text, ms)
      BY <2>1 DEF ms
    <3> QED BY <1>0, <1>9, <3>2, <3>3, OneKeeps
  <2>2. ASSUME NEW ms \in Found, One(action, text, ms) PROVE DInv'
    BY <1>0, <1>9, <2>2, FoundIsMine, OneKeeps DEF SInv
  <2> QED BY <1>9, <2>1, <2>2 DEF Change
<1>10. {"update", "delete", "history"} \subseteq Actions /\ "delete" # "update" /\ "history" # "update"
  BY DEF Actions
<1> QED BY <1>1, <1>4, <1>6, <1>7, <1>8, <1>9, <1>10 DEF NewCommand

\* What is said to a pending command.
LEMMA AnswerStepKeeps ==
  ASSUME SInv, DInv, Forget \/ \E i \in 1 .. MaxChoices : SelectChoice(i)
  PROVE  DInv' /\ UNCHANGED service
<1>1. UNCHANGED <<turn, said, service>>
  BY DEF Forget, SelectChoice, Reply
<1>2. Remembered /\ said' \in 0 .. MaxCommands /\ turn.pc = "idle" /\ UNCHANGED turn
  BY <1>1 DEF service, Remembered, Forget, SelectChoice, Pending, DInv, DialogueTypeOK
<1>3. CASE Forget
  <2>1. dlg' = [pending |-> None, choices |-> dlg.choices, last |-> dlg.last]
    BY <1>3, DialogueRecord DEF Forget, Reply
  <2> QED BY <1>1, <1>2, <2>1, DialogueRecord, Dropped
<1>4. ASSUME NEW i \in 1 .. MaxChoices, SelectChoice(i) PROVE DInv'
  <2> DEFINE q == dlg.pending
             t == q.choices[i]
  <2>1. q \in PendingCommand /\ i \in DOMAIN q.choices /\ (q.action = "update" => q.text \in Texts)
    BY <1>4, DialogueRecord DEF SelectChoice, Pending, DInv, Speaks
  <2>2. t \in Target
    BY <2>1 DEF PendingCommand
  <2>3. t.id \in Mine
    BY <2>2 DEF Target
  <2>4. CASE q.action = "history"
    <3>1. dlg' = [dlg EXCEPT !.pending = None, !.last = t.id]
      BY <1>4, <2>4 DEF SelectChoice, Reply
    <3> HIDE DEF t
    <3>2. dlg' = [pending |-> None, choices |-> dlg.choices, last |-> t.id]
      BY <3>1, DialogueRecord
    <3> QED BY <1>1, <1>2, <2>3, <3>2, DialogueRecord, Dropped
  <2>5. CASE q.action # "history"
    <3> DEFINE n == [action |-> q.action, stage |-> "confirm", choices |-> <<t>>, text |-> q.text, snapshot |-> q.snapshot]
    <3>1. dlg' = [dlg EXCEPT !.pending.choices = <<t>>, !.pending.stage = "confirm", !.last = t.id]
      BY <1>4, <2>5 DEF SelectChoice, Reply
    <3>2. n \in PendingCommand
      BY <2>1, <2>2 DEF PendingCommand
    <3>3. [[q EXCEPT !.choices = <<t>>] EXCEPT !.stage = "confirm"] = n
      <4> HIDE DEF t, q
      <4>1. q = [action |-> q.action, stage |-> q.stage, choices |-> q.choices, text |-> q.text, snapshot |-> q.snapshot]
        BY <2>1 DEF PendingCommand
      <4>2. [q EXCEPT !.choices = <<t>>]
            = [action |-> q.action, stage |-> q.stage, choices |-> <<t>>, text |-> q.text, snapshot |-> q.snapshot]
        BY <4>1
      <4>3. [[action |-> q.action, stage |-> q.stage, choices |-> <<t>>, text |-> q.text, snapshot |-> q.snapshot]
               EXCEPT !.stage = "confirm"] = n
        OBVIOUS
      <4> HIDE DEF n
      <4> QED BY <4>2, <4>3, Zenon
    <3>4. dlg' = [pending |-> n, choices |-> dlg.choices, last |-> t.id]
      <4>1. dlg' = [dlg EXCEPT !.pending = [[q EXCEPT !.choices = <<t>>] EXCEPT !.stage = "confirm"], !.last = t.id]
        <5> HIDE DEF t
        <5> QED BY <3>1, DialogueRecord
      <4>2. dlg' = [dlg EXCEPT !.pending = n, !.last = t.id]
        BY <3>3, <4>1
      <4> HIDE DEF n, t
      <4> QED BY <4>2, DialogueRecord
    <3>5. /\ n.action = "update" => n.text \in Texts
          /\ n.action # "history" /\ n.choices # <<>>
      BY <2>1, <2>5
    <3> HIDE DEF n, t, q
    <3> QED BY <1>2, <2>3, <3>2, <3>4, <3>5, DialogueRecord, Previewed
  <2> QED BY <2>4, <2>5
<1> QED BY <1>1, <1>3, <1>4

LEMMA TailIsSeq == \A s \in Seq(Mine) : s # <<>> => Tail(s) \in Seq(Mine)
  OBVIOUS

\* The chosen memories are read again, one after the other.
LEMMA GatherKeeps ==
  ASSUME SInv, DInv, Gather
  PROVE  DInv' /\ UNCHANGED service
<1> DEFINE m == Head(turn.ids)
           got == Append(turn.got, TargetOf(m))
           q == [action |-> "delete_many", stage |-> "confirm", choices |-> got, text |-> None, snapshot |-> NothingShown]
<1>1. /\ UNCHANGED <<said, service>> /\ turn.pc = "gather" /\ said' \in 0 .. MaxCommands
      /\ turn.ids \in Seq(Mine) /\ turn.ids # <<>> /\ turn.got \in Seq(Target)
  BY DEF Gather, DInv, DialogueTypeOK, Speaks
<1>2. Remembered
  BY <1>1 DEF service, Remembered
<1>3. Owned(m) => got \in Seq(Target) /\ got # <<>>
  <2> SUFFICES ASSUME Owned(m) PROVE got \in Seq(Target) /\ got # <<>>
    OBVIOUS
  <2>1. TargetOf(m) \in Target
    BY ATarget DEF SInv, Owned, Live
  <2>2. ASSUME NEW x \in Target PROVE Append(turn.got, x) \in Seq(Target) /\ Append(turn.got, x) # <<>>
    <3> HIDE DEF got, q, m
    <3>1. Append(turn.got, x) \in Seq(Target) /\ Len(Append(turn.got, x)) = Len(turn.got) + 1 /\ Len(turn.got) \in Nat
      BY <1>1
    <3> QED BY <3>1
  <2> QED BY <2>1, <2>2
<1>4. CASE Owned(m) /\ Len(turn.ids) > 1 /\ turn' = [turn EXCEPT !.ids = Tail(@), !.got = got] /\ UNCHANGED dlg
  <2>1. Tail(turn.ids) \in Seq(Mine) /\ Tail(turn.ids) # <<>>
    <3> HIDE DEF got, q, m
    <3>1. Tail(turn.ids) \in Seq(Mine) /\ Len(turn.ids) > 1
      BY <1>1, <1>4, Zenon, TailIsSeq
    <3>2. 1 \in DOMAIN Tail(turn.ids)
      BY <1>1, <3>1
    <3> QED BY <3>1, <3>2
  <2> HIDE DEF got
  <2>2. /\ turn' = [turn EXCEPT !.ids = Tail(turn.ids), !.got = got]
    BY <1>4
  <2>3. /\ turn' \in [pc : {"idle", "gather", "apply"}, proc : Procs \cup {None}, request : Requests \cup {None},
                      ids : Seq(Mine), got : Seq(Target)]
        /\ turn'.pc = "gather" /\ turn'.ids # <<>> /\ turn'.proc = turn.proc
    BY <1>1, <1>3, <1>4, <2>1, <2>2 DEF DInv, DialogueTypeOK
  <2>4. DialogueTypeOK'
    BY <1>1, <1>4, <2>3 DEF DInv, DialogueTypeOK
  <2>5. Speaks'
    BY <1>1, <1>4, <2>3 DEF DInv, Speaks
  <2> QED BY <1>1, <2>4, <2>5 DEF DInv
<1>5. CASE Owned(m) /\ turn' = NoTurn /\ dlg' = [dlg EXCEPT !.pending = Preview("delete_many", got, None, NothingShown)]
  <2>1. NothingShown \in Shown
    BY DEF NothingShown, Shown
  <2> HIDE DEF got
  <2>2. q \in PendingCommand /\ q.action = "delete_many" /\ q.choices # <<>>
    BY <1>3, <1>5, <2>1 DEF PendingCommand, Actions
  <2>3. dlg' = [pending |-> q, choices |-> dlg.choices, last |-> dlg.last]
    BY <1>5, DialogueRecord DEF Preview
  <2>4. q.action # "update" /\ q.action # "history"
    BY <2>2
  <2> HIDE DEF q
  <2> QED BY <1>1, <1>5, <2>2, <2>3, <2>4, DialogueRecord, Previewed
<1>6. CASE turn' = NoTurn /\ dlg' = [dlg EXCEPT !.pending = None]
  <2>1. dlg' = [pending |-> None, choices |-> dlg.choices, last |-> dlg.last]
    BY <1>6, DialogueRecord
  <2> QED BY <1>1, <1>2, <1>6, <2>1, DialogueRecord, Dropped
<1> QED BY <1>1, <1>4, <1>5, <1>6 DEF Gather

\* A confirmation and what becomes of it.
LEMMA ConfirmKeeps ==
  ASSUME SInv, DInv, NEW p \in Procs, NEW r \in Requests, Confirm(p, r)
  PROVE  SInv' /\ DInv'
<1>1. Confirmable /\ Call(p, r, Mutation(dlg.pending), "waiting") /\ UNCHANGED <<dlg, said>>
  BY DEF Confirm
<1>2. WellFormed(Mutation(dlg.pending))
  BY <1>1, MutationWellFormed
<1>3. SInv' /\ Remembered /\ call'[r] # None
  <2> DEFINE o == Mutation(dlg.pending)
  <2>1. WellFormed(o) /\ Call(p, r, o, "waiting")
    BY <1>1, <1>2
  <2> HIDE DEF o
  <2> QED BY <2>1, CallKeeps
<1>4. turn' = [pc |-> "apply", proc |-> p, request |-> r, ids |-> <<>>, got |-> <<>>]
  BY DEF Confirm, NoTurn
<1>5. DialogueTypeOK'
  BY <1>1, <1>4 DEF DInv, DialogueTypeOK
<1>6. dlg.pending # None
  BY <1>1 DEF Confirmable, Pending
<1>7. Speaks'
  BY <1>1, <1>3, <1>4, <1>6 DEF DInv, Speaks
<1> QED BY <1>3, <1>5, <1>7 DEF DInv

LEMMA ApplyKeeps ==
  ASSUME SInv, DInv, Timeout \/ EndConfirm \/ Interrupt
  PROVE  SInv' /\ DInv'
<1> DEFINE r == turn.request
<1>1. turn.pc = "apply" => r \in Requests /\ call[r] # None /\ dlg.pending # None
  BY DEF DInv, Speaks
<1>2. {"timeout", "unheard"} \subseteq Results
  BY DEF Results
<1>3. said \in 0 .. MaxCommands
  BY DEF DInv, DialogueTypeOK
<1>4. SInv' /\ Remembered
  <2>1. CASE UNCHANGED service
    BY <2>1, ServiceSame
  <2>2. CASE turn.pc = "apply" /\ (GiveUp(r) \/ Leave(r))
    BY <1>1, <1>2, <2>2, AnswerKeeps DEF GiveUp, Leave
  <2> QED BY <2>1, <2>2 DEF Timeout, EndConfirm, Interrupt
<1>5. CASE Timeout
  <2>1. UNCHANGED <<dlg, turn, said>>
    BY <1>5 DEF Timeout, dialogue
  <2>2. DInv'
    BY <1>1, <1>4, <2>1 DEF DInv, DialogueTypeOK, Speaks, Remembered
  <2> QED BY <1>4, <2>2
<1>6. CASE EndConfirm
  <2> DEFINE q == dlg.pending
             last == IF q.choices = <<>> THEN None ELSE q.choices[1].id
  <2>1. turn.pc = "apply" /\ turn' = NoTurn /\ UNCHANGED said
    BY <1>6 DEF EndConfirm
  <2>2. last \in Mine \cup {None} /\ <<>> \in Seq(Mine)
    <3>1. q \in PendingCommand
      BY <1>1, <2>1, DialogueRecord
    <3>2. CASE q.choices # <<>>
      <4>1. q.choices[1] \in Target
        BY <3>1, <3>2 DEF PendingCommand
      <4> QED BY <3>2, <4>1 DEF Target
    <3> QED BY <3>2
  <2>3. \/ dlg' = [pending |-> None, choices |-> <<>>, last |-> last]
        \/ dlg' = [pending |-> None, choices |-> dlg.choices, last |-> dlg.last]
    BY <1>6, DialogueRecord DEF EndConfirm
  <2> HIDE DEF last
  <2> QED BY <1>3, <1>4, <2>1, <2>2, <2>3, DialogueRecord, Dropped
<1>7. CASE Interrupt
  <2>1. turn' = NoTurn /\ UNCHANGED <<dlg, said>>
    BY <1>7 DEF Interrupt
  <2>2. DInv'
    BY <2>1 DEF DInv, DialogueTypeOK, Speaks, NoTurn
  <2> QED BY <1>4, <2>2
<1> QED BY <1>5, <1>6, <1>7

-----------------------------------------------------------------------------
(* The theorems. *)

LEMMA Begin == DialogueInit => SInv /\ DInv
<1> SUFFICES ASSUME DialogueInit PROVE SInv /\ DInv
  OBVIOUS
<1>1. store \in Shown /\ base \in Shown
  BY DEF DialogueInit, ServiceInit, Shown, Record, NothingShown
<1>2. Idle \in Work /\ ~Idle.on /\ Idle.todo = <<>>
  BY DEF Idle, Work, Results
<1>3. pending \in [Procs -> Seq(Requests)] /\ \A p \in Procs : pending[p] = <<>> /\ Len(pending[p]) <= MaxPending
  BY ServiceConstantsOK DEF DialogueInit, ServiceInit
<1>4. work \in [Procs -> Work] /\ \A p \in Procs : ~work[p].on /\ work[p].todo = <<>>
  BY <1>2 DEF DialogueInit, ServiceInit
<1>5. /\ history \in [Memories -> {"none", "ownerless", "owned"}] /\ clock \in Nat /\ lock \in Procs \cup {None}
      /\ call \in [Requests -> CallRecord \cup {None}] /\ faults \in 0 .. MaxFaults
  BY ServiceConstantsOK DEF DialogueInit, ServiceInit
<1>6. ServiceTypeOK
  BY <1>1, <1>3, <1>4, <1>5 DEF ServiceTypeOK
<1>7. Queued /\ Locked /\ Planned
  BY <1>3, <1>4 DEF Queued, Locked, Planned
<1>8. dlg = [pending |-> None, choices |-> <<>>, last |-> None] /\ turn = NoTurn /\ said = 0
  BY DEF DialogueInit, NewDialogue
<1>9. DialogueTypeOK
  BY <1>8, DialogueConstantsOK DEF DialogueTypeOK, NoTurn
<1>10. Speaks
  BY <1>8 DEF Speaks, NoTurn
<1> QED BY <1>6, <1>7, <1>9, <1>10 DEF SInv, DInv

LEMMA Step == SInv /\ DInv /\ [Next]_vars => SInv' /\ DInv'
<1> SUFFICES ASSUME SInv, DInv, [Next]_vars PROVE SInv' /\ DInv'
  OBVIOUS
\* A step of the service leaves the dialogue alone.
<1>1. ASSUME Remembered, UNCHANGED dialogue PROVE DInv'
  BY <1>1 DEF DInv, DialogueTypeOK, Speaks, dialogue, Remembered
<1>2. CASE NextService
  <2>1. CASE ServiceStep
    BY <1>1, <1>2, <2>1, WorkerKeeps DEF NextService
  <2>2. ASSUME NEW p \in Procs, NEW r \in Requests, NEW o \in Routes, Call(p, r, o, "unheard")
        PROVE  SInv' /\ DInv'
    BY <1>1, <1>2, <2>2, RoutesWellFormed, CallKeeps DEF NextService
  <2> QED BY <1>2, <2>1, <2>2 DEF NextService, ServiceStep
<1>3. CASE UNCHANGED vars
  BY <1>1, <1>3, ServiceSame DEF vars
<1>4. CASE NextTurn
  <2>1. CASE Forget \/ \E i \in 1 .. MaxChoices : SelectChoice(i)
    BY <2>1, AnswerStepKeeps, ServiceSame
  <2>2. CASE Gather
    BY <2>2, GatherKeeps, ServiceSame
  <2>3. CASE NewCommand
    BY <2>3, CommandKeeps, ServiceSame
  <2> QED BY <1>4, <2>1, <2>2, <2>3, ConfirmKeeps, ApplyKeeps DEF NextTurn
<1> QED BY <1>2, <1>3, <1>4 DEF Next

\* Memories, queues, workers, calls and the dialogue keep their types, and no process has more
\* operations in hand than it accepts (mem0_service.py:80).
THEOREM TypeCorrect == Spec => [](ServiceTypeOK /\ DialogueTypeOK)
<1>1. SInv /\ DInv => ServiceTypeOK /\ DialogueTypeOK
  BY DEF SInv, DInv
<1> QED BY <1>1, Begin, Step, PTL DEF Spec

\* Only a worker that holds the lock changes a row, and of a confirmed command only rows that are
\* what the preview showed (mem0_service.py:371).
THEOREM AppliesAsShown == Spec => OnlyAsShown
<1> DEFINE Safe == \A p \in Procs, m \in Memories :
                     /\ lock = p /\ pending[p] # <<>> /\ store'[m] # store[m]
                     /\ call[Head(pending[p])].op.seen # NothingShown
                     => store[m] = call[Head(pending[p])].op.seen[m]
<1>1. SInv /\ DInv /\ [Next]_vars => [Safe]_vars
  <2> SUFFICES ASSUME SInv, DInv, Next PROVE Safe
    OBVIOUS
  <2>1. ASSUME UNCHANGED store PROVE Safe
    BY <2>1
  <2>2. ASSUME NEW q \in Procs, Execute(q) PROVE Safe
    <3>1. /\ lock = q
          /\ Current(q).seen # NothingShown =>
               \A m \in Memories : store'[m] # store[m] => store[m] = Current(q).seen[m]
      BY <2>2, ExecuteKeeps
    <3> QED BY <3>1 DEF Current, OpOf
  <2>3. CASE NextService
    BY <2>1, <2>2, <2>3 DEF NextService, Worker, TakeLock, Finish, Fault, Return, Crash, Call
  <2>4. CASE NextTurn
    <3>1. CASE Forget \/ (\E i \in 1 .. MaxChoices : SelectChoice(i)) \/ Gather \/ NewCommand
      BY <2>1, <3>1, AnswerStepKeeps, GatherKeeps, CommandKeeps DEF service
    <3>2. CASE Timeout \/ EndConfirm \/ Interrupt \/ \E p \in Procs, r \in Requests : Confirm(p, r)
      BY <2>1, <3>2 DEF Timeout, EndConfirm, Interrupt, Confirm, Call, GiveUp, Leave, service
    <3> QED BY <2>4, <3>1, <3>2 DEF NextTurn
  <2> QED BY <2>3, <2>4 DEF Next
<1>2. [][Safe]_vars <=> OnlyAsShown
  BY DEF OnlyAsShown
<1> QED BY <1>1, <1>2, Begin, Step, PTL DEF Spec

\* A row is deleted only after its history has an owner (mem0_service.py:256).
THEOREM DeletedKeepsOwner == Spec => []HistoryKeepsOwner
<1>1. DialogueInit => HistoryKeepsOwner
  BY DEF DialogueInit, ServiceInit, HistoryKeepsOwner
<1>2. SInv /\ DInv /\ HistoryKeepsOwner /\ [Next]_vars => HistoryKeepsOwner'
  <2> SUFFICES ASSUME SInv, DInv, HistoryKeepsOwner, [Next]_vars PROVE HistoryKeepsOwner'
    OBVIOUS
  <2>1. ASSUME UNCHANGED <<store, history>> PROVE HistoryKeepsOwner'
    BY <2>1 DEF HistoryKeepsOwner
  <2>2. ASSUME NEW q \in Procs, Execute(q) PROVE HistoryKeepsOwner'
    <3> DEFINE s == Head(work[q].todo)
               row == [text |-> call[Head(pending[q])].op.text, at |-> clock]
    <3>1. /\ store \in Shown /\ history \in [Memories -> {"none", "ownerless", "owned"}] /\ clock \in Nat
          /\ work[q].todo \in Seq(Statement) /\ work[q].todo # <<>>
      BY <2>2 DEF SInv, ServiceTypeOK, Work, Execute
    <3>2. s = work[q].todo[1] /\ 1 \in DOMAIN work[q].todo
      BY <3>1
    <3>3. s.do \in {"write", "insert"} => row # None
      <4>1. s.do \in {"write", "insert"} => call[Head(pending[q])].op.text \in Texts
        BY <2>2, <3>1, <3>2 DEF SInv, Locked, Planned, Fits, Current, OpOf
      <4> QED BY <3>1, <4>1, NoneIsNothing DEF Record
    <3>4. \/ /\ store' = [store EXCEPT ![s.id] = None]
             /\ history' = [history EXCEPT ![s.id] = Bound(history[s.id])]
          \/ /\ s.do \in {"write", "insert"} /\ store' = [store EXCEPT ![s.id] = row]
             /\ history' = history \/ history' = [history EXCEPT ![s.id] = Bound(history[s.id])]
          \/ history' = [history EXCEPT ![s.id] = "owned"] /\ UNCHANGED store
      BY <2>2 DEF Execute
    <3> HIDE DEF s, row
    <3>5. \A m \in Memories : /\ history'[m] = "ownerless" => history[m] = "ownerless"
                              /\ history'[m] = "ownerless" /\ store'[m] = None => store[m] = None
      BY <3>1, <3>3, <3>4 DEF Shown, Bound
    <3> QED BY <3>5 DEF HistoryKeepsOwner
  <2>3. CASE NextService
    BY <2>1, <2>2, <2>3 DEF NextService, Worker, TakeLock, Finish, Fault, Return, Crash, Call
  <2>4. CASE NextTurn
    <3>1. CASE Forget \/ (\E i \in 1 .. MaxChoices : SelectChoice(i)) \/ Gather \/ NewCommand
      BY <2>1, <3>1, AnswerStepKeeps, GatherKeeps, CommandKeeps DEF service
    <3>2. CASE Timeout \/ EndConfirm \/ Interrupt \/ \E p \in Procs, r \in Requests : Confirm(p, r)
      BY <2>1, <3>2 DEF Timeout, EndConfirm, Interrupt, Confirm, Call, GiveUp, Leave, service
    <3> QED BY <2>4, <3>1, <3>2 DEF NextTurn
  <2>5. CASE UNCHANGED vars
    BY <2>1, <2>5 DEF vars, service
  <2> QED BY <2>3, <2>4, <2>5 DEF Next
<1> QED BY <1>1, <1>2, Begin, Step, PTL DEF Spec

-----------------------------------------------------------------------------
(* How far an operation has come: the invariant behind WholeOrRefused. *)

Refusals == {"conflict", "not_found", "unchanged"}

\* The rows that statements will still erase, and those that a deletion is about.
Erased(todo) == {todo[k].id : k \in {j \in DOMAIN todo : todo[j].do = "erase"}}
Wanted(w, o, b) == IF w.result = "deleted" THEN Range(o.ids) ELSE {m \in Mine : b[m] # None}

Differ(s, b) == {m \in Memories : s[m] # b[m]}

\* The operation o, of which w is left, has made the rows s of the rows b.
Progress(w, o, s, b) ==
  /\ w.result \in Refusals \cup {"updated", "deleted", "cleared", "saved"}
  /\ w.result \in Refusals => w.todo = <<>> /\ s = b
  /\ w.result = "updated" =>
       /\ \A k \in DOMAIN w.todo : /\ w.todo[k].do \in {"write", "log"}
                                   /\ w.todo[k].do = "write" => k = 1 /\ w.todo[k].id = o.ids[1]
       /\ o.ids[1] \in Mine
       /\ IF \E k \in DOMAIN w.todo : w.todo[k].do = "write" THEN s = b
          ELSE Differ(s, b) = {o.ids[1]} /\ s[o.ids[1]].text = o.text
  /\ w.result \in {"deleted", "cleared"} =>
       /\ Wanted(w, o, b) \subseteq Memories
       /\ \A k \in DOMAIN w.todo : w.todo[k].do \in {"erase", "log"}
       /\ \A m \in Memories :
            IF m \in Wanted(w, o, b)
            THEN b[m] # None /\ (s[m] = None \/ (s[m] = b[m] /\ m \in Erased(w.todo)))
            ELSE s[m] = b[m] /\ m \notin Erased(w.todo)
  /\ w.result = "saved" =>
       /\ \A k \in DOMAIN w.todo : /\ w.todo[k].do \in {"insert", "log"}
                                   /\ w.todo[k].do = "insert" => b[w.todo[k].id] = None
       /\ \A m \in Differ(s, b) : b[m] = None

\* Every change so far is older than the next one.
Past == \A m \in Memories : store[m] # None => store[m].at < clock

PInv == Past /\ \A p \in Procs : work[p].on => Progress(work[p], Current(p), store, base)

\* DeleteEach erases what it is given, and an injection of as many numbers as there are rows
\* reaches every row.
LEMMA DeletionsErase ==
  ASSUME NEW ms \in Seq(Mine)
  PROVE  /\ \A k \in DOMAIN DeleteEach(ms) : DeleteEach(ms)[k].do \in {"erase", "log"}
         /\ Erased(DeleteEach(ms)) = Range(ms)
<1> DEFINE n == 2 * Len(ms)
<1>1. n \in Nat /\ DOMAIN DeleteEach(ms) = 1 .. n /\ DOMAIN ms = 1 .. Len(ms)
  BY DEF DeleteEach
<1>2. ASSUME NEW k \in 1 .. n
      PROVE  /\ (k + 1) \div 2 \in DOMAIN ms /\ DeleteEach(ms)[k].id = ms[(k + 1) \div 2]
             /\ DeleteEach(ms)[k].do = IF k % 2 = 1 THEN "erase" ELSE "log"
  <2>1. (k + 1) \div 2 \in 1 .. Len(ms)
    BY <1>1
  <2>2. DeleteEach(ms)[k] = S(IF k % 2 = 1 THEN "erase" ELSE "log", ms[(k + 1) \div 2])
    BY DEF DeleteEach
  <2> QED BY <1>1, <2>1, <2>2 DEF S
<1>3. Erased(DeleteEach(ms)) \subseteq Range(ms)
  BY <1>1, <1>2 DEF Erased, Range
<1>4. Range(ms) \subseteq Erased(DeleteEach(ms))
  <2> SUFFICES ASSUME NEW i \in DOMAIN ms PROVE ms[i] \in Erased(DeleteEach(ms))
    BY DEF Range
  <2> DEFINE k == 2 * i - 1
  <2>1. k \in 1 .. n /\ k % 2 = 1 /\ (k + 1) \div 2 = i
    BY <1>1
  <2> HIDE DEF k
  <2>2. DeleteEach(ms)[k].do = "erase" /\ DeleteEach(ms)[k].id = ms[i]
    BY <1>2, <2>1
  <2> QED BY <1>1, <2>1, <2>2 DEF Erased
<1> QED BY <1>1, <1>2, <1>3, <1>4

LEMMA OrdersReachAll ==
  ASSUME ServiceTypeOK, NEW ms \in Orders
  PROVE  ms \in Seq(Mine) /\ Range(ms) = Live
<1> DEFINE n == Cardinality(Live)
<1>1. Live \subseteq Mine /\ IsFiniteSet(Live) /\ n \in Nat
  BY LiveRows
<1>2. ms \in [1 .. n -> Live] /\ ms \in Injection(1 .. n, Live)
  BY DEF Orders, Injection
<1>3. Cardinality(1 .. n) = n
  <2>1. Cardinality(1 .. n) = IF 1 > n THEN 0 ELSE n - 1 + 1
    BY <1>1, FS_Interval
  <2> QED BY <1>1, <2>1
<1>4. ms \in Surjection(1 .. n, Live)
  BY <1>1, <1>2, <1>3, FS_Injection
<1>5. Range(ms) = Live
  BY <1>2, <1>4 DEF Surjection, Range
<1>6. ms \in Seq(Mine)
  <2>1. ms \in [1 .. n -> Mine]
    BY <1>1, <1>2
  <2> QED BY <1>1, <2>1
<1> QED BY <1>5, <1>6

LEMMA TailErased ==
  ASSUME NEW todo \in Seq(Statement), todo # <<>>
  PROVE  Erased(todo) = Erased(Tail(todo)) \cup (IF Head(todo).do = "erase" THEN {Head(todo).id} ELSE {})
<1>1. /\ DOMAIN todo = 1 .. Len(todo) /\ Len(todo) \in Nat /\ Head(todo) = todo[1] /\ 1 \in DOMAIN todo
      /\ \A k \in DOMAIN Tail(todo) : k + 1 \in DOMAIN todo /\ Tail(todo)[k] = todo[k + 1]
      /\ \A k \in DOMAIN todo \ {1} : k - 1 \in DOMAIN Tail(todo) /\ Tail(todo)[k - 1] = todo[k]
  OBVIOUS
<1>2. Erased(Tail(todo)) \subseteq Erased(todo)
  BY <1>1 DEF Erased
<1>3. ASSUME NEW k \in DOMAIN todo \ {1}, todo[k].do = "erase" PROVE todo[k].id \in Erased(Tail(todo))
  BY <1>1, <1>3 DEF Erased
<1>4. Head(todo).do = "erase" => Head(todo).id \in Erased(todo)
  BY <1>1 DEF Erased
<1> HIDE <1>1
<1>5. ASSUME NEW m \in Erased(todo)
      PROVE  m \in Erased(Tail(todo)) \/ (Head(todo).do = "erase" /\ m = Head(todo).id)
  <2>1. PICK k \in DOMAIN todo : todo[k].do = "erase" /\ m = todo[k].id
    BY DEF Erased
  <2> QED BY <1>1, <1>3, <2>1
<1> QED BY <1>2, <1>4, <1>5

\* An operation as it is planned has done nothing yet, and what it is going to do is what its
\* result will say.
LEMMA PlansBegin ==
  ASSUME ServiceTypeOK, NEW o, WellFormed(o), NEW w \in Plans(o)
  PROVE  Progress(w, o, store, store)
<1>1. \A todo, result : Plan(todo, result).todo = todo /\ Plan(todo, result).result = result
  BY DEF Plan
<1>2. \A result \in Refusals : w = Plan(<<>>, result) => Progress(w, o, store, store)
  BY <1>1 DEF Progress, Refusals
<1>3. Differ(store, store) = {}
  BY DEF Differ
<1>4. CASE o.kind = "remember"
  <2>1. w = Plan(<<>>, "saved") \/ \E m \in Mine \ Live : w = Plan(<<S("insert", m), S("log", m)>>, "saved")
    <3>1. Plans(o) = {Plan(<<>>, "saved")} \cup {Plan(<<S("insert", m), S("log", m)>>, "saved") : m \in Mine \ Live}
      BY <1>4, Zenon DEF Plans
    <3> QED BY <3>1
  <2>2. ASSUME NEW m \in Mine \ Live, w = Plan(<<S("insert", m), S("log", m)>>, "saved")
        PROVE  Progress(w, o, store, store)
    <3> DEFINE todo == <<S("insert", m), S("log", m)>>
    <3>1. /\ DOMAIN todo = {1, 2} /\ todo[1].do = "insert" /\ todo[1].id = m /\ todo[2].do = "log"
          /\ store[m] = None
      BY LiveRows DEF S, Live
    <3>2. w.todo = todo /\ w.result = "saved"
      BY <1>1, <2>2
    <3> HIDE DEF todo
    <3> QED BY <1>3, <3>1, <3>2 DEF Progress, Refusals
  <2>3. CASE w = Plan(<<>>, "saved")
    BY <1>1, <1>3, <2>3 DEF Progress, Refusals
  <2> QED BY <2>1, <2>2, <2>3
<1>5. CASE o.kind = "confirm_delete_all" /\ Live # {} /\ o.seen # Snapshot
  <2>1. o.kind # "remember"
    BY <1>5
  <2>2. Plans(o) = {Plan(<<>>, "conflict")}
    BY <1>5, <2>1, Zenon DEF Plans
  <2> QED BY <1>2, <2>2 DEF Refusals
\* A deletion of the rows that are wanted.
<1>6. ASSUME NEW ms \in Seq(Mine), NEW result \in {"deleted", "cleared"}, w = Plan(DeleteEach(ms), result),
             Range(ms) = Wanted(w, o, store), \A m \in Range(ms) : store[m] # None
      PROVE  Progress(w, o, store, store)
  <2>1. w.todo = DeleteEach(ms) /\ w.result = result
    BY <1>1, <1>6
  <2>2. /\ \A k \in DOMAIN w.todo : w.todo[k].do \in {"erase", "log"}
        /\ Erased(w.todo) = Range(ms)
    BY <2>1, DeletionsErase
  <2>3. Range(ms) \subseteq Memories
    BY DEF Range, Mine
  <2> HIDE <1>6
  <2> QED BY <1>6, <2>1, <2>2, <2>3 DEF Progress, Refusals
<1>7. CASE o.kind = "delete_all" \/ (o.kind = "confirm_delete_all" /\ (Live = {} \/ o.seen = Snapshot))
  <2>1. o.kind # "remember" /\ ~(o.kind = "confirm_delete_all" /\ Live # {} /\ o.seen # Snapshot)
    BY <1>7
  <2>2. Plans(o) = {Plan(DeleteEach(ms), "cleared") : ms \in Orders}
    BY <1>7, <2>1, Zenon DEF Plans
  <2>3. PICK ms \in Orders : w = Plan(DeleteEach(ms), "cleared")
    BY <2>2
  <2>4. ms \in Seq(Mine) /\ Range(ms) = Live
    BY OrdersReachAll
  <2>5. w.result = "cleared"
    BY <1>1, <2>3
  <2>6. Range(ms) = Wanted(w, o, store) /\ \A m \in Range(ms) : store[m] # None
    BY <2>4, <2>5 DEF Wanted, Live
  <2> QED BY <1>6, <2>3, <2>4, <2>6
<1>8. CASE o.kind \notin {"remember", "delete_all", "confirm_delete_all"}
  <2>1. w = TargetPlan(o)
    <3>1. /\ o.kind # "remember" /\ ~(o.kind = "confirm_delete_all" /\ Live # {} /\ o.seen # Snapshot)
          /\ ~(o.kind = "delete_all" \/ (o.kind = "confirm_delete_all" /\ (Live = {} \/ o.seen = Snapshot)))
      BY <1>8
    <3>2. Plans(o) = {TargetPlan(o)}
      BY <3>1, Zenon DEF Plans
    <3> QED BY <3>2
  <2>2. CASE Unchanged(o)
    BY <1>2, <2>1, <2>2 DEF TargetPlan, Refusals
  <2>3. CASE ~Unchanged(o) /\ Refused(o) # {}
    BY <1>2, <2>1, <2>3 DEF TargetPlan, Refusal, Refusals
  <2>4. ASSUME Refused(o) = {}
        PROVE  o.ids \in Seq(Mine) /\ o.ids # <<>> /\ \A m \in Range(o.ids) : store[m] # None
    <3>1. o.ids \in Seq(Memories) /\ o.ids # <<>>
      BY <1>8 DEF WellFormed
    <3>2. \A i \in DOMAIN o.ids : Owned(o.ids[i])
      BY <2>4 DEF Refused
    <3> QED BY <3>1, <3>2 DEF Owned, Range
  <2>5. CASE ~Unchanged(o) /\ Refused(o) = {} /\ o.kind \in {"update", "confirm_update"}
    <3> DEFINE m == o.ids[1]
               todo == Update(m)
    <3>1. w.todo = todo /\ w.result = "updated"
      BY <1>1, <2>1, <2>5 DEF TargetPlan
    <3>2. m \in Mine /\ 1 \in DOMAIN o.ids
      BY <2>4, <2>5
    <3>3. DOMAIN todo = {1, 2} /\ todo[1].do = "write" /\ todo[1].id = m /\ todo[2].do = "log"
      BY DEF Update, S
    <3> HIDE DEF todo
    <3> QED BY <3>1, <3>2, <3>3 DEF Progress, Refusals
  <2>6. CASE ~Unchanged(o) /\ Refused(o) = {} /\ o.kind \notin {"update", "confirm_update"}
    <3>1. w = Plan(DeleteEach(o.ids), "deleted")
      BY <2>1, <2>6 DEF TargetPlan
    <3>2. w.result = "deleted"
      BY <1>1, <3>1
    <3>3. Range(o.ids) = Wanted(w, o, store)
      BY <3>2 DEF Wanted
    <3> QED BY <1>6, <2>4, <2>6, <3>1, <3>3
  <2> QED BY <2>2, <2>3, <2>5, <2>6
<1> QED BY <1>4, <1>5, <1>6, <1>7, <1>8

\* A statement takes the operation one step further.
LEMMA ExecuteProgresses ==
  ASSUME SInv, PInv, NEW p \in Procs, Execute(p)
  PROVE  PInv'
<1> DEFINE w == work[p]
           todo == work[p].todo
           s == Head(todo)
           o == Current(p)
           v == [text |-> o.text, at |-> clock]
<1>1. /\ work \in [Procs -> Work] /\ w \in Work /\ store \in Shown /\ base \in Shown /\ clock \in Nat
      /\ todo \in Seq(Statement) /\ todo # <<>>
  BY DEF SInv, ServiceTypeOK, Execute, Work
<1>2. w.on /\ lock = p /\ Fits(todo, o) /\ Progress(w, o, store, base)
  BY <1>1 DEF SInv, Locked, Planned, PInv
<1>3. /\ work' = [work EXCEPT ![p].todo = Tail(todo)] /\ UNCHANGED <<lock, pending, call, base>>
  BY DEF Execute
<1>4. /\ work'[p].on = w.on /\ work'[p].todo = Tail(todo) /\ work'[p].result = w.result
      /\ \A q \in Procs \ {p} : work'[q] = work[q]
  BY <1>1, <1>3 DEF Work
<1>5. 1 \in DOMAIN todo /\ s = todo[1] /\ s \in Statement /\ s.id \in Memories /\ s.id \in Mine
      /\ s.do \in {"erase", "write", "insert", "log"}
  <2>1. 1 \in DOMAIN todo /\ s = todo[1] /\ s \in Statement
    BY <1>1
  <2> HIDE DEF s
  <2> QED BY <2>1 DEF Statement, Mine
<1>6. /\ \A k \in DOMAIN Tail(todo) :
           k + 1 \in DOMAIN todo /\ k + 1 # 1 /\ Tail(todo)[k] = todo[k + 1] /\ k \in Nat
      /\ \A k \in DOMAIN todo \ {1} : k - 1 \in DOMAIN Tail(todo) /\ Tail(todo)[k - 1] = todo[k]
  BY <1>1
<1>7. /\ s.do = "erase" => store' = [store EXCEPT ![s.id] = None] /\ clock' = clock
      /\ s.do \in {"write", "insert"} => store' = [store EXCEPT ![s.id] = v] /\ clock' = clock + 1
      /\ s.do = "log" => UNCHANGED <<store, clock>>
  BY DEF Execute, Current, OpOf
<1>8. Erased(todo) = Erased(Tail(todo)) \cup (IF s.do = "erase" THEN {s.id} ELSE {})
  BY <1>1, TailErased
<1>9. v.text = o.text /\ v.at = clock
  OBVIOUS
<1>10. s.do \in {"write", "insert"} => v \in Record /\ v # None
  BY <1>1, <1>2, <1>5, NoneIsNothing DEF Fits, Record
<1> HIDE DEF s, v
<1>11. /\ s.do = "erase" => store'[s.id] = None
       /\ s.do \in {"write", "insert"} => store'[s.id] = v
       /\ \A m \in Memories \ {s.id} : store'[m] = store[m]
  BY <1>1, <1>5, <1>7 DEF Shown
<1>12. Past'
  <2> SUFFICES ASSUME NEW m \in Memories, store'[m] # None PROVE store'[m].at < clock'
    BY DEF Past
  <2>1. CASE store'[m] = store[m]
    <3>1. store[m].at < clock /\ store[m] \in Record
      BY <1>1, <2>1 DEF PInv, Past, Shown
    <3>2. clock' \in {clock, clock + 1} /\ store[m].at \in Nat
      BY <1>5, <1>7, <3>1 DEF Record
    <3> QED BY <1>1, <2>1, <3>1, <3>2
  <2>2. CASE store'[m] # store[m]
    BY <1>1, <1>5, <1>7, <1>9, <1>11, <2>2
  <2> QED BY <2>1, <2>2
<1>13. Current(p)' = o
  BY <1>3 DEF Current, OpOf
<1> HIDE DEF o, w, todo
<1> DEFINE u == work'[p]
<1>14. u.todo = Tail(todo) /\ u.result = w.result
  BY <1>4 DEF w, todo
<1> HIDE DEF u
<1>15. ASSUME w.result = "updated" PROVE Progress(u, o, store', base)
  <2>1. s.do \in {"write", "log"} /\ (s.do = "write" => s.id = o.ids[1]) /\ o.ids[1] \in Mine
    BY <1>2, <1>5, <1>15 DEF Progress, w, todo
  <2>2. \A k \in DOMAIN Tail(todo) : Tail(todo)[k].do = "log"
    BY <1>2, <1>6, <1>15 DEF Progress, w, todo
  <2>3. Differ(store', base) = {o.ids[1]} /\ store'[o.ids[1]].text = o.text
    <3>1. CASE s.do = "write"
      <4>1. store = base
        BY <1>2, <1>5, <1>14, <3>1 DEF Progress, w, todo
      <4>2. store[s.id] # v
        BY <1>1, <1>5, <1>9, <1>10, <3>1 DEF PInv, Past
      <4> QED BY <1>5, <1>9, <1>11, <2>1, <3>1, <4>1, <4>2 DEF Differ
    <3>2. CASE s.do = "log"
      <4>1. ~ \E k \in DOMAIN todo : todo[k].do = "write"
        BY <1>2, <1>5, <1>15, <3>2 DEF Progress, w, todo
      <4>2. Differ(store, base) = {o.ids[1]} /\ store[o.ids[1]].text = o.text
        BY <1>2, <1>15, <4>1 DEF Progress, w, todo
      <4> QED BY <1>7, <3>2, <4>2
    <3> QED BY <2>1, <3>1, <3>2
  <2>4. ~ \E k \in DOMAIN u.todo : u.todo[k].do = "write"
    BY <1>14, <2>2
  <2>5. u.result = "updated" /\ \A k \in DOMAIN u.todo : u.todo[k].do = "log"
    BY <1>14, <1>15, <2>2
  <2> QED BY <2>1, <2>3, <2>4, <2>5 DEF Progress, Refusals
<1>16. ASSUME w.result \in {"deleted", "cleared"} PROVE Progress(u, o, store', base)
  <2> DEFINE W == Wanted(w, o, base)
  <2>1. s.do \in {"erase", "log"} /\ \A k \in DOMAIN Tail(todo) : Tail(todo)[k].do \in {"erase", "log"}
    BY <1>2, <1>5, <1>6, <1>16 DEF Progress, w, todo
  <2>2. /\ W \subseteq Memories
        /\ \A m \in Memories :
             IF m \in W
             THEN base[m] # None /\ (store[m] = None \/ (store[m] = base[m] /\ m \in Erased(todo)))
             ELSE store[m] = base[m] /\ m \notin Erased(todo)
    BY <1>2, <1>16 DEF Progress, w, todo
  <2>3. Wanted(u, o, base) = W
    BY <1>14 DEF Wanted
  <2> HIDE DEF W
  <2>4. ASSUME NEW m \in Memories
        PROVE  IF m \in W
               THEN base[m] # None /\ (store'[m] = None \/ (store'[m] = base[m] /\ m \in Erased(Tail(todo))))
               ELSE store'[m] = base[m] /\ m \notin Erased(Tail(todo))
    <3>1. CASE s.do = "log"
      BY <1>7, <1>8, <2>2, <3>1
    <3>2. CASE s.do = "erase" /\ m = s.id
      BY <1>8, <1>11, <2>2, <3>2
    <3>3. CASE s.do = "erase" /\ m # s.id
      BY <1>8, <1>11, <2>2, <3>3
    <3> QED BY <2>1, <3>1, <3>2, <3>3
  <2>5. /\ u.result \in {"deleted", "cleared"} /\ u.todo = Tail(todo)
    BY <1>14, <1>16
  <2> QED BY <2>1, <2>2, <2>3, <2>4, <2>5 DEF Progress, Refusals
<1>17. ASSUME w.result = "saved" PROVE Progress(u, o, store', base)
  <2>1. /\ \A k \in DOMAIN todo : /\ todo[k].do \in {"insert", "log"}
                                  /\ todo[k].do = "insert" => base[todo[k].id] = None
        /\ \A m \in Differ(store, base) : base[m] = None
    BY <1>2, <1>17 DEF Progress, w, todo
  <2>2. \A k \in DOMAIN Tail(todo) : /\ Tail(todo)[k].do \in {"insert", "log"}
                                     /\ Tail(todo)[k].do = "insert" => base[Tail(todo)[k].id] = None
    BY <1>6, <2>1
  <2>3. \A m \in Differ(store', base) : base[m] = None
    <3>1. CASE s.do = "log"
      BY <1>7, <2>1, <3>1
    <3>2. CASE s.do = "insert"
      <4>1. base[s.id] = None
        BY <1>5, <2>1, <3>2
      <4> QED BY <1>11, <2>1, <4>1 DEF Differ
    <3>3. s.do \in {"insert", "log"}
      BY <1>5, <2>1
    <3> QED BY <3>1, <3>2, <3>3
  <2>4. u.result = "saved" /\ u.todo = Tail(todo)
    BY <1>14, <1>17
  <2>5. \A k \in DOMAIN u.todo : /\ u.todo[k].do \in {"insert", "log"}
                                 /\ u.todo[k].do = "insert" => base[u.todo[k].id] = None
    BY <2>2, <2>4
  <2> QED BY <2>3, <2>4, <2>5 DEF Progress, Refusals
<1>18. Progress(u, o, store', base)
  <2>1. w.result \in {"updated", "deleted", "cleared", "saved"}
    BY <1>1, <1>2 DEF Progress, w, todo
  <2> QED BY <1>15, <1>16, <1>17, <2>1
<1>19. \A q \in Procs : work'[q].on => q = p
  BY <1>2, <1>4 DEF SInv, Locked, w
<1>20. Progress(work[p], Current(p), store, base)'
  BY <1>3, <1>13, <1>18 DEF u, Progress, Wanted, Differ
<1> QED BY <1>12, <1>19, <1>20 DEF PInv

\* The other steps leave the operations where they are.
LEMMA StaysInProgress ==
  ASSUME PInv, Undisturbed
  PROVE  PInv'
<1>1. Past'
  BY DEF PInv, Past, Undisturbed
<1>2. ASSUME NEW q \in Procs, work'[q].on PROVE Progress(work[q], Current(q), store, base)'
  <2>1. PICK o : o = Current(q)
    OBVIOUS
  <2>2. Current(q)' = o /\ work'[q] = work[q] /\ work[q].on /\ UNCHANGED <<store, base>>
    BY <1>2, <2>1 DEF Undisturbed
  <2>3. Progress(work[q], o, store, base)
    BY <2>1, <2>2 DEF PInv
  <2> QED BY <2>2, <2>3 DEF Progress, Wanted, Differ
<1> QED BY <1>1, <1>2 DEF PInv

LEMMA TakeLockProgresses ==
  ASSUME SInv, PInv, NEW p \in Procs, TakeLock(p)
  PROVE  PInv'
<1>1. /\ work \in [Procs -> Work] /\ pending \in [Procs -> Seq(Requests)]
      /\ pending[p] # <<>> /\ lock = None /\ base' = store
      /\ UNCHANGED <<store, clock, pending, call>>
  BY DEF TakeLock, SInv, ServiceTypeOK
<1>2. PICK o : o = Current(p)
  OBVIOUS
<1>3. PICK w \in Plans(o) : work' = [work EXCEPT ![p] = w]
  BY <1>2 DEF TakeLock, Current, OpOf
<1>4. WellFormed(o)
  <2>1. 1 \in DOMAIN pending[p] /\ Head(pending[p]) = pending[p][1]
    BY <1>1
  <2> QED BY <1>2, <2>1 DEF SInv, Queued, Current
<1>5. Progress(w, o, store, store)
  BY <1>4, PlansBegin DEF SInv
<1>6. work'[p] = w /\ \A q \in Procs \ {p} : work'[q] = work[q] /\ ~work[q].on
  BY <1>1, <1>3, ServiceConstantsOK DEF SInv, Locked
<1>7. Current(p)' = o
  BY <1>1, <1>2 DEF Current, OpOf
<1>8. Progress(work[p], Current(p), store, base)'
  BY <1>1, <1>5, <1>6, <1>7 DEF Progress, Wanted, Differ
<1>9. Past'
  BY <1>1 DEF PInv, Past
<1> QED BY <1>6, <1>8, <1>9 DEF PInv

LEMMA PBegin == DialogueInit => PInv
<1> SUFFICES ASSUME DialogueInit PROVE PInv
  OBVIOUS
<1>1. store \in [Memories -> {None} \cup [text : Texts, at : {0}]] /\ clock = 1
  BY DEF DialogueInit, ServiceInit
<1>2. Past
  BY <1>1 DEF Past
<1>3. \A p \in Procs : ~work[p].on
  BY DEF DialogueInit, ServiceInit, Idle
<1> QED BY <1>2, <1>3 DEF PInv

LEMMA PStep == SInv /\ DInv /\ PInv /\ [Next]_vars => PInv'
<1> SUFFICES ASSUME SInv, DInv, PInv, [Next]_vars PROVE PInv'
  OBVIOUS
<1>1. ASSUME UNCHANGED service PROVE PInv'
  <2>1. Undisturbed
    BY <1>1 DEF service, Undisturbed, Current, OpOf
  <2> QED BY <2>1, StaysInProgress
<1>2. ASSUME NEW p \in Procs, Worker(p) \/ Fault(p) \/ Crash(p) PROVE PInv'
  <2>1. CASE Finish(p) \/ Fault(p)
    <3>1. pending[p] # <<>> /\ work[p].result \in Results /\ "failed" \in Results /\ faults' \in 0 .. MaxFaults
      BY <2>1, ServiceConstantsOK DEF Finish, Fault, SInv, Locked, ServiceTypeOK, Work, Results
    <3>2. Undisturbed
      BY <2>1, <3>1, ReturnKeeps DEF Finish, Fault
    <3> QED BY <3>2, StaysInProgress
  <2>2. CASE Crash(p)
    BY <2>2, CrashKeeps, StaysInProgress
  <2> QED BY <1>2, <2>1, <2>2, TakeLockProgresses, ExecuteProgresses DEF Worker
<1>3. ASSUME NEW p \in Procs, NEW r \in Requests, NEW o, WellFormed(o), NEW result \in {"waiting", "unheard"},
             Call(p, r, o, result)
      PROVE  PInv'
  BY <1>3, CallKeeps, StaysInProgress
<1>4. ASSUME turn.pc = "apply", GiveUp(turn.request) \/ Leave(turn.request) PROVE PInv'
  <2>1. turn.request \in Requests /\ call[turn.request] # None /\ {"timeout", "unheard"} \subseteq Results
    BY <1>4 DEF DInv, Speaks, Results
  <2>2. Undisturbed
    BY <1>4, <2>1, AnswerKeeps DEF GiveUp, Leave
  <2> QED BY <2>2, StaysInProgress
<1>5. CASE NextService
  <2>1. ASSUME NEW p \in Procs, NEW r \in Requests, NEW o \in Routes, Call(p, r, o, "unheard") PROVE PInv'
    <3>1. WellFormed(o)
      BY RoutesWellFormed
    <3> QED BY <1>3, <2>1, <3>1
  <2> QED BY <1>2, <1>5, <2>1 DEF NextService
<1>6. CASE NextTurn
  <2>1. CASE Forget \/ (\E i \in 1 .. MaxChoices : SelectChoice(i)) \/ Gather \/ NewCommand
    BY <1>1, <2>1, AnswerStepKeeps, GatherKeeps, CommandKeeps DEF service
  <2>2. CASE Timeout \/ EndConfirm \/ Interrupt
    BY <1>1, <1>4, <2>2 DEF Timeout, EndConfirm, Interrupt
  <2>3. ASSUME NEW p \in Procs, NEW r \in Requests, Confirm(p, r) PROVE PInv'
    <3>1. PICK o : o = Mutation(dlg.pending)
      OBVIOUS
    <3>2. WellFormed(o) /\ Call(p, r, o, "waiting")
      BY <2>3, <3>1, MutationWellFormed DEF Confirm
    <3> QED BY <1>3, <3>2
  <2> QED BY <1>6, <2>1, <2>2, <2>3 DEF NextTurn
<1>7. CASE UNCHANGED vars
  BY <1>1, <1>7 DEF vars
<1> QED BY <1>5, <1>6, <1>7 DEF Next

\* An operation that ends has done all of what its result says and nothing else; one that was
\* refused, for whichever of its targets, has done nothing (mem0_service.py:343).
THEOREM DoneOrRefused == Spec => []WholeOrRefused
<1>1. SInv /\ PInv => WholeOrRefused
  <2> SUFFICES ASSUME SInv, PInv, NEW p \in Procs, work[p].on, work[p].todo = <<>>
               PROVE  LET o == call[Head(pending[p])].op
                          res == work[p].result
                          touched == {m \in Memories : store[m] # base[m]}
                      IN CASE res \in {"conflict", "not_found", "unchanged"} -> touched = {}
                           [] res = "updated" -> /\ touched = {o.ids[1]}
                                                 /\ store[o.ids[1]].text = o.text
                           [] res = "deleted" -> touched = Range(o.ids) /\ \A m \in touched : store[m] = None
                           [] res = "cleared" -> touched \subseteq Mine /\ Live = {}
                           [] OTHER -> \A m \in touched : base[m] = None
    BY DEF WholeOrRefused
  <2> DEFINE w == work[p]
             o == Current(p)
             touched == {m \in Memories : store[m] # base[m]}
  <2>1. Progress(w, o, store, base) /\ w.todo = <<>>
    BY DEF PInv
  <2>2. Erased(w.todo) = {} /\ ~ \E k \in DOMAIN w.todo : w.todo[k].do = "write"
    BY <2>1 DEF Erased
  <2>3. touched = Differ(store, base)
    BY DEF Differ
  <2> HIDE DEF w, o, touched
  <2>4. w.result \in Refusals => touched = {}
    BY <2>1, <2>3 DEF Progress, Differ
  <2>5. w.result = "updated" => touched = {o.ids[1]} /\ store[o.ids[1]].text = o.text
    BY <2>1, <2>2, <2>3 DEF Progress
  <2>6. w.result = "deleted" => touched = Range(o.ids) /\ \A m \in touched : store[m] = None
    BY <2>1, <2>2, <2>3 DEF Progress, Wanted, Differ
  <2>7. w.result = "cleared" => touched \subseteq Mine /\ Live = {}
    BY <2>1, <2>2, <2>3 DEF Progress, Wanted, Differ, Live, Mine
  <2>8. w.result = "saved" => \A m \in touched : base[m] = None
    BY <2>1, <2>3 DEF Progress
  <2>9. w.result \in Refusals \cup {"updated", "deleted", "cleared", "saved"}
    BY <2>1 DEF Progress
  <2> QED BY <2>4, <2>5, <2>6, <2>7, <2>8, <2>9 DEF Refusals, w, o, touched, Current, OpOf
<1> QED BY <1>1, PBegin, PStep, Begin, Step, PTL DEF Spec

-----------------------------------------------------------------------------
(* Nobody is stuck.  ENABLED Worker(p) itself is not within reach of the    *)
(* prover; CanGoOn states the guards of the three actions of a worker.      *)

\* Whoever has the lock is at work.
LockUsed == lock # None => work[lock].on

CanGoOn(p) ==
  \/ pending[p] # <<>> /\ ~work[p].on /\ lock = None /\ Plans(Current(p)) # {}
  \/ work[p].on /\ work[p].todo # <<>> /\ Head(work[p].todo) \in Statement
  \/ work[p].on /\ work[p].todo = <<>>

\* Also when everything is to be deleted, there is an order to do it in.
LEMMA SomePlan == ASSUME ServiceTypeOK, NEW o PROVE Plans(o) # {}
<1>1. CASE o.kind = "remember"
  <2>1. Plans(o) = {Plan(<<>>, "saved")} \cup {Plan(<<S("insert", m), S("log", m)>>, "saved") : m \in Mine \ Live}
    BY <1>1, Zenon DEF Plans
  <2> QED BY <2>1
<1>2. CASE o.kind = "confirm_delete_all" /\ Live # {} /\ o.seen # Snapshot
  <2>1. o.kind # "remember"
    BY <1>2
  <2>2. Plans(o) = {Plan(<<>>, "conflict")}
    BY <1>2, <2>1, Zenon DEF Plans
  <2> QED BY <2>2
<1>3. CASE o.kind = "delete_all" \/ (o.kind = "confirm_delete_all" /\ (Live = {} \/ o.seen = Snapshot))
  <2>1. o.kind # "remember" /\ ~(o.kind = "confirm_delete_all" /\ Live # {} /\ o.seen # Snapshot)
    BY <1>3
  <2>2. Plans(o) = {Plan(DeleteEach(ms), "cleared") : ms \in Orders}
    BY <1>3, <2>1, Zenon DEF Plans
  <2>3. \E ms : ms \in Orders
    <3>1. PICK ms : ms \in Bijection(1 .. Cardinality(Live), Live)
      <4>1. ExistsBijection(1 .. Cardinality(Live), Live)
        BY LiveRows, FS_CardinalityType
      <4> QED BY <4>1 DEF ExistsBijection
    <3> QED BY <3>1 DEF Bijection, Injection, Orders, IsInjective
  <2> QED BY <2>2, <2>3
<1>4. CASE o.kind \notin {"remember", "delete_all", "confirm_delete_all"}
  <2>1. /\ o.kind # "remember" /\ ~(o.kind = "confirm_delete_all" /\ Live # {} /\ o.seen # Snapshot)
        /\ ~(o.kind = "delete_all" \/ (o.kind = "confirm_delete_all" /\ (Live = {} \/ o.seen = Snapshot)))
    BY <1>4
  <2>2. Plans(o) = {TargetPlan(o)}
    BY <2>1, Zenon DEF Plans
  <2> QED BY <2>2
<1> QED BY <1>1, <1>2, <1>3, <1>4

LEMMA LockUsedStep == SInv /\ DInv /\ LockUsed /\ [Next]_vars => LockUsed'
<1> SUFFICES ASSUME SInv, DInv, LockUsed, [Next]_vars PROVE LockUsed'
  OBVIOUS
<1>1. ASSUME UNCHANGED <<lock, work>> PROVE LockUsed'
  BY <1>1 DEF LockUsed
<1>2. work \in [Procs -> Work] /\ lock \in Procs \cup {None} /\ None \notin Procs
  BY ServiceConstantsOK DEF SInv, ServiceTypeOK
<1>3. ASSUME NEW p \in Procs, TakeLock(p) PROVE LockUsed'
  <2>1. PICK w \in Plans(Current(p)) : work' = [work EXCEPT ![p] = w]
    BY <1>3 DEF TakeLock, Current, OpOf
  <2>2. WellFormed(Current(p))
    <3>1. pending[p] \in Seq(Requests) /\ pending[p] # <<>>
      BY <1>3 DEF SInv, ServiceTypeOK, TakeLock
    <3>2. 1 \in DOMAIN pending[p] /\ Head(pending[p]) = pending[p][1]
      BY <3>1
    <3> QED BY <3>2 DEF SInv, Queued, Current
  <2>3. w.on
    BY <2>1, <2>2, PlansFit DEF SInv
  <2> QED BY <1>2, <1>3, <2>1, <2>3 DEF TakeLock, LockUsed
<1>4. ASSUME NEW p \in Procs, Execute(p) PROVE LockUsed'
  <2>1. UNCHANGED lock /\ work' = [work EXCEPT ![p].todo = Tail(work[p].todo)]
    BY <1>4 DEF Execute
  <2>2. \A q \in Procs : work'[q].on = work[q].on
    BY <1>2, <2>1 DEF Work
  <2> QED BY <1>2, <2>1, <2>2 DEF LockUsed
\* Who ends or dies gives back the lock if it has it, and the others' work goes on.
<1>5. ASSUME NEW p \in Procs, lock' = IF lock = p THEN None ELSE lock, work' = [work EXCEPT ![p] = Idle]
      PROVE  LockUsed'
  BY <1>2, <1>5 DEF LockUsed
<1>6. CASE NextService
  BY <1>1, <1>3, <1>4, <1>5, <1>6 DEF NextService, Worker, Finish, Fault, Return, Crash, Call
<1>7. CASE NextTurn
  <2>1. CASE Forget \/ (\E i \in 1 .. MaxChoices : SelectChoice(i)) \/ Gather \/ NewCommand
    BY <1>1, <2>1, AnswerStepKeeps, GatherKeeps, CommandKeeps DEF service
  <2>2. CASE Timeout \/ EndConfirm \/ Interrupt \/ \E p \in Procs, r \in Requests : Confirm(p, r)
    BY <1>1, <2>2 DEF Timeout, EndConfirm, Interrupt, Confirm, Call, GiveUp, Leave, service
  <2> QED BY <1>7, <2>1, <2>2 DEF NextTurn
<1>8. CASE UNCHANGED vars
  BY <1>1, <1>8 DEF vars, service
<1> QED BY <1>6, <1>7, <1>8 DEF Next

\* The user's lock is never left behind: whoever has it is at work, so that, when operations have
\* been accepted, the guards of some worker's next step hold (mem0_service.py:95).
THEOREM LockComesBack ==
  Spec => [](LockUsed /\ ((\E p \in Procs : pending[p] # <<>>) => \E p \in Procs : CanGoOn(p)))
<1>1. DialogueInit => LockUsed
  BY DEF DialogueInit, ServiceInit, LockUsed
<1>2. SInv /\ LockUsed => ((\E p \in Procs : pending[p] # <<>>) => \E p \in Procs : CanGoOn(p))
  <2> SUFFICES ASSUME SInv, LockUsed, NEW p \in Procs, pending[p] # <<>> PROVE \E q \in Procs : CanGoOn(q)
    OBVIOUS
  <2>1. CASE lock = None
    <3>1. ~work[p].on
      BY <2>1, ServiceConstantsOK DEF SInv, Locked
    <3>2. Plans(Current(p)) # {}
      BY SomePlan DEF SInv
    <3> QED BY <2>1, <3>1, <3>2 DEF CanGoOn
  <2>2. CASE lock # None
    <3>1. lock \in Procs /\ work[lock].on /\ work[lock].todo \in Seq(Statement)
      BY <2>2 DEF SInv, ServiceTypeOK, LockUsed, Work
    <3>2. work[lock].todo # <<>> => Head(work[lock].todo) \in Statement
      BY <3>1
    <3> QED BY <3>1, <3>2 DEF CanGoOn
  <2> QED BY <2>1, <2>2
<1> QED BY <1>1, <1>2, LockUsedStep, Begin, Step, PTL DEF Spec

=============================================================================
