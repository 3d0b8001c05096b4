--------------------------- MODULE MemoryService ---------------------------
(***************************************************************************)
(* The long-term memories of one user: Mem0Service                         *)
(* (src/app/services/memory/mem0_service.py) over PostgresHistory          *)
(* (src/app/repositories/mem0_history.py).  Each server process runs the   *)
(* operations one after the other on a single worker thread, in the order  *)
(* in which they were called; a worker holds the user's advisory lock from *)
(* before it checks what an operation is about until its last statement,   *)
(* so that the workers of all processes take turns.  A caller that gives   *)
(* up after a timeout, or is cancelled, leaves its operation with the      *)
(* worker.  The statements of an operation commit one by one: a failure    *)
(* or a crash leaves what was done before it.                              *)
(*                                                                         *)
(* A memory has a text and the time of its last change, of which the model *)
(* keeps the order only.  Reads change nothing; MemoryDialogue makes them. *)
(* The context rows that clear_context deletes are left out: chat turns    *)
(* give the extraction a context of their own.                             *)
(***************************************************************************)
EXTENDS Naturals, FiniteSets, Sequences, SequencesExt

CONSTANTS
  Procs,      \* server processes
  Requests,   \* calls that change memories
  Memories,   \* ids of memories
  Foreign,    \* those of another user
  Texts,      \* what a memory may say
  None,
  MaxPending, \* operations a process accepts before it is busy
  MaxFaults   \* statements that fail, and crashes

ASSUME ServiceConstantsOK ==
  /\ IsFiniteSet(Memories) /\ Foreign \subseteq Memories
  /\ None \notin Procs \cup Requests \cup Texts
  /\ MaxPending \in Nat \ {0} /\ MaxFaults \in Nat

VARIABLES
  store,    \* the vector rows: what each memory says and when it was changed
  history,  \* the history rows of a memory: none, only rows that name no owner, or owned
  clock,    \* the time of the next change
  lock,     \* the process whose worker holds the user's advisory lock
  pending,  \* Mem0Service.pending: the futures of a process; the first one runs
  work,     \* where the worker of a process stands
  call,     \* the operations and what their callers know
  faults,
  base      \* history variable: the store when the lock was taken

service == <<store, history, clock, lock, pending, work, call, faults, base>>

Mine == Memories \ Foreign
Record == [text : Texts, at : Nat]
Shown == [Memories -> Record \cup {None}]     \* a copy of some memories
NothingShown == [m \in Memories |-> None]

\* apply_memory_mutation's operations are "confirm_..."; the others come over HTTP or, for
\* "remember", from the end of a chat turn.
Kinds == {"remember", "update", "delete", "delete_all", "confirm_update", "confirm_delete",
          "confirm_delete_many", "confirm_delete_all"}
Operation == [kind : Kinds, ids : Seq(Memories), text : Texts \cup {None}, seen : Shown]
Op(kind, ids, text, seen) == [kind |-> kind, ids |-> ids, text |-> text, seen |-> seen]

Results == {"waiting", "timeout", "unheard", "lost", "failed", "not_found", "conflict", "unchanged",
            "updated", "deleted", "cleared", "saved"}
CallRecord == [op : Operation \cup {None}, result : Results]
Statement == [do : {"erase", "write", "insert", "log"}, id : Mine]
Work == [on : BOOLEAN, todo : Seq(Statement), result : Results]
Idle == [on |-> FALSE, todo |-> <<>>, result |-> "waiting"]

ASSUME NoneIsNothing == None \notin Record /\ None \notin CallRecord

ServiceTypeOK ==
  /\ store \in Shown
  /\ history \in [Memories -> {"none", "ownerless", "owned"}]
  /\ clock \in Nat
  /\ lock \in Procs \cup {None}
  /\ pending \in [Procs -> Seq(Requests)] /\ \A p \in Procs : Len(pending[p]) <= MaxPending
  /\ work \in [Procs -> Work]
  /\ call \in [Requests -> CallRecord \cup {None}]
  /\ faults \in 0 .. MaxFaults
  /\ base \in Shown

\* Some rows are from before histories named their owner.
ServiceInit ==
  /\ store \in [Memories -> {None} \cup [text : Texts, at : {0}]]
  /\ \A m \in Foreign : store[m] # None
  /\ history \in [Memories -> {"none", "ownerless", "owned"}]
  /\ \A m \in Memories : (store[m] = None) = (history[m] = "none")
  /\ clock = 1
  /\ lock = None
  /\ pending = [p \in Procs |-> <<>>]
  /\ work = [p \in Procs |-> Idle]
  /\ call = [r \in Requests |-> None]
  /\ faults = 0
  /\ base = NothingShown

-----------------------------------------------------------------------------
(* What an operation does, decided under the lock. *)

Owned(m) == m \in Mine /\ store[m] # None
Live == {m \in Mine : store[m] # None}
Snapshot == [m \in Memories |-> IF m \in Live THEN store[m] ELSE None]

S(do, m) == [do |-> do, id |-> m]
Update(m) == <<S("write", m), S("log", m)>>
DeleteEach(ms) ==
  [k \in 1 .. 2 * Len(ms) |-> S(IF k % 2 = 1 THEN "erase" ELSE "log", ms[(k + 1) \div 2])]
Orders == {ms \in [1 .. Cardinality(Live) -> Live] : IsInjective(ms)}

\* The targets that are not the user's, or not as they were shown.
Refused(o) ==
  {i \in DOMAIN o.ids :
     \/ ~Owned(o.ids[i])
     \/ /\ o.kind \in {"confirm_update", "confirm_delete", "confirm_delete_many"}
        /\ store[o.ids[i]] # o.seen[o.ids[i]]}

Plan(todo, result) == [on |-> TRUE, todo |-> todo, result |-> result]

\* The first of them refuses the whole operation.
Refusal(o) == Plan(<<>>, IF Owned(o.ids[Min(Refused(o))]) THEN "conflict" ELSE "not_found")

Unchanged(o) ==
  o.kind \in {"update", "confirm_update"} /\ Owned(o.ids[1]) /\ store[o.ids[1]].text = o.text

\* _update, _delete, and the targets of _apply_mutation.
TargetPlan(o) ==
  IF Unchanged(o) THEN Plan(<<>>, "unchanged")
  ELSE IF Refused(o) # {} THEN Refusal(o)
  ELSE IF o.kind \in {"update", "confirm_update"} THEN Plan(Update(o.ids[1]), "updated")
  ELSE Plan(DeleteEach(o.ids), "deleted")

\* _remember, _delete_all, and _apply_mutation.
Plans(o) ==
  CASE o.kind = "remember" ->
         {Plan(<<>>, "saved")} \cup {Plan(<<S("insert", m), S("log", m)>>, "saved") : m \in Mine \ Live}
    [] o.kind = "confirm_delete_all" /\ Live # {} /\ o.seen # Snapshot -> {Plan(<<>>, "conflict")}
    [] o.kind = "delete_all" \/ (o.kind = "confirm_delete_all" /\ (Live = {} \/ o.seen = Snapshot)) ->
         {Plan(DeleteEach(ms), "cleared") : ms \in Orders}
    [] OTHER -> {TargetPlan(o)}

-----------------------------------------------------------------------------
(* _call and the worker. *)

\* A caller hands an operation to the executor of its process, unless that is busy.  Of the
\* callers over HTTP the model keeps no answer.
Call(p, r, o, result) ==
  /\ call[r] = None
  /\ Len(pending[p]) < MaxPending
  /\ call' = [call EXCEPT ![r] = [op |-> o, result |-> result]]
  /\ pending' = [pending EXCEPT ![p] = Append(@, r)]
  /\ UNCHANGED <<store, history, clock, lock, work, faults, base>>

Waits(r) == call[r] # None /\ call[r].result = "waiting"

\* The caller's timeout: the future stays with the worker.
GiveUp(r) ==
  /\ Waits(r)
  /\ call' = [call EXCEPT ![r].result = "timeout"]
  /\ UNCHANGED <<store, history, clock, lock, pending, work, faults, base>>

\* The caller has its answer, or is gone.
Leave(r) ==
  /\ call' = [call EXCEPT ![r].result = "unheard"]
  /\ UNCHANGED <<store, history, clock, lock, pending, work, faults, base>>

TakeLockAnyway(p) ==
  /\ pending[p] # <<>> /\ ~work[p].on
  /\ lock' = p
  /\ \E w \in Plans(call[Head(pending[p])].op) : work' = [work EXCEPT ![p] = w]
  /\ base' = store
  /\ UNCHANGED <<store, history, clock, pending, call, faults>>

\* _run_scoped: the worker takes the user's lock and the operation looks at the rows.
TakeLock(p) ==
  /\ pending[p] # <<>> /\ ~work[p].on
  /\ lock = None
  /\ lock' = p
  /\ \E w \in Plans(call[Head(pending[p])].op) : work' = [work EXCEPT ![p] = w]
  /\ base' = store
  /\ UNCHANGED <<store, history, clock, pending, call, faults>>

\* One statement.  Before a row is written or deleted, bind_history_owner gives its history an
\* owner; the event of a row that is gone has its owner from history_scope.
Unbound(h) == h

Bound(h) == IF h = "ownerless" THEN "owned" ELSE h

Execute(p) ==
  LET s == Head(work[p].todo)
      o == call[Head(pending[p])].op
  IN /\ work[p].todo # <<>>
     /\ \/ /\ s.do = "erase"
           /\ store' = [store EXCEPT ![s.id] = None]
           /\ history' = [history EXCEPT ![s.id] = Bound(@)]
           /\ UNCHANGED clock
        \/ /\ s.do \in {"write", "insert"}
           /\ store' = [store EXCEPT ![s.id] = [text |-> o.text, at |-> clock]]
           /\ history' = IF s.do = "write" THEN [history EXCEPT ![s.id] = Bound(@)] ELSE history
           /\ clock' = clock + 1
        \/ /\ s.do = "log"
           /\ history' = [history EXCEPT ![s.id] = "owned"]
           /\ UNCHANGED <<store, clock>>
     /\ work' = [work EXCEPT ![p].todo = Tail(@)]
     /\ UNCHANGED <<lock, pending, call, faults, base>>

ReturnLocked(p, result) ==
  LET r == Head(pending[p]) IN
  /\ pending' = [pending EXCEPT ![p] = Tail(@)]
  /\ work' = [work EXCEPT ![p] = Idle]
  /\ call' = [call EXCEPT ![r] = [op |-> None, result |-> IF Waits(r) THEN result ELSE "unheard"]]
  /\ UNCHANGED <<store, history, clock, lock, base>>

\* The lock is given back and the future is done: its callback frees the place in pending.
Return(p, result) ==
  LET r == Head(pending[p]) IN
  /\ lock' = IF lock = p THEN None ELSE lock
  /\ pending' = [pending EXCEPT ![p] = Tail(@)]
  /\ work' = [work EXCEPT ![p] = Idle]
  /\ call' = [call EXCEPT ![r] = [op |-> None, result |-> IF Waits(r) THEN result ELSE "unheard"]]
  /\ base' = IF lock = p THEN NothingShown ELSE base
  /\ UNCHANGED <<store, history, clock>>

Finish(p) == /\ work[p].on /\ work[p].todo = <<>>
             /\ Return(p, work[p].result) /\ UNCHANGED faults

\* A statement fails, or the wait for the lock runs into the statement timeout.
Fault(p) ==
  /\ pending[p] # <<>> /\ faults < MaxFaults
  /\ faults' = faults + 1
  /\ \/ work[p].todo # <<>>
     \/ ~work[p].on /\ lock # None
  /\ Return(p, "failed")

\* The process stops: PostgreSQL frees its lock, and its queue is lost.
Crash(p) ==
  /\ faults < MaxFaults /\ pending[p] # <<>>
  /\ faults' = faults + 1
  /\ lock' = IF lock = p THEN None ELSE lock
  /\ work' = [work EXCEPT ![p] = Idle]
  /\ pending' = [pending EXCEPT ![p] = <<>>]
  /\ call' = [r \in Requests |->
                IF r \in Range(pending[p])
                THEN [op |-> None, result |-> IF Waits(r) THEN "lost" ELSE "unheard"] ELSE call[r]]
  /\ base' = IF lock = p THEN NothingShown ELSE base
  /\ UNCHANGED <<store, history, clock>>

Worker(p) == TakeLock(p) \/ Execute(p) \/ Finish(p)

-----------------------------------------------------------------------------
(* The routes of src/app/api/memories.py, and remember() at the end of a chat turn. *)

Routes == {Op("remember", <<>>, t, NothingShown) : t \in Texts}
          \cup {Op("update", <<m>>, t, NothingShown) : m \in Memories, t \in Texts}
          \cup {Op("delete", <<m>>, None, NothingShown) : m \in Memories}
          \cup {Op("delete_all", <<>>, None, NothingShown)}

-----------------------------------------------------------------------------
(* Properties. *)

\* When an operation ends, what it has done to the memories as they were when it took the lock is
\* all of what its result says and nothing else; a refused one ("nothing was executed", says the
\* reply) has done nothing, even to the first of several targets (mem0_service.py:343).
WholeOrRefused ==
  \A p \in Procs : work[p].on /\ work[p].todo = <<>> =>
    LET o == call[Head(pending[p])].op
        res == work[p].result
        touched == {m \in Memories : store[m] # base[m]}
    IN CASE res \in {"conflict", "not_found", "unchanged"} -> touched = {}
         [] res = "updated" -> /\ touched = {o.ids[1]}
                               /\ store[o.ids[1]].text = o.text
         [] res = "deleted" -> touched = Range(o.ids) /\ \A m \in touched : store[m] = None
         [] res = "cleared" -> touched \subseteq Mine /\ Live = {}
         [] OTHER -> \A m \in touched : base[m] = None

\* However an operation was cut short, the rows left of a memory that is gone say whose it was, so
\* that the user can still read what became of it (mem0_history.py:124).
HistoryKeepsOwner == \A m \in Memories : store[m] = None => history[m] # "ownerless"

\* An operation that was accepted is never stuck behind a lock that nobody gives back, so that it
\* ends and frees its place, whatever became of its caller (mem0_service.py:95).
NeverStuck == (\E p \in Procs : pending[p] # <<>>) => \E p \in Procs : ENABLED Worker(p)

=============================================================================
