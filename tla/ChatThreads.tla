---------------------------- MODULE ChatThreads -----------------------------
(***************************************************************************)
(* Chat runs on threads: the routes of src/app/api/chats.py and agui.py,   *)
(* authorize_thread of src/app/services/auth.py over the table of owners,  *)
(* thread_guard, and the lists of threads and of daily records that        *)
(* src/app/services/threads.py and chat_records.py derive from the log of  *)
(* checkpoints.  An agent id is the name a client calls the agent by.      *)
(*                                                                         *)
(* A run writes two checkpoints: its input, and what the thread says when  *)
(* it ends.  A call of a subgraph writes checkpoints in a namespace of its *)
(* own: its first is a row that the list of threads reads (step -1), the   *)
(* others are read by nothing that is modelled (chat_records.py:85 skips   *)
(* them, and a thread's last checkpoint is looked up outside namespaces).  *)
(* Message contents are numbers, and runs that stop on an approval are     *)
(* left to VoiceTurns.                                                     *)
(***************************************************************************)
EXTENDS Nothing, Naturals, FiniteSets, Sequences, SequencesExt

CONSTANTS
  Users, Agents, Threads, Runs,
  Trusted,   \* whether a caller may hold the service's secret and name any user
  PageSize,  \* HEAD_PAGE_SIZE
  MaxHeads,  \* MAX_THREAD_HEADS
  MaxRows,   \* MAX_HEAD_ROWS
  Limit,     \* how many threads a client asks for
  RecentDays, \* CHAT_RECORD_DAYS
  MaxDays,   \* bound on the days that pass
  MaxNamespaces \* bound on the namespaces that subgraphs begin

ASSUME ThreadConstantsOK ==
  /\ Trusted \subseteq BOOLEAN /\ None \notin Runs /\ None \notin Users \X Agents
  /\ {PageSize, MaxHeads, MaxRows, Limit, RecentDays, MaxDays, MaxNamespaces} \subseteq Nat \ {0}

VARIABLES
  owners,  \* app_thread_owners
  rows,    \* the checkpoints of the threads themselves, oldest first
  heads,   \* the first checkpoints (step -1) of the threads and of their subgraphs' namespaces, oldest first
  run,     \* what a run knows
  holder,  \* the run that has the thread's guard
  day

threadVars == <<owners, rows, heads, run, holder, day>>

\* "invoke" takes the guard first, "stream" (and AG-UI) proves the ownership first.
RunRoutes == {"invoke", "stream"}

Log(t) == {i \in DOMAIN rows : rows[i].thread = t}
Latest(is) == CHOOSE i \in is : \A j \in is : j =< i
LastRow(t) == Latest(Log(t))

\* What the last of some checkpoints says, if there is one.
Says(is) == IF is = {} THEN <<>> ELSE rows[Latest(is)].messages
Tip(t) == Says(Log(t))

\* There may be a thread from before owners were recorded.
ThreadsInit ==
  /\ owners = [t \in Threads |-> None]
  /\ \/ rows = <<>> /\ heads = <<>>
     \/ \E t \in Threads, u \in Users, a \in Agents :
          /\ rows = <<[thread |-> t, user |-> u, agent |-> a, day |-> 1, messages |-> <<>>],
                     [thread |-> t, user |-> u, agent |-> a, day |-> 1, messages |-> <<0>>]>>
          /\ heads = <<[thread |-> t, user |-> u, agent |-> a]>>
  /\ run = [r \in Runs |-> None]
  /\ holder = [t \in Threads |-> None]
  /\ day = 1

-----------------------------------------------------------------------------
RunAt(r, pc) == run[r] # None /\ run[r].pc = pc
RunGoto(r, pc) == run' = [run EXCEPT ![r].pc = pc]

\* bind_user: a request acts for the user of its token, or for the one a trusted caller names.
RequestRun(r, route, t, u, a, admin) ==
  /\ run[r] = None
  /\ run' = [run EXCEPT ![r] = [pc |-> IF route = "invoke" THEN "guard" ELSE "authorize", route |-> route,
                                thread |-> t, user |-> u, agent |-> a, admin |-> admin,
                                claim |-> None, seen |-> <<>>]]
  /\ UNCHANGED <<owners, rows, heads, holder, day>>

ReleaseThread(r) == holder' = [t \in Threads |-> IF holder[t] = r THEN None ELSE holder[t]]
RefuseRun(r) == RunGoto(r, "refused") /\ ReleaseThread(r)

WhenAuthorized(r) == IF run[r].route = "invoke" THEN "build" ELSE "guard"

\* authorize_thread: a known owner decides; otherwise the user and agent of the thread's last
\* checkpoint, or the caller's, are to be claimed.
Authorize(r) ==
  LET q == run[r]
      t == q.thread
      me == <<q.user, q.agent>>
      known == IF Log(t) = {} THEN None ELSE <<rows[LastRow(t)].user, rows[LastRow(t)].agent>>
  IN /\ RunAt(r, "authorize")
     /\ UNCHANGED <<owners, rows, heads, day>>
     /\ \/ /\ owners[t] = me
           /\ RunGoto(r, WhenAuthorized(r)) /\ UNCHANGED holder
        \/ /\ owners[t] = None /\ (known \in {None, me} \/ q.admin)
           /\ run' = [run EXCEPT ![r].pc = "claim", ![r].claim = IF known = None THEN me ELSE known]
           /\ UNCHANGED holder
        \/ /\ owners[t] # me
           /\ owners[t] = None => known \notin {None, me} /\ ~q.admin
           /\ RefuseRun(r)

ClaimBlindly(r) ==
  LET t == run[r].thread IN
  /\ RunAt(r, "claim")
  /\ owners' = [owners EXCEPT ![t] = IF @ = None THEN run[r].claim ELSE @]
  /\ RunGoto(r, WhenAuthorized(r)) /\ UNCHANGED holder
  /\ UNCHANGED <<rows, heads, day>>

\* VoiceRepository.claim: the first claim stays, and the others compare.
Claim(r) ==
  LET t == run[r].thread IN
  /\ RunAt(r, "claim")
  /\ owners' = [owners EXCEPT ![t] = IF @ = None THEN run[r].claim ELSE @]
  /\ IF owners'[t] = run[r].claim THEN RunGoto(r, WhenAuthorized(r)) /\ UNCHANGED holder ELSE RefuseRun(r)
  /\ UNCHANGED <<rows, heads, day>>

EnterAnyway(r) ==
  /\ RunAt(r, "guard")
  /\ holder' = [holder EXCEPT ![run[r].thread] = r]
  /\ RunGoto(r, IF run[r].route = "invoke" THEN "authorize" ELSE "build")
  /\ UNCHANGED <<owners, rows, heads, day>>

\* thread_guard: whoever comes second is told that the thread is in use.
EnterThread(r) ==
  LET t == run[r].thread IN
  /\ RunAt(r, "guard")
  /\ IF holder[t] = None
     THEN /\ holder' = [holder EXCEPT ![t] = r]
          /\ RunGoto(r, IF run[r].route = "invoke" THEN "authorize" ELSE "build")
     ELSE RefuseRun(r)
  /\ UNCHANGED <<owners, rows, heads, day>>

\* The first checkpoint of a namespace, or of the thread.
HeadRow(r) == [thread |-> run[r].thread, user |-> run[r].user, agent |-> run[r].agent]

Checkpoint(r, messages) ==
  /\ rows' = Append(rows, [thread |-> run[r].thread, user |-> run[r].user, agent |-> run[r].agent,
                           day |-> day, messages |-> messages])
  /\ heads' = IF Log(run[r].thread) = {} THEN Append(heads, HeadRow(r)) ELSE heads

\* build_run_input, and the agent reads what the thread said before.
StartRun(r) ==
  /\ RunAt(r, "build")
  /\ Checkpoint(r, Tip(run[r].thread))
  /\ run' = [run EXCEPT ![r].pc = "run", ![r].seen = Tip(run[r].thread)]
  /\ UNCHANGED <<owners, holder, day>>

\* The agent calls a subgraph, which begins a namespace for the call.
CallSubgraph(r) ==
  /\ RunAt(r, "run") /\ Len(heads) < MaxNamespaces
  /\ heads' = Append(heads, HeadRow(r))
  /\ UNCHANGED <<owners, rows, run, holder, day>>

\* The agent saves the messages before, the delivery notes and the new messages; of a run the
\* model counts one message.
EndRun(r) ==
  /\ RunAt(r, "run")
  /\ Checkpoint(r, Append(run[r].seen, Len(rows)))
  /\ RunGoto(r, "done") /\ ReleaseThread(r)
  /\ UNCHANGED <<owners, day>>

\* The run raises, or its client is gone: the stream ends with an error or not at all.
BreakRun(r) ==
  /\ RunAt(r, "build") \/ RunAt(r, "run")
  /\ RefuseRun(r)
  /\ UNCHANGED <<owners, rows, heads, day>>

Midnight == day < MaxDays /\ day' = day + 1 /\ UNCHANGED <<owners, rows, heads, run, holder>>

ThreadsNext ==
  \/ \E r \in Runs, route \in RunRoutes, t \in Threads, u \in Users, a \in Agents, admin \in Trusted :
       RequestRun(r, route, t, u, a, admin)
  \/ \E r \in Runs : Authorize(r) \/ Claim(r) \/ EnterThread(r) \/ BreakRun(r)
  \/ \E r \in Runs : StartRun(r) \/ CallSubgraph(r) \/ EndRun(r)
  \/ Midnight

ThreadsSpec == ThreadsInit /\ [][ThreadsNext]_threadVars

-----------------------------------------------------------------------------
(* What a user is shown. *)

\* _list_thread_heads: the user's first checkpoints, of subgraphs too, newest first and page by page.
Heads(u, a) == {i \in DOMAIN heads : heads[i].user = u /\ heads[i].agent = a}
ThreadsOf(hs) == {heads[i].thread : i \in hs}
Newest(hs, n) == {i \in hs : Cardinality({j \in hs : j > i}) < n}

\* A page short of rows is the last; rows are counted as they are read, threads once.
EnoughHeads(hs, n) ==
  \/ n > Cardinality(hs)
  \/ n >= MaxRows
  \/ Cardinality(ThreadsOf(Newest(hs, n))) >= MaxHeads

OnePage(hs) == PageSize

Scanned(hs) == PageSize * (CHOOSE k \in 1 .. Cardinality(hs) + 1 :
                             EnoughHeads(hs, k * PageSize) /\ \A j \in 1 .. k - 1 : ~EnoughHeads(hs, j * PageSize))

ByUpdate(ts) == CHOOSE s \in [1 .. Cardinality(ts) -> ts] :
                  \A i, j \in DOMAIN s : i < j => LastRow(s[i]) > LastRow(s[j])

\* list_user_threads: those threads, the one updated last in front.
ThreadList(u, a) ==
  LET hs == Heads(u, a)
      sorted == ByUpdate(ThreadsOf(Newest(hs, Scanned(hs))))
  IN SubSeq(sorted, 1, IF Len(sorted) < Limit THEN Len(sorted) ELSE Limit)

\* What the user's checkpoints are filtered by.
RowsWith(u, a, t) == {i \in Log(t) : rows[i].user = u /\ rows[i].agent = a}

\* _checkpoint_rows of one day and thread.
RowsOf(u, a, d, t) == {i \in RowsWith(u, a, t) : rows[i].day = d}

BeforeLatest(u, a, d, t) == Says({i \in RowsWith(u, a, t) : i < LastRow(t)})

\* _messages_before the day's earliest checkpoint.
MessagesBefore(u, a, d, t) == Says({i \in RowsWith(u, a, t) : rows[i].day < d})

\* _messages_added: what the day's latest checkpoint says after all it shares with those before.
MessagesAdded(u, a, d, t) ==
  LET before == MessagesBefore(u, a, d, t)
      latest == Says(RowsOf(u, a, d, t))
  IN SubSeq(latest, Len(LongestCommonPrefix({before, latest})) + 1, Len(latest))

\* The threads in which anything happened on a day, as list_chat_record_days counts them.
ActiveThreads(u, a, d) == {t \in Threads : RowsOf(u, a, d, t) # {}}

\* list_chat_record_days: the days that are listed.
RecordDays(u, a) == {d \in day - RecentDays + 1 .. day : ActiveThreads(u, a, d) # {}}

\* get_chat_record_detail: the conversations of a day.
DayDetail(u, a, d) == [t \in ActiveThreads(u, a, d) |-> MessagesAdded(u, a, d, t)]

-----------------------------------------------------------------------------
(* Properties. *)

\* Whoever races for a new thread, its checkpoints and its owner name one user and one agent
\* ("Thread user_id cannot change", auth.py:79).
ThreadUserFixed ==
  \A i \in DOMAIN rows : LET me == <<rows[i].user, rows[i].agent>> IN
    /\ \A j \in 1 .. i : rows[j].thread = rows[i].thread => <<rows[j].user, rows[j].agent>> = me
    /\ owners[rows[i].thread] \in {None, me}

\* Runs of one thread that overlap lose no message: what it says only grows (agent_runner.py:47).
HistoryGrows == [][\A t \in Threads : IsPrefix(Tip(t), Tip(t)')]_threadVars

\* However recently a thread was updated, it is not found once the rows, or the threads, that the
\* list reads at most all came after the thread's own first checkpoints.
Overlooked(hs, t) ==
  \A i \in hs : heads[i].thread = t =>
    LET newer == {j \in hs : j > i}
    IN Cardinality(newer) >= MaxRows \/ Cardinality(ThreadsOf(newer)) >= MaxHeads

\* The list names threads of the user, once each and the one updated last in front.  It leaves out
\* none but those that its bounds overlook, and those updated before all of a full list
\* (threads.py:72, and the bounds of tests/api/test_threads.py:189).
NewestListed ==
  \A u \in Users, a \in Agents :
    LET hs == Heads(u, a)
        list == ThreadList(u, a)
    IN /\ ToSet(list) \subseteq ThreadsOf(hs)
       /\ \A i, j \in DOMAIN list : i < j => LastRow(list[i]) > LastRow(list[j])
       /\ \A t \in ThreadsOf(hs) \ ToSet(list) :
            \/ Overlooked(hs, t)
            \/ Len(list) = Limit /\ \A i \in DOMAIN list : LastRow(list[i]) > LastRow(t)

Chronological(ds) == CHOOSE s \in [1 .. Cardinality(ds) -> ds] : \A i, j \in DOMAIN s : i < j => s[i] < s[j]

\* The details of the days that are listed, one after the other, are all that the thread says after
\* what it said before them: each message is shown on one day and none is lost between two
\* (chat_records.py:108, 172).
DaysMakeTheThread ==
  \A u \in Users, a \in Agents, t \in Threads :
    LET days == Chronological({d \in RecordDays(u, a) : t \in ActiveThreads(u, a, d)})
        shown == FlattenSeq([i \in DOMAIN days |-> DayDetail(u, a, days[i])[t]])
    IN Log(t) # {} /\ rows[LastRow(t)].user = u /\ rows[LastRow(t)].agent = a =>
         Tip(t) = MessagesBefore(u, a, day - RecentDays + 1, t) \o shown

=============================================================================
