----------------------------- MODULE VideoTasks -----------------------------
(***************************************************************************)
(* The video tasks of src/app/services/video/service.py over the table of  *)
(* src/app/repositories/video.py: requests of users (create, edit, query,  *)
(* update_metadata, delete) run concurrently with the background workers   *)
(* (run, sync_once), in any number of server processes.  They share the    *)
(* rows of video_generation_tasks and PostgreSQL's advisory locks, which   *)
(* are only ever tried, never waited for.  One step is one statement on    *)
(* the database or one call of the provider or of the storage.             *)
(*                                                                         *)
(* A URL or an object key is only present or absent, a task_id is the      *)
(* ordinal of the provider call that returned it, and error_code, which no *)
(* condition reads, is left out.  A key stands for a user and one of the   *)
(* user's idempotency keys: every statement also filters on the user.      *)
(***************************************************************************)
EXTENDS Naturals, FiniteSets

CONSTANTS
  Rows,         \* identities the table's rows can get
  Legacy,       \* rows an earlier release may have stored, without title and cover
  Clients,      \* requests being served; each serves one request after another
  Workers,      \* background workers, one in each server process
  Keys,         \* (user, idempotency key)
  Hashes,       \* digests of the normalised request
  Titles,       \* titles a user gives or derive_video_title extracts
  None,         \* NULL, no row, no holder
  Batch,        \* LIMIT of due(): 10 in the code
  MaxRequests,  \* bound on the requests users make
  MaxFailures   \* bound on the operations that die before they end

ASSUME ConstantsOK ==
  /\ Legacy \subseteq Rows /\ Titles # {}
  /\ Clients \cap Workers = {}
  /\ None \notin Clients \cup Workers \cup Rows \cup Titles
  /\ Batch \in Nat \ {0} /\ MaxRequests \in Nat /\ MaxFailures \in Nat

Procs == Clients \cup Workers

VideoStatus == {"SUBMITTING", "SUBMISSION_UNKNOWN", "PENDING", "RUNNING",
                "SUCCEEDED", "FAILED", "CANCELED", "UNKNOWN"}
VideoStorageStatus == {"NOT_READY", "PENDING", "STORED", "FAILED"}
\* cover_url: NULL, given with the creation, the frame cut from the video, set by the user later.
Covers == {"none", "given", "frame", "user"}

VideoRecord ==
  [live    : BOOLEAN,                \* is_delete = 0
   key     : Keys,
   hash    : Hashes,
   title   : Titles \cup {None},
   cover   : Covers,
   coverKey: BOOLEAN,                \* qiniu_cover_object_key IS NOT NULL
   task    : Nat,                    \* task_id, 0 for NULL
   status  : VideoStatus,
   storage : VideoStorageStatus,
   aliyun  : BOOLEAN,                \* aliyun_video_url IS NOT NULL
   archived: BOOLEAN]                \* qiniu_video_url and qiniu_object_key, always set together

ASSUME NoneIsNoRecord == None \notin VideoRecord

CreateRequest == [key: Keys, hash: Hashes, title: Titles, cover: {"none", "given"}]
MetadataUpdate == {m \in [title: Titles \cup {None}, cover: {"none", "user"}] :
                     m.title # None \/ m.cover # "none"}

\* Where a process stands: about to run a statement or a call of that name.
Steps == {"idle", "reserve", "acquire", "submit", "query_lock", "load", "query", "archive",
          "cover", "save_submitted", "save_queried", "save_archived", "save_last",
          "metadata_lock", "metadata", "metadata_write", "delete_lock", "delete",
          "off", "lead", "due", "batch"}

VARIABLES
  row,       \* the table: row[r] is None until r is inserted
  due,       \* the rows whose next_poll_time has passed
  before,    \* <<r, s>>: next_poll_time of r is earlier than that of s
  lock,      \* holder of the advisory lock video-task:<id>
  leader,    \* holder of video-worker
  scheduler, \* holder of video-scheduler
  pc,        \* what each process does next
  rec,       \* the row it works on
  loc,       \* its VideoRecord in memory
  arg,       \* the body of the request it serves
  todo,      \* the rest of a worker's batch
  calls,     \* calls[r]: how often provider.create was called for row r
  requests,  \* requests users may still make
  failures   \* operations that may still die

vars == <<row, due, before, lock, leader, scheduler, pc, rec, loc, arg, todo,
          calls, requests, failures>>
table == <<row, due, before>>
worker == <<leader, scheduler, todo>>
bounds == <<requests, failures>>

TypeOK ==
  /\ row \in [Rows -> VideoRecord \cup {None}]
  /\ due \subseteq Rows
  /\ before \subseteq Rows \X Rows
  /\ lock \in [Rows -> Procs \cup {None}]
  /\ leader \in Workers \cup {None}
  /\ scheduler \in Workers \cup {None}
  /\ pc \in [Procs -> Steps]
  /\ rec \in [Procs -> Rows \cup {None}]
  /\ loc \in [Procs -> VideoRecord \cup {None}]
  /\ arg \in [Procs -> CreateRequest \cup MetadataUpdate \cup {None}]
  /\ todo \in [Workers -> SUBSET Rows]
  /\ calls \in [Rows -> Nat]
  /\ requests \in 0..MaxRequests
  /\ failures \in 0..MaxFailures

Exists(r) == row[r] # None
Live(r) == Exists(r) /\ row[r].live

-----------------------------------------------------------------------------
\* The table before this release: some tasks were archived with neither title nor cover.
LegacyRecord(k, h) ==
  [live |-> TRUE, key |-> k, hash |-> h, title |-> None, cover |-> "none", coverKey |-> FALSE,
   task |-> 1, status |-> "SUCCEEDED", storage |-> "STORED", aliyun |-> TRUE, archived |-> TRUE]

Init ==
  /\ \E old \in SUBSET Legacy, k \in Keys, h \in Hashes :
       /\ row = [r \in Rows |-> IF r \in old THEN LegacyRecord(k, h) ELSE None]
       /\ due = old
       /\ calls = [r \in Rows |-> IF r \in old THEN 1 ELSE 0]
  /\ before = {}
  /\ lock = [r \in Rows |-> None]
  /\ leader = None
  /\ scheduler = None
  /\ pc = [p \in Procs |-> IF p \in Workers THEN "off" ELSE "idle"]
  /\ rec = [p \in Procs |-> None]
  /\ loc = [p \in Procs |-> None]
  /\ arg = [p \in Procs |-> None]
  /\ todo = [w \in Workers |-> {}]
  /\ requests = MaxRequests
  /\ failures = 0

-----------------------------------------------------------------------------
(* Control of one process. *)

Goto(p, step) == pc' = [pc EXCEPT ![p] = step]

\* Mutation: guard() unlocks on exit whether it had acquired the lock or not.
FinishUnlocksAnyway(p) ==
  /\ lock' = [r \in Rows |-> IF r = rec[p] THEN None ELSE lock[r]]
  /\ pc' = [pc EXCEPT ![p] = IF p \in Workers THEN "batch" ELSE "idle"]
  /\ rec' = [rec EXCEPT ![p] = None]
  /\ loc' = [loc EXCEPT ![p] = None]
  /\ arg' = [arg EXCEPT ![p] = None]

\* The operation on a row ends, by returning or by raising: `async with guard` lets go of the
\* row's lock and nothing of the copy survives; a worker goes on with its batch.
Finish(p) ==
  /\ lock' = [r \in Rows |-> IF lock[r] = p THEN None ELSE lock[r]]
  /\ pc' = [pc EXCEPT ![p] = IF p \in Workers THEN "batch" ELSE "idle"]
  /\ rec' = [rec EXCEPT ![p] = None]
  /\ loc' = [loc EXCEPT ![p] = None]
  /\ arg' = [arg EXCEPT ![p] = None]

\* The coroutine computes without awaiting and stops at the next statement or call.
Resume(p, s) ==
  IF s.pc = "return"
  THEN Finish(p)
  ELSE /\ pc' = [pc EXCEPT ![p] = s.pc]
       /\ loc' = [loc EXCEPT ![p] = s.loc]
       /\ UNCHANGED <<lock, rec, arg>>

\* A user's request reaches the service.
Begin(p) ==
  /\ pc[p] = "idle"
  /\ requests > 0
  /\ requests' = requests - 1
  /\ UNCHANGED <<table, lock, worker, loc, calls, failures>>

-----------------------------------------------------------------------------
(* What VideoService computes on a record between two awaits. *)

At(l, step) == [loc |-> l, pc |-> step]
Postponed(r) == {x \in before : x[1] # r /\ x[2] # r}
                  \cup {<<s, r>> : s \in {t \in Rows : Exists(t)} \ {r}}

\* Mutation: _apply copies the task's status into storage_status.
ApplyToStorage(l, t, a) ==
  [l EXCEPT !.task = t, !.status = a.status, !.aliyun = @ \/ a.url, !.storage = a.status]

\* _apply: the provider's answer a about task t.
Apply(l, t, a) ==
  [l EXCEPT !.task = t,
            !.status = a.status,
            !.aliyun = @ \/ a.url,
            !.storage = IF a.status = "SUCCEEDED" THEN "PENDING" ELSE @]

\* Mutation: _complete_assets reports STORED before the cover is archived.
AfterArchiveEarly(l) ==
  IF ~l.coverKey \/ l.cover = "none"
  THEN At([l EXCEPT !.storage = "STORED", !.cover = "none"], "save_archived")
  ELSE At([l EXCEPT !.storage = "STORED"], "save_last")

\* _complete_assets from the point where the video is archived.
AfterArchive(l) ==
  IF ~l.coverKey \/ l.cover = "none"
  THEN At([l EXCEPT !.storage = "PENDING", !.cover = "none"], "save_archived")
  ELSE At([l EXCEPT !.storage = "STORED"], "save_last")

\* derive_video_title: the title cut from the row's own description.
DerivedTitle == CHOOSE t \in Titles : TRUE

\* _complete_assets up to its first await.
CompleteAssets(l) ==
  LET titled == IF l.title = None THEN [l EXCEPT !.title = DerivedTitle] ELSE l
  IN IF l.archived THEN AfterArchive(titled)
     ELSE At(titled, IF l.aliyun THEN "archive" ELSE "save_last")

\* A record with nothing left to fetch: STORED with title, cover and the cover's object key.
Complete(l) == l.storage = "STORED" /\ l.title # None /\ l.cover # "none" /\ l.coverKey

\* Mutation: _refresh sends a submission without an answer again.
RefreshResubmits(l) ==
  IF l.status = "SUBMITTING" THEN At(l, "submit")
  ELSE IF l.status = "SUCCEEDED" /\ (l.aliyun \/ l.archived) /\ ~Complete(l) THEN CompleteAssets(l)
  ELSE IF l.status \in {"PENDING", "RUNNING", "SUCCEEDED"} /\ ~Complete(l) THEN At(l, "query")
  ELSE At(l, "return")

\* _refresh up to its first await.
Refresh(l) ==
  IF Complete(l) THEN At(l, "return")
  ELSE IF l.status = "SUBMITTING"
       THEN At([l EXCEPT !.status = "SUBMISSION_UNKNOWN"], "save_last")
  ELSE IF l.status \notin {"PENDING", "RUNNING", "SUCCEEDED"} \/ l.task = 0
       THEN At(l, "return")
  ELSE IF l.status = "SUCCEEDED" /\ (l.aliyun \/ l.archived)
       THEN CompleteAssets(l)
  ELSE At(l, "query")

\* What the provider can answer about a task last seen in the given status: a task moves forward,
\* and is UNKNOWN once it is a day old.  Only a SUCCEEDED task has a URL, which may be missing.
Answers(last) ==
  LET Later == CASE last = "RUNNING" -> {"RUNNING", "SUCCEEDED", "FAILED", "CANCELED", "UNKNOWN"}
                 [] last = "SUCCEEDED" -> {"SUCCEEDED", "UNKNOWN"}
                 [] OTHER -> {"PENDING", "RUNNING", "SUCCEEDED", "FAILED", "CANCELED", "UNKNOWN"}
  IN {a \in [status: Later, url: BOOLEAN] : a.url => a.status = "SUCCEEDED"}

-----------------------------------------------------------------------------
(* create, edit and _submit. *)

\* create() goes straight to _submit.
Create(p, a) ==
  /\ Begin(p)
  /\ Goto(p, "reserve")
  /\ arg' = [arg EXCEPT ![p] = a]
  /\ UNCHANGED rec

\* edit() reads the source first and refuses one that is not generated and archived.
Edit(p, source, a) ==
  /\ Live(source)
  /\ row[source].status = "SUCCEEDED" /\ row[source].storage = "STORED" /\ row[source].archived
  /\ Create(p, a)

NewRecord(a) ==
  [live |-> TRUE, key |-> a.key, hash |-> a.hash, title |-> a.title, cover |-> a.cover,
   coverKey |-> FALSE, task |-> 0, status |-> "SUBMITTING", storage |-> "NOT_READY",
   aliyun |-> FALSE, archived |-> FALSE]

Taken(key) == {r \in Rows : Live(r) /\ row[r].key = key}

\* The INSERT of reserve() takes the key.
ReserveNew(p) ==
  /\ pc[p] = "reserve"
  /\ Taken(arg[p].key) = {}
  /\ \E r \in Rows :
       /\ ~Exists(r)
       /\ row' = [row EXCEPT ![r] = NewRecord(arg[p])]
       /\ before' = Postponed(r)
       /\ rec' = [rec EXCEPT ![p] = r]
       /\ loc' = [loc EXCEPT ![p] = NewRecord(arg[p])]
  /\ Goto(p, "acquire")
  /\ UNCHANGED <<due, lock, worker, arg, calls, bounds>>

\* Mutation: reserve() reports the row it found as created.
ReserveTakenAsNew(p) ==
  /\ pc[p] = "reserve"
  /\ \E r \in Taken(arg[p].key) :
       /\ rec' = [rec EXCEPT ![p] = r]
       /\ loc' = [loc EXCEPT ![p] = row[r]]
  /\ Goto(p, "acquire")
  /\ UNCHANGED <<table, lock, worker, arg, calls, bounds>>

\* ON CONFLICT DO NOTHING: the second SELECT only chooses the answer, the row, a key conflict
\* when the hash differs, or an error when the row is gone.  The request ends.
ReserveTaken(p) ==
  /\ pc[p] = "reserve"
  /\ Taken(arg[p].key) # {}
  /\ Finish(p)
  /\ UNCHANGED <<table, worker, calls, bounds>>

\* pg_try_advisory_lock of the row; a request that finds it taken ends with VideoBusyError.
Locked == [acquire |-> "submit", query_lock |-> "load",
           metadata_lock |-> "metadata", delete_lock |-> "delete"]

TryLock(p) ==
  /\ pc[p] \in DOMAIN Locked
  /\ \/ /\ lock[rec[p]] = None
        /\ lock' = [lock EXCEPT ![rec[p]] = p]
        /\ Goto(p, Locked[pc[p]])
        /\ UNCHANGED <<rec, loc, arg>>
     \/ /\ lock[rec[p]] # None
        /\ Finish(p)
  /\ UNCHANGED <<table, worker, calls, bounds>>

\* What comes back of a POST to the provider: nothing, an answer that does or does not make sense,
\* 5xx or 408, or another error.
Responses == {"none", "answer", "unreadable", "server_error", "refusal"}

\* _request: the task may or may not exist.
Uncertain(response) == response \in {"none", "unreadable", "server_error"}

\* provider.create and what _submit makes of its outcome.
SubmitTask(p) ==
  /\ pc[p] = "submit"
  /\ calls' = [calls EXCEPT ![rec[p]] = @ + 1]
  /\ \E response \in Responses :
       \/ /\ response = "answer"
          /\ \E a \in Answers("PENDING") :
               loc' = [loc EXCEPT ![p] = Apply(loc[p], calls[rec[p]] + 1, a)]
       \/ /\ response # "answer"
          /\ loc' = [loc EXCEPT ![p].status =
                       IF Uncertain(response) THEN "SUBMISSION_UNKNOWN" ELSE "FAILED"]
  /\ Goto(p, "save_submitted")
  /\ UNCHANGED <<table, lock, worker, rec, arg, bounds>>

-----------------------------------------------------------------------------
(* query, and the refresh it shares with create and the workers. *)

\* query() looks the row up before it tries the lock.
Query(p, r) ==
  /\ Live(r)
  /\ pc[p] = "idle" /\ requests > 0
  /\ requests' = requests - 1
  /\ Goto(p, "query_lock")
  /\ rec' = [rec EXCEPT ![p] = r]
  /\ loc' = [loc EXCEPT ![p] = row[r]]
  /\ UNCHANGED <<table, lock, worker, arg, calls, failures>>

\* Mutation: query() refreshes the copy it read before it had the lock.
LoadFirstCopy(p) ==
  /\ pc[p] = "load"
  /\ LET l == IF loc[p] = None THEN row[rec[p]] ELSE loc[p]
     IN IF Live(rec[p]) THEN Resume(p, Refresh(l)) ELSE Finish(p)
  /\ UNCHANGED <<table, worker, calls, bounds>>

\* Under the lock the row is read again, and _refresh runs up to its first await.
Load(p) ==
  /\ pc[p] = "load"
  /\ IF Live(rec[p]) THEN Resume(p, Refresh(row[rec[p]])) ELSE Finish(p)
  /\ UNCHANGED <<table, worker, calls, bounds>>

\* provider.query; on an error only error_code is saved.
QueryTask(p) ==
  /\ pc[p] = "query"
  /\ \/ /\ Goto(p, "save_last")
        /\ UNCHANGED loc
     \/ \E a \in Answers(loc[p].status) :
          /\ loc' = [loc EXCEPT ![p] = Apply(loc[p], loc[p].task, a)]
          /\ Goto(p, "save_queried")
  /\ UNCHANGED <<table, lock, worker, rec, arg, calls, bounds>>

\* storage.archive of the video: idempotent, the object's key is made from the task_id.
ArchiveVideo(p) ==
  /\ pc[p] = "archive"
  /\ \/ Resume(p, AfterArchive([loc[p] EXCEPT !.archived = TRUE]))
     \/ Resume(p, At([loc[p] EXCEPT !.storage = "FAILED"], "save_last"))
  /\ UNCHANGED <<table, worker, calls, bounds>>

\* storage.archive_cover: the frame cut from the archived video.
ArchiveCover(p) ==
  /\ pc[p] = "cover"
  /\ \/ Resume(p, At([loc[p] EXCEPT !.coverKey = TRUE, !.cover = "frame", !.storage = "STORED"],
                     "save_last"))
     \/ Resume(p, At([loc[p] EXCEPT !.storage = "FAILED"], "save_last"))
  /\ UNCHANGED <<table, worker, calls, bounds>>

\* Where save() returns to.
Saved(p) ==
  LET l == loc[p]
  IN CASE pc[p] = "save_submitted" /\ l.status = "SUCCEEDED" -> Refresh(l)
       [] pc[p] = "save_queried" /\ l.status = "SUCCEEDED" -> CompleteAssets(l)
       [] pc[p] = "save_archived" -> At(l, "cover")
       [] OTHER -> At(l, "return")

\* repo.save: one UPDATE of the row if it is live, which puts next_poll_time five minutes off;
\* LookupError if the row was deleted.
Save(p) ==
  /\ pc[p] \in {"save_submitted", "save_queried", "save_archived", "save_last"}
  /\ IF Live(rec[p])
     THEN /\ row' = [row EXCEPT ![rec[p]] = loc[p]]
          /\ due' = due \ {rec[p]}
          /\ before' = Postponed(rec[p])
          /\ Resume(p, Saved(p))
     ELSE Finish(p) /\ UNCHANGED table
  /\ UNCHANGED <<worker, calls, bounds>>

-----------------------------------------------------------------------------
(* update_metadata and delete. *)

UpdateMetadata(p, r, m) ==
  /\ Exists(r)
  /\ Begin(p)
  /\ Goto(p, "metadata_lock")
  /\ rec' = [rec EXCEPT ![p] = r]
  /\ arg' = [arg EXCEPT ![p] = m]

\* The row as read under the lock decides: gone, cover not yet replaceable, nothing to change.
ReadMetadata(p) ==
  /\ pc[p] = "metadata"
  /\ LET r == rec[p]
         m == arg[p]
         Allowed == m.cover # "none" => /\ row[r].status = "SUCCEEDED"
                                        /\ row[r].storage = "STORED"
                                        /\ row[r].coverKey
         Changes == m.cover # "none" \/ (m.title # None /\ m.title # row[r].title)
     IN IF Live(r) /\ Allowed /\ Changes
        THEN Goto(p, "metadata_write") /\ UNCHANGED <<lock, rec, loc, arg>>
        ELSE Finish(p)
  /\ UNCHANGED <<table, worker, calls, bounds>>

\* repo.update_metadata writes the changed columns only and leaves next_poll_time alone.
WriteMetadata(p) ==
  /\ pc[p] = "metadata_write"
  /\ IF Live(rec[p])
     THEN row' = [row EXCEPT ![rec[p]].title = IF arg[p].title = None THEN @ ELSE arg[p].title,
                             ![rec[p]].cover = IF arg[p].cover = "none" THEN @ ELSE "user"]
     ELSE UNCHANGED row
  /\ Finish(p)
  /\ UNCHANGED <<due, before, worker, calls, bounds>>

Delete(p, r) ==
  /\ Exists(r)
  /\ Begin(p)
  /\ Goto(p, "delete_lock")
  /\ rec' = [rec EXCEPT ![p] = r]
  /\ UNCHANGED arg

\* Logical deletion; it frees the idempotency key.
DeleteRow(p) ==
  /\ pc[p] = "delete"
  /\ row' = [row EXCEPT ![rec[p]].live = FALSE]
  /\ Finish(p)
  /\ UNCHANGED <<due, before, worker, calls, bounds>>

-----------------------------------------------------------------------------
(* run and sync_once. *)

\* Five minutes after the row was last saved.
Elapse(r) ==
  /\ Exists(r)
  /\ r \notin due
  /\ \A s \in Rows : <<s, r>> \in before => s \in due
  /\ due' = due \cup {r}
  /\ UNCHANGED <<row, before, lock, worker, pc, rec, loc, arg, calls, bounds>>

\* The WHERE clause of due().
NeedsSync(l) ==
  \/ l.status \in {"SUBMITTING", "PENDING", "RUNNING"}
  \/ /\ l.status = "SUCCEEDED"
     /\ l.storage # "STORED" \/ l.title = None \/ l.cover = "none" \/ ~l.coverKey

DueRows == {r \in due : Live(r) /\ NeedsSync(row[r])}

\* Mutation: due() does not order the rows.
BatchesUnordered == {S \in SUBSET DueRows : Cardinality(S) <= Batch /\ (S = DueRows \/ Cardinality(S) = Batch)}

\* ORDER BY next_poll_time LIMIT Batch.
Batches == {S \in SUBSET DueRows :
              /\ Cardinality(S) <= Batch
              /\ S = DueRows \/ Cardinality(S) = Batch
              /\ \A s \in S, r \in DueRows \ S : <<r, s>> \notin before}

Lead(w) ==
  /\ pc[w] = "off"
  /\ leader = None
  /\ leader' = w
  /\ Goto(w, "lead")
  /\ UNCHANGED <<table, lock, scheduler, rec, loc, arg, todo, calls, bounds>>

StartSync(w) ==
  /\ pc[w] = "lead"
  /\ scheduler = None
  /\ scheduler' = w
  /\ Goto(w, "due")
  /\ UNCHANGED <<table, lock, leader, rec, loc, arg, todo, calls, bounds>>

SelectDue(w) ==
  /\ pc[w] = "due"
  /\ \E S \in Batches : todo' = [todo EXCEPT ![w] = S]
  /\ Goto(w, "batch")
  /\ UNCHANGED <<table, lock, leader, scheduler, rec, loc, arg, calls, bounds>>

\* The next row of the batch, skipped when somebody holds its lock.
TakeNext(w) ==
  /\ pc[w] = "batch"
  /\ \E r \in todo[w] :
       /\ todo' = [todo EXCEPT ![w] = @ \ {r}]
       /\ IF lock[r] = None
          THEN /\ lock' = [lock EXCEPT ![r] = w]
               /\ rec' = [rec EXCEPT ![w] = r]
               /\ Goto(w, "load")
          ELSE UNCHANGED <<lock, rec, pc>>
  /\ UNCHANGED <<table, leader, scheduler, loc, arg, calls, bounds>>

EndSync(w) ==
  /\ pc[w] = "batch"
  /\ todo[w] = {}
  /\ scheduler' = None
  /\ Goto(w, "lead")
  /\ UNCHANGED <<table, lock, leader, rec, loc, arg, todo, calls, bounds>>

-----------------------------------------------------------------------------
(* Failures. *)

\* An operation on a row dies: the server process, the connection or a statement fails, or the
\* request is cancelled.  PostgreSQL drops the lock with the connection that took it.
Die(p) ==
  /\ failures < MaxFailures
  /\ rec[p] # None
  /\ failures' = failures + 1
  /\ Finish(p)
  /\ UNCHANGED <<table, worker, calls, requests>>

\* A worker's process dies, or its loop fails outside a row and starts over after five minutes.
Restart(w) ==
  /\ failures < MaxFailures
  /\ pc[w] # "off"
  /\ failures' = failures + 1
  /\ lock' = [r \in Rows |-> IF lock[r] = w THEN None ELSE lock[r]]
  /\ leader' = IF leader = w THEN None ELSE leader
  /\ scheduler' = IF scheduler = w THEN None ELSE scheduler
  /\ Goto(w, "off")
  /\ rec' = [rec EXCEPT ![w] = None]
  /\ loc' = [loc EXCEPT ![w] = None]
  /\ todo' = [todo EXCEPT ![w] = {}]
  /\ UNCHANGED <<table, arg, calls, requests>>

-----------------------------------------------------------------------------
Ask(p) ==
  \/ \E a \in CreateRequest : Create(p, a)
  \/ \E source \in Rows, a \in CreateRequest : Edit(p, source, a)
  \/ \E r \in Rows : Query(p, r) \/ Delete(p, r)
  \/ \E r \in Rows, m \in MetadataUpdate : UpdateMetadata(p, r, m)

Serve(p) ==
  \/ ReserveNew(p) \/ ReserveTaken(p) \/ TryLock(p) \/ SubmitTask(p)
  \/ ReadMetadata(p) \/ WriteMetadata(p) \/ DeleteRow(p)

RefreshRow(p) ==
  \/ Load(p) \/ QueryTask(p) \/ ArchiveVideo(p) \/ ArchiveCover(p) \/ Save(p)

Sync(w) == Lead(w) \/ StartSync(w) \/ SelectDue(w) \/ TakeNext(w) \/ EndSync(w)

Next ==
  \/ \E c \in Clients : Ask(c) \/ Serve(c)
  \/ \E p \in Procs : RefreshRow(p) \/ Die(p)
  \/ \E w \in Workers : Sync(w) \/ Restart(w)
  \/ \E r \in Rows : Elapse(r)

Spec == Init /\ [][Next]_vars

\* asyncio runs every ready coroutine, calls end or time out, and time passes.  Nothing makes a
\* user ask or an operation die.
Fairness ==
  /\ \A c \in Clients : WF_vars(Serve(c))
  /\ \A p \in Procs : WF_vars(RefreshRow(p))
  /\ \A w \in Workers : WF_vars(Sync(w))
  /\ \A r \in Rows : WF_vars(Elapse(r))

FairSpec == Spec /\ Fairness

-----------------------------------------------------------------------------
(* Correctness. *)

\* Steps that work on a row under its lock.
Guarded == {"submit", "load", "query", "archive", "cover", "save_submitted", "save_queried",
            "save_archived", "save_last", "metadata", "metadata_write", "delete"}

\* A process between a guarded row's first and last statement holds that row's lock, so no two
\* of them work on one row: nobody's exit unlocks what somebody else holds.
LockHeld == \A p \in Procs : pc[p] \in Guarded => lock[rec[p]] = p

\* The provider, which has no idempotency of its own and bills each call, is asked at most once
\* for a row, whatever is retried, replayed, refreshed, abandoned or restarted.
SubmittedOnce == \A r \in Rows : calls[r] <= 1

\* A row this release reports as SUCCEEDED and STORED has its title, its archived video and its
\* archived cover; only rows of the earlier release may wait for theirs.
StoredReady ==
  \A r \in Rows \ Legacy : Live(r) /\ row[r].storage = "STORED" =>
     /\ row[r].status = "SUCCEEDED" /\ row[r].task # 0 /\ row[r].archived
     /\ Complete(row[r])

\* No statement takes back what an earlier one established: a task_id once stored stays, a
\* finished generation keeps its outcome, the archived objects stay, and a complete row stays
\* complete.  A writer with an old copy of the row would.
NothingTakenBack ==
  [][\A r \in Rows : Exists(r) =>
       /\ row[r].task # 0 => row'[r].task = row[r].task
       /\ row[r].status \in {"FAILED", "CANCELED", "UNKNOWN"} => row'[r].status = row[r].status
       /\ row[r].archived => row'[r].archived /\ row'[r].status = "SUCCEEDED"
       /\ row[r].coverKey => row'[r].coverKey
       /\ Complete(row[r]) => Complete(row'[r])]_vars

\* A cover the user has set is never replaced by the frame cut from the video.
UserCoverKept ==
  [][\A r \in Rows : Live(r) /\ row[r].cover = "user" => row'[r].cover = "user"]_vars

\* A title changes only when its user changes it, or is filled in where there was none.  The code
\* breaks this: the creator saves the record it inserted before it had the row's lock.
UserTitleKept ==
  [][\A r \in Rows : Exists(r) /\ row'[r].title # row[r].title =>
       \/ row[r].title = None
       \/ \E p \in Clients : rec[p] = r /\ pc[p] = "metadata_write"]_vars

\* The same input replayed under its key submits no second task.  The code breaks this: the
\* deletion of a task frees its key.
ReplayCreatesNoTask ==
  \A r, s \in Rows :
    r # s /\ calls[r] > 0 /\ calls[s] > 0
      => row[r].key # row[s].key \/ row[r].hash # row[s].hash

\* No row stays SUBMITTING: if its creator gives up, dies or finds the lock taken, a query or the
\* background worker settles it, however many other rows fail again and again before it.
SubmissionSettles ==
  \A r \in Rows : (Live(r) /\ row[r].status = "SUBMITTING")
                     ~> (~Live(r) \/ row[r].status # "SUBMITTING")

\* The rows as jobs of AtMostOnce: every behaviour of the service is one of that specification.
Verdict(r) ==
  CASE ~Exists(r) \/ row[r].status = "SUBMITTING" -> "open"
    [] Exists(r) /\ row[r].status = "SUBMISSION_UNKNOWN" -> "unsure"
    [] Exists(r) /\ row[r].status = "FAILED" /\ row[r].task = 0 -> "refused"
    [] OTHER -> "accepted"

Promise == INSTANCE AtMostOnce
             WITH Jobs <- Rows,
                  fired <- [r \in Rows |-> calls[r] > 0],
                  verdict <- [r \in Rows |-> Verdict(r)]

KeepsPromise == Promise!Spec

=============================================================================
