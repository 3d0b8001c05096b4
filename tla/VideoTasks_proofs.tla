-------------------------- MODULE VideoTasks_proofs --------------------------
(***************************************************************************)
(* Proofs about VideoTasks for any number of rows, users' requests,        *)
(* workers, keys and titles, and without the bounds of the TLC runs.       *)
(* IInv is about locks, copies and the single submission; RInv, which      *)
(* rests on it, about what the records say.                                *)
(***************************************************************************)
EXTENDS VideoTasks, TLAPS

USE DEF Procs

-----------------------------------------------------------------------------
(* The inductive invariant. *)

\* Steps at which a process works on a row, and those at which it holds a copy of it.
OnRow == Guarded \cup {"acquire", "query_lock", "metadata_lock", "delete_lock"}
WithCopy == {"acquire", "submit", "query", "archive", "cover", "save_submitted",
             "save_queried", "save_archived", "save_last"}
Creating == {"acquire", "submit"}

\* What a process holds at each of its steps.
Holds ==
  \A p \in Procs :
    /\ pc[p] = "reserve" => arg[p] \in CreateRequest
    /\ pc[p] \in {"metadata_lock", "metadata", "metadata_write"} => arg[p] \in MetadataUpdate
    /\ pc[p] \in OnRow => rec[p] \in Rows /\ Exists(rec[p])
    /\ pc[p] \in WithCopy => loc[p] \in VideoRecord

\* Only rows that exist wait for a worker.
Inserted ==
  /\ due \subseteq {r \in Rows : Exists(r)}
  /\ \A w \in Workers : \A r \in todo[w] : Exists(r)

\* A row has one creator, which has not called the provider yet.
OneCreator ==
  /\ \A r \in Rows : ~Exists(r) => calls[r] = 0
  /\ \A p \in Procs : pc[p] \in Creating => calls[rec[p]] = 0
  /\ \A p, q \in Procs : pc[p] \in Creating /\ pc[q] \in Creating /\ rec[p] = rec[q] => p = q

IInv == TypeOK /\ Holds /\ Inserted /\ LockHeld /\ OneCreator /\ SubmittedOnce

-----------------------------------------------------------------------------
(* What the operators on records return. *)

\* A record stays a record under every update the service makes of it.
LEMMA RecordUpdates ==
  ASSUME NEW l \in VideoRecord
  PROVE  /\ \A b \in BOOLEAN : /\ [l EXCEPT !.live = b] \in VideoRecord
                               /\ [l EXCEPT !.archived = b] \in VideoRecord
                               /\ [l EXCEPT !.coverKey = b] \in VideoRecord
         /\ \A s \in VideoStatus : [l EXCEPT !.status = s] \in VideoRecord
         /\ \A s \in VideoStorageStatus : [l EXCEPT !.storage = s] \in VideoRecord
         /\ \A c \in Covers : [l EXCEPT !.cover = c] \in VideoRecord
         /\ \A t \in Titles : [l EXCEPT !.title = t] \in VideoRecord
  BY DEF VideoRecord

\* What the provider answers is a status and a URL that _apply can take over.
LEMMA AnswersType ==
  ASSUME NEW last
  PROVE  \A a \in Answers(last) : a.status \in VideoStatus /\ a.url \in BOOLEAN
  BY DEF Answers, VideoStatus

\* _apply returns a record.
LEMMA ApplyType ==
  ASSUME NEW l \in VideoRecord, NEW t \in Nat, NEW last, NEW a \in Answers(last)
  PROVE  Apply(l, t, a) \in VideoRecord
  BY AnswersType DEF Apply, VideoRecord, VideoStorageStatus

Stops == {"return", "save_last", "save_archived", "archive", "query", "cover"}

\* _complete_assets and _refresh stop with a record, at a call or a save they own.
LEMMA AfterArchiveType ==
  ASSUME NEW l \in VideoRecord
  PROVE  /\ AfterArchive(l).loc \in VideoRecord
         /\ AfterArchive(l).pc \in {"save_archived", "save_last"}
  BY DEF AfterArchive, At, VideoRecord, VideoStorageStatus, Covers

\* _complete_assets, with title, video and cover to fill in, stops with a record.
LEMMA CompleteAssetsType ==
  ASSUME NEW l \in VideoRecord
  PROVE  CompleteAssets(l).loc \in VideoRecord /\ CompleteAssets(l).pc \in Stops
  <1> DEFINE titled == IF l.title = None THEN [l EXCEPT !.title = DerivedTitle] ELSE l
  <1>1. DerivedTitle \in Titles
    BY ConstantsOK DEF DerivedTitle
  <1>2. titled \in VideoRecord
    BY <1>1, RecordUpdates
  <1> QED
    BY <1>2, AfterArchiveType DEF CompleteAssets, At, Stops

\* _refresh stops with a record, at the query, at an archive, at a save or with nothing to do.
LEMMA RefreshType ==
  ASSUME NEW l \in VideoRecord
  PROVE  Refresh(l).loc \in VideoRecord /\ Refresh(l).pc \in Stops
  BY CompleteAssetsType, RecordUpdates DEF Refresh, At, Stops, VideoStatus

\* What save() writes is a record again, although it leaves the key and the hash alone.
LEMMA SavedType ==
  ASSUME NEW p \in Procs, loc[p] \in VideoRecord
  PROVE  Saved(p).loc \in VideoRecord /\ Saved(p).pc \in Stops
  BY CompleteAssetsType, RefreshType DEF Saved, At, Stops

-----------------------------------------------------------------------------
(* The steps keep the invariant, action by action. *)

USE DEF table, worker, bounds

\* The invariant holds of a table that an earlier release may have left behind.
LEMMA InitInv == Init => IInv
  <1> SUFFICES ASSUME Init PROVE IInv
    OBVIOUS
  <1>1. PICK old \in SUBSET Legacy, k \in Keys, h \in Hashes :
          /\ row = [r \in Rows |-> IF r \in old THEN LegacyRecord(k, h) ELSE None]
          /\ due = old
          /\ calls = [r \in Rows |-> IF r \in old THEN 1 ELSE 0]
    BY DEF Init
  <1>2. LegacyRecord(k, h) \in VideoRecord
    BY DEF LegacyRecord, VideoRecord, Covers, VideoStatus, VideoStorageStatus
  <1>3. old \subseteq Rows
    BY ConstantsOK
  <1>4. TypeOK
    BY <1>1, <1>2, <1>3, ConstantsOK DEF Init, TypeOK, Steps
  <1>5. \A r \in old : Exists(r)
    BY <1>1, <1>2, <1>3, NoneIsNoRecord DEF Exists
  <1>6. \A p \in Procs : pc[p] \in {"off", "idle"}
    BY DEF Init
  <1>7. Inserted
    BY <1>1, <1>3, <1>5 DEF Init, Inserted
  <1> QED
    BY <1>1, <1>3, <1>4, <1>5, <1>6, <1>7 DEF IInv, Holds, LockHeld, OneCreator, SubmittedOnce,
       OnRow, Guarded, WithCopy, Creating, Exists

\* A step that at most rewrites existing rows, postpones their polling and uses up a bound.
TableKept ==
  /\ row' \in [Rows -> VideoRecord \cup {None}]
  /\ \A r \in Rows : Exists(r)' <=> Exists(r)
  /\ due' \subseteq due
  /\ before' \subseteq Rows \X Rows
  /\ requests' \in 0..MaxRequests
  /\ failures' \in 0..MaxFailures

\* A step that leaves rows, locks and calls alone leaves every table part of the invariant alone.
LEMMA SameTable ==
  ASSUME IInv, UNCHANGED table, requests' \in 0..MaxRequests, failures' \in 0..MaxFailures
  PROVE  TableKept
  BY DEF TableKept, IInv, TypeOK, Exists

\* The end of an operation.
LEMMA FinishInv ==
  ASSUME NEW p \in Procs, IInv, Finish(p), TableKept, UNCHANGED <<worker, calls>>
  PROVE  IInv'
  <1> USE DEF IInv, TableKept
  <1>1. TypeOK'
    BY DEF TypeOK, Finish, Inserted, Steps
  <1>2. pc' = [pc EXCEPT ![p] = pc'[p]] /\ pc'[p] \in {"batch", "idle"}
    BY DEF TypeOK, Finish
  <1>3. \A q \in Procs \ {p} : /\ pc'[q] = pc[q] /\ rec'[q] = rec[q]
                              /\ loc'[q] = loc[q] /\ arg'[q] = arg[q]
    BY DEF TypeOK, Finish
  <1>4. Holds'
    BY <1>2, <1>3 DEF Holds, OnRow, Guarded, WithCopy
  <1>5. Inserted'
    BY DEF Inserted, TypeOK
  <1>6. LockHeld'
    BY <1>2, <1>3 DEF LockHeld, Guarded, Holds, OnRow, Finish, TypeOK
  <1>7. OneCreator' /\ SubmittedOnce'
    BY <1>2, <1>3 DEF OneCreator, SubmittedOnce, Creating
  <1> QED
    BY <1>1, <1>4, <1>5, <1>6, <1>7

\* A process goes on with the row it works on, with a new copy of it perhaps.
LEMMA GoOnInv ==
  ASSUME NEW p \in Procs, IInv, NEW s \in OnRow \ Creating,
         pc' = [pc EXCEPT ![p] = s], pc[p] \in OnRow,
         s \in Guarded => lock[rec[p]] = p,
         s \in {"metadata", "metadata_write"} => arg[p] \in MetadataUpdate,
         s # "metadata_lock",
         NEW l \in VideoRecord \cup {None}, loc' = [loc EXCEPT ![p] = l],
         s \in WithCopy => l # None,
         TableKept, UNCHANGED <<worker, calls, lock, rec, arg>>
  PROVE  IInv'
  <1> USE DEF IInv, TableKept
  <1>1. TypeOK'
    BY DEF TypeOK, Inserted, Steps, OnRow, Guarded, Creating
  <1>2. \A q \in Procs : /\ pc'[q] = IF q = p THEN s ELSE pc[q]
                         /\ loc'[q] = IF q = p THEN l ELSE loc[q]
    BY DEF TypeOK
  <1>3. Holds'
    BY <1>2 DEF Holds, OnRow, Guarded, WithCopy, Creating
  <1>4. Inserted'
    BY DEF Inserted, TypeOK
  <1>5. LockHeld'
    BY <1>2 DEF LockHeld, Guarded
  <1>6. OneCreator' /\ SubmittedOnce'
    BY <1>2 DEF OneCreator, SubmittedOnce, Creating
  <1> QED
    BY <1>1, <1>3, <1>4, <1>5, <1>6

\* What a coroutine computed takes it to a call, to a save, or to its end.
LEMMA ResumeInv ==
  ASSUME NEW p \in Procs, IInv, NEW s, Resume(p, s), s.loc \in VideoRecord, s.pc \in Stops,
         pc[p] \in Guarded, TableKept, UNCHANGED <<worker, calls>>
  PROVE  IInv'
  <1>1. CASE s.pc = "return"
    BY <1>1, FinishInv DEF Resume
  <1>2. CASE s.pc # "return"
    <2>1. s.pc \in OnRow \ Creating
      BY <1>2 DEF Stops, OnRow, Guarded, Creating
    <2>2. lock[rec[p]] = p
      BY DEF IInv, LockHeld
    <2>3. /\ pc' = [pc EXCEPT ![p] = s.pc] /\ loc' = [loc EXCEPT ![p] = s.loc]
          /\ UNCHANGED <<lock, rec, arg>>
      BY <1>2 DEF Resume
    <2> QED
      BY <2>1, <2>2, <2>3, GoOnInv, NoneIsNoRecord DEF Stops, OnRow
  <1> QED
    BY <1>1, <1>2

-----------------------------------------------------------------------------
(* The requests. *)

\* A request that enters the service touches no row.
LEMMA AskInv ==
  ASSUME NEW p \in Clients, IInv, Ask(p)
  PROVE  IInv'
  <1> USE DEF IInv
  <1>1. requests - 1 \in 0..MaxRequests /\ failures \in 0..MaxFailures
    BY ConstantsOK DEF TypeOK, Ask, Create, Edit, Query, Delete, UpdateMetadata, Begin
  <1>2. /\ pc[p] = "idle" /\ UNCHANGED <<table, lock, worker, calls, failures>>
        /\ requests' = requests - 1
    BY DEF Ask, Create, Edit, Query, Delete, UpdateMetadata, Begin
  <1>3. PICK s \in {"reserve", "query_lock", "delete_lock", "metadata_lock"} :
          pc' = [pc EXCEPT ![p] = s]
    BY DEF Ask, Create, Edit, Query, Delete, UpdateMetadata, Begin, Goto
  <1>4. \A q \in Procs : pc'[q] = IF q = p THEN s ELSE pc[q]
    BY <1>3 DEF TypeOK
  <1>5. /\ rec' \in [Procs -> Rows \cup {None}]
        /\ \A q \in Procs \ {p} : rec'[q] = rec[q] /\ arg'[q] = arg[q] /\ loc'[q] = loc[q]
        /\ loc' \in [Procs -> VideoRecord \cup {None}]
        /\ arg' \in [Procs -> CreateRequest \cup MetadataUpdate \cup {None}]
        /\ s = "reserve" => arg'[p] \in CreateRequest
        /\ s = "metadata_lock" => arg'[p] \in MetadataUpdate
        /\ s # "reserve" => rec'[p] \in Rows /\ Exists(rec'[p])
    <2>1. CASE \E a \in CreateRequest : Create(p, a)
      BY <1>3, <1>4, <2>1 DEF TypeOK, Create, Begin, Goto
    <2>2. CASE \E source \in Rows, a \in CreateRequest : Edit(p, source, a)
      BY <1>3, <1>4, <2>2 DEF TypeOK, Edit, Create, Begin, Goto
    <2>3. CASE \E r \in Rows : Query(p, r)
      BY <1>3, <1>4, <2>3 DEF TypeOK, Query, Live, Exists, Goto
    <2>4. CASE \E r \in Rows : Delete(p, r)
      BY <1>3, <1>4, <2>4 DEF TypeOK, Delete, Exists, Begin, Goto
    <2>5. CASE \E r \in Rows, m \in MetadataUpdate : UpdateMetadata(p, r, m)
      BY <1>3, <1>4, <2>5 DEF TypeOK, UpdateMetadata, Exists, Begin, Goto
    <2> QED
      BY <2>1, <2>2, <2>3, <2>4, <2>5 DEF Ask
  <1>6. TypeOK'
    BY <1>1, <1>2, <1>3, <1>5 DEF TypeOK, Steps
  <1>7. Holds'
    BY <1>2, <1>4, <1>5 DEF Holds, OnRow, Guarded, WithCopy, Exists
  <1>8. Inserted' /\ LockHeld' /\ OneCreator' /\ SubmittedOnce'
    BY <1>2, <1>4, <1>5 DEF Inserted, LockHeld, OneCreator, SubmittedOnce, Guarded, Creating,
       Exists
  <1> QED
    BY <1>6, <1>7, <1>8

\* The row a creator inserts is new: nobody has submitted it and nobody else will.
LEMMA ReserveNewInv ==
  ASSUME NEW p \in Clients, IInv, ReserveNew(p)
  PROVE  IInv'
  <1> USE DEF IInv
  <1>1. PICK r \in Rows :
          /\ ~Exists(r)
          /\ row' = [row EXCEPT ![r] = NewRecord(arg[p])]
          /\ before' = Postponed(r)
          /\ rec' = [rec EXCEPT ![p] = r]
          /\ loc' = [loc EXCEPT ![p] = NewRecord(arg[p])]
    BY DEF ReserveNew
  <1>2. /\ pc[p] = "reserve" /\ pc' = [pc EXCEPT ![p] = "acquire"]
        /\ UNCHANGED <<due, lock, worker, arg, calls, bounds>>
    BY DEF ReserveNew, Goto
  <1>3. NewRecord(arg[p]) \in VideoRecord
    <2>1. arg[p] \in CreateRequest
      BY <1>2 DEF Holds
    <2> QED
      BY <2>1 DEF NewRecord, CreateRequest, VideoRecord, Covers, VideoStatus, VideoStorageStatus
  <1>4. /\ \A q \in Procs : pc'[q] = IF q = p THEN "acquire" ELSE pc[q]
        /\ \A q \in Procs : rec'[q] = IF q = p THEN r ELSE rec[q]
        /\ \A q \in Procs : loc'[q] = IF q = p THEN NewRecord(arg[p]) ELSE loc[q]
    BY <1>1, <1>2 DEF TypeOK
  <1>5. \A t \in Rows : Exists(t)' <=> Exists(t) \/ t = r
    BY <1>1, <1>3, NoneIsNoRecord DEF Exists, TypeOK
  <1>6. TypeOK'
    BY <1>1, <1>2, <1>3 DEF TypeOK, Steps, Postponed
  <1>7. Holds'
    BY <1>2, <1>3, <1>4, <1>5 DEF Holds, OnRow, Guarded, WithCopy
  <1>8. Inserted' /\ LockHeld' /\ SubmittedOnce'
    BY <1>2, <1>4, <1>5 DEF Inserted, LockHeld, Guarded, SubmittedOnce, TypeOK
  <1>9. OneCreator'
    BY <1>1, <1>2, <1>4, <1>5 DEF OneCreator, Creating, Holds, OnRow, Guarded
  <1> QED
    BY <1>6, <1>7, <1>8, <1>9

\* guard(): whoever gets the lock of a row was the first, whoever does not has no copy of the row.
LEMMA TryLockInv ==
  ASSUME NEW p \in Clients, IInv, TryLock(p)
  PROVE  IInv'
  <1>1. TableKept
    BY SameTable DEF TryLock, IInv, TypeOK
  <1>2. CASE Finish(p)
    BY <1>1, <1>2, FinishInv DEF TryLock
  <1>3. CASE /\ lock[rec[p]] = None
             /\ lock' = [lock EXCEPT ![rec[p]] = p]
             /\ pc' = [pc EXCEPT ![p] = Locked[pc[p]]]
             /\ UNCHANGED <<rec, loc, arg>>
    <2> USE DEF IInv
    <2>1. /\ pc[p] \in {"acquire", "query_lock", "metadata_lock", "delete_lock"}
          /\ Locked[pc[p]] \in {"submit", "load", "metadata", "delete"}
          /\ Locked[pc[p]] = "submit" => pc[p] = "acquire"
          /\ Locked[pc[p]] = "metadata" => pc[p] = "metadata_lock"
      BY DEF TryLock, Locked
    <2>2. \A q \in Procs : pc'[q] = IF q = p THEN Locked[pc[p]] ELSE pc[q]
      BY <1>3 DEF TypeOK
    <2>3. rec[p] \in Rows /\ \A r \in Rows : lock'[r] = IF r = rec[p] THEN p ELSE lock[r]
      BY <1>3, <2>1 DEF TypeOK, Holds, OnRow
    <2>4. UNCHANGED <<table, worker, calls, bounds>>
      BY DEF TryLock
    <2>5. TypeOK'
      BY <1>3, <2>1, <2>4 DEF TypeOK, Steps
    <2>6. Holds'
      BY <1>3, <2>1, <2>2, <2>4 DEF Holds, OnRow, Guarded, WithCopy, Exists
    <2>7. LockHeld'
      BY <1>3, <2>2, <2>3, ConstantsOK DEF LockHeld
    <2>8. Inserted' /\ OneCreator' /\ SubmittedOnce'
      BY <1>3, <2>1, <2>2, <2>4 DEF Inserted, OneCreator, Creating, SubmittedOnce, Exists
    <2> QED
      BY <2>5, <2>6, <2>7, <2>8
  <1> QED
    BY <1>2, <1>3 DEF TryLock, Goto

\* The one call of the provider: its row had none, and its caller was the only creator.
LEMMA SubmitTaskInv ==
  ASSUME NEW p \in Clients, IInv, SubmitTask(p)
  PROVE  IInv'
  <1> USE DEF IInv
  <1>1. /\ pc[p] = "submit" /\ pc' = [pc EXCEPT ![p] = "save_submitted"]
        /\ calls' = [calls EXCEPT ![rec[p]] = @ + 1]
        /\ UNCHANGED <<table, lock, worker, rec, arg, bounds>>
    BY DEF SubmitTask, Goto
  <1>2. rec[p] \in Rows /\ Exists(rec[p]) /\ loc[p] \in VideoRecord /\ calls[rec[p]] = 0
    BY <1>1 DEF Holds, OnRow, Guarded, WithCopy, OneCreator, Creating
  <1>3. PICK l \in VideoRecord : loc' = [loc EXCEPT ![p] = l]
    <2>1. CASE \E a \in Answers("PENDING") :
                 loc' = [loc EXCEPT ![p] = Apply(loc[p], calls[rec[p]] + 1, a)]
      <3>1. PICK a \in Answers("PENDING") :
              loc' = [loc EXCEPT ![p] = Apply(loc[p], calls[rec[p]] + 1, a)]
        BY <2>1
      <3>2. Apply(loc[p], calls[rec[p]] + 1, a) \in VideoRecord
        BY <1>2, ApplyType
      <3> QED
        BY <3>1, <3>2
    <2>2. CASE loc' = [loc EXCEPT ![p].status = "SUBMISSION_UNKNOWN"]
      BY <1>2, <2>2, RecordUpdates DEF VideoStatus, TypeOK
    <2>3. CASE loc' = [loc EXCEPT ![p].status = "FAILED"]
      BY <1>2, <2>3, RecordUpdates DEF VideoStatus, TypeOK
    <2> QED
      BY <2>1, <2>2, <2>3 DEF SubmitTask
  <1>4. /\ \A q \in Procs : pc'[q] = IF q = p THEN "save_submitted" ELSE pc[q]
        /\ \A q \in Procs : loc'[q] = IF q = p THEN l ELSE loc[q]
        /\ \A r \in Rows : calls'[r] = IF r = rec[p] THEN 1 ELSE calls[r]
    BY <1>1, <1>2, <1>3 DEF TypeOK
  <1>5. TypeOK'
    BY <1>1, <1>2, <1>3 DEF TypeOK, Steps
  <1>6. Holds' /\ Inserted' /\ SubmittedOnce'
    BY <1>1, <1>2, <1>4 DEF Holds, Inserted, OnRow, Guarded, WithCopy, SubmittedOnce, Exists
  <1>7. LockHeld'
    BY <1>1, <1>4 DEF LockHeld, Guarded
  <1>8. OneCreator'
    BY <1>1, <1>2, <1>4 DEF OneCreator, Creating, Holds, OnRow, Guarded, Exists
  <1> QED
    BY <1>5, <1>6, <1>7, <1>8

\* update_metadata writes under the lock of its row, from the row it has just read.
LEMMA MetadataInv ==
  ASSUME NEW p \in Clients, IInv, ReadMetadata(p) \/ WriteMetadata(p) \/ DeleteRow(p)
  PROVE  IInv'
  <1> USE DEF IInv
  <1>1. pc[p] \in OnRow /\ rec[p] \in Rows /\ row[rec[p]] \in VideoRecord
    BY DEF ReadMetadata, WriteMetadata, DeleteRow, Holds, OnRow, Guarded, TypeOK, Exists
  <1>2. CASE ReadMetadata(p)
    <2>1. TableKept
      BY <1>2, SameTable DEF ReadMetadata, TypeOK
    <2>2. CASE Finish(p)
      BY <1>2, <2>1, <2>2, FinishInv DEF ReadMetadata
    <2>3. CASE Goto(p, "metadata_write") /\ UNCHANGED <<lock, rec, loc, arg>>
      <3>1. loc' = [loc EXCEPT ![p] = loc[p]] /\ loc[p] \in VideoRecord \cup {None}
        BY <2>3 DEF TypeOK
      <3>2. lock[rec[p]] = p /\ arg[p] \in MetadataUpdate
        BY <1>2 DEF ReadMetadata, LockHeld, Guarded, Holds
      <3>3. "metadata_write" \in OnRow \ Creating /\ "metadata_write" \notin WithCopy
        BY DEF OnRow, Guarded, Creating, WithCopy
      <3> QED
        BY <1>1, <1>2, <2>1, <2>3, <3>1, <3>2, <3>3, GoOnInv DEF ReadMetadata, Goto
    <2> QED
      BY <1>2, <2>2, <2>3 DEF ReadMetadata
  <1>3. CASE WriteMetadata(p)
    <2>1. arg[p] \in MetadataUpdate
      BY <1>3 DEF WriteMetadata, Holds
    <2>2. PICK l \in VideoRecord \cup {None} : l # None /\ row' = [row EXCEPT ![rec[p]] = l]
      <3>1. CASE Live(rec[p])
        <4> DEFINE t == IF arg[p].title = None THEN row[rec[p]].title ELSE arg[p].title
                   c == IF arg[p].cover = "none" THEN row[rec[p]].cover ELSE "user"
                   l == [[row[rec[p]] EXCEPT !.title = t] EXCEPT !.cover = c]
        <4>1. t \in Titles \cup {None} /\ c \in Covers
          BY <1>1, <2>1 DEF MetadataUpdate, VideoRecord, Covers
        <4>2. l \in VideoRecord
          BY <1>1, <4>1 DEF VideoRecord
        <4>3. row' = [row EXCEPT ![rec[p]] = l]
          BY <1>1, <1>3, <3>1 DEF WriteMetadata, TypeOK, VideoRecord
        <4> QED
          BY <4>2, <4>3, NoneIsNoRecord
      <3>2. CASE ~Live(rec[p])
        BY <1>1, <1>3, <3>2, NoneIsNoRecord DEF WriteMetadata, TypeOK
      <3> QED
        BY <3>1, <3>2
    <2>3. TableKept
      BY <1>1, <1>3, <2>2, NoneIsNoRecord DEF WriteMetadata, TableKept, TypeOK, Exists
    <2> QED
      BY <1>3, <2>3, FinishInv DEF WriteMetadata
  <1>4. CASE DeleteRow(p)
    <2>1. [row[rec[p]] EXCEPT !.live = FALSE] \in VideoRecord
      BY <1>1, RecordUpdates
    <2>2. row' = [row EXCEPT ![rec[p]] = [row[rec[p]] EXCEPT !.live = FALSE]]
      BY <1>4 DEF DeleteRow
    <2>3. TableKept
      BY <1>1, <1>4, <2>1, <2>2, NoneIsNoRecord DEF DeleteRow, TableKept, TypeOK, Exists
    <2> QED
      BY <1>4, <2>3, FinishInv DEF DeleteRow
  <1> QED
    BY <1>2, <1>3, <1>4

\* All steps of a request: create, edit, query, update_metadata and delete.
LEMMA ServeInv ==
  ASSUME NEW p \in Clients, IInv, Serve(p)
  PROVE  IInv'
  <1>1. CASE ReserveTaken(p)
    <2>1. TableKept
      BY <1>1, SameTable DEF ReserveTaken, IInv, TypeOK
    <2> QED
      BY <1>1, <2>1, FinishInv DEF ReserveTaken
  <1> QED
    BY <1>1, ReserveNewInv, TryLockInv, SubmitTaskInv, MetadataInv DEF Serve

-----------------------------------------------------------------------------
(* The refresh. *)

\* The steps of a refresh, by a query or by a worker: load, ask, archive and save.
LEMMA RefreshRowInv ==
  ASSUME NEW p \in Procs, IInv, RefreshRow(p)
  PROVE  IInv'
  <1> USE DEF IInv
  <1>1. /\ pc[p] \in {"load", "query", "archive", "cover", "save_submitted", "save_queried",
                     "save_archived", "save_last"}
        /\ UNCHANGED <<worker, calls, bounds>>
    BY DEF RefreshRow, Load, QueryTask, ArchiveVideo, ArchiveCover, Save
  <1>2. /\ pc[p] \in Guarded /\ pc[p] \in OnRow /\ rec[p] \in Rows /\ Exists(rec[p])
        /\ pc[p] # "load" => loc[p] \in VideoRecord
    BY <1>1 DEF Holds, OnRow, Guarded, WithCopy
  <1>3. UNCHANGED table => TableKept
    BY <1>1, SameTable DEF TypeOK
  <1>4. CASE Load(p)
    <2>1. row[rec[p]] \in VideoRecord
      BY <1>2 DEF TypeOK, Exists
    <2> QED
      BY <1>2, <1>3, <1>4, <2>1, RefreshType, ResumeInv, FinishInv DEF Load
  <1>5. CASE QueryTask(p)
    <2>1. lock[rec[p]] = p
      BY <1>2 DEF LockHeld
    <2>2. loc[p] \in VideoRecord
      BY <1>2, <1>5 DEF QueryTask
    <2>3. PICK s \in {"save_last", "save_queried"}, l \in VideoRecord :
            pc' = [pc EXCEPT ![p] = s] /\ loc' = [loc EXCEPT ![p] = l]
      <3>1. CASE Goto(p, "save_last") /\ UNCHANGED loc
        BY <2>2, <3>1 DEF Goto, TypeOK
      <3>2. CASE \E a \in Answers(loc[p].status) :
                   /\ loc' = [loc EXCEPT ![p] = Apply(loc[p], loc[p].task, a)]
                   /\ Goto(p, "save_queried")
        <4>1. loc[p].task \in Nat
          BY <2>2 DEF VideoRecord
        <4> QED
          BY <2>2, <3>2, <4>1, ApplyType DEF Goto
      <3> QED
        BY <1>5, <3>1, <3>2 DEF QueryTask
    <2>4. s \in OnRow \ Creating
      BY DEF OnRow, Guarded, Creating
    <2> QED
      BY <1>2, <1>3, <1>5, <2>1, <2>3, <2>4, GoOnInv, NoneIsNoRecord DEF QueryTask
  <1>6. CASE ArchiveVideo(p)
    <2>1. loc[p] \in VideoRecord
      BY <1>2, <1>6 DEF ArchiveVideo
    <2>2. [loc[p] EXCEPT !.archived = TRUE] \in VideoRecord
      BY <2>1, RecordUpdates
    <2>3. [loc[p] EXCEPT !.storage = "FAILED"] \in VideoRecord
      BY <2>1, RecordUpdates DEF VideoStorageStatus
    <2>4. CASE Resume(p, AfterArchive([loc[p] EXCEPT !.archived = TRUE]))
      BY <1>2, <1>3, <1>6, <2>2, <2>4, AfterArchiveType, ResumeInv DEF ArchiveVideo, Stops
    <2>5. CASE Resume(p, At([loc[p] EXCEPT !.storage = "FAILED"], "save_last"))
      BY <1>2, <1>3, <1>6, <2>3, <2>5, ResumeInv DEF ArchiveVideo, Stops, At
    <2> QED
      BY <1>6, <2>4, <2>5 DEF ArchiveVideo
  <1>7. CASE ArchiveCover(p)
    <2>1. loc[p] \in VideoRecord
      BY <1>2, <1>7 DEF ArchiveCover
    <2> DEFINE l == [loc[p] EXCEPT !.coverKey = TRUE, !.cover = "frame", !.storage = "STORED"]
    <2>2. l \in VideoRecord
      BY <2>1 DEF VideoRecord, Covers, VideoStorageStatus
    <2>3. [loc[p] EXCEPT !.storage = "FAILED"] \in VideoRecord
      BY <2>1, RecordUpdates DEF VideoStorageStatus
    <2>4. CASE Resume(p, At(l, "save_last"))
      <3> HIDE DEF l
      <3> QED
        BY <1>2, <1>3, <1>7, <2>2, <2>4, ResumeInv DEF ArchiveCover, Stops, At
    <2>5. CASE Resume(p, At([loc[p] EXCEPT !.storage = "FAILED"], "save_last"))
      BY <1>2, <1>3, <1>7, <2>3, <2>5, ResumeInv DEF ArchiveCover, Stops, At
    <2> QED
      BY <1>7, <2>4, <2>5 DEF ArchiveCover
  <1>8. CASE Save(p)
    <2>1. loc[p] \in VideoRecord
      BY <1>2, <1>8 DEF Save
    <2>2. CASE Live(rec[p])
      <3>1. /\ row' = [row EXCEPT ![rec[p]] = loc[p]] /\ due' = due \ {rec[p]}
            /\ before' = Postponed(rec[p]) /\ Resume(p, Saved(p))
        BY <1>8, <2>2 DEF Save
      <3>2. TableKept
        BY <1>1, <1>2, <2>1, <3>1, NoneIsNoRecord DEF TableKept, TypeOK, Exists, Postponed
      <3> QED
        BY <1>1, <1>2, <2>1, <3>1, <3>2, SavedType, ResumeInv
    <2>3. CASE ~Live(rec[p])
      BY <1>3, <1>8, <2>3, FinishInv DEF Save
    <2> QED
      BY <2>2, <2>3
  <1> QED
    BY <1>4, <1>5, <1>6, <1>7, <1>8 DEF RefreshRow

-----------------------------------------------------------------------------
(* The workers, time and failures. *)

\* The steps of a worker between two rows: it leads, selects its batch and takes one row after
\* another.
LEMMA SyncInv ==
  ASSUME NEW w \in Workers, IInv, Sync(w)
  PROVE  IInv'
  <1> USE DEF IInv
  <1>1. CASE Lead(w) \/ StartSync(w) \/ SelectDue(w) \/ EndSync(w)
    <2>1. /\ UNCHANGED <<table, lock, rec, loc, arg, calls, bounds>>
          /\ pc[w] \in {"off", "lead", "due", "batch"}
          /\ leader' \in Workers \cup {None} /\ scheduler' \in Workers \cup {None}
      BY <1>1 DEF Lead, StartSync, SelectDue, EndSync, TypeOK
    <2>2. PICK s \in {"lead", "due", "batch"} : pc' = [pc EXCEPT ![w] = s]
      BY <1>1 DEF Lead, StartSync, SelectDue, EndSync, Goto
    <2>3. /\ todo' \in [Workers -> SUBSET Rows]
          /\ \A v \in Workers : \A r \in todo'[v] : Exists(r)
      BY <1>1 DEF Lead, StartSync, SelectDue, EndSync, Batches, DueRows, Live, Exists, TypeOK,
         Inserted
    <2>4. \A q \in Procs : pc'[q] = IF q = w THEN s ELSE pc[q]
      BY <2>2 DEF TypeOK
    <2>5. TypeOK'
      BY <2>1, <2>2, <2>3 DEF TypeOK, Steps
    <2>6. Holds' /\ Inserted' /\ LockHeld'
      BY <2>1, <2>3, <2>4 DEF Holds, Inserted, LockHeld, OnRow, Guarded, WithCopy, Exists
    <2>7. OneCreator' /\ SubmittedOnce'
      BY <2>1, <2>4 DEF OneCreator, Creating, SubmittedOnce, Exists
    <2> QED
      BY <2>5, <2>6, <2>7
  <1>2. CASE TakeNext(w)
    <2>1. PICK r \in todo[w] :
            /\ todo' = [todo EXCEPT ![w] = @ \ {r}]
            /\ IF lock[r] = None
               THEN /\ lock' = [lock EXCEPT ![r] = w]
                    /\ rec' = [rec EXCEPT ![w] = r]
                    /\ Goto(w, "load")
               ELSE UNCHANGED <<lock, rec, pc>>
      BY <1>2 DEF TakeNext
    <2>2. /\ r \in Rows /\ Exists(r)
          /\ UNCHANGED <<table, leader, scheduler, loc, arg, calls, bounds>>
          /\ pc[w] = "batch"
      BY <1>2 DEF TakeNext, TypeOK, Inserted
    <2>3. /\ todo' \in [Workers -> SUBSET Rows]
          /\ \A v \in Workers : todo'[v] \subseteq todo[v]
      BY <2>1 DEF TypeOK
    <2>4. Inserted'
      BY <2>2, <2>3 DEF Inserted, Exists
    <2>5. CASE lock[r] # None
      BY <2>1, <2>2, <2>3, <2>4, <2>5 DEF TypeOK, Holds, LockHeld, OneCreator, SubmittedOnce,
         Exists
    <2>6. CASE lock[r] = None
      <3>1. /\ \A q \in Procs : pc'[q] = IF q = w THEN "load" ELSE pc[q]
            /\ \A q \in Procs : rec'[q] = IF q = w THEN r ELSE rec[q]
            /\ \A t \in Rows : lock'[t] = IF t = r THEN w ELSE lock[t]
        BY <2>1, <2>2, <2>6 DEF TypeOK, Goto
      <3>2. TypeOK'
        BY <2>1, <2>2, <2>3, <2>6 DEF TypeOK, Steps, Goto
      <3>3. Holds'
        BY <2>2, <3>1 DEF Holds, OnRow, Guarded, WithCopy, Exists
      <3>4. LockHeld'
        BY <2>2, <2>6, <3>1, ConstantsOK DEF LockHeld, Holds, OnRow
      <3>5. OneCreator' /\ SubmittedOnce'
        BY <2>2, <3>1 DEF OneCreator, Creating, SubmittedOnce, Exists
      <3> QED
        BY <2>4, <3>2, <3>3, <3>4, <3>5
    <2> QED
      BY <2>5, <2>6
  <1> QED
    BY <1>1, <1>2 DEF Sync

\* An operation that dies lets go of what it holds.
LEMMA DieInv ==
  ASSUME NEW p \in Procs, IInv, Die(p)
  PROVE  IInv'
  <1>1. failures + 1 \in 0..MaxFailures
    BY ConstantsOK DEF Die, IInv, TypeOK
  <1>2. TableKept
    BY <1>1, SameTable DEF Die, IInv, TypeOK
  <1> QED
    BY <1>2, FinishInv DEF Die

\* A worker that restarts takes neither a lock nor a copy along.
LEMMA RestartInv ==
  ASSUME NEW w \in Workers, IInv, Restart(w)
  PROVE  IInv'
  <1> USE DEF IInv
  <1>1. /\ failures' \in 0..MaxFailures
        /\ lock' = [r \in Rows |-> IF lock[r] = w THEN None ELSE lock[r]]
        /\ pc' = [pc EXCEPT ![w] = "off"]
        /\ rec' = [rec EXCEPT ![w] = None]
        /\ loc' = [loc EXCEPT ![w] = None]
        /\ todo' = [todo EXCEPT ![w] = {}]
        /\ UNCHANGED <<table, arg, calls, requests>>
        /\ leader' \in Workers \cup {None} /\ scheduler' \in Workers \cup {None}
    BY ConstantsOK DEF Restart, Goto, TypeOK
  <1>2. \A q \in Procs : /\ pc'[q] = IF q = w THEN "off" ELSE pc[q]
                         /\ q # w => rec'[q] = rec[q] /\ loc'[q] = loc[q]
    BY <1>1 DEF TypeOK
  <1>3. TypeOK'
    BY <1>1 DEF TypeOK, Steps
  <1>4. Holds'
    BY <1>1, <1>2 DEF Holds, OnRow, Guarded, WithCopy, Exists
  <1>5. Inserted'
    BY <1>1 DEF Inserted, Exists, TypeOK
  <1>6. LockHeld'
    BY <1>1, <1>2 DEF LockHeld, Guarded, Holds, OnRow
  <1>7. OneCreator' /\ SubmittedOnce'
    BY <1>1, <1>2 DEF OneCreator, Creating, SubmittedOnce, Exists
  <1> QED
    BY <1>3, <1>4, <1>5, <1>6, <1>7

\* Time only makes rows due.
LEMMA ElapseInv ==
  ASSUME NEW r \in Rows, IInv, Elapse(r)
  PROVE  IInv'
  BY DEF Elapse, IInv, TypeOK, Holds, Inserted, LockHeld, OneCreator, SubmittedOnce, Exists

-----------------------------------------------------------------------------
(* The invariant is inductive. *)

\* The invariant is inductive.
THEOREM StepInv == IInv /\ [Next]_vars => IInv'
  <1> SUFFICES ASSUME IInv, [Next]_vars PROVE IInv'
    OBVIOUS
  <1>1. CASE UNCHANGED vars
    BY <1>1 DEF vars, IInv, TypeOK, Holds, Inserted, LockHeld, OneCreator, SubmittedOnce, Exists
  <1>2. CASE Next
    BY <1>2, AskInv, ServeInv, RefreshRowInv, DieInv, SyncInv, RestartInv, ElapseInv DEF Next
  <1> QED
    BY <1>1, <1>2

\* The invariant holds in every reachable state, for every choice of the constants.
THEOREM InductiveInvariant == Spec => []IInv
  BY InitInv, StepInv, PTL DEF Spec

-----------------------------------------------------------------------------
(* What the records say: the invariant behind StoredReady, the action      *)
(* properties and the refinement.                                          *)

Unanswered == {"SUBMITTING", "SUBMISSION_UNKNOWN"}
Over == {"FAILED", "CANCELED", "UNKNOWN"}
Saves == {"save_submitted", "save_queried", "save_archived", "save_last"}
Refreshing == {"query", "archive", "cover"} \cup Saves

\* What a record of row r says of the task, the video and the cover agrees.
Sane(r, l) ==
  /\ l.status \in Unanswered => l.task = 0
  /\ l.status \notin Unanswered \cup {"FAILED"} => l.task # 0
  /\ l.aliyun \/ l.archived \/ l.storage = "STORED" => l.status = "SUCCEEDED"
  /\ l.storage = "STORED" \/ l.coverKey => l.archived
  /\ l.cover = "user" => l.coverKey
  /\ r \notin Legacy => /\ l.title # None
                        /\ l.storage = "STORED" => l.coverKey /\ l.cover # "none"

\* Nothing is known of a task that was not asked for.
Asked(r, l) == l.status \notin Unanswered => calls[r] > 0

\* The copy m may replace the record l: l has something left to do, and m takes nothing of it back.
Ahead(l, m) ==
  /\ l.status \notin Over /\ ~Complete(l)
  /\ l.status \notin Unanswered => m.status \notin Unanswered
  /\ l.task # 0 => m.task = l.task
  /\ l.archived => m.archived
  /\ l.coverKey => m.coverKey
  /\ l.cover = "user" => m.cover = "user"

\* What a copy is like at the step s.
Stage(s, l) ==
  /\ s = "query" => l.status \in {"PENDING", "RUNNING", "SUCCEEDED"} /\ ~l.aliyun
  /\ s = "archive" => l.status = "SUCCEEDED"
  /\ s \in {"query", "save_submitted", "save_queried"} => ~l.archived
  /\ s \in {"cover", "save_archived"} => l.archived /\ l.cover = "none"
  /\ s \in Saves => l.status # "SUBMITTING"

RowsSane == \A r \in Rows : Exists(r) => Sane(r, row[r]) /\ Asked(r, row[r])

\* The copy of a creator is the row as inserted; that of a refresh may replace the row; the cover is
\* set by the user only where the row was read, under the lock, as having one of its own.
CopySane(p) ==
  /\ pc[p] \in Creating => loc[p].status = "SUBMITTING" /\ Sane(rec[p], loc[p])
  /\ pc[p] \in Refreshing => /\ Sane(rec[p], loc[p]) /\ Asked(rec[p], loc[p])
                             /\ Stage(pc[p], loc[p]) /\ Ahead(row[rec[p]], loc[p])
  /\ pc[p] = "metadata_write" /\ arg[p].cover # "none" => row[rec[p]].coverKey

RInv == RowsSane /\ \A p \in Procs : CopySane(p)

-----------------------------------------------------------------------------
(* What _apply, _complete_assets and _refresh do to a record that makes sense. *)

\* The record of a new task.
LEMMA NewRecordSane ==
  ASSUME NEW a \in CreateRequest, NEW r \in Rows
  PROVE  /\ NewRecord(a) \in VideoRecord /\ NewRecord(a).status = "SUBMITTING"
         /\ Sane(r, NewRecord(a))
  BY ConstantsOK
  DEF NewRecord, CreateRequest, VideoRecord, Covers, VideoStatus, VideoStorageStatus, Sane, Unanswered

\* _complete_assets with an archived video gives the record a cover, or reports it as stored.
LEMMA AfterArchiveSane ==
  ASSUME NEW r \in Rows, NEW l \in VideoRecord, Sane(r, l), l.archived
  PROVE  /\ AfterArchive(l).pc \in Saves
         /\ Sane(r, AfterArchive(l).loc) /\ Stage(AfterArchive(l).pc, AfterArchive(l).loc)
         /\ AfterArchive(l).loc.status = "SUCCEEDED" /\ AfterArchive(l).loc.archived
         /\ AfterArchive(l).loc.task = l.task /\ AfterArchive(l).loc.title = l.title
         /\ l.coverKey => AfterArchive(l).loc.coverKey
         /\ l.cover = "user" => AfterArchive(l).loc.cover = "user"
  BY DEF AfterArchive, At, VideoRecord, Sane, Stage, Saves, Unanswered

\* _complete_assets takes nothing back of a generated video.
LEMMA CompleteAssetsSane ==
  ASSUME NEW r \in Rows, NEW l \in VideoRecord, Sane(r, l), l.status = "SUCCEEDED"
  PROVE  /\ Sane(r, CompleteAssets(l).loc) /\ Stage(CompleteAssets(l).pc, CompleteAssets(l).loc)
         /\ CompleteAssets(l).pc \in Refreshing
         /\ CompleteAssets(l).loc.status = "SUCCEEDED"
         /\ ~Complete(l) => Ahead(l, CompleteAssets(l).loc)
<1> DEFINE t == IF l.title = None THEN DerivedTitle ELSE l.title
           titled == [l EXCEPT !.title = t]
<1>1. t \in Titles /\ t # None
  BY ConstantsOK DEF DerivedTitle, VideoRecord
<1>2. CompleteAssets(l) = IF titled.archived THEN AfterArchive(titled)
                          ELSE At(titled, IF titled.aliyun THEN "archive" ELSE "save_last")
  BY DEF CompleteAssets, VideoRecord
<1> HIDE DEF t
<1>3. /\ titled \in VideoRecord /\ titled.status = l.status /\ titled.task = l.task
      /\ titled.archived = l.archived /\ titled.aliyun = l.aliyun /\ titled.coverKey = l.coverKey
      /\ titled.cover = l.cover /\ titled.storage = l.storage /\ titled.title # None
  BY <1>1 DEF VideoRecord
<1> HIDE DEF titled
<1>4. Sane(r, titled)
  BY <1>3 DEF Sane
<1>5. CASE titled.archived
  BY <1>2, <1>3, <1>4, <1>5, AfterArchiveSane DEF Ahead, Over, Unanswered, Refreshing, Saves
<1>6. CASE ~titled.archived
  BY <1>2, <1>3, <1>4, <1>6 DEF At, Stage, Ahead, Over, Unanswered, Refreshing, Saves
<1> QED BY <1>5, <1>6

\* _refresh goes on only with a record that has something left to do, and takes nothing of it back.
LEMMA RefreshSane ==
  ASSUME NEW r \in Rows, NEW l \in VideoRecord, Sane(r, l), Refresh(l).pc # "return"
  PROVE  /\ Sane(r, Refresh(l).loc) /\ Stage(Refresh(l).pc, Refresh(l).loc)
         /\ Refresh(l).pc \in Refreshing
         /\ Ahead(l, Refresh(l).loc)
         /\ Refresh(l).loc.status \notin Unanswered => l.status \notin Unanswered
<1>1. ~Complete(l)
  BY DEF Refresh, At
<1>2. CASE l.status = "SUBMITTING"
  BY <1>1, <1>2 DEF Refresh, At, VideoRecord, Sane, Stage, Ahead, Over, Unanswered, Refreshing, Saves
<1>3. CASE l.status \in {"PENDING", "RUNNING", "SUCCEEDED"} /\ ~(l.status = "SUCCEEDED" /\ (l.aliyun \/ l.archived))
  <2>1. Refresh(l) = At(l, "query")
    BY <1>1, <1>3 DEF Refresh, At
  <2>2. ~l.aliyun /\ ~l.archived
    BY <1>3 DEF Sane, VideoRecord
  <2> QED BY <1>1, <1>3, <2>1, <2>2 DEF At, Sane, Stage, Ahead, Over, Unanswered, Refreshing, Saves
<1>4. CASE l.status = "SUCCEEDED" /\ (l.aliyun \/ l.archived)
  <2>1. Refresh(l) = CompleteAssets(l)
    BY <1>1, <1>4 DEF Refresh, At
  <2> QED BY <1>1, <1>4, <2>1, CompleteAssetsSane DEF Unanswered
<1> QED BY <1>2, <1>3, <1>4 DEF Refresh, At

\* _apply of an answer about a task that was not generated yet, or whose URL was missing.
LEMMA ApplySane ==
  ASSUME NEW r \in Rows, NEW l \in VideoRecord, Sane(r, l), ~l.archived, ~l.aliyun, NEW t \in Nat \ {0},
         NEW last, NEW a \in Answers(last)
  PROVE  /\ Sane(r, Apply(l, t, a)) /\ ~Apply(l, t, a).archived
         /\ Apply(l, t, a).status \notin Unanswered
         /\ Apply(l, t, a).task = t
         /\ Apply(l, t, a).coverKey = l.coverKey /\ Apply(l, t, a).cover = l.cover
<1>1. /\ a.status \in {"PENDING", "RUNNING", "SUCCEEDED", "FAILED", "CANCELED", "UNKNOWN"}
      /\ a.url \in BOOLEAN /\ a.url => a.status = "SUCCEEDED"
  BY DEF Answers
<1>2. l.storage # "STORED" /\ ~l.coverKey
  BY DEF Sane
<1> QED BY <1>1, <1>2 DEF Apply, VideoRecord, Sane, Unanswered

-----------------------------------------------------------------------------
(* The steps keep what the records say. *)

\* The step is one of p alone.
OnlyBy(p) ==
  \A q \in Procs \ {p} : /\ pc'[q] = pc[q] /\ rec'[q] = rec[q]
                         /\ loc'[q] = loc[q] /\ arg'[q] = arg[q]

\* Whoever works on a row under its lock is the only one: nobody else's row is written.
LEMMA RowOfOne ==
  ASSUME IInv, NEW p \in Procs, pc[p] \in Guarded, \A r \in Rows \ {rec[p]} : row'[r] = row[r],
         NEW q \in Procs \ {p}, pc[q] \in Guarded
  PROVE  row'[rec[q]] = row[rec[q]]
  BY ConstantsOK DEF IInv, LockHeld, Holds, OnRow

\* What the others have copied stays as it was.
LEMMA OthersSane ==
  ASSUME RInv, NEW p \in Procs, OnlyBy(p), NEW q \in Procs \ {p},
         pc[q] \in Guarded => row'[rec[q]] = row[rec[q]],
         pc[q] \in Guarded /\ calls[rec[q]] > 0 => calls'[rec[q]] > 0
  PROVE  CopySane(q)'
<1>1. CopySane(q)
  BY DEF RInv
<1>2. pc[q] \in Refreshing \cup {"metadata_write"} => pc[q] \in Guarded
  BY DEF Refreshing, Saves, Guarded
<1> QED BY <1>1, <1>2 DEF OnlyBy, CopySane, Asked

\* A step of p alone that leaves the table alone and keeps no copy.
LEMMA RestsSane ==
  ASSUME IInv, RInv, NEW p \in Procs, OnlyBy(p), UNCHANGED <<row, calls>>,
         pc'[p] \notin Creating \cup Refreshing \cup {"metadata_write"}
  PROVE  RInv'
<1>1. RowsSane'
  BY DEF RInv, RowsSane, Exists, Asked
<1>2. CopySane(p)'
  BY DEF CopySane
<1>3. \A q \in Procs \ {p} : CopySane(q)'
  BY OthersSane
<1> QED BY <1>1, <1>2, <1>3 DEF RInv

\* The end of an operation, whatever it has written.
LEMMA FinishSane ==
  ASSUME IInv, RInv, NEW p \in Procs, Finish(p), UNCHANGED calls, RowsSane',
         \A q \in Procs \ {p} : pc[q] \in Guarded => row'[rec[q]] = row[rec[q]]
  PROVE  RInv'
<1>1. OnlyBy(p) /\ pc'[p] \in {"batch", "idle"}
  BY DEF Finish, IInv, TypeOK, OnlyBy
<1>2. CopySane(p)'
  BY <1>1 DEF CopySane, Creating, Refreshing, Saves
<1>3. \A q \in Procs \ {p} : CopySane(q)'
  BY <1>1, OthersSane
<1> QED BY <1>2, <1>3 DEF RInv

\* An operation that ends without having written.
LEMMA FinishesSane ==
  ASSUME IInv, RInv, NEW p \in Procs, Finish(p), UNCHANGED <<row, calls>>
  PROVE  RInv'
<1>1. RowsSane'
  BY DEF RInv, RowsSane, Exists, Asked
<1> QED BY <1>1, FinishSane

\* A refresh goes on with a copy that may replace the row.
LEMMA GoesOnSane ==
  ASSUME IInv, RInv, NEW p \in Procs, pc[p] \in Guarded, UNCHANGED <<calls, rec, arg>>, RowsSane',
         \A r \in Rows \ {rec[p]} : row'[r] = row[r],
         NEW s \in Refreshing, NEW l \in VideoRecord,
         pc' = [pc EXCEPT ![p] = s], loc' = [loc EXCEPT ![p] = l],
         Sane(rec[p], l), Asked(rec[p], l), Stage(s, l), Ahead(row'[rec[p]], l)
  PROVE  RInv'
<1>1. OnlyBy(p) /\ pc'[p] = s /\ loc'[p] = l
  BY DEF IInv, TypeOK, OnlyBy
<1>2. CopySane(p)'
  BY <1>1 DEF CopySane, Creating, Refreshing, Saves, Asked
<1>3. \A q \in Procs \ {p} : CopySane(q)'
  BY <1>1, RowOfOne, OthersSane
<1> QED BY <1>2, <1>3 DEF RInv

\* A request enters, is refused the lock, or finds its key taken.
LEMMA AskSane ==
  ASSUME IInv, RInv, NEW p \in Clients, Ask(p)
  PROVE  RInv'
<1>1. OnlyBy(p) /\ UNCHANGED <<row, calls>>
      /\ pc'[p] \in {"reserve", "query_lock", "delete_lock", "metadata_lock"}
  BY DEF Ask, Create, Edit, Query, Delete, UpdateMetadata, Begin, Goto, IInv, TypeOK, OnlyBy
<1> QED BY <1>1, RestsSane DEF Creating, Refreshing, Saves

\* The row that is inserted, and its creator's copy.
LEMMA ReserveNewSane ==
  ASSUME IInv, RInv, NEW p \in Clients, ReserveNew(p)
  PROVE  RInv'
<1> DEFINE l == NewRecord(arg[p])
<1>1. PICK r \in Rows :
        /\ ~Exists(r) /\ row' = [row EXCEPT ![r] = l]
        /\ rec' = [rec EXCEPT ![p] = r] /\ loc' = [loc EXCEPT ![p] = l]
  BY DEF ReserveNew
<1>2. /\ pc[p] = "reserve" /\ pc' = [pc EXCEPT ![p] = "acquire"] /\ UNCHANGED <<calls, arg>>
      /\ arg[p] \in CreateRequest
  BY DEF ReserveNew, Goto, IInv, Holds
<1>3. l.status = "SUBMITTING" /\ Sane(r, l)
  BY <1>2, NewRecordSane
<1> HIDE DEF l
<1>4. /\ OnlyBy(p) /\ pc'[p] = "acquire" /\ rec'[p] = r /\ loc'[p] = l
      /\ row'[r] = l /\ \A t \in Rows \ {r} : row'[t] = row[t]
  BY <1>1, <1>2 DEF IInv, TypeOK, OnlyBy
<1>5. RowsSane'
  BY <1>2, <1>3, <1>4 DEF RInv, RowsSane, Exists, Asked, Unanswered
<1>6. CopySane(p)'
  BY <1>3, <1>4 DEF CopySane, Creating, Refreshing, Saves
<1>7. \A q \in Procs \ {p} : pc[q] \in OnRow => rec[q] \in Rows \ {r} /\ Exists(rec[q])
  BY <1>1 DEF IInv, Holds
<1>8. \A q \in Procs \ {p} : CopySane(q)'
  BY <1>2, <1>4, <1>7, OthersSane DEF OnRow
<1> QED BY <1>5, <1>6, <1>8 DEF RInv

\* guard() touches no record.
LEMMA TryLockSane ==
  ASSUME IInv, RInv, NEW p \in Clients, TryLock(p)
  PROVE  RInv'
<1>1. CASE Finish(p)
  BY <1>1, FinishesSane DEF TryLock
<1>2. CASE Goto(p, Locked[pc[p]]) /\ UNCHANGED <<rec, loc, arg>>
  <2>1. /\ OnlyBy(p) /\ pc'[p] \in {"submit", "load", "metadata", "delete"}
        /\ pc'[p] = "submit" => pc[p] = "acquire"
    BY <1>2 DEF TryLock, Locked, Goto, IInv, TypeOK, OnlyBy
  <2>2. UNCHANGED <<row, calls>>
    BY DEF TryLock
  <2>3. CopySane(p)'
    BY <1>2, <2>1, <2>2 DEF RInv, CopySane, Creating, Refreshing, Saves
  <2>4. \A q \in Procs \ {p} : CopySane(q)'
    BY <2>1, <2>2, OthersSane
  <2> QED BY <2>2, <2>3, <2>4 DEF RInv, RowsSane, Exists, Asked
<1> QED BY <1>1, <1>2 DEF TryLock

\* The row of a creator waits for its first answer.
LEMMA CreatorsRow ==
  ASSUME IInv, RInv, NEW p \in Procs, pc[p] \in Creating
  PROVE  rec[p] \in Rows /\ row[rec[p]].status \in Unanswered /\ row[rec[p]].task = 0
<1>1. rec[p] \in Rows /\ Exists(rec[p]) /\ calls[rec[p]] = 0
  BY DEF IInv, Holds, OnRow, Guarded, Creating, OneCreator
<1> QED BY <1>1 DEF RInv, RowsSane, Asked, Sane

\* The answer of the provider, or its absence, in the creator's copy.
LEMMA SubmitTaskSane ==
  ASSUME IInv, RInv, NEW p \in Clients, SubmitTask(p)
  PROVE  RInv'
<1> DEFINE r == rec[p]
<1>1. /\ pc[p] = "submit" /\ pc' = [pc EXCEPT ![p] = "save_submitted"]
      /\ calls' = [calls EXCEPT ![r] = @ + 1] /\ UNCHANGED <<row, rec, arg>>
  BY DEF SubmitTask, Goto
<1>2. /\ r \in Rows /\ loc[p] \in VideoRecord /\ calls[r] = 0 /\ Exists(r)
      /\ row[r].status \in Unanswered /\ row[r].task = 0 /\ Sane(r, row[r])
  BY <1>1, CreatorsRow DEF IInv, Holds, OnRow, Guarded, WithCopy, OneCreator, Creating, RInv, RowsSane
<1>3. loc[p].status = "SUBMITTING" /\ Sane(r, loc[p])
  BY <1>1 DEF RInv, CopySane, Creating
<1>4. ~loc[p].archived /\ ~loc[p].aliyun /\ ~loc[p].coverKey /\ loc[p].cover # "user" /\ loc[p].storage # "STORED"
  BY <1>2, <1>3 DEF Sane, VideoRecord
<1>5. PICK l : loc' = [loc EXCEPT ![p] = l] /\ Sane(r, l) /\ ~l.archived /\ l.status # "SUBMITTING"
  <2>1. CASE \E a \in Answers("PENDING") : loc' = [loc EXCEPT ![p] = Apply(loc[p], calls[r] + 1, a)]
    <3>1. PICK a \in Answers("PENDING") : loc' = [loc EXCEPT ![p] = Apply(loc[p], calls[r] + 1, a)]
      BY <2>1
    <3> DEFINE l == Apply(loc[p], calls[r] + 1, a)
    <3>2. calls[r] + 1 \in Nat \ {0}
      BY <1>2
    <3>3. Sane(r, l) /\ ~l.archived /\ l.status \notin Unanswered
      BY <1>2, <1>3, <1>4, <3>2, ApplySane
    <3> HIDE DEF l
    <3> QED BY <3>1, <3>3 DEF l, Unanswered
  <2>2. CASE \E s \in {"SUBMISSION_UNKNOWN", "FAILED"} : loc' = [loc EXCEPT ![p].status = s]
    <3>1. PICK s \in {"SUBMISSION_UNKNOWN", "FAILED"} : loc' = [loc EXCEPT ![p].status = s]
      BY <2>2
    <3> DEFINE l == [loc[p] EXCEPT !.status = s]
    <3>2. loc' = [loc EXCEPT ![p] = l]
      BY <3>1 DEF IInv, TypeOK
    <3>3. Sane(r, l) /\ ~l.archived /\ l.status # "SUBMITTING"
      BY <1>2, <1>3, <1>4 DEF Sane, VideoRecord, Unanswered
    <3> QED BY <3>2, <3>3
  <2> QED BY <2>1, <2>2 DEF SubmitTask
<1>6. /\ OnlyBy(p) /\ pc'[p] = "save_submitted" /\ loc'[p] = l /\ rec'[p] = r
      /\ \A t \in Rows : calls'[t] = IF t = r THEN 1 ELSE calls[t]
  BY <1>1, <1>2, <1>5 DEF IInv, TypeOK, OnlyBy
<1>7. RowsSane'
  BY <1>1, <1>6 DEF RInv, RowsSane, Exists, Asked
<1>8. Ahead(row[r], l)
  <2>1. row[r] \in VideoRecord
    BY <1>2 DEF IInv, TypeOK, Exists
  <2> QED BY <1>2, <2>1 DEF Ahead, Sane, Over, Unanswered, Complete, VideoRecord
<1>9. CopySane(p)'
  BY <1>1, <1>2, <1>5, <1>6, <1>8 DEF CopySane, Asked, Stage, Creating, Refreshing, Saves
<1>10. \A q \in Procs \ {p} : CopySane(q)'
  <2>1. \A t \in Rows : calls[t] > 0 => calls'[t] > 0
    BY <1>6
  <2>2. \A q \in Procs : pc[q] \in Guarded => rec[q] \in Rows
    BY DEF IInv, Holds, OnRow
  <2> QED BY <1>1, <1>6, <2>1, <2>2, OthersSane
<1> QED BY <1>7, <1>9, <1>10 DEF RInv

\* update_metadata and delete: the cover that is replaced is there, whatever happened in between.
LEMMA MetadataSane ==
  ASSUME IInv, RInv, NEW p \in Clients, ReadMetadata(p) \/ WriteMetadata(p) \/ DeleteRow(p)
  PROVE  RInv'
<1> DEFINE r == rec[p]
<1>1. /\ pc[p] \in {"metadata", "metadata_write", "delete"} /\ r \in Rows /\ Exists(r)
      /\ row[r] \in VideoRecord /\ Sane(r, row[r]) /\ Asked(r, row[r]) /\ UNCHANGED calls
  BY DEF ReadMetadata, WriteMetadata, DeleteRow, IInv, TypeOK, Exists, Holds, OnRow, Guarded, RInv, RowsSane
<1>2. pc[p] \in Guarded
  BY <1>1 DEF Guarded
<1>3. CASE ReadMetadata(p)
  <2>1. CASE Finish(p)
    BY <1>3, <2>1, FinishesSane DEF ReadMetadata
  <2>2. CASE Goto(p, "metadata_write") /\ UNCHANGED <<lock, rec, loc, arg>>
    <3>1. arg[p].cover # "none" => row[r].coverKey
      BY <1>3, <2>2, ConstantsOK DEF ReadMetadata, Finish, Goto, IInv, TypeOK
    <3>2. OnlyBy(p) /\ pc'[p] = "metadata_write" /\ UNCHANGED <<row, calls, rec, arg>>
      BY <1>3, <2>2 DEF ReadMetadata, Goto, IInv, TypeOK, OnlyBy
    <3>3. CopySane(p)'
      BY <3>1, <3>2 DEF CopySane, Creating, Refreshing, Saves
    <3>4. \A q \in Procs \ {p} : CopySane(q)'
      BY <3>2, OthersSane
    <3> QED BY <3>2, <3>3, <3>4 DEF RInv, RowsSane, Exists, Asked
  <2> QED BY <1>3, <2>1, <2>2 DEF ReadMetadata
<1>4. CASE WriteMetadata(p)
  <2>1. Finish(p) /\ pc[p] = "metadata_write" /\ arg[p] \in MetadataUpdate
    BY <1>4 DEF WriteMetadata, IInv, Holds
  <2>2. CASE Live(r)
    <3> DEFINE t == IF arg[p].title = None THEN row[r].title ELSE arg[p].title
               c == IF arg[p].cover = "none" THEN row[r].cover ELSE "user"
               l == [row[r] EXCEPT !.title = t, !.cover = c]
    <3>1. row' = [row EXCEPT ![r] = l]
      BY <1>1, <1>4, <2>2 DEF WriteMetadata, IInv, TypeOK, VideoRecord
    <3>2. arg[p].cover # "none" => row[r].coverKey
      BY <2>1 DEF RInv, CopySane
    <3>3. row[r].title # None => t # None
      OBVIOUS
    <3>4. c = row[r].cover \/ (c = "user" /\ row[r].coverKey)
      BY <3>2
    <3> HIDE DEF t, c
    <3>5. /\ l.title = t /\ l.cover = c /\ l.status = row[r].status /\ l.task = row[r].task
          /\ l.storage = row[r].storage /\ l.aliyun = row[r].aliyun /\ l.archived = row[r].archived
          /\ l.coverKey = row[r].coverKey
      BY <1>1 DEF VideoRecord
    <3> HIDE DEF l
    <3>6. Sane(r, l) /\ Asked(r, l)
      BY <1>1, <3>3, <3>4, <3>5 DEF Sane, Asked
    <3>7. row'[r] = l /\ \A s \in Rows \ {r} : row'[s] = row[s]
      BY <1>1, <3>1 DEF IInv, TypeOK
    <3>8. RowsSane'
      BY <1>1, <3>6, <3>7 DEF RInv, RowsSane, Exists, Asked
    <3> QED BY <1>1, <1>2, <2>1, <3>7, <3>8, RowOfOne, FinishSane
  <2>3. CASE ~Live(r)
    BY <1>1, <1>4, <2>1, <2>3, FinishesSane DEF WriteMetadata
  <2> QED BY <2>2, <2>3
<1>5. CASE DeleteRow(p)
  <2> DEFINE l == [row[r] EXCEPT !.live = FALSE]
  <2>1. row' = [row EXCEPT ![r] = l] /\ Finish(p)
    BY <1>5 DEF DeleteRow
  <2>2. Sane(r, l) /\ Asked(r, l)
    BY <1>1 DEF Sane, Asked, VideoRecord
  <2> HIDE DEF l
  <2>3. row'[r] = l /\ \A s \in Rows \ {r} : row'[s] = row[s]
    BY <1>1, <2>1 DEF IInv, TypeOK
  <2>4. RowsSane'
    BY <1>1, <2>2, <2>3 DEF RInv, RowsSane, Exists, Asked
  <2> QED BY <1>1, <1>2, <2>1, <2>3, <2>4, RowOfOne, FinishSane
<1> QED BY <1>3, <1>4, <1>5

\* All steps of a request.
LEMMA ServeSane ==
  ASSUME IInv, RInv, NEW p \in Clients, Serve(p)
  PROVE  RInv'
<1>1. CASE ReserveTaken(p)
  BY <1>1, FinishesSane DEF ReserveTaken
<1> QED BY <1>1, ReserveNewSane, TryLockSane, SubmitTaskSane, MetadataSane DEF Serve

\* What a refresh has found out, in its copy.
LEMMA ResumeSane ==
  ASSUME IInv, RInv, NEW p \in Procs, pc[p] \in Guarded, UNCHANGED calls, RowsSane',
         \A r \in Rows \ {rec[p]} : row'[r] = row[r], NEW s, Resume(p, s), s.loc \in VideoRecord,
         s.pc # "return" => /\ s.pc \in Refreshing
                            /\ Sane(rec[p], s.loc) /\ Asked(rec[p], s.loc)
                            /\ Stage(s.pc, s.loc) /\ Ahead(row'[rec[p]], s.loc)
  PROVE  RInv'
<1>1. CASE s.pc = "return"
  BY <1>1, RowOfOne, FinishSane DEF Resume
<1>2. CASE s.pc # "return"
  BY <1>2, GoesOnSane DEF Resume
<1> QED BY <1>1, <1>2

\* The copy that a refresh may write, and the row it may be written to.
LEMMA Copied ==
  ASSUME IInv, RInv, NEW p \in Procs, pc[p] \in Refreshing
  PROVE  /\ pc[p] \in Guarded /\ rec[p] \in Rows /\ Exists(rec[p]) /\ loc[p] \in VideoRecord
         /\ row[rec[p]] \in VideoRecord
         /\ Sane(rec[p], loc[p]) /\ Asked(rec[p], loc[p])
         /\ Stage(pc[p], loc[p]) /\ Ahead(row[rec[p]], loc[p])
<1>1. pc[p] \in Guarded \cap OnRow \cap WithCopy
  BY DEF Refreshing, Saves, Guarded, OnRow, WithCopy
<1>2. rec[p] \in Rows /\ Exists(rec[p]) /\ loc[p] \in VideoRecord
  BY <1>1 DEF IInv, Holds
<1>3. row[rec[p]] \in VideoRecord
  BY <1>2 DEF IInv, TypeOK, Exists
<1> QED BY <1>1, <1>2, <1>3 DEF RInv, CopySane

\* The steps of a refresh that write nothing.
LEMMA RefreshesSane ==
  ASSUME IInv, RInv, NEW p \in Procs, Load(p) \/ QueryTask(p) \/ ArchiveVideo(p) \/ ArchiveCover(p)
  PROVE  RInv'
<1> DEFINE r == rec[p]
           l == loc[p]
<1>1. UNCHANGED <<row, calls>> /\ RowsSane'
  BY DEF Load, QueryTask, ArchiveVideo, ArchiveCover, RInv, RowsSane, Exists, Asked
<1>2. CASE Load(p)
  <2>1. pc[p] \in Guarded /\ pc[p] \in OnRow
    BY <1>2 DEF Load, Guarded, OnRow
  <2>2. r \in Rows /\ row[r] \in VideoRecord /\ Sane(r, row[r]) /\ Asked(r, row[r])
    BY <2>1 DEF IInv, Holds, TypeOK, Exists, RInv, RowsSane
  <2>3. CASE Resume(p, Refresh(row[r]))
    <3> DEFINE s == Refresh(row[r])
    <3>1. s.loc \in VideoRecord
      BY <2>2, RefreshType
    <3>2. s.pc # "return" => /\ s.pc \in Refreshing /\ Sane(r, s.loc) /\ Asked(r, s.loc)
                             /\ Stage(s.pc, s.loc) /\ Ahead(row[r], s.loc)
      BY <2>2, RefreshSane DEF Asked
    <3> HIDE DEF s
    <3> QED BY <1>1, <2>1, <2>3, <3>1, <3>2, ResumeSane DEF s
  <2> QED BY <1>1, <1>2, <2>3, FinishesSane DEF Load
<1>3. CASE QueryTask(p)
  <2>1. pc[p] = "query" /\ pc[p] \in Refreshing /\ UNCHANGED <<rec, arg>>
    BY <1>3 DEF QueryTask, Refreshing
  <2>2. /\ pc[p] \in Guarded /\ r \in Rows /\ l \in VideoRecord /\ Sane(r, l) /\ Asked(r, l)
        /\ Ahead(row[r], l) /\ l.status \in {"PENDING", "RUNNING", "SUCCEEDED"} /\ ~l.aliyun /\ ~l.archived
    BY <2>1, Copied DEF Stage
  <2>3. l.task \in Nat \ {0} /\ calls[r] > 0 /\ ~l.coverKey
    BY <2>2 DEF Sane, Asked, Unanswered, VideoRecord
  <2>4. CASE Goto(p, "save_last") /\ UNCHANGED loc
    <3>1. loc' = [loc EXCEPT ![p] = l] /\ pc' = [pc EXCEPT ![p] = "save_last"]
      BY <2>4 DEF Goto, IInv, TypeOK
    <3>2. Stage("save_last", l) /\ "save_last" \in Refreshing
      BY <2>2 DEF Stage, Refreshing, Saves
    <3> QED BY <1>1, <2>1, <2>2, <3>1, <3>2, GoesOnSane
  <2>5. CASE \E a \in Answers(l.status) : loc' = [loc EXCEPT ![p] = Apply(l, l.task, a)] /\ Goto(p, "save_queried")
    <3>1. PICK a \in Answers(l.status) :
            loc' = [loc EXCEPT ![p] = Apply(l, l.task, a)] /\ pc' = [pc EXCEPT ![p] = "save_queried"]
      BY <2>5 DEF Goto
    <3> DEFINE m == Apply(l, l.task, a)
    <3>2. m \in VideoRecord
      BY <2>2, <2>3, ApplyType
    <3>3. /\ Sane(r, m) /\ ~m.archived /\ m.status \notin Unanswered /\ m.task = l.task
          /\ m.coverKey = l.coverKey /\ m.cover = l.cover
      BY <2>2, <2>3, ApplySane
    <3> HIDE DEF m
    <3>4. Asked(r, m) /\ Stage("save_queried", m) /\ Ahead(row[r], m) /\ "save_queried" \in Refreshing
      BY <2>2, <2>3, <3>3 DEF Asked, Stage, Ahead, Unanswered, Refreshing, Saves
    <3>5. loc' = [loc EXCEPT ![p] = m]
      BY <3>1 DEF m
    <3> QED BY <1>1, <2>1, <2>2, <3>1, <3>2, <3>3, <3>4, <3>5, GoesOnSane
  <2> QED BY <1>3, <2>4, <2>5 DEF QueryTask
<1>4. CASE ArchiveVideo(p) \/ ArchiveCover(p)
  <2>1. pc[p] \in {"archive", "cover"} /\ pc[p] \in Refreshing
    BY <1>4 DEF ArchiveVideo, ArchiveCover, Refreshing
  <2>2. /\ pc[p] \in Guarded /\ r \in Rows /\ l \in VideoRecord /\ Sane(r, l) /\ Asked(r, l)
        /\ Ahead(row[r], l) /\ l.status = "SUCCEEDED"
        /\ pc[p] = "cover" => l.archived /\ l.cover = "none"
    BY <2>1, Copied DEF Stage, Sane
  <2>3. PICK s : /\ Resume(p, s) /\ s.loc \in VideoRecord /\ s.pc \in Saves
                 /\ Sane(r, s.loc) /\ Stage(s.pc, s.loc) /\ s.loc.status = "SUCCEEDED" /\ s.loc.task = l.task
                 /\ l.archived => s.loc.archived
                 /\ l.coverKey => s.loc.coverKey
                 /\ l.cover = "user" => s.loc.cover = "user"
    <3>1. CASE Resume(p, At([l EXCEPT !.storage = "FAILED"], "save_last"))
      <4> DEFINE m == [l EXCEPT !.storage = "FAILED"]
      <4>1. m \in VideoRecord
        BY <2>2, RecordUpdates DEF VideoStorageStatus
      <4>2. Sane(r, m) /\ m.status = "SUCCEEDED" /\ m.task = l.task /\ m.archived = l.archived
            /\ m.coverKey = l.coverKey /\ m.cover = l.cover
        BY <2>2 DEF Sane, VideoRecord
      <4> HIDE DEF m
      <4>3. Stage("save_last", m)
        BY <4>2 DEF Stage
      <4>4. Resume(p, At(m, "save_last"))
        BY <3>1 DEF m
      <4> QED BY <4>1, <4>2, <4>3, <4>4 DEF At, Saves
    <3>2. CASE pc[p] = "archive" /\ Resume(p, AfterArchive([l EXCEPT !.archived = TRUE]))
      <4> DEFINE m == [l EXCEPT !.archived = TRUE]
      <4>1. m \in VideoRecord
        BY <2>2, RecordUpdates
      <4>2. Sane(r, m) /\ m.archived /\ m.task = l.task /\ m.coverKey = l.coverKey /\ m.cover = l.cover
        BY <2>2 DEF Sane, VideoRecord
      <4> HIDE DEF m
      <4>3. Resume(p, AfterArchive(m))
        BY <3>2 DEF m
      <4> QED BY <2>2, <4>1, <4>2, <4>3, AfterArchiveType, AfterArchiveSane
    <3>3. CASE pc[p] = "cover" /\ Resume(p, At([l EXCEPT !.coverKey = TRUE, !.cover = "frame", !.storage = "STORED"], "save_last"))
      <4> DEFINE m == [l EXCEPT !.coverKey = TRUE, !.cover = "frame", !.storage = "STORED"]
      <4>1. m \in VideoRecord
        BY <2>2 DEF VideoRecord, Covers, VideoStorageStatus
      <4>2. Sane(r, m) /\ m.status = "SUCCEEDED" /\ m.task = l.task /\ m.archived /\ m.coverKey
        BY <2>2, <3>3 DEF Sane, VideoRecord
      <4> HIDE DEF m
      <4>3. Stage("save_last", m)
        BY <4>2 DEF Stage
      <4>4. Resume(p, At(m, "save_last"))
        BY <3>3 DEF m
      <4> QED BY <2>2, <3>3, <4>1, <4>2, <4>3, <4>4 DEF At, Saves
    <3> QED BY <1>4, <3>1, <3>2, <3>3 DEF ArchiveVideo, ArchiveCover
  <2>4. Asked(r, s.loc) /\ Ahead(row[r], s.loc) /\ s.pc \in Refreshing
    BY <2>2, <2>3 DEF Asked, Ahead, Unanswered, Refreshing
  <2> QED BY <1>1, <2>2, <2>3, <2>4, ResumeSane
<1> QED BY <1>2, <1>3, <1>4

\* The copy replaces the row, and the refresh goes on from there or ends.
LEMMA SaveSane ==
  ASSUME IInv, RInv, NEW p \in Procs, Save(p)
  PROVE  RInv'
<1> DEFINE r == rec[p]
           l == loc[p]
           s == Saved(p)
<1>1. pc[p] \in Saves /\ pc[p] \in Refreshing /\ UNCHANGED calls
  BY DEF Save, Saves, Refreshing
<1>2. /\ pc[p] \in Guarded /\ r \in Rows /\ Exists(r) /\ l \in VideoRecord
      /\ Sane(r, l) /\ Asked(r, l) /\ Stage(pc[p], l)
  BY <1>1, Copied
<1>3. CASE ~Live(r)
  BY <1>1, <1>3, FinishesSane DEF Save
<1>4. CASE Live(r)
  <2>1. row' = [row EXCEPT ![r] = l] /\ Resume(p, s)
    BY <1>4 DEF Save
  <2>2. row'[r] = l /\ \A t \in Rows \ {r} : row'[t] = row[t]
    BY <1>2, <2>1 DEF IInv, TypeOK
  <2>3. RowsSane'
    BY <1>1, <1>2, <2>2 DEF RInv, RowsSane, Exists, Asked
  <2>4. s.loc \in VideoRecord
    BY <1>2, SavedType
  <2>5. ASSUME s.pc # "return"
        PROVE  s.pc \in Refreshing /\ Sane(r, s.loc) /\ Asked(r, s.loc) /\ Stage(s.pc, s.loc) /\ Ahead(l, s.loc)
    <3>1. CASE pc[p] = "save_submitted"
      <4>1. l.status = "SUCCEEDED" /\ s = Refresh(l)
        BY <2>5, <3>1 DEF Saved, At
      <4> QED BY <1>2, <2>5, <4>1, RefreshSane DEF Asked, Unanswered
    <3>2. CASE pc[p] = "save_queried"
      <4>1. l.status = "SUCCEEDED" /\ s = CompleteAssets(l)
        BY <2>5, <3>2 DEF Saved, At
      <4>2. ~Complete(l)
        BY <1>2, <3>2 DEF Stage, Sane, Complete
      <4> QED BY <1>2, <4>1, <4>2, CompleteAssetsSane DEF Asked, Unanswered
    <3>3. CASE pc[p] = "save_archived"
      <4>1. s.pc = "cover" /\ s.loc = l
        BY <3>3 DEF Saved, At
      <4>2. l.archived /\ l.cover = "none" /\ l.status = "SUCCEEDED"
        BY <1>2, <3>3 DEF Stage, Sane
      <4> QED BY <1>2, <4>1, <4>2 DEF Stage, Ahead, Complete, Refreshing, Saves, Unanswered, Over
    <3>4. CASE pc[p] = "save_last"
      BY <2>5, <3>4 DEF Saved, At
    <3> QED BY <1>1, <3>1, <3>2, <3>3, <3>4 DEF Saves
  <2> HIDE DEF s
  <2> QED BY <1>1, <1>2, <2>1, <2>2, <2>3, <2>4, <2>5, ResumeSane
<1> QED BY <1>3, <1>4

\* A worker between two rows, and one that restarts, has no copy; time changes none.
LEMMA BackgroundSane ==
  ASSUME IInv, RInv, NEW w \in Workers, Sync(w) \/ Restart(w)
  PROVE  RInv'
<1>1. OnlyBy(w) /\ UNCHANGED <<row, calls>> /\ pc'[w] \in {"off", "lead", "due", "batch", "load"}
  BY DEF Sync, Lead, StartSync, SelectDue, TakeNext, EndSync, Restart, Goto, IInv, TypeOK, OnlyBy
<1> QED BY <1>1, RestsSane DEF Creating, Refreshing, Saves

\* The table an earlier release left behind makes sense.
LEMMA InitSane == Init => RInv
<1> SUFFICES ASSUME Init PROVE RInv
  OBVIOUS
<1>1. \A p \in Procs : pc[p] \in {"off", "idle"}
  BY DEF Init
<1>2. \A p \in Procs : CopySane(p)
  BY <1>1 DEF CopySane, Creating, Refreshing, Saves
<1>3. PICK old \in SUBSET Legacy, k \in Keys, h \in Hashes :
        /\ row = [r \in Rows |-> IF r \in old THEN LegacyRecord(k, h) ELSE None]
        /\ calls = [r \in Rows |-> IF r \in old THEN 1 ELSE 0]
  BY DEF Init
<1>4. \A r \in old : Sane(r, LegacyRecord(k, h))
  BY <1>3 DEF LegacyRecord, Sane, Unanswered
<1>5. RowsSane
  BY <1>3, <1>4 DEF RowsSane, Exists, Asked
<1> QED BY <1>2, <1>5 DEF RInv

\* What the records say is kept by every step.
LEMMA StepSane == IInv /\ RInv /\ [Next]_vars => RInv'
<1> SUFFICES ASSUME IInv, RInv, [Next]_vars PROVE RInv'
  OBVIOUS
<1>1. ASSUME NEW p \in Procs, RefreshRow(p) PROVE RInv'
  BY <1>1, RefreshesSane, SaveSane DEF RefreshRow
<1>2. ASSUME NEW p \in Procs, Die(p) PROVE RInv'
  BY <1>2, FinishesSane DEF Die
<1>3. ASSUME UNCHANGED <<row, calls, pc, rec, loc, arg>> PROVE RInv'
  BY <1>3 DEF RInv, RowsSane, CopySane, Exists, Asked
<1>4. CASE \E r \in Rows : Elapse(r)
  BY <1>3, <1>4 DEF Elapse
<1>5. CASE UNCHANGED vars
  BY <1>3, <1>5 DEF vars
<1> QED BY <1>1, <1>2, <1>4, <1>5, AskSane, ServeSane, BackgroundSane DEF Next

-----------------------------------------------------------------------------
(* What a step may do to a row. *)

\* Only the title, the cover or the deletion flag is written.
Relabelled(l, m) ==
  /\ m.status = l.status /\ m.task = l.task /\ m.storage = l.storage
  /\ m.archived = l.archived /\ m.coverKey = l.coverKey
  /\ l.title # None => m.title # None
  /\ m.cover = l.cover \/ m.cover = "user"

Replaced(l, m) == Ahead(l, m) /\ m.status # "SUBMITTING"

\* The statements that write the table.
LEMMA Writers ==
  ASSUME [Next]_vars, row' # row
  PROVE  \/ \E p \in Clients : ReserveNew(p) \/ (WriteMetadata(p) /\ Live(rec[p])) \/ DeleteRow(p)
         \/ \E p \in Procs : Save(p) /\ Live(rec[p])
<1>1. Next
  BY DEF vars
<1>2. ASSUME NEW p \in Clients, Ask(p) PROVE FALSE
  BY <1>2 DEF Ask, Create, Edit, Query, Delete, UpdateMetadata, Begin
<1>3. ASSUME NEW p \in Clients, Serve(p)
      PROVE  ReserveNew(p) \/ (WriteMetadata(p) /\ Live(rec[p])) \/ DeleteRow(p)
  BY <1>3 DEF Serve, ReserveTaken, TryLock, SubmitTask, ReadMetadata, WriteMetadata
<1>4. ASSUME NEW p \in Procs, RefreshRow(p) PROVE Save(p) /\ Live(rec[p])
  BY <1>4 DEF RefreshRow, Load, QueryTask, ArchiveVideo, ArchiveCover, Save
<1>5. ASSUME NEW w \in Workers, Sync(w) \/ Restart(w) PROVE FALSE
  BY <1>5 DEF Sync, Lead, StartSync, SelectDue, TakeNext, EndSync, Restart
<1>6. \A p \in Procs : ~Die(p)
  BY DEF Die
<1>7. \A r \in Rows : ~Elapse(r)
  BY DEF Elapse
<1> QED BY <1>1, <1>2, <1>3, <1>4, <1>5, <1>6, <1>7 DEF Next

\* A statement writes one row: it inserts it, relabels it, or replaces it by a copy that is ahead.
LEMMA RowWritten ==
  ASSUME IInv, RInv, [Next]_vars, row' # row
  PROVE  \E r \in Rows :
           /\ \A t \in Rows \ {r} : row'[t] = row[t]
           /\ IF Exists(r) THEN /\ row[r] \in VideoRecord /\ row'[r] \in VideoRecord
                                /\ Replaced(row[r], row'[r]) \/ Relabelled(row[r], row'[r])
              ELSE row'[r] # None /\ row'[r].status = "SUBMITTING"
<1>1. ASSUME NEW p \in Clients, ReserveNew(p)
      PROVE  \E r \in Rows : /\ ~Exists(r) /\ row'[r] # None /\ row'[r].status = "SUBMITTING"
                             /\ \A t \in Rows \ {r} : row'[t] = row[t]
  <2>1. PICK r \in Rows : ~Exists(r) /\ row' = [row EXCEPT ![r] = NewRecord(arg[p])]
    BY <1>1 DEF ReserveNew
  <2>2. NewRecord(arg[p]) \in VideoRecord /\ NewRecord(arg[p]).status = "SUBMITTING"
    BY <1>1, <2>1, NewRecordSane DEF ReserveNew, IInv, Holds
  <2> QED BY <2>1, <2>2, NoneIsNoRecord DEF IInv, TypeOK
<1>2. ASSUME NEW p \in Procs, Save(p), Live(rec[p])
      PROVE  /\ rec[p] \in Rows /\ Exists(rec[p]) /\ row[rec[p]] \in VideoRecord
             /\ row'[rec[p]] \in VideoRecord /\ Replaced(row[rec[p]], row'[rec[p]])
             /\ \A t \in Rows \ {rec[p]} : row'[t] = row[t]
  <2>1. pc[p] \in Saves /\ pc[p] \in Refreshing /\ row' = [row EXCEPT ![rec[p]] = loc[p]]
    BY <1>2 DEF Save, Saves, Refreshing
  <2>2. /\ rec[p] \in Rows /\ Exists(rec[p]) /\ loc[p] \in VideoRecord /\ row[rec[p]] \in VideoRecord
        /\ Ahead(row[rec[p]], loc[p]) /\ loc[p].status # "SUBMITTING"
    BY <2>1, Copied DEF Stage
  <2>3. row'[rec[p]] = loc[p] /\ \A t \in Rows \ {rec[p]} : row'[t] = row[t]
    BY <2>1, <2>2 DEF IInv, TypeOK
  <2> QED BY <2>2, <2>3 DEF Replaced
<1>3. ASSUME NEW p \in Clients, (WriteMetadata(p) /\ Live(rec[p])) \/ DeleteRow(p)
      PROVE  /\ rec[p] \in Rows /\ Exists(rec[p]) /\ row[rec[p]] \in VideoRecord
             /\ row'[rec[p]] \in VideoRecord /\ Relabelled(row[rec[p]], row'[rec[p]])
             /\ \A t \in Rows \ {rec[p]} : row'[t] = row[t]
  <2> DEFINE r == rec[p]
  <2>1. r \in Rows /\ Exists(r) /\ row[r] \in VideoRecord
    BY <1>3 DEF WriteMetadata, DeleteRow, IInv, Holds, OnRow, Guarded, TypeOK, Exists
  <2>2. CASE DeleteRow(p)
    <3>1. [row[r] EXCEPT !.live = FALSE] \in VideoRecord
      BY <2>1, RecordUpdates
    <3>2. row' = [row EXCEPT ![r] = [row[r] EXCEPT !.live = FALSE]]
      BY <2>2 DEF DeleteRow
    <3> QED BY <2>1, <3>1, <3>2 DEF IInv, TypeOK, Relabelled, VideoRecord
  <2>3. CASE WriteMetadata(p) /\ Live(r)
    <3> DEFINE t == IF arg[p].title = None THEN row[r].title ELSE arg[p].title
               c == IF arg[p].cover = "none" THEN row[r].cover ELSE "user"
               l == [row[r] EXCEPT !.title = t, !.cover = c]
    <3>1. row' = [row EXCEPT ![r] = l]
      BY <2>1, <2>3 DEF WriteMetadata, IInv, TypeOK, VideoRecord
    <3>2. arg[p] \in MetadataUpdate
      BY <2>3 DEF WriteMetadata, IInv, Holds
    <3>3. /\ t \in Titles \cup {None} /\ c \in Covers
          /\ row[r].title # None => t # None
          /\ c = row[r].cover \/ c = "user"
      BY <2>1, <3>2 DEF MetadataUpdate, VideoRecord, Covers
    <3> HIDE DEF t, c
    <3>4. l \in VideoRecord /\ Relabelled(row[r], l)
      BY <2>1, <3>3 DEF Relabelled, VideoRecord
    <3> HIDE DEF l
    <3> QED BY <2>1, <3>1, <3>4 DEF IInv, TypeOK
  <2> QED BY <1>3, <2>2, <2>3
<1>4. CASE \E p \in Clients : ReserveNew(p)
  BY <1>1, <1>4
<1>5. CASE \E p \in Procs : Save(p) /\ Live(rec[p])
  BY <1>2, <1>5
<1>6. CASE \E p \in Clients : (WriteMetadata(p) /\ Live(rec[p])) \/ DeleteRow(p)
  BY <1>3, <1>6
<1> QED BY <1>4, <1>5, <1>6, Writers

\* Seen from one row.
LEMMA RowKept ==
  ASSUME IInv, RInv, [Next]_vars, NEW r \in Rows, Exists(r)
  PROVE  /\ row[r] \in VideoRecord /\ row'[r] \in VideoRecord /\ Exists(r)'
         /\ Replaced(row[r], row'[r]) \/ Relabelled(row[r], row'[r])
<1>1. row[r] \in VideoRecord
  BY DEF IInv, TypeOK, Exists
<1>2. CASE row'[r] = row[r]
  BY <1>1, <1>2, NoneIsNoRecord DEF Relabelled, Exists
<1>3. CASE row'[r] # row[r]
  BY <1>1, <1>3, RowWritten, NoneIsNoRecord DEF Exists
<1> QED BY <1>2, <1>3

-----------------------------------------------------------------------------
(* The rows as jobs that are done at most once. *)

\* A saved copy brings a doubt or a verdict to a row that had none, and leaves a verdict alone.
LEMMA VerdictOfRow ==
  ASSUME IInv, RInv, [Next]_vars, NEW r \in Rows, Exists(r), UNCHANGED calls
  PROVE  \/ Verdict(r)' = Verdict(r)
         \/ Verdict(r) \notin Promise!Final /\ Verdict(r)' = "unsure"
         \/ Verdict(r) \notin Promise!Final /\ Verdict(r)' \in Promise!Final /\ calls[r] > 0
<1> USE DEF Verdict, Promise!Final
<1>1. /\ row[r] \in VideoRecord /\ row'[r] \in VideoRecord /\ Exists(r)'
      /\ Replaced(row[r], row'[r]) \/ Relabelled(row[r], row'[r])
  BY RowKept
<1>2. Sane(r, row[r]) /\ Sane(r, row'[r]) /\ (row'[r].status \notin Unanswered => calls[r] > 0)
  BY <1>1, StepSane DEF RInv, RowsSane, Asked, Exists
<1>3. CASE Relabelled(row[r], row'[r])
  BY <1>1, <1>3 DEF Relabelled
<1>4. CASE Replaced(row[r], row'[r]) /\ row[r].status \in Unanswered
  BY <1>1, <1>2, <1>4 DEF Replaced, Unanswered
<1>5. CASE Replaced(row[r], row'[r]) /\ row[r].status \notin Unanswered
  <2>1. /\ row'[r].status \notin Unanswered /\ row[r].task # 0 /\ row'[r].task = row[r].task
        /\ row[r].status # "FAILED"
    BY <1>2, <1>5 DEF Replaced, Ahead, Over, Unanswered, Sane
  <2> QED BY <1>1, <1>5, <2>1 DEF Unanswered
<1> QED BY <1>1, <1>3, <1>4, <1>5

\* Only the provider's call counts.
LEMMA OnlySubmitCalls ==
  ASSUME [Next]_vars, calls' # calls
  PROVE  \E p \in Clients : SubmitTask(p)
<1>1. Next
  BY DEF vars
<1>2. ASSUME NEW p \in Clients, Ask(p) PROVE FALSE
  BY <1>2 DEF Ask, Create, Edit, Query, Delete, UpdateMetadata, Begin
<1>3. ASSUME NEW p \in Clients, Serve(p) PROVE SubmitTask(p)
  BY <1>3 DEF Serve, ReserveNew, ReserveTaken, TryLock, ReadMetadata, WriteMetadata, DeleteRow
<1>4. ASSUME NEW p \in Procs, RefreshRow(p) \/ Die(p) PROVE FALSE
  BY <1>4 DEF RefreshRow, Load, QueryTask, ArchiveVideo, ArchiveCover, Save, Die
<1>5. ASSUME NEW w \in Workers, Sync(w) \/ Restart(w) PROVE FALSE
  BY <1>5 DEF Sync, Lead, StartSync, SelectDue, TakeNext, EndSync, Restart
<1>6. \A r \in Rows : ~Elapse(r)
  BY DEF Elapse
<1> QED BY <1>1, <1>2, <1>3, <1>4, <1>5, <1>6 DEF Next

\* The rows of a new table are jobs that wait, and those of an earlier release jobs that are done.
LEMMA PromiseBegins == Init => Promise!Init
<1> SUFFICES ASSUME Init PROVE Promise!Init
  OBVIOUS
<1>1. PICK old \in SUBSET Legacy, k \in Keys, h \in Hashes :
        /\ row = [r \in Rows |-> IF r \in old THEN LegacyRecord(k, h) ELSE None]
        /\ calls = [r \in Rows |-> IF r \in old THEN 1 ELSE 0]
  BY DEF Init
<1>2. LegacyRecord(k, h) # None /\ LegacyRecord(k, h).status = "SUCCEEDED"
  <2>1. LegacyRecord(k, h) \in VideoRecord
    BY DEF LegacyRecord, VideoRecord, Covers, VideoStatus, VideoStorageStatus
  <2> QED BY <2>1, NoneIsNoRecord DEF LegacyRecord
<1>3. ASSUME NEW r \in Rows
      PROVE  /\ (calls[r] > 0) \in BOOLEAN /\ Verdict(r) \in {"open", "accepted"}
             /\ (calls[r] > 0) <=> Verdict(r) = "accepted"
  BY <1>1, <1>2 DEF Verdict, Exists
<1> QED BY <1>3 DEF Promise!Init

\* A table of flags that differs from another by one flag that is up.
LEMMA FlagRaised ==
  ASSUME NEW S, NEW f \in [S -> BOOLEAN], NEW g \in [S -> BOOLEAN], NEW r \in S,
         g[r] = TRUE, \A t \in S \ {r} : g[t] = f[t]
  PROVE  g = [f EXCEPT ![r] = TRUE]
  OBVIOUS

\* Every step fires a job that was never fired, learns about a single one, or is none of the jobs'.
LEMMA PromiseStep == IInv /\ RInv /\ [Next]_vars => [Promise!Next]_(Promise!vars)
<1> SUFFICES ASSUME IInv, RInv, [Next]_vars PROVE [Promise!Next]_(Promise!vars)
  OBVIOUS
<1>1. CASE calls' # calls
  <2>1. PICK p \in Clients : SubmitTask(p)
    BY <1>1, OnlySubmitCalls
  <2>2. /\ pc[p] \in Creating /\ calls' = [calls EXCEPT ![rec[p]] = @ + 1] /\ UNCHANGED row
    BY <2>1 DEF SubmitTask, Creating
  <2>3. PICK r \in Rows : /\ r = rec[p] /\ row[r].status \in Unanswered /\ row[r].task = 0
                          /\ calls[r] = 0
    BY <2>2, CreatorsRow DEF IInv, OneCreator
  <2>4. Verdict(r) \notin Promise!Final
    BY <2>3 DEF Verdict, Unanswered, Promise!Final
  <2>5. \A t \in Rows : Verdict(t)' = Verdict(t)
    BY <2>2 DEF Verdict, Exists
  <2>6. Promise!Fire(r)
    <3>1. \A t \in Rows : calls'[t] > 0 <=> (t = r \/ calls[t] > 0)
      <4>1. calls \in [Rows -> Nat]
        BY DEF IInv, TypeOK
      <4> QED BY <2>2, <2>3, <4>1
    <3>2. [t \in Rows |-> calls'[t] > 0] = [[t \in Rows |-> calls[t] > 0] EXCEPT ![r] = TRUE]
      <4> DEFINE f == [t \in Rows |-> calls[t] > 0]
                 g == [t \in Rows |-> calls'[t] > 0]
      <4>1. ASSUME NEW t \in Rows
            PROVE  (calls[t] > 0) \in BOOLEAN /\ (calls'[t] > 0) \in BOOLEAN
        OBVIOUS
      <4>2. f \in [Rows -> BOOLEAN] /\ g \in [Rows -> BOOLEAN]
        BY <4>1, Zenon
      <4>3. g[r] = TRUE
        BY <3>1
      <4>4. ASSUME NEW t \in Rows \ {r} PROVE g[t] = f[t]
        <5>1. calls'[t] > 0 <=> calls[t] > 0
          BY <3>1
        <5>2. (calls'[t] > 0) = (calls[t] > 0)
          BY <5>1, <4>1, Zenon
        <5> QED BY <5>2, Zenon
      <4> HIDE DEF f, g
      <4>5. g = [f EXCEPT ![r] = TRUE]
        BY <4>2, <4>3, <4>4, FlagRaised
      <4> QED BY <4>5 DEF f, g
    <3>3. [t \in Rows |-> Verdict(t)'] = [t \in Rows |-> Verdict(t)]
      BY <2>5, Zenon
    <3>4. ~(calls[r] > 0)
      BY <2>3
    <3> QED BY <2>3, <2>4, <3>2, <3>3, <3>4, Zenon DEF Promise!Fire
  <2> QED BY <2>3, <2>6 DEF Promise!Next
<1>2. CASE UNCHANGED <<calls, row>>
  BY <1>2 DEF Promise!vars, Verdict, Exists
<1>3. CASE UNCHANGED calls /\ row' # row
  <2>1. PICK r \in Rows :
          /\ \A t \in Rows \ {r} : row'[t] = row[t]
          /\ ~Exists(r) => row'[r] # None /\ row'[r].status = "SUBMITTING"
    BY <1>3, RowWritten
  <2>2. \A t \in Rows \ {r} : Verdict(t)' = Verdict(t)
    BY <2>1 DEF Verdict, Exists
  <2>3. ~Exists(r) => Verdict(r)' = Verdict(r)
    BY <2>1 DEF Verdict, Exists
  <2>4. \/ Verdict(r)' = Verdict(r)
        \/ Verdict(r) \notin Promise!Final /\ Verdict(r)' = "unsure"
        \/ Verdict(r) \notin Promise!Final /\ Verdict(r)' \in Promise!Final /\ calls[r] > 0
    BY <1>3, <2>3, VerdictOfRow
  <2>5. CASE Verdict(r)' = Verdict(r)
    BY <1>3, <2>2, <2>5 DEF Promise!vars
  <2>6. CASE Verdict(r) \notin Promise!Final /\ Verdict(r)' = "unsure"
    <3>1. Promise!Doubt(r)
      BY <1>3, <2>2, <2>6 DEF Promise!Doubt
    <3> QED BY <3>1 DEF Promise!Next
  <2>7. CASE Verdict(r) \notin Promise!Final /\ Verdict(r)' \in Promise!Final /\ calls[r] > 0
    <3>1. Promise!Learn(r, Verdict(r)')
      BY <1>3, <2>2, <2>7 DEF Promise!Learn
    <3> QED BY <2>7, <3>1 DEF Promise!Next
  <2> QED BY <2>4, <2>5, <2>6, <2>7
<1> QED BY <1>1, <1>2, <1>3

-----------------------------------------------------------------------------
(* The theorems. *)

\* Every variable keeps its type.
THEOREM TypeCorrect == Spec => []TypeOK
  <1>1. IInv => TypeOK
    BY DEF IInv
  <1> QED
    BY <1>1, InductiveInvariant, PTL

\* Whoever works on a row under its lock holds that lock: no exit of guard() unlocks for another.
THEOREM LockDiscipline == Spec => []LockHeld
  <1>1. IInv => LockHeld
    BY DEF IInv
  <1> QED
    BY <1>1, InductiveInvariant, PTL

\* The provider is asked at most once for a row, with any number of concurrent requests, replays
\* of a key, workers, failures and restarts.
THEOREM AtMostOneSubmission == Spec => []SubmittedOnce
  <1>1. IInv => SubmittedOnce
    BY DEF IInv
  <1> QED
    BY <1>1, InductiveInvariant, PTL

\* What the records say holds in every reachable state.
THEOREM RecordsMakeSense == Spec => []RInv
  BY InductiveInvariant, InitSane, StepSane, PTL DEF Spec

\* A row of this release that is reported as stored has its title, its video and its own cover,
\* whoever worked on it in whatever order (_complete_assets, save).
THEOREM StoredIsReady == Spec => []StoredReady
<1>1. IInv /\ RInv => StoredReady
  <2> SUFFICES ASSUME IInv, RInv, NEW r \in Rows \ Legacy, Exists(r), row[r].storage = "STORED"
               PROVE  row[r].status = "SUCCEEDED" /\ row[r].task # 0 /\ row[r].archived /\ Complete(row[r])
    BY DEF StoredReady, Live
  <2>1. Sane(r, row[r])
    BY DEF RInv, RowsSane
  <2> QED BY <2>1 DEF Sane, Complete, Unanswered
<1> QED BY <1>1, InductiveInvariant, RecordsMakeSense, PTL

\* No statement takes back what another has established, although every save writes a whole record
\* that was read earlier.
THEOREM NothingIsTakenBack == Spec => NothingTakenBack
<1> DEFINE Kept == \A r \in Rows : Exists(r) =>
                     /\ row[r].task # 0 => row'[r].task = row[r].task
                     /\ row[r].status \in {"FAILED", "CANCELED", "UNKNOWN"} => row'[r].status = row[r].status
                     /\ row[r].archived => row'[r].archived /\ row'[r].status = "SUCCEEDED"
                     /\ row[r].coverKey => row'[r].coverKey
                     /\ Complete(row[r]) => Complete(row'[r])
<1>1. IInv /\ RInv /\ [Next]_vars => Kept
  <2> SUFFICES ASSUME IInv, RInv, [Next]_vars, NEW r \in Rows, Exists(r)
               PROVE  /\ row[r].task # 0 => row'[r].task = row[r].task
                      /\ row[r].status \in {"FAILED", "CANCELED", "UNKNOWN"} => row'[r].status = row[r].status
                      /\ row[r].archived => row'[r].archived /\ row'[r].status = "SUCCEEDED"
                      /\ row[r].coverKey => row'[r].coverKey
                      /\ Complete(row[r]) => Complete(row'[r])
    OBVIOUS
  <2>1. /\ row[r] \in VideoRecord /\ row'[r] \in VideoRecord /\ Exists(r)'
        /\ Replaced(row[r], row'[r]) \/ Relabelled(row[r], row'[r])
    BY RowKept
  <2>2. Sane(r, row'[r])
    BY <2>1, StepSane DEF RInv, RowsSane, Exists
  <2>3. CASE Replaced(row[r], row'[r])
    BY <2>2, <2>3 DEF Replaced, Ahead, Over, Sane
  <2>4. CASE Relabelled(row[r], row'[r])
    BY <2>2, <2>4 DEF Relabelled, Complete, Sane
  <2> QED BY <2>1, <2>3, <2>4
<1>2. IInv /\ RInv /\ [Next]_vars => [Kept]_vars
  BY <1>1
<1> QED BY <1>2, InductiveInvariant, RecordsMakeSense, PTL DEF Spec, NothingTakenBack

\* A cover the user has set stays: no refresh that read the row before replaces it by its frame.
THEOREM UserCoverIsKept == Spec => UserCoverKept
<1> DEFINE Kept == \A r \in Rows : Live(r) /\ row[r].cover = "user" => row'[r].cover = "user"
<1>1. IInv /\ RInv /\ [Next]_vars => [Kept]_vars
  BY RowKept DEF Live, Replaced, Ahead, Relabelled
<1> QED BY <1>1, InductiveInvariant, RecordsMakeSense, PTL DEF Spec, UserCoverKept

\* The service implements the abstract specification: a request to the provider is fired at most
\* once, and what was learned of it is not taken back.
THEOREM ImplementsPromise == Spec => KeepsPromise
  BY PromiseBegins, PromiseStep, InductiveInvariant, RecordsMakeSense, PTL DEF Spec, KeepsPromise, Promise!Spec

=============================================================================
