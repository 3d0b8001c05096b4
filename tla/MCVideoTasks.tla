---------------------------- MODULE MCVideoTasks ----------------------------
(* Small instances of VideoTasks. *)
EXTENDS VideoTasks, TLC

Interchangeable == Permutations(Clients) \cup Permutations(Workers)

\* For liveness, where TLC's symmetry is not sound: of the behaviours that differ in names only, one in
\* which the first row, the first key and the first leader are given ones.  No user has to ask, and
\* who may insert another row or lead instead may take the given one as well.
FirstRow == CHOOSE r \in Rows : TRUE
FirstKey == CHOOSE k \in Keys : TRUE
FirstWorker == CHOOSE w \in Workers : TRUE

NamedInOrder ==
  /\ \A r \in Rows \ {FirstRow} : Exists(r)' => Exists(FirstRow)'
  /\ requests = MaxRequests =>
       \A p \in Clients : arg'[p] \in CreateRequest => arg'[p].key = FirstKey
  /\ (leader = None /\ failures = 0) => leader' \in {FirstWorker, None}

=============================================================================
