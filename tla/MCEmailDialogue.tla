-------------------------- MODULE MCEmailDialogue --------------------------
(* Small instances of EmailDialogue: one user writes in one chat. *)
EXTENDS EmailDialogue, TLC

MCUserOf == [r \in Requests |-> CHOOSE u \in Users : TRUE]

Interchangeable == Permutations(Messages)

=============================================================================
