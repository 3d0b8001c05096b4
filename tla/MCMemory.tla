------------------------------ MODULE MCMemory ------------------------------
(* Small instances of MemoryDialogue and MemoryService. *)
EXTENDS MemoryDialogue

Interchangeable == Permutations(Requests) \cup Permutations(Procs) \cup Permutations(Texts)
                   \cup Permutations(Memories)

=============================================================================
