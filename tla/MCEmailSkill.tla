---------------------------- MODULE MCEmailSkill ----------------------------
(* Small instances of EmailSkill: all requests are of one user. *)
EXTENDS EmailSkill

MCUserOf == [r \in Requests |-> CHOOSE u \in Users : TRUE]

=============================================================================
