---------------------------- MODULE MCVoiceTurns ----------------------------
(* Instances of VoiceTurns for TLC. *)
EXTENDS VoiceTurns, TLC

Interchangeable == Permutations(Inputs)

\* Nobody speaks, cancels a response or reports what was played.
OnlyInputs == sub'["recognize"] = Idle /\ sub'["receiver"].pc # "save_turn"

\* The client cancels and reports nothing of the last input's turn once it runs.
LastTurnLeftAlone ==
  sub'["receiver"].pc = "save_turn" => sub'["receiver"].turn # current \/ Known # Inputs \/ inputs # <<>>

\* Two instances in one.  An agent that speaks while it generates meets a second connection, after
\* a first that left an input for it, on which the client only sends inputs; one that does not
\* stop when it is cancelled asks for an approval.  While speech is submitted, the receiver does
\* nothing but submit the other input.
Kept ==
  /\ LastTurnLeftAlone
  /\ sub'["recognize"] = Idle \/ sub'["receiver"].pc # "save_turn"
  /\ streaming =>
       /\ raised' = raised
       /\ connections = 0 => OnlyInputs
       /\ connections = 1 /\ connections' = 0 => \E i \in Inputs : stored[i] = None
  /\ ~streaming => connections' >= MaxConnections - 1 /\ OnlyInputs

=============================================================================
