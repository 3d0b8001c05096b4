----------------------------- MODULE AtMostOnce -----------------------------
(***************************************************************************)
(* What the service promises about a request to an outside provider that   *)
(* has no idempotency of its own (a paid video generation): the request of *)
(* a job is fired at most once, a job is never reported accepted or        *)
(* refused before it was fired, and a verdict of the provider, once        *)
(* recorded, is not taken back.  "unsure" is the verdict of a job whose    *)
(* answer was lost; a late answer may still replace it, a second request   *)
(* may not.                                                                *)
(***************************************************************************)
CONSTANT Jobs

VARIABLES
  fired,     \* fired[j]: the provider was asked to do job j
  verdict    \* verdict[j]: what the service has recorded about job j

vars == <<fired, verdict>>

Verdict == {"open", "unsure", "accepted", "refused"}
Final == {"accepted", "refused"}

TypeOK ==
  /\ fired \in [Jobs -> BOOLEAN]
  /\ verdict \in [Jobs -> Verdict]

-----------------------------------------------------------------------------
\* A job that was there before may already have been done.
Init ==
  /\ fired \in [Jobs -> BOOLEAN]
  /\ verdict \in [Jobs -> {"open", "accepted"}]
  /\ \A j \in Jobs : fired[j] <=> verdict[j] = "accepted"

Fire(j) ==
  /\ ~fired[j]
  /\ verdict[j] \notin Final
  /\ fired' = [fired EXCEPT ![j] = TRUE]
  /\ UNCHANGED verdict

Doubt(j) ==
  /\ verdict[j] \notin Final
  /\ verdict' = [verdict EXCEPT ![j] = "unsure"]
  /\ UNCHANGED fired

Learn(j, v) ==
  /\ fired[j]
  /\ verdict[j] \notin Final
  /\ verdict' = [verdict EXCEPT ![j] = v]
  /\ UNCHANGED fired

Next == \E j \in Jobs : \/ Fire(j)
                        \/ Doubt(j)
                        \/ \E v \in Final : Learn(j, v)

Spec == Init /\ [][Next]_vars

=============================================================================
