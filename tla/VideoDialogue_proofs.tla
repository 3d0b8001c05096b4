------------------------ MODULE VideoDialogue_proofs ------------------------
(***************************************************************************)
(* Theorems about VideoDialogue, for any number of inputs, requirements    *)
(* and deliveries.                                                         *)
(*                                                                         *)
(* OneVideoPerInput needs to know that every key is made of the input      *)
(* alone (KeyByInput).  NothingStale needs to know that what is used,      *)
(* cancelled or too old belongs to turns that have ended (Past), and that  *)
(* neither the draft of the checkpoint, unless it has expired (FreshSaved),*)
(* nor the one a turn works on (FreshDraft) says any of it.                *)
(***************************************************************************)
EXTENDS VideoDialogue, TLAPS

KeyByInput == \A t \in tasks : t.key = <<t.key[1], 0>>

KInv == KeyByInput /\ OneVideoPerInput

Steps == {"idle", "loaded", "answer", "cancel", "submit", "used"}
Drafts == [want : Wants \cup {None}, create : [Fields -> Inputs \cup {None}], edit : [Fields -> Inputs \cup {None}]]

Shape ==
  /\ saved \in Drafts /\ draft \in Drafts
  /\ step \in Steps
  /\ step # "idle" => turnOf \in Inputs \ answered
  /\ step = "submit" => draft.want \in Wants
  /\ expired \in BOOLEAN

\* What is dead, and what a draft says, was said in a turn that has ended or in this one.
Past == dead \subseteq answered /\ Said(saved) \subseteq answered

FreshSaved == ~expired => Said(saved) \cap dead = {}

Told(d) == Said(d) \subseteq answered \cup {turnOf}

FreshDraft ==
  /\ step \in {"answer", "submit"} => Told(draft)
  /\ step = "submit" \/ (step = "answer" /\ (draft # saved \/ ~expired)) => Said(draft) \cap dead = {}
  /\ step \in {"cancel", "used"} => draft = NoDraft

\* The task of this turn asks for what the turn or those before it said.
FreshTask == step = "used" => \A t \in Same : Asked(t) \subseteq answered \cup {turnOf}

NInv == Shape /\ Past /\ FreshSaved /\ FreshDraft /\ FreshTask

-----------------------------------------------------------------------------
(* One video for an input. *)

LEMMA KeyStep == KInv /\ [VideoDialogueNext]_videoDialogue => KInv'
<1> SUFFICES ASSUME KInv, [VideoDialogueNext]_videoDialogue PROVE KInv'
  OBVIOUS
<1>1. CASE Reserve
  <2>1. Wanted.key = <<turnOf, 0>>
    BY DEF Wanted, KeyOf
  <2>2. \A t \in tasks : t.key[1] = turnOf => t = Wanted
    BY <1>1 DEF Reserve, Same, KeyOf, KInv, KeyByInput
  <2>3. tasks' = tasks \cup {Wanted}
    BY <1>1 DEF Reserve
  <2>4. KeyByInput'
    BY <2>1, <2>3 DEF KInv, KeyByInput
  <2>5. OneVideoPerInput'
    BY <2>1, <2>2, <2>3 DEF KInv, OneVideoPerInput
  <2> QED BY <2>4, <2>5 DEF KInv
<1>2. CASE UNCHANGED tasks
  BY <1>2 DEF KInv, KeyByInput, OneVideoPerInput
<1> QED
  BY <1>1, <1>2
  DEF VideoDialogueNext, Load, Describe, Ready, Show, Cancel, Decline, Reject, SaveTurn, Cut, Expire, videoDialogue

\* However often an input is delivered, and wherever its turn breaks, it makes one video at most
\* (video.py:395).
THEOREM OneVideo == VideoDialogueSpec => []OneVideoPerInput
<1>1. VideoDialogueInit => KInv
  BY DEF VideoDialogueInit, KInv, KeyByInput, OneVideoPerInput
<1>2. KInv => OneVideoPerInput
  BY DEF KInv
<1> QED BY <1>1, <1>2, KeyStep, PTL DEF VideoDialogueSpec

-----------------------------------------------------------------------------
(* What the drafts say. *)

LEMMA NothingSaid == NoDraft \in Drafts /\ Said(NoDraft) = {}
  BY DEF NoDraft, Blank, Drafts, Said, Wants

LEMMA Merged ==
  ASSUME NEW old \in [Fields -> Inputs \cup {None}], NEW fields, turnOf \in Inputs
  PROVE  /\ Merge(old, fields) \in [Fields -> Inputs \cup {None}]
         /\ \A f \in Fields : Merge(old, fields)[f] \in {old[f], turnOf}
  BY DEF Merge

LEMMA SaysNothingElse ==
  ASSUME NEW d \in Drafts, NEW action, NEW reset \in BOOLEAN, NEW new, NEW editing, turnOf \in Inputs
  PROVE  /\ SaveDraft(d, action, reset, new, editing) \in Drafts
         /\ Said(SaveDraft(d, action, reset, new, editing)) \subseteq Said(d) \cup {turnOf}
         /\ action \in Wants => SaveDraft(d, action, reset, new, editing).want = action
<1> DEFINE d0 == IF reset \/ (action \in Wants /\ d.want # None /\ d.want # action) THEN NoDraft ELSE d
           s == SaveDraft(d, action, reset, new, editing)
<1>1. d0 \in Drafts /\ Said(d0) \subseteq Said(d)
  BY NothingSaid
<1>2. d0.create \in [Fields -> Inputs \cup {None}] /\ d0.edit \in [Fields -> Inputs \cup {None}]
      /\ d0.want \in Wants \cup {None}
  BY <1>1 DEF Drafts
<1>3. /\ s.want = IF action \in Wants THEN action
                  ELSE IF editing # {} THEN "edit" ELSE IF new # {} THEN "create" ELSE d0.want
      /\ s.create = Merge(d0.create, new) /\ s.edit = Merge(d0.edit, editing)
      /\ s = [want |-> s.want, create |-> s.create, edit |-> s.edit]
  BY DEF SaveDraft
<1> HIDE DEF d0, s
<1>4. s.want \in Wants \cup {None}
  BY <1>2, <1>3 DEF Wants
<1>5. s \in Drafts
  BY <1>2, <1>3, <1>4, Merged DEF Drafts
<1>6. \A w \in Wants, f \in Fields : s[w][f] \in {d0[w][f], turnOf}
  BY <1>2, <1>3, Merged DEF Wants
<1>7. Said(s) \subseteq Said(d0) \cup {turnOf}
  BY <1>6 DEF Said
<1> QED BY <1>1, <1>3, <1>5, <1>7 DEF s

LEMMA Restores ==
  ASSUME NInv
  PROVE  Restored \in Drafts /\ Said(Restored) \subseteq answered /\ Said(Restored) \cap dead = {}
  BY NothingSaid DEF NInv, Shape, Past, FreshSaved, Restored

LEMMA TaskOfDraft ==
  ASSUME draft \in Drafts, draft.want \in Wants
  PROVE  Asked(Wanted) \subseteq Said(draft)
  BY DEF Wanted, Asked, Said

-----------------------------------------------------------------------------
(* The inductive step. *)

\* What the turn leaves in its draft comes from a draft that is good and from its own input.
LEMMA DraftStep ==
  ASSUME NInv, step = "loaded", NEW d \in Drafts, Said(d) \subseteq Said(Restored) \cup {turnOf},
         draft' = d, step' \in {"answer", "submit"}, step' = "submit" => d.want \in Wants,
         UNCHANGED <<saved, turnOf, answered, tasks, expired, dead>>
  PROVE  NInv'
<1>1. turnOf \notin answered /\ dead \subseteq answered
  BY DEF NInv, Shape, Past
<1>2. Said(d) \cap dead = {} /\ Said(d) \subseteq answered \cup {turnOf}
  BY <1>1, Restores
<1>3. Shape'
  BY DEF NInv, Shape, Steps
<1>4. Past' /\ FreshSaved'
  BY DEF NInv, Past, FreshSaved, Said
<1>5. FreshDraft' /\ FreshTask'
  BY <1>2 DEF FreshDraft, FreshTask, Told, Said
<1> QED BY <1>3, <1>4, <1>5 DEF NInv

LEMMA TurnStep ==
  ASSUME NInv, step = "loaded", NEW action, NEW reset \in BOOLEAN, NEW new, NEW editing,
         \/ Describe(action, reset, new, editing) \/ Ready(action, reset, new, editing)
         \/ Show(reset, editing)
  PROVE  NInv'
<1>1. turnOf \in Inputs
  BY DEF NInv, Shape
<1>2. Restored \in Drafts
  BY Restores
<1>3. CASE Describe(action, reset, new, editing)
  BY <1>1, <1>2, <1>3, SaysNothingElse, DraftStep DEF Describe
<1>4. CASE Ready(action, reset, new, editing)
  BY <1>1, <1>2, <1>4, SaysNothingElse, DraftStep DEF Ready
<1>5. CASE Show(reset, editing)
  <2>1. CASE draft' = Restored
    BY <1>2, <1>5, <2>1, DraftStep DEF Show
  <2>2. CASE draft' = SaveDraft(Restored, "edit", reset, {}, editing)
    BY <1>1, <1>2, <1>5, <2>2, SaysNothingElse, DraftStep DEF Show
  <2> QED BY <1>5, <2>1, <2>2 DEF Show
<1> QED BY <1>3, <1>4, <1>5

LEMMA DeclineStep == NInv /\ Decline => NInv'
<1> SUFFICES ASSUME NInv, Decline PROVE NInv'
  OBVIOUS
<1>1. CASE draft' = Restored
  BY <1>1, Restores, DraftStep DEF Decline
<1>2. CASE draft' = saved /\ ~expired
  BY <1>1, <1>2 DEF Restored, Decline
<1>3. CASE draft' = saved /\ expired
  <2>1. Shape' /\ Past' /\ FreshSaved'
    BY <1>3 DEF Decline, NInv, Shape, Steps, Past, FreshSaved, Said
  <2>2. FreshDraft' /\ FreshTask'
    BY <1>3 DEF Decline, NInv, Past, FreshDraft, FreshTask, Told, Said
  <2> QED BY <2>1, <2>2 DEF NInv
<1> QED BY <1>1, <1>2, <1>3 DEF Decline, NInv, Shape

LEMMA ReserveStep == NInv /\ Reserve => NInv' /\ \A t \in tasks' \ tasks : Asked(t) \cap dead = {}
<1> SUFFICES ASSUME NInv, Reserve
             PROVE  NInv' /\ \A t \in tasks' \ tasks : Asked(t) \cap dead = {}
  OBVIOUS
<1>1. /\ Asked(Wanted) \subseteq answered \cup {turnOf}
      /\ Asked(Wanted) \cap dead = {}
  <2>1. Said(draft) \subseteq answered \cup {turnOf} /\ Said(draft) \cap dead = {}
    <3>1. step = "submit"
      BY DEF Reserve
    <3> QED BY <3>1 DEF NInv, FreshDraft, Told
  <2>2. Asked(Wanted) \subseteq Said(draft)
    BY TaskOfDraft DEF Reserve, NInv, Shape
  <2> QED BY <2>1, <2>2
<1>2. Shape' /\ Past' /\ FreshSaved' /\ FreshDraft'
  BY NothingSaid DEF Reserve, NInv, Shape, Steps, Past, FreshSaved, FreshDraft, Told, Said
<1>3. \A t \in tasks' : t.key = KeyOf(turnOf') => t = Wanted
  BY DEF Reserve, Same
<1>4. FreshTask'
  BY <1>1, <1>3 DEF FreshTask, Reserve, Same, Asked
<1>5. \A t \in tasks' \ tasks : t = Wanted
  BY DEF Reserve
<1> QED BY <1>1, <1>2, <1>4, <1>5 DEF NInv

LEMMA SaveStep == NInv /\ SaveTurn => NInv'
<1> SUFFICES ASSUME NInv, SaveTurn PROVE NInv'
  OBVIOUS
<1>1. /\ step \in {"answer", "cancel", "used"} /\ turnOf \in Inputs
      /\ saved' = draft /\ answered' = answered \cup {turnOf} /\ step' = "idle" /\ draft' = NoDraft
      /\ expired' = IF step = "answer" /\ draft = saved THEN expired ELSE FALSE
  BY DEF SaveTurn, NInv, Shape
<1>0. /\ step = "answer" => dead' = dead
      /\ step = "cancel" => dead' = dead \cup Said(saved)
      /\ step = "used" => dead' = dead \cup UNION {Asked(t) : t \in Same}
  <2>1. "cancel" # "answer" /\ "used" # "answer" /\ "used" # "cancel"
    OBVIOUS
  <2> QED BY <2>1, Zenon DEF SaveTurn
<1>2. Shape'
  BY <1>1, NothingSaid DEF NInv, Shape, Steps
<1>3. FreshDraft' /\ FreshTask'
  BY <1>1 DEF FreshDraft, FreshTask
<1>4. ASSUME dead' \subseteq answered \cup {turnOf}, Said(draft) \subseteq answered \cup {turnOf},
             ~expired' => Said(draft) \cap dead' = {}
      PROVE  Past' /\ FreshSaved'
  BY <1>1, <1>4 DEF Past, FreshSaved, Said
<1>5. ASSUME step = "answer" PROVE Past' /\ FreshSaved'
  <2>1. Said(draft) \subseteq answered \cup {turnOf} /\ (draft # saved \/ ~expired => Said(draft) \cap dead = {})
    BY <1>5 DEF NInv, FreshDraft, Told
  <2>2. dead' = dead /\ dead \subseteq answered /\ (~expired' => draft # saved \/ ~expired)
    BY <1>0, <1>1, <1>5 DEF NInv, Past
  <2> QED BY <1>4, <2>1, <2>2
<1>6. ASSUME step = "cancel" PROVE Past' /\ FreshSaved'
  <2>1. Said(draft) = {} /\ dead' = dead \cup Said(saved)
    BY <1>0, <1>1, <1>6, NothingSaid DEF NInv, FreshDraft
  <2>2. dead \subseteq answered /\ Said(saved) \subseteq answered
    BY DEF NInv, Past
  <2> QED BY <1>4, <2>1, <2>2
<1>7. ASSUME step = "used" PROVE Past' /\ FreshSaved'
  <2>1. Said(draft) = {} /\ dead' = dead \cup UNION {Asked(t) : t \in Same}
    BY <1>0, <1>1, <1>7, NothingSaid DEF NInv, FreshDraft
  <2>2. dead \subseteq answered /\ \A t \in Same : Asked(t) \subseteq answered \cup {turnOf}
    BY <1>7 DEF NInv, Past, FreshTask
  <2> QED BY <1>4, <2>1, <2>2
<1>8. Past' /\ FreshSaved'
  BY <1>1, <1>5, <1>6, <1>7
<1> QED BY <1>2, <1>3, <1>8 DEF NInv

LEMMA OtherSteps ==
  NInv /\ ((\E i \in Inputs : Load(i)) \/ Cancel \/ Reject \/ Cut \/ Expire \/ UNCHANGED videoDialogue) => NInv'
<1> SUFFICES ASSUME NInv,
                    (\E i \in Inputs : Load(i)) \/ Cancel \/ Reject \/ Cut \/ Expire \/ UNCHANGED videoDialogue
             PROVE  NInv'
  OBVIOUS
<1> USE NothingSaid DEF NInv, Shape, Steps, Past, FreshSaved, FreshDraft, FreshTask
<1>1. ASSUME NEW i \in Inputs, Load(i) PROVE NInv'
  BY <1>1 DEF Load, Said
<1>2. CASE Cancel
  BY <1>2 DEF Cancel, Said
<1>3. CASE Reject
  BY <1>3 DEF Reject, Told, Said
<1>4. CASE Cut
  BY <1>4 DEF Cut, Said
<1>5. CASE Expire
  BY <1>5 DEF Expire, Told, Said
<1>6. CASE UNCHANGED videoDialogue
  BY <1>6 DEF videoDialogue, Told, Said, Same, Asked, KeyOf
<1> QED BY <1>1, <1>2, <1>3, <1>4, <1>5, <1>6

LEMMA NStep ==
  NInv /\ [VideoDialogueNext]_videoDialogue
    => NInv' /\ [\A t \in tasks' \ tasks : Asked(t) \cap dead = {}]_videoDialogue
<1> SUFFICES ASSUME NInv, [VideoDialogueNext]_videoDialogue
             PROVE  NInv' /\ [\A t \in tasks' \ tasks : Asked(t) \cap dead = {}]_videoDialogue
  OBVIOUS
<1>1. CASE Reserve
  BY <1>1, ReserveStep
<1>2. ASSUME tasks' = tasks PROVE \A t \in tasks' \ tasks : Asked(t) \cap dead = {}
  BY <1>2
<1>3. ASSUME NEW action, NEW reset \in BOOLEAN, NEW new, NEW editing,
             Describe(action, reset, new, editing) \/ Ready(action, reset, new, editing) \/ Show(reset, editing)
      PROVE  NInv' /\ tasks' = tasks
  BY <1>3, TurnStep DEF Describe, Ready, Show
<1>4. CASE Decline \/ SaveTurn
  BY <1>2, <1>4, DeclineStep, SaveStep DEF Decline, SaveTurn
<1>5. CASE (\E i \in Inputs : Load(i)) \/ Cancel \/ Reject \/ Cut \/ Expire \/ UNCHANGED videoDialogue
  <2>1. tasks' = tasks
    BY <1>5 DEF Load, Cancel, Reject, Cut, Expire, videoDialogue
  <2> QED BY <1>2, <1>5, <2>1, OtherSteps
<1> QED BY <1>1, <1>2, <1>3, <1>4, <1>5 DEF VideoDialogueNext

LEMMA NBegin == VideoDialogueInit => NInv
  BY NothingSaid
  DEF VideoDialogueInit, NInv, Shape, Steps, Past, FreshSaved, FreshDraft, FreshTask

\* A new task asks for nothing that was used, cancelled or forgotten after ten minutes, whatever
\* the model understands and whichever turns break (video.py:69, 285).
THEOREM NothingStaleAsked == VideoDialogueSpec => NothingStale
<1> QED BY NBegin, NStep, PTL DEF VideoDialogueSpec, NothingStale

=============================================================================
