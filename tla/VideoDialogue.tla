--------------------------- MODULE VideoDialogue ----------------------------
(***************************************************************************)
(* The turns in which a user describes a video piece by piece:             *)
(* VideoSkillSession (src/app/services/skills/video_chat.py) and           *)
(* execute_video_skill (src/app/services/skills/video.py).  The draft is   *)
(* part of the thread's checkpoint and written when a turn ends; the task  *)
(* is reserved before, under a key made of the input's id, and VideoTasks  *)
(* takes it from there.                                                    *)
(*                                                                         *)
(* The language model may understand any operation.  A requirement is      *)
(* known by the input that gave it, so that a draft says for each field    *)
(* which input that was; "prompt" stands for what a task cannot do without *)
(* (the first frame of a creation will do as well).                        *)
(***************************************************************************)
EXTENDS Nothing, Naturals, FiniteSets

CONSTANTS
  Inputs,      \* ids of the user's messages, numbered in the order they are said
  Fields,      \* what a draft can say: "prompt" and others
  MaxTries     \* bound on the deliveries of one input

ASSUME VideoDialogueConstantsOK ==
  /\ Inputs \subseteq Nat \ {0} /\ None \notin Inputs /\ "prompt" \in Fields /\ MaxTries \in Nat \ {0}

VARIABLES
  saved,     \* video_dialogue of the checkpoint
  draft,     \* the dialogue the turn works on
  turnOf,    \* the input that is answered, None between turns
  step,      \* where its turn stands
  tries,     \* deliveries of each input
  answered,  \* inputs whose turn has ended with its checkpoint
  tasks,     \* reserved video tasks
  expired,   \* draft_expires_at of the checkpoint has passed
  dead       \* history variable: inputs whose requirements are used, cancelled or too old

videoDialogue == <<saved, draft, turnOf, step, tries, answered, tasks, expired, dead>>

Wants == {"create", "edit"}
Blank == [f \in Fields |-> None]
NoDraft == [want |-> None, create |-> Blank, edit |-> Blank]

VideoDialogueInit ==
  /\ saved = NoDraft /\ draft = NoDraft
  /\ turnOf = None /\ step = "idle"
  /\ tries = [i \in Inputs |-> 0]
  /\ answered = {} /\ tasks = {} /\ expired = FALSE /\ dead = {}

Said(d) == {d[w][f] : w \in Wants, f \in Fields} \ {None}   \* the inputs a draft is made of
Asked(t) == {t.with[f] : f \in Fields} \ {None}            \* and those of a task

-----------------------------------------------------------------------------
\* A message arrives; after a broken run the client may send the same one again.  The main model
\* calls load_video_skill, and then is asked for the operation.
Load(i) ==
  /\ turnOf = None /\ tries[i] < MaxTries
  /\ i \notin answered
  /\ \A j \in Inputs : j < i => tries[j] > 0
  /\ turnOf' = i /\ step' = "loaded"
  /\ tries' = [tries EXCEPT ![i] = @ + 1]
  /\ UNCHANGED <<saved, draft, answered, tasks, expired, dead>>

RestoredAnyway == saved

\* _restore: the draft is dropped if it is too old when the operation is executed.
Restored == IF expired THEN NoDraft ELSE saved

\* model_dump(exclude_none), update: what this input says replaces what was said before.
Merge(old, fields) == [f \in Fields |-> IF f \in fields THEN turnOf ELSE old[f]]

\* _save_draft of an authorized operation.
SaveDraft(d, action, reset, new, editing) ==
  LET d0 == IF reset \/ (action \in Wants /\ d.want # None /\ d.want # action) THEN NoDraft ELSE d
  IN [want |-> IF action \in Wants THEN action
               ELSE IF editing # {} THEN "edit" ELSE IF new # {} THEN "create" ELSE d0.want,
      create |-> Merge(d0.create, new),
      edit |-> Merge(d0.edit, editing)]

\* The operation is understood, and does not submit: a draft, something unsupported, or a create
\* or edit that lacks its prompt.
Describe(action, reset, new, editing) ==
  /\ step = "loaded"
  /\ action \in Wants => SaveDraft(Restored, action, reset, new, editing)[action]["prompt"] = None
  /\ draft' = SaveDraft(Restored, action, reset, new, editing)
  /\ step' = "answer"
  /\ UNCHANGED <<saved, turnOf, tries, answered, tasks, expired, dead>>

\* "cancel"; or "detail", after which the draft is gone as well.
Cancel ==
  /\ step = "loaded"
  /\ draft' = NoDraft /\ step' = "cancel"
  /\ UNCHANGED <<saved, turnOf, tries, answered, tasks, expired, dead>>

\* create or edit with all it needs: the service is called.
Ready(action, reset, new, editing) ==
  /\ step = "loaded" /\ action \in Wants
  /\ SaveDraft(Restored, action, reset, new, editing)[action]["prompt"] # None
  /\ draft' = SaveDraft(Restored, action, reset, new, editing)
  /\ step' = "submit"
  /\ UNCHANGED <<saved, turnOf, tries, answered, tasks, expired, dead>>

\* A list or a count, or the choice an edit or a question by keywords has to be made from: what is
\* listed answers the turn, and the draft is kept, with what was said of the edit.
Show(reset, editing) ==
  /\ step = "loaded"
  /\ draft' \in {Restored, SaveDraft(Restored, "edit", reset, {}, editing)}
  /\ step' = "answer"
  /\ UNCHANGED <<saved, turnOf, tries, answered, tasks, expired, dead>>

\* The operation is none, is not authorized or is invalid; or the model takes too long.
Decline ==
  /\ step = "loaded"
  /\ draft' \in {saved, Restored} /\ step' = "answer"
  /\ UNCHANGED <<saved, turnOf, tries, answered, tasks, expired, dead>>

KeyOfTry(i) == <<i, tries[i]>>
KeyOf(i) == <<i, 0>>

Wanted == [key |-> KeyOf(turnOf), want |-> draft.want, with |-> draft[draft.want]]
Same == {t \in tasks : t.key = KeyOf(turnOf)}

\* VideoService.create and edit: a new key reserves a task, a known one gives the task it has.
Reserve ==
  /\ step = "submit" /\ Same \subseteq {Wanted}
  /\ tasks' = tasks \cup {Wanted}
  /\ draft' = NoDraft
  /\ step' = "used"
  /\ UNCHANGED <<saved, turnOf, tries, answered, expired, dead>>

\* The known key had other parameters, the task is busy, or the service fails before it has
\* reserved anything: the draft is kept.
Reject ==
  /\ step = "submit"
  /\ step' = "answer"
  /\ UNCHANGED <<saved, draft, turnOf, tries, answered, tasks, expired, dead>>

\* The turn ends and its checkpoint is written.
SaveTurn ==
  /\ step \in {"answer", "cancel", "used"}
  /\ saved' = draft
  /\ expired' = IF step = "answer" /\ draft = saved THEN expired ELSE FALSE
  /\ answered' = answered \cup {turnOf}
  /\ dead' = CASE step = "cancel" -> dead \cup Said(saved)
               [] step = "used" -> dead \cup UNION {Asked(t) : t \in Same}
               [] OTHER -> dead
  /\ turnOf' = None /\ step' = "idle" /\ draft' = NoDraft
  /\ UNCHANGED <<tries, tasks>>

\* The run is cancelled, or the process stops.
Cut ==
  /\ step # "idle"
  /\ turnOf' = None /\ step' = "idle" /\ draft' = NoDraft
  /\ UNCHANGED <<saved, tries, answered, tasks, expired, dead>>

\* Ten minutes pass after the draft was changed last, though not between the look at the clock
\* and the call of the service.
Expire ==
  /\ ~expired /\ saved # NoDraft /\ step \in {"idle", "loaded"}
  /\ expired' = TRUE
  /\ dead' = dead \cup Said(saved)
  /\ UNCHANGED <<saved, draft, turnOf, step, tries, answered, tasks>>

VideoDialogueNext ==
  \/ \E i \in Inputs : Load(i)
  \/ \E action \in Wants \cup {"draft", "unsupported"}, reset \in BOOLEAN, new, editing \in SUBSET Fields :
       Describe(action, reset, new, editing) \/ Ready(action, reset, new, editing)
  \/ \E reset \in BOOLEAN, editing \in SUBSET Fields : Show(reset, editing)
  \/ Cancel \/ Decline \/ Reserve \/ Reject \/ SaveTurn \/ Cut \/ Expire

VideoDialogueSpec == VideoDialogueInit /\ [][VideoDialogueNext]_videoDialogue

-----------------------------------------------------------------------------
(* Properties. *)

\* However often an input is delivered and however differently it is understood, it makes one
\* video at most, also when the turn broke after the task was reserved (video.py:395).
OneVideoPerInput ==
  \A t, s \in tasks : t.key[1] = s.key[1] => t = s

\* A new task asks for nothing that an answered turn has already used or cancelled, or that was
\* said so long ago that the draft has expired (video.py:69, 285).
NothingStale ==
  [][\A t \in tasks' \ tasks : Asked(t) \cap dead = {}]_videoDialogue

=============================================================================
