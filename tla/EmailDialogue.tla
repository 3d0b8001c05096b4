--------------------------- MODULE EmailDialogue ---------------------------
(***************************************************************************)
(* The turns of a chat in which handle_email_command                       *)
(* (src/app/agents/email_commands.py) collects a message and sends it with *)
(* EmailSkill.  A turn reads the draft from the thread's checkpoint, asks  *)
(* the language model for an EmailIntent, and either keeps a draft, drops  *)
(* it, or calls send() with the id of the user's message; the draft is     *)
(* only written with the checkpoint at the end of the turn.  Turns of one  *)
(* thread follow one another.                                              *)
(*                                                                         *)
(* Subject and body are either complete or not.  The language model may    *)
(* answer every EmailIntent that validates: timing, send_at and            *)
(* clear_send_at in any combination.                                       *)
(***************************************************************************)
EXTENDS EmailSkill

CONSTANTS
  Threads,   \* chats; each is a caller of send()
  Messages,  \* requests that are ids of messages; the others come over HTTP
  DraftTime  \* ticks a draft is kept: 600 seconds in the code

ASSUME DialogueConstantsOK ==
  /\ Threads \subseteq Callers /\ Messages \subseteq Requests
  /\ DraftTime \in Nat \ {0}

Timings == {"immediate", "scheduled", "unclear"}
Drafts == [timing : Timings, at : SendTimes, exp : 0 .. MaxTime + DraftTime]
NoDraft == [timing |-> "immediate", at |-> 0, exp |-> 0]
Unclear == MaxTime + Day + 1              \* a time the user gave which is none

\* The time the user gave last, 0 for none; marked: with a timing other than "immediate", or refused.
Wishes == [at : SendTimes \cup {Unclear}, marked : BOOLEAN]
NoWish == [at |-> 0, marked |-> FALSE]

VARIABLES
  draft,   \* email_dialogue of the thread's checkpoint
  turn,    \* where the turn of each thread stands; live: it found a draft to go on with;
           \* want: what the user asked for last, in this turn or for the draft
  heard,   \* the messages there were
  wanted   \* what the user had asked for last when the draft was written

dialogue == <<draft, turn, heard, wanted>>
allVars == <<vars, dialogue>>

DialogueTypeOK ==
  /\ TypeOK
  /\ draft \in [Threads -> Drafts]
  /\ turn \in [Threads -> [pc : {"idle", "intent", "send"}, live : BOOLEAN,
                           msg : Messages \cup {None}, want : Wishes]]
  /\ heard \subseteq Messages
  /\ wanted \in [Threads -> Wishes]

NoTurn == [pc |-> "idle", live |-> FALSE, msg |-> None, want |-> NoWish]

DialogueInit ==
  /\ Init
  /\ draft = [t \in Threads |-> NoDraft]
  /\ turn = [t \in Threads |-> NoTurn]
  /\ heard = {}
  /\ wanted = [t \in Threads |-> NoWish]

-----------------------------------------------------------------------------
EmailIntent ==
  [action : {"send", "draft"}, whole : BOOLEAN, timing : Timings, at : SendTimes, clear : BOOLEAN]

WithPendingIfScheduled(t, i) ==
  IF turn[t].live /\ draft[t].timing = "scheduled" /\ i.at = 0 /\ ~i.clear
  THEN [i EXCEPT !.timing = draft[t].timing, !.at = draft[t].at]
  ELSE i

\* A pending draft's time is kept unless the user gave another or wants none.
WithPending(t, i) ==
  IF turn[t].live /\ draft[t].timing # "immediate" /\ i.at = 0 /\ ~i.clear
  THEN [i EXCEPT !.timing = draft[t].timing, !.at = draft[t].at]
  ELSE i

\* What the user has asked for after intent i.
Wanted(t, i) ==
  CASE i.at # 0 -> [at |-> i.at, marked |-> i.timing # "immediate"]
    [] i.at = 0 /\ i.timing # "immediate" -> [at |-> Unclear, marked |-> TRUE]
    [] OTHER -> IF turn[t].live /\ ~i.clear THEN wanted[t] ELSE NoWish

EndTurn(t, d, w) ==
  /\ draft' = [draft EXCEPT ![t] = d]
  /\ wanted' = [wanted EXCEPT ![t] = w]
  /\ turn' = [turn EXCEPT ![t] = NoTurn]
  /\ UNCHANGED heard

AskTime(t, w) ==
  EndTurn(t, [timing |-> "unclear", at |-> 0, exp |-> now + DraftTime], [at |-> w.at, marked |-> TRUE])

-----------------------------------------------------------------------------
\* A message that mentions mail, or any message while there is a draft.
Hear(t, m) ==
  /\ turn[t].pc = "idle" /\ m \notin heard
  /\ turn' = [turn EXCEPT ![t] = [pc |-> "intent", live |-> draft[t].exp > now, msg |-> m,
                                   want |-> NoWish]]
  /\ heard' = heard \cup {m}
  /\ UNCHANGED <<vars, draft, wanted>>

\* The model fails, or answers "none" or "cancel" or another recipient; a complete message is not
\* to be sent yet, or its subject is not a single line.
Drop(t) ==
  /\ turn[t].pc = "intent"
  /\ EndTurn(t, NoDraft, NoWish)
  /\ UNCHANGED vars

Collect(t, i) ==
  LET w == WithPending(t, i) IN
  /\ turn[t].pc = "intent"
  /\ ~w.whole \/ (w.timing # "immediate" /\ w.at = 0)
  /\ EndTurn(t, [timing |-> w.timing, at |-> w.at, exp |-> now + DraftTime],
             Wanted(t, i))
  /\ UNCHANGED vars

Send(t, i) ==
  LET w == WithPending(t, i) IN
  /\ turn[t].pc = "intent"
  /\ w.whole /\ w.action = "send" /\ (w.timing = "immediate" \/ w.at # 0)
  /\ \/ /\ Request(t, turn[t].msg, w.at)
        /\ turn' = [turn EXCEPT ![t].pc = "send", ![t].want = Wanted(t, i)]
        /\ UNCHANGED <<draft, heard, wanted>>
     \/ /\ w.at # 0 /\ ~ValidSendAt(w.at)
        /\ AskTime(t, Wanted(t, i))
        /\ UNCHANGED vars

\* send() goes on; the turn ends with it.
Sending(t) ==
  /\ turn[t].pc = "send"
  /\ \/ TooLate(t) /\ AskTime(t, turn[t].want)
     \/ /\ FindUser(t) \/ Blocked(t) \/ Reserve(t) \/ Schedule(t) \/ Deliver(t) \/ Complete(t)
           \/ Abandon(t)
        /\ IF call'[t].pc = "idle" THEN EndTurn(t, NoDraft, NoWish) ELSE UNCHANGED dialogue

\* The turn is cancelled or its process stops, and the checkpoint stays as it was.
Interrupt(t) ==
  /\ turn[t].pc # "idle"
  /\ IF turn[t].pc = "send" THEN Abandon(t) ELSE Fail /\ UNCHANGED <<now, redis, call, job, external>>
  /\ EndTurn(t, draft[t], wanted[t])

DialogueNext ==
  \/ \E t \in Threads : \/ \E m \in Messages : Hear(t, m)
                        \/ \E i \in EmailIntent : Collect(t, i) \/ Send(t, i)
                        \/ Drop(t) \/ Sending(t) \/ Interrupt(t)
  \/ /\ \/ \E c \in Callers \ Threads :
             \/ \E r \in Requests \ Messages, at \in SendTimes : Request(c, r, at)
             \/ CallStep(c)
        \/ \E s \in Schedulers : SchedulerStep(s) \/ StopIteration(s)
        \/ Tick
     /\ UNCHANGED dialogue

DialogueSpec == DialogueInit /\ [][DialogueNext]_allVars

-----------------------------------------------------------------------------
\* Once the user has given a time for the message and the model has marked it as one, even one that
\* could not be understood, or once a time was refused, the message is not sent at once, over any
\* number of turns and whatever the model answers in them, unless it says that the user wants no
\* time any more (email_commands.py:133 and 169).
TimeNotDropped ==
  \A t \in Threads : turn[t].pc = "send" /\ turn[t].want.marked => call[t].at # 0

\* Any time the user gave is kept while subject and body are asked for, as
\* skills/send-current-user-email/SKILL.md:27 has it.  A draft keeps a time the model gave without
\* setting timing, which validates, but the next turn does not put it back.
GivenTimeKept ==
  \A t \in Threads : turn[t].pc = "send" /\ turn[t].want.at # 0 => call[t].at # 0

\* A message that is booked is booked for the time the user gave last.
\* skills/send-current-user-email/SKILL.md:26 has an unclear time asked for again; the code books the
\* message for an earlier time of the draft.
BooksWhatWasAsked ==
  \A t \in Threads :
    turn[t].pc = "send" /\ call[t].at # 0 => call[t].at = turn[t].want.at

=============================================================================
