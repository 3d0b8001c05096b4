------------------------- MODULE VoiceTurns_proofs --------------------------
(***************************************************************************)
(* Theorems about VoiceTurns, for any inputs, queues, approvals and        *)
(* connections.                                                            *)
(*                                                                         *)
(* The strengthening says what the teardown has already ended in each      *)
(* phase (Ended), that everybody who works on a turn works on one that     *)
(* exists (Linked), and how far an input has come (Fresh): until its graph *)
(* runs it is submitted, queued or started in one place only, and from the *)
(* moment it is queued it is in the table, where a submitter of any later  *)
(* connection finds it.  On these rests what is recorded of a turn (HInv): *)
(* where a turn that may still change can be (Placed), who waits for the   *)
(* answer to a save (Answered), and that the turns in memory are ahead of  *)
(* the table and of the saves on their way to it (Recorded).  That an      *)
(* approval is used for what it was given for rests on the guard of the    *)
(* thread, under which nobody changes what generate has read (Agreed).     *)
(*                                                                         *)
(* That nobody waits for ever (WInv) rests on what the synthesis can count *)
(* on (Awake) and on a queue that is interrupted before it is taken down   *)
(* (QueueIsCut).                                                           *)
(***************************************************************************)
EXTENDS VoiceTurns, TLAPS

Ended ==
  /\ phase \in {"draining", "reaping", "off"} => \A p \in Submitters : sub[p] = Idle
  /\ phase \in {"reaping", "off"} => agent = "none"
  /\ phase = "off" => worker = "none" /\ ~Speaking

Working == worker \in {"agent", "tts", "save"} \/ agent # "none" \/ Speaking

Submitting(p) == sub[p].pc \in {"has_input", "save_cancelled", "save_new"}
Checked(p) == sub[p].pc \in {"save_cancelled", "save_new"}
Saves(p) == sub[p].pc \in {"save_cancelled", "save_turn"}

Linked ==
  /\ Working => current \in Known
  /\ \A k \in DOMAIN inputs : inputs[k] \in Known
  /\ \A p \in Submitters : /\ Saves(p) => sub[p].turn \in Known
                           /\ Submitting(p) => sub[p].input \in Inputs

Starting == agent \in {"new", "enter", "checked"}

Fresh ==
  /\ \A i \in Known : i \in seen /\ stored[i] # None
  /\ \A i \in Inputs : runs[i] > 0 => stored[i] # None
  /\ \A k \in DOMAIN inputs : runs[inputs[k]] = 0
  /\ \A j, k \in DOMAIN inputs : inputs[j] = inputs[k] => j = k
  /\ Starting => runs[current] = 0 /\ \A k \in DOMAIN inputs : inputs[k] # current
  /\ \A p \in Submitters : /\ Submitting(p) => sub[p].input \in seen \ Known
                           /\ Checked(p) => stored[sub[p].input] = None
  /\ \A p, q \in Submitters : Submitting(p) /\ Submitting(q) /\ sub[p].input = sub[q].input => p = q

-----------------------------------------------------------------------------
(* Turns. *)

Turns == [Inputs -> VoiceTurn \cup {None}]

LEMMA TurnIsNotNone == \A v \in VoiceTurn : v # None
  BY NoneIsNoTurn

\* A turn that exists is changed, and the others are left.
LEMMA Changed ==
  ASSUME turn \in Turns, NEW t \in Known, NEW v \in VoiceTurn, turn' = [turn EXCEPT ![t] = v]
  PROVE  turn' \in Turns /\ Known' = Known
<1>1. t \in Inputs
  BY DEF Known
<1> QED BY <1>1, TurnIsNotNone DEF Known, Turns

LEMMA ATurn ==
  ASSUME turn \in Turns, NEW t \in Known
  PROVE  /\ t \in Inputs /\ turn[t] \in VoiceTurn
         /\ Cancelled(turn[t]) \in VoiceTurn /\ Outcome(turn[t]) \in VoiceTurn
         /\ \A o \in Status : [turn[t] EXCEPT !.execution = o] \in VoiceTurn
         /\ \A s \in {"none", "some", "heard"} : [turn[t] EXCEPT !.sound = s] \in VoiceTurn
<1>1. t \in Inputs /\ turn[t] \in VoiceTurn
  BY DEF Known, Turns
<1>2. Cancelled(turn[t]) \in VoiceTurn
  BY <1>1 DEF Cancelled, VoiceTurn, Status
<1>3. Outcome(turn[t]) \in VoiceTurn
  <2> DEFINE s == IF turn[t].interrupted THEN turn[t].status
                  ELSE IF turn[t].execution = "failed" \/ tts = "failed" THEN "failed" ELSE turn[t].execution
  <2>1. s \in Status
    BY <1>1 DEF VoiceTurn, Status
  <2>2. Outcome(turn[t]) = [turn[t] EXCEPT !.status = s]
    BY DEF Outcome
  <2> HIDE DEF s
  <2> QED BY <1>1, <2>1, <2>2 DEF VoiceTurn
<1> QED BY <1>1, <1>2, <1>3 DEF VoiceTurn

\* Cancelling a turn, and everything at once.
LEMMA CancelChanges ==
  ASSUME TypeOK, NEW t \in Known, Cancel(t)
  PROVE  turn' \in Turns /\ Known' = Known /\ halt' \subseteq {"agent", "tts"}
<1>1. turn \in Turns
  BY DEF TypeOK, Turns
<1>2. turn' = [turn EXCEPT ![t] = Cancelled(turn[t])]
  BY DEF Cancel
<1>3. turn' \in Turns /\ Known' = Known
  BY <1>1, <1>2, ATurn, Changed
<1>4. halt' \subseteq {"agent", "tts"}
  BY DEF Cancel, TypeOK, ToHalt, Running
<1> QED BY <1>3, <1>4

LEMMA AbandonChanges ==
  ASSUME turn \in Turns, turn' = [i \in Inputs |-> Abandoned(turn[i])]
  PROVE  turn' \in Turns /\ Known' = Known
<1>1. ASSUME NEW i \in Inputs
      PROVE  turn'[i] = Abandoned(turn[i]) /\ turn'[i] \in VoiceTurn \cup {None} /\ (turn'[i] = None <=> turn[i] = None)
  <2>1. CASE turn[i] = None
    BY <2>1 DEF Abandoned
  <2>2. CASE turn[i] # None
    <3>1. i \in Known /\ turn[i] \in VoiceTurn
      BY <2>2 DEF Known, Turns
    <3>2. Cancelled(turn[i]) \in VoiceTurn
      BY <3>1, ATurn
    <3>3. \A v \in VoiceTurn : [v EXCEPT !.execution = IF @ = "queued" THEN "cancelled" ELSE @] \in VoiceTurn
      BY DEF VoiceTurn, Status
    <3>4. Abandoned(turn[i]) \in VoiceTurn
      BY <3>1, <3>2, <3>3 DEF Abandoned
    <3> QED BY <2>2, <3>4, TurnIsNotNone
  <2> QED BY <2>1, <2>2
<1> QED BY <1>1 DEF Known, Turns

-----------------------------------------------------------------------------
(* Whoever has been ended stays so. *)

LEMMA EndedStep == Ended /\ [Next]_vars => Ended'
<1> SUFFICES ASSUME Ended, [Next]_vars PROVE Ended'
  OBVIOUS
<1> USE DEF Ended, Speaking
<1>1. ASSUME NEW p \in Submitters, NEW i \in Inputs, NEW r \in 0 .. raised, Submit(p, i, r) PROVE Ended'
  BY <1>1 DEF Submit, execution
<1>2. ASSUME NEW p \in Submitters, SubmitStep(p) PROVE Ended'
  BY <1>2 DEF SubmitStep, Send, HasInput, SaveCancelled, SaveNew, execution
<1>3. ASSUME NEW i \in Inputs, ClientCancel(i) \/ Playback(i) PROVE Ended'
  BY <1>3 DEF ClientCancel, Playback, execution
<1>4. CASE SaveTurn \/ Restore \/ End
  BY <1>4 DEF SaveTurn, Restore, End, execution
<1>5. CASE Execute
  BY <1>5 DEF Execute, Take, AgentEnded, TtsEnded, Send, SaveExecuted, execution
<1>6. CASE Generate
  BY <1>6
  DEF Generate, StartAgent, CheckThread, RunGraph, Say, Interrupt, EndGraph, FinalText, FailAgent, HaltAgent, SaveGenerated,
      Send, AgentAt, AgentDone, InThread, execution
<1>7. CASE Speak
  BY <1>7 DEF Speak, Hear, FailTts, HaltTts, TtsDone
<1>8. CASE Connect \/ CloseSession \/ ChatRun
  BY <1>8 DEF Connect, CloseSession, ChatRun, execution
<1>9. CASE Teardown
  BY <1>9 DEF Teardown, Drain, Reap, Leave, Leaving, Forget, AgentWaitedFor, execution
<1>10. CASE Crash
  BY <1>10 DEF Crash, Forget
<1>11. CASE UNCHANGED vars
  BY <1>11 DEF vars, execution
<1> QED BY <1>1, <1>2, <1>3, <1>4, <1>5, <1>6, <1>7, <1>8, <1>9, <1>10, <1>11 DEF Next

LEMMA EndedBegin == Init => Ended
  BY DEF Init, Ended, Speaking

-----------------------------------------------------------------------------
(* Types, and the turns that are worked on. *)

VInv == TypeOK /\ Ended /\ Linked

LEMMA IdleIsTyped == Idle \in Submission /\ Idle.pc = "idle"
  BY DEF Idle, Submission, SubmitSteps

LEMMA VBegin == Init => VInv
<1> SUFFICES ASSUME Init PROVE VInv
  OBVIOUS
<1>1. TypeOK
  <2>1. sub \in [Submitters -> Submission] /\ turn \in [Inputs -> VoiceTurn \cup {None}]
        /\ stored \in [Inputs -> VoiceTurn \cup {None}] /\ runs \in [Inputs -> Nat]
        /\ sent \in [Savers -> VoiceTurn \cup {None}]
    BY IdleIsTyped DEF Init
  <2>2. inputs \in Seq(Inputs) /\ Len(inputs) <= QueueLimit /\ text \in Seq({"chunk", "end"}) /\ Len(text) <= TextLimit
    BY ConstantsOK DEF Init
  <2>3. raised \in 0 .. MaxInterrupts /\ connections \in 0 .. MaxConnections
    BY ConstantsOK DEF Init
  <2>4. /\ seen \subseteq Inputs /\ pending \subseteq Interrupts /\ halt \subseteq {"agent", "tts"}
        /\ phase \in Phases /\ worker \in WorkerSteps /\ agent \in AgentSteps /\ tts \in TtsSteps
        /\ session = "ready" /\ streaming \in Streaming /\ restored = FALSE /\ current = None /\ open = 0
    BY DEF Init, Phases, WorkerSteps, AgentSteps, TtsSteps
  <2> QED BY <2>1, <2>2, <2>3, <2>4 DEF TypeOK
<1>2. Linked
  BY IdleIsTyped DEF Init, Linked, Working, Speaking, Saves, Submitting
<1> QED BY <1>1, <1>2, EndedBegin DEF VInv

\* What a new turn looks like.
LEMMA NewTurnIsTyped == \A r \in Interrupts \cup {0} : NewTurn(r) \in VoiceTurn
  BY DEF NewTurn, VoiceTurn, Status

\* A submitter goes on to another await.
LEMMA Goes ==
  ASSUME sub \in [Submitters -> Submission], NEW p \in Submitters, NEW s \in Submission, Await(p, s)
  PROVE  sub' \in [Submitters -> Submission] /\ sub'[p] = s /\ \A q \in Submitters \ {p} : sub'[q] = sub[q]
  BY DEF Await

LEMMA SubmitTyped ==
  ASSUME VInv, NEW p \in Submitters, NEW i \in Inputs, NEW r \in 0 .. raised, Submit(p, i, r)
  PROVE  TypeOK' /\ Linked' /\ Known' = Known
<1> DEFINE s == [pc |-> "has_input", input |-> i, resume |-> r, turn |-> None]
<1>1. r \in Interrupts \cup {0}
  BY ConstantsOK DEF VInv, TypeOK, Interrupts
<1>2. s \in Submission /\ s.pc = "has_input" /\ s.input = i
  BY <1>1 DEF Submission, SubmitSteps
<1>3. sub' = sub \/ Await(p, s)
  BY DEF Submit
<1> HIDE DEF s
<1>4. sub \in [Submitters -> Submission]
  BY DEF VInv, TypeOK
<1>5. /\ sub' \in [Submitters -> Submission]
      /\ \A q \in Submitters : sub'[q] = sub[q] \/ (sub'[q].pc = "has_input" /\ sub'[q].input = i)
  BY <1>2, <1>3, <1>4, Goes
<1>6. seen' \subseteq Inputs
  BY DEF Submit, VInv, TypeOK
<1>7. UNCHANGED <<session, phase, stored, sent, turn, inputs, pending, restored, execution, graph, bounds>>
  BY DEF Submit
<1>8. TypeOK'
  BY <1>5, <1>6, <1>7 DEF VInv, TypeOK, execution, graph, bounds
<1>9. Linked'
  BY <1>5, <1>7 DEF VInv, Linked, Known, Working, Speaking, Saves, Submitting, execution
<1> QED BY <1>7, <1>8, <1>9 DEF Known

LEMMA HasInputTyped ==
  ASSUME VInv, NEW p \in Submitters, HasInput(p)
  PROVE  TypeOK' /\ Linked' /\ Known' = Known
<1>1. /\ sub \in [Submitters -> Submission] /\ sub[p] \in Submission /\ sub[p].pc = "has_input"
      /\ turn \in Turns /\ sub[p].input \in Inputs
  BY DEF HasInput, VInv, TypeOK, Turns, Linked, Submitting
<1>2. UNCHANGED <<session, phase, stored, sent, seen, inputs, restored, worker, current, agent, tts, text, graph, bounds>>
  BY DEF HasInput
<1>3. CASE Return(p) /\ UNCHANGED <<turn, halt>>
  <2>1. Await(p, Idle)
    BY <1>3 DEF Return
  <2>2. /\ sub' \in [Submitters -> Submission] /\ sub'[p].pc = "idle"
        /\ \A q \in Submitters \ {p} : sub'[q] = sub[q]
    BY <1>1, <2>1, IdleIsTyped, Goes
  <2>3. pending' \subseteq Interrupts
    BY <1>3 DEF Return, VInv, TypeOK
  <2>4. TypeOK'
    BY <1>2, <1>3, <2>2, <2>3 DEF VInv, TypeOK, graph, bounds
  <2>5. Linked'
    BY <1>2, <1>3, <2>2 DEF VInv, Linked, Known, Working, Speaking, Saves, Submitting
  <2> QED BY <1>3, <2>4, <2>5 DEF Known
<1>4. CASE /\ Cancellable(current) /\ Cancel(current)
           /\ Await(p, [sub[p] EXCEPT !.pc = "save_cancelled", !.turn = current]) /\ UNCHANGED pending
  <2>1. current \in Known
    BY <1>4 DEF Cancellable, VInv, TypeOK, Known
  <2>2. turn' \in Turns /\ Known' = Known /\ halt' \subseteq {"agent", "tts"}
    BY <1>4, <2>1, CancelChanges DEF VInv
  <2> DEFINE s == [sub[p] EXCEPT !.pc = "save_cancelled", !.turn = current]
  <2>3. s \in Submission /\ s.turn = current /\ s.input = sub[p].input
    BY <1>1, <2>1 DEF Submission, SubmitSteps, Known
  <2> HIDE DEF s
  <2>4. /\ sub' \in [Submitters -> Submission] /\ sub'[p] = s
        /\ \A q \in Submitters \ {p} : sub'[q] = sub[q]
    BY <1>1, <1>4, <2>3, Goes DEF s
  <2>5. TypeOK'
    BY <1>2, <1>4, <2>2, <2>4 DEF VInv, TypeOK, Turns, graph, bounds
  <2>6. Linked'
    BY <1>1, <1>2, <2>1, <2>2, <2>3, <2>4 DEF VInv, Linked, Working, Speaking, Saves, Submitting
  <2> QED BY <2>2, <2>5, <2>6
<1>5. CASE Await(p, [sub[p] EXCEPT !.pc = "save_new"]) /\ UNCHANGED <<turn, halt, pending>>
  <2> DEFINE s == [sub[p] EXCEPT !.pc = "save_new"]
  <2>1. s \in Submission /\ s.pc = "save_new" /\ s.input = sub[p].input
    BY <1>1 DEF Submission, SubmitSteps
  <2> HIDE DEF s
  <2>2. /\ sub' \in [Submitters -> Submission] /\ sub'[p] = s
        /\ \A q \in Submitters \ {p} : sub'[q] = sub[q]
    BY <1>1, <1>5, <2>1, Goes DEF s
  <2>3. TypeOK'
    BY <1>2, <1>5, <2>2 DEF VInv, TypeOK, graph, bounds
  <2>4. Linked'
    BY <1>1, <1>2, <1>5, <2>1, <2>2 DEF VInv, Linked, Known, Working, Speaking, Saves, Submitting
  <2> QED BY <1>5, <2>3, <2>4 DEF Known
<1> QED BY <1>3, <1>4, <1>5 DEF HasInput

\* Whose turn it is that is saved.
LEMMA WhoSaves ==
  ASSUME VInv, NEW x \in Savers,
         \/ x \in Submitters /\ Saves(x)
         \/ x = "worker" /\ worker = "save"
         \/ x = "agent" /\ agent = "save"
  PROVE  TurnOf(x) \in Known /\ (x \in Submitters => TurnOf(x) = sub[x].turn) /\ (x \notin Submitters => TurnOf(x) = current)
  BY ConstantsOK DEF TurnOf, VInv, Linked, Working

LEMMA SavedByTwo == {"worker", "agent"} \cap Submitters = {} /\ {"worker", "agent"} \subseteq Savers /\ Submitters \subseteq Savers
  BY ConstantsOK DEF Savers

\* What was sent of a turn is stored.
LEMMA Stores ==
  ASSUME VInv, NEW x \in Savers, Store(x), TurnOf(x) \in Known
  PROVE  /\ stored' \in [Inputs -> VoiceTurn \cup {None}] /\ sent' \in [Savers -> VoiceTurn \cup {None}]
         /\ stored'[TurnOf(x)] = sent[x] /\ sent[x] # None /\ sent'[x] = None
         /\ \A i \in Inputs : i = TurnOf(x) \/ stored'[i] = stored[i]
         /\ \A y \in Savers : y = x \/ sent'[y] = sent[y]
<1>1. TurnOf(x) \in Inputs /\ stored \in [Inputs -> VoiceTurn \cup {None}] /\ sent \in [Savers -> VoiceTurn \cup {None}]
  BY DEF VInv, TypeOK, Known
<1>2. /\ sent[x] # None /\ stored' = [stored EXCEPT ![TurnOf(x)] = sent[x]]
      /\ sent' = [sent EXCEPT ![x] = None]
  BY DEF Store
<1> QED BY <1>1, <1>2

\* A save that is cancelled is one or the other.
LEMMA StoresOrNot ==
  ASSUME VInv, NEW x \in Savers, StoreOrNot(x), TurnOf(x) \in Known
  PROVE  /\ stored' \in [Inputs -> VoiceTurn \cup {None}] /\ sent' \in [Savers -> VoiceTurn \cup {None}]
         /\ sent'[x] = None /\ \A y \in Savers : y = x \/ sent'[y] = sent[y]
         /\ stored' = stored \/ Store(x)
<1>1. stored \in [Inputs -> VoiceTurn \cup {None}] /\ sent \in [Savers -> VoiceTurn \cup {None}]
  BY DEF VInv, TypeOK
<1>2. CASE Store(x)
  BY <1>2, Stores
<1>3. CASE UNCHANGED stored /\ sent' = [sent EXCEPT ![x] = None]
  BY <1>1, <1>3
<1> QED BY <1>2, <1>3 DEF StoreOrNot

\* Sending a turn changes nothing else.
LEMMA SendTyped ==
  ASSUME VInv, NEW x \in Savers, Send(x)
  PROVE  TypeOK' /\ Linked' /\ Known' = Known
<1>1. \/ x \in Submitters /\ Saves(x)
      \/ x = "worker" /\ worker = "save"
      \/ x = "agent" /\ agent = "save"
  BY SavedByTwo DEF Send, Owes, Saves, Savers
<1>2. TurnOf(x) \in Known
  BY <1>1, WhoSaves
<1>3. sent' \in [Savers -> VoiceTurn \cup {None}]
  BY <1>2 DEF Send, VInv, TypeOK, Known
<1>4. UNCHANGED <<session, phase, sub, stored, memory, execution, graph, bounds>>
  BY DEF Send
<1>5. TypeOK'
  BY <1>3, <1>4 DEF VInv, TypeOK, memory, execution, graph, bounds
<1>6. Linked'
  BY <1>4 DEF VInv, Linked, Known, Working, Speaking, Saves, Submitting, memory, execution
<1> QED BY <1>4, <1>5, <1>6 DEF Known, memory

LEMMA SubmitStepTyped ==
  ASSUME VInv, NEW p \in Submitters, SubmitStep(p)
  PROVE  TypeOK' /\ Linked'
<1>1. /\ sub \in [Submitters -> Submission] /\ sub[p] \in Submission /\ turn \in Turns
  BY DEF VInv, TypeOK, Turns
<1>2. CASE HasInput(p)
  BY <1>2, HasInputTyped
<1>3. CASE SaveCancelled(p)
  <2>1. sub[p].turn \in Known /\ sub[p].input \in Inputs
    BY <1>3 DEF SaveCancelled, VInv, Linked, Saves, Submitting
  <2>2. stored' \in [Inputs -> VoiceTurn \cup {None}] /\ sent' \in [Savers -> VoiceTurn \cup {None}]
    BY <1>3, <2>1, SavedByTwo, Stores DEF SaveCancelled, TurnOf
  <2> DEFINE s == [sub[p] EXCEPT !.pc = "save_new", !.turn = None]
  <2>3. s \in Submission /\ s.pc = "save_new" /\ s.input = sub[p].input
    BY <1>1 DEF Submission, SubmitSteps
  <2> HIDE DEF s
  <2>4. /\ sub' \in [Submitters -> Submission] /\ sub'[p] = s
        /\ \A q \in Submitters \ {p} : sub'[q] = sub[q]
    BY <1>1, <1>3, <2>3, Goes DEF SaveCancelled, s
  <2>5. UNCHANGED <<session, phase, memory, execution, graph, bounds>>
    BY <1>3 DEF SaveCancelled
  <2>6. TypeOK'
    BY <2>2, <2>4, <2>5 DEF VInv, TypeOK, memory, execution, graph, bounds
  <2>7. Linked'
    BY <2>1, <2>3, <2>4, <2>5 DEF VInv, Linked, Known, Working, Speaking, Saves, Submitting, memory, execution
  <2> QED BY <2>6, <2>7
<1>4. CASE SaveNew(p)
  <2> DEFINE i == sub[p].input
             v == NewTurn(sub[p].resume)
             raise == [Idle EXCEPT !.pc = "raised"]
  <2>1. i \in Inputs /\ v \in VoiceTurn
    BY <1>1, <1>4, NewTurnIsTyped DEF SaveNew, VInv, Linked, Submitting, Submission
  <2> HIDE DEF v
  <2>2. /\ stored' = [stored EXCEPT ![i] = v] /\ turn' = [turn EXCEPT ![i] = v]
        /\ UNCHANGED <<session, phase, sent, seen, restored, execution, graph, bounds>>
    BY <1>4 DEF SaveNew, v
  <2>3. /\ stored' \in [Inputs -> VoiceTurn \cup {None}] /\ turn' \in Turns /\ Known' = Known \cup {i}
    BY <2>1, <2>2, <1>1, TurnIsNotNone DEF VInv, TypeOK, Turns, Known
  <2>4. raise \in Submission /\ raise.pc = "raised"
    BY IdleIsTyped DEF Submission, SubmitSteps
  <2> HIDE DEF raise
  <2>5. /\ sub' \in [Submitters -> Submission] /\ sub'[p].pc \in {"idle", "raised"}
        /\ \A q \in Submitters \ {p} : sub'[q] = sub[q]
    <3>1. Await(p, Idle) \/ Await(p, raise)
      BY <1>4 DEF SaveNew, Return, raise
    <3> QED BY <1>1, <2>4, <3>1, IdleIsTyped, Goes
  <2>6. pending' \subseteq Interrupts
    BY <1>4 DEF SaveNew, Return, VInv, TypeOK
  <2>7. /\ inputs' \in Seq(Inputs) /\ Len(inputs') <= QueueLimit
        /\ \A k \in DOMAIN inputs' : inputs'[k] \in Known'
    <3>1. CASE inputs' = inputs
      BY <2>3, <3>1 DEF VInv, TypeOK, Linked
    <3>2. CASE Len(inputs) < QueueLimit /\ inputs' = Append(inputs, i)
      BY <2>1, <2>3, <3>2, ConstantsOK DEF VInv, TypeOK, Linked
    <3> QED BY <1>4, <3>1, <3>2 DEF SaveNew
  <2>8. TypeOK'
    BY <2>2, <2>3, <2>5, <2>6, <2>7 DEF VInv, TypeOK, Turns, execution, graph, bounds
  <2>9. Linked'
    BY <2>2, <2>3, <2>5, <2>7 DEF VInv, Linked, Working, Speaking, Saves, Submitting, execution
  <2> QED BY <2>8, <2>9
<1> QED BY <1>2, <1>3, <1>4, SavedByTwo, SendTyped DEF SubmitStep

\* The client's other events.
LEMMA ClientTyped ==
  ASSUME VInv, (\E i \in Inputs : ClientCancel(i) \/ Playback(i)) \/ SaveTurn
  PROVE  TypeOK' /\ Linked' /\ Known' = Known
<1>1. turn \in Turns /\ sub \in [Submitters -> Submission] /\ "receiver" \in Submitters
  BY ConstantsOK DEF VInv, TypeOK, Turns
<1> DEFINE s(i) == [Idle EXCEPT !.pc = "save_turn", !.turn = i]
<1>2. \A i \in Inputs : s(i) \in Submission /\ s(i).pc = "save_turn" /\ s(i).turn = i
  BY DEF Idle, Submission, SubmitSteps
<1> HIDE DEF s
<1>3. ASSUME NEW i \in Inputs, ClientCancel(i) PROVE TypeOK' /\ Linked' /\ Known' = Known
  <2>1. i \in Known
    BY <1>3 DEF ClientCancel, Cancellable, Known
  <2>2. turn' \in Turns /\ Known' = Known /\ halt' \subseteq {"agent", "tts"}
    BY <1>3, <2>1, CancelChanges DEF ClientCancel, VInv
  <2>3. /\ sub' \in [Submitters -> Submission] /\ sub'["receiver"] = s(i)
        /\ \A q \in Submitters \ {"receiver"} : sub'[q] = sub[q]
    BY <1>1, <1>2, <1>3, Goes DEF ClientCancel, s
  <2>4. UNCHANGED <<session, phase, stored, sent, seen, inputs, pending, restored, worker, current, agent, tts, text,
                    graph, bounds>>
    BY <1>3 DEF ClientCancel
  <2>5. TypeOK'
    BY <2>2, <2>3, <2>4 DEF VInv, TypeOK, Turns, graph, bounds
  <2>6. Linked'
    BY <1>2, <2>1, <2>2, <2>3, <2>4 DEF VInv, Linked, Working, Speaking, Saves, Submitting
  <2> QED BY <2>2, <2>5, <2>6
<1>4. ASSUME NEW i \in Inputs, Playback(i) PROVE TypeOK' /\ Linked' /\ Known' = Known
  <2>1. i \in Known
    BY <1>4 DEF Playback, Known
  <2>2. turn' \in Turns /\ Known' = Known
    BY <1>1, <1>4, <2>1, ATurn, Changed DEF Playback
  <2>3. /\ sub' \in [Submitters -> Submission] /\ sub'["receiver"] = s(i)
        /\ \A q \in Submitters \ {"receiver"} : sub'[q] = sub[q]
    BY <1>1, <1>2, <1>4, Goes DEF Playback, s
  <2>4. UNCHANGED <<session, phase, stored, sent, seen, inputs, pending, restored, execution, graph, bounds>>
    BY <1>4 DEF Playback
  <2>5. TypeOK'
    BY <2>2, <2>3, <2>4 DEF VInv, TypeOK, Turns, execution, graph, bounds
  <2>6. Linked'
    BY <1>2, <2>1, <2>2, <2>3, <2>4 DEF VInv, Linked, Working, Speaking, Saves, Submitting, execution
  <2> QED BY <2>2, <2>5, <2>6
<1>5. CASE SaveTurn
  <2>1. sub["receiver"].turn \in Known
    BY <1>1, <1>5 DEF SaveTurn, VInv, Linked, Saves
  <2>2. stored' \in [Inputs -> VoiceTurn \cup {None}] /\ sent' \in [Savers -> VoiceTurn \cup {None}]
    BY <1>1, <1>5, <2>1, SavedByTwo, Stores DEF SaveTurn, TurnOf
  <2>3. /\ sub' \in [Submitters -> Submission] /\ sub'["receiver"].pc = "idle"
        /\ \A q \in Submitters \ {"receiver"} : sub'[q] = sub[q]
    BY <1>1, <1>5, IdleIsTyped, Goes DEF SaveTurn
  <2>4. UNCHANGED <<session, phase, memory, execution, graph, bounds>>
    BY <1>5 DEF SaveTurn
  <2>5. TypeOK'
    BY <2>2, <2>3, <2>4 DEF VInv, TypeOK, memory, execution, graph, bounds
  <2>6. Linked'
    BY <2>3, <2>4 DEF VInv, Linked, Known, Working, Speaking, Saves, Submitting, memory, execution
  <2> QED BY <2>4, <2>5, <2>6 DEF memory, Known
<1> QED BY <1>3, <1>4, <1>5

\* What enqueue_speech does to the queue of text.
LEMMA Pushes ==
  ASSUME TypeOK, NEW item \in {"chunk", "end"}, Push(item)
  PROVE  text' \in Seq({"chunk", "end"}) /\ Len(text') <= TextLimit
<1>1. CASE text' = text
  BY <1>1 DEF TypeOK
<1>2. CASE Len(text) < TextLimit /\ text' = Append(text, item)
  BY <1>2, ConstantsOK DEF TypeOK
<1> QED BY <1>1, <1>2 DEF Push

LEMMA ExecuteTyped ==
  ASSUME VInv, Execute
  PROVE  TypeOK' /\ Linked' /\ Known' = Known
<1>1. turn \in Turns
  BY DEF VInv, TypeOK, Turns
<1>2. CASE Take
  <2> DEFINE i == Head(inputs)
             v == [turn[i] EXCEPT !.status = "running", !.execution = "running"]
  <2>1. /\ inputs \in Seq(Inputs) /\ inputs # <<>> /\ inputs' = Tail(inputs) /\ current' = i
        /\ worker' = "agent" /\ agent' = "new" /\ tts' = "listen" /\ text' = <<>> /\ halt' = {}
        /\ turn' = [turn EXCEPT ![i].status = "running", ![i].execution = "running"]
        /\ UNCHANGED <<session, phase, stored, sent, seen, pending, restored, sub, graph, bounds>>
    BY <1>2 DEF Take, VInv, TypeOK
  <2>2. i \in Known /\ i \in Inputs
    BY <2>1 DEF VInv, Linked, Known
  <2> HIDE DEF i
  <2>3. turn[i] \in VoiceTurn
    BY <1>1, <2>2, ATurn
  <2>4. v \in VoiceTurn
    BY <2>3 DEF VoiceTurn, Status
  <2>5. turn' = [turn EXCEPT ![i] = v]
    BY <1>1, <2>1, <2>2, <2>3 DEF Turns, VoiceTurn
  <2> HIDE DEF v
  <2>6. turn' \in Turns /\ Known' = Known
    BY <1>1, <2>2, <2>4, <2>5, Changed
  <2>7. /\ inputs' \in Seq(Inputs) /\ Len(inputs') <= QueueLimit
        /\ \A k \in DOMAIN inputs' : inputs'[k] \in Known
    BY <2>1, ConstantsOK DEF VInv, TypeOK, Linked
  <2>8. text' \in Seq({"chunk", "end"}) /\ Len(text') <= TextLimit
    BY <2>1, ConstantsOK
  <2>9. TypeOK'
    BY <2>1, <2>2, <2>6, <2>7, <2>8 DEF VInv, TypeOK, Turns, WorkerSteps, AgentSteps, TtsSteps, graph, bounds
  <2>10. Linked'
    BY <2>1, <2>2, <2>6, <2>7 DEF VInv, Linked, Saves, Submitting
  <2> QED BY <2>6, <2>9, <2>10
<1>3. CASE AgentEnded
  <2>1. text' \in Seq({"chunk", "end"}) /\ Len(text') <= TextLimit
    BY <1>3, Pushes DEF AgentEnded, VInv
  <2>2. TypeOK'
    BY <1>3, <2>1 DEF AgentEnded, VInv, TypeOK, WorkerSteps, memory, graph, bounds
  <2>3. Linked'
    BY <1>3 DEF AgentEnded, VInv, Linked, Known, Working, Speaking, Saves, Submitting, memory
  <2> QED BY <1>3, <2>2, <2>3 DEF AgentEnded, memory, Known
<1>4. CASE TtsEnded
  <2>1. current \in Known
    BY <1>4 DEF TtsEnded, VInv, Linked, Working
  <2>2. turn' \in Turns /\ Known' = Known
    BY <1>1, <1>4, <2>1, ATurn, Changed DEF TtsEnded
  <2>3. TypeOK'
    BY <1>4, <2>2 DEF TtsEnded, VInv, TypeOK, Turns, WorkerSteps, TtsSteps, graph, bounds
  <2>4. Linked'
    BY <1>4, <2>1, <2>2 DEF TtsEnded, VInv, Linked, Saves, Submitting
  <2> QED BY <2>2, <2>3, <2>4
<1>5. CASE SaveExecuted
  <2>1. current \in Known
    BY <1>5 DEF SaveExecuted, VInv, Linked, Working
  <2>2. stored' \in [Inputs -> VoiceTurn \cup {None}] /\ sent' \in [Savers -> VoiceTurn \cup {None}]
    BY <1>5, <2>1, SavedByTwo, Stores DEF SaveExecuted, TurnOf
  <2>3. TypeOK'
    BY <1>5, <2>2 DEF SaveExecuted, VInv, TypeOK, WorkerSteps, memory, graph, bounds
  <2>4. Linked'
    BY <1>5, <2>1 DEF SaveExecuted, VInv, Linked, Known, Saves, Submitting, memory
  <2> QED BY <1>5, <2>3, <2>4 DEF SaveExecuted, memory, Known
<1> QED BY <1>2, <1>3, <1>4, <1>5, SavedByTwo, SendTyped DEF Execute

\* The agent leaves its try block with an outcome.
LEMMA AgentDoneChanges ==
  ASSUME turn \in Turns, current \in Known, NEW outcome \in Status, AgentDone(outcome)
  PROVE  turn' \in Turns /\ Known' = Known /\ agent' = "save"
<1>1. turn' = [turn EXCEPT ![current] = [turn[current] EXCEPT !.execution = outcome]] /\ agent' = "save"
  BY DEF AgentDone
<1> QED BY <1>1, ATurn, Changed

\* A step of the agent leaves the text as it is or adds a chunk.
LEMMA Outputs ==
  ASSUME TypeOK, Output
  PROVE  text' \in Seq({"chunk", "end"}) /\ Len(text') <= TextLimit
<1>1. CASE text' = text
  BY <1>1 DEF TypeOK
<1> QED BY <1>1, Pushes DEF Output

LEMMA GenerateTyped ==
  ASSUME VInv, Generate
  PROVE  TypeOK' /\ Linked' /\ Known' = Known
<1>1. turn \in Turns /\ (agent # "none" => current \in Known)
  BY DEF VInv, TypeOK, Turns, Linked, Working
\* It is enough to see what becomes of the turn, the text and the approvals.
<1>2. ASSUME agent # "none", turn' \in Turns, Known' = Known, agent' \in AgentSteps,
             text' \in Seq({"chunk", "end"}) /\ Len(text') <= TextLimit,
             pending' \subseteq Interrupts, open' \in Interrupts \cup {0}, raised' \in 0 .. MaxInterrupts,
             runs' \in [Inputs -> Nat], halt' \subseteq {"agent", "tts"},
             stored' \in [Inputs -> VoiceTurn \cup {None}], sent' \in [Savers -> VoiceTurn \cup {None}],
             UNCHANGED <<session, phase, sub, seen, inputs, restored, worker, current, tts, streaming, connections>>
      PROVE  TypeOK' /\ Linked' /\ Known' = Known
  <2>1. TypeOK'
    BY <1>2 DEF VInv, TypeOK, Turns
  <2>2. Linked'
    BY <1>1, <1>2 DEF VInv, Linked, Saves, Submitting
  <2> QED BY <1>2, <2>1, <2>2
<1>3. UNCHANGED turn => turn' \in Turns /\ Known' = Known
  BY <1>1 DEF Known
<1>4. /\ text \in Seq({"chunk", "end"}) /\ Len(text) <= TextLimit
      /\ pending \subseteq Interrupts /\ open \in Interrupts \cup {0} /\ raised \in 0 .. MaxInterrupts
      /\ runs \in [Inputs -> Nat] /\ halt \subseteq {"agent", "tts"}
      /\ stored \in [Inputs -> VoiceTurn \cup {None}] /\ sent \in [Savers -> VoiceTurn \cup {None}]
  BY DEF VInv, TypeOK
<1>5. {"save", "enter", "checked", "graph", "asked", "final", "none"} \subseteq AgentSteps
  BY DEF AgentSteps
<1>6. Waiting \in Status /\ {"failed", "waiting_approval", "cancelled"} \subseteq Status
  BY DEF Waiting, Status
<1>7. CASE StartAgent
  BY <1>2, <1>3, <1>4, <1>5, <1>7 DEF StartAgent, AgentAt, memory, graph, bounds
<1>8. CASE RunGraph
  <2>1. agent # "none" /\ current \in Known /\ runs' = [runs EXCEPT ![current] = @ + 1]
    BY <1>1, <1>8 DEF RunGraph, AgentAt
  <2>2. runs' \in [Inputs -> Nat]
    BY <1>4, <2>1 DEF Known
  <2> QED BY <1>2, <1>3, <1>4, <1>5, <1>8, <2>1, <2>2 DEF RunGraph, memory, bounds
<1>16. CASE CheckThread
  <2>1. agent # "none" /\ current \in Known
    BY <1>1, <1>16 DEF CheckThread, AgentAt
  <2>2. CASE agent' = "checked" /\ UNCHANGED <<turn, pending>>
    BY <1>2, <1>3, <1>4, <1>5, <1>16, <2>1, <2>2 DEF CheckThread, graph, bounds
  <2>3. CASE /\ ~MayRun(turn[current].resume) /\ turn[current].resume = 0
             /\ pending' = {open} /\ AgentDone("waiting_approval")
    <3>1. pending' \subseteq Interrupts
      BY <1>4, <2>3 DEF MayRun
    <3>2. turn' \in Turns /\ Known' = Known /\ agent' = "save"
      BY <1>1, <1>6, <2>1, <2>3, AgentDoneChanges
    <3> QED BY <1>2, <1>4, <1>5, <1>16, <2>1, <2>3, <3>1, <3>2 DEF CheckThread, graph, bounds
  <2>4. CASE UNCHANGED pending /\ AgentDone("failed")
    <3>1. turn' \in Turns /\ Known' = Known /\ agent' = "save"
      BY <1>1, <1>6, <2>1, <2>4, AgentDoneChanges
    <3> QED BY <1>2, <1>4, <1>5, <1>16, <2>1, <2>4, <3>1 DEF CheckThread, graph, bounds
  <2> QED BY <1>16, <2>2, <2>3, <2>4 DEF CheckThread
<1>9. CASE Say
  <2>1. text' \in Seq({"chunk", "end"}) /\ Len(text') <= TextLimit
    BY <1>9, Outputs DEF Say, VInv
  <2>2. agent' \in AgentSteps
    BY <1>9 DEF Say, VInv, TypeOK
  <2> QED BY <1>2, <1>3, <1>4, <1>9, <2>1, <2>2 DEF Say, AgentAt, memory, graph, bounds
<1>10. CASE Interrupt
  <2>1. /\ raised' = raised + 1 /\ open' = raised + 1 /\ pending' = pending \cup {raised + 1}
        /\ raised < MaxInterrupts
    BY <1>10 DEF Interrupt
  <2>2. raised + 1 \in Interrupts /\ raised' \in 0 .. MaxInterrupts
    BY <1>4, <2>1, ConstantsOK DEF Interrupts
  <2> QED BY <1>2, <1>3, <1>4, <1>5, <1>10, <2>1, <2>2 DEF Interrupt, AgentAt, bounds
<1>11. CASE EndGraph
  <2>1. agent # "none" /\ current \in Known /\ open' \in Interrupts \cup {0}
    BY <1>1, <1>4, <1>11 DEF EndGraph, AgentAt
  <2>2. CASE AgentDone(Waiting)
    <3>1. turn' \in Turns /\ Known' = Known /\ agent' = "save"
      BY <1>1, <1>6, <2>1, <2>2, AgentDoneChanges
    <3> QED BY <1>2, <1>4, <1>5, <1>11, <2>1, <3>1 DEF EndGraph, bounds
  <2>3. CASE agent' = "final" /\ UNCHANGED turn
    BY <1>2, <1>3, <1>4, <1>5, <1>11, <2>1, <2>3 DEF EndGraph, bounds
  <2> QED BY <1>11, <2>2, <2>3 DEF EndGraph
<1>12. CASE FinalText
  <2>1. agent # "none" /\ current \in Known
    BY <1>1, <1>12 DEF FinalText, AgentAt
  <2>2. turn' \in Turns /\ Known' = Known /\ agent' = "save"
    BY <1>1, <1>6, <1>12, <2>1, AgentDoneChanges DEF FinalText
  <2>3. text' \in Seq({"chunk", "end"}) /\ Len(text') <= TextLimit
    BY <1>12, Outputs DEF FinalText, VInv
  <2> QED BY <1>2, <1>4, <1>5, <1>12, <2>1, <2>2, <2>3 DEF FinalText, bounds
<1>13. CASE FailAgent
  <2>1. agent # "none" /\ current \in Known /\ open' \in Interrupts \cup {0}
    BY <1>1, <1>4, <1>13 DEF FailAgent, InThread
  <2>2. turn' \in Turns /\ Known' = Known /\ agent' = "save"
    BY <1>1, <1>6, <1>13, <2>1, AgentDoneChanges DEF FailAgent
  <2> QED BY <1>2, <1>4, <1>5, <1>13, <2>1, <2>2 DEF FailAgent, bounds
<1>14. CASE HaltAgent
  <2>1. agent # "none" /\ current \in Known /\ open' \in Interrupts \cup {0} /\ halt' \subseteq {"agent", "tts"}
    BY <1>1, <1>4, <1>14 DEF HaltAgent, InThread
  <2>2. CASE agent' = "none" /\ UNCHANGED <<turn, open, stored, sent>>
    BY <1>2, <1>3, <1>4, <1>5, <1>14, <2>1, <2>2 DEF HaltAgent, bounds
  <2>4. CASE agent = "save" /\ agent' = "none" /\ UNCHANGED <<turn, open>> /\ StoreOrNot("agent")
    <3>1. TurnOf("agent") \in Known
      BY <2>4, SavedByTwo, WhoSaves
    <3>2. stored' \in [Inputs -> VoiceTurn \cup {None}] /\ sent' \in [Savers -> VoiceTurn \cup {None}]
      BY <2>4, <3>1, SavedByTwo, StoresOrNot
    <3> QED BY <1>2, <1>3, <1>4, <1>5, <1>14, <2>1, <2>4, <3>2 DEF HaltAgent, bounds
  <2>3. CASE /\ turn' = [turn EXCEPT ![current].execution = "cancelled", ![current].interrupted = TRUE]
             /\ agent' = "save" /\ UNCHANGED <<stored, sent>>
    <3> DEFINE v == [turn[current] EXCEPT !.execution = "cancelled", !.interrupted = TRUE]
    <3>1. turn[current] \in VoiceTurn /\ current \in Inputs
      BY <1>1, <2>1, ATurn
    <3>2. v \in VoiceTurn
      BY <3>1 DEF VoiceTurn, Status
    <3>3. turn' = [turn EXCEPT ![current] = v]
      BY <1>1, <2>3, <3>1 DEF Turns, VoiceTurn
    <3> HIDE DEF v
    <3>4. turn' \in Turns /\ Known' = Known
      BY <1>1, <2>1, <3>2, <3>3, Changed
    <3> QED BY <1>2, <1>4, <1>5, <1>14, <2>1, <2>3, <3>4 DEF HaltAgent, bounds
  <2> QED BY <1>14, <2>2, <2>3, <2>4 DEF HaltAgent
<1>15. CASE SaveGenerated
  <2>1. agent # "none" /\ current \in Known
    BY <1>1, <1>15 DEF SaveGenerated, AgentAt
  <2>2. stored' \in [Inputs -> VoiceTurn \cup {None}] /\ sent' \in [Savers -> VoiceTurn \cup {None}]
    BY <1>15, <2>1, SavedByTwo, Stores DEF SaveGenerated, TurnOf
  <2> QED BY <1>2, <1>3, <1>4, <1>5, <1>15, <2>1, <2>2 DEF SaveGenerated, memory, graph, bounds
<1> QED BY <1>7, <1>8, <1>9, <1>10, <1>11, <1>12, <1>13, <1>14, <1>15, <1>16, SavedByTwo, SendTyped DEF Generate

LEMMA SpeakTyped ==
  ASSUME VInv, Speak
  PROVE  TypeOK' /\ Linked' /\ Known' = Known
<1>1. turn \in Turns /\ text \in Seq({"chunk", "end"}) /\ Len(text) <= TextLimit /\ TextLimit \in Nat
  BY ConstantsOK DEF VInv, TypeOK, Turns
<1>2. <<>> \in Seq({"chunk", "end"}) /\ Len(<<>>) <= TextLimit
  BY <1>1
<1>3. CASE UNCHANGED turn /\ (TtsDone("none") \/ TtsDone("failed")) /\ halt' \subseteq halt
  <2>1. text' = <<>> /\ tts' \in {"none", "failed"}
    BY <1>3 DEF TtsDone
  <2>2. UNCHANGED <<session, phase, sub, stored, sent, seen, inputs, pending, restored, worker, current, agent, graph, bounds>>
    BY DEF Speak, Hear, FailTts, HaltTts, memory
  <2>3. TypeOK'
    BY <1>2, <1>3, <2>1, <2>2 DEF VInv, TypeOK, TtsSteps, graph, bounds
  <2>4. Linked'
    BY <1>3, <2>1, <2>2 DEF VInv, Linked, Known, Working, Speaking, Saves, Submitting
  <2> QED BY <1>3, <2>3, <2>4 DEF Known
<1>4. CASE Hear /\ turn' = [turn EXCEPT ![current].sound = "some"] /\ text' = Tail(text) /\ UNCHANGED tts
  <2>1. text' \in Seq({"chunk", "end"}) /\ Len(text') <= TextLimit
    BY <1>1, <1>4 DEF Hear
  <2>2. current \in Known
    BY <1>4 DEF Hear, VInv, Linked, Working
  <2>3. turn' = [turn EXCEPT ![current] = [turn[current] EXCEPT !.sound = "some"]]
    BY <1>4
  <2>4. turn' \in Turns /\ Known' = Known
    BY <1>1, <2>2, <2>3, ATurn, Changed
  <2>5. UNCHANGED <<session, phase, sub, stored, sent, seen, inputs, pending, restored, worker, current, agent, halt, graph,
                    bounds>>
    BY <1>4 DEF Hear
  <2>6. TypeOK'
    BY <1>4, <2>1, <2>4, <2>5 DEF VInv, TypeOK, Turns, graph, bounds
  <2>7. Linked'
    BY <1>4, <2>2, <2>4, <2>5 DEF VInv, Linked, Saves, Submitting
  <2> QED BY <2>4, <2>6, <2>7
<1> QED BY <1>3, <1>4 DEF Speak, Hear, FailTts, HaltTts, memory

\* What is under way in x: a turn it has sent, or a new one.
LEMMA WhatIsUnderWay ==
  ASSUME NEW x \in UnderWay
  PROVE  /\ x \in Savers /\ Saving(x).i # None
         /\ \/ sent[x] # None /\ Saving(x) = [i |-> TurnOf(x), v |-> sent[x]]
            \/ /\ x \in Submitters /\ sub[x].pc = "save_new"
               /\ Saving(x) = [i |-> sub[x].input, v |-> NewTurn(sub[x].resume)]
<1>1. x \in Savers /\ Saving(x).i # None
  BY DEF UnderWay
<1>2. CASE sent[x] # None
  <2>1. Saving(x) = [i |-> TurnOf(x), v |-> sent[x]]
    BY <1>2, Zenon DEF Saving
  <2> QED BY <1>1, <1>2, <2>1
<1>3. CASE sent[x] = None /\ x \in Submitters /\ sub[x].pc = "save_new"
  <2>1. Saving(x) = [i |-> sub[x].input, v |-> NewTurn(sub[x].resume)]
    BY <1>3, Zenon DEF Saving
  <2> QED BY <1>1, <1>3, <2>1
<1>4. CASE sent[x] = None /\ ~(x \in Submitters /\ sub[x].pc = "save_new")
  <2>1. Saving(x) = [i |-> None, v |-> None]
    BY <1>4, Zenon DEF Saving
  <2> QED BY <1>1, <2>1
<1> QED BY <1>2, <1>3, <1>4

LEMMA SavingIsATurn ==
  ASSUME VInv, NEW x \in UnderWay
  PROVE  Saving(x).v \in VoiceTurn
<1>1. sent \in [Savers -> VoiceTurn \cup {None}] /\ sub \in [Submitters -> Submission]
  BY DEF VInv, TypeOK
<1>2. CASE sent[x] # None /\ Saving(x) = [i |-> TurnOf(x), v |-> sent[x]]
  BY <1>1, <1>2, WhatIsUnderWay
<1>3. CASE x \in Submitters /\ Saving(x) = [i |-> sub[x].input, v |-> NewTurn(sub[x].resume)]
  BY <1>1, <1>3, NewTurnIsTyped DEF Submission
<1> QED BY <1>2, <1>3, WhatIsUnderWay

\* Statements that may have committed leave no turn out of the table.
LEMMA SavesStore ==
  ASSUME VInv, NEW done \in SUBSET UnderWay, SavesOf(done)
  PROVE  /\ stored' \in [Inputs -> VoiceTurn \cup {None}]
         /\ \A i \in Inputs : stored[i] # None => stored'[i] # None
<1>1. \A p \in done : Saving(p).v \in VoiceTurn
  BY SavingIsATurn
<1>2. stored \in [Inputs -> VoiceTurn \cup {None}]
  BY DEF VInv, TypeOK
<1>3. ASSUME NEW i \in Inputs PROVE stored'[i] = stored[i] \/ stored'[i] \in VoiceTurn
  <2>1. CASE \E p \in done : Saving(p).i = i
    <3> DEFINE q == CHOOSE p \in done : Saving(p).i = i
    <3>1. q \in done
      BY <2>1
    <3>2. stored'[i] = Saving(q).v
      BY <2>1 DEF SavesOf
    <3> QED BY <1>1, <3>1, <3>2
  <2>2. CASE ~ \E p \in done : Saving(p).i = i
    BY <2>2 DEF SavesOf
  <2> QED BY <2>1, <2>2
<1>4. stored' = [i \in Inputs |-> stored'[i]]
  BY DEF SavesOf
<1> QED BY <1>2, <1>3, <1>4, TurnIsNotNone

\* The memory of a connection that is over.
LEMMA ForgetsAll ==
  ASSUME Forget
  PROVE  /\ turn' \in Turns /\ Known' = {} /\ seen' = {} /\ inputs' = <<>> /\ pending' = {}
         /\ restored' = FALSE /\ current' = None /\ text' = <<>> /\ phase' = "off"
  BY DEF Forget, Known, Turns

LEMMA RunTyped ==
  ASSUME VInv, Connect \/ Restore \/ End \/ CloseSession \/ ChatRun \/ UNCHANGED vars
  PROVE  TypeOK' /\ Linked' /\ Known' = Known
<1>1. turn \in Turns
  BY DEF VInv, TypeOK, Turns
<1>2. CASE Connect
  <2>1. connections' \in 0 .. MaxConnections
    BY <1>2, ConstantsOK DEF Connect, VInv, TypeOK
  <2>2. TypeOK'
    BY <1>2, <2>1 DEF Connect, VInv, TypeOK, Phases, WorkerSteps, memory, graph
  <2>3. Linked'
    BY <1>2 DEF Connect, VInv, Linked, Known, Working, Speaking, Saves, Submitting, memory
  <2> QED BY <1>2, <2>2, <2>3 DEF Connect, memory, Known
<1>3. CASE Restore
  <2>1. pending' \subseteq Interrupts
    BY <1>3 DEF Restore, VInv, TypeOK
  <2>2. TypeOK'
    BY <1>3, <2>1 DEF Restore, VInv, TypeOK, execution, graph, bounds
  <2>3. Linked'
    BY <1>3 DEF Restore, VInv, Linked, Known, Working, Speaking, Saves, Submitting, execution
  <2> QED BY <1>3, <2>2, <2>3 DEF Restore, Known
<1>4. CASE End
  <2>1. turn' \in Turns /\ Known' = Known
    BY <1>1, <1>4, AbandonChanges DEF End
  <2>2. halt' \subseteq {"agent", "tts"}
    BY <1>4 DEF End, VInv, TypeOK, ToHalt, Running
  <2>3. TypeOK'
    BY <1>4, <2>1, <2>2 DEF End, VInv, TypeOK, Turns, Phases, graph, bounds
  <2>4. Linked'
    BY <1>4, <2>1 DEF End, VInv, Linked, Working, Speaking, Saves, Submitting
  <2> QED BY <2>1, <2>3, <2>4
<1>5. CASE CloseSession
  <2>1. TypeOK'
    BY <1>5 DEF CloseSession, VInv, TypeOK, memory, execution, graph, bounds
  <2>2. Linked'
    BY <1>5 DEF CloseSession, VInv, Linked, Known, Working, Speaking, Saves, Submitting, memory, execution
  <2> QED BY <1>5, <2>1, <2>2 DEF CloseSession, memory, Known
<1>6. CASE ChatRun
  <2>1. open' \in Interrupts \cup {0} /\ raised' \in 0 .. MaxInterrupts
    <3>1. CASE open' = 0 /\ UNCHANGED raised
      BY <3>1 DEF VInv, TypeOK
    <3>2. CASE raised < MaxInterrupts /\ raised' = raised + 1 /\ open' = raised + 1
      BY <3>2, ConstantsOK DEF VInv, TypeOK, Interrupts
    <3> QED BY <1>6, <3>1, <3>2 DEF ChatRun
  <2>2. TypeOK'
    BY <1>6, <2>1 DEF ChatRun, VInv, TypeOK, memory, execution, bounds
  <2>3. Linked'
    BY <1>6 DEF ChatRun, VInv, Linked, Known, Working, Speaking, Saves, Submitting, memory, execution
  <2> QED BY <1>6, <2>2, <2>3 DEF ChatRun, memory, Known
<1>7. CASE UNCHANGED vars
  BY <1>7 DEF vars, VInv, TypeOK, Linked, Known, Working, Speaking, Saves, Submitting, memory, execution, graph, bounds
<1> QED BY <1>2, <1>3, <1>4, <1>5, <1>6, <1>7

LEMMA TeardownTyped ==
  ASSUME VInv, Teardown \/ Crash
  PROVE  TypeOK' /\ Linked'
<1>1. turn \in Turns /\ <<>> \in Seq(Inputs) /\ Len(<<>>) <= QueueLimit /\ <<>> \in Seq({"chunk", "end"})
      /\ Len(<<>>) <= TextLimit
  BY ConstantsOK DEF VInv, TypeOK, Turns
<1>2. [p \in Submitters |-> Idle] \in [Submitters -> Submission]
  BY IdleIsTyped
<1>3. CASE Drain
  <2>1. stored' \in [Inputs -> VoiceTurn \cup {None}]
    BY <1>3, SavesStore DEF Drain
  <2>2. /\ sub' \in [Submitters -> Submission] /\ \A p \in Submitters : sub'[p].pc = "idle"
        /\ sent' \in [Savers -> VoiceTurn \cup {None}]
    BY <1>2, <1>3, IdleIsTyped DEF Drain, VInv, TypeOK
  <2>3. TypeOK'
    BY <1>3, <2>1, <2>2 DEF Drain, VInv, TypeOK, Phases, memory, execution, graph, bounds
  <2>4. Linked'
    BY <1>3, <2>2 DEF Drain, VInv, Linked, Known, Working, Speaking, Saves, Submitting, memory, execution
  <2> QED BY <2>3, <2>4
<1>4. CASE Reap
  <2>1. text' \in Seq({"chunk", "end"}) /\ Len(text') <= TextLimit
    <3>1. CASE text' = text
      BY <3>1 DEF VInv, TypeOK
    <3>2. CASE Len(text) < TextLimit /\ text' = Append(text, "end")
      BY <3>2, ConstantsOK DEF VInv, TypeOK
    <3> QED BY <1>4, <3>1, <3>2 DEF Reap
  <2>2. halt' \subseteq {"agent", "tts"} /\ worker' \in {worker, "none"}
    BY <1>4 DEF Reap, VInv, TypeOK
  <2>5. stored' \in [Inputs -> VoiceTurn \cup {None}] /\ sent' \in [Savers -> VoiceTurn \cup {None}]
    <3>1. CASE UNCHANGED <<stored, sent>>
      BY <3>1 DEF VInv, TypeOK
    <3>2. CASE worker = "save" /\ StoreOrNot("worker")
      <4>1. TurnOf("worker") \in Known
        BY <3>2, SavedByTwo, WhoSaves
      <4> QED BY <3>2, <4>1, SavedByTwo, StoresOrNot
    <3> QED BY <1>4, <3>1, <3>2 DEF Reap
  <2>3. TypeOK'
    BY <1>4, <2>1, <2>2, <2>5 DEF Reap, VInv, TypeOK, Phases, WorkerSteps, memory, graph, bounds
  <2>4. Linked'
    BY <1>4, <2>2 DEF Reap, VInv, Linked, Known, Working, Speaking, Saves, Submitting, memory
  <2> QED BY <2>3, <2>4
<1>5. CASE Leave
  <2>1. stored' \in [Inputs -> VoiceTurn \cup {None}]
    BY <1>1, <1>5 DEF Leave, VInv, TypeOK, Turns
  <2>2. /\ turn' \in Turns /\ Known' = {} /\ seen' = {} /\ inputs' = <<>> /\ pending' = {}
        /\ restored' = FALSE /\ current' = None /\ text' = <<>> /\ phase' = "off"
    BY <1>5, ForgetsAll DEF Leave
  <2>3. TypeOK'
    BY <1>1, <1>5, <2>1, <2>2 DEF Leave, VInv, TypeOK, Turns, Phases, TtsSteps, graph, bounds
  <2>4. agent = "none" /\ \A p \in Submitters : sub[p].pc = "idle"
    BY <1>5, IdleIsTyped DEF Leave, Leaving, VInv, Ended
  <2>5. Linked'
    BY <1>5, <2>2, <2>4 DEF Leave, Leaving, Linked, Working, Speaking, Saves, Submitting
  <2> QED BY <2>3, <2>5
<1>6. CASE Crash
  <2>1. stored' \in [Inputs -> VoiceTurn \cup {None}]
    BY <1>6, SavesStore DEF Crash
  <2>2. /\ turn' \in Turns /\ Known' = {} /\ seen' = {} /\ inputs' = <<>> /\ pending' = {}
        /\ restored' = FALSE /\ current' = None /\ text' = <<>> /\ phase' = "off"
    BY <1>6, ForgetsAll DEF Crash
  <2>3. /\ sub' \in [Submitters -> Submission] /\ \A p \in Submitters : sub'[p].pc = "idle"
        /\ worker' = "none" /\ agent' = "none" /\ tts' = "none" /\ halt' = {}
        /\ sent' \in [Savers -> VoiceTurn \cup {None}]
        /\ open' \in Interrupts \cup {0} /\ UNCHANGED <<session, raised, runs, streaming, connections>>
    BY <1>2, <1>6, IdleIsTyped DEF Crash, VInv, TypeOK
  <2>4. TypeOK'
    BY <1>1, <2>1, <2>2, <2>3 DEF VInv, TypeOK, Turns, Phases, WorkerSteps, AgentSteps, TtsSteps
  <2>5. Linked'
    BY <2>2, <2>3 DEF Linked, Working, Speaking, Saves, Submitting
  <2> QED BY <2>4, <2>5
<1> QED BY <1>3, <1>4, <1>5, <1>6 DEF Teardown

LEMMA VStep == VInv /\ [Next]_vars => VInv'
<1> SUFFICES ASSUME VInv, [Next]_vars PROVE VInv'
  OBVIOUS
<1>1. TypeOK' /\ Linked'
  BY SubmitTyped, SubmitStepTyped, ClientTyped, ExecuteTyped, GenerateTyped, SpeakTyped, RunTyped, TeardownTyped
  DEF Next
<1>2. Ended'
  BY EndedStep DEF VInv
<1> QED BY <1>1, <1>2 DEF VInv

\* The state of a connection keeps its types, whoever is working on a turn works on one that
\* exists, and the queues keep their limits (voice_connection.py:90, 722).
THEOREM VoiceTypeCorrect == Spec => []TypeOK
<1>1. VInv => TypeOK
  BY DEF VInv
<1> QED BY <1>1, VBegin, VStep, PTL DEF Spec

-----------------------------------------------------------------------------
(* How far an input has come. *)

\* Most steps only add to the table, and start, queue and submit nothing.
LEMMA StaysFresh ==
  ASSUME Fresh, ExecutedOnce, UNCHANGED <<seen, inputs, runs>>, Known' = Known,
         \A i \in Inputs : stored[i] # None => stored'[i] # None,
         Starting' => Starting /\ current' = current,
         \A p \in Submitters : /\ Submitting(p)' => Submitting(p) /\ sub'[p].input = sub[p].input
                               /\ Checked(p)' => stored'[sub'[p].input] = None
  PROVE  Fresh' /\ ExecutedOnce'
<1>1. ExecutedOnce'
  BY DEF ExecutedOnce
<1>2. \A i \in Known' : i \in seen' /\ stored'[i] # None
  BY DEF Fresh, Known
<1>3. \A i \in Inputs : runs'[i] > 0 => stored'[i] # None
  BY DEF Fresh
<1>4. /\ \A k \in DOMAIN inputs' : runs'[inputs'[k]] = 0
      /\ \A j, k \in DOMAIN inputs' : inputs'[j] = inputs'[k] => j = k
      /\ Starting' => runs'[current'] = 0 /\ \A k \in DOMAIN inputs' : inputs'[k] # current'
  BY DEF Fresh
<1>5. /\ \A p \in Submitters : /\ Submitting(p)' => sub'[p].input \in seen' \ Known'
                               /\ Checked(p)' => stored'[sub'[p].input] = None
      /\ \A p, q \in Submitters : Submitting(p)' /\ Submitting(q)' /\ sub'[p].input = sub'[q].input => p = q
  BY DEF Fresh
<1>6. Fresh'
  BY <1>2, <1>3, <1>4, <1>5 DEF Fresh
<1> QED BY <1>1, <1>6

\* A turn that exists is stored, which no submitter is about to store as a new one.
LEMMA StoringAKnownTurn ==
  ASSUME VInv, Fresh, NEW x \in Savers, Store(x), TurnOf(x) \in Known
  PROVE  /\ \A i \in Inputs : stored[i] # None => stored'[i] # None
         /\ \A p \in Submitters : Checked(p) => stored'[sub[p].input] = None
<1>1. /\ \A i \in Inputs : i = TurnOf(x) \/ stored'[i] = stored[i]
      /\ stored'[TurnOf(x)] # None
  BY Stores
<1>2. ASSUME NEW p \in Submitters, Checked(p) PROVE stored'[sub[p].input] = None
  <2>1. sub[p].input \in Inputs /\ sub[p].input \notin Known /\ stored[sub[p].input] = None
    BY <1>2 DEF VInv, Linked, Fresh, Submitting, Checked
  <2> QED BY <1>1, <2>1
<1> QED BY <1>1, <1>2

LEMMA SubmitFresh ==
  ASSUME VInv, Fresh, ExecutedOnce, NEW p \in Submitters, NEW i \in Inputs, NEW r \in 0 .. raised, Submit(p, i, r)
  PROVE  Fresh' /\ ExecutedOnce'
<1>1. sub \in [Submitters -> Submission]
  BY DEF VInv, TypeOK
<1>2. \/ sub' = sub
      \/ /\ sub'[p].pc = "has_input" /\ sub'[p].input = i
         /\ \A q \in Submitters \ {p} : sub'[q] = sub[q]
  BY <1>1 DEF Submit, Await
<1>3. i \notin seen /\ seen' = seen \cup {i} /\ Known' = Known
      /\ UNCHANGED <<stored, inputs, agent, current, runs>>
  BY DEF Submit, execution, graph, Known
<1>4. i \notin Known
  BY <1>3 DEF Fresh
<1>5. /\ \A q \in Submitters : Submitting(q)' => sub'[q].input \in seen' \ Known'
      /\ \A q \in Submitters : Checked(q)' => stored'[sub'[q].input] = None
      /\ \A q, s \in Submitters : Submitting(q)' /\ Submitting(s)' /\ sub'[q].input = sub'[s].input => q = s
  BY <1>2, <1>3, <1>4 DEF Fresh, Submitting, Checked
<1>6. /\ \A j \in Known' : j \in seen' /\ stored'[j] # None
      /\ \A j \in Inputs : runs'[j] > 0 => stored'[j] # None
      /\ \A k \in DOMAIN inputs' : runs'[inputs'[k]] = 0
      /\ \A j, k \in DOMAIN inputs' : inputs'[j] = inputs'[k] => j = k
      /\ Starting' => runs'[current'] = 0 /\ \A k \in DOMAIN inputs' : inputs'[k] # current'
  BY <1>3 DEF Fresh, Starting
<1> QED BY <1>3, <1>5, <1>6 DEF Fresh, ExecutedOnce

LEMMA SaveNewFresh ==
  ASSUME VInv, Fresh, ExecutedOnce, NEW p \in Submitters, SaveNew(p)
  PROVE  Fresh' /\ ExecutedOnce'
<1> DEFINE i == sub[p].input
           v == NewTurn(sub[p].resume)
<1>1. /\ sub \in [Submitters -> Submission] /\ turn \in Turns /\ stored \in [Inputs -> VoiceTurn \cup {None}]
      /\ sub[p].pc = "save_new" /\ i \in Inputs /\ sub[p] \in Submission /\ inputs \in Seq(Inputs)
      /\ runs \in [Inputs -> Nat]
  BY DEF SaveNew, VInv, TypeOK, Turns, Linked, Submitting
<1>2. i \in seen /\ i \notin Known /\ stored[i] = None /\ runs[i] = 0
  BY <1>1 DEF Fresh, Submitting, Checked
<1>3. v \in VoiceTurn
  BY <1>1, NewTurnIsTyped DEF Submission
<1>4. /\ turn' = [turn EXCEPT ![i] = v] /\ stored' = [stored EXCEPT ![i] = v]
      /\ UNCHANGED <<seen, agent, current, runs>>
  BY DEF SaveNew, execution, graph
<1> HIDE DEF v
<1>5. /\ Known' = Known \cup {i} /\ stored'[i] # None
      /\ \A j \in Inputs \ {i} : stored'[j] = stored[j]
  BY <1>1, <1>3, <1>4, TurnIsNotNone DEF Known, Turns
<1>6. /\ sub'[p].pc \in {"idle", "raised"}
      /\ \A q \in Submitters \ {p} : sub'[q] = sub[q]
  BY <1>1 DEF SaveNew, Return, Await, Idle
<1>7. \A q \in Submitters : Submitting(q)' =>
        q # p /\ Submitting(q) /\ sub'[q] = sub[q] /\ sub[q].input # i /\ sub[q].input \in Inputs
  BY <1>1, <1>6 DEF Fresh, VInv, Linked, Submitting
<1>8. /\ \A q \in Submitters : Submitting(q)' => sub'[q].input \in seen' \ Known'
      /\ \A q \in Submitters : Checked(q)' => stored'[sub'[q].input] = None
      /\ \A q, s \in Submitters : Submitting(q)' /\ Submitting(s)' /\ sub'[q].input = sub'[s].input => q = s
  BY <1>4, <1>5, <1>7 DEF Fresh, Submitting, Checked
<1>9. /\ \A k \in DOMAIN inputs' : runs'[inputs'[k]] = 0 /\ (inputs'[k] \in Known \/ inputs'[k] = i)
      /\ \A j, k \in DOMAIN inputs' : inputs'[j] = inputs'[k] => j = k
  <2>1. CASE inputs' = inputs
    BY <1>4, <2>1 DEF Fresh, VInv, Linked
  <2>2. CASE inputs' = Append(inputs, i)
    <3>1. DOMAIN inputs' = DOMAIN inputs \cup {Len(inputs) + 1} /\ Len(inputs) + 1 \notin DOMAIN inputs
          /\ inputs'[Len(inputs) + 1] = i /\ \A k \in DOMAIN inputs : inputs'[k] = inputs[k]
      BY <1>1, <2>2
    <3>2. \A k \in DOMAIN inputs : inputs[k] \in Known /\ runs[inputs[k]] = 0
      BY DEF Fresh, VInv, Linked
    <3>3. \A j, k \in DOMAIN inputs : inputs[j] = inputs[k] => j = k
      BY DEF Fresh
    <3> QED BY <1>2, <1>4, <3>1, <3>2, <3>3
  <2> QED BY <2>1, <2>2 DEF SaveNew
<1>10. Starting' => runs'[current'] = 0 /\ \A k \in DOMAIN inputs' : inputs'[k] # current'
  <2> SUFFICES ASSUME Starting' PROVE runs'[current'] = 0 /\ \A k \in DOMAIN inputs' : inputs'[k] # current'
    OBVIOUS
  <2>1. Starting /\ current' = current /\ current \in Known /\ runs[current] = 0
    BY <1>4 DEF Starting, Fresh, VInv, Linked, Working
  <2>2. CASE inputs' = inputs
    BY <1>4, <2>1, <2>2 DEF Fresh
  <2>3. CASE inputs' = Append(inputs, i)
    <3>1. DOMAIN inputs' = DOMAIN inputs \cup {Len(inputs) + 1}
          /\ inputs'[Len(inputs) + 1] = i /\ \A k \in DOMAIN inputs : inputs'[k] = inputs[k]
      BY <1>1, <2>3
    <3>2. \A k \in DOMAIN inputs : inputs[k] # current
      BY <2>1 DEF Fresh
    <3> QED BY <1>2, <1>4, <2>1, <3>1, <3>2
  <2> QED BY <2>2, <2>3 DEF SaveNew
<1>11. /\ \A j \in Known' : j \in seen' /\ stored'[j] # None
       /\ \A j \in Inputs : runs'[j] > 0 => stored'[j] # None
  BY <1>2, <1>4, <1>5 DEF Fresh, Known
<1>12. Fresh'
  BY <1>8, <1>9, <1>10, <1>11 DEF Fresh
<1> QED BY <1>4, <1>12 DEF ExecutedOnce

\* The other steps of a submitter.
LEMMA SubmitStepFresh ==
  ASSUME VInv, Fresh, ExecutedOnce, NEW p \in Submitters, HasInput(p) \/ SaveCancelled(p)
  PROVE  Fresh' /\ ExecutedOnce'
<1>1. sub \in [Submitters -> Submission] /\ UNCHANGED <<seen, inputs, runs, agent, current>>
  BY DEF VInv, TypeOK, HasInput, SaveCancelled, memory, execution, graph
<1>2. CASE HasInput(p)
  <2>1. Known' = Known /\ stored' = stored
    BY <1>2, HasInputTyped DEF HasInput
  <2>2. \/ sub'[p].pc = "idle"
        \/ sub'[p].input = sub[p].input /\ stored[sub[p].input] = None
    <3>1. CASE Return(p)
      BY <1>1, <3>1, IdleIsTyped DEF Return, Await
    <3>2. CASE stored[sub[p].input] = None /\ Await(p, [sub[p] EXCEPT !.pc = "save_new"])
      <4>1. sub'[p] = [sub[p] EXCEPT !.pc = "save_new"]
        BY <1>1, <3>2 DEF Await
      <4> QED BY <1>1, <3>2, <4>1 DEF Submission
    <3>3. CASE stored[sub[p].input] = None /\ Await(p, [sub[p] EXCEPT !.pc = "save_cancelled", !.turn = current])
      <4>1. sub'[p] = [sub[p] EXCEPT !.pc = "save_cancelled", !.turn = current]
        BY <1>1, <3>3 DEF Await
      <4> QED BY <1>1, <3>3, <4>1 DEF Submission
    <3> QED BY <1>2, <3>1, <3>2, <3>3 DEF HasInput
  <2>3. \A q \in Submitters \ {p} : sub'[q] = sub[q]
    BY <1>1, <1>2 DEF HasInput, Return, Await
  <2>4. \A q \in Submitters : /\ Submitting(q)' => Submitting(q) /\ sub'[q].input = sub[q].input
                              /\ Checked(q)' => stored'[sub'[q].input] = None
    BY <1>2, <2>1, <2>2, <2>3 DEF HasInput, Submitting, Checked, Fresh
  <2> QED BY <1>1, <2>1, <2>4, StaysFresh DEF Starting
<1>3. CASE SaveCancelled(p)
  <2>1. p \in Savers /\ TurnOf(p) \in Known /\ Store(p) /\ Known' = Known
    BY <1>3, SavedByTwo, WhoSaves DEF SaveCancelled, Saves, memory, Known
  <2>2. /\ \A i \in Inputs : stored[i] # None => stored'[i] # None
        /\ \A q \in Submitters : Checked(q) => stored'[sub[q].input] = None
    BY <2>1, StoringAKnownTurn
  <2>3. /\ sub[p].pc = "save_cancelled" /\ sub'[p].pc = "save_new" /\ sub'[p].input = sub[p].input
        /\ \A q \in Submitters \ {p} : sub'[q] = sub[q]
    BY <1>1, <1>3 DEF SaveCancelled, Await, Submission
  <2>4. \A q \in Submitters : /\ Submitting(q)' => Submitting(q) /\ sub'[q].input = sub[q].input
                              /\ Checked(q)' => stored'[sub'[q].input] = None
    BY <2>2, <2>3 DEF Submitting, Checked
  <2> QED BY <1>1, <2>1, <2>2, <2>4, StaysFresh DEF Starting
<1> QED BY <1>2, <1>3

\* A step that leaves the submitters where they are, or at rest, and stores nothing or a turn that
\* exists.
LEMMA StoresFresh ==
  ASSUME VInv, Fresh, ExecutedOnce, UNCHANGED <<seen, inputs, runs>>, Known' = Known,
         stored' = stored \/ \E x \in Savers : Store(x) /\ TurnOf(x) \in Known,
         Starting' => Starting /\ current' = current,
         \A p \in Submitters : sub'[p] = sub[p] \/ sub'[p].pc \in {"idle", "save_turn"}
  PROVE  Fresh' /\ ExecutedOnce'
<1>1. /\ \A i \in Inputs : stored[i] # None => stored'[i] # None
      /\ \A p \in Submitters : Checked(p) => stored'[sub[p].input] = None
  BY StoringAKnownTurn DEF Fresh
<1>2. \A p \in Submitters : /\ Submitting(p)' => Submitting(p) /\ sub'[p].input = sub[p].input
                            /\ Checked(p)' => stored'[sub'[p].input] = None
  BY <1>1 DEF Submitting, Checked
<1> QED BY <1>1, <1>2, StaysFresh

LEMMA SendFresh ==
  ASSUME VInv, Fresh, ExecutedOnce, NEW x \in Savers, Send(x)
  PROVE  Fresh' /\ ExecutedOnce'
<1>1. Known' = Known /\ UNCHANGED <<seen, inputs, runs, agent, current, stored, sub>>
  BY SendTyped DEF Send, memory, execution, graph
<1> QED BY <1>1, StoresFresh DEF Starting

LEMMA ClientFresh ==
  ASSUME VInv, Fresh, ExecutedOnce, (\E i \in Inputs : ClientCancel(i) \/ Playback(i)) \/ SaveTurn
  PROVE  Fresh' /\ ExecutedOnce'
<1>1. Known' = Known
  BY ClientTyped
<1>2. sub \in [Submitters -> Submission] /\ "receiver" \in Submitters
  BY ConstantsOK DEF VInv, TypeOK
<1>3. UNCHANGED <<seen, inputs, runs, agent, current>>
  BY DEF ClientCancel, Playback, SaveTurn, memory, execution, graph
<1>4. \A p \in Submitters : sub'[p] = sub[p] \/ sub'[p].pc \in {"idle", "save_turn"}
  <2>1. ASSUME NEW s, s.pc \in {"idle", "save_turn"}, Await("receiver", s)
        PROVE  \A p \in Submitters : sub'[p] = sub[p] \/ sub'[p].pc \in {"idle", "save_turn"}
    BY <1>2, <2>1 DEF Await
  <2>2. \A i \in Inputs : [Idle EXCEPT !.pc = "save_turn", !.turn = i].pc = "save_turn"
    BY DEF Idle
  <2>3. CASE SaveTurn
    BY <2>1, <2>3, IdleIsTyped DEF SaveTurn
  <2>4. ASSUME NEW i \in Inputs, ClientCancel(i) \/ Playback(i)
        PROVE  \A p \in Submitters : sub'[p] = sub[p] \/ sub'[p].pc \in {"idle", "save_turn"}
    <3> DEFINE s == [Idle EXCEPT !.pc = "save_turn", !.turn = i]
    <3>1. Await("receiver", s)
      BY <2>4 DEF ClientCancel, Playback
    <3>2. s.pc = "save_turn"
      BY <2>2
    <3> HIDE DEF s
    <3> QED BY <2>1, <3>1, <3>2
  <2> QED BY <2>3, <2>4
<1>5. stored' = stored \/ \E x \in Savers : Store(x) /\ TurnOf(x) \in Known
  <2>1. CASE SaveTurn
    BY <1>2, <2>1, SavedByTwo, WhoSaves DEF SaveTurn, Saves
  <2> QED BY <2>1 DEF ClientCancel, Playback
<1> QED BY <1>1, <1>3, <1>4, <1>5, StoresFresh DEF Starting

\* The worker takes the next input from the queue: nobody else has it.
LEMMA TakeFresh ==
  ASSUME VInv, Fresh, ExecutedOnce, Take
  PROVE  Fresh' /\ ExecutedOnce'
<1>1. /\ inputs \in Seq(Inputs) /\ inputs # <<>> /\ inputs' = Tail(inputs) /\ current' = Head(inputs)
      /\ UNCHANGED <<stored, seen, sub, runs>>
  BY DEF Take, VInv, TypeOK, graph
<1>2. Known' = Known
  BY ExecuteTyped DEF Execute
<1>3. /\ 1 \in DOMAIN inputs /\ current' = inputs[1]
      /\ \A k \in DOMAIN inputs' : k + 1 \in DOMAIN inputs /\ k + 1 # 1 /\ inputs'[k] = inputs[k + 1] /\ k \in Nat
  BY <1>1
<1>4. /\ runs'[current'] = 0
      /\ \A k \in DOMAIN inputs' : runs'[inputs'[k]] = 0 /\ inputs'[k] # current'
      /\ \A j, k \in DOMAIN inputs' : inputs'[j] = inputs'[k] => j = k
  <2>1. \A j, k \in DOMAIN inputs : inputs[j] = inputs[k] => j = k
    BY DEF Fresh
  <2>2. \A k \in DOMAIN inputs : runs[inputs[k]] = 0
    BY DEF Fresh
  <2> HIDE DEF Fresh
  <2>3. ASSUME NEW j \in DOMAIN inputs', NEW k \in DOMAIN inputs', inputs'[j] = inputs'[k] PROVE j = k
    <3>1. j + 1 = k + 1 /\ j \in Nat /\ k \in Nat
      BY <1>3, <2>1, <2>3
    <3> QED BY <3>1
  <2> QED BY <1>1, <1>3, <2>1, <2>2, <2>3
<1>5. /\ \A i \in Known' : i \in seen' /\ stored'[i] # None
      /\ \A i \in Inputs : runs'[i] > 0 => stored'[i] # None
      /\ \A p \in Submitters : /\ Submitting(p)' => sub'[p].input \in seen' \ Known'
                               /\ Checked(p)' => stored'[sub'[p].input] = None
      /\ \A p, q \in Submitters : Submitting(p)' /\ Submitting(q)' /\ sub'[p].input = sub'[q].input => p = q
  BY <1>1, <1>2 DEF Fresh, Submitting, Checked
<1> QED BY <1>1, <1>4, <1>5 DEF Fresh, ExecutedOnce

LEMMA ExecuteFresh ==
  ASSUME VInv, Fresh, ExecutedOnce, Execute
  PROVE  Fresh' /\ ExecutedOnce'
<1>1. Known' = Known
  BY ExecuteTyped
<1>2. CASE AgentEnded \/ TtsEnded
  <2>1. UNCHANGED <<seen, inputs, runs, agent, current, stored, sub>>
    BY <1>2 DEF AgentEnded, TtsEnded, memory, graph
  <2> QED BY <1>1, <2>1, StoresFresh DEF Starting
<1>3. CASE SaveExecuted
  <2>1. UNCHANGED <<seen, inputs, runs, agent, current, sub>>
    BY <1>3 DEF SaveExecuted, memory, graph
  <2>2. \E x \in Savers : Store(x) /\ TurnOf(x) \in Known
    BY <1>3, SavedByTwo, WhoSaves DEF SaveExecuted
  <2> QED BY <1>1, <2>1, <2>2, StoresFresh DEF Starting
<1> QED BY <1>2, <1>3, TakeFresh, SavedByTwo, SendFresh DEF Execute

\* The graph is run for the turn that has started, once, and the turn is no start any more.
LEMMA RunGraphFresh ==
  ASSUME VInv, Fresh, ExecutedOnce, AgentAt("checked"), runs' = [runs EXCEPT ![current] = @ + 1], agent' = "graph",
         UNCHANGED <<turn, stored, seen, inputs, sub, current>>
  PROVE  Fresh' /\ ExecutedOnce'
<1>1. Starting /\ Known' = Known /\ current \in Known /\ runs \in [Inputs -> Nat]
  BY DEF AgentAt, Starting, Known, VInv, TypeOK, Linked, Working
<1>2. /\ runs[current] = 0 /\ stored[current] # None /\ current \in Inputs
      /\ \A k \in DOMAIN inputs : inputs[k] # current /\ inputs[k] \in Inputs /\ runs[inputs[k]] = 0
  BY <1>1 DEF Fresh, VInv, Linked, Known
<1>3. runs'[current] = 1 /\ \A i \in Inputs \ {current} : runs'[i] = runs[i]
  BY <1>1, <1>2
<1>4. ExecutedOnce'
  BY <1>3 DEF ExecutedOnce
<1>5. /\ \A i \in Known' : i \in seen' /\ stored'[i] # None
      /\ \A i \in Inputs : runs'[i] > 0 => stored'[i] # None
      /\ \A k \in DOMAIN inputs' : runs'[inputs'[k]] = 0
      /\ \A j, k \in DOMAIN inputs' : inputs'[j] = inputs'[k] => j = k
      /\ ~Starting'
      /\ \A p \in Submitters : /\ Submitting(p)' => sub'[p].input \in seen' \ Known'
                               /\ Checked(p)' => stored'[sub'[p].input] = None
      /\ \A p, q \in Submitters : Submitting(p)' /\ Submitting(q)' /\ sub'[p].input = sub'[q].input => p = q
  BY <1>1, <1>2, <1>3 DEF Fresh, Submitting, Checked, Starting
<1> QED BY <1>4, <1>5 DEF Fresh

LEMMA GenerateFresh ==
  ASSUME VInv, Fresh, ExecutedOnce, Generate
  PROVE  Fresh' /\ ExecutedOnce'
<1>1. Known' = Known
  BY GenerateTyped
<1>2. UNCHANGED <<seen, inputs, sub, current>>
  BY DEF Generate, StartAgent, CheckThread, RunGraph, Say, Interrupt, EndGraph, FinalText, FailAgent, HaltAgent, Send,
         SaveGenerated, memory, execution
<1>3. CASE RunGraph
  BY <1>2, <1>3, RunGraphFresh DEF RunGraph, memory
<1>4. CASE /\ UNCHANGED runs
           /\ agent' \in {agent, "none", "save", "graph", "asked", "final"} \/ Starting
           /\ stored' = stored \/ \E x \in Savers : Store(x) /\ TurnOf(x) \in Known
  <2>1. Starting' => Starting /\ current' = current
    BY <1>2, <1>4 DEF Starting
  <2> QED BY <1>1, <1>2, <1>4, <2>1, StoresFresh
<1>5. CASE SaveGenerated
  <2>1. \E x \in Savers : Store(x) /\ TurnOf(x) \in Known
    BY <1>5, SavedByTwo, WhoSaves DEF SaveGenerated, AgentAt
  <2> QED BY <1>4, <1>5, <2>1 DEF SaveGenerated, graph
<1>6. CASE CheckThread
  BY <1>4, <1>6 DEF CheckThread, AgentAt, Starting, graph
<1>7. CASE StartAgent \/ Say \/ Interrupt
  BY <1>4, <1>7 DEF StartAgent, Say, Interrupt, AgentAt, Starting, graph, memory
<1>8. CASE EndGraph \/ FinalText \/ FailAgent
  BY <1>4, <1>8 DEF EndGraph, FinalText, FailAgent, AgentDone
<1>9. CASE HaltAgent
  <2>1. stored' = stored \/ \E x \in Savers : Store(x) /\ TurnOf(x) \in Known
    BY <1>9, SavedByTwo, WhoSaves DEF HaltAgent, StoreOrNot
  <2> QED BY <1>4, <1>9, <2>1 DEF HaltAgent
<1> QED BY <1>3, <1>5, <1>6, <1>7, <1>8, <1>9, SavedByTwo, SendFresh DEF Generate

LEMMA SpeakFresh ==
  ASSUME VInv, Fresh, ExecutedOnce, Speak
  PROVE  Fresh' /\ ExecutedOnce'
<1>1. Known' = Known
  BY SpeakTyped
<1>2. UNCHANGED <<seen, inputs, runs, agent, current, stored, sub>>
  BY DEF Speak, Hear, FailTts, HaltTts, memory, graph
<1> QED BY <1>1, <1>2, StoresFresh DEF Starting

LEMMA RunFresh ==
  ASSUME VInv, Fresh, ExecutedOnce, Connect \/ Restore \/ End \/ CloseSession \/ ChatRun \/ UNCHANGED vars
  PROVE  Fresh' /\ ExecutedOnce'
<1>1. Known' = Known
  BY RunTyped
<1>2. UNCHANGED <<seen, inputs, runs, agent, current, stored, sub>>
  BY DEF Connect, Restore, End, CloseSession, ChatRun, vars, memory, execution, graph
<1> QED BY <1>1, <1>2, StoresFresh DEF Starting

\* With its connection, everything an input could be run from is forgotten but the table.
LEMMA TeardownFresh ==
  ASSUME VInv, Fresh, ExecutedOnce, Teardown \/ Crash
  PROVE  Fresh' /\ ExecutedOnce'
<1>1. ASSUME Known' = {}, inputs' = <<>>, agent' = "none", runs' = runs,
             \A p \in Submitters : sub'[p].pc = "idle",
             \A i \in Inputs : stored[i] # None => stored'[i] # None
      PROVE  Fresh' /\ ExecutedOnce'
  BY <1>1 DEF Fresh, ExecutedOnce, Starting, Submitting, Checked
<1>2. CASE Drain
  <2>1. \A i \in Inputs : stored[i] # None => stored'[i] # None
    BY <1>2, SavesStore DEF Drain
  <2>2. \A p \in Submitters : sub'[p].pc = "idle"
    BY <1>2, IdleIsTyped DEF Drain
  <2>3. UNCHANGED <<seen, inputs, runs, agent, current>> /\ Known' = Known
    BY <1>2 DEF Drain, memory, execution, graph, Known
  <2> QED BY <2>1, <2>2, <2>3, StaysFresh DEF Submitting, Checked, Starting
<1>3. CASE Reap
  <2>1. UNCHANGED <<seen, inputs, runs, agent, current, sub>> /\ Known' = Known
    BY <1>3 DEF Reap, memory, graph, Known
  <2>2. stored' = stored \/ \E x \in Savers : Store(x) /\ TurnOf(x) \in Known
    BY <1>3, SavedByTwo, WhoSaves DEF Reap, StoreOrNot
  <2> QED BY <2>1, <2>2, StoresFresh DEF Starting
<1>4. CASE Leave
  <2>1. Known' = {} /\ inputs' = <<>>
    BY <1>4, ForgetsAll DEF Leave
  <2>2. agent' = "none" /\ runs' = runs /\ \A p \in Submitters : sub'[p].pc = "idle"
    BY <1>4, IdleIsTyped DEF Leave, Leaving, VInv, Ended, graph
  <2>3. \A i \in Inputs : stored[i] # None => stored'[i] # None
    BY <1>4 DEF Leave
  <2> QED BY <1>1, <2>1, <2>2, <2>3
<1>5. CASE Crash
  <2>1. Known' = {} /\ inputs' = <<>>
    BY <1>5, ForgetsAll DEF Crash
  <2>2. agent' = "none" /\ runs' = runs /\ \A p \in Submitters : sub'[p].pc = "idle"
    BY <1>5, IdleIsTyped DEF Crash
  <2>3. \A i \in Inputs : stored[i] # None => stored'[i] # None
    BY <1>5, SavesStore DEF Crash
  <2> QED BY <1>1, <2>1, <2>2, <2>3
<1> QED BY <1>2, <1>3, <1>4, <1>5 DEF Teardown

FInv == VInv /\ Fresh /\ ExecutedOnce

LEMMA FBegin == Init => FInv
<1> SUFFICES ASSUME Init PROVE FInv
  OBVIOUS
<1>1. \A p \in Submitters : sub[p].pc = "idle"
  BY IdleIsTyped DEF Init
<1>2. Known = {} /\ inputs = <<>> /\ agent = "none" /\ runs = [i \in Inputs |-> 0]
  BY DEF Init, Known
<1>3. Fresh /\ ExecutedOnce
  BY <1>1, <1>2 DEF Fresh, ExecutedOnce, Starting, Submitting, Checked
<1> QED BY <1>3, VBegin DEF FInv

LEMMA FStep == FInv /\ [Next]_vars => FInv'
<1> SUFFICES ASSUME FInv, [Next]_vars PROVE FInv'
  OBVIOUS
<1>1. VInv /\ Fresh /\ ExecutedOnce
  BY DEF FInv
<1>2. VInv'
  BY <1>1, VStep
<1>3. Fresh' /\ ExecutedOnce'
  BY <1>1, SavedByTwo, SubmitFresh, SubmitStepFresh, SendFresh, SaveNewFresh, ClientFresh, ExecuteFresh, GenerateFresh, SpeakFresh, RunFresh,
     TeardownFresh
  DEF Next, SubmitStep
<1> QED BY <1>2, <1>3 DEF FInv

\* The graph is run at most once for an input, although clients send inputs again after a
\* reconnect, queues refuse them, tasks are cancelled and the process dies: submit stores the input
\* before it queues it (voice_connection.py:265).
THEOREM InputsRunOnce == Spec => []ExecutedOnce
<1>1. FInv => ExecutedOnce
  BY DEF FInv
<1> QED BY <1>1, FBegin, FStep, PTL DEF Spec

-----------------------------------------------------------------------------
(* What is recorded of a turn: the invariant behind CancelledStaysCancelled *)
(* and HeardIsFinal.                                                       *)

Final(v) == v.sound = "heard" /\ v.status = "completed"

\* An interrupted turn has no outcome, though the worker may have taken it.
Marked(v) == v.interrupted => v.status \in {"cancelled", "running"}

\* The turn w may come after v: an interruption stays, and so do an answer that was heard and the
\* approval it was given for.
Follows(v, w) == (v.interrupted => w.interrupted) /\ (Final(v) => w = v) /\ w.resume = v.resume

Busy == worker \in {"agent", "tts"} \/ agent # "none" \/ Speaking

\* Where the turns are that may still change: those of the queue have not been taken, and the one
\* that is worked on has no outcome yet.
Placed ==
  /\ current # None => current \in Known
  /\ \A k \in DOMAIN inputs : inputs[k] # current /\ turn[inputs[k]].status \in {"queued", "cancelled"}
  /\ worker # "agent" => agent = "none"
  /\ worker \in {"get", "save"} => ~Speaking
  /\ Busy => turn[current].status \in {"running", "cancelled"}

\* x is at the await of a save.
Asks(x) ==
  \/ x \in Submitters /\ Saves(x)
  \/ x = "worker" /\ worker = "save"
  \/ x = "agent" /\ agent = "save"

\* Whoever has sent a turn waits for the answer.
Answered == \A x \in Savers : sent[x] # None => Asks(x)

\* The turns in memory are ahead of the table, and of what is on its way to it.
Recorded ==
  /\ \A i \in Known : Marked(turn[i]) /\ Follows(stored[i], turn[i])
  /\ \A i \in Inputs : stored[i] # None => Marked(stored[i])
  /\ \A x \in Savers : sent[x] # None => Marked(sent[x]) /\ Follows(sent[x], turn[TurnOf(x)])

\* What a step does to the turns in memory, to the table, and to what is on its way to it.
TurnsKept ==
  \A i \in Known' : /\ Marked(turn'[i])
                    /\ IF i \in Known THEN Follows(turn[i], turn'[i])
                       ELSE stored[i] = None /\ stored'[i] = turn'[i]

RowsKept ==
  \A i \in Inputs : \/ stored'[i] = stored[i]
                    \/ i \in Known /\ stored'[i] = turn[i]
                    \/ \E x \in Savers : sent[x] # None /\ TurnOf(x) = i /\ stored'[i] = sent[x]
                    \/ stored[i] = None /\ \E r \in Interrupts \cup {0} : stored'[i] = NewTurn(r)

SentKept ==
  \A x \in Savers : sent'[x] # None =>
    /\ TurnOf(x)' = TurnOf(x) /\ TurnOf(x) \in Known /\ TurnOf(x) \in Known'
    /\ sent'[x] = sent[x] \/ sent'[x] = turn[TurnOf(x)]

LEMMA RecordedStep ==
  ASSUME FInv, Recorded, TurnsKept, RowsKept, SentKept, Known' \subseteq Inputs
  PROVE  Recorded'
<1>1. ASSUME NEW i \in Known' PROVE Marked(turn'[i]) /\ Follows(stored'[i], turn'[i])
  <2>1. CASE i \in Known
    <3>1. stored[i] # None
      BY <2>1 DEF FInv, Fresh
    <3>2. Follows(stored[i], turn[i]) /\ Follows(turn[i], turn'[i]) /\ Marked(turn'[i])
      BY <2>1 DEF Recorded, TurnsKept
    <3>3. stored'[i] = stored[i] \/ stored'[i] = turn[i] \/ Follows(stored'[i], turn[i])
      BY <1>1, <3>1 DEF RowsKept, Recorded
    <3>4. Follows(stored[i], turn'[i]) /\ \A v : Follows(v, turn[i]) => Follows(v, turn'[i])
      BY <3>2 DEF Follows
    <3> QED BY <3>2, <3>3, <3>4
  <2>2. CASE i \notin Known
    BY <2>2 DEF TurnsKept, Follows
  <2> QED BY <2>1, <2>2
<1>2. ASSUME NEW i \in Inputs, stored'[i] # None PROVE Marked(stored'[i])
  <2>1. CASE stored'[i] = stored[i]
    BY <1>2, <2>1 DEF Recorded
  <2>2. CASE i \in Known /\ stored'[i] = turn[i]
    BY <2>2 DEF Recorded
  <2>3. CASE \E x \in Savers : sent[x] # None /\ stored'[i] = sent[x]
    BY <2>3 DEF Recorded
  <2>4. CASE \E r \in Interrupts \cup {0} : stored'[i] = NewTurn(r)
    BY <2>4 DEF NewTurn, Marked
  <2> QED BY <2>1, <2>2, <2>3, <2>4 DEF RowsKept
<1>3. ASSUME NEW x \in Savers, sent'[x] # None PROVE Marked(sent'[x]) /\ Follows(sent'[x], turn'[TurnOf(x)'])
  <2> DEFINE i == TurnOf(x)
  <2>1. TurnOf(x)' = i /\ i \in Known /\ i \in Known' /\ (sent'[x] = sent[x] \/ sent'[x] = turn[i])
    BY <1>3 DEF SentKept
  <2>2. Marked(turn[i]) /\ Follows(turn[i], turn'[i])
    BY <2>1 DEF Recorded, TurnsKept
  <2>3. sent'[x] = sent[x] => Marked(sent[x]) /\ Follows(sent[x], turn[i])
    BY <1>3 DEF Recorded
  <2> HIDE DEF i
  <2>4. \A v : Follows(v, turn[i]) => Follows(v, turn'[i])
    BY <2>2 DEF Follows
  <2> QED BY <2>1, <2>2, <2>3, <2>4
<1> QED BY <1>1, <1>2, <1>3 DEF Recorded

-----------------------------------------------------------------------------
(* What is on its way to the table. *)

\* Everybody who has sent something still waits for the same answer, or has it.
LEMMA StaysSent ==
  ASSUME VInv, Answered, Known \subseteq Known',
         \A x \in Savers : \/ sent'[x] = None
                           \/ sent'[x] = sent[x] /\ (Asks(x) => Asks(x)') /\ TurnOf(x)' = TurnOf(x)
  PROVE  Answered' /\ SentKept
<1>1. \A x \in Savers : sent[x] # None => TurnOf(x) \in Known
  BY WhoSaves DEF Answered, Asks
<1> QED BY <1>1 DEF Answered, SentKept

\* A submitter goes on, from no save or to the end of one.
LEMMA SubmitterSent ==
  ASSUME VInv, Answered, NEW p \in Submitters, Known \subseteq Known', UNCHANGED <<worker, agent, current>>,
         \A q \in Submitters \ {p} : sub'[q] = sub[q],
         \/ UNCHANGED sent /\ ~Saves(p)
         \/ Store(p) /\ Saves(p)
  PROVE  Answered' /\ SentKept
<1>1. sent'[p] = None /\ \A x \in Savers : x = p \/ sent'[x] = sent[x]
  <2>1. CASE UNCHANGED sent /\ ~Saves(p)
    BY <2>1, SavedByTwo DEF Answered, Asks
  <2>2. CASE Store(p) /\ Saves(p)
    BY <2>2, SavedByTwo, WhoSaves, Stores
  <2> QED BY <2>1, <2>2
<1>2. \A x \in Savers : x = p \/ ((Asks(x) => Asks(x)') /\ TurnOf(x)' = TurnOf(x))
  BY SavedByTwo DEF Asks, TurnOf, Saves
<1> QED BY <1>1, <1>2, StaysSent

\* Sending: what is sent is the turn as it is in memory.
LEMMA SendSent ==
  ASSUME VInv, Answered, NEW x \in Savers, Send(x)
  PROVE  Answered' /\ SentKept
<1>1. UNCHANGED <<sub, worker, agent, current, turn>> /\ Known' = Known
  BY DEF Send, memory, execution, Known
<1>2. \A y \in Savers : TurnOf(y)' = TurnOf(y) /\ Asks(y)' = Asks(y)
  BY <1>1 DEF TurnOf, Asks, Saves
<1>3. Asks(x)
  BY SavedByTwo DEF Send, Owes, Asks, Saves, Savers
<1>4. TurnOf(x) \in Known
  BY <1>3, WhoSaves DEF Asks
<1>5. sent \in [Savers -> VoiceTurn \cup {None}]
  BY DEF VInv, TypeOK
<1>6. sent'[x] = turn[TurnOf(x)] /\ \A y \in Savers : y = x \/ sent'[y] = sent[y]
  BY <1>5 DEF Send
<1>7. \A y \in Savers : sent[y] # None => Asks(y) /\ TurnOf(y) \in Known
  BY WhoSaves DEF Answered, Asks
<1>8. Answered'
  BY <1>2, <1>3, <1>6, <1>7 DEF Answered
<1> QED BY <1>1, <1>2, <1>4, <1>6, <1>7, <1>8 DEF SentKept

LEMMA SubmitSent ==
  ASSUME VInv, Answered, NEW p \in Submitters, (\E i \in Inputs, r \in 0 .. raised : Submit(p, i, r)) \/ SubmitStep(p)
  PROVE  Answered' /\ SentKept
<1>1. sub \in [Submitters -> Submission]
  BY DEF VInv, TypeOK
<1>2. CASE (\E i \in Inputs, r \in 0 .. raised : Submit(p, i, r)) \/ HasInput(p) \/ SaveNew(p)
  <2>1. UNCHANGED <<worker, agent, current, sent>> /\ ~Saves(p)
    BY <1>2 DEF Submit, HasInput, SaveNew, Saves, execution
  <2>2. \A q \in Submitters \ {p} : sub'[q] = sub[q]
    BY <1>1, <1>2 DEF Submit, HasInput, SaveNew, Return, Await
  <2>3. Known \subseteq Known'
    <3>1. CASE SaveNew(p)
      <4>1. turn \in Turns /\ NewTurn(sub[p].resume) # None /\ turn' = [turn EXCEPT ![sub[p].input] = NewTurn(sub[p].resume)]
        BY <1>1, <3>1, NewTurnIsTyped, TurnIsNotNone DEF SaveNew, VInv, TypeOK, Turns, Submission
      <4> QED BY <4>1 DEF Known, Turns
    <3>2. ASSUME NEW i \in Inputs, NEW r \in 0 .. raised, Submit(p, i, r) PROVE Known \subseteq Known'
      BY <3>2, SubmitTyped
    <3> QED BY <1>2, <3>1, <3>2, HasInputTyped
  <2> QED BY <2>1, <2>2, <2>3, SubmitterSent
<1>3. CASE SaveCancelled(p)
  <2>1. UNCHANGED <<worker, agent, current>> /\ Known' = Known /\ Store(p) /\ Saves(p)
    BY <1>3 DEF SaveCancelled, Saves, execution, memory, Known
  <2>2. \A q \in Submitters \ {p} : sub'[q] = sub[q]
    BY <1>1, <1>3 DEF SaveCancelled, Await
  <2> QED BY <2>1, <2>2, SubmitterSent
<1> QED BY <1>2, <1>3, SavedByTwo, SendSent DEF SubmitStep

LEMMA ClientSent ==
  ASSUME VInv, Answered, (\E i \in Inputs : ClientCancel(i) \/ Playback(i)) \/ SaveTurn
  PROVE  Answered' /\ SentKept
<1> DEFINE p == "receiver"
<1>1. p \in Submitters /\ sub \in [Submitters -> Submission] /\ Known' = Known
  BY ConstantsOK, ClientTyped DEF VInv, TypeOK
<1>2. UNCHANGED <<worker, agent, current>> /\ \A q \in Submitters \ {p} : sub'[q] = sub[q]
  BY <1>1 DEF ClientCancel, Playback, SaveTurn, execution, Await
<1>3. \/ UNCHANGED sent /\ ~Saves(p)
      \/ Store(p) /\ Saves(p)
  BY DEF ClientCancel, Playback, SaveTurn, Saves
<1> QED BY <1>1, <1>2, <1>3, SubmitterSent

LEMMA ExecuteSent ==
  ASSUME VInv, Placed, Answered, Execute
  PROVE  Answered' /\ SentKept
<1>1. Known' = Known
  BY ExecuteTyped
<1>2. CASE Take
  <2>1. UNCHANGED <<sub, sent>> /\ sent["worker"] = None /\ sent["agent"] = None
    BY <1>2, SavedByTwo DEF Take, Placed, Answered, Asks
  <2>2. \A x \in Submitters : Asks(x)' = Asks(x) /\ TurnOf(x)' = TurnOf(x)
    BY <2>1, SavedByTwo DEF Asks, TurnOf, Saves
  <2> QED BY <1>1, <2>1, <2>2, StaysSent DEF Savers
<1>3. CASE AgentEnded \/ TtsEnded \/ SaveExecuted
  <2>1. UNCHANGED <<sub, agent, current>>
    BY <1>3 DEF AgentEnded, TtsEnded, SaveExecuted, memory
  <2>2. sent'["worker"] = None /\ \A x \in Savers : x = "worker" \/ sent'[x] = sent[x]
    <3>1. CASE SaveExecuted
      BY <3>1, SavedByTwo, WhoSaves, Stores DEF SaveExecuted
    <3>2. CASE AgentEnded \/ TtsEnded
      BY <3>2, SavedByTwo DEF AgentEnded, TtsEnded, Answered, Asks
    <3> QED BY <1>3, <3>1, <3>2
  <2>3. \A x \in Savers : x = "worker" \/ (Asks(x)' = Asks(x) /\ TurnOf(x)' = TurnOf(x))
    BY <2>1, SavedByTwo DEF Asks, TurnOf, Saves
  <2> QED BY <1>1, <2>2, <2>3, StaysSent
<1> QED BY <1>2, <1>3, SavedByTwo, SendSent DEF Execute

LEMMA GenerateSent ==
  ASSUME VInv, Answered, Generate
  PROVE  Answered' /\ SentKept
<1>1. Known' = Known
  BY GenerateTyped
<1>2. CASE Generate /\ ~Send("agent")
  <2>1. UNCHANGED <<sub, worker, current>>
    BY <1>2
    DEF Generate, StartAgent, CheckThread, RunGraph, Say, Interrupt, EndGraph, FinalText, FailAgent, HaltAgent,
        SaveGenerated, memory
  <2>2. sent'["agent"] = None /\ \A x \in Savers : x = "agent" \/ sent'[x] = sent[x]
    <3>1. CASE SaveGenerated
      BY <3>1, SavedByTwo, WhoSaves, Stores DEF SaveGenerated, AgentAt
    <3>2. CASE HaltAgent /\ agent = "save" /\ StoreOrNot("agent")
      BY <3>2, SavedByTwo, WhoSaves, StoresOrNot
    <3>3. CASE UNCHANGED sent /\ agent # "save"
      BY <3>3, SavedByTwo DEF Answered, Asks
    <3>4. CASE HaltAgent
      BY <3>2, <3>3, <3>4 DEF HaltAgent, InThread
    <3>5. CASE StartAgent \/ CheckThread \/ RunGraph \/ Say \/ Interrupt \/ EndGraph \/ FinalText \/ FailAgent
      BY <3>3, <3>5 DEF StartAgent, CheckThread, RunGraph, Say, Interrupt, EndGraph, FinalText, FailAgent, AgentAt, InThread
    <3> QED BY <1>2, <3>1, <3>4, <3>5 DEF Generate
  <2>3. \A x \in Savers : x = "agent" \/ (Asks(x)' = Asks(x) /\ TurnOf(x)' = TurnOf(x))
    BY <2>1, SavedByTwo DEF Asks, TurnOf, Saves
  <2> QED BY <1>1, <2>2, <2>3, StaysSent
<1> QED BY <1>2, SavedByTwo, SendSent

\* Nothing is on its way any more when everybody is gone.
LEMMA NothingSent ==
  ASSUME VInv, Answered, worker = "none", agent = "none", \A p \in Submitters : sub[p] = Idle
  PROVE  \A x \in Savers : sent[x] = None
  BY IdleIsTyped DEF Answered, Asks, Saves

LEMMA RunSent ==
  ASSUME VInv, Answered, Speak \/ Connect \/ Restore \/ End \/ CloseSession \/ ChatRun \/ UNCHANGED vars
  PROVE  Answered' /\ SentKept
<1>1. Known' = Known
  BY SpeakTyped, RunTyped
<1>2. UNCHANGED <<sub, agent, current, sent>>
  BY DEF Speak, Hear, FailTts, HaltTts, Connect, Restore, End, CloseSession, ChatRun, vars, memory, execution
<1>3. CASE UNCHANGED worker
  <2>1. \A x \in Savers : Asks(x)' = Asks(x) /\ TurnOf(x)' = TurnOf(x)
    BY <1>2, <1>3 DEF Asks, TurnOf, Saves
  <2> QED BY <1>1, <1>2, <2>1, StaysSent
<1>4. CASE Connect
  <2>1. \A x \in Savers : sent[x] = None
    BY <1>4, NothingSent DEF Connect, VInv, Ended
  <2> QED BY <1>1, <1>2, <2>1, StaysSent
<1>5. CASE Speak \/ Restore \/ End \/ CloseSession \/ ChatRun \/ UNCHANGED vars
  BY <1>3, <1>5
  DEF Speak, Hear, FailTts, HaltTts, Restore, End, CloseSession, ChatRun, vars, memory, execution
<1> QED BY <1>4, <1>5

LEMMA TeardownSent ==
  ASSUME VInv, Answered, Teardown \/ Crash
  PROVE  Answered' /\ SentKept
<1>1. CASE Drain
  <2>1. UNCHANGED <<worker, agent, current>> /\ Known' = Known
    BY <1>1 DEF Drain, memory, execution, Known
  <2>2. \A x \in Savers : IF x \in Submitters THEN sent'[x] = None ELSE sent'[x] = sent[x]
    BY <1>1 DEF Drain
  <2>3. \A x \in Savers : x \in Submitters \/ ((Asks(x) => Asks(x)') /\ TurnOf(x)' = TurnOf(x))
    BY <2>1 DEF Asks, TurnOf
  <2> QED BY <2>1, <2>2, <2>3, StaysSent
<1>2. CASE Reap
  <2>1. UNCHANGED <<sub, agent, current>> /\ Known' = Known
    BY <1>2 DEF Reap, memory, Known
  <2>2. CASE worker = "save" /\ StoreOrNot("worker")
    <3>1. sent'["worker"] = None /\ \A x \in Savers : x = "worker" \/ sent'[x] = sent[x]
      BY <2>2, SavedByTwo, WhoSaves, StoresOrNot
    <3>2. \A x \in Savers : x = "worker" \/ (Asks(x)' = Asks(x) /\ TurnOf(x)' = TurnOf(x))
      BY <2>1, SavedByTwo DEF Asks, TurnOf, Saves
    <3> QED BY <2>1, <3>1, <3>2, StaysSent
  <2>3. CASE UNCHANGED sent /\ worker # "save"
    <3>1. sent["worker"] = None
      BY <2>3, SavedByTwo DEF Answered, Asks
    <3>2. \A x \in Savers : x = "worker" \/ (Asks(x)' = Asks(x) /\ TurnOf(x)' = TurnOf(x))
      BY <2>1, SavedByTwo DEF Asks, TurnOf, Saves
    <3> QED BY <2>1, <2>3, <3>1, <3>2, StaysSent
  <2> QED BY <1>2, <2>2, <2>3 DEF Reap
<1>3. CASE Leave
  <2>1. UNCHANGED sent
    BY <1>3 DEF Leave
  <2>2. \A x \in Savers : sent[x] = None
    BY <1>3, NothingSent DEF Leave, Leaving, VInv, Ended
  <2> QED BY <2>1, <2>2 DEF Answered, SentKept
<1>4. CASE Crash
  <2>1. \A x \in Savers : sent'[x] = None
    BY <1>4 DEF Crash
  <2> QED BY <2>1 DEF Answered, SentKept
<1> QED BY <1>1, <1>2, <1>3, <1>4 DEF Teardown

LEMMA SentStep ==
  ASSUME VInv, Placed, Answered, [Next]_vars
  PROVE  Answered' /\ SentKept
  BY SubmitSent, ClientSent, ExecuteSent, GenerateSent, RunSent, TeardownSent
  DEF Next

-----------------------------------------------------------------------------
(* The turns in memory, and the table. *)

\* A step that leaves the turns alone.
LEMMA SameTurns ==
  ASSUME Recorded, UNCHANGED turn
  PROVE  TurnsKept /\ Known' = Known
<1>1. Known' = Known
  BY DEF Known
<1> QED BY <1>1 DEF Recorded, TurnsKept, Follows

\* A turn that is not final gets another value.
LEMMA Alters ==
  ASSUME VInv, Recorded, NEW t \in Known, NEW v \in VoiceTurn, turn' = [turn EXCEPT ![t] = v],
         ~Final(turn[t]), turn[t].interrupted => v.interrupted, v.resume = turn[t].resume, Marked(v)
  PROVE  TurnsKept /\ Known' = Known /\ turn'[t] = v /\ \A i \in Known \ {t} : turn'[i] = turn[i]
<1>1. turn \in Turns /\ t \in Inputs
  BY DEF VInv, TypeOK, Turns, Known
<1>2. Known' = Known
  BY <1>1, Changed
<1>3. turn'[t] = v /\ \A i \in Known \ {t} : turn'[i] = turn[i]
  BY <1>1 DEF Turns, Known
<1>4. ASSUME NEW i \in Known PROVE Marked(turn'[i]) /\ Follows(turn[i], turn'[i])
  <2>1. CASE i = t
    BY <1>3, <2>1 DEF Follows
  <2>2. CASE i # t
    BY <1>3, <2>2 DEF Recorded, Follows
  <2> QED BY <2>1, <2>2
<1> QED BY <1>2, <1>3, <1>4 DEF TurnsKept

\* Nothing is stored, or what was sent of a turn that exists.
LEMMA KeepsRows ==
  ASSUME VInv, stored' = stored \/ \E x \in Savers : Store(x) /\ TurnOf(x) \in Known
  PROVE  RowsKept
  BY Stores DEF RowsKept

\* Queue and worker stay, and the turns keep their status or are cancelled.
LEMMA StaysPlaced ==
  ASSUME VInv, Placed, UNCHANGED <<inputs, current>>, Known' = Known,
         \A i \in Known : turn'[i].status \in {turn[i].status, "cancelled"},
         worker' # "agent" => agent' = "none",
         worker' \in {"get", "save"} => ~Speaking',
         Busy' => Busy
  PROVE  Placed'
<1>1. Busy => current \in Known
  BY DEF Busy, VInv, Linked, Working
<1>2. \A k \in DOMAIN inputs : inputs[k] \in Known
  BY DEF VInv, Linked
<1>3. Busy' => turn'[current'].status \in {"running", "cancelled"}
  BY <1>1 DEF Placed
<1>4. \A k \in DOMAIN inputs' : inputs'[k] # current' /\ turn'[inputs'[k]].status \in {"queued", "cancelled"}
  BY <1>2 DEF Placed
<1> QED BY <1>3, <1>4 DEF Placed

\* The turn that is worked on is not final.
LEMMA AtWork ==
  ASSUME VInv, Placed, Busy
  PROVE  /\ current \in Known /\ turn[current] \in VoiceTurn /\ ~Final(turn[current])
         /\ turn[current].status \in {"running", "cancelled"}
<1>1. current \in Known
  BY DEF Busy, VInv, Linked, Working
<1> QED BY <1>1, ATurn DEF VInv, TypeOK, Turns, Placed, Final

\* Cancelling one turn, or all that are not finished.
LEMMA CancelKeeps ==
  ASSUME VInv, Recorded, NEW t \in Known, Cancellable(t), Cancel(t)
  PROVE  TurnsKept /\ Known' = Known /\ \A i \in Known : turn'[i].status \in {turn[i].status, "cancelled"}
<1> DEFINE v == Cancelled(turn[t])
<1>1. turn[t] \in VoiceTurn /\ v \in VoiceTurn
  BY ATurn DEF VInv, TypeOK, Turns
<1>2. v.interrupted = TRUE /\ v.status = "cancelled" /\ ~Final(turn[t]) /\ v.resume = turn[t].resume
  BY <1>1 DEF Cancelled, VoiceTurn, Cancellable, Final
<1>3. turn' = [turn EXCEPT ![t] = v]
  BY DEF Cancel
<1> HIDE DEF v
<1>4. Marked(v)
  BY <1>2 DEF Marked
<1>5. TurnsKept /\ Known' = Known /\ turn'[t] = v /\ \A i \in Known \ {t} : turn'[i] = turn[i]
  BY <1>1, <1>2, <1>3, <1>4, Alters
<1> QED BY <1>2, <1>5

LEMMA AbandonKeeps ==
  ASSUME VInv, Recorded, turn' = [i \in Inputs |-> Abandoned(turn[i])]
  PROVE  TurnsKept /\ Known' = Known /\ \A i \in Known : turn'[i].status \in {turn[i].status, "cancelled"}
<1>1. turn \in Turns
  BY DEF VInv, TypeOK, Turns
<1>2. Known' = Known
  BY <1>1, AbandonChanges
<1>3. ASSUME NEW i \in Known
      PROVE  /\ Marked(turn'[i]) /\ Follows(turn[i], turn'[i])
             /\ turn'[i].status \in {turn[i].status, "cancelled"}
  <2>1. turn[i] \in VoiceTurn /\ i \in Inputs /\ turn'[i] = Abandoned(turn[i])
    BY <1>1, ATurn
  <2>2. CASE turn'[i] = turn[i]
    BY <2>2 DEF Recorded, Follows
  <2>3. CASE Unfinished(turn[i]) /\ turn[i] # None
    <3>1. turn'[i] = [Cancelled(turn[i]) EXCEPT !.execution = IF @ = "queued" THEN "cancelled" ELSE @]
      BY <2>1, <2>3 DEF Abandoned
    <3>2. turn'[i].status = "cancelled" /\ turn'[i].interrupted = TRUE /\ turn'[i].resume = turn[i].resume
      BY <2>1, <3>1 DEF Cancelled, VoiceTurn
    <3>3. ~Final(turn[i])
      BY <2>3 DEF Unfinished, Final
    <3> QED BY <3>2, <3>3 DEF Marked, Follows
  <2> QED BY <2>1, <2>2, <2>3 DEF Abandoned
<1> QED BY <1>2, <1>3 DEF TurnsKept

HInv == Placed /\ Answered /\ Recorded

\* What is proved of each step.
Kept == Placed' /\ TurnsKept /\ RowsKept

LEMMA SubmitKept ==
  ASSUME FInv, HInv, NEW p \in Submitters, NEW i \in Inputs, NEW r \in 0 .. raised, Submit(p, i, r)
  PROVE  Kept
<1>1. UNCHANGED <<inputs, current, turn, stored, worker, agent, tts>>
  BY DEF Submit, execution
<1>2. TurnsKept /\ Known' = Known /\ RowsKept
  BY <1>1, SameTurns, KeepsRows DEF FInv, HInv
<1>3. Placed'
  BY <1>1, <1>2, StaysPlaced DEF FInv, HInv, Placed, Busy, Speaking
<1> QED BY <1>2, <1>3 DEF Kept

LEMMA SendKept ==
  ASSUME FInv, HInv, NEW x \in Savers, Send(x)
  PROVE  Kept
<1>1. UNCHANGED <<inputs, current, turn, stored, worker, agent, tts>>
  BY DEF Send, memory, execution
<1>2. TurnsKept /\ Known' = Known /\ RowsKept
  BY <1>1, SameTurns, KeepsRows DEF FInv, HInv
<1>3. Placed'
  BY <1>1, <1>2, StaysPlaced DEF FInv, HInv, Placed, Busy, Speaking
<1> QED BY <1>2, <1>3 DEF Kept

LEMMA SubmitStepKept ==
  ASSUME FInv, HInv, NEW p \in Submitters, HasInput(p) \/ SaveCancelled(p)
  PROVE  Kept
<1>1. UNCHANGED <<inputs, current, worker, agent, tts>> /\ VInv /\ Recorded /\ Placed
  BY DEF HasInput, SaveCancelled, memory, execution, FInv, HInv
<1>2. CASE HasInput(p) /\ UNCHANGED turn
  BY <1>1, <1>2, SameTurns, KeepsRows, StaysPlaced DEF HasInput, Placed, Busy, Speaking, Kept
<1>3. CASE HasInput(p) /\ Cancellable(current) /\ Cancel(current)
  <2>1. current \in Known
    BY <1>1, <1>3 DEF Cancellable, VInv, TypeOK, Known
  <2> QED BY <1>1, <1>3, <2>1, CancelKeeps, KeepsRows, StaysPlaced DEF HasInput, Placed, Busy, Speaking, Kept
<1>4. CASE SaveCancelled(p)
  <2>1. \E x \in Savers : Store(x) /\ TurnOf(x) \in Known
    BY <1>1, <1>4, SavedByTwo, WhoSaves DEF SaveCancelled, Saves
  <2>2. UNCHANGED turn
    BY <1>4 DEF SaveCancelled, memory
  <2> QED BY <1>1, <2>1, <2>2, SameTurns, KeepsRows, StaysPlaced DEF Placed, Busy, Speaking, Kept
<1> QED BY <1>2, <1>3, <1>4 DEF HasInput

\* The new turn is in the table and in the queue, and is not the current one.
LEMMA SaveNewKept ==
  ASSUME FInv, HInv, NEW p \in Submitters, SaveNew(p)
  PROVE  Kept
<1> DEFINE i == sub[p].input
           v == NewTurn(sub[p].resume)
<1>1. /\ sub[p] \in Submission /\ sub[p].pc = "save_new" /\ i \in Inputs \ Known /\ stored[i] = None
      /\ sub[p].resume \in Interrupts \cup {0}
  BY DEF SaveNew, FInv, VInv, TypeOK, Linked, Fresh, Submitting, Checked, Submission
<1>2. /\ v \in VoiceTurn /\ v.status = "queued" /\ v.interrupted = FALSE
      /\ \E r \in Interrupts \cup {0} : v = NewTurn(r)
  BY <1>1, NewTurnIsTyped DEF NewTurn
<1>3. /\ stored' = [stored EXCEPT ![i] = v] /\ turn' = [turn EXCEPT ![i] = v]
      /\ UNCHANGED <<worker, agent, tts, current>>
  BY DEF SaveNew, execution
<1>4. inputs' = inputs \/ inputs' = Append(inputs, i)
  BY DEF SaveNew
<1> HIDE DEF i, v
<1>5. turn \in Turns /\ stored \in [Inputs -> VoiceTurn \cup {None}] /\ inputs \in Seq(Inputs)
  BY DEF FInv, VInv, TypeOK, Turns
<1>6. /\ Known' = Known \cup {i} /\ turn'[i] = v /\ stored'[i] = v
      /\ \A j \in Inputs \ {i} : turn'[j] = turn[j] /\ stored'[j] = stored[j]
  BY <1>1, <1>2, <1>3, <1>5, TurnIsNotNone DEF Turns, Known
<1>7. RowsKept
  BY <1>1, <1>2, <1>6 DEF RowsKept
<1>8. TurnsKept
  BY <1>1, <1>2, <1>6 DEF TurnsKept, HInv, Recorded, Marked, Follows, Known
<1>9. current # None => current \in Known /\ current # i
  BY <1>1 DEF HInv, Placed
<1>10. \A k \in DOMAIN inputs : inputs[k] \in Known
  BY DEF FInv, VInv, Linked
<1>11. \A k \in DOMAIN inputs' : inputs'[k] = i \/ (k \in DOMAIN inputs /\ inputs'[k] = inputs[k])
  <2>1. CASE inputs' = Append(inputs, i)
    <3>1. DOMAIN inputs' = DOMAIN inputs \cup {Len(inputs) + 1}
          /\ inputs'[Len(inputs) + 1] = i /\ \A k \in DOMAIN inputs : inputs'[k] = inputs[k]
      BY <1>1, <1>5, <2>1
    <3> QED BY <3>1
  <2> QED BY <1>4, <2>1
<1>12. current # i
  BY <1>1, <1>9, ConstantsOK
<1>13. \A k \in DOMAIN inputs' : inputs'[k] # current' /\ turn'[inputs'[k]].status \in {"queued", "cancelled"}
  BY <1>1, <1>2, <1>3, <1>6, <1>10, <1>11, <1>12 DEF HInv, Placed, Known
<1>14. Busy' => turn'[current'].status \in {"running", "cancelled"}
  <2>1. ASSUME Busy PROVE current \in Known /\ current \in Inputs
    BY <2>1, AtWork DEF FInv, HInv, Known
  <2> QED BY <1>3, <1>6, <1>12, <2>1 DEF HInv, Placed, Busy, Speaking
<1>15. Placed'
  BY <1>3, <1>6, <1>9, <1>13, <1>14 DEF HInv, Placed, Speaking
<1> QED BY <1>7, <1>8, <1>15 DEF Kept

LEMMA ClientKept ==
  ASSUME FInv, HInv, (\E i \in Inputs : ClientCancel(i) \/ Playback(i)) \/ SaveTurn
  PROVE  Kept
<1>1. UNCHANGED <<inputs, current, worker, agent, tts>> /\ VInv /\ Recorded /\ Placed
  BY DEF ClientCancel, Playback, SaveTurn, memory, execution, FInv, HInv
<1>2. ASSUME NEW i \in Inputs, ClientCancel(i) PROVE Kept
  <2>1. i \in Known
    BY <1>2 DEF ClientCancel, Cancellable, Known
  <2> QED BY <1>1, <1>2, <2>1, CancelKeeps, KeepsRows, StaysPlaced DEF ClientCancel, Placed, Busy, Speaking, Kept
<1>3. ASSUME NEW i \in Inputs, Playback(i) PROVE Kept
  <2> DEFINE v == [turn[i] EXCEPT !.sound = "heard"]
  <2>1. i \in Known /\ turn[i].sound = "some"
    BY <1>3 DEF Playback, Known
  <2>2. turn[i] \in VoiceTurn /\ v \in VoiceTurn
    BY <1>1, <2>1, ATurn DEF VInv, TypeOK, Turns
  <2>3. /\ v.interrupted = turn[i].interrupted /\ v.status = turn[i].status /\ ~Final(turn[i])
        /\ v.resume = turn[i].resume /\ turn' = [turn EXCEPT ![i] = v]
    BY <1>3, <2>1, <2>2 DEF VoiceTurn, Final, Playback
  <2> HIDE DEF v
  <2>4. Marked(v)
    BY <1>1, <2>1, <2>3 DEF Recorded, Marked
  <2>5. TurnsKept /\ Known' = Known /\ turn'[i] = v /\ \A j \in Known \ {i} : turn'[j] = turn[j]
    BY <1>1, <2>1, <2>2, <2>3, <2>4, Alters
  <2>6. \A j \in Known : turn'[j].status \in {turn[j].status, "cancelled"}
    BY <2>3, <2>5
  <2> QED BY <1>1, <1>3, <2>5, <2>6, KeepsRows, StaysPlaced DEF Playback, Placed, Busy, Speaking, Kept
<1>4. CASE SaveTurn
  <2>1. \E x \in Savers : Store(x) /\ TurnOf(x) \in Known
    BY <1>1, <1>4, ConstantsOK, SavedByTwo, WhoSaves DEF SaveTurn, Saves
  <2>2. UNCHANGED turn
    BY <1>4 DEF SaveTurn, memory
  <2> QED BY <1>1, <2>1, <2>2, SameTurns, KeepsRows, StaysPlaced DEF Placed, Busy, Speaking, Kept
<1> QED BY <1>2, <1>3, <1>4

\* The worker takes a turn that waits, and that nobody else works on.
LEMMA TakeKept ==
  ASSUME FInv, HInv, Take
  PROVE  Kept
<1> DEFINE t == Head(inputs)
           v == [turn[t] EXCEPT !.status = "running", !.execution = "running"]
<1>1. /\ inputs \in Seq(Inputs) /\ inputs # <<>> /\ inputs' = Tail(inputs) /\ current' = t
      /\ worker' = "agent" /\ agent' = "new" /\ tts' = "listen" /\ UNCHANGED stored
      /\ turn' = [turn EXCEPT ![t].status = "running", ![t].execution = "running"]
  BY DEF Take, FInv, VInv, TypeOK
<1>2. /\ 1 \in DOMAIN inputs /\ t = inputs[1]
      /\ \A k \in DOMAIN inputs' : k + 1 \in DOMAIN inputs /\ k + 1 # 1 /\ inputs'[k] = inputs[k + 1]
  BY <1>1
<1>3. \A j, k \in DOMAIN inputs : inputs[j] = inputs[k] => j = k
  BY DEF FInv, Fresh
<1>4. \A k \in DOMAIN inputs' : inputs'[k] # t
  BY <1>2, <1>3
<1> HIDE DEF t
<1>5. t \in Known /\ turn[t].status \in {"queued", "cancelled"}
  BY <1>2 DEF FInv, VInv, Linked, HInv, Placed
<1>6. turn \in Turns /\ turn[t] \in VoiceTurn
  BY <1>5, ATurn DEF FInv, VInv, TypeOK, Turns
<1>7. /\ v \in VoiceTurn /\ v.interrupted = turn[t].interrupted /\ v.status = "running" /\ ~Final(turn[t])
      /\ v.resume = turn[t].resume
      /\ turn' = [turn EXCEPT ![t] = v]
  BY <1>1, <1>5, <1>6 DEF VoiceTurn, Status, Final, Turns
<1> HIDE DEF v
<1>8. TurnsKept /\ Known' = Known /\ turn'[t] = v /\ \A j \in Known \ {t} : turn'[j] = turn[j]
  BY <1>5, <1>7, Alters DEF FInv, HInv, Marked
<1>9. \A k \in DOMAIN inputs : inputs[k] \in Known /\ turn[inputs[k]].status \in {"queued", "cancelled"}
  BY DEF FInv, VInv, Linked, HInv, Placed
<1>10. \A k \in DOMAIN inputs' : inputs'[k] # current' /\ turn'[inputs'[k]].status \in {"queued", "cancelled"}
  <2>1. ASSUME NEW k \in DOMAIN inputs'
        PROVE  inputs'[k] \in Known \ {t} /\ turn[inputs'[k]].status \in {"queued", "cancelled"}
    BY <1>2, <1>4, <1>9
  <2> QED BY <1>1, <1>8, <2>1
<1>11. Placed'
  BY <1>1, <1>5, <1>7, <1>8, <1>10 DEF Placed
<1>12. RowsKept
  BY <1>1, KeepsRows DEF FInv
<1> QED BY <1>8, <1>11, <1>12 DEF Kept

\* The turn gets its outcome when its two tasks have ended, unless it was interrupted.
LEMMA TtsEndedKept ==
  ASSUME FInv, HInv, TtsEnded
  PROVE  Kept
<1> DEFINE v == Outcome(turn[current])
<1>1. /\ worker = "tts" /\ ~Speaking /\ tts' = "none" /\ worker' = "save" /\ agent = "none"
      /\ turn' = [turn EXCEPT ![current] = v]
      /\ UNCHANGED <<inputs, current, agent, stored>>
  BY DEF TtsEnded, HInv, Placed
<1>2. /\ current \in Known /\ turn[current] \in VoiceTurn /\ ~Final(turn[current]) /\ VInv /\ Placed /\ Recorded
      /\ turn[current].status \in {"running", "cancelled"}
  BY <1>1, AtWork DEF FInv, HInv, Busy
<1>3. v \in VoiceTurn
  BY <1>2, ATurn DEF VInv, TypeOK, Turns
<1>4. /\ v.interrupted = turn[current].interrupted /\ v.resume = turn[current].resume
      /\ turn[current].interrupted => v.status = turn[current].status
  BY <1>2 DEF Outcome, VoiceTurn
<1> HIDE DEF v
<1>5. Marked(v)
  BY <1>2, <1>4 DEF Recorded, Marked
<1>6. TurnsKept /\ Known' = Known /\ turn'[current] = v /\ \A j \in Known \ {current} : turn'[j] = turn[j]
  BY <1>1, <1>2, <1>3, <1>4, <1>5, Alters
<1>7. \A k \in DOMAIN inputs : inputs[k] \in Known /\ inputs[k] # current
  BY <1>2 DEF VInv, Linked, Placed
<1>8. Placed'
  BY <1>1, <1>2, <1>6, <1>7 DEF Placed, Busy, Speaking
<1>9. RowsKept
  BY <1>1, <1>2, KeepsRows
<1> QED BY <1>6, <1>8, <1>9 DEF Kept

LEMMA ExecuteKept ==
  ASSUME FInv, HInv, Execute
  PROVE  Kept
<1>1. VInv /\ Placed /\ Recorded
  BY DEF FInv, HInv
<1>2. CASE AgentEnded
  <2>1. UNCHANGED <<inputs, current, agent, tts, turn, stored>> /\ agent = "none" /\ worker = "agent" /\ worker' = "tts"
    BY <1>2 DEF AgentEnded, memory
  <2> QED BY <1>1, <2>1, SameTurns, KeepsRows, StaysPlaced DEF Busy, Kept
<1>3. CASE SaveExecuted
  <2>1. \E x \in Savers : Store(x) /\ TurnOf(x) \in Known
    BY <1>1, <1>3, SavedByTwo, WhoSaves DEF SaveExecuted
  <2>2. UNCHANGED <<inputs, current, agent, tts, turn>> /\ agent = "none" /\ ~Speaking /\ worker' \in {"get", "none"}
    BY <1>1, <1>3 DEF SaveExecuted, memory, Placed
  <2> QED BY <1>1, <2>1, <2>2, SameTurns, KeepsRows, StaysPlaced DEF Busy, Speaking, Kept
<1> QED BY <1>2, <1>3, TakeKept, TtsEndedKept, SavedByTwo, SendKept DEF Execute

\* The agent leaves its try block.
LEMMA AgentDoneKept ==
  ASSUME VInv, HInv, agent # "none", NEW outcome \in Status, AgentDone(outcome),
         UNCHANGED <<inputs, current, worker, tts, stored>>
  PROVE  Kept
<1> DEFINE v == [turn[current] EXCEPT !.execution = outcome]
<1>1. /\ current \in Known /\ turn[current] \in VoiceTurn /\ ~Final(turn[current])
      /\ worker = "agent"
  BY AtWork DEF HInv, Placed, Busy
<1>2. /\ v \in VoiceTurn /\ v.interrupted = turn[current].interrupted /\ v.status = turn[current].status
      /\ v.resume = turn[current].resume /\ turn' = [turn EXCEPT ![current] = v] /\ agent' = "save"
  BY <1>1 DEF VoiceTurn, AgentDone
<1> HIDE DEF v
<1>3. Marked(v)
  BY <1>1, <1>2 DEF HInv, Recorded, Marked
<1>4. TurnsKept /\ Known' = Known /\ turn'[current] = v /\ \A j \in Known \ {current} : turn'[j] = turn[j]
  BY <1>1, <1>2, <1>3, Alters DEF HInv
<1>5. \A j \in Known : turn'[j].status \in {turn[j].status, "cancelled"}
  BY <1>2, <1>4
<1>6. Placed'
  BY <1>1, <1>4, <1>5, StaysPlaced DEF HInv, Busy
<1> QED BY <1>4, <1>6, KeepsRows DEF Kept

LEMMA GenerateKept ==
  ASSUME FInv, HInv, Generate
  PROVE  Kept
<1>1. VInv /\ Placed /\ Recorded /\ Waiting \in Status /\ {"failed", "waiting_approval", "cancelled"} \subseteq Status
  BY DEF FInv, HInv, Waiting, Status
<1>2. UNCHANGED <<inputs, current, worker, tts>> /\ agent # "none" /\ worker = "agent"
  BY <1>1
  DEF Generate, StartAgent, CheckThread, RunGraph, Say, Interrupt, EndGraph, FinalText, FailAgent, HaltAgent, Send, Owes,
      SaveGenerated, AgentAt, InThread, memory, execution, Placed
<1>3. CASE UNCHANGED <<turn, stored>>
  BY <1>1, <1>2, <1>3, SameTurns, KeepsRows, StaysPlaced DEF Busy, Speaking, Kept
<1>4. CASE stored' = stored /\ \E outcome \in Status : AgentDone(outcome)
  BY <1>1, <1>2, <1>4, AgentDoneKept DEF HInv
<1>5. CASE UNCHANGED turn /\ \E x \in Savers : Store(x) /\ TurnOf(x) \in Known
  BY <1>1, <1>2, <1>5, SameTurns, KeepsRows, StaysPlaced DEF Busy, Speaking, Kept
<1>9. CASE SaveGenerated
  BY <1>1, <1>5, <1>9, SavedByTwo, WhoSaves DEF SaveGenerated, AgentAt, memory
<1>6. CASE StartAgent \/ RunGraph \/ Say \/ Interrupt
  BY <1>3, <1>6 DEF StartAgent, RunGraph, Say, Interrupt, memory
<1>7. CASE CheckThread \/ EndGraph \/ FinalText \/ FailAgent
  <2>1. stored' = stored
    BY <1>7 DEF CheckThread, EndGraph, FinalText, FailAgent
  <2>2. UNCHANGED turn \/ \E outcome \in Status : AgentDone(outcome)
    BY <1>1, <1>7 DEF CheckThread, EndGraph, FinalText, FailAgent
  <2> QED BY <1>3, <1>4, <2>1, <2>2
<1>8. CASE HaltAgent
  <2>1. CASE UNCHANGED <<turn, stored>>
    BY <1>3, <2>1
  <2>3. CASE agent = "save" /\ UNCHANGED turn /\ StoreOrNot("agent")
    BY <1>1, <1>3, <1>5, <2>3, SavedByTwo, WhoSaves DEF StoreOrNot
  <2>2. CASE /\ turn' = [turn EXCEPT ![current].execution = "cancelled", ![current].interrupted = TRUE]
             /\ agent' = "save" /\ UNCHANGED stored
    <3> DEFINE v == [turn[current] EXCEPT !.execution = "cancelled", !.interrupted = TRUE]
    <3>1. /\ current \in Known /\ turn[current] \in VoiceTurn /\ ~Final(turn[current]) /\ turn \in Turns
          /\ turn[current].status \in {"running", "cancelled"} /\ current \in Inputs
      BY <1>1, <1>2, AtWork DEF Busy, VInv, TypeOK, Turns, Known
    <3>2. /\ v \in VoiceTurn /\ v.interrupted = TRUE /\ v.status = turn[current].status
          /\ v.resume = turn[current].resume /\ turn' = [turn EXCEPT ![current] = v]
      BY <2>2, <3>1 DEF VoiceTurn, Status, Turns
    <3> HIDE DEF v
    <3>3. TurnsKept /\ Known' = Known /\ turn'[current] = v /\ \A j \in Known \ {current} : turn'[j] = turn[j]
      BY <1>1, <3>1, <3>2, Alters DEF Marked
    <3>4. \A j \in Known : turn'[j].status \in {turn[j].status, "cancelled"}
      BY <3>2, <3>3
    <3>5. Placed'
      BY <1>1, <1>2, <2>2, <3>3, <3>4, StaysPlaced DEF Busy, Speaking, Placed
    <3> QED BY <1>1, <2>2, <3>3, <3>5, KeepsRows DEF Kept
  <2> QED BY <1>8, <2>1, <2>2, <2>3 DEF HaltAgent
<1> QED BY <1>6, <1>7, <1>8, <1>9, SavedByTwo, SendKept DEF Generate

LEMMA SpeakKept ==
  ASSUME FInv, HInv, Speak
  PROVE  Kept
<1>1. VInv /\ Placed /\ Recorded
  BY DEF FInv, HInv
<1>2. UNCHANGED <<inputs, current, worker, agent, stored>>
  BY DEF Speak, Hear, FailTts, HaltTts, memory
<1>3. CASE UNCHANGED turn /\ ~Speaking'
  <2>1. Busy' => Busy
    BY <1>2, <1>3 DEF Busy
  <2> QED BY <1>1, <1>2, <1>3, <2>1, SameTurns, KeepsRows, StaysPlaced DEF Placed, Kept
<1>4. CASE FailTts \/ HaltTts
  BY <1>3, <1>4 DEF FailTts, HaltTts, TtsDone, memory, Speaking
<1>5. CASE Hear /\ turn' = [turn EXCEPT ![current].sound = "some"] /\ UNCHANGED tts /\ ~turn[current].interrupted
  <2> DEFINE v == [turn[current] EXCEPT !.sound = "some"]
  <2>1. Speaking /\ Speaking' /\ current \in Known /\ turn[current] \in VoiceTurn /\ ~Final(turn[current])
    BY <1>1, <1>5, AtWork DEF Hear, Busy, Speaking
  <2>2. /\ v \in VoiceTurn /\ v.interrupted = turn[current].interrupted /\ v.status = turn[current].status
        /\ v.resume = turn[current].resume /\ turn' = [turn EXCEPT ![current] = v]
    BY <1>5, <2>1 DEF VoiceTurn
  <2> HIDE DEF v
  <2>3. TurnsKept /\ Known' = Known /\ turn'[current] = v /\ \A j \in Known \ {current} : turn'[j] = turn[j]
    BY <1>1, <1>5, <2>1, <2>2, Alters DEF Marked
  <2>4. \A j \in Known : turn'[j].status \in {turn[j].status, "cancelled"}
    BY <2>2, <2>3
  <2>5. Placed'
    BY <1>1, <1>2, <2>1, <2>3, <2>4, StaysPlaced DEF Busy, Placed
  <2> QED BY <1>1, <1>2, <2>3, <2>5, KeepsRows DEF Kept
<1> QED BY <1>3, <1>4, <1>5 DEF Speak, Hear, TtsDone, Speaking

LEMMA RunKept ==
  ASSUME FInv, HInv, Connect \/ Restore \/ End \/ CloseSession \/ ChatRun \/ UNCHANGED vars
  PROVE  Kept
<1>1. VInv /\ Placed /\ Recorded
  BY DEF FInv, HInv
<1>2. UNCHANGED <<inputs, current, agent, tts, stored>>
  BY DEF Connect, Restore, End, CloseSession, ChatRun, vars, memory, execution
<1>3. CASE Connect
  <2>1. worker' = "get" /\ agent = "none" /\ ~Speaking /\ UNCHANGED turn
    BY <1>1, <1>3 DEF Connect, VInv, Ended, memory
  <2>2. ~Busy'
    BY <1>2, <2>1 DEF Busy, Speaking
  <2> QED BY <1>1, <1>2, <2>1, <2>2, SameTurns, KeepsRows, StaysPlaced DEF Speaking, Kept
<1>4. CASE UNCHANGED <<turn, worker>>
  BY <1>1, <1>2, <1>4, SameTurns, KeepsRows, StaysPlaced DEF Busy, Speaking, Placed, Kept
<1>5. CASE End
  <2>1. UNCHANGED worker
    BY <1>5 DEF End
  <2> QED BY <1>1, <1>2, <1>5, <2>1, AbandonKeeps, KeepsRows, StaysPlaced DEF End, Busy, Speaking, Placed, Kept
<1> QED BY <1>3, <1>4, <1>5 DEF Connect, Restore, CloseSession, ChatRun, vars, memory, execution

\* What is written while a task is cancelled, or the process dies, is what was sent of a turn, or a
\* new one.
LEMMA SavesKeepRows ==
  ASSUME FInv, NEW done \in SUBSET UnderWay, SavesOf(done)
  PROVE  RowsKept
<1>1. ASSUME NEW i \in Inputs, NEW q \in UnderWay, Saving(q).i = i
      PROVE  \/ \E x \in Savers : sent[x] # None /\ TurnOf(x) = i /\ Saving(q).v = sent[x]
             \/ stored[i] = None /\ \E r \in Interrupts \cup {0} : Saving(q).v = NewTurn(r)
  <2>1. q \in Savers
    BY WhatIsUnderWay
  <2>2. CASE sent[q] # None /\ Saving(q) = [i |-> TurnOf(q), v |-> sent[q]]
    BY <1>1, <2>1, <2>2
  <2>3. CASE /\ q \in Submitters /\ sub[q].pc = "save_new"
             /\ Saving(q) = [i |-> sub[q].input, v |-> NewTurn(sub[q].resume)]
    <3>1. sub[q] \in Submission /\ stored[sub[q].input] = None
      BY <2>3 DEF FInv, VInv, TypeOK, Fresh, Checked
    <3> QED BY <1>1, <2>3, <3>1 DEF Submission
  <2> QED BY <2>2, <2>3, WhatIsUnderWay
<1>2. ASSUME NEW i \in Inputs
      PROVE  \/ stored'[i] = stored[i]
             \/ \E x \in Savers : sent[x] # None /\ TurnOf(x) = i /\ stored'[i] = sent[x]
             \/ stored[i] = None /\ \E r \in Interrupts \cup {0} : stored'[i] = NewTurn(r)
  <2>1. CASE \E p \in done : Saving(p).i = i
    <3> DEFINE q == CHOOSE p \in done : Saving(p).i = i
    <3>1. q \in UnderWay /\ Saving(q).i = i
      BY <2>1
    <3>2. stored'[i] = Saving(q).v
      BY <2>1 DEF SavesOf
    <3> HIDE DEF q
    <3> QED BY <1>1, <3>1, <3>2
  <2>2. CASE ~ \E p \in done : Saving(p).i = i
    BY <2>2 DEF SavesOf
  <2> QED BY <2>1, <2>2
<1> QED BY <1>2 DEF RowsKept

LEMMA TeardownKept ==
  ASSUME FInv, HInv, Teardown \/ Crash
  PROVE  Kept
<1>1. VInv /\ Placed /\ Recorded
  BY DEF FInv, HInv
<1>2. CASE Drain
  <2>1. UNCHANGED <<inputs, current, worker, agent, tts, turn>> /\ RowsKept
    BY <1>2, SavesKeepRows DEF Drain, memory, execution
  <2> QED BY <1>1, <2>1, SameTurns, StaysPlaced DEF Placed, Busy, Speaking, Kept
<1>3. CASE Reap
  <2>1. UNCHANGED <<inputs, current, agent, tts, turn>> /\ agent = "none" /\ worker' \in {worker, "none"}
    BY <1>3 DEF Reap, AgentWaitedFor, memory
  <2>3. stored' = stored \/ \E x \in Savers : Store(x) /\ TurnOf(x) \in Known
    BY <1>1, <1>3, SavedByTwo, WhoSaves DEF Reap, StoreOrNot
  <2>2. Busy' => Busy
    BY <2>1 DEF Busy, Speaking
  <2> QED BY <1>1, <2>1, <2>2, <2>3, SameTurns, KeepsRows, StaysPlaced DEF Placed, Speaking, Kept
\* With the memory nothing is left to be placed.
<1>4. ASSUME Forget, agent' = "none", ~Speaking', worker' = "none", RowsKept PROVE Kept
  <2>1. Known' = {} /\ inputs' = <<>> /\ current' = None
    BY <1>4, ForgetsAll
  <2> QED BY <1>4, <2>1 DEF Placed, TurnsKept, Busy, Kept
<1>5. CASE Leave
  <2>1. RowsKept
    BY <1>1, <1>5 DEF Leave, RowsKept, Known
  <2>2. Forget /\ agent' = "none" /\ worker' = "none" /\ ~Speaking'
    BY <1>1, <1>5 DEF Leave, Leaving, VInv, Ended, Speaking
  <2> QED BY <1>4, <2>1, <2>2
<1>6. CASE Crash
  <2>1. RowsKept
    BY <1>6, SavesKeepRows DEF Crash
  <2>2. Forget /\ agent' = "none" /\ worker' = "none" /\ ~Speaking'
    BY <1>6 DEF Crash, Speaking
  <2> QED BY <1>4, <2>1, <2>2
<1> QED BY <1>2, <1>3, <1>5, <1>6 DEF Teardown

LEMMA NextKept == FInv /\ HInv /\ [Next]_vars => Kept
<1> SUFFICES ASSUME FInv, HInv, [Next]_vars PROVE Kept
  OBVIOUS
<1> QED
  BY SavedByTwo, SubmitKept, SendKept, SubmitStepKept, SaveNewKept, ClientKept, ExecuteKept, GenerateKept, SpeakKept, RunKept, TeardownKept
  DEF Next, SubmitStep

LEMMA HBegin == Init => HInv
<1> SUFFICES ASSUME Init PROVE HInv
  OBVIOUS
<1>1. Known = {} /\ inputs = <<>> /\ current = None /\ \A i \in Inputs : stored[i] = None
  BY DEF Init, Known
<1>2. ~Busy /\ agent = "none" /\ ~Speaking /\ \A x \in Savers : sent[x] = None
  BY DEF Init, Busy, Speaking
<1> QED BY <1>1, <1>2 DEF HInv, Placed, Answered, Recorded

LEMMA HStep == FInv /\ HInv /\ [Next]_vars => HInv'
<1> SUFFICES ASSUME FInv, HInv, [Next]_vars PROVE HInv'
  OBVIOUS
<1>1. Kept
  BY NextKept
<1>2. Known' \subseteq Inputs
  BY DEF Known
<1>3. Answered' /\ SentKept
  BY SentStep DEF FInv, HInv
<1>4. Recorded'
  BY <1>1, <1>2, <1>3, RecordedStep DEF HInv, Kept
<1> QED BY <1>1, <1>3, <1>4 DEF HInv, Kept

\* Where the turns may be, and what the memory, the table and the saves on their way to it say of
\* them, in every reachable state: whichever of two saves is stored last, the turn in memory is
\* ahead of it.
THEOREM MemoryIsAhead == Spec => [](FInv /\ HInv)
  BY FBegin, FStep, HBegin, HStep, PTL DEF Spec

\* When a session can be connected again, nothing of its last connection is at work or on its way
\* to the table, in whichever way it ended (voice_connection.py, the finally of run).
THEOREM QuietBetweenConnections == Spec => []QuietWhenOff
<1>1. FInv /\ HInv => QuietWhenOff
  BY NothingSent DEF FInv, HInv, VInv, Ended, QuietWhenOff
<1> QED BY <1>1, MemoryIsAhead, PTL DEF Spec

\* The turns of a connection are only forgotten when they have just been saved, or in a crash.
LEMMA Remembered ==
  ASSUME VInv, [Next]_vars, ~Crash
  PROVE  \A i \in Known : i \in Known' \/ stored'[i] = turn[i]
<1>1. ASSUME NEW p \in Submitters, SubmitStep(p) PROVE Known \subseteq Known'
  <2>1. CASE SaveNew(p)
    <3>1. turn \in Turns /\ sub[p] \in Submission /\ turn' = [turn EXCEPT ![sub[p].input] = NewTurn(sub[p].resume)]
      BY <2>1 DEF SaveNew, VInv, TypeOK, Turns
    <3>2. NewTurn(sub[p].resume) # None
      BY <3>1, NewTurnIsTyped, TurnIsNotNone DEF Submission
    <3> QED BY <3>1, <3>2 DEF Known, Turns
  <2>2. CASE SaveCancelled(p)
    BY <2>2 DEF SaveCancelled, memory, Known
  <2> QED BY <1>1, <2>1, <2>2, HasInputTyped, SavedByTwo, SendTyped DEF SubmitStep
<1>2. CASE Drain \/ Reap
  BY <1>2 DEF Drain, Reap, memory, Known
<1>3. CASE Leave
  BY <1>3 DEF Leave, Known
<1> QED BY <1>1, <1>2, <1>3, SubmitTyped, ClientTyped, ExecuteTyped, GenerateTyped, SpeakTyped, RunTyped DEF Next, Teardown

\* What is known of a turn follows what was known before.
LEMMA RecordFollows ==
  ASSUME FInv, HInv, [Next]_vars, ~Crash, NEW i \in Inputs, Record(i) # None
  PROVE  Follows(Record(i), Record(i)') /\ Record(i)' # None /\ Marked(Record(i)')
<1>1. Kept
  BY NextKept
<1>2. VInv /\ VInv' /\ Recorded'
  BY VStep, HStep DEF FInv, HInv
<1>3. CASE i \in Known
  <2>1. Record(i) = turn[i] /\ turn[i] # None /\ Marked(turn[i])
    BY <1>3 DEF Record, Known, HInv, Recorded
  <2>2. CASE i \in Known'
    <3>1. Record(i)' = turn'[i] /\ turn'[i] # None
      BY <2>2 DEF Record, Known
    <3> QED BY <1>1, <1>3, <2>1, <2>2, <3>1 DEF Kept, TurnsKept
  <2>3. CASE i \notin Known'
    <3>1. Record(i)' = stored'[i] /\ stored'[i] = turn[i]
      BY <1>2, <1>3, <2>3, Remembered DEF Record, Known
    <3> QED BY <2>1, <3>1 DEF Follows
  <2> QED BY <2>2, <2>3
<1>4. CASE i \notin Known
  <2>1. Record(i) = stored[i] /\ stored[i] # None
    BY <1>4 DEF Record, Known
  <2>2. \A x \in Savers : sent[x] # None => TurnOf(x) # i
    BY <1>2, <1>4, WhoSaves DEF HInv, Answered, Asks
  <2>3. stored'[i] = stored[i]
    BY <1>1, <1>4, <2>1, <2>2 DEF Kept, RowsKept
  <2>4. i \notin Known'
    BY <1>1, <1>4, <2>1 DEF Kept, TurnsKept
  <2>5. Record(i)' = stored[i]
    BY <2>3, <2>4 DEF Record, Known
  <2> QED BY <2>1, <2>5 DEF Follows, HInv, Recorded
<1> QED BY <1>3, <1>4

\* A turn that was interrupted stays so and gets no outcome, although execute, generate, a
\* submitter, the receiver and run() all save it at their own time, and their saves may overtake each
\* other (cancel_response, execute, save_turn).
THEOREM CancelledIsFinal == Spec => CancelledStaysCancelled
<1> DEFINE A == \/ \A i \in Inputs : Record(i) # None /\ Record(i).interrupted =>
                     /\ Record(i)' # None
                     /\ Record(i)'.interrupted /\ Record(i)'.status \in {"cancelled", "running"}
                \/ Crash
<1>1. FInv /\ HInv /\ [Next]_vars => A
  BY RecordFollows DEF Follows, Marked
<1>2. FInv /\ HInv /\ [Next]_vars => [A]_vars
  BY <1>1
<1> QED BY <1>2, MemoryIsAhead, PTL DEF Spec, CancelledStaysCancelled

\* An answer that was completed and heard to its end is never touched again, by cancellations, saves
\* that were sent before and reconnects least of all (cancel_response, the finally of run).
THEOREM HeardStaysHeard == Spec => HeardIsFinal
<1> DEFINE A == \/ \A i \in Inputs :
                     Record(i) # None /\ Record(i).sound = "heard" /\ Record(i).status = "completed"
                       => Record(i)' = Record(i)
                \/ Crash
<1>1. FInv /\ HInv /\ [Next]_vars => A
  BY RecordFollows DEF Follows, Final
<1>2. FInv /\ HInv /\ [Next]_vars => [A]_vars
  BY <1>1
<1> QED BY <1>2, MemoryIsAhead, PTL DEF Spec, HeardIsFinal

-----------------------------------------------------------------------------
(* Approvals. *)

\* What generate has read in the checkpoint still holds.
Agreed == agent = "checked" => turn[current].resume = open

\* Between the question and the run of the graph, the guard of the thread keeps everybody else out.
LEMMA NobodyElse ==
  ASSUME VInv, [Next]_vars, ~CheckThread, agent' = "checked"
  PROVE  agent = "checked" /\ UNCHANGED <<current, open>>
<1>1. ASSUME NEW p \in Submitters, (\E i \in Inputs, r \in 0 .. raised : Submit(p, i, r)) \/ SubmitStep(p)
      PROVE  UNCHANGED <<agent, current, open>>
  BY <1>1 DEF Submit, SubmitStep, Send, HasInput, SaveCancelled, SaveNew, memory, execution, graph
<1>2. CASE (\E t \in Inputs : ClientCancel(t) \/ Playback(t)) \/ SaveTurn
  BY <1>2 DEF ClientCancel, Playback, SaveTurn, memory, execution, graph
<1>3. CASE Execute
  BY <1>3 DEF Execute, Take, AgentEnded, TtsEnded, Send, SaveExecuted, memory, execution, graph
<1>4. CASE Generate
  BY <1>4
  DEF Generate, StartAgent, RunGraph, Say, Interrupt, EndGraph, FinalText, FailAgent, HaltAgent, Send, SaveGenerated,
      AgentDone, AgentAt, memory, execution, graph
<1>5. CASE Speak \/ Connect \/ Restore \/ End \/ CloseSession \/ UNCHANGED vars
  BY <1>5 DEF Speak, Hear, FailTts, HaltTts, Connect, Restore, End, CloseSession, vars, memory, execution, graph
<1>6. CASE Drain \/ Reap
  BY <1>6 DEF Drain, Reap, memory, execution, graph
<1>7. CASE Leave \/ Crash
  BY <1>7 DEF Leave, Leaving, Crash, VInv, Ended
<1>8. CASE ChatRun
  BY <1>8 DEF ChatRun, InThread, memory, execution
<1> QED BY <1>1, <1>2, <1>3, <1>4, <1>5, <1>6, <1>7, <1>8 DEF Next, Teardown

LEMMA AgreedStep == FInv /\ HInv /\ Agreed /\ [Next]_vars => Agreed'
<1> SUFFICES ASSUME FInv, HInv, Agreed, [Next]_vars, agent' = "checked" PROVE turn'[current'].resume = open'
  BY DEF Agreed
<1>1. CASE CheckThread
  BY <1>1 DEF CheckThread, AgentDone, MayRun, graph
<1>2. CASE ~CheckThread
  <2>1. VInv /\ VInv'
    BY VStep DEF FInv
  <2>2. agent = "checked" /\ UNCHANGED <<current, open>>
    BY <1>2, <2>1, NobodyElse
  <2>3. current \in Known /\ current \in Known'
    BY <2>1, <2>2 DEF VInv, Linked, Working
  <2>4. Follows(turn[current], turn'[current])
    BY <2>3, NextKept DEF Kept, TurnsKept
  <2> QED BY <2>2, <2>4 DEF Agreed, Follows
<1> QED BY <1>1, <1>2

\* Only generate runs the graph, for the turn it works on.
LEMMA OnlyGenerateRuns ==
  ASSUME VInv, Agreed, [Next]_vars, NEW i \in Inputs, runs'[i] # runs[i]
  PROVE  turn[i].resume = open
<1>1. RunGraph
  <2>1. runs' # runs
    OBVIOUS
  <2>2. ASSUME NEW p \in Submitters, (\E j \in Inputs, r \in 0 .. raised : Submit(p, j, r)) \/ SubmitStep(p)
        PROVE  FALSE
    BY <2>1, <2>2 DEF Submit, SubmitStep, Send, HasInput, SaveCancelled, SaveNew, graph
  <2>3. CASE (\E t \in Inputs : ClientCancel(t) \/ Playback(t)) \/ SaveTurn \/ Execute
    BY <2>1, <2>3 DEF ClientCancel, Playback, SaveTurn, Execute, Take, AgentEnded, TtsEnded, Send, SaveExecuted, graph
  <2>4. CASE Generate
    BY <2>1, <2>4
    DEF Generate, StartAgent, CheckThread, Say, Interrupt, EndGraph, FinalText, FailAgent, HaltAgent, Send, SaveGenerated,
        graph
  <2>5. CASE Speak \/ Connect \/ Restore \/ End \/ Teardown \/ CloseSession \/ Crash \/ ChatRun \/ UNCHANGED vars
    BY <2>1, <2>5
    DEF Speak, Hear, FailTts, HaltTts, Connect, Restore, End, Teardown, Drain, Reap, Leave, CloseSession, Crash,
        ChatRun, vars, graph
  <2> QED BY <2>2, <2>3, <2>4, <2>5 DEF Next
<1>2. current = i /\ agent = "checked"
  BY <1>1 DEF RunGraph, AgentAt, VInv, TypeOK
<1> QED BY <1>2 DEF Agreed

\* An approval is only used for what it was given for: neither a chat run nor what becomes of the
\* turn invalidates what generate has read in the checkpoint (thread_guard, generate).
THEOREM ApprovalIsRespected == Spec => ApprovalRespected
<1> DEFINE A == \A i \in Inputs : runs'[i] # runs[i] => turn[i].resume = open
<1>1. VInv /\ Agreed /\ [Next]_vars => [A]_vars
  BY OnlyGenerateRuns
<1>2. FInv => VInv
  BY DEF FInv
<1>3. Init => Agreed
  BY DEF Init, Agreed
<1> QED BY <1>1, <1>2, <1>3, AgreedStep, MemoryIsAhead, PTL DEF Spec, ApprovalRespected

-----------------------------------------------------------------------------
(* Nobody waits for ever.  ENABLED Execute and its like are not within reach *)
(* of the prover; here are the guards of the steps.                          *)

\* Where a task can go on, with neither a failure nor a timeout to help it; calls return.
HasRoom == ~Speaking \/ Len(text) < TextLimit
ExecuteCan ==
  \/ worker = "get" /\ inputs # <<>> /\ phase \in {"up", "stopping"}
  \/ worker = "agent" /\ agent = "none" /\ HasRoom
  \/ worker = "tts" /\ ~Speaking
  \/ worker = "save"
GenerateCan ==
  \/ agent # "none" /\ "agent" \in halt
  \/ agent \in {"new", "enter", "checked", "graph", "asked", "save"}
  \/ agent = "final" /\ (turn[current].interrupted \/ HasRoom)
SpeakCan == Speaking /\ ("tts" \in halt \/ text # <<>>)
TeardownCan ==
  \/ phase = "stopping" /\ (worker = "get" => inputs = <<>>)
  \/ phase = "draining" /\ agent = "none"
  \/ phase = "reaping" /\ worker = "none" /\ ~Speaking

\* Nobody waits for somebody who waits: the worker for its two tasks, the agent for a place in the
\* queue of text, the synthesis for text or its end, run() for the agent, then the worker, then the
\* synthesis.  A turn taken while run() stops has a synthesis that run() has not cancelled, and a
\* worker cancelled on its way puts no end behind the text (voice_connection.py:559-575, 841-877).
SomebodyGoesOn == Resting \/ ExecuteCan \/ GenerateCan \/ SpeakCan \/ TeardownCan

\* The synthesis comes to an end by itself.
Ends == "tts" \in halt \/ (text # <<>> /\ text[Len(text)] = "end")

\* Once the worker has turned away from the agent, the synthesis ends by itself; one that was
\* started while the connection was already ending has nothing to say.
Awake ==
  /\ phase = "up" => worker # "none"
  /\ phase = "reaping" => worker # "get"
  /\ Speaking /\ worker # "agent" => Ends
  /\ phase \in {"stopping", "draining"} /\ Speaking /\ worker = "agent" =>
       "tts" \in halt \/ (turn[current].interrupted /\ text = <<>>)

\* What is in the queue has been interrupted, and is nothing else when the connection ends.
QueueIsCut ==
  \A k \in DOMAIN inputs : turn[inputs[k]].interrupted \/ (phase = "up" /\ turn[inputs[k]].status = "queued")

WInv == Awake /\ QueueIsCut

\* A turn other than the current one is interrupted or keeps its status.
Spares ==
  \A i \in Known \ {current} :
    turn'[i].interrupted \/ (turn'[i].interrupted = turn[i].interrupted /\ turn'[i].status = turn[i].status)

LEMMA QueueStays ==
  ASSUME VInv, Placed, QueueIsCut, Spares, UNCHANGED <<inputs, phase>>
  PROVE  QueueIsCut'
<1>1. \A k \in DOMAIN inputs : inputs[k] \in Known \ {current}
  BY DEF VInv, Linked, Placed
<1> QED BY <1>1 DEF Spares, QueueIsCut

LEMMA CancelSpares ==
  ASSUME VInv, NEW t \in Known, Cancel(t)
  PROVE  Spares /\ halt \subseteq halt'
<1>1. turn \in Turns /\ t \in Inputs /\ turn' = [turn EXCEPT ![t] = Cancelled(turn[t])]
  BY DEF VInv, TypeOK, Turns, Known, Cancel
<1>2. Cancelled(turn[t]).interrupted = TRUE
  BY ATurn, <1>1 DEF Cancelled, Turns, Known, VoiceTurn
<1>3. \A i \in Known : i # t => turn'[i] = turn[i]
  BY <1>1 DEF Turns, Known
<1>4. turn'[t].interrupted
  BY <1>1, <1>2 DEF Turns
<1> QED BY <1>3, <1>4 DEF Spares, Cancel

LEMMA CurrentSpares ==
  ASSUME VInv, NEW v, turn' = [turn EXCEPT ![current] = v]
  PROVE  Spares
  BY DEF VInv, TypeOK, Known, Spares

\* A submitter, or the receiver, does nothing for which anybody would wait.
LEMMA AwakeWhileUp ==
  ASSUME Awake, phase = "up", phase' = "up", UNCHANGED <<worker, tts, text>>, halt \subseteq halt'
  PROVE  Awake'
  BY DEF Awake, Ends, Speaking

LEMMA SubmitWakes ==
  ASSUME FInv, HInv, WInv,
         \/ \E p \in Submitters, i \in Inputs, r \in 0 .. raised : Submit(p, i, r)
         \/ \E p \in Submitters : Send(p) \/ HasInput(p) \/ SaveCancelled(p)
         \/ \E t \in Inputs : ClientCancel(t) \/ Playback(t)
         \/ SaveTurn
  PROVE  WInv'
<1>1. VInv /\ Placed /\ Awake /\ QueueIsCut
  BY DEF FInv, HInv, WInv
<1>2. phase = "up" /\ UNCHANGED <<phase, inputs, worker, tts, text>>
  BY SavedByTwo DEF Submit, Send, Owes, HasInput, SaveCancelled, ClientCancel, Playback, SaveTurn, memory, execution
<1>3. CASE UNCHANGED <<turn, halt>>
  <2>1. Spares
    BY <1>3 DEF Spares
  <2> QED BY <1>1, <1>2, <1>3, <2>1, QueueStays, AwakeWhileUp DEF WInv
<1>4. CASE \E t \in Known : Cancel(t)
  BY <1>1, <1>2, <1>4, CancelSpares, QueueStays, AwakeWhileUp DEF WInv
<1>5. ASSUME NEW t \in Inputs, Playback(t) PROVE WInv'
  <2>1. /\ t \in Known /\ turn \in Turns /\ turn' = [turn EXCEPT ![t] = [turn[t] EXCEPT !.sound = "heard"]]
        /\ UNCHANGED halt
    BY <1>1, <1>5 DEF Playback, VInv, TypeOK, Turns, Known, execution
  <2>2. \A i \in Known : turn'[i].interrupted = turn[i].interrupted /\ turn'[i].status = turn[i].status
    BY <2>1 DEF Turns, Known, VoiceTurn
  <2> QED BY <1>1, <1>2, <2>1, <2>2, QueueStays, AwakeWhileUp DEF Spares, WInv
<1>6. ASSUME NEW p \in Submitters, HasInput(p) PROVE WInv'
  <2>1. Cancellable(current) => current \in Known
    BY <1>1 DEF Cancellable, VInv, TypeOK, Known
  <2> QED BY <1>3, <1>4, <1>6, <2>1 DEF HasInput
<1>7. ASSUME NEW t \in Inputs, ClientCancel(t) PROVE WInv'
  <2>1. t \in Known /\ Cancel(t)
    BY <1>7 DEF ClientCancel, Cancellable, Known
  <2> QED BY <1>4, <2>1
<1>8. CASE (\E p \in Submitters, i \in Inputs, r \in 0 .. raised : Submit(p, i, r)) \/ (\E p \in Submitters : Send(p) \/ SaveCancelled(p)) \/ SaveTurn
  BY <1>3, <1>8 DEF Submit, Send, SaveCancelled, SaveTurn, memory, execution
<1> QED BY <1>5, <1>6, <1>7, <1>8

\* What is put into the queue has not been taken.
LEMMA SaveNewWakes ==
  ASSUME FInv, HInv, WInv, NEW p \in Submitters, SaveNew(p)
  PROVE  WInv'
<1> DEFINE i == sub[p].input
           v == NewTurn(sub[p].resume)
<1>1. VInv /\ Awake /\ QueueIsCut
  BY DEF FInv, WInv
<1>2. /\ phase = "up" /\ i \in Inputs \ Known /\ turn \in Turns /\ turn' = [turn EXCEPT ![i] = v]
      /\ UNCHANGED <<phase, worker, tts, text, halt>>
  BY <1>1 DEF SaveNew, FInv, Fresh, VInv, TypeOK, Turns, Linked, Submitting, execution
<1>3. turn'[i].status = "queued" /\ \A j \in Known : turn'[j] = turn[j]
  BY <1>2 DEF NewTurn, Turns, Known
<1>4. \A k \in DOMAIN inputs : inputs[k] \in Known
  BY <1>1 DEF VInv, Linked
<1>5. CASE inputs' = inputs
  BY <1>1, <1>2, <1>3, <1>4, <1>5, AwakeWhileUp DEF QueueIsCut, WInv
<1>6. CASE inputs' = Append(inputs, i)
  <2>1. inputs \in Seq(Inputs)
    BY <1>1 DEF VInv, TypeOK
  <2>2. \A k \in DOMAIN inputs' : inputs'[k] = i \/ (k \in DOMAIN inputs /\ inputs'[k] = inputs[k])
    BY <1>2, <1>6, <2>1
  <2>3. QueueIsCut'
    BY <1>1, <1>2, <1>3, <1>4, <2>2 DEF QueueIsCut
  <2> QED BY <1>1, <1>2, <2>3, AwakeWhileUp DEF WInv
<1> QED BY <1>5, <1>6 DEF SaveNew

\* A turn that is taken while the connection ends is an interrupted one.
LEMMA TakeWakes ==
  ASSUME FInv, HInv, WInv, Take
  PROVE  WInv'
<1> DEFINE t == Head(inputs)
           v == [turn[t] EXCEPT !.status = "running", !.execution = "running"]
<1>1. /\ VInv /\ Placed /\ Fresh /\ Awake /\ QueueIsCut
      /\ inputs \in Seq(Inputs) /\ inputs # <<>> /\ turn \in Turns
  BY DEF FInv, HInv, WInv, VInv, TypeOK, Turns, Take
<1>2. /\ 1 \in DOMAIN inputs /\ t = inputs[1]
      /\ \A k \in DOMAIN Tail(inputs) : k + 1 \in DOMAIN inputs /\ Tail(inputs)[k] = inputs[k + 1] /\ k + 1 # 1
  BY <1>1
<1>3. t \in Known /\ t \in Inputs /\ turn[t] \in VoiceTurn
  BY <1>1, <1>2, ATurn DEF VInv, Linked
<1>4. turn' = [turn EXCEPT ![t] = v] /\ v.interrupted = turn[t].interrupted
  BY <1>1, <1>3 DEF Take, Turns, VoiceTurn
<1> HIDE DEF v
<1>5. turn'[t].interrupted = turn[t].interrupted /\ \A i \in Known : i # t => turn'[i] = turn[i]
  BY <1>1, <1>3, <1>4 DEF Turns, Known
<1>6. QueueIsCut'
  <2>1. inputs' = Tail(inputs) /\ phase' = phase
    BY DEF Take
  <2>2. ASSUME NEW k \in DOMAIN inputs'
        PROVE  inputs'[k] \in Known /\ inputs'[k] # t /\ k + 1 \in DOMAIN inputs /\ inputs'[k] = inputs[k + 1]
    BY <1>1, <1>2, <2>1, <2>2 DEF VInv, Linked, Fresh
  <2> QED BY <1>1, <1>5, <2>1, <2>2 DEF QueueIsCut
<1>7. Awake'
  BY <1>1, <1>2, <1>5 DEF Take, QueueIsCut, Awake
<1> QED BY <1>6, <1>7 DEF WInv

LEMMA SendWakes ==
  ASSUME FInv, HInv, WInv, NEW x \in Savers, Send(x)
  PROVE  WInv'
<1>1. VInv /\ Placed /\ Awake /\ QueueIsCut
  BY DEF FInv, HInv, WInv
<1>2. UNCHANGED <<phase, inputs, worker, current, tts, text, halt, turn>>
  BY DEF Send, memory, execution
<1>3. Awake'
  BY <1>1, <1>2 DEF Awake, Ends, Speaking
<1> QED BY <1>1, <1>2, <1>3, QueueStays DEF Spares, WInv

\* The end of the text is put into the queue, or nobody listens any more.
LEMMA ExecuteWakes ==
  ASSUME FInv, HInv, WInv, Execute
  PROVE  WInv'
<1>1. VInv /\ Placed /\ Awake /\ QueueIsCut
  BY DEF FInv, HInv, WInv
<1>2. CASE AgentEnded
  <2>1. UNCHANGED <<phase, inputs, turn, tts, halt>> /\ worker' = "tts" /\ Push("end") /\ text \in Seq({"chunk", "end"})
    BY <1>1, <1>2 DEF AgentEnded, VInv, TypeOK, memory
  <2>2. Speaking => text' # <<>> /\ text'[Len(text')] = "end"
    BY <2>1 DEF Push
  <2>3. Awake'
    BY <1>1, <2>1, <2>2 DEF Awake, Ends, Speaking
  <2> QED BY <1>1, <2>1, <2>3, QueueStays DEF Spares, WInv
<1>3. CASE TtsEnded
  <2>1. /\ UNCHANGED <<phase, inputs, halt>> /\ tts' = "none" /\ worker' = "save"
        /\ turn' = [turn EXCEPT ![current] = Outcome(turn[current])]
    BY <1>3 DEF TtsEnded
  <2>2. Awake'
    BY <1>1, <2>1 DEF Awake, Speaking
  <2> QED BY <1>1, <2>1, <2>2, CurrentSpares, QueueStays DEF WInv
<1>4. CASE SaveExecuted
  <2>1. /\ UNCHANGED <<phase, inputs, turn, tts, halt, text>> /\ ~Speaking
        /\ worker' = IF phase = "up" THEN "get" ELSE "none"
    BY <1>1, <1>4 DEF SaveExecuted, Placed, memory
  <2>2. Awake'
    BY <1>1, <2>1 DEF Awake, Speaking
  <2> QED BY <1>1, <2>1, <2>2, QueueStays DEF Spares, WInv
<1> QED BY <1>2, <1>3, <1>4, TakeWakes, SavedByTwo, SendWakes DEF Execute

\* An agent that is still at work when the connection ends says nothing more.
LEMMA GenerateWakes ==
  ASSUME FInv, HInv, WInv, Generate, ~Send("agent")
  PROVE  WInv'
<1>1. VInv /\ Placed /\ Awake /\ QueueIsCut /\ turn \in Turns
  BY DEF FInv, HInv, WInv, VInv, TypeOK, Turns
<1>2. UNCHANGED <<phase, inputs, current, worker, tts>> /\ agent # "none" /\ worker = "agent" /\ ("tts" \in halt => "tts" \in halt')
  BY <1>1
  DEF Generate, StartAgent, CheckThread, RunGraph, Say, Interrupt, EndGraph, FinalText, FailAgent, HaltAgent, SaveGenerated,
      AgentAt, InThread, memory, Placed
<1>3. current \in Known /\ turn[current] \in VoiceTurn /\ current \in Inputs
  BY <1>1, <1>2, AtWork DEF Busy, Known
<1>4. turn[current].interrupted => text' = text
  BY DEF Generate, StartAgent, CheckThread, RunGraph, Say, Interrupt, EndGraph, FinalText, FailAgent, HaltAgent, SaveGenerated, Output
<1>5. UNCHANGED turn \/ \E v \in VoiceTurn : turn' = [turn EXCEPT ![current] = v] /\ (turn[current].interrupted => v.interrupted)
  <2>1. CASE UNCHANGED turn
    BY <2>1
  <2>2. ASSUME NEW o \in Status, AgentDone(o)
        PROVE  \E v \in VoiceTurn : turn' = [turn EXCEPT ![current] = v] /\ (turn[current].interrupted => v.interrupted)
    <3>1. [turn[current] EXCEPT !.execution = o].interrupted = turn[current].interrupted
      BY <1>3 DEF VoiceTurn
    <3> QED BY <1>1, <1>3, <2>2, <3>1, ATurn DEF AgentDone
  <2>3. ASSUME turn' = [turn EXCEPT ![current].execution = "cancelled", ![current].interrupted = TRUE]
        PROVE  \E v \in VoiceTurn : turn' = [turn EXCEPT ![current] = v] /\ (turn[current].interrupted => v.interrupted)
    <3> DEFINE w == [turn[current] EXCEPT !.execution = "cancelled", !.interrupted = TRUE]
    <3>1. w \in VoiceTurn /\ w.interrupted = TRUE
      BY <1>3 DEF VoiceTurn, Status
    <3>2. turn' = [turn EXCEPT ![current] = w]
      BY <1>1, <1>3, <2>3 DEF Turns
    <3> QED BY <3>1, <3>2
  <2>4. Waiting \in Status /\ {"failed", "waiting_approval"} \subseteq Status
    BY DEF Waiting, Status
  <2>5. UNCHANGED turn \/ (\E o \in Status : AgentDone(o))
        \/ turn' = [turn EXCEPT ![current].execution = "cancelled", ![current].interrupted = TRUE]
    BY <2>4
    DEF Generate, StartAgent, CheckThread, RunGraph, Say, Interrupt, EndGraph, FinalText, FailAgent, HaltAgent, SaveGenerated, memory
  <2> QED BY <2>1, <2>2, <2>3, <2>5
<1>6. Spares /\ (turn[current].interrupted => turn'[current].interrupted)
  <2>1. CASE UNCHANGED turn
    BY <2>1 DEF Spares
  <2>2. ASSUME NEW v \in VoiceTurn, turn' = [turn EXCEPT ![current] = v], turn[current].interrupted => v.interrupted
        PROVE  Spares /\ (turn[current].interrupted => turn'[current].interrupted)
    BY <1>1, <1>3, <2>2, CurrentSpares DEF Turns
  <2> QED BY <1>5, <2>1, <2>2
<1>7. Awake'
  BY <1>1, <1>2, <1>4, <1>6 DEF Awake, Speaking
<1> QED BY <1>1, <1>2, <1>6, <1>7, QueueStays DEF WInv

LEMMA EndStays ==
  ASSUME NEW s \in Seq({"chunk", "end"}), s # <<>>, Head(s) = "chunk", s[Len(s)] = "end"
  PROVE  Tail(s) # <<>> /\ Tail(s)[Len(Tail(s))] = "end"
<1>1. Len(s) \in Nat /\ Len(s) > 0 /\ Head(s) = s[1]
  OBVIOUS
<1>2. Len(s) # 1
  BY <1>1
<1>3. Len(Tail(s)) = Len(s) - 1 /\ Len(s) - 1 > 0
  BY <1>1, <1>2
<1>4. \A k \in 1 .. Len(s) - 1 : Tail(s)[k] = s[k + 1]
  OBVIOUS
<1>5. Tail(s)[Len(s) - 1] = s[Len(s)]
  BY <1>1, <1>3, <1>4
<1>6. Tail(s) # <<>>
  <2>1. Len(<<>>) = 0
    OBVIOUS
  <2>2. Len(Tail(s)) # 0
    BY <1>3
  <2> QED BY <2>1, <2>2, Zenon
<1> QED BY <1>3, <1>5, <1>6

\* The synthesis takes a chunk, with the end still behind it, or is over.
LEMMA SpeakWakes ==
  ASSUME FInv, HInv, WInv, Speak
  PROVE  WInv'
<1>1. VInv /\ Placed /\ Awake /\ QueueIsCut /\ text \in Seq({"chunk", "end"})
  BY DEF FInv, HInv, WInv, VInv, TypeOK
<1>2. UNCHANGED <<phase, inputs, worker>>
  BY DEF Speak, Hear, FailTts, HaltTts, memory
<1>3. CASE UNCHANGED turn /\ ~Speaking'
  <2>1. Awake'
    BY <1>1, <1>2, <1>3 DEF Awake
  <2> QED BY <1>1, <1>2, <1>3, <2>1, QueueStays DEF Spares, WInv
<1>4. CASE FailTts \/ HaltTts
  BY <1>3, <1>4 DEF FailTts, HaltTts, TtsDone, memory, Speaking
<1>5. CASE /\ Hear /\ Head(text) = "chunk" /\ turn' = [turn EXCEPT ![current].sound = "some"]
           /\ text' = Tail(text) /\ UNCHANGED tts
  <2>1. "tts" \notin halt /\ text # <<>> /\ Speaking /\ halt' = halt
    BY <1>5 DEF Hear
  <2>2. text[Len(text)] = "end" => text' # <<>> /\ text'[Len(text')] = "end"
    BY <1>1, <1>5, <2>1, EndStays
  <2>3. Awake'
    BY <1>1, <1>2, <2>1, <2>2 DEF Awake, Ends
  <2>4. Spares
    BY <1>1, <1>5, CurrentSpares
  <2> QED BY <1>1, <1>2, <2>3, <2>4, QueueStays DEF WInv
<1> QED BY <1>3, <1>4, <1>5 DEF Speak, Hear, TtsDone, Speaking

\* The end of a connection interrupts what waits in its queue and cancels its synthesis.
LEMMA RunWakes ==
  ASSUME FInv, HInv, WInv, Connect \/ Restore \/ End \/ CloseSession \/ ChatRun \/ UNCHANGED vars
  PROVE  WInv'
<1>1. VInv /\ Placed /\ Awake /\ QueueIsCut /\ turn \in Turns
  BY DEF FInv, HInv, WInv, VInv, TypeOK, Turns
<1>2. UNCHANGED <<inputs, current, tts, text>>
  BY DEF Connect, Restore, End, CloseSession, ChatRun, vars, memory, execution
<1>3. CASE Connect
  <2>1. phase = "off" /\ phase' = "up" /\ worker' = "get" /\ ~Speaking /\ UNCHANGED turn
    BY <1>1, <1>3 DEF Connect, VInv, Ended, memory
  <2>2. Awake'
    BY <1>2, <2>1 DEF Awake, Speaking
  <2>3. QueueIsCut'
    BY <1>1, <1>2, <2>1 DEF QueueIsCut
  <2> QED BY <2>2, <2>3 DEF WInv
<1>4. CASE UNCHANGED <<phase, turn, worker, halt>>
  <2>1. Awake'
    BY <1>1, <1>2, <1>4 DEF Awake, Ends, Speaking
  <2> QED BY <1>1, <1>2, <1>4, <2>1, QueueStays DEF Spares, WInv
<1>5. CASE End
  <2>1. /\ phase' = "stopping" /\ UNCHANGED worker /\ turn' = [i \in Inputs |-> Abandoned(turn[i])]
        /\ halt' = halt \cup ToHalt
    BY <1>5 DEF End
  <2>2. Speaking => "tts" \in halt'
    BY <2>1 DEF ToHalt, Running
  <2>3. Awake'
    BY <1>2, <2>1, <2>2 DEF Awake, Ends, Speaking
  <2>4. ASSUME NEW k \in DOMAIN inputs PROVE turn'[inputs[k]].interrupted
    <3>1. inputs[k] \in Inputs /\ turn[inputs[k]] \in VoiceTurn /\ turn[inputs[k]] # None
      BY <1>1, <2>4 DEF VInv, Linked, Known, Turns
    <3> DEFINE v == turn[inputs[k]]
    <3>2. turn'[inputs[k]] = Abandoned(v)
      BY <2>1, <3>1
    <3>3. v.interrupted \/ v.status = "queued"
      BY <1>1, <2>4 DEF QueueIsCut
    <3> HIDE DEF v
    <3>4. v \in VoiceTurn /\ v # None
      BY <3>1 DEF v
    <3>5. Abandoned(v).interrupted
      BY <3>3, <3>4 DEF Abandoned, Unfinished, Cancelled, VoiceTurn
    <3> QED BY <3>2, <3>5
  <2>5. QueueIsCut'
    BY <1>2, <2>4 DEF QueueIsCut
  <2> QED BY <2>3, <2>5 DEF WInv
<1> QED BY <1>3, <1>4, <1>5 DEF Connect, Restore, CloseSession, ChatRun, vars, memory, execution

\* A worker that is cancelled while it waits for a place in the queue finds one: who still listens
\* then has been cancelled or has been told nothing.
LEMMA TeardownWakes ==
  ASSUME FInv, HInv, WInv, Teardown \/ Crash
  PROVE  WInv'
<1>1. VInv /\ Placed /\ Awake /\ QueueIsCut
  BY DEF FInv, HInv, WInv
<1>2. CASE Drain
  <2>1. phase = "stopping" /\ phase' = "draining" /\ UNCHANGED <<inputs, current, worker, tts, turn, text, halt>>
    BY <1>2 DEF Drain, memory, execution
  <2> QED BY <1>1, <2>1 DEF Awake, Ends, Speaking, QueueIsCut, WInv
<1>3. CASE Reap
  <2>1. phase = "draining" /\ phase' = "reaping" /\ UNCHANGED <<inputs, current, tts, turn>>
    BY <1>3 DEF Reap, memory
  <2>2. QueueIsCut'
    BY <1>1, <2>1 DEF QueueIsCut
  <2>5. CASE worker = "save" /\ worker' = "none"
    BY <1>1, <2>1, <2>2, <2>5 DEF Placed, Awake, Speaking, WInv
  <2>3. CASE /\ worker \in {"agent", "tts"} /\ UNCHANGED <<worker, text>>
             /\ halt' = IF worker = "tts" /\ Speaking THEN halt \cup {"tts"} ELSE halt
    BY <1>1, <2>1, <2>2, <2>3 DEF Awake, Ends, Speaking, WInv
  <2>4. CASE /\ worker # "tts" /\ worker' = "none" /\ UNCHANGED halt
             /\ text' = IF worker = "agent" /\ Len(text) < TextLimit THEN Append(text, "end") ELSE text
    <3>1. text \in Seq({"chunk", "end"}) /\ TextLimit > 0 /\ worker \in WorkerSteps
      BY <1>1, ConstantsOK DEF VInv, TypeOK
    <3>2. ASSUME Speaking PROVE Ends'
      <4>1. CASE worker = "agent"
        <5>1. "tts" \in halt \/ text = <<>>
          BY <1>1, <2>1, <3>2, <4>1 DEF Awake
        <5>2. text = <<>> => text' # <<>> /\ text'[Len(text')] = "end"
          BY <2>4, <3>1, <4>1
        <5> QED BY <2>4, <5>1, <5>2 DEF Ends
      <4>2. CASE worker = "none"
        BY <1>1, <2>4, <3>2, <4>2 DEF Awake, Ends
      <4> QED BY <1>1, <2>4, <3>1, <3>2, <4>1, <4>2 DEF WorkerSteps, Placed
    <3> QED BY <2>1, <2>2, <2>4, <3>2 DEF Awake, Speaking, WInv
  <2> QED BY <1>3, <2>3, <2>4, <2>5 DEF Reap
<1>4. ASSUME phase' = "off", inputs' = <<>>, ~Speaking' PROVE WInv'
  BY <1>4 DEF WInv, Awake, QueueIsCut
<1>5. CASE Leave \/ Crash
  BY <1>4, <1>5 DEF Leave, Crash, Forget, Speaking
<1> QED BY <1>2, <1>3, <1>5 DEF Teardown

LEMMA WStep == FInv /\ HInv /\ WInv /\ [Next]_vars => WInv'
  BY SavedByTwo, SubmitWakes, SaveNewWakes, SendWakes, ExecuteWakes, GenerateWakes, SpeakWakes, RunWakes, TeardownWakes
  DEF Next, SubmitStep

LEMMA WBegin == Init => WInv
  BY DEF Init, WInv, Awake, QueueIsCut, Speaking

\* None of the tasks of a connection that is not at rest waits for another one that waits as well,
\* whenever its client leaves, a synthesis fails, a response is cancelled or a queue is full.
THEOREM NobodyWaitsForEver == Spec => []SomebodyGoesOn
<1>1. FInv /\ HInv /\ WInv => SomebodyGoesOn
  <2> SUFFICES ASSUME FInv, HInv, WInv, ~Resting PROVE ExecuteCan \/ GenerateCan \/ SpeakCan \/ TeardownCan
    BY DEF SomebodyGoesOn
  <2>1. /\ phase \in Phases \ {"off"} /\ worker \in WorkerSteps /\ agent \in AgentSteps
        /\ text \in Seq({"chunk", "end"}) /\ TextLimit \in Nat \ {0} /\ Placed /\ Awake
    BY ConstantsOK DEF FInv, HInv, WInv, VInv, TypeOK, Resting
  <2>2. ~HasRoom => SpeakCan
    BY <2>1 DEF HasRoom, SpeakCan
  <2>3. Speaking /\ worker # "agent" => SpeakCan
    BY <2>1 DEF Awake, Ends, SpeakCan
  <2>4. CASE agent # "none"
    BY <2>1, <2>2, <2>4 DEF GenerateCan, AgentSteps
  <2>5. CASE agent = "none" /\ worker \in {"agent", "tts", "save"}
    BY <2>2, <2>3, <2>5 DEF ExecuteCan
  <2>6. CASE agent = "none" /\ worker \in {"get", "none"}
    <3>1. phase # "up"
      BY <2>1, <2>6 DEF Resting, Awake
    <3>2. CASE phase = "stopping"
      BY <2>6, <3>2 DEF TeardownCan, ExecuteCan
    <3>3. CASE phase = "draining"
      BY <2>6, <3>3 DEF TeardownCan
    <3>4. CASE phase = "reaping"
      BY <2>1, <2>3, <2>6, <3>4 DEF TeardownCan, Awake
    <3> QED BY <2>1, <3>1, <3>2, <3>3, <3>4 DEF Phases
  <2> QED BY <2>1, <2>4, <2>5, <2>6 DEF WorkerSteps
<1> QED BY <1>1, FBegin, FStep, HBegin, HStep, WBegin, WStep, PTL DEF Spec

=============================================================================
