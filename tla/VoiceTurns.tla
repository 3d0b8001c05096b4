----------------------------- MODULE VoiceTurns -----------------------------
(***************************************************************************)
(* The turns of one voice session: class VoiceConnection of                *)
(* src/app/api/voice_connection.py over the table voice_turns of           *)
(* src/app/repositories/voice.py.  The tasks of a connection share one     *)
(* event loop and its memory: receiver and recognize submit inputs, worker *)
(* executes one turn at a time with two tasks, generate (the agent) and    *)
(* speak (the synthesis), and run() takes everything down.  A step goes    *)
(* from one await that suspends to the next.  The session can be connected *)
(* again after the connection or the whole process has gone, and the       *)
(* client then sends inputs again.                                         *)
(*                                                                         *)
(* An input makes at most one turn, so a turn is named by its input_id.    *)
(* A save waits for one of the pool's connections, sends the turn as it    *)
(* is then (Send), and is stored later: the tasks save on connections of   *)
(* their own, so that of two saves of a turn the older may be stored last. *)
(* Text is a number of chunks; invalid holds exactly the interrupted turns *)
(* and is not kept apart.  Frames, timings, metrics and the sender, whose  *)
(* queue is taken never to be full, are left out, and so is the wake word. *)
(***************************************************************************)
EXTENDS Naturals, Sequences, FiniteSets

CONSTANTS
  Inputs,          \* input_id of what the client sends or says
  None,            \* no record, no turn
  Submitters,      \* the tasks that get inputs: receiver and, where somebody speaks, recognize
  Streaming,       \* kinds of agent: whether uses_streaming_chat
  QueueLimit,      \* size of inputs: 2 in the code
  MaxTurns,        \* turns of one connection: 500 in the code
  TextLimit,       \* VOICE_QUEUE_SIZE
  MaxInterrupts,   \* bound on the approvals the graph asks for
  MaxConnections,  \* bound on the connections of the session
  MayCrash         \* whether the server process may die

ASSUME ConstantsOK ==
  /\ None \notin Inputs /\ Streaming \subseteq BOOLEAN /\ Streaming # {}
  /\ "receiver" \in Submitters /\ Submitters \subseteq {"receiver", "recognize"}
  /\ QueueLimit \in Nat \ {0} /\ MaxTurns \in Nat /\ TextLimit \in Nat \ {0}
  /\ MaxInterrupts \in Nat /\ MaxConnections \in Nat /\ MayCrash \in BOOLEAN

Interrupts == 1..MaxInterrupts

Status == {"queued", "running", "completed", "cancelled", "failed", "waiting_approval"}

VoiceTurn ==
  [status     : Status,
   execution  : Status,                                 \* execution_status
   interrupted: BOOLEAN,
   sound      : {"none", "some", "heard"},              \* segments with samples, all played or not
   resume     : Interrupts \cup {0}]                    \* the approval it brings, 0 for none

ASSUME NoneIsNoTurn == None \notin VoiceTurn

NewTurn(r) == [status |-> "queued", execution |-> "queued", interrupted |-> FALSE,
               sound |-> "none", resume |-> r]

\* The await at which a submitter stands: "raised" once its task has ended with an exception.
SubmitSteps == {"idle", "has_input", "save_cancelled", "save_new", "save_turn", "raised"}
Submission == [pc: SubmitSteps, input: Inputs \cup {None}, resume: Interrupts \cup {0},
               turn: Inputs \cup {None}]
Idle == [pc |-> "idle", input |-> None, resume |-> 0, turn |-> None]

Savers == Submitters \cup {"worker", "agent"}

VARIABLES
  session,     \* status of the voice_sessions record
  phase,       \* where run() stands
  streaming,   \* the agent puts out text while it generates, and stops when cancelled
  seen,        \* event ids and input ids that remember() knows
  turn,        \* the turns of this connection
  inputs,      \* turns waiting for the worker
  pending,     \* approvals the client was asked for
  restored,    \* whether restore_approvals of run() has finished
  sub,         \* the two tasks that submit
  worker,      \* where execute stands
  current,     \* the turn executed last
  agent,       \* where generate stands
  tts,         \* where speak stands
  text,        \* the queue from generate to speak
  halt,        \* those of agent and tts that were cancelled and have not noticed yet
  stored,      \* the table voice_turns
  sent,        \* a turn as a task has sent it to the table, None while it waits for no answer
  open,        \* the approval the graph's checkpoint waits for, 0 for none
  raised,      \* approvals asked for so far
  runs,        \* runs[i]: how often the graph was run for input i
  connections  \* connections still to come

memory == <<seen, turn, inputs, pending, restored>>
execution == <<worker, current, agent, tts, text, halt>>
graph == <<open, raised, runs>>
bounds == <<streaming, connections>>
vars == <<session, phase, sub, stored, sent, memory, execution, graph, bounds>>

Phases == {"off", "up", "stopping", "draining", "reaping"}
WorkerSteps == {"none", "get", "agent", "tts", "save"}
AgentSteps == {"none", "new", "enter", "checked", "graph", "asked", "final", "save"}
TtsSteps == {"none", "listen", "failed"}

TypeOK ==
  /\ session \in {"ready", "connected", "disconnected", "closed"}
  /\ phase \in Phases
  /\ streaming \in Streaming
  /\ seen \subseteq Inputs
  /\ turn \in [Inputs -> VoiceTurn \cup {None}]
  /\ inputs \in Seq(Inputs) /\ Len(inputs) <= QueueLimit
  /\ pending \subseteq Interrupts
  /\ restored \in BOOLEAN
  /\ sub \in [Submitters -> Submission]
  /\ worker \in WorkerSteps
  /\ current \in Inputs \cup {None}
  /\ agent \in AgentSteps
  /\ tts \in TtsSteps
  /\ text \in Seq({"chunk", "end"}) /\ Len(text) <= TextLimit
  /\ halt \subseteq {"agent", "tts"}
  /\ stored \in [Inputs -> VoiceTurn \cup {None}]
  /\ sent \in [Savers -> VoiceTurn \cup {None}]
  /\ open \in Interrupts \cup {0}
  /\ raised \in 0..MaxInterrupts
  /\ runs \in [Inputs -> Nat]
  /\ connections \in 0..MaxConnections

Known == {i \in Inputs : turn[i] # None}

Init ==
  /\ session = "ready" /\ phase = "off" /\ streaming \in Streaming
  /\ seen = {} /\ turn = [i \in Inputs |-> None] /\ inputs = <<>> /\ pending = {}
  /\ restored = FALSE
  /\ sub = [p \in Submitters |-> Idle]
  /\ worker = "none" /\ current = None /\ agent = "none" /\ tts = "none"
  /\ text = <<>> /\ halt = {}
  /\ stored = [i \in Inputs |-> None] /\ sent = [x \in Savers |-> None]
  /\ open = 0 /\ raised = 0
  /\ runs = [i \in Inputs |-> 0]
  /\ connections = MaxConnections

-----------------------------------------------------------------------------
(* save_turn. *)

\* x is at the await of a save; the turn it saves.
Owes(x) ==
  CASE x = "worker" -> worker = "save"
    [] x = "agent" -> agent = "save" /\ "agent" \notin halt
    [] OTHER -> phase = "up" /\ sub[x].pc \in {"save_cancelled", "save_turn"}

TurnOf(x) == IF x \in Submitters THEN sub[x].turn ELSE current

\* x has a connection: its turn is dumped and on its way.
Send(x) ==
  /\ Owes(x) /\ sent[x] = None
  /\ sent' = [sent EXCEPT ![x] = turn[TurnOf(x)]]
  /\ UNCHANGED <<session, phase, sub, stored, memory, execution, graph, bounds>>

\* What x has sent is stored, and x goes on.
Store(x) ==
  /\ sent[x] # None
  /\ stored' = [stored EXCEPT ![TurnOf(x)] = sent[x]]
  /\ sent' = [sent EXCEPT ![x] = None]

\* x is cancelled while it saves: what it has sent may be stored nevertheless.
StoreOrNot(x) == \/ Store(x)
                 \/ UNCHANGED stored /\ sent' = [sent EXCEPT ![x] = None]

-----------------------------------------------------------------------------
(* cancel_response, up to the await of its save_turn. *)

\* Mutation: a response the client has heard to its end is cancelled like any other.
CancellableAlways(t) == t # None /\ turn[t] # None /\ ~turn[t].interrupted

Cancellable(t) ==
  /\ t # None /\ turn[t] # None /\ ~turn[t].interrupted
  /\ ~(turn[t].sound = "heard" /\ turn[t].status = "completed")

Cancelled(v) == [v EXCEPT !.interrupted = TRUE, !.status = "cancelled"]

\* tts_task is not done.
Speaking == tts = "listen"

Running == {x \in {"agent", "tts"} : IF x = "agent" THEN agent # "none" ELSE Speaking}
\* What task.cancel() is called for: an agent that does not stream runs to its end.
ToHalt == IF streaming THEN Running ELSE Running \ {"agent"}

Cancel(t) ==
  /\ turn' = [turn EXCEPT ![t] = Cancelled(@)]
  /\ halt' = IF current = t THEN halt \cup ToHalt ELSE halt

-----------------------------------------------------------------------------
(* submit, called by the receiver for text and approvals, by recognize for speech. *)

\* The coroutine p goes on to another await, having changed none of the rest.
Await(p, s) == sub' = [sub EXCEPT ![p] = s]

\* The receiver drops an approval it has passed on, whether it was accepted or not.
Return(p) ==
  /\ Await(p, Idle)
  /\ pending' = pending \ {sub[p].resume}

Submit(p, i, r) ==
  /\ phase = "up" /\ sub[p].pc = "idle"
  /\ p = "recognize" => r = 0
  /\ i \notin seen
  /\ seen' = seen \cup {i}
  /\ \/ /\ IF r = 0 THEN pending # {} ELSE r \notin pending   \* approval_required, stale_approval
        /\ UNCHANGED sub
     \/ /\ IF r = 0 THEN pending = {} ELSE r \in pending
        /\ Await(p, [pc |-> "has_input", input |-> i, resume |-> r, turn |-> None])
  /\ UNCHANGED <<session, phase, stored, sent, turn, inputs, pending, restored, execution, graph, bounds>>

Full == Len(inputs) >= QueueLimit \/ Cardinality(Known) >= MaxTurns

HasInput(p) ==
  /\ phase = "up" /\ sub[p].pc = "has_input"
  /\ \/ /\ stored[sub[p].input] # None \/ Full                \* duplicate, input_queue_full
        /\ Return(p)
        /\ UNCHANGED <<turn, halt>>
     \/ /\ stored[sub[p].input] = None /\ ~Full
        /\ IF Cancellable(current)
           THEN /\ Cancel(current)
                /\ Await(p, [sub[p] EXCEPT !.pc = "save_cancelled", !.turn = current])
           ELSE /\ Await(p, [sub[p] EXCEPT !.pc = "save_new"])
                /\ UNCHANGED <<turn, halt>>
        /\ UNCHANGED pending
  /\ UNCHANGED <<session, phase, stored, sent, seen, inputs, restored, worker, current, agent, tts, text,
                 graph, bounds>>

SaveCancelled(p) ==
  /\ phase = "up" /\ sub[p].pc = "save_cancelled"
  /\ Store(p)
  /\ Await(p, [sub[p] EXCEPT !.pc = "save_new", !.turn = None])
  /\ UNCHANGED <<session, phase, memory, execution, graph, bounds>>

\* Mutation: the queue has no limit of its own.
SaveNewUnlimited(p) ==
  LET i == sub[p].input IN
  /\ phase = "up" /\ sub[p].pc = "save_new"
  /\ stored' = [stored EXCEPT ![i] = NewTurn(sub[p].resume)]
  /\ turn' = [turn EXCEPT ![i] = NewTurn(sub[p].resume)]
  /\ inputs' = Append(inputs, i)
  /\ Return(p)
  /\ UNCHANGED <<session, phase, sent, seen, restored, execution, graph, bounds>>

\* Mutation: an input is queued without being stored.
SaveNewNot(p) ==
  LET i == sub[p].input IN
  /\ phase = "up" /\ sub[p].pc = "save_new" /\ Len(inputs) < QueueLimit
  /\ turn' = [turn EXCEPT ![i] = NewTurn(sub[p].resume)]
  /\ inputs' = Append(inputs, i)
  /\ Return(p)
  /\ UNCHANGED <<session, phase, stored, sent, seen, restored, execution, graph, bounds>>

\* put_nowait raises where another submitter took the last place since the queue was looked at.
SaveNew(p) ==
  LET i == sub[p].input IN
  /\ phase = "up" /\ sub[p].pc = "save_new"
  /\ stored' = [stored EXCEPT ![i] = NewTurn(sub[p].resume)]
  /\ turn' = [turn EXCEPT ![i] = NewTurn(sub[p].resume)]
  /\ \/ /\ Len(inputs) < QueueLimit
        /\ inputs' = Append(inputs, i)
        /\ Return(p)
     \/ /\ Len(inputs) >= QueueLimit
        /\ Await(p, [Idle EXCEPT !.pc = "raised"])
        /\ UNCHANGED <<inputs, pending>>
  /\ UNCHANGED <<session, phase, sent, seen, restored, execution, graph, bounds>>

-----------------------------------------------------------------------------
(* The client's other events, handled by the receiver. *)

\* response.cancel for any response of this connection.
ClientCancel(t) ==
  LET p == "receiver" IN
  /\ phase = "up" /\ sub[p].pc = "idle"
  /\ Cancellable(t)
  /\ Cancel(t)
  /\ Await(p, [Idle EXCEPT !.pc = "save_turn", !.turn = t])
  /\ UNCHANGED <<session, phase, stored, sent, seen, inputs, pending, restored, worker, current, agent,
                 tts, text, graph, bounds>>

\* playback.progress or playback.finished: the segments so far have been heard to their end.
Playback(t) ==
  LET p == "receiver" IN
  /\ phase = "up" /\ sub[p].pc = "idle"
  /\ turn[t] # None /\ turn[t].sound = "some"
  /\ turn' = [turn EXCEPT ![t].sound = "heard"]
  /\ Await(p, [Idle EXCEPT !.pc = "save_turn", !.turn = t])
  /\ UNCHANGED <<session, phase, stored, sent, seen, inputs, pending, restored, execution, graph, bounds>>

SaveTurn ==
  LET p == "receiver" IN
  /\ phase = "up" /\ sub[p].pc = "save_turn"
  /\ Store(p)
  /\ Await(p, Idle)
  /\ UNCHANGED <<session, phase, memory, execution, graph, bounds>>

-----------------------------------------------------------------------------
(* worker and execute. *)

\* A worker that was woken for a turn takes it, even where run() has started to stop meanwhile.
Take ==
  LET t == Head(inputs) IN
  /\ worker = "get" /\ inputs # <<>> /\ phase \in {"up", "stopping"}
  /\ inputs' = Tail(inputs)
  /\ current' = t
  /\ turn' = [turn EXCEPT ![t].status = "running", ![t].execution = "running"]
  /\ worker' = "agent" /\ agent' = "new" /\ tts' = "listen"
  /\ text' = <<>> /\ halt' = {}
  /\ UNCHANGED <<session, phase, stored, sent, seen, pending, restored, sub, graph, bounds>>

\* Mutation: put() on the bounded queue does not watch the task that empties it.
PushBlocks(item) ==
  /\ Len(text) < TextLimit
  /\ text' = Append(text, item)

\* enqueue_speech: waits for a place in the queue or for the end of speak.
Push(item) ==
  \/ ~Speaking /\ UNCHANGED text
  \/ Speaking /\ Len(text) < TextLimit /\ text' = Append(text, item)

\* The end of the text is put behind what speak has not taken yet.
AgentEnded ==
  /\ worker = "agent" /\ agent = "none"
  /\ Push("end")
  /\ worker' = "tts"
  /\ UNCHANGED <<session, phase, sub, stored, sent, memory, current, agent, tts, halt, graph, bounds>>

\* Mutation: the turn gets its outcome even where it was cancelled.
OutcomeAlways(v) ==
  [v EXCEPT !.status = IF v.execution = "failed" \/ tts = "failed" THEN "failed"
                       ELSE v.execution]

Outcome(v) ==
  [v EXCEPT !.status = IF v.interrupted THEN @
                       ELSE IF v.execution = "failed" \/ tts = "failed" THEN "failed"
                       ELSE v.execution]

TtsEnded ==
  /\ worker = "tts" /\ ~Speaking
  /\ tts' = "none"
  /\ turn' = [turn EXCEPT ![current] = Outcome(@)]
  /\ worker' = "save"
  /\ UNCHANGED <<session, phase, sub, stored, sent, seen, inputs, pending, restored, current, agent,
                 text, halt, graph, bounds>>

SaveExecuted ==
  /\ worker = "save"
  /\ Store("worker")
  /\ worker' = IF phase = "up" THEN "get" ELSE "none"
  /\ UNCHANGED <<session, phase, sub, memory, current, agent, tts, text, halt, graph, bounds>>

-----------------------------------------------------------------------------
(* generate: agent_task, of the current turn. *)

AgentAt(step) == agent = step /\ "agent" \notin halt

\* The try block is left with this outcome, and with it the guard of the thread.
AgentDone(outcome) ==
  /\ turn' = [turn EXCEPT ![current].execution = outcome]
  /\ agent' = "save"

\* Inside thread_guard, which no chat run of the thread enters meanwhile.
InThread == agent \in {"checked", "graph", "asked", "final"}

Waiting == IF pending # {} THEN "waiting_approval" ELSE "completed"

\* The task takes its first step, to thread_guard and the questions to the checkpoint.
StartAgent ==
  /\ AgentAt("new")
  /\ agent' = "enter"
  /\ UNCHANGED <<session, phase, sub, stored, sent, memory, worker, current, tts, text, halt, graph,
                 bounds>>

\* What generate asks of the checkpoint: an approval answers what the graph waits for, and any
\* other input needs a graph that waits for nothing.
MayRun(r) == r = open

\* The guard is taken, and the checkpoint is read.
CheckThread ==
  /\ AgentAt("enter")
  /\ \/ /\ MayRun(turn[current].resume)
        /\ agent' = "checked"
        /\ UNCHANGED <<turn, pending>>
     \/ /\ ~MayRun(turn[current].resume)
        /\ IF turn[current].resume = 0
           THEN pending' = {open} /\ AgentDone("waiting_approval")
           ELSE UNCHANGED pending /\ AgentDone("failed")       \* Stale approval
  /\ UNCHANGED <<session, phase, sub, stored, sent, seen, inputs, restored, worker, current, tts, text,
                 halt, graph, bounds>>

RunGraph ==
  /\ AgentAt("checked")
  /\ runs' = [runs EXCEPT ![current] = @ + 1]
  /\ agent' = "graph"
  /\ UNCHANGED <<session, phase, sub, stored, sent, memory, worker, current, tts, text, halt, open,
                 raised, bounds>>

\* output: text of a cancelled response goes nowhere.
Output == IF turn[current].interrupted THEN UNCHANGED text ELSE Push("chunk")

Say ==
  /\ AgentAt("graph") /\ streaming
  /\ Output
  /\ UNCHANGED <<session, phase, sub, stored, sent, memory, worker, current, agent, tts, halt, graph,
                 bounds>>

\* The graph stops for an approval; the client may answer before generate has noticed the end.
Interrupt ==
  /\ AgentAt("graph") /\ raised < MaxInterrupts
  /\ raised' = raised + 1 /\ open' = raised + 1
  /\ pending' = pending \cup {raised + 1}
  /\ agent' = "asked"
  /\ UNCHANGED <<session, phase, sub, stored, sent, seen, turn, inputs, restored, worker, current, tts,
                 text, halt, runs, bounds>>

EndGraph ==
  /\ \/ AgentAt("graph") /\ open' = 0
     \/ AgentAt("asked") /\ open' = open
  /\ IF streaming \/ pending # {}
     THEN AgentDone(Waiting)
     ELSE agent' = "final" /\ UNCHANGED turn
  /\ UNCHANGED <<session, phase, sub, stored, sent, seen, inputs, pending, restored, worker, current, tts,
                 text, halt, raised, runs, bounds>>

\* An agent that does not stream puts out its last message.
FinalText ==
  /\ AgentAt("final")
  /\ Output
  /\ AgentDone(Waiting)
  /\ UNCHANGED <<session, phase, sub, stored, sent, seen, inputs, pending, restored, worker, current, tts,
                 halt, open, raised, runs, bounds>>

\* The thread is taken (409), an exception, or the timeout; the graph may have answered its
\* approval by then.
FailAgent ==
  /\ InThread \/ agent = "enter"
  /\ "agent" \notin halt
  /\ AgentDone("failed")
  /\ open' \in IF agent = "graph" THEN {open, 0} ELSE {open}
  /\ UNCHANGED <<session, phase, sub, stored, sent, seen, inputs, pending, restored, worker, current, tts,
                 text, halt, raised, runs, bounds>>

\* CancelledError: a task that has not started yet just ends, without its except and finally.
HaltAgent ==
  /\ "agent" \in halt
  /\ halt' = halt \ {"agent"}
  /\ \/ /\ agent = "new"
        /\ agent' = "none"
        /\ UNCHANGED <<turn, open, stored, sent>>
     \/ /\ agent = "save"
        /\ agent' = "none"
        /\ StoreOrNot("agent")
        /\ UNCHANGED <<turn, open>>
     \/ /\ InThread \/ agent = "enter"
        /\ turn' = [turn EXCEPT ![current].execution = "cancelled", ![current].interrupted = TRUE]
        /\ agent' = "save"
        /\ open' \in IF agent = "graph" THEN {open, 0} ELSE {open}
        /\ UNCHANGED <<stored, sent>>
  /\ UNCHANGED <<session, phase, sub, seen, inputs, pending, restored, worker, current, tts, text,
                 raised, runs, bounds>>

SaveGenerated ==
  /\ AgentAt("save")
  /\ Store("agent")
  /\ agent' = "none"
  /\ UNCHANGED <<session, phase, sub, memory, worker, current, tts, text, halt, graph, bounds>>

-----------------------------------------------------------------------------
(* speak: tts_task, of the current turn. *)

\* Nobody takes what is left in the queue.
TtsDone(outcome) == tts' = outcome /\ text' = <<>>

\* The next phrase is taken from the queue and sounds, or the text is over.
Hear ==
  /\ Speaking /\ "tts" \notin halt /\ text # <<>>
  /\ \/ Head(text) = "end" /\ TtsDone("none") /\ UNCHANGED turn
     \/ Head(text) = "chunk" /\ turn[current].interrupted /\ TtsDone("none")
        /\ UNCHANGED turn
     \/ /\ Head(text) = "chunk" /\ ~turn[current].interrupted
        /\ turn' = [turn EXCEPT ![current].sound = "some"]
        /\ text' = Tail(text)
        /\ UNCHANGED tts
  /\ UNCHANGED <<session, phase, sub, stored, sent, seen, inputs, pending, restored, worker, current,
                 agent, halt, graph, bounds>>

\* The provider fails, with part of a segment sent or after the last attempt without a sound; it
\* cannot answer before the agent, started with speak, has taken its first step.
FailTts ==
  /\ Speaking /\ "tts" \notin halt /\ agent # "new"
  /\ TtsDone("failed")
  /\ UNCHANGED <<session, phase, sub, stored, sent, memory, worker, current, agent, halt, graph, bounds>>

HaltTts ==
  /\ "tts" \in halt
  /\ halt' = halt \ {"tts"}
  /\ TtsDone("none")
  /\ UNCHANGED <<session, phase, sub, stored, sent, memory, worker, current, agent, graph, bounds>>

-----------------------------------------------------------------------------
(* run: the connection begins and ends. *)

Connect ==
  /\ phase = "off" /\ session # "closed" /\ connections > 0
  /\ connections' = connections - 1
  /\ phase' = "up" /\ session' = "connected" /\ worker' = "get"
  /\ UNCHANGED <<sub, stored, sent, memory, current, agent, tts, text, halt, graph, streaming>>

\* restore_approvals, when the tasks are already there.
Restore ==
  /\ phase = "up" /\ ~restored
  /\ restored' = TRUE
  /\ pending' = {open} \ {0}
  /\ UNCHANGED <<session, phase, sub, stored, sent, seen, turn, inputs, execution, graph, bounds>>

Unfinished(v) == v.status \in {"queued", "running"} \/ v.sound = "some"

Abandoned(v) ==
  IF v # None /\ Unfinished(v)
  THEN [Cancelled(v) EXCEPT !.execution = IF @ = "queued" THEN "cancelled" ELSE @]
  ELSE v

\* The client closes or is gone, the session expires or idles, a task has raised, or the server
\* stops it: the first part of the finally of run.
End ==
  /\ phase = "up"
  /\ phase' = "stopping"
  /\ turn' = [i \in Inputs |-> Abandoned(turn[i])]
  /\ halt' = halt \cup ToHalt
  /\ UNCHANGED <<session, sub, stored, sent, seen, inputs, pending, restored, worker, current, agent, tts,
                 text, graph, bounds>>

\* What of a turn x has under way, or of a new one, which is the same whenever it is sent.
Saving(x) ==
  CASE sent[x] # None -> [i |-> TurnOf(x), v |-> sent[x]]
    [] sent[x] = None /\ x \in Submitters /\ sub[x].pc = "save_new" ->
         [i |-> sub[x].input, v |-> NewTurn(sub[x].resume)]
    [] OTHER -> [i |-> None, v |-> None]

UnderWay == {x \in Savers : Saving(x).i # None}

\* Statements under way when their tasks are cancelled, or the process dies, may have committed.
SavesOf(done) ==
  stored' = [i \in Inputs |->
               IF \E x \in done : Saving(x).i = i
               THEN Saving(CHOOSE x \in done : Saving(x).i = i).v
               ELSE stored[i]]

\* The receiver and recognize are gone.
Drain ==
  /\ phase = "stopping"
  /\ worker = "get" => inputs = <<>>
  /\ phase' = "draining"
  /\ \E done \in SUBSET (UnderWay \cap Submitters) : SavesOf(done)
  /\ sub' = [p \in Submitters |-> Idle]
  /\ sent' = [x \in Savers |-> IF x \in Submitters THEN None ELSE sent[x]]
  /\ UNCHANGED <<session, memory, execution, graph, bounds>>

\* Mutation: run() does not wait for the agent.
AgentWaitedForNot == TRUE

AgentWaitedFor == agent = "none"

\* The agent has ended and the worker is cancelled: it ends where it waits for a turn, a place in
\* the queue of text or a statement, but execute passes over a cancellation that reaches it while
\* it waits for one of its two tasks.
Reap ==
  /\ phase = "draining" /\ AgentWaitedFor
  /\ phase' = "reaping"
  /\ \/ /\ worker \in {"agent", "tts"}
        /\ halt' = IF worker = "tts" /\ Speaking THEN halt \cup {"tts"} ELSE halt
        /\ UNCHANGED <<worker, text, stored, sent>>
     \/ /\ worker = "save"
        /\ worker' = "none"
        /\ StoreOrNot("worker")
        /\ UNCHANGED <<text, halt>>
     \/ /\ worker \in {"none", "get", "agent"}
        /\ worker' = "none"
        /\ text' = IF worker = "agent" /\ Len(text) < TextLimit THEN Append(text, "end") ELSE text
        /\ UNCHANGED <<halt, stored, sent>>
  /\ UNCHANGED <<session, sub, memory, current, agent, tts, graph, bounds>>

\* Nothing of the connection's memory outlives it.
Forget ==
  /\ phase' = "off"
  /\ seen' = {} /\ turn' = [i \in Inputs |-> None] /\ inputs' = <<>> /\ pending' = {}
  /\ restored' = FALSE /\ current' = None /\ text' = <<>>

\* Worker and synthesis are gone as well: every turn and the session are saved for the last time.
Leaving == phase = "reaping" /\ worker = "none" /\ ~Speaking

Leave ==
  /\ Leaving
  /\ stored' = [i \in Inputs |-> IF turn[i] # None THEN turn[i] ELSE stored[i]]
  /\ session' \in {"closed", "disconnected"}
  /\ Forget
  /\ tts' = "none"
  /\ UNCHANGED <<sub, sent, worker, agent, halt, graph, bounds>>

\* DELETE of a session that is not connected.
CloseSession ==
  /\ phase = "off" /\ session # "closed"
  /\ session' = "closed"
  /\ UNCHANGED <<phase, sub, stored, sent, memory, execution, graph, bounds>>

\* The process dies; PostgreSQL releases its advisory locks.  A crash while run() saves its turns
\* comes before or after all of them.
Crash ==
  /\ phase # "off" /\ MayCrash
  /\ \E done \in SUBSET UnderWay : SavesOf(done)
  /\ sub' = [p \in Submitters |-> Idle] /\ sent' = [x \in Savers |-> None]
  /\ Forget
  /\ worker' = "none" /\ agent' = "none" /\ tts' = "none" /\ halt' = {}
  /\ open' \in IF agent = "graph" THEN {open, 0} ELSE {open}
  /\ UNCHANGED <<session, raised, runs, streaming, connections>>

-----------------------------------------------------------------------------
(* The other entries to the thread: a chat run, under the same guard, resumes what waits for an *)
(* approval and may stop for another one.                                                       *)

\* Mutation: chat runs do not take the guard of the thread.
ChatRunAnyway ==
  /\ \/ open # 0 /\ open' = 0 /\ UNCHANGED raised
     \/ raised < MaxInterrupts /\ raised' = raised + 1 /\ open' = raised + 1
  /\ UNCHANGED <<session, phase, sub, stored, sent, memory, execution, runs, bounds>>

ChatRun ==
  /\ ~InThread
  /\ \/ open # 0 /\ open' = 0 /\ UNCHANGED raised
     \/ raised < MaxInterrupts /\ raised' = raised + 1 /\ open' = raised + 1
  /\ UNCHANGED <<session, phase, sub, stored, sent, memory, execution, runs, bounds>>

-----------------------------------------------------------------------------
SubmitStep(p) == Send(p) \/ HasInput(p) \/ SaveCancelled(p) \/ SaveNew(p)
Execute == Take \/ AgentEnded \/ TtsEnded \/ Send("worker") \/ SaveExecuted
Generate == StartAgent \/ CheckThread \/ RunGraph \/ Say \/ Interrupt \/ EndGraph \/ FinalText \/ FailAgent
              \/ HaltAgent \/ Send("agent") \/ SaveGenerated
Speak == Hear \/ FailTts \/ HaltTts
Teardown == Drain \/ Reap \/ Leave

Next ==
  \/ \E p \in Submitters, i \in Inputs, r \in 0..raised : Submit(p, i, r)
  \/ \E p \in Submitters : SubmitStep(p)
  \/ \E t \in Inputs : ClientCancel(t) \/ Playback(t)
  \/ SaveTurn \/ Execute \/ Generate \/ Speak
  \/ Connect \/ Restore \/ End \/ Teardown \/ CloseSession \/ Crash
  \/ ChatRun

Spec == Init /\ [][Next]_vars

\* The event loop resumes every task that can go on; statements return, the agent answers or
\* times out, and so does the synthesis.  Nothing makes a client, a chat or a crash act.
Fairness ==
  /\ WF_vars(Execute) /\ WF_vars(Generate) /\ WF_vars(Speak) /\ WF_vars(Teardown)
  /\ WF_vars(FailAgent)
  /\ \A p \in Submitters : WF_vars(SubmitStep(p))
  /\ WF_vars(SaveTurn)

FairSpec == Spec /\ Fairness

-----------------------------------------------------------------------------
(* Correctness. *)

\* The graph is run at most once for an input, whatever the client sends again after a reconnect,
\* whichever task dies and wherever the process crashes (the input is stored before it is queued).
ExecutedOnce == \A i \in Inputs : runs[i] <= 1

\* The graph is run with an approval only while it waits for that very one, and with an ordinary
\* input only while it waits for none: what generate has read in the checkpoint is still so when
\* it runs the graph, although approvals are answered, dropped by a full queue, restored and
\* resolved by chat runs while inputs are on their way (voice_connection.py:630).
ApprovalRespected ==
  [][\A i \in Inputs : runs'[i] # runs[i] => turn[i].resume = open]_vars

\* When a session can be connected again, nothing of its last connection runs or saves any more.
QuietWhenOff ==
  phase = "off" => /\ worker = "none" /\ agent = "none" /\ ~Speaking
                   /\ \A p \in Submitters : sub[p] = Idle
                   /\ \A x \in Savers : sent[x] = None

\* What is known of a turn: what the connection has in memory, and the table once it has gone.
Record(i) == IF turn[i] # None THEN turn[i] ELSE stored[i]

\* A turn that was interrupted never gets an outcome as if it had been answered, though execute may
\* be about to record one and a save sent before the cancellation be stored after it: the table
\* says so when the connection has ended, and nothing is stored behind its last word.  A crash
\* may leave the older save.
CancelledStaysCancelled ==
  [][\/ \A i \in Inputs : Record(i) # None /\ Record(i).interrupted =>
          /\ Record(i)' # None
          /\ Record(i)'.interrupted /\ Record(i)'.status \in {"cancelled", "running"}
     \/ Crash]_vars

\* An answer that was completed and heard to its end is never taken for interrupted or unheard, by a
\* new input, a cancellation, the end of the connection or a save sent before: the next run would
\* be told that the user has not heard it.  A crash may leave the older save.
HeardIsFinal ==
  [][\/ \A i \in Inputs :
          Record(i) # None /\ Record(i).sound = "heard" /\ Record(i).status = "completed"
            => Record(i)' = Record(i)
     \/ Crash]_vars

\* x has a save of turn i before it, or something that ends with one.
SaveToCome(x, i) ==
  CASE x = "worker" -> current = i /\ worker \in {"agent", "tts", "save"}
    [] x = "agent" -> current = i /\ agent # "none"
    [] OTHER -> sub[x].turn = i

\* When all saves of an interrupted turn have been stored, the table says that it was interrupted:
\* the run of the next turn is then told what the user has not heard (agent_runner.py:66).  The code
\* breaks this: the save of execute may be overtaken by that of cancel_response.
InterruptionRecorded ==
  phase = "up" => \A i \in Known :
    turn[i].interrupted /\ (\A x \in Savers : ~SaveToCome(x, i)) => stored[i].interrupted

\* What the end of a connection leaves in the table is over: delivery_context passes over turns
\* whose execution is still running.  The code breaks this: an agent cancelled before its first
\* step never runs its finally, and a turn taken while run() stops is set to running again.
NoTurnLeftRunning ==
  phase = "off" => \A i \in Inputs :
    stored[i] # None => stored[i].status # "running" /\ stored[i].execution # "running"

\* Nothing hangs: whatever goes on, the worker comes back for the next turn, or the connection is
\* over and frees its session.  Neither a synthesis that fails while the agent fills its queue, nor
\* a cancellation of either task, nor an end in the midst of them leaves somebody waiting.
Resting == phase = "off" \/ (phase = "up" /\ worker = "get")

ComesToRest == ~Resting ~> Resting

=============================================================================
