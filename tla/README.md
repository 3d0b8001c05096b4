# Formal models of the agent service

This directory keeps TLA+ models of the agent service of this repository, the TLC configurations
that check them on small instances, and theorems that the TLA+ proof system (TLAPS) proves for every
instance. Everything is translated from the code under `src/app`; line numbers of each definition
are in `PROJECT.json` under `map`, the hazards the properties are for under `hazards`.

    tlc -workers 2 -config MCVideoTasks.cfg MCVideoTasks.tla      # one run
    tlapm VideoTasks_proofs.tla                                    # the proofs of one module

## 1. The system and its parts

The service is a FastAPI application (`src/app`) with LangGraph agents. PostgreSQL holds the
checkpoints of the agents, the tables of users, files, video tasks, voice sessions and turns, the
memories, and gives advisory locks; Redis holds verification codes and the email skill's records.
External services make videos, store objects, send mail, embed memories and recognise and
synthesise speech. Several server processes may run.

| part | state | operations | interacts with |
|---|---|---|---|
| video tasks (`services/video/service.py`, `repositories/video.py`) | rows of `video_generation_tasks`: generation status, storage status, task id, URLs, title, cover, next poll | create, edit, query, update_metadata, delete, list; `sync_once` and `run` in the background | provider and storage over HTTP; advisory locks `video-task:<id>`, `video-scheduler`, `video-worker` |
| video dialogue (`services/skills/video.py`, `video_chat.py`) | draft of a thread, with an expiry | describe, cancel, submit, list | video tasks, checkpoint |
| voice connection (`api/voice_connection.py`) | per connection: turns, input queue, pending approvals, current turn and its agent and synthesis tasks; in PostgreSQL: `voice_turns` | text, speech, approval, cancel, playback reports, wake word, close; execute, generate, speak; teardown | agent graph under `thread_guard`, speech provider, client |
| voice sessions (`api/voice.py`, `repositories/voice.py`) | `voice_sessions`, the lock of a session, each process's table of connections | create, connect, close, read | voice connection, thread ownership |
| email skill (`services/skills/email.py`) | Redis: a record per request, a daily counter, a queue of due messages | send, schedule, deliver, scheduler loop | mail server, users |
| email dialogue (`agents/email_commands.py`) | draft of one thread | preview, confirm, cancel, schedule | email skill |
| verification codes, email login (`services/email_auth.py`, `repositories/verification_codes.py`, `users.py`) | Redis: code with its wrong guesses, sends; table of users | request a code, verify it, find or make the account | mail server |
| memory service (`services/memory/mem0_service.py`, `repositories/mem0_history.py`) | vector rows, history rows, lock per user; per process a queue and one worker thread | remember, update, delete, delete all, confirmed mutations; reads | memory dialogue, chat turn, routes |
| memory dialogue (`agents/memory_commands.py`) | pending command, listed memories and last target of a thread | list, select, preview, confirm, cancel | memory service |
| chat turn (`agents/mem0_chat.py`) | checkpoint of the thread | hand a message to a dialogue or to the model, remember it | all dialogues |
| threads and runs (`services/auth.py`, `threads.py`, `chat.py`, `chat_records.py`, `api/chats.py`, `api/agui.py`) | `app_thread_owners`, checkpoints, lock `thread:<id>` | authorise, invoke, stream, lists of threads and days | agent graph |
| files and avatars (`services/files.py`, `services/users.py`) | table of files, objects in the bucket, avatar of a user | upload, set avatar | object storage |
| lifecycle (`lifecycle.py`, `core/database.py`, `core/nacos.py`) | what is open and what runs; the settings; the registration | load the configuration, start and stop in order, register, deregister | everything |
| realtime speech client (`services/voice/providers`) | one WebSocket task | start, push text, receive, finish | voice connection |

**What is hard**: the same row is worked on by requests and workers of several processes under a
lock that is only ever tried; an external call may have taken effect although it failed; a
connection's tasks cancel one another at any await; a queue between two tasks is bounded and either
may be gone; what was read before an await is written after it; what the user is shown in one turn is
acted upon in another; a process may die between a call and its record.

**What makes each part correct**: a video task is submitted to the provider at most once, its row
is changed only under its lock, nothing established is taken back, a row reported as stored is
complete, and no submission stays open; one input makes at most one video, and no requirement is used
twice. A voice input is executed at most once, an approval answers only what the agent waits for,
records say what was cancelled and what was heard, a connection always comes to rest and leaves
nothing running; a session has one connection, and a closed one stays closed. An email is sent at most
once and not before its time. A login uses up a code of its own. A confirmed memory command changes
only what was shown, and all of it or nothing. A thread belongs to one user, loses no message, and its
lists show everything once. Rows name objects that exist. Nothing works on a store that is closed.

## 2. The modules

| module | models | about |
|---|---|---|
| `AtMostOnce` | – | abstract specification: jobs which are fired at most once and whose outcome is learned, or stays in doubt, but never changes once final |
| `VideoTasks` | video tasks | implements `AtMostOnce` (`KeepsPromise`) |
| `VideoDialogue` | video dialogue of a thread | reserves the tasks `VideoTasks` goes on with |
| `VoiceTurns` | turns of one voice session over its connections | |
| `VoiceSessions` | the sessions of a user in several processes | the frame around `VoiceTurns` |
| `EmailSkill` | `send`, the Redis scripts, the scheduler of every process | |
| `EmailDialogue` | email dialogue of a chat | extends `EmailSkill`: a chat is one of its callers |
| `EmailLogin` | codes and login of one address | |
| `MemoryService` | memories of one user, the worker of every process | |
| `MemoryDialogue` | memory dialogue of a chat | extends `MemoryService`: a chat is one of its callers |
| `ChatThreads` | ownership, runs and lists of threads | |
| `Uploads` | files and avatars | |
| `Lifecycle`, `RemoteSettings` | start and shutdown; a configuration document | |
| `Nothing` | – | `None`, shared by the modules that `MCServices` puts side by side |
| `MCVideoTasks`, `MCVoiceTurns`, `MCEmailSkill`, `MCEmailDialogue`, `MCMemory`, `MCServices` | – | instances, symmetry sets and functions for TLC |
| `VideoTasks_proofs`, `VideoDialogue_proofs`, `VoiceTurns_proofs`, `VoiceSessions_proofs`, `EmailSkill_proofs`, `MemoryDialogue_proofs`, `ChatThreads_proofs`, `Accounts_proofs` | – | theorems; `EmailSkill_proofs` is about `EmailDialogue` too, `MemoryDialogue_proofs` about `MemoryService`, `Accounts_proofs` about `EmailLogin`, `Uploads`, `Lifecycle` and `RemoteSettings` |

The variables `base`, `dead`, `told`, `issue`, `leaked`, `mails`, `promised`, `wanted` remember what happened;
properties read them and no condition of the code's actions does.

### VideoTasks

The state is the table (`row`, and `due`, `before` for the order of `next_poll_time`), the advisory
locks (`lock`, `leader`, `scheduler`), and for every process its program counter `pc`, the row it
works on (`rec`), its copy of it (`loc`), the request's body (`arg`) and, for a worker, the rest of
its batch (`todo`). One action is one statement on the database or one call of the provider or the
storage: the code computes between two awaits without being interrupted, so what `_refresh` and
`_complete_assets` compute is given by operators on records (`Refresh`, `CompleteAssets`,
`AfterArchive`) which return the new copy and the next await.

- `Create`, `Edit`, `ReserveNew`, `ReserveTaken`, `TryLock`, `SubmitTask`, `Save`: `_submit`.
- `Query`, `TryLock`, `Load`, `QueryTask`, `ArchiveVideo`, `ArchiveCover`, `Save`: `query`; workers
  enter at `Load` from `TakeNext`.
- `UpdateMetadata`, `ReadMetadata`, `WriteMetadata`; `Delete`, `DeleteRow`.
- `Lead`, `StartSync`, `SelectDue`, `TakeNext`, `EndSync`: `run` and `sync_once`.
- `Elapse`: five minutes pass for a row. `Die`, `Restart`: an operation or a worker's process dies.

Abstractions: a URL or object key is present or absent; a task id is the ordinal of the call that
returned it; `error_code` is left out since no condition reads it; a key stands for a user together
with one of the user's keys; the unlocking of a row is one step with the operation's last statement,
the first SELECT of `query` one step with the request's arrival, and the second SELECT of `reserve`
one step with its INSERT (it only chooses the answer). Time is an order of the rows: a row saved is
due after every row saved before. A lock is lost only together with its operation; that a guard's
connection fails while the operation goes on is not modelled.

The provider and the storage are external: a submission comes back with one of the `Responses` of
`HappyHorseClient._request`, of which the `Uncertain` ones leave open whether the task exists; a task
moves from PENDING through RUNNING to an end and may be forgotten (UNKNOWN) after a day (`Answers`);
archiving succeeds or fails.

### VideoDialogue

`saved` is the dialogue in the thread's checkpoint, `draft` the one the turn works on, `turnOf` and
`step` say which input is answered and how far. `Load`: the model calls the skill (and a client may
deliver an input again whose turn broke). `Describe`, `Ready`, `Cancel`, `Show`, `Decline`: the
understood operation (`execute_video_skill`); `Reserve`, `Reject`: `VideoService.create` or `edit` under
the key made of the input; `SaveTurn` writes the checkpoint, `Cut` does not; `Expire`: ten minutes.

The language model may understand any operation. A requirement is known by the input that gave it, so
a draft says for each field which input that was; the field "prompt" stands for whatever a task cannot
do without. Which video an edit is about is left out. What happens to a reserved task is `VideoTasks`.

### VoiceTurns

One session over several connections. The state is the connection's memory (`seen`, `turn`, `inputs`,
`pending`, `restored`), where its tasks stand (`sub` for receiver and recognize, `worker`, `agent`,
`tts`, `text` for the queue between the last two, `halt` for cancellations not yet noticed), the
phase of `run()`, the table (`stored`, `session`) with the turns on their way to it (`sent`), and the
checkpoint (`open`: the approval it waits for). One action goes from one await that suspends to the next.

- `Submit`, `HasInput`, `SaveCancelled`, `SaveNew`: `submit` with the `cancel_response` it calls.
- `ClientCancel`, `Playback`, `SaveTurn`: the receiver's other events.
- `Take`, `AgentEnded`, `TtsEnded`, `SaveExecuted`: `worker` and `execute`.
- `Send`, `Store`: `save_turn`. A task that saves gets a connection of the pool and sends the turn as it is
  then; `SaveCancelled`, `SaveTurn`, `SaveExecuted` and `SaveGenerated` are its answer, with which what was
  sent is stored. Each task has a connection of its own, so saves of one turn are stored in any order.
- `StartAgent`, `CheckThread`, `RunGraph`, `Say`, `Interrupt`, `EndGraph`, `FinalText`, `FailAgent`, `HaltAgent`,
  `SaveGenerated`: `generate`, which asks the checkpoint what it waits for some awaits before it runs the
  graph. `Hear`, `FailTts`, `HaltTts`: `speak`.
- `Connect`, `Restore`, `End`, `Drain`, `Reap`, `Leave`: `run`. `CloseSession`: the DELETE handler.
- `Crash`: the process dies. `ChatRun`: a chat request runs the same thread under `thread_guard`.

Statements that are under way when their tasks are cancelled or the process dies may have committed
(`StoreOrNot`, `UnderWay`, `SavesOf`).

Abstractions: an input makes at most one turn and names it; text is a number of chunks; a turn's
segments are only "none", "some not heard to the end" or "all heard"; `audio_status` is kept only
where an outcome reads it (`tts = "failed"`); `invalid` is exactly the set of interrupted turns.
The save of a new turn, which nobody else knows yet, is one step; `restore_approvals` reads and assigns
in one step, and the outgoing queue is never full. Speech hints, metrics, latencies and audio input are left
out; the wake word is in `VoiceSessions`. LangGraph is external: a run may stop for an approval, and one
that is cut off may or may not have answered the approval it was resumed with.

### VoiceSessions

`record` is the row of each session, written as a whole; `locked` the advisory lock `voice-session`;
`known` the `voice_connections` of each process; `conn` and `deletion` say for each websocket and each
DELETE where it stands, with the copy of the record it read.

- `CreateSession`; `CloseSession`, `StopConnection` or `LockToClose` and `SaveClosed`: the routes.
- `Arrive`, `Register` or `TurnAway`: `voice_websocket` before and after it has the lock.
- `Configure`, `AcceptWake`, `RejectWake`, `SavedWake`, `GoDown`, `Decide`, `LastSave`, `Unlock`,
  `Unregister`: every place of `run()` and its tasks which changes the session's record or the registry.
- `ServerDies`: PostgreSQL frees the locks of the process.

Two saves of one connection may be under way, by recognize and by the timer. What happens between
`Configure` and `GoDown` is `VoiceTurns`.

### EmailSkill

The state is Redis (`record`, `quota`, `payload`, `queue`, each key with its value and expiry), the
calls of `send()` being served (`call`) and the scheduler of each process (`job`). One action is one
Lua script, which Redis runs atomically, one look-up of the user, or one call of the mail server.

- `Request`, `FindUser`, then `TooLate`, `Blocked`, `Reserve` or `Schedule`, then `Deliver` and
  `Complete`: `send` and `_deliver`.
- `Peek`, `FindRecipient`, `Claim` or `LoseClaim`, `DeliverDue`, `CompleteDue`: `process_due`.
- `Abandon`, `StopIteration`: the request is cancelled, its process stops, Redis or the database fails.
  A script whose answer is lost has run (`Reserve`, `Schedule`, `Claim`); a mail server that fails may
  have taken the message. `Tick`: the clock, and what expires with it.

`mails` and `promised` record what the mail server was given and for when a request is booked; no
condition of the code's actions reads them.

Abstractions: a digest stands for its user and request id, a payload for the time it carries, so a
request repeated with the same time has the same payload, as it has in the code when the content is
the same. Time is ticks, `Day` of which are 24 hours; the TTL of a booking is exactly a day after its
time (the code rounds it up to a second). No tick passes between the script that reserves or claims
and the end of the delivery, which takes seconds: a delivery that hangs for a day is not modelled. The
batches of ten and the second of sleep between two of them do not restrict what may happen next and
are left out. A user's id that is not a number is a user who is not found.

### EmailDialogue

`draft` is the checkpoint, `turn` where a turn stands; `wanted` and `turn.want` remember what the user
asked for and are read by properties only. `Hear` starts a turn, `Drop` covers every answer that keeps
no draft and sends nothing, `Collect` keeps a draft, `Send` calls `send()`, whose steps are those of
`EmailSkill` (`Sending`), and `Interrupt` stops a turn with its checkpoint unwritten. The language
model is external: it may answer every `EmailIntent` that validates, with `timing`, `send_at` and
`clear_send_at` in any combination, `_INTENT_RULES` or not. A wish is `marked` when the model said that
there is a time (`timing`), or the time was refused; the code keeps those, and `TimeNotDropped` is about
them. Subject and body are together complete or not. The user's id never changes within a thread.

### EmailLogin

One address. `sent` and `code` are the two keys of Redis with the ticks they have left, `users` the
accounts of the address, `ask` and `login` where each request stands. `RequestCode`, `SendCode`,
`Discard`: `request_code`, with the script that reserves a code and the one that takes it back;
`Consume`, `Guess`: the script of `verify`; `LookUpUser`, `InsertUser`: `create_or_get`; `Drop`, `DropAsk`:
the process stops or a store fails between two of them; `LoginTick`: time. A code stands for its
digest; what is asked too often, or verified without a code, changes nothing and is left out.

### MemoryService

The memories of one user. `store` says what each vector row holds and when it was changed, `history`
whether its history rows name their owner; `lock` is the user's advisory lock, `pending` the futures of
each process, `work` where its worker thread stands, `call` what each caller knows.

- `Call`, `GiveUp`, `Leave`: `_call`; a caller that gives up leaves its operation with the worker.
- `TakeLock`: `_run_scoped`; under the lock the operation looks at the rows and decides (`Plans`) which
  statements it runs and what it answers. `Execute`: one statement, which commits. `Return`: the lock
  and the place in the queue are given back.
- `Fault`: a statement fails or the wait for the lock times out. `Crash`: the process dies.
- `Routes`: the operations of `api/memories.py`, and `remember` of a chat turn.

Abstractions: times order changes and nothing else; `remember` adds at most one memory, or none; the
order in which `delete_all` meets the rows is any; reads change nothing and are made by
`MemoryDialogue` in one step. The rows of chat contexts are left out. `Foreign` are memories of another
user, which no operation finds.

### MemoryDialogue

`dlg` is the dialogue in the checkpoint: the pending command with its stage and preview, the memories
listed last, the one talked about last; `turn` is a turn that waits. `List`, `LookAt`, `DeleteMany` with
`Gather`, `DeleteEverything`, `One` (a change, deletion or history, with a choice if several are meant):
new commands. `SelectChoice`, `Confirm`, `Timeout`, `EndConfirm`, `Forget`: what is said while a command
is pending. `Interrupt`: the run is cancelled and the checkpoint keeps the dialogue of the turn before.

The language model may understand any command and search may find any memories of the user; a list
has two places. A turn that calls the service once is one step, since nobody else sees the dialogue
meanwhile. The pending command's five minutes end in `Forget`.

### ChatThreads

`owners` is `app_thread_owners`, `rows` the log of the threads' checkpoints, oldest first, `heads` that of
the first checkpoints of threads and of the namespaces of their subgraphs, `holder` the guard of each
thread, `run` where a run stands and what it has read. `RequestRun`; `Authorize` (a known owner
decides, otherwise the last checkpoint's user is to be claimed), `Claim`, `EnterThread` (`invoke` takes the
guard first, `stream` and AG-UI prove the ownership first), `StartRun` (reads the thread), `CallSubgraph`,
`EndRun` (writes it back), `BreakRun`; `Midnight`. `ThreadList` and `DayDetail` are the two lists computed from
the logs, with the paging of `_list_thread_heads` (`Scanned`: rows are counted as they are read, threads
once), the order of the latest checkpoints (`ByUpdate`) and the difference of two checkpoints
(`MessagesAdded`). Both are written with sets of places in the log.

A run writes two checkpoints and says one message. Of a subgraph only the first checkpoint is kept: the
others are read by neither list. Runs that stop on an approval are in `VoiceTurns`.
`Trusted` says whether callers may hold the service's secret, with which any user can be named.

### Uploads

`objects` and `late` are the store, `files` and `avatar` what rows name, `upload` where each one stands.
`PutObject`, `FailPut` (the store may have, or get, the object all the same: `LatePut`), `WriteRow`, `LoseRow`
(a statement whose answer is lost may be committed), `RefuseRow`, `DeleteObject`, `StopUpload`. Keys are
fresh. Checks of the content, and changes of the nickname alone, are left out. `AvatarExists`
says of avatars that only the request's own error can take the object away (`LoseRow`: the UPDATE was
committed, its answer lost, and the object is deleted); no run checks it, the theorem `AvatarIsThere` does.

### Lifecycle and RemoteSettings

`Lifecycle`: `entered` counts the stages of `lifespan` that are open, `opened` the pools and clients,
`running` the tasks beside the requests (the email scheduler, the video worker, a call of Mem0 that
outlives its caller, a voice connection). `EnterStage`, `FailStage`, `RegisterService`, `FailToRegister`,
`StopServing`, `Deregister`, `CloseStage` follow the code; each stage may fail half open, and closing may
fail. `RemoteSettings` evaluates `apply_remote_settings` on every document of up to three entries beside
the required ones, over one setting of each kind: flat, nested, under `mail` or `spring.mail`, the three
switches of the encryption, a bootstrap field and a required field.

### MCServices

The seven modules above that share no state are checked in one run: `part` is chosen in the beginning
and stays, and the other parts rest in an initial state, so that the state space is the sum and not the
product of the seven. `MCServices` extends the modules, so that TLC evaluates their assumptions too.

## 3. The runs

| run | bounds | states | shows |
|---|---|---|---|
| `video_tasks` | 2 rows (1 may be of the earlier release), 2 clients, 1 worker, 3 requests, 1 failure, batch 1 | 1.1 million | `TypeOK`, `LockHeld`, `SubmittedOnce`, `StoredReady`, `NothingTakenBack`, `UserCoverKept`, `KeepsPromise` |
| `video_live` | 2 rows of 2 keys, 1 client, 2 workers, 2 requests, 2 failures, batch 1 | 0.56 million | `SubmissionSettles` |
| `video_title` | 2 titles, no failure | – | `UserTitleKept` is violated |
| `video_replay` | no failure | – | `ReplayCreatesNoTask` is violated |
| `voice_turns` | 2 inputs, queues of 1; either both submitters, an agent that streams, 2 connections and a crash, or one approval and an agent that does not | 2.6 million | `TypeOK`, `ExecutedOnce`, `QuietWhenOff`, `CancelledStaysCancelled`, `HeardIsFinal`, `ApprovalRespected` |
| `voice_live` | 2 inputs, receiver only, 1 connection | 0.37 million | `ComesToRest` |
| `voice_left` | 1 input, 1 connection | – | `NoTurnLeftRunning` is violated |
| `email_skill` | 2 requests of 1 user, limit 1, 1 caller, 2 schedulers, a day of 2 ticks, 4 ticks, 1 failure | 0.2 million | `TypeOK`, `NoSecondMail`, `BookingWhole`, `SentIsTrue`, `KeepsItsTime`, `DueIsTaken` |
| `email_dialogue` | 3 messages in 1 chat, limit 2, 1 scheduler, drafts of 2 ticks, 5 ticks, 1 failure | 0.93 million | `ChargedOnce`, `TimeNotDropped` |
| `email_unclear` | 3 messages, 4 ticks, no failure | – | `BooksWhatWasAsked` is violated |
| `memory` | 2 processes that accept 1 operation each, 2 changes, 2 memories, 2 texts, 1 failure, 2 commands | 1.16 million | `WholeOrRefused`, `HistoryKeepsOwner`, `NeverStuck`, `OnlyAsShown` |
| `services` | seven parts, see below | 1.7 million | `ThreadUserFixed`, `HistoryGrows`, `NewestListed`, `DaysMakeTheThread`; `OneVideoPerInput`, `NothingStale`; `OneConnection`, `ToldClosedStaysClosed`; `LoginsPaid`, `NewestCodeWorks`; `FilesExist`; `WorksOnOpenStores`; `OneValuePerSetting` |

Why the bounds are enough.

- `VideoTasks`: two rows let one be the source of an edit or compete for a batch of one with the other;
  three requests and a worker let a creator, a second request on the row and the worker meet, and a
  third request follow on what they left; one failure removes any of them at any step. In `video_live` both
  rows may be live, so that a batch of one always leaves one of them out, and both the creator of a row and
  the leader may die. TLC's symmetry is not sound for liveness; the action constraint `NamedInOrder` only
  fixes which row, key and first leader a behaviour calls by which name. No fair step is lost by it: users
  need not ask, and whenever the second row could be inserted, or the second worker lead for the first
  time, the first one could be as well.
- `VoiceTurns`: queues of one are full as soon as one input or chunk waits, so both submitters meet at a
  full queue with two inputs. Two connections and crashes make every input arrive again after every
  prefix of its first life. The run puts two instances together with an action constraint (`Kept`): where
  the agent streams, no approval is asked for, the second connection follows a first that left an input
  unsaved, and on it the client only sends inputs; where it does not stream, the approval has one
  connection, on which only inputs and approvals are sent. While speech is submitted, the receiver does
  nothing but submit the other input. Every save may be overtaken by every other in both.
- `EmailSkill`: with a day of two ticks a booking can be early, due, and gone; four ticks let a record of
  the first half expire and the request be booked again. Two schedulers race for each claim with the
  caller, and a limit of one is reached by the first request and lifted by the expiry of its counter.
  Three messages make a draft, change it and complete it.
- `memory`: two processes compete for the lock with one change each, and one command can be shown while
  the other change is under way, before it and after it; a second command replaces the first one. Two
  memories are what "several", "all" and a choice need. A queue of one is full with one operation.
- `services`: two runs of two users on two threads race for one thread or overlap on it, over three days
  of which two are recent; the list is cut at every one of its limits (pages of 1, two heads, three rows,
  one thread asked for), the rows by up to four first checkpoints of two threads and their subgraphs. Two
  inputs, each delivered twice, of two fields: one draft is used and the next begun. Two connections and one closing of one session in two processes that may die. Two requests, two
  logins, two codes, with two guesses and two ticks. Two files and two avatars. Every set of optional
  services. Every document of up to three entries beside the required one, which is as many as the
  ways in which one setting can be given twice and the third entry that connects them.

Deadlock checking is off where the system really stops: voice sessions are closed or the bound of
connections is used up, the chat of `email_dialogue` ends with its last message, `memory` with its last
change and command, and the parts of `services` with their last request, or because the process is over.

**Fairness.** `VideoTasks!Fairness` is weak fairness of each process's steps and of the passing of
time: asyncio resumes every coroutine that can go on, HTTP calls and statements end or time out.
No client need ask, and nothing need fail. A worker that restarts too often is bounded by
`MaxFailures`. `VoiceTurns!Fairness` is weak fairness of the tasks of the connection; `FailAgent` has
its own because the agent runs under `asyncio.timeout(180)`, so that an agent which talks for ever is
cut off. Clients, chats, crashes and the end of the connection are never assumed to happen.
`EmailSkill!Fairness` is weak fairness of each scheduler: `run_scheduler` catches every exception and
goes on after a second, and what it awaits ends or times out. No clock is assumed to go on and no
request to arrive. Failures are bounded by `MaxFailures`, so that the queue's head is tried again.
The memory service states progress without fairness: `NeverStuck` says that whenever an operation was
accepted, some worker can go on.

## 4. The disagreements

- `video_title`: `_submit` saves the whole record it read before it had the row's lock; a title set
  by the user between the INSERT and the lock is overwritten. The column's comment gives the user's
  title precedence.
- `video_replay`: the idempotency key is unique only among rows that are not deleted; the skill's
  documentation says a replayed input creates no second task.
- `voice_left`: `run()` repairs `execution_status` only where it is "queued"; a turn that was just
  taken keeps "running" when its agent task is cancelled before its first step.
- `email_unclear`: a draft's time that the user has just replaced by one the model cannot resolve is
  put back, and the message is booked for it; the skill's documentation has the time asked for.

Three more are not among the runs of `PROJECT.json`, but have a configuration each with which TLC shows
them; the hazards refer to them.

- `MCVoiceOvertaken.cfg` of `MCVoiceTurns` (`InterruptionRecorded`): a turn that `execute` has sent to the table
  is cancelled, and the save of the cancellation is stored first: until the connection ends, the table says
  that the turn was answered, and the run of the next input is not told what the user has not heard
  (`delivery_context`), as `tests/voice/test_realtime_service.py:1240` has it.
- `MCEmailUnmarked.cfg` of `MCEmailDialogue` (`GivenTimeKept`): a draft keeps a time that the model gave
  without setting `timing`, but the next turn does not put it back and sends the message at once; the skill's
  documentation (`SKILL.md:27`) has it kept.
- `MCLoginReplaced.cfg` of `MCServices` (`AcceptedCodeLasts`): asking for a code replaces the one mailed before.
  When the new one cannot be mailed it is taken back, and the first is dead although its mail
  (`email_auth.py:64`) and its answer (`schemas/auth.py:32`) promised three minutes.

## 5. The proofs

Every theorem is about the specification of its module for every value of the constants; it needs the
named assumptions of that module only (`...ConstantsOK`, and that `None` is none of the values it stands
beside: `NoneIsNothing`, `NoneIsNoCode`, ...), which TLC evaluates in the runs. Two theorems have a hypothesis
of their own, `TRUE \notin Trusted`, stated below. Every strengthening was checked by TLC as an invariant of the run of its
component before it was proved.

**`VideoTasks_proofs`** has two invariants, one on top of the other. `InductiveInvariant` (`IInv`) gives
`TypeCorrect` (`TypeOK`), `LockDiscipline` (`LockHeld`) and `AtMostOneSubmission` (`SubmittedOnce`). That a
second call cannot happen rests on a creator being the only process whose copy of the row came from the
INSERT, on the row's lock keeping a second creator out, and on no step leading back to the call; `IInv` says
for each program counter what the process's row, copy and the number of calls are. `RecordsMakeSense`
(`RInv`) says what the records say: a record's task, objects and status agree (`Sane`), nothing is known of a
task that was not asked for (`Asked`), a copy is at each step what that step expects (`Stage`), and it may
replace the row it was read from (`Ahead`), which stays true while others work because they hold other
locks. From it follow `StoredIsReady` (`StoredReady`) and three statements about steps: `NothingIsTakenBack`
(`NothingTakenBack`), `UserCoverIsKept` (`UserCoverKept`), and `ImplementsPromise` (`KeepsPromise`): under the
mapping of `VideoTasks!Promise` every step of every process is a step of `AtMostOnce` or a stutter.

**`EmailSkill_proofs`**: `TypeCorrect`, which bounds every user's counter by `Limit`; `NeverTwice`
(`NoSecondMail`), `BookingsWhole` (`BookingWhole`), `SentTruthful` (`SentIsTrue`), and `TimeKept`
(`KeepsItsTime`, an action property). A mail of the last day must be covered by a record that outlives it
(`Covered`), whoever carries a request to the mail server holds its fresh record and has not delivered it
(`CallCarries`, `JobCarries`), and nobody else carries it (`OneCarrier`). Two lemmas, `CallerMoves` and
`SchedulerMoves`, say that a step which touches only a request its process alone carries keeps this, and
each action is shown to be such a step. `TimeKept` adds `Promise`: a booked record carries the promised
time, a claimed one was claimed in time and outlives the promise, and no call of `send()` carries a
request whose promise stands. `ChargesAreOwed` (`ChargedOnce`): a counter never exceeds the number of the
user's records that outlive it (`Account`); this is needed because records expire one by one and the counter
all at once. Then the dialogues: every step of a chat is a step of the skill or leaves the skill alone
(`DialogueIsSkill`), so `SkillHoldsInChats` carries all of these over to `DialogueSpec`; `TimeIsKept`
(`TimeNotDropped`), over every `EmailIntent`, adds that a draft for which a time was marked, or refused, is
never one to be sent at once (`Kept`).

**`VoiceTurns_proofs`**: `VoiceTypeCorrect` (`TypeOK`), `QuietBetweenConnections` (`QuietWhenOff`),
`InputsRunOnce` (`ExecutedOnce`). `Ended` says what the teardown has already ended in each phase;
`Linked`, that everybody who works on a turn works on one that exists; `Fresh`, how far an input has
come: until its graph runs it is submitted, queued or started in one place only, and from the moment it
is queued it is in the table, where a submitter of any later connection finds it. On these rests
`MemoryIsAhead`: the turns that may still change are the queue's, which nobody has taken, and the worker's,
which has no outcome yet (`Placed`), whoever has sent a turn still waits for the answer (`Answered`), and each turn in
memory follows both the table's and every one that is on its way there, in whatever order these are
stored (`Recorded`). It gives `CancelledIsFinal` (`CancelledStaysCancelled`) and `HeardStaysHeard`
(`HeardIsFinal`): they are about what the connection has in memory and the table has once it has gone,
since the last saves come when no other is on its way; `QuietBetweenConnections` says that too. What the
table says meanwhile may be older (`InterruptionRecorded`, section 4), and after a crash it may stay so, which both
properties except. `ApprovalIsRespected` (`ApprovalRespected`): between the question to the checkpoint and
the run of the graph the guard of the thread keeps chat runs out, and nobody of the connection changes the
turn or what the graph waits for (`Agreed`).
`NobodyWaitsForEver` (`SomebodyGoesOn`) is what can be proved of `ComesToRest`: while a connection is not at
rest, the guards of a next step of worker, agent, synthesis or teardown hold, failures and timeouts not
counted (TLC found them equal to ENABLED of these steps in every state of `voice_turns`). Once the worker has turned away
from the agent, the synthesis has been cancelled or the end of the text is in its queue; of a turn taken
while `run()` already stops, whose synthesis nobody has cancelled, nothing is said (`Awake`), because whatever
was queued by then has been interrupted (`QueueIsCut`). So a worker that `run()` cancels while it waits for a
place in the queue finds one, and the end of the text is never lost.

**`VoiceSessions_proofs`**: `OneConnectionAtATime` (`OneConnection`) and `ClosedForGood`
(`ToldClosedStaysClosed`). The strengthening is that the advisory lock is held by every connection from
its registration to its unlock and by every closing that is about to save (`Held`), and that no
connection is of a session that was told to be closed (`LeftAlone`). The processes' tables of
connections play no part in it.

**`VideoDialogue_proofs`**: `OneVideo` (`OneVideoPerInput`), because every key is made of the input alone
(`KeyByInput`), and `NothingStaleAsked` (`NothingStale`, an action property): what is used, cancelled or
too old belongs to turns that have ended (`Past`), and neither the draft of the checkpoint, unless it has
expired, nor the one a turn works on says any of it (`FreshSaved`, `FreshDraft`).

**`MemoryDialogue_proofs`**: `TypeCorrect` (`ServiceTypeOK`, `DialogueTypeOK`), `AppliesAsShown`
(`OnlyAsShown`, an action property), `DeletedKeepsOwner` (`HistoryKeepsOwner`). A request is in one queue
only (`Queued`), a worker with something to do holds the user's lock (`Locked`), and every row it is still
going to erase or write is as the user was shown it, or gone already (`Planned`): what was compared when
the lock was taken cannot be changed by anybody else before the last statement. `DoneOrRefused`
(`WholeOrRefused`) says how far an operation has come (`Progress`): what its remaining statements still erase
and what the rows now differ in make up what it is about, no more and no less, and an update is seen as a
change because no row is as young as the clock (`Past`). `LockComesBack` is what TLAPS can say of
`NeverStuck`: whoever has the lock is at work (`LockUsed`), and every operation has a plan (`SomePlan`), so that,
while anything is accepted, the guards of some worker's next step hold (`CanGoOn`).

**`ChatThreads_proofs`**: `ThreadUserNeverChanges` (`ThreadUserFixed`), provided that nobody holds the
service's secret (`TRUE \notin Trusted`; whoever holds it can run any thread as any user), and
`NothingIsLost` (`HistoryGrows`) without that condition. What a run is about to claim is what the thread's
checkpoints say already (`Claims`), and once it has passed the owners they name its user (`Proven`); a run
has the guard while it reads and writes the thread (`Guarding`), so that nothing is added behind what it
has read (`Reading`). `NewestAreListed` (`NewestListed`): after a row that is not read come
as many newer rows, or threads, as are read at most (`PagesReach`); the threads found have checkpoints
(`Headed`) and are put in order by the last ones, which no two share. `DaysAreTheThread`
(`DaysMakeTheThread`), again with `TRUE \notin Trusted`: checkpoints come in the order of their days
(`InOrder`) and each says what those before it said and maybe more (`Growing`), so that a day shows the
piece of the thread between what was said before it and what was said before the next one, and these
pieces join. Who holds the secret may write into another user's thread, whose days then miss rows of the
thread. That the pieces one after the other are one piece concerns a recursive function, the library's
concatenation; it is fixed by its values, by a least counterexample among natural numbers, without induction.

**`Accounts_proofs`**: `LoginsArePaid` (`LoginsPaid`): who is logged in was let in by a code that is gone
(`Paid`), and all logins found or made one account (`OneAccount`). `NewestCodesWork` (`NewestCodeWorks`):
while nothing took the code of the last request away (`Untaken`), it is the one in Redis, with no more wrong
guesses than were made and for as long as was promised (`Stored`). `FilesAreThere` (`FilesExist`): an
object is deleted only by an upload whose row was not written. `AvatarIsThere`: the same of avatars,
but for one whose own request was answered with an error, and which only that request deletes (`AvatarOver`).
`StoresStayOpen` (`WorksOnOpenStores`): a task needs nothing of a stage after its own (`Posted`), all that was entered is open
while the process starts and serves (`Whole`), and what is open belongs to a stage that is still to be closed
or failed to close (`Held`). `SettingsObey` (`OneValuePerSetting`) is about one step, the merge of a document;
its lemmas go through the places at which one setting may be given.

**Only model-checked.** Liveness (`SubmissionSettles`, `ComesToRest`, `DueIsTaken`) and `NeverStuck`, which
is about ENABLED, are out of TLAPS's reach. TLC checks these; of `ComesToRest` and `NeverStuck`,
`NobodyWaitsForEver` and `LockComesBack` prove the part that is an invariant.

## 6. Not modelled, and why

- The HTTP and WebSocket clients (video provider, object store, realtime speech, speech to text and
  text to speech), beyond what may come back from a call: I/O whose outcomes are choices of the models.
- `SpeechText` and the prefix of the wake word: functions on text. The models use whether a wake word was
  said and how many chunks a text has.
- The sender of a voice connection with its queue, audio input, metrics and speech hints; delivery
  notes of interrupted turns; feedback; the registration of run ids. A full outgoing queue can hold up
  an agent whose sender is gone, as the hazards note.
- The prompts and answers of the language models, and the order in which one turn of `mem0_chat` tries
  the three dialogues: each dialogue is modelled alone. The rows of chat contexts, and the event stream of `agent_runner` beyond the guard.
- Connections that drop under an advisory lock: PostgreSQL then frees the lock of a video row or of a user's
  memories while the operation goes on. The models lose a lock only together with its operation.
- A queue of the memory service with an operation behind a running one in the same process: `MaxPending` is
  1 in `memory`, and the second operation comes from the other process (the proofs are for any `MaxPending`).
- Of the memory dialogue, "delete everything" of a user without memories, which is carried out without a
  confirmation and finds nothing unless one was added meanwhile, when the revision it carries refuses it
  (`memory_commands.py:396`), and that the history of a single memory found by a search makes it the one
  talked about last.
- Settings other than how a document is merged, the model factory, logging: configuration without
  state that changes.
- Streamlit, the clients, scripts and deployment: outside of the service.
