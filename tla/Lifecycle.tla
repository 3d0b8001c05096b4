----------------------------- MODULE Lifecycle ------------------------------
(***************************************************************************)
(* Start and shutdown of a server process: lifespan of                     *)
(* src/app/lifecycle.py with the context managers it enters, mem0_lifespan *)
(* of src/app/services/memory/mem0_service.py, the pools of                *)
(* src/app/core/database.py, and the registration with Nacos               *)
(* (src/app/core/nacos.py).  What lives beside the requests is a task: the *)
(* email scheduler, the video worker, a call of Mem0 (its caller may have  *)
(* given up long ago) and a voice connection that the process knows.       *)
(***************************************************************************)
EXTENDS Naturals, FiniteSets, Sequences

VARIABLES
  enabled,     \* the optional stages that are configured
  phase,
  entered,     \* how many stages have been entered and not left
  opened,      \* pools and clients that are open
  running,     \* tasks that run
  registered,  \* the process knows that it is registered
  listed,      \* Nacos lists the instance
  leaked       \* history variable: what closing has failed to close or has skipped

lifecycle == <<enabled, phase, entered, opened, running, registered, listed, leaked>>

Stages == <<"saver", "store", "mem0", "email_auth", "email_skill", "voice", "video", "files">>
Optional == {"mem0", "email_auth", "email_skill", "voice", "video", "files"}

\* What a stage opens: most have one pool.
Holds == [email_auth |-> {"redis", "users"}, email_skill |-> {}, video |-> {"video", "http"}]
HeldBy(s) == IF s \in DOMAIN Holds THEN Holds[s] ELSE {s}

\* Tasks a stage starts and cancels, and those that requests start and a stage waits for.
Workers == [email_skill |-> {"scheduler"}, video |-> {"sync"}]
Awaited == [mem0 |-> {"memory"}, voice |-> {"connection"}]
WorkersOf(s) == IF s \in DOMAIN Workers THEN Workers[s] ELSE {}
AwaitedBy(s) == IF s \in DOMAIN Awaited THEN Awaited[s] ELSE {}

Needs == [scheduler |-> {"users", "redis"}, sync |-> {"video", "http"}, memory |-> {"mem0"},
          connection |-> {"voice", "saver", "store"}]

LifecycleInit ==
  /\ enabled \in SUBSET Optional
  /\ phase = "load" /\ entered = 0
  /\ opened = {} /\ running = {} /\ leaked = {}
  /\ registered = FALSE /\ listed = FALSE

-----------------------------------------------------------------------------
\* load_remote_config.
LoadConfig ==
  /\ phase = "load"
  /\ phase' \in {"start", "close"}
  /\ UNCHANGED <<enabled, entered, opened, running, registered, listed, leaked>>

EnterUnchecked ==
  LET s == Stages[entered + 1] IN
  /\ phase = "start" /\ entered < Len(Stages)
  /\ entered' = entered + 1
  /\ IF s \in Optional \ enabled THEN UNCHANGED <<opened, running>>
     ELSE opened' = opened \cup HeldBy(s) /\ running' = running \cup WorkersOf(s)
  /\ UNCHANGED <<enabled, phase, registered, listed, leaked>>

\* The next stage is entered, or is not configured.  The email skill works with the stores of the login.
EnterStage ==
  LET s == Stages[entered + 1] IN
  /\ phase = "start" /\ entered < Len(Stages)
  /\ "email_skill" \in {s} \cap enabled => "email_auth" \in enabled
  /\ entered' = entered + 1
  /\ IF s \in Optional \ enabled THEN UNCHANGED <<opened, running>>
     ELSE opened' = opened \cup HeldBy(s) /\ running' = running \cup WorkersOf(s)
  /\ UNCHANGED <<enabled, phase, registered, listed, leaked>>

\* Its settings are refused; or it is half open when something fails, and closes what it has.
FailStage ==
  LET s == Stages[entered + 1] IN
  /\ phase = "start" /\ entered < Len(Stages) /\ s \notin Optional \ enabled
  /\ phase' = "close"
  /\ \/ UNCHANGED <<entered, opened>>
     \/ \E part \in SUBSET HeldBy(s) : entered' = entered + 1 /\ opened' = opened \cup part
  /\ UNCHANGED <<enabled, running, registered, listed, leaked>>

\* register_service confirms, or the service is not to be registered.
RegisterService ==
  /\ phase = "start" /\ entered = Len(Stages)
  /\ phase' = "serve"
  /\ registered' \in BOOLEAN /\ listed' = registered'
  /\ UNCHANGED <<enabled, entered, opened, running, leaked>>

\* It fails, though Nacos may have listed the instance.
FailToRegister ==
  /\ phase = "start" /\ entered = Len(Stages)
  /\ phase' = "close"
  /\ listed' \in BOOLEAN
  /\ UNCHANGED <<enabled, entered, opened, running, registered, leaked>>

StartTask(t) ==
  /\ phase = "serve" /\ t \notin running
  /\ \E s \in enabled : t \in AwaitedBy(s)
  /\ running' = running \cup {t}
  /\ UNCHANGED <<enabled, phase, entered, opened, registered, listed, leaked>>

EndTask(t) ==
  /\ t \in running /\ t \in UNION {AwaitedBy(s) : s \in Optional}
  /\ running' = running \ {t}
  /\ UNCHANGED <<enabled, phase, entered, opened, registered, listed, leaked>>

\* uvicorn has waited for the requests, or has cancelled them after GRACEFUL_SHUTDOWN_TIMEOUT.
StopServing ==
  /\ phase = "serve" /\ phase' = "deregister"
  /\ UNCHANGED <<enabled, entered, opened, running, registered, listed, leaked>>

\* NacosIntegration.shutdown: a failure is logged and forgotten.
Deregister ==
  /\ phase = "deregister" /\ phase' = "close"
  /\ registered' = FALSE
  /\ listed' \in {FALSE, listed}
  /\ UNCHANGED <<enabled, entered, opened, running, leaked>>

\* What may remain open of a stage: what fails to close.  Where Redis does, the users' pool is skipped.
Remains(s) == IF s = "email_auth" THEN {{}, {"users"}, {"redis", "users"}} ELSE SUBSET HeldBy(s)

\* The stage entered last is left: it cancels its task, waits for those it does not own, and closes.
CloseStage ==
  LET s == Stages[entered] IN
  /\ phase = "close" /\ entered > 0
  /\ AwaitedBy(s) \cap running = {}
  /\ entered' = entered - 1
  /\ running' = running \ WorkersOf(s)
  /\ \E rest \in Remains(s) :
       opened' = opened \ (HeldBy(s) \ rest) /\ leaked' = leaked \cup (rest \cap opened)
  /\ UNCHANGED <<enabled, phase, registered, listed>>

Over ==
  /\ phase = "close" /\ entered = 0 /\ phase' = "over"
  /\ UNCHANGED <<enabled, entered, opened, running, registered, listed, leaked>>

LifecycleNext ==
  \/ LoadConfig \/ EnterStage \/ FailStage \/ RegisterService \/ FailToRegister
  \/ \E t \in DOMAIN Needs : StartTask(t) \/ EndTask(t)
  \/ StopServing \/ Deregister \/ CloseStage \/ Over

LifecycleSpec == LifecycleInit /\ [][LifecycleNext]_lifecycle

-----------------------------------------------------------------------------
(* Properties. *)

\* Wherever the start fails or the process is told to stop: no task runs without the stores it
\* works with; a process that knows it is registered has every configured stage open; and in the
\* end nothing is open but what failed to close (lifecycle.py:58, 151, 196).
WorksOnOpenStores ==
  /\ \A t \in running : Needs[t] \subseteq opened
  /\ registered => \A s \in enabled : HeldBy(s) \subseteq opened
  /\ phase = "over" => running = {} /\ opened \subseteq leaked

=============================================================================
