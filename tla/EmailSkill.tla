----------------------------- MODULE EmailSkill -----------------------------
(***************************************************************************)
(* EmailSkillService of src/app/services/skills/email.py: requests send a  *)
(* message at once or book it for a time within a day, and the scheduler   *)
(* of every server process delivers the booked ones.  They share Redis,    *)
(* whose scripts are atomic and whose keys expire: a record per request, a *)
(* counter per user, a queue of bookings and a payload for each of them.   *)
(* One step is one script, one look-up of a user or one call of the mail   *)
(* server.                                                                 *)
(*                                                                         *)
(* Time passes in ticks, Day of which are 24 hours.  A delivery takes      *)
(* seconds and no tick passes during one; looking up a user may take any   *)
(* time.  A digest stands for its user and request_id, a payload for the   *)
(* time it carries: a request has at most one payload for one time.        *)
(***************************************************************************)
EXTENDS Naturals, FiniteSets

CONSTANTS
  Requests,    \* digests of (user_id, request_id)
  Users,
  UserOf,      \* the user of each request
  Callers,     \* calls of send() being served; each serves one after another
  Schedulers,  \* run_scheduler of each server process
  None,        \* no request
  Limit,       \* bookings and messages a user has a day: 10 in the code
  Day,         \* ticks in 24 hours
  MaxTime,     \* bound on the clock
  MaxFailures  \* bound on failed calls and processes that stop

ASSUME EmailConstantsOK ==
  /\ UserOf \in [Requests -> Users]
  /\ Callers \cap Schedulers = {} /\ None \notin Requests
  /\ {Limit, Day, MaxTime} \subseteq Nat \ {0}
  /\ MaxFailures \in Nat

Instant == 0 .. MaxTime + 2 * Day         \* 0: no time given
SendTimes == 0 .. MaxTime + Day

Records == [st : {"none", "unknown", "sent", "scheduled"}, at : Instant, exp : Instant]
Payloads == [at : Instant, exp : Instant]
Calls == [pc : {"idle", "lookup", "reserve", "deliver", "complete"},
          req : Requests \cup {None}, at : SendTimes]
Jobs == [pc : {"peek", "lookup", "claim", "deliver", "complete"},
         req : Requests \cup {None}, at : Instant, known : BOOLEAN]

NoRecord == [st |-> "none", at |-> 0, exp |-> 0]
NoPayload == [at |-> 0, exp |-> 0]
NoCount == [n |-> 0, exp |-> 0]
NoMail == [n |-> 0, last |-> 0]

VARIABLES
  now,       \* the clock
  record,    \* email_skill:request:<digest>
  quota,     \* email_skill:limit:<user>
  payload,   \* email_skill:scheduled:job:<digest>
  queue,     \* email_skill:scheduled, a sorted set: the time of each member, 0 for no member
  call,      \* the calls of send()
  job,       \* the schedulers
  mails,     \* what the mail server was given in the last day: how often, and when last
  promised,  \* the time for which a request is booked, 0 for none
  failures   \* failures that may still happen

redis == <<record, quota, payload, queue>>
external == <<mails, promised>>
vars == <<now, record, quota, payload, queue, call, job, mails, promised, failures>>

TypeOK ==
  /\ now \in 1 .. MaxTime
  /\ record \in [Requests -> Records]
  /\ quota \in [Users -> [n : 0 .. Limit, exp : Instant]]
  /\ payload \in [Requests -> Payloads]
  /\ queue \in [Requests -> Instant]
  /\ call \in [Callers -> Calls]
  /\ job \in [Schedulers -> Jobs]
  /\ mails \in [Requests -> [n : Nat, last : 0 .. MaxTime]]
  /\ promised \in [Requests -> Instant]
  /\ failures \in 0 .. MaxFailures

-----------------------------------------------------------------------------
Idle == [pc |-> "idle", req |-> None, at |-> 0]
Looking == [pc |-> "peek", req |-> None, at |-> 0, known |-> FALSE]

Init ==
  /\ now = 1
  /\ record = [r \in Requests |-> NoRecord]
  /\ quota = [u \in Users |-> NoCount]
  /\ payload = [r \in Requests |-> NoPayload]
  /\ queue = [r \in Requests |-> 0]
  /\ call = [c \in Callers |-> Idle]
  /\ job = [s \in Schedulers |-> Looking]
  /\ mails = [r \in Requests |-> NoMail]
  /\ promised = [r \in Requests |-> 0]
  /\ failures = MaxFailures

Fail == failures > 0 /\ failures' = failures - 1

ValidSendAt(at) == now < at /\ at <= now + Day

\* A message is given to the mail server.
HandOver(r) == mails' = [mails EXCEPT ![r] = [n |-> @.n + 1, last |-> now]]
Settle(r) == promised' = [promised EXCEPT ![r] = 0]

SetRecord(r, st, at, exp) == record' = [record EXCEPT ![r] = [st |-> st, at |-> at, exp |-> exp]]

\* A booking is kept for a day after its time.
PayloadNotKept(at) == [at |-> at, exp |-> at]
Payload(at) == [at |-> at, exp |-> at + Day]

\* INCR, and EXPIRE with the first one.
ChargeRenews(u) == quota' = [quota EXCEPT ![u] = [n |-> @.n + 1, exp |-> now + Day]]
Charge(u) ==
  quota' = [quota EXCEPT ![u] = [n |-> @.n + 1, exp |-> IF @.n = 0 THEN now + Day ELSE @.exp]]

-----------------------------------------------------------------------------
(***************************************************************************)
(* send(): at is 0 for a message that is to go at once.                    *)
(***************************************************************************)
Goto(c, pc) == call' = [call EXCEPT ![c] = [pc |-> pc, req |-> @.req, at |-> @.at]]
Answer(c) == call' = [call EXCEPT ![c] = Idle]

Request(c, r, at) ==
  /\ call[c].pc = "idle"
  /\ at = 0 \/ ValidSendAt(at)
  /\ call' = [call EXCEPT ![c] = [pc |-> "lookup", req |-> r, at |-> at]]
  /\ UNCHANGED <<now, redis, job, external, failures>>

\* The user may be unknown or the database unavailable.
FindUser(c) ==
  /\ call[c].pc = "lookup"
  /\ Goto(c, "reserve") \/ Answer(c)
  /\ UNCHANGED <<now, redis, job, external, failures>>

\* The time is validated again, and in the same step the script is run.
InTime(c) == call[c].at = 0 \/ ValidSendAt(call[c].at)
FreeAtLimit(r) == record[r].st = "none" /\ quota[UserOf[r]].n <= Limit
FreeIfBooked(r) == record[r].st \in {"none", "scheduled"} /\ quota[UserOf[r]].n <= Limit
Free(r) == record[r].st = "none" /\ quota[UserOf[r]].n < Limit

TooLate(c) ==
  /\ call[c].pc = "reserve" /\ ~InTime(c)
  /\ Answer(c)
  /\ UNCHANGED <<now, redis, job, external, failures>>

Blocked(c) ==
  /\ call[c].pc = "reserve" /\ InTime(c) /\ ~Free(call[c].req)
  /\ Answer(c)
  /\ UNCHANGED <<now, redis, job, external, failures>>

Reserve(c) ==
  LET r == call[c].req IN
  /\ call[c].pc = "reserve" /\ call[c].at = 0 /\ Free(r)
  /\ SetRecord(r, "unknown", 0, now + Day)
  /\ Charge(UserOf[r])
  /\ promised' = [promised EXCEPT ![r] = IF @ + Day <= now THEN 0 ELSE @]
  /\ \/ Goto(c, "deliver") /\ UNCHANGED failures
     \/ Answer(c) /\ Fail                            \* Redis' answer was lost
  /\ UNCHANGED <<now, payload, queue, job, mails>>

Schedule(c) ==
  LET r == call[c].req
      at == call[c].at
  IN
  /\ call[c].pc = "reserve" /\ at # 0 /\ InTime(c) /\ Free(r)
  /\ SetRecord(r, "scheduled", at, at + Day)
  /\ payload' = [payload EXCEPT ![r] = Payload(at)]
  /\ queue' = [queue EXCEPT ![r] = at]
  /\ Charge(UserOf[r])
  /\ promised' = [promised EXCEPT ![r] = at]
  /\ \/ Answer(c) /\ UNCHANGED failures
     \/ Answer(c) /\ Fail
  /\ UNCHANGED <<now, job, mails>>

DeliverUnheard(c) ==
  /\ call[c].pc = "deliver"
  /\ Goto(c, "complete")
  /\ \/ HandOver(call[c].req) /\ UNCHANGED failures
     \/ UNCHANGED mails /\ Fail
  /\ UNCHANGED <<now, redis, job, promised>>

\* A failing mail server may have taken the message.
Deliver(c) ==
  LET r == call[c].req IN
  /\ call[c].pc = "deliver"
  /\ \/ Goto(c, "complete") /\ HandOver(r) /\ UNCHANGED failures
     \/ Answer(c) /\ HandOver(r) /\ Fail
     \/ Answer(c) /\ UNCHANGED mails /\ Fail
  /\ UNCHANGED <<now, redis, job, promised>>

Complete(c) ==
  LET r == call[c].req IN
  /\ call[c].pc = "complete"
  /\ \/ Answer(c) /\ SetRecord(r, "sent", 0, now + Day) /\ UNCHANGED failures
     \/ Answer(c) /\ UNCHANGED record /\ Fail
  /\ UNCHANGED <<now, quota, payload, queue, job, external>>

\* The request is cancelled, its process stops, or Redis cannot be reached.
Abandon(c) ==
  /\ call[c].pc # "idle"
  /\ Fail
  /\ Answer(c)
  /\ UNCHANGED <<now, redis, job, external>>

CallStep(c) == \/ FindUser(c) \/ TooLate(c) \/ Blocked(c) \/ Reserve(c) \/ Schedule(c)
               \/ Deliver(c) \/ Complete(c) \/ Abandon(c)

-----------------------------------------------------------------------------
(***************************************************************************)
(* run_scheduler() and process_due().  A scheduler that finds nothing, has *)
(* done ten jobs or has failed sleeps for a second and looks again.        *)
(***************************************************************************)
Due == {r \in Requests : queue[r] # 0 /\ queue[r] <= now}
FirstDue == {r \in Due : \A q \in Due : queue[r] <= queue[q]}

Move(s, pc, known) ==
  job' = [job EXCEPT ![s] = [pc |-> pc, req |-> @.req, at |-> @.at, known |-> known]]
Look(s) == job' = [job EXCEPT ![s] = Looking]

PeekKeeps(s) ==
  /\ job[s].pc = "peek"
  /\ \E r \in FirstDue :
       /\ payload[r] # NoPayload
       /\ job' = [job EXCEPT ![s] = [pc |-> "lookup", req |-> r, at |-> payload[r].at, known |-> FALSE]]
  /\ UNCHANGED <<now, redis, call, external, failures>>

\* An entry whose payload has expired is dropped.
Peek(s) ==
  /\ job[s].pc = "peek"
  /\ \E r \in FirstDue :
       IF payload[r] = NoPayload
       THEN queue' = [queue EXCEPT ![r] = 0] /\ UNCHANGED job
       ELSE /\ job' = [job EXCEPT ![s] = [pc |-> "lookup", req |-> r, at |-> payload[r].at,
                                          known |-> FALSE]]
            /\ UNCHANGED queue
  /\ UNCHANGED <<now, record, quota, payload, call, external, failures>>

\* The booking of a user who is gone is claimed all the same, and discarded.
FindRecipient(s) ==
  /\ job[s].pc = "lookup"
  /\ \E known \in BOOLEAN : Move(s, "claim", known)
  /\ UNCHANGED <<now, redis, call, external, failures>>

ClaimableByTime(s) == queue[job[s].req] # 0 /\ queue[job[s].req] <= now

Claimable(s) ==
  LET r == job[s].req IN
  /\ queue[r] # 0 /\ queue[r] <= now
  /\ payload[r].at = job[s].at

Claim(s) ==
  LET r == job[s].req IN
  /\ job[s].pc = "claim" /\ Claimable(s)
  /\ SetRecord(r, "unknown", 0, now + Day)
  /\ payload' = [payload EXCEPT ![r] = NoPayload]
  /\ queue' = [queue EXCEPT ![r] = 0]
  /\ \/ job[s].known /\ Move(s, "deliver", TRUE) /\ UNCHANGED failures
     \/ ~job[s].known /\ Look(s) /\ UNCHANGED failures
     \/ Look(s) /\ Fail                              \* Redis' answer was lost
  /\ IF job'[s].pc = "deliver" THEN UNCHANGED promised ELSE Settle(r)
  /\ UNCHANGED <<now, quota, call, mails>>

LoseClaim(s) ==
  /\ job[s].pc = "claim" /\ ~Claimable(s)
  /\ Look(s)
  /\ UNCHANGED <<now, redis, call, external, failures>>

\* Failures of a delivery are caught in _deliver, and the batch goes on.
DeliverDue(s) ==
  LET r == job[s].req IN
  /\ job[s].pc = "deliver"
  /\ \/ Move(s, "complete", TRUE) /\ HandOver(r) /\ UNCHANGED failures
     \/ Look(s) /\ HandOver(r) /\ Fail
     \/ Look(s) /\ UNCHANGED mails /\ Fail
  /\ Settle(r)
  /\ UNCHANGED <<now, redis, call>>

CompleteDue(s) ==
  LET r == job[s].req IN
  /\ job[s].pc = "complete"
  /\ Look(s)
  /\ \/ SetRecord(r, "sent", 0, now + Day) /\ UNCHANGED failures
     \/ UNCHANGED record /\ Fail
  /\ UNCHANGED <<now, quota, payload, queue, call, external>>

\* An iteration fails, or the process stops and a new one takes its place.
StopIteration(s) ==
  /\ job[s].pc # "peek"
  /\ Fail
  /\ Look(s)
  /\ UNCHANGED <<now, redis, call, external>>

SchedulerStep(s) == \/ Peek(s) \/ FindRecipient(s) \/ Claim(s) \/ LoseClaim(s)
                    \/ DeliverDue(s) \/ CompleteDue(s)

-----------------------------------------------------------------------------
Unexpired(key, none) == IF key.exp > now + 1 THEN key ELSE none

Tick ==
  /\ now < MaxTime
  /\ \A c \in Callers : call[c].pc \notin {"deliver", "complete"}
  /\ \A s \in Schedulers : job[s].pc \notin {"deliver", "complete"}
  /\ now' = now + 1
  /\ record' = [r \in Requests |-> Unexpired(record[r], NoRecord)]
  /\ quota' = [u \in Users |-> Unexpired(quota[u], NoCount)]
  /\ payload' = [r \in Requests |-> Unexpired(payload[r], NoPayload)]
  /\ mails' = [r \in Requests |-> IF mails[r].last + Day > now + 1 THEN mails[r] ELSE NoMail]
  /\ UNCHANGED <<queue, call, job, promised, failures>>

Next ==
  \/ \E c \in Callers, r \in Requests, at \in SendTimes : Request(c, r, at)
  \/ \E c \in Callers : CallStep(c)
  \/ \E s \in Schedulers : SchedulerStep(s) \/ StopIteration(s)
  \/ Tick

\* asyncio resumes the scheduler, and every call it makes ends.
Fairness == \A s \in Schedulers : WF_vars(SchedulerStep(s))

Spec == Init /\ [][Next]_vars /\ Fairness

-----------------------------------------------------------------------------
\* A request is not given to the mail server again within a day, whether it is repeated, claimed by
\* two schedulers or interrupted: _RESERVE, _SCHEDULE, _CLAIM and _COMPLETE keep its record so long.
NoSecondMail == \A r \in Requests : mails[r].n <= 1

\* A booked message goes neither before the time that was booked, not even when the request is
\* repeated without a time or with an earlier one, nor a day or more after it.
KeepsItsTime ==
  [][\A r \in Requests : mails'[r].n > mails[r].n /\ promised[r] # 0
       => promised[r] <= now /\ now < promised[r] + Day]_vars

\* The three keys of a booking say the same, and expire together: what is recorded as scheduled can
\* be delivered, and what can be delivered is recorded as scheduled.
BookingWhole ==
  \A r \in Requests :
    /\ record[r].st = "scheduled" <=> payload[r] # NoPayload
    /\ record[r].st = "scheduled" =>
         /\ queue[r] = record[r].at /\ payload[r].at = record[r].at
         /\ payload[r].exp = record[r].exp

\* A user is only charged for requests that have a record, and no longer than these last: a failed,
\* repeated or refused request costs nothing, nor does the delivery of a booked one.
ChargedOnce ==
  \A u \in Users :
    quota[u].n <= Cardinality({r \in Requests : UserOf[r] = u /\ record[r].st # "none"})

\* A repeated request is answered "duplicate" only when the mail server took it less than a day ago.
SentIsTrue ==
  \A r \in Requests : record[r].st = "sent" => mails[r].n > 0 /\ record[r].exp <= mails[r].last + Day

\* What is due does not stay so: it is delivered, discarded or dropped (or, once it has expired, booked
\* anew), though entries before it fail.
DueIsTaken == \A r \in Requests : r \in Due ~> r \notin Due

=============================================================================
