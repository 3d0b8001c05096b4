------------------------- MODULE EmailSkill_proofs -------------------------
(***************************************************************************)
(* Theorems about EmailSkill and EmailDialogue, for any number of          *)
(* requests, users, callers, chats and schedulers, any limit, any length   *)
(* of a day and any failures.                                              *)
(*                                                                         *)
(* NoSecondMail is not inductive.  Its strengthening says that a mail of   *)
(* the last day is covered by a record that outlives it (Covered), that    *)
(* whoever carries a request to the mail server holds its fresh record and *)
(* has not delivered it before (CallCarries, JobCarries), and that nobody  *)
(* else carries the same request (OneCarrier).                             *)
(***************************************************************************)
EXTENDS EmailDialogue, FiniteSetTheorems, TLAPS

InFlight == {"deliver", "complete"}

CallOn(c, r) == call[c].pc \in InFlight /\ call[c].req = r
JobOn(s, r) == job[s].pc \in InFlight /\ job[s].req = r

\* A request that is being served is one; a job that was looked at has a time.
Named ==
  /\ \A c \in Callers : call[c].pc # "idle" => call[c].req \in Requests
  /\ \A s \in Schedulers : job[s].pc # "peek" => job[s].req \in Requests /\ job[s].at # 0

Timed == \A r \in Requests : record[r].st = "scheduled" => record[r].at # 0

Covered ==
  \A r \in Requests : mails[r].n # 0 =>
    /\ record[r].st \in {"unknown", "sent"}
    /\ mails[r].last + Day <= record[r].exp

Carried(pc, r) ==
  /\ record[r].st = "unknown"
  /\ pc = "deliver" => record[r].exp = now + Day /\ mails[r].n = 0
  /\ pc = "complete" => mails[r].n # 0 /\ mails[r].last = now

CallCarries == \A c \in Callers, r \in Requests : CallOn(c, r) => Carried(call[c].pc, r)
JobCarries == \A s \in Schedulers, r \in Requests : JobOn(s, r) => Carried(job[s].pc, r)

OneCarrier ==
  \A r \in Requests :
    /\ \A c, d \in Callers : CallOn(c, r) /\ CallOn(d, r) => c = d
    /\ \A s, t \in Schedulers : JobOn(s, r) /\ JobOn(t, r) => s = t
    /\ \A c \in Callers, s \in Schedulers : ~(CallOn(c, r) /\ JobOn(s, r))

IInv == /\ TypeOK /\ Named /\ Timed /\ BookingWhole /\ NoSecondMail /\ SentIsTrue
        /\ Covered /\ CallCarries /\ JobCarries /\ OneCarrier

-----------------------------------------------------------------------------
(***************************************************************************)
(* Who carries a request.                                                  *)
(***************************************************************************)
CallerAlone(c, q) ==
  /\ \A d \in Callers \ {c} : ~CallOn(d, q)
  /\ \A s \in Schedulers : ~JobOn(s, q)

JobAlone(s, q) ==
  /\ \A c \in Callers : ~CallOn(c, q)
  /\ \A t \in Schedulers \ {s} : ~JobOn(t, q)

Untouched(q) == record'[q] = record[q] /\ mails'[q] = mails[q]

\* A step of one caller that touches a request it alone carries, if any, keeps who carries what.
LEMMA CallerMoves ==
  ASSUME CallCarries, JobCarries, OneCarrier, NEW c \in Callers, NEW q,
         now' = now, job' = job,
         \A d \in Callers \ {c} : call'[d] = call[d],
         \A r \in Requests \ {q} : Untouched(r),
         CallerAlone(c, q) \/ Untouched(q),
         call'[c].pc \in InFlight =>
           /\ call'[c].req = q /\ CallerAlone(c, q)
           /\ Carried(call[c].pc, q)'
  PROVE  CallCarries' /\ JobCarries' /\ OneCarrier'
<1>1. \A d \in Callers \ {c}, r \in Requests : CallOn(d, r)' <=> CallOn(d, r)
  BY DEF CallOn
<1>2. \A s \in Schedulers, r \in Requests : JobOn(s, r)' <=> JobOn(s, r)
  BY DEF JobOn
<1>3. ASSUME NEW r \in Requests, CallOn(c, r)'
      PROVE  r = q /\ CallerAlone(c, r) /\ Carried(call[c].pc, r)'
  BY <1>3 DEF CallOn
<1>4. CallCarries'
  <2> SUFFICES ASSUME NEW d \in Callers, NEW r \in Requests, CallOn(d, r)'
               PROVE  Carried(call[d].pc, r)'
    BY DEF CallCarries
  <2>1. CASE d = c  BY <2>1, <1>3
  <2>2. CASE d # c
    <3>1. CallOn(d, r) /\ Carried(call[d].pc, r)  BY <2>2, <1>1 DEF CallCarries
    <3>2. Untouched(r)  BY <2>2, <3>1 DEF CallerAlone
    <3> QED  BY <2>2, <3>1, <3>2 DEF Carried, Untouched
  <2> QED  BY <2>1, <2>2
<1>5. JobCarries'
  <2> SUFFICES ASSUME NEW s \in Schedulers, NEW r \in Requests, JobOn(s, r)'
               PROVE  Carried(job[s].pc, r)'
    BY DEF JobCarries
  <2>1. JobOn(s, r) /\ Carried(job[s].pc, r)  BY <1>2 DEF JobCarries
  <2>2. Untouched(r)  BY <2>1 DEF CallerAlone
  <2> QED  BY <2>1, <2>2 DEF Carried, Untouched
<1>6. OneCarrier'
  BY <1>1, <1>2, <1>3 DEF OneCarrier, CallerAlone
<1> QED  BY <1>4, <1>5, <1>6

\* The same of a scheduler.
LEMMA SchedulerMoves ==
  ASSUME CallCarries, JobCarries, OneCarrier, NEW s \in Schedulers, NEW q,
         now' = now, call' = call,
         \A t \in Schedulers \ {s} : job'[t] = job[t],
         \A r \in Requests \ {q} : Untouched(r),
         JobAlone(s, q) \/ Untouched(q),
         job'[s].pc \in InFlight =>
           /\ job'[s].req = q /\ JobAlone(s, q)
           /\ Carried(job[s].pc, q)'
  PROVE  CallCarries' /\ JobCarries' /\ OneCarrier'
<1>1. \A t \in Schedulers \ {s}, r \in Requests : JobOn(t, r)' <=> JobOn(t, r)
  BY DEF JobOn
<1>2. \A c \in Callers, r \in Requests : CallOn(c, r)' <=> CallOn(c, r)
  BY DEF CallOn
<1>3. ASSUME NEW r \in Requests, JobOn(s, r)'
      PROVE  r = q /\ JobAlone(s, r) /\ Carried(job[s].pc, r)'
  BY <1>3 DEF JobOn
<1>4. JobCarries'
  <2> SUFFICES ASSUME NEW t \in Schedulers, NEW r \in Requests, JobOn(t, r)'
               PROVE  Carried(job[t].pc, r)'
    BY DEF JobCarries
  <2>1. CASE t = s  BY <2>1, <1>3
  <2>2. CASE t # s
    <3>1. JobOn(t, r) /\ Carried(job[t].pc, r)  BY <2>2, <1>1 DEF JobCarries
    <3>2. Untouched(r)  BY <2>2, <3>1 DEF JobAlone
    <3> QED  BY <2>2, <3>1, <3>2 DEF Carried, Untouched
  <2> QED  BY <2>1, <2>2
<1>5. CallCarries'
  <2> SUFFICES ASSUME NEW c \in Callers, NEW r \in Requests, CallOn(c, r)'
               PROVE  Carried(call[c].pc, r)'
    BY DEF CallCarries
  <2>1. CallOn(c, r) /\ Carried(call[c].pc, r)  BY <1>2 DEF CallCarries
  <2>2. Untouched(r)  BY <2>1 DEF JobAlone
  <2> QED  BY <2>1, <2>2 DEF Carried, Untouched
<1>6. OneCarrier'
  BY <1>1, <1>2, <1>3 DEF OneCarrier, JobAlone
<1> QED  BY <1>4, <1>5, <1>6

\* Nobody carries a request whose record is not "unknown".
LEMMA NobodyCarries ==
  ASSUME CallCarries, JobCarries, NEW q \in Requests, record[q].st # "unknown"
  PROVE  /\ \A c \in Callers : CallerAlone(c, q)
         /\ \A s \in Schedulers : JobAlone(s, q)
BY DEF CallCarries, JobCarries, Carried, CallerAlone, JobAlone

-----------------------------------------------------------------------------
(***************************************************************************)
(* Steps that only move a call or a job, and put neither in flight.        *)
(***************************************************************************)
LEMMA CallOnly ==
  ASSUME IInv, NEW c \in Callers, NEW v \in Calls,
         v.pc \notin InFlight, v.pc # "idle" => v.req \in Requests,
         call' = [call EXCEPT ![c] = v], failures' \in 0 .. MaxFailures,
         UNCHANGED <<now, redis, job, external>>
  PROVE  IInv'
<1> USE DEF redis, external
<1>1. TypeOK'  BY DEF IInv, TypeOK
<1>2. Named'  BY DEF IInv, TypeOK, Named
<1>3. Timed' /\ BookingWhole' /\ NoSecondMail' /\ SentIsTrue' /\ Covered'
  BY DEF IInv, Timed, BookingWhole, NoSecondMail, SentIsTrue, Covered
<1>4. CallCarries' /\ JobCarries' /\ OneCarrier'
  <2>1. \A d \in Callers \ {c} : call'[d] = call[d]  BY DEF IInv, TypeOK
  <2>2. call'[c].pc \notin InFlight  BY DEF IInv, TypeOK
  <2>3. \A r : Untouched(r)  BY DEF Untouched
  <2> QED  BY <2>1, <2>2, <2>3, CallerMoves DEF IInv
<1> QED  BY <1>1, <1>2, <1>3, <1>4 DEF IInv

LEMMA JobOnly ==
  ASSUME IInv, NEW s \in Schedulers, NEW v \in Jobs,
         v.pc \notin InFlight, v.pc # "peek" => v.req \in Requests /\ v.at # 0,
         job' = [job EXCEPT ![s] = v], failures' \in 0 .. MaxFailures,
         UNCHANGED <<now, redis, call, external>>
  PROVE  IInv'
<1> USE DEF redis, external
<1>1. TypeOK'  BY DEF IInv, TypeOK
<1>2. Named'  BY DEF IInv, TypeOK, Named
<1>3. Timed' /\ BookingWhole' /\ NoSecondMail' /\ SentIsTrue' /\ Covered'
  BY DEF IInv, Timed, BookingWhole, NoSecondMail, SentIsTrue, Covered
<1>4. CallCarries' /\ JobCarries' /\ OneCarrier'
  <2>1. \A t \in Schedulers \ {s} : job'[t] = job[t]  BY DEF IInv, TypeOK
  <2>2. job'[s].pc \notin InFlight  BY DEF IInv, TypeOK
  <2>3. \A r : Untouched(r)  BY DEF Untouched
  <2> QED  BY <2>1, <2>2, <2>3, SchedulerMoves DEF IInv
<1> QED  BY <1>1, <1>2, <1>3, <1>4 DEF IInv

LEMMA Ends ==
  /\ Idle \in Calls /\ Idle.pc = "idle"
  /\ Looking \in Jobs /\ Looking.pc = "peek"
BY EmailConstantsOK DEF Idle, Looking, Calls, Jobs, SendTimes, Instant

LEMMA AnswerInv ==
  ASSUME IInv, NEW c \in Callers, TooLate(c) \/ Blocked(c) \/ Abandon(c)
  PROVE  IInv'
<1>1. /\ Answer(c) /\ UNCHANGED <<now, redis, job, external>>
      /\ failures' \in 0 .. MaxFailures
  BY EmailConstantsOK DEF IInv, TypeOK, TooLate, Blocked, Abandon, Fail
<1> QED  BY <1>1, Ends, CallOnly DEF Answer, InFlight

LEMMA RequestInv ==
  ASSUME IInv, NEW c \in Callers, NEW r \in Requests, NEW at \in SendTimes, Request(c, r, at)
  PROVE  IInv'
<1> DEFINE v == [pc |-> "lookup", req |-> r, at |-> at]
<1>1. v \in Calls /\ v.pc \notin InFlight /\ v.req \in Requests  BY DEF Calls, InFlight
<1>2. failures' \in 0 .. MaxFailures  BY DEF IInv, TypeOK, Request
<1> QED  BY <1>1, <1>2, CallOnly DEF Request

LEMMA FindUserInv ==
  ASSUME IInv, NEW c \in Callers, FindUser(c)
  PROVE  IInv'
<1> DEFINE v == [pc |-> "reserve", req |-> call[c].req, at |-> call[c].at]
<1>1. v \in Calls /\ v.pc \notin InFlight /\ v.req \in Requests
  BY DEF IInv, TypeOK, Named, Calls, InFlight, FindUser
<1>2. failures' \in 0 .. MaxFailures  BY DEF IInv, TypeOK, FindUser
<1>3. CASE Goto(c, "reserve")
  <2>1. call' = [call EXCEPT ![c] = v]  BY <1>3 DEF Goto
  <2> QED  BY <2>1, <1>1, <1>2, CallOnly DEF FindUser
<1>4. CASE Answer(c)  BY <1>4, <1>2, Ends, CallOnly DEF FindUser, Answer, InFlight
<1> QED  BY <1>3, <1>4 DEF FindUser

LEMMA LookInv ==
  ASSUME IInv, NEW s \in Schedulers, LoseClaim(s) \/ StopIteration(s)
  PROVE  IInv'
<1>1. /\ Look(s) /\ UNCHANGED <<now, redis, call, external>>
      /\ failures' \in 0 .. MaxFailures
  BY EmailConstantsOK DEF IInv, TypeOK, LoseClaim, StopIteration, Fail
<1> QED  BY <1>1, Ends, JobOnly DEF Look, InFlight

LEMMA FindRecipientInv ==
  ASSUME IInv, NEW s \in Schedulers, FindRecipient(s)
  PROVE  IInv'
<1>1. PICK known \in BOOLEAN : Move(s, "claim", known)  BY DEF FindRecipient
<1> DEFINE v == [pc |-> "claim", req |-> job[s].req, at |-> job[s].at, known |-> known]
<1>2. v \in Jobs /\ v.pc \notin InFlight /\ v.req \in Requests /\ v.at # 0
  BY DEF IInv, TypeOK, Named, Jobs, InFlight, FindRecipient
<1>3. job' = [job EXCEPT ![s] = v]  BY <1>1 DEF Move
<1>4. failures' \in 0 .. MaxFailures  BY DEF IInv, TypeOK, FindRecipient
<1> QED  BY <1>2, <1>3, <1>4, JobOnly DEF FindRecipient

-----------------------------------------------------------------------------
(***************************************************************************)
(* The steps of send() that write.                                         *)
(***************************************************************************)
\* Times that are written to Redis stay within the bound of the model.
LEMMA Times ==
  ASSUME TypeOK
  PROVE  /\ now \in Nat /\ now # 0 /\ Day \in Nat /\ Day # 0 /\ Limit \in Nat
         /\ 0 \in Instant /\ now + Day \in Instant /\ now \in 0 .. MaxTime
         /\ \A at \in SendTimes : at \in Instant /\ at + Day \in Instant
BY EmailConstantsOK DEF TypeOK, Instant, SendTimes

LEMMA ChargeType ==
  ASSUME TypeOK, NEW r \in Requests, Free(r), Charge(UserOf[r])
  PROVE  quota' \in [Users -> [n : 0 .. Limit, exp : Instant]]
<1> DEFINE u == UserOf[r]
<1>1. u \in Users  BY EmailConstantsOK
<1>2. quota[u] \in [n : 0 .. Limit, exp : Instant]  BY <1>1 DEF TypeOK
<1>3. quota[u].n + 1 \in 0 .. Limit  BY <1>2, Times DEF Free
<1>4. (IF quota[u].n = 0 THEN now + Day ELSE quota[u].exp) \in Instant  BY <1>2, Times
<1>5. quota' = [quota EXCEPT ![u] = [n |-> quota[u].n + 1,
                                     exp |-> IF quota[u].n = 0 THEN now + Day ELSE quota[u].exp]]
  BY DEF Charge
<1> HIDE DEF u
<1> QED  BY <1>1, <1>3, <1>4, <1>5 DEF TypeOK

\* A request without a record was not mailed within the day, and is not booked.
LEMMA Fresh ==
  ASSUME IInv, NEW r \in Requests, record[r].st = "none"
  PROVE  /\ mails[r].n = 0 /\ payload[r] = NoPayload
         /\ \A c \in Callers : CallerAlone(c, r)
BY NobodyCarries DEF IInv, Covered, BookingWhole

LEMMA ReserveInv ==
  ASSUME IInv, NEW c \in Callers, Reserve(c)
  PROVE  IInv'
<1>0. PICK r \in Requests : r = call[c].req  BY DEF IInv, Named, Reserve
<1> DEFINE new == [st |-> "unknown", at |-> 0, exp |-> now + Day]
           v == [pc |-> "deliver", req |-> r, at |-> call[c].at]
<1>1. TypeOK /\ call[c] \in Calls  BY DEF IInv, TypeOK
<1>2. record[r].st = "none" /\ Free(r)  BY <1>0 DEF Reserve, Free
<1>3. mails[r].n = 0 /\ payload[r] = NoPayload /\ CallerAlone(c, r)  BY <1>1, <1>2, Fresh
<1>4. record' = [record EXCEPT ![r] = new] /\ new \in Records
  BY <1>0, <1>1, Times DEF Reserve, SetRecord, Records
<1>5. /\ quota' \in [Users -> [n : 0 .. Limit, exp : Instant]]
      /\ failures' \in 0 .. MaxFailures
  BY <1>0, <1>1, <1>2, ChargeType, EmailConstantsOK DEF Reserve, Fail, TypeOK
<1>6. promised' \in [Requests -> Instant]
  BY <1>0, <1>1, Times DEF Reserve, TypeOK
<1>7. now' = now /\ payload' = payload /\ queue' = queue /\ job' = job /\ mails' = mails
  BY DEF Reserve
<1>8. \/ call' = [call EXCEPT ![c] = v]
      \/ call' = [call EXCEPT ![c] = Idle]
  BY <1>0 DEF Reserve, Goto, Answer
<1>9. v \in Calls /\ Idle \in Calls /\ Idle.pc = "idle"  BY <1>1, Ends DEF Calls
<1> HIDE DEF new, v
<1>10. TypeOK'  BY <1>1, <1>4, <1>5, <1>6, <1>7, <1>8, <1>9 DEF TypeOK
<1>11. Named'  BY <1>0, <1>1, <1>7, <1>8, <1>9 DEF IInv, TypeOK, Named, v
<1>12. \A q \in Requests : record'[q] = IF q = r THEN new ELSE record[q]
  BY <1>1, <1>4 DEF TypeOK
<1>13. new.st = "unknown" /\ new.exp = now + Day  BY DEF new
<1>14. Timed' /\ BookingWhole'
  BY <1>3, <1>7, <1>12, <1>13 DEF IInv, Timed, BookingWhole
<1>15. NoSecondMail' /\ SentIsTrue'
  BY <1>7, <1>12, <1>13 DEF IInv, NoSecondMail, SentIsTrue
<1>16. Covered'  BY <1>3, <1>7, <1>12, <1>13 DEF IInv, Covered
<1>17. CallCarries' /\ JobCarries' /\ OneCarrier'
  <2>1. \A d \in Callers \ {c} : call'[d] = call[d]  BY <1>8 DEF IInv, TypeOK
  <2>2. \A q \in Requests \ {r} : Untouched(q)  BY <1>7, <1>12 DEF Untouched
  <2>3. ASSUME call'[c].pc \in InFlight
        PROVE  call'[c].req = r /\ Carried(call[c].pc, r)'
    <3>1. call'[c] = v  BY <2>3, <1>1, <1>8, <1>9 DEF InFlight, TypeOK
    <3>2. v.pc = "deliver" /\ v.req = r  BY DEF v
    <3> QED  BY <3>1, <3>2, <1>1, <1>3, <1>7, <1>12, <1>13 DEF Carried
  <2> QED  BY <2>1, <2>2, <2>3, <1>3, <1>7, CallerMoves DEF IInv
<1> QED  BY <1>10, <1>11, <1>14, <1>15, <1>16, <1>17 DEF IInv

LEMMA ScheduleInv ==
  ASSUME IInv, NEW c \in Callers, Schedule(c)
  PROVE  IInv'
<1> DEFINE r == call[c].req
           at == call[c].at
           new == [st |-> "scheduled", at |-> at, exp |-> at + Day]
<1>1. r \in Requests /\ TypeOK /\ call[c] \in Calls  BY DEF IInv, TypeOK, Named, Schedule
<1>2. record[r].st = "none" /\ Free(r) /\ at # 0 /\ at \in SendTimes
  BY <1>1 DEF Schedule, Free, Calls
<1>3. mails[r].n = 0 /\ CallerAlone(c, r)  BY <1>1, <1>2, Fresh
<1>4. record' = [record EXCEPT ![r] = new] /\ new \in Records
  BY <1>1, <1>2, Times DEF Schedule, SetRecord, Records
<1>5. /\ quota' \in [Users -> [n : 0 .. Limit, exp : Instant]]
      /\ failures' \in 0 .. MaxFailures
  BY <1>1, <1>2, ChargeType, EmailConstantsOK DEF Schedule, Fail, TypeOK
<1>6. /\ payload' = [payload EXCEPT ![r] = Payload(at)] /\ Payload(at) \in Payloads
      /\ queue' = [queue EXCEPT ![r] = at]
      /\ promised' = [promised EXCEPT ![r] = at]
  BY <1>1, <1>2, Times DEF Schedule, Payload, Payloads
<1>7. now' = now /\ job' = job /\ mails' = mails /\ call' = [call EXCEPT ![c] = Idle]
  BY DEF Schedule, Answer
<1>8. at \in Instant /\ Payload(at) # NoPayload /\ Payload(at).at = at /\ Payload(at).exp = at + Day
  BY <1>1, <1>2, Times DEF Payload, NoPayload
<1> HIDE DEF r, at, new
<1>9. TypeOK'  BY <1>1, <1>4, <1>5, <1>6, <1>7, <1>8, Ends DEF TypeOK
<1>10. Named'  BY <1>7, Ends DEF IInv, TypeOK, Named
<1>11. \A q \in Requests : /\ record'[q] = IF q = r THEN new ELSE record[q]
                           /\ payload'[q] = IF q = r THEN Payload(at) ELSE payload[q]
                           /\ queue'[q] = IF q = r THEN at ELSE queue[q]
  BY <1>1, <1>4, <1>6 DEF TypeOK
<1>12. new.st = "scheduled" /\ new.at = at /\ new.exp = at + Day  BY DEF new
<1>13. Timed' /\ BookingWhole'
  BY <1>2, <1>8, <1>11, <1>12 DEF IInv, Timed, BookingWhole
<1>14. NoSecondMail' /\ SentIsTrue'
  BY <1>7, <1>11, <1>12 DEF IInv, NoSecondMail, SentIsTrue
<1>15. Covered'  BY <1>3, <1>7, <1>11, <1>12 DEF IInv, Covered
<1>16. CallCarries' /\ JobCarries' /\ OneCarrier'
  <2>1. \A d \in Callers \ {c} : call'[d] = call[d]  BY <1>7 DEF IInv, TypeOK
  <2>2. \A q \in Requests \ {r} : Untouched(q)  BY <1>7, <1>11 DEF Untouched
  <2>3. call'[c].pc \notin InFlight  BY <1>1, <1>7, Ends DEF InFlight, TypeOK
  <2> QED  BY <2>1, <2>2, <2>3, <1>3, <1>7, CallerMoves DEF IInv
<1> QED  BY <1>9, <1>10, <1>13, <1>14, <1>15, <1>16 DEF IInv

\* Giving a carried message to the mail server.
LEMMA HandOverKeeps ==
  ASSUME IInv, NEW r \in Requests, Carried("deliver", r), HandOver(r),
         UNCHANGED <<now, record>>
  PROVE  /\ mails' \in [Requests -> [n : Nat, last : 0 .. MaxTime]]
         /\ NoSecondMail' /\ SentIsTrue' /\ Covered'
         /\ \A q \in Requests \ {r} : Untouched(q)
         /\ Carried("complete", r)'
<1>1. /\ record[r].st = "unknown" /\ record[r].exp = now + Day /\ mails[r].n = 0
      /\ TypeOK
  BY DEF Carried, IInv
<1>2. mails' = [mails EXCEPT ![r] = [n |-> 1, last |-> now]]
  BY <1>1 DEF HandOver
<1>3. mails' \in [Requests -> [n : Nat, last : 0 .. MaxTime]]
  BY <1>1, <1>2, Times DEF TypeOK
<1>4. \A q \in Requests : mails'[q] = IF q = r THEN [n |-> 1, last |-> now] ELSE mails[q]
  BY <1>1, <1>2 DEF TypeOK
<1>5. NoSecondMail' /\ SentIsTrue'
  BY <1>1, <1>4 DEF IInv, NoSecondMail, SentIsTrue
<1>6. Covered'  BY <1>1, <1>4, Times DEF IInv, Covered
<1>7. (\A q \in Requests \ {r} : Untouched(q)) /\ Carried("complete", r)'
  BY <1>1, <1>4 DEF Untouched, Carried
<1> QED  BY <1>3, <1>5, <1>6, <1>7

\* Recording that a carried message was taken.
LEMMA CompleteKeeps ==
  ASSUME IInv, NEW r \in Requests, Carried("complete", r), SetRecord(r, "sent", 0, now + Day),
         UNCHANGED <<now, payload, queue, mails>>
  PROVE  /\ record' \in [Requests -> Records]
         /\ Timed' /\ BookingWhole' /\ NoSecondMail' /\ SentIsTrue' /\ Covered'
         /\ \A q \in Requests \ {r} : Untouched(q)
<1> DEFINE new == [st |-> "sent", at |-> 0, exp |-> now + Day]
<1>1. record[r].st = "unknown" /\ mails[r].n # 0 /\ mails[r].last = now /\ TypeOK
  BY DEF Carried, IInv
<1>2. record' = [record EXCEPT ![r] = new] /\ new \in Records
  BY <1>1, Times DEF SetRecord, Records
<1>3. mails[r].n > 0  BY <1>1 DEF TypeOK
<1> HIDE DEF new
<1>4. \A q \in Requests : record'[q] = IF q = r THEN new ELSE record[q]
  BY <1>1, <1>2 DEF TypeOK
<1>5. new.st = "sent" /\ new.exp = now + Day  BY DEF new
<1>6. record' \in [Requests -> Records]  BY <1>1, <1>2 DEF TypeOK
<1>7. Timed' /\ BookingWhole'  BY <1>1, <1>4, <1>5 DEF IInv, Timed, BookingWhole
<1>8. NoSecondMail' /\ SentIsTrue'
  BY <1>1, <1>3, <1>4, <1>5, Times DEF IInv, NoSecondMail, SentIsTrue
<1>9. Covered'  BY <1>1, <1>4, <1>5, Times DEF IInv, Covered
<1>10. \A q \in Requests \ {r} : Untouched(q)  BY <1>4 DEF Untouched
<1> QED  BY <1>6, <1>7, <1>8, <1>9, <1>10

LEMMA DeliverInv ==
  ASSUME IInv, NEW c \in Callers, Deliver(c)
  PROVE  IInv'
<1>1. PICK r \in Requests : r = call[c].req  BY DEF IInv, Named, Deliver
<1> DEFINE v == [pc |-> "complete", req |-> r, at |-> call[c].at]
<1>2. /\ now' = now /\ record' = record /\ quota' = quota /\ payload' = payload
      /\ queue' = queue /\ job' = job /\ promised' = promised
      /\ failures' \in 0 .. MaxFailures
  BY EmailConstantsOK DEF IInv, TypeOK, Deliver, Fail, redis
<1>3. TypeOK /\ call[c] \in Calls /\ CallOn(c, r) /\ Carried("deliver", r)
  BY <1>1 DEF IInv, TypeOK, Deliver, CallOn, InFlight, CallCarries
<1>4. CallerAlone(c, r)  BY <1>3 DEF IInv, OneCarrier, CallerAlone
<1>5. v \in Calls /\ v.pc = "complete" /\ v.req = r /\ Idle \in Calls /\ Idle.pc = "idle"
  BY <1>3, Ends DEF Calls
<1>6. \/ call' = [call EXCEPT ![c] = v] /\ HandOver(r)
      \/ call' = [call EXCEPT ![c] = Idle] /\ (HandOver(r) \/ mails' = mails)
  BY <1>1 DEF Deliver, Goto, Answer
<1> HIDE DEF v
<1>7. /\ mails' \in [Requests -> [n : Nat, last : 0 .. MaxTime]]
      /\ NoSecondMail' /\ SentIsTrue' /\ Covered'
      /\ \A q \in Requests \ {r} : Untouched(q)
  <2>1. CASE HandOver(r)  BY <2>1, <1>2, <1>3, HandOverKeeps
  <2>2. CASE mails' = mails
    BY <2>2, <1>2 DEF IInv, TypeOK, NoSecondMail, SentIsTrue, Covered, Untouched
  <2> QED  BY <2>1, <2>2, <1>6
<1>8. TypeOK' /\ Named'  BY <1>1, <1>2, <1>3, <1>5, <1>6, <1>7 DEF IInv, TypeOK, Named
<1>9. Timed' /\ BookingWhole'  BY <1>2 DEF IInv, Timed, BookingWhole
<1>10. CallCarries' /\ JobCarries' /\ OneCarrier'
  <2>1. \A d \in Callers \ {c} : call'[d] = call[d]  BY <1>6 DEF IInv, TypeOK
  <2>2. ASSUME call'[c].pc \in InFlight
        PROVE  call'[c].req = r /\ Carried(call[c].pc, r)'
    <3>1. call'[c] = v /\ HandOver(r)  BY <2>2, <1>3, <1>5, <1>6 DEF InFlight, TypeOK
    <3>2. Carried("complete", r)'  BY <3>1, <1>2, <1>3, HandOverKeeps
    <3> QED  BY <3>1, <3>2, <1>5
  <2> QED  BY <2>1, <2>2, <1>2, <1>4, <1>7, CallerMoves DEF IInv
<1> QED  BY <1>7, <1>8, <1>9, <1>10 DEF IInv

LEMMA CompleteInv ==
  ASSUME IInv, NEW c \in Callers, Complete(c)
  PROVE  IInv'
<1>1. PICK r \in Requests : r = call[c].req  BY DEF IInv, Named, Complete
<1>2. /\ now' = now /\ quota' = quota /\ payload' = payload /\ queue' = queue /\ job' = job
      /\ mails' = mails /\ promised' = promised /\ call' = [call EXCEPT ![c] = Idle]
      /\ failures' \in 0 .. MaxFailures
  BY EmailConstantsOK DEF IInv, TypeOK, Complete, Answer, Fail, external
<1>3. TypeOK /\ CallOn(c, r) /\ Carried("complete", r)
  BY <1>1 DEF IInv, TypeOK, Complete, CallOn, InFlight, CallCarries
<1>4. CallerAlone(c, r)  BY <1>3 DEF IInv, OneCarrier, CallerAlone
<1>5. /\ record' \in [Requests -> Records]
      /\ Timed' /\ BookingWhole' /\ NoSecondMail' /\ SentIsTrue' /\ Covered'
      /\ \A q \in Requests \ {r} : Untouched(q)
  <2>1. CASE SetRecord(r, "sent", 0, now + Day)  BY <2>1, <1>2, <1>3, CompleteKeeps
  <2>2. CASE record' = record
    BY <2>2, <1>2
    DEF IInv, TypeOK, Timed, BookingWhole, NoSecondMail, SentIsTrue, Covered, Untouched
  <2> QED  BY <2>1, <2>2, <1>1 DEF Complete
<1>6. TypeOK' /\ Named'  BY <1>2, <1>3, <1>5, Ends DEF IInv, TypeOK, Named
<1>7. CallCarries' /\ JobCarries' /\ OneCarrier'
  <2>1. \A d \in Callers \ {c} : call'[d] = call[d]  BY <1>2 DEF IInv, TypeOK
  <2>2. call'[c].pc \notin InFlight  BY <1>2, <1>3, Ends DEF InFlight, TypeOK
  <2> QED  BY <2>1, <2>2, <1>2, <1>4, <1>5, CallerMoves DEF IInv
<1> QED  BY <1>5, <1>6, <1>7 DEF IInv

-----------------------------------------------------------------------------
(***************************************************************************)
(* The steps of the scheduler that write, and the clock.                   *)
(***************************************************************************)
LEMMA PeekInv ==
  ASSUME IInv, NEW s \in Schedulers, Peek(s)
  PROVE  IInv'
<1>1. /\ now' = now /\ record' = record /\ quota' = quota /\ payload' = payload
      /\ call' = call /\ mails' = mails /\ promised' = promised
      /\ failures' \in 0 .. MaxFailures
  BY DEF IInv, TypeOK, Peek, external
<1>2. PICK r \in Requests :
        IF payload[r] = NoPayload
        THEN queue' = [queue EXCEPT ![r] = 0] /\ job' = job
        ELSE /\ job' = [job EXCEPT ![s] = [pc |-> "lookup", req |-> r, at |-> payload[r].at,
                                           known |-> FALSE]]
             /\ queue' = queue
  BY DEF Peek, FirstDue, Due
<1>3. CASE payload[r] = NoPayload
  <2>1. job' = job /\ queue' = [queue EXCEPT ![r] = 0]  BY <1>2, <1>3
  <2>2. TypeOK'  BY <1>1, <2>1, Times DEF IInv, TypeOK
  <2>3. BookingWhole'  BY <1>1, <1>3, <2>1 DEF IInv, TypeOK, BookingWhole
  <2>4. Named' /\ Timed' /\ NoSecondMail' /\ SentIsTrue' /\ Covered'
    BY <1>1, <2>1 DEF IInv, Named, Timed, NoSecondMail, SentIsTrue, Covered
  <2>5. CallCarries' /\ JobCarries' /\ OneCarrier'
    BY <1>1, <2>1 DEF IInv, CallCarries, JobCarries, OneCarrier, CallOn, JobOn, Carried
  <2> QED  BY <2>2, <2>3, <2>4, <2>5 DEF IInv
<1>4. CASE payload[r] # NoPayload
  <2> DEFINE v == [pc |-> "lookup", req |-> r, at |-> payload[r].at, known |-> FALSE]
  <2>1. job' = [job EXCEPT ![s] = v] /\ queue' = queue  BY <1>2, <1>4
  <2>2. payload[r].at \in Instant /\ payload[r].at # 0
    BY <1>4 DEF IInv, TypeOK, Payloads, BookingWhole, Timed
  <2>3. v \in Jobs /\ v.pc \notin InFlight /\ v.req \in Requests /\ v.at # 0
    BY <2>2 DEF Jobs, InFlight
  <2> HIDE DEF v
  <2> QED  BY <1>1, <2>1, <2>3, JobOnly DEF redis, external
<1> QED  BY <1>3, <1>4

LEMMA ClaimInv ==
  ASSUME IInv, NEW s \in Schedulers, Claim(s)
  PROVE  IInv'
<1>1. PICK r \in Requests : r = job[s].req  BY DEF IInv, Named, Claim
<1> DEFINE new == [st |-> "unknown", at |-> 0, exp |-> now + Day]
           v == [pc |-> "deliver", req |-> r, at |-> job[s].at, known |-> TRUE]
<1>2. TypeOK /\ job[s] \in Jobs  BY DEF IInv, TypeOK
<1>3. /\ now' = now /\ quota' = quota /\ call' = call /\ mails' = mails
      /\ failures' \in 0 .. MaxFailures
  <2>1. failures' = failures \/ Fail  BY DEF Claim
  <2>2. failures' \in 0 .. MaxFailures  BY <2>1, <1>2, EmailConstantsOK DEF TypeOK, Fail
  <2> QED  BY <2>2 DEF Claim
<1>4. /\ record' = [record EXCEPT ![r] = new]
      /\ payload' = [payload EXCEPT ![r] = NoPayload]
      /\ queue' = [queue EXCEPT ![r] = 0]
      /\ promised' \in [Requests -> Instant]
  BY <1>1, <1>2, Times DEF Claim, SetRecord, Settle, TypeOK
<1>5. new \in Records /\ NoPayload \in Payloads
  BY <1>2, Times DEF Records, Payloads, NoPayload
<1>6. job' = [job EXCEPT ![s] = v] \/ job' = [job EXCEPT ![s] = Looking]
  BY <1>1 DEF Claim, Move, Look
<1>7. v \in Jobs /\ v.pc = "deliver" /\ v.req = r /\ v.at # 0 /\ Looking \in Jobs /\ Looking.pc = "peek"
  BY <1>2, Ends DEF Jobs, IInv, Named, Claim
<1>8. record[r].st = "scheduled"
  <2>1. payload[r].at # 0  BY <1>1 DEF IInv, Named, Claim, Claimable
  <2> QED  BY <2>1 DEF IInv, BookingWhole, NoPayload
<1>9. mails[r].n = 0 /\ JobAlone(s, r)
  BY <1>8, NobodyCarries DEF IInv, Covered
<1>10. new.st = "unknown" /\ new.exp = now + Day  OBVIOUS
<1> HIDE DEF new, v
<1>11. TypeOK'  BY <1>2, <1>3, <1>4, <1>5, <1>6, <1>7, Times DEF TypeOK
<1>12. Named'  BY <1>1, <1>3, <1>6, <1>7 DEF IInv, TypeOK, Named
<1>13. \A q \in Requests : /\ record'[q] = IF q = r THEN new ELSE record[q]
                           /\ payload'[q] = IF q = r THEN NoPayload ELSE payload[q]
                           /\ queue'[q] = IF q = r THEN 0 ELSE queue[q]
  BY <1>2, <1>4 DEF TypeOK
<1>14. Timed' /\ BookingWhole'  BY <1>10, <1>13 DEF IInv, Timed, BookingWhole
<1>15. NoSecondMail' /\ SentIsTrue'
  BY <1>3, <1>10, <1>13 DEF IInv, NoSecondMail, SentIsTrue
<1>16. Covered'  BY <1>3, <1>9, <1>10, <1>13 DEF IInv, Covered
<1>17. CallCarries' /\ JobCarries' /\ OneCarrier'
  <2>1. \A t \in Schedulers \ {s} : job'[t] = job[t]  BY <1>6 DEF IInv, TypeOK
  <2>2. \A q \in Requests \ {r} : Untouched(q)  BY <1>3, <1>13 DEF Untouched
  <2>3. ASSUME job'[s].pc \in InFlight
        PROVE  job'[s].req = r /\ Carried(job[s].pc, r)'
    <3>1. job'[s] = v  BY <2>3, <1>2, <1>6, <1>7 DEF InFlight, TypeOK
    <3> QED  BY <3>1, <1>3, <1>7, <1>9, <1>10, <1>13 DEF Carried
  <2> QED  BY <2>1, <2>2, <2>3, <1>3, <1>9, SchedulerMoves DEF IInv
<1> QED  BY <1>11, <1>12, <1>14, <1>15, <1>16, <1>17 DEF IInv

LEMMA DeliverDueInv ==
  ASSUME IInv, NEW s \in Schedulers, DeliverDue(s)
  PROVE  IInv'
<1>1. PICK r \in Requests : r = job[s].req  BY DEF IInv, Named, DeliverDue
<1> DEFINE v == [pc |-> "complete", req |-> r, at |-> job[s].at, known |-> TRUE]
<1>2. TypeOK /\ job[s] \in Jobs /\ JobOn(s, r) /\ Carried("deliver", r)
  BY <1>1 DEF IInv, TypeOK, DeliverDue, JobOn, InFlight, JobCarries
<1>3. /\ now' = now /\ record' = record /\ quota' = quota /\ payload' = payload
      /\ queue' = queue /\ call' = call /\ promised' \in [Requests -> Instant]
      /\ failures' \in 0 .. MaxFailures
  <2>1. failures' = failures \/ Fail  BY DEF DeliverDue
  <2>2. failures' \in 0 .. MaxFailures  BY <2>1, <1>2, EmailConstantsOK DEF TypeOK, Fail
  <2>3. promised' \in [Requests -> Instant]
    BY <1>1, <1>2, Times DEF DeliverDue, Settle, TypeOK
  <2> QED  BY <2>2, <2>3 DEF DeliverDue, redis
<1>4. JobAlone(s, r)  BY <1>2 DEF IInv, OneCarrier, JobAlone
<1>5. v \in Jobs /\ v.pc = "complete" /\ v.req = r /\ v.at # 0 /\ Looking \in Jobs /\ Looking.pc = "peek"
  BY <1>2, Ends DEF Jobs, IInv, Named, DeliverDue
<1>6. \/ job' = [job EXCEPT ![s] = v] /\ HandOver(r)
      \/ job' = [job EXCEPT ![s] = Looking] /\ (HandOver(r) \/ mails' = mails)
  BY <1>1 DEF DeliverDue, Move, Look
<1> HIDE DEF v
<1>7. /\ mails' \in [Requests -> [n : Nat, last : 0 .. MaxTime]]
      /\ NoSecondMail' /\ SentIsTrue' /\ Covered'
      /\ \A q \in Requests \ {r} : Untouched(q)
  <2>1. CASE HandOver(r)  BY <2>1, <1>2, <1>3, HandOverKeeps
  <2>2. CASE mails' = mails
    BY <2>2, <1>3 DEF IInv, TypeOK, NoSecondMail, SentIsTrue, Covered, Untouched
  <2> QED  BY <2>1, <2>2, <1>6
<1>8. TypeOK' /\ Named'  BY <1>1, <1>2, <1>3, <1>5, <1>6, <1>7 DEF IInv, TypeOK, Named
<1>9. Timed' /\ BookingWhole'  BY <1>3 DEF IInv, Timed, BookingWhole
<1>10. CallCarries' /\ JobCarries' /\ OneCarrier'
  <2>1. \A t \in Schedulers \ {s} : job'[t] = job[t]  BY <1>6 DEF IInv, TypeOK
  <2>2. ASSUME job'[s].pc \in InFlight
        PROVE  job'[s].req = r /\ Carried(job[s].pc, r)'
    <3>1. job'[s] = v /\ HandOver(r)  BY <2>2, <1>2, <1>5, <1>6 DEF InFlight, TypeOK
    <3>2. Carried("complete", r)'  BY <3>1, <1>2, <1>3, HandOverKeeps
    <3> QED  BY <3>1, <3>2, <1>5
  <2> QED  BY <2>1, <2>2, <1>3, <1>4, <1>7, SchedulerMoves DEF IInv
<1> QED  BY <1>7, <1>8, <1>9, <1>10 DEF IInv

LEMMA CompleteDueInv ==
  ASSUME IInv, NEW s \in Schedulers, CompleteDue(s)
  PROVE  IInv'
<1>1. PICK r \in Requests : r = job[s].req  BY DEF IInv, Named, CompleteDue
<1>2. /\ now' = now /\ quota' = quota /\ payload' = payload /\ queue' = queue /\ call' = call
      /\ mails' = mails /\ promised' = promised /\ job' = [job EXCEPT ![s] = Looking]
      /\ failures' \in 0 .. MaxFailures
  BY EmailConstantsOK DEF IInv, TypeOK, CompleteDue, Look, Fail, external
<1>3. TypeOK /\ JobOn(s, r) /\ Carried("complete", r)
  BY <1>1 DEF IInv, TypeOK, CompleteDue, JobOn, InFlight, JobCarries
<1>4. JobAlone(s, r)  BY <1>3 DEF IInv, OneCarrier, JobAlone
<1>5. /\ record' \in [Requests -> Records]
      /\ Timed' /\ BookingWhole' /\ NoSecondMail' /\ SentIsTrue' /\ Covered'
      /\ \A q \in Requests \ {r} : Untouched(q)
  <2>1. CASE SetRecord(r, "sent", 0, now + Day)  BY <2>1, <1>2, <1>3, CompleteKeeps
  <2>2. CASE record' = record
    BY <2>2, <1>2
    DEF IInv, TypeOK, Timed, BookingWhole, NoSecondMail, SentIsTrue, Covered, Untouched
  <2> QED  BY <2>1, <2>2, <1>1 DEF CompleteDue
<1>6. TypeOK' /\ Named'  BY <1>2, <1>3, <1>5, Ends DEF IInv, TypeOK, Named
<1>7. CallCarries' /\ JobCarries' /\ OneCarrier'
  <2>1. \A t \in Schedulers \ {s} : job'[t] = job[t]  BY <1>2 DEF IInv, TypeOK
  <2>2. job'[s].pc \notin InFlight  BY <1>2, <1>3, Ends DEF InFlight, TypeOK
  <2> QED  BY <2>1, <2>2, <1>2, <1>4, <1>5, SchedulerMoves DEF IInv
<1> QED  BY <1>5, <1>6, <1>7 DEF IInv

\* A record outlives the payload and the mail it stands for, and no tick passes during a delivery.
LEMMA TickInv ==
  ASSUME IInv, Tick
  PROVE  IInv'
<1>1. /\ now' = now + 1 /\ queue' = queue /\ call' = call /\ job' = job /\ promised' = promised
      /\ failures' = failures /\ now < MaxTime /\ TypeOK
  BY DEF Tick, IInv
<1>2. now \in Nat /\ Day \in Nat /\ MaxTime \in Nat /\ NoRecord \in Records /\ NoPayload \in Payloads
  BY <1>1, Times, EmailConstantsOK DEF Records, Payloads, NoRecord, NoPayload
<1>3. \A r \in Requests :
        /\ record[r] \in Records /\ payload[r] \in Payloads
        /\ mails[r] \in [n : Nat, last : 0 .. MaxTime]
        /\ record[r].exp \in Nat /\ payload[r].exp \in Nat /\ mails[r].last \in Nat
  BY <1>1, EmailConstantsOK DEF TypeOK, Records, Payloads, Instant
<1>4. \A r \in Requests :
        /\ record'[r] = IF record[r].exp > now + 1 THEN record[r] ELSE NoRecord
        /\ payload'[r] = IF payload[r].exp > now + 1 THEN payload[r] ELSE NoPayload
        /\ mails'[r] = IF mails[r].last + Day > now + 1 THEN mails[r] ELSE NoMail
  BY DEF Tick, Unexpired
<1>5. TypeOK'
  <2>1. now' \in 1 .. MaxTime  BY <1>1, <1>2
  <2>2. record' \in [Requests -> Records] /\ payload' \in [Requests -> Payloads]
    BY <1>2, <1>3 DEF Tick, Unexpired
  <2>3. mails' \in [Requests -> [n : Nat, last : 0 .. MaxTime]]
    BY <1>2, <1>3 DEF Tick, NoMail
  <2>4. quota' \in [Users -> [n : 0 .. Limit, exp : Instant]]
    <3>1. NoCount \in [n : 0 .. Limit, exp : Instant]  BY <1>1, Times DEF NoCount
    <3> QED  BY <1>1, <3>1 DEF Tick, Unexpired, TypeOK
  <2> QED  BY <1>1, <2>1, <2>2, <2>3, <2>4 DEF TypeOK
<1>6. Named' /\ Timed'  BY <1>1, <1>4 DEF IInv, Named, Timed, NoRecord
<1>7. BookingWhole'
  <2> SUFFICES ASSUME NEW r \in Requests
               PROVE  /\ record'[r].st = "scheduled" <=> payload'[r] # NoPayload
                      /\ record'[r].st = "scheduled" =>
                           /\ queue[r] = record'[r].at /\ payload'[r].at = record'[r].at
                           /\ payload'[r].exp = record'[r].exp
    BY <1>1 DEF BookingWhole
  <2>1. CASE record[r].st = "scheduled"
    BY <2>1, <1>3, <1>4 DEF IInv, BookingWhole, NoRecord
  <2>2. CASE record[r].st # "scheduled"
    BY <2>2, <1>4 DEF IInv, BookingWhole, NoRecord
  <2> QED  BY <2>1, <2>2
<1>8. NoSecondMail' /\ SentIsTrue' /\ Covered'
  <2> SUFFICES ASSUME NEW r \in Requests
               PROVE  /\ mails'[r].n <= 1
                      /\ record'[r].st = "sent" =>
                           mails'[r].n > 0 /\ record'[r].exp <= mails'[r].last + Day
                      /\ mails'[r].n # 0 => /\ record'[r].st \in {"unknown", "sent"}
                                            /\ mails'[r].last + Day <= record'[r].exp
    BY DEF NoSecondMail, SentIsTrue, Covered
  <2>1. mails'[r].n <= 1  BY <1>3, <1>4 DEF IInv, NoSecondMail, NoMail
  <2>2. record'[r].st = "sent" => mails'[r].n > 0 /\ record'[r].exp <= mails'[r].last + Day
    BY <1>2, <1>3, <1>4 DEF IInv, SentIsTrue, NoRecord
  <2>3. mails'[r].n # 0 => /\ record'[r].st \in {"unknown", "sent"}
                           /\ mails'[r].last + Day <= record'[r].exp
    BY <1>2, <1>3, <1>4 DEF IInv, Covered, NoMail
  <2> QED  BY <2>1, <2>2, <2>3
<1>9. CallCarries' /\ JobCarries' /\ OneCarrier'
  BY <1>1 DEF Tick, CallCarries, JobCarries, OneCarrier, CallOn, JobOn, InFlight
<1> QED  BY <1>5, <1>6, <1>7, <1>8, <1>9 DEF IInv

-----------------------------------------------------------------------------
LEMMA InitInv ==
  ASSUME Init
  PROVE  IInv
<1>1. TypeOK
  <2>1. 1 \in 1 .. MaxTime /\ 0 \in Instant /\ 0 \in 0 .. Limit /\ 0 \in 0 .. MaxTime
        /\ MaxFailures \in 0 .. MaxFailures
    BY EmailConstantsOK DEF Instant
  <2> QED  BY <2>1, Ends DEF Init, TypeOK, NoRecord, NoPayload, NoCount, NoMail, Records, Payloads
<1>2. Named /\ CallCarries /\ JobCarries /\ OneCarrier
  BY Ends DEF Init, Named, CallCarries, JobCarries, OneCarrier, CallOn, JobOn, InFlight
<1>3. Timed /\ BookingWhole  BY DEF Init, Timed, BookingWhole, NoRecord, NoPayload
<1>4. NoSecondMail /\ SentIsTrue /\ Covered
  BY DEF Init, NoSecondMail, SentIsTrue, Covered, NoRecord, NoMail
<1> QED  BY <1>1, <1>2, <1>3, <1>4 DEF IInv

LEMMA StepInv ==
  ASSUME IInv, [Next]_vars
  PROVE  IInv'
<1>1. ASSUME NEW c \in Callers, NEW r \in Requests, NEW at \in SendTimes, Request(c, r, at)
      PROVE  IInv'
  BY <1>1, RequestInv
<1>2. ASSUME NEW c \in Callers, CallStep(c)
      PROVE  IInv'
  BY <1>2, FindUserInv, AnswerInv, ReserveInv, ScheduleInv, DeliverInv, CompleteInv DEF CallStep
<1>3. ASSUME NEW s \in Schedulers, SchedulerStep(s) \/ StopIteration(s)
      PROVE  IInv'
  BY <1>3, PeekInv, FindRecipientInv, ClaimInv, LookInv, DeliverDueInv, CompleteDueInv
  DEF SchedulerStep
<1>4. CASE Tick  BY <1>4, TickInv
<1>5. CASE UNCHANGED vars
  BY <1>5 DEF vars, redis, external, IInv, TypeOK, Named, Timed, BookingWhole, NoSecondMail,
              SentIsTrue, Covered, CallCarries, JobCarries, OneCarrier, CallOn, JobOn, Carried
<1> QED  BY <1>1, <1>2, <1>3, <1>4, <1>5 DEF Next

\* The invariant the theorems below are read off from.
THEOREM InductiveInvariant == Spec => []IInv
BY InitInv, StepInv, PTL DEF Spec

\* Keys, calls, jobs and counters always have their types: no user is charged beyond the limit.
THEOREM TypeCorrect == Spec => []TypeOK
<1>1. IInv => TypeOK  BY DEF IInv
<1> QED  BY <1>1, InductiveInvariant, PTL

\* No request is mailed twice within a day, however often it is repeated and however many processes
\* serve it, whatever fails.
THEOREM NeverTwice == Spec => []NoSecondMail
<1>1. IInv => NoSecondMail  BY DEF IInv
<1> QED  BY <1>1, InductiveInvariant, PTL

\* The keys of a booking are written, claimed and expire together.
THEOREM BookingsWhole == Spec => []BookingWhole
<1>1. IInv => BookingWhole  BY DEF IInv
<1> QED  BY <1>1, InductiveInvariant, PTL

\* "sent", and so the answer "duplicate", is never said of a message the mail server did not take.
THEOREM SentTruthful == Spec => []SentIsTrue
<1>1. IInv => SentIsTrue  BY DEF IInv
<1> QED  BY <1>1, InductiveInvariant, PTL

-----------------------------------------------------------------------------
(***************************************************************************)
(* KeepsItsTime.  What a record says of the time that was promised: a      *)
(* booked request is booked for that time, one that was claimed was        *)
(* claimed in time and its record outlives the promise, and no call of     *)
(* send() carries a request whose promise stands.                          *)
(***************************************************************************)
Delivering(s, r) == job[s].pc = "deliver" /\ job[s].req = r

Promise(r) ==
  /\ record[r].st # "none" => record[r].exp > now
  /\ record[r].st = "scheduled" => record[r].exp = record[r].at + Day
  /\ promised[r] # 0 =>
       /\ record[r].st = "none" => promised[r] + Day <= now
       /\ record[r].st = "scheduled" => promised[r] = record[r].at
       /\ record[r].st \in {"unknown", "sent"} =>
            promised[r] <= now /\ promised[r] + Day <= record[r].exp
       /\ \A c \in Callers : ~CallOn(c, r)
       /\ \A s \in Schedulers : Delivering(s, r) => promised[r] <= now /\ now < promised[r] + Day

PInv == IInv /\ \A r \in Requests : Promise(r)

LEMMA PromiseKept ==
  ASSUME NEW r \in Requests, Promise(r), now' = now, record'[r] = record[r],
         promised'[r] = promised[r] \/ promised'[r] = 0,
         \A c \in Callers : CallOn(c, r)' => CallOn(c, r),
         \A s \in Schedulers : Delivering(s, r)' => Delivering(s, r)
  PROVE  Promise(r)'
BY DEF Promise

\* What a step of one caller or one scheduler leaves to the others.
LEMMA CallerKeeps ==
  ASSUME TypeOK, NEW c \in Callers, CallStep(c), NEW r \in Requests,
         call'[c].pc \in InFlight => call[c].pc \in InFlight \/ r # call[c].req
  PROVE  /\ \A d \in Callers : CallOn(d, r)' => CallOn(d, r)
         /\ \A s \in Schedulers : Delivering(s, r)' => Delivering(s, r)
<1>1. job' = job
  BY DEF CallStep, FindUser, TooLate, Blocked, Reserve, Schedule, Deliver, Complete, Abandon
<1>2. \A d \in Callers \ {c} : call'[d] = call[d]
  BY DEF CallStep, FindUser, TooLate, Blocked, Reserve, Schedule, Deliver, Complete, Abandon,
         Goto, Answer, TypeOK
<1>3. CallOn(c, r)' => CallOn(c, r)
  <2>1. call'[c].pc \in InFlight => call'[c].req = call[c].req
    BY DEF CallStep, FindUser, TooLate, Blocked, Reserve, Schedule, Deliver, Complete, Abandon,
           Goto, Answer, Idle, InFlight, TypeOK
  <2> QED  BY <2>1 DEF CallOn
<1> QED  BY <1>1, <1>2, <1>3 DEF CallOn, Delivering

LEMMA SchedulerKeeps ==
  ASSUME TypeOK, NEW s \in Schedulers, SchedulerStep(s) \/ StopIteration(s), NEW r \in Requests,
         job'[s].pc = "deliver" => job[s].pc = "deliver" \/ r # job[s].req
  PROVE  /\ \A c \in Callers : CallOn(c, r)' => CallOn(c, r)
         /\ \A t \in Schedulers : Delivering(t, r)' => Delivering(t, r)
<1>1. call' = call
  BY DEF SchedulerStep, Peek, FindRecipient, Claim, LoseClaim, DeliverDue, CompleteDue,
         StopIteration, external
<1>2. \A t \in Schedulers \ {s} : job'[t] = job[t]
  BY DEF SchedulerStep, Peek, FindRecipient, Claim, LoseClaim, DeliverDue, CompleteDue,
         StopIteration, Move, Look, TypeOK
<1>3. Delivering(s, r)' => Delivering(s, r)
  <2>1. job'[s].pc = "deliver" => job'[s].req = job[s].req
    BY DEF SchedulerStep, Peek, FindRecipient, Claim, LoseClaim, DeliverDue, CompleteDue,
           StopIteration, Move, Look, Looking, TypeOK
  <2> QED  BY <2>1 DEF Delivering
<1> QED  BY <1>1, <1>2, <1>3 DEF CallOn, Delivering

LEMMA PromiseCall ==
  ASSUME PInv, NEW c \in Callers, CallStep(c), NEW r \in Requests
  PROVE  Promise(r)'
<1>1. TypeOK /\ Promise(r) /\ now' = now
  BY DEF PInv, IInv, CallStep, FindUser, TooLate, Blocked, Reserve, Schedule, Deliver, Complete, Abandon
<1>2. CASE FindUser(c) \/ TooLate(c) \/ Blocked(c) \/ Deliver(c) \/ Abandon(c)
  <2>1. record' = record /\ promised' = promised
    BY <1>2 DEF FindUser, TooLate, Blocked, Deliver, Abandon, redis, external
  <2>2. call'[c].pc \in InFlight => call[c].pc \in InFlight
    BY <1>1, <1>2
    DEF FindUser, TooLate, Blocked, Deliver, Abandon, Goto, Answer, Idle, InFlight, TypeOK
  <2> QED  BY <2>1, <2>2, <1>1, CallerKeeps, PromiseKept
<1>3. CASE r # call[c].req /\ (Reserve(c) \/ Schedule(c) \/ Complete(c))
  <2>1. record'[r] = record[r] /\ promised'[r] = promised[r]
    BY <1>1, <1>3 DEF Reserve, Schedule, Complete, SetRecord, external, TypeOK
  <2> QED  BY <2>1, <1>1, <1>3, CallerKeeps, PromiseKept
<1>4. CASE r = call[c].req /\ Reserve(c)
  <2>1. record[r].st = "none" /\ promised'[r] = (IF promised[r] + Day <= now THEN 0 ELSE promised[r])
    BY <1>1, <1>4 DEF Reserve, Free, TypeOK
  <2>2. promised'[r] = 0  BY <2>1, <1>1 DEF Promise
  <2>3. record'[r].st = "unknown" /\ record'[r].exp = now + Day
    BY <1>1, <1>4 DEF Reserve, SetRecord, TypeOK
  <2> QED  BY <2>2, <2>3, <1>1, Times DEF Promise
<1>5. CASE r = call[c].req /\ Schedule(c)
  <2> DEFINE at == call[c].at
  <2>1. record[r].st = "none" /\ at \in Nat /\ now < at
    BY <1>1, <1>5, EmailConstantsOK
    DEF Schedule, Free, InTime, ValidSendAt, TypeOK, Calls, SendTimes
  <2>2. record'[r].st = "scheduled" /\ record'[r].at = at /\ record'[r].exp = at + Day /\ promised'[r] = at
    BY <1>1, <1>5 DEF Schedule, SetRecord, TypeOK
  <2>3. (\A d \in Callers : ~CallOn(d, r)) /\ (\A s \in Schedulers : ~JobOn(s, r))
    BY <2>1 DEF PInv, IInv, CallCarries, JobCarries, Carried
  <2>4. (\A d \in Callers : ~CallOn(d, r)') /\ (\A s \in Schedulers : ~Delivering(s, r)')
    <3>1. call' = [call EXCEPT ![c] = Idle] /\ job' = job  BY <1>5 DEF Schedule, Answer
    <3> QED  BY <2>3, <3>1, <1>1 DEF CallOn, JobOn, InFlight, Idle, Delivering, TypeOK
  <2> HIDE DEF at
  <2> QED  BY <2>1, <2>2, <2>4, <1>1, Times DEF Promise
<1>6. CASE r = call[c].req /\ Complete(c)
  <2>1. promised[r] = 0  BY <1>1, <1>6 DEF Promise, Complete, CallOn, InFlight
  <2>2. promised'[r] = 0  BY <2>1, <1>6 DEF Complete, external
  <2>3. \/ record'[r].st = "sent" /\ record'[r].exp = now + Day
        \/ record'[r] = record[r]
    BY <1>1, <1>6 DEF Complete, SetRecord, TypeOK
  <2> QED  BY <2>2, <2>3, <1>1, Times DEF Promise
<1> QED  BY <1>2, <1>3, <1>4, <1>5, <1>6 DEF CallStep

LEMMA PromiseJob ==
  ASSUME PInv, NEW s \in Schedulers, SchedulerStep(s) \/ StopIteration(s), NEW r \in Requests
  PROVE  Promise(r)'
<1>1. TypeOK /\ Promise(r) /\ now' = now
  BY DEF PInv, IInv, SchedulerStep, Peek, FindRecipient, Claim, LoseClaim, DeliverDue, CompleteDue,
         StopIteration
<1>2. CASE Peek(s) \/ FindRecipient(s) \/ LoseClaim(s) \/ DeliverDue(s) \/ StopIteration(s)
  <2>1. record' = record /\ (promised'[r] = promised[r] \/ promised'[r] = 0)
    <3>1. CASE DeliverDue(s)  BY <3>1, <1>1 DEF DeliverDue, Settle, redis, TypeOK
    <3> QED  BY <3>1, <1>2 DEF Peek, FindRecipient, LoseClaim, StopIteration, redis, external
  <2>2. job'[s].pc = "deliver" => job[s].pc = "deliver"
    BY <1>1, <1>2
    DEF Peek, FindRecipient, LoseClaim, DeliverDue, StopIteration, Move, Look, Looking, TypeOK
  <2> QED  BY <2>1, <2>2, <1>1, SchedulerKeeps, PromiseKept
<1>3. CASE r # job[s].req /\ (Claim(s) \/ CompleteDue(s))
  <2>1. record'[r] = record[r] /\ promised'[r] = promised[r]
    BY <1>1, <1>3 DEF Claim, CompleteDue, SetRecord, Settle, external, TypeOK
  <2> QED  BY <2>1, <1>1, <1>3, SchedulerKeeps, PromiseKept
<1>4. CASE r = job[s].req /\ CompleteDue(s)
  <2>1. Carried("complete", r)
    BY <1>4 DEF PInv, IInv, CompleteDue, JobCarries, JobOn, InFlight
  <2>2. \/ record'[r].st = "sent" /\ record'[r].exp = now + Day
        \/ record'[r] = record[r]
    BY <1>1, <1>4 DEF CompleteDue, SetRecord, TypeOK
  <2>3. promised' = promised /\ job'[s].pc # "deliver"
    BY <1>1, <1>4 DEF CompleteDue, Look, Looking, external, TypeOK
  <2>4. promised[r] \in Nat  BY <1>1, EmailConstantsOK DEF TypeOK, Instant
  <2>5. promised[r] # 0 => promised[r] <= now  BY <1>1, <2>1 DEF Promise, Carried
  <2> QED  BY <2>2, <2>3, <2>4, <2>5, <1>1, SchedulerKeeps, Times DEF Promise
<1>5. CASE r = job[s].req /\ Claim(s)
  <2>1. payload[r].at # 0  BY <1>5 DEF PInv, IInv, Named, Claim, Claimable
  <2>2. record[r].st = "scheduled" /\ queue[r] = record[r].at
    BY <2>1 DEF PInv, IInv, BookingWhole, NoPayload
  <2>3. record[r].at <= now /\ now < record[r].at + Day
    BY <2>2, <1>1, <1>5 DEF Claim, Claimable, Promise
  <2>4. record'[r].st = "unknown" /\ record'[r].exp = now + Day
    BY <1>1, <1>5 DEF Claim, SetRecord, TypeOK
  <2>5. promised'[r] = promised[r] \/ promised'[r] = 0
    BY <1>1, <1>5 DEF Claim, Settle, TypeOK
  <2>6. \A c \in Callers : ~CallOn(c, r)'
    BY <2>2, <1>5 DEF PInv, IInv, CallCarries, Carried, CallOn, Claim
  <2>7. promised[r] # 0 => promised[r] = record[r].at  BY <2>2, <1>1 DEF Promise
  <2>8. promised[r] \in Nat  BY <1>1, EmailConstantsOK DEF TypeOK, Instant
  <2> QED  BY <2>3, <2>4, <2>5, <2>6, <2>7, <2>8, <1>1, Times DEF Promise
<1> QED  BY <1>2, <1>3, <1>4, <1>5 DEF SchedulerStep

LEMMA PromiseTick ==
  ASSUME PInv, Tick, NEW r \in Requests
  PROVE  Promise(r)'
<1>1. TypeOK /\ Promise(r) /\ now' = now + 1 /\ promised' = promised
  BY DEF PInv, IInv, Tick
<1>2. record'[r] = IF record[r].exp > now + 1 THEN record[r] ELSE NoRecord
  BY DEF Tick, Unexpired
<1>3. (\A c \in Callers : ~CallOn(c, r)') /\ (\A s \in Schedulers : ~Delivering(s, r)')
  BY DEF Tick, CallOn, Delivering, InFlight
<1>4. promised[r] \in Nat /\ record[r].exp \in Nat /\ record[r].at \in Nat
      /\ record[r].st \in {"none", "unknown", "sent", "scheduled"}
  BY <1>1, EmailConstantsOK DEF TypeOK, Instant, Records
<1>5. CASE record[r].exp > now + 1
  BY <1>1, <1>2, <1>3, <1>4, <1>5, Times DEF Promise
<1>6. CASE record[r].exp <= now + 1
  <2>1. record'[r].st = "none"  BY <1>2, <1>4, <1>6, <1>1, Times DEF NoRecord
  <2>2. promised[r] # 0 => promised[r] + Day <= now + 1
    BY <1>1, <1>4, <1>6, Times DEF Promise
  <2> QED  BY <2>1, <2>2, <1>1, <1>3 DEF Promise
<1> QED  BY <1>4, <1>5, <1>6, <1>1, Times

\* A mail that is handed over while its promise stands is handed over in time.
LEMMA InTimeStep ==
  ASSUME PInv, [Next]_vars, NEW r \in Requests, mails'[r].n > mails[r].n, promised[r] # 0
  PROVE  promised[r] <= now /\ now < promised[r] + Day
<1>1. TypeOK /\ Promise(r) /\ mails[r].n \in Nat  BY DEF PInv, IInv, TypeOK
<1>2. mails'[r] # mails[r]  BY <1>1
<1>3. CASE \E c \in Callers : Deliver(c) /\ call[c].req = r
  BY <1>1, <1>3 DEF Promise, Deliver, CallOn, InFlight
<1>4. CASE \E s \in Schedulers : DeliverDue(s) /\ job[s].req = r
  BY <1>1, <1>4 DEF Promise, DeliverDue, Delivering
<1>5. CASE Tick  BY <1>1, <1>5 DEF Tick, NoMail
<1>6. \/ \E c \in Callers : Deliver(c) /\ call[c].req = r
      \/ \E s \in Schedulers : DeliverDue(s) /\ job[s].req = r
      \/ Tick
  <2>1. ASSUME NEW c \in Callers, NEW q \in Requests, NEW at \in SendTimes, Request(c, q, at)
        PROVE  FALSE
    BY <2>1, <1>2 DEF Request, external
  <2>2. ASSUME NEW c \in Callers, CallStep(c)
        PROVE  Deliver(c) /\ call[c].req = r
    BY <2>2, <1>1, <1>2 DEF CallStep, FindUser, TooLate, Blocked, Reserve, Schedule, Deliver,
                            Complete, Abandon, HandOver, external, TypeOK
  <2>3. ASSUME NEW s \in Schedulers, SchedulerStep(s) \/ StopIteration(s)
        PROVE  DeliverDue(s) /\ job[s].req = r
    BY <2>3, <1>1, <1>2 DEF SchedulerStep, Peek, FindRecipient, Claim, LoseClaim, DeliverDue,
                            CompleteDue, StopIteration, HandOver, external, TypeOK
  <2>4. vars' # vars  BY <1>2 DEF vars, external
  <2> QED  BY <2>1, <2>2, <2>3, <2>4 DEF Next
<1> QED  BY <1>3, <1>4, <1>5, <1>6

LEMMA PromiseInit ==
  ASSUME Init
  PROVE  PInv
BY InitInv DEF PInv, Init, Promise, NoRecord

LEMMA PromiseStep ==
  ASSUME PInv, [Next]_vars
  PROVE  PInv'
<1>1. IInv'  BY StepInv DEF PInv
<1> SUFFICES ASSUME NEW r \in Requests
             PROVE  Promise(r)'
  BY <1>1 DEF PInv
<1>2. ASSUME NEW c \in Callers, NEW q \in Requests, NEW at \in SendTimes, Request(c, q, at)
      PROVE  Promise(r)'
  <2>1. TypeOK /\ Promise(r) /\ now' = now /\ record' = record /\ promised' = promised /\ job' = job
    BY <1>2 DEF PInv, IInv, Request, redis, external
  <2>2. \A d \in Callers : CallOn(d, r)' => CallOn(d, r)
    BY <1>2, <2>1 DEF Request, CallOn, InFlight, TypeOK
  <2>3. \A s \in Schedulers : Delivering(s, r)' => Delivering(s, r)  BY <2>1 DEF Delivering
  <2> QED  BY <2>1, <2>2, <2>3, PromiseKept
<1>3. CASE UNCHANGED vars
  BY <1>3 DEF vars, redis, external, PInv, Promise, CallOn, Delivering
<1> QED  BY <1>2, <1>3, PromiseCall, PromiseJob, PromiseTick DEF Next

\* A booked message is never sent early, nor a day late, whoever repeats its request in the meantime.
THEOREM TimeKept == Spec => KeepsItsTime
<1>1. PInv /\ [Next]_vars =>
        [\A r \in Requests : mails'[r].n > mails[r].n /\ promised[r] # 0
           => promised[r] <= now /\ now < promised[r] + Day]_vars
  BY InTimeStep
<1> QED  BY <1>1, PromiseInit, PromiseStep, PTL DEF Spec, KeepsItsTime

-----------------------------------------------------------------------------
(***************************************************************************)
(* ChargedOnce.  The counter of a user expires no later than the records   *)
(* it was charged for, so that none of these goes before it does: it is    *)
(* never above the number of the records that outlive it (Account).        *)
(***************************************************************************)
OfUser(u) == {r \in Requests : UserOf[r] = u /\ record[r].st # "none"}
Charged(u) == {r \in OfUser(u) : quota[u].exp <= record[r].exp}

Account(u) ==
  /\ IsFiniteSet(OfUser(u))
  /\ quota[u].exp <= now + Day
  /\ quota[u].n <= Cardinality(Charged(u))

CInv == IInv /\ \A u \in Users : Account(u)

LEMMA AccountTypes ==
  ASSUME TypeOK
  PROVE  /\ \A u \in Users : quota[u].n \in Nat /\ quota[u].exp \in Nat
         /\ \A r \in Requests : record[r].exp \in Nat /\ UserOf[r] \in Users
  BY EmailConstantsOK DEF TypeOK, Records, Instant

\* The sets that are counted are finite.
LEMMA Countable ==
  ASSUME NEW u, IsFiniteSet(OfUser(u))
  PROVE  IsFiniteSet(Charged(u)) /\ Cardinality(Charged(u)) \in Nat
<1>1. Charged(u) \in SUBSET OfUser(u)
  BY DEF Charged
<1> QED BY <1>1, FS_Subset, FS_CardinalityType

\* Where one record is written anew, no user's records become infinite.
LEMMA StaysFinite ==
  ASSUME NEW u, IsFiniteSet(OfUser(u)), NEW q,
         \A r \in Requests \ {q} : record'[r] = record[r]
  PROVE  IsFiniteSet(OfUser(u)')
<1>1. OfUser(u)' \in SUBSET (OfUser(u) \cup {q})
  BY DEF OfUser
<1>2. IsFiniteSet(OfUser(u) \cup {q})
  BY FS_AddElement
<1> QED BY <1>1, <1>2, FS_Subset

\* A step that charges nobody, and gives at most one request a fresh record.
LEMMA AccountKept ==
  ASSUME CInv, TypeOK', now' = now, quota' = quota, NEW q,
         \A r \in Requests \ {q} : record'[r] = record[r],
         \/ record' = record
         \/ q \in Requests /\ record'[q].st # "none" /\ now + Day <= record'[q].exp,
         NEW u \in Users
  PROVE  Account(u)'
<1>1. TypeOK /\ Account(u)
  BY DEF CInv, IInv
<1>2. IsFiniteSet(OfUser(u)')
  BY <1>1, StaysFinite DEF Account
<1>3. Charged(u) \subseteq Charged(u)'
  <2> SUFFICES ASSUME NEW r \in Charged(u) PROVE r \in Charged(u)'
    OBVIOUS
  <2>1. CASE r # q \/ record' = record
    BY <2>1 DEF Charged, OfUser
  <2>2. CASE r = q /\ record' # record
    <3>1. quota[u].exp <= record'[q].exp
      BY <2>2, <1>1, AccountTypes, Times, EmailConstantsOK DEF Account, TypeOK, Records, Instant
    <3> QED BY <2>2, <3>1 DEF Charged, OfUser
  <2> QED BY <2>1, <2>2
<1>4. IsFiniteSet(Charged(u)') /\ Cardinality(Charged(u)') \in Nat
  <2>1. Charged(u)' \in SUBSET (OfUser(u)')
    BY DEF Charged
  <2> QED BY <1>2, <2>1, FS_Subset, FS_CardinalityType
<1>5. Cardinality(Charged(u)) <= Cardinality(Charged(u)') /\ Cardinality(Charged(u)) \in Nat
  BY <1>1, <1>3, <1>4, FS_Subset, Countable DEF Account
<1>6. quota[u].n <= Cardinality(Charged(u)')
  BY <1>1, <1>4, <1>5, AccountTypes DEF Account
<1> QED BY <1>1, <1>2, <1>6 DEF Account

\* A step that charges the user of a request which had no record, and gives it one.
LEMMA AccountCharged ==
  ASSUME CInv, TypeOK', now' = now, NEW q \in Requests, Free(q), Charge(UserOf[q]),
         \A r \in Requests \ {q} : record'[r] = record[r],
         record'[q].st # "none", now + Day <= record'[q].exp,
         NEW u \in Users
  PROVE  Account(u)'
<1>1. TypeOK /\ Account(u)
  BY DEF CInv, IInv
<1>2. IsFiniteSet(OfUser(u)')
  BY <1>1, StaysFinite DEF Account
<1>3. /\ quota[u].n \in Nat /\ quota[u].exp \in Nat /\ now \in Nat /\ Day \in Nat
      /\ record'[q].exp \in Nat
  BY <1>1, AccountTypes, Times, EmailConstantsOK DEF TypeOK, Records, Instant
<1>4. CASE u # UserOf[q]
  <2>1. quota'[u] = quota[u]
    BY <1>1, <1>4 DEF Charge, TypeOK
  <2>2. Charged(u)' = Charged(u)
    BY <2>1, <1>4 DEF Charged, OfUser
  <2> QED BY <1>1, <1>2, <2>1, <2>2 DEF Account
<1>5. CASE u = UserOf[q]
  <2>1. quota'[u] = [n |-> quota[u].n + 1, exp |-> IF quota[u].n = 0 THEN now + Day ELSE quota[u].exp]
    BY <1>1, <1>5 DEF Charge, TypeOK
  <2>2. quota'[u].n = quota[u].n + 1 /\ quota'[u].exp <= now + Day
    BY <2>1, <1>1, <1>3 DEF Account
  <2>3. quota'[u].exp \in Nat
    BY <2>1, <1>3
  <2>4. q \in Charged(u)'
    BY <1>3, <1>5, <2>2, <2>3 DEF Charged, OfUser
  <2>5. IsFiniteSet(Charged(u)') /\ Cardinality(Charged(u)') \in Nat
    <3>1. Charged(u)' \in SUBSET (OfUser(u)')
      BY DEF Charged
    <3> QED BY <1>2, <3>1, FS_Subset, FS_CardinalityType
  <2>6. quota[u].n + 1 <= Cardinality(Charged(u)')
    <3>1. CASE quota[u].n = 0
      BY <3>1, <2>4, <2>5, FS_EmptySet
    <3>2. CASE quota[u].n # 0
      <4>1. quota'[u].exp = quota[u].exp
        BY <2>1, <3>2
      <4>2. q \notin Charged(u)
        BY DEF Charged, OfUser, Free
      <4>3. Charged(u) \cup {q} \in SUBSET (Charged(u)')
        BY <2>4, <4>1, <4>2 DEF Charged, OfUser
      <4>4. IsFiniteSet(Charged(u)) /\ Cardinality(Charged(u)) \in Nat
        BY <1>1, Countable DEF Account
      <4>5. Cardinality(Charged(u) \cup {q}) = Cardinality(Charged(u)) + 1
        BY <4>2, <4>4, FS_AddElement
      <4>6. Cardinality(Charged(u) \cup {q}) <= Cardinality(Charged(u)')
        BY <2>5, <4>3, FS_Subset
      <4> QED BY <1>1, <1>3, <2>5, <4>4, <4>5, <4>6 DEF Account
    <3> QED BY <3>1, <3>2
  <2>7. now' + Day = now + Day
    OBVIOUS
  <2> QED BY <1>2, <2>2, <2>6, <2>7 DEF Account
<1> QED BY <1>4, <1>5

\* The counter goes with the first record it was charged for, or before.
LEMMA AccountTick ==
  ASSUME CInv, Tick, TypeOK', NEW u \in Users
  PROVE  Account(u)'
<1>1. TypeOK /\ Account(u) /\ now' = now + 1
  BY DEF CInv, IInv, Tick
<1>2. /\ \A r \in Requests : record'[r] = IF record[r].exp > now + 1 THEN record[r] ELSE NoRecord
      /\ quota'[u] = IF quota[u].exp > now + 1 THEN quota[u] ELSE NoCount
  BY DEF Tick, Unexpired
<1>3. /\ quota[u].n \in Nat /\ quota[u].exp \in Nat /\ now \in Nat /\ Day \in Nat
      /\ \A r \in Requests : record[r].exp \in Nat
  BY <1>1, AccountTypes, Times
<1>4. OfUser(u)' \in SUBSET OfUser(u)
  BY <1>2 DEF OfUser, NoRecord
<1>5. IsFiniteSet(OfUser(u)')
  BY <1>1, <1>4, FS_Subset DEF Account
<1>6. Charged(u)' \in SUBSET (OfUser(u)')
  BY DEF Charged
<1>7. Cardinality(Charged(u)') \in Nat
  BY <1>5, <1>6, FS_Subset, FS_CardinalityType
<1>8. CASE quota[u].exp > now + 1
  <2>1. quota'[u] = quota[u]
    BY <1>2, <1>8
  <2>2. Charged(u)' = Charged(u)
    BY <1>2, <1>3, <1>8, <2>1 DEF Charged, OfUser, NoRecord
  <2> QED BY <1>1, <1>3, <1>5, <2>1, <2>2 DEF Account
<1>9. CASE ~(quota[u].exp > now + 1)
  <2>1. quota'[u].n = 0 /\ quota'[u].exp = 0
    BY <1>2, <1>9 DEF NoCount
  <2> QED BY <1>1, <1>3, <1>5, <1>7, <2>1 DEF Account
<1> QED BY <1>8, <1>9

LEMMA AccountInit ==
  ASSUME Init
  PROVE  CInv
<1>1. IInv
  BY InitInv
<1>2. ASSUME NEW u \in Users PROVE Account(u)
  <2>1. OfUser(u) = {} /\ Charged(u) = {}
    BY DEF Init, OfUser, Charged, NoRecord
  <2>2. quota[u].n = 0 /\ quota[u].exp = 0
    BY DEF Init, NoCount
  <2> QED BY <1>1, <2>1, <2>2, FS_EmptySet, Times DEF Account, IInv
<1> QED BY <1>1, <1>2 DEF CInv

\* What a step of the skill does to the records and the counters.
LEMMA AccountStep ==
  ASSUME CInv, [Next]_vars
  PROVE  CInv'
<1>1. IInv' /\ TypeOK' /\ TypeOK
  BY StepInv DEF CInv, IInv
<1> SUFFICES ASSUME NEW u \in Users PROVE Account(u)'
  BY <1>1 DEF CInv
<1>2. CASE now' = now /\ quota' = quota /\ record' = record
  BY <1>1, <1>2, AccountKept
<1>3. ASSUME NEW c \in Callers, Reserve(c) \/ Schedule(c) PROVE Account(u)'
  <2> DEFINE q == call[c].req
  <2>1. q \in Requests
    BY <1>3 DEF CInv, IInv, Named, Reserve, Schedule
  <2>2. now' = now /\ Free(q) /\ Charge(UserOf[q])
    BY <1>3 DEF Reserve, Schedule
  <2>3. \A r \in Requests \ {q} : record'[r] = record[r]
    BY <1>1, <1>3 DEF Reserve, Schedule, SetRecord, TypeOK
  <2>4. record'[q].st # "none" /\ now + Day <= record'[q].exp
    <3>1. CASE Reserve(c)
      BY <1>1, <2>1, <3>1, Times DEF Reserve, SetRecord, TypeOK
    <3>2. CASE Schedule(c)
      <4>1. record'[q] = [st |-> "scheduled", at |-> call[c].at, exp |-> call[c].at + Day]
        BY <1>1, <2>1, <3>2 DEF Schedule, SetRecord, TypeOK
      <4>2. call[c].at \in Nat /\ now < call[c].at
        BY <1>1, <3>2, EmailConstantsOK DEF Schedule, InTime, ValidSendAt, TypeOK, Calls, SendTimes
      <4> QED BY <1>1, <4>1, <4>2, Times
    <3> QED BY <1>3, <3>1, <3>2
  <2> HIDE DEF q
  <2> QED BY <1>1, <2>1, <2>2, <2>3, <2>4, AccountCharged
<1>4. ASSUME NEW q \in Requests, now' = now, quota' = quota, SetRecord(q, "sent", 0, now + Day)
      PROVE  Account(u)'
  <2>1. /\ \A r \in Requests \ {q} : record'[r] = record[r]
        /\ record'[q].st # "none" /\ now + Day <= record'[q].exp
    BY <1>1, <1>4, Times DEF SetRecord, TypeOK
  <2> QED BY <1>1, <1>4, <2>1, AccountKept
<1>5. ASSUME NEW q \in Requests, now' = now, quota' = quota, SetRecord(q, "unknown", 0, now + Day)
      PROVE  Account(u)'
  <2>1. /\ \A r \in Requests \ {q} : record'[r] = record[r]
        /\ record'[q].st # "none" /\ now + Day <= record'[q].exp
    BY <1>1, <1>5, Times DEF SetRecord, TypeOK
  <2> QED BY <1>1, <1>5, <2>1, AccountKept
<1>6. ASSUME NEW c \in Callers, CallStep(c) PROVE Account(u)'
  <2>1. CASE FindUser(c) \/ TooLate(c) \/ Blocked(c) \/ Deliver(c) \/ Abandon(c)
    BY <2>1, <1>2 DEF FindUser, TooLate, Blocked, Deliver, Abandon, redis
  <2>2. CASE Complete(c)
    BY <2>2, <1>2, <1>4 DEF Complete, CInv, IInv, Named
  <2> QED BY <1>3, <1>6, <2>1, <2>2 DEF CallStep
<1>7. ASSUME NEW s \in Schedulers, SchedulerStep(s) \/ StopIteration(s) PROVE Account(u)'
  <2>1. CASE Peek(s) \/ FindRecipient(s) \/ LoseClaim(s) \/ DeliverDue(s) \/ StopIteration(s)
    BY <2>1, <1>2 DEF Peek, FindRecipient, LoseClaim, DeliverDue, StopIteration, redis
  <2>2. CASE Claim(s)
    BY <2>2, <1>5 DEF Claim, CInv, IInv, Named
  <2>3. CASE CompleteDue(s)
    BY <2>3, <1>2, <1>4 DEF CompleteDue, CInv, IInv, Named
  <2> QED BY <1>7, <2>1, <2>2, <2>3 DEF SchedulerStep
<1>8. ASSUME NEW c \in Callers, NEW r \in Requests, NEW at \in SendTimes, Request(c, r, at)
      PROVE  Account(u)'
  BY <1>2, <1>8 DEF Request, redis
<1>9. CASE UNCHANGED vars
  BY <1>2, <1>9 DEF vars, redis
<1> QED BY <1>1, <1>6, <1>7, <1>8, <1>9, AccountTick DEF Next

LEMMA AccountsRight == CInv => ChargedOnce
<1> SUFFICES ASSUME CInv, NEW u \in Users PROVE quota[u].n <= Cardinality(OfUser(u))
  BY DEF ChargedOnce, OfUser
<1>1. TypeOK /\ Account(u)
  BY DEF CInv, IInv
<1>2. Charged(u) \in SUBSET OfUser(u)
  BY DEF Charged
<1>3. /\ Cardinality(Charged(u)) <= Cardinality(OfUser(u))
      /\ Cardinality(Charged(u)) \in Nat /\ Cardinality(OfUser(u)) \in Nat
  BY <1>1, <1>2, FS_Subset, FS_CardinalityType, Countable DEF Account
<1> QED BY <1>1, <1>3, AccountTypes DEF Account

\* A user's daily limit is not used up by anything but requests with a record of their own:
\* repeating, refusing, failing and delivering a request are free.
THEOREM ChargesAreOwed == Spec => []ChargedOnce
BY AccountInit, AccountStep, AccountsRight, PTL DEF Spec

-----------------------------------------------------------------------------
(***************************************************************************)
(* The dialogue.  Every turn but a cancelled one changes the skill's state *)
(* by a step of the skill, so that what is proved of EmailSkill holds in   *)
(* the chats.  TimeNotDropped needs that a draft for which the user has    *)
(* given a time, marked as one, is never one of a message to go at once    *)
(* (Kept).                                                                 *)
(***************************************************************************)
Served == \A t \in Threads : turn[t].pc # "idle" => turn[t].msg \in Messages
Kept == \A t \in Threads : wanted[t].marked => draft[t].timing # "immediate"

TurnTypes ==
  /\ draft \in [Threads -> Drafts]
  /\ turn \in [Threads -> [pc : {"idle", "intent", "send"}, live : BOOLEAN,
                           msg : Messages \cup {None}, want : Wishes]]
  /\ heard \subseteq Messages
  /\ wanted \in [Threads -> Wishes]

DInv == CInv /\ TurnTypes /\ Served /\ Kept /\ TimeNotDropped

\* A turn is cancelled, or its process stops, before it calls send().
Spare == Fail /\ UNCHANGED <<now, redis, call, job, external>>

LEMMA TimesAreTimes ==
  /\ 0 \in SendTimes /\ NoWish \in Wishes /\ ~NoWish.marked
  /\ \A w \in Wishes : [at |-> w.at, marked |-> TRUE] \in Wishes
  /\ \A i \in EmailIntent : i.at \in SendTimes /\ i.timing \in Timings
  BY EmailConstantsOK DEF SendTimes, Unclear, EmailIntent, Wishes, NoWish

\* What a turn works with is a draft like any other, and what the user wants is known.
LEMMA Merged ==
  ASSUME TurnTypes, NEW t \in Threads, NEW i \in EmailIntent
  PROVE  /\ WithPending(t, i).timing \in Timings /\ WithPending(t, i).at \in SendTimes
         /\ Wanted(t, i) \in Wishes
<1>1. draft[t].timing \in Timings /\ draft[t].at \in SendTimes /\ wanted[t] \in Wishes
  BY DEF TurnTypes, Drafts
<1>2. WithPending(t, i).timing \in {draft[t].timing, i.timing} /\ WithPending(t, i).at \in {draft[t].at, i.at}
  BY DEF WithPending, EmailIntent
<1>3. Wanted(t, i) \in Wishes
  BY <1>1, TimesAreTimes DEF Wanted, Wishes
<1> QED BY <1>1, <1>2, <1>3, TimesAreTimes

\* A time that is wanted and marked stays with the message: only one that goes at once has none.
LEMMA WantedIsKept ==
  ASSUME TurnTypes, Kept, NEW t \in Threads, NEW i \in EmailIntent, Wanted(t, i).marked
  PROVE  WithPending(t, i).timing # "immediate"
<1>1. CASE i.timing # "immediate"
  BY <1>1, TimesAreTimes DEF WithPending, EmailIntent
<1>2. CASE i.timing = "immediate"
  <2>1. turn[t].live /\ ~i.clear /\ wanted[t].marked /\ i.at = 0
    BY <1>2, TimesAreTimes DEF Wanted
  <2>2. draft[t].timing # "immediate"
    BY <2>1 DEF Kept
  <2>3. WithPending(t, i).timing = draft[t].timing
    BY <2>1, <2>2 DEF WithPending, EmailIntent
  <2> QED BY <2>2, <2>3
<1> QED BY <1>1, <1>2

\* Everything a chat does to the skill is a step of the skill, or of a turn that stops before it.
LEMMA DialogueIsSkill ==
  ASSUME DInv, [DialogueNext]_allVars
  PROVE  [Next]_vars \/ Spare
<1>1. ASSUME NEW t \in Threads, NEW m \in Messages, Hear(t, m) PROVE UNCHANGED vars
  BY <1>1 DEF Hear
<1>2. ASSUME NEW t \in Threads, Drop(t) \/ \E i \in EmailIntent : Collect(t, i) PROVE UNCHANGED vars
  BY <1>2 DEF Drop, Collect
<1>3. ASSUME NEW t \in Threads, NEW i \in EmailIntent, Send(t, i) PROVE [Next]_vars
  <2>1. CASE UNCHANGED vars
    BY <2>1
  <2>2. CASE Request(t, turn[t].msg, WithPending(t, i).at)
    <3>1. t \in Callers /\ turn[t].msg \in Requests /\ WithPending(t, i).at \in SendTimes
      BY <1>3, Merged, DialogueConstantsOK DEF DInv, Served, Send
    <3> QED BY <2>2, <3>1 DEF Next
  <2> QED BY <1>3, <2>1, <2>2 DEF Send
<1>4. ASSUME NEW t \in Threads, Sending(t) PROVE [Next]_vars
  <2>1. CallStep(t) /\ t \in Callers
    BY <1>4, DialogueConstantsOK DEF Sending, CallStep
  <2> QED BY <2>1 DEF Next
<1>5. ASSUME NEW t \in Threads, Interrupt(t) PROVE [Next]_vars \/ Spare
  <2>1. t \in Callers
    BY DialogueConstantsOK
  <2>2. CASE Abandon(t)
    BY <2>1, <2>2 DEF Next, CallStep
  <2> QED BY <1>5, <2>2 DEF Interrupt, Spare
<1>6. ASSUME \/ \E c \in Callers \ Threads :
                  \/ \E r \in Requests \ Messages, at \in SendTimes : Request(c, r, at)
                  \/ CallStep(c)
             \/ \E s \in Schedulers : SchedulerStep(s) \/ StopIteration(s)
             \/ Tick
      PROVE  Next
  BY <1>6 DEF Next
<1>7. CASE UNCHANGED allVars
  BY <1>7 DEF allVars
<1> QED BY <1>1, <1>2, <1>3, <1>4, <1>5, <1>6, <1>7 DEF DialogueNext

LEMMA SpareKeeps ==
  ASSUME CInv, Spare
  PROVE  CInv'
<1>1. failures' \in 0 .. MaxFailures
  BY EmailConstantsOK DEF CInv, IInv, TypeOK, Spare, Fail
<1>2. /\ now' = now /\ record' = record /\ quota' = quota /\ payload' = payload /\ queue' = queue
      /\ call' = call /\ job' = job /\ mails' = mails /\ promised' = promised
  BY DEF Spare, redis, external
<1>3. IInv'
  BY <1>1, <1>2 DEF CInv, IInv, TypeOK, Named, Timed, BookingWhole, NoSecondMail, SentIsTrue,
                    Covered, CallCarries, JobCarries, OneCarrier, CallOn, JobOn, Carried
<1>4. \A u \in Users : Account(u)'
  BY <1>2 DEF CInv, Account, Charged, OfUser
<1> QED BY <1>3, <1>4 DEF CInv

\* A call of send() keeps its time until it ends, and leaves the other calls alone.
LEMMA OthersRest ==
  ASSUME TypeOK, NEW c \in Callers, CallStep(c)
  PROVE  /\ \A d \in Callers \ {c} : call'[d] = call[d]
         /\ call'[c].pc # "idle" => call'[c].at = call[c].at
<1>1. \A d \in Callers \ {c} : call'[d] = call[d]
  BY DEF CallStep, FindUser, TooLate, Blocked, Reserve, Schedule, Deliver, Complete, Abandon,
         Goto, Answer, TypeOK
<1>2. call'[c].pc # "idle" => call'[c].at = call[c].at
  BY DEF CallStep, FindUser, TooLate, Blocked, Reserve, Schedule, Deliver, Complete, Abandon,
         Goto, Answer, Idle, TypeOK
<1> QED BY <1>1, <1>2

\* The end of a turn: its draft is replaced, and nobody else's call is touched.
LEMMA TurnEnds ==
  ASSUME DInv, NEW t \in Threads, NEW d \in Drafts, NEW w \in Wishes,
         EndTurn(t, d, w), w.marked => d.timing # "immediate",
         \A q \in Threads \ {t} : call'[q] = call[q]
  PROVE  TurnTypes' /\ Served' /\ Kept' /\ TimeNotDropped'
<1>1. NoTurn \in [pc : {"idle", "intent", "send"}, live : BOOLEAN,
                  msg : Messages \cup {None}, want : Wishes]
      /\ NoTurn.pc = "idle"
  BY TimesAreTimes DEF NoTurn
<1>2. TurnTypes'
  BY <1>1 DEF DInv, TurnTypes, EndTurn
<1>3. /\ turn'[t] = NoTurn /\ draft'[t] = d /\ wanted'[t] = w
      /\ \A q \in Threads \ {t} : turn'[q] = turn[q] /\ draft'[q] = draft[q] /\ wanted'[q] = wanted[q]
  BY DEF DInv, TurnTypes, EndTurn
<1> QED BY <1>1, <1>2, <1>3 DEF DInv, Served, Kept, TimeNotDropped

LEMMA DraftsAreDrafts ==
  ASSUME TypeOK, NEW tm \in Timings, NEW at \in SendTimes
  PROVE  [timing |-> tm, at |-> at, exp |-> now + DraftTime] \in Drafts /\ NoDraft \in Drafts
<1>1. now + DraftTime \in 0 .. MaxTime + DraftTime /\ 0 \in 0 .. MaxTime + DraftTime
  BY EmailConstantsOK, DialogueConstantsOK DEF TypeOK
<1> QED BY <1>1, TimesAreTimes DEF Drafts, NoDraft, Timings

LEMMA TurnRests ==
  ASSUME DInv, UNCHANGED dialogue, \A t \in Threads : call'[t].pc # "idle" => call'[t].at = call[t].at,
         \A t \in Threads : turn[t].pc = "send" => call'[t].pc # "idle" \/ call'[t] = call[t]
  PROVE  TurnTypes' /\ Served' /\ Kept' /\ TimeNotDropped'
<1>1. draft' = draft /\ turn' = turn /\ heard' = heard /\ wanted' = wanted
  BY DEF dialogue
<1> QED BY <1>1 DEF DInv, TurnTypes, Served, Kept, TimeNotDropped

LEMMA TurnsStep ==
  ASSUME DInv, [DialogueNext]_allVars
  PROVE  TurnTypes' /\ Served' /\ Kept' /\ TimeNotDropped'
<1>1. TypeOK /\ TurnTypes
  BY DEF DInv, CInv, IInv
<1>2. ASSUME NEW t \in Threads, NEW m \in Messages, Hear(t, m)
      PROVE  TurnTypes' /\ Served' /\ Kept' /\ TimeNotDropped'
  <2> DEFINE n == [pc |-> "intent", live |-> draft[t].exp > now, msg |-> m, want |-> NoWish]
  <2>1. n \in [pc : {"idle", "intent", "send"}, live : BOOLEAN,
               msg : Messages \cup {None}, want : Wishes]
        /\ n.pc = "intent" /\ n.msg \in Messages
    BY TimesAreTimes
  <2>2. turn' = [turn EXCEPT ![t] = n] /\ draft' = draft /\ wanted' = wanted
        /\ heard' = heard \cup {m} /\ call' = call
    BY <1>2 DEF Hear, vars
  <2> HIDE DEF n
  <2> QED BY <1>1, <2>1, <2>2 DEF DInv, TurnTypes, Served, Kept, TimeNotDropped
<1>3. ASSUME NEW t \in Threads, Drop(t)
      PROVE  TurnTypes' /\ Served' /\ Kept' /\ TimeNotDropped'
  <2>1. NoDraft \in Drafts /\ NoWish \in Wishes /\ ~NoWish.marked /\ call' = call /\ EndTurn(t, NoDraft, NoWish)
    BY <1>1, <1>3, DraftsAreDrafts, TimesAreTimes DEF Drop, vars, Timings
  <2> QED BY <2>1, TurnEnds
<1>4. ASSUME NEW t \in Threads, NEW w \in Wishes, AskTime(t, w),
             \A q \in Threads \ {t} : call'[q] = call[q]
      PROVE  TurnTypes' /\ Served' /\ Kept' /\ TimeNotDropped'
  <2> DEFINE d == [timing |-> "unclear", at |-> 0, exp |-> now + DraftTime]
  <2> DEFINE v == [at |-> w.at, marked |-> TRUE]
  <2>1. d \in Drafts /\ d.timing # "immediate" /\ EndTurn(t, d, v) /\ v \in Wishes
    BY <1>1, <1>4, DraftsAreDrafts, TimesAreTimes DEF AskTime, Timings
  <2> HIDE DEF d, v
  <2> QED BY <1>4, <2>1, TurnEnds
<1>5. ASSUME NEW t \in Threads, NEW i \in EmailIntent, Collect(t, i)
      PROVE  TurnTypes' /\ Served' /\ Kept' /\ TimeNotDropped'
  <2> DEFINE d == [timing |-> WithPending(t, i).timing, at |-> WithPending(t, i).at, exp |-> now + DraftTime]
  <2>1. d \in Drafts /\ d.timing = WithPending(t, i).timing
        /\ EndTurn(t, d, Wanted(t, i)) /\ call' = call
    BY <1>1, <1>5, DraftsAreDrafts, Merged DEF Collect, vars
  <2>2. Wanted(t, i).marked => d.timing # "immediate"
    BY <1>1, <2>1, WantedIsKept DEF DInv
  <2> HIDE DEF d
  <2> QED BY <1>1, <2>1, <2>2, Merged, TurnEnds
<1>6. ASSUME NEW t \in Threads, NEW i \in EmailIntent, Send(t, i)
      PROVE  TurnTypes' /\ Served' /\ Kept' /\ TimeNotDropped'
  <2>1. Wanted(t, i) \in Wishes /\ WithPending(t, i).at \in SendTimes
    BY <1>1, Merged
  <2>2. CASE AskTime(t, Wanted(t, i)) /\ UNCHANGED vars
    BY <1>4, <2>1, <2>2 DEF vars
  <2>3. CASE /\ Request(t, turn[t].msg, WithPending(t, i).at)
             /\ turn' = [turn EXCEPT ![t].pc = "send", ![t].want = Wanted(t, i)]
             /\ UNCHANGED <<draft, heard, wanted>>
    <3> DEFINE n == [turn[t] EXCEPT !.pc = "send", !.want = Wanted(t, i)]
    <3>1. turn' = [turn EXCEPT ![t] = n]
      BY <1>1, <2>3 DEF TurnTypes
    <3>2. n \in [pc : {"idle", "intent", "send"}, live : BOOLEAN,
                 msg : Messages \cup {None}, want : Wishes]
          /\ n.pc = "send" /\ n.want = Wanted(t, i) /\ n.msg = turn[t].msg
      BY <1>1, <2>1 DEF TurnTypes
    <3>3. n.msg \in Messages
      BY <1>6, <3>2 DEF DInv, Served, Send
    <3>4. call'[t].at = WithPending(t, i).at /\ \A q \in Threads \ {t} : call'[q] = call[q]
      BY <1>1, <2>3, DialogueConstantsOK DEF Request, TypeOK
    <3>5. Wanted(t, i).marked => WithPending(t, i).at # 0
      BY <1>1, <1>6, WantedIsKept DEF DInv, Send
    <3> HIDE DEF n
    <3>0. draft' = draft /\ heard' = heard /\ wanted' = wanted
      BY <2>3
    <3>6. TurnTypes'
      BY <1>1, <3>0, <3>1, <3>2 DEF TurnTypes
    <3>7. \A q \in Threads : turn'[q] = IF q = t THEN n ELSE turn[q]
      BY <1>1, <3>1 DEF TurnTypes
    <3>8. Served' /\ Kept'
      BY <3>0, <3>2, <3>3, <3>7 DEF DInv, Served, Kept
    <3>9. TimeNotDropped'
      BY <3>2, <3>4, <3>5, <3>7 DEF DInv, TimeNotDropped
    <3> QED BY <3>6, <3>8, <3>9
  <2> QED BY <1>6, <2>2, <2>3 DEF Send
<1>7. ASSUME NEW t \in Threads, Sending(t)
      PROVE  TurnTypes' /\ Served' /\ Kept' /\ TimeNotDropped'
  <2>1. CallStep(t) /\ t \in Callers /\ Threads \subseteq Callers
    BY <1>7, DialogueConstantsOK DEF Sending, CallStep
  <2>2. /\ \A q \in Threads \ {t} : call'[q] = call[q]
        /\ call'[t].pc # "idle" => call'[t].at = call[t].at
    BY <1>1, <2>1, OthersRest
  <2>3. CASE AskTime(t, turn[t].want)
    BY <1>1, <1>4, <2>2, <2>3 DEF TurnTypes
  <2>4. CASE EndTurn(t, NoDraft, NoWish)
    <3>1. NoDraft \in Drafts /\ NoWish \in Wishes /\ ~NoWish.marked
      BY <1>1, DraftsAreDrafts, TimesAreTimes DEF Timings
    <3> QED BY <2>2, <2>4, <3>1, TurnEnds
  <2>5. CASE call'[t].pc # "idle" /\ UNCHANGED dialogue
    BY <2>2, <2>5, TurnRests
  <2> QED BY <1>7, <2>3, <2>4, <2>5 DEF Sending
<1>8. ASSUME NEW t \in Threads, Interrupt(t)
      PROVE  TurnTypes' /\ Served' /\ Kept' /\ TimeNotDropped'
  <2>1. t \in Callers /\ Threads \subseteq Callers
    BY DialogueConstantsOK
  <2>2. \A q \in Threads \ {t} : call'[q] = call[q]
    <3>1. CASE Abandon(t)
      BY <1>1, <2>1, <3>1, OthersRest DEF CallStep
    <3> QED BY <1>8, <3>1 DEF Interrupt
  <2>3. draft[t] \in Drafts /\ wanted[t] \in Wishes /\ EndTurn(t, draft[t], wanted[t])
    BY <1>1, <1>8 DEF Interrupt, TurnTypes
  <2> QED BY <2>2, <2>3, TurnEnds DEF DInv, Kept
<1>9. ASSUME call' = call, UNCHANGED dialogue
      PROVE  TurnTypes' /\ Served' /\ Kept' /\ TimeNotDropped'
  BY <1>9, TurnRests
<1>10. ASSUME NEW c \in Callers \ Threads, UNCHANGED dialogue,
              CallStep(c) \/ \E r \in Requests \ Messages, at \in SendTimes : Request(c, r, at)
       PROVE  TurnTypes' /\ Served' /\ Kept' /\ TimeNotDropped'
  <2>1. \A q \in Threads : call'[q] = call[q]
    <3>1. CASE CallStep(c)
      BY <1>1, <3>1, OthersRest, DialogueConstantsOK
    <3>2. CASE \E r \in Requests \ Messages, at \in SendTimes : Request(c, r, at)
      BY <1>1, <3>2, DialogueConstantsOK DEF Request, TypeOK
    <3> QED BY <1>10, <3>1, <3>2
  <2> QED BY <1>10, <2>1, TurnRests
<1>11. ASSUME NEW s \in Schedulers, SchedulerStep(s) \/ StopIteration(s) PROVE call' = call
  BY <1>11 DEF SchedulerStep, Peek, FindRecipient, Claim, LoseClaim, DeliverDue, CompleteDue,
               StopIteration, external
<1>12. ASSUME Tick PROVE call' = call
  BY <1>12 DEF Tick
<1>13. CASE UNCHANGED allVars
  BY <1>9, <1>13 DEF allVars, vars
<1> QED BY <1>2, <1>3, <1>5, <1>6, <1>7, <1>8, <1>9, <1>10, <1>11, <1>12, <1>13 DEF DialogueNext

LEMMA DialogueBegins ==
  ASSUME DialogueInit
  PROVE  DInv
<1>1. CInv
  BY AccountInit DEF DialogueInit
<1>2. NoDraft \in Drafts
  BY <1>1, DraftsAreDrafts, TimesAreTimes DEF CInv, IInv, Timings
<1>3. NoTurn \in [pc : {"idle", "intent", "send"}, live : BOOLEAN,
                  msg : Messages \cup {None}, want : Wishes]
      /\ NoTurn.pc = "idle"
  BY TimesAreTimes DEF NoTurn
<1> QED BY <1>1, <1>2, <1>3, TimesAreTimes DEF DialogueInit, DInv, TurnTypes, Served, Kept, TimeNotDropped

LEMMA DialogueStep ==
  ASSUME DInv, [DialogueNext]_allVars
  PROVE  DInv'
<1>1. CInv'
  BY DialogueIsSkill, AccountStep, SpareKeeps DEF DInv
<1> QED BY <1>1, TurnsStep DEF DInv

\* Over any number of chats and turns, interrupted or not, and whatever the model answers, a message
\* for which the user has given a time that was marked as one, understood or not, or that was refused,
\* is not sent at once unless the user asks for that (email_commands.py:133).
THEOREM TimeIsKept == DialogueSpec => []TimeNotDropped
<1>1. DInv => TimeNotDropped
  BY DEF DInv
<1> QED BY <1>1, DialogueBegins, DialogueStep, PTL DEF DialogueSpec

\* What the skill promises holds with any number of chats that send through it beside the other
\* callers: types, no second mail, whole bookings, true answers and charges that are owed.
THEOREM SkillHoldsInChats ==
  DialogueSpec => [](DialogueTypeOK /\ NoSecondMail /\ BookingWhole /\ SentIsTrue /\ ChargedOnce)
<1>1. DInv => DialogueTypeOK /\ NoSecondMail /\ BookingWhole /\ SentIsTrue /\ ChargedOnce
  BY AccountsRight DEF DInv, CInv, IInv, TurnTypes, DialogueTypeOK
<1> QED BY <1>1, DialogueBegins, DialogueStep, PTL DEF DialogueSpec

=============================================================================
