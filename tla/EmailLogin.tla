----------------------------- MODULE EmailLogin -----------------------------
(***************************************************************************)
(* Login with a code sent by mail, for one address: EmailAuthService       *)
(* (src/app/services/email_auth.py), the scripts Redis runs for it         *)
(* (src/app/repositories/verification_codes.py) and the table of users     *)
(* (src/app/repositories/users.py).  A script is one step.  A code stands  *)
(* for its digest.                                                         *)
(***************************************************************************)
EXTENDS Nothing, Naturals, FiniteSets

CONSTANTS
  Codes,        \* what may be drawn, or guessed
  Asks,         \* requests for a code
  Logins,       \* attempts to log in; an account is known by the one that made it
  SendLimit,    \* EMAIL_SEND_LIMIT
  MaxAttempts,  \* MAX_VERIFICATION_ATTEMPTS
  CodeLife,     \* VERIFICATION_CODE_TTL_SECONDS, in ticks
  SendWindow    \* EMAIL_SEND_WINDOW_SECONDS, in ticks

ASSUME LoginConstantsOK ==
  /\ None \notin Codes \cup Asks \cup Logins
  /\ {SendLimit, MaxAttempts, CodeLife, SendWindow} \subseteq Nat \ {0}

\* A code in Redis; left: the ticks until Redis forgets it; by: the request it was reserved for.
StoredCode == [code : Codes, attempts : Nat, left : Nat \ {0}, by : Asks]

ASSUME NoneIsNoCode == None \notin StoredCode

VARIABLES
  sent,     \* email_auth:send: how many codes, and the ticks until it is forgotten
  code,     \* email_auth:code: a StoredCode or None
  ask, login,
  users,    \* accounts of the address
  issue     \* history variable: of the code reserved last, its request and the wrong guesses since

emailLogin == <<sent, code, ask, login, users, issue>>

EmailLoginInit ==
  /\ sent = [count |-> 0, left |-> 0]
  /\ code = None
  /\ ask = [a \in Asks |-> [pc |-> "new", code |-> None, left |-> 0]]
  /\ login = [l \in Logins |-> [pc |-> "new", by |-> None, user |-> None, isNew |-> FALSE]]
  /\ users = {}
  /\ issue = [by |-> None, wrong |-> 0]

-----------------------------------------------------------------------------
AskTo(a, pc) == ask' = [ask EXCEPT ![a].pc = pc]

\* request_code up to the mail.  What is asked too often is answered 429 and changes nothing.
RequestCode(a, c) ==
  /\ ask[a].pc = "new"
  /\ sent.count < SendLimit
  /\ sent' = [count |-> sent.count + 1, left |-> IF sent.count = 0 THEN SendWindow ELSE sent.left]
  /\ code' = [code |-> c, attempts |-> 0, left |-> CodeLife, by |-> a]
  /\ ask' = [ask EXCEPT ![a] = [pc |-> "mail", code |-> c, left |-> CodeLife]]
  /\ issue' = [by |-> a, wrong |-> 0]
  /\ UNCHANGED <<login, users>>

\* The mail server took the mail, or did not confirm that it did; either way it may arrive.
SendCode(a) ==
  /\ ask[a].pc = "mail"
  /\ AskTo(a, "accepted") \/ AskTo(a, "discard")
  /\ UNCHANGED <<sent, code, login, users, issue>>

DiscardWhatever(a) ==
  /\ ask[a].pc = "discard" /\ AskTo(a, "failed")
  /\ code' = None
  /\ UNCHANGED <<sent, login, users, issue>>

\* A code that was not mailed is taken back, a newer one is left alone.
Discard(a) ==
  /\ ask[a].pc = "discard" /\ AskTo(a, "failed")
  /\ code' = IF code # None /\ code.code = ask[a].code THEN None ELSE code
  /\ UNCHANGED <<sent, login, users, issue>>

-----------------------------------------------------------------------------
ConsumeAndKeep(l, c) ==
  /\ login[l].pc = "new" /\ code # None /\ code.code = c
  /\ login' = [login EXCEPT ![l].pc = "look", ![l].by = code.by]
  /\ UNCHANGED <<sent, code, ask, users, issue>>

\* verify with the stored code, which is used up by that.
Consume(l, c) ==
  /\ login[l].pc = "new" /\ code # None /\ code.code = c
  /\ login' = [login EXCEPT ![l].pc = "look", ![l].by = code.by]
  /\ code' = None
  /\ UNCHANGED <<sent, ask, users, issue>>

\* verify with another one: the code survives a few of them.  Without a code nothing happens.
Guess(l, c) ==
  /\ login[l].pc = "new" /\ code # None /\ code.code # c
  /\ code' = IF code.attempts + 1 >= MaxAttempts THEN None ELSE [code EXCEPT !.attempts = @ + 1]
  /\ issue' = [issue EXCEPT !.wrong = @ + 1]
  /\ login' = [login EXCEPT ![l].pc = "refused"]
  /\ UNCHANGED <<sent, ask, users>>

\* get_by_email finds the account, or verify and create_or_get find none.
LookUpUser(l) ==
  /\ login[l].pc = "look"
  /\ \/ /\ users # {}
        /\ \E u \in users : login' = [login EXCEPT ![l].pc = "in", ![l].user = u]
     \/ /\ users = {} /\ login' = [login EXCEPT ![l].pc = "insert"]
  /\ UNCHANGED <<sent, code, ask, users, issue>>

\* INSERT ... ON CONFLICT DO NOTHING; after a conflict the account that is there is read.
InsertUser(l) ==
  /\ login[l].pc = "insert"
  /\ IF users = {}
     THEN /\ users' = {l}
          /\ login' = [login EXCEPT ![l].pc = "in", ![l].user = l, ![l].isNew = TRUE]
     ELSE /\ \E u \in users : login' = [login EXCEPT ![l].pc = "in", ![l].user = u]
          /\ UNCHANGED users
  /\ UNCHANGED <<sent, code, ask, issue>>

\* The process stops, or Redis, PostgreSQL or the client is lost, between two steps.
Drop(l) ==
  /\ login[l].pc \in {"look", "insert"}
  /\ login' = [login EXCEPT ![l].pc = "lost"]
  /\ UNCHANGED <<sent, code, ask, users, issue>>

DropAsk(a) ==
  /\ ask[a].pc \in {"mail", "discard"} /\ AskTo(a, "lost")
  /\ UNCHANGED <<sent, code, login, users, issue>>

Less(n) == IF n = 0 THEN 0 ELSE n - 1

\* Redis forgets a key when its time is over.
LoginTick ==
  /\ sent.left > 0 \/ code # None
  /\ sent' = IF sent.left =< 1 THEN [count |-> 0, left |-> 0] ELSE [sent EXCEPT !.left = @ - 1]
  /\ code' = IF code = None \/ code.left = 1 THEN None ELSE [code EXCEPT !.left = @ - 1]
  /\ ask' = [a \in Asks |-> [ask[a] EXCEPT !.left = Less(@)]]
  /\ UNCHANGED <<login, users, issue>>

EmailLoginNext ==
  \/ \E a \in Asks : (\E c \in Codes : RequestCode(a, c)) \/ SendCode(a) \/ Discard(a) \/ DropAsk(a)
  \/ \E l \in Logins : (\E c \in Codes : Consume(l, c) \/ Guess(l, c)) \/ LookUpUser(l) \/ InsertUser(l) \/ Drop(l)
  \/ LoginTick

EmailLoginSpec == EmailLoginInit /\ [][EmailLoginNext]_emailLogin

-----------------------------------------------------------------------------
(* Properties. *)

LoggedIn == {l \in Logins : login[l].pc = "in"}

\* Each login has used up a code of its own, all of them get the same account, and one answer at
\* most calls the user new (email_auth.py:135, users.py:104).
LoginsPaid ==
  \A l, k \in LoggedIn :
    /\ login[l].by = login[k].by => l = k
    /\ login[l].user = login[k].user /\ login[l].user \in users
    /\ login[l].isNew /\ login[k].isNew => l = k

\* Of the codes of one address the one asked for last counts.  Once its request is accepted it is good
\* for the time the answer states, unless it is used or guessed at too often; whatever becomes of the
\* requests before it, the mail of which may fail later than it was accepted and whose codes are
\* discarded then, unless one of them drew the same code (verification_codes.py:54).  Who asks again
\* gives up the code there was.
NewestCodeWorks ==
  LET a == issue.by IN
    /\ a # None /\ ask[a].pc = "accepted" /\ ask[a].left > 0
    /\ issue.wrong < MaxAttempts
    /\ \A l \in Logins : login[l].by # a
    /\ \A b \in Asks \ {a} : ask[b].code # ask[a].code
    => code # None /\ code.code = ask[a].code

\* A code that was accepted last is good for the time its answer (schemas/auth.py:32) and its mail
\* (email_auth.py:64) state, when every later request has been answered that no mail could be sent.
\* It is not: the failed request has replaced the code, and takes back its own only.
AcceptedCodeLasts ==
  \A a \in Asks :
    /\ ask[a].pc = "accepted" /\ ask[a].left > 0
    /\ \A b \in Asks \ {a} : ask[b].pc \in {"new", "failed"} /\ ask[b].code # ask[a].code
    /\ \A l \in Logins : login[l].pc = "new"
    => code # None /\ code.code = ask[a].code

=============================================================================
