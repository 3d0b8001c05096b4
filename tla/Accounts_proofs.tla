-------------------------- MODULE Accounts_proofs ---------------------------
(***************************************************************************)
(* Theorems about EmailLogin and Uploads, what an account begins with and  *)
(* what it keeps, and about Lifecycle and RemoteSettings, the process that *)
(* serves them: for any number of requests, logins, codes and uploads, any *)
(* limits and times, and any choice of stages, settings and failures.      *)
(***************************************************************************)
EXTENDS EmailLogin, Uploads, Lifecycle, RemoteSettings, TLAPS

-----------------------------------------------------------------------------
(***************************************************************************)
(* Logins.  LoginsPaid alone is not inductive: who is logged in was let in *)
(* by a code that is gone (Paid), no code was reserved by a request that   *)
(* has not been made (Issued), and all logins found or made one account    *)
(* (OneAccount).                                                           *)
(***************************************************************************)
LoginSteps == {"new", "look", "insert", "in", "refused", "lost"}
AskSteps == {"new", "mail", "discard", "accepted", "failed", "lost"}

LoginShape ==
  /\ login \in [Logins -> [pc : LoginSteps, by : Asks \cup {None}, user : Logins \cup {None}, isNew : BOOLEAN]]
  /\ ask \in [Asks -> [pc : AskSteps, code : Codes \cup {None}, left : Nat]]
  /\ code \in StoredCode \cup {None}
  /\ users \subseteq Logins

Issued ==
  /\ code # None => code.by \in Asks /\ ask[code.by].pc # "new"
  /\ \A l \in Logins : /\ login[l].by # None => ask[login[l].by].pc # "new"
                       /\ login[l].pc \in {"look", "insert", "in"} => login[l].by # None
                       /\ login[l].pc = "new" => login[l].by = None

Paid ==
  \A l \in Logins : login[l].by # None =>
    /\ code # None => code.by # login[l].by
    /\ \A k \in Logins : login[k].by = login[l].by => k = l

OneAccount ==
  /\ \A u, v \in users : u = v
  /\ \A l \in Logins : /\ login[l].pc = "in" => login[l].user \in users
                       /\ login[l].isNew => login[l].pc = "in" /\ login[l].user = l

LInv == LoginShape /\ Issued /\ Paid /\ OneAccount

LEMMA LoginInit == EmailLoginInit => LInv
  BY LoginConstantsOK
  DEF EmailLoginInit, LInv, LoginShape, Issued, Paid, OneAccount, LoginSteps, AskSteps

\* Steps of requests, and time, take codes away or make one of a request that was new.
LEMMA AskSteps_LInv ==
  ASSUME LInv, UNCHANGED <<login, users>>, LoginShape',
         \A a \in Asks : ask'[a].pc = "new" => ask[a].pc = "new",
         \/ code' = None
         \/ code # None /\ code' # None /\ code'.by = code.by
         \/ code' # None /\ code'.by \in Asks /\ ask[code'.by].pc = "new" /\ ask'[code'.by].pc # "new"
  PROVE  LInv'
<1>1. Issued'
  BY LoginConstantsOK DEF LInv, Issued, LoginShape
<1>2. Paid'
  BY LoginConstantsOK DEF LInv, Issued, Paid, LoginShape
<1>3. OneAccount'
  BY DEF LInv, OneAccount
<1> QED BY <1>1, <1>2, <1>3 DEF LInv

LEMMA LoginStep == LInv /\ [EmailLoginNext]_emailLogin => LInv'
<1> SUFFICES ASSUME LInv, [EmailLoginNext]_emailLogin PROVE LInv'
  OBVIOUS
<1> USE LoginConstantsOK
<1>1. ASSUME NEW a \in Asks, NEW c \in Codes, RequestCode(a, c) PROVE LInv'
  <2>1. LoginShape'
    BY <1>1 DEF LInv, LoginShape, StoredCode, RequestCode, AskSteps
  <2>2. code'.by = a /\ ask[a].pc = "new" /\ ask'[a].pc = "mail"
    BY <1>1 DEF LInv, LoginShape, RequestCode
  <2>3. \A b \in Asks : ask'[b].pc = "new" => ask[b].pc = "new"
    BY <1>1 DEF LInv, LoginShape, RequestCode
  <2>4. UNCHANGED <<login, users>>
    BY <1>1 DEF RequestCode
  <2>5. CASE code' = None
    BY <2>1, <2>3, <2>4, <2>5, AskSteps_LInv
  <2>6. CASE code' # None
    BY <2>1, <2>2, <2>3, <2>4, <2>6, AskSteps_LInv
  <2> QED BY <2>5, <2>6
<1>2. ASSUME NEW a \in Asks, SendCode(a) \/ DropAsk(a) \/ Discard(a) PROVE LInv'
  <2>1. LoginShape'
    BY <1>2 DEF LInv, LoginShape, SendCode, DropAsk, Discard, AskTo, AskSteps
  <2>2. UNCHANGED <<login, users>> /\ code' \in {code, None}
    BY <1>2 DEF SendCode, DropAsk, Discard
  <2>3. \A b \in Asks : ask'[b].pc = "new" => ask[b].pc = "new"
    BY <1>2 DEF LInv, LoginShape, SendCode, DropAsk, Discard, AskTo
  <2> QED BY <2>1, <2>2, <2>3, AskSteps_LInv
<1>3. ASSUME LoginTick PROVE LInv'
  <2>0. \/ code' = None
        \/ /\ code # None /\ code'.by = code.by
           /\ code' \in StoredCode
    <3>1. CASE code = None \/ code.left = 1
      BY <1>3, <3>1 DEF LoginTick
    <3>2. CASE code # None /\ code.left # 1
      <4>1. code \in StoredCode
        BY <3>2 DEF LInv, LoginShape
      <4>2. code' = [code EXCEPT !.left = code.left - 1]
        BY <1>3, <3>2 DEF LoginTick
      <4>3. code.left - 1 \in Nat \ {0}
        BY <3>2, <4>1 DEF StoredCode
      <4>4. code' = [code |-> code.code, attempts |-> code.attempts, left |-> code.left - 1, by |-> code.by]
        BY <4>1, <4>2 DEF StoredCode
      <4>5. code'.by = code.by /\ code' \in StoredCode
        BY <4>1, <4>3, <4>4 DEF StoredCode
      <4> QED BY <3>2, <4>5
    <3> QED BY <3>1, <3>2
  <2>1. LoginShape'
    <3>1. \A n \in Nat : Less(n) \in Nat
      BY DEF Less
    <3>2. ask' \in [Asks -> [pc : AskSteps, code : Codes \cup {None}, left : Nat]]
      BY <1>3, <3>1 DEF LInv, LoginShape, LoginTick
    <3> QED BY <1>3, <2>0, <3>2 DEF LInv, LoginShape, LoginTick
  <2>2. UNCHANGED <<login, users>>
    BY <1>3 DEF LoginTick
  <2>3. \A b \in Asks : ask'[b].pc = "new" => ask[b].pc = "new"
    BY <1>3 DEF LInv, LoginShape, LoginTick
  <2> QED BY <2>0, <2>1, <2>2, <2>3, AskSteps_LInv
<1>4. ASSUME NEW l \in Logins, NEW c \in Codes, Consume(l, c) PROVE LInv'
  <2>1. LoginShape' /\ Issued' /\ OneAccount'
    BY <1>4 DEF LInv, LoginShape, Issued, OneAccount, Consume, LoginSteps
  <2>2. Paid'
    BY <1>4 DEF LInv, LoginShape, Issued, Paid, Consume
  <2> QED BY <2>1, <2>2 DEF LInv
<1>5. ASSUME NEW l \in Logins, NEW c \in Codes, Guess(l, c) PROVE LInv'
  BY <1>5 DEF LInv, LoginShape, StoredCode, Issued, Paid, OneAccount, Guess, LoginSteps
<1>6. ASSUME NEW l \in Logins, LookUpUser(l) \/ Drop(l) PROVE LInv'
  <2>1. LoginShape' /\ Issued' /\ OneAccount'
    BY <1>6 DEF LInv, LoginShape, Issued, OneAccount, LookUpUser, Drop, LoginSteps
  <2>2. Paid'
    BY <1>6 DEF LInv, LoginShape, Issued, Paid, LookUpUser, Drop
  <2> QED BY <2>1, <2>2 DEF LInv
<1>7. ASSUME NEW l \in Logins, InsertUser(l) PROVE LInv'
  <2>1. LoginShape' /\ Issued' /\ OneAccount'
    <3>1. CASE users = {}
      BY <1>7, <3>1 DEF LInv, LoginShape, Issued, OneAccount, InsertUser, LoginSteps
    <3>2. CASE users # {}
      BY <1>7, <3>2 DEF LInv, LoginShape, Issued, OneAccount, InsertUser, LoginSteps
    <3> QED BY <3>1, <3>2
  <2>2. Paid'
    BY <1>7 DEF LInv, LoginShape, Issued, Paid, InsertUser
  <2> QED BY <2>1, <2>2 DEF LInv
<1>8. CASE UNCHANGED emailLogin
  BY <1>8 DEF LInv, LoginShape, Issued, Paid, OneAccount, emailLogin
<1> QED BY <1>1, <1>2, <1>3, <1>4, <1>5, <1>6, <1>7, <1>8 DEF EmailLoginNext

LEMMA LInvPaid == LInv => LoginsPaid
  BY DEF LInv, LoginShape, Issued, Paid, OneAccount, LoginsPaid, LoggedIn

\* However many codes are asked for, guessed, mailed late or forgotten by Redis, and however logins
\* overlap, each login used up a code of its own, and all of them share one account that is
\* announced as new once (email_auth.py:135, users.py:104).
THEOREM LoginsArePaid == EmailLoginSpec => []LoginsPaid
<1> QED BY LoginInit, LoginStep, LInvPaid, PTL DEF EmailLoginSpec

-----------------------------------------------------------------------------
(***************************************************************************)
(* Uploads.  What a row names has been put, and nobody is going to delete  *)
(* it: an upload that has written its row, or may have, is over, and one   *)
(* that is about to write it has its object.                               *)
(***************************************************************************)
UploadSteps == {"new", "write", "delete", "done", "failed"}

UploadShape == upload \in [UploadIds -> UploadSteps]

PutFirst == \A u \in UploadIds : upload[u] = "write" => u \in objects

FileOver == \A u \in files : u \in UploadIds /\ upload[u] \in {"done", "failed"}

\* The UPDATE of an avatar may have been committed although an error was reported.
AvatarOver == avatar # None => avatar \in UploadIds /\ upload[avatar] \in {"done", "delete", "failed"}


FInv == UploadShape /\ PutFirst /\ FileOver /\ FilesExist
AInv == FInv /\ AvatarOver /\ AvatarExists

LEMMA UploadsBegin == UploadsInit => FInv /\ AInv
  BY DEF UploadsInit, AInv, FInv, UploadShape, UploadSteps, PutFirst, FileOver, FilesExist, AvatarOver, AvatarExists

\* A step of one upload that deletes nothing but the object of an upload that has failed, and
\* writes nothing but the row of one that has put its object.
LEMMA FileStep == FInv /\ [UploadsNext]_uploads => FInv'
<1> SUFFICES ASSUME FInv, [UploadsNext]_uploads PROVE FInv'
  OBVIOUS
<1> USE DEF FInv, UploadShape, UploadSteps, PutFirst, FileOver, FilesExist, UploadTo
<1>1. ASSUME NEW u \in UploadIds, PutObject(u) \/ FailPut(u) \/ LatePut(u) PROVE FInv'
  BY <1>1 DEF PutObject, FailPut, LatePut
<1>2. ASSUME NEW u \in UploadIds, WriteRow(u) \/ RefuseRow(u) \/ DeleteObject(u) PROVE FInv'
  BY <1>2 DEF WriteRow, Written, RefuseRow, DeleteObject
<1>3. ASSUME NEW u \in UploadIds, NEW kept \in BOOLEAN, StopUpload(u, kept) PROVE FInv'
  BY <1>3 DEF StopUpload, Written
<1>4. ASSUME NEW u \in UploadIds, NEW kept, LoseRow(u, kept) PROVE FInv'
  BY <1>4 DEF LoseRow, Written
<1>5. CASE UNCHANGED uploads
  BY <1>5 DEF uploads
<1> QED BY <1>1, <1>2, <1>3, <1>4, <1>5 DEF UploadsNext

\* An avatar that is named is one whose upload is done, or is about to delete it, or has failed.
LEMMA AvatarStep == AInv /\ [UploadsNext]_uploads => AInv'
<1> SUFFICES ASSUME AInv, [UploadsNext]_uploads PROVE AvatarOver' /\ AvatarExists'
  BY FileStep DEF AInv
<1> USE UploadConstantsOK DEF AInv, FInv, UploadShape, UploadSteps, PutFirst, AvatarOver, AvatarExists, UploadTo
<1>1. ASSUME NEW u \in UploadIds, PutObject(u) \/ FailPut(u) \/ LatePut(u) PROVE AvatarOver' /\ AvatarExists'
  BY <1>1 DEF PutObject, FailPut, LatePut
<1>2. ASSUME NEW u \in UploadIds, WriteRow(u) \/ RefuseRow(u) \/ DeleteObject(u)
      PROVE  AvatarOver' /\ AvatarExists'
  BY <1>2 DEF WriteRow, Written, RefuseRow, DeleteObject
<1>3. ASSUME NEW u \in UploadIds, NEW kept \in BOOLEAN, StopUpload(u, kept) PROVE AvatarOver' /\ AvatarExists'
  BY <1>3 DEF StopUpload, Written
<1>4. ASSUME NEW u \in UploadIds, NEW kept \in BOOLEAN, LoseRow(u, kept)
      PROVE  AvatarOver' /\ AvatarExists'
  <2>1. CASE u \in FileUploads
    BY <1>4, <2>1 DEF LoseRow, Written
  <2>2. CASE u \notin FileUploads
    BY <1>4, <2>2 DEF LoseRow, Written
  <2> QED BY <2>1, <2>2
<1>5. CASE UNCHANGED uploads
  BY <1>5 DEF uploads
<1> QED BY <1>1, <1>2, <1>3, <1>4, <1>5 DEF UploadsNext

\* Whatever a file's row names is in the store, through failed and late puts, lost statements that
\* were or were not committed, and processes that stop (files.py:150).
THEOREM FilesAreThere == UploadsSpec => []FilesExist
<1>1. FInv => FilesExist
  BY DEF FInv
<1> QED BY <1>1, UploadsBegin, FileStep, PTL DEF UploadsSpec

\* The avatar a user was told to have is in the store, whatever other uploads of his fail, are lost
\* or come late: only the object of an upload that was answered with an error may be missing, because
\* its UPDATE may have been committed all the same (users.py:200).
THEOREM AvatarIsThere == UploadsSpec => []AvatarExists
<1>1. AInv /\ [UploadsNext]_uploads => AInv'
  BY AvatarStep
<1>2. AInv => AvatarExists
  BY DEF AInv
<1> QED BY <1>1, <1>2, UploadsBegin, PTL DEF UploadsSpec

-----------------------------------------------------------------------------
(***************************************************************************)
(* NewestCodeWorks.  From the moment it is reserved, and while nothing   *)
(* has happened that takes it away, the code of the last request is the    *)
(* one in Redis, which counts no more wrong guesses than there were and    *)
(* keeps it for as long as was promised.                                   *)
(***************************************************************************)
IssueShape == issue \in [by : Asks \cup {None}, wrong : Nat]

Untaken(a) ==
  /\ ask[a].pc \in {"mail", "accepted"} /\ ask[a].left > 0
  /\ issue.wrong < MaxAttempts
  /\ \A l \in Logins : login[l].by # a
  /\ \A b \in Asks \ {a} : ask[b].code # ask[a].code

Stored(a) ==
  /\ code # None /\ code.code = ask[a].code /\ code.by = a
  /\ code.attempts <= issue.wrong /\ ask[a].left <= code.left

KInv ==
  /\ LInv /\ IssueShape
  /\ issue.by # None => ask[issue.by].pc # "new" /\ (Untaken(issue.by) => Stored(issue.by))

LEMMA CodeInit == EmailLoginInit => KInv
  BY LoginInit, LoginConstantsOK DEF EmailLoginInit, KInv, IssueShape

\* A step that makes no code, and may only take away what the last request has.
LEMMA StillStored ==
  ASSUME KInv, LInv', IssueShape', issue'.by = issue.by,
         \A a \in Asks : ask[a].pc # "new" => ask'[a].pc # "new",
         ASSUME NEW a \in Asks, a = issue.by, Untaken(a)'
         PROVE  Untaken(a) /\ (Stored(a) => Stored(a)')
  PROVE  KInv'
<1>1. CASE issue.by = None
  BY <1>1 DEF KInv
<1>2. CASE issue.by # None
  <2>1. issue.by \in Asks
    BY <1>2 DEF KInv, IssueShape
  <2>2. Untaken(issue.by)' => Untaken(issue.by) /\ (Stored(issue.by) => Stored(issue.by)')
    BY <2>1
  <2>3. ask'[issue.by].pc # "new" /\ (Untaken(issue.by)' => Stored(issue.by)')
    BY <1>2, <2>1, <2>2 DEF KInv
  <2> QED BY <2>3 DEF KInv, Untaken, Stored
<1> QED BY <1>1, <1>2

LEMMA CodeStep == KInv /\ [EmailLoginNext]_emailLogin => KInv'
<1> SUFFICES ASSUME KInv, [EmailLoginNext]_emailLogin PROVE KInv'
  OBVIOUS
<1> USE LoginConstantsOK
<1>1. LInv' /\ LInv /\ IssueShape /\ issue.by \in Asks \cup {None} /\ issue.wrong \in Nat
  BY LoginStep DEF KInv, IssueShape
<1>2. ASSUME NEW a \in Asks, NEW c \in Codes, RequestCode(a, c) PROVE KInv'
  <2>1. /\ issue' = [by |-> a, wrong |-> 0] /\ ask'[a] = [pc |-> "mail", code |-> c, left |-> CodeLife]
        /\ code' = [code |-> c, attempts |-> 0, left |-> CodeLife, by |-> a]
    BY <1>1, <1>2 DEF RequestCode, LInv, LoginShape
  <2>2. code' # None
    BY <2>1, NoneIsNoCode DEF StoredCode
  <2>3. IssueShape' /\ issue'.by = a /\ ask'[a].pc # "new"
    BY <2>1 DEF IssueShape
  <2>4. CodeLife \in Nat
    OBVIOUS
  <2>5. /\ code'.code = ask'[a].code /\ code'.by = a /\ code'.attempts <= issue'.wrong
        /\ ask'[a].left <= code'.left
    BY <2>1, <2>4
  <2> QED BY <1>1, <2>2, <2>3, <2>5 DEF KInv, Stored
<1>3. ASSUME NEW a \in Asks, SendCode(a) \/ DropAsk(a) PROVE KInv'
  <2>1. UNCHANGED <<code, login, issue>>
    BY <1>3 DEF SendCode, DropAsk
  <2>2. \A b \in Asks : /\ ask[b].pc # "new" => ask'[b].pc # "new"
                        /\ ask'[b].left = ask[b].left /\ ask'[b].code = ask[b].code
                        /\ ask'[b].pc \in {"mail", "accepted"} => ask[b].pc \in {"mail", "accepted"}
    BY <1>1, <1>3 DEF SendCode, DropAsk, AskTo, LInv, LoginShape
  <2>3. ASSUME NEW b \in Asks, Untaken(b)' PROVE Untaken(b) /\ (Stored(b) => Stored(b)')
    BY <2>1, <2>2, <2>3 DEF Untaken, Stored
  <2> QED BY <1>1, <2>1, <2>2, <2>3, StillStored DEF IssueShape
<1>4. ASSUME NEW a \in Asks, Discard(a) PROVE KInv'
  <2>1. UNCHANGED <<login, issue>> /\ code' = IF code # None /\ code.code = ask[a].code THEN None ELSE code
    BY <1>4 DEF Discard
  <2>2. /\ \A b \in Asks : /\ ask[b].pc # "new" => ask'[b].pc # "new"
                           /\ ask'[b].left = ask[b].left /\ ask'[b].code = ask[b].code
                           /\ ask'[b].pc \in {"mail", "accepted"} => ask[b].pc \in {"mail", "accepted"}
        /\ ask'[a].pc = "failed"
    BY <1>1, <1>4 DEF Discard, AskTo, LInv, LoginShape
  <2>3. ASSUME NEW b \in Asks, Untaken(b)' PROVE Untaken(b) /\ (Stored(b) => Stored(b)')
    <3>1. Untaken(b) /\ a # b
      BY <2>1, <2>2, <2>3 DEF Untaken
    <3>2. ask[a].code # ask[b].code
      BY <3>1 DEF Untaken
    <3> QED BY <2>1, <2>2, <3>1, <3>2 DEF Stored
  <2> QED BY <1>1, <2>1, <2>2, <2>3, StillStored DEF IssueShape
<1>5. ASSUME LoginTick PROVE KInv'
  <2>1. UNCHANGED <<login, issue>>
        /\ code' = IF code = None \/ code.left = 1 THEN None ELSE [code EXCEPT !.left = code.left - 1]
    BY <1>5 DEF LoginTick
  <2>2. \A b \in Asks : /\ ask'[b].pc = ask[b].pc /\ ask'[b].code = ask[b].code
                        /\ ask[b].left \in Nat /\ ask'[b].left = IF ask[b].left = 0 THEN 0 ELSE ask[b].left - 1
    BY <1>1, <1>5 DEF LoginTick, Less, LInv, LoginShape
  <2>3. ASSUME NEW b \in Asks, Untaken(b)' PROVE Untaken(b) /\ (Stored(b) => Stored(b)')
    <3>1. ask[b].left > 1 /\ ask'[b].left = ask[b].left - 1
      BY <2>2, <2>3 DEF Untaken
    <3>2. Untaken(b)
      BY <2>1, <2>2, <2>3, <3>1 DEF Untaken
    <3>3. ASSUME Stored(b) PROVE Stored(b)'
      <4>1. code # None /\ code \in StoredCode
        BY <1>1, <3>3 DEF Stored, LInv, LoginShape
      <4>2. code.left # 1 /\ code.left \in Nat
        BY <2>2, <3>1, <3>3, <4>1 DEF Stored, StoredCode
      <4>3. code' = [code EXCEPT !.left = code.left - 1]
        BY <2>1, <4>1, <4>2
      <4>4. code' \in StoredCode /\ code'.code = code.code /\ code'.by = code.by /\ code'.attempts = code.attempts
            /\ code'.left = code.left - 1
        BY <4>1, <4>2, <4>3 DEF StoredCode
      <4>5. code' # None
        BY <4>4, NoneIsNoCode
      <4> QED BY <2>1, <2>2, <3>1, <3>3, <4>2, <4>4, <4>5 DEF Stored
    <3> QED BY <3>2, <3>3
  <2> QED BY <1>1, <2>1, <2>2, <2>3, StillStored DEF IssueShape
<1>6. ASSUME NEW l \in Logins, NEW c \in Codes, Consume(l, c) PROVE KInv'
  <2>1. UNCHANGED <<ask, issue>> /\ login[l].by = None /\ login'[l].by = code.by
        /\ \A k \in Logins \ {l} : login'[k] = login[k]
    BY <1>1, <1>6 DEF Consume, LInv, LoginShape, Issued
  <2>2. code # None /\ code.by \in Asks
    BY <1>1, <1>6 DEF Consume, LInv, Issued
  <2>3. ASSUME NEW b \in Asks, Untaken(b)' PROVE Untaken(b) /\ ~Stored(b)
    BY <2>1, <2>2, <2>3 DEF Untaken, Stored
  <2> QED BY <1>1, <2>1, <2>3, StillStored DEF IssueShape
<1>7. ASSUME NEW l \in Logins, NEW c \in Codes, Guess(l, c) PROVE KInv'
  <2>1. /\ code # None /\ issue' = [issue EXCEPT !.wrong = issue.wrong + 1] /\ ask' = ask
        /\ code' = IF code.attempts + 1 >= MaxAttempts THEN None
                   ELSE [code EXCEPT !.attempts = code.attempts + 1]
        /\ \A k \in Logins : login'[k].by = login[k].by
    BY <1>1, <1>7 DEF Guess, LInv, LoginShape
  <2>2. IssueShape' /\ issue'.by = issue.by /\ issue'.wrong = issue.wrong + 1
    BY <1>1, <2>1 DEF IssueShape
  <2>3. ASSUME NEW b \in Asks, Untaken(b)' PROVE Untaken(b) /\ (Stored(b) => Stored(b)')
    <3>1. Untaken(b) /\ issue.wrong + 1 < MaxAttempts
      BY <1>1, <2>1, <2>2, <2>3 DEF Untaken
    <3>2. ASSUME Stored(b) PROVE Stored(b)'
      <4>1. code \in StoredCode
        BY <1>1, <2>1 DEF LInv, LoginShape
      <4>2. ~(code.attempts + 1 >= MaxAttempts)
        BY <1>1, <3>1, <3>2, <4>1 DEF Stored, StoredCode
      <4>3. code' = [code EXCEPT !.attempts = code.attempts + 1]
        BY <2>1, <4>2
      <4>4. code' \in StoredCode /\ code'.code = code.code /\ code'.by = code.by /\ code'.attempts = code.attempts + 1
            /\ code'.left = code.left
        BY <4>1, <4>3 DEF StoredCode
      <4>5. code' # None
        BY <4>4, NoneIsNoCode
      <4> QED BY <1>1, <2>1, <2>2, <3>2, <4>1, <4>4, <4>5 DEF Stored, StoredCode
    <3> QED BY <3>1, <3>2
  <2> QED BY <1>1, <2>1, <2>2, <2>3, StillStored
<1>8. ASSUME NEW l \in Logins, LookUpUser(l) \/ Drop(l) \/ InsertUser(l) PROVE KInv'
  <2>1. UNCHANGED <<code, ask, issue>> /\ \A k \in Logins : login'[k].by = login[k].by
    <3>1. UNCHANGED <<code, ask, issue>>
      BY <1>8 DEF LookUpUser, Drop, InsertUser
    <3>2. \A k \in Logins : login'[k].by = login[k].by
      BY <1>1, <1>8 DEF LookUpUser, Drop, InsertUser, LInv, LoginShape
    <3> QED BY <3>1, <3>2
  <2>2. ASSUME NEW b \in Asks, Untaken(b)' PROVE Untaken(b) /\ (Stored(b) => Stored(b)')
    BY <2>1, <2>2 DEF Untaken, Stored
  <2> QED BY <1>1, <2>1, <2>2, StillStored DEF IssueShape
<1>9. CASE UNCHANGED emailLogin
  BY <1>9 DEF emailLogin, KInv, LInv, LoginShape, Issued, Paid, OneAccount, IssueShape, Untaken, Stored
<1> QED BY <1>2, <1>3, <1>4, <1>5, <1>6, <1>7, <1>8, <1>9 DEF EmailLoginNext

\* However requests and logins overlap, are lost or come late, and however late the mail of an earlier
\* request fails, the code asked for last can be used, once its request is accepted, for as long as the
\* answer stated, unless it was used, guessed at too often, or drawn twice (verification_codes.py:54).
\* It says nothing of a code after which another was asked for: that one is gone.
THEOREM NewestCodesWork == EmailLoginSpec => []NewestCodeWorks
<1>1. KInv => NewestCodeWorks
  BY DEF KInv, NewestCodeWorks, Untaken, Stored
<1> QED BY <1>1, CodeInit, CodeStep, PTL DEF EmailLoginSpec

-----------------------------------------------------------------------------
(***************************************************************************)
(* Lifecycle.  A task belongs to a stage that has been entered, and needs  *)
(* nothing of the stages after it (Posted); what is open has failed to     *)
(* close or is of a stage that has been entered (Held).  While the process *)
(* starts and serves, all it has entered is open (Whole).                  *)
(***************************************************************************)
Post == [scheduler |-> 5, sync |-> 7, memory |-> 3, connection |-> 6]

InUse(i) == Stages[i] \notin Optional \ enabled

LifeShape ==
  /\ enabled \subseteq Optional /\ entered \in 0 .. 8 /\ running \subseteq DOMAIN Needs
  /\ phase \in {"load", "start", "serve", "deregister", "close", "over"}
  /\ phase \in {"load", "over"} => entered = 0
  /\ phase \in {"serve", "deregister"} => entered = 8
  /\ registered => phase \in {"serve", "deregister"}

Whole ==
  phase \in {"start", "serve", "deregister"} =>
    \A i \in 1 .. entered : InUse(i) => HeldBy(Stages[i]) \subseteq opened

Posted == \A t \in running : Post[t] <= entered /\ Needs[t] \subseteq opened

Held == \A x \in opened : x \in leaked \/ \E i \in 1 .. entered : x \in HeldBy(Stages[i])

SInv == LifeShape /\ Whole /\ Posted /\ Held

\* The eight stages: what they hold and who works in them.
LEMMA StageTable ==
  /\ Len(Stages) = 8 /\ DOMAIN Stages = 1 .. 8
  /\ Stages[1] = "saver" /\ Stages[2] = "store" /\ Stages[3] = "mem0" /\ Stages[4] = "email_auth"
  /\ Stages[5] = "email_skill" /\ Stages[6] = "voice" /\ Stages[7] = "video" /\ Stages[8] = "files"
  /\ DOMAIN Holds = {"email_auth", "email_skill", "video"}
  /\ DOMAIN Workers = {"email_skill", "video"} /\ DOMAIN Awaited = {"mem0", "voice"}
  /\ DOMAIN Needs = {"scheduler", "sync", "memory", "connection"}
  BY DEF Stages, Holds, Workers, Awaited, Needs

LEMMA Holdings ==
  /\ HeldBy("saver") = {"saver"} /\ HeldBy("store") = {"store"} /\ HeldBy("mem0") = {"mem0"}
  /\ HeldBy("email_auth") = {"redis", "users"} /\ HeldBy("email_skill") = {}
  /\ HeldBy("voice") = {"voice"} /\ HeldBy("video") = {"video", "http"} /\ HeldBy("files") = {"files"}
  BY StageTable DEF HeldBy, Holds

LEMMA Posts ==
  ASSUME NEW k \in 1 .. 8, NEW t \in DOMAIN Needs
  PROVE  /\ t \in WorkersOf(Stages[k]) \cup AwaitedBy(Stages[k]) <=> Post[t] = k
         /\ Post[t] \in 3 .. 7
<1>1. /\ WorkersOf("email_skill") = {"scheduler"} /\ WorkersOf("video") = {"sync"}
      /\ \A s \in {"saver", "store", "mem0", "email_auth", "voice", "files"} : WorkersOf(s) = {}
  BY StageTable DEF WorkersOf, Workers
<1>2. /\ AwaitedBy("mem0") = {"memory"} /\ AwaitedBy("voice") = {"connection"}
      /\ \A s \in {"saver", "store", "email_auth", "email_skill", "video", "files"} : AwaitedBy(s) = {}
  BY StageTable DEF AwaitedBy, Awaited
<1>3. Post["scheduler"] = 5 /\ Post["sync"] = 7 /\ Post["memory"] = 3 /\ Post["connection"] = 6
  BY DEF Post
<1>4. k = 1 \/ k = 2 \/ k = 3 \/ k = 4 \/ k = 5 \/ k = 6 \/ k = 7 \/ k = 8
  OBVIOUS
<1>5. t = "scheduler" \/ t = "sync" \/ t = "memory" \/ t = "connection"
  BY StageTable
<1> QED BY <1>1, <1>2, <1>3, <1>4, <1>5, StageTable

\* A stage that is left takes nothing from the tasks of the stages before it.
LEMMA NotNeeded ==
  ASSUME NEW k \in 1 .. 8, NEW t \in DOMAIN Needs, Post[t] < k
  PROVE  Needs[t] \cap HeldBy(Stages[k]) = {}
<1>1. Post["scheduler"] = 5 /\ Post["sync"] = 7 /\ Post["memory"] = 3 /\ Post["connection"] = 6
  BY DEF Post
<1>2. /\ Needs["scheduler"] = {"users", "redis"} /\ Needs["sync"] = {"video", "http"}
      /\ Needs["memory"] = {"mem0"} /\ Needs["connection"] = {"voice", "saver", "store"}
  BY DEF Needs
<1>3. k = 1 \/ k = 2 \/ k = 3 \/ k = 4 \/ k = 5 \/ k = 6 \/ k = 7 \/ k = 8
  OBVIOUS
<1>4. t = "scheduler" \/ t = "sync" \/ t = "memory" \/ t = "connection"
  BY StageTable
<1>5. CASE t = "memory"
  BY <1>1, <1>2, <1>3, <1>5, StageTable, Holdings
<1>6. CASE t = "scheduler"
  BY <1>1, <1>2, <1>3, <1>6, StageTable, Holdings
<1>7. CASE t = "connection"
  BY <1>1, <1>2, <1>3, <1>7, StageTable, Holdings
<1>8. CASE t = "sync"
  BY <1>1, <1>2, <1>3, <1>8, StageTable, Holdings
<1> QED BY <1>4, <1>5, <1>6, <1>7, <1>8

\* What a task needs, when its stage and those before it are open.
LEMMA Provided ==
  ASSUME NEW k \in 1 .. 8, NEW t \in DOMAIN Needs, Post[t] = k, NEW open,
         \A i \in 1 .. k : InUse(i) => HeldBy(Stages[i]) \subseteq open,
         InUse(k), k = 5 => InUse(4)
  PROVE  Needs[t] \subseteq open
<1>1. Post["scheduler"] = 5 /\ Post["sync"] = 7 /\ Post["memory"] = 3 /\ Post["connection"] = 6
  BY DEF Post
<1>2. /\ Needs["scheduler"] = {"users", "redis"} /\ Needs["sync"] = {"video", "http"}
      /\ Needs["memory"] = {"mem0"} /\ Needs["connection"] = {"voice", "saver", "store"}
  BY DEF Needs
<1>3. InUse(1) /\ InUse(2)
  BY StageTable DEF InUse, Optional
<1>4. t = "scheduler" \/ t = "sync" \/ t = "memory" \/ t = "connection"
  BY StageTable
<1>5. CASE t = "memory"
  BY <1>1, <1>2, <1>5, StageTable, Holdings
<1>6. CASE t = "scheduler"
  BY <1>1, <1>2, <1>6, StageTable, Holdings
<1>7. CASE t = "connection"
  BY <1>1, <1>2, <1>3, <1>7, StageTable, Holdings
<1>8. CASE t = "sync"
  BY <1>1, <1>2, <1>8, StageTable, Holdings
<1> QED BY <1>4, <1>5, <1>6, <1>7, <1>8

LEMMA LifecycleBegins == LifecycleInit => SInv
<1> SUFFICES ASSUME LifecycleInit PROVE SInv
  OBVIOUS
<1>1. LifeShape /\ Posted /\ Held
  BY DEF LifecycleInit, LifeShape, Posted, Held
<1>2. Whole
  BY DEF LifecycleInit, Whole
<1> QED BY <1>1, <1>2 DEF SInv

\* A step that neither enters nor leaves a stage, and starts no task.
LEMMA StageStays ==
  ASSUME SInv, LifeShape', UNCHANGED <<enabled, entered, opened, leaked>>, running' \subseteq running,
         phase' \in {"start", "serve", "deregister"} =>
           phase \in {"start", "serve", "deregister"} \/ entered = 0
  PROVE  SInv'
<1>1. Whole'
  <2>1. CASE entered = 0
    BY <2>1 DEF Whole
  <2>2. CASE entered # 0
    BY <2>2 DEF SInv, Whole, InUse
  <2> QED BY <2>1, <2>2
<1>2. Posted' /\ Held'
  BY DEF SInv, Posted, Held
<1> QED BY <1>1, <1>2 DEF SInv

LEMMA EnterKeeps ==
  ASSUME SInv, EnterStage
  PROVE  SInv'
<1> DEFINE s == Stages[entered + 1]
<1>1. entered \in 0 .. 7 /\ phase = "start" /\ entered' = entered + 1
      /\ UNCHANGED <<enabled, phase, registered, listed, leaked>>
  BY StageTable DEF SInv, LifeShape, EnterStage
<1>2. \A i : InUse(i)' <=> InUse(i)
  BY <1>1 DEF InUse
<1>3. \/ ~InUse(entered + 1) /\ opened' = opened /\ running' = running
      \/ InUse(entered + 1) /\ opened' = opened \cup HeldBy(s) /\ running' = running \cup WorkersOf(s)
  BY DEF EnterStage, InUse
<1>4. \A i \in 1 .. entered + 1 : InUse(i) => HeldBy(Stages[i]) \subseteq opened'
  <2> SUFFICES ASSUME NEW i \in 1 .. entered + 1, InUse(i) PROVE HeldBy(Stages[i]) \subseteq opened'
    OBVIOUS
  <2>1. CASE i = entered + 1
    BY <1>3, <2>1
  <2>2. CASE i # entered + 1
    <3>1. i \in 1 .. entered
      BY <1>1, <2>2
    <3> QED BY <1>1, <1>3, <3>1 DEF SInv, Whole
  <2> QED BY <2>1, <2>2
<1>5. Whole'
  BY <1>1, <1>2, <1>4 DEF Whole
<1>6. WorkersOf(s) \subseteq DOMAIN Needs
  BY StageTable DEF WorkersOf, Workers
<1>7. LifeShape'
  BY <1>1, <1>3, <1>6 DEF SInv, LifeShape
<1>8. Posted'
  <2> SUFFICES ASSUME NEW t \in running' PROVE Post[t] <= entered + 1 /\ Needs[t] \subseteq opened'
    BY <1>1 DEF Posted
  <2>1. CASE t \in running
    <3>1. t \in DOMAIN Needs /\ Post[t] \in 3 .. 7
      BY <2>1, Posts DEF SInv, LifeShape
    <3> QED BY <1>1, <1>3, <2>1, <3>1 DEF SInv, Posted
  <2>2. CASE t \notin running
    <3>1. t \in WorkersOf(s) /\ t \in DOMAIN Needs /\ InUse(entered + 1)
      BY <1>3, <1>6, <2>2
    <3>2. entered + 1 \in 1 .. 8
      BY <1>1
    <3>3. Post[t] = entered + 1
      BY <3>1, <3>2, Posts
    <3>4. entered + 1 = 5 => InUse(4)
      BY <1>1, <3>1, StageTable DEF EnterStage, InUse, Optional
    <3>5. Needs[t] \subseteq opened'
      BY <1>4, <3>1, <3>2, <3>3, <3>4, Provided
    <3> QED BY <3>2, <3>3, <3>5
  <2> QED BY <2>1, <2>2
<1>9. Held'
  <2>1. opened' \subseteq opened \cup HeldBy(Stages[entered + 1])
    BY <1>3
  <2>2. (\A i \in 1 .. entered : i \in 1 .. entered + 1) /\ entered + 1 \in 1 .. entered + 1
    BY <1>1
  <2> HIDE DEF s
  <2> QED BY <1>1, <2>1, <2>2 DEF SInv, Held
<1> QED BY <1>5, <1>7, <1>8, <1>9 DEF SInv

LEMMA FailKeeps ==
  ASSUME SInv, FailStage
  PROVE  SInv'
<1>1. entered \in 0 .. 7 /\ phase = "start" /\ phase' = "close"
      /\ UNCHANGED <<enabled, running, registered, listed, leaked>>
  BY StageTable DEF SInv, LifeShape, FailStage
<1>2. \/ UNCHANGED <<entered, opened>>
      \/ /\ entered' = entered + 1
         /\ opened \subseteq opened' /\ opened' \subseteq opened \cup HeldBy(Stages[entered + 1])
  BY DEF FailStage
<1>3. LifeShape' /\ Whole'
  BY <1>1, <1>2 DEF SInv, LifeShape, Whole
<1>4. Posted'
  <2> SUFFICES ASSUME NEW t \in running PROVE Post[t] <= entered' /\ Needs[t] \subseteq opened'
    BY <1>1 DEF Posted
  <2>1. Post[t] <= entered /\ Needs[t] \subseteq opened /\ Post[t] \in 3 .. 7
    BY Posts DEF SInv, Posted, LifeShape
  <2> QED BY <1>1, <1>2, <2>1
<1>5. Held'
  <2>1. CASE UNCHANGED <<entered, opened>>
    BY <1>1, <2>1 DEF SInv, Held
  <2>2. CASE entered' = entered + 1 /\ opened' \subseteq opened \cup HeldBy(Stages[entered + 1])
    <3>1. (\A i \in 1 .. entered : i \in 1 .. entered + 1) /\ entered + 1 \in 1 .. entered + 1
      BY <1>1
    <3> QED BY <1>1, <2>2, <3>1 DEF SInv, Held
  <2> QED BY <1>2, <2>1, <2>2
<1> QED BY <1>3, <1>4, <1>5 DEF SInv

LEMMA CloseKeeps ==
  ASSUME SInv, CloseStage
  PROVE  SInv'
<1> DEFINE s == Stages[entered]
<1>1. entered \in 1 .. 8 /\ phase = "close" /\ entered' = entered - 1 /\ entered' \in 0 .. 7
      /\ UNCHANGED <<enabled, phase, registered, listed>>
      /\ AwaitedBy(s) \cap running = {} /\ running' = running \ WorkersOf(s)
  BY DEF SInv, LifeShape, CloseStage
<1>2. PICK rest \in Remains(s) :
        opened' = opened \ (HeldBy(s) \ rest) /\ leaked' = leaked \cup (rest \cap opened)
  BY DEF CloseStage
<1>3. LifeShape' /\ Whole'
  BY <1>1 DEF SInv, LifeShape, Whole
<1>4. Posted'
  <2> SUFFICES ASSUME NEW t \in running' PROVE Post[t] <= entered' /\ Needs[t] \subseteq opened'
    BY DEF Posted
  <2>1. t \in running /\ t \in DOMAIN Needs /\ Post[t] <= entered /\ Needs[t] \subseteq opened
    BY <1>1 DEF SInv, LifeShape, Posted
  <2>2. Post[t] # entered /\ Post[t] \in 3 .. 7
    BY <1>1, <2>1, Posts
  <2>3. Post[t] < entered
    BY <1>1, <2>1, <2>2
  <2>4. Needs[t] \cap HeldBy(s) = {}
    BY <1>1, <2>1, <2>3, NotNeeded
  <2>5. Needs[t] \subseteq opened'
    BY <1>2, <2>1, <2>4
  <2> QED BY <1>1, <2>2, <2>3, <2>5
<1>5. Held'
  <2>1. \A i \in 1 .. entered : i = entered \/ i \in 1 .. entered'
    BY <1>1
  <2> SUFFICES ASSUME NEW x \in opened', x \notin leaked'
               PROVE  \E i \in 1 .. entered' : x \in HeldBy(Stages[i])
    BY DEF Held
  <2>2. x \in opened /\ x \notin leaked /\ x \notin HeldBy(s)
    BY <1>2
  <2>3. PICK i \in 1 .. entered : x \in HeldBy(Stages[i])
    BY <2>2 DEF SInv, Held
  <2> QED BY <2>1, <2>2, <2>3
<1> QED BY <1>3, <1>4, <1>5 DEF SInv

LEMMA StartTaskKeeps ==
  ASSUME SInv, NEW t \in DOMAIN Needs, StartTask(t)
  PROVE  SInv'
<1>1. phase = "serve" /\ entered = 8 /\ running' = running \cup {t}
      /\ UNCHANGED <<enabled, phase, entered, opened, registered, listed, leaked>>
  BY DEF SInv, LifeShape, StartTask
<1>2. LifeShape' /\ Whole' /\ Held'
  BY <1>1 DEF SInv, LifeShape, Whole, InUse, Held
<1>3. PICK s \in enabled : t \in AwaitedBy(s)
  BY DEF StartTask
<1>4. \/ s = "mem0" /\ t = "memory" /\ Post[t] = 3 /\ InUse(3)
      \/ s = "voice" /\ t = "connection" /\ Post[t] = 6 /\ InUse(6)
  <2>1. (s = "mem0" /\ t = "memory") \/ (s = "voice" /\ t = "connection")
    <3>1. s \in DOMAIN Awaited /\ t \in Awaited[s]
      BY <1>3 DEF AwaitedBy
    <3>2. Awaited["mem0"] = {"memory"} /\ Awaited["voice"] = {"connection"}
      BY DEF Awaited
    <3> QED BY <3>1, <3>2, StageTable
  <2> QED BY <2>1, <1>3, StageTable DEF InUse, Post
<1>5. \A i \in 1 .. 8 : InUse(i) => HeldBy(Stages[i]) \subseteq opened
  BY <1>1 DEF SInv, Whole
<1>6. Needs[t] \subseteq opened /\ Post[t] <= entered
  <2>1. CASE Post[t] = 3 /\ InUse(3)
    BY <1>1, <1>5, <2>1, Provided
  <2>2. CASE Post[t] = 6 /\ InUse(6)
    BY <1>1, <1>5, <2>2, Provided
  <2> QED BY <1>4, <2>1, <2>2
<1>7. Posted'
  BY <1>1, <1>6 DEF SInv, Posted
<1> QED BY <1>2, <1>7 DEF SInv

LEMMA LifecycleStep == SInv /\ [LifecycleNext]_lifecycle => SInv'
<1> SUFFICES ASSUME SInv, [LifecycleNext]_lifecycle PROVE SInv'
  OBVIOUS
<1>1. ASSUME LoadConfig \/ StopServing \/ Deregister \/ Over PROVE SInv'
  <2>1. UNCHANGED <<enabled, entered, opened, leaked, running>>
    BY <1>1 DEF LoadConfig, StopServing, Deregister, Over
  <2>3. LifeShape'
    <3>1. CASE LoadConfig
      BY <3>1 DEF SInv, LifeShape, LoadConfig
    <3>2. CASE StopServing
      BY <3>2 DEF SInv, LifeShape, StopServing
    <3>3. CASE Deregister
      BY <3>3 DEF SInv, LifeShape, Deregister
    <3>4. CASE Over
      BY <3>4 DEF SInv, LifeShape, Over
    <3> QED BY <1>1, <3>1, <3>2, <3>3, <3>4
  <2>2. phase' \in {"start", "serve", "deregister"} =>
          phase \in {"start", "serve", "deregister"} \/ entered = 0
    BY <1>1 DEF SInv, LifeShape, LoadConfig, StopServing, Deregister, Over
  <2> QED BY <2>1, <2>2, <2>3, StageStays
<1>2. ASSUME RegisterService \/ FailToRegister PROVE SInv'
  <2>1. LifeShape' /\ UNCHANGED <<enabled, entered, opened, leaked, running>> /\ phase = "start"
    BY <1>2, StageTable DEF SInv, LifeShape, RegisterService, FailToRegister
  <2> QED BY <2>1, StageStays
<1>3. ASSUME NEW t \in DOMAIN Needs, EndTask(t) PROVE SInv'
  <2>1. LifeShape' /\ UNCHANGED <<enabled, phase, entered, opened, leaked>> /\ running' \subseteq running
    BY <1>3 DEF SInv, LifeShape, EndTask
  <2> QED BY <2>1, StageStays
<1>4. CASE UNCHANGED lifecycle
  BY <1>4 DEF lifecycle, SInv, LifeShape, Whole, InUse, Posted, Held
<1> QED BY <1>1, <1>2, <1>3, <1>4, EnterKeeps, FailKeeps, CloseKeeps, StartTaskKeeps DEF LifecycleNext

LEMMA StoresOpen == SInv => WorksOnOpenStores
<1> SUFFICES ASSUME SInv PROVE WorksOnOpenStores
  OBVIOUS
<1>1. \A t \in running : Needs[t] \subseteq opened
  BY DEF SInv, Posted
<1>2. ASSUME registered, NEW s \in enabled PROVE HeldBy(s) \subseteq opened
  <2>1. \A i \in 1 .. 8 : InUse(i) => HeldBy(Stages[i]) \subseteq opened
    BY <1>2 DEF SInv, LifeShape, Whole
  <2>2. \E i \in 1 .. 8 : Stages[i] = s
    <3>1. s \in {"mem0", "email_auth", "email_skill", "voice", "video", "files"}
      BY <1>2 DEF SInv, LifeShape, Optional
    <3>2. 3 \in 1 .. 8 /\ 4 \in 1 .. 8 /\ 5 \in 1 .. 8 /\ 6 \in 1 .. 8 /\ 7 \in 1 .. 8 /\ 8 \in 1 .. 8
      OBVIOUS
    <3> QED BY <3>1, <3>2, StageTable
  <2> QED BY <1>2, <2>1, <2>2 DEF InUse
<1>3. ASSUME phase = "over" PROVE running = {} /\ opened \subseteq leaked
  <2>1. entered = 0
    BY <1>3 DEF SInv, LifeShape
  <2>2. running = {}
    <3> SUFFICES ASSUME NEW t \in running PROVE FALSE
      OBVIOUS
    <3>1. Post[t] \in 3 .. 7 /\ Post[t] <= 0
      BY <2>1, Posts DEF SInv, LifeShape, Posted
    <3> QED BY <3>1
  <2>3. 1 .. entered = {}
    BY <2>1
  <2> QED BY <2>2, <2>3 DEF SInv, Held
<1> QED BY <1>1, <1>2, <1>3 DEF WorksOnOpenStores

\* Wherever the start fails and whatever does not close: no task outlives the stores it works with, a
\* process that is registered has them all, and nothing is forgotten at the end (lifecycle.py:58).
THEOREM StoresStayOpen == LifecycleSpec => []WorksOnOpenStores
BY LifecycleBegins, LifecycleStep, StoresOpen, PTL DEF LifecycleSpec

-----------------------------------------------------------------------------
(***************************************************************************)
(* RemoteSettings.  OneValuePerSetting follows from what one step makes of *)
(* the document, so that its invariant only adds that the document is one  *)
(* and that nothing is set before the step; the work is in the joins.      *)
(***************************************************************************)
DocumentShape ==
  /\ DOMAIN document \subseteq Places
  /\ \A p \in DOMAIN document : document[p] \in ValuesAt(p)

RInv ==
  /\ DocumentShape /\ verdict \in {"unread", "applied", "refused"}
  /\ verdict = "unread" => settings = [s \in SettingNames |-> None]
  /\ OneValuePerSetting

LEMMA DocumentsShaped == document \in Documents => DocumentShape
<1> SUFFICES ASSUME document \in Documents PROVE DocumentShape
  OBVIOUS
<1>1. PICK places \in {few \cup required : few \in Few, required \in SUBSET ({"flat"} \X Required)} :
        document \in {d \in [places -> Texts \cup BOOLEAN] : \A p \in places : d[p] \in ValuesAt(p)}
  BY DEF Documents
<1>2. DOMAIN document = places /\ \A p \in places : document[p] \in ValuesAt(p)
  BY <1>1
<1>3. PICK few \in Few, required \in SUBSET ({"flat"} \X Required) : places = few \cup required
  BY <1>1
<1>4. few \subseteq Places
  <2>1. CASE few = {}
    BY <2>1
  <2>2. ASSUME NEW f \in [1 .. MaxPlaces -> Places], few = Range(f) PROVE few \subseteq Places
    BY <2>2 DEF Range
  <2> QED BY <2>1, <2>2 DEF Few
<1>5. required \subseteq Places
  BY <1>3 DEF Places, Required, SettingNames, Nested
<1> QED BY <1>2, <1>3, <1>4, <1>5 DEF DocumentShape

\* A place is a root and a name, and what the document says there is found by them.
LEMMA FoundByName ==
  ASSUME DocumentShape, NEW place \in DOMAIN document
  PROVE  /\ place[1] \in {"flat", "nested", "mail", "spring"}
         /\ place[1] \in {"flat", "nested"} => place[2] \in SettingNames
         /\ place[1] \in {"mail", "spring"} => place[2] \in Mailed \cup Switches
         /\ place[2] \in DOMAIN ByName(place[1])
         /\ ByName(place[1])[place[2]] = document[place]
         /\ place[2] \in Switches => document[place] \in BOOLEAN
<1>1. /\ place = << place[1], place[2] >>
      /\ \/ place[1] = "flat" /\ place[2] \in SettingNames
         \/ place[1] = "nested" /\ place[2] \in Nested
         \/ place[1] \in {"mail", "spring"} /\ place[2] \in Mailed \cup Switches
  BY DEF DocumentShape, Places
<1>2. place \in DOMAIN At(place[1])
  BY DEF At, Restrict
<1>3. place[2] \in DOMAIN ByName(place[1]) /\ ByName(place[1])[place[2]] = document[place]
  BY <1>1, <1>2 DEF ByName
<1>4. place[2] \in Switches => document[place] \in BOOLEAN
  BY DEF DocumentShape, ValuesAt
<1> QED BY <1>1, <1>3, <1>4 DEF SettingNames

\* Only switches have a name that is not a setting's.
LEMMA Names ==
  /\ Switches \cap SettingNames = {} /\ Switches \cap Mailed = {} /\ Flags \cap Mailed = {}
  /\ Switches = {"ssl.enable", "starttls.enable", "starttls.required"}
  /\ "SMTP_FROM_EMAIL" \notin Mailed \cup Flags /\ Mailed \cup Flags \subseteq SettingNames
  BY DEF Switches, SettingNames, Nested, Mailed, Flags, Bootstrap

\* Where mail is named at all, and in one way only, it is read from there.
LEMMA OneMailRoot ==
  ASSUME DocumentShape, ~Conflict, NEW place \in DOMAIN document, place[1] \in {"mail", "spring"}
  PROVE  /\ place[2] \in DOMAIN Mail /\ Mail[place[2]] = document[place]
<1>1. place[2] \in DOMAIN ByName(place[1]) /\ ByName(place[1])[place[2]] = document[place]
  BY FoundByName
<1>2. ByName(place[1]) # << >>
  BY <1>1
<1>3. MailRoot = place[1]
  BY <1>2 DEF MailRoot, Conflict
<1> QED BY <1>1, <1>3 DEF Mail

\* What the payload has of each of its parts.
LEMMA PayloadOfMapped ==
  ASSUME NEW s \in DOMAIN Mapped, s # "SMTP_FROM_EMAIL"
  PROVE  s \in DOMAIN Payload /\ Payload[s] = Mapped[s]
  BY DEF Payload, Join, Sender

LEMMA PayloadOfUnnested ==
  ASSUME ~Conflict, NEW s \in DOMAIN Unnested
  PROVE  s \in DOMAIN Payload /\ Payload[s] = Unnested[s]
<1> DEFINE both == Join(Unnested, Mapped)
<1>1. s \in DOMAIN both /\ both[s] = Unnested[s]
  <2>1. s \in DOMAIN Mapped => Mapped[s] = Unnested[s]
    BY DEF Conflict, Differ
  <2> QED BY <2>1 DEF Join
<1>2. s \notin DOMAIN Sender
  BY DEF Sender
<1> HIDE DEF both
<1>3. Payload = Join(both, Sender)
  BY DEF Payload, both
<1> QED BY <1>1, <1>2, <1>3 DEF Join

LEMMA MappedMail ==
  ASSUME NEW s \in Mailed \cap DOMAIN Mail
  PROVE  s \in DOMAIN Mapped /\ Mapped[s] = Mail[s] /\ s # "SMTP_FROM_EMAIL"
<1>1. DOMAIN Transport \subseteq Flags
  BY DEF Transport
<1> QED BY <1>1, Names DEF Mapped, Join, Restrict

LEMMA MappedFlags ==
  ASSUME StartTls \/ Off("starttls.enable") \/ On("ssl.enable") \/ Off("ssl.enable")
  PROVE  /\ "SMTP_USE_TLS" \in DOMAIN Payload /\ Payload["SMTP_USE_TLS"] = StartTls
         /\ "SMTP_USE_SSL" \in DOMAIN Payload /\ Payload["SMTP_USE_SSL"] = On("ssl.enable")
<1>1. Transport = [s \in Flags |-> IF s = "SMTP_USE_TLS" THEN StartTls ELSE On("ssl.enable")]
  BY DEF Transport
<1>2. \A s \in Flags : s \in DOMAIN Mapped /\ Mapped[s] = Transport[s] /\ s # "SMTP_FROM_EMAIL"
  BY <1>1, Names DEF Mapped, Join
<1>3. "SMTP_USE_TLS" \in Flags /\ "SMTP_USE_SSL" \in Flags
  BY DEF Flags
<1>4. Transport["SMTP_USE_TLS"] = StartTls /\ Transport["SMTP_USE_SSL"] = On("ssl.enable")
  BY <1>1, <1>3
<1> QED BY <1>2, <1>3, <1>4, PayloadOfMapped

\* Every place of a document without a conflict is obeyed.
LEMMA Obeyed ==
  ASSUME DocumentShape, ~Conflict, NEW place \in DOMAIN document, NEW s \in Means(place)
  PROVE  s \in DOMAIN Payload /\ Payload[s] = document[place]
<1>1. CASE place[1] \in {"flat", "nested"}
  <2>1. s = place[2] /\ s \in DOMAIN ByName(place[1]) /\ ByName(place[1])[s] = document[place]
    BY <1>1, FoundByName, Names DEF Means
  <2>2. s \in DOMAIN Unnested /\ Unnested[s] = document[place]
    BY <1>1, <2>1 DEF Unnested, Join, Conflict, Differ
  <2> QED BY <2>2, PayloadOfUnnested
<1>2. CASE place[1] \in {"mail", "spring"} /\ place[2] \in Mailed
  <2>1. s = place[2] /\ s \in DOMAIN Mail /\ Mail[s] = document[place]
    BY <1>2, OneMailRoot, Names DEF Means
  <2> QED BY <1>2, <2>1, MappedMail, PayloadOfMapped
<1>3. CASE place[1] \in {"mail", "spring"} /\ place[2] \in Switches
  <2>1. place[2] \in DOMAIN Mail /\ Mail[place[2]] = document[place] /\ document[place] \in BOOLEAN
    BY <1>3, OneMailRoot, FoundByName
  <2>2. On(place[2]) \/ Off(place[2])
    BY <2>1 DEF On, Off
  <2>3. document[place] = On(place[2])
    BY <2>1 DEF On
  <2>4. ~WrongTransport
    BY DEF Conflict
  <2>5. CASE place[2] = "ssl.enable"
    <3>1. s = "SMTP_USE_SSL"
      BY <2>5 DEF Means
    <3> QED BY <2>2, <2>3, <2>5, <3>1, MappedFlags
  <2>6. CASE place[2] = "starttls.enable"
    <3>1. s = "SMTP_USE_TLS"
      BY <2>6 DEF Means
    <3>2. StartTls = On("starttls.enable")
      BY <2>2, <2>4, <2>6 DEF StartTls, WrongTransport, On, Off
    <3>3. StartTls \/ Off("starttls.enable")
      BY <2>2, <2>6, <3>2
    <3>4. document[place] = StartTls
      BY <2>3, <2>6, <3>2
    <3> QED BY <3>1, <3>3, <3>4, MappedFlags
  <2>7. CASE place[2] = "starttls.required"
    <3>1. s = "SMTP_USE_TLS" /\ document[place]
      BY <2>7 DEF Means
    <3>2. StartTls
      BY <2>3, <2>7, <3>1 DEF StartTls
    <3> QED BY <2>1, <3>1, <3>2, MappedFlags
  <2> QED BY <1>3, <2>5, <2>6, <2>7, Names
<1> QED BY <1>1, <1>2, <1>3, FoundByName

LEMMA ApplyObeys ==
  ASSUME RInv, Apply
  PROVE  OneValuePerSetting'
<1>1. /\ DocumentShape /\ ~Conflict /\ document' = document /\ verdict' = "applied"
      /\ settings = [s \in SettingNames |-> None] /\ settings' = Join(settings, Payload)
      /\ DOMAIN Payload \subseteq SettingNames \ Bootstrap
  BY DEF RInv, Apply
<1>2. /\ \A s \in DOMAIN Payload : settings'[s] = Payload[s]
      /\ \A s \in SettingNames \ DOMAIN Payload : settings'[s] = None
  BY <1>1 DEF Join
<1>3. \A place \in DOMAIN document : \A s \in Means(place) : settings'[s] = document[place]
  BY <1>1, <1>2, Obeyed
<1>4. ~(On("ssl.enable") /\ StartTls)
  BY <1>1 DEF Conflict, WrongTransport, StartTls
<1>5. On("ssl.enable") => settings'["SMTP_USE_TLS"] = FALSE
  BY <1>2, <1>4, MappedFlags
<1>6. StartTls => settings'["SMTP_USE_SSL"] = FALSE
  BY <1>2, <1>4, MappedFlags
<1>7. settings'["HOST"] = None
  BY <1>1, <1>2 DEF SettingNames, Bootstrap
<1>8. /\ \A place \in DOMAIN document : Means(place)' = Means(place)
      /\ On("ssl.enable")' <=> On("ssl.enable")
      /\ StartTls' <=> StartTls
  BY <1>1 DEF Means, On, StartTls, Mail, MailRoot, ByName, At
<1> QED BY <1>1, <1>3, <1>5, <1>6, <1>7, <1>8 DEF OneValuePerSetting

LEMMA RemoteBegins == RemoteSettingsInit => RInv
  BY DocumentsShaped DEF RemoteSettingsInit, Unread, RInv, OneValuePerSetting

LEMMA RemoteStep == RInv /\ [RemoteSettingsNext]_remoteSettings => RInv'
<1> SUFFICES ASSUME RInv, [RemoteSettingsNext]_remoteSettings PROVE RInv'
  OBVIOUS
<1>1. document' = document
  BY DEF RemoteSettingsNext, Apply, Refuse, remoteSettings
<1>2. DocumentShape'
  BY <1>1 DEF RInv, DocumentShape
<1>3. CASE Apply
  BY <1>2, <1>3, ApplyObeys DEF RInv, Apply
<1>4. CASE Refuse
  BY <1>2, <1>4 DEF RInv, Refuse, OneValuePerSetting
<1>5. CASE UNCHANGED remoteSettings
  <2>1. settings' = settings /\ verdict' = verdict
    BY <1>5 DEF remoteSettings
  <2>2. /\ \A place \in DOMAIN document : Means(place)' = Means(place)
        /\ On("ssl.enable")' <=> On("ssl.enable")
        /\ StartTls' <=> StartTls
    BY <1>1 DEF Means, On, StartTls, Mail, MailRoot, ByName, At
  <2>3. OneValuePerSetting'
    BY <1>1, <2>1, <2>2 DEF RInv, OneValuePerSetting
  <2> QED BY <1>2, <2>1, <2>3 DEF RInv
<1> QED BY <1>3, <1>4, <1>5 DEF RemoteSettingsNext

\* A document of any size that is applied was obeyed wherever it names a setting, flat, nested or
\* below "mail"; nothing is set by one that is refused, and no bootstrap field ever (nacos.py:334).
THEOREM SettingsObey == RemoteSettingsSpec => []OneValuePerSetting
<1>1. RInv => OneValuePerSetting
  BY DEF RInv
<1> QED BY <1>1, RemoteBegins, RemoteStep, PTL DEF RemoteSettingsSpec

=============================================================================
