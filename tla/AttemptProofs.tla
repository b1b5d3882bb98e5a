---------------------------- MODULE AttemptProofs ----------------------------
(***************************************************************************)
(* Theorems about the attempts the row counts: they are stamped, and there  *)
(* are never more of them than wrong passwords, however the requests        *)
(* interleave.                                                              *)
(***************************************************************************)
EXTENDS SPasswordProofs

-----------------------------------------------------------------------------
(* Who may change the count: only the two writes of authenticate raise it,  *)
(* and only they stamp it (CountKept); the writes of the API leave both     *)
(* columns alone (CountStill).                                              *)

CountKept ==
  \/ row' = row
  \/ row' = NoRow
  \/ /\ row = NoRow /\ row' # NoRow
     /\ row'.login_attempts = 0 /\ row'.last_login_attempt_time = None
  \/ /\ row # NoRow /\ row' # NoRow
     /\ row'.login_attempts \in {0, row.login_attempts}
     /\ row'.last_login_attempt_time = row.last_login_attempt_time

CountStill ==
  \/ row' = row
  \/ /\ row # NoRow /\ row' # NoRow
     /\ row'.login_attempts = row.login_attempts
     /\ row'.last_login_attempt_time = row.last_login_attempt_time

LEMMA StillKept == CountStill => CountKept
BY DEF CountStill, CountKept

(* A write that assigns other columns than those two. *)
LEMMA FlushStill ==
  ASSUME NEW r, NEW changed, NEW assigned, NEW next,
         Flush(r, changed, assigned, next),
         row # NoRow =>
           /\ assigned \in Row
           /\ assigned.login_attempts = row.login_attempts
           /\ assigned.last_login_attempt_time = row.last_login_attempt_time
  PROVE  CountStill
BY NoRowAssumption DEF Flush, CountStill

LEMMA FlushKeeps ==
  ASSUME NEW r, NEW changed, NEW assigned, NEW next,
         Flush(r, changed, assigned, next),
         row # NoRow =>
           /\ assigned \in Row
           /\ assigned.login_attempts \in {0, row.login_attempts}
           /\ assigned.last_login_attempt_time = row.last_login_attempt_time
  PROVE  CountKept
BY NoRowAssumption DEF Flush, CountKept

LEMMA RenewKeeps ==
  ASSUME Typed, NEW r \in Requests, NEW next, RenewPassword(r, next)
  PROVE  CountKept
<1> DEFINE new == NewRow(now, 0, None)
           again == [row EXCEPT !.creation_time = now,
                                !.login_attempts =
                                   Written(@, req[r].ref.login_attempts, 0)]
<1>1. /\ new \in Row /\ new.login_attempts = 0
      /\ new.last_login_attempt_time = None
  BY NewRowType DEF Typed, TypeOK, Stamp, NewRow, BlankRow
<1>2. row # NoRow =>
        /\ again \in Row
        /\ again.login_attempts \in {0, row.login_attempts}
        /\ again.last_login_attempt_time = row.last_login_attempt_time
  BY DEF Typed, TypeOK, Row, Written
<1>3. Insert(r, new, next) \/ Flush(r, TRUE, again, next)
  BY DEF RenewPassword
<1> HIDE DEF new, again
<1>4. CASE Insert(r, new, next)
  BY <1>1, <1>4, NoRowAssumption DEF Insert, CountKept
<1>5. CASE Flush(r, TRUE, again, next)
  BY <1>2, <1>5, FlushKeeps
<1> QED
  BY <1>3, <1>4, <1>5

LEMMA SetUserSndfaCodeKeeps ==
  ASSUME Typed, NEW r \in Requests, NEW next,
         req[r].code \in MaybeCode, SetUserSndfaCode(r, next)
  PROVE  CountStill
<1> DEFINE new == WithCode(row, req[r].ref, req[r].code, now)
<1>1. row # NoRow =>
        /\ new \in Row
        /\ new.login_attempts = row.login_attempts
        /\ new.last_login_attempt_time = row.last_login_attempt_time
  BY WrittenType DEF Typed, TypeOK, Row, WithCode, Stamp
<1>2. Flush(r, TRUE, new, next) \/ UNCHANGED row
  BY DEF SetUserSndfaCode, Skip
<1> HIDE DEF new
<1> QED
  BY <1>1, <1>2, FlushStill DEF CountStill

LEMMA SetCheckEmailCodeKeeps ==
  ASSUME Typed, NEW r \in Requests, NEW next,
         req[r].code \in MaybeCode, SetCheckEmailCode(r, next)
  PROVE  CountStill
<1> DEFINE ref == req[r].ref
           new == [row EXCEPT !.sndfa_email_code =
                                  Written(@, ref.sndfa_email_code, req[r].code),
                              !.sndfa_email = Written(@, ref.sndfa_email, FALSE)]
<1>1. row # NoRow =>
        /\ new \in Row
        /\ new.login_attempts = row.login_attempts
        /\ new.last_login_attempt_time = row.last_login_attempt_time
  BY WrittenType DEF Typed, TypeOK, Row
<1>2. Flush(r, TRUE, new, next) \/ UNCHANGED row
  BY DEF SetCheckEmailCode, Skip
<1> HIDE DEF new
<1> QED
  BY <1>1, <1>2, FlushStill DEF CountStill

LEMMA CheckEmailCodeKeeps ==
  ASSUME Typed, NEW r \in Requests, NEW yes, NEW no, CheckEmailCode(r, yes, no)
  PROVE  CountStill
<1> DEFINE check == EmailCodeAccepted(req[r].ref, req[r].code)
           new == [row EXCEPT !.sndfa_email = check]
<1>1. check \in BOOLEAN
  BY DEF EmailCodeAccepted
<1>2. row # NoRow =>
        /\ new \in Row
        /\ new.login_attempts = row.login_attempts
        /\ new.last_login_attempt_time = row.last_login_attempt_time
  BY <1>1 DEF Typed, TypeOK, Row
<1>3. (\E changed, next : Flush(r, changed, new, next)) \/ UNCHANGED row
  BY DEF CheckEmailCode, Skip
<1> HIDE DEF new
<1> QED
  BY <1>2, <1>3, FlushStill DEF CountStill

LEMMA ModifyKeeps ==
  ASSUME Typed, NEW r \in Requests, NEW next,
         ModifySndfa(r, next) \/ ModifyBlack(r, next)
  PROVE  CountStill
<1>1. req[r].enable \in BOOLEAN
  BY RequestTyped DEF Local
<1>2. CASE ModifySndfa(r, next)
  <2> DEFINE new == [row EXCEPT !.sndfa = req[r].enable]
  <2>1. row # NoRow =>
          /\ new \in Row
          /\ new.login_attempts = row.login_attempts
          /\ new.last_login_attempt_time = row.last_login_attempt_time
    BY <1>1 DEF Typed, TypeOK, Row
  <2>2. (\E changed : Flush(r, changed, new, next)) \/ UNCHANGED row
    BY <1>2 DEF ModifySndfa, Skip
  <2> HIDE DEF new
  <2> QED
    BY <2>1, <2>2, FlushStill DEF CountStill
<1>3. CASE ModifyBlack(r, next)
  <2> DEFINE new == [row EXCEPT !.black = req[r].enable]
  <2>1. row # NoRow =>
          /\ new \in Row
          /\ new.login_attempts = row.login_attempts
          /\ new.last_login_attempt_time = row.last_login_attempt_time
    BY <1>1 DEF Typed, TypeOK, Row
  <2>2. (\E changed : Flush(r, changed, new, next)) \/ UNCHANGED row
    BY <1>3 DEF ModifyBlack, Skip
  <2> HIDE DEF new
  <2> QED
    BY <2>1, <2>2, FlushStill DEF CountStill
<1> QED
  BY <1>2, <1>3

LEMMA CheckSndfaCodeKeeps ==
  ASSUME Typed, NEW r \in Requests, NEW yes, NEW no, CheckSndfaCode(r, yes, no)
  PROVE  CountStill
<1> DEFINE new == [row EXCEPT !.sndfa_last = now]
<1>1. row # NoRow =>
        /\ new \in Row
        /\ new.login_attempts = row.login_attempts
        /\ new.last_login_attempt_time = row.last_login_attempt_time
  BY DEF Typed, TypeOK, Row, Stamp
<1>2. Flush(r, TRUE, new, yes) \/ UNCHANGED row
  BY DEF CheckSndfaCode, Skip
<1> HIDE DEF new
<1> QED
  BY <1>1, <1>2, FlushStill DEF CountStill

LEMMA ApiKeepsCount ==
  ASSUME Typed, NEW r \in Requests, ApiStep(r)
  PROVE  CountStill
<1>1. CASE ApiWrite(r)
  <2>1. req[r].op \in Generating => req[r].code \in MaybeCode
    BY RequestTyped
  <2> QED
    BY <1>1, <2>1, SetCheckEmailCodeKeeps, CheckEmailCodeKeeps, ModifyKeeps
    DEF ApiWrite, Generating
<1>2. CASE CheckCode(r)
  BY <1>2, CheckSndfaCodeKeeps DEF CheckCode
<1>3. CASE \/ ApiCall(r) \/ EmailValidated(r) \/ MailCode(r)
           \/ ResetPassword(r) \/ MailPassword(r)
  BY <1>3 DEF ApiCall, EmailValidated, MailCode, ResetPassword, MailPassword,
              CountStill
<1> QED
  BY <1>1, <1>2, <1>3 DEF ApiStep

LEMMA LifecycleKeepsCount ==
  ASSUME Typed, NEW r \in Requests, LifecycleStep(r)
  PROVE  CountKept
<1>1. CASE UNCHANGED row
  BY <1>1 DEF CountKept
<1>2. CASE CallbackWrite(r)
  <2>1. \E next : RenewPassword(r, next)
    BY <1>2 DEF CallbackWrite, SetUserCreationTime, UpdateUserModificationTime
  <2> QED
    BY <2>1, RenewKeeps
<1>3. CASE RemoveUser(r, "ok")
  BY <1>3 DEF RemoveUser, CountKept
<1> QED
  BY <1>1, <1>2, <1>3 DEF LifecycleStep

Counts(r) == Commit(r) \/ InsertLogin(r)

LEMMA OnlyLoginsCount ==
  ASSUME Typed, [Next]_vars
  PROVE  CountKept \/ \E r \in Requests : Counts(r)
<1>1. CASE UNCHANGED vars \/ Tick
  BY <1>1 DEF vars, Tick, CountKept
<1>2. ASSUME NEW r \in Requests, GetSPasswordSession(r) \/ Crash(r)
      PROVE  CountKept
  BY <1>2 DEF GetSPasswordSession, Crash, CountKept
<1>3. ASSUME NEW r \in Requests, IdentityStep(r)
      PROVE  CountKept \/ Counts(r)
  <2>1. CASE StoreChallenge(r)
    BY <2>1, SetUserSndfaCodeKeeps, StillKept, RequestTyped
    DEF StoreChallenge, At, Generating
  <2>2. CASE \/ \E pw \in Passwords : Authenticate(r, pw)
             \/ \E pw, new \in Passwords : ChangePassword(r, pw, new)
             \/ LoadUser(r) \/ CheckPassword(r) \/ RecordAttempt(r)
             \/ Challenge(r) \/ MailChallenge(r) \/ Register(r)
    BY <2>2 DEF Authenticate, ChangePassword, LoadUser, CheckPassword, RecordAttempt, Challenge,
                MailChallenge, Register, CountKept
  <2> QED
    BY <1>3, <2>1, <2>2 DEF IdentityStep, Counts
<1> QED
  BY <1>1, <1>2, <1>3, ApiKeepsCount, StillKept, LifecycleKeepsCount DEF Next

(* What the two writes store. *)
LEMMA CountedRow ==
  ASSUME Typed, NEW r \in Requests, Counts(r)
  PROVE  \/ UNCHANGED row
         \/ /\ row' \in Row
            /\ row'.last_login_attempt_time = req[r].at
            /\ \/ row'.login_attempts = 0
               \/ row # NoRow /\ row'.login_attempts = row.login_attempts
               \/ /\ ~req[r].right /\ At(r, "commit")
                  /\ row'.login_attempts = req[r].tries + 1
               \/ /\ ~req[r].right /\ At(r, "insert")
                  /\ row'.login_attempts = 1
<1>1. /\ req[r].at \in Stamp /\ req[r].tries \in Nat
      /\ Count(req[r].right, req[r].tries) \in Nat
      /\ Count(req[r].right, 0) \in Nat
  BY RequestTyped DEF Local, Stamp, Count
<1>2. CASE Commit(r)
  <2> DEFINE n == Written(row.login_attempts, req[r].tries,
                          Count(req[r].right, req[r].tries))
             new == [row EXCEPT !.login_attempts = n,
                                !.last_login_attempt_time = req[r].at]
  <2>1. UNCHANGED row \/ (row # NoRow /\ row' = new)
    BY <1>2 DEF Commit, Flush
  <2>2. row # NoRow => n \in Nat
    BY <1>1 DEF Written, Typed, TypeOK, Row
  <2>3. row # NoRow =>
          \/ n = 0
          \/ n = row.login_attempts
          \/ ~req[r].right /\ n = req[r].tries + 1
    BY <1>1 DEF Written, Count
  <2> HIDE DEF n
  <2>4. row # NoRow => /\ new \in Row /\ new.login_attempts = n
                       /\ new.last_login_attempt_time = req[r].at
    BY <1>1, <2>2 DEF Typed, TypeOK, Row
  <2> QED
    BY <1>2, <2>1, <2>3, <2>4 DEF Commit
<1>3. CASE InsertLogin(r)
  <2> DEFINE n == Count(req[r].right, 0)
             new == NewRow(req[r].at, n, req[r].at)
  <2>1. UNCHANGED row \/ row' = new
    BY <1>3 DEF InsertLogin, Insert
  <2>2. n = 0 \/ (~req[r].right /\ n = 1)
    BY DEF Count
  <2>3. req[r].at \in Nat
    BY RequestTyped DEF Local
  <2>4. new \in Row
    BY <1>1, <2>3, NewRowType
  <2>5. new.login_attempts = n /\ new.last_login_attempt_time = req[r].at
    BY DEF NewRow, BlankRow
  <2> QED
    BY <1>3, <2>1, <2>2, <2>4, <2>5 DEF InsertLogin
<1> QED
  BY <1>2, <1>3 DEF Counts

LEMMA InitCountsNothing == Init /\ row # NoRow => row.login_attempts = 0
<1>1. NewRow(0, 0, None).login_attempts = 0
  BY DEF NewRow, BlankRow
<1>2. Init /\ row # NoRow => row = NewRow(0, 0, None)
  BY DEF Init
<1> QED
  BY <1>1, <1>2

-----------------------------------------------------------------------------
LEMMA StampedNext ==
  Typed /\ AttemptsStamped /\ [Next]_vars => AttemptsStamped'
<1> SUFFICES ASSUME Typed, AttemptsStamped, [Next]_vars PROVE AttemptsStamped'
  OBVIOUS
<1>1. CASE CountKept
  BY <1>1 DEF CountKept, AttemptsStamped
<1>2. ASSUME NEW r \in Requests, Counts(r) PROVE AttemptsStamped'
  <2>1. req[r].at # None
    BY RequestTyped, NoneAssumption DEF Local
  <2> QED
    BY <1>2, <2>1, CountedRow DEF AttemptsStamped
<1> QED
  BY <1>1, <1>2, OnlyLoginsCount

(* No row over the limit lacks its time: the block check of authenticate    *)
(* (line 389) never fails on a NULL stamp, for any settings and any         *)
(* interleaving of calls.                                                   *)
THEOREM AttemptsAreStamped == Spec => []AttemptsStamped
<1>1. Init => AttemptsStamped
  BY InitCountsNothing DEF AttemptsStamped
<1> QED
  BY <1>1, StampedNext, TypeCorrect, PTL DEF Spec

-----------------------------------------------------------------------------
(* A wrong password is in badTries from the moment the attempt is recorded, *)
(* and the request carries a count that is one below what it will store.    *)

AfterRecord == {"challenge", "set_user_sndfa_code", "mail", "commit",
                "register", "insert"}

Logins == {"authenticate", "change_password"}

InTries(l, n) ==
  l.op \in Logins /\ l.pc \in AfterRecord /\ ~l.right => l.tries + 1 <= n

Counted ==
  /\ NoSpuriousBlock
  /\ \A r \in Requests : InTries(req[r], badTries)

(* What a step of r does to the requests. *)
StaysInTries(r, n) ==
  /\ \A q \in Requests \ {r} : req'[q] = req[q]
  /\ InTries(req'[r], n)

LEMMA GotoInTries ==
  ASSUME req \in [Requests -> Local], NEW r \in Requests, NEW l \in Local,
         NEW next, NEW n, Goto(r, l, next),
         l.op \in Logins /\ next \in AfterRecord /\ ~l.right =>
           l.tries + 1 <= n
  PROVE  StaysInTries(r, n)
<1>1. CASE next \in Outcomes
  BY <1>1 DEF Goto, Answered, Idle, Logins, InTries, StaysInTries
<1>2. CASE next \notin Outcomes
  BY <1>2 DEF Goto, InTries, Local, StaysInTries
<1> QED
  BY <1>1, <1>2

LEMMA AnswerInTries ==
  ASSUME req \in [Requests -> Local], NEW r \in Requests, NEW o, NEW n, Answer(r, o)
  PROVE  StaysInTries(r, n)
BY DEF Answer, Answered, Idle, Logins, InTries, StaysInTries

(* A write answers with an error or goes where the method's caller says.    *)
LEMMA WriteInTries ==
  ASSUME Typed, NEW r \in Requests, NEW next, NEW n,
         \/ \E changed, assigned : Flush(r, changed, assigned, next)
         \/ \E new : Insert(r, new, next)
         \/ Goto(r, req[r], next),
         req[r].op \in Logins /\ next \in AfterRecord =>
           InTries(req[r], n) /\ req[r].pc \in AfterRecord
  PROVE  StaysInTries(r, n)
<1>1. req[r] \in Local /\ req \in [Requests -> Local]
  BY RequestTyped DEF Typed, TypeOK
<1>2. Goto(r, req[r], next) \/ Answer(r, "error")
  BY DEF Flush, Insert
<1>3. req[r].op \in Logins /\ next \in AfterRecord /\ ~req[r].right =>
        req[r].tries + 1 <= n
  BY DEF InTries
<1> QED
  BY <1>1, <1>2, <1>3, GotoInTries, AnswerInTries

LEMMA SessionInTries ==
  ASSUME Typed, Counted, NEW r \in Requests, GetSPasswordSession(r)
  PROVE  StaysInTries(r, badTries')
<1>1. req' = [req EXCEPT ![r] = [req[r] EXCEPT !.loaded = TRUE, !.ref = row]]
  BY DEF GetSPasswordSession, Typed, TypeOK
<1>2. req[r] \in Local /\ req \in [Requests -> Local]
  BY RequestTyped DEF Typed, TypeOK
<1>3. InTries(req[r], badTries) /\ badTries' = badTries
  BY DEF Counted, GetSPasswordSession, history
<1>4. InTries([req[r] EXCEPT !.loaded = TRUE, !.ref = row], badTries)
  BY <1>2, <1>3 DEF InTries, Local
<1> QED
  BY <1>1, <1>2, <1>3, <1>4 DEF StaysInTries

LEMMA IdentityInTries ==
  ASSUME Typed, Counted, NEW r \in Requests, IdentityStep(r)
  PROVE  StaysInTries(r, badTries')
<1>1. /\ req[r] \in Local /\ req \in [Requests -> Local]
      /\ InTries(req[r], badTries) /\ badTries \in Nat
  BY RequestTyped DEF Typed, TypeOK, Counted
<1>2. CASE \/ \E pw \in Passwords : Authenticate(r, pw)
           \/ \E pw, new \in Passwords : ChangePassword(r, pw, new)
  <2>1. ASSUME NEW login \in Local, BlockCheck(r, login)
        PROVE  StaysInTries(r, badTries')
    <3>1. PICK next \in {"user", "error", "blocked"} : Goto(r, login, next)
      BY <2>1 DEF BlockCheck
    <3>2. next \notin AfterRecord
      BY DEF AfterRecord
    <3> QED
      BY <1>1, <3>1, <3>2, GotoInTries
  <2>2. (\E login \in Local : BlockCheck(r, login)) \/ Answer(r, "bad_request")
    <3>1. \A pw, new \in Passwords :
            /\ [Idle EXCEPT !.op = "authenticate", !.password = pw] \in Local
            /\ [Idle EXCEPT !.op = "change_password", !.password = pw,
                            !.new = new] \in Local
      BY LoginLocal
    <3> QED
      BY <1>2, <3>1 DEF Authenticate, ChangePassword
  <2> QED
    BY <1>1, <2>1, <2>2, AnswerInTries
<1>3. CASE LoadUser(r) \/ CheckPassword(r)
  <2>1. PICK l \in Local, next \in {"password", "record", "expired"} :
          Goto(r, l, next)
    <3>1. [req[r] EXCEPT !.right =
             UserExists /\ req[r].password = user.password] \in Local
      BY <1>1, JudgedLocal
    <3> QED
      BY <1>1, <1>3, <3>1 DEF LoadUser, CheckPassword
  <2>2. next \notin AfterRecord
    BY DEF AfterRecord
  <2> QED
    BY <1>1, <2>1, <2>2, GotoInTries
<1>4. CASE RecordAttempt(r)
  <2> DEFINE n == IF row = NoRow THEN 0 ELSE row.login_attempts
             l == [req[r] EXCEPT !.at = now, !.tries = n]
             t == [l EXCEPT !.token = Granted(row, now)]
             c == [l EXCEPT !.code = row.sndfa_code]
  <2>1. n \in Nat /\ n <= badTries /\ now \in Nat
    BY <1>1 DEF Typed, TypeOK, Row, Counted, NoSpuriousBlock
  <2>2. ~req[r].right => n + 1 <= badTries'
    BY <1>1, <1>4, <2>1 DEF RecordAttempt
  <2>3. \/ \E next : Goto(r, l, next)
        \/ Goto(r, t, "commit")
        \/ row # NoRow /\ Goto(r, c, "mail")
    BY <1>4 DEF RecordAttempt
  <2> HIDE DEF n
  <2>4. l \in Local /\ l.tries = n /\ l.right = req[r].right
    BY <1>1, <2>1 DEF Local
  <2>5. Granted(row, now) \in BOOLEAN
    BY DEF Granted
  <2>6. row # NoRow => row.sndfa_code \in MaybeCode
    BY DEF Row, Typed, TypeOK
  <2> HIDE DEF l
  <2>7. t \in Local /\ t.tries = n /\ t.right = req[r].right
    BY <2>4, <2>5 DEF Local
  <2>8. row # NoRow => c \in Local /\ c.tries = n /\ c.right = req[r].right
    BY <2>4, <2>6 DEF Local
  <2> HIDE DEF t, c
  <2> QED
    BY <1>1, <2>2, <2>3, <2>4, <2>7, <2>8, GotoInTries
<1>5. CASE Challenge(r)
  <2>1. badTries' = badTries /\ req[r].op \in Logins /\ req[r].pc = "challenge"
    BY <1>5 DEF Challenge, history, At, Logins
  <2>2. CASE Answer(r, "not_found")
    BY <1>1, <2>2, AnswerInTries
  <2>3. ASSUME NEW c \in Codes,
               Goto(r, [req[r] EXCEPT !.code = c], "set_user_sndfa_code")
        PROVE  StaysInTries(r, badTries')
    <3> DEFINE m == [req[r] EXCEPT !.code = c]
    <3>1. m \in Local /\ m.tries = req[r].tries /\ m.right = req[r].right
      BY <1>1 DEF Local, MaybeCode
    <3>2. ~req[r].right => req[r].tries + 1 <= badTries'
      BY <1>1, <2>1 DEF InTries, AfterRecord
    <3>3. Goto(r, m, "set_user_sndfa_code")
      BY <2>3
    <3> HIDE DEF m
    <3> QED
      BY <1>1, <3>1, <3>2, <3>3, GotoInTries
  <2> QED
    BY <1>5, <2>2, <2>3 DEF Challenge
<1>6. CASE StoreChallenge(r)
  <2>1. /\ badTries' = badTries /\ req[r].pc \in AfterRecord
        /\ SetUserSndfaCode(r, "mail")
    BY <1>6 DEF StoreChallenge, history, SetUserSndfaCode, Writing, AfterRecord
  <2> QED
    BY <1>1, <2>1, WriteInTries DEF SetUserSndfaCode, Skip
<1>7. CASE MailChallenge(r)
  <2>1. badTries' = badTries /\ req[r].op \in Logins /\ req[r].pc = "mail"
    BY <1>7 DEF MailChallenge, history, At, Logins
  <2>2. ~req[r].right => req[r].tries + 1 <= badTries'
    BY <1>1, <2>1 DEF InTries, AfterRecord
  <2>3. (\E next : Goto(r, req[r], next)) \/ (\E o : Answer(r, o))
    BY <1>7 DEF MailChallenge, SendEmail
  <2> QED
    BY <1>1, <2>2, <2>3, GotoInTries, AnswerInTries
<1>8. CASE Commit(r) \/ InsertLogin(r)
  <2>1. Answering(r) \notin AfterRecord
    BY DEF Answering, Granting, AfterRecord
  <2> QED
    BY <1>1, <1>8, <2>1, WriteInTries DEF Commit, InsertLogin
<1>9. CASE Register(r)
  <2> DEFINE m == [req[r] EXCEPT !.token = req[r].right]
  <2>1. m \in Local /\ m.tries = req[r].tries /\ m.right = req[r].right
    BY <1>1 DEF Local
  <2>2. ~req[r].right => req[r].tries + 1 <= badTries'
    BY <1>1, <1>9 DEF Register, At, Logins, InTries, AfterRecord, history
  <2>3. \E next : Goto(r, m, next)
    BY <1>9 DEF Register
  <2> HIDE DEF m
  <2> QED
    BY <1>1, <2>1, <2>2, <2>3, GotoInTries
<1> QED
  BY <1>2, <1>3, <1>4, <1>5, <1>6, <1>7, <1>8, <1>9 DEF IdentityStep

(* No other call is a login, whatever step it goes to. *)
LEMMA ElsewhereInTries ==
  ASSUME Typed, NEW r \in Requests, NEW n,
         \/ \E l \in Local : \E next : l.op \notin Logins /\ Goto(r, l, next)
         \/ \E next : next \notin AfterRecord /\ Goto(r, req[r], next)
         \/ \E o : Answer(r, o)
  PROVE  StaysInTries(r, n)
BY RequestTyped, GotoInTries, AnswerInTries DEF Typed, TypeOK

LEMMA ApiCallInTries ==
  ASSUME Typed, NEW r \in Requests, NEW n, ApiCall(r)
  PROVE  StaysInTries(r, n)
<1>1. ASSUME NEW op \in APIOps \ Logins,
             NEW c \in MaybeCode \cup {BadCode}, NEW enable \in BOOLEAN,
             NEW first, Call(r, op, c, enable, first)
      PROVE  StaysInTries(r, n)
  <2> DEFINE l == [Idle EXCEPT !.op = op, !.code = c, !.enable = enable,
                               !.email = user.email]
  <2>0. user.email \in Addresses \cup {None}
    BY DEF Typed, TypeOK, User
  <2>1. l \in Local
    BY <2>0, CallLocal
  <2>2. l.op \notin Logins
    BY DEF Idle
  <2>3. Goto(r, l, first)
    BY <1>1 DEF Call
  <2> HIDE DEF l
  <2> QED
    BY <2>1, <2>2, <2>3, ElsewhereInTries
<1>2. \A c : c \in Codes \/ c = None \/ c \in KnownCodes =>
                c \in MaybeCode \cup {BadCode}
  BY KnownCodesType DEF MaybeCode
<1>3. {"ask_check_email", "check_email", "modify_sndfa", "check_sndfa",
       "modify_black", "recover", "reset"} \subseteq APIOps \ Logins
  BY DEF APIOps, Logins
<1>4. \E op \in APIOps \ Logins, c \in MaybeCode \cup {BadCode},
         enable \in BOOLEAN : \E first : Call(r, op, c, enable, first)
  <2>1. CASE AskCheckEmail(r) \/ CheckEmail(r)
    BY <1>2, <1>3, <2>1 DEF AskCheckEmail, CheckEmail
  <2>2. CASE AskModifySndfa(r) \/ CheckSndfa(r)
    BY <1>2, <1>3, <2>2 DEF AskModifySndfa, CheckSndfa
  <2>3. CASE AskModifyBlack(r) \/ Recover(r) \/ Reset(r)
    BY <1>2, <1>3, <2>3 DEF AskModifyBlack, Recover, Reset
  <2> QED
    BY <2>1, <2>2, <2>3 DEF ApiCall
<1> QED
  BY <1>1, <1>4

LEMMA ApiInTries ==
  ASSUME Typed, NEW r \in Requests, NEW n, ApiStep(r)
  PROVE  StaysInTries(r, n)
<1>1. req[r] \in Local
  BY RequestTyped
<1>2. CASE EmailValidated(r)
  <2>1. ASSUME NEW c \in Codes, req[r].op = "recover",
               Goto(r, [req[r] EXCEPT !.code = c], "set_check_email_code")
        PROVE  StaysInTries(r, n)
    <3>1. /\ [req[r] EXCEPT !.code = c] \in Local
          /\ [req[r] EXCEPT !.code = c].op \notin Logins
      BY <1>1, <2>1 DEF Local, MaybeCode, Logins
    <3> QED
      BY <2>1, <3>1, ElsewhereInTries
  <2>2. ASSUME NEW next \in {"modify_sndfa", "check_sndfa_code"},
               Goto(r, req[r], next)
        PROVE  StaysInTries(r, n)
    BY <2>2, ElsewhereInTries DEF AfterRecord
  <2>3. CASE Answer(r, "unauthorized")
    BY <2>3, ElsewhereInTries
  <2> QED
    BY <1>2, <2>1, <2>2, <2>3 DEF EmailValidated
<1>3. CASE ApiWrite(r) \/ CheckCode(r)
  <2>1. \E next : /\ req[r].op \in Logins => next \notin AfterRecord
                  /\ \/ Goto(r, req[r], next)
                     \/ \E changed, assigned : Flush(r, changed, assigned, next)
    <3>1. {"ok", "unauthorized"} \cap AfterRecord = {}
      BY DEF AfterRecord
    <3> QED
      BY <1>3, <3>1
      DEF ApiWrite, CheckCode, Logins, SetCheckEmailCode, CheckEmailCode, ModifySndfa,
          ModifyBlack, CheckSndfaCode, Skip
  <2> QED
    BY <2>1, WriteInTries
<1>4. CASE MailCode(r) \/ MailPassword(r)
  <2>1. req[r].op \notin Logins
    BY <1>4 DEF MailCode, MailPassword, Logins
  <2>2. (\E next : Goto(r, req[r], next)) \/ (\E o : Answer(r, o))
    BY <1>4 DEF MailCode, MailPassword, SendEmail
  <2> QED
    BY <1>1, <2>1, <2>2, ElsewhereInTries
<1>5. CASE ResetPassword(r)
  <2>1. ASSUME NEW pw \in Passwords,
               Goto(r, [req[r] EXCEPT !.new = pw], "user_updated_callback")
        PROVE  StaysInTries(r, n)
    <3>1. /\ [req[r] EXCEPT !.new = pw] \in Local
          /\ [req[r] EXCEPT !.new = pw].op \notin Logins
      BY <1>1, <1>5 DEF Local, ResetPassword, Logins
    <3> QED
      BY <2>1, <3>1, ElsewhereInTries
  <2>2. CASE Answer(r, "not_found")
    BY <2>2, ElsewhereInTries
  <2> QED
    BY <1>5, <2>1, <2>2 DEF ResetPassword
<1> QED
  BY <1>2, <1>3, <1>4, <1>5, ApiCallInTries DEF ApiStep

LEMMA LifecycleInTries ==
  ASSUME Typed, NEW r \in Requests, NEW n, LifecycleStep(r)
  PROVE  StaysInTries(r, n)
<1>1. ASSUME NEW op \in APIOps \ Logins, NEW pc, Arrive(r, op, pc)
      PROVE  StaysInTries(r, n)
  <2>1. [Idle EXCEPT !.op = op] \in Local
    BY ArriveLocal
  <2>2. [Idle EXCEPT !.op = op].op = op
    BY DEF Idle
  <2> QED
    BY <1>1, <2>1, <2>2, ElsewhereInTries DEF Arrive
<1>2. CASE \/ CreateUser(r) \/ UpdateUser(r) \/ ScimUpdateUser(r)
           \/ DeleteUser(r) \/ StorePassword(r)
  <2>1. {"create_user", "update_user", "delete_user"} \subseteq APIOps \ Logins
    BY DEF APIOps, Logins
  <2>2. CASE StorePassword(r)
    <3>1. "user_updated_callback" \notin AfterRecord
      BY DEF AfterRecord
    <3> QED
      BY <2>2, <3>1, ElsewhereInTries DEF StorePassword
  <2> QED
    BY <1>1, <1>2, <2>1, <2>2
    DEF CreateUser, UpdateUser, ScimUpdateUser, ChangeUser, DeleteUser
<1>3. CASE \/ Callback(r, "user_created_callback", "set_user_creation_time")
           \/ Callback(r, "user_updated_callback",
                       "update_user_modification_time")
  <2>1. {"set_user_creation_time", "update_user_modification_time",
         "not_found"} \cap AfterRecord = {}
    BY DEF AfterRecord
  <2> QED
    BY <1>3, <2>1, ElsewhereInTries DEF Callback
<1>4. CASE CallbackWrite(r)
  <2>1. \E next : /\ req[r].op \in Logins => next \notin AfterRecord
                  /\ \/ Goto(r, req[r], next)
                     \/ \E changed, assigned : Flush(r, changed, assigned, next)
                     \/ \E new : Insert(r, new, next)
    <3>1. "ok" \notin AfterRecord /\ "reset" \notin Logins
      BY DEF AfterRecord, Logins
    <3> QED
      BY <1>4, <3>1
      DEF CallbackWrite, SetUserCreationTime, UpdateUserModificationTime,
          RenewPassword
  <2> QED
    BY <2>1, WriteInTries
<1>5. CASE RemoveUser(r, "ok")
  BY <1>5, ElsewhereInTries DEF RemoveUser, AfterRecord
<1> QED
  BY <1>2, <1>3, <1>4, <1>5 DEF LifecycleStep

-----------------------------------------------------------------------------
LEMMA BadTriesGrow ==
  ASSUME Typed, [Next]_vars
  PROVE  badTries \in Nat /\ badTries' \in Nat /\ badTries <= badTries'
<1>1. badTries \in Nat
  BY DEF Typed, TypeOK
<1>2. CASE UNCHANGED badTries
  BY <1>1, <1>2
<1>3. CASE \E r \in Requests : RecordAttempt(r)
  BY <1>1, <1>3 DEF RecordAttempt
<1>4. [Next]_vars => UNCHANGED badTries \/ \E r \in Requests : RecordAttempt(r)
  BY DEF Next, vars, history, Tick, GetSPasswordSession, Crash, IdentityStep,
         Authenticate, ChangePassword, LoadUser, CheckPassword, Challenge, StoreChallenge,
         MailChallenge, Commit, Register, InsertLogin, ApiStep, ApiCall,
         EmailValidated, ApiWrite, CheckCode, MailCode, ResetPassword,
         MailPassword, LifecycleStep
<1> QED
  BY <1>2, <1>3, <1>4

LEMMA CountedNext == Typed /\ Counted /\ [Next]_vars => Counted'
<1> SUFFICES ASSUME Typed, Counted, [Next]_vars PROVE Counted'
  OBVIOUS
<1>1. badTries \in Nat /\ badTries' \in Nat /\ badTries <= badTries'
  BY BadTriesGrow
<1>2. NoSpuriousBlock'
  <2>1. row # NoRow => row.login_attempts \in Nat
    BY DEF Typed, TypeOK, Row
  <2>2. CASE CountKept
    BY <1>1, <2>1, <2>2 DEF CountKept, NoSpuriousBlock, Counted
  <2>3. ASSUME NEW r \in Requests, Counts(r) PROVE NoSpuriousBlock'
    <3>1. req[r].tries \in Nat
      BY RequestTyped DEF Local
    <3>2. At(r, "commit") /\ ~req[r].right => req[r].tries + 1 <= badTries
      BY DEF At, Logins, Counted, InTries, AfterRecord
    <3>3. At(r, "insert") /\ ~req[r].right => req[r].tries + 1 <= badTries
      BY DEF At, Logins, Counted, InTries, AfterRecord
    <3>4. UNCHANGED row => NoSpuriousBlock'
      BY <1>1, <2>1 DEF NoSpuriousBlock, Counted
    <3>5. CASE row' # NoRow /\ ~UNCHANGED row
      <4>1. \/ row'.login_attempts = 0
            \/ row # NoRow /\ row'.login_attempts = row.login_attempts
            \/ row'.login_attempts = req[r].tries + 1
               /\ req[r].tries + 1 <= badTries
            \/ row'.login_attempts = 1 /\ req[r].tries + 1 <= badTries
        BY <2>3, <3>2, <3>3, <3>5, CountedRow
      <4> QED
        BY <1>1, <2>1, <3>1, <4>1 DEF NoSpuriousBlock, Counted
    <3> QED
      BY <3>4, <3>5 DEF NoSpuriousBlock
  <2> QED
    BY <2>2, <2>3, OnlyLoginsCount
<1>3. \A r \in Requests : InTries(req'[r], badTries')
  <2>1. \A q \in Requests : InTries(req[q], badTries')
    <3> SUFFICES ASSUME NEW q \in Requests PROVE InTries(req[q], badTries')
      OBVIOUS
    <3>1. req[q].tries \in Nat
      BY RequestTyped DEF Local
    <3> QED
      BY <1>1, <3>1 DEF Counted, InTries
  <2>2. ASSUME NEW r \in Requests, StaysInTries(r, badTries')
        PROVE  \A q \in Requests : InTries(req'[q], badTries')
    BY <2>1, <2>2 DEF StaysInTries
  <2>3. ASSUME UNCHANGED req
        PROVE  \A q \in Requests : InTries(req'[q], badTries')
    BY <2>1, <2>3
  <2>4. ASSUME NEW r \in Requests, Crash(r)
        PROVE  StaysInTries(r, badTries')
    BY <2>4, ElsewhereInTries DEF Crash
  <2>5. UNCHANGED req \/ \E r \in Requests : StaysInTries(r, badTries')
    BY <2>4, SessionInTries, IdentityInTries, ApiInTries, LifecycleInTries
    DEF Next, vars, Tick
  <2> QED
    BY <2>2, <2>3, <2>5
<1> QED
  BY <1>2, <1>3 DEF Counted

(* The row never counts more attempts than wrong passwords were given, for  *)
(* any number of logins at once: a user is not blocked for tries nobody     *)
(* made (authenticate, 404-416).                                            *)
THEOREM NoBlockWithoutTries == Spec => []NoSpuriousBlock
<1>1. Init => Counted
  <2>1. Init /\ row # NoRow => row.login_attempts <= badTries
    BY InitCountsNothing DEF Init
  <2>2. Init => \A r \in Requests : InTries(req[r], badTries)
    BY DEF Init, Idle, Logins, InTries
  <2> QED
    BY <2>1, <2>2 DEF Counted, NoSpuriousBlock
<1>2. Counted => NoSpuriousBlock
  BY DEF Counted
<1> QED
  BY <1>1, <1>2, CountedNext, TypeCorrect, PTL DEF Spec
=============================================================================
