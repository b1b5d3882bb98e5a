---------------------------- MODULE SerialProofs ----------------------------
(***************************************************************************)
(* Theorems about one request at a time: as long as no two requests for the *)
(* user overlap, whoever makes them and however many there are, what a      *)
(* request read from the row is what it writes it back to.  Each property   *)
(* proved here either is stated for that case only or fails without it.     *)
(***************************************************************************)
EXTENDS AttemptProofs, CodeProofs, LifecycleProofs

(* The assumption: whenever a request is being handled, no other is.        *)
OneAtATime == \A q, r \in Requests : Free(q) \/ Free(r) \/ q = r

-----------------------------------------------------------------------------
(* The invariant: what a request in progress knows of the row, step by      *)
(* step.                                                                    *)

PastBlockCheck == {"user", "password", "record"} \cup AfterRecord

StampPassed(t) ==
  row # NoRow /\ row.last_login_attempt_time # None =>
    row.last_login_attempt_time <= t

(* The attempt recorded at time "at" is the count of the row, or there is   *)
(* no row and the login is to insert it.                                    *)
Recorded(pc, tries, at) ==
  /\ row = NoRow <=> pc \in {"register", "insert"}
  /\ tries = IF row = NoRow THEN 0 ELSE row.login_attempts
  /\ at <= now
  /\ StampPassed(at)

LoginSound(pc, code, tries, at) ==
  /\ pc \in PastBlockCheck => ~LockedOut
  /\ pc \in AfterRecord => Recorded(pc, tries, at)
  /\ pc \in {"challenge", "set_user_sndfa_code"} =>
       Enrolled(row) /\ ~CodeReusable(row, now)
  /\ pc = "mail" => row.sndfa_code = code

RecoverSound(pc, code) ==
  /\ pc \in {"set_check_email_code", "check_email_code"} =>
       row # NoRow /\ code \in Codes
  /\ pc = "check_email_code" => row.sndfa_email_code = code

(* The steps that insert a row when there is none.                          *)
Inserting == {"insert", "set_user_creation_time", "update_user_modification_time"}

Sound(op, pc, code, tries, at) ==
  /\ op \in Logins => LoginSound(pc, code, tries, at)
  /\ op = "recover" => RecoverSound(pc, code)
  /\ pc \in Inserting => UserExists

InTouch(l) ==
  /\ l.loaded => l.ref = row
  /\ Sound(l.op, l.pc, l.code, l.tries, l.at)

Serial ==
  /\ StampPassed(now)
  /\ \A r \in Requests : Free(r) \/ InTouch(req[r])

(* What a step of r does to the requests.                                   *)
StaysInTouch(r) == OnlyMoves(r) /\ (Free(r) \/ InTouch(req[r]))'

-----------------------------------------------------------------------------
(* Moving a request.                                                        *)

LEMMA GotoInTouch ==
  ASSUME Typed, NEW r \in Requests, NEW l \in Local, NEW next, Goto(r, l, next),
         next \notin Outcomes => Sound(l.op, next, l.code, l.tries, l.at)'
  PROVE  StaysInTouch(r)
<1>1. req \in [Requests -> Local] /\ OnlyMoves(r)
  BY GotoMovesOnly DEF Typed, TypeOK
<1>2. CASE next \in Outcomes
  <2>1. req'[r] = Answered(next)
    BY <1>1, <1>2 DEF Goto
  <2>2. req'[r].pc = next
    BY <2>1 DEF Answered, Idle
  <2> QED
    BY <1>1, <1>2, <2>2 DEF StaysInTouch, Free
<1>3. CASE next \notin Outcomes
  <2>1. req'[r] = [l EXCEPT !.pc = next, !.loaded = FALSE, !.ref = NoRow]
    BY <1>1, <1>3 DEF Goto
  <2>2. /\ req'[r].op = l.op /\ req'[r].pc = next /\ req'[r].code = l.code
        /\ req'[r].tries = l.tries /\ req'[r].at = l.at /\ ~req'[r].loaded
    BY <2>1 DEF Local
  <2>3. InTouch(req[r])'
    BY <1>3, <2>2 DEF InTouch
  <2> QED
    BY <1>1, <2>3 DEF StaysInTouch
<1> QED
  BY <1>2, <1>3

LEMMA AnswerInTouch ==
  ASSUME Typed, NEW r \in Requests, NEW o \in Outcomes, Answer(r, o)
  PROVE  StaysInTouch(r)
<1>1. req'[r] = Answered(o) /\ OnlyMoves(r)
  BY DEF Answer, OnlyMoves, Typed, TypeOK
<1>2. req'[r].pc = o
  BY <1>1 DEF Answered, Idle
<1> QED
  BY <1>1, <1>2 DEF StaysInTouch, Free

(* The steps nothing is said of.                                            *)
LEMMA Carefree ==
  ASSUME NEW op, NEW pc, NEW code, NEW tries, NEW at,
         op \in Logins => pc \notin PastBlockCheck,
         op = "recover" => pc \notin {"set_check_email_code", "check_email_code"},
         pc \notin Inserting
  PROVE  /\ Sound(op, pc, code, tries, at)
         /\ Sound(op, pc, code, tries, at)'
BY DEF Sound, LoginSound, RecoverSound, PastBlockCheck, AfterRecord

(* A step that writes nothing a request relies on.                          *)
LEMMA StillSound ==
  ASSUME UNCHANGED <<now, user, row>>,
         NEW op, NEW pc, NEW code, NEW tries, NEW at,
         Sound(op, pc, code, tries, at)
  PROVE  Sound(op, pc, code, tries, at)'
<1>1. LoginSound(pc, code, tries, at) => LoginSound(pc, code, tries, at)'
  BY DEF LoginSound, LockedOut, Recorded, StampPassed
<1>2. RecoverSound(pc, code) => RecoverSound(pc, code)'
  BY DEF RecoverSound
<1> QED
  BY <1>1, <1>2 DEF Sound, UserExists

LEMMA QuietInTouch ==
  ASSUME Typed, UNCHANGED <<now, user, row>>,
         NEW r \in Requests, NEW l \in Local, NEW next, Goto(r, l, next),
         next \notin Outcomes => Sound(l.op, next, l.code, l.tries, l.at)
  PROVE  StaysInTouch(r)
BY StillSound, GotoInTouch

LEMMA CarefreeInTouch ==
  ASSUME Typed, NEW r \in Requests, NEW l \in Local, NEW next, Goto(r, l, next),
         l.op \in Logins => next \notin PastBlockCheck,
         l.op = "recover" =>
           next \notin {"set_check_email_code", "check_email_code"},
         next \notin Inserting
  PROVE  StaysInTouch(r)
BY Carefree, GotoInTouch

-----------------------------------------------------------------------------
(* Queries and logins.                                                      *)

LEMMA SessionInTouch ==
  ASSUME Typed, Serial, NEW r \in Requests, GetSPasswordSession(r)
  PROVE  StaysInTouch(r)
<1>1. /\ req' = [req EXCEPT ![r] = [req[r] EXCEPT !.loaded = TRUE, !.ref = row]]
      /\ UNCHANGED <<now, user, row>>
  BY DEF GetSPasswordSession, Typed, TypeOK
<1>2. InTouch(req[r])
  BY DEF GetSPasswordSession, Methods, Serial, Free, Outcomes
<1>3. OnlyMoves(r) /\ req'[r] = [req[r] EXCEPT !.loaded = TRUE, !.ref = row]
  BY <1>1 DEF OnlyMoves, Typed, TypeOK
<1>4. /\ req'[r].op = req[r].op /\ req'[r].pc = req[r].pc
      /\ req'[r].code = req[r].code /\ req'[r].tries = req[r].tries
      /\ req'[r].at = req[r].at /\ req'[r].ref = row
  BY <1>3, RequestTyped DEF Local
<1>5. PICK op, pc, code, tries, at :
        /\ op = req[r].op /\ pc = req[r].pc /\ code = req[r].code
        /\ tries = req[r].tries /\ at = req[r].at
  OBVIOUS
<1>6. Sound(op, pc, code, tries, at)'
  BY <1>1, <1>2, <1>5, StillSound DEF InTouch
<1> QED
  BY <1>1, <1>3, <1>4, <1>5, <1>6 DEF StaysInTouch, InTouch

LEMMA BlockCheckInTouch ==
  ASSUME Typed, UNCHANGED <<now, user, row>>, NEW r \in Requests,
         NEW login \in Local, BlockCheck(r, login)
  PROVE  StaysInTouch(r)
<1>1. \/ Goto(r, login, "user") /\ ~LockedOut
      \/ Goto(r, login, "error")
      \/ Goto(r, login, "blocked")
  BY DEF BlockCheck, LockedOut, Blocked
<1>2. ~LockedOut => Sound(login.op, "user", login.code, login.tries, login.at)
  BY DEF Sound, LoginSound, RecoverSound, AfterRecord, Inserting
<1>3. {"error", "blocked"} \subseteq Outcomes
  BY DEF Outcomes
<1> QED
  BY <1>1, <1>2, <1>3, QuietInTouch

(* A login in progress is past the block check.                             *)
LEMMA LoginsInTouch ==
  ASSUME Serial, NEW r \in Requests, NEW pc, At(r, pc), pc \notin Outcomes \cup {"idle"}
  PROVE  /\ req[r].op \in Logins /\ req[r].op # "recover" /\ req[r].pc = pc
         /\ LoginSound(pc, req[r].code, req[r].tries, req[r].at)
         /\ pc \in Inserting => UserExists
         /\ req[r].loaded => req[r].ref = row
BY DEF At, Serial, Free, InTouch, Sound, Logins

LEMMA LoadUserInTouch ==
  ASSUME Typed, Serial, NEW r \in Requests, LoadUser(r) \/ CheckPassword(r)
  PROVE  StaysInTouch(r)
<1>0. req[r] \in Local /\ UNCHANGED <<now, user, row>>
  BY RequestTyped DEF LoadUser, CheckPassword
<1>1. req[r].op \in Logins /\ req[r].op # "recover" /\ ~LockedOut
  BY LoginsInTouch
  DEF LoadUser, CheckPassword, Outcomes, LoginSound, PastBlockCheck
<1>2. \A next \in {"password", "record"} : \A op, code, tries, at :
        op # "recover" => Sound(op, next, code, tries, at)
  BY <1>1 DEF Sound, LoginSound, AfterRecord, Inserting
<1>3. CASE LoadUser(r)
  <2> DEFINE l == [req[r] EXCEPT !.right =
                     UserExists /\ req[r].password = user.password]
  <2>1. l \in Local
    BY <1>0, JudgedLocal
  <2>2. l.op = req[r].op
    BY <1>0 DEF Local
  <2>3. \E next \in {"password", "record"} : Goto(r, l, next)
    BY <1>3 DEF LoadUser
  <2> HIDE DEF l
  <2> QED
    BY <1>0, <1>1, <1>2, <2>1, <2>2, <2>3, QuietInTouch
<1>4. CASE CheckPassword(r)
  <2>1. Goto(r, req[r], "record") \/ Goto(r, req[r], "expired")
    BY <1>4 DEF CheckPassword
  <2>2. "expired" \in Outcomes
    BY DEF Outcomes
  <2> QED
    BY <1>0, <1>1, <1>2, <2>1, <2>2, QuietInTouch
<1> QED
  BY <1>3, <1>4

(* The second query of a login: from here on the request relies on what it  *)
(* read.                                                                    *)
LEMMA RecordAttemptInTouch ==
  ASSUME Typed, Serial, NEW r \in Requests, RecordAttempt(r)
  PROVE  StaysInTouch(r)
<1> DEFINE n == IF row = NoRow THEN 0 ELSE row.login_attempts
           l == [req[r] EXCEPT !.at = now, !.tries = n]
           t == [l EXCEPT !.token = Granted(row, now)]
           c == [l EXCEPT !.code = row.sndfa_code]
<1>0. req[r] \in Local /\ UNCHANGED <<now, user, row>> /\ now \in Nat
  BY RequestTyped DEF RecordAttempt, Typed, TypeOK
<1>1. req[r].op \in Logins /\ req[r].op # "recover" /\ ~LockedOut
  BY LoginsInTouch DEF RecordAttempt, Outcomes, LoginSound, PastBlockCheck
<1>2. n \in Nat /\ Granted(row, now) \in BOOLEAN
  BY DEF Typed, TypeOK, Row, Granted
<1>3. row # NoRow => row.sndfa_code \in MaybeCode
  BY DEF Typed, TypeOK, Row
<1>4. \/ row = NoRow /\ Goto(r, l, "register")
      \/ row # NoRow /\ Goto(r, l, "commit")
      \/ row # NoRow /\ Goto(r, t, "commit")
      \/ row # NoRow /\ Goto(r, c, "mail")
      \/ /\ row # NoRow /\ Challenged(row, now) /\ ~CodeReusable(row, now)
         /\ Goto(r, l, "challenge")
  BY DEF RecordAttempt
<1>5. \A pc : (row = NoRow <=> pc \in {"register", "insert"}) =>
                Recorded(pc, n, now)
  BY <1>0 DEF Recorded, Serial
<1> HIDE DEF n
<1>6. /\ l \in Local /\ l.op = req[r].op /\ l.code = req[r].code
      /\ l.tries = n /\ l.at = now
  BY <1>0, <1>2 DEF Local
<1> HIDE DEF l
<1>7. t \in Local /\ t.op = l.op /\ t.tries = l.tries /\ t.at = l.at
  BY <1>2, <1>6 DEF Local
<1>8. row # NoRow => /\ c \in Local /\ c.op = l.op /\ c.tries = l.tries
                     /\ c.at = l.at /\ c.code = row.sndfa_code
  BY <1>3, <1>6 DEF Local
<1> HIDE DEF t, c
<1>9. CASE row = NoRow /\ Goto(r, l, "register")
  <2>1. Sound(l.op, "register", l.code, l.tries, l.at)
    BY <1>1, <1>5, <1>6, <1>9 DEF Sound, LoginSound, Inserting
  <2> QED
    BY <1>0, <1>6, <1>9, <2>1, QuietInTouch
<1>10. CASE row # NoRow /\ (Goto(r, l, "commit") \/ Goto(r, t, "commit"))
  <2>1. \A code : Sound(l.op, "commit", code, n, now)
    BY <1>1, <1>5, <1>6, <1>10 DEF Sound, LoginSound, Inserting
  <2> QED
    BY <1>0, <1>6, <1>7, <1>10, <2>1, QuietInTouch
<1>11. CASE row # NoRow /\ Goto(r, c, "mail")
  <2>1. Sound(l.op, "mail", row.sndfa_code, n, now)
    BY <1>1, <1>5, <1>6, <1>11 DEF Sound, LoginSound, Inserting
  <2> QED
    BY <1>0, <1>6, <1>8, <1>11, <2>1, QuietInTouch
<1>12. CASE /\ row # NoRow /\ Challenged(row, now) /\ ~CodeReusable(row, now)
            /\ Goto(r, l, "challenge")
  <2>1. Enrolled(row)
    BY <1>12 DEF Challenged, NeedsSecondFactor, Enrolled
  <2>2. Sound(l.op, "challenge", l.code, n, now)
    BY <1>1, <1>5, <1>6, <1>12, <2>1 DEF Sound, LoginSound, Inserting
  <2> QED
    BY <1>0, <1>6, <1>12, <2>2, QuietInTouch
<1> QED
  BY <1>4, <1>9, <1>10, <1>11, <1>12

LEMMA ChallengeInTouch ==
  ASSUME Typed, Serial, NEW r \in Requests, Challenge(r)
  PROVE  StaysInTouch(r)
<1>0. req[r] \in Local /\ UNCHANGED <<now, user, row>>
  BY RequestTyped DEF Challenge
<1>1. /\ req[r].op \in Logins /\ req[r].op # "recover"
      /\ LoginSound("challenge", req[r].code, req[r].tries, req[r].at)
  BY LoginsInTouch DEF Challenge, Outcomes
<1>2. ASSUME NEW c \in Codes,
             Goto(r, [req[r] EXCEPT !.code = c], "set_user_sndfa_code")
      PROVE  StaysInTouch(r)
  <2> DEFINE l == [req[r] EXCEPT !.code = c]
  <2>1. /\ l \in Local /\ l.op = req[r].op
        /\ l.tries = req[r].tries /\ l.at = req[r].at
    BY <1>0 DEF Local, MaybeCode
  <2>2. Goto(r, l, "set_user_sndfa_code")
    BY <1>2
  <2> HIDE DEF l
  <2>3. Sound(l.op, "set_user_sndfa_code", l.code, l.tries, l.at)
    BY <1>1, <2>1 DEF Sound, LoginSound, Recorded, PastBlockCheck, AfterRecord,
                      Inserting
  <2> QED
    BY <1>0, <2>1, <2>2, <2>3, QuietInTouch
<1>3. CASE Answer(r, "not_found")
  BY <1>3, AnswerInTouch DEF Outcomes
<1> QED
  BY <1>2, <1>3 DEF Challenge

(* A write to columns that neither count attempts nor stamp them.           *)
LEMMA CountStands ==
  ASSUME row # NoRow, row' # NoRow, UNCHANGED now,
         row'.login_attempts = row.login_attempts,
         row'.last_login_attempt_time = row.last_login_attempt_time
  PROVE  /\ ~LockedOut => ~LockedOut'
         /\ StampPassed(now) => StampPassed(now)'
         /\ \A pc, next, tries, at :
              pc \notin {"register", "insert"} /\ next \notin {"register", "insert"} =>
                (Recorded(pc, tries, at) => Recorded(next, tries, at)')
BY DEF LockedOut, Blocked, OverTries, StillBlocked, StampPassed, Recorded

(* The code mailed next is the one stored, not what somebody else put there *)
(* since the row was queried.                                               *)
LEMMA StoreChallengeInTouch ==
  ASSUME Typed, Serial, NEW r \in Requests, StoreChallenge(r)
  PROVE  StaysInTouch(r)
<1>0. PICK l \in Local : l = req[r]
  BY RequestTyped
<1>1. /\ l.op \in Logins /\ l.op # "recover" /\ l.loaded /\ l.ref = row
      /\ LoginSound("set_user_sndfa_code", l.code, l.tries, l.at)
  BY <1>0, LoginsInTouch DEF StoreChallenge, SetUserSndfaCode, Writing, Outcomes
<1>2. /\ ~LockedOut /\ Recorded("set_user_sndfa_code", l.tries, l.at)
      /\ Enrolled(row) /\ row # NoRow
  BY <1>1 DEF LoginSound, PastBlockCheck, AfterRecord, Enrolled
<1>3. /\ row' = WithCode(row, row, l.code, now)
      /\ Goto(r, l, "mail") /\ UNCHANGED <<now, user>>
  BY <1>0, <1>1, <1>2 DEF StoreChallenge, SetUserSndfaCode, Flush
<1>4. l.code \in MaybeCode /\ now \in Nat /\ row \in Row
  BY <1>0, <1>1, <1>2, RequestTyped DEF Generating, Logins, Typed, TypeOK
<1>5. /\ row' \in Row
      /\ row'.login_attempts = row.login_attempts
      /\ row'.last_login_attempt_time = row.last_login_attempt_time
  BY <1>3, <1>4, WrittenType DEF WithCode, Row, Stamp
<1>6. row'.sndfa_code = l.code
  BY <1>3, <1>4 DEF WithCode, Row, Written
<1>7. ~LockedOut' /\ Recorded("mail", l.tries, l.at)'
  BY <1>2, <1>3, <1>5, NoRowAssumption, CountStands
<1>8. Sound(l.op, "mail", l.code, l.tries, l.at)'
  BY <1>1, <1>6, <1>7 DEF Sound, LoginSound, Inserting
<1> QED
  BY <1>3, <1>8, GotoInTouch

LEMMA MailChallengeInTouch ==
  ASSUME Typed, Serial, NEW r \in Requests, MailChallenge(r)
  PROVE  StaysInTouch(r)
<1>0. req[r] \in Local /\ UNCHANGED <<now, user, row>>
  BY RequestTyped DEF MailChallenge
<1>1. /\ req[r].op \in Logins /\ req[r].op # "recover"
      /\ LoginSound("mail", req[r].code, req[r].tries, req[r].at)
  BY LoginsInTouch DEF MailChallenge, Outcomes
<1>2. Sound(req[r].op, "commit", req[r].code, req[r].tries, req[r].at)
  BY <1>1 DEF Sound, LoginSound, Recorded, PastBlockCheck, AfterRecord, Inserting
<1>3. \/ Goto(r, req[r], "commit") \/ Goto(r, req[r], "error")
      \/ \E o \in {"error", "not_found"} : Answer(r, o)
  BY DEF MailChallenge, SendEmail
<1>4. {"error", "not_found"} \subseteq Outcomes
  BY DEF Outcomes
<1> QED
  BY <1>0, <1>2, <1>3, <1>4, QuietInTouch, AnswerInTouch

LEMMA RegisterInTouch ==
  ASSUME Typed, Serial, NEW r \in Requests, Register(r)
  PROVE  StaysInTouch(r)
<1>0. req[r] \in Local /\ UNCHANGED <<now, user, row>>
  BY RequestTyped DEF Register
<1>1. /\ req[r].op \in Logins /\ req[r].op # "recover"
      /\ LoginSound("register", req[r].code, req[r].tries, req[r].at)
  BY LoginsInTouch DEF Register, Outcomes
<1> DEFINE l == [req[r] EXCEPT !.token = req[r].right]
<1>2. l \in Local
  BY <1>0, JudgedLocal
<1>3. /\ l.op = req[r].op /\ l.code = req[r].code
      /\ l.tries = req[r].tries /\ l.at = req[r].at
  BY <1>0 DEF Local
<1>4. \/ UserExists /\ Goto(r, l, "insert")
      \/ Goto(r, l, "not_found")
  BY DEF Register
<1> HIDE DEF l
<1>5. UserExists => Sound(l.op, "insert", l.code, l.tries, l.at)
  BY <1>1, <1>3 DEF Sound, LoginSound, Recorded, PastBlockCheck, AfterRecord
<1>6. "not_found" \in Outcomes
  BY DEF Outcomes
<1> QED
  BY <1>0, <1>2, <1>4, <1>5, <1>6, QuietInTouch

(* After its write a login relies on nothing any more.                      *)
LEMMA CountsInTouch ==
  ASSUME Typed, NEW r \in Requests, Counts(r)
  PROVE  StaysInTouch(r)
<1>1. PICK next \in {"ok", "unauthorized", "change"} :
        Goto(r, req[r], next) \/ Answer(r, "error")
  BY DEF Counts, Commit, InsertLogin, Flush, Insert, Answering, Granting
<1>2. "error" \in Outcomes
  BY DEF Outcomes
<1>3. next \notin PastBlockCheck \cup Inserting
  BY DEF PastBlockCheck, AfterRecord, Inserting
<1> QED
  BY <1>1, <1>2, <1>3, RequestTyped, CarefreeInTouch, AnswerInTouch

LEMMA IdentityInTouch ==
  ASSUME Typed, Serial, NEW r \in Requests, IdentityStep(r)
  PROVE  StaysInTouch(r)
<1>1. CASE \/ \E pw \in Passwords : Authenticate(r, pw)
           \/ \E pw, new \in Passwords : ChangePassword(r, pw, new)
  <2>1. UNCHANGED <<now, user, row>>
    BY <1>1 DEF Authenticate, ChangePassword
  <2>2. (\E login \in Local : BlockCheck(r, login)) \/ Answer(r, "bad_request")
    BY <1>1, LoginLocal DEF Authenticate, ChangePassword
  <2> QED
    BY <2>1, <2>2, BlockCheckInTouch, AnswerInTouch DEF Outcomes
<1> QED
  BY <1>1, LoadUserInTouch, RecordAttemptInTouch, ChallengeInTouch,
     StoreChallengeInTouch, MailChallengeInTouch, RegisterInTouch, CountsInTouch
  DEF IdentityStep, Counts

-----------------------------------------------------------------------------
(* The other calls.                                                         *)

LEMMA ApiCallInTouch ==
  ASSUME Typed, NEW r \in Requests, ApiCall(r)
  PROVE  StaysInTouch(r)
<1>0. user.email \in Addresses \cup {None}
  BY DEF Typed, TypeOK, User
<1>1. Codes \cup KnownCodes \cup {None} \subseteq MaybeCode \cup {BadCode}
  BY KnownCodesType DEF MaybeCode
<1>2. ASSUME NEW op \in APIOps \ Logins, NEW c \in MaybeCode \cup {BadCode},
             NEW enable \in BOOLEAN, NEW first, Call(r, op, c, enable, first),
             op = "recover" =>
               first \notin {"set_check_email_code", "check_email_code"},
             first \notin Inserting
      PROVE  StaysInTouch(r)
  <2> DEFINE l == [Idle EXCEPT !.op = op, !.code = c, !.enable = enable,
                               !.email = user.email]
  <2>1. l \in Local
    BY <1>0, CallLocal
  <2>2. l.op = op
    BY DEF Idle
  <2>3. Goto(r, l, first)
    BY <1>2 DEF Call
  <2> HIDE DEF l
  <2> QED
    BY <1>2, <2>1, <2>2, <2>3, CarefreeInTouch
<1>3. {"ask_check_email", "check_email", "modify_sndfa", "check_sndfa",
       "modify_black", "recover", "reset"} \subseteq APIOps \ Logins
  BY DEF APIOps, Logins
<1>4. /\ {"bad_request", "not_found", "unauthorized"} \cap Inserting = {}
      /\ {"set_check_email_code", "check_email_code", "validated",
          "modify_black"} \cap Inserting = {}
  BY DEF Inserting
<1>5. ASSUME NEW op \in {"check_email", "check_sndfa", "reset"}, NEW c \in KnownCodes,
             NEW first \in {"check_email_code", "validated", "bad_request",
                           "not_found", "unauthorized"},
             Call(r, op, c, FALSE, first)
      PROVE  StaysInTouch(r)
  BY <1>1, <1>2, <1>3, <1>4, <1>5
<1>6. ASSUME NEW op \in {"modify_sndfa", "modify_black", "recover"},
             NEW enable \in BOOLEAN,
             NEW first \in {"modify_black", "validated", "bad_request",
                           "not_found", "unauthorized"},
             Call(r, op, None, enable, first)
      PROVE  StaysInTouch(r)
  BY <1>1, <1>2, <1>3, <1>4, <1>6
<1>7. ASSUME NEW c \in Codes \cup {None},
             NEW first \in {"set_check_email_code", "not_found", "unauthorized"},
             Call(r, "ask_check_email", c, FALSE, first)
      PROVE  StaysInTouch(r)
  BY <1>1, <1>2, <1>3, <1>4, <1>7
<1>8. CASE AskCheckEmail(r)
  <2>1. GetUser(EmailDefined("set_check_email_code")) \in
          {"set_check_email_code", "not_found", "unauthorized"}
    BY DEF GetUser, EmailDefined
  <2> QED
    BY <1>7, <1>8, <2>1 DEF AskCheckEmail
<1>9. CASE CheckEmail(r) \/ CheckSndfa(r) \/ Reset(r)
  <2>1. /\ GetUser(EmailDefined("check_email_code")) \in
             {"check_email_code", "not_found", "unauthorized"}
        /\ Configured(GetUser("validated")) \in
             {"validated", "not_found", "bad_request"}
        /\ GetUser("check_email_code") \in {"check_email_code", "not_found"}
    BY DEF GetUser, EmailDefined, Configured
  <2> QED
    BY <1>5, <1>9, <2>1 DEF CheckEmail, CheckSndfa, Reset
<1>10. CASE AskModifySndfa(r) \/ AskModifyBlack(r) \/ Recover(r)
  <2>1. /\ Configured(GetUser(EmailDefined("validated"))) \in
             {"validated", "not_found", "bad_request", "unauthorized"}
        /\ Configured(GetUser("modify_black")) \in
             {"modify_black", "not_found", "bad_request"}
    BY DEF GetUser, EmailDefined, Configured
  <2> QED
    BY <1>6, <1>10, <2>1 DEF AskModifySndfa, AskModifyBlack, Recover
<1> QED
  BY <1>8, <1>9, <1>10 DEF ApiCall

(* A recovery in progress knows the row it is to verify again.              *)
LEMMA RecoversInTouch ==
  ASSUME Serial, NEW r \in Requests, req[r].op = "recover",
         req[r].pc \in {"set_check_email_code", "check_email_code"}
  PROVE  /\ RecoverSound(req[r].pc, req[r].code)
         /\ req[r].loaded => req[r].ref = row
BY DEF Serial, Free, Outcomes, InTouch, Sound

LEMMA EmailValidatedInTouch ==
  ASSUME Typed, NEW r \in Requests, EmailValidated(r)
  PROVE  StaysInTouch(r)
<1>0. req[r] \in Local /\ UNCHANGED <<now, user, row>>
  BY RequestTyped DEF EmailValidated
<1>1. CASE Answer(r, "unauthorized")
  BY <1>1, AnswerInTouch DEF Outcomes
<1>2. CASE \/ req[r].op = "modify_sndfa" /\ Goto(r, req[r], "modify_sndfa")
           \/ req[r].op = "check_sndfa" /\ Goto(r, req[r], "check_sndfa_code")
  BY <1>0, <1>2, CarefreeInTouch DEF Logins, Inserting
<1>3. ASSUME NEW c \in Codes, row # NoRow, req[r].op = "recover",
             Goto(r, [req[r] EXCEPT !.code = c], "set_check_email_code")
      PROVE  StaysInTouch(r)
  <2> DEFINE l == [req[r] EXCEPT !.code = c]
  <2>1. l \in Local /\ l.op = "recover" /\ l.code = c
    BY <1>0, <1>3 DEF Local, MaybeCode
  <2>2. Goto(r, l, "set_check_email_code")
    BY <1>3
  <2> HIDE DEF l
  <2>3. Sound(l.op, "set_check_email_code", l.code, l.tries, l.at)
    BY <1>3, <2>1 DEF Sound, RecoverSound, Logins, Inserting
  <2> QED
    BY <1>0, <2>1, <2>2, <2>3, QuietInTouch
<1> QED
  BY <1>1, <1>2, <1>3 DEF EmailValidated, AlreadyEmailChecked

(* The code a recovery checks next is the one it stored.                    *)
LEMMA RecoverStoresInTouch ==
  ASSUME Typed, Serial, NEW r \in Requests, req[r].op = "recover",
         SetCheckEmailCode(r, RecoverGoesOn), UNCHANGED <<now, user>>
  PROVE  StaysInTouch(r)
<1>0. PICK l \in Local : l = req[r]
  BY RequestTyped
<1>1. /\ l.op = "recover" /\ row # NoRow /\ l.code \in Codes
      /\ l.loaded /\ l.ref = row
  BY <1>0, RecoversInTouch DEF SetCheckEmailCode, Writing, RecoverSound
<1>2. /\ row' = [row EXCEPT !.sndfa_email_code =
                               Written(@, row.sndfa_email_code, l.code),
                            !.sndfa_email = Written(@, row.sndfa_email, FALSE)]
      /\ Goto(r, l, "check_email_code")
  BY <1>0, <1>1 DEF SetCheckEmailCode, Flush, RecoverGoesOn
<1>3. row \in Row
  BY <1>1 DEF Typed, TypeOK
<1>4. row' \in Row
  BY <1>1, <1>2, <1>3, WrittenType DEF Row, MaybeCode
<1>5. row'.sndfa_email_code = l.code
  BY <1>2, <1>3 DEF Row, Written
<1>6. Sound(l.op, "check_email_code", l.code, l.tries, l.at)'
  BY <1>1, <1>4, <1>5, NoRowAssumption DEF Sound, RecoverSound, Logins, Inserting
<1> QED
  BY <1>2, <1>6, GotoInTouch

(* Every other write of a method ends the call or goes on to a step that    *)
(* reads for itself.                                                        *)
LEMMA WriteInTouch ==
  ASSUME Typed, NEW r \in Requests, NEW next,
         \/ \E changed, assigned : Flush(r, changed, assigned, next)
         \/ \E new : Insert(r, new, next)
         \/ Goto(r, req[r], next),
         req[r].op \in Logins => next \notin PastBlockCheck,
         next \notin Inserting \cup {"set_check_email_code", "check_email_code"}
  PROVE  StaysInTouch(r)
<1>1. Goto(r, req[r], next) \/ Answer(r, "error")
  BY DEF Flush, Insert
<1>2. "error" \in Outcomes
  BY DEF Outcomes
<1> QED
  BY <1>1, <1>2, RequestTyped, CarefreeInTouch, AnswerInTouch

LEMMA ApiWriteInTouch ==
  ASSUME Typed, Serial, NEW r \in Requests, ApiWrite(r) \/ CheckCode(r)
  PROVE  StaysInTouch(r)
<1>1. CASE /\ req[r].op = "recover" /\ SetCheckEmailCode(r, RecoverGoesOn)
           /\ UNCHANGED <<now, user>>
  BY <1>1, RecoverStoresInTouch
<1>2. ASSUME NEW next \in {"mail", "ok", "unauthorized", "update_user"},
             req[r].op \in Logins => next \in {"ok", "unauthorized"},
             \/ \E changed, assigned : Flush(r, changed, assigned, next)
             \/ Goto(r, req[r], next)
      PROVE  StaysInTouch(r)
  <2>1. /\ {"ok", "unauthorized"} \cap PastBlockCheck = {}
        /\ next \notin Inserting \cup {"set_check_email_code", "check_email_code"}
    BY DEF PastBlockCheck, AfterRecord, Inserting
  <2> QED
    BY <1>2, <2>1, WriteInTouch
<1>3. CASE \/ req[r].op = "ask_check_email" /\ SetCheckEmailCode(r, "mail")
           \/ req[r].op = "recover" /\ CheckEmailCode(r, "mail", "mail")
  BY <1>2, <1>3 DEF SetCheckEmailCode, CheckEmailCode, Skip, Logins
<1>4. CASE \/ req[r].op = "check_email" /\ CheckEmailCode(r, "ok", "unauthorized")
           \/ req[r].op = "reset" /\ CheckEmailCode(r, "update_user", "unauthorized")
  BY <1>2, <1>4 DEF CheckEmailCode, Skip, Logins
<1>5. CASE ModifySndfa(r, "ok") \/ ModifyBlack(r, "ok")
  BY <1>2, <1>5 DEF ModifySndfa, ModifyBlack, Skip
<1>6. CASE CheckCode(r)
  BY <1>2, <1>6 DEF CheckCode, CheckSndfaCode, Skip
<1> QED
  BY <1>1, <1>3, <1>4, <1>5, <1>6 DEF ApiWrite

LEMMA ApiInTouch ==
  ASSUME Typed, Serial, NEW r \in Requests, ApiStep(r)
  PROVE  StaysInTouch(r)
<1>1. CASE MailCode(r) \/ MailPassword(r)
  <2>1. \/ \E next \in {"ok", "bad_request", "error"} : Goto(r, req[r], next)
        \/ Answer(r, "error")
    BY <1>1 DEF MailCode, MailPassword, SendEmail
  <2>2. {"ok", "bad_request", "error"} \subseteq Outcomes
    BY DEF Outcomes
  <2>3. \A next \in {"ok", "bad_request", "error"} :
          next \notin PastBlockCheck \cup Inserting
    BY DEF PastBlockCheck, AfterRecord, Inserting
  <2> QED
    BY <2>1, <2>2, <2>3, RequestTyped, CarefreeInTouch, AnswerInTouch
<1>2. CASE ResetPassword(r)
  <2>1. ASSUME NEW pw \in Passwords,
               Goto(r, [req[r] EXCEPT !.new = pw], "user_updated_callback")
        PROVE  StaysInTouch(r)
    <3>1. [req[r] EXCEPT !.new = pw] \in Local
      BY RequestTyped DEF Local
    <3>2. "user_updated_callback" \notin PastBlockCheck \cup Inserting
      BY DEF PastBlockCheck, AfterRecord, Inserting
    <3> QED
      BY <2>1, <3>1, <3>2, CarefreeInTouch
  <2>2. CASE Answer(r, "not_found")
    BY <2>2, AnswerInTouch DEF Outcomes
  <2> QED
    BY <1>2, <2>1, <2>2 DEF ResetPassword
<1> QED
  BY <1>1, <1>2, ApiCallInTouch, EmailValidatedInTouch, ApiWriteInTouch DEF ApiStep

LEMMA LifecycleInTouch ==
  ASSUME Typed, Serial, NEW r \in Requests, LifecycleStep(r)
  PROVE  StaysInTouch(r)
<1>1. ASSUME NEW next \in {"user_created_callback", "user_updated_callback",
                           "remove_user", "bad_request", "unauthorized", "ok"}
      PROVE  next \notin PastBlockCheck \cup Inserting
  BY DEF PastBlockCheck, AfterRecord, Inserting
<1>2. CASE \/ CreateUser(r) \/ UpdateUser(r) \/ ScimUpdateUser(r) \/ DeleteUser(r)
  <2>1. \E op \in {"create_user", "update_user", "delete_user"},
           next \in {"user_created_callback", "user_updated_callback",
                     "remove_user", "bad_request", "unauthorized"} :
          Goto(r, [Idle EXCEPT !.op = op], next)
    BY <1>2 DEF CreateUser, UpdateUser, ScimUpdateUser, ChangeUser, DeleteUser,
                Arrive
  <2>2. {"create_user", "update_user", "delete_user"} \subseteq APIOps
    BY DEF APIOps
  <2> QED
    BY <1>1, <2>1, <2>2, ArriveLocal, CarefreeInTouch
<1>3. CASE StorePassword(r)
  <2>1. Goto(r, req[r], "user_updated_callback") \/ Answer(r, "not_found")
    BY <1>3 DEF StorePassword
  <2>2. "not_found" \in Outcomes
    BY DEF Outcomes
  <2> QED
    BY <1>1, <2>1, <2>2, RequestTyped, CarefreeInTouch, AnswerInTouch
<1>4. CASE /\ \/ Callback(r, "user_created_callback", "set_user_creation_time")
              \/ Callback(r, "user_updated_callback",
                          "update_user_modification_time")
           /\ UNCHANGED <<now, user, row, inbox, history>>
  <2>1. \/ /\ UserExists
           /\ \E next \in {"set_user_creation_time",
                          "update_user_modification_time"} : Goto(r, req[r], next)
        \/ Goto(r, req[r], "not_found")
    BY <1>4 DEF Callback
  <2>2. \A op, next, code, tries, at :
          UserExists /\ next \in {"set_user_creation_time",
                                 "update_user_modification_time"} =>
            Sound(op, next, code, tries, at)
    BY DEF Sound, LoginSound, RecoverSound, PastBlockCheck, AfterRecord
  <2>3. "not_found" \in Outcomes
    BY DEF Outcomes
  <2> QED
    BY <1>4, <2>1, <2>2, <2>3, RequestTyped, QuietInTouch
<1>5. CASE CallbackWrite(r)
  <2>1. \E next \in {"ok", "mail"} :
          /\ req[r].op \in Logins => next = "ok"
          /\ \/ \E changed, assigned : Flush(r, changed, assigned, next)
             \/ \E new : Insert(r, new, next)
    BY <1>5 DEF CallbackWrite, SetUserCreationTime, UpdateUserModificationTime,
                RenewPassword, Logins
  <2>2. /\ "ok" \notin PastBlockCheck
        /\ {"ok", "mail"} \cap
             (Inserting \cup {"set_check_email_code", "check_email_code"}) = {}
    BY DEF PastBlockCheck, AfterRecord, Inserting
  <2> QED
    BY <2>1, <2>2, WriteInTouch
<1>6. CASE RemoveUser(r, "ok")
  BY <1>1, <1>6, RequestTyped, CarefreeInTouch DEF RemoveUser
<1> QED
  BY <1>2, <1>3, <1>4, <1>5, <1>6 DEF LifecycleStep

LEMMA CrashInTouch ==
  ASSUME Typed, NEW r \in Requests, Crash(r)
  PROVE  StaysInTouch(r)
BY AnswerInTouch DEF Crash, Outcomes

-----------------------------------------------------------------------------
(* A request that is free starts a call, and that call alone: nothing that  *)
(* another request relies on changes, unless the call is still going on     *)
(* afterwards.                                                              *)

Step(r) == \/ GetSPasswordSession(r) \/ IdentityStep(r) \/ ApiStep(r)
           \/ LifecycleStep(r) \/ Crash(r)

LEMMA GotoArrives ==
  ASSUME Typed, NEW r \in Requests, NEW l \in Local, NEW next, Goto(r, l, next)
  PROVE  req'[r].pc = next
<1>1. req \in [Requests -> Local]
  BY DEF Typed, TypeOK
<1>2. CASE next \in Outcomes
  BY <1>1, <1>2 DEF Goto, Answered, Idle
<1>3. CASE next \notin Outcomes
  BY <1>1, <1>3 DEF Goto, Local
<1> QED
  BY <1>2, <1>3

LEMMA FreeIdentity ==
  ASSUME NEW r \in Requests, Free(r), IdentityStep(r)
  PROVE  UNCHANGED <<now, user, row>>
<1>1. \A pc \in {"user", "password", "record", "challenge", "set_user_sndfa_code",
                 "mail", "commit", "register", "insert"} : ~At(r, pc)
  BY DEF Free, Outcomes, At
<1> QED
  BY <1>1 DEF IdentityStep, Authenticate, ChangePassword, LoadUser, CheckPassword,
              RecordAttempt, Challenge, StoreChallenge, MailChallenge, Commit,
              Register, InsertLogin

LEMMA FreeApi ==
  ASSUME NEW r \in Requests, Free(r), ApiStep(r)
  PROVE  UNCHANGED <<now, user, row>>
<1>1. \A pc \in {"validated", "mail", "update_user", "set_check_email_code",
                 "check_email_code", "modify_sndfa", "modify_black",
                 "check_sndfa_code"} : req[r].pc # pc
  BY DEF Free, Outcomes
<1> QED
  BY <1>1 DEF ApiStep, ApiCall, EmailValidated, ApiWrite, CheckCode, MailCode,
              ResetPassword, MailPassword, SetCheckEmailCode, CheckEmailCode,
              ModifySndfa, ModifyBlack, CheckSndfaCode, Writing

LEMMA FreeLifecycle ==
  ASSUME Typed, NEW r \in Requests, Free(r), LifecycleStep(r)
  PROVE  UNCHANGED <<now, row>> /\ (Free(r)' => UNCHANGED user)
<1>1. \A pc \in {"change", "user_created_callback", "user_updated_callback",
                 "set_user_creation_time", "update_user_modification_time",
                 "remove_user"} : req[r].pc # pc
  BY DEF Free, Outcomes
<1>2. /\ UNCHANGED <<now, row>>
      /\ CreateUser(r) \/ UpdateUser(r) \/ ScimUpdateUser(r) \/ DeleteUser(r)
  BY <1>1 DEF LifecycleStep, StorePassword, Callback, CallbackWrite,
              SetUserCreationTime, UpdateUserModificationTime, RemoveUser, Writing
<1>3. \/ UNCHANGED user
      \/ \E op \in {"create_user", "update_user", "delete_user"},
            next \in {"user_created_callback", "user_updated_callback",
                      "remove_user"} : Goto(r, [Idle EXCEPT !.op = op], next)
  BY <1>2 DEF CreateUser, UpdateUser, ScimUpdateUser, ChangeUser, DeleteUser, Arrive
<1>4. \A op \in {"create_user", "update_user", "delete_user"} :
        [Idle EXCEPT !.op = op] \in Local
  BY ArriveLocal DEF APIOps
<1>5. \/ UNCHANGED user
      \/ req'[r].pc \in {"user_created_callback", "user_updated_callback",
                         "remove_user"}
  BY <1>3, <1>4, GotoArrives
<1> QED
  BY <1>2, <1>5 DEF Free, Outcomes

LEMMA FreeStep ==
  ASSUME Typed, NEW r \in Requests, Free(r), Step(r)
  PROVE  UNCHANGED <<now, row>> /\ (Free(r)' => UNCHANGED user)
BY FreeIdentity, FreeApi, FreeLifecycle
DEF Step, GetSPasswordSession, Crash, Free, Methods, Outcomes

LEMMA StepInTouch ==
  ASSUME Typed, Serial, NEW r \in Requests, Step(r)
  PROVE  StaysInTouch(r)
BY SessionInTouch, IdentityInTouch, ApiInTouch, LifecycleInTouch, CrashInTouch
DEF Step

LEMMA OthersInTouch ==
  ASSUME Typed, Serial, OneAtATime, OneAtATime', NEW r \in Requests, Step(r),
         NEW q \in Requests \ {r}
  PROVE  (Free(q) \/ InTouch(req[q]))'
<1>1. req'[q] = req[q]
  BY StepInTouch DEF StaysInTouch, OnlyMoves
<1>2. CASE Free(q)
  BY <1>1, <1>2 DEF Free
<1>3. CASE ~Free(q)
  <2>1. Free(r) /\ Free(r)'
    BY <1>1, <1>3 DEF OneAtATime, Free
  <2>2. UNCHANGED <<now, user, row>>
    BY <2>1, FreeStep
  <2>3. PICK l : l = req[q]
    OBVIOUS
  <2>4. InTouch(l)
    BY <1>3, <2>3 DEF Serial
  <2>5. Sound(l.op, l.pc, l.code, l.tries, l.at)'
    BY <2>2, <2>4, StillSound DEF InTouch
  <2> QED
    BY <1>1, <2>2, <2>3, <2>4, <2>5 DEF InTouch
<1> QED
  BY <1>2, <1>3

(* The clock ends a block, or the age at which a code may be mailed again,  *)
(* but never begins one.                                                    *)
LEMMA TickInTouch ==
  ASSUME Typed, AttemptsStamped, Serial, Tick
  PROVE  Serial'
<1>1. /\ now' = now + 1 /\ now \in Nat /\ UNCHANGED <<user, row, req>>
      /\ BlockTime \in Nat /\ Window \in Nat
  BY SettingsAssumption DEF Tick, Typed, TypeOK
<1>2. row # NoRow => /\ row.last_login_attempt_time \in Nat \cup {None}
                     /\ row.sndfa_time_code \in Nat \cup {None}
                     /\ row.login_attempts \in Nat
  BY DEF Typed, TypeOK, Row, Stamp
<1>3. MaxTries \in Nat
  BY SettingsAssumption
<1>4. ~LockedOut => ~LockedOut'
  <2>1. row # NoRow /\ OverTries(row) => row.last_login_attempt_time \in Nat
    BY <1>2, <1>3 DEF AttemptsStamped, OverTries
  <2> QED
    BY <1>1, <2>1 DEF LockedOut, Blocked, OverTries, StillBlocked
<1>5. row # NoRow /\ ~CodeReusable(row, now) => ~CodeReusable(row, now)'
  BY <1>1, <1>2, NoneAssumption DEF CodeReusable
<1>6. ASSUME NEW r \in Requests, InTouch(req[r]) PROVE InTouch(req[r])'
  <2>1. PICK l \in Local : l = req[r]
    BY RequestTyped
  <2>2. LoginSound(l.pc, l.code, l.tries, l.at) =>
          LoginSound(l.pc, l.code, l.tries, l.at)'
    <3>1. l.at \in Nat
      BY DEF Local
    <3>2. Recorded(l.pc, l.tries, l.at) => Recorded(l.pc, l.tries, l.at)'
      BY <1>1, <3>1 DEF Recorded, StampPassed
    <3> QED
      BY <1>1, <1>4, <1>5, <3>2 DEF LoginSound, Enrolled
  <2>3. RecoverSound(l.pc, l.code) => RecoverSound(l.pc, l.code)'
    BY <1>1 DEF RecoverSound
  <2> QED
    BY <1>1, <1>6, <2>1, <2>2, <2>3 DEF InTouch, Sound, UserExists
<1>7. StampPassed(now)'
  BY <1>1, <1>2, NoneAssumption DEF Serial, StampPassed
<1> QED
  BY <1>1, <1>6, <1>7 DEF Serial, Free

-----------------------------------------------------------------------------
(* The invariant.                                                           *)

LEMMA NextSteps ==
  ASSUME [Next]_vars
  PROVE  UNCHANGED vars \/ Tick \/ \E r \in Requests : Step(r)
BY DEF Next, Step

LEMMA StepKeepsTime ==
  ASSUME NEW r \in Requests, Step(r)
  PROVE  UNCHANGED now
BY DEF Step, GetSPasswordSession, Crash, IdentityStep, Authenticate,
       ChangePassword, LoadUser, CheckPassword, RecordAttempt, Challenge,
       StoreChallenge, MailChallenge, Commit, Register, InsertLogin, ApiStep,
       ApiCall, EmailValidated, ApiWrite, CheckCode, MailCode, ResetPassword,
       MailPassword, LifecycleStep

LEMMA CountsInSerial ==
  ASSUME Serial, NEW r \in Requests, Counts(r)
  PROVE  /\ Recorded(req[r].pc, req[r].tries, req[r].at) /\ ~LockedOut
         /\ req[r].pc \in {"commit", "insert"}
BY LoginsInTouch
DEF Counts, Commit, InsertLogin, Outcomes, LoginSound, AfterRecord, PastBlockCheck

LEMMA StampsPass ==
  ASSUME Typed, Serial, [Next]_vars, UNCHANGED now
  PROVE  StampPassed(now)'
<1>1. CASE CountKept
  BY <1>1 DEF CountKept, Serial, StampPassed
<1>2. ASSUME NEW r \in Requests, Counts(r) PROVE StampPassed(now)'
  <2>1. req[r].at <= now
    BY <1>2, CountsInSerial DEF Recorded
  <2>2. UNCHANGED row \/ row'.last_login_attempt_time = req[r].at
    BY <1>2, CountedRow
  <2> QED
    BY <2>1, <2>2 DEF Serial, StampPassed
<1> QED
  BY <1>1, <1>2, OnlyLoginsCount

LEMMA SerialNext ==
  ASSUME Typed, AttemptsStamped, Serial, OneAtATime, OneAtATime', [Next]_vars
  PROVE  Serial'
<1>1. CASE UNCHANGED vars
  BY <1>1 DEF vars, Serial, StampPassed, Free, InTouch, Sound, LoginSound,
              RecoverSound, Recorded, LockedOut, Blocked, UserExists
<1>2. ASSUME NEW r \in Requests, Step(r) PROVE Serial'
  <2>1. StampPassed(now)'
    BY <1>2, StepKeepsTime, StampsPass
  <2>2. \A q \in Requests : (Free(q) \/ InTouch(req[q]))'
    BY <1>2, StepInTouch, OthersInTouch DEF StaysInTouch
  <2> QED
    BY <2>1, <2>2 DEF Serial
<1> QED
  BY <1>1, <1>2, NextSteps, TickInTouch

LEMMA InitSerial == Init => Serial
<1>1. NewRow(0, 0, None).last_login_attempt_time = None
  BY DEF NewRow, BlankRow
<1>2. Init => StampPassed(now)
  BY <1>1 DEF Init, StampPassed
<1>3. Init => \A r \in Requests : Free(r)
  BY DEF Init, Free, Idle
<1> QED
  BY <1>2, <1>3 DEF Serial

(* As long as requests do not overlap, a request in progress is in touch    *)
(* with the row: what it queried and has not written back yet still stands, *)
(* so its write is of the row it has seen (every method of class SPassword, *)
(* and the two queries of authenticate, 380-426).                           *)
THEOREM SerialStays ==
  Spec /\ []OneAtATime => [](Typed /\ AttemptsStamped /\ Serial)
<1>1. Typed /\ AttemptsStamped /\ Serial /\ OneAtATime /\ OneAtATime'
        /\ [Next]_vars => Serial'
  BY SerialNext
<1> QED
  BY <1>1, InitSerial, TypeCorrect, AttemptsAreStamped, PTL DEF Spec

-----------------------------------------------------------------------------
(* Second factor and recovery.                                              *)

(* The link a login mails carries the code that check_sndfa_code will       *)
(* compare with (authenticate, 450-463), when no other request comes in     *)
(* between.                                                                 *)
THEOREM MailedIsStored == Spec /\ []OneAtATime => []MailedCodeIsStored
<1>1. Serial => MailedCodeIsStored
  <2> SUFFICES ASSUME Serial, NEW r \in Requests,
                      req[r].op = "authenticate", req[r].pc = "mail"
               PROVE  row # NoRow /\ row.sndfa_code = req[r].code
    BY DEF MailedCodeIsStored
  <2>1. LoginSound("mail", req[r].code, req[r].tries, req[r].at)
    BY LoginsInTouch DEF At, Outcomes
  <2> QED
    BY <2>1 DEF LoginSound, AfterRecord, Recorded
<1> QED
  BY <1>1, SerialStays, PTL

(* A code already mailed is not replaced while it is young enough to be     *)
(* mailed again (authenticate, 447-452), when requests do not overlap.      *)
THEOREM RetriesKeepCode == Spec /\ []OneAtATime => ChallengeRetriesCode
<1>1. Typed /\ Serial /\ [Next]_vars =>
        [/\ row # NoRow /\ row' # NoRow
         /\ row'.sndfa_code # row.sndfa_code
         => ~CodeReusable(row, now)]_vars
  <2> SUFFICES ASSUME Typed, Serial, [Next]_vars, row # NoRow, row' # NoRow,
                      row'.sndfa_code # row.sndfa_code
               PROVE  ~CodeReusable(row, now)
    OBVIOUS
  <2>1. PICK r \in Requests : StoreChallenge(r) /\ Storing(r)
    BY CodeColumns DEF SndfaColumns
  <2>2. LoginSound("set_user_sndfa_code", req[r].code, req[r].tries, req[r].at)
    BY <2>1, LoginsInTouch DEF StoreChallenge, Outcomes
  <2> QED
    BY <2>2 DEF LoginSound
<1> QED
  BY <1>1, SerialStays, PTL DEF Spec, ChallengeRetriesCode

LEMMA AnswerArrives ==
  ASSUME Typed, NEW r \in Requests, NEW o, Answer(r, o)
  PROVE  req'[r].pc = o
BY DEF Answer, Answered, Idle, Typed, TypeOK

(* No call begins with a mail.                                              *)
LEMMA CallBeginsBefore ==
  ASSUME Typed, NEW r \in Requests, ApiCall(r)
  PROVE  req'[r].pc # "mail"
<1>0. Codes \cup KnownCodes \cup {None} \subseteq MaybeCode \cup {BadCode}
  BY KnownCodesType DEF MaybeCode
<1>1. ASSUME NEW op \in APIOps, NEW c \in Codes \cup KnownCodes \cup {None},
             NEW enable \in BOOLEAN, NEW first, first # "mail",
             Call(r, op, c, enable, first)
      PROVE  req'[r].pc # "mail"
  <2>1. user.email \in Addresses \cup {None}
    BY DEF Typed, TypeOK, User
  <2>2. [Idle EXCEPT !.op = op, !.code = c, !.enable = enable,
                     !.email = user.email] \in Local
    BY <1>0, <2>1, CallLocal
  <2> QED
    BY <1>1, <2>2, GotoArrives DEF Call
<1>2. \A first : first # "mail" =>
        /\ Configured(first) # "mail" /\ GetUser(first) # "mail"
        /\ EmailDefined(first) # "mail"
  BY DEF Configured, GetUser, EmailDefined
<1>3. \E op \in {"ask_check_email", "check_email", "modify_sndfa", "check_sndfa",
                 "modify_black", "recover", "reset"},
         c \in Codes \cup KnownCodes \cup {None}, enable \in BOOLEAN :
        \E first : first # "mail" /\ Call(r, op, c, enable, first)
  BY <1>2 DEF ApiCall, AskCheckEmail, CheckEmail, AskModifySndfa, CheckSndfa,
              AskModifyBlack, Recover, Reset
<1>4. {"ask_check_email", "check_email", "modify_sndfa", "check_sndfa",
       "modify_black", "recover", "reset"} \subseteq APIOps
  BY DEF APIOps
<1> QED
  BY <1>1, <1>3, <1>4

(* A recovery gets to its mail by checking the code it stored.              *)
LEMMA RecoverMailsNext ==
  ASSUME Typed, NEW r \in Requests, Step(r),
         req[r].op = "recover", req[r].pc # "mail", req'[r].pc = "mail"
  PROVE  CheckEmailCode(r, "mail", "mail")
<1>0. req[r] \in Local /\ req \in [Requests -> Local]
  BY RequestTyped DEF Typed, TypeOK
<1>1. ASSUME NEW l \in Local, NEW next, Goto(r, l, next) PROVE next = "mail"
  BY <1>1, GotoArrives
<1>2. ~Answer(r, "error") /\ ~Answer(r, "not_found") /\ ~Answer(r, "unauthorized")
        /\ ~Answer(r, "bad_request")
  BY AnswerArrives
<1>3. ~GetSPasswordSession(r) /\ ~Crash(r)
  BY <1>0, <1>2 DEF GetSPasswordSession, Crash, Methods, Local
<1>4. ~IdentityStep(r)
  <2>1. \A pc : ~At(r, pc)
    BY DEF At
  <2>2. ASSUME NEW login \in Local, BlockCheck(r, login) PROVE FALSE
    BY <1>1, <2>2 DEF BlockCheck
  <2>3. ASSUME NEW pw \in Passwords, NEW new \in Passwords
        PROVE  ~Authenticate(r, pw) /\ ~ChangePassword(r, pw, new)
    BY <1>2, <2>2, LoginLocal DEF Authenticate, ChangePassword
  <2> QED
    BY <2>1, <2>3
    DEF IdentityStep, LoadUser, CheckPassword, RecordAttempt, Challenge,
        StoreChallenge, MailChallenge, Commit, Register, InsertLogin
<1>5. ApiStep(r) => CheckEmailCode(r, "mail", "mail")
  <2>1. CASE EmailValidated(r)
    <3>1. ASSUME NEW c \in Codes,
                 Goto(r, [req[r] EXCEPT !.code = c], "set_check_email_code")
          PROVE  FALSE
      <4>1. [req[r] EXCEPT !.code = c] \in Local
        BY <1>0 DEF Local, MaybeCode
      <4> QED
        BY <1>1, <3>1, <4>1
    <3> QED
      BY <1>2, <2>1, <3>1 DEF EmailValidated
  <2>2. ~CheckCode(r) /\ ~MailCode(r) /\ ~ResetPassword(r) /\ ~MailPassword(r)
    BY DEF CheckCode, MailCode, ResetPassword, MailPassword
  <2>3. CASE ApiWrite(r)
    <3>1. \A changed, assigned, next :
            Flush(r, changed, assigned, next) => next = "mail"
      BY <1>0, <1>1, <1>2 DEF Flush
    <3>2. ~SetCheckEmailCode(r, RecoverGoesOn)
      BY <1>0, <1>1, <3>1 DEF SetCheckEmailCode, RecoverGoesOn, Skip
    <3>3. ~ModifySndfa(r, "ok") /\ ~ModifyBlack(r, "ok")
      BY <1>0, <1>1, <3>1 DEF ModifySndfa, ModifyBlack, Skip
    <3> QED
      BY <2>3, <3>2, <3>3 DEF ApiWrite
  <2> QED
    BY <2>1, <2>2, <2>3, CallBeginsBefore DEF ApiStep
<1>6. ~LifecycleStep(r)
  <2>1. ASSUME NEW op \in APIOps, NEW pc, pc # "mail" PROVE ~Arrive(r, op, pc)
    BY <1>1, <2>1, ArriveLocal DEF Arrive
  <2>2. ~CreateUser(r) /\ ~UpdateUser(r) /\ ~ScimUpdateUser(r) /\ ~DeleteUser(r)
    <3>1. {"create_user", "update_user", "delete_user"} \subseteq APIOps
      BY DEF APIOps
    <3> QED
      BY <2>1, <3>1 DEF CreateUser, UpdateUser, ScimUpdateUser, ChangeUser, DeleteUser
  <2>3. /\ ~StorePassword(r)
        /\ ~Callback(r, "user_created_callback", "set_user_creation_time")
        /\ ~Callback(r, "user_updated_callback", "update_user_modification_time")
        /\ ~RemoveUser(r, "ok")
    BY <1>0, <1>1 DEF StorePassword, Callback, RemoveUser
  <2>4. \A new : ~Insert(r, new, "ok") /\ \A changed : ~Flush(r, changed, new, "ok")
    BY <1>0, <1>1, <1>2 DEF Insert, Flush
  <2>5. ~CallbackWrite(r)
    BY <2>4 DEF CallbackWrite, SetUserCreationTime, UpdateUserModificationTime,
                RenewPassword
  <2> QED
    BY <2>2, <2>3, <2>5 DEF LifecycleStep
<1> QED
  BY <1>3, <1>4, <1>5, <1>6 DEF Step

LEMMA RecoverVerifies ==
  ASSUME Typed, Serial, [Next]_vars, NEW r \in Requests,
         req[r].op = "recover", req[r].pc # "mail", req'[r].pc = "mail"
  PROVE  row' # NoRow /\ row'.sndfa_email
<1>1. Step(r)
  <2>1. PICK q \in Requests : Step(q)
    BY NextSteps DEF vars, Tick
  <2>2. CASE q # r
    BY <2>1, <2>2, StepInTouch DEF StaysInTouch, OnlyMoves
  <2> QED
    BY <2>1, <2>2
<1>2. CheckEmailCode(r, "mail", "mail")
  BY <1>1, RecoverMailsNext
<1>3. /\ row # NoRow /\ req[r].ref = row
      /\ row.sndfa_email_code = req[r].code /\ req[r].code # None
  BY <1>2, RecoversInTouch, NoneAssumption
  DEF CheckEmailCode, Writing, RecoverSound
<1>4. ~Answer(r, "error")
  BY AnswerArrives
<1>5. \/ row' = row /\ row.sndfa_email = TRUE
      \/ row' = [row EXCEPT !.sndfa_email = TRUE]
  BY <1>2, <1>3, <1>4 DEF CheckEmailCode, EmailCodeAccepted, Flush
<1>6. row \in Row
  BY <1>3 DEF Typed, TypeOK
<1>7. row' \in Row /\ row'.sndfa_email
  BY <1>5, <1>6 DEF Row
<1> QED
  BY <1>7, NoRowAssumption

(* A recovery that goes on to mail its code leaves the email verified as it *)
(* found it (_recover_password, 219: "Set email again as verified"), when   *)
(* no other request stores a code in between.                               *)
THEOREM RecoveriesKeepVerified == Spec /\ []OneAtATime => RecoverKeepsVerified
<1>1. Typed /\ Serial /\ [Next]_vars =>
        [\A r \in Requests :
           req[r].op = "recover" /\ req[r].pc # "mail" /\ req'[r].pc = "mail" =>
             row' # NoRow /\ row'.sndfa_email]_vars
  BY RecoverVerifies
<1> QED
  BY <1>1, SerialStays, PTL DEF Spec, RecoverKeepsVerified

(* The race in which the step that is to verify the email takes the         *)
(* verification away (_recover_password, 219-220) needs two requests at     *)
(* once.                                                                    *)
THEOREM RecoveriesNeverUnverify ==
  Spec /\ []OneAtATime => RecoverNeverUnverifies
<1>1. Typed /\ Serial /\ [Next]_vars =>
        [\A r \in Requests :
           /\ req[r].op = "recover" /\ Writing(r, "check_email_code")
           /\ row # NoRow /\ row.sndfa_email /\ req'[r].pc = "mail"
           => row'.sndfa_email]_vars
  BY RecoverVerifies DEF Writing
<1> QED
  BY <1>1, SerialStays, PTL DEF Spec, RecoverNeverUnverifies

-----------------------------------------------------------------------------
(* Bad tries and deleted users.                                             *)

LEMMA CommitsNext ==
  ASSUME NEW r \in Requests, Step(r), At(r, "commit")
  PROVE  Commit(r) \/ Crash(r)
<1>1. req[r].pc = "commit" /\ req[r].op \in {"authenticate", "change_password"}
  BY DEF At
<1>2. ~GetSPasswordSession(r) /\ ~Free(r) /\ \A pc : At(r, pc) => pc = "commit"
  BY <1>1 DEF GetSPasswordSession, Methods, Free, Outcomes, At
<1>3. IdentityStep(r) => Commit(r)
  BY <1>2 DEF IdentityStep, Authenticate, ChangePassword, LoadUser, CheckPassword,
              RecordAttempt, Challenge, StoreChallenge, MailChallenge, Register,
              InsertLogin
<1>4. ~ApiStep(r)
  BY <1>1, <1>2
  DEF ApiStep, ApiCall, AskCheckEmail, CheckEmail, AskModifySndfa, CheckSndfa,
      AskModifyBlack, Recover, Reset, Call, EmailValidated, ApiWrite, CheckCode,
      MailCode, ResetPassword, MailPassword, SetCheckEmailCode, CheckEmailCode,
      ModifySndfa, ModifyBlack, CheckSndfaCode, Writing
<1>5. ~LifecycleStep(r)
  BY <1>1, <1>2
  DEF LifecycleStep, CreateUser, UpdateUser, ScimUpdateUser, ChangeUser,
      DeleteUser, Arrive, StorePassword, Callback, CallbackWrite,
      SetUserCreationTime, UpdateUserModificationTime, RemoveUser, Writing
<1> QED
  BY <1>2, <1>3, <1>4, <1>5 DEF Step

(* A wrong password that is refused adds one to the count, whatever the     *)
(* count was (authenticate, 404-416 and 511-514): only a second login       *)
(* between the query and the write can make it lose one.                    *)
THEOREM BadTriesCount == Spec /\ []OneAtATime => EveryBadTryCounts
<1>1. ASSUME Typed, Serial, [Next]_vars, NEW r \in Requests,
             At(r, "commit"), ~req[r].right, req'[r].pc = "unauthorized"
      PROVE  row'.login_attempts = row.login_attempts + 1
  <2>1. req[r] \in Local
    BY <1>1, RequestTyped
  <2>2. req'[r] # req[r]
    BY <1>1 DEF At
  <2>3. Step(r)
    <3>1. PICK q \in Requests : Step(q)
      BY <1>1, <2>2, NextSteps DEF vars, Tick
    <3>2. CASE q # r
      BY <1>1, <2>2, <3>1, <3>2, StepInTouch DEF StaysInTouch, OnlyMoves
    <3> QED
      BY <3>1, <3>2
  <2>4. Commit(r)
    BY <1>1, <2>3, CommitsNext, AnswerArrives DEF Crash
  <2>5. row # NoRow /\ req[r].tries = row.login_attempts
    BY <1>1, <2>4, CountsInSerial DEF Counts, Recorded, At
  <2>6. row' = [row EXCEPT !.login_attempts =
                              Written(@, req[r].tries, req[r].tries + 1),
                           !.last_login_attempt_time = req[r].at]
    BY <1>1, <2>4, <2>5, AnswerArrives DEF Commit, Flush, Count
  <2>7. row \in Row /\ req[r].tries \in Nat
    BY <1>1, <2>1, <2>5 DEF Typed, TypeOK, Local
  <2> QED
    BY <2>5, <2>6, <2>7 DEF Written, Row
<1>2. Typed /\ Serial /\ [Next]_vars =>
        [\A r \in Requests :
           /\ At(r, "commit") /\ ~req[r].right /\ req'[r].pc = "unauthorized"
           => row'.login_attempts = row.login_attempts + 1]_vars
  BY <1>1
<1> QED
  BY <1>2, SerialStays, PTL DEF Spec, EveryBadTryCounts

(* Who inserts a row has seen the user, who is still there.                 *)
LEMMA InsertsForUser ==
  ASSUME Serial, [Next]_vars, row = NoRow, row' # NoRow
  PROVE  UserExists
<1>1. PICK r \in Requests : Writes(r) /\ row' # row
  BY Writers DEF RemoveUser
<1>2. \A changed, assigned, next :
        Flush(r, changed, assigned, next) => row' = row
  BY DEF Flush
<1>3. ~StoreChallenge(r) /\ ~Commit(r) /\ ~ApiWrite(r) /\ ~CheckCode(r)
  BY <1>1, <1>2
  DEF StoreChallenge, SetUserSndfaCode, Commit, ApiWrite, CheckCode, Skip,
      SetCheckEmailCode, CheckEmailCode, ModifySndfa, ModifyBlack, CheckSndfaCode
<1>4. req[r].pc \in Inserting
  BY <1>1, <1>3
  DEF Writes, InsertLogin, At, CallbackWrite, SetUserCreationTime,
      UpdateUserModificationTime, Writing, Inserting
<1> QED
  BY <1>4 DEF Serial, Free, Outcomes, Inserting, InTouch, Sound

(* Once a user is deleted and the callback is over, nothing inserts a row   *)
(* again (user_deleted_callback, 115-120), when no login or callback was    *)
(* under way meanwhile.                                                     *)
THEOREM DeletedStayOut == Spec /\ []OneAtATime => DeletedUserStaysOut
<1>1. Serial /\ [Next]_vars =>
        [/\ user.status = "deleted" /\ row = NoRow
         /\ \A r \in Requests : req[r].pc # "remove_user"
         /\ \E r \in Requests : req[r].pc = "ok"
         => row' = NoRow]_vars
  BY InsertsForUser DEF UserExists
<1> QED
  BY <1>1, SerialStays, PTL DEF Spec, DeletedUserStaysOut

(* The safety half of DeletedUserLosesRow.  The assumption: no worker dies  *)
(* between Keystone's deletion of a user and the end of the callback.       *)
RemovalsSurvive ==
  [][\A r \in Requests : req[r].pc = "remove_user" => ~Crash(r)]_vars

RowOfDeleted ==
  user.status = "deleted" /\ row # NoRow =>
    \E r \in Requests : req[r].pc = "remove_user"

LEMMA RemovalGoesOn ==
  ASSUME Typed, Serial, NEW r \in Requests, Step(r), ~Crash(r),
         req[r].pc = "remove_user"
  PROVE  req'[r].pc = "remove_user" \/ row' = NoRow
<1>0. req \in [Requests -> Local]
  BY DEF Typed, TypeOK
<1>1. ~Free(r) /\ \A pc : At(r, pc) => pc = "remove_user"
  BY DEF Free, Outcomes, At
<1>2. CASE GetSPasswordSession(r)
  BY <1>0, <1>2 DEF GetSPasswordSession, Local
<1>3. ~IdentityStep(r)
  BY <1>1
  DEF IdentityStep, Authenticate, ChangePassword, LoadUser, CheckPassword,
      RecordAttempt, Challenge, StoreChallenge, MailChallenge, Commit, Register,
      InsertLogin
<1>4. ~ApiStep(r)
  BY <1>1
  DEF ApiStep, ApiCall, AskCheckEmail, CheckEmail, AskModifySndfa, CheckSndfa,
      AskModifyBlack, Recover, Reset, Call, EmailValidated, ApiWrite, CheckCode,
      MailCode, ResetPassword, MailPassword, SetCheckEmailCode, CheckEmailCode,
      ModifySndfa, ModifyBlack, CheckSndfaCode, Writing
<1>5. CASE LifecycleStep(r)
  <2>1. RemoveUser(r, "ok")
    BY <1>1, <1>5
    DEF LifecycleStep, CreateUser, UpdateUser, ScimUpdateUser, ChangeUser,
        DeleteUser, Arrive, StorePassword, Callback, CallbackWrite,
        SetUserCreationTime, UpdateUserModificationTime, Writing
  <2>2. req[r].ref = row
    BY <1>1, <2>1 DEF RemoveUser, Writing, Serial, InTouch
  <2> QED
    BY <2>1, <2>2 DEF RemoveUser
<1> QED
  BY <1>2, <1>3, <1>4, <1>5 DEF Step

LEMMA DeletedNext ==
  ASSUME Typed, [Next]_vars, user.status # "deleted", user'.status = "deleted"
  PROVE  \E r \in Requests : req'[r].pc = "remove_user"
<1>0. user \in User
  BY DEF Typed, TypeOK
<1>1. PICK r \in Requests : \/ CreateUser(r) \/ UpdateUser(r) \/ ScimUpdateUser(r)
                           \/ DeleteUser(r) \/ StorePassword(r) \/ ResetPassword(r)
  BY UserWriters
<1>2. DeleteUser(r)
  <2>1. ~CreateUser(r)
    BY DEF CreateUser
  <2>2. ~StorePassword(r) /\ ~ResetPassword(r)
    BY <1>0 DEF StorePassword, ResetPassword, User
  <2>3. \A refused : ~ChangeUser(r, refused)
    BY <1>0 DEF ChangeUser, User
  <2> QED
    BY <1>1, <2>1, <2>2, <2>3 DEF UpdateUser, ScimUpdateUser
<1>3. [Idle EXCEPT !.op = "delete_user"] \in Local
  BY ArriveLocal DEF APIOps
<1> QED
  BY <1>2, <1>3, GotoArrives DEF DeleteUser, Arrive

LEMMA RowOfDeletedNext ==
  ASSUME Typed, Serial, [Next]_vars, RowOfDeleted,
         [\A r \in Requests : req[r].pc = "remove_user" => ~Crash(r)]_vars
  PROVE  RowOfDeleted'
<1> SUFFICES ASSUME user'.status = "deleted", row' # NoRow
             PROVE  \E r \in Requests : req'[r].pc = "remove_user"
  BY DEF RowOfDeleted
<1>1. CASE user.status # "deleted"
  BY <1>1, DeletedNext
<1>2. CASE user.status = "deleted"
  <2>1. row # NoRow
    BY <1>2, InsertsForUser DEF UserExists
  <2>2. PICK r \in Requests : req[r].pc = "remove_user"
    BY <1>2, <2>1 DEF RowOfDeleted
  <2>3. CASE UNCHANGED req
    BY <2>2, <2>3
  <2>4. ASSUME NEW q \in Requests \ {r}, Step(q)
        PROVE  req'[r].pc = "remove_user"
    BY <2>2, <2>4, StepInTouch DEF StaysInTouch, OnlyMoves
  <2>5. CASE Step(r) /\ ~UNCHANGED vars
    BY <2>2, <2>5, RemovalGoesOn
  <2> QED
    BY <2>2, <2>3, <2>4, <2>5, NextSteps DEF vars, Tick
<1> QED
  BY <1>1, <1>2

(* A deleted user has a row only while the callback that is to remove it is *)
(* under way (user_deleted_callback, 115-120, and remove_user): nothing     *)
(* stored by that worker or by a later request is left behind, unless the   *)
(* worker dies or requests overlap.                                         *)
THEOREM DeletedRowsGo ==
  Spec /\ []OneAtATime /\ RemovalsSurvive => []RowOfDeleted
<1>1. Init => RowOfDeleted
  BY DEF Init, RowOfDeleted
<1> QED
  BY <1>1, RowOfDeletedNext, SerialStays, PTL DEF Spec, RemovalsSurvive
=============================================================================
