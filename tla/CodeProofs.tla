----------------------------- MODULE CodeProofs -----------------------------
(***************************************************************************)
(* Theorems about the codes: a client holds only those it was mailed, an    *)
(* email is verified and a password reset only with one of them, and no     *)
(* mail goes out without one.                                               *)
(***************************************************************************)
EXTENDS SPasswordProofs

-----------------------------------------------------------------------------
(* What a client sends is a code of a mail, or a wrong one.                 *)

Clients == {"check_email", "check_sndfa", "reset"}

ClientCodes ==
  \A r \in Requests : req[r].op \in Clients => req[r].code \in KnownCodes

LEMMA MailsStay == Typed /\ [Next]_vars => inbox \subseteq inbox'
<1> SUFFICES ASSUME Typed, [Next]_vars PROVE inbox \subseteq inbox'
  OBVIOUS
<1>1. ASSUME NEW r \in Requests,
             MailChallenge(r) \/ MailCode(r) \/ MailPassword(r)
      PROVE  inbox \subseteq inbox'
  BY <1>1 DEF MailChallenge, MailCode, MailPassword, SendEmail
<1>2. \/ UNCHANGED inbox
      \/ \E r \in Requests : MailChallenge(r) \/ MailCode(r) \/ MailPassword(r)
  BY DEF Next, vars, Tick, GetSPasswordSession, Crash, IdentityStep, Authenticate,
         ChangePassword, LoadUser, CheckPassword, RecordAttempt, Challenge,
         StoreChallenge, Commit, Register, InsertLogin, ApiStep, ApiCall,
         EmailValidated, ApiWrite, CheckCode, ResetPassword, LifecycleStep
<1> QED
  BY <1>1, <1>2

LEMMA KnownStay == Typed /\ [Next]_vars => KnownCodes \subseteq KnownCodes'
BY MailsStay DEF KnownCodes

(* A reset stores its password without another code.                        *)
LEMMA ResetKeepsCode ==
  ASSUME Typed, NEW r \in Requests, ResetPassword(r)
  PROVE  \/ req'[r].op = "none"
         \/ /\ req'[r].op = "reset" /\ req'[r].code = req[r].code
            /\ req'[r].new \in Passwords
<1>1. \A pw \in Passwords : LET l == [req[r] EXCEPT !.new = pw] IN
        /\ l \in Local /\ l.op = req[r].op /\ l.code = req[r].code /\ l.new = pw
  BY RequestTyped DEF Local
<1>2. \/ \E pw \in Passwords : \E next : Goto(r, [req[r] EXCEPT !.new = pw], next)
      \/ Answer(r, "not_found")
  BY DEF ResetPassword
<1> QED
  BY <1>1, <1>2, GotoBegins, AnswerEnds DEF ResetPassword

LEMMA ClientCodesNext == Typed /\ ClientCodes /\ [Next]_vars => ClientCodes'
<1> SUFFICES ASSUME Typed, ClientCodes, [Next]_vars PROVE ClientCodes'
  OBVIOUS
<1>1. KnownCodes \subseteq KnownCodes'
  BY KnownStay
<1>2. ASSUME NEW r \in Requests,
             OnlyMoves(r), req'[r].op \in Clients => req'[r].code \in KnownCodes
      PROVE  ClientCodes'
  BY <1>1, <1>2 DEF ClientCodes, OnlyMoves
<1>3. ASSUME NEW r \in Requests, GoesOn(r)
      PROVE  req'[r].op \in Clients => req'[r].code \in KnownCodes
  BY <1>3 DEF GoesOn, Continues, Recoded, RecordAttempt, At, ClientCodes, Clients
<1>4. ASSUME NEW r \in Requests, Starts(r) \/ ResetPassword(r)
      PROVE  req'[r].op \in Clients => req'[r].code \in KnownCodes
  BY <1>4, NewCalls, ResetKeepsCode DEF NewCall, ResetPassword, ClientCodes, Clients
<1>5. CASE UNCHANGED req
  BY <1>1, <1>5 DEF ClientCodes
<1> QED
  BY <1>2, <1>3, <1>4, <1>5, Movement DEF GoesOn

LEMMA InitClientCodes == Init => ClientCodes
BY DEF Init, Idle, ClientCodes, Clients

-----------------------------------------------------------------------------
(* Email verification.                                                      *)

(* An unverified email becomes verified only when a code is accepted.       *)
LEMMA VerifiedByAccepting ==
  ASSUME Typed, [Next]_vars, row # NoRow, row' # NoRow,
         ~row.sndfa_email, row'.sndfa_email
  PROVE  \E r \in Requests : \E yes, no :
           /\ ApiWrite(r) /\ CheckEmailCode(r, yes, no)
           /\ req[r].ref.sndfa_email_code # None
           /\ req[r].ref # NoRow /\ req[r].ref.sndfa_email_code = req[r].code
<1>0. row \in Row
  BY DEF Typed, TypeOK
<1>1. PICK r \in Requests : Writes(r) \/ RemoveUser(r, "ok")
  BY Writers
<1>2. ASSUME row' = row PROVE FALSE
  BY <1>2
<1>3. CASE StoreChallenge(r)
  <2>1. row' \in {row, WithCode(row, req[r].ref, req[r].code, now)}
    BY <1>3 DEF StoreChallenge, SetUserSndfaCode, Flush, Skip
  <2> QED
    BY <1>0, <1>2, <2>1 DEF WithCode, Row
<1>4. CASE Commit(r) \/ InsertLogin(r) \/ RemoveUser(r, "ok")
  <2>1. \/ row' = row
        \/ \E n, t : row' = [row EXCEPT !.login_attempts = n,
                                       !.last_login_attempt_time = t]
    BY <1>4 DEF Commit, InsertLogin, Insert, Flush, RemoveUser
  <2> QED
    BY <1>0, <1>2, <2>1 DEF Row
<1>5. CASE CheckCode(r)
  <2>1. row' \in {row, [row EXCEPT !.sndfa_last = now]}
    BY <1>5 DEF CheckCode, CheckSndfaCode, Flush, Skip
  <2> QED
    BY <1>0, <1>2, <2>1 DEF Row
<1>6. CASE CallbackWrite(r)
  <2>1. \/ row' = row
        \/ \E n : row' = [row EXCEPT !.creation_time = now, !.login_attempts = n]
    BY <1>6 DEF CallbackWrite, SetUserCreationTime, UpdateUserModificationTime,
                RenewPassword, Insert, Flush
  <2> QED
    BY <1>0, <1>2, <2>1 DEF Row
<1>7. CASE ApiWrite(r)
  <2>1. CASE \E next : SetCheckEmailCode(r, next)
    <3>1. \/ row' = row
          \/ \E c : row' = [row EXCEPT
                              !.sndfa_email_code = c,
                              !.sndfa_email =
                                 Written(@, req[r].ref.sndfa_email, FALSE)]
      BY <2>1 DEF SetCheckEmailCode, Flush, Skip
    <3> QED
      BY <1>0, <1>2, <3>1 DEF Row, Written
  <2>2. CASE ModifySndfa(r, "ok") \/ ModifyBlack(r, "ok")
    <3>1. \/ row' = row
          \/ row' = [row EXCEPT !.sndfa = req[r].enable]
          \/ row' = [row EXCEPT !.black = req[r].enable]
      BY <2>2 DEF ModifySndfa, ModifyBlack, Flush, Skip
    <3> QED
      BY <1>0, <1>2, <3>1 DEF Row
  <2>3. ASSUME NEW yes, NEW no, CheckEmailCode(r, yes, no)
        PROVE  /\ req[r].ref # NoRow /\ req[r].ref.sndfa_email_code # None
               /\ req[r].ref.sndfa_email_code = req[r].code
    <3> DEFINE check == EmailCodeAccepted(req[r].ref, req[r].code)
    <3>1. \/ row' = row
          \/ /\ req[r].ref # NoRow /\ req[r].ref.sndfa_email_code # None
             /\ row' = [row EXCEPT !.sndfa_email = check]
      BY <2>3 DEF CheckEmailCode, Flush, Skip
    <3>2. row'.sndfa_email = check
      BY <1>0, <1>2, <3>1 DEF Row
    <3> QED
      BY <1>2, <3>1, <3>2 DEF EmailCodeAccepted
  <2>4. \/ \E next : SetCheckEmailCode(r, next)
        \/ ModifySndfa(r, "ok") \/ ModifyBlack(r, "ok")
        \/ \E yes, no : CheckEmailCode(r, yes, no)
    BY <1>7 DEF ApiWrite
  <2> QED
    BY <1>7, <2>1, <2>2, <2>3, <2>4
<1> QED
  BY <1>1, <1>3, <1>4, <1>5, <1>6, <1>7 DEF Writes

(* A code accepted for a client that is not a recovery came in a mail. *)
LEMMA AcceptedIsMailed ==
  ASSUME Typed, ClientCodes, NEW r \in Requests, req[r].op \in Clients,
         req[r].ref # NoRow, req[r].ref.sndfa_email_code = req[r].code
  PROVE  \E m \in inbox : m.code = req[r].code
<1>1. req[r].ref.sndfa_email_code \in MaybeCode
  BY RequestTyped DEF Local, Row
<1>2. req[r].code # BadCode
  BY <1>1, BoundsAssumption DEF MaybeCode
<1> QED
  BY <1>2 DEF ClientCodes, KnownCodes

(* No email becomes verified but by a request that came with a code from a  *)
(* mail, or by a recovery, whatever wrong codes are tried and however the   *)
(* requests interleave (check_email_code, 320-321).                         *)
THEOREM VerificationNeedsMail == Spec => VerifiedOnlyByMailedCode
<1>1. Typed /\ ClientCodes /\ [Next]_vars =>
        [\A r \in Requests :
           /\ row # NoRow /\ row' # NoRow
           /\ ~row.sndfa_email /\ row'.sndfa_email
           /\ req'[r] # req[r]
           => req[r].op = "recover" \/ \E m \in inbox : m.code = req[r].code]_vars
  <2> SUFFICES ASSUME Typed, ClientCodes, [Next]_vars, NEW r \in Requests,
                      row # NoRow, row' # NoRow,
                      ~row.sndfa_email, row'.sndfa_email,
                      req'[r] # req[r], req[r].op # "recover"
               PROVE  \E m \in inbox : m.code = req[r].code
    OBVIOUS
  <2>0. PICK q \in Requests : \E yes, no :
          /\ ApiWrite(q) /\ CheckEmailCode(q, yes, no)
          /\ req[q].ref # NoRow /\ req[q].ref.sndfa_email_code = req[q].code
    BY VerifiedByAccepting
  <2>1. PICK yes, no :
          /\ ApiWrite(q) /\ CheckEmailCode(q, yes, no)
          /\ req[q].ref # NoRow /\ req[q].ref.sndfa_email_code = req[q].code
    BY <2>0
  <2>2. q = r
    BY <2>1, WritesGoOn DEF Writes, GoesOn, OnlyMoves
  <2>3. req[r].op \in Clients
    BY <2>1, <2>2 DEF ApiWrite, CheckEmailCode, SetCheckEmailCode, ModifySndfa,
                      ModifyBlack, Writing, Clients
  <2> QED
    BY <2>1, <2>2, <2>3, AcceptedIsMailed
<1> QED
  BY <1>1, InitClientCodes, ClientCodesNext, TypeCorrect, PTL
  DEF Spec, VerifiedOnlyByMailedCode

-----------------------------------------------------------------------------
(* What a request has in hand at the steps that need it: a generated code   *)
(* to store or mail, a new password to mail, an accepted code before the    *)
(* password is reset, and no token before the attempt is judged.            *)

LoginOps == {"authenticate", "change_password"}

Carries(op, pc, code, new, token, mails) ==
  /\ op \in LoginOps /\ pc \in {"set_user_sndfa_code", "mail"} => code \in Codes
  /\ op = "recover" /\ pc \in {"set_check_email_code", "check_email_code", "mail"} =>
       code \in Codes
  /\ op = "ask_check_email" => code \in Codes
  /\ op = "reset" /\ pc \in {"user_updated_callback",
                            "update_user_modification_time", "mail"} => new # None
  /\ op = "reset" /\ pc = "update_user" => \E m \in mails : m.code = code
  /\ pc \in {"user", "password", "record"} => ~token

Equipped(l, mails) == Carries(l.op, l.pc, l.code, l.new, l.token, mails)

AllEquipped == \A r \in Requests : Equipped(req[r], inbox)

StaysEquipped(r) == OnlyMoves(r) /\ Equipped(req'[r], inbox')

LEMMA GotoEquipped ==
  ASSUME Typed, NEW r \in Requests, NEW l \in Local, NEW next, Goto(r, l, next),
         next \in Outcomes \/ Carries(l.op, next, l.code, l.new, l.token, inbox')
  PROVE  StaysEquipped(r)
<1>1. req \in [Requests -> Local]
  BY DEF Typed, TypeOK
<1>2. CASE next \in Outcomes
  BY <1>1, <1>2 DEF Goto, Answered, Idle, LoginOps, Carries, Equipped, OnlyMoves,
                    StaysEquipped
<1>3. CASE next \notin Outcomes
  <2>1. /\ OnlyMoves(r)
        /\ req'[r].op = l.op /\ req'[r].pc = next /\ req'[r].code = l.code
        /\ req'[r].new = l.new /\ req'[r].token = l.token
    BY <1>1, <1>3 DEF Goto, Local, OnlyMoves
  <2> QED
    BY <1>3, <2>1 DEF Equipped, StaysEquipped
<1> QED
  BY <1>2, <1>3

LEMMA AnswerEquipped ==
  ASSUME Typed, NEW r \in Requests, NEW o, Answer(r, o)
  PROVE  StaysEquipped(r)
BY DEF Answer, Answered, Idle, LoginOps, Carries, Equipped, OnlyMoves,
       StaysEquipped, Typed, TypeOK

(* Steps that need nothing for what comes next.                             *)
Needy == {"set_user_sndfa_code", "mail", "set_check_email_code",
          "check_email_code", "user_updated_callback",
          "update_user_modification_time", "update_user", "user", "password",
          "record"}

LEMMA EasyEquipped ==
  ASSUME Typed, NEW r \in Requests, NEW l \in Local, NEW next, Goto(r, l, next),
         next \notin Needy, l.op = "ask_check_email" => l.code \in Codes
  PROVE  StaysEquipped(r)
BY GotoEquipped DEF Carries, Needy

LEMMA SessionEquipped ==
  ASSUME Typed, AllEquipped, NEW r \in Requests, GetSPasswordSession(r)
  PROVE  StaysEquipped(r)
<1>1. req' = [req EXCEPT ![r] = [req[r] EXCEPT !.loaded = TRUE, !.ref = row]]
  BY DEF GetSPasswordSession, Typed, TypeOK
<1>2. /\ OnlyMoves(r) /\ inbox' = inbox
      /\ req'[r].op = req[r].op /\ req'[r].pc = req[r].pc
      /\ req'[r].code = req[r].code /\ req'[r].new = req[r].new
      /\ req'[r].token = req[r].token
  BY <1>1, RequestTyped DEF GetSPasswordSession, OnlyMoves, Local, Typed, TypeOK
<1> QED
  BY <1>2 DEF AllEquipped, Equipped, StaysEquipped

LEMMA LoginEquipped ==
  ASSUME Typed, AllEquipped, NEW r \in Requests,
         \/ \E pw \in Passwords : Authenticate(r, pw)
         \/ \E pw, new \in Passwords : ChangePassword(r, pw, new)
         \/ LoadUser(r) \/ CheckPassword(r)
  PROVE  StaysEquipped(r)
<1>0. req[r] \in Local
  BY RequestTyped
<1>1. ASSUME NEW l \in Local, l.op \in LoginOps, ~l.token,
             NEW next \in {"user", "password", "record"} \cup Outcomes,
             Goto(r, l, next)
      PROVE  StaysEquipped(r)
  BY <1>1, GotoEquipped DEF Carries, LoginOps
<1>2. ASSUME NEW l \in Local, l.op \in LoginOps, ~l.token, BlockCheck(r, l)
      PROVE  StaysEquipped(r)
  BY <1>1, <1>2 DEF BlockCheck, Outcomes
<1>3. \A pw, new \in Passwords :
        LET l == [Idle EXCEPT !.op = "authenticate", !.password = pw]
            m == [Idle EXCEPT !.op = "change_password", !.password = pw,
                              !.new = new] IN
          /\ l.op \in LoginOps /\ ~l.token
          /\ m.op \in LoginOps /\ ~m.token
  BY DEF Idle, LoginOps
<1>4. CASE \E pw \in Passwords : Authenticate(r, pw)
  BY <1>2, <1>3, <1>4, LoginLocal DEF Authenticate
<1>5. CASE \E pw, new \in Passwords : ChangePassword(r, pw, new)
  BY <1>2, <1>3, <1>5, LoginLocal, AnswerEquipped DEF ChangePassword
<1>6. CASE LoadUser(r)
  <2> DEFINE l == [req[r] EXCEPT !.right =
                     UserExists /\ req[r].password = user.password]
  <2>1. ~req[r].token
    BY <1>6 DEF LoadUser, At, AllEquipped, Equipped, Carries, LoginOps
  <2>2. l \in Local /\ l.op \in LoginOps /\ ~l.token
    BY <1>0, <1>6, <2>1 DEF Local, UserExists, LoadUser, At, LoginOps
  <2>3. \E next \in {"password", "record"} : Goto(r, l, next)
    BY <1>6 DEF LoadUser
  <2> HIDE DEF l
  <2> QED
    BY <1>1, <2>2, <2>3
<1>7. CASE CheckPassword(r)
  <2>1. ~req[r].token /\ req[r].op \in LoginOps
    BY <1>7 DEF CheckPassword, At, AllEquipped, Equipped, Carries, LoginOps
  <2>2. \E next \in {"expired", "record"} : Goto(r, req[r], next)
    BY <1>7 DEF CheckPassword
  <2> QED
    BY <1>0, <1>1, <2>1, <2>2 DEF Outcomes
<1> QED
  BY <1>4, <1>5, <1>6, <1>7

LEMMA RecordAttemptEquipped ==
  ASSUME Typed, AllEquipped, ChallengeComplete, NEW r \in Requests,
         RecordAttempt(r)
  PROVE  StaysEquipped(r)
<1> DEFINE n == IF row = NoRow THEN 0 ELSE row.login_attempts
           l == [req[r] EXCEPT !.at = now, !.tries = n]
           t == [l EXCEPT !.token = Granted(row, now)]
           c == [l EXCEPT !.code = row.sndfa_code]
<1>0. req[r] \in Local /\ req[r].op \in LoginOps
  BY RequestTyped DEF RecordAttempt, At, LoginOps
<1>1. n \in Nat /\ now \in Nat /\ Granted(row, now) \in BOOLEAN
  BY DEF Typed, TypeOK, Row, Granted
<1>2. row # NoRow /\ CodeReusable(row, now) => row.sndfa_code \in Codes
  BY DEF CodeReusable, ChallengeComplete, Typed, TypeOK, Row, MaybeCode
<1>3. \/ \E next \in {"register", "commit", "challenge"} : Goto(r, l, next)
      \/ Goto(r, t, "commit")
      \/ row # NoRow /\ CodeReusable(row, now) /\ Goto(r, c, "mail")
  BY DEF RecordAttempt
<1> HIDE DEF n
<1>4. l \in Local /\ l.op \in LoginOps
  BY <1>0, <1>1 DEF Local
<1> HIDE DEF l
<1>5. t \in Local /\ t.op \in LoginOps
  BY <1>1, <1>4 DEF Local
<1>6. row # NoRow /\ CodeReusable(row, now) =>
        c \in Local /\ c.op \in LoginOps /\ c.code \in Codes
  BY <1>2, <1>4 DEF Local, MaybeCode
<1> HIDE DEF t, c
<1>7. ASSUME NEW m \in Local, m.op \in LoginOps,
             NEW next \in {"register", "commit", "challenge"}, Goto(r, m, next)
      PROVE  StaysEquipped(r)
  BY <1>7, EasyEquipped DEF Needy, LoginOps
<1>8. CASE row # NoRow /\ CodeReusable(row, now) /\ Goto(r, c, "mail")
  BY <1>6, <1>8, GotoEquipped DEF Carries, LoginOps
<1> QED
  BY <1>3, <1>4, <1>5, <1>7, <1>8

LEMMA ChallengeEquipped ==
  ASSUME Typed, AllEquipped, NEW r \in Requests,
         Challenge(r) \/ StoreChallenge(r) \/ MailChallenge(r)
  PROVE  StaysEquipped(r)
<1>0. req[r] \in Local /\ req[r].op \in LoginOps
  BY RequestTyped DEF Challenge, StoreChallenge, MailChallenge, At, LoginOps
<1>1. CASE Challenge(r)
  <2>1. \A c \in Codes : LET l == [req[r] EXCEPT !.code = c] IN
          l \in Local /\ l.op \in LoginOps /\ l.code = c
    BY <1>0 DEF Local, MaybeCode
  <2>2. ASSUME NEW c \in Codes, NEW l \in Local, l.op \in LoginOps, l.code = c,
               Goto(r, l, "set_user_sndfa_code")
        PROVE  StaysEquipped(r)
    BY <2>2, GotoEquipped DEF Carries, LoginOps
  <2>3. \/ Answer(r, "not_found")
        \/ \E c \in Codes :
             Goto(r, [req[r] EXCEPT !.code = c], "set_user_sndfa_code")
    BY <1>1 DEF Challenge
  <2> QED
    BY <2>1, <2>2, <2>3, AnswerEquipped
<1>2. CASE StoreChallenge(r)
  <2>1. Carries(req[r].op, "mail", req[r].code, req[r].new, req[r].token, inbox')
    BY <1>0, <1>2
    DEF StoreChallenge, At, AllEquipped, Equipped, Carries, LoginOps
  <2>2. Goto(r, req[r], "mail") \/ Answer(r, "error")
    BY <1>2 DEF StoreChallenge, SetUserSndfaCode, Flush, Skip
  <2> QED
    BY <1>0, <2>1, <2>2, GotoEquipped, AnswerEquipped
<1>3. CASE MailChallenge(r)
  <2>1. \/ \E next \in {"commit", "error"} : Goto(r, req[r], next)
        \/ \E o : Answer(r, o)
    BY <1>3 DEF MailChallenge, SendEmail
  <2> QED
    BY <1>0, <2>1, EasyEquipped, AnswerEquipped DEF Needy, LoginOps
<1> QED
  BY <1>1, <1>2, <1>3

LEMMA CountEquipped ==
  ASSUME Typed, NEW r \in Requests, Commit(r) \/ Register(r) \/ InsertLogin(r)
  PROVE  StaysEquipped(r)
<1>0. req[r] \in Local /\ req[r].op \in LoginOps
  BY RequestTyped DEF Commit, Register, InsertLogin, At, LoginOps
<1>1. /\ [req[r] EXCEPT !.token = req[r].right] \in Local
      /\ [req[r] EXCEPT !.token = req[r].right].op \in LoginOps
  BY <1>0 DEF Local
<1>2. \/ \E l \in Local, next \in {"insert", "not_found", "ok", "change",
                                   "unauthorized"} :
           l.op \in LoginOps /\ Goto(r, l, next)
      \/ Answer(r, "error")
  BY <1>0, <1>1 DEF Commit, Register, InsertLogin, Flush, Insert, Answering,
                    Granting
<1> QED
  BY <1>2, EasyEquipped, AnswerEquipped DEF Needy, LoginOps

LEMMA IdentityEquipped ==
  ASSUME Typed, AllEquipped, ChallengeComplete, NEW r \in Requests,
         IdentityStep(r)
  PROVE  StaysEquipped(r)
BY LoginEquipped, RecordAttemptEquipped, ChallengeEquipped, CountEquipped
DEF IdentityStep

LEMMA CallEquipped ==
  ASSUME Typed, NEW r \in Requests, ApiCall(r)
  PROVE  StaysEquipped(r)
<1>0. /\ Codes \cup KnownCodes \cup {None} \subseteq MaybeCode \cup {BadCode}
      /\ {"ask_check_email", "check_email", "modify_sndfa", "check_sndfa",
          "modify_black", "recover", "reset"} \subseteq APIOps
  BY KnownCodesType DEF MaybeCode, APIOps
<1>1. ASSUME NEW op \in APIOps, NEW c \in MaybeCode \cup {BadCode},
             NEW enable \in BOOLEAN, NEW first, Call(r, op, c, enable, first),
             first \in Outcomes \/ Carries(op, first, c, None, FALSE, inbox')
      PROVE  StaysEquipped(r)
  <2> DEFINE l == [Idle EXCEPT !.op = op, !.code = c, !.enable = enable,
                               !.email = user.email]
  <2>1. /\ l \in Local /\ l.op = op /\ l.code = c /\ l.new = None
        /\ l.token = FALSE
    <3>0. user.email \in Addresses \cup {None}
      BY DEF Typed, TypeOK, User
    <3>1. l \in Local
      BY <3>0, CallLocal
    <3>2. l.op = op /\ l.code = c /\ l.new = None /\ l.token = FALSE
      BY DEF Idle
    <3> QED
      BY <3>1, <3>2
  <2>2. Goto(r, l, first)
    BY <1>1 DEF Call
  <2> HIDE DEF l
  <2> QED
    BY <1>1, <2>1, <2>2, GotoEquipped
<1>2. CASE AskCheckEmail(r)
  <2>1. ASSUME NEW c \in Codes,
               Call(r, "ask_check_email", c, FALSE, "set_check_email_code")
        PROVE  StaysEquipped(r)
    BY <1>0, <1>1, <2>1 DEF Carries, LoginOps
  <2>2. ASSUME ~(UserExists /\ user.email # None),
               Call(r, "ask_check_email", None, FALSE,
                    GetUser(EmailDefined("set_check_email_code")))
        PROVE  StaysEquipped(r)
    <3>1. GetUser(EmailDefined("set_check_email_code")) \in Outcomes
      BY <2>2 DEF GetUser, EmailDefined, Outcomes
    <3> QED
      BY <1>0, <1>1, <2>2, <3>1
  <2> QED
    BY <1>2, <2>1, <2>2 DEF AskCheckEmail
<1>3. CASE Recover(r)
  <2>1. \E first \in Outcomes \cup {"validated"} :
          Call(r, "recover", None, FALSE, first)
    BY <1>3 DEF Recover, Configured, GetUser, EmailDefined, Outcomes
  <2> QED
    BY <1>0, <1>1, <2>1 DEF Carries, LoginOps
<1>4. CASE Reset(r)
  <2>1. \E c \in KnownCodes, first \in Outcomes \cup {"check_email_code"} :
          Call(r, "reset", c, FALSE, first)
    BY <1>4 DEF Reset, GetUser, Outcomes
  <2> QED
    BY <1>0, <1>1, <2>1 DEF Carries, LoginOps
<1>5. CASE \/ CheckEmail(r) \/ AskModifySndfa(r) \/ CheckSndfa(r)
           \/ AskModifyBlack(r)
  <2>1. \E op \in {"check_email", "modify_sndfa", "check_sndfa", "modify_black"},
           c \in KnownCodes \cup {None}, enable \in BOOLEAN : \E first :
          Call(r, op, c, enable, first)
    BY <1>5 DEF CheckEmail, AskModifySndfa, CheckSndfa, AskModifyBlack
  <2> QED
    BY <1>0, <1>1, <2>1 DEF Carries, LoginOps
<1> QED
  BY <1>2, <1>3, <1>4, <1>5 DEF ApiCall

LEMMA ApiWriteEquipped ==
  ASSUME Typed, AllEquipped, ClientCodes, NEW r \in Requests, ApiWrite(r)
  PROVE  StaysEquipped(r)
<1>0. req[r] \in Local /\ Equipped(req[r], inbox) /\ inbox' = inbox
  BY RequestTyped DEF AllEquipped, ApiWrite
<1>1. ASSUME NEW next,
             next \in Outcomes \/ Carries(req[r].op, next, req[r].code,
                                          req[r].new, req[r].token, inbox),
             Goto(r, req[r], next)
      PROVE  StaysEquipped(r)
  BY <1>0, <1>1, GotoEquipped
<1>2. ASSUME ModifySndfa(r, "ok") \/ ModifyBlack(r, "ok")
      PROVE  StaysEquipped(r)
  <2>1. Goto(r, req[r], "ok") \/ Answer(r, "error")
    BY <1>2 DEF ModifySndfa, ModifyBlack, Flush, Skip
  <2> QED
    BY <1>1, <2>1, AnswerEquipped DEF Outcomes
<1>3. ASSUME req[r].op = "ask_check_email", SetCheckEmailCode(r, "mail")
      PROVE  StaysEquipped(r)
  <2>1. Goto(r, req[r], "mail") \/ Answer(r, "error")
    BY <1>3 DEF SetCheckEmailCode, Flush, Skip
  <2>2. Carries(req[r].op, "mail", req[r].code, req[r].new, req[r].token, inbox)
    BY <1>0, <1>3 DEF Equipped, Carries, LoginOps
  <2> QED
    BY <1>1, <2>1, <2>2, AnswerEquipped
<1>4. ASSUME req[r].op = "recover",
             \/ SetCheckEmailCode(r, RecoverGoesOn)
             \/ CheckEmailCode(r, "mail", "mail")
      PROVE  StaysEquipped(r)
  <2>1. \/ \E next \in {"mail", "check_email_code"} : Goto(r, req[r], next)
        \/ Answer(r, "error")
    BY <1>4 DEF SetCheckEmailCode, RecoverGoesOn, CheckEmailCode, Flush, Skip
  <2>2. req[r].pc \in {"set_check_email_code", "check_email_code"}
    BY <1>4 DEF SetCheckEmailCode, CheckEmailCode, Writing
  <2>3. req[r].code \in Codes
    BY <1>0, <1>4, <2>2 DEF Equipped, Carries
  <2>4. \A next \in {"mail", "check_email_code"} :
          Carries(req[r].op, next, req[r].code, req[r].new, req[r].token, inbox)
    BY <1>4, <2>3 DEF Carries, LoginOps
  <2> QED
    BY <1>1, <2>1, <2>4, AnswerEquipped
<1>5. ASSUME req[r].op = "check_email",
             CheckEmailCode(r, "ok", "unauthorized")
      PROVE  StaysEquipped(r)
  <2>1. \/ \E next \in {"ok", "unauthorized"} : Goto(r, req[r], next)
        \/ Answer(r, "error")
    BY <1>5 DEF CheckEmailCode, Flush, Skip
  <2> QED
    BY <1>1, <2>1, AnswerEquipped DEF Outcomes
<1>6. ASSUME req[r].op = "reset",
             CheckEmailCode(r, "update_user", "unauthorized")
      PROVE  StaysEquipped(r)
  <2>1. \/ Goto(r, req[r], "unauthorized")
        \/ Answer(r, "error")
        \/ /\ req[r].ref # NoRow /\ EmailCodeAccepted(req[r].ref, req[r].code)
           /\ Goto(r, req[r], "update_user")
    BY <1>6 DEF CheckEmailCode, Flush, Skip
  <2>2. ASSUME req[r].ref # NoRow, EmailCodeAccepted(req[r].ref, req[r].code)
        PROVE  Carries(req[r].op, "update_user", req[r].code, req[r].new,
                       req[r].token, inbox)
    <3>1. \E m \in inbox : m.code = req[r].code
      BY <1>6, <2>2, AcceptedIsMailed DEF EmailCodeAccepted, Clients
    <3> QED
      BY <1>6, <3>1 DEF Carries, LoginOps
  <2> QED
    BY <1>1, <2>1, <2>2, AnswerEquipped DEF Outcomes
<1> QED
  BY <1>2, <1>3, <1>4, <1>5, <1>6 DEF ApiWrite

LEMMA ApiMovesEquipped ==
  ASSUME Typed, AllEquipped, NEW r \in Requests,
         \/ EmailValidated(r) \/ CheckCode(r) \/ MailCode(r)
         \/ ResetPassword(r) \/ MailPassword(r)
  PROVE  StaysEquipped(r)
<1>0. req[r] \in Local /\ Equipped(req[r], inbox)
  BY RequestTyped DEF AllEquipped
<1>1. CASE EmailValidated(r)
  <2>1. \/ Answer(r, "unauthorized")
        \/ Goto(r, req[r], "modify_sndfa")
        \/ Goto(r, req[r], "check_sndfa_code")
        \/ /\ req[r].op = "recover"
           /\ \E c \in Codes :
                Goto(r, [req[r] EXCEPT !.code = c], "set_check_email_code")
    BY <1>1 DEF EmailValidated
  <2>2. ASSUME NEW c \in Codes, req[r].op = "recover",
               Goto(r, [req[r] EXCEPT !.code = c], "set_check_email_code")
        PROVE  StaysEquipped(r)
    <3> DEFINE l == [req[r] EXCEPT !.code = c]
    <3>1. l \in Local /\ l.op = "recover" /\ l.code = c
      BY <1>0, <2>2 DEF Local, MaybeCode
    <3>2. Goto(r, l, "set_check_email_code")
      BY <2>2
    <3> HIDE DEF l
    <3> QED
      BY <3>1, <3>2, GotoEquipped DEF Carries, LoginOps
  <2>3. req[r].op = "ask_check_email" => req[r].code \in Codes
    BY <1>0 DEF Equipped, Carries
  <2> QED
    BY <1>0, <2>1, <2>2, <2>3, EasyEquipped, AnswerEquipped DEF Needy
<1>2. CASE CheckCode(r) \/ MailCode(r) \/ MailPassword(r)
  <2>1. \/ \E next \in Outcomes : Goto(r, req[r], next)
        \/ Answer(r, "error")
    BY <1>2 DEF CheckCode, CheckSndfaCode, Flush, Skip, MailCode, MailPassword,
                SendEmail, Outcomes
  <2> QED
    BY <1>0, <2>1, GotoEquipped, AnswerEquipped
<1>3. CASE ResetPassword(r)
  <2>1. ASSUME NEW pw \in Passwords,
               Goto(r, [req[r] EXCEPT !.new = pw], "user_updated_callback")
        PROVE  StaysEquipped(r)
    <3> DEFINE l == [req[r] EXCEPT !.new = pw]
    <3>1. l \in Local /\ l.op = "reset" /\ l.new = pw
      BY <1>0, <1>3 DEF Local, ResetPassword
    <3>2. Goto(r, l, "user_updated_callback") /\ pw # None
      BY <2>1, BoundsAssumption
    <3> HIDE DEF l
    <3> QED
      BY <3>1, <3>2, GotoEquipped DEF Carries, LoginOps
  <2> QED
    BY <1>3, <2>1, AnswerEquipped DEF ResetPassword
<1> QED
  BY <1>1, <1>2, <1>3

LEMMA LifecycleEquipped ==
  ASSUME Typed, AllEquipped, NEW r \in Requests, LifecycleStep(r)
  PROVE  StaysEquipped(r)
<1>0. req[r] \in Local /\ Equipped(req[r], inbox) /\ inbox' = inbox
  BY RequestTyped DEF AllEquipped, LifecycleStep
<1>1. ASSUME NEW op \in {"create_user", "update_user", "delete_user"}, NEW pc,
             Arrive(r, op, pc)
      PROVE  StaysEquipped(r)
  <2> DEFINE l == [Idle EXCEPT !.op = op]
  <2>1. l \in Local /\ l.op = op /\ l.token = FALSE
    <3>1. l \in Local
      BY ArriveLocal DEF APIOps
    <3>2. l.op = op /\ l.token = FALSE
      BY DEF Idle
    <3> QED
      BY <3>1, <3>2
  <2>2. Goto(r, l, pc)
    BY <1>1 DEF Arrive
  <2> HIDE DEF l
  <2> QED
    BY <1>1, <2>1, <2>2, GotoEquipped DEF Carries, LoginOps
<1>2. CASE CreateUser(r) \/ UpdateUser(r) \/ ScimUpdateUser(r) \/ DeleteUser(r)
  <2>1. \E op \in {"create_user", "update_user", "delete_user"} : \E pc :
          Arrive(r, op, pc)
    BY <1>2 DEF CreateUser, UpdateUser, ScimUpdateUser, ChangeUser, DeleteUser
  <2> QED
    BY <1>1, <2>1
<1>3. CASE StorePassword(r)
  <2>1. \/ Goto(r, req[r], "user_updated_callback") \/ Answer(r, "not_found")
    BY <1>3 DEF StorePassword
  <2>2. Carries(req[r].op, "user_updated_callback", req[r].code, req[r].new,
                req[r].token, inbox)
    BY <1>3 DEF StorePassword, Carries, LoginOps
  <2> QED
    BY <1>0, <2>1, <2>2, GotoEquipped, AnswerEquipped
<1>4. CASE \/ Callback(r, "user_created_callback", "set_user_creation_time")
           \/ Callback(r, "user_updated_callback",
                       "update_user_modification_time")
  <2>1. ASSUME Callback(r, "user_created_callback", "set_user_creation_time")
        PROVE  StaysEquipped(r)
    <3>1. \E next \in {"set_user_creation_time", "not_found"} :
            Goto(r, req[r], next)
      BY <2>1 DEF Callback
    <3> QED
      BY <1>0, <3>1, EasyEquipped DEF Needy, Equipped, Carries
  <2>2. ASSUME Callback(r, "user_updated_callback",
                        "update_user_modification_time")
        PROVE  StaysEquipped(r)
    <3>1. \/ Goto(r, req[r], "update_user_modification_time")
          \/ Goto(r, req[r], "not_found")
      BY <2>2 DEF Callback
    <3>2. Carries(req[r].op, "update_user_modification_time", req[r].code,
                  req[r].new, req[r].token, inbox)
      BY <1>0, <2>2 DEF Callback, Equipped, Carries, LoginOps
    <3> QED
      BY <1>0, <3>1, <3>2, GotoEquipped DEF Outcomes
  <2> QED
    BY <1>4, <2>1, <2>2
<1>5. CASE CallbackWrite(r)
  <2>1. \/ Goto(r, req[r], "ok") \/ Answer(r, "error")
        \/ /\ req[r].op = "reset"
           /\ req[r].pc = "update_user_modification_time"
           /\ Goto(r, req[r], "mail")
    BY <1>5 DEF CallbackWrite, SetUserCreationTime, UpdateUserModificationTime,
                Writing, RenewPassword, Insert, Flush
  <2>2. ASSUME req[r].op = "reset",
               req[r].pc = "update_user_modification_time"
        PROVE  Carries(req[r].op, "mail", req[r].code, req[r].new,
                       req[r].token, inbox)
    BY <1>0, <2>2 DEF Equipped, Carries, LoginOps
  <2> QED
    BY <1>0, <2>1, <2>2, GotoEquipped, AnswerEquipped DEF Outcomes
<1>6. CASE RemoveUser(r, "ok")
  BY <1>0, <1>6, GotoEquipped DEF RemoveUser, Outcomes
<1> QED
  BY <1>2, <1>3, <1>4, <1>5, <1>6 DEF LifecycleStep

LEMMA EquippedNext ==
  Typed /\ AllEquipped /\ ClientCodes /\ ChallengeComplete /\ [Next]_vars
    => AllEquipped'
<1> SUFFICES ASSUME Typed, AllEquipped, ClientCodes, ChallengeComplete,
                    [Next]_vars
             PROVE  AllEquipped'
  OBVIOUS
<1>1. ASSUME NEW l, Equipped(l, inbox) PROVE Equipped(l, inbox')
  BY <1>1, MailsStay DEF Equipped, Carries
<1>2. ASSUME NEW r \in Requests, StaysEquipped(r) PROVE AllEquipped'
  BY <1>1, <1>2 DEF AllEquipped, StaysEquipped, OnlyMoves
<1>3. CASE UNCHANGED req
  BY <1>1, <1>3 DEF AllEquipped
<1>4. ASSUME NEW r \in Requests, Crash(r) PROVE AllEquipped'
  BY <1>2, <1>4, AnswerEquipped DEF Crash
<1>5. ASSUME NEW r \in Requests,
             GetSPasswordSession(r) \/ IdentityStep(r) \/ ApiStep(r)
                \/ LifecycleStep(r)
      PROVE  AllEquipped'
  BY <1>2, <1>5, SessionEquipped, IdentityEquipped, CallEquipped,
     ApiWriteEquipped, ApiMovesEquipped, LifecycleEquipped DEF ApiStep
<1> QED
  BY <1>3, <1>4, <1>5 DEF Next, Tick, vars

LEMMA InitEquipped == Init => AllEquipped
BY DEF Init, Idle, AllEquipped, Equipped, Carries, LoginOps

-----------------------------------------------------------------------------
(* A login stores a code that nobody had when it was generated.             *)

Storing(r) == req[r].op \in LoginOps /\ req[r].pc = "set_user_sndfa_code"

Unstored ==
  \A r \in Requests : Storing(r) =>
    /\ row # NoRow => row.sndfa_code # req[r].code
    /\ req[r].loaded /\ req[r].ref # NoRow => req[r].ref.sndfa_code # req[r].code
    /\ \A q \in Requests \ {r} : Storing(q) => req[q].code # req[r].code

PassesBy(r) == OnlyMoves(r) /\ ~Storing(r)' /\ req'[r].ref = NoRow

LEMMA GotoPassesBy ==
  ASSUME Typed, NEW r \in Requests, NEW l \in Local, NEW next, Goto(r, l, next),
         next # "set_user_sndfa_code"
  PROVE  PassesBy(r)
<1>1. req \in [Requests -> Local]
  BY DEF Typed, TypeOK
<1>2. CASE next \in Outcomes
  BY <1>1, <1>2 DEF Goto, Answered, Idle, LoginOps, OnlyMoves, Storing, PassesBy
<1>3. CASE next \notin Outcomes
  BY <1>1, <1>3 DEF Goto, Local, OnlyMoves, Storing, PassesBy
<1> QED
  BY <1>2, <1>3

LEMMA AnswerPassesBy ==
  ASSUME Typed, NEW r \in Requests, NEW o, Answer(r, o)
  PROVE  PassesBy(r)
BY AnswerEquipped DEF Answer, Answered, Idle, LoginOps, OnlyMoves, Storing,
                      PassesBy, Typed, TypeOK

LEMMA IdentityPassesBy ==
  ASSUME Typed, NEW r \in Requests, IdentityStep(r), ~Challenge(r)
  PROVE  PassesBy(r)
<1>0. req[r] \in Local /\ now \in Nat /\ (row # NoRow => row \in Row)
  BY RequestTyped DEF Typed, TypeOK
<1>1. ASSUME NEW l \in Local, BlockCheck(r, l) PROVE PassesBy(r)
  BY <1>1, GotoPassesBy DEF BlockCheck
<1>2. \A pw, new \in Passwords :
        /\ [Idle EXCEPT !.op = "authenticate", !.password = pw] \in Local
        /\ [Idle EXCEPT !.op = "change_password", !.password = pw,
                        !.new = new] \in Local
  BY LoginLocal
<1>3. CASE \/ \E pw \in Passwords : Authenticate(r, pw)
           \/ \E pw, new \in Passwords : ChangePassword(r, pw, new)
  BY <1>1, <1>2, <1>3, AnswerPassesBy DEF Authenticate, ChangePassword
<1>4. CASE LoadUser(r) \/ CheckPassword(r) \/ Register(r)
  <2>1. /\ [req[r] EXCEPT !.right =
              UserExists /\ req[r].password = user.password] \in Local
        /\ [req[r] EXCEPT !.token = req[r].right] \in Local
    BY <1>0, JudgedLocal
  <2>2. \E l \in Local, next \in {"password", "record", "expired", "insert",
                                  "not_found"} : Goto(r, l, next)
    BY <1>0, <1>4, <2>1 DEF LoadUser, CheckPassword, Register
  <2> QED
    BY <2>2, GotoPassesBy
<1>5. CASE RecordAttempt(r)
  <2> DEFINE n == IF row = NoRow THEN 0 ELSE row.login_attempts
             l == [req[r] EXCEPT !.at = now, !.tries = n]
             t == [l EXCEPT !.token = Granted(row, now)]
             c == [l EXCEPT !.code = row.sndfa_code]
  <2>1. n \in Nat /\ Granted(row, now) \in BOOLEAN
    BY <1>0 DEF Row, Granted
  <2>2. row # NoRow => row.sndfa_code \in MaybeCode
    BY <1>0 DEF Row
  <2>3. \/ \E next \in {"register", "commit", "challenge"} : Goto(r, l, next)
        \/ Goto(r, t, "commit")
        \/ row # NoRow /\ Goto(r, c, "mail")
    BY <1>5 DEF RecordAttempt
  <2> HIDE DEF n
  <2>4. l \in Local
    BY <1>0, <2>1 DEF Local
  <2> HIDE DEF l
  <2>5. t \in Local /\ (row # NoRow => c \in Local)
    BY <2>1, <2>2, <2>4 DEF Local
  <2> HIDE DEF t, c
  <2> QED
    BY <2>3, <2>4, <2>5, GotoPassesBy
<1>6. CASE StoreChallenge(r) \/ MailChallenge(r) \/ Commit(r) \/ InsertLogin(r)
  <2>1. \/ \E next \in {"mail", "commit", "error", "ok", "change",
                        "unauthorized"} : Goto(r, req[r], next)
        \/ \E o : Answer(r, o)
    BY <1>6 DEF StoreChallenge, SetUserSndfaCode, MailChallenge, SendEmail,
                Commit, InsertLogin, Flush, Insert, Skip, Answering, Granting
  <2> QED
    BY <1>0, <2>1, GotoPassesBy, AnswerPassesBy
<1> QED
  BY <1>3, <1>4, <1>5, <1>6 DEF IdentityStep

LEMMA OthersPassBy ==
  ASSUME Typed, NEW r \in Requests, ApiStep(r) \/ LifecycleStep(r) \/ Crash(r)
  PROVE  PassesBy(r)
<1>0. req[r] \in Local
  BY RequestTyped
<1>1. CASE \/ ApiCall(r) \/ CreateUser(r) \/ UpdateUser(r)
           \/ ScimUpdateUser(r) \/ DeleteUser(r)
  <2>1. CASE ApiCall(r)
    <3> DEFINE Firsts == {"bad_request", "not_found", "unauthorized", "validated",
                          "set_check_email_code", "check_email_code",
                          "modify_black"}
    <3>0. /\ Codes \cup KnownCodes \cup {None} \subseteq MaybeCode \cup {BadCode}
          /\ {"ask_check_email", "check_email", "modify_sndfa", "check_sndfa",
              "modify_black", "recover", "reset"} \subseteq APIOps
      BY KnownCodesType DEF MaybeCode, APIOps
    <3>4. PICK op \in {"ask_check_email", "check_email", "modify_sndfa",
                       "check_sndfa", "modify_black", "recover", "reset"},
               c \in Codes \cup KnownCodes \cup {None}, enable \in BOOLEAN,
               first \in Firsts : Call(r, op, c, enable, first)
      <4>1. /\ Configured(GetUser(EmailDefined("validated"))) \in Firsts
            /\ Configured(GetUser("validated")) \in Firsts
            /\ Configured(GetUser("modify_black")) \in Firsts
            /\ GetUser(EmailDefined("set_check_email_code")) \in Firsts
            /\ GetUser(EmailDefined("check_email_code")) \in Firsts
            /\ GetUser("check_email_code") \in Firsts
            /\ "set_check_email_code" \in Firsts
        BY DEF Configured, GetUser, EmailDefined
      <4> HIDE DEF Firsts
      <4> QED
        BY <2>1, <4>1 DEF ApiCall, AskCheckEmail, CheckEmail, AskModifySndfa,
                          CheckSndfa, AskModifyBlack, Recover, Reset
    <3>1. /\ op \in APIOps /\ c \in MaybeCode \cup {BadCode}
          /\ first # "set_user_sndfa_code"
      BY <3>0
    <3> DEFINE l == [Idle EXCEPT !.op = op, !.code = c, !.enable = enable,
                                 !.email = user.email]
    <3>2. l \in Local
      BY <3>1, CallLocal DEF Typed, TypeOK, User
    <3>3. Goto(r, l, first)
      BY <3>4 DEF Call
    <3> HIDE DEF l
    <3> QED
      BY <3>1, <3>2, <3>3, GotoPassesBy
  <2>2. ASSUME ~ApiCall(r) PROVE PassesBy(r)
    <3>1. PICK op \in {"create_user", "update_user", "delete_user"},
               next \in {"user_created_callback", "user_updated_callback",
                         "remove_user", "bad_request", "unauthorized"} :
            Goto(r, [Idle EXCEPT !.op = op], next)
      BY <1>1, <2>2 DEF CreateUser, UpdateUser, ScimUpdateUser, ChangeUser,
                        DeleteUser, Arrive
    <3>2. [Idle EXCEPT !.op = op] \in Local
      BY ArriveLocal DEF APIOps
    <3> QED
      BY <3>1, <3>2, GotoPassesBy
  <2> QED
    BY <2>1, <2>2
<1>2. CASE ResetPassword(r) \/ EmailValidated(r)
  <2>1. /\ \A pw \in Passwords : [req[r] EXCEPT !.new = pw] \in Local
        /\ \A c \in Codes : [req[r] EXCEPT !.code = c] \in Local
    BY <1>0 DEF Local, MaybeCode
  <2>2. CASE ResetPassword(r)
    BY <2>1, <2>2, GotoPassesBy, AnswerPassesBy DEF ResetPassword
  <2>3. CASE EmailValidated(r)
    <3>1. \/ \E c \in Codes :
               Goto(r, [req[r] EXCEPT !.code = c], "set_check_email_code")
          \/ \E next \in {"modify_sndfa", "check_sndfa_code"} :
               Goto(r, req[r], next)
          \/ Answer(r, "unauthorized")
      BY <2>3 DEF EmailValidated
    <3> QED
      BY <1>0, <2>1, <3>1, GotoPassesBy, AnswerPassesBy
  <2> QED
    BY <1>2, <2>2, <2>3
<1>3. CASE ApiWrite(r) \/ CheckCode(r) \/ MailCode(r) \/ MailPassword(r)
  <2>1. \/ \E next \in Outcomes \cup {"mail", "check_email_code", "update_user"} :
             Goto(r, req[r], next)
        \/ \E o : Answer(r, o)
    BY <1>3 DEF ApiWrite, SetCheckEmailCode, RecoverGoesOn, CheckEmailCode,
                ModifySndfa, ModifyBlack, CheckCode, CheckSndfaCode, MailCode,
                MailPassword, SendEmail, Flush, Skip, Outcomes
  <2> QED
    BY <1>0, <2>1, GotoPassesBy, AnswerPassesBy DEF Outcomes
<1>4. CASE \/ StorePassword(r) \/ CallbackWrite(r) \/ RemoveUser(r, "ok")
           \/ Callback(r, "user_created_callback", "set_user_creation_time")
           \/ Callback(r, "user_updated_callback",
                       "update_user_modification_time")
           \/ Crash(r)
  <2>1. \/ \E next \in {"user_updated_callback", "ok", "mail", "not_found",
                        "set_user_creation_time",
                        "update_user_modification_time"} : Goto(r, req[r], next)
        \/ \E o : Answer(r, o)
    BY <1>4 DEF StorePassword, CallbackWrite, SetUserCreationTime,
                UpdateUserModificationTime, RenewPassword, Insert, Flush,
                RemoveUser, Callback, Crash
  <2> QED
    BY <1>0, <2>1, GotoPassesBy, AnswerPassesBy
<1> QED
  BY <1>1, <1>2, <1>3, <1>4 DEF ApiStep, LifecycleStep

(* A request is about to store a code because Challenge generated it, or    *)
(* had it already.                                                          *)
LEMMA StoringBefore ==
  ASSUME Typed, [Next]_vars, NEW r \in Requests, Storing(r)'
  PROVE  \/ /\ FreshCode(req'[r].code) /\ ~req'[r].loaded /\ row' = row
            /\ OnlyMoves(r)
         \/ /\ Storing(r) /\ req'[r].code = req[r].code
            /\ \/ req'[r] = req[r]
               \/ req'[r].ref = row /\ row' = row
<1>1. ASSUME NEW q \in Requests, PassesBy(q)
      PROVE  Storing(r) /\ req'[r] = req[r]
  BY <1>1 DEF PassesBy, OnlyMoves, Storing
<1>2. ASSUME NEW q \in Requests, Challenge(q), q # r
      PROVE  Storing(r) /\ req'[r] = req[r]
  <2>1. OnlyMoves(q)
    BY <1>2 DEF Challenge, Goto, Answer, OnlyMoves, Typed, TypeOK
  <2> QED
    BY <1>2, <2>1 DEF OnlyMoves, Storing
<1>3. CASE Challenge(r)
  <2>1. ~Answer(r, "not_found")
    BY AnswerPassesBy DEF PassesBy
  <2>2. PICK c \in Codes : /\ FreshCode(c)
                           /\ Goto(r, [req[r] EXCEPT !.code = c],
                                   "set_user_sndfa_code")
    BY <1>3, <2>1 DEF Challenge
  <2>3. /\ "set_user_sndfa_code" \notin Outcomes
        /\ req[r] \in Local /\ req \in [Requests -> Local]
    BY RequestTyped DEF Outcomes, Typed, TypeOK
  <2>4. /\ OnlyMoves(r) /\ req'[r].code = c /\ ~req'[r].loaded
    BY <2>2, <2>3 DEF Goto, Local, OnlyMoves
  <2>5. row' = row
    BY <1>3 DEF Challenge
  <2> QED
    BY <2>2, <2>4, <2>5
<1>4. ASSUME NEW q \in Requests, GetSPasswordSession(q)
      PROVE  /\ Storing(r) /\ req'[r].code = req[r].code
             /\ \/ req'[r] = req[r]
                \/ req'[r].ref = row /\ row' = row
  <2>1. /\ req' = [req EXCEPT ![q] = [req[q] EXCEPT !.loaded = TRUE, !.ref = row]]
        /\ row' = row
    BY <1>4 DEF GetSPasswordSession, Typed, TypeOK
  <2>2. CASE q = r
    <3>1. /\ req'[r].op = req[r].op /\ req'[r].pc = req[r].pc
          /\ req'[r].code = req[r].code /\ req'[r].ref = row
      BY <2>1, <2>2, RequestTyped DEF Local, Typed, TypeOK
    <3> QED
      BY <2>1, <3>1 DEF Storing
  <2>3. CASE q # r
    BY <2>1, <2>3 DEF Storing, Typed, TypeOK
  <2> QED
    BY <2>2, <2>3
<1>5. CASE UNCHANGED req
  BY <1>5 DEF Storing
<1>6. \/ UNCHANGED req
      \/ \E q \in Requests : GetSPasswordSession(q) \/ PassesBy(q) \/ Challenge(q)
  BY IdentityPassesBy, OthersPassBy DEF Next, Tick, vars
<1> QED
  BY <1>1, <1>2, <1>3, <1>4, <1>5, <1>6

(* What a step does to the two columns of the second factor code.           *)
SndfaColumns(stored) == <<stored.sndfa_code, stored.sndfa_time_code>>

LEMMA CodeColumns ==
  ASSUME Typed, [Next]_vars, row' # NoRow
  PROVE  \/ row # NoRow /\ SndfaColumns(row') = SndfaColumns(row)
         \/ row = NoRow /\ SndfaColumns(row') = <<None, None>>
         \/ \E r \in Requests :
              /\ StoreChallenge(r) /\ Storing(r) /\ row # NoRow
              /\ req[r].loaded /\ req[r].ref # NoRow
              /\ row'.sndfa_code =
                   Written(row.sndfa_code, req[r].ref.sndfa_code, req[r].code)
              /\ row'.sndfa_time_code = now
<1>0. row = NoRow \/ row \in Row
  BY DEF Typed, TypeOK
<1>1. ASSUME NEW r \in Requests, StoreChallenge(r), row' # row
      PROVE  /\ Storing(r) /\ row # NoRow
             /\ req[r].loaded /\ req[r].ref # NoRow
             /\ row'.sndfa_code =
                  Written(row.sndfa_code, req[r].ref.sndfa_code, req[r].code)
             /\ row'.sndfa_time_code = now
  <2>1. /\ Storing(r) /\ req[r].loaded
        /\ row # NoRow /\ Enrolled(req[r].ref)
        /\ row' = WithCode(row, req[r].ref, req[r].code, now)
    BY <1>1 DEF StoreChallenge, At, SetUserSndfaCode, Writing, Flush, Skip,
                Storing, LoginOps
  <2> QED
    BY <1>0, <2>1 DEF WithCode, Enrolled, Row
<1>2. ASSUME NEW r \in Requests, Commit(r) \/ InsertLogin(r)
      PROVE  \/ row' = row
             \/ row # NoRow /\ SndfaColumns(row') = SndfaColumns(row)
             \/ row = NoRow /\ SndfaColumns(row') = <<None, None>>
  <2>1. \/ row' = row
        \/ /\ row # NoRow
           /\ \E n, t : row' = [row EXCEPT !.login_attempts = n,
                                          !.last_login_attempt_time = t]
        \/ row = NoRow /\ \E c, n, t : row' = NewRow(c, n, t)
    BY <1>2 DEF Commit, InsertLogin, Insert, Flush
  <2> QED
    BY <1>0, <2>1 DEF NewRow, BlankRow, SndfaColumns, Row
<1>3. ASSUME NEW r \in Requests, CheckCode(r)
      PROVE  row' = row \/ (row # NoRow /\ SndfaColumns(row') = SndfaColumns(row))
  <2>1. \/ row' = row
        \/ row # NoRow /\ row' = [row EXCEPT !.sndfa_last = now]
    BY <1>3 DEF CheckCode, CheckSndfaCode, Flush, Skip
  <2> QED
    BY <1>0, <2>1 DEF SndfaColumns, Row
<1>4. ASSUME NEW r \in Requests, CallbackWrite(r)
      PROVE  \/ row' = row
             \/ row # NoRow /\ SndfaColumns(row') = SndfaColumns(row)
             \/ row = NoRow /\ SndfaColumns(row') = <<None, None>>
  <2>1. \/ row' = row
        \/ row = NoRow /\ row' = NewRow(now, 0, None)
        \/ /\ row # NoRow
           /\ \E n : row' = [row EXCEPT !.creation_time = now, !.login_attempts = n]
    BY <1>4 DEF CallbackWrite, SetUserCreationTime, UpdateUserModificationTime,
                RenewPassword, Insert, Flush
  <2> QED
    BY <1>0, <2>1 DEF NewRow, BlankRow, SndfaColumns, Row
<1>5. ASSUME NEW r \in Requests, ApiWrite(r)
      PROVE  row' = row \/ (row # NoRow /\ SndfaColumns(row') = SndfaColumns(row))
  <2>1. \/ row' = row
        \/ /\ row # NoRow
           /\ \/ \E c, e : row' = [row EXCEPT !.sndfa_email_code = c,
                                             !.sndfa_email = e]
              \/ \E e : row' = [row EXCEPT !.sndfa_email = e]
              \/ \E e : row' = [row EXCEPT !.sndfa = e]
              \/ \E e : row' = [row EXCEPT !.black = e]
    BY <1>5 DEF ApiWrite, SetCheckEmailCode, CheckEmailCode, ModifySndfa,
                ModifyBlack, Flush, Skip
  <2> QED
    BY <1>0, <2>1 DEF SndfaColumns, Row
<1>6. ASSUME NEW r \in Requests, RemoveUser(r, "ok") PROVE row' = row
  BY <1>6 DEF RemoveUser
<1> QED
  BY <1>1, <1>2, <1>3, <1>4, <1>5, <1>6, Writers DEF Writes

LEMMA UnstoredNext ==
  Typed /\ AllEquipped /\ Unstored /\ [Next]_vars => Unstored'
<1> SUFFICES ASSUME Typed, AllEquipped, Unstored, [Next]_vars,
                    NEW r \in Requests, Storing(r)'
             PROVE  /\ row' # NoRow => row'.sndfa_code # req'[r].code
                    /\ req'[r].loaded /\ req'[r].ref # NoRow =>
                         req'[r].ref.sndfa_code # req'[r].code
                    /\ \A q \in Requests \ {r} :
                         Storing(q)' => req'[q].code # req'[r].code
  BY DEF Unstored
<1>1. CASE /\ FreshCode(req'[r].code) /\ ~req'[r].loaded /\ row' = row
           /\ OnlyMoves(r)
  BY <1>1 DEF FreshCode, InUse, RowCodes, OnlyMoves
<1>2. CASE /\ Storing(r) /\ req'[r].code = req[r].code
           /\ \/ req'[r] = req[r]
              \/ req'[r].ref = row /\ row' = row
  <2>0. req[r].code \in Codes
    BY <1>2 DEF AllEquipped, Equipped, Carries, Storing
  <2>1. ASSUME row' # NoRow PROVE row'.sndfa_code # req[r].code
    <3>1. CASE row' = row
      BY <1>2, <2>1, <3>1 DEF Unstored
    <3>2. CASE row # NoRow /\ SndfaColumns(row') = SndfaColumns(row)
      BY <1>2, <3>2 DEF Unstored, SndfaColumns
    <3>3. CASE SndfaColumns(row') = <<None, None>>
      BY <2>0, <3>3, NoneAssumption DEF SndfaColumns
    <3>4. ASSUME NEW q \in Requests,
                 StoreChallenge(q), Storing(q), row # NoRow,
                 row'.sndfa_code =
                   Written(row.sndfa_code, req[q].ref.sndfa_code, req[q].code)
          PROVE  row'.sndfa_code # req[r].code
      <4>1. q # r
        BY <3>4, IdentityPassesBy DEF IdentityStep, PassesBy, Challenge,
                                      StoreChallenge, At
      <4> QED
        BY <1>2, <3>4, <4>1 DEF Unstored, Written
    <3> QED
      BY <2>1, <3>2, <3>3, <3>4, CodeColumns
  <2>2. ASSUME req'[r].loaded, req'[r].ref # NoRow
        PROVE  req'[r].ref.sndfa_code # req[r].code
    BY <1>2, <2>2 DEF Unstored
  <2>3. ASSUME NEW q \in Requests \ {r}, Storing(q)'
        PROVE  req'[q].code # req[r].code
    <3>1. CASE FreshCode(req'[q].code)
      BY <3>1 DEF FreshCode, InUse
    <3>2. CASE Storing(q) /\ req'[q].code = req[q].code
      BY <1>2, <2>3, <3>2 DEF Unstored
    <3> QED
      BY <2>3, <3>1, <3>2, StoringBefore
  <2> QED
    BY <1>2, <2>1, <2>2, <2>3
<1> QED
  BY <1>1, <1>2, StoringBefore

LEMMA CompleteNext ==
  Typed /\ AllEquipped /\ Unstored /\ ChallengeComplete /\ [Next]_vars
    => ChallengeComplete'
<1> SUFFICES ASSUME Typed, AllEquipped, Unstored, ChallengeComplete,
                    [Next]_vars, row' # NoRow
             PROVE  row'.sndfa_code = None <=> row'.sndfa_time_code = None
  BY DEF ChallengeComplete
<1>1. CASE row # NoRow /\ SndfaColumns(row') = SndfaColumns(row)
  BY <1>1 DEF SndfaColumns, ChallengeComplete
<1>2. CASE SndfaColumns(row') = <<None, None>>
  BY <1>2 DEF SndfaColumns
<1>3. ASSUME NEW r \in Requests,
             Storing(r), req[r].loaded, req[r].ref # NoRow,
             row'.sndfa_code =
               Written(row.sndfa_code, req[r].ref.sndfa_code, req[r].code),
             row'.sndfa_time_code = now
      PROVE  row'.sndfa_code = None <=> row'.sndfa_time_code = None
  <2>1. req[r].code \in Codes
    BY <1>3 DEF AllEquipped, Equipped, Carries, Storing
  <2>2. row'.sndfa_code = req[r].code
    BY <1>3 DEF Unstored, Written
  <2> QED
    BY <1>3, <2>1, <2>2, NoneAssumption DEF Typed, TypeOK
<1> QED
  BY <1>1, <1>2, <1>3, CodeColumns

-----------------------------------------------------------------------------
(* The inductive invariant about codes, and what follows from it.           *)
CodesInOrder == ClientCodes /\ AllEquipped /\ Unstored /\ ChallengeComplete

LEMMA CodesStayInOrder == Spec => [](Typed /\ CodesInOrder)
<1>1. Init => CodesInOrder
  <2>1. Init => Unstored
    BY DEF Init, Idle, Unstored, Storing, LoginOps
  <2>2. Init => row = NoRow \/ row = NewRow(0, 0, None)
    BY DEF Init
  <2>3. /\ NewRow(0, 0, None).sndfa_code = None
        /\ NewRow(0, 0, None).sndfa_time_code = None
    BY DEF NewRow, BlankRow
  <2>4. Init => ChallengeComplete
    BY <2>2, <2>3 DEF ChallengeComplete
  <2> QED
    BY <2>1, <2>4, InitClientCodes, InitEquipped DEF CodesInOrder
<1>2. Typed /\ CodesInOrder /\ [Next]_vars => CodesInOrder'
  BY ClientCodesNext, EquippedNext, UnstoredNext, CompleteNext DEF CodesInOrder
<1> QED
  BY <1>1, <1>2, TypeCorrect, PTL DEF Spec

(* The second factor code and its time are in the row together, or neither  *)
(* is, however the logins that store them interleave (set_user_sndfa_code). *)
THEOREM CodesAreDated == Spec => []ChallengeComplete
<1>1. Typed /\ CodesInOrder => ChallengeComplete
  BY DEF CodesInOrder
<1> QED
  BY <1>1, CodesStayInOrder, PTL

(* A password is stored by a reset only after a code from a mail was        *)
(* accepted (_reset_password, 257).                                         *)
THEOREM ResetsComeFromMails == Spec => []ResetNeedsMailedCode
<1>1. Typed /\ CodesInOrder => ResetNeedsMailedCode
  BY DEF CodesInOrder, AllEquipped, Equipped, Carries, ResetNeedsMailedCode
<1> QED
  BY <1>1, CodesStayInOrder, PTL

(* No mail of a code or a password goes out empty: a code is generated, or  *)
(* found in the row with its time, before the mail (authenticate, 447-463;  *)
(* _recover_password; _reset_password).                                     *)
THEOREM NoEmptyMails == Spec => []MailsCarryCodes
<1>1. ASSUME Typed, CodesInOrder, MailsCarryCodes, [Next]_vars
      PROVE  MailsCarryCodes'
  <2>1. ASSUME NEW kind, NEW to, NEW content, content # None,
               inbox' \in {inbox, inbox \cup
                              {[kind |-> kind, to |-> to, code |-> content]}}
        PROVE  MailsCarryCodes'
    BY <1>1, <2>1 DEF MailsCarryCodes
  <2>2. ASSUME NEW r \in Requests,
               MailChallenge(r) \/ MailCode(r) \/ MailPassword(r)
        PROVE  MailsCarryCodes'
    <3>1. Equipped(req[r], inbox)
      BY <1>1 DEF CodesInOrder, AllEquipped
    <3>2. CASE MailChallenge(r) \/ MailCode(r)
      <4>1. req[r].code # None
        BY <3>1, <3>2, NoneAssumption
        DEF MailChallenge, MailCode, At, Equipped, Carries, LoginOps
      <4>2. \/ UNCHANGED inbox
            \/ \E kind, to :
                 inbox' \in {inbox, inbox \cup
                               {[kind |-> kind, to |-> to, code |-> req[r].code]}}
        BY <3>2 DEF MailChallenge, MailCode, SendEmail
      <4> QED
        BY <1>1, <2>1, <4>1, <4>2 DEF MailsCarryCodes
    <3>3. CASE MailPassword(r)
      <4>1. req[r].new # None
        BY <3>1, <3>3 DEF MailPassword, Equipped, Carries
      <4>2. \/ UNCHANGED inbox
            \/ \E kind, to :
                 inbox' \in {inbox, inbox \cup
                               {[kind |-> kind, to |-> to, code |-> req[r].new]}}
        BY <3>3 DEF MailPassword, SendEmail
      <4> QED
        BY <1>1, <2>1, <4>1, <4>2 DEF MailsCarryCodes
    <3> QED
      BY <2>2, <3>2, <3>3
  <2>3. \/ UNCHANGED inbox
        \/ \E r \in Requests : MailChallenge(r) \/ MailCode(r) \/ MailPassword(r)
    BY <1>1 DEF Next, vars, Tick, GetSPasswordSession, Crash, IdentityStep,
           Authenticate, ChangePassword, LoadUser, CheckPassword, RecordAttempt,
           Challenge, StoreChallenge, Commit, Register, InsertLogin, ApiStep,
           ApiCall, EmailValidated, ApiWrite, CheckCode, ResetPassword,
           LifecycleStep
  <2> QED
    BY <1>1, <2>2, <2>3 DEF MailsCarryCodes
<1>2. Init => MailsCarryCodes
  BY DEF Init, MailsCarryCodes
<1> QED
  BY <1>1, <1>2, CodesStayInOrder, PTL DEF Spec

-----------------------------------------------------------------------------
(* The codes of the second factor and those of the email stay apart.        *)

EmailOps == {"ask_check_email", "recover"}

SndfaCode(c) ==
  \/ row # NoRow /\ row.sndfa_code = c
  \/ \E r \in Requests : \/ req[r].ref # NoRow /\ req[r].ref.sndfa_code = c
                         \/ req[r].op \in LoginOps /\ req[r].code = c

EmailCode(c) ==
  \/ row # NoRow /\ row.sndfa_email_code = c
  \/ \E r \in Requests : \/ req[r].ref # NoRow /\ req[r].ref.sndfa_email_code = c
                         \/ req[r].op \in EmailOps /\ req[r].code = c

Separate ==
  \A c \in Codes : SndfaCode(c) =>
    /\ ~EmailCode(c)
    /\ \A m \in inbox : m.kind \in {"email", "reset"} => m.code # c

LEMMA RefsComeFromRow ==
  ASSUME Typed, [Next]_vars, NEW r \in Requests
  PROVE  req'[r].ref \in {req[r].ref, row, NoRow}
<1>1. ASSUME NEW q \in Requests, PassesBy(q)
      PROVE  req'[r].ref \in {req[r].ref, NoRow}
  BY <1>1 DEF PassesBy, OnlyMoves
<1>2. ASSUME NEW q \in Requests, Challenge(q)
      PROVE  req'[r].ref \in {req[r].ref, NoRow}
  <2>1. \A c \in Codes : [req[q] EXCEPT !.code = c] \in Local
    BY RequestTyped DEF Local, MaybeCode
  <2>2. ASSUME NEW l \in Local, Goto(q, l, "set_user_sndfa_code")
        PROVE  req'[r].ref \in {req[r].ref, NoRow}
    BY <2>2 DEF Goto, Outcomes, Local, Typed, TypeOK
  <2> QED
    BY <1>2, <2>1, <2>2, AnswerPassesBy, <1>1 DEF Challenge
<1>3. ASSUME NEW q \in Requests, GetSPasswordSession(q)
      PROVE  req'[r].ref \in {req[r].ref, row}
  <2>1. req' = [req EXCEPT ![q] = [req[q] EXCEPT !.loaded = TRUE, !.ref = row]]
    BY <1>3 DEF GetSPasswordSession, Typed, TypeOK
  <2> QED
    BY <2>1, RequestTyped DEF Local, Typed, TypeOK
<1>4. \/ UNCHANGED req
      \/ \E q \in Requests : GetSPasswordSession(q) \/ PassesBy(q) \/ Challenge(q)
  BY IdentityPassesBy, OthersPassBy DEF Next, Tick, vars
<1> QED
  BY <1>1, <1>2, <1>3, <1>4

(* Whose code a request has after a step.                                   *)
LEMMA HeldCodes ==
  ASSUME Typed, [Next]_vars, NEW r \in Requests,
         req'[r].op \in LoginOps \cup EmailOps, req'[r].code \in Codes
  PROVE  \/ req'[r].op = req[r].op /\ req'[r].code = req[r].code
         \/ /\ req'[r].op \in LoginOps
            /\ row # NoRow /\ row.sndfa_code = req'[r].code
         \/ FreshCode(req'[r].code) /\ OnlyMoves(r)
<1>1. ASSUME NEW q \in Requests, GoesOn(q)
      PROVE  \/ req'[r].op = req[r].op /\ req'[r].code = req[r].code
             \/ /\ req'[r].op \in LoginOps
                /\ row # NoRow /\ row.sndfa_code = req'[r].code
             \/ FreshCode(req'[r].code) /\ OnlyMoves(r)
  <2>1. CASE q = r
    BY <1>1, <2>1 DEF GoesOn, Continues, Recoded, RecordAttempt, At, LoginOps,
                      EmailOps
  <2>2. CASE q # r
    BY <1>1, <2>2 DEF GoesOn, OnlyMoves
  <2> QED
    BY <2>1, <2>2
<1>2. ASSUME NEW q \in Requests, OnlyMoves(q), Starts(q) \/ ResetPassword(q)
      PROVE  \/ req'[r].op = req[r].op /\ req'[r].code = req[r].code
             \/ FreshCode(req'[r].code) /\ OnlyMoves(r)
  <2>1. CASE q = r
    BY <1>2, <2>1, NewCalls, ResetKeepsCode, NoneAssumption
    DEF NewCall, LoginOps, EmailOps
  <2>2. CASE q # r
    BY <1>2, <2>2 DEF OnlyMoves
  <2> QED
    BY <2>1, <2>2
<1> QED
  BY <1>1, <1>2, Movement

(* The column of the email code takes the code of a request that has one.   *)
LEMMA EmailColumn ==
  ASSUME Typed, [Next]_vars, row' # NoRow
  PROVE  \/ row # NoRow /\ row'.sndfa_email_code = row.sndfa_email_code
         \/ row'.sndfa_email_code = None
         \/ \E r \in Requests : /\ req[r].op \in EmailOps
                                /\ row'.sndfa_email_code = req[r].code
<1>0. row = NoRow \/ row \in Row
  BY DEF Typed, TypeOK
<1>1. ASSUME NEW r \in Requests, ApiWrite(r), row' # row
      PROVE  \/ row # NoRow /\ row'.sndfa_email_code = row.sndfa_email_code
             \/ /\ req[r].op \in EmailOps
                /\ row'.sndfa_email_code = req[r].code
  <2>1. \/ /\ row # NoRow
           /\ \/ \E e : row' = [row EXCEPT !.sndfa_email = e]
              \/ \E e : row' = [row EXCEPT !.sndfa = e]
              \/ \E e : row' = [row EXCEPT !.black = e]
        \/ /\ row # NoRow /\ req[r].op \in EmailOps
           /\ row' = [row EXCEPT !.sndfa_email_code =
                         Written(@, req[r].ref.sndfa_email_code, req[r].code),
                       !.sndfa_email = Written(@, req[r].ref.sndfa_email, FALSE)]
    BY <1>1 DEF ApiWrite, SetCheckEmailCode, CheckEmailCode, ModifySndfa,
                ModifyBlack, Flush, Skip, EmailOps
  <2> QED
    BY <1>0, <2>1 DEF Written, Row
<1>2. ASSUME NEW r \in Requests, row' # row,
             \/ StoreChallenge(r) \/ Commit(r) \/ InsertLogin(r)
             \/ CheckCode(r) \/ CallbackWrite(r)
      PROVE  \/ row # NoRow /\ row'.sndfa_email_code = row.sndfa_email_code
             \/ row'.sndfa_email_code = None
  <2>1. \/ /\ row # NoRow
           /\ \/ \E n, t : row' = [row EXCEPT !.login_attempts = n,
                                             !.last_login_attempt_time = t]
              \/ row' = WithCode(row, req[r].ref, req[r].code, now)
              \/ row' = [row EXCEPT !.sndfa_last = now]
              \/ \E n : row' = [row EXCEPT !.creation_time = now,
                                          !.login_attempts = n]
        \/ \E c, n, t : row' = NewRow(c, n, t)
    BY <1>2 DEF StoreChallenge, SetUserSndfaCode, Commit, InsertLogin, CheckCode,
                CheckSndfaCode, CallbackWrite, SetUserCreationTime,
                UpdateUserModificationTime, RenewPassword, Insert, Flush, Skip
  <2> QED
    BY <1>0, <2>1 DEF NewRow, BlankRow, WithCode, Row
<1>3. ASSUME NEW r \in Requests, RemoveUser(r, "ok") PROVE row' = row
  BY <1>3 DEF RemoveUser
<1> QED
  BY <1>1, <1>2, <1>3, Writers DEF Writes

LEMMA InUseCodes ==
  ASSUME NEW c \in Codes, SndfaCode(c) \/ EmailCode(c)
  PROVE  ~FreshCode(c)
BY DEF SndfaCode, EmailCode, FreshCode, InUse, RowCodes

LEMMA SndfaCodesGrow ==
  ASSUME Typed, [Next]_vars, NEW c \in Codes, SndfaCode(c)'
  PROVE  \/ SndfaCode(c)
         \/ /\ FreshCode(c)
            /\ \E r \in Requests : /\ OnlyMoves(r) /\ req'[r].op \in LoginOps
                                   /\ req'[r].code = c
<1>1. CASE row' # NoRow /\ row'.sndfa_code = c
  <2>1. \/ row # NoRow /\ row.sndfa_code = c
        \/ c = None
        \/ \E r \in Requests : /\ Storing(r) /\ row # NoRow
                               /\ c \in {row.sndfa_code, req[r].code}
    BY <1>1, CodeColumns DEF SndfaColumns, Written
  <2> QED
    BY <2>1, NoneAssumption DEF Storing, SndfaCode
<1>2. ASSUME NEW r \in Requests, req'[r].ref # NoRow, req'[r].ref.sndfa_code = c
      PROVE  SndfaCode(c)
  BY <1>2, RefsComeFromRow DEF SndfaCode
<1>3. ASSUME NEW r \in Requests, req'[r].op \in LoginOps, req'[r].code = c
      PROVE  \/ SndfaCode(c)
             \/ FreshCode(c) /\ OnlyMoves(r)
  BY <1>3, HeldCodes DEF SndfaCode
<1> QED
  BY <1>1, <1>2, <1>3 DEF SndfaCode

LEMMA EmailCodesGrow ==
  ASSUME Typed, [Next]_vars, NEW c \in Codes, EmailCode(c)'
  PROVE  \/ EmailCode(c)
         \/ /\ FreshCode(c)
            /\ \E r \in Requests : /\ OnlyMoves(r) /\ req'[r].op \in EmailOps
                                   /\ req'[r].code = c
<1>1. CASE row' # NoRow /\ row'.sndfa_email_code = c
  BY <1>1, EmailColumn, NoneAssumption DEF EmailCode
<1>2. ASSUME NEW r \in Requests, req'[r].ref # NoRow,
             req'[r].ref.sndfa_email_code = c
      PROVE  EmailCode(c)
  BY <1>2, RefsComeFromRow DEF EmailCode
<1>3. ASSUME NEW r \in Requests, req'[r].op \in EmailOps, req'[r].code = c
      PROVE  \/ EmailCode(c)
             \/ FreshCode(c) /\ OnlyMoves(r)
  BY <1>3, HeldCodes DEF EmailCode, LoginOps, EmailOps
<1> QED
  BY <1>1, <1>2, <1>3 DEF EmailCode

(* The mails of email verifications and recoveries carry email codes.       *)
LEMMA NewMails ==
  ASSUME Typed, [Next]_vars, NEW m \in inbox' \ inbox,
         m.kind \in {"email", "reset"}
  PROVE  EmailCode(m.code) /\ UNCHANGED row
<1>1. PICK r \in Requests : MailChallenge(r) \/ MailCode(r) \/ MailPassword(r)
  BY DEF Next, vars, Tick, GetSPasswordSession, Crash, IdentityStep,
         Authenticate, ChangePassword, LoadUser, CheckPassword, RecordAttempt,
         Challenge, StoreChallenge, Commit, Register, InsertLogin, ApiStep,
         ApiCall, EmailValidated, ApiWrite, CheckCode, ResetPassword,
         LifecycleStep
<1>2. ASSUME NEW kind, NEW to, NEW content,
             inbox' \in {inbox, inbox \cup
                            {[kind |-> kind, to |-> to, code |-> content]}}
      PROVE  m.kind = kind /\ m.code = content
  BY <1>2
<1>3. \/ \E to, content : inbox' \in
            {inbox, inbox \cup {[kind |-> "sndfa", to |-> to, code |-> content]}}
      \/ \E to, content : inbox' \in
            {inbox, inbox \cup {[kind |-> "password", to |-> to, code |-> content]}}
      \/ /\ req[r].op \in EmailOps
         /\ \E kind, to : inbox' \in
              {inbox, inbox \cup {[kind |-> kind, to |-> to, code |-> req[r].code]}}
  BY <1>1 DEF MailChallenge, MailCode, MailPassword, SendEmail, EmailOps
<1>4. req[r].op \in EmailOps /\ m.code = req[r].code
  BY <1>2, <1>3
<1> QED
  BY <1>1, <1>4 DEF EmailCode, MailChallenge, MailCode, MailPassword

LEMMA SeparateNext == Typed /\ Separate /\ [Next]_vars => Separate'
<1> SUFFICES ASSUME Typed, Separate, [Next]_vars, NEW c \in Codes, SndfaCode(c)'
             PROVE  /\ ~EmailCode(c)'
                    /\ \A m \in inbox' :
                         m.kind \in {"email", "reset"} => m.code # c
  BY DEF Separate
<1>1. ~(SndfaCode(c) /\ EmailCode(c))
  BY DEF Separate
<1>2. ~EmailCode(c)'
  <2>1. ASSUME FreshCode(c),
               NEW r \in Requests, OnlyMoves(r), req'[r].code = c,
               NEW q \in Requests, OnlyMoves(q), req'[q].code = c
        PROVE  q = r
    BY <2>1 DEF OnlyMoves, FreshCode, InUse
  <2> QED
    BY <1>1, <2>1, InUseCodes, SndfaCodesGrow, EmailCodesGrow
    DEF LoginOps, EmailOps
<1>3. ASSUME NEW m \in inbox', m.kind \in {"email", "reset"}, m.code = c
      PROVE  FALSE
  <2>1. CASE m \in inbox
    BY <1>3, <2>1, SndfaCodesGrow DEF Separate, FreshCode, InUse
  <2>2. CASE m \notin inbox
    BY <1>1, <1>3, <2>2, NewMails, SndfaCodesGrow, InUseCodes
  <2> QED
    BY <2>1, <2>2
<1> QED
  BY <1>2, <1>3

-----------------------------------------------------------------------------
(* The stamp sndfa_last says when a mailed code was last sent back.         *)

StampProved ==
  /\ row # NoRow /\ row.sndfa_last # None =>
       proved # None /\ row.sndfa_last <= proved
  /\ proved # None => proved <= now

LEMMA AcceptedIsSndfaMail ==
  ASSUME Typed, ClientCodes, Separate, NEW r \in Requests,
         req[r].op = "check_sndfa", req[r].ref # NoRow,
         req[r].ref.sndfa_code = req[r].code
  PROVE  Mailed("sndfa", req[r].code)
<1>1. req[r].ref.sndfa_code \in MaybeCode
  BY RequestTyped DEF Local, Row
<1>2. req[r].code \in KnownCodes \ {BadCode}
  BY <1>1, BoundsAssumption DEF MaybeCode, ClientCodes, Clients
<1>3. PICK m \in inbox : /\ req[r].code \in Codes /\ m.kind # "password"
                         /\ m.code = req[r].code
  BY <1>2 DEF KnownCodes
<1>4. SndfaCode(req[r].code)
  BY DEF SndfaCode
<1>5. m.kind \in {"sndfa", "email", "reset", "password"}
  BY <1>3 DEF Typed, TypeOK, Mails, MailKinds
<1> QED
  BY <1>3, <1>4, <1>5 DEF Separate, Mailed

(* sndfa_last is set to the time of an accepted code, and to nothing else.  *)
LEMMA LastColumn ==
  ASSUME Typed, [Next]_vars, row' # NoRow
  PROVE  \/ row # NoRow /\ row'.sndfa_last = row.sndfa_last
         \/ row'.sndfa_last = None
         \/ \E r \in Requests :
              /\ CheckCode(r) /\ row'.sndfa_last = now
              /\ req[r].ref # NoRow /\ req[r].ref.sndfa_code = req[r].code
<1>0. row = NoRow \/ row \in Row
  BY DEF Typed, TypeOK
<1>1. ASSUME NEW r \in Requests, CheckCode(r), row' # row
      PROVE  /\ row'.sndfa_last = now
             /\ req[r].ref # NoRow /\ req[r].ref.sndfa_code = req[r].code
  <2>1. /\ row # NoRow /\ row' = [row EXCEPT !.sndfa_last = now]
        /\ Enrolled(req[r].ref) /\ SndfaCodeAccepted(req[r].ref, req[r].code)
    BY <1>1 DEF CheckCode, CheckSndfaCode, Flush, Skip
  <2> QED
    BY <1>0, <2>1 DEF Enrolled, SndfaCodeAccepted, Row
<1>2. ASSUME NEW r \in Requests, row' # row,
             \/ StoreChallenge(r) \/ Commit(r) \/ InsertLogin(r)
             \/ ApiWrite(r) \/ CallbackWrite(r)
      PROVE  \/ row # NoRow /\ row'.sndfa_last = row.sndfa_last
             \/ row'.sndfa_last = None
  <2>1. CASE ApiWrite(r)
    <3>1. /\ row # NoRow
          /\ \/ \E c, e : row' = [row EXCEPT !.sndfa_email_code = c,
                                            !.sndfa_email = e]
             \/ \E e : row' = [row EXCEPT !.sndfa_email = e]
             \/ \E e : row' = [row EXCEPT !.sndfa = e]
             \/ \E e : row' = [row EXCEPT !.black = e]
      BY <1>2, <2>1 DEF ApiWrite, SetCheckEmailCode, CheckEmailCode,
                        ModifySndfa, ModifyBlack, Flush, Skip
    <3> QED
      BY <1>0, <3>1 DEF Row
  <2>2. CASE StoreChallenge(r) \/ Commit(r) \/ InsertLogin(r) \/ CallbackWrite(r)
    <3>1. \/ /\ row # NoRow
             /\ \/ \E n, t : row' = [row EXCEPT !.login_attempts = n,
                                               !.last_login_attempt_time = t]
                \/ row' = WithCode(row, req[r].ref, req[r].code, now)
                \/ \E n : row' = [row EXCEPT !.creation_time = now,
                                            !.login_attempts = n]
          \/ \E c, n, t : row' = NewRow(c, n, t)
      BY <1>2, <2>2 DEF StoreChallenge, SetUserSndfaCode, Commit, InsertLogin,
                        CallbackWrite, SetUserCreationTime,
                        UpdateUserModificationTime, RenewPassword, Insert,
                        Flush, Skip
    <3> QED
      BY <1>0, <3>1 DEF NewRow, BlankRow, WithCode, Row
  <2> QED
    BY <1>2, <2>1, <2>2
<1>3. ASSUME NEW r \in Requests, RemoveUser(r, "ok") PROVE row' = row
  BY <1>3 DEF RemoveUser
<1> QED
  BY <1>1, <1>2, <1>3, Writers DEF Writes

(* A code sent is only remembered at the step that compares it, and that    *)
(* step takes no time.                                                      *)
LEMMA ProvedSteps ==
  ASSUME Typed, [Next]_vars
  PROVE  \/ proved' = proved /\ now' \in Nat /\ now <= now'
         \/ /\ now' = now
            /\ \E r \in Requests :
                 /\ CheckCode(r)
                 /\ proved' = IF Mailed("sndfa", req[r].code) THEN now ELSE proved
<1>0. now \in Nat
  BY DEF Typed, TypeOK
<1>1. ASSUME NEW r \in Requests, CheckCode(r)
      PROVE  /\ now' = now
             /\ proved' = IF Mailed("sndfa", req[r].code) THEN now ELSE proved
  BY <1>1 DEF CheckCode, CheckSndfaCode
<1>2. CASE Tick
  BY <1>0, <1>2 DEF Tick, history
<1>3. ASSUME NEW r \in Requests,
             IdentityStep(r) \/ GetSPasswordSession(r) \/ Crash(r)
      PROVE  proved' = proved /\ now' = now
  BY <1>3 DEF IdentityStep, Authenticate, ChangePassword, LoadUser,
              CheckPassword, RecordAttempt, Challenge, StoreChallenge,
              MailChallenge, Commit, Register, InsertLogin,
              GetSPasswordSession, Crash, history
<1>4. ASSUME NEW r \in Requests, ApiStep(r), ~CheckCode(r)
      PROVE  proved' = proved /\ now' = now
  BY <1>4 DEF ApiStep, ApiCall, EmailValidated, ApiWrite, MailCode,
              ResetPassword, MailPassword, history
<1>5. ASSUME NEW r \in Requests, LifecycleStep(r)
      PROVE  proved' = proved /\ now' = now
  BY <1>5 DEF LifecycleStep, history
<1>6. CASE UNCHANGED vars
  BY <1>0, <1>6 DEF vars, history
<1> QED
  BY <1>0, <1>1, <1>2, <1>3, <1>4, <1>5, <1>6 DEF Next

LEMMA StampProvedNext ==
  Typed /\ ClientCodes /\ Separate /\ StampProved /\ [Next]_vars => StampProved'
<1> SUFFICES ASSUME Typed, ClientCodes, Separate, StampProved, [Next]_vars
             PROVE  StampProved'
  OBVIOUS
<1>0. /\ now \in Nat /\ proved \in Stamp
      /\ row # NoRow => row.sndfa_last \in Stamp
  BY DEF Typed, TypeOK, Row
<1>1. ASSUME NEW r \in Requests, CheckCode(r), now' = now,
             proved' = IF Mailed("sndfa", req[r].code) THEN now ELSE proved
      PROVE  StampProved'
  <2>1. \/ row' = NoRow
        \/ row # NoRow /\ row'.sndfa_last = row.sndfa_last
        \/ row'.sndfa_last = None
        \/ row'.sndfa_last = now /\ Mailed("sndfa", req[r].code)
    <3>1. \/ row' = row
          \/ /\ row # NoRow /\ row' = [row EXCEPT !.sndfa_last = now]
             /\ Enrolled(req[r].ref)
             /\ SndfaCodeAccepted(req[r].ref, req[r].code)
      BY <1>1 DEF CheckCode, CheckSndfaCode, Flush, Skip
    <3>2. ASSUME row # NoRow, row' = [row EXCEPT !.sndfa_last = now],
                 Enrolled(req[r].ref), SndfaCodeAccepted(req[r].ref, req[r].code)
          PROVE  row'.sndfa_last = now /\ Mailed("sndfa", req[r].code)
      <4>1. row'.sndfa_last = now
        BY <3>2 DEF Row, Typed, TypeOK
      <4>2. req[r].op = "check_sndfa"
        BY <1>1 DEF CheckCode
      <4> QED
        BY <3>2, <4>1, <4>2, AcceptedIsSndfaMail DEF Enrolled, SndfaCodeAccepted
    <3> QED
      BY <3>1, <3>2
  <2> QED
    BY <1>0, <1>1, <2>1, NoneAssumption DEF StampProved, Stamp
<1>2. ASSUME proved' = proved, now' \in Nat, now <= now',
             ~\E r \in Requests : CheckCode(r)
      PROVE  StampProved'
  BY <1>0, <1>2, LastColumn, NoneAssumption DEF StampProved, Stamp
<1>3. ASSUME NEW r \in Requests, CheckCode(r)
      PROVE  /\ now' = now
             /\ proved' = IF Mailed("sndfa", req[r].code) THEN now ELSE proved
  BY <1>3 DEF CheckCode, CheckSndfaCode
<1> QED
  BY <1>1, <1>2, <1>3, ProvedSteps

LEMMA ChallengeMovesOnly ==
  ASSUME Typed, NEW r \in Requests, Challenge(r) \/ GetSPasswordSession(r)
  PROVE  OnlyMoves(r)
BY DEF Challenge, GetSPasswordSession, Goto, Answer, OnlyMoves, Typed, TypeOK

(* A login that comes to have a token was judged by RecordAttempt.          *)
LEMMA TokenIsGranted ==
  ASSUME Typed, AllEquipped, Next, NEW r \in Requests,
         req[r].pc = "record", req'[r].token, row # NoRow
  PROVE  Granted(row, now)
<1>0. ~req[r].token
  BY DEF AllEquipped, Equipped, Carries
<1>1. CASE RecordAttempt(r)
  <2> DEFINE l == [req[r] EXCEPT !.at = now, !.tries = row.login_attempts]
             t == [l EXCEPT !.token = Granted(row, now)]
             c == [l EXCEPT !.code = row.sndfa_code]
  <2>0. req[r] \in Local /\ row \in Row /\ now \in Nat
    BY RequestTyped DEF Typed, TypeOK
  <2>1. \/ \E next \in {"commit", "challenge"} : Goto(r, l, next)
        \/ Goto(r, t, "commit")
        \/ Goto(r, c, "mail")
    BY <1>1 DEF RecordAttempt
  <2>2. l \in Local /\ l.token = req[r].token
    BY <2>0 DEF Local, Row
  <2> HIDE DEF l
  <2>3. Granted(row, now) \in BOOLEAN /\ row.sndfa_code \in MaybeCode
    BY <2>0 DEF Granted, Row
  <2>5. /\ t \in Local /\ t.token = Granted(row, now)
        /\ c \in Local /\ c.token = l.token
    BY <2>2, <2>3 DEF Local
  <2> HIDE DEF t, c
  <2>4. ASSUME NEW m \in Local, NEW next \in {"commit", "challenge", "mail"},
               Goto(r, m, next)
        PROVE  req'[r].token = m.token
    BY <2>4 DEF Goto, Outcomes, Local, Typed, TypeOK
  <2> QED
    BY <1>0, <2>1, <2>2, <2>4, <2>5
<1>2. CASE Crash(r)
  BY <1>2 DEF Crash, Answer, Answered, Idle, Typed, TypeOK
<1>3. ASSUME NEW q \in Requests,
             \/ GetSPasswordSession(q) \/ IdentityStep(q) \/ ApiStep(q)
             \/ LifecycleStep(q) \/ Crash(q)
      PROVE  q = r
  <2>1. OnlyMoves(q)
    BY <1>3, ChallengeMovesOnly, IdentityPassesBy, OthersPassBy DEF PassesBy
  <2> QED
    BY <1>0, <2>1 DEF OnlyMoves
<1>4. ASSUME GetSPasswordSession(r) \/ ApiStep(r) \/ LifecycleStep(r)
      PROVE  FALSE
  BY <1>4 DEF GetSPasswordSession, ApiStep, ApiCall, AskCheckEmail, CheckEmail,
       AskModifySndfa, CheckSndfa, AskModifyBlack, Recover, Reset, Call, Free,
       Outcomes, Methods, EmailValidated, ApiWrite, SetCheckEmailCode,
       CheckEmailCode, ModifySndfa, ModifyBlack, CheckCode, CheckSndfaCode,
       Writing, MailCode, ResetPassword, MailPassword, LifecycleStep,
       CreateUser, UpdateUser, ScimUpdateUser, ChangeUser, DeleteUser, Arrive,
       StorePassword, Callback, CallbackWrite, SetUserCreationTime,
       UpdateUserModificationTime, RemoveUser
<1>5. ASSUME IdentityStep(r) PROVE RecordAttempt(r)
  BY <1>5 DEF IdentityStep, Authenticate, ChangePassword, Free, Outcomes, LoadUser,
       CheckPassword, Challenge, StoreChallenge, MailChallenge, Commit,
       Register, InsertLogin, At
<1>6. CASE Tick
  BY <1>0, <1>6 DEF Tick
<1> QED
  BY <1>1, <1>2, <1>3, <1>4, <1>5, <1>6 DEF Next

(* With second factor on, a right password is worth a token only when a     *)
(* code mailed to the user as a second factor came back less than Window    *)
(* ago (authenticate, 432-441; check_sndfa_code, 273-277).                  *)
THEOREM TokensNeedMailedCodes == Spec => TokenNeedsMailedCode
<1> DEFINE IInv == CodesInOrder /\ Separate /\ StampProved
<1>1. Init => Separate /\ StampProved
  <2>1. Init => row = NoRow \/ row = NewRow(0, 0, None)
    BY DEF Init
  <2>2. /\ NewRow(0, 0, None).sndfa_code = None
        /\ NewRow(0, 0, None).sndfa_last = None
    BY DEF NewRow, BlankRow
  <2>3. Init => \A c \in Codes : ~SndfaCode(c)
    BY <2>1, <2>2, NoneAssumption DEF Init, Idle, SndfaCode, LoginOps
  <2> QED
    BY <2>1, <2>2, <2>3 DEF Init, Separate, StampProved
<1>2. Typed /\ CodesInOrder /\ Separate /\ StampProved /\ [Next]_vars
        => (Separate /\ StampProved)'
  BY SeparateNext, StampProvedNext DEF CodesInOrder
<1>3. Typed /\ CodesInOrder /\ StampProved /\ [Next]_vars =>
        [\A r \in Requests :
           /\ req[r].pc = "record" /\ req'[r].token
           /\ row # NoRow /\ NeedsSecondFactor(row)
           => proved # None /\ proved + Window > now]_vars
  <2> SUFFICES ASSUME Typed, CodesInOrder, StampProved, Next,
                      NEW r \in Requests,
                      req[r].pc = "record", req'[r].token,
                      row # NoRow, NeedsSecondFactor(row)
               PROVE  proved # None /\ proved + Window > now
    BY DEF vars
  <2>0. /\ now \in Nat /\ proved \in Stamp /\ row \in Row /\ Window \in Nat
        /\ req \in [Requests -> Local]
    BY SettingsAssumption DEF Typed, TypeOK
  <2>1. SecondFactorFresh(row, now)
    BY TokenIsGranted DEF CodesInOrder, Granted
  <2> QED
    BY <2>0, <2>1, NoneAssumption DEF SecondFactorFresh, StampProved, Stamp, Row
<1> QED
  BY <1>1, <1>2, <1>3, CodesStayInOrder, PTL DEF Spec, TokenNeedsMailedCode
=============================================================================
