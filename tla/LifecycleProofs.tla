--------------------------- MODULE LifecycleProofs ---------------------------
(***************************************************************************)
(* Theorems about the row of a user who is created, changed and deleted:    *)
(* who may remove it, and how long the password lasts.                      *)
(***************************************************************************)
EXTENDS SPasswordProofs

-----------------------------------------------------------------------------
(* A write keeps the row there is. *)
LEMMA WritesKeepRow ==
  ASSUME Typed, NEW r \in Requests, Writes(r), row # NoRow
  PROVE  row' # NoRow
<1>1. req[r].op \in Generating => req[r].code \in MaybeCode
  BY RequestTyped
<1>2. CASE StoreChallenge(r)
  BY <1>1, <1>2, SetUserSndfaCodeType
  DEF StoreChallenge, At, Generating, RowKept, PCs, HandlerSteps, Typed
<1>3. CASE Commit(r)
  <2> DEFINE new == [row EXCEPT !.login_attempts =
                         Written(@, req[r].tries, Count(req[r].right, req[r].tries)),
                       !.last_login_attempt_time = req[r].at]
  <2>1. req[r].at \in Nat /\ Count(req[r].right, req[r].tries) \in Nat
    BY RequestTyped DEF Count, Local
  <2>2. new \in Row
    BY <2>1, WrittenType DEF Typed, TypeOK, Row, Stamp
  <2>3. row' \in {row, new}
    BY <1>3 DEF Commit, Flush
  <2> QED
    BY <2>2, <2>3, NoRowAssumption
<1>4. CASE InsertLogin(r)
  BY <1>4 DEF InsertLogin, Insert
<1>5. CASE ApiWrite(r)
  <2>1. /\ {"mail", "check_email_code", "ok", "unauthorized", "update_user"}
             \subseteq PCs
        /\ RecoverGoesOn \in PCs
    BY DEF PCs, Methods, HandlerSteps, Outcomes, RecoverGoesOn
  <2> QED
    BY <1>1, <1>5, <2>1, SetCheckEmailCodeType, CheckEmailCodeType,
       ModifySndfaType, ModifyBlackType DEF ApiWrite, Generating, RowKept, Typed
<1>6. CASE CheckCode(r)
  BY <1>6, CheckSndfaCodeType DEF CheckCode, RowKept, PCs, Outcomes, Typed
<1>7. CASE CallbackWrite(r)
  <2>1. {"ok", "mail"} \subseteq PCs
    BY DEF PCs, Outcomes, HandlerSteps
  <2> QED
    BY <1>7, <2>1, RenewType
    DEF CallbackWrite, SetUserCreationTime, UpdateUserModificationTime, RowKept,
        Typed
<1> QED
  BY <1>2, <1>3, <1>4, <1>5, <1>6, <1>7 DEF Writes

-----------------------------------------------------------------------------
(* A request removes the row, or runs a callback, only once Keystone has    *)
(* changed the user.                                                        *)

Callbacks == {"user_created_callback", "user_updated_callback",
              "set_user_creation_time", "update_user_modification_time"}

Timely(l, status) == /\ l.pc = "remove_user" => status = "deleted"
                     /\ l.pc \in Callbacks => status # "absent"

InOrder == \A r \in Requests : Timely(req[r], user.status)

StaysTimely(r) == /\ \A q \in Requests \ {r} : req'[q] = req[q]
                  /\ Timely(req'[r], user'.status)

LEMMA GotoTimely ==
  ASSUME Typed, NEW r \in Requests, NEW l \in Local, NEW next, Goto(r, l, next),
         next = "remove_user" => user'.status = "deleted",
         next \in Callbacks => user'.status # "absent"
  PROVE  StaysTimely(r)
<1>1. req \in [Requests -> Local]
  BY DEF Typed, TypeOK
<1>2. CASE next \in Outcomes
  BY <1>1, <1>2 DEF Goto, Answered, Idle, Outcomes, Callbacks, Timely, StaysTimely
<1>3. CASE next \notin Outcomes
  BY <1>1, <1>3 DEF Goto, Local, Timely, StaysTimely
<1> QED
  BY <1>2, <1>3

LEMMA AnswerTimely ==
  ASSUME Typed, NEW r \in Requests, NEW o \in Outcomes, Answer(r, o)
  PROVE  StaysTimely(r)
BY DEF Answer, Answered, Idle, Outcomes, Callbacks, Timely, StaysTimely, Typed,
       TypeOK

(* A write that goes on to neither, or a query, which leaves pc alone.      *)
LEMMA SessionTimely ==
  ASSUME Typed, InOrder, NEW r \in Requests, GetSPasswordSession(r)
  PROVE  StaysTimely(r)
<1>1. req' = [req EXCEPT ![r] = [req[r] EXCEPT !.loaded = TRUE, !.ref = row]]
  BY DEF GetSPasswordSession, Typed, TypeOK
<1>2. req[r] \in Local /\ req \in [Requests -> Local] /\ user' = user
  BY RequestTyped DEF Typed, TypeOK, GetSPasswordSession
<1> QED
  BY <1>1, <1>2 DEF InOrder, Timely, StaysTimely, Local

LEMMA IdentityTimely ==
  ASSUME Typed, NEW r \in Requests, IdentityStep(r)
  PROVE  StaysTimely(r)
<1> DEFINE Plain(next) == next \notin Callbacks \cup {"remove_user"}
           Moves == \/ \E l \in Local : \E next : Plain(next) /\ Goto(r, l, next)
                    \/ \E o \in Outcomes : Answer(r, o)
<1> SUFFICES Moves
  BY GotoTimely, AnswerTimely
<1>0. req[r] \in Local
  BY RequestTyped
<1>1. \A next \in {"user", "error", "blocked", "expired", "unauthorized",
                   "password", "record", "register", "commit", "challenge",
                   "mail", "insert", "ok", "set_user_sndfa_code", "not_found",
                   "change"} : Plain(next)
  BY DEF Callbacks
<1> HIDE DEF Plain
<1>2. ASSUME NEW login \in Local, BlockCheck(r, login) PROVE Moves
  <2>1. \E next \in {"user", "error", "blocked"} : Goto(r, login, next)
    BY <1>2 DEF BlockCheck
  <2> QED
    BY <1>1, <2>1
<1>3. CASE \/ \E pw \in Passwords : Authenticate(r, pw)
           \/ \E pw, new \in Passwords : ChangePassword(r, pw, new)
  <2>1. \A pw, new \in Passwords :
          /\ [Idle EXCEPT !.op = "authenticate", !.password = pw] \in Local
          /\ [Idle EXCEPT !.op = "change_password", !.password = pw,
                          !.new = new] \in Local
    BY LoginLocal
  <2>2. "bad_request" \in Outcomes
    BY DEF Outcomes
  <2> QED
    BY <1>2, <1>3, <2>1, <2>2 DEF Authenticate, ChangePassword
<1>4. CASE LoadUser(r) \/ CheckPassword(r) \/ Register(r)
  <2>1. /\ [req[r] EXCEPT !.right =
              UserExists /\ req[r].password = user.password] \in Local
        /\ [req[r] EXCEPT !.token = req[r].right] \in Local
    BY <1>0, JudgedLocal
  <2>2. \E l \in Local, next \in {"password", "record", "expired", "insert",
                                  "not_found"} : Goto(r, l, next)
    BY <1>0, <1>4, <2>1 DEF LoadUser, CheckPassword, Register
  <2> QED
    BY <1>1, <2>2
<1>5. CASE RecordAttempt(r)
  <2> DEFINE n == IF row = NoRow THEN 0 ELSE row.login_attempts
             l == [req[r] EXCEPT !.at = now, !.tries = n]
             t == [l EXCEPT !.token = Granted(row, now)]
             c == [l EXCEPT !.code = row.sndfa_code]
  <2>1. n \in Nat /\ now \in Nat /\ Granted(row, now) \in BOOLEAN
    BY DEF Typed, TypeOK, Row, Granted
  <2>2. row # NoRow => row.sndfa_code \in MaybeCode
    BY DEF Row, Typed, TypeOK
  <2>3. \/ \E next \in {"register", "commit", "challenge"} : Goto(r, l, next)
        \/ Goto(r, t, "commit")
        \/ row # NoRow /\ Goto(r, c, "mail")
    BY <1>5 DEF RecordAttempt
  <2> HIDE DEF n
  <2>4. l \in Local
    BY <1>0, <2>1 DEF Local
  <2> HIDE DEF l
  <2>5. t \in Local /\ (row # NoRow => c \in Local)
    BY <2>1, <2>2, <2>4 DEF Local
  <2> QED
    BY <1>1, <2>3, <2>4, <2>5
<1>6. CASE Challenge(r)
  <2>1. \A c \in Codes : [req[r] EXCEPT !.code = c] \in Local
    BY <1>0 DEF Local, MaybeCode
  <2> QED
    BY <1>1, <1>6, <2>1 DEF Challenge, Outcomes
<1>7. CASE StoreChallenge(r) \/ MailChallenge(r)
  <2>1. \/ \E next \in {"mail", "commit", "error"} : Goto(r, req[r], next)
        \/ \E o \in {"error", "not_found"} : Answer(r, o)
    BY <1>7 DEF StoreChallenge, SetUserSndfaCode, Flush, Skip, MailChallenge,
                SendEmail
  <2> QED
    BY <1>0, <1>1, <2>1 DEF Outcomes
<1>8. CASE Commit(r) \/ InsertLogin(r)
  <2>1. \/ \E next \in {"ok", "change", "unauthorized"} : Goto(r, req[r], next)
        \/ Answer(r, "error")
    BY <1>8 DEF Commit, InsertLogin, Flush, Insert, Answering, Granting
  <2> QED
    BY <1>0, <1>1, <2>1 DEF Outcomes
<1> QED
  BY <1>3, <1>4, <1>5, <1>6, <1>7, <1>8 DEF IdentityStep

LEMMA ApiTimely ==
  ASSUME Typed, InOrder, NEW r \in Requests, ApiStep(r)
  PROVE  StaysTimely(r)
<1> DEFINE Plain(next) == next \notin Callbacks \cup {"remove_user"}
<1>0. req[r] \in Local
  BY RequestTyped
<1>1. \A next \in {"set_check_email_code", "check_email_code", "validated",
                   "modify_sndfa", "modify_black", "check_sndfa_code", "mail",
                   "update_user"} \cup Outcomes : Plain(next)
  BY DEF Callbacks, Outcomes
<1> HIDE DEF Plain
<1>2. CASE ApiCall(r)
  <2>1. \E op \in APIOps, c \in MaybeCode \cup {BadCode}, enable \in BOOLEAN :
          \E next : Plain(next) /\ Call(r, op, c, enable, next)
    <3>1. /\ Codes \cup KnownCodes \cup {None} \subseteq MaybeCode \cup {BadCode}
          /\ {"ask_check_email", "check_email", "modify_sndfa", "check_sndfa",
              "modify_black", "recover", "reset"} \subseteq APIOps
      BY KnownCodesType DEF MaybeCode, APIOps
    <3>2. \A first \in {"set_check_email_code", "check_email_code", "validated",
                        "modify_black"} :
            /\ Plain(first)
            /\ Plain(GetUser(EmailDefined(first)))
            /\ Plain(GetUser(first))
            /\ Plain(Configured(GetUser(first)))
            /\ Plain(Configured(GetUser(EmailDefined(first))))
      BY <1>1 DEF Configured, GetUser, EmailDefined, Outcomes
    <3>3. CASE AskCheckEmail(r) \/ CheckEmail(r) \/ AskModifySndfa(r)
      BY <3>1, <3>2, <3>3 DEF AskCheckEmail, CheckEmail, AskModifySndfa
    <3>4. CASE CheckSndfa(r) \/ AskModifyBlack(r) \/ Recover(r) \/ Reset(r)
      BY <3>1, <3>2, <3>4 DEF CheckSndfa, AskModifyBlack, Recover, Reset
    <3> QED
      BY <1>2, <3>3, <3>4 DEF ApiCall
  <2>0. PICK op \in APIOps, c \in MaybeCode \cup {BadCode}, enable \in BOOLEAN :
          \E next : Plain(next) /\ Call(r, op, c, enable, next)
    BY <2>1
  <2>2. PICK next : Plain(next) /\ Call(r, op, c, enable, next)
    BY <2>0
  <2> DEFINE l == [Idle EXCEPT !.op = op, !.code = c, !.enable = enable,
                               !.email = user.email]
  <2>3. l \in Local
    BY CallLocal DEF Typed, TypeOK, User
  <2>4. Goto(r, l, next)
    BY <2>2 DEF Call
  <2> HIDE DEF l
  <2> QED
    BY <2>2, <2>3, <2>4, GotoTimely DEF Plain
<1>3. CASE EmailValidated(r)
  <2>1. \A c \in Codes : [req[r] EXCEPT !.code = c] \in Local
    BY <1>0 DEF Local, MaybeCode
  <2>2. \/ \E l \in Local, next \in {"modify_sndfa", "check_sndfa_code",
                                     "set_check_email_code"} : Goto(r, l, next)
        \/ Answer(r, "unauthorized")
    BY <1>0, <1>3, <2>1 DEF EmailValidated
  <2> QED
    BY <1>1, <2>2, GotoTimely, AnswerTimely DEF Plain, Outcomes
<1>4. CASE ApiWrite(r) \/ CheckCode(r) \/ MailCode(r) \/ MailPassword(r)
  <2>1. \/ \E next \in {"mail", "check_email_code", "ok", "unauthorized",
                        "bad_request", "update_user", "error"} :
             Goto(r, req[r], next)
        \/ Answer(r, "error")
    BY <1>4 DEF ApiWrite, CheckCode, MailCode, MailPassword, SetCheckEmailCode,
                CheckEmailCode, ModifySndfa, ModifyBlack, CheckSndfaCode,
                SendEmail, Flush, Skip, RecoverGoesOn
  <2> QED
    BY <1>0, <1>1, <2>1, GotoTimely, AnswerTimely DEF Plain, Outcomes
<1>5. CASE ResetPassword(r)
  <2>1. \A pw \in Passwords : [req[r] EXCEPT !.new = pw] \in Local
    BY <1>0 DEF Local
  <2>2. CASE UserExists
    <3>1. user'.status # "absent"
      BY <1>5, <2>2 DEF ResetPassword, UserExists, Typed, TypeOK, User
    <3> QED
      BY <1>5, <2>1, <2>2, <3>1, GotoTimely DEF ResetPassword
  <2>3. CASE ~UserExists
    BY <1>5, <2>3, AnswerTimely DEF ResetPassword, Outcomes
  <2> QED
    BY <2>2, <2>3
<1> QED
  BY <1>2, <1>3, <1>4, <1>5 DEF ApiStep

LEMMA LifecycleTimely ==
  ASSUME Typed, InOrder, NEW r \in Requests, LifecycleStep(r)
  PROVE  StaysTimely(r)
<1>0. req[r] \in Local /\ user \in User
  BY RequestTyped DEF Typed, TypeOK
<1>1. ASSUME NEW op \in APIOps, NEW pc, Arrive(r, op, pc),
             pc = "remove_user" => user'.status = "deleted",
             pc \in Callbacks => user'.status # "absent"
      PROVE  StaysTimely(r)
  <2>1. [Idle EXCEPT !.op = op] \in Local
    BY ArriveLocal
  <2> QED
    BY <1>1, <2>1, GotoTimely DEF Arrive
<1>2. CASE CreateUser(r)
  <2>1. \/ user'.status = "present" /\ Arrive(r, "create_user", "user_created_callback")
        \/ Arrive(r, "create_user", "bad_request")
    BY <1>2 DEF CreateUser
  <2> QED
    BY <1>1, <2>1 DEF Callbacks, APIOps
<1>3. ASSUME NEW refused \in {"unauthorized", "bad_request"},
             ChangeUser(r, refused)
      PROVE  StaysTimely(r)
  <2>1. /\ user'.status = "present"
        /\ \/ Arrive(r, "update_user", "user_updated_callback")
           \/ Arrive(r, "update_user", refused)
    BY <1>0, <1>3 DEF ChangeUser, UserExists, User
  <2> QED
    BY <1>1, <2>1 DEF Callbacks, APIOps
<1>4. CASE DeleteUser(r)
  <2>1. user'.status = "deleted"
    BY <1>0, <1>4 DEF DeleteUser, User
  <2> QED
    BY <1>1, <1>4, <2>1 DEF DeleteUser, APIOps
<1>5. CASE StorePassword(r)
  <2>1. UserExists => user'.status = "present"
    BY <1>0, <1>5 DEF StorePassword, UserExists, User
  <2> QED
    BY <1>0, <1>5, <2>1, GotoTimely, AnswerTimely DEF StorePassword, Outcomes
<1>6. ASSUME NEW callback \in Callbacks,
             NEW method \in {"set_user_creation_time",
                             "update_user_modification_time"},
             Callback(r, callback, method), UNCHANGED user
      PROVE  StaysTimely(r)
  <2>1. user.status # "absent" /\ method # "remove_user"
    BY <1>6 DEF Callback, InOrder, Timely
  <2>2. \E next \in {method, "not_found"} : Goto(r, req[r], next)
    BY <1>6 DEF Callback
  <2> QED
    BY <1>0, <1>6, <2>1, <2>2, GotoTimely DEF Callbacks
<1>7. CASE CallbackWrite(r) \/ RemoveUser(r, "ok")
  <2>1. (\E next \in {"ok", "mail"} : Goto(r, req[r], next)) \/ Answer(r, "error")
    BY <1>7 DEF CallbackWrite, SetUserCreationTime, UpdateUserModificationTime,
                RenewPassword, Insert, Flush, RemoveUser
  <2> QED
    BY <1>0, <2>1, GotoTimely, AnswerTimely DEF Callbacks, Outcomes
<1> QED
  BY <1>2, <1>3, <1>4, <1>5, <1>6, <1>7
  DEF LifecycleStep, UpdateUser, ScimUpdateUser, Callbacks

(* The steps that write the row of table User. *)
LEMMA UserWriters ==
  ASSUME [Next]_vars
  PROVE  \/ UNCHANGED user
         \/ \E r \in Requests : \/ CreateUser(r) \/ UpdateUser(r) \/ ScimUpdateUser(r)
                                \/ DeleteUser(r) \/ StorePassword(r) \/ ResetPassword(r)
BY DEF Next, vars, Tick, GetSPasswordSession, Crash, IdentityStep, Authenticate,
          ChangePassword, LoadUser, CheckPassword, RecordAttempt, Challenge,
          StoreChallenge, MailChallenge, Commit, Register, InsertLogin, ApiStep,
          ApiCall, EmailValidated, ApiWrite, CheckCode, MailCode, MailPassword,
          LifecycleStep

(* An id goes from absent to present to deleted.                            *)
LEMMA StatusOrder ==
  ASSUME Typed, [Next]_vars
  PROVE  \/ user'.status = user.status
         \/ user.status = "absent" /\ user'.status = "present"
         \/ user.status = "present" /\ user'.status = "deleted"
<1>1. user \in User
  BY DEF Typed, TypeOK
<1>2. ASSUME NEW r \in Requests,
             \/ CreateUser(r) \/ UpdateUser(r) \/ ScimUpdateUser(r)
             \/ DeleteUser(r) \/ StorePassword(r) \/ ResetPassword(r)
      PROVE  \/ user'.status = user.status
             \/ user.status = "absent" /\ user'.status = "present"
             \/ user.status = "present" /\ user'.status = "deleted"
  <2>1. CASE CreateUser(r)
    BY <2>1 DEF CreateUser
  <2>2. CASE \E refused : ChangeUser(r, refused)
    BY <1>1, <2>2 DEF ChangeUser, User
  <2>3. CASE DeleteUser(r)
    BY <1>1, <2>3 DEF DeleteUser, UserExists, User
  <2>4. CASE StorePassword(r) \/ ResetPassword(r)
    BY <1>1, <2>4 DEF StorePassword, ResetPassword, User
  <2> QED
    BY <1>2, <2>1, <2>2, <2>3, <2>4 DEF UpdateUser, ScimUpdateUser
<1> QED
  BY <1>2, UserWriters

LEMMA OrderNext == Typed /\ InOrder /\ [Next]_vars => InOrder'
<1> SUFFICES ASSUME Typed, InOrder, [Next]_vars PROVE InOrder'
  OBVIOUS
<1>1. \A q \in Requests : Timely(req[q], user'.status)
  BY StatusOrder DEF InOrder, Timely
<1>2. ASSUME NEW r \in Requests, Crash(r) PROVE StaysTimely(r)
  BY <1>2, AnswerTimely DEF Crash, Outcomes
<1>3. UNCHANGED req \/ \E r \in Requests : StaysTimely(r)
  BY <1>2, SessionTimely, IdentityTimely, ApiTimely, LifecycleTimely
  DEF Next, vars, Tick
<1> QED
  BY <1>1, <1>3 DEF InOrder, StaysTimely

LEMMA InitOrder == Init => InOrder
BY DEF Init, Idle, InOrder, Timely, Callbacks

LEMMA OnlyDeletedLose ==
  ASSUME Typed, InOrder, [Next]_vars, user.status # "deleted", row # NoRow
  PROVE  row' # NoRow
<1>1. ASSUME NEW r \in Requests, RemoveUser(r, "ok") PROVE FALSE
  BY <1>1 DEF RemoveUser, Writing, InOrder, Timely
<1> QED
  BY <1>1, Writers, WritesKeepRow

(* No interleaving removes the row of a user who exists, and with it the    *)
(* enrolment and the count of tries (user_deleted_callback, remove_user).   *)
THEOREM PresentUserKeepsItsRow == Spec => PresentUserKeepsRow
<1>1. Typed /\ InOrder /\ [Next]_vars =>
        [user.status = "present" /\ row # NoRow => row' # NoRow]_vars
  BY OnlyDeletedLose
<1> QED
  BY <1>1, InitOrder, OrderNext, TypeCorrect, PTL DEF Spec, PresentUserKeepsRow

-----------------------------------------------------------------------------
(* How long the password lasts: nothing but a renewal moves creation_time.  *)

LEMMA WritesKeepCreation ==
  ASSUME Typed, NEW r \in Requests, Writes(r), row # NoRow
  PROVE  row'.creation_time \in {row.creation_time, now}
<1>0. row \in Row
  BY DEF Typed, TypeOK
<1>1. CASE StoreChallenge(r)
  <2>1. row' \in {row, WithCode(row, req[r].ref, req[r].code, now)}
    BY <1>1 DEF StoreChallenge, SetUserSndfaCode, Flush, Skip
  <2> QED
    BY <1>0, <2>1 DEF WithCode, Row
<1>2. CASE Commit(r) \/ InsertLogin(r)
  <2>1. \/ row' = row
        \/ row' = [row EXCEPT !.login_attempts =
                       Written(@, req[r].tries, Count(req[r].right, req[r].tries)),
                     !.last_login_attempt_time = req[r].at]
    BY <1>2 DEF Commit, InsertLogin, Insert, Flush
  <2> QED
    BY <1>0, <2>1 DEF Row
<1>3. CASE ApiWrite(r)
  <2>1. CASE \E next : SetCheckEmailCode(r, next)
    <3>1. \/ row' = row
          \/ \E c, checked : row' = [row EXCEPT !.sndfa_email_code = c,
                                               !.sndfa_email = checked]
      BY <2>1 DEF SetCheckEmailCode, Flush, Skip
    <3> QED
      BY <1>0, <3>1 DEF Row
  <2>2. CASE \E yes, no : CheckEmailCode(r, yes, no)
    <3>1. \/ row' = row
          \/ \E checked : row' = [row EXCEPT !.sndfa_email = checked]
      BY <2>2 DEF CheckEmailCode, Flush, Skip
    <3> QED
      BY <1>0, <3>1 DEF Row
  <2>3. CASE ModifySndfa(r, "ok") \/ ModifyBlack(r, "ok")
    <3>1. \/ row' = row
          \/ row' = [row EXCEPT !.sndfa = req[r].enable]
          \/ row' = [row EXCEPT !.black = req[r].enable]
      BY <2>3 DEF ModifySndfa, ModifyBlack, Flush, Skip
    <3> QED
      BY <1>0, <3>1 DEF Row
  <2> QED
    BY <1>3, <2>1, <2>2, <2>3 DEF ApiWrite
<1>4. CASE CheckCode(r)
  <2>1. row' \in {row, [row EXCEPT !.sndfa_last = now]}
    BY <1>4 DEF CheckCode, CheckSndfaCode, Flush, Skip
  <2> QED
    BY <1>0, <2>1 DEF Row
<1>5. CASE CallbackWrite(r)
  <2>1. \/ row' = row
        \/ \E n : row' = [row EXCEPT !.creation_time = now, !.login_attempts = n]
    BY <1>5 DEF CallbackWrite, SetUserCreationTime, UpdateUserModificationTime,
                RenewPassword, Insert, Flush
  <2> QED
    BY <1>0, <2>1 DEF Row
<1> QED
  BY <1>1, <1>2, <1>3, <1>4, <1>5 DEF Writes

(* A callback that did not fail has renewed the password.                   *)
LEMMA CallbackRenews ==
  ASSUME Typed, NEW r \in Requests, CallbackWrite(r), req'[r].pc # "error"
  PROVE  row' # NoRow /\ row'.creation_time = now
<1> DEFINE new == NewRow(now, 0, None)
           again == [row EXCEPT !.creation_time = now,
                                !.login_attempts =
                                   Written(@, req[r].ref.login_attempts, 0)]
<1>1. \E next : Insert(r, new, next) \/ Flush(r, TRUE, again, next)
  BY DEF CallbackWrite, SetUserCreationTime, UpdateUserModificationTime,
         RenewPassword
<1>2. new # NoRow /\ new.creation_time = now
  <2>1. new \in Row
    BY NewRowType DEF Typed, TypeOK, Stamp
  <2>2. new.creation_time = now
    BY DEF NewRow, BlankRow
  <2> QED
    BY <2>1, <2>2, NoRowAssumption
<1>3. row # NoRow => again # NoRow /\ again.creation_time = now
  <2>1. row # NoRow => again \in Row
    BY WrittenType DEF Typed, TypeOK, Row
  <2> QED
    BY <2>1, NoRowAssumption DEF Typed, TypeOK, Row
<1>4. ~Answer(r, "error")
  BY DEF Answer, Answered, Idle, Typed, TypeOK
<1> HIDE DEF new, again
<1> QED
  BY <1>1, <1>2, <1>3, <1>4 DEF Insert, Flush

Renewals ==
  /\ user.status = "absent" => renewed = None
  /\ renewed # None => renewed <= now
  /\ UserExists /\ renewed # None => row # NoRow /\ renewed <= row.creation_time

LEMMA RenewalsNext == Typed /\ InOrder /\ Renewals /\ [Next]_vars => Renewals'
<1> SUFFICES ASSUME Typed, InOrder, Renewals, [Next]_vars PROVE Renewals'
  OBVIOUS
<1>1. /\ now \in Nat /\ (renewed # None => renewed \in Nat)
      /\ (row # NoRow => row.creation_time \in Nat)
  BY DEF Typed, TypeOK, Stamp, Row
<1>2. now' \in Nat /\ now <= now'
  <2>1. UNCHANGED now \/ now' = now + 1
    BY DEF Next, vars, Tick, GetSPasswordSession, Crash, IdentityStep,
           Authenticate, ChangePassword, LoadUser, CheckPassword, RecordAttempt,
           Challenge, StoreChallenge, MailChallenge, Commit, Register,
           InsertLogin, ApiStep, ApiCall, EmailValidated, ApiWrite, CheckCode,
           MailCode, ResetPassword, MailPassword, LifecycleStep
  <2> QED
    BY <1>1, <2>1
<1>3. CASE UNCHANGED renewed
  <2>1. user'.status = "absent" => user.status = "absent"
    BY StatusOrder
  <2>2. UserExists' /\ renewed # None =>
          /\ UserExists /\ row # NoRow /\ row' # NoRow
          /\ row'.creation_time \in {row.creation_time, now}
    <3> SUFFICES ASSUME UserExists', renewed # None
                 PROVE  /\ UserExists /\ row # NoRow /\ row' # NoRow
                        /\ row'.creation_time \in {row.creation_time, now}
      OBVIOUS
    <3>1. UserExists
      BY StatusOrder DEF Renewals, UserExists
    <3>2. row # NoRow /\ row' # NoRow
      BY <3>1, OnlyDeletedLose DEF Renewals, UserExists
    <3>3. ASSUME NEW r \in Requests, RemoveUser(r, "ok") PROVE FALSE
      BY <3>1, <3>3 DEF RemoveUser, Writing, InOrder, Timely, UserExists
    <3> QED
      BY <3>1, <3>2, <3>3, Writers, WritesKeepCreation
  <2> QED
    BY <1>1, <1>2, <1>3, <2>1, <2>2 DEF Renewals
<1>4. ASSUME NEW r \in Requests, CallbackWrite(r), req'[r].pc # "error",
             renewed' = now, UNCHANGED <<now, user>>
      PROVE  Renewals'
  <2>1. user.status # "absent"
    BY <1>4 DEF CallbackWrite, SetUserCreationTime, UpdateUserModificationTime,
                Writing, InOrder, Timely, Callbacks
  <2>2. row' # NoRow /\ row'.creation_time = now
    BY <1>4, CallbackRenews
  <2> QED
    BY <1>1, <1>4, <2>1, <2>2 DEF Renewals
<1>5. \/ UNCHANGED renewed
      \/ \E r \in Requests : /\ CallbackWrite(r) /\ req'[r].pc # "error"
                             /\ renewed' = now /\ UNCHANGED <<now, user>>
  <2>1. ASSUME NEW r \in Requests, LifecycleStep(r)
        PROVE  \/ UNCHANGED renewed
               \/ /\ CallbackWrite(r) /\ req'[r].pc # "error"
                  /\ renewed' = now /\ UNCHANGED <<now, user>>
    BY <2>1 DEF LifecycleStep, history
  <2>2. ASSUME NEW r \in Requests, IdentityStep(r) PROVE UNCHANGED renewed
    BY <2>2 DEF IdentityStep, history, Authenticate, ChangePassword, LoadUser,
                CheckPassword, RecordAttempt, Challenge, StoreChallenge,
                MailChallenge, Commit, Register, InsertLogin
  <2>3. ASSUME NEW r \in Requests, ApiStep(r) PROVE UNCHANGED renewed
    BY <2>3 DEF ApiStep, history, ApiCall, EmailValidated, ApiWrite, CheckCode,
                MailCode, ResetPassword, MailPassword
  <2> QED
    BY <2>1, <2>2, <2>3
    DEF Next, vars, history, Tick, GetSPasswordSession, Crash
<1> QED
  BY <1>3, <1>4, <1>5

(* A password whose change went well lasts ExpTime from then on, whatever   *)
(* other requests store meanwhile (update_user_modification_time, 147-168). *)
THEOREM ChangedPasswordLasts == Spec => []RenewalLasts
<1>1. Init => Renewals
  BY DEF Init, Renewals
<1>2. Typed /\ Renewals => RenewalLasts
  <2> SUFFICES ASSUME Typed, Renewals, UserExists, row # NoRow,
                      Expired(row, now), renewed # None
               PROVE  renewed + ExpTime < now
    BY DEF RenewalLasts
  <2>1. /\ now \in Nat /\ ExpTime \in Nat /\ renewed \in Nat
        /\ row.creation_time \in Nat
    BY SettingsAssumption DEF Typed, TypeOK, Stamp, Row
  <2> QED
    BY <2>1 DEF Renewals, Expired
<1> QED
  BY <1>1, <1>2, InitOrder, OrderNext, RenewalsNext, TypeCorrect, PTL DEF Spec

-----------------------------------------------------------------------------
(* What a change of the password carries was strong when it came in.        *)

StrongNew ==
  \A r \in Requests : req[r].op = "change_password" => req[r].new \in Strong

LEMMA StrongNewNext == Typed /\ StrongNew /\ [Next]_vars => StrongNew'
<1> SUFFICES ASSUME Typed, StrongNew, [Next]_vars PROVE StrongNew'
  OBVIOUS
<1>0. req \in [Requests -> Local]
  BY DEF Typed, TypeOK
<1>1. ASSUME NEW r \in Requests, GoesOn(r) PROVE StrongNew'
  BY <1>1 DEF GoesOn, OnlyMoves, Continues, StrongNew
<1>2. ASSUME NEW r \in Requests, OnlyMoves(r), req'[r].op # "change_password"
      PROVE  StrongNew'
  BY <1>2 DEF OnlyMoves, StrongNew
<1>3. ASSUME NEW r \in Requests, OnlyMoves(r), ResetPassword(r)
      PROVE  StrongNew'
  <2>1. req'[r].op # "change_password"
    <3>1. \A pw \in Passwords : /\ [req[r] EXCEPT !.new = pw] \in Local
                                /\ [req[r] EXCEPT !.new = pw].op = req[r].op
      BY <1>0 DEF Local
    <3>2. \/ \E pw \in Passwords :
               Goto(r, [req[r] EXCEPT !.new = pw], "user_updated_callback")
          \/ Answer(r, "not_found")
      BY <1>3 DEF ResetPassword
    <3>3. \A l \in Local : \A next : Goto(r, l, next) =>
            req'[r].op \in {l.op, "none"}
      BY <1>0 DEF Goto, Answered, Idle, Local
    <3>4. \A o : Answer(r, o) => req'[r].op = "none"
      BY <1>0 DEF Answer, Answered, Idle
    <3> QED
      BY <1>3, <3>1, <3>2, <3>3, <3>4 DEF ResetPassword
  <2> QED
    BY <1>2, <1>3, <2>1
<1>4. ASSUME NEW r \in Requests, OnlyMoves(r), Starts(r) PROVE StrongNew'
  BY <1>4, NewCalls DEF NewCall, OnlyMoves, StrongNew
<1>5. CASE UNCHANGED req
  BY <1>5 DEF StrongNew
<1> QED
  BY <1>1, <1>3, <1>4, <1>5, Movement

(* A password set by a creation, an update or a change of password is       *)
(* strong when it is stored, however long the login before it took          *)
(* (strong_check_password).                                                 *)
THEOREM StoredPasswordsAreStrong == Spec => StrongPasswords
<1>1. Init => StrongNew
  BY DEF Init, Idle, StrongNew
<1>2. Typed /\ StrongNew /\ [Next]_vars =>
        [user'.password # user.password =>
           \/ user'.password \in Strong \cup {None}
           \/ \E r \in Requests : req[r].op = "reset" /\ req'[r] # req[r]]_vars
  <2> SUFFICES ASSUME Typed, StrongNew, [Next]_vars,
                      user'.password # user.password
               PROVE  \/ user'.password \in Strong \cup {None}
                      \/ \E r \in Requests : req[r].op = "reset" /\ req'[r] # req[r]
    OBVIOUS
  <2>0. user \in User /\ req \in [Requests -> Local]
    BY DEF Typed, TypeOK
  <2>1. ASSUME NEW r \in Requests, CreateUser(r)
        PROVE  user'.password \in Strong \cup {None}
    BY <2>1 DEF CreateUser, StrongCheckPassword
  <2>2. ASSUME NEW r \in Requests, NEW refused, ChangeUser(r, refused)
        PROVE  user'.password \in Strong \cup {None}
    <3>1. PICK pw \in Passwords \cup {None} :
            /\ StrongCheckPassword(pw)
            /\ user'.password = IF pw = None THEN user.password ELSE pw
      BY <2>0, <2>2 DEF ChangeUser, User
    <3> QED
      BY <3>1 DEF StrongCheckPassword
  <2>3. ASSUME NEW r \in Requests, StorePassword(r)
        PROVE  user'.password \in Strong \cup {None}
    BY <2>0, <2>3 DEF StorePassword, StrongNew, User
  <2>4. ASSUME NEW r \in Requests, ResetPassword(r)
        PROVE  req[r].op = "reset" /\ req'[r] # req[r]
    <3>1. \A pw \in Passwords : [req[r] EXCEPT !.new = pw] \in Local
      BY <2>0 DEF Local
    <3>2. \/ \E l \in Local : Goto(r, l, "user_updated_callback")
          \/ Answer(r, "not_found")
      BY <2>4, <3>1 DEF ResetPassword
    <3>3. ASSUME NEW l \in Local, Goto(r, l, "user_updated_callback")
          PROVE  req'[r].pc = "user_updated_callback"
      BY <2>0, <3>3 DEF Goto, Local, Outcomes
    <3>4. ASSUME Answer(r, "not_found") PROVE req'[r].pc = "not_found"
      BY <2>0, <3>4 DEF Answer, Answered, Idle
    <3> QED
      BY <2>4, <3>2, <3>3, <3>4 DEF ResetPassword
  <2>5. ASSUME NEW r \in Requests, DeleteUser(r) PROVE FALSE
    BY <2>0, <2>5 DEF DeleteUser, User
  <2>6. \/ UNCHANGED user
        \/ \E r \in Requests : \/ CreateUser(r) \/ UpdateUser(r)
                               \/ ScimUpdateUser(r) \/ DeleteUser(r)
                               \/ StorePassword(r) \/ ResetPassword(r)
    BY UserWriters
  <2> QED
    BY <2>1, <2>2, <2>3, <2>4, <2>5, <2>6 DEF UpdateUser, ScimUpdateUser
<1> QED
  BY <1>1, <1>2, StrongNewNext, TypeCorrect, PTL DEF Spec, StrongPasswords
=============================================================================
