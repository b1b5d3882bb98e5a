--------------------------- MODULE SPasswordProofs ---------------------------
(***************************************************************************)
(* Theorems about SPasswordSystem, for any set of requests, any settings    *)
(* and any mix of calls.                                                    *)
(***************************************************************************)
EXTENDS SPasswordSystem, TLAPS

-----------------------------------------------------------------------------
(* Type correctness: first the operators every action is built from.        *)

LEMMA IdleType == Idle \in Local
BY NoRowAssumption DEF Idle, Local, PCs, MaybeCode

(* What the calls carry as they begin.                                      *)

LEMMA ArriveLocal == \A op \in APIOps : [Idle EXCEPT !.op = op] \in Local
BY IdleType DEF Local

LEMMA LoginLocal ==
  \A pw, new \in Passwords :
    /\ [Idle EXCEPT !.op = "authenticate", !.password = pw] \in Local
    /\ [Idle EXCEPT !.op = "change_password", !.password = pw,
                    !.new = new] \in Local
<1>0. {"authenticate", "change_password"} \subseteq APIOps
  BY DEF APIOps
<1>1. \A pw \in Passwords :
        [Idle EXCEPT !.op = "authenticate", !.password = pw] \in Local
  BY <1>0, IdleType DEF Local
<1>2. \A pw, new \in Passwords :
        [Idle EXCEPT !.op = "change_password", !.password = pw,
                     !.new = new] \in Local
  BY <1>0, IdleType DEF Local
<1> QED
  BY <1>1, <1>2

LEMMA CallLocal ==
  \A op \in APIOps, c \in MaybeCode \cup {BadCode}, enable \in BOOLEAN,
     email \in Addresses \cup {None} :
    [Idle EXCEPT !.op = op, !.code = c, !.enable = enable,
                 !.email = email] \in Local
BY IdleType DEF Local

LEMMA JudgedLocal ==
  ASSUME NEW l \in Local
  PROVE  /\ [l EXCEPT !.right = UserExists /\ l.password = user.password] \in Local
         /\ [l EXCEPT !.token = l.right] \in Local
<1>1. ASSUME NEW b \in BOOLEAN PROVE [l EXCEPT !.right = b] \in Local
  BY <1>1 DEF Local
<1>2. [l EXCEPT !.token = l.right] \in Local
  BY DEF Local
<1>3. (UserExists /\ l.password = user.password) \in BOOLEAN
  BY DEF UserExists
<1> QED
  BY <1>1, <1>2, <1>3

LEMMA AnsweredType == \A o \in Outcomes : Answered(o) \in Local
BY IdleType DEF Answered, Local, PCs, Idle

LEMMA GotoType ==
  ASSUME req \in [Requests -> Local], NEW r \in Requests, NEW l \in Local,
         NEW next \in PCs, Goto(r, l, next)
  PROVE  req' \in [Requests -> Local]
<1>1. [l EXCEPT !.pc = next, !.loaded = FALSE, !.ref = NoRow] \in Local
  BY DEF Local
<1>2. next \in Outcomes => Answered(next) \in Local
  BY AnsweredType
<1> QED
  BY <1>1, <1>2 DEF Goto

LEMMA AnswerType ==
  ASSUME req \in [Requests -> Local], NEW r \in Requests, NEW o \in Outcomes,
         Answer(r, o)
  PROVE  req' \in [Requests -> Local]
BY AnsweredType DEF Answer

LEMMA BlankRowType == \A t \in Nat : BlankRow(t) \in Row
BY DEF BlankRow, Row, Stamp, MaybeCode

LEMMA NewRowType ==
  \A t \in Nat, n \in Nat, s \in Stamp : NewRow(t, n, s) \in Row
BY BlankRowType DEF NewRow, BlankRow, Row, Stamp, MaybeCode

(* No write of a method but remove_user makes the row disappear.            *)
RowKept == row' \in Row \cup {NoRow} /\ (row # NoRow => row' # NoRow)

LEMMA FlushType ==
  ASSUME req \in [Requests -> Local], row \in Row \cup {NoRow},
         NEW r \in Requests, NEW changed \in BOOLEAN,
         NEW assigned, row # NoRow => assigned \in Row,
         NEW next \in PCs, Flush(r, changed, assigned, next)
  PROVE  req' \in [Requests -> Local] /\ RowKept
<1>1. req[r] \in Local
  OBVIOUS
<1>2. CASE Answer(r, "error") /\ UNCHANGED row
  BY <1>2, AnswerType DEF Outcomes, RowKept
<1>3. CASE row # NoRow /\ row' = assigned /\ Goto(r, req[r], next)
  BY <1>1, <1>3, GotoType, NoRowAssumption DEF RowKept
<1>4. CASE UNCHANGED row /\ Goto(r, req[r], next)
  BY <1>1, <1>4, GotoType DEF RowKept
<1> QED
  BY <1>2, <1>3, <1>4 DEF Flush

LEMMA InsertType ==
  ASSUME req \in [Requests -> Local], row \in Row \cup {NoRow},
         NEW r \in Requests, NEW new \in Row,
         NEW next \in PCs, Insert(r, new, next)
  PROVE  req' \in [Requests -> Local] /\ RowKept
<1>1. CASE Answer(r, "error") /\ UNCHANGED row
  BY <1>1, AnswerType DEF Outcomes, RowKept
<1>2. CASE row = NoRow /\ row' = new /\ Goto(r, req[r], next)
  BY <1>2, GotoType DEF RowKept
<1> QED
  BY <1>1, <1>2 DEF Insert

LEMMA SkipType ==
  ASSUME req \in [Requests -> Local], row \in Row \cup {NoRow},
         NEW r \in Requests, NEW next \in PCs, Skip(r, next)
  PROVE  req' \in [Requests -> Local] /\ RowKept
BY GotoType DEF Skip, RowKept

LEMMA WrittenType ==
  \A S, a, b, c : a \in S /\ c \in S => Written(a, b, c) \in S
BY DEF Written

(* The methods of the driver keep the row and the requests well formed.     *)

LEMMA RenewType ==
  ASSUME TypeOK, NEW r \in Requests, NEW next \in PCs, RenewPassword(r, next)
  PROVE  req' \in [Requests -> Local] /\ RowKept
<1> DEFINE new == NewRow(now, 0, None)
           again == [row EXCEPT !.creation_time = now,
                                !.login_attempts =
                                   Written(@, req[r].ref.login_attempts, 0)]
<1>1. new \in Row
  BY NewRowType DEF TypeOK, Stamp
<1>2. row # NoRow => again \in Row
  BY WrittenType DEF TypeOK, Row
<1>3. Insert(r, new, next) \/ Flush(r, TRUE, again, next)
  BY DEF RenewPassword
<1> HIDE DEF new, again
<1>4. CASE Insert(r, new, next)
  BY <1>1, <1>4, InsertType DEF TypeOK
<1>5. CASE Flush(r, TRUE, again, next)
  BY <1>2, <1>5, FlushType DEF TypeOK
<1> QED
  BY <1>3, <1>4, <1>5

LEMMA SetUserSndfaCodeType ==
  ASSUME TypeOK, NEW r \in Requests, NEW next \in PCs,
         req[r].code \in MaybeCode, SetUserSndfaCode(r, next)
  PROVE  req' \in [Requests -> Local] /\ RowKept
<1> DEFINE new == WithCode(row, req[r].ref, req[r].code, now)
<1>1. row # NoRow => new \in Row
  BY WrittenType DEF TypeOK, Row, WithCode, Stamp
<1>2. Flush(r, TRUE, new, next) \/ Skip(r, next)
  BY DEF SetUserSndfaCode
<1> HIDE DEF new
<1>3. CASE Flush(r, TRUE, new, next)
  BY <1>1, <1>3, FlushType DEF TypeOK
<1>4. CASE Skip(r, next)
  BY <1>4, SkipType DEF TypeOK
<1> QED
  BY <1>2, <1>3, <1>4

LEMMA ModifySndfaType ==
  ASSUME TypeOK, NEW r \in Requests, NEW next \in PCs, ModifySndfa(r, next)
  PROVE  req' \in [Requests -> Local] /\ RowKept
<1> DEFINE new == [row EXCEPT !.sndfa = req[r].enable]
           changed == req[r].ref.sndfa # req[r].enable
<1>1. row # NoRow => new \in Row
  BY DEF TypeOK, Row, Local
<1>2. Flush(r, changed, new, next) \/ Skip(r, next)
  BY DEF ModifySndfa
<1>3. changed \in BOOLEAN
  OBVIOUS
<1> HIDE DEF new, changed
<1>4. CASE Flush(r, changed, new, next)
  BY <1>1, <1>3, <1>4, FlushType DEF TypeOK
<1>5. CASE Skip(r, next)
  BY <1>5, SkipType DEF TypeOK
<1> QED
  BY <1>2, <1>4, <1>5

LEMMA ModifyBlackType ==
  ASSUME TypeOK, NEW r \in Requests, NEW next \in PCs, ModifyBlack(r, next)
  PROVE  req' \in [Requests -> Local] /\ RowKept
<1> DEFINE new == [row EXCEPT !.black = req[r].enable]
           changed == req[r].ref.black # req[r].enable
<1>1. row # NoRow => new \in Row
  BY DEF TypeOK, Row, Local
<1>2. Flush(r, changed, new, next) \/ Skip(r, next)
  BY DEF ModifyBlack
<1>3. changed \in BOOLEAN
  OBVIOUS
<1> HIDE DEF new, changed
<1>4. CASE Flush(r, changed, new, next)
  BY <1>1, <1>3, <1>4, FlushType DEF TypeOK
<1>5. CASE Skip(r, next)
  BY <1>5, SkipType DEF TypeOK
<1> QED
  BY <1>2, <1>4, <1>5

LEMMA CheckSndfaCodeType ==
  ASSUME TypeOK, NEW r \in Requests, NEW yes \in PCs, NEW no \in PCs,
         CheckSndfaCode(r, yes, no)
  PROVE  /\ req' \in [Requests -> Local] /\ RowKept
         /\ proved' \in Stamp
<1> DEFINE new == [row EXCEPT !.sndfa_last = now]
<1>1. row # NoRow => new \in Row
  BY DEF TypeOK, Row, Stamp
<1>2. Flush(r, TRUE, new, yes) \/ Skip(r, no)
  BY DEF CheckSndfaCode
<1>3. proved' \in Stamp
  BY DEF CheckSndfaCode, TypeOK, Stamp
<1> HIDE DEF new
<1>4. CASE Flush(r, TRUE, new, yes)
  BY <1>1, <1>3, <1>4, FlushType DEF TypeOK
<1>5. CASE Skip(r, no)
  BY <1>3, <1>5, SkipType DEF TypeOK
<1> QED
  BY <1>2, <1>4, <1>5

LEMMA SetCheckEmailCodeType ==
  ASSUME TypeOK, NEW r \in Requests, NEW next \in PCs,
         req[r].code \in MaybeCode, SetCheckEmailCode(r, next)
  PROVE  req' \in [Requests -> Local] /\ RowKept
<1> DEFINE ref == req[r].ref
           new == [row EXCEPT !.sndfa_email_code =
                                  Written(@, ref.sndfa_email_code, req[r].code),
                              !.sndfa_email = Written(@, ref.sndfa_email, FALSE)]
<1>1. row # NoRow => new \in Row
  BY WrittenType DEF TypeOK, Row
<1>2. Flush(r, TRUE, new, next) \/ Skip(r, next)
  BY DEF SetCheckEmailCode
<1> HIDE DEF new
<1>3. CASE Flush(r, TRUE, new, next)
  BY <1>1, <1>3, FlushType DEF TypeOK
<1>4. CASE Skip(r, next)
  BY <1>4, SkipType DEF TypeOK
<1> QED
  BY <1>2, <1>3, <1>4

LEMMA CheckEmailCodeType ==
  ASSUME TypeOK, NEW r \in Requests, NEW yes \in PCs, NEW no \in PCs,
         CheckEmailCode(r, yes, no)
  PROVE  req' \in [Requests -> Local] /\ RowKept
<1> DEFINE check == EmailCodeAccepted(req[r].ref, req[r].code)
           new == [row EXCEPT !.sndfa_email = check]
           changed == req[r].ref.sndfa_email # check
           next == IF check THEN yes ELSE no
<1>1. check \in BOOLEAN /\ changed \in BOOLEAN /\ next \in PCs
  BY DEF EmailCodeAccepted
<1>2. row # NoRow => new \in Row
  BY <1>1 DEF TypeOK, Row
<1>3. Flush(r, changed, new, next) \/ Skip(r, no)
  BY DEF CheckEmailCode
<1> HIDE DEF new, changed, next, check
<1>4. CASE Flush(r, changed, new, next)
  BY <1>1, <1>2, <1>4, FlushType DEF TypeOK
<1>5. CASE Skip(r, no)
  BY <1>5, SkipType DEF TypeOK
<1> QED
  BY <1>3, <1>4, <1>5

LEMMA SendEmailType ==
  ASSUME TypeOK, NEW r \in Requests, NEW kind \in MailKinds,
         NEW to \in Addresses \cup {None},
         NEW content \in MaybeCode \cup Passwords,
         NEW yes \in PCs, NEW no \in PCs, SendEmail(r, kind, to, content, yes, no)
  PROVE  req' \in [Requests -> Local] /\ inbox' \subseteq Mails
<1>1. inbox' \subseteq Mails
  BY DEF SendEmail, TypeOK, Mails
<1>2. PICK next \in {yes, no, "error"} : Goto(r, req[r], next)
  BY DEF SendEmail
<1>3. next \in PCs
  BY DEF PCs, Outcomes
<1> QED
  BY <1>1, <1>2, <1>3, GotoType DEF TypeOK

-----------------------------------------------------------------------------
(* A code the server generates is never the client's BadCode.  Type         *)
(* correctness needs it: such a code is stored in the row and mailed.       *)

Generating == {"authenticate", "change_password", "ask_check_email", "recover"}

GeneratedCodes ==
  \A r \in Requests : req[r].op \in Generating => req[r].code \in MaybeCode

Typed == TypeOK /\ GeneratedCodes

(* Every step of a handler moves one request and leaves the others alone.   *)
Moved(r) ==
  /\ req' = [req EXCEPT ![r] = req'[r]]
  /\ req'[r].op \in Generating => req'[r].code \in MaybeCode

LEMMA GotoMoves ==
  ASSUME req \in [Requests -> Local], NEW r \in Requests, NEW l \in Local,
         l.op \in Generating => l.code \in MaybeCode,
         NEW next, Goto(r, l, next)
  PROVE  Moved(r)
<1>1. CASE next \in Outcomes
  BY <1>1 DEF Goto, Moved, Answered, Idle, MaybeCode
<1>2. CASE next \notin Outcomes
  BY <1>2 DEF Goto, Moved, Local
<1> QED
  BY <1>1, <1>2

LEMMA AnswerMoves ==
  ASSUME req \in [Requests -> Local], NEW r \in Requests, NEW o, Answer(r, o)
  PROVE  Moved(r)
BY DEF Answer, Moved, Answered, Idle, MaybeCode

LEMMA MovedKeepsGenerated ==
  ASSUME GeneratedCodes, req \in [Requests -> Local], NEW r \in Requests, Moved(r)
  PROVE  GeneratedCodes'
BY DEF GeneratedCodes, Moved

(* The methods end with Flush, Insert or Skip, which keep op and code.      *)
LEMMA WriteMoves ==
  ASSUME Typed, NEW r \in Requests, NEW next,
         \/ \E changed, assigned : Flush(r, changed, assigned, next)
         \/ \E new : Insert(r, new, next)
         \/ Goto(r, req[r], next)
  PROVE  Moved(r)
<1>1. req[r] \in Local /\ (req[r].op \in Generating => req[r].code \in MaybeCode)
  BY DEF Typed, TypeOK, GeneratedCodes
<1>2. Goto(r, req[r], next) \/ Answer(r, "error")
  BY DEF Flush, Insert
<1> QED
  BY <1>1, <1>2, GotoMoves, AnswerMoves DEF Typed, TypeOK

LEMMA MethodMoves ==
  ASSUME Typed, NEW r \in Requests, NEW next, NEW no,
         \/ RemoveUser(r, next) \/ SetUserCreationTime(r, next)
         \/ UpdateUserModificationTime(r, next) \/ SetUserSndfaCode(r, next)
         \/ ModifySndfa(r, next) \/ ModifyBlack(r, next)
         \/ CheckSndfaCode(r, next, no) \/ SetCheckEmailCode(r, next)
         \/ CheckEmailCode(r, next, no)
  PROVE  Moved(r)
<1>1. CASE RemoveUser(r, next)
  BY <1>1, WriteMoves DEF RemoveUser
<1>2. CASE SetUserCreationTime(r, next) \/ UpdateUserModificationTime(r, next)
  BY <1>2, WriteMoves
  DEF SetUserCreationTime, UpdateUserModificationTime, RenewPassword
<1>3. CASE SetUserSndfaCode(r, next)
  BY <1>3, WriteMoves DEF SetUserSndfaCode, Skip
<1>4. CASE ModifySndfa(r, next)
  BY <1>4, WriteMoves DEF ModifySndfa, Skip
<1>5. CASE ModifyBlack(r, next)
  BY <1>5, WriteMoves DEF ModifyBlack, Skip
<1>6. CASE CheckSndfaCode(r, next, no)
  BY <1>6, WriteMoves DEF CheckSndfaCode, Skip
<1>7. CASE SetCheckEmailCode(r, next)
  BY <1>7, WriteMoves DEF SetCheckEmailCode, Skip
<1>8. CASE CheckEmailCode(r, next, no)
  <2>1. PICK n : \/ \E changed, assigned : Flush(r, changed, assigned, n)
                 \/ Goto(r, req[r], n)
    BY <1>8 DEF CheckEmailCode, Skip
  <2> QED
    BY <2>1, WriteMoves
<1> QED
  BY <1>1, <1>2, <1>3, <1>4, <1>5, <1>6, <1>7, <1>8

(* A step that moves r with Goto keeps the requests well formed. *)
LEMMA GotoTyped ==
  ASSUME Typed, NEW r \in Requests, NEW l \in Local,
         l.op \in Generating => l.code \in MaybeCode,
         NEW next \in PCs, Goto(r, l, next)
  PROVE  req' \in [Requests -> Local] /\ GeneratedCodes'
BY GotoType, GotoMoves, MovedKeepsGenerated DEF Typed, TypeOK

LEMMA AnswerTyped ==
  ASSUME Typed, NEW r \in Requests, NEW o \in Outcomes, Answer(r, o)
  PROVE  req' \in [Requests -> Local] /\ GeneratedCodes'
BY AnswerType, AnswerMoves, MovedKeepsGenerated DEF Typed, TypeOK

LEMMA OutcomePCs == Outcomes \subseteq PCs
BY DEF PCs

LEMMA RequestTyped ==
  ASSUME Typed, NEW r \in Requests
  PROVE  req[r] \in Local /\ (req[r].op \in Generating => req[r].code \in MaybeCode)
BY DEF Typed, TypeOK, GeneratedCodes

LEMMA SessionTyped ==
  ASSUME Typed, NEW r \in Requests, GetSPasswordSession(r)
  PROVE  Typed'
<1>1. req[r] \in Local
  BY RequestTyped
<1>2. [req[r] EXCEPT !.loaded = TRUE, !.ref = row] \in Local
  BY <1>1 DEF Typed, TypeOK, Local
<1>3. req' = [req EXCEPT ![r] = [req[r] EXCEPT !.loaded = TRUE, !.ref = row]]
  BY DEF GetSPasswordSession, Typed, TypeOK
<1>4. req' \in [Requests -> Local]
  BY <1>2, <1>3 DEF Typed, TypeOK
<1>5. GeneratedCodes'
  BY <1>1, <1>3 DEF Typed, TypeOK, GeneratedCodes, Local
<1> QED
  BY <1>4, <1>5 DEF GetSPasswordSession, Typed, TypeOK, history

-----------------------------------------------------------------------------
(* The identity driver. *)

LEMMA BlockCheckTyped ==
  ASSUME Typed, NEW r \in Requests, NEW login \in Local,
         login.code \in MaybeCode, BlockCheck(r, login)
  PROVE  req' \in [Requests -> Local] /\ GeneratedCodes'
<1>1. PICK next \in {"user", "error", "blocked"} : Goto(r, login, next)
  BY DEF BlockCheck
<1>2. next \in PCs
  BY DEF PCs, Outcomes, HandlerSteps
<1> QED
  BY <1>1, <1>2, GotoTyped

LEMMA AuthenticateTyped ==
  ASSUME Typed, NEW r \in Requests, NEW pw \in Passwords, Authenticate(r, pw)
  PROVE  Typed'
<1> DEFINE login == [Idle EXCEPT !.op = "authenticate", !.password = pw]
<1>0. login \in Local
  BY LoginLocal
<1>1. login.code \in MaybeCode
  BY DEF Idle, MaybeCode
<1>2. BlockCheck(r, login)
  BY DEF Authenticate
<1> HIDE DEF login
<1>3. req' \in [Requests -> Local] /\ GeneratedCodes'
  BY <1>0, <1>1, <1>2, BlockCheckTyped
<1> QED
  BY <1>3 DEF Authenticate, Typed, TypeOK, history

LEMMA ChangePasswordTyped ==
  ASSUME Typed, NEW r \in Requests, NEW pw \in Passwords, NEW new \in Passwords,
         ChangePassword(r, pw, new)
  PROVE  Typed'
<1> DEFINE login == [Idle EXCEPT !.op = "change_password", !.password = pw,
                                 !.new = new]
<1>0. login \in Local
  BY LoginLocal
<1>1. login.code \in MaybeCode
  BY DEF Idle, MaybeCode
<1>2. BlockCheck(r, login) \/ Answer(r, "bad_request")
  BY DEF ChangePassword
<1> HIDE DEF login
<1>3. req' \in [Requests -> Local] /\ GeneratedCodes'
  BY <1>0, <1>1, <1>2, BlockCheckTyped, AnswerTyped DEF Outcomes
<1> QED
  BY <1>3 DEF ChangePassword, Typed, TypeOK, history

LEMMA LoadUserTyped ==
  ASSUME Typed, NEW r \in Requests, LoadUser(r)
  PROVE  Typed'
<1> DEFINE l == [req[r] EXCEPT !.right =
                   UserExists /\ req[r].password = user.password]
<1>1. l \in Local /\ (l.op \in Generating => l.code \in MaybeCode)
  BY RequestTyped DEF Local, UserExists
<1>2. PICK next \in {"password", "record"} : Goto(r, l, next)
  BY DEF LoadUser
<1>3. next \in PCs
  BY DEF PCs, HandlerSteps
<1> HIDE DEF l
<1>4. req' \in [Requests -> Local] /\ GeneratedCodes'
  BY <1>1, <1>2, <1>3, GotoTyped
<1> QED
  BY <1>4 DEF LoadUser, Typed, TypeOK, history

LEMMA CheckPasswordTyped ==
  ASSUME Typed, NEW r \in Requests, CheckPassword(r)
  PROVE  Typed'
<1>1. PICK next \in {"expired", "record"} : Goto(r, req[r], next)
  BY DEF CheckPassword
<1>2. next \in PCs
  BY DEF PCs, HandlerSteps, Outcomes
<1>3. req' \in [Requests -> Local] /\ GeneratedCodes'
  BY <1>1, <1>2, GotoTyped, RequestTyped
<1> QED
  BY <1>3 DEF CheckPassword, Typed, TypeOK, history

LEMMA RecordAttemptTyped ==
  ASSUME Typed, NEW r \in Requests, RecordAttempt(r)
  PROVE  Typed'
<1> DEFINE n == IF row = NoRow THEN 0 ELSE row.login_attempts
           l == [req[r] EXCEPT !.at = now, !.tries = n]
           t == [l EXCEPT !.token = Granted(row, now)]
           c == [l EXCEPT !.code = row.sndfa_code]
<1>1. n \in Nat /\ now \in Nat
  BY DEF Typed, TypeOK, Row
<1>2. Granted(row, now) \in BOOLEAN
  BY DEF Granted
<1>3. row # NoRow => row.sndfa_code \in MaybeCode
  BY DEF Row, Typed, TypeOK
<1>4. \/ \E next \in {"register", "commit", "challenge"} : Goto(r, l, next)
      \/ Goto(r, t, "commit")
      \/ row # NoRow /\ Goto(r, c, "mail")
  BY DEF RecordAttempt
<1> HIDE DEF n
<1>5. l \in Local /\ (l.op \in Generating => l.code \in MaybeCode)
  BY <1>1, RequestTyped DEF Local
<1> HIDE DEF l
<1>6. t \in Local /\ (t.op \in Generating => t.code \in MaybeCode)
  BY <1>2, <1>5 DEF Local
<1>7. row # NoRow => c \in Local /\ c.code \in MaybeCode
  BY <1>3, <1>5 DEF Local
<1>8. {"register", "commit", "challenge", "mail"} \subseteq PCs
  BY DEF PCs, HandlerSteps
<1> HIDE DEF t, c
<1>9. req' \in [Requests -> Local] /\ GeneratedCodes'
  <2>1. CASE \E next \in {"register", "commit", "challenge"} : Goto(r, l, next)
    BY <1>5, <1>8, <2>1, GotoTyped
  <2>2. CASE Goto(r, t, "commit")
    BY <1>6, <1>8, <2>2, GotoTyped
  <2>3. CASE row # NoRow /\ Goto(r, c, "mail")
    BY <1>8, <1>7, <2>3, GotoTyped
  <2> QED
    BY <1>4, <2>1, <2>2, <2>3
<1>10. badTries' \in Nat
  BY DEF RecordAttempt, Typed, TypeOK
<1> QED
  BY <1>9, <1>10 DEF RecordAttempt, Typed, TypeOK

LEMMA ChallengeTyped ==
  ASSUME Typed, NEW r \in Requests, Challenge(r)
  PROVE  Typed'
<1>1. CASE UserExists
  <2>1. PICK c \in Codes : /\ FreshCode(c)
                           /\ Goto(r, [req[r] EXCEPT !.code = c],
                                   "set_user_sndfa_code")
    BY <1>1 DEF Challenge
  <2>2. [req[r] EXCEPT !.code = c] \in Local /\ c \in MaybeCode
    BY RequestTyped DEF Local, MaybeCode
  <2>3. req' \in [Requests -> Local] /\ GeneratedCodes'
    BY <2>1, <2>2, GotoTyped, RequestTyped DEF PCs, Methods, Local
  <2> QED
    BY <2>3 DEF Challenge, Typed, TypeOK, history
<1>2. CASE ~UserExists
  <2>1. req' \in [Requests -> Local] /\ GeneratedCodes'
    BY <1>2, AnswerTyped DEF Challenge, Outcomes
  <2> QED
    BY <1>2, <2>1 DEF Challenge, Typed, TypeOK, history
<1> QED
  BY <1>1, <1>2

LEMMA StoreChallengeTyped ==
  ASSUME Typed, NEW r \in Requests, StoreChallenge(r)
  PROVE  Typed'
<1>1. SetUserSndfaCode(r, "mail") /\ req[r].code \in MaybeCode
  BY RequestTyped DEF StoreChallenge, At, Generating
<1>2. req' \in [Requests -> Local] /\ row' \in Row \cup {NoRow}
  BY <1>1, SetUserSndfaCodeType DEF RowKept, PCs, HandlerSteps, Typed
<1>3. GeneratedCodes'
  BY <1>1, MethodMoves, MovedKeepsGenerated DEF Typed, TypeOK
<1> QED
  BY <1>2, <1>3 DEF StoreChallenge, Typed, TypeOK, history

(* A mail keeps op and code of the request. *)
LEMMA SendEmailTyped ==
  ASSUME Typed, NEW r \in Requests, NEW kind \in MailKinds,
         NEW to \in Addresses \cup {None},
         NEW content \in MaybeCode \cup Passwords,
         NEW yes \in PCs, NEW no \in PCs, SendEmail(r, kind, to, content, yes, no)
  PROVE  /\ req' \in [Requests -> Local] /\ inbox' \subseteq Mails
         /\ GeneratedCodes'
<1>1. PICK next \in {yes, no, "error"} : Goto(r, req[r], next)
  BY DEF SendEmail
<1>2. next \in PCs
  BY DEF PCs, Outcomes
<1> QED
  BY <1>1, <1>2, SendEmailType, GotoTyped, RequestTyped DEF Typed

LEMMA MailChallengeTyped ==
  ASSUME Typed, NEW r \in Requests, MailChallenge(r)
  PROVE  Typed'
<1>1. req[r].code \in MaybeCode
  BY RequestTyped DEF MailChallenge, At, Generating
<1>2. CASE UserExists /\ user.email # None
  <2>1. /\ SendEmail(r, "sndfa", user.email, req[r].code, "commit", "commit")
        /\ user.email \in Addresses \cup {None}
    BY <1>2 DEF MailChallenge, Typed, TypeOK, User
  <2>2. /\ req' \in [Requests -> Local] /\ inbox' \subseteq Mails
        /\ GeneratedCodes'
    BY <1>1, <2>1, SendEmailTyped DEF PCs, HandlerSteps, MailKinds
  <2> QED
    BY <2>2 DEF MailChallenge, Typed, TypeOK, history
<1>3. CASE ~(UserExists /\ user.email # None)
  <2>1. PICK o \in {"error", "not_found"} : Answer(r, o)
    BY <1>3 DEF MailChallenge
  <2>2. req' \in [Requests -> Local] /\ GeneratedCodes'
    BY <2>1, AnswerTyped DEF Outcomes
  <2> QED
    BY <1>3, <2>2 DEF MailChallenge, Typed, TypeOK, history
<1> QED
  BY <1>2, <1>3

LEMMA CommitTyped ==
  ASSUME Typed, NEW r \in Requests, Commit(r)
  PROVE  Typed'
<1> DEFINE l == req[r]
           new == [row EXCEPT !.login_attempts =
                       Written(@, l.tries, Count(l.right, l.tries)),
                     !.last_login_attempt_time = l.at]
<1>1. Count(l.right, l.tries) \in Nat /\ l.at \in Nat
  BY RequestTyped DEF Count, Local
<1>2. row # NoRow => new \in Row
  BY <1>1, WrittenType DEF Typed, TypeOK, Row, Stamp
<1>3. Flush(r, TRUE, new, Answering(r)) /\ Answering(r) \in PCs
  BY DEF Commit, Answering, Granting, PCs, Outcomes, HandlerSteps
<1> HIDE DEF new
<1>4. req' \in [Requests -> Local] /\ row' \in Row \cup {NoRow}
  BY <1>2, <1>3, FlushType DEF RowKept, Typed, TypeOK
<1>5. GeneratedCodes'
  BY <1>3, WriteMoves, MovedKeepsGenerated DEF Typed, TypeOK
<1> QED
  BY <1>4, <1>5 DEF Commit, Typed, TypeOK, history

LEMMA RegisterTyped ==
  ASSUME Typed, NEW r \in Requests, Register(r)
  PROVE  Typed'
<1> DEFINE l == [req[r] EXCEPT !.token = req[r].right]
<1>1. l \in Local /\ (l.op \in Generating => l.code \in MaybeCode)
  BY RequestTyped DEF Local
<1>2. PICK next \in {"insert", "not_found"} : Goto(r, l, next)
  BY DEF Register
<1>3. next \in PCs
  BY DEF PCs, HandlerSteps, Outcomes
<1> HIDE DEF l
<1>4. req' \in [Requests -> Local] /\ GeneratedCodes'
  BY <1>1, <1>2, <1>3, GotoTyped
<1> QED
  BY <1>4 DEF Register, Typed, TypeOK, history

LEMMA InsertLoginTyped ==
  ASSUME Typed, NEW r \in Requests, InsertLogin(r)
  PROVE  Typed'
<1> DEFINE new == NewRow(req[r].at, Count(req[r].right, 0), req[r].at)
<1>1. new \in Row
  BY NewRowType, RequestTyped DEF Count, Local, Stamp
<1>2. Insert(r, new, Answering(r)) /\ Answering(r) \in PCs
  BY DEF InsertLogin, Answering, Granting, PCs, Outcomes, HandlerSteps
<1> HIDE DEF new
<1>3. req' \in [Requests -> Local] /\ row' \in Row \cup {NoRow}
  BY <1>1, <1>2, InsertType DEF RowKept, Typed, TypeOK
<1>4. GeneratedCodes'
  BY <1>2, WriteMoves, MovedKeepsGenerated DEF Typed, TypeOK
<1> QED
  BY <1>3, <1>4 DEF InsertLogin, Typed, TypeOK, history

LEMMA IdentityTyped ==
  ASSUME Typed, NEW r \in Requests, IdentityStep(r)
  PROVE  Typed'
BY AuthenticateTyped, ChangePasswordTyped, LoadUserTyped, CheckPasswordTyped, RecordAttemptTyped,
   ChallengeTyped, StoreChallengeTyped, MailChallengeTyped, CommitTyped,
   RegisterTyped, InsertLoginTyped DEF IdentityStep

-----------------------------------------------------------------------------
(* The resources of the API. *)

LEMMA CallTyped ==
  ASSUME Typed, NEW r \in Requests, NEW op \in APIOps,
         NEW c \in MaybeCode \cup {BadCode}, NEW enable \in BOOLEAN,
         op \in Generating => c \in MaybeCode,
         NEW first \in PCs, Call(r, op, c, enable, first)
  PROVE  req' \in [Requests -> Local] /\ GeneratedCodes'
<1> DEFINE l == [Idle EXCEPT !.op = op, !.code = c, !.enable = enable,
                             !.email = user.email]
<1>0. user.email \in Addresses \cup {None}
  BY DEF Typed, TypeOK, User
<1>1. l \in Local
  BY <1>0, CallLocal
<1>3. l.op = op /\ l.code = c
  BY DEF Idle
<1>2. Goto(r, l, first)
  BY DEF Call
<1> HIDE DEF l
<1> QED
  BY <1>1, <1>2, <1>3, GotoTyped

LEMMA ChecksType ==
  \A next \in PCs : /\ Configured(next) \in PCs
                    /\ GetUser(next) \in PCs
                    /\ EmailDefined(next) \in PCs
BY DEF Configured, GetUser, EmailDefined, PCs, Outcomes

LEMMA KnownCodesType == KnownCodes \subseteq MaybeCode \cup {BadCode}
BY DEF KnownCodes, MaybeCode

LEMMA ApiCallTyped ==
  ASSUME Typed, NEW r \in Requests, ApiCall(r)
  PROVE  Typed'
<1> DEFINE Good == req' \in [Requests -> Local] /\ GeneratedCodes'
<1>0. /\ {"set_check_email_code", "check_email_code", "modify_black",
          "validated"} \subseteq PCs
      /\ None \in MaybeCode
  BY DEF PCs, Methods, HandlerSteps, MaybeCode
<1> SUFFICES Good
  BY DEF ApiCall, Typed, TypeOK, history
<1>1. CASE AskCheckEmail(r)
  <2>1. ASSUME NEW c \in Codes, FreshCode(c),
               Call(r, "ask_check_email", c, FALSE, "set_check_email_code")
        PROVE  Good
    BY <1>0, <2>1, CallTyped DEF MaybeCode, APIOps
  <2>2. ASSUME Call(r, "ask_check_email", None, FALSE,
                    GetUser(EmailDefined("set_check_email_code")))
        PROVE  Good
    BY <1>0, <2>2, CallTyped, ChecksType DEF APIOps
  <2> QED
    BY <1>1, <2>1, <2>2 DEF AskCheckEmail
<1>2. CASE CheckEmail(r)
  <2>1. PICK c \in KnownCodes :
          Call(r, "check_email", c, FALSE,
               GetUser(EmailDefined("check_email_code")))
    BY <1>2 DEF CheckEmail
  <2> QED
    BY <1>0, <2>1, CallTyped, ChecksType, KnownCodesType DEF APIOps, Generating
<1>3. CASE AskModifySndfa(r)
  <2>1. PICK enable \in BOOLEAN :
          Call(r, "modify_sndfa", None, enable,
               Configured(GetUser(EmailDefined("validated"))))
    BY <1>3 DEF AskModifySndfa
  <2> QED
    BY <1>0, <2>1, CallTyped, ChecksType DEF APIOps
<1>4. CASE CheckSndfa(r)
  <2>1. PICK c \in KnownCodes :
          Call(r, "check_sndfa", c, FALSE, Configured(GetUser("validated")))
    BY <1>4 DEF CheckSndfa
  <2> QED
    BY <1>0, <2>1, CallTyped, ChecksType, KnownCodesType DEF APIOps, Generating
<1>5. CASE AskModifyBlack(r)
  <2>1. PICK enable \in BOOLEAN :
          Call(r, "modify_black", None, enable,
               Configured(GetUser("modify_black")))
    BY <1>5 DEF AskModifyBlack
  <2> QED
    BY <1>0, <2>1, CallTyped, ChecksType DEF APIOps
<1>6. CASE Recover(r)
  BY <1>0, <1>6, CallTyped, ChecksType DEF Recover, APIOps
<1>7. CASE Reset(r)
  <2>1. PICK c \in KnownCodes :
          Call(r, "reset", c, FALSE, GetUser("check_email_code"))
    BY <1>7 DEF Reset
  <2> QED
    BY <1>0, <2>1, CallTyped, ChecksType, KnownCodesType DEF APIOps, Generating
<1> QED
  BY <1>1, <1>2, <1>3, <1>4, <1>5, <1>6, <1>7 DEF ApiCall

LEMMA EmailValidatedTyped ==
  ASSUME Typed, NEW r \in Requests, EmailValidated(r)
  PROVE  Typed'
<1>1. req' \in [Requests -> Local] /\ GeneratedCodes'
  <2>1. CASE Answer(r, "unauthorized")
    BY <2>1, AnswerTyped DEF Outcomes
  <2>2. ASSUME NEW next \in {"modify_sndfa", "check_sndfa_code"},
               Goto(r, req[r], next)
        PROVE  req' \in [Requests -> Local] /\ GeneratedCodes'
    <3>1. next \in PCs
      BY DEF PCs, Methods
    <3> QED
      BY <2>2, <3>1, GotoTyped, RequestTyped
  <2>3. ASSUME NEW c \in Codes, FreshCode(c),
               Goto(r, [req[r] EXCEPT !.code = c], "set_check_email_code")
        PROVE  req' \in [Requests -> Local] /\ GeneratedCodes'
    <3>1. [req[r] EXCEPT !.code = c] \in Local /\ c \in MaybeCode
      BY RequestTyped DEF Local, MaybeCode
    <3> QED
      BY <2>3, <3>1, GotoTyped, RequestTyped DEF PCs, Methods, Local
  <2> QED
    BY <2>1, <2>2, <2>3 DEF EmailValidated
<1> QED
  BY <1>1 DEF EmailValidated, Typed, TypeOK, history

LEMMA ApiWriteTyped ==
  ASSUME Typed, NEW r \in Requests, ApiWrite(r)
  PROVE  Typed'
<1> DEFINE Good == req' \in [Requests -> Local] /\ row' \in Row \cup {NoRow}
<1>1. {"mail", "check_email_code", "ok", "unauthorized", "update_user"}
        \subseteq PCs
  BY DEF PCs, Methods, HandlerSteps, Outcomes
<1>2. CASE \/ req[r].op = "ask_check_email" /\ SetCheckEmailCode(r, "mail")
           \/ req[r].op = "recover" /\ SetCheckEmailCode(r, RecoverGoesOn)
  <2>1. req[r].code \in MaybeCode
    BY <1>2, RequestTyped DEF Generating
  <2>2. PICK next \in PCs : SetCheckEmailCode(r, next)
    BY <1>1, <1>2 DEF RecoverGoesOn
  <2>3. Good
    BY <2>1, <2>2, SetCheckEmailCodeType DEF RowKept, Typed
  <2>4. Moved(r)
    BY <2>2, MethodMoves
  <2> QED
    BY <2>3, <2>4, MovedKeepsGenerated
    DEF ApiWrite, Typed, TypeOK, history
<1>3. CASE \E yes, no \in PCs : CheckEmailCode(r, yes, no)
  <2>1. PICK yes \in PCs, no \in PCs : CheckEmailCode(r, yes, no)
    BY <1>3
  <2>2. Good
    BY <2>1, CheckEmailCodeType DEF RowKept, Typed
  <2>3. Moved(r)
    BY <2>1, MethodMoves
  <2> QED
    BY <2>2, <2>3, MovedKeepsGenerated
    DEF ApiWrite, Typed, TypeOK, history
<1>4. CASE ModifySndfa(r, "ok")
  <2>1. Good
    BY <1>1, <1>4, ModifySndfaType DEF RowKept, Typed
  <2>2. Moved(r)
    BY <1>4, MethodMoves
  <2> QED
    BY <2>1, <2>2, MovedKeepsGenerated
    DEF ApiWrite, Typed, TypeOK, history
<1>5. CASE ModifyBlack(r, "ok")
  <2>1. Good
    BY <1>1, <1>5, ModifyBlackType DEF RowKept, Typed
  <2>2. Moved(r)
    BY <1>5, MethodMoves
  <2> QED
    BY <2>1, <2>2, MovedKeepsGenerated
    DEF ApiWrite, Typed, TypeOK, history
<1> QED
  BY <1>1, <1>2, <1>3, <1>4, <1>5 DEF ApiWrite

LEMMA CheckCodeTyped ==
  ASSUME Typed, NEW r \in Requests, CheckCode(r)
  PROVE  Typed'
<1>1. CheckSndfaCode(r, "ok", "unauthorized")
  BY DEF CheckCode
<1>2. /\ req' \in [Requests -> Local] /\ row' \in Row \cup {NoRow}
      /\ proved' \in Stamp
  BY <1>1, CheckSndfaCodeType DEF RowKept, PCs, Outcomes, Typed
<1>3. GeneratedCodes'
  BY <1>1, MethodMoves, MovedKeepsGenerated DEF Typed, TypeOK
<1> QED
  BY <1>2, <1>3 DEF CheckCode, Typed, TypeOK

LEMMA MailCodeTyped ==
  ASSUME Typed, NEW r \in Requests, MailCode(r)
  PROVE  Typed'
<1>1. req[r].code \in MaybeCode
  BY RequestTyped DEF MailCode, Generating
<1>2. \E kind \in MailKinds :
        SendEmail(r, kind, req[r].email, req[r].code, "ok", "bad_request")
  BY DEF MailCode, MailKinds
<1>3. /\ req' \in [Requests -> Local] /\ inbox' \subseteq Mails
      /\ GeneratedCodes'
  <2>1. req[r].email \in Addresses \cup {None}
    BY RequestTyped DEF Local
  <2> QED
    BY <1>1, <1>2, <2>1, SendEmailTyped DEF PCs, Outcomes
<1> QED
  BY <1>3 DEF MailCode, Typed, TypeOK, history

LEMMA ResetPasswordTyped ==
  ASSUME Typed, NEW r \in Requests, ResetPassword(r)
  PROVE  Typed'
<1>1. CASE UserExists
  <2>1. PICK pw \in Passwords :
          /\ user' = [user EXCEPT !.password = pw]
          /\ Goto(r, [req[r] EXCEPT !.new = pw], "user_updated_callback")
    BY <1>1 DEF ResetPassword
  <2>2. [req[r] EXCEPT !.new = pw] \in Local /\ user' \in User
    BY <2>1, RequestTyped DEF Local, User, Typed, TypeOK
  <2>3. req' \in [Requests -> Local] /\ GeneratedCodes'
    BY <2>1, <2>2, GotoTyped, RequestTyped DEF PCs, HandlerSteps, Local
  <2> QED
    BY <2>2, <2>3 DEF ResetPassword, Typed, TypeOK, history
<1>2. CASE ~UserExists
  <2>1. req' \in [Requests -> Local] /\ GeneratedCodes'
    BY <1>2, AnswerTyped DEF ResetPassword, Outcomes
  <2> QED
    BY <1>2, <2>1 DEF ResetPassword, Typed, TypeOK, history
<1> QED
  BY <1>1, <1>2

LEMMA MailPasswordTyped ==
  ASSUME Typed, NEW r \in Requests, MailPassword(r)
  PROVE  Typed'
<1>1. /\ req[r].new \in MaybeCode \cup Passwords
      /\ req[r].email \in Addresses \cup {None}
  BY RequestTyped DEF Local, MaybeCode
<1>2. CASE req[r].email # None
  <2>1. SendEmail(r, "password", req[r].email, req[r].new, "ok", "ok")
    BY <1>2 DEF MailPassword
  <2>2. /\ req' \in [Requests -> Local] /\ inbox' \subseteq Mails
        /\ GeneratedCodes'
    BY <1>1, <2>1, SendEmailTyped DEF PCs, Outcomes, MailKinds
  <2> QED
    BY <2>2 DEF MailPassword, Typed, TypeOK, history
<1>3. CASE req[r].email = None
  <2>1. req' \in [Requests -> Local] /\ GeneratedCodes'
    BY <1>3, AnswerTyped DEF MailPassword, Outcomes
  <2> QED
    BY <1>3, <2>1 DEF MailPassword, Typed, TypeOK, history
<1> QED
  BY <1>2, <1>3

LEMMA ApiTyped ==
  ASSUME Typed, NEW r \in Requests, ApiStep(r)
  PROVE  Typed'
BY ApiCallTyped, EmailValidatedTyped, ApiWriteTyped, CheckCodeTyped,
   MailCodeTyped, ResetPasswordTyped, MailPasswordTyped DEF ApiStep

-----------------------------------------------------------------------------
(* The administrator's calls and the callbacks. *)

LEMMA ArriveTyped ==
  ASSUME Typed, NEW r \in Requests, NEW op \in APIOps, NEW pc \in PCs,
         Arrive(r, op, pc)
  PROVE  req' \in [Requests -> Local] /\ GeneratedCodes'
<1>1. [Idle EXCEPT !.op = op] \in Local /\ Idle.code \in MaybeCode
  BY ArriveLocal DEF Idle, MaybeCode
<1> QED
  BY <1>1, GotoTyped DEF Arrive, Idle

LEMMA UserChangeTyped ==
  ASSUME Typed, NEW r \in Requests,
         \/ CreateUser(r) \/ UpdateUser(r) \/ ScimUpdateUser(r)
         \/ DeleteUser(r) \/ StorePassword(r)
  PROVE  user' \in User /\ req' \in [Requests -> Local] /\ GeneratedCodes'
<1>0. /\ {"user_created_callback", "user_updated_callback", "remove_user",
          "ok", "bad_request", "unauthorized"} \subseteq PCs
      /\ {"create_user", "update_user", "delete_user"} \subseteq APIOps
  BY DEF PCs, HandlerSteps, Methods, Outcomes, APIOps
<1>1. user \in User /\ req[r] \in Local
  BY RequestTyped DEF Typed, TypeOK
<1>2. CASE CreateUser(r)
  <2>1. user' \in User
    BY <1>1, <1>2 DEF CreateUser, User
  <2>2. \E pc \in {"user_created_callback", "bad_request"} :
          Arrive(r, "create_user", pc)
    BY <1>2 DEF CreateUser
  <2> QED
    BY <1>0, <2>1, <2>2, ArriveTyped
<1>3. ASSUME NEW refused \in {"unauthorized", "bad_request"},
             ChangeUser(r, refused)
      PROVE  user' \in User /\ req' \in [Requests -> Local] /\ GeneratedCodes'
  <2>1. user' \in User
    BY <1>1, <1>3 DEF ChangeUser, User
  <2>2. \E pc \in {"user_updated_callback", refused} :
          Arrive(r, "update_user", pc)
    BY <1>3 DEF ChangeUser
  <2> QED
    BY <1>0, <2>1, <2>2, ArriveTyped
<1>4. CASE DeleteUser(r)
  <2>1. user' \in User
    BY <1>1, <1>4 DEF DeleteUser, User
  <2> QED
    BY <1>0, <1>4, <2>1, ArriveTyped DEF DeleteUser
<1>5. CASE StorePassword(r)
  <2>1. user' \in User
    BY <1>1, <1>5 DEF StorePassword, User, Local
  <2>2. Goto(r, req[r], "user_updated_callback") \/ Answer(r, "not_found")
    BY <1>5 DEF StorePassword
  <2> QED
    BY <1>0, <2>1, <2>2, GotoTyped, AnswerTyped, RequestTyped DEF Outcomes
<1> QED
  BY <1>2, <1>3, <1>4, <1>5 DEF UpdateUser, ScimUpdateUser

LEMMA LifecycleTyped ==
  ASSUME Typed, NEW r \in Requests, LifecycleStep(r)
  PROVE  Typed'
<1>0. {"set_user_creation_time", "update_user_modification_time", "mail",
       "ok", "not_found"} \subseteq PCs
  BY DEF PCs, HandlerSteps, Methods, Outcomes
<1>1. CASE /\ \/ CreateUser(r) \/ UpdateUser(r) \/ ScimUpdateUser(r)
              \/ DeleteUser(r) \/ StorePassword(r)
           /\ UNCHANGED <<now, row, inbox, history>>
  BY <1>1, UserChangeTyped DEF Typed, TypeOK, history
<1>2. ASSUME NEW callback, NEW method \in PCs, Callback(r, callback, method),
             UNCHANGED <<now, user, row, inbox, history>>
      PROVE  Typed'
  <2>1. PICK next \in PCs : Goto(r, req[r], next)
    BY <1>0, <1>2 DEF Callback
  <2>2. req' \in [Requests -> Local] /\ GeneratedCodes'
    BY <2>1, GotoTyped, RequestTyped
  <2> QED
    BY <1>2, <2>2 DEF Typed, TypeOK, history
<1>3. CASE /\ CallbackWrite(r)
           /\ renewed' = IF req'[r].pc = "error" THEN renewed ELSE now
           /\ UNCHANGED <<now, user, inbox, badTries, proved>>
  <2>1. PICK next \in PCs : \/ SetUserCreationTime(r, next)
                            \/ UpdateUserModificationTime(r, next)
    BY <1>0, <1>3 DEF CallbackWrite
  <2>2. req' \in [Requests -> Local] /\ row' \in Row \cup {NoRow}
    BY <2>1, RenewType
    DEF RowKept, Typed, SetUserCreationTime, UpdateUserModificationTime
  <2>3. GeneratedCodes'
    BY <2>1, MethodMoves, MovedKeepsGenerated DEF Typed, TypeOK
  <2>4. renewed' \in Stamp
    BY <1>3 DEF Typed, TypeOK, Stamp
  <2> QED
    BY <1>3, <2>2, <2>3, <2>4 DEF Typed, TypeOK
<1>4. CASE RemoveUser(r, "ok") /\ UNCHANGED <<now, user, inbox, history>>
  <2>1. req' \in [Requests -> Local] /\ GeneratedCodes'
    BY <1>0, <1>4, GotoTyped, RequestTyped DEF RemoveUser
  <2>2. row' \in Row \cup {NoRow}
    BY <1>4 DEF RemoveUser, Typed, TypeOK
  <2> QED
    BY <1>4, <2>1, <2>2 DEF Typed, TypeOK, history
<1> QED
  BY <1>0, <1>1, <1>2, <1>3, <1>4 DEF LifecycleStep

LEMMA TickTyped == Typed /\ Tick => Typed'
BY DEF Tick, Typed, TypeOK, GeneratedCodes, history

LEMMA CrashTyped ==
  ASSUME Typed, NEW r \in Requests, Crash(r)
  PROVE  Typed'
<1>1. req' \in [Requests -> Local] /\ GeneratedCodes'
  BY AnswerTyped DEF Crash, Outcomes
<1> QED
  BY <1>1 DEF Crash, Typed, TypeOK, history

LEMMA InitTyped == Init => Typed
<1> SUFFICES ASSUME Init PROVE Typed
  OBVIOUS
<1>1. req \in [Requests -> Local] /\ GeneratedCodes
  BY IdleType DEF Init, GeneratedCodes, Idle, MaybeCode
<1>2. row \in Row \cup {NoRow}
  <2>1. NewRow(0, 0, None) \in Row
    BY NewRowType DEF Stamp
  <2>2. row = NoRow \/ row = NewRow(0, 0, None)
    BY DEF Init
  <2> QED
    BY <2>1, <2>2
<1>3. user \in User
  BY DEF Init, User
<1> QED
  BY <1>1, <1>2, <1>3 DEF Init, Typed, TypeOK, Stamp

LEMMA NextTyped == Typed /\ [Next]_vars => Typed'
<1> SUFFICES ASSUME Typed, [Next]_vars PROVE Typed'
  OBVIOUS
<1>1. CASE UNCHANGED vars
  BY <1>1 DEF vars, history, Typed, TypeOK, GeneratedCodes
<1>2. CASE Next
  BY <1>2, TickTyped, SessionTyped, IdentityTyped, ApiTyped, LifecycleTyped,
     CrashTyped DEF Next
<1> QED
  BY <1>1, <1>2

(* Type correctness with the invariant it rests on.                         *)
THEOREM TypeCorrect == Spec => []Typed
BY InitTyped, NextTyped, PTL DEF Spec

(* Whatever the requests and the calls, the row, the requests, the mails    *)
(* and the counts keep their types: arithmetic on a count never meets a     *)
(* NULL, and a code nobody issued is never stored (methods of SPassword).   *)
THEOREM TypeInvariant == Spec => []TypeOK
<1>1. Typed => TypeOK
  BY DEF Typed
<1> QED
  BY <1>1, TypeCorrect, PTL

-----------------------------------------------------------------------------
(* For the other theorems: what a step can be.                              *)

(* The steps that write the row. *)

Writes(r) == \/ StoreChallenge(r) \/ Commit(r) \/ InsertLogin(r)
             \/ ApiWrite(r) \/ CheckCode(r) \/ CallbackWrite(r)

LEMMA Writers ==
  ASSUME [Next]_vars
  PROVE  UNCHANGED row \/ \E r \in Requests : Writes(r) \/ RemoveUser(r, "ok")
BY DEF Next, vars, Tick, GetSPasswordSession, Crash, IdentityStep, Authenticate,
       ChangePassword, LoadUser, CheckPassword, RecordAttempt, Challenge,
       MailChallenge, Register, ApiStep, ApiCall, EmailValidated, MailCode,
       ResetPassword, MailPassword, LifecycleStep, Writes

(* A step moves at most one request: it starts a call, ends it, or goes on  *)
(* with it, and then a code changes only where the server generates one.    *)

Starts(r) ==
  \/ \E pw \in Passwords : Authenticate(r, pw)
  \/ \E pw, new \in Passwords : ChangePassword(r, pw, new)
  \/ ApiCall(r) \/ CreateUser(r) \/ UpdateUser(r) \/ ScimUpdateUser(r)
  \/ DeleteUser(r)

Recoded(r, c) ==
  \/ c = req[r].code
  \/ req[r].op \in {"authenticate", "change_password", "recover"} /\ FreshCode(c)
  \/ /\ RecordAttempt(r) /\ row # NoRow /\ CodeReusable(row, now)
     /\ c = row.sndfa_code /\ req'[r].pc = "mail"

Continues(r) ==
  /\ req'[r].op = req[r].op
  /\ req'[r].new = req[r].new
  /\ Recoded(r, req'[r].code)

OnlyMoves(r) == \A q \in Requests \ {r} : req'[q] = req[q]

GoesOn(r) == OnlyMoves(r) /\ (Continues(r) \/ req'[r].op = "none")

LEMMA GotoGoesOn ==
  ASSUME Typed, NEW r \in Requests, NEW l, NEW next, Goto(r, l, next), l \in Local,
         l.op = req[r].op, l.new = req[r].new, Recoded(r, l.code)
  PROVE  GoesOn(r)
<1>1. req \in [Requests -> Local]
  BY DEF Typed, TypeOK
<1>2. CASE next \in Outcomes
  BY <1>1, <1>2 DEF Goto, Answered, Idle, GoesOn, OnlyMoves
<1>3. CASE next \notin Outcomes
  BY <1>1, <1>3 DEF Goto, Local, Continues, GoesOn, OnlyMoves
<1> QED
  BY <1>2, <1>3

LEMMA GotoMovesOnly ==
  ASSUME Typed, NEW r \in Requests, NEW l, NEW next, Goto(r, l, next)
  PROVE  OnlyMoves(r)
BY DEF Goto, OnlyMoves, Typed, TypeOK

LEMMA AnswerGoesOn ==
  ASSUME Typed, NEW r \in Requests, NEW o, Answer(r, o)
  PROVE  GoesOn(r)
BY DEF Answer, Answered, Idle, GoesOn, OnlyMoves, Typed, TypeOK

LEMMA PlainGoesOn ==
  ASSUME Typed, NEW r \in Requests, NEW next, Goto(r, req[r], next)
  PROVE  GoesOn(r)
BY RequestTyped, GotoGoesOn DEF Recoded

LEMMA WritesGoOn ==
  ASSUME Typed, NEW r \in Requests, Writes(r) \/ RemoveUser(r, "ok")
  PROVE  GoesOn(r)
<1>1. (\E next : Goto(r, req[r], next)) \/ Answer(r, "error")
  BY DEF Writes, StoreChallenge, Commit, InsertLogin, ApiWrite, CheckCode,
         CallbackWrite, RemoveUser, SetUserSndfaCode, SetCheckEmailCode,
         CheckEmailCode, ModifySndfa, ModifyBlack, CheckSndfaCode,
         SetUserCreationTime, UpdateUserModificationTime, RenewPassword,
         Flush, Insert, Skip
<1> QED
  BY <1>1, PlainGoesOn, AnswerGoesOn

LEMMA IdentityGoesOn ==
  ASSUME Typed, NEW r \in Requests,
         \/ LoadUser(r) \/ CheckPassword(r) \/ RecordAttempt(r) \/ Challenge(r)
         \/ MailChallenge(r) \/ Register(r)
  PROVE  GoesOn(r)
<1>0. req[r] \in Local
  BY RequestTyped
<1>1. CASE LoadUser(r) \/ Register(r)
  <2>1. \E b \in BOOLEAN : \E next :
          \/ Goto(r, [req[r] EXCEPT !.right = b], next)
          \/ Goto(r, [req[r] EXCEPT !.token = b], next)
    BY <1>0, <1>1 DEF LoadUser, Register, UserExists, Local
  <2>2. \A b \in BOOLEAN :
          LET l == [req[r] EXCEPT !.right = b]
              m == [req[r] EXCEPT !.token = b] IN
            /\ l \in Local /\ l.op = req[r].op /\ l.new = req[r].new
            /\ l.code = req[r].code
            /\ m \in Local /\ m.op = req[r].op /\ m.new = req[r].new
            /\ m.code = req[r].code
    BY <1>0 DEF Local
  <2> QED
    BY <2>1, <2>2, GotoGoesOn DEF Recoded
<1>2. CASE RecordAttempt(r)
  <2> DEFINE n == IF row = NoRow THEN 0 ELSE row.login_attempts
             l == [req[r] EXCEPT !.at = now, !.tries = n]
             t == [l EXCEPT !.token = Granted(row, now)]
             c == [l EXCEPT !.code = row.sndfa_code]
  <2>1. n \in Nat /\ now \in Nat /\ Granted(row, now) \in BOOLEAN
    BY DEF Typed, TypeOK, Row, Granted
  <2>2. row # NoRow => row.sndfa_code \in MaybeCode
    BY DEF Row, Typed, TypeOK
  <2>3. \/ \E next : Goto(r, l, next)
        \/ Goto(r, t, "commit")
        \/ row # NoRow /\ CodeReusable(row, now) /\ Goto(r, c, "mail")
    BY <1>2 DEF RecordAttempt
  <2>4. c.code = row.sndfa_code /\ l.code = req[r].code /\ t.code = req[r].code
    BY <1>0 DEF Local
  <2> HIDE DEF n
  <2>5. /\ l \in Local /\ l.op = req[r].op /\ l.new = req[r].new
    BY <1>0, <2>1 DEF Local
  <2> HIDE DEF l
  <2>6. /\ t \in Local /\ t.op = req[r].op /\ t.new = req[r].new
        /\ row # NoRow => c \in Local /\ c.op = req[r].op /\ c.new = req[r].new
    BY <2>1, <2>2, <2>5 DEF Local
  <2>7. row # NoRow /\ Goto(r, c, "mail") => req'[r].pc = "mail"
    BY <2>6 DEF Goto, Outcomes, Local, Typed, TypeOK
  <2> HIDE DEF t, c
  <2> QED
    BY <1>2, <2>3, <2>4, <2>5, <2>6, <2>7, GotoGoesOn DEF Recoded
<1>3. CASE Challenge(r)
  <2>1. \A c \in Codes : LET l == [req[r] EXCEPT !.code = c] IN
          /\ l \in Local /\ l.op = req[r].op /\ l.new = req[r].new
          /\ l.code = c
    BY <1>0 DEF Local, MaybeCode
  <2>2. req[r].op \in {"authenticate", "change_password"}
    BY <1>3 DEF Challenge, At
  <2>3. \/ \E c \in Codes : \E next :
             FreshCode(c) /\ Goto(r, [req[r] EXCEPT !.code = c], next)
        \/ Answer(r, "not_found")
    BY <1>3 DEF Challenge
  <2> QED
    BY <2>1, <2>2, <2>3, GotoGoesOn, AnswerGoesOn DEF Recoded
<1>4. CASE CheckPassword(r) \/ MailChallenge(r)
  <2>1. (\E next : Goto(r, req[r], next)) \/ (\E o : Answer(r, o))
    BY <1>4 DEF CheckPassword, MailChallenge, SendEmail
  <2> QED
    BY <2>1, PlainGoesOn, AnswerGoesOn
<1> QED
  BY <1>1, <1>2, <1>3, <1>4

LEMMA ApiGoesOn ==
  ASSUME Typed, NEW r \in Requests,
         EmailValidated(r) \/ MailCode(r) \/ MailPassword(r)
  PROVE  GoesOn(r)
<1>1. \A c \in Codes : LET l == [req[r] EXCEPT !.code = c] IN
        /\ l \in Local /\ l.op = req[r].op /\ l.new = req[r].new
        /\ l.code = c
  BY RequestTyped DEF Local, MaybeCode
<1>2. \/ \E next : Goto(r, req[r], next)
      \/ \E o : Answer(r, o)
      \/ /\ req[r].op = "recover"
         /\ \E c \in Codes : \E next :
              FreshCode(c) /\ Goto(r, [req[r] EXCEPT !.code = c], next)
  BY DEF EmailValidated, MailCode, MailPassword, SendEmail
<1> QED
  BY <1>1, <1>2, GotoGoesOn, PlainGoesOn, AnswerGoesOn DEF Recoded

LEMMA SessionGoesOn ==
  ASSUME Typed, NEW r \in Requests, GetSPasswordSession(r)
  PROVE  GoesOn(r)
<1>1. req' = [req EXCEPT ![r] = [req[r] EXCEPT !.loaded = TRUE, !.ref = row]]
  BY DEF GetSPasswordSession, Typed, TypeOK
<1> QED
  BY <1>1, RequestTyped DEF GoesOn, Continues, Recoded, OnlyMoves, Local, Typed,
                            TypeOK

LEMMA StartsMoveOnly ==
  ASSUME Typed, NEW r \in Requests, Starts(r) \/ ResetPassword(r)
  PROVE  OnlyMoves(r)
<1>1. (\E l, next : Goto(r, l, next)) \/ (\E o : Answer(r, o))
  BY DEF Starts, Authenticate, ChangePassword, BlockCheck, ApiCall, AskCheckEmail,
         CheckEmail, AskModifySndfa, CheckSndfa, AskModifyBlack, Recover, Reset,
         Call, CreateUser, UpdateUser, ScimUpdateUser, ChangeUser, DeleteUser,
         Arrive, ResetPassword
<1> QED
  BY <1>1, GotoMovesOnly, AnswerGoesOn DEF GoesOn

LEMMA Movement ==
  ASSUME Typed, [Next]_vars
  PROVE  \/ UNCHANGED req
         \/ \E r \in Requests : \/ GoesOn(r)
                                \/ OnlyMoves(r) /\ (Starts(r) \/ ResetPassword(r))
<1>1. ASSUME NEW r \in Requests, IdentityStep(r)
      PROVE  GoesOn(r) \/ (OnlyMoves(r) /\ Starts(r))
  BY <1>1, IdentityGoesOn, WritesGoOn, StartsMoveOnly
  DEF IdentityStep, Writes, Starts
<1>2. ASSUME NEW r \in Requests, ApiStep(r)
      PROVE  GoesOn(r) \/ (OnlyMoves(r) /\ (Starts(r) \/ ResetPassword(r)))
  BY <1>2, ApiGoesOn, WritesGoOn, StartsMoveOnly DEF ApiStep, Writes, Starts
<1>3. ASSUME NEW r \in Requests, LifecycleStep(r)
      PROVE  GoesOn(r) \/ (OnlyMoves(r) /\ Starts(r))
  <2>1. CASE \/ Callback(r, "user_created_callback", "set_user_creation_time")
             \/ Callback(r, "user_updated_callback",
                         "update_user_modification_time")
    BY <2>1, PlainGoesOn DEF Callback
  <2>2. CASE StorePassword(r)
    BY <2>2, PlainGoesOn, AnswerGoesOn DEF StorePassword
  <2> QED
    BY <1>3, <2>1, <2>2, WritesGoOn, StartsMoveOnly
    DEF LifecycleStep, Writes, Starts
<1>4. ASSUME NEW r \in Requests, Crash(r) PROVE GoesOn(r)
  BY <1>4, AnswerGoesOn DEF Crash
<1> QED
  BY <1>1, <1>2, <1>3, <1>4, SessionGoesOn DEF Next, vars, Tick

(* What a new call carries, unless it was answered at once.                 *)
NewCall(l) ==
  \/ l.op = "none"
  \/ l.op = "authenticate" /\ l.code = None
  \/ l.op = "change_password" /\ l.code = None /\ l.new \in Strong
  \/ l.op \in {"modify_sndfa", "modify_black", "recover", "create_user",
               "update_user", "delete_user"} /\ l.code = None
  \/ l.op \in {"check_email", "check_sndfa", "reset"} /\ l.code \in KnownCodes
  \/ l.op = "ask_check_email" /\ FreshCode(l.code)

LEMMA GotoBegins ==
  ASSUME Typed, NEW r \in Requests, NEW l \in Local, NEW next, Goto(r, l, next)
  PROVE  \/ req'[r].op = "none" /\ next \in Outcomes
         \/ /\ next \notin Outcomes
            /\ req'[r].op = l.op /\ req'[r].code = l.code /\ req'[r].new = l.new
<1>1. req \in [Requests -> Local]
  BY DEF Typed, TypeOK
<1> QED
  BY <1>1 DEF Goto, Answered, Idle, Local

LEMMA AnswerEnds ==
  ASSUME Typed, NEW r \in Requests, NEW o, Answer(r, o)
  PROVE  req'[r].op = "none"
BY DEF Answer, Answered, Idle, Typed, TypeOK

LEMMA LoginBegins ==
  ASSUME Typed, NEW r \in Requests,
         \/ \E pw \in Passwords : Authenticate(r, pw)
         \/ \E pw, new \in Passwords : ChangePassword(r, pw, new)
  PROVE  NewCall(req'[r])
<1>1. ASSUME NEW pw \in Passwords, Authenticate(r, pw) PROVE NewCall(req'[r])
  <2> DEFINE l == [Idle EXCEPT !.op = "authenticate", !.password = pw]
  <2>1. l \in Local
    BY LoginLocal
  <2>3. l.op = "authenticate" /\ l.code = None
    BY DEF Idle
  <2>2. \E next : Goto(r, l, next)
    BY <1>1 DEF Authenticate, BlockCheck
  <2> HIDE DEF l
  <2> QED
    BY <2>1, <2>2, <2>3, GotoBegins DEF NewCall
<1>2. ASSUME NEW pw \in Passwords, NEW new \in Passwords,
             ChangePassword(r, pw, new)
      PROVE  NewCall(req'[r])
  <2> DEFINE l == [Idle EXCEPT !.op = "change_password", !.password = pw,
                               !.new = new]
  <2>1. l \in Local
    BY LoginLocal
  <2>3. l.op = "change_password" /\ l.code = None /\ l.new = new
    BY DEF Idle
  <2>2. \/ new \in Strong /\ \E next : Goto(r, l, next)
        \/ Answer(r, "bad_request")
    BY <1>2, BoundsAssumption DEF ChangePassword, BlockCheck, StrongCheckPassword
  <2> HIDE DEF l
  <2> QED
    BY <2>1, <2>2, <2>3, GotoBegins, AnswerEnds DEF NewCall
<1> QED
  BY <1>1, <1>2

LEMMA ArriveBegins ==
  ASSUME Typed, NEW r \in Requests,
         CreateUser(r) \/ UpdateUser(r) \/ ScimUpdateUser(r) \/ DeleteUser(r)
  PROVE  NewCall(req'[r])
<1>0. PICK op \in {"create_user", "update_user", "delete_user"} :
        \E next : Goto(r, [Idle EXCEPT !.op = op], next)
  BY DEF CreateUser, UpdateUser, ScimUpdateUser, ChangeUser, DeleteUser, Arrive
<1>1. PICK next : Goto(r, [Idle EXCEPT !.op = op], next)
  BY <1>0
<1>2. [Idle EXCEPT !.op = op] \in Local
  BY ArriveLocal DEF APIOps
<1>3. [Idle EXCEPT !.op = op].op = op /\ [Idle EXCEPT !.op = op].code = None
  BY DEF Idle
<1> QED
  BY <1>1, <1>2, <1>3, GotoBegins DEF NewCall

LEMMA CallBegins ==
  ASSUME Typed, NEW r \in Requests, NEW op \in APIOps,
         NEW c \in MaybeCode \cup {BadCode}, NEW enable \in BOOLEAN,
         NEW first, Call(r, op, c, enable, first)
  PROVE  \/ req'[r].op = "none" /\ first \in Outcomes
         \/ first \notin Outcomes /\ req'[r].op = op /\ req'[r].code = c
<1> DEFINE l == [Idle EXCEPT !.op = op, !.code = c, !.enable = enable,
                             !.email = user.email]
<1>0. user.email \in Addresses \cup {None}
  BY DEF Typed, TypeOK, User
<1>1. l \in Local
  BY <1>0, CallLocal
<1>3. l.op = op /\ l.code = c
  BY DEF Idle
<1>2. Goto(r, l, first)
  BY DEF Call
<1> HIDE DEF l
<1> QED
  BY <1>1, <1>2, <1>3, GotoBegins

LEMMA ApiCallBegins ==
  ASSUME Typed, NEW r \in Requests, ApiCall(r)
  PROVE  NewCall(req'[r])
<1>0. Codes \cup KnownCodes \cup {None} \subseteq MaybeCode \cup {BadCode}
  BY KnownCodesType DEF MaybeCode
<1>1. CASE AskCheckEmail(r)
  <2>1. ASSUME NEW c \in Codes, FreshCode(c),
               Call(r, "ask_check_email", c, FALSE, "set_check_email_code")
        PROVE  NewCall(req'[r])
    BY <1>0, <2>1, CallBegins DEF NewCall, APIOps
  <2>2. ASSUME ~(UserExists /\ user.email # None),
               Call(r, "ask_check_email", None, FALSE,
                    GetUser(EmailDefined("set_check_email_code")))
        PROVE  NewCall(req'[r])
    <3>1. GetUser(EmailDefined("set_check_email_code")) \in Outcomes
      BY <2>2 DEF GetUser, EmailDefined, Outcomes
    <3>2. "ask_check_email" \in APIOps
      BY DEF APIOps
    <3> QED
      BY <1>0, <2>2, <3>1, <3>2, CallBegins DEF NewCall
  <2> QED
    BY <1>1, <2>1, <2>2 DEF AskCheckEmail
<1>2. CASE CheckEmail(r) \/ CheckSndfa(r) \/ Reset(r)
  <2>1. \E op \in {"check_email", "check_sndfa", "reset"}, c \in KnownCodes :
          \E first : Call(r, op, c, FALSE, first)
    BY <1>2 DEF CheckEmail, CheckSndfa, Reset
  <2>2. {"check_email", "check_sndfa", "reset"} \subseteq APIOps
    BY DEF APIOps
  <2> QED
    BY <1>0, <2>1, <2>2, CallBegins DEF NewCall
<1>3. CASE AskModifySndfa(r) \/ AskModifyBlack(r) \/ Recover(r)
  <2>1. \E op \in {"modify_sndfa", "modify_black", "recover"},
           enable \in BOOLEAN : \E first : Call(r, op, None, enable, first)
    BY <1>3 DEF AskModifySndfa, AskModifyBlack, Recover
  <2>2. {"modify_sndfa", "modify_black", "recover"} \subseteq APIOps
    BY DEF APIOps
  <2> QED
    BY <1>0, <2>1, <2>2, CallBegins DEF NewCall
<1> QED
  BY <1>1, <1>2, <1>3 DEF ApiCall

LEMMA NewCalls ==
  ASSUME Typed, NEW r \in Requests, Starts(r)
  PROVE  NewCall(req'[r])
BY LoginBegins, ArriveBegins, ApiCallBegins DEF Starts
=============================================================================
