---------------------------- MODULE LockoutProofs ----------------------------
(***************************************************************************)
(* As long as requests do not overlap, the plugin keeps what Lockout        *)
(* promises about bad passwords, for any settings and any number of         *)
(* requests: every step of the plugin is a step of Lockout, or shows        *)
(* nothing of a login's verdict, of the count or of its time.               *)
(***************************************************************************)
EXTENDS LockoutRefinement, SerialProofs

-----------------------------------------------------------------------------
(* The row read as the state of Lockout.                                    *)

LEMMA Bounds ==
  ASSUME Typed
  PROVE  /\ MaxTries \in Nat /\ BlockTime \in Nat /\ now \in Nat
         /\ row # NoRow =>
              /\ row.login_attempts \in Nat
              /\ row.last_login_attempt_time \in Nat \cup {None}
BY SettingsAssumption DEF Typed, TypeOK, Row, Stamp

LEMMA Blank ==
  ASSUME row = NoRow \/ (row.login_attempts = 0 /\ row.last_login_attempt_time = None)
  PROVE  RowTries = 0 /\ RowAge = BlockTime
BY SettingsAssumption DEF RowTries, RowAge, Lowest

LEMMA BlankNext ==
  ASSUME \/ row' = NoRow
         \/ row'.login_attempts = 0 /\ row'.last_login_attempt_time = None
  PROVE  RowTries' = 0 /\ RowAge' = BlockTime
BY SettingsAssumption DEF RowTries, RowAge, Lowest

(* The block check of authenticate is the one Lockout makes.                *)
LEMMA BlockCheckIsPolicy ==
  ASSUME Typed, AttemptsStamped
  PROVE  LockedOut <=> Policy!LockedOut
<1>1. CASE row = NoRow
  BY <1>1, Bounds, Blank DEF LockedOut, Policy!LockedOut
<1>2. CASE row # NoRow
  <2>1. RowTries > MaxTries <=> row.login_attempts > MaxTries
    BY <1>2, Bounds DEF RowTries, Lowest
  <2>2. CASE row.last_login_attempt_time = None
    <3>1. ~(row.login_attempts > MaxTries)
      BY <1>2, <2>2, Bounds DEF AttemptsStamped
    <3> QED
      BY <1>2, <2>1, <3>1 DEF LockedOut, Blocked, OverTries, Policy!LockedOut
  <2>3. CASE row.last_login_attempt_time \in Nat
    <3>1. RowAge < BlockTime <=> row.last_login_attempt_time + BlockTime > now
      BY <1>2, <2>3, Bounds, NoneAssumption DEF RowAge, Lowest
    <3> QED
      BY <1>2, <2>1, <3>1
      DEF LockedOut, Blocked, OverTries, StillBlocked, Policy!LockedOut
  <2> QED
    BY <1>2, <2>2, <2>3, Bounds
<1> QED
  BY <1>1, <1>2

-----------------------------------------------------------------------------
(* The requests read as the state of Lockout.  A request that is not judged *)
(* is where its pc says, and waits for nothing.                             *)

PolicyStep == [Policy!LockoutNext]_(Policy!lvars)

JudgedSteps == {"challenge", "set_user_sndfa_code", "mail", "commit", "register",
                "insert"}

Plain(pc) ==
  IF pc \in {"user", "password", "record"} THEN "trying"
  ELSE IF pc \in Changing THEN "changing"
  ELSE IF pc = "remove_user" THEN "leaving"
  ELSE IF pc = "unauthorized" THEN "refused"
  ELSE IF pc \in {"blocked", "expired"} THEN pc
  ELSE IF pc \in {"error", "not_found"} THEN "failed"
  ELSE "idle"

(* A judged login is to get a token only for a right password.              *)
Honest(l) == Judged(l) /\ l.token => l.right

Verdict == \A r \in Requests : Honest(req[r])

LEMMA PlainStage ==
  ASSUME NEW l, ~Judged(l)
  PROVE  Stage(l) = Plain(l.pc) /\ Wait(l) = 0 /\ Honest(l)
BY DEF Stage, Wait, Plain, Honest

LEMMA JudgedStage ==
  ASSUME NEW l, Judged(l)
  PROVE  /\ Stage(l) = IF l.right THEN "right" ELSE "wrong"
         /\ Wait(l) = Lowest(now - l.at, BlockTime)
BY DEF Stage, Wait, Judged

LEMMA FreeStage ==
  ASSUME NEW r \in Requests, Free(r)
  PROVE  /\ ~Judged(req[r]) /\ Stage(req[r]) = Plain(req[r].pc)
         /\ Plain(req[r].pc) \in Policy!Calm
<1>1. ~Judged(req[r])
  BY DEF Free, Outcomes, Judged
<1>2. Plain(req[r].pc) \in Policy!Calm
  BY DEF Free, Outcomes, Plain, Changing, Policy!Calm
<1> QED
  BY <1>1, <1>2, PlainStage

(* A step after which r is at stage "to", with no verdict pending.          *)
Moves(r, to) ==
  /\ OnlyMoves(r) /\ UNCHANGED now
  /\ Stage(req'[r]) = to /\ Wait(req'[r]) = 0 /\ Honest(req'[r])

LEMMA MovesTo ==
  ASSUME NEW r \in Requests, NEW to, Moves(r, to)
  PROVE  Policy!To(r, to)
<1>1. \A q \in Requests : q # r => req'[q] = req[q]
  BY DEF Moves, OnlyMoves
<1>2. Stages' = [Stages EXCEPT ![r] = to]
  BY <1>1 DEF Moves, Stages
<1>3. Wait(req[r])' = 0
  BY DEF Moves, Wait
<1>4. \A q \in Requests : q # r => Wait(req[q])' = Wait(req[q])
  BY <1>1 DEF Moves, Wait
<1>5. Waits' = [Waits EXCEPT ![r] = 0]
  BY <1>3, <1>4 DEF Waits
<1> QED
  BY <1>2, <1>5 DEF Policy!To

LEMMA GotoMovesTo ==
  ASSUME Typed, NEW r \in Requests, NEW l \in Local, NEW next, Goto(r, l, next),
         UNCHANGED now, next \notin JudgedSteps \/ l.op \notin Logins
  PROVE  Moves(r, Plain(next))
<1>1. OnlyMoves(r) /\ req'[r].pc = next
  BY GotoMovesOnly, GotoArrives
<1>2. ~Judged(req'[r])
  <2>1. CASE next \notin JudgedSteps
    BY <1>1, <2>1 DEF Judged, JudgedSteps
  <2>2. CASE next \in Outcomes
    BY <1>1, <2>2 DEF Judged, Outcomes
  <2>3. CASE next \notin Outcomes /\ l.op \notin Logins
    <3>1. req'[r] = [l EXCEPT !.pc = next, !.loaded = FALSE, !.ref = NoRow]
      BY <2>3 DEF Goto, Typed, TypeOK
    <3>2. req'[r].op = l.op
      BY <3>1 DEF Local
    <3> QED
      BY <2>3, <3>2 DEF Judged, Logins
  <2> QED
    BY <2>1, <2>2, <2>3
<1> QED
  BY <1>1, <1>2, PlainStage DEF Moves

LEMMA AnswerMovesTo ==
  ASSUME Typed, NEW r \in Requests, NEW o \in Outcomes, Answer(r, o), UNCHANGED now
  PROVE  Moves(r, Plain(o))
<1>1. req'[r].pc = o /\ OnlyMoves(r)
  BY AnswerArrives DEF Answer, OnlyMoves, Typed, TypeOK
<1>2. ~Judged(req'[r])
  BY <1>1 DEF Judged, Outcomes
<1> QED
  BY <1>1, <1>2, PlainStage DEF Moves

-----------------------------------------------------------------------------
(* Steps of Lockout, by the stages they lead from and to.                   *)

(* What a step of r must be: one of Lockout's, that leaves r honest.        *)
Follows(r) == PolicyStep /\ Honest(req'[r])

StillCounted == UNCHANGED <<RowTries, RowAge>>

LEMMA StillIsCounted ==
  ASSUME UNCHANGED now, CountStill
  PROVE  StillCounted
<1>1. CASE row' = row
  BY <1>1 DEF StillCounted, RowTries, RowAge
<1>2. CASE /\ row # NoRow /\ row' # NoRow
           /\ row'.login_attempts = row.login_attempts
           /\ row'.last_login_attempt_time = row.last_login_attempt_time
  <2>1. RowTries' = RowTries
    BY <1>2 DEF RowTries, Lowest
  <2>2. RowAge' = RowAge
    BY <1>2 DEF RowAge, Lowest
  <2> QED
    BY <2>1, <2>2 DEF StillCounted
<1> QED
  BY <1>1, <1>2 DEF CountStill

LEMMA OneClientActs ==
  ASSUME NEW r \in Requests,
         \/ Policy!Enter(r) \/ Policy!Refuse(r) \/ Policy!Judge(r)
         \/ Policy!CountWrong(r) \/ Policy!CountRight(r) \/ Policy!GiveUp(r)
         \/ Policy!Other(r) \/ Policy!Forgive(r) \/ Policy!Forget(r)
  PROVE  PolicyStep
BY DEF PolicyStep, Policy!LockoutNext

LEMMA Rests ==
  ASSUME NEW r \in Requests, Moves(r, Stage(req[r])), Wait(req[r]) = 0, StillCounted
  PROVE  Follows(r)
<1>1. Policy!To(r, Stage(req[r]))
  BY MovesTo
<1>2. Stages[r] = Stage(req[r]) /\ Waits[r] = 0
  BY DEF Stages, Waits
<1>3. UNCHANGED <<Stages, Waits>>
  BY <1>1, <1>2 DEF Policy!To, Stages, Waits
<1> QED
  BY <1>3 DEF PolicyStep, Policy!lvars, StillCounted, Moves, Follows

LEMMA Others ==
  ASSUME NEW r \in Requests, Stage(req[r]) \in Policy!Calm,
         NEW to \in {"idle", "refused", "failed", "changing", "leaving"},
         Moves(r, to), StillCounted
  PROVE  Follows(r)
<1>1. Policy!Other(r)
  BY MovesTo DEF Policy!Other, Policy!Uncounted, StillCounted, Stages
<1> QED
  BY <1>1, OneClientActs DEF Moves, Follows

(* An error is one of Lockout's whatever the stage.                         *)
LEMMA Fails ==
  ASSUME NEW r \in Requests, Moves(r, "failed"), StillCounted
  PROVE  Follows(r)
<1>1. Policy!To(r, "failed") /\ Policy!Uncounted /\ Stages[r] = Stage(req[r])
  BY MovesTo DEF StillCounted, Policy!Uncounted, Stages
<1>2. CASE Stage(req[r]) \in {"trying", "right", "wrong"}
  BY <1>1, <1>2, OneClientActs DEF Policy!GiveUp, Policy!Verdicts, Moves, Follows
<1>3. CASE Stage(req[r]) = "changing"
  BY <1>1, <1>3, OneClientActs DEF Policy!Forgive, Moves, Follows
<1>4. CASE Stage(req[r]) = "leaving"
  BY <1>1, <1>4, OneClientActs DEF Policy!Forget, Moves, Follows
<1>5. CASE Stage(req[r]) \in Policy!Calm
  BY <1>5, Others
<1>6. \/ Stage(req[r]) \in {"trying", "right", "wrong", "changing", "leaving"}
      \/ Stage(req[r]) \in Policy!Calm
  <2>1. CASE Judged(req[r])
    BY <2>1, JudgedStage
  <2>2. CASE ~Judged(req[r])
    <3>1. Plain(req[r].pc) \in {"trying", "changing", "leaving"} \cup Policy!Calm
      BY DEF Plain, Policy!Calm
    <3> QED
      BY <2>2, <3>1, PlainStage
  <2> QED
    BY <2>1, <2>2
<1> QED
  BY <1>2, <1>3, <1>4, <1>5, <1>6

LEMMA AnswerFails ==
  ASSUME Typed, NEW r \in Requests, NEW o \in {"error", "not_found"}, Answer(r, o),
         UNCHANGED now, StillCounted
  PROVE  Follows(r)
<1>1. o \in Outcomes /\ Plain(o) = "failed"
  BY DEF Outcomes, Plain, Changing
<1> QED
  BY <1>1, AnswerMovesTo, Fails

(* A call starts, or goes on, where Lockout sees nothing of it.             *)
LEMMA GoesUnseen ==
  ASSUME Typed, NEW r \in Requests, Stage(req[r]) \in Policy!Calm,
         NEW l \in Local, NEW next, Goto(r, l, next),
         next \notin JudgedSteps \/ l.op \notin Logins,
         next \notin {"user", "password", "record", "blocked", "expired"},
         UNCHANGED now, StillCounted
  PROVE  Follows(r)
<1>1. Plain(next) \in {"idle", "refused", "failed", "changing", "leaving"}
  BY DEF Plain
<1> QED
  BY <1>1, GotoMovesTo, Others

(* A judged login goes on with its verdict as it is.                        *)
LEMMA StaysJudged ==
  ASSUME Typed, NEW r \in Requests, Judged(req[r]), UNCHANGED now, StillCounted,
         NEW l \in Local, l.op = req[r].op, l.right = req[r].right,
         l.at = req[r].at, l.token => l.right,
         NEW next \in JudgedSteps, Goto(r, l, next)
  PROVE  Follows(r)
<1>1. OnlyMoves(r) /\ next \notin Outcomes
  BY GotoMovesOnly DEF JudgedSteps, Outcomes
<1>2. req'[r] = [l EXCEPT !.pc = next, !.loaded = FALSE, !.ref = NoRow]
  BY <1>1 DEF Goto, Typed, TypeOK
<1>3. /\ req'[r].op = req[r].op /\ req'[r].pc = next
      /\ req'[r].right = req[r].right /\ req'[r].at = req[r].at
      /\ req'[r].token = l.token
  BY <1>2 DEF Local
<1>4. Judged(req'[r]) /\ Honest(req'[r])
  BY <1>3 DEF Judged, Honest, JudgedSteps
<1>5. Stage(req'[r]) = Stage(req[r]) /\ Wait(req[r])' = Wait(req[r])
  BY <1>3, <1>4, JudgedStage DEF Wait, Judged
<1>6. \A q \in Requests : q # r => req'[q] = req[q]
  BY <1>1 DEF OnlyMoves
<1>7. UNCHANGED Stages
  BY <1>5, <1>6 DEF Stages
<1>8. \A q \in Requests : Wait(req[q])' = Wait(req[q])
  BY <1>5, <1>6 DEF Wait
<1>9. UNCHANGED Waits
  BY <1>8 DEF Waits
<1> QED
  BY <1>4, <1>7, <1>9 DEF PolicyStep, Policy!lvars, StillCounted, Follows

LEMMA SameStays ==
  ASSUME Typed, Verdict, NEW r \in Requests, Judged(req[r]), UNCHANGED now,
         StillCounted, NEW next \in JudgedSteps, Goto(r, req[r], next)
  PROVE  Follows(r)
BY StaysJudged, RequestTyped DEF Verdict, Honest

LEMMA SessionFollows ==
  ASSUME Typed, Verdict, NEW r \in Requests, GetSPasswordSession(r)
  PROVE  Follows(r)
<1>1. /\ req' = [req EXCEPT ![r] = [req[r] EXCEPT !.loaded = TRUE, !.ref = row]]
      /\ UNCHANGED <<now, row>>
  BY DEF GetSPasswordSession, Typed, TypeOK
<1>2. /\ req'[r] = [req[r] EXCEPT !.loaded = TRUE, !.ref = row]
      /\ \A q \in Requests : q # r => req'[q] = req[q]
  BY <1>1 DEF Typed, TypeOK
<1>3. /\ req'[r].op = req[r].op /\ req'[r].pc = req[r].pc
      /\ req'[r].right = req[r].right /\ req'[r].at = req[r].at
      /\ req'[r].token = req[r].token
  BY <1>2, RequestTyped DEF Local
<1>4. \A q \in Requests : /\ req'[q].op = req[q].op /\ req'[q].pc = req[q].pc
                         /\ req'[q].right = req[q].right
                         /\ req'[q].at = req[q].at
  BY <1>2, <1>3
<1>5. UNCHANGED <<Stages, Waits>>
  BY <1>1, <1>4 DEF Stages, Waits, Stage, Wait, Judged
<1>6. StillCounted
  BY <1>1 DEF StillCounted, RowTries, RowAge
<1>7. Honest(req'[r])
  BY <1>3 DEF Verdict, Honest, Judged
<1> QED
  BY <1>5, <1>6, <1>7 DEF PolicyStep, Policy!lvars, StillCounted, Follows

-----------------------------------------------------------------------------
(* The steps of a login.                                                    *)

LEMMA LoginStarts ==
  ASSUME Typed, AttemptsStamped, NEW r \in Requests, Free(r),
         UNCHANGED <<now, row>>, NEW login \in Local, BlockCheck(r, login)
  PROVE  Follows(r)
<1>0. StillCounted /\ Stage(req[r]) \in Policy!Calm /\ Stages[r] = Stage(req[r])
  BY FreeStage, StillIsCounted DEF CountStill, Stages
<1>1. \/ Goto(r, login, "user") /\ ~LockedOut
      \/ Goto(r, login, "error")
      \/ Goto(r, login, "blocked") /\ LockedOut
  BY DEF BlockCheck, LockedOut, Blocked
<1>2. /\ {"user", "error", "blocked"} \cap JudgedSteps = {}
      /\ Plain("user") = "trying" /\ Plain("error") = "failed"
      /\ Plain("blocked") = "blocked"
  BY DEF JudgedSteps, Plain, Changing
<1>3. CASE Goto(r, login, "user") /\ ~LockedOut
  <2>1. Moves(r, "trying")
    BY <1>2, <1>3, GotoMovesTo
  <2>2. Policy!Enter(r)
    BY <1>0, <1>3, <2>1, MovesTo, BlockCheckIsPolicy
    DEF Policy!Enter, Policy!Uncounted, StillCounted
  <2> QED
    BY <2>1, <2>2, OneClientActs DEF Moves, Follows
<1>4. CASE Goto(r, login, "error")
  BY <1>0, <1>2, <1>4, GotoMovesTo, Fails
<1>5. CASE Goto(r, login, "blocked") /\ LockedOut
  <2>1. Moves(r, "blocked")
    BY <1>2, <1>5, GotoMovesTo
  <2>2. Policy!Refuse(r)
    BY <1>0, <1>5, <2>1, MovesTo, BlockCheckIsPolicy
    DEF Policy!Refuse, Policy!Uncounted, StillCounted
  <2> QED
    BY <2>1, <2>2, OneClientActs DEF Moves, Follows
<1> QED
  BY <1>1, <1>3, <1>4, <1>5

(* A login on its way to the verdict. *)
LEMMA LoginTries ==
  ASSUME Typed, NEW r \in Requests, NEW pc \in {"user", "password", "record"},
         At(r, pc)
  PROVE  Stage(req[r]) = "trying" /\ Wait(req[r]) = 0 /\ Stages[r] = "trying"
BY DEF At, Stage, Wait, Judged, Stages

LEMMA BeforeVerdictFollows ==
  ASSUME Typed, NEW r \in Requests, LoadUser(r) \/ CheckPassword(r)
  PROVE  Follows(r)
<1>1. /\ Stage(req[r]) = "trying" /\ Wait(req[r]) = 0 /\ Stages[r] = "trying"
      /\ UNCHANGED <<now, row>> /\ req[r] \in Local
  BY LoginTries, RequestTyped DEF LoadUser, CheckPassword
<1>2. StillCounted
  BY <1>1, StillIsCounted DEF CountStill
<1>3. /\ {"password", "record", "expired"} \cap JudgedSteps = {}
      /\ Plain("password") = "trying" /\ Plain("record") = "trying"
      /\ Plain("expired") = "expired"
  BY DEF JudgedSteps, Plain, Changing
<1>4. ASSUME NEW l \in Local, NEW next \in {"password", "record"}, Goto(r, l, next)
      PROVE  Follows(r)
  BY <1>1, <1>2, <1>3, <1>4, GotoMovesTo, Rests
<1>5. CASE Goto(r, req[r], "expired")
  <2>1. Moves(r, "expired")
    BY <1>1, <1>3, <1>5, GotoMovesTo
  <2>2. Policy!GiveUp(r)
    BY <1>1, <1>2, <2>1, MovesTo DEF Policy!GiveUp, Policy!Uncounted, StillCounted
  <2> QED
    BY <2>1, <2>2, OneClientActs DEF Moves, Follows
<1>6. [req[r] EXCEPT !.right =
         UserExists /\ req[r].password = user.password] \in Local
  BY <1>1, JudgedLocal
<1> QED
  BY <1>1, <1>4, <1>5, <1>6 DEF LoadUser, CheckPassword

(* The verdict of a login is the one its second query finds, at its time.   *)
LEMMA RecordAttemptFollows ==
  ASSUME Typed, AllEquipped, NEW r \in Requests, RecordAttempt(r)
  PROVE  Follows(r)
<1> DEFINE n == IF row = NoRow THEN 0 ELSE row.login_attempts
           l == [req[r] EXCEPT !.at = now, !.tries = n]
           t == [l EXCEPT !.token = Granted(row, now)]
           c == [l EXCEPT !.code = row.sndfa_code]
<1>0. /\ req[r] \in Local /\ UNCHANGED <<now, row>> /\ now \in Nat
      /\ req[r].op \in Logins /\ req[r].pc = "record"
  BY RequestTyped DEF RecordAttempt, Typed, TypeOK, At, Logins
<1>1. Stage(req[r]) = "trying" /\ Stages[r] = "trying" /\ StillCounted
  BY <1>0, LoginTries, StillIsCounted DEF RecordAttempt, CountStill
<1>2. ~req[r].token
  BY <1>0 DEF AllEquipped, Equipped, Carries
<1>3. n \in Nat /\ Granted(row, now) \in BOOLEAN
  BY DEF Typed, TypeOK, Row, Granted
<1>4. row # NoRow => row.sndfa_code \in MaybeCode
  BY DEF Typed, TypeOK, Row
<1>5. \/ \E next \in JudgedSteps : Goto(r, l, next)
      \/ l.right /\ Goto(r, t, "commit")
      \/ row # NoRow /\ Goto(r, c, "mail")
  BY DEF RecordAttempt, JudgedSteps
<1> HIDE DEF n
<1>6. /\ l \in Local /\ l.op = req[r].op /\ l.right = req[r].right
      /\ l.at = now /\ ~l.token
  BY <1>0, <1>2, <1>3 DEF Local
<1> HIDE DEF l
<1>7. /\ t \in Local /\ t.op = req[r].op /\ t.right = req[r].right /\ t.at = now
  BY <1>3, <1>6 DEF Local
<1>8. row # NoRow => /\ c \in Local /\ c.op = req[r].op /\ c.right = req[r].right
                     /\ c.at = now /\ ~c.token
  BY <1>4, <1>6 DEF Local
<1> HIDE DEF t, c
<1>9. ASSUME NEW m \in Local, m.op = req[r].op, m.right = req[r].right, m.at = now,
             m.token => m.right, NEW next \in JudgedSteps, Goto(r, m, next)
      PROVE  Follows(r)
  <2>1. OnlyMoves(r) /\ next \notin Outcomes
    BY <1>9, GotoMovesOnly DEF JudgedSteps, Outcomes
  <2>2. req'[r] = [m EXCEPT !.pc = next, !.loaded = FALSE, !.ref = NoRow]
    BY <1>9, <2>1 DEF Goto, Typed, TypeOK
  <2>3. /\ req'[r].op = req[r].op /\ req'[r].pc = next /\ req'[r].at = now
        /\ req'[r].token = m.token /\ req'[r].right = m.right
    BY <1>9, <2>2 DEF Local
  <2>4. Judged(req'[r]) /\ Honest(req'[r])
    BY <1>0, <1>9, <2>3 DEF Judged, Honest, JudgedSteps, Logins
  <2>5. Stage(req'[r]) \in Policy!Verdicts
    BY <2>4, JudgedStage DEF Policy!Verdicts
  <2>6. Wait(req'[r]) = 0
    <3>1. Wait(req'[r]) = Lowest(now - now, BlockTime)
      BY <2>3, <2>4, JudgedStage
    <3> QED
      BY <1>0, <3>1, SettingsAssumption DEF Lowest
  <2>7. Moves(r, Stage(req'[r]))
    BY <1>0, <2>1, <2>4, <2>6 DEF Moves
  <2>8. Policy!Judge(r)
    BY <1>1, <2>5, <2>7, MovesTo DEF Policy!Judge, Policy!Uncounted, StillCounted
  <2> QED
    BY <2>4, <2>8, OneClientActs DEF Follows
<1>10. {"commit", "mail"} \subseteq JudgedSteps
  BY DEF JudgedSteps
<1> QED
  BY <1>5, <1>6, <1>7, <1>8, <1>9, <1>10

(* A login that is judged and not counted yet.                              *)
LEMMA LoginJudged ==
  ASSUME NEW r \in Requests, NEW pc \in JudgedSteps, At(r, pc)
  PROVE  Judged(req[r])
BY DEF At, Judged, JudgedSteps

(* The second factor changes nothing of the verdict.                        *)
LEMMA SecondFactorFollows ==
  ASSUME Typed, Verdict, NEW r \in Requests,
         Challenge(r) \/ StoreChallenge(r) \/ MailChallenge(r) \/ Register(r)
  PROVE  Follows(r)
<1>0. {"challenge", "set_user_sndfa_code", "mail", "commit", "register", "insert"}
        \subseteq JudgedSteps
  BY DEF JudgedSteps
<1>1. req[r] \in Local /\ UNCHANGED now /\ Judged(req[r])
  BY <1>0, RequestTyped, LoginJudged
  DEF Challenge, StoreChallenge, MailChallenge, Register
<1>2. req[r].token => req[r].right
  BY <1>1 DEF Verdict, Honest
<1>3. StillCounted
  <2>1. CASE StoreChallenge(r)
    <3>1. req[r].code \in MaybeCode
      BY <2>1, RequestTyped DEF StoreChallenge, At, Generating
    <3> QED
      BY <1>1, <2>1, <3>1, SetUserSndfaCodeKeeps, StillIsCounted DEF StoreChallenge
  <2>2. CASE Challenge(r) \/ MailChallenge(r) \/ Register(r)
    BY <2>2, StillIsCounted
    DEF Challenge, MailChallenge, Register, CountStill
  <2> QED
    BY <2>1, <2>2
<1>4. ASSUME Goto(r, req[r], "error") \/ Goto(r, req[r], "not_found")
      PROVE  Follows(r)
  <2>1. /\ {"error", "not_found"} \cap JudgedSteps = {}
        /\ Plain("error") = "failed" /\ Plain("not_found") = "failed"
    BY DEF JudgedSteps, Plain, Changing
  <2> QED
    BY <1>1, <1>3, <1>4, <2>1, GotoMovesTo, Fails
<1>5. CASE Challenge(r)
  <2>1. ASSUME NEW c \in Codes,
               Goto(r, [req[r] EXCEPT !.code = c], "set_user_sndfa_code")
        PROVE  Follows(r)
    <3> DEFINE l == [req[r] EXCEPT !.code = c]
    <3>1. /\ l \in Local /\ l.op = req[r].op /\ l.right = req[r].right
          /\ l.at = req[r].at /\ l.token = req[r].token
      BY <1>1 DEF Local, MaybeCode
    <3>2. Goto(r, l, "set_user_sndfa_code")
      BY <2>1
    <3> HIDE DEF l
    <3> QED
      BY <1>0, <1>1, <1>2, <1>3, <3>1, <3>2, StaysJudged
  <2> QED
    BY <1>1, <1>3, <1>5, <2>1, AnswerFails DEF Challenge
<1>6. CASE StoreChallenge(r)
  <2>1. Goto(r, req[r], "mail") \/ Answer(r, "error")
    BY <1>6 DEF StoreChallenge, SetUserSndfaCode, Flush, Skip
  <2> QED
    BY <1>0, <1>1, <1>3, <2>1, SameStays, AnswerFails
<1>7. CASE MailChallenge(r)
  <2>1. \/ Goto(r, req[r], "commit") \/ Goto(r, req[r], "error")
        \/ \E o \in {"error", "not_found"} : Answer(r, o)
    BY <1>7 DEF MailChallenge, SendEmail
  <2> QED
    BY <1>0, <1>1, <1>3, <1>4, <2>1, SameStays, AnswerFails
<1>8. CASE Register(r)
  <2> DEFINE l == [req[r] EXCEPT !.token = req[r].right]
  <2>1. l \in Local
    BY <1>1, JudgedLocal
  <2>2. /\ l.op = req[r].op /\ l.right = req[r].right
        /\ l.at = req[r].at /\ l.token = req[r].right
    BY <1>1 DEF Local
  <2>3. Goto(r, l, "insert") \/ Goto(r, l, "not_found")
    BY <1>8 DEF Register
  <2> HIDE DEF l
  <2>4. CASE Goto(r, l, "insert")
    BY <1>0, <1>1, <1>3, <2>1, <2>2, <2>4, StaysJudged
  <2>5. CASE Goto(r, l, "not_found")
    <3>1. "not_found" \notin JudgedSteps /\ Plain("not_found") = "failed"
      BY DEF JudgedSteps, Plain, Changing
    <3> QED
      BY <1>1, <1>3, <2>1, <2>5, <3>1, GotoMovesTo, Fails
  <2> QED
    BY <2>3, <2>4, <2>5
<1> QED
  BY <1>5, <1>6, <1>7, <1>8

(* What the two writes of authenticate store, of the row as it is.          *)
LEMMA CountedInSerial ==
  ASSUME Typed, Serial, NEW r \in Requests, Counts(r)
  PROVE  \/ Answer(r, "error") /\ row' = row
         \/ /\ Goto(r, req[r], Answering(r))
            /\ row' # NoRow
            /\ row'.last_login_attempt_time = req[r].at
            /\ row'.login_attempts =
                 IF req[r].right THEN 0
                 ELSE IF row = NoRow THEN 1 ELSE row.login_attempts + 1
<1>0. req[r].at \in Nat /\ req[r].tries \in Nat
  BY RequestTyped DEF Local
<1>1. /\ req[r].tries = IF row = NoRow THEN 0 ELSE row.login_attempts
      /\ row = NoRow <=> req[r].pc = "insert"
  BY CountsInSerial DEF Recorded
<1>2. CASE Commit(r)
  <2>1. /\ row # NoRow /\ Goto(r, req[r], Answering(r))
        /\ row' = [row EXCEPT !.login_attempts =
                                Written(@, req[r].tries,
                                        Count(req[r].right, req[r].tries)),
                              !.last_login_attempt_time = req[r].at]
    BY <1>1, <1>2 DEF Commit, Flush, At
  <2>2. row \in Row /\ row.login_attempts \in Nat
    BY <2>1 DEF Typed, TypeOK, Row
  <2>3. Written(row.login_attempts, req[r].tries,
                Count(req[r].right, req[r].tries)) =
          IF req[r].right THEN 0 ELSE row.login_attempts + 1
    BY <1>1, <2>1, <2>2 DEF Written, Count
  <2>4. /\ row'.last_login_attempt_time = req[r].at
        /\ row'.login_attempts =
             IF req[r].right THEN 0 ELSE row.login_attempts + 1
    BY <2>1, <2>2, <2>3 DEF Row
  <2>5. row' \in Row
    BY <1>2, <2>2, CountedRow DEF Counts
  <2> QED
    BY <2>1, <2>4, <2>5, NoRowAssumption
<1>3. CASE InsertLogin(r)
  <2>1. /\ row = NoRow /\ Goto(r, req[r], Answering(r))
        /\ row' = NewRow(req[r].at, Count(req[r].right, 0), req[r].at)
    BY <1>1, <1>3 DEF InsertLogin, Insert, At
  <2>2. Count(req[r].right, 0) = IF req[r].right THEN 0 ELSE 1
    BY DEF Count
  <2>3. row' \in Row
    <3>1. Count(req[r].right, 0) \in Nat /\ req[r].at \in Stamp
      BY <1>0, <2>2 DEF Stamp
    <3> QED
      BY <1>0, <2>1, <3>1, NewRowType
  <2>4. /\ row'.last_login_attempt_time = req[r].at
        /\ row'.login_attempts = Count(req[r].right, 0)
    BY <2>1 DEF NewRow, BlankRow
  <2> QED
    BY <2>1, <2>2, <2>3, <2>4, NoRowAssumption
<1> QED
  BY <1>2, <1>3 DEF Counts

(* A login that gets as far as its write is counted as what it was judged   *)
(* to be, as of the time it was judged, and answered accordingly.           *)
LEMMA CountsFollow ==
  ASSUME Typed, AttemptsStamped, Serial, Verdict, NEW r \in Requests, Counts(r)
  PROVE  Follows(r)
<1>0. /\ req[r] \in Local /\ req[r].at \in Nat /\ UNCHANGED now
      /\ ~Policy!LockedOut /\ Judged(req[r])
  <2>1. Judged(req[r])
    BY DEF Counts, Commit, InsertLogin, At, Judged
  <2>2. UNCHANGED now
    BY DEF Counts, Commit, InsertLogin
  <2> QED
    BY <2>1, <2>2, RequestTyped, CountsInSerial, BlockCheckIsPolicy DEF Local
<1>1. CASE Answer(r, "error") /\ row' = row
  BY <1>0, <1>1, StillIsCounted, AnswerFails DEF CountStill
<1>2. CASE /\ Goto(r, req[r], Answering(r))
           /\ row' # NoRow
           /\ row'.last_login_attempt_time = req[r].at
           /\ row'.login_attempts =
                IF req[r].right THEN 0
                ELSE IF row = NoRow THEN 1 ELSE row.login_attempts + 1
  <2>1. RowAge' = Waits[r]
    <3>1. RowAge' = Lowest(now - req[r].at, BlockTime)
      BY <1>0, <1>2, NoneAssumption DEF RowAge
    <3> QED
      BY <1>0, <3>1, JudgedStage DEF Waits
  <2>2. /\ Answering(r) \notin JudgedSteps
        /\ Plain(Answering(r)) = IF req[r].token THEN "idle" ELSE "refused"
    BY DEF Answering, Granting, JudgedSteps, Plain, Changing
  <2>3. Moves(r, Plain(Answering(r)))
    BY <1>0, <1>2, <2>2, GotoMovesTo
  <2>4. CASE req[r].right
    <3>1. RowTries' = 0
      BY <1>2, <2>4, Bounds DEF RowTries, Lowest
    <3>2. Stages[r] = "right"
      BY <1>0, <2>4, JudgedStage DEF Stages
    <3>3. Policy!CountRight(r)
      BY <1>0, <2>1, <2>2, <2>3, <3>1, <3>2, MovesTo DEF Policy!CountRight
    <3> QED
      BY <2>3, <3>3, OneClientActs DEF Moves, Follows
  <2>5. CASE ~req[r].right
    <3>1. RowTries' = Policy!AtMost(RowTries + 1, MaxTries + 1)
      BY <1>2, <2>5, Bounds DEF RowTries, Lowest, Policy!AtMost
    <3>2. Stages[r] = "wrong"
      BY <1>0, <2>5, JudgedStage DEF Stages
    <3>3. ~req[r].token
      BY <1>0, <2>5 DEF Verdict, Honest
    <3>4. Policy!CountWrong(r)
      BY <1>0, <2>1, <2>2, <2>3, <3>1, <3>2, <3>3, MovesTo DEF Policy!CountWrong
    <3> QED
      BY <2>3, <3>4, OneClientActs DEF Moves, Follows
  <2> QED
    BY <2>4, <2>5
<1> QED
  BY <1>1, <1>2, CountedInSerial

LEMMA IdentityFollows ==
  ASSUME Typed, AttemptsStamped, Serial, AllEquipped, Verdict,
         NEW r \in Requests, IdentityStep(r)
  PROVE  Follows(r)
<1>1. CASE \/ \E pw \in Passwords : Authenticate(r, pw)
           \/ \E pw, new \in Passwords : ChangePassword(r, pw, new)
  <2>1. Free(r) /\ UNCHANGED <<now, row>>
    BY <1>1 DEF Authenticate, ChangePassword
  <2>2. (\E login \in Local : BlockCheck(r, login)) \/ Answer(r, "bad_request")
    BY <1>1, LoginLocal DEF Authenticate, ChangePassword
  <2>3. CASE Answer(r, "bad_request")
    <3>1. "bad_request" \in Outcomes /\ Plain("bad_request") = "idle"
      BY DEF Outcomes, Plain, Changing
    <3>2. Moves(r, "idle") /\ StillCounted
      BY <2>1, <2>3, <3>1, AnswerMovesTo, StillIsCounted DEF CountStill
    <3> QED
      BY <2>1, <3>2, FreeStage, Others
  <2> QED
    BY <2>1, <2>2, <2>3, LoginStarts
<1> QED
  BY <1>1, BeforeVerdictFollows, RecordAttemptFollows, SecondFactorFollows,
     CountsFollow
  DEF IdentityStep, Counts

-----------------------------------------------------------------------------
(* The other calls.                                                         *)

(* The steps of a call that is neither a login nor a change of the user.    *)
Unseen == {"validated", "set_check_email_code", "check_email_code", "modify_sndfa",
           "modify_black", "check_sndfa_code", "update_user", "change"}

LEMMA UnseenStage ==
  ASSUME NEW r \in Requests,
         req[r].pc \in Unseen \/ (req[r].pc = "mail" /\ req[r].op \notin Logins)
  PROVE  Stage(req[r]) \in Policy!Calm
<1>1. ~Judged(req[r])
  BY DEF Judged, Logins, Unseen
<1>2. Plain(req[r].pc) \in Policy!Calm
  BY DEF Plain, Changing, Unseen, Policy!Calm
<1> QED
  BY <1>1, <1>2, PlainStage

LEMMA ApiCallFollows ==
  ASSUME Typed, NEW r \in Requests, ApiCall(r)
  PROVE  Follows(r)
<1>0. /\ user.email \in Addresses \cup {None} /\ UNCHANGED <<now, row>>
      /\ Codes \cup KnownCodes \cup {None} \subseteq MaybeCode \cup {BadCode}
  BY KnownCodesType DEF Typed, TypeOK, User, MaybeCode, ApiCall
<1>1. StillCounted
  BY <1>0, StillIsCounted DEF CountStill
<1>2. ASSUME NEW op \in APIOps \ Logins, NEW c \in Codes \cup KnownCodes \cup {None},
             NEW enable \in BOOLEAN,
             NEW first \in Unseen \cup {"bad_request", "not_found", "unauthorized"},
             Call(r, op, c, enable, first)
      PROVE  Follows(r)
  <2> DEFINE l == [Idle EXCEPT !.op = op, !.code = c, !.enable = enable,
                               !.email = user.email]
  <2>1. l \in Local
    BY <1>0, CallLocal
  <2>2. l.op \notin Logins
    BY DEF Idle
  <2>3. Goto(r, l, first) /\ Free(r)
    BY <1>2 DEF Call
  <2>4. first \notin {"user", "password", "record", "blocked", "expired"}
    BY DEF Unseen
  <2> HIDE DEF l
  <2> QED
    BY <1>0, <1>1, <2>1, <2>2, <2>3, <2>4, FreeStage, GoesUnseen
<1>3. \A first \in Unseen \cup {"bad_request", "not_found", "unauthorized"} :
        /\ GetUser(first) \in Unseen \cup {"bad_request", "not_found", "unauthorized"}
        /\ EmailDefined(first) \in
             Unseen \cup {"bad_request", "not_found", "unauthorized"}
        /\ Configured(first) \in
             Unseen \cup {"bad_request", "not_found", "unauthorized"}
  BY DEF GetUser, EmailDefined, Configured
<1>4. /\ {"set_check_email_code", "check_email_code", "validated", "modify_black"}
           \subseteq Unseen
      /\ {"ask_check_email", "check_email", "modify_sndfa", "check_sndfa",
          "modify_black", "recover", "reset"} \subseteq APIOps \ Logins
  BY DEF Unseen, APIOps, Logins
<1>5. \E op \in APIOps \ Logins, c \in Codes \cup KnownCodes \cup {None},
         enable \in BOOLEAN,
         first \in Unseen \cup {"bad_request", "not_found", "unauthorized"} :
           Call(r, op, c, enable, first)
  <2>1. CASE AskCheckEmail(r) \/ CheckEmail(r)
    BY <1>3, <1>4, <2>1 DEF AskCheckEmail, CheckEmail
  <2>2. CASE AskModifySndfa(r) \/ CheckSndfa(r)
    BY <1>3, <1>4, <2>2 DEF AskModifySndfa, CheckSndfa
  <2>3. CASE AskModifyBlack(r) \/ Recover(r) \/ Reset(r)
    BY <1>3, <1>4, <2>3 DEF AskModifyBlack, Recover, Reset
  <2> QED
    BY <2>1, <2>2, <2>3 DEF ApiCall
<1> QED
  BY <1>2, <1>5

LEMMA ApiFollows ==
  ASSUME Typed, NEW r \in Requests, ApiStep(r)
  PROVE  Follows(r)
<1>0. req[r] \in Local /\ UNCHANGED now /\ StillCounted
  <2>1. UNCHANGED now
    BY DEF ApiStep, ApiCall, EmailValidated, ApiWrite, CheckCode, MailCode,
           ResetPassword, MailPassword
  <2> QED
    BY <2>1, RequestTyped, ApiKeepsCount, StillIsCounted
<1>1. ASSUME req[r].pc \in Unseen \/ (req[r].pc = "mail" /\ req[r].op \notin Logins),
             NEW l \in Local, NEW next, Goto(r, l, next),
             next = "mail" => l.op \notin Logins,
             next \in Unseen \cup {"mail", "ok", "bad_request", "unauthorized",
                                   "not_found", "error", "user_updated_callback"}
      PROVE  Follows(r)
  <2>1. /\ next \notin {"user", "password", "record", "blocked", "expired"}
        /\ next \notin JudgedSteps \/ l.op \notin Logins
    BY <1>1 DEF Unseen, JudgedSteps
  <2> QED
    BY <1>0, <1>1, <2>1, UnseenStage, GoesUnseen
<1>2. CASE EmailValidated(r)
  <2>0. req[r].pc \in Unseen /\ {"modify_sndfa", "check_sndfa_code",
                                 "set_check_email_code"} \subseteq Unseen
    BY <1>2 DEF EmailValidated, Unseen
  <2>1. ASSUME NEW c \in Codes,
               Goto(r, [req[r] EXCEPT !.code = c], "set_check_email_code")
        PROVE  Follows(r)
    <3>1. [req[r] EXCEPT !.code = c] \in Local
      BY <1>0 DEF Local, MaybeCode
    <3> QED
      BY <1>1, <2>0, <2>1, <3>1
  <2>2. CASE Answer(r, "unauthorized")
    <3>1. "unauthorized" \in Outcomes /\ Plain("unauthorized") = "refused"
      BY DEF Outcomes, Plain, Changing
    <3> QED
      BY <1>0, <2>0, <2>2, <3>1, AnswerMovesTo, UnseenStage, Others
  <2>3. CASE Goto(r, req[r], "modify_sndfa") \/ Goto(r, req[r], "check_sndfa_code")
    BY <1>0, <1>1, <2>0, <2>3
  <2> QED
    BY <1>2, <2>1, <2>2, <2>3 DEF EmailValidated
<1>3. CASE ApiWrite(r) \/ CheckCode(r)
  <2>1. req[r].pc \in Unseen
    BY <1>3 DEF ApiWrite, CheckCode, SetCheckEmailCode, CheckEmailCode, ModifySndfa,
                ModifyBlack, CheckSndfaCode, Writing, Unseen
  <2>2. \/ /\ req[r].op \in {"ask_check_email", "recover"}
           /\ Goto(r, req[r], "mail")
        \/ \E next \in {"check_email_code", "ok", "unauthorized", "update_user"} :
             Goto(r, req[r], next)
        \/ Answer(r, "error")
    <3>1. CASE ApiWrite(r)
      BY <3>1
      DEF ApiWrite, SetCheckEmailCode, CheckEmailCode, ModifySndfa, ModifyBlack,
          Flush, Skip, RecoverGoesOn
    <3>2. CASE CheckCode(r)
      BY <3>2 DEF CheckCode, CheckSndfaCode, Flush, Skip
    <3> QED
      BY <1>3, <3>1, <3>2
  <2>3. /\ {"check_email_code", "update_user"} \subseteq Unseen
        /\ {"ask_check_email", "recover"} \cap Logins = {}
    BY DEF Unseen, Logins
  <2> QED
    BY <1>0, <1>1, <2>1, <2>2, <2>3, AnswerFails
<1>4. CASE MailCode(r) \/ MailPassword(r)
  <2>1. req[r].pc = "mail" /\ req[r].op \notin Logins
    BY <1>4 DEF MailCode, MailPassword, Logins
  <2>2. \/ \E next \in {"ok", "bad_request", "error"} : Goto(r, req[r], next)
        \/ Answer(r, "error")
    BY <1>4 DEF MailCode, MailPassword, SendEmail
  <2> QED
    BY <1>0, <1>1, <2>1, <2>2, AnswerFails
<1>5. CASE ResetPassword(r)
  <2>1. req[r].pc \in Unseen
    BY <1>5 DEF ResetPassword, Unseen
  <2>2. ASSUME NEW pw \in Passwords,
               Goto(r, [req[r] EXCEPT !.new = pw], "user_updated_callback")
        PROVE  Follows(r)
    <3>1. [req[r] EXCEPT !.new = pw] \in Local
      BY <1>0 DEF Local
    <3> QED
      BY <1>1, <2>1, <2>2, <3>1
  <2> QED
    BY <1>0, <1>5, <2>2, AnswerFails DEF ResetPassword
<1> QED
  BY <1>2, <1>3, <1>4, <1>5, ApiCallFollows DEF ApiStep

LEMMA ChangeStage ==
  ASSUME NEW r \in Requests, req[r].pc \in Changing \cup {"remove_user"}
  PROVE  /\ Stage(req[r]) = IF req[r].pc \in Changing THEN "changing" ELSE "leaving"
         /\ Wait(req[r]) = 0 /\ Stages[r] = Stage(req[r])
<1>1. ~Judged(req[r])
  BY DEF Judged, Changing
<1>2. Plain(req[r].pc) = IF req[r].pc \in Changing THEN "changing" ELSE "leaving"
  BY DEF Plain, Changing
<1> QED
  BY <1>1, <1>2, PlainStage DEF Stages

(* A change of the user forgives once its callback has written.             *)
LEMMA CallbackFollows ==
  ASSUME Typed, Serial, NEW r \in Requests, CallbackWrite(r), UNCHANGED now
  PROVE  Follows(r)
<1>1. req[r].pc \in Changing /\ req[r].loaded
  BY DEF CallbackWrite, SetUserCreationTime, UpdateUserModificationTime, Writing,
         Changing
<1>2. req[r].ref = row
  BY <1>1 DEF Serial, InTouch, Free, Outcomes, Changing
<1>3. PICK next \in {"ok", "mail"} :
        RenewPassword(r, next) /\ (next = "mail" => req[r].op = "reset")
  BY DEF CallbackWrite, SetUserCreationTime, UpdateUserModificationTime
<1>4. CASE Answer(r, "error") /\ row' = row
  BY <1>4, StillIsCounted, AnswerFails DEF CountStill
<1>5. CASE Goto(r, req[r], next) /\ RowTries' = 0 /\ RowAge' = RowAge
  <2>1. /\ next \notin JudgedSteps \/ req[r].op \notin Logins
        /\ Plain(next) = "idle"
    BY <1>3 DEF JudgedSteps, Logins, Plain, Changing
  <2>2. Moves(r, "idle")
    BY <1>5, <2>1, RequestTyped, GotoMovesTo
  <2>3. Policy!Forgive(r)
    BY <1>1, <1>5, <2>2, ChangeStage, MovesTo DEF Policy!Forgive
  <2> QED
    BY <2>2, <2>3, OneClientActs DEF Moves, Follows
<1>6. CASE row = NoRow
  <2>1. Goto(r, req[r], next) /\ row' = NewRow(now, 0, None)
    BY <1>2, <1>3, <1>6 DEF RenewPassword, Insert
  <2>2. row'.login_attempts = 0 /\ row'.last_login_attempt_time = None
    BY <2>1 DEF NewRow, BlankRow
  <2> QED
    BY <1>5, <1>6, <2>1, <2>2, Blank, BlankNext
<1>7. CASE row # NoRow
  <2>1. /\ Goto(r, req[r], next)
        /\ row' = [row EXCEPT !.creation_time = now,
                              !.login_attempts = Written(@, row.login_attempts, 0)]
    BY <1>2, <1>3, <1>7 DEF RenewPassword, Flush
  <2>2. row \in Row /\ now \in Nat
    BY <1>7 DEF Typed, TypeOK
  <2>3. /\ row'.login_attempts = 0
        /\ row'.last_login_attempt_time = row.last_login_attempt_time
    BY <2>1, <2>2 DEF Row, Written
  <2>4. row' # NoRow
    <3>1. row' \in Row
      BY <2>1, <2>2 DEF Row, Written
    <3> QED
      BY <3>1, NoRowAssumption
  <2>5. RowAge' = RowAge
    BY <1>7, <2>3, <2>4 DEF RowAge
  <2>6. RowTries' = 0
    BY <2>3, <2>4, Bounds DEF RowTries, Lowest
  <2> QED
    BY <1>5, <2>1, <2>5, <2>6
<1> QED
  BY <1>6, <1>7

LEMMA LifecycleFollows ==
  ASSUME Typed, Serial, NEW r \in Requests, LifecycleStep(r)
  PROVE  Follows(r)
<1>0. req[r] \in Local /\ UNCHANGED now
  BY RequestTyped DEF LifecycleStep
<1>1. UNCHANGED row => StillCounted
  BY <1>0, StillIsCounted DEF CountStill
<1>2. CASE \/ CreateUser(r) \/ UpdateUser(r) \/ ScimUpdateUser(r) \/ DeleteUser(r)
  <2>1. PICK op \in {"create_user", "update_user", "delete_user"},
             next \in {"user_created_callback", "user_updated_callback",
                       "remove_user", "bad_request", "unauthorized"} :
          Free(r) /\ Goto(r, [Idle EXCEPT !.op = op], next)
    BY <1>2 DEF CreateUser, UpdateUser, ScimUpdateUser, ChangeUser, DeleteUser,
                Arrive
  <2>2. /\ [Idle EXCEPT !.op = op] \in Local
        /\ next \notin JudgedSteps
        /\ next \notin {"user", "password", "record", "blocked", "expired"}
    BY ArriveLocal DEF APIOps, JudgedSteps
  <2>3. UNCHANGED row
    BY <1>2, <2>1 DEF LifecycleStep, CreateUser, UpdateUser, ScimUpdateUser,
                      ChangeUser, DeleteUser, Arrive, Free, Outcomes, CallbackWrite,
                      SetUserCreationTime, UpdateUserModificationTime, RemoveUser,
                      Writing
  <2> QED
    BY <1>0, <1>1, <2>1, <2>2, <2>3, FreeStage, GoesUnseen
<1>3. CASE StorePassword(r) /\ UNCHANGED row
  <2>1. req[r].pc \in Unseen
    BY <1>3 DEF StorePassword, Unseen
  <2>2. Goto(r, req[r], "user_updated_callback") \/ Answer(r, "not_found")
    BY <1>3 DEF StorePassword
  <2>3. "user_updated_callback" \notin JudgedSteps
    BY DEF JudgedSteps
  <2> QED
    BY <1>0, <1>1, <1>3, <2>1, <2>2, <2>3, UnseenStage, GoesUnseen, AnswerFails
<1>4. CASE /\ \/ Callback(r, "user_created_callback", "set_user_creation_time")
              \/ Callback(r, "user_updated_callback",
                          "update_user_modification_time")
           /\ UNCHANGED row
  <2>1. Stage(req[r]) = "changing" /\ Wait(req[r]) = 0
    BY <1>4, ChangeStage DEF Callback, Changing
  <2>2. PICK next \in {"set_user_creation_time", "update_user_modification_time",
                       "not_found"} : Goto(r, req[r], next)
    BY <1>4 DEF Callback
  <2>3. /\ next \notin JudgedSteps
        /\ Plain(next) = IF next = "not_found" THEN "failed" ELSE "changing"
    BY DEF JudgedSteps, Plain, Changing
  <2>4. Moves(r, Plain(next))
    BY <1>0, <2>2, <2>3, GotoMovesTo
  <2> QED
    BY <1>1, <1>4, <2>1, <2>3, <2>4, Rests, Fails
<1>5. CASE RemoveUser(r, "ok")
  <2>1. /\ req[r].pc = "remove_user" /\ req[r].ref = row
        /\ Goto(r, req[r], "ok")
    BY <1>5 DEF RemoveUser, Writing, Serial, InTouch, Free, Outcomes
  <2>2. row' = NoRow
    BY <1>5, <2>1 DEF RemoveUser
  <2>3. "ok" \notin JudgedSteps /\ Plain("ok") = "idle"
    BY DEF JudgedSteps, Plain, Changing
  <2>4. Moves(r, "idle")
    BY <1>0, <2>1, <2>3, GotoMovesTo
  <2>5. Stages[r] = "leaving"
    BY <2>1, ChangeStage DEF Changing
  <2>6. Policy!Forget(r)
    BY <2>2, <2>4, <2>5, BlankNext, MovesTo DEF Policy!Forget
  <2> QED
    BY <2>4, <2>6, OneClientActs DEF Moves, Follows
<1> QED
  BY <1>0, <1>2, <1>3, <1>4, <1>5, CallbackFollows DEF LifecycleStep

LEMMA CrashFollows ==
  ASSUME Typed, NEW r \in Requests, Crash(r)
  PROVE  Follows(r)
BY StillIsCounted, AnswerFails DEF Crash, CountStill

LEMMA StepFollows ==
  ASSUME Typed, AttemptsStamped, Serial, AllEquipped, Verdict,
         NEW r \in Requests, Step(r)
  PROVE  Follows(r)
BY SessionFollows, IdentityFollows, ApiFollows, LifecycleFollows, CrashFollows
DEF Step

-----------------------------------------------------------------------------
(* The clock, and the theorem.                                              *)

LEMMA Older ==
  ASSUME NEW t \in Nat, now \in Nat
  PROVE  Lowest((now + 1) - t, BlockTime) =
           Policy!AtMost(Lowest(now - t, BlockTime) + 1, BlockTime)
BY SettingsAssumption DEF Lowest, Policy!AtMost

LEMMA TickIsPass ==
  ASSUME Typed, Tick
  PROVE  Policy!Pass
<1>1. now' = now + 1 /\ now \in Nat /\ UNCHANGED <<row, req>>
  BY DEF Tick, Typed, TypeOK
<1>2. UNCHANGED <<RowTries, Stages>>
  BY <1>1 DEF RowTries, Stages
<1>3. RowAge' = Policy!AtMost(RowAge + 1, BlockTime)
  <2>1. CASE row = NoRow \/ row.last_login_attempt_time = None
    <3>1. RowAge = BlockTime /\ RowAge' = BlockTime
      BY <1>1, <2>1 DEF RowAge
    <3> QED
      BY <3>1, SettingsAssumption DEF Policy!AtMost
  <2>2. CASE row # NoRow /\ row.last_login_attempt_time \in Nat
    <3>1. PICK t \in Nat : t = row.last_login_attempt_time
      BY <2>2
    <3>2. /\ RowAge = Lowest(now - t, BlockTime)
          /\ RowAge' = Lowest((now + 1) - t, BlockTime)
      BY <1>1, <2>2, <3>1, NoneAssumption DEF RowAge
    <3> QED
      BY <1>1, <3>2, Older
  <2> QED
    BY <2>1, <2>2, Bounds
<1>4. ASSUME NEW r \in Requests
      PROVE  Wait(req[r])' = IF Stages[r] \in Policy!Verdicts
                             THEN Policy!AtMost(Waits[r] + 1, BlockTime) ELSE 0
  <2>1. CASE Judged(req[r])
    <3>1. PICK t \in Nat : t = req[r].at
      BY RequestTyped DEF Local
    <3>2. /\ Stages[r] \in Policy!Verdicts
          /\ Waits[r] = Lowest(now - t, BlockTime)
      BY <2>1, <3>1, JudgedStage DEF Stages, Waits, Policy!Verdicts
    <3>3. Wait(req[r])' = Lowest((now + 1) - t, BlockTime)
      BY <1>1, <2>1, <3>1 DEF Wait, Judged
    <3> QED
      BY <1>1, <3>2, <3>3, Older
  <2>2. CASE ~Judged(req[r])
    <3>1. Plain(req[r].pc) \notin Policy!Verdicts
      BY DEF Plain, Policy!Verdicts
    <3>2. Stages[r] \notin Policy!Verdicts
      BY <2>2, <3>1, PlainStage DEF Stages
    <3>3. Wait(req[r])' = 0
      BY <1>1, <2>2 DEF Wait, Judged
    <3> QED
      BY <3>2, <3>3
  <2> QED
    BY <2>1, <2>2
<1>5. Waits' = [r \in Requests |-> IF Stages[r] \in Policy!Verdicts
                                   THEN Policy!AtMost(Waits[r] + 1, BlockTime)
                                   ELSE 0]
  BY <1>4 DEF Waits
<1> QED
  BY <1>2, <1>3, <1>5 DEF Policy!Pass

LEMMA NextIsPolicy ==
  ASSUME Typed, AttemptsStamped, Serial, AllEquipped, Verdict, [Next]_vars
  PROVE  PolicyStep /\ Verdict'
<1>1. CASE UNCHANGED vars
  <2>1. UNCHANGED <<RowTries, RowAge, Stages, Waits, Verdict>>
    BY <1>1 DEF vars, RowTries, RowAge, Stages, Waits, Wait, Judged, Verdict
  <2> QED
    BY <2>1 DEF PolicyStep, Policy!lvars
<1>2. CASE Tick
  <2>1. Verdict'
    BY <1>2 DEF Tick, Verdict
  <2> QED
    BY <1>2, <2>1, TickIsPass DEF PolicyStep, Policy!LockoutNext
<1>3. ASSUME NEW r \in Requests, Step(r) PROVE PolicyStep /\ Verdict'
  <2>1. Follows(r) /\ OnlyMoves(r)
    BY <1>3, StepFollows, StepInTouch DEF StaysInTouch
  <2> QED
    BY <2>1 DEF Follows, OnlyMoves, Verdict
<1> QED
  BY <1>1, <1>2, <1>3, NextSteps

LEMMA InitIsPolicy == Init => Policy!LockoutInit /\ Verdict
<1> SUFFICES ASSUME Init PROVE Policy!LockoutInit /\ Verdict
  OBVIOUS
<1>1. RowTries = 0 /\ RowAge = BlockTime
  <2>1. NewRow(0, 0, None).login_attempts = 0
        /\ NewRow(0, 0, None).last_login_attempt_time = None
    BY DEF NewRow, BlankRow
  <2>2. row = NoRow \/ row = NewRow(0, 0, None)
    BY DEF Init
  <2> QED
    BY <2>1, <2>2, Blank
<1>2. ASSUME NEW r \in Requests
      PROVE  Stage(req[r]) = "idle" /\ Wait(req[r]) = 0 /\ Honest(req[r])
  <2>1. req[r].pc = "idle"
    BY DEF Init, Idle
  <2>2. ~Judged(req[r]) /\ Plain("idle") = "idle"
    BY <2>1 DEF Judged, Plain, Changing
  <2> QED
    BY <2>1, <2>2, PlainStage
<1>3. Stages = [r \in Requests |-> "idle"] /\ Waits = [r \in Requests |-> 0]
  BY <1>2 DEF Stages, Waits
<1> QED
  BY <1>1, <1>2, <1>3 DEF Policy!LockoutInit, Verdict

(* Whoever logs in and whatever else is asked of the plugin, as long as     *)
(* requests do not overlap: a wrong password that is refused has been       *)
(* counted, once; logins are blocked after MaxTries + 1 counts and no       *)
(* sooner, for BlockTime from the verdict counted last; and only a right    *)
(* password, a change of the user and a deletion take the count back        *)
(* (authenticate, 380-517).  A login that ends with an error, or finds the  *)
(* password expired, stays uncounted.                                       *)
THEOREM LockoutImplemented == Spec /\ []OneAtATime => ImplementsLockout
<1>1. Init => Policy!LockoutInit /\ Verdict
  BY InitIsPolicy
<1>2. Typed /\ AttemptsStamped /\ Serial /\ CodesInOrder /\ Verdict /\ [Next]_vars =>
        [Policy!LockoutNext]_(Policy!lvars) /\ Verdict'
  BY NextIsPolicy DEF PolicyStep, CodesInOrder
<1> QED
  BY <1>1, <1>2, SerialStays, CodesStayInOrder, PTL
  DEF Spec, ImplementsLockout, Policy!LockoutSpec
=============================================================================
