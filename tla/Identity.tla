------------------------------ MODULE Identity ------------------------------
(***************************************************************************)
(* Class Identity of backends/sql.py, the identity driver whose             *)
(* authenticate every password login runs: the block check, Keystone's own  *)
(* password check with the expiry test in it, the count of the attempt, and *)
(* the second factor.  Each step is one transaction of the handler.  Two    *)
(* calls run it: a login, and Keystone's change_password, which             *)
(* authenticates with the old password before it stores the new one.        *)
(***************************************************************************)
EXTENDS SPasswordDriver

At(r, pc) == req[r].op \in {"authenticate", "change_password"} /\ req[r].pc = pc

(* The account is blocked for a request that read ref. *)
Blocked(ref, t) == OverTries(ref) /\ StillBlocked(ref, t)

(* First query, when the request arrives.  A row over the limit that was    *)
(* never stamped would be an AttributeError.                                *)
BlockCheck(r, login) ==
    IF InBlacklist \/ row = NoRow \/ ~OverTries(row)
    THEN Goto(r, login, "user")
    ELSE IF row.last_login_attempt_time = None
    THEN Goto(r, login, "error")
    ELSE Goto(r, login,
              IF Blocked(row, now) THEN "blocked" ELSE "user")

(* Variant for BlockEnds: a refused login is stamped like any other.        *)
AuthenticateStamped(r, pw) ==
  /\ "authenticate" \in Ops /\ Free(r) /\ badTries < MaxBad
  /\ BlockCheck(r, [Idle EXCEPT !.op = "authenticate", !.password = pw])
  /\ row' = IF req'[r].pc = "blocked"
            THEN [row EXCEPT !.last_login_attempt_time = now] ELSE row
  /\ UNCHANGED <<now, user, inbox, history>>

Authenticate(r, pw) ==
  /\ "authenticate" \in Ops /\ Free(r) /\ badTries < MaxBad
  /\ BlockCheck(r, [Idle EXCEPT !.op = "authenticate", !.password = pw])
  /\ UNCHANGED <<now, user, row, inbox, history>>

(* POST password: the strength of the new password is looked at before the  *)
(* old one.                                                                 *)
ChangePassword(r, pw, new) ==
  /\ "change_password" \in Ops /\ Free(r) /\ badTries < MaxBad
  /\ IF StrongCheckPassword(new)
     THEN BlockCheck(r, [Idle EXCEPT !.op = "change_password",
                                     !.password = pw, !.new = new])
     ELSE Answer(r, "bad_request")
  /\ UNCHANGED <<now, user, row, inbox, history>>

(* super().authenticate loads the user; without one it is the same wrong    *)
(* login as with a wrong password.                                          *)
LoadUser(r) ==
  /\ At(r, "user")
  /\ Goto(r, [req[r] EXCEPT !.right =
                UserExists /\ req[r].password = user.password],
          IF UserExists THEN "password" ELSE "record")
  /\ UNCHANGED <<now, user, row, inbox, history>>

(* _check_password: an expired password is refused before the hash is       *)
(* compared, and such a login is not counted.                               *)
CheckPassword(r) ==
  /\ At(r, "password")
  /\ Goto(r, req[r],
          IF row # NoRow /\ Expired(row, now) THEN "expired" ELSE "record")
  /\ UNCHANGED <<now, user, row, inbox, history>>

(* What the login is worth once it is counted: the second factor is looked  *)
(* at only after a right password.                                          *)
Granted(ref, t) ==
  NeedsSecondFactor(ref) => ref.sndfa_email /\ SecondFactorFresh(ref, t)

(* A code is mailed for a login that only lacks a fresh second factor. *)
Challenged(ref, t) ==
  NeedsSecondFactor(ref) /\ ref.sndfa_email /\ ~SecondFactorFresh(ref, t)

(* Second query.  The attempt is stamped, judged and counted on the object  *)
(* it returned; Commit writes that object.                                  *)
RecordAttempt(r) ==
  LET l == [req[r] EXCEPT !.at = now,
                  !.tries = IF row = NoRow THEN 0 ELSE row.login_attempts] IN
    /\ At(r, "record")
    /\ IF row = NoRow THEN Goto(r, l, "register")
       ELSE IF ~l.right THEN Goto(r, l, "commit")
       ELSE IF ~Challenged(row, now)
       THEN Goto(r, [l EXCEPT !.token = Granted(row, now)], "commit")
       ELSE IF CodeReusable(row, now)
       THEN Goto(r, [l EXCEPT !.code = row.sndfa_code], "mail")
       ELSE Goto(r, l, "challenge")
    /\ badTries' = IF req[r].right THEN badTries ELSE badTries + 1
    /\ UNCHANGED <<now, user, row, inbox, proved, renewed>>

(* A new code, stored by set_user_sndfa_code with an object of its own. *)
Challenge(r) ==
  /\ At(r, "challenge")
  /\ IF UserExists
     THEN \E c \in Codes : /\ FreshCode(c)
                           /\ Goto(r, [req[r] EXCEPT !.code = c],
                                   "set_user_sndfa_code")
     ELSE Answer(r, "not_found")
  /\ UNCHANGED <<now, user, row, inbox, history>>

StoreChallenge(r) ==
  /\ At(r, "set_user_sndfa_code")
  /\ SetUserSndfaCode(r, "mail")
  /\ UNCHANGED <<now, user, inbox, history>>

(* The address is read again; without one self.get_user(...)['email'] is a  *)
(* KeyError.  Whether the mail was sent makes no difference, but an         *)
(* exception leaves the attempt uncounted.                                  *)
MailChallenge(r) ==
  /\ At(r, "mail")
  /\ IF UserExists /\ user.email # None
     THEN SendEmail(r, "sndfa", user.email, req[r].code, "commit", "commit")
     ELSE /\ Answer(r, IF UserExists THEN "error" ELSE "not_found")
          /\ UNCHANGED inbox
  /\ UNCHANGED <<now, user, row, history>>

(* Where the caller of authenticate goes on with an accepted password: the  *)
(* plugin of POST auth/tokens answers.                                      *)
Granting(op) == IF op = "authenticate" THEN "ok" ELSE "change"

Answering(r) == IF req[r].token THEN Granting(req[r].op) ELSE "unauthorized"

(* Variants for TypeOK, NoSpuriousBlock and ImplementsLockout: a right      *)
(* login takes one try back, or none; and nothing is ever counted.          *)
CountBack(right, tries) == IF right THEN tries - 1 ELSE tries + 1
CountAll(right, tries) == tries + 1
CountNone(right, tries) == 0

Count(right, tries) == IF right THEN 0 ELSE tries + 1

(* The final session.add: the two columns assigned, and no other. *)
Commit(r) ==
  LET l == req[r] IN
    /\ At(r, "commit")
    /\ Flush(r, TRUE,
         [row EXCEPT !.login_attempts =
                         Written(@, l.tries, Count(l.right, l.tries)),
                     !.last_login_attempt_time = l.at],
         Answering(r))
    /\ UNCHANGED <<now, user, inbox, history>>

(* First login of a user without a row. *)
Register(r) ==
  /\ At(r, "register")
  /\ Goto(r, [req[r] EXCEPT !.token = req[r].right],
          IF UserExists THEN "insert" ELSE "not_found")
  /\ UNCHANGED <<now, user, row, inbox, history>>

InsertLogin(r) ==
  LET l == req[r] IN
    /\ At(r, "insert")
    /\ Insert(r, NewRow(l.at, Count(l.right, 0), l.at), Answering(r))
    /\ UNCHANGED <<now, user, inbox, history>>

IdentityStep(r) ==
  \/ \E pw \in Passwords : Authenticate(r, pw)
  \/ \E pw, new \in Passwords : ChangePassword(r, pw, new)
  \/ LoadUser(r)
  \/ CheckPassword(r)
  \/ RecordAttempt(r)
  \/ Challenge(r)
  \/ StoreChallenge(r)
  \/ MailChallenge(r)
  \/ Commit(r)
  \/ Register(r)
  \/ InsertLogin(r)
=============================================================================
