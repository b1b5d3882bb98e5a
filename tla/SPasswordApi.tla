---------------------------- MODULE SPasswordApi ----------------------------
(***************************************************************************)
(* The resources of spassword.py with the SPasswordManager calls they make: *)
(* email verification, second factor, password recovery and reset, and the  *)
(* expiry black list.  A handler starts with everything it does before its  *)
(* first use of table spassword, one read of table User included, and goes  *)
(* on with one step per query, write or mail.                               *)
(***************************************************************************)
EXTENDS SPasswordDriver

(* The steps of a call that comes with code c and body "enable". *)
Call(r, op, c, enable, first) ==
  /\ op \in Ops /\ Free(r)
  /\ Goto(r, [Idle EXCEPT !.op = op, !.code = c, !.enable = enable,
                          !.email = user.email], first)

(* _check_spassword_configured, get_user, _check_user_has_email_defined:    *)
(* the checks of a handler, in its order, and where they lead.              *)
Configured(next) == IF Sndfa THEN next ELSE "bad_request"
GetUser(next) == IF UserExists THEN next ELSE "not_found"
EmailDefined(next) == IF user.email # None THEN next ELSE "unauthorized"

-----------------------------------------------------------------------------
(* GET checkemail: a code is stored, the email becomes unverified, and the  *)
(* code is mailed.                                                          *)
AskCheckEmail(r) ==
  \/ /\ UserExists /\ user.email # None
     /\ \E c \in Codes :
          /\ FreshCode(c)
          /\ Call(r, "ask_check_email", c, FALSE, "set_check_email_code")
  \/ /\ ~(UserExists /\ user.email # None)
     /\ Call(r, "ask_check_email", None, FALSE,
             GetUser(EmailDefined("set_check_email_code")))

(* GET checkemail/<code> *)
CheckEmail(r) ==
  \E c \in KnownCodes :
    Call(r, "check_email", c, FALSE,
         GetUser(EmailDefined("check_email_code")))

(* POST sndfa *)
AskModifySndfa(r) ==
  \E enable \in BOOLEAN :
    Call(r, "modify_sndfa", None, enable,
         Configured(GetUser(EmailDefined("validated"))))

(* GET sndfa/<code> *)
CheckSndfa(r) ==
  \E c \in KnownCodes :
    Call(r, "check_sndfa", c, FALSE, Configured(GetUser("validated")))

(* POST black *)
AskModifyBlack(r) ==
  \E enable \in BOOLEAN :
    Call(r, "modify_black", None, enable, Configured(GetUser("modify_black")))

(* GET recover_password *)
Recover(r) ==
  Call(r, "recover", None, FALSE,
       Configured(GetUser(EmailDefined("validated"))))

(* GET reset_password/<code>: no check of the configuration, nor of the     *)
(* email before it is used.                                                 *)
Reset(r) ==
  \E c \in KnownCodes :
    Call(r, "reset", c, FALSE, GetUser("check_email_code"))

ApiCall(r) ==
  /\ \/ AskCheckEmail(r)
     \/ CheckEmail(r)
     \/ AskModifySndfa(r)
     \/ CheckSndfa(r)
     \/ AskModifyBlack(r)
     \/ Recover(r)
     \/ Reset(r)
  /\ UNCHANGED <<now, user, row, inbox, history>>

-----------------------------------------------------------------------------
(* _check_user_has_email_validated, and where each operation goes on; a     *)
(* recovery then asks for a code.                                           *)
EmailValidated(r) ==
  /\ req[r].pc = "validated"
  /\ IF ~AlreadyEmailChecked
     THEN Answer(r, "unauthorized")
     ELSE \/ req[r].op = "modify_sndfa" /\ Goto(r, req[r], "modify_sndfa")
          \/ req[r].op = "check_sndfa" /\ Goto(r, req[r], "check_sndfa_code")
          \/ /\ req[r].op = "recover"
             /\ \E c \in Codes :
                  /\ FreshCode(c)
                  /\ Goto(r, [req[r] EXCEPT !.code = c], "set_check_email_code")
  /\ UNCHANGED <<now, user, row, inbox, history>>

(* Variant for RecoverKeepsVerified: the code is mailed at once. *)
RecoverMails == "mail"

(* A recovery checks the code it has just stored, to have the email         *)
(* verified again, and ignores the answer.                                  *)
RecoverGoesOn == "check_email_code"

(* What each operation does after a write of the driver. *)
ApiWrite(r) ==
  /\ \/ req[r].op = "ask_check_email" /\ SetCheckEmailCode(r, "mail")
     \/ req[r].op = "recover" /\ SetCheckEmailCode(r, RecoverGoesOn)
     \/ req[r].op = "recover" /\ CheckEmailCode(r, "mail", "mail")
     \/ req[r].op = "check_email" /\ CheckEmailCode(r, "ok", "unauthorized")
     \/ req[r].op = "reset" /\ CheckEmailCode(r, "update_user", "unauthorized")
     \/ ModifySndfa(r, "ok")
     \/ ModifyBlack(r, "ok")
  /\ UNCHANGED <<now, user, inbox, history>>

CheckCode(r) ==
  /\ req[r].op = "check_sndfa" /\ CheckSndfaCode(r, "ok", "unauthorized")
  /\ UNCHANGED <<now, user, inbox, badTries, renewed>>

(* The mail of a code; its failure is the caller's answer 400. *)
MailCode(r) ==
  /\ req[r].pc = "mail"
  /\ \/ /\ req[r].op = "ask_check_email"
        /\ SendEmail(r, "email", req[r].email, req[r].code, "ok", "bad_request")
     \/ /\ req[r].op = "recover"
        /\ SendEmail(r, "reset", req[r].email, req[r].code, "ok", "bad_request")
  /\ UNCHANGED <<now, user, row, history>>

-----------------------------------------------------------------------------
(* str(uuid4())[:12]: a password nobody uses or was told.                   *)
FreshPassword(pw) ==
  /\ pw # user.password /\ ~Mailed("password", pw)
  /\ \A r \in Requests : req[r].new # pw

(* Variant for PersistentUserRecovers: the password mailed is drawn anew.   *)
ResetPasswordTwice(r) ==
  /\ req[r].op = "reset" /\ req[r].pc = "update_user"
  /\ \E pw, other \in Passwords :
       /\ FreshPassword(pw)
       /\ user' = [user EXCEPT !.password = pw]
       /\ Goto(r, [req[r] EXCEPT !.new = other], "user_updated_callback")
  /\ UNCHANGED <<now, row, inbox, history>>

(* identity_api.update_user of a reset: a random password is stored, and    *)
(* Keystone notifies "user updated" before the mail is sent.  It is not     *)
(* checked for its strength.                                                *)
ResetPassword(r) ==
  /\ req[r].op = "reset" /\ req[r].pc = "update_user"
  /\ IF UserExists
     THEN \E pw \in Passwords :
            /\ FreshPassword(pw)
            /\ user' = [user EXCEPT !.password = pw]
            /\ Goto(r, [req[r] EXCEPT !.new = pw], "user_updated_callback")
     ELSE Answer(r, "not_found") /\ UNCHANGED user
  /\ UNCHANGED <<now, row, inbox, history>>

(* _send_new_password_email: the answer is 200 whether or not it was sent,  *)
(* but a user without email is a KeyError, after the change.                *)
MailPassword(r) ==
  /\ req[r].op = "reset" /\ req[r].pc = "mail"
  /\ IF req[r].email # None
     THEN SendEmail(r, "password", req[r].email, req[r].new, "ok", "ok")
     ELSE Answer(r, "error") /\ UNCHANGED inbox
  /\ UNCHANGED <<now, user, row, history>>

ApiStep(r) ==
  \/ ApiCall(r)
  \/ EmailValidated(r)
  \/ ApiWrite(r)
  \/ CheckCode(r)
  \/ MailCode(r)
  \/ ResetPassword(r)
  \/ MailPassword(r)
=============================================================================
