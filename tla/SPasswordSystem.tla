--------------------------- MODULE SPasswordSystem ---------------------------
(***************************************************************************)
(* The plugin: logins, API calls and administrator's calls of several       *)
(* requests on the tables User and spassword, for one user, with workers    *)
(* that may die at any point; and what must be true of it.                  *)
(***************************************************************************)
EXTENDS Identity, SPasswordApi, UserLifecycle

(* A user that is still to be created, or one that exists already, from     *)
(* before the plugin was installed (no row) or since.                       *)
Init ==
  /\ now = 0
  /\ user \in [status : {"present"} \cup
                         (IF "create_user" \in Ops THEN {"absent"} ELSE {}),
               password : Passwords, email : Addresses \cup {None}]
  /\ row \in IF user.status = "absent" THEN {NoRow}
             ELSE {NoRow, NewRow(0, 0, None)}
  /\ req = [r \in Requests |-> Idle]
  /\ inbox = {}
  /\ badTries = 0
  /\ proved = None
  /\ renewed = None

Next ==
  \/ Tick
  \/ \E r \in Requests : GetSPasswordSession(r)
  \/ \E r \in Requests : IdentityStep(r)
  \/ \E r \in Requests : ApiStep(r)
  \/ \E r \in Requests : LifecycleStep(r)
  \/ \E r \in Requests : Crash(r)

Spec == Init /\ [][Next]_vars

-----------------------------------------------------------------------------
(* For liveness: workers go on with the requests they have and time goes by *)
(* (FairSpec); and a user does not give up, who gets a mail now and then    *)
(* and follows its link.                                                    *)
Continue(r) == ~Free(r) /\ (GetSPasswordSession(r) \/ IdentityStep(r)
                            \/ ApiStep(r) \/ LifecycleStep(r))

Running == \A r \in Requests : WF_vars(Continue(r))

FairSpec == Spec /\ Running /\ WF_vars(Tick)

(* One who logs in again and again, second factor included. *)
LogIn(r) == Authenticate(r, user.password)

GetMail(r) == MailChallenge(r) /\ inbox' # inbox /\ req'[r].pc = "commit"

Click(r, op, code) == ApiCall(r) /\ req'[r].op = op /\ req'[r].code = code

ClickSndfa(r) == row # NoRow /\ Click(r, "check_sndfa", row.sndfa_code)

LoginSpec == /\ Spec /\ Running
             /\ \A r \in Requests : /\ SF_vars(LogIn(r))
                                   /\ SF_vars(GetMail(r))
                                   /\ SF_vars(ClickSndfa(r))

(* One who has lost the password: asks for a recovery unless the link of    *)
(* the last one is at hand, and follows that link.                          *)
KnowsPassword == Mailed("password", user.password)

LinkAtHand == row # NoRow /\ Mailed("reset", row.sndfa_email_code)

AskRecovery(r) == ~KnowsPassword /\ ~LinkAtHand /\ Click(r, "recover", None)

GetLink(r) == req[r].op = "recover" /\ MailCode(r) /\ inbox' # inbox

ClickReset(r) ==
  ~KnowsPassword /\ LinkAtHand /\ Click(r, "reset", row.sndfa_email_code)

GetPassword(r) == MailPassword(r) /\ inbox' # inbox

RecoverySpec == /\ Spec /\ Running
                /\ \A r \in Requests : /\ SF_vars(AskRecovery(r))
                                      /\ SF_vars(GetLink(r))
                                      /\ SF_vars(ClickReset(r))
                                      /\ SF_vars(GetPassword(r))

-----------------------------------------------------------------------------
TypeOK ==
  /\ now \in Nat
  /\ user \in User
  /\ row \in Row \cup {NoRow}
  /\ req \in [Requests -> Local]
  /\ inbox \subseteq Mails
  /\ badTries \in Nat
  /\ proved \in Stamp
  /\ renewed \in Stamp

(* A user is never blocked for tries that were not made: the row never      *)
(* counts more attempts than wrong passwords were given, however the        *)
(* logins that count them interleave (authenticate, lines 404-416).  It may *)
(* count fewer: EveryBadTryCounts is about those.                           *)
NoSpuriousBlock == row # NoRow => row.login_attempts <= badTries

(* A row that counts attempts has their time: the block check               *)
(* (authenticate, line 389) never meets a NULL stamp on a row over the      *)
(* limit.                                                                   *)
AttemptsStamped ==
  row # NoRow /\ row.login_attempts > 0 => row.last_login_attempt_time # None

(* The second factor code and its time are stored together, so a login that *)
(* finds the code young enough has a code to mail (authenticate, 445-450).  *)
ChallengeComplete ==
  row # NoRow => (row.sndfa_code = None <=> row.sndfa_time_code = None)

(* No mail goes out without a code or password in it.                       *)
MailsCarryCodes == \A m \in inbox : m.code # None

(* With second factor on, a token is only decided on when a second factor   *)
(* code that had been mailed to the user was sent back less than Window ago *)
(* (authenticate, 438-441, with check_sndfa_code, 273-277).                 *)
TokenNeedsMailedCode ==
  [][\A r \in Requests :
       /\ req[r].pc = "record" /\ req'[r].token
       /\ row # NoRow /\ NeedsSecondFactor(row)
       => proved # None /\ proved + Window > now]_vars

(* An unverified email becomes verified only by a request that came with a  *)
(* code from a mail, or by a recovery, which starts from a verified one     *)
(* (check_email_code, 320-321).  An older mail will do, or one of another   *)
(* kind.                                                                    *)
VerifiedOnlyByMailedCode ==
  [][\A r \in Requests :
       /\ row # NoRow /\ row' # NoRow
       /\ ~row.sndfa_email /\ row'.sndfa_email
       /\ req'[r] # req[r]
       => req[r].op = "recover" \/ \E m \in inbox : m.code = req[r].code]_vars

(* The password is reset only by a request that came with a code from a     *)
(* mail of whatever kind (_reset_password, 257).                            *)
ResetNeedsMailedCode ==
  \A r \in Requests :
    req[r].op = "reset" /\ req[r].pc = "update_user" =>
      \E m \in inbox : m.code = req[r].code

(* A handler that needs a new code or password and finds none within the    *)
(* bounds.                                                                  *)
OutOfCodes ==
  /\ InUse = Codes
  /\ \E r \in Requests : \/ req[r].pc = "challenge"
                         \/ req[r].op = "recover" /\ req[r].pc = "validated"

OutOfPasswords ==
  /\ \A pw \in Passwords : ~FreshPassword(pw)
  /\ \E r \in Requests : req[r].pc = "update_user"

(* Second factor does not lock out the user it protects: once workers stop  *)
(* dying and the enrolment stays, a user who keeps trying gets tokens       *)
(* (authenticate, 432-478, with check_sndfa_code).  The first premise only  *)
(* leaves out behaviours that the bound on Codes cuts off.                  *)
EnrolledUserGetsIn ==
  /\ []~OutOfCodes
  /\ <>[][~\E r \in Requests : Crash(r)]_vars
  /\ <>[](Enrolled(row))
  => []<>(\E r \in Requests : At(r, "commit") /\ req[r].token)

(* With one request at a time, a recovery that goes on to mail its code     *)
(* leaves the email verified as it found it (_recover_password, 219: "Set   *)
(* email again as verified").                                               *)
RecoverKeepsVerified ==
  [][\A r \in Requests :
       req[r].op = "recover" /\ req[r].pc # "mail" /\ req'[r].pc = "mail" =>
         row' # NoRow /\ row'.sndfa_email]_vars

(* Whatever fails on the way (a mail lost or refused after the password was *)
(* changed, a worker that died), a user who keeps asking gets to know a     *)
(* password that works (_reset_password, 253-282): as long as the email     *)
(* stays verified, which a wrong code sent by anybody ends                  *)
(* (check_email_code, 320-321).  The first premise only leaves out          *)
(* behaviours that the bounds on Codes and Passwords cut off.               *)
PersistentUserRecovers ==
  /\ []~(OutOfCodes \/ OutOfPasswords)
  /\ <>[][~\E r \in Requests : Crash(r)]_vars
  /\ <>[](/\ row # NoRow
          /\ \/ row.sndfa_email
             \/ \E r \in Requests :
                  /\ req[r].op = "recover"
                  /\ req[r].pc \in {"set_check_email_code", "check_email_code"})
  => []<>KnowsPassword

(* The step of a recovery that is to "set email again as verified" never    *)
(* takes the verification away (_recover_password, 219-220).                *)
RecoverNeverUnverifies ==
  [][\A r \in Requests :
       /\ req[r].op = "recover" /\ Writing(r, "check_email_code")
       /\ row # NoRow /\ row.sndfa_email /\ req'[r].pc = "mail"
       => row'.sndfa_email]_vars

(* The "link to verify your access" that a login mails carries the code     *)
(* check_sndfa_code will compare with (authenticate, 450-466).  That takes  *)
(* one request at a time.                                                   *)
MailedCodeIsStored ==
  \A r \in Requests :
    req[r].op = "authenticate" /\ req[r].pc = "mail" =>
      row # NoRow /\ row.sndfa_code = req[r].code

(* With one request at a time, a code already stored is not replaced while  *)
(* it is young enough to be mailed again (authenticate, 447-452).           *)
ChallengeRetriesCode ==
  [][/\ row # NoRow /\ row' # NoRow
     /\ row'.sndfa_code # row.sndfa_code
     => ~CodeReusable(row, now)]_vars

(* "Code is just valid during sndfa_time_window.": a second factor code is  *)
(* accepted only while it is young enough (check_sndfa_code, 273-275).      *)
StaleCodeRefused ==
  [][\A r \in Requests :
       /\ req[r].pc = "check_sndfa_code" /\ req'[r].pc = "ok"
       => CodeReusable(req[r].ref, now)]_vars

(* "If user has valid and validated email then a link for continue reset    *)
(* password procedure will be sent to user email": the address a recovery   *)
(* mails to once got a code of an email verification.                       *)
RecoverMailsVerifiedAddress ==
  [][\A r \in Requests :
       req[r].op = "recover" /\ req[r].pc = "mail" /\ inbox' # inbox =>
         \E m \in inbox : m.kind = "email" /\ m.to = req[r].email]_vars

(* "Delete user from spassword table": once a user is deleted and the       *)
(* callback is over, nothing inserts a row (user_deleted_callback, 115-120, *)
(* authenticate, 512).  "ok" is the answer to the deletion: a login that is *)
(* about to insert has none yet, so a worker that died in the callback is   *)
(* not what the property is about.                                          *)
DeletedUserStaysOut ==
  [][/\ user.status = "deleted" /\ row = NoRow
     /\ \A r \in Requests : req[r].pc # "remove_user"
     /\ \E r \in Requests : req[r].pc = "ok"
     => row' = NoRow]_vars

(* With one request at a time, the row of a deleted user goes too, unless   *)
(* the worker dies between Keystone's transaction and the callback's        *)
(* (user_deleted_callback, 115-120).                                        *)
DeletedUserLosesRow ==
  \A r \in Requests :
    req[r].op = "delete_user" ~> row = NoRow \/ req[r].pc = "error"

(* A password set by a creation, an update or a change of password is       *)
(* strong, however long after the check it is stored; only a reset's is not *)
(* checked (strong_check_password and its callers).                         *)
StrongPasswords ==
  [][user'.password # user.password =>
       \/ user'.password \in Strong \cup {None}
       \/ \E r \in Requests : req[r].op = "reset" /\ req'[r] # req[r]]_vars

(* A change of the user whose callback went well makes the password last    *)
(* ExpTime from then on, whatever other requests store meanwhile            *)
(* (_check_password, 364-374, with update_user_modification_time, 147-168). *)
RenewalLasts ==
  UserExists /\ row # NoRow /\ Expired(row, now) =>
    renewed = None \/ renewed + ExpTime < now

(* Every block ends by itself, whatever logins are tried meanwhile          *)
(* (authenticate, 387-397, raises before anything is written).  MaxTime is  *)
(* the end of the clock here.                                               *)
LockedOut == ~InBlacklist /\ row # NoRow /\ Blocked(row, now)

BlockEnds == LockedOut /\ now + BlockTime <= MaxTime ~> ~LockedOut

(* A user who exists keeps the row, and with it the enrolment and the       *)
(* count: rows are removed only for users already deleted                   *)
(* (user_deleted_callback, remove_user).                                    *)
PresentUserKeepsRow ==
  [][user.status = "present" /\ row # NoRow => row' # NoRow]_vars

(* "max number of bad login tries before user ccount is blocked (no         *)
(* login/token request is allowed)": no login gets past the block check     *)
(* once that many were counted, and blocked for BlockTime.                  *)
BlockedAfterMaxTries ==
  [][\A r \in Requests :
       Free(r) /\ req'[r].pc = "user" /\ row # NoRow =>
         row.login_attempts < MaxTries \/ ~StillBlocked(row, now)]_vars

(* "to control the number of tries that an user can use badly their         *)
(* password": a refused login with a wrong password adds one to the count.  *)
EveryBadTryCounts ==
  [][\A r \in Requests :
       /\ At(r, "commit") /\ ~req[r].right /\ req'[r].pc = "unauthorized"
       => row'.login_attempts = row.login_attempts + 1]_vars
=============================================================================
