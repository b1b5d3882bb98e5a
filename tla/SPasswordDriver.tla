-------------------------- MODULE SPasswordDriver --------------------------
(***************************************************************************)
(* The driver class SPassword of backends/sql.py: the methods that read and *)
(* write the row of table spassword, as the requests of several Keystone    *)
(* workers run them for one user.                                           *)
(*                                                                         *)
(* Every method is a query in a transaction of its own, Python code on the  *)
(* object it returned, and "with session.begin(): session.add(ref)", a      *)
(* second transaction that writes the columns the code changed.  A request  *)
(* is therefore at a method's query (pc names the method, loaded = FALSE)   *)
(* or between query and write (loaded = TRUE, ref is the object), and       *)
(* anything another request stores may come in between.                     *)
(***************************************************************************)
EXTENDS SPasswordModel

(* The calls that reach the plugin for one user. *)
APIOps == {"authenticate", "change_password", "ask_check_email", "check_email",
           "modify_sndfa", "check_sndfa", "modify_black", "recover", "reset",
           "create_user", "update_user", "delete_user"}

CONSTANTS
  Requests,   \* HTTP requests handled at the same time
  Passwords,  \* values of the user's password
  Strong,     \* those cracklib.VeryFascistCheck accepts
  Addresses,  \* values of the user's email
  BadCode,    \* a code that was never issued
  Ops,        \* the calls the clients of this instance make
  MaxTime,    \* bound: last tick of the clock
  MaxBad      \* bound: no login starts after this many wrong passwords

ASSUME BoundsAssumption ==
  /\ MaxTime \in Nat /\ MaxBad \in Nat
  /\ BadCode \notin Codes \cup {None}
  /\ None \notin Passwords \cup Addresses
  /\ Strong \subseteq Passwords
  /\ Ops \subseteq APIOps

VARIABLES
  now,       \* datetime.utcnow()
  user,      \* the row of table User (Keystone's own)
  row,       \* the row of table spassword, or NoRow
  req,       \* for every request, the state of its handler
  inbox,     \* mails that reached their address
  badTries,  \* history: wrong passwords counted by authenticate
  proved,    \* history: last time a client sent a second factor code it was mailed
  renewed    \* history: last time a callback for a change of the user went well

history == <<badTries, proved, renewed>>
vars == <<now, user, row, req, inbox, history>>

-----------------------------------------------------------------------------
(* How a request is answered: two of the answers 401 say why.               *)
Outcomes == {"ok", "unauthorized", "blocked", "expired", "not_found",
             "bad_request", "error"}

Methods == {"set_user_creation_time", "update_user_modification_time",
            "remove_user", "set_user_sndfa_code", "modify_sndfa",
            "modify_black", "check_sndfa_code", "set_check_email_code",
            "check_email_code"}

HandlerSteps == {"user", "password", "record", "challenge", "mail", "register",
                 "insert", "commit", "change", "validated", "update_user",
                 "user_created_callback", "user_updated_callback"}

PCs == {"idle"} \cup Outcomes \cup Methods \cup HandlerSteps

MailKinds == {"sndfa", "email", "reset", "password"}

(* What a request carries and has computed so far. *)
Local == [op : APIOps \cup {"none"},
          pc : PCs,
          password : Passwords \cup {None},  \* password of the login
          new : Passwords \cup {None},       \* password to be stored
          code : MaybeCode \cup {BadCode},   \* code of the URL, or generated
          enable : BOOLEAN,                  \* body of a modify call
          loaded : BOOLEAN,                  \* between query and write
          ref : Row \cup {NoRow},            \* what the query returned
          at : Nat,                          \* current_attempt_time
          tries : Nat,                       \* login_attempts as queried then
          right : BOOLEAN,                   \* Keystone accepted the password
          token : BOOLEAN,                   \* res at the end of authenticate
          email : Addresses \cup {None}]     \* email of user_info

Idle == [op |-> "none", pc |-> "idle", password |-> None, new |-> None,
         code |-> None, enable |-> FALSE, loaded |-> FALSE, ref |-> NoRow,
         at |-> 0, tries |-> 0, right |-> FALSE, token |-> FALSE, email |-> None]

User == [status : {"absent", "present", "deleted"},
         password : Passwords \cup {None}, email : Addresses \cup {None}]

Mails == [kind : MailKinds, to : Addresses \cup {None},
          code : MaybeCode \cup Passwords]

Mailed(kind, content) == \E m \in inbox : m.kind = kind /\ m.code = content

(* The codes a client may type or click: those of the user's mails, or a    *)
(* wrong one.                                                               *)
KnownCodes ==
  {c \in Codes : \E m \in inbox : m.kind # "password" /\ m.code = c} \cup {BadCode}

-----------------------------------------------------------------------------
(* Moving a request. *)

Free(r) == req[r].pc \in Outcomes \cup {"idle"}

(* A request is over: its answer is an HTTP status, its objects are gone. *)
Answered(outcome) == [Idle EXCEPT !.pc = outcome]

(* l goes on to step next, or ends there. *)
Goto(r, l, next) ==
  req' = [req EXCEPT ![r] =
            IF next \in Outcomes THEN Answered(next)
            ELSE [l EXCEPT !.pc = next, !.loaded = FALSE, !.ref = NoRow]]

Answer(r, outcome) == req' = [req EXCEPT ![r] = Answered(outcome)]

(* get_spassword_session: the query of every method. *)
GetSPasswordSession(r) ==
  /\ req[r].pc \in Methods /\ ~req[r].loaded
  /\ req' = [req EXCEPT ![r].loaded = TRUE, ![r].ref = row]
  /\ UNCHANGED <<now, user, row, inbox, history>>

Writing(r, method) == req[r].pc = method /\ req[r].loaded

(* session.add and commit of a queried object: no statement when nothing    *)
(* changed; an UPDATE of a row that was deleted meanwhile is a              *)
(* StaleDataError.                                                          *)
Flush(r, changed, assigned, next) ==
  IF changed
  THEN IF row = NoRow
       THEN Answer(r, "error") /\ UNCHANGED row
       ELSE row' = assigned /\ Goto(r, req[r], next)
  ELSE UNCHANGED row /\ Goto(r, req[r], next)

(* session.add and commit of a new object: DBDuplicateEntry when another    *)
(* request inserted the row first.                                          *)
Insert(r, new, next) ==
  IF row = NoRow
  THEN row' = new /\ Goto(r, req[r], next)
  ELSE Answer(r, "error") /\ UNCHANGED row

(* A method that leaves the row alone. *)
Skip(r, next) == Goto(r, req[r], next) /\ UNCHANGED row

-----------------------------------------------------------------------------
(* The methods, from the object loaded to the write.  "next" is where the   *)
(* caller goes on, "yes" and "no" when it looks at the value returned.      *)
(* They say what becomes of row and of the request; the modules that call   *)
(* them frame the rest.                                                     *)

(* Variant for DeletedUserLosesRow: the deletion is never committed.        *)
RemoveUserNot(r, next) == Writing(r, "remove_user") /\ Skip(r, next)

RemoveUser(r, next) ==
  /\ Writing(r, "remove_user")
  /\ row' = IF req[r].ref = NoRow THEN row ELSE NoRow
  /\ Goto(r, req[r], next)

(* Variant for RenewalLasts: the count is reset and the time is not.        *)
RenewCount(r, next) ==
  LET ref == req[r].ref IN
    IF ref = NoRow
    THEN Insert(r, NewRow(now, 0, None), next)
    ELSE Flush(r, TRUE,
           [row EXCEPT !.login_attempts = Written(@, ref.login_attempts, 0)],
           next)

(* A new row, or the renewal of the one that is there. *)
RenewPassword(r, next) ==
  LET ref == req[r].ref IN
    IF ref = NoRow
    THEN Insert(r, NewRow(now, 0, None), next)
    ELSE Flush(r, TRUE,
           [row EXCEPT !.creation_time = now,
                       !.login_attempts = Written(@, ref.login_attempts, 0)],
           next)

SetUserCreationTime(r, next) ==
  Writing(r, "set_user_creation_time") /\ RenewPassword(r, next)

UpdateUserModificationTime(r, next) ==
  Writing(r, "update_user_modification_time") /\ RenewPassword(r, next)

(* Variants for ChallengeComplete and MailedCodeIsStored: the code without  *)
(* its time, the time without the code.                                     *)
WithCodeUndated(stored, loaded, code, t) ==
  [stored EXCEPT !.sndfa_code = Written(@, loaded.sndfa_code, code)]

WithTimeOnly(stored, loaded, code, t) == [stored EXCEPT !.sndfa_time_code = t]

WithCode(stored, loaded, code, t) ==
  [stored EXCEPT !.sndfa_code = Written(@, loaded.sndfa_code, code),
                 !.sndfa_time_code = t]

(* Enrolled: what set_user_sndfa_code and check_sndfa_code insist on. *)
Enrolled(ref) == ref # NoRow /\ ref.sndfa /\ ref.sndfa_email

(* Silently nothing for a user who is not enrolled. *)
SetUserSndfaCode(r, next) ==
  LET ref == req[r].ref IN
    /\ Writing(r, "set_user_sndfa_code")
    /\ IF Enrolled(ref)
       THEN Flush(r, TRUE, WithCode(row, ref, req[r].code, now), next)
       ELSE Skip(r, next)

ModifySndfa(r, next) ==
  LET ref == req[r].ref IN
    /\ Writing(r, "modify_sndfa")
    /\ IF ref # NoRow /\ ref.sndfa_email
       THEN Flush(r, ref.sndfa # req[r].enable,
                  [row EXCEPT !.sndfa = req[r].enable], next)
       ELSE Skip(r, next)

ModifyBlack(r, next) ==
  LET ref == req[r].ref IN
    /\ Writing(r, "modify_black")
    /\ IF ref # NoRow
       THEN Flush(r, ref.black # req[r].enable,
                  [row EXCEPT !.black = req[r].enable], next)
       ELSE Skip(r, next)

(* Variant for TokenNeedsMailedCode: no comparison. *)
AnySndfaCode(ref, code) == TRUE

(* The code is compared with the one loaded; its age is not looked at. *)
SndfaCodeAccepted(ref, code) == ref.sndfa_code = code

CheckSndfaCode(r, yes, no) ==
  LET ref == req[r].ref IN
    /\ Writing(r, "check_sndfa_code")
    /\ IF Enrolled(ref) /\ SndfaCodeAccepted(ref, req[r].code)
       THEN Flush(r, TRUE, [row EXCEPT !.sndfa_last = now], yes)
       ELSE Skip(r, no)
    /\ proved' = IF Mailed("sndfa", req[r].code) THEN now ELSE proved

(* A new code to verify the email: it is not verified until then. *)
SetCheckEmailCode(r, next) ==
  LET ref == req[r].ref IN
    /\ Writing(r, "set_check_email_code")
    /\ IF ref # NoRow
       THEN Flush(r, TRUE,
              [row EXCEPT !.sndfa_email_code =
                              Written(@, ref.sndfa_email_code, req[r].code),
                          !.sndfa_email = Written(@, ref.sndfa_email, FALSE)],
              next)
       ELSE Skip(r, next)

(* Variant for VerifiedOnlyByMailedCode: any code will do once one is set. *)
EmailCodeSet(ref, code) == ref.sndfa_email_code # None

EmailCodeAccepted(ref, code) == ref.sndfa_email_code = code

(* Whether the code is the one loaded becomes the email's verification; the *)
(* code stays in the row.                                                   *)
CheckEmailCode(r, yes, no) ==
  LET ref == req[r].ref
      check == EmailCodeAccepted(ref, req[r].code) IN
    /\ Writing(r, "check_email_code")
    /\ IF ref # NoRow /\ ref.sndfa_email_code # None
       THEN Flush(r, ref.sndfa_email # check,
                  [row EXCEPT !.sndfa_email = check],
                  IF check THEN yes ELSE no)
       ELSE Skip(r, no)

(* already_email_checked: a query and no write. *)
AlreadyEmailChecked == row # NoRow /\ row.sndfa_email

-----------------------------------------------------------------------------
RowCodes(ref) == IF ref = NoRow THEN {} ELSE {ref.sndfa_code, ref.sndfa_email_code}

(* The codes somebody holds: the table, a handler or a mail.                *)
InUse ==
  {c \in Codes : \/ c \in RowCodes(row)
                 \/ \E r \in Requests : c \in RowCodes(req[r].ref) \cup {req[r].code}
                 \/ \E m \in inbox : m.code = c}

(* uuid4().hex[:6]: none of the values in use.                              *)
FreshCode(c) == c \in Codes \ InUse

(* SendMail.send_email: the mail may reach its address or not whatever the  *)
(* answer; "no" is the answer False, and every error outside sendmail's own *)
(* try block, that of quit included, is raised.                             *)
SendEmail(r, kind, to, content, yes, no) ==
  /\ inbox' \in {inbox,
                 inbox \cup {[kind |-> kind, to |-> to, code |-> content]}}
  /\ \E next \in {yes, no, "error"} : Goto(r, req[r], next)

(* Variant for StrongPasswords: the check passes everything.                *)
AnyPassword(pw) == TRUE

(* CheckPassword.strong_check_password, for a body with a password.         *)
StrongCheckPassword(pw) == pw # None => pw \in Strong

(* get_user of table User: UserNotFound, a 404, when it is gone. *)
UserExists == user.status = "present"

(* Time passes between any two transactions. *)
Tick ==
  /\ now < MaxTime
  /\ now' = now + 1
  /\ UNCHANGED <<user, row, req, inbox, history>>

(* The worker handling a request dies, or is restarted. *)
Crash(r) ==
  /\ ~Free(r)
  /\ Answer(r, "error")
  /\ UNCHANGED <<now, user, row, inbox, history>>
=============================================================================
