--------------------------- MODULE SPasswordModel ---------------------------
(***************************************************************************)
(* The row the plugin keeps for a user in table "spassword" (class         *)
(* SPasswordModel of backends/sql.py), the settings of CONF.spassword that  *)
(* give its columns a meaning, and the tests the code makes on a row.       *)
(*                                                                         *)
(* user_name and domain_id never influence a decision and are left out;     *)
(* "extra" is only ever {} or {"black": ...}: it is "black" here, None when *)
(* it is {}.                                                                *)
(***************************************************************************)
EXTENDS Integers

CONSTANTS
  Codes,        \* the values of uuid4().hex[:6]
  None,         \* SQL NULL
  NoRow,        \* the query for the user's row returned None
  MaxTries,     \* CONF.spassword.pwd_max_tries
  BlockTime,    \* CONF.spassword.pwd_block_minutes, in ticks
  ExpTime,      \* CONF.spassword.pwd_exp_days, in ticks
  Window,       \* CONF.spassword.sndfa_time_window, in ticks
  InBlacklist,  \* the user is in CONF.spassword.pwd_user_blacklist
  Sndfa         \* CONF.spassword.sndfa

ASSUME SettingsAssumption ==
  /\ MaxTries \in Nat /\ BlockTime \in Nat /\ ExpTime \in Nat /\ Window \in Nat
  /\ InBlacklist \in BOOLEAN /\ Sndfa \in BOOLEAN

ASSUME NoneAssumption == None \notin Nat /\ None \notin Codes

Stamp == Nat \cup {None}
MaybeCode == Codes \cup {None}

Row == [creation_time : Nat,
        login_attempts : Nat,
        last_login_attempt_time : Stamp,
        black : BOOLEAN \cup {None},
        sndfa : BOOLEAN,
        sndfa_last : Stamp,
        sndfa_code : MaybeCode,
        sndfa_time_code : Stamp,
        sndfa_email : BOOLEAN,
        sndfa_email_code : MaybeCode]

ASSUME NoRowAssumption == NoRow \notin Row

(* What every method inserts for a user it has no row for: only the three   *)
(* columns of NewRow differ between the callers.                            *)
BlankRow(created) ==
  [creation_time |-> created,
   login_attempts |-> 0,
   last_login_attempt_time |-> None,
   black |-> None,
   sndfa |-> FALSE,
   sndfa_last |-> None,
   sndfa_code |-> None,
   sndfa_time_code |-> None,
   sndfa_email |-> FALSE,
   sndfa_email_code |-> None]

(* Variant for AttemptsStamped: the attempt without its time. *)
NewRowUnstamped(created, attempts, last) ==
  [BlankRow(created) EXCEPT !.login_attempts = attempts]

NewRow(created, attempts, last) ==
  [BlankRow(created) EXCEPT !.login_attempts = attempts,
                            !.last_login_attempt_time = last]

(* The UPDATE of an ORM object sets a column only when the value assigned   *)
(* differs from the value loaded; otherwise what others stored in between   *)
(* stays.                                                                   *)
Written(stored, loaded, assigned) ==
  IF assigned = loaded THEN stored ELSE assigned

-----------------------------------------------------------------------------
(* Tests on a row, at time t. *)

OverTries(ref) == ref.login_attempts > MaxTries

(* Only called on a row over the limit; a NULL stamp here is an            *)
(* AttributeError in normalize_db_date, see BlockCheck.                     *)
StillBlocked(ref, t) == ref.last_login_attempt_time + BlockTime > t

Expired(ref, t) ==
  /\ ~InBlacklist
  /\ ref.black # TRUE
  /\ ref.creation_time + ExpTime < t

(* Variants for TokenNeedsMailedCode and EnrolledUserGetsIn: once passed,   *)
(* passed for ever; and the comparison turned round.                        *)
SecondFactorEver(ref, t) == ref.sndfa_last # None
SecondFactorTurned(ref, t) ==
  ref.sndfa_last # None /\ ref.sndfa_last + Window < t

(* Second factor passed less than Window ago. *)
SecondFactorFresh(ref, t) ==
  ref.sndfa_last # None /\ ref.sndfa_last + Window > t

(* Variants for MailsCarryCodes and ChallengeRetriesCode: no code counts as *)
(* a code of no age; and the comparison turned round.                       *)
CodeReusableUndated(ref, t) ==
  ref.sndfa_time_code = None \/ ref.sndfa_time_code + Window > t
CodeReusableTurned(ref, t) ==
  ref.sndfa_time_code # None /\ ref.sndfa_time_code + Window < t

(* The code mailed last may be mailed again. *)
CodeReusable(ref, t) ==
  ref.sndfa_time_code # None /\ ref.sndfa_time_code + Window > t

(* Second factor in force for this login. *)
NeedsSecondFactor(ref) == Sndfa /\ ref.sndfa
=============================================================================
