-------------------------- MODULE LockoutRefinement --------------------------
(* The row of table spassword and the requests read as the state of Lockout. *)
EXTENDS SPasswordSystem

Lowest(m, n) == IF m < n THEN m ELSE n

RowTries == IF row = NoRow THEN 0 ELSE Lowest(row.login_attempts, MaxTries + 1)

RowAge ==
  IF row = NoRow \/ row.last_login_attempt_time = None THEN BlockTime
  ELSE Lowest(now - row.last_login_attempt_time, BlockTime)

Changing == {"user_created_callback", "user_updated_callback",
             "set_user_creation_time", "update_user_modification_time"}

(* The verdict of a login is known and not yet written.                     *)
Judged(l) ==
  /\ l.op \in {"authenticate", "change_password"}
  /\ l.pc \in {"challenge", "set_user_sndfa_code", "mail", "commit", "register",
               "insert"}

(* A request in state l as Lockout sees it.                                 *)
Stage(l) ==
  IF l.pc \in {"user", "password", "record"} THEN "trying"
  ELSE IF Judged(l) THEN IF l.right THEN "right" ELSE "wrong"
  ELSE IF l.pc \in Changing THEN "changing"
  ELSE IF l.pc = "remove_user" THEN "leaving"
  ELSE IF l.pc = "unauthorized" THEN "refused"
  ELSE IF l.pc \in {"blocked", "expired"} THEN l.pc
  ELSE IF l.pc \in {"error", "not_found"} THEN "failed"
  ELSE "idle"

Wait(l) == IF Judged(l) THEN Lowest(now - l.at, BlockTime) ELSE 0

Stages == [r \in Requests |-> Stage(req[r])]
Waits == [r \in Requests |-> Wait(req[r])]

Policy == INSTANCE Lockout
            WITH Clients <- Requests, tries <- RowTries, age <- RowAge,
                 login <- Stages, waited <- Waits

(* With one request at a time the plugin implements Lockout: every wrong    *)
(* password that is refused adds one to the count first, logins are blocked *)
(* after MaxTries + 1 of them and no sooner, for BlockTime from the last    *)
(* one counted, and nothing but a right password, a change of the user or   *)
(* its deletion takes the count back (authenticate, 380-517, with           *)
(* update_user_modification_time and remove_user).                          *)
ImplementsLockout == Policy!LockoutSpec
=============================================================================
