---------------------------- MODULE UserLifecycle ----------------------------
(***************************************************************************)
(* The administrator's calls on table User and the event callbacks          *)
(* SPasswordManager registers for them (core.py).  Keystone commits its own *)
(* change first and then runs the callback in the same request; table       *)
(* spassword follows in later transactions, or never, when the worker dies  *)
(* in between.                                                              *)
(***************************************************************************)
EXTENDS SPasswordDriver

Arrive(r, op, pc) ==
  op \in Ops /\ Free(r) /\ Goto(r, [Idle EXCEPT !.op = op], pc)

(* A user id is created once: ids are not reused after a deletion.  POST    *)
(* users refuses a weak password; a body without one creates a user who     *)
(* cannot log in.  The SCIM resource is routed with a user id only, which   *)
(* its post does not take.                                                  *)
CreateUser(r) ==
  /\ user.status = "absent"
  /\ \E pw \in Passwords \cup {None}, email \in Addresses \cup {None} :
       IF StrongCheckPassword(pw)
       THEN /\ Arrive(r, "create_user", "user_created_callback")
            /\ user' = [status |-> "present", password |-> pw, email |-> email]
       ELSE Arrive(r, "create_user", "bad_request") /\ UNCHANGED user

(* A change whose body has a password, which must be strong, or none; any   *)
(* change of another field is a change of the email here.                   *)
ChangeUser(r, refused) ==
  /\ UserExists
  /\ \E pw \in Passwords \cup {None}, email \in Addresses \cup {user.email} :
       IF StrongCheckPassword(pw)
       THEN /\ Arrive(r, "update_user", "user_updated_callback")
            /\ user' = [user EXCEPT !.password = IF pw = None THEN @ ELSE pw,
                                    !.email = email]
       ELSE Arrive(r, "update_user", refused) /\ UNCHANGED user

(* PATCH users, and PATCH of the SCIM resource. *)
UpdateUser(r) == ChangeUser(r, "unauthorized")
ScimUpdateUser(r) == ChangeUser(r, "bad_request")

(* Variant for PresentUserKeepsRow: the callback runs before the deletion. *)
DeleteUserLate(r) ==
  UserExists /\ Arrive(r, "delete_user", "remove_user") /\ UNCHANGED user

DeleteUser(r) ==
  /\ UserExists
  /\ Arrive(r, "delete_user", "remove_user")
  /\ user' = [user EXCEPT !.status = "deleted"]

(* Keystone's change_password stores the new password once the old one was *)
(* accepted, and notifies "user updated".                                   *)
StorePassword(r) ==
  /\ req[r].op = "change_password" /\ req[r].pc = "change"
  /\ IF UserExists
     THEN /\ user' = [user EXCEPT !.password = req[r].new]
          /\ Goto(r, req[r], "user_updated_callback")
     ELSE Answer(r, "not_found") /\ UNCHANGED user

(* The callbacks begin with driver.get_user. *)
Callback(r, callback, method) ==
  /\ req[r].pc = callback
  /\ Goto(r, req[r], IF UserExists THEN method ELSE "not_found")

(* The write of a callback is its last step, unless the update was a        *)
(* reset's: that goes on to mail the password.                              *)
CallbackWrite(r) ==
  \/ SetUserCreationTime(r, "ok")
  \/ UpdateUserModificationTime(r, IF req[r].op = "reset" THEN "mail" ELSE "ok")

LifecycleStep(r) ==
  \/ /\ \/ CreateUser(r) \/ UpdateUser(r) \/ ScimUpdateUser(r)
        \/ DeleteUser(r) \/ StorePassword(r)
     /\ UNCHANGED <<now, row, inbox, history>>
  \/ /\ \/ Callback(r, "user_created_callback", "set_user_creation_time")
        \/ Callback(r, "user_updated_callback", "update_user_modification_time")
     /\ UNCHANGED <<now, user, row, inbox, history>>
  \/ /\ CallbackWrite(r)
     /\ renewed' = IF req'[r].pc = "error" THEN renewed ELSE now
     /\ UNCHANGED <<now, user, inbox, badTries, proved>>
  \/ /\ RemoveUser(r, "ok")
     /\ UNCHANGED <<now, user, inbox, history>>
=============================================================================
