------------------------------- MODULE Lockout -------------------------------
(***************************************************************************)
(* What the plugin promises about bad passwords, as the clients of one user *)
(* see it.  Every wrong password that is refused as such has been counted,  *)
(* once; after MaxTries + 1 of them every login is refused, and is told so, *)
(* until BlockTime has passed since the last one counted was judged; no     *)
(* login is told so otherwise.  Only a right password, a change of the user *)
(* and a deletion take the count back.  A login refused by the block leaves *)
(* everything as it is, so trying does not prolong it.                      *)
(*                                                                         *)
(* A login goes through "trying" and its verdict, "wrong" or "right", to an *)
(* answer.  SPasswordSystem implements this as long as requests come one at *)
(* a time (LockoutRefinement, LockoutProofs).                               *)
(***************************************************************************)
EXTENDS Integers

CONSTANTS MaxTries, BlockTime, InBlacklist, Clients

VARIABLES
  tries,  \* bad tries in a row, MaxTries + 1 standing for any number above
  age,    \* time since the last counted login, BlockTime for any longer
  login,  \* how far each client's call has come, or how it was answered
  waited  \* time since the verdict, while it is not counted; else 0

lvars == <<tries, age, login, waited>>

AtMost(n, bound) == IF n > bound THEN bound ELSE n

(* Nothing pending: not asking for anything of interest here, or answered.  *)
Calm == {"idle", "refused", "failed", "blocked", "expired"}

Verdicts == {"wrong", "right"}

LockedOut == ~InBlacklist /\ tries > MaxTries /\ age < BlockTime

LockoutInit ==
  /\ tries = 0 /\ age = BlockTime
  /\ login = [c \in Clients |-> "idle"]
  /\ waited = [c \in Clients |-> 0]

To(c, stage) ==
  login' = [login EXCEPT ![c] = stage] /\ waited' = [waited EXCEPT ![c] = 0]

Uncounted == UNCHANGED <<tries, age>>

(* A login gets past the block, or is told that there is one.               *)
Enter(c) == login[c] \in Calm /\ ~LockedOut /\ To(c, "trying") /\ Uncounted
Refuse(c) == login[c] \in Calm /\ LockedOut /\ To(c, "blocked") /\ Uncounted

Judge(c) ==
  login[c] = "trying" /\ (\E v \in Verdicts : To(c, v)) /\ Uncounted

(* The count dates from the verdict.                                        *)
CountWrong(c) ==
  /\ login[c] = "wrong" /\ ~LockedOut
  /\ tries' = AtMost(tries + 1, MaxTries + 1) /\ age' = waited[c]
  /\ To(c, "refused")

(* A right password may still lack the second factor.                       *)
CountRight(c) ==
  /\ login[c] = "right" /\ ~LockedOut
  /\ tries' = 0 /\ age' = waited[c]
  /\ To(c, "idle") \/ To(c, "refused")

(* A login that neither was let in nor had its password refused: the        *)
(* password has expired, or the login ended with an error.                  *)
GiveUp(c) ==
  /\ \/ login[c] = "trying" /\ To(c, "expired")
     \/ login[c] \in {"trying"} \cup Verdicts /\ To(c, "failed")
  /\ Uncounted

(* A call other than a login, or a part of one that shows nothing here.     *)
Other(c) ==
  /\ login[c] \in Calm
  /\ \E s \in {"idle", "refused", "failed", "changing", "leaving"} : To(c, s)
  /\ Uncounted

(* The user was changed: that forgives the tries, unless it fails.          *)
Forgive(c) ==
  /\ login[c] = "changing"
  /\ \/ To(c, "idle") /\ tries' = 0 /\ UNCHANGED age
     \/ To(c, "failed") /\ Uncounted

(* The user was deleted: nothing is known any more, unless it fails.        *)
Forget(c) ==
  /\ login[c] = "leaving"
  /\ \/ To(c, "idle") /\ tries' = 0 /\ age' = BlockTime
     \/ To(c, "failed") /\ Uncounted

Pass ==
  /\ age' = AtMost(age + 1, BlockTime)
  /\ waited' = [c \in Clients |-> IF login[c] \in Verdicts
                                  THEN AtMost(waited[c] + 1, BlockTime) ELSE 0]
  /\ UNCHANGED <<tries, login>>

LockoutNext ==
  \/ Pass
  \/ \E c \in Clients :
       \/ Enter(c) \/ Refuse(c) \/ Judge(c) \/ CountWrong(c) \/ CountRight(c)
       \/ GiveUp(c) \/ Other(c) \/ Forgive(c) \/ Forget(c)

LockoutSpec == LockoutInit /\ [][LockoutNext]_lvars
=============================================================================
