\* Logins and changes of the user, one request at a time, every call that
\* stores a password but the reset. The clients stop at MaxBad and MaxTime,
\* hence no deadlock check.
SPECIFICATION FairSpec
CONSTANTS
  None = None
  NoRow = NoRow
  BadCode = BadCode
  Codes = {c1}
  Passwords = {pw1, pw2}
  Strong = {pw2}
  Addresses = {}
  Requests = {r1}
  Ops = {"authenticate", "change_password", "modify_black", "create_user", "update_user", "delete_user"}
  MaxTries = 1
  BlockTime = 2
  ExpTime = 3
  Window = 1
  InBlacklist = FALSE
  Sndfa = TRUE
  MaxTime = 5
  MaxBad = 4
INVARIANTS
  TypeOK
PROPERTIES
  ImplementsLockout
  BlockEnds
  StrongPasswords
  DeletedUserLosesRow
CHECK_DEADLOCK FALSE
