\* A login in progress inserts a row for a user deleted meanwhile.
SPECIFICATION Spec
CONSTANTS
  None = None
  NoRow = NoRow
  BadCode = BadCode
  Codes = {c1}
  Passwords = {pw1, pw2}
  Strong = {pw1, pw2}
  Addresses = {}
  Requests = {r1, r2}
  Ops = {"authenticate", "delete_user"}
  MaxTries = 1
  BlockTime = 2
  ExpTime = 9
  Window = 1
  InBlacklist = FALSE
  Sndfa = FALSE
  MaxTime = 0
  MaxBad = 2
PROPERTIES
  DeletedUserStaysOut
CHECK_DEADLOCK FALSE
