\* A user created, changed and deleted while logging in, two requests at a
\* time. The clients stop at MaxBad and MaxTime, hence no deadlock check.
SPECIFICATION Spec
CONSTANTS
  None = None
  NoRow = NoRow
  BadCode = BadCode
  Codes = {c1}
  Passwords = {pw1, pw2}
  Strong = {pw2}
  Addresses = {}
  Requests = {r1, r2}
  Ops = {"create_user", "update_user", "delete_user", "authenticate", "change_password"}
  MaxTries = 1
  BlockTime = 1
  ExpTime = 1
  Window = 1
  InBlacklist = FALSE
  Sndfa = FALSE
  MaxTime = 2
  MaxBad = 2
SYMMETRY RequestSymmetry
INVARIANTS
  AttemptsStamped
  NoSpuriousBlock
  RenewalLasts
PROPERTIES
  PresentUserKeepsRow
CHECK_DEADLOCK FALSE
