\* Two recoveries at the same time leave the email unverified.
SPECIFICATION Spec
CONSTANTS
  None = None
  NoRow = NoRow
  BadCode = BadCode
  Codes = {c1, c2, c3}
  Passwords = {pw1}
  Strong = {pw1}
  Addresses = {a1}
  Requests = {r1, r2}
  Ops = {"ask_check_email", "check_email", "recover"}
  MaxTries = 1
  BlockTime = 2
  ExpTime = 9
  Window = 1
  InBlacklist = FALSE
  Sndfa = TRUE
  MaxTime = 0
  MaxBad = 1
SYMMETRY Symmetry
PROPERTIES
  RecoverNeverUnverifies
CHECK_DEADLOCK FALSE
