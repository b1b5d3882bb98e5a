\* A second factor code is accepted after sndfa_time_window.
SPECIFICATION Spec
CONSTANTS
  None = None
  NoRow = NoRow
  BadCode = BadCode
  Codes = {c1, c2}
  Passwords = {pw1}
  Strong = {pw1}
  Addresses = {a1}
  Requests = {r1}
  Ops = {"authenticate", "ask_check_email", "check_email", "modify_sndfa", "check_sndfa"}
  MaxTries = 1
  BlockTime = 2
  ExpTime = 9
  Window = 1
  InBlacklist = FALSE
  Sndfa = TRUE
  MaxTime = 1
  MaxBad = 1
SYMMETRY CodeSymmetry
PROPERTIES
  StaleCodeRefused
CHECK_DEADLOCK FALSE
