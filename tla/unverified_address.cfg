\* A recovery mails the reset link to an address nobody verified.
SPECIFICATION Spec
CONSTANTS
  None = None
  NoRow = NoRow
  BadCode = BadCode
  Codes = {c1, c2}
  Passwords = {pw1}
  Strong = {pw1}
  Addresses = {a1, a2}
  Requests = {r1}
  Ops = {"ask_check_email", "check_email", "recover", "update_user"}
  MaxTries = 1
  BlockTime = 2
  ExpTime = 9
  Window = 1
  InBlacklist = FALSE
  Sndfa = TRUE
  MaxTime = 0
  MaxBad = 1
PROPERTIES
  RecoverMailsVerifiedAddress
CHECK_DEADLOCK FALSE
