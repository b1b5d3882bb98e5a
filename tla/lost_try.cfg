\* Two wrong logins at the same time count as one.
SPECIFICATION Spec
CONSTANTS
  None = None
  NoRow = NoRow
  BadCode = BadCode
  Codes = {c1}
  Passwords = {pw1, pw2}
  Strong = {pw1, pw2}
  Addresses = {}
  Requests = {r1, r2}
  Ops = {"authenticate"}
  MaxTries = 1
  BlockTime = 2
  ExpTime = 9
  Window = 1
  InBlacklist = FALSE
  Sndfa = FALSE
  MaxTime = 0
  MaxBad = 2
PROPERTIES
  EveryBadTryCounts
CHECK_DEADLOCK FALSE
