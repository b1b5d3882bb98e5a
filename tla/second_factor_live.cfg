\* A user who keeps logging in; no symmetry, the property is a liveness property.
SPECIFICATION LoginSpec
CONSTANTS
  None = None
  NoRow = NoRow
  BadCode = BadCode
  Codes = {c1, c2, c3}
  Passwords = {pw1}
  Strong = {pw1}
  Addresses = {a1}
  Requests = {r1}
  Ops = {"authenticate", "ask_check_email", "check_email", "modify_sndfa", "check_sndfa"}
  MaxTries = 1
  BlockTime = 2
  ExpTime = 9
  Window = 1
  InBlacklist = FALSE
  Sndfa = TRUE
  MaxTime = 2
  MaxBad = 1
INVARIANTS
  MailedCodeIsStored
PROPERTIES
  ChallengeRetriesCode
  TokenNeedsMailedCode
  EnrolledUserGetsIn
CHECK_DEADLOCK FALSE
