\* Enrolment, login and code check, two requests at a time; the user is
\* blacklisted, so that neither the block nor expiry gets in the way.
SPECIFICATION Spec
CONSTANTS
  None = None
  NoRow = NoRow
  BadCode = BadCode
  Codes = {c1, c2}
  Passwords = {pw1}
  Strong = {pw1}
  Addresses = {a1}
  Requests = {r1, r2}
  Ops = {"authenticate", "ask_check_email", "check_email", "modify_sndfa", "check_sndfa"}
  MaxTries = 1
  BlockTime = 2
  ExpTime = 9
  Window = 1
  InBlacklist = TRUE
  Sndfa = TRUE
  MaxTime = 1
  MaxBad = 1
SYMMETRY Symmetry
INVARIANTS
  ChallengeComplete
  MailsCarryCodes
PROPERTIES
  TokenNeedsMailedCode
  VerifiedOnlyByMailedCode
CHECK_DEADLOCK FALSE
