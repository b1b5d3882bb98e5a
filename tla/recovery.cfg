\* A user who keeps asking for a new password, beside email verification; no
\* symmetry, the property is a liveness property.
SPECIFICATION RecoverySpec
CONSTANTS
  None = None
  NoRow = NoRow
  BadCode = BadCode
  Codes = {c1, c2, c3}
  Passwords = {pw1, pw2, pw3}
  Strong = {}
  Addresses = {a1}
  Requests = {r1}
  Ops = {"ask_check_email", "check_email", "recover", "reset", "update_user"}
  MaxTries = 1
  BlockTime = 2
  ExpTime = 9
  Window = 1
  InBlacklist = FALSE
  Sndfa = TRUE
  MaxTime = 0
  MaxBad = 0
INVARIANTS
  ResetNeedsMailedCode
PROPERTIES
  VerifiedOnlyByMailedCode
  RecoverKeepsVerified
  PersistentUserRecovers
CHECK_DEADLOCK FALSE
