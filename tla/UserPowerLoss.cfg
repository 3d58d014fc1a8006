\* Three requests sign one email up, resend its link and follow it, and the
\* power fails.
CONSTANTS
  Requests = {r1, r2, r3}
  Emails = {e1}
  Names = {n1}
  Passwords = {p1}
  Tokens = {t1, t2, t3}
  None = None
  NoRow = NoRow
  Ops = {"Signup", "ResendSignupToken", "ValidateSignupToken"}
  SignupTTL = 0
  PasswordTTL = 0
  MaxNow = 0
SPECIFICATION PSpec
SYMMETRY Symmetry
INVARIANTS
  OneLiveTokenPerKind
  CheckpointSurvives
  EveryRecoveryIsUsable
