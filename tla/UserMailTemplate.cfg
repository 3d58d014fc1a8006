\* The template of the reset mail.
CONSTANTS
  Requests = {r1}
  Emails = {e1}
  Names = {n1}
  Passwords = {p1}
  Tokens = {t1, t2}
  None = None
  NoRow = NoRow
  Ops = {"Signup", "ValidateSignupToken", "ResetPassword"}
  SignupTTL = 0
  PasswordTTL = 0
  MaxNow = 0
SPECIFICATION Spec
INVARIANTS
  ResetMailUsesPasswordTemplate
