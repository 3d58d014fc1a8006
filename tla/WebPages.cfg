\* Every route, two requests at once of one browser.
CONSTANTS
  Emails = {e1}
  Names = {n1}
  Passwords = {p1, p2}
  Tokens = {t1, t2}
  NoRow = NoRow
  Browsers = {b1}
  Requests = {r1, r2}
  SessionIds = {s1, s2}
  None = None
  Routes = {"index", "change-password", "signin", "reset-password", "signup", "resend-signup-token", "Signin", "Signup", "SignupToken", "Signout", "ResendSignupToken", "ResetPassword", "ResetPasswordToken", "ChangePassword", "ChangePasswordWithToken"}
SPECIFICATION Spec
SYMMETRY Symmetry
INVARIANTS
  TypeOK
  PagesHaveTheirFields
  RedirectsLand
