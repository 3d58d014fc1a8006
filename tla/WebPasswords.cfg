\* Two accounts, the operations that change passwords.
CONSTANTS
  Emails = {e1, e2}
  Names = {n1}
  Passwords = {p1, p2}
  Tokens = {t1}
  NoRow = NoRow
  Browsers = {b1}
  Requests = {r1, r2}
  SessionIds = {s1, s2}
  None = None
  Routes = {"Signup", "SignupToken", "ResetPassword", "ChangePassword", "ChangePasswordWithToken"}
SPECIFICATION Spec
SYMMETRY Symmetry
PROPERTIES
  OwnerChangesPassword
