\* Two browsers, two requests at once, two accounts.
CONSTANTS
  Emails = {e1, e2}
  Names = {n1}
  Passwords = {p1}
  Tokens = {t1}
  NoRow = NoRow
  Browsers = {b1, b2}
  Requests = {r1, r2}
  SessionIds = {s1, s2}
  None = None
  Routes = {"Signin", "Signup", "SignupToken", "Signout"}
SPECIFICATION Spec
SYMMETRY Symmetry
INVARIANTS
  SessionNamesAccount
  OnlyProvenAccounts
