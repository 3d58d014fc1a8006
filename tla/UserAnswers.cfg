\* The operations that answer from what they read, and those that change it.
CONSTANTS
  Requests = {r1, r2}
  Emails = {e1}
  Names = {n1}
  Passwords = {p1, p2}
  Tokens = {t1, t2}
  None = None
  NoRow = NoRow
  Ops = {"Signup", "ValidateSignupToken", "ResetPassword", "ResetPasswordToken", "ChangePasswordWithToken", "ChangePassword", "GetUser", "Signin"}
  SignupTTL = 0
  PasswordTTL = 0
  MaxNow = 1
SPECIFICATION HSpec
SYMMETRY Symmetry
INVARIANTS
  CacheAgrees
  AnswerMatchesDatabase
  AnswersWereTrue
  LinkWorksOnce
PROPERTIES
  PasswordOnlyChangedByOwner
