\* One operation of each way through the storage; closures panic and the SMTP
\* server may stay silent.  No symmetry, which is unsound for liveness.
CONSTANTS
  Requests = {r1, r2}
  Emails = {e1}
  Names = {n1}
  Passwords = {p1}
  Tokens = {t1, t2}
  None = None
  NoRow = NoRow
  Ops = {"Signup", "ResendSignupToken", "ValidateSignupToken", "ChangePassword", "Signin", "GetUser"}
  SignupTTL = 0
  PasswordTTL = 0
  MaxNow = 1
SPECIFICATION FairSpec
INVARIANTS
  TypeOK
  TokenMatchesAccount
  CommittedTokenWasMailed
  LocksAreGivenBack
PROPERTIES
  NoLostUpdate
  VerifiedOnlyByItsToken
  ImplementsAccounts
  ReadsAreAnswered
  CallsAreAnswered
