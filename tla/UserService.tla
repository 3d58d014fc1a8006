---------------------------- MODULE UserService ----------------------------
(***************************************************************************)
(* service/user/user.go: the accounts of dimdim.  Every operation is one   *)
(* call of db.Write or db.Read with a closure; the steps below are the     *)
(* points of the closures other requests can observe or disturb.           *)
(*                                                                         *)
(*   db.Write:  Signup, ResendSignupToken, ResetPassword                   *)
(*     called -> locked -> began -> staged -> mailed -> ok                 *)
(*   db.Read and an UPDATE:  ValidateSignupToken, ChangePasswordWithToken  *)
(*     called -> selected -> updated -> finished -> ok                     *)
(*   db.Read and an UPDATE as first statement:  ChangePassword             *)
(*     called -> updated -> finished -> ok                                 *)
(*   db.Read:  GetUser, Signin      called -> loaded -> ok                 *)
(*             ResetPasswordToken   called -> selected -> ok               *)
(*                                                                         *)
(* and from any of these to err.  The statements a Write closure runs      *)
(* between BEGIN IMMEDIATE and the mail are one step: the write lock is    *)
(* held throughout and nobody sees the uncommitted rows.                   *)
(***************************************************************************)
EXTENDS Storage, Datastore

CONSTANTS
    Ops,            \* the operations clients call in this instance
    SignupTTL,      \* tokenDurationSignup, in ticks of the clock
    PasswordTTL,    \* tokenDurationPassword, in ticks of the clock
    MaxNow          \* bound on the clock

WriteOps == {"Signup", "ResendSignupToken", "ResetPassword"}
RedeemOps == {"ValidateSignupToken", "ChangePasswordWithToken"}

\* The calls with their arguments.  The token of a WriteOp is the UUID the
\* call will draw from uuid.New; the token of the others is the one in the
\* link the client followed, and at is the time they read before they look
\* for it.
Calls(times) ==
    [op: {"GetUser"}, email: Emails]
    \cup [op: {"Signin", "ChangePassword"}, email: Emails, password: Passwords]
    \cup [op: {"Signup"}, email: Emails, name: Names, password: Passwords,
          token: Tokens]
    \cup [op: {"ResendSignupToken", "ResetPassword"}, email: Emails, token: Tokens]
    \cup [op: {"ValidateSignupToken", "ResetPasswordToken"}, token: Tokens,
          at: times]
    \cup [op: {"ChangePasswordWithToken"}, token: Tokens, password: Passwords,
          at: times]

TokenOps == WriteOps \cup RedeemOps \cup {"ResetPasswordToken"}
AllOps == TokenOps \cup {"GetUser", "Signin", "ChangePassword"}

ASSUME OpsAssumption == Ops \subseteq AllOps
ASSUME ClockAssumption == SignupTTL \in Nat /\ PasswordTTL \in Nat /\ MaxNow \in Nat
ASSUME NoneAssumption ==
    None \notin Calls(Nat) \cup Content \cup User \cup Names \cup {NoRow}

\* A delivered mail: the page its link opens, and the template of its body.
Mail == [to: Emails, token: Tokens, link: {"/auth/signup/", "/auth/reset-password/"},
         template: {"signup", "password"}]

Steps == {"idle", "called", "locked", "began", "staged", "mailed", "selected",
          "updated", "finished", "loaded", "ok", "err"}

VARIABLES
    pc,         \* where each request is
    req,        \* the call each request serves, None when idle
    row,        \* the local variable user of each call
    cache,      \* Service.userCache: email to name
    mailed,     \* the mails the SMTP server has accepted
    now         \* the wall clock

vars == <<storage, pc, req, row, cache, mailed, now>>

TypeOK ==
    /\ db \in Content
    /\ mu \in Requests \cup {None}
    /\ writer \in Requests \cup {None}
    /\ view \in [Requests -> Content \cup {None}]
    /\ stale \subseteq Requests
    /\ pc \in [Requests -> Steps]
    /\ req \in [Requests -> Calls(Nat) \cup {None}]
    /\ row \in [Requests -> User \cup {None}]
    /\ cache \in [Emails -> Names \cup {None}]
    /\ mailed \subseteq Mail
    /\ now \in Nat

Init ==
    /\ StorageInit(EmptyContent)
    /\ pc = [r \in Requests |-> "idle"]
    /\ req = [r \in Requests |-> None]
    /\ row = [r \in Requests |-> None]
    /\ cache = [e \in Emails |-> None]
    /\ mailed = {}
    /\ now = 0

----------------------------------------------------------------------------
\* Common to all operations

At(r, op, step) == pc[r] = step /\ req[r].op = op

Goto(r, step) == pc' = [pc EXCEPT ![r] = step]

\* The closure returns an error: rollback, and the error goes to the caller.
Fail(r) ==
    /\ Rollback(r)
    /\ Goto(r, "err")
    /\ UNCHANGED <<req, row, cache, mailed, now>>

\* A closure runs statements that write and goes on.
Stage(r, content, step) ==
    /\ Exec(r, content)
    /\ Goto(r, step)
    /\ UNCHANGED <<req, mailed, now>>

\* s.updateCache(u): LoadOrStore never replaces an entry
UpdateCache(u) ==
    cache' = IF cache[u.email] = None
             THEN [cache EXCEPT ![u.email] = u.name] ELSE cache

\* A UUID nobody has drawn or holds.
Fresh(t) ==
    /\ db.tokens[t] = NoRow
    /\ \A m \in mailed : m.token # t
    /\ \A r \in Requests : pc[r] # "idle" /\ req[r].op \in TokenOps => req[r].token # t

\* A handler calls the service.
Call(r) ==
    /\ pc[r] = "idle"
    /\ \E c \in Calls({now}) :
        /\ c.op \in Ops
        /\ c.op \in WriteOps => Fresh(c.token)
        /\ req' = [req EXCEPT ![r] = c]
    /\ Goto(r, "called")
    /\ UNCHANGED <<storage, row, cache, mailed, now>>

\* The handler has its answer.
Return(r) ==
    /\ pc[r] \in {"ok", "err"}
    /\ Goto(r, "idle")
    /\ req' = [req EXCEPT ![r] = None]
    /\ row' = [row EXCEPT ![r] = None]
    /\ UNCHANGED <<storage, cache, mailed, now>>

\* A statement or BEGIN fails (the client went away and its context is
\* cancelled, an I/O error, no entropy for a salt): the closure is rolled back.
Abort(r) ==
    /\ pc[r] \in {"called", "locked", "began", "staged", "mailed", "selected",
                  "updated", "finished"}
    /\ pc[r] = "called" => req[r].op \notin WriteOps
    /\ Fail(r)

FaultyBusy(r) ==
    /\ pc[r] = "locked" \/ At(r, "ChangePassword", "called")
    /\ ~ MayWrite(r)
    /\ Fail(r)
\* SQLITE_BUSY: the write lock is taken, or the snapshot is stale.
Busy(r) ==
    /\ \/ pc[r] = "locked"
       \/ At(r, "ChangePassword", "called")
       \/ pc[r] = "selected" /\ req[r].op \in RedeemOps
    /\ ~ MayWrite(r)
    /\ Fail(r)

----------------------------------------------------------------------------
\* db.Write: Signup, ResendSignupToken, ResetPassword

\* db.mu.Lock().  Nothing but the holder's unlock ends the wait.
Lock(r) ==
    /\ pc[r] = "called"
    /\ req[r].op \in WriteOps
    /\ LockMutex(r)
    /\ Goto(r, "locked")
    /\ UNCHANGED <<req, row, cache, mailed, now>>

\* BEGIN IMMEDIATE
Begin(r) ==
    /\ pc[r] = "locked"
    /\ Stage(r, db, "began")
    /\ UNCHANGED <<row, cache>>

\* The tokens of that type the email has are deleted, a new one is created.
ReplaceSignupToken(d, c) ==
    CreateToken(DeleteSignupTokensByEmail(d, c.email),
                c.token, "SIGNUP", c.email, now + SignupTTL)

ReplacePasswordToken(d, c) ==
    CreateToken(DeletePasswordTokensByEmail(d, c.email),
                c.token, "PASSWORD", c.email, now + PasswordTTL)

FaultySignup(r) ==
    /\ At(r, "Signup", "began")
    /\ LET c == req[r]
           d == view[r]
       IN  \/ /\ GetUser(d, c.email) # NoRow
              /\ Fail(r)
           \/ /\ GetUser(d, c.email) = NoRow
              /\ Stage(r, ReplaceSignupToken(CreateUser(d, c.email, c.name, c.password), c),
                       "staged")
              /\ cache' = [cache EXCEPT ![c.email] = c.name]
              /\ UNCHANGED row
Signup(r) ==
    /\ At(r, "Signup", "began")
    /\ LET c == req[r]
           d == view[r]
       IN  \/ /\ GetUser(d, c.email) # NoRow                  \* ErrEmailInUse
              /\ Fail(r)
           \/ /\ GetUser(d, c.email) = NoRow
              /\ Stage(r, ReplaceSignupToken(CreateUser(d, c.email, c.name, c.password), c),
                       "staged")
              /\ UNCHANGED <<row, cache>>

FaultyMayResend(d, e) == GetUser(d, e) # NoRow
\* An account that is not verified yet gets a new token.
MayResend(d, e) == GetUser(d, e) # NoRow /\ ~ GetUser(d, e).verified

ResendSignupToken(r) ==
    /\ At(r, "ResendSignupToken", "began")
    /\ LET c == req[r]
           d == view[r]
       IN  \/ /\ ~ MayResend(d, c.email)    \* ErrUserNotVerified, ErrUserAlreadyVerified
              /\ Fail(r)
           \/ /\ MayResend(d, c.email)
              /\ Stage(r, ReplaceSignupToken(d, c), "staged")
              /\ UNCHANGED <<row, cache>>

ResetPassword(r) ==
    /\ At(r, "ResetPassword", "began")
    /\ LET c == req[r]
           d == view[r]
           u == GetUser(d, c.email)
       IN  \/ /\ u = NoRow \/ (u # NoRow /\ ~ u.verified)   \* ErrEmailNotFound, ErrUserNotVerified
              /\ Fail(r)
           \/ /\ u # NoRow /\ u.verified
              /\ Stage(r, ReplacePasswordToken(d, c), "staged")
              /\ UNCHANGED <<row, cache>>

\* NewMailSignup and NewMailPassword differ in the link; SendMailSignup, which
\* sends both, always renders the template "signup".
MailOf(c) ==
    [to |-> c.email, token |-> c.token, template |-> "signup",
     link |-> IF c.op = "ResetPassword" THEN "/auth/reset-password/" ELSE "/auth/signup/"]

\* SendMailSignup, inside the transaction and under the mutex
SendMail(r) ==
    /\ pc[r] = "staged"
    /\ mailed' = mailed \cup {MailOf(req[r])}
    /\ Goto(r, "mailed")
    /\ UNCHANGED <<storage, req, row, cache, now>>

FaultySendMailFails(r) ==
    /\ pc[r] = "staged"
    /\ Goto(r, "mailed")
    /\ UNCHANGED <<storage, req, row, cache, mailed, now>>
\* smtp.SendMail returns an error, before or after the server took the mail.
SendMailFails(r) ==
    /\ pc[r] = "staged"
    /\ mailed' \in {mailed, mailed \cup {MailOf(req[r])}}
    /\ Rollback(r)
    /\ Goto(r, "err")
    /\ UNCHANGED <<req, row, cache, now>>

----------------------------------------------------------------------------
\* db.Read: GetUser, Signin, ResetPasswordToken

GetUserCached(r) ==
    /\ At(r, "GetUser", "called")
    /\ cache[req[r].email] # None
    /\ Goto(r, "ok")
    /\ UNCHANGED <<storage, req, row, cache, mailed, now>>

FaultyGetUserRead(r) ==
    /\ At(r, "GetUser", "called")
    /\ row' = [row EXCEPT ![r] = GetUser(db, req[r].email)]
    /\ Goto(r, "loaded")
    /\ UNCHANGED <<storage, req, cache, mailed, now>>
\* A read-only transaction of one SELECT leaves nothing open.
GetUserRead(r) ==
    /\ At(r, "GetUser", "called")
    /\ cache[req[r].email] = None
    /\ LET u == GetUser(db, req[r].email)
       IN  \/ u = NoRow /\ Fail(r)
           \/ /\ u # NoRow
              /\ row' = [row EXCEPT ![r] = u]
              /\ Goto(r, "loaded")
              /\ UNCHANGED <<storage, req, cache, mailed, now>>

FaultySigninRead(r) ==
    /\ At(r, "Signin", "called")
    /\ LET u == GetUser(db, req[r].email)
       IN  \/ u = NoRow /\ Fail(r)
           \/ /\ u # NoRow
              /\ row' = [row EXCEPT ![r] = u]
              /\ Goto(r, "loaded")
              /\ UNCHANGED <<storage, req, cache, mailed, now>>
SigninRead(r) ==
    /\ At(r, "Signin", "called")
    /\ LET u == GetUser(db, req[r].email)
       IN  \/ /\ u = NoRow \/ (u # NoRow /\ ~ u.verified)  \* ErrInvalidCredentials, ErrUserNotVerified
              /\ Fail(r)
           \/ /\ u # NoRow /\ u.verified
              /\ row' = [row EXCEPT ![r] = u]
              /\ Goto(r, "loaded")
              /\ UNCHANGED <<storage, req, cache, mailed, now>>

\* Outside the transaction: argon.Compare for Signin, then updateCache.
Loaded(r) ==
    /\ pc[r] = "loaded"
    /\ \/ /\ req[r].op = "Signin" /\ row[r].password # req[r].password
          /\ Fail(r)
       \/ /\ req[r].op = "Signin" => row[r].password = req[r].password
          /\ UpdateCache(row[r])
          /\ Goto(r, "ok")
          /\ UNCHANGED <<storage, req, row, mailed, now>>

\* The selection of a token, first statement of the operations that take one
SelectToken(r) ==
    /\ pc[r] = "called"
    /\ LET t == req[r].token
           found == IF req[r].op = "ValidateSignupToken"
                    THEN GetSignupTokenNotExpired(db, t, req[r].at)
                    ELSE GetPasswordTokenNotExpired(db, t, req[r].at)
       IN  /\ req[r].op \in RedeemOps \cup {"ResetPasswordToken"}
           /\ \/ ~ found /\ Fail(r)                         \* ErrInvalidToken
              \/ /\ found
                 /\ Snapshot(r)
                 /\ Goto(r, "selected")
                 /\ UNCHANGED <<req, row, cache, mailed, now>>

\* registeredToken.Email
TokenEmail(r) == view[r].tokens[req[r].token].email

ResetPasswordToken(r) ==
    /\ At(r, "ResetPasswordToken", "selected")
    /\ Rollback(r)
    /\ Goto(r, IF GetUser(view[r], TokenEmail(r)) = NoRow
               THEN "err" ELSE "ok")                         \* ErrEmailNotFound
    /\ UNCHANGED <<req, row, cache, mailed, now>>

----------------------------------------------------------------------------
\* db.Read with an UPDATE: ValidateSignupToken, ChangePassword,
\* ChangePasswordWithToken

\* UPDATE users ... WHERE email = e RETURNING *, turning d into d2
UpdateReturning(r, d, d2, e) ==
    \/ GetUser(d, e) = NoRow /\ MayWrite(r) /\ Fail(r)
    \/ /\ GetUser(d, e) # NoRow
       /\ row' = [row EXCEPT ![r] = GetUser(d2, e)]
       /\ Stage(r, d2, "updated")
       /\ UNCHANGED cache

ValidateSignupToken(r) ==
    /\ At(r, "ValidateSignupToken", "selected")
    /\ UpdateReturning(r, view[r], SetUserIsVerified(view[r], TokenEmail(r)), TokenEmail(r))

ChangePassword(r) ==
    /\ At(r, "ChangePassword", "called")
    /\ UpdateReturning(r, db, UpdateUserPassword(db, req[r].email, req[r].password),
                       req[r].email)

ChangePasswordWithToken(r) ==
    /\ At(r, "ChangePasswordWithToken", "selected")
    /\ UpdateReturning(r, view[r],
                       UpdateUserPassword(view[r], TokenEmail(r), req[r].password),
                       TokenEmail(r))

\* The tokens of the kind that was redeemed.
DeleteRedeemed(d, op, e) ==
    CASE op = "ValidateSignupToken"     -> DeleteSignupTokensByEmail(d, e)
      [] op = "ChangePasswordWithToken" -> DeletePasswordTokensByEmail(d, e)
      [] OTHER                          -> d

\* The rest of the closure: the tokens of the email are deleted, and the cache
\* is filled although the transaction can still fail.
Finish(r) ==
    /\ pc[r] = "updated"
    /\ Stage(r, DeleteRedeemed(view[r], req[r].op, row[r].email), "finished")
    /\ UpdateCache(row[r])
    /\ UNCHANGED row

\* tx.Commit()
CommitTx(r) ==
    /\ pc[r] \in {"mailed", "finished"}
    /\ Commit(r)
    /\ Goto(r, "ok")
    /\ UNCHANGED <<req, row, cache, mailed, now>>

----------------------------------------------------------------------------

Tick ==
    /\ now < MaxNow
    /\ now' = now + 1
    /\ UNCHANGED <<storage, pc, req, row, cache, mailed>>

\* The process is killed and started again: requests and cache are gone.
Crash ==
    /\ Restart
    /\ pc' = [r \in Requests |-> "idle"]
    /\ req' = [r \in Requests |-> None]
    /\ row' = [r \in Requests |-> None]
    /\ cache' = [e \in Emails |-> None]
    /\ UNCHANGED <<mailed, now>>

\* The steps the goroutine of r takes by itself once it is called.
Progress(r) ==
    \/ Begin(r) \/ Busy(r)
    \/ Signup(r) \/ ResendSignupToken(r) \/ ResetPassword(r)
    \/ SendMail(r) \/ SendMailFails(r)
    \/ GetUserCached(r) \/ GetUserRead(r) \/ SigninRead(r) \/ Loaded(r)
    \/ SelectToken(r) \/ ResetPasswordToken(r)
    \/ ValidateSignupToken(r) \/ ChangePassword(r) \/ ChangePasswordWithToken(r)
    \/ Finish(r) \/ CommitTx(r)
    \/ Return(r)

Next ==
    \/ Tick
    \/ Crash
    \/ \E r \in Requests : Call(r) \/ Lock(r) \/ Progress(r) \/ Abort(r)

Spec == Init /\ [][Next]_vars

=============================================================================
