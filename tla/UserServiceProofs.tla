------------------------- MODULE UserServiceProofs -------------------------
(***************************************************************************)
(* Proofs about UserService, in three parts: types, the consistency of the *)
(* tables, and isolation.  The first part shows that every variable        *)
(* keeps its type.  TypeOK is not inductive: a statement is applied to the *)
(* view of a request, so one must know that the request has a view, and a  *)
(* call that carries the fields the statement uses.  CallsOK says so.      *)
(***************************************************************************)
EXTENDS UserProperties, TLAPS

----------------------------------------------------------------------------
\* The queries return contents.

LEMMA CreateUserType ==
    ASSUME NEW d \in Content, NEW e \in Emails, NEW n \in Names, NEW p \in Passwords
    PROVE  CreateUser(d, e, n, p) \in Content
BY DEF CreateUser, Content, User

LEMMA SetUserIsVerifiedType ==
    ASSUME NEW d \in Content, NEW e \in Emails, GetUser(d, e) # NoRow
    PROVE  /\ SetUserIsVerified(d, e) \in Content
           /\ GetUser(SetUserIsVerified(d, e), e) \in User
BY DEF SetUserIsVerified, GetUser, Content, User

LEMMA UpdateUserPasswordType ==
    ASSUME NEW d \in Content, NEW e \in Emails, NEW p \in Passwords,
           GetUser(d, e) # NoRow
    PROVE  /\ UpdateUserPassword(d, e, p) \in Content
           /\ GetUser(UpdateUserPassword(d, e, p), e) \in User
BY DEF UpdateUserPassword, GetUser, Content, User

LEMMA CreateTokenType ==
    ASSUME NEW d \in Content, NEW t \in Tokens, NEW type \in TokenTypes,
           NEW e \in Emails, NEW x \in Nat
    PROVE  CreateToken(d, t, type, e, x) \in Content
BY DEF CreateToken, Content, Token, TokenTypes

LEMMA DeleteTokensType ==
    ASSUME NEW d \in Content, NEW type, NEW e
    PROVE  DeleteTokensByEmail(d, type, e) \in Content
<1> DEFINE marked(t) == IF d.tokens[t] # NoRow /\ d.tokens[t].type = type /\ d.tokens[t].email = e
                     THEN [d.tokens[t] EXCEPT !.deleted = TRUE]
                     ELSE d.tokens[t]
<1>1. d.tokens \in [Tokens -> Token \cup {NoRow}] /\ d.users \in [Emails -> User \cup {NoRow}]
  BY DEF Content
<1>2. \A t \in Tokens : marked(t) \in Token \cup {NoRow}
  BY <1>1 DEF Token
<1>3. [t \in Tokens |-> marked(t)] \in [Tokens -> Token \cup {NoRow}]
  BY <1>2
<1>4. DeleteTokensByEmail(d, type, e) = [d EXCEPT !.tokens = [t \in Tokens |-> marked(t)]]
  BY DEF DeleteTokensByEmail
<1> HIDE DEF marked
<1> QED BY <1>1, <1>3, <1>4 DEF Content

LEMMA DeleteRedeemedType ==
    ASSUME NEW d \in Content, NEW op, NEW e
    PROVE  DeleteRedeemed(d, op, e) \in Content
BY DeleteTokensType
   DEF DeleteRedeemed, DeleteSignupTokensByEmail, DeletePasswordTokensByEmail

----------------------------------------------------------------------------
\* A call carries the fields its operation uses.

LEMMA CallFields ==
    ASSUME NEW c \in Calls(Nat)
    PROVE  /\ c.op \in AllOps
           /\ c.op \in WriteOps \cup {"GetUser", "Signin", "ChangePassword"}
                => c.email \in Emails
           /\ c.op \in TokenOps => c.token \in Tokens
           /\ c.op = "Signup" => c.name \in Names
           /\ c.op \in {"Signup", "ChangePassword", "ChangePasswordWithToken"}
                => c.password \in Passwords
           /\ c.op \in RedeemOps \cup {"ResetPasswordToken"} => c.at \in Nat
BY DEF Calls, AllOps, TokenOps, WriteOps, RedeemOps

----------------------------------------------------------------------------
\* The inductive invariant behind TypeOK.

CallOK(r) ==
    /\ pc[r] # "idle" => req[r] \in Calls(Nat)
    /\ pc[r] \in {"locked", "began", "staged", "mailed"} => req[r].op \in WriteOps
    /\ pc[r] \in {"began", "staged", "mailed", "selected", "updated", "finished"}
            => view[r] \in Content
    /\ pc[r] = "selected" =>
            /\ req[r].op \in RedeemOps \cup {"ResetPasswordToken"}
            /\ view[r].tokens[req[r].token] \in Token
    /\ pc[r] \in {"loaded", "updated"} => row[r] \in User

CallsOK == \A r \in Requests : CallOK(r)

TypeInv == TypeOK /\ CallsOK

\* A step of r that does not touch what CallOK says of the other requests.
LEMMA OthersOK ==
    ASSUME CallsOK, NEW r \in Requests, CallOK(r)',
           \A q \in Requests \ {r} : /\ pc'[q] = pc[q] /\ req'[q] = req[q]
                                     /\ row'[q] = row[q] /\ view'[q] = view[q]
    PROVE  CallsOK'
<1> SUFFICES ASSUME NEW q \in Requests \ {r} PROVE CallOK(q)'
  BY DEF CallsOK
<1>1. CallOK(q)
  BY DEF CallsOK
<1> QED BY <1>1 DEF CallOK

\* The end of a transaction that leaves nothing behind.
LEMMA RollbackType ==
    ASSUME TypeInv, NEW r \in Requests, NEW step \in {"ok", "err"},
           Rollback(r), Goto(r, step), UNCHANGED <<req, row, cache, now>>,
           mailed' \subseteq Mail, req[r] \in Calls(Nat)
    PROVE  TypeInv'
<1>1. TypeOK'
  BY DEF TypeInv, TypeOK, Rollback, Release, Goto, Steps
<1>2. CallOK(r)'
  BY DEF TypeInv, TypeOK, Rollback, Release, Goto, CallOK
<1> QED BY <1>1, <1>2, OthersOK DEF TypeInv, TypeOK, Rollback, Release, Goto

LEMMA FailType ==
    ASSUME TypeInv, NEW r \in Requests, Fail(r), pc[r] # "idle"
    PROVE  TypeInv'
BY RollbackType DEF Fail, TypeInv, TypeOK, CallsOK, CallOK

\* A statement that writes a content, in any operation.
LEMMA StageType ==
    ASSUME TypeInv, NEW r \in Requests, NEW content \in Content,
           NEW step \in {"began", "staged", "updated", "finished"},
           Stage(r, content, step),
           row' \in [Requests -> User \cup {None}],
           \A q \in Requests \ {r} : row'[q] = row[q],
           cache' \in [Emails -> Names \cup {None}],
           req[r] \in Calls(Nat),
           step \in {"began", "staged"} => req[r].op \in WriteOps,
           step = "updated" => row'[r] \in User
    PROVE  TypeInv'
<1>1. TypeOK'
  BY DEF TypeInv, TypeOK, Stage, Exec, Goto, Steps
<1>2. CallOK(r)'
  BY DEF TypeInv, TypeOK, Stage, Exec, Goto, CallOK
<1> QED BY <1>1, <1>2, OthersOK DEF TypeInv, TypeOK, Stage, Exec, Goto

\* A step that leaves the storage alone, and ends the work of a call.
LEMMA AnswerType ==
    ASSUME TypeInv, NEW r \in Requests, Goto(r, "ok"),
           UNCHANGED <<storage, req, row, mailed, now>>,
           cache' \in [Emails -> Names \cup {None}],
           req[r] \in Calls(Nat)
    PROVE  TypeInv'
BY DEF TypeInv, TypeOK, CallsOK, CallOK, Goto, storage, Steps

LEMMA UpdateCacheType ==
    ASSUME TypeInv, NEW u \in User, UpdateCache(u)
    PROVE  cache' \in [Emails -> Names \cup {None}]
BY DEF TypeInv, TypeOK, UpdateCache, User

\* The steps of the operations that take the mutex.
LEMMA WriteTypes ==
    ASSUME TypeInv, NEW r \in Requests,
           Begin(r) \/ Signup(r) \/ ResendSignupToken(r) \/ ResetPassword(r)
    PROVE  TypeInv'
<1> USE DEF TypeInv, CallsOK
<1>1. CallOK(r) /\ now \in Nat /\ SignupTTL \in Nat /\ PasswordTTL \in Nat
  BY ClockAssumption DEF TypeOK
<1>2. CASE Begin(r)
  BY <1>1, <1>2, StageType DEF Begin, CallOK, TypeOK
<1>3. ASSUME NEW d \in Content, NEW c \in Calls(Nat), c.op \in WriteOps
      PROVE  /\ ReplaceSignupToken(d, c) \in Content
             /\ ReplacePasswordToken(d, c) \in Content
             /\ c.op = "Signup" =>
                    ReplaceSignupToken(CreateUser(d, c.email, c.name, c.password), c)
                        \in Content
  <2>1. /\ c.email \in Emails /\ c.token \in Tokens
        /\ c.op = "Signup" => c.name \in Names /\ c.password \in Passwords
    BY <1>3, CallFields DEF WriteOps, TokenOps
  <2>2. now + SignupTTL \in Nat /\ now + PasswordTTL \in Nat
    BY <1>1
  <2>3. ASSUME NEW d2 \in Content
        PROVE  ReplaceSignupToken(d2, c) \in Content /\ ReplacePasswordToken(d2, c) \in Content
    BY <2>1, <2>2, CreateTokenType, DeleteTokensType
       DEF ReplaceSignupToken, ReplacePasswordToken, DeleteSignupTokensByEmail,
           DeletePasswordTokensByEmail, TokenTypes
  <2> QED BY <2>1, <2>3, CreateUserType
<1>4. CASE Signup(r)
  BY <1>1, <1>3, <1>4, StageType, FailType
     DEF Signup, At, CallOK, TypeOK, WriteOps
<1>5. CASE ResendSignupToken(r)
  BY <1>1, <1>3, <1>5, StageType, FailType
     DEF ResendSignupToken, At, CallOK, TypeOK, WriteOps
<1>6. CASE ResetPassword(r)
  BY <1>1, <1>3, <1>6, StageType, FailType
     DEF ResetPassword, At, CallOK, TypeOK, WriteOps
<1> QED BY <1>2, <1>4, <1>5, <1>6

LEMMA SendTypes ==
    ASSUME TypeInv, NEW r \in Requests, SendMail(r) \/ SendMailFails(r)
    PROVE  TypeInv'
<1>1. pc[r] = "staged" /\ CallOK(r)
  BY DEF SendMail, SendMailFails, TypeInv, CallsOK
<1>2. MailOf(req[r]) \in Mail
  BY <1>1, CallFields DEF CallOK, MailOf, Mail, TokenOps, WriteOps
<1>3. CASE SendMail(r)
  <2>1. TypeOK'
    BY <1>2, <1>3 DEF SendMail, TypeInv, TypeOK, Goto, Steps, storage
  <2>2. CallOK(r)'
    BY <1>1, <1>3 DEF SendMail, TypeInv, TypeOK, Goto, CallOK, storage
  <2> QED BY <1>3, <2>1, <2>2, OthersOK DEF SendMail, TypeInv, TypeOK, Goto, storage
<1>4. CASE SendMailFails(r)
  <2>1. mailed' \subseteq Mail /\ req[r] \in Calls(Nat)
    BY <1>1, <1>2, <1>4 DEF SendMailFails, TypeInv, TypeOK, CallOK
  <2> QED BY <1>4, <2>1, RollbackType DEF SendMailFails
<1> QED BY <1>3, <1>4

\* The steps of the operations that only read.
LEMMA ReadTypes ==
    ASSUME TypeInv, NEW r \in Requests,
           GetUserCached(r) \/ GetUserRead(r) \/ SigninRead(r) \/ Loaded(r)
    PROVE  TypeInv'
<1>1. CallOK(r)
  BY DEF TypeInv, CallsOK
<1>2. CASE GetUserCached(r)
  BY <1>1, <1>2, AnswerType DEF GetUserCached, At, CallOK, TypeInv, TypeOK
<1>3. ASSUME NEW u \in User, row' = [row EXCEPT ![r] = u], Goto(r, "loaded"),
             UNCHANGED <<storage, req, cache, mailed, now>>, pc[r] = "called"
      PROVE  TypeInv'
  <2>1. TypeOK'
    BY <1>3 DEF TypeInv, TypeOK, Goto, Steps, storage
  <2>2. CallOK(r)'
    BY <1>1, <1>3 DEF TypeInv, TypeOK, Goto, CallOK, storage
  <2> QED BY <1>3, <2>1, <2>2, OthersOK DEF TypeInv, TypeOK, Goto, storage
<1>4. pc[r] = "called" => (GetUser(db, req[r].email) = NoRow \/ GetUser(db, req[r].email) \in User)
                          \/ req[r].email \notin Emails
  BY DEF TypeInv, TypeOK, Content, GetUser
<1>5. pc[r] = "called" /\ req[r].op \in {"GetUser", "Signin"} => req[r].email \in Emails
  BY <1>1, CallFields DEF CallOK
<1>6. CASE GetUserRead(r)
  BY <1>3, <1>4, <1>5, <1>6, FailType DEF GetUserRead, At
<1>7. CASE SigninRead(r)
  BY <1>3, <1>4, <1>5, <1>7, FailType DEF SigninRead, At
<1>8. CASE Loaded(r)
  <2>1. row[r] \in User /\ req[r] \in Calls(Nat) /\ pc[r] # "idle"
    BY <1>1, <1>8 DEF Loaded, CallOK
  <2> QED BY <1>8, <2>1, FailType, AnswerType, UpdateCacheType DEF Loaded
<1> QED BY <1>2, <1>6, <1>7, <1>8

\* The steps of the operations that take a token, and of ChangePassword.
LEMMA RedeemTypes ==
    ASSUME TypeInv, NEW r \in Requests,
           \/ SelectToken(r) \/ ResetPasswordToken(r) \/ ValidateSignupToken(r)
           \/ ChangePassword(r) \/ ChangePasswordWithToken(r) \/ Finish(r)
    PROVE  TypeInv'
<1>1. CallOK(r) /\ db \in Content /\ row \in [Requests -> User \cup {None}]
  BY DEF TypeInv, CallsOK, TypeOK
<1>2. CASE SelectToken(r)
  <2>1. pc[r] = "called" /\ req[r] \in Calls(Nat)
    BY <1>1, <1>2 DEF SelectToken, CallOK
  <2>2. CASE Fail(r)
    BY <2>1, <2>2, FailType
  <2>3. CASE /\ Snapshot(r)
             /\ Goto(r, "selected")
             /\ UNCHANGED <<req, row, cache, mailed, now>>
             /\ db.tokens[req[r].token] # NoRow
             /\ req[r].op \in RedeemOps \cup {"ResetPasswordToken"}
    <3>1. db.tokens[req[r].token] \in Token
      BY <1>1, <2>1, <2>3, CallFields DEF Content, TokenOps
    <3>2. TypeOK'
      BY <2>3 DEF TypeInv, TypeOK, Goto, Steps, Snapshot
    <3>3. CallOK(r)'
      BY <1>1, <2>1, <2>3, <3>1 DEF TypeInv, TypeOK, Goto, CallOK, Snapshot
    <3> QED BY <2>3, <3>2, <3>3, OthersOK DEF TypeInv, TypeOK, Goto, Snapshot
  <2> QED BY <1>2, <2>2, <2>3
          DEF SelectToken, GetSignupTokenNotExpired, GetPasswordTokenNotExpired, Live
<1>3. CASE ResetPasswordToken(r)
  <2>1. mailed' \subseteq Mail /\ req[r] \in Calls(Nat)
    BY <1>1, <1>3 DEF ResetPasswordToken, At, TypeInv, TypeOK, CallOK
  <2> QED BY <1>3, <2>1, RollbackType DEF ResetPasswordToken
<1>4. pc[r] = "selected" => TokenEmail(r) \in Emails
  BY <1>1 DEF CallOK, TokenEmail, Token
<1>5. ASSUME NEW d, NEW d2, NEW e \in Emails, UpdateReturning(r, d, d2, e),
             GetUser(d, e) # NoRow => d2 \in Content /\ GetUser(d2, e) \in User,
             pc[r] # "idle"
      PROVE  TypeInv'
  <2>1. CASE Fail(r)
    BY <1>5, <2>1, FailType
  <2>2. CASE GetUser(d, e) # NoRow
    <3>1. /\ Stage(r, d2, "updated")
          /\ row' = [row EXCEPT ![r] = GetUser(d2, e)]
          /\ cache' = cache
      BY <1>5, <2>2 DEF UpdateReturning
    <3>2. req[r] \in Calls(Nat) /\ cache \in [Emails -> Names \cup {None}]
      BY <1>1, <1>5 DEF CallOK, TypeInv, TypeOK
    <3> QED BY <1>1, <1>5, <2>1, <2>2, <3>1, <3>2, StageType
  <2> QED BY <1>5, <2>1, <2>2 DEF UpdateReturning
<1>6. CASE ValidateSignupToken(r)
  <2>1. view[r] \in Content /\ pc[r] = "selected"
    BY <1>1, <1>6 DEF ValidateSignupToken, At, CallOK
  <2> QED BY <1>4, <1>5, <1>6, <2>1, SetUserIsVerifiedType DEF ValidateSignupToken
<1>7. CASE ChangePassword(r)
  <2>1. req[r].email \in Emails /\ req[r].password \in Passwords /\ pc[r] = "called"
    BY <1>1, <1>7, CallFields DEF ChangePassword, At, CallOK
  <2> QED BY <1>1, <1>5, <1>7, <2>1, UpdateUserPasswordType DEF ChangePassword
<1>8. CASE ChangePasswordWithToken(r)
  <2>1. view[r] \in Content /\ pc[r] = "selected" /\ req[r].password \in Passwords
    BY <1>1, <1>8, CallFields DEF ChangePasswordWithToken, At, CallOK
  <2> QED BY <1>4, <1>5, <1>8, <2>1, UpdateUserPasswordType DEF ChangePasswordWithToken
<1>9. CASE Finish(r)
  <2>1. view[r] \in Content /\ row[r] \in User /\ req[r] \in Calls(Nat)
    BY <1>1, <1>9 DEF Finish, CallOK
  <2>2. cache' \in [Emails -> Names \cup {None}]
    BY <1>9, <2>1, UpdateCacheType DEF Finish
  <2>3. DeleteRedeemed(view[r], req[r].op, row[r].email) \in Content
    BY <2>1, DeleteRedeemedType
  <2> QED BY <1>1, <1>9, <2>1, <2>2, <2>3, StageType DEF Finish
<1> QED BY <1>2, <1>3, <1>6, <1>7, <1>8, <1>9

\* The steps common to all operations.
LEMMA CommonTypes ==
    ASSUME TypeInv, NEW r \in Requests,
           Call(r) \/ Lock(r) \/ Return(r) \/ Abort(r) \/ Busy(r) \/ CommitTx(r)
    PROVE  TypeInv'
<1>1. CallOK(r)
  BY DEF TypeInv, CallsOK
<1>2. CASE Call(r)
  <2>1. PICK c \in Calls({now}) : req' = [req EXCEPT ![r] = c]
    BY <1>2 DEF Call
  <2>2. c \in Calls(Nat)
    BY <2>1 DEF Calls, TypeInv, TypeOK
  <2>3. TypeOK'
    BY <1>2, <2>1, <2>2 DEF Call, TypeInv, TypeOK, Goto, Steps, storage
  <2>4. CallOK(r)'
    BY <1>1, <1>2, <2>1, <2>2 DEF Call, TypeInv, TypeOK, Goto, CallOK, storage
  <2> QED BY <1>2, <2>1, <2>3, <2>4, OthersOK DEF Call, TypeInv, TypeOK, Goto, storage
<1>3. CASE Lock(r)
  <2>1. TypeOK'
    BY <1>3 DEF Lock, LockMutex, TypeInv, TypeOK, Goto, Steps
  <2>2. CallOK(r)'
    BY <1>1, <1>3 DEF Lock, LockMutex, TypeInv, TypeOK, Goto, CallOK
  <2> QED BY <1>3, <2>1, <2>2, OthersOK DEF Lock, LockMutex, TypeInv, TypeOK, Goto
<1>4. CASE Return(r)
  <2>1. TypeOK'
    BY <1>4 DEF Return, TypeInv, TypeOK, Goto, Steps, storage
  <2>2. CallOK(r)'
    BY <1>1, <1>4 DEF Return, TypeInv, TypeOK, Goto, CallOK, storage
  <2> QED BY <1>4, <2>1, <2>2, OthersOK DEF Return, TypeInv, TypeOK, Goto, storage
<1>5. CASE Abort(r) \/ Busy(r)
  BY <1>5, FailType DEF Abort, Busy, At
<1>6. CASE CommitTx(r)
  <2>1. view[r] \in Content /\ req[r] \in Calls(Nat)
    BY <1>1, <1>6 DEF CommitTx, CallOK
  <2>2. TypeOK'
    BY <1>6, <2>1 DEF CommitTx, Commit, Release, TypeInv, TypeOK, Goto, Steps
  <2>3. CallOK(r)'
    BY <1>1, <1>6, <2>1 DEF CommitTx, Commit, Release, TypeInv, TypeOK, Goto, CallOK
  <2> QED BY <1>6, <2>2, <2>3, OthersOK
          DEF CommitTx, Commit, Release, TypeInv, TypeOK, Goto
<1> QED BY <1>2, <1>3, <1>4, <1>5, <1>6

LEMMA TypeInvInit == Init => TypeInv
<1> SUFFICES ASSUME Init PROVE TypeInv
  OBVIOUS
<1>1. EmptyContent \in Content
  BY DEF EmptyContent, Content
<1> QED BY <1>1 DEF Init, StorageInit, TypeInv, TypeOK, CallsOK, CallOK, Steps

LEMMA TypeInvNext == TypeInv /\ [Next]_vars => TypeInv'
<1> SUFFICES ASSUME TypeInv, [Next]_vars PROVE TypeInv'
  OBVIOUS
<1>1. CASE UNCHANGED vars
  BY <1>1 DEF vars, storage, TypeInv, TypeOK, CallsOK, CallOK
<1>2. CASE Tick
  BY <1>2 DEF Tick, storage, TypeInv, TypeOK, CallsOK, CallOK
<1>3. CASE Crash
  BY <1>3 DEF Crash, Restart, TypeInv, TypeOK, CallsOK, CallOK, Steps
<1>4. ASSUME NEW r \in Requests, Call(r) \/ Lock(r) \/ Progress(r) \/ Abort(r)
      PROVE  TypeInv'
  BY <1>4, WriteTypes, SendTypes, ReadTypes, RedeemTypes, CommonTypes DEF Progress
<1> QED BY <1>1, <1>2, <1>3, <1>4 DEF Next

\* Every variable keeps its type, whatever the requests, failures and restarts
\* do: in particular no statement is run on a view a request does not have, and
\* no UPDATE turns a missing row into a user.
THEOREM TypeCorrect == Spec => []TypeOK
<1>1. TypeInv => TypeOK
  BY DEF TypeInv
<1> QED BY <1>1, TypeInvInit, TypeInvNext, PTL DEF Spec

----------------------------------------------------------------------------
(***************************************************************************)
(* The committed tables stay consistent: an email has at most one live     *)
(* token of each type, and a live token fits the state of its account.     *)
(*                                                                         *)
(* Neither property is inductive alone, since what a commit makes of the   *)
(* database was prepared in the view of its transaction.  The invariant    *)
(* ContentInv says that every view is consistent too, except between the   *)
(* UPDATE of a redemption and the deletion of the redeemed token, where it *)
(* is the view after that deletion that is consistent.  No fact about      *)
(* locks is needed: any consistent snapshot stays one.                     *)
(***************************************************************************)

\* Rows are found under their own email.
Keyed(d) == \A e \in Emails : d.users[e] # NoRow => d.users[e].email = e

Consistent(d) == Keyed(d) /\ OneLiveTokenIn(d) /\ TokensMatchIn(d)

RedeemedType(op) == IF op = "ValidateSignupToken" THEN "SIGNUP" ELSE "PASSWORD"

ViewOK(r) ==
    /\ pc[r] \in {"began", "staged", "mailed", "selected", "finished"}
            => Consistent(view[r])
    /\ pc[r] = "selected" => Live(view[r], RedeemedType(req[r].op), req[r].token)
    /\ pc[r] = "updated" => Consistent(DeleteRedeemed(view[r], req[r].op, row[r].email))

ContentInv == Consistent(db) /\ \A r \in Requests : ViewOK(r)

----------------------------------------------------------------------------
\* What the queries do to the live tokens.

LEMMA LiveAfterDelete ==
    ASSUME NEW d \in Content, NEW type, NEW e, NEW type2, NEW e2
    PROVE  LiveTokens(DeleteTokensByEmail(d, type, e), type2, e2)
             = IF type2 = type /\ e2 = e THEN {} ELSE LiveTokens(d, type2, e2)
<1> DEFINE D == DeleteTokensByEmail(d, type, e)
<1>1. ASSUME NEW t \in Tokens
      PROVE  /\ d.tokens[t] = NoRow => D.tokens[t] = NoRow
             /\ d.tokens[t] # NoRow =>
                    /\ d.tokens[t] \in Token
                    /\ D.tokens[t] # NoRow
                    /\ D.tokens[t].type = d.tokens[t].type
                    /\ D.tokens[t].email = d.tokens[t].email
                    /\ D.tokens[t].deleted = (d.tokens[t].deleted \/
                            (d.tokens[t].type = type /\ d.tokens[t].email = e))
  <2>1. D.tokens[t] = IF d.tokens[t] # NoRow /\ d.tokens[t].type = type
                         /\ d.tokens[t].email = e
                      THEN [d.tokens[t] EXCEPT !.deleted = TRUE]
                      ELSE d.tokens[t]
    BY DEF DeleteTokensByEmail, Content
  <2>2. d.tokens[t] = NoRow \/ d.tokens[t] \in Token
    BY DEF Content
  <2>3. ASSUME NEW k \in Token
        PROVE  /\ [k EXCEPT !.deleted = TRUE] \in Token
               /\ [k EXCEPT !.deleted = TRUE].type = k.type
               /\ [k EXCEPT !.deleted = TRUE].email = k.email
               /\ [k EXCEPT !.deleted = TRUE].deleted = TRUE
    BY DEF Token
  <2>4. NoRow \notin Token
    BY RowsAssumption
  <2>5. CASE d.tokens[t] \in Token /\ d.tokens[t].type = type /\ d.tokens[t].email = e
    BY <2>1, <2>3, <2>4, <2>5
  <2>6. CASE d.tokens[t] \in Token /\ ~ (d.tokens[t].type = type /\ d.tokens[t].email = e)
    <3>1. d.tokens[t].deleted \in BOOLEAN
      BY <2>6 DEF Token
    <3> QED BY <2>1, <2>4, <2>6, <3>1
  <2> QED BY <2>1, <2>2, <2>5, <2>6
<1> HIDE DEF D
<1> QED BY <1>1 DEF LiveTokens, Live, D

LEMMA LiveAfterCreate ==
    ASSUME NEW d \in Content, NEW t \in Tokens, NEW type \in TokenTypes,
           NEW e \in Emails, NEW x \in Nat, NEW type2, NEW e2
    PROVE  LiveTokens(CreateToken(d, t, type, e, x), type2, e2)
             = IF type2 = type /\ e2 = e THEN LiveTokens(d, type2, e2) \cup {t}
               ELSE LiveTokens(d, type2, e2) \ {t}
<1> DEFINE k == [type |-> type, email |-> e, expiresAt |-> x, deleted |-> FALSE]
           D == CreateToken(d, t, type, e, x)
<1>1. k \in Token /\ k.type = type /\ k.email = e /\ ~ k.deleted
  BY DEF Token, TokenTypes
<1>2. \A u \in Tokens : D.tokens[u] = IF u = t THEN k ELSE d.tokens[u]
  BY DEF CreateToken, Content
<1> HIDE DEF k, D
<1>3. k # NoRow
  BY <1>1, RowsAssumption
<1> QED BY <1>1, <1>2, <1>3 DEF LiveTokens, Live, D

LEMMA LiveAfterUserUpdate ==
    ASSUME NEW d, NEW d2, d2.tokens = d.tokens, NEW type, NEW e
    PROVE  LiveTokens(d2, type, e) = LiveTokens(d, type, e)
BY DEF LiveTokens, Live

----------------------------------------------------------------------------
\* The operations keep a content consistent.

\* d2 is d with another account for e.
OnlyUserChanged(d, d2, e) ==
    /\ d2.tokens = d.tokens
    /\ d2.users[e] # NoRow
    /\ \A f \in Emails \ {e} : d2.users[f] = d.users[f]

LEMMA CreateUserEffect ==
    ASSUME NEW d \in Content, NEW e \in Emails, NEW n \in Names, NEW p \in Passwords
    PROVE  LET d2 == CreateUser(d, e, n, p)
           IN  /\ OnlyUserChanged(d, d2, e)
               /\ d2.users[e].email = e
               /\ ~ d2.users[e].verified
<1>1. [email |-> e, name |-> n, password |-> p, verified |-> FALSE] # NoRow
  <2>1. [email |-> e, name |-> n, password |-> p, verified |-> FALSE] \in User
    BY DEF User
  <2> QED BY <2>1, RowsAssumption
<1> QED BY <1>1 DEF CreateUser, Content, OnlyUserChanged

LEMMA UpdateUserPasswordEffect ==
    ASSUME NEW d \in Content, NEW e \in Emails, NEW p \in Passwords, d.users[e] # NoRow
    PROVE  LET d2 == UpdateUserPassword(d, e, p)
           IN  /\ OnlyUserChanged(d, d2, e)
               /\ d2.users[e].email = d.users[e].email
               /\ d2.users[e].verified = d.users[e].verified
<1>1. d.users[e] \in User
  BY DEF Content
<1>2. [d.users[e] EXCEPT !.password = p] # NoRow
  <2>1. [d.users[e] EXCEPT !.password = p] \in User
    BY <1>1 DEF User
  <2> QED BY <2>1, RowsAssumption
<1> QED BY <1>1, <1>2 DEF UpdateUserPassword, Content, User, OnlyUserChanged

LEMMA SetUserIsVerifiedEffect ==
    ASSUME NEW d \in Content, NEW e \in Emails, d.users[e] # NoRow
    PROVE  LET d2 == SetUserIsVerified(d, e)
           IN  /\ OnlyUserChanged(d, d2, e)
               /\ d2.users[e].email = d.users[e].email
               /\ d2.users[e].verified
<1>1. d.users[e] \in User
  BY DEF Content
<1>2. [d.users[e] EXCEPT !.verified = TRUE] # NoRow
  <2>1. [d.users[e] EXCEPT !.verified = TRUE] \in User
    BY <1>1 DEF User
  <2> QED BY <2>1, RowsAssumption
<1> QED BY <1>1, <1>2 DEF SetUserIsVerified, Content, User, OnlyUserChanged

LEMMA TokenQueriesKeepUsers ==
    ASSUME NEW d \in Content, NEW t, NEW type, NEW e, NEW x
    PROVE  /\ DeleteTokensByEmail(d, type, e).users = d.users
           /\ CreateToken(d, t, type, e, x).users = d.users
BY DEF DeleteTokensByEmail, CreateToken, Content

\* A new token takes the place of the older ones, in an account that fits it.
LEMMA ReplaceTokenConsistent ==
    ASSUME NEW d \in Content, NEW e \in Emails, NEW t \in Tokens, NEW x \in Nat,
           NEW type \in TokenTypes,
           Keyed(d), OneLiveTokenIn(d), TokensMatchIn(d), d.users[e] # NoRow,
           d.users[e].verified <=> type = "PASSWORD"
    PROVE  Consistent(CreateToken(DeleteTokensByEmail(d, type, e), t, type, e, x))
<1> DEFINE d1 == DeleteTokensByEmail(d, type, e)
           d2 == CreateToken(d1, t, type, e, x)
<1>1. d1 \in Content /\ d1.users = d.users
  BY DeleteTokensType, TokenQueriesKeepUsers
<1>2. d2.users = d.users
  BY <1>1, TokenQueriesKeepUsers
<1>3. \A type2 \in TokenTypes, e2 \in Emails :
        LiveTokens(d2, type2, e2) = IF type2 = type /\ e2 = e THEN {t}
                                    ELSE LiveTokens(d, type2, e2) \ {t}
  <2> TAKE type2 \in TokenTypes, e2 \in Emails
  <2>1. LiveTokens(d1, type2, e2) = IF type2 = type /\ e2 = e THEN {}
                                    ELSE LiveTokens(d, type2, e2)
    BY LiveAfterDelete
  <2>2. LiveTokens(d2, type2, e2) = IF type2 = type /\ e2 = e
                                    THEN LiveTokens(d1, type2, e2) \cup {t}
                                    ELSE LiveTokens(d1, type2, e2) \ {t}
    BY <1>1, LiveAfterCreate
  <2> QED BY <2>1, <2>2
<1> HIDE DEF d1, d2
<1>4. Keyed(d2)
  BY <1>2 DEF Keyed
<1>5. OneLiveTokenIn(d2)
  BY <1>3 DEF OneLiveTokenIn
<1>6. TokensMatchIn(d2)
  BY <1>2, <1>3 DEF TokensMatchIn, TokenTypes
<1> QED BY <1>4, <1>5, <1>6 DEF Consistent, d1, d2

LEMMA CreateUserConsistent ==
    ASSUME NEW d \in Content, NEW e \in Emails, NEW n \in Names, NEW p \in Passwords,
           Consistent(d), GetUser(d, e) = NoRow
    PROVE  Consistent(CreateUser(d, e, n, p))
<1> DEFINE d2 == CreateUser(d, e, n, p)
<1>1. OnlyUserChanged(d, d2, e) /\ d2.users[e].email = e
  BY CreateUserEffect
<1>2. \A type \in TokenTypes, f \in Emails : LiveTokens(d2, type, f) = LiveTokens(d, type, f)
  BY <1>1, LiveAfterUserUpdate DEF OnlyUserChanged
<1>3. d.users[e] = NoRow
  BY DEF GetUser
<1> HIDE DEF d2
<1>4. Keyed(d2)
  BY <1>1 DEF Keyed, Consistent, OnlyUserChanged
<1>5. OneLiveTokenIn(d2)
  BY <1>2 DEF OneLiveTokenIn, Consistent
<1>6. TokensMatchIn(d2)
  BY <1>1, <1>2, <1>3 DEF TokensMatchIn, TokenTypes, Consistent, OnlyUserChanged
<1> QED BY <1>4, <1>5, <1>6 DEF Consistent, d2

LEMMA UpdateUserPasswordConsistent ==
    ASSUME NEW d \in Content, NEW e \in Emails, NEW p \in Passwords,
           Consistent(d), GetUser(d, e) # NoRow
    PROVE  Consistent(UpdateUserPassword(d, e, p))
<1> DEFINE d2 == UpdateUserPassword(d, e, p)
<1>1. /\ OnlyUserChanged(d, d2, e)
      /\ d2.users[e].email = d.users[e].email
      /\ d2.users[e].verified = d.users[e].verified
      /\ d.users[e] # NoRow
  BY UpdateUserPasswordEffect DEF GetUser
<1>2. \A type \in TokenTypes, f \in Emails : LiveTokens(d2, type, f) = LiveTokens(d, type, f)
  BY <1>1, LiveAfterUserUpdate DEF OnlyUserChanged
<1> HIDE DEF d2
<1>3. Keyed(d2)
  BY <1>1 DEF Keyed, Consistent, OnlyUserChanged
<1>4. OneLiveTokenIn(d2)
  BY <1>2 DEF OneLiveTokenIn, Consistent
<1>5. TokensMatchIn(d2)
  BY <1>1, <1>2 DEF TokensMatchIn, TokenTypes, Consistent, OnlyUserChanged
<1> QED BY <1>3, <1>4, <1>5 DEF Consistent, d2

LEMMA DeleteTokensConsistent ==
    ASSUME NEW d \in Content, NEW type, NEW e, Consistent(d)
    PROVE  Consistent(DeleteTokensByEmail(d, type, e))
<1> DEFINE d2 == DeleteTokensByEmail(d, type, e)
<1>1. \A type2 \in TokenTypes, f \in Emails :
         LiveTokens(d2, type2, f) \subseteq LiveTokens(d, type2, f)
  BY LiveAfterDelete
<1>2. d2.users = d.users
  BY TokenQueriesKeepUsers
<1> HIDE DEF d2
<1> QED BY <1>1, <1>2
        DEF Consistent, Keyed, OneLiveTokenIn, TokensMatchIn, TokenTypes, d2

\* Between the two statements of ValidateSignupToken the account is verified
\* and its token still live; after the second one the content is consistent,
\* because an account with a live SIGNUP token has no live PASSWORD token.
LEMMA ValidateConsistent ==
    ASSUME NEW d \in Content, NEW t \in Tokens, Consistent(d), Live(d, "SIGNUP", t)
    PROVE  LET e == d.tokens[t].email
           IN  Consistent(DeleteSignupTokensByEmail(SetUserIsVerified(d, e), e))
<1> DEFINE e == d.tokens[t].email
           d1 == SetUserIsVerified(d, e)
           d2 == DeleteTokensByEmail(d1, "SIGNUP", e)
<1>1. e \in Emails /\ t \in LiveTokens(d, "SIGNUP", e)
  BY DEF Live, LiveTokens, Content, Token
<1>2. d.users[e] # NoRow /\ ~ d.users[e].verified
  BY <1>1 DEF Consistent, TokensMatchIn
<1> HIDE DEF e
<1>3. /\ d1 \in Content
      /\ OnlyUserChanged(d, d1, e)
      /\ d1.users[e].email = d.users[e].email
      /\ d1.users[e].verified
  BY <1>1, <1>2, SetUserIsVerifiedEffect, SetUserIsVerifiedType DEF GetUser
<1>4. \A type \in TokenTypes, f \in Emails :
        LiveTokens(d2, type, f) = IF type = "SIGNUP" /\ f = e THEN {}
                                  ELSE LiveTokens(d, type, f)
  <2> TAKE type \in TokenTypes, f \in Emails
  <2>1. LiveTokens(d2, type, f) = IF type = "SIGNUP" /\ f = e THEN {}
                                  ELSE LiveTokens(d1, type, f)
    BY <1>3, LiveAfterDelete
  <2> QED BY <1>3, <2>1, LiveAfterUserUpdate DEF OnlyUserChanged
<1>5. d2.users = d1.users
  BY <1>3, TokenQueriesKeepUsers
<1> HIDE DEF d1, d2
<1>6. Keyed(d2)
  BY <1>2, <1>3, <1>5 DEF Keyed, Consistent, OnlyUserChanged
<1>7. OneLiveTokenIn(d2)
  BY <1>4 DEF OneLiveTokenIn, Consistent
<1>8. TokensMatchIn(d2)
  BY <1>1, <1>2, <1>3, <1>4, <1>5
     DEF TokensMatchIn, TokenTypes, Consistent, OnlyUserChanged
<1> QED BY <1>6, <1>7, <1>8 DEF Consistent, DeleteSignupTokensByEmail, d1, d2, e

----------------------------------------------------------------------------
\* The invariant.

LEMMA OtherViewsOK ==
    ASSUME ContentInv, NEW r \in Requests, Consistent(db)', ViewOK(r)',
           \A q \in Requests \ {r} : /\ pc'[q] = pc[q] /\ req'[q] = req[q]
                                     /\ row'[q] = row[q] /\ view'[q] = view[q]
    PROVE  ContentInv'
<1> SUFFICES ASSUME NEW q \in Requests \ {r} PROVE ViewOK(q)'
  BY DEF ContentInv
<1>1. ViewOK(q)
  BY DEF ContentInv
<1> QED BY <1>1 DEF ViewOK

\* A statement leaves a content that fits the place the request goes to.
LEMMA StageConsistent ==
    ASSUME TypeInv, ContentInv, NEW r \in Requests, NEW content,
           NEW step \in {"began", "staged", "updated", "finished"},
           Stage(r, content, step),
           \A q \in Requests \ {r} : row'[q] = row[q],
           step # "updated" => Consistent(content),
           step = "updated" =>
                Consistent(DeleteRedeemed(content, req[r].op, row'[r].email))
    PROVE  ContentInv'
<1>1. db' = db /\ req' = req /\ pc' = [pc EXCEPT ![r] = step]
      /\ view' = [view EXCEPT ![r] = content]
  BY DEF Stage, Exec, Goto
<1>2. pc'[r] = step /\ view'[r] = content
  BY <1>1 DEF TypeInv, TypeOK
<1>3. ViewOK(r)'
  BY <1>1, <1>2 DEF ViewOK
<1>4. Consistent(db')
  BY <1>1 DEF ContentInv
<1> QED BY <1>1, <1>3, <1>4, OtherViewsOK DEF TypeInv, TypeOK

\* A step after which the call of r has an answer.
LEMMA EndConsistent ==
    ASSUME TypeInv, ContentInv, NEW r \in Requests,
           NEW step \in {"ok", "err", "idle", "called", "locked", "loaded"},
           Goto(r, step), Consistent(db'),
           \A q \in Requests \ {r} : /\ req'[q] = req[q] /\ row'[q] = row[q]
                                     /\ view'[q] = view[q]
    PROVE  ContentInv'
<1>1. ViewOK(r)'
  BY DEF Goto, TypeInv, TypeOK, ViewOK
<1> QED BY <1>1, OtherViewsOK DEF Goto, TypeInv, TypeOK

LEMMA FailConsistent ==
    ASSUME TypeInv, ContentInv, NEW r \in Requests, Fail(r)
    PROVE  ContentInv'
<1>1. Consistent(db')
  BY DEF Fail, Rollback, ContentInv
<1> QED BY <1>1, EndConsistent DEF Fail, Rollback, Release, TypeInv, TypeOK

LEMMA WriteConsistent ==
    ASSUME TypeInv, ContentInv, NEW r \in Requests,
           Begin(r) \/ Signup(r) \/ ResendSignupToken(r) \/ ResetPassword(r)
    PROVE  ContentInv'
<1>1. CallOK(r) /\ ViewOK(r) /\ Consistent(db)
  BY DEF TypeInv, CallsOK, ContentInv
<1>2. now + SignupTTL \in Nat /\ now + PasswordTTL \in Nat
  BY ClockAssumption DEF TypeInv, TypeOK
<1> DEFINE c == req[r]
           d == view[r]
<1>3. pc[r] = "began" =>
        /\ d \in Content /\ Consistent(d)
        /\ c.op \in WriteOps /\ c.email \in Emails /\ c.token \in Tokens
        /\ c.op = "Signup" => c.name \in Names /\ c.password \in Passwords
  BY <1>1, CallFields DEF CallOK, ViewOK, WriteOps, TokenOps
<1>4. CASE Begin(r)
  BY <1>1, <1>4, StageConsistent DEF Begin
<1>5. CASE Signup(r)
  <2> DEFINE d1 == CreateUser(d, c.email, c.name, c.password)
  <2>1. pc[r] = "began" /\ c.op = "Signup"
    BY <1>5 DEF Signup, At
  <2>2. CASE Fail(r)
    BY <2>2, FailConsistent
  <2>3. CASE GetUser(d, c.email) = NoRow /\ Stage(r, ReplaceSignupToken(d1, c), "staged")
             /\ row' = row
    <3>1. d1 \in Content /\ Consistent(d1)
      BY <1>3, <2>1, <2>3, CreateUserType, CreateUserConsistent
    <3>2. d1.users[c.email] # NoRow /\ ~ d1.users[c.email].verified
      BY <1>3, <2>1, CreateUserEffect DEF OnlyUserChanged
    <3>3. Consistent(ReplaceSignupToken(d1, c))
      BY <1>2, <1>3, <2>1, <3>1, <3>2, ReplaceTokenConsistent
         DEF ReplaceSignupToken, DeleteSignupTokensByEmail, Consistent, TokenTypes
    <3> QED BY <2>3, <3>3, StageConsistent
  <2> QED BY <1>5, <2>2, <2>3 DEF Signup
<1>6. CASE ResendSignupToken(r)
  <2>1. pc[r] = "began"
    BY <1>6 DEF ResendSignupToken, At
  <2>2. CASE Fail(r)
    BY <2>2, FailConsistent
  <2>3. CASE MayResend(d, c.email) /\ Stage(r, ReplaceSignupToken(d, c), "staged")
             /\ row' = row
    <3>1. Consistent(ReplaceSignupToken(d, c))
      BY <1>2, <1>3, <2>1, <2>3, ReplaceTokenConsistent
         DEF ReplaceSignupToken, DeleteSignupTokensByEmail, Consistent, TokenTypes,
             MayResend, GetUser
    <3> QED BY <2>3, <3>1, StageConsistent
  <2> QED BY <1>6, <2>2, <2>3 DEF ResendSignupToken
<1>7. CASE ResetPassword(r)
  <2>1. pc[r] = "began"
    BY <1>7 DEF ResetPassword, At
  <2>2. CASE Fail(r)
    BY <2>2, FailConsistent
  <2>3. CASE GetUser(d, c.email) # NoRow /\ GetUser(d, c.email).verified
             /\ Stage(r, ReplacePasswordToken(d, c), "staged") /\ row' = row
    <3>1. Consistent(ReplacePasswordToken(d, c))
      BY <1>2, <1>3, <2>1, <2>3, ReplaceTokenConsistent
         DEF ReplacePasswordToken, DeletePasswordTokensByEmail, Consistent, TokenTypes,
             GetUser
    <3> QED BY <2>3, <3>1, StageConsistent
  <2> QED BY <1>7, <2>2, <2>3 DEF ResetPassword
<1> QED BY <1>4, <1>5, <1>6, <1>7

LEMMA SendConsistent ==
    ASSUME TypeInv, ContentInv, NEW r \in Requests, SendMail(r) \/ SendMailFails(r)
    PROVE  ContentInv'
<1>1. ViewOK(r) /\ Consistent(db)
  BY DEF ContentInv
<1>2. CASE SendMail(r)
  <2>1. ViewOK(r)'
    BY <1>1, <1>2 DEF SendMail, ViewOK, Goto, TypeInv, TypeOK, storage
  <2> QED BY <1>1, <1>2, <2>1, OtherViewsOK
          DEF SendMail, Goto, TypeInv, TypeOK, storage
<1>3. CASE SendMailFails(r)
  BY <1>1, <1>3, EndConsistent DEF SendMailFails, Rollback, Release, TypeInv, TypeOK
<1> QED BY <1>2, <1>3

LEMMA ReadConsistent ==
    ASSUME TypeInv, ContentInv, NEW r \in Requests,
           GetUserCached(r) \/ GetUserRead(r) \/ SigninRead(r) \/ Loaded(r)
    PROVE  ContentInv'
<1>1. Consistent(db)
  BY DEF ContentInv
<1>2. CASE Fail(r)
  BY <1>2, FailConsistent
<1>3. ASSUME NEW step \in {"ok", "loaded"}, Goto(r, step), UNCHANGED <<storage, req>>,
             \A q \in Requests \ {r} : row'[q] = row[q]
      PROVE  ContentInv'
  BY <1>1, <1>3, EndConsistent DEF storage
<1>4. CASE GetUserCached(r)
  BY <1>3, <1>4 DEF GetUserCached
<1>5. CASE GetUserRead(r)
  BY <1>2, <1>3, <1>5 DEF GetUserRead, TypeInv, TypeOK
<1>6. CASE SigninRead(r)
  BY <1>2, <1>3, <1>6 DEF SigninRead, TypeInv, TypeOK
<1>7. CASE Loaded(r)
  BY <1>2, <1>3, <1>7 DEF Loaded
<1> QED BY <1>4, <1>5, <1>6, <1>7

LEMMA RedeemConsistent ==
    ASSUME TypeInv, ContentInv, NEW r \in Requests,
           \/ SelectToken(r) \/ ResetPasswordToken(r) \/ ValidateSignupToken(r)
           \/ ChangePassword(r) \/ ChangePasswordWithToken(r) \/ Finish(r)
    PROVE  ContentInv'
<1>1. CallOK(r) /\ ViewOK(r) /\ Consistent(db) /\ db \in Content
  BY DEF TypeInv, CallsOK, ContentInv, TypeOK
<1>2. CASE Fail(r)
  BY <1>2, FailConsistent
<1> DEFINE c == req[r]
           d == view[r]
<1>3. CASE SelectToken(r) /\ ~ Fail(r)
  <2>1. /\ view' = [view EXCEPT ![r] = db]
        /\ pc' = [pc EXCEPT ![r] = "selected"]
        /\ UNCHANGED <<db, req, row>>
        /\ c.op = "ValidateSignupToken" => Live(db, "SIGNUP", c.token)
        /\ c.op # "ValidateSignupToken" => Live(db, "PASSWORD", c.token)
    BY <1>3 DEF SelectToken, Snapshot, Goto, GetSignupTokenNotExpired,
                GetPasswordTokenNotExpired
  <2>2. pc'[r] = "selected" /\ view'[r] = db
    BY <2>1 DEF TypeInv, TypeOK
  <2>3. ViewOK(r)'
    BY <1>1, <2>1, <2>2 DEF ViewOK, RedeemedType
  <2> QED BY <1>1, <2>1, <2>3, OtherViewsOK DEF TypeInv, TypeOK
<1>4. CASE ResetPasswordToken(r)
  BY <1>1, <1>4, EndConsistent
     DEF ResetPasswordToken, Rollback, Release, TypeInv, TypeOK
<1>5. pc[r] = "selected" =>
        /\ d \in Content /\ Consistent(d) /\ c.token \in Tokens
        /\ Live(d, RedeemedType(c.op), c.token)
        /\ TokenEmail(r) = d.tokens[c.token].email /\ TokenEmail(r) \in Emails
        /\ c.op = "ChangePasswordWithToken" => c.password \in Passwords
  BY <1>1, CallFields DEF CallOK, ViewOK, TokenOps, TokenEmail, Token
<1>6. ASSUME NEW d0, NEW d2, NEW e \in Emails, UpdateReturning(r, d0, d2, e), ~ Fail(r),
             GetUser(d0, e) # NoRow =>
                /\ d2.users[e].email = e
                /\ Consistent(DeleteRedeemed(d2, c.op, e))
      PROVE  ContentInv'
  <2>1. /\ Stage(r, d2, "updated")
        /\ row' = [row EXCEPT ![r] = GetUser(d2, e)]
        /\ GetUser(d0, e) # NoRow
    BY <1>6 DEF UpdateReturning
  <2>2. row'[r].email = e /\ \A q \in Requests \ {r} : row'[q] = row[q]
    BY <1>6, <2>1 DEF TypeInv, TypeOK, GetUser
  <2> QED BY <1>6, <2>1, <2>2, StageConsistent
<1>7. CASE ValidateSignupToken(r) /\ ~ Fail(r)
  <2> DEFINE e == TokenEmail(r)
  <2>1. pc[r] = "selected" /\ c.op = "ValidateSignupToken"
    BY <1>7 DEF ValidateSignupToken, At
  <2>2. Live(d, "SIGNUP", c.token)
    BY <1>5, <2>1 DEF RedeemedType
  <2>3. Consistent(DeleteRedeemed(SetUserIsVerified(d, e), c.op, e))
    BY <1>5, <2>1, <2>2, ValidateConsistent DEF DeleteRedeemed
  <2>4. GetUser(d, e) # NoRow => SetUserIsVerified(d, e).users[e].email = e
    BY <1>5, <2>1, SetUserIsVerifiedEffect DEF GetUser, Consistent, Keyed
  <2> QED BY <1>5, <1>6, <1>7, <2>1, <2>3, <2>4 DEF ValidateSignupToken
<1>8. CASE ChangePassword(r) /\ ~ Fail(r)
  <2> DEFINE d2 == UpdateUserPassword(db, c.email, c.password)
  <2>1. c.op = "ChangePassword" /\ c.email \in Emails /\ c.password \in Passwords
    BY <1>1, <1>8, CallFields DEF ChangePassword, At, CallOK
  <2>2. GetUser(db, c.email) # NoRow => Consistent(DeleteRedeemed(d2, c.op, c.email))
    BY <1>1, <2>1, UpdateUserPasswordConsistent DEF DeleteRedeemed
  <2>3. GetUser(db, c.email) # NoRow => d2.users[c.email].email = c.email
    BY <1>1, <2>1, UpdateUserPasswordEffect DEF GetUser, Consistent, Keyed
  <2> QED BY <1>6, <1>8, <2>1, <2>2, <2>3 DEF ChangePassword
<1>9. CASE ChangePasswordWithToken(r) /\ ~ Fail(r)
  <2> DEFINE e == TokenEmail(r)
             d2 == UpdateUserPassword(d, e, c.password)
  <2>1. pc[r] = "selected" /\ c.op = "ChangePasswordWithToken"
    BY <1>9 DEF ChangePasswordWithToken, At
  <2>2. ASSUME GetUser(d, e) # NoRow
        PROVE  d2.users[e].email = e /\ Consistent(DeleteRedeemed(d2, c.op, e))
    <3>1. d2 \in Content /\ Consistent(d2)
      BY <1>5, <2>1, <2>2, UpdateUserPasswordType, UpdateUserPasswordConsistent
    <3>2. d2.users[e].email = e
      BY <1>5, <2>1, <2>2, UpdateUserPasswordEffect DEF GetUser, Consistent, Keyed
    <3>3. DeleteRedeemed(d2, c.op, e) = DeleteTokensByEmail(d2, "PASSWORD", e)
      BY <2>1 DEF DeleteRedeemed, DeletePasswordTokensByEmail
    <3> QED BY <3>1, <3>2, <3>3, DeleteTokensConsistent
  <2> QED BY <1>5, <1>6, <1>9, <2>1, <2>2 DEF ChangePasswordWithToken
<1>10. CASE Finish(r)
  BY <1>1, <1>10, StageConsistent DEF Finish, ViewOK
<1> QED BY <1>2, <1>3, <1>4, <1>7, <1>8, <1>9, <1>10

LEMMA CommonConsistent ==
    ASSUME TypeInv, ContentInv, NEW r \in Requests,
           Call(r) \/ Lock(r) \/ Return(r) \/ Abort(r) \/ Busy(r) \/ CommitTx(r)
    PROVE  ContentInv'
<1>1. ViewOK(r) /\ Consistent(db)
  BY DEF ContentInv
<1>2. CASE Call(r)
  BY <1>1, <1>2, EndConsistent DEF Call, storage, TypeInv, TypeOK
<1>3. CASE Lock(r)
  BY <1>1, <1>3, EndConsistent DEF Lock, LockMutex
<1>4. CASE Return(r)
  BY <1>1, <1>4, EndConsistent DEF Return, storage, TypeInv, TypeOK
<1>5. CASE Abort(r) \/ Busy(r)
  BY <1>5, FailConsistent DEF Abort, Busy
<1>6. CASE CommitTx(r)
  <2>1. Consistent(db')
    BY <1>1, <1>6 DEF CommitTx, Commit, ViewOK
  <2> QED BY <1>6, <2>1, EndConsistent DEF CommitTx, Commit, Release, TypeInv, TypeOK
<1> QED BY <1>2, <1>3, <1>4, <1>5, <1>6

LEMMA ContentInvInit == Init => ContentInv
<1> SUFFICES ASSUME Init PROVE ContentInv
  OBVIOUS
<1>1. Consistent(EmptyContent)
  BY DEF EmptyContent, Consistent, Keyed, OneLiveTokenIn, TokensMatchIn, LiveTokens, Live
<1> QED BY <1>1 DEF Init, StorageInit, ContentInv, ViewOK

LEMMA ContentInvNext == TypeInv /\ ContentInv /\ [Next]_vars => ContentInv'
<1> SUFFICES ASSUME TypeInv, ContentInv, [Next]_vars PROVE ContentInv'
  OBVIOUS
<1>1. CASE UNCHANGED vars
  BY <1>1 DEF vars, storage, ContentInv, ViewOK
<1>2. CASE Tick
  BY <1>2 DEF Tick, storage, ContentInv, ViewOK
<1>3. CASE Crash
  BY <1>3 DEF Crash, Restart, ContentInv, ViewOK
<1>4. ASSUME NEW r \in Requests, Call(r) \/ Lock(r) \/ Progress(r) \/ Abort(r)
      PROVE  ContentInv'
  BY <1>4, WriteConsistent, SendConsistent, ReadConsistent, RedeemConsistent,
     CommonConsistent DEF Progress
<1> QED BY <1>1, <1>2, <1>3, <1>4 DEF Next

LEMMA ContentInvariant == Spec => [](TypeInv /\ ContentInv)
BY TypeInvInit, TypeInvNext, ContentInvInit, ContentInvNext, PTL DEF Spec

\* However the requests interleave, fail or restart, an email never has two
\* links of one kind that both work (user.go:142, 189, 274).
THEOREM TokensAreReplaced == Spec => []OneLiveTokenPerKind
<1>1. ContentInv => OneLiveTokenPerKind
  BY DEF ContentInv, Consistent, OneLiveTokenPerKind
<1> QED BY <1>1, ContentInvariant, PTL

\* A confirmation link that works belongs to an account that waits for it, a
\* reset link that works to a verified one (user.go:182, 234, 267, 394).
THEOREM TokensFitAccounts == Spec => []TokenMatchesAccount
<1>1. ContentInv => TokenMatchesAccount
  BY DEF ContentInv, Consistent, TokenMatchesAccount
<1> QED BY <1>1, ContentInvariant, PTL

----------------------------------------------------------------------------
(***************************************************************************)
(* No commit undoes an earlier one (NoLostUpdate), although three          *)
(* operations write in transactions that began as readers.                 *)
(*                                                                         *)
(* The argument is about snapshots.  A view that is not stale and not      *)
(* being written is the committed content; the view of the writer advances *)
(* it; so a commit advances it as well.  A token a call has drawn is in    *)
(* nobody else's view, hence inserting it overwrites nothing.              *)
(***************************************************************************)

\* The view of r against the committed content.
Isolated(r) ==
    /\ view[r] # None /\ r \notin stale /\ writer # r => view[r] = db
    /\ writer = r => view[r] \in Content /\ r \notin stale /\ Advances(db, view[r])
    /\ /\ pc[r] \in {"called", "locked", "began", "staged", "mailed"}
       /\ req[r].op \in WriteOps
       => db.tokens[req[r].token] = NoRow
    /\ \A t \in Tokens : view[r] # None /\ view[r].tokens[t] # NoRow =>
            \/ db.tokens[t] # NoRow
            \/ pc[r] \in {"staged", "mailed"} /\ t = req[r].token

\* No two calls draw the same UUID.
DistinctDraws ==
    \A r, q \in Requests :
        /\ r # q /\ pc[r] # "idle" /\ pc[q] # "idle"
        /\ req[r].op \in WriteOps /\ req[q].op \in WriteOps
        => req[r].token # req[q].token

IsolationInv == (\A r \in Requests : Isolated(r)) /\ DistinctDraws

----------------------------------------------------------------------------
\* Advances is a preorder the queries respect.

LEMMA AdvancesRefl == ASSUME NEW d PROVE Advances(d, d)
BY DEF Advances, UserAdvances, TokenAdvances

LEMMA AdvancesTrans ==
    ASSUME NEW d1, NEW d2, NEW d3, Advances(d1, d2), Advances(d2, d3)
    PROVE  Advances(d1, d3)
<1>1. ASSUME NEW e \in Emails PROVE UserAdvances(d1.users[e], d3.users[e])
  <2>1. UserAdvances(d1.users[e], d2.users[e]) /\ UserAdvances(d2.users[e], d3.users[e])
    BY DEF Advances
  <2> QED BY <2>1 DEF UserAdvances
<1>2. ASSUME NEW t \in Tokens PROVE TokenAdvances(d1.tokens[t], d3.tokens[t])
  <2>1. TokenAdvances(d1.tokens[t], d2.tokens[t]) /\ TokenAdvances(d2.tokens[t], d3.tokens[t])
    BY DEF Advances
  <2> QED BY <2>1 DEF TokenAdvances
<1> QED BY <1>1, <1>2 DEF Advances

LEMMA CreateUserAdvances ==
    ASSUME NEW d \in Content, NEW e \in Emails, NEW n \in Names, NEW p \in Passwords,
           GetUser(d, e) = NoRow
    PROVE  Advances(d, CreateUser(d, e, n, p)) /\ CreateUser(d, e, n, p).tokens = d.tokens
BY DEF GetUser, CreateUser, Content, Advances, UserAdvances, TokenAdvances

LEMMA UserUpdateAdvances ==
    ASSUME NEW d \in Content, NEW e \in Emails, GetUser(d, e) # NoRow
    PROVE  /\ Advances(d, SetUserIsVerified(d, e))
           /\ SetUserIsVerified(d, e).tokens = d.tokens
           /\ \A p \in Passwords : /\ Advances(d, UpdateUserPassword(d, e, p))
                                   /\ UpdateUserPassword(d, e, p).tokens = d.tokens
<1>1. d.users[e] \in User /\ NoRow \notin User
  BY RowsAssumption DEF GetUser, Content
<1>2. ASSUME NEW d2, NEW u \in User, d2 = [d EXCEPT !.users[e] = u],
             u.email = d.users[e].email, u.name = d.users[e].name,
             d.users[e].verified => u.verified
      PROVE  Advances(d, d2) /\ d2.tokens = d.tokens
  <2>1. d2.tokens = d.tokens /\ \A f \in Emails : d2.users[f] = IF f = e THEN u ELSE d.users[f]
    BY <1>2 DEF Content
  <2>2. u # NoRow
    BY <1>1
  <2> QED BY <1>2, <2>1, <2>2 DEF Advances, UserAdvances, TokenAdvances
<1>3. /\ SetUserIsVerified(d, e) = [d EXCEPT !.users[e] = [d.users[e] EXCEPT !.verified = TRUE]]
      /\ [d.users[e] EXCEPT !.verified = TRUE] \in User
      /\ [d.users[e] EXCEPT !.verified = TRUE].email = d.users[e].email
      /\ [d.users[e] EXCEPT !.verified = TRUE].name = d.users[e].name
      /\ [d.users[e] EXCEPT !.verified = TRUE].verified
  BY <1>1 DEF SetUserIsVerified, Content, User
<1>4. ASSUME NEW p \in Passwords
      PROVE  /\ UpdateUserPassword(d, e, p) =
                    [d EXCEPT !.users[e] = [d.users[e] EXCEPT !.password = p]]
             /\ [d.users[e] EXCEPT !.password = p] \in User
             /\ [d.users[e] EXCEPT !.password = p].email = d.users[e].email
             /\ [d.users[e] EXCEPT !.password = p].name = d.users[e].name
             /\ [d.users[e] EXCEPT !.password = p].verified = d.users[e].verified
  BY <1>1 DEF UpdateUserPassword, Content, User
<1> QED BY <1>2, <1>3, <1>4

LEMMA DeleteTokensAdvances ==
    ASSUME NEW d \in Content, NEW type, NEW e
    PROVE  /\ Advances(d, DeleteTokensByEmail(d, type, e))
           /\ \A t \in Tokens : DeleteTokensByEmail(d, type, e).tokens[t] # NoRow
                                    => d.tokens[t] # NoRow
<1> DEFINE D == DeleteTokensByEmail(d, type, e)
<1>1. D.users = d.users
  BY DEF DeleteTokensByEmail, Content
<1>2. ASSUME NEW t \in Tokens
      PROVE  /\ TokenAdvances(d.tokens[t], D.tokens[t])
             /\ D.tokens[t] # NoRow => d.tokens[t] # NoRow
  <2>1. \/ D.tokens[t] = d.tokens[t]
        \/ /\ d.tokens[t] # NoRow
           /\ D.tokens[t] = [d.tokens[t] EXCEPT !.deleted = TRUE]
    BY DEF DeleteTokensByEmail, Content
  <2>2. ASSUME NEW k \in Token
        PROVE  [k EXCEPT !.deleted = TRUE] \in Token
               /\ TokenAdvances(k, [k EXCEPT !.deleted = TRUE])
    <3>1. [k EXCEPT !.deleted = TRUE] \in Token
      BY DEF Token
    <3> QED BY <3>1, RowsAssumption DEF Token, TokenAdvances
  <2>3. d.tokens[t] = NoRow \/ d.tokens[t] \in Token
    BY DEF Content
  <2> QED BY <2>1, <2>2, <2>3 DEF TokenAdvances
<1> QED BY <1>1, <1>2 DEF Advances, UserAdvances

LEMMA CreateTokenAdvances ==
    ASSUME NEW d \in Content, NEW t \in Tokens, NEW type, NEW e, NEW x,
           d.tokens[t] = NoRow
    PROVE  /\ Advances(d, CreateToken(d, t, type, e, x))
           /\ \A u \in Tokens : CreateToken(d, t, type, e, x).tokens[u] # NoRow
                                    => d.tokens[u] # NoRow \/ u = t
BY DEF CreateToken, Content, Advances, UserAdvances, TokenAdvances

----------------------------------------------------------------------------
\* The invariant.

LEMMA NobodyIsNone == None \notin Requests /\ None \notin Content
BY RequestsAssumption, NoneAssumption

\* What r may write on top of: its view, or the database if it has none.
LEMMA MayWriteAdvances ==
    ASSUME TypeInv, IsolationInv, NEW r \in Requests, MayWrite(r), view[r] # None
    PROVE  view[r] \in Content /\ Advances(db, view[r])
<1>1. Isolated(r)
  BY DEF IsolationInv
<1>2. CASE writer = r
  BY <1>1, <1>2 DEF Isolated
<1>3. CASE writer = None /\ r \notin stale
  <2>1. view[r] = db
    BY <1>1, <1>3, NobodyIsNone DEF Isolated
  <2> QED BY <2>1, AdvancesRefl DEF TypeInv, TypeOK
<1> QED BY <1>2, <1>3 DEF MayWrite

LEMMA DistinctFrame ==
    ASSUME DistinctDraws, req' = req,
           \A q \in Requests : pc'[q] # "idle" => pc[q] # "idle"
    PROVE  DistinctDraws'
BY DEF DistinctDraws

\* A step of r that leaves the storage and the calls alone.
LEMMA LocalIsolated ==
    ASSUME TypeInv, IsolationInv, NEW r \in Requests,
           NEW step \in {"idle", "ok", "err", "loaded", "locked", "mailed"},
           Goto(r, step), UNCHANGED <<storage, req>>, pc[r] # "idle",
           step = "locked" => pc[r] = "called",
           step = "mailed" => pc[r] = "staged",
           step # "mailed" => pc[r] \notin {"staged", "mailed"}
    PROVE  IsolationInv'
<1>1. \A q \in Requests : pc'[q] = IF q = r THEN step ELSE pc[q]
  BY DEF Goto, TypeInv, TypeOK
<1>2. ASSUME NEW q \in Requests PROVE Isolated(q)'
  <2>1. Isolated(q)
    BY DEF IsolationInv
  <2> QED BY <1>1, <2>1 DEF Isolated, storage
<1>3. DistinctDraws'
  BY <1>1, DistinctFrame DEF IsolationInv
<1> QED BY <1>2, <1>3 DEF IsolationInv

\* The transaction of r ends without a trace.
LEMMA RollbackIsolated ==
    ASSUME TypeInv, IsolationInv, NEW r \in Requests, NEW step \in {"ok", "err"},
           Rollback(r), Goto(r, step), req' = req, pc[r] # "idle"
    PROVE  IsolationInv'
<1>1. \A q \in Requests : pc'[q] = IF q = r THEN step ELSE pc[q]
  BY DEF Goto, TypeInv, TypeOK
<1>2. /\ db' = db
      /\ writer' = IF writer = r THEN None ELSE writer
      /\ stale' = stale \ {r}
      /\ \A q \in Requests : view'[q] = IF q = r THEN None ELSE view[q]
  BY DEF Rollback, Release, TypeInv, TypeOK
<1>3. ASSUME NEW q \in Requests PROVE Isolated(q)'
  <2>1. Isolated(q)
    BY DEF IsolationInv
  <2>2. CASE q = r
    BY <1>1, <1>2, <2>2, NobodyIsNone DEF Isolated
  <2>3. CASE q # r
    BY <1>1, <1>2, <2>1, <2>3, NobodyIsNone DEF Isolated
  <2> QED BY <2>2, <2>3
<1>4. DistinctDraws'
  BY <1>1, DistinctFrame DEF IsolationInv
<1> QED BY <1>3, <1>4 DEF IsolationInv

LEMMA FailIsolated ==
    ASSUME TypeInv, IsolationInv, NEW r \in Requests, Fail(r), pc[r] # "idle"
    PROVE  IsolationInv'
BY RollbackIsolated DEF Fail

\* A statement of r whose content advances the database.
LEMMA StageIsolated ==
    ASSUME TypeInv, IsolationInv, NEW r \in Requests, NEW content \in Content,
           NEW step \in {"began", "staged", "updated", "finished"},
           Stage(r, content, step), pc[r] # "idle",
           Advances(db, content),
           step = "began" => pc[r] = "locked",
           step = "staged" => pc[r] = "began",
           \A t \in Tokens : content.tokens[t] # NoRow =>
                db.tokens[t] # NoRow \/ (step = "staged" /\ t = req[r].token)
    PROVE  IsolationInv'
<1>1. \A q \in Requests : pc'[q] = IF q = r THEN step ELSE pc[q]
  BY DEF Stage, Goto, TypeInv, TypeOK
<1>2. /\ db' = db /\ req' = req /\ stale' = stale /\ writer' = r
      /\ \A q \in Requests : view'[q] = IF q = r THEN content ELSE view[q]
      /\ writer = r \/ writer = None
      /\ writer = None => r \notin stale
  BY NobodyIsNone DEF Stage, Exec, MayWrite, TypeInv, TypeOK
<1>3. ASSUME NEW q \in Requests PROVE Isolated(q)'
  <2>1. Isolated(q) /\ Isolated(r)
    BY DEF IsolationInv
  <2>2. CASE q = r
    <3>1. r \notin stale
      BY <1>2, <2>1 DEF Isolated
    <3> QED BY <1>1, <1>2, <2>1, <2>2, <3>1 DEF Isolated
  <2>3. CASE q # r
    <3>1. writer # q
      BY <1>2, <2>3, NobodyIsNone
    <3> QED BY <1>1, <1>2, <2>1, <2>3, <3>1 DEF Isolated
  <2> QED BY <2>2, <2>3
<1>4. DistinctDraws'
  BY <1>1, <1>2, DistinctFrame DEF IsolationInv
<1> QED BY <1>3, <1>4 DEF IsolationInv

LEMMA SelectIsolated ==
    ASSUME TypeInv, IsolationInv, NEW r \in Requests, SelectToken(r)
    PROVE  IsolationInv'
<1>1. pc[r] = "called" /\ req[r].op \in RedeemOps \cup {"ResetPasswordToken"}
  BY DEF SelectToken
<1>2. CASE Fail(r)
  BY <1>1, <1>2, FailIsolated
<1>3. CASE Snapshot(r) /\ Goto(r, "selected") /\ req' = req
  <2>1. /\ UNCHANGED <<db, writer, stale, req>>
        /\ \A q \in Requests : view'[q] = IF q = r THEN db ELSE view[q]
        /\ \A q \in Requests : pc'[q] = IF q = r THEN "selected" ELSE pc[q]
    BY <1>3 DEF Snapshot, Goto, TypeInv, TypeOK
  <2>2. ASSUME NEW q \in Requests PROVE Isolated(q)'
    <3>1. Isolated(q) /\ db \in Content /\ Advances(db, db)
      BY AdvancesRefl DEF IsolationInv, TypeInv, TypeOK
    <3> QED BY <1>1, <2>1, <3>1 DEF Isolated
  <2>3. DistinctDraws'
    BY <1>1, <2>1, DistinctFrame DEF IsolationInv
  <2> QED BY <2>2, <2>3 DEF IsolationInv
<1> QED BY <1>2, <1>3 DEF SelectToken

LEMMA CommitIsolated ==
    ASSUME TypeInv, IsolationInv, NEW r \in Requests, CommitTx(r)
    PROVE  IsolationInv' /\ Advances(db, db')
<1>1. Isolated(r) /\ pc[r] \in {"mailed", "finished"}
  BY DEF IsolationInv, CommitTx
<1>2. view[r] \in Content /\ Advances(db, view[r])
  BY <1>1 DEF Isolated, CommitTx, Commit
<1>3. /\ db' = view[r] /\ writer' = None /\ req' = req
      /\ stale' = {q \in Requests \ {r} : view[q] # None}
      /\ \A q \in Requests : view'[q] = IF q = r THEN None ELSE view[q]
      /\ \A q \in Requests : pc'[q] = IF q = r THEN "ok" ELSE pc[q]
  BY DEF CommitTx, Commit, Release, Goto, TypeInv, TypeOK
<1>4. CallOK(r)
  BY DEF TypeInv, CallsOK
<1>5. ASSUME NEW q \in Requests PROVE Isolated(q)'
  <2>1. CASE q = r
    BY <1>3, <2>1, NobodyIsNone DEF Isolated
  <2>2. CASE q # r
    <3>1. Isolated(q) /\ CallOK(q)
      BY DEF IsolationInv, TypeInv, CallsOK
    <3>2. ASSUME NEW t \in Tokens, db.tokens[t] # NoRow
          PROVE  db'.tokens[t] # NoRow
      BY <1>2, <1>3, <3>2 DEF Advances, TokenAdvances
    <3>3. ASSUME pc[q] \in {"called", "locked", "began", "staged", "mailed"},
                 req[q].op \in WriteOps
          PROVE  db'.tokens[req[q].token] = NoRow
      <4>1. req[q].token \in Tokens /\ db.tokens[req[q].token] = NoRow
        BY <3>1, <3>3, CallFields DEF CallOK, Isolated, TokenOps
      <4>2. pc[r] = "mailed" => req[r].token # req[q].token
        BY <1>4, <2>2, <3>3 DEF IsolationInv, DistinctDraws, CallOK
      <4>3. view[r] # None
        BY <1>2, NobodyIsNone
      <4> QED BY <1>1, <1>3, <4>1, <4>2, <4>3 DEF Isolated
    <3>4. q \notin stale' => view[q] = None
      BY <1>3, <2>2
    <3>5. writer' # q
      BY <1>3, NobodyIsNone
    <3> QED BY <1>3, <2>2, <3>1, <3>2, <3>3, <3>4, <3>5 DEF Isolated
  <2> QED BY <2>1, <2>2
<1>6. DistinctDraws'
  BY <1>1, <1>3, DistinctFrame DEF IsolationInv
<1> QED BY <1>2, <1>3, <1>5, <1>6 DEF IsolationInv

LEMMA CallIsolated ==
    ASSUME TypeInv, IsolationInv, NEW r \in Requests, Call(r)
    PROVE  IsolationInv'
<1>1. PICK c \in Calls({now}) : /\ req' = [req EXCEPT ![r] = c]
                                /\ c.op \in WriteOps => Fresh(c.token)
  BY DEF Call
<1>2. /\ pc[r] = "idle"
      /\ UNCHANGED <<db, writer, view, stale>>
      /\ \A q \in Requests : pc'[q] = IF q = r THEN "called" ELSE pc[q]
      /\ \A q \in Requests : req'[q] = IF q = r THEN c ELSE req[q]
  BY <1>1 DEF Call, Goto, storage, TypeInv, TypeOK
<1>3. ASSUME NEW q \in Requests PROVE Isolated(q)'
  <2>1. Isolated(q)
    BY DEF IsolationInv
  <2> QED BY <1>1, <1>2, <2>1 DEF Isolated, Fresh
<1>4. DistinctDraws'
  <2> SUFFICES ASSUME NEW q1 \in Requests, NEW q2 \in Requests,
                      q1 # q2, pc'[q1] # "idle", pc'[q2] # "idle",
                      req'[q1].op \in WriteOps, req'[q2].op \in WriteOps
               PROVE  req'[q1].token # req'[q2].token
    BY DEF DistinctDraws
  <2>1. ASSUME NEW q \in Requests \ {r}, pc[q] # "idle", req[q].op \in WriteOps,
               c.op \in WriteOps
        PROVE  req[q].token # c.token
    BY <1>1, <2>1 DEF Fresh, TokenOps
  <2>2. CASE q1 # r /\ q2 # r
    BY <1>2, <2>2 DEF IsolationInv, DistinctDraws
  <2>3. CASE q1 = r
    BY <1>2, <2>1, <2>3
  <2>4. CASE q2 = r
    BY <1>2, <2>1, <2>4
  <2> QED BY <2>2, <2>3, <2>4
<1> QED BY <1>3, <1>4 DEF IsolationInv

----------------------------------------------------------------------------
\* The operations.

LEMMA ReplaceTokenAdvances ==
    ASSUME NEW d \in Content, NEW c, c.token \in Tokens, d.tokens[c.token] = NoRow
    PROVE  LET s == ReplaceSignupToken(d, c)
               p == ReplacePasswordToken(d, c)
           IN  /\ Advances(d, s) /\ Advances(d, p)
               /\ \A t \in Tokens : s.tokens[t] # NoRow \/ p.tokens[t] # NoRow
                                        => d.tokens[t] # NoRow \/ t = c.token
<1> SUFFICES ASSUME NEW type, NEW x
             PROVE  LET d2 == CreateToken(DeleteTokensByEmail(d, type, c.email),
                                          c.token, type, c.email, x)
                    IN  /\ Advances(d, d2)
                        /\ \A t \in Tokens : d2.tokens[t] # NoRow
                                => d.tokens[t] # NoRow \/ t = c.token
  BY DEF ReplaceSignupToken, ReplacePasswordToken, DeleteSignupTokensByEmail,
         DeletePasswordTokensByEmail
<1> DEFINE d1 == DeleteTokensByEmail(d, type, c.email)
<1>1. /\ d1 \in Content /\ Advances(d, d1)
      /\ \A t \in Tokens : d1.tokens[t] # NoRow => d.tokens[t] # NoRow
  BY DeleteTokensType, DeleteTokensAdvances
<1>2. d1.tokens[c.token] = NoRow
  BY <1>1
<1> HIDE DEF d1
<1>3. LET d2 == CreateToken(d1, c.token, type, c.email, x)
      IN  /\ Advances(d1, d2)
          /\ \A t \in Tokens : d2.tokens[t] # NoRow => d1.tokens[t] # NoRow \/ t = c.token
  BY <1>1, <1>2, CreateTokenAdvances
<1> QED BY <1>1, <1>3, AdvancesTrans DEF d1

LEMMA WriteIsolated ==
    ASSUME TypeInv, IsolationInv, NEW r \in Requests,
           Begin(r) \/ Signup(r) \/ ResendSignupToken(r) \/ ResetPassword(r)
    PROVE  IsolationInv'
<1> DEFINE c == req[r]
           d == view[r]
<1>1. CallOK(r) /\ Isolated(r) /\ db \in Content
  BY DEF TypeInv, CallsOK, IsolationInv, TypeOK
<1>2. now + SignupTTL \in Nat /\ now + PasswordTTL \in Nat
  BY ClockAssumption DEF TypeInv, TypeOK
<1>3. CASE Begin(r)
  BY <1>1, <1>3, StageIsolated, AdvancesRefl DEF Begin
<1>4. pc[r] = "began" =>
        /\ d \in Content /\ d # None
        /\ c.op \in WriteOps /\ c.email \in Emails /\ c.token \in Tokens
        /\ c.op = "Signup" => c.name \in Names /\ c.password \in Passwords
        /\ d.tokens[c.token] = NoRow
        /\ \A t \in Tokens : d.tokens[t] # NoRow => db.tokens[t] # NoRow
  BY <1>1, CallFields, NobodyIsNone DEF CallOK, Isolated, WriteOps, TokenOps
<1>5. ASSUME pc[r] = "began", NEW content \in Content, Stage(r, content, "staged"),
             Advances(d, content), row' = row, cache' = cache,
             \A t \in Tokens : content.tokens[t] # NoRow
                                    => d.tokens[t] # NoRow \/ t = c.token
      PROVE  IsolationInv'
  <2>1. Advances(db, d)
    BY <1>4, <1>5, MayWriteAdvances DEF Stage, Exec
  <2>2. Advances(db, content)
    BY <1>5, <2>1, AdvancesTrans
  <2> QED BY <1>4, <1>5, <2>2, StageIsolated
<1>6. CASE Fail(r) /\ pc[r] = "began"
  BY <1>6, FailIsolated
<1>7. ASSUME NEW d1 \in Content, pc[r] = "began"
      PROVE  ReplaceSignupToken(d1, c) \in Content /\ ReplacePasswordToken(d1, c) \in Content
  BY <1>2, <1>4, <1>7, CreateTokenType, DeleteTokensType
     DEF ReplaceSignupToken, ReplacePasswordToken, DeleteSignupTokensByEmail,
         DeletePasswordTokensByEmail, TokenTypes
<1>8. CASE Signup(r)
  <2> DEFINE d1 == CreateUser(d, c.email, c.name, c.password)
             d2 == ReplaceSignupToken(d1, c)
  <2>1. pc[r] = "began" /\ c.op = "Signup"
    BY <1>8 DEF Signup, At
  <2>2. CASE GetUser(d, c.email) = NoRow /\ Stage(r, d2, "staged")
             /\ row' = row /\ cache' = cache
    <3>1. d1 \in Content /\ Advances(d, d1) /\ d1.tokens = d.tokens
      BY <1>4, <2>1, <2>2, CreateUserType, CreateUserAdvances
    <3> HIDE DEF d1
    <3>2. /\ Advances(d1, d2)
          /\ \A t \in Tokens : d2.tokens[t] # NoRow => d1.tokens[t] # NoRow \/ t = c.token
      BY <1>4, <2>1, <3>1, ReplaceTokenAdvances
    <3>3. Advances(d, d2) /\ d2 \in Content
      BY <1>7, <2>1, <3>1, <3>2, AdvancesTrans
    <3> QED BY <1>5, <2>1, <2>2, <3>1, <3>2, <3>3
  <2> QED BY <1>6, <1>8, <2>1, <2>2 DEF Signup
<1>9. CASE ResendSignupToken(r)
  <2>1. pc[r] = "began"
    BY <1>9 DEF ResendSignupToken, At
  <2>2. CASE Stage(r, ReplaceSignupToken(d, c), "staged") /\ row' = row /\ cache' = cache
    BY <1>4, <1>5, <1>7, <2>1, <2>2, ReplaceTokenAdvances
  <2> QED BY <1>6, <1>9, <2>1, <2>2 DEF ResendSignupToken
<1>10. CASE ResetPassword(r)
  <2>1. pc[r] = "began"
    BY <1>10 DEF ResetPassword, At
  <2>2. CASE Stage(r, ReplacePasswordToken(d, c), "staged") /\ row' = row /\ cache' = cache
    BY <1>4, <1>5, <1>7, <2>1, <2>2, ReplaceTokenAdvances
  <2> QED BY <1>6, <1>10, <2>1, <2>2 DEF ResetPassword
<1> QED BY <1>3, <1>8, <1>9, <1>10

LEMMA RedeemIsolated ==
    ASSUME TypeInv, IsolationInv, NEW r \in Requests,
           \/ SelectToken(r) \/ ResetPasswordToken(r) \/ ValidateSignupToken(r)
           \/ ChangePassword(r) \/ ChangePasswordWithToken(r) \/ Finish(r)
    PROVE  IsolationInv'
<1> DEFINE c == req[r]
           d == view[r]
<1>1. CallOK(r) /\ Isolated(r) /\ db \in Content
  BY DEF TypeInv, CallsOK, IsolationInv, TypeOK
<1>2. CASE SelectToken(r)
  BY <1>2, SelectIsolated
<1>3. CASE ResetPasswordToken(r)
  BY <1>3, RollbackIsolated DEF ResetPasswordToken, At
<1>4. pc[r] \in {"selected", "updated"} =>
        /\ d \in Content /\ d # None
        /\ \A t \in Tokens : d.tokens[t] # NoRow => db.tokens[t] # NoRow
  BY <1>1, NobodyIsNone DEF CallOK, Isolated
<1>5. pc[r] = "selected" =>
        /\ TokenEmail(r) \in Emails
        /\ c.op = "ChangePasswordWithToken" => c.password \in Passwords
  BY <1>1, CallFields DEF CallOK, TokenEmail, Token
<1>6. ASSUME NEW d0 \in Content, NEW d2, NEW e, UpdateReturning(r, d0, d2, e),
             pc[r] # "idle",
             MayWrite(r) => Advances(db, d0),
             \A t \in Tokens : d0.tokens[t] # NoRow => db.tokens[t] # NoRow,
             GetUser(d0, e) # NoRow =>
                d2 \in Content /\ Advances(d0, d2) /\ d2.tokens = d0.tokens
      PROVE  IsolationInv'
  <2>1. CASE Fail(r)
    BY <1>6, <2>1, FailIsolated
  <2>2. CASE GetUser(d0, e) # NoRow /\ Stage(r, d2, "updated")
    <3>1. Advances(db, d2)
      BY <1>6, <2>2, AdvancesTrans DEF Stage, Exec
    <3> QED BY <1>6, <2>2, <3>1, StageIsolated
  <2> QED BY <1>6, <2>1, <2>2 DEF UpdateReturning
<1>7. CASE ValidateSignupToken(r)
  <2>1. pc[r] = "selected"
    BY <1>7 DEF ValidateSignupToken, At
  <2> QED BY <1>4, <1>5, <1>6, <1>7, <2>1, MayWriteAdvances, SetUserIsVerifiedType,
             UserUpdateAdvances DEF ValidateSignupToken
<1>8. CASE ChangePassword(r)
  <2>1. pc[r] = "called" /\ c.email \in Emails /\ c.password \in Passwords
    BY <1>1, <1>8, CallFields DEF ChangePassword, At, CallOK
  <2> QED BY <1>1, <1>6, <1>8, <2>1, AdvancesRefl, UpdateUserPasswordType,
             UserUpdateAdvances DEF ChangePassword
<1>9. CASE ChangePasswordWithToken(r)
  <2>1. pc[r] = "selected" /\ c.op = "ChangePasswordWithToken"
    BY <1>9 DEF ChangePasswordWithToken, At
  <2> QED BY <1>4, <1>5, <1>6, <1>9, <2>1, MayWriteAdvances, UpdateUserPasswordType,
             UserUpdateAdvances DEF ChangePasswordWithToken
<1>10. CASE Finish(r)
  <2> DEFINE d2 == DeleteRedeemed(d, c.op, row[r].email)
  <2>1. pc[r] = "updated" /\ Stage(r, d2, "finished")
    BY <1>10 DEF Finish
  <2>2. /\ d2 \in Content /\ Advances(d, d2)
        /\ \A t \in Tokens : d2.tokens[t] # NoRow => d.tokens[t] # NoRow
    BY <1>4, <2>1, DeleteTokensType, DeleteTokensAdvances, AdvancesRefl
       DEF DeleteRedeemed, DeleteSignupTokensByEmail, DeletePasswordTokensByEmail
  <2> HIDE DEF d2
  <2>3. Advances(db, d2)
    BY <1>4, <2>1, <2>2, MayWriteAdvances, AdvancesTrans DEF Stage, Exec
  <2> QED BY <1>4, <2>1, <2>2, <2>3, StageIsolated
<1> QED BY <1>2, <1>3, <1>7, <1>8, <1>9, <1>10

LEMMA OtherIsolated ==
    ASSUME TypeInv, IsolationInv, NEW r \in Requests,
           \/ Lock(r) \/ Return(r) \/ Abort(r) \/ Busy(r)
           \/ SendMail(r) \/ SendMailFails(r)
           \/ GetUserCached(r) \/ GetUserRead(r) \/ SigninRead(r) \/ Loaded(r)
    PROVE  IsolationInv'
<1>1. CASE Fail(r) /\ pc[r] # "idle"
  BY <1>1, FailIsolated
<1>2. CASE Abort(r) \/ Busy(r)
  BY <1>1, <1>2 DEF Abort, Busy, At
<1>3. CASE SendMailFails(r)
  BY <1>3, RollbackIsolated DEF SendMailFails
<1>4. CASE SendMail(r)
  BY <1>4, LocalIsolated DEF SendMail
<1>5. CASE GetUserCached(r) \/ GetUserRead(r) \/ SigninRead(r) \/ Loaded(r)
  BY <1>1, <1>5, LocalIsolated DEF GetUserCached, GetUserRead, SigninRead, Loaded, At
<1>6. CASE Lock(r)
  <2>1. /\ pc[r] = "called"
        /\ UNCHANGED <<db, writer, view, stale, req>>
        /\ \A q \in Requests : pc'[q] = IF q = r THEN "locked" ELSE pc[q]
    BY <1>6 DEF Lock, LockMutex, Goto, TypeInv, TypeOK
  <2>2. ASSUME NEW q \in Requests PROVE Isolated(q)'
    <3>1. Isolated(q)
      BY DEF IsolationInv
    <3> QED BY <2>1, <3>1 DEF Isolated
  <2> QED BY <2>1, <2>2, DistinctFrame DEF IsolationInv
<1>7. CASE Return(r)
  <2>1. /\ pc[r] \in {"ok", "err"}
        /\ UNCHANGED <<db, writer, view, stale>>
        /\ \A q \in Requests : pc'[q] = IF q = r THEN "idle" ELSE pc[q]
        /\ \A q \in Requests \ {r} : req'[q] = req[q]
    BY <1>7 DEF Return, Goto, storage, TypeInv, TypeOK
  <2>2. ASSUME NEW q \in Requests PROVE Isolated(q)'
    <3>1. Isolated(q)
      BY DEF IsolationInv
    <3> QED BY <2>1, <3>1 DEF Isolated
  <2>3. DistinctDraws'
    BY <2>1 DEF IsolationInv, DistinctDraws
  <2> QED BY <2>2, <2>3 DEF IsolationInv
<1> QED BY <1>2, <1>3, <1>4, <1>5, <1>6, <1>7

LEMMA IsolationInit == Init => IsolationInv
BY NobodyIsNone DEF Init, StorageInit, IsolationInv, Isolated, DistinctDraws

LEMMA IsolationNext ==
    TypeInv /\ IsolationInv /\ [Next]_vars => IsolationInv' /\ [Advances(db, db')]_db
<1> SUFFICES ASSUME TypeInv, IsolationInv, [Next]_vars
             PROVE  IsolationInv' /\ [Advances(db, db')]_db
  OBVIOUS
<1>1. CASE UNCHANGED vars
  BY <1>1 DEF vars, storage, IsolationInv, Isolated, DistinctDraws
<1>2. CASE Tick
  BY <1>2 DEF Tick, storage, IsolationInv, Isolated, DistinctDraws
<1>3. CASE Crash
  BY <1>3, NobodyIsNone DEF Crash, Restart, IsolationInv, Isolated, DistinctDraws
<1>4. ASSUME NEW r \in Requests, Call(r) \/ Lock(r) \/ Progress(r) \/ Abort(r)
      PROVE  IsolationInv' /\ [Advances(db, db')]_db
  <2>1. CASE CommitTx(r)
    BY <2>1, CommitIsolated
  <2>2. CASE ~ CommitTx(r)
    <3>1. IsolationInv'
      BY <1>4, <2>2, CallIsolated, WriteIsolated, RedeemIsolated, OtherIsolated
         DEF Progress
    <3>2. db' = db
      BY <1>4, <2>2
         DEF Progress, Call, Lock, LockMutex, Return, Abort, Busy, Begin, Signup,
             ResendSignupToken, ResetPassword, SendMail, SendMailFails, GetUserCached,
             GetUserRead, SigninRead, Loaded, SelectToken, Snapshot, ResetPasswordToken,
             ValidateSignupToken, ChangePassword, ChangePasswordWithToken,
             UpdateReturning, Finish, Stage, Exec, Fail, Rollback, storage
    <3> QED BY <3>1, <3>2
  <2> QED BY <2>1, <2>2
<1> QED BY <1>1, <1>2, <1>3, <1>4 DEF Next

\* A commit never loses what an earlier one wrote: SQLite's refusal to let a
\* stale snapshot write is enough, no Go lock is needed around the operations
\* that write through db.Read (storage.go:106, user.go:220, 340, 375).
THEOREM CommitsAdvance == Spec => NoLostUpdate
<1>1. Spec => [](TypeInv /\ IsolationInv)
  BY TypeInvInit, TypeInvNext, IsolationInit, IsolationNext, PTL DEF Spec
<1> QED BY <1>1, IsolationNext, PTL DEF Spec, NoLostUpdate

=============================================================================
