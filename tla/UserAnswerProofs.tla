-------------------------- MODULE UserAnswerProofs --------------------------
(***************************************************************************)
(* What the answers, the mails and the cache say of the database is true,  *)
(* accounts change only for those who may change them, and the service     *)
(* implements Accounts.                                                    *)
(*                                                                         *)
(* AnswerInv follows a request from what its transaction has prepared to   *)
(* what its answer claims.  A link is spent once because its second user   *)
(* cannot be the writer: from its UPDATE to its commit a redemption holds  *)
(* the write lock, so the token it found live stays live in the database,  *)
(* whereas an answered redemption left it dead.  Names never change and    *)
(* rows never disappear (Advances), so a row read at any time may fill the *)
(* cache later.                                                            *)
(*                                                                         *)
(* EffectInv says exactly what the writer has made of the database.  Only  *)
(* commits change the database, so what each of them makes of it decides   *)
(* both properties of the accounts, and each is one step of Accounts.      *)
(***************************************************************************)
EXTENDS UserServiceProofs

IssuedType(op) == IF op = "ResetPassword" THEN "PASSWORD" ELSE "SIGNUP"

\* d has the token and the account of the call c, which issues a link.
IssuedIn(d, c) ==
    /\ d.tokens[c.token] # NoRow
    /\ d.tokens[c.token].email = c.email
    /\ d.tokens[c.token].type = IssuedType(c.op)
    /\ d.users[c.email] # NoRow

\* t is a token of type for a verified account that has the email e.
RedeemableIn(d, t, type, e) ==
    /\ d.tokens[t] # NoRow
    /\ d.tokens[t].type = type
    /\ d.tokens[t].email = e
    /\ d.users[e] # NoRow
    /\ d.users[e].verified

SpentIn(d, t) ==
    /\ d.tokens[t] # NoRow
    /\ d.tokens[t].deleted
    /\ d.users[d.tokens[t].email] # NoRow
    /\ d.users[d.tokens[t].email].verified

KnownIn(d, u) == d.users[u.email] # NoRow /\ d.users[u.email].name = u.name

Redeems(r) == req[r].op \in RedeemOps
Issues(r) == req[r].op \in WriteOps

Answered(r) ==
    /\ writer = r => pc[r] \in {"began", "staged", "mailed", "updated", "finished"}
    /\ pc[r] \in {"staged", "mailed"} => IssuedIn(view[r], req[r])
    /\ pc[r] = "mailed" => MailOf(req[r]) \in mailed
    /\ pc[r] \in {"loaded", "updated"} => KnownIn(db, row[r])
    /\ pc[r] = "loaded" => req[r].op \in {"GetUser", "Signin"}
    /\ pc[r] \in {"updated", "finished"} => Redeems(r) \/ req[r].op = "ChangePassword"
    /\ pc[r] \in {"updated", "finished"} /\ Redeems(r) =>
            writer = r /\ Live(db, RedeemedType(req[r].op), req[r].token)
    /\ pc[r] = "updated" /\ Redeems(r) =>
            RedeemableIn(view[r], req[r].token, RedeemedType(req[r].op), row[r].email)
    /\ pc[r] = "finished" /\ Redeems(r) => SpentIn(view[r], req[r].token)
    /\ pc[r] = "ok" /\ Issues(r) => IssuedIn(db, req[r])
    /\ pc[r] = "ok" /\ Redeems(r) => SpentIn(db, req[r].token)
    /\ pc[r] = "err" /\ Issues(r) => db.tokens[req[r].token] = NoRow

AnswerInv ==
    /\ \A r \in Requests : Answered(r)
    /\ CommittedTokenWasMailed
    /\ CacheAgrees
    /\ LinkWorksOnce

----------------------------------------------------------------------------
\* What is true of a content stays true of what it advances to.

LEMMA AdvancesKeeps ==
    ASSUME NEW d1 \in Content, NEW d2, Advances(d1, d2)
    PROVE  /\ \A c : c.token \in Tokens /\ c.email \in Emails /\ IssuedIn(d1, c)
                        => IssuedIn(d2, c)
           /\ \A t \in Tokens : SpentIn(d1, t) => SpentIn(d2, t)
           /\ \A u \in User : KnownIn(d1, u) => KnownIn(d2, u)
<1>1. \A c : c.token \in Tokens /\ c.email \in Emails /\ IssuedIn(d1, c) => IssuedIn(d2, c)
  BY DEF Advances, UserAdvances, TokenAdvances, IssuedIn
<1>2. ASSUME NEW t \in Tokens, SpentIn(d1, t) PROVE SpentIn(d2, t)
  <2>1. d1.tokens[t].email \in Emails
    BY <1>2 DEF SpentIn, Content, Token
  <2>2. TokenAdvances(d1.tokens[t], d2.tokens[t])
        /\ UserAdvances(d1.users[d1.tokens[t].email], d2.users[d1.tokens[t].email])
    BY <2>1 DEF Advances
  <2> QED BY <1>2, <2>2 DEF SpentIn, TokenAdvances, UserAdvances
<1>3. ASSUME NEW u \in User, KnownIn(d1, u) PROVE KnownIn(d2, u)
  <2>1. UserAdvances(d1.users[u.email], d2.users[u.email])
    BY DEF User, Advances
  <2> QED BY <1>3, <2>1 DEF KnownIn, UserAdvances
<1> QED BY <1>1, <1>2, <1>3

\* The statements of a call that issues a link.
LEMMA ReplaceTokenIssues ==
    ASSUME NEW d \in Content, NEW c, c.token \in Tokens, c.email \in Emails,
           now \in Nat, d.users[c.email] # NoRow
    PROVE  /\ c.op # "ResetPassword" => IssuedIn(ReplaceSignupToken(d, c), c)
           /\ c.op = "ResetPassword" => IssuedIn(ReplacePasswordToken(d, c), c)
<1>1. ASSUME NEW type \in TokenTypes, NEW x \in Nat
      PROVE  LET d2 == CreateToken(DeleteTokensByEmail(d, type, c.email),
                                   c.token, type, c.email, x)
             IN  /\ d2.tokens[c.token] # NoRow
                 /\ d2.tokens[c.token].email = c.email
                 /\ d2.tokens[c.token].type = type
                 /\ d2.users = d.users
  <2> DEFINE d1 == DeleteTokensByEmail(d, type, c.email)
             k == [type |-> type, email |-> c.email, expiresAt |-> x, deleted |-> FALSE]
  <2>1. d1 \in Content /\ d1.users = d.users
    BY DeleteTokensType, TokenQueriesKeepUsers
  <2> HIDE DEF d1
  <2>2. k \in Token /\ k # NoRow
    <3>1. k \in Token
      BY DEF Token, TokenTypes
    <3> QED BY <3>1, RowsAssumption
  <2>3. /\ CreateToken(d1, c.token, type, c.email, x).tokens[c.token] = k
        /\ CreateToken(d1, c.token, type, c.email, x).users = d1.users
    BY <2>1 DEF CreateToken, Content
  <2> QED BY <2>1, <2>2, <2>3 DEF d1
<1>2. now + SignupTTL \in Nat /\ now + PasswordTTL \in Nat
  BY ClockAssumption
<1> QED BY <1>1, <1>2
        DEF ReplaceSignupToken, ReplacePasswordToken, DeleteSignupTokensByEmail,
            DeletePasswordTokensByEmail, IssuedIn, IssuedType, TokenTypes

\* The last statement of a redemption.
LEMMA DeleteRedeemedSpends ==
    ASSUME NEW d \in Content, NEW op \in RedeemOps, NEW t \in Tokens, NEW e,
           RedeemableIn(d, t, RedeemedType(op), e)
    PROVE  SpentIn(DeleteRedeemed(d, op, e), t)
<1> DEFINE d2 == DeleteTokensByEmail(d, RedeemedType(op), e)
<1>1. d.tokens[t] \in Token
  BY DEF Content, RedeemableIn
<1>2. d2.tokens[t] = [d.tokens[t] EXCEPT !.deleted = TRUE] /\ d2.users = d.users
  BY DEF DeleteTokensByEmail, Content, RedeemableIn
<1>3. ASSUME NEW k \in Token
      PROVE  /\ [k EXCEPT !.deleted = TRUE] \in Token
             /\ [k EXCEPT !.deleted = TRUE].email = k.email
             /\ [k EXCEPT !.deleted = TRUE].deleted
  BY DEF Token
<1>4. d2 = DeleteRedeemed(d, op, e)
  BY DEF DeleteRedeemed, RedeemOps, RedeemedType, DeleteSignupTokensByEmail,
         DeletePasswordTokensByEmail
<1> HIDE DEF d2
<1> QED BY <1>1, <1>2, <1>3, <1>4, RowsAssumption DEF SpentIn, RedeemableIn

----------------------------------------------------------------------------
\* The invariant.

\* A step of r that commits nothing and, if it answers, answers no redemption.
LEMMA StepAnswered ==
    ASSUME TypeInv, AnswerInv, NEW r \in Requests,
           db' = db, mailed \subseteq mailed',
           Answered(r)', cache' = cache \/ CacheAgrees',
           pc'[r] = "ok" => ~ Redeems(r)',
           \A q \in Requests \ {r} : /\ pc'[q] = pc[q] /\ req'[q] = req[q]
                                     /\ row'[q] = row[q] /\ view'[q] = view[q]
                                     /\ writer = q <=> writer' = q
    PROVE  AnswerInv'
<1>1. ASSUME NEW q \in Requests PROVE Answered(q)'
  <2>1. CASE q = r
    BY <2>1
  <2>2. CASE q # r
    <3>1. Answered(q)
      BY DEF AnswerInv
    <3>2. /\ pc'[q] = pc[q] /\ req'[q] = req[q] /\ row'[q] = row[q]
          /\ view'[q] = view[q] /\ (writer = q <=> writer' = q)
      BY <2>2
    <3> QED BY <3>1, <3>2 DEF Answered, Redeems, Issues
  <2> QED BY <2>1, <2>2
<1>2. CommittedTokenWasMailed'
  BY DEF AnswerInv, CommittedTokenWasMailed
<1>3. CacheAgrees'
  BY DEF AnswerInv, CacheAgrees
<1>4. LinkWorksOnce'
  <2> SUFFICES ASSUME NEW p \in Requests, NEW q \in Requests, p # q,
                      pc'[p] = "ok", pc'[q] = "ok",
                      req'[p].op \in RedeemOps, req'[q].op \in RedeemOps
               PROVE  req'[p].token # req'[q].token
    BY DEF LinkWorksOnce
  <2>1. p # r /\ q # r
    BY DEF Redeems
  <2> QED BY <2>1 DEF AnswerInv, LinkWorksOnce
<1> QED BY <1>1, <1>2, <1>3, <1>4 DEF AnswerInv

\* The transaction of r ends without a trace.
LEMMA RollbackAnswered ==
    ASSUME TypeInv, IsolationInv, AnswerInv, NEW r \in Requests,
           NEW step \in {"ok", "err"}, Rollback(r), Goto(r, step),
           UNCHANGED <<req, row, cache>>, mailed \subseteq mailed',
           step = "ok" => ~ Redeems(r) /\ ~ Issues(r),
           pc[r] \in {"called", "locked", "began", "staged", "mailed"} \/ ~ Issues(r)
    PROVE  AnswerInv'
<1>1. /\ db' = db /\ pc'[r] = step /\ req' = req
      /\ writer' # r
      /\ \A q \in Requests \ {r} : /\ pc'[q] = pc[q] /\ view'[q] = view[q]
                                   /\ writer = q <=> writer' = q
  BY NobodyIsNone DEF Rollback, Release, Goto, TypeInv, TypeOK
<1>2. Issues(r) => db.tokens[req[r].token] = NoRow
  BY DEF IsolationInv, Isolated, Issues
<1>3. Answered(r)'
  BY <1>1, <1>2 DEF Answered, Redeems, Issues
<1> QED BY <1>1, <1>3, StepAnswered DEF Redeems

LEMMA FailAnswered ==
    ASSUME TypeInv, IsolationInv, AnswerInv, NEW r \in Requests, Fail(r),
           pc[r] \in {"called", "locked", "began", "staged", "mailed"} \/ ~ Issues(r)
    PROVE  AnswerInv'
BY RollbackAnswered DEF Fail

\* A statement leaves a content that fits the place the request goes to.
LEMMA StageAnswered ==
    ASSUME TypeInv, AnswerInv, NEW r \in Requests, NEW content,
           NEW step \in {"began", "staged", "updated", "finished"},
           Stage(r, content, step), cache' = cache \/ CacheAgrees',
           \A q \in Requests \ {r} : row'[q] = row[q],
           step = "staged" => IssuedIn(content, req[r]),
           step = "updated" => KnownIn(db, row'[r]),
           step \in {"updated", "finished"} =>
                Redeems(r) \/ req[r].op = "ChangePassword",
           step \in {"updated", "finished"} /\ Redeems(r) =>
                Live(db, RedeemedType(req[r].op), req[r].token),
           step = "updated" /\ Redeems(r) =>
                RedeemableIn(content, req[r].token, RedeemedType(req[r].op), row'[r].email),
           step = "finished" /\ Redeems(r) => SpentIn(content, req[r].token)
    PROVE  AnswerInv'
<1>1. /\ db' = db /\ req' = req /\ mailed' = mailed /\ writer' = r
      /\ pc'[r] = step /\ view'[r] = content /\ writer \in {None, r}
      /\ \A q \in Requests \ {r} : pc'[q] = pc[q] /\ view'[q] = view[q]
  BY DEF Stage, Exec, Goto, MayWrite, TypeInv, TypeOK
<1>2. Answered(r)'
  BY <1>1 DEF Answered, Redeems, Issues
<1>3. \A q \in Requests \ {r} : writer = q <=> writer' = q
  BY <1>1, NobodyIsNone
<1> QED BY <1>1, <1>2, <1>3, StepAnswered

\* A step of r that leaves the storage and the calls alone.
LEMMA LocalAnswered ==
    ASSUME TypeInv, AnswerInv, NEW r \in Requests,
           NEW step \in {"ok", "loaded", "mailed"},
           Goto(r, step), UNCHANGED <<storage, req>>, mailed \subseteq mailed',
           cache' = cache \/ CacheAgrees',
           \A q \in Requests \ {r} : row'[q] = row[q],
           IF step = "mailed" THEN pc[r] = "staged" ELSE pc[r] \in {"called", "loaded"},
           step = "ok" => ~ Redeems(r) /\ ~ Issues(r),
           step = "loaded" => /\ KnownIn(db, row'[r])
                              /\ req[r].op \in {"GetUser", "Signin"},
           step = "mailed" => /\ IssuedIn(view[r], req[r])
                              /\ MailOf(req[r]) \in mailed'
    PROVE  AnswerInv'
<1>1. /\ db' = db /\ req' = req /\ writer' = writer /\ view' = view /\ pc'[r] = step
      /\ \A q \in Requests \ {r} : pc'[q] = pc[q]
  BY DEF Goto, storage, TypeInv, TypeOK
<1>2. Answered(r)'
  BY <1>1 DEF Answered, Redeems, Issues, AnswerInv
<1> QED BY <1>1, <1>2, StepAnswered DEF Redeems

\* UpdateCache with a row the database knows.
LEMMA UpdateCacheAgrees ==
    ASSUME TypeInv, AnswerInv, NEW u \in User, KnownIn(db, u), UpdateCache(u), db' = db
    PROVE  CacheAgrees'
<1>1. CacheAgrees /\ u.email \in Emails /\ u.name \in Names /\ None \notin Names
  BY NoneAssumption DEF AnswerInv, User
<1>2. \A e \in Emails : cache'[e] = cache[e] \/ (e = u.email /\ cache'[e] = u.name)
  BY <1>1 DEF UpdateCache, TypeInv, TypeOK
<1> QED BY <1>1, <1>2 DEF CacheAgrees, KnownIn

----------------------------------------------------------------------------
\* The operations.

LEMMA WriteAnswered ==
    ASSUME TypeInv, IsolationInv, AnswerInv, NEW r \in Requests,
           Begin(r) \/ Signup(r) \/ ResendSignupToken(r) \/ ResetPassword(r)
    PROVE  AnswerInv'
<1> DEFINE c == req[r]
           d == view[r]
<1>1. CallOK(r) /\ now \in Nat
  BY DEF TypeInv, CallsOK, TypeOK
<1>2. pc[r] = "began" =>
        /\ d \in Content
        /\ c.op \in WriteOps /\ c.email \in Emails /\ c.token \in Tokens
        /\ c.op = "Signup" => c.name \in Names /\ c.password \in Passwords
  BY <1>1, CallFields DEF CallOK, WriteOps, TokenOps
<1>3. ASSUME NEW content, pc[r] = "began", Stage(r, content, "staged"),
             IssuedIn(content, c), row' = row, cache' = cache
      PROVE  AnswerInv'
  BY <1>3, StageAnswered
<1>4. CASE Fail(r) /\ pc[r] = "began"
  BY <1>4, FailAnswered
<1>5. CASE Begin(r)
  BY <1>5, StageAnswered DEF Begin
<1>6. CASE Signup(r)
  <2> DEFINE d1 == CreateUser(d, c.email, c.name, c.password)
  <2>1. pc[r] = "began" /\ c.op = "Signup"
    BY <1>6 DEF Signup, At
  <2>2. d1 \in Content /\ d1.users[c.email] # NoRow
    BY <1>2, <2>1, CreateUserType, CreateUserEffect DEF OnlyUserChanged
  <2> HIDE DEF d1
  <2>3. IssuedIn(ReplaceSignupToken(d1, c), c)
    BY <1>1, <1>2, <2>1, <2>2, ReplaceTokenIssues
  <2> QED BY <1>3, <1>4, <1>6, <2>1, <2>3 DEF Signup, d1
<1>7. CASE ResendSignupToken(r)
  <2>1. pc[r] = "began" /\ c.op = "ResendSignupToken"
    BY <1>7 DEF ResendSignupToken, At
  <2>2. MayResend(d, c.email) => IssuedIn(ReplaceSignupToken(d, c), c)
    BY <1>1, <1>2, <2>1, ReplaceTokenIssues DEF MayResend, GetUser
  <2> QED BY <1>3, <1>4, <1>7, <2>1, <2>2 DEF ResendSignupToken
<1>8. CASE ResetPassword(r)
  <2>1. pc[r] = "began" /\ c.op = "ResetPassword"
    BY <1>8 DEF ResetPassword, At
  <2>2. GetUser(d, c.email) # NoRow => IssuedIn(ReplacePasswordToken(d, c), c)
    BY <1>1, <1>2, <2>1, ReplaceTokenIssues DEF GetUser
  <2> QED BY <1>3, <1>4, <1>8, <2>1, <2>2 DEF ResetPassword
<1> QED BY <1>5, <1>6, <1>7, <1>8

LEMMA SendAnswered ==
    ASSUME TypeInv, IsolationInv, AnswerInv, NEW r \in Requests,
           SendMail(r) \/ SendMailFails(r)
    PROVE  AnswerInv'
<1>1. pc[r] = "staged" /\ Answered(r)
  BY DEF SendMail, SendMailFails, AnswerInv
<1>2. CASE SendMail(r)
  BY <1>1, <1>2, LocalAnswered DEF SendMail, Answered
<1>3. CASE SendMailFails(r)
  BY <1>1, <1>3, RollbackAnswered DEF SendMailFails
<1> QED BY <1>2, <1>3

LEMMA ReadAnswered ==
    ASSUME TypeInv, IsolationInv, ContentInv, AnswerInv, NEW r \in Requests,
           GetUserCached(r) \/ GetUserRead(r) \/ SigninRead(r) \/ Loaded(r)
    PROVE  AnswerInv'
<1>1. CallOK(r) /\ Answered(r) /\ Keyed(db)
  BY DEF TypeInv, CallsOK, AnswerInv, ContentInv, Consistent
<1>2. {"GetUser", "Signin"} \cap (RedeemOps \cup WriteOps) = {}
  BY DEF RedeemOps, WriteOps
<1>3. CASE Fail(r) /\ req[r].op \in {"GetUser", "Signin"}
  BY <1>2, <1>3, FailAnswered DEF Issues
<1>4. ASSUME NEW u, u = GetUser(db, req[r].email), u # NoRow, pc[r] = "called",
             req[r].op \in {"GetUser", "Signin"},
             row' = [row EXCEPT ![r] = u], Goto(r, "loaded"),
             UNCHANGED <<storage, req, cache, mailed, now>>
      PROVE  AnswerInv'
  <2>1. req[r].email \in Emails
    BY <1>1, <1>4, CallFields DEF CallOK
  <2>2. KnownIn(db, u)
    BY <1>1, <1>4, <2>1 DEF KnownIn, Keyed, GetUser
  <2>3. row'[r] = u /\ \A q \in Requests \ {r} : row'[q] = row[q]
    BY <1>4 DEF TypeInv, TypeOK
  <2> QED BY <1>4, <2>2, <2>3, LocalAnswered
<1>5. CASE GetUserCached(r)
  BY <1>2, <1>5, LocalAnswered DEF GetUserCached, At, Redeems, Issues
<1>6. CASE GetUserRead(r)
  BY <1>3, <1>4, <1>6 DEF GetUserRead, At
<1>7. CASE SigninRead(r)
  BY <1>3, <1>4, <1>7 DEF SigninRead, At
<1>8. CASE Loaded(r)
  <2>1. /\ pc[r] = "loaded" /\ req[r].op \in {"GetUser", "Signin"}
        /\ row[r] \in User /\ KnownIn(db, row[r])
    BY <1>1, <1>8 DEF Loaded, Answered, CallOK
  <2>2. CASE UpdateCache(row[r]) /\ Goto(r, "ok") /\ UNCHANGED <<storage, req, row, mailed, now>>
    <3>1. CacheAgrees'
      BY <2>1, <2>2, UpdateCacheAgrees DEF storage
    <3> QED BY <1>2, <2>1, <2>2, <3>1, LocalAnswered DEF Redeems, Issues
  <2> QED BY <1>3, <1>8, <2>1, <2>2 DEF Loaded
<1> QED BY <1>5, <1>6, <1>7, <1>8

\* A redemption that may still write read the newest content.
LEMMA SelectedIsCurrent ==
    ASSUME TypeInv, IsolationInv, AnswerInv, NEW r \in Requests,
           pc[r] = "selected", MayWrite(r)
    PROVE  view[r] = db
<1>1. Isolated(r) /\ Answered(r) /\ view[r] # None
  BY NobodyIsNone DEF IsolationInv, AnswerInv, TypeInv, CallsOK, CallOK
<1> QED BY <1>1, NobodyIsNone DEF MayWrite, Isolated, Answered

LEMMA RedeemAnswered ==
    ASSUME TypeInv, IsolationInv, ContentInv, AnswerInv, NEW r \in Requests,
           \/ SelectToken(r) \/ ResetPasswordToken(r) \/ ValidateSignupToken(r)
           \/ ChangePassword(r) \/ ChangePasswordWithToken(r) \/ Finish(r)
    PROVE  AnswerInv'
<1> DEFINE c == req[r]
           d == view[r]
           type == RedeemedType(c.op)
<1>1. /\ CallOK(r) /\ ViewOK(r) /\ Answered(r) /\ Isolated(r)
      /\ db \in Content /\ Keyed(db)
  BY DEF TypeInv, CallsOK, ContentInv, AnswerInv, IsolationInv, TypeOK, Consistent
<1>2. (RedeemOps \cup {"ResetPasswordToken", "ChangePassword"}) \cap WriteOps = {}
      /\ "ResetPasswordToken" \notin RedeemOps /\ "ChangePassword" \notin RedeemOps
  BY DEF RedeemOps, WriteOps
<1>3. CASE Fail(r) /\ ~ Issues(r)
  BY <1>3, FailAnswered
<1>4. CASE SelectToken(r) /\ ~ Fail(r)
  <2>1. /\ view' = [view EXCEPT ![r] = db] /\ pc' = [pc EXCEPT ![r] = "selected"]
        /\ UNCHANGED <<db, writer, req, row, cache, mailed>>
    BY <1>4 DEF SelectToken, Snapshot, Goto
  <2>2. /\ pc'[r] = "selected"
        /\ \A q \in Requests \ {r} : pc'[q] = pc[q] /\ view'[q] = view[q]
    BY <2>1 DEF TypeInv, TypeOK
  <2>3. Answered(r)'
    BY <1>1, <2>1, <2>2, <1>4 DEF Answered, SelectToken
  <2> QED BY <2>1, <2>2, <2>3, StepAnswered
<1>5. CASE ResetPasswordToken(r)
  BY <1>2, <1>5, RollbackAnswered DEF ResetPasswordToken, At, Redeems, Issues
<1>6. pc[r] = "selected" =>
        /\ d \in Content /\ d # None /\ Consistent(d) /\ c.token \in Tokens
        /\ Live(d, type, c.token)
        /\ d.tokens[c.token].email \in Emails
        /\ TokenEmail(r) = d.tokens[c.token].email
        /\ c.op = "ChangePasswordWithToken" => c.password \in Passwords
  BY <1>1, NobodyIsNone, CallFields DEF CallOK, ViewOK, TokenOps, TokenEmail, Token
<1>7. ASSUME NEW d0, NEW d2, NEW e, UpdateReturning(r, d0, d2, e),
             pc[r] \in {"called", "selected"}, ~ Issues(r),
             Redeems(r) \/ c.op = "ChangePassword",
             MayWrite(r) /\ GetUser(d0, e) # NoRow =>
                /\ KnownIn(db, GetUser(d2, e))
                /\ Redeems(r) => /\ Live(db, type, c.token)
                                 /\ RedeemableIn(d2, c.token, type, GetUser(d2, e).email)
      PROVE  AnswerInv'
  <2>1. CASE Fail(r)
    BY <1>3, <1>7, <2>1
  <2>2. CASE /\ GetUser(d0, e) # NoRow
             /\ row' = [row EXCEPT ![r] = GetUser(d2, e)]
             /\ Stage(r, d2, "updated")
             /\ UNCHANGED cache
    <3>1. row'[r] = GetUser(d2, e) /\ (\A q \in Requests \ {r} : row'[q] = row[q])
          /\ MayWrite(r)
      BY <2>2 DEF TypeInv, TypeOK, Stage, Exec
    <3> QED BY <1>7, <2>2, <3>1, StageAnswered
  <2> QED BY <1>7, <2>1, <2>2 DEF UpdateReturning
<1>8. pc[r] = "selected" /\ MayWrite(r) => d = db
  BY SelectedIsCurrent
<1>9. CASE ValidateSignupToken(r)
  <2> DEFINE e == TokenEmail(r)
             d2 == SetUserIsVerified(d, e)
  <2>1. pc[r] = "selected" /\ c.op = "ValidateSignupToken"
        /\ Redeems(r) /\ ~ Issues(r) /\ type = "SIGNUP"
    BY <1>9 DEF ValidateSignupToken, At, Redeems, Issues, RedeemOps, WriteOps,
                 RedeemedType
  <2>2. ASSUME MayWrite(r), GetUser(d, e) # NoRow
        PROVE  /\ KnownIn(db, GetUser(d2, e)) /\ Live(db, type, c.token)
               /\ RedeemableIn(d2, c.token, type, GetUser(d2, e).email)
    <3>1. d = db /\ e \in Emails /\ d.users[e] # NoRow /\ d.users[e].email = e
      BY <1>6, <1>8, <2>1, <2>2 DEF GetUser, Consistent, Keyed
    <3>2. /\ d2.tokens = d.tokens /\ d2.users[e] # NoRow
          /\ d2.users[e].email = e /\ d2.users[e].verified
      BY <1>6, <2>1, <3>1, SetUserIsVerifiedEffect DEF OnlyUserChanged
    <3>3. d2.users[e].name = d.users[e].name
      BY <1>6, <2>1, <2>2, <3>1, UserUpdateAdvances DEF Advances, UserAdvances
    <3>4. Live(d, type, c.token) /\ d.tokens[c.token].email = e
      BY <1>6, <2>1
    <3> HIDE DEF d2, e
    <3> QED BY <3>1, <3>2, <3>3, <3>4 DEF GetUser, KnownIn, RedeemableIn, Live
  <2> QED BY <1>7, <1>9, <2>1, <2>2 DEF ValidateSignupToken
<1>10. CASE ChangePassword(r)
  <2> DEFINE e == c.email
             d2 == UpdateUserPassword(db, e, c.password)
  <2>1. pc[r] = "called" /\ c.op = "ChangePassword" /\ ~ Redeems(r) /\ ~ Issues(r)
        /\ e \in Emails /\ c.password \in Passwords
    BY <1>1, <1>10, CallFields
       DEF ChangePassword, At, CallOK, Redeems, Issues, RedeemOps, WriteOps
  <2>2. ASSUME GetUser(db, e) # NoRow PROVE KnownIn(db, GetUser(d2, e))
    <3>1. db.users[e] # NoRow /\ d2.users[e].email = e
      BY <1>1, <2>1, <2>2, UpdateUserPasswordEffect DEF GetUser, Keyed
    <3>2. d2.users[e].name = db.users[e].name
      BY <1>1, <2>1, <2>2, <3>1, UserUpdateAdvances DEF Advances, UserAdvances
    <3> HIDE DEF d2, e
    <3> QED BY <3>1, <3>2 DEF GetUser, KnownIn
  <2> QED BY <1>7, <1>10, <2>1, <2>2 DEF ChangePassword
<1>11. CASE ChangePasswordWithToken(r)
  <2> DEFINE e == TokenEmail(r)
             d2 == UpdateUserPassword(d, e, c.password)
  <2>1. pc[r] = "selected" /\ c.op = "ChangePasswordWithToken"
        /\ Redeems(r) /\ ~ Issues(r) /\ type = "PASSWORD"
    BY <1>11 DEF ChangePasswordWithToken, At, Redeems, Issues, RedeemOps, WriteOps,
                 RedeemedType
  <2>2. ASSUME MayWrite(r), GetUser(d, e) # NoRow
        PROVE  /\ KnownIn(db, GetUser(d2, e)) /\ Live(db, type, c.token)
               /\ RedeemableIn(d2, c.token, type, GetUser(d2, e).email)
    <3>1. d = db /\ e \in Emails /\ d.users[e] # NoRow /\ d.users[e].email = e
      BY <1>6, <1>8, <2>1, <2>2 DEF GetUser, Consistent, Keyed
    <3>2. Live(d, type, c.token) /\ d.tokens[c.token].email = e
      BY <1>6, <2>1
    <3>3. d.users[e].verified
      <4>1. c.token \in LiveTokens(d, "PASSWORD", e)
        BY <1>6, <2>1, <3>2 DEF LiveTokens
      <4> QED BY <1>6, <2>1, <3>1, <4>1 DEF Consistent, TokensMatchIn
    <3>4. /\ d2.tokens = d.tokens /\ d2.users[e] # NoRow
          /\ d2.users[e].email = e /\ d2.users[e].verified
      BY <1>6, <2>1, <3>1, <3>3, UpdateUserPasswordEffect DEF OnlyUserChanged
    <3>5. d2.users[e].name = d.users[e].name
      BY <1>6, <2>1, <2>2, <3>1, UserUpdateAdvances DEF Advances, UserAdvances
    <3> HIDE DEF d2, e
    <3> QED BY <3>1, <3>2, <3>4, <3>5 DEF GetUser, KnownIn, RedeemableIn, Live
  <2> QED BY <1>7, <1>11, <2>1, <2>2 DEF ChangePasswordWithToken
<1>12. CASE Finish(r)
  <2> DEFINE d2 == DeleteRedeemed(d, c.op, row[r].email)
  <2>1. /\ pc[r] = "updated" /\ Stage(r, d2, "finished") /\ UpdateCache(row[r])
        /\ row' = row /\ db' = db /\ row[r] \in User /\ d \in Content
        /\ c \in Calls(Nat)
    BY <1>1, <1>12 DEF Finish, Stage, Exec, CallOK
  <2>2. /\ KnownIn(db, row[r]) /\ (Redeems(r) \/ c.op = "ChangePassword")
        /\ Redeems(r) => /\ Live(db, type, c.token)
                         /\ RedeemableIn(d, c.token, type, row[r].email)
    BY <1>1, <2>1 DEF Answered
  <2>3. CacheAgrees'
    BY <2>1, <2>2, UpdateCacheAgrees
  <2>4. Redeems(r) => SpentIn(d2, c.token)
    BY <2>1, <2>2, CallFields, DeleteRedeemedSpends DEF Redeems, TokenOps
  <2> HIDE DEF d2
  <2> QED BY <2>1, <2>2, <2>3, <2>4, StageAnswered
<1>13. SelectToken(r) /\ Fail(r) => ~ Issues(r)
  BY <1>2 DEF SelectToken, Issues
<1> QED BY <1>3, <1>4, <1>5, <1>9, <1>10, <1>11, <1>12, <1>13

LEMMA CommitAnswered ==
    ASSUME TypeInv, IsolationInv, AnswerInv, NEW r \in Requests, CommitTx(r)
    PROVE  AnswerInv'
<1> DEFINE c == req[r]
           d == view[r]
<1>1. /\ CallOK(r) /\ Answered(r) /\ Isolated(r) /\ db \in Content
      /\ pc[r] \in {"mailed", "finished"} /\ writer = r
  BY DEF TypeInv, TypeOK, CallsOK, AnswerInv, IsolationInv, CommitTx, Commit
<1>2. /\ db' = d /\ writer' = None
      /\ UNCHANGED <<req, row, cache, mailed>>
      /\ pc'[r] = "ok" /\ view'[r] = None
      /\ \A q \in Requests \ {r} : pc'[q] = pc[q] /\ view'[q] = view[q]
  BY <1>1 DEF CommitTx, Commit, Release, Goto, TypeInv, TypeOK
<1>3. Advances(db, db') /\ db' \in Content
  BY <1>1, <1>2, CommitIsolated DEF CallOK
<1>4. pc[r] = "mailed" => c.op \in WriteOps /\ c \in Calls(Nat) /\ c.token \in Tokens
  BY <1>1, CallFields DEF CallOK, TokenOps
<1>5. (RedeemOps \cup {"ChangePassword"}) \cap WriteOps = {}
      /\ "ChangePassword" \notin RedeemOps
  BY DEF RedeemOps, WriteOps
<1>6. Answered(r)'
  BY <1>1, <1>2, <1>4, <1>5, NobodyIsNone DEF Answered, Redeems, Issues
<1>7. ASSUME NEW q \in Requests \ {r} PROVE Answered(q)'
  <2>1. Answered(q) /\ CallOK(q) /\ Isolated(q)
    BY DEF AnswerInv, TypeInv, CallsOK, IsolationInv
  <2>2. pc[q] # "idle" =>
          /\ Issues(q) => req[q].token \in Tokens /\ req[q].email \in Emails
          /\ Redeems(q) => req[q].token \in Tokens
    BY <2>1, CallFields DEF CallOK, Issues, Redeems, TokenOps
  <2>3. KnownIn(db, row[q]) /\ row[q] \in User => KnownIn(db', row[q])
    BY <1>1, <1>3, AdvancesKeeps
  <2>4. pc[q] = "ok" /\ Issues(q) => IssuedIn(db', req[q])
    BY <1>1, <1>3, <2>1, <2>2, AdvancesKeeps DEF Answered
  <2>5. pc[q] = "ok" /\ Redeems(q) => SpentIn(db', req[q].token)
    BY <1>1, <1>3, <2>1, <2>2, AdvancesKeeps DEF Answered
  <2>6. ASSUME pc[q] = "err", Issues(q) PROVE db'.tokens[req[q].token] = NoRow
    <3>1. db.tokens[req[q].token] = NoRow /\ req[q].token \in Tokens
      BY <2>1, <2>2, <2>6 DEF Answered
    <3>2. pc[r] = "mailed" => c.token # req[q].token
      BY <1>1, <1>4, <2>6 DEF IsolationInv, DistinctDraws, Issues
    <3>3. d # None
      BY <1>2, <1>3, NobodyIsNone
    <3> QED BY <1>1, <1>2, <3>1, <3>2, <3>3 DEF Isolated
  <2>7. writer # q /\ writer' # q
    BY <1>1, <1>2, NobodyIsNone
  <2>8. /\ pc'[q] = pc[q] /\ view'[q] = view[q] /\ req'[q] = req[q] /\ row'[q] = row[q]
        /\ mailed' = mailed /\ (pc[q] \in {"loaded", "updated"} => row[q] \in User)
    BY <1>2, <2>1 DEF CallOK
  <2> QED BY <2>1, <2>3, <2>4, <2>5, <2>6, <2>7, <2>8 DEF Answered, Redeems, Issues
<1>8. CommittedTokenWasMailed'
  <2> SUFFICES ASSUME NEW t \in Tokens, d.tokens[t] # NoRow
               PROVE  \E m \in mailed :
                        /\ m.token = t
                        /\ m.to = d.tokens[t].email
                        /\ m.link = IF d.tokens[t].type = "SIGNUP"
                                    THEN "/auth/signup/" ELSE "/auth/reset-password/"
    BY <1>2 DEF CommittedTokenWasMailed
  <2>1. CASE db.tokens[t] # NoRow
    <3>1. d.tokens[t].type = db.tokens[t].type /\ d.tokens[t].email = db.tokens[t].email
      BY <1>2, <1>3, <2>1 DEF Advances, TokenAdvances
    <3> QED BY <2>1, <3>1 DEF AnswerInv, CommittedTokenWasMailed
  <2>2. CASE db.tokens[t] = NoRow
    <3>1. pc[r] = "mailed" /\ t = c.token
      BY <1>1, <1>2, <1>3, <2>2, NobodyIsNone DEF Isolated
    <3>2. MailOf(c) \in mailed /\ IssuedIn(d, c)
      BY <1>1, <3>1 DEF Answered
    <3> QED BY <1>4, <3>1, <3>2 DEF MailOf, IssuedIn, IssuedType, WriteOps
  <2> QED BY <2>1, <2>2
<1>9. CacheAgrees'
  BY <1>2, <1>3 DEF AnswerInv, CacheAgrees, Advances, UserAdvances
<1>10. LinkWorksOnce'
  <2>1. ASSUME NEW q \in Requests \ {r}, pc[q] = "ok", Redeems(q), Redeems(r)
        PROVE  req[q].token # c.token
    <3>1. SpentIn(db, req[q].token)
      BY <2>1 DEF AnswerInv, Answered
    <3>2. Live(db, RedeemedType(c.op), c.token)
      BY <1>1, <1>4, <1>5, <2>1 DEF Answered, Redeems
    <3> QED BY <3>1, <3>2 DEF SpentIn, Live
  <2> QED BY <1>2, <2>1 DEF AnswerInv, LinkWorksOnce, Redeems
<1> QED BY <1>6, <1>7, <1>8, <1>9, <1>10 DEF AnswerInv

LEMMA CommonAnswered ==
    ASSUME TypeInv, IsolationInv, AnswerInv, NEW r \in Requests,
           Call(r) \/ Lock(r) \/ Return(r) \/ Abort(r) \/ Busy(r)
    PROVE  AnswerInv'
<1>1. CallOK(r) /\ Answered(r)
  BY DEF TypeInv, CallsOK, AnswerInv
<1>2. ASSUME NEW step \in {"idle", "called", "locked"}, Goto(r, step),
             UNCHANGED <<db, writer, view, cache, mailed>>,
             pc[r] \in {"idle", "called", "ok", "err"},
             \A q \in Requests \ {r} : req'[q] = req[q] /\ row'[q] = row[q]
      PROVE  AnswerInv'
  <2>1. pc'[r] = step /\ \A q \in Requests \ {r} : pc'[q] = pc[q]
    BY <1>2 DEF Goto, TypeInv, TypeOK
  <2>2. Answered(r)'
    BY <1>1, <1>2, <2>1 DEF Answered
  <2> QED BY <1>2, <2>1, <2>2, StepAnswered
<1>3. CASE Call(r)
  BY <1>2, <1>3 DEF Call, storage, TypeInv, TypeOK
<1>4. CASE Lock(r)
  BY <1>2, <1>4 DEF Lock, LockMutex
<1>5. CASE Return(r)
  BY <1>2, <1>5 DEF Return, storage, TypeInv, TypeOK
<1>6. CASE Abort(r) \/ Busy(r)
  <2>1. Fail(r) /\ (pc[r] \in {"called", "locked", "began", "staged", "mailed"} \/ ~ Issues(r))
    <3>1. (RedeemOps \cup {"ResetPasswordToken", "ChangePassword"}) \cap WriteOps = {}
      BY DEF RedeemOps, WriteOps
    <3> QED BY <1>1, <1>6, <3>1 DEF Abort, Busy, At, Answered, CallOK, Issues, Redeems
  <2> QED BY <2>1, FailAnswered
<1> QED BY <1>3, <1>4, <1>5, <1>6

LEMMA AnswerInit == Init => AnswerInv
BY NobodyIsNone
   DEF Init, StorageInit, EmptyContent, AnswerInv, Answered, CommittedTokenWasMailed,
       CacheAgrees, LinkWorksOnce

LEMMA AnswerNext ==
    TypeInv /\ IsolationInv /\ ContentInv /\ AnswerInv /\ [Next]_vars => AnswerInv'
<1> SUFFICES ASSUME TypeInv, IsolationInv, ContentInv, AnswerInv, [Next]_vars
             PROVE  AnswerInv'
  OBVIOUS
<1>1. CASE UNCHANGED vars
  BY <1>1 DEF vars, storage, AnswerInv, Answered, CommittedTokenWasMailed, CacheAgrees,
              LinkWorksOnce, Redeems, Issues
<1>2. CASE Tick
  BY <1>2 DEF Tick, storage, AnswerInv, Answered, CommittedTokenWasMailed, CacheAgrees,
              LinkWorksOnce, Redeems, Issues
<1>3. CASE Crash
  BY <1>3, NobodyIsNone
     DEF Crash, Restart, AnswerInv, Answered, CommittedTokenWasMailed, CacheAgrees,
         LinkWorksOnce
<1>4. ASSUME NEW r \in Requests, Call(r) \/ Lock(r) \/ Progress(r) \/ Abort(r)
      PROVE  AnswerInv'
  BY <1>4, WriteAnswered, SendAnswered, ReadAnswered, RedeemAnswered, CommitAnswered,
     CommonAnswered DEF Progress
<1> QED BY <1>1, <1>2, <1>3, <1>4 DEF Next

LEMMA AnswerInvariant == Spec => []AnswerInv
BY TypeInvInit, TypeInvNext, IsolationInit, IsolationNext, ContentInvInit,
   ContentInvNext, AnswerInit, AnswerNext, PTL DEF Spec

\* No token is ever in the database that its owner was not mailed, behind the
\* link that redeems it, although the mail is sent inside a transaction that
\* may still fail (user.go:156, 203, 288).
THEOREM TokensAreMailed == Spec => []CommittedTokenWasMailed
<1>1. AnswerInv => CommittedTokenWasMailed
  BY DEF AnswerInv
<1> QED BY <1>1, AnswerInvariant, PTL

\* The cache, filled from transactions that may fail and never corrected, only
\* ever repeats the database (user.go:243, 359, 411, 426).
THEOREM CacheTellsTheTruth == Spec => []CacheAgrees
<1>1. AnswerInv => CacheAgrees
  BY DEF AnswerInv
<1> QED BY <1>1, AnswerInvariant, PTL

\* A call that issues a link and answers nil left its token in the database,
\* one that answers an error left no trace of it, and a redemption that answers
\* nil killed its token and has a verified account (storage.go:117-132).
THEOREM AnswersAreTrue == Spec => []AnswerMatchesDatabase
<1>1. AnswerInv => AnswerMatchesDatabase
  BY DEF AnswerInv, Answered, AnswerMatchesDatabase, IssuedIn, SpentIn, Redeems, Issues
<1> QED BY <1>1, AnswerInvariant, PTL

\* However many requests follow one link at the same time, at most one is told
\* that it worked (user.go:222-239, 377-407).
THEOREM LinksWorkOnce == Spec => []LinkWorksOnce
<1>1. AnswerInv => LinkWorksOnce
  BY DEF AnswerInv
<1> QED BY <1>1, AnswerInvariant, PTL

----------------------------------------------------------------------------
\* What a commit does to the accounts.  EffectInv says which content the
\* writer has made of the database, which nobody else can change meanwhile.

Writing == {"began", "staged", "mailed", "updated", "finished"}

\* The statements of the calls that issue a link: d2 is d1 with a new token.
IssueIn(d, c, type, x) ==
    CreateToken(DeleteTokensByEmail(d, type, c.email), c.token, type, c.email, x)

Issuing(d1, d2, c) == \E x \in Nat :
    \/ /\ c.op = "Signup"
       /\ d1.users[c.email] = NoRow
       /\ d2 = IssueIn(CreateUser(d1, c.email, c.name, c.password), c, "SIGNUP", x)
    \/ /\ c.op = "ResendSignupToken"
       /\ d1.users[c.email] # NoRow /\ ~ d1.users[c.email].verified
       /\ d2 = IssueIn(d1, c, "SIGNUP", x)
    \/ /\ c.op = "ResetPassword"
       /\ d1.users[c.email] # NoRow /\ d1.users[c.email].verified
       /\ d2 = IssueIn(d1, c, "PASSWORD", x)

\* The UPDATE of the others, for the account e.
UpdateOf(d, c, e) ==
    IF c.op = "ValidateSignupToken" THEN SetUserIsVerified(d, e)
    ELSE UpdateUserPassword(d, e, c.password)

\* The call c may update the account e of d.
MayUpdate(d, c, e) ==
    /\ e \in Emails
    /\ d.users[e] # NoRow
    /\ c.op \in RedeemOps \cup {"ChangePassword"}
    /\ c.op # "ValidateSignupToken" => c.password \in Passwords
    /\ c.op = "ChangePassword" => c.email = e
    /\ c.op \in RedeemOps =>
            /\ c.token \in Tokens
            /\ d.tokens[c.token].email = e
            /\ d.tokens[c.token].expiresAt >= c.at

Effect(r) ==
    /\ pc[r] \in Writing => writer = r
    /\ pc[r] = "began" => view[r] = db
    /\ pc[r] \in {"staged", "mailed"} => Issuing(db, view[r], req[r])
    /\ pc[r] = "selected" /\ Redeems(r) =>
            view[r].tokens[req[r].token].expiresAt >= req[r].at
    /\ pc[r] \in {"updated", "finished"} => MayUpdate(db, req[r], row[r].email)
    /\ pc[r] = "updated" => view[r] = UpdateOf(db, req[r], row[r].email)
    /\ pc[r] = "finished" =>
            view[r] = DeleteRedeemed(UpdateOf(db, req[r], row[r].email),
                                     req[r].op, row[r].email)

EffectInv == \A r \in Requests : Effect(r)

\* A step of r that commits nothing.
LEMMA StepEffect ==
    ASSUME EffectInv, NEW r \in Requests, db' = db, Effect(r)',
           \A q \in Requests \ {r} : /\ pc'[q] = pc[q] /\ req'[q] = req[q]
                                     /\ row'[q] = row[q] /\ view'[q] = view[q]
                                     /\ writer = q => writer' = q
    PROVE  EffectInv'
<1> SUFFICES ASSUME NEW q \in Requests \ {r} PROVE Effect(q)'
  BY DEF EffectInv
<1>1. Effect(q)
  BY DEF EffectInv
<1> QED BY <1>1 DEF Effect, Redeems

\* A step after which r neither writes nor has a snapshot.
LEMMA EndEffect ==
    ASSUME TypeInv, EffectInv, NEW r \in Requests, db' = db,
           NEW step \in {"idle", "called", "locked", "loaded", "ok", "err"}, Goto(r, step),
           \A q \in Requests \ {r} : /\ req'[q] = req[q] /\ row'[q] = row[q]
                                     /\ view'[q] = view[q] /\ (writer = q => writer' = q)
    PROVE  EffectInv'
<1>1. pc'[r] = step /\ \A q \in Requests \ {r} : pc'[q] = pc[q]
  BY DEF Goto, TypeInv, TypeOK
<1>2. Effect(r)'
  BY <1>1 DEF Effect, Writing
<1> QED BY <1>1, <1>2, StepEffect

LEMMA RollbackEffect ==
    ASSUME TypeInv, EffectInv, NEW r \in Requests, NEW step \in {"ok", "err"},
           Rollback(r), Goto(r, step), UNCHANGED <<req, row>>
    PROVE  EffectInv'
BY EndEffect DEF Rollback, Release, TypeInv, TypeOK

LEMMA StageEffect ==
    ASSUME TypeInv, EffectInv, NEW r \in Requests, NEW content,
           NEW step \in {"began", "staged", "updated", "finished"},
           Stage(r, content, step), \A q \in Requests \ {r} : row'[q] = row[q],
           step = "began" => content = db,
           step = "staged" => Issuing(db, content, req[r]),
           step \in {"updated", "finished"} => MayUpdate(db, req[r], row'[r].email),
           step = "updated" => content = UpdateOf(db, req[r], row'[r].email),
           step = "finished" =>
                content = DeleteRedeemed(UpdateOf(db, req[r], row'[r].email),
                                         req[r].op, row'[r].email)
    PROVE  EffectInv'
<1>1. /\ db' = db /\ req' = req /\ writer' = r /\ pc'[r] = step /\ view'[r] = content
      /\ writer \in {None, r}
      /\ \A q \in Requests \ {r} : pc'[q] = pc[q] /\ view'[q] = view[q]
  BY DEF Stage, Exec, Goto, MayWrite, TypeInv, TypeOK
<1>2. Effect(r)'
  BY <1>1 DEF Effect
<1> QED BY <1>1, <1>2, NobodyIsNone, StepEffect

LEMMA WriteEffect ==
    ASSUME TypeInv, EffectInv, NEW r \in Requests,
           Begin(r) \/ Signup(r) \/ ResendSignupToken(r) \/ ResetPassword(r)
    PROVE  EffectInv'
<1> DEFINE c == req[r]
<1>1. Effect(r) /\ now + SignupTTL \in Nat /\ now + PasswordTTL \in Nat
  BY ClockAssumption DEF TypeInv, TypeOK, EffectInv
<1>2. CASE Fail(r)
  BY <1>2, RollbackEffect DEF Fail
<1>3. CASE Begin(r)
  BY <1>3, StageEffect DEF Begin
<1>4. ASSUME NEW content, Stage(r, content, "staged"), Issuing(db, content, c), row' = row
      PROVE  EffectInv'
  BY <1>4, StageEffect
<1>5. pc[r] = "began" => view[r] = db
  BY <1>1 DEF Effect
<1>6. \A d : /\ ReplaceSignupToken(d, c) = IssueIn(d, c, "SIGNUP", now + SignupTTL)
             /\ ReplacePasswordToken(d, c) = IssueIn(d, c, "PASSWORD", now + PasswordTTL)
  BY DEF ReplaceSignupToken, ReplacePasswordToken, DeleteSignupTokensByEmail,
         DeletePasswordTokensByEmail, IssueIn
<1>7. CASE Signup(r)
  <2> DEFINE d2 == ReplaceSignupToken(CreateUser(db, c.email, c.name, c.password), c)
  <2>1. c.op = "Signup" /\ view[r] = db
    BY <1>5, <1>7 DEF Signup, At
  <2>2. GetUser(db, c.email) = NoRow => Issuing(db, d2, c)
    BY <1>1, <1>6, <2>1 DEF Issuing, GetUser
  <2> QED BY <1>2, <1>4, <1>7, <2>1, <2>2 DEF Signup
<1>8. CASE ResendSignupToken(r)
  <2>1. c.op = "ResendSignupToken" /\ view[r] = db
    BY <1>5, <1>8 DEF ResendSignupToken, At
  <2>2. MayResend(db, c.email) => Issuing(db, ReplaceSignupToken(db, c), c)
    BY <1>1, <1>6, <2>1 DEF Issuing, MayResend, GetUser
  <2> QED BY <1>2, <1>4, <1>8, <2>1, <2>2 DEF ResendSignupToken
<1>9. CASE ResetPassword(r)
  <2>1. c.op = "ResetPassword" /\ view[r] = db
    BY <1>5, <1>9 DEF ResetPassword, At
  <2>2. GetUser(db, c.email) # NoRow /\ GetUser(db, c.email).verified
            => Issuing(db, ReplacePasswordToken(db, c), c)
    BY <1>1, <1>6, <2>1 DEF Issuing, GetUser
  <2> QED BY <1>2, <1>4, <1>9, <2>1, <2>2 DEF ResetPassword
<1> QED BY <1>3, <1>7, <1>8, <1>9

LEMMA RedeemEffect ==
    ASSUME TypeInv, IsolationInv, ContentInv, AnswerInv, EffectInv, NEW r \in Requests,
           \/ SelectToken(r) \/ ResetPasswordToken(r) \/ ValidateSignupToken(r)
           \/ ChangePassword(r) \/ ChangePasswordWithToken(r) \/ Finish(r)
    PROVE  EffectInv'
<1> DEFINE c == req[r]
<1>1. /\ CallOK(r) /\ Effect(r) /\ db \in Content /\ Keyed(db)
      /\ "ChangePassword" \notin RedeemOps
  BY DEF TypeInv, CallsOK, EffectInv, TypeOK, ContentInv, Consistent, RedeemOps
<1>2. CASE Fail(r)
  BY <1>2, RollbackEffect DEF Fail
<1>3. CASE ResetPasswordToken(r)
  BY <1>3, RollbackEffect DEF ResetPasswordToken
<1>4. CASE SelectToken(r) /\ ~ Fail(r)
  <2>1. /\ view' = [view EXCEPT ![r] = db] /\ pc' = [pc EXCEPT ![r] = "selected"]
        /\ UNCHANGED <<db, writer, req, row>>
        /\ db.tokens[c.token].expiresAt >= c.at
    BY <1>4 DEF SelectToken, Snapshot, Goto, GetSignupTokenNotExpired,
                GetPasswordTokenNotExpired
  <2>2. /\ pc'[r] = "selected" /\ view'[r] = db
        /\ \A q \in Requests \ {r} : pc'[q] = pc[q] /\ view'[q] = view[q]
    BY <2>1 DEF TypeInv, TypeOK
  <2>3. Effect(r)'
    BY <2>1, <2>2 DEF Effect, Writing
  <2> QED BY <2>1, <2>2, <2>3, StepEffect
<1>5. ASSUME NEW d, NEW d2, NEW e, UpdateReturning(r, d, d2, e),
             MayWrite(r) /\ GetUser(d, e) # NoRow =>
                d = db /\ d2 = UpdateOf(db, c, e) /\ MayUpdate(db, c, e)
      PROVE  EffectInv'
  <2>1. CASE /\ GetUser(d, e) # NoRow
             /\ row' = [row EXCEPT ![r] = GetUser(d2, e)]
             /\ Stage(r, d2, "updated")
    <3>1. row'[r] = GetUser(d2, e) /\ (\A q \in Requests \ {r} : row'[q] = row[q])
          /\ MayWrite(r)
      BY <2>1 DEF TypeInv, TypeOK, Stage, Exec
    <3>2. d2 = UpdateOf(db, c, e) /\ MayUpdate(db, c, e)
      BY <1>5, <2>1, <3>1
    <3>3. db.users[e].email = e
      BY <1>1, <3>2 DEF MayUpdate, Keyed
    <3>4. GetUser(d2, e).email = e
      BY <1>1, <3>2, <3>3, SetUserIsVerifiedEffect, UpdateUserPasswordEffect
         DEF MayUpdate, UpdateOf, GetUser
    <3> QED BY <2>1, <3>1, <3>2, <3>4, StageEffect
  <2> QED BY <1>2, <1>5, <2>1 DEF UpdateReturning
<1>6. pc[r] = "selected" /\ MayWrite(r) =>
        /\ view[r] = db /\ c.token \in Tokens
        /\ TokenEmail(r) \in Emails /\ db.tokens[c.token].email = TokenEmail(r)
        /\ Redeems(r) => db.tokens[c.token].expiresAt >= c.at
        /\ c.op = "ChangePasswordWithToken" => c.password \in Passwords
  BY <1>1, SelectedIsCurrent, CallFields DEF Effect, CallOK, TokenOps, TokenEmail, Token
<1>7. CASE ValidateSignupToken(r)
  <2>1. pc[r] = "selected" /\ c.op = "ValidateSignupToken" /\ Redeems(r)
    BY <1>7 DEF ValidateSignupToken, At, Redeems, RedeemOps
  <2> QED BY <1>5, <1>6, <1>7, <2>1
          DEF ValidateSignupToken, UpdateOf, MayUpdate, GetUser, Redeems
<1>8. CASE ChangePassword(r)
  <2>1. c.op = "ChangePassword" /\ c.email \in Emails /\ c.password \in Passwords
    BY <1>1, <1>8, CallFields DEF ChangePassword, At, CallOK
  <2> QED BY <1>1, <1>5, <1>8, <2>1 DEF ChangePassword, UpdateOf, MayUpdate, GetUser
<1>9. CASE ChangePasswordWithToken(r)
  <2>1. pc[r] = "selected" /\ c.op = "ChangePasswordWithToken" /\ Redeems(r)
    BY <1>9 DEF ChangePasswordWithToken, At, Redeems, RedeemOps
  <2> QED BY <1>5, <1>6, <1>9, <2>1
          DEF ChangePasswordWithToken, UpdateOf, MayUpdate, GetUser, Redeems
<1>10. CASE Finish(r)
  <2>1. /\ pc[r] = "updated" /\ row' = row
        /\ Stage(r, DeleteRedeemed(view[r], c.op, row[r].email), "finished")
        /\ view[r] = UpdateOf(db, c, row[r].email) /\ MayUpdate(db, c, row[r].email)
    BY <1>1, <1>10 DEF Finish, Effect
  <2> QED BY <2>1, StageEffect
<1> QED BY <1>2, <1>3, <1>4, <1>7, <1>8, <1>9, <1>10

LEMMA OtherEffect ==
    ASSUME TypeInv, EffectInv, NEW r \in Requests,
           \/ Call(r) \/ Lock(r) \/ Return(r) \/ Abort(r) \/ Busy(r)
           \/ SendMail(r) \/ SendMailFails(r)
           \/ GetUserCached(r) \/ GetUserRead(r) \/ SigninRead(r) \/ Loaded(r)
    PROVE  EffectInv'
<1>1. CASE Fail(r)
  BY <1>1, RollbackEffect DEF Fail
<1>2. CASE Abort(r) \/ Busy(r)
  BY <1>1, <1>2 DEF Abort, Busy
<1>3. CASE SendMailFails(r)
  BY <1>3, RollbackEffect DEF SendMailFails
<1>4. CASE SendMail(r)
  <2>1. /\ pc[r] = "staged" /\ pc' = [pc EXCEPT ![r] = "mailed"]
        /\ UNCHANGED <<db, writer, view, req, row>>
    BY <1>4 DEF SendMail, Goto, storage
  <2>2. pc'[r] = "mailed" /\ \A q \in Requests \ {r} : pc'[q] = pc[q]
    BY <2>1 DEF TypeInv, TypeOK
  <2>3. Effect(r)'
    BY <2>1, <2>2 DEF EffectInv, Effect, Writing
  <2> QED BY <2>1, <2>2, <2>3, StepEffect
<1>5. CASE Call(r) \/ Return(r)
  BY <1>5, EndEffect DEF Call, Return, storage, TypeInv, TypeOK
<1>6. CASE Lock(r)
  BY <1>6, EndEffect DEF Lock, LockMutex
<1>7. CASE GetUserCached(r) \/ GetUserRead(r) \/ SigninRead(r) \/ Loaded(r)
  BY <1>1, <1>7, EndEffect
     DEF GetUserCached, GetUserRead, SigninRead, Loaded, storage, TypeInv, TypeOK
<1> QED BY <1>2, <1>3, <1>4, <1>5, <1>6, <1>7

LEMMA CommitEffect ==
    ASSUME TypeInv, EffectInv, NEW r \in Requests, CommitTx(r)
    PROVE  EffectInv'
<1>1. Effect(r) /\ pc[r] \in {"mailed", "finished"} /\ writer = r
  BY DEF EffectInv, CommitTx, Commit
<1>2. /\ UNCHANGED <<req, row>> /\ pc'[r] = "ok"
      /\ \A q \in Requests \ {r} : pc'[q] = pc[q] /\ view'[q] = view[q]
  BY <1>1 DEF CommitTx, Commit, Release, Goto, TypeInv, TypeOK
<1> SUFFICES ASSUME NEW q \in Requests PROVE Effect(q)'
  BY DEF EffectInv
<1>3. CASE q = r
  BY <1>2, <1>3 DEF Effect, Writing
<1>4. CASE q # r
  <2>1. Effect(q) /\ pc[q] \notin Writing
    BY <1>1, <1>4 DEF EffectInv, Effect
  <2> QED BY <1>2, <1>4, <2>1 DEF Effect, Writing, Redeems
<1> QED BY <1>3, <1>4

LEMMA EffectInit == Init => EffectInv
BY DEF Init, EffectInv, Effect, Writing

\* Only commits change the database.
LEMMA EffectNext ==
    ASSUME TypeInv, IsolationInv, ContentInv, AnswerInv, EffectInv, [Next]_vars
    PROVE  EffectInv' /\ (db' # db => \E r \in Requests : CommitTx(r))
<1>1. CASE UNCHANGED vars
  BY <1>1 DEF vars, storage, EffectInv, Effect, Redeems
<1>2. CASE Tick
  BY <1>2 DEF Tick, storage, EffectInv, Effect, Redeems
<1>3. CASE Crash
  BY <1>3 DEF Crash, Restart, EffectInv, Effect, Writing
<1>4. ASSUME NEW r \in Requests, Call(r) \/ Lock(r) \/ Progress(r) \/ Abort(r)
      PROVE  EffectInv' /\ (db' # db => CommitTx(r))
  <2>1. EffectInv'
    BY <1>4, WriteEffect, RedeemEffect, CommitEffect, OtherEffect DEF Progress
  <2>2. ~ CommitTx(r) => db' = db
    BY <1>4
       DEF Progress, Call, Lock, LockMutex, Return, Abort, Busy, Begin, Signup,
           ResendSignupToken, ResetPassword, SendMail, SendMailFails, GetUserCached,
           GetUserRead, SigninRead, Loaded, SelectToken, Snapshot, ResetPasswordToken,
           ValidateSignupToken, ChangePassword, ChangePasswordWithToken,
           UpdateReturning, Finish, Stage, Exec, Fail, Rollback, storage
  <2> QED BY <2>1, <2>2
<1> QED BY <1>1, <1>2, <1>3, <1>4 DEF Next

----------------------------------------------------------------------------
\* What those contents are, seen by clients.

LinkIn(d, t) == [token |-> t, email |-> d.tokens[t].email, type |-> d.tokens[t].type]

\* The links of a content, as UserProperties!Abstract sees them.
Links(d) ==
    {LinkIn(d, t) : t \in {u \in Tokens : d.tokens[u] # NoRow /\ ~ d.tokens[u].deleted}}

LinksTo(d, e, type) == {l \in Links(d) : l.email = e /\ l.type = type}

LEMMA LinksAfterDelete ==
    ASSUME NEW d \in Content, NEW type, NEW e
    PROVE  Links(DeleteTokensByEmail(d, type, e)) = Links(d) \ LinksTo(d, e, type)
<1> DEFINE D == DeleteTokensByEmail(d, type, e)
<1>1. ASSUME NEW t \in Tokens
      PROVE  /\ D.tokens[t] # NoRow <=> d.tokens[t] # NoRow
             /\ d.tokens[t] # NoRow =>
                    /\ LinkIn(D, t) = LinkIn(d, t)
                    /\ D.tokens[t].deleted <=> \/ d.tokens[t].deleted
                                               \/ /\ d.tokens[t].type = type
                                                  /\ d.tokens[t].email = e
  <2>1. D.tokens[t] = IF d.tokens[t] # NoRow /\ d.tokens[t].type = type
                         /\ d.tokens[t].email = e
                      THEN [d.tokens[t] EXCEPT !.deleted = TRUE]
                      ELSE d.tokens[t]
    BY DEF DeleteTokensByEmail, Content
  <2>2. d.tokens[t] = NoRow \/ d.tokens[t] \in Token
    BY DEF Content
  <2>3. ASSUME NEW k \in Token
        PROVE  /\ [k EXCEPT !.deleted = TRUE] \in Token
               /\ [k EXCEPT !.deleted = TRUE].type = k.type
               /\ [k EXCEPT !.deleted = TRUE].email = k.email
               /\ [k EXCEPT !.deleted = TRUE].deleted
    BY DEF Token
  <2> HIDE DEF D
  <2> QED BY <2>1, <2>2, <2>3, RowsAssumption DEF LinkIn
<1> HIDE DEF D
<1>2. \A t \in Tokens : LinkIn(d, t).email = d.tokens[t].email /\ LinkIn(d, t).type = d.tokens[t].type
  BY DEF LinkIn
<1>3. \A l : l \in Links(D) <=>
        \E t \in Tokens : D.tokens[t] # NoRow /\ ~ D.tokens[t].deleted /\ l = LinkIn(D, t)
  BY DEF Links
<1>4. \A l : l \in Links(d) <=>
        \E t \in Tokens : d.tokens[t] # NoRow /\ ~ d.tokens[t].deleted /\ l = LinkIn(d, t)
  BY DEF Links
<1>5. \A t, u \in Tokens : LinkIn(d, t) = LinkIn(d, u) => t = u
  BY DEF LinkIn
<1>6. ASSUME NEW l PROVE l \in Links(D) <=> l \in Links(d) \ LinksTo(d, e, type)
  BY <1>1, <1>2, <1>3, <1>4, <1>5 DEF LinksTo
<1> QED BY <1>6 DEF D

LEMMA LinksAfterCreate ==
    ASSUME NEW d \in Content, NEW t \in Tokens, NEW type \in TokenTypes,
           NEW e \in Emails, NEW x \in Nat, d.tokens[t] = NoRow
    PROVE  Links(CreateToken(d, t, type, e, x))
             = Links(d) \cup {[token |-> t, email |-> e, type |-> type]}
<1> DEFINE k == [type |-> type, email |-> e, expiresAt |-> x, deleted |-> FALSE]
           D == CreateToken(d, t, type, e, x)
<1>1. k \in Token /\ k.type = type /\ k.email = e /\ ~ k.deleted
  BY DEF Token, TokenTypes
<1>2. \A u \in Tokens : D.tokens[u] = IF u = t THEN k ELSE d.tokens[u]
  BY DEF CreateToken, Content
<1> HIDE DEF k, D
<1>3. k # NoRow
  BY <1>1, RowsAssumption
<1>4. LinkIn(D, t) = [token |-> t, email |-> e, type |-> type]
      /\ \A u \in Tokens \ {t} : LinkIn(D, u) = LinkIn(d, u)
  BY <1>1, <1>2 DEF LinkIn
<1>5. \A l : l \in Links(D) <=>
        \E u \in Tokens : D.tokens[u] # NoRow /\ ~ D.tokens[u].deleted /\ l = LinkIn(D, u)
  BY DEF Links
<1>6. \A l : l \in Links(d) <=>
        \E u \in Tokens : d.tokens[u] # NoRow /\ ~ d.tokens[u].deleted /\ l = LinkIn(d, u)
  BY DEF Links
<1>7. ASSUME NEW l
      PROVE  l \in Links(D) <=>
                l \in Links(d) \/ l = [token |-> t, email |-> e, type |-> type]
  BY <1>1, <1>2, <1>3, <1>4, <1>5, <1>6
<1> QED BY <1>7 DEF D

\* The accounts u after the three statements that write them.
Registered(u, c) ==
    [u EXCEPT ![c.email] = [email |-> c.email, name |-> c.name,
                            password |-> c.password, verified |-> FALSE]]
Verified(u, e) == [u EXCEPT ![e].verified = TRUE]
WithPassword(u, e, p) == [u EXCEPT ![e].password = p]

LEMMA LinksOfSameTokens ==
    ASSUME NEW d, NEW d2, d2.tokens = d.tokens
    PROVE  Links(d2) = Links(d)
BY DEF Links, LinkIn

\* The content a call that issues a link commits.
LEMMA IssuingIs ==
    ASSUME NEW d \in Content, NEW d2, NEW c, Issuing(d, d2, c),
           c.email \in Emails, c.token \in Tokens, d.tokens[c.token] = NoRow,
           c.op = "Signup" => c.name \in Names /\ c.password \in Passwords
    PROVE  /\ c.op = "Signup" =>
                /\ d.users[c.email] = NoRow
                /\ d2.users = Registered(d.users, c)
           /\ c.op # "Signup" => d.users[c.email] # NoRow /\ d2.users = d.users
           /\ c.op = "ResendSignupToken" => ~ d.users[c.email].verified
           /\ c.op = "ResetPassword" => d.users[c.email].verified
           /\ c.op \in WriteOps
           /\ Links(d2) = (Links(d) \ LinksTo(d, c.email, IssuedType(c.op)))
                \cup {[token |-> c.token, email |-> c.email, type |-> IssuedType(c.op)]}
<1>1. PICK x \in Nat :
    \/ /\ c.op = "Signup"
       /\ d.users[c.email] = NoRow
       /\ d2 = IssueIn(CreateUser(d, c.email, c.name, c.password), c, "SIGNUP", x)
    \/ /\ c.op = "ResendSignupToken"
       /\ d.users[c.email] # NoRow /\ ~ d.users[c.email].verified
       /\ d2 = IssueIn(d, c, "SIGNUP", x)
    \/ /\ c.op = "ResetPassword"
       /\ d.users[c.email] # NoRow /\ d.users[c.email].verified
       /\ d2 = IssueIn(d, c, "PASSWORD", x)
  BY DEF Issuing
<1>2. ASSUME NEW d1 \in Content, d1.tokens = d.tokens, NEW type \in TokenTypes,
             d2 = IssueIn(d1, c, type, x)
      PROVE  /\ d2.users = d1.users
             /\ Links(d2) = (Links(d) \ LinksTo(d, c.email, type))
                    \cup {[token |-> c.token, email |-> c.email, type |-> type]}
  <2> DEFINE dd == DeleteTokensByEmail(d1, type, c.email)
  <2>1. dd \in Content /\ dd.users = d1.users
    BY DeleteTokensType, TokenQueriesKeepUsers
  <2>2. dd.tokens[c.token] = NoRow
    BY <1>2, DeleteTokensAdvances
  <2>3. Links(dd) = Links(d) \ LinksTo(d, c.email, type)
    BY <1>2, LinksAfterDelete, LinksOfSameTokens DEF LinksTo
  <2> HIDE DEF dd
  <2>4. d2 = CreateToken(dd, c.token, type, c.email, x)
    BY <1>2 DEF IssueIn, dd
  <2> QED BY <2>1, <2>2, <2>3, <2>4, LinksAfterCreate, TokenQueriesKeepUsers
<1>3. CASE c.op = "Signup"
  <2> DEFINE d1 == CreateUser(d, c.email, c.name, c.password)
  <2>1. d1 \in Content
    BY <1>3, CreateUserType
  <2>2. d1.tokens = d.tokens
        /\ d1.users = Registered(d.users, c)
    BY DEF CreateUser, Content, Registered
  <2>3. d.users[c.email] = NoRow /\ d2 = IssueIn(d1, c, "SIGNUP", x)
    BY <1>1, <1>3
  <2> HIDE DEF d1
  <2> QED BY <1>2, <1>3, <2>1, <2>2, <2>3 DEF IssuedType, TokenTypes, WriteOps
<1>4. CASE c.op # "Signup"
  BY <1>1, <1>2, <1>4 DEF IssuedType, TokenTypes, WriteOps
<1> QED BY <1>3, <1>4

\* The content a call that updates an account commits.
LEMMA UpdatingIs ==
    ASSUME NEW d \in Content, NEW c, NEW e, MayUpdate(d, c, e), NEW d2,
           d2 = DeleteRedeemed(UpdateOf(d, c, e), c.op, e)
    PROVE  /\ d2.users = IF c.op = "ValidateSignupToken" THEN Verified(d.users, e)
                         ELSE WithPassword(d.users, e, c.password)
           /\ c.op \in RedeemOps =>
                /\ Links(d2) = Links(d) \ LinksTo(d, e, RedeemedType(c.op))
                /\ LiveTokens(d2, RedeemedType(c.op), e) = {}
           /\ c.op \notin RedeemOps => Links(d2) = Links(d)
<1> DEFINE d1 == UpdateOf(d, c, e)
<1>1. d1 \in Content
  BY SetUserIsVerifiedType, UpdateUserPasswordType DEF MayUpdate, UpdateOf, GetUser
<1>2. /\ d1.tokens = d.tokens
      /\ d1.users = IF c.op = "ValidateSignupToken" THEN Verified(d.users, e)
                    ELSE WithPassword(d.users, e, c.password)
  BY DEF UpdateOf, SetUserIsVerified, UpdateUserPassword, Content, Verified, WithPassword
<1>3. d2 = DeleteRedeemed(d1, c.op, e)
  OBVIOUS
<1> HIDE DEF d1
<1>4. CASE c.op \in RedeemOps
  <2>1. d2 = DeleteTokensByEmail(d1, RedeemedType(c.op), e)
    BY <1>3, <1>4 DEF DeleteRedeemed, RedeemOps, RedeemedType, DeleteSignupTokensByEmail,
                      DeletePasswordTokensByEmail
  <2>2. Links(d1) = Links(d) /\ LinksTo(d1, e, RedeemedType(c.op)) = LinksTo(d, e, RedeemedType(c.op))
    BY <1>2, LinksOfSameTokens DEF LinksTo
  <2> QED BY <1>1, <1>2, <1>4, <2>1, <2>2, LinksAfterDelete, LiveAfterDelete,
             TokenQueriesKeepUsers
<1>5. CASE c.op \notin RedeemOps
  <2>1. d2 = d1
    BY <1>3, <1>5 DEF DeleteRedeemed, RedeemOps
  <2> QED BY <1>2, <1>5, <2>1, LinksOfSameTokens
<1> QED BY <1>4, <1>5

----------------------------------------------------------------------------
\* The commits.

AllInv == TypeInv /\ IsolationInv /\ ContentInv /\ AnswerInv /\ EffectInv

\* What a commit has to work with.
LEMMA CommitIs ==
    ASSUME AllInv, NEW r \in Requests, CommitTx(r)
    PROVE  LET c == req[r]
               e == row[r].email
           IN  /\ Commits(r)
               /\ \/ /\ Issuing(db, db', c)
                     /\ c.email \in Emails /\ c.token \in Tokens
                     /\ db.tokens[c.token] = NoRow
                     /\ c.op = "Signup" => c.name \in Names /\ c.password \in Passwords
                  \/ /\ MayUpdate(db, c, e)
                     /\ db' = DeleteRedeemed(UpdateOf(db, c, e), c.op, e)
                     /\ c.op \in RedeemOps => Live(db, RedeemedType(c.op), c.token)
<1>1. /\ CallOK(r) /\ Effect(r) /\ Answered(r) /\ Isolated(r)
      /\ pc[r] \in {"mailed", "finished"}
  BY DEF AllInv, TypeInv, CallsOK, EffectInv, AnswerInv, IsolationInv, CommitTx
<1>2. db' = view[r] /\ pc'[r] = "ok"
  BY DEF CommitTx, Commit, Goto, AllInv, TypeInv, TypeOK
<1>3. CASE pc[r] = "mailed"
  <2>1. req[r] \in Calls(Nat) /\ req[r].op \in WriteOps /\ db.tokens[req[r].token] = NoRow
    BY <1>1, <1>3 DEF CallOK, Isolated
  <2> QED BY <1>1, <1>2, <1>3, <2>1, CallFields DEF Effect, Commits, TokenOps
<1>4. CASE pc[r] = "finished"
  BY <1>1, <1>2, <1>4 DEF Effect, Answered, Redeems, Commits
<1> QED BY <1>1, <1>3, <1>4

\* A redemption spends the token of the account it updates.
LEMMA CommitSpends ==
    ASSUME AllInv, NEW r \in Requests, CommitTx(r), req[r].op \in RedeemOps
    PROVE  Spends(r, req[r].op, RedeemedType(req[r].op), row[r].email)
<1> DEFINE c == req[r]
           e == row[r].email
           type == RedeemedType(c.op)
<1>1. db \in Content /\ ~ Issuing(db, db', c)
  BY DEF AllInv, TypeInv, TypeOK, Issuing, RedeemOps
<1>2. /\ MayUpdate(db, c, e)
      /\ db' = DeleteRedeemed(UpdateOf(db, c, e), c.op, e)
      /\ Live(db, type, c.token)
  BY <1>1, CommitIs
<1>3. LiveTokens(db', type, e) = {}
  BY <1>1, <1>2, UpdatingIs
<1>4. c.token \in LiveTokens(db, type, e) /\ db.tokens[c.token].expiresAt >= c.at
  BY <1>2 DEF MayUpdate, LiveTokens
<1> QED BY <1>3, <1>4 DEF Spends

\* Which accounts a commit verifies, and whose password it changes.
LEMMA CommitChanges ==
    ASSUME AllInv, NEW r \in Requests, CommitTx(r), NEW e \in Emails,
           db.users[e] # NoRow
    PROVE  /\ ~ db.users[e].verified /\ db'.users[e].verified =>
                req[r].op = "ValidateSignupToken" /\ e = row[r].email
           /\ db.users[e].password # db'.users[e].password =>
                /\ req[r].op \in {"ChangePassword", "ChangePasswordWithToken"}
                /\ e = row[r].email
                /\ db'.users[e].password = req[r].password
                /\ req[r].op = "ChangePassword" => req[r].email = e
<1> DEFINE c == req[r]
           f == row[r].email
<1>1. db \in Content /\ db.users[e] \in User
  BY DEF AllInv, TypeInv, TypeOK, Content
<1>2. CASE Issuing(db, db', c) /\ c.email \in Emails /\ c.token \in Tokens
             /\ db.tokens[c.token] = NoRow
             /\ (c.op = "Signup" => c.name \in Names /\ c.password \in Passwords)
  <2>1. db'.users[e] = db.users[e]
    <3>1. /\ c.op = "Signup" => db.users[c.email] = NoRow /\ db'.users = Registered(db.users, c)
          /\ c.op # "Signup" => db'.users = db.users
      BY <1>1, <1>2, IssuingIs
    <3> QED BY <1>1, <3>1 DEF Registered, Content
  <2> QED BY <2>1
<1>3. CASE MayUpdate(db, c, f) /\ db' = DeleteRedeemed(UpdateOf(db, c, f), c.op, f)
  <2>1. db'.users = IF c.op = "ValidateSignupToken" THEN Verified(db.users, f)
                    ELSE WithPassword(db.users, f, c.password)
    BY <1>1, <1>3, UpdatingIs
  <2>2. c.op \in {"ValidateSignupToken", "ChangePassword", "ChangePasswordWithToken"}
        /\ (c.op = "ChangePassword" => c.email = f)
    BY <1>3 DEF MayUpdate, RedeemOps
  <2>3. CASE e # f
    <3>1. db'.users[e] = db.users[e]
      BY <1>1, <2>1, <2>3 DEF Content, Verified, WithPassword
    <3> QED BY <3>1
  <2>4. CASE e = f /\ c.op = "ValidateSignupToken"
    <3>1. db'.users[e].password = db.users[e].password
      BY <1>1, <2>1, <2>4 DEF Content, User, Verified
    <3> QED BY <2>4, <3>1
  <2>5. CASE e = f /\ c.op # "ValidateSignupToken"
    <3>1. /\ db'.users[e].password = c.password
          /\ db'.users[e].verified = db.users[e].verified
      BY <1>1, <2>1, <2>5 DEF Content, User, WithPassword
    <3> QED BY <2>2, <2>5, <3>1
  <2> QED BY <2>3, <2>4, <2>5
<1> QED BY <1>2, <1>3, CommitIs

LEMMA AllInvariant == Spec => []AllInv
<1>1. Init => AllInv
  BY TypeInvInit, IsolationInit, ContentInvInit, AnswerInit, EffectInit DEF AllInv
<1>2. AllInv /\ [Next]_vars => AllInv'
  BY TypeInvNext, IsolationNext, ContentInvNext, AnswerNext, EffectNext DEF AllInv
<1> QED BY <1>1, <1>2, PTL DEF Spec

\* What the database's steps may do to accounts.
LEMMA VerifyingStep ==
    ASSUME AllInv, [Next]_vars
    PROVE  [\A e \in Emails : Verifies(e) =>
                \E r \in Requests :
                    Commits(r) /\ Spends(r, "ValidateSignupToken", "SIGNUP", e)]_db
<1> SUFFICES ASSUME db' # db, NEW e \in Emails, Verifies(e)
             PROVE  \E r \in Requests :
                        Commits(r) /\ Spends(r, "ValidateSignupToken", "SIGNUP", e)
  OBVIOUS
<1>1. PICK r \in Requests : CommitTx(r)
  BY EffectNext DEF AllInv
<1>2. req[r].op = "ValidateSignupToken" /\ e = row[r].email
  BY <1>1, CommitChanges DEF Verifies
<1>3. Spends(r, "ValidateSignupToken", "SIGNUP", e)
  BY <1>1, <1>2, CommitSpends DEF RedeemOps, RedeemedType
<1> QED BY <1>1, <1>3, CommitIs

LEMMA PasswordStep ==
    ASSUME AllInv, [Next]_vars
    PROVE  [\A e \in Emails : ChangesPassword(e) =>
                \E r \in Requests :
                    /\ Commits(r)
                    /\ db'.users[e].password = req[r].password
                    /\ \/ req[r].op = "ChangePassword" /\ req[r].email = e
                       \/ Spends(r, "ChangePasswordWithToken", "PASSWORD", e)]_db
<1> SUFFICES ASSUME db' # db, NEW e \in Emails, ChangesPassword(e)
             PROVE  \E r \in Requests :
                        /\ Commits(r)
                        /\ db'.users[e].password = req[r].password
                        /\ \/ req[r].op = "ChangePassword" /\ req[r].email = e
                           \/ Spends(r, "ChangePasswordWithToken", "PASSWORD", e)
  OBVIOUS
<1>1. PICK r \in Requests : CommitTx(r)
  BY EffectNext DEF AllInv
<1>2. /\ req[r].op \in {"ChangePassword", "ChangePasswordWithToken"}
      /\ e = row[r].email
      /\ db'.users[e].password = req[r].password
      /\ req[r].op = "ChangePassword" => req[r].email = e
  BY <1>1, CommitChanges DEF ChangesPassword
<1>3. req[r].op = "ChangePasswordWithToken" =>
          Spends(r, "ChangePasswordWithToken", "PASSWORD", e)
  BY <1>1, <1>2, CommitSpends DEF RedeemOps, RedeemedType
<1> QED BY <1>1, <1>2, <1>3, CommitIs

\* However the requests interleave, an account is verified only by the commit
\* of a request whose confirmation link still works at that very moment, and
\* with that commit stops working (user.go:221-239).
THEOREM OnlyLinksVerify == Spec => VerifiedOnlyByItsToken
BY VerifyingStep, AllInvariant, PTL DEF Spec, VerifiedOnlyByItsToken

\* A password changes only by the commit of a ChangePassword for that email, or
\* of a request whose reset link still works at that moment, however long the
\* password was being hashed (user.go:346, 376-407).
THEOREM OnlyOwnersChangePasswords == Spec => PasswordOnlyChangedByOwner
BY PasswordStep, AllInvariant, PTL DEF Spec, PasswordOnlyChangedByOwner

----------------------------------------------------------------------------
\* The refinement.

LEMMA AbstractLinks ==
    /\ {LinkOf(t) : t \in {u \in Tokens : db.tokens[u] # NoRow
                                          /\ ~ db.tokens[u].deleted}} = Links(db)
    /\ {LinkOf(t) : t \in {u \in Tokens : db.tokens[u] # NoRow
                                          /\ ~ db.tokens[u].deleted}}' = Links(db')
BY DEF LinkOf, Links, LinkIn

\* A commit is one step of Accounts.
LEMMA CommitImplements ==
    ASSUME AllInv, NEW r \in Requests, CommitTx(r)
    PROVE  Abstract!Next
<1>c. PICK c : c = req[r]
  OBVIOUS
<1>e. PICK e : e = row[r].email
  OBVIOUS
<1> DEFINE links == {LinkOf(t) : t \in {u \in Tokens : db.tokens[u] # NoRow
                                                       /\ ~ db.tokens[u].deleted}}
<1>1. db \in Content /\ links = Links(db) /\ links' = Links(db')
  BY AbstractLinks DEF AllInv, TypeInv, TypeOK
<1>2. ASSUME NEW e1, NEW type
      PROVE  Abstract!LinksOf(e1, type) = LinksTo(db, e1, type)
  BY <1>1 DEF Abstract!LinksOf, LinksTo
<1> HIDE DEF links
<1>3. CASE /\ Issuing(db, db', c)
           /\ c.email \in Emails /\ c.token \in Tokens
           /\ db.tokens[c.token] = NoRow
           /\ c.op = "Signup" => c.name \in Names /\ c.password \in Passwords
  <2>1. /\ c.op = "Signup" =>
              /\ db.users[c.email] = NoRow
              /\ db'.users = Registered(db.users, c)
        /\ c.op # "Signup" => db.users[c.email] # NoRow /\ db'.users = db.users
        /\ c.op = "ResendSignupToken" => ~ db.users[c.email].verified
        /\ c.op = "ResetPassword" => db.users[c.email].verified
        /\ c.op \in WriteOps
        /\ Links(db') = (Links(db) \ LinksTo(db, c.email, IssuedType(c.op)))
             \cup {[token |-> c.token, email |-> c.email, type |-> IssuedType(c.op)]}
    BY <1>1, <1>3, IssuingIs
  <2>2. PICK t \in Tokens, f \in Emails : t = c.token /\ f = c.email
    BY <1>3
  <2>3. \A type \in {"SIGNUP", "PASSWORD"} : type = IssuedType(c.op) => Abstract!Issue(t, f, type)
    BY <1>1, <1>2, <2>1, <2>2 DEF Abstract!Issue, links
  <2>4. CASE c.op = "Signup"
    <3>1. PICK n \in Names, p \in Passwords : n = c.name /\ p = c.password
      BY <1>3, <2>4
    <3>2. Abstract!Issue(t, f, "SIGNUP")
      BY <2>3, <2>4 DEF IssuedType
    <3>3. Abstract!Register(f, n, p, t)
      BY <2>1, <2>2, <2>4, <3>1, <3>2 DEF Abstract!Register, Registered
    <3> QED BY <3>3 DEF Abstract!Next
  <2>5. CASE c.op = "ResendSignupToken"
    <3>1. Abstract!Issue(t, f, "SIGNUP")
      BY <2>3, <2>5 DEF IssuedType
    <3>2. Abstract!Reissue(f, t)
      BY <2>1, <2>2, <2>5, <3>1 DEF Abstract!Reissue
    <3> QED BY <3>2 DEF Abstract!Next
  <2>6. CASE c.op = "ResetPassword"
    <3>1. Abstract!Issue(t, f, "PASSWORD")
      BY <2>3, <2>6 DEF IssuedType
    <3>2. Abstract!RequestReset(f, t)
      BY <2>1, <2>2, <2>6, <3>1 DEF Abstract!RequestReset
    <3> QED BY <3>2 DEF Abstract!Next
  <2> QED BY <2>1, <2>4, <2>5, <2>6 DEF WriteOps
<1>4. CASE /\ MayUpdate(db, c, e)
           /\ db' = DeleteRedeemed(UpdateOf(db, c, e), c.op, e)
           /\ c.op \in RedeemOps => Live(db, RedeemedType(c.op), c.token)
  <2>0. PICK l : l = LinkIn(db, c.token)
    OBVIOUS
  <2>1. /\ db'.users = IF c.op = "ValidateSignupToken" THEN Verified(db.users, e)
                       ELSE WithPassword(db.users, e, c.password)
        /\ c.op \in RedeemOps =>
                Links(db') = Links(db) \ LinksTo(db, e, RedeemedType(c.op))
        /\ c.op \notin RedeemOps => Links(db') = Links(db)
    BY <1>1, <1>4, UpdatingIs
  <2>2. c.op \in RedeemOps =>
            /\ l \in Links(db) /\ l.email = e /\ l.type = RedeemedType(c.op)
            /\ Abstract!Redeem(l)
    <3>1. c.op \in RedeemOps =>
            l \in Links(db) /\ l.email = e /\ l.type = RedeemedType(c.op)
      BY <1>4, <2>0 DEF MayUpdate, Live, Links, LinkIn
    <3> QED BY <1>1, <1>2, <2>1, <3>1 DEF Abstract!Redeem, links
  <2>3. CASE c.op = "ValidateSignupToken"
    <3>1. Abstract!Confirm(l) /\ l \in links
      BY <1>1, <2>1, <2>2, <2>3 DEF Abstract!Confirm, RedeemOps, RedeemedType, Verified
    <3> QED BY <3>1 DEF Abstract!Next, links
  <2>4. CASE c.op = "ChangePasswordWithToken"
    <3>0. PICK p \in Passwords : p = c.password
      BY <1>4, <2>4 DEF MayUpdate
    <3>1. Abstract!ResetWithLink(l, p) /\ l \in links
      BY <1>1, <2>1, <2>2, <2>4, <3>0
         DEF Abstract!ResetWithLink, RedeemOps, RedeemedType, MayUpdate, WithPassword
    <3> QED BY <3>1 DEF Abstract!Next, links
  <2>5. CASE c.op = "ChangePassword"
    <3>0. PICK p \in Passwords : p = c.password
      BY <1>4, <2>5 DEF MayUpdate
    <3>1. Abstract!ChangePassword(e, p) /\ e \in Emails
      BY <1>1, <1>4, <2>1, <2>5, <3>0
         DEF Abstract!ChangePassword, RedeemOps, MayUpdate, links, WithPassword
    <3> QED BY <3>1 DEF Abstract!Next
  <2> QED BY <1>4, <2>3, <2>4, <2>5 DEF MayUpdate, RedeemOps
<1> QED BY <1>c, <1>e, <1>3, <1>4, CommitIs

LEMMA AbstractInit == Init => Abstract!Init
BY DEF Init, StorageInit, EmptyContent, Abstract!Init, LinkOf

LEMMA AbstractStep == AllInv /\ [Next]_vars => [Abstract!Next]_(Abstract!accounts)
<1> SUFFICES ASSUME AllInv, [Next]_vars
             PROVE  Abstract!Next \/ UNCHANGED Abstract!accounts
  OBVIOUS
<1>1. CASE db' = db
  BY <1>1 DEF Abstract!accounts, LinkOf
<1>2. CASE db' # db
  BY <1>2, EffectNext, CommitImplements DEF AllInv
<1> QED BY <1>1, <1>2

\* The user service, with its two ways into SQLite, its mutex, its mails and
\* its failures, behaves for its clients like the atomic operations of
\* Accounts: every commit is one of them and nothing else is visible
\* (storage.go:106-132, user.go).
THEOREM ServiceImplementsAccounts == Spec => ImplementsAccounts
BY AbstractInit, AbstractStep, AllInvariant, PTL
   DEF Spec, ImplementsAccounts, Abstract!Spec

=============================================================================
