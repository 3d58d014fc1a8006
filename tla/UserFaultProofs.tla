--------------------------- MODULE UserFaultProofs ---------------------------
(***************************************************************************)
(* What survives when more goes wrong: a power loss (UserPowerLoss), or    *)
(* closures that panic and an SMTP server that stays silent (UserFaults);  *)
(* and what an answer claims of the past (UserHistory).  Everything rests  *)
(* on AllInv, which the steps of UserService preserve: a fault is shown to *)
(* preserve it too.                                                        *)
(***************************************************************************)
EXTENDS UserAnswerProofs, UserPowerLoss, UserFaults, UserHistory

----------------------------------------------------------------------------
\* Steps of UserService.

LEMMA AllInvIsSafe ==
    AllInv => /\ TypeOK /\ OneLiveTokenPerKind /\ TokenMatchesAccount
              /\ CommittedTokenWasMailed /\ CacheAgrees
              /\ AnswerMatchesDatabase /\ LinkWorksOnce
<1>1. AnswerInv => AnswerMatchesDatabase
  BY DEF AnswerInv, Answered, AnswerMatchesDatabase, IssuedIn, SpentIn, Redeems, Issues
<1> QED BY <1>1 DEF AllInv, TypeInv, ContentInv, Consistent, OneLiveTokenPerKind,
                    TokenMatchesAccount, AnswerInv

LEMMA AllInvInit == Init => AllInv
BY TypeInvInit, IsolationInit, ContentInvInit, AnswerInit, EffectInit DEF AllInv

LEMMA AllInvNext == AllInv /\ [Next]_vars => AllInv'
BY TypeInvNext, IsolationNext, ContentInvNext, AnswerNext, EffectNext DEF AllInv

\* A mail is never taken back.
LEMMA MailStays == [Next]_vars => mailed \subseteq mailed'
<1> SUFFICES ASSUME [Next]_vars PROVE mailed \subseteq mailed'
  OBVIOUS
<1>1. CASE UNCHANGED vars
  BY <1>1 DEF vars
<1>2. CASE Tick \/ Crash
  BY <1>2 DEF Tick, Crash
<1>3. ASSUME NEW r \in Requests, Call(r) \/ Lock(r) \/ Progress(r) \/ Abort(r)
      PROVE  mailed \subseteq mailed'
  BY <1>3
     DEF Progress, Call, Lock, Return, Abort, Busy, Begin, Signup, ResendSignupToken,
         ResetPassword, SendMail, SendMailFails, GetUserCached, GetUserRead, SigninRead,
         Loaded, SelectToken, ResetPasswordToken, ValidateSignupToken, ChangePassword,
         ChangePasswordWithToken, UpdateReturning, Finish, Stage, Fail, CommitTx
<1> QED BY <1>1, <1>2, <1>3 DEF Next

\* A request touches nothing that belongs to another one.
LEMMA StepIsLocal ==
    ASSUME TypeInv, NEW r \in Requests,
           Call(r) \/ Lock(r) \/ Progress(r) \/ Abort(r),
           NEW q \in Requests \ {r}
    PROVE  pc'[q] = pc[q] /\ req'[q] = req[q] /\ row'[q] = row[q] /\ view'[q] = view[q]
<1>1. pc'[q] = pc[q] /\ view'[q] = view[q]
  BY DEF Progress, Call, Lock, LockMutex, Return, Abort, Busy, Begin, Signup,
         ResendSignupToken, ResetPassword, SendMail, SendMailFails, GetUserCached,
         GetUserRead, SigninRead, Loaded, SelectToken, Snapshot, ResetPasswordToken,
         ValidateSignupToken, ChangePassword, ChangePasswordWithToken, UpdateReturning,
         Finish, CommitTx, Stage, Exec, Fail, Rollback, Commit, Release, Goto, storage,
         TypeInv, TypeOK
<1>2. req'[q] = req[q] /\ row'[q] = row[q]
  BY DEF Progress, Call, Lock, Return, Abort, Busy, Begin, Signup,
         ResendSignupToken, ResetPassword, SendMail, SendMailFails, GetUserCached,
         GetUserRead, SigninRead, Loaded, SelectToken, ResetPasswordToken,
         ValidateSignupToken, ChangePassword, ChangePasswordWithToken, UpdateReturning,
         Finish, CommitTx, Stage, Fail, TypeInv, TypeOK
<1> QED BY <1>1, <1>2

\* Nobody is being served and no lock is held, as after a restart; what the
\* database then holds was once committed.
AtRest ==
    /\ mu = None /\ writer = None
    /\ view = [r \in Requests |-> None] /\ stale = {}
    /\ pc = [r \in Requests |-> "idle"]
    /\ req = [r \in Requests |-> None] /\ row = [r \in Requests |-> None]
    /\ cache = [e \in Emails |-> None]

\* Every token of d was mailed to its owner, behind the link that redeems it.
MailedIn(d) ==
    \A t \in Tokens : d.tokens[t] # NoRow =>
        \E m \in mailed :
            /\ m.token = t
            /\ m.to = d.tokens[t].email
            /\ m.link = IF d.tokens[t].type = "SIGNUP"
                        THEN "/auth/signup/" ELSE "/auth/reset-password/"

LEMMA RestIsSafe ==
    ASSUME db' \in Content, Consistent(db'), MailedIn(db)', AtRest',
           mailed' \subseteq Mail, now' \in Nat
    PROVE  AllInv'
<1>1. TypeInv'
  BY DEF AtRest, TypeInv, TypeOK, CallsOK, CallOK, Steps
<1>2. IsolationInv'
  BY NobodyIsNone DEF AtRest, IsolationInv, Isolated, DistinctDraws
<1>3. ContentInv'
  BY DEF AtRest, ContentInv, ViewOK
<1>4. AnswerInv'
  BY NobodyIsNone
     DEF AtRest, AnswerInv, Answered, CommittedTokenWasMailed, MailedIn, CacheAgrees,
         LinkWorksOnce
<1>5. EffectInv'
  BY DEF AtRest, EffectInv, Effect, Writing
<1> QED BY <1>1, <1>2, <1>3, <1>4, <1>5 DEF AllInv

----------------------------------------------------------------------------
\* UserPowerLoss.  Each content the log may break off at is one the service
\* could go on with, and advances what the last checkpoint stored.

Recoverable(d) ==
    d \in Content /\ Consistent(d) /\ MailedIn(d) /\ Advances(synced, d)

PowerInv ==
    /\ AllInv
    /\ db \in recoverable
    /\ \A d \in recoverable : Recoverable(d)

LEMMA PowerInit == PInit => PowerInv
<1> SUFFICES ASSUME PInit PROVE PowerInv
  OBVIOUS
<1>1. AllInv
  BY AllInvInit DEF PInit
<1>2. Recoverable(db)
  BY <1>1, AdvancesRefl
     DEF PInit, Recoverable, AllInv, TypeInv, TypeOK, ContentInv, AnswerInv,
         CommittedTokenWasMailed, MailedIn
<1> QED BY <1>1, <1>2 DEF PInit, PowerInv

LEMMA PowerNext == PowerInv /\ [PNext]_pvars => PowerInv'
<1> SUFFICES ASSUME PowerInv, [PNext]_pvars PROVE PowerInv'
  OBVIOUS
<1>1. Recoverable(db) /\ AllInv
  BY DEF PowerInv
<1>2. ASSUME [Next]_vars, recoverable' \subseteq recoverable \cup {db'},
             db' \in recoverable', synced' = synced
      PROVE  PowerInv'
  <2>1. AllInv' /\ mailed \subseteq mailed'
    BY <1>1, <1>2, AllInvNext, MailStays
  <2>2. Advances(db, db')
    BY <1>1, <1>2, IsolationNext, AdvancesRefl DEF AllInv
  <2>3. Advances(synced, db')
    BY <1>1, <2>2, AdvancesTrans DEF Recoverable
  <2>4. db' \in Content /\ Consistent(db') /\ MailedIn(db)'
    BY <2>1 DEF AllInv, TypeInv, TypeOK, ContentInv, AnswerInv, CommittedTokenWasMailed,
                MailedIn
  <2>5. ASSUME NEW d \in recoverable' PROVE Recoverable(d)'
    <3>1. CASE d = db'
      BY <1>2, <2>3, <2>4, <3>1 DEF Recoverable, MailedIn
    <3>2. CASE d # db'
      <4>1. Recoverable(d)
        BY <1>2, <3>2 DEF PowerInv
      <4>2. MailedIn(d)'
        BY <2>1, <4>1 DEF Recoverable, MailedIn
      <4> QED BY <1>2, <4>1, <4>2 DEF Recoverable
    <3> QED BY <3>1, <3>2
  <2> QED BY <1>2, <2>1, <2>5 DEF PowerInv
<1>3. CASE Serve
  BY <1>2, <1>3 DEF Serve, PowerInv
<1>4. CASE UNCHANGED pvars
  BY <1>2, <1>4 DEF pvars, vars, storage, PowerInv
<1>5. CASE Checkpoint
  <2>1. UNCHANGED vars /\ synced' = db /\ recoverable' = {db}
    BY <1>5 DEF Checkpoint
  <2>2. AllInv' /\ db' = db /\ mailed' = mailed
    BY <1>1, <2>1, AllInvNext DEF vars, storage
  <2>3. Recoverable(db)'
    BY <1>1, <2>1, <2>2, AdvancesRefl DEF Recoverable, MailedIn
  <2> QED BY <2>1, <2>2, <2>3 DEF PowerInv
<1>6. CASE PowerLoss
  <2>1. /\ db' \in recoverable /\ synced' = synced /\ recoverable' = {db'}
        /\ mailed' = mailed /\ now' = now
        /\ AtRest'
    BY <1>6 DEF PowerLoss, AtRest
  <2>2. Recoverable(db') /\ mailed \subseteq Mail /\ now \in Nat
    BY <1>1, <2>1 DEF PowerInv, AllInv, TypeInv, TypeOK
  <2>3. Recoverable(db)'
    BY <2>1, <2>2 DEF Recoverable, MailedIn
  <2>4. AllInv'
    BY <2>1, <2>2, <2>3, RestIsSafe DEF Recoverable
  <2> QED BY <2>1, <2>3, <2>4 DEF PowerInv
<1> QED BY <1>3, <1>4, <1>5, <1>6 DEF PNext

LEMMA PowerInvariant == PSpec => []PowerInv
BY PowerInit, PowerNext, PTL DEF PSpec

\* Nothing the last checkpoint had is missing after a power loss, nor in anything a
\* power loss could go back to: every commit since, also one of a transaction that
\* began as a reader, was an advance over it (storage.go:34, 106).
THEOREM CheckpointsSurvive == PSpec => []CheckpointSurvives
<1>1. PowerInv => CheckpointSurvives
  BY DEF PowerInv, Recoverable, CheckpointSurvives
<1> QED BY <1>1, PowerInvariant, PTL

\* Every content a power loss can bring back has at most one link of a kind
\* for an email, which fits its account and was mailed to its owner
\* (storage.go:34, user.go:156, 288).
THEOREM RecoveriesAreUsable == PSpec => []EveryRecoveryIsUsable
<1>1. PowerInv => EveryRecoveryIsUsable
  BY DEF PowerInv, Recoverable, Consistent, MailedIn, EveryRecoveryIsUsable
<1> QED BY <1>1, PowerInvariant, PTL

\* What the service guarantees without a power loss it guarantees with one: the
\* answers, the mails and the cache tell the truth, and no link works twice
\* among the requests of one run of the process (storage.go:34, user.go).
THEOREM SafetySurvivesPowerLoss ==
    PSpec => [](/\ TypeOK /\ OneLiveTokenPerKind /\ TokenMatchesAccount
                /\ CommittedTokenWasMailed /\ CacheAgrees
                /\ AnswerMatchesDatabase /\ LinkWorksOnce)
<1>1. PowerInv => AllInv
  BY DEF PowerInv
<1> QED BY <1>1, AllInvIsSafe, PowerInvariant, PTL

\* With power losses too, the accounts change only by the atomic operations of
\* Accounts, or all at once back to what they were after an earlier commit
\* (storage.go:34): no client ever sees half of an operation.
THEOREM PowerLossTakesBackWholeCommits ==
    PSpec => [][Abstract!Next \/ (PowerLoss /\ db' \in recoverable)]_(Abstract!accounts)
<1>1. ASSUME PowerInv, [PNext]_pvars
      PROVE  [Abstract!Next \/ (PowerLoss /\ db' \in recoverable)]_(Abstract!accounts)
  <2>1. CASE [Next]_vars
    BY <1>1, <2>1, AbstractStep DEF PowerInv
  <2>2. CASE PowerLoss
    BY <2>2 DEF PowerLoss
  <2>3. Serve \/ Checkpoint \/ UNCHANGED pvars => [Next]_vars
    BY DEF Serve, Checkpoint, pvars
  <2> QED BY <1>1, <2>1, <2>2, <2>3 DEF PNext
<1> QED BY <1>1, PowerInvariant, PTL DEF PSpec

----------------------------------------------------------------------------
\* UserHistory.  A request holds, until it answers, the content it will answer
\* from: in a row it read, in its snapshot, or as what it is about to commit.

RowSeen(r, d) ==
    /\ row[r] = GetUser(d, req[r].email)
    /\ req[r].op = "Signin" => row[r].verified

Witnessed(r) ==
    /\ pc[r] # "idle" => db \in seen[r]
    /\ pc[r] = "loaded" => \E d \in seen[r] : RowSeen(r, d)
    /\ pc[r] = "selected" /\ req[r].op = "ResetPasswordToken" =>
            /\ view[r] \in seen[r]
            /\ GetPasswordTokenNotExpired(view[r], req[r].token, req[r].at)
    /\ pc[r] = "ok" => \E d \in seen[r] : Grants(d, req[r])

HistoryInv == AllInv /\ \A r \in Requests : Witnessed(r)

\* What is seen is kept until the answer is delivered.
LEMMA SeenGrows ==
    ASSUME Observe, NEW r \in Requests, pc'[r] # "idle"
    PROVE  seen[r] \subseteq seen'[r] /\ db' \in seen'[r]
BY DEF Observe

LEMMA OthersWitnessed ==
    ASSUME Observe, NEW q \in Requests, Witnessed(q),
           pc'[q] = pc[q], req'[q] = req[q], row'[q] = row[q], view'[q] = view[q]
    PROVE  Witnessed(q)'
<1>1. CASE pc[q] = "idle"
  BY <1>1 DEF Witnessed
<1>2. CASE pc[q] # "idle"
  <2>1. seen[q] \subseteq seen'[q] /\ db' \in seen'[q]
    BY <1>2, SeenGrows
  <2>2. \A d : RowSeen(q, d)' <=> RowSeen(q, d)
    BY DEF RowSeen
  <2> QED BY <2>1, <2>2 DEF Witnessed
<1> QED BY <1>1, <1>2

\* Most steps neither read for later nor answer.
LEMMA PlainWitnessed ==
    ASSUME Observe, NEW r \in Requests, pc'[r] \notin {"loaded", "selected", "ok"}
    PROVE  Witnessed(r)'
BY SeenGrows DEF Witnessed

\* Reading: the row or the snapshot is of the content committed now.
LEMMA ReadWitnessed ==
    ASSUME TypeInv, AnswerInv, Observe, NEW r \in Requests, Witnessed(r),
           GetUserCached(r) \/ GetUserRead(r) \/ SigninRead(r) \/ SelectToken(r)
    PROVE  Witnessed(r)'
<1>1. db' = db /\ req' = req
  BY DEF GetUserCached, GetUserRead, SigninRead, SelectToken, Snapshot, Fail, Rollback,
         storage
<1>2. CASE pc'[r] \notin {"loaded", "selected", "ok"}
  BY <1>2, PlainWitnessed
<1>3. CASE pc'[r] \in {"loaded", "selected", "ok"}
  <2>1. ~ Fail(r) /\ db \in seen'[r] /\ CallOK(r)
    BY <1>1, <1>3, SeenGrows DEF Fail, Goto, TypeInv, TypeOK, CallsOK
  <2>2. CASE GetUserCached(r)
    <3>1. pc'[r] = "ok" /\ req[r].op = "GetUser" /\ cache[req[r].email] # None
      BY <2>2 DEF GetUserCached, At, Goto, TypeInv, TypeOK
    <3>2. req[r].email \in Emails
      BY <2>1, <2>2, <3>1, CallFields DEF GetUserCached, At, CallOK
    <3>3. Grants(db, req[r])
      BY <3>1, <3>2 DEF AnswerInv, CacheAgrees, Grants, GetUser
    <3> QED BY <1>1, <2>1, <3>1, <3>3 DEF Witnessed
  <2>3. CASE GetUserRead(r) \/ SigninRead(r)
    <3>1. /\ pc'[r] = "loaded" /\ row'[r] = GetUser(db, req[r].email)
          /\ req[r].op = "Signin" => row'[r].verified
      BY <2>1, <2>3 DEF GetUserRead, SigninRead, At, Goto, TypeInv, TypeOK
    <3>2. RowSeen(r, db)'
      BY <1>1, <3>1 DEF RowSeen, GetUser
    <3> QED BY <1>1, <2>1, <3>1, <3>2 DEF Witnessed
  <2>4. CASE SelectToken(r)
    <3>1. pc'[r] = "selected" /\ view'[r] = db
      BY <2>1, <2>4 DEF SelectToken, Snapshot, Goto, TypeInv, TypeOK
    <3>2. req[r].op = "ResetPasswordToken" =>
            GetPasswordTokenNotExpired(db, req[r].token, req[r].at)
      BY <2>1, <2>4 DEF SelectToken
    <3> QED BY <1>1, <2>1, <3>1, <3>2 DEF Witnessed
  <2> QED BY <2>2, <2>3, <2>4
<1> QED BY <1>2, <1>3

\* Answering: what was read, or what is being committed, grants the call.
LEMMA AnswerWitnessed ==
    ASSUME AllInv, Observe, NEW r \in Requests, Witnessed(r),
           Loaded(r) \/ ResetPasswordToken(r) \/ CommitTx(r)
    PROVE  Witnessed(r)'
<1>1. /\ req' = req /\ CallOK(r) /\ Effect(r) /\ Answered(r)
      /\ db \in Content
  BY DEF Loaded, ResetPasswordToken, CommitTx, Fail, AllInv, TypeInv, TypeOK, CallsOK,
         EffectInv, AnswerInv
<1>2. CASE pc'[r] \notin {"loaded", "selected", "ok"}
  BY <1>2, PlainWitnessed
<1>3. CASE pc'[r] \in {"loaded", "selected", "ok"}
  <2>1. /\ pc'[r] = "ok" /\ ~ Fail(r)
        /\ seen[r] \subseteq seen'[r] /\ db' \in seen'[r]
    BY <1>3, SeenGrows
       DEF Loaded, ResetPasswordToken, CommitTx, Fail, Goto, AllInv, TypeInv, TypeOK
  <2>2. SUFFICES \E d \in seen'[r] : Grants(d, req[r])
    BY <1>1, <2>1 DEF Witnessed
  <2>3. CASE Loaded(r)
    <3>1. PICK d \in seen[r] : RowSeen(r, d)
      BY <2>3 DEF Loaded, Witnessed
    <3>2. /\ req[r].op \in {"GetUser", "Signin"} /\ row[r] # NoRow
          /\ req[r].op = "Signin" => row[r].password = req[r].password
      BY <1>1, <2>1, <2>3, RowsAssumption DEF Loaded, Answered, CallOK
    <3>3. Grants(d, req[r])
      BY <3>1, <3>2 DEF RowSeen, Grants, Opens, GetUser
    <3> QED BY <2>1, <3>1, <3>3
  <2>4. CASE ResetPasswordToken(r)
    <3>1. Grants(view[r], req[r]) /\ view[r] \in seen[r]
      BY <2>4 DEF ResetPasswordToken, At, Witnessed, Grants
    <3> QED BY <2>1, <3>1
  <2>5. CASE CommitTx(r) /\ req[r].op = "ChangePassword"
    <3>1. /\ pc[r] = "finished" /\ db' = view[r]
          /\ MayUpdate(db, req[r], row[r].email)
          /\ view[r] = DeleteRedeemed(UpdateOf(db, req[r], row[r].email),
                                      req[r].op, row[r].email)
      BY <1>1, <2>5 DEF CommitTx, Commit, CallOK, WriteOps, Effect
    <3>2. /\ req[r].email \in Emails /\ row[r].email = req[r].email
          /\ db.users[req[r].email] # NoRow /\ req[r].password \in Passwords
          /\ db' = UpdateUserPassword(db, req[r].email, req[r].password)
      BY <2>5, <3>1 DEF MayUpdate, UpdateOf, DeleteRedeemed
    <3>3. db.users[req[r].email] \in User
      BY <1>1, <3>2 DEF Content
    <3>4. db'.users[req[r].email] = [db.users[req[r].email] EXCEPT !.password = req[r].password]
      BY <1>1, <3>2 DEF UpdateUserPassword, Content
    <3>5. db'.users[req[r].email] \in User /\ db'.users[req[r].email].password = req[r].password
      BY <3>2, <3>3, <3>4 DEF User
    <3>6. Grants(db', req[r])
      BY <2>5, <3>5, RowsAssumption DEF Grants, GetUser
    <3> QED BY <2>1, <3>6
  <2>6. CASE CommitTx(r) /\ req[r].op # "ChangePassword"
    <3>1. req[r].op \in WriteOps \cup RedeemOps
      BY <1>1, <2>6 DEF CommitTx, CallOK, Effect, MayUpdate
    <3>2. Grants(db', req[r])
      BY <3>1 DEF Grants, WriteOps, RedeemOps
    <3> QED BY <2>1, <3>2
  <2> QED BY <2>3, <2>4, <2>5, <2>6
<1> QED BY <1>2, <1>3

LEMMA HistoryInit == HInit => HistoryInv
BY AllInvInit DEF HInit, Init, HistoryInv, Witnessed

LEMMA HistoryNext == HistoryInv /\ [HNext]_hvars => HistoryInv'
<1> SUFFICES ASSUME HistoryInv, [HNext]_hvars PROVE HistoryInv'
  OBVIOUS
<1>1. CASE UNCHANGED hvars
  <2>1. AllInv'
    BY <1>1, AllInvNext DEF HistoryInv, hvars
  <2> QED BY <1>1, <2>1 DEF HistoryInv, Witnessed, RowSeen, hvars, vars, storage
<1>2. CASE Next /\ Observe
  <2>1. AllInv /\ AllInv' /\ TypeInv /\ AnswerInv
    BY <1>2, AllInvNext DEF HistoryInv, AllInv
  <2> SUFFICES ASSUME NEW q \in Requests PROVE Witnessed(q)'
    BY <2>1 DEF HistoryInv
  <2>2. Witnessed(q)
    BY DEF HistoryInv
  <2>3. CASE Tick
    BY <1>2, <2>2, <2>3, OthersWitnessed DEF Tick, storage
  <2>4. CASE Crash
    BY <1>2, <2>4, PlainWitnessed DEF Crash
  <2>5. ASSUME NEW r \in Requests, Call(r) \/ Lock(r) \/ Progress(r) \/ Abort(r)
        PROVE  Witnessed(q)'
    <3>1. CASE q = r
      <4>1. CASE \/ GetUserCached(r) \/ GetUserRead(r) \/ SigninRead(r) \/ SelectToken(r)
                 \/ Loaded(r) \/ ResetPasswordToken(r) \/ CommitTx(r)
        BY <1>2, <2>1, <2>2, <3>1, <4>1, ReadWitnessed, AnswerWitnessed
      <4>2. CASE \/ Call(r) \/ Lock(r) \/ Abort(r) \/ Begin(r) \/ Busy(r) \/ Signup(r)
                 \/ ResendSignupToken(r) \/ ResetPassword(r) \/ SendMail(r)
                 \/ SendMailFails(r) \/ ValidateSignupToken(r) \/ ChangePassword(r)
                 \/ ChangePasswordWithToken(r) \/ Finish(r) \/ Return(r)
        <5>1. pc'[r] \notin {"loaded", "selected", "ok"}
          BY <2>1, <4>2
             DEF Call, Lock, Abort, Begin, Busy, Signup, ResendSignupToken, ResetPassword,
                 SendMail, SendMailFails, ValidateSignupToken, ChangePassword,
                 ChangePasswordWithToken, UpdateReturning, Finish, Return, Stage, Fail,
                 Goto, TypeInv, TypeOK
        <5> QED BY <1>2, <3>1, <5>1, PlainWitnessed
      <4> QED BY <2>5, <4>1, <4>2 DEF Progress
    <3>2. CASE q # r
      <4>1. pc'[q] = pc[q] /\ req'[q] = req[q] /\ row'[q] = row[q] /\ view'[q] = view[q]
        BY <2>1, <2>5, <3>2, StepIsLocal
      <4> QED BY <1>2, <2>2, <4>1, OthersWitnessed
    <3> QED BY <3>1, <3>2
  <2> QED BY <1>2, <2>3, <2>4, <2>5 DEF Next
<1> QED BY <1>1, <1>2 DEF HNext

\* The history changes no behaviour of the service: what is proved of Spec holds
\* with it.
LEMMA HistoryIsService == HSpec => Spec
<1>1. HInit => Init
  BY DEF HInit
<1>2. [HNext]_hvars => [Next]_vars
  BY DEF HNext, hvars
<1> QED BY <1>1, <1>2, PTL DEF HSpec, Spec

LEMMA HistoryInvariant == HSpec => []HistoryInv
BY HistoryInit, HistoryNext, PTL DEF HSpec

\* A positive answer was true at some moment of the call, however many commits
\* went by between the reading and the answer: who signs in has an account that
\* was verified and whose password was the one given, a reset form is shown only
\* for a link that worked, a changed password was stored (user.go:82-106,
\* 302-327, 341-366).
THEOREM AnswersHoldOnce == HSpec => []AnswersWereTrue
<1>1. HistoryInv => AnswersWereTrue
  BY DEF HistoryInv, Witnessed, AnswersWereTrue
<1> QED BY <1>1, HistoryInvariant, PTL

----------------------------------------------------------------------------
\* UserFaults.  A panic gives back the mutex and touches nothing else; the
\* cancellation of the context discards the transaction of the request.  Of
\* both the rest of the service notices no more than of an error.

LEMMA PanicIsSafe ==
    ASSUME AllInv, NEW r \in Requests, Panic(r)
    PROVE  AllInv'
<1>1. /\ UNCHANGED <<db, writer, view, stale, pc, req, row, cache, mailed, now>>
      /\ mu' \in Requests \cup {None}
  BY DEF Panic, AllInv, TypeInv, TypeOK
<1>2. TypeInv'
  BY <1>1 DEF AllInv, TypeInv, TypeOK, CallsOK, CallOK
<1>3. IsolationInv'
  BY <1>1 DEF AllInv, IsolationInv, Isolated, DistinctDraws
<1>4. ContentInv'
  BY <1>1 DEF AllInv, ContentInv, ViewOK
<1>5. AnswerInv'
  BY <1>1 DEF AllInv, AnswerInv, Answered, CommittedTokenWasMailed, CacheAgrees,
              LinkWorksOnce, Redeems, Issues
<1>6. EffectInv'
  BY <1>1 DEF AllInv, EffectInv, Effect, Redeems
<1> QED BY <1>2, <1>3, <1>4, <1>5, <1>6 DEF AllInv

LEMMA CancelIsSafe ==
    ASSUME AllInv, NEW r \in Requests, Cancel(r)
    PROVE  AllInv'
<1> USE DEF AllInv
<1>1. /\ UNCHANGED <<db, mu, cache, mailed, now>>
      /\ writer' = IF writer = r THEN None ELSE writer
      /\ stale' = stale \ {r}
      /\ pc'[r] = "idle" /\ view'[r] = None
      /\ \A q \in Requests \ {r} : /\ pc'[q] = pc[q] /\ view'[q] = view[q]
                                   /\ req'[q] = req[q] /\ row'[q] = row[q]
  BY DEF Cancel, Goto, TypeInv, TypeOK
<1>2. TypeInv'
  <2>1. TypeOK'
    BY DEF Cancel, Goto, TypeInv, TypeOK, Steps
  <2>2. CallOK(r)'
    BY <1>1 DEF CallOK
  <2> QED BY <1>1, <2>1, <2>2, OthersOK DEF TypeInv
<1>3. IsolationInv'
  <2>1. ASSUME NEW q \in Requests PROVE Isolated(q)'
    <3>1. Isolated(q)
      BY DEF IsolationInv
    <3>2. CASE q = r
      BY <1>1, <3>2, NobodyIsNone DEF Isolated
    <3>3. CASE q # r
      BY <1>1, <3>1, <3>3, NobodyIsNone DEF Isolated
    <3> QED BY <3>2, <3>3
  <2>2. DistinctDraws'
    BY <1>1 DEF IsolationInv, DistinctDraws
  <2> QED BY <2>1, <2>2 DEF IsolationInv
<1>4. ContentInv'
  BY <1>1, OtherViewsOK DEF ContentInv, ViewOK
<1>5. AnswerInv'
  <2>1. Answered(r)'
    BY <1>1, NobodyIsNone DEF Answered
  <2>2. \A q \in Requests \ {r} : writer = q <=> writer' = q
    BY <1>1, NobodyIsNone
  <2> QED BY <1>1, <2>1, <2>2, StepAnswered
<1>6. EffectInv'
  BY <1>1, EndEffect DEF Cancel
<1> QED BY <1>2, <1>3, <1>4, <1>5, <1>6

\* Every step is one of UserService or leaves the database alone.
LEMMA FaultNext ==
    ASSUME AllInv, panicked \subseteq Requests, [FNext]_fvars
    PROVE  AllInv' /\ (panicked \subseteq Requests)' /\ ([Next]_vars \/ db' = db)
<1>1. CASE [Next]_vars
  BY <1>1, AllInvNext DEF FNext, Step, Works, Panic, Cancel, fvars
<1>2. ASSUME NEW r \in Requests, Panic(r) \/ Cancel(r)
      PROVE  AllInv' /\ (panicked \subseteq Requests)' /\ db' = db
  BY <1>2, PanicIsSafe, CancelIsSafe DEF Panic, Cancel
<1> QED BY <1>1, <1>2 DEF FNext, Step, Works, Next, fvars

\* The mutex is held by the Write that runs, if it has not panicked.
Exclusive == {"locked", "began", "staged", "mailed"}

MutexInv == \A r \in Requests : mu = r <=> pc[r] \in Exclusive /\ r \notin panicked

\* A step that neither takes nor gives back the mutex, and one that ends a call.
LEMMA MutexKept ==
    ASSUME TypeInv, MutexInv, NEW r \in Requests, mu' = mu, panicked' = panicked,
           pc[r] \in Exclusive <=> pc'[r] \in Exclusive,
           \A q \in Requests \ {r} : pc'[q] = pc[q]
    PROVE  MutexInv'
BY DEF MutexInv

LEMMA MutexReleased ==
    ASSUME TypeInv, MutexInv, NEW r \in Requests,
           mu' = IF mu = r THEN None ELSE mu, panicked' = panicked,
           pc'[r] \notin Exclusive, \A q \in Requests \ {r} : pc'[q] = pc[q]
    PROVE  MutexInv'
BY NobodyIsNone DEF MutexInv

LEMMA MutexStep ==
    ASSUME AllInv, MutexInv, NEW r \in Requests, r \notin panicked, panicked' = panicked,
           Call(r) \/ Lock(r) \/ Progress(r) \/ Abort(r)
    PROVE  MutexInv'
<1>1. TypeInv /\ CallOK(r) /\ Answered(r)
  BY DEF AllInv, TypeInv, CallsOK, AnswerInv
<1>2. \A q \in Requests \ {r} : pc'[q] = pc[q]
  BY <1>1, StepIsLocal
<1>3. ASSUME NEW step, Goto(r, step) PROVE pc'[r] = step
  BY <1>1, <1>3 DEF Goto, TypeInv, TypeOK
<1>4. CASE mu' = mu /\ (pc[r] \in Exclusive <=> pc'[r] \in Exclusive)
  BY <1>1, <1>2, <1>4, MutexKept
<1>5. CASE (mu' = IF mu = r THEN None ELSE mu) /\ pc'[r] \notin Exclusive
  BY <1>1, <1>2, <1>5, MutexReleased
<1>6. CASE Fail(r) \/ SendMailFails(r) \/ ResetPasswordToken(r)
  BY <1>3, <1>5, <1>6
     DEF Fail, SendMailFails, ResetPasswordToken, Rollback, Release, Exclusive
<1>7. CASE CommitTx(r)
  BY <1>3, <1>5, <1>7 DEF CommitTx, Commit, Release, Exclusive
<1>8. CASE Lock(r)
  BY <1>2, <1>3, <1>8, NobodyIsNone DEF Lock, LockMutex, MutexInv, Exclusive
<1>9. CASE Begin(r) \/ Signup(r) \/ ResendSignupToken(r) \/ ResetPassword(r) \/ SendMail(r)
  BY <1>3, <1>4, <1>6, <1>9
     DEF Begin, Signup, ResendSignupToken, ResetPassword, SendMail, At, Stage, Exec,
         storage, Exclusive
<1>10. CASE \/ Call(r) \/ Return(r) \/ GetUserCached(r) \/ GetUserRead(r) \/ SigninRead(r)
            \/ Loaded(r) \/ SelectToken(r)
  BY <1>3, <1>4, <1>6, <1>10
     DEF Call, Return, GetUserCached, GetUserRead, SigninRead, Loaded, SelectToken,
         Snapshot, At, storage, Exclusive
<1>11. CASE \/ ValidateSignupToken(r) \/ ChangePassword(r) \/ ChangePasswordWithToken(r)
            \/ Finish(r)
  BY <1>3, <1>4, <1>6, <1>11
     DEF ValidateSignupToken, ChangePassword, ChangePasswordWithToken, Finish, At,
         UpdateReturning, Stage, Exec, Exclusive
<1>12. CASE Abort(r) \/ Busy(r)
  BY <1>6, <1>12 DEF Abort, Busy
<1> QED BY <1>6, <1>7, <1>8, <1>9, <1>10, <1>11, <1>12 DEF Progress

LEMMA MutexNext == AllInv /\ MutexInv /\ [FNext]_fvars => MutexInv'
<1> SUFFICES ASSUME AllInv, MutexInv, [FNext]_fvars PROVE MutexInv'
  OBVIOUS
<1>1. CASE UNCHANGED fvars \/ (Tick /\ UNCHANGED panicked)
  BY <1>1 DEF fvars, vars, storage, Tick, MutexInv
<1>2. CASE Crash /\ panicked' = {}
  BY <1>2, NobodyIsNone DEF Crash, Restart, MutexInv, Exclusive
<1>3. ASSUME NEW r \in Requests, r \notin panicked, panicked' = panicked,
             Call(r) \/ Lock(r) \/ Progress(r) \/ Abort(r)
      PROVE  MutexInv'
  BY <1>3, MutexStep
<1>4. ASSUME NEW r \in Requests, Panic(r) PROVE MutexInv'
  BY <1>4, NobodyIsNone DEF Panic, MutexInv
<1>5. ASSUME NEW r \in panicked, Cancel(r) PROVE MutexInv'
  BY <1>5 DEF Cancel, Goto, MutexInv, Exclusive, AllInv, TypeInv, TypeOK
<1> QED BY <1>1, <1>2, <1>3, <1>4, <1>5 DEF FNext, Step, Works

FaultInv == AllInv /\ panicked \subseteq Requests /\ MutexInv

LEMMA FaultInvariant == FSpec => []FaultInv
<1>1. FInit => FaultInv
  BY AllInvInit, NobodyIsNone
     DEF FInit, Init, StorageInit, FaultInv, MutexInv, Exclusive
<1>2. FaultInv /\ [FNext]_fvars => FaultInv'
  BY FaultNext, MutexNext DEF FaultInv
<1> QED BY <1>1, <1>2, PTL DEF FSpec

\* However closures panic and contexts are cancelled, the mutex is held by the
\* one Write that runs and has not panicked, and the write lock by a request
\* that is inside its transaction: nobody waits for a lock that is lost
\* (storage.go:110-132).
THEOREM NoLockIsLost == FSpec => []LocksAreGivenBack
<1>1. FaultInv => LocksAreGivenBack
  BY DEF FaultInv, MutexInv, Exclusive, AllInv, TypeInv, TypeOK, AnswerInv, Answered,
         LocksAreGivenBack
<1> QED BY <1>1, FaultInvariant, PTL

\* Panics and hung mails break none of the guarantees of the service: no call
\* that panicked leaves a trace in the database, its mails included
\* (storage.go:117-132, mailer.go:95).
THEOREM SafetySurvivesPanics ==
    FSpec => [](/\ TypeOK /\ OneLiveTokenPerKind /\ TokenMatchesAccount
                /\ CommittedTokenWasMailed /\ CacheAgrees
                /\ AnswerMatchesDatabase /\ LinkWorksOnce)
<1>1. FaultInv => AllInv
  BY DEF FaultInv
<1> QED BY <1>1, AllInvIsSafe, FaultInvariant, PTL

\* Also with panics no commit undoes an earlier one: what a panic leaves open,
\* with its old snapshot, is never committed by its cancellation
\* (storage.go:117-132).
THEOREM FaultsLoseNoUpdate == FSpec => NoLostUpdate
<1>1. FaultInv /\ [FNext]_fvars => [Advances(db, db')]_db
  BY FaultNext, IsolationNext DEF FaultInv, AllInv
<1> QED BY <1>1, FaultInvariant, PTL DEF FSpec, NoLostUpdate

\* A panic between the UPDATE of a redemption and its commit verifies nobody
\* (user.go:221-239).
THEOREM FaultsVerifyNobody == FSpec => VerifiedOnlyByItsToken
<1> DEFINE P == \A e \in Emails : Verifies(e) =>
                  \E r \in Requests :
                    Commits(r) /\ Spends(r, "ValidateSignupToken", "SIGNUP", e)
<1>1. FaultInv /\ [FNext]_fvars => [P]_db
  BY FaultNext, VerifyingStep DEF FaultInv
<1> QED BY <1>1, FaultInvariant, PTL DEF FSpec, VerifiedOnlyByItsToken

\* A panic of the hash inside a reset changes no password (user.go:346, 376-407).
THEOREM FaultsChangeNoPassword == FSpec => PasswordOnlyChangedByOwner
<1> DEFINE P == \A e \in Emails : ChangesPassword(e) =>
                  \E r \in Requests :
                    /\ Commits(r)
                    /\ db'.users[e].password = req[r].password
                    /\ \/ req[r].op = "ChangePassword" /\ req[r].email = e
                       \/ Spends(r, "ChangePasswordWithToken", "PASSWORD", e)
<1>1. FaultInv /\ [FNext]_fvars => [P]_db
  BY FaultNext, PasswordStep DEF FaultInv
<1> QED BY <1>1, FaultInvariant, PTL DEF FSpec, PasswordOnlyChangedByOwner

\* With panics, hung mails and cancelled contexts every commit is still one
\* atomic operation of Accounts, and nothing else is visible to clients
\* (storage.go:106-132).
THEOREM FaultyServiceImplementsAccounts == FSpec => ImplementsAccounts
<1>1. FInit => Abstract!Init
  BY AbstractInit DEF FInit
<1>2. FaultInv /\ [FNext]_fvars => [Abstract!Next]_(Abstract!accounts)
  <2>1. db' = db => UNCHANGED Abstract!accounts
    BY DEF Abstract!accounts, LinkOf
  <2> QED BY <2>1, FaultNext, AbstractStep DEF FaultInv
<1> QED BY <1>1, <1>2, FaultInvariant, PTL DEF FSpec, ImplementsAccounts, Abstract!Spec

=============================================================================
