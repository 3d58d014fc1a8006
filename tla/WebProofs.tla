------------------------------ MODULE WebProofs ------------------------------
(***************************************************************************)
(* Proofs about Web.                                                       *)
(*                                                                         *)
(* WebInv: the types, and that a session, stored or in a request, names a  *)
(* verified account.  It is inductive with what is known of links (their   *)
(* account exists, and is verified behind a reset link) and of a request   *)
(* on its way (RequestOK).                                                 *)
(*                                                                         *)
(* HoldersInv: a session id is held by one browser only, in its cookie or  *)
(* by a request of it, and what the store keeps under it was proved by     *)
(* that browser.                                                           *)
(***************************************************************************)
EXTENDS WebProperties, TLAPS

----------------------------------------------------------------------------
\* The accounts

LinksOK ==
    \A l \in links :
        users[l.email] # NoRow /\ (l.type = "PASSWORD" => users[l.email].verified)

AccountsOK ==
    /\ users \in [Emails -> User \cup {NoRow}]
    /\ links \subseteq Link
    /\ LinksOK

VerifiedStays == \A e \in Emails : Verified(e) => Verified(e)'

LEMMA IssueOK ==
    ASSUME AccountsOK, NEW e \in Emails, NEW t \in Tokens,
           NEW type \in {"SIGNUP", "PASSWORD"},
           users' \in [Emails -> User \cup {NoRow}], VerifiedStays,
           \A f \in Emails : users[f] # NoRow => users'[f] # NoRow,
           users'[e] # NoRow, type = "PASSWORD" => users'[e].verified,
           Service!Issue(t, e, type)
    PROVE  AccountsOK'
<1> DEFINE fresh == [token |-> t, email |-> e, type |-> type]
<1>1. fresh \in Link
  BY DEF Link
<1>2. links' \subseteq links \cup {fresh}
  BY DEF Service!Issue, Service!LinksOf
<1>3. links' \subseteq Link
  BY <1>1, <1>2 DEF AccountsOK
<1>4. ASSUME NEW l \in links'
      PROVE  users'[l.email] # NoRow /\ (l.type = "PASSWORD" => users'[l.email].verified)
  <2>1. CASE l \in links
    BY <2>1 DEF AccountsOK, LinksOK, VerifiedStays, Verified, Link
  <2>2. CASE l = fresh
    BY <2>2
  <2> QED BY <1>2, <2>1, <2>2
<1> QED BY <1>3, <1>4 DEF AccountsOK, LinksOK

LEMMA RegisterOK ==
    ASSUME AccountsOK, NEW e \in Emails, NEW n \in Names, NEW p \in Passwords,
           NEW t \in Tokens, Service!Register(e, n, p, t)
    PROVE  AccountsOK' /\ VerifiedStays
<1> DEFINE u == [email |-> e, name |-> n, password |-> p, verified |-> FALSE]
<1>1a. u \in User
  BY DEF User
<1>1. u \in User /\ u # NoRow
  BY <1>1a, NothingAssumption
<1>2. users[e] = NoRow /\ users' = [users EXCEPT ![e] = u]
  BY DEF Service!Register
<1> HIDE DEF u
<1>3. users' \in [Emails -> User \cup {NoRow}] /\ users'[e] # NoRow
  BY <1>1, <1>2 DEF AccountsOK
<1>4. \A f \in Emails : users[f] # NoRow => users'[f] = users[f]
  BY <1>2 DEF AccountsOK
<1>5. VerifiedStays
  BY <1>4 DEF VerifiedStays, Verified
<1> QED BY <1>3, <1>4, <1>5, IssueOK DEF Service!Register

LEMMA ReissueOK ==
    ASSUME AccountsOK, NEW e \in Emails, NEW t \in Tokens,
           Service!Reissue(e, t) \/ Service!RequestReset(e, t)
    PROVE  AccountsOK' /\ VerifiedStays
<1>1. users' = users /\ users[e] # NoRow
  BY DEF Service!Reissue, Service!RequestReset
<1>2. VerifiedStays
  BY <1>1 DEF VerifiedStays, Verified
<1>3. CASE Service!Reissue(e, t)
  BY <1>1, <1>2, <1>3, IssueOK DEF Service!Reissue, AccountsOK
<1>4. CASE Service!RequestReset(e, t)
  BY <1>1, <1>2, <1>4, IssueOK DEF Service!RequestReset, AccountsOK
<1> QED BY <1>2, <1>3, <1>4

\* A change of the account of e that leaves it verified if it was
LEMMA UpdateOK ==
    ASSUME AccountsOK, NEW e \in Emails, NEW u \in User,
           users[e] # NoRow, users[e].verified => u.verified,
           users' = [users EXCEPT ![e] = u], links' \subseteq links
    PROVE  AccountsOK' /\ VerifiedStays
<1>1. u # NoRow
  BY NothingAssumption
<1>2. users' \in [Emails -> User \cup {NoRow}]
  BY DEF AccountsOK
<1>3. VerifiedStays
  BY <1>1 DEF VerifiedStays, Verified, AccountsOK
<1>4. LinksOK'
  BY <1>1, <1>3 DEF LinksOK, AccountsOK, VerifiedStays, Verified, Link
<1> QED BY <1>2, <1>3, <1>4 DEF AccountsOK

LEMMA ConfirmOK ==
    ASSUME AccountsOK, NEW l \in links, Service!Confirm(l)
    PROVE  AccountsOK' /\ VerifiedStays /\ Verified(l.email)'
<1> DEFINE u == [users[l.email] EXCEPT !.verified = TRUE]
<1>1. l.email \in Emails /\ users[l.email] # NoRow /\ users[l.email] \in User
  BY DEF AccountsOK, LinksOK, Link
<1>2. u \in User /\ u.verified
  BY <1>1 DEF User
<1>3. users' = [users EXCEPT ![l.email] = u] /\ links' \subseteq links
  BY DEF Service!Confirm, Service!Redeem
<1> HIDE DEF u
<1>4. AccountsOK' /\ VerifiedStays
  BY <1>1, <1>2, <1>3, UpdateOK
<1>5. users'[l.email] = u /\ u # NoRow
  BY <1>1, <1>2, <1>3, NothingAssumption DEF AccountsOK
<1> QED BY <1>1, <1>2, <1>4, <1>5 DEF Verified

LEMMA ResetOK ==
    ASSUME AccountsOK, NEW l \in links, NEW p \in Passwords, Service!ResetWithLink(l, p)
    PROVE  AccountsOK' /\ VerifiedStays /\ Verified(l.email)'
<1> DEFINE u == [users[l.email] EXCEPT !.password = p]
<1>1. l.email \in Emails /\ users[l.email] # NoRow /\ users[l.email] \in User
  BY DEF AccountsOK, LinksOK, Link
<1>2. users[l.email].verified
  BY DEF AccountsOK, LinksOK, Service!ResetWithLink
<1>3. u \in User /\ u.verified
  BY <1>1, <1>2 DEF User
<1>4. users' = [users EXCEPT ![l.email] = u] /\ links' \subseteq links
  BY DEF Service!ResetWithLink, Service!Redeem
<1> HIDE DEF u
<1>5. AccountsOK' /\ VerifiedStays
  BY <1>1, <1>3, <1>4, UpdateOK
<1> QED BY <1>1, <1>2, <1>5 DEF Verified, VerifiedStays

LEMMA ChangePasswordOK ==
    ASSUME AccountsOK, NEW e \in Emails, NEW p \in Passwords, Service!ChangePassword(e, p)
    PROVE  AccountsOK' /\ VerifiedStays
<1> DEFINE u == [users[e] EXCEPT !.password = p]
<1>1. users[e] # NoRow /\ users[e] \in User
  BY DEF AccountsOK, Service!ChangePassword
<1>2. u \in User /\ (users[e].verified => u.verified)
  BY <1>1 DEF User
<1>3. users' = [users EXCEPT ![e] = u] /\ links' \subseteq links
  BY DEF Service!ChangePassword
<1> HIDE DEF u
<1> QED BY <1>1, <1>2, <1>3, UpdateOK

----------------------------------------------------------------------------
\* The inductive invariant behind TypeOK and SessionNamesAccount

RequestOK(r) ==
    /\ pc[r] # "idle" => form[r] \in Forms /\ from[r] \in Origin
    /\ pc[r] \in {"idle", "sent"} => sd[r] = NewSession
    /\ pc[r] = "guarded" /\ form[r].route \in SignedInRoutes => SignedIn(r)
    /\ sd[r].status = "Modified" => SignedIn(r)
    /\ sd[r].status = "Destroyed" => sd[r].id = None
    /\ SignedIn(r) => Verified(sd[r].email)

StoreOK == \A i \in SessionIds : sessions[i] # NoRow => Verified(sessions[i])

WebInv ==
    /\ TypeOK
    /\ LinksOK
    /\ StoreOK
    /\ \A r \in Requests : RequestOK(r)

\* The types of what a step of a request changes besides the accounts
RequestsTyped ==
    /\ sessions \in [SessionIds -> Emails \cup {NoRow}]
    /\ cookie \in [Browsers -> SessionIds \cup {None}]
    /\ pc \in [Requests -> {"idle", "sent", "loaded", "guarded", "handled", "answered"}]
    /\ form \in [Requests -> Forms \cup {None}]
    /\ from \in [Requests -> Origin \cup {None}]
    /\ sd \in [Requests -> SessionData]
    /\ answer \in [Requests -> Answers \cup {None}]

\* A step of r keeps the invariant of the other requests.
LEMMA StepOK ==
    ASSUME WebInv, NEW r \in Requests,
           AccountsOK', VerifiedStays, RequestsTyped',
           proved' \in [Browsers -> SUBSET Emails],
           \A q \in Requests \ {r} : /\ pc'[q] = pc[q] /\ form'[q] = form[q]
                                     /\ from'[q] = from[q] /\ sd'[q] = sd[q],
           RequestOK(r)',
           \A i \in SessionIds :
                \/ sessions'[i] \in {sessions[i], NoRow}
                \/ \E e \in Emails : sessions'[i] = e /\ Verified(e)'
    PROVE  WebInv'
<1>1. TypeOK'
  BY DEF TypeOK, AccountsOK, RequestsTyped
<1>2. StoreOK'
  BY DEF WebInv, StoreOK, VerifiedStays, Verified
<1>3. ASSUME NEW q \in Requests \ {r} PROVE RequestOK(q)'
  BY DEF WebInv, RequestOK, SignedIn, VerifiedStays, Verified
<1> QED BY <1>1, <1>2, <1>3 DEF WebInv, AccountsOK

\* Steps that leave the accounts alone
LEMMA SameAccounts ==
    ASSUME WebInv, UNCHANGED accounts
    PROVE  AccountsOK' /\ VerifiedStays
BY DEF WebInv, TypeOK, AccountsOK, LinksOK, VerifiedStays, Verified, accounts

LEMMA NewSessionType == NewSession \in SessionData
BY DEF NewSession, SessionData

LEMMA FormFields ==
    ASSUME NEW f \in Forms
    PROVE  /\ f.route \in AllRoutes
           /\ f.route \in {"Signin", "Signup", "ResendSignupToken", "ResetPassword"}
                => f.email \in Emails
           /\ f.route \in {"Signin", "Signup", "ChangePassword", "ChangePasswordWithToken"}
                => f.password \in Passwords
           /\ f.route = "Signup" => f.name \in Names
           /\ f.route \in {"SignupToken", "ResetPasswordToken", "ChangePasswordWithToken"}
                => f.token \in Tokens
BY DEF Forms, AllRoutes, SignedInRoutes, SignedOutRoutes, OpenRoutes

LEMMA PageType ==
    ASSUME NEW v \in Views, NEW f \in (SUBSET FieldNames) \cup {None}
    PROVE  Page(v, f) \in Answers /\ Redirect(v) \in Answers
BY DEF Page, Redirect, Answers

LEMMA ViewFacts ==
    ASSUME NEW route
    PROVE  ErrorView(route) \in Views /\ FieldsOf(route) \in SUBSET FieldNames
BY DEF ErrorView, FieldsOf, Views, FieldNames

LEMMA InitOK == Init => WebInv
BY NewSessionType
   DEF Init, Service!Init, WebInv, TypeOK, LinksOK, StoreOK, RequestOK, SignedIn, NewSession

----------------------------------------------------------------------------
\* The browser and the middlewares

LEMMA SendOK ==
    ASSUME WebInv, NEW r \in Requests, Send(r)
    PROVE  WebInv'
<1>1. PICK b \in Browsers : from' = [from EXCEPT ![r] = [browser |-> b, cookie |-> cookie[b]]]
  BY DEF Send
<1>2. PICK f \in Forms : form' = [form EXCEPT ![r] = f]
  BY DEF Send
<1>3. [browser |-> b, cookie |-> cookie[b]] \in Origin
  BY DEF WebInv, TypeOK, Origin
<1>4. RequestsTyped'
  BY <1>1, <1>2, <1>3 DEF Send, WebInv, TypeOK, RequestsTyped
<1>5. sd[r] = NewSession /\ sd' = sd /\ pc'[r] = "sent"
  BY DEF Send, WebInv, TypeOK, RequestOK
<1>6. RequestOK(r)'
  BY <1>1, <1>2, <1>3, <1>5 DEF RequestOK, SignedIn, NewSession, WebInv, TypeOK
<1> QED BY <1>1, <1>2, <1>4, <1>6, SameAccounts, StepOK DEF Send, WebInv, TypeOK

LEMMA EndOK ==
    ASSUME WebInv, NEW r \in Requests, End(r),
           cookie' \in [Browsers -> SessionIds \cup {None}],
           proved' \in [Browsers -> SUBSET Emails]
    PROVE  WebInv'
<1>1. RequestsTyped'
  BY NewSessionType DEF End, WebInv, TypeOK, RequestsTyped
<1>2. RequestOK(r)'
  BY DEF End, RequestOK, SignedIn, NewSession, WebInv, TypeOK
<1> QED BY <1>1, <1>2, SameAccounts, StepOK DEF End, WebInv, TypeOK

LEMMA ReceiveOK ==
    ASSUME WebInv, NEW r \in Requests, Receive(r)
    PROVE  WebInv'
<1>1. sd[r].id \in SessionIds \cup {None}
  BY DEF WebInv, TypeOK, SessionData
<1>2. cookie' \in [Browsers -> SessionIds \cup {None}]
  BY <1>1 DEF Receive, WebInv, TypeOK
<1>3. proved' \in [Browsers -> SUBSET Emails]
  BY DEF Receive, WebInv, TypeOK
<1> QED BY <1>2, <1>3, EndOK DEF Receive

LEMMA DropOK ==
    ASSUME WebInv, NEW r \in Requests, Drop(r)
    PROVE  WebInv'
BY EndOK DEF Drop, WebInv, TypeOK

LEMMA RejectOK ==
    ASSUME WebInv, NEW r \in Requests, Reject(r)
    PROVE  WebInv'
<1>1. Page("index", None) \in Answers
  BY PageType DEF Views
<1>2. RequestsTyped'
  BY <1>1 DEF Reject, Answer, WebInv, TypeOK, RequestsTyped
<1>3. RequestOK(r)'
  BY DEF Reject, Answer, RequestOK, SignedIn, NewSession, WebInv, TypeOK
<1> QED BY <1>2, <1>3, SameAccounts, StepOK DEF Reject, Answer, WebInv, TypeOK

\* A session that is loaded names a verified account.
LEMMA LoadedOK ==
    ASSUME WebInv, NEW i \in SessionIds \cup {None}
    PROVE  /\ Loaded(i) \in SessionData
           /\ Loaded(i).status = "Modified" => Loaded(i).email # None
           /\ Loaded(i).status # "Destroyed"
           /\ Loaded(i).email # None => Verified(Loaded(i).email)
<1>1. CASE i # None /\ sessions[i] # NoRow
  BY <1>1, NothingAssumption DEF Loaded, SessionData, WebInv, TypeOK, StoreOK
<1>2. CASE ~ (i # None /\ sessions[i] # NoRow)
  BY <1>2, NewSessionType DEF Loaded, NewSession
<1> QED BY <1>1, <1>2

LEMMA LoadOK ==
    ASSUME WebInv, NEW r \in Requests, Load(r)
    PROVE  WebInv'
<1>1. from[r].cookie \in SessionIds \cup {None}
  BY DEF Load, WebInv, RequestOK, Origin
<1>2. RequestsTyped'
  BY <1>1, LoadedOK DEF Load, WebInv, TypeOK, RequestsTyped
<1>3. sd'[r] = Loaded(from[r].cookie) /\ pc'[r] = "loaded"
  BY DEF Load, WebInv, TypeOK
<1>4. RequestOK(r)'
  BY <1>1, <1>3, LoadedOK, SameAccounts
     DEF Load, RequestOK, SignedIn, WebInv, VerifiedStays, Verified
<1> QED BY <1>2, <1>4, SameAccounts, StepOK DEF Load, WebInv, TypeOK

LEMMA GuardOK ==
    ASSUME WebInv, NEW r \in Requests, Guard(r)
    PROVE  WebInv'
<1>1. Redirect("index") \in Answers /\ Redirect("signin") \in Answers
  BY PageType DEF Views
<1>2. RequestsTyped'
  BY <1>1 DEF Guard, Answer, WebInv, TypeOK, RequestsTyped
<1>3. sd' = sd /\ form' = form /\ from' = from /\ pc'[r] \in {"handled", "guarded"}
  BY DEF Guard, Answer, WebInv, TypeOK
<1>4. pc'[r] = "guarded" /\ ~ SignedIn(r) => form[r].route \notin SignedInRoutes
  BY DEF Guard, Answer, WebInv, TypeOK
<1>5. RequestOK(r)'
  BY <1>3, <1>4, SameAccounts DEF Guard, RequestOK, SignedIn, WebInv, VerifiedStays, Verified
<1> QED BY <1>2, <1>5, SameAccounts, StepOK DEF Guard, Answer, WebInv, TypeOK

LEMMA RespondOK ==
    ASSUME WebInv, NEW r \in Requests, Respond(r)
    PROVE  WebInv'
<1>1. sd[r] \in SessionData /\ RequestOK(r) /\ pc[r] = "handled"
  BY DEF Respond, WebInv, TypeOK
<1>2. CASE sd[r].status # "Modified" /\ UNCHANGED <<sessions, sd>>
  <2>1. RequestsTyped'
    BY <1>2 DEF Respond, WebInv, TypeOK, RequestsTyped
  <2>2. RequestOK(r)'
    BY <1>1, <1>2, SameAccounts DEF Respond, RequestOK, SignedIn, WebInv, TypeOK, VerifiedStays, Verified
  <2> QED BY <1>2, <2>1, <2>2, SameAccounts, StepOK DEF Respond, WebInv, TypeOK
<1>3. CASE sd[r].status = "Modified"
  <2>1. PICK i \in SessionIds :
            /\ sessions' = [sessions EXCEPT ![i] = sd[r].email]
            /\ sd' = [sd EXCEPT ![r].id = i]
    BY <1>3 DEF Respond
  <2>2. sd[r].email \in Emails /\ Verified(sd[r].email)
    BY <1>1, <1>3 DEF RequestOK, Verified
  <2>3. /\ sd'[r] \in SessionData /\ sd'[r].email = sd[r].email
        /\ sd'[r].status = "Modified" /\ sd' = [sd EXCEPT ![r] = sd'[r]]
    BY <1>1, <1>3, <2>1 DEF SessionData, WebInv, TypeOK
  <2>4. RequestsTyped'
    BY <2>1, <2>2, <2>3 DEF Respond, WebInv, TypeOK, RequestsTyped
  <2>5. RequestOK(r)'
    BY <1>1, <2>2, <2>3, SameAccounts
       DEF Respond, RequestOK, SignedIn, WebInv, TypeOK, VerifiedStays, Verified
  <2>6. \E e \in Emails : sd[r].email = e /\ Verified(e)'
    BY <2>2, SameAccounts DEF Respond, VerifiedStays, Verified
  <2> QED BY <2>1, <2>2, <2>4, <2>5, <2>6, SameAccounts, StepOK DEF Respond, WebInv, TypeOK
<1> QED BY <1>2, <1>3 DEF Respond

LEMMA ExpireOK ==
    ASSUME WebInv, NEW i \in SessionIds, Expire(i)
    PROVE  WebInv'
<1>1. TypeOK'
  BY DEF Expire, accounts, request, WebInv, TypeOK
<1>2. LinksOK' /\ StoreOK'
  BY DEF Expire, accounts, WebInv, TypeOK, LinksOK, StoreOK, Verified
<1>3. ASSUME NEW r \in Requests PROVE RequestOK(r)'
  BY DEF Expire, accounts, request, WebInv, RequestOK, SignedIn, Verified
<1> QED BY <1>1, <1>2, <1>3 DEF WebInv

----------------------------------------------------------------------------
\* The handlers

\* A handler that leaves the session data d to the request
LEMMA HandlerOK ==
    ASSUME WebInv, NEW r \in Requests, pc[r] = "guarded", AccountsOK', VerifiedStays,
           NEW a \in Answers, Answer(r, a, "handled"),
           NEW d \in SessionData, sd' = [sd EXCEPT ![r] = d],
           d.status = "Modified" => d.email # None,
           d.status = "Destroyed" => d.id = None,
           d.email # None => \E e \in Emails : e = d.email /\ Verified(e)',
           UNCHANGED <<cookie, form, from>>,
           sessions' \in [SessionIds -> Emails \cup {NoRow}],
           \A i \in SessionIds : sessions'[i] \in {sessions[i], NoRow},
           proved' \in [Browsers -> SUBSET Emails]
    PROVE  WebInv'
<1>1. RequestsTyped'
  BY DEF Answer, WebInv, TypeOK, RequestsTyped
<1>2. RequestOK(r)'
  BY DEF Answer, WebInv, TypeOK, RequestOK, SignedIn, Verified
<1> QED BY <1>1, <1>2, StepOK DEF Answer, WebInv, TypeOK

LEMMA ShowOK ==
    ASSUME WebInv, NEW r \in Requests, pc[r] = "guarded", AccountsOK', VerifiedStays,
           NEW a \in Answers, Show(r, a)
    PROVE  WebInv'
<1>1. sd[r] \in SessionData /\ sd' = [sd EXCEPT ![r] = sd[r]]
  BY DEF Show, WebInv, TypeOK
<1>2. /\ sd[r].status = "Modified" => sd[r].email # None
      /\ sd[r].status = "Destroyed" => sd[r].id = None
      /\ sd[r].email # None => \E e \in Emails : e = sd[r].email /\ Verified(e)'
  BY DEF WebInv, RequestOK, SignedIn, VerifiedStays, Verified
<1> QED BY <1>1, <1>2, HandlerOK DEF Show, WebInv, TypeOK

LEMMA ProveType ==
    ASSUME WebInv, NEW r \in Requests, Prove(r)
    PROVE  proved' \in [Browsers -> SUBSET Emails]
BY DEF Prove, ProvenBy, WebInv, TypeOK

LEMMA EnterOK ==
    ASSUME WebInv, NEW r \in Requests, pc[r] = "guarded", AccountsOK', VerifiedStays,
           NEW e \in Emails, Verified(e)', Enter(r, e), Prove(r)
    PROVE  WebInv'
<1> DEFINE d == [sd[r] EXCEPT !.email = e, !.status = "Modified"]
<1>0. sd[r] \in SessionData /\ e # None
  BY NothingAssumption DEF WebInv, TypeOK
<1>1. d \in SessionData /\ d.email = e /\ d.status = "Modified"
  BY <1>0 DEF SessionData
<1>2. sd' = [sd EXCEPT ![r] = d]
  BY DEF Enter, WebInv, TypeOK
<1>3. Redirect("index") \in Answers
  BY PageType DEF Views
<1> HIDE DEF d
<1> QED BY <1>0, <1>1, <1>2, <1>3, ProveType, HandlerOK DEF Enter, WebInv, TypeOK

LEMMA HandleOK ==
    ASSUME WebInv, NEW r \in Requests, Handle(r)
    PROVE  WebInv'
<1>0. form[r] \in Forms /\ pc[r] = "guarded" /\ AccountsOK /\ sd[r] \in SessionData
  BY DEF Handle, PageRenderer, Refuse, At, Signin, Signup, SignupToken, Signout,
         SignoutFails, ResendSignupToken, ResetPassword, ResetPasswordToken,
         ChangePassword, ChangePasswordWithToken, WebInv, TypeOK, RequestOK, AccountsOK
<1>1. CASE PageRenderer(r)
  <2>1. Page(form[r].route, None) \in Answers
    BY <1>1, PageType DEF PageRenderer
  <2> QED BY <1>0, <1>1, <2>1, SameAccounts, ShowOK DEF PageRenderer
<1>2. CASE Refuse(r)
  <2>1. PICK a \in Answers : Show(r, a)
    BY <1>2, ViewFacts, PageType DEF Refuse
  <2> QED BY <1>0, <1>2, <2>1, SameAccounts, ShowOK DEF Refuse
<1>3. CASE Signin(r)
  <2>1. form[r].email \in Emails
    BY <1>0, <1>3, FormFields DEF Signin, At
  <2>2. Verified(form[r].email)
    BY <1>3, <2>1 DEF Signin, Verified
  <2>3. \E e \in Emails : e = form[r].email /\ Verified(e)'
    BY <1>3, <2>1, <2>2, SameAccounts DEF Signin, VerifiedStays
  <2> QED BY <1>0, <1>3, <2>3, SameAccounts, EnterOK DEF Signin
<1>4. CASE Signup(r)
  <2>1. PICK t \in Tokens :
            Service!Register(form[r].email, form[r].name, form[r].password, t)
    BY <1>4 DEF Signup
  <2>2. AccountsOK' /\ VerifiedStays
    BY <1>0, <1>4, <2>1, FormFields, RegisterOK DEF Signup, At
  <2>3. Page("signin", None) \in Answers
    BY PageType DEF Views
  <2> QED BY <1>0, <1>4, <2>2, <2>3, ShowOK DEF Signup
<1>5. CASE SignupToken(r)
  <2>1. PICK l \in links : Service!Confirm(l) /\ Enter(r, l.email)
    BY <1>5 DEF SignupToken
  <2>2. l.email \in Emails
    BY <1>0 DEF AccountsOK, Link
  <2>3. AccountsOK' /\ VerifiedStays /\ Verified(l.email)'
    BY <1>0, <2>1, ConfirmOK
  <2> QED BY <1>0, <1>5, <2>1, <2>2, <2>3, EnterOK DEF SignupToken
<1>6. CASE Signout(r)
  <2> DEFINE d == [id |-> None, email |-> None, status |-> "Destroyed"]
  <2>1. d \in SessionData /\ d.email = None /\ d.id = None /\ d.status # "Modified"
    BY DEF SessionData
  <2>2. Redirect("signin") \in Answers
    BY PageType DEF Views
  <2>3. sessions' \in [SessionIds -> Emails \cup {NoRow}]
    BY <1>6 DEF Signout, WebInv, TypeOK
  <2>4. \A i \in SessionIds : sessions'[i] \in {sessions[i], NoRow}
    BY <1>6 DEF Signout, WebInv, TypeOK
  <2>5. sd' = [sd EXCEPT ![r] = d]
    BY <1>6 DEF Signout
  <2> HIDE DEF d
  <2> QED BY <1>0, <1>6, <2>1, <2>2, <2>3, <2>4, <2>5, SameAccounts, HandlerOK
          DEF Signout, WebInv, TypeOK
<1>7. CASE SignoutFails(r)
  <2>1. Page("index", None) \in Answers
    BY PageType DEF Views
  <2> QED BY <1>0, <1>7, <2>1, SameAccounts, ShowOK DEF SignoutFails
<1>8. CASE ResendSignupToken(r)
  <2>1. PICK a \in Answers : Show(r, a)
    <3>1. Page("signin", None) \in Answers /\ Page("signin", FieldsOf(form[r].route)) \in Answers
      BY PageType, ViewFacts DEF Views
    <3> QED BY <1>8, <3>1 DEF ResendSignupToken
  <2>2. AccountsOK' /\ VerifiedStays
    <3>1. form[r].email \in Emails
      BY <1>0, <1>8, FormFields DEF ResendSignupToken, At
    <3>2. CASE UNCHANGED accounts
      BY <3>2, SameAccounts
    <3>3. CASE \E t \in Tokens : Service!Reissue(form[r].email, t)
      BY <1>0, <3>1, <3>3, ReissueOK
    <3> QED BY <1>8, <3>2, <3>3 DEF ResendSignupToken
  <2> QED BY <1>0, <2>1, <2>2, ShowOK
<1>9. CASE ResetPassword(r)
  <2>1. form[r].email \in Emails
    BY <1>0, <1>9, FormFields DEF ResetPassword, At
  <2>2. PICK t \in Tokens : Service!RequestReset(form[r].email, t)
    BY <1>9 DEF ResetPassword
  <2>3. AccountsOK' /\ VerifiedStays
    BY <1>0, <2>1, <2>2, ReissueOK
  <2>4. Page("signin", None) \in Answers
    BY PageType DEF Views
  <2> QED BY <1>0, <1>9, <2>3, <2>4, ShowOK DEF ResetPassword
<1>10. CASE ResetPasswordToken(r)
  <2>1. Page("reset-password-token", FieldsOf(form[r].route)) \in Answers
    BY PageType, ViewFacts DEF Views
  <2> QED BY <1>0, <1>10, <2>1, SameAccounts, ShowOK DEF ResetPasswordToken
<1>11. CASE ChangePassword(r)
  <2>1. SignedIn(r)
    BY <1>11 DEF ChangePassword, At, WebInv, RequestOK, SignedInRoutes
  <2>2. sd[r].email \in Emails
    BY <1>0, <2>1 DEF SignedIn, SessionData
  <2>3. AccountsOK' /\ VerifiedStays
    BY <1>0, <1>11, <2>2, FormFields, ChangePasswordOK DEF ChangePassword, At
  <2>4. Page("index", None) \in Answers
    BY PageType DEF Views
  <2> QED BY <1>0, <1>11, <2>3, <2>4, ShowOK DEF ChangePassword
<1>12. CASE ChangePasswordWithToken(r)
  <2>1. PICK l \in links : Service!ResetWithLink(l, form[r].password) /\ Enter(r, l.email)
    BY <1>12 DEF ChangePasswordWithToken
  <2>2. l.email \in Emails /\ form[r].password \in Passwords
    BY <1>0, <1>12, FormFields DEF AccountsOK, Link, ChangePasswordWithToken, At
  <2>3. AccountsOK' /\ VerifiedStays /\ Verified(l.email)'
    BY <1>0, <2>1, <2>2, ResetOK
  <2> QED BY <1>0, <1>12, <2>1, <2>2, <2>3, EnterOK DEF ChangePasswordWithToken
<1> QED BY <1>1, <1>2, <1>3, <1>4, <1>5, <1>6, <1>7, <1>8, <1>9, <1>10, <1>11, <1>12 DEF Handle

----------------------------------------------------------------------------
\* Every step keeps the invariant.

LEMMA NextOK ==
    ASSUME WebInv, [Next]_vars
    PROVE  WebInv'
<1>1. ASSUME NEW r \in Requests,
             Send(r) \/ Receive(r) \/ Drop(r) \/ Reject(r) \/ Load(r) \/ Guard(r)
                \/ Handle(r) \/ Respond(r)
      PROVE  WebInv'
  BY <1>1, SendOK, ReceiveOK, DropOK, RejectOK, LoadOK, GuardOK, HandleOK, RespondOK
<1>2. ASSUME NEW i \in SessionIds, Expire(i) PROVE WebInv'
  BY <1>2, ExpireOK
<1>3. CASE UNCHANGED vars
  <2>1. TypeOK' /\ LinksOK' /\ StoreOK'
    BY <1>3 DEF vars, accounts, request, WebInv, TypeOK, LinksOK, StoreOK, Verified
  <2>2. ASSUME NEW r \in Requests PROVE RequestOK(r)'
    BY <1>3 DEF vars, accounts, request, WebInv, RequestOK, SignedIn, Verified
  <2> QED BY <2>1, <2>2 DEF WebInv
<1> QED BY <1>1, <1>2, <1>3 DEF Next

\* The invariant of the sessions holds in every reachable state (auth.go,
\* handler.go, sessionmanager.go).
THEOREM WebInvariant == Spec => []WebInv
BY InitOK, NextOK, PTL DEF Spec

\* Every variable keeps its type; among them, no session is ever stored for a
\* visitor who is not signed in (sessionmanager.go:40).
THEOREM WebTypeCorrect == Spec => []TypeOK
<1>1. WebInv => TypeOK
  BY DEF WebInv
<1> QED BY <1>1, WebInvariant, PTL

\* For any number of browsers, requests and accounts, a session names a
\* verified account (auth.go:394-397).
THEOREM SessionsNameAccounts == Spec => []SessionNamesAccount
<1>1. WebInv => SessionNamesAccount
  BY DEF WebInv, StoreOK, RequestOK, SessionNamesAccount
<1> QED BY <1>1, WebInvariant, PTL

----------------------------------------------------------------------------
\* What requests are answered with

\* A page can be rendered; a redirect fits the session the request leaves; and
\* a session that is signed in is committed, which gives it an id.
LandOK(r) ==
    /\ answer[r] # None /\ answer[r].kind = "page" => Renders(answer[r].view, answer[r].fields)
    /\ SignedIn(r) => sd[r].status = "Modified"
    /\ SignedIn(r) /\ pc[r] = "answered" => sd[r].id # None
    /\ pc[r] \in {"handled", "answered"} /\ answer[r].kind = "redirect" =>
            IF SignedIn(r) THEN answer[r].view \notin SignedOutRoutes
            ELSE answer[r].view \notin SignedInRoutes

LandInv == WebInv /\ \A r \in Requests : LandOK(r)

LEMMA AnswerFacts ==
    ASSUME NEW v
    PROVE  /\ Redirect(v).kind = "redirect" /\ Redirect(v).view = v
           /\ \A f : Page(v, f).kind = "page" /\ Page(v, f).view = v /\ Page(v, f).fields = f
BY DEF Redirect, Page

\* Every page but one can be rendered without fields; the form of a handler can
\* be rendered on the page of its errors with the fields it sets.
LEMMA PlainPages ==
    ASSUME NEW v \in Views, v # "reset-password-token"
    PROVE  Renders(v, None)
BY DEF Renders

LEMMA FormPages ==
    ASSUME NEW route \in AllRoutes \ (Views \cup OpenRoutes \cup {"Signout"})
    PROVE  Renders(ErrorView(route), FieldsOf(route))
<1>1. FieldsOf(route) # None
  BY ViewFacts, NoFieldsAssumption
<1>2. ErrorView(route) \in Views
  BY ViewFacts
<1>3. FieldsRead(ErrorView(route)) \subseteq FieldsOf(route)
  BY DEF FieldsRead, ErrorView, FieldsOf, AllRoutes, SignedInRoutes, SignedOutRoutes,
         OpenRoutes, Views
<1> QED BY <1>1, <1>2, <1>3 DEF Renders

\* ResendSignupToken sets fields for the page to sign in, ResetPasswordToken for
\* the page that its link opens.
LEMMA OtherPages ==
    /\ Renders("signin", FieldsOf("ResendSignupToken"))
    /\ Renders("reset-password-token", FieldsOf("ResetPasswordToken"))
<1>1. \A route : FieldsOf(route) # None
  BY ViewFacts, NoFieldsAssumption
<1>2. /\ FieldsRead("signin") \subseteq FieldsOf("ResendSignupToken")
      /\ FieldsRead("reset-password-token") \subseteq FieldsOf("ResetPasswordToken")
  BY DEF FieldsRead, FieldsOf
<1> QED BY <1>1, <1>2 DEF Renders, Views

LEMMA InitLands == Init => LandInv
BY InitOK, NothingAssumption DEF Init, LandInv, LandOK, SignedIn, NewSession

\* A handler that shows a page, or enters an account
LEMMA ShowLands ==
    ASSUME LandInv, NEW r \in Requests, NEW v, NEW f, Show(r, Page(v, f)), Renders(v, f)
    PROVE  LandOK(r)'
<1>1. answer'[r] = Page(v, f) /\ pc'[r] = "handled" /\ sd' = sd
  BY DEF LandInv, WebInv, TypeOK, Show, Answer
<1>2. answer'[r].kind = "page" /\ answer'[r].view = v /\ answer'[r].fields = f
  BY <1>1, AnswerFacts
<1>3. Renders(answer'[r].view, answer'[r].fields)
  BY <1>2
<1> QED BY <1>1, <1>2, <1>3 DEF LandInv, LandOK, SignedIn

LEMMA EnterLands ==
    ASSUME LandInv, NEW r \in Requests, NEW e \in Emails, Enter(r, e)
    PROVE  LandOK(r)'
<1>1. sd[r] \in SessionData /\ e # None
  BY NothingAssumption DEF LandInv, WebInv, TypeOK
<1>2. sd'[r].email = e /\ sd'[r].status = "Modified"
  BY <1>1 DEF Enter, SessionData, LandInv, WebInv, TypeOK
<1>3. pc'[r] = "handled" /\ answer'[r] = Redirect("index")
  BY DEF Enter, Answer, LandInv, WebInv, TypeOK
<1> QED BY <1>1, <1>2, <1>3, AnswerFacts DEF LandOK, SignedIn, SignedOutRoutes

LEMMA HandleLands ==
    ASSUME LandInv, NEW r \in Requests, Handle(r)
    PROVE  LandOK(r)'
<1>0. form[r] \in Forms /\ form[r].route \in AllRoutes
  BY FormFields
     DEF Handle, PageRenderer, Refuse, At, Signin, Signup, SignupToken, Signout,
         SignoutFails, ResendSignupToken, ResetPassword, ResetPasswordToken,
         ChangePassword, ChangePasswordWithToken, LandInv, WebInv, RequestOK
<1>1. \A v \in {"signin", "index"} : Renders(v, None)
  BY PlainPages DEF Views
<1>2. CASE PageRenderer(r)
  <2>1. form[r].route # "reset-password-token"
    BY <1>0 DEF AllRoutes, SignedInRoutes, SignedOutRoutes, OpenRoutes
  <2> QED BY <1>2, <2>1, PlainPages, ShowLands DEF PageRenderer
<1>3. CASE Refuse(r)
  <2>1. CASE form[r].route \in OpenRoutes
    <3>1. ErrorView(form[r].route) \in Views \ {"reset-password-token"}
      BY <2>1 DEF ErrorView, Views, OpenRoutes
    <3> QED BY <1>3, <2>1, <3>1, PlainPages, ShowLands DEF Refuse
  <2>2. CASE form[r].route \notin OpenRoutes
    BY <1>0, <1>3, <2>2, FormPages, ShowLands DEF Refuse
  <2> QED BY <2>1, <2>2
<1>4. CASE Signin(r)
  <2>1. form[r].email \in Emails
    BY <1>0, <1>4, FormFields DEF Signin, At
  <2> QED BY <1>4, <2>1, EnterLands DEF Signin
<1>5. CASE SignupToken(r) \/ ChangePasswordWithToken(r)
  <2>1. PICK l \in links : Enter(r, l.email)
    BY <1>5 DEF SignupToken, ChangePasswordWithToken
  <2>2. l.email \in Emails
    BY DEF LandInv, WebInv, TypeOK, Link
  <2> QED BY <2>1, <2>2, EnterLands
<1>6. CASE Signout(r)
  <2>1. sd'[r].email = None /\ pc'[r] = "handled" /\ answer'[r] = Redirect("signin")
    BY <1>6 DEF Signout, Answer, LandInv, WebInv, TypeOK
  <2> QED BY <2>1, AnswerFacts DEF LandOK, SignedIn, SignedInRoutes
<1>7. CASE SignoutFails(r) \/ ChangePassword(r) \/ Signup(r) \/ ResetPassword(r)
  BY <1>1, <1>7, ShowLands DEF SignoutFails, ChangePassword, Signup, ResetPassword
<1>8. CASE ResendSignupToken(r)
  BY <1>1, <1>8, OtherPages, ShowLands DEF ResendSignupToken, At
<1>9. CASE ResetPasswordToken(r)
  BY <1>9, OtherPages, ShowLands DEF ResetPasswordToken, At
<1> QED BY <1>2, <1>3, <1>4, <1>5, <1>6, <1>7, <1>8, <1>9 DEF Handle

LEMMA RequestLands ==
    ASSUME LandInv, NEW r \in Requests,
           Send(r) \/ Receive(r) \/ Drop(r) \/ Reject(r) \/ Load(r) \/ Guard(r)
                \/ Handle(r) \/ Respond(r)
    PROVE  LandOK(r)'
<1> USE DEF LandInv, WebInv, TypeOK
<1>1. CASE Send(r)
  BY <1>1 DEF Send, LandOK, SignedIn
<1>2. CASE Receive(r) \/ Drop(r)
  BY <1>2 DEF Receive, Drop, End, LandOK, SignedIn, NewSession
<1>3. CASE Reject(r)
  <2>1. Renders("index", None)
    BY PlainPages DEF Views
  <2>2. ~ SignedIn(r)
    BY <1>3 DEF Reject, RequestOK, SignedIn, NewSession
  <2>3. answer'[r] = Page("index", None) /\ sd' = sd
    BY <1>3 DEF Reject, Answer
  <2>4. answer'[r].kind = "page" /\ answer'[r].view = "index" /\ answer'[r].fields = None
    BY <2>3 DEF Page
  <2>5. Renders(answer'[r].view, answer'[r].fields)
    BY <2>1, <2>4
  <2> QED BY <2>2, <2>3, <2>4, <2>5 DEF LandOK, SignedIn
<1>4. CASE Load(r)
  <2>1. sd'[r] = Loaded(from[r].cookie) /\ answer' = answer /\ pc'[r] = "loaded"
    BY <1>4 DEF Load
  <2>2. Loaded(from[r].cookie).email # None => Loaded(from[r].cookie).status = "Modified"
    BY DEF Loaded, NewSession
  <2> QED BY <2>1, <2>2 DEF LandOK, SignedIn
<1>5. CASE Guard(r)
  BY <1>5, AnswerFacts
     DEF Guard, Answer, LandOK, SignedIn, SignedInRoutes, SignedOutRoutes
<1>6. CASE Handle(r)
  BY <1>6, HandleLands
<1>7. CASE Respond(r)
  <2>1. CASE sd[r].status # "Modified" /\ UNCHANGED <<sessions, sd>>
    BY <1>7, <2>1 DEF Respond, LandOK, SignedIn
  <2>2. CASE sd[r].status = "Modified"
    <3>1. PICK i \in SessionIds : sd' = [sd EXCEPT ![r].id = i]
      BY <1>7, <2>2 DEF Respond
    <3>2. /\ sd'[r].id = i /\ sd'[r].email = sd[r].email
          /\ sd'[r].status = sd[r].status /\ i # None
      BY <3>1, NothingAssumption DEF SessionData
    <3> QED BY <1>7, <3>2 DEF Respond, LandOK, SignedIn
  <2> QED BY <1>7, <2>1, <2>2 DEF Respond
<1> QED BY <1>1, <1>2, <1>3, <1>4, <1>5, <1>6, <1>7

\* A step of one request leaves the others where they were.
LEMMA OthersStay ==
    ASSUME LandInv, NEW r \in Requests, NEW q \in Requests \ {r},
           Send(r) \/ Receive(r) \/ Drop(r) \/ Reject(r) \/ Load(r) \/ Guard(r)
                \/ Handle(r) \/ Respond(r)
    PROVE  pc'[q] = pc[q] /\ sd'[q] = sd[q] /\ answer'[q] = answer[q]
<1> USE DEF LandInv, WebInv, TypeOK
<1>1. CASE Send(r) \/ Receive(r) \/ Drop(r) \/ Load(r) \/ Respond(r)
  BY <1>1 DEF Send, Receive, Drop, End, Load, Respond
<1>2. CASE Reject(r) \/ Guard(r)
  BY <1>2 DEF Reject, Guard, Answer
<1>3. CASE PageRenderer(r) \/ Refuse(r) \/ Signup(r) \/ SignoutFails(r)
            \/ ResendSignupToken(r) \/ ResetPassword(r) \/ ResetPasswordToken(r)
            \/ ChangePassword(r)
  BY <1>3 DEF PageRenderer, Refuse, Signup, SignoutFails, ResendSignupToken, ResetPassword,
              ResetPasswordToken, ChangePassword, Show, Answer
<1>4. CASE Signin(r) \/ SignupToken(r) \/ Signout(r) \/ ChangePasswordWithToken(r)
  BY <1>4 DEF Signin, SignupToken, Signout, ChangePasswordWithToken, Enter, Answer
<1> QED BY <1>1, <1>2, <1>3, <1>4 DEF Handle

LEMMA NextLands ==
    ASSUME LandInv, [Next]_vars
    PROVE  LandInv'
<1>0. WebInv'
  BY NextOK DEF LandInv
<1>1. ASSUME NEW r \in Requests,
             Send(r) \/ Receive(r) \/ Drop(r) \/ Reject(r) \/ Load(r) \/ Guard(r)
                \/ Handle(r) \/ Respond(r)
      PROVE  \A q \in Requests : LandOK(q)'
  <2>1. ASSUME NEW q \in Requests \ {r} PROVE LandOK(q)'
    BY <1>1, <2>1, OthersStay DEF LandInv, LandOK, SignedIn
  <2> QED BY <1>1, <2>1, RequestLands
<1>2. ASSUME UNCHANGED request PROVE \A q \in Requests : LandOK(q)'
  BY <1>2 DEF request, LandInv, LandOK, SignedIn
<1>3. (\E i \in SessionIds : Expire(i)) \/ UNCHANGED vars => UNCHANGED request
  BY DEF Expire, vars, request
<1> QED BY <1>0, <1>1, <1>2, <1>3 DEF Next, LandInv

THEOREM LandInvariant == Spec => []LandInv
BY InitLands, NextLands, PTL DEF Spec

\* No page of any answer makes Render panic, whichever handler shows it on
\* whichever form's page (embeded.go:33-45).
THEOREM PagesRender == Spec => []PagesHaveTheirFields
<1>1. LandInv => PagesHaveTheirFields
  BY DEF LandInv, LandOK, PagesHaveTheirFields
<1> QED BY <1>1, LandInvariant, PTL

\* The guards never send a browser back and forth, whatever overlapping requests
\* do to its session (auth.go:414-434).
THEOREM RedirectsLandAlways == Spec => []RedirectsLand
<1>1. LandInv => RedirectsLand
  BY DEF LandInv, LandOK, RedirectsLand
<1> QED BY <1>1, LandInvariant, PTL

----------------------------------------------------------------------------
(***************************************************************************)
(* Sessions of two browsers never mix.  A browser holds a session id when  *)
(* its cookie, or a request of it, carries the id.  An id has one holder,  *)
(* and the account stored under it is one the holder proved: HoldersInv is *)
(* inductive, with the types and the state of requests from WebInv.  A     *)
(* browser that signed out with nothing else under way holds no id, which  *)
(* needs LandInv: its answer would not be a redirect to sign in if it were *)
(* signed in still.                                                        *)
(***************************************************************************)
Carries(r, b, i) ==
    from[r] # None /\ from[r].browser = b /\ (from[r].cookie = i \/ sd[r].id = i)

Holds(b, i) == cookie[b] = i \/ \E r \in Requests : Carries(r, b, i)

OneHolder ==
    \A i \in SessionIds : \A b, c \in Browsers : Holds(b, i) /\ Holds(c, i) => b = c

StoredProved ==
    \A i \in SessionIds : \A b \in Browsers :
        Holds(b, i) /\ sessions[i] # NoRow => sessions[i] \in proved[b]

WorkProved(r) == SignedIn(r) => sd[r].email \in proved[from[r].browser]

HoldersInv == OneHolder /\ StoredProved /\ \A r \in Requests : WorkProved(r)

LEMMA HoldersInit == Init => HoldersInv
BY NothingAssumption
   DEF Init, HoldersInv, OneHolder, StoredProved, WorkProved, Holds, Carries, SignedIn,
       NewSession

\* What a request that is signed in comes from
LEMMA AtWork ==
    ASSUME WebInv, NEW r \in Requests, pc[r] # "idle" \/ SignedIn(r)
    PROVE  from[r] \in Origin /\ from[r] # None /\ from[r].browser \in Browsers
<1>1. pc[r] # "idle"
  BY DEF WebInv, RequestOK, SignedIn, NewSession
<1> QED BY <1>1, NothingAssumption DEF WebInv, RequestOK, Origin

\* A step of r that gives no id to a browser which does not hold it
LEMMA KeepHolders ==
    ASSUME HoldersInv, WebInv, NEW r \in Requests,
           \A b \in Browsers : \A i \in SessionIds : Holds(b, i)' => Holds(b, i),
           \A i \in SessionIds : sessions'[i] \in {sessions[i], NoRow},
           \A b \in Browsers : proved[b] \subseteq proved'[b],
           \A q \in Requests \ {r} : sd'[q] = sd[q] /\ from'[q] = from[q],
           WorkProved(r)'
    PROVE  HoldersInv'
<1>1. OneHolder'
  BY DEF HoldersInv, OneHolder
<1>2. StoredProved'
  BY DEF HoldersInv, StoredProved
<1>3. ASSUME NEW q \in Requests \ {r} PROVE WorkProved(q)'
  BY AtWork DEF HoldersInv, WorkProved, SignedIn
<1> QED BY <1>1, <1>2, <1>3 DEF HoldersInv

\* A step of r that gives r no id its browser does not hold
LEMMA KeepOthers ==
    ASSUME WebInv, NEW r \in Requests, cookie' = cookie,
           \A q \in Requests \ {r} : sd'[q] = sd[q] /\ from'[q] = from[q],
           \A b \in Browsers : \A i \in SessionIds : Carries(r, b, i)' => Holds(b, i)
    PROVE  \A b \in Browsers : \A i \in SessionIds : Holds(b, i)' => Holds(b, i)
BY DEF Holds, Carries

----------------------------------------------------------------------------

LEMMA SendHolders ==
    ASSUME HoldersInv, WebInv, NEW r \in Requests, Send(r)
    PROVE  HoldersInv'
<1>1. PICK b \in Browsers : from' = [from EXCEPT ![r] = [browser |-> b, cookie |-> cookie[b]]]
  BY DEF Send
<1>2. sd' = sd /\ sd[r] = NewSession
  BY DEF Send, WebInv, RequestOK
<1>3. from'[r] = [browser |-> b, cookie |-> cookie[b]]
  BY <1>1 DEF WebInv, TypeOK
<1>4. \A c \in Browsers : \A i \in SessionIds : Carries(r, c, i)' => Holds(c, i)
  BY <1>2, <1>3, NothingAssumption DEF Carries, Holds, NewSession
<1>5. \A c \in Browsers : \A i \in SessionIds : Holds(c, i)' => Holds(c, i)
  BY <1>1, <1>2, <1>4, KeepOthers DEF Send, WebInv, TypeOK
<1>6. WorkProved(r)'
  BY <1>2 DEF WorkProved, SignedIn, NewSession
<1> QED BY <1>1, <1>2, <1>5, <1>6, KeepHolders DEF Send, WebInv, TypeOK

LEMMA EndHolders ==
    ASSUME HoldersInv, WebInv, NEW r \in Requests, End(r), proved' = proved,
           \A b \in Browsers : \A i \in SessionIds : cookie'[b] = i => Holds(b, i)
    PROVE  HoldersInv'
<1>1. /\ from'[r] = None /\ sd'[r] = NewSession
      /\ \A q \in Requests \ {r} : sd'[q] = sd[q] /\ from'[q] = from[q]
  BY DEF End, WebInv, TypeOK
<1>2. \A b \in Browsers : \A i \in SessionIds : Holds(b, i)' => Holds(b, i)
  BY <1>1 DEF Holds, Carries
<1>3. WorkProved(r)'
  BY <1>1 DEF WorkProved, SignedIn, NewSession
<1> QED BY <1>1, <1>2, <1>3, KeepHolders DEF End

\* The browser that signed out holds nothing, and the others what they held.
LEMMA SignedOutHolders ==
    ASSUME HoldersInv, LandInv, NEW r \in Requests, Receive(r), SignedOutForGood(r)
    PROVE  HoldersInv'
<1>0. WebInv /\ from[r].browser \in Browsers
  BY AtWork DEF Receive, LandInv
<1> PICK o \in Browsers : o = from[r].browser
  BY <1>0
<1>1. from[r] # None /\ sd[r] \in SessionData
  BY <1>0, AtWork DEF Receive, WebInv, TypeOK
<1>2. sd[r].id = None /\ sd[r].status # "Unmodified"
  <2>1. ~ SignedIn(r)
    BY AnswerFacts DEF SignedOutForGood, Receive, LandInv, LandOK, SignedInRoutes,
                       SignedOutRoutes
  <2> QED BY <1>0, <1>1, <2>1 DEF SignedOutForGood, SessionData, WebInv, RequestOK
<1>3. /\ cookie' = [cookie EXCEPT ![o] = None] /\ proved' = [proved EXCEPT ![o] = {}]
      /\ from'[r] = None /\ sd'[r] = NewSession /\ sessions' = sessions
      /\ \A q \in Requests \ {r} : sd'[q] = sd[q] /\ from'[q] = from[q]
  BY <1>0, <1>1, <1>2 DEF Receive, End, WebInv, TypeOK
<1>4. \A i \in SessionIds : ~ Holds(o, i)'
  BY <1>0, <1>3, NothingAssumption DEF Holds, Carries, SignedOutForGood, WebInv, TypeOK
<1>5. \A b \in Browsers \ {o} : \A i \in SessionIds : Holds(b, i)' => Holds(b, i)
  BY <1>0, <1>3 DEF Holds, Carries, WebInv, TypeOK
<1>6. \A b \in Browsers \ {o} : proved'[b] = proved[b]
  BY <1>0, <1>3 DEF WebInv, TypeOK
<1>7. OneHolder'
  BY <1>4, <1>5 DEF HoldersInv, OneHolder
<1>8. StoredProved'
  BY <1>3, <1>4, <1>5, <1>6 DEF HoldersInv, StoredProved
<1>9. ASSUME NEW q \in Requests, SignedIn(q)' PROVE WorkProved(q)'
  <2>1. q # r /\ sd'[q] = sd[q] /\ from'[q] = from[q] /\ SignedIn(q)
    BY <1>3, <1>9 DEF SignedIn, NewSession
  <2>2. from[q].browser \in Browsers \ {o}
    BY <1>0, <2>1, AtWork DEF SignedOutForGood
  <2> QED BY <1>6, <2>1, <2>2 DEF HoldersInv, WorkProved
<1> QED BY <1>7, <1>8, <1>9 DEF HoldersInv, WorkProved

LEMMA ReceiveHolders ==
    ASSUME HoldersInv, LandInv, NEW r \in Requests, Receive(r)
    PROVE  HoldersInv'
<1>1. WebInv /\ from[r].browser \in Browsers /\ from[r] # None
  BY AtWork DEF Receive, LandInv
<1>2. \A b \in Browsers : \A i \in SessionIds : cookie'[b] = i => Holds(b, i)
  BY <1>1 DEF Receive, Holds, Carries, WebInv, TypeOK
<1>3. CASE SignedOutForGood(r)
  BY <1>3, SignedOutHolders
<1>4. CASE ~ SignedOutForGood(r)
  BY <1>1, <1>2, <1>4, EndHolders DEF Receive
<1> QED BY <1>3, <1>4

LEMMA DropHolders ==
    ASSUME HoldersInv, WebInv, NEW r \in Requests, Drop(r)
    PROVE  HoldersInv'
BY EndHolders DEF Drop, Holds

\* Steps that leave what the request knows of its session alone
LEMMA SameSession ==
    ASSUME HoldersInv, WebInv, NEW r \in Requests,
           UNCHANGED <<sessions, cookie, from, sd, proved>>
    PROVE  HoldersInv'
BY DEF HoldersInv, OneHolder, StoredProved, WorkProved, Holds, Carries, SignedIn

LEMMA LoadHolders ==
    ASSUME HoldersInv, WebInv, NEW r \in Requests, Load(r)
    PROVE  HoldersInv'
<1>1. from[r] # None /\ from[r].browser \in Browsers /\ from[r].cookie \in SessionIds \cup {None}
  BY AtWork DEF Load, Origin
<1>2. sd'[r] = Loaded(from[r].cookie) /\ from' = from /\ proved' = proved
  BY DEF Load, WebInv, TypeOK
<1>3. sd'[r].id \in {from[r].cookie, None}
  BY <1>2 DEF Loaded, NewSession
<1>4. \A b \in Browsers : \A i \in SessionIds : Carries(r, b, i)' => Holds(b, i)
  BY <1>2, <1>3, NothingAssumption DEF Carries, Holds
<1>5. \A b \in Browsers : \A i \in SessionIds : Holds(b, i)' => Holds(b, i)
  BY <1>4, KeepOthers DEF Load, WebInv, TypeOK
<1>6. WorkProved(r)'
  <2>1. CASE from[r].cookie # None /\ sessions[from[r].cookie] # NoRow
    <3>1. Holds(from[r].browser, from[r].cookie) /\ from[r].cookie \in SessionIds
      BY <1>1, <2>1 DEF Holds, Carries
    <3>2. sessions[from[r].cookie] \in proved[from[r].browser]
      BY <1>1, <2>1, <3>1 DEF HoldersInv, StoredProved
    <3> QED BY <1>2, <2>1, <3>2 DEF WorkProved, Loaded
  <2>2. CASE ~ (from[r].cookie # None /\ sessions[from[r].cookie] # NoRow)
    BY <1>2, <2>2 DEF WorkProved, SignedIn, Loaded, NewSession
  <2> QED BY <2>1, <2>2
<1> QED BY <1>2, <1>5, <1>6, KeepHolders DEF Load, WebInv, TypeOK

LEMMA RespondHolders ==
    ASSUME HoldersInv, WebInv, NEW r \in Requests, Respond(r)
    PROVE  HoldersInv'
<1> DEFINE o == from[r].browser
<1>1. from[r] # None /\ o \in Browsers /\ sd[r] \in SessionData
  BY AtWork DEF Respond, WebInv, TypeOK
<1>2. CASE UNCHANGED <<sessions, sd>>
  BY <1>2, SameSession DEF Respond
<1>3. CASE sd[r].status = "Modified"
  <2>1. PICK i \in SessionIds :
            /\ IF sd[r].id = None THEN FreshId(i) ELSE i = sd[r].id
            /\ sessions' = [sessions EXCEPT ![i] = sd[r].email]
            /\ sd' = [sd EXCEPT ![r].id = i]
    BY <1>3 DEF Respond
  <2>2. sd[r].email \in proved[o]
    BY <1>3 DEF WebInv, RequestOK, HoldersInv, WorkProved
  <2>3. /\ sd'[r].id = i /\ sd'[r].email = sd[r].email
        /\ \A q \in Requests \ {r} : sd'[q] = sd[q]
    BY <1>1, <2>1 DEF SessionData, WebInv, TypeOK
  <2>4. cookie' = cookie /\ from' = from /\ proved' = proved
    BY DEF Respond
  <2>5. \A b \in Browsers : Holds(b, i) => b = o
    <3>1. CASE sd[r].id = None
      BY <2>1, <3>1 DEF FreshId, Holds, Carries
    <3>2. CASE sd[r].id = i
      BY <1>1, <3>2 DEF HoldersInv, OneHolder, Holds, Carries
    <3> QED BY <2>1, <3>1, <3>2
  <2>6. \A b \in Browsers : Holds(b, i)' => b = o
    BY <2>3, <2>4, <2>5 DEF Holds, Carries
  <2>7. \A b \in Browsers : \A j \in SessionIds \ {i} : Holds(b, j)' => Holds(b, j)
    BY <2>3, <2>4 DEF Holds, Carries
  <2>8. OneHolder'
    BY <2>6, <2>7 DEF HoldersInv, OneHolder
  <2>9. StoredProved'
    <3> SUFFICES ASSUME NEW j \in SessionIds, NEW b \in Browsers,
                        Holds(b, j)', sessions'[j] # NoRow
                 PROVE  sessions'[j] \in proved'[b]
      BY DEF StoredProved
    <3>1. CASE j = i
      BY <2>1, <2>2, <2>4, <2>6, <3>1 DEF WebInv, TypeOK
    <3>2. CASE j # i
      BY <2>1, <2>4, <2>7, <3>2 DEF HoldersInv, StoredProved, WebInv, TypeOK
    <3> QED BY <3>1, <3>2
  <2>10. ASSUME NEW q \in Requests PROVE WorkProved(q)'
    BY <2>3, <2>4 DEF HoldersInv, WorkProved, SignedIn
  <2> QED BY <2>8, <2>9, <2>10 DEF HoldersInv
<1> QED BY <1>2, <1>3 DEF Respond

LEMMA ExpireHolders ==
    ASSUME HoldersInv, WebInv, NEW i \in SessionIds, Expire(i)
    PROVE  HoldersInv'
<1>1. UNCHANGED <<cookie, from, sd, proved>>
  BY DEF Expire, request
<1>2. \A j \in SessionIds : sessions'[j] \in {sessions[j], NoRow}
  BY DEF Expire, WebInv, TypeOK
<1> QED BY <1>1, <1>2
        DEF HoldersInv, OneHolder, StoredProved, WorkProved, Holds, Carries, SignedIn

----------------------------------------------------------------------------
\* A handler enters only an account the request proves.

LEMMA EnterHolders ==
    ASSUME HoldersInv, WebInv, NEW r \in Requests, pc[r] = "guarded",
           NEW e \in ProvenBy(r), Enter(r, e), Prove(r)
    PROVE  HoldersInv'
<1>1. from[r] # None /\ from[r].browser \in Browsers /\ sd[r] \in SessionData
  BY AtWork DEF WebInv, TypeOK
<1>2. /\ sd'[r].id = sd[r].id /\ sd'[r].email = e
      /\ \A q \in Requests \ {r} : sd'[q] = sd[q]
      /\ from' = from /\ cookie' = cookie /\ sessions' = sessions
  BY <1>1 DEF Enter, SessionData, WebInv, TypeOK
<1>3. /\ \A b \in Browsers : proved[b] \subseteq proved'[b]
      /\ e \in proved'[from[r].browser]
  BY <1>1 DEF Prove, WebInv, TypeOK
<1>4. \A b \in Browsers : \A i \in SessionIds : Holds(b, i)' => Holds(b, i)
  BY <1>2 DEF Holds, Carries
<1>5. WorkProved(r)'
  BY <1>2, <1>3 DEF WorkProved
<1> QED BY <1>2, <1>3, <1>4, <1>5, KeepHolders

LEMMA SignoutHolders ==
    ASSUME HoldersInv, WebInv, NEW r \in Requests, Signout(r)
    PROVE  HoldersInv'
<1>1. /\ sd'[r] = [id |-> None, email |-> None, status |-> "Destroyed"]
      /\ \A q \in Requests \ {r} : sd'[q] = sd[q]
      /\ from' = from /\ cookie' = cookie /\ proved' = proved
  BY DEF Signout, WebInv, TypeOK
<1>2. \A i \in SessionIds : sessions'[i] \in {sessions[i], NoRow}
  BY DEF Signout, WebInv, TypeOK
<1>3. \A b \in Browsers : \A i \in SessionIds : Holds(b, i)' => Holds(b, i)
  BY <1>1, NothingAssumption DEF Holds, Carries
<1>4. WorkProved(r)'
  BY <1>1 DEF WorkProved, SignedIn
<1> QED BY <1>1, <1>2, <1>3, <1>4, KeepHolders

LEMMA HandleHolders ==
    ASSUME HoldersInv, WebInv, NEW r \in Requests, Handle(r)
    PROVE  HoldersInv'
<1>0. AccountsOK /\ form[r] \in Forms /\ pc[r] = "guarded"
  BY DEF Handle, PageRenderer, Refuse, At, Signin, Signup, SignupToken, Signout,
         SignoutFails, ResendSignupToken, ResetPassword, ResetPasswordToken,
         ChangePassword, ChangePasswordWithToken, WebInv, TypeOK, RequestOK, AccountsOK
<1>1. CASE Signin(r)
  <2>1. form[r].email \in ProvenBy(r)
    BY <1>0, <1>1, FormFields DEF Signin, At, ProvenBy
  <2> QED BY <1>0, <1>1, <2>1, EnterHolders DEF Signin
<1>2. CASE SignupToken(r)
  <2>1. PICK l \in links : l.token = form[r].token /\ Enter(r, l.email)
    BY <1>2 DEF SignupToken
  <2>2. l.email \in ProvenBy(r)
    BY <1>0, <1>2, <2>1 DEF SignupToken, At, ProvenBy, AccountsOK, Link
  <2> QED BY <1>0, <1>2, <2>1, <2>2, EnterHolders DEF SignupToken
<1>3. CASE ChangePasswordWithToken(r)
  <2>1. PICK l \in links : l.token = form[r].token /\ Enter(r, l.email)
    BY <1>3 DEF ChangePasswordWithToken
  <2>2. l.email \in ProvenBy(r)
    BY <1>0, <1>3, <2>1 DEF ChangePasswordWithToken, At, ProvenBy, AccountsOK, Link
  <2> QED BY <1>0, <1>3, <2>1, <2>2, EnterHolders DEF ChangePasswordWithToken
<1>4. CASE Signout(r)
  BY <1>4, SignoutHolders
<1>5. CASE PageRenderer(r) \/ Refuse(r) \/ Signup(r) \/ SignoutFails(r)
           \/ ResendSignupToken(r) \/ ResetPassword(r) \/ ResetPasswordToken(r)
           \/ ChangePassword(r)
  BY <1>5, SameSession
     DEF PageRenderer, Refuse, Signup, SignoutFails, ResendSignupToken, ResetPassword,
         ResetPasswordToken, ChangePassword, Show
<1> QED BY <1>1, <1>2, <1>3, <1>4, <1>5 DEF Handle

----------------------------------------------------------------------------

LEMMA NextHolders ==
    ASSUME HoldersInv, LandInv, [Next]_vars
    PROVE  HoldersInv'
<1>0. WebInv
  BY DEF LandInv
<1>1. ASSUME NEW r \in Requests, Reject(r) \/ Guard(r) PROVE HoldersInv'
  BY <1>0, <1>1, SameSession DEF Reject, Guard
<1>2. ASSUME NEW r \in Requests,
             Send(r) \/ Receive(r) \/ Drop(r) \/ Load(r) \/ Handle(r) \/ Respond(r)
      PROVE  HoldersInv'
  BY <1>0, <1>2, SendHolders, ReceiveHolders, DropHolders, LoadHolders, HandleHolders,
     RespondHolders
<1>3. ASSUME NEW i \in SessionIds, Expire(i) PROVE HoldersInv'
  BY <1>0, <1>3, ExpireHolders
<1>4. CASE UNCHANGED vars
  BY <1>4 DEF vars, request, HoldersInv, OneHolder, StoredProved, WorkProved, Holds,
              Carries, SignedIn
<1> QED BY <1>1, <1>2, <1>3, <1>4 DEF Next

LEMMA HoldersInvariant == Spec => [](WebInv /\ HoldersInv)
<1>1. Init /\ [][Next]_vars /\ []LandInv => []HoldersInv
  BY HoldersInit, NextHolders, PTL
<1>2. LandInv => WebInv
  BY DEF LandInv
<1> QED BY <1>1, <1>2, LandInvariant, PTL DEF Spec

\* Whatever number of browsers and requests overlap, the session a browser
\* holds or works with is one of an account it gave proof of since it signed out
\* with nothing else under way (auth.go:73, 151, 157, 376, sessionmanager.go:40).
THEOREM SessionsDoNotMix == Spec => []OnlyProvenAccounts
<1>1. HoldersInv /\ WebInv => OnlyProvenAccounts
  <2> SUFFICES ASSUME HoldersInv, WebInv PROVE OnlyProvenAccounts
    OBVIOUS
  <2>1. ASSUME NEW b \in Browsers, cookie[b] # None, sessions[cookie[b]] # NoRow
        PROVE  sessions[cookie[b]] \in proved[b]
    BY <2>1 DEF HoldersInv, StoredProved, Holds, WebInv, TypeOK
  <2> QED BY <2>1 DEF OnlyProvenAccounts, HoldersInv, WorkProved
<1> QED BY <1>1, HoldersInvariant, PTL

----------------------------------------------------------------------------
\* Passwords

\* The step that changes the password of e has the session or a link of e.
LEMMA PasswordStep ==
    ASSUME WebInv, HoldersInv, Next, NEW e \in Emails,
           users[e] # NoRow, users'[e].password # users[e].password
    PROVE  \E r \in Requests :
                /\ form[r] # None /\ pc[r] = "guarded"
                /\ \/ form[r].route = "ChangePassword" /\ e \in proved[from[r].browser]
                   \/ form[r].route = "ChangePasswordWithToken" /\ e \in ProvenBy(r)
<1>1. users \in [Emails -> User \cup {NoRow}] /\ links \subseteq Link /\ LinksOK
  BY DEF WebInv, TypeOK
<1>2. PICK r \in Requests : Handle(r)
  BY DEF Next, Send, Receive, Drop, End, Reject, Load, Guard, Respond, Expire, accounts
<1>3. form[r] \in Forms /\ form[r] # None /\ pc[r] = "guarded"
  BY <1>2, NothingAssumption
     DEF Handle, PageRenderer, Refuse, At, Signin, Signup, SignupToken, Signout,
         SignoutFails, ResendSignupToken, ResetPassword, ResetPasswordToken,
         ChangePassword, ChangePasswordWithToken, WebInv, RequestOK
<1>4. CASE ChangePassword(r)
  <2>1. SignedIn(r) /\ form[r].route = "ChangePassword"
    BY <1>4 DEF ChangePassword, At, WebInv, RequestOK, SignedInRoutes
  <2>2. e = sd[r].email
    BY <1>1, <1>4 DEF ChangePassword, Service!ChangePassword
  <2> QED BY <1>3, <2>1, <2>2 DEF HoldersInv, WorkProved
<1>5. CASE ChangePasswordWithToken(r)
  <2>1. PICK l \in links :
            l.token = form[r].token /\ Service!ResetWithLink(l, form[r].password)
    BY <1>5 DEF ChangePasswordWithToken
  <2>2. e = l.email
    BY <1>1, <2>1 DEF Service!ResetWithLink
  <2>3. e \in ProvenBy(r)
    BY <1>5, <2>1, <2>2 DEF ChangePasswordWithToken, At, ProvenBy
  <2> QED BY <1>3, <1>5, <2>3 DEF ChangePasswordWithToken, At
<1>6. ~ Signup(r)
  BY <1>1 DEF Signup, Service!Register
<1>7. ~ SignupToken(r)
  <2> SUFFICES ASSUME NEW l \in links, Service!Confirm(l) PROVE FALSE
    BY DEF SignupToken
  <2>1. l.email \in Emails /\ users[l.email] # NoRow
    BY <1>1 DEF LinksOK, Link
  <2>2. users[l.email] \in User
    BY <1>1, <2>1
  <2>3. [users[l.email] EXCEPT !.verified = TRUE].password = users[l.email].password
    BY <2>2 DEF User
  <2> QED BY <1>1, <2>1, <2>3 DEF Service!Confirm
<1>8. ~ (PageRenderer(r) \/ Refuse(r) \/ Signin(r) \/ Signout(r) \/ SignoutFails(r)
          \/ ResendSignupToken(r) \/ ResetPassword(r) \/ ResetPasswordToken(r))
  BY DEF PageRenderer, Refuse, Signin, Signout, SignoutFails, ResendSignupToken,
         ResetPassword, ResetPasswordToken, Service!Reissue, Service!RequestReset, accounts
<1> QED BY <1>2, <1>4, <1>5, <1>6, <1>7, <1>8 DEF Handle

\* Only a browser that proved the account, or follows a link of it, changes its
\* password, for any number of accounts and requests (auth.go:314-315, 369).
THEOREM OwnersChangePasswords == Spec => OwnerChangesPassword
<1> DEFINE A == \A e \in Emails :
        users[e] # NoRow /\ users'[e].password # users[e].password =>
            \E r \in Requests :
                \/ form[r] # None /\ form[r].route = "ChangePassword"
                   /\ pc[r] = "guarded" /\ e \in proved[from[r].browser]
                \/ form[r] # None /\ form[r].route = "ChangePasswordWithToken"
                   /\ pc[r] = "guarded" /\ e \in ProvenBy(r)
<1>1. WebInv /\ HoldersInv /\ [Next]_vars => [A]_vars
  BY PasswordStep
<1>2. [](WebInv /\ HoldersInv) /\ [][Next]_vars => [][A]_vars
  BY <1>1, PTL
<1> QED BY <1>2, HoldersInvariant, PTL DEF Spec, OwnerChangesPassword

----------------------------------------------------------------------------
\* The web handlers and the service

\* What a handler does to the accounts is one operation of Accounts, on an email,
\* a name and a password it may be called with.
LEMMA HandleServes ==
    ASSUME WebInv, NEW r \in Requests, Handle(r)
    PROVE  Service!Next \/ UNCHANGED accounts
<1>1. form[r] \in Forms /\ pc[r] = "guarded" /\ sd[r] \in SessionData
  BY DEF Handle, PageRenderer, Refuse, At, Signin, Signup, SignupToken, Signout,
         SignoutFails, ResendSignupToken, ResetPassword, ResetPasswordToken,
         ChangePassword, ChangePasswordWithToken, WebInv, TypeOK, RequestOK
<1>2. CASE Signup(r)
  <2>1. PICK t \in Tokens :
            Service!Register(form[r].email, form[r].name, form[r].password, t)
    BY <1>2 DEF Signup
  <2>2. form[r].email \in Emails /\ form[r].name \in Names /\ form[r].password \in Passwords
    BY <1>1, <1>2, FormFields DEF Signup, At
  <2> QED BY <2>1, <2>2 DEF Service!Next
<1>3. CASE SignupToken(r)
  BY <1>3 DEF SignupToken, Service!Next
<1>4. CASE ResendSignupToken(r)
  <2>1. form[r].email \in Emails
    BY <1>1, <1>4, FormFields DEF ResendSignupToken, At
  <2>2. CASE \E t \in Tokens : Service!Reissue(form[r].email, t)
    BY <2>1, <2>2 DEF Service!Next
  <2> QED BY <1>4, <2>2 DEF ResendSignupToken
<1>5. CASE ResetPassword(r)
  <2>1. PICK t \in Tokens : Service!RequestReset(form[r].email, t)
    BY <1>5 DEF ResetPassword
  <2>2. form[r].email \in Emails
    BY <1>1, <1>5, FormFields DEF ResetPassword, At
  <2> QED BY <2>1, <2>2 DEF Service!Next
<1>6. CASE ChangePassword(r)
  <2>1. SignedIn(r)
    BY <1>6 DEF ChangePassword, At, WebInv, RequestOK, SignedInRoutes
  <2>2. sd[r].email \in Emails /\ form[r].password \in Passwords
    BY <1>1, <1>6, <2>1, FormFields DEF SignedIn, SessionData, ChangePassword, At
  <2> QED BY <1>6, <2>2 DEF ChangePassword, Service!Next
<1>7. CASE ChangePasswordWithToken(r)
  <2>1. PICK l \in links : Service!ResetWithLink(l, form[r].password)
    BY <1>7 DEF ChangePasswordWithToken
  <2>2. form[r].password \in Passwords
    BY <1>1, <1>7, FormFields DEF ChangePasswordWithToken, At
  <2> QED BY <2>1, <2>2 DEF Service!Next
<1>8. CASE PageRenderer(r) \/ Refuse(r) \/ Signin(r) \/ Signout(r) \/ SignoutFails(r)
           \/ ResetPasswordToken(r)
  BY <1>8 DEF PageRenderer, Refuse, Signin, Signout, SignoutFails, ResetPasswordToken
<1> QED BY <1>2, <1>3, <1>4, <1>5, <1>6, <1>7, <1>8 DEF Handle

\* Browsers, sessions and redirects only ever use the service as Accounts
\* describes it, with emails, names and passwords it was checked for, whatever the
\* middlewares let through (auth.go:133, 146, 200, 247, 315, 369).
THEOREM WebUsesTheService == Spec => Service!Spec
<1>1. Init => Service!Init
  BY DEF Init
<1>2. ASSUME WebInv, [Next]_vars
      PROVE  [Service!Next]_(Service!accounts)
  <2>1. UNCHANGED accounts \/ \E r \in Requests : Handle(r)
    BY <1>2 DEF Next, vars, Send, Receive, Drop, End, Reject, Load, Guard, Respond, Expire
  <2>2. UNCHANGED accounts \/ Service!Next
    BY <1>2, <2>1, HandleServes
  <2> QED BY <2>2 DEF accounts, Service!accounts
<1> QED BY <1>1, <1>2, WebInvariant, PTL DEF Spec, Service!Spec

=============================================================================
