-------------------------------- MODULE Web --------------------------------
(***************************************************************************)
(* internal/web: the requests of browsers, their sessions, and the pages   *)
(* they are answered with, over the user service as module Accounts        *)
(* describes it (UserService implements Accounts).                         *)
(*                                                                         *)
(* A request goes through the middlewares and its handler:                 *)
(*   sent -> loaded -> guarded -> handled -> answered                      *)
(* LoadAndSave loads the session of the cookie into the request; the       *)
(* handler changes that copy; the copy is committed when the response      *)
(* starts, and the browser learns of the cookie when it receives it.       *)
(* Requests of one browser overlap and share a session.                    *)
(***************************************************************************)
CONSTANTS
    Emails, Names, Passwords, Tokens, NoRow,    \* as in Accounts
    Browsers,
    Requests,       \* requests that can be under way at once
    SessionIds,     \* the random tokens of sessions
    Routes,         \* the routes browsers use in this instance
    None            \* no cookie, no email, no fields: ""

VARIABLES
    users, links,   \* the accounts and their links, in app.db
    sessions,       \* the store in sessions.db: session to its email
    cookie,         \* the cookie _s of each browser
    pc,             \* where each request is
    form,           \* what each request asks for, None when idle
    from,           \* the browser each request came from, and its cookie then
    sd,             \* scs: the session data in the context of each request
    answer,         \* the page or the redirect of each request
    proved          \* history: the accounts each browser proved it owns since it
                    \* last signed out

accounts == <<users, links>>
request == <<pc, form, from, sd, answer>>
vars == <<accounts, sessions, cookie, request, proved>>

Service == INSTANCE Accounts

----------------------------------------------------------------------------
\* Routes, forms and pages

Views == {"index", "signin", "signup", "reset-password", "reset-password-token",
          "resend-signup-token", "change-password"}

\* The routes of pageRenderer have the name of their page, the others the name
\* of their handler.
SignedInRoutes == {"index", "change-password", "ChangePassword", "Signout"}
SignedOutRoutes ==
    {"signin", "reset-password", "signup", "resend-signup-token", "Signin",
     "ResetPassword", "ChangePasswordWithToken", "Signup", "ResendSignupToken"}
OpenRoutes == {"SignupToken", "ResetPasswordToken"}
AllRoutes == SignedInRoutes \cup SignedOutRoutes \cup OpenRoutes

ASSUME RoutesAssumption == Routes \subseteq AllRoutes

Forms ==
    [route: {"index", "change-password", "signin", "reset-password", "signup",
             "resend-signup-token", "Signout"}]
    \cup [route: {"Signin"}, email: Emails, password: Passwords]
    \cup [route: {"Signup"}, email: Emails, name: Names, password: Passwords]
    \cup [route: {"ResendSignupToken", "ResetPassword"}, email: Emails]
    \cup [route: {"SignupToken", "ResetPasswordToken"}, token: Tokens]
    \cup [route: {"ChangePassword"}, password: Passwords]
    \cup [route: {"ChangePasswordWithToken"}, token: Tokens, password: Passwords]

\* Where a request came from
Origin == [browser: Browsers, cookie: SessionIds \cup {None}]

User == [email: Emails, name: Names, password: Passwords, verified: BOOLEAN]
Link == [token: Tokens, email: Emails, type: {"SIGNUP", "PASSWORD"}]

ASSUME NothingAssumption ==
    /\ None \notin Emails \cup SessionIds \cup Forms \cup Origin
    /\ NoRow \notin Emails \cup User

FaultyFieldsOf(route) ==
    CASE route = "ResendSignupToken" -> {"Email"}
      [] route = "Signin"            -> {"Email", "Password"}
      [] route = "Signup"            -> {"Email", "Name", "Password", "Confirm"}
      [] route = "ResetPassword"     -> {"Email"}
      [] route = "ChangePassword"    -> {"Password", "Confirm"}
      [] route \in {"ChangePasswordWithToken", "ResetPasswordToken"} ->
            {"Token", "Password", "Confirm"}
      [] OTHER -> {}
\* The Fields a handler sets for its page
FieldsOf(route) ==
    CASE route \in {"Signin", "ResendSignupToken"} -> {"Email", "Password"}
      [] route = "Signup"         -> {"Email", "Name", "Password", "Confirm"}
      [] route = "ResetPassword"  -> {"Email"}
      [] route = "ChangePassword" -> {"Password", "Confirm"}
      [] route \in {"ChangePasswordWithToken", "ResetPasswordToken"} ->
            {"Token", "Password", "Confirm"}
      [] OTHER -> {}

\* The page a handler shows its error on
ErrorView(route) ==
    CASE route = "Signin"         -> "signin"
      [] route = "Signup"         -> "signup"
      [] route = "ChangePassword" -> "change-password"
      [] route = "ChangePasswordWithToken"               -> "reset-password-token"
      [] route \in {"SignupToken", "ResendSignupToken"}  -> "resend-signup-token"
      [] route \in {"ResetPassword", "ResetPasswordToken"} -> "reset-password"
      [] OTHER -> "index"

Page(view, fields) == [kind |-> "page", view |-> view, fields |-> fields]
Redirect(view) == [kind |-> "redirect", view |-> view, fields |-> None]

FieldNames == {"Email", "Name", "Password", "Confirm", "Token"}

ASSUME NoFieldsAssumption == \A fields \in SUBSET FieldNames : fields # None

Answers == [kind: {"page", "redirect"}, view: Views,
            fields: (SUBSET FieldNames) \cup {None}]

\* scs: the data of a request without a session
NewSession == [id |-> None, email |-> None, status |-> "Unmodified"]
SessionData == [id: SessionIds \cup {None}, email: Emails \cup {None},
                status: {"Unmodified", "Modified", "Destroyed"}]

TypeOK ==
    /\ users \in [Emails -> User \cup {NoRow}]
    /\ links \subseteq Link
    /\ sessions \in [SessionIds -> Emails \cup {NoRow}]     \* no visitor has a session
    /\ cookie \in [Browsers -> SessionIds \cup {None}]
    /\ pc \in [Requests -> {"idle", "sent", "loaded", "guarded", "handled", "answered"}]
    /\ form \in [Requests -> Forms \cup {None}]
    /\ from \in [Requests -> Origin \cup {None}]
    /\ sd \in [Requests -> SessionData]
    /\ answer \in [Requests -> Answers \cup {None}]
    /\ proved \in [Browsers -> SUBSET Emails]

Init ==
    /\ Service!Init
    /\ sessions = [i \in SessionIds |-> NoRow]
    /\ cookie = [b \in Browsers |-> None]
    /\ pc = [r \in Requests |-> "idle"]
    /\ form = [r \in Requests |-> None]
    /\ from = [r \in Requests |-> None]
    /\ sd = [r \in Requests |-> NewSession]
    /\ answer = [r \in Requests |-> None]
    /\ proved = [b \in Browsers |-> {}]

----------------------------------------------------------------------------
\* The browser

Send(r) ==
    /\ pc[r] = "idle"
    /\ \E b \in Browsers : from' = [from EXCEPT ![r] = [browser |-> b, cookie |-> cookie[b]]]
    /\ \E f \in Forms : f.route \in Routes /\ form' = [form EXCEPT ![r] = f]
    /\ pc' = [pc EXCEPT ![r] = "sent"]
    /\ UNCHANGED <<accounts, sessions, cookie, sd, answer, proved>>

End(r) ==
    /\ pc' = [pc EXCEPT ![r] = "idle"]
    /\ form' = [form EXCEPT ![r] = None]
    /\ from' = [from EXCEPT ![r] = None]
    /\ sd' = [sd EXCEPT ![r] = NewSession]
    /\ answer' = [answer EXCEPT ![r] = None]
    /\ UNCHANGED <<accounts, sessions>>

\* The answer of r says that its browser is signed out, and nothing else the
\* browser sent is under way that could write the session back.
SignedOutForGood(r) ==
    /\ form[r].route = "Signout" /\ answer[r] = Redirect("signin")
    /\ sd[r].status # "Unmodified"
    /\ \A q \in Requests \ {r} : from[q] # None => from[q].browser # from[r].browser

\* The response arrives, with the cookie of a session that was committed or the
\* expiry of the cookie of one that was destroyed.
Receive(r) ==
    /\ pc[r] = "answered"
    /\ cookie' = IF sd[r].status = "Unmodified" THEN cookie
                 ELSE [cookie EXCEPT ![from[r].browser] = sd[r].id]
    /\ proved' = IF SignedOutForGood(r) THEN [proved EXCEPT ![from[r].browser] = {}]
                 ELSE proved
    /\ End(r)

\* A request ends without an answer its browser sees: the connection is lost, a
\* statement of sessions.db fails, the handler panics because its context was
\* cancelled, or the process dies.  What was done stays done.
Drop(r) ==
    /\ pc[r] # "idle"
    /\ UNCHANGED <<cookie, proved>>
    /\ End(r)

----------------------------------------------------------------------------
\* Middlewares

Answer(r, a, step) ==
    /\ answer' = [answer EXCEPT ![r] = a]
    /\ pc' = [pc EXCEPT ![r] = step]

\* BodyLimit or CSRF refuse the request, or Load fails: no session is touched.
Reject(r) ==
    /\ pc[r] = "sent"
    /\ Answer(r, Page("index", None), "answered")
    /\ UNCHANGED <<accounts, sessions, cookie, form, from, sd, proved>>

FaultyLoaded(id) ==
    IF id # None /\ sessions[id] # NoRow
    THEN [id |-> id, email |-> sessions[id], status |-> "Modified"]
    ELSE [NewSession EXCEPT !.status = "Modified"]
\* A cookie the store does not know counts for nothing.  With an idle timeout
\* a session that is loaded is Modified from the start.
Loaded(id) ==
    IF id # None /\ sessions[id] # NoRow
    THEN [id |-> id, email |-> sessions[id], status |-> "Modified"]
    ELSE NewSession

\* LoadAndSave, before the handler
Load(r) ==
    /\ pc[r] = "sent"
    /\ sd' = [sd EXCEPT ![r] = Loaded(from[r].cookie)]
    /\ pc' = [pc EXCEPT ![r] = "loaded"]
    /\ UNCHANGED <<accounts, sessions, cookie, form, from, answer, proved>>

SignedIn(r) == sd[r].email # None

\* sessionDataMiddleware, whose GetUser finds the user of the session or
\* panics, then the guard of the route
Guard(r) ==
    /\ pc[r] = "loaded"
    /\ SignedIn(r) => users[sd[r].email] # NoRow
    /\ \/ /\ SignedIn(r) /\ form[r].route \in SignedOutRoutes
          /\ Answer(r, Redirect("index"), "handled")
       \/ /\ ~ SignedIn(r) /\ form[r].route \in SignedInRoutes
          /\ Answer(r, Redirect("signin"), "handled")
       \/ /\ SignedIn(r) => form[r].route \notin SignedOutRoutes
          /\ ~ SignedIn(r) => form[r].route \notin SignedInRoutes
          /\ pc' = [pc EXCEPT ![r] = "guarded"]
          /\ UNCHANGED answer
    /\ UNCHANGED <<accounts, sessions, cookie, form, from, sd, proved>>

\* A session id that is nowhere in use: 32 random bytes
FreshId(i) ==
    /\ sessions[i] = NoRow
    /\ \A b \in Browsers : cookie[b] # i
    /\ \A r \in Requests : sd[r].id # i /\ (from[r] # None => from[r].cookie # i)

\* The response starts, and with it LoadAndSave commits the copy of the
\* session: it replaces whatever the store has.
Respond(r) ==
    /\ pc[r] = "handled"
    /\ pc' = [pc EXCEPT ![r] = "answered"]
    /\ \/ /\ sd[r].status # "Modified"
          /\ UNCHANGED <<sessions, sd>>
       \/ /\ sd[r].status = "Modified"
          /\ \E i \in SessionIds :
                /\ IF sd[r].id = None THEN FreshId(i) ELSE i = sd[r].id
                /\ sessions' = [sessions EXCEPT ![i] = sd[r].email]
                /\ sd' = [sd EXCEPT ![r].id = i]
    /\ UNCHANGED <<accounts, cookie, form, from, answer, proved>>

\* A session expires: Find no longer returns it, the store deletes it.
Expire(i) ==
    /\ sessions[i] # NoRow
    /\ sessions' = [sessions EXCEPT ![i] = NoRow]
    /\ UNCHANGED <<accounts, cookie, request, proved>>

----------------------------------------------------------------------------
\* Handlers

At(r, route) == pc[r] = "guarded" /\ form[r].route = route

\* The handler answers with a page or a redirect; its copy of the session is
\* left alone.
Show(r, a) ==
    /\ Answer(r, a, "handled")
    /\ UNCHANGED <<sessions, cookie, form, from, sd, proved>>

\* h.sess.Put(ctx, "email", e), and home
Enter(r, e) ==
    /\ sd' = [sd EXCEPT ![r].email = e, ![r].status = "Modified"]
    /\ Answer(r, Redirect("index"), "handled")
    /\ UNCHANGED <<sessions, cookie, form, from>>

\* The accounts the request gives proof of: the password, or a link.
ProvenBy(r) ==
    {e \in Emails :
        \/ /\ form[r].route = "Signin" /\ form[r].email = e
           /\ users[e] # NoRow /\ users[e].password = form[r].password
        \/ /\ form[r].route \in {"SignupToken", "ChangePasswordWithToken"}
           /\ \E l \in links : l.token = form[r].token /\ l.email = e}

Prove(r) ==
    proved' = [proved EXCEPT ![from[r].browser] = @ \cup ProvenBy(r)]

\* A UUID that no link has and no request carries
FreshToken(t) ==
    /\ \A l \in links : l.token # t
    /\ \A r \in Requests : form[r] # None /\ "token" \in DOMAIN form[r] => form[r].token # t

\* GET pages
PageRenderer(r) ==
    /\ pc[r] = "guarded" /\ form[r].route \in Views
    /\ Show(r, Page(form[r].route, None))
    /\ UNCHANGED accounts

\* The form does not validate, or the service returns an error: the error is
\* shown with what the form held; a handler without a form sets no fields.
Refuse(r) ==
    /\ pc[r] = "guarded" /\ form[r].route \notin Views \cup {"Signout"}
    /\ Show(r, Page(ErrorView(form[r].route),
                    IF form[r].route \in OpenRoutes THEN None ELSE FieldsOf(form[r].route)))
    /\ UNCHANGED accounts

Signin(r) ==
    /\ At(r, "Signin")
    /\ LET u == users[form[r].email]
       IN  u # NoRow /\ u.verified /\ u.password = form[r].password
    /\ Enter(r, form[r].email)
    /\ Prove(r)
    /\ UNCHANGED accounts

FaultySignup(r) ==
    /\ At(r, "Signup")
    /\ \E t \in Tokens :
        /\ FreshToken(t)
        /\ Service!Register(form[r].email, form[r].name, form[r].password, t)
    /\ Enter(r, form[r].email)
    /\ UNCHANGED proved
Signup(r) ==
    /\ At(r, "Signup")
    /\ \E t \in Tokens :
        /\ FreshToken(t)
        /\ Service!Register(form[r].email, form[r].name, form[r].password, t)
    /\ Show(r, Page("signin", None))

SignupToken(r) ==
    /\ At(r, "SignupToken")
    /\ \E l \in links :
        /\ l.token = form[r].token
        /\ Service!Confirm(l)
        /\ Enter(r, l.email)
    /\ Prove(r)

FaultySignout(r) ==
    /\ At(r, "Signout")
    /\ sessions' = [sessions EXCEPT ![sd[r].id] = NoRow]
    /\ Answer(r, Redirect("signin"), "handled")
    /\ UNCHANGED <<accounts, cookie, form, from, sd, proved>>
\* h.sess.Destroy deletes the row at once; the cookie goes with the answer.
Signout(r) ==
    /\ At(r, "Signout")
    /\ sessions' = [sessions EXCEPT ![sd[r].id] = NoRow]
    /\ sd' = [sd EXCEPT ![r] = [id |-> None, email |-> None, status |-> "Destroyed"]]
    /\ Answer(r, Redirect("signin"), "handled")
    /\ UNCHANGED <<accounts, cookie, form, from, proved>>

\* Destroy fails: errMsg
SignoutFails(r) ==
    /\ At(r, "Signout")
    /\ Show(r, Page("index", None))
    /\ UNCHANGED accounts

ResendSignupToken(r) ==
    /\ At(r, "ResendSignupToken")
    /\ \/ /\ \E t \in Tokens : FreshToken(t) /\ Service!Reissue(form[r].email, t)
          /\ Show(r, Page("signin", None))
       \/ /\ users[form[r].email] # NoRow /\ users[form[r].email].verified
          /\ Show(r, Page("signin", FieldsOf(form[r].route)))   \* ErrUserAlreadyVerified
          /\ UNCHANGED accounts

ResetPassword(r) ==
    /\ At(r, "ResetPassword")
    /\ \E t \in Tokens : FreshToken(t) /\ Service!RequestReset(form[r].email, t)
    /\ Show(r, Page("signin", None))

ResetPasswordToken(r) ==
    /\ At(r, "ResetPasswordToken")
    /\ \E l \in links : l.token = form[r].token /\ l.type = "PASSWORD"
    /\ Show(r, Page("reset-password-token", FieldsOf(form[r].route)))
    /\ UNCHANGED accounts

FaultyChangePassword(r) ==
    /\ At(r, "ChangePassword")
    /\ \E e \in Emails : Service!ChangePassword(e, form[r].password)
    /\ Show(r, Page("index", None))
\* The account is the one of the session, never one the form names.
ChangePassword(r) ==
    /\ At(r, "ChangePassword")
    /\ Service!ChangePassword(sd[r].email, form[r].password)
    /\ Show(r, Page("index", None))

ChangePasswordWithToken(r) ==
    /\ At(r, "ChangePasswordWithToken")
    /\ \E l \in links :
        /\ l.token = form[r].token
        /\ Service!ResetWithLink(l, form[r].password)
        /\ Enter(r, l.email)
    /\ Prove(r)

Handle(r) ==
    \/ PageRenderer(r) \/ Refuse(r)
    \/ Signin(r) \/ Signup(r) \/ SignupToken(r)
    \/ Signout(r) \/ SignoutFails(r)
    \/ ResendSignupToken(r) \/ ResetPassword(r) \/ ResetPasswordToken(r)
    \/ ChangePassword(r) \/ ChangePasswordWithToken(r)

Next ==
    \/ \E r \in Requests :
        \/ Send(r) \/ Receive(r) \/ Drop(r)
        \/ Reject(r) \/ Load(r) \/ Guard(r) \/ Handle(r) \/ Respond(r)
    \/ \E i \in SessionIds : Expire(i)

Spec == Init /\ [][Next]_vars

=============================================================================
