---------------------------- MODULE WebProperties ----------------------------
(***************************************************************************)
(* What the sessions and pages of dimdim must satisfy when the requests of *)
(* a browser overlap, are lost, or find their session gone.                *)
(***************************************************************************)
EXTENDS Web

Verified(e) == e \in Emails /\ users[e] # NoRow /\ users[e].verified

\* Whatever session a browser can present, its account exists and is verified:
\* signing up does not sign in, and the panic of sessionDataMiddleware for an
\* email without a user (auth.go:394-397) is out of reach, also for a session
\* that an overlapping request writes back after its end. (As long as app.db keeps
\* what it committed: a power failure may take from it what sessions.db keeps.)
SessionNamesAccount ==
    /\ \A i \in SessionIds : sessions[i] # NoRow => Verified(sessions[i])
    /\ \A r \in Requests : SignedIn(r) => Verified(sd[r].email)

\* The session a browser holds, or a request of it works with, is one of an
\* account this browser gave proof of, by its password or by a mailed link, since
\* it last signed out with nothing else under way: sessions of two browsers never
\* mix, and one that was signed out does not return to its browser, although
\* requests overlap, get lost and write whole sessions back (auth.go:73, 151, 157,
\* 376, sessionmanager.go:40).
OnlyProvenAccounts ==
    /\ \A b \in Browsers :
        cookie[b] # None /\ sessions[cookie[b]] # NoRow => sessions[cookie[b]] \in proved[b]
    /\ \A r \in Requests : SignedIn(r) => sd[r].email \in proved[from[r].browser]

\* A password changes only for the owner of the account: a browser that gave
\* proof of it since it signed out, or that follows a reset link of it now
\* (auth.go:314-315, 369).
OwnerChangesPassword ==
    [][\A e \in Emails :
        users[e] # NoRow /\ users'[e].password # users[e].password =>
            \E r \in Requests :
                \/ form[r] # None /\ form[r].route = "ChangePassword"
                   /\ pc[r] = "guarded" /\ e \in proved[from[r].browser]
                \/ form[r] # None /\ form[r].route = "ChangePasswordWithToken"
                   /\ pc[r] = "guarded" /\ e \in ProvenBy(r)]_vars

\* The templates read these fields.
FieldsRead(view) ==
    CASE view = "signin"               -> {"Email", "Password"}
      [] view = "signup"               -> {"Email", "Name", "Password", "Confirm"}
      [] view = "change-password"      -> {"Password", "Confirm"}
      [] view = "reset-password-token" -> {"Token", "Password", "Confirm"}
      [] view \in {"resend-signup-token", "reset-password"} -> {"Email"}
      [] OTHER                         -> {}

\* Render executes the template of a registered view and panics when it fails: on
\* a field that is not there, or, in the one template that does not check for
\* them (reset-password-token.tmpl:16), when there are no fields at all.
Renders(view, fields) ==
    /\ view \in Views
    /\ IF fields = None THEN view # "reset-password-token"
       ELSE FieldsRead(view) \subseteq fields

\* Every page finds the fields its template reads, also when an error is shown
\* on the page of another form: Render panics when one is missing
\* (embeded.go:39-42, auth.go:184-192, 205, 265-274).
PagesHaveTheirFields ==
    \A r \in Requests :
        answer[r] # None /\ answer[r].kind = "page" =>
            Renders(answer[r].view, answer[r].fields)

\* A redirect leads to a page: the session the response leaves the browser is
\* signed in when it is sent home, and there is none when it is sent to sign in;
\* so the two guards never send a browser back and forth (auth.go:414-434).
RedirectsLand ==
    \A r \in Requests :
        pc[r] = "answered" /\ answer[r].kind = "redirect" =>
            IF SignedIn(r) THEN answer[r].view \notin SignedOutRoutes /\ sd[r].id # None
            ELSE answer[r].view \notin SignedInRoutes

=============================================================================
