--------------------------- MODULE UserProperties ---------------------------
(***************************************************************************)
(* What the accounts of dimdim must satisfy whatever the requests do to    *)
(* each other.                                                             *)
(***************************************************************************)
EXTENDS UserService

TokenTypes == {"SIGNUP", "PASSWORD"}

\* The undeleted tokens of a type that an email has in the content d.
LiveTokens(d, type, e) == {t \in Tokens : Live(d, type, t) /\ d.tokens[t].email = e}

\* What the tables must say of tokens and accounts.
OneLiveTokenIn(d) ==
    \A e \in Emails, type \in TokenTypes :
        \A t, u \in LiveTokens(d, type, e) : t = u

TokensMatchIn(d) ==
    \A e \in Emails :
        /\ LiveTokens(d, "SIGNUP", e) # {} => d.users[e] # NoRow /\ ~ d.users[e].verified
        /\ LiveTokens(d, "PASSWORD", e) # {} => d.users[e] # NoRow /\ d.users[e].verified

\* An email never has two links of one kind that both work: whoever asks for a
\* new one, and whatever runs at the same time, the older ones are dead
\* (user.go:142, 189, 274).
OneLiveTokenPerKind == OneLiveTokenIn(db)

\* A confirmation link that works belongs to an account still waiting for it,
\* a reset link that works to a verified account: so the UPDATE of a redemption
\* finds its row, and a reset cannot open an unverified account (user.go:182,
\* 234, 267, 394).
TokenMatchesAccount == TokensMatchIn(db)

\* Every token in the database was mailed to its owner, behind the link that
\* redeems it: a token whose mail failed is rolled back (user.go:156, 203, 288).
CommittedTokenWasMailed ==
    \A t \in Tokens : db.tokens[t] # NoRow =>
        \E m \in mailed :
            /\ m.token = t
            /\ m.to = db.tokens[t].email
            /\ m.link = IF db.tokens[t].type = "SIGNUP"
                        THEN "/auth/signup/" ELSE "/auth/reset-password/"

\* The cache, filled inside transactions that may still fail and never
\* corrected, never names a user the database does not have (user.go:243, 359,
\* 411, 426).
CacheAgrees ==
    \A e \in Emails : cache[e] # None =>
        db.users[e] # NoRow /\ db.users[e].name = cache[e]

\* The answer tells the truth about the transaction.  A call that issues a link
\* and answers nil left its token in the database, one that answers an error
\* left no trace of it; a redemption that answers nil killed its token, and its
\* account is verified (storage.go:117-132).
AnswerMatchesDatabase ==
    \A r \in Requests :
        /\ pc[r] = "ok" /\ req[r].op \in WriteOps =>
                db.tokens[req[r].token] # NoRow /\ db.users[req[r].email] # NoRow
        /\ pc[r] = "err" /\ req[r].op \in WriteOps => db.tokens[req[r].token] = NoRow
        /\ pc[r] = "ok" /\ req[r].op \in RedeemOps =>
                LET token == db.tokens[req[r].token]
                IN  token # NoRow /\ token.deleted /\ db.users[token.email].verified

\* Two requests that follow the same link, the double click, are never both
\* told that it worked (user.go:222-239, 377-407).
LinkWorksOnce ==
    \A r, q \in Requests :
        /\ r # q
        /\ pc[r] = "ok" /\ pc[q] = "ok"
        /\ req[r].op \in RedeemOps /\ req[q].op \in RedeemOps
        => req[r].token # req[q].token

----------------------------------------------------------------------------

UserAdvances(u, v) ==
    u # NoRow => /\ v # NoRow
                 /\ v.email = u.email /\ v.name = u.name
                 /\ u.verified => v.verified

TokenAdvances(t, v) ==
    t # NoRow => /\ v # NoRow
                 /\ v.type = t.type /\ v.email = t.email /\ v.expiresAt = t.expiresAt
                 /\ t.deleted => v.deleted

\* d2 loses nothing d1 had: no user or token disappears, no name changes, no
\* verified user becomes unverified, no dead token comes back.
Advances(d1, d2) ==
    /\ \A e \in Emails : UserAdvances(d1.users[e], d2.users[e])
    /\ \A t \in Tokens : TokenAdvances(d1.tokens[t], d2.tokens[t])

\* No commit undoes an earlier one.  The operations that write through db.Read
\* read without any lock and write later; SQLite must stop the ones whose
\* snapshot has grown old (storage.go:106, user.go:220, 375).
NoLostUpdate == [][Advances(db, db')]_db

\* What a step does to the accounts, and the call it needs.
Verifies(e) == db.users[e] # NoRow /\ ~ db.users[e].verified /\ db'.users[e].verified

ChangesPassword(e) ==
    db.users[e] # NoRow /\ db.users[e].password # db'.users[e].password

\* r is being served with a token of e that is live at the moment of the
\* commit, had not expired when r looked, and dies with the commit.
Spends(r, op, type, e) ==
    /\ req[r].op = op
    /\ req[r].token \in LiveTokens(db, type, e)
    /\ db.tokens[req[r].token].expiresAt >= req[r].at
    /\ LiveTokens(db', type, e) = {}

Commits(r) == pc[r] \in {"mailed", "finished"} /\ pc'[r] = "ok"

\* An account is verified only by the commit of a ValidateSignupToken whose
\* token is still good at that moment, however long ago it was read: a token
\* resent or spent in between stops it (user.go:221-239).
VerifiedOnlyByItsToken ==
    [][\A e \in Emails : Verifies(e) =>
            \E r \in Requests :
                Commits(r) /\ Spends(r, "ValidateSignupToken", "SIGNUP", e)]_db

\* A password changes only by the commit of a ChangePassword for that email,
\* or of a ChangePasswordWithToken whose token is still good at that moment
\* although a slow hash lies between the two (user.go:346, 376-407).
PasswordOnlyChangedByOwner ==
    [][\A e \in Emails : ChangesPassword(e) =>
            \E r \in Requests :
                /\ Commits(r)
                /\ db'.users[e].password = req[r].password
                /\ \/ req[r].op = "ChangePassword" /\ req[r].email = e
                   \/ Spends(r, "ChangePasswordWithToken", "PASSWORD", e)]_db

----------------------------------------------------------------------------

LinkOf(t) ==
    [token |-> t, email |-> db.tokens[t].email, type |-> db.tokens[t].type]

\* The committed rows as clients see them.
Abstract == INSTANCE Accounts WITH
    users <- db.users,
    links <- {LinkOf(t) : t \in {u \in Tokens : db.tokens[u] # NoRow
                                                /\ ~ db.tokens[u].deleted}}

\* The closures run by db.Read and db.Write, with their locks, snapshots,
\* mails, failures and restarts, are atomic operations on the accounts.
ImplementsAccounts == Abstract!Spec

\* A reset mail is written from its own template, "Reset your password"
\* (embeded/mails/password.tmpl:9).
ResetMailUsesPasswordTemplate ==
    \A m \in mailed : m.link = "/auth/reset-password/" => m.template = "password"

=============================================================================
