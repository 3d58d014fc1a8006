----------------------------- MODULE UserHistory -----------------------------
(***************************************************************************)
(* What the answers of the user service say of the database, for the       *)
(* operations that read it without a lock and answer later, when others    *)
(* may have committed: UserService with a history of the contents the      *)
(* database had during each call.                                          *)
(***************************************************************************)
EXTENDS UserProperties

VARIABLE seen       \* history: the committed contents since the call of each request

hvars == <<vars, seen>>

HInit == Init /\ seen = [r \in Requests |-> {}]

\* A call sees what is committed when it begins and every commit until it ends.
Observe ==
    seen' = [r \in Requests |-> IF pc'[r] = "idle" THEN {} ELSE seen[r] \cup {db'}]

HNext == Next /\ Observe

HSpec == HInit /\ [][HNext]_hvars

----------------------------------------------------------------------------

\* The account of an email in the content d is open to whoever has the password.
Opens(d, e, password) ==
    d.users[e] # NoRow /\ d.users[e].verified /\ d.users[e].password = password

\* The content d would let the call c through.
Grants(d, c) ==
    CASE c.op = "Signin"             -> Opens(d, c.email, c.password)
      [] c.op = "ResetPasswordToken" -> GetPasswordTokenNotExpired(d, c.token, c.at)
      [] c.op = "GetUser"            -> GetUser(d, c.email) # NoRow
      [] c.op = "ChangePassword"     ->
            GetUser(d, c.email) # NoRow /\ GetUser(d, c.email).password = c.password
      [] OTHER                       -> TRUE

\* A positive answer was true at some moment between the call and the answer,
\* although it is given after the transaction ended and from a row that may have
\* changed: a password works for a Signin that began after its change was
\* answered only if it is the new one, an unverified account never signs in, a
\* reset form is shown only for a link that worked, a changed password was
\* really stored (user.go:82-106, 302-327, 341-366).
AnswersWereTrue ==
    \A r \in Requests : pc[r] = "ok" => \E d \in seen[r] : Grants(d, req[r])

=============================================================================
