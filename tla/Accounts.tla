------------------------------ MODULE Accounts ------------------------------
(***************************************************************************)
(* What the user service promises, with every operation one atomic step:   *)
(* no transactions, locks, mails, cache or failures.  users maps an email  *)
(* to its account, links holds the links a client can still redeem.        *)
(***************************************************************************)
CONSTANTS Emails, Names, Passwords, Tokens, NoRow

VARIABLES users, links

accounts == <<users, links>>

Init ==
    /\ users = [e \in Emails |-> NoRow]
    /\ links = {}

\* The links of an email that confirm its address ("SIGNUP") or let its owner
\* choose a new password ("PASSWORD").
LinksOf(e, type) == {l \in links : l.email = e /\ l.type = type}

\* A new link takes the place of the older ones of its type.
Issue(t, e, type) ==
    links' = (links \ LinksOf(e, type)) \cup {[token |-> t, email |-> e, type |-> type]}

Redeem(l) ==
    /\ l \in links
    /\ links' = links \ LinksOf(l.email, l.type)

Register(e, n, p, t) ==
    /\ users[e] = NoRow
    /\ users' = [users EXCEPT ![e] =
                    [email |-> e, name |-> n, password |-> p, verified |-> FALSE]]
    /\ Issue(t, e, "SIGNUP")

Reissue(e, t) ==
    /\ users[e] # NoRow /\ ~ users[e].verified
    /\ Issue(t, e, "SIGNUP")
    /\ UNCHANGED users

Confirm(l) ==
    /\ l.type = "SIGNUP"
    /\ Redeem(l)
    /\ users' = [users EXCEPT ![l.email].verified = TRUE]

RequestReset(e, t) ==
    /\ users[e] # NoRow /\ users[e].verified
    /\ Issue(t, e, "PASSWORD")
    /\ UNCHANGED users

ResetWithLink(l, p) ==
    /\ l.type = "PASSWORD"
    /\ Redeem(l)
    /\ users' = [users EXCEPT ![l.email].password = p]

ChangePassword(e, p) ==
    /\ users[e] # NoRow
    /\ users' = [users EXCEPT ![e].password = p]
    /\ UNCHANGED links

Next ==
    \/ \E e \in Emails, t \in Tokens :
        \/ Reissue(e, t)
        \/ RequestReset(e, t)
        \/ \E n \in Names, p \in Passwords : Register(e, n, p, t)
    \/ \E l \in links : Confirm(l) \/ \E p \in Passwords : ResetWithLink(l, p)
    \/ \E e \in Emails, p \in Passwords : ChangePassword(e, p)

Spec == Init /\ [][Next]_accounts

=============================================================================
