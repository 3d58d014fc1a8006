----------------------------- MODULE Datastore -----------------------------
(***************************************************************************)
(* The tables users and tokens and the queries of storage/datastore the    *)
(* user service calls.  A query is an operator on the content of a         *)
(* database; a missing row is NoRow (sql.ErrNoRows).                        *)
(*                                                                         *)
(* A password stands for the pair (hash, salt): salts are random and       *)
(* Argon2id is taken to be collision free, so argon.Compare accepts        *)
(* exactly the password that was hashed.  Timestamps other than expires_at *)
(* are kept only as far as the code tells them apart: verified is          *)
(* verified_at > 0, deleted is deleted_at # 0.  No operation of the        *)
(* program sets users.deleted_at, so the column is left out.               *)
(***************************************************************************)
EXTENDS Naturals

CONSTANTS
    Emails, Names, Passwords,
    Tokens,     \* the UUIDs uuid.New can draw
    NoRow       \* sql.ErrNoRows

User == [email: Emails, name: Names, password: Passwords, verified: BOOLEAN]

Token == [type: {"SIGNUP", "PASSWORD"}, email: Emails, expiresAt: Nat,
          deleted: BOOLEAN]

Content == [users: [Emails -> User \cup {NoRow}],
            tokens: [Tokens -> Token \cup {NoRow}]]

ASSUME RowsAssumption == NoRow \notin User \cup Token

\* The tables as the migrations leave them.
EmptyContent == [users |-> [e \in Emails |-> NoRow],
                 tokens |-> [t \in Tokens |-> NoRow]]

----------------------------------------------------------------------------
\* users.sql.go

GetUser(d, e) == d.users[e]

CreateUser(d, e, n, p) ==
    [d EXCEPT !.users[e] =
        [email |-> e, name |-> n, password |-> p, verified |-> FALSE]]

SetUserIsVerified(d, e) == [d EXCEPT !.users[e].verified = TRUE]

UpdateUserPassword(d, e, p) == [d EXCEPT !.users[e].password = p]

----------------------------------------------------------------------------
\* tokens.sql.go

CreateToken(d, t, type, e, expiresAt) ==
    [d EXCEPT !.tokens[t] =
        [type |-> type, email |-> e, expiresAt |-> expiresAt, deleted |-> FALSE]]

DeleteTokensByEmail(d, type, e) ==
    [d EXCEPT !.tokens = [t \in Tokens |->
        IF d.tokens[t] # NoRow /\ d.tokens[t].type = type /\ d.tokens[t].email = e
        THEN [d.tokens[t] EXCEPT !.deleted = TRUE]
        ELSE d.tokens[t]]]

FaultyDeleteTokensByEmail(d, e) == d
DeleteSignupTokensByEmail(d, e) == DeleteTokensByEmail(d, "SIGNUP", e)
DeletePasswordTokensByEmail(d, e) == DeleteTokensByEmail(d, "PASSWORD", e)

\* t is an undeleted token of this type.
Live(d, type, t) ==
    /\ d.tokens[t] # NoRow
    /\ d.tokens[t].type = type
    /\ ~ d.tokens[t].deleted

\* The WHERE clauses of the two selections by token; now is inclusive.
GetSignupTokenNotExpired(d, t, now) ==
    Live(d, "SIGNUP", t) /\ d.tokens[t].expiresAt >= now

FaultyGetPasswordTokenNotExpired(d, t, now) == Live(d, "PASSWORD", t)
GetPasswordTokenNotExpired(d, t, now) ==
    Live(d, "PASSWORD", t) /\ d.tokens[t].expiresAt >= now

=============================================================================
