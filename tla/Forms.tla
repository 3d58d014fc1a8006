------------------------------- MODULE Forms -------------------------------
(***************************************************************************)
(* internal/web/auth.go: what the texts people type into the forms are     *)
(* turned into before they reach the user service, and what the forms show *)
(* when they come back with an error.  Module Web leaves this out: there a *)
(* form names its account.                                                 *)
(*                                                                         *)
(* A text is a sequence of pieces: addresses and words, "blank", a "tag"   *)
(* such as <b> or <a@b>, a "comment" such as (Joe), and a "quote", one of  *)
(* the characters that HTML escapes.  An address is one spelling of it,    *)
(* letter case included: net/mail keeps the case and the table users       *)
(* compares emails byte by byte, so that a@x.com and a@X.com are two of    *)
(* the Addresses and may have an account each.                             *)
(***************************************************************************)
EXTENDS Sequences, FiniteSetsExt

CONSTANTS
    Addresses, Words,                       \* the pieces of texts besides Marks
    EmailTexts, NameTexts, PasswordTexts,   \* what people type
    Tokens, NoRow, None

Marks == {"blank", "tag", "comment", "quote", "escaped"}
Pieces == Addresses \cup Words \cup Marks

ASSUME AddressesAssumption == Addresses \cap Marks = {}
ASSUME TextsAssumption == EmailTexts \cup NameTexts \cup PasswordTexts \subseteq Seq(Pieces)
ASSUME NoneAssumption == None \notin {<<a>> : a \in Addresses}

VARIABLES
    users, links,   \* the accounts and their links, as in Accounts
    page,           \* the form that is shown with an error, None for no such form
    typed           \* history: the text that last set the password of an account

accounts == <<users, links>>
vars == <<accounts, page, typed>>

Forms ==
    [route: {"Signin"}, email: EmailTexts, password: PasswordTexts]
    \cup [route: {"Signup"}, email: EmailTexts, name: NameTexts,
          password: PasswordTexts, confirm: PasswordTexts]
    \cup [route: {"ResendSignupToken", "ResetPassword"}, email: EmailTexts]
    \cup [route: {"ChangePassword"}, password: PasswordTexts, confirm: PasswordTexts]
    \cup [route: {"ChangePasswordWithToken"}, token: Tokens,
          password: PasswordTexts, confirm: PasswordTexts]

----------------------------------------------------------------------------
\* Texts

\* strings.TrimSpace
TrimSpace(t) ==
    LET solid == {i \in DOMAIN t : t[i] # "blank"}
    IN  IF solid = {} THEN <<>> ELSE SubSeq(t, Min(solid), Max(solid))

\* bluemonday.StrictPolicy: tags go, quotes are escaped.
SanitizePiece(p) ==
    CASE p = "tag"   -> <<>>
      [] p = "quote" -> <<"escaped">>
      [] OTHER       -> <<p>>
Sanitize(t) ==
    LET upTo[n \in 0..Len(t)] ==
            IF n = 0 THEN <<>> ELSE upTo[n - 1] \o SanitizePiece(t[n])
    IN  upTo[Len(t)]

\* net/mail: an address, perhaps with comments behind it, is returned in the letters
\* it was typed in.  A name before an address needs angle brackets, and what these
\* enclose is a tag; a group of addresses is not among the texts.
ParseAddress(t) ==
    LET s == TrimSpace(t)
    IN  IF /\ s # <<>> /\ Head(s) \in Addresses
           /\ \A i \in 2..Len(s) : s[i] \in {"blank", "comment"}
        THEN <<Head(s)>> ELSE None

Clean(t) == Sanitize(TrimSpace(t))

\* What can reach the service as the email of an account.  A form that is shown and
\* sent again is cleaned twice.
Keys == {<<a>> : a \in Addresses}
        \cup UNION {{Clean(t), Clean(Clean(t))} : t \in EmailTexts}

Service == INSTANCE Accounts WITH
    Emails <- Keys, Names <- NameTexts, Passwords <- PasswordTexts

Init ==
    /\ Service!Init
    /\ page = None
    /\ typed = [k \in Keys |-> <<>>]

----------------------------------------------------------------------------
\* The validate methods.  Each works on the form in place and stops at the first
\* error, so that what comes after it stays as it was typed.

Accept(f) == [ok |-> TRUE, form |-> f]
Reject(f) == [ok |-> FALSE, form |-> f]

FaultyValidateSignin(f) ==
    LET g == [f EXCEPT !.email = Clean(f.email)]
    IN  IF ParseAddress(g.email) = None \/ f.password = <<>> THEN Reject(g) ELSE Accept(g)
\* The email is checked to be an address, and then used as it was typed.
ValidateSignin(f) ==
    LET g == [f EXCEPT !.email = Clean(f.email)]
        h == [g EXCEPT !.password = TrimSpace(f.password)]
    IN  IF ParseAddress(g.email) = None THEN Reject(g)
        ELSE IF h.password = <<>> THEN Reject(h)
        ELSE Accept(h)

FaultyValidateEmail(f) ==
    LET g == [f EXCEPT !.email = Clean(f.email)]
    IN  IF ParseAddress(g.email) = None THEN Reject(g) ELSE Accept(g)
\* The email is reduced to the bare address.
ValidateEmail(f) ==
    LET g == [f EXCEPT !.email = Clean(f.email)]
        address == ParseAddress(g.email)
    IN  IF address = None THEN Reject(g) ELSE Accept([g EXCEPT !.email = address])

\* A password and its repetition.  The form with a token trims the token too and
\* refuses an empty one; Tokens are neither blank nor empty.
ValidatePassword(f) ==
    LET g == [f EXCEPT !.password = TrimSpace(f.password), !.confirm = TrimSpace(f.confirm)]
    IN  IF g.password = <<>> \/ g.password # g.confirm THEN Reject(g) ELSE Accept(g)

ValidateSignup(f) ==
    LET g == [f EXCEPT !.name = Clean(f.name)]
        h == ValidateEmail(g)
    IN  IF g.name = <<>> THEN Reject(g)
        ELSE IF ~ h.ok THEN h
        ELSE ValidatePassword(h.form)

Validate(f) ==
    CASE f.route = "Signin" -> ValidateSignin(f)
      [] f.route = "Signup" -> ValidateSignup(f)
      [] f.route \in {"ResendSignupToken", "ResetPassword"} -> ValidateEmail(f)
      [] f.route \in {"ChangePassword", "ChangePasswordWithToken"} -> ValidatePassword(f)

----------------------------------------------------------------------------
\* Submitting a form: one that was filled in, or the one that is shown, as it is.

Submitted(f) == f \in Forms \/ f = page

\* The form comes back: it does not validate, or the service returns an error.
\* The error of an account that is verified already comes with the page to sign in.
Refuse(f) ==
    /\ Submitted(f)
    /\ page' = Validate(f).form
    /\ UNCHANGED <<accounts, typed>>

AlreadyVerified(f) ==
    LET v == Validate(f)
    IN  /\ Submitted(f) /\ f.route = "ResendSignupToken" /\ v.ok
        /\ users[v.form.email] # NoRow /\ users[v.form.email].verified
        /\ page' = [route |-> "Signin", email |-> v.form.email, password |-> <<>>]
        /\ UNCHANGED <<accounts, typed>>

\* The form f, once it is valid, reaches the service as v.form.
Accepted(f, route) == Submitted(f) /\ f.route = route /\ Validate(f).ok /\ page' = None

FreshToken(t) == \A l \in links : l.token # t

Signin(f) ==
    /\ Accepted(f, "Signin")
    /\ LET v == Validate(f).form
       IN  /\ users[v.email] # NoRow /\ users[v.email].verified
           /\ users[v.email].password = v.password
    /\ UNCHANGED <<accounts, typed>>

Signup(f) ==
    /\ Accepted(f, "Signup")
    /\ LET v == Validate(f).form
       IN  /\ \E t \in Tokens :
                FreshToken(t) /\ Service!Register(v.email, v.name, v.password, t)
           /\ typed' = [typed EXCEPT ![v.email] = f.password]

ResendSignupToken(f) ==
    /\ Accepted(f, "ResendSignupToken")
    /\ \E t \in Tokens : FreshToken(t) /\ Service!Reissue(Validate(f).form.email, t)
    /\ UNCHANGED typed

ResetPassword(f) ==
    /\ Accepted(f, "ResetPassword")
    /\ \E t \in Tokens : FreshToken(t) /\ Service!RequestReset(Validate(f).form.email, t)
    /\ UNCHANGED typed

\* The account is the one of some session.
ChangePassword(f) ==
    /\ Accepted(f, "ChangePassword")
    /\ \E k \in Keys :
        /\ users[k] # NoRow /\ users[k].verified
        /\ Service!ChangePassword(k, Validate(f).form.password)
        /\ typed' = [typed EXCEPT ![k] = f.password]

ChangePasswordWithToken(f) ==
    /\ Accepted(f, "ChangePasswordWithToken")
    /\ \E l \in links :
        /\ l.token = f.token
        /\ Service!ResetWithLink(l, Validate(f).form.password)
        /\ typed' = [typed EXCEPT ![l.email] = f.password]

\* The link of a confirmation mail is followed.
SignupToken ==
    /\ \E l \in links : Service!Confirm(l)
    /\ UNCHANGED <<page, typed>>

Next ==
    \/ \E f \in Forms \cup ({page} \ {None}) :
        \/ Refuse(f) \/ AlreadyVerified(f)
        \/ Signin(f) \/ Signup(f) \/ ResendSignupToken(f) \/ ResetPassword(f)
        \/ ChangePassword(f) \/ ChangePasswordWithToken(f)
    \/ SignupToken

Spec == Init /\ [][Next]_vars

----------------------------------------------------------------------------
\* Whatever blanks, tags and comments an address is typed with, it has one account:
\* with two of them a link mailed to its owner would change the password of one and
\* leave the other as it was.  Nothing is said of two spellings of one mailbox that
\* differ in the case of letters: these are two addresses to the code (auth.go:90-96,
\* 00001_add_table_users.sql:4).
OneAccountPerSpelling ==
    \A k, l \in Keys :
        users[k] # NoRow /\ users[l] # NoRow /\ ParseAddress(k) = ParseAddress(l) => k = l

\* An account can be entered: its bare address and the password, typed as in the
\* form that set it last, pass the sign-in form and are what the account has,
\* although five forms clean their texts each on its own (auth.go:35-43, 98-105,
\* 283-290, 336-343).
TypedPasswordOpens ==
    \A k \in Keys :
        users[k] # NoRow =>
            LET v == Validate([route |-> "Signin", email |-> ParseAddress(k),
                               password |-> typed[k]])
            IN  v.ok /\ v.form.email = k /\ v.form.password = users[k].password

\* A form that comes back with an error and is sent again as it is shown asks for
\* the same account and the same password; only the page to sign in may ask for
\* another account (auth.go:35-38).
ShownFormsAskTheSame ==
    page # None =>
        LET again == Validate(page).form
        IN  Validate(page).ok =>
                /\ "email" \in DOMAIN page /\ page.route # "Signin" => again.email = page.email
                /\ "password" \in DOMAIN page => again.password = page.password

=============================================================================
