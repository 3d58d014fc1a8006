---------------------------- MODULE FormsProofs ----------------------------
(***************************************************************************)
(* Proofs about Forms, for texts of any length.  What trimming, sanitising *)
(* and parsing do to a text comes first, then what the validate methods    *)
(* leave behind (Settled), and then the invariant: every account is named  *)
(* by a bare address and has the trimmed password that was typed for it.   *)
(***************************************************************************)
EXTENDS Forms, Integers, SequenceTheorems, NaturalsInduction, WellFoundedInduction, TLAPS

Text == Seq(Pieces)

Bare == {<<a>> : a \in Addresses}

----------------------------------------------------------------------------
\* A set of positions has a first and a last one.

LEMMA LeastPosition ==
    ASSUME NEW S \in SUBSET Nat, S # {}
    PROVE  \E x \in S : \A y \in S : x <= y
<1>1. IsWellFoundedOn(OpToRel(<, Nat), Nat)
  BY NatLessThanWellFounded
<1>2. PICK x \in S : \A y \in Nat : <<y, x>> \in OpToRel(<, Nat) => y \notin S
  BY <1>1, WFMin
<1>3. ASSUME NEW y \in S
      PROVE  x <= y
  <2>1. x \in Nat /\ y \in Nat
    OBVIOUS
  <2>2. y < x => <<y, x>> \in OpToRel(<, Nat)
    BY <2>1 DEF OpToRel
  <2>3. ~ (y < x)
    BY <1>2, <2>1, <2>2
  <2> QED BY <2>1, <2>3
<1> QED BY <1>3

LEMMA FirstAndLast ==
    ASSUME NEW n \in Nat, NEW S \in SUBSET (1..n), S # {}
    PROVE  /\ Min(S) \in S /\ \A y \in S : Min(S) <= y
           /\ Max(S) \in S /\ \A y \in S : Max(S) >= y
<1>1. Min(S) \in S /\ \A y \in S : Min(S) <= y
  <2>1. \E x \in S : \A y \in S : x <= y
    BY LeastPosition
  <2> QED BY <2>1 DEF Min
<1>2. Max(S) \in S /\ \A y \in S : Max(S) >= y
  <2> DEFINE M == {n - x : x \in S}
  <2>1. M \in SUBSET Nat /\ M # {}
    <3>1. \A x \in S : x \in Int /\ x <= n
      OBVIOUS
    <3>2. \A x \in S : n - x \in Nat /\ n - x \in M
      BY <3>1
    <3> QED BY <3>2
  <2>2. PICK m \in M : \A k \in M : m <= k
    BY <2>1, LeastPosition
  <2>3. PICK x \in S : m = n - x
    BY <2>2
  <2>4. ASSUME NEW y \in S
        PROVE  x >= y
    <3>1. x \in Int /\ y \in Int
      OBVIOUS
    <3>2. n - y \in M
      OBVIOUS
    <3> HIDE DEF M
    <3>3. n - x <= n - y
      BY <2>2, <2>3, <3>2
    <3> QED BY <3>1, <3>3
  <2> QED BY <2>4 DEF Max
<1> QED BY <1>1, <1>2

----------------------------------------------------------------------------
\* TrimSpace

\* A text without a blank at its ends
Trimmed(t) == t = <<>> \/ (t[1] # "blank" /\ t[Len(t)] # "blank")

LEMMA TrimSpaceValue ==
    ASSUME NEW t \in Text
    PROVE  LET solid == {i \in 1..Len(t) : t[i] # "blank"}
           IN  TrimSpace(t) = IF solid = {} THEN <<>> ELSE SubSeq(t, Min(solid), Max(solid))
<1>1. DOMAIN t = 1..Len(t)
  BY LenProperties DEF Text
<1> QED BY <1>1 DEF TrimSpace

LEMMA TrimSpaceTrims ==
    ASSUME NEW t \in Text
    PROVE  /\ TrimSpace(t) \in Text
           /\ Trimmed(TrimSpace(t))
           /\ \A i \in 1..Len(TrimSpace(t)) : \E j \in 1..Len(t) : TrimSpace(t)[i] = t[j]
<1> DEFINE solid == {i \in 1..Len(t) : t[i] # "blank"}
           s == TrimSpace(t)
<1>1. CASE solid = {}
  <2>1. s = <<>>
    BY <1>1, TrimSpaceValue
  <2> QED BY <2>1 DEF Text, Trimmed
<1>2. CASE solid # {}
  <2> DEFINE m == Min(solid)
             n == Max(solid)
  <2>1. m \in solid /\ n \in solid /\ m <= n
    <3>1. Len(t) \in Nat /\ solid \in SUBSET (1..Len(t))
      BY DEF Text
    <3> HIDE DEF solid
    <3> QED BY <1>2, <3>1, FirstAndLast
  <2>2. s = SubSeq(t, m, n)
    BY <1>2, TrimSpaceValue
  <2> HIDE DEF m, n, s
  <2>3. s \in Text /\ Len(s) = n - m + 1 /\ \A i \in 1..(n - m + 1) : s[i] = t[m + i - 1]
    <3>1. m \in Int /\ n \in Int /\ \A i \in m..n : t[i] \in Pieces
      BY <2>1, ElementOfSeq DEF Text
    <3> QED BY <2>1, <2>2, <3>1, SubSeqProperties DEF Text
  <2>4. m \in 1..Len(t) /\ n \in 1..Len(t) /\ t[m] # "blank" /\ t[n] # "blank" /\ Len(t) \in Nat
    BY <2>1 DEF Text
  <2>5. s[1] = t[m] /\ s[Len(s)] = t[n]
    <3>1. 1 \in 1..(n - m + 1) /\ n - m + 1 \in 1..(n - m + 1)
      BY <2>1, <2>4
    <3>2. m + 1 - 1 = m /\ m + (n - m + 1) - 1 = n
      BY <2>4
    <3> QED BY <2>3, <3>1, <3>2
  <2>6. ASSUME NEW i \in 1..Len(s)
        PROVE  \E j \in 1..Len(t) : s[i] = t[j]
    <3>1. m + i - 1 \in 1..Len(t)
      BY <2>1, <2>3, <2>4
    <3> QED BY <2>3, <3>1
  <2> QED BY <2>3, <2>4, <2>5, <2>6 DEF Trimmed, s
<1> QED BY <1>1, <1>2

LEMMA TrimSpaceOfTrimmed ==
    ASSUME NEW t \in Text, Trimmed(t)
    PROVE  TrimSpace(t) = t
<1> DEFINE solid == {i \in 1..Len(t) : t[i] # "blank"}
<1>1. CASE t = <<>>
  BY <1>1 DEF TrimSpace
<1>2. CASE t # <<>>
  <2>1. Len(t) \in Nat /\ Len(t) # 0
    BY <1>2, EmptySeq DEF Text
  <2>2. 1 \in solid /\ Len(t) \in solid
    BY <1>2, <2>1 DEF Trimmed
  <2>3. Min(solid) = 1 /\ Max(solid) = Len(t)
    <3>1. /\ Min(solid) \in solid /\ \A y \in solid : Min(solid) <= y
          /\ Max(solid) \in solid /\ \A y \in solid : Max(solid) >= y
      BY <2>1, <2>2, FirstAndLast
    <3> QED BY <2>1, <2>2, <3>1
  <2>4. SubSeq(t, 1, Len(t)) = t
    BY SubSeqFull DEF Text
  <2>5. TrimSpace(t) = SubSeq(t, Min(solid), Max(solid))
    <3>1. solid # {}
      BY <2>2
    <3> QED BY <3>1, TrimSpaceValue
  <2> QED BY <2>3, <2>4, <2>5
<1> QED BY <1>1, <1>2

LEMMA TrimSpaceTwice ==
    ASSUME NEW t \in Text
    PROVE  TrimSpace(TrimSpace(t)) = TrimSpace(t)
BY TrimSpaceTrims, TrimSpaceOfTrimmed

----------------------------------------------------------------------------
\* Sanitize.  f is the function that Sanitize builds, up to position m; the
\* inductions over positions are arguments on a least counterexample.

Sanitized(t, f, m) ==
    f = [n \in 0..m |-> IF n = 0 THEN <<>> ELSE f[n - 1] \o SanitizePiece(t[n])]

\* A text in which there is nothing for Sanitize to do
Harmless(t) == \A i \in 1..Len(t) : t[i] # "tag" /\ t[i] # "quote"

LEMMA SanitizeExtends ==
    ASSUME NEW t \in Text, NEW m \in Nat, m # 0, NEW g, Sanitized(t, g, m - 1)
    PROVE  \E f : Sanitized(t, f, m)
<1> DEFINE h == [n \in 0..m |-> IF n = m THEN g[m - 1] \o SanitizePiece(t[m]) ELSE g[n]]
<1>1. ASSUME NEW n \in 0..m
      PROVE  h[n] = IF n = 0 THEN <<>> ELSE h[n - 1] \o SanitizePiece(t[n])
  <2>1. CASE n = m
    <3>1. h[m - 1] = g[m - 1]
      OBVIOUS
    <3> QED BY <2>1, <3>1
  <2>2. CASE n # m /\ n # 0
    <3>1. n \in 0..(m - 1) /\ n - 1 \in 0..(m - 1)
      BY <2>2
    <3>2. h[n] = g[n] /\ h[n - 1] = g[n - 1]
      BY <2>2, <3>1
    <3>3. g[n] = g[n - 1] \o SanitizePiece(t[n])
      BY <2>2, <3>1 DEF Sanitized
    <3> QED BY <2>2, <3>2, <3>3
  <2>3. CASE n # m /\ n = 0
    <3>1. g[0] = <<>>
      BY DEF Sanitized
    <3> QED BY <2>3, <3>1
  <2> QED BY <2>1, <2>2, <2>3
<1>2. h = [n \in 0..m |-> h[n]]
  OBVIOUS
<1>3. Sanitized(t, h, m)
  <2> HIDE DEF h
  <2> QED BY <1>1, <1>2 DEF Sanitized
<1> QED BY <1>3

LEMMA SanitizeExists ==
    ASSUME NEW t \in Text, NEW m \in Nat
    PROVE  \E f : Sanitized(t, f, m)
<1> DEFINE S == {n \in Nat : ~ \E f : Sanitized(t, f, n)}
<1> SUFFICES ASSUME S # {} PROVE FALSE
  OBVIOUS
<1>1. PICK n \in S : \A k \in S : n <= k
  <2> HIDE DEF S
  <2>1. S \in SUBSET Nat
    BY DEF S
  <2> QED BY <2>1, LeastPosition
<1>2. n # 0
  <2>1. Sanitized(t, [i \in 0..0 |-> <<>>], 0)
    BY DEF Sanitized
  <2> QED BY <2>1
<1>3. n - 1 \in Nat /\ n - 1 \notin S
  BY <1>1, <1>2
<1> QED BY <1>2, <1>3, SanitizeExtends

LEMMA SanitizeValue ==
    ASSUME NEW t \in Text
    PROVE  \E f : Sanitized(t, f, Len(t)) /\ Sanitize(t) = f[Len(t)]
<1>1. Sanitize(t) = (CHOOSE f : Sanitized(t, f, Len(t)))[Len(t)]
  BY DEF Sanitize, Sanitized
<1>2. Len(t) \in Nat
  BY DEF Text
<1>3. \E f : Sanitized(t, f, Len(t))
  BY <1>2, SanitizeExists
<1> QED BY <1>1, <1>3

LEMMA SanitizePieceIsText ==
    ASSUME NEW p \in Pieces
    PROVE  SanitizePiece(p) \in Text /\ Harmless(SanitizePiece(p))
<1>1. CASE p = "tag"
  BY <1>1 DEF SanitizePiece, Text, Harmless
<1>2. CASE p = "quote"
  <2>1. SanitizePiece(p) = <<"escaped">>
    BY <1>2 DEF SanitizePiece
  <2>2. Len(<<"escaped">>) = 1 /\ <<"escaped">>[1] = "escaped"
    OBVIOUS
  <2>3. "escaped" # "tag" /\ "escaped" # "quote"
    OBVIOUS
  <2>4. Harmless(<<"escaped">>)
    BY <2>2, <2>3 DEF Harmless
  <2>5. <<"escaped">> \in Text
    <3>1. "escaped" \in Pieces
      BY DEF Pieces, Marks
    <3> QED BY <3>1 DEF Text
  <2> QED BY <2>1, <2>4, <2>5
<1>3. CASE p # "tag" /\ p # "quote"
  <2>1. SanitizePiece(p) = <<p>>
    BY <1>3 DEF SanitizePiece
  <2> QED BY <1>3, <2>1 DEF Text, Harmless
<1> QED BY <1>1, <1>2, <1>3

LEMMA SanitizeIsHarmless ==
    ASSUME NEW t \in Text
    PROVE  Sanitize(t) \in Text /\ Harmless(Sanitize(t))
<1>1. PICK f : Sanitized(t, f, Len(t)) /\ Sanitize(t) = f[Len(t)]
  BY SanitizeValue
<1>2. Len(t) \in Nat
  BY DEF Text
<1> DEFINE S == {n \in 0..Len(t) : ~ (f[n] \in Text /\ Harmless(f[n]))}
<1>3. S = {}
  <2> SUFFICES ASSUME S # {} PROVE FALSE
    OBVIOUS
  <2>1. PICK n \in S : \A k \in S : n <= k
    <3> HIDE DEF S
    <3>1. S \in SUBSET Nat
      BY DEF S
    <3> QED BY <3>1, LeastPosition
  <2>2. n \in 0..Len(t) /\ ~ (f[n] \in Text /\ Harmless(f[n]))
    OBVIOUS
  <2>3. f[n] = IF n = 0 THEN <<>> ELSE f[n - 1] \o SanitizePiece(t[n])
    BY <1>1, <2>2 DEF Sanitized
  <2>4. n # 0
    <3>1. <<>> \in Text /\ Harmless(<<>>)
      BY DEF Text, Harmless
    <3> QED BY <2>2, <2>3, <3>1
  <2>5. n - 1 \in 0..Len(t) /\ n - 1 \notin S /\ n \in 1..Len(t)
    BY <1>2, <2>1, <2>2, <2>4
  <2>6. f[n - 1] \in Text /\ Harmless(f[n - 1])
    BY <2>5
  <2>7. SanitizePiece(t[n]) \in Text /\ Harmless(SanitizePiece(t[n]))
    BY <2>5, SanitizePieceIsText, ElementOfSeq DEF Text
  <2>8. ASSUME NEW u \in Text, NEW v \in Text, Harmless(u), Harmless(v)
        PROVE  u \o v \in Text /\ Harmless(u \o v)
    BY <2>8, ConcatProperties DEF Text, Harmless
  <2> QED BY <2>2, <2>3, <2>4, <2>6, <2>7, <2>8
<1>4. Len(t) \in 0..Len(t) /\ Len(t) \notin S
  BY <1>2, <1>3
<1> QED BY <1>1, <1>4

LEMMA SanitizeOfHarmless ==
    ASSUME NEW t \in Text, Harmless(t)
    PROVE  Sanitize(t) = t
<1>1. PICK f : Sanitized(t, f, Len(t)) /\ Sanitize(t) = f[Len(t)]
  BY SanitizeValue
<1>2. Len(t) \in Nat
  BY DEF Text
<1> DEFINE S == {n \in 0..Len(t) : f[n] # SubSeq(t, 1, n)}
<1>3. S = {}
  <2> SUFFICES ASSUME S # {} PROVE FALSE
    OBVIOUS
  <2>1. PICK n \in S : \A k \in S : n <= k
    <3> HIDE DEF S
    <3>1. S \in SUBSET Nat
      BY DEF S
    <3> QED BY <3>1, LeastPosition
  <2>2. n \in 0..Len(t) /\ f[n] # SubSeq(t, 1, n)
    OBVIOUS
  <2>3. f[n] = IF n = 0 THEN <<>> ELSE f[n - 1] \o SanitizePiece(t[n])
    BY <1>1, <2>2 DEF Sanitized
  <2>4. n # 0
    <3>1. SubSeq(t, 1, 0) = <<>>
      BY SubSeqEmpty
    <3> QED BY <2>2, <2>3, <3>1
  <2>5. n - 1 \in 0..Len(t) /\ n - 1 \notin S /\ n \in 1..Len(t)
    BY <1>2, <2>1, <2>2, <2>4
  <2>6. f[n - 1] = SubSeq(t, 1, n - 1)
    BY <2>5
  <2>7. SanitizePiece(t[n]) = <<t[n]>>
    BY <2>5 DEF SanitizePiece, Harmless
  <2>8. SubSeq(t, 1, n) = SubSeq(t, 1, n - 1) \o <<t[n]>>
    <3>1. 1 \in 1..Len(t) /\ n \in 1..Len(t)
      BY <2>5, <1>2
    <3> QED BY <3>1, SubSeqRecursiveSecond DEF Text
  <2> QED BY <2>2, <2>3, <2>4, <2>6, <2>7, <2>8
<1>4. Len(t) \in 0..Len(t) /\ Len(t) \notin S
  BY <1>2, <1>3
<1>5. SubSeq(t, 1, Len(t)) = t
  BY SubSeqFull DEF Text
<1> QED BY <1>1, <1>4, <1>5

----------------------------------------------------------------------------
\* Clean and ParseAddress

LEMMA CleanIsHarmless ==
    ASSUME NEW t \in Text
    PROVE  Clean(t) \in Text /\ Harmless(Clean(t))
BY TrimSpaceTrims, SanitizeIsHarmless DEF Clean

\* A second cleaning only trims: the first one may have uncovered a blank.
LEMMA CleanTwice ==
    ASSUME NEW t \in Text
    PROVE  Clean(Clean(t)) = TrimSpace(Clean(t))
<1> DEFINE c == Clean(t)
           s == TrimSpace(c)
<1>1. c \in Text /\ Harmless(c)
  BY CleanIsHarmless
<1> HIDE DEF c
<1>2. s \in Text /\ \A i \in 1..Len(s) : \E j \in 1..Len(c) : s[i] = c[j]
  BY <1>1, TrimSpaceTrims
<1> HIDE DEF s
<1>3. Harmless(s)
  BY <1>1, <1>2 DEF Harmless
<1>4. Sanitize(s) = s
  BY <1>2, <1>3, SanitizeOfHarmless
<1> QED BY <1>4 DEF Clean, c, s

LEMMA ParseTrimmed ==
    ASSUME NEW t \in Text
    PROVE  ParseAddress(TrimSpace(t)) = ParseAddress(t)
<1> DEFINE s == TrimSpace(t)
<1>1. TrimSpace(s) = s
  BY TrimSpaceTwice
<1> HIDE DEF s
<1>2. ParseAddress(s) = ParseAddress(t)
  BY <1>1 DEF ParseAddress, s
<1> QED BY <1>2 DEF s

LEMMA ParseCleaned ==
    ASSUME NEW t \in Text
    PROVE  ParseAddress(Clean(Clean(t))) = ParseAddress(Clean(t))
BY CleanTwice, CleanIsHarmless, ParseTrimmed

LEMMA ParseIsBare ==
    ASSUME NEW t, ParseAddress(t) # None
    PROVE  ParseAddress(t) \in Bare
BY DEF ParseAddress, Bare

LEMMA BareAddress ==
    ASSUME NEW k \in Bare
    PROVE  /\ k \in Text /\ k # None
           /\ TrimSpace(k) = k /\ Clean(k) = k /\ ParseAddress(k) = k
<1>1. PICK a \in Addresses : k = <<a>>
  BY DEF Bare
<1>2. a \in Pieces /\ a \notin {"blank", "tag", "quote"}
  BY AddressesAssumption DEF Pieces, Marks
<1>3. k \in Text /\ Len(k) = 1 /\ k[1] = a /\ k # <<>> /\ Head(k) = a
  BY <1>1, <1>2 DEF Text
<1> HIDE <1>1
<1>4. k # None
  BY <1>1, NoneAssumption
<1>5. TrimSpace(k) = k
  <2>1. Trimmed(k)
    BY <1>2, <1>3 DEF Trimmed
  <2> QED BY <1>3, <2>1, TrimSpaceOfTrimmed
<1>6. Clean(k) = k
  <2>1. Harmless(k)
    BY <1>2, <1>3 DEF Harmless
  <2> QED BY <1>3, <1>5, <2>1, SanitizeOfHarmless DEF Clean
<1>7. ParseAddress(k) = k
  <2>1. \A i \in 2..Len(k) : FALSE
    BY <1>3
  <2>2. ParseAddress(k) = <<Head(k)>>
    BY <1>3, <1>5, <2>1 DEF ParseAddress
  <2> QED BY <1>1, <1>3, <2>2
<1> QED BY <1>3, <1>4, <1>5, <1>6, <1>7

----------------------------------------------------------------------------
\* The validate methods

\* The forms with any texts in them
Filled ==
    [route: {"Signin"}, email: Text, password: Text]
    \cup [route: {"Signup"}, email: Text, name: Text, password: Text, confirm: Text]
    \cup [route: {"ResendSignupToken", "ResetPassword"}, email: Text]
    \cup [route: {"ChangePassword"}, password: Text, confirm: Text]
    \cup [route: {"ChangePasswordWithToken"}, token: Tokens, password: Text, confirm: Text]

WithEmail == {"Signin", "Signup", "ResendSignupToken", "ResetPassword"}
WithPassword == {"Signin", "Signup", "ChangePassword", "ChangePasswordWithToken"}
ThatWrite == {"Signup", "ChangePassword", "ChangePasswordWithToken"}

NoAddress(t) == ParseAddress(Clean(t)) = None
TrimmedPassword(f) == f.password = TrimSpace(f.password)

\* What a validate method leaves behind: it stopped at a text at which it will stop
\* again, or it has cleaned all of them.
Settled(f) ==
    /\ f.route = "Signin" => NoAddress(f.email) \/ TrimmedPassword(f)
    /\ f.route \in {"ResendSignupToken", "ResetPassword"} =>
          NoAddress(f.email) \/ f.email \in Bare
    /\ f.route = "Signup" =>
          \/ Clean(f.name) = <<>>
          \/ NoAddress(f.email)
          \/ f.email \in Bare /\ TrimmedPassword(f)
    /\ f.route \in {"ChangePassword", "ChangePasswordWithToken"} => TrimmedPassword(f)

LEMMA FilledForms == Forms \subseteq Filled
BY TextsAssumption DEF Forms, Filled, Text

LEMMA FormRoutes ==
    ASSUME NEW f \in Filled
    PROVE  /\ f.route \in WithEmail \cup WithPassword
           /\ "email" \in DOMAIN f <=> f.route \in WithEmail
           /\ "password" \in DOMAIN f <=> f.route \in WithPassword
           /\ f.route \in WithEmail => f.email \in Text
           /\ f.route \in WithPassword => f.password \in Text
BY DEF Filled, WithEmail, WithPassword

LEMMA SigninValidated ==
    ASSUME NEW f \in Filled, f.route = "Signin"
    PROVE  LET v == ValidateSignin(f)
           IN  /\ v.form \in Filled /\ v.form.route = f.route
               /\ Settled(v.form)
               /\ v.ok => /\ v.form.email = Clean(f.email)
                          /\ v.form.password = TrimSpace(f.password)
               /\ v.ok <=> ~ NoAddress(f.email) /\ TrimSpace(f.password) # <<>>
<1> DEFINE c == Clean(f.email)
           p == TrimSpace(f.password)
           g == [f EXCEPT !.email = c]
           h == [f EXCEPT !.email = c, !.password = p]
<1>1. f \in [route: {"Signin"}, email: Text, password: Text]
  BY DEF Filled
<1>2. c \in Text /\ p \in Text /\ TrimSpace(p) = p
  BY <1>1, CleanIsHarmless, TrimSpaceTrims, TrimSpaceTwice
<1>3. ParseAddress(Clean(c)) = ParseAddress(c)
  BY <1>1, ParseCleaned
<1> HIDE DEF c, p
<1>4. /\ g \in Filled /\ g.route = "Signin" /\ g.email = c
      /\ h \in Filled /\ h.route = "Signin" /\ h.email = c /\ h.password = p
      /\ h = [g EXCEPT !.password = p]
  BY <1>1, <1>2 DEF Filled
<1>5. ValidateSignin(f) = IF ParseAddress(c) = None THEN Reject(g)
                          ELSE IF p = <<>> THEN Reject(h) ELSE Accept(h)
  <2>1. [f EXCEPT !.email = Clean(f.email)] = g /\ TrimSpace(f.password) = p
    BY DEF c, p
  <2> HIDE DEF g, h
  <2> QED BY <1>4, <2>1 DEF ValidateSignin
<1> HIDE DEF g, h
<1>6. ParseAddress(c) = None => Settled(g)
  BY <1>3, <1>4 DEF Settled, NoAddress
<1>7. Settled(h)
  BY <1>2, <1>4 DEF Settled, TrimmedPassword
<1> QED BY <1>1, <1>4, <1>5, <1>6, <1>7 DEF Accept, Reject, NoAddress, c, p

LEMMA EmailValidated ==
    ASSUME NEW f \in Filled, f.route \in {"Signup", "ResendSignupToken", "ResetPassword"}
    PROVE  LET v == ValidateEmail(f)
           IN  /\ v.form \in Filled
               /\ v.form = [f EXCEPT !.email = v.form.email]
               /\ v.ok \in BOOLEAN
               /\ v.ok <=> ~ NoAddress(f.email)
               /\ v.ok => v.form.email = ParseAddress(Clean(f.email)) /\ v.form.email \in Bare
               /\ ~ v.ok => NoAddress(v.form.email)
<1> DEFINE c == Clean(f.email)
           a == ParseAddress(c)
           g == [f EXCEPT !.email = c]
           h == [f EXCEPT !.email = a]
<1>1. f.email \in Text
  BY DEF Filled
<1>2. c \in Text /\ ParseAddress(Clean(c)) = a
  BY <1>1, CleanIsHarmless, ParseCleaned
<1>3. a # None => a \in Bare /\ a \in Text
  BY ParseIsBare, BareAddress
<1> HIDE DEF a
<1>4. a = ParseAddress(c)
  BY DEF a
<1> HIDE DEF c
<1>5. g \in Filled /\ g.email = c /\ g = [f EXCEPT !.email = g.email]
  BY <1>2 DEF Filled
<1>6. /\ a # None => h \in Filled
      /\ h.email = a /\ h = [f EXCEPT !.email = h.email] /\ h = [g EXCEPT !.email = a]
  BY <1>3 DEF Filled
<1>7. ValidateEmail(f) = IF a = None THEN Reject(g) ELSE Accept(h)
  <2>1. ValidateEmail(f) = IF ParseAddress(g.email) = None THEN Reject(g)
                           ELSE Accept([g EXCEPT !.email = ParseAddress(g.email)])
    BY DEF ValidateEmail, c
  <2> HIDE DEF g, h
  <2>2. ParseAddress(g.email) = a
    BY <1>4, <1>5
  <2> QED BY <1>6, <2>1, <2>2
<1>8. (a = None) <=> NoAddress(f.email)
  BY <1>4 DEF NoAddress, c
<1>9. a = None => NoAddress(c)
  BY <1>2 DEF NoAddress
<1> HIDE DEF g, h
<1> QED BY <1>3, <1>4, <1>5, <1>6, <1>7, <1>8, <1>9 DEF Accept, Reject, c

LEMMA PasswordValidated ==
    ASSUME NEW f \in Filled, f.route \in ThatWrite
    PROVE  LET v == ValidatePassword(f)
               p == TrimSpace(f.password)
               q == TrimSpace(f.confirm)
           IN  /\ v.form \in Filled
               /\ v.form = [f EXCEPT !.password = p, !.confirm = q]
               /\ v.form.route = f.route
               /\ v.form.password = p /\ TrimmedPassword(v.form)
               /\ v.ok <=> p # <<>> /\ p = q
<1> DEFINE p == TrimSpace(f.password)
           q == TrimSpace(f.confirm)
           g == [f EXCEPT !.password = p, !.confirm = q]
<1>1. f.password \in Text /\ f.confirm \in Text
  BY DEF Filled, ThatWrite
<1>2. p \in Text /\ q \in Text /\ TrimSpace(p) = p
  BY <1>1, TrimSpaceTrims, TrimSpaceTwice
<1> HIDE DEF p, q
<1>3. g \in Filled /\ g.route = f.route /\ g.password = p /\ g.confirm = q
  BY <1>2 DEF Filled, ThatWrite
<1>4. ValidatePassword(f) = IF p = <<>> \/ p # q THEN Reject(g) ELSE Accept(g)
  <2>1. [f EXCEPT !.password = TrimSpace(f.password), !.confirm = TrimSpace(f.confirm)] = g
    BY DEF p, q
  <2> HIDE DEF g
  <2> QED BY <1>3, <2>1 DEF ValidatePassword
<1>5. TrimmedPassword(g)
  BY <1>2, <1>3 DEF TrimmedPassword
<1>6. g = [f EXCEPT !.password = p, !.confirm = q]
  OBVIOUS
<1> HIDE DEF g
<1>7. ValidatePassword(f).form = g /\ (ValidatePassword(f).ok <=> p # <<>> /\ p = q)
  BY <1>4 DEF Accept, Reject
<1> QED BY <1>3, <1>5, <1>6, <1>7 DEF p, q

LEMMA SignupValidated ==
    ASSUME NEW f \in Filled, f.route = "Signup"
    PROVE  LET v == ValidateSignup(f)
           IN  /\ v.form \in Filled /\ v.form.route = f.route
               /\ Settled(v.form)
               /\ v.ok => /\ Clean(f.name) # <<>> /\ ~ NoAddress(f.email)
                          /\ v.form.email = ParseAddress(Clean(f.email)) /\ v.form.email \in Bare
                          /\ v.form.password = TrimSpace(f.password)
                          /\ v.form.password # <<>>
<1> DEFINE n == Clean(f.name)
           g == [f EXCEPT !.name = n]
           h == ValidateEmail(g)
           w == ValidatePassword(h.form)
<1>1. f \in [route: {"Signup"}, email: Text, name: Text, password: Text, confirm: Text]
  BY DEF Filled
<1>2. n \in Text
  BY <1>1, CleanIsHarmless
<1>3. n = <<>> => Clean(n) = <<>>
  <2>1. Clean(<<>>) = <<>>
    <3>1. <<>> \in Text /\ Harmless(<<>>) /\ Trimmed(<<>>)
      BY DEF Text, Harmless, Trimmed
    <3> QED BY <3>1, TrimSpaceOfTrimmed, SanitizeOfHarmless DEF Clean
  <2> QED BY <2>1
<1> HIDE DEF n
<1>4. /\ g \in Filled /\ g.route = "Signup" /\ g.name = n
      /\ g.email = f.email /\ g.password = f.password
  BY <1>1, <1>2 DEF Filled
<1> HIDE DEF g
<1>5. /\ h.form \in Filled /\ h.form = [g EXCEPT !.email = h.form.email]
      /\ h.ok <=> ~ NoAddress(g.email)
      /\ h.ok => h.form.email = ParseAddress(Clean(g.email)) /\ h.form.email \in Bare
      /\ ~ h.ok => NoAddress(h.form.email)
  BY <1>4, EmailValidated
<1> HIDE DEF h
<1>6. g \in [route: {"Signup"}, email: Text, name: Text, password: Text, confirm: Text]
  BY <1>4 DEF Filled
<1>7. h.form.route = "Signup" /\ h.form.password = f.password
  BY <1>4, <1>5, <1>6
<1>8. /\ w.form \in Filled /\ w.form.route = "Signup"
      /\ w.form = [h.form EXCEPT !.password = TrimSpace(h.form.password),
                                 !.confirm = TrimSpace(h.form.confirm)]
      /\ w.form.password = TrimSpace(f.password) /\ TrimmedPassword(w.form)
      /\ w.ok => TrimSpace(f.password) # <<>>
  BY <1>5, <1>7, PasswordValidated DEF ThatWrite
<1> HIDE DEF w
<1>9. w.form.email = h.form.email
  BY <1>5, <1>7, <1>8 DEF Filled
<1>10. ValidateSignup(f) = IF n = <<>> THEN Reject(g) ELSE IF ~ h.ok THEN h ELSE w
  BY <1>4 DEF ValidateSignup, n, g, h, w
<1>11. CASE n = <<>>
  <2>1. Settled(g)
    BY <1>3, <1>4, <1>11 DEF Settled
  <2> QED BY <1>4, <1>10, <1>11, <2>1 DEF Reject
<1>12. CASE n # <<>> /\ ~ h.ok
  <2>1. Settled(h.form)
    BY <1>5, <1>7, <1>12 DEF Settled
  <2> QED BY <1>5, <1>7, <1>10, <1>12, <2>1
<1>13. CASE n # <<>> /\ h.ok
  <2>1. Settled(w.form)
    BY <1>5, <1>8, <1>9, <1>13 DEF Settled
  <2> QED BY <1>4, <1>5, <1>8, <1>9, <1>10, <1>13, <2>1 DEF n
<1> QED BY <1>11, <1>12, <1>13

LEMMA Validated ==
    ASSUME NEW f \in Filled
    PROVE  LET v == Validate(f)
           IN  /\ v.form \in Filled /\ v.form.route = f.route
               /\ Settled(v.form)
               /\ v.ok /\ f.route \in WithEmail => ~ NoAddress(f.email)
               /\ v.ok /\ f.route \in WithEmail \ {"Signin"} =>
                     v.form.email = ParseAddress(Clean(f.email)) /\ v.form.email \in Bare
               /\ v.ok /\ f.route \in WithPassword =>
                     v.form.password = TrimSpace(f.password) /\ v.form.password # <<>>
               /\ v.ok /\ f.route = "Signup" => Clean(f.name) # <<>>
<1>1. CASE f.route = "Signin"
  <2>1. Validate(f) = ValidateSignin(f)
    BY <1>1 DEF Validate
  <2> QED BY <1>1, <2>1, SigninValidated
<1>2. CASE f.route = "Signup"
  <2>1. Validate(f) = ValidateSignup(f)
    BY <1>2 DEF Validate
  <2> QED BY <1>2, <2>1, SignupValidated
<1>3. CASE f.route \in {"ResendSignupToken", "ResetPassword"}
  <2> DEFINE v == ValidateEmail(f)
  <2>1. Validate(f) = v
    BY <1>3 DEF Validate
  <2>2. /\ v.form \in Filled /\ v.form = [f EXCEPT !.email = v.form.email]
        /\ v.ok <=> ~ NoAddress(f.email)
        /\ v.ok => v.form.email = ParseAddress(Clean(f.email)) /\ v.form.email \in Bare
        /\ ~ v.ok => NoAddress(v.form.email)
    BY <1>3, EmailValidated
  <2> HIDE DEF v
  <2>3. f \in [route: {"ResendSignupToken", "ResetPassword"}, email: Text]
    BY <1>3 DEF Filled
  <2>4. v.form.route = f.route
    BY <2>2, <2>3
  <2>5. Settled(v.form)
    BY <1>3, <2>2, <2>4 DEF Settled
  <2> QED BY <1>3, <2>1, <2>2, <2>4, <2>5 DEF WithPassword
<1>4. CASE f.route \in {"ChangePassword", "ChangePasswordWithToken"}
  <2> DEFINE v == ValidatePassword(f)
  <2>1. Validate(f) = v
    BY <1>4 DEF Validate
  <2>2. /\ v.form \in Filled /\ v.form.route = f.route
        /\ v.form.password = TrimSpace(f.password) /\ TrimmedPassword(v.form)
        /\ v.ok => TrimSpace(f.password) # <<>>
    BY <1>4, PasswordValidated DEF ThatWrite
  <2> HIDE DEF v
  <2>3. Settled(v.form)
    BY <1>4, <2>2 DEF Settled
  <2> QED BY <1>4, <2>1, <2>2, <2>3 DEF WithEmail
<1> QED BY <1>1, <1>2, <1>3, <1>4, FormRoutes DEF WithEmail, WithPassword

LEMMA SettledIsAskedAgain ==
    ASSUME NEW f \in Filled, Settled(f), Validate(f).ok
    PROVE  /\ f.route \in WithEmail \ {"Signin"} => Validate(f).form.email = f.email
           /\ f.route \in WithPassword => Validate(f).form.password = f.password
<1>1. ASSUME f.route \in WithEmail \ {"Signin"}
      PROVE  f.email \in Bare
  BY <1>1, Validated DEF Settled, WithEmail
<1>2. ASSUME f.route \in WithPassword
      PROVE  TrimmedPassword(f)
  BY <1>2, Validated DEF Settled, WithPassword, WithEmail
<1> QED BY <1>1, <1>2, Validated, BareAddress DEF TrimmedPassword

----------------------------------------------------------------------------
\* The invariant

Rows == [email: Keys, name: Text, password: Text, verified: BOOLEAN]

\* The account of an address, with the password that was typed for it
Entered(k) ==
    /\ k \in Bare
    /\ users[k] \in Rows
    /\ users[k].password = TrimSpace(typed[k])
    /\ users[k].password # <<>>

AccountsInv ==
    /\ users \in [Keys -> Rows \cup {NoRow}]
    /\ typed \in [Keys -> Text]
    /\ \A k \in Keys : users[k] # NoRow => Entered(k)
    /\ \A l \in links : Entered(l.email)

PageInv == page # None => page \in Filled /\ Settled(page)

FormsInv == AccountsInv /\ PageInv

LEMMA BareKeys == Bare \subseteq Keys
BY DEF Bare, Keys

\* Setting the password of an account that is there
LEMMA PasswordIsSet ==
    ASSUME AccountsInv, NEW k \in Bare, Entered(k), NEW w \in Text, TrimSpace(w) # <<>>,
           users' = [users EXCEPT ![k].password = TrimSpace(w)],
           typed' = [typed EXCEPT ![k] = w],
           links' \subseteq links
    PROVE  AccountsInv'
<1>1. k \in Keys /\ users[k] \in Rows
  BY BareKeys DEF Entered
<1>2. TrimSpace(w) \in Text
  BY TrimSpaceTrims
<1>3. /\ users' \in [Keys -> Rows \cup {NoRow}] /\ typed' \in [Keys -> Text]
      /\ users'[k] \in Rows /\ users'[k].password = TrimSpace(w) /\ typed'[k] = w
      /\ \A l \in Keys \ {k} : users'[l] = users[l] /\ typed'[l] = typed[l]
  BY <1>1, <1>2 DEF AccountsInv, Rows
<1>4. Entered(k)'
  BY <1>3 DEF Entered
<1>5. ASSUME NEW l \in Keys \ {k}, Entered(l)
      PROVE  Entered(l)'
  BY <1>3, <1>5 DEF Entered
<1>6. ASSUME NEW l \in Keys, users'[l] # NoRow
      PROVE  Entered(l)'
  BY <1>3, <1>4, <1>5, <1>6 DEF AccountsInv
<1>7. ASSUME NEW l \in links'
      PROVE  Entered(l.email)'
  <2>1. Entered(l.email) /\ l.email \in Keys
    BY BareKeys DEF AccountsInv, Entered
  <2> QED BY <1>4, <1>5, <2>1
<1> QED BY <1>3, <1>6, <1>7 DEF AccountsInv

\* A step that leaves the passwords, and mails a link to an account that is there
LEMMA LinkIsIssued ==
    ASSUME AccountsInv, NEW k \in Bare, Entered(k), NEW t, NEW type,
           Service!Issue(t, k, type), UNCHANGED <<users, typed>>
    PROVE  AccountsInv'
<1>1. \A l : Entered(l)' <=> Entered(l)
  BY DEF Entered
<1>2. ASSUME NEW l \in links'
      PROVE  Entered(l.email)'
  BY <1>1 DEF Service!Issue, AccountsInv
<1> QED BY <1>1, <1>2 DEF AccountsInv

LEMMA AccountIsRegistered ==
    ASSUME AccountsInv, NEW k \in Bare, NEW n \in Text, NEW w \in Text, NEW t,
           TrimSpace(w) # <<>>,
           Service!Register(k, n, TrimSpace(w), t),
           typed' = [typed EXCEPT ![k] = w]
    PROVE  AccountsInv'
<1>1. k \in Keys /\ TrimSpace(w) \in Text
  BY BareKeys, TrimSpaceTrims
<1>2. users' = [users EXCEPT ![k] = [email |-> k, name |-> n, password |-> TrimSpace(w),
                                     verified |-> FALSE]]
  BY DEF Service!Register
<1>3. /\ users' \in [Keys -> Rows \cup {NoRow}] /\ typed' \in [Keys -> Text]
      /\ users'[k] \in Rows /\ users'[k].password = TrimSpace(w) /\ typed'[k] = w
      /\ \A l \in Keys \ {k} : users'[l] = users[l] /\ typed'[l] = typed[l]
  BY <1>1, <1>2 DEF AccountsInv, Rows
<1>4. Entered(k)'
  BY <1>3 DEF Entered
<1>5. ASSUME NEW l \in Keys \ {k}, Entered(l)
      PROVE  Entered(l)'
  BY <1>3, <1>5 DEF Entered
<1>6. ASSUME NEW l \in Keys, users'[l] # NoRow
      PROVE  Entered(l)'
  BY <1>3, <1>4, <1>5, <1>6 DEF AccountsInv
<1>7. ASSUME NEW l \in links'
      PROVE  Entered(l.email)'
  <2>1. l \in links \/ l.email = k
    BY DEF Service!Register, Service!Issue
  <2>2. l \in links => Entered(l.email) /\ l.email \in Keys
    BY BareKeys DEF AccountsInv, Entered
  <2> QED BY <1>4, <1>5, <2>1, <2>2
<1> QED BY <1>3, <1>6, <1>7 DEF AccountsInv

LEMMA AccountIsConfirmed ==
    ASSUME AccountsInv, NEW l \in links, Service!Confirm(l), UNCHANGED typed
    PROVE  AccountsInv'
<1> DEFINE k == l.email
<1>1. Entered(k) /\ k \in Keys /\ users[k] \in Rows
  BY BareKeys DEF AccountsInv, Entered
<1>2. users' = [users EXCEPT ![k].verified = TRUE] /\ links' \subseteq links
  BY DEF Service!Confirm, Service!Redeem
<1> HIDE DEF k
<1>3. /\ users' \in [Keys -> Rows \cup {NoRow}]
      /\ users'[k] \in Rows /\ users'[k].password = users[k].password
      /\ \A m \in Keys \ {k} : users'[m] = users[m]
  BY <1>1, <1>2 DEF AccountsInv, Rows
<1>4. ASSUME NEW m \in Keys, Entered(m)
      PROVE  Entered(m)'
  BY <1>1, <1>3, <1>4 DEF Entered
<1>5. ASSUME NEW m \in Keys, users'[m] # NoRow
      PROVE  Entered(m)'
  BY <1>1, <1>3, <1>4, <1>5 DEF AccountsInv
<1>6. ASSUME NEW m \in links'
      PROVE  Entered(m.email)'
  BY <1>2, <1>4, BareKeys DEF AccountsInv, Entered
<1> QED BY <1>3, <1>5, <1>6 DEF AccountsInv

\* After a form that was accepted no form is shown.
LEMMA PageIsGone ==
    ASSUME page' = None
    PROVE  PageInv'
BY DEF PageInv

LEMMA FormStep ==
    ASSUME FormsInv, NEW f \in Filled,
           \/ Refuse(f) \/ AlreadyVerified(f)
           \/ Signin(f) \/ Signup(f) \/ ResendSignupToken(f) \/ ResetPassword(f)
           \/ ChangePassword(f) \/ ChangePasswordWithToken(f)
    PROVE  FormsInv'
<1> DEFINE v == Validate(f)
<1>1. /\ v.form \in Filled /\ v.form.route = f.route
      /\ Settled(v.form)
      /\ v.ok /\ f.route \in WithEmail \ {"Signin"} => v.form.email \in Bare
      /\ v.ok /\ f.route \in WithPassword =>
            v.form.password = TrimSpace(f.password) /\ v.form.password # <<>>
  BY Validated
<1>2. AccountsInv /\ PageInv
  BY DEF FormsInv
<1>3. ASSUME UNCHANGED <<accounts, typed>>
      PROVE  AccountsInv'
  BY <1>2, <1>3 DEF AccountsInv, Entered, accounts
<1>4. CASE Refuse(f)
  BY <1>1, <1>3, <1>4 DEF Refuse, FormsInv, PageInv
<1>5. CASE AlreadyVerified(f)
  <2>1. v.form.email \in Bare /\ page' = [route |-> "Signin", email |-> v.form.email, password |-> <<>>]
    BY <1>1, <1>5 DEF AlreadyVerified, WithEmail
  <2>2. v.form.email \in Text /\ <<>> \in Text
    BY <2>1, BareAddress DEF Text
  <2>3. TrimSpace(<<>>) = <<>>
    BY <2>2, TrimSpaceOfTrimmed DEF Trimmed
  <2> HIDE DEF v
  <2>4. page' \in Filled /\ Settled(page')
    BY <2>1, <2>2, <2>3 DEF Filled, Settled, TrimmedPassword
  <2> QED BY <1>3, <1>5, <2>4 DEF AlreadyVerified, FormsInv, PageInv, v
<1>6. CASE Signin(f)
  BY <1>3, <1>6, PageIsGone DEF Signin, Accepted, FormsInv
<1>7. CASE Signup(f)
  <2>1. v.form.email \in Bare /\ v.form.password = TrimSpace(f.password) /\ TrimSpace(f.password) # <<>>
    BY <1>1, <1>7 DEF Signup, Accepted, WithEmail, WithPassword
  <2>2. f.password \in Text /\ v.form.name \in Text
    BY <1>1, <1>7 DEF Signup, Accepted, Filled
  <2>3. PICK t \in Tokens : Service!Register(v.form.email, v.form.name, v.form.password, t)
    BY <1>7 DEF Signup
  <2>4. typed' = [typed EXCEPT ![v.form.email] = f.password] /\ page' = None
    BY <1>7 DEF Signup, Accepted
  <2> HIDE DEF v
  <2>5. AccountsInv'
    BY <1>2, <2>1, <2>2, <2>3, <2>4, AccountIsRegistered
  <2> QED BY <2>4, <2>5, PageIsGone DEF FormsInv
<1>8. CASE ResendSignupToken(f) \/ ResetPassword(f)
  <2>1. v.form.email \in Bare /\ UNCHANGED typed /\ page' = None
    BY <1>1, <1>8 DEF ResendSignupToken, ResetPassword, Accepted, WithEmail
  <2>2. PICK t \in Tokens :
            Service!Reissue(v.form.email, t) \/ Service!RequestReset(v.form.email, t)
    BY <1>8 DEF ResendSignupToken, ResetPassword
  <2> HIDE DEF v
  <2>3. users[v.form.email] # NoRow /\ UNCHANGED users
    BY <2>2 DEF Service!Reissue, Service!RequestReset
  <2>4. Entered(v.form.email)
    BY <1>2, <2>1, <2>3, BareKeys DEF AccountsInv
  <2>5. Service!Issue(t, v.form.email, "SIGNUP") \/ Service!Issue(t, v.form.email, "PASSWORD")
    BY <2>2 DEF Service!Reissue, Service!RequestReset
  <2>6. AccountsInv'
    BY <1>2, <2>1, <2>3, <2>4, <2>5, LinkIsIssued
  <2> QED BY <2>1, <2>6, PageIsGone DEF FormsInv
<1>9. CASE ChangePassword(f)
  <2>1. /\ v.form.password = TrimSpace(f.password) /\ TrimSpace(f.password) # <<>>
        /\ f.password \in Text /\ page' = None
    BY <1>1, <1>9, FormRoutes DEF ChangePassword, Accepted, WithPassword
  <2>2. PICK k \in Keys :
            /\ users[k] # NoRow /\ Service!ChangePassword(k, v.form.password)
            /\ typed' = [typed EXCEPT ![k] = f.password]
    BY <1>9 DEF ChangePassword
  <2> HIDE DEF v
  <2>3. Entered(k) /\ k \in Bare
    BY <1>2, <2>2 DEF AccountsInv, Entered
  <2>4. users' = [users EXCEPT ![k].password = TrimSpace(f.password)] /\ links' \subseteq links
    BY <2>1, <2>2 DEF Service!ChangePassword
  <2>5. AccountsInv'
    BY <1>2, <2>1, <2>2, <2>3, <2>4, PasswordIsSet
  <2> QED BY <2>1, <2>5, PageIsGone DEF FormsInv
<1>10. CASE ChangePasswordWithToken(f)
  <2>1. /\ v.form.password = TrimSpace(f.password) /\ TrimSpace(f.password) # <<>>
        /\ f.password \in Text /\ page' = None
    BY <1>1, <1>10, FormRoutes DEF ChangePasswordWithToken, Accepted, WithPassword
  <2>2. PICK l \in links :
            /\ Service!ResetWithLink(l, v.form.password)
            /\ typed' = [typed EXCEPT ![l.email] = f.password]
    BY <1>10 DEF ChangePasswordWithToken
  <2> HIDE DEF v
  <2>3. Entered(l.email) /\ l.email \in Bare
    BY <1>2, <2>2 DEF AccountsInv, Entered
  <2>4. /\ users' = [users EXCEPT ![l.email].password = TrimSpace(f.password)]
        /\ links' \subseteq links
    BY <2>1, <2>2 DEF Service!ResetWithLink, Service!Redeem
  <2>5. AccountsInv'
    BY <1>2, <2>1, <2>2, <2>3, <2>4, PasswordIsSet
  <2> QED BY <2>1, <2>5, PageIsGone DEF FormsInv
<1> QED BY <1>4, <1>5, <1>6, <1>7, <1>8, <1>9, <1>10

LEMMA FormsInvInit == Init => FormsInv
<1> SUFFICES ASSUME Init PROVE FormsInv
  OBVIOUS
<1>1. <<>> \in Text
  BY DEF Text
<1> QED BY <1>1 DEF Init, Service!Init, FormsInv, AccountsInv, PageInv

LEMMA FormsInvStep == FormsInv /\ [Next]_vars => FormsInv'
<1> SUFFICES ASSUME FormsInv, [Next]_vars PROVE FormsInv'
  OBVIOUS
<1>1. ASSUME NEW f \in Forms \cup ({page} \ {None}),
             \/ Refuse(f) \/ AlreadyVerified(f)
             \/ Signin(f) \/ Signup(f) \/ ResendSignupToken(f) \/ ResetPassword(f)
             \/ ChangePassword(f) \/ ChangePasswordWithToken(f)
      PROVE  FormsInv'
  <2>1. f \in Filled
    BY FilledForms DEF FormsInv, PageInv
  <2> QED BY <1>1, <2>1, FormStep
<1>2. CASE SignupToken
  <2>1. AccountsInv'
    BY <1>2, AccountIsConfirmed DEF SignupToken, FormsInv
  <2> QED BY <1>2, <2>1 DEF SignupToken, FormsInv, PageInv
<1>3. CASE UNCHANGED vars
  BY <1>3 DEF vars, accounts, FormsInv, AccountsInv, PageInv, Entered
<1> QED BY <1>1, <1>2, <1>3 DEF Next

LEMMA FormsInvariant == Spec => []FormsInv
BY FormsInvInit, FormsInvStep, PTL DEF Spec

----------------------------------------------------------------------------
\* Whatever blanks, tags and comments it is typed with, an address has one account:
\* signup, resend and reset all name the account by what net/mail made of the text,
\* for any number of addresses, spellings in other letter cases among them
\* (auth.go:90-96, 170-176, 219-225).
THEOREM SpellingsNameOneAccount == Spec => []OneAccountPerSpelling
<1>1. FormsInv => OneAccountPerSpelling
  BY BareAddress DEF FormsInv, AccountsInv, Entered, OneAccountPerSpelling
<1> QED BY <1>1, FormsInvariant, PTL

\* The password that opened an account yesterday, typed with the same blanks,
\* opens it today, whichever of the forms set it.
THEOREM PasswordsOpenAsTyped == Spec => []TypedPasswordOpens
<1>1. ASSUME FormsInv, NEW k \in Keys, users[k] # NoRow
      PROVE  LET v == Validate([route |-> "Signin", email |-> ParseAddress(k),
                                password |-> typed[k]])
             IN  v.ok /\ v.form.email = k /\ v.form.password = users[k].password
  <2> DEFINE f == [route |-> "Signin", email |-> ParseAddress(k), password |-> typed[k]]
  <2>1. /\ k \in Bare /\ typed[k] \in Text
        /\ users[k].password = TrimSpace(typed[k]) /\ TrimSpace(typed[k]) # <<>>
    BY <1>1 DEF FormsInv, AccountsInv, Entered
  <2>2. k \in Text /\ k # None /\ Clean(k) = k /\ ParseAddress(k) = k
    BY <2>1, BareAddress
  <2>3. f \in Filled /\ f.route = "Signin" /\ f.email = k /\ f.password = typed[k]
    BY <2>1, <2>2 DEF Filled
  <2> HIDE DEF f
  <2>4. Validate(f) = ValidateSignin(f)
    BY <2>3 DEF Validate
  <2>5. ~ NoAddress(f.email)
    BY <2>2, <2>3 DEF NoAddress
  <2> QED BY <2>1, <2>2, <2>3, <2>4, <2>5, SigninValidated DEF f
<1>2. FormsInv => TypedPasswordOpens
  BY <1>1 DEF TypedPasswordOpens
<1> QED BY <1>2, FormsInvariant, PTL

\* A form that came back and is sent again as it is asks for the same: what the
\* validate methods leave behind either fails again or is not changed again.
THEOREM ShownFormsAreStable == Spec => []ShownFormsAskTheSame
<1>1. ASSUME FormsInv, page # None, Validate(page).ok
      PROVE  /\ "email" \in DOMAIN page /\ page.route # "Signin" =>
                   Validate(page).form.email = page.email
             /\ "password" \in DOMAIN page => Validate(page).form.password = page.password
  <2>1. page \in Filled /\ Settled(page)
    BY <1>1 DEF FormsInv, PageInv
  <2>2. /\ "email" \in DOMAIN page /\ page.route # "Signin" =>
              page.route \in WithEmail \ {"Signin"}
        /\ "password" \in DOMAIN page => page.route \in WithPassword
    BY <2>1, FormRoutes
  <2> QED BY <1>1, <2>1, <2>2, SettledIsAskedAgain
<1>2. FormsInv => ShownFormsAskTheSame
  BY <1>1 DEF ShownFormsAskTheSame
<1> QED BY <1>2, FormsInvariant, PTL

=============================================================================
