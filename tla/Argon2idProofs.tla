--------------------------- MODULE Argon2idProofs ---------------------------
(***************************************************************************)
(* Proofs about Argon2id, for any passwords, salts, settings and numbers   *)
(* of processors.                                                          *)
(***************************************************************************)
EXTENDS Argon2id, TLAPS

\* The comment at argon2id.go:54, for every number of processors.
LEMMA ThreadsBounded ==
    ASSUME NEW n \in Nat \ {0}
    PROVE  /\ DefaultThreads(n) \in 1..4
           /\ n >= 2 => 2 * DefaultThreads(n) <= n
<1> DEFINE half == (n \div 2) % 256
<1>1. n \div 2 \in Nat /\ 2 * (n \div 2) <= n /\ (n >= 2 => n \div 2 >= 1)
  OBVIOUS
<1>2. half \in 0..255 /\ half <= n \div 2
  BY <1>1
<1> HIDE DEF half
<1>3. DefaultThreads(n) = IF (IF half < 1 THEN 1 ELSE half) < 4
                          THEN IF half < 1 THEN 1 ELSE half ELSE 4
  BY DEF DefaultThreads, half
<1>. QED
  BY <1>1, <1>2, <1>3

----------------------------------------------------------------------------

LEMMA StartsAreSettings ==
    ASSUME NEW n \in CPUs
    PROVE  Starts(n) \subseteq Settings
<1>1. NewWithDefault(n) \in Settings
  BY ThreadsBounded, CPUsAssumption DEF NewWithDefault, Settings
<1>. QED
  BY <1>1, ConfigsAssumption DEF Starts

\* What the row was made of.
RowInv ==
    /\ cpus \in CPUs
    /\ argon \in Settings
    /\ made # NotMade =>
        /\ made \in [password: Passwords, settings: Settings]
        /\ ~ Panics(made.settings)
        /\ row.salt \in RandomSecrets(made.settings.saltLen)
        /\ row.hash = IDKey(made.password, row.salt, made.settings)

LEMMA RowInvariant == Spec => []RowInv
<1>1. Init => RowInv
  BY StartsAreSettings DEF Init, RowInv
<1>2. RowInv /\ [Next]_vars => RowInv'
  <2> SUFFICES ASSUME RowInv, [Next]_vars PROVE RowInv'
    OBVIOUS
  <2>1. CASE Start
    BY <2>1, StartsAreSettings DEF Start, RowInv
  <2>2. ASSUME NEW p \in Passwords, Store(p) PROVE RowInv'
    <3>1. PICK g \in GenerateHash(argon, p, Empty) :
            /\ Made(g)
            /\ row' = g
            /\ made' = [password |-> p, settings |-> argon]
            /\ UNCHANGED <<cpus, argon>>
      BY <2>2 DEF Store
    <3>2. ~ Made(Failure("ErrInvalidPassword")) /\ ~ Made(Failure("rand"))
          /\ ~ Made(Failure("panic"))
      BY DEF Made, Failure
    <3>3. ~ Panics(argon)
          /\ \E s \in RandomSecrets(argon.saltLen) : g = [hash |-> IDKey(p, s, argon), salt |-> s]
      BY <3>1, <3>2 DEF GenerateHash
    <3>. QED
      BY <3>1, <3>3 DEF RowInv
  <2>3. CASE UNCHANGED vars
    BY <2>3 DEF vars, RowInv
  <2>. QED
    BY <2>1, <2>2, <2>3 DEF Next
<1>. QED
  BY <1>1, <1>2, PTL DEF Spec

\* The default settings hash on every machine (argon2id.go:54-57).
THEOREM DefaultsAlwaysHash == Spec => []DefaultsHash
<1>1. RowInv => DefaultsHash
  <2> SUFFICES ASSUME RowInv, argon = NewWithDefault(cpus)
               PROVE  ~ Panics(argon) /\ argon.threads <= 4
                      /\ (cpus >= 2 => 2 * argon.threads <= cpus)
    BY DEF DefaultsHash
  <2>1. DefaultThreads(cpus) \in 1..4 /\ (cpus >= 2 => 2 * DefaultThreads(cpus) <= cpus)
    BY ThreadsBounded, CPUsAssumption DEF RowInv
  <2>. QED
    BY <2>1 DEF NewWithDefault, Panics
<1>. QED
  BY <1>1, RowInvariant, PTL

----------------------------------------------------------------------------

\* Keys tell passwords, salts and settings apart.
LEMMA KeysDiffer ==
    ASSUME NEW p, NEW q, NEW s, NEW a \in Settings, NEW b \in Settings
    PROVE  IDKey(p, s, a) = IDKey(q, s, b) <=> p = q /\ SameKey(a, b)
BY DEF IDKey, SameKey

\* What Compare decides, for the row of any settings.
LEMMA CompareDecides ==
    ASSUME RowInv, made # NotMade, NEW p \in Passwords \cup {Empty}
    PROVE  "ok" \in Compare(argon, row.hash, row.salt, p) <=>
                /\ p = made.password
                /\ SameKey(argon, made.settings)
                /\ made.settings.saltLen # 0
<1>1. /\ made.password \in Passwords /\ made.settings \in Settings /\ argon \in Settings
      /\ ~ Panics(made.settings)
      /\ row.salt \in RandomSecrets(made.settings.saltLen)
      /\ row.hash = IDKey(made.password, row.salt, made.settings)
  BY DEF RowInv
<1>2. row.salt \in Salts \cup {Empty} /\ (row.salt = Empty <=> made.settings.saltLen = 0)
  BY <1>1, EmptyAssumption DEF RandomSecrets
<1>3. row.hash \in Keys
  BY <1>1, <1>2 DEF IDKey, Keys, Settings
<1>4. row.hash # Empty
  BY <1>3, EmptyAssumption
<1>5. CASE row.salt = Empty \/ p = Empty
  BY <1>1, <1>2, <1>4, <1>5, EmptyAssumption DEF Compare
<1>6. CASE row.salt # Empty /\ p # Empty
  <2>1. Compare(argon, row.hash, row.salt, p) =
            {IF ~ Made(g) THEN g.error
             ELSE IF g.hash = row.hash THEN "ok" ELSE "ErrPasswordNotMatch"
               : g \in GenerateHash(argon, p, row.salt)}
    BY <1>4, <1>6 DEF Compare
  <2>2. CASE Panics(argon)
    <3>1. GenerateHash(argon, p, row.salt) = {Failure("panic")}
      BY <1>6, <2>2 DEF GenerateHash
    <3>2. ~ Made(Failure("panic")) /\ Failure("panic").error = "panic"
      BY DEF Made, Failure
    <3>3. Compare(argon, row.hash, row.salt, p) = {"panic"}
      BY <2>1, <3>1, <3>2
    <3>4. ~ SameKey(argon, made.settings)
      BY <1>1, <2>2 DEF Panics, SameKey
    <3>. QED
      BY <3>3, <3>4
  <2>3. CASE ~ Panics(argon)
    <3> DEFINE h == [hash |-> IDKey(p, row.salt, argon), salt |-> row.salt]
    <3>1. GenerateHash(argon, p, row.salt) = {h}
      BY <1>6, <2>3 DEF GenerateHash
    <3>2. Made(h) /\ h.hash = IDKey(p, row.salt, argon)
      BY DEF Made
    <3> HIDE DEF h
    <3>3. Compare(argon, row.hash, row.salt, p) =
            {IF h.hash = row.hash THEN "ok" ELSE "ErrPasswordNotMatch"}
      BY <2>1, <3>1, <3>2
    <3>4. h.hash = row.hash <=> p = made.password /\ SameKey(argon, made.settings)
      BY <1>1, <3>2, KeysDiffer
    <3>. QED
      BY <1>2, <1>6, <3>3, <3>4
  <2>. QED
    BY <2>2, <2>3
<1>. QED
  BY <1>5, <1>6

\* A stored password, and nothing else, is accepted by every process that makes
\* the same keys (argon2id.go:71-78, 88-107).
THEOREM AcceptsThePassword == Spec => []AcceptsExactlyThePassword
<1>1. RowInv => AcceptsExactlyThePassword
  BY CompareDecides DEF AcceptsExactlyThePassword
<1>. QED
  BY <1>1, RowInvariant, PTL

=============================================================================
