------------------------------ MODULE Argon2id ------------------------------
(***************************************************************************)
(* pkg/argon2id: hashing a password and comparing it later.  The salt is   *)
(* stored with the hash, the other settings are not: a hash is compared    *)
(* under the settings of the process of that day.  argon2.IDKey is ideal:  *)
(* it gives equal keys only for equal arguments.                           *)
(***************************************************************************)
EXTENDS Integers

CONSTANTS
    Passwords,
    Salts,          \* the salts that rand.Read can give
    Empty,          \* nil, or a slice of length 0
    Configs,        \* the settings that the environment can configure
    CPUs            \* the machines it can run on, by runtime.NumCPU()

Settings == [time: Nat, saltLen: Nat, memory: Nat, threads: 0..255, keyLen: Nat]

ASSUME ConfigsAssumption == Configs \subseteq Settings
ASSUME CPUsAssumption == CPUs \subseteq Nat \ {0}

\* What IDKey makes: one key of each password, salt and settings
Keys == [password: Passwords, salt: Salts \cup {Empty}, time: Nat, memory: Nat,
         threads: 0..255, keyLen: Nat]

ASSUME EmptyAssumption == Empty \notin Passwords \cup Salts \cup Keys \cup Settings

FaultyDefaultThreads(cpus) ==
    LET half == (cpus \div 2) % 256
    IN  IF half < 4 THEN half ELSE 4
\* uint8(runtime.NumCPU()/2), not less than 1 and not more than 4
DefaultThreads(cpus) ==
    LET half == (cpus \div 2) % 256
        max  == IF half < 1 THEN 1 ELSE half
    IN  IF max < 4 THEN max ELSE 4

NewWithDefault(cpus) ==
    [time |-> 4, saltLen |-> 32, memory |-> 64 * 1024, threads |-> DefaultThreads(cpus),
     keyLen |-> 256]

\* argon2.IDKey panics without a round or a thread, or for a key of length 0.
Panics(a) == a.time = 0 \/ a.threads = 0 \/ a.keyLen = 0

IDKey(p, salt, a) ==
    [password |-> p, salt |-> salt, time |-> a.time, memory |-> a.memory,
     threads |-> a.threads, keyLen |-> a.keyLen]

\* What randomSecret can return
RandomSecrets(len) == IF len = 0 THEN {Empty} ELSE Salts

Failure(e) == [error |-> e]

\* The possible results of GenerateHash; rand.Read can fail.
GenerateHash(a, p, salt) ==
    IF p = Empty THEN {Failure("ErrInvalidPassword")}
    ELSE LET salts == IF salt = Empty THEN RandomSecrets(a.saltLen) ELSE {salt}
         IN  (IF salt = Empty THEN {Failure("rand")} ELSE {}) \cup
             IF Panics(a) THEN {Failure("panic")}
             ELSE {[hash |-> IDKey(p, s, a), salt |-> s] : s \in salts}

Made(result) == "hash" \in DOMAIN result

FaultyCompare(a, hash, salt, p) ==
    IF hash = Empty THEN {"ErrInvalidHash"}
    ELSE IF p = Empty THEN {"ErrInvalidPassword"}
    ELSE {IF ~ Made(g) THEN g.error
          ELSE IF g.hash = hash THEN "ok" ELSE "ErrPasswordNotMatch"
            : g \in GenerateHash(a, p, Empty)}
\* The possible results of Compare
Compare(a, hash, salt, p) ==
    IF hash = Empty THEN {"ErrInvalidHash"}
    ELSE IF salt = Empty THEN {"ErrInvalidSalt"}
    ELSE IF p = Empty THEN {"ErrInvalidPassword"}
    ELSE {IF ~ Made(g) THEN g.error
          ELSE IF g.hash = hash THEN "ok" ELSE "ErrPasswordNotMatch"
            : g \in GenerateHash(a, p, salt)}

----------------------------------------------------------------------------
\* One account, hashed and compared by processes with different settings

VARIABLES
    cpus,       \* the processors of the machine the process runs on
    argon,      \* the settings of the process
    row,        \* the hash and the salt in the row of the account
    made        \* history: the password and the settings row was made with

vars == <<cpus, argon, row, made>>

\* The settings a process on a machine with n processors can have
Starts(n) == Configs \cup {NewWithDefault(n)}

NoRow == [hash |-> Empty, salt |-> Empty]
NotMade == [password |-> Empty, settings |-> Empty]

Init ==
    /\ cpus \in CPUs
    /\ argon \in Starts(cpus)
    /\ row = NoRow
    /\ made = NotMade

\* The process restarts, with other settings or on another machine.
Start ==
    /\ cpus' \in CPUs
    /\ argon' \in Starts(cpus')
    /\ UNCHANGED <<row, made>>

\* Signup or ChangePassword store what GenerateHash returns for a random salt.
Store(p) ==
    \E g \in GenerateHash(argon, p, Empty) :
        /\ Made(g)
        /\ row' = g
        /\ made' = [password |-> p, settings |-> argon]
        /\ UNCHANGED <<cpus, argon>>

Next == Start \/ \E p \in Passwords : Store(p)

Spec == Init /\ [][Next]_vars

----------------------------------------------------------------------------

\* Settings that make the same key of a password and a salt.
SameKey(a, b) ==
    a.time = b.time /\ a.memory = b.memory /\ a.threads = b.threads /\ a.keyLen = b.keyLen

\* A stored password is accepted, and nothing else is: by every process whose
\* settings make the same keys, whatever the length of the salts it would draw,
\* and never for a row without a salt, which a configured salt length of 0 makes
\* (argon2id.go:71-78, 88-107).
AcceptsExactlyThePassword ==
    made # NotMade =>
        \A p \in Passwords \cup {Empty} :
            "ok" \in Compare(argon, row.hash, row.salt, p) <=>
                /\ p = made.password
                /\ SameKey(argon, made.settings)
                /\ made.settings.saltLen # 0

\* The default never asks for no thread at all, for which IDKey panics, nor for
\* more than 4 or more than half of two processors or more, although the number
\* of processors is cut to 8 bits before it is bounded (argon2id.go:54-55).
DefaultsHash ==
    argon = NewWithDefault(cpus) =>
        /\ ~ Panics(argon)
        /\ argon.threads <= 4
        /\ cpus >= 2 => 2 * argon.threads <= cpus

=============================================================================
