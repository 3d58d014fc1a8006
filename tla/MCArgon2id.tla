----------------------------- MODULE MCArgon2id -----------------------------
(* Instances of Argon2id for TLC. *)
EXTENDS Argon2id, TLC

Symmetry == Permutations(Passwords) \cup Permutations(Salts)

\* The defaults of cmd/app/main.go:101-105, and settings of 0.
MCConfigs ==
    [time: {0, 4}, saltLen: {0, 32}, memory: {0, 65536}, threads: {0, 1, 4}, keyLen: {0, 256}]

=============================================================================
