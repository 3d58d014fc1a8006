---------------------------- MODULE MCUserHistory ----------------------------
(* Instances of UserHistory for TLC. *)
EXTENDS UserHistory, TLC

Symmetry ==
    Permutations(Requests) \cup Permutations(Emails) \cup Permutations(Names)
    \cup Permutations(Passwords) \cup Permutations(Tokens)

=============================================================================
