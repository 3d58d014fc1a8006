--------------------------- MODULE MCUserService ---------------------------
(* Instances of UserService for TLC. *)
EXTENDS UserProperties, TLC

Symmetry ==
    Permutations(Requests) \cup Permutations(Emails) \cup Permutations(Names)
    \cup Permutations(Passwords) \cup Permutations(Tokens)

=============================================================================
