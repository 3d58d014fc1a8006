------------------------------- MODULE MCWeb -------------------------------
(* Instances of Web for TLC. *)
EXTENDS WebProperties, TLC

Symmetry ==
    Permutations(Browsers) \cup Permutations(Requests) \cup Permutations(Emails)
    \cup Permutations(Passwords) \cup Permutations(Tokens) \cup Permutations(SessionIds)

=============================================================================
