-------------------------- MODULE MCUserPowerLoss --------------------------
(* Instances of UserPowerLoss for TLC. *)
EXTENDS UserPowerLoss, TLC

Symmetry ==
    Permutations(Requests) \cup Permutations(Emails) \cup Permutations(Names)
    \cup Permutations(Passwords) \cup Permutations(Tokens)

=============================================================================
