------------------------------ MODULE MCLogger ------------------------------
(* Instance of Logger for TLC. *)
EXTENDS Logger, TLC

Symmetry == Permutations(Goroutines)

=============================================================================
