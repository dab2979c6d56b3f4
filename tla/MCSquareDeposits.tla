-------------------------- MODULE MCSquareDeposits --------------------------
(* Two clients ask for overlapping periods; two webhook handlers run.       *)
EXTENDS SquareDeposits, TLC

MCSymmetry == Permutations(Appts) \cup Permutations(Hooks)
=============================================================================
