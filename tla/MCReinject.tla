------------------------------ MODULE MCReinject ------------------------------
(* Reinject for TLC: letters and places to run the command from are alike,   *)
(* but for the undecodable letter.                                           *)
EXTENDS Reinject, TLC

Symmetry == Permutations(Cli) \cup Permutations(Letter \ Undecodable)
===============================================================================
