---------------------------- MODULE MCTransaction ----------------------------
(* Transaction on small instances *)
EXTENDS Transaction, TLC

CONSTANTS b1, b2, b3

MCBlocks == {b1, b2, b3}
MCNames == {NoName, -1}

Symmetry == Permutations(MCBlocks)
=============================================================================
