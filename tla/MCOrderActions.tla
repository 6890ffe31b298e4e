---------------------------- MODULE MCOrderActions ----------------------------
(* OrderActions for TLC: two symbols, which nothing tells apart. *)
EXTENDS OrderActions

CONSTANTS s1, s2

MCSymbols == {s1, s2}

SymbolSymmetry == Permutations(MCSymbols)

=============================================================================
