------------------------- MODULE MC_LegacySnapshot -------------------------
(* The indexes of MC_LongitudinalSnapshot, d1 and d2 below their common  *)
(* parent top, with a subdirectory e2 of d2: top, d1 and e2 carry a       *)
(* treesummary row, d2 does not.                                          *)
EXTENDS LegacySnapshot, TLC

CONSTANTS top, d1, d2, e2, w1, w2, both, one

MCNodes   == {top, d1, d2, e2}
MCWorkers == {w1, w2}
MCPaths   == {both, one}
MCScope   == [p \in MCPaths |-> IF p = both THEN {top, d1, d2, e2} ELSE {d1}]
MCHasSummary == {d1, d2, e2}
MCHasTreeSum == {top, d1, e2}
MCBelow   == [n \in MCNodes |-> CASE n = top -> {d1, d2, e2}
                                 [] n = d2  -> {e2}
                                 [] OTHER   -> {}]

MCSymmetry == Permutations(MCWorkers)
==============================================================================
