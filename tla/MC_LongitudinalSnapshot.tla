----------------------- MODULE MC_LongitudinalSnapshot -----------------------
(* Two indexes below a common parent `top`, which gufi_query walks as a   *)
(* directory of its own; and one of them on its own.                      *)
EXTENDS LongitudinalSnapshot, TLC

CONSTANTS top, d1, d2, w1, w2, both, one

MCNodes   == {top, d1, d2}
MCWorkers == {w1, w2}
MCPaths   == {both, one}
\* `both` is the common parent of the indexes d1 and d2; `one` is d1.
MCScope   == [p \in MCPaths |-> IF p = both THEN {top, d1, d2} ELSE {d1}]
\* The common parent has no summary row but may carry a treesummary row.
MCHasSummary == {d1, d2}
MCHasTreeSum == {top, d1}

MCSymmetry == Permutations(MCWorkers)
==============================================================================
