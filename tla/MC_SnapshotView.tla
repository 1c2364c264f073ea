---------------------------- MODULE MC_SnapshotView ----------------------------
(* Two indexes below their common parent top: d1 (with its subdirectory   *)
(* e1) from filesystem fa, d2 from filesystem fb.  top, d1 and d2 carry a *)
(* treesummary row.                                                        *)
EXTENDS SnapshotView

CONSTANTS top, d1, e1, d2, host, fa, fb

MCDirs       == {top, d1, e1, d2}
MCFsOf       == [n \in MCDirs |-> IF n = top THEN host
                                  ELSE IF n = d2 THEN fb ELSE fa]
MCHasSummary == {d1, e1, d2}
MCHasTreeSum == {top, d1, d2}
================================================================================
