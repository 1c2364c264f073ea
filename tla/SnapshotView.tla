------------------------------ MODULE SnapshotView ------------------------------
(***************************************************************************)
(* The rows of the snapshot view that -G creates over the final tables:   *)
(*                                                                         *)
(*   DT.py:   SELECT * FROM summary LEFT JOIN (SELECT inode AS ts_inode,   *)
(*            ... FROM treesummary) AS ts ON summary.inode == ts.ts_inode  *)
(*   legacy:  SELECT * FROM summary LEFT JOIN treesummary                  *)
(*            ON summary.inode == treesummary.inode                        *)
(*                                                                         *)
(* Both join a directory's summary row to a treesummary row by the inode   *)
(* number the index recorded for the directory.  An inode number is        *)
(* unique only within one filesystem, and the path given to run() may be   *)
(* the common parent of indexes of several filesystems.  A view row is     *)
(* <<directory of the summary row, directory of the treesummary row>>.     *)
(***************************************************************************)
EXTENDS FiniteSets, Functions

CONSTANTS
    Dirs,        \* directories walked under the path given to run()
    FsOf,        \* FsOf[n]: the filesystem directory n was indexed from
    Inodes,      \* inode numbers
    HasSummary,  \* directories whose -E inserted a summary row
    HasTreeSum,  \* directories whose -T copied a treesummary row
    NULL

ASSUME HasSummary \subseteq Dirs /\ HasTreeSum \subseteq Dirs

VARIABLE ino   \* ino[n]: the inode number recorded for directory n

\* Inode numbers as filesystems hand them out: distinct within each one.
Inodings ==
    {f \in [Dirs -> Inodes] :
        \A fs \in Range(FsOf) :
            IsInjective(Restrict(f, {n \in Dirs : FsOf[n] = fs}))}

-----------------------------------------------------------------------------
\* The inode column of the rows -E and -T inserted: summary's is
\* vrsummary.inode, treesummary's the first column of the copied row.
SummaryRows  == {[dir |-> n, inode |-> ino[n]] : n \in HasSummary}
TreeSumRows  == {[dir |-> n, inode |-> ino[n]] : n \in HasTreeSum}

\* summary LEFT JOIN treesummary ON inode: every matching pair, and a
\* summary row without a match once, with NULL for the treesummary half.
View ==
    LET match(s) == {t \in TreeSumRows : t.inode = s.inode}
    IN UNION {IF match(s) = {} THEN {<<s.dir, NULL>>}
              ELSE {<<s.dir, t.dir>> : t \in match(s)} : s \in SummaryRows}

-----------------------------------------------------------------------------
Init == ino \in Inodings

\* Another index, with other inode numbers.
Next == \E f \in Inodings : ino' = f

Spec == Init /\ [][Next]_ino

-----------------------------------------------------------------------------
(* Properties                                                              *)

\* Spec 4.4 (6) and 6: the view joins each directory's summary row to its
\* own tree-rollup row: one view row per directory with a summary row,
\* holding that directory's treesummary row, or NULL when it has none.
ViewPairsOwnRollup ==
    View = {<<n, IF n \in HasTreeSum THEN n ELSE NULL>> : n \in HasSummary}

=============================================================================
