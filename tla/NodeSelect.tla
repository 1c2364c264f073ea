------------------------------ MODULE NodeSelect ------------------------------
(***************************************************************************)
(* The -E fragment of contrib/longitudinal_snapshot/DT.py on one directory *)
(*                                                                         *)
(*   INSERT INTO intermediate_summary SELECT <E> FROM vrsummary            *)
(*     LEFT JOIN vrpentries ON vrsummary.inode == vrpentries.pinode        *)
(*     GROUP BY vrsummary.inode                                            *)
(*                                                                         *)
(* with, of the select list, the per-entry columns whose NULL handling     *)
(* differs: uid_num_unique (COUNT(DISTINCT uid)), uid_hist (category_hist  *)
(* of CAST(uid AS TEXT)), extensions_hist (category_hist of the            *)
(* extension expression of ExtensionHist), and the SQLite aggregates       *)
(* name_min/name_max (MIN/MAX(LENGTH(name))) and ftime_min/ftime_max       *)
(* (MIN/MAX(atime - mtime)).  Whether the engine's                         *)
(* category_hist counts a NULL argument is not defined by this repository: *)
(* it is a choice made once, in Init.                                      *)
(***************************************************************************)
EXTENDS Integers, Sequences, FiniteSets, Bags, SequencesExt

CONSTANTS
    Uids,        \* owner ids of entries
    EntryNames,  \* names of entries, sequences of one-character strings
    Times,       \* values of an entry's atime and mtime
    MaxEntries,  \* most entries a directory holds
    NULL         \* SQL NULL

Ext == INSTANCE ExtensionHist WITH Alphabet <- {"."}, MaxLen <- 0,
                                   name <- NULL

Entry == [uid : Uids, name : EntryNames, atime : Times, mtime : Times]

\* A directory's database: whether its summary table has the directory's
\* row (the common parent of several indexes has none), and its entries.
Dirs == [summary : BOOLEAN, entries : BoundedSeq(Entry, MaxEntries)]

VARIABLES
    dir,         \* the directory -E runs on
    countsNull   \* whether category_hist counts a NULL argument

vars == <<dir, countsNull>>

NullEntry == [uid |-> NULL, name |-> NULL, atime |-> NULL, mtime |-> NULL]

-----------------------------------------------------------------------------
(* Plausible bugs of the definitions below.                                *)

\* An inner join: no row for a directory without entries.
InnerJoined(d) == IF d.summary THEN d.entries ELSE <<>>

\* MIN(LENGTH(name)) written as MIN(LENGTH(IFNULL(name, ''))).
SqlMinNullAsZero(vals) ==
    LET v == {IF x = NULL THEN 0 ELSE x : x \in Range(vals)}
    IN IF v = {} THEN NULL ELSE Min(v)

-----------------------------------------------------------------------------
\* vrsummary LEFT JOIN vrpentries: the directory's entries, or one row of
\* NULLs when it has none; nothing without a summary row.
Joined(d) ==
    IF ~d.summary THEN <<>>
    ELSE IF d.entries = <<>> THEN <<NullEntry>> ELSE d.entries

\* category_hist(v, 1) over the group: each value with its count.
CategoryHist(vals) ==
    LET counted(i) == vals[i] # NULL \/ countsNull
    IN [v \in {vals[i] : i \in {j \in DOMAIN vals : counted(j)}} |->
          Cardinality({i \in DOMAIN vals : counted(i) /\ vals[i] = v})]

\* COUNT(DISTINCT v): NULL is not a value.
CountDistinct(vals) == Cardinality(Range(vals) \ {NULL})

\* SQLite's MIN and MAX skip NULL, and are NULL when every value is.
SqlMin(vals) ==
    LET v == Range(vals) \ {NULL} IN IF v = {} THEN NULL ELSE Min(v)
SqlMax(vals) ==
    LET v == Range(vals) \ {NULL} IN IF v = {} THEN NULL ELSE Max(v)

\* LENGTH(name) and atime - mtime: NULL in, NULL out.
SqlLength(v)   == IF v = NULL THEN NULL ELSE Len(v)
SqlMinus(a, b) == IF a = NULL \/ b = NULL THEN NULL ELSE a - b

\* The group's row of the select list (GROUP BY inode: one group).
Aggregate(g) ==
    LET uids   == [i \in DOMAIN g |-> g[i].uid]
        exts   == [i \in DOMAIN g |-> Ext!Extension(g[i].name)]
        lens   == [i \in DOMAIN g |-> SqlLength(g[i].name)]
        ftimes == [i \in DOMAIN g |-> SqlMinus(g[i].atime, g[i].mtime)]
    IN [uid_num_unique  |-> CountDistinct(uids),
        uid_hist        |-> CategoryHist(uids),
        ftime_min       |-> SqlMin(ftimes),
        ftime_max       |-> SqlMax(ftimes),
        name_min        |-> SqlMin(lens),
        name_max        |-> SqlMax(lens),
        extensions_hist |-> CategoryHist(exts)]

\* Rows -E inserts for directory d.
Output(d) == IF Joined(d) = <<>> THEN {} ELSE {Aggregate(Joined(d))}

-----------------------------------------------------------------------------
Init == dir \in Dirs /\ countsNull \in BOOLEAN

\* gufi_query moves on to another directory.
Next == \E d \in Dirs : dir' = d /\ UNCHANGED countsNull

Spec == Init /\ [][Next]_vars

-----------------------------------------------------------------------------
(* Properties                                                              *)

\* -E inserts exactly one row for a directory that has a summary row, even
\* one without entries, and none for the common parent of several indexes;
\* that row counts each distinct owner of the entries once.
OneRowPerDirectory ==
    /\ Cardinality(Output(dir)) = IF dir.summary THEN 1 ELSE 0
    /\ \A r \in Output(dir) :
           r.uid_num_unique = Cardinality({dir.entries[i].uid :
                                           i \in DOMAIN dir.entries})

\* Spec 4.2 and 8: a directory without entries has NULL per-entry
\* statistics although -E sees the LEFT JOIN's row of NULLs, and one with
\* entries gets the least and greatest name length and atime - mtime of
\* exactly its entries.
EntryStatsDescribeEntries ==
    \A r \in Output(dir) :
        LET e == dir.entries
            lens   == {Len(e[i].name) : i \in DOMAIN e}
            ftimes == {e[i].atime - e[i].mtime : i \in DOMAIN e}
        IN IF e = <<>>
           THEN {r.name_min, r.name_max, r.ftime_min, r.ftime_max} = {NULL}
           ELSE /\ r.name_min = Min(lens)   /\ r.name_max = Max(lens)
                /\ r.ftime_min = Min(ftimes) /\ r.ftime_max = Max(ftimes)

\* Spec 4.2 and 4.4: extensionless files are counted (as NULL) in the
\* extensions histogram, and a directory without entries has null
\* per-entry statistics: every histogram of a row counts exactly the
\* directory's entries.
HistogramsCountEntries ==
    \A r \in Output(dir) :
        /\ BagCardinality(r.extensions_hist) = Len(dir.entries)
        /\ BagCardinality(r.uid_hist) = Len(dir.entries)

=============================================================================
