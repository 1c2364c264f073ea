---------------------------- MODULE ExtensionHist ----------------------------
(***************************************************************************)
(* The category the extensions histogram gives a file name (EXT_COLS in   *)
(* summary(), contrib/longitudinal_snapshot/DT.py):                        *)
(*                                                                         *)
(*   CASE WHEN name NOT LIKE '%.%' THEN NULL                               *)
(*   ELSE REPLACE(name, RTRIM(name, REPLACE(name, '.', '')), '') END       *)
(*                                                                         *)
(* with SQLite's REPLACE and RTRIM.  A name is a sequence of one-character *)
(* strings; NULL is the name column of the all-NULL row LEFT JOIN makes   *)
(* for a directory without entries.                                       *)
(***************************************************************************)
EXTENDS Naturals, Sequences, SequencesExt

CONSTANTS
    Alphabet,  \* characters names are made of; contains "."
    MaxLen,    \* longest name enumerated
    NULL       \* SQL NULL

ASSUME "." \in Alphabet /\ MaxLen \in Nat

Names == BoundedSeq(Alphabet, MaxLen)

VARIABLE name   \* the name being categorised

-----------------------------------------------------------------------------
(* Plausible bugs of the definitions below.                                *)

\* REPLACE that replaces only the first occurrence.
SqlReplaceFirst(x, y, z) ==
    IF Len(y) = 0 \/ ~(\E i \in 1..Len(x) : IsPrefix(y, SubSeq(x, i, Len(x))))
    THEN x
    ELSE LET i == CHOOSE i \in 1..Len(x) :
                      /\ IsPrefix(y, SubSeq(x, i, Len(x)))
                      /\ \A j \in 1..i-1 : ~IsPrefix(y, SubSeq(x, j, Len(x)))
         IN SubSeq(x, 1, i-1) \o z \o SubSeq(x, i + Len(y), Len(x))

-----------------------------------------------------------------------------
(* SQLite built-ins the expression uses.                                   *)

\* replace(X, Y, Z): every occurrence of Y in X, scanning left to right
\* without overlap, replaced by Z; X itself when Y is empty.
RECURSIVE SqlReplace(_, _, _)
SqlReplace(x, y, z) ==
    IF Len(y) = 0 \/ Len(x) < Len(y) THEN x
    ELSE IF SubSeq(x, 1, Len(y)) = y
         THEN z \o SqlReplace(SubSeq(x, Len(y) + 1, Len(x)), y, z)
         ELSE <<Head(x)>> \o SqlReplace(Tail(x), y, z)

\* rtrim(X, Y): X without the longest suffix made of characters of Y.
RTrim(x, y) ==
    LET keep == {k \in 0..Len(x) :
                   \A i \in k+1..Len(x) : x[i] \in Range(y)}
    IN SubSeq(x, 1, CHOOSE k \in keep : \A k2 \in keep : k <= k2)

\* name LIKE '%.%'; NULL when the name is NULL.
HasDot(n) == \E i \in 1..Len(n) : n[i] = "."

\* The CASE expression passed to category_hist.
Extension(n) ==
    IF n = NULL THEN NULL
    ELSE IF ~HasDot(n) THEN NULL
    ELSE SqlReplace(n, RTrim(n, SqlReplace(n, <<".">>, <<>>)), <<>>)

-----------------------------------------------------------------------------
Init == name \in Names \cup {NULL}

\* The next name to categorise.
Next == \E n \in Names \cup {NULL} : name' = n

Spec == Init /\ [][Next]_name

-----------------------------------------------------------------------------
(* Properties                                                              *)

\* Reference: the characters after the last '.' of the name.
AfterLastDot(n) ==
    LET last == CHOOSE i \in 1..Len(n) :
                    n[i] = "." /\ \A j \in i+1..Len(n) : n[j] # "."
    IN SubSeq(n, last + 1, Len(n))

\* The expression categorises a name that has a '.' by what follows its
\* last '.', even when the part before it repeats or contains dots, and a
\* name without '.' (and the NULL name) as NULL.
ExtensionIsLastSuffix ==
    Extension(name) = IF name = NULL \/ ~HasDot(name) THEN NULL
                      ELSE AfterLastDot(name)

=============================================================================
