--------------------------- MODULE CumulativeTimes ---------------------------
(***************************************************************************)
(* cumulative_times_extract of contrib/performance/performance_pkg/       *)
(* extraction/common.py: the parser of gufi_query's cumulative-times      *)
(* debug output.  It reads the output line by line, attributes each line  *)
(* to the longest column name the line starts with, keeps the rest of the *)
(* line without its ':' and its 's' unit as the value, and at the end     *)
(* raises ValueError if a column has no value.                            *)
(*                                                                         *)
(* Text is a sequence of one-character strings.  A line the debug output  *)
(* prints is built from a key, a separator, a value and a unit (the       *)
(* record it is built from is kept as the reference of what it means);    *)
(* the parser sees only the characters.                                   *)
(***************************************************************************)
EXTENDS Naturals, Sequences, SequencesExt, TLC

CONSTANTS
    Columns,   \* the `columns` argument: its column names, in order
    Preset,    \* names `data` starts with: id, commit and branch
    Keys,      \* keys the debug output prints (<<>>: a line without key)
    Seps,      \* what separates a key from its value
    Values,    \* values (digits) the debug output prints
    Units,     \* the unit after a value
    MaxLines,  \* most lines the output has
    NONE       \* Python None, and a value the caller passed

ASSUME \A i \in DOMAIN Columns : Columns[i] # <<>>

ColumnNames == Range(Columns)

\* A line of the debug output and the text it is printed as.
Line == [key : Keys, sep : Seps, val : Values, unit : Units]
Render(l) == l.key \o l.sep \o l.val \o l.unit

VARIABLES
    data,     \* the dict being filled: column name -> value
    line,     \* the line the loop is on
    nread,    \* lines read so far
    result,   \* "parsing", then "ok" or "ValueError"
    expected  \* history: column -> value of its last line that has one

vars == <<data, line, nread, result, expected>>

-----------------------------------------------------------------------------
(* Python string operations.                                               *)

\* s.lstrip(cs) and s.rstrip(cs): s without its longest prefix (suffix)
\* made of characters of cs.
LStrip(s, cs) ==
    LET k == SelectInSeq(s, LAMBDA c : c \notin cs)
    IN IF k = 0 THEN <<>> ELSE SubSeq(s, k, Len(s))
RStrip(s, cs) ==
    SubSeq(s, 1, SelectLastInSeq(s, LAMBDA c : c \notin cs))

\* s.strip(): without leading and trailing whitespace.
Strip(s) == RStrip(LStrip(s, {" "}), {" "})

-----------------------------------------------------------------------------
(* Plausible bugs of the definitions below.                                *)

\* The column names sorted by length without the reverse(): shortest first.
SortedShortestFirst == SortSeq(Columns, LAMBDA x, y : Len(x) <= Len(y))

-----------------------------------------------------------------------------
\* sorted_columns: the names sorted by length, then reversed (longest
\* first).  Names of equal length cannot both begin the same line, so the
\* order among them does not matter.
SortedColumns ==
    Reverse(SortSeq(Columns, LAMBDA x, y : Len(x) <= Len(y)))

\* process_line(line, event, rstrip): {} when nothing is left of the line
\* once stripped, else {event: line}.
ProcessLine(l, event, r) ==
    LET s == RStrip(Strip(l), r)
    IN IF s = <<>> THEN <<>> ELSE event :> s

\* One iteration of `for line in src`: strip, skip a blank line, find the
\* first (longest) column name the line starts with, cut it off; a line
\* that was only the name goes on to the remaining (shorter) names, which
\* cannot match the empty rest; otherwise drop one ':' and update data.
ParseLine(raw) ==
    LET s == Strip(raw)
        k == SelectInSeq(SortedColumns, LAMBDA v : IsPrefix(v, s))
        v == SortedColumns[k]
        rest == SubSeq(s, Len(v) + 1, Len(s))
        value == IF rest[1] = ":" THEN Tail(rest) ELSE rest
    IN IF s = <<>> \/ k = 0 \/ rest = <<>> THEN data
       ELSE ProcessLine(value, v, {"s"}) @@ data

\* The missing-input check: the columns data has no value for.
Missing == {c \in ColumnNames : c \notin DOMAIN data}

-----------------------------------------------------------------------------
\* data = {'id': None, 'commit': commit, 'branch': branch}
Init ==
    /\ data = [c \in Preset |-> NONE]
    /\ line = NONE
    /\ nread = 0
    /\ result = "parsing"
    /\ expected = [c \in Preset |-> NONE]

\* The loop body on the next line of src.
ReadLine(l) ==
    /\ result = "parsing"
    /\ nread < MaxLines
    /\ line' = l
    /\ nread' = nread + 1
    /\ data' = ParseLine(Render(l))
    /\ expected' = IF l.key \in ColumnNames /\ l.val # <<>>
                   THEN (l.key :> l.val) @@ expected ELSE expected
    /\ UNCHANGED result

\* src is exhausted: check for missing input, then return data or raise.
CheckMissing ==
    /\ result = "parsing"
    /\ result' = IF Missing = {} THEN "ok" ELSE "ValueError"
    /\ UNCHANGED <<data, line, nread, expected>>

Next == (\E l \in Line : ReadLine(l)) \/ CheckMissing

Spec == Init /\ [][Next]_vars

-----------------------------------------------------------------------------
(* Properties                                                              *)

\* Every column is bound to the value of the last line printed for it, and
\* to nothing else, even when one column name begins another (the reason
\* for sorting the names longest first) and whatever the separator, the
\* spacing and the unit of the line.
ParsesReference == data = expected

\* Spec section 7: the extraction fails, naming a missing field, exactly
\* when some column was not given a value by the output; a line that
\* names a column but carries no value does not count as one.
RaisesIffMissing ==
    result # "parsing" =>
        (result = "ValueError" <=> \E c \in ColumnNames : c \notin DOMAIN expected)

=============================================================================
