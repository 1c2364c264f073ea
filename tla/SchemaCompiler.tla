---------------------------- MODULE SchemaCompiler ----------------------------
(***************************************************************************)
(* The statistic descriptor tables and the schema compiler of the          *)
(* longitudinal snapshot generator: summary() and treesummary() of         *)
(* contrib/longitudinal_snapshot/DT.py, and the inline tables of run() in  *)
(* the older contrib/longitudinal_snapshot.py (Variant "legacy").          *)
(*                                                                         *)
(* A descriptor is <<statistic, <<expression, type>>>> as in the source.   *)
(* An expression is a record of the SQL function, its argument and its     *)
(* parameter (bucket count or reference time); the SQL text is left out.   *)
(* Column names are strings, formatted as the code formats them.           *)
(* The state is the invocation's arguments (reference time and bucket      *)
(* counts) and the value of one timestamp column of one entry.             *)
(***************************************************************************)
EXTENDS Naturals, Sequences, SequencesExt

CONSTANTS
    Variant,      \* "DT" or "legacy"
    Reftimes,     \* values of --reftime
    Buckets,      \* bucket counts the bucket sizer can return
    Timestamps,   \* values of an entry's atime
    NULL          \* SQL NULL

VARIABLES
    reftime,  \* args.reftime
    sizeB,    \* log2_size_bucket_count
    nameB,    \* log2_name_len_bucket_count
    atime     \* the atime of one entry the -E select reads

vars == <<reftime, sizeB, nameB, atime>>

X(fn, arg, param) == [fn |-> fn, arg |-> arg, param |-> param]
S(stat, fn, arg, param, type) == <<stat, <<X(fn, arg, param), type>> >>
\* A column of the table an expression reads.
C(c) == X("col", c, 0)

-----------------------------------------------------------------------------
(* Plausible bugs of the definitions below.                                *)

\* The value histogram declared with an integer column type.
GenValueHistColInt(e) == <<X("category_hist", X("cast_text", e, 0), 1), "INT64">>

\* A time family whose stdev row was copied from mean without renaming.
LegacyTimeColsDupStat(col, ref) ==
    << S("min", "dmin", C(col), 0, "INT64"), S("max", "dmax", C(col), 0, "INT64"),
       S("mean", "avg", C(col), 0, "DOUBLE"), S("median", "median", C(col), 0, "DOUBLE"),
       S("mode", "mode_count", C(col), 0, "TEXT"), S("mean", "stdevp", C(col), 0, "DOUBLE"),
       S("hist", "time_hist", C(col), ref, "TEXT") >>

-----------------------------------------------------------------------------
(* Descriptor tables of DT.py.                                             *)

GenValueHistCol(e) == <<X("category_hist", X("cast_text", e, 0), 1), "TEXT">>

GenTimeCols(col, ref) ==
    << S("min", "dmin", C(col), 0, "INT64"), S("max", "dmax", C(col), 0, "INT64"),
       S("mean", "avg", C(col), 0, "DOUBLE"), S("median", "median", C(col), 0, "DOUBLE"),
       S("mode", "mode_count", C(col), 0, "TEXT"), S("stdev", "stdevp", C(col), 0, "DOUBLE"),
       S("age_hist", "time_hist", C(col), ref, "TEXT"),
       <<"hour_hist", GenValueHistCol(X("strftime_H", C(col), 0))>> >>

GenFTimeCols ==
    LET f == X("minus", C("atime"), C("mtime")) IN
    << S("min", "min", f, 0, "INT64"), S("max", "max", f, 0, "INT64"),
       S("mean", "avg", f, 0, "DOUBLE"), S("median", "median", f, 0, "DOUBLE"),
       S("mode", "mode_count", f, 0, "TEXT"), S("stdev", "stdevp", f, 0, "DOUBLE") >>

GenStrCols(col, b) ==
    LET l == X("length", C(col), 0) IN
    << S("min", "min", l, 0, "INT64"), S("max", "max", l, 0, "INT64"),
       S("mean", "avg", l, 0, "DOUBLE"), S("median", "median", l, 0, "DOUBLE"),
       S("mode", "mode_count", l, 0, "TEXT"), S("stdev", "stdevp", l, 0, "DOUBLE"),
       S("hist", "log2_hist", l, b, "TEXT") >>

\* SUMMARY_COLS: bare column names read from vrsummary.
SummaryCols ==
    LET c == <<<<"name", "TEXT">>, <<"inode", "TEXT">>, <<"mode", "INT64">>,
               <<"nlink", "INT64">>, <<"uid", "INT64">>, <<"gid", "INT64">>,
               <<"blksize", "INT64">>, <<"blocks", "INT64">>, <<"atime", "INT64">>,
               <<"mtime", "INT64">>, <<"ctime", "INT64">>, <<"depth", "INT64">>,
               <<"filesystem_type", "BLOB">>, <<"pinode", "TEXT">>,
               <<"totfiles", "INT64">>, <<"totlinks", "INT64">>,
               <<"totsubdirs", "INT64">>>>
    IN [i \in DOMAIN c |-> S(c[i][1], "col", c[i][1], 0, c[i][2])]

IdCols(id) ==
    << S("min", "dmin", C(id), 0, "INT64"), S("max", "dmax", C(id), 0, "INT64"),
       <<"hist", GenValueHistCol(C(id))>>,
       S("num_unique", "count_distinct", C(id), 0, "INT64") >>

SizeCols(b) ==
    << S("min", "dmin", C("size"), 0, "INT64"), S("max", "dmax", C("size"), 0, "INT64"),
       S("mean", "avg", C("size"), 0, "DOUBLE"), S("median", "median", C("size"), 0, "DOUBLE"),
       S("mode", "mode_count", X("cast_text", C("size"), 0), 0, "TEXT"),
       S("stdev", "stdevp", C("size"), 0, "DOUBLE"), S("sum", "dtot", C("size"), 0, "INT64"),
       S("hist", "log2_hist", C("size"), b, "TEXT") >>

ExtCols == << S("hist", "category_hist", X("extension", C("name"), 0), 1, "TEXT") >>

EntriesCols(ref, sb, nb) ==
    << <<"uid", IdCols("uid")>>, <<"gid", IdCols("gid")>>, <<"size", SizeCols(sb)>>,
       <<"permissions", << S("hist", "mode_hist", C("mode"), 0, "TEXT") >> >>,
       <<"ctime", GenTimeCols("ctime", ref)>>, <<"atime", GenTimeCols("atime", ref)>>,
       <<"mtime", GenTimeCols("mtime", ref)>>, <<"crtime", GenTimeCols("crtime", ref)>>,
       <<"ftime", GenFTimeCols>>,
       <<"name", GenStrCols("name", nb)>>, <<"linkname", GenStrCols("linkname", nb)>>,
       <<"extensions", ExtCols>> >>

-----------------------------------------------------------------------------
(* Descriptor tables of the legacy generator (inline in its run()).        *)

LegacyTimeCols(col, ref) ==
    << S("min", "dmin", C(col), 0, "INT64"), S("max", "dmax", C(col), 0, "INT64"),
       S("mean", "avg", C(col), 0, "DOUBLE"), S("median", "median", C(col), 0, "DOUBLE"),
       S("mode", "mode_count", C(col), 0, "TEXT"), S("stdev", "stdevp", C(col), 0, "DOUBLE"),
       S("hist", "time_hist", C(col), ref, "TEXT") >>

\* The legacy SUMMARY_COLS: the same names and types as DT.py's (its depth
\* is level() alone, an expression the model does not tell apart).
LegacySummaryCols == SummaryCols

\* The legacy gen_str_cols: DT.py's descriptors, with vrpentries written
\* into the expression instead of substituted for {0}.
LegacyStrCols(col, b) == GenStrCols(col, b)

LegacyEntriesCols(ref, sb, nb) ==
    LET idCols(id, histType) ==
            << S("min", "dmin", C(id), 0, "INT64"), S("max", "dmax", C(id), 0, "INT64"),
               S("hist", "category_hist", C(id), 0, histType),
               S("num_unique", "count_distinct", C(id), 0, "INT64") >>
    IN << <<"uid", idCols("uid", "INT64")>>, <<"gid", idCols("gid", "TEXT")>>,
          <<"size", SizeCols(sb)>>,
          <<"permissions", << S("hist", "mode_hist", C("mode"), 0, "TEXT") >> >>,
          <<"ctime", LegacyTimeCols("ctime", ref)>>, <<"atime", LegacyTimeCols("atime", ref)>>,
          <<"mtime", LegacyTimeCols("mtime", ref)>>, <<"crtime", LegacyTimeCols("crtime", ref)>>,
          <<"name", LegacyStrCols("name", nb)>>, <<"linkname", LegacyStrCols("linkname", nb)>>,
          <<"xattr_name", LegacyStrCols("xattr_name", nb)>>,
          <<"xattr_value", LegacyStrCols("xattr_value", nb)>>,
          <<"extensions", << S("hist", "category_hist", X("extension", C("name"), 0), 0, "TEXT") >> >> >>

-----------------------------------------------------------------------------
(* The compiler.                                                           *)

\* The IK/E loop: each summary column under its own name, then for each
\* family and each of its statistics a column '{family}_{stat}' with the
\* statistic's type, and, in the same iteration, its select expression.
Compile(summary, entries) ==
    LET col(name, d) == [name |-> name, type |-> d[2][2], sql |-> d[2][1]]
        fam(k) == [j \in DOMAIN entries[k][2] |->
                     col(entries[k][1] \o "_" \o entries[k][2][j][1], entries[k][2][j])]
    IN [i \in DOMAIN summary |-> col(summary[i][1], summary[i])]
       \o FlattenSeq([k \in DOMAIN entries |-> fam(k)])

\* The plan each generator compiles for this invocation's arguments.
PlanOf(v) ==
    IF v = "DT" THEN Compile(SummaryCols, EntriesCols(reftime, sizeB, nameB))
                ELSE Compile(LegacySummaryCols, LegacyEntriesCols(reftime, sizeB, nameB))

Plan == PlanOf(Variant)

\* treesummary(): COLS, the columns of the index's treesummary table.
TreeSummaryCols ==
    << "inode", "totsubdirs", "maxsubdirfiles", "maxsubdirlinks", "maxsubdirsize",
       "totfiles", "totlinks", "minuid", "maxuid", "mingid", "maxgid", "minsize",
       "maxsize", "totzero", "totltk", "totmtk", "totltm", "totmtm", "totmtg",
       "totmtt", "totsize", "minctime", "maxctime", "minmtime", "maxmtime",
       "minatime", "maxatime", "minblocks", "maxblocks", "totxattr", "depth",
       "mincrtime", "maxcrtime", "minossint1", "maxossint1", "totossint1",
       "minossint2", "maxossint2", "totossint2", "minossint3", "maxossint3",
       "totossint3", "minossint4", "maxossint4", "totossint4", "rectype", "uid",
       "gid" >>

\* The view's treesummary columns without renaming (a plausible bug of
\* the definition below).
TsViewColsUnrenamed == TreeSummaryCols

\* -G: the treesummary half of the view.  DT.py selects every column of
\* treesummary AS ts_<column>; the legacy view selects them as they are.
TsViewCols ==
    IF Variant = "DT" THEN [i \in DOMAIN TreeSummaryCols |-> "ts_" \o TreeSummaryCols[i]]
                      ELSE TreeSummaryCols

\* SELECT * FROM summary LEFT JOIN <treesummary half>: its column names.
ViewCols == [i \in DOMAIN Plan |-> Plan[i].name] \o TsViewCols

-----------------------------------------------------------------------------
(* Evaluation of the hour histogram's argument on one entry.               *)

\* SQLite's strftime('%H', v) for an integer v: v is taken as a Julian day
\* number, valid from 0 to 5373484, and a whole day number is noon.
StrftimeHour(v) == IF v \in 0..5373484 THEN 12 ELSE NULL

RECURSIVE Eval(_)
Eval(e) ==
    CASE e = C("atime")       -> atime
      [] e.fn = "cast_text"  -> Eval(e.arg)
      [] e.fn = "strftime_H" -> StrftimeHour(Eval(e.arg))

-----------------------------------------------------------------------------
Init ==
    /\ reftime \in Reftimes
    /\ sizeB \in Buckets
    /\ nameB \in Buckets
    /\ atime \in Timestamps

\* Another invocation, with other arguments, over another entry.
Next ==
    \E r \in Reftimes, sb, nb \in Buckets, t \in Timestamps :
        /\ reftime' = r /\ sizeB' = sb /\ nameB' = nb /\ atime' = t

Spec == Init /\ [][Next]_vars

-----------------------------------------------------------------------------
(* Properties                                                              *)

\* Spec 4.3 and 4.4: no two columns of the summary table, nor of the
\* snapshot view that puts the treesummary columns beside them, have the
\* same name (the view renames the treesummary columns to avoid it).
ViewColsDistinct == IsInjective(ViewCols)

\* Spec 4.3 and 8: the compiled column list of either generator has no
\* two columns of the same name, so the CREATE TABLE of -I and -K, which
\* declare the intermediate and the final summary table with it, cannot
\* fail with a duplicate column name on any invocation.
SchemaCreatable ==
    \A v \in {"DT", "legacy"} :
        IsInjective([i \in DOMAIN PlanOf(v) |-> PlanOf(v)[i].name])

\* Every histogram column is declared TEXT, and each parameterised one
\* is given the bound of what it counts: the size bucket count for sizes,
\* the name-length bucket count for lengths, the reference time for ages.
HistogramDescriptors ==
    \A i \in DOMAIN Plan :
        LET e == Plan[i].sql IN
        /\ e.fn \in {"category_hist", "log2_hist", "time_hist", "mode_hist"}
              => Plan[i].type = "TEXT"
        /\ e.fn = "log2_hist" =>
              e.param = IF e.arg = C("size") THEN sizeB ELSE nameB
        /\ e.fn = "time_hist" => e.param = reftime

\* Spec 4.2: the hour-of-day histogram of a temporal family counts each
\* entry under the hour of day of its timestamp (seconds since the epoch).
HourHistIsHourOfDay ==
    \A i \in DOMAIN Plan :
        Plan[i].name = "atime_hour_hist" =>
            Eval(Plan[i].sql.arg) = (atime % 86400) \div 3600

=============================================================================
