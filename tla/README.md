# TLA+ models of the GUFI longitudinal snapshot generator

This directory models `contrib/longitudinal_snapshot/DT.py` and what surrounds it,
and checks the models with TLC. `contrib/longitudinal_snapshot.py` is the older
version of the same generator. The two `contrib/performance` files are helpers of
a separate benchmarking tool.

## 1. Inventory

### Components

| Component | Source | State | Operations |
|---|---|---|---|
| Bucket sizer | `DT.py:340-341` | none | `ceil(log(B, 2))` for `--max_size` and `--max_name_len` |
| Statistic descriptor tables | `DT.py:106-145, 217-305` | static lists | `gen_time_cols`, `gen_f_time_cols`, `gen_str_cols`, `gen_value_hist_col`, `EXT_COLS` |
| Schema compiler | `DT.py:307-333`, `treesummary()` `147-211` | none | builds the column list `IK` and the select list `E` in one loop; builds the treesummary CREATE and the `ts_`-renamed select |
| Query plan assembler | `DT.py:343-424` | none | assembles `-I -T -E -K -J -G`; `--replace` prefixes `-K` and `-G` with DROPs |
| gufi_query (external) | not in this repository | per-thread intermediate tables, the output database | runs `-I` per thread, `-T`/`-E` per directory, `-K`, `-J` per thread, `-G`; exits 0 or non-zero |
| Snapshot finalizer | `DT.py:426-464` | the output database's `metadata` table | `if rc: return rc`; DROP (replace), CREATE, INSERT, commit |
| Argument parsing | `DT.py:80-104` | none | argparse |
| Legacy generator | `longitudinal_snapshot.py:132-334` | as above | the same run without `--replace`, `-K` creating summary before treesummary, a `-T` ending in `SELECT 1 FROM treesummary`, a view without column renaming, a finalizer without DROP |
| Debug-output extraction | `performance/.../extraction/common.py` | `data` dict | longest-prefix line parser, missing-field check |
| hashdb test helpers | `performance/.../tests/utils.py` | an in-memory database | unit tests of code not in this repository |

### How they interact

`run()` computes the bucket counts, calls `treesummary()` and `summary()` (the
schema compiler over the descriptor tables) and assembles the six fragments. It
starts gufi_query with them and blocks until it exits. The only concurrency is
inside gufi_query: its threads walk directories in parallel. Each thread inserts
the rows of the directories it walked into its own intermediate tables. After the
walk, `-J` merges every thread's tables into the output database. If gufi_query
exits with 0, `run()` opens the output database and writes the metadata row.
Python's `sqlite3` runs `DROP`/`CREATE` in autocommit mode, so those two statements
are durable at once. Only the `INSERT` waits for `commit()`.

The output database outlives an invocation. Invocations against the same
`outname` interact through it: tables, the view and the metadata row that an
earlier invocation left behind, whether it completed, failed or was killed.

### What is hard

* Repeated invocations against one database, each of which may fail inside
  gufi_query (after `-K` has already dropped tables with `--replace`) or be
  killed between the finalizer's statements.
* Rows written by several threads, merged once per thread.
* SQL corner cases: the all-NULL row of `LEFT JOIN` for a directory without
  entries, and the `REPLACE`/`RTRIM` extension expression on unusual names.
* Floating-point `math.log` in the bucket sizer. This is out of TLC's reach.
* The `-G` view joins on the inode number. Inode numbers are unique only
  within one filesystem, and the path given to `run()` may span several.

### Properties that make each component correct

* Assembler, engine and finalizer: after `run()` returns 0, the store holds exactly
  that invocation's snapshot. `--replace` never collides with leftovers. A failed
  invocation without `--replace` keeps the previous snapshot. The metadata row
  describes the tables beside it.
* Per-directory select: one row per directory with a summary row and none for
  the common parent of several indexes. Histograms count exactly the entries.
  A directory without entries has NULL per-entry statistics.
* Extension expression: the category is what follows the last `.`. A name
  without a `.` gets NULL.
* Schema compiler: the view's columns do not collide, every histogram gets the
  bucket count or reference time meant for it, and the hour histogram really
  holds the hour of day.
* Both generators, seen from outside: an invocation installs its snapshot
  atomically or fails, a snapshot is discarded only by `--replace`, and every
  invocation returns (AbstractSnapshot).
* Debug-output extraction: each column gets the value of its own line, and the
  missing-field error is raised exactly when a column has no value (the second
  half fails: see `cumulative_times_ext`).
* Bucket sizer: `ceil(log2(B))`. This is not checkable in TLC (see hazards).

## 2. Plan

Done:

1. **LongitudinalSnapshot**: invocations of DT.py's `run()` against one output
   database, with gufi_query's fragments, thread merges, engine failure and
   signals in the finalizer.
2. **NodeSelect** and **ExtensionHist**: the `-E` select on one directory.
   NodeSelect instantiates ExtensionHist for the extension column.
3. **SchemaCompiler**: the descriptor tables as data, the `IK`/`E` loop, the
   treesummary columns and the view, for DT.py and for the legacy generator.
4. **CumulativeTimes**: the longest-prefix parser of `common.py`.
5. **LegacySnapshot**: `longitudinal_snapshot.py`'s `run()`, instantiating
   LongitudinalSnapshot for what the two share.
6. **AbstractSnapshot**: the store as the spec promises it. Both generators are
   checked to implement it, liveness included.
7. **SnapshotView**: the rows of the `-G` view, which joins summary to
   treesummary on the inode number.

Left: the `-E` statistics that are gufi_query built-ins or doubles (see
section 6), and a third thread in the snapshot models. `MC_LegacySnapshot`
already has a subdirectory below an index root.

## 3. Modules and how they correspond to the code

### LongitudinalSnapshot (`MC_LongitudinalSnapshot`)

State:

* `objects`: which of summary, treesummary, snapshot and metadata exist.
* `rows`: the committed rows of each table, as bags.
* `pending`: the uncommitted metadata `INSERT`.
* `inter`: each thread's intermediate tables.
* `todo` and `merged`: the walker's progress.
* `pc`: where the current invocation is.
* `hist`: the path, `--replace` flag and result of every invocation. It also
  records `before`, a history field for which snapshot the store held when the
  invocation started.

A row is `<<directory, invocation>>`. The statistics it carries are a function of
the directory at that time.

Actions:

* `Run` is the start of `run()`: arguments, fragments and `Popen`.
* `WalkDir(w, n)` runs `-T` and `-E` for directory `n` in thread `w`.
* `CreateAggregate` runs `-K`, including the `--replace` DROPs
  (`DropAggregate`). A CREATE of an existing table fails the fragment.
* `MergeThread(w)` runs `-J`.
* `CreateView` runs `-G`.
* `EngineFail` is gufi_query dying during the walk or the merges.
* `EngineExit` is the `if rc: return rc` test.
* `DropMetadata`, `CreateMetadata` (an exception when the table exists),
  `InsertMetadata` and `Commit` are the finalizer's statements.
* `Interrupt` is a signal between two of them: the open transaction rolls back
  and the DDL stays.

gufi_query is modelled from the spec, because it is not in this repository. The
model assumes three things about it. `-J` runs after the walk. A failing fragment
stops it with a non-zero status. It can also die at any point. `-K` is taken after
the walk, although gufi_query may run it first. The output database reaches the
same states either way, because `EngineFail` can still end the run after `-K`.

`Abstract` instantiates AbstractSnapshot with a refinement mapping:

* `store` is `Snapshotted`, the invocation whose complete snapshot the tables
  hold;
* `busy` is `pc # "idle"`;
* `runs` is `hist` without its history field.

`ImplementsAbstract` is its `Spec`, checked as a PROPERTY under `FairSpec`.

### AbstractSnapshot

The store as the spec promises it. `store` is the invocation whose complete
snapshot it holds, or 0. The actions are:

* `Start`: an invocation starts.
* `Clear`: only under `--replace`, the old snapshot is discarded.
* `Install`: the snapshot is installed and 0 returned, in one step.
* `Fail`: the invocation fails and the store is unchanged. Under `--replace`
  only the walker's failure and a signal are allowed.

`WF(Finish)` says that every invocation returns.

### LegacySnapshot (`MC_LegacySnapshot`)

`run()` of `longitudinal_snapshot.py`. It instantiates LongitudinalSnapshot as
`L` with the same variables. Where the legacy code runs the same statements it
reuses `L`'s actions: `-J`, the walker's failure, `CREATE`/`INSERT`/commit of the
metadata table, signals. It has its own actions where the code differs:

* `Run`: never `--replace`.
* `EngineExit`: goes to `CREATE TABLE`, because there is no DROP.
* `CreateAggregate`: summary before treesummary.
* `CreateView`: no DROP VIEW.
* `WalkDir`: the `-T` ending in `SELECT 1 FROM treesummary`.

The walker processes a directory only after the directories above it (`Below`).
What gufi_query does when `-T` returns no row is not defined in this repository.
The constant `TPrunes` chooses: skip the directory and its subtree, or go on.

### SchemaCompiler (`MC_SchemaCompiler`)

Each descriptor list is a sequence of `<<statistic, <<expression, type>>>>`. An
expression is a record `X(function, argument, parameter)` and `C(c)` is a column.
The lists are `GenTimeCols`, `GenFTimeCols`, `GenStrCols`, `SummaryCols`,
`IdCols`, `SizeCols`, `ExtCols` and `EntriesCols`, plus the legacy
`LegacySummaryCols`, `LegacyTimeCols`, `LegacyStrCols` and `LegacyEntriesCols`. `Compile(summary, entries)` is the `IK`/`E` loop: name
`family_statistic`, type and expression. `TreeSummaryCols` and `TsViewCols` are
`treesummary()`. `ViewCols` is the column list of the `-G` view. `Eval` evaluates
the hour expression with SQLite's `strftime('%H', v)` on an integer: `v` is a
Julian day, 12 for 0..5373484 and NULL otherwise. The state is the invocation's
arguments: the reference time, the two bucket counts and an atime.

### SnapshotView (`MC_SnapshotView`)

The rows of the `-G` view. In both generators it is `summary LEFT JOIN
treesummary` on the inode column. `ino` is the inode number that the index
recorded for each directory. `Inodings` allows every assignment that keeps
inode numbers distinct within each filesystem (`FsOf`). `SummaryRows` and
`TreeSumRows` are the inode columns of the rows that `-E` and `-T` inserted.
`View` is the join: every matching pair, and a NULL half for a summary row
with no match. `Next` switches to another index with other inode numbers.

### CumulativeTimes (`MC_CumulativeTimes`)

`cumulative_times_extract`. Text is a sequence of one-character strings.
`ReadLine(l)` is one iteration of the loop over the output:

* `strip`;
* the first name of `SortedColumns` (longest first) that the line starts with;
* the name cut off, one `:` dropped;
* `process_line` with `rstrip('s')`.

`CheckMissing` is the final check. The history variable `expected` records the
value each printed line carries for its column. That is the reference parse.

### NodeSelect (`MC_NodeSelect`)

The `-E` query on one directory. `Joined` is `vrsummary LEFT JOIN vrpentries`.
`Aggregate` is the select list's `uid_num_unique`, `uid_hist`,
`extensions_hist`, `name_min`/`name_max` (`MIN`/`MAX(LENGTH(name))`) and
`ftime_min`/`ftime_max` (`MIN`/`MAX(atime - mtime)`) over the single
`GROUP BY inode` group. `SqlMin`, `SqlMax`, `SqlLength` and `SqlMinus` give
SQLite's NULL handling: the aggregates skip NULL, and the scalar functions
return NULL for a NULL argument. Whether the engine's
`category_hist` counts a NULL argument is not defined in this repository. It is
the variable `countsNull`, chosen in `Init`. Directories are enumerated:

* with or without a summary row;
* with up to 2 entries;
* with two owners;
* with the names `a`, `a.b` and `.a`;
* with atime and mtime 1 or 2, so `atime - mtime` is negative, zero or
  positive.

### ExtensionHist (`MC_ExtensionHist`)

The `EXT_COLS` CASE expression. SQLite's `replace` (left to right, no overlap,
unchanged for an empty pattern) and `rtrim` are recursive and set operators over
names, which are sequences of one-character strings. All names of up to 4
characters over `{a, b, .}` are enumerated, plus NULL (122 states).
`ExtensionIsLastSuffix` confirms that the category is the text after the last
`.`, without the dot. Spec section 8 writes the category of `report.v2.txt` as
`.txt`, with the dot, so a consumer that expects the dot gets `txt` instead.

## 4. Runs

| Run | Expect | What it shows |
|---|---|---|
| `snapshot_store` | pass | See the list below this table. |
| `snapshot_metadata` | violation | `MetadataDescribesStore`: a `--replace` run whose gufi_query fails after `-K` leaves the previous metadata row beside new, incomplete tables. |
| `legacy_store` | pass | The legacy `run()`, three invocations, gufi_query walking every directory (`TPrunes = FALSE`). `SnapshotOfLastRun`, `FailedRunKeepsSnapshot` and `ImplementsAbstract` hold (20,341 distinct states). |
| `legacy_tsum_prune` | violation | `SnapshotOfLastRun` with `TPrunes = TRUE`: `d2` has no treesummary row, so its summary row is missing from a snapshot that `run()` reports as successful. |
| `extension_category` | pass | `ExtensionIsLastSuffix`: the category is the text after the last `.` (without the dot). A name without a `.`, and NULL, give NULL. |
| `node_select` | pass | `OneRowPerDirectory`: one row per directory with a summary row (with or without entries), none for the common parent, and a distinct-owner count that ignores the NULL row. `EntryStatsDescribeEntries`: the NULL row gives a directory without entries NULL name-length and `atime - mtime` statistics, and a directory with entries gets the least and greatest values of exactly its entries (2,404 states). |
| `node_select_hist` | violation | `HistogramsCountEntries`: the empty directory's NULL row reaches `category_hist`. Either it counts one phantom entry, or extensionless files are not counted. Both contradict a sentence of the spec. |
| `schema_compiler` | pass | DT.py: `ViewColsDistinct` (the view's 48 `ts_` columns do not collide with the summary's) and `HistogramDescriptors` (every histogram is TEXT, gets the size or name bucket count of its family, and every time histogram the reference time). For both generators, `SchemaCreatable`: the `-I`/`-K` column list has no duplicate name, so `CREATE TABLE` succeeds. Checked for every reference time and bucket count (256 states). |
| `schema_hour_hist` | violation | `HourHistIsHourOfDay`: for an epoch-seconds atime, `strftime('%H', atime)` is NULL, and it is `12` for a small value. It is never the hour of day. |
| `snapshot_view_inode` | violation | `ViewPairsOwnRollup`: with `d1` and `d2` indexed from different filesystems under one parent, the same inode number joins `d1`'s summary row to `d2`'s treesummary row. The view then has two rows for `d1`, or a rollup that belongs to another directory. |
| `cumulative_times` | pass | `ParsesReference` over every output of up to 3 lines with prefix-related column names `a` and `ab`, separators, spacing and units (1,238 states). |
| `cumulative_times_ext` | violation | `RaisesIffMissing` when the output also prints an event `ac`: its line is taken as column `a`'s value, and a missing `a` goes unreported. |

`snapshot_store` checks these properties (101,941 distinct states, depth 37):

* `TypeOK`.
* `SnapshotOfLastRun`: after `run()` returns 0, the store holds exactly that
  invocation's rows and a single metadata row.
* `ReplaceNeverCollides`: `--replace` never hits an existing table or view.
* `FailedRunKeepsSnapshot`: a failed run without `--replace` leaves the earlier
  complete snapshot intact.
* `ImplementsAbstract`: the refinement of AbstractSnapshot, with the liveness
  that every invocation returns.

Every property of a passing run has a mutant in `PROJECT.json`: a plausible bug
in the mapped code under which TLC finds the property violated.

* `RowSwapped`: `-J`'s positional copy with columns in the wrong order.
* `EngineExitNoCheck`: the `if rc` test dropped, in both generators.
* `DropAggregateKeepSummary`: a `--replace` DROP forgotten.
* `DropAggregateAlways`: DROPs done without `--replace`.
* `MergeThreadSummaryOnly`: `-J` without its treesummary INSERT, in both
  generators.
* `CreateAggregateIfNotExists`: the legacy `-K` with `IF NOT EXISTS`.
* `SqlReplaceFirst`: `REPLACE` replacing only the first occurrence.
* `InnerJoined`: an inner join.
* `SortedShortestFirst`: the column names not reversed after sorting.
* `TsViewColsUnrenamed`: the view without the `ts_` renaming.
* `GenValueHistColInt`: the value histogram typed INT64.
* `SqlMinNullAsZero`: `MIN(LENGTH(IFNULL(name, '')))`, which turns the NULL
  row of an entryless directory into a length of 0.
* `LegacyTimeColsDupStat`: the legacy time columns with the stdev row named
  `mean`.

## 5. Bounds, symmetry and fairness

* `MC_LongitudinalSnapshot` and `MC_LegacySnapshot` bounds:
  * 3 invocations. This is enough for a complete run, a failed or killed run,
    and a recovering run.
  * 2 paths. `both` is the common parent `top` of indexes `d1` and `d2`. `top`
    has a treesummary row but no summary row. `one` is `d1` alone.
  * `d2` has no treesummary row, which is the case the legacy `-T` mishandles.
  * `MC_LegacySnapshot` adds `e2` below `d2`, with both rows. The walker
    then has to order a parent before its child, and pruning `d2` loses a
    subtree, not only a directory.
  * 2 threads, so rows are spread over two intermediate tables.
* The runs with a liveness property (`snapshot_store`, `legacy_store`) do not
  use symmetry. With symmetry, TLC's liveness checking is not reliable.
  `snapshot_metadata` and `legacy_tsum_prune` use `SYMMETRY` over the threads, which are
  interchangeable model values.
* Fairness, in `FairSpec` of both snapshot modules:
  * Weak fairness for every walker step (`WalkDir`, `CreateAggregate`,
    `MergeThread`, `CreateView`) and every finalizer statement. The finalizer is
    straight-line Python code. For the walker this is the contract that
    `communicate()` relies on: it has no timeout, so a hung walker hangs
    `run()`.
  * No fairness for `EngineFail`, `Interrupt` or `Run`: nothing forces a
    failure, a signal or another invocation.
* `CHECK_DEADLOCK FALSE`: the caller stops after the last invocation, and the
  program has then exited. A separate check of `ENABLED Next \/ Done` over the
  same state space confirmed that no state other than "all invocations
  returned" is terminal.
* SchemaCompiler enumerates:
  * two reference times;
  * bucket counts 0..7;
  * an atime of one hour and one of 2023 in epoch seconds.
* SnapshotView: 4 directories on 3 filesystems (`top` on the host, `d1` and
  `e1` on `fa`, `d2` on `fb`), and inode numbers `{1, 2}`. Two numbers are
  enough for a collision across filesystems, and `d1`/`e1` keep them apart
  within one.
* CumulativeTimes enumerates lines built from:
  * 3 keys;
  * 3 separators;
  * 3 values;
  * 2 units.

## 6. Not modelled, and why

* Bucket sizer: `math.log(B, 2)` is floating point. Evaluating the expression
  directly shows `2**29 -> 30`, `2**31 -> 32`, `2**39 -> 40`, `2**47 -> 48` and
  `2**50 + 1 -> 50`, against `ceil(log2)` of 29, 31, 39, 47 and 51. The default
  `2**50` is correct. TLC cannot model IEEE rounding, so this is recorded as a
  hazard only.
* The other statistic columns of `-E`. The `dmin`/`dmax`/`dtot` columns are
  values the index recorded, read as they are. `AVG` returns a double.
  `median`, `mode_count`, `stdevp`, `time_hist`, `log2_hist` and `mode_hist`
  are gufi_query built-ins that are not defined in this repository.
* Argument parsing, `print_query`, and stdout redirection.
* `create_table`, `insert` and `format_value` of `common.py`, and
  `tests/utils.py`. They format SQL text from column lists whose types are
  defined outside this repository (see the `common.py:85` hazard). `tests/utils.py` tests hashdb code that
  is not in this repository.
* The legacy view's duplicate column names (`SELECT *` over both tables repeats
  `inode`, `uid`, `gid` and others). SQLite renames them (`inode:1`) rather
  than failing, so this is cosmetic and is not a run.
