------------------------- MODULE LongitudinalSnapshot -------------------------
(***************************************************************************)
(* Repeated invocations of the longitudinal snapshot generator (run() in   *)
(* contrib/longitudinal_snapshot/DT.py) against one output database.       *)
(*                                                                         *)
(* One invocation assembles the six SQL fragments, hands them to the       *)
(* external tree walker (gufi_query), blocks until it exits and, when it   *)
(* exited with status 0, writes the one-row metadata table.  The walker    *)
(* is modelled from its contract (spec sections 4.4, 5 and 6): -I creates  *)
(* the intermediate tables of every thread, -T and -E run once per         *)
(* directory in whichever thread picks it up, -K creates the final tables, *)
(* -J merges every thread's intermediate tables into them after the walk,  *)
(* -G creates the view.  A fragment that fails stops the walker with a     *)
(* non-zero status; the walker can also die for reasons of its own.        *)
(*                                                                         *)
(* Rows are abstracted to <<directory, invocation>>: the statistics a row  *)
(* holds are a function of the directory at the time of the invocation.   *)
(***************************************************************************)
EXTENDS Naturals, Sequences, FiniteSets, Bags

CONSTANTS
    Nodes,       \* directories of the indexes that may be snapshotted
    Workers,     \* gufi_query threads (--threads)
    Paths,       \* index paths the caller may pass as `index`
    Scope,       \* Scope[p]: the directories gufi_query walks below path p
    HasSummary,  \* directories whose database has a summary row
    HasTreeSum,  \* directories whose database has a treesummary row
    MaxRuns      \* bound on the number of invocations

ASSUME Scope \in [Paths -> SUBSET Nodes]
ASSUME HasSummary \subseteq Nodes /\ HasTreeSum \subseteq Nodes
ASSUME MaxRuns \in Nat \ {0}

\* Names of the objects the snapshot creates in the output database.
SUMMARY     == "summary"
TREESUMMARY == "treesummary"
SNAPSHOT    == "snapshot"
METADATA    == "metadata"
Objects     == {SUMMARY, TREESUMMARY, SNAPSHOT, METADATA}
Tables      == {SUMMARY, TREESUMMARY, METADATA}

\* Control points of one invocation.  "walk" and "merge" are inside
\* gufi_query; the others are the finalizer's statements in run().
EnginePcs == {"walk", "merge"}
FinPcs    == {"drop", "create", "insert", "commit"}
Pcs       == {"idle"} \cup EnginePcs \cup FinPcs

\* How an invocation returned: 0, a non-zero status of the walker (its own
\* failure, or a fragment that hit an existing object), the exception of
\* the finalizer's CREATE TABLE, or killed by a signal.
Results == {"running", "ok", "engine_failed", "engine_exists",
            "fin_exists", "killed"}

VARIABLES
    objects,   \* objects that exist in the output database
    rows,      \* rows[t]: committed rows of table t, a bag
    pending,   \* the uncommitted metadata row (0 when none)
    inter,     \* inter[w]: thread w's intermediate tables
    todo,      \* directories gufi_query has not processed yet
    merged,    \* threads whose intermediate tables -J has merged
    pc,        \* control point of the current invocation
    hist       \* hist[i]: path, replace flag and result of invocation i

vars == <<objects, rows, pending, inter, todo, merged, pc, hist>>

-----------------------------------------------------------------------------
(* Plausible bugs of the definitions below, each used in place of one of  *)
(* them to confirm that a property detects it.                            *)

\* -J copies columns by position: intermediate and final columns disagree.
RowSwapped(n, i) == <<i, n>>

\* run() without `if rc: return rc`: the metadata is written anyway.
EngineExitNoCheck(rc) == pc' = "drop" /\ UNCHANGED hist

\* -K in replace mode forgets DROP TABLE IF EXISTS summary.
DropAggregateKeepSummary(replace, objs) ==
    IF replace THEN objs \ {TREESUMMARY} ELSE objs

\* -K drops the final tables whether or not --replace was given.
DropAggregateAlways(replace, objs) == objs \ {TREESUMMARY, SUMMARY}

\* -J forgets INSERT INTO treesummary SELECT * FROM intermediate_treesummary.
MergeThreadSummaryOnly(w) ==
    /\ pc = "merge"
    /\ w \notin merged
    /\ merged' = merged \cup {w}
    /\ rows' = [rows EXCEPT ![SUMMARY] = @ (+) inter[w].sum]
    /\ UNCHANGED <<objects, pending, inter, todo, pc, hist>>

-----------------------------------------------------------------------------
Row(n, i) == <<n, i>>

Cur == hist[Len(hist)]

-----------------------------------------------------------------------------
(* Per-directory fragments.                                                *)

\* -T: INSERT INTO intermediate_treesummary SELECT * FROM treesummary
TreeSummaryRows(n, i) ==
    IF n \in HasTreeSum THEN SetToBag({Row(n, i)}) ELSE EmptyBag

\* -E: INSERT INTO intermediate_summary SELECT ... FROM vrsummary LEFT JOIN
\* vrpentries ON inode == pinode GROUP BY inode: one row for a directory
\* with a summary row, with or without entries; none for a directory (the
\* common parent of several indexes) whose summary table is empty.
SummaryRows(n, i) ==
    IF n \in HasSummary THEN SetToBag({Row(n, i)}) ELSE EmptyBag

\* What a complete snapshot of invocation i holds.
ExpectedSummary(i) ==
    SetToBag({Row(n, i) : n \in Scope[hist[i].path] \cap HasSummary})
ExpectedTreeSum(i) ==
    SetToBag({Row(n, i) : n \in Scope[hist[i].path] \cap HasTreeSum})

\* The store holds exactly the snapshot invocation i produced.
Complete(i) ==
    /\ objects = Objects
    /\ rows[SUMMARY] = ExpectedSummary(i)
    /\ rows[TREESUMMARY] = ExpectedTreeSum(i)
    /\ rows[METADATA] = SetToBag({i})

\* History: the invocation whose complete snapshot the store holds (0 if
\* none), recorded when an invocation starts.
Snapshotted ==
    IF \E i \in DOMAIN hist : Complete(i)
    THEN CHOOSE i \in DOMAIN hist : Complete(i) ELSE 0

-----------------------------------------------------------------------------
(* Invocation: parse the arguments, assemble I, T, E, K, J, G and start    *)
(* gufi_query; -I gives every thread empty intermediate tables.           *)
Run(p, replace) ==
    /\ pc = "idle"
    /\ Len(hist) < MaxRuns
    /\ hist' = Append(hist, [path |-> p, replace |-> replace,
                             result |-> "running", before |-> Snapshotted])
    /\ inter' = [w \in Workers |-> [sum |-> EmptyBag, ts |-> EmptyBag]]
    /\ todo' = Scope[p]
    /\ merged' = {}
    /\ pc' = "walk"
    /\ UNCHANGED <<objects, rows, pending>>

\* gufi_query processes directory n in thread w: -T, then -E.
WalkDir(w, n) ==
    /\ pc = "walk"
    /\ n \in todo
    /\ todo' = todo \ {n}
    /\ inter' = [inter EXCEPT
                   ![w].ts  = @ (+) TreeSummaryRows(n, Len(hist)),
                   ![w].sum = @ (+) SummaryRows(n, Len(hist))]
    /\ UNCHANGED <<objects, rows, pending, merged, pc, hist>>

\* Set the result of the current invocation and return from run().
Return(res) ==
    /\ hist' = [hist EXCEPT ![Len(hist)].result = res]
    /\ pc' = "idle"

\* run(): `if rc: return rc`.  The finalizer is reached only on status 0.
EngineExit(rc) ==
    IF rc = "ok" THEN pc' = "drop" /\ UNCHANGED hist
                 ELSE Return(rc)

\* -K: in replace mode DROP TABLE IF EXISTS treesummary, summary; then
\* CREATE TABLE treesummary; CREATE TABLE summary.  A CREATE of an existing
\* table fails the fragment and gufi_query exits non-zero.
DropAggregate(replace, objs) ==
    IF replace THEN objs \ {TREESUMMARY, SUMMARY} ELSE objs

CreateAggregate ==
    LET dropped == DropAggregate(Cur.replace, objects)
        tsFails == TREESUMMARY \in dropped
        smFails == ~tsFails /\ SUMMARY \in dropped
    IN
    /\ pc = "walk"
    /\ todo = {}
    /\ objects' = IF tsFails THEN dropped
                  ELSE IF smFails THEN dropped \cup {TREESUMMARY}
                  ELSE dropped \cup {TREESUMMARY, SUMMARY}
    /\ rows' = [t \in Tables |-> IF t \in dropped THEN rows[t] ELSE EmptyBag]
    /\ IF tsFails \/ smFails THEN EngineExit("engine_exists")
                             ELSE pc' = "merge" /\ UNCHANGED hist
    /\ UNCHANGED <<pending, inter, todo, merged>>

\* -J in thread w: INSERT INTO treesummary SELECT * FROM
\* intermediate_treesummary; INSERT INTO summary SELECT * FROM
\* intermediate_summary.
MergeThread(w) ==
    /\ pc = "merge"
    /\ w \notin merged
    /\ merged' = merged \cup {w}
    /\ rows' = [rows EXCEPT ![TREESUMMARY] = @ (+) inter[w].ts,
                            ![SUMMARY]     = @ (+) inter[w].sum]
    /\ UNCHANGED <<objects, pending, inter, todo, pc, hist>>

\* -G: in replace mode DROP VIEW IF EXISTS snapshot; CREATE VIEW snapshot.
\* gufi_query then exits; its status is what run() tests.
CreateView ==
    LET dropped == IF Cur.replace THEN objects \ {SNAPSHOT} ELSE objects
    IN
    /\ pc = "merge"
    /\ merged = Workers
    /\ objects' = dropped \cup {SNAPSHOT}
    /\ EngineExit(IF SNAPSHOT \in dropped THEN "engine_exists" ELSE "ok")
    /\ UNCHANGED <<rows, pending, inter, todo, merged>>

\* gufi_query dies (I/O error, signal) before finishing: what it already
\* wrote to the output database stays.
EngineFail ==
    /\ pc \in EnginePcs
    /\ EngineExit("engine_failed")
    /\ UNCHANGED <<objects, rows, pending, inter, todo, merged>>

-----------------------------------------------------------------------------
(* Finalizer: sqlite3.connect(outname); DDL runs in autocommit mode, the   *)
(* INSERT opens a transaction that conn.commit() ends.                    *)

\* if args.replace: DROP TABLE IF EXISTS metadata
DropMetadata ==
    /\ pc = "drop"
    /\ objects' = IF Cur.replace THEN objects \ {METADATA} ELSE objects
    /\ rows' = IF Cur.replace THEN [rows EXCEPT ![METADATA] = EmptyBag]
                              ELSE rows
    /\ pc' = "create"
    /\ UNCHANGED <<pending, inter, todo, merged, hist>>

\* CREATE TABLE metadata: raises sqlite3.OperationalError when it exists;
\* the exception leaves run() and the process exits with status 1.
CreateMetadata ==
    /\ pc = "create"
    /\ IF METADATA \in objects
       THEN Return("fin_exists") /\ UNCHANGED objects
       ELSE objects' = objects \cup {METADATA} /\ pc' = "insert"
            /\ UNCHANGED hist
    /\ UNCHANGED <<rows, pending, inter, todo, merged>>

\* INSERT INTO metadata VALUES (timestamp, index, notes)
InsertMetadata ==
    /\ pc = "insert"
    /\ pending' = Len(hist)
    /\ pc' = "commit"
    /\ UNCHANGED <<objects, rows, inter, todo, merged, hist>>

\* conn.commit(); return 0
Commit ==
    /\ pc = "commit"
    /\ rows' = [rows EXCEPT ![METADATA] = @ (+) SetToBag({pending})]
    /\ pending' = 0
    /\ Return("ok")
    /\ UNCHANGED <<objects, inter, todo, merged>>

\* A signal ends the process between two statements of the finalizer: the
\* open transaction is rolled back, the DDL already run stays.
Interrupt ==
    /\ pc \in FinPcs
    /\ pending' = 0
    /\ Return("killed")
    /\ UNCHANGED <<objects, rows, inter, todo, merged>>

-----------------------------------------------------------------------------
Init ==
    /\ objects = {}
    /\ rows = [t \in Tables |-> EmptyBag]
    /\ pending = 0
    /\ inter = [w \in Workers |-> [sum |-> EmptyBag, ts |-> EmptyBag]]
    /\ todo = {}
    /\ merged = {}
    /\ pc = "idle"
    /\ hist = <<>>

Next ==
    \/ \E p \in Paths, r \in BOOLEAN : Run(p, r)
    \/ \E w \in Workers, n \in Nodes : WalkDir(w, n)
    \/ CreateAggregate
    \/ \E w \in Workers : MergeThread(w)
    \/ CreateView
    \/ EngineFail
    \/ DropMetadata
    \/ CreateMetadata
    \/ InsertMetadata
    \/ Commit
    \/ Interrupt

\* The caller stops invoking after MaxRuns invocations.
Done == pc = "idle" /\ Len(hist) = MaxRuns

Spec == Init /\ [][Next]_vars

\* Every statement of the finalizer is sequential code that runs once it
\* is reached, and gufi_query, once started, goes on walking, creating and
\* merging until it exits (its contract: communicate() has no timeout).
\* Nothing forces the walker to fail, a signal to arrive or the caller to
\* start another invocation.
Fairness ==
    /\ \A w \in Workers, n \in Nodes : WF_vars(WalkDir(w, n))
    /\ WF_vars(CreateAggregate)
    /\ \A w \in Workers : WF_vars(MergeThread(w))
    /\ WF_vars(CreateView)
    /\ WF_vars(DropMetadata)
    /\ WF_vars(CreateMetadata)
    /\ WF_vars(InsertMetadata)
    /\ WF_vars(Commit)

FairSpec == Spec /\ Fairness

-----------------------------------------------------------------------------
(* Properties                                                              *)

RowBag(B) == IsABag(B) /\ BagToSet(B) \subseteq Nodes \X (1..MaxRuns)

TypeOK ==
    /\ objects \subseteq Objects
    /\ DOMAIN rows = Tables
    /\ RowBag(rows[SUMMARY]) /\ RowBag(rows[TREESUMMARY])
    /\ IsABag(rows[METADATA]) /\ BagToSet(rows[METADATA]) \subseteq 1..MaxRuns
    /\ pending \in 0..MaxRuns
    /\ \A w \in Workers : RowBag(inter[w].sum) /\ RowBag(inter[w].ts)
    /\ todo \subseteq Nodes
    /\ merged \subseteq Workers
    /\ pc \in Pcs
    /\ Len(hist) <= MaxRuns
    /\ \A i \in DOMAIN hist : hist[i].path \in Paths /\ hist[i].result \in Results

\* When run() has returned 0, the output database holds one summary row per
\* directory of that invocation's index that has a summary row (none for a
\* common parent of several indexes), one treesummary row per directory
\* with a treesummary row, the view, and a metadata table whose only row is
\* that invocation's -- whatever the earlier invocations left behind.
SnapshotOfLastRun ==
    (pc = "idle" /\ hist # <<>> /\ Cur.result = "ok") => Complete(Len(hist))

\* With --replace, no fragment and no finalizer statement fails because a
\* table or view of an earlier invocation (complete, failed or killed)
\* already exists: DT.py drops summary, treesummary, snapshot and metadata.
ReplaceNeverCollides ==
    \A i \in DOMAIN hist :
        hist[i].replace => hist[i].result \notin {"engine_exists", "fin_exists"}

\* An invocation without --replace that fails leaves a complete snapshot
\* that was in the store before it untouched.
FailedRunKeepsSnapshot ==
    (/\ pc = "idle" /\ hist # <<>>
     /\ ~Cur.replace /\ Cur.result # "ok" /\ Cur.before # 0)
        => Complete(Cur.before)

\* The metadata row names the invocation whose tables the store holds: a
\* store whose metadata table has the single row of invocation i holds
\* invocation i's complete snapshot.
MetadataDescribesStore ==
    (pc = "idle") =>
        \A i \in 1..MaxRuns : rows[METADATA] = SetToBag({i}) => Complete(i)


\* The store seen as AbstractSnapshot sees it: the invocation whose
\* complete snapshot it holds, whether run() is running, and what each
\* invocation returned.
Abstract == INSTANCE AbstractSnapshot WITH
    store <- Snapshotted,
    busy  <- pc # "idle",
    runs  <- [i \in DOMAIN hist |->
                [path |-> hist[i].path, replace |-> hist[i].replace,
                 result |-> hist[i].result]]

\* run() implements the abstract store: a complete snapshot appears only
\* when the invocation that produced it returns 0, and never disappears
\* except under an invocation with --replace; a failing invocation leaves
\* the store alone; and, under Fairness, every invocation returns.
ImplementsAbstract == Abstract!Spec

=============================================================================
