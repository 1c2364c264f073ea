---------------------------- MODULE LegacySnapshot ----------------------------
(***************************************************************************)
(* Repeated invocations of the older generator, run() of                   *)
(* contrib/longitudinal_snapshot.py, against one output database.  It is   *)
(* the run() of DT.py (module LongitudinalSnapshot) without --replace and  *)
(* with three differences of its own:                                      *)
(*                                                                         *)
(*   -T  INSERT INTO intermediate_treesummary SELECT * FROM treesummary;   *)
(*       SELECT 1 FROM treesummary;                                        *)
(*       whose result has no row for a directory whose treesummary table   *)
(*       is empty (DT.py ends -T with SELECT 1, which always has one);     *)
(*   -K  CREATE TABLE summary before CREATE TABLE treesummary;             *)
(*   the finalizer has no DROP: it starts at CREATE TABLE metadata.        *)
(*                                                                         *)
(* What gufi_query does with the result of -T is not defined in this       *)
(* repository.  TPrunes says whether it skips a directory, and the         *)
(* directories below it, when -T returns no row.                           *)
(***************************************************************************)
EXTENDS Naturals, Sequences, FiniteSets, Bags

CONSTANTS
    Nodes, Workers, Paths, Scope, HasSummary, HasTreeSum, MaxRuns,
    Below,     \* Below[n]: the directories below directory n
    TPrunes    \* gufi_query skips a subtree whose -T returns no row

ASSUME Below \in [Nodes -> SUBSET Nodes] /\ TPrunes \in BOOLEAN

VARIABLES objects, rows, pending, inter, todo, merged, pc, hist

vars == <<objects, rows, pending, inter, todo, merged, pc, hist>>

L == INSTANCE LongitudinalSnapshot

-----------------------------------------------------------------------------
(* Plausible bugs of the definitions below.                                *)

\* run() without `if rc: return rc`.
EngineExitNoCheck(rc) == pc' = "create" /\ UNCHANGED hist

\* -K written with CREATE TABLE IF NOT EXISTS.
CreateAggregateIfNotExists ==
    /\ pc = "walk"
    /\ todo = {}
    /\ objects' = objects \cup {L!SUMMARY, L!TREESUMMARY}
    /\ pc' = "merge"
    /\ UNCHANGED <<rows, pending, inter, todo, merged, hist>>

\* -J forgets its INSERT INTO treesummary.
MergeThreadSummaryOnly(w) == L!MergeThreadSummaryOnly(w)

-----------------------------------------------------------------------------
\* run(): no --replace; arguments, fragments, Popen.
Run(p) == L!Run(p, FALSE)

\* `if rc: return rc`; on status 0 the finalizer starts with CREATE TABLE.
EngineExit(rc) ==
    IF rc = "ok" THEN pc' = "create" /\ UNCHANGED hist
                 ELSE L!Return(rc)

\* gufi_query on directory n in thread w, once the directories above it
\* are done: -T, and unless its SELECT 1 FROM treesummary returned no row
\* and gufi_query prunes on that, -E.  A pruned directory's subtree is
\* not walked.
WalkDir(w, n) ==
    /\ \A m \in todo : n \notin Below[m]
    /\ IF TPrunes /\ n \notin HasTreeSum
       THEN /\ pc = "walk"
            /\ n \in todo
            /\ todo' = todo \ ({n} \cup Below[n])
            /\ UNCHANGED <<objects, rows, pending, inter, merged, pc, hist>>
       ELSE L!WalkDir(w, n)

\* -K: CREATE TABLE summary; CREATE TABLE treesummary.  No table is ever
\* dropped, so a table that does not exist has no rows.
CreateAggregate ==
    LET smFails == L!SUMMARY \in objects
        tsFails == ~smFails /\ L!TREESUMMARY \in objects
    IN
    /\ pc = "walk"
    /\ todo = {}
    /\ objects' = IF smFails THEN objects
                  ELSE objects \cup {L!SUMMARY, L!TREESUMMARY}
    /\ IF smFails \/ tsFails THEN EngineExit("engine_exists")
                             ELSE pc' = "merge" /\ UNCHANGED hist
    /\ UNCHANGED <<rows, pending, inter, todo, merged>>

\* -G: CREATE VIEW snapshot, failing when it exists; gufi_query exits.
CreateView ==
    /\ pc = "merge"
    /\ merged = Workers
    /\ objects' = objects \cup {L!SNAPSHOT}
    /\ EngineExit(IF L!SNAPSHOT \in objects THEN "engine_exists" ELSE "ok")
    /\ UNCHANGED <<rows, pending, inter, todo, merged>>

\* -J in thread w: INSERT INTO summary ...; INSERT INTO treesummary ...
MergeThread(w) == L!MergeThread(w)

\* gufi_query dies before finishing; run() returns its status.
EngineFail == L!EngineFail

-----------------------------------------------------------------------------
(* Finalizer: `with sqlite3.connect(outname)`: CREATE TABLE metadata      *)
(* (autocommitted, raising when it exists), INSERT, commit; a signal     *)
(* between two statements rolls back the INSERT.  The statements are      *)
(* those of DT.py without its DROP.                                        *)
CreateMetadata == L!CreateMetadata
InsertMetadata == L!InsertMetadata
Commit         == L!Commit
Interrupt      == L!Interrupt

-----------------------------------------------------------------------------
\* No output database yet: sqlite3.connect creates it.
Init == L!Init

Next ==
    \/ \E p \in Paths : Run(p)
    \/ \E w \in Workers, n \in Nodes : WalkDir(w, n)
    \/ CreateAggregate
    \/ \E w \in Workers : MergeThread(w)
    \/ CreateView
    \/ EngineFail
    \/ CreateMetadata
    \/ InsertMetadata
    \/ Commit
    \/ Interrupt

Spec == Init /\ [][Next]_vars

\* As in LongitudinalSnapshot: the walker keeps going until it exits and
\* the finalizer's statements run once reached; failures, signals and new
\* invocations are never forced.
Fairness ==
    /\ \A w \in Workers, n \in Nodes : WF_vars(WalkDir(w, n))
    /\ WF_vars(CreateAggregate)
    /\ \A w \in Workers : WF_vars(MergeThread(w))
    /\ WF_vars(CreateView)
    /\ WF_vars(CreateMetadata)
    /\ WF_vars(InsertMetadata)
    /\ WF_vars(Commit)

FairSpec == Spec /\ Fairness

-----------------------------------------------------------------------------
(* Properties                                                              *)

\* When run() has returned 0, the store holds exactly that invocation's
\* snapshot: a summary row for every directory below the path that has
\* one, a treesummary row for every directory that has one, the view and
\* one metadata row.
SnapshotOfLastRun == L!SnapshotOfLastRun

\* A failed invocation leaves a complete snapshot that was in the store
\* before it untouched: -K fails on the existing summary table before
\* -J can add this invocation's rows to it.
FailedRunKeepsSnapshot == L!FailedRunKeepsSnapshot


\* The legacy run() implements the same abstract store as DT.py's, with
\* no invocation ever discarding a snapshot (there is no --replace), and
\* under Fairness every invocation returns.
ImplementsAbstract == L!ImplementsAbstract

=============================================================================
