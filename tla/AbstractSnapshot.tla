--------------------------- MODULE AbstractSnapshot ---------------------------
(***************************************************************************)
(* What a snapshot generator promises about one output database over      *)
(* repeated invocations (spec sections 3, 6 and 7), without threads,       *)
(* fragments, intermediate tables or SQL statements.                       *)
(*                                                                         *)
(* The store holds the complete snapshot of one invocation or none.  An    *)
(* invocation either installs its own snapshot and returns 0, in one       *)
(* step, or fails.  A failing invocation leaves the store as it was,       *)
(* except that one with --replace may have discarded the earlier snapshot  *)
(* first; and --replace never fails because of what an earlier            *)
(* invocation left behind.  Every invocation returns.                      *)
(***************************************************************************)
EXTENDS Naturals, Sequences

CONSTANTS Paths, MaxRuns

VARIABLES
    store,   \* invocation whose complete snapshot the store holds, 0: none
    busy,    \* an invocation is running
    runs     \* runs[i]: path, replace flag and result of invocation i

avars == <<store, busy, runs>>

\* Ways an invocation fails: the walker's own failure, a fragment or the
\* finalizer hitting an existing object, a signal.
Failures == {"engine_failed", "engine_exists", "fin_exists", "killed"}
\* The failures an invocation with --replace may have.
ReplaceFailures == {"engine_failed", "killed"}

Last == runs[Len(runs)]

Init ==
    /\ store = 0
    /\ busy = FALSE
    /\ runs = <<>>

\* An invocation starts against the store.
Start(p, r) ==
    /\ ~busy
    /\ Len(runs) < MaxRuns
    /\ runs' = Append(runs, [path |-> p, replace |-> r, result |-> "running"])
    /\ busy' = TRUE
    /\ UNCHANGED store

\* An invocation with --replace discards the snapshot the store holds.
Clear ==
    /\ busy
    /\ Last.replace
    /\ store' = 0
    /\ UNCHANGED <<busy, runs>>

\* The invocation installs its snapshot and returns 0.
Install ==
    /\ busy
    /\ store' = Len(runs)
    /\ runs' = [runs EXCEPT ![Len(runs)].result = "ok"]
    /\ busy' = FALSE

\* The invocation fails and leaves the store alone.
Fail(res) ==
    /\ busy
    /\ res \in IF Last.replace THEN ReplaceFailures ELSE Failures
    /\ runs' = [runs EXCEPT ![Len(runs)].result = res]
    /\ busy' = FALSE
    /\ UNCHANGED store

Finish == Install \/ \E res \in Failures : Fail(res)

Next ==
    \/ \E p \in Paths, r \in BOOLEAN : Start(p, r)
    \/ Clear
    \/ Finish

\* A running invocation is not left hanging.
Spec == Init /\ [][Next]_avars /\ WF_avars(Finish)

=============================================================================
