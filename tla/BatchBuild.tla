------------------------------ MODULE BatchBuild ------------------------------
(***************************************************************************)
(* SeedBuild inside RunBatch: the batch runner takes the build of a seed   *)
(* as one step, BuildSeed, and an interrupted one as a build half done.    *)
(* Here the seed directory of a batch of one seed is built statement by    *)
(* statement, and RunBatch's own actions are the specification of what the *)
(* runner may then find.                                                   *)
(***************************************************************************)
EXTENDS SeedBuild

VARIABLE
    before           \* history: what test.bin was when the attempt started

buildVars == <<vars, before>>

BuildInit == Init /\ before = 0

BuildNext == Next /\ before' = IF pc = "idle" THEN ver["bin"] ELSE before

BuildSpec == BuildInit /\ [][BuildNext]_buildVars

----------------------------------------------------------------------------
(* The batch of the one seed, as RunBatch sees it *)

\* test.bin does not change for the runner until the build is over.
SeenBin == [s \in 1..1 |-> IF pc = "idle" THEN ver["bin"] ELSE before]

BatchPc ==
    CASE pc # "idle"                            -> "build"
      [] pc = "idle" /\ outcome = "built"       -> "plan"
      [] pc = "idle" /\ outcome \in Causes      -> "report"
      [] pc = "idle" /\ outcome \in {"none", "interrupted"} -> "idle"

Prepared == pc = "idle" /\ outcome = "built"

Batch ==
    INSTANCE RunBatch WITH
        N <- 1, Jobs <- 1, MaxRuns <- MaxBuilds, MaxStrays <- 0,
        bin <- SeenBin,
        run <- attempt,
        pc <- BatchPc,
        cur <- IF Prepared THEN 2 ELSE 1,
        task <- [s \in 1..1 |-> IF Prepared THEN "prepared" ELSE "none"],
        log <- [s \in 1..1 |-> [run |-> 0, bin |-> 0, verdict |-> "none",
                               mixed |-> FALSE]],
        stray <- {},
        meta <- [s \in 1..1 |-> [run |-> 0, status |-> "none"]],
        ledger <- [run |-> 0, status |-> [s \in 1..1 |-> "none"]],
        result <- [s \in 1..1 |-> "none"],
        entry <- [s \in 1..1 |-> "none"],
        exit <- "none"

\* Every way a build can end is a way RunBatch lets a build end: prepared
\* with a test.bin of this very run, reported with test.bin gone, as it was
\* or new, or cut short with one of the three.  A build that left anything
\* else (an older run's binary where a newer one was, a prepared seed with a
\* binary of another harness) would make what RunBatch shows of the ledger
\* void.
BuildIsOneStep ==
    [][pc # "idle" /\ pc' = "idle" =>
          \/ Batch!BuildSeed
          \/ outcome' = "interrupted" /\ Batch!HalfDone]_buildVars
=============================================================================
