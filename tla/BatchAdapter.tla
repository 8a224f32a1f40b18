----------------------------- MODULE BatchAdapter -----------------------------
(***************************************************************************)
(* XsTarget inside RunBatch: the batch runner takes the adapter's call for *)
(* a seed as a few steps of a worker and its seven statuses as four.  Here *)
(* the one call of a batch of one seed runs statement by statement, in any *)
(* environment, and RunBatch's worker is the specification of what it may  *)
(* make of the seed's log and of its result.                               *)
(***************************************************************************)
EXTENDS XsTarget

ASSUME BatchAdapterAssumption == 1 \in Calls

\* What RunBatch calls the adapter's statements.
TaskOf(statement) ==
    IF statement \in {"out", "check", "open", "launch"} THEN "starting"
    ELSE IF statement = "wait" THEN "emu"
    ELSE IF statement = "read" THEN "ended"
    ELSE IF statement = "returned" THEN "done" ELSE "crashed"

\* The four statuses _run_exit_code and the ledger properties tell apart.
StatusOf(status) ==
    IF status \in {"none", "ran", "timeout", "error"} THEN status ELSE "bad_trap"

\* What the log is worth once the emulator does not write to it any more: a
\* replay of its failure makes it no better.
Verdict == IF ClassifyResult(log, rc[1]) = "ran" THEN "good" ELSE "bad"

LogOf(r, b, verdict) ==
    [run |-> r, bin |-> b, verdict |-> verdict, mixed |-> FALSE]

LogSeen ==
    IF emu[1] # "none"
    THEN LogOf(1, 1, IF pc[1] = "wait" THEN "none" ELSE Verdict)
    ELSE IF pc[1] = "returned" THEN LogOf(1, 0, "none") ELSE LogOf(0, 0, "none")

\* While the worker waits the replay is part of its emulator.
StraySeen ==
    IF child[1] /\ pc[1] \in {"read", "returned", "raised"}
    THEN {[seed |-> 1, run |-> 1, kind |-> "replay"]} ELSE {}

Task == TaskOf(pc[1])
Result == StatusOf(result[1])

Batch ==
    INSTANCE RunBatch WITH
        N <- 1, Jobs <- 1, MaxRuns <- 1, MaxStrays <- 1,
        run <- 1, pc <- "serial", cur <- 2,
        bin <- [s \in 1..1 |-> 1],
        log <- [s \in 1..1 |-> LogSeen],
        stray <- StraySeen,
        task <- [s \in 1..1 |-> Task],
        result <- [s \in 1..1 |-> Result],
        meta <- [s \in 1..1 |-> [run |-> 0, status |-> "none"]],
        ledger <- [run |-> 0, status |-> [s \in 1..1 |-> "none"]],
        entry <- [s \in 1..1 |-> "none"],
        exit <- "none"

\* The batch has the seed directory to itself: no other call was ever made.
Alone == \A c \in Calls \ {1} : pc[c] = "out"

\* Until its generator is killed, and while the batch has the directory to
\* itself, every step of a call and of what it leaves behind is one of
\* RunBatch's worker on a seed or of a stray, or invisible to it: once the
\* emulator has been reaped the log gets no better, the result is "ran" only
\* over a log that shows it, and every way the call may raise is one RunBatch
\* reckons with.  (An adapter that cannot be loaded is the concern of OpenBatch
\* and PlanSeed.)
AdapterIsWorker ==
    [][Alone' /\ pc[1] # "out" /\ pc'[1] # "killed" =>
          \/ Batch!Worker(1)
          \/ \E e \in StraySeen : Batch!StrayGoesOn(e)
          \/ UNCHANGED Batch!vars]_vars
=============================================================================
