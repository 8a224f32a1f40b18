------------------------------ MODULE RunBatch ------------------------------
(***************************************************************************)
(* run_suite_batch of run_batch.py, called again and again with the same   *)
(* --batch-id (the Makefile's repro targets do), with its thread pool, the *)
(* adapter call of every worker, the files the batch leaves behind and the *)
(* emulators that outlive it.                                              *)
(* The seeds are 1..N in input order: normalize_seeds made them distinct.  *)
(***************************************************************************)
EXTENDS Naturals, FiniteSets

CONSTANTS
    N,               \* number of seeds of the batch
    Jobs,            \* the most workers --jobs asks for
    MaxRuns,         \* bound on the invocations with the same batch id
    MaxStrays        \* bound on the emulators and replays left at a time

ASSUME BatchAssumption ==
    /\ N \in Nat \ {0}
    /\ Jobs \in Nat \ {0}
    /\ MaxRuns \in Nat \ {0}
    /\ MaxStrays \in Nat

Seeds == 1..N

VARIABLES
    \* the batch directory, which outlives an invocation
    bin,             \* bin[s]: run whose build made test.bin, 0 when absent
    log,             \* log[s]: what stdout.log says, and who wrote it
    stray,           \* emulators and replays whose adapter call is over
    meta,            \* meta[s]: run_meta.json
    ledger,          \* batch_meta.json
    \* the invocation
    run,             \* number of the newest invocation
    pc,              \* statement of the main thread, "idle" between runs
    cur,             \* seed of the preparation loop
    task,            \* task[s]: where the seed is
    result,          \* result[s]: status of the entry a task returned
    entry,           \* entry[s]: status in entries_by_seed
    exit             \* how the newest invocation ended

dirVars == <<bin, log, meta, ledger, stray>>
taskVars == <<task, result>>
mainVars == <<run, pc, cur, entry, exit>>
vars == <<dirVars, mainVars, taskVars>>

\* "ran" also stands for a clean exit of the simulation, "bad_trap" for every
\* other status _classify_result can give; a "good" log is one it calls "ran".
Status == {"ran", "bad_trap", "timeout", "error"}
Verdicts == {"good", "bad"}

\* A log names the run that opened it, the run that built the binary whose
\* output it takes, 0 when nothing was started, and what the verdict lines in
\* it amount to; it is mixed when an emulator of another run has printed
\* into it since it was opened.
Opened(r, b) == [run |-> r, bin |-> b, verdict |-> "none", mixed |-> FALSE]
NoMeta == [run |-> 0, status |-> "none"]
NoLedger == [run |-> 0, status |-> [s \in Seeds |-> "none"]]

LogContents ==
    [run : 0..MaxRuns, bin : 0..MaxRuns, verdict : Verdicts \cup {"none"},
     mixed : BOOLEAN]

\* What may still print into a log: an emulator whose generator was killed
\* alone, or the child it forked to replay the end of a failed simulation.
Stray(s, r, kind) == [seed |-> s, run |-> r, kind |-> kind]
Strays == [seed : Seeds, run : 0..MaxRuns, kind : {"emu", "replay"}]
MetaContents == [run : 0..MaxRuns, status : Status \cup {"none"}]
LedgerContents == [run : 0..MaxRuns, status : [Seeds -> Status \cup {"none"}]]

TaskStates == {"none", "prepared", "queued", "starting", "emu", "ended",
               "crashed", "done", "raised", "settled"}
Active == {"starting", "emu", "ended", "crashed"}

Init ==
    /\ bin = [s \in Seeds |-> 0]
    /\ log = [s \in Seeds |-> Opened(0, 0)]
    /\ stray = {}
    /\ meta = [s \in Seeds |-> NoMeta]
    /\ ledger = NoLedger
    /\ run = 0
    /\ pc = "idle"
    /\ cur = 1
    /\ task = [s \in Seeds |-> "none"]
    /\ result = [s \in Seeds |-> "none"]
    /\ entry = [s \in Seeds |-> "none"]
    /\ exit = "none"

----------------------------------------------------------------------------
(* The main thread: preparation *)

InState(states) == {s \in Seeds : task[s] \in states}

\* s is the first seed in input order with this task state.
First(s, state) ==
    task[s] = state /\ \A t \in Seeds : task[t] = state => s <= t

\* An exception leaves run_suite_batch: no ledger is written.
Raised ==
    /\ pc' = "idle"
    /\ exit' = "raised"
    /\ UNCHANGED <<run, cur, entry>>

\* The call of run_suite_batch, with an id that may have been used before.
OpenBatch ==
    /\ pc = "idle"
    /\ run < MaxRuns
    /\ run' = run + 1
    /\ pc' = "plan"
    /\ cur' = 1
    /\ task' = [s \in Seeds |-> "none"]
    /\ result' = [s \in Seeds |-> "none"]
    /\ entry' = [s \in Seeds |-> "none"]
    /\ exit' = "none"
    /\ UNCHANGED dirVars

\* build_compose_plan and _ensure_log_files, outside the try: a failure of
\* either leaves the whole batch.  touch(exist_ok=True) keeps what an
\* earlier run logged.  Loader and adapter errors raise before the first
\* seed, to the same effect.
PlanSeed ==
    /\ pc = "plan"
    /\ cur \in Seeds
    /\ \/ pc' = "build" /\ UNCHANGED <<run, cur, entry, exit>>
       \/ Raised
    /\ UNCHANGED <<dirVars, taskVars>>

\* Mutated BuildSeed: a seed whose build raised is enqueued all the same.
BuildSeedUnchecked ==
    /\ pc = "build"
    /\ \E left \in {0, bin[cur], run} : bin' = [bin EXCEPT ![cur] = left]
    /\ task' = [task EXCEPT ![cur] = "prepared"]
    /\ cur' = cur + 1
    /\ pc' = "plan"
    /\ UNCHANGED <<log, meta, ledger, stray, run, result, entry, exit>>

\* _prepare_seed_run.  A build that raises leaves test.bin away, stale (no
\* toolchain) or new (no objdump): see SeedBuild.
BuildSeed ==
    /\ pc = "build"
    /\ \/ /\ bin' = [bin EXCEPT ![cur] = run]
          /\ task' = [task EXCEPT ![cur] = "prepared"]
          /\ cur' = cur + 1
          /\ pc' = "plan"
       \/ /\ \E left \in {0, bin[cur], run} : bin' = [bin EXCEPT ![cur] = left]
          /\ pc' = "report"
          /\ UNCHANGED <<task, cur>>
    /\ UNCHANGED <<log, meta, ledger, stray, run, result, entry, exit>>

\* The error entry of a seed that could not be prepared: stderr.log and
\* run_meta.json are written, either write may raise.
ReportBuildFailure ==
    /\ pc = "report"
    /\ \/ /\ meta' = [meta EXCEPT ![cur] = [run |-> run, status |-> "error"]]
          /\ entry' = [entry EXCEPT ![cur] = "error"]
          /\ task' = [task EXCEPT ![cur] = "settled"]
          /\ cur' = cur + 1
          /\ pc' = "plan"
          /\ UNCHANGED <<run, exit>>
       \/ /\ Raised
          /\ meta' \in {meta, [meta EXCEPT ![cur] = NoMeta]}
          /\ UNCHANGED task
    /\ UNCHANGED <<bin, log, ledger, stray, result>>

\* --jobs is an argument of each invocation, 1 or more: 1 is the serial loop.
EndPreparation ==
    /\ pc = "plan"
    /\ cur \notin Seeds
    /\ pc' \in IF InState({"prepared"}) = {} THEN {"ledger"}
               ELSE IF Jobs = 1 THEN {"serial"} ELSE {"serial", "submit"}
    /\ UNCHANGED <<dirVars, taskVars, run, cur, entry, exit>>

----------------------------------------------------------------------------
(* The main thread: dispatch, collection, ledger *)

\* One executor.submit; workers already run while the rest is submitted.
Submit ==
    /\ pc = "submit"
    /\ \/ /\ \E s \in Seeds : First(s, "prepared")
                              /\ task' = [task EXCEPT ![s] = "queued"]
          /\ UNCHANGED pc
       \/ /\ InState({"prepared"}) = {}
          /\ pc' = "collect"
          /\ UNCHANGED task
    /\ UNCHANGED <<dirVars, result, run, cur, entry, exit>>

\* Mutated LeaveLoop: the pool is not shut down when the loop is left.
LeaveLoopAtOnce == Raised

\* An exception in the loop over the futures leaves the with statement, and
\* that waits for every submitted task; the serial loop has nothing to wait
\* for.
LeaveLoop ==
    IF pc = "serial" THEN Raised
    ELSE pc' = "drain" /\ UNCHANGED <<run, cur, entry, exit>>

\* Mutated Collect: run_meta.json is only written for seeds that ran.
CollectOnlyRan(s) ==
    /\ pc \in {"collect", "serial"}
    /\ task[s] = "done"
    /\ meta' = IF result[s] = "ran"
               THEN [meta EXCEPT ![s] = [run |-> run, status |-> result[s]]]
               ELSE meta
    /\ entry' = [entry EXCEPT ![s] = result[s]]
    /\ task' = [task EXCEPT ![s] = "settled"]
    /\ UNCHANGED <<bin, log, ledger, stray, result, run, pc, cur, exit>>

\* future.result() returned an entry, or the serial call did: its
\* run_meta.json is written by the main thread.  The write may raise.
Collect(s) ==
    /\ pc \in {"collect", "serial"}
    /\ task[s] = "done"
    /\ \/ /\ meta' = [meta EXCEPT ![s] = [run |-> run, status |-> result[s]]]
          /\ entry' = [entry EXCEPT ![s] = result[s]]
          /\ task' = [task EXCEPT ![s] = "settled"]
          /\ UNCHANGED <<run, pc, cur, exit>>
       \/ /\ LeaveLoop
          /\ meta' \in {meta, [meta EXCEPT ![s] = NoMeta]}
          /\ UNCHANGED task
    /\ UNCHANGED <<bin, log, ledger, stray, result>>

\* The worker could not even write its error entry.
CollectRaised(s) ==
    /\ pc \in {"collect", "serial"}
    /\ task[s] = "raised"
    /\ LeaveLoop
    /\ UNCHANGED <<dirVars, taskVars>>

\* Mutated Drained: it waits for every result to be collected.
DrainedCollected ==
    /\ pc = "drain"
    /\ InState(Active \cup {"queued", "done"}) = {}
    /\ Raised
    /\ UNCHANGED <<dirVars, taskVars>>

\* executor.shutdown(wait=True) returns, and the exception goes on.
Drained ==
    /\ pc = "drain"
    /\ InState(Active \cup {"queued"}) = {}
    /\ Raised
    /\ UNCHANGED <<dirVars, taskVars>>

\* Mutated EndCollection: the ledger does not wait for finished futures.
EndCollectionEarly ==
    /\ pc \in {"collect", "serial"}
    /\ InState(Active \cup {"prepared", "queued"}) = {}
    /\ pc' = "ledger"
    /\ UNCHANGED <<dirVars, taskVars, run, cur, entry, exit>>

EndCollection ==
    /\ pc \in {"collect", "serial"}
    /\ InState({"settled"}) = Seeds
    /\ pc' = "ledger"
    /\ UNCHANGED <<dirVars, taskVars, run, cur, entry, exit>>

WriteLedger ==
    /\ pc = "ledger"
    /\ \/ /\ ledger' = [run |-> run, status |-> entry]
          /\ pc' = "exit"
          /\ UNCHANGED <<run, cur, entry, exit>>
       \/ /\ Raised
          /\ ledger' \in {ledger, NoLedger}
    /\ UNCHANGED <<bin, log, meta, stray, taskVars>>

\* _run_exit_code reads the ledger back.
ExitCode ==
    /\ pc = "exit"
    /\ pc' = "idle"
    /\ exit' = IF \A s \in Seeds : ledger.status[s] = "ran" THEN "zero" ELSE "one"
    /\ UNCHANGED <<dirVars, taskVars, run, cur, entry>>

\* Seeds whose run_meta.json the main thread may be writing.
BeingReported ==
    IF pc = "report" THEN {cur}
    ELSE IF pc \in {"collect", "serial"} THEN InState({"done"}) ELSE {}

\* What the directory may hold when the main thread is cut short: a build
\* half made, a run_meta.json or the ledger half written.  Logs are written by
\* the emulators, whose verdict is the last thing they print.
HalfDone ==
    /\ bin' \in IF pc = "build"
               THEN {[bin EXCEPT ![cur] = left] : left \in {0, bin[cur], run}}
               ELSE {bin}
    /\ meta' \in {meta} \cup {[meta EXCEPT ![s] = NoMeta] : s \in BeingReported}
    /\ ledger' \in IF pc = "ledger" THEN {ledger, NoLedger} ELSE {ledger}
    /\ UNCHANGED log

\* Ctrl-C: KeyboardInterrupt leaves the loops as any exception does, and no
\* handler of the program catches it.  subprocess.run of the serial loop
\* kills its emulator on the way out; one that has printed is RunnerEnds
\* first.  A second Ctrl-C during the drain is left out: the exit of the
\* interpreter still joins the pool's threads.
Interrupt ==
    /\ pc \notin {"idle", "drain"}
    /\ IF pc \in {"submit", "collect"} THEN LeaveLoop ELSE Raised
    /\ task' = [s \in Seeds |-> IF pc = "serial" /\ task[s] \in Active
                               THEN "raised" ELSE task[s]]
    /\ HalfDone
    /\ UNCHANGED <<stray, result>>

\* The generator is killed, with its whole process group or alone: each of its
\* emulators is killed with it or lives on.
Kill ==
    /\ pc # "idle"
    /\ pc' = "idle"
    /\ exit' = "killed"
    /\ \E left \in SUBSET InState({"emu"}) :
          stray' = stray \cup {Stray(s, run, "emu") : s \in left}
    /\ Cardinality(stray') <= MaxStrays
    /\ HalfDone
    /\ UNCHANGED <<taskVars, run, cur, entry>>

----------------------------------------------------------------------------
(* A worker thread, or the main thread of the serial loop, on one seed *)

\* The threads live until the loop is left and shut down.
Working == pc \in {"submit", "collect", "drain", "serial"}

\* A worker takes the oldest queued task when fewer than --jobs are at work
\* (the cap of max_workers at the number of prepared seeds is then void); the
\* serial loop takes the next prepared seed once the last one is settled.
Take(s) ==
    /\ \/ First(s, "queued") /\ Cardinality(InState(Active)) < Jobs
       \/ /\ pc = "serial"
          /\ First(s, "prepared")
          /\ InState(Active \cup {"done", "raised"}) = {}
    /\ task' = [task EXCEPT ![s] = "starting"]
    /\ UNCHANGED <<result, dirVars>>

\* A task goes on to a state, a return with a status, or an exception.
Becomes(s, state) == task' = [task EXCEPT ![s] = state] /\ UNCHANGED result
Returns(s, status) ==
    /\ task' = [task EXCEPT ![s] = "done"]
    /\ result' = [result EXCEPT ![s] = status]

\* Both logs are opened for writing, which empties them, and nobody else has
\* printed since.  A stray goes on at the offset it was at.
OpenLog(s, b) ==
    /\ log' = [log EXCEPT ![s] = Opened(run, b)]
    /\ UNCHANGED <<bin, meta, ledger, stray>>

\* Mutated LaunchRunner: the logs are not opened for the emulator's output.
LaunchOnOldLog(s) ==
    /\ task[s] = "starting"
    /\ \/ OpenLog(s, 0) /\ Returns(s, "error")
       \/ bin[s] # 0 /\ UNCHANGED dirVars /\ Becomes(s, "emu")

\* run_target up to the launch: a missing binary, emulator or reference
\* model ends in _error_result, which empties stdout.log; anything may raise
\* before or after the logs are opened for writing; else the emulator runs.
LaunchRunner(s) ==
    /\ task[s] = "starting"
    /\ \/ OpenLog(s, 0) /\ Returns(s, "error")
       \/ UNCHANGED dirVars /\ Becomes(s, "crashed")
       \/ OpenLog(s, 0) /\ Becomes(s, "crashed")
       \/ bin[s] # 0 /\ OpenLog(s, bin[s]) /\ Becomes(s, "emu")

\* An emulator of run r, or its replay, prints its own verdict into the log of
\* s.  Whoever shares the log with another writer may overwrite or be
\* overwritten, so that the lines may amount to either.
Prints(s, r, own) ==
    \E v \in Verdicts :
        /\ v = own \/ log[s].mixed \/ log[s].run # r
        /\ log' = [log EXCEPT ![s] =
                     [run |-> @.run, bin |-> @.bin, verdict |-> v,
                      mixed |-> @.mixed \/ @.run # r]]

\* A simulation that failed may leave its replay behind, whoever ended it.
MayReplay(s, r, own) ==
    IF own = "bad" THEN {{}, {Stray(s, r, "replay")}} ELSE {{}}

\* The emulator ends by itself, or is killed at the timeout with whatever it
\* has printed, the child it forked is not; subprocess.run bounds the wait
\* either way.  The note of a timeout is appended to stderr.log, which may
\* raise.
RunnerEnds(s) ==
    /\ task[s] = "emu"
    /\ \E own \in Verdicts :
         /\ Prints(s, run, own)
         /\ \E left \in MayReplay(s, run, own) : stray' = stray \cup left
         /\ Cardinality(stray') <= MaxStrays
    /\ Becomes(s, "ended") \/ Becomes(s, "crashed") \/ Returns(s, "timeout")
    /\ UNCHANGED <<bin, meta, ledger>>

\* _classify_result reads the logs back; reading or decoding may raise.
Classify(s) ==
    /\ task[s] = "ended"
    /\ \/ Returns(s, IF log[s].verdict = "good" THEN "ran" ELSE "bad_trap")
       \/ Becomes(s, "crashed")
    /\ UNCHANGED dirVars

\* Mutated HandleCrash: the entry names a status the ledger does not know.
HandleCrashOwnStatus(s) ==
    /\ task[s] = "crashed"
    /\ Returns(s, "crashed") \/ Becomes(s, "raised")
    /\ UNCHANGED dirVars

\* The handler in _execute_prepared_seed writes stderr.log; if that raises
\* too, the exception is kept in the future.
HandleCrash(s) ==
    /\ task[s] = "crashed"
    /\ Returns(s, "error") \/ Becomes(s, "raised")
    /\ UNCHANGED dirVars

Worker(s) ==
    /\ Working
    /\ Take(s) \/ LaunchRunner(s) \/ RunnerEnds(s) \/ Classify(s)
       \/ HandleCrash(s)
    /\ UNCHANGED mainVars

----------------------------------------------------------------------------
(* What outlives the call that started it *)

\* A stray prints into the log of its seed, whoever has opened it since, or
\* ends without a word.  A replay only ever reports a failure.
StrayGoesOn(e) ==
    /\ e \in stray
    /\ \/ /\ \E own \in IF e.kind = "emu" THEN Verdicts ELSE {"bad"} :
               /\ Prints(e.seed, e.run, own)
               /\ \E left \in MayReplay(e.seed, e.run, own) :
                     stray' = (stray \ {e}) \cup left
       \/ stray' = stray \ {e} /\ UNCHANGED log
    /\ UNCHANGED <<bin, meta, ledger, mainVars, taskVars>>

Main ==
    \/ PlanSeed \/ BuildSeed \/ ReportBuildFailure \/ EndPreparation
    \/ Submit \/ Drained \/ EndCollection \/ WriteLedger \/ ExitCode
    \/ \E s \in Seeds : Collect(s) \/ CollectRaised(s)

Next ==
    \/ OpenBatch \/ Main \/ Interrupt \/ Kill
    \/ \E s \in Seeds : Worker(s)
    \/ \E e \in stray : StrayGoesOn(e)

\* The main thread runs, every worker thread runs, and subprocess.run ends an
\* emulator that does not end by itself.
Fairness == WF_vars(Main) /\ \A s \in Seeds : WF_vars(Worker(s))

Spec == Init /\ [][Next]_vars /\ Fairness

----------------------------------------------------------------------------
(* Properties *)

TypeOK ==
    /\ bin \in [Seeds -> 0..MaxRuns]
    /\ log \in [Seeds -> LogContents]
    /\ stray \subseteq Strays
    /\ meta \in [Seeds -> MetaContents]
    /\ ledger \in LedgerContents
    /\ run \in 0..MaxRuns
    /\ pc \in {"idle", "plan", "build", "report", "serial", "submit", "collect",
              "drain", "ledger", "exit"}
    /\ cur \in 1..(N + 1)
    /\ task \in [Seeds -> TaskStates]
    /\ result \in [Seeds -> Status \cup {"none"}]
    /\ entry \in [Seeds -> Status \cup {"none"}]
    /\ exit \in {"none", "zero", "one", "raised", "killed"}

\* An emulator this run started was started on a binary this run built, also
\* when an earlier run of the batch id left its binary behind a failed build:
\* such a seed is never handed to a worker.
NoStaleBinaryExecuted ==
    \A s \in Seeds : log[s].run = run => log[s].bin \in {0, run}

\* The log of s shows a good run of the binary built in this run, unless an
\* emulator of another run has printed into it too.
Evidence(s) ==
    /\ bin[s] = run
    /\ log[s].run = run
    /\ log[s].bin = run
    /\ log[s].verdict = "good" \/ log[s].mixed

\* Exit code 0 is evidence: every requested seed was built, executed and
\* classified as good in this very run, its run_meta.json and the ledger say
\* so, and the log they point to still shows it, whatever was still running
\* from earlier runs.  The one thing that can make it worth less is a stray
\* of another run that printed into the log of a seed while this run had it.
ExitZeroIsEvidence ==
    exit = "zero" =>
        /\ ledger.run = run
        /\ \A s \in Seeds :
             /\ ledger.status[s] = "ran"
             /\ meta[s] = [run |-> run, status |-> "ran"]
             /\ Evidence(s)

\* The ledger of this run agrees with the run_meta.json of every seed,
\* whatever order the workers finished in.
LedgerAgreesWithMetas ==
    ledger.run = run /\ run > 0 =>
        \A s \in Seeds : meta[s] = [run |-> run, status |-> ledger.status[s]]

\* When a run has come back, by return or by exception, no worker is at an
\* emulator or about to start one, and nothing it leaves behind can still
\* report a success: the next run of the same batch id has the seed
\* directories to itself but for replays of simulations that failed.  Only a
\* killed generator leaves a whole emulator.
NoWorkerOutlivesRun ==
    pc = "idle" /\ exit # "killed" =>
        /\ InState(Active \cup {"queued"}) = {}
        /\ \A e \in stray : e.run = run =>
              /\ e.kind = "replay"
              /\ log[e.seed].run = run
              /\ log[e.seed].verdict = "bad" \/ log[e.seed].mixed

\* Every run comes back, also when workers crash, time out or leave entries
\* that cannot be written.
RunComesBack == pc # "idle" ~> pc = "idle"

\* parallel-seed-exploration-design.md:166, "every seed still gets a
\* run_meta.json, even if build or run fails": once one seed of a run that was
\* neither killed nor interrupted has its run_meta.json, every seed gets one.
\* Refuted: the plan and the log files of a seed are made outside the try, and
\* a meta that cannot be written is not caught either.
EverySeedGetsMeta ==
    exit \in {"zero", "one", "raised"} =>
        \/ \A s \in Seeds : meta[s].run = run
        \/ \A s \in Seeds : meta[s].run # run

\* parallel-seed-exploration-design.md:131, "initialize empty stdout.log and
\* stderr.log": the log an entry points to is empty or of this run.  Refuted:
\* touch(exist_ok=True) keeps the log of an earlier run of the batch id.
EntryLogsAreFresh ==
    \A s \in Seeds : entry[s] # "none" => log[s].run \in {0, run}

\* Seeds whose emulator was started in this run.
Executed == {s \in Seeds : log[s].run = run /\ log[s].bin # 0}

Contract ==
    INSTANCE BatchContract WITH
        Ran <- "ran", Pending <- "none",
        settled <- entry, executed <- Executed

\* Every run of the batch implements the contract of `snippetgen run`.
ImplementsContract == Contract!ContractSpec

----------------------------------------------------------------------------
(* The inductive invariant behind the safety properties *)

\* Nothing in the directory is from a run to come, and only an open run has
\* not ended.
RunsBounded ==
    /\ \A s \in Seeds : log[s].run <= run /\ meta[s].run <= run
    /\ ledger.run <= run
    /\ pc # "idle" => run > 0 /\ exit = "none"
    /\ pc = "idle" /\ exit = "none" => run = 0

\* What is known of a seed by where its task is.
SeedEvidence(s) ==
    /\ task[s] # "settled" => entry[s] = "none"
    /\ task[s] \notin {"none", "settled"} => bin[s] = run
    /\ task[s] \in {"none", "prepared", "queued", "starting"} =>
          log[s].run # run \/ run = 0
    /\ task[s] \in {"emu", "ended"} => log[s].run = run /\ log[s].bin = run
    /\ task[s] = "emu" /\ exit # "killed" =>
          log[s].verdict = "none" \/ log[s].mixed
    /\ task[s] = "done" =>
          result[s] \in Status /\ (result[s] = "ran" => Evidence(s))
    /\ task[s] = "settled" =>
          /\ entry[s] \in Status
          /\ meta[s] = [run |-> run, status |-> entry[s]]
          /\ entry[s] = "ran" => Evidence(s)

TaskEvidence == \A s \in Seeds : SeedEvidence(s)

\* The preparation loop has dealt with the seeds before the current one.
Prepared ==
    /\ pc \in {"plan", "build", "report"} =>
          \A s \in Seeds : IF s < cur THEN task[s] \in {"prepared", "settled"}
                                     ELSE task[s] = "none"
    /\ pc \in {"build", "report"} => cur \in Seeds

\* The ledger is written over settled seeds, and they stay as they are.
LedgerOverSettled ==
    /\ pc \in {"ledger", "exit"} => \A s \in Seeds : task[s] = "settled"
    /\ pc = "exit" => ledger.run = run
    /\ ledger.run = run /\ run > 0 =>
          /\ pc \in {"exit", "idle"}
          /\ ledger.status = entry
          /\ \A s \in Seeds : task[s] = "settled"
    /\ exit = "zero" =>
          /\ pc = "idle" /\ run > 0 /\ ledger.run = run
          /\ \A s \in Seeds : ledger.status[s] = "ran"

\* The serial loop has one seed in hand at a time and no queue; outside the
\* loops nothing is at work unless the run was killed.
OneAtATime ==
    pc = "serial" =>
        /\ \A s \in Seeds : task[s] # "queued"
        /\ \A s, t \in InState(Active \cup {"done", "raised"}) : s = t

\* A whole emulator is left by a killed run only, and one of this run is at a
\* seed nothing has been concluded about.  What a replay of this run has in
\* its own log is a failure.
StraysAreKnown ==
    \A e \in stray :
        /\ e.run \in 1..run
        /\ e.kind = "emu" /\ e.run = run =>
              /\ pc = "idle" /\ exit = "killed" /\ task[e.seed] = "emu"
              /\ log[e.seed].verdict = "none" \/ log[e.seed].mixed
        /\ e.kind = "replay" /\ e.run = run =>
              /\ log[e.seed].run = run
              /\ log[e.seed].verdict = "bad" \/ log[e.seed].mixed

NoneAtWork ==
    \/ pc \in {"serial", "submit", "collect", "drain"}
    \/ pc = "idle" /\ exit = "killed"
    \/ InState(Active \cup {"queued"}) = {}

IInv ==
    /\ TypeOK
    /\ RunsBounded
    /\ TaskEvidence
    /\ Prepared
    /\ LedgerOverSettled
    /\ OneAtATime
    /\ NoneAtWork
    /\ StraysAreKnown
    /\ NoStaleBinaryExecuted
=============================================================================
