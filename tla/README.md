# TLA+ models of SnippetGen

SnippetGen composes small C snippets into a bare-metal RISC-V program, builds
it, and runs it on the XiangShan emulator for one or many seeds.  This
directory holds TLA+ modules of the parts of it whose behaviour depends on
order, failure and time, TLC configurations that check them on small
instances, and TLAPS proofs for every value of the constants.

    tlc -workers 2 -config <name>.cfg <module>.tla      # a run of PROJECT.json
    tlapm <module>Proofs.tla                            # the proofs

## 1. Inventory

| part | code | state it keeps | operations |
|---|---|---|---|
| loading | `suite_loader.py`, `snippet_db.py`, `model.py` | none (YAML to frozen dataclasses) | `load_suite`, `load_snippet_db`, `build_compose_plan` |
| seed selection | `run_batch.py` `normalize_seeds` | none | `--seed`, `--seeds`, `--seed-range` to a tuple of distinct seeds |
| seed build | `emitter.py`, `toolchain.py` | the files of one build directory | `emit_harness`, `build_artifacts` |
| batch runner | `run_batch.py`, `cli.py` | `seed_<n>/` directories, `batch_meta.json`; prepared list, futures, `entries_by_seed` | `run_suite_batch`, `_run_exit_code` |
| target adapter | `targets/xiangshan-verilator/run_target.py` | `stdout.log`, `stderr.log` of a seed | `run_target`, `_classify_result` |
| timer runtime | `xsrt_intr.c`, `xsrt_env.c`, `trap.S` (timer path), the timer snippets | `g_timer_state`, `mie`, `mstatus`, `mtimecmp`, `xsrt_env_t` | enable, arm once, arm periodically, the handler, the wait loop, the checks |
| trap entry | `trap.S` (generic path), `xsrt_trap.c` | registers, `mscratch`, installed handler | save, dispatch, restore |
| split-store search | `misaligned_split_store_search.c` and its check | arena slots, `env`, CSR shadow | rounds of store and probe |
| start-up, linker script, platform | `start.S`, `section.ld`, `xsrt_platform.c` | stack pointer, last finish code | `_start`, `xsrt_platform_finish` |

How they interact:

- `cmd_build` calls the seed build once, in `build/<suite>`.  `cmd_run` calls
  `run_suite_batch`, which calls the seed build once per seed, serially, in
  `build/<suite>/runs/<batch>/seed_<n>`, and then hands each built seed to a
  worker of a thread pool (`--jobs` above 1) or to a plain loop (`--jobs 1`).
- A worker calls the adapter, which starts the emulator as a subprocess with
  its output in `stdout.log`, waits with a timeout, and reads the logs back.
- Workers of one batch share no files with one another.  The main thread alone writes
  `run_meta.json` and `batch_meta.json`; the exit code is computed from
  `batch_meta.json` read back from disk.
- With `--batch-id` (and with `build`) a directory is used again, so files
  of an earlier invocation are the initial state of the next one.
- On the hart, `main()` and the trap handler share `env->flags`,
  `env->interrupt_count`, `g_timer_state` and the timer CSRs, without atomics.

What is hard about it, and what makes each part correct:

- *Seed build.*  Eight tool steps, each with its own failure path and its own
  list of files to unlink; a crash may fall between any two.  Correct means that
  no manifest vouches for files of another attempt.
- *Batch runner.*  Completion order, exceptions on three levels (worker, handler
  of the worker's exception, main thread), the implicit wait of the `with`
  statement, files and processes left by earlier runs.  Correct means that what
  is reported of a seed happened to this seed in this run, and that a run comes
  back and leaves nobody running who could still report a success.
- *Timer runtime.*  An interrupt between any two instructions of `main`,
  including before the timer was armed, between the load and the store of `flags
  |= ...`, and between the last poll and the samples of the wait loop. Correct
  means that a verdict about the core is about the core.

- *Target adapter.*  The logs it reads back may have been written by an earlier
  or an orphaned emulator, or by the child an emulator forked; the texts in them
  overlap; the timeout may hit an emulator in any state.  Correct means that a
  status is the fate of the call's own program, and that the call comes back and
  leaves nobody who could turn a failure into a success.
- *Trap entry.*  `mscratch`, a spill area and a frame hold the interrupted
  registers in turn, on two paths that share a beginning.  Correct means that
  the interrupted code cannot tell; it is, but for one register on one path.
- *Split-store search.*  Stores drain in the core's own time while probes read
  around them, in slots that come round again.  Correct means that a verdict is
  about this round's forwarding.
- *Loading, composition and seed selection.*  Sequential; what is hard is the
  combination of repeats, duplicates and defects across manifests, suite,
  objects and `fini` hooks.

`PROJECT.json` lists the hazards with their lines, the properties that cover
them, and a note for each that nothing covers.

## 2. Plan

| order | module | what it models | status |
|---|---|---|---|
| 1 | `BuildPublication`, `SeedBuild`, `SeedBuildProofs` | one build directory over many attempts | done, proved |
| 2 | `BatchContract`, `RunBatch`, `RunBatchProofs` | the batch runner with pool, worker and directory | done, proved |
| 3 | `TimerRuntime`, `TimerRuntimeProofs` | interrupt and main on the hart | done, proved |
| 4 | `XsTarget`, `XsTargetProofs` | the adapter: environment, logs, timeout, classification, overlapping calls | done, proved |
| 5 | `TrapEntry`, `TrapEntryProofs` | registers and `mscratch` through both paths of `trap.S` | done, proved; finite, so TLC's check is exhaustive too |
| 6 | `SeedSelect`, `SeedSelectProofs` | `normalize_seeds`, over texts and what `int` makes of them | done, proved, alone and inside `Composition` |
| 7 | `SplitStore`, `SplitStoreProofs` | slots, rounds and probes over a store queue | done, proved |
| 8 | `BatchBuild` | `RunBatch`'s build step implemented by the statements of `SeedBuild` | done, proved in `SeedBuildProofs` |
| 9 | `BatchAdapter` | `RunBatch`'s worker implemented by the statements of `XsTarget` | done, proved in `XsTargetProofs` |
| 10 | `Composition`, `CompositionProofs` | the four commands: `SeedSelect`, then manifests and suite to plan, objects, calls on the hart and `main`'s code | done, proved |

What the modules say of each other:

    SeedBuild  ==> BuildPublication          (ImplementsPublication)
    RunBatch   ==> BatchContract             (ImplementsContract)
    SeedBuild  is  RunBatch!BuildSeed        (BatchBuild)
    XsTarget   is  RunBatch!Worker           (BatchAdapter)
    TrapEntry  justifies TimerRuntime taking the interrupt as one step
    Composition extends SeedSelect           (its first state and steps are SeedSelect's)
    SeedSelect justifies RunBatch's seeds being 1..N

## 3. Modules and code

### SeedBuild (refines BuildPublication)

One directory and the builds made in it.  The content of a file is the number
of the attempt it was made from, carried from `generated_suite.c` to the object
file, `test.elf`, `test.bin` and `disasm` as the tools read and write them;
`torn` holds files that were written in part.

| variable | code |
|---|---|
| `pc` | the statement of `emit_harness` / `build_artifacts` |
| `ver`, `torn` | the files of `_artifact_paths_for_build_dir`, and `obj/` |
| `todo` | what an unlink loop (lines 146, 239, 259, 264, 281) has left to do |
| `outcome` | return or the cause of the `RuntimeError` |

Each action is a statement or a tool call with its failure branch.  `Interrupt`
ends the builder at any statement and may tear what that statement writes.  The
runtime sources and snippets do not change between attempts, so their objects
are not kept.  A linker or `objcopy` that fails leaves a partial output or none.
A tool that cannot be started at all (`NotStarted`: an `OSError` of
`subprocess.run`) passes every failure path but `objcopy`'s, and that one is for
`FileNotFoundError` only; such a build leaves the whole files it has made, and
`FailureLeavesNoOutputs` says which.

`BuildPublication` is the promise to a reader of the directory: a manifest
appears only beside the whole payload of its own attempt, is never replaced in
place, and is withdrawn before a payload file of a newer attempt appears.

### RunBatch (refines BatchContract)

Repeated invocations of `run_suite_batch` with one batch id.  The directory
(`bin`, `log`, `meta`, `ledger`) outlives an invocation; each file carries the
run that wrote it, and a log also the run that built the binary it is the
output of, the verdict and whether an emulator of another run has printed into
it (`mixed`).  `pc`, `cur`, `entry` are the main thread;
`task`, `result` are the futures and what they return.

| actions | code |
|---|---|
| `OpenBatch`, `PlanSeed`, `BuildSeed`, `ReportBuildFailure`, `EndPreparation` | `run_batch.py:247-306` |
| `Submit`, `Collect`, `CollectRaised`, `EndCollection` | `run_batch.py:308-333` |
| `Drained` | the `shutdown(wait=True)` of leaving the `with` of line 318 |
| `WriteLedger`, `ExitCode` | `_write_run_ledger`, `_run_exit_code` |
| `Take`, `LaunchRunner`, `RunnerEnds`, `Classify`, `HandleCrash` | a worker: `_execute_prepared_seed` and `run_target` |
| `Interrupt`, `Kill` | Ctrl-C in the main thread; the generator killed, alone or with its process group |
| `StrayGoesOn` | an emulator whose generator was killed alone, or the child an emulator forked (`--enable-fork`) and `subprocess.run` did not kill |

`stray` is the set of these processes.  They keep the log open that was theirs,
also when a later run has truncated it.  Two writers of one file may overwrite
each other, so a log that is `mixed` may read as either verdict.

The seven statuses of `_classify_result` are reduced to `ran` and `bad_trap`
(any other), because `_run_exit_code` tells no more apart.

`BatchContract` is the promise of `snippetgen run`: a seed is settled at most
once per run, as `ran` only after a program was executed for it in this run,
and a ledger is published only over a complete set of settled seeds.

### TimerRuntime

The generated `main()` for the three timer suites.  `pc` is a statement of it
and `After` the order of the statements, from each suite's YAML and the
snippets it names, cut at every access to shared state:
`flags |= x` is a load and a store, the wait loop reads count, `mie`, `mip` and
time one after the other, enabling is two CSR writes, arming is the handler's
state first and `mtimecmp` second.  The handler is one step because it runs
with interrupts masked on the only hart.  `Tick` makes the timer due,
`Interrupt` takes it; neither has to happen.  `mtimecmp` is never initialised
by the code, so the timer may be due from the start.  A deadline that main or the
handler writes (`WriteCompare`, `DueAfter`) may have passed already, so an
interrupt may follow on another at once; `MaxTraps` bounds such a storm.

Abstracted: `last_trap_cause` and `last_trap_epc`, which the handler always
writes together with the count (codes 84, 85, 95, 96 and 64 need a core that
loses a store); the seed-dependent number of `vsetvl` instructions, which touch
no shared state; the `fini` hook, which no snippet defines.

### BatchBuild and BatchAdapter

Each instantiates `RunBatch` for a batch of one seed, with its variables written
as functions of the detailed module's.  `BatchBuild` runs `SeedBuild`: the
directory is seen by the runner only when the build is over (`before` remembers
what `test.bin` was), and every end of a build must be `RunBatch!BuildSeed` or,
when cut short, `RunBatch!HalfDone`.  `BatchAdapter` takes call 1 of `XsTarget`
in any environment: as long as no other call was made for the directory, every
step must be `RunBatch!Worker`, `RunBatch!StrayGoesOn` of the child its emulator
forked, or change nothing `RunBatch` sees.  The kill of a generator is left out
there: `RunBatch` makes it one step over all seeds of a batch, and what lives on
after it is `RunBatch`'s own `stray`.

### XsTarget

| definitions | code |
|---|---|
| `XsEnv`, `EmuPath`, `DiffPath` | `_xs_env`, `_emu_path`, `_diff_path`, over what is exported, overridden and built |
| `Call` | `load_run_target` and the call by the batch |
| `CheckFiles`, `OpenLogs`, `Launch` | `run_target` up to the start of the emulator |
| `Expire`, `Reap` | the two ends of `subprocess.run`: the timeout kills the emulator, and not its child |
| `ClassifyResult`, `Classify` | `_classify_result` and its call |
| `PrintVerdict`, `Replay`, `Exit`, `Kill` | the emulator, its forked replay of a failure, and the generator's death |

`log` is the set of texts the classification looks for.  `fate` is what the call's
own program did, which the code does not know; `foreign` records that somebody
else wrote to the logs since the call opened them.  `child` is the process a failing
emulator wakes up to simulate the last interval again: it has the logs open, nobody
waits for it, and it may print failures after the call is over.

### TrapEntry

`trap.S` instruction group by instruction group, a register holding the name of
the register whose value of `main` it is.  `main` is reduced to installing the
trap, the misaligned `lw` and the check; the core may refuse the `lw`, the
compiler may have chosen any register for its address, and the handler is
none, one that resumes or one that skips.

### SeedSelect, Composition

`SeedSelect` reads a `--seed`, `--seeds` or `--seed-range` argument piece by
piece; a piece is a text, `IntOf` what `int` makes of it, and several texts may
be one integer.  `Composition` extends it to the commands of `cli.py`: `run`
starts with the seeds and `--jobs` and is then followed on one of its seeds;
every command goes from the manifests through `load_snippet_db`,
`build_compose_plan`, `unique_plan_sources` and the linker to `xsrt_run_snippet`
on each snippet; whether YAML is valid is one bit of a manifest or suite.
`todo` is the place in the plan that `unique_plan_sources` has got to, source by
source and snippet by snippet, and `Seen` its set `seen`.  `trace` records every
call of a hook with the position of its snippet in the plan, so that a snippet a
suite repeats is told apart from itself; `init`, `run` and `check` may return 0
or 1.  Each of the four places where `xsrt_run_snippet` calls `fini` is an
action of its own.

### SplitStore

A round is the sequence of its stores and probes with their offsets in the
slot; stores enter a queue and leave it at any time.  What a probe may find is
given by age (`Versions`: memory, or a store of the queue that touches its bytes):
the newest or, on a faulty core, any older one, for each of its three loads by
itself.  Of memory only the seven
probed bytes of each slot are kept, by who wrote them last.

## 4. Runs

| run | bounds | what it shows |
|---|---|---|
| `seed_build` (module `BatchBuild`) | 3 attempts | all invariants; `SeedBuild` implements `BuildPublication`; a build is `RunBatch`'s build step |
| `failed_rebuild_keeps_outputs` | 2 attempts | finding 1 |
| `batch_rerun` | 2 seeds, 2 runs, each with `--jobs` 1 or 2; 1 process at a time that outlives its call | every property of `RunBatch`, pool and serial loop, with files and a process left by a first run |
| `every_seed_gets_meta`, `entry_logs_are_fresh` | 2 seeds, 2 jobs, 2 runs | findings 2 and 3 |
| `timer_runtime` | 3 spins, 4 interrupts | no suite is rejected for a lost flag, one interrupt per pass, a timer that is off had one interrupt, every run ends |
| `search_period_lost` | 2 spins, 3 interrupts | finding 4 |
| `trap_entry` | none: the model is finite | a trap is invisible but for `t1` on the generic path; what a refused load leads to |
| `xs_target` | 1 call in each of the 6912 environments; 2 overlapping calls in one with everything in place | a status is the call's own fate; calls come back and leave no emulator, and a child only of a failure; emulator and reference model of one checkout; the adapter is `RunBatch`'s worker |
| `composition` | 3 pieces per seed argument, of 11 texts; at most 2 manifests, 2 snippets per suite, 1 runtime source | distinct, complete seeds; plan, link, `fini` and code of every combination |
| `split_store` | 8 slots; 2 and 9 rounds; starts 0 and 5; queue of 24 | no correct core accused, no miss hidden, a verdict |

Why the bounds are enough.  An attempt only meets leftovers of the newest
attempt that wrote a file, so two attempts show every pair and the third shows
that a mix of two leftovers is no worse; the proofs remove the bound.  Two runs
show everything a reused batch id can carry over, and `--jobs` may differ
between them.  With two seeds the pool has as many workers as tasks, so a task
waits in the queue only until its worker gets to it; a queue longer than the
pool is covered by the proofs, which hold for any number of seeds and jobs, and
not by `RunComesBack`.  Three seeds over two runs, or two strays at a time, are
more states than a run can visit; one stray already meets a log before, while
and after the next run has it open, and the proofs hold for any number.  The
wait loop is the same in each iteration; three are a first, a middle and a last
one, and a fourth interrupt is one more than any path of the periodic suite
tells apart.  A second call of the adapter is every other call to the first, and
the proofs hold for any number; an environment only decides whether the files
are there, which any call may fail at anyway, so calls overlap in one
environment only (`OverlapWhenReady`).  Two manifests are enough for a
duplicate, a defect beside a good one and a shared source, and two snippets for
a repeat and for a failure before another snippet.  The seed argument and the
files do not meet before the harness, so `SomeInvocations` varies one of them at
a time.  The texts are three spellings of 7, two of 0, other integers, a
negative one, the empty text and one that is no integer.  One snippet has every
hook.  Nine rounds use a slot twice, and a queue of 24 holds more than one
round's 22 stores.

Deadlock checking is off everywhere: these systems stop, at the bound on
attempts or runs, when a call is over, or when `main` has returned.

Fairness.  `SeedBuild`, `BatchBuild`, `SeedSelect` and `Composition` need none
(safety only).  `RunBatch` has weak fairness on the main thread and on each
worker: threads are scheduled by the OS, and an emulator always ends, because
`subprocess.run` has a timeout in every call (`DEFAULT_TIMEOUT_SEC` when none is
given).  `XsTarget` makes that explicit: the call's thread and the timeout are
fair, the emulator is not, and the call comes back all the same
(`EveryCallComesBack`).  `Interrupt`, `Kill` and `StrayGoesOn` have none.
`TimerRuntime` has weak fairness on `main` only: the hart executes instructions.
It has none on `Tick` or `Interrupt`, so a dead timer is a behaviour, and
`RunEnds` says that it is reported.  That `main` is not starved by a periodic
timer (that a storm of interrupts ends, which `MaxTraps` stands for) is assumed,
not shown: it needs the ratio of `mtime` ticks to instructions.  `TrapEntry` is
fair to the hart as a whole, and `SplitStore` to the program and to the store
queue.

Type invariants are checked, and proved, for the modules with proofs of their
own state (`SeedBuild`, `RunBatch`, `TimerRuntime`, `XsTarget`; those of
`TrapEntry`, `SplitStore`, `SeedSelect` and `Composition` are part of the
inductive invariants and proved only).

Every property of a passing run has a mutant in `PROJECT.json`: a changed
definition (a forgotten file, a dropped `csrc`, a skipped wait) under which TLC
finds that property violated.

## 5. Findings

1. `FailedRebuildCleansStaleOutputs` (`toolchain.py:136`): with no toolchain on
   the PATH a failed rebuild keeps `test.elf`, `test.bin` and the manifest of
   the build before, beside a new `generated_suite.c`; the test named
   `test_failed_rebuild_cleans_stale_outputs` expects them to be gone.
2. `EverySeedGetsMeta` (`run_batch.py:261, 267`): plan and log files are made
   outside the `try`; one seed's error ends the batch.
3. `EntryLogsAreFresh` (`run_batch.py:91`): logs are touched, not emptied.
4. `SearchRunsUnderPeriodicTimer` (`vsetvl_interrupt_search.c:43`): enable comes
   before arm; an interrupt already due is handled as a one-shot and the
   search runs, and passes, without its timer.
Observations that no run of the project refutes or confirms on its own:

- A run that raises after it has written some metas (`run_batch.py:330`) leaves the
  ledger of an earlier run of the batch id beside them; `LedgerAgreesWithMetas`
  therefore speaks of a ledger of this run.
- Exit code 0 is evidence but for one case, which `ExitZeroIsEvidence` names: a
  generator was killed alone, or a failed simulation was cut off while its forked
  child ran, and that process printed into a log the next run of the batch id had
  opened.  Only the killed generator's emulator can print a success there.
- Nothing keeps two generators out of one build directory; the modules are about
  one at a time.
- Code 74 of the wait loop is only ever returned when the interrupt *did*
  come, after the last poll (`DiagnosisOfSilence`); and `finish_check` can never
  return 31, since nothing sets `FAILED` before it.
- The generic trap path hands back `t1` holding `sp` (`TrapIsTransparent`).  No suite
  installs a handler, so this shows only when a refused `lw` is retried
  through `t1`: check 42 then blames a value no correct core could have loaded
  (`WrongValueNeedsT1OrSkip`).
- `xsrt_install_strap` without `xsrt_enable_stimer` traps through an `mscratch` nobody
  has set (`ScratchIsOwned` is about the setups that have it).
- On a faulty core a missed forward may be hidden when the zeroing of the round
  is itself still in the queue; `MissIsNotHidden` holds from the moment it has
  drained.
- Seeds 0 and 4660 of one batch, and seeds 2^64 apart, are one program with two
  ledger entries: `init_basic_env.c:13` replaces seed 0 by `0x1234`, and `env.seed`
  has 64 bits.

## 6. Proofs

Eight modules of proofs cover every invariant and action property that the
passing runs check, for every value of the constants under the named
assumptions: `MaxBuilds`, `N`, `Jobs`, `MaxRuns`, `Spins`, `MaxTraps`, `Slots`
and `QueueSize` are positive naturals, `Starts` are slots and `Rounds` positive;
`Environments` are environments; `MaxStrays` is a natural number; `IntOf` gives
each text an integer or `NotAnInteger`, which is none; `Invocations` read typed
files, where a valid suite names some snippet (`suite_loader.py:46`), and no
runtime source is listed twice (`toolchain.py:80`). They also prove the
refinements and that `BatchBuild` and `BatchAdapter` compose.  Each follows the
same argument: `Init => IInv`, `IInv /\ [Next]_vars => IInv'` with one step per
action and one step per conjunct, `IInv => Inv`.

*SeedBuild.*  The safety properties speak of idle directories and say nothing
about a builder at work, so they are not inductive.  `IInv` adds what holds
in between: while files are being unlinked each output is gone or still on
the list (`UnlinkCovers`, with lemma `TailCovers`); past the cleanup the
directory holds exactly what this attempt has completed at its stage
(`OnlyOwnOutputs`); no manifest exists there (`NoManifestPastCleanup`); and the
harness being compiled is this attempt's (`HarnessIsNewest`).  For the
refinement, `NothingCompleted` and `OneCompleted` say how a step of the
builder changes the set of complete payload files.

*RunBatch.*  `IInv` adds what a task's state proves about the directory
(`SeedEvidence`: a queued seed's binary is this run's, a finished good one's log
is evidence), that the preparation loop has dealt with the seeds before `cur`
(`Prepared`), that a ledger of this run is over settled seeds which no step
changes (`LedgerOverSettled`), who may be at work when (`OneAtATime`,
`NoneAtWork`), and which strays there are (`StraysAreKnown`: a whole emulator only of
a killed run, and a replay of this run only over a log that shows its failure or is
mixed).  `EntriesTyped` collects the types of the written records.

*TimerRuntime.*  The properties speak of `main` when it has returned.
`TimerOffIsOneInterrupt` speaks of every state.  `IInv` adds what the statements
of `main` know before: which statements a suite executes (`InSuite`); that a
one-shot timer is on until its first interrupt and off for good afterwards, and
that a timer which is on after an interrupt is periodic (`TimerState`), which is
why a bit the handler sets can be erased once and never again; which bits no
later store may erase (`Marked`, `Kept`), in the flags and in the register about
to be written back (`FlagsKept`); that a sample without MTIE was taken after the
interrupt (`SampleState`); and that the wait is only left over a counted
interrupt (`Counted`).

*XsTarget.*  The invariant is one of each call (`CallInv`): where its emulator is
when it is somewhere (`EmulatorOf`), that past the checks both files are there
(`Resolved`), and what the logs hold of a call nobody has interfered with
(`Said`): nothing before its verdict, then the verdict and beside a failure
only failures; of a call that is by itself it also says what the logs hold once it
is over (`Lone`).  Lemma `Others` says what a step of one call may do to
another: at most set its `foreign`.  `OneCheckout` is the case analysis of the
environment.

*SeedSelect.*  What has been taken is natural and without repeats (`IInv`), and a
prefix of the argument (`TakenSoFar`), at every turn of the loop.  Both theorems are
about the commands: lemma `CommandsReadSeeds` takes them there, a step of
`Composition` being `SeedSelect`'s or none of its business.

*Composition.*  Three invariants, each resting on the one before.  `PlanInv`: the
database is a prefix of the directory, valid and without repeats
(`DbIsPrefix`); a plan is only made when the prefix is the whole directory
(`PlanAfterDb`), so the manifest `SpecOf` finds is the only one of its id.  `LinkInv`:
the objects are the runtime's and then, each once, the sources mentioned up to
`todo` (`EachMentionedOnce`), so that at the link they are exactly what the plan
lists (`AllListed`) and a file can only be there twice when a snippet lists a
runtime source.  `HartInv`: the calls so far are in order and before the one that
is next (`CallsOrdered`), only the last one may have failed and then its snippet is
at its `fini` (`FailureIsLast`), and none of the calls before the next one was left
out (`NoneLeftOut`); `Ended` is what this amounts to when `main` returns.  Neither
`FiniOncePerSnippet` nor `CodeIsTheEvidence` is inductive: both speak of the end only.

*TrapEntry.*  The entry keeps `main`'s registers in turn in the register file,
in `mscratch`, in the spill area and in the frame.  `RegistersFound` says which
of them is where at each statement; `TrapKnown` ties the path taken to the
cause, which the generic path needs for `t1`; `FaultIsFinal` says that a trap
inside the entry, which loses them, never gets back to `main`; and
`ValueExplained` carries what the load saw to the check, across the interrupts
in between.

*SplitStore.*  What a correct core sees is the newest version, so `TargetIsNewest` is
about that one only and holds because no store after the target touches the
fragment (lemmas about `Round`).  A miss could be hidden by a target of an earlier
round, older than the zeroing.  `QueueIsRecent` numbers the queue from the first store
of this round: its end is what the round has issued, in order.  Once the zeroing
has drained, every store in the queue is therefore of this round and memory holds
zero (`ZeroInMemory`) until the target gets there, so an older version is never a
target.

*BatchBuild.*  `BinIsAccounted` (while a build runs `test.bin` is gone, what it was
before, or new) is added to `SeedBuild`'s `IInv`; the ends of a build are then three
lemmas, one per way to end.

*BatchAdapter.*  A call that takes a step is not out afterwards
(`OthersAreOut`), so alone means that the step is call 1's.  `XsTarget`'s `IInv`
says who still writes once the emulator is reaped, a child over a log that
already shows its failure (`ReplayedVerdict`), so the verdict the worker sees is
final; the steps of the worker are lemmas over what it sees (`Launches`, `Ends`,
`Classifies`, `Stutters`), and each statement of the call is one of them.

Only model-checked, because liveness under fairness is beyond the prover:
`RunComesBack`, `RunEnds`, `EveryCallComesBack`, `VerdictIsReached` and the
first half of `MainEndsUnlessRefused`; its other half, that a refused load is
never got past, is theorem `RefusedForGood`.  The properties of the runs that
expect a violation are false and have no theorem.

## 7. Not modelled

- The field-by-field validation of YAML: pure and covered by unit tests; its
  outcome is one bit in `Composition`.
- What compilers, the emulator and the reference model compute; `AM_HOME` and
  `DRAMSIM3_HOME`, which only the emulator reads.
- The ratio of `mtime` ticks to instructions, and with it whether a period of 8
  to 15 ticks starves `main`.
- What memory holds at reset: an uninstalled trap handler is taken for none,
  although it lives in `.bss`, which `start.S` does not clear.
- `xsrt_disable_stimer` and `xsrt_timer_last_delta`, which no suite calls.
- The diagnostic CSR values a split-store mismatch records, wording of logs and
  metas, the linker script, and argument parsing other than the seeds.
