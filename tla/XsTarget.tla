------------------------------- MODULE XsTarget -------------------------------
(***************************************************************************)
(* The XiangShan adapter, run_target of targets/xiangshan-verilator: how   *)
(* it finds emulator and reference model, starts the emulator with the     *)
(* seed's logs as its output, bounds the wait and classifies what the logs *)
(* say.  Calls for one seed directory may overlap: a second generator on   *)
(* the batch id, or an emulator whose generator was killed alone.          *)
(***************************************************************************)
EXTENDS Naturals

CONSTANTS
    Calls,           \* calls of run_target for one seed directory
    Environments     \* what the process environment and the disk may offer

Homes == {"XS_PROJECT_ROOT", "NEMU_HOME", "NOOP_HOME"}
Override == {"unset", "missing", "file"}

\* homes: the variables the caller exports; envSh, emu, diff: whether the
\* SNIPPETGEN_XS_ variable is set and names a file; onPath: an emu on the
\* PATH; built: what is built under the caller's homes and beside env.sh.
Environment ==
    [homes : SUBSET Homes, envSh : Override, emu : Override, diff : Override,
     onPath : BOOLEAN, built : SUBSET ({"caller", "env_sh"} \X {"emu", "diff"})]

ASSUME XsTargetAssumption == Environments \subseteq Environment

----------------------------------------------------------------------------
(* Emulator and reference model *)

\* Mutated XsEnv: env.sh only fills in the homes the caller has not set.
XsEnvFillsIn(e, home) ==
    IF home \in e.homes THEN "caller"
    ELSE IF e.envSh = "file" THEN "env_sh" ELSE "unset"

\* Whose home the adapter uses: the caller's only when all three are set,
\* or when there is no env.sh to take all of them from.
XsEnv(e, home) ==
    IF Homes \subseteq e.homes THEN "caller"
    ELSE IF e.envSh = "file" THEN "env_sh"
    ELSE IF home \in e.homes THEN "caller" ELSE "unset"

\* A resolved path: where it comes from and whether a file is there.
Path(from, there) == [from |-> from, there |-> there]
NoPath == Path("none", FALSE)

EmuPath(e) ==
    LET noop == XsEnv(e, "NOOP_HOME") IN
    IF e.emu # "unset" THEN Path("override", e.emu = "file")
    ELSE IF <<noop, "emu">> \in e.built THEN Path(noop, TRUE)
    ELSE IF e.onPath THEN Path("path", TRUE) ELSE NoPath

DiffPath(e) ==
    LET nemu == XsEnv(e, "NEMU_HOME") IN
    IF e.diff # "unset" THEN Path("override", e.diff = "file")
    ELSE IF <<nemu, "diff">> \in e.built THEN Path(nemu, TRUE) ELSE NoPath

----------------------------------------------------------------------------
(* Calls and their emulators *)

VARIABLES
    env,             \* the environment of the calls
    pc,              \* pc[c]: statement of run_target
    result,          \* result[c]: the status it returned
    log,             \* texts in stdout.log and stderr.log
    fate,            \* fate[c]: the verdict line of c's simulation
    emu,             \* emu[c]: state of c's emulator
    child,           \* child[c]: the child it forked replays its failure
    rc,              \* rc[c]: its exit code
    foreign          \* foreign[c]: somebody else wrote to the logs since c
                     \* opened them

vars == <<env, pc, result, log, fate, emu, child, rc, foreign>>
emuVars == <<fate, emu, child, rc>>

\* The texts _classify_result looks for.  "none" is an emulator that says
\* nothing: it crashed, or ended before it had a verdict.
Texts == {"good", "bad", "abort", "exit", "limit"}
Fates == Texts \cup {"none"}
Status == {"error", "timeout", "ran", "bad_trap", "abort", "limit_exceeded",
           "nonzero_exit"}
Successes == {"good", "exit"}
Failures == Texts \ Successes
Alive == {"running", "printed"}
Over == {"returned", "raised", "killed"}

Init ==
    /\ env \in Environments
    /\ pc = [c \in Calls |-> "out"]
    /\ result = [c \in Calls |-> "none"]
    /\ log = {}
    /\ fate = [c \in Calls |-> "none"]
    /\ emu = [c \in Calls |-> "none"]
    /\ child = [c \in Calls |-> FALSE]
    /\ rc = [c \in Calls |-> 0]
    /\ foreign = [c \in Calls |-> FALSE]

\* c itself or its emulator changes the logs, under the eyes of the calls
\* that have them open or are about to read them.
Writes(c, texts) ==
    /\ log' = texts
    /\ foreign' = [d \in Calls |->
                      \/ foreign[d]
                      \/ d # c /\ pc[d] \in {"launch", "wait", "read"}]

Goto(c, there) == pc' = [pc EXCEPT ![c] = there] /\ UNCHANGED result
Return(c, status) ==
    /\ pc' = [pc EXCEPT ![c] = "returned"]
    /\ result' = [result EXCEPT ![c] = status]

\* The batch of c loads the adapter with load_run_target, which raises when
\* there is none for the target, and calls it for the seed.
Call(c) ==
    /\ pc[c] = "out"
    /\ Goto(c, "check") \/ Goto(c, "raised")
    /\ UNCHANGED <<env, log, emuVars, foreign>>

\* test.bin, emulator and reference model must be files; _error_result leaves
\* a note in stderr.log and empties stdout.log, and may raise in between.
\* test.bin may be missing in any environment.
CheckFiles(c) ==
    /\ pc[c] = "check"
    /\ \/ Return(c, "error") /\ Writes(c, {})
       \/ \E texts \in {log, {}} : Goto(c, "raised") /\ Writes(c, texts)
       \/ /\ EmuPath(env).there /\ DiffPath(env).there
          /\ Goto(c, "open")
          /\ UNCHANGED <<log, foreign>>
    /\ UNCHANGED <<env, emuVars>>

\* Both logs are opened for writing, unless the limits of the environment are
\* no integers or a log cannot be opened.
OpenLogs(c) ==
    /\ pc[c] = "open"
    /\ \/ Goto(c, "raised") /\ log' \in {log, {}}
       \/ Goto(c, "launch") /\ log' = {}
    /\ foreign' = [d \in Calls |->
                      IF d = c THEN FALSE
                      ELSE foreign[d] \/ pc[d] \in {"launch", "wait", "read"}]
    /\ UNCHANGED <<env, emuVars>>

\* subprocess.run starts the emulator, or raises OSError.
Launch(c) ==
    /\ pc[c] = "launch"
    /\ \/ /\ Goto(c, "wait")
          /\ emu' = [emu EXCEPT ![c] = "running"]
          /\ \E f \in Fates : fate' = [fate EXCEPT ![c] = f]
       \/ Goto(c, "raised") /\ UNCHANGED <<emu, fate>>
    /\ UNCHANGED <<env, log, child, rc, foreign>>

\* The emulator prints its verdict.  --enable-fork: a failing one may have
\* forked a child, which wakes up to simulate the last interval again.
PrintVerdict(c) ==
    /\ emu[c] = "running"
    /\ fate[c] # "none"
    /\ Writes(c, log \cup {fate[c]})
    /\ emu' = [emu EXCEPT ![c] = "printed"]
    /\ \/ UNCHANGED child
       \/ fate[c] \in Failures /\ child' = [child EXCEPT ![c] = TRUE]
    /\ UNCHANGED <<env, pc, result, fate, rc>>

\* The child has the logs open like its parent and nobody waits for it: it
\* prints how the interval failed this time, or ends.
Replay(c) ==
    /\ child[c]
    /\ \/ \E text \in Failures : Writes(c, log \cup {text}) /\ UNCHANGED child
       \/ child' = [child EXCEPT ![c] = FALSE] /\ UNCHANGED <<log, foreign>>
    /\ UNCHANGED <<env, pc, result, fate, emu, rc>>

\* The emulator ends with any exit code: a limit is none it reports as a
\* failure, and it may crash after its verdict.
Exit(c) ==
    /\ \/ emu[c] = "printed"
       \/ emu[c] = "running" /\ fate[c] = "none"
    /\ emu' = [emu EXCEPT ![c] = "ended"]
    /\ \E code \in {0, 1} : rc' = [rc EXCEPT ![c] = code]
    /\ UNCHANGED <<env, pc, result, log, fate, child, foreign>>

\* Mutated Expire: the emulator is not killed.
ExpireOnly(c) ==
    /\ pc[c] = "wait"
    /\ Return(c, "timeout")
    /\ UNCHANGED <<env, log, emuVars, foreign>>

\* Mutated Expire: no timeout is passed on.
ExpireNever(c) ==
    /\ pc[c] = "wait"
    /\ emu[c] = "ended"
    /\ Goto(c, "raised")
    /\ UNCHANGED <<env, log, emuVars, foreign>>

\* The timeout: subprocess.run kills the emulator and waits for it, also one
\* that has ended since it last looked.  It knows nothing of the child the
\* emulator forked.  The note appended to stderr.log has none of the texts.
Expire(c) ==
    /\ pc[c] = "wait"
    /\ emu' = [emu EXCEPT ![c] = "ended"]
    /\ Return(c, "timeout") \/ Goto(c, "raised")
    /\ UNCHANGED <<env, log, fate, child, rc, foreign>>

\* Mutated Reap: the emulator is started, and not waited for.
ReapAtOnce(c) ==
    /\ pc[c] = "wait"
    /\ Goto(c, "read")
    /\ UNCHANGED <<env, log, emuVars, foreign>>

\* The emulator has ended; its child may have not.
Reap(c) ==
    /\ pc[c] = "wait"
    /\ emu[c] = "ended"
    /\ Goto(c, "read")
    /\ UNCHANGED <<env, log, emuVars, foreign>>

\* Mutated ClassifyResult: the exit code is looked at before the texts.
ClassifyCodeFirst(texts, code) ==
    IF code = 0 THEN "ran"
    ELSE IF "bad" \in texts THEN "bad_trap"
    ELSE IF "abort" \in texts THEN "abort"
    ELSE IF "limit" \in texts THEN "limit_exceeded" ELSE "nonzero_exit"

\* Mutated ClassifyResult: the label takes the place of the status.
ClassifySimExit(texts, code) ==
    IF "good" \in texts THEN "ran"
    ELSE IF "exit" \in texts THEN "sim_exit"
    ELSE IF code = 0 THEN "ran" ELSE "abort"

\* The first of the texts found decides; then the exit code.
ClassifyResult(texts, code) ==
    IF "good" \in texts THEN "ran"
    ELSE IF "bad" \in texts THEN "bad_trap"
    ELSE IF "abort" \in texts THEN "abort"
    ELSE IF "exit" \in texts THEN "ran"
    ELSE IF "limit" \in texts THEN "limit_exceeded"
    ELSE IF code = 0 THEN "ran" ELSE "nonzero_exit"

\* The logs are read back and classified; reading may raise.
Classify(c) ==
    /\ pc[c] = "read"
    /\ Return(c, ClassifyResult(log, rc[c])) \/ Goto(c, "raised")
    /\ UNCHANGED <<env, log, emuVars, foreign>>

\* The generator is killed alone, or with its process group: emulator and
\* child live on, or die with it.
Kill(c) ==
    /\ pc[c] \notin Over \cup {"out"}
    /\ Goto(c, "killed")
    /\ \/ UNCHANGED <<emu, child>>
       \/ /\ emu' = [emu EXCEPT ![c] = IF @ \in Alive THEN "ended" ELSE @]
          /\ child' = [child EXCEPT ![c] = FALSE]
    /\ UNCHANGED <<env, log, fate, rc, foreign>>

\* What the adapter does by itself; the emulator need not do anything.
Adapter(c) ==
    \/ CheckFiles(c) \/ OpenLogs(c) \/ Launch(c) \/ Expire(c) \/ Reap(c)
    \/ Classify(c)

Next ==
    \E c \in Calls :
        Call(c) \/ Adapter(c) \/ PrintVerdict(c) \/ Replay(c) \/ Exit(c) \/ Kill(c)

\* The thread of the call runs, and the timeout of subprocess.run fires.
Spec == Init /\ [][Next]_vars /\ \A c \in Calls : WF_vars(Adapter(c))

----------------------------------------------------------------------------
(* Properties *)

TypeOK ==
    /\ env \in Environments
    /\ pc \in [Calls -> Over \cup {"out", "check", "open", "launch", "wait", "read"}]
    /\ result \in [Calls -> Status \cup {"none"}]
    /\ log \subseteq Texts
    /\ fate \in [Calls -> Fates]
    /\ emu \in [Calls -> Alive \cup {"none", "ended"}]
    /\ child \in [Calls -> BOOLEAN]
    /\ rc \in [Calls -> {0, 1}]
    /\ foreign \in [Calls -> BOOLEAN]

\* An emulator never runs without a reference model, and never with one of
\* another checkout than its own, unless an override or the PATH chose it.
ReferenceOfSameCheckout ==
    \A c \in Calls : emu[c] # "none" =>
        /\ EmuPath(env).there /\ DiffPath(env).there
        /\ {EmuPath(env).from, DiffPath(env).from} # {"caller", "env_sh"}

\* The status is the fate of the call's own program.  A program that failed,
\* hit the limit or was compared unequal is never "ran", whatever its replay
\* printed, whatever the exit code and whatever earlier calls left in the
\* logs; a good one is "ran" even when the emulator crashed afterwards.  Only
\* somebody writing to the logs since the call opened them can change that.
StatusIsOwnFate ==
    \A c \in Calls :
        /\ pc[c] = "returned"
        /\ result[c] \notin {"error", "timeout"}
        /\ ~foreign[c]
        => \/ fate[c] \in Successes /\ result[c] = "ran"
           \/ fate[c] = "none" /\ result[c] = (IF rc[c] = 0 THEN "ran" ELSE "nonzero_exit")
           \/ fate[c] \in {"bad", "abort", "limit"}
                 /\ result[c] \in {"bad_trap", "abort", "limit_exceeded"}

\* A call that came back leaves nothing behind that could make the logs of the
\* next call say more than they should: subprocess.run has reaped its emulator
\* or killed it, and what it does not know of, the forked child, is there only
\* when the simulation has failed and the logs say so, unless another call has
\* emptied them.
NoEmulatorLeftBehind ==
    \A c \in Calls : pc[c] \in {"returned", "raised"} =>
        /\ emu[c] \notin Alive
        /\ child[c] =>
              /\ fate[c] \in Failures
              /\ fate[c] \in log \/ \E d \in Calls \ {c} : pc[d] # "out"

\* Every call comes back, whatever its emulator does.
EveryCallComesBack ==
    \A c \in Calls : pc[c] = "check" ~> pc[c] \in Over
=============================================================================
