------------------------------ MODULE SeedBuild ------------------------------
(***************************************************************************)
(* One build directory (build/<suite>, or .../runs/<batch>/seed_<n>) and   *)
(* the builds made in it one after the other: emit_harness of emitter.py   *)
(* followed by build_artifacts of toolchain.py, as cmd_build and           *)
(* _prepare_seed_run call them.  The content of a file is the number of    *)
(* the attempt whose plan it was made from, and it flows from file to file *)
(* as the tools read and write them.                                       *)
(***************************************************************************)
EXTENDS Naturals, Sequences

CONSTANT
    MaxBuilds        \* bound on the attempts made in the directory

ASSUME MaxBuildsAssumption == MaxBuilds \in Nat \ {0}

Payload == {"elf", "bin", "disasm"}
Outputs == Payload \cup {"manifest"}
Files == Outputs \cup {"harness", "object"}

VARIABLES
    pc,              \* the statement the builder is at, "idle" between builds
    attempt,         \* number of the newest attempt
    ver,             \* ver[f]: attempt f was made from, 0 when f is absent
    torn,            \* files that were only partly written
    todo,            \* files still to unlink, in order
    outcome          \* how the newest attempt ended, or "running"

vars == <<pc, attempt, ver, torn, todo, outcome>>

\* Failures the code looks for, those it raises on before anything is cleaned
\* up, and a tool that subprocess.run cannot start (an OSError).
Handled == {"compile", "link", "objcopy", "objdump"}
Causes == Handled \cup {"no_toolchain", "no_objdump", "not_started"}
Outcomes == Causes \cup {"none", "running", "built", "interrupted"}
Stages == {"idle", "emit", "detect", "objdir", "cleanup", "inputs", "harness",
           "link", "objcopy", "resolve", "objdump", "manifest", "abort"}

Init ==
    /\ pc = "idle"
    /\ attempt = 0
    /\ ver = [f \in Files |-> 0]
    /\ torn = {}
    /\ todo = <<>>
    /\ outcome = "none"

----------------------------------------------------------------------------
(* Building blocks *)

\* f now holds, complete, what was made from attempt k; a tool makes it from
\* an input that is there.
Write(f, k) ==
    /\ ver' = [ver EXCEPT ![f] = k]
    /\ torn' = torn \ {f}

\* A tool failed and either left a partial output or none.
Spoil(f) ==
    \/ UNCHANGED <<ver, torn>>
    \/ ver' = [ver EXCEPT ![f] = attempt] /\ torn' = torn \cup {f}

Goto(stage) == pc' = stage /\ UNCHANGED <<attempt, todo, outcome>>

\* Mutated Raise: the stage is recorded in place of the cause.
RaiseStage(cause) ==
    /\ pc' = "idle"
    /\ outcome' = pc
    /\ UNCHANGED <<attempt, todo>>

\* The exception leaves build_artifacts without touching the outputs.
Raise(cause) ==
    /\ pc' = "idle"
    /\ outcome' = cause
    /\ UNCHANGED <<attempt, todo>>

\* The exception is raised after a loop that unlinks the files of the list.
RaiseAfter(cause, unlinks) ==
    /\ pc' = "abort"
    /\ todo' = unlinks
    /\ outcome' = cause
    /\ UNCHANGED attempt

\* Mutated CleanupOrder: the manifest, or the disassembly, is forgotten.
CleanupKeepsManifest == <<"elf", "bin", "disasm">>

CleanupKeepsDisasm == <<"elf", "bin", "manifest">>

\* The files unlinked before anything is compiled, in the code's order.
CleanupOrder == <<"elf", "bin", "disasm", "manifest">>

\* Mutated LinkAbortOrder: the linker's own output is forgotten.
AbortKeepsElf == <<"bin", "manifest">>

LinkAbortOrder == <<"elf", "bin", "manifest">>

----------------------------------------------------------------------------
(* One action per statement that changes or checks the directory *)

\* cmd_build or _prepare_seed_run is entered.
Start ==
    /\ pc = "idle"
    /\ attempt < MaxBuilds
    /\ attempt' = attempt + 1
    /\ pc' = "emit"
    /\ outcome' = "running"
    /\ todo' = <<>>
    /\ UNCHANGED <<ver, torn>>

\* Mutated EmitHarness: a harness that is already there is kept.
EmitHarnessOnce ==
    /\ pc = "emit"
    /\ Write("harness", IF ver["harness"] = 0 THEN attempt ELSE ver["harness"])
    /\ Goto("detect")

EmitHarness ==
    /\ pc = "emit"
    /\ Write("harness", attempt)
    /\ Goto("detect")

\* detect_toolchain raises when gcc or objcopy is not on the PATH.
DetectToolchain ==
    /\ pc = "detect"
    /\ Goto("objdir") \/ Raise("no_toolchain")
    /\ UNCHANGED <<ver, torn>>

\* Mutated ClearObjects: outputs are only unlinked when obj/ was there.
ClearOnlyWithObjects ==
    /\ pc = "objdir"
    /\ Write("object", 0)
    /\ pc' = IF ver["object"] = 0 THEN "inputs" ELSE "cleanup"
    /\ todo' = IF ver["object"] = 0 THEN <<>> ELSE CleanupOrder
    /\ UNCHANGED <<attempt, outcome>>

\* rmtree of obj/, then the list of outputs to unlink is walked.
ClearObjects ==
    /\ pc = "objdir"
    /\ Write("object", 0)
    /\ pc' = "cleanup"
    /\ todo' = CleanupOrder
    /\ UNCHANGED <<attempt, outcome>>

\* One iteration of an unlink loop, of the cleanup or of a failure path.
Unlink ==
    /\ pc \in {"cleanup", "abort"}
    /\ todo # <<>>
    /\ Write(Head(todo), 0)
    /\ todo' = Tail(todo)
    /\ UNCHANGED <<pc, attempt, outcome>>

\* The unlink loop is over: go on compiling, or raise.
Unlinked ==
    /\ pc \in {"cleanup", "abort"}
    /\ todo = <<>>
    /\ pc' = IF pc = "cleanup" THEN "inputs" ELSE "idle"
    /\ UNCHANGED <<attempt, ver, torn, todo, outcome>>

\* A tool cannot be started: no permission, no such interpreter, or gone
\* since detect_toolchain saw it.  Only objcopy's has a handler, and that one
\* is for a missing file alone.
NotStarted == UNCHANGED <<ver, torn>> /\ Raise("not_started")

\* The runtime sources and the plan's sources, the same for every attempt.
CompileInputs ==
    /\ pc = "inputs"
    /\ Goto("harness") \/ Raise("compile") \/ Raise("not_started")
    /\ UNCHANGED <<ver, torn>>

CompileHarness ==
    /\ pc = "harness"
    /\ \/ ver["harness"] # 0 /\ Write("object", ver["harness"]) /\ Goto("link")
       \/ UNCHANGED <<ver, torn>> /\ Raise("compile")
       \/ NotStarted

Link ==
    /\ pc = "link"
    /\ \/ ver["object"] # 0 /\ Write("elf", ver["object"]) /\ Goto("objcopy")
       \/ Spoil("elf") /\ RaiseAfter("link", LinkAbortOrder)
       \/ NotStarted

\* The failures of objcopy: not to be found, a non-zero exit, or not to be
\* started, which passes the handler and leaves test.elf.
Objcopy ==
    /\ pc = "objcopy"
    /\ \/ ver["elf"] # 0 /\ Write("bin", ver["elf"]) /\ Goto("resolve")
       \/ UNCHANGED <<ver, torn>> /\ RaiseAfter("objcopy", LinkAbortOrder)
       \/ Spoil("bin") /\ RaiseAfter("objcopy", CleanupOrder)
       \/ NotStarted

\* resolve_objdump finds no objdump: nothing is cleaned up.
ResolveObjdump ==
    /\ pc = "resolve"
    /\ Goto("objdump") \/ Raise("no_objdump")
    /\ UNCHANGED <<ver, torn>>

\* Mutated Objdump: its exit status is not looked at.
ObjdumpUnchecked ==
    /\ pc = "objdump"
    /\ \/ Write("disasm", ver["elf"]) /\ Goto("manifest")
       \/ UNCHANGED <<ver, torn>> /\ Goto("manifest")
       \/ NotStarted

\* objdump runs and its output is written, or it exits non-zero.
Objdump ==
    /\ pc = "objdump"
    /\ \/ ver["elf"] # 0 /\ Write("disasm", ver["elf"]) /\ Goto("manifest")
       \/ UNCHANGED <<ver, torn>> /\ RaiseAfter("objdump", CleanupOrder)
       \/ NotStarted

WriteManifest ==
    /\ pc = "manifest"
    /\ Write("manifest", attempt)
    /\ pc' = "idle"
    /\ outcome' = "built"
    /\ UNCHANGED <<attempt, todo>>

\* What the statement at a stage was writing when it was cut short.
BeingWritten(stage) ==
    CASE stage = "emit"     -> {"harness"}
      [] stage = "harness"  -> {"object"}
      [] stage = "link"     -> {"elf"}
      [] stage = "objcopy"  -> {"bin"}
      [] stage = "objdump"  -> {"disasm"}
      [] stage = "manifest" -> {"manifest"}
      [] OTHER              -> {}

\* Ctrl-C, a kill, a full disk or a file operation that fails ends the
\* builder where it stands: every write_text and every tool output may be left
\* half written.
Interrupt ==
    /\ pc # "idle"
    /\ pc' = "idle"
    /\ outcome' = "interrupted"
    /\ \/ UNCHANGED <<ver, torn>>
       \/ \E f \in BeingWritten(pc) :
            /\ ver' = [ver EXCEPT ![f] = attempt]
            /\ torn' = torn \cup {f}
    /\ UNCHANGED <<attempt, todo>>

Next ==
    \/ Start \/ EmitHarness \/ DetectToolchain \/ ClearObjects
    \/ Unlink \/ Unlinked \/ CompileInputs \/ CompileHarness \/ Link
    \/ Objcopy \/ ResolveObjdump \/ Objdump \/ WriteManifest
    \/ Interrupt

Spec == Init /\ [][Next]_vars

----------------------------------------------------------------------------
(* Properties *)

TypeOK ==
    /\ pc \in Stages
    /\ attempt \in 0..MaxBuilds
    /\ ver \in [Files -> 0..MaxBuilds]
    /\ torn \subseteq Files
    /\ todo \in Seq(Outputs)
    /\ outcome \in Outcomes

Whole(f, k) == ver[f] = k /\ f \notin torn

\* Whatever was interrupted or failed before, a manifest in the directory
\* never stands beside a payload file of another build or a torn one: the
\* files it names are its own or are gone (toolchain.py unlinks all four
\* before it compiles and writes the manifest last).
ManifestNeverMismatched ==
    ver["manifest"] # 0 =>
        \A f \in Payload : ver[f] = 0 \/ Whole(f, ver["manifest"])

\* When build_artifacts returns, elf, bin, disassembly and manifest are
\* complete and all made from the harness this very call compiled, and stay
\* so until the next attempt.
ReturnedBuildIsComplete ==
    outcome = "built" =>
        /\ \A f \in Outputs : Whole(f, attempt)
        /\ ver["harness"] = attempt

\* A compile, link, objcopy or objdump failure the code looks for leaves the
\* directory without any output, of this attempt or of an older one (the
\* unlink loops of the failure paths, together with the cleanup before the
\* first compile).  A tool that cannot be started, or no objdump, passes those
\* loops: it leaves at most the whole elf and bin of this attempt, and nothing
\* that would make them look like a finished build.
FailureLeavesNoOutputs ==
    /\ pc = "idle" /\ outcome \in Handled =>
          \A f \in Outputs : ver[f] = 0 /\ f \notin torn
    /\ pc = "idle" /\ outcome \in {"no_objdump", "not_started"} =>
          /\ ver["manifest"] = 0 /\ ver["disasm"] = 0
          /\ \A f \in {"elf", "bin"} : ver[f] = 0 \/ Whole(f, attempt)

PastCleanup == {"inputs", "harness", "link", "objcopy", "resolve", "objdump",
                "manifest", "abort"}

\* Once the cleanup of an attempt is over, whatever fails or is cut short
\* afterwards, no output of an older attempt is left to be taken for its
\* result: not while it compiles, and not after it raised.
NoStaleOutputAfterCleanup ==
    pc \in PastCleanup \/ outcome \in Causes \ {"no_toolchain"} =>
        \A f \in Outputs : ver[f] \in {0, attempt}

\* tests/test_build_pipeline.py:673, test_failed_rebuild_cleans_stale_outputs:
\* after a rebuild that raised, no elf, bin or manifest of an earlier build
\* is left.  Refuted: emit_harness has already replaced the harness when
\* detect_toolchain raises, and that is before the outputs are unlinked.
FailedRebuildCleansStaleOutputs ==
    pc = "idle" /\ outcome \in Causes =>
        \A f \in {"elf", "bin", "manifest"} : ver[f] \in {0, attempt}

\* The directory as a reader of the publication protocol sees it.
Published == IF "manifest" \in torn THEN 0 ELSE ver["manifest"]

Complete ==
    {<<f, ver[f]>> : f \in {g \in Payload : ver[g] # 0 /\ g \notin torn}}

Publication ==
    INSTANCE BuildPublication WITH
        published <- Published,
        payload <- Complete

\* Every step of a build is a step of the publication protocol or invisible
\* to it: the manifest is written beside the complete newest payload, and
\* withdrawn before the first file of the next payload is written.
ImplementsPublication == Publication!PubSpec

----------------------------------------------------------------------------
(* The inductive invariant behind the safety properties *)

Absent(f) == ver[f] = 0 /\ f \notin torn

\* Only a started attempt is under way, and how it ended is known only once
\* it has ended or is unlinking what it leaves.
AttemptUnderWay ==
    /\ pc # "idle" => attempt > 0
    /\ pc = "abort" => outcome \in {"link", "objcopy", "objdump"}
    /\ pc \notin {"idle", "abort"} => outcome = "running"

\* While files are unlinked, an output is gone or still on the list.
UnlinkCovers ==
    pc \in {"cleanup", "abort"} =>
        \A f \in Outputs : Absent(f) \/ \E i \in DOMAIN todo : todo[i] = f

\* The outputs an attempt has completed when it is at a stage.
Completed(stage) ==
    CASE stage = "objcopy"               -> {"elf"}
      [] stage \in {"resolve", "objdump"} -> {"elf", "bin"}
      [] stage = "manifest"              -> Payload
      [] OTHER                           -> {}

\* Past the cleanup the directory holds what this attempt has completed and
\* nothing else.
OnlyOwnOutputs ==
    pc \in PastCleanup \ {"abort"} =>
        \A f \in Outputs : IF f \in Completed(pc) THEN Whole(f, attempt)
                                                ELSE Absent(f)

\* A failure path never sees a manifest.
NoManifestPastCleanup == pc \in PastCleanup => Absent("manifest")

\* The harness being compiled, and its object, are this attempt's.
HarnessIsNewest ==
    /\ pc \notin {"idle", "emit", "abort"} => Whole("harness", attempt)
    /\ pc = "link" => ver["object"] = attempt

Safety ==
    /\ ManifestNeverMismatched
    /\ ReturnedBuildIsComplete
    /\ FailureLeavesNoOutputs
    /\ NoStaleOutputAfterCleanup

IInv ==
    /\ TypeOK
    /\ AttemptUnderWay
    /\ UnlinkCovers
    /\ OnlyOwnOutputs
    /\ NoManifestPastCleanup
    /\ HarnessIsNewest
    /\ Safety
=============================================================================
