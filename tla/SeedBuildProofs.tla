--------------------------- MODULE SeedBuildProofs ---------------------------
(***************************************************************************)
(* Proofs about SeedBuild for every bound MaxBuilds.  IInv is inductive;   *)
(* the safety properties of a build directory and the publication          *)
(* protocol it implements follow from it, and so does that a build is one  *)
(* step of RunBatch (BatchBuild).                                          *)
(***************************************************************************)
EXTENDS BatchBuild, TLAPS

\* The two lists of files to unlink name outputs only.
LEMMA UnlinkLists ==
        /\ CleanupOrder \in Seq(Outputs)
        /\ LinkAbortOrder \in Seq(Outputs)
  BY DEF CleanupOrder, LinkAbortOrder, Outputs, Payload

\* An entry of a list is its head or is an entry of its tail: an unlink loop
\* loses no file of its list.
LEMMA TailCovers ==
  ASSUME NEW s \in Seq(Outputs), s # <<>>, NEW i \in DOMAIN s
  PROVE  s[i] = Head(s) \/ \E j \in DOMAIN Tail(s) : Tail(s)[j] = s[i]
  <1>1. CASE i = 1
    BY <1>1
  <1>2. CASE i # 1
    <2>1. i \in 2..Len(s) /\ Len(Tail(s)) = Len(s) - 1
      BY <1>2
    <2>2. i - 1 \in DOMAIN Tail(s) /\ Tail(s)[i - 1] = s[i]
      BY <2>1
    <2> QED BY <2>2
  <1> QED BY <1>1, <1>2

\* An empty directory satisfies the inductive invariant.
LEMMA InitIInv == Init => IInv
  BY MaxBuildsAssumption
  DEF Init, IInv, TypeOK, AttemptUnderWay, UnlinkCovers, OnlyOwnOutputs,
      NoManifestPastCleanup, HarnessIsNewest, Safety, ManifestNeverMismatched,
      ReturnedBuildIsComplete, FailureLeavesNoOutputs,
      NoStaleOutputAfterCleanup, Stages, Outcomes, Causes, Handled, Files,
      Outputs, Payload, PastCleanup

\* Every statement of a build, every failure and every interruption keeps it.
LEMMA StepIInv == IInv /\ [Next]_vars => IInv'
  <1> SUFFICES ASSUME IInv, [Next]_vars PROVE IInv'
    OBVIOUS
  <1> USE MaxBuildsAssumption
      DEF Stages, Outcomes, Causes, Handled, Files, Outputs, Payload,
          PastCleanup, NotStarted, Raise, Whole, Absent, Completed
  <1>1. CASE Start
    <2>1. TypeOK'
      BY <1>1 DEF IInv, TypeOK, Start
    <2>2. AttemptUnderWay'
      BY <1>1 DEF IInv, TypeOK, AttemptUnderWay, Start
    <2>3. UnlinkCovers'
      BY <1>1 DEF IInv, TypeOK, UnlinkCovers, Start
    <2>4. OnlyOwnOutputs'
      BY <1>1 DEF IInv, TypeOK, OnlyOwnOutputs, Start
    <2>5. NoManifestPastCleanup'
      BY <1>1 DEF IInv, TypeOK, NoManifestPastCleanup, Start
    <2>6. HarnessIsNewest'
      BY <1>1 DEF IInv, TypeOK, HarnessIsNewest, Start
    <2>7. Safety'
      BY <1>1 DEF IInv, TypeOK, Safety, ManifestNeverMismatched,
          ReturnedBuildIsComplete, FailureLeavesNoOutputs,
          NoStaleOutputAfterCleanup, Start
    <2> QED BY <2>1, <2>2, <2>3, <2>4, <2>5, <2>6, <2>7 DEF IInv
  <1>2. CASE EmitHarness
    <2>1. TypeOK'
      BY <1>2 DEF IInv, TypeOK, EmitHarness, Write, Goto
    <2>2. AttemptUnderWay'
      BY <1>2 DEF IInv, TypeOK, AttemptUnderWay, EmitHarness, Write, Goto
    <2>3. UnlinkCovers'
      BY <1>2 DEF IInv, TypeOK, UnlinkCovers, EmitHarness, Write, Goto
    <2>4. OnlyOwnOutputs'
      BY <1>2 DEF IInv, TypeOK, OnlyOwnOutputs, EmitHarness, Write, Goto
    <2>5. NoManifestPastCleanup'
      BY <1>2 DEF IInv, TypeOK, NoManifestPastCleanup, EmitHarness, Write,
          Goto
    <2>6. HarnessIsNewest'
      BY <1>2 DEF IInv, TypeOK, HarnessIsNewest, EmitHarness, Write, Goto
    <2>7. Safety'
      BY <1>2 DEF IInv, TypeOK, Safety, ManifestNeverMismatched,
          ReturnedBuildIsComplete, FailureLeavesNoOutputs,
          NoStaleOutputAfterCleanup, EmitHarness, Write, Goto
    <2> QED BY <2>1, <2>2, <2>3, <2>4, <2>5, <2>6, <2>7 DEF IInv
  <1>3. CASE DetectToolchain
    <2>1. TypeOK'
      BY <1>3 DEF IInv, TypeOK, DetectToolchain, Goto, Raise
    <2>2. AttemptUnderWay'
      BY <1>3 DEF IInv, TypeOK, AttemptUnderWay, DetectToolchain, Goto,
          Raise
    <2>3. UnlinkCovers'
      BY <1>3 DEF IInv, TypeOK, UnlinkCovers, DetectToolchain, Goto, Raise
    <2>4. OnlyOwnOutputs'
      BY <1>3 DEF IInv, TypeOK, OnlyOwnOutputs, DetectToolchain, Goto, Raise
    <2>5. NoManifestPastCleanup'
      BY <1>3 DEF IInv, TypeOK, NoManifestPastCleanup, DetectToolchain,
          Goto, Raise
    <2>6. HarnessIsNewest'
      BY <1>3 DEF IInv, TypeOK, HarnessIsNewest, DetectToolchain, Goto,
          Raise
    <2>7. Safety'
      BY <1>3 DEF IInv, TypeOK, Safety, ManifestNeverMismatched,
          ReturnedBuildIsComplete, FailureLeavesNoOutputs,
          NoStaleOutputAfterCleanup, DetectToolchain, Goto, Raise
    <2> QED BY <2>1, <2>2, <2>3, <2>4, <2>5, <2>6, <2>7 DEF IInv
  <1>4. CASE ClearObjects
    <2>1. TypeOK'
      BY <1>4, UnlinkLists DEF IInv, TypeOK, ClearObjects, Write
    <2>2. AttemptUnderWay'
      BY <1>4 DEF IInv, TypeOK, AttemptUnderWay, ClearObjects, Write
    <2>3. UnlinkCovers'
      BY <1>4 DEF IInv, TypeOK, UnlinkCovers, ClearObjects, Write,
          CleanupOrder
    <2>4. OnlyOwnOutputs'
      BY <1>4 DEF IInv, TypeOK, OnlyOwnOutputs, ClearObjects, Write
    <2>5. NoManifestPastCleanup'
      BY <1>4 DEF IInv, TypeOK, NoManifestPastCleanup, ClearObjects, Write
    <2>6. HarnessIsNewest'
      BY <1>4 DEF IInv, TypeOK, HarnessIsNewest, ClearObjects, Write
    <2>7. Safety'
      BY <1>4 DEF IInv, TypeOK, Safety, ManifestNeverMismatched,
          ReturnedBuildIsComplete, FailureLeavesNoOutputs,
          NoStaleOutputAfterCleanup, ClearObjects, Write
    <2> QED BY <2>1, <2>2, <2>3, <2>4, <2>5, <2>6, <2>7 DEF IInv
  <1>5. CASE Unlink
    <2>1. TypeOK'
      BY <1>5 DEF IInv, TypeOK, OnlyOwnOutputs, Unlink, Write
    <2>2. AttemptUnderWay'
      BY <1>5 DEF IInv, TypeOK, AttemptUnderWay, Unlink, Write
    <2>3. UnlinkCovers'
      <3> SUFFICES ASSUME NEW f \in Outputs, ~Absent(f)'
                   PROVE  \E j \in DOMAIN todo' : todo'[j] = f
        BY <1>5 DEF UnlinkCovers, Unlink
      <3>1. f # Head(todo) /\ ~Absent(f)
        BY <1>5 DEF IInv, TypeOK, Unlink, Write
      <3>2. PICK i \in DOMAIN todo : todo[i] = f
        BY <1>5, <3>1 DEF IInv, UnlinkCovers, Unlink
      <3> QED
        BY <1>5, <3>1, <3>2, TailCovers DEF IInv, TypeOK, Unlink
    <2>4. OnlyOwnOutputs'
      BY <1>5 DEF IInv, TypeOK, OnlyOwnOutputs, Unlink, Write
    <2>5. NoManifestPastCleanup'
      BY <1>5 DEF IInv, TypeOK, NoManifestPastCleanup, Unlink, Write
    <2>6. HarnessIsNewest'
      BY <1>5 DEF IInv, TypeOK, HarnessIsNewest, Unlink, Write
    <2>7. Safety'
      BY <1>5 DEF IInv, TypeOK, AttemptUnderWay, Safety,
          ManifestNeverMismatched, ReturnedBuildIsComplete,
          FailureLeavesNoOutputs, NoStaleOutputAfterCleanup, Unlink, Write
    <2> QED BY <2>1, <2>2, <2>3, <2>4, <2>5, <2>6, <2>7 DEF IInv
  <1>6. CASE Unlinked
    <2>1. TypeOK'
      BY <1>6 DEF IInv, TypeOK, Unlinked
    <2>2. AttemptUnderWay'
      BY <1>6 DEF IInv, TypeOK, AttemptUnderWay, Unlinked
    <2>3. UnlinkCovers'
      BY <1>6 DEF IInv, TypeOK, UnlinkCovers, Unlinked
    <2>4. OnlyOwnOutputs'
      BY <1>6 DEF IInv, TypeOK, UnlinkCovers, OnlyOwnOutputs, Unlinked
    <2>5. NoManifestPastCleanup'
      BY <1>6 DEF IInv, TypeOK, UnlinkCovers, NoManifestPastCleanup,
          Unlinked
    <2>6. HarnessIsNewest'
      BY <1>6 DEF IInv, TypeOK, HarnessIsNewest, Unlinked
    <2>7. Safety'
      BY <1>6 DEF IInv, TypeOK, UnlinkCovers, Safety,
          ManifestNeverMismatched, ReturnedBuildIsComplete,
          FailureLeavesNoOutputs, NoStaleOutputAfterCleanup, Unlinked
    <2> QED BY <2>1, <2>2, <2>3, <2>4, <2>5, <2>6, <2>7 DEF IInv
  <1>7. CASE CompileInputs
    <2>1. TypeOK'
      BY <1>7 DEF IInv, TypeOK, CompileInputs, Goto, Raise
    <2>2. AttemptUnderWay'
      BY <1>7 DEF IInv, TypeOK, AttemptUnderWay, CompileInputs, Goto, Raise
    <2>3. UnlinkCovers'
      BY <1>7 DEF IInv, TypeOK, UnlinkCovers, CompileInputs, Goto, Raise
    <2>4. OnlyOwnOutputs'
      BY <1>7 DEF IInv, TypeOK, OnlyOwnOutputs, CompileInputs, Goto, Raise
    <2>5. NoManifestPastCleanup'
      BY <1>7 DEF IInv, TypeOK, NoManifestPastCleanup, CompileInputs, Goto,
          Raise
    <2>6. HarnessIsNewest'
      BY <1>7 DEF IInv, TypeOK, HarnessIsNewest, CompileInputs, Goto, Raise
    <2>7. Safety'
      BY <1>7 DEF IInv, TypeOK, OnlyOwnOutputs, Safety,
          ManifestNeverMismatched, ReturnedBuildIsComplete,
          FailureLeavesNoOutputs, NoStaleOutputAfterCleanup, CompileInputs,
          Goto, Raise
    <2> QED BY <2>1, <2>2, <2>3, <2>4, <2>5, <2>6, <2>7 DEF IInv
  <1>8. CASE CompileHarness
    <2>1. TypeOK'
      BY <1>8 DEF IInv, TypeOK, CompileHarness, Write, Goto, Raise
    <2>2. AttemptUnderWay'
      BY <1>8 DEF IInv, TypeOK, AttemptUnderWay, CompileHarness, Write,
          Goto, Raise
    <2>3. UnlinkCovers'
      BY <1>8 DEF IInv, TypeOK, UnlinkCovers, CompileHarness, Write, Goto,
          Raise
    <2>4. OnlyOwnOutputs'
      BY <1>8 DEF IInv, TypeOK, OnlyOwnOutputs, CompileHarness, Write, Goto,
          Raise
    <2>5. NoManifestPastCleanup'
      BY <1>8 DEF IInv, TypeOK, NoManifestPastCleanup, CompileHarness,
          Write, Goto, Raise
    <2>6. HarnessIsNewest'
      BY <1>8 DEF IInv, TypeOK, HarnessIsNewest, CompileHarness, Write,
          Goto, Raise
    <2>7. Safety'
      BY <1>8 DEF IInv, TypeOK, OnlyOwnOutputs, Safety,
          ManifestNeverMismatched, ReturnedBuildIsComplete,
          FailureLeavesNoOutputs, NoStaleOutputAfterCleanup, CompileHarness,
          Write, Goto, Raise
    <2> QED BY <2>1, <2>2, <2>3, <2>4, <2>5, <2>6, <2>7 DEF IInv
  <1>9. CASE Link
    <2>1. TypeOK'
      BY <1>9, UnlinkLists DEF IInv, TypeOK, Link, Write, Spoil, Goto,
          RaiseAfter
    <2>2. AttemptUnderWay'
      BY <1>9 DEF IInv, TypeOK, AttemptUnderWay, Link, Write, Spoil, Goto,
          RaiseAfter
    <2>3. UnlinkCovers'
      BY <1>9 DEF IInv, TypeOK, UnlinkCovers, OnlyOwnOutputs, Link, Write,
          Spoil, Goto, RaiseAfter, CleanupOrder, LinkAbortOrder
    <2>4. OnlyOwnOutputs'
      BY <1>9 DEF IInv, TypeOK, OnlyOwnOutputs, HarnessIsNewest, Link,
          Write, Spoil, Goto, RaiseAfter
    <2>5. NoManifestPastCleanup'
      BY <1>9 DEF IInv, TypeOK, NoManifestPastCleanup, Link, Write, Spoil,
          Goto, RaiseAfter
    <2>6. HarnessIsNewest'
      BY <1>9 DEF IInv, TypeOK, HarnessIsNewest, Link, Write, Spoil, Goto,
          RaiseAfter
    <2>7. Safety'
      BY <1>9 DEF IInv, TypeOK, OnlyOwnOutputs, HarnessIsNewest, Safety,
          ManifestNeverMismatched, ReturnedBuildIsComplete,
          FailureLeavesNoOutputs, NoStaleOutputAfterCleanup, Link, Write,
          Spoil, Goto, RaiseAfter
    <2> QED BY <2>1, <2>2, <2>3, <2>4, <2>5, <2>6, <2>7 DEF IInv
  <1>10. CASE Objcopy
    <2>1. TypeOK'
      BY <1>10, UnlinkLists DEF IInv, TypeOK, Objcopy, Write, Spoil, Goto,
          RaiseAfter
    <2>2. AttemptUnderWay'
      BY <1>10 DEF IInv, TypeOK, AttemptUnderWay, Objcopy, Write, Spoil,
          Goto, RaiseAfter
    <2>3. UnlinkCovers'
      BY <1>10 DEF IInv, TypeOK, UnlinkCovers, OnlyOwnOutputs, Objcopy,
          Write, Spoil, Goto, RaiseAfter, CleanupOrder, LinkAbortOrder
    <2>4. OnlyOwnOutputs'
      BY <1>10 DEF IInv, TypeOK, OnlyOwnOutputs, Objcopy, Write, Spoil,
          Goto, RaiseAfter
    <2>5. NoManifestPastCleanup'
      BY <1>10 DEF IInv, TypeOK, NoManifestPastCleanup, Objcopy, Write,
          Spoil, Goto, RaiseAfter
    <2>6. HarnessIsNewest'
      BY <1>10 DEF IInv, TypeOK, HarnessIsNewest, Objcopy, Write, Spoil,
          Goto, RaiseAfter
    <2>7. Safety'
      BY <1>10 DEF IInv, TypeOK, OnlyOwnOutputs, Safety,
          ManifestNeverMismatched, ReturnedBuildIsComplete,
          FailureLeavesNoOutputs, NoStaleOutputAfterCleanup, Objcopy, Write,
          Spoil, Goto, RaiseAfter
    <2> QED BY <2>1, <2>2, <2>3, <2>4, <2>5, <2>6, <2>7 DEF IInv
  <1>11. CASE ResolveObjdump
    <2>1. TypeOK'
      BY <1>11 DEF IInv, TypeOK, ResolveObjdump, Goto, Raise
    <2>2. AttemptUnderWay'
      BY <1>11 DEF IInv, TypeOK, AttemptUnderWay, ResolveObjdump, Goto,
          Raise
    <2>3. UnlinkCovers'
      BY <1>11 DEF IInv, TypeOK, UnlinkCovers, ResolveObjdump, Goto, Raise
    <2>4. OnlyOwnOutputs'
      BY <1>11 DEF IInv, TypeOK, OnlyOwnOutputs, ResolveObjdump, Goto, Raise
    <2>5. NoManifestPastCleanup'
      BY <1>11 DEF IInv, TypeOK, NoManifestPastCleanup, ResolveObjdump,
          Goto, Raise
    <2>6. HarnessIsNewest'
      BY <1>11 DEF IInv, TypeOK, HarnessIsNewest, ResolveObjdump, Goto,
          Raise
    <2>7. Safety'
      BY <1>11 DEF IInv, TypeOK, OnlyOwnOutputs, NoManifestPastCleanup, Safety,
          ManifestNeverMismatched, ReturnedBuildIsComplete, FailureLeavesNoOutputs,
          NoStaleOutputAfterCleanup, ResolveObjdump, Goto, Raise
    <2> QED BY <2>1, <2>2, <2>3, <2>4, <2>5, <2>6, <2>7 DEF IInv
  <1>12. CASE Objdump
    <2>1. TypeOK'
      BY <1>12, UnlinkLists DEF IInv, TypeOK, Objdump, Write, Goto, Raise,
          RaiseAfter
    <2>2. AttemptUnderWay'
      BY <1>12 DEF IInv, TypeOK, AttemptUnderWay, Objdump, Write, Goto,
          Raise, RaiseAfter
    <2>3. UnlinkCovers'
      BY <1>12 DEF IInv, TypeOK, UnlinkCovers, Objdump, Write, Goto, Raise,
          RaiseAfter, CleanupOrder
    <2>4. OnlyOwnOutputs'
      BY <1>12 DEF IInv, TypeOK, OnlyOwnOutputs, Objdump, Write, Goto,
          Raise, RaiseAfter
    <2>5. NoManifestPastCleanup'
      BY <1>12 DEF IInv, TypeOK, NoManifestPastCleanup, Objdump, Write,
          Goto, Raise, RaiseAfter
    <2>6. HarnessIsNewest'
      BY <1>12 DEF IInv, TypeOK, HarnessIsNewest, Objdump, Write, Goto,
          Raise, RaiseAfter
    <2>7. Safety'
      BY <1>12 DEF IInv, TypeOK, OnlyOwnOutputs, NoManifestPastCleanup, Safety,
          ManifestNeverMismatched, ReturnedBuildIsComplete, FailureLeavesNoOutputs,
          NoStaleOutputAfterCleanup, Objdump, Write, Goto, Raise, RaiseAfter
    <2> QED BY <2>1, <2>2, <2>3, <2>4, <2>5, <2>6, <2>7 DEF IInv
  <1>13. CASE WriteManifest
    <2>1. TypeOK'
      BY <1>13 DEF IInv, TypeOK, WriteManifest, Write
    <2>2. AttemptUnderWay'
      BY <1>13 DEF IInv, TypeOK, AttemptUnderWay, WriteManifest, Write
    <2>3. UnlinkCovers'
      BY <1>13 DEF IInv, TypeOK, UnlinkCovers, WriteManifest, Write
    <2>4. OnlyOwnOutputs'
      BY <1>13 DEF IInv, TypeOK, OnlyOwnOutputs, WriteManifest, Write
    <2>5. NoManifestPastCleanup'
      BY <1>13 DEF IInv, TypeOK, NoManifestPastCleanup, WriteManifest, Write
    <2>6. HarnessIsNewest'
      BY <1>13 DEF IInv, TypeOK, HarnessIsNewest, WriteManifest, Write
    <2>7. Safety'
      BY <1>13 DEF IInv, TypeOK, OnlyOwnOutputs, HarnessIsNewest, Safety,
          ManifestNeverMismatched, ReturnedBuildIsComplete,
          FailureLeavesNoOutputs, NoStaleOutputAfterCleanup, WriteManifest,
          Write
    <2> QED BY <2>1, <2>2, <2>3, <2>4, <2>5, <2>6, <2>7 DEF IInv
  <1>14. CASE Interrupt
    <2>1. TypeOK'
      BY <1>14 DEF IInv, TypeOK, Interrupt, BeingWritten
    <2>2. AttemptUnderWay'
      BY <1>14 DEF IInv, TypeOK, AttemptUnderWay, Interrupt, BeingWritten
    <2>3. UnlinkCovers'
      BY <1>14 DEF IInv, TypeOK, UnlinkCovers, Interrupt, BeingWritten
    <2>4. OnlyOwnOutputs'
      BY <1>14 DEF IInv, TypeOK, OnlyOwnOutputs, Interrupt, BeingWritten
    <2>5. NoManifestPastCleanup'
      BY <1>14 DEF IInv, TypeOK, NoManifestPastCleanup, Interrupt,
          BeingWritten
    <2>6. HarnessIsNewest'
      BY <1>14 DEF IInv, TypeOK, HarnessIsNewest, Interrupt, BeingWritten
    <2>7. Safety'
      BY <1>14 DEF IInv, TypeOK, OnlyOwnOutputs, Safety,
          ManifestNeverMismatched, ReturnedBuildIsComplete,
          FailureLeavesNoOutputs, NoStaleOutputAfterCleanup, Interrupt,
          BeingWritten
    <2> QED BY <2>1, <2>2, <2>3, <2>4, <2>5, <2>6, <2>7 DEF IInv
  <1>15. CASE UNCHANGED vars
    BY <1>15 DEF vars, IInv, TypeOK, AttemptUnderWay, UnlinkCovers,
        OnlyOwnOutputs, NoManifestPastCleanup, HarnessIsNewest, Safety,
        ManifestNeverMismatched, ReturnedBuildIsComplete,
        FailureLeavesNoOutputs, NoStaleOutputAfterCleanup
  <1> QED BY <1>1, <1>2, <1>3, <1>4, <1>5, <1>6, <1>7, <1>8, <1>9, <1>10,
        <1>11, <1>12, <1>13, <1>14, <1>15 DEF Next

\* So the inductive invariant holds in every reachable state.
LEMMA InductiveInvariant == Spec => []IInv
  BY InitIInv, StepIInv, PTL DEF Spec

\* The variables of a build directory keep their types.
THEOREM TypeCorrect == Spec => []TypeOK
  <1>1. IInv => TypeOK
    BY DEF IInv
  <1> QED BY <1>1, InductiveInvariant, PTL

\* A manifest never stands beside a payload file of another build.
THEOREM ManifestSafe == Spec => []ManifestNeverMismatched
  <1>1. IInv => ManifestNeverMismatched
    BY DEF IInv, Safety
  <1> QED BY <1>1, InductiveInvariant, PTL

\* A build that returned left the complete outputs of its own harness.
THEOREM BuildComplete == Spec => []ReturnedBuildIsComplete
  <1>1. IInv => ReturnedBuildIsComplete
    BY DEF IInv, Safety
  <1> QED BY <1>1, InductiveInvariant, PTL

\* A failure the code looks for leaves no output, of its own attempt or an
\* older one; any other failure past the cleanup leaves no manifest and no
\* disassembly, and no elf or bin but whole ones of its own attempt.
THEOREM FailureClean == Spec => []FailureLeavesNoOutputs
  <1>1. IInv => FailureLeavesNoOutputs
    BY DEF IInv, Safety
  <1> QED BY <1>1, InductiveInvariant, PTL

\* No output of an older attempt outlives the cleanup of a newer one.
THEOREM NoStaleOutput == Spec => []NoStaleOutputAfterCleanup
  <1>1. IInv => NoStaleOutputAfterCleanup
    BY DEF IInv, Safety
  <1> QED BY <1>1, InductiveInvariant, PTL

----------------------------------------------------------------------------
(* The refinement *)

\* What it is to be a complete payload file.
LEMMA InComplete ==
  ASSUME NEW p
  PROVE  p \in Complete <=>
           \E f \in Payload : ver[f] # 0 /\ f \notin torn /\ p = <<f, ver[f]>>
  BY DEF Complete

\* The same, after a step.
LEMMA InCompleteNext ==
  ASSUME NEW p
  PROVE  p \in Complete' <=>
           \E f \in Payload :
              ver'[f] # 0 /\ f \notin torn' /\ p = <<f, ver'[f]>>
  BY DEF Complete

\* A step that completes no file can only take files away from a reader.
LEMMA NothingCompleted ==
  ASSUME \A f \in Payload :
            \/ ver'[f] = 0 \/ f \in torn'
            \/ ver'[f] = ver[f] /\ f \notin torn
  PROVE  Complete' \subseteq Complete
  <1> SUFFICES ASSUME NEW p \in Complete' PROVE p \in Complete
    OBVIOUS
  <1>1. PICK f \in Payload :
          ver'[f] # 0 /\ f \notin torn' /\ p = <<f, ver'[f]>>
    BY InCompleteNext
  <1>2. ver'[f] = ver[f] /\ f \notin torn
    BY <1>1
  <1> QED BY <1>1, <1>2, InComplete

\* A payload file written whole, where no older one is left, is one more
\* file of the newest attempt.
LEMMA OneCompleted ==
  ASSUME IInv, pc \in PastCleanup \ {"abort"},
         NEW f \in Payload, attempt > 0, Write(f, attempt)
  PROVE  Complete \subseteq Payload \X {attempt}
         /\ Complete' = Complete \cup {<<f, attempt>>}
  <1>1. \A g \in Payload : ver[g] \in {0, attempt}
    BY DEF IInv, OnlyOwnOutputs, Whole, Absent, Outputs, Payload
  <1>2. Complete \subseteq Payload \X {attempt}
    BY <1>1, InComplete
  <1>3. \A g \in Payload \ {f} :
           ver'[g] = ver[g] /\ (g \in torn' <=> g \in torn)
    BY DEF IInv, TypeOK, Write, Files, Outputs, Payload
  <1>4. ver'[f] = attempt /\ f \notin torn' /\ attempt # 0
    BY DEF IInv, TypeOK, Write, Files, Outputs, Payload
  <1>5. Complete' \subseteq Complete \cup {<<f, attempt>>}
    <2> SUFFICES ASSUME NEW p \in Complete', p # <<f, attempt>>
                 PROVE  p \in Complete
      OBVIOUS
    <2>1. PICK g \in Payload :
            ver'[g] # 0 /\ g \notin torn' /\ p = <<g, ver'[g]>>
      BY InCompleteNext
    <2>2. g # f
      BY <2>1, <1>4
    <2> QED BY <2>1, <2>2, <1>3, InComplete
  <1>6. <<f, attempt>> \in Complete'
    BY <1>4, InCompleteNext
  <1>7. Complete \subseteq Complete'
    <2> SUFFICES ASSUME NEW p \in Complete PROVE p \in Complete'
      OBVIOUS
    <2>1. PICK g \in Payload :
            ver[g] # 0 /\ g \notin torn /\ p = <<g, ver[g]>>
      BY InComplete
    <2>2. CASE g = f
      BY <2>1, <2>2, <1>1, <1>6
    <2>3. CASE g # f
      BY <2>1, <2>3, <1>3, InCompleteNext
    <2> QED BY <2>2, <2>3
  <1> QED BY <1>2, <1>5, <1>6, <1>7

\* The steps that complete no file and leave the manifest alone.
LEMMA QuietStep ==
  ASSUME UNCHANGED attempt, Published' = Published,
         \A f \in Payload : \/ ver'[f] = 0 \/ f \in torn'
                            \/ ver'[f] = ver[f] /\ f \notin torn
                            \/ UNCHANGED <<ver, torn>>
  PROVE  Publication!Discard
  <1>1. CASE UNCHANGED <<ver, torn>>
    BY <1>1 DEF Publication!Discard, Complete
  <1>2. CASE ~UNCHANGED <<ver, torn>>
    BY <1>2, NothingCompleted DEF Publication!Discard
  <1> QED BY <1>1, <1>2

\* An empty directory publishes nothing.
LEMMA InitRefines == Init => Publication!PubInit
  <1> SUFFICES ASSUME Init PROVE Publication!PubInit
    OBVIOUS
  <1>1. Complete = {}
    BY InComplete DEF Init, Files, Outputs, Payload
  <1> QED BY <1>1 DEF Init, Publication!PubInit, Published, Files, Outputs

\* Every step of a build is a step of the publication protocol or a stutter.
LEMMA StepRefines ==
    IInv /\ [Next]_vars => [Publication!PubNext]_(Publication!pubVars)
  <1> SUFFICES ASSUME IInv, [Next]_vars
               PROVE  Publication!Begin \/ Publication!Discard
                      \/ Publication!Withdraw \/ Publication!Produce
                      \/ Publication!Publish
                      \/ UNCHANGED Publication!pubVars
    BY DEF Publication!PubNext
  <1> USE DEF IInv, TypeOK, Files, Outputs, Payload, Published, NotStarted,
              Raise
  <1>1. CASE Start
    BY <1>1 DEF Start, Publication!Begin, Complete
  <1>2. CASE EmitHarness
    <2>1. Publication!Discard
      BY <1>2, QuietStep DEF EmitHarness, Write, Goto
    <2> QED BY <2>1
  <1>3. CASE DetectToolchain \/ CompileInputs \/ ResolveObjdump \/ Unlinked
    <2>1. Publication!Discard
      BY <1>3, QuietStep
      DEF DetectToolchain, CompileInputs, ResolveObjdump, Unlinked, Goto, Raise
    <2> QED BY <2>1
  <1>4. CASE ClearObjects
    <2>1. Publication!Discard
      BY <1>4, QuietStep DEF ClearObjects, Write
    <2> QED BY <2>1
  <1>5. CASE Unlink
    <2>1. Head(todo) \in Outputs /\ Write(Head(todo), 0) /\ UNCHANGED attempt
      BY <1>5 DEF Unlink
    <2>2. CASE Head(todo) = "manifest"
      <3>1. Complete' = Complete
        BY <2>1, <2>2 DEF Write, Complete
      <3> QED BY <2>1, <2>2, <3>1 DEF Write, Publication!Withdraw
    <2>3. CASE Head(todo) \in Payload
      <3>1. Publication!Discard
        BY <2>1, <2>3, QuietStep DEF Write
      <3> QED BY <3>1
    <2> QED BY <2>1, <2>2, <2>3
  <1>6. CASE CompileHarness
    <2>1. Publication!Discard
      BY <1>6, QuietStep DEF CompileHarness, Write, Goto, Raise
    <2> QED BY <2>1
  <1>7. CASE Link
    <2>1. CASE Write("elf", ver["object"]) /\ Goto("objcopy")
      <3>1. Write("elf", attempt) /\ attempt > 0 /\ pc = "link"
        BY <1>7, <2>1 DEF Link, HarnessIsNewest, AttemptUnderWay
      <3>2. Published = 0 /\ Published' = 0 /\ UNCHANGED attempt
        BY <1>7, <2>1
        DEF Link, Write, Goto, NoManifestPastCleanup, PastCleanup, Absent
      <3> QED
        BY <3>1, <3>2, OneCompleted DEF PastCleanup, Publication!Produce
    <2>2. CASE Spoil("elf") /\ RaiseAfter("link", LinkAbortOrder)
      <3>1. Publication!Discard
        BY <2>2, QuietStep DEF Spoil, RaiseAfter
      <3> QED BY <3>1
    <2>3. CASE UNCHANGED <<ver, torn, attempt>>
      <3>1. Publication!Discard
        BY <2>3, QuietStep
      <3> QED BY <3>1
    <2> QED BY <1>7, <2>1, <2>2, <2>3 DEF Link
  <1>8. CASE Objcopy
    <2>1. CASE Write("bin", ver["elf"]) /\ Goto("resolve")
      <3>1. Write("bin", attempt) /\ attempt > 0 /\ pc = "objcopy"
        BY <1>8, <2>1
        DEF Objcopy, OnlyOwnOutputs, PastCleanup, Completed, Whole,
            AttemptUnderWay
      <3>2. Published = 0 /\ Published' = 0 /\ UNCHANGED attempt
        BY <1>8, <2>1
        DEF Objcopy, Write, Goto, NoManifestPastCleanup, PastCleanup, Absent
      <3> QED
        BY <3>1, <3>2, OneCompleted DEF PastCleanup, Publication!Produce
    <2>2. CASE UNCHANGED <<ver, torn, attempt>>
      <3>1. Publication!Discard
        BY <2>2, QuietStep
      <3> QED BY <3>1
    <2>3. CASE Spoil("bin") /\ UNCHANGED attempt
      <3>1. Publication!Discard
        BY <2>3, QuietStep DEF Spoil
      <3> QED BY <3>1
    <2> QED BY <1>8, <2>1, <2>2, <2>3 DEF Objcopy, RaiseAfter
  <1>9. CASE Objdump
    <2>1. CASE Write("disasm", ver["elf"]) /\ Goto("manifest")
      <3>1. Write("disasm", attempt) /\ attempt > 0 /\ pc = "objdump"
        BY <1>9, <2>1
        DEF Objdump, OnlyOwnOutputs, PastCleanup, Completed, Whole,
            AttemptUnderWay
      <3>2. Published = 0 /\ Published' = 0 /\ UNCHANGED attempt
        BY <1>9, <2>1
        DEF Objdump, Write, Goto, NoManifestPastCleanup, PastCleanup, Absent
      <3> QED
        BY <3>1, <3>2, OneCompleted DEF PastCleanup, Publication!Produce
    <2>2. CASE UNCHANGED <<ver, torn, attempt>>
      <3>1. Publication!Discard
        BY <2>2, QuietStep
      <3> QED BY <3>1
    <2> QED BY <1>9, <2>1, <2>2 DEF Objdump, RaiseAfter, Raise
  <1>10. CASE WriteManifest
    <2>1. Published = 0 /\ Published' = attempt /\ UNCHANGED attempt
      BY <1>10
      DEF WriteManifest, Write, NoManifestPastCleanup, PastCleanup, Absent
    <2>2. \A f \in Payload : ver[f] = attempt /\ attempt # 0 /\ f \notin torn
      BY <1>10
      DEF WriteManifest, OnlyOwnOutputs, PastCleanup, Completed, Whole,
          AttemptUnderWay
    <2>3. Complete = Payload \X {attempt}
      BY <2>2 DEF Complete
    <2>4. Complete' = Complete
      BY <1>10 DEF WriteManifest, Write, Complete
    <2> QED BY <2>1, <2>3, <2>4 DEF Publication!Publish
  <1>11. CASE Interrupt
    <2>1. Published' = Published /\ UNCHANGED attempt
      BY <1>11
      DEF Interrupt, BeingWritten, NoManifestPastCleanup, PastCleanup, Absent
    <2>2. Publication!Discard
      BY <1>11, <2>1, QuietStep DEF Interrupt, BeingWritten
    <2> QED BY <2>2
  <1>12. CASE UNCHANGED vars
    BY <1>12 DEF vars, Publication!pubVars, Complete
  <1> QED
    BY <1>1, <1>2, <1>3, <1>4, <1>5, <1>6, <1>7, <1>8, <1>9, <1>10, <1>11,
       <1>12 DEF Next

\* A build directory implements the publication protocol: the manifest is
\* written beside the complete newest payload only, and withdrawn before the
\* first file of the next payload is written.
THEOREM Refinement == Spec => ImplementsPublication
  BY InitRefines, StepRefines, InductiveInvariant, PTL
  DEF Spec, ImplementsPublication, Publication!PubSpec

----------------------------------------------------------------------------
(* A build is one step of RunBatch, for every number of attempts *)

\* What RunBatch's runner and SeedBuild's outputs have to do with each other:
\* while a build runs, test.bin is gone, still what it was, or new.
BinIsAccounted ==
    /\ before \in 0..MaxBuilds
    /\ pc # "idle" => ver["bin"] \in {0, before, attempt}

\* The history variable does not get in the way of the builds.
LEMMA StillABuild == BuildSpec => Spec
  <1>1. BuildInit => Init
    BY DEF BuildInit
  <1>2. [BuildNext]_buildVars => [Next]_vars
    BY DEF BuildNext, buildVars, vars
  <1> QED BY <1>1, <1>2, PTL DEF BuildSpec, Spec

\* Every statement of a build keeps test.bin accounted for.
LEMMA StepAccounts ==
    IInv /\ BinIsAccounted /\ [BuildNext]_buildVars => BinIsAccounted'
  <1> SUFFICES ASSUME IInv, BinIsAccounted, [BuildNext]_buildVars
               PROVE  BinIsAccounted'
    OBVIOUS
  <1> USE DEF IInv, TypeOK, BinIsAccounted, Files, Outputs, Payload,
              NotStarted, Raise
  <1>1. CASE UNCHANGED buildVars
    BY <1>1 DEF buildVars, vars
  <1>2. CASE BuildNext
    <2>1. before' = (IF pc = "idle" THEN ver["bin"] ELSE before) /\ Next
      BY <1>2 DEF BuildNext
    <2>2. before' \in 0..MaxBuilds
      BY <2>1
    <2>3. CASE Start
      BY <2>1, <2>2, <2>3 DEF Start
    <2>4. CASE ~Start
      <3>1. pc # "idle" /\ before' = before
        BY <2>1, <2>4
        DEF Next, EmitHarness, DetectToolchain, ClearObjects, Unlink,
            Unlinked, CompileInputs, CompileHarness, Link, Objcopy,
            ResolveObjdump, Objdump, WriteManifest, Interrupt
      <3>2. attempt' = attempt
        BY <2>1, <2>4
        DEF Next, EmitHarness, DetectToolchain, ClearObjects, Unlink,
            Unlinked, CompileInputs, CompileHarness, Link, Objcopy,
            ResolveObjdump, Objdump, WriteManifest, Interrupt, Goto, Raise,
            RaiseAfter
      <3>3. CASE Objcopy
        <4>1. ver["elf"] = attempt
          BY <3>3 DEF Objcopy, OnlyOwnOutputs, PastCleanup, Completed, Whole
        <4> QED BY <2>2, <3>1, <3>2, <3>3, <4>1
            DEF Objcopy, Write, Spoil, Goto, RaiseAfter
      <3>4. CASE Unlink
        BY <2>2, <3>1, <3>2, <3>4 DEF Unlink, Write
      <3>5. CASE Interrupt
        BY <2>2, <3>1, <3>2, <3>5 DEF Interrupt, BeingWritten
      <3>6. CASE ~(Objcopy \/ Unlink \/ Interrupt)
        <4>1. ver'["bin"] = ver["bin"]
          BY <2>1, <2>4, <3>6
          DEF Next, EmitHarness, DetectToolchain, ClearObjects, Unlinked,
              CompileInputs, CompileHarness, Link, ResolveObjdump, Objdump,
              WriteManifest, Write, Spoil
        <4> QED BY <2>2, <3>1, <3>2, <4>1
      <3> QED BY <3>3, <3>4, <3>5, <3>6
    <2> QED BY <2>3, <2>4
  <1> QED BY <1>1, <1>2

\* So it is accounted for in every reachable state.
LEMMA Accounted == BuildSpec => [](IInv /\ BinIsAccounted)
  <1>1. BuildInit => BinIsAccounted
    BY MaxBuildsAssumption DEF BuildInit, BinIsAccounted, Init
  <1> QED BY <1>1, StepAccounts, StillABuild, InductiveInvariant, PTL DEF BuildSpec

----------------------------------------------------------------------------
(* One step of RunBatch *)

\* The last statement of a build writes the manifest, unlinks nothing more,
\* raises or is cut short.
LEMMA LastStatement ==
  ASSUME IInv, Next, pc # "idle", pc' = "idle"
  PROVE  \/ WriteManifest
         \/ ver' = ver /\ outcome' \in Causes
         \/ Interrupt
  <1> USE DEF IInv, TypeOK, Causes, Handled, NotStarted, Raise
  <1>1. CASE Start \/ EmitHarness \/ ClearObjects \/ Unlink
    BY <1>1 DEF Start, EmitHarness, ClearObjects, Unlink, Goto
  <1>2. CASE DetectToolchain \/ CompileInputs \/ ResolveObjdump
    BY <1>2 DEF DetectToolchain, CompileInputs, ResolveObjdump, Goto, Raise
  <1>3. CASE CompileHarness
    BY <1>3 DEF CompileHarness, Goto, Raise
  <1>4. CASE Unlinked
    BY <1>4 DEF Unlinked, AttemptUnderWay
  <1>5. CASE Link
    BY <1>5 DEF Link, Goto, RaiseAfter
  <1>6. CASE Objcopy
    BY <1>6 DEF Objcopy, Goto, RaiseAfter
  <1>7. CASE Objdump
    BY <1>7 DEF Objdump, Goto, Raise, RaiseAfter
  <1> QED BY <1>1, <1>2, <1>3, <1>4, <1>5, <1>6, <1>7 DEF Next

\* What the runner sees while the build runs.
LEMMA SeenWhileBuilding ==
  ASSUME pc # "idle"
  PROVE  /\ BatchPc = "build" /\ ~Prepared
         /\ SeenBin = [s \in 1..1 |-> before]
  BY DEF BatchPc, Prepared, SeenBin

\* A function of one argument is changed as a whole.
LEMMA OneSeed ==
  ASSUME NEW a, NEW b
  PROVE  [s \in 1..1 |-> b] = [[s \in 1..1 |-> a] EXCEPT ![1] = b]
  OBVIOUS

\* A build that returned is RunBatch's first way to build a seed.
LEMMA Returned ==
  ASSUME IInv, BinIsAccounted, WriteManifest, UNCHANGED before
  PROVE  Batch!BuildSeed
  <1>1. /\ pc = "manifest" /\ pc' = "idle" /\ outcome' = "built"
        /\ UNCHANGED attempt /\ Prepared'
    BY DEF WriteManifest, Prepared
  <1>2. ver'["bin"] = attempt
    BY DEF WriteManifest, Write, IInv, TypeOK, OnlyOwnOutputs, PastCleanup,
           Completed, Whole, Files, Outputs, Payload
  <1>3. BatchPc' = "plan"
    BY <1>1 DEF BatchPc, Causes, Handled
  <1>4. SeenBin' = [s \in 1..1 |-> attempt]
    BY <1>1, <1>2 DEF SeenBin
  <1>5. SeenBin' = [SeenBin EXCEPT ![1] = attempt]
    BY <1>1, <1>4, SeenWhileBuilding, OneSeed
  <1> HIDE DEF SeenBin, BatchPc, Prepared
  <1> QED
    BY <1>1, <1>3, <1>5, SeenWhileBuilding DEF Batch!BuildSeed

\* A build that raised is its second way.
LEMMA RaisedBuild ==
  ASSUME IInv, BinIsAccounted, UNCHANGED <<before, attempt, ver>>,
         pc # "idle", pc' = "idle", outcome' \in Causes
  PROVE  Batch!BuildSeed
  <1>1. ~Prepared' /\ BatchPc' = "report"
    BY DEF Prepared, BatchPc, Causes, Handled
  <1>2. PICK left \in {0, before, attempt} : ver'["bin"] = left
    BY DEF BinIsAccounted
  <1>3. SeenBin' = [s \in 1..1 |-> left]
    BY <1>2 DEF SeenBin
  <1>4. SeenBin' = [SeenBin EXCEPT ![1] = left]
    BY <1>3, SeenWhileBuilding, OneSeed
  <1>5. SeenBin[1] = before
    BY SeenWhileBuilding
  <1> HIDE DEF SeenBin, BatchPc, Prepared
  <1> QED
    BY <1>1, <1>2, <1>4, <1>5, SeenWhileBuilding DEF Batch!BuildSeed

\* A build that was cut short leaves what RunBatch's interrupt leaves.
LEMMA CutShort ==
  ASSUME IInv, BinIsAccounted, BinIsAccounted', Interrupt, UNCHANGED before
  PROVE  outcome' = "interrupted" /\ Batch!HalfDone
  <1>1. /\ pc # "idle" /\ pc' = "idle" /\ outcome' = "interrupted"
        /\ UNCHANGED attempt
    BY DEF Interrupt
  <1>2. PICK left \in {0, before, attempt} : ver'["bin"] = left
    BY <1>1 DEF BinIsAccounted, Interrupt, BeingWritten, IInv, TypeOK,
                Files, Outputs, Payload
  <1>3. SeenBin' = [s \in 1..1 |-> left]
    BY <1>1, <1>2 DEF SeenBin
  <1>4. SeenBin' = [SeenBin EXCEPT ![1] = left]
    BY <1>1, <1>3, SeenWhileBuilding, OneSeed
  <1>5. SeenBin[1] = before
    BY <1>1, SeenWhileBuilding
  <1> HIDE DEF SeenBin, BatchPc, Prepared
  <1> QED
    BY <1>1, <1>2, <1>4, <1>5, SeenWhileBuilding DEF Batch!HalfDone

\* Every build, returned, raised or cut short, is one step of RunBatch: what
\* RunBatch shows of a batch holds of the build as it is, statement by
\* statement.
THEOREM OneStep == BuildSpec => BuildIsOneStep
  <1>1. IInv /\ BinIsAccounted /\ [BuildNext]_buildVars
          => [pc # "idle" /\ pc' = "idle" =>
                \/ Batch!BuildSeed
                \/ outcome' = "interrupted" /\ Batch!HalfDone]_buildVars
    <2> SUFFICES ASSUME IInv, BinIsAccounted, BuildNext,
                        pc # "idle", pc' = "idle"
                 PROVE  \/ Batch!BuildSeed
                        \/ outcome' = "interrupted" /\ Batch!HalfDone
      OBVIOUS
    <2>1. Next /\ UNCHANGED before
      BY DEF BuildNext
    <2>2. CASE WriteManifest
      BY <2>1, <2>2, Returned
    <2>3. CASE ver' = ver /\ outcome' \in Causes
      <3>1. UNCHANGED attempt
        BY <2>1
        DEF Next, Start, EmitHarness, DetectToolchain, ClearObjects, Unlink,
            Unlinked, CompileInputs, CompileHarness, Link, Objcopy,
            ResolveObjdump, Objdump, WriteManifest, Interrupt, Goto, Raise,
            RaiseAfter, NotStarted
      <3> QED BY <2>1, <2>3, <3>1, RaisedBuild
    <2>4. CASE Interrupt
      <3>1. BinIsAccounted'
        BY StepAccounts
      <3> QED BY <2>1, <2>4, <3>1, CutShort
    <2> QED BY <2>1, <2>2, <2>3, <2>4, LastStatement
  <1> QED BY <1>1, Accounted, PTL DEF BuildSpec, BuildIsOneStep
=============================================================================
