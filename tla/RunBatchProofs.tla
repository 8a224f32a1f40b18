--------------------------- MODULE RunBatchProofs ---------------------------
(***************************************************************************)
(* Proofs about RunBatch for every number of seeds, every --jobs and every *)
(* number of runs of the same batch id.                                    *)
(***************************************************************************)
EXTENDS RunBatch, TLAPS

\* The records the program writes are of the types the files hold.
LEMMA EntriesTyped ==
    /\ NoMeta \in MetaContents /\ NoLedger \in LedgerContents
    /\ \A r, b \in 0..MaxRuns : Opened(r, b) \in LogContents
    /\ \A r \in 0..MaxRuns, st \in Status :
         [run |-> r, status |-> st] \in MetaContents
    /\ \A r \in 0..MaxRuns, f \in [Seeds -> Status \cup {"none"}] :
         [run |-> r, status |-> f] \in LedgerContents
  BY BatchAssumption
  DEF Opened, NoMeta, NoLedger, LogContents, MetaContents, LedgerContents,
      Verdicts

\* Who prints leaves the other logs alone, and in the one it prints into who
\* opened it and what it was opened for.  Its own verdict is what the lines
\* amount to unless the log is mixed, and a mixed log stays so.
LEMMA Printed ==
  ASSUME NEW s \in Seeds, NEW r \in 0..MaxRuns, NEW own \in Verdicts,
         log \in [Seeds -> LogContents], Prints(s, r, own)
  PROVE  /\ log' \in [Seeds -> LogContents]
         /\ \A t \in Seeds : t # s => log'[t] = log[t]
         /\ \A t \in Seeds : log'[t].run = log[t].run /\ log'[t].bin = log[t].bin
         /\ log'[s].mixed \/ log'[s].verdict = own
         /\ log[s].mixed \/ log[s].run # r => log'[s].mixed
  <1>1. PICK v \in Verdicts :
          /\ v = own \/ log[s].mixed \/ log[s].run # r
          /\ log' = [log EXCEPT ![s] =
                       [run |-> @.run, bin |-> @.bin, verdict |-> v,
                        mixed |-> @.mixed \/ @.run # r]]
    BY DEF Prints
  <1>2. log[s] \in LogContents
    OBVIOUS
  <1>3. [run |-> log[s].run, bin |-> log[s].bin, verdict |-> v,
         mixed |-> log[s].mixed \/ log[s].run # r] \in LogContents
    BY <1>2 DEF LogContents, Verdicts
  <1> QED BY <1>1, <1>3

\* What a failed simulation may leave behind is the replay of it.
LEMMA Replays ==
  ASSUME NEW s \in Seeds, NEW r \in 0..MaxRuns, NEW own \in Verdicts,
         NEW left \in MayReplay(s, r, own)
  PROVE  /\ left \subseteq Strays
         /\ \A e \in left : /\ e.seed = s /\ e.run = r
                            /\ e.kind = "replay" /\ own = "bad"
  BY DEF MayReplay, Stray, Strays

\* While a run is under way its strays are replays of earlier ends, and no
\* statement that leaves the logs alone disturbs them.
LEMMA StraysKept ==
  ASSUME StraysAreKnown, pc # "idle", UNCHANGED <<stray, run>>,
         \A e \in stray : e.run = run => log'[e.seed] = log[e.seed]
  PROVE  StraysAreKnown'
  BY DEF StraysAreKnown

\* A directory no batch was run in satisfies the inductive invariant.
LEMMA InitIInv == Init => IInv
  BY BatchAssumption, EntriesTyped
  DEF Init, IInv, TypeOK, RunsBounded, TaskEvidence, Prepared,
      SeedEvidence, LedgerOverSettled, OneAtATime, NoneAtWork,
      NoStaleBinaryExecuted, StraysAreKnown, Opened, NoMeta, NoLedger, Seeds, Status, Verdicts, TaskStates, Active,
      InState

\* Every step of the main thread and of a worker keeps it, and so do an
\* interruption and a kill.
LEMMA StepIInv == IInv /\ [Next]_vars => IInv'
  <1> SUFFICES ASSUME IInv, [Next]_vars PROVE IInv'
    OBVIOUS
  <1> USE BatchAssumption
      DEF Seeds, TaskStates, Active
  <1>1. CASE OpenBatch
    <2>1. TypeOK'
      BY <1>1 DEF IInv, TypeOK, Prepared, OpenBatch, dirVars
    <2>2. RunsBounded'
      BY <1>1 DEF IInv, TypeOK, RunsBounded, Prepared, LogContents,
          MetaContents, LedgerContents, OpenBatch, dirVars
    <2>3. TaskEvidence'
      BY <1>1 DEF IInv, TypeOK, RunsBounded, TaskEvidence, Prepared,
          SeedEvidence, Evidence, LogContents, OpenBatch, dirVars
    <2>4. Prepared'
      BY <1>1 DEF IInv, TypeOK, RunsBounded, Prepared, OpenBatch, dirVars
    <2>5. LedgerOverSettled'
      BY <1>1 DEF IInv, TypeOK, RunsBounded, Prepared, LedgerOverSettled,
          OpenBatch, dirVars
    <2>6. OneAtATime'
      BY <1>1 DEF IInv, TypeOK, Prepared, OneAtATime, InState, OpenBatch,
          dirVars
    <2>7. NoneAtWork'
      BY <1>1 DEF IInv, TypeOK, RunsBounded, Prepared, LedgerOverSettled,
          OneAtATime, NoneAtWork, InState, OpenBatch, dirVars
    <2>8. NoStaleBinaryExecuted'
      BY <1>1 DEF IInv, TypeOK, RunsBounded, TaskEvidence, Prepared,
          NoStaleBinaryExecuted, SeedEvidence, Evidence, OpenBatch, dirVars
    <2>9. StraysAreKnown'
      <3> SUFFICES ASSUME NEW e \in stray
                   PROVE  e.run \in 1..run' /\ e.run # run'
        BY <1>1 DEF OpenBatch, dirVars, StraysAreKnown
      <3>1. e.run \in 1..run /\ run \in Nat /\ run' = run + 1
        BY <1>1 DEF IInv, TypeOK, StraysAreKnown, OpenBatch
      <3> QED BY <3>1
    <2> QED BY <2>1, <2>2, <2>3, <2>4, <2>5, <2>6, <2>7, <2>8, <2>9 DEF IInv
  <1>2. CASE PlanSeed
    <2>1. TypeOK'
      BY <1>2 DEF IInv, TypeOK, Prepared, PlanSeed, Raised, dirVars,
          taskVars
    <2>2. RunsBounded'
      BY <1>2 DEF IInv, TypeOK, RunsBounded, Prepared, LogContents,
          MetaContents, LedgerContents, PlanSeed, Raised, dirVars, taskVars
    <2>3. TaskEvidence'
      <3> SUFFICES ASSUME NEW t \in Seeds PROVE SeedEvidence(t)'
        BY DEF TaskEvidence
      <3>1. SeedEvidence(t)
        BY DEF IInv, TaskEvidence
      <3> QED BY <1>2, <3>1 DEF IInv, TypeOK, Prepared, SeedEvidence,
            Evidence, PlanSeed, Raised, dirVars, taskVars
    <2>4. Prepared'
      BY <1>2 DEF IInv, TypeOK, RunsBounded, Prepared, PlanSeed, Raised,
          dirVars, taskVars
    <2>5. LedgerOverSettled'
      BY <1>2 DEF IInv, TypeOK, RunsBounded, Prepared, LedgerOverSettled,
          PlanSeed, Raised, dirVars, taskVars
    <2>6. OneAtATime'
      BY <1>2 DEF IInv, TypeOK, Prepared, OneAtATime, InState, PlanSeed,
          Raised, dirVars, taskVars
    <2>7. NoneAtWork'
      BY <1>2 DEF IInv, TypeOK, RunsBounded, Prepared, LedgerOverSettled,
          OneAtATime, NoneAtWork, InState, PlanSeed, Raised, dirVars,
          taskVars
    <2>8. NoStaleBinaryExecuted'
      BY <1>2 DEF IInv, TypeOK, RunsBounded, TaskEvidence, Prepared,
          NoStaleBinaryExecuted, SeedEvidence, Evidence, PlanSeed, Raised,
          dirVars, taskVars
    <2>9. StraysAreKnown'
      BY <1>2, StraysKept DEF IInv, PlanSeed, Working, mainVars, dirVars, taskVars, Raised, LeaveLoop
    <2> QED BY <2>1, <2>2, <2>3, <2>4, <2>5, <2>6, <2>7, <2>8, <2>9 DEF IInv
  <1>3. CASE BuildSeed
    <2>1. TypeOK'
      <3>1. bin' \in [Seeds -> 0..MaxRuns]
        BY <1>3 DEF IInv, TypeOK, Prepared, BuildSeed, Status
      <3>2. log' \in [Seeds -> LogContents]
        BY <1>3, EntriesTyped DEF IInv, TypeOK, Prepared, BuildSeed, Status
      <3>3. meta' \in [Seeds -> MetaContents]
        BY <1>3, EntriesTyped DEF IInv, TypeOK, Prepared, BuildSeed, Status
      <3>4. ledger' \in LedgerContents
        BY <1>3, EntriesTyped DEF IInv, TypeOK, Prepared, BuildSeed, Status
      <3>5. task' \in [Seeds -> TaskStates] /\ result' \in [Seeds -> Status \cup {"none"}]
        BY <1>3 DEF IInv, TypeOK, Prepared, BuildSeed, Status
      <3>6. entry' \in [Seeds -> Status \cup {"none"}] /\ cur' \in 1..(N + 1)
        BY <1>3 DEF IInv, TypeOK, Prepared, BuildSeed, Status
      <3> QED BY <1>3, <3>1, <3>2, <3>3, <3>4, <3>5, <3>6 DEF IInv, TypeOK,
            Prepared, BuildSeed, Status
    <2>2. RunsBounded'
      BY <1>3 DEF IInv, TypeOK, RunsBounded, Prepared, LogContents,
          MetaContents, LedgerContents, BuildSeed
    <2>3. TaskEvidence'
      <3> SUFFICES ASSUME NEW t \in Seeds PROVE SeedEvidence(t)'
        BY DEF TaskEvidence
      <3>1. SeedEvidence(t) /\ SeedEvidence(cur)
        BY <1>3 DEF IInv, TaskEvidence, Prepared, BuildSeed
      <3>2. CASE t = cur
        BY <1>3, <3>1, <3>2 DEF IInv, TypeOK, Prepared, SeedEvidence,
            Evidence, BuildSeed
      <3>3. CASE t # cur
        BY <1>3, <3>1, <3>3 DEF IInv, TypeOK, Prepared, SeedEvidence,
            Evidence, BuildSeed
      <3> QED BY <3>2, <3>3
    <2>4. Prepared'
      BY <1>3 DEF IInv, TypeOK, RunsBounded, Prepared, BuildSeed
    <2>5. LedgerOverSettled'
      BY <1>3 DEF IInv, TypeOK, RunsBounded, Prepared, LedgerOverSettled,
          BuildSeed
    <2>6. OneAtATime'
      BY <1>3 DEF IInv, TypeOK, Prepared, OneAtATime, InState, BuildSeed
    <2>7. NoneAtWork'
      BY <1>3 DEF IInv, TypeOK, RunsBounded, Prepared, LedgerOverSettled,
          OneAtATime, NoneAtWork, InState, BuildSeed
    <2>8. NoStaleBinaryExecuted'
      BY <1>3 DEF IInv, TypeOK, RunsBounded, TaskEvidence, Prepared,
          NoStaleBinaryExecuted, SeedEvidence, Evidence, BuildSeed
    <2>9. StraysAreKnown'
      BY <1>3, StraysKept DEF IInv, BuildSeed, Working, mainVars, dirVars, taskVars, Raised, LeaveLoop
    <2> QED BY <2>1, <2>2, <2>3, <2>4, <2>5, <2>6, <2>7, <2>8, <2>9 DEF IInv
  <1>4. CASE ReportBuildFailure
    <2>1. TypeOK'
      <3>1. bin' \in [Seeds -> 0..MaxRuns]
        BY <1>4 DEF IInv, TypeOK, Prepared, ReportBuildFailure, Raised, Status
      <3>2. log' \in [Seeds -> LogContents]
        BY <1>4, EntriesTyped DEF IInv, TypeOK, Prepared, ReportBuildFailure,
            Raised, Status
      <3>3. meta' \in [Seeds -> MetaContents]
        BY <1>4, EntriesTyped DEF IInv, TypeOK, Prepared, ReportBuildFailure,
            Raised, Status
      <3>4. ledger' \in LedgerContents
        BY <1>4, EntriesTyped DEF IInv, TypeOK, Prepared, ReportBuildFailure,
            Raised, Status
      <3>5. task' \in [Seeds -> TaskStates] /\ result' \in [Seeds -> Status \cup {"none"}]
        BY <1>4 DEF IInv, TypeOK, Prepared, ReportBuildFailure, Raised, Status
      <3>6. entry' \in [Seeds -> Status \cup {"none"}] /\ cur' \in 1..(N + 1)
        BY <1>4 DEF IInv, TypeOK, Prepared, ReportBuildFailure, Raised, Status
      <3> QED BY <1>4, <3>1, <3>2, <3>3, <3>4, <3>5, <3>6 DEF IInv, TypeOK,
            Prepared, ReportBuildFailure, Raised, Status
    <2>2. RunsBounded'
      <3>1. ASSUME NEW t \in Seeds PROVE log'[t].run <= run'
        BY <1>4 DEF IInv, TypeOK, Prepared, RunsBounded, ReportBuildFailure,
            Raised, LogContents
      <3>2. ASSUME NEW t \in Seeds PROVE meta'[t].run <= run'
        <4>1. meta'[t] \in {meta[t], NoMeta} \/ meta'[t].run = run
          BY <1>4 DEF IInv, TypeOK, Prepared, ReportBuildFailure, Raised
        <4>2. meta[t].run <= run /\ run \in Nat /\ run' = run
          BY <1>4 DEF IInv, TypeOK, Prepared, RunsBounded, ReportBuildFailure,
              Raised
        <4> QED BY <4>1, <4>2 DEF NoMeta
      <3> QED BY <1>4, <3>1, <3>2 DEF IInv, TypeOK, Prepared, RunsBounded,
            ReportBuildFailure, Raised, LedgerContents
    <2>3. TaskEvidence'
      <3> SUFFICES ASSUME NEW t \in Seeds PROVE SeedEvidence(t)'
        BY DEF TaskEvidence
      <3>1. SeedEvidence(t) /\ SeedEvidence(cur)
        BY <1>4 DEF IInv, TaskEvidence, Prepared, ReportBuildFailure
      <3>2. CASE t = cur
        BY <1>4, <3>1, <3>2 DEF IInv, TypeOK, Prepared, SeedEvidence,
            Evidence, ReportBuildFailure, Raised, Status
      <3>3. CASE t # cur
        BY <1>4, <3>1, <3>3 DEF IInv, TypeOK, Prepared, SeedEvidence,
            Evidence, ReportBuildFailure, Raised, Status
      <3> QED BY <3>2, <3>3
    <2>4. Prepared'
      BY <1>4 DEF IInv, TypeOK, RunsBounded, Prepared, ReportBuildFailure,
          Raised
    <2>5. LedgerOverSettled'
      BY <1>4 DEF IInv, TypeOK, RunsBounded, Prepared, LedgerOverSettled,
          NoMeta, NoLedger, ReportBuildFailure, Raised
    <2>6. OneAtATime'
      BY <1>4 DEF IInv, TypeOK, Prepared, OneAtATime, InState,
          ReportBuildFailure, Raised
    <2>7. NoneAtWork'
      BY <1>4 DEF IInv, TypeOK, RunsBounded, Prepared, LedgerOverSettled,
          OneAtATime, NoneAtWork, InState, ReportBuildFailure, Raised
    <2>8. NoStaleBinaryExecuted'
      BY <1>4 DEF IInv, TypeOK, RunsBounded, TaskEvidence, Prepared,
          NoStaleBinaryExecuted, SeedEvidence, Evidence, ReportBuildFailure,
          Raised
    <2>9. StraysAreKnown'
      BY <1>4, StraysKept DEF IInv, ReportBuildFailure, Working, mainVars, dirVars, taskVars, Raised, LeaveLoop
    <2> QED BY <2>1, <2>2, <2>3, <2>4, <2>5, <2>6, <2>7, <2>8, <2>9 DEF IInv
  <1>5. CASE EndPreparation
    <2>1. TypeOK'
      BY <1>5 DEF IInv, TypeOK, Prepared, EndPreparation, InState, dirVars,
          taskVars
    <2>2. RunsBounded'
      BY <1>5 DEF IInv, TypeOK, RunsBounded, Prepared, LogContents,
          MetaContents, LedgerContents, EndPreparation, InState, dirVars,
          taskVars
    <2>3. TaskEvidence'
      <3> SUFFICES ASSUME NEW t \in Seeds PROVE SeedEvidence(t)'
        BY DEF TaskEvidence
      <3>1. SeedEvidence(t)
        BY DEF IInv, TaskEvidence
      <3> QED BY <1>5, <3>1 DEF IInv, TypeOK, SeedEvidence, Evidence,
            EndPreparation, InState, dirVars, taskVars
    <2>4. Prepared'
      BY <1>5 DEF IInv, TypeOK, RunsBounded, Prepared, EndPreparation,
          InState, dirVars, taskVars
    <2>5. LedgerOverSettled'
      <3>1. /\ pc = "plan" /\ pc' \in {"ledger", "serial", "submit"}
            /\ UNCHANGED <<ledger, task, run, entry, exit>>
            /\ pc' = "ledger" => InState({"prepared"}) = {}
        BY <1>5 DEF EndPreparation, dirVars, taskVars
      <3>2. \A s \in Seeds : task[s] \in {"prepared", "settled"}
        BY <1>5 DEF IInv, TypeOK, Prepared, EndPreparation, Seeds
      <3> QED BY <3>1, <3>2 DEF IInv, LedgerOverSettled, RunsBounded, InState
    <2>6. OneAtATime'
      BY <1>5 DEF IInv, TypeOK, Prepared, OneAtATime, EndPreparation,
          InState, dirVars, taskVars
    <2>7. NoneAtWork'
      BY <1>5 DEF IInv, TypeOK, RunsBounded, Prepared, LedgerOverSettled,
          OneAtATime, NoneAtWork, EndPreparation, InState, dirVars, taskVars
    <2>8. NoStaleBinaryExecuted'
      BY <1>5 DEF IInv, TypeOK, RunsBounded, TaskEvidence, Prepared,
          NoStaleBinaryExecuted, SeedEvidence, Evidence, EndPreparation,
          InState, dirVars, taskVars
    <2>9. StraysAreKnown'
      BY <1>5, StraysKept DEF IInv, EndPreparation, Working, mainVars, dirVars, taskVars, Raised, LeaveLoop
    <2> QED BY <2>1, <2>2, <2>3, <2>4, <2>5, <2>6, <2>7, <2>8, <2>9 DEF IInv
  <1>6. CASE Submit
    <2>1. TypeOK'
      BY <1>6 DEF IInv, TypeOK, Submit, First, InState, dirVars
    <2>2. RunsBounded'
      BY <1>6 DEF IInv, TypeOK, RunsBounded, LogContents, MetaContents,
          LedgerContents, Submit, First, InState, dirVars
    <2>3. TaskEvidence'
      <3> SUFFICES ASSUME NEW t \in Seeds PROVE SeedEvidence(t)'
        BY DEF TaskEvidence
      <3>1. SeedEvidence(t)
        BY DEF IInv, TaskEvidence
      <3> QED BY <1>6, <3>1 DEF IInv, TypeOK, SeedEvidence, Evidence, Submit,
            First, InState, dirVars
    <2>4. Prepared'
      BY <1>6 DEF IInv, TypeOK, RunsBounded, Prepared, Submit, First,
          InState, dirVars
    <2>5. LedgerOverSettled'
      BY <1>6 DEF IInv, TypeOK, RunsBounded, LedgerOverSettled, Submit,
          First, InState, dirVars
    <2>6. OneAtATime'
      BY <1>6 DEF IInv, TypeOK, OneAtATime, Submit, First, InState, dirVars
    <2>7. NoneAtWork'
      BY <1>6 DEF IInv, TypeOK, RunsBounded, Prepared, LedgerOverSettled,
          OneAtATime, NoneAtWork, Submit, First, InState, dirVars
    <2>8. NoStaleBinaryExecuted'
      BY <1>6 DEF IInv, TypeOK, RunsBounded, TaskEvidence,
          NoStaleBinaryExecuted, SeedEvidence, Evidence, Submit, First,
          InState, dirVars
    <2>9. StraysAreKnown'
      BY <1>6, StraysKept DEF IInv, Submit, Working, mainVars, dirVars, taskVars, Raised, LeaveLoop
    <2> QED BY <2>1, <2>2, <2>3, <2>4, <2>5, <2>6, <2>7, <2>8, <2>9 DEF IInv
  <1>7. CASE Drained
    <2>1. TypeOK'
      BY <1>7 DEF IInv, TypeOK, Drained, Raised, InState, dirVars, taskVars
    <2>2. RunsBounded'
      BY <1>7 DEF IInv, TypeOK, RunsBounded, LogContents, MetaContents,
          LedgerContents, Drained, Raised, InState, dirVars, taskVars
    <2>3. TaskEvidence'
      <3> SUFFICES ASSUME NEW t \in Seeds PROVE SeedEvidence(t)'
        BY DEF TaskEvidence
      <3>1. SeedEvidence(t)
        BY DEF IInv, TaskEvidence
      <3> QED BY <1>7, <3>1 DEF IInv, TypeOK, SeedEvidence, Evidence, Drained,
            Raised, InState, dirVars, taskVars
    <2>4. Prepared'
      BY <1>7 DEF IInv, TypeOK, RunsBounded, Prepared, Drained, Raised,
          InState, dirVars, taskVars
    <2>5. LedgerOverSettled'
      BY <1>7 DEF IInv, TypeOK, RunsBounded, LedgerOverSettled, Drained,
          Raised, InState, dirVars, taskVars
    <2>6. OneAtATime'
      BY <1>7 DEF IInv, TypeOK, OneAtATime, Drained, Raised, InState,
          dirVars, taskVars
    <2>7. NoneAtWork'
      BY <1>7 DEF IInv, TypeOK, RunsBounded, Prepared, LedgerOverSettled,
          OneAtATime, NoneAtWork, Drained, Raised, InState, dirVars,
          taskVars
    <2>8. NoStaleBinaryExecuted'
      BY <1>7 DEF IInv, TypeOK, RunsBounded, TaskEvidence,
          NoStaleBinaryExecuted, SeedEvidence, Evidence, Drained, Raised,
          InState, dirVars, taskVars
    <2>9. StraysAreKnown'
      BY <1>7, StraysKept DEF IInv, Drained, Working, mainVars, dirVars, taskVars, Raised, LeaveLoop
    <2> QED BY <2>1, <2>2, <2>3, <2>4, <2>5, <2>6, <2>7, <2>8, <2>9 DEF IInv
  <1>8. CASE EndCollection
    <2>1. TypeOK'
      BY <1>8 DEF IInv, TypeOK, EndCollection, InState, dirVars, taskVars
    <2>2. RunsBounded'
      BY <1>8 DEF IInv, TypeOK, RunsBounded, LogContents, MetaContents,
          LedgerContents, EndCollection, InState, dirVars, taskVars
    <2>3. TaskEvidence'
      <3> SUFFICES ASSUME NEW t \in Seeds PROVE SeedEvidence(t)'
        BY DEF TaskEvidence
      <3>1. SeedEvidence(t)
        BY DEF IInv, TaskEvidence
      <3> QED BY <1>8, <3>1 DEF IInv, TypeOK, SeedEvidence, Evidence,
            EndCollection, InState, dirVars, taskVars
    <2>4. Prepared'
      BY <1>8 DEF IInv, TypeOK, RunsBounded, Prepared, EndCollection,
          InState, dirVars, taskVars
    <2>5. LedgerOverSettled'
      BY <1>8 DEF IInv, TypeOK, RunsBounded, LedgerOverSettled,
          EndCollection, InState, dirVars, taskVars
    <2>6. OneAtATime'
      BY <1>8 DEF IInv, TypeOK, OneAtATime, EndCollection, InState, dirVars,
          taskVars
    <2>7. NoneAtWork'
      BY <1>8 DEF IInv, TypeOK, RunsBounded, Prepared, LedgerOverSettled,
          OneAtATime, NoneAtWork, EndCollection, InState, dirVars, taskVars
    <2>8. NoStaleBinaryExecuted'
      BY <1>8 DEF IInv, TypeOK, RunsBounded, TaskEvidence,
          NoStaleBinaryExecuted, SeedEvidence, Evidence, EndCollection,
          InState, dirVars, taskVars
    <2>9. StraysAreKnown'
      BY <1>8, StraysKept DEF IInv, EndCollection, Working, mainVars, dirVars, taskVars, Raised, LeaveLoop
    <2> QED BY <2>1, <2>2, <2>3, <2>4, <2>5, <2>6, <2>7, <2>8, <2>9 DEF IInv
  <1>9. CASE WriteLedger
    <2>1. TypeOK'
      BY <1>9, EntriesTyped DEF IInv, TypeOK, WriteLedger, Raised, taskVars
    <2>2. RunsBounded'
      BY <1>9 DEF IInv, TypeOK, RunsBounded, LogContents, MetaContents,
          LedgerContents, NoMeta, NoLedger, WriteLedger, Raised, taskVars
    <2>3. TaskEvidence'
      <3> SUFFICES ASSUME NEW t \in Seeds PROVE SeedEvidence(t)'
        BY DEF TaskEvidence
      <3>1. SeedEvidence(t)
        BY DEF IInv, TaskEvidence
      <3> QED BY <1>9, <3>1 DEF IInv, TypeOK, RunsBounded, SeedEvidence, Evidence,
            WriteLedger, Raised, taskVars
    <2>4. Prepared'
      BY <1>9 DEF IInv, TypeOK, RunsBounded, Prepared, WriteLedger, Raised,
          taskVars
    <2>5. LedgerOverSettled'
      BY <1>9 DEF IInv, TypeOK, RunsBounded, LedgerOverSettled, NoMeta,
          NoLedger, WriteLedger, Raised, taskVars
    <2>6. OneAtATime'
      BY <1>9 DEF IInv, TypeOK, OneAtATime, InState, WriteLedger, Raised,
          taskVars
    <2>7. NoneAtWork'
      BY <1>9 DEF IInv, TypeOK, RunsBounded, Prepared, LedgerOverSettled,
          OneAtATime, NoneAtWork, InState, WriteLedger, Raised, taskVars
    <2>8. NoStaleBinaryExecuted'
      BY <1>9 DEF IInv, TypeOK, RunsBounded, TaskEvidence,
          NoStaleBinaryExecuted, SeedEvidence, Evidence, WriteLedger,
          Raised, taskVars
    <2>9. StraysAreKnown'
      BY <1>9, StraysKept DEF IInv, WriteLedger, Working, mainVars, dirVars, taskVars, Raised, LeaveLoop
    <2> QED BY <2>1, <2>2, <2>3, <2>4, <2>5, <2>6, <2>7, <2>8, <2>9 DEF IInv
  <1>10. CASE ExitCode
    <2>1. TypeOK'
      BY <1>10 DEF IInv, TypeOK, ExitCode, dirVars, taskVars
    <2>2. RunsBounded'
      BY <1>10 DEF IInv, TypeOK, RunsBounded, LogContents, MetaContents,
          LedgerContents, ExitCode, dirVars, taskVars
    <2>3. TaskEvidence'
      <3> SUFFICES ASSUME NEW t \in Seeds PROVE SeedEvidence(t)'
        BY DEF TaskEvidence
      <3>1. SeedEvidence(t)
        BY DEF IInv, TaskEvidence
      <3> QED BY <1>10, <3>1 DEF IInv, TypeOK, RunsBounded, SeedEvidence, Evidence,
            ExitCode, dirVars, taskVars
    <2>4. Prepared'
      BY <1>10 DEF IInv, TypeOK, RunsBounded, Prepared, ExitCode, dirVars,
          taskVars
    <2>5. LedgerOverSettled'
      BY <1>10 DEF IInv, TypeOK, RunsBounded, LedgerOverSettled, ExitCode,
          dirVars, taskVars
    <2>6. OneAtATime'
      BY <1>10 DEF IInv, TypeOK, OneAtATime, InState, ExitCode, dirVars,
          taskVars
    <2>7. NoneAtWork'
      BY <1>10 DEF IInv, TypeOK, RunsBounded, Prepared, LedgerOverSettled,
          OneAtATime, NoneAtWork, InState, ExitCode, dirVars, taskVars
    <2>8. NoStaleBinaryExecuted'
      BY <1>10 DEF IInv, TypeOK, RunsBounded, TaskEvidence,
          NoStaleBinaryExecuted, SeedEvidence, Evidence, ExitCode, dirVars,
          taskVars
    <2>9. StraysAreKnown'
      BY <1>10, StraysKept DEF IInv, ExitCode, Working, mainVars, dirVars, taskVars, Raised, LeaveLoop
    <2> QED BY <2>1, <2>2, <2>3, <2>4, <2>5, <2>6, <2>7, <2>8, <2>9 DEF IInv
  <1>11. CASE Interrupt
    <2>1. TypeOK'
      <3>1. bin' \in [Seeds -> 0..MaxRuns]
        <4>1. pc = "build" => cur \in Seeds /\ bin[cur] \in 0..MaxRuns
          BY DEF IInv, TypeOK, Prepared
        <4>2. CASE pc = "build"
          <5>1. \E left \in {0, bin[cur], run} :
                   bin' = [bin EXCEPT ![cur] = left]
            BY <1>11, <4>2 DEF Interrupt, HalfDone
          <5> QED BY <4>1, <4>2, <5>1 DEF IInv, TypeOK
        <4>3. CASE pc # "build"
          <5>1. bin' = bin
            BY <1>11, <4>3 DEF Interrupt, HalfDone
          <5> QED BY <5>1 DEF IInv, TypeOK
        <4> QED BY <4>2, <4>3
      <3>2. log' \in [Seeds -> LogContents]
        BY <1>11, EntriesTyped DEF IInv, TypeOK, Prepared, Interrupt,
            LeaveLoop, Raised, HalfDone, BeingReported, InState, Status
      <3>3. meta' \in [Seeds -> MetaContents]
        BY <1>11, EntriesTyped DEF IInv, TypeOK, Prepared, Interrupt,
            LeaveLoop, Raised, HalfDone, BeingReported, InState, Status
      <3>4. ledger' \in LedgerContents
        BY <1>11, EntriesTyped DEF IInv, TypeOK, Prepared, Interrupt,
            LeaveLoop, Raised, HalfDone, BeingReported, InState, Status
      <3>5. task' \in [Seeds -> TaskStates] /\ result' \in [Seeds -> Status \cup {"none"}]
        BY <1>11 DEF IInv, TypeOK, Prepared, Interrupt, LeaveLoop, Raised,
            HalfDone, BeingReported, InState, Status
      <3>6. entry' \in [Seeds -> Status \cup {"none"}] /\ cur' \in 1..(N + 1)
        BY <1>11 DEF IInv, TypeOK, Prepared, Interrupt, LeaveLoop, Raised,
            HalfDone, BeingReported, InState, Status
      <3> QED BY <1>11, <3>1, <3>2, <3>3, <3>4, <3>5, <3>6 DEF IInv, TypeOK,
            Prepared, Interrupt, LeaveLoop, Raised, HalfDone, BeingReported,
            InState, Status
    <2>2. RunsBounded'
      <3>1. ASSUME NEW t \in Seeds PROVE log'[t].run <= run'
        BY <1>11 DEF IInv, TypeOK, RunsBounded, Interrupt, LeaveLoop, Raised,
            HalfDone, BeingReported, InState, LogContents
      <3>2. ASSUME NEW t \in Seeds PROVE meta'[t].run <= run'
        <4>1. meta'[t] \in {meta[t], NoMeta} \/ meta'[t].run = run
          BY <1>11 DEF IInv, TypeOK, Interrupt, LeaveLoop, Raised, HalfDone,
              BeingReported, InState
        <4>2. meta[t].run <= run /\ run \in Nat /\ run' = run
          BY <1>11 DEF IInv, TypeOK, RunsBounded, Interrupt, LeaveLoop, Raised,
              HalfDone, BeingReported, InState
        <4> QED BY <4>1, <4>2 DEF NoMeta
      <3> QED BY <1>11, <3>1, <3>2 DEF IInv, TypeOK, RunsBounded, Interrupt,
            LeaveLoop, Raised, HalfDone, BeingReported, InState,
            LedgerContents, NoLedger
    <2>3. TaskEvidence'
      <3> SUFFICES ASSUME NEW t \in Seeds PROVE SeedEvidence(t)'
        BY DEF TaskEvidence
      <3>1. SeedEvidence(t)
        BY DEF IInv, TaskEvidence
      <3>2. /\ exit = "none" /\ exit' # "killed"
            /\ UNCHANGED <<log, run, entry, result>>
            /\ task'[t] = task[t] \/ (task[t] \in Active /\ task'[t] = "raised")
        <4>1. exit = "none" /\ exit' # "killed" /\ UNCHANGED <<run, entry>>
          BY <1>11 DEF IInv, RunsBounded, Interrupt, LeaveLoop, Raised
        <4>2. UNCHANGED <<log, result>>
          BY <1>11 DEF Interrupt, HalfDone
        <4>3. task'[t] = task[t] \/ (task[t] \in Active /\ task'[t] = "raised")
          <5>1. task' = [s \in Seeds |-> IF pc = "serial" /\ task[s] \in Active
                                        THEN "raised" ELSE task[s]]
            BY <1>11 DEF Interrupt
          <5> QED BY <5>1
        <4> QED BY <4>1, <4>2, <4>3
      <3>3. bin'[t] = bin[t] \/ task[t] = "none"
        <4>1. pc = "build" => cur \in Nat /\ task[cur] = "none"
          BY DEF IInv, TypeOK, Prepared
        <4>2. bin' = bin \/ (pc = "build" /\ \E left \in {0, bin[cur], run} :
                                bin' = [bin EXCEPT ![cur] = left])
          BY <1>11 DEF Interrupt, HalfDone
        <4> QED BY <4>1, <4>2 DEF IInv, TypeOK
      <3>4. meta'[t] = meta[t] \/ task[t] \in {"none", "done"}
        BY <1>11 DEF IInv, TypeOK, Prepared, Interrupt, HalfDone,
            BeingReported, InState
      <3> QED BY <3>1, <3>2, <3>3, <3>4 DEF SeedEvidence, Evidence, Active
    <2>4. Prepared'
      BY <1>11 DEF IInv, TypeOK, RunsBounded, Prepared, Interrupt,
          LeaveLoop, Raised, HalfDone, BeingReported, InState
    <2>5. LedgerOverSettled'
      BY <1>11 DEF IInv, TypeOK, RunsBounded, LedgerOverSettled, NoMeta,
          NoLedger, Interrupt, LeaveLoop, Raised, HalfDone, BeingReported,
          InState
    <2>6. OneAtATime'
      BY <1>11 DEF IInv, TypeOK, OneAtATime, Interrupt, LeaveLoop, Raised,
          HalfDone, BeingReported, InState
    <2>7. NoneAtWork'
      BY <1>11 DEF IInv, TypeOK, RunsBounded, Prepared, LedgerOverSettled,
          OneAtATime, NoneAtWork, Interrupt, LeaveLoop, Raised, HalfDone,
          BeingReported, InState
    <2>8. NoStaleBinaryExecuted'
      BY <1>11 DEF IInv, TypeOK, RunsBounded, TaskEvidence,
          NoStaleBinaryExecuted, SeedEvidence, Evidence, Interrupt,
          LeaveLoop, Raised, HalfDone, BeingReported, InState
    <2>9. StraysAreKnown'
      BY <1>11, StraysKept DEF IInv, Interrupt, HalfDone, Working, mainVars, dirVars, taskVars, Raised, LeaveLoop
    <2> QED BY <2>1, <2>2, <2>3, <2>4, <2>5, <2>6, <2>7, <2>8, <2>9 DEF IInv
  <1>12. CASE Kill
    <2>1. TypeOK'
      <3>1. bin' \in [Seeds -> 0..MaxRuns]
        <4>1. pc = "build" => cur \in Seeds /\ bin[cur] \in 0..MaxRuns
          BY DEF IInv, TypeOK, Prepared
        <4>2. CASE pc = "build"
          <5>1. \E left \in {0, bin[cur], run} :
                   bin' = [bin EXCEPT ![cur] = left]
            BY <1>12, <4>2 DEF Kill, HalfDone
          <5> QED BY <4>1, <4>2, <5>1 DEF IInv, TypeOK
        <4>3. CASE pc # "build"
          <5>1. bin' = bin
            BY <1>12, <4>3 DEF Kill, HalfDone
          <5> QED BY <5>1 DEF IInv, TypeOK
        <4> QED BY <4>2, <4>3
      <3>2. log' \in [Seeds -> LogContents]
        BY <1>12, EntriesTyped DEF IInv, TypeOK, Prepared, Kill, HalfDone,
            BeingReported, InState, taskVars, Status
      <3>3. meta' \in [Seeds -> MetaContents]
        BY <1>12, EntriesTyped DEF IInv, TypeOK, Prepared, Kill, HalfDone,
            BeingReported, InState, taskVars, Status
      <3>4. ledger' \in LedgerContents
        BY <1>12, EntriesTyped DEF IInv, TypeOK, Prepared, Kill, HalfDone,
            BeingReported, InState, taskVars, Status
      <3>5. task' \in [Seeds -> TaskStates] /\ result' \in [Seeds -> Status \cup {"none"}]
        BY <1>12 DEF IInv, TypeOK, Prepared, Kill, HalfDone, BeingReported,
            InState, taskVars, Status
      <3>6. entry' \in [Seeds -> Status \cup {"none"}] /\ cur' \in 1..(N + 1)
        BY <1>12 DEF IInv, TypeOK, Prepared, Kill, HalfDone, BeingReported,
            InState, taskVars, Status
      <3>7. stray' \subseteq Strays
        BY <1>12 DEF IInv, TypeOK, Kill, InState, Stray, Strays
      <3>8. pc' = "idle" /\ exit' = "killed" /\ run' \in 0..MaxRuns
        BY <1>12 DEF IInv, TypeOK, Kill
      <3> QED BY <3>1, <3>2, <3>3, <3>4, <3>5, <3>6, <3>7, <3>8 DEF TypeOK
    <2>2. RunsBounded'
      <3>1. ASSUME NEW t \in Seeds PROVE log'[t].run <= run'
        BY <1>12 DEF IInv, TypeOK, RunsBounded, Kill, HalfDone, BeingReported,
            InState, taskVars, LogContents
      <3>2. ASSUME NEW t \in Seeds PROVE meta'[t].run <= run'
        <4>1. meta'[t] \in {meta[t], NoMeta} \/ meta'[t].run = run
          BY <1>12 DEF IInv, TypeOK, Kill, HalfDone, BeingReported, InState,
              taskVars
        <4>2. meta[t].run <= run /\ run \in Nat /\ run' = run
          BY <1>12 DEF IInv, TypeOK, RunsBounded, Kill, HalfDone,
              BeingReported, InState, taskVars
        <4> QED BY <4>1, <4>2 DEF NoMeta
      <3> QED BY <1>12, <3>1, <3>2 DEF IInv, TypeOK, RunsBounded, Kill,
            HalfDone, BeingReported, InState, taskVars, LedgerContents,
            NoLedger
    <2>3. TaskEvidence'
      <3> SUFFICES ASSUME NEW t \in Seeds PROVE SeedEvidence(t)'
        BY DEF TaskEvidence
      <3>1. SeedEvidence(t)
        BY DEF IInv, TaskEvidence
      <3>2. exit' = "killed" /\ UNCHANGED <<log, run, entry, task, result>>
        BY <1>12 DEF Kill, HalfDone, taskVars
      <3>3. bin'[t] = bin[t] \/ task[t] = "none"
        <4>1. pc = "build" => cur \in Nat /\ task[cur] = "none"
          BY DEF IInv, TypeOK, Prepared
        <4>2. bin' = bin \/ (pc = "build" /\ \E left \in {0, bin[cur], run} :
                                bin' = [bin EXCEPT ![cur] = left])
          BY <1>12 DEF Kill, HalfDone
        <4> QED BY <4>1, <4>2 DEF IInv, TypeOK
      <3>4. meta'[t] = meta[t] \/ task[t] \in {"none", "done"}
        BY <1>12 DEF IInv, TypeOK, Prepared, Kill, HalfDone, BeingReported,
            InState
      <3> QED BY <3>1, <3>2, <3>3, <3>4 DEF SeedEvidence, Evidence
    <2>4. Prepared'
      BY <1>12 DEF IInv, TypeOK, RunsBounded, Prepared, Kill, HalfDone,
          BeingReported, InState, taskVars
    <2>5. LedgerOverSettled'
      BY <1>12 DEF IInv, TypeOK, RunsBounded, LedgerOverSettled, NoMeta,
          NoLedger, Kill, HalfDone, BeingReported, InState, taskVars
    <2>6. OneAtATime'
      BY <1>12 DEF IInv, TypeOK, OneAtATime, Kill, HalfDone, BeingReported,
          InState, taskVars
    <2>7. NoneAtWork'
      BY <1>12 DEF IInv, TypeOK, RunsBounded, Prepared, LedgerOverSettled,
          OneAtATime, NoneAtWork, Kill, HalfDone, BeingReported, InState,
          taskVars
    <2>8. NoStaleBinaryExecuted'
      BY <1>12 DEF IInv, TypeOK, RunsBounded, TaskEvidence,
          NoStaleBinaryExecuted, SeedEvidence, Evidence, Kill, HalfDone,
          BeingReported, InState, taskVars
    <2>9. StraysAreKnown'
      <3>1. PICK left \in SUBSET InState({"emu"}) :
              stray' = stray \cup {Stray(s, run, "emu") : s \in left}
        BY <1>12 DEF Kill
      <3>2. /\ pc # "idle" /\ pc' = "idle" /\ exit' = "killed"
            /\ UNCHANGED <<log, task, run>>
        BY <1>12 DEF Kill, HalfDone, taskVars
      <3>3. ASSUME NEW e \in stray
            PROVE  /\ e.run \in 1..run /\ (e.run = run => e.kind # "emu")
                   /\ e.kind = "replay" /\ e.run = run =>
                        /\ log[e.seed].run = run
                        /\ log[e.seed].verdict = "bad" \/ log[e.seed].mixed
        BY <3>2 DEF IInv, StraysAreKnown
      <3>4. ASSUME NEW s \in left
            PROVE  /\ task[s] = "emu" /\ run \in 1..run
                   /\ log[s].verdict = "none" \/ log[s].mixed
        BY <3>2 DEF IInv, TypeOK, RunsBounded, TaskEvidence, SeedEvidence,
                    InState
      <3> QED BY <3>1, <3>2, <3>3, <3>4 DEF StraysAreKnown, Stray
    <2> QED BY <2>1, <2>2, <2>3, <2>4, <2>5, <2>6, <2>7, <2>8, <2>9 DEF IInv
  <1>13. ASSUME NEW s \in Seeds, Collect(s) PROVE IInv'
    <2>1. TypeOK'
      <3>1. bin' \in [Seeds -> 0..MaxRuns]
        BY <1>13 DEF IInv, TypeOK, Collect, LeaveLoop, Raised, TaskEvidence,
            SeedEvidence, Status
      <3>2. log' \in [Seeds -> LogContents]
        BY <1>13, EntriesTyped DEF IInv, TypeOK, Collect, LeaveLoop, Raised,
            TaskEvidence, SeedEvidence, Status
      <3>3. meta' \in [Seeds -> MetaContents]
        <4>1. result[s] \in Status
          BY <1>13 DEF IInv, TaskEvidence, SeedEvidence, Collect
        <4>2. [run |-> run, status |-> result[s]] \in MetaContents
          BY <4>1, EntriesTyped DEF IInv, TypeOK
        <4>3. \E m \in MetaContents : meta' = meta \/ meta' = [meta EXCEPT ![s] = m]
          BY <1>13, <4>2, EntriesTyped DEF Collect
        <4> QED BY <4>3 DEF IInv, TypeOK
      <3>4. ledger' \in LedgerContents
        BY <1>13, EntriesTyped DEF IInv, TypeOK, Collect, LeaveLoop, Raised,
            TaskEvidence, SeedEvidence, Status
      <3>5. task' \in [Seeds -> TaskStates] /\ result' \in [Seeds -> Status \cup {"none"}]
        BY <1>13 DEF IInv, TypeOK, Collect, LeaveLoop, Raised, TaskEvidence,
            SeedEvidence, Status
      <3>6. entry' \in [Seeds -> Status \cup {"none"}] /\ cur' \in 1..(N + 1)
        BY <1>13 DEF IInv, TypeOK, Collect, LeaveLoop, Raised, TaskEvidence,
            SeedEvidence, Status
      <3> QED BY <1>13, <3>1, <3>2, <3>3, <3>4, <3>5, <3>6 DEF IInv, TypeOK,
            Collect, LeaveLoop, Raised, TaskEvidence, SeedEvidence, Status
    <2>2. RunsBounded'
      <3>1. ASSUME NEW t \in Seeds PROVE log'[t].run <= run'
        BY <1>13 DEF IInv, TypeOK, RunsBounded, Collect, LeaveLoop, Raised,
            LogContents
      <3>2. ASSUME NEW t \in Seeds PROVE meta'[t].run <= run'
        <4>1. meta'[t] \in {meta[t], NoMeta} \/ meta'[t].run = run
          BY <1>13 DEF IInv, TypeOK, Collect, LeaveLoop, Raised
        <4>2. meta[t].run <= run /\ run \in Nat /\ run' = run
          BY <1>13 DEF IInv, TypeOK, RunsBounded, Collect, LeaveLoop, Raised
        <4> QED BY <4>1, <4>2 DEF NoMeta
      <3> QED BY <1>13, <3>1, <3>2 DEF IInv, TypeOK, RunsBounded, Collect,
            LeaveLoop, Raised, LedgerContents
    <2>3. TaskEvidence'
      <3> SUFFICES ASSUME NEW t \in Seeds PROVE SeedEvidence(t)'
        BY DEF TaskEvidence
      <3>1. SeedEvidence(t) /\ SeedEvidence(s)
        BY DEF IInv, TaskEvidence
      <3>2. CASE t = s
        BY <1>13, <3>1, <3>2 DEF IInv, TypeOK, RunsBounded, SeedEvidence, Evidence, Collect,
            LeaveLoop, Raised
      <3>3. CASE t # s
        BY <1>13, <3>1, <3>3 DEF IInv, TypeOK, RunsBounded, SeedEvidence, Evidence, Collect,
            LeaveLoop, Raised
      <3> QED BY <3>2, <3>3
    <2>4. Prepared'
      BY <1>13 DEF IInv, TypeOK, RunsBounded, Prepared, Collect, LeaveLoop,
          Raised
    <2>5. LedgerOverSettled'
      BY <1>13 DEF IInv, TypeOK, RunsBounded, LedgerOverSettled, NoMeta,
          NoLedger, Collect, LeaveLoop, Raised
    <2>6. OneAtATime'
      BY <1>13 DEF IInv, TypeOK, OneAtATime, InState, Collect, LeaveLoop,
          Raised
    <2>7. NoneAtWork'
      BY <1>13 DEF IInv, TypeOK, RunsBounded, Prepared, LedgerOverSettled,
          OneAtATime, NoneAtWork, InState, Collect, LeaveLoop, Raised
    <2>8. NoStaleBinaryExecuted'
      BY <1>13 DEF IInv, TypeOK, RunsBounded, TaskEvidence,
          NoStaleBinaryExecuted, SeedEvidence, Evidence, Collect, LeaveLoop,
          Raised
    <2>9. StraysAreKnown'
      BY <1>13, StraysKept DEF IInv, Collect, Working, mainVars, dirVars, taskVars, Raised, LeaveLoop
    <2> QED BY <2>1, <2>2, <2>3, <2>4, <2>5, <2>6, <2>7, <2>8, <2>9 DEF IInv
  <1>14. ASSUME NEW s \in Seeds, CollectRaised(s) PROVE IInv'
    <2>1. TypeOK'
      BY <1>14 DEF IInv, TypeOK, CollectRaised, LeaveLoop, Raised, dirVars,
          taskVars
    <2>2. RunsBounded'
      BY <1>14 DEF IInv, TypeOK, RunsBounded, LogContents, MetaContents,
          LedgerContents, CollectRaised, LeaveLoop, Raised, dirVars,
          taskVars
    <2>3. TaskEvidence'
      <3> SUFFICES ASSUME NEW t \in Seeds PROVE SeedEvidence(t)'
        BY DEF TaskEvidence
      <3>1. SeedEvidence(t) /\ SeedEvidence(s)
        BY DEF IInv, TaskEvidence
      <3>2. CASE t = s
        BY <1>14, <3>1, <3>2 DEF IInv, TypeOK, RunsBounded, SeedEvidence, Evidence,
            CollectRaised, LeaveLoop, Raised, dirVars, taskVars
      <3>3. CASE t # s
        BY <1>14, <3>1, <3>3 DEF IInv, TypeOK, RunsBounded, SeedEvidence, Evidence,
            CollectRaised, LeaveLoop, Raised, dirVars, taskVars
      <3> QED BY <3>2, <3>3
    <2>4. Prepared'
      BY <1>14 DEF IInv, TypeOK, RunsBounded, Prepared, CollectRaised,
          LeaveLoop, Raised, dirVars, taskVars
    <2>5. LedgerOverSettled'
      BY <1>14 DEF IInv, TypeOK, RunsBounded, LedgerOverSettled,
          CollectRaised, LeaveLoop, Raised, dirVars, taskVars
    <2>6. OneAtATime'
      BY <1>14 DEF IInv, TypeOK, OneAtATime, InState, CollectRaised,
          LeaveLoop, Raised, dirVars, taskVars
    <2>7. NoneAtWork'
      BY <1>14 DEF IInv, TypeOK, RunsBounded, Prepared, LedgerOverSettled,
          OneAtATime, NoneAtWork, InState, CollectRaised, LeaveLoop, Raised,
          dirVars, taskVars
    <2>8. NoStaleBinaryExecuted'
      BY <1>14 DEF IInv, TypeOK, RunsBounded, TaskEvidence,
          NoStaleBinaryExecuted, SeedEvidence, Evidence, CollectRaised,
          LeaveLoop, Raised, dirVars, taskVars
    <2>9. StraysAreKnown'
      BY <1>14, StraysKept DEF IInv, CollectRaised, Working, mainVars, dirVars, taskVars, Raised, LeaveLoop
    <2> QED BY <2>1, <2>2, <2>3, <2>4, <2>5, <2>6, <2>7, <2>8, <2>9 DEF IInv
  <1>15. ASSUME NEW s \in Seeds, Working, Take(s), UNCHANGED mainVars
         PROVE  IInv'
    <2>1. TypeOK'
      BY <1>15 DEF IInv, TypeOK, Take, First, InState, dirVars, Working,
          mainVars
    <2>2. RunsBounded'
      BY <1>15 DEF IInv, TypeOK, RunsBounded, LogContents, MetaContents,
          LedgerContents, Take, First, InState, dirVars, Working, mainVars
    <2>3. TaskEvidence'
      <3> SUFFICES ASSUME NEW t \in Seeds PROVE SeedEvidence(t)'
        BY DEF TaskEvidence
      <3>1. SeedEvidence(t) /\ SeedEvidence(s)
        BY DEF IInv, TaskEvidence
      <3>2. CASE t = s
        BY <1>15, <3>1, <3>2 DEF IInv, TypeOK, SeedEvidence, Evidence, Take,
            First, InState, dirVars, Working, mainVars
      <3>3. CASE t # s
        BY <1>15, <3>1, <3>3 DEF IInv, TypeOK, SeedEvidence, Evidence, Take,
            First, InState, dirVars, Working, mainVars
      <3> QED BY <3>2, <3>3
    <2>4. Prepared'
      BY <1>15 DEF IInv, TypeOK, RunsBounded, Prepared, Take, First,
          InState, dirVars, Working, mainVars
    <2>5. LedgerOverSettled'
      BY <1>15 DEF IInv, TypeOK, RunsBounded, LedgerOverSettled, Take,
          First, InState, dirVars, Working, mainVars
    <2>6. OneAtATime'
      BY <1>15 DEF IInv, TypeOK, OneAtATime, Take, First, InState, dirVars,
          Working, mainVars
    <2>7. NoneAtWork'
      BY <1>15 DEF IInv, TypeOK, RunsBounded, Prepared, LedgerOverSettled,
          OneAtATime, NoneAtWork, Take, First, InState, dirVars, Working,
          mainVars
    <2>8. NoStaleBinaryExecuted'
      BY <1>15 DEF IInv, TypeOK, RunsBounded, TaskEvidence,
          NoStaleBinaryExecuted, SeedEvidence, Evidence, Take, First,
          InState, dirVars, Working, mainVars
    <2>9. StraysAreKnown'
      BY <1>15, StraysKept DEF IInv, Take, Working, mainVars, dirVars, taskVars, Raised, LeaveLoop
    <2> QED BY <2>1, <2>2, <2>3, <2>4, <2>5, <2>6, <2>7, <2>8, <2>9 DEF IInv
  <1>16. ASSUME NEW s \in Seeds, Working, LaunchRunner(s), UNCHANGED mainVars
         PROVE  IInv'
    <2>1. TypeOK'
      <3>1. bin' \in [Seeds -> 0..MaxRuns]
        BY <1>16 DEF IInv, TypeOK, LaunchRunner, OpenLog, Opened, Returns, Becomes,
            dirVars, Working, mainVars, Status
      <3>2. log' \in [Seeds -> LogContents]
        BY <1>16, EntriesTyped DEF IInv, TypeOK, LaunchRunner, OpenLog, Opened, Returns,
            Becomes, dirVars, Working, mainVars, Status
      <3>3. meta' \in [Seeds -> MetaContents]
        BY <1>16, EntriesTyped DEF IInv, TypeOK, LaunchRunner, OpenLog, Opened, Returns,
            Becomes, dirVars, Working, mainVars, Status
      <3>4. ledger' \in LedgerContents
        BY <1>16, EntriesTyped DEF IInv, TypeOK, LaunchRunner, OpenLog, Opened, Returns,
            Becomes, dirVars, Working, mainVars, Status
      <3>5. task' \in [Seeds -> TaskStates] /\ result' \in [Seeds -> Status \cup {"none"}]
        BY <1>16 DEF IInv, TypeOK, LaunchRunner, OpenLog, Opened, Returns, Becomes,
            dirVars, Working, mainVars, Status
      <3>6. entry' \in [Seeds -> Status \cup {"none"}] /\ cur' \in 1..(N + 1)
        BY <1>16 DEF IInv, TypeOK, LaunchRunner, OpenLog, Opened, Returns, Becomes,
            dirVars, Working, mainVars, Status
      <3> QED BY <1>16, <3>1, <3>2, <3>3, <3>4, <3>5, <3>6 DEF IInv, TypeOK,
            LaunchRunner, OpenLog, Opened, Returns, Becomes, dirVars, Working,
            mainVars, Status
    <2>2. RunsBounded'
      <3>1. ASSUME NEW t \in Seeds PROVE log'[t].run <= run'
        <4>1. UNCHANGED run /\ log[t].run <= run /\ run \in Nat
          BY <1>16 DEF IInv, TypeOK, RunsBounded, mainVars
        <4>2. \A b : Opened(run, b).run = run
          BY DEF Opened
        <4>3. \/ UNCHANGED log
              \/ log' = [log EXCEPT ![s] = Opened(run, 0)]
              \/ log' = [log EXCEPT ![s] = Opened(run, bin[s])]
          BY <1>16 DEF LaunchRunner, OpenLog, dirVars
        <4>4. log'[t] = log[t] \/ log'[t] = Opened(run, 0) \/ log'[t] = Opened(run, bin[s])
          BY <4>3 DEF IInv, TypeOK
        <4>5. log'[t] = log[t] \/ log'[t].run = run
          BY <4>2, <4>4
        <4> QED BY <4>1, <4>5
      <3>2. ASSUME NEW t \in Seeds PROVE meta'[t].run <= run'
        BY <1>16 DEF IInv, TypeOK, RunsBounded, LaunchRunner, OpenLog, Opened, Returns,
            Becomes, dirVars, Working, mainVars, MetaContents
      <3> QED BY <1>16, <3>1, <3>2 DEF IInv, TypeOK, RunsBounded, LaunchRunner,
            OpenLog, Opened, Returns, Becomes, dirVars, Working, mainVars,
            LedgerContents
    <2>3. TaskEvidence'
      <3> SUFFICES ASSUME NEW t \in Seeds PROVE SeedEvidence(t)'
        BY DEF TaskEvidence
      <3>1. SeedEvidence(t) /\ SeedEvidence(s)
        BY DEF IInv, TaskEvidence
      <3>2. CASE t = s
        BY <1>16, <3>1, <3>2 DEF IInv, TypeOK, SeedEvidence, Evidence,
            LaunchRunner, OpenLog, Opened, Returns, Becomes, dirVars, Working,
            mainVars, Status
      <3>3. CASE t # s
        BY <1>16, <3>1, <3>3 DEF IInv, TypeOK, SeedEvidence, Evidence,
            LaunchRunner, OpenLog, Opened, Returns, Becomes, dirVars, Working,
            mainVars, Status
      <3> QED BY <3>2, <3>3
    <2>4. Prepared'
      BY <1>16 DEF IInv, TypeOK, RunsBounded, Prepared, LaunchRunner,
          OpenLog, Opened, Returns, Becomes, dirVars, Working, mainVars
    <2>5. LedgerOverSettled'
      BY <1>16 DEF IInv, TypeOK, RunsBounded, LedgerOverSettled,
          LaunchRunner, OpenLog, Opened, Returns, Becomes, dirVars, Working, mainVars
    <2>6. OneAtATime'
      <3>1. /\ UNCHANGED pc /\ task[s] = "starting"
            /\ \E state \in {"done", "crashed", "emu"} :
                  task' = [task EXCEPT ![s] = state]
        BY <1>16 DEF LaunchRunner, Returns, Becomes, mainVars
      <3> QED BY <3>1 DEF IInv, TypeOK, OneAtATime, InState, Active
    <2>7. NoneAtWork'
      BY <1>16 DEF IInv, TypeOK, RunsBounded, Prepared, LedgerOverSettled,
          OneAtATime, NoneAtWork, InState, LaunchRunner, OpenLog, Opened, Returns,
          Becomes, dirVars, Working, mainVars
    <2>8. NoStaleBinaryExecuted'
      <3> SUFFICES ASSUME NEW t \in Seeds
                   PROVE  (log[t].run = run => log[t].bin \in {0, run})'
        BY DEF NoStaleBinaryExecuted
      <3>1. CASE t = s
        BY <1>16, <3>1 DEF IInv, TypeOK, LaunchRunner, OpenLog, Opened, Returns,
            Becomes, dirVars, Working, mainVars, TaskEvidence, SeedEvidence,
            RunsBounded, NoStaleBinaryExecuted
      <3>2. CASE t # s
        BY <1>16, <3>2 DEF IInv, TypeOK, LaunchRunner, OpenLog, Opened, Returns,
            Becomes, dirVars, Working, mainVars, NoStaleBinaryExecuted
      <3> QED BY <3>1, <3>2
    <2>9. StraysAreKnown'
      <3>1. /\ pc # "idle" /\ UNCHANGED <<stray, run>> /\ SeedEvidence(s)
            /\ task[s] = "starting" /\ run > 0
            /\ \A t \in Seeds : t # s => log'[t] = log[t]
        BY <1>16 DEF IInv, TypeOK, RunsBounded, TaskEvidence, LaunchRunner,
            OpenLog, Working, mainVars, dirVars
      <3>2. ASSUME NEW e \in stray, e.run = run
            PROVE  e.seed \in Seeds /\ e.seed # s
        BY <3>1, <3>2 DEF IInv, TypeOK, Strays, StraysAreKnown, SeedEvidence
      <3> QED BY <3>1, <3>2, StraysKept DEF IInv
    <2> QED BY <2>1, <2>2, <2>3, <2>4, <2>5, <2>6, <2>7, <2>8, <2>9 DEF IInv
  <1>17. ASSUME NEW s \in Seeds, Working, RunnerEnds(s), UNCHANGED mainVars
         PROVE  IInv'
    <2>own. PICK own \in Verdicts :
              /\ Prints(s, run, own)
              /\ \E left \in MayReplay(s, run, own) : stray' = stray \cup left
      BY <1>17 DEF RunnerEnds
    <2>0. PICK left \in MayReplay(s, run, own) : stray' = stray \cup left
      BY <2>own
    <2>a. /\ log' \in [Seeds -> LogContents]
          /\ \A t \in Seeds : t # s => log'[t] = log[t]
          /\ \A t \in Seeds : log'[t].run = log[t].run /\ log'[t].bin = log[t].bin
          /\ log'[s].mixed \/ log'[s].verdict = own
          /\ log[s].mixed \/ log[s].run # run => log'[s].mixed
      BY <2>own, Printed DEF IInv, TypeOK
    <2>b. /\ left \subseteq Strays
          /\ \A e \in left : /\ e.seed = s /\ e.run = run
                             /\ e.kind = "replay" /\ own = "bad"
      BY <2>0, Replays DEF IInv, TypeOK
    <2>c. /\ UNCHANGED <<bin, meta, ledger, run, pc, cur, entry, exit>>
          /\ task[s] = "emu" /\ pc # "idle"
          /\ \/ task' = [task EXCEPT ![s] = "ended"] /\ UNCHANGED result
             \/ task' = [task EXCEPT ![s] = "crashed"] /\ UNCHANGED result
             \/ /\ task' = [task EXCEPT ![s] = "done"]
                /\ result' = [result EXCEPT ![s] = "timeout"]
      BY <1>17 DEF RunnerEnds, Becomes, Returns, Working, mainVars
    <2>1. TypeOK'
      BY <2>0, <2>a, <2>b, <2>c DEF IInv, TypeOK, Status
    <2>2. RunsBounded'
      BY <2>a, <2>c DEF IInv, RunsBounded
    <2>3. TaskEvidence'
      <3> SUFFICES ASSUME NEW t \in Seeds PROVE SeedEvidence(t)'
        BY DEF TaskEvidence
      <3>1. SeedEvidence(t) /\ SeedEvidence(s)
        BY DEF IInv, TaskEvidence
      <3>2. CASE t = s
        BY <2>a, <2>c, <3>1, <3>2 DEF IInv, TypeOK, SeedEvidence, Status
      <3>3. CASE t # s
        BY <2>a, <2>c, <3>1, <3>3 DEF IInv, TypeOK, SeedEvidence, Evidence
      <3> QED BY <3>2, <3>3
    <2>4. Prepared'
      BY <1>17, <2>c DEF IInv, TypeOK, Prepared, Working
    <2>5. LedgerOverSettled'
      BY <2>c DEF IInv, TypeOK, RunsBounded, LedgerOverSettled
    <2>6. OneAtATime'
      BY <2>c DEF IInv, TypeOK, OneAtATime, InState
    <2>7. NoneAtWork'
      BY <1>17, <2>c DEF NoneAtWork, Working
    <2>8. NoStaleBinaryExecuted'
      BY <2>a, <2>c DEF IInv, NoStaleBinaryExecuted
    <2>9. StraysAreKnown'
      <3> SUFFICES ASSUME NEW e \in stray \cup left, e.run = run
                   PROVE  /\ e.kind # "emu"
                          /\ e.kind = "replay" =>
                               /\ log'[e.seed].run = run
                               /\ log'[e.seed].verdict = "bad" \/ log'[e.seed].mixed
        BY <2>0, <2>b, <2>c DEF IInv, TypeOK, RunsBounded, StraysAreKnown
      <3>1. SeedEvidence(s) /\ exit = "none"
        BY <2>c DEF IInv, TaskEvidence, RunsBounded
      <3>2. CASE e \in left
        BY <2>a, <2>b, <2>c, <3>1, <3>2 DEF SeedEvidence
      <3>3. CASE e \in stray /\ e.seed = s
        BY <2>a, <2>c, <3>1, <3>3 DEF IInv, StraysAreKnown, SeedEvidence
      <3>4. CASE e \in stray /\ e.seed # s
        BY <2>a, <2>c, <3>4 DEF IInv, TypeOK, StraysAreKnown, Strays
      <3> QED BY <3>2, <3>3, <3>4
    <2> QED BY <2>1, <2>2, <2>3, <2>4, <2>5, <2>6, <2>7, <2>8, <2>9 DEF IInv
  <1>18. ASSUME NEW s \in Seeds, Working, Classify(s), UNCHANGED mainVars
         PROVE  IInv'
    <2>1. TypeOK'
      <3>1. bin' \in [Seeds -> 0..MaxRuns]
        BY <1>18 DEF IInv, TypeOK, Classify, Returns, Becomes, dirVars,
            Working, mainVars, Status
      <3>2. log' \in [Seeds -> LogContents]
        BY <1>18, EntriesTyped DEF IInv, TypeOK, Classify, Returns, Becomes,
            dirVars, Working, mainVars, Status
      <3>3. meta' \in [Seeds -> MetaContents]
        BY <1>18, EntriesTyped DEF IInv, TypeOK, Classify, Returns, Becomes,
            dirVars, Working, mainVars, Status
      <3>4. ledger' \in LedgerContents
        BY <1>18, EntriesTyped DEF IInv, TypeOK, Classify, Returns, Becomes,
            dirVars, Working, mainVars, Status
      <3>5. task' \in [Seeds -> TaskStates] /\ result' \in [Seeds -> Status \cup {"none"}]
        BY <1>18 DEF IInv, TypeOK, Classify, Returns, Becomes, dirVars,
            Working, mainVars, Status
      <3>6. entry' \in [Seeds -> Status \cup {"none"}] /\ cur' \in 1..(N + 1)
        BY <1>18 DEF IInv, TypeOK, Classify, Returns, Becomes, dirVars,
            Working, mainVars, Status
      <3> QED BY <1>18, <3>1, <3>2, <3>3, <3>4, <3>5, <3>6 DEF IInv, TypeOK,
            Classify, Returns, Becomes, dirVars, Working, mainVars, Status
    <2>2. RunsBounded'
      BY <1>18 DEF IInv, TypeOK, RunsBounded, LogContents, MetaContents,
          LedgerContents, Classify, Returns, Becomes, dirVars, Working,
          mainVars
    <2>3. TaskEvidence'
      <3> SUFFICES ASSUME NEW t \in Seeds PROVE SeedEvidence(t)'
        BY DEF TaskEvidence
      <3>1. SeedEvidence(t) /\ SeedEvidence(s)
        BY DEF IInv, TaskEvidence
      <3>2. CASE t = s
        BY <1>18, <3>1, <3>2 DEF IInv, TypeOK, NoStaleBinaryExecuted,
            LogContents, SeedEvidence, Evidence, Classify, Returns, Becomes,
            dirVars, Working, mainVars, Status
      <3>3. CASE t # s
        BY <1>18, <3>1, <3>3 DEF IInv, TypeOK, NoStaleBinaryExecuted,
            LogContents, SeedEvidence, Evidence, Classify, Returns, Becomes,
            dirVars, Working, mainVars, Status
      <3> QED BY <3>2, <3>3
    <2>4. Prepared'
      BY <1>18 DEF IInv, TypeOK, RunsBounded, Prepared, Classify, Returns,
          Becomes, dirVars, Working, mainVars
    <2>5. LedgerOverSettled'
      BY <1>18 DEF IInv, TypeOK, RunsBounded, LedgerOverSettled, Classify,
          Returns, Becomes, dirVars, Working, mainVars
    <2>6. OneAtATime'
      BY <1>18 DEF IInv, TypeOK, OneAtATime, InState, Classify, Returns,
          Becomes, dirVars, Working, mainVars
    <2>7. NoneAtWork'
      BY <1>18 DEF IInv, TypeOK, RunsBounded, Prepared, LedgerOverSettled,
          OneAtATime, NoneAtWork, InState, Classify, Returns, Becomes,
          dirVars, Working, mainVars
    <2>8. NoStaleBinaryExecuted'
      BY <1>18 DEF IInv, TypeOK, RunsBounded, TaskEvidence,
          NoStaleBinaryExecuted, SeedEvidence, Evidence, Classify, Returns,
          Becomes, dirVars, Working, mainVars
    <2>9. StraysAreKnown'
      BY <1>18, StraysKept DEF IInv, Classify, Working, mainVars, dirVars, taskVars, Raised, LeaveLoop
    <2> QED BY <2>1, <2>2, <2>3, <2>4, <2>5, <2>6, <2>7, <2>8, <2>9 DEF IInv
  <1>19. ASSUME NEW s \in Seeds, Working, HandleCrash(s), UNCHANGED mainVars
         PROVE  IInv'
    <2>1. TypeOK'
      <3>1. bin' \in [Seeds -> 0..MaxRuns]
        BY <1>19 DEF IInv, TypeOK, HandleCrash, Returns, Becomes, dirVars,
            Working, mainVars, Status
      <3>2. log' \in [Seeds -> LogContents]
        BY <1>19, EntriesTyped DEF IInv, TypeOK, HandleCrash, Returns, Becomes,
            dirVars, Working, mainVars, Status
      <3>3. meta' \in [Seeds -> MetaContents]
        BY <1>19, EntriesTyped DEF IInv, TypeOK, HandleCrash, Returns, Becomes,
            dirVars, Working, mainVars, Status
      <3>4. ledger' \in LedgerContents
        BY <1>19, EntriesTyped DEF IInv, TypeOK, HandleCrash, Returns, Becomes,
            dirVars, Working, mainVars, Status
      <3>5. task' \in [Seeds -> TaskStates] /\ result' \in [Seeds -> Status \cup {"none"}]
        BY <1>19 DEF IInv, TypeOK, HandleCrash, Returns, Becomes, dirVars,
            Working, mainVars, Status
      <3>6. entry' \in [Seeds -> Status \cup {"none"}] /\ cur' \in 1..(N + 1)
        BY <1>19 DEF IInv, TypeOK, HandleCrash, Returns, Becomes, dirVars,
            Working, mainVars, Status
      <3> QED BY <1>19, <3>1, <3>2, <3>3, <3>4, <3>5, <3>6 DEF IInv, TypeOK,
            HandleCrash, Returns, Becomes, dirVars, Working, mainVars,
            Status
    <2>2. RunsBounded'
      BY <1>19 DEF IInv, TypeOK, RunsBounded, LogContents, MetaContents,
          LedgerContents, HandleCrash, Returns, Becomes, dirVars, Working,
          mainVars
    <2>3. TaskEvidence'
      <3> SUFFICES ASSUME NEW t \in Seeds PROVE SeedEvidence(t)'
        BY DEF TaskEvidence
      <3>1. SeedEvidence(t) /\ SeedEvidence(s)
        BY DEF IInv, TaskEvidence
      <3>2. CASE t = s
        BY <1>19, <3>1, <3>2 DEF IInv, TypeOK, SeedEvidence, Evidence,
            HandleCrash, Returns, Becomes, dirVars, Working, mainVars,
            Status
      <3>3. CASE t # s
        BY <1>19, <3>1, <3>3 DEF IInv, TypeOK, SeedEvidence, Evidence,
            HandleCrash, Returns, Becomes, dirVars, Working, mainVars,
            Status
      <3> QED BY <3>2, <3>3
    <2>4. Prepared'
      BY <1>19 DEF IInv, TypeOK, RunsBounded, Prepared, HandleCrash,
          Returns, Becomes, dirVars, Working, mainVars
    <2>5. LedgerOverSettled'
      BY <1>19 DEF IInv, TypeOK, RunsBounded, LedgerOverSettled,
          HandleCrash, Returns, Becomes, dirVars, Working, mainVars
    <2>6. OneAtATime'
      BY <1>19 DEF IInv, TypeOK, OneAtATime, InState, HandleCrash, Returns,
          Becomes, dirVars, Working, mainVars
    <2>7. NoneAtWork'
      BY <1>19 DEF IInv, TypeOK, RunsBounded, Prepared, LedgerOverSettled,
          OneAtATime, NoneAtWork, InState, HandleCrash, Returns, Becomes,
          dirVars, Working, mainVars
    <2>8. NoStaleBinaryExecuted'
      BY <1>19 DEF IInv, TypeOK, RunsBounded, TaskEvidence,
          NoStaleBinaryExecuted, SeedEvidence, Evidence, HandleCrash,
          Returns, Becomes, dirVars, Working, mainVars
    <2>9. StraysAreKnown'
      BY <1>19, StraysKept DEF IInv, HandleCrash, Working, mainVars, dirVars, taskVars, Raised, LeaveLoop
    <2> QED BY <2>1, <2>2, <2>3, <2>4, <2>5, <2>6, <2>7, <2>8, <2>9 DEF IInv
  <1>20. CASE UNCHANGED vars
    BY <1>20 DEF vars, dirVars, mainVars, taskVars, IInv, SeedEvidence,
        Evidence, InState, TypeOK, RunsBounded, TaskEvidence, Prepared,
        LedgerOverSettled, OneAtATime, NoneAtWork, StraysAreKnown,
        NoStaleBinaryExecuted
  <1>21. ASSUME NEW e \in stray, StrayGoesOn(e) PROVE IInv'
    <2>a. /\ e \in Strays /\ e.seed \in Seeds /\ e.run \in 0..MaxRuns
          /\ e.kind \in {"emu", "replay"}
      BY DEF IInv, TypeOK, Strays
    <2>b. UNCHANGED <<bin, meta, ledger, run, pc, cur, entry, exit, task, result>>
      BY <1>21 DEF StrayGoesOn, mainVars, taskVars
    <2>c. CASE stray' = stray \ {e} /\ UNCHANGED log
      BY <2>b, <2>c
      DEF IInv, SeedEvidence, Evidence, InState, TypeOK, RunsBounded,
          TaskEvidence, Prepared, LedgerOverSettled, OneAtATime, NoneAtWork,
          StraysAreKnown, NoStaleBinaryExecuted
    <2>d. ASSUME NEW own \in Verdicts, NEW left \in MayReplay(e.seed, e.run, own),
                 e.kind = "replay" => own = "bad",
                 Prints(e.seed, e.run, own), stray' = (stray \ {e}) \cup left
          PROVE  IInv'
      <3>a. /\ log' \in [Seeds -> LogContents]
            /\ \A t \in Seeds : t # e.seed => log'[t] = log[t]
            /\ \A t \in Seeds : log'[t].run = log[t].run /\ log'[t].bin = log[t].bin
            /\ log'[e.seed].mixed \/ log'[e.seed].verdict = own
            /\ log[e.seed].mixed \/ log[e.seed].run # e.run => log'[e.seed].mixed
        BY <2>a, <2>d, Printed DEF IInv, TypeOK
      <3>b. /\ left \subseteq Strays
            /\ \A f \in left : /\ f.seed = e.seed /\ f.run = e.run
                               /\ f.kind = "replay" /\ own = "bad"
        BY <2>a, <2>d, Replays
      <3>c. /\ e.run \in 1..run
            /\ e.kind = "emu" /\ e.run = run =>
                 /\ pc = "idle" /\ exit = "killed" /\ task[e.seed] = "emu"
                 /\ log[e.seed].verdict = "none" \/ log[e.seed].mixed
            /\ e.kind = "replay" /\ e.run = run =>
                 /\ log[e.seed].run = run
                 /\ log[e.seed].verdict = "bad" \/ log[e.seed].mixed
        BY DEF IInv, StraysAreKnown
      <3>1. TypeOK'
        BY <2>b, <2>d, <3>a, <3>b DEF IInv, TypeOK
      <3>2. RunsBounded' /\ Prepared' /\ LedgerOverSettled' /\ OneAtATime'
            /\ NoneAtWork' /\ NoStaleBinaryExecuted'
        BY <2>b, <3>a
        DEF IInv, RunsBounded, Prepared, LedgerOverSettled, OneAtATime,
            NoneAtWork, InState, NoStaleBinaryExecuted
      <3>3. TaskEvidence'
        <4> SUFFICES ASSUME NEW t \in Seeds PROVE SeedEvidence(t)'
          BY DEF TaskEvidence
        <4>1. SeedEvidence(t)
          BY DEF IInv, TaskEvidence
        <4>2. CASE t = e.seed
          BY <2>a, <2>b, <2>d, <3>a, <3>c, <4>1, <4>2 DEF SeedEvidence, Evidence
        <4>3. CASE t # e.seed
          BY <2>b, <3>a, <4>1, <4>3 DEF SeedEvidence, Evidence
        <4> QED BY <4>2, <4>3
      <3>4. StraysAreKnown'
        <4> SUFFICES ASSUME NEW f \in (stray \ {e}) \cup left
                     PROVE  /\ f.run \in 1..run
                            /\ f.kind = "emu" /\ f.run = run =>
                                 /\ pc = "idle" /\ exit = "killed" /\ task[f.seed] = "emu"
                                 /\ log'[f.seed].verdict = "none" \/ log'[f.seed].mixed
                            /\ f.kind = "replay" /\ f.run = run =>
                                 /\ log'[f.seed].run = run
                                 /\ log'[f.seed].verdict = "bad" \/ log'[f.seed].mixed
          BY <2>b, <2>d DEF StraysAreKnown
        <4>1. CASE f \in left
          <5>1. /\ f.seed = e.seed /\ f.run = e.run
                /\ f.kind = "replay" /\ own = "bad"
            BY <3>b, <4>1
          <5>2. e.run = run => log[e.seed].run = run
            BY <2>a, <3>c DEF IInv, TaskEvidence, SeedEvidence
          <5> QED BY <2>a, <3>a, <3>c, <5>1, <5>2
        <4>2. CASE f \in stray /\ f # e
          <5>1. /\ f.run \in 1..run /\ f.seed \in Seeds
                /\ f.kind = "emu" /\ f.run = run =>
                     /\ pc = "idle" /\ exit = "killed" /\ task[f.seed] = "emu"
                     /\ log[f.seed].verdict = "none" \/ log[f.seed].mixed
                     /\ log[f.seed].run = run
                /\ f.kind = "replay" /\ f.run = run =>
                     /\ log[f.seed].run = run
                     /\ log[f.seed].verdict = "bad" \/ log[f.seed].mixed
            BY <4>2 DEF IInv, TypeOK, StraysAreKnown, Strays, TaskEvidence,
                        SeedEvidence
          <5>2. CASE f.seed # e.seed
            BY <3>a, <5>1, <5>2
          <5>3. CASE f.seed = e.seed /\ e.run # run
            BY <3>a, <5>1, <5>3
          <5>4. CASE f.seed = e.seed /\ e.run = run /\ f.run = run
            <6>1. CASE e.kind = f.kind
              <7>1. e = f
                <8>1. f \in Strays
                  BY <4>2 DEF IInv, TypeOK
                <8> QED BY <2>a, <5>4, <6>1, <8>1 DEF Strays
              <7> QED BY <4>2, <7>1
            <6>2. CASE e.kind # f.kind
              BY <2>a, <2>d, <3>a, <3>c, <5>1, <5>4, <6>2
            <6> QED BY <6>1, <6>2
          <5> QED BY <5>1, <5>2, <5>3, <5>4
        <4> QED BY <4>1, <4>2
      <3> QED BY <3>1, <3>2, <3>3, <3>4 DEF IInv
    <2>e. \/ stray' = stray \ {e} /\ UNCHANGED log
          \/ \E own \in Verdicts : \E left \in MayReplay(e.seed, e.run, own) :
               /\ e.kind = "replay" => own = "bad"
               /\ Prints(e.seed, e.run, own)
               /\ stray' = (stray \ {e}) \cup left
      BY <1>21, <2>a DEF StrayGoesOn, Verdicts
    <2> QED BY <2>c, <2>d, <2>e
  <1> QED BY <1>1, <1>2, <1>3, <1>4, <1>5, <1>6, <1>7, <1>8, <1>9, <1>10,
        <1>11, <1>12, <1>13, <1>14, <1>15, <1>16, <1>17, <1>18, <1>19,
        <1>20, <1>21 DEF Next, Main, Worker

\* So the inductive invariant holds in every reachable state.
LEMMA InductiveInvariant == Spec => []IInv
  BY InitIInv, StepIInv, PTL DEF Spec

\* The variables of a batch keep their types.
THEOREM TypeCorrect == Spec => []TypeOK
  <1>1. IInv => TypeOK
    BY DEF IInv
  <1> QED BY <1>1, InductiveInvariant, PTL

\* No run ever starts an emulator on a binary that it did not build.
THEOREM NoStaleBinary == Spec => []NoStaleBinaryExecuted
  <1>1. IInv => NoStaleBinaryExecuted
    BY DEF IInv
  <1> QED BY <1>1, InductiveInvariant, PTL

\* Exit code 0 is backed by ledger, metas, logs and binaries of this run,
\* whatever earlier runs left running, but for the seeds whose log a stray of
\* another run printed into.
THEOREM ExitZero == Spec => []ExitZeroIsEvidence
  <1>1. IInv => ExitZeroIsEvidence
    BY DEF IInv, ExitZeroIsEvidence, LedgerOverSettled, TaskEvidence,
           SeedEvidence, Evidence
  <1> QED BY <1>1, InductiveInvariant, PTL

\* The ledger of a run agrees with the run_meta.json of every seed.
THEOREM LedgerAgreement == Spec => []LedgerAgreesWithMetas
  <1>1. IInv => LedgerAgreesWithMetas
    BY DEF IInv, LedgerAgreesWithMetas, LedgerOverSettled, TaskEvidence,
           SeedEvidence
  <1> QED BY <1>1, InductiveInvariant, PTL

\* A run that has come back leaves no worker behind, and nothing that could
\* still report a success.
THEOREM NoWorkerLeft == Spec => []NoWorkerOutlivesRun
  <1>1. IInv => NoWorkerOutlivesRun
    BY DEF IInv, NoWorkerOutlivesRun, NoneAtWork, TypeOK, Strays, RunsBounded,
           StraysAreKnown
  <1> QED BY <1>1, InductiveInvariant, PTL

----------------------------------------------------------------------------
(* The refinement *)

\* An unused batch directory satisfies the initial condition of the contract.
LEMMA InitRefines == Init => Contract!ContractInit
  BY DEF Init, Contract!ContractInit, Contract!Unsettled, Executed, NoLedger,
         Opened

\* A step that changes no entry, ledger or run and opens no log is invisible
\* to the contract, whatever is printed into the logs.
LEMMA Invisible ==
  ASSUME UNCHANGED <<run, entry, ledger>>,
         \/ UNCHANGED log
         \/ \A t \in Seeds : log'[t].run = log[t].run /\ log'[t].bin = log[t].bin
  PROVE  UNCHANGED Contract!contractVars
  BY DEF Contract!contractVars, Executed

\* Settling a seed, with evidence when its status is "ran".
LEMMA Settles ==
  ASSUME NEW s \in Seeds, NEW st \in Status, entry[s] = "none",
         st = "ran" => log[s].run = run /\ log[s].bin # 0,
         entry' = [entry EXCEPT ![s] = st], UNCHANGED <<run, ledger, log>>
  PROVE  Contract!ContractNext
  <1>1. Contract!Settle(s, st)
    BY DEF Contract!Settle, Executed
  <1> QED BY <1>1 DEF Contract!ContractNext

\* Every step of a run is a step of the contract or invisible to it.
LEMMA StepRefines ==
    IInv /\ [Next]_vars => [Contract!ContractNext]_(Contract!contractVars)
  <1> SUFFICES ASSUME IInv, [Next]_vars
               PROVE  Contract!ContractNext \/ UNCHANGED Contract!contractVars
    OBVIOUS
  <1>1. CASE OpenBatch
    <2>1. Executed' = {}
      BY <1>1 DEF IInv, TypeOK, RunsBounded, OpenBatch, dirVars, Executed,
                  LogContents
    <2>2. Contract!OpenRun
      BY <1>1, <2>1 DEF OpenBatch, dirVars, Contract!OpenRun, Contract!Unsettled
    <2> QED BY <2>2 DEF Contract!ContractNext
  <1>2. CASE PlanSeed \/ BuildSeed \/ EndPreparation \/ Submit \/ Drained
             \/ EndCollection \/ ExitCode
    BY <1>2, Invisible
    DEF PlanSeed, BuildSeed, EndPreparation, Submit, Drained, EndCollection,
        ExitCode, Raised, dirVars, taskVars
  <1>3. CASE ReportBuildFailure
    <2>1. CASE entry' = [entry EXCEPT ![cur] = "error"] /\ UNCHANGED run
      <3>1. cur \in Seeds /\ entry[cur] = "none"
        BY <1>3
        DEF IInv, TypeOK, Prepared, TaskEvidence, SeedEvidence, ReportBuildFailure,
            Seeds
      <3> QED BY <1>3, <2>1, <3>1, Settles DEF ReportBuildFailure, Status
    <2>2. CASE UNCHANGED <<run, entry>>
      BY <1>3, <2>2, Invisible DEF ReportBuildFailure
    <2> QED BY <1>3, <2>1, <2>2 DEF ReportBuildFailure, Raised
  <1>4. ASSUME NEW s \in Seeds, Collect(s)
        PROVE  Contract!ContractNext \/ UNCHANGED Contract!contractVars
    <2>1. CASE entry' = [entry EXCEPT ![s] = result[s]] /\ UNCHANGED run
      <3>1. result[s] \in Status /\ entry[s] = "none"
            /\ (result[s] = "ran" => log[s].run = run /\ log[s].bin # 0)
        <4>1. SeedEvidence(s) /\ task[s] = "done" /\ run > 0
          BY <1>4 DEF IInv, RunsBounded, TaskEvidence, Collect
        <4> QED BY <4>1 DEF SeedEvidence, Evidence
      <3> QED BY <1>4, <2>1, <3>1, Settles DEF Collect
    <2>2. CASE UNCHANGED <<run, entry>>
      BY <1>4, <2>2, Invisible DEF Collect
    <2> QED BY <1>4, <2>1, <2>2 DEF Collect, LeaveLoop, Raised
  <1>5. ASSUME NEW s \in Seeds, CollectRaised(s)
        PROVE  Contract!ContractNext \/ UNCHANGED Contract!contractVars
    BY <1>5, Invisible DEF CollectRaised, LeaveLoop, Raised, dirVars
  <1>6. CASE WriteLedger
    <2>1. CASE ledger' = [run |-> run, status |-> entry] /\ UNCHANGED entry
      <3>1. \A s \in Seeds : entry[s] # "none"
        BY <1>6
        DEF IInv, LedgerOverSettled, TaskEvidence, SeedEvidence, Status,
            WriteLedger
      <3>2. ledger.run # run
        BY <1>6 DEF IInv, RunsBounded, LedgerOverSettled, WriteLedger
      <3>3. Contract!PublishLedger
        BY <1>6, <2>1, <3>1, <3>2
        DEF WriteLedger, Raised, Contract!PublishLedger, Executed
      <3> QED BY <3>3 DEF Contract!ContractNext
    <2>2. CASE ledger' = ledger
      BY <1>6, <2>2, Invisible DEF WriteLedger, Raised
    <2>3. CASE ledger' = NoLedger
      <3>1. Contract!LoseLedger
        BY <1>6, <2>3
        DEF WriteLedger, Raised, Contract!LoseLedger, Contract!Unsettled,
            NoLedger, Executed
      <3> QED BY <3>1 DEF Contract!ContractNext
    <2> QED BY <1>6, <2>1, <2>2, <2>3 DEF WriteLedger, Raised
  <1>7. CASE Interrupt \/ Kill
    <2>1. UNCHANGED <<run, entry, log>> /\ ledger' \in {ledger, NoLedger}
      BY <1>7 DEF Interrupt, Kill, LeaveLoop, Raised, HalfDone
    <2>2. CASE ledger' = ledger
      BY <2>1, <2>2, Invisible
    <2>3. CASE ledger' = NoLedger
      <3>1. Contract!LoseLedger
        BY <2>1, <2>3
        DEF Contract!LoseLedger, Contract!Unsettled, NoLedger, Executed
      <3> QED BY <3>1 DEF Contract!ContractNext
    <2> QED BY <2>1, <2>2, <2>3
  <1>8. ASSUME NEW s \in Seeds, Worker(s)
        PROVE  Contract!ContractNext \/ UNCHANGED Contract!contractVars
    <2>1. CASE Take(s) \/ Classify(s) \/ HandleCrash(s)
      BY <1>8, <2>1, Invisible
      DEF Worker, Take, Classify, HandleCrash, mainVars, dirVars
    <2>2. CASE LaunchRunner(s)
      <3>1. /\ UNCHANGED <<run, entry, ledger>> /\ entry[s] = "none"
            /\ log[s].run # run /\ log \in [Seeds -> LogContents]
        BY <1>8, <2>2
        DEF IInv, TypeOK, RunsBounded, TaskEvidence, SeedEvidence, Worker,
            Working, LaunchRunner, OpenLog, mainVars, dirVars
      <3>2. CASE UNCHANGED log
        BY <3>1, <3>2, Invisible
      <3>3. CASE log' = [log EXCEPT ![s] = Opened(run, 0)]
        <4>1. Executed' = Executed
          BY <3>1, <3>3 DEF Executed, Opened
        <4> QED BY <3>1, <4>1 DEF Contract!contractVars
      <3>4. CASE bin[s] # 0 /\ log' = [log EXCEPT ![s] = Opened(run, bin[s])]
        <4>1. Executed' = Executed \cup {s}
          BY <3>1, <3>4 DEF Executed, Opened
        <4>2. Contract!Execute(s)
          BY <3>1, <4>1 DEF Contract!Execute
        <4> QED BY <4>2 DEF Contract!ContractNext
      <3> QED BY <2>2, <3>2, <3>3, <3>4 DEF LaunchRunner, OpenLog, dirVars
    <2>3. CASE RunnerEnds(s)
      <3>1. PICK own \in Verdicts : Prints(s, run, own)
        BY <2>3 DEF RunnerEnds
      <3>2. \A t \in Seeds : log'[t].run = log[t].run /\ log'[t].bin = log[t].bin
        BY <3>1, Printed DEF IInv, TypeOK
      <3> QED BY <1>8, <2>3, <3>2, Invisible DEF Worker, RunnerEnds, mainVars
    <2> QED BY <1>8, <2>1, <2>2, <2>3 DEF Worker
  <1>9. CASE UNCHANGED vars
    BY <1>9, Invisible DEF vars, mainVars, dirVars
  <1>10. ASSUME NEW e \in stray, StrayGoesOn(e)
         PROVE  Contract!ContractNext \/ UNCHANGED Contract!contractVars
    <2>1. /\ e.seed \in Seeds /\ e.run \in 0..MaxRuns
          /\ UNCHANGED <<run, entry, ledger>>
      BY <1>10 DEF IInv, TypeOK, Strays, StrayGoesOn, mainVars
    <2>2. CASE UNCHANGED log
      BY <2>1, <2>2, Invisible
    <2>3. ASSUME NEW own \in Verdicts, Prints(e.seed, e.run, own)
          PROVE  \A t \in Seeds : log'[t].run = log[t].run /\ log'[t].bin = log[t].bin
      BY <2>1, <2>3, Printed DEF IInv, TypeOK
    <2>4. UNCHANGED log \/ \E own \in Verdicts : Prints(e.seed, e.run, own)
      BY <1>10 DEF StrayGoesOn, Verdicts
    <2> QED BY <2>1, <2>2, <2>3, <2>4, Invisible
  <1> QED
    BY <1>1, <1>2, <1>3, <1>4, <1>5, <1>6, <1>7, <1>8, <1>9, <1>10
    DEF Next, Main

\* Every run of a batch id implements the contract: each seed settled at most
\* once, "ran" only when executed in this run, the ledger published only over
\* a complete set of settled seeds.
THEOREM Refinement == Spec => ImplementsContract
  BY InitRefines, StepRefines, InductiveInvariant, PTL
  DEF Spec, ImplementsContract, Contract!ContractSpec
=============================================================================
