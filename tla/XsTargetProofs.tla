---------------------------- MODULE XsTargetProofs ----------------------------
(***************************************************************************)
(* Proofs about XsTarget for any number of calls, overlapping in any way,  *)
(* and any set of environments; and that a call is the worker RunBatch     *)
(* takes it for (BatchAdapter).                                            *)
(***************************************************************************)
EXTENDS BatchAdapter, FiniteSetTheorems, TLAPS

\* The calls that have the logs open or are about to read them.
Attached == {"launch", "wait", "read"}

\* What the logs hold of a call nobody has interfered with: nothing before
\* its verdict; then the verdict, and beside a failure only other failures,
\* as its replay prints them.
Said(c) ==
    /\ emu[c] \in {"none", "running"} \/ fate[c] = "none" => log = {}
    /\ emu[c] \in {"printed", "ended"} /\ fate[c] # "none" =>
          /\ fate[c] \in log
          /\ fate[c] \in Successes => log = {fate[c]}
          /\ fate[c] \notin Successes => log \cap Successes = {}

\* Where the emulator of a call is when the call is somewhere.
EmulatorOf(c) ==
    /\ pc[c] \in {"out", "check", "open", "launch"} =>
          emu[c] = "none" /\ fate[c] = "none" /\ ~child[c]
    /\ pc[c] = "wait" => emu[c] # "none"
    /\ pc[c] = "read" => emu[c] = "ended"
    /\ pc[c] \in {"returned", "raised"} => emu[c] \notin Alive
    /\ emu[c] = "printed" => fate[c] # "none"
    /\ child[c] => emu[c] \in {"printed", "ended"} /\ fate[c] \in Failures

\* No other call was ever made.
ByItself(c) == \A d \in Calls \ {c} : pc[d] = "out"

\* Then nobody else has written to the logs, and what c's emulator and the
\* child it may have left put there is all they hold, also when the call is
\* over.
Lone(c) ==
    ByItself(c) =>
        /\ ~foreign[c]
        /\ emu[c] = "running" => log = {}
        /\ child[c] => fate[c] \in log /\ log \cap Successes = {}

\* StatusIsOwnFate of one call.
OwnFate(c) ==
    /\ pc[c] = "returned"
    /\ result[c] \notin {"error", "timeout"}
    /\ ~foreign[c]
    => \/ fate[c] \in Successes /\ result[c] = "ran"
       \/ fate[c] = "none" /\ result[c] = (IF rc[c] = 0 THEN "ran" ELSE "nonzero_exit")
       \/ fate[c] \in {"bad", "abort", "limit"}
             /\ result[c] \in {"bad_trap", "abort", "limit_exceeded"}

\* Past the checks both files are there.
Resolved(c) ==
    pc[c] \in {"open"} \cup Attached \/ emu[c] # "none" =>
        EmuPath(env).there /\ DiffPath(env).there

CallInv(c) ==
    /\ EmulatorOf(c)
    /\ Resolved(c)
    /\ pc[c] \in Attached /\ ~foreign[c] => Said(c)
    /\ OwnFate(c)
    /\ Lone(c)

\* The inductive invariant.
IInv == TypeOK /\ \A c \in Calls : CallInv(c)

\* One step of one call, or of its emulator.
Step(c) == Call(c) \/ Adapter(c) \/ PrintVerdict(c) \/ Replay(c) \/ Exit(c) \/ Kill(c)

----------------------------------------------------------------------------

\* The classification of what an undisturbed call finds in its logs.
LEMMA Classified ==
  ASSUME NEW texts \in SUBSET Texts, NEW f \in Fates, NEW code \in {0, 1},
         f = "none" => texts = {},
         f # "none" => f \in texts,
         f \in Successes => texts = {f},
         f \notin Successes => texts \cap Successes = {}
  PROVE  \/ f \in Successes /\ ClassifyResult(texts, code) = "ran"
         \/ f = "none" /\ ClassifyResult(texts, code) =
                             (IF code = 0 THEN "ran" ELSE "nonzero_exit")
         \/ f \in {"bad", "abort", "limit"}
               /\ ClassifyResult(texts, code) \in {"bad_trap", "abort", "limit_exceeded"}
  <1> USE DEF Texts, Fates, Successes
  <1>1. CASE f = "none"
    BY <1>1 DEF ClassifyResult
  <1>2. CASE f = "good"
    BY <1>2 DEF ClassifyResult
  <1>3. CASE f = "exit"
    BY <1>3 DEF ClassifyResult
  <1>4. CASE f \in {"bad", "abort", "limit"}
    <2>1. "good" \notin texts /\ "exit" \notin texts
      BY <1>4
    <2> QED BY <2>1, <1>4 DEF ClassifyResult
  <1> QED BY <1>1, <1>2, <1>3, <1>4

\* Every classification is a status.
LEMMA ClassifyType ==
  ASSUME NEW texts \in SUBSET Texts, NEW code \in {0, 1}
  PROVE  ClassifyResult(texts, code) \in Status
  BY DEF Texts, Status, ClassifyResult

\* The reference model never comes from the caller's checkout with the
\* emulator from that of env.sh, or the other way round.
LEMMA OneCheckout ==
  ASSUME NEW e \in Environment
  PROVE  {EmuPath(e).from, DiffPath(e).from} # {"caller", "env_sh"}
  <1> DEFINE noop == XsEnv(e, "NOOP_HOME")
             nemu == XsEnv(e, "NEMU_HOME")
  <1>1. ~(noop = "caller" /\ nemu = "env_sh") /\ ~(noop = "env_sh" /\ nemu = "caller")
    BY DEF XsEnv, Homes
  <1>2. EmuPath(e).from \in {"override", "path", "none", noop}
    BY DEF EmuPath, Path, NoPath
  <1>3. DiffPath(e).from \in {"override", "none", nemu}
    BY DEF DiffPath, Path, NoPath
  <1> HIDE DEF noop, nemu
  <1> QED BY <1>1, <1>2, <1>3

----------------------------------------------------------------------------
(* Induction *)

LEMMA InitIInv == Init => IInv
  BY DEF Init, IInv, TypeOK, CallInv, EmulatorOf, Resolved, OwnFate, Lone, Attached,
         Fates, Texts, Alive, Over, Status

\* A step of one call leaves another alone, except that it may write to the
\* logs, and then the other call is marked if that can matter to it.
LEMMA Others ==
  ASSUME TypeOK, NEW c \in Calls, NEW d \in Calls, c # d, Step(c)
  PROVE  /\ pc'[d] = pc[d] /\ emu'[d] = emu[d] /\ fate'[d] = fate[d]
         /\ rc'[d] = rc[d] /\ result'[d] = result[d] /\ env' = env
         /\ child'[d] = child[d]
         /\ foreign[d] => foreign'[d]
         /\ foreign'[d] \/ pc[d] \notin Attached \/ log' = log
  <1> USE DEF TypeOK, Attached
  <1>1. CASE Call(c)
    BY <1>1 DEF Call, Goto, emuVars
  <1>2. CASE CheckFiles(c)
    BY <1>2 DEF CheckFiles, Goto, Return, Writes, emuVars
  <1>3. CASE OpenLogs(c)
    BY <1>3 DEF OpenLogs, Goto, emuVars
  <1>4. CASE Launch(c)
    BY <1>4 DEF Launch, Goto
  <1>5. CASE Expire(c) \/ Reap(c) \/ Classify(c)
    BY <1>5 DEF Expire, Reap, Classify, Goto, Return, emuVars
  <1>6. CASE PrintVerdict(c) \/ Replay(c)
    BY <1>6 DEF PrintVerdict, Replay, Writes, emuVars
  <1>7. CASE Exit(c)
    BY <1>7 DEF Exit
  <1>8. CASE Kill(c)
    BY <1>8 DEF Kill, Goto
  <1> QED BY <1>1, <1>2, <1>3, <1>4, <1>5, <1>6, <1>7, <1>8 DEF Step, Adapter

\* The variables keep their types.
LEMMA StepType ==
  ASSUME TypeOK, NEW c \in Calls, Step(c)
  PROVE  TypeOK'
  <1> USE DEF TypeOK, Over, Status, Texts, Fates, Alive
  <1>1. CASE Call(c)
    BY <1>1 DEF Call, Goto, emuVars
  <1>2. CASE CheckFiles(c)
    <2>1. UNCHANGED <<env, emuVars>>
      BY <1>2 DEF CheckFiles
    <2>2. CASE Return(c, "error") /\ Writes(c, {})
      BY <2>1, <2>2 DEF Return, Writes, emuVars
    <2>3. CASE \E texts \in {log, {}} : Goto(c, "raised") /\ Writes(c, texts)
      BY <2>1, <2>3 DEF Goto, Writes, emuVars
    <2>4. CASE Goto(c, "open") /\ UNCHANGED <<log, foreign>>
      BY <2>1, <2>4 DEF Goto, emuVars
    <2> QED BY <1>2, <2>2, <2>3, <2>4 DEF CheckFiles
  <1>3. CASE OpenLogs(c)
    BY <1>3 DEF OpenLogs, Goto, emuVars
  <1>4. CASE Launch(c)
    BY <1>4 DEF Launch, Goto
  <1>5. CASE Expire(c) \/ Reap(c)
    BY <1>5 DEF Expire, Reap, Goto, Return, emuVars
  <1>6. CASE Classify(c)
    <2>1. ClassifyResult(log, rc[c]) \in Status
      BY ClassifyType
    <2> QED BY <1>6, <2>1 DEF Classify, Goto, Return, emuVars
  <1>7. CASE PrintVerdict(c)
    BY <1>7 DEF PrintVerdict, Writes
  <1>8. CASE Replay(c)
    <2>1. UNCHANGED <<env, pc, result, fate, emu, rc>>
      BY <1>8 DEF Replay
    <2>2. log' \subseteq Texts /\ foreign' \in [Calls -> BOOLEAN]
      BY <1>8 DEF Replay, Writes, Failures
    <2>3. child' \in [Calls -> BOOLEAN]
      BY <1>8 DEF Replay
    <2> QED BY <2>1, <2>2, <2>3
  <1>9. CASE Exit(c)
    BY <1>9 DEF Exit
  <1>10. CASE Kill(c)
    BY <1>10 DEF Kill, Goto
  <1> QED BY <1>1, <1>2, <1>3, <1>4, <1>5, <1>6, <1>7, <1>8, <1>9, <1>10
      DEF Step, Adapter

\* A call that takes a step is not out afterwards.
LEMMA StepsIn ==
  ASSUME TypeOK, NEW c \in Calls, EmulatorOf(c), Step(c)
  PROVE  pc'[c] # "out"
  <1> USE DEF TypeOK, EmulatorOf
  <1>1. CASE Call(c) \/ Kill(c)
    BY <1>1 DEF Call, Kill, Goto
  <1>2. CASE Adapter(c)
    BY <1>2 DEF Adapter, CheckFiles, OpenLogs, Launch, Expire, Reap,
       Classify, Goto, Return
  <1>3. CASE PrintVerdict(c) \/ Replay(c) \/ Exit(c)
    BY <1>3 DEF PrintVerdict, Replay, Exit
  <1> QED BY <1>1, <1>2, <1>3 DEF Step

\* By itself a call keeps the logs to itself.
LEMMA StepLone ==
  ASSUME TypeOK, NEW c \in Calls, CallInv(c), Step(c)
  PROVE  Lone(c)'
  <1>1. ByItself(c)' => ByItself(c)
    BY Others DEF ByItself
  <1> SUFFICES ASSUME ByItself(c)
               PROVE  /\ ~foreign'[c]
                      /\ emu'[c] = "running" => log' = {}
                      /\ child'[c] => fate'[c] \in log' /\ log' \cap Successes = {}
    BY <1>1 DEF Lone
  <1>2. /\ ~foreign[c]
        /\ emu[c] = "running" => log = {}
        /\ child[c] => fate[c] \in log /\ log \cap Successes = {}
    BY DEF CallInv, Lone
  <1>3. EmulatorOf(c) /\ (pc[c] \in Attached => Said(c))
    BY <1>2 DEF CallInv
  <1> USE DEF TypeOK, EmulatorOf
  <1>4. CASE Call(c) \/ CheckFiles(c) \/ OpenLogs(c)
    BY <1>2, <1>3, <1>4 DEF Call, CheckFiles, OpenLogs, Goto, Return, Writes,
       emuVars
  <1>5. CASE Launch(c)
    BY <1>2, <1>3, <1>5 DEF Launch, Said, Attached
  <1>6. CASE PrintVerdict(c)
    <2>1. log' = {fate[c]} /\ fate' = fate /\ emu'[c] = "printed" /\ ~foreign'[c]
      BY <1>2, <1>6 DEF PrintVerdict, Writes
    <2>2. child'[c] => fate[c] \in Failures
      BY <1>3, <1>6 DEF PrintVerdict
    <2> QED BY <2>1, <2>2 DEF Failures
  <1>7. CASE Replay(c)
    <2>1. UNCHANGED <<fate, emu>> /\ ~foreign'[c] /\ (child'[c] => child[c])
      BY <1>2, <1>7 DEF Replay, Writes
    <2>2. log' = log \/ \E text \in Failures : log' = log \cup {text}
      BY <1>7 DEF Replay, Writes
    <2>3. emu[c] # "running"
      BY <1>3, <1>7 DEF Replay
    <2> QED BY <1>2, <2>1, <2>2, <2>3 DEF Failures
  <1>8. CASE Exit(c)
    BY <1>2, <1>8 DEF Exit
  <1>9. CASE Expire(c) \/ Reap(c) \/ Classify(c)
    BY <1>2, <1>9 DEF Expire, Reap, Classify, emuVars
  <1>10. CASE Kill(c)
    BY <1>2, <1>10 DEF Kill
  <1> QED BY <1>4, <1>5, <1>6, <1>7, <1>8, <1>9, <1>10 DEF Step, Adapter

\* A step of a call keeps the invariant of that call.
LEMMA StepOwn ==
  ASSUME TypeOK, NEW c \in Calls, CallInv(c), Step(c)
  PROVE  (EmulatorOf(c) /\ Resolved(c) /\ OwnFate(c)
            /\ (pc[c] \in Attached /\ ~foreign[c] => Said(c)))'
  <1> USE DEF TypeOK, CallInv, EmulatorOf, Resolved, OwnFate, Said, Attached,
              Over, Alive
  <1>1. CASE Call(c)
    BY <1>1 DEF Call, Goto, emuVars
  <1>2. CASE CheckFiles(c)
    BY <1>2 DEF CheckFiles, Goto, Return, Writes, emuVars
  <1>3. CASE OpenLogs(c)
    BY <1>3 DEF OpenLogs, Goto, emuVars
  <1>4. CASE Launch(c)
    BY <1>4 DEF Launch, Goto, Fates, Texts
  <1>5. CASE PrintVerdict(c)
    BY <1>5 DEF PrintVerdict, Writes, Successes, Failures
  <1>6. CASE Replay(c)
    <2>1. UNCHANGED <<env, pc, result, fate, emu, rc>>
      BY <1>6 DEF Replay
    <2>2. /\ child[c] /\ (child'[c] => child[c])
          /\ emu[c] \in {"printed", "ended"} /\ fate[c] \in Failures
      BY <1>6 DEF Replay
    <2>3. foreign'[c] = foreign[c]
      BY <1>6 DEF Replay, Writes
    <2>4. log' = log \/ \E text \in Failures : log' = log \cup {text}
      BY <1>6 DEF Replay, Writes
    <2>5. EmulatorOf(c)' /\ Resolved(c)' /\ OwnFate(c)'
      BY <2>1, <2>2, <2>3
    <2>6. (pc[c] \in Attached /\ ~foreign[c] => Said(c))'
      BY <2>1, <2>2, <2>3, <2>4 DEF Failures, Texts, Successes
    <2> QED BY <2>5, <2>6
  <1>7. CASE Exit(c)
    BY <1>7 DEF Exit
  <1>8. CASE Expire(c)
    BY <1>8 DEF Expire, Goto, Return
  <1>9. CASE Reap(c)
    BY <1>9 DEF Reap, Goto, emuVars
  <1>10. CASE Classify(c)
    <2>1. CASE Goto(c, "raised")
      BY <1>10, <2>1 DEF Classify, Goto, emuVars
    <2>2. CASE Return(c, ClassifyResult(log, rc[c]))
      <3>1. /\ pc'[c] = "returned" /\ result'[c] = ClassifyResult(log, rc[c])
            /\ UNCHANGED <<env, log, fate, emu, child, rc, foreign>>
            /\ pc[c] = "read"
        BY <1>10, <2>2 DEF Classify, Return, emuVars
      <3>2. ~foreign[c] => Said(c)
        BY <3>1
      <3>3. OwnFate(c)'
        <4> SUFFICES ASSUME ~foreign[c] PROVE OwnFate(c)'
          BY <3>1
        <4>1. /\ fate[c] = "none" => log = {}
              /\ fate[c] # "none" => fate[c] \in log
              /\ fate[c] \in Successes => log = {fate[c]}
              /\ fate[c] \notin Successes => log \cap Successes = {}
          BY <3>1, <3>2 DEF Successes
        <4>2. log \in SUBSET Texts /\ fate[c] \in Fates /\ rc[c] \in {0, 1}
          OBVIOUS
        <4> HIDE DEF TypeOK, CallInv, Said, EmulatorOf
        <4> QED BY <3>1, <4>1, <4>2, Classified
      <3> QED BY <3>1, <3>3
    <2> QED BY <1>10, <2>1, <2>2 DEF Classify
  <1>11. CASE Kill(c)
    BY <1>11 DEF Kill, Goto
  <1> QED BY <1>1, <1>2, <1>3, <1>4, <1>5, <1>6, <1>7, <1>8, <1>9, <1>10,
        <1>11 DEF Step, Adapter

\* The inductive step: whose turn it is, and whose invariant is at stake.
LEMMA StepIInv == IInv /\ [Next]_vars => IInv'
  <1> SUFFICES ASSUME IInv, [Next]_vars PROVE IInv'
    OBVIOUS
  <1>1. CASE UNCHANGED vars
    BY <1>1 DEF vars, IInv, TypeOK, CallInv, EmulatorOf, Resolved, OwnFate,
        Said, Lone, ByItself
  <1>2. CASE Next
    <2>1. PICK c \in Calls : Step(c)
      BY <1>2 DEF Next, Step
    <2>2. TypeOK'
      BY <2>1, StepType DEF IInv
    <2>3. CallInv(c)'
      BY <2>1, StepOwn, StepLone DEF IInv, CallInv
    <2>4. ASSUME NEW d \in Calls, d # c PROVE CallInv(d)'
      <3>1. Lone(d)'
        BY <2>1, <2>4, StepsIn DEF IInv, CallInv, Lone, ByItself
      <3> QED BY <2>1, <2>4, <3>1, Others
          DEF IInv, CallInv, EmulatorOf, Resolved, OwnFate, Said, Attached
    <2> QED BY <2>2, <2>3, <2>4 DEF IInv
  <1> QED BY <1>1, <1>2

\* So the invariant holds in every reachable state.
LEMMA InductiveInvariant == Spec => []IInv
  BY InitIInv, StepIInv, PTL DEF Spec

----------------------------------------------------------------------------

\* The variables of the calls keep their types.
THEOREM TypeCorrect == Spec => []TypeOK
  <1>1. IInv => TypeOK
    BY DEF IInv
  <1> QED BY <1>1, InductiveInvariant, PTL

\* The status of an undisturbed call is what its own program did, however
\* many calls there are and however they overlap.
THEOREM OwnStatus == Spec => []StatusIsOwnFate
  <1>1. IInv => StatusIsOwnFate
    BY DEF IInv, CallInv, OwnFate, StatusIsOwnFate
  <1> QED BY <1>1, InductiveInvariant, PTL

\* No call that came back leaves its emulator behind, nor a child but one that
\* replays a failure the logs show.
THEOREM NothingLeftBehind == Spec => []NoEmulatorLeftBehind
  <1>1. IInv => NoEmulatorLeftBehind
    BY DEF IInv, CallInv, EmulatorOf, Lone, ByItself, NoEmulatorLeftBehind
  <1> QED BY <1>1, InductiveInvariant, PTL

\* In every environment the emulator runs against a reference model, and not
\* against that of another checkout.
THEOREM SameCheckout == Spec => []ReferenceOfSameCheckout
  <1>1. IInv => ReferenceOfSameCheckout
    <2> SUFFICES ASSUME IInv, NEW c \in Calls, emu[c] # "none"
                 PROVE  /\ EmuPath(env).there /\ DiffPath(env).there
                        /\ {EmuPath(env).from, DiffPath(env).from} # {"caller", "env_sh"}
      BY DEF ReferenceOfSameCheckout
    <2>1. EmuPath(env).there /\ DiffPath(env).there
      BY DEF IInv, CallInv, Resolved
    <2>2. env \in Environment
      BY XsTargetAssumption DEF IInv, TypeOK
    <2> QED BY <2>1, <2>2, OneCheckout
  <1> QED BY <1>1, InductiveInvariant, PTL

----------------------------------------------------------------------------
(* A call of the adapter is RunBatch's worker, in every environment *)

\* A function of one argument is changed as a whole.
LEMMA OneSeed ==
  ASSUME NEW a, NEW b
  PROVE  [s \in 1..1 |-> b] = [[s \in 1..1 |-> a] EXCEPT ![1] = b]
  OBVIOUS

----------------------------------------------------------------------------
(* The steps of the worker, said of Task, LogSeen, StraySeen and Result *)

LEMMA Stutters ==
  ASSUME UNCHANGED <<Task, LogSeen, StraySeen, Result>>
  PROVE  UNCHANGED Batch!vars
  BY DEF Batch!vars, Batch!dirVars, Batch!mainVars, Batch!taskVars

LEMMA Opens ==
  ASSUME NEW b, LogSeen' = LogOf(1, b, "none"), UNCHANGED StraySeen
  PROVE  Batch!OpenLog(1, b)
  <1>1. [s \in 1..1 |-> LogSeen'] = [[s \in 1..1 |-> LogSeen] EXCEPT ![1] = LogSeen']
    BY OneSeed
  <1> QED BY <1>1 DEF Batch!OpenLog, Batch!Opened, LogOf

LEMMA Becomes ==
  ASSUME NEW state, Task' = state, UNCHANGED Result
  PROVE  Batch!Becomes(1, state)
  <1>1. [s \in 1..1 |-> state] = [[s \in 1..1 |-> Task] EXCEPT ![1] = state]
    BY OneSeed
  <1> QED BY <1>1 DEF Batch!Becomes

LEMMA Returns ==
  ASSUME NEW status, Task' = "done", Result' = status
  PROVE  Batch!Returns(1, status)
  <1>1. [s \in 1..1 |-> "done"] = [[s \in 1..1 |-> Task] EXCEPT ![1] = "done"]
    BY OneSeed
  <1>2. [s \in 1..1 |-> status] = [[s \in 1..1 |-> Result] EXCEPT ![1] = status]
    BY OneSeed
  <1> QED BY <1>1, <1>2 DEF Batch!Returns

LEMMA Launches ==
  ASSUME Task = "starting", UNCHANGED StraySeen,
         \/ LogSeen' = LogOf(1, 0, "none") /\ Task' = "done" /\ Result' = "error"
         \/ UNCHANGED LogSeen /\ Task' = "crashed" /\ UNCHANGED Result
         \/ LogSeen' = LogOf(1, 1, "none") /\ Task' = "emu" /\ UNCHANGED Result
  PROVE  Batch!Worker(1)
  <1>1. CASE LogSeen' = LogOf(1, 0, "none") /\ Task' = "done" /\ Result' = "error"
    <2>1. Batch!LaunchRunner(1)
      BY <1>1, Opens, Returns DEF Batch!LaunchRunner
    <2> QED BY <2>1 DEF Batch!Worker, Batch!Working, Batch!mainVars
  <1>2. CASE UNCHANGED LogSeen /\ Task' = "crashed" /\ UNCHANGED Result
    <2>1. Batch!LaunchRunner(1)
      BY <1>2, Becomes DEF Batch!LaunchRunner, Batch!dirVars
    <2> QED BY <2>1 DEF Batch!Worker, Batch!Working, Batch!mainVars
  <1>3. CASE LogSeen' = LogOf(1, 1, "none") /\ Task' = "emu" /\ UNCHANGED Result
    <2>1. Batch!LaunchRunner(1)
      BY <1>3, Opens, Becomes DEF Batch!LaunchRunner
    <2> QED BY <2>1 DEF Batch!Worker, Batch!Working, Batch!mainVars
  <1> QED BY <1>1, <1>2, <1>3

LEMMA Ends ==
  ASSUME Task = "emu", LogSeen = LogOf(1, 1, "none"), StraySeen = {},
         Verdict' \in {"good", "bad"}, LogSeen' = LogOf(1, 1, Verdict'),
         StraySeen' \in Batch!MayReplay(1, 1, Verdict'),
         \/ Task' \in {"ended", "crashed"} /\ UNCHANGED Result
         \/ Task' = "done" /\ Result' = "timeout"
  PROVE  Batch!Worker(1)
  <1>1. [s \in 1..1 |-> LogSeen'] = [[s \in 1..1 |-> LogSeen] EXCEPT ![1] = LogSeen']
    BY OneSeed
  <1>2. Batch!Prints(1, 1, Verdict')
    BY <1>1 DEF Batch!Prints, Batch!Verdicts, LogOf
  <1>3. \/ Batch!Returns(1, "timeout")
        \/ Batch!Becomes(1, "ended") \/ Batch!Becomes(1, "crashed")
    BY Returns, Becomes
  <1>4. StraySeen' = {} \/ StraySeen' = {Batch!Stray(1, 1, "replay")}
    BY DEF Batch!MayReplay
  <1>5. Cardinality(StraySeen') <= 1
    <2>1. CASE StraySeen' = {}
      BY <2>1, FS_EmptySet
    <2>2. CASE StraySeen' = {Batch!Stray(1, 1, "replay")}
      <3>1. Cardinality({Batch!Stray(1, 1, "replay")}) = 1
        BY FS_Singleton, Zenon
      <3> QED BY <2>2, <3>1
    <2> QED BY <1>4, <2>1, <2>2
  <1>6. Batch!RunnerEnds(1)
    <2>1. Batch!Cardinality(StraySeen') <= 1
      BY <1>5 DEF Cardinality, Batch!Cardinality
    <2> QED BY <1>2, <1>3, <2>1 DEF Batch!RunnerEnds, Batch!Verdicts
  <1> QED BY <1>6 DEF Batch!Worker, Batch!Working, Batch!mainVars

LEMMA Classifies ==
  ASSUME Task = "ended", UNCHANGED <<LogSeen, StraySeen>>,
         \/ Task' = "crashed" /\ UNCHANGED Result
         \/ /\ Task' = "done"
            /\ Result' = IF LogSeen.verdict = "good" THEN "ran" ELSE "bad_trap"
  PROVE  Batch!Worker(1)
  <1>1. \/ Batch!Returns(1, IF LogSeen.verdict = "good" THEN "ran" ELSE "bad_trap")
        \/ Batch!Becomes(1, "crashed")
    BY Returns, Becomes
  <1>2. UNCHANGED Batch!dirVars
    BY DEF Batch!dirVars
  <1>3. Batch!Classify(1)
    BY <1>1, <1>2 DEF Batch!Classify
  <1> QED BY <1>3 DEF Batch!Worker, Batch!Working, Batch!mainVars

LEMMA StrayEnds ==
  ASSUME NEW e \in StraySeen, StraySeen' = StraySeen \ {e},
         UNCHANGED <<Task, LogSeen, Result>>
  PROVE  Batch!StrayGoesOn(e)
  BY DEF Batch!StrayGoesOn, Batch!mainVars, Batch!taskVars

----------------------------------------------------------------------------
(* The steps of the call *)

\* What a replay runs over is a failure.
LEMMA ReplayedVerdict ==
  ASSUME NEW texts \in SUBSET Texts, NEW code, NEW f \in Failures,
         f \in texts, texts \cap Successes = {}
  PROVE  ClassifyResult(texts, code) # "ran"
  BY DEF ClassifyResult, Texts, Failures, Successes

\* Every step of the call, but the kill of its generator, is a step of the
\* worker, of what it left behind, or none.
LEMMA StepIsWorkers ==
  ASSUME IInv, Step(1), Alone, pc[1] # "out", pc'[1] # "killed"
  PROVE  \/ Batch!Worker(1)
         \/ \E e \in StraySeen : Batch!StrayGoesOn(e)
         \/ UNCHANGED Batch!vars
  <1>a. 1 \in Calls /\ TypeOK /\ EmulatorOf(1) /\ Lone(1) /\ ByItself(1)
    BY BatchAdapterAssumption DEF IInv, CallInv, Alone, ByItself
  <1>b. child[1] => Verdict = "bad"
    BY <1>a, ReplayedVerdict DEF TypeOK, EmulatorOf, Lone, Verdict
  <1>c. Verdict \in {"good", "bad"} /\ Verdict' \in {"good", "bad"}
    BY DEF Verdict
  <1> USE <1>a DEF TypeOK, EmulatorOf, Alive
  <1>2. CASE Call(1) \/ Kill(1)
    BY <1>2 DEF Call, Kill, Goto
  <1>3. CASE CheckFiles(1)
    <2>1. /\ Task = "starting" /\ LogSeen = LogOf(0, 0, "none")
          /\ emu'[1] = "none" /\ UNCHANGED StraySeen
      BY <1>3 DEF CheckFiles, Task, TaskOf, LogSeen, StraySeen, emuVars
    <2>2. CASE Return(1, "error")
      <3>1. LogSeen' = LogOf(1, 0, "none") /\ Task' = "done" /\ Result' = "error"
        BY <2>1, <2>2 DEF Return, Task, TaskOf, Result, StatusOf, LogSeen
      <3> QED BY <2>1, <3>1, Launches
    <2>3. CASE Goto(1, "raised")
      <3>1. UNCHANGED LogSeen /\ Task' = "crashed" /\ UNCHANGED Result
        BY <2>1, <2>3 DEF Goto, Task, TaskOf, Result, LogSeen
      <3> QED BY <2>1, <3>1, Launches
    <2>4. CASE Goto(1, "open")
      <3>1. UNCHANGED <<LogSeen, Task, Result>>
        BY <2>1, <2>4 DEF Goto, Task, TaskOf, Result, LogSeen
      <3> QED BY <2>1, <3>1, Stutters
    <2> QED BY <1>3, <2>2, <2>3, <2>4 DEF CheckFiles
  <1>4. CASE OpenLogs(1)
    <2>1. /\ Task = "starting" /\ LogSeen = LogOf(0, 0, "none")
          /\ emu'[1] = "none" /\ UNCHANGED StraySeen
      BY <1>4 DEF OpenLogs, Task, TaskOf, LogSeen, StraySeen, emuVars
    <2>2. CASE Goto(1, "raised")
      <3>1. UNCHANGED LogSeen /\ Task' = "crashed" /\ UNCHANGED Result
        BY <2>1, <2>2 DEF Goto, Task, TaskOf, Result, LogSeen
      <3> QED BY <2>1, <3>1, Launches
    <2>3. CASE Goto(1, "launch")
      <3>1. UNCHANGED <<LogSeen, Task, Result>>
        BY <2>1, <2>3 DEF Goto, Task, TaskOf, Result, LogSeen
      <3> QED BY <2>1, <3>1, Stutters
    <2> QED BY <1>4, <2>2, <2>3 DEF OpenLogs
  <1>5. CASE Launch(1)
    <2>1. /\ Task = "starting" /\ LogSeen = LogOf(0, 0, "none")
          /\ UNCHANGED StraySeen
      BY <1>5 DEF Launch, Task, TaskOf, LogSeen, StraySeen
    <2>2. CASE Goto(1, "wait")
      <3>1. pc'[1] = "wait" /\ emu'[1] # "none" /\ UNCHANGED result
        BY <1>5, <2>2 DEF Launch, Goto
      <3>2. LogSeen' = LogOf(1, 1, "none") /\ Task' = "emu" /\ UNCHANGED Result
        BY <3>1 DEF Task, TaskOf, Result, LogSeen
      <3> QED BY <2>1, <3>2, Launches
    <2>3. CASE Goto(1, "raised") /\ UNCHANGED emu
      <3>1. UNCHANGED LogSeen /\ Task' = "crashed" /\ UNCHANGED Result
        BY <1>5, <2>1, <2>3 DEF Launch, Goto, Task, TaskOf, Result, LogSeen
      <3> QED BY <2>1, <3>1, Launches
    <2> QED BY <1>5, <2>2, <2>3 DEF Launch
  <1>6. CASE Expire(1) \/ Reap(1)
    <2>1. /\ Task = "emu" /\ LogSeen = LogOf(1, 1, "none") /\ StraySeen = {}
          /\ emu'[1] = "ended" /\ UNCHANGED <<child, log, rc>>
          /\ pc'[1] \in {"read", "returned", "raised"}
      BY <1>6 DEF Expire, Reap, Goto, Return, Task, TaskOf, LogSeen, StraySeen,
         emuVars
    <2>2. LogSeen' = LogOf(1, 1, Verdict') /\ UNCHANGED Verdict
      BY <2>1 DEF LogSeen, Verdict
    <2>3. StraySeen' \in Batch!MayReplay(1, 1, Verdict')
      BY <1>b, <2>1, <2>2 DEF StraySeen, Batch!MayReplay, Batch!Stray
    <2>4. \/ Task' \in {"ended", "crashed"} /\ UNCHANGED Result
          \/ Task' = "done" /\ Result' = "timeout"
      BY <1>6 DEF Expire, Reap, Goto, Return, Task, TaskOf, Result, StatusOf
    <2> QED BY <1>c, <2>1, <2>2, <2>3, <2>4, Ends
  <1>8. CASE Classify(1)
    <2>0. /\ pc[1] = "read" /\ pc'[1] \in {"returned", "raised"}
          /\ UNCHANGED <<log, emu, child, rc>>
      BY <1>8 DEF Classify, Goto, Return, emuVars
    <2>1. /\ Task = "ended" /\ UNCHANGED <<LogSeen, StraySeen>>
          /\ LogSeen.verdict = Verdict
      BY <2>0 DEF Task, TaskOf, LogSeen, LogOf, StraySeen, Verdict
    <2>2. CASE Goto(1, "raised")
      BY <2>1, <2>2, Classifies DEF Goto, Task, TaskOf, Result
    <2>3. CASE Return(1, ClassifyResult(log, rc[1]))
      <3>1. Task' = "done"
        BY <2>3 DEF Return, Task, TaskOf
      <3>2. Result' = IF LogSeen.verdict = "good" THEN "ran" ELSE "bad_trap"
        BY <2>1, <2>3 DEF Return, Result, StatusOf, Verdict, ClassifyResult
      <3> QED BY <2>1, <3>1, <3>2, Classifies
    <2> QED BY <1>8, <2>2, <2>3 DEF Classify
  <1>9. CASE PrintVerdict(1) \/ Exit(1)
    <2>1. /\ pc[1] = "wait" /\ emu[1] # "none" /\ emu'[1] # "none"
          /\ UNCHANGED <<pc, result>>
      BY <1>9 DEF PrintVerdict, Exit, Over
    <2>2. UNCHANGED <<Task, LogSeen, StraySeen, Result>>
      BY <2>1 DEF Task, LogSeen, StraySeen, Result
    <2> QED BY <2>2, Stutters
  <1>10. CASE Replay(1)
    <2>1. /\ child[1] /\ UNCHANGED <<pc, result, fate, emu, rc>>
          /\ \/ UNCHANGED child /\ \E text \in Failures : log' = log \cup {text}
             \/ child' = [child EXCEPT ![1] = FALSE] /\ UNCHANGED log
      BY <1>10 DEF Replay, Writes
    <2>2. UNCHANGED <<Task, Result>>
      BY <2>1 DEF Task, Result
    <2>3. fate[1] \in log' /\ log' \cap Successes = {} /\ log' \in SUBSET Texts
      BY <1>a, <2>1 DEF Lone, Failures
    <2>4. Verdict = "bad" /\ Verdict' = "bad"
      BY <1>b, <2>1, <2>3, ReplayedVerdict DEF Verdict
    <2>5. UNCHANGED LogSeen
      BY <2>1, <2>4 DEF LogSeen
    <2>6. UNCHANGED StraySeen \/ \E e \in StraySeen : StraySeen' = StraySeen \ {e}
      BY <2>1 DEF StraySeen
    <2> QED BY <2>2, <2>5, <2>6, Stutters, StrayEnds
  <1> QED BY <1>2, <1>3, <1>4, <1>5, <1>6, <1>8, <1>9, <1>10 DEF Step, Adapter

\* In every environment the adapter's call, statement by statement, and the
\* replay it may leave behind are RunBatch's worker and its stray: what
\* RunBatch shows of logs, results and ledger holds of the adapter as it is.
THEOREM AdapterRefines == Spec => AdapterIsWorker
  <1>1. IInv /\ [Next]_vars
          => [Alone' /\ pc[1] # "out" /\ pc'[1] # "killed" =>
                \/ Batch!Worker(1)
                \/ \E e \in StraySeen : Batch!StrayGoesOn(e)
                \/ UNCHANGED Batch!vars]_vars
    <2> SUFFICES ASSUME IInv, Next, Alone', pc[1] # "out", pc'[1] # "killed"
                 PROVE  \/ Batch!Worker(1)
                        \/ \E e \in StraySeen : Batch!StrayGoesOn(e)
                        \/ UNCHANGED Batch!vars
      OBVIOUS
    <2>1. PICK c \in Calls : Step(c)
      BY DEF Next, Step
    <2>2. c = 1
      BY <2>1, StepsIn DEF IInv, CallInv, Alone
    <2>3. Alone
      BY <2>1, <2>2, Others DEF IInv, Alone
    <2> QED BY <2>1, <2>2, <2>3, StepIsWorkers
  <1> QED BY <1>1, InductiveInvariant, PTL DEF Spec, AdapterIsWorker
=============================================================================
