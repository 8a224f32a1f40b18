-------------------------- MODULE TimerRuntimeProofs --------------------------
(***************************************************************************)
(* The safety properties of TimerRuntime for every bound on the spins of   *)
(* the wait loop and on the interrupts.                                    *)
(***************************************************************************)
EXTENDS TimerRuntime, TLAPS

\* A harness that has not started satisfies the inductive invariant.
LEMMA InitIInv == Init => IInv
  <1> SUFFICES ASSUME Init PROVE IInv
    OBVIOUS
  <1>1. TypeOK
    <2>1. sample \in [mstatus : BOOLEAN, mie : BOOLEAN, mip : BOOLEAN,
                      due : BOOLEAN]
      BY DEF Init, NoSample
    <2>2. code \in Codes /\ count \in 0..MaxTraps /\ spin \in 0..Spins
      BY TimerAssumption DEF Init, Codes
    <2> QED BY <2>1, <2>2 DEF Init, TypeOK, Statements, Probes
  <1>2. InSuite /\ TimerState
    BY DEF Init, InSuite, TimerState, ToEnable, ToUnmask
  <1>3. FlagsKept
    BY DEF Init, FlagsKept, Kept, Marked, ToArmed, ToUnmask, ToEnable, Closing
  <1>4. SampleState /\ Counted
    BY DEF Init, SampleState, Counted, ToArmed, ToUnmask, ToEnable, Closing
  <1>5. NoRunRejectedForAFlag /\ DiagnosisOfSilence /\ PassIsOneInterrupt
    BY DEF Init, NoRunRejectedForAFlag, DiagnosisOfSilence,
        PassIsOneInterrupt, Ended
  <1>6. TimerOffIsOneInterrupt
    BY DEF Init, TimerOffIsOneInterrupt
  <1> QED BY <1>1, <1>2, <1>3, <1>4, <1>5, <1>6 DEF IInv

\* Every statement of main, every tick and every interrupt keeps it.
LEMMA StepIInv == IInv /\ [Next]_vars => IInv'
  <1> SUFFICES ASSUME IInv, [Next]_vars PROVE IInv'
    OBVIOUS
  <1> USE TimerAssumption
  <1>1. CASE Clear
    <2>1. TypeOK'
      BY <1>1 DEF IInv, TypeOK, Statements, Probes, Codes, Flags, Sets,
          Suites, Clear, Advance, After, timerVars
    <2>2. InSuite'
      BY <1>1 DEF IInv, TypeOK, InSuite, Suites, Sets, Clear, Advance, After,
          timerVars
    <2>3. TimerState'
      BY <1>1 DEF IInv, TypeOK, InSuite, TimerState, ToEnable, ToUnmask,
          Suites, Clear, Advance, After, timerVars
    <2>4. FlagsKept'
      BY <1>1 DEF IInv, TypeOK, InSuite, TimerState, FlagsKept, Kept, Marked,
          ToArmed, ToUnmask, ToEnable, Closing, Suites, FINISHED, FAILED,
          TIMER_ARMED, TRAP_OBSERVED, VSETVL_ENTERED, VSETVL_COMPLETED, Clear,
          Advance, After, timerVars
    <2>5. SampleState' /\ Counted'
      BY <1>1 DEF IInv, TypeOK, InSuite, TimerState, SampleState, Counted,
          ToArmed, ToUnmask, ToEnable, Closing, Probes, Suites, Clear,
          Advance, After, timerVars
    <2>6. NoRunRejectedForAFlag' /\ DiagnosisOfSilence' /\ PassIsOneInterrupt'
      BY <1>1 DEF IInv, InSuite, NoRunRejectedForAFlag, DiagnosisOfSilence,
          PassIsOneInterrupt, Ended, Clear, Advance, After, timerVars
    <2>7. TimerOffIsOneInterrupt'
      BY <1>1 DEF IInv, TypeOK, InSuite, TimerState, TimerOffIsOneInterrupt,
          ToEnable, ToUnmask, Suites, Advance, Reject, Clear, timerVars
    <2> QED BY <2>1, <2>2, <2>3, <2>4, <2>5, <2>6, <2>7 DEF IInv
  <1>2. CASE Enable
    <2>1. TypeOK'
      BY <1>2 DEF IInv, TypeOK, Statements, Probes, Codes, Sets, Suites,
          Enable, Advance, After
    <2>2. InSuite'
      BY <1>2 DEF IInv, TypeOK, InSuite, Suites, Sets, Enable, Advance, After
    <2>3. TimerState'
      BY <1>2 DEF IInv, TypeOK, InSuite, TimerState, ToEnable, ToUnmask,
          Suites, Enable, Advance, After
    <2>4. FlagsKept'
      BY <1>2 DEF IInv, TypeOK, InSuite, TimerState, FlagsKept, Kept, Marked,
          ToArmed, ToUnmask, ToEnable, Closing, Suites, FINISHED, FAILED,
          TIMER_ARMED, TRAP_OBSERVED, VSETVL_ENTERED, VSETVL_COMPLETED,
          Enable, Advance, After
    <2>5. SampleState' /\ Counted'
      BY <1>2 DEF IInv, TypeOK, InSuite, TimerState, SampleState, Counted,
          ToArmed, ToUnmask, ToEnable, Closing, Probes, Suites, Enable,
          Advance, After
    <2>6. NoRunRejectedForAFlag' /\ DiagnosisOfSilence' /\ PassIsOneInterrupt'
      BY <1>2 DEF IInv, InSuite, NoRunRejectedForAFlag, DiagnosisOfSilence,
          PassIsOneInterrupt, Ended, Enable, Advance, After
    <2>7. TimerOffIsOneInterrupt'
      BY <1>2 DEF IInv, TypeOK, InSuite, TimerState, TimerOffIsOneInterrupt,
          ToEnable, ToUnmask, Suites, Advance, Reject, Enable, timerVars
    <2> QED BY <2>1, <2>2, <2>3, <2>4, <2>5, <2>6, <2>7 DEF IInv
  <1>3. CASE Unmask
    <2>1. TypeOK'
      BY <1>3 DEF IInv, TypeOK, Statements, Probes, Codes, Sets, Suites,
          Unmask, Advance, After
    <2>2. InSuite'
      BY <1>3 DEF IInv, TypeOK, InSuite, Suites, Sets, Unmask, Advance, After
    <2>3. TimerState'
      BY <1>3 DEF IInv, TypeOK, InSuite, TimerState, ToEnable, ToUnmask,
          Suites, Unmask, Advance, After
    <2>4. FlagsKept'
      BY <1>3 DEF IInv, TypeOK, InSuite, TimerState, FlagsKept, Kept, Marked,
          ToArmed, ToUnmask, ToEnable, Closing, Suites, FINISHED, FAILED,
          TIMER_ARMED, TRAP_OBSERVED, VSETVL_ENTERED, VSETVL_COMPLETED,
          Unmask, Advance, After
    <2>5. SampleState' /\ Counted'
      BY <1>3 DEF IInv, TypeOK, InSuite, TimerState, SampleState, Counted,
          ToArmed, ToUnmask, ToEnable, Closing, Probes, Suites, Unmask,
          Advance, After
    <2>6. NoRunRejectedForAFlag' /\ DiagnosisOfSilence' /\ PassIsOneInterrupt'
      BY <1>3 DEF IInv, InSuite, NoRunRejectedForAFlag, DiagnosisOfSilence,
          PassIsOneInterrupt, Ended, Unmask, Advance, After
    <2>7. TimerOffIsOneInterrupt'
      BY <1>3 DEF IInv, TypeOK, InSuite, TimerState, TimerOffIsOneInterrupt,
          ToEnable, ToUnmask, Suites, Advance, Reject, Unmask, timerVars
    <2> QED BY <2>1, <2>2, <2>3, <2>4, <2>5, <2>6, <2>7 DEF IInv
  <1>4. CASE SetPeriod
    <2>1. TypeOK'
      <3>1. periodic' \in BOOLEAN
        BY <1>4 DEF IInv, TypeOK, SetPeriod
      <3>2. pc' = "compare"
        BY <1>4 DEF SetPeriod, Advance, After
      <3> QED BY <1>4, <3>1, <3>2 DEF IInv, TypeOK, Statements, SetPeriod,
            Advance
    <2>2. InSuite'
      BY <1>4 DEF IInv, TypeOK, InSuite, Suites, Sets, SetPeriod, Advance,
          After
    <2>3. TimerState'
      BY <1>4 DEF IInv, TypeOK, InSuite, TimerState, ToEnable, ToUnmask,
          Suites, SetPeriod, Advance, After
    <2>4. FlagsKept'
      BY <1>4 DEF IInv, TypeOK, InSuite, TimerState, FlagsKept, Kept, Marked,
          ToArmed, ToUnmask, ToEnable, Closing, Suites, FINISHED, FAILED,
          TIMER_ARMED, TRAP_OBSERVED, VSETVL_ENTERED, VSETVL_COMPLETED,
          SetPeriod, Advance, After
    <2>5. SampleState' /\ Counted'
      BY <1>4 DEF IInv, TypeOK, InSuite, TimerState, SampleState, Counted,
          ToArmed, ToUnmask, ToEnable, Closing, Probes, Suites, SetPeriod,
          Advance, After
    <2>6. NoRunRejectedForAFlag' /\ DiagnosisOfSilence' /\ PassIsOneInterrupt'
      BY <1>4 DEF IInv, InSuite, NoRunRejectedForAFlag, DiagnosisOfSilence,
          PassIsOneInterrupt, Ended, SetPeriod, Advance, After
    <2>7. TimerOffIsOneInterrupt'
      BY <1>4 DEF IInv, TypeOK, InSuite, TimerState, TimerOffIsOneInterrupt,
          ToEnable, ToUnmask, Suites, Advance, Reject, SetPeriod, timerVars
    <2> QED BY <2>1, <2>2, <2>3, <2>4, <2>5, <2>6, <2>7 DEF IInv
  <1>5. CASE WriteCompare
    <2>1. TypeOK'
      BY <1>5 DEF IInv, TypeOK, Statements, Probes, Codes, Sets, Suites,
          WriteCompare, Advance, After
    <2>2. InSuite'
      BY <1>5 DEF IInv, TypeOK, InSuite, Suites, Sets, WriteCompare, Advance,
          After
    <2>3. TimerState'
      BY <1>5 DEF IInv, TypeOK, InSuite, TimerState, ToEnable, ToUnmask,
          Suites, WriteCompare, Advance, After
    <2>4. FlagsKept'
      BY <1>5 DEF IInv, TypeOK, InSuite, TimerState, FlagsKept, Kept, Marked,
          ToArmed, ToUnmask, ToEnable, Closing, Suites, FINISHED, FAILED,
          TIMER_ARMED, TRAP_OBSERVED, VSETVL_ENTERED, VSETVL_COMPLETED,
          WriteCompare, Advance, After
    <2>5. SampleState' /\ Counted'
      BY <1>5 DEF IInv, TypeOK, InSuite, TimerState, SampleState, Counted,
          ToArmed, ToUnmask, ToEnable, Closing, Probes, Suites,
          WriteCompare, Advance, After
    <2>6. NoRunRejectedForAFlag' /\ DiagnosisOfSilence' /\ PassIsOneInterrupt'
      BY <1>5 DEF IInv, InSuite, NoRunRejectedForAFlag, DiagnosisOfSilence,
          PassIsOneInterrupt, Ended, WriteCompare, Advance, After
    <2>7. TimerOffIsOneInterrupt'
      BY <1>5 DEF IInv, TypeOK, InSuite, TimerState, TimerOffIsOneInterrupt,
          ToEnable, ToUnmask, Suites, Advance, Reject, WriteCompare, timerVars
    <2> QED BY <2>1, <2>2, <2>3, <2>4, <2>5, <2>6, <2>7 DEF IInv
  <1>6. CASE LoadFlags
    <2>1. TypeOK'
      BY <1>6 DEF IInv, TypeOK, Statements, Probes, Codes, Flags, LoadFlags,
          Sets, timerVars
    <2>2. InSuite'
      BY <1>6 DEF IInv, TypeOK, InSuite, Suites, LoadFlags, Sets, timerVars
    <2>3. TimerState'
      BY <1>6 DEF IInv, TypeOK, InSuite, TimerState, ToEnable, ToUnmask,
          Suites, LoadFlags, Sets, timerVars
    <2>4. FlagsKept'
      BY <1>6 DEF IInv, TypeOK, InSuite, TimerState, FlagsKept, Kept, Marked,
          ToArmed, ToUnmask, ToEnable, Closing, Suites, FINISHED, FAILED,
          TIMER_ARMED, TRAP_OBSERVED, VSETVL_ENTERED, VSETVL_COMPLETED,
          LoadFlags, Sets, timerVars
    <2>5. SampleState' /\ Counted'
      BY <1>6 DEF IInv, TypeOK, InSuite, TimerState, SampleState, Counted,
          ToArmed, ToUnmask, ToEnable, Closing, Probes, Suites, LoadFlags,
          Sets, timerVars
    <2>6. NoRunRejectedForAFlag' /\ DiagnosisOfSilence' /\ PassIsOneInterrupt'
      BY <1>6 DEF IInv, InSuite, NoRunRejectedForAFlag, DiagnosisOfSilence,
          PassIsOneInterrupt, Ended, LoadFlags, Sets, timerVars
    <2>7. TimerOffIsOneInterrupt'
      BY <1>6 DEF IInv, TypeOK, InSuite, TimerState, TimerOffIsOneInterrupt,
          ToEnable, ToUnmask, Suites, Advance, Reject, LoadFlags, timerVars
    <2> QED BY <2>1, <2>2, <2>3, <2>4, <2>5, <2>6, <2>7 DEF IInv
  <1>7. CASE StoreFlags
    <2>1. TypeOK'
      <3>1. Sets[pc] \subseteq Flags
        BY <1>7 DEF StoreFlags, Sets, Flags, FINISHED, TIMER_ARMED,
            TRAP_OBSERVED, VSETVL_ENTERED, VSETVL_COMPLETED
      <3>2. flags' \subseteq Flags
        BY <1>7, <3>1 DEF IInv, TypeOK, StoreFlags
      <3>3. pc' \in Statements \cup {"ended"}
        BY <1>7 DEF StoreFlags, After, Sets, Statements
      <3> QED BY <1>7, <3>2, <3>3 DEF IInv, TypeOK, StoreFlags, timerVars
    <2>2. InSuite'
      BY <1>7 DEF IInv, TypeOK, InSuite, Suites, StoreFlags, After, Sets,
          timerVars
    <2>3. TimerState'
      BY <1>7 DEF IInv, TypeOK, InSuite, TimerState, ToEnable, ToUnmask,
          Suites, StoreFlags, After, Sets, timerVars
    <2>4. FlagsKept'
      BY <1>7 DEF IInv, TypeOK, InSuite, TimerState, FlagsKept, Kept, Marked,
          ToArmed, ToUnmask, ToEnable, Closing, Suites, FINISHED, FAILED,
          TIMER_ARMED, TRAP_OBSERVED, VSETVL_ENTERED, VSETVL_COMPLETED,
          StoreFlags, After, Sets, timerVars
    <2>5. SampleState' /\ Counted'
      <3>1. CASE pc = "armed"
        BY <1>7, <3>1 DEF IInv, TypeOK, InSuite, SampleState, Counted,
            ToArmed, ToUnmask, ToEnable, Closing, StoreFlags, After, Sets,
            timerVars
      <3>2. CASE pc # "armed"
        <4>1. pc' # "wait" /\ (pc' \in ToArmed => pc \in ToArmed)
          BY <1>7, <3>2 DEF StoreFlags, After, Sets, ToArmed, ToUnmask,
              ToEnable
        <4>2. pc' \in Closing \cup {"observed"} =>
                 pc \in Closing \cup {"observed"}
                   \/ suite # "interrupt_response"
          BY <1>7, <3>2 DEF IInv, InSuite, StoreFlags, After, Sets, Closing
        <4> QED BY <1>7, <4>1, <4>2 DEF IInv, SampleState, Counted,
              StoreFlags, timerVars
      <3> QED BY <3>1, <3>2
    <2>6. NoRunRejectedForAFlag' /\ DiagnosisOfSilence' /\ PassIsOneInterrupt'
      BY <1>7 DEF IInv, InSuite, NoRunRejectedForAFlag, DiagnosisOfSilence,
          PassIsOneInterrupt, Ended, StoreFlags, After, Sets, timerVars
    <2>7. TimerOffIsOneInterrupt'
      BY <1>7 DEF IInv, TypeOK, InSuite, TimerState, TimerOffIsOneInterrupt,
          ToEnable, ToUnmask, Suites, Advance, Reject, StoreFlags, timerVars
    <2> QED BY <2>1, <2>2, <2>3, <2>4, <2>5, <2>6, <2>7 DEF IInv
  <1>8. CASE PollCount
    <2>1. TypeOK'
      BY <1>8 DEF IInv, TypeOK, Statements, Probes, Codes, Sets, Suites,
          PollCount, After, timerVars
    <2>2. InSuite'
      BY <1>8 DEF IInv, TypeOK, InSuite, Suites, Sets, PollCount, After,
          timerVars
    <2>3. TimerState'
      BY <1>8 DEF IInv, TypeOK, InSuite, TimerState, ToEnable, ToUnmask,
          Suites, PollCount, After, timerVars
    <2>4. FlagsKept'
      BY <1>8 DEF IInv, TypeOK, InSuite, TimerState, FlagsKept, Kept, Marked,
          ToArmed, ToUnmask, ToEnable, Closing, Suites, FINISHED, FAILED,
          TIMER_ARMED, TRAP_OBSERVED, VSETVL_ENTERED, VSETVL_COMPLETED,
          PollCount, After, timerVars
    <2>5. SampleState' /\ Counted'
      BY <1>8 DEF IInv, TypeOK, InSuite, TimerState, SampleState, Counted,
          ToArmed, ToUnmask, ToEnable, Closing, Probes, Suites, PollCount,
          After, timerVars
    <2>6. NoRunRejectedForAFlag' /\ DiagnosisOfSilence' /\ PassIsOneInterrupt'
      BY <1>8 DEF IInv, InSuite, NoRunRejectedForAFlag, DiagnosisOfSilence,
          PassIsOneInterrupt, Ended, PollCount, After, timerVars
    <2>7. TimerOffIsOneInterrupt'
      BY <1>8 DEF IInv, TypeOK, InSuite, TimerState, TimerOffIsOneInterrupt,
          ToEnable, ToUnmask, Suites, Advance, Reject, PollCount, timerVars
    <2> QED BY <2>1, <2>2, <2>3, <2>4, <2>5, <2>6, <2>7 DEF IInv
  <1>9. CASE ReadMie
    <2>1. TypeOK'
      <3>1. sample' \in [mstatus : BOOLEAN, mie : BOOLEAN, mip : BOOLEAN,
                         due : BOOLEAN]
        BY <1>9 DEF IInv, TypeOK, ReadMie
      <3> QED BY <1>9, <3>1 DEF IInv, TypeOK, Probes, ReadMie, timerVars
    <2>2. InSuite'
      BY <1>9 DEF IInv, TypeOK, InSuite, Suites, Sets, ReadMie, timerVars
    <2>3. TimerState'
      BY <1>9 DEF IInv, TypeOK, InSuite, TimerState, ToEnable, ToUnmask,
          Suites, ReadMie, timerVars
    <2>4. FlagsKept'
      BY <1>9 DEF IInv, TypeOK, InSuite, TimerState, FlagsKept, Kept, Marked,
          ToArmed, ToUnmask, ToEnable, Closing, Suites, FINISHED, FAILED,
          TIMER_ARMED, TRAP_OBSERVED, VSETVL_ENTERED, VSETVL_COMPLETED,
          ReadMie, timerVars
    <2>5. SampleState' /\ Counted'
      BY <1>9 DEF IInv, TypeOK, InSuite, TimerState, SampleState, Counted,
          ToArmed, ToUnmask, ToEnable, Closing, Probes, Suites, ReadMie,
          timerVars
    <2>6. NoRunRejectedForAFlag' /\ DiagnosisOfSilence' /\ PassIsOneInterrupt'
      BY <1>9 DEF IInv, InSuite, NoRunRejectedForAFlag, DiagnosisOfSilence,
          PassIsOneInterrupt, Ended, ReadMie, timerVars
    <2>7. TimerOffIsOneInterrupt'
      BY <1>9 DEF IInv, TypeOK, InSuite, TimerState, TimerOffIsOneInterrupt,
          ToEnable, ToUnmask, Suites, Advance, Reject, ReadMie, timerVars
    <2> QED BY <2>1, <2>2, <2>3, <2>4, <2>5, <2>6, <2>7 DEF IInv
  <1>10. CASE ReadMip
    <2>1. TypeOK'
      BY <1>10 DEF IInv, TypeOK, Statements, Probes, Codes, NoSample, Sets,
          ReadMip, timerVars
    <2>2. InSuite'
      BY <1>10 DEF IInv, TypeOK, InSuite, Suites, Sets, ReadMip, timerVars
    <2>3. TimerState'
      BY <1>10 DEF IInv, TypeOK, InSuite, TimerState, ToEnable, ToUnmask,
          Suites, ReadMip, timerVars
    <2>4. FlagsKept'
      BY <1>10 DEF IInv, TypeOK, InSuite, TimerState, FlagsKept, Kept, Marked,
          ToArmed, ToUnmask, ToEnable, Closing, Suites, FINISHED, FAILED,
          TIMER_ARMED, TRAP_OBSERVED, VSETVL_ENTERED, VSETVL_COMPLETED,
          ReadMip, timerVars
    <2>5. SampleState' /\ Counted'
      BY <1>10 DEF IInv, TypeOK, InSuite, TimerState, SampleState, Counted,
          ToArmed, ToUnmask, ToEnable, Closing, Probes, Suites, ReadMip,
          timerVars
    <2>6. NoRunRejectedForAFlag' /\ DiagnosisOfSilence' /\ PassIsOneInterrupt'
      BY <1>10 DEF IInv, InSuite, NoRunRejectedForAFlag, DiagnosisOfSilence,
          PassIsOneInterrupt, Ended, ReadMip, timerVars
    <2>7. TimerOffIsOneInterrupt'
      BY <1>10 DEF IInv, TypeOK, InSuite, TimerState, TimerOffIsOneInterrupt,
          ToEnable, ToUnmask, Suites, Advance, Reject, ReadMip, timerVars
    <2> QED BY <2>1, <2>2, <2>3, <2>4, <2>5, <2>6, <2>7 DEF IInv
  <1>11. CASE ReadTime
    <2>1. TypeOK'
      BY <1>11 DEF IInv, TypeOK, Statements, Probes, Codes, NoSample, Sets,
          InSuite, SampleState, ReadTime, timerVars
    <2>2. InSuite'
      BY <1>11 DEF IInv, TypeOK, InSuite, Suites, Sets, ReadTime, timerVars
    <2>3. TimerState'
      BY <1>11 DEF IInv, TypeOK, InSuite, TimerState, ToEnable, ToUnmask,
          Suites, ReadTime, timerVars
    <2>4. FlagsKept'
      BY <1>11 DEF IInv, TypeOK, InSuite, TimerState, FlagsKept, Kept, Marked,
          ToArmed, ToUnmask, ToEnable, Closing, Suites, FINISHED, FAILED,
          TIMER_ARMED, TRAP_OBSERVED, VSETVL_ENTERED, VSETVL_COMPLETED,
          ReadTime, timerVars
    <2>5. SampleState' /\ Counted'
      BY <1>11 DEF IInv, TypeOK, InSuite, TimerState, SampleState, Counted,
          ToArmed, ToUnmask, ToEnable, Closing, Probes, Suites, ReadTime,
          timerVars
    <2>6. NoRunRejectedForAFlag' /\ DiagnosisOfSilence' /\ PassIsOneInterrupt'
      BY <1>11 DEF IInv, InSuite, NoRunRejectedForAFlag, DiagnosisOfSilence,
          PassIsOneInterrupt, Ended, ReadTime, timerVars
    <2>7. TimerOffIsOneInterrupt'
      BY <1>11 DEF IInv, TypeOK, InSuite, TimerState, TimerOffIsOneInterrupt,
          ToEnable, ToUnmask, Suites, Advance, Reject, ReadTime, timerVars
    <2> QED BY <2>1, <2>2, <2>3, <2>4, <2>5, <2>6, <2>7 DEF IInv
  <1>12. CASE GiveUp
    <2>1. TypeOK'
      BY <1>12 DEF IInv, TypeOK, Statements, Probes, Codes, Flags, FINISHED,
          FAILED, Sets, GiveUp, Reject, Diagnosis, timerVars
    <2>2. InSuite'
      BY <1>12 DEF IInv, TypeOK, InSuite, Suites, Sets, GiveUp, Reject,
          Diagnosis, timerVars
    <2>3. TimerState'
      BY <1>12 DEF IInv, TypeOK, InSuite, TimerState, ToEnable, ToUnmask,
          Suites, GiveUp, Reject, Diagnosis, timerVars
    <2>4. FlagsKept'
      <3>1. ~loaded
        BY <1>12 DEF IInv, TypeOK, InSuite, Sets, GiveUp
      <3> QED BY <1>12, <3>1 DEF FlagsKept, GiveUp, Reject
    <2>5. SampleState' /\ Counted'
      BY <1>12 DEF IInv, TypeOK, InSuite, TimerState, SampleState, Counted,
          ToArmed, ToUnmask, ToEnable, Closing, Probes, Suites, GiveUp,
          Reject, Diagnosis, timerVars
    <2>6. NoRunRejectedForAFlag' /\ DiagnosisOfSilence' /\ PassIsOneInterrupt'
      BY <1>12 DEF IInv, TypeOK, InSuite, TimerState, FlagsKept, SampleState,
          Counted, NoRunRejectedForAFlag, DiagnosisOfSilence,
          PassIsOneInterrupt, Ended, Suites, Kept, Marked, ToEnable, ToUnmask,
          ToArmed, Closing, FINISHED, FAILED, TIMER_ARMED, TRAP_OBSERVED,
          VSETVL_ENTERED, VSETVL_COMPLETED, GiveUp, Reject, Diagnosis,
          timerVars
    <2>7. TimerOffIsOneInterrupt'
      BY <1>12 DEF IInv, TypeOK, InSuite, TimerState, TimerOffIsOneInterrupt,
          ToEnable, ToUnmask, Suites, Advance, Reject, GiveUp, timerVars
    <2> QED BY <2>1, <2>2, <2>3, <2>4, <2>5, <2>6, <2>7 DEF IInv
  <1>13. CASE Check
    <2>1. TypeOK'
      BY <1>13 DEF IInv, TypeOK, Statements, Probes, Codes, Flags, FINISHED,
          FAILED, Sets, Suites, Check, Advance, Reject, After, Objections,
          ResponseObjections, PathObjections, SearchObjections, timerVars
    <2>2. InSuite'
      BY <1>13 DEF IInv, TypeOK, InSuite, Suites, Sets, Check, Advance,
          Reject, After, Objections, ResponseObjections, PathObjections,
          SearchObjections, timerVars
    <2>3. TimerState'
      BY <1>13 DEF IInv, TypeOK, InSuite, TimerState, ToEnable, ToUnmask,
          Suites, Check, Advance, Reject, After, Objections,
          ResponseObjections, PathObjections, SearchObjections, timerVars
    <2>4. FlagsKept'
      BY <1>13 DEF IInv, TypeOK, InSuite, TimerState, FlagsKept, Kept, Marked,
          ToArmed, ToUnmask, ToEnable, Closing, Suites, FINISHED, FAILED,
          TIMER_ARMED, TRAP_OBSERVED, VSETVL_ENTERED, VSETVL_COMPLETED, Check,
          Advance, Reject, After, Objections, ResponseObjections,
          PathObjections, SearchObjections, timerVars
    <2>5. SampleState' /\ Counted'
      BY <1>13 DEF IInv, TypeOK, InSuite, TimerState, SampleState, Counted,
          ToArmed, ToUnmask, ToEnable, Closing, Probes, Suites, Check,
          Advance, Reject, After, Objections, ResponseObjections,
          PathObjections, SearchObjections, timerVars
    <2>6. NoRunRejectedForAFlag' /\ DiagnosisOfSilence' /\ PassIsOneInterrupt'
      BY <1>13 DEF IInv, TypeOK, InSuite, TimerState, FlagsKept, SampleState,
          Counted, NoRunRejectedForAFlag, DiagnosisOfSilence,
          PassIsOneInterrupt, Ended, Suites, Kept, Marked, ToEnable, ToUnmask,
          ToArmed, Closing, FINISHED, FAILED, TIMER_ARMED, TRAP_OBSERVED,
          VSETVL_ENTERED, VSETVL_COMPLETED, Check, Advance, Reject, After,
          Objections, ResponseObjections, PathObjections, SearchObjections,
          timerVars
    <2>7. TimerOffIsOneInterrupt'
      BY <1>13 DEF IInv, TypeOK, InSuite, TimerState, TimerOffIsOneInterrupt,
          ToEnable, ToUnmask, Suites, Advance, Reject, Check, timerVars
    <2> QED BY <2>1, <2>2, <2>3, <2>4, <2>5, <2>6, <2>7 DEF IInv
  <1>14. CASE FinishCheck
    <2>1. TypeOK'
      <3>1. CASE FAILED \notin flags /\ Advance /\ flags' = flags
        BY <1>14, <3>1 DEF IInv, TypeOK, Statements, Sets, FinishCheck,
            Advance, After, timerVars
      <3>2. CASE Reject(31)
        <4>1. 31 \in Codes /\ {FINISHED, FAILED} \subseteq Flags
          BY DEF Codes, Flags
        <4> QED BY <1>14, <3>2, <4>1 DEF IInv, TypeOK, FinishCheck, Reject,
              timerVars
      <3> QED BY <1>14, <3>1, <3>2 DEF FinishCheck
    <2>2. InSuite'
      BY <1>14 DEF IInv, TypeOK, InSuite, Suites, Sets, FinishCheck, Advance,
          Reject, After, timerVars
    <2>3. TimerState'
      BY <1>14 DEF IInv, TypeOK, InSuite, TimerState, ToEnable, ToUnmask,
          Suites, FinishCheck, Advance, Reject, After, timerVars
    <2>4. FlagsKept'
      BY <1>14 DEF IInv, TypeOK, InSuite, TimerState, FlagsKept, Kept, Marked,
          ToArmed, ToUnmask, ToEnable, Closing, Suites, FINISHED, FAILED,
          TIMER_ARMED, TRAP_OBSERVED, VSETVL_ENTERED, VSETVL_COMPLETED,
          FinishCheck, Advance, Reject, After, timerVars
    <2>5. SampleState' /\ Counted'
      BY <1>14 DEF IInv, TypeOK, InSuite, TimerState, SampleState, Counted,
          ToArmed, ToUnmask, ToEnable, Closing, Probes, Suites, FinishCheck,
          Advance, Reject, After, timerVars
    <2>6. NoRunRejectedForAFlag' /\ DiagnosisOfSilence' /\ PassIsOneInterrupt'
      BY <1>14 DEF IInv, TypeOK, InSuite, TimerState, FlagsKept, SampleState,
          Counted, NoRunRejectedForAFlag, DiagnosisOfSilence,
          PassIsOneInterrupt, Ended, Suites, Kept, Marked, ToEnable, ToUnmask,
          ToArmed, Closing, FINISHED, FAILED, TIMER_ARMED, TRAP_OBSERVED,
          VSETVL_ENTERED, VSETVL_COMPLETED, FinishCheck, Advance, Reject,
          After, timerVars
    <2>7. TimerOffIsOneInterrupt'
      BY <1>14 DEF IInv, TypeOK, InSuite, TimerState, TimerOffIsOneInterrupt,
          ToEnable, ToUnmask, Suites, Advance, Reject, FinishCheck, timerVars
    <2> QED BY <2>1, <2>2, <2>3, <2>4, <2>5, <2>6, <2>7 DEF IInv
  <1>15. CASE Return
    <2>1. TypeOK'
      BY <1>15 DEF IInv, TypeOK, Statements, Probes, Codes, Sets, Suites,
          Return, Advance, After, timerVars
    <2>2. InSuite'
      BY <1>15 DEF IInv, TypeOK, InSuite, Suites, Sets, Return, Advance,
          After, timerVars
    <2>3. TimerState'
      BY <1>15 DEF IInv, TypeOK, InSuite, TimerState, ToEnable, ToUnmask,
          Suites, Return, Advance, After, timerVars
    <2>4. FlagsKept'
      BY <1>15 DEF IInv, TypeOK, InSuite, TimerState, FlagsKept, Kept, Marked,
          ToArmed, ToUnmask, ToEnable, Closing, Suites, FINISHED, FAILED,
          TIMER_ARMED, TRAP_OBSERVED, VSETVL_ENTERED, VSETVL_COMPLETED,
          Return, Advance, After, timerVars
    <2>5. SampleState' /\ Counted'
      BY <1>15 DEF IInv, TypeOK, InSuite, TimerState, SampleState, Counted,
          ToArmed, ToUnmask, ToEnable, Closing, Probes, Suites, Return,
          Advance, After, timerVars
    <2>6. NoRunRejectedForAFlag' /\ DiagnosisOfSilence' /\ PassIsOneInterrupt'
      BY <1>15 DEF IInv, TypeOK, InSuite, TimerState, FlagsKept, SampleState,
          Counted, NoRunRejectedForAFlag, DiagnosisOfSilence,
          PassIsOneInterrupt, Ended, Suites, Kept, Marked, ToEnable, ToUnmask,
          ToArmed, Closing, FINISHED, FAILED, TIMER_ARMED, TRAP_OBSERVED,
          VSETVL_ENTERED, VSETVL_COMPLETED, Return, Advance, After, timerVars
    <2>7. TimerOffIsOneInterrupt'
      BY <1>15 DEF IInv, TypeOK, InSuite, TimerState, TimerOffIsOneInterrupt,
          ToEnable, ToUnmask, Suites, Advance, Reject, Return, timerVars
    <2> QED BY <2>1, <2>2, <2>3, <2>4, <2>5, <2>6, <2>7 DEF IInv
  <1>16. CASE Tick
    <2>1. TypeOK'
      BY <1>16 DEF IInv, TypeOK, Statements, Probes, Codes, Sets, Tick,
          mainVars
    <2>2. InSuite'
      BY <1>16 DEF IInv, TypeOK, InSuite, Suites, Sets, Tick, mainVars
    <2>3. TimerState'
      BY <1>16 DEF IInv, TypeOK, InSuite, TimerState, ToEnable, ToUnmask,
          Suites, Tick, mainVars
    <2>4. FlagsKept'
      BY <1>16 DEF IInv, TypeOK, InSuite, TimerState, FlagsKept, Kept, Marked,
          ToArmed, ToUnmask, ToEnable, Closing, Suites, FINISHED, FAILED,
          TIMER_ARMED, TRAP_OBSERVED, VSETVL_ENTERED, VSETVL_COMPLETED, Tick,
          mainVars
    <2>5. SampleState' /\ Counted'
      BY <1>16 DEF IInv, TypeOK, InSuite, TimerState, SampleState, Counted,
          ToArmed, ToUnmask, ToEnable, Closing, Probes, Suites, Tick, mainVars
    <2>6. NoRunRejectedForAFlag' /\ DiagnosisOfSilence' /\ PassIsOneInterrupt'
      BY <1>16 DEF IInv, InSuite, NoRunRejectedForAFlag, DiagnosisOfSilence,
          PassIsOneInterrupt, Ended, Tick, mainVars
    <2>7. TimerOffIsOneInterrupt'
      BY <1>16 DEF IInv, TypeOK, InSuite, TimerState, TimerOffIsOneInterrupt,
          ToEnable, ToUnmask, Suites, Tick, mainVars
    <2> QED BY <2>1, <2>2, <2>3, <2>4, <2>5, <2>6, <2>7 DEF IInv
  <1>17. CASE Interrupt
    <2>1. TypeOK'
      <3>1. due' \in BOOLEAN /\ mie' \in BOOLEAN
        BY <1>17 DEF IInv, TypeOK, Interrupt, DueAfter
      <3>2. count' \in 0..MaxTraps /\ flags' \subseteq Flags
        BY <1>17 DEF IInv, TypeOK, Flags, Interrupt
      <3> QED BY <1>17, <3>1, <3>2 DEF IInv, TypeOK, Interrupt, mainVars
    <2>2. InSuite'
      BY <1>17 DEF IInv, TypeOK, InSuite, Suites, Sets, Interrupt,
          DueAfter, Deliverable, mainVars
    <2>3. TimerState'
      BY <1>17 DEF IInv, TypeOK, InSuite, TimerState, ToEnable, ToUnmask,
          Suites, Interrupt, DueAfter, Deliverable, mainVars
    <2>4. FlagsKept'
      BY <1>17 DEF IInv, TypeOK, InSuite, TimerState, FlagsKept, Kept, Marked,
          ToArmed, ToUnmask, ToEnable, Closing, Suites, FINISHED, FAILED,
          TIMER_ARMED, TRAP_OBSERVED, VSETVL_ENTERED, VSETVL_COMPLETED,
          Interrupt, DueAfter, Deliverable, mainVars
    <2>5. SampleState' /\ Counted'
      BY <1>17 DEF IInv, TypeOK, InSuite, TimerState, SampleState, Counted,
          ToArmed, ToUnmask, ToEnable, Closing, Probes, Suites, Interrupt,
          DueAfter, Deliverable, mainVars
    <2>6. NoRunRejectedForAFlag' /\ DiagnosisOfSilence' /\ PassIsOneInterrupt'
      BY <1>17 DEF IInv, InSuite, NoRunRejectedForAFlag, DiagnosisOfSilence,
          PassIsOneInterrupt, Ended, Interrupt, DueAfter, Deliverable, mainVars
    <2>7. TimerOffIsOneInterrupt'
      BY <1>17 DEF IInv, TypeOK, InSuite, TimerState, TimerOffIsOneInterrupt,
          ToEnable, ToUnmask, Suites, DueAfter,
          Deliverable, Interrupt, mainVars
    <2> QED BY <2>1, <2>2, <2>3, <2>4, <2>5, <2>6, <2>7 DEF IInv
  <1>18. CASE UNCHANGED vars
    <2>1. TypeOK'
      BY <1>18 DEF IInv, TypeOK, Statements, Probes, Codes, Sets, vars,
          mainVars, timerVars
    <2>2. InSuite'
      BY <1>18 DEF IInv, TypeOK, InSuite, Suites, Sets, vars, mainVars,
          timerVars
    <2>3. TimerState'
      BY <1>18 DEF IInv, TypeOK, InSuite, TimerState, ToEnable, ToUnmask,
          Suites, vars, mainVars, timerVars
    <2>4. FlagsKept'
      BY <1>18 DEF IInv, TypeOK, InSuite, TimerState, FlagsKept, Kept, Marked,
          ToArmed, ToUnmask, ToEnable, Closing, Suites, FINISHED, FAILED,
          TIMER_ARMED, TRAP_OBSERVED, VSETVL_ENTERED, VSETVL_COMPLETED, vars,
          mainVars, timerVars
    <2>5. SampleState' /\ Counted'
      BY <1>18 DEF IInv, TypeOK, InSuite, TimerState, SampleState, Counted,
          ToArmed, ToUnmask, ToEnable, Closing, Probes, Suites, vars,
          mainVars, timerVars
    <2>6. NoRunRejectedForAFlag' /\ DiagnosisOfSilence' /\ PassIsOneInterrupt'
      BY <1>18 DEF IInv, NoRunRejectedForAFlag, DiagnosisOfSilence,
          PassIsOneInterrupt, Ended, vars, mainVars, timerVars
    <2>7. TimerOffIsOneInterrupt'
      BY <1>18 DEF IInv, TimerOffIsOneInterrupt, vars, mainVars, timerVars
    <2> QED BY <2>1, <2>2, <2>3, <2>4, <2>5, <2>6, <2>7 DEF IInv
  <1> QED BY <1>1, <1>2, <1>3, <1>4, <1>5, <1>6, <1>7, <1>8, <1>9, <1>10,
        <1>11, <1>12, <1>13, <1>14, <1>15, <1>16, <1>17, <1>18 DEF Next, Main

\* So the inductive invariant holds in every reachable state.
LEMMA InductiveInvariant == Spec => []IInv
  BY InitIInv, StepIInv, PTL DEF Spec

\* The state of the hart and of env keeps its types.
THEOREM TypeCorrect == Spec => []TypeOK
  <1>1. IInv => TypeOK
    BY DEF IInv
  <1> QED BY <1>1, InductiveInvariant, PTL

\* However the interrupt falls between load and store, no check rejects a run
\* for a flag.
THEOREM FlagsNeverBlamed == Spec => []NoRunRejectedForAFlag
  <1>1. IInv => NoRunRejectedForAFlag
    BY DEF IInv
  <1> QED BY <1>1, InductiveInvariant, PTL

\* The wait loop gives none of its impossible explanations.
THEOREM SilenceDiagnosed == Spec => []DiagnosisOfSilence
  <1>1. IInv => DiagnosisOfSilence
    BY DEF IInv
  <1> QED BY <1>1, InductiveInvariant, PTL

\* A passing interrupt_response run took exactly one interrupt.
THEOREM PassProvesInterrupt == Spec => []PassIsOneInterrupt
  <1>1. IInv => PassIsOneInterrupt
    BY DEF IInv
  <1> QED BY <1>1, InductiveInvariant, PTL

\* A timer that is off has been switched off by the one interrupt of the run.
THEOREM OffOnlyOnce == Spec => []TimerOffIsOneInterrupt
  <1>1. IInv => TimerOffIsOneInterrupt
    BY DEF IInv
  <1> QED BY <1>1, InductiveInvariant, PTL
=============================================================================
