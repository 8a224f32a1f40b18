--------------------------- MODULE TrapEntryProofs ---------------------------
(***************************************************************************)
(* Proofs about TrapEntry, for every way main may be written, compiled and *)
(* started, interrupted wherever and as often as the hart likes.           *)
(***************************************************************************)
EXTENDS TrapEntry, TLAPS

EntryPcs ==
    {"swap", "spill", "branch", "timer", "unspill", "unswap", "save",
     "dispatch", "restore"}

\* The entry's statements between its two swaps of a0, and after the frame.
Swapped == {"spill", "branch", "timer", "unspill", "unswap"}
Framed == {"dispatch", "restore"}

Contents == Registers \cup {"state", "frame", "unset", "tmp"}
Causes == {"none", "timer", "misaligned", "fault"}
Interrupted == {"install", "load", "check", "spill", "unspill"}

TypeOK ==
    /\ setup \in SUBSET {"stimer", "strap"}
    /\ handler \in {"none", "resume", "skip"}
    /\ base \in Registers \ {"sp"}
    /\ refuses \in BOOLEAN
    /\ pc \in MainPcs \cup EntryPcs
    /\ regs \in [Registers -> Contents]
    /\ mscratch \in Contents
    /\ mepc \in Interrupted
    /\ mcause \in Causes
    /\ due \in BOOLEAN
    /\ spilled \in Contents
    /\ frame \in [gpr : [Registers -> Contents], epc : Interrupted]
    /\ wild \in BOOLEAN
    /\ value \in {"unset", "loaded", "other"}
    /\ code \in {0, 42}

\* What mscratch holds while main runs.
Home == IF "stimer" \in setup THEN "state" ELSE "unset"

\* A register file is main's, but for the registers lost: t1 alone may hold sp.
Mains(file, lost) ==
    \A r \in Registers \ lost :
        file[r] = r \/ (r = "t1" /\ file[r] = "sp" /\ refuses)

\* Where main's registers are while the entry runs; a trap inside the entry,
\* which only comes without g_timer_state in mscratch, loses them.
RegistersFound ==
    mcause # "fault" =>
        /\ pc \in MainPcs \cup {"swap", "save"} => Mains(regs, {})
        /\ pc \in Swapped =>
              /\ Mains(regs, {"a0", "a1"})
              /\ regs["a0"] = Home
              /\ mscratch = "a0"
        /\ pc \notin Swapped => mscratch = IF pc = "install" THEN "unset" ELSE Home
        /\ pc \in {"spill", "unswap"} => regs["a1"] = "a1"
        /\ pc \in {"branch", "timer", "unspill"} => spilled = "a1"
        /\ pc \in Framed => Mains(frame.gpr, {})

\* The cause of the trap being handled, and where it returns to.
TrapKnown ==
    /\ pc \in EntryPcs => mcause # "none"
    /\ pc = "timer" => mcause = "timer"
    /\ pc \in Framed \cup {"save"} => mcause # "timer"
    /\ mcause = "misaligned" => refuses
    /\ pc \in EntryPcs /\ mcause = "timer" => mepc \in {"load", "check"}
    /\ pc \in EntryPcs /\ mcause = "misaligned" => mepc = "load"
    /\ pc \in Framed /\ mcause = "misaligned" =>
          frame.epc = "load" \/ (handler = "skip" /\ frame.epc = "check")

\* A trap inside the entry is never left: main is not reached again.
FaultIsFinal ==
    mcause = "fault" =>
        /\ pc \in EntryPcs
        /\ mepc \in {"spill", "unspill"}
        /\ pc \in Framed => frame.epc \in {"spill", "unspill"}

\* Main is past its load only with the value loaded or with cause for blame.
Blamed == refuses /\ (base = "t1" \/ handler = "skip")
PastLoad == pc = "check" \/ (pc \in EntryPcs /\ mepc = "check")

ValueExplained ==
    /\ PastLoad => value = "loaded" \/ Blamed
    /\ PastLoad \/ pc = "end" => ~refuses \/ Blamed
    /\ code # 0 => Blamed

IInv ==
    /\ TypeOK
    /\ RegistersFound
    /\ TrapKnown
    /\ FaultIsFinal
    /\ ScratchIsOwned
    /\ ValueExplained

\* start.S leaves main's registers alone, and no trap has been taken yet.
LEMMA InitIInv == Init => IInv
  <1> SUFFICES ASSUME Init PROVE IInv
    OBVIOUS
  <1> USE DEF Init, MainPcs, EntryPcs, Swapped, Framed
  <1>1. TypeOK
    BY DEF TypeOK, Contents, Causes, Interrupted, Registers
  <1>2. RegistersFound
    BY DEF RegistersFound, Mains
  <1>3. TrapKnown /\ FaultIsFinal /\ ScratchIsOwned
    BY DEF TrapKnown, FaultIsFinal, ScratchIsOwned
  <1>4. ValueExplained
    BY DEF ValueExplained, PastLoad
  <1> QED BY <1>1, <1>2, <1>3, <1>4 DEF IInv

\* Every instruction leaves something of its type.
LEMMA StepType == TypeOK /\ [Next]_vars => TypeOK'
  <1> SUFFICES ASSUME TypeOK, [Next]_vars PROVE TypeOK'
    OBVIOUS
  <1> USE DEF TypeOK, MainPcs, EntryPcs, fixedVars, Goto
  <1>1. /\ {"load", "check", "spill", "unspill"} \subseteq Interrupted
        /\ {"timer", "misaligned", "fault"} \subseteq Causes
        /\ {"state", "frame", "tmp"} \subseteq Contents
        /\ {"a0", "a1", "t0", "t1", "sp"} \subseteq Registers
    BY DEF Interrupted, Causes, Contents, Registers
  <1>2. CASE Install
    BY <1>1, <1>2 DEF Install
  <1>3. CASE Load
    BY <1>1, <1>3 DEF Load, Trap
  <1>4. CASE Check
    BY <1>4 DEF Check
  <1>5. CASE Timer
    BY <1>1, <1>5 DEF Timer, Trap
  <1>6. CASE Swap
    BY <1>1, <1>6 DEF Swap, SwapA0
  <1>7. CASE Spill
    <2>1. CASE AccessFault
      BY <1>1, <1>7, <2>1 DEF Spill, AccessFault, Trap
    <2>2. CASE ~AccessFault
      <3>1. spilled' \in Contents
        BY <1>1, <1>7, <2>2 DEF Spill
      <3>2. wild' \in BOOLEAN
        BY <1>7, <2>2 DEF Spill
      <3> QED BY <1>7, <2>2, <3>1, <3>2 DEF Spill
    <2> QED BY <2>1, <2>2
  <1>8. CASE Branch
    BY <1>1, <1>8 DEF Branch
  <1>9. CASE HandleTimer
    BY <1>9 DEF HandleTimer
  <1>10. CASE Unspill
    <2>1. CASE AccessFault
      BY <1>1, <1>10, <2>1 DEF Unspill, AccessFault, Trap
    <2>2. CASE ~AccessFault
      <3>1. regs' \in [Registers -> Contents]
        BY <1>1, <1>10, <2>2 DEF Unspill
      <3> QED BY <1>10, <2>2, <3>1 DEF Unspill
    <2> QED BY <2>1, <2>2
  <1>11. CASE Unswap
    <2>1. regs' \in [Registers -> Contents] /\ mscratch' \in Contents
      BY <1>1, <1>11 DEF Unswap, SwapA0
    <2>2. pc' \in MainPcs \cup EntryPcs
      BY <1>11 DEF Unswap, Interrupted
    <2> QED BY <1>11, <2>1, <2>2 DEF Unswap
  <1>12. CASE Save
    BY <1>1, <1>12 DEF Save
  <1>13. CASE Dispatch
    BY <1>1, <1>13 DEF Dispatch
  <1>14. CASE Restore
    <2>1. frame.gpr \in [Registers -> Contents] /\ frame.epc \in Interrupted
      OBVIOUS
    <2>2. regs' \in [Registers -> Contents]
      BY <1>1, <1>14, <2>1 DEF Restore
    <2>3. pc' \in MainPcs \cup EntryPcs
      BY <1>14, <2>1 DEF Restore, Interrupted
    <2> QED BY <1>14, <2>1, <2>2, <2>3 DEF Restore
  <1>15. CASE UNCHANGED vars
    BY <1>15 DEF vars, hartVars
  <1> QED
    BY <1>2, <1>3, <1>4, <1>5, <1>6, <1>7, <1>8, <1>9, <1>10, <1>11, <1>12,
       <1>13, <1>14, <1>15 DEF Next, Entry

\* Every instruction leaves main's registers where the next one looks for
\* them.
LEMMA StepRegisters == IInv /\ [Next]_vars => RegistersFound'
  <1> SUFFICES ASSUME TypeOK, RegistersFound, TrapKnown, FaultIsFinal, [Next]_vars
               PROVE  RegistersFound'
    BY DEF IInv
  <1> USE DEF TypeOK, RegistersFound, TrapKnown, FaultIsFinal, Home, Mains, MainPcs,
              EntryPcs, Swapped, Framed, Registers, fixedVars, Goto, Trap, SwapA0,
              AccessFault
  <1>1. CASE Install
    BY <1>1 DEF Install
  <1>2. CASE Load
    BY <1>2 DEF Load
  <1>3. CASE Check
    BY <1>3 DEF Check
  <1>4. CASE Timer
    BY <1>4 DEF Timer
  <1>5. CASE Swap
    BY <1>5 DEF Swap
  <1>6. CASE Spill
    BY <1>6 DEF Spill
  <1>7. CASE Branch
    BY <1>7 DEF Branch
  <1>8. CASE HandleTimer
    BY <1>8 DEF HandleTimer
  <1>9. CASE Unspill
    BY <1>9 DEF Unspill
  <1>10. CASE Unswap
    BY <1>10 DEF Unswap
  <1>11. CASE Save
    BY <1>11 DEF Save
  <1>12. CASE Dispatch
    BY <1>12 DEF Dispatch
  <1>13. CASE Restore
    <2>1. mcause \in {"misaligned", "fault"}
      BY <1>13 DEF Restore, Causes
    <2>2. CASE mcause = "misaligned"
      <3>1. pc' \in {"load", "check"} /\ refuses' /\ mscratch' = Home'
        BY <1>13, <2>2 DEF Restore
      <3>2. Mains(frame.gpr, {}) /\ frame.gpr \in [Registers -> Contents]
        BY <1>13, <2>2 DEF Restore
      <3>3. Mains(regs, {})'
        BY <1>13, <3>1, <3>2 DEF Restore
      <3> QED BY <3>1, <3>3
    <2>3. CASE mcause = "fault"
      BY <1>13, <2>3 DEF Restore
    <2> QED BY <2>1, <2>2, <2>3
  <1>14. CASE UNCHANGED vars
    BY <1>14 DEF vars, hartVars
  <1> QED
    BY <1>1, <1>2, <1>3, <1>4, <1>5, <1>6, <1>7, <1>8, <1>9, <1>10, <1>11, <1>12, <1>13, <1>14 DEF Next, Entry

\* The cause and the way back stay known, on either path.
LEMMA StepTrap == IInv /\ [Next]_vars => TrapKnown'
  <1> SUFFICES ASSUME TypeOK, TrapKnown, FaultIsFinal, [Next]_vars
               PROVE  TrapKnown'
    BY DEF IInv
  <1> USE DEF TypeOK, TrapKnown, FaultIsFinal, MainPcs, EntryPcs, Framed,
              fixedVars, Goto, Trap, SwapA0, AccessFault
  <1>1. CASE Install
    BY <1>1 DEF Install
  <1>2. CASE Load
    BY <1>2 DEF Load
  <1>3. CASE Check
    BY <1>3 DEF Check
  <1>4. CASE Timer
    BY <1>4 DEF Timer
  <1>5. CASE Swap
    BY <1>5 DEF Swap
  <1>6. CASE Spill
    BY <1>6 DEF Spill
  <1>7. CASE Branch
    BY <1>7 DEF Branch
  <1>8. CASE HandleTimer
    BY <1>8 DEF HandleTimer
  <1>9. CASE Unspill
    BY <1>9 DEF Unspill
  <1>10. CASE Unswap
    BY <1>10 DEF Unswap
  <1>11. CASE Save
    BY <1>11 DEF Save
  <1>12. CASE Dispatch
    BY <1>12 DEF Dispatch
  <1>13. CASE Restore
    <2>1. mcause \in {"misaligned", "fault"}
      BY <1>13 DEF Restore, Causes
    <2>2. CASE mcause = "misaligned"
      BY <1>13, <2>2 DEF Restore
    <2>3. CASE mcause = "fault"
      BY <1>13, <2>3 DEF Restore
    <2> QED BY <2>1, <2>2, <2>3
  <1>14. CASE UNCHANGED vars
    BY <1>14 DEF vars, hartVars
  <1> QED
    BY <1>1, <1>2, <1>3, <1>4, <1>5, <1>6, <1>7, <1>8, <1>9, <1>10, <1>11, <1>12, <1>13, <1>14 DEF Next, Entry

\* Handling a trap of the entry comes back into the entry.
LEMMA StepFault == IInv /\ [Next]_vars => FaultIsFinal'
  <1> SUFFICES ASSUME TypeOK, TrapKnown, FaultIsFinal, [Next]_vars
               PROVE  FaultIsFinal'
    BY DEF IInv
  <1> USE DEF TypeOK, TrapKnown, FaultIsFinal, MainPcs, EntryPcs, Framed, fixedVars,
              Goto, Trap, SwapA0, AccessFault
  <1>1. CASE Install
    BY <1>1 DEF Install
  <1>2. CASE Load
    BY <1>2 DEF Load
  <1>3. CASE Check
    BY <1>3 DEF Check
  <1>4. CASE Timer
    BY <1>4 DEF Timer
  <1>5. CASE Swap
    BY <1>5 DEF Swap
  <1>6. CASE Spill
    BY <1>6 DEF Spill
  <1>7. CASE Branch
    BY <1>7 DEF Branch
  <1>8. CASE HandleTimer
    BY <1>8 DEF HandleTimer
  <1>9. CASE Unspill
    BY <1>9 DEF Unspill
  <1>10. CASE Unswap
    BY <1>10 DEF Unswap
  <1>11. CASE Save
    BY <1>11 DEF Save
  <1>12. CASE Dispatch
    BY <1>12 DEF Dispatch
  <1>13. CASE Restore
    BY <1>13 DEF Restore
  <1>14. CASE UNCHANGED vars
    BY <1>14 DEF vars, hartVars
  <1> QED
    BY <1>1, <1>2, <1>3, <1>4, <1>5, <1>6, <1>7, <1>8, <1>9, <1>10, <1>11, <1>12, <1>13, <1>14 DEF Next, Entry

\* The entry goes through a0 only while it holds what mscratch held for main.
LEMMA StepScratch == IInv /\ [Next]_vars => ScratchIsOwned'
  <1> SUFFICES ASSUME TypeOK, RegistersFound, ScratchIsOwned, [Next]_vars
               PROVE  ScratchIsOwned'
    BY DEF IInv
  <1> USE DEF TypeOK, RegistersFound, ScratchIsOwned, Home, Swapped, fixedVars, Goto,
              Trap, SwapA0, AccessFault
  <1>1. CASE Install
    BY <1>1 DEF Install
  <1>2. CASE Load
    BY <1>2 DEF Load
  <1>3. CASE Check
    BY <1>3 DEF Check
  <1>4. CASE Timer
    BY <1>4 DEF Timer
  <1>5. CASE Swap
    BY <1>5 DEF Swap
  <1>6. CASE Spill
    BY <1>6 DEF Spill
  <1>7. CASE Branch
    BY <1>7 DEF Branch
  <1>8. CASE HandleTimer
    BY <1>8 DEF HandleTimer
  <1>9. CASE Unspill
    BY <1>9 DEF Unspill
  <1>10. CASE Unswap
    BY <1>10 DEF Unswap
  <1>11. CASE Save
    BY <1>11 DEF Save
  <1>12. CASE Dispatch
    BY <1>12 DEF Dispatch
  <1>13. CASE Restore
    BY <1>13 DEF Restore
  <1>14. CASE UNCHANGED vars
    BY <1>14 DEF vars, hartVars
  <1> QED
    BY <1>1, <1>2, <1>3, <1>4, <1>5, <1>6, <1>7, <1>8, <1>9, <1>10, <1>11, <1>12, <1>13, <1>14 DEF Next, Entry

\* Only an address in t1 or a handler gets main past a refused load.
LEMMA StepValue == IInv /\ [Next]_vars => ValueExplained'
  <1> SUFFICES ASSUME TypeOK, RegistersFound, TrapKnown, FaultIsFinal, ValueExplained, [Next]_vars
               PROVE  ValueExplained'
    BY DEF IInv
  <1> USE DEF TypeOK, RegistersFound, TrapKnown, FaultIsFinal, ValueExplained,
              PastLoad, Blamed, Mains, MainPcs, EntryPcs, Framed, fixedVars, Goto,
              Trap, SwapA0, AccessFault
  <1>1. CASE Install
    BY <1>1 DEF Install
  <1>2. CASE Load
    BY <1>2 DEF Load
  <1>3. CASE Check
    BY <1>3 DEF Check
  <1>4. CASE Timer
    BY <1>4 DEF Timer
  <1>5. CASE Swap
    BY <1>5 DEF Swap
  <1>6. CASE Spill
    BY <1>6 DEF Spill
  <1>7. CASE Branch
    BY <1>7 DEF Branch
  <1>8. CASE HandleTimer
    BY <1>8 DEF HandleTimer
  <1>9. CASE Unspill
    BY <1>9 DEF Unspill
  <1>10. CASE Unswap
    BY <1>10 DEF Unswap
  <1>11. CASE Save
    BY <1>11 DEF Save
  <1>12. CASE Dispatch
    BY <1>12 DEF Dispatch
  <1>13. CASE Restore
    <2>1. mcause \in {"misaligned", "fault"}
      BY <1>13 DEF Restore, Causes
    <2>2. CASE mcause = "misaligned"
      BY <1>13, <2>2 DEF Restore
    <2>3. CASE mcause = "fault"
      BY <1>13, <2>3 DEF Restore
    <2> QED BY <2>1, <2>2, <2>3
  <1>14. CASE UNCHANGED vars
    BY <1>14 DEF vars, hartVars
  <1> QED
    BY <1>1, <1>2, <1>3, <1>4, <1>5, <1>6, <1>7, <1>8, <1>9, <1>10, <1>11, <1>12, <1>13, <1>14 DEF Next, Entry

LEMMA InductiveInvariant == Spec => []IInv
  <1>1. IInv /\ [Next]_vars => IInv'
    BY StepType, StepRegisters, StepTrap, StepFault, StepScratch, StepValue DEF IInv
  <1> QED BY InitIInv, <1>1, PTL DEF Spec

----------------------------------------------------------------------------

\* Everything the entry keeps has its type, on every path.
THEOREM TypeCorrect == Spec => []TypeOK
  <1>1. IInv => TypeOK
    BY DEF IInv
  <1> QED BY InductiveInvariant, <1>1, PTL

\* With the timer enabled no store or load of xsrt_trap_entry misses
\* g_timer_state, however often it is entered: mscratch holds it again
\* whenever main runs, on the timer path and on the generic one.
THEOREM ScratchOwned == Spec => []ScratchIsOwned
  <1>1. IInv => ScratchIsOwned
    BY DEF IInv
  <1> QED BY InductiveInvariant, <1>1, PTL

\* Main finds its registers as it left them after any number of traps, but
\* for t1, which the generic path may hand back as sp.
THEOREM Transparent == Spec => []TrapIsTransparent
  <1>1. IInv => TrapIsTransparent
    <2> SUFFICES ASSUME IInv, "stimer" \in setup, pc \in MainPcs,
                        NEW r \in Registers
                 PROVE  regs[r] = r \/ (r = "t1" /\ regs[r] = "sp" /\ refuses)
      BY DEF TrapIsTransparent
    <2>1. mcause # "fault"
      BY DEF IInv, ScratchIsOwned
    <2>2. Mains(regs, {})
      BY <2>1 DEF IInv, RegistersFound
    <2> QED BY <2>2 DEF Mains
  <1> QED BY InductiveInvariant, <1>1, PTL

\* The check blames a core for a wrong value only when it refused the load
\* and the address was in t1 or a handler skipped the load.
THEOREM WrongValueExplained == Spec => []WrongValueNeedsT1OrSkip
  <1>1. IInv => WrongValueNeedsT1OrSkip
    BY DEF IInv, ValueExplained, Blamed, WrongValueNeedsT1OrSkip
  <1> QED BY InductiveInvariant, <1>1, PTL

\* The safety half of MainEndsUnlessRefused: without a handler that skips it,
\* and with the address in any register but t1, a refused load is never got
\* past.
THEOREM RefusedForGood == Spec => []RefusedLoadIsNeverPassed
  <1>1. IInv => RefusedLoadIsNeverPassed
    BY DEF IInv, ValueExplained, Blamed, PastLoad, RefusedLoadIsNeverPassed
  <1> QED BY InductiveInvariant, <1>1, PTL
=============================================================================
