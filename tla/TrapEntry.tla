------------------------------ MODULE TrapEntry ------------------------------
(***************************************************************************)
(* xsrt_trap_entry of trap.S, register by register, under the scalar load  *)
(* suite: a misaligned lw that the core may refuse, with a timer interrupt *)
(* around it.  The value main keeps in a register is written as the name   *)
(* of the register.  a1 stands for a1-a3, which are spilled alike, and t2  *)
(* and s0 for the registers that are only saved and loaded.                *)
(***************************************************************************)
EXTENDS Naturals

Registers == {"a0", "a1", "t0", "t1", "t2", "s0", "sp"}
CallerSaved == {"a0", "a1", "t0", "t1", "t2"}

\* A register holds the name of the register whose value of main it is, or
\* what is not main's: "state" (&g_timer_state), "frame" (main's sp - 288),
\* "unset" (never written by the program) or "tmp" (an intermediate result).

VARIABLES
    \* fixed when the program was written, compiled and started
    setup,           \* which of stimer and strap main installs
    handler,         \* g_s_trap_handler: none, resume or skip
    base,            \* register the compiler chose for the address of lw
    refuses,         \* whether the core traps on a misaligned lw
    \* the hart
    pc,
    regs,
    mscratch,
    mepc,
    mcause,
    due,             \* the one-shot timer has not fired yet
    \* memory
    spilled,         \* what is stored at a0 + SCRATCH_A1
    frame,           \* the frame: gpr by name, and epc
    wild,            \* a store went through an address nobody had set up
    value,           \* what lw has put into its destination
    code             \* what main returned

fixedVars == <<setup, handler, base, refuses>>
hartVars == <<pc, regs, mscratch, mepc, mcause, due>>
vars == <<fixedVars, hartVars, spilled, frame, wild, value, code>>

MainPcs == {"install", "load", "check", "end"}

\* start.S leaves mscratch and mtvec alone; so does main before "install".
Init ==
    /\ setup \in (SUBSET {"stimer", "strap"}) \ {{}}
    /\ handler \in IF "strap" \in setup THEN {"none", "resume", "skip"} ELSE {"none"}
    /\ base \in Registers \ {"sp"}
    /\ refuses \in BOOLEAN
    /\ pc = "install"
    /\ regs = [r \in Registers |-> r]
    /\ mscratch = "unset"
    /\ mepc = "install"
    /\ mcause = "none"
    /\ due = FALSE
    /\ spilled = "unset"
    /\ frame = [gpr |-> [r \in Registers |-> "unset"], epc |-> "install"]
    /\ wild = FALSE
    /\ value = "unset"
    /\ code = 0

----------------------------------------------------------------------------
(* main *)

\* xsrt_enable_stimer sets mscratch and mtvec and arm_timer arms a one-shot;
\* xsrt_install_strap sets the handler and mtvec, and not mscratch.
Install ==
    /\ pc = "install"
    /\ pc' = "load"
    /\ mscratch' = IF "stimer" \in setup THEN "state" ELSE mscratch
    /\ due' = ("stimer" \in setup)
    /\ UNCHANGED <<fixedVars, regs, mepc, mcause, spilled, frame, wild, value, code>>

\* The core takes a trap: interrupts are masked until mret.
Trap(cause) ==
    /\ mcause' = cause
    /\ mepc' = pc
    /\ pc' = "swap"

\* unaligned_load_run.  Through sp, which is aligned, lw never traps.
Load ==
    /\ pc = "load"
    /\ \/ /\ refuses /\ regs[base] = base
          /\ Trap("misaligned")
          /\ UNCHANGED value
       \/ /\ ~refuses \/ regs[base] # base
          /\ value' = IF regs[base] = base THEN "loaded" ELSE "other"
          /\ pc' = "check"
          /\ UNCHANGED <<mepc, mcause>>
    /\ UNCHANGED <<fixedVars, regs, mscratch, due, spilled, frame, wild, code>>

\* check_scalar_load_legality_check; 43 compares a copy of the same value, and
\* 41 needs the flag of arm_timer lost, which no interrupt can do.
Check ==
    /\ pc = "check"
    /\ code' = IF value = "loaded" THEN 0 ELSE 42
    /\ pc' = "end"
    /\ UNCHANGED <<fixedVars, regs, mscratch, mepc, mcause, due, spilled, frame,
                   wild, value>>

\* The timer interrupt, between any two statements of main.
Timer ==
    /\ pc \in {"load", "check"}
    /\ due
    /\ Trap("timer")
    /\ UNCHANGED <<fixedVars, regs, mscratch, due, spilled, frame, wild, value, code>>

----------------------------------------------------------------------------
(* xsrt_trap_entry *)

Goto(there) == pc' = there /\ UNCHANGED <<mepc, mcause, due>>

\* csrrw a0, mscratch, a0
SwapA0 ==
    /\ regs' = [regs EXCEPT !["a0"] = mscratch]
    /\ mscratch' = regs["a0"]

Swap ==
    /\ pc = "swap"
    /\ SwapA0
    /\ Goto("spill")
    /\ UNCHANGED <<fixedVars, spilled, frame, wild, value, code>>

\* An access through a0: when that is not g_timer_state, the address may
\* also be one the core refuses, and the trap entry traps.
AccessFault ==
    /\ regs["a0"] # "state"
    /\ Trap("fault")
    /\ UNCHANGED <<fixedVars, regs, mscratch, due, spilled, frame, wild, value, code>>

\* sd a1, SCRATCH_A1(a0) and its neighbours
Spill ==
    /\ pc = "spill"
    /\ \/ AccessFault
       \/ /\ spilled' = regs["a1"]
          /\ wild' = (wild \/ regs["a0"] # "state")
          /\ Goto("branch")
          /\ UNCHANGED <<fixedVars, regs, mscratch, frame, value, code>>

\* csrr a1, mcause; li a2; bne
Branch ==
    /\ pc = "branch"
    /\ regs' = [regs EXCEPT !["a1"] = "tmp"]
    /\ Goto(IF mcause = "timer" THEN "timer" ELSE "unspill")
    /\ UNCHANGED <<fixedVars, mscratch, spilled, frame, wild, value, code>>

\* The body of the timer path; a one-shot clears MTIE.
HandleTimer ==
    /\ pc = "timer"
    /\ due' = FALSE
    /\ pc' = "unspill"
    /\ UNCHANGED <<fixedVars, regs, mscratch, mepc, mcause, spilled, frame, wild,
                   value, code>>

\* Mutated Unspill: the generic path saves the frame without it.
UnspillTimerOnly ==
    /\ pc = "unspill"
    /\ regs' = [regs EXCEPT !["a1"] = IF mcause = "timer" THEN spilled ELSE @]
    /\ Goto("unswap")
    /\ UNCHANGED <<fixedVars, mscratch, spilled, frame, wild, value, code>>

\* ld a1, SCRATCH_A1(a0) and its neighbours, on either path
Unspill ==
    /\ pc = "unspill"
    /\ \/ AccessFault
       \/ /\ regs' = [regs EXCEPT !["a1"] = spilled]
          /\ Goto("unswap")
          /\ UNCHANGED <<fixedVars, mscratch, spilled, frame, wild, value, code>>

\* Mutated Unswap: only the timer path gives mscratch back.
UnswapTimerOnly ==
    /\ pc = "unswap"
    /\ IF mcause = "timer" THEN SwapA0
       ELSE regs' = [regs EXCEPT !["a0"] = mscratch] /\ UNCHANGED mscratch
    /\ Goto(IF mcause = "timer" THEN mepc ELSE "save")
    /\ UNCHANGED <<fixedVars, spilled, frame, wild, value, code>>

\* csrrw a0, mscratch, a0, and mret on the timer path
Unswap ==
    /\ pc = "unswap"
    /\ SwapA0
    /\ Goto(IF mcause = "timer" THEN mepc ELSE "save")
    /\ UNCHANGED <<fixedVars, spilled, frame, wild, value, code>>

\* Mutated Save: t0 is used for the CSRs before it is saved.
SaveT0Late ==
    /\ pc = "save"
    /\ frame' = [gpr |-> [regs EXCEPT !["t0"] = "tmp"], epc |-> mepc]
    /\ regs' = [regs EXCEPT !["sp"] = "frame", !["t0"] = "tmp", !["a0"] = "frame"]
    /\ Goto("dispatch")
    /\ UNCHANGED <<fixedVars, mscratch, spilled, wild, value, code>>

\* The frame is pushed: every register but sp, then sp as it was, then the
\* CSRs through t0; a0 points to the frame.
Save ==
    /\ pc = "save"
    /\ frame' = [gpr |-> regs, epc |-> mepc]
    /\ regs' = [regs EXCEPT !["sp"] = "frame", !["t0"] = "tmp", !["a0"] = "frame"]
    /\ Goto("dispatch")
    /\ UNCHANGED <<fixedVars, mscratch, spilled, wild, value, code>>

\* xsrt_dispatch_strap: without a handler the frame comes back as it is; a
\* handler returns it as it is, or past the lw that trapped.  The C code keeps
\* s0 and sp and may leave anything in the other registers.
Dispatch ==
    /\ pc = "dispatch"
    /\ regs' = [r \in Registers |->
                   IF r = "a0" THEN "frame"
                   ELSE IF r \in CallerSaved THEN "tmp" ELSE regs[r]]
    /\ frame' = IF handler = "skip" /\ mcause = "misaligned"
                THEN [frame EXCEPT !.epc = "check"] ELSE frame
    /\ Goto("restore")
    /\ UNCHANGED <<fixedVars, mscratch, spilled, wild, value, code>>

\* Mutated Restore: mepc is not written back.
RestoreOldEpc ==
    /\ pc = "restore"
    /\ regs' = [frame.gpr EXCEPT !["t1"] = frame.gpr["sp"]]
    /\ pc' = mepc
    /\ UNCHANGED <<fixedVars, mscratch, mepc, mcause, due, spilled, frame, wild,
                   value, code>>

\* mepc and the registers come from the frame, sp last and through t1, which
\* was restored before; mret.
Restore ==
    /\ pc = "restore"
    /\ regs' = [frame.gpr EXCEPT !["t1"] = frame.gpr["sp"]]
    /\ mepc' = frame.epc
    /\ pc' = frame.epc
    /\ UNCHANGED <<fixedVars, mscratch, mcause, due, spilled, frame, wild, value, code>>

Entry ==
    \/ Swap \/ Spill \/ Branch \/ HandleTimer \/ Unspill \/ Unswap
    \/ Save \/ Dispatch \/ Restore

Next == Install \/ Load \/ Check \/ Timer \/ Entry

\* The hart goes on executing instructions.
Spec == Init /\ [][Next]_vars /\ WF_vars(Next)

----------------------------------------------------------------------------
(* Properties *)

\* With the timer enabled the entry never stores or loads through an address
\* it does not own, on the first trap and on every one after it: both paths
\* give mscratch back.  xsrt_install_strap alone does not have this.
ScratchIsOwned ==
    wild \/ mcause = "fault" => "stimer" \notin setup

\* A trap is invisible to the code it interrupts, with one exception: the
\* generic path hands back t1 holding sp.  After timer interrupts alone not
\* even t1 is lost, so TimerRuntime may take the interrupt as one step.
TrapIsTransparent ==
    "stimer" \in setup /\ pc \in MainPcs =>
        \A r \in Registers :
            \/ regs[r] = r
            \/ r = "t1" /\ regs[r] = "sp" /\ refuses

\* A core that refuses the misaligned load is not blamed for a wrong value,
\* unless a handler skips the load, or the compiler put the address into t1:
\* then the retried lw reads the stack and the check returns 42.
WrongValueNeedsT1OrSkip ==
    code # 0 => refuses /\ (base = "t1" \/ handler = "skip")

\* A refused load that no handler skips is never got past, the address in any
\* register but t1: main traps again and again until the cycle limit.
RefusedLoadIsNeverPassed ==
    refuses /\ handler # "skip" /\ base # "t1" => pc \notin {"check", "end"}

\* Main comes to its end when the load is not refused or is skipped by a
\* handler, the timer interrupting it wherever it likes; otherwise a refused
\* load is the last thing it does.
MainEndsUnlessRefused ==
    /\ []("stimer" \in setup /\ (~refuses \/ handler = "skip") => <>(pc = "end"))
    /\ []RefusedLoadIsNeverPassed
=============================================================================
