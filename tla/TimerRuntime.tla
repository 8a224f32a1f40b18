---------------------------- MODULE TimerRuntime ----------------------------
(***************************************************************************)
(* The generated test program on the bare hart: main() of the harness runs *)
(* the snippets of a timer suite over env while the machine timer          *)
(* interrupt, handled by xsrt_trap_entry, may come between any two         *)
(* instructions.  The handler runs with interrupts off, so it is one step; *)
(* main is cut wherever the handler shares what it reads and writes.       *)
(***************************************************************************)
EXTENDS Integers

CONSTANTS
    Spins,           \* XS_INTERRUPT_WAIT_SPINS, 1024 in the code
    MaxTraps         \* bound on the interrupts of a run

ASSUME TimerAssumption ==
    /\ Spins \in Nat \ {0}
    /\ MaxTraps \in Nat \ {0}

\* The bits of env->flags, by position.  VSETVL's bit is the handler's.
FINISHED == 0
FAILED == 1
TIMER_ARMED == 4
TRAP_OBSERVED == 5
VSETVL_ENTERED == 5
VSETVL_COMPLETED == 6
Flags == {FINISHED, FAILED, TIMER_ARMED, TRAP_OBSERVED, VSETVL_COMPLETED}

Suites == {"interrupt_response", "vsetvl_path", "vsetvl_search"}

\* The read-modify-writes of env->flags: the bits each of them sets.
Sets ==
    [mark |-> {TIMER_ARMED, VSETVL_ENTERED},
     armed |-> {TIMER_ARMED},
     observed |-> {TRAP_OBSERVED},
     entered |-> {VSETVL_ENTERED},
     completed |-> {VSETVL_COMPLETED},
     finish |-> {FINISHED},
     unfail |-> {}]

VARIABLES
    suite,           \* the suite the harness was generated for
    pc,              \* statement of main, "ended" when it has returned
    loaded,          \* whether the flags are in reg, to be written back
    reg,
    flags,           \* env->flags
    count,           \* env->interrupt_count; cause and epc are set with it
    stimer,          \* g_stimer_enabled
    periodic,        \* g_timer_state.periodic
    mie,             \* mie.MTIE
    mstatus,         \* mstatus.MIE as main sees it
    due,             \* mtime >= mtimecmp, which is what mip.MTIP shows
    spin,            \* iterations of the wait loop done
    probe,           \* statement of the wait loop
    sample,          \* last_mstatus, last_mie, last_mip, time >= compare
    code             \* what main returned

mainVars == <<pc, loaded, reg, spin, probe, sample, code>>
timerVars == <<stimer, periodic, mie, mstatus, due>>
vars == <<suite, mainVars, flags, count, timerVars>>

Statements ==
    (DOMAIN Sets) \cup {"clear", "enable", "unmask", "period", "compare", "wait",
                     "check", "finish_check", "return"}
Probes == {"count", "mie", "mip", "time"}
Codes == {0, 31} \cup 61..63 \cup 71..75 \cup 81..83 \cup 91..94
NoSample == [mstatus |-> FALSE, mie |-> FALSE, mip |-> FALSE, due |-> FALSE]

\* Nothing in the runtime initialises mtimecmp: the timer may be due from
\* the start.
Init ==
    /\ suite \in Suites
    /\ pc = "clear"
    /\ loaded = FALSE
    /\ reg = {}
    /\ flags = {}
    /\ count = 0
    /\ stimer = FALSE
    /\ periodic = FALSE
    /\ mie = FALSE
    /\ mstatus = FALSE
    /\ due \in BOOLEAN
    /\ spin = 0
    /\ probe = "count"
    /\ sample = NoSample
    /\ code = 0

----------------------------------------------------------------------------
(* main *)

\* The order of the statements: the snippets of each suite's YAML, and the
\* statements of each snippet.  The vsetvl loops touch nothing shared: an
\* interrupt inside one falls between its two neighbours.
After ==
    [clear |-> IF suite = "vsetvl_search" THEN "mark" ELSE "enable",
     mark |-> "enable",
     enable |-> "unmask",
     unmask |-> "period",
     period |-> "compare",
     compare |-> IF suite = "vsetvl_search" THEN "completed" ELSE "armed",
     armed |-> IF suite = "interrupt_response" THEN "wait" ELSE "entered",
     wait |-> "observed",
     observed |-> "check",
     entered |-> "completed",
     completed |-> "check",
     check |-> "finish_check",
     finish_check |-> "finish",
     finish |-> "unfail",
     unfail |-> "return",
     return |-> "ended"]

Advance ==
    /\ pc' = After[pc]
    /\ UNCHANGED <<suite, loaded, reg, spin, probe, sample, code>>

\* A snippet returned rc # 0: xsrt_finish_fail, and main returns rc.  Nobody
\* reads the flags again, so its read-modify-write is one step.
Reject(rc) ==
    /\ flags' = flags \cup {FINISHED, FAILED}
    /\ code' = rc
    /\ pc' = "ended"
    /\ UNCHANGED <<suite, loaded, reg, spin, probe, sample>>

\* init_basic_env
Clear ==
    /\ pc = "clear"
    /\ flags' = {}
    /\ Advance
    /\ UNCHANGED <<count, timerVars>>

\* Mutated Enable: csrs mie is forgotten.
EnableNoMtie ==
    /\ pc = "enable"
    /\ stimer' = TRUE
    /\ Advance
    /\ UNCHANGED <<flags, count, periodic, mie, mstatus, due>>

\* xsrt_enable_stimer up to csrs mie; no interrupt can come before it.
Enable ==
    /\ pc = "enable"
    /\ stimer' = TRUE
    /\ mie' = TRUE
    /\ Advance
    /\ UNCHANGED <<flags, count, periodic, mstatus, due>>

\* csrs mstatus: from here on the handler may run.
Unmask ==
    /\ pc = "unmask"
    /\ mstatus' = TRUE
    /\ Advance
    /\ UNCHANGED <<flags, count, stimer, periodic, mie, due>>

\* xsrt_timer_arm_delta and xsrt_timer_arm_periodic_delta: first the state
\* the handler reads ...
SetPeriod ==
    /\ pc = "period"
    /\ periodic' = IF stimer THEN suite = "vsetvl_search" ELSE periodic
    /\ Advance
    /\ UNCHANGED <<flags, count, stimer, mie, mstatus, due>>

\* ... and then mtimecmp, from an mtime read before: 8 to 15 ticks on may
\* already be past.
WriteCompare ==
    /\ pc = "compare"
    /\ due' \in IF stimer THEN BOOLEAN ELSE {due}
    /\ Advance
    /\ UNCHANGED <<flags, count, stimer, periodic, mie, mstatus>>

\* env->flags |= bits: a load ...
LoadFlags ==
    /\ pc \in DOMAIN Sets
    /\ ~loaded
    /\ reg' = flags
    /\ loaded' = TRUE
    /\ UNCHANGED <<suite, pc, spin, probe, sample, code, flags, count, timerVars>>

\* ... and a store, which undoes what the handler set in between.
StoreFlags ==
    /\ pc \in DOMAIN Sets
    /\ loaded
    /\ flags' = IF pc = "unfail" THEN reg \ {FAILED} ELSE reg \cup Sets[pc]
    /\ loaded' = FALSE
    /\ pc' = After[pc]
    /\ UNCHANGED <<suite, reg, spin, probe, sample, code, count, timerVars>>

\* Mutated PollCount: the loop succeeds without setting TRAP_OBSERVED.
PollCountOnly ==
    /\ pc = "wait"
    /\ probe = "count"
    /\ spin < Spins
    /\ \/ count # 0 /\ pc' = "check" /\ probe' = probe
       \/ count = 0 /\ pc' = pc /\ probe' = "mie"
    /\ UNCHANGED <<suite, loaded, reg, spin, sample, code>>
    /\ UNCHANGED <<flags, count, timerVars>>

\* Mutated PollCount: the loop runs once too often.
PollCountOnceMore ==
    /\ pc = "wait"
    /\ probe = "count"
    /\ spin <= Spins
    /\ \/ count # 0 /\ pc' = After[pc] /\ probe' = probe
       \/ count = 0 /\ pc' = pc /\ probe' = "mie"
    /\ UNCHANGED <<suite, loaded, reg, spin, sample, code>>
    /\ UNCHANGED <<flags, count, timerVars>>

\* interrupt_response_wait: has the handler counted?
PollCount ==
    /\ pc = "wait"
    /\ probe = "count"
    /\ spin < Spins
    /\ \/ count # 0 /\ pc' = After[pc] /\ probe' = probe
       \/ count = 0 /\ pc' = pc /\ probe' = "mie"
    /\ UNCHANGED <<suite, loaded, reg, spin, sample, code>>
    /\ UNCHANGED <<flags, count, timerVars>>

\* The three samples of an iteration.  mstatus.MIE does not change while
\* main runs, so it is read with mie.
ReadMie ==
    /\ pc = "wait"
    /\ probe = "mie"
    /\ sample' = [sample EXCEPT !.mstatus = mstatus, !.mie = mie]
    /\ probe' = "mip"
    /\ UNCHANGED <<suite, pc, loaded, reg, spin, code, flags, count, timerVars>>

ReadMip ==
    /\ pc = "wait"
    /\ probe = "mip"
    /\ sample' = [sample EXCEPT !.mip = due]
    /\ probe' = "time"
    /\ UNCHANGED <<suite, pc, loaded, reg, spin, code, flags, count, timerVars>>

\* Mutated ReadTime: the loop variable is not incremented.
ReadTimeForever ==
    /\ pc = "wait"
    /\ probe = "time"
    /\ sample' = [sample EXCEPT !.due = due]
    /\ probe' = "count"
    /\ UNCHANGED <<suite, pc, loaded, reg, spin, code, flags, count, timerVars>>

ReadTime ==
    /\ pc = "wait"
    /\ probe = "time"
    /\ sample' = [sample EXCEPT !.due = due]
    /\ probe' = "count"
    /\ spin' = spin + 1
    /\ UNCHANGED <<suite, pc, loaded, reg, code, flags, count, timerVars>>

\* The code the last samples explain the silence with.
Diagnosis ==
    CASE ~sample.mstatus -> 73
      [] sample.mstatus /\ ~sample.mie -> 74
      [] sample.mstatus /\ sample.mie /\ ~sample.due -> 75
      [] sample.mstatus /\ sample.mie /\ sample.due /\ sample.mip -> 72
      [] OTHER -> 71

GiveUp ==
    /\ pc = "wait"
    /\ probe = "count"
    /\ spin = Spins
    /\ Reject(Diagnosis)
    /\ UNCHANGED <<count, timerVars>>

\* The codes a suite's own check may return, of which the least is.  The
\* conditions are read in this order; what the handler adds meanwhile only
\* helps, so reading them at once gives the same codes.
ResponseObjections ==
    {c \in 81..83 : \/ c = 81 /\ TIMER_ARMED \notin flags
                    \/ c = 82 /\ TRAP_OBSERVED \notin flags
                    \/ c = 83 /\ count = 0}

PathObjections ==
    {c \in 61..63 : \/ c = 61 /\ TIMER_ARMED \notin flags
                    \/ c = 62 /\ VSETVL_ENTERED \notin flags
                    \/ c = 63 /\ VSETVL_COMPLETED \notin flags}

SearchObjections ==
    {c \in 91..94 : \/ c = 91 /\ TIMER_ARMED \notin flags
                    \/ c = 92 /\ VSETVL_ENTERED \notin flags
                    \/ c = 93 /\ VSETVL_COMPLETED \notin flags
                    \/ c = 94 /\ count = 0}

Objections ==
    CASE suite = "interrupt_response" -> ResponseObjections
      [] suite = "vsetvl_path"        -> PathObjections
      [] suite = "vsetvl_search"      -> SearchObjections

Check ==
    /\ pc = "check"
    /\ \/ Objections = {} /\ Advance /\ flags' = flags
       \/ \E c \in Objections : (\A d \in Objections : c <= d) /\ Reject(c)
    /\ UNCHANGED <<count, timerVars>>

FinishCheck ==
    /\ pc = "finish_check"
    /\ \/ FAILED \notin flags /\ Advance /\ flags' = flags
       \/ FAILED \in flags /\ Reject(31)
    /\ UNCHANGED <<count, timerVars>>

\* xsrt_finish_pass is over: main returns 0.
Return ==
    /\ pc = "return"
    /\ Advance
    /\ UNCHANGED <<flags, count, timerVars>>

Main ==
    \/ Clear \/ Enable \/ Unmask \/ SetPeriod \/ WriteCompare
    \/ LoadFlags \/ StoreFlags
    \/ PollCount \/ ReadMie \/ ReadMip \/ ReadTime \/ GiveUp
    \/ Check \/ FinishCheck \/ Return

----------------------------------------------------------------------------
(* The hardware *)

\* mtime reaches mtimecmp.
Tick ==
    /\ pc # "ended"
    /\ ~due
    /\ due' = TRUE
    /\ UNCHANGED <<suite, mainVars, flags, count>>
    /\ UNCHANGED <<stimer, periodic, mie, mstatus>>

\* The interrupt is taken: the guard is the privileged architecture's.
Deliverable == mie /\ mstatus /\ due

\* The handler's write of mtimecmp: the new deadline may have passed by the
\* time the handler returns.  Without a period mtimecmp stays.
DueAfter == IF periodic THEN BOOLEAN ELSE {due}

\* Mutated Interrupt: the one-shot branch leaves MTIE set.
InterruptAgain ==
    /\ pc # "ended"
    /\ Deliverable
    /\ count < MaxTraps
    /\ count' = count + 1
    /\ flags' = flags \cup {TRAP_OBSERVED}
    /\ due' \in DueAfter
    /\ UNCHANGED <<suite, mainVars, stimer, periodic, mie, mstatus>>

\* Mutated Interrupt: the branch on periodic is the wrong way round.
InterruptInverted ==
    /\ pc # "ended"
    /\ Deliverable
    /\ count < MaxTraps
    /\ count' = count + 1
    /\ flags' = flags \cup {TRAP_OBSERVED}
    /\ due' \in IF periodic THEN {due} ELSE BOOLEAN
    /\ mie' = ~periodic
    /\ UNCHANGED <<suite, mainVars, stimer, periodic, mstatus>>

\* xsrt_trap_entry: count, flag, then re-arm or switch off.  env_ptr was
\* set before mie, so its null test never skips the first half.  It may
\* return with the interrupt deliverable again: MaxTraps bounds the storm.
Interrupt ==
    /\ pc # "ended"
    /\ Deliverable
    /\ count < MaxTraps
    /\ count' = count + 1
    /\ flags' = flags \cup {TRAP_OBSERVED}
    /\ due' \in DueAfter
    /\ mie' = periodic
    /\ UNCHANGED <<suite, mainVars, stimer, periodic, mstatus>>

Next == Main \/ Tick \/ Interrupt

\* The hart goes on executing main: sooner or later a period is longer than
\* the handler, or a one-shot is off.  Nothing makes the timer fire, nor the
\* core take the interrupt.
Spec == Init /\ [][Next]_vars /\ WF_vars(Main)

----------------------------------------------------------------------------
(* Properties *)

Ended(s) == pc = "ended" /\ suite = s

\* Types of the hart's and env's state; spin's range is the bound of the
\* wait loop of interrupt_response_wait.c:41.
TypeOK ==
    /\ suite \in Suites
    /\ pc \in Statements \cup {"ended"}
    /\ loaded \in BOOLEAN
    /\ reg \subseteq Flags
    /\ flags \subseteq Flags
    /\ count \in 0..MaxTraps
    /\ stimer \in BOOLEAN /\ periodic \in BOOLEAN
    /\ mie \in BOOLEAN /\ mstatus \in BOOLEAN /\ due \in BOOLEAN
    /\ spin \in 0..Spins
    /\ probe \in Probes
    /\ sample \in [mstatus : BOOLEAN, mie : BOOLEAN, mip : BOOLEAN, due : BOOLEAN]
    /\ code \in Codes

\* A check's code accuses the core of the missing interrupt or of nothing:
\* main's unprotected |= may erase TRAP_OBSERVED, but no check ever rejects
\* a run for a flag (check_*.c), because interrupt_response_wait.c:43 sets
\* the bit again.
NoRunRejectedForAFlag ==
    pc = "ended" => code \in {0, 94} \cup 71..75

\* What the wait's codes can mean.  73 is impossible; 74, "MTIE is off", is
\* only returned when the handler itself switched it off after the last
\* poll of the count: the interrupt did come.
DiagnosisOfSilence ==
    Ended("interrupt_response") /\ code # 0 =>
        /\ code \in {71, 72, 74, 75}
        /\ code = 74 => count = 1

\* A passing interrupt_response run took exactly one interrupt, and its flag
\* survived to the end: the one-shot handler switched the timer off
\* (trap.S:63-65) and finish_pass did not drop the bit.
PassIsOneInterrupt ==
    Ended("interrupt_response") /\ code = 0 =>
        /\ count = 1
        /\ ~mie
        /\ {TRAP_OBSERVED, TIMER_ARMED, FINISHED} \subseteq flags

\* Only the first interrupt can switch the timer off, and no other follows
\* it (trap.S:53-65 against xsrt_intr.c:42 and :63-76): a search whose period
\* was lost shows an interrupt_count of one, whatever came between enable
\* and arm.
TimerOffIsOneInterrupt == stimer /\ ~mie => count = 1

\* Every run comes to an end, with or without an interrupt: a silent timer
\* is reported, not waited for.
RunEnds == <>(pc = "ended")

\* README.md:106 says of vsetvl_interrupt_search "periodic timer plus dense
\* bundled vsetvl zero, zero, zero search workload": when the suite passes,
\* the periodic timer is still running.
SearchRunsUnderPeriodicTimer ==
    Ended("vsetvl_search") /\ code = 0 => periodic /\ mie

----------------------------------------------------------------------------
(* The inductive invariant behind the safety properties *)

\* Where main has not yet enabled, unmasked, or marked the timer as armed;
\* and what follows the snippets that work.
ToEnable == {"clear", "mark", "enable"}
ToUnmask == ToEnable \cup {"unmask"}
ToArmed == ToUnmask \cup {"period", "compare", "armed"}
Closing == {"check", "finish_check", "finish", "unfail", "return"}

\* Each statement belongs to the suites that execute it.
InSuite ==
    /\ pc = "mark" => suite = "vsetvl_search"
    /\ pc = "armed" => suite # "vsetvl_search"
    /\ pc \in {"wait", "observed"} => suite = "interrupt_response"
    /\ pc = "entered" => suite = "vsetvl_path"
    /\ pc = "completed" => suite # "interrupt_response"
    /\ loaded => pc \in DOMAIN Sets
    /\ pc # "ended" => code = 0

\* What the CSRs say by where main is; a one-shot timer is on until its
\* first interrupt and off for good afterwards.
TimerState ==
    /\ stimer <=> pc \notin ToEnable
    /\ mstatus <=> pc \notin ToUnmask
    /\ count # 0 => mstatus
    /\ mie => stimer
    /\ mie /\ count # 0 => periodic
    /\ suite # "vsetvl_search" =>
          /\ ~periodic
          /\ mie <=> stimer /\ count = 0
          /\ count <= 1

\* The bits main has set so far.
Marked ==
    IF suite = "vsetvl_search"
    THEN IF pc \in {"clear", "mark"} THEN {}
         ELSE {TIMER_ARMED, VSETVL_ENTERED}
    ELSE IF pc \in ToArmed THEN {}
         ELSE IF pc \in {"wait", "observed", "entered"} THEN {TIMER_ARMED}
         ELSE {TIMER_ARMED, TRAP_OBSERVED}

Kept ==
    Marked \cup (IF pc \in Closing /\ suite # "interrupt_response"
                THEN {VSETVL_COMPLETED} ELSE {})
           \cup (IF pc \in {"unfail", "return"} THEN {FINISHED} ELSE {})

\* They are in the flags, and in the copy about to be written back.
FlagsKept ==
    /\ pc # "ended" => Kept \subseteq flags /\ FAILED \notin flags
    /\ loaded => Kept \subseteq reg /\ FAILED \notin reg

\* The loop starts from its beginning; a sample is old news when it says
\* that MTIE is off.
SampleState ==
    /\ pc \in ToArmed => spin = 0 /\ probe = "count"
    /\ pc = "wait" =>
          /\ probe # "count" => spin < Spins
          /\ spin > 0 \/ probe \in {"mip", "time"} =>
                sample.mstatus /\ (~sample.mie => count = 1)

\* Past the wait, the response suite has counted its interrupt.
Counted ==
    suite = "interrupt_response" /\ pc \in Closing \cup {"observed"} =>
        count = 1

IInv ==
    /\ TypeOK
    /\ InSuite
    /\ TimerState
    /\ FlagsKept
    /\ SampleState
    /\ Counted
    /\ NoRunRejectedForAFlag
    /\ DiagnosisOfSilence
    /\ PassIsOneInterrupt
    /\ TimerOffIsOneInterrupt

=============================================================================
