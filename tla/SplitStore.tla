------------------------------ MODULE SplitStore ------------------------------
(***************************************************************************)
(* misaligned_split_store_search: rounds of stores and probes over the     *)
(* slots of an arena, on a core that keeps its stores in a queue and       *)
(* forwards from it.  A probe reads the high fragment of a store that      *)
(* straddles a cache line, and nothing else must ever be written there.    *)
(***************************************************************************)
EXTENDS Naturals, Sequences, FiniteSets

CONSTANTS
    Slots,           \* slots of the arena, 8 in the code
    Starts,          \* values of (seed >> 24) & 7
    Rounds,          \* values of 2 + ((seed >> 16) & 7)
    QueueSize        \* stores the core can hold back

ASSUME SplitStoreAssumption ==
    /\ Slots \in Nat \ {0}
    /\ Starts \subseteq 0..(Slots - 1)
    /\ Rounds \subseteq Nat \ {0}
    /\ QueueSize \in Nat \ {0}

SlotSize == 4096
Fragment == 64                \* offset of the high fragment of target A

\* Mutated TargetB: B lies where A does.
TargetBOnA == 0

TargetB == 2048

Store(offset, value) == [op |-> "store", at |-> offset, value |-> value]
Probe == [op |-> "probe"]

\* Mutated ZeroTargets: the high fragment of A is taken for cleared.
ZeroLowOnly ==
    <<Store(Fragment - 8, "zero"), Store(TargetB + Fragment - 8, "zero")>>

ZeroTargets ==
    <<Store(Fragment - 8, "zero"), Store(Fragment, "zero"),
      Store(TargetB + Fragment - 8, "zero"), Store(TargetB + Fragment, "zero")>>

FillBurst == [i \in 1..16 |-> Store(128 + 64 * (i - 1), "fill")]

\* One round; the skids in between only pass time.
Round ==
    ZeroTargets \o FillBurst \o
    <<Store(Fragment - 1, "target"), Probe, Probe,
      Store(TargetB + Fragment - 1, "blocker"), Probe, Probe>>

VARIABLES
    start, rounds,   \* what the seed says
    core,            \* "correct", or "faulty": it may miss a forward
    round, at,       \* position of the search
    queue,           \* stores not yet in memory, oldest first
    memory,          \* memory[s]: what the high fragment of slot s holds
    mismatch,        \* a probe of this round saw something else
    hidden,          \* a probe missed the forward and still saw the target
    completed,       \* XS_SPLIT_STORE_FLAG_COMPLETED
    code             \* what the program returned, "none" while it runs

vars == <<start, rounds, core, round, at, queue, memory, mismatch, hidden,
          completed, code>>
seedVars == <<start, rounds, core>>

\* start.S does not clear .bss, and the fragments hold anything but targets.
Init ==
    /\ start \in Starts
    /\ rounds \in Rounds
    /\ core \in {"correct", "faulty"}
    /\ round = 0
    /\ at = 1
    /\ queue = <<>>
    /\ memory = [s \in 0..(Slots - 1) |-> "unset"]
    /\ mismatch = FALSE
    /\ hidden = FALSE
    /\ completed = FALSE
    /\ code = "none"

----------------------------------------------------------------------------
(* The core *)

\* Whether an eight-byte store touches the seven bytes probed in slot s.
Touches(store, s) ==
    LET first == SlotSize * s + Fragment IN
    store.at + 8 > first /\ store.at < first + 7

\* The oldest store leaves the queue.
Drain ==
    /\ queue # <<>>
    /\ memory' = [s \in DOMAIN memory |->
                     IF Touches(Head(queue), s) THEN Head(queue).value ELSE memory[s]]
    /\ queue' = Tail(queue)
    /\ UNCHANGED <<seedVars, round, at, mismatch, hidden, completed, code>>

\* What a load from slot s may find, by age: 0 is memory, and i the i-th
\* store of the queue, when it touches the slot.
Versions(s) == {0} \cup {i \in DOMAIN queue : Touches(queue[i], s)}

Version(s, i) == IF i = 0 THEN memory[s] ELSE queue[i].value

Newest(s, i) == i \in Versions(s) /\ \A j \in Versions(s) : j <= i

----------------------------------------------------------------------------
(* The search *)

Slot == (round + start) % Slots
Running == code = "none" /\ round < rounds

\* The store at position p of the round, made to slot s.
Placed(p, s) == [Round[p] EXCEPT !.at = SlotSize * s + @]

IssueStore ==
    /\ Running
    /\ at \in DOMAIN Round /\ Round[at].op = "store"
    /\ Len(queue) < QueueSize
    /\ queue' = Append(queue, Placed(at, Slot))
    /\ at' = at + 1
    /\ UNCHANGED <<seedVars, round, memory, mismatch, hidden, completed, code>>

\* The stores this round has issued.
StoresBefore(p) == Cardinality({i \in 1..(p - 1) : Round[i].op = "store"})
Issued == StoresBefore(at)

\* Those that have left the queue include the zeroing.
ZeroingDrained == Issued >= Len(queue) + Len(ZeroTargets)

\* lwu, lhu and lbu of the fragment: the newest version each, or with a
\* faulty core an older one, not the same for all three.
ProbeFragment ==
    /\ Running
    /\ at \in DOMAIN Round /\ Round[at].op = "probe"
    /\ \E lwu, lhu, lbu \in Versions(Slot) :
         LET seen == {lwu, lhu, lbu}
             hit == \A i \in seen : Version(Slot, i) = "target"
             missed == \E i \in seen : ~Newest(Slot, i)
         IN
         /\ core = "correct" => ~missed
         /\ mismatch' = (mismatch \/ ~hit)
         /\ hidden' = (hidden \/ (hit /\ missed /\ ZeroingDrained))
    /\ at' = at + 1
    /\ UNCHANGED <<seedVars, round, queue, memory, completed, code>>

\* Mutated EndRound: the round counter is masked like the slot.
EndRoundMasked ==
    /\ Running
    /\ at \notin DOMAIN Round
    /\ IF mismatch THEN code' = "101" /\ UNCHANGED <<round, at>>
       ELSE round' = (round + 1) % Slots /\ at' = 1 /\ UNCHANGED code
    /\ UNCHANGED <<seedVars, queue, memory, mismatch, hidden, completed>>

\* The comparison of all the probes ends the search or the round.
EndRound ==
    /\ Running
    /\ at \notin DOMAIN Round
    /\ IF mismatch THEN code' = "101" /\ UNCHANGED <<round, at>>
       ELSE round' = round + 1 /\ at' = 1 /\ UNCHANGED code
    /\ UNCHANGED <<seedVars, queue, memory, mismatch, hidden, completed>>

Complete ==
    /\ code = "none" /\ round >= rounds /\ ~completed
    /\ completed' = TRUE
    /\ UNCHANGED <<seedVars, round, at, queue, memory, mismatch, hidden, code>>

\* check_misaligned_split_store_search: 111 and 112 need a lost flag, and
\* shadow CSR 8 holds the number of rounds.
Check ==
    /\ code = "none" /\ completed
    /\ code' = IF rounds = 0 THEN "113" ELSE "0"
    /\ UNCHANGED <<seedVars, round, at, queue, memory, mismatch, hidden, completed>>

Search == IssueStore \/ ProbeFragment \/ EndRound \/ Complete \/ Check

Next == Search \/ Drain

\* The hart executes, and the store queue drains.
Spec == Init /\ [][Next]_vars /\ WF_vars(Search) /\ WF_vars(Drain)

----------------------------------------------------------------------------
(* Properties *)

\* A core that forwards correctly is never accused, in whatever order its
\* stores drain, also when the slots come round again: fill burst, blocker,
\* low fragment and the stores to other slots leave the probed bytes alone.
CorrectCoreIsNeverAccused ==
    core = "correct" => code # "101" /\ ~mismatch

\* A probe that missed the forward is seen for what it is, once the zeroing
\* of its round has reached memory: it cannot find the equal bytes an earlier
\* round left in the slot.
MissIsNotHidden == ~hidden

\* Every search comes to its verdict, the slots coming round or not.
VerdictIsReached == <>(code # "none")
=============================================================================
