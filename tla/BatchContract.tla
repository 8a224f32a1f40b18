--------------------------- MODULE BatchContract ---------------------------
(***************************************************************************)
(* What `snippetgen run` promises for a batch id that may be run again and *)
(* again: in every run each requested seed is settled at most once, as     *)
(* "ran" only after a program was executed for it in this very run, and    *)
(* the ledger is published only over a complete set of settled seeds.  A   *)
(* run may be abandoned, and then it publishes nothing.                    *)
(***************************************************************************)
EXTENDS Naturals

CONSTANTS
    Seeds,           \* the seeds of the batch
    Status,          \* how a seed can be settled
    Ran,             \* the status that counts as a success
    Pending          \* the mark of a seed that is not settled

VARIABLES
    run,             \* number of the newest run
    settled,         \* settled[s]: status of s in this run, or Pending
    executed,        \* seeds whose program was executed in this run
    ledger           \* [run, status] as last published, run 0 for none

contractVars == <<run, settled, executed, ledger>>

Unsettled == [s \in Seeds |-> Pending]

ContractInit ==
    /\ run = 0
    /\ settled = Unsettled
    /\ executed = {}
    /\ ledger = [run |-> 0, status |-> Unsettled]

\* A new run starts over; the ledger of an earlier run is still there.
OpenRun ==
    /\ run' = run + 1
    /\ settled' = Unsettled
    /\ executed' = {}
    /\ UNCHANGED ledger

Execute(s) ==
    /\ settled[s] = Pending
    /\ executed' = executed \cup {s}
    /\ UNCHANGED <<run, settled, ledger>>

Settle(s, st) ==
    /\ settled[s] = Pending
    /\ st = Ran => s \in executed
    /\ settled' = [settled EXCEPT ![s] = st]
    /\ UNCHANGED <<run, executed, ledger>>

PublishLedger ==
    /\ ledger.run # run
    /\ \A s \in Seeds : settled[s] # Pending
    /\ ledger' = [run |-> run, status |-> settled]
    /\ UNCHANGED <<run, settled, executed>>

\* An interrupted write leaves no readable ledger.
LoseLedger ==
    /\ ledger' = [run |-> 0, status |-> Unsettled]
    /\ UNCHANGED <<run, settled, executed>>

ContractNext ==
    \/ OpenRun \/ PublishLedger \/ LoseLedger
    \/ \E s \in Seeds : Execute(s) \/ \E st \in Status : Settle(s, st)

ContractSpec == ContractInit /\ [][ContractNext]_contractVars
=============================================================================
