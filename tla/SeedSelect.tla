------------------------------ MODULE SeedSelect ------------------------------
(***************************************************************************)
(* The seeds of a batch: normalize_seeds turns --seed, --seeds or          *)
(* --seed-range into the tuple of seeds RunBatch calls 1..N.  An argument  *)
(* is text: several spellings may be one integer, and one seed.            *)
(***************************************************************************)
EXTENDS Integers, Sequences

CONSTANTS
    Arguments,       \* what the command line may say
    Texts,           \* the pieces arguments are made of
    IntOf,           \* IntOf[t]: int(t), or NotAnInteger when that raises
    NotAnInteger

\* parts are what lies between the commas, or colons.  There is always one:
\* the empty argument is one empty piece, of which int makes nothing.
Argument == [form : {"seed", "seeds", "range"}, parts : Seq(Texts) \ {<<>>}]

ASSUME SeedSelectAssumption ==
    /\ Arguments \subseteq Argument
    /\ NotAnInteger \notin Int
    /\ IntOf \in [Texts -> Int \cup {NotAnInteger}]

VARIABLES
    arg,             \* the argument
    seeds,           \* the seeds taken from it
    answer           \* "accepted", "rejected", or "reading"

seedVars == <<arg, seeds, answer>>

SeedInit ==
    /\ arg \in Arguments
    /\ seeds = <<>>
    /\ answer = "reading"

\* _require_non_negative_seed(int(part)) returns.
IsSeed(part) == IntOf[part] \in Nat

Reject == answer' = "rejected" /\ UNCHANGED <<arg, seeds>>

Reading(forms) == answer = "reading" /\ arg.form \in forms

\* Mutated TakeSeed: the texts are compared, not what int makes of them.
TakeSeedComparesTexts ==
    /\ Reading({"seed", "seeds"})
    /\ Len(seeds) < Len(arg.parts)
    /\ LET part == arg.parts[Len(seeds) + 1] IN
         IF IsSeed(part) /\ \A i \in DOMAIN seeds : arg.parts[i] # part
         THEN seeds' = Append(seeds, IntOf[part]) /\ UNCHANGED <<arg, answer>>
         ELSE Reject

\* One turn of the loop over the list; a single seed is a list of one.
TakeSeed ==
    /\ Reading({"seed", "seeds"})
    /\ Len(seeds) < Len(arg.parts)
    /\ LET part == arg.parts[Len(seeds) + 1] IN
         IF IsSeed(part) /\ \A i \in DOMAIN seeds : seeds[i] # IntOf[part]
         THEN seeds' = Append(seeds, IntOf[part]) /\ UNCHANGED <<arg, answer>>
         ELSE Reject

EndOfList ==
    /\ Reading({"seed", "seeds"})
    /\ Len(seeds) = Len(arg.parts)
    /\ answer' = "accepted"
    /\ UNCHANGED <<arg, seeds>>

\* Mutated TakeRange: the last seed is left out.
TakeRangeHalfOpen ==
    /\ Reading({"range"})
    /\ IF /\ Len(arg.parts) = 2
          /\ IsSeed(arg.parts[1]) /\ IsSeed(arg.parts[2])
          /\ IntOf[arg.parts[1]] <= IntOf[arg.parts[2]]
       THEN /\ seeds' = [i \in 1..(IntOf[arg.parts[2]] - IntOf[arg.parts[1]]) |->
                           IntOf[arg.parts[1]] + i - 1]
            /\ answer' = "accepted"
            /\ UNCHANGED arg
       ELSE Reject

\* first:last, both ends included.
TakeRange ==
    /\ Reading({"range"})
    /\ IF /\ Len(arg.parts) = 2
          /\ IsSeed(arg.parts[1]) /\ IsSeed(arg.parts[2])
          /\ IntOf[arg.parts[1]] <= IntOf[arg.parts[2]]
       THEN /\ seeds' = [i \in 1..(IntOf[arg.parts[2]] - IntOf[arg.parts[1]] + 1) |->
                           IntOf[arg.parts[1]] + i - 1]
            /\ answer' = "accepted"
            /\ UNCHANGED arg
       ELSE Reject

SeedNext == TakeSeed \/ EndOfList \/ TakeRange

SeedSpec == SeedInit /\ [][SeedNext]_seedVars

----------------------------------------------------------------------------
(* Properties *)

SeedTypeOK ==
    /\ arg \in Arguments
    /\ seeds \in Seq(Nat)
    /\ answer \in {"reading", "accepted", "rejected"}

\* No two seeds of a batch are equal, however the argument spells them: each
\* has a directory seed_<n> and an entry of entries_by_seed to itself, which
\* is what RunBatch builds on.
SeedsAreDistinct ==
    \A i, j \in DOMAIN seeds : seeds[i] = seeds[j] => i = j

\* Nothing the user asked for is missing and nothing is added: every seed of
\* the argument runs, in the argument's order.
EverySeedAskedFor ==
    answer = "accepted" =>
        /\ seeds # <<>>
        /\ IF arg.form = "range"
           THEN {seeds[i] : i \in DOMAIN seeds} = IntOf[arg.parts[1]]..IntOf[arg.parts[2]]
           ELSE seeds = [i \in DOMAIN arg.parts |-> IntOf[arg.parts[i]]]
=============================================================================
