--------------------------- MODULE SeedSelectProofs ---------------------------
(***************************************************************************)
(* Proofs about SeedSelect, alone and as the first part of a command, for  *)
(* every set of invocations and every way texts read as integers.          *)
(***************************************************************************)
EXTENDS Composition, TLAPS

\* The invariant behind SeedsAreDistinct: the seeds taken so far, all of them
\* naturals, are pairwise distinct.
IInv == SeedTypeOK /\ SeedsAreDistinct

\* What a range yields is a sequence of distinct naturals.
LEMMA RangeOfSeeds ==
  ASSUME NEW a \in Nat, NEW b \in Nat, a <= b,
         NEW s, s = [i \in 1..(b - a + 1) |-> a + i - 1]
  PROVE  /\ s \in Seq(Nat)
         /\ \A i, j \in DOMAIN s : s[i] = s[j] => i = j
  <1>1. b - a + 1 \in Nat
    OBVIOUS
  <1>2. \A i \in 1..(b - a + 1) : a + i - 1 \in Nat
    OBVIOUS
  <1>3. s \in [1..(b - a + 1) -> Nat]
    BY <1>2
  <1>4. s \in Seq(Nat)
    BY <1>1, <1>3
  <1>5. \A i, j \in DOMAIN s : s[i] = s[j] => i = j
    OBVIOUS
  <1> QED BY <1>4, <1>5

\* One more seed that equals none of those taken keeps them distinct.
LEMMA AppendDistinct ==
  ASSUME NEW s \in Seq(Nat), NEW n \in Nat,
         \A i, j \in DOMAIN s : s[i] = s[j] => i = j,
         \A i \in DOMAIN s : s[i] # n
  PROVE  /\ Append(s, n) \in Seq(Nat)
         /\ \A i, j \in DOMAIN Append(s, n) :
               Append(s, n)[i] = Append(s, n)[j] => i = j
  <1>1. Append(s, n) \in Seq(Nat) /\ DOMAIN Append(s, n) = 1..(Len(s) + 1)
    OBVIOUS
  <1>2. \A i \in 1..(Len(s) + 1) :
           Append(s, n)[i] = IF i = Len(s) + 1 THEN n ELSE s[i]
    OBVIOUS
  <1>3. DOMAIN s = 1..Len(s)
    OBVIOUS
  <1> QED BY <1>1, <1>2, <1>3

\* Before the first piece is read there is no seed.
LEMMA InitIInv == SeedInit => IInv
  BY DEF SeedInit, IInv, SeedTypeOK, SeedsAreDistinct

\* Each piece of a list, and a range, keeps the invariant.
LEMMA StepIInv == IInv /\ [SeedNext]_seedVars => IInv'
  <1> SUFFICES ASSUME IInv, [SeedNext]_seedVars PROVE IInv'
    OBVIOUS
  <1> USE DEF IInv, SeedTypeOK
  <1>1. CASE TakeSeed
    <2> DEFINE part == arg.parts[Len(seeds) + 1]
    <2>1. Len(seeds) + 1 \in DOMAIN arg.parts /\ arg.parts \in Seq(Texts)
      BY <1>1, SeedSelectAssumption DEF TakeSeed, Argument
    <2>2. part \in Texts
      BY <2>1
    <2>3. CASE IsSeed(part) /\ \A i \in DOMAIN seeds : seeds[i] # IntOf[part]
      <3>1. IntOf[part] \in Nat
        BY <2>2, <2>3 DEF IsSeed
      <3>2. seeds' = Append(seeds, IntOf[part]) /\ UNCHANGED <<arg, answer>>
        BY <1>1, <2>3 DEF TakeSeed
      <3> HIDE DEF part
      <3> QED BY <3>1, <3>2, <2>3, AppendDistinct DEF SeedsAreDistinct
    <2>4. CASE ~(IsSeed(part) /\ \A i \in DOMAIN seeds : seeds[i] # IntOf[part])
      BY <1>1, <2>4 DEF TakeSeed, Reject, SeedsAreDistinct
    <2> QED BY <2>3, <2>4
  <1>2. CASE EndOfList
    BY <1>2 DEF EndOfList, SeedsAreDistinct
  <1>3. CASE TakeRange
    <2> DEFINE first == IntOf[arg.parts[1]]
               last == IntOf[arg.parts[2]]
               isRange == /\ Len(arg.parts) = 2
                          /\ IsSeed(arg.parts[1]) /\ IsSeed(arg.parts[2])
                          /\ first <= last
    <2>1. CASE isRange
      <3>1. arg.parts \in Seq(Texts)
        BY SeedSelectAssumption DEF Argument
      <3>2. arg.parts[1] \in Texts /\ arg.parts[2] \in Texts
        BY <2>1, <3>1
      <3>3. first \in Nat /\ last \in Nat /\ first <= last
        BY <2>1, <3>2 DEF IsSeed
      <3>4. /\ seeds' = [i \in 1..(last - first + 1) |-> first + i - 1]
            /\ answer' = "accepted" /\ UNCHANGED arg
        BY <1>3, <2>1 DEF TakeRange
      <3> HIDE DEF first, last
      <3> QED BY <3>3, <3>4, RangeOfSeeds DEF SeedsAreDistinct
    <2>2. CASE ~isRange
      BY <1>3, <2>2 DEF TakeRange, Reject, SeedsAreDistinct
    <2> QED BY <2>1, <2>2
  <1>4. CASE UNCHANGED seedVars
    BY <1>4 DEF seedVars, SeedsAreDistinct
  <1> QED BY <1>1, <1>2, <1>3, <1>4 DEF SeedNext

\* So it holds in every reachable state of normalize_seeds.
LEMMA InductiveInvariant == SeedSpec => []IInv
  BY InitIInv, StepIInv, PTL DEF SeedSpec

\* The seeds of a command are what normalize_seeds makes of them, so what is
\* invariant there is invariant here.
LEMMA CommandsReadSeeds == Spec => SeedSpec
  <1>1. Init => SeedInit
    BY DEF Init
  <1>2. [Next]_vars => [SeedNext]_seedVars
    BY DEF Next, vars, inputs, ReadSeeds, LoadManifest, ListSnippets, BuildPlan,
       CompileSource, Link, Function, Fini, FiniAfterInit, FiniAfterRun,
       FiniAfterCheck, FiniAtEnd, Unfinished
  <1> QED BY <1>1, <1>2, PTL DEF Spec, SeedSpec

\* No batch has a seed twice: what RunBatch and its contract build on.
THEOREM Distinct == Spec => []SeedsAreDistinct
  <1>1. IInv => SeedsAreDistinct
    BY DEF IInv
  <1> QED BY <1>1, CommandsReadSeeds, InductiveInvariant, PTL

\* How far a list has been taken, and what an accepted range has become.
TakenSoFar ==
    /\ arg.form # "range" =>
          /\ Len(seeds) <= Len(arg.parts)
          /\ \A i \in 1..Len(seeds) : seeds[i] = IntOf[arg.parts[i]]
    /\ answer = "accepted" => EverySeedAskedFor

\* The seeds of a range.
RangeOf(a, b) == [i \in 1..(b - a + 1) |-> a + i - 1]

\* A range of seeds is not empty and has every number of the range.
LEMMA RangeIsWhole ==
  ASSUME NEW a \in Nat, NEW b \in Nat, a <= b
  PROVE  /\ RangeOf(a, b) # <<>>
         /\ {RangeOf(a, b)[i] : i \in DOMAIN RangeOf(a, b)} = a..b
  <1> DEFINE s == RangeOf(a, b)
  <1>1. s \in Seq(Nat) /\ Len(s) = b - a + 1
    BY RangeOfSeeds DEF RangeOf
  <1>2. ASSUME NEW n \in a..b PROVE \E i \in DOMAIN s : s[i] = n
    <2>1. n - a + 1 \in 1..(b - a + 1) /\ s[n - a + 1] = n
      BY <1>2 DEF RangeOf
    <2> QED BY <2>1 DEF RangeOf
  <1>3. ASSUME NEW i \in DOMAIN s PROVE s[i] \in a..b
    BY <1>3 DEF RangeOf
  <1>4. s # <<>>
    BY <1>1
  <1>5. {s[i] : i \in DOMAIN s} = a..b
    <2> HIDE DEF s
    <2> QED BY <1>2, <1>3
  <1> QED BY <1>4, <1>5

\* Every step takes the next piece, the range, or none.
LEMMA StepTakes == IInv /\ TakenSoFar /\ [SeedNext]_seedVars => TakenSoFar'
  <1> SUFFICES ASSUME IInv, TakenSoFar, [SeedNext]_seedVars PROVE TakenSoFar'
    OBVIOUS
  <1> USE DEF IInv, SeedTypeOK
  <1>0. arg.parts \in Seq(Texts) /\ arg.parts # <<>>
    BY SeedSelectAssumption DEF Argument
  <1>1. CASE TakeSeed
    <2> DEFINE part == arg.parts[Len(seeds) + 1]
    <2>1. CASE IsSeed(part) /\ \A i \in DOMAIN seeds : seeds[i] # IntOf[part]
      <3>1. /\ seeds' = Append(seeds, IntOf[part]) /\ UNCHANGED <<arg, answer>>
            /\ answer = "reading" /\ Len(seeds) < Len(arg.parts)
            /\ arg.form # "range"
        BY <1>1, <2>1 DEF TakeSeed, Reading
      <3>2. /\ Len(seeds') = Len(seeds) + 1
            /\ \A i \in 1..(Len(seeds) + 1) :
                  seeds'[i] = IF i = Len(seeds) + 1 THEN IntOf[part] ELSE seeds[i]
        BY <3>1
      <3>3. Len(seeds') <= Len(arg.parts)
        BY <1>0, <3>1, <3>2
      <3>4. \A i \in 1..Len(seeds') : seeds'[i] = IntOf[arg.parts[i]]
        BY <3>1, <3>2 DEF TakenSoFar
      <3> QED BY <3>1, <3>3, <3>4 DEF TakenSoFar
    <2>2. CASE ~(IsSeed(part) /\ \A i \in DOMAIN seeds : seeds[i] # IntOf[part])
      BY <1>1, <2>2 DEF TakeSeed, Reject, TakenSoFar
    <2> QED BY <2>1, <2>2
  <1>2. CASE EndOfList
    <2>1. /\ Len(seeds) = Len(arg.parts) /\ arg.form # "range"
          /\ UNCHANGED <<arg, seeds>>
      BY <1>2 DEF EndOfList, Reading
    <2>2. seeds = [i \in DOMAIN arg.parts |-> IntOf[arg.parts[i]]]
      BY <1>0, <2>1 DEF TakenSoFar
    <2>3. seeds # <<>>
      BY <1>0, <2>1
    <2>4. EverySeedAskedFor'
      BY <2>1, <2>2, <2>3 DEF EverySeedAskedFor
    <2> QED BY <2>1, <2>4 DEF TakenSoFar
  <1>3. CASE TakeRange
    <2> DEFINE first == IntOf[arg.parts[1]]
               last == IntOf[arg.parts[2]]
               isRange == /\ Len(arg.parts) = 2
                          /\ IsSeed(arg.parts[1]) /\ IsSeed(arg.parts[2])
                          /\ first <= last
    <2>1. CASE isRange
      <3>1. arg.parts[1] \in Texts /\ arg.parts[2] \in Texts
        BY <1>0, <2>1
      <3>2. first \in Nat /\ last \in Nat /\ first <= last
        BY <2>1, <3>1 DEF IsSeed
      <3>3. /\ seeds' = [i \in 1..(last - first + 1) |-> first + i - 1]
            /\ UNCHANGED arg /\ arg.form = "range"
        BY <1>3, <2>1 DEF TakeRange, Reading
      <3>4. seeds' = RangeOf(first, last)
        BY <3>3 DEF RangeOf
      <3>5. seeds' # <<>> /\ {seeds'[i] : i \in DOMAIN seeds'} = first..last
        <4> HIDE DEF first, last, IInv, SeedTypeOK
        <4>1. /\ RangeOf(first, last) # <<>>
              /\ {RangeOf(first, last)[i] : i \in DOMAIN RangeOf(first, last)}
                     = first..last
          BY <3>2, RangeIsWhole
        <4> QED BY <3>4, <4>1, Zenon
      <3>6. EverySeedAskedFor'
        BY <3>3, <3>5 DEF EverySeedAskedFor
      <3> QED BY <3>3, <3>6 DEF TakenSoFar
    <2>2. CASE ~isRange
      BY <1>3, <2>2 DEF TakeRange, Reject, TakenSoFar
    <2> QED BY <2>1, <2>2
  <1>4. CASE UNCHANGED seedVars
    BY <1>4 DEF seedVars, TakenSoFar, EverySeedAskedFor
  <1> QED BY <1>1, <1>2, <1>3, <1>4 DEF SeedNext

\* An accepted argument is run as it was written: every seed of it, in order.
THEOREM NoneLeftOut == Spec => []EverySeedAskedFor
  <1>1. SeedInit => TakenSoFar
    <2> SUFFICES ASSUME SeedInit PROVE TakenSoFar
      OBVIOUS
    <2>1. arg.parts \in Seq(Texts)
      BY SeedSelectAssumption DEF SeedInit, Argument
    <2> QED BY <2>1 DEF SeedInit, TakenSoFar
  <1>2. TakenSoFar => EverySeedAskedFor
    BY DEF TakenSoFar, EverySeedAskedFor
  <1> QED BY <1>1, <1>2, StepTakes, InductiveInvariant, CommandsReadSeeds, PTL
      DEF SeedSpec
=============================================================================
