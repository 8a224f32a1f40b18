--------------------------- MODULE SplitStoreProofs ---------------------------
(***************************************************************************)
(* Proofs about SplitStore for every arena, every seed, any number of      *)
(* rounds and a store queue of any size.                                   *)
(***************************************************************************)
EXTENDS SplitStore, FiniteSetTheorems, SequenceTheorems, TLAPS

Values == {"unset", "zero", "fill", "target", "blocker"}
Stores == [op : {"store"}, at : Nat, value : Values]
Codes == {"none", "0", "101", "113"}

\* Where the target store of a round is, and where its probes end.
TargetAt == 21
RoundLength == 26

TypeOK ==
    /\ start \in Starts
    /\ rounds \in Rounds
    /\ core \in {"correct", "faulty"}
    /\ round \in Nat
    /\ at \in 1..(RoundLength + 1)
    /\ queue \in Seq(Stores)
    /\ memory \in [0..(Slots - 1) -> Values]
    /\ mismatch \in BOOLEAN
    /\ hidden \in BOOLEAN
    /\ completed \in BOOLEAN
    /\ code \in Codes

\* After the target store of a round, and until the next round, the newest
\* version of its fragment is the target, wherever the store has got to.
TargetIsNewest ==
    at > TargetAt => \A i \in Versions(Slot) : Newest(Slot, i) => Version(Slot, i) = "target"

\* The n-th store of a round.
StoreAt(n) == IF n <= TargetAt THEN n ELSE 24

\* The i-th store of the queue, counted from the first of this round.
Number(i) == Issued - Len(queue) + i

\* The end of the queue is what this round has issued, in that order.
QueueIsRecent ==
    \A i \in DOMAIN queue : Number(i) >= 1 =>
        queue[i] = Placed(StoreAt(Number(i)), Slot)

\* Between the zeroing of the fragment and its target memory holds zero.
ZeroInMemory ==
    Number(0) \in 2..(TargetAt - 1) => memory[Slot] = "zero"

IInv ==
    /\ TypeOK
    /\ TargetIsNewest
    /\ CorrectCoreIsNeverAccused
    /\ QueueIsRecent
    /\ ZeroInMemory
    /\ MissIsNotHidden

----------------------------------------------------------------------------
(* The round *)

\* What a concatenation holds, entry by entry.
LEMMA Joined ==
  ASSUME NEW S, NEW a \in Seq(S), NEW b \in Seq(S), NEW c, c = a \o b
  PROVE  /\ c \in Seq(S) /\ Len(c) = Len(a) + Len(b)
         /\ \A p \in 1..Len(a) : c[p] = a[p]
         /\ \A p \in (Len(a) + 1)..(Len(a) + Len(b)) : c[p] = b[p - Len(a)]
  OBVIOUS

StorePositions == 1..TargetAt \cup {24}

\* A round is 21 stores, two probes, the blocker and two probes.
LEMMA RoundShape ==
        /\ Len(ZeroTargets) = 4
        /\ DOMAIN Round = 1..RoundLength
        /\ \A p \in StorePositions : Round[p] \in Stores
        /\ \A p \in (1..RoundLength) \ StorePositions : Round[p].op = "probe"
        /\ Round[2] = Store(Fragment, "zero")
        /\ Round[TargetAt] = Store(Fragment - 1, "target")
        /\ \A p \in StorePositions \ {2, TargetAt} :
              Round[p].at + 8 <= Fragment \/ Round[p].at >= Fragment + 7
  <1> DEFINE Any == Stores \cup {Probe}
             head == ZeroTargets
             tail == <<Store(Fragment - 1, "target"), Probe, Probe,
                       Store(TargetB + Fragment - 1, "blocker"), Probe, Probe>>
  <1>1. head \in Seq(Any) /\ Len(head) = 4
    BY DEF ZeroTargets, Store, Stores, Values, Fragment, TargetB
  <1>2. FillBurst \in Seq(Any) /\ Len(FillBurst) = 16
    <2>1. \A i \in 1..16 : Store(128 + 64 * (i - 1), "fill") \in Stores
      BY DEF Store, Stores, Values
    <2>2. FillBurst \in [1..16 -> Any]
      BY <2>1 DEF FillBurst
    <2>3. FillBurst \in Seq(Any)
      BY <2>2, SeqDef
    <2>4. DOMAIN FillBurst = 1..16
      BY <2>2
    <2>5. Len(FillBurst) \in Nat /\ DOMAIN FillBurst = 1..Len(FillBurst)
      BY <2>3, LenProperties
    <2> QED BY <2>3, <2>4, <2>5
  <1>3. tail \in Seq(Any) /\ Len(tail) = 6
    BY DEF Store, Stores, Values, Fragment, TargetB
  <1> DEFINE front == head \o FillBurst
  <1>4. Round = front \o tail
    BY DEF Round
  <1> HIDE DEF head, tail, Any
  <1>5. /\ front \in Seq(Any) /\ Len(front) = 20
        /\ \A p \in 1..4 : front[p] = head[p]
        /\ \A p \in 5..20 : front[p] = FillBurst[p - 4]
    <2>1. /\ front = head \o FillBurst
          /\ head \in Seq(Any) /\ FillBurst \in Seq(Any)
      BY <1>1, <1>2
    <2> HIDE DEF front
    <2>2. /\ front \in Seq(Any) /\ Len(front) = Len(head) + Len(FillBurst)
          /\ \A p \in 1..Len(head) : front[p] = head[p]
          /\ \A p \in (Len(head) + 1)..(Len(head) + Len(FillBurst)) :
                front[p] = FillBurst[p - Len(head)]
      BY <2>1, Joined
    <2> QED BY <1>1, <1>2, <2>2
  <1> HIDE DEF front
  <1>6. /\ Len(Round) = 26 /\ Round \in Seq(Any)
        /\ \A p \in 1..20 : Round[p] = front[p]
        /\ \A p \in 21..26 : Round[p] = tail[p - 20]
    <2>1. front \in Seq(Any) /\ tail \in Seq(Any)
      BY <1>3, <1>5
    <2>2. /\ Round \in Seq(Any) /\ Len(Round) = Len(front) + Len(tail)
          /\ \A p \in 1..Len(front) : Round[p] = front[p]
          /\ \A p \in (Len(front) + 1)..(Len(front) + Len(tail)) :
                Round[p] = tail[p - Len(front)]
      BY <1>4, <2>1, Joined
    <2> QED BY <1>3, <1>5, <2>2
  <1>7. /\ \A p \in 1..4 : Round[p] = head[p]
        /\ \A p \in 5..20 : Round[p] = FillBurst[p - 4]
    BY <1>5, <1>6
  <1>8. /\ Round[1] = Store(Fragment - 8, "zero")
        /\ Round[2] = Store(Fragment, "zero")
        /\ Round[3] = Store(TargetB + Fragment - 8, "zero")
        /\ Round[4] = Store(TargetB + Fragment, "zero")
    BY <1>7 DEF head, ZeroTargets
  <1>9. \A p \in 5..20 : Round[p] = Store(128 + 64 * (p - 5), "fill")
    <2> SUFFICES ASSUME NEW p \in 5..20
                 PROVE  Round[p] = Store(128 + 64 * (p - 5), "fill")
      OBVIOUS
    <2>1. p - 4 \in 1..16 /\ (p - 4) - 1 = p - 5
      OBVIOUS
    <2>2. FillBurst[p - 4] = Store(128 + 64 * ((p - 4) - 1), "fill")
      BY <2>1 DEF FillBurst
    <2> QED BY <1>7, <2>1, <2>2
  <1>10. /\ Round[21] = Store(Fragment - 1, "target")
         /\ Round[24] = Store(TargetB + Fragment - 1, "blocker")
         /\ \A p \in {22, 23, 25, 26} : Round[p] = Probe
    <2>1. /\ tail[1] = Store(Fragment - 1, "target") /\ tail[2] = Probe
          /\ tail[3] = Probe /\ tail[4] = Store(TargetB + Fragment - 1, "blocker")
          /\ tail[5] = Probe /\ tail[6] = Probe
      BY DEF tail
    <2>2. /\ Round[21] = tail[1] /\ Round[22] = tail[2] /\ Round[23] = tail[3]
          /\ Round[24] = tail[4] /\ Round[25] = tail[5] /\ Round[26] = tail[6]
      BY <1>6
    <2> QED BY <2>1, <2>2
  <1>11. \A p \in StorePositions : Round[p] \in Stores
    BY <1>8, <1>9, <1>10
       DEF StorePositions, TargetAt, Store, Stores, Values, Fragment, TargetB
  <1>12. \A p \in StorePositions \ {2, TargetAt} :
            Round[p].at + 8 <= Fragment \/ Round[p].at >= Fragment + 7
    BY <1>8, <1>9, <1>10 DEF StorePositions, TargetAt, Store, Fragment, TargetB
  <1>13. \A p \in (1..RoundLength) \ StorePositions : Round[p].op = "probe"
    BY <1>10 DEF RoundLength, StorePositions, TargetAt, Probe
  <1> QED
    BY <1>1, <1>6, <1>8, <1>10, <1>11, <1>12, <1>13 DEF head, RoundLength, TargetAt

\* Of the stores of a round, zeroing and target alone touch the fragment.
LEMMA OnlyTwoTouch ==
  ASSUME NEW p \in StorePositions, NEW s \in Nat
  PROVE  /\ Placed(p, s) \in Stores
         /\ Placed(p, s).value = Round[p].value
         /\ Touches(Placed(p, s), s) <=> p \in {2, TargetAt}
  <1>1. Round[p] \in Stores
    BY RoundShape
  <1>2. /\ Placed(p, s) \in Stores
        /\ Placed(p, s).value = Round[p].value
        /\ Placed(p, s).at = SlotSize * s + Round[p].at
    BY <1>1 DEF Placed, Stores, SlotSize
  <1>3. CASE p \in {2, TargetAt}
    <2>1. Round[p].at \in {Fragment, Fragment - 1}
      BY <1>3, RoundShape DEF Store
    <2> QED BY <1>2, <1>3, <2>1 DEF Touches, SlotSize, Fragment
  <1>4. CASE p \notin {2, TargetAt}
    <2>1. /\ Round[p].at + 8 <= Fragment \/ Round[p].at >= Fragment + 7
          /\ Round[p].at \in Nat
      BY <1>1, <1>4, RoundShape DEF Stores
    <2> QED BY <1>2, <1>4, <2>1 DEF Touches, SlotSize, Fragment
  <1> QED BY <1>2, <1>3, <1>4

\* How many stores a round has issued when it is at position p.
LEMMA StoresCounted ==
  \A p \in 1..(RoundLength + 1) :
      StoresBefore(p) = IF p <= 22 THEN p - 1 ELSE IF p <= 24 THEN 21 ELSE 22
  <1> SUFFICES ASSUME NEW p \in 1..(RoundLength + 1)
               PROVE  StoresBefore(p) = IF p <= 22 THEN p - 1
                                        ELSE IF p <= 24 THEN 21 ELSE 22
    OBVIOUS
  <1> DEFINE issued == {i \in 1..(p - 1) : Round[i].op = "store"}
  <1>1. \A i \in 1..RoundLength : Round[i].op = "store" <=> i \in StorePositions
    BY RoundShape DEF Stores
  <1>2. StoresBefore(p) = Cardinality(issued)
    BY DEF StoresBefore
  <1>3. \A n \in Nat : IsFiniteSet(1..n) /\ Cardinality(1..n) = n
    BY FS_Interval
  <1>4. IsFiniteSet(1..21) /\ Cardinality(1..21) = 21
    <2>1. 21 \in Nat
      OBVIOUS
    <2> QED BY <1>3, <2>1, Zenon
  <1>5. CASE p <= 22
    <2>1. issued = 1..(p - 1)
      BY <1>1, <1>5 DEF StorePositions, TargetAt, RoundLength
    <2> HIDE DEF issued
    <2>2. p - 1 \in Nat
      OBVIOUS
    <2> QED BY <1>2, <1>3, <1>5, <2>1, <2>2
  <1>6. CASE p > 22 /\ p <= 24
    <2>1. issued = 1..21
      BY <1>1, <1>6 DEF StorePositions, TargetAt, RoundLength
    <2> HIDE DEF issued
    <2> QED BY <1>2, <1>4, <1>6, <2>1
  <1>7. CASE p > 24
    <2>1. issued = 1..21 \cup {24}
      BY <1>1, <1>7 DEF StorePositions, TargetAt, RoundLength
    <2>2. Cardinality((1..21) \cup {24}) =
             IF 24 \in 1..21 THEN Cardinality(1..21) ELSE Cardinality(1..21) + 1
      BY <1>4, FS_AddElement
    <2>3. Cardinality((1..21) \cup {24}) = 22
      BY <1>4, <2>2
    <2> HIDE DEF issued
    <2> QED BY <1>2, <1>7, <2>1, <2>3
  <1> QED BY <1>5, <1>6, <1>7

\* The slot of a round is a slot of the arena.
LEMMA SlotType == TypeOK => Slot \in 0..(Slots - 1) /\ Slot \in Nat
  BY SplitStoreAssumption DEF TypeOK, Slot

\* So is what the counters say.
LEMMA IssuedType == TypeOK => Issued \in 0..22 /\ Issued <= at - 1 /\ Len(queue) \in Nat
  <1> SUFFICES ASSUME TypeOK
               PROVE  Issued \in 0..22 /\ Issued <= at - 1 /\ Len(queue) \in Nat
    OBVIOUS
  <1>1. at \in 1..27
    BY DEF TypeOK, RoundLength
  <1>2. Issued = IF at <= 22 THEN at - 1 ELSE IF at <= 24 THEN 21 ELSE 22
    BY <1>1, StoresCounted DEF Issued, RoundLength
  <1>3. Len(queue) \in Nat
    BY DEF TypeOK
  <1> QED BY <1>1, <1>2, <1>3

----------------------------------------------------------------------------
(* The steps *)

\* The search issues the next store of its round ...
LEMMA Issues ==
  TypeOK /\ IssueStore =>
      /\ at \in StorePositions /\ at' = at + 1
      /\ Placed(at, Slot) \in Stores /\ queue' = Append(queue, Placed(at, Slot))
      /\ Issued' = Issued + 1 /\ StoreAt(Issued + 1) = at
      /\ Slot' = Slot /\ memory' = memory
  <1> SUFFICES ASSUME TypeOK, IssueStore
               PROVE  /\ at \in StorePositions /\ at' = at + 1
                      /\ Placed(at, Slot) \in Stores
                      /\ queue' = Append(queue, Placed(at, Slot))
                      /\ Issued' = Issued + 1 /\ StoreAt(Issued + 1) = at
                      /\ Slot' = Slot /\ memory' = memory
    OBVIOUS
  <1>1. at \in 1..RoundLength /\ Round[at].op = "store"
    BY RoundShape DEF IssueStore
  <1>2. at \in StorePositions
    BY <1>1, RoundShape
  <1>3. at' = at + 1 /\ at' \in 1..(RoundLength + 1)
    <2>1. at' = at + 1
      BY DEF IssueStore
    <2> QED BY <1>1, <2>1 DEF RoundLength
  <1>4. /\ StoresBefore(at) = IF at <= 22 THEN at - 1 ELSE IF at <= 24 THEN 21 ELSE 22
        /\ StoresBefore(at') = IF at' <= 22 THEN at' - 1 ELSE IF at' <= 24 THEN 21 ELSE 22
    BY <1>3, StoresCounted DEF TypeOK
  <1>5. Issued' = Issued + 1 /\ StoreAt(Issued + 1) = at
    BY <1>2, <1>3, <1>4 DEF Issued, StoreAt, StorePositions, TargetAt
  <1>6. Placed(at, Slot) \in Stores
    BY <1>2, SlotType, OnlyTwoTouch
  <1> QED BY <1>2, <1>3, <1>5, <1>6 DEF IssueStore, seedVars, Slot

\* ... and looks for the target when it has issued it.
LEMMA Probes ==
  TypeOK /\ ProbeFragment =>
      /\ at \in {22, 23, 25, 26} /\ at' = at + 1
      /\ Issued' = Issued /\ Slot' = Slot
      /\ queue' = queue /\ memory' = memory
  <1> SUFFICES ASSUME TypeOK, ProbeFragment
               PROVE  /\ at \in {22, 23, 25, 26} /\ at' = at + 1
                      /\ Issued' = Issued /\ Slot' = Slot
                      /\ queue' = queue /\ memory' = memory
    OBVIOUS
  <1>1. at \in 1..RoundLength /\ Round[at].op = "probe"
    BY RoundShape DEF ProbeFragment
  <1>2. at \notin StorePositions
    BY <1>1, RoundShape DEF Stores
  <1>3. at \in {22, 23, 25, 26}
    BY <1>1, <1>2 DEF StorePositions, TargetAt, RoundLength
  <1>4. at' = at + 1 /\ at' \in 1..(RoundLength + 1)
    BY <1>1 DEF ProbeFragment, RoundLength
  <1>5. /\ StoresBefore(at) = IF at <= 22 THEN at - 1 ELSE IF at <= 24 THEN 21 ELSE 22
        /\ StoresBefore(at') = IF at' <= 22 THEN at' - 1 ELSE IF at' <= 24 THEN 21 ELSE 22
    BY <1>4, StoresCounted DEF TypeOK
  <1>6. Issued' = Issued
    BY <1>3, <1>4, <1>5 DEF Issued
  <1> QED BY <1>3, <1>4, <1>6 DEF ProbeFragment, seedVars, Slot

\* What the oldest store's leaving changes, entry by entry.
LEMMA Drains ==
  TypeOK /\ Drain =>
      /\ Len(queue) >= 1 /\ Len(queue') = Len(queue) - 1
      /\ queue' \in Seq(Stores)
      /\ \A i \in 1..Len(queue') : queue'[i] = queue[i + 1]
      /\ \A s \in 0..(Slots - 1) : memory'[s] =
            IF Touches(queue[1], s) THEN queue[1].value ELSE memory[s]
      /\ Issued' = Issued /\ Slot' = Slot /\ at' = at
  <1> SUFFICES ASSUME TypeOK, Drain
               PROVE  /\ Len(queue) >= 1 /\ Len(queue') = Len(queue) - 1
                      /\ queue' \in Seq(Stores)
                      /\ \A i \in 1..Len(queue') : queue'[i] = queue[i + 1]
                      /\ \A s \in 0..(Slots - 1) : memory'[s] =
                            IF Touches(queue[1], s) THEN queue[1].value ELSE memory[s]
                      /\ Issued' = Issued /\ Slot' = Slot /\ at' = at
    OBVIOUS
  <1>1. queue \in Seq(Stores) /\ queue # <<>> /\ queue' = Tail(queue)
    BY DEF TypeOK, Drain
  <1>2. /\ Len(queue) >= 1 /\ Len(queue') = Len(queue) - 1
        /\ queue' \in Seq(Stores) /\ Head(queue) = queue[1]
        /\ \A i \in 1..Len(queue') : queue'[i] = queue[i + 1]
    BY <1>1
  <1>3. \A s \in 0..(Slots - 1) : memory'[s] =
           IF Touches(queue[1], s) THEN queue[1].value ELSE memory[s]
    BY <1>2 DEF TypeOK, Drain
  <1>4. Issued' = Issued /\ Slot' = Slot /\ at' = at
    BY DEF Drain, Issued, Slot, seedVars
  <1> QED BY <1>2, <1>3, <1>4

\* Draining changes where a version is, and not which one is newest.
LEMMA DrainKeepsNewest ==
  TypeOK /\ Drain =>
      \A s \in 0..(Slots - 1) : \A i : Newest(s, i)' =>
          \E k : Newest(s, k) /\ Version(s, k) = Version(s, i)'
  <1> SUFFICES ASSUME TypeOK, Drain, NEW s \in 0..(Slots - 1), NEW i, Newest(s, i)'
               PROVE  \E k : Newest(s, k) /\ Version(s, k) = Version(s, i)'
    OBVIOUS
  <1> DEFINE Touching(q) == {k \in DOMAIN q : Touches(q[k], s)}
  <1>1. /\ Versions(s) = {0} \cup Touching(queue)
        /\ Versions(s)' = {0} \cup Touching(queue')
    BY DEF Versions
  <1>2. /\ DOMAIN queue = 1..Len(queue) /\ DOMAIN queue' = 1..Len(queue')
        /\ Len(queue) \in Nat /\ Len(queue') = Len(queue) - 1 /\ Len(queue) >= 1
        /\ \A k \in 1..Len(queue') : queue'[k] = queue[k + 1]
        /\ memory'[s] = IF Touches(queue[1], s) THEN queue[1].value ELSE memory[s]
    BY Drains DEF TypeOK
  <1>3. \A k \in 1..Len(queue') : k \in Touching(queue') <=> k + 1 \in Touching(queue)
    BY <1>2
  <1>4. 1 \in Touching(queue) <=> Touches(queue[1], s)
    BY <1>2
  <1>5. /\ i \in {0} \cup Touching(queue')
        /\ \A k \in {0} \cup Touching(queue') : k <= i
    BY <1>1 DEF Newest
  <1>6. Touching(queue) \subseteq 1..Len(queue) /\ Touching(queue') \subseteq 1..Len(queue')
    BY <1>2
  <1> HIDE DEF Touching
  <1>7. CASE i # 0
    <2>1. i \in 1..Len(queue') /\ i + 1 \in Touching(queue)
      BY <1>3, <1>5, <1>6, <1>7
    <2>2. \A k \in {0} \cup Touching(queue) : k <= i + 1
      <3> SUFFICES ASSUME NEW k \in Touching(queue), k > i + 1 PROVE FALSE
        BY <1>2, <1>6, <2>1
      <3>1. k - 1 \in 1..Len(queue') /\ (k - 1) + 1 = k
        BY <1>2, <1>6, <2>1
      <3>2. k - 1 \in Touching(queue')
        BY <1>3, <3>1
      <3> QED BY <1>5, <2>1, <3>1, <3>2
    <2>3. Newest(s, i + 1)
      BY <1>1, <2>1, <2>2 DEF Newest
    <2>4. Version(s, i + 1) = Version(s, i)'
      BY <1>2, <1>7, <2>1 DEF Version
    <2> QED BY <2>3, <2>4
  <1>8. CASE i = 0
    <2>1. \A k \in Touching(queue) : k = 1
      <3> SUFFICES ASSUME NEW k \in Touching(queue), k # 1 PROVE FALSE
        OBVIOUS
      <3>1. k - 1 \in 1..Len(queue') /\ (k - 1) + 1 = k
        BY <1>2, <1>6
      <3>2. k - 1 \in Touching(queue')
        BY <1>3, <3>1
      <3> QED BY <1>5, <1>8, <3>1, <3>2
    <2>2. CASE Touches(queue[1], s)
      <3>1. Newest(s, 1)
        BY <1>1, <1>4, <2>1, <2>2 DEF Newest
      <3>2. Version(s, 1) = Version(s, i)'
        BY <1>2, <1>8, <2>2 DEF Version
      <3> QED BY <3>1, <3>2
    <2>3. CASE ~Touches(queue[1], s)
      <3>1. Newest(s, 0)
        BY <1>1, <1>4, <2>1, <2>3 DEF Newest
      <3>2. Version(s, 0) = Version(s, i)'
        BY <1>2, <1>8, <2>3 DEF Version
      <3> QED BY <3>1, <3>2
    <2> QED BY <2>2, <2>3
  <1> QED BY <1>7, <1>8

\* The search begins with an empty queue and nothing known of memory.
LEMMA InitIInv == Init => IInv
  <1> SUFFICES ASSUME Init PROVE IInv
    OBVIOUS
  <1>1. TypeOK
    <2>1. memory \in [0..(Slots - 1) -> Values]
      BY DEF Init, Values
    <2>2. queue \in Seq(Stores) /\ at \in 1..(RoundLength + 1) /\ code \in Codes
      BY DEF Init, RoundLength, Codes
    <2>3. /\ start \in Starts /\ rounds \in Rounds /\ core \in {"correct", "faulty"}
          /\ round \in Nat /\ mismatch \in BOOLEAN /\ hidden \in BOOLEAN
          /\ completed \in BOOLEAN
      BY DEF Init
    <2> QED BY <2>1, <2>2, <2>3 DEF TypeOK
  <1>2. at = 1 /\ Issued = 0 /\ Len(queue) = 0
    BY StoresCounted DEF Init, Issued, RoundLength
  <1>3. TargetIsNewest /\ QueueIsRecent /\ ZeroInMemory
    BY <1>2 DEF Init, TargetIsNewest, QueueIsRecent, ZeroInMemory, Number, TargetAt
  <1>4. CorrectCoreIsNeverAccused /\ MissIsNotHidden
    BY DEF Init, CorrectCoreIsNeverAccused, MissIsNotHidden
  <1> QED BY <1>1, <1>3, <1>4 DEF IInv

LEMMA StepType == TypeOK /\ [Next]_vars => TypeOK'
  <1> SUFFICES ASSUME TypeOK, [Next]_vars PROVE TypeOK'
    OBVIOUS
  <1>1. CASE IssueStore
    <2>1. at' \in 1..(RoundLength + 1) /\ queue' \in Seq(Stores)
      <3>1. /\ at \in StorePositions /\ at' = at + 1
            /\ Placed(at, Slot) \in Stores /\ queue' = Append(queue, Placed(at, Slot))
        BY <1>1, Issues
      <3>2. queue' \in Seq(Stores)
        BY <3>1, AppendProperties DEF TypeOK
      <3> QED BY <3>1, <3>2 DEF StorePositions, TargetAt, RoundLength
    <2> QED BY <1>1, <2>1 DEF IssueStore, TypeOK, seedVars
  <1>2. CASE ProbeFragment
    <2>1. at' \in 1..(RoundLength + 1)
      BY <1>2, Probes DEF RoundLength
    <2>2. mismatch' \in BOOLEAN /\ hidden' \in BOOLEAN
      BY <1>2 DEF ProbeFragment
    <2> QED BY <1>2, <2>1, <2>2 DEF ProbeFragment, TypeOK, seedVars
  <1>3. CASE EndRound
    <2>1. round' \in Nat /\ at' \in 1..(RoundLength + 1) /\ code' \in Codes
      <3>1. CASE mismatch
        BY <1>3, <3>1 DEF EndRound, TypeOK, Codes
      <3>2. CASE ~mismatch
        BY <1>3, <3>2 DEF EndRound, TypeOK, RoundLength
      <3> QED BY <3>1, <3>2
    <2> QED BY <1>3, <2>1 DEF EndRound, TypeOK, seedVars
  <1>4. CASE Complete
    BY <1>4 DEF Complete, TypeOK, seedVars
  <1>5. CASE Check
    BY <1>5 DEF Check, TypeOK, seedVars, Codes
  <1>6. CASE Drain
    <2>1. queue' \in Seq(Stores) /\ queue[1] \in Stores
      BY <1>6, Drains DEF TypeOK
    <2>2. memory' = [s \in DOMAIN memory |->
                       IF Touches(queue[1], s) THEN queue[1].value ELSE memory[s]]
      BY <1>6 DEF Drain, TypeOK
    <2>3. memory' \in [0..(Slots - 1) -> Values]
      BY <2>1, <2>2 DEF TypeOK, Stores
    <2> QED BY <1>6, <2>1, <2>3 DEF Drain, TypeOK, seedVars
  <1>7. CASE UNCHANGED vars
    BY <1>7 DEF vars, TypeOK
  <1> QED
    BY <1>1, <1>2, <1>3, <1>4, <1>5, <1>6, <1>7 DEF Next, Search

\* A step that touches neither queue, memory nor position.
LEMMA Elsewhere ==
  ASSUME UNCHANGED <<start, round, at, queue, memory>>
  PROVE  /\ Slot' = Slot /\ Issued' = Issued
         /\ TargetIsNewest' <=> TargetIsNewest
         /\ QueueIsRecent' <=> QueueIsRecent
         /\ ZeroInMemory' <=> ZeroInMemory
  <1>1. Slot' = Slot /\ Issued' = Issued
    BY DEF Slot, Issued
  <1>2. /\ \A s : Versions(s)' = Versions(s)
        /\ \A s, i : Newest(s, i)' <=> Newest(s, i)
        /\ \A s, i : Version(s, i)' = Version(s, i)
    BY DEF Versions, Newest, Version
  <1> QED BY <1>1, <1>2 DEF TargetIsNewest, QueueIsRecent, ZeroInMemory, Number

\* The end of a round forgets what the queue and the memory hold.
LEMMA NewRound ==
  TypeOK /\ EndRound =>
      \/ UNCHANGED <<start, round, at, queue, memory>>
      \/ at' = 1 /\ queue' = queue /\ Issued' = 0
  <1> SUFFICES ASSUME TypeOK, EndRound, at' = 1 PROVE Issued' = 0
    BY DEF EndRound, seedVars
  <1>1. at' \in 1..(RoundLength + 1)
    BY DEF RoundLength
  <1>2. StoresBefore(at') = IF at' <= 22 THEN at' - 1 ELSE IF at' <= 24 THEN 21 ELSE 22
    BY <1>1, StoresCounted
  <1> QED BY <1>2 DEF Issued

\* The target store is the newest version of its fragment when it is issued;
\* what is issued after it lies elsewhere, and draining changes nothing.
LEMMA StepNewest == IInv /\ [Next]_vars => TargetIsNewest'
  <1> SUFFICES ASSUME TypeOK, TargetIsNewest, [Next]_vars PROVE TargetIsNewest'
    BY DEF IInv
  <1> USE DEF TargetIsNewest
  <1>1. CASE IssueStore
    <2> DEFINE new == Placed(at, Slot)
    <2>1. /\ at \in StorePositions /\ at' = at + 1 /\ new \in Stores
          /\ queue' = Append(queue, new) /\ Slot' = Slot /\ memory' = memory
      BY <1>1, Issues
    <2>2. Slot \in Nat
      BY SlotType
    <2>3. /\ new.value = Round[at].value
          /\ Touches(new, Slot) <=> at \in {2, TargetAt}
      BY <2>1, <2>2, OnlyTwoTouch
    <2> HIDE DEF new
    <2>4. /\ DOMAIN queue' = 1..(Len(queue) + 1) /\ DOMAIN queue = 1..Len(queue)
          /\ Len(queue) \in Nat /\ queue'[Len(queue) + 1] = new
          /\ \A k \in 1..Len(queue) : queue'[k] = queue[k]
      BY <2>1 DEF TypeOK
    <2> SUFFICES ASSUME at' > TargetAt, NEW i, Newest(Slot, i)'
                 PROVE  Version(Slot, i)' = "target"
      BY <2>1
    <2>5. Versions(Slot)' = {0} \cup {k \in 1..(Len(queue) + 1) : Touches(queue'[k], Slot)}
      BY <2>1, <2>4 DEF Versions
    <2>6. Versions(Slot) = {0} \cup {k \in 1..Len(queue) : Touches(queue[k], Slot)}
      BY <2>4 DEF Versions
    <2>7. i \in Versions(Slot)' /\ \A k \in Versions(Slot)' : k <= i
      BY <2>1 DEF Newest
    <2>8. CASE at = TargetAt
      <3>1. Len(queue) + 1 \in Versions(Slot)'
        BY <2>3, <2>4, <2>5, <2>8
      <3>2. i = Len(queue) + 1
        BY <2>4, <2>5, <2>7, <3>1
      <3>3. new.value = "target"
        BY <2>3, <2>8, RoundShape DEF Store
      <3> QED BY <2>4, <3>2, <3>3 DEF Version
    <2>9. CASE at # TargetAt
      <3>1. at > TargetAt /\ ~Touches(new, Slot)
        BY <2>1, <2>3, <2>9 DEF StorePositions, TargetAt
      <3>2. Versions(Slot)' = Versions(Slot)
        BY <2>4, <2>5, <2>6, <3>1
      <3>3. Newest(Slot, i)
        BY <2>7, <3>2 DEF Newest
      <3>4. i = 0 \/ i \in 1..Len(queue)
        BY <2>6, <3>3 DEF Newest
      <3>5. Version(Slot, i)' = Version(Slot, i)
        BY <2>1, <2>4, <3>4 DEF Version
      <3> QED BY <3>1, <3>3, <3>5 DEF Newest
    <2> QED BY <2>8, <2>9
  <1>2. CASE ProbeFragment
    <2>1. /\ at > TargetAt /\ Slot' = Slot /\ queue' = queue /\ memory' = memory
      BY <1>2, Probes DEF TargetAt
    <2>2. /\ \A s : Versions(s)' = Versions(s)
          /\ \A s, i : Newest(s, i)' <=> Newest(s, i)
          /\ \A s, i : Version(s, i)' = Version(s, i)
      BY <2>1 DEF Versions, Newest, Version
    <2> QED BY <2>1, <2>2
  <1>3. CASE EndRound
    BY <1>3, NewRound, Elsewhere DEF TargetAt
  <1>4. CASE Complete \/ Check
    BY <1>4, Elsewhere DEF Complete, Check, seedVars
  <1>5. CASE Drain
    <2> SUFFICES ASSUME at > TargetAt, NEW i, Newest(Slot, i)'
                 PROVE  Version(Slot, i)' = "target"
      BY <1>5, Drains
    <2>1. Slot' = Slot /\ Slot \in 0..(Slots - 1)
      BY <1>5, Drains, SlotType
    <2>2. PICK k : Newest(Slot, k) /\ Version(Slot, k) = Version(Slot, i)'
      BY <1>5, <2>1, DrainKeepsNewest
    <2> QED BY <2>2 DEF Newest
  <1>6. CASE UNCHANGED vars
    BY <1>6, Elsewhere DEF vars
  <1> QED
    BY <1>1, <1>2, <1>3, <1>4, <1>5, <1>6 DEF Next, Search

\* A core that forwards correctly hands out the newest version, the target.
LEMMA StepNotAccused == IInv /\ [Next]_vars => CorrectCoreIsNeverAccused'
  <1> SUFFICES ASSUME TypeOK, TargetIsNewest, CorrectCoreIsNeverAccused, [Next]_vars
               PROVE  CorrectCoreIsNeverAccused'
    BY DEF IInv
  <1> USE DEF CorrectCoreIsNeverAccused
  <1>1. CASE ProbeFragment
    <2> SUFFICES ASSUME core' = "correct" PROVE code' # "101" /\ ~mismatch'
      OBVIOUS
    <2>1. core = "correct" /\ code' = code /\ ~mismatch /\ code # "101"
      BY <1>1 DEF ProbeFragment, seedVars
    <2>2. at > TargetAt
      BY <1>1, Probes DEF TargetAt
    <2>3. PICK lwu, lhu, lbu \in Versions(Slot) :
            /\ core = "correct" =>
                  \A i \in {lwu, lhu, lbu} : Newest(Slot, i)
            /\ mismatch' = (mismatch \/ ~(\A i \in {lwu, lhu, lbu} :
                                             Version(Slot, i) = "target"))
      BY <1>1 DEF ProbeFragment
    <2>4. \A i \in {lwu, lhu, lbu} : Version(Slot, i) = "target"
      BY <2>1, <2>2, <2>3 DEF TargetIsNewest
    <2> QED BY <2>1, <2>3, <2>4
  <1>2. CASE IssueStore
    BY <1>2 DEF IssueStore, seedVars
  <1>3. CASE EndRound
    BY <1>3 DEF EndRound, seedVars
  <1>4. CASE Complete
    BY <1>4 DEF Complete, seedVars
  <1>5. CASE Check
    BY <1>5 DEF Check, seedVars
  <1>6. CASE Drain
    BY <1>6 DEF Drain, seedVars
  <1>7. CASE UNCHANGED vars
    BY <1>7 DEF vars
  <1> QED
    BY <1>1, <1>2, <1>3, <1>4, <1>5, <1>6, <1>7 DEF Next, Search

\* A store is appended to those of its round and keeps its number until it
\* has drained.
LEMMA StepRecent == IInv /\ [Next]_vars => QueueIsRecent'
  <1> SUFFICES ASSUME TypeOK, QueueIsRecent, [Next]_vars PROVE QueueIsRecent'
    BY DEF IInv
  <1>1. /\ DOMAIN queue = 1..Len(queue) /\ Len(queue) \in Nat
        /\ Issued \in 0..22
    BY IssuedType DEF TypeOK
  <1>2. CASE IssueStore
    <2>1. /\ Placed(at, Slot) \in Stores /\ queue' = Append(queue, Placed(at, Slot))
          /\ Issued' = Issued + 1 /\ StoreAt(Issued + 1) = at /\ Slot' = Slot
      BY <1>2, Issues
    <2>2. /\ DOMAIN queue' = 1..(Len(queue) + 1) /\ Len(queue') = Len(queue) + 1
          /\ queue'[Len(queue) + 1] = Placed(at, Slot)
          /\ \A i \in 1..Len(queue) : queue'[i] = queue[i]
      BY <2>1 DEF TypeOK
    <2>3. \A i \in Int : Number(i)' = Number(i)
      BY <1>1, <2>1, <2>2 DEF Number
    <2> SUFFICES ASSUME NEW i \in 1..(Len(queue) + 1), Number(i) >= 1
                 PROVE  queue'[i] = Placed(StoreAt(Number(i)), Slot)
      BY <2>1, <2>2, <2>3 DEF QueueIsRecent
    <2>4. CASE i = Len(queue) + 1
      <3>1. Number(i) = Issued + 1
        BY <1>1, <2>4 DEF Number
      <3> QED BY <2>1, <2>2, <2>4, <3>1
    <2>5. CASE i # Len(queue) + 1
      <3>1. i \in 1..Len(queue)
        BY <1>1, <2>5
      <3> QED BY <1>1, <2>2, <3>1 DEF QueueIsRecent
    <2> QED BY <2>4, <2>5
  <1>3. CASE Drain
    <2>1. /\ Len(queue') = Len(queue) - 1 /\ queue' \in Seq(Stores)
          /\ \A i \in 1..Len(queue') : queue'[i] = queue[i + 1]
          /\ Issued' = Issued /\ Slot' = Slot /\ Len(queue) >= 1
      BY <1>3, Drains
    <2>2. DOMAIN queue' = 1..Len(queue')
      BY <2>1
    <2>3. \A i \in 1..Len(queue') : Number(i)' = Number(i + 1)
      BY <1>1, <2>1 DEF Number
    <2> SUFFICES ASSUME NEW i \in 1..Len(queue'), Number(i + 1) >= 1
                 PROVE  queue'[i] = Placed(StoreAt(Number(i + 1)), Slot)
      BY <2>1, <2>2, <2>3 DEF QueueIsRecent
    <2>4. i + 1 \in DOMAIN queue
      BY <1>1, <2>1
    <2> QED BY <2>1, <2>4 DEF QueueIsRecent
  <1>4. CASE EndRound
    <2>1. CASE at' = 1 /\ queue' = queue /\ Issued' = 0
      BY <1>1, <2>1 DEF QueueIsRecent, Number
    <2> QED BY <1>4, <2>1, NewRound, Elsewhere
  <1>5. CASE ProbeFragment
    <2>1. queue' = queue /\ Issued' = Issued /\ Slot' = Slot
      BY <1>5, Probes
    <2> QED BY <2>1 DEF QueueIsRecent, Number
  <1>6. CASE Complete \/ Check
    BY <1>6, Elsewhere DEF Complete, Check, seedVars
  <1>7. CASE UNCHANGED vars
    BY <1>7, Elsewhere DEF vars
  <1> QED
    BY <1>2, <1>3, <1>4, <1>5, <1>6, <1>7 DEF Next, Search

\* The second store of a round zeroes the fragment when it drains, and none
\* before the target writes there again.
LEMMA StepZero == IInv /\ [Next]_vars => ZeroInMemory'
  <1> SUFFICES ASSUME TypeOK, QueueIsRecent, ZeroInMemory, [Next]_vars
               PROVE  ZeroInMemory'
    BY DEF IInv
  <1>1. /\ DOMAIN queue = 1..Len(queue) /\ Len(queue) \in Nat
        /\ Issued \in 0..22 /\ Slot \in 0..(Slots - 1) /\ Slot \in Nat
    BY IssuedType, SlotType DEF TypeOK
  <1>2. CASE IssueStore
    <2>1. /\ queue' = Append(queue, Placed(at, Slot)) /\ Issued' = Issued + 1
          /\ Slot' = Slot /\ memory' = memory
      BY <1>2, Issues
    <2>2. Len(queue') = Len(queue) + 1
      BY <2>1 DEF TypeOK
    <2>3. Number(0)' = Number(0)
      BY <1>1, <2>1, <2>2 DEF Number
    <2> QED BY <2>1, <2>3 DEF ZeroInMemory
  <1>3. CASE Drain
    <2>1. /\ Len(queue) >= 1 /\ Len(queue') = Len(queue) - 1
          /\ memory'[Slot] = IF Touches(queue[1], Slot) THEN queue[1].value ELSE memory[Slot]
          /\ Issued' = Issued /\ Slot' = Slot
      BY <1>1, <1>3, Drains
    <2>2. Number(0)' = Number(1) /\ Number(1) = Number(0) + 1 /\ Number(1) \in Int
      BY <1>1, <2>1 DEF Number
    <2> SUFFICES ASSUME Number(1) \in 2..(TargetAt - 1) PROVE memory'[Slot] = "zero"
      BY <2>1, <2>2 DEF ZeroInMemory
    <2> DEFINE p == Number(1)
    <2>3. p \in StorePositions /\ p # TargetAt /\ StoreAt(p) = p
      BY DEF StorePositions, StoreAt, TargetAt
    <2>4. queue[1] = Placed(p, Slot)
      BY <1>1, <2>1, <2>2, <2>3 DEF QueueIsRecent
    <2>5. /\ queue[1].value = Round[p].value
          /\ Touches(queue[1], Slot) <=> p \in {2, TargetAt}
      BY <1>1, <2>3, <2>4, OnlyTwoTouch
    <2>6. CASE p = 2
      BY <2>1, <2>5, <2>6, RoundShape DEF Store
    <2>7. CASE p # 2
      <3>1. Number(0) \in Int /\ Number(0) = Number(1) - 1
        BY <1>1 DEF Number
      <3>2. Number(0) \in 2..(TargetAt - 1)
        BY <2>7, <3>1 DEF TargetAt
      <3> QED BY <2>1, <2>3, <2>5, <2>7, <3>2 DEF ZeroInMemory
    <2> QED BY <2>6, <2>7
  <1>4. CASE EndRound
    <2>1. CASE at' = 1 /\ queue' = queue /\ Issued' = 0
      BY <1>1, <2>1 DEF ZeroInMemory, Number
    <2> QED BY <1>4, <2>1, NewRound, Elsewhere
  <1>5. CASE ProbeFragment
    <2>1. queue' = queue /\ Issued' = Issued /\ Slot' = Slot /\ memory' = memory
      BY <1>5, Probes
    <2> QED BY <2>1 DEF ZeroInMemory, Number
  <1>6. CASE Complete \/ Check
    BY <1>6, Elsewhere DEF Complete, Check, seedVars
  <1>7. CASE UNCHANGED vars
    BY <1>7, Elsewhere DEF vars
  <1> QED
    BY <1>2, <1>3, <1>4, <1>5, <1>6, <1>7 DEF Next, Search

\* With the zeroing in memory there are two versions at most, the target and
\* the zero it replaces: an older one than the target is not equal to it.
LEMMA OlderIsZero ==
  IInv /\ ProbeFragment /\ ZeroingDrained =>
      \A i \in Versions(Slot) : ~Newest(Slot, i) => Version(Slot, i) # "target"
  <1> SUFFICES ASSUME IInv, ProbeFragment, ZeroingDrained,
                      NEW i \in Versions(Slot), ~Newest(Slot, i)
               PROVE  Version(Slot, i) # "target"
    OBVIOUS
  <1>1. /\ DOMAIN queue = 1..Len(queue) /\ Len(queue) \in Nat
        /\ Issued \in 0..22 /\ Slot \in Nat /\ Number(0) >= 4
    <2>1. /\ DOMAIN queue = 1..Len(queue) /\ Len(queue) \in Nat
          /\ Issued \in 0..22 /\ Slot \in Nat
      BY IssuedType, SlotType DEF IInv, TypeOK
    <2>2. Issued >= Len(queue) + 4
      BY RoundShape DEF ZeroingDrained
    <2> QED BY <2>1, <2>2 DEF Number
  <1>2. ASSUME NEW k \in 1..Len(queue), Touches(queue[k], Slot)
        PROVE  Number(0) + k = TargetAt
    <2>1. Number(k) = Number(0) + k /\ Number(k) \in 5..22
      <3>1. Number(k) = Issued - Len(queue) + k /\ Number(0) = Issued - Len(queue) + 0
        BY DEF Number
      <3>2. Issued \in Int /\ Issued <= 22 /\ Len(queue) \in Int /\ k \in Int
            /\ 1 <= k /\ k <= Len(queue) /\ Number(0) >= 4
        BY <1>1
      <3> QED BY <3>1, <3>2
    <2> DEFINE p == StoreAt(Number(k))
    <2>2. p \in StorePositions /\ p # 2
      BY <2>1 DEF StorePositions, StoreAt, TargetAt
    <2>3. queue[k] = Placed(p, Slot)
      BY <1>1, <2>1 DEF IInv, QueueIsRecent
    <2>4. p = TargetAt
      BY <1>1, <1>2, <2>2, <2>3, OnlyTwoTouch
    <2> QED BY <2>1, <2>4 DEF StoreAt, TargetAt
  <1>3. PICK k \in Versions(Slot) : ~(k <= i)
    BY DEF Newest
  <1>4. /\ i = 0 \/ (i \in 1..Len(queue) /\ Touches(queue[i], Slot))
        /\ k = 0 \/ (k \in 1..Len(queue) /\ Touches(queue[k], Slot))
    BY <1>1 DEF Versions
  <1>5. k \in 1..Len(queue) /\ Number(0) + k = TargetAt
    BY <1>1, <1>2, <1>3, <1>4
  <1>6. Number(0) \in 4..(TargetAt - 1)
    BY <1>1, <1>5 DEF TargetAt, Number
  <1>7. i = 0
    BY <1>1, <1>2, <1>3, <1>4, <1>5, <1>6
  <1>8. memory[Slot] = "zero"
    BY <1>6 DEF IInv, ZeroInMemory, TargetAt
  <1> QED BY <1>7, <1>8 DEF Version

LEMMA StepNotHidden == IInv /\ [Next]_vars => MissIsNotHidden'
  <1> SUFFICES ASSUME IInv, [Next]_vars PROVE MissIsNotHidden'
    OBVIOUS
  <1>1. hidden = FALSE
    BY DEF IInv, TypeOK, MissIsNotHidden
  <1>2. CASE ProbeFragment
    <2>1. PICK lwu, lhu, lbu \in Versions(Slot) :
            hidden' = (hidden \/
                (/\ \A i \in {lwu, lhu, lbu} : Version(Slot, i) = "target"
                 /\ \E i \in {lwu, lhu, lbu} : ~Newest(Slot, i)
                 /\ ZeroingDrained))
      BY <1>2 DEF ProbeFragment
    <2> QED BY <1>1, <1>2, <2>1, OlderIsZero DEF MissIsNotHidden
  <1>3. CASE ~ProbeFragment
    BY <1>1, <1>3
       DEF MissIsNotHidden, Next, Search, IssueStore, EndRound, Complete, Check,
           Drain, vars
  <1> QED BY <1>2, <1>3

LEMMA InductiveInvariant == Spec => []IInv
  <1>1. IInv /\ [Next]_vars => IInv'
    BY StepType, StepNewest, StepNotAccused, StepRecent, StepZero, StepNotHidden
       DEF IInv
  <1> QED BY InitIInv, <1>1, PTL DEF Spec

----------------------------------------------------------------------------

\* Queue, memory and the position of the search keep their types.
THEOREM TypeCorrect == Spec => []TypeOK
  <1>1. IInv => TypeOK
    BY DEF IInv
  <1> QED BY InductiveInvariant, <1>1, PTL

\* The search accuses no core that forwards correctly: whatever the seed, the
\* size of the queue and the order of draining, also when the rounds outnumber
\* the slots.
THEOREM NeverAccused == Spec => []CorrectCoreIsNeverAccused
  <1>1. IInv => CorrectCoreIsNeverAccused
    BY DEF IInv
  <1> QED BY InductiveInvariant, <1>1, PTL

\* Once the zeroing has drained, a probe that misses the forward finds zero
\* and not the target of an earlier round in the same slot.
THEOREM NotHidden == Spec => []MissIsNotHidden
  <1>1. IInv => MissIsNotHidden
    BY DEF IInv
  <1> QED BY InductiveInvariant, <1>1, PTL
=============================================================================
