----------------------- MODULE ClickAggregationProofs -----------------------
(***************************************************************************)
(* Theorems about ClickAggregation, for any number of requests, workers,   *)
(* impressions, campaigns and minutes, any batch size, any number of       *)
(* rebuilds and crashes.                                                   *)
(***************************************************************************)
EXTENDS MCClickScenarios, SumTheorems

-----------------------------------------------------------------------------
(* Counting the clicks of a key in an interval of raw event ids.           *)

LEMMA ClicksNat ==
    ASSUME NEW s, NEW k, NEW m \in Nat, NEW n \in Nat
    PROVE  IsFiniteSet(ClickIds(s, k, m, n)) /\ Clicks(s, k, m, n) \in Nat
<1>1. IsFiniteSet((m + 1)..n)
    BY FS_Interval
<1>2. ClickIds(s, k, m, n) \in SUBSET ((m + 1)..n)
    BY DEF ClickIds
<1>3. IsFiniteSet(ClickIds(s, k, m, n))
    BY <1>1, <1>2, FS_Subset
<1> QED
    BY <1>3, FS_CardinalityType DEF Clicks

(* The clicks up to n are those up to m and those after m. *)
LEMMA ClicksSplit ==
    ASSUME NEW s, NEW k, NEW m \in Nat, NEW n \in Nat, m <= n
    PROVE  Clicks(s, k, 0, n) = Clicks(s, k, 0, m) + Clicks(s, k, m, n)
<1> DEFINE A == ClickIds(s, k, 0, m)
           B == ClickIds(s, k, m, n)
<1>1. ClickIds(s, k, 0, n) = A \cup B /\ A \cap B = {}
    BY DEF ClickIds
<1>2. IsFiniteSet(A) /\ IsFiniteSet(B)
    BY ClicksNat
<1>3. Cardinality(A) \in Nat /\ Cardinality(B) \in Nat
    BY <1>2, FS_CardinalityType
<1>4. Cardinality(A \cup B) = Cardinality(A) + Cardinality(B) - Cardinality(A \cap B)
    BY <1>2, FS_Union
<1>5. Cardinality(A \cap B) = 0
    BY <1>1, FS_EmptySet
<1> QED
    BY <1>1, <1>3, <1>4, <1>5 DEF Clicks

LEMMA NoClicks ==
    ASSUME NEW s, NEW k
    PROVE  Clicks(s, k, 0, 0) = 0
BY FS_EmptySet DEF Clicks, ClickIds

(* A new event does not change the counts below it. *)
LEMMA ClicksAppend ==
    ASSUME NEW s \in Seq(Events), NEW e \in Events,
           NEW k, NEW n \in 0..Len(s)
    PROVE  Clicks(Append(s, e), k, 0, n) = Clicks(s, k, 0, n)
<1>1. \A i \in (0 + 1)..n : Append(s, e)[i] = s[i]
    OBVIOUS
<1>2. ClickIds(Append(s, e), k, 0, n) = ClickIds(s, k, 0, n)
    BY <1>1 DEF ClickIds
<1> QED
    BY <1>2 DEF Clicks

-----------------------------------------------------------------------------
(* NothingLost is not inductive: a commit adds a batch to what the metrics *)
(* are now and sets the cursor, so they must contain every event below the *)
(* start of every batch a processor holds, and not only below the cursor.  *)

Covered(metrics, events, n) == \A k \in Keys : metrics[k] >= Clicks(events, k, 0, n)

(* What processor p holds: f is the cursor it read, u the end of its batch.*)
HeldOk(s, f, u) ==
    /\ s \in {"read", "fetched"} => f \in 0..Len(raw) /\ Covered(derived, raw, f)
    /\ s = "fetched" => u \in f..Len(raw)

Held == \A p \in Processors : HeldOk(pc[p], from[p], upto[p])

LossInv == TypeOK /\ Held /\ NothingLost

LEMMA RestType ==
    \A p \in Processors : Rest(p) \in Steps /\ Rest(p) \notin {"read", "fetched"}
BY DEF Rest, Steps

(* An accepted click is above every cursor. *)
LEMMA TrackClickKeeps ==
    ASSUME LossInv, NEW r \in Requests, TrackClick(r)
    PROVE  LossInv'
<1> USE DEF LossInv, TypeOK, Processors
<1>1. PICK imp \in Impressions, minute \in Minutes : RecordClick(imp, minute)
    BY DEF TrackClick
<1>2. pc' \in [Processors -> Steps] /\ \A p \in Processors :
          pc'[p] \in {"read", "fetched"} => pc'[p] = pc[p]
    BY DEF TrackClick, Steps
<1>3. CASE UNCHANGED <<seen, raw>>
    BY <1>2, <1>3 DEF TrackClick, Held, HeldOk, NothingLost
<1>4. CASE imp \notin seen
    <2> DEFINE e == [imp |-> imp, key |-> <<CampaignOf[imp], minute>>]
    <2>1. e \in Events
        BY ConstantsAssumption DEF Events, Keys
    <2>2. raw' = Append(raw, e) /\ seen' = seen \cup {imp}
        BY <1>1, <1>4 DEF RecordClick
    <2>3. raw' \in Seq(Events) /\ Len(raw') = Len(raw) + 1
        BY <2>1, <2>2
    <2> HIDE DEF e
    <2>4. TypeOK'
        BY <1>2, <2>2, <2>3 DEF TrackClick
    <2>5. \A n \in 0..Len(raw) : \A k \in Keys : Clicks(raw', k, 0, n) = Clicks(raw, k, 0, n)
        BY <2>1, <2>2, ClicksAppend
    <2>6. NothingLost'
        BY <2>5 DEF TrackClick, NothingLost
    <2>7. Held'
        BY <1>2, <2>3, <2>5 DEF TrackClick, Held, HeldOk, Covered
    <2> QED
        BY <2>4, <2>6, <2>7
<1> QED
    BY <1>1, <1>3, <1>4 DEF RecordClick

(* A batch starts where the metrics cover everything, adds the clicks of   *)
(* its interval and leaves the cursor at its end.                          *)
LEMMA RunOnceKeeps ==
    ASSUME LossInv, NEW p \in Processors, RunOnce(p)
    PROVE  LossInv'
<1> USE DEF LossInv, TypeOK
<1>1. CASE GetCursor(p)
    BY <1>1 DEF GetCursor, Held, HeldOk, NothingLost, Covered, Steps
<1>2. CASE FetchRawAfter(p)
    <2>1. CASE from[p] = Len(raw)
        BY <1>2, <2>1, RestType DEF FetchRawAfter, Held, HeldOk, NothingLost
    <2>2. CASE from[p] # Len(raw)
        <3>1. PICK n \in (from[p] + 1)..Len(raw) : upto' = [upto EXCEPT ![p] = n]
            BY <1>2, <2>2 DEF FetchRawAfter
        <3>2. pc[p] = "read" /\ pc' = [pc EXCEPT ![p] = "fetched"]
              /\ UNCHANGED <<seen, raw, derived, cursor, from, rebuilds, crashes>>
            BY <1>2, <2>2 DEF FetchRawAfter
        <3>3. TypeOK' /\ NothingLost'
            BY <3>1, <3>2 DEF NothingLost, Steps
        <3>4. Held'
            BY <3>1, <3>2 DEF Held, HeldOk
        <3> QED
            BY <3>3, <3>4
    <2> QED
        BY <2>1, <2>2
<1>3. CASE CommitDeltasAndCursor(p)
    <2> DEFINE f == from[p]
               u == upto[p]
    <2>1. /\ f \in 0..Len(raw) /\ Covered(derived, raw, f)
          /\ u \in f..Len(raw)
        BY <1>3 DEF CommitDeltasAndCursor, Held, HeldOk
    <2>2. /\ derived' = [k \in Keys |-> derived[k] + Clicks(raw, k, f, u)]
          /\ cursor' = u
          /\ pc' = [pc EXCEPT ![p] = Rest(p)]
          /\ UNCHANGED <<seen, raw, from, upto, rebuilds, crashes>>
        BY <1>3 DEF CommitDeltasAndCursor
    <2> HIDE DEF f, u
    <2>3. \A k \in Keys : /\ Clicks(raw, k, f, u) \in Nat
                          /\ Clicks(raw, k, 0, f) \in Nat
                          /\ Clicks(raw, k, 0, u) = Clicks(raw, k, 0, f) + Clicks(raw, k, f, u)
        BY <2>1, ClicksNat, ClicksSplit
    <2>4. TypeOK'
        BY <2>1, <2>2, <2>3, RestType
    <2>5. NothingLost'
        BY <2>1, <2>2, <2>3 DEF NothingLost, Covered
    <2>6. ASSUME NEW n \in 0..Len(raw), Covered(derived, raw, n)
          PROVE  Covered(derived', raw, n)
        BY <2>2, <2>3, <2>6, ClicksNat DEF Covered
    <2>7. Held'
        BY <2>2, <2>6, RestType DEF Held, HeldOk
    <2> QED
        BY <2>4, <2>5, <2>7
<1> QED
    BY <1>1, <1>2, <1>3 DEF RunOnce

LEMMA CrashKeeps ==
    ASSUME LossInv, NEW p \in Processors, Crash(p)
    PROVE  LossInv'
BY RestType DEF LossInv, TypeOK, Crash, Held, HeldOk, NothingLost

(* A rebuilt count contains every raw event, hence those below any cursor. *)
LEMMA RebuildKeeps ==
    ASSUME LossInv, NEW lo \in Nat, NEW hi \in Nat, Rebuild(lo, hi)
    PROVE  LossInv'
<1> USE DEF LossInv, TypeOK
<1>1. ASSUME NEW n \in 0..Len(raw), NEW k \in Keys
      PROVE  /\ Clicks(raw, k, 0, n) \in Nat
             /\ Clicks(raw, k, 0, Len(raw)) \in Nat
             /\ Clicks(raw, k, 0, Len(raw)) >= Clicks(raw, k, 0, n)
    <2>1. n \in Nat /\ Len(raw) \in Nat /\ n <= Len(raw)
        OBVIOUS
    <2>2. /\ Clicks(raw, k, 0, n) \in Nat /\ Clicks(raw, k, n, Len(raw)) \in Nat
          /\ Clicks(raw, k, 0, Len(raw)) \in Nat
        BY <2>1, ClicksNat
    <2>3. Clicks(raw, k, 0, Len(raw)) = Clicks(raw, k, 0, n) + Clicks(raw, k, n, Len(raw))
        BY <2>1, ClicksSplit
    <2> QED
        BY <2>2, <2>3
<1>2. /\ derived' \in [Keys -> Nat]
      /\ \A k \in Keys : derived'[k] = derived[k] \/ derived'[k] = Clicks(raw, k, 0, Len(raw))
    <2>1. \A k \in Keys : Clicks(raw, k, 0, Len(raw)) \in Nat
        BY ClicksNat
    <2> QED
        BY <2>1 DEF Rebuild
<1>3. ASSUME NEW n \in 0..Len(raw), Covered(derived, raw, n)
      PROVE  Covered(derived', raw, n)
    BY <1>1, <1>2, <1>3 DEF Covered
<1>4. UNCHANGED <<seen, raw, cursor, pc, from, upto, crashes>> /\ rebuilds' \in Nat
    BY DEF Rebuild
<1>5. TypeOK'
    BY <1>2, <1>4
<1>6. NothingLost'
    BY <1>3, <1>4 DEF NothingLost, Covered
<1>7. Held'
    BY <1>3, <1>4 DEF Held, HeldOk
<1> QED
    BY <1>5, <1>6, <1>7

LEMMA LossInit == Init => LossInv
<1> SUFFICES ASSUME Init PROVE LossInv
    OBVIOUS
<1>1. Len(raw) = 0 /\ raw \in Seq(Events)
    BY DEF Init
<1>2. TypeOK
    BY <1>1 DEF Init, TypeOK, Steps, Processors
<1>3. Held
    BY DEF Init, Held, HeldOk
<1>4. NothingLost
    BY NoClicks DEF Init, NothingLost
<1> QED
    BY <1>2, <1>3, <1>4 DEF LossInv

LEMMA LossStep == LossInv /\ [Next]_vars => LossInv'
<1> SUFFICES ASSUME LossInv, [Next]_vars PROVE LossInv'
    OBVIOUS
<1>1. CASE UNCHANGED vars
    BY <1>1 DEF vars, LossInv, TypeOK, Held, HeldOk, NothingLost
<1>2. ASSUME NEW lo \in Minutes, NEW hi \in Minutes, Rebuild(lo, hi + 1) PROVE LossInv'
    <2>1. lo \in Nat /\ hi + 1 \in Nat
        BY ConstantsAssumption
    <2> QED
        BY <1>2, <2>1, RebuildKeeps
<1> QED
    BY <1>1, <1>2, TrackClickKeeps, RunOnceKeeps, CrashKeeps DEF Next

(* The inductive invariant: types, what processors hold, nothing lost. *)
THEOREM LossInvariant == Spec => []LossInv
BY LossInit, LossStep, PTL DEF Spec

(* Tables, cursor and processors keep their types, for any number of       *)
(* requests, workers, rebuilds and crashes.                                *)
THEOREM WellTyped == Spec => []TypeOK
<1>1. LossInv => TypeOK
    BY DEF LossInv
<1> QED
    BY <1>1, LossInvariant, PTL

(* Whatever requests, workers, rebuilds and crashes do to each other, the  *)
(* metrics contain every raw event below the cursor.                       *)
THEOREM NothingIsLost == Spec => []NothingLost
<1>1. LossInv => NothingLost
    BY DEF LossInv
<1> QED
    BY <1>1, LossInvariant, PTL

-----------------------------------------------------------------------------
(* The pipeline.  The partial aggregates of a key are disjoint classes of  *)
(* the batch's events, so that their counts add up to the key's.           *)

PartialOf(mapped, i) ==
    [partition |-> mapped[i].partition, key |-> mapped[i].key,
     count |-> Cardinality({j \in DOMAIN mapped : mapped[j] = mapped[i]})]

KeyTotal(partials, k) ==
    SumFunctionOnSet([p \in partials |-> p.count], {p \in partials : p.key = k})

KeyCount(events, k) == Cardinality({i \in 1..Len(events) : events[i].key = k})

ArePartials(partials, mapped) == partials = {PartialOf(mapped, i) : i \in DOMAIN mapped}

AreMapped(mapped, n, Partitions, Names) ==
    /\ DOMAIN mapped = 1..n
    /\ \A i \in 1..n : mapped[i] \in [partition : Partitions, key : Names]

MappedCount(mapped, n, k) == Cardinality({i \in 1..n : mapped[i].key = k})

LEMMA AggregateIsImage ==
    ASSUME NEW mapped
    PROVE  ArePartials(Aggregate(mapped), mapped)
BY DEF Aggregate, PartialOf, ArePartials

LEMMA PartialsOfKey ==
    ASSUME NEW n \in Nat, NEW mapped, NEW Partitions, NEW Names,
           AreMapped(mapped, n, Partitions, Names),
           NEW k,
           NEW partials, ArePartials(partials, mapped)
    PROVE  KeyTotal(partials, k) = MappedCount(mapped, n, k)
<1> DEFINE S == {i \in 1..n : mapped[i].key = k}
           T == {p \in partials : p.key = k}
           K == [i \in 1..n |-> PartialOf(mapped, i)]
           one == [i \in S |-> 1]
           g == [p \in partials |-> p.count]
<1> USE DEF AreMapped
<1> partials = {PartialOf(mapped, i) : i \in 1..n}
    BY DEF ArePartials
<1>0. IsFiniteSet(1..n)
    BY FS_Interval
<1>1. IsFiniteSet(1..n) /\ IsFiniteSet(S)
    <2>1. S \in SUBSET (1..n)
        OBVIOUS
    <2> QED
        BY <1>0, <2>1, FS_Subset
<1>2. IsFiniteSet(T)
    <2>1. K \in Surjection(1..n, partials)
        BY DEF Surjection
    <2>2. IsFiniteSet(partials)
        BY <1>1, <2>1, FS_Surjection
    <2> QED
        BY <2>2, FS_Subset
<1>3. \A i \in 1..n : K[i].key = mapped[i].key /\ K[i] \in partials
    BY DEF PartialOf
<1>4. \A i \in S : K[i] \in T
    BY <1>3
<1>5. ASSUME NEW p \in T PROVE g[p] = SumFunctionOnSet(one, Class(S, K, p))
    <2>1. PICK i \in 1..n : p = PartialOf(mapped, i)
        OBVIOUS
    <2>2. mapped[i].key = k
        BY <1>3, <2>1
    <2>3. \A j \in 1..n : mapped[j] = mapped[i] <=> K[j] = p /\ j \in S
        <3> TAKE j \in 1..n
        <3>1. K[j] = PartialOf(mapped, j)
            OBVIOUS
        <3>2. CASE mapped[j] = mapped[i]
            BY <2>1, <2>2, <3>1, <3>2 DEF PartialOf
        <3>3. CASE K[j] = p
            <4>1. mapped[j].partition = mapped[i].partition /\ mapped[j].key = mapped[i].key
                BY <2>1, <3>1, <3>3 DEF PartialOf
            <4>2. mapped[j] \in [partition : Partitions, key : Names]
                  /\ mapped[i] \in [partition : Partitions, key : Names]
                OBVIOUS
            <4>3. mapped[j] = mapped[i]
                BY <4>1, <4>2
            <4>4. j \in S
                BY <2>2, <4>1
            <4> QED
                BY <3>3, <4>3, <4>4
        <3> QED
            BY <3>2, <3>3
    <2>4. {j \in DOMAIN mapped : mapped[j] = mapped[i]} = Class(S, K, p)
        BY <2>3 DEF Class
    <2>5. g[p] = Cardinality(Class(S, K, p))
        BY <2>1, <2>4 DEF PartialOf
    <2>6. IsFiniteSet(Class(S, K, p)) /\ \A j \in Class(S, K, p) : one[j] = 1
        BY <1>1, FS_Subset DEF Class
    <2> HIDE DEF one, g, S, K
    <2> QED
        BY <2>5, <2>6, SumOnes
<1>6. AreCounts(one, S) /\ \A i \in S : one[i] = 1
    BY DEF AreCounts
<1> HIDE DEF S, T, K, one, g
<1>7. SumFunctionOnSet(g, T) = SumFunctionOnSet(one, S)
    BY <1>1, <1>2, <1>4, <1>5, <1>6, SumClasses
<1>8. SumFunctionOnSet(one, S) = Cardinality(S)
    BY <1>1, <1>6, SumOnes
<1> QED
    BY <1>7, <1>8 DEF S, T, g, KeyTotal, MappedCount

(* Map, Aggregate and Reduce count the events of each key. *)
LEMMA MapIsTyped ==
    ASSUME NEW events \in Seq(Events), NEW i \in 1..Len(events)
    PROVE  /\ Map(events)[i].key = events[i].key
           /\ Map(events)[i] \in [partition : {PartitionKey(events[j]) : j \in 1..Len(events)},
                                  key : Keys]
<1>1. Map(events)[i] = [partition |-> PartitionKey(events[i]), key |-> events[i].key]
    BY DEF Map
<1>2. events[i] \in Events
    OBVIOUS
<1>3. events[i].key \in Keys
    BY <1>2 DEF Events
<1> QED
    BY <1>1, <1>3

LEMMA PipelineCounts ==
    ASSUME NEW events \in Seq(Events)
    PROVE  Deltas(events) = [k \in {events[i].key : i \in 1..Len(events)} |-> KeyCount(events, k)]
<1>1. PICK n \in Nat : n = Len(events)
    OBVIOUS
<1>2. PICK mapped : mapped = Map(events)
    OBVIOUS
<1>3. PICK Parts : Parts = {PartitionKey(events[j]) : j \in 1..n}
    OBVIOUS
<1>4. PICK partials : partials = Aggregate(mapped)
    OBVIOUS
<1>5. DOMAIN mapped = 1..n
    BY <1>1, <1>2 DEF Map
<1>6. \A i \in 1..n : mapped[i].key = events[i].key /\ mapped[i] \in [partition : Parts, key : Keys]
    BY <1>1, <1>2, <1>3, MapIsTyped
<1>7. ArePartials(partials, mapped)
    BY <1>4, AggregateIsImage
<1>8. \A i \in 1..n : PartialOf(mapped, i).key = events[i].key
    BY <1>6 DEF PartialOf
<1>9. {p.key : p \in partials} = {events[i].key : i \in 1..n}
    BY <1>5, <1>7, <1>8 DEF ArePartials
<1>10. ASSUME NEW k PROVE KeyTotal(partials, k) = KeyCount(events, k)
    <2>1. KeyTotal(partials, k) = MappedCount(mapped, n, k)
        <3>1. AreMapped(mapped, n, Parts, Keys)
            BY <1>5, <1>6 DEF AreMapped
        <3> QED
            BY <1>7, <3>1, PartialsOfKey
    <2>2. {i \in 1..n : mapped[i].key = k} = {i \in 1..Len(events) : events[i].key = k}
        BY <1>1, <1>6
    <2> QED
        BY <2>1, <2>2 DEF KeyCount, MappedCount
<1>11. Deltas(events) = [k \in {p.key : p \in partials} |-> KeyTotal(partials, k)]
    BY <1>2, <1>4 DEF Deltas, Reduce, KeyTotal
<1> QED
    BY <1>1, <1>9, <1>10, <1>11

(* A batch's events are those of the raw table between its ends. *)
LEMMA BatchClicks ==
    ASSUME NEW events \in Seq(Events), NEW f \in Nat, NEW u \in f..Len(events), NEW k,
           NEW batch, batch = SubSeq(events, f + 1, u)
    PROVE  /\ batch \in Seq(Events) /\ Len(batch) = u - f
           /\ \A i \in 1..(u - f) : batch[i] = events[f + i]
           /\ KeyCount(batch, k) = Clicks(events, k, f, u)
<1>1. /\ batch \in Seq(Events) /\ Len(batch) = u - f
      /\ \A i \in 1..(u - f) : batch[i] = events[f + i]
    OBVIOUS
<1> DEFINE A == {i \in 1..Len(batch) : batch[i].key = k}
           B == ClickIds(events, k, f, u)
           shift == [i \in A |-> f + i]
<1>2. IsFiniteSet(A)
    <2>1. IsFiniteSet(1..Len(batch))
        BY <1>1, FS_Interval
    <2>2. A \in SUBSET (1..Len(batch))
        OBVIOUS
    <2> QED
        BY <2>1, <2>2, FS_Subset
<1>3. shift \in Bijection(A, B)
    <2>1. shift \in [A -> B]
        BY SMTT(30), <1>1 DEF ClickIds
    <2>2. \A i, j \in A : shift[i] = shift[j] => i = j
        BY <1>1
    <2>3. \A b \in B : \E i \in A : shift[i] = b
        <3> TAKE b \in B
        <3>1. b - f \in A /\ shift[b - f] = b
            BY <1>1 DEF ClickIds
        <3> QED
            BY <3>1
    <2> QED
        BY <2>1, <2>2, <2>3 DEF Bijection, Injection, Surjection, IsInjective
<1>4. ExistsBijection(A, B)
    BY <1>3 DEF ExistsBijection
<1> HIDE DEF A, B
<1>5. Cardinality(B) = Cardinality(A)
    BY <1>2, <1>4, FS_Bijection
<1> QED
    BY <1>1, <1>5 DEF A, B, Clicks, KeyCount

(* Whatever batch a processor has fetched, the pipeline's deltas are the   *)
(* numbers of its clicks, for any sharding and any hot ads.                *)
THEOREM PipelineIsCorrect == Spec => []DeltasAreClicks
<1>1. LossInv => DeltasAreClicks
    <2> SUFFICES ASSUME LossInv, NEW p \in Processors, pc[p] = "fetched"
                 PROVE  Deltas(SubSeq(raw, from[p] + 1, upto[p])) =
                        [k \in {raw[i].key : i \in (from[p] + 1)..upto[p]} |->
                            Clicks(raw, k, from[p], upto[p])]
        BY DEF DeltasAreClicks
    <2> DEFINE f == from[p]
               u == upto[p]
               batch == SubSeq(raw, f + 1, u)
    <2>1. raw \in Seq(Events) /\ f \in Nat /\ u \in f..Len(raw)
        BY DEF LossInv, TypeOK, Held, HeldOk
    <2> HIDE DEF f, u, batch
    <2>2. /\ batch \in Seq(Events) /\ Len(batch) = u - f
          /\ \A i \in 1..(u - f) : batch[i] = raw[f + i]
        BY <2>1, BatchClicks DEF batch
    <2>3. \A k : KeyCount(batch, k) = Clicks(raw, k, f, u)
        <3> TAKE k
        <3>1. batch = SubSeq(raw, f + 1, u)
            BY DEF batch
        <3> QED
            BY <2>1, <3>1, BatchClicks
    <2>4. {batch[i].key : i \in 1..Len(batch)} = {raw[i].key : i \in (f + 1)..u}
        <3>1. \A i \in 1..(u - f) : f + i \in (f + 1)..u
            BY <2>1
        <3>2. \A i \in (f + 1)..u : i - f \in 1..(u - f) /\ batch[i - f] = raw[i]
            <4> TAKE i \in (f + 1)..u
            <4>1. i - f \in 1..(u - f) /\ f + (i - f) = i
                BY <2>1
            <4> QED
                BY <2>2, <4>1
        <3> QED
            BY SMTT(30), <2>2, <3>1, <3>2
    <2>5. Deltas(batch) = [k \in {batch[i].key : i \in 1..Len(batch)} |-> KeyCount(batch, k)]
        BY <2>2, PipelineCounts
    <2> QED
        BY <2>3, <2>4, <2>5 DEF f, u, batch
<1> QED
    BY <1>1, LossInvariant, PTL

-----------------------------------------------------------------------------
(* One processor and no rebuild: the cursor a batch started from is still  *)
(* the cursor when the batch is committed.                                 *)

OneProcessor == (\E w : Workers = {w}) /\ ~Background /\ MaxRebuilds = 0

CursorHeld ==
    /\ \A r \in Requests : pc[r] \in {"new", "done"}
    /\ \A w \in Workers : pc[w] \in {"read", "fetched"} => from[w] = cursor

(* The reservations are exactly for the accepted clicks. *)
Reserved == \A i \in 1..Len(raw) : raw[i].imp \in seen

OnceInv == CursorHeld /\ Reserved /\ ExactlyOnce

(* What one step does to the ledger; the deltas of a commit bring the      *)
(* metrics from the counts at the old cursor to those at the new one.      *)
LEMMA OnceStep ==
    ASSUME OneProcessor, LossInv, OnceInv, [Next]_vars
    PROVE  OnceInv' /\ [Ledger!Next]_<<raw, cursor, derived>>
<1> USE DEF OneProcessor, LossInv, OnceInv, TypeOK
<1>0. Requests \cap Workers = {}
    BY ConstantsAssumption
<1>1. CASE UNCHANGED vars
    BY <1>1 DEF vars, CursorHeld, Reserved, ExactlyOnce
<1>2. ASSUME NEW r \in Requests, TrackClick(r)
      PROVE  OnceInv' /\ [Ledger!Next]_<<raw, cursor, derived>>
    <2>1. PICK imp \in Impressions, minute \in Minutes : RecordClick(imp, minute)
        BY <1>2 DEF TrackClick
    <2>2. /\ pc' = [pc EXCEPT ![r] = "done"]
          /\ UNCHANGED <<derived, cursor, from, upto, rebuilds, crashes>>
        BY <1>2 DEF TrackClick
    <2>3. CursorHeld'
        BY <1>0, <2>2 DEF CursorHeld, Processors
    <2>4. CASE UNCHANGED <<seen, raw>>
        BY <2>2, <2>3, <2>4 DEF Reserved, ExactlyOnce
    <2>5. CASE imp \notin seen
        <3> DEFINE e == [imp |-> imp, key |-> <<CampaignOf[imp], minute>>]
        <3>1. e \in Events /\ e.imp = imp
            BY ConstantsAssumption DEF Events, Keys
        <3>2. raw' = Append(raw, e) /\ seen' = seen \cup {imp}
            BY <2>1, <2>5 DEF RecordClick
        <3>3. Reserved'
            BY <3>1, <3>2 DEF Reserved
        <3>4. \A k \in Keys : Clicks(raw', k, 0, cursor) = Clicks(raw, k, 0, cursor)
            BY <3>1, <3>2, ClicksAppend
        <3>5. ExactlyOnce'
            BY <2>2, <3>4 DEF ExactlyOnce
        <3>6. \A i \in DOMAIN raw : raw[i].imp # imp
            BY <2>5 DEF Reserved
        <3>7. Ledger!Accept(imp, minute)
            BY <2>2, <3>2, <3>6 DEF Ledger!Accept
        <3> QED
            BY <2>3, <3>3, <3>5, <3>7 DEF Ledger!Next
    <2> QED
        BY <2>1, <2>4, <2>5 DEF RecordClick
<1>3. ASSUME NEW p \in Processors, GetCursor(p) \/ FetchRawAfter(p) \/ Crash(p)
      PROVE  OnceInv' /\ [Ledger!Next]_<<raw, cursor, derived>>
    <2>1. UNCHANGED <<seen, raw, derived, cursor>>
        BY <1>3 DEF GetCursor, FetchRawAfter, Crash
    <2>2. p \in Workers
        BY <1>3 DEF GetCursor, FetchRawAfter, Crash, CursorHeld, Processors
    <2>3. CursorHeld'
        BY <1>0, <1>3, <2>2, RestType
           DEF GetCursor, FetchRawAfter, Crash, CursorHeld, Processors, Steps
    <2> QED
        BY <2>1, <2>3 DEF Reserved, ExactlyOnce
<1>4. ASSUME NEW p \in Processors, CommitDeltasAndCursor(p)
      PROVE  OnceInv' /\ [Ledger!Next]_<<raw, cursor, derived>>
    <2> DEFINE u == upto[p]
    <2>1. p \in Workers /\ from[p] = cursor /\ u \in cursor..Len(raw)
        BY <1>4 DEF CommitDeltasAndCursor, CursorHeld, Processors, Held, HeldOk
    <2>2. /\ derived' = [k \in Keys |-> derived[k] + Clicks(raw, k, cursor, u)]
          /\ cursor' = u
          /\ pc' = [pc EXCEPT ![p] = Rest(p)]
          /\ UNCHANGED <<seen, raw, from, upto, rebuilds, crashes>>
        BY <1>4, <2>1 DEF CommitDeltasAndCursor
    <2> HIDE DEF u
    <2>3. \A k \in Keys : Clicks(raw, k, 0, u) = Clicks(raw, k, 0, cursor) + Clicks(raw, k, cursor, u)
        BY <2>1, ClicksSplit
    <2>4. derived' = [k \in Keys |-> Clicks(raw, k, 0, u)]
        BY <2>2, <2>3 DEF ExactlyOnce
    <2>5. ExactlyOnce'
        BY <2>2, <2>4 DEF ExactlyOnce
    <2>6. CursorHeld'
        BY <1>0, <2>1, <2>2, RestType DEF CursorHeld, Processors
    <2>7. CASE u = cursor
        <3>1. derived' = derived
            BY <2>4, <2>7 DEF ExactlyOnce
        <3> QED
            BY <2>2, <2>5, <2>6, <2>7, <3>1 DEF Reserved
    <2>8. CASE u # cursor
        <3>1. u \in (cursor + 1)..Len(raw)
            BY <2>1, <2>8
        <3>2. \A S : Ledger!Cardinality(S) = Cardinality(S)
            BY DEF Ledger!Cardinality, Cardinality
        <3>3. Ledger!Publish(u)
            BY <2>2, <2>4, <3>2 DEF Ledger!Publish, Ledger!Keys, Keys, Clicks, ClickIds
        <3> QED
            BY <2>2, <2>5, <2>6, <3>1, <3>3 DEF Reserved, Ledger!Next
    <2> QED
        BY <2>7, <2>8
<1>5. ASSUME NEW lo, NEW hi, Rebuild(lo, hi)
      PROVE  OnceInv' /\ [Ledger!Next]_<<raw, cursor, derived>>
    BY <1>5 DEF Rebuild
<1> QED
    BY <1>1, <1>2, <1>3, <1>4, <1>5 DEF Next, RunOnce

LEMMA OnceInit == Init => OnceInv /\ Ledger!Init
<1> SUFFICES ASSUME Init PROVE OnceInv /\ Ledger!Init
    OBVIOUS
<1>1. ExactlyOnce
    BY NoClicks DEF Init, ExactlyOnce
<1>2. CursorHeld /\ Reserved
    <2>1. CursorHeld
        BY ConstantsAssumption DEF Init, CursorHeld, Processors
    <2>2. Len(raw) = 0
        BY DEF Init
    <2> QED
        BY <2>1, <2>2 DEF Reserved
<1>3. Ledger!Init
    BY DEF Init, Ledger!Init, Ledger!Keys, Keys
<1> QED
    BY <1>1, <1>2, <1>3 DEF OnceInv

(* One stream worker, crashing at any point: every raw event below the     *)
(* cursor is counted once and no other is.                                 *)
THEOREM CountedExactlyOnce == ASSUME OneProcessor PROVE Spec => []ExactlyOnce
<1>1. LossInv /\ OnceInv /\ [Next]_vars => OnceInv'
    BY OnceStep
<1>2. OnceInv => ExactlyOnce
    BY DEF OnceInv
<1> QED
    BY <1>1, <1>2, OnceInit, LossInvariant, PTL DEF Spec

(* One stream worker: the database is a ledger of clicks accepted once per *)
(* impression and published in order.                                      *)
THEOREM ImplementsLedger == ASSUME OneProcessor PROVE Spec => LedgerRefinement
<1>1. LossInv /\ OnceInv /\ [Next]_vars => OnceInv' /\ [Ledger!Next]_<<raw, cursor, derived>>
    BY OnceStep
<1> QED
    BY <1>1, OnceInit, LossInvariant, PTL DEF Spec, LedgerRefinement, Ledger!Spec

-----------------------------------------------------------------------------
(* The specification of two deployments: the one with one processor is the *)
(* service under OneProcessor, and the ledger of the other one stays as it *)
(* begins.                                                                 *)

SequentialInv == scenario = "sequential" => LossInv /\ OnceInv

(* The ledger of ScenarioSpec. *)
Accepted == IF scenario = "sequential" THEN raw ELSE <<>>
Published == IF scenario = "sequential" THEN cursor ELSE 0
Metrics == [k \in Keys |-> IF scenario = "sequential" THEN derived[k] ELSE 0]

LEMMA SequentialTables ==
    ASSUME LossInv, scenario = "sequential"
    PROVE  Accepted = raw /\ Published = cursor /\ Metrics = derived
BY DEF LossInv, TypeOK, Accepted, Published, Metrics

LEMMA SequentialLedgerInit == ScenarioInit => SequentialInv /\ SequentialLedger!Init
<1> SUFFICES ASSUME ScenarioInit PROVE SequentialInv /\ SequentialLedger!Init
    OBVIOUS
<1>1. SequentialInv
    BY LossInit, OnceInit DEF ScenarioInit, SequentialInv
<1>2. Accepted = <<>> /\ Published = 0 /\ Metrics = [k \in Keys |-> 0]
    BY DEF ScenarioInit, Init, Accepted, Published, Metrics
<1>3. SequentialLedger!Init
    BY <1>2 DEF SequentialLedger!Init, SequentialLedger!Keys, Keys, Accepted, Published, Metrics
<1> QED
    BY <1>1, <1>3

LEMMA SequentialLedgerStep ==
    ASSUME OneProcessor, SequentialInv, [ScenarioNext]_scenarioVars
    PROVE  SequentialInv' /\ [SequentialLedger!Next]_<<Accepted, Published, Metrics>>
<1>1. CASE scenario = "sequential"
    <2>1. scenario' = "sequential" /\ [Next]_vars
        BY <1>1 DEF ScenarioNext, scenarioVars
    <2>2. LossInv /\ OnceInv
        BY <1>1 DEF SequentialInv
    <2>3. LossInv' /\ OnceInv' /\ [Ledger!Next]_<<raw, cursor, derived>>
        BY <2>1, <2>2, LossStep, OnceStep
    <2>4. Accepted = raw /\ Published = cursor /\ Metrics = derived
        BY <1>1, <2>2, SequentialTables
    <2>5. Accepted' = raw' /\ Published' = cursor' /\ Metrics' = derived'
        BY <2>1, <2>3 DEF LossInv, TypeOK, Accepted, Published, Metrics
    <2>6. ASSUME NEW imp \in Impressions, NEW minute \in Minutes, Ledger!Accept(imp, minute)
          PROVE  SequentialLedger!Accept(imp, minute)
        BY <2>4, <2>5, <2>6 DEF Ledger!Accept, SequentialLedger!Accept, Accepted, Published, Metrics
    <2>7. ASSUME NEW n \in (cursor + 1)..Len(raw), Ledger!Publish(n)
          PROVE  SequentialLedger!Publish(n)
        <3>1. \A S : /\ Ledger!Cardinality(S) = Cardinality(S)
                     /\ SequentialLedger!Cardinality(S) = Cardinality(S)
            BY DEF Ledger!Cardinality, SequentialLedger!Cardinality, Cardinality
        <3>2. /\ cursor' = n /\ raw' = raw
              /\ derived' = [k \in Keys |-> Cardinality({i \in 1..n : raw[i].key = k})]
            BY <2>7, <3>1 DEF Ledger!Publish, Ledger!Keys, Keys
        <3>3. /\ Published' = n /\ Accepted' = Accepted
              /\ Metrics' = [k \in Keys |->
                                SequentialLedger!Cardinality({i \in 1..n : Accepted[i].key = k})]
            BY <2>4, <2>5, <3>1, <3>2
        <3> QED
            BY <3>3 DEF SequentialLedger!Publish, SequentialLedger!Keys, Keys,
                        Accepted, Published, Metrics
    <2>8. [SequentialLedger!Next]_<<Accepted, Published, Metrics>>
        BY <2>3, <2>4, <2>5, <2>6, <2>7
           DEF Ledger!Next, SequentialLedger!Next, Accepted, Published
    <2> QED
        BY <2>3, <2>8 DEF SequentialInv
<1>2. CASE scenario # "sequential"
    BY <1>2 DEF ScenarioNext, scenarioVars, SequentialInv, Accepted, Published, Metrics
<1> QED
    BY <1>1, <1>2

(* The run's property: with one stream worker the database is the abstract *)
(* ledger, whatever the other deployment does to its own.                  *)
THEOREM SequentialImplementsLedger ==
    ASSUME OneProcessor PROVE ScenarioSpec => SequentialLedgerRefinement
<1>1. ScenarioInit => SequentialInv /\ SequentialLedger!Init
    BY SequentialLedgerInit
<1>2. SequentialInv /\ [ScenarioNext]_scenarioVars
      => SequentialInv' /\ [SequentialLedger!Next]_<<Accepted, Published, Metrics>>
    BY SequentialLedgerStep
<1> QED
    BY <1>1, <1>2, PTL
       DEF ScenarioSpec, SequentialLedgerRefinement, SequentialLedger!Spec,
           Accepted, Published, Metrics
=============================================================================
