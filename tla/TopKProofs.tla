----------------------------- MODULE TopKProofs -----------------------------
(***************************************************************************)
(* Proofs about the top-k tables, for any number of videos, shards,        *)
(* partitions, records and batches, any calendar, and consumers and        *)
(* loaders that die anywhere.                                              *)
(***************************************************************************)
EXTENDS MCTopK, SumTheorems, SequenceTheorems, FunctionTheorems

-----------------------------------------------------------------------------
(* Arithmetic of the windows.                                              *)

LEMMA DivisionIsUnique ==
    ASSUME NEW h \in Nat \ {0}, NEW p \in Nat, NEW q \in Nat, NEW r \in Nat, NEW s \in Nat,
           r < h, s < h, h * p + r = h * q + s
    PROVE  p = q /\ r = s
OBVIOUS

LEMMA Floor ==
    ASSUME NEW h \in Nat \ {0}, NEW t \in Nat
    PROVE  /\ t - (t % h) \in Nat /\ t - (t % h) <= t /\ t < t - (t % h) + h
           /\ (t - (t % h)) % h = 0
<1>1. t % h \in Nat /\ t % h < h
    OBVIOUS
<1>2. t \div h \in Nat /\ t = h * (t \div h) + (t % h)
    OBVIOUS
<1>3. t - (t % h) = h * (t \div h)
    BY <1>1, <1>2
<1>4. \A q \in Nat : (h * q) % h = 0 /\ h * q \in Nat
    OBVIOUS
<1> DEFINE q == t \div h
           m == t % h
<1>5. (h * q) % h = 0 /\ h * q \in Nat
    BY <1>2, <1>4
<1>6. t - m = h * q /\ m \in Nat /\ m < h
    BY <1>1, <1>3
<1> HIDE DEF q, m
<1>7. /\ t - m \in Nat /\ t - m <= t /\ t < t - m + h
      /\ (t - m) % h = 0
    BY <1>5, <1>6
<1> QED
    BY <1>7 DEF m

LEMMA FloorIsUnique ==
    ASSUME NEW h \in Nat \ {0}, NEW t \in Nat, NEW s \in Nat, s % h = 0, s <= t, t < s + h
    PROVE  s = t - (t % h)
<1> DEFINE p == s \div h
           q == t \div h
           r == t - s
           m == t % h
<1>1. p \in Nat /\ s = h * p
    OBVIOUS
<1>2. q \in Nat /\ m \in Nat /\ m < h /\ t = h * q + m
    OBVIOUS
<1>3. r \in Nat /\ r < h /\ t = s + r
    OBVIOUS
<1> HIDE DEF p, q, r, m
<1>4. h * p + r = h * q + m
    BY <1>1, <1>2, <1>3
<1>5. p \in Nat /\ q \in Nat /\ r \in Nat /\ m \in Nat /\ r < h /\ m < h
    BY <1>1, <1>2, <1>3
<1>6. r = m
    BY <1>4, <1>5, DivisionIsUnique
<1>7. s = t - m
    BY <1>3, <1>5, <1>6
<1> QED
    BY <1>7 DEF m

(* Some month has begun at any time, and the latest of them is its month.  *)
LEMMA MonthExists ==
    ASSUME NEW t \in Nat
    PROVE  \E m \in Months : IsMonthOf(m, t)
<1> DEFINE Less == {ss \in Nat \X Nat : ss[1] < ss[2]}
           Ago == {t - m : m \in {n \in Months : n <= t}}
<1>1. Ago \subseteq Nat /\ t \in Ago
    BY TimeAssumption
<1>2. PICK a \in Ago : \A b \in Ago : <<b, a>> \notin Less
    <2>1. IsWellFoundedOn(Less, Nat)
        BY NatLessThanWellFounded DEF OpToRel
    <2> HIDE DEF Ago, Less
    <2> QED
        BY <1>1, <2>1, WFMin
<1>3. PICK m \in Months : m <= t /\ a = t - m
    BY <1>2
<1>4. m \in Nat
    BY TimeAssumption
<1>5. ASSUME NEW n \in Months, m < n, n <= t PROVE FALSE
    <2>1. n \in Nat
        BY TimeAssumption
    <2>2. t - n \in Ago /\ t - n \in Nat /\ t - n < a /\ a \in Nat
        BY <1>3, <1>4, <1>5, <2>1
    <2>3. <<t - n, a>> \in Less
        BY <2>2
    <2> QED
        BY <1>2, <2>2, <2>3
<1> QED
    BY <1>3, <1>5 DEF IsMonthOf

LEMMA MonthIsUnique ==
    ASSUME NEW t \in Nat, NEW m \in Months, NEW n \in Months, IsMonthOf(m, t), IsMonthOf(n, t)
    PROVE  m = n
<1>1. m \in Nat /\ n \in Nat
    BY TimeAssumption
<1> QED
    BY <1>1 DEF IsMonthOf

LEMMA MonthStart ==
    ASSUME NEW t \in Nat
    PROVE  BucketStart("1month", t) \in Months /\ IsMonthOf(BucketStart("1month", t), t)
BY MonthExists DEF BucketStart

LEMMA BucketStarts ==
    ASSUME NEW t \in Nat
    PROVE  /\ BucketStart("1hour", t) = t - (t % HourLength)
           /\ BucketStart("1day", t) = t - (t % DayLength)
           /\ BucketStart("all_time", t) = 0
BY DEF BucketStart

(* A bucket begins at its start. *)
LEMMA StartOfStart ==
    ASSUME NEW w \in Windows, NEW t \in Nat
    PROVE  /\ BucketStart(w, t) \in Nat
           /\ BucketStart(w, BucketStart(w, t)) = BucketStart(w, t)
<1> USE TimeAssumption
<1>1. CASE w = "1hour"
    <2>1. BucketStart(w, t) \in Nat /\ BucketStart(w, t) % HourLength = 0
        <3>1. BucketStart(w, t) = t - (t % HourLength)
            BY <1>1, BucketStarts
        <3>2. t - (t % HourLength) \in Nat /\ (t - (t % HourLength)) % HourLength = 0
            BY Floor
        <3> QED
            BY <3>1, <3>2
    <2>2. BucketStart(w, BucketStart(w, t))
          = BucketStart(w, t) - (BucketStart(w, t) % HourLength)
        BY <1>1, <2>1, BucketStarts
    <2> QED
        BY <2>1, <2>2
<1>2. CASE w = "1day"
    <2>1. BucketStart(w, t) \in Nat /\ BucketStart(w, t) % DayLength = 0
        <3>1. BucketStart(w, t) = t - (t % DayLength)
            BY <1>2, BucketStarts
        <3>2. t - (t % DayLength) \in Nat /\ (t - (t % DayLength)) % DayLength = 0
            BY Floor
        <3> QED
            BY <3>1, <3>2
    <2>2. BucketStart(w, BucketStart(w, t))
          = BucketStart(w, t) - (BucketStart(w, t) % DayLength)
        BY <1>2, <2>1, BucketStarts
    <2> QED
        BY <2>1, <2>2
<1>3. CASE w = "1month"
    <2> DEFINE m == BucketStart("1month", t)
    <2>1. m \in Months /\ m \in Nat
        BY MonthStart
    <2> HIDE DEF m
    <2>2. IsMonthOf(m, m)
        BY <2>1 DEF IsMonthOf
    <2>3. BucketStart("1month", m) \in Months /\ IsMonthOf(BucketStart("1month", m), m)
        BY <2>1, MonthStart
    <2>4. BucketStart("1month", m) = m
        BY <2>1, <2>2, <2>3, MonthIsUnique
    <2> QED
        BY <1>3, <2>1, <2>4 DEF m
<1>4. CASE w = "all_time"
    BY <1>4, BucketStarts
<1> QED
    BY <1>1, <1>2, <1>3, <1>4 DEF Windows

(* What the native query compares with the ends of a bucket is in it.      *)
LEMMA BetweenEnds ==
    ASSUME NEW w \in Windows, NEW t \in Nat, NEW h \in Nat, h = BucketStart("1hour", h)
    PROVE  LET s == BucketStart(w, t)
           IN  (IF w = "1hour" THEN h = s ELSE s <= h /\ BeforeEnd(w, s, h))
               <=> BucketStart(w, h) = s
<1> USE TimeAssumption
<1> DEFINE s == BucketStart(w, t)
<1>1. s \in Nat /\ BucketStart(w, s) = s
    BY StartOfStart
<1>2. CASE w = "1hour"
    BY <1>2
<1>3. CASE w = "1day"
    <2>1. s % DayLength = 0
        BY <1>3, BucketStarts, Floor
    <2>2. BucketStart(w, h) = h - (h % DayLength)
        BY <1>3, BucketStarts
    <2>3. BeforeEnd(w, s, h) <=> h < s + DayLength
        BY <1>3 DEF BeforeEnd
    <2> HIDE DEF s
    <2>4. s <= h /\ h < s + DayLength => s = h - (h % DayLength)
        BY <1>1, <2>1, FloorIsUnique
    <2>5. h - (h % DayLength) <= h /\ h < h - (h % DayLength) + DayLength
        BY Floor
    <2>6. s <= h /\ BeforeEnd(w, s, h) <=> BucketStart(w, h) = s
        BY <2>2, <2>3, <2>4, <2>5
    <2> QED
        BY <1>3, <2>6 DEF s
<1>4. CASE w = "1month"
    <2>1. s \in Months /\ IsMonthOf(s, t)
        BY <1>4, MonthStart
    <2> HIDE DEF s
    <2>2. BucketStart(w, h) \in Months /\ IsMonthOf(BucketStart(w, h), h)
        BY <1>4, MonthStart
    <2>3. s <= h /\ BeforeEnd(w, s, h) <=> IsMonthOf(s, h)
        BY <1>4, <2>1 DEF BeforeEnd, IsMonthOf
    <2>4. s <= h /\ BeforeEnd(w, s, h) <=> BucketStart(w, h) = s
        BY <2>1, <2>2, <2>3, MonthIsUnique
    <2> QED
        BY <1>4, <2>4 DEF s
<1>5. CASE w = "all_time"
    <2>1. s = 0 /\ BucketStart(w, h) = 0 /\ BeforeEnd(w, s, h)
        BY <1>5, BucketStarts DEF BeforeEnd
    <2> QED
        BY <1>5, <2>1
<1> QED
    BY <1>2, <1>3, <1>4, <1>5 DEF Windows

-----------------------------------------------------------------------------
(* Tables of counters.                                                     *)

FiniteBag(table) ==
    /\ table \in [DOMAIN table -> {n \in Nat : n > 0}]
    /\ IsFiniteSet(DOMAIN table)

(* The count of a key, 0 where there is no row. *)
Stored(key, table) == IF key \in DOMAIN table THEN table[key] ELSE 0

LEMMA FiniteBagCounts ==
    ASSUME NEW table, FiniteBag(table)
    PROVE  /\ IsABag(table) /\ AreCounts(table, DOMAIN table)
           /\ \A key : Stored(key, table) \in Nat
           /\ \A key : key \in DOMAIN table <=> Stored(key, table) > 0
BY DEF FiniteBag, IsABag, AreCounts, Stored

LEMMA EmptyTable ==
    FiniteBag(EmptyBag) /\ DOMAIN EmptyBag = {} /\ \A key : Stored(key, EmptyBag) = 0
<1>1. DOMAIN EmptyBag = {}
    BY DEF EmptyBag, SetToBag
<1>2. EmptyBag \in [DOMAIN EmptyBag -> {n \in Nat : n > 0}]
    BY DEF EmptyBag, SetToBag
<1> QED
    BY <1>1, <1>2, FS_EmptySet DEF FiniteBag, Stored

AddsUp(A, B, C) == \A key : Stored(key, C) = Stored(key, A) + Stored(key, B)

LEMMA TablesAdded ==
    ASSUME NEW A, NEW B, NEW C, C = A (+) B, FiniteBag(A), FiniteBag(B)
    PROVE  FiniteBag(C) /\ DOMAIN C = DOMAIN A \cup DOMAIN B /\ AddsUp(A, B, C)
<1>1. DOMAIN C = DOMAIN A \cup DOMAIN B
    BY DEF (+)
<1>2. \A key \in DOMAIN A : A[key] \in Nat /\ A[key] > 0
    BY DEF FiniteBag
<1>3. \A key \in DOMAIN B : B[key] \in Nat /\ B[key] > 0
    BY DEF FiniteBag
<1>4. C = [key \in DOMAIN A \cup DOMAIN B |-> Stored(key, A) + Stored(key, B)]
    BY DEF (+), Stored
<1>5. \A key \in DOMAIN A \cup DOMAIN B :
          Stored(key, A) + Stored(key, B) \in {n \in Nat : n > 0}
    BY <1>2, <1>3 DEF Stored
<1>6. C \in [DOMAIN A \cup DOMAIN B -> {n \in Nat : n > 0}]
    BY <1>4, <1>5
<1>7. IsFiniteSet(DOMAIN A \cup DOMAIN B)
    BY FS_Union DEF FiniteBag
<1>8. \A key : Stored(key, C) = Stored(key, A) + Stored(key, B)
    BY <1>1, <1>4 DEF Stored
<1> QED
    BY <1>1, <1>6, <1>7, <1>8 DEF FiniteBag, AddsUp

LEMMA SumPositive ==
    ASSUME NEW S, IsFiniteSet(S), NEW f, AreCounts(f, S), NEW x \in S, f[x] > 0
    PROVE  SumFunctionOnSet(f, S) > 0
<1>1. SumFunctionOnSet(f, S) = f[x] + SumFunctionOnSet(f, S \ {x})
    BY SumRemove
<1>2. IsFiniteSet(S \ {x}) /\ AreCounts(f, S \ {x})
    BY FS_RemoveElement DEF AreCounts
<1>3. SumFunctionOnSet(f, S \ {x}) \in Nat /\ f[x] \in Nat
    BY <1>2, SumNat DEF AreCounts
<1> QED
    BY <1>1, <1>3

(* Rows that are not there count nothing. *)
LEMMA SumPadded ==
    ASSUME NEW S, IsFiniteSet(S), NEW D, NEW f, AreCounts(f, S \cap D),
           NEW g, \A x \in S : g[x] = IF x \in D THEN f[x] ELSE 0
    PROVE  SumFunctionOnSet(g, S) = SumFunctionOnSet(f, S \cap D)
<1>1. IsFiniteSet(S \cap D) /\ IsFiniteSet(S \ D)
    BY FS_Subset
<1>2. AreCounts(g, S \cap D) /\ AreCounts(g, S \ D)
    BY DEF AreCounts
<1>3. (S \cap D) \cup (S \ D) = S /\ (S \cap D) \cap (S \ D) = {}
    OBVIOUS
<1>4. SumFunctionOnSet(g, S) = SumFunctionOnSet(g, S \cap D) + SumFunctionOnSet(g, S \ D)
    BY <1>1, <1>2, <1>3, SumUnion
<1>5. SumFunctionOnSet(g, S \cap D) = SumFunctionOnSet(f, S \cap D)
    BY <1>1, SumSame
<1>6. SumFunctionOnSet(g, S \ D) = 0
    <2>1. \A x \in S \ D : g[x] = 0
        OBVIOUS
    <2>2. SumFunctionOnSet(g, S \ D) = 0 * Cardinality(S \ D)
        BY <1>1, <2>1, SumConstant
    <2> QED
        BY <1>1, <2>2, FS_CardinalityType
<1>7. SumFunctionOnSet(f, S \cap D) \in Nat
    BY <1>1, SumNat
<1> QED
    BY <1>4, <1>5, <1>6, <1>7

(* The rows in Q of a table that was added to. *)
RowsIn(table, Q) == DOMAIN table \cap Q

LEMMA SumOfAdded ==
    ASSUME NEW A, NEW B, NEW C, C = A (+) B, FiniteBag(A), FiniteBag(B), NEW Q
    PROVE  SumFunctionOnSet(C, RowsIn(C, Q))
           = SumFunctionOnSet(A, RowsIn(A, Q)) + SumFunctionOnSet(B, RowsIn(B, Q))
<1> DEFINE U == RowsIn(C, Q)
           a == [x \in U |-> Stored(x, A)]
           b == [x \in U |-> Stored(x, B)]
<1>1. /\ FiniteBag(C) /\ DOMAIN C = DOMAIN A \cup DOMAIN B
      /\ \A key : Stored(key, C) = Stored(key, A) + Stored(key, B)
    <2>1. FiniteBag(C) /\ DOMAIN C = DOMAIN A \cup DOMAIN B /\ AddsUp(A, B, C)
        BY TablesAdded
    <2> QED
        BY <2>1 DEF AddsUp
<1>2. IsFiniteSet(U)
    BY <1>1, FS_Subset DEF FiniteBag, RowsIn
<1>3. U \cap DOMAIN A = RowsIn(A, Q) /\ U \cap DOMAIN B = RowsIn(B, Q)
    BY <1>1 DEF RowsIn
<1>4. AreCounts(A, RowsIn(A, Q)) /\ AreCounts(B, RowsIn(B, Q))
    BY FiniteBagCounts DEF AreCounts, RowsIn
<1>5. AreCounts(a, U) /\ AreCounts(b, U)
    BY FiniteBagCounts DEF AreCounts
<1>6. \A x \in U : C[x] = a[x] + b[x]
    <2> TAKE x \in U
    <2>1. Stored(x, C) = C[x]
        BY DEF Stored, RowsIn
    <2> QED
        BY <1>1, <2>1
<1>7. \A x \in U : a[x] = IF x \in DOMAIN A THEN A[x] ELSE 0
    BY DEF Stored
<1>8. \A x \in U : b[x] = IF x \in DOMAIN B THEN B[x] ELSE 0
    BY DEF Stored
<1> HIDE DEF U, a, b
<1>9. SumFunctionOnSet(C, U) = SumFunctionOnSet(a, U) + SumFunctionOnSet(b, U)
    BY <1>2, <1>5, <1>6, SumPlus
<1>10. SumFunctionOnSet(a, U) = SumFunctionOnSet(A, RowsIn(A, Q))
    BY <1>2, <1>3, <1>4, <1>7, SumPadded
<1>11. SumFunctionOnSet(b, U) = SumFunctionOnSet(B, RowsIn(B, Q))
    BY <1>2, <1>3, <1>4, <1>8, SumPadded
<1> QED
    BY <1>9, <1>10, <1>11 DEF U

-----------------------------------------------------------------------------
(* The totals of a table of shards, grouped.                               *)

OfTotal(table, key) == {d \in DOMAIN table : TotalOf(d) = key}
Total(table, key) == SumFunctionOnSet(table, OfTotal(table, key))

LEMMA ImageIsFinite ==
    ASSUME NEW S, IsFiniteSet(S), NEW f, NEW T, T = {f[x] : x \in S}
    PROVE  IsFiniteSet(T)
<1> DEFINE h == [x \in S |-> f[x]]
<1>1. h \in Surjection(S, T)
    BY DEF Surjection
<1> QED
    BY <1>1, FS_Surjection

LEMMA TotalIsCount ==
    ASSUME NEW table, FiniteBag(table), NEW key
    PROVE  /\ IsFiniteSet(OfTotal(table, key)) /\ AreCounts(table, OfTotal(table, key))
           /\ Total(table, key) \in Nat
<1>1. IsFiniteSet(OfTotal(table, key))
    BY FS_Subset DEF FiniteBag, OfTotal
<1>2. AreCounts(table, OfTotal(table, key))
    BY FiniteBagCounts DEF AreCounts, OfTotal
<1> QED
    BY <1>1, <1>2, SumNat DEF Total

LEMMA GroupedTotals ==
    ASSUME NEW table, FiniteBag(table)
    PROVE  /\ FiniteBag(GroupBy(TotalOf, table))
           /\ DOMAIN GroupBy(TotalOf, table) = {TotalOf(d) : d \in DOMAIN table}
           /\ \A key : Stored(key, GroupBy(TotalOf, table)) = Total(table, key)
<1> DEFINE T == {TotalOf(d) : d \in DOMAIN table}
           G == GroupBy(TotalOf, table)
<1>1. G = [key \in T |-> Total(table, key)]
    BY DEF GroupBy, Total, OfTotal
<1>2. IsFiniteSet(T)
    <2> DEFINE f == [d \in DOMAIN table |-> TotalOf(d)]
    <2>1. T = {f[d] : d \in DOMAIN table}
        OBVIOUS
    <2> HIDE DEF T, f
    <2> QED
        BY <2>1, ImageIsFinite DEF FiniteBag
<1>3. ASSUME NEW key \in T PROVE Total(table, key) \in Nat /\ Total(table, key) > 0
    <2>1. PICK d \in DOMAIN table : key = TotalOf(d)
        OBVIOUS
    <2>2. d \in OfTotal(table, key) /\ table[d] > 0
        BY <2>1 DEF OfTotal, FiniteBag
    <2> QED
        BY <2>2, TotalIsCount, SumPositive DEF Total
<1>4. ASSUME NEW key, key \notin T PROVE Total(table, key) = 0
    <2>1. OfTotal(table, key) = {}
        BY <1>4 DEF OfTotal
    <2> QED
        BY <2>1, SumEmpty DEF Total
<1> HIDE DEF T, G
<1>5. DOMAIN G = T
    BY <1>1
<1>6. FiniteBag(G)
    BY <1>1, <1>2, <1>3, <1>5 DEF FiniteBag
<1>7. \A key : Stored(key, G) = Total(table, key)
    BY <1>1, <1>4, <1>5 DEF Stored
<1> QED
    BY <1>5, <1>6, <1>7 DEF G, T

LEMMA TotalsAdded ==
    ASSUME NEW A, NEW B, NEW C, C = A (+) B, FiniteBag(A), FiniteBag(B), NEW key
    PROVE  Total(C, key) = Total(A, key) + Total(B, key)
<1> DEFINE Q == {d \in DOMAIN A \cup DOMAIN B : TotalOf(d) = key}
<1>1. DOMAIN C = DOMAIN A \cup DOMAIN B
    BY TablesAdded
<1>2. RowsIn(A, Q) = OfTotal(A, key) /\ RowsIn(B, Q) = OfTotal(B, key)
    BY DEF RowsIn, OfTotal
<1>3. RowsIn(C, Q) = OfTotal(C, key)
    BY <1>1 DEF RowsIn, OfTotal
<1> HIDE DEF Q
<1> QED
    BY <1>2, <1>3, SumOfAdded DEF Total

-----------------------------------------------------------------------------
(* Rows in the bucket of every window: K[w, r] is the key of row r.        *)

Filed(table, K, key) == {r \in DOMAIN table : K[<<key[1], r>>] = key}
KeysOf(table, K) == {K[<<w, r>>] : w \in Windows, r \in DOMAIN table}
InWindows(table, K) == [key \in KeysOf(table, K) |-> SumFunctionOnSet(table, Filed(table, K, key))]

LEMMA WindowsFinite == IsFiniteSet(Windows)
<1>1. Windows = {"1hour"} \cup {"1day"} \cup {"1month"} \cup {"all_time"}
    BY DEF Windows
<1> QED
    BY <1>1, FS_Singleton, FS_Union

LEMMA FiledIsCount ==
    ASSUME NEW table, FiniteBag(table), NEW K, NEW key
    PROVE  /\ IsFiniteSet(Filed(table, K, key)) /\ AreCounts(table, Filed(table, K, key))
           /\ SumFunctionOnSet(table, Filed(table, K, key)) \in Nat
<1>1. IsFiniteSet(Filed(table, K, key))
    BY FS_Subset DEF FiniteBag, Filed
<1>2. AreCounts(table, Filed(table, K, key))
    BY FiniteBagCounts DEF AreCounts, Filed
<1> QED
    BY <1>1, <1>2, SumNat

LEMMA WindowedCounts ==
    ASSUME NEW table, FiniteBag(table), NEW K, NEW T, T = InWindows(table, K),
           \A w \in Windows, r \in DOMAIN table : K[<<w, r>>][1] = w
    PROVE  /\ FiniteBag(T) /\ DOMAIN T = KeysOf(table, K)
           /\ \A key : key[1] \in Windows =>
                  Stored(key, T) = SumFunctionOnSet(table, Filed(table, K, key))
<1>1. DOMAIN T = KeysOf(table, K)
    BY DEF InWindows
<1>2. IsFiniteSet(KeysOf(table, K))
    <2> DEFINE P == Windows \X DOMAIN table
    <2>1. IsFiniteSet(P)
        BY WindowsFinite, FS_Product DEF FiniteBag
    <2>2. KeysOf(table, K) = {K[q] : q \in P}
        <3>1. ASSUME NEW key \in KeysOf(table, K) PROVE key \in {K[q] : q \in P}
            <4>1. PICK w \in Windows, r \in DOMAIN table : key = K[<<w, r>>]
                BY DEF KeysOf
            <4> QED
                BY <4>1
        <3>2. ASSUME NEW q \in P PROVE K[q] \in KeysOf(table, K)
            <4>1. q = <<q[1], q[2]>> /\ q[1] \in Windows /\ q[2] \in DOMAIN table
                OBVIOUS
            <4> QED
                BY <4>1 DEF KeysOf
        <3> QED
            BY <3>1, <3>2
    <2> HIDE DEF P
    <2> QED
        BY <2>1, <2>2, ImageIsFinite
<1>3. ASSUME NEW key \in KeysOf(table, K)
      PROVE  SumFunctionOnSet(table, Filed(table, K, key)) \in {n \in Nat : n > 0}
    <2>1. PICK w \in Windows, r \in DOMAIN table : key = K[<<w, r>>]
        BY DEF KeysOf
    <2>2. r \in Filed(table, K, key) /\ table[r] > 0
        BY <2>1 DEF Filed, FiniteBag
    <2> QED
        BY <2>2, FiledIsCount, SumPositive
<1>4. ASSUME NEW key, key[1] \in Windows, key \notin KeysOf(table, K)
      PROVE  SumFunctionOnSet(table, Filed(table, K, key)) = 0
    <2>1. Filed(table, K, key) = {}
        BY <1>4 DEF Filed, KeysOf
    <2> QED
        BY <2>1, SumEmpty
<1>5. FiniteBag(T)
    BY <1>1, <1>2, <1>3 DEF FiniteBag, InWindows
<1>6. ASSUME NEW key, key[1] \in Windows
      PROVE  Stored(key, T) = SumFunctionOnSet(table, Filed(table, K, key))
    BY <1>1, <1>4, <1>6 DEF Stored, InWindows
<1> QED
    BY <1>1, <1>5, <1>6

(* HourlyTotals, and the rows of the hours of a bucket. *)
HourKey(w, r) == <<w, BucketStart(w, r[1]), r[2]>>
HourKeys(table) == {HourKey(w, r) : w \in Windows, r \in DOMAIN table}
HoursOf(table, key) == {r \in DOMAIN table : HourKey(key[1], r) = key}

LEMMA HourlyTotalsAreSums ==
    ASSUME NEW table, FiniteBag(table)
    PROVE  /\ FiniteBag(HourlyTotals(table))
           /\ DOMAIN HourlyTotals(table) = HourKeys(table)
           /\ \A key : key[1] \in Windows =>
                  Stored(key, HourlyTotals(table))
                      = SumFunctionOnSet(table, HoursOf(table, key))
<1> DEFINE K == [p \in Windows \X DOMAIN table |-> HourKey(p[1], p[2])]
           T == HourlyTotals(table)
<1>1. \A w \in Windows, r \in DOMAIN table : K[<<w, r>>] = HourKey(w, r)
    OBVIOUS
<1>2. \A w \in Windows, r \in DOMAIN table : K[<<w, r>>][1] = w
    BY DEF HourKey
<1>3. KeysOf(table, K) = {HourKey(w, r) : w \in Windows, r \in DOMAIN table}
    <2> HIDE DEF K
    <2>1. ASSUME NEW key \in KeysOf(table, K)
          PROVE  key \in {HourKey(w, r) : w \in Windows, r \in DOMAIN table}
        <3>1. PICK w \in Windows, r \in DOMAIN table : key = K[<<w, r>>]
            BY DEF KeysOf
        <3> QED
            BY <1>1, <3>1
    <2>2. ASSUME NEW w \in Windows, NEW r \in DOMAIN table
          PROVE  HourKey(w, r) \in KeysOf(table, K)
        BY <1>1 DEF KeysOf
    <2> QED
        BY <2>1, <2>2
<1>4. ASSUME NEW key, key[1] \in Windows PROVE Filed(table, K, key) = HoursOf(table, key)
    BY <1>1, <1>4 DEF Filed, HoursOf
<1>5. ASSUME NEW key \in KeysOf(table, K) PROVE key[1] \in Windows
    <2> HIDE DEF K
    <2>1. PICK w \in Windows, r \in DOMAIN table : key = HourKey(w, r)
        BY <1>3
    <2> QED
        BY <2>1 DEF HourKey
<1>6. T = [key \in {HourKey(w, r) : w \in Windows, r \in DOMAIN table} |->
              SumFunctionOnSet(table, HoursOf(table, key))]
    BY DEF HourlyTotals, InEveryWindow, HourKey, HoursOf
<1>7. T = InWindows(table, K)
    <2>1. T = [key \in KeysOf(table, K) |-> SumFunctionOnSet(table, HoursOf(table, key))]
        BY <1>3, <1>6
    <2>2. \A key \in KeysOf(table, K) : Filed(table, K, key) = HoursOf(table, key)
        BY <1>4, <1>5
    <2> HIDE DEF T, K
    <2> QED
        BY <2>1, <2>2 DEF InWindows
<1> HIDE DEF T, K
<1>8. /\ FiniteBag(T) /\ DOMAIN T = KeysOf(table, K)
      /\ \A key : key[1] \in Windows =>
             Stored(key, T) = SumFunctionOnSet(table, Filed(table, K, key))
    BY <1>2, <1>7, WindowedCounts
<1>9. ASSUME NEW key, key[1] \in Windows
      PROVE  Stored(key, T) = SumFunctionOnSet(table, HoursOf(table, key))
    BY <1>4, <1>8, <1>9
<1> QED
    BY <1>3, <1>8, <1>9 DEF T, HourKeys
(* Aggregated, and the events of a counter of a shard. *)
EventKey(w, e) == <<w, BucketStart(w, e.time), e.video, e.shard>>
EventKeys(table) == {EventKey(w, e) : w \in Windows, e \in DOMAIN table}
EventsOf(table, key) == {e \in DOMAIN table : EventKey(key[1], e) = key}

LEMMA AggregatedAreSums ==
    ASSUME NEW table, FiniteBag(table)
    PROVE  /\ FiniteBag(Aggregated(table))
           /\ DOMAIN Aggregated(table) = EventKeys(table)
           /\ \A key : key[1] \in Windows =>
                  Stored(key, Aggregated(table))
                      = SumFunctionOnSet(table, EventsOf(table, key))
<1> DEFINE K == [p \in Windows \X DOMAIN table |-> EventKey(p[1], p[2])]
           T == Aggregated(table)
<1>1. \A w \in Windows, e \in DOMAIN table : K[<<w, e>>] = EventKey(w, e)
    OBVIOUS
<1>2. \A w \in Windows, e \in DOMAIN table : K[<<w, e>>][1] = w
    BY DEF EventKey
<1>3. KeysOf(table, K) = {EventKey(w, e) : w \in Windows, e \in DOMAIN table}
    <2> HIDE DEF K
    <2>1. ASSUME NEW key \in KeysOf(table, K)
          PROVE  key \in {EventKey(w, e) : w \in Windows, e \in DOMAIN table}
        <3>1. PICK w \in Windows, e \in DOMAIN table : key = K[<<w, e>>]
            BY DEF KeysOf
        <3> QED
            BY <1>1, <3>1
    <2>2. ASSUME NEW w \in Windows, NEW e \in DOMAIN table
          PROVE  EventKey(w, e) \in KeysOf(table, K)
        BY <1>1 DEF KeysOf
    <2> QED
        BY <2>1, <2>2
<1>4. ASSUME NEW key, key[1] \in Windows PROVE Filed(table, K, key) = EventsOf(table, key)
    BY <1>1, <1>4 DEF Filed, EventsOf
<1>5. ASSUME NEW key \in KeysOf(table, K) PROVE key[1] \in Windows
    <2> HIDE DEF K
    <2>1. PICK w \in Windows, e \in DOMAIN table : key = EventKey(w, e)
        BY <1>3
    <2> QED
        BY <2>1 DEF EventKey
<1>6. T = [key \in {EventKey(w, e) : w \in Windows, e \in DOMAIN table} |->
              SumFunctionOnSet(table, EventsOf(table, key))]
    BY DEF Aggregated, InEveryWindow, EventKey, EventsOf
<1>7. T = InWindows(table, K)
    <2>1. T = [key \in KeysOf(table, K) |-> SumFunctionOnSet(table, EventsOf(table, key))]
        BY <1>3, <1>6
    <2>2. \A key \in KeysOf(table, K) : Filed(table, K, key) = EventsOf(table, key)
        BY <1>4, <1>5
    <2> HIDE DEF T, K
    <2> QED
        BY <2>1, <2>2 DEF InWindows
<1> HIDE DEF T, K
<1>8. /\ FiniteBag(T) /\ DOMAIN T = KeysOf(table, K)
      /\ \A key : key[1] \in Windows =>
             Stored(key, T) = SumFunctionOnSet(table, Filed(table, K, key))
    BY <1>2, <1>7, WindowedCounts
<1>9. ASSUME NEW key, key[1] \in Windows
      PROVE  Stored(key, T) = SumFunctionOnSet(table, EventsOf(table, key))
    BY <1>4, <1>8, <1>9
<1> QED
    BY <1>3, <1>8, <1>9 DEF T, EventKeys

(* All shards of a counter. *)
EventsOfTotal(table, key) == {e \in DOMAIN table : TotalOf(EventKey(key[1], e)) = key}

LEMMA TotalOfAggregated ==
    ASSUME NEW table, FiniteBag(table), NEW w \in Windows, NEW s, NEW v, NEW key, key = <<w, s, v>>
    PROVE  /\ IsFiniteSet(EventsOfTotal(table, key)) /\ AreCounts(table, EventsOfTotal(table, key))
           /\ Total(Aggregated(table), key) = SumFunctionOnSet(table, EventsOfTotal(table, key))
<1> DEFINE A == Aggregated(table)
           D == OfTotal(A, key)
           S == EventsOfTotal(table, key)
           K == [e \in S |-> EventKey(w, e)]
<1>1. IsFiniteSet(S) /\ AreCounts(table, S)
    <2>1. IsFiniteSet(S)
        BY FS_Subset DEF FiniteBag, EventsOfTotal
    <2>2. AreCounts(table, S)
        BY FiniteBagCounts DEF AreCounts, EventsOfTotal
    <2> QED
        BY <2>1, <2>2
<1>2. /\ FiniteBag(A)
      /\ DOMAIN A = EventKeys(table)
      /\ \A d : d[1] \in Windows => Stored(d, A) = SumFunctionOnSet(table, EventsOf(table, d))
    BY AggregatedAreSums
<1>3. IsFiniteSet(D)
    BY <1>2, TotalIsCount
<1>4. ASSUME NEW e \in S PROVE K[e] \in D
    <2>1. e \in DOMAIN table /\ TotalOf(EventKey(w, e)) = key
        BY DEF EventsOfTotal
    <2>2. EventKey(w, e) \in DOMAIN A
        BY <1>2, <2>1 DEF EventKeys
    <2> HIDE DEF A
    <2> QED
        BY <2>1, <2>2 DEF OfTotal
<1>5. ASSUME NEW d \in D PROVE A[d] = SumFunctionOnSet(table, Class(S, K, d))
    <2> HIDE DEF A
    <2>1. d \in DOMAIN A /\ TotalOf(d) = key
        BY DEF OfTotal
    <2>2. d[1] = w
        BY <2>1 DEF TotalOf
    <2>3. A[d] = SumFunctionOnSet(table, EventsOf(table, d))
        BY <1>2, <2>1, <2>2 DEF Stored
    <2>4. EventsOf(table, d) = Class(S, K, d)
        <3>1. ASSUME NEW e \in EventsOf(table, d) PROVE e \in Class(S, K, d)
            <4>1. e \in DOMAIN table /\ EventKey(w, e) = d
                BY <2>2 DEF EventsOf
            <4>2. e \in S
                BY <2>1, <4>1 DEF EventsOfTotal
            <4> QED
                BY <4>1, <4>2 DEF Class
        <3>2. ASSUME NEW e \in Class(S, K, d) PROVE e \in EventsOf(table, d)
            <4>1. e \in S /\ EventKey(w, e) = d
                BY DEF Class
            <4>2. e \in DOMAIN table
                BY <4>1 DEF EventsOfTotal
            <4> QED
                BY <2>2, <4>1, <4>2 DEF EventsOf
        <3> QED
            BY <3>1, <3>2
    <2> QED
        BY <2>3, <2>4
<1> HIDE DEF A, D, S, K
<1>6. SumFunctionOnSet(A, D) = SumFunctionOnSet(table, S)
    BY <1>1, <1>3, <1>4, <1>5, SumClasses
<1> QED
    BY <1>1, <1>6 DEF Total, A, D, S

-----------------------------------------------------------------------------
(* The records of a batch, counted.                                        *)

Counted(B, key) == {q \in B : CountedBy(key, q)}
Copies(B, e) == {q \in B : Record(q) = e}

LEMMA BatchIsBag ==
    ASSUME NEW B, IsFiniteSet(B)
    PROVE  /\ FiniteBag(BagOfRecords(B)) /\ DOMAIN BagOfRecords(B) = {Record(q) : q \in B}
           /\ \A e \in DOMAIN BagOfRecords(B) : BagOfRecords(B)[e] = Cardinality(Copies(B, e))
<1> DEFINE T == {Record(q) : q \in B}
           G == BagOfRecords(B)
<1>1. G = [e \in T |-> Cardinality(Copies(B, e))]
    BY DEF BagOfRecords, Copies
<1>2. IsFiniteSet(T)
    <2> DEFINE f == [q \in B |-> Record(q)]
    <2>1. T = {f[q] : q \in B}
        OBVIOUS
    <2> HIDE DEF T, f
    <2> QED
        BY <2>1, ImageIsFinite
<1>3. ASSUME NEW e \in T PROVE Cardinality(Copies(B, e)) \in {n \in Nat : n > 0}
    <2>1. IsFiniteSet(Copies(B, e))
        BY FS_Subset DEF Copies
    <2>2. PICK q \in B : Record(q) = e
        OBVIOUS
    <2>3. Copies(B, e) # {}
        BY <2>2 DEF Copies
    <2>4. Cardinality(Copies(B, e)) \in Nat /\ Cardinality(Copies(B, e)) # 0
        BY <2>1, <2>3, FS_CardinalityType, FS_EmptySet
    <2> QED
        BY <2>4
<1> HIDE DEF T, G
<1>4. DOMAIN G = T
    BY <1>1
<1>5. FiniteBag(G)
    BY <1>1, <1>2, <1>3, <1>4 DEF FiniteBag
<1>6. \A e \in DOMAIN G : G[e] = Cardinality(Copies(B, e))
    BY <1>1, <1>4
<1> QED
    BY <1>4, <1>5, <1>6 DEF G, T

(* A batch adds to a counter the number of its records that it counts.     *)
LEMMA BatchIsCounted ==
    ASSUME NEW B, IsFiniteSet(B), NEW w \in Windows, NEW s, NEW v, NEW key, key = <<w, s, v>>
    PROVE  Total(Aggregated(BagOfRecords(B)), key) = Cardinality(Counted(B, key))
<1> DEFINE table == BagOfRecords(B)
           S == EventsOfTotal(table, key)
           C == Counted(B, key)
           f == [q \in C |-> 1]
           K == [q \in C |-> Record(q)]
<1>1. /\ FiniteBag(table) /\ DOMAIN table = {Record(q) : q \in B}
      /\ \A e \in DOMAIN table : table[e] = Cardinality(Copies(B, e))
    BY BatchIsBag
<1>2. /\ IsFiniteSet(S)
      /\ Total(Aggregated(table), key) = SumFunctionOnSet(table, S)
    <2> HIDE DEF table
    <2> QED
        BY <1>1, TotalOfAggregated
<1>3. IsFiniteSet(C)
    BY FS_Subset DEF Counted
<1>4. AreCounts(f, C)
    BY DEF AreCounts
<1>5. ASSUME NEW q \in B PROVE CountedBy(key, q) <=> TotalOf(EventKey(w, Record(q))) = key
    <2> DEFINE e == Record(q)
    <2>1. TotalOf(EventKey(w, e)) = <<w, BucketStart(w, e.time), e.video>>
        BY DEF TotalOf, EventKey
    <2>2. CountedBy(key, q) <=> e.video = v /\ BucketStart(w, e.time) = s
        BY DEF CountedBy
    <2> HIDE DEF e
    <2>3. CountedBy(key, q) <=> TotalOf(EventKey(w, e)) = key
        BY <2>1, <2>2
    <2> QED
        BY <2>3 DEF e
<1>6. ASSUME NEW q \in C PROVE K[q] \in S
    <2>1. q \in B /\ CountedBy(key, q)
        BY DEF Counted
    <2>2. Record(q) \in DOMAIN table
        BY <1>1, <2>1
    <2> HIDE DEF table
    <2> QED
        BY <1>5, <2>1, <2>2 DEF EventsOfTotal
<1>7. ASSUME NEW e \in S PROVE table[e] = SumFunctionOnSet(f, Class(C, K, e))
    <2>1. e \in DOMAIN table /\ TotalOf(EventKey(w, e)) = key
        BY DEF EventsOfTotal
    <2>2. table[e] = Cardinality(Copies(B, e))
        BY <1>1, <2>1
    <2>3. Copies(B, e) = Class(C, K, e)
        BY <1>5, <2>1 DEF Copies, Class, Counted
    <2>4. IsFiniteSet(Class(C, K, e)) /\ \A q \in Class(C, K, e) : f[q] = 1
        BY <1>3, FS_Subset DEF Class
    <2> HIDE DEF f, K, C
    <2>5. SumFunctionOnSet(f, Class(C, K, e)) = Cardinality(Class(C, K, e))
        BY <2>4, SumOnes
    <2> QED
        BY <2>2, <2>3, <2>5
<1>8. \A q \in C : f[q] = 1
    OBVIOUS
<1> HIDE DEF table, S, C, f, K
<1>9. SumFunctionOnSet(table, S) = SumFunctionOnSet(f, C)
    BY <1>2, <1>3, <1>4, <1>6, <1>7, SumClasses
<1>10. SumFunctionOnSet(f, C) = Cardinality(C)
    BY <1>3, <1>8, SumOnes
<1> QED
    BY <1>2, <1>9, <1>10 DEF table, C

-----------------------------------------------------------------------------
(* The count of an hour, divided among the shards.                         *)

Share(n, sh) == n \div ShardCount + (IF sh < n % ShardCount THEN 1 ELSE 0)

LEMMA ShardsFinite == IsFiniteSet(Shards) /\ Cardinality(Shards) = ShardCount
BY StoreAssumption, FS_Interval DEF Shards

LEMMA SharesAddUp ==
    ASSUME NEW n \in Nat
    PROVE  /\ \A sh \in Shards : Share(n, sh) \in Nat
           /\ SumFunctionOnSet([sh \in Shards |-> Share(n, sh)], Shards) = n
<1> DEFINE q == n \div ShardCount
           m == n % ShardCount
           a == [sh \in Shards |-> q]
           b == [sh \in Shards |-> IF sh < m THEN 1 ELSE 0]
           c == [sh \in Shards |-> 1]
           D == 0..(m - 1)
           f == [sh \in Shards |-> Share(n, sh)]
<1>1. q \in Nat /\ m \in Nat /\ m < ShardCount /\ n = q * ShardCount + m
    BY StoreAssumption
<1>2. \A sh \in Shards : sh \in Nat
    BY DEF Shards
<1>3. \A sh \in Shards : a[sh] = q /\ b[sh] \in Nat /\ f[sh] = a[sh] + b[sh]
    BY <1>1, <1>2 DEF Share
<1>4. AreCounts(a, Shards) /\ AreCounts(b, Shards)
    BY <1>1, <1>3 DEF AreCounts
<1>5. \A sh \in Shards : b[sh] = IF sh \in D THEN c[sh] ELSE 0
    BY <1>1, <1>2
<1>6. Shards \cap D = D
    <2>1. \A x \in D : x \in Shards
        BY <1>1, StoreAssumption DEF Shards
    <2> HIDE DEF D
    <2> QED
        BY <2>1
<1>7. AreCounts(c, Shards \cap D) /\ \A sh \in D : c[sh] = 1
    BY <1>6 DEF AreCounts
<1>8. \A sh \in Shards : Share(n, sh) \in Nat
    BY <1>1, <1>2 DEF Share
<1>9. IsFiniteSet(D) /\ Cardinality(D) = m
    <2>1. m - 1 \in Int /\ 0 \in Int
        BY <1>1
    <2>2. IsFiniteSet(D) /\ Cardinality(D) = IF 0 > m - 1 THEN 0 ELSE (m - 1) - 0 + 1
        BY <2>1, FS_Interval
    <2> QED
        BY <1>1, <2>2
<1> HIDE DEF q, m, a, b, c, D, f
<1>10. SumFunctionOnSet(f, Shards) = SumFunctionOnSet(a, Shards) + SumFunctionOnSet(b, Shards)
    BY <1>3, <1>4, ShardsFinite, SumPlus
<1>11. SumFunctionOnSet(a, Shards) = q * ShardCount
    <2>1. \A sh \in Shards : a[sh] = q
        BY <1>3
    <2>2. SumFunctionOnSet(a, Shards) = q * Cardinality(Shards)
        BY <1>1, <2>1, ShardsFinite, SumConstant
    <2> QED
        BY <2>2, ShardsFinite
<1>12. SumFunctionOnSet(b, Shards) = m
    <2>1. SumFunctionOnSet(b, Shards) = SumFunctionOnSet(c, Shards \cap D)
        BY <1>5, <1>7, ShardsFinite, SumPadded
    <2>2. SumFunctionOnSet(c, D) = m
        BY <1>7, <1>9, SumOnes
    <2> QED
        BY <1>6, <2>1, <2>2
<1>13. SumFunctionOnSet(f, Shards) = n
    BY <1>1, <1>10, <1>11, <1>12
<1> QED
    BY <1>8, <1>13 DEF f

ShardKey(p) == <<"1hour", p[1][1], p[1][2], p[2]>>
Given(table) == {p \in (DOMAIN table) \X Shards : Share(table[p[1]], p[2]) > 0}

LEMMA SplitRows ==
    ASSUME NEW table, FiniteBag(table), DOMAIN table \subseteq Nat \X Videos
    PROVE  /\ FiniteBag(SplitOverShards(table))
           /\ DOMAIN SplitOverShards(table) = {ShardKey(p) : p \in Given(table)}
           /\ \A p \in Given(table) :
                  SplitOverShards(table)[ShardKey(p)] = Share(table[p[1]], p[2])
<1> DEFINE T == SplitOverShards(table)
           D == {ShardKey(p) : p \in Given(table)}
           g == [k \in D |-> Share(table[<<k[2], k[3]>>], k[4])]
<1>1. T = g
    BY DEF SplitOverShards, RowsOf, Share, ShardKey, Given
<1>2. ASSUME NEW p \in Given(table)
      PROVE  /\ g[ShardKey(p)] = Share(table[p[1]], p[2])
             /\ g[ShardKey(p)] \in {n \in Nat : n > 0}
    <2>1. p \in (DOMAIN table) \X Shards /\ Share(table[p[1]], p[2]) > 0
        BY DEF Given
    <2>2. p[1] \in DOMAIN table /\ p[1] \in Nat \X Videos /\ p[2] \in Shards
        BY <2>1
    <2>3. p[1] = <<p[1][1], p[1][2]>>
        BY <2>2
    <2>4. g[ShardKey(p)] = Share(table[<<p[1][1], p[1][2]>>], p[2])
        BY DEF ShardKey
    <2>5. table[p[1]] \in Nat
        BY <2>2 DEF FiniteBag
    <2>6. Share(table[p[1]], p[2]) \in Nat
        BY <2>2, <2>5, SharesAddUp
    <2> QED
        BY <2>1, <2>3, <2>4, <2>6
<1>3. IsFiniteSet(D)
    <2>1. IsFiniteSet(Given(table))
        <3>1. IsFiniteSet((DOMAIN table) \X Shards)
            BY ShardsFinite, FS_Product DEF FiniteBag
        <3> QED
            BY <3>1, FS_Subset DEF Given
    <2> DEFINE f == [p \in Given(table) |-> ShardKey(p)]
    <2>2. D = {f[p] : p \in Given(table)}
        OBVIOUS
    <2> HIDE DEF D, f
    <2> QED
        BY <2>1, <2>2, ImageIsFinite
<1>4. DOMAIN T = D
    BY <1>1
<1>5. FiniteBag(T)
    <2>1. \A k \in D : g[k] \in {n \in Nat : n > 0}
        <3> TAKE k \in D
        <3>1. PICK p \in Given(table) : k = ShardKey(p)
            OBVIOUS
        <3> QED
            BY <1>2, <3>1
    <2>2. g \in [D -> {n \in Nat : n > 0}]
        BY <2>1
    <2> HIDE DEF D, g, T
    <2> QED
        BY <1>1, <1>3, <1>4, <2>2 DEF FiniteBag
<1> HIDE DEF g
<1> QED
    BY <1>1, <1>2, <1>4, <1>5

(* The shards of an hour add up to its count.                              *)
LEMMA SplitAddsUp ==
    ASSUME NEW table, FiniteBag(table), DOMAIN table \subseteq Nat \X Videos, NEW h, NEW v
    PROVE  Total(SplitOverShards(table), <<"1hour", h, v>>) = Stored(<<h, v>>, table)
<1> DEFINE T == SplitOverShards(table)
           key == <<"1hour", h, v>>
           row == <<h, v>>
           n == table[row]
           D == OfTotal(T, key)
           S == {sh \in Shards : Share(n, sh) > 0}
           f == [sh \in Shards |-> Share(n, sh)]
           K == [sh \in S |-> <<"1hour", h, v, sh>>]
<1>1. /\ FiniteBag(T) /\ DOMAIN T = {ShardKey(p) : p \in Given(table)}
      /\ \A p \in Given(table) : T[ShardKey(p)] = Share(table[p[1]], p[2])
    BY SplitRows
<1>2. ASSUME NEW d \in D
      PROVE  row \in DOMAIN table /\ \E sh \in S : d = <<"1hour", h, v, sh>>
    <2>1. d \in DOMAIN T /\ TotalOf(d) = key
        BY DEF OfTotal
    <2> HIDE DEF T
    <2>2. PICK p \in Given(table) : d = ShardKey(p)
        BY <1>1, <2>1
    <2>3. p \in (DOMAIN table) \X Shards /\ Share(table[p[1]], p[2]) > 0
        BY DEF Given
    <2>4. p[1] \in DOMAIN table /\ p[1] = <<p[1][1], p[1][2]>> /\ p[2] \in Shards
        BY <2>3
    <2>5. p[1] = row
        BY <2>1, <2>2, <2>4 DEF TotalOf, ShardKey
    <2> QED
        BY <2>2, <2>3, <2>4, <2>5 DEF ShardKey
<1>3. CASE row \notin DOMAIN table
    <2>1. D = {}
        BY <1>2, <1>3
    <2>2. Total(T, key) = SumFunctionOnSet(T, D)
        BY DEF Total
    <2> HIDE DEF T, D
    <2>3. SumFunctionOnSet(T, D) = 0
        BY <2>1, SumEmpty
    <2> QED
        BY <1>3, <2>2, <2>3 DEF Stored, T
<1>4. CASE row \in DOMAIN table
    <2>1. n \in Nat
        BY <1>4 DEF FiniteBag
    <2>2. /\ \A sh \in Shards : Share(n, sh) \in Nat
          /\ SumFunctionOnSet(f, Shards) = n
        <3> HIDE DEF n
        <3> QED
            BY <2>1, SharesAddUp
    <2>3. IsFiniteSet(S) /\ S \subseteq Shards /\ S \cap Shards = S /\ Shards \cap S = S
        BY ShardsFinite, FS_Subset
    <2>4. AreCounts(f, S)
        BY <2>2 DEF AreCounts
    <2>5. ASSUME NEW sh \in S PROVE K[sh] \in D /\ T[K[sh]] = f[sh]
        <3> DEFINE p == <<row, sh>>
        <3>1. p \in Given(table)
            BY <1>4 DEF Given
        <3>2. ShardKey(p) = <<"1hour", h, v, sh>>
            BY DEF ShardKey
        <3>3. TotalOf(<<"1hour", h, v, sh>>) = key
            BY DEF TotalOf
        <3>4. T[ShardKey(p)] = Share(table[p[1]], p[2]) /\ ShardKey(p) \in DOMAIN T
            <4> HIDE DEF T, p
            <4> QED
                BY <1>1, <3>1
        <3>5. p[1] = row /\ p[2] = sh
            OBVIOUS
        <3> HIDE DEF T, p
        <3> QED
            BY <3>2, <3>3, <3>4, <3>5 DEF OfTotal
    <2>6. ASSUME NEW d \in D PROVE T[d] = SumFunctionOnSet(f, Class(S, K, d))
        <3>1. PICK sh \in S : d = <<"1hour", h, v, sh>>
            BY <1>2
        <3>2. Class(S, K, d) = {sh}
            BY <3>1 DEF Class
        <3>3. T[d] = f[sh] /\ f[sh] \in Nat
            BY <2>4, <2>5, <3>1 DEF AreCounts
        <3> HIDE DEF T, f, K, S
        <3> QED
            BY <3>2, <3>3, SumSingleton
    <2>7. \A sh \in Shards : f[sh] = IF sh \in S THEN f[sh] ELSE 0
        BY <2>2
    <2>8. IsFiniteSet(D)
        BY <1>1, TotalIsCount
    <2> HIDE DEF T, D, S, f, K
    <2>9. SumFunctionOnSet(f, Shards) = SumFunctionOnSet(f, Shards \cap S)
        <3>1. AreCounts(f, Shards \cap S) /\ IsFiniteSet(Shards)
            BY <2>3, <2>4, ShardsFinite
        <3> HIDE DEF Shards
        <3> QED
            BY <2>7, <3>1, SumPadded
    <2>10. SumFunctionOnSet(T, D) = SumFunctionOnSet(f, S)
        BY <2>3, <2>4, <2>5, <2>6, <2>8, SumClasses
    <2> QED
        BY <1>4, <2>2, <2>3, <2>9, <2>10 DEF Total, Stored, D, T
<1> QED
    BY <1>3, <1>4

-----------------------------------------------------------------------------
(* Rankings.                                                               *)

VideoAt(counts, i) == CHOOSE v \in DOMAIN counts : Place(counts, v) = i
RowAt(counts, i) == <<VideoAt(counts, i), counts[VideoAt(counts, i)]>>
RowCount(counts, k) == IF k < Cardinality(DOMAIN counts) THEN k ELSE Cardinality(DOMAIN counts)

LEMMA RankingRows ==
    ASSUME NEW counts, IsFiniteSet(DOMAIN counts), NEW k \in Nat, NEW R, R = Ranking(counts, k)
    PROVE  /\ RowCount(counts, k) \in Nat
           /\ R = [i \in 1..RowCount(counts, k) |-> RowAt(counts, i)]
           /\ Len(R) = RowCount(counts, k)
<1>1. Cardinality(DOMAIN counts) \in Nat
    BY FS_CardinalityType
<1>2. RowCount(counts, k) \in Nat
    BY <1>1 DEF RowCount
<1>3. R = [i \in 1..RowCount(counts, k) |-> RowAt(counts, i)]
    BY DEF Ranking, RowCount, RowAt, VideoAt
<1>4. Len(R) = RowCount(counts, k)
    <2> DEFINE n == RowCount(counts, k)
    <2> HIDE DEF n
    <2>1. n \in Nat /\ R = [i \in 1..n |-> RowAt(counts, i)]
        BY <1>2, <1>3 DEF n
    <2>2. Len(R) = n
        BY <2>1, LenProperties
    <2> QED
        BY <2>2 DEF n
<1> QED
    BY <1>2, <1>3, <1>4

(* The first rows of a ranking are the shorter ranking.                    *)
LEMMA RankingPrefix ==
    ASSUME NEW counts, IsFiniteSet(DOMAIN counts), NEW k \in Nat, NEW m \in Nat, m <= k,
           NEW R, R = Ranking(counts, k)
    PROVE  SubSeq(R, 1, IF m < Len(R) THEN m ELSE Len(R)) = Ranking(counts, m)
<1> DEFINE n == RowCount(counts, k)
           l == RowCount(counts, m)
           T == Ranking(counts, m)
           S == {RowAt(counts, i) : i \in 1..l}
           U == SubSeq(R, 1, l)
<1>1. n \in Nat /\ R = [i \in 1..n |-> RowAt(counts, i)] /\ Len(R) = n
    BY RankingRows
<1>2. l \in Nat /\ T = [i \in 1..l |-> RowAt(counts, i)] /\ Len(T) = l
    BY RankingRows
<1>3. l = (IF m < n THEN m ELSE n) /\ l <= n
    BY FS_CardinalityType DEF RowCount
<1> HIDE DEF n, l, T
<1>4. \A i \in 1..l : R[i] = RowAt(counts, i)
    BY <1>1, <1>2, <1>3
<1>5. \A i \in 1..l : R[i] \in S
    BY <1>4
<1> HIDE DEF S
<1>6. /\ SubSeq(R, 1, l) \in Seq(S)
      /\ Len(SubSeq(R, 1, l)) = IF 1 <= l THEN l - 1 + 1 ELSE 0
      /\ \A i \in 1..(l - 1 + 1) : SubSeq(R, 1, l)[i] = R[1 + i - 1]
    <2>1. 1 \in Int /\ l \in Int
        BY <1>2
    <2> QED
        BY <1>5, <2>1, SubSeqProperties
<1>7. U \in Seq(S) /\ Len(U) = l
    BY <1>2, <1>6
<1>8. \A i \in 1..l : U[i] = RowAt(counts, i)
    BY <1>2, <1>4, <1>6
<1> HIDE DEF U
<1>9. U = [i \in 1..l |-> RowAt(counts, i)]
    <2>1. U = [i \in 1..Len(U) |-> U[i]]
        BY <1>7
    <2> QED
        BY <1>7, <1>8, <2>1
<1>10. U = T
    BY <1>2, <1>9
<1> QED
    BY <1>1, <1>3, <1>10 DEF U, T

(* The videos in their order: more views first, then the smaller id.       *)
Before(counts, v) == {u \in DOMAIN counts : Ahead(counts, u, v)}

LEMMA AheadIsOrder ==
    ASSUME NEW counts, FiniteBag(counts), DOMAIN counts \subseteq Videos,
           NEW u \in DOMAIN counts, NEW v \in DOMAIN counts, NEW w \in DOMAIN counts
    PROVE  /\ ~Ahead(counts, u, u)
           /\ Ahead(counts, u, v) /\ Ahead(counts, v, w) => Ahead(counts, u, w)
           /\ u = v \/ Ahead(counts, u, v) \/ Ahead(counts, v, u)
<1>1. /\ u \in Nat /\ v \in Nat /\ w \in Nat
      /\ counts[u] \in Nat /\ counts[v] \in Nat /\ counts[w] \in Nat
    BY StoreAssumption DEF FiniteBag
<1> QED
    BY <1>1 DEF Ahead

LEMMA PlaceGrows ==
    ASSUME NEW counts, FiniteBag(counts), DOMAIN counts \subseteq Videos
    PROVE  /\ \A v \in DOMAIN counts : Place(counts, v) \in 1..Cardinality(DOMAIN counts)
           /\ \A u, v \in DOMAIN counts :
                 Ahead(counts, u, v) => Place(counts, u) < Place(counts, v)
<1> DEFINE D == DOMAIN counts
<1>1. IsFiniteSet(D) /\ Cardinality(D) \in Nat
    BY FS_CardinalityType DEF FiniteBag
<1>2. ASSUME NEW v \in D
      PROVE  /\ IsFiniteSet(Before(counts, v)) /\ Cardinality(Before(counts, v)) \in Nat
             /\ Place(counts, v) = Cardinality(Before(counts, v)) + 1
    <2>1. Before(counts, v) \subseteq D
        BY DEF Before
    <2>2. IsFiniteSet(Before(counts, v))
        BY <1>1, <2>1, FS_Subset
    <2> QED
        BY <2>2, FS_CardinalityType DEF Place, Before
<1>3. ASSUME NEW v \in D PROVE Place(counts, v) \in 1..Cardinality(D)
    <2>1. ~Ahead(counts, v, v)
        BY AheadIsOrder
    <2>2. Before(counts, v) \subseteq D \ {v}
        BY <2>1 DEF Before
    <2>3. IsFiniteSet(D \ {v}) /\ Cardinality(D \ {v}) = Cardinality(D) - 1
        BY <1>1, FS_RemoveElement
    <2>4. Cardinality(Before(counts, v)) <= Cardinality(D \ {v})
        BY <2>2, <2>3, FS_Subset
    <2> HIDE DEF D
    <2> QED
        BY <1>1, <1>2, <2>3, <2>4
<1>4. ASSUME NEW u \in D, NEW v \in D, Ahead(counts, u, v)
      PROVE  Place(counts, u) < Place(counts, v)
    <2>1. ASSUME NEW x \in Before(counts, u) PROVE x \in Before(counts, v)
        <3>1. x \in D /\ Ahead(counts, x, u)
            BY DEF Before
        <3>2. Ahead(counts, x, v)
            BY <1>4, <3>1, AheadIsOrder
        <3> QED
            BY <3>1, <3>2 DEF Before
    <2>2. u \in Before(counts, v) /\ u \notin Before(counts, u)
        BY <1>4, AheadIsOrder DEF Before
    <2>3. Before(counts, u) \subseteq Before(counts, v) /\ Before(counts, u) # Before(counts, v)
        BY <2>1, <2>2
    <2>4. Cardinality(Before(counts, u)) <= Cardinality(Before(counts, v))
          /\ Cardinality(Before(counts, v)) # Cardinality(Before(counts, u))
        BY <1>2, <2>3, FS_Subset
    <2> QED
        BY <1>2, <2>4
<1> QED
    BY <1>3, <1>4

(* Every place is taken by one video. *)
LEMMA PlacesAreTaken ==
    ASSUME NEW counts, FiniteBag(counts), DOMAIN counts \subseteq Videos,
           NEW i \in 1..Cardinality(DOMAIN counts)
    PROVE  VideoAt(counts, i) \in DOMAIN counts /\ Place(counts, VideoAt(counts, i)) = i
<1> DEFINE D == DOMAIN counts
           n == Cardinality(D)
           f == [v \in D |-> Place(counts, v)]
<1>1. IsFiniteSet(D) /\ n \in Nat
    BY FS_CardinalityType DEF FiniteBag
<1>2. f \in [D -> 1..n]
    BY PlaceGrows
<1>3. ASSUME NEW u \in D, NEW v \in D, f[u] = f[v] PROVE u = v
    <2>1. Place(counts, u) = Place(counts, v) /\ Place(counts, u) \in Nat
        BY <1>1, <1>3, PlaceGrows
    <2>2. ~Ahead(counts, u, v) /\ ~Ahead(counts, v, u)
        BY <2>1, PlaceGrows
    <2> QED
        BY <2>2, AheadIsOrder
<1>4. f \in Injection(D, 1..n)
    <2> HIDE DEF f
    <2> QED
        BY <1>2, <1>3, Fun_IsInj
<1>5. IsFiniteSet(1..n) /\ Cardinality(1..n) = n
    <2>1. 1 \in Int /\ n \in Int
        BY <1>1
    <2>2. IsFiniteSet(1..n) /\ Cardinality(1..n) = IF 1 > n THEN 0 ELSE n - 1 + 1
        BY <2>1, FS_Interval
    <2> QED
        BY <1>1, <2>2
<1>6. f \in Surjection(D, 1..n)
    <2> HIDE DEF f
    <2>1. Cardinality(D) = Cardinality(1..n)
        BY <1>5
    <2> HIDE DEF n
    <2> QED
        BY <1>4, <1>5, <2>1, FS_Injection
<1>7. \E v \in D : f[v] = i
    <2> HIDE DEF f
    <2> QED
        BY <1>6, Fun_SurjectionProperties DEF Surjection
<1>8. \E v \in D : Place(counts, v) = i
    BY <1>7
<1> QED
    BY <1>8 DEF VideoAt

(* The rows of a ranking are videos with their counts, in order, and every *)
(* video that has no row is behind all of them.                            *)
THEOREM RankingIsOrdered ==
    ASSUME NEW counts, FiniteBag(counts), DOMAIN counts \subseteq Videos,
           NEW k \in Nat, NEW R, R = Ranking(counts, k)
    PROVE  /\ \A i \in 1..Len(R) :
                 \E v \in DOMAIN counts : R[i] = <<v, counts[v]>>
           /\ \A i, j \in 1..Len(R) : i < j => Ahead(counts, R[i][1], R[j][1])
           /\ \A v \in DOMAIN counts : \/ \E i \in 1..Len(R) : R[i][1] = v
                                       \/ \A i \in 1..Len(R) : Ahead(counts, R[i][1], v)
<1> DEFINE D == DOMAIN counts
           n == Cardinality(D)
           l == Len(R)
<1>1. IsFiniteSet(D) /\ n \in Nat
    BY FS_CardinalityType DEF FiniteBag
<1>2. l \in Nat /\ l = RowCount(counts, k) /\ \A i \in 1..l : R[i] = RowAt(counts, i)
    <2>1. /\ RowCount(counts, k) \in Nat /\ Len(R) = RowCount(counts, k)
          /\ R = [i \in 1..RowCount(counts, k) |-> RowAt(counts, i)]
        BY <1>1, RankingRows
    <2> QED
        BY <2>1
<1>3. l <= n /\ (l < n => l = k)
    BY <1>1, <1>2 DEF RowCount
<1>4. ASSUME NEW i \in 1..l
      PROVE  /\ R[i][1] \in D /\ R[i] = <<R[i][1], counts[R[i][1]]>>
             /\ Place(counts, R[i][1]) = i
    <2>1. i \in 1..n
        BY <1>1, <1>2, <1>3
    <2>2. VideoAt(counts, i) \in D /\ Place(counts, VideoAt(counts, i)) = i
        BY <2>1, PlacesAreTaken
    <2>3. R[i] = <<VideoAt(counts, i), counts[VideoAt(counts, i)]>>
        BY <1>2 DEF RowAt
    <2> QED
        BY <2>2, <2>3
<1>5. ASSUME NEW v \in D, NEW i \in 1..l, i < Place(counts, v)
      PROVE  Ahead(counts, R[i][1], v)
    <2> DEFINE u == R[i][1]
    <2>1. u \in D /\ Place(counts, u) = i
        BY <1>4
    <2>2. Place(counts, v) \in 1..n
        BY PlaceGrows
    <2> HIDE DEF u
    <2>3. ~Ahead(counts, v, u) /\ u # v
        BY <1>1, <1>2, <1>5, <2>1, <2>2, PlaceGrows
    <2>4. Ahead(counts, u, v)
        BY <2>1, <2>3, AheadIsOrder
    <2> QED
        BY <2>4 DEF u
<1>6. ASSUME NEW i \in 1..l, NEW j \in 1..l, i < j PROVE Ahead(counts, R[i][1], R[j][1])
    <2>1. R[j][1] \in D /\ Place(counts, R[j][1]) = j
        BY <1>4
    <2> QED
        BY <1>5, <1>6, <2>1
<1>7. ASSUME NEW v \in D
      PROVE  (\E i \in 1..l : R[i][1] = v) \/ (\A i \in 1..l : Ahead(counts, R[i][1], v))
    <2>1. Place(counts, v) \in 1..n
        BY PlaceGrows
    <2>2. CASE Place(counts, v) <= l
        <3> DEFINE i == Place(counts, v)
        <3>1. i \in 1..l
            BY <1>1, <1>2, <2>1, <2>2
        <3>2. R[i][1] \in D /\ Place(counts, R[i][1]) = Place(counts, v)
            BY <1>4, <3>1
        <3>3. ~Ahead(counts, R[i][1], v) /\ ~Ahead(counts, v, R[i][1])
            BY <1>1, <2>1, <3>2, PlaceGrows
        <3>4. R[i][1] = v
            BY <3>2, <3>3, AheadIsOrder
        <3> QED
            BY <3>1, <3>4
    <2>3. CASE ~(Place(counts, v) <= l)
        <3>1. \A i \in 1..l : i < Place(counts, v)
            BY <1>1, <1>2, <2>1, <2>3
        <3> QED
            BY <1>5, <3>1
    <2> QED
        BY <2>2, <2>3
<1>8. ASSUME NEW i \in 1..l PROVE \E v \in D : R[i] = <<v, counts[v]>>
    BY <1>4
<1> QED
    BY <1>6, <1>7, <1>8

-----------------------------------------------------------------------------
(* The rows that each table may have.                                      *)

ShardRows ==
    {k \in Windows \X Nat \X Videos \X Shards : k[2] = BucketStart(k[1], k[2])}
CounterRows == {k \in Windows \X Nat \X Videos : k[2] = BucketStart(k[1], k[2])}
HourRows == {r \in Nat \X Videos : r[1] = BucketStart("1hour", r[1])}

TableOK(table, Rows) == FiniteBag(table) /\ DOMAIN table \subseteq Rows

LEMMA AddedRows ==
    ASSUME NEW A, NEW B, NEW C, C = A (+) B, NEW Rows, TableOK(A, Rows), TableOK(B, Rows)
    PROVE  TableOK(C, Rows)
<1>1. FiniteBag(C) /\ DOMAIN C = DOMAIN A \cup DOMAIN B
    BY TablesAdded DEF TableOK
<1> QED
    BY <1>1 DEF TableOK

LEMMA BatchRows ==
    ASSUME NEW batch \in Batches
    PROVE  TableOK(batch, HourRows)
<1>1. /\ IsABag(batch) /\ IsFiniteSet(DOMAIN batch) /\ DOMAIN batch \subseteq Nat \X Videos
      /\ \A r \in DOMAIN batch : r[1] = BucketStart("1hour", r[1])
    BY LoadAssumption
<1> QED
    BY <1>1 DEF TableOK, FiniteBag, IsABag, HourRows

LEMMA GroupedRows ==
    ASSUME NEW table, TableOK(table, ShardRows)
    PROVE  TableOK(GroupBy(TotalOf, table), CounterRows)
<1> DEFINE G == GroupBy(TotalOf, table)
<1>1. FiniteBag(G) /\ DOMAIN G = {TotalOf(d) : d \in DOMAIN table}
    BY GroupedTotals DEF TableOK
<1>2. ASSUME NEW d \in DOMAIN table PROVE TotalOf(d) \in CounterRows
    <2>1. d \in Windows \X Nat \X Videos \X Shards /\ d[2] = BucketStart(d[1], d[2])
        BY DEF TableOK, ShardRows
    <2>2. d[1] \in Windows /\ d[2] \in Nat /\ d[3] \in Videos
        BY <2>1
    <2> QED
        BY <2>1, <2>2 DEF TotalOf, CounterRows
<1> HIDE DEF G
<1>3. TableOK(G, CounterRows)
    BY <1>1, <1>2 DEF TableOK
<1> QED
    BY <1>3 DEF G

LEMMA AggregatedRows ==
    ASSUME NEW table, FiniteBag(table), DOMAIN table \subseteq Events
    PROVE  TableOK(Aggregated(table), ShardRows)
<1> DEFINE A == Aggregated(table)
<1>1. FiniteBag(A) /\ DOMAIN A = EventKeys(table)
    BY AggregatedAreSums
<1>2. ASSUME NEW w \in Windows, NEW e \in DOMAIN table PROVE EventKey(w, e) \in ShardRows
    <2>1. e.time \in Nat /\ e.video \in Videos /\ e.shard \in Shards
        BY StreamAssumption DEF Events
    <2>2. BucketStart(w, e.time) \in Nat
          /\ BucketStart(w, BucketStart(w, e.time)) = BucketStart(w, e.time)
        BY <2>1, StartOfStart
    <2> QED
        BY <2>1, <2>2 DEF EventKey, ShardRows
<1> HIDE DEF A
<1>3. TableOK(A, ShardRows)
    <2>1. ASSUME NEW d \in DOMAIN A PROVE d \in ShardRows
        <3>1. PICK w \in Windows, e \in DOMAIN table : d = EventKey(w, e)
            BY <1>1 DEF EventKeys
        <3> QED
            BY <1>2, <3>1
    <2> QED
        BY <1>1, <2>1 DEF TableOK
<1> QED
    BY <1>3 DEF A

LEMMA HourlyRows ==
    ASSUME NEW table, TableOK(table, HourRows)
    PROVE  TableOK(HourlyTotals(table), CounterRows)
<1> DEFINE T == HourlyTotals(table)
<1>1. FiniteBag(T) /\ DOMAIN T = HourKeys(table)
    BY HourlyTotalsAreSums DEF TableOK
<1>2. ASSUME NEW w \in Windows, NEW r \in DOMAIN table PROVE HourKey(w, r) \in CounterRows
    <2>1. r[1] \in Nat /\ r[2] \in Videos
        BY DEF TableOK, HourRows
    <2>2. BucketStart(w, r[1]) \in Nat
          /\ BucketStart(w, BucketStart(w, r[1])) = BucketStart(w, r[1])
        BY <2>1, StartOfStart
    <2> QED
        BY <2>1, <2>2 DEF HourKey, CounterRows
<1> HIDE DEF T
<1>3. TableOK(T, CounterRows)
    <2>1. ASSUME NEW d \in DOMAIN T PROVE d \in CounterRows
        <3>1. PICK w \in Windows, r \in DOMAIN table : d = HourKey(w, r)
            BY <1>1 DEF HourKeys
        <3> QED
            BY <1>2, <3>1
    <2> QED
        BY <1>1, <2>1 DEF TableOK
<1> QED
    BY <1>3 DEF T

LEMMA SplitRowsOK ==
    ASSUME NEW table, TableOK(table, HourRows)
    PROVE  TableOK(SplitOverShards(table), ShardRows)
<1> DEFINE T == SplitOverShards(table)
<1>1. FiniteBag(T) /\ DOMAIN T = {ShardKey(p) : p \in Given(table)}
    BY SplitRows DEF TableOK, HourRows
<1>2. ASSUME NEW p \in Given(table) PROVE ShardKey(p) \in ShardRows
    <2>1. p \in (DOMAIN table) \X Shards
        BY DEF Given
    <2>2. p[1] \in HourRows /\ p[2] \in Shards
        BY <2>1 DEF TableOK
    <2>3. p[1][1] \in Nat /\ p[1][2] \in Videos /\ p[1][1] = BucketStart("1hour", p[1][1])
        BY <2>2 DEF HourRows
    <2> QED
        BY <2>2, <2>3 DEF ShardKey, ShardRows, Windows
<1> HIDE DEF T
<1>3. TableOK(T, ShardRows)
    BY <1>1, <1>2 DEF TableOK
<1> QED
    BY <1>3 DEF T

-----------------------------------------------------------------------------
(* The inductive invariant.                                                *)

Buckets(table) == {BucketOf(k) : k \in DOMAIN table}
HourSum(table, key) == SumFunctionOnSet(table, HoursOf(table, key))
Keys == Windows \X Nat \X Videos

TablesOK ==
    /\ TableOK(shards, ShardRows)
    /\ TableOK(aggregate, CounterRows)
    /\ TableOK(native, HourRows)

(* Every bucket with counts that are not abandoned, and no other bucket    *)
(* than one with counts, has a ranking; it is the ranking of its counts.   *)
SnapshotsOK ==
    /\ DOMAIN snapshots \subseteq Buckets(aggregate)
    /\ \A b \in DOMAIN snapshots : Len(snapshots[b]) \in 1..KLimit

Ranked(b) ==
    b \in DOMAIN snapshots /\ snapshots[b] = Ranking(ViewsIn(aggregate, b), KLimit)

AllRanked == \A b \in Buckets(aggregate) : b \in Unranked \/ Ranked(b)

(* A poll is no longer than the consumer asks for, and a process that runs *)
(* has not died.                                                           *)
ConsumerOK ==
    /\ StreamTypeOK
    /\ Cardinality(Batch) <= MaxPollRecords
    /\ phase # "ended" => recounted < runs /\ idle < IdlePolls

LoaderOK ==
    /\ LoadTypeOK
    /\ loading = "dead" => affected = {}
    /\ loading = "precomputed" => torn < loads

OneProgram ==
    /\ program \in {"stream", "load"}
    /\ program = "stream" =>
          DOMAIN native = {} /\ loading = "next" /\ affected = {} /\ abandoned = {}

Applied ==
    (IF phase = "committing" THEN Below(taken) ELSE Below(committed)) \ skipped

StreamCounts ==
    program = "stream" =>
        \A key \in Keys :
            LET once == Cardinality(Counted(Applied, key))
            IN  /\ once <= Stored(key, aggregate)
                /\ Stored(key, aggregate) <= once + recounted * MaxPollRecords

(* The shards add up to the counters.                                      *)
ShardTotals ==
    \A key \in Keys :
        program = "stream" \/ (writeShards /\ key[1] = "1hour") =>
            Total(shards, key) = Stored(key, aggregate)

(* The counters and the batch being applied add up to the native table.    *)
LoadCounts ==
    program = "load" /\ torn = 0 =>
        \A key \in Keys :
            Stored(key, aggregate) + HourSum(rows, key) = HourSum(native, key)

TopKInv ==
    /\ TablesOK
    /\ SnapshotsOK
    /\ AllRanked
    /\ ConsumerOK
    /\ LoaderOK
    /\ OneProgram
    /\ StreamCounts
    /\ ShardTotals
    /\ LoadCounts

-----------------------------------------------------------------------------
(* Buckets and their rankings.                                             *)

LEMMA ViewsFinite ==
    ASSUME NEW table, TableOK(table, CounterRows), NEW b
    PROVE  /\ IsFiniteSet(DOMAIN ViewsIn(table, b))
           /\ b \in Buckets(table) => DOMAIN ViewsIn(table, b) # {}
<1> DEFINE T == {k[3] : k \in DOMAIN table}
           D == DOMAIN ViewsIn(table, b)
<1>1. D = {u \in Videos : <<b[1], b[2], u>> \in DOMAIN table}
    BY DEF ViewsIn
<1>2. IsFiniteSet(T)
    <2> DEFINE f == [k \in DOMAIN table |-> k[3]]
    <2>1. T = {f[k] : k \in DOMAIN table}
        OBVIOUS
    <2> HIDE DEF T, f
    <2> QED
        BY <2>1, ImageIsFinite DEF TableOK, FiniteBag
<1>3. D \subseteq T
    <2>1. ASSUME NEW u \in D PROVE u \in T
        <3>1. <<b[1], b[2], u>> \in DOMAIN table
            BY <1>1
        <3>2. <<b[1], b[2], u>>[3] = u
            OBVIOUS
        <3> QED
            BY <3>1, <3>2
    <2> QED
        BY <2>1
<1>4. IsFiniteSet(D)
    BY <1>2, <1>3, FS_Subset
<1>5. ASSUME b \in Buckets(table) PROVE D # {}
    <2>1. PICK k \in DOMAIN table : b = <<k[1], k[2]>>
        BY <1>5 DEF Buckets, BucketOf
    <2>2. k = <<k[1], k[2], k[3]>> /\ k[3] \in Videos
        BY DEF TableOK, CounterRows
    <2>3. k[3] \in D
        BY <1>1, <2>1, <2>2
    <2> QED
        BY <2>3
<1> QED
    BY <1>4, <1>5

LEMMA RankingLength ==
    ASSUME NEW table, TableOK(table, CounterRows), NEW b \in Buckets(table)
    PROVE  Len(Ranking(ViewsIn(table, b), KLimit)) \in 1..KLimit
<1> DEFINE V == ViewsIn(table, b)
           R == Ranking(V, KLimit)
<1>1. IsFiniteSet(DOMAIN V) /\ DOMAIN V # {}
    BY ViewsFinite
<1>2. KLimit \in Nat /\ KLimit >= 1
    BY StoreAssumption
<1> HIDE DEF V
<1>3. Cardinality(DOMAIN V) \in Nat /\ Cardinality(DOMAIN V) # 0
    BY <1>1, FS_CardinalityType, FS_EmptySet
<1>4. Len(R) = RowCount(V, KLimit)
    BY <1>1, <1>2, RankingRows
<1>5. Len(R) \in 1..KLimit
    BY <1>2, <1>3, <1>4 DEF RowCount
<1> QED
    BY <1>5 DEF V

(* Adding rows of other buckets leaves a bucket alone.                     *)
LEMMA OtherBuckets ==
    ASSUME NEW A, NEW B, NEW C, C = A (+) B,
           TableOK(A, CounterRows), TableOK(B, CounterRows)
    PROVE  /\ Buckets(C) = Buckets(A) \cup Buckets(B)
           /\ \A b \in Buckets(A) : b \in Buckets(B) \/ ViewsIn(C, b) = ViewsIn(A, b)
<1>1. DOMAIN C = DOMAIN A \cup DOMAIN B /\ AddsUp(A, B, C)
    BY TablesAdded DEF TableOK
<1>2. Buckets(C) = Buckets(A) \cup Buckets(B)
    BY <1>1 DEF Buckets
<1>3. ASSUME NEW b \in Buckets(A), b \notin Buckets(B) PROVE ViewsIn(C, b) = ViewsIn(A, b)
    <2> DEFINE key(v) == <<b[1], b[2], v>>
               D == {u \in Videos : key(u) \in DOMAIN A}
    <2>1. b = <<b[1], b[2]>>
        BY DEF Buckets, BucketOf
    <2>2. ASSUME NEW v PROVE key(v) \notin DOMAIN B
        <3>1. BucketOf(key(v)) = b
            BY <2>1 DEF BucketOf
        <3> QED
            BY <1>3, <3>1 DEF Buckets
    <2>3. ASSUME NEW v PROVE key(v) \in DOMAIN C <=> key(v) \in DOMAIN A
        BY <1>1, <2>2
    <2>4. ASSUME NEW v, key(v) \in DOMAIN A PROVE C[key(v)] = A[key(v)]
        <3>1. Stored(key(v), C) = Stored(key(v), A) + Stored(key(v), B)
            BY <1>1 DEF AddsUp
        <3>2. A[key(v)] \in Nat
            BY <2>4 DEF TableOK, FiniteBag
        <3> QED
            BY <2>2, <2>3, <2>4, <3>1, <3>2 DEF Stored
    <2>5. {u \in Videos : key(u) \in DOMAIN C} = D
        BY <2>3
    <2>6. ViewsIn(C, b) = [v \in {u \in Videos : key(u) \in DOMAIN C} |-> C[key(v)]]
        BY DEF ViewsIn
    <2>7. ViewsIn(A, b) = [v \in D |-> A[key(v)]]
        BY DEF ViewsIn
    <2>8. \A v \in D : C[key(v)] = A[key(v)]
        BY <2>4
    <2> HIDE DEF key, D
    <2> QED
        BY <2>5, <2>6, <2>7, <2>8
<1> QED
    BY <1>2, <1>3

-----------------------------------------------------------------------------
(* The consumer.                                                           *)

LEMMA BelowIsFinite ==
    ASSUME NEW o
    PROVE  IsFiniteSet(Below(o)) /\ Size(o) \in Nat
<1>1. IsFiniteSet(Partitions \X (1..MaxEvents))
    <2>1. IsFiniteSet(1..MaxEvents)
        BY StreamAssumption, FS_Interval
    <2> QED
        BY <2>1, StreamAssumption, FS_Product
<1>2. IsFiniteSet(Below(o))
    BY <1>1, FS_Subset DEF Below
<1> QED
    BY <1>2, FS_CardinalityType DEF Size

LEMMA BelowGrows ==
    ASSUME NEW o \in Offsets, NEW u \in Offsets, \A p \in Partitions : o[p] <= u[p]
    PROVE  /\ Below(o) \subseteq Below(u)
           /\ IsFiniteSet(Below(u) \ Below(o))
           /\ Cardinality(Below(u) \ Below(o)) = Size(u) - Size(o)
<1>1. ASSUME NEW q \in Below(o) PROVE q \in Below(u)
    <2>1. q[1] \in Partitions /\ q[2] \in 1..MaxEvents /\ q[2] <= o[q[1]]
        BY DEF Below
    <2>2. o[q[1]] \in Int /\ u[q[1]] \in Int /\ q[2] \in Int
        BY <2>1, StreamAssumption DEF Offsets
    <2>3. q[2] <= u[q[1]]
        BY <2>1, <2>2
    <2> QED
        BY <2>3 DEF Below
<1>2. IsFiniteSet(Below(u)) /\ IsFiniteSet(Below(u) \ Below(o))
    BY BelowIsFinite, FS_Subset
<1>3. Below(u) \cap Below(o) = Below(o)
    BY <1>1
<1>4. Cardinality(Below(u) \ Below(o)) = Cardinality(Below(u)) - Cardinality(Below(u) \cap Below(o))
    BY <1>2, FS_Difference
<1> QED
    BY <1>1, <1>2, <1>3, <1>4 DEF Size

(* Facts of a consumer whose state is right.                               *)
LEMMA ConsumerFacts ==
    ASSUME ConsumerOK
    PROVE  /\ committed \in Offsets /\ polled \in Offsets /\ taken \in Offsets
           /\ \A p \in Partitions :
                 /\ committed[p] \in Nat /\ taken[p] \in Nat /\ polled[p] \in Nat
                 /\ committed[p] <= taken[p] /\ taken[p] <= polled[p]
                 /\ committed[p] <= polled[p]
                 /\ log[p] \in Seq(Events) /\ Len(log[p]) \in Nat /\ polled[p] <= Len(log[p])
           /\ maxMessages \in Nat /\ consumed \in Nat /\ consumed <= maxMessages
           /\ runs \in Nat /\ runs >= 1 /\ runs <= MaxRuns /\ recounted \in Nat
           /\ recounted <= runs /\ idle \in Nat
           /\ Below(committed) \subseteq Below(taken) /\ Below(taken) \subseteq Below(polled)
<1> USE StreamAssumption DEF ConsumerOK, StreamTypeOK
<1>1. committed \in Offsets /\ polled \in Offsets /\ taken \in Offsets
    OBVIOUS
<1>2. ASSUME NEW p \in Partitions
      PROVE  /\ committed[p] \in Nat /\ taken[p] \in Nat /\ polled[p] \in Nat
             /\ committed[p] <= taken[p] /\ taken[p] <= polled[p]
             /\ committed[p] <= polled[p]
             /\ log[p] \in Seq(Events) /\ Len(log[p]) \in Nat /\ polled[p] <= Len(log[p])
    <2>1. committed[p] \in Nat /\ taken[p] \in Nat /\ polled[p] \in Nat
        BY <1>1 DEF Offsets
    <2>2. log[p] \in Seq(Events)
        OBVIOUS
    <2>3. committed[p] <= taken[p] /\ taken[p] <= polled[p] /\ polled[p] <= Len(log[p])
        OBVIOUS
    <2>4. Len(log[p]) \in Nat
        BY <2>2
    <2> QED
        BY <2>1, <2>2, <2>3, <2>4
<1>3. maxMessages \in Nat
    OBVIOUS
<1>4. consumed \in Nat /\ consumed <= maxMessages
    BY <1>3
<1>5. MaxRuns \in Nat /\ IdlePolls \in Nat
    OBVIOUS
<1>6. runs \in Nat /\ runs >= 1 /\ runs <= MaxRuns /\ idle \in Nat
    BY <1>5
<1>7. recounted \in Nat /\ recounted <= runs
    BY <1>6
<1> HIDE DEF ConsumerOK, StreamTypeOK
<1>8. Below(committed) \subseteq Below(taken) /\ Below(taken) \subseteq Below(polled)
    <2>1. \A p \in Partitions : committed[p] <= taken[p]
        BY <1>2
    <2>2. \A p \in Partitions : taken[p] <= polled[p]
        BY <1>2
    <2>3. Below(committed) \subseteq Below(taken)
        BY <1>1, <2>1, BelowGrows
    <2>4. Below(taken) \subseteq Below(polled)
        BY <1>1, <2>2, BelowGrows
    <2> QED
        BY <2>3, <2>4
<1> QED
    BY <1>1, <1>2, <1>3, <1>4, <1>6, <1>7, <1>8

LEMMA ConsumerProduce ==
    ASSUME ConsumerOK, Produce
    PROVE  ConsumerOK'
<1> USE StreamAssumption DEF ConsumerOK, StreamTypeOK, Produce
<1>1. PICK e \in Events : log' = [log EXCEPT ![PartitionOf[e.video]] = Append(@, e)]
    OBVIOUS
<1>2. PartitionOf[e.video] \in Partitions
    BY DEF Events
<1>3. log' \in [Partitions -> Seq(Events)]
    BY <1>1, <1>2
<1>4. ASSUME NEW p \in Partitions PROVE polled[p] <= Len(log'[p])
    <2>1. log[p] \in Seq(Events) /\ polled[p] \in Nat /\ polled[p] <= Len(log[p])
        BY ConsumerFacts
    <2>2. log'[p] = log[p] \/ log'[p] = Append(log[p], e)
        <3>1. log \in [Partitions -> Seq(Events)]
            OBVIOUS
        <3> HIDE DEF ConsumerOK, StreamTypeOK, Produce
        <3>2. log'[p] = IF p = PartitionOf[e.video] THEN Append(log[p], e) ELSE log[p]
            BY <1>1, <3>1
        <3> QED
            BY <3>2
    <2>3. Len(log[p]) <= Len(log'[p]) /\ Len(log'[p]) \in Nat
        <3> HIDE DEF ConsumerOK, StreamTypeOK, Produce
        <3>1. CASE log'[p] = log[p]
            BY <2>1, <3>1
        <3>2. CASE log'[p] = Append(log[p], e)
            <4>1. Len(Append(log[p], e)) = Len(log[p]) + 1 /\ Len(log[p]) \in Nat
                BY <2>1
            <4> QED
                BY <3>2, <4>1
        <3> QED
            BY <2>2, <3>1, <3>2
    <2> QED
        BY <2>1, <2>3
<1>5. UNCHANGED <<committed, polled, taken, phase, maxMessages, consumed, idle, runs,
                  skipped, recounted>>
    OBVIOUS
<1>6. Below(committed)' = Below(committed) /\ Batch' = Batch
    BY <1>5 DEF Below, Batch
<1> QED
    BY <1>3, <1>4, <1>5, <1>6

LEMMA ConsumerPoll ==
    ASSUME ConsumerOK, Poll
    PROVE  ConsumerOK'
<1> DEFINE room == maxMessages - consumed
<1>1. PICK to \in Offsets, upto \in Offsets :
          /\ MayReturn(to) /\ MayTake(upto, to)
          /\ polled' = to
          /\ taken' = upto
          /\ consumed' = consumed + Size(upto) - Size(polled)
    BY DEF Poll
<1>2. /\ phase = "polling" /\ consumed < maxMessages
      /\ phase' = "processing" /\ idle' = 0
      /\ UNCHANGED <<log, committed, maxMessages, runs, skipped, recounted>>
    BY DEF Poll
<1>3. polled = committed /\ polled \in Offsets
    BY <1>2, ConsumerFacts DEF ConsumerOK, StreamTypeOK
<1>4. ASSUME NEW p \in Partitions
      PROVE  committed[p] <= upto[p] /\ upto[p] <= to[p] /\ to[p] <= Len(log[p])
    BY <1>1, <1>3 DEF MayReturn, MayTake
<1>5. /\ Size(to) \in Nat /\ Size(upto) \in Nat /\ Size(polled) \in Nat
      /\ maxMessages \in Nat /\ consumed \in Nat /\ MaxPollRecords \in Nat
    BY BelowIsFinite, ConsumerFacts, StreamAssumption
<1>6. /\ Size(to) - Size(polled) \in 1..MaxPollRecords
      /\ Size(upto) - Size(polled) =
            IF room < Size(to) - Size(polled) THEN room ELSE Size(to) - Size(polled)
    BY <1>1 DEF MayReturn, MayTake
<1>7. /\ Size(upto) - Size(polled) >= 1 /\ Size(upto) - Size(polled) <= MaxPollRecords
      /\ consumed' \in 0..maxMessages
    BY <1>1, <1>2, <1>5, <1>6
<1>8. Batch' = Below(upto) \ Below(committed)
    BY <1>1, <1>2 DEF Batch, Below
<1>9. /\ IsFiniteSet(Below(upto) \ Below(committed))
      /\ Cardinality(Below(upto) \ Below(committed)) = Size(upto) - Size(committed)
    BY <1>3, <1>4, BelowGrows
<1>10. Batch' # {} /\ Cardinality(Batch') <= MaxPollRecords
    <2>1. Cardinality(Batch') = Size(upto) - Size(polled)
        BY <1>3, <1>8, <1>9
    <2>2. Cardinality({}) = 0
        BY FS_EmptySet
    <2> QED
        BY <1>5, <1>7, <2>1, <2>2
<1>11. Cardinality(Batch)' <= MaxPollRecords
    BY <1>10
<1>12. Below(committed)' = Below(committed)
    BY <1>2 DEF Below
<1>13. 0 \in 0..IdlePolls /\ 0 < IdlePolls
    BY StreamAssumption
<1> QED
    BY <1>1, <1>2, <1>3, <1>4, <1>7, <1>10, <1>11, <1>12, <1>13 DEF ConsumerOK, StreamTypeOK

LEMMA ConsumerEmptyPoll ==
    ASSUME ConsumerOK, EmptyPoll
    PROVE  ConsumerOK'
<1>1. /\ phase = "polling" /\ idle' = idle + 1
      /\ phase' = IF idle' >= IdlePolls THEN "ended" ELSE "polling"
      /\ UNCHANGED <<log, committed, polled, taken, maxMessages, consumed, runs, skipped,
                     recounted>>
    BY DEF EmptyPoll
<1>2. Below(committed)' = Below(committed) /\ Batch' = Batch
    BY <1>1 DEF Below, Batch
<1>3. idle \in Nat /\ idle < IdlePolls /\ IdlePolls \in Nat
    BY <1>1, ConsumerFacts, StreamAssumption DEF ConsumerOK
<1>4. idle' \in 0..IdlePolls /\ (phase' # "ended" => idle' < IdlePolls)
    BY <1>1, <1>3
<1>5. phase' \in {"polling", "ended"} /\ Cardinality(Batch)' <= MaxPollRecords
    BY <1>1, <1>2 DEF ConsumerOK
<1>6. recounted < runs
    BY <1>1 DEF ConsumerOK
<1> QED
    BY <1>1, <1>2, <1>4, <1>5, <1>6 DEF ConsumerOK, StreamTypeOK

LEMMA ConsumerProcess ==
    ASSUME ConsumerOK, ProcessBatch
    PROVE  ConsumerOK'
<1>1. /\ phase = "processing" /\ phase' = "committing"
      /\ UNCHANGED <<log, committed, polled, taken, maxMessages, consumed, idle, runs,
                     skipped, recounted>>
    BY DEF ProcessBatch
<1>2. Below(committed)' = Below(committed) /\ Batch' = Batch
    BY <1>1 DEF Below, Batch
<1>3. Cardinality(Batch)' <= MaxPollRecords
    BY <1>2 DEF ConsumerOK
<1> QED
    BY <1>1, <1>2, <1>3 DEF ConsumerOK, StreamTypeOK

LEMMA ConsumerCommit ==
    ASSUME ConsumerOK, CommitOffsets
    PROVE  ConsumerOK'
<1>1. /\ phase = "committing" /\ committed' = polled /\ taken' = polled
      /\ skipped' = skipped \cup (Below(polled) \ Below(taken))
      /\ phase' = IF consumed < maxMessages THEN "polling" ELSE "ended"
      /\ UNCHANGED <<log, polled, maxMessages, consumed, idle, runs, recounted>>
    BY DEF CommitOffsets
<1>2. Below(committed)' = Below(polled) /\ Batch' = {}
    BY <1>1 DEF Below, Batch
<1>3. Cardinality(Batch)' <= MaxPollRecords
    <2>1. Cardinality(Batch') = 0
        BY <1>2, FS_EmptySet
    <2> QED
        BY <2>1, StreamAssumption
<1>4. skipped' \subseteq Below(committed)'
    BY <1>1, <1>2, ConsumerFacts DEF ConsumerOK, StreamTypeOK
<1>5. polled \in Offsets
    BY ConsumerFacts
<1>6. \A p \in Partitions : polled[p] <= polled[p] /\ polled[p] <= Len(log[p])
    BY ConsumerFacts
<1>7. phase' \in {"polling", "ended"}
    BY <1>1
<1> QED
    BY <1>1, <1>3, <1>4, <1>5, <1>6, <1>7 DEF ConsumerOK, StreamTypeOK

LEMMA ConsumerDies ==
    ASSUME ConsumerOK, ProcessDies
    PROVE  ConsumerOK'
<1>1. /\ phase # "ended" /\ phase' = "ended" /\ polled' = committed /\ taken' = committed
      /\ recounted' = IF phase = "committing" THEN recounted + 1 ELSE recounted
      /\ UNCHANGED <<log, committed, maxMessages, consumed, idle, runs, skipped>>
    BY DEF ProcessDies
<1>2. Below(committed)' = Below(committed) /\ Batch' = {}
    BY <1>1 DEF Below, Batch
<1>3. Cardinality(Batch)' <= MaxPollRecords
    <2>1. Cardinality(Batch') = 0
        BY <1>2, FS_EmptySet
    <2> QED
        BY <2>1, StreamAssumption
<1>4. committed \in Offsets
    BY ConsumerFacts
<1>5. ASSUME NEW p \in Partitions
      PROVE  committed[p] <= committed[p] /\ committed[p] <= Len(log[p])
    <2>1. /\ committed[p] \in Nat /\ polled[p] \in Nat /\ Len(log[p]) \in Nat
          /\ committed[p] <= polled[p] /\ polled[p] <= Len(log[p])
        BY ConsumerFacts
    <2> QED
        BY <2>1
<1>6. recounted' \in 0..runs
    <2>1. runs \in Nat /\ recounted \in Nat /\ recounted < runs
        BY <1>1, ConsumerFacts DEF ConsumerOK
    <2> QED
        BY <1>1, <2>1
<1> QED
    BY <1>1, <1>2, <1>3, <1>4, <1>5, <1>6 DEF ConsumerOK, StreamTypeOK

LEMMA ConsumerStarts ==
    ASSUME ConsumerOK, StartAgain
    PROVE  ConsumerOK'
<1>1. /\ phase = "ended" /\ runs < MaxRuns /\ runs' = runs + 1 /\ phase' = "polling"
      /\ maxMessages' \in MaxMessagesChoices /\ consumed' = 0 /\ idle' = 0
      /\ UNCHANGED <<log, committed, polled, taken, skipped, recounted>>
    BY DEF StartAgain
<1>2. Below(committed)' = Below(committed) /\ Batch' = Batch
    BY <1>1 DEF Below, Batch
<1>3. Cardinality(Batch)' <= MaxPollRecords
    BY <1>2 DEF ConsumerOK
<1>4. /\ runs \in Nat /\ runs >= 1 /\ recounted \in Nat /\ recounted <= runs
      /\ MaxRuns \in Nat /\ IdlePolls \in Nat /\ IdlePolls > 0
    BY ConsumerFacts, StreamAssumption
<1>5. runs' \in 1..MaxRuns /\ recounted' \in 0..runs' /\ recounted' < runs'
    BY <1>1, <1>4
<1>6. consumed' \in 0..maxMessages' /\ idle' \in 0..IdlePolls /\ idle' < IdlePolls
    <2>1. maxMessages' \in Nat
        BY <1>1, StreamAssumption
    <2> QED
        BY <1>1, <1>4, <2>1
<1> QED
    BY <1>1, <1>2, <1>3, <1>5, <1>6 DEF ConsumerOK, StreamTypeOK

LEMMA ConsumerStutters ==
    ASSUME ConsumerOK, UNCHANGED streamVars
    PROVE  ConsumerOK'
<1>1. UNCHANGED <<log, committed, polled, taken, phase, maxMessages, consumed, idle, runs,
                  skipped, recounted>>
    BY DEF streamVars
<1>2. Below(committed)' = Below(committed) /\ Batch' = Batch
    BY <1>1 DEF Below, Batch
<1>3. Cardinality(Batch)' <= MaxPollRecords
    BY <1>2 DEF ConsumerOK
<1> QED
    BY <1>1, <1>2, <1>3 DEF ConsumerOK, StreamTypeOK

LEMMA ConsumerStep ==
    ASSUME ConsumerOK, StreamNext \/ UNCHANGED streamVars
    PROVE  ConsumerOK'
BY ConsumerProduce, ConsumerPoll, ConsumerEmptyPoll, ConsumerProcess, ConsumerCommit,
   ConsumerDies, ConsumerStarts, ConsumerStutters DEF StreamNext, StreamFinished

-----------------------------------------------------------------------------
(* A batch of the stream in the tables.                                    *)

LEMMA BatchDeltas ==
    ASSUME ConsumerOK, NEW A, A = Aggregated(BagOfRecords(Batch)),
           NEW G, G = GroupBy(TotalOf, A)
    PROVE  /\ IsFiniteSet(Batch)
           /\ TableOK(A, ShardRows) /\ TableOK(G, CounterRows)
           /\ Buckets(G) = {BucketOf(d) : d \in DOMAIN A}
           /\ \A key \in Keys : /\ Total(A, key) = Cardinality(Counted(Batch, key))
                                /\ Stored(key, G) = Total(A, key)
<1> DEFINE bag == BagOfRecords(Batch)
<1>1. IsFiniteSet(Batch)
    BY BelowIsFinite, FS_Subset DEF Batch
<1>2. ASSUME NEW q \in Batch PROVE Record(q) \in Events
    <2>1. q[1] \in Partitions /\ q[2] \in 1..MaxEvents /\ q[2] <= taken[q[1]]
        BY DEF Batch, Below
    <2>2. /\ taken[q[1]] \in Nat /\ polled[q[1]] \in Nat /\ Len(log[q[1]]) \in Nat
          /\ taken[q[1]] <= polled[q[1]] /\ polled[q[1]] <= Len(log[q[1]])
          /\ log[q[1]] \in Seq(Events)
        BY <2>1, ConsumerFacts
    <2>3. q[2] \in 1..Len(log[q[1]])
        BY <2>1, <2>2, StreamAssumption
    <2> QED
        BY <2>2, <2>3, ElementOfSeq DEF Record
<1>3. FiniteBag(bag) /\ DOMAIN bag = {Record(q) : q \in Batch}
    BY <1>1, BatchIsBag
<1>4. DOMAIN bag \subseteq Events
    <2> HIDE DEF bag
    <2> QED
        BY <1>2, <1>3
<1>5. TableOK(A, ShardRows)
    <2> HIDE DEF bag
    <2>1. TableOK(Aggregated(bag), ShardRows)
        BY <1>3, <1>4, AggregatedRows
    <2> QED
        BY <2>1 DEF bag
<1>6. TableOK(G, CounterRows)
    BY <1>5, GroupedRows
<1>7. /\ DOMAIN G = {TotalOf(d) : d \in DOMAIN A}
      /\ \A key : Stored(key, G) = Total(A, key)
    <2>1. FiniteBag(A)
        BY <1>5 DEF TableOK
    <2>2. /\ DOMAIN GroupBy(TotalOf, A) = {TotalOf(d) : d \in DOMAIN A}
          /\ \A key : Stored(key, GroupBy(TotalOf, A)) = Total(A, key)
        BY <2>1, GroupedTotals
    <2> QED
        BY <2>2
<1>8. Buckets(G) = {BucketOf(d) : d \in DOMAIN A}
    <2>1. \A d : BucketOf(TotalOf(d)) = BucketOf(d)
        BY DEF BucketOf, TotalOf
    <2>2. ASSUME NEW k \in DOMAIN G PROVE BucketOf(k) \in {BucketOf(d) : d \in DOMAIN A}
        BY <1>7, <2>1
    <2>3. ASSUME NEW d \in DOMAIN A PROVE BucketOf(d) \in Buckets(G)
        <3>1. TotalOf(d) \in DOMAIN G
            BY <1>7
        <3> QED
            BY <2>1, <3>1 DEF Buckets
    <2> QED
        BY <2>2, <2>3 DEF Buckets
<1>9. ASSUME NEW key \in Keys PROVE Total(A, key) = Cardinality(Counted(Batch, key))
    <2>1. PICK w \in Windows, s \in Nat, v \in Videos : key = <<w, s, v>>
        BY DEF Keys
    <2>2. Total(Aggregated(BagOfRecords(Batch)), key) = Cardinality(Counted(Batch, key))
        BY <1>1, <2>1, BatchIsCounted
    <2> QED
        BY <2>2
<1> QED
    BY <1>1, <1>5, <1>6, <1>7, <1>8, <1>9

(* What ProcessBatch does to the tables.                                   *)
LEMMA ProcessedTables ==
    ASSUME TopKInv, ProcessBatch
    PROVE  \E A, G :
              /\ A = Aggregated(BagOfRecords(Batch)) /\ G = GroupBy(TotalOf, A)
              /\ TableOK(A, ShardRows) /\ TableOK(G, CounterRows)
              /\ shards' = shards (+) A /\ aggregate' = aggregate (+) G
              /\ snapshots' = Refreshed(aggregate', Buckets(G))
              /\ native' = native
              /\ \A key \in Keys : /\ Total(A, key) = Cardinality(Counted(Batch, key))
                                   /\ Stored(key, G) = Total(A, key)
<1>1. PICK A : A = Aggregated(BagOfRecords(Batch))
    OBVIOUS
<1>2. PICK G : G = GroupBy(TotalOf, A)
    OBVIOUS
<1>3. ConsumerOK
    BY DEF TopKInv
<1>4. /\ TableOK(A, ShardRows) /\ TableOK(G, CounterRows)
      /\ Buckets(G) = {BucketOf(d) : d \in DOMAIN A}
      /\ \A key \in Keys : /\ Total(A, key) = Cardinality(Counted(Batch, key))
                           /\ Stored(key, G) = Total(A, key)
    BY <1>1, <1>2, <1>3, BatchDeltas
<1>5. /\ shards' = shards (+) A /\ aggregate' = aggregate (+) G
      /\ snapshots' = Refreshed(aggregate (+) G, {BucketOf(d) : d \in DOMAIN A})
      /\ native' = native
    BY <1>1, <1>2 DEF ProcessBatch, ApplyDeltas
<1>6. snapshots' = Refreshed(aggregate', Buckets(G))
    BY <1>4, <1>5
<1> QED
    BY <1>1, <1>2, <1>4, <1>5, <1>6

LEMMA ProcessKeepsTables ==
    ASSUME TopKInv, ProcessBatch
    PROVE  TablesOK'
<1>1. PICK A, G :
          /\ TableOK(A, ShardRows) /\ TableOK(G, CounterRows)
          /\ shards' = shards (+) A /\ aggregate' = aggregate (+) G
          /\ native' = native
    BY ProcessedTables
<1>2. /\ TableOK(shards, ShardRows) /\ TableOK(aggregate, CounterRows)
      /\ TableOK(native, HourRows)
    BY DEF TopKInv, TablesOK
<1>3. TableOK(shards', ShardRows)
    BY <1>1, <1>2, AddedRows
<1>4. TableOK(aggregate', CounterRows)
    BY <1>1, <1>2, AddedRows
<1>5. TableOK(native', HourRows)
    BY <1>1, <1>2
<1> QED
    BY <1>3, <1>4, <1>5 DEF TablesOK

LEMMA ProcessRanks ==
    ASSUME TopKInv, ProcessBatch, program = "stream", UNCHANGED loadVars
    PROVE  SnapshotsOK' /\ AllRanked'
<1>1. PICK A, G :
          /\ TableOK(A, ShardRows) /\ TableOK(G, CounterRows)
          /\ aggregate' = aggregate (+) G
          /\ snapshots' = Refreshed(aggregate', Buckets(G))
    BY ProcessedTables
<1>2. /\ DOMAIN snapshots' = DOMAIN snapshots \cup Buckets(G)
      /\ \A b \in Buckets(G) : snapshots'[b] = Ranking(ViewsIn(aggregate', b), KLimit)
      /\ \A b \in DOMAIN snapshots : b \in Buckets(G) \/ snapshots'[b] = snapshots[b]
    BY <1>1 DEF Refreshed
<1>3. TableOK(aggregate, CounterRows)
    BY DEF TopKInv, TablesOK
<1>4. /\ Buckets(aggregate') = Buckets(aggregate) \cup Buckets(G)
      /\ \A b \in Buckets(aggregate) :
            b \in Buckets(G) \/ ViewsIn(aggregate', b) = ViewsIn(aggregate, b)
    BY <1>1, <1>3, OtherBuckets
<1>5. TableOK(aggregate', CounterRows)
    BY <1>1, <1>3, AddedRows
<1>6. ASSUME NEW b \in DOMAIN snapshots' PROVE Len(snapshots'[b]) \in 1..KLimit
    <2>1. CASE b \in Buckets(G)
        <3>1. b \in Buckets(aggregate')
            BY <1>4, <2>1
        <3>2. Len(Ranking(ViewsIn(aggregate', b), KLimit)) \in 1..KLimit
            BY <1>5, <3>1, RankingLength
        <3> QED
            BY <1>2, <2>1, <3>2
    <2>2. CASE b \notin Buckets(G)
        BY <1>2, <2>2 DEF TopKInv, SnapshotsOK
    <2> QED
        BY <2>1, <2>2
<1>7. DOMAIN snapshots' \subseteq Buckets(aggregate')
    BY <1>2, <1>4 DEF TopKInv, SnapshotsOK
<1>8. SnapshotsOK'
    BY <1>6, <1>7 DEF SnapshotsOK
<1>9. ASSUME NEW b \in Buckets(aggregate'), b \notin Unranked' PROVE Ranked(b)'
    <2>1. CASE b \in Buckets(G)
        BY <1>2, <2>1 DEF Ranked
    <2>2. CASE b \notin Buckets(G)
        <3>1. b \in Buckets(aggregate) /\ ViewsIn(aggregate', b) = ViewsIn(aggregate, b)
            BY <1>4, <2>2
        <3>2. b \notin Unranked
            BY DEF TopKInv, OneProgram, Unranked
        <3>3. Ranked(b)
            BY <3>1, <3>2 DEF TopKInv, AllRanked
        <3> QED
            BY <1>2, <2>2, <3>1, <3>3 DEF Ranked
    <2> QED
        BY <2>1, <2>2
<1>10. AllRanked'
    BY <1>9 DEF AllRanked
<1> QED
    BY <1>8, <1>10

LEMMA CountedFinite ==
    ASSUME NEW S, IsFiniteSet(S), NEW key
    PROVE  IsFiniteSet(Counted(S, key)) /\ Cardinality(Counted(S, key)) \in Nat
<1>1. IsFiniteSet(Counted(S, key))
    BY FS_Subset DEF Counted
<1> QED
    BY <1>1, FS_CardinalityType

LEMMA CountedUnion ==
    ASSUME NEW S, IsFiniteSet(S), NEW T, IsFiniteSet(T), S \cap T = {}, NEW key
    PROVE  Cardinality(Counted(S \cup T, key))
           = Cardinality(Counted(S, key)) + Cardinality(Counted(T, key))
<1>1. /\ IsFiniteSet(Counted(S, key)) /\ IsFiniteSet(Counted(T, key))
      /\ Cardinality(Counted(S, key)) \in Nat /\ Cardinality(Counted(T, key)) \in Nat
    BY CountedFinite
<1>2. /\ Counted(S \cup T, key) = Counted(S, key) \cup Counted(T, key)
      /\ Counted(S, key) \cap Counted(T, key) = {}
    BY DEF Counted
<1>3. Cardinality(Counted(S, key) \cup Counted(T, key))
      = Cardinality(Counted(S, key)) + Cardinality(Counted(T, key))
        - Cardinality(Counted(S, key) \cap Counted(T, key))
    BY <1>1, FS_Union
<1>4. Cardinality(Counted(S, key) \cap Counted(T, key)) = 0
    BY <1>2, FS_EmptySet
<1> DEFINE a == Cardinality(Counted(S, key))
           b == Cardinality(Counted(T, key))
           c == Cardinality(Counted(S, key) \cup Counted(T, key))
           d == Cardinality(Counted(S, key) \cap Counted(T, key))
<1>5. Cardinality(Counted(S \cup T, key)) = c
    BY <1>2
<1>6. a \in Nat /\ b \in Nat /\ c = a + b - d /\ d = 0
    BY <1>1, <1>3, <1>4
<1> HIDE DEF a, b, c, d
<1>7. Cardinality(Counted(S \cup T, key)) = a + b
    BY <1>5, <1>6
<1> QED
    BY <1>7 DEF a, b

(* The batch is new to the counters. *)
LEMMA BatchIsNew ==
    ASSUME ConsumerOK
    PROVE  /\ IsFiniteSet(Below(committed) \ skipped) /\ IsFiniteSet(Batch)
           /\ (Below(committed) \ skipped) \cap Batch = {}
           /\ Below(taken) \ skipped = (Below(committed) \ skipped) \cup Batch
<1>1. IsFiniteSet(Below(committed) \ skipped)
    BY BelowIsFinite, FS_Subset
<1>2. IsFiniteSet(Batch)
    BY BelowIsFinite, FS_Subset DEF Batch
<1>3. skipped \subseteq Below(committed) /\ Below(committed) \subseteq Below(taken)
    BY ConsumerFacts DEF ConsumerOK, StreamTypeOK
<1> QED
    BY <1>1, <1>2, <1>3 DEF Batch

LEMMA ProcessCounts ==
    ASSUME TopKInv, ProcessBatch, program = "stream"
    PROVE  StreamCounts' /\ ShardTotals'
<1>1. PICK A, G :
          /\ TableOK(A, ShardRows) /\ TableOK(G, CounterRows)
          /\ shards' = shards (+) A /\ aggregate' = aggregate (+) G
          /\ \A key \in Keys : /\ Total(A, key) = Cardinality(Counted(Batch, key))
                               /\ Stored(key, G) = Total(A, key)
    BY ProcessedTables
<1>2. /\ TableOK(shards, ShardRows) /\ TableOK(aggregate, CounterRows) /\ ConsumerOK
    BY DEF TopKInv, TablesOK
<1>3. AddsUp(aggregate, G, aggregate')
    BY <1>1, <1>2, TablesAdded DEF TableOK
<1>4. ASSUME NEW key \in Keys
      PROVE  Total(shards', key) = Total(shards, key) + Total(A, key)
    BY <1>1, <1>2, TotalsAdded DEF TableOK
<1>5. /\ phase = "processing" /\ phase' = "committing"
      /\ UNCHANGED <<log, committed, taken, skipped, recounted>>
    BY DEF ProcessBatch
<1>6. /\ Applied = Below(committed) \ skipped
      /\ Applied' = (Below(committed) \ skipped) \cup Batch
    <2>1. Applied' = Below(taken) \ skipped
        BY <1>5 DEF Applied, Below
    <2> QED
        BY <1>2, <1>5, <2>1, BatchIsNew DEF Applied
<1>7. ASSUME NEW key \in Keys
      PROVE  LET once == Cardinality(Counted(Applied, key))
             IN  /\ once <= Stored(key, aggregate)
                 /\ Stored(key, aggregate) <= once + recounted * MaxPollRecords
                 /\ once \in Nat /\ Stored(key, aggregate) \in Nat
    <2>1. IsFiniteSet(Applied)
        BY <1>2, <1>6, BatchIsNew
    <2>2. Stored(key, aggregate) \in Nat
        BY <1>2, FiniteBagCounts DEF TableOK
    <2>3. Cardinality(Counted(Applied, key)) \in Nat
        BY <2>1, CountedFinite
    <2> QED
        BY <2>2, <2>3 DEF TopKInv, StreamCounts
<1>8. ASSUME NEW key \in Keys
      PROVE  Cardinality(Counted(Applied, key))'
             = Cardinality(Counted(Applied, key)) + Cardinality(Counted(Batch, key))
    <2>1. Counted(Applied, key)' = Counted(Applied', key)
        BY <1>5 DEF Counted, CountedBy, Record
    <2>2. Cardinality(Counted(Applied', key))
          = Cardinality(Counted(Below(committed) \ skipped, key))
            + Cardinality(Counted(Batch, key))
        BY <1>2, <1>6, BatchIsNew, CountedUnion
    <2> QED
        BY <1>6, <2>1, <2>2
<1>9. ASSUME NEW key \in Keys
      PROVE  /\ Stored(key, aggregate') = Stored(key, aggregate) + Cardinality(Counted(Batch, key))
             /\ Cardinality(Counted(Batch, key)) \in Nat
    <2>1. Cardinality(Counted(Batch, key)) \in Nat
        BY <1>2, BatchIsNew, CountedFinite
    <2> QED
        BY <1>1, <1>3, <2>1 DEF AddsUp
<1>10. recounted \in Nat /\ MaxPollRecords \in Nat /\ recounted * MaxPollRecords \in Nat
    BY <1>2, ConsumerFacts, StreamAssumption
<1>11. ASSUME NEW key \in Keys
       PROVE  /\ Cardinality(Counted(Applied, key))' <= Stored(key, aggregate')
              /\ Stored(key, aggregate')
                    <= Cardinality(Counted(Applied, key))' + recounted' * MaxPollRecords
    <2> DEFINE once == Cardinality(Counted(Applied, key))
               more == Cardinality(Counted(Batch, key))
               was == Stored(key, aggregate)
               twice == recounted * MaxPollRecords
    <2>1. /\ once <= was /\ was <= once + twice
          /\ once \in Nat /\ was \in Nat /\ more \in Nat /\ twice \in Nat
        BY <1>7, <1>9, <1>10
    <2>2. once' = once + more /\ Stored(key, aggregate') = was + more
        BY <1>8, <1>9
    <2>3. recounted' * MaxPollRecords = twice
        BY <1>5
    <2> HIDE DEF more, was, twice
    <2> QED
        BY <2>1, <2>2, <2>3
<1>12. StreamCounts'
    BY <1>11 DEF StreamCounts
<1>13. ASSUME NEW key \in Keys
       PROVE  Total(shards', key) = Stored(key, aggregate')
    <2>1. Total(shards, key) = Stored(key, aggregate)
        BY DEF TopKInv, ShardTotals
    <2> QED
        BY <1>1, <1>3, <1>4, <2>1 DEF AddsUp
<1>14. ShardTotals'
    BY <1>13 DEF ShardTotals
<1> QED
    BY <1>12, <1>14

(* The other steps of the consumer. *)
LEMMA SameCounts ==
    ASSUME StreamCounts, Applied' = Applied, UNCHANGED <<log, aggregate, recounted, program>>
    PROVE  StreamCounts'
<1>1. ASSUME NEW key \in Keys PROVE Counted(Applied, key)' = Counted(Applied, key)
    BY DEF Counted, CountedBy, Record
<1> QED
    BY <1>1 DEF StreamCounts

LEMMA ProduceCounts ==
    ASSUME TopKInv, Produce, program' = program
    PROVE  StreamCounts'
<1>1. ConsumerOK
    BY DEF TopKInv
<1>2. UNCHANGED <<aggregate, phase, taken, committed, skipped, recounted>>
    BY DEF Produce, storeVars
<1>3. Applied' = Applied
    BY <1>2 DEF Applied, Below
<1>4. PICK e \in Events : log' = [log EXCEPT ![PartitionOf[e.video]] = Append(@, e)]
    BY DEF Produce
<1>5. ASSUME NEW q \in Applied PROVE Record(q)' = Record(q)
    <2>1. q \in Below(taken)
        <3>1. Below(committed) \subseteq Below(taken)
            BY <1>1, ConsumerFacts
        <3> QED
            BY <3>1 DEF Applied
    <2>2. q[1] \in Partitions /\ q[2] \in 1..MaxEvents /\ q[2] <= taken[q[1]]
        BY <2>1 DEF Below
    <2>3. /\ taken[q[1]] \in Nat /\ polled[q[1]] \in Nat /\ Len(log[q[1]]) \in Nat
          /\ taken[q[1]] <= polled[q[1]] /\ polled[q[1]] <= Len(log[q[1]])
          /\ log[q[1]] \in Seq(Events)
        BY <1>1, <2>2, ConsumerFacts
    <2>4. q[2] \in 1..Len(log[q[1]])
        BY <2>2, <2>3, StreamAssumption
    <2>5. log \in [Partitions -> Seq(Events)]
        BY <1>1 DEF ConsumerOK, StreamTypeOK
    <2>6. log'[q[1]] = IF q[1] = PartitionOf[e.video] THEN Append(log[q[1]], e) ELSE log[q[1]]
        BY <1>4, <2>2, <2>5
    <2>7. Append(log[q[1]], e)[q[2]] = log[q[1]][q[2]]
        BY <2>3, <2>4
    <2>8. log'[q[1]][q[2]] = log[q[1]][q[2]]
        BY <2>6, <2>7
    <2> QED
        BY <2>8 DEF Record
<1>6. ASSUME NEW key \in Keys PROVE Counted(Applied, key)' = Counted(Applied, key)
    <2>1. \A q \in Applied : CountedBy(key, q)' <=> CountedBy(key, q)
        BY <1>5 DEF CountedBy
    <2> QED
        BY <1>3, <2>1 DEF Counted
<1> QED
    BY <1>2, <1>6 DEF TopKInv, StreamCounts

LEMMA CommitCounts ==
    ASSUME TopKInv, CommitOffsets, program' = program
    PROVE  StreamCounts'
<1>1. /\ phase = "committing" /\ committed' = polled /\ taken' = polled
      /\ phase' # "committing"
      /\ skipped' = skipped \cup (Below(polled) \ Below(taken))
      /\ UNCHANGED <<log, aggregate, recounted>>
    BY DEF CommitOffsets, storeVars
<1>2. Below(taken) \subseteq Below(polled)
    BY ConsumerFacts DEF TopKInv
<1>3. Applied = Below(taken) \ skipped
    BY <1>1 DEF Applied
<1>4. Applied' = Below(polled) \ skipped'
    BY <1>1 DEF Applied, Below
<1>5. Applied' = Applied
    BY <1>1, <1>2, <1>3, <1>4
<1> QED
    BY <1>1, <1>5, SameCounts DEF TopKInv

LEMMA DeathCounts ==
    ASSUME TopKInv, ProcessDies, program' = program
    PROVE  StreamCounts'
<1>1. /\ phase # "ended" /\ phase' = "ended" /\ taken' = committed
      /\ recounted' = IF phase = "committing" THEN recounted + 1 ELSE recounted
      /\ UNCHANGED <<log, committed, skipped, aggregate>>
    BY DEF ProcessDies, storeVars
<1>2. Applied' = Below(committed) \ skipped
    BY <1>1 DEF Applied, Below
<1>3. CASE phase # "committing"
    <2>1. Applied' = Applied
        BY <1>2, <1>3 DEF Applied
    <2> QED
        BY <1>1, <1>3, <2>1, SameCounts DEF TopKInv
<1>4. CASE phase = "committing"
    <2>1. ConsumerOK
        BY DEF TopKInv
    <2>2. Applied = Applied' \cup Batch /\ Applied' \cap Batch = {}
        <3>1. Applied = Below(taken) \ skipped
            BY <1>4 DEF Applied
        <3> QED
            BY <1>2, <2>1, <3>1, BatchIsNew
    <2>3. recounted' = recounted + 1
        BY <1>1, <1>4
    <2> SUFFICES ASSUME program = "stream", NEW key \in Keys
                 PROVE  /\ Cardinality(Counted(Applied, key))' <= Stored(key, aggregate')
                        /\ Stored(key, aggregate')
                             <= Cardinality(Counted(Applied, key))' + recounted' * MaxPollRecords
        BY DEF StreamCounts
    <2> DEFINE once == Cardinality(Counted(Applied', key))
               more == Cardinality(Counted(Batch, key))
               all == Cardinality(Counted(Applied, key))
               count == Stored(key, aggregate)
    <2>4. IsFiniteSet(Applied') /\ IsFiniteSet(Batch)
        BY <1>2, <2>1, BatchIsNew
    <2>5. all = once + more /\ once \in Nat /\ more \in Nat
        <3>1. \A S : S = Applied' => Cardinality(Counted(S \cup Batch, key))
                          = Cardinality(Counted(S, key)) + Cardinality(Counted(Batch, key))
            BY <2>2, <2>4, CountedUnion
        <3>2. once \in Nat /\ more \in Nat
            BY <2>4, CountedFinite
        <3> QED
            BY <2>2, <3>1, <3>2
    <2>6. more <= MaxPollRecords
        <3>1. Counted(Batch, key) \subseteq Batch
            BY DEF Counted
        <3>2. Cardinality(Counted(Batch, key)) <= Cardinality(Batch)
            BY <2>4, <3>1, FS_Subset
        <3>3. Cardinality(Batch) \in Nat /\ Cardinality(Batch) <= MaxPollRecords
            BY <2>1, <2>4, FS_CardinalityType DEF ConsumerOK
        <3> QED
            BY <2>5, <3>2, <3>3, StreamAssumption
    <2>7. all <= count /\ count <= all + recounted * MaxPollRecords
        BY DEF TopKInv, StreamCounts
    <2>8. Counted(Applied, key)' = Counted(Applied', key) /\ Stored(key, aggregate') = count
        BY <1>1 DEF Counted, CountedBy, Record
    <2>9. count \in Nat
        BY FiniteBagCounts DEF TopKInv, TablesOK, TableOK
    <2>10. recounted \in Nat /\ MaxPollRecords \in Nat
        BY <2>1, ConsumerFacts, StreamAssumption
    <2>11. recounted' * MaxPollRecords = recounted * MaxPollRecords + MaxPollRecords
           /\ recounted * MaxPollRecords \in Nat
        BY <2>3, <2>10
    <2>12. Cardinality(Counted(Applied, key))' = once
        BY <2>8
    <2> HIDE DEF once, more, all, count
    <2>13. once <= count /\ count <= once + recounted' * MaxPollRecords
        BY <2>5, <2>6, <2>7, <2>9, <2>10, <2>11
    <2> QED
        BY <2>8, <2>12, <2>13
<1> QED
    BY <1>3, <1>4

LEMMA IdleCounts ==
    ASSUME TopKInv, Poll \/ EmptyPoll \/ StartAgain \/ UNCHANGED <<storeVars, streamVars>>,
           program' = program
    PROVE  StreamCounts'
<1>1. /\ UNCHANGED <<log, aggregate, committed, skipped, recounted>>
      /\ UNCHANGED <<taken, phase>> \/ (phase # "committing" /\ phase' # "committing")
    BY DEF Poll, EmptyPoll, StartAgain, storeVars, streamVars
<1>2. Applied' = Applied
    BY <1>1 DEF Applied, Below
<1> QED
    BY <1>1, <1>2, SameCounts DEF TopKInv

-----------------------------------------------------------------------------
(* The loader.                                                             *)

LEMMA HourSumOfNothing ==
    ASSUME NEW key
    PROVE  HourSum(EmptyBag, key) = 0 /\ Total(EmptyBag, key) = 0
<1>1. HoursOf(EmptyBag, key) = {} /\ OfTotal(EmptyBag, key) = {}
    BY EmptyTable DEF HoursOf, OfTotal
<1> QED
    BY <1>1, SumEmpty DEF HourSum, Total

LEMMA HourSumsAdded ==
    ASSUME NEW A, NEW B, NEW C, C = A (+) B, FiniteBag(A), FiniteBag(B), NEW key
    PROVE  HourSum(C, key) = HourSum(A, key) + HourSum(B, key)
<1> DEFINE Q == {r \in DOMAIN A \cup DOMAIN B : HourKey(key[1], r) = key}
<1>1. DOMAIN C = DOMAIN A \cup DOMAIN B
    BY TablesAdded
<1>2. RowsIn(A, Q) = HoursOf(A, key) /\ RowsIn(B, Q) = HoursOf(B, key)
    BY DEF RowsIn, HoursOf
<1>3. RowsIn(C, Q) = HoursOf(C, key)
    BY <1>1 DEF RowsIn, HoursOf
<1> HIDE DEF Q
<1> QED
    BY <1>2, <1>3, SumOfAdded DEF HourSum

LEMMA HourSumIsCount ==
    ASSUME NEW table, FiniteBag(table), NEW key
    PROVE  /\ IsFiniteSet(HoursOf(table, key)) /\ AreCounts(table, HoursOf(table, key))
           /\ HourSum(table, key) \in Nat
<1>1. IsFiniteSet(HoursOf(table, key))
    BY FS_Subset DEF FiniteBag, HoursOf
<1>2. AreCounts(table, HoursOf(table, key))
    BY FiniteBagCounts DEF AreCounts, HoursOf
<1> QED
    BY <1>1, <1>2, SumNat DEF HourSum

(* The bucket of an hour holds that hour. *)
LEMMA HourOfHour ==
    ASSUME NEW table, TableOK(table, HourRows), NEW h, NEW v
    PROVE  HourSum(table, <<"1hour", h, v>>) = Stored(<<h, v>>, table)
<1> DEFINE key == <<"1hour", h, v>>
           row == <<h, v>>
<1>1. ASSUME NEW r \in DOMAIN table PROVE HourKey("1hour", r) = key <=> r = row
    <2>1. r = <<r[1], r[2]>> /\ r[1] = BucketStart("1hour", r[1])
        BY DEF TableOK, HourRows
    <2>2. HourKey("1hour", r) = <<"1hour", r[1], r[2]>>
        BY <2>1 DEF HourKey
    <2> QED
        BY <2>1, <2>2
<1>2. HoursOf(table, key) = {r \in DOMAIN table : r = row}
    BY <1>1 DEF HoursOf
<1>3. HourSum(table, key) = SumFunctionOnSet(table, HoursOf(table, key))
    BY DEF HourSum
<1> HIDE DEF key, row
<1>4. CASE row \in DOMAIN table
    <2>1. HoursOf(table, key) = {row} /\ table[row] \in Nat
        BY <1>2, <1>4 DEF TableOK, FiniteBag
    <2> QED
        BY <1>3, <1>4, <2>1, SumSingleton DEF key, row, Stored
<1>5. CASE row \notin DOMAIN table
    <2>1. HoursOf(table, key) = {}
        BY <1>2, <1>5
    <2> QED
        BY <1>3, <1>5, <2>1, SumEmpty DEF key, row, Stored
<1> QED
    BY <1>4, <1>5

LEMMA LoadNativeStep ==
    ASSUME TopKInv, LoadNative, UNCHANGED <<program, streamVars>>
    PROVE  /\ TablesOK' /\ SnapshotsOK' /\ AllRanked' /\ LoaderOK' /\ ShardTotals'
           /\ LoadCounts'
<1>1. /\ loading = "next" /\ loading' = "precomputed" /\ loads < MaxLoads
      /\ loads' = loads + 1 /\ rows' \in Batches /\ native' = native (+) rows'
      /\ UNCHANGED <<shards, aggregate, snapshots, writeShards, affected, torn, abandoned>>
    BY DEF LoadNative, ApplyNativeHourlyCounts
<1>2. rows = EmptyBag /\ TableOK(rows', HourRows)
    BY <1>1, BatchRows DEF TopKInv, LoaderOK, LoadTypeOK
<1>3. /\ TableOK(shards, ShardRows) /\ TableOK(aggregate, CounterRows)
      /\ TableOK(native, HourRows)
    BY DEF TopKInv, TablesOK
<1>4. TableOK(native', HourRows)
    BY <1>1, <1>2, <1>3, AddedRows
<1>5. TablesOK'
    BY <1>1, <1>3, <1>4 DEF TablesOK
<1>6. SnapshotsOK'
    BY <1>1 DEF TopKInv, SnapshotsOK, Buckets
<1>7. AllRanked'
    <2>1. Unranked' = Unranked /\ Buckets(aggregate)' = Buckets(aggregate)
        BY <1>1 DEF Unranked, Buckets
    <2>2. \A b : Ranked(b)' <=> Ranked(b)
        BY <1>1 DEF Ranked, ViewsIn
    <2> QED
        BY <2>1, <2>2 DEF TopKInv, AllRanked
<1>8. LoaderOK'
    <2>1. loads' \in 0..MaxLoads /\ torn' \in 0..loads' /\ torn' < loads'
        <3>1. loads \in 0..MaxLoads /\ torn \in 0..loads /\ MaxLoads \in Nat
            BY LoadAssumption DEF TopKInv, LoaderOK, LoadTypeOK
        <3> QED
            BY <1>1, <3>1
    <2> QED
        BY <1>1, <2>1 DEF TopKInv, LoaderOK, LoadTypeOK
<1>9. ShardTotals'
    <2>1. \A key : Total(shards, key)' = Total(shards, key)
                   /\ Stored(key, aggregate)' = Stored(key, aggregate)
        BY <1>1 DEF Total, OfTotal, Stored
    <2> QED
        BY <1>1, <2>1 DEF TopKInv, ShardTotals
<1>10. ASSUME NEW key \in Keys, program = "load", torn = 0
       PROVE  Stored(key, aggregate') + HourSum(rows', key) = HourSum(native', key)
    <2>1. HourSum(native', key) = HourSum(native, key) + HourSum(rows', key)
        BY <1>1, <1>2, <1>3, HourSumsAdded DEF TableOK
    <2>2. HourSum(rows, key) = 0
        BY <1>2, HourSumOfNothing
    <2>3. Stored(key, aggregate) + HourSum(rows, key) = HourSum(native, key)
        BY <1>10 DEF TopKInv, LoadCounts
    <2>4. Stored(key, aggregate) \in Nat
        BY <1>3, FiniteBagCounts DEF TableOK
    <2> QED
        BY <1>1, <2>1, <2>2, <2>3, <2>4
<1>11. LoadCounts'
    BY <1>1, <1>10 DEF LoadCounts
<1> QED
    BY <1>5, <1>6, <1>7, <1>8, <1>9, <1>11

LEMMA LoadPrecomputedStep ==
    ASSUME TopKInv, LoadPrecomputed, program = "load", program' = program
    PROVE  /\ TablesOK' /\ SnapshotsOK' /\ AllRanked' /\ LoaderOK' /\ ShardTotals'
           /\ LoadCounts'
<1>1. PICK T : T = HourlyTotals(rows)
    OBVIOUS
<1>2. PICK D : D = SplitOverShards(rows)
    OBVIOUS
<1>3. /\ loading = "precomputed" /\ loading' = "next" /\ rows' = EmptyBag
      /\ shards' = (IF writeShards THEN shards (+) D ELSE shards)
      /\ aggregate' = aggregate (+) T /\ affected' = affected \cup Buckets(T)
      /\ UNCHANGED <<native, snapshots, writeShards, loads, torn, abandoned>>
    BY <1>1, <1>2 DEF LoadPrecomputed, ApplyPrecomputedHourlyCounts, AffectedBy, Buckets
<1>4. TableOK(rows, HourRows)
    BY <1>3, BatchRows DEF TopKInv, LoaderOK, LoadTypeOK
<1>5. /\ TableOK(shards, ShardRows) /\ TableOK(aggregate, CounterRows)
      /\ TableOK(native, HourRows) /\ writeShards \in BOOLEAN
    BY DEF TopKInv, TablesOK, LoaderOK, LoadTypeOK
<1>6. TableOK(T, CounterRows) /\ TableOK(D, ShardRows)
    BY <1>1, <1>2, <1>4, HourlyRows, SplitRowsOK
<1>7. TableOK(aggregate', CounterRows)
    BY <1>3, <1>5, <1>6, AddedRows
<1>8. TableOK(shards', ShardRows)
    <2>1. PICK C : C = shards (+) D
        OBVIOUS
    <2>2. TableOK(C, ShardRows)
        BY <1>5, <1>6, <2>1, AddedRows
    <2> QED
        BY <1>3, <1>5, <2>1, <2>2
<1>9. TablesOK'
    BY <1>3, <1>5, <1>7, <1>8 DEF TablesOK
<1>10. /\ Buckets(aggregate') = Buckets(aggregate) \cup Buckets(T)
       /\ \A b \in Buckets(aggregate) :
             b \in Buckets(T) \/ ViewsIn(aggregate', b) = ViewsIn(aggregate, b)
    BY <1>3, <1>5, <1>6, OtherBuckets
<1>11. SnapshotsOK'
    BY <1>3, <1>10 DEF TopKInv, SnapshotsOK
<1>12. ASSUME NEW b \in Buckets(aggregate'), b \notin Unranked' PROVE Ranked(b)'
    <2>1. b \notin Buckets(T) /\ b \notin Unranked
        BY <1>3, <1>12 DEF Unranked
    <2>2. b \in Buckets(aggregate) /\ ViewsIn(aggregate', b) = ViewsIn(aggregate, b)
        BY <1>10, <2>1
    <2>3. Ranked(b)
        BY <2>1, <2>2 DEF TopKInv, AllRanked
    <2> QED
        BY <1>3, <2>2, <2>3 DEF Ranked
<1>13. AllRanked'
    BY <1>12 DEF AllRanked
<1>14. LoaderOK'
    <2>1. /\ affected \subseteq Buckets(aggregate) /\ abandoned \subseteq Buckets(aggregate)
          /\ loads \in 0..MaxLoads /\ torn \in 0..loads
        BY DEF TopKInv, LoaderOK, LoadTypeOK, Buckets
    <2>2. affected' \subseteq Buckets(aggregate') /\ abandoned' \subseteq Buckets(aggregate')
        BY <1>3, <1>10, <2>1
    <2> QED
        BY <1>3, <1>5, <2>1, <2>2 DEF LoaderOK, LoadTypeOK, Buckets
<1>15. AddsUp(aggregate, T, aggregate')
    BY <1>3, <1>5, <1>6, TablesAdded DEF TableOK
<1>16. ASSUME NEW key \in Keys
       PROVE  /\ Stored(key, T) = HourSum(rows, key)
              /\ HourSum(rows, key) \in Nat /\ Stored(key, aggregate) \in Nat
              /\ Stored(key, aggregate') = Stored(key, aggregate) + HourSum(rows, key)
    <2>1. FiniteBag(rows)
        BY <1>4 DEF TableOK
    <2>2. key[1] \in Windows
        BY DEF Keys
    <2>3. Stored(key, HourlyTotals(rows)) = HourSum(rows, key)
        BY <2>1, <2>2, HourlyTotalsAreSums DEF HourSum
    <2>4. Stored(key, T) = HourSum(rows, key)
        BY <1>1, <2>3
    <2>5. HourSum(rows, key) \in Nat
        BY <2>1, HourSumIsCount
    <2>6. Stored(key, aggregate) \in Nat
        BY <1>5, FiniteBagCounts DEF TableOK
    <2> QED
        BY <1>15, <2>4, <2>5, <2>6 DEF AddsUp
<1>17. ASSUME NEW key \in Keys, torn = 0
       PROVE  Stored(key, aggregate') + HourSum(rows', key) = HourSum(native', key)
    <2>1. HourSum(rows', key) = 0
        BY <1>3, HourSumOfNothing
    <2>2. Stored(key, aggregate) + HourSum(rows, key) = HourSum(native, key)
        BY <1>17 DEF TopKInv, LoadCounts
    <2> QED
        BY <1>3, <1>16, <2>1, <2>2
<1>18. LoadCounts'
    BY <1>3, <1>17 DEF LoadCounts
<1>19. ASSUME NEW key \in Keys, writeShards, key[1] = "1hour"
       PROVE  Total(shards', key) = Stored(key, aggregate')
    <2>1. PICK h \in Nat, v \in Videos : key = <<"1hour", h, v>>
        BY <1>19 DEF Keys
    <2>2. Total(D, key) = Stored(<<h, v>>, rows)
        <3>1. DOMAIN rows \subseteq Nat \X Videos /\ FiniteBag(rows)
            BY <1>4 DEF TableOK, HourRows
        <3>2. Total(SplitOverShards(rows), <<"1hour", h, v>>) = Stored(<<h, v>>, rows)
            BY <3>1, SplitAddsUp
        <3> QED
            BY <1>2, <2>1, <3>2
    <2>3. HourSum(rows, key) = Stored(<<h, v>>, rows)
        BY <1>4, <2>1, HourOfHour
    <2>4. Total(shards', key) = Total(shards, key) + Total(D, key)
        <3>1. shards' = shards (+) D
            BY <1>3, <1>19
        <3> QED
            BY <1>5, <1>6, <3>1, TotalsAdded DEF TableOK
    <2>5. Total(shards, key) = Stored(key, aggregate)
        BY <1>19 DEF TopKInv, ShardTotals
    <2> QED
        BY <1>16, <2>2, <2>3, <2>4, <2>5
<1>20. ShardTotals'
    BY <1>3, <1>19 DEF ShardTotals
<1> QED
    BY <1>9, <1>11, <1>13, <1>14, <1>18, <1>20

LEMMA RefreshStep ==
    ASSUME TopKInv, RefreshAtEnd, program' = program
    PROVE  /\ TablesOK' /\ SnapshotsOK' /\ AllRanked' /\ LoaderOK' /\ ShardTotals'
           /\ LoadCounts'
<1>1. /\ loading = "next" /\ loading' = "measure"
      /\ snapshots' = Refreshed(aggregate, affected)
      /\ abandoned' = abandoned \ affected
      /\ UNCHANGED <<shards, aggregate, native, rows, writeShards, affected, loads, torn>>
    BY DEF RefreshAtEnd, RefreshTopKSnapshots
<1>2. TablesOK'
    BY <1>1 DEF TopKInv, TablesOK
<1>3. affected \subseteq Buckets(aggregate)
    BY DEF TopKInv, LoaderOK, LoadTypeOK, Buckets
<1>4. /\ DOMAIN snapshots' = DOMAIN snapshots \cup affected
      /\ \A b \in affected : snapshots'[b] = Ranking(ViewsIn(aggregate, b), KLimit)
      /\ \A b \in DOMAIN snapshots : b \in affected \/ snapshots'[b] = snapshots[b]
    BY <1>1 DEF Refreshed
<1>5. TableOK(aggregate, CounterRows)
    BY DEF TopKInv, TablesOK
<1>6. Buckets(aggregate)' = Buckets(aggregate)
    BY <1>1 DEF Buckets
<1>7. ASSUME NEW b \in DOMAIN snapshots' PROVE Len(snapshots'[b]) \in 1..KLimit
    <2>1. CASE b \in affected
        <3>1. Len(Ranking(ViewsIn(aggregate, b), KLimit)) \in 1..KLimit
            BY <1>3, <1>5, <2>1, RankingLength
        <3> QED
            BY <1>4, <2>1, <3>1
    <2>2. CASE b \notin affected
        BY <1>4, <2>2 DEF TopKInv, SnapshotsOK
    <2> QED
        BY <2>1, <2>2
<1>8. DOMAIN snapshots' \subseteq Buckets(aggregate)
    BY <1>3, <1>4 DEF TopKInv, SnapshotsOK
<1>9. SnapshotsOK'
    BY <1>6, <1>7, <1>8 DEF SnapshotsOK
<1>10. ASSUME NEW b \in Buckets(aggregate), b \notin Unranked'
       PROVE  Ranked(b)'
    <2>1. ViewsIn(aggregate, b)' = ViewsIn(aggregate, b)
        BY <1>1 DEF ViewsIn
    <2>2. CASE b \in affected
        BY <1>4, <2>1, <2>2 DEF Ranked
    <2>3. CASE b \notin affected
        <3>1. b \notin Unranked
            BY <1>1, <1>10, <2>3 DEF Unranked
        <3>2. Ranked(b)
            BY <3>1 DEF TopKInv, AllRanked
        <3> QED
            BY <1>4, <2>1, <2>3, <3>2 DEF Ranked
    <2> QED
        BY <2>2, <2>3
<1>11. AllRanked'
    BY <1>6, <1>10 DEF AllRanked
<1>12. LoaderOK'
    <2>1. \A b \in abandoned' : b \in abandoned
        BY <1>1
    <2> QED
        BY <1>1, <2>1 DEF TopKInv, LoaderOK, LoadTypeOK
<1>13. ShardTotals'
    <2>1. \A key : Total(shards, key)' = Total(shards, key)
                   /\ Stored(key, aggregate)' = Stored(key, aggregate)
        BY <1>1 DEF Total, OfTotal, Stored
    <2> QED
        BY <1>1, <2>1 DEF TopKInv, ShardTotals
<1>14. LoadCounts'
    <2>1. \A key : /\ HourSum(rows, key)' = HourSum(rows, key)
                   /\ HourSum(native, key)' = HourSum(native, key)
                   /\ Stored(key, aggregate)' = Stored(key, aggregate)
        BY <1>1 DEF HourSum, HoursOf, Stored
    <2> QED
        BY <1>1, <2>1 DEF TopKInv, LoadCounts
<1> QED
    BY <1>2, <1>9, <1>11, <1>12, <1>13, <1>14

(* Steps that leave the tables alone. *)
LEMMA SameTables ==
    ASSUME TopKInv, UNCHANGED <<storeVars, program, writeShards>>
    PROVE  /\ TablesOK' /\ SnapshotsOK' /\ ShardTotals'
           /\ Unranked' = Unranked => AllRanked'
           /\ rows' = rows /\ torn' = torn => LoadCounts'
<1>1. UNCHANGED <<shards, aggregate, native, snapshots, program, writeShards>>
    BY DEF storeVars
<1>2. TablesOK' /\ SnapshotsOK'
    BY <1>1 DEF TopKInv, TablesOK, SnapshotsOK, Buckets
<1>3. ShardTotals'
    <2>1. \A key : Total(shards, key)' = Total(shards, key)
                   /\ Stored(key, aggregate)' = Stored(key, aggregate)
        BY <1>1 DEF Total, OfTotal, Stored
    <2> QED
        BY <1>1, <2>1 DEF TopKInv, ShardTotals
<1>4. ASSUME Unranked' = Unranked PROVE AllRanked'
    <2>1. Buckets(aggregate)' = Buckets(aggregate)
        BY <1>1 DEF Buckets
    <2>2. \A b : Ranked(b)' <=> Ranked(b)
        BY <1>1 DEF Ranked, ViewsIn
    <2> QED
        BY <1>4, <2>1, <2>2 DEF TopKInv, AllRanked
<1>5. ASSUME rows' = rows, torn' = torn PROVE LoadCounts'
    <2>1. \A key : /\ HourSum(rows, key)' = HourSum(rows, key)
                   /\ HourSum(native, key)' = HourSum(native, key)
                   /\ Stored(key, aggregate)' = Stored(key, aggregate)
        BY <1>1, <1>5 DEF HourSum, HoursOf, Stored
    <2> QED
        BY <1>1, <1>5, <2>1 DEF TopKInv, LoadCounts
<1> QED
    BY <1>2, <1>3, <1>4, <1>5

LEMMA LoaderDiesStep ==
    ASSUME TopKInv, LoaderDies, program' = program
    PROVE  /\ TablesOK' /\ SnapshotsOK' /\ AllRanked' /\ LoaderOK' /\ ShardTotals'
           /\ LoadCounts'
<1>1. /\ loading \in {"next", "precomputed"} /\ loading' = "dead" /\ rows' = EmptyBag
      /\ torn' = (IF loading = "precomputed" THEN torn + 1 ELSE torn)
      /\ abandoned' = abandoned \cup affected /\ affected' = {}
      /\ UNCHANGED <<storeVars, writeShards, loads>>
    BY DEF LoaderDies
<1>2. aggregate' = aggregate
    BY <1>1 DEF storeVars
<1>3. Unranked' = Unranked
    BY <1>1 DEF Unranked
<1>4. TablesOK' /\ SnapshotsOK' /\ AllRanked' /\ ShardTotals'
    BY <1>1, <1>3, SameTables
<1>5. torn \in 0..loads /\ loads \in 0..MaxLoads /\ MaxLoads \in Nat
    BY LoadAssumption DEF TopKInv, LoaderOK, LoadTypeOK
<1>6. LoadCounts'
    <2>1. CASE loading = "precomputed"
        <3>1. torn' # 0
            BY <1>1, <1>5, <2>1
        <3> QED
            BY <3>1 DEF LoadCounts
    <2>2. CASE loading = "next"
        <3>1. rows' = rows /\ torn' = torn
            BY <1>1, <2>2 DEF TopKInv, LoaderOK, LoadTypeOK
        <3> QED
            BY <1>1, <3>1, SameTables
    <2> QED
        BY <1>1, <2>1, <2>2
<1>7. LoaderOK'
    <2>1. torn' \in 0..loads'
        <3>1. loading = "precomputed" => torn < loads
            BY DEF TopKInv, LoaderOK
        <3> QED
            BY <1>1, <1>5, <3>1
    <2>2. /\ abandoned' \subseteq {BucketOf(k) : k \in DOMAIN aggregate'}
          /\ affected' \subseteq {BucketOf(k) : k \in DOMAIN aggregate'}
        BY <1>1, <1>2 DEF TopKInv, LoaderOK, LoadTypeOK
    <2> QED
        BY <1>1, <2>1, <2>2 DEF TopKInv, LoaderOK, LoadTypeOK
<1> QED
    BY <1>4, <1>6, <1>7

LEMMA RunAgainStep ==
    ASSUME TopKInv, RunAgain, program' = program
    PROVE  /\ TablesOK' /\ SnapshotsOK' /\ AllRanked' /\ LoaderOK' /\ ShardTotals'
           /\ LoadCounts'
<1>1. /\ loading \in {"dead", "measure"} /\ loading' = "next" /\ affected' = {}
      /\ UNCHANGED <<storeVars, rows, writeShards, loads, torn, abandoned>>
    BY DEF RunAgain
<1>2. aggregate' = aggregate
    BY <1>1 DEF storeVars
<1>3. Unranked' = Unranked
    <2>1. loading = "dead" => affected = {}
        BY DEF TopKInv, LoaderOK
    <2> QED
        BY <1>1, <2>1 DEF Unranked
<1>4. /\ TablesOK' /\ SnapshotsOK' /\ AllRanked' /\ ShardTotals' /\ LoadCounts'
    BY <1>1, <1>3, SameTables
<1>5. LoaderOK'
    BY <1>1, <1>2 DEF TopKInv, LoaderOK, LoadTypeOK
<1> QED
    BY <1>4, <1>5

(* What leaves the loader and the tables alone.                            *)
LEMMA LoaderStutters ==
    ASSUME TopKInv, UNCHANGED <<storeVars, program, loadVars>>
    PROVE  /\ TablesOK' /\ SnapshotsOK' /\ AllRanked' /\ LoaderOK' /\ ShardTotals'
           /\ LoadCounts'
<1>1. UNCHANGED <<loading, rows, writeShards, affected, loads, torn, abandoned, aggregate>>
    BY DEF loadVars, storeVars
<1>2. Unranked' = Unranked
    BY <1>1 DEF Unranked
<1>3. /\ TablesOK' /\ SnapshotsOK' /\ AllRanked' /\ ShardTotals' /\ LoadCounts'
    BY <1>1, <1>2, SameTables
<1>4. LoaderOK'
    BY <1>1 DEF TopKInv, LoaderOK, LoadTypeOK
<1> QED
    BY <1>3, <1>4

-----------------------------------------------------------------------------
(* Initial states and steps.                                               *)

LEMMA TopKInit == Init => TopKInv
<1> SUFFICES ASSUME Init PROVE TopKInv
    OBVIOUS
<1>1. /\ shards = EmptyBag /\ aggregate = EmptyBag /\ native = EmptyBag /\ snapshots = <<>>
      /\ log = [p \in Partitions |-> <<>>] /\ committed = [p \in Partitions |-> 0]
      /\ polled = committed /\ taken = committed /\ phase = "polling"
      /\ maxMessages \in MaxMessagesChoices /\ consumed = 0 /\ idle = 0 /\ runs = 1
      /\ skipped = {} /\ recounted = 0
      /\ loading = "next" /\ rows = EmptyBag /\ writeShards \in BOOLEAN /\ affected = {}
      /\ loads = 0 /\ torn = 0 /\ abandoned = {} /\ program \in {"stream", "load"}
    BY DEF Init, StoreInit, StreamInit, LoadInit
<1>2. FiniteBag(EmptyBag) /\ DOMAIN EmptyBag = {} /\ \A key : Stored(key, EmptyBag) = 0
    BY EmptyTable
<1>3. TablesOK
    BY <1>1, <1>2 DEF TablesOK, TableOK
<1>4. Buckets(aggregate) = {} /\ DOMAIN snapshots = {}
    BY <1>1, <1>2 DEF Buckets
<1>5. SnapshotsOK /\ AllRanked
    BY <1>4 DEF SnapshotsOK, AllRanked
<1>6. Below(committed) = {} /\ Batch = {} /\ Applied = {}
    <2>1. ASSUME NEW q \in Below(committed) PROVE FALSE
        <3>1. q[1] \in Partitions /\ q[2] \in 1..MaxEvents /\ q[2] <= committed[q[1]]
            BY DEF Below
        <3>2. committed[q[1]] = 0
            BY <1>1, <3>1
        <3> QED
            BY <3>1, <3>2, StreamAssumption
    <2> QED
        BY <1>1, <2>1 DEF Batch, Applied
<1>7. ConsumerOK
    <2>1. committed \in Offsets
        BY <1>1, StreamAssumption DEF Offsets
    <2>2. log \in [Partitions -> Seq(Events)] /\ \A p \in Partitions : Len(log[p]) = 0
        BY <1>1
    <2>3. \A p \in Partitions : committed[p] = 0
        BY <1>1
    <2>4. /\ consumed \in 0..maxMessages /\ idle \in 0..IdlePolls /\ idle < IdlePolls
          /\ runs \in 1..MaxRuns /\ recounted \in 0..runs /\ recounted < runs
        <3>1. maxMessages \in Nat /\ IdlePolls \in Nat \ {0} /\ MaxRuns \in Nat \ {0}
            BY <1>1, StreamAssumption
        <3> QED
            BY <1>1, <3>1
    <2>5. Cardinality(Batch) <= MaxPollRecords
        BY <1>6, FS_EmptySet, StreamAssumption
    <2> QED
        BY <1>1, <2>1, <2>2, <2>3, <2>4, <2>5 DEF ConsumerOK, StreamTypeOK
<1>8. LoaderOK
    BY <1>1, LoadAssumption DEF LoaderOK, LoadTypeOK
<1>9. OneProgram
    BY <1>1, <1>2 DEF OneProgram
<1>10. StreamCounts
    <2>1. ASSUME NEW key \in Keys PROVE Cardinality(Counted(Applied, key)) = 0
        <3>1. Counted(Applied, key) = {}
            BY <1>6 DEF Counted
        <3> QED
            BY <3>1, FS_EmptySet
    <2>2. recounted * MaxPollRecords = 0
        BY <1>1, StreamAssumption
    <2> QED
        BY <1>1, <1>2, <2>1, <2>2 DEF StreamCounts
<1>11. ShardTotals
    BY <1>1, <1>2, HourSumOfNothing DEF ShardTotals
<1>12. LoadCounts
    BY <1>1, <1>2, HourSumOfNothing DEF LoadCounts
<1> QED
    BY <1>3, <1>5, <1>7, <1>8, <1>9, <1>10, <1>11, <1>12 DEF TopKInv

LEMMA StreamStep ==
    ASSUME TopKInv, program = "stream", program' = program, StreamNext, UNCHANGED loadVars
    PROVE  TopKInv'
<1>1. ConsumerOK'
    BY ConsumerStep DEF TopKInv
<1>2. /\ UNCHANGED <<loading, rows, writeShards, affected, loads, torn, abandoned>>
      /\ DOMAIN native = {} /\ loading = "next" /\ affected = {} /\ abandoned = {}
    BY DEF loadVars, TopKInv, OneProgram
<1>3. LoadCounts'
    BY DEF LoadCounts
<1>4. CASE ProcessBatch
    <2>1. native' = native
        BY <1>4 DEF ProcessBatch, ApplyDeltas
    <2>2. OneProgram'
        BY <1>2, <2>1 DEF OneProgram
    <2>3. LoaderOK'
        BY <1>2 DEF TopKInv, LoaderOK, LoadTypeOK
    <2>4. TablesOK' /\ SnapshotsOK' /\ AllRanked' /\ StreamCounts' /\ ShardTotals'
        BY <1>4, ProcessKeepsTables, ProcessRanks, ProcessCounts
    <2> QED
        BY <1>1, <1>3, <2>2, <2>3, <2>4 DEF TopKInv
<1>5. CASE ~ProcessBatch
    <2>1. UNCHANGED storeVars
        BY <1>5 DEF StreamNext, Produce, Poll, EmptyPoll, CommitOffsets, ProcessDies,
                    StartAgain, StreamFinished
    <2>2. native' = native
        BY <2>1 DEF storeVars
    <2>3. OneProgram'
        BY <1>2, <2>2 DEF OneProgram
    <2>4. TablesOK' /\ SnapshotsOK' /\ AllRanked' /\ LoaderOK' /\ ShardTotals'
        BY <2>1, LoaderStutters
    <2>5. StreamCounts'
        BY <1>5, ProduceCounts, CommitCounts, DeathCounts, IdleCounts
           DEF StreamNext, StreamFinished
    <2> QED
        BY <1>1, <1>3, <2>3, <2>4, <2>5 DEF TopKInv
<1> QED
    BY <1>4, <1>5

LEMMA LoadStep ==
    ASSUME TopKInv, program = "load", program' = program, LoadNext, UNCHANGED streamVars
    PROVE  TopKInv'
<1>1. ConsumerOK'
    BY ConsumerStep DEF TopKInv
<1>2. StreamCounts' /\ OneProgram'
    BY DEF StreamCounts, OneProgram
<1>3. TablesOK' /\ SnapshotsOK' /\ AllRanked' /\ LoaderOK' /\ ShardTotals' /\ LoadCounts'
    BY LoadNativeStep, LoadPrecomputedStep, RefreshStep, LoaderDiesStep, RunAgainStep,
       LoaderStutters DEF LoadNext, LoadFinished
<1> QED
    BY <1>1, <1>2, <1>3 DEF TopKInv

LEMMA TopKStutters ==
    ASSUME TopKInv, UNCHANGED vars
    PROVE  TopKInv'
<1>1. UNCHANGED <<program, storeVars, streamVars, loadVars>>
    BY DEF vars
<1>2. ConsumerOK'
    BY <1>1, ConsumerStep DEF TopKInv
<1>3. TablesOK' /\ SnapshotsOK' /\ AllRanked' /\ LoaderOK' /\ ShardTotals' /\ LoadCounts'
    BY <1>1, LoaderStutters
<1>4. StreamCounts'
    BY <1>1, IdleCounts
<1>5. OneProgram'
    BY <1>1 DEF TopKInv, OneProgram, storeVars, loadVars
<1> QED
    BY <1>2, <1>3, <1>4, <1>5 DEF TopKInv

LEMMA TopKNext == TopKInv /\ [Next]_vars => TopKInv'
BY StreamStep, LoadStep, TopKStutters DEF Next

(* The tables, the consumer and the loader, together: the counters follow  *)
(* what was applied, the shards follow the counters, the rankings follow   *)
(* the counters wherever no loader owes them, and the two architectures    *)
(* hold the same counts.                                                   *)
THEOREM TopKInvariant == Spec => []TopKInv
BY TopKInit, TopKNext, PTL DEF Spec

-----------------------------------------------------------------------------
(* The properties of the run.                                              *)

(* The consumer's and the loader's variables and the tables keep their     *)
(* types: positions are ordered, a poll holds records, every row lies at   *)
(* the start of its bucket, and no ranking is empty or too long.           *)
THEOREM TopKTypes == Spec => []TypesOK
<1>1. TopKInv => TypesOK
    <2> SUFFICES ASSUME TopKInv PROVE TypesOK
        OBVIOUS
    <2>1. IsABag(shards) /\ IsABag(aggregate) /\ IsABag(native)
        BY FiniteBagCounts DEF TopKInv, TablesOK, TableOK
    <2>2. StoreTypeOK
        BY <2>1 DEF TopKInv, TablesOK, TableOK, SnapshotsOK, StoreTypeOK, ShardRows,
                    CounterRows, HourRows, Buckets
    <2> QED
        BY <2>2 DEF TopKInv, ConsumerOK, LoaderOK, TypesOK
<1> QED
    BY <1>1, TopKInvariant, PTL

(* Every committed record that a limit did not drop is in the counters of  *)
(* every window, and at most one poll more for every process that died     *)
(* between the counts and the commit.                                      *)
THEOREM StreamIsAlwaysCounted == Spec => []StreamIsCounted
<1>1. TopKInv => StreamIsCounted
    <2> SUFFICES ASSUME TopKInv PROVE StreamIsCounted
        OBVIOUS
    <2> SUFFICES ASSUME program = "stream" PROVE CountsFollowOffsets
        BY DEF StreamIsCounted
    <2>1. ASSUME NEW key \in CounterKeys PROVE key \in Keys
        <3>1. PICK w \in Windows, t \in Times, v \in Videos : key = <<w, BucketStart(w, t), v>>
            BY DEF CounterKeys
        <3>2. BucketStart(w, t) \in Nat
            BY StreamAssumption, StartOfStart
        <3> QED
            BY <3>1, <3>2 DEF Keys
    <2>2. ASSUME NEW key \in CounterKeys
          PROVE  LET once == Cardinality(Counted(Applied, key))
                     count == Stored(key, aggregate)
                 IN  once <= count /\ count <= once + recounted * MaxPollRecords
        BY <2>1 DEF TopKInv, StreamCounts
    <2> QED
        BY <2>2 DEF CountsFollowOffsets, Counted, Applied, Stored
<1> QED
    BY <1>1, TopKInvariant, PTL

(* The shards of a video add up to its counter.                            *)
THEOREM ShardsAlwaysAddUp == Spec => []ShardsAddUp
<1>1. TopKInv => ShardsAddUp
    <2> SUFFICES ASSUME TopKInv PROVE ShardsAddUp
        OBVIOUS
    <2> SUFFICES ASSUME NEW k \in DOMAIN aggregate,
                        program = "stream" \/ (writeShards /\ k[1] = "1hour")
                 PROVE  ShardSum(k) = aggregate[k]
        BY DEF ShardsAddUp
    <2>1. k \in Keys
        BY DEF TopKInv, TablesOK, TableOK, CounterRows, Keys
    <2>2. Total(shards, k) = Stored(k, aggregate)
        BY <2>1 DEF TopKInv, ShardTotals
    <2> QED
        BY <2>2 DEF Stored, Total, OfTotal, ShardSum
<1> QED
    BY <1>1, TopKInvariant, PTL

(* The first k rows of a ranking that is up to date rank the counters.     *)
LEMMA TopKOfRanked ==
    ASSUME TopKInv, NEW b \in Buckets(aggregate), Ranked(b), NEW k \in 0..KLimit
    PROVE  TopK(b, k) = Ranking(ViewsIn(aggregate, b), k)
<1> DEFINE V == ViewsIn(aggregate, b)
           R == Ranking(V, KLimit)
<1>1. IsFiniteSet(DOMAIN V)
    BY ViewsFinite DEF TopKInv, TablesOK
<1>2. k \in Nat /\ KLimit \in Nat /\ k <= KLimit
    BY StoreAssumption
<1>3. TopK(b, k) = SubSeq(R, 1, IF k < Len(R) THEN k ELSE Len(R))
    BY DEF Ranked, TopK
<1> HIDE DEF V
<1>4. SubSeq(R, 1, IF k < Len(R) THEN k ELSE Len(R)) = Ranking(V, k)
    BY <1>1, <1>2, RankingPrefix
<1> QED
    BY <1>3, <1>4 DEF V

(* A query of a bucket that no loader owes a ranking reads the ranking of  *)
(* its counters.                                                           *)
THEOREM RankingsStayCurrent == Spec => []RankingsAreCurrent
<1>1. TopKInv => RankingsAreCurrent
    <2> SUFFICES ASSUME TopKInv PROVE RankingsAreCurrent
        OBVIOUS
    <2> SUFFICES ASSUME NEW k \in DOMAIN aggregate, BucketOf(k) \notin Unranked
                 PROVE  TopK(BucketOf(k), KLimit)
                        = Ranking(ViewsIn(aggregate, BucketOf(k)), KLimit)
        BY DEF RankingsAreCurrent
    <2>1. BucketOf(k) \in Buckets(aggregate)
        BY DEF Buckets
    <2>2. Ranked(BucketOf(k))
        BY <2>1 DEF TopKInv, AllRanked
    <2>3. KLimit \in 0..KLimit
        BY StoreAssumption
    <2> QED
        BY <2>1, <2>2, <2>3, TopKOfRanked
<1> QED
    BY <1>1, TopKInvariant, PTL

(* The native table's videos in a bucket, each with its sum. *)
NativeHours(b) ==
    {r \in DOMAIN native : IF b[1] = "1hour" THEN r[1] = b[2]
                           ELSE b[2] <= r[1] /\ BeforeEnd(b[1], b[2], r[1])}
NativeViews(b) ==
    [v \in {r[2] : r \in NativeHours(b)} |->
        SumFunctionOnSet([r \in NativeHours(b) |-> native[r]], {r \in NativeHours(b) : r[2] = v})]

LEMMA NativeTopKRanks ==
    ASSUME NEW b, NEW k
    PROVE  NativeTopK(b, k) = Ranking(NativeViews(b), k)
<1>1. DOMAIN [r \in NativeHours(b) |-> native[r]] = NativeHours(b)
    OBVIOUS
<1> QED
    BY <1>1 DEF NativeTopK, GroupBy, NativeViews, NativeHours

LEMMA ViewsAgree ==
    ASSUME TopKInv, torn = 0, loading # "precomputed",
           NEW row \in DOMAIN native, NEW w \in Windows,
           NEW b, b = <<w, BucketStart(w, row[1])>>
    PROVE  b \in Buckets(aggregate) /\ ViewsIn(aggregate, b) = NativeViews(b)
<1> DEFINE s == BucketStart(w, row[1])
           key(v) == <<w, s, v>>
           H == NativeHours(b)
<1>1. program = "load" /\ rows = EmptyBag
    BY DEF TopKInv, OneProgram, LoaderOK, LoadTypeOK
<1>2. /\ TableOK(aggregate, CounterRows) /\ TableOK(native, HourRows)
      /\ FiniteBag(aggregate) /\ FiniteBag(native)
    BY DEF TopKInv, TablesOK, TableOK
<1>3. ASSUME NEW r \in DOMAIN native
      PROVE  /\ r[1] \in Nat /\ r[2] \in Videos /\ r[1] = BucketStart("1hour", r[1])
    BY <1>2 DEF TableOK, HourRows
<1>4. s \in Nat
    BY <1>3, StartOfStart
<1>5. ASSUME NEW r \in DOMAIN native PROVE r \in H <=> BucketStart(w, r[1]) = s
    <2>1. b[1] = w /\ b[2] = s
        OBVIOUS
    <2>2. (IF w = "1hour" THEN r[1] = s ELSE s <= r[1] /\ BeforeEnd(w, s, r[1]))
          <=> BucketStart(w, r[1]) = s
        BY <1>3, BetweenEnds
    <2> HIDE DEF s
    <2> QED
        BY <2>1, <2>2 DEF NativeHours
<1>6. H \subseteq DOMAIN native
    BY DEF NativeHours
<1>7. ASSUME NEW v PROVE HoursOf(native, key(v)) = {r \in H : r[2] = v}
    <2>1. \A r : HourKey(w, r) = key(v) <=> BucketStart(w, r[1]) = s /\ r[2] = v
        BY DEF HourKey
    <2>2. key(v)[1] = w
        OBVIOUS
    <2> HIDE DEF H, s, key
    <2> QED
        BY <1>5, <1>6, <2>1, <2>2 DEF HoursOf
<1>8. ASSUME NEW v \in Videos PROVE Stored(key(v), aggregate) = HourSum(native, key(v))
    <2>1. key(v) \in Keys
        BY <1>4 DEF Keys
    <2>2. Stored(key(v), aggregate) + HourSum(rows, key(v)) = HourSum(native, key(v))
        BY <1>1, <2>1 DEF TopKInv, LoadCounts
    <2>3. HourSum(rows, key(v)) = 0
        BY <1>1, HourSumOfNothing
    <2>4. Stored(key(v), aggregate) \in Nat
        BY <1>2, FiniteBagCounts
    <2> HIDE DEF key
    <2> QED
        BY <2>2, <2>3, <2>4
<1>9. ASSUME NEW v \in Videos
      PROVE  key(v) \in DOMAIN aggregate <=> \E r \in H : r[2] = v
    <2>1. key(v) \in DOMAIN aggregate <=> Stored(key(v), aggregate) > 0
        BY <1>2, FiniteBagCounts
    <2>2. ASSUME NEW r \in H, r[2] = v PROVE HourSum(native, key(v)) > 0
        <3>1. r \in HoursOf(native, key(v)) /\ native[r] > 0
            BY <1>2, <1>6, <1>7, <2>2 DEF FiniteBag
        <3> QED
            BY <1>2, <3>1, HourSumIsCount, SumPositive DEF HourSum
    <2>3. ASSUME ~\E r \in H : r[2] = v PROVE HourSum(native, key(v)) = 0
        <3>1. HoursOf(native, key(v)) = {}
            BY <1>7, <2>3
        <3> HIDE DEF key
        <3> QED
            BY <3>1, SumEmpty DEF HourSum
    <2> HIDE DEF key, H
    <2> QED
        BY <1>8, <2>1, <2>2, <2>3
<1>10. ASSUME NEW v \in Videos
       PROVE  SumFunctionOnSet([r \in H |-> native[r]], {r \in H : r[2] = v})
              = HourSum(native, key(v))
    <2> DEFINE f == [r \in H |-> native[r]]
               S == HoursOf(native, key(v))
    <2>1. S = {r \in H : r[2] = v}
        BY <1>7
    <2>2. IsFiniteSet(S) /\ AreCounts(native, S)
        BY <1>2, HourSumIsCount
    <2>3. \A r \in S : f[r] = native[r]
        BY <2>1
    <2> HIDE DEF f, S
    <2>4. SumFunctionOnSet(f, S) = SumFunctionOnSet(native, S)
        BY <2>2, <2>3, SumSame
    <2> QED
        BY <2>1, <2>4 DEF f, S, HourSum
<1>11. {u \in Videos : key(u) \in DOMAIN aggregate} = {r[2] : r \in H}
    <2>1. \A r \in H : r[2] \in Videos
        BY <1>3, <1>6
    <2> HIDE DEF key, H
    <2> QED
        BY <1>9, <2>1
<1>12. ViewsIn(aggregate, b) = NativeViews(b)
    <2> DEFINE D == {r[2] : r \in H}
               g(v) == SumFunctionOnSet([r \in H |-> native[r]], {r \in H : r[2] = v})
    <2>1. ViewsIn(aggregate, b)
          = [v \in {u \in Videos : key(u) \in DOMAIN aggregate} |-> aggregate[key(v)]]
        BY DEF ViewsIn
    <2>2. NativeViews(b) = [v \in D |-> g(v)]
        BY DEF NativeViews
    <2>3. ASSUME NEW v \in D PROVE aggregate[key(v)] = g(v)
        <3>1. v \in Videos /\ key(v) \in DOMAIN aggregate
            BY <1>11
        <3>2. aggregate[key(v)] = Stored(key(v), aggregate)
            BY <3>1 DEF Stored
        <3>3. g(v) = HourSum(native, key(v))
            BY <1>10, <3>1
        <3> HIDE DEF g, key
        <3> QED
            BY <1>8, <3>1, <3>2, <3>3
    <2> HIDE DEF key, D, g
    <2>4. ViewsIn(aggregate, b) = [v \in D |-> aggregate[key(v)]]
        BY <1>11, <2>1 DEF D
    <2> QED
        BY <2>2, <2>3, <2>4
<1>13. b \in Buckets(aggregate)
    <2>1. row \in H /\ row[2] \in Videos
        BY <1>3, <1>5
    <2>2. key(row[2]) \in DOMAIN aggregate
        BY <1>9, <2>1
    <2>3. BucketOf(key(row[2])) = b
        BY DEF BucketOf
    <2> QED
        BY <2>2, <2>3 DEF Buckets
<1> QED
    BY <1>12, <1>13

(* Unless a run died between the two tables, a ranked bucket lists the     *)
(* videos that the sum over the hours of its window gives, for every k.    *)
THEOREM ArchitecturesAlwaysAgree == Spec => []ArchitecturesAgree
<1>1. TopKInv => ArchitecturesAgree
    <2> SUFFICES ASSUME TopKInv PROVE ArchitecturesAgree
        OBVIOUS
    <2> SUFFICES ASSUME torn = 0, loading # "precomputed",
                        NEW row \in DOMAIN native, NEW w \in Windows,
                        <<w, BucketStart(w, row[1])>> \notin Unranked,
                        NEW k \in 1..KLimit
                 PROVE  TopK(<<w, BucketStart(w, row[1])>>, k)
                        = NativeTopK(<<w, BucketStart(w, row[1])>>, k)
        BY DEF ArchitecturesAgree
    <2>1. PICK b : b = <<w, BucketStart(w, row[1])>>
        OBVIOUS
    <2>2. b \in Buckets(aggregate) /\ ViewsIn(aggregate, b) = NativeViews(b)
        BY <2>1, ViewsAgree
    <2>3. Ranked(b)
        BY <2>1, <2>2 DEF TopKInv, AllRanked
    <2>4. k \in 0..KLimit
        BY StoreAssumption
    <2>5. TopK(b, k) = Ranking(ViewsIn(aggregate, b), k)
        BY <2>2, <2>3, <2>4, TopKOfRanked
    <2>6. NativeTopK(b, k) = Ranking(NativeViews(b), k)
        BY NativeTopKRanks
    <2> QED
        BY <2>1, <2>2, <2>5, <2>6
<1> QED
    BY <1>1, TopKInvariant, PTL
=============================================================================
