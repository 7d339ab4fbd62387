----------------------------- MODULE SumTheorems ----------------------------
(***************************************************************************)
(* What the sums of module Functions obey.  The provers know no induction over  *)
(* finite sets: it is derived here from the order of the numbers, which    *)
(* also shows that the recursive function behind SumFunctionOnSet exists.     *)
(***************************************************************************)
EXTENDS FiniteSetTheorems, WellFoundedInduction, TLAPS

-----------------------------------------------------------------------------
(* Induction over numbers and over the subsets of a finite set.            *)

LEMMA NumberInduction ==
    ASSUME NEW T, 0 \in T, \A n \in Nat : n \in T => n + 1 \in T
    PROVE  Nat \subseteq T
<1> DEFINE Less == {ss \in Nat \X Nat : ss[1] < ss[2]}
           Rest == Nat \ T
<1>1. SUFFICES ASSUME Rest # {} PROVE FALSE
    OBVIOUS
<1>2. IsWellFoundedOn(Less, Nat)
    BY NatLessThanWellFounded DEF OpToRel
<1>3. PICK m \in Rest : \A n \in Rest : <<n, m>> \notin Less
    <2> HIDE DEF Less
    <2>1. Rest \subseteq Nat
        OBVIOUS
    <2> HIDE DEF Rest
    <2> QED
        BY <1>1, <1>2, <2>1, WFMin
<1>4. m \in Nat /\ m # 0 /\ m \notin T
    OBVIOUS
<1>5. m - 1 \in Nat /\ <<m - 1, m>> \in Less
    BY <1>4
<1>6. m - 1 \in T
    BY <1>3, <1>5
<1>7. (m - 1) + 1 \in T
    BY <1>5, <1>6
<1> QED
    BY <1>4, <1>7

(* What every set inherits from its strict subsets holds of all of them. *)
LEMMA SizeInduction ==
    ASSUME NEW S, IsFiniteSet(S), NEW P,
           \A s \in SUBSET S : (\A t \in SUBSET s : t # s => t \in P) => s \in P
    PROVE  \A s \in SUBSET S : s \in P
<1> DEFINE T == {n \in Nat : \A s \in SUBSET S : Cardinality(s) < n => s \in P}
<1>1. \A s \in SUBSET S : IsFiniteSet(s) /\ Cardinality(s) \in Nat
    BY FS_Subset, FS_CardinalityType
<1>2. 0 \in T
    BY <1>1
<1>3. ASSUME NEW n \in Nat, n \in T PROVE n + 1 \in T
    <2> SUFFICES ASSUME NEW s \in SUBSET S, Cardinality(s) < n + 1 PROVE s \in P
        OBVIOUS
    <2>1. ASSUME NEW t \in SUBSET s, t # s PROVE Cardinality(t) < Cardinality(s)
        <3>1. Cardinality(t) <= Cardinality(s) /\ Cardinality(t) # Cardinality(s)
            BY <1>1, <2>1, FS_Subset
        <3> QED
            BY <1>1, <3>1
    <2>2. \A t \in SUBSET s : t # s => t \in P
        BY <1>1, <1>3, <2>1
    <2> QED
        BY <2>2
<1>4. Nat \subseteq T
    <2> HIDE DEF T
    <2> QED
        BY <1>2, <1>3, NumberInduction
<1>5. \A s \in SUBSET S : Cardinality(s) + 1 \in T
    BY <1>1, <1>4
<1> QED
    BY <1>1, <1>5

(* What the empty set has and one more member keeps holds of every subset. *)
LEMMA SubsetInduction ==
    ASSUME NEW S, IsFiniteSet(S), NEW P, {} \in P,
           \A s \in SUBSET S : s \in P => \A x \in S \ s : s \cup {x} \in P
    PROVE  \A s \in SUBSET S : s \in P
<1>1. ASSUME NEW s \in SUBSET S, \A t \in SUBSET s : t # s => t \in P
      PROVE  s \in P
    <2>1. CASE s # {}
        <3>1. PICK x \in s : TRUE
            BY <2>1
        <3>2. s \ {x} \in P
            BY <1>1
        <3>3. (s \ {x}) \cup {x} \in P
            BY <3>2
        <3>4. (s \ {x}) \cup {x} = s
            OBVIOUS
        <3> QED
            BY <3>3, <3>4
    <2> QED
        BY <2>1
<1> QED
    BY <1>1, SizeInduction

-----------------------------------------------------------------------------
(* The recursive function of SumFunctionOnSet, which adds up the sums of all  *)
(* subsets in the order in which members are chosen.                       *)

First(s) == CHOOSE x \in s : TRUE

SumStep(g, f, s) == IF s = {} THEN 0 ELSE f[First(s)] + g[s \ {First(s)}]

IsSum(g, f, S) == g = [s \in SUBSET S |-> SumStep(g, f, s)]

AreCounts(f, S) == \A x \in S : f[x] \in Nat

LEMMA SumIsFold ==
    ASSUME NEW f, NEW S
    PROVE  SumFunctionOnSet(f, S) = (CHOOSE g : IsSum(g, f, S))[S]
BY DEF SumFunctionOnSet, FoldFunctionOnSet, MapThenFoldSet, IsSum, SumStep, First

LEMMA FirstIsMember == ASSUME NEW s, s # {} PROVE First(s) \in s
BY DEF First

LEMMA SumExists ==
    ASSUME NEW S, IsFiniteSet(S), NEW f, AreCounts(f, S)
    PROVE  \E g \in [SUBSET S -> Nat] : IsSum(g, f, S)
<1> DEFINE Upto(g, n) == \A s \in SUBSET S : Cardinality(s) <= n => g[s] = SumStep(g, f, s)
           T == {n \in Nat : \E g \in [SUBSET S -> Nat] : Upto(g, n)}
<1>1. \A s \in SUBSET S : IsFiniteSet(s) /\ Cardinality(s) \in Nat
    BY FS_Subset, FS_CardinalityType
<1>2. 0 \in T
    <2> DEFINE g == [s \in SUBSET S |-> 0]
    <2>1. g \in [SUBSET S -> Nat]
        OBVIOUS
    <2>2. \A s \in SUBSET S : Cardinality(s) <= 0 => s = {}
        BY <1>1, FS_EmptySet
    <2>3. Upto(g, 0)
        BY <2>2 DEF SumStep
    <2> HIDE DEF g
    <2> QED
        BY <2>1, <2>3
<1>3. ASSUME NEW n \in Nat, n \in T PROVE n + 1 \in T
    <2>1. PICK g \in [SUBSET S -> Nat] : Upto(g, n)
        BY <1>3
    <2> DEFINE h == [s \in SUBSET S |-> IF Cardinality(s) <= n THEN g[s] ELSE SumStep(g, f, s)]
    <2>2. ASSUME NEW s \in SUBSET S, s # {}
          PROVE  /\ First(s) \in S /\ s \ {First(s)} \in SUBSET S
                 /\ Cardinality(s \ {First(s)}) = Cardinality(s) - 1
        BY <2>2, <1>1, FirstIsMember, FS_RemoveElement
    <2>3. h \in [SUBSET S -> Nat]
        <3> SUFFICES ASSUME NEW s \in SUBSET S PROVE SumStep(g, f, s) \in Nat
            OBVIOUS
        <3>1. CASE s = {}
            BY <3>1 DEF SumStep
        <3>2. CASE s # {}
            <4>1. g[s \ {First(s)}] \in Nat /\ f[First(s)] \in Nat
                BY <2>2, <3>2 DEF AreCounts
            <4> QED
                BY <3>2, <4>1 DEF SumStep
        <3> QED
            BY <3>1, <3>2
    <2>4. Upto(h, n + 1)
        <3> SUFFICES ASSUME NEW s \in SUBSET S, Cardinality(s) <= n + 1
                     PROVE  h[s] = SumStep(h, f, s)
            OBVIOUS
        <3>1. h[s] = SumStep(g, f, s)
            BY <2>1
        <3>2. CASE s = {}
            BY <3>1, <3>2 DEF SumStep
        <3>3. CASE s # {}
            <4>1. s \ {First(s)} \in SUBSET S /\ Cardinality(s \ {First(s)}) <= n
                BY <1>1, <2>2, <3>3
            <4>2. h[s \ {First(s)}] = g[s \ {First(s)}]
                BY <4>1
            <4> HIDE DEF h
            <4> QED
                BY <3>1, <3>3, <4>2 DEF SumStep
        <3> QED
            BY <3>2, <3>3
    <2> HIDE DEF h, Upto
    <2> QED
        BY <2>3, <2>4
<1>4. Nat \subseteq T
    <2> HIDE DEF T
    <2> QED
        BY <1>2, <1>3, NumberInduction
<1>5. PICK g \in [SUBSET S -> Nat] : Upto(g, Cardinality(S))
    BY <1>1, <1>4
<1>6. \A s \in SUBSET S : Cardinality(s) <= Cardinality(S)
    BY FS_Subset
<1>7. \A s \in SUBSET S : g[s] = SumStep(g, f, s)
    BY <1>5, <1>6
<1>8. IsSum(g, f, S)
    BY <1>7 DEF IsSum
<1> QED
    BY <1>8

(* Two sums of f agree on the sets that both add up. *)
LEMMA SumsAgree ==
    ASSUME NEW S, IsFiniteSet(S), NEW s \in SUBSET S, NEW f, NEW g, NEW h,
           IsSum(g, f, S), IsSum(h, f, s)
    PROVE  \A t \in SUBSET s : h[t] = g[t]
<1> DEFINE P == {t \in SUBSET s : h[t] = g[t]}
<1>1. \A t \in SUBSET s : h[t] = SumStep(h, f, t) /\ g[t] = SumStep(g, f, t)
    BY DEF IsSum
<1>2. IsFiniteSet(s)
    BY FS_Subset
<1>3. ASSUME NEW t \in SUBSET s, \A u \in SUBSET t : u # t => u \in P
      PROVE  t \in P
    <2>1. CASE t = {}
        BY <1>1, <2>1 DEF SumStep
    <2>2. CASE t # {}
        <3>1. First(t) \in t
            BY <2>2, FirstIsMember
        <3>2. t \ {First(t)} \in P
            BY <1>3, <3>1
        <3>3. h[t \ {First(t)}] = g[t \ {First(t)}]
            BY <3>2
        <3> QED
            BY <1>1, <2>2, <3>3 DEF SumStep
    <2> QED
        BY <2>1, <2>2
<1>4. \A t \in SUBSET s : t \in P
    <2> HIDE DEF P
    <2> QED
        BY <1>2, <1>3, SizeInduction
<1> QED
    BY <1>4

(* The sum of every subset of S is what one function tells. *)
SumsUp(g, f, S) ==
    \A s \in SUBSET S : g[s] = SumStep(g, f, s) /\ g[s] = SumFunctionOnSet(f, s)

LEMMA SumOfSubsets ==
    ASSUME NEW S, IsFiniteSet(S), NEW f, AreCounts(f, S)
    PROVE  \E g \in [SUBSET S -> Nat] : SumsUp(g, f, S)
<1>1. PICK g \in [SUBSET S -> Nat] : IsSum(g, f, S)
    BY SumExists
<1>2. ASSUME NEW s \in SUBSET S PROVE g[s] = SumFunctionOnSet(f, s)
    <2>1. IsFiniteSet(s) /\ AreCounts(f, s)
        BY FS_Subset DEF AreCounts
    <2>2. \E h : IsSum(h, f, s)
        BY <2>1, SumExists
    <2> DEFINE h == CHOOSE h : IsSum(h, f, s)
    <2>3. IsSum(h, f, s)
        BY <2>2
    <2>4. SumFunctionOnSet(f, s) = h[s]
        BY SumIsFold
    <2> HIDE DEF h
    <2>5. \A t \in SUBSET s : h[t] = g[t]
        BY <1>1, <2>3, SumsAgree
    <2> QED
        BY <2>4, <2>5
<1>3. \A s \in SUBSET S : g[s] = SumStep(g, f, s)
    BY <1>1 DEF IsSum
<1> QED
    BY <1>2, <1>3 DEF SumsUp

LEMMA SumNat ==
    ASSUME NEW S, IsFiniteSet(S), NEW f, AreCounts(f, S)
    PROVE  SumFunctionOnSet(f, S) \in Nat
<1>1. PICK g \in [SUBSET S -> Nat] : SumsUp(g, f, S)
    BY SumOfSubsets
<1> QED
    BY <1>1 DEF SumsUp

LEMMA SumEmpty == ASSUME NEW f PROVE SumFunctionOnSet(f, {}) = 0
<1>1. IsFiniteSet({}) /\ AreCounts(f, {})
    BY FS_EmptySet DEF AreCounts
<1>2. PICK g \in [SUBSET {} -> Nat] : SumsUp(g, f, {})
    BY <1>1, SumOfSubsets
<1>3. g[{}] = 0 /\ g[{}] = SumFunctionOnSet(f, {})
    BY <1>2 DEF SumsUp, SumStep
<1> QED
    BY <1>3

(* Any member may be taken out. *)
LEMMA SumRemove ==
    ASSUME NEW S, IsFiniteSet(S), NEW f, AreCounts(f, S), NEW x \in S
    PROVE  SumFunctionOnSet(f, S) = f[x] + SumFunctionOnSet(f, S \ {x})
<1>1. PICK g \in [SUBSET S -> Nat] : SumsUp(g, f, S)
    BY SumOfSubsets
<1> DEFINE P == {s \in SUBSET S : \A y \in s : g[s] = f[y] + g[s \ {y}]}
<1>2. ASSUME NEW s \in SUBSET S, \A t \in SUBSET s : t # s => t \in P
      PROVE  s \in P
    <2> SUFFICES ASSUME NEW y \in s PROVE g[s] = f[y] + g[s \ {y}]
        OBVIOUS
    <2> DEFINE z == First(s)
    <2>1. z \in s
        BY FirstIsMember
    <2>2. g[s] = f[z] + g[s \ {z}]
        BY <2>1, <1>1 DEF SumsUp, SumStep
    <2> HIDE DEF z
    <2>3. CASE y = z
        BY <2>2, <2>3
    <2>4. CASE y # z
        <3>1. s \ {z} \in P /\ s \ {y} \in P
            BY <1>2, <2>1
        <3>2. g[s \ {z}] = f[y] + g[(s \ {z}) \ {y}]
            BY <2>4, <3>1
        <3>3. g[s \ {y}] = f[z] + g[(s \ {y}) \ {z}]
            BY <2>1, <2>4, <3>1
        <3>4. (s \ {z}) \ {y} = (s \ {y}) \ {z}
            OBVIOUS
        <3>5. f[y] \in Nat /\ f[z] \in Nat /\ g[(s \ {y}) \ {z}] \in Nat
            BY <2>1 DEF AreCounts
        <3> DEFINE n == g[(s \ {y}) \ {z}]
        <3>6. g[s \ {z}] = f[y] + n /\ g[s \ {y}] = f[z] + n /\ n \in Nat
            BY <3>2, <3>3, <3>4, <3>5
        <3> HIDE DEF n
        <3> QED
            BY <2>2, <3>5, <3>6
    <2> QED
        BY <2>3, <2>4
<1>3. S \in P
    <2> HIDE DEF P
    <2> QED
        BY <1>2, SizeInduction
<1>4. g[S] = f[x] + g[S \ {x}]
    BY <1>3
<1> QED
    BY <1>1, <1>4 DEF SumsUp

LEMMA SumInsert ==
    ASSUME NEW S, IsFiniteSet(S), NEW x, x \notin S, NEW f, AreCounts(f, S \cup {x})
    PROVE  SumFunctionOnSet(f, S \cup {x}) = f[x] + SumFunctionOnSet(f, S)
<1>1. IsFiniteSet(S \cup {x})
    BY FS_AddElement
<1>2. (S \cup {x}) \ {x} = S
    OBVIOUS
<1>3. x \in S \cup {x}
    OBVIOUS
<1>4. SumFunctionOnSet(f, S \cup {x}) = f[x] + SumFunctionOnSet(f, (S \cup {x}) \ {x})
    BY <1>1, <1>3, SumRemove
<1> QED
    BY <1>2, <1>4

LEMMA SumSingleton ==
    ASSUME NEW x, NEW f, f[x] \in Nat
    PROVE  SumFunctionOnSet(f, {x}) = f[x]
<1>1. IsFiniteSet({}) /\ AreCounts(f, {} \cup {x})
    BY FS_EmptySet DEF AreCounts
<1>2. SumFunctionOnSet(f, {} \cup {x}) = f[x] + SumFunctionOnSet(f, {})
    BY <1>1, SumInsert
<1>3. {} \cup {x} = {x}
    OBVIOUS
<1> QED
    BY <1>2, <1>3, SumEmpty

-----------------------------------------------------------------------------
(* Sums of functions that agree, of added functions and of added sets.     *)

(* Every subset of S has the property if one more member keeps it: the     *)
(* steps of the proofs below.                                              *)
Grows(f, s, x) ==
    /\ IsFiniteSet(s)
    /\ f[x] \in Nat
    /\ SumFunctionOnSet(f, s) \in Nat
    /\ SumFunctionOnSet(f, s \cup {x}) = f[x] + SumFunctionOnSet(f, s)

LEMMA SubsetGrows ==
    ASSUME NEW S, IsFiniteSet(S), NEW f, AreCounts(f, S), NEW s \in SUBSET S,
           NEW x \in S \ s
    PROVE  Grows(f, s, x)
<1>1. IsFiniteSet(s)
    BY FS_Subset
<1>2. AreCounts(f, s) /\ AreCounts(f, s \cup {x}) /\ f[x] \in Nat
    BY DEF AreCounts
<1>3. SumFunctionOnSet(f, s) \in Nat
    BY <1>1, <1>2, SumNat
<1>4. SumFunctionOnSet(f, s \cup {x}) = f[x] + SumFunctionOnSet(f, s)
    BY <1>1, <1>2, SumInsert
<1> QED
    BY <1>1, <1>2, <1>3, <1>4 DEF Grows

LEMMA SumSame ==
    ASSUME NEW S, IsFiniteSet(S), NEW f, NEW g, AreCounts(f, S),
           \A x \in S : g[x] = f[x]
    PROVE  SumFunctionOnSet(g, S) = SumFunctionOnSet(f, S)
<1> DEFINE P == {s \in SUBSET S : SumFunctionOnSet(g, s) = SumFunctionOnSet(f, s)}
<1>1. AreCounts(g, S)
    BY DEF AreCounts
<1>2. {} \in P
    BY SumEmpty
<1>3. ASSUME NEW s \in SUBSET S, s \in P, NEW x \in S \ s PROVE s \cup {x} \in P
    <2>1. Grows(f, s, x) /\ Grows(g, s, x)
        BY <1>1, SubsetGrows
    <2>2. g[x] = f[x] /\ SumFunctionOnSet(g, s) = SumFunctionOnSet(f, s)
        BY <1>3
    <2> QED
        BY <2>1, <2>2 DEF Grows
<1>4. S \in P
    <2> HIDE DEF P
    <2> QED
        BY <1>2, <1>3, SubsetInduction
<1> QED
    BY <1>4

LEMMA SumPlus ==
    ASSUME NEW S, IsFiniteSet(S), NEW f, NEW g, NEW h, AreCounts(f, S), AreCounts(g, S),
           \A x \in S : h[x] = f[x] + g[x]
    PROVE  SumFunctionOnSet(h, S) = SumFunctionOnSet(f, S) + SumFunctionOnSet(g, S)
<1> DEFINE P == {s \in SUBSET S : SumFunctionOnSet(h, s)
                                    = SumFunctionOnSet(f, s) + SumFunctionOnSet(g, s)}
<1>1. AreCounts(h, S)
    BY DEF AreCounts
<1>2. {} \in P
    BY SumEmpty
<1>3. ASSUME NEW s \in SUBSET S, s \in P, NEW x \in S \ s PROVE s \cup {x} \in P
    <2>1. Grows(f, s, x)
        BY SubsetGrows
    <2>2. Grows(g, s, x)
        BY SubsetGrows
    <2>3. Grows(h, s, x)
        BY <1>1, SubsetGrows
    <2>4. /\ h[x] = f[x] + g[x]
          /\ SumFunctionOnSet(h, s) = SumFunctionOnSet(f, s) + SumFunctionOnSet(g, s)
        BY <1>3
    <2> QED
        BY <2>1, <2>2, <2>3, <2>4 DEF Grows
<1>4. S \in P
    <2> HIDE DEF P
    <2> QED
        BY <1>2, <1>3, SubsetInduction
<1> QED
    BY <1>4

LEMMA SumUnion ==
    ASSUME NEW S, IsFiniteSet(S), NEW T, IsFiniteSet(T), S \cap T = {},
           NEW f, AreCounts(f, S), AreCounts(f, T)
    PROVE  SumFunctionOnSet(f, S \cup T) = SumFunctionOnSet(f, S) + SumFunctionOnSet(f, T)
<1> DEFINE P == {t \in SUBSET T : SumFunctionOnSet(f, S \cup t)
                                    = SumFunctionOnSet(f, S) + SumFunctionOnSet(f, t)}
<1>1. SumFunctionOnSet(f, S) \in Nat
    BY SumNat
<1>2. {} \in P
    <2>1. S \cup {} = S
        OBVIOUS
    <2> QED
        BY <1>1, <2>1, SumEmpty
<1>3. ASSUME NEW t \in SUBSET T, t \in P, NEW x \in T \ t PROVE t \cup {x} \in P
    <2>1. Grows(f, t, x)
        BY SubsetGrows
    <2>2. IsFiniteSet(S \cup T) /\ AreCounts(f, S \cup T)
        BY FS_Union DEF AreCounts
    <2>3. S \cup t \in SUBSET (S \cup T) /\ x \in (S \cup T) \ (S \cup t)
        OBVIOUS
    <2>4. Grows(f, S \cup t, x)
        BY <2>2, <2>3, SubsetGrows
    <2>5. (S \cup t) \cup {x} = S \cup (t \cup {x})
        OBVIOUS
    <2>6. SumFunctionOnSet(f, S \cup t) = SumFunctionOnSet(f, S) + SumFunctionOnSet(f, t)
        BY <1>3
    <2>7. SumFunctionOnSet(f, S \cup (t \cup {x}))
          = SumFunctionOnSet(f, S) + SumFunctionOnSet(f, t \cup {x})
        BY <1>1, <2>1, <2>4, <2>5, <2>6 DEF Grows
    <2> QED
        BY <2>7
<1>4. T \in P
    <2> HIDE DEF P
    <2> QED
        BY <1>2, <1>3, SubsetInduction
<1> QED
    BY <1>4

LEMMA SumConstant ==
    ASSUME NEW S, IsFiniteSet(S), NEW c \in Nat, NEW f, \A x \in S : f[x] = c
    PROVE  SumFunctionOnSet(f, S) = c * Cardinality(S)
<1> DEFINE P == {s \in SUBSET S : SumFunctionOnSet(f, s) = c * Cardinality(s)}
<1>1. AreCounts(f, S)
    BY DEF AreCounts
<1>2. {} \in P
    BY SumEmpty, FS_EmptySet
<1>3. ASSUME NEW s \in SUBSET S, s \in P, NEW x \in S \ s PROVE s \cup {x} \in P
    <2>1. Grows(f, s, x)
        BY <1>1, SubsetGrows
    <2>2. Cardinality(s \cup {x}) = Cardinality(s) + 1 /\ Cardinality(s) \in Nat
        BY <2>1, FS_AddElement, FS_CardinalityType DEF Grows
    <2>3. \A n \in Nat : c * (n + 1) = c + c * n
        OBVIOUS
    <2>4. f[x] = c /\ SumFunctionOnSet(f, s) = c * Cardinality(s)
        BY <1>3
    <2>5. SumFunctionOnSet(f, s \cup {x}) = c * Cardinality(s \cup {x})
        BY <2>1, <2>2, <2>3, <2>4 DEF Grows
    <2> QED
        BY <2>5
<1>4. S \in P
    <2> HIDE DEF P
    <2> QED
        BY <1>2, <1>3, SubsetInduction
<1> QED
    BY <1>4

LEMMA SumOnes ==
    ASSUME NEW S, IsFiniteSet(S), NEW f, \A x \in S : f[x] = 1
    PROVE  SumFunctionOnSet(f, S) = Cardinality(S)
<1>1. SumFunctionOnSet(f, S) = 1 * Cardinality(S)
    BY SumConstant
<1> QED
    BY <1>1, FS_CardinalityType

-----------------------------------------------------------------------------
(* The sums of the classes of a partition add up to the whole sum.         *)

Class(S, K, t) == {x \in S : K[x] = t}

LEMMA SumClasses ==
    ASSUME NEW S, IsFiniteSet(S), NEW f, AreCounts(f, S),
           NEW T, IsFiniteSet(T), NEW K, \A x \in S : K[x] \in T,
           NEW g, \A t \in T : g[t] = SumFunctionOnSet(f, Class(S, K, t))
    PROVE  SumFunctionOnSet(g, T) = SumFunctionOnSet(f, S)
<1> DEFINE Those(u) == {x \in S : K[x] \in u}
           P == {u \in SUBSET T : SumFunctionOnSet(g, u) = SumFunctionOnSet(f, Those(u))}
<1>1. \A u : IsFiniteSet(Those(u)) /\ AreCounts(f, Those(u))
    BY FS_Subset DEF AreCounts
<1>2. \A t : IsFiniteSet(Class(S, K, t)) /\ AreCounts(f, Class(S, K, t))
    BY FS_Subset DEF AreCounts, Class
<1>3. AreCounts(g, T)
    BY <1>2, SumNat DEF AreCounts
<1>4. {} \in P
    <2>1. Those({}) = {}
        OBVIOUS
    <2> QED
        BY <2>1, SumEmpty
<1>5. ASSUME NEW u \in SUBSET T, u \in P, NEW t \in T \ u PROVE u \cup {t} \in P
    <2>1. Those(u \cup {t}) = Those(u) \cup Class(S, K, t) /\ Those(u) \cap Class(S, K, t) = {}
        BY DEF Class
    <2>2. Grows(g, u, t)
        BY <1>3, SubsetGrows
    <2>3. SumFunctionOnSet(g, u) = SumFunctionOnSet(f, Those(u))
          /\ g[t] = SumFunctionOnSet(f, Class(S, K, t))
        BY <1>5
    <2> HIDE DEF Those
    <2>4. SumFunctionOnSet(f, Those(u) \cup Class(S, K, t))
          = SumFunctionOnSet(f, Those(u)) + SumFunctionOnSet(f, Class(S, K, t))
        BY <1>1, <1>2, <2>1, SumUnion
    <2>5. SumFunctionOnSet(f, Those(u)) \in Nat /\ SumFunctionOnSet(f, Class(S, K, t)) \in Nat
        BY <1>1, <1>2, SumNat
    <2>6. SumFunctionOnSet(g, u \cup {t})
          = SumFunctionOnSet(f, Those(u)) + SumFunctionOnSet(f, Class(S, K, t))
        BY <2>2, <2>3, <2>5 DEF Grows
    <2>7. SumFunctionOnSet(g, u \cup {t}) = SumFunctionOnSet(f, Those(u) \cup Class(S, K, t))
        BY <2>4, <2>6
    <2>8. SumFunctionOnSet(g, u \cup {t}) = SumFunctionOnSet(f, Those(u \cup {t}))
        BY <2>1, <2>7
    <2> QED
        BY <2>8
<1>6. T \in P
    <2> HIDE DEF P
    <2> QED
        BY <1>4, <1>5, SubsetInduction
<1>7. Those(T) = S
    OBVIOUS
<1> QED
    BY <1>6, <1>7
=============================================================================
