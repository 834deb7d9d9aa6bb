------------------------- MODULE GroupExpenses_proofs -------------------------
(***************************************************************************)
(* Proofs about the money of a group (GroupBalances, SplitMath) and about   *)
(* what else happens around an expense (ExpenseActivity).                   *)
(*                                                                          *)
(* Splits: the largest remainder method is exact, fair and monotone for all *)
(* totals and weights, and each split type ends in it or in a sum that is   *)
(* checked.  Matching: each round settles a user for good.  Activity: the   *)
(* invariant says what a request carries at each place of its handler.      *)
(* All rest on sums over finite sets, which the first part is about.        *)
(***************************************************************************)
EXTENDS GroupBalances, ExpenseActivity, FiniteSetTheorems, WellFoundedInduction, TLAPS

-----------------------------------------------------------------------------
(***************************************************************************)
(* Sums over a finite set: SumFunctionOnSet is a recursion over its subsets,*)
(* and all that is said of it here is by induction over them.              *)
(***************************************************************************)

\* Induction over a finite set: a family of its subsets that has the empty
\* one, and with a subset all that have one element more, has the set itself.
LEMMA FiniteInduction ==
  ASSUME NEW S, IsFiniteSet(S), NEW F, {} \in F,
         \A s \in SUBSET S : \A x \in S \ s : s \in F => s \cup {x} \in F
  PROVE  S \in F
<1>. DEFINE T == {s \in SUBSET S : s \notin F}
<1>1. IsWellFoundedOn(StrictSubsetOrdering(S), FiniteSubsetsOf(S))
  BY FS_StrictSubsetOrderingWellFounded
<1>2. T \subseteq FiniteSubsetsOf(S)
  BY FS_Subset DEF FiniteSubsetsOf
<1>3. SUFFICES ASSUME T # {} PROVE FALSE
  OBVIOUS
<1>4. PICK s \in T : \A y \in T : ~(<<y, s>> \in StrictSubsetOrdering(S))
  <2>. HIDE DEF T
  <2>. QED  BY <1>1, <1>2, <1>3, WFMin
<1>5. PICK x : x \in s
  OBVIOUS
<1>6. PICK r : r = s \ {x}
  OBVIOUS
<1>7. r \in SUBSET S /\ r \subseteq s /\ r # s /\ x \in S \ r /\ s = r \cup {x}
  BY <1>5, <1>6
<1>8. <<r, s>> \in StrictSubsetOrdering(S)
  BY <1>7 DEF StrictSubsetOrdering
<1>9. r \in F
  BY <1>4, <1>7, <1>8
<1>. QED  BY <1>7, <1>9

\* Induction over the natural numbers, for a set of them.
LEMMA NatInductionOnSet ==
  ASSUME NEW T, 0 \in T, \A n \in Nat : n \in T => n + 1 \in T
  PROVE  Nat \subseteq T
<1>. SUFFICES ASSUME NEW n \in Nat PROVE n \in T
  OBVIOUS
<1>. DEFINE F == {s \in SUBSET (1..n) : Cardinality(s) \in T}
<1>1. IsFiniteSet(1..n) /\ Cardinality(1..n) = n
  BY FS_Interval
<1>2. {} \in F
  BY FS_EmptySet
<1>3. ASSUME NEW s \in SUBSET (1..n), NEW x \in (1..n) \ s, s \in F
      PROVE  s \cup {x} \in F
  <2>1. IsFiniteSet(s) /\ Cardinality(s) \in Nat
    BY <1>1, FS_Subset, FS_CardinalityType
  <2>2. Cardinality(s \cup {x}) = Cardinality(s) + 1
    BY <2>1, FS_AddElement
  <2>. QED  BY <1>3, <2>1, <2>2
<1>4. (1..n) \in F
  <2>. HIDE DEF F
  <2>. QED  BY <1>1, <1>2, <1>3, FiniteInduction
<1>. QED  BY <1>1, <1>4

\* The recursive function inside a sum over the subsets of S.
Summing(f, S) ==
  LET iter[s \in SUBSET S] ==
        IF s = {} THEN 0
        ELSE LET x == CHOOSE y \in s : TRUE
             IN  f[x] + iter[s \ {x}]
  IN  iter

Some(s) == CHOOSE y \in s : TRUE

IsSumming(g, f, S) ==
  g = [s \in SUBSET S |-> IF s = {} THEN 0 ELSE f[Some(s)] + g[s \ {Some(s)}]]

\* It exists: it is built up to subsets of n elements, for each n.
LEMMA SummingExists ==
  ASSUME NEW f, NEW S, IsFiniteSet(S)
  PROVE  \E g : IsSumming(g, f, S)
<1>. DEFINE Small(n) == {s \in SUBSET S : Cardinality(s) <= n}
            Is(g, n) == g = [s \in Small(n) |->
                               IF s = {} THEN 0 ELSE f[Some(s)] + g[s \ {Some(s)}]]
            T == {n \in Nat : \E g : Is(g, n)}
<1>1. \A s \in SUBSET S : IsFiniteSet(s) /\ Cardinality(s) \in Nat
  BY FS_Subset, FS_CardinalityType
<1>2. \A s \in SUBSET S : s # {} => /\ Some(s) \in s /\ s \ {Some(s)} \in SUBSET S
                                    /\ Cardinality(s \ {Some(s)}) = Cardinality(s) - 1
  BY <1>1, FS_RemoveElement DEF Some
<1>3. 0 \in T
  <2>1. \A s \in Small(0) : s = {}
    BY <1>1, FS_EmptySet
  <2>2. Is([s \in Small(0) |-> 0], 0)
    BY <2>1
  <2>. QED  BY <2>2
<1>4. ASSUME NEW n \in Nat, n \in T PROVE n + 1 \in T
  <2>1. PICK g : Is(g, n)
    BY <1>4
  <2>. DEFINE h == [s \in Small(n + 1) |-> IF s = {} THEN 0
                                          ELSE f[Some(s)] + g[s \ {Some(s)}]]
  <2>2. \A s \in Small(n) : h[s] = g[s]
    <3>1. Small(n) \subseteq Small(n + 1)
      BY <1>1
    <3>. QED  BY <2>1, <3>1
  <2>3. \A s \in Small(n + 1) : s # {} => s \ {Some(s)} \in Small(n)
    BY <1>1, <1>2
  <2>4. Is(h, n + 1)
    BY <2>2, <2>3
  <2>. HIDE DEF h, Is
  <2>. QED  BY <2>4
<1>5. Nat \subseteq T
  <2>. HIDE DEF T
  <2>. QED  BY <1>3, <1>4, NatInductionOnSet
<1>6. PICK n \in Nat : n = Cardinality(S)
  BY FS_CardinalityType
<1>7. Small(n) = SUBSET S
  BY <1>6, FS_Subset
<1>8. PICK g : Is(g, n)
  BY <1>5
<1>. QED  BY <1>7, <1>8 DEF IsSumming

\* It is the one that CHOOSE takes, and the sum is its value at S.
LEMMA SummingIs ==
  ASSUME NEW f, NEW S, IsFiniteSet(S)
  PROVE  IsSumming(Summing(f, S), f, S)
<1>1. Summing(f, S) = CHOOSE g : IsSumming(g, f, S)
  BY DEF Summing, IsSumming, Some
<1>2. \E g : IsSumming(g, f, S)
  BY SummingExists
<1>. QED  BY <1>1, <1>2

LEMMA SumIsSumming ==
  ASSUME NEW f, NEW S
  PROVE  SumFunctionOnSet(f, S) = Summing(f, S)[S]
  BY DEF SumFunctionOnSet, FoldFunctionOnSet, MapThenFoldSet, Summing

\* A set of n + 1 elements less one of them is finite and has n.
LEMMA OneLess ==
  ASSUME NEW s, IsFiniteSet(s), NEW x \in s, NEW n \in Nat, Cardinality(s) = n + 1
  PROVE  IsFiniteSet(s \ {x}) /\ Cardinality(s \ {x}) = n
<1>1. IsFiniteSet(s \ {x}) /\ Cardinality(s \ {x}) = Cardinality(s) - 1
  BY FS_RemoveElement
<1>. QED  BY <1>1

\* The sum of nothing.
LEMMA SumOfNone ==
  ASSUME NEW f
  PROVE  SumFunctionOnSet(f, {}) = 0
<1>1. IsSumming(Summing(f, {}), f, {})
  BY SummingIs, FS_EmptySet
<1>. QED  BY <1>1, SumIsSumming DEF IsSumming

\* The sum of a subset does not depend on the set that it is a part of.
LEMMA SummingAgrees ==
  ASSUME NEW f, NEW S, IsFiniteSet(S), NEW R \in SUBSET S
  PROVE  Summing(f, S)[R] = SumFunctionOnSet(f, R)
<1>. DEFINE Agree(s) == Summing(f, S)[s] = Summing(f, R)[s]
            T == {n \in Nat : \A s \in SUBSET R : Cardinality(s) = n => Agree(s)}
<1>1. IsFiniteSet(R) /\ \A s \in SUBSET R : IsFiniteSet(s) /\ Cardinality(s) \in Nat
  BY FS_Subset, FS_CardinalityType
<1>2. /\ \A s \in SUBSET S : Summing(f, S)[s] =
           IF s = {} THEN 0 ELSE f[Some(s)] + Summing(f, S)[s \ {Some(s)}]
      /\ \A s \in SUBSET R : Summing(f, R)[s] =
           IF s = {} THEN 0 ELSE f[Some(s)] + Summing(f, R)[s \ {Some(s)}]
  <2>1. IsSumming(Summing(f, S), f, S) /\ IsSumming(Summing(f, R), f, R)
    BY <1>1, SummingIs
  <2>. QED  BY <2>1 DEF IsSumming
<1>3. 0 \in T
  <2>. SUFFICES ASSUME NEW s \in SUBSET R, Cardinality(s) = 0 PROVE Agree(s)
    OBVIOUS
  <2>1. s = {}
    BY <1>1, FS_EmptySet
  <2>. QED  BY <1>2, <2>1
<1>4. ASSUME NEW n \in Nat, n \in T PROVE n + 1 \in T
  <2>. SUFFICES ASSUME NEW s \in SUBSET R, Cardinality(s) = n + 1 PROVE Agree(s)
    OBVIOUS
  <2>1. s # {}
    BY FS_EmptySet
  <2>2. PICK c, r : c = Some(s) /\ r = s \ {c}
    OBVIOUS
  <2>3. c \in s
    BY <2>1, <2>2 DEF Some
  <2>5. Cardinality(r) = n
    BY <1>1, <2>2, <2>3, OneLess
  <2>6. r \in SUBSET R
    BY <2>2
  <2>4. Agree(r)
    BY <1>4, <2>5, <2>6
  <2>. QED  BY <1>2, <2>1, <2>2, <2>4
<1>5. Nat \subseteq T
  <2>. HIDE DEF T
  <2>. QED  BY <1>3, <1>4, NatInductionOnSet
<1>6. Agree(R)
  BY <1>1, <1>5
<1>. QED  BY <1>6, SumIsSumming

\* A sum starts from any element that CHOOSE names.
LEMMA SumOfSome ==
  ASSUME NEW f, NEW S, IsFiniteSet(S), S # {}
  PROVE  /\ Some(S) \in S
         /\ SumFunctionOnSet(f, S) = f[Some(S)] + SumFunctionOnSet(f, S \ {Some(S)})
<1>1. IsSumming(Summing(f, S), f, S)
  BY SummingIs
<1>2. Summing(f, S)[S] = f[Some(S)] + Summing(f, S)[S \ {Some(S)}]
  BY <1>1 DEF IsSumming
<1>3. Summing(f, S)[S \ {Some(S)}] = SumFunctionOnSet(f, S \ {Some(S)})
  BY SummingAgrees
<1>4. Some(S) \in S
  BY DEF Some
<1>. QED  BY <1>2, <1>3, <1>4, SumIsSumming

\* The sum of integers is one.
LEMMA SumIsInt ==
  ASSUME NEW f, NEW S, IsFiniteSet(S), \A x \in S : f[x] \in Int
  PROVE  SumFunctionOnSet(f, S) \in Int
<1>. DEFINE T == {n \in Nat : \A s \in SUBSET S :
                                Cardinality(s) = n => SumFunctionOnSet(f, s) \in Int}
<1>1. \A s \in SUBSET S : IsFiniteSet(s) /\ Cardinality(s) \in Nat
  BY FS_Subset, FS_CardinalityType
<1>2. 0 \in T
  BY <1>1, FS_EmptySet, SumOfNone
<1>3. ASSUME NEW n \in Nat, n \in T PROVE n + 1 \in T
  <2>. SUFFICES ASSUME NEW s \in SUBSET S, Cardinality(s) = n + 1
                PROVE  SumFunctionOnSet(f, s) \in Int
    OBVIOUS
  <2>1. IsFiniteSet(s) /\ s # {}
    BY <1>1, FS_EmptySet
  <2>2. PICK c, r : c = Some(s) /\ r = s \ {c}
    OBVIOUS
  <2>3. c \in s /\ SumFunctionOnSet(f, s) = f[c] + SumFunctionOnSet(f, r)
    BY <2>1, <2>2, SumOfSome
  <2>4. r \in SUBSET S
    BY <2>2
  <2>5. Cardinality(r) = n
    BY <2>1, <2>2, <2>3, OneLess
  <2>. QED  BY <1>3, <2>3, <2>4, <2>5
<1>4. Nat \subseteq T
  <2>. HIDE DEF T
  <2>. QED  BY <1>2, <1>3, NatInductionOnSet
<1>. QED  BY <1>1, <1>4

\* Any element may be taken out of a sum of integers first.
LEMMA SumTakeOut ==
  ASSUME NEW f, NEW S, IsFiniteSet(S), \A x \in S : f[x] \in Int, NEW x \in S
  PROVE  SumFunctionOnSet(f, S) = f[x] + SumFunctionOnSet(f, S \ {x})
<1>. DEFINE Out(s) == \A y \in s :
                        SumFunctionOnSet(f, s) = f[y] + SumFunctionOnSet(f, s \ {y})
            T == {n \in Nat : \A s \in SUBSET S : Cardinality(s) = n => Out(s)}
<1>1. \A s \in SUBSET S : IsFiniteSet(s) /\ Cardinality(s) \in Nat
  BY FS_Subset, FS_CardinalityType
<1>2. \A s \in SUBSET S : SumFunctionOnSet(f, s) \in Int
  BY <1>1, SumIsInt
<1>3. 0 \in T
  BY <1>1, FS_EmptySet
<1>4. ASSUME NEW n \in Nat, n \in T PROVE n + 1 \in T
  <2>. SUFFICES ASSUME NEW s \in SUBSET S, Cardinality(s) = n + 1, NEW y \in s
                PROVE  SumFunctionOnSet(f, s) = f[y] + SumFunctionOnSet(f, s \ {y})
    OBVIOUS
  <2>1. IsFiniteSet(s)
    BY <1>1
  <2>2. PICK c, r : c = Some(s) /\ r = s \ {c}
    OBVIOUS
  <2>3. c \in s /\ SumFunctionOnSet(f, s) = f[c] + SumFunctionOnSet(f, r)
    BY <2>1, <2>2, SumOfSome
  <2>4. CASE y = c
    BY <2>2, <2>3, <2>4
  <2>5. CASE y # c
    <3>1. PICK q, p : q = s \ {y} /\ p = r \ {y}
      OBVIOUS
    <3>6. Cardinality(r) = n /\ Cardinality(q) = n
      BY <2>1, <2>2, <2>3, <3>1, OneLess
    <3>2. /\ r \in SUBSET S /\ Cardinality(r) = n /\ y \in r
          /\ q \in SUBSET S /\ Cardinality(q) = n /\ c \in q
          /\ p \in SUBSET S /\ p = q \ {c}
      BY <2>2, <2>3, <2>5, <3>1, <3>6
    <3>3. SumFunctionOnSet(f, r) = f[y] + SumFunctionOnSet(f, p)
      BY <1>4, <3>1, <3>2
    <3>4. SumFunctionOnSet(f, q) = f[c] + SumFunctionOnSet(f, p)
      BY <1>4, <3>2
    <3>5. /\ SumFunctionOnSet(f, p) \in Int /\ f[c] \in Int /\ f[y] \in Int
      BY <1>2, <2>3, <3>2
    <3>. QED  BY <2>3, <3>1, <3>3, <3>4, <3>5
  <2>. QED  BY <2>4, <2>5
<1>5. Nat \subseteq T
  <2>. HIDE DEF T
  <2>. QED  BY <1>3, <1>4, NatInductionOnSet
<1>6. Out(S)
  BY <1>1, <1>5
<1>. QED  BY <1>6

\* One element more.
LEMMA SumAddElement ==
  ASSUME NEW f, NEW S, IsFiniteSet(S), NEW x, x \notin S,
         \A y \in S \cup {x} : f[y] \in Int
  PROVE  SumFunctionOnSet(f, S \cup {x}) = f[x] + SumFunctionOnSet(f, S)
<1>1. PICK R : R = S \cup {x}
  OBVIOUS
<1>2. IsFiniteSet(R) /\ x \in R /\ R \ {x} = S
  BY <1>1, FS_AddElement
<1>. QED  BY <1>1, <1>2, SumTakeOut

\* A sum depends on the values in the set only.
LEMMA SumSame ==
  ASSUME NEW f, NEW g, NEW S, IsFiniteSet(S), \A x \in S : f[x] = g[x] /\ f[x] \in Int
  PROVE  SumFunctionOnSet(f, S) = SumFunctionOnSet(g, S)
<1>. DEFINE F == {s \in SUBSET S : SumFunctionOnSet(f, s) = SumFunctionOnSet(g, s)}
<1>1. {} \in F
  BY SumOfNone
<1>2. ASSUME NEW s \in SUBSET S, NEW x \in S \ s, s \in F PROVE s \cup {x} \in F
  <2>1. IsFiniteSet(s)
    BY FS_Subset
  <2>2. /\ SumFunctionOnSet(f, s \cup {x}) = f[x] + SumFunctionOnSet(f, s)
        /\ SumFunctionOnSet(g, s \cup {x}) = g[x] + SumFunctionOnSet(g, s)
    BY <2>1, SumAddElement
  <2>. QED  BY <1>2, <2>2
<1>3. S \in F
  <2>. HIDE DEF F
  <2>. QED  BY <1>1, <1>2, FiniteInduction
<1>. QED  BY <1>3

\* Sums of sums, of multiples, of what is not larger.
LEMMA SumOfSums ==
  ASSUME NEW f, NEW g, NEW h, NEW S, IsFiniteSet(S),
         \A x \in S : f[x] \in Int /\ g[x] \in Int /\ h[x] = f[x] + g[x]
  PROVE  SumFunctionOnSet(h, S) = SumFunctionOnSet(f, S) + SumFunctionOnSet(g, S)
<1>. DEFINE F == {s \in SUBSET S : SumFunctionOnSet(h, s) =
                                     SumFunctionOnSet(f, s) + SumFunctionOnSet(g, s)}
<1>1. {} \in F
  BY SumOfNone
<1>2. ASSUME NEW s \in SUBSET S, NEW x \in S \ s, s \in F PROVE s \cup {x} \in F
  <2>1. IsFiniteSet(s)
    BY FS_Subset
  <2>2. /\ SumFunctionOnSet(f, s \cup {x}) = f[x] + SumFunctionOnSet(f, s)
        /\ SumFunctionOnSet(g, s \cup {x}) = g[x] + SumFunctionOnSet(g, s)
        /\ SumFunctionOnSet(h, s \cup {x}) = h[x] + SumFunctionOnSet(h, s)
    BY <2>1, SumAddElement
  <2>3. SumFunctionOnSet(f, s) \in Int /\ SumFunctionOnSet(g, s) \in Int
    BY <2>1, SumIsInt
  <2>. QED  BY <1>2, <2>2, <2>3
<1>3. S \in F
  <2>. HIDE DEF F
  <2>. QED  BY <1>1, <1>2, FiniteInduction
<1>. QED  BY <1>3

LEMMA SumOfMultiples ==
  ASSUME NEW f, NEW h, NEW a \in Int, NEW S, IsFiniteSet(S),
         \A x \in S : f[x] \in Int /\ h[x] = a * f[x]
  PROVE  SumFunctionOnSet(h, S) = a * SumFunctionOnSet(f, S)
<1>. DEFINE F == {s \in SUBSET S : SumFunctionOnSet(h, s) = a * SumFunctionOnSet(f, s)}
<1>1. {} \in F
  BY SumOfNone
<1>2. ASSUME NEW s \in SUBSET S, NEW x \in S \ s, s \in F PROVE s \cup {x} \in F
  <2>1. IsFiniteSet(s)
    BY FS_Subset
  <2>2. /\ SumFunctionOnSet(f, s \cup {x}) = f[x] + SumFunctionOnSet(f, s)
        /\ SumFunctionOnSet(h, s \cup {x}) = h[x] + SumFunctionOnSet(h, s)
    BY <2>1, SumAddElement
  <2>3. SumFunctionOnSet(f, s) \in Int
    BY <2>1, SumIsInt
  <2>4. \A m, n \in Int : a * (m + n) = a * m + a * n
    OBVIOUS
  <2>. QED  BY <1>2, <2>2, <2>3, <2>4
<1>3. S \in F
  <2>. HIDE DEF F
  <2>. QED  BY <1>1, <1>2, FiniteInduction
<1>. QED  BY <1>3

LEMMA SumIsMonotonic ==
  ASSUME NEW f, NEW g, NEW S, IsFiniteSet(S),
         \A x \in S : f[x] \in Int /\ g[x] \in Int /\ f[x] <= g[x]
  PROVE  SumFunctionOnSet(f, S) <= SumFunctionOnSet(g, S)
<1>. DEFINE F == {s \in SUBSET S : SumFunctionOnSet(f, s) <= SumFunctionOnSet(g, s)}
<1>1. {} \in F
  BY SumOfNone
<1>2. ASSUME NEW s \in SUBSET S, NEW x \in S \ s, s \in F PROVE s \cup {x} \in F
  <2>1. IsFiniteSet(s)
    BY FS_Subset
  <2>2. /\ SumFunctionOnSet(f, s \cup {x}) = f[x] + SumFunctionOnSet(f, s)
        /\ SumFunctionOnSet(g, s \cup {x}) = g[x] + SumFunctionOnSet(g, s)
    BY <2>1, SumAddElement
  <2>3. SumFunctionOnSet(f, s) \in Int /\ SumFunctionOnSet(g, s) \in Int
    BY <2>1, SumIsInt
  <2>. QED  BY <1>2, <2>2, <2>3
<1>3. S \in F
  <2>. HIDE DEF F
  <2>. QED  BY <1>1, <1>2, FiniteInduction
<1>. QED  BY <1>3

\* The sum of ones and zeros counts the ones.
LEMMA SumCounts ==
  ASSUME NEW f, NEW S, IsFiniteSet(S), NEW R \in SUBSET S,
         \A x \in S : f[x] = IF x \in R THEN 1 ELSE 0
  PROVE  SumFunctionOnSet(f, S) = Cardinality(R)
<1>. DEFINE F == {s \in SUBSET S : SumFunctionOnSet(f, s) = Cardinality(R \cap s)}
<1>1. {} \in F
  <2>1. R \cap {} = {}
    OBVIOUS
  <2>. QED  BY <2>1, SumOfNone, FS_EmptySet
<1>2. ASSUME NEW s \in SUBSET S, NEW x \in S \ s, s \in F PROVE s \cup {x} \in F
  <2>1. IsFiniteSet(s) /\ IsFiniteSet(R \cap s)
    BY FS_Subset
  <2>2. SumFunctionOnSet(f, s \cup {x}) = f[x] + SumFunctionOnSet(f, s)
    BY <2>1, SumAddElement
  <2>3. Cardinality(R \cap s) \in Nat
    BY <2>1, FS_CardinalityType
  <2>4. CASE x \in R
    <3>1. R \cap (s \cup {x}) = (R \cap s) \cup {x} /\ x \notin R \cap s
      BY <2>4
    <3>2. Cardinality(R \cap (s \cup {x})) = Cardinality(R \cap s) + 1
      BY <2>1, <3>1, FS_AddElement
    <3>. QED  BY <1>2, <2>2, <2>3, <2>4, <3>2
  <2>5. CASE x \notin R
    <3>1. R \cap (s \cup {x}) = R \cap s
      BY <2>5
    <3>. QED  BY <1>2, <2>2, <2>3, <2>5, <3>1
  <2>. QED  BY <2>4, <2>5
<1>3. S \in F
  <2>. HIDE DEF F
  <2>. QED  BY <1>1, <1>2, FiniteInduction
<1>4. R \cap S = R
  OBVIOUS
<1>. QED  BY <1>3, <1>4

\* What is zero outside a part sums up to the sum of the part.
LEMMA SumOfPart ==
  ASSUME NEW f, NEW g, NEW S, IsFiniteSet(S), NEW R \in SUBSET S,
         \A x \in R : g[x] \in Int,
         \A x \in S : f[x] = IF x \in R THEN g[x] ELSE 0
  PROVE  SumFunctionOnSet(f, S) = SumFunctionOnSet(g, R)
<1>. DEFINE F == {s \in SUBSET S : SumFunctionOnSet(f, s) = SumFunctionOnSet(g, R \cap s)}
<1>1. {} \in F
  <2>1. R \cap {} = {}
    OBVIOUS
  <2>. QED  BY <2>1, SumOfNone
<1>2. ASSUME NEW s \in SUBSET S, NEW x \in S \ s, s \in F PROVE s \cup {x} \in F
  <2>1. IsFiniteSet(s) /\ IsFiniteSet(R \cap s)
    BY FS_Subset
  <2>2. SumFunctionOnSet(f, s \cup {x}) = f[x] + SumFunctionOnSet(f, s)
    BY <2>1, SumAddElement
  <2>3. SumFunctionOnSet(g, R \cap s) \in Int
    BY <2>1, SumIsInt
  <2>4. CASE x \in R
    <3>1. PICK q : q = R \cap s
      OBVIOUS
    <3>2. R \cap (s \cup {x}) = q \cup {x} /\ x \notin q /\ q \subseteq R
      BY <2>4, <3>1
    <3>3. SumFunctionOnSet(g, q \cup {x}) = g[x] + SumFunctionOnSet(g, q)
      BY <2>1, <2>4, <3>1, <3>2, SumAddElement
    <3>. QED  BY <1>2, <2>2, <2>4, <3>1, <3>2, <3>3
  <2>5. CASE x \notin R
    <3>1. R \cap (s \cup {x}) = R \cap s
      BY <2>5
    <3>2. PICK a : a = SumFunctionOnSet(g, R \cap s)
      OBVIOUS
    <3>3. SumFunctionOnSet(f, s) = a
      BY <1>2, <3>2
    <3>4. f[x] = 0
      BY <2>5
    <3>5. SumFunctionOnSet(f, s \cup {x}) = a
      BY <2>2, <2>3, <3>2, <3>3, <3>4
    <3>. QED  BY <3>1, <3>2, <3>5
  <2>. QED  BY <2>4, <2>5
<1>3. S \in F
  <2>. HIDE DEF F
  <2>. QED  BY <1>1, <1>2, FiniteInduction
<1>4. R \cap S = R
  OBVIOUS
<1>. QED  BY <1>3, <1>4

\* A sum with one part that is not zero.
LEMMA SumOfOne ==
  ASSUME NEW f, NEW S, IsFiniteSet(S), NEW p \in S, NEW a \in Int,
         \A x \in S : f[x] = IF x = p THEN a ELSE 0
  PROVE  SumFunctionOnSet(f, S) = a
<1>1. PICK g : g = [x \in {p} |-> a]
  OBVIOUS
<1>2. SumFunctionOnSet(f, S) = SumFunctionOnSet(g, {p})
  BY <1>1, SumOfPart
<1>3. {} \cup {p} = {p} /\ IsFiniteSet({}) /\ g[p] = a
  BY <1>1, FS_EmptySet
<1>4. SumFunctionOnSet(g, {p}) = g[p] + SumFunctionOnSet(g, {})
  BY ONLY <1>1, <1>3, a \in Int, SumAddElement
<1>. QED  BY <1>2, <1>3, <1>4, SumOfNone

\* A sum of zeros, a sum of what is not negative, a sum with a positive part.
LEMMA SumOfZeros ==
  ASSUME NEW f, NEW S, IsFiniteSet(S), \A x \in S : f[x] = 0
  PROVE  SumFunctionOnSet(f, S) = 0
  BY SumOfPart, SumOfNone

LEMMA SumIsNat ==
  ASSUME NEW f, NEW S, IsFiniteSet(S), \A x \in S : f[x] \in Nat
  PROVE  SumFunctionOnSet(f, S) \in Nat
<1>1. PICK z : z = [x \in S |-> 0]
  OBVIOUS
<1>2. \A x \in S : z[x] \in Int /\ f[x] \in Int /\ z[x] <= f[x]
  BY <1>1
<1>3. SumFunctionOnSet(z, S) <= SumFunctionOnSet(f, S)
  BY <1>2, SumIsMonotonic
<1>. QED  BY <1>1, <1>2, <1>3, SumOfZeros, SumIsInt

LEMMA SumIsPositive ==
  ASSUME NEW f, NEW S, IsFiniteSet(S), \A x \in S : f[x] \in Nat, NEW p \in S, f[p] > 0
  PROVE  SumFunctionOnSet(f, S) \in Nat \ {0}
<1>1. SumFunctionOnSet(f, S) = f[p] + SumFunctionOnSet(f, S \ {p})
  BY SumTakeOut
<1>2. SumFunctionOnSet(f, S \ {p}) \in Nat
  BY FS_Subset, SumIsNat
<1>. QED  BY <1>1, <1>2

\* The parts may be renamed.
LEMMA SumRenamed ==
  ASSUME NEW f, NEW g, NEW S, NEW R, NEW b, IsFiniteSet(S), IsFiniteSet(R),
         \A x \in S : b[x] \in R /\ g[b[x]] = f[x] /\ f[x] \in Int,
         \A x, y \in S : b[x] = b[y] => x = y,
         \A z \in R : \E x \in S : b[x] = z
  PROVE  SumFunctionOnSet(g, R) = SumFunctionOnSet(f, S)
<1>. DEFINE Img(s) == {b[x] : x \in s}
            F == {s \in SUBSET S : SumFunctionOnSet(f, s) = SumFunctionOnSet(g, Img(s))}
<1>1. {} \in F
  <2>1. Img({}) = {}
    OBVIOUS
  <2>. QED  BY <2>1, SumOfNone
<1>2. ASSUME NEW s \in SUBSET S, NEW x \in S \ s, s \in F PROVE s \cup {x} \in F
  <2>1. IsFiniteSet(s)
    BY FS_Subset
  <2>2. SumFunctionOnSet(f, s \cup {x}) = f[x] + SumFunctionOnSet(f, s)
    BY <2>1, SumAddElement
  <2>3. PICK q, c : q = Img(s) /\ c = b[x]
    OBVIOUS
  <2>4. Img(s \cup {x}) = q \cup {c} /\ c \notin q /\ q \cup {c} \subseteq R
    BY <2>3
  <2>5. IsFiniteSet(q) /\ \A y \in q \cup {c} : g[y] \in Int
    BY <2>3, <2>4, FS_Subset
  <2>6. SumFunctionOnSet(g, q \cup {c}) = g[c] + SumFunctionOnSet(g, q)
    BY <2>4, <2>5, SumAddElement
  <2>. QED  BY <1>2, <2>2, <2>3, <2>4, <2>6
<1>3. S \in F
  <2>. HIDE DEF F
  <2>. QED  BY <1>1, <1>2, FiniteInduction
<1>4. Img(S) = R
  OBVIOUS
<1>. QED  BY <1>3, <1>4

\* The sum of two disjoint sets.
LEMMA SumOfUnion ==
  ASSUME NEW f, NEW S, NEW R, IsFiniteSet(S), IsFiniteSet(R), S \cap R = {},
         \A x \in S \cup R : f[x] \in Int
  PROVE  SumFunctionOnSet(f, S \cup R) = SumFunctionOnSet(f, S) + SumFunctionOnSet(f, R)
<1>1. PICK U, g, h : /\ U = S \cup R
                     /\ g = [x \in U |-> IF x \in S THEN f[x] ELSE 0]
                     /\ h = [x \in U |-> IF x \in R THEN f[x] ELSE 0]
  OBVIOUS
<1>2. IsFiniteSet(U) /\ S \in SUBSET U /\ R \in SUBSET U
  BY <1>1, FS_Union
<1>3. SumFunctionOnSet(f, U) = SumFunctionOnSet(g, U) + SumFunctionOnSet(h, U)
  <2>1. \A x \in U : g[x] \in Int /\ h[x] \in Int /\ f[x] = g[x] + h[x]
    BY <1>1
  <2>. QED  BY ONLY <1>2, <2>1, SumOfSums
<1>4. SumFunctionOnSet(g, U) = SumFunctionOnSet(f, S)
  <2>1. \A x \in S : f[x] \in Int
    OBVIOUS
  <2>2. \A x \in U : g[x] = IF x \in S THEN f[x] ELSE 0
    BY <1>1
  <2>. QED  BY ONLY <1>2, <2>1, <2>2, SumOfPart
<1>5. SumFunctionOnSet(h, U) = SumFunctionOnSet(f, R)
  <2>1. \A x \in R : f[x] \in Int
    OBVIOUS
  <2>2. \A x \in U : h[x] = IF x \in R THEN f[x] ELSE 0
    BY <1>1
  <2>. QED  BY ONLY <1>2, <2>1, <2>2, SumOfPart
<1>. QED  BY <1>1, <1>3, <1>4, <1>5

\* A table of integers sums up to the same by rows and by columns.
Column(t, S, y) == [x \in S |-> t[x][y]]

LEMMA SumByRowsOrColumns ==
  ASSUME NEW t, NEW rows, NEW cols, NEW S, NEW R, IsFiniteSet(S), IsFiniteSet(R),
         \A x \in S, y \in R : t[x][y] \in Int,
         \A x \in S : rows[x] = SumFunctionOnSet(t[x], R),
         \A y \in R : cols[y] = SumFunctionOnSet(Column(t, S, y), S)
  PROVE  SumFunctionOnSet(rows, S) = SumFunctionOnSet(cols, R)
<1>. DEFINE Cols(s) == [y \in R |-> SumFunctionOnSet(Column(t, S, y), s)]
            F == {s \in SUBSET S :
                    SumFunctionOnSet(rows, s) = SumFunctionOnSet(Cols(s), R)}
<1>1. {} \in F
  <2>1. \A y \in R : Cols({})[y] = 0
    BY SumOfNone
  <2>2. SumFunctionOnSet(Cols({}), R) = 0
    <3>. HIDE DEF Cols
    <3>. QED  BY <2>1, SumOfZeros
  <2>. QED  BY <2>2, SumOfNone
<1>2. ASSUME NEW s \in SUBSET S, NEW x \in S \ s, s \in F PROVE s \cup {x} \in F
  <2>1. IsFiniteSet(s)
    BY FS_Subset
  <2>2. \A z \in S : rows[z] \in Int
    BY SumIsInt
  <2>3. SumFunctionOnSet(rows, s \cup {x}) = rows[x] + SumFunctionOnSet(rows, s)
    BY <2>1, <2>2, SumAddElement
  <2>4. ASSUME NEW y \in R
        PROVE  /\ t[x][y] \in Int /\ Cols(s)[y] \in Int
               /\ Cols(s \cup {x})[y] = t[x][y] + Cols(s)[y]
    <3>1. PICK col : col = [z \in S |-> t[z][y]] /\ col = Column(t, S, y)
      BY DEF Column
    <3>2. \A z \in s \cup {x} : col[z] \in Int
      BY <3>1
    <3>3. SumFunctionOnSet(col, s \cup {x}) = col[x] + SumFunctionOnSet(col, s)
      BY <2>1, <3>2, SumAddElement
    <3>4. SumFunctionOnSet(col, s) \in Int
      BY <2>1, <3>2, SumIsInt
    <3>. QED  BY <3>1, <3>3, <3>4
  <2>5. PICK c, d : c = Cols(s) /\ d = Cols(s \cup {x})
    OBVIOUS
  <2>6. SumFunctionOnSet(d, R) = SumFunctionOnSet(t[x], R) + SumFunctionOnSet(c, R)
    <3>1. PICK tx : tx = t[x]
      OBVIOUS
    <3>2. \A y \in R : tx[y] \in Int /\ c[y] \in Int /\ d[y] = tx[y] + c[y]
      <4>. HIDE DEF Cols
      <4>. QED  BY <2>4, <2>5, <3>1
    <3>3. SumFunctionOnSet(d, R) = SumFunctionOnSet(tx, R) + SumFunctionOnSet(c, R)
      BY ONLY <3>2, IsFiniteSet(R), SumOfSums
    <3>. QED  BY <3>1, <3>3
  <2>7. SumFunctionOnSet(rows, s) = SumFunctionOnSet(c, R)
    BY <1>2, <2>5
  <2>8. SumFunctionOnSet(rows, s \cup {x}) = SumFunctionOnSet(d, R)
    BY <2>3, <2>6, <2>7
  <2>. QED  BY <2>5, <2>8
<1>3. S \in F
  <2>. HIDE DEF F
  <2>. QED  BY <1>1, <1>2, FiniteInduction
<1>4. SumFunctionOnSet(rows, S) = SumFunctionOnSet(Cols(S), R)
  BY <1>3
<1>5. SumFunctionOnSet(Cols(S), R) = SumFunctionOnSet(cols, R)
  <2>1. \A y \in R : Cols(S)[y] = cols[y] /\ Cols(S)[y] \in Int
    <3>. SUFFICES ASSUME NEW y \in R PROVE Cols(S)[y] = cols[y] /\ Cols(S)[y] \in Int
      OBVIOUS
    <3>1. PICK col : col = [z \in S |-> t[z][y]] /\ col = Column(t, S, y)
      BY DEF Column
    <3>2. SumFunctionOnSet(col, S) \in Int
      BY <3>1, SumIsInt
    <3>. QED  BY <3>1, <3>2
  <2>. HIDE DEF Cols
  <2>. QED  BY <2>1, SumSame
<1>. QED  BY <1>4, <1>5

-----------------------------------------------------------------------------
(***************************************************************************)
(* Places in an order, for the remainders that are sorted.                 *)
(***************************************************************************)

IsStrictOrder(Ord, K) ==
  /\ \A k \in K : <<k, k>> \notin Ord
  /\ \A k, l, m \in K : <<k, l>> \in Ord /\ <<l, m>> \in Ord => <<k, m>> \in Ord
  /\ \A k, l \in K : k = l \/ <<k, l>> \in Ord \/ <<l, k>> \in Ord

\* A finite strict order has a first element.
LEMMA OrderHasFirst ==
  ASSUME NEW K, IsFiniteSet(K), NEW Ord, IsStrictOrder(Ord, K), K # {}
  PROVE  \E m \in K : \A k \in K : <<k, m>> \notin Ord
<1>. DEFINE F == {s \in SUBSET K : s # {} => \E m \in s : \A k \in s : <<k, m>> \notin Ord}
<1>1. {} \in F
  OBVIOUS
<1>2. ASSUME NEW s \in SUBSET K, NEW x \in K \ s, s \in F PROVE s \cup {x} \in F
  <2>1. CASE s = {}
    BY <2>1 DEF IsStrictOrder
  <2>2. CASE s # {}
    <3>1. PICK m \in s : \A k \in s : <<k, m>> \notin Ord
      BY <1>2, <2>2
    <3>2. CASE <<x, m>> \in Ord
      <4>1. \A k \in s \cup {x} : <<k, x>> \notin Ord
        BY <3>1, <3>2 DEF IsStrictOrder
      <4>. QED  BY <4>1
    <3>3. CASE <<x, m>> \notin Ord
      BY <3>1, <3>3
    <3>. QED  BY <3>2, <3>3
  <2>. QED  BY <2>1, <2>2
<1>3. K \in F
  <2>. HIDE DEF F
  <2>. QED  BY <1>1, <1>2, FiniteInduction
<1>. QED  BY <1>3

\* Those of a rank below n are n.
LEMMA RanksAreTaken ==
  ASSUME NEW K, IsFiniteSet(K), NEW Ord, IsStrictOrder(Ord, K),
         NEW rank, \A k \in K : rank[k] = Cardinality({l \in K : <<l, k>> \in Ord}),
         NEW n \in Nat, n <= Cardinality(K)
  PROVE  Cardinality({k \in K : rank[k] < n}) = n
<1>. DEFINE Low(j) == {k \in K : rank[k] < j}
            Before(k) == {l \in K : <<l, k>> \in Ord}
            T == {j \in Nat : j <= Cardinality(K) => Cardinality(Low(j)) = j}
<1>1. \A s \in SUBSET K : IsFiniteSet(s) /\ Cardinality(s) \in Nat
  BY FS_Subset, FS_CardinalityType
<1>2. \A k \in K : rank[k] \in Nat /\ rank[k] = Cardinality(Before(k))
  BY <1>1
<1>6. \A k \in K : rank[k] \in Nat
  BY <1>2
<1>3. 0 \in T
  <2>1. Low(0) = {}
    BY ONLY <1>6
  <2>. QED  BY <2>1, FS_EmptySet
<1>4. ASSUME NEW j \in Nat, j \in T PROVE j + 1 \in T
  <2>. SUFFICES ASSUME j + 1 <= Cardinality(K) PROVE Cardinality(Low(j + 1)) = j + 1
    OBVIOUS
  <2>1. Cardinality(K) \in Nat /\ Cardinality(Low(j)) = j
    BY <1>1, <1>4
  <2>2. PICK low, high : low = Low(j) /\ high = K \ low
    OBVIOUS
  <2>3. high # {} /\ low \subseteq K /\ high \subseteq K
    BY <2>1, <2>2
  <2>4. IsFiniteSet(low) /\ IsFiniteSet(high)
    BY <1>1, <2>3
  <2>5. IsStrictOrder(Ord, high)
    BY <2>3 DEF IsStrictOrder
  <2>6. PICK m \in high : \A k \in high : <<k, m>> \notin Ord
    BY <2>3, <2>4, <2>5, OrderHasFirst
  <2>7. m \in K /\ Before(m) \subseteq low
    BY <2>2, <2>3, <2>6
  <2>8. rank[m] <= j
    <3>1. Cardinality(Before(m)) <= Cardinality(low)
      BY <2>4, <2>7, FS_Subset
    <3>. QED  BY <1>2, <2>1, <2>2, <2>7, <3>1
  <2>9. rank[m] \in Nat /\ rank[m] >= j
    BY ONLY <1>6, <2>2, <2>7, m \in high, j \in Nat
  <2>10. rank[m] = j
    BY <2>8, <2>9
  <2>11. ASSUME NEW k \in K, k # m, rank[k] = j PROVE FALSE
    <3>1. k \in high
      BY <2>2, <2>11
    <3>2. <<m, k>> \in Ord
      BY <2>5, <2>6, <2>11, <3>1 DEF IsStrictOrder
    <3>3. Before(m) \cup {m} \subseteq Before(k) /\ m \notin Before(m)
      BY <2>7, <3>2 DEF IsStrictOrder
    <3>4. PICK b, c : b = Before(m) /\ c = Before(k)
      OBVIOUS
    <3>5. IsFiniteSet(b) /\ IsFiniteSet(c) /\ Cardinality(b) = j /\ Cardinality(c) = j
      BY <1>1, <1>2, <2>7, <2>10, <2>11, <3>4
    <3>6. Cardinality(b \cup {m}) = Cardinality(b) + 1
      BY <3>3, <3>4, <3>5, FS_AddElement
    <3>7. Cardinality(b \cup {m}) <= Cardinality(c)
      BY <3>3, <3>4, <3>5, FS_Subset
    <3>. QED  BY <3>5, <3>6, <3>7
  <2>12. Low(j + 1) = low \cup {m} /\ m \notin low
    <3>1. \A k \in K : rank[k] < j + 1 <=> rank[k] < j \/ rank[k] = j
      BY ONLY <1>6, j \in Nat
    <3>. QED  BY <2>2, <2>6, <2>7, <2>10, <2>11, <3>1
  <2>13. Cardinality(low \cup {m}) = Cardinality(low) + 1
    BY <2>4, <2>12, FS_AddElement
  <2>. QED  BY <2>1, <2>2, <2>12, <2>13
<1>5. Nat \subseteq T
  <2>. HIDE DEF T
  <2>. QED  BY <1>3, <1>4, NatInductionOnSet
<1>. QED  BY <1>5

-----------------------------------------------------------------------------
(***************************************************************************)
(* Arithmetic of division.                                                 *)
(***************************************************************************)

\* What multiples of one number tell of their factors.
LEMMA FactorsCancel ==
  ASSUME NEW a \in Nat \ {0}, NEW x \in Int, NEW y \in Int, a * x <= a * y
  PROVE  x <= y
<1>. SUFFICES ASSUME x > y PROVE FALSE
  OBVIOUS
<1>1. PICK d \in Nat : d = x - y - 1
  OBVIOUS
<1>2. a * x = a * y + a * d + a
  BY <1>1
<1>3. a * d \in Nat /\ a * y \in Int
  BY <1>1
<1>. QED  BY <1>2, <1>3

LEMMA FloorsGrow ==
  ASSUME NEW b \in Nat \ {0}, NEW q \in Int, NEW p \in Int, NEW r \in 0..(b-1), NEW s \in 0..(b-1),
         b * q + r >= b * p + s
  PROVE  q >= p
<1>. SUFFICES ASSUME p > q PROVE FALSE
  OBVIOUS
<1>1. PICK d \in Nat : d = p - q - 1
  OBVIOUS
<1>2. b * p = b * q + b * d + b
  BY <1>1
<1>3. b * d \in Nat /\ b * q \in Int
  BY <1>1
<1>. QED  BY <1>2, <1>3

\* Quotient and remainder.
LEMMA Division ==
  ASSUME NEW a \in Nat, NEW b \in Nat \ {0}
  PROVE  /\ a \div b \in Nat /\ a % b \in 0..(b - 1)
         /\ a = b * (a \div b) + (a % b)
<1>1. a \div b \in Int /\ a % b \in 0..(b - 1)
  OBVIOUS
<1>2. a = b * (a \div b) + (a % b)
  OBVIOUS
<1>3. a \div b >= 0
  <2>1. PICK q \in Int, r \in 0..(b - 1) : q = a \div b /\ r = a % b
    BY <1>1
  <2>2. b * q + r >= b * 0 + 0
    BY <1>2, <2>1
  <2>. QED  BY <2>1, <2>2, FloorsGrow
<1>. QED  BY <1>1, <1>2, <1>3

-----------------------------------------------------------------------------
(***************************************************************************)
(* The largest remainder method of RoundingEngine, for all totals and weights.*)
(***************************************************************************)

\* What there is to know of a largest remainder split of t minor units over
\* weights w: nobody gets less than nothing, the parts sum up to t, each is
\* less than a unit off its proportion, and the larger weight gets no less.
IsFairShareOut(part, t, w) ==
  /\ part = [k \in DOMAIN w |-> part[k]] /\ \A k \in DOMAIN w : part[k] \in Nat
  /\ SumFunction(part) = t
  /\ \A k \in DOMAIN w : Distance(part[k] * SumFunction(w), t * w[k]) < SumFunction(w)
  /\ \A k, l \in DOMAIN w : w[k] > w[l] => part[k] >= part[l]

\* The state of the algorithm before the units left over are handed out.
Floors(t, w) == [k \in DOMAIN w |-> (t * w[k]) \div SumFunction(w)]
Rems(t, w) == [k \in DOMAIN w |-> (t * w[k]) % SumFunction(w)]
Left(t, w) == t - SumFunction(Floors(t, w))

\* The remainders add up to the units left over, fewer than there are weights.
LEMMA RemaindersAreLeft ==
  ASSUME NEW K, IsFiniteSet(K), NEW t \in Nat, NEW w \in [K -> Nat], NEW p \in K, w[p] > 0
  PROVE  /\ SumFunction(w) \in Nat \ {0}
         /\ Left(t, w) \in Nat /\ Left(t, w) <= Cardinality(K)
         /\ \A k \in K : /\ Floors(t, w)[k] \in Nat
                         /\ Rems(t, w)[k] \in 0..(SumFunction(w) - 1)
                         /\ t * w[k] = SumFunction(w) * Floors(t, w)[k] + Rems(t, w)[k]
         /\ SumFunctionOnSet(Rems(t, w), K) = SumFunction(w) * Left(t, w)
         /\ SumFunction(Floors(t, w)) = t - Left(t, w)
<1>0. PICK W, floors, rem, left :
        /\ W = SumFunction(w) /\ floors = Floors(t, w)
        /\ rem = Rems(t, w) /\ left = Left(t, w)
  OBVIOUS
<1>10. /\ floors = [k \in K |-> (t * w[k]) \div W]
       /\ rem = [k \in K |-> (t * w[k]) % W]
       /\ left = t - SumFunction(floors)
  BY <1>0 DEF Floors, Rems, Left
<1>1. W \in Nat \ {0} /\ W = SumFunctionOnSet(w, K)
  BY <1>0, SumIsPositive DEF SumFunction
<1>2. ASSUME NEW k \in K
      PROVE  /\ floors[k] \in Nat /\ rem[k] \in 0..(W - 1)
             /\ t * w[k] = W * floors[k] + rem[k]
  <2>1. PICK a \in Nat : a = t * w[k]
    OBVIOUS
  <2>2. floors[k] = a \div W /\ rem[k] = a % W
    BY <1>10, <2>1
  <2>3. /\ a \div W \in Nat /\ a % W \in 0..(W - 1)
        /\ a = W * (a \div W) + (a % W)
    BY ONLY <1>1, <2>1, Division
  <2>. QED  BY ONLY <2>1, <2>2, <2>3
<1>3. PICK F, R : F = SumFunctionOnSet(floors, K) /\ R = SumFunctionOnSet(rem, K)
  OBVIOUS
<1>4. F \in Int /\ R \in Nat /\ SumFunction(floors) = F
  <2>1. \A k \in K : floors[k] \in Int /\ rem[k] \in Nat
    BY <1>1, <1>2
  <2>2. DOMAIN floors = K
    BY <1>10
  <2>. QED  BY <1>3, <2>1, <2>2, SumIsInt, SumIsNat DEF SumFunction
<1>5. t * W = W * F + R
  <2>1. PICK prod, wf : /\ prod = [k \in K |-> t * w[k]]
                        /\ wf = [k \in K |-> W * floors[k]]
    OBVIOUS
  <2>2. SumFunctionOnSet(prod, K) = t * W
    <3>1. \A k \in K : w[k] \in Int /\ prod[k] = t * w[k]
      BY <2>1
    <3>2. SumFunctionOnSet(prod, K) = t * SumFunctionOnSet(w, K)
      BY ONLY t \in Nat, IsFiniteSet(K), <3>1, SumOfMultiples
    <3>. QED  BY <1>1, <3>2
  <2>3. SumFunctionOnSet(wf, K) = W * F
    <3>1. \A k \in K : floors[k] \in Int /\ wf[k] = W * floors[k]
      BY <1>2, <2>1
    <3>2. SumFunctionOnSet(wf, K) = W * SumFunctionOnSet(floors, K)
      BY ONLY <1>1, IsFiniteSet(K), <3>1, SumOfMultiples
    <3>. QED  BY <1>3, <3>2
  <2>4. SumFunctionOnSet(prod, K) = SumFunctionOnSet(wf, K) + SumFunctionOnSet(rem, K)
    <3>1. ASSUME NEW k \in K
          PROVE  wf[k] \in Int /\ rem[k] \in Int /\ prod[k] = wf[k] + rem[k]
      <4>1. wf[k] = W * floors[k] /\ prod[k] = t * w[k]
        BY <2>1
      <4>2. floors[k] \in Nat /\ rem[k] \in 0..(W - 1) /\ t * w[k] = W * floors[k] + rem[k]
        BY <1>2
      <4>3. W * floors[k] \in Int
        BY <1>1, <4>2
      <4>. QED  BY ONLY <1>1, <4>1, <4>2, <4>3
    <3>. QED  BY ONLY IsFiniteSet(K), <3>1, SumOfSums
  <2>. QED  BY <1>3, <2>2, <2>3, <2>4
<1>6. left \in Int /\ left = t - F
  BY <1>4, <1>10
<1>7. R = W * left
  BY <1>1, <1>4, <1>5, <1>6
<1>8. left >= 0
  <2>1. W * 0 <= W * left
    BY <1>1, <1>4, <1>6, <1>7
  <2>. QED  BY <1>1, <1>6, <2>1, FactorsCancel
<1>9. left <= Cardinality(K)
  <2>1. PICK ones, full : ones = [k \in K |-> 1] /\ full = [k \in K |-> W]
    OBVIOUS
  <2>2. SumFunctionOnSet(ones, K) = Cardinality(K)
    <3>1. \A k \in K : ones[k] = IF k \in K THEN 1 ELSE 0
      BY <2>1
    <3>. QED  BY ONLY IsFiniteSet(K), <3>1, SumCounts
  <2>3. SumFunctionOnSet(full, K) = W * Cardinality(K)
    <3>0. W * 1 = W
      BY <1>1
    <3>1. \A k \in K : ones[k] \in Int /\ full[k] = W * ones[k]
      BY <2>1, <3>0
    <3>. QED  BY ONLY <1>1, <2>2, IsFiniteSet(K), <3>1, SumOfMultiples
  <2>4. R <= SumFunctionOnSet(full, K)
    <3>1. \A k \in K : rem[k] \in Int /\ full[k] \in Int /\ rem[k] <= full[k]
      BY <1>1, <1>2, <2>1
    <3>. QED  BY ONLY <1>3, IsFiniteSet(K), <3>1, SumIsMonotonic
  <2>5. Cardinality(K) \in Nat
    BY FS_CardinalityType
  <2>. QED  BY <1>1, <1>6, <1>7, <2>3, <2>4, <2>5, FactorsCancel
<1>11. SumFunctionOnSet(rem, K) = W * left /\ SumFunction(floors) = t - left
  BY <1>3, <1>4, <1>6, <1>7
<1>12. left \in Nat
  BY <1>6, <1>8
<1>. QED  BY ONLY <1>0, <1>1, <1>2, <1>9, <1>11, <1>12

\* Nobody gets a unit left over whose remainder is zero.
LEMMA OnlyRemaindersAreRounded ==
  ASSUME NEW K, IsFiniteSet(K), NEW Ord, NEW rank,
         \A k \in K : rank[k] = Cardinality({l \in K : <<l, k>> \in Ord}),
         NEW W \in Nat \ {0}, NEW left \in Nat,
         NEW rem, \A k \in K : rem[k] \in 0..(W - 1), SumFunctionOnSet(rem, K) = W * left,
         NEW k \in K, \A l \in K : <<l, k>> \in Ord \/ rem[l] <= rem[k],
         rank[k] < left
  PROVE  rem[k] > 0
<1>. SUFFICES ASSUME rem[k] = 0 PROVE FALSE
  OBVIOUS
<1>1. PICK B : B = {l \in K : <<l, k>> \in Ord}
  OBVIOUS
<1>2. IsFiniteSet(B) /\ Cardinality(B) \in Nat /\ rank[k] = Cardinality(B) /\ B \in SUBSET K
  BY <1>1, FS_Subset, FS_CardinalityType
<1>3. PICK one, full : /\ one = [l \in K |-> IF l \in B THEN 1 ELSE 0]
                       /\ full = [l \in K |-> IF l \in B THEN W ELSE 0]
  OBVIOUS
<1>4. SumFunctionOnSet(one, K) = Cardinality(B)
  <2>1. \A l \in K : one[l] = IF l \in B THEN 1 ELSE 0
    BY <1>3
  <2>. QED  BY ONLY IsFiniteSet(K), <1>2, <2>1, SumCounts
<1>5. SumFunctionOnSet(full, K) = W * Cardinality(B)
  <2>1. \A l \in K : one[l] \in Int /\ full[l] = W * one[l]
    BY <1>3
  <2>. QED  BY ONLY W \in Nat \ {0}, <1>4, IsFiniteSet(K), <2>1, SumOfMultiples
<1>6. SumFunctionOnSet(rem, K) <= SumFunctionOnSet(full, K)
  <2>1. \A l \in K : rem[l] \in Int /\ full[l] \in Int /\ rem[l] <= full[l]
    BY <1>1, <1>3
  <2>. QED  BY ONLY IsFiniteSet(K), <2>1, SumIsMonotonic
<1>7. left <= Cardinality(B)
  BY <1>2, <1>5, <1>6, FactorsCancel
<1>. QED  BY <1>2, <1>7

\* distributeMinorByWeights hands out all units, nobody is a whole
\* unit off the exact proportion, and a larger weight never gets less, for
\* every total and all weights that are not all zero.
THEOREM DistributeIsFair ==
  ASSUME NEW K, IsFiniteSet(K), \A k \in K : k \in Int, NEW t \in Nat, NEW w \in [K -> Nat],
         NEW p \in K, w[p] > 0
  PROVE  IsFairShareOut(Distribute(t, w), t, w)
<1>1. PICK W, floors, rem, left :
        /\ W = SumFunction(w) /\ floors = Floors(t, w)
        /\ rem = Rems(t, w) /\ left = Left(t, w)
  OBVIOUS
<1>14. /\ floors = [k \in K |-> (t * w[k]) \div W]
       /\ rem = [k \in K |-> (t * w[k]) % W]
       /\ left = t - SumFunction(floors)
  BY <1>1 DEF Floors, Rems, Left
<1>2. PICK Ord, rank : /\ Ord = {o \in K \X K : Ahead(rem, o[1], o[2])}
                       /\ rank = [k \in K |-> Cardinality({l \in K : <<l, k>> \in Ord})]
  OBVIOUS
<1>3. PICK bonus, part : /\ bonus = [k \in K |-> IF rank[k] < left THEN 1 ELSE 0]
                         /\ part = [k \in K |-> floors[k] + bonus[k]]
  OBVIOUS
<1>4. part = Distribute(t, w)
  <2>1. \A k \in K : {l \in K : <<l, k>> \in Ord} = {l \in K : Ahead(rem, l, k)}
    BY <1>2
  <2>2. \A k \in K : rank[k] = Cardinality({l \in K : Ahead(rem, l, k)})
    BY <1>2, <2>1
  <2>3. DOMAIN w = K
    OBVIOUS
  <2>4. Distribute(t, w) =
          [k \in K |-> floors[k] +
             (IF Cardinality({l \in K : Ahead(rem, l, k)}) < left THEN 1 ELSE 0)]
    BY <1>1, <1>14, <2>3 DEF Distribute
  <2>5. part = [k \in K |-> floors[k] + (IF rank[k] < left THEN 1 ELSE 0)]
    BY <1>3
  <2>. QED  BY <2>2, <2>4, <2>5
<1>5. /\ W \in Nat \ {0} /\ left \in Nat /\ left <= Cardinality(K)
      /\ \A k \in K : /\ floors[k] \in Nat /\ rem[k] \in 0..(W - 1)
                      /\ t * w[k] = W * floors[k] + rem[k]
      /\ SumFunctionOnSet(rem, K) = W * left
      /\ SumFunction(floors) = t - left
  <2>1. /\ SumFunction(w) \in Nat \ {0}
        /\ Left(t, w) \in Nat /\ Left(t, w) <= Cardinality(K)
        /\ \A k \in K : /\ Floors(t, w)[k] \in Nat
                        /\ Rems(t, w)[k] \in 0..(SumFunction(w) - 1)
                        /\ t * w[k] = SumFunction(w) * Floors(t, w)[k] + Rems(t, w)[k]
        /\ SumFunctionOnSet(Rems(t, w), K) = SumFunction(w) * Left(t, w)
        /\ SumFunction(Floors(t, w)) = t - Left(t, w)
    BY ONLY IsFiniteSet(K), t \in Nat, w \in [K -> Nat], p \in K, w[p] > 0,
            RemaindersAreLeft
  <2>. QED  BY ONLY <1>1, <2>1
<1>6. /\ IsStrictOrder(Ord, K)
      /\ \A k, l \in K : <<l, k>> \in Ord <=> rem[l] > rem[k] \/ (rem[l] = rem[k] /\ l < k)
  <2>1. \A k, l \in K : <<l, k>> \in Ord <=> rem[l] > rem[k] \/ (rem[l] = rem[k] /\ l < k)
    BY <1>2 DEF Ahead
  <2>2. \A k \in K : rem[k] \in Int /\ k \in Int
    BY <1>5
  <2>. QED  BY ONLY <2>1, <2>2 DEF IsStrictOrder
<1>7. \A k \in K : rank[k] = Cardinality({l \in K : <<l, k>> \in Ord})
  BY <1>2
<1>8. \A k \in K : rank[k] \in Nat
  <2>. SUFFICES ASSUME NEW k \in K PROVE rank[k] \in Nat
    OBVIOUS
  <2>1. PICK B : B = {l \in K : <<l, k>> \in Ord}
    OBVIOUS
  <2>2. IsFiniteSet(B)
    BY <2>1, FS_Subset
  <2>. QED  BY <1>7, <2>1, <2>2, FS_CardinalityType
<1>9. \A k \in K : bonus[k] \in {0, 1} /\ part[k] = floors[k] + bonus[k] /\ part[k] \in Nat
  BY <1>3, <1>5
<1>10. SumFunction(part) = t
  <2>1. SumFunctionOnSet(bonus, K) = left
    <3>1. PICK A : A = {k \in K : rank[k] < left}
      OBVIOUS
    <3>2. Cardinality(A) = left
      <4>1. \A n \in Nat : n <= Cardinality(K) =>
              Cardinality({k \in K : rank[k] < n}) = n
        <5>. SUFFICES ASSUME NEW n \in Nat, n <= Cardinality(K)
                      PROVE  Cardinality({k \in K : rank[k] < n}) = n
          OBVIOUS
        <5>1. IsStrictOrder(Ord, K)
          BY <1>6
        <5>. QED  BY ONLY <1>7, <5>1, IsFiniteSet(K), n \in Nat, n <= Cardinality(K),
                          RanksAreTaken
      <4>. QED  BY <1>5, <3>1, <4>1
    <3>3. A \in SUBSET K /\ \A k \in K : bonus[k] = IF k \in A THEN 1 ELSE 0
      BY <1>3, <3>1
    <3>. QED  BY ONLY IsFiniteSet(K), <3>2, <3>3, SumCounts
  <2>2. SumFunctionOnSet(part, K) = SumFunctionOnSet(floors, K) + SumFunctionOnSet(bonus, K)
    <3>1. \A k \in K : floors[k] \in Int /\ bonus[k] \in Int /\ part[k] = floors[k] + bonus[k]
      BY <1>5, <1>9
    <3>. QED  BY ONLY IsFiniteSet(K), <3>1, SumOfSums
  <2>3. DOMAIN part = K /\ DOMAIN floors = K
    BY <1>3, <1>14
  <2>. QED  BY <1>5, <2>1, <2>2, <2>3 DEF SumFunction
<1>11. ASSUME NEW k \in K PROVE Distance(part[k] * W, t * w[k]) < W
  <2>1. PICK f, r : f = floors[k] /\ r = rem[k]
    OBVIOUS
  <2>2. f \in Nat /\ r \in 0..(W - 1) /\ t * w[k] = W * f + r
    BY <1>5, <2>1
  <2>3. W * f \in Int
    BY <1>5, <2>2
  <2>4. CASE bonus[k] = 0
    <3>1. part[k] * W = W * f
      BY <1>5, <1>9, <2>1, <2>2, <2>4
    <3>. QED  BY <1>5, <2>2, <2>3, <3>1 DEF Distance
  <2>5. CASE bonus[k] = 1
    <3>1. rank[k] < left
      BY <1>3, <2>5
    <3>2. \A l \in K : <<l, k>> \in Ord \/ rem[l] <= rem[k]
      BY <1>5, <1>6
    <3>3. r > 0
      BY <1>5, <1>7, <2>1, <3>1, <3>2, OnlyRemaindersAreRounded
    <3>4. part[k] * W = W * f + W
      <4>1. part[k] = f + 1
        BY <1>9, <2>1, <2>5
      <4>. QED  BY ONLY <1>5, <2>2, <4>1
    <3>. QED  BY <1>5, <2>2, <2>3, <3>3, <3>4 DEF Distance
  <2>. QED  BY <1>9, <2>4, <2>5
<1>12. ASSUME NEW k \in K, NEW l \in K, w[k] > w[l] PROVE part[k] >= part[l]
  <2>1. t * w[k] >= t * w[l]
    <3>0. w[k] \in Nat /\ w[l] \in Nat
      OBVIOUS
    <3>1. PICK d \in Nat : w[k] = w[l] + d
      BY ONLY <1>12, <3>0, w[k] - w[l] \in Nat
    <3>2. t * w[k] = t * w[l] + t * d /\ t * d \in Nat /\ t * w[l] \in Int
      BY <3>1
    <3>. QED  BY <3>2
  <2>2. floors[k] >= floors[l]
    <3>1. PICK q, o \in Nat, c, d \in 0..(W - 1) :
            q = floors[k] /\ o = floors[l] /\ c = rem[k] /\ d = rem[l]
      BY <1>5
    <3>2. W * q + c >= W * o + d
      BY <1>5, <2>1, <3>1
    <3>3. q >= o
      BY ONLY <1>5, <3>2, q \in Nat, o \in Nat, c \in 0..(W - 1), d \in 0..(W - 1),
              FloorsGrow
    <3>. QED  BY <3>1, <3>3
  <2>3. CASE floors[k] > floors[l]
    BY <1>5, <1>9, <2>3
  <2>4. CASE floors[k] = floors[l]
    <3>1. rem[k] - rem[l] = t * w[k] - t * w[l]
      BY <1>5, <2>4
    <3>2. CASE rem[k] > rem[l]
      <4>1. {m \in K : <<m, k>> \in Ord} \subseteq {m \in K : <<m, l>> \in Ord}
        BY <1>6, <3>2 DEF IsStrictOrder
      <4>2. rank[k] <= rank[l]
        <5>1. PICK A, B : A = {m \in K : <<m, k>> \in Ord} /\ B = {m \in K : <<m, l>> \in Ord}
          OBVIOUS
        <5>2. IsFiniteSet(B) /\ A \in SUBSET B
          BY <4>1, <5>1, FS_Subset
        <5>3. Cardinality(A) <= Cardinality(B)
          BY <5>2, FS_Subset
        <5>4. rank[k] = Cardinality(A) /\ rank[l] = Cardinality(B)
          BY <1>7, <5>1
        <5>. QED  BY <5>3, <5>4
      <4>3. bonus[k] >= bonus[l]
        BY <1>3, <1>5, <1>8, <4>2
      <4>. QED  BY <1>5, <1>9, <2>4, <4>3
    <3>3. CASE rem[k] <= rem[l]
      <4>1. t = 0
        <5>0. w[k] \in Nat /\ w[l] \in Nat
          OBVIOUS
        <5>1. PICK d \in Nat : w[k] = w[l] + d + 1
          BY ONLY <1>12, <5>0, w[k] - w[l] - 1 \in Nat
        <5>2. t * w[k] = t * w[l] + t * d + t /\ t * d \in Nat /\ t * w[l] \in Int
          BY <5>1
        <5>. QED  BY <1>5, <3>1, <3>3, <5>2
      <4>2. \A m \in K : floors[m] = 0
        <5>. SUFFICES ASSUME NEW m \in K PROVE floors[m] = 0
          OBVIOUS
        <5>1. t * w[m] = 0
          BY <4>1
        <5>2. W * floors[m] <= W * 0
          BY <1>5, <5>1
        <5>3. PICK q \in Nat : q = floors[m]
          BY <1>5
        <5>4. W * q <= W * 0
          BY <5>2, <5>3
        <5>5. q <= 0
          BY ONLY <1>5, <5>4, q \in Nat, FactorsCancel
        <5>. QED  BY <5>3, <5>5
      <4>3. SumFunction(floors) = 0
        BY <1>14, <4>2, SumOfZeros DEF SumFunction
      <4>4. left = 0
        BY <1>5, <4>1, <4>3
      <4>5. bonus[k] = 0 /\ bonus[l] = 0
        BY <1>3, <1>8, <4>4
      <4>6. part[k] = floors[k] + bonus[k] /\ part[l] = floors[l] + bonus[l]
        BY <1>9
      <4>7. floors[k] \in Nat
        BY <1>5
      <4>. QED  BY ONLY <2>4, <4>5, <4>6, <4>7
    <3>. QED  BY <1>5, <3>2, <3>3
  <2>5. floors[k] \in Nat /\ floors[l] \in Nat
    BY <1>5
  <2>. QED  BY ONLY <2>2, <2>3, <2>4, <2>5
<1>13. DOMAIN w = K /\ part = [k \in K |-> part[k]]
  BY <1>3
<1>. QED  BY <1>1, <1>4, <1>9, <1>10, <1>11, <1>12, <1>13 DEF IsFairShareOut

-----------------------------------------------------------------------------
(***************************************************************************)
(* The bills: every split type hands out its total as the ledger counts on.*)
(***************************************************************************)

\* The order in which a request names its participants, each once.
IsOrder(who) ==
  /\ \E n \in Nat \ {0} : who \in [1..n -> Users]
  /\ \A k, l \in DOMAIN who : who[k] = who[l] => k = l

At(who, u) == CHOOSE k \in DOMAIN who : who[k] = u

\* The lists of participants that requests have.
LEMMA OrdersAreOrders ==
  ASSUME NEW who \in Orders
  PROVE  IsOrder(who)
<1>1. PICK S \in SUBSET Users : /\ Cardinality(S) \in 1..MaxParties
                                /\ who \in SetToSeqs(S)
  BY DEF Orders
<1>2. PICK n \in Nat \ {0} : n = Cardinality(S)
  BY <1>1
<1>3. who \in [1..n -> S] /\ \A k, l \in 1..n : k # l => who[k] # who[l]
  BY <1>1, <1>2 DEF SetToSeqs
<1>4. who \in [1..n -> Users] /\ DOMAIN who = 1..n
  BY <1>3
<1>. QED  BY <1>3, <1>4 DEF IsOrder

\* Places and users of a list correspond.
LEMMA PlacesInOrder ==
  ASSUME NEW who, IsOrder(who)
  PROVE  /\ IsFiniteSet(DOMAIN who) /\ \A k \in DOMAIN who : k \in Int
         /\ 1 \in DOMAIN who
         /\ \A u \in Range(who) : At(who, u) \in DOMAIN who /\ who[At(who, u)] = u
         /\ \A k \in DOMAIN who : who[k] \in Range(who) /\ At(who, who[k]) = k
         /\ IsFiniteSet(Range(who)) /\ Range(who) \in SUBSET Users /\ Range(who) # {}
<1>1. PICK n \in Nat \ {0} : who \in [1..n -> Users]
  BY DEF IsOrder
<1>2. DOMAIN who = 1..n /\ \A k \in DOMAIN who : who[k] \in Users
  BY <1>1
<1>3. IsFiniteSet(1..n)
  BY FS_Interval
<1>4. Range(who) \in SUBSET Users /\ who[1] \in Range(who)
  <2>1. 1 \in DOMAIN who
    BY <1>2
  <2>. QED  BY ONLY <1>2, <2>1 DEF Range
<1>5. IsFiniteSet(Range(who))
  BY <1>4, BalanceAssumption, FS_Subset
<1>6. \A u \in Range(who) : At(who, u) \in DOMAIN who /\ who[At(who, u)] = u
  BY DEF Range, At
<1>7. \A k \in DOMAIN who : who[k] \in Range(who)
  BY DEF Range
<1>8. \A k \in DOMAIN who : At(who, who[k]) = k
  BY <1>6, <1>7 DEF IsOrder
<1>. QED  BY <1>2, <1>3, <1>4, <1>5, <1>6, <1>7, <1>8

\* What is given by place in the list, given by user.
LEMMA ByPlaceOrUser ==
  ASSUME NEW who, IsOrder(who), NEW f, NEW g,
         \A k \in DOMAIN who : f[k] \in Int,
         \A u \in Range(who) : g[u] = f[At(who, u)]
  PROVE  SumFunctionOnSet(g, Range(who)) = SumFunctionOnSet(f, DOMAIN who)
<1>1. PICK S, R : S = DOMAIN who /\ R = Range(who)
  OBVIOUS
<1>2. IsFiniteSet(S) /\ IsFiniteSet(R)
  BY <1>1, PlacesInOrder
<1>3. \A x \in S : who[x] \in R /\ g[who[x]] = f[x] /\ f[x] \in Int
  BY <1>1, PlacesInOrder
<1>4. \A x, y \in S : who[x] = who[y] => x = y
  BY <1>1 DEF IsOrder
<1>5. \A z \in R : \E x \in S : who[x] = z
  BY <1>1, PlacesInOrder
<1>6. SumFunctionOnSet(g, R) = SumFunctionOnSet(f, S)
  BY ONLY <1>2, <1>3, <1>4, <1>5, SumRenamed
<1>. QED  BY <1>1, <1>6

\* Amounts in minor units, and weights in units of one.
LEMMA MinorUnits ==
  ASSUME NEW x \in Nat
  PROVE  /\ Minor(x) \in Nat
         /\ Whole(x) => Sub * Minor(x) = x
  BY DEF Minor, Whole, Sub

LEMMA MinorsOf ==
  ASSUME NEW x \in Nat
  PROVE  Minor(Sub * x) = x /\ (Sub * x) \div Sub = x /\ Minor(One) = 100
  BY DEF Minor, Sub, One

\* A split by weights hands out all minor units of the total, fairly.
LEMMA MoneyIsSharedOut ==
  ASSUME NEW who, IsOrder(who), NEW total \in Nat, NEW weights \in [DOMAIN who -> Nat],
         ~Weightless(who, weights)
  PROVE  LET x == DistributeMoney(total, who, weights)
             v == [u \in Range(who) |-> Minor(weights[At(who, u)])]
         IN  /\ x \in [Range(who) -> Nat]
             /\ SumFunction(x) = Sub * Minor(total)
             /\ \A u \in Range(who) :
                  /\ (x[u] \div Sub) \in Nat /\ x[u] = Sub * (x[u] \div Sub)
                  /\ Distance((x[u] \div Sub) * SumFunction(v), Minor(total) * v[u])
                       < SumFunction(v)
             /\ \A u, y \in Range(who) : v[u] > v[y] => x[u] >= x[y]
             /\ SumFunction(v) \in Nat /\ v \in [Range(who) -> Nat]
<1>1. PICK K, R, w, t, part, x, v :
        /\ K = DOMAIN who /\ R = Range(who)
        /\ w = [k \in K |-> Minor(weights[k])]
        /\ t = Minor(total) /\ part = Distribute(t, w)
        /\ x = DistributeMoney(total, who, weights)
        /\ v = [u \in R |-> Minor(weights[At(who, u)])]
  OBVIOUS
<1>2. /\ IsFiniteSet(K) /\ \A k \in K : k \in Int
      /\ \A u \in R : At(who, u) \in K /\ who[At(who, u)] = u
      /\ IsFiniteSet(R)
  BY <1>1, PlacesInOrder
<1>3. t \in Nat /\ \A k \in K : w[k] \in Nat
  BY <1>1, MinorUnits
<1>4. w \in [K -> Nat]
  BY <1>1, <1>3
<1>5. PICK p \in K : w[p] > 0
  <2>1. PICK k \in K : Minor(weights[k]) # 0
    BY <1>1 DEF Weightless
  <2>2. w[k] \in Nat /\ w[k] # 0
    BY <1>1, <1>3, <2>1
  <2>. QED  BY <2>2
<1>6. IsFairShareOut(part, t, w)
  <2>1. IsFairShareOut(Distribute(t, w), t, w)
    BY ONLY <1>2, <1>3, <1>4, <1>5, DistributeIsFair
  <2>. QED  BY <1>1, <2>1
<1>7. DOMAIN w = K
  BY <1>1
<1>8. DOMAIN part = K /\ \A k \in K : part[k] \in Nat
  BY <1>6, <1>7 DEF IsFairShareOut
<1>9. x = [u \in R |-> Sub * part[At(who, u)]]
  <2>1. DOMAIN weights = K
    BY <1>1
  <2>. QED  BY <1>1, <2>1 DEF DistributeMoney, At
<1>10. \A u \in R : /\ x[u] = Sub * part[At(who, u)] /\ part[At(who, u)] \in Nat
                    /\ x[u] \in Nat /\ x[u] \div Sub = part[At(who, u)]
  <2>. SUFFICES ASSUME NEW u \in R
                PROVE  /\ x[u] = Sub * part[At(who, u)] /\ part[At(who, u)] \in Nat
                       /\ x[u] \in Nat /\ x[u] \div Sub = part[At(who, u)]
    OBVIOUS
  <2>1. PICK q \in Nat : q = part[At(who, u)]
    BY <1>2, <1>8
  <2>2. x[u] = Sub * q
    BY <1>9, <2>1
  <2>. QED  BY <2>1, <2>2 DEF Sub
<1>11. SumFunction(x) = Sub * t
  <2>1. PICK y : y = [u \in R |-> part[At(who, u)]]
    OBVIOUS
  <2>2. SumFunctionOnSet(x, R) = Sub * SumFunctionOnSet(y, R)
    <3>1. \A u \in R : y[u] \in Int /\ x[u] = Sub * y[u]
      BY <1>10, <2>1
    <3>2. Sub \in Int
      BY DEF Sub
    <3>. QED  BY ONLY <1>2, <3>1, <3>2, SumOfMultiples
  <2>3. SumFunctionOnSet(y, R) = SumFunctionOnSet(part, K)
    BY <1>1, <1>8, <2>1, ByPlaceOrUser
  <2>4. SumFunctionOnSet(part, K) = t
    BY <1>6, <1>8 DEF IsFairShareOut, SumFunction
  <2>5. DOMAIN x = R
    BY <1>9
  <2>. QED  BY <2>2, <2>3, <2>4, <2>5 DEF SumFunction
<1>12. SumFunction(v) = SumFunction(w) /\ SumFunction(v) \in Nat
  <2>1. \A k \in DOMAIN who : w[k] \in Int
    BY <1>1, <1>3
  <2>2. \A u \in Range(who) : v[u] = w[At(who, u)]
    BY <1>1, <1>2
  <2>3. SumFunctionOnSet(v, R) = SumFunctionOnSet(w, K)
    BY <1>1, <2>1, <2>2, ByPlaceOrUser
  <2>4. SumFunctionOnSet(w, K) \in Nat
    BY <1>2, <1>3, SumIsNat
  <2>5. DOMAIN v = R
    BY <1>1
  <2>. QED  BY <1>7, <2>3, <2>4, <2>5 DEF SumFunction
<1>13. \A u \in R : v[u] = w[At(who, u)] /\ v[u] \in Nat
  BY <1>1, <1>2, <1>3
<1>14. \A u \in R : Distance((x[u] \div Sub) * SumFunction(v), t * v[u]) < SumFunction(v)
  BY <1>2, <1>6, <1>7, <1>10, <1>12, <1>13 DEF IsFairShareOut
<1>15. \A u, y \in R : v[u] > v[y] => x[u] >= x[y]
  <2>. SUFFICES ASSUME NEW u \in R, NEW y \in R, v[u] > v[y] PROVE x[u] >= x[y]
    OBVIOUS
  <2>1. part[At(who, u)] >= part[At(who, y)]
    BY <1>2, <1>6, <1>7, <1>13 DEF IsFairShareOut
  <2>. QED  BY <1>10, <2>1 DEF Sub
<1>16. x \in [R -> Nat] /\ v \in [R -> Nat]
  BY <1>1, <1>9, <1>10, <1>13
<1>17. \A u \in R : x[u] \div Sub \in Nat /\ x[u] = Sub * (x[u] \div Sub)
  BY <1>10
<1>. QED  BY ONLY <1>1, <1>11, <1>12, <1>14, <1>15, <1>16, <1>17

\* What the ledger counts on.
IsSplit(total, owed) ==
  owed = Refused \/ /\ DOMAIN owed \in SUBSET Users /\ owed \in [DOMAIN owed -> Nat]
                    /\ Distance(SumFunction(owed), total) <= Eps

IsFairTo(total, weights, owed) ==
  weights # Refused /\ owed # Refused =>
    \A u \in DOMAIN weights :
      /\ Distance((owed[u] \div Sub) * SumFunction(weights), Minor(total) * weights[u])
           < SumFunction(weights)
      /\ \A v \in DOMAIN weights : weights[u] > weights[v] => owed[u] >= owed[v]

IsGood(b) ==
  /\ b.total \in Nat /\ IsSplit(b.total, b.owed)
  /\ IsFairTo(b.total, b.weights, b.owed)
  /\ b.sound => b.owed # Refused /\ SumFunction(b.owed) = b.total

Posted(total, owed, weights, sound) ==
  [total |-> total, weights |-> weights, owed |-> owed, sound |-> sound]

\* The check of the sum returns the split or refuses it.
LEMMA WrapIs ==
  ASSUME NEW total \in Nat, NEW R \in SUBSET Users, NEW x \in [R -> Nat]
  PROVE  /\ IsSplit(total, Wrap(total, x)) /\ Wrap(total, x) \in {x, Refused}
         /\ SumFunction(x) = total => Wrap(total, x) = x
         /\ R # {} => x # Refused
<1>1. DOMAIN x = R
  OBVIOUS
<1>2. Distance(total, total) = 0 /\ 0 <= Eps
  BY DEF Distance, Eps
<1>3. IsSplit(total, Wrap(total, x))
  BY <1>1 DEF Wrap, IsSplit
<1>4. SumFunction(x) = total => Wrap(total, x) = x
  BY <1>2 DEF Wrap
<1>5. R # {} => x # Refused
  BY <1>1 DEF Refused
<1>. QED  BY <1>3, <1>4, <1>5 DEF Wrap

\* A split by weights is good, and refused only for a total in less than
\* minor units.
LEMMA WeightedIsGood ==
  ASSUME NEW who, IsOrder(who), NEW total \in Nat, NEW weights \in [DOMAIN who -> Nat],
         ~Weightless(who, weights)
  PROVE  LET owed == Wrap(total, DistributeMoney(total, who, weights))
             v == [u \in Range(who) |-> Minor(weights[At(who, u)])]
         IN  /\ IsSplit(total, owed)
             /\ IsFairTo(total, v, owed)
             /\ Whole(total) => owed # Refused /\ SumFunction(owed) = total
<1>1. PICK R, x, v, owed :
        /\ R = Range(who)
        /\ x = DistributeMoney(total, who, weights) /\ owed = Wrap(total, x)
        /\ v = [u \in R |-> Minor(weights[At(who, u)])]
  OBVIOUS
<1>2. /\ x \in [R -> Nat]
      /\ SumFunction(x) = Sub * Minor(total)
      /\ \A u \in R : Distance((x[u] \div Sub) * SumFunction(v), Minor(total) * v[u])
                        < SumFunction(v)
      /\ \A u, y \in R : v[u] > v[y] => x[u] >= x[y]
  BY <1>1, MoneyIsSharedOut
<1>3. R \in SUBSET Users /\ R # {}
  BY <1>1, PlacesInOrder
<1>4. /\ IsSplit(total, owed) /\ owed \in {x, Refused} /\ x # Refused
      /\ SumFunction(x) = total => owed = x
  BY <1>1, <1>2, <1>3, WrapIs
<1>5. IsFairTo(total, v, owed)
  <2>1. DOMAIN v = R
    BY <1>1
  <2>. QED  BY <1>2, <1>4, <2>1 DEF IsFairTo
<1>6. Whole(total) => owed # Refused /\ SumFunction(owed) = total
  BY <1>2, <1>4, MinorUnits
<1>. QED  BY <1>1, <1>4, <1>5, <1>6

\* Each split type, then, gives a good bill.
LEMMA EqualIsGood ==
  ASSUME NEW who, IsOrder(who), NEW total \in Nat
  PROVE  IsGood(Posted(total, Equal(total, who), [u \in Range(who) |-> 1], Whole(total)))
<1>1. PICK R, weights, v, ones, owed :
        /\ R = Range(who) /\ weights = [k \in DOMAIN who |-> One]
        /\ v = [u \in R |-> Minor(weights[At(who, u)])]
        /\ ones = [u \in R |-> 1]
        /\ owed = Wrap(total, DistributeMoney(total, who, weights))
  OBVIOUS
<1>2. weights \in [DOMAIN who -> Nat]
  BY <1>1 DEF One
<1>3. IsFiniteSet(R) /\ R # {} /\ \A u \in R : At(who, u) \in DOMAIN who
  BY <1>1, PlacesInOrder
<1>4. \A u \in R : v[u] = 100 /\ ones[u] = 1
  BY <1>1, <1>3, MinorsOf
<1>5. ~Weightless(who, weights)
  <2>1. PICK u : u \in R
    BY <1>3
  <2>2. At(who, u) \in DOMAIN who /\ Minor(weights[At(who, u)]) = 100
    BY <1>1, <1>3, <1>4, <2>1
  <2>. QED  BY <2>2 DEF Weightless
<1>6. /\ IsSplit(total, owed) /\ IsFairTo(total, v, owed)
      /\ Whole(total) => owed # Refused /\ SumFunction(owed) = total
  BY <1>1, <1>2, <1>5, WeightedIsGood
<1>7. owed = Equal(total, who)
  BY <1>1 DEF Equal, DistributeEqual
<1>8. DOMAIN v = R /\ DOMAIN ones = R
  BY <1>1
<1>9. SumFunction(v) = 100 * SumFunction(ones) /\ SumFunction(ones) \in Nat \ {0}
  <2>1. SumFunctionOnSet(v, R) = 100 * SumFunctionOnSet(ones, R)
    <3>1. \A u \in R : ones[u] \in Int /\ v[u] = 100 * ones[u]
      BY <1>4
    <3>. QED  BY ONLY <1>3, <3>1, 100 \in Int, SumOfMultiples
  <2>2. SumFunctionOnSet(ones, R) \in Nat \ {0}
    BY <1>3, <1>4, SumIsPositive
  <2>. QED  BY <1>8, <2>1, <2>2 DEF SumFunction
<1>10. v # Refused
  BY <1>3, <1>8 DEF Refused
<1>11. IsFairTo(total, ones, owed)
  <2>. SUFFICES ASSUME owed # Refused, NEW u \in R
                PROVE  /\ Distance((owed[u] \div Sub) * SumFunction(ones),
                                   Minor(total) * ones[u]) < SumFunction(ones)
                       /\ \A y \in R : ~(ones[u] > ones[y])
    BY <1>8 DEF IsFairTo
  <2>1. Distance((owed[u] \div Sub) * SumFunction(v), Minor(total) * v[u]) < SumFunction(v)
    BY <1>6, <1>8, <1>10 DEF IsFairTo
  <2>2. PICK n \in Nat \ {0} : n = SumFunction(ones)
    BY <1>9
  <2>3. PICK q \in Nat : q = owed[u] \div Sub
    <3>1. owed[u] \in Nat
      <4>1. DOMAIN owed = R
        BY <1>1, <1>2, <1>5, MoneyIsSharedOut DEF Wrap
      <4>. QED  BY <1>6, <4>1 DEF IsSplit
    <3>. QED  BY <3>1 DEF Sub
  <2>4. PICK t \in Nat : t = Minor(total)
    BY MinorUnits
  <2>5. Distance(q * (100 * n), t * 100) < 100 * n
    BY <1>4, <1>9, <2>1, <2>2, <2>3, <2>4
  <2>6. PICK m \in Nat : m = q * n
    OBVIOUS
  <2>7. q * (100 * n) = 100 * m
    BY ONLY q \in Nat, n \in Nat \ {0}, <2>6
  <2>8. Distance(m, t * 1) < n
    BY ONLY <2>5, <2>7, m \in Nat, n \in Nat \ {0}, t \in Nat DEF Distance
  <2>9. Distance((owed[u] \div Sub) * SumFunction(ones), Minor(total) * ones[u])
          < SumFunction(ones)
    BY <1>4, <2>2, <2>3, <2>4, <2>6, <2>8
  <2>. QED  BY <1>4, <2>9
<1>. QED  BY <1>1, <1>6, <1>7, <1>11 DEF IsGood, Posted

LEMMA PercentageIsGood ==
  ASSUME NEW who, IsOrder(who), NEW total \in Nat, NEW percentages \in [DOMAIN who -> Nat]
  PROVE  IsGood(Posted(total, Percentage(total, who, percentages), Named(who, percentages),
                       /\ Whole(total)
                       /\ Distance(SumFunction(percentages), 100 * One) <= Sub
                       /\ ~Weightless(who, percentages)))
<1>1. PICK owed, v : /\ owed = Percentage(total, who, percentages)
                     /\ v = Named(who, percentages)
  OBVIOUS
<1>2. v = [u \in Range(who) |-> Minor(percentages[At(who, u)])]
  BY <1>1 DEF Named, At
<1>3. CASE Weightless(who, percentages) \/ ~(Distance(SumFunction(percentages), 100 * One) <= Sub)
  <2>1. SumFunction(percentages) \in Int
    <3>1. IsFiniteSet(DOMAIN who) /\ DOMAIN percentages = DOMAIN who
      BY PlacesInOrder
    <3>. QED  BY <3>1, SumIsInt DEF SumFunction
  <2>2. owed = Refused
    BY <1>1, <1>3, <2>1 DEF Percentage, Distance, One, Sub
  <2>. QED  BY <1>1, <1>3, <2>2 DEF IsGood, Posted, IsSplit, IsFairTo
<1>4. CASE ~Weightless(who, percentages) /\ owed # Refused
  <2>1. owed = Wrap(total, DistributeMoney(total, who, percentages))
    BY <1>1, <1>4 DEF Percentage
  <2>. QED  BY <1>1, <1>2, <1>4, <2>1, WeightedIsGood DEF IsGood, Posted
<1>5. CASE ~Weightless(who, percentages) /\ owed = Refused
           /\ Distance(SumFunction(percentages), 100 * One) <= Sub
  <2>0. SumFunction(percentages) \in Int
    <3>1. IsFiniteSet(DOMAIN who) /\ DOMAIN percentages = DOMAIN who
      BY PlacesInOrder
    <3>. QED  BY <3>1, SumIsInt DEF SumFunction
  <2>1. owed = Wrap(total, DistributeMoney(total, who, percentages))
    BY <1>1, <1>5, <2>0 DEF Percentage, Distance, One, Sub
  <2>. QED  BY <1>1, <1>2, <1>5, <2>1, WeightedIsGood DEF IsGood, Posted
<1>. QED  BY <1>3, <1>4, <1>5

LEMMA SharesIsGood ==
  ASSUME NEW who, IsOrder(who), NEW total \in Nat, NEW shares \in [DOMAIN who -> Nat]
  PROVE  IsGood(Posted(total, Shares(total, who, shares), Named(who, shares),
                       Whole(total) /\ \A k \in DOMAIN shares : shares[k] >= Sub))
<1>1. PICK owed, v : owed = Shares(total, who, shares) /\ v = Named(who, shares)
  OBVIOUS
<1>2. v = [u \in Range(who) |-> Minor(shares[At(who, u)])]
  BY <1>1 DEF Named, At
<1>3. CASE (\E k \in DOMAIN who : shares[k] <= 0) \/ Weightless(who, shares)
  <2>1. owed = Refused
    BY <1>1, <1>3 DEF Shares
  <2>2. ~\A k \in DOMAIN shares : shares[k] >= Sub
    <3>. SUFFICES ASSUME \A k \in DOMAIN shares : shares[k] >= Sub PROVE FALSE
      OBVIOUS
    <3>1. \A k \in DOMAIN who : shares[k] >= Sub /\ shares[k] \in Nat
      OBVIOUS
    <3>2. 1 \in DOMAIN who
      BY PlacesInOrder
    <3>3. \A k \in DOMAIN who : shares[k] > 0 /\ Minor(shares[k]) # 0
      BY <3>1 DEF Minor, Sub
    <3>. QED  BY <1>3, <3>1, <3>2, <3>3 DEF Weightless
  <2>. QED  BY <1>1, <2>1, <2>2 DEF IsGood, Posted, IsSplit, IsFairTo
<1>4. CASE ~((\E k \in DOMAIN who : shares[k] <= 0) \/ Weightless(who, shares))
  <2>1. owed = Wrap(total, DistributeMoney(total, who, shares))
    BY <1>1, <1>4 DEF Shares
  <2>2. ~Weightless(who, shares)
    BY <1>4
  <2>3. /\ IsSplit(total, owed) /\ IsFairTo(total, v, owed)
        /\ Whole(total) => owed # Refused /\ SumFunction(owed) = total
    BY <1>2, <2>1, <2>2, WeightedIsGood
  <2>4. IsGood(Posted(total, owed, v, Whole(total) /\ \A k \in DOMAIN shares : shares[k] >= Sub))
    BY <2>3 DEF IsGood, Posted
  <2>. QED  BY <1>1, <2>4
<1>. QED  BY <1>3, <1>4

\* Equal parts of what is left are all of it.
LEMMA EqualPartsAre ==
  ASSUME NEW who, IsOrder(who), NEW total \in Nat
  PROVE  /\ DistributeEqual(total, who) \in [Range(who) -> Nat]
         /\ SumFunction(DistributeEqual(total, who)) = Sub * Minor(total)
<1>1. PICK weights : weights = [k \in DOMAIN who |-> One]
  OBVIOUS
<1>2. weights \in [DOMAIN who -> Nat]
  BY <1>1 DEF One
<1>3. ~Weightless(who, weights)
  <2>1. 1 \in DOMAIN who
    BY PlacesInOrder
  <2>. QED  BY <1>1, <2>1, MinorsOf DEF Weightless
<1>4. DistributeEqual(total, who) = DistributeMoney(total, who, weights)
  BY <1>1 DEF DistributeEqual
<1>5. /\ DistributeMoney(total, who, weights) \in [Range(who) -> Nat]
      /\ SumFunction(DistributeMoney(total, who, weights)) = Sub * Minor(total)
  BY <1>2, <1>3, MoneyIsSharedOut
<1>. QED  BY <1>4, <1>5

\* The types that take amounts: exact, adjustment, itemized.
LEMMA ExactIsGood ==
  ASSUME NEW who, IsOrder(who), NEW total \in Nat, NEW amounts \in [DOMAIN who -> Nat]
  PROVE  IsGood(Posted(total, Exact(total, who, amounts), Refused,
                       /\ \A k \in DOMAIN amounts : Whole(amounts[k])
                       /\ SumFunction(amounts) = total))
<1>1. PICK owed, x, R, y :
        /\ owed = Exact(total, who, amounts) /\ R = Range(who)
        /\ x = [u \in R |-> Sub * Minor(amounts[At(who, u)])]
        /\ y = [u \in R |-> amounts[At(who, u)]]
  OBVIOUS
<1>2. /\ R \in SUBSET Users /\ R # {} /\ IsFiniteSet(R)
      /\ \A u \in R : At(who, u) \in DOMAIN who
  BY <1>1, PlacesInOrder
<1>3. x \in [R -> Nat]
  <2>1. \A u \in R : Sub * Minor(amounts[At(who, u)]) \in Nat
    BY <1>2, MinorUnits DEF Sub
  <2>. QED  BY <1>1, <2>1
<1>4. /\ IsSplit(total, Wrap(total, x)) /\ Wrap(total, x) \in {x, Refused} /\ x # Refused
      /\ SumFunction(x) = total => Wrap(total, x) = x
  BY <1>2, <1>3, WrapIs
<1>5. owed = Refused \/ owed = Wrap(total, x)
  BY <1>1 DEF Exact, At
<1>6. IsSplit(total, owed)
  BY <1>4, <1>5 DEF IsSplit
<1>7. ASSUME \A k \in DOMAIN amounts : Whole(amounts[k]), SumFunction(amounts) = total
      PROVE  owed # Refused /\ SumFunction(owed) = total
  <2>1. \A u \in R : x[u] = amounts[At(who, u)]
    BY <1>1, <1>2, <1>7, MinorUnits
  <2>2. SumFunctionOnSet(x, R) = SumFunctionOnSet(amounts, DOMAIN who)
    <3>1. \A k \in DOMAIN who : amounts[k] \in Int
      OBVIOUS
    <3>. QED  BY <1>1, <2>1, <3>1, ByPlaceOrUser
  <2>3. DOMAIN x = R /\ DOMAIN amounts = DOMAIN who
    BY <1>1
  <2>4. SumFunction(x) = total
    BY <1>7, <2>2, <2>3 DEF SumFunction
  <2>5. Distance(total, total) = 0 /\ ~(0 > Eps)
    BY DEF Distance, Eps
  <2>6. owed = Wrap(total, x)
    BY <1>1, <1>7, <2>5 DEF Exact, At
  <2>. QED  BY <1>4, <2>4, <2>6
<1>. QED  BY <1>1, <1>6, <1>7 DEF IsGood, Posted, IsFairTo

LEMMA AdjustmentIsGood ==
  ASSUME NEW rest, IsOrder(rest), NEW total \in Nat,
         NEW D \in SUBSET Users, NEW fixed \in [D -> Nat]
  PROVE  IsGood(Posted(total, Adjustment(total, fixed, rest), Refused,
                       /\ Whole(total) /\ \A u \in DOMAIN fixed : Whole(fixed[u])
                       /\ DOMAIN fixed \cap Range(rest) = {} /\ SumFunction(fixed) <= total))
<1>1. PICK owed, R, remainder, parts, x :
        /\ owed = Adjustment(total, fixed, rest) /\ R = Range(rest)
        /\ remainder = total - SumFunction(fixed)
        /\ parts = DistributeEqual(remainder, rest)
        /\ x = [u \in D \cup R |-> IF u \in D THEN Sub * Minor(fixed[u]) ELSE parts[u]]
  OBVIOUS
<1>2. R \in SUBSET Users /\ R # {} /\ IsFiniteSet(R) /\ IsFiniteSet(D) /\ DOMAIN fixed = D
  BY <1>1, PlacesInOrder, BalanceAssumption, FS_Subset
<1>3. SumFunction(fixed) \in Nat /\ SumFunction(fixed) = SumFunctionOnSet(fixed, D)
  BY <1>2, SumIsNat DEF SumFunction
<1>4. owed = IF remainder < 0 \/ D \cap R # {} THEN Refused ELSE Wrap(total, x)
  BY <1>1, <1>2 DEF Adjustment
<1>5. CASE remainder < 0 \/ D \cap R # {}
  <2>1. owed = Refused
    BY <1>4, <1>5
  <2>2. ~(DOMAIN fixed \cap Range(rest) = {} /\ SumFunction(fixed) <= total)
    BY <1>1, <1>2, <1>3, <1>5
  <2>. QED  BY <1>1, <2>1, <2>2 DEF IsGood, Posted, IsSplit, IsFairTo
<1>6. CASE ~(remainder < 0 \/ D \cap R # {})
  <2>1. remainder \in Nat /\ D \cap R = {}
    BY <1>1, <1>3, <1>6
  <2>2. parts \in [R -> Nat] /\ SumFunction(parts) = Sub * Minor(remainder)
    BY <1>1, <2>1, EqualPartsAre
  <2>3. \A u \in D : Sub * Minor(fixed[u]) \in Nat
    BY MinorUnits DEF Sub
  <2>4. x \in [D \cup R -> Nat]
    BY <1>1, <2>2, <2>3
  <2>5. D \cup R \in SUBSET Users /\ D \cup R # {}
    BY <1>2
  <2>6. owed = Wrap(total, x)
    BY <1>4, <1>6
  <2>7. /\ IsSplit(total, owed) /\ x # Refused
        /\ SumFunction(x) = total => owed = x
    BY <2>4, <2>5, <2>6, WrapIs
  <2>8. ASSUME Whole(total), \A u \in D : Whole(fixed[u])
        PROVE  SumFunction(x) = total
    <3>1. PICK mins : mins = [u \in D |-> Minor(fixed[u])]
      OBVIOUS
    <3>2. \A u \in D : mins[u] \in Int /\ fixed[u] = Sub * mins[u]
      BY <2>8, <3>1, MinorUnits
    <3>3. SumFunctionOnSet(fixed, D) = Sub * SumFunctionOnSet(mins, D)
      <4>1. PICK a \in Int : a = Sub
        BY DEF Sub
      <4>2. \A u \in D : mins[u] \in Int /\ fixed[u] = a * mins[u]
        BY <3>2, <4>1
      <4>3. SumFunctionOnSet(fixed, D) = a * SumFunctionOnSet(mins, D)
        <5>1. IsFiniteSet(D)
          BY ONLY <1>2
        <5>. QED  BY ONLY <4>2, <5>1, a \in Int, SumOfMultiples, SMTT(60)
      <4>. QED  BY <4>1, <4>3
    <3>4. SumFunctionOnSet(mins, D) \in Int
      BY <1>2, <3>2, SumIsInt
    <3>5. Whole(remainder)
      BY <1>1, <1>3, <2>1, <2>8, <3>3, <3>4 DEF Whole, Sub
    <3>6. SumFunctionOnSet(parts, R) = remainder
      BY <2>1, <2>2, <3>5, MinorUnits DEF SumFunction
    <3>7. SumFunctionOnSet(x, D \cup R) = SumFunctionOnSet(x, D) + SumFunctionOnSet(x, R)
      BY <1>2, <2>1, <2>4, SumOfUnion
    <3>8. SumFunctionOnSet(x, D) = SumFunctionOnSet(fixed, D)
      <4>1. \A u \in D : x[u] = fixed[u] /\ x[u] \in Int
        BY <1>1, <2>8, MinorUnits
      <4>. QED  BY ONLY <1>2, <4>1, SumSame
    <3>9. SumFunctionOnSet(x, R) = SumFunctionOnSet(parts, R)
      <4>1. \A u \in R : x[u] = parts[u] /\ x[u] \in Int
        BY <1>1, <2>1, <2>2
      <4>. QED  BY ONLY <1>2, <4>1, SumSame
    <3>10. DOMAIN x = D \cup R
      BY <1>1
    <3>. QED  BY <1>1, <1>3, <3>6, <3>7, <3>8, <3>9, <3>10 DEF SumFunction
  <2>9. IsFairTo(total, Refused, owed)
    BY DEF IsFairTo
  <2>. QED  BY <1>1, <1>2, <2>7, <2>8, <2>9 DEF IsGood, Posted
<1>. QED  BY <1>5, <1>6

\* Lines of a bill, each with those who share it.
AreLines(lines) ==
  /\ IsFiniteSet(DOMAIN lines) /\ DOMAIN lines # {}
  /\ \A k \in DOMAIN lines : lines[k].amount \in Nat /\ IsOrder(lines[k].who)

LEMMA ItemizedIsGood ==
  ASSUME NEW lines, AreLines(lines), NEW total \in Nat
  PROVE  IsGood(Posted(total, Itemized(total, lines), Refused,
                       /\ \A k \in DOMAIN lines : Whole(lines[k].amount)
                       /\ SumFunction([k \in DOMAIN lines |-> lines[k].amount]) = total))
<1>1. PICK K, listed, amounts, owed, part, table, x :
        /\ K = DOMAIN lines
        /\ listed = UNION {Range(lines[k].who) : k \in K}
        /\ amounts = [k \in K |-> lines[k].amount]
        /\ owed = Itemized(total, lines)
        /\ part = [k \in K |-> DistributeEqual(lines[k].amount, lines[k].who)]
        /\ table = [k \in K |-> [u \in listed |->
                      IF u \in Range(lines[k].who) THEN part[k][u] ELSE 0]]
        /\ x = [u \in listed |-> SumFunction([k \in K |->
                  IF u \in Range(lines[k].who) THEN part[k][u] ELSE 0])]
  OBVIOUS
<1>2. /\ IsFiniteSet(K) /\ K # {}
      /\ \A k \in K : lines[k].amount \in Nat /\ IsOrder(lines[k].who)
  BY <1>1 DEF AreLines
<1>3. \A k \in K : /\ Range(lines[k].who) \in SUBSET Users /\ Range(lines[k].who) # {}
                   /\ IsFiniteSet(Range(lines[k].who))
                   /\ part[k] \in [Range(lines[k].who) -> Nat]
                   /\ SumFunction(part[k]) = Sub * Minor(lines[k].amount)
  BY <1>1, <1>2, PlacesInOrder, EqualPartsAre
<1>4. /\ listed \in SUBSET Users /\ listed # {}
      /\ \A k \in K : Range(lines[k].who) \in SUBSET listed
  <2>1. \A k \in K : Range(lines[k].who) \in SUBSET listed
    BY <1>1
  <2>2. \A u \in listed : \E k \in K : u \in Range(lines[k].who)
    BY <1>1
  <2>3. listed \in SUBSET Users
    BY <1>3, <2>2
  <2>4. PICK k : k \in K
    BY <1>2
  <2>. QED  BY <1>3, <2>1, <2>3, <2>4
<1>5. IsFiniteSet(listed)
  BY <1>4, BalanceAssumption, FS_Subset
<1>6. owed = IF Distance(SumFunction(amounts), total) > Eps THEN Refused ELSE Wrap(total, x)
  <2>1. \A k \in K : part[k] = DistributeEqual(lines[k].amount, lines[k].who)
    BY <1>1
  <2>2. x = [u \in listed |-> SumFunction([k \in K |->
              IF u \in Range(lines[k].who)
              THEN DistributeEqual(lines[k].amount, lines[k].who)[u] ELSE 0])]
    BY <1>1, <2>1
  <2>. QED  BY <1>1, <2>2 DEF Itemized
<1>7. \A k \in K, u \in listed : table[k][u] \in Nat
  BY <1>1, <1>3
<1>8. ASSUME NEW u \in listed
      PROVE  /\ x[u] = SumFunctionOnSet(Column(table, K, u), K) /\ x[u] \in Nat
  <2>1. PICK col : col = [k \in K |-> table[k][u]] /\ col = Column(table, K, u)
    BY DEF Column
  <2>2. col = [k \in K |-> IF u \in Range(lines[k].who) THEN part[k][u] ELSE 0]
    BY <1>1, <2>1
  <2>3. DOMAIN col = K /\ \A k \in K : col[k] \in Nat
    BY <1>7, <2>1
  <2>4. x[u] = SumFunctionOnSet(col, K)
    BY <1>1, <2>2, <2>3 DEF SumFunction
  <2>5. SumFunctionOnSet(col, K) \in Nat
    BY <1>2, <2>3, SumIsNat
  <2>. QED  BY <2>1, <2>4, <2>5
<1>9. x \in [listed -> Nat]
  BY <1>1, <1>8
<1>10. /\ IsSplit(total, Wrap(total, x)) /\ x # Refused
       /\ SumFunction(x) = total => Wrap(total, x) = x
  BY <1>4, <1>9, WrapIs
<1>11. IsSplit(total, owed)
  BY <1>6, <1>10 DEF IsSplit
<1>12. ASSUME \A k \in K : Whole(lines[k].amount), SumFunction(amounts) = total
       PROVE  owed # Refused /\ SumFunction(owed) = total
  <2>1. PICK rows : rows = [k \in K |-> SumFunctionOnSet(table[k], listed)]
    OBVIOUS
  <2>2. SumFunctionOnSet(rows, K) = SumFunctionOnSet(x, listed)
    <3>1. \A k \in K, u \in listed : table[k][u] \in Int
      BY <1>7
    <3>2. \A k \in K : rows[k] = SumFunctionOnSet(table[k], listed)
      BY <2>1
    <3>3. \A u \in listed : x[u] = SumFunctionOnSet(Column(table, K, u), K)
      BY <1>8
    <3>. QED  BY ONLY <1>2, <1>5, <3>1, <3>2, <3>3, SumByRowsOrColumns
  <2>3. \A k \in K : rows[k] = amounts[k] /\ rows[k] \in Int
    <3>. SUFFICES ASSUME NEW k \in K PROVE rows[k] = amounts[k] /\ rows[k] \in Int
      OBVIOUS
    <3>1. PICK row, mine, R : row = table[k] /\ mine = part[k] /\ R = Range(lines[k].who)
      OBVIOUS
    <3>2. \A u \in listed : row[u] = IF u \in R THEN mine[u] ELSE 0
      BY <1>1, <3>1
    <3>3. R \in SUBSET listed /\ \A u \in R : mine[u] \in Int
      BY <1>3, <1>4, <3>1
    <3>4. SumFunctionOnSet(row, listed) = SumFunctionOnSet(mine, R)
      BY ONLY <1>5, <3>2, <3>3, SumOfPart
    <3>5. DOMAIN mine = R
      BY <1>3, <3>1
    <3>6. SumFunctionOnSet(mine, R) = lines[k].amount
      BY <1>2, <1>3, <1>12, <3>1, <3>5, MinorUnits DEF SumFunction
    <3>. QED  BY <1>1, <1>2, <2>1, <3>1, <3>4, <3>6
  <2>4. SumFunctionOnSet(rows, K) = SumFunctionOnSet(amounts, K)
    BY ONLY <1>2, <2>3, SumSame
  <2>5. DOMAIN x = listed /\ DOMAIN amounts = K
    BY <1>1
  <2>6. SumFunction(x) = total
    BY <1>12, <2>2, <2>4, <2>5 DEF SumFunction
  <2>7. Distance(total, total) = 0 /\ ~(0 > Eps)
    BY DEF Distance, Eps
  <2>8. owed = Wrap(total, x)
    BY <1>6, <1>12, <2>7
  <2>. QED  BY <1>10, <2>6, <2>8
<1>13. IsFairTo(total, Refused, owed)
  BY DEF IsFairTo
<1>. QED  BY <1>1, <1>11, <1>12, <1>13 DEF IsGood, Posted

-----------------------------------------------------------------------------
(***************************************************************************)
(* The ledger: nets are moved by bills alone.                              *)
(***************************************************************************)

\* A bill is posted with a split as good as the bill.
LEMMA BillsAreGood ==
  ASSUME Bill
  PROVE  \E payer \in Users : \E total, owed, weights, sound :
           Post(payer, total, owed, weights, sound) /\ IsGood(Posted(total, owed, weights, sound))
<1>1. PICK payer \in Users, total \in Totals, who \in Orders :
        \/ EqualBill(payer, total, who)
        \/ \E amounts \in Values(who, Totals) : ExactBill(payer, total, who, amounts)
        \/ \E ps \in Values(who, Percentages) : PercentageBill(payer, total, who, ps)
        \/ \E shares \in Values(who, ShareValues) : SharesBill(payer, total, who, shares)
        \/ \E u \in Users, a \in Totals \cup {0} : AdjustmentBill(payer, total, [v \in {u} |-> a], who)
        \/ \E other \in Orders, a \in Totals :
             /\ a <= total
             /\ ItemizedBill(payer, total, <<[amount |-> a, who |-> who],
                                            [amount |-> total - a, who |-> other]>>)
  BY DEF Bill
<1>2. total \in Nat /\ IsOrder(who) /\ Totals \in SUBSET Nat
      /\ Percentages \in SUBSET Nat /\ ShareValues \in SUBSET Nat
  BY BalanceAssumption, OrdersAreOrders
<1>3. CASE EqualBill(payer, total, who)
  BY <1>2, <1>3, EqualIsGood DEF EqualBill
<1>4. ASSUME NEW amounts \in Values(who, Totals), ExactBill(payer, total, who, amounts)
      PROVE  \E t, owed, weights, sound :
               Post(payer, t, owed, weights, sound) /\ IsGood(Posted(t, owed, weights, sound))
  <2>1. amounts \in [DOMAIN who -> Nat]
    BY <1>2 DEF Values
  <2>. QED  BY <1>2, <1>4, <2>1, ExactIsGood DEF ExactBill
<1>5. ASSUME NEW ps \in Values(who, Percentages), PercentageBill(payer, total, who, ps)
      PROVE  \E t, owed, weights, sound :
               Post(payer, t, owed, weights, sound) /\ IsGood(Posted(t, owed, weights, sound))
  <2>1. ps \in [DOMAIN who -> Nat]
    BY <1>2 DEF Values
  <2>. QED  BY <1>2, <1>5, <2>1, PercentageIsGood DEF PercentageBill
<1>6. ASSUME NEW shares \in Values(who, ShareValues), SharesBill(payer, total, who, shares)
      PROVE  \E t, owed, weights, sound :
               Post(payer, t, owed, weights, sound) /\ IsGood(Posted(t, owed, weights, sound))
  <2>1. shares \in [DOMAIN who -> Nat]
    BY <1>2 DEF Values
  <2>. QED  BY <1>2, <1>6, <2>1, SharesIsGood DEF SharesBill
<1>7. ASSUME NEW u \in Users, NEW a \in Totals \cup {0},
             AdjustmentBill(payer, total, [v \in {u} |-> a], who)
      PROVE  \E t, owed, weights, sound :
               Post(payer, t, owed, weights, sound) /\ IsGood(Posted(t, owed, weights, sound))
  <2>1. PICK fixed : fixed = [v \in {u} |-> a]
    OBVIOUS
  <2>2. fixed \in [{u} -> Nat]
    BY <1>2, <2>1
  <2>3. {u} \in SUBSET Users
    OBVIOUS
  <2>. QED  BY <1>2, <1>7, <2>1, <2>2, <2>3, AdjustmentIsGood DEF AdjustmentBill
<1>8. ASSUME NEW other \in Orders, NEW a \in Totals, a <= total,
             ItemizedBill(payer, total, <<[amount |-> a, who |-> who],
                                          [amount |-> total - a, who |-> other]>>)
      PROVE  \E t, owed, weights, sound :
               Post(payer, t, owed, weights, sound) /\ IsGood(Posted(t, owed, weights, sound))
  <2>1. PICK lines : lines = <<[amount |-> a, who |-> who], [amount |-> total - a, who |-> other]>>
    OBVIOUS
  <2>2. IsOrder(other) /\ a \in Nat /\ total - a \in Nat
    BY <1>2, <1>8, OrdersAreOrders
  <2>3. DOMAIN lines = 1..2 /\ \A k \in 1..2 : lines[k].amount \in Nat /\ IsOrder(lines[k].who)
    BY <1>2, <2>1, <2>2
  <2>4. IsFiniteSet(1..2)
    <3>1. PICK n \in Nat : n = 2
      OBVIOUS
    <3>2. IsFiniteSet(1..n)
      BY ONLY n \in Nat, FS_Interval
    <3>. QED  BY <3>1, <3>2
  <2>5. AreLines(lines)
    BY <2>3, <2>4 DEF AreLines
  <2>. QED  BY <1>2, <1>8, <2>1, <2>5, ItemizedIsGood DEF ItemizedBill
<1>. QED  BY <1>1, <1>3, <1>4, <1>5, <1>6, <1>7, <1>8

\* What a bill moves among the nets is nothing but its own misfit.
LEMMA CreditsBalance ==
  ASSUME NEW n, n = net, n \in [Users -> Int], NEW payer \in Users, NEW total \in Nat, NEW owed,
         IsSplit(total, owed), owed # Refused
  PROVE  /\ Credited(payer, total, owed) \in [Users -> Int]
         /\ SumFunction(Credited(payer, total, owed)) =
              SumFunction(net) + total - SumFunction(owed)
         /\ SumFunction(net) \in Int /\ SumFunction(owed) \in Int
<1>1. PICK D, c, plus, minus, change :
        /\ D = DOMAIN owed /\ c = Credited(payer, total, owed)
        /\ plus = [u \in Users |-> IF u = payer THEN total ELSE 0]
        /\ minus = [u \in Users |-> IF u \in D THEN owed[u] ELSE 0]
        /\ change = [u \in Users |-> n[u] + plus[u]]
  OBVIOUS
<1>2. D \in SUBSET Users /\ \A u \in D : owed[u] \in Nat
  BY <1>1 DEF IsSplit
<1>3. IsFiniteSet(Users)
  BY BalanceAssumption
<1>4. \A u \in Users : /\ n[u] \in Int /\ plus[u] \in Int /\ minus[u] \in Int
                       /\ change[u] = n[u] + plus[u] /\ change[u] \in Int
                       /\ c[u] = change[u] - minus[u] /\ c[u] \in Int
                       /\ change[u] = c[u] + minus[u]
  BY <1>1, <1>2 DEF Credited
<1>5. SumFunctionOnSet(plus, Users) = total
  <2>1. \A u \in Users : plus[u] = IF u = payer THEN total ELSE 0
    BY <1>1
  <2>. QED  BY ONLY <1>3, payer \in Users, total \in Nat, <2>1, SumOfOne
<1>6. SumFunctionOnSet(minus, Users) = SumFunctionOnSet(owed, D)
  <2>1. /\ \A u \in Users : minus[u] = IF u \in D THEN owed[u] ELSE 0
        /\ \A u \in D : owed[u] \in Int
    BY <1>1, <1>2
  <2>. QED  BY ONLY <1>2, <1>3, <2>1, SumOfPart
<1>7. SumFunctionOnSet(change, Users) = SumFunctionOnSet(n, Users) + SumFunctionOnSet(plus, Users)
  BY ONLY <1>3, <1>4, SumOfSums
<1>8. SumFunctionOnSet(change, Users) = SumFunctionOnSet(c, Users) + SumFunctionOnSet(minus, Users)
  BY ONLY <1>3, <1>4, SumOfSums
<1>9. SumFunctionOnSet(c, Users) \in Int /\ SumFunctionOnSet(n, Users) \in Int
  BY ONLY <1>3, <1>4, SumIsInt
<1>10. SumFunctionOnSet(owed, D) \in Int
  BY <1>2, <1>3, FS_Subset, SumIsInt
<1>11. DOMAIN n = Users /\ DOMAIN c = Users /\ c \in [Users -> Int]
  <2>1. c = [u \in Users |-> c[u]]
    BY <1>1 DEF Credited
  <2>. QED  BY <1>4, <2>1
<1>12. SumFunctionOnSet(c, Users) = SumFunctionOnSet(n, Users) + total - SumFunctionOnSet(owed, D)
  BY ONLY <1>5, <1>6, <1>7, <1>8, <1>9, <1>10, total \in Nat
<1>. QED  BY <1>1, <1>9, <1>10, <1>11, <1>12 DEF SumFunction

-----------------------------------------------------------------------------
LedgerInv ==
  /\ net \in [Users -> Int] /\ bills \in 0..MaxBills
  /\ IsGood(last)
  /\ NetsBalance

\* The invariant of the ledger holds at first, and bills preserve it.
LEMMA LedgerStarts == Init => LedgerInv
<1>. SUFFICES ASSUME Init PROVE LedgerInv
  OBVIOUS
<1>1. net \in [Users -> Int] /\ SumFunction(net) = 0 /\ bills = 0 /\ last = NoBill /\ MaxBills \in Nat
  BY BalanceAssumption DEF Init
<1>2. IsGood(NoBill)
  BY DEF IsGood, NoBill, IsSplit, IsFairTo
<1>. QED  BY <1>1, <1>2 DEF LedgerInv, NetsBalance, Distance, Eps

LEMMA LedgerStep == LedgerInv /\ [Next]_vars => LedgerInv'
<1>. SUFFICES ASSUME LedgerInv, [Next]_vars PROVE LedgerInv'
  OBVIOUS
<1>1. MaxBills \in Nat /\ bills \in Nat
  BY BalanceAssumption DEF LedgerInv
<1>2. CASE Bill
  <2>1. PICK payer \in Users : \E total, owed, weights, sound :
          Post(payer, total, owed, weights, sound) /\ IsGood(Posted(total, owed, weights, sound))
    BY <1>2, BillsAreGood
  <2>2. PICK total, owed, weights, sound :
          Post(payer, total, owed, weights, sound) /\ IsGood(Posted(total, owed, weights, sound))
    BY <2>1
  <2>3. /\ bills' = bills + 1 /\ last' = Posted(total, owed, weights, sound)
        /\ net' = IF owed = Refused THEN net ELSE Credited(payer, total, owed)
    BY <2>2 DEF Post, Posted
  <2>4. bills' \in 0..MaxBills
    BY <1>1, <1>2, <2>3 DEF Bill
  <2>5. total \in Nat /\ IsSplit(total, owed)
    BY <2>2 DEF IsGood, Posted
  <2>6. SumFunction(net) \in Int /\ Distance(SumFunction(net), 0) <= bills
    <3>1. net \in [Users -> Int] /\ DOMAIN net = Users /\ IsFiniteSet(Users)
      BY BalanceAssumption DEF LedgerInv
    <3>2. SumFunction(net) \in Int
      BY <3>1, SumIsInt DEF SumFunction
    <3>. QED  BY <1>1, <3>2 DEF LedgerInv, NetsBalance, Eps
  <2>7. /\ net' \in [Users -> Int] /\ SumFunction(net') \in Int
        /\ Distance(SumFunction(net'), 0) <= bills + 1
    <3>1. CASE owed = Refused
      BY <1>1, <2>3, <2>6, <3>1 DEF LedgerInv, Distance
    <3>2. CASE owed # Refused
      <4>1. PICK n : n = net
        OBVIOUS
      <4>2. n \in [Users -> Int]
        BY <4>1 DEF LedgerInv
      <4>3. /\ net' \in [Users -> Int]
            /\ SumFunction(net') = SumFunction(net) + total - SumFunction(owed)
            /\ SumFunction(owed) \in Int
        BY <2>3, <2>5, <3>2, <4>1, <4>2, CreditsBalance
      <4>4. Distance(SumFunction(owed), total) <= 1
        BY <2>5, <3>2 DEF IsSplit, Eps
      <4>. QED  BY <1>1, <2>5, <2>6, <4>3, <4>4 DEF Distance
    <3>. QED  BY <3>1, <3>2
  <2>8. NetsBalance'
    BY <1>1, <2>3, <2>7 DEF NetsBalance, Eps
  <2>. QED  BY <2>2, <2>3, <2>4, <2>7, <2>8 DEF LedgerInv
<1>3. CASE UNCHANGED <<net, bills>> /\ last' \in {last, NoBill}
  <2>1. IsGood(NoBill)
    BY DEF IsGood, NoBill, IsSplit, IsFairTo
  <2>2. IsGood(last')
    BY <1>3, <2>1 DEF LedgerInv
  <2>3. NetsBalance'
    BY <1>3 DEF LedgerInv, NetsBalance
  <2>. QED  BY <1>3, <2>2, <2>3 DEF LedgerInv
<1>4. Bill \/ (UNCHANGED <<net, bills>> /\ last' \in {last, NoBill})
  BY DEF Next, vars, Simplify, Match, Answer
<1>. QED  BY <1>2, <1>3, <1>4

\* In every state the last bill is split as IsGood says, and the nets balance
\* but for 0.0001 a bill.
THEOREM LedgerIsGood == Spec => []LedgerInv
<1>. QED  BY LedgerStarts, LedgerStep, PTL DEF Spec

\* A split by weights is fair: nobody is a minor unit off the exact
\* proportion, nobody gets less than somebody of a smaller weight
\* (RoundingEngine and the strategies equal, percentage and shares).
THEOREM SplitsAreFair == Spec => []SplitIsFair
<1>1. LedgerInv => SplitIsFair
  BY DEF LedgerInv, IsGood, IsFairTo, SplitIsFair
<1>. QED  BY <1>1, LedgerIsGood, PTL

\* A bill its split type allows, in whole minor units, is split to the last
\* unit, and never thrown out by the check of the sum (split.strategy.ts).
THEOREM SplitsAreExact == Spec => []SoundBillsAreSplit
<1>1. LedgerInv => SoundBillsAreSplit
  BY DEF LedgerInv, IsGood, SoundBillsAreSplit
<1>. QED  BY <1>1, LedgerIsGood, PTL

\* What is owed to users is what users owe, but for 0.0001 a bill
\* (BalanceEngine.netFromExpense).
THEOREM NetsStayBalanced == Spec => []NetsBalance
<1>1. LedgerInv => NetsBalance
  BY DEF LedgerInv
<1>. QED  BY <1>1, LedgerIsGood, PTL

-----------------------------------------------------------------------------
(***************************************************************************)
(* The matching: what simplify has done after each round.                  *)
(***************************************************************************)

\* The sum along a list that is one longer.
LEMMA SumOfLonger ==
  ASSUME NEW n \in Nat, NEW f, NEW g, DOMAIN f = 1..n, DOMAIN g = 1..(n + 1),
         \A k \in 1..n : g[k] = f[k] /\ f[k] \in Int, g[n + 1] \in Int
  PROVE  SumFunction(g) = SumFunction(f) + g[n + 1] /\ SumFunction(f) \in Int
<1>1. PICK S, x : S = 1..n /\ x = n + 1
  OBVIOUS
<1>2. 1..(n + 1) = S \cup {x} /\ x \notin S
  BY <1>1
<1>3. IsFiniteSet(S)
  <2>1. IsFiniteSet(1..n)
    BY FS_Interval
  <2>. QED  BY <1>1, <2>1
<1>4. \A k \in S : g[k] = f[k] /\ g[k] \in Int
  BY <1>1
<1>5. \A k \in S \cup {x} : g[k] \in Int
  BY <1>1, <1>4
<1>6. SumFunctionOnSet(g, S \cup {x}) = g[x] + SumFunctionOnSet(g, S)
  BY ONLY <1>2, <1>3, <1>5, SumAddElement
<1>7. SumFunctionOnSet(g, S) = SumFunctionOnSet(f, S)
  BY ONLY <1>3, <1>4, SumSame
<1>8. SumFunctionOnSet(g, S) \in Int
  BY ONLY <1>3, <1>4, SumIsInt
<1>9. SumFunction(g) = SumFunctionOnSet(g, S \cup {x}) /\ SumFunction(f) = SumFunctionOnSet(f, S)
  BY <1>1, <1>2 DEF SumFunction
<1>10. g[x] \in Int
  BY <1>1
<1>. QED  BY ONLY <1>1, <1>6, <1>7, <1>8, <1>9, <1>10

\* The smaller and the larger of two, and the smallest of some.
LEMMA Smaller ==
  ASSUME NEW a \in Int, NEW b \in Int
  PROVE  Min({a, b}) = IF a <= b THEN a ELSE b
  BY DEF Min

LEMMA Larger ==
  ASSUME NEW a \in Int, NEW b \in Int
  PROVE  Max({a, b}) = IF a >= b THEN a ELSE b
  BY DEF Max

LEMMA SmallestOf ==
  ASSUME NEW n \in Nat, NEW K \in SUBSET (1..n), K # {}
  PROVE  \E m \in K : \A k \in K : m <= k
<1>1. PICK Ord : Ord = {o \in K \X K : o[1] < o[2]}
  OBVIOUS
<1>2. \A k, l \in K : <<k, l>> \in Ord <=> k < l
  BY <1>1
<1>3. IsStrictOrder(Ord, K)
  BY <1>2 DEF IsStrictOrder
<1>4. IsFiniteSet(K)
  <2>1. IsFiniteSet(1..n)
    BY FS_Interval
  <2>. QED  BY <2>1, FS_Subset
<1>5. PICK m \in K : \A k \in K : <<k, m>> \notin Ord
  BY <1>3, <1>4, OrderHasFirst
<1>6. \A k \in K : k \in Int
  OBVIOUS
<1>7. \A k \in K : ~(k < m)
  BY ONLY <1>2, <1>5, m \in K
<1>. QED  BY ONLY <1>6, <1>7, m \in K

-----------------------------------------------------------------------------
Debtors == {u \in Users : Rounded(u) < 0}
Creditors == {u \in Users : Rounded(u) > 0}

OnList(ps, S) ==
  /\ \E n \in Nat : ps \in [1..n -> Party]
  /\ \A k, l \in DOMAIN ps : ps[k].id = ps[l].id => k = l
  /\ \A k \in DOMAIN ps : ps[k].id \in S
  /\ \A u \in S : \E k \in DOMAIN ps : ps[k].id = u

\* What transfers o come to for u.
By(o, u) == SumFunction([k \in DOMAIN o |-> IF o[k].from = u THEN o[k].amount ELSE 0])
To(o, u) == SumFunction([k \in DOMAIN o |-> IF o[k].to = u THEN o[k].amount ELSE 0])

Settled == {u \in Debtors : By(out, u) = -Rounded(u)} \cup {u \in Creditors : To(out, u) = Rounded(u)}

\* What is matched so far: who is on which side, that the amounts are what
\* is left of the rounded nets, and that each transfer has settled somebody.
MatchInv ==
  /\ phase \in {"ledger", "match"}
  /\ phase = "ledger" => debtors = <<>> /\ creditors = <<>> /\ out = <<>>
  /\ phase = "match" =>
       /\ OnList(debtors, Debtors) /\ OnList(creditors, Creditors)
       /\ out \in Seq(Transfer)
       /\ \A k \in DOMAIN out : out[k].from \in Debtors /\ out[k].to \in Creditors
       /\ \A k \in DOMAIN debtors : debtors[k].amt + By(out, debtors[k].id) = -Rounded(debtors[k].id)
       /\ \A k \in DOMAIN creditors :
            creditors[k].amt + To(out, creditors[k].id) = Rounded(creditors[k].id)
       /\ Len(out) <= Cardinality(Settled)
       /\ Len(out) = 0 \/ Len(out) <= Cardinality(Debtors \cup Creditors) - 1
       /\ SumFunction([u \in Users |-> By(out, u)]) = SumFunction([u \in Users |-> To(out, u)])

-----------------------------------------------------------------------------
\* The lists that simplify starts from.
LEMMA DescendingIsList ==
  ASSUME NEW S \in SUBSET Users, NEW owes, \A u \in S : owes[u] \in Nat,
         NEW P, \A u \in S : [id |-> u, amt |-> owes[u]] \in P,
         \A p \in P : p.id \in S /\ p = [id |-> p.id, amt |-> owes[p.id]],
         NEW ps \in Descending(P)
  PROVE  OnList(ps, S) /\ \A k \in DOMAIN ps : ps[k].amt = owes[ps[k].id]
<1>1. PICK party : party = [u \in S |-> [id |-> u, amt |-> owes[u]]]
  OBVIOUS
<1>2. /\ \A p \in P : p \in Party /\ p.id \in S /\ p.amt = owes[p.id] /\ p = party[p.id]
      /\ \A u \in S : party[u] \in P /\ party[u].id = u
  BY <1>1 DEF Party
<1>3. IsFiniteSet(P)
  <2>1. IsFiniteSet(S)
    BY BalanceAssumption, FS_Subset
  <2>2. party \in [S -> P] /\ \A p \in P : \E u \in S : party[u] = p
    BY <1>1, <1>2
  <2>3. party \in Surjection(S, P)
    BY <2>2 DEF Surjection
  <2>. QED  BY <2>1, <2>3, FS_Surjection
<1>4. PICK n \in Nat : n = Cardinality(P)
  BY <1>3, FS_CardinalityType
<1>5. ps \in SetToSeqs(P)
  BY DEF Descending
<1>6. ps \in [1..n -> P] /\ \A k, l \in 1..n : k # l => ps[k] # ps[l]
  BY <1>4, <1>5 DEF SetToSeqs
<1>7. \A p \in P : \E k \in 1..n : ps[k] = p
  <2>1. ps \in Injection(1..n, P)
    BY <1>6 DEF Injection, IsInjective
  <2>2. Cardinality(1..n) = n
    BY FS_Interval
  <2>3. ps \in Surjection(1..n, P)
    BY <1>3, <1>4, <2>1, <2>2, FS_Injection
  <2>. QED  BY <2>3 DEF Surjection
<1>8. DOMAIN ps = 1..n /\ ps \in [1..n -> Party]
  BY <1>2, <1>6
<1>9. \A k, l \in DOMAIN ps : ps[k].id = ps[l].id => k = l
  BY <1>2, <1>6, <1>8
<1>10. \A u \in S : \E k \in DOMAIN ps : ps[k].id = u
  BY <1>2, <1>7, <1>8
<1>11. \A k \in DOMAIN ps : ps[k].id \in S /\ ps[k].amt = owes[ps[k].id]
  BY <1>2, <1>6, <1>8
<1>. QED  BY <1>8, <1>9, <1>10, <1>11 DEF OnList

\* What one transfer changes: the transfers, and a list.
Extended(o, d, c, pay) == Append(o, [from |-> d, to |-> c, amount |-> pay])
Paid(ps, i, pay) == [ps EXCEPT ![i] = Less(@, pay)]

\* A list one of whose parties has paid.
LEMMA PaidList ==
  ASSUME NEW ps, NEW S, OnList(ps, S), NEW i \in DOMAIN ps, NEW pay \in Nat, pay <= ps[i].amt,
         NEW qs, qs = Paid(ps, i, pay)
  PROVE  /\ OnList(qs, S) /\ DOMAIN qs = DOMAIN ps
         /\ \A k \in DOMAIN ps : /\ qs[k].id = ps[k].id
                                 /\ qs[k].amt = ps[k].amt - (IF k = i THEN pay ELSE 0)
<1>1. PICK n \in Nat : ps \in [1..n -> Party]
  BY DEF OnList
<1>2. PICK p, q : p = ps[i] /\ q = Less(p, pay)
  OBVIOUS
<1>3. p \in Party /\ p = [id |-> p.id, amt |-> p.amt] /\ p.amt \in Nat /\ p.id \in Users
  BY <1>1, <1>2 DEF Party
<1>4. q = [id |-> p.id, amt |-> p.amt - pay]
  BY <1>2, <1>3 DEF Less
<1>5. q \in Party /\ q.id = p.id /\ q.amt = p.amt - pay
  BY <1>2, <1>3, <1>4 DEF Party
<1>6. qs = [ps EXCEPT ![i] = q]
  BY <1>2 DEF Paid
<1>7. DOMAIN ps = 1..n /\ DOMAIN qs = 1..n /\ qs \in [1..n -> Party]
  BY <1>1, <1>5, <1>6
<1>8. \A k \in DOMAIN ps : /\ qs[k].id = ps[k].id
                           /\ qs[k].amt = ps[k].amt - (IF k = i THEN pay ELSE 0)
  <2>. SUFFICES ASSUME NEW k \in DOMAIN ps
                PROVE  qs[k].id = ps[k].id /\ qs[k].amt = ps[k].amt - (IF k = i THEN pay ELSE 0)
    OBVIOUS
  <2>1. CASE k = i
    BY <1>2, <1>5, <1>6, <2>1
  <2>2. CASE k # i
    <3>1. ps[k].amt \in Nat
      BY <1>1, <1>7 DEF Party
    <3>. QED  BY <1>6, <2>2, <3>1
  <2>. QED  BY <2>1, <2>2
<1>9. DOMAIN ps = DOMAIN qs /\ \A k \in DOMAIN ps : qs[k].id = ps[k].id
  BY <1>7, <1>8
<1>10. OnList(qs, S)
  <2>1. \E m \in Nat : qs \in [1..m -> Party]
    BY <1>7
  <2>. QED  BY <1>9, <2>1, ZenonT(60) DEF OnList
<1>. QED  BY <1>8, <1>9, <1>10

\* The party that simplify takes is on the list and above the dust.
LEMMA FirstIsOpen ==
  ASSUME NEW ps, NEW S, OnList(ps, S), Open(ps) # {}
  PROVE  First(ps) \in DOMAIN ps /\ ps[First(ps)].amt > Dust
<1>1. PICK n \in Nat : ps \in [1..n -> Party]
  BY DEF OnList
<1>2. Open(ps) \in SUBSET (1..n)
  BY <1>1 DEF Open
<1>3. \E m \in Open(ps) : \A k \in Open(ps) : m <= k
  BY <1>2, SmallestOf
<1>4. First(ps) \in Open(ps)
  BY <1>3 DEF First
<1>. QED  BY <1>4 DEF Open

\* What one more transfer comes to.
LEMMA OneMoreTransfer ==
  ASSUME NEW o \in Seq(Transfer), NEW d \in Users, NEW c \in Users, NEW pay \in Nat \ {0},
         NEW o2, o2 = Extended(o, d, c, pay), NEW u
  PROVE  /\ By(o, u) \in Int /\ By(o2, u) = By(o, u) + (IF u = d THEN pay ELSE 0)
         /\ To(o, u) \in Int /\ To(o2, u) = To(o, u) + (IF u = c THEN pay ELSE 0)
<1>1. PICK n \in Nat : n = Len(o)
  OBVIOUS
<1>2. PICK x : x = [from |-> d, to |-> c, amount |-> pay]
  OBVIOUS
<1>7. x \in Transfer
  BY <1>2 DEF Transfer
<1>8. /\ DOMAIN o = 1..n /\ DOMAIN o2 = 1..(n + 1) /\ o2[n + 1] = x
      /\ \A k \in 1..n : o2[k] = o[k] /\ o[k] \in Transfer
  BY <1>1, <1>2, <1>7 DEF Extended
<1>3. /\ DOMAIN o = 1..n /\ DOMAIN o2 = 1..(n + 1) /\ o2[n + 1] = x
      /\ \A k \in 1..n : o2[k] = o[k] /\ o[k].amount \in Int
  BY <1>8 DEF Transfer
<1>4. x.from = d /\ x.to = c /\ x.amount = pay
  BY <1>2
<1>5. By(o, u) \in Int /\ By(o2, u) = By(o, u) + (IF u = d THEN pay ELSE 0)
  <2>1. PICK f, g : /\ f = [k \in DOMAIN o |-> IF o[k].from = u THEN o[k].amount ELSE 0]
                    /\ g = [k \in DOMAIN o2 |-> IF o2[k].from = u THEN o2[k].amount ELSE 0]
    OBVIOUS
  <2>2. /\ DOMAIN f = 1..n /\ DOMAIN g = 1..(n + 1)
        /\ \A k \in 1..n : g[k] = f[k] /\ f[k] \in Int
        /\ g[n + 1] = IF u = d THEN pay ELSE 0
        /\ g[n + 1] \in Int
    BY <1>3, <1>4, <2>1
  <2>3. SumFunction(g) = SumFunction(f) + g[n + 1] /\ SumFunction(f) \in Int
    BY ONLY <2>2, n \in Nat, SumOfLonger
  <2>. QED  BY <2>1, <2>2, <2>3 DEF By
<1>6. To(o, u) \in Int /\ To(o2, u) = To(o, u) + (IF u = c THEN pay ELSE 0)
  <2>1. PICK f, g : /\ f = [k \in DOMAIN o |-> IF o[k].to = u THEN o[k].amount ELSE 0]
                    /\ g = [k \in DOMAIN o2 |-> IF o2[k].to = u THEN o2[k].amount ELSE 0]
    OBVIOUS
  <2>2. /\ DOMAIN f = 1..n /\ DOMAIN g = 1..(n + 1)
        /\ \A k \in 1..n : g[k] = f[k] /\ f[k] \in Int
        /\ g[n + 1] = IF u = c THEN pay ELSE 0
        /\ g[n + 1] \in Int
    BY <1>3, <1>4, <2>1
  <2>3. SumFunction(g) = SumFunction(f) + g[n + 1] /\ SumFunction(f) \in Int
    BY ONLY <2>2, n \in Nat, SumOfLonger
  <2>. QED  BY <2>1, <2>2, <2>3 DEF To
<1>. QED  BY <1>5, <1>6

\* Of a user who is not on a side there is no transfer there.
LEMMA NoTransfers ==
  ASSUME NEW o \in Seq(Transfer), NEW u
  PROVE  /\ (\A k \in DOMAIN o : o[k].from # u) => By(o, u) = 0
         /\ (\A k \in DOMAIN o : o[k].to # u) => To(o, u) = 0
         /\ By(o, u) \in Nat /\ To(o, u) \in Nat
<1>1. IsFiniteSet(DOMAIN o) /\ \A k \in DOMAIN o : o[k].amount \in Nat
  <2>1. PICK n \in Nat : n = Len(o) /\ DOMAIN o = 1..n
    OBVIOUS
  <2>2. IsFiniteSet(1..n)
    BY ONLY n \in Nat, FS_Interval
  <2>3. \A k \in 1..n : o[k] \in Transfer
    BY <2>1
  <2>4. \A k \in 1..n : o[k].amount \in Nat
    BY <2>3 DEF Transfer
  <2>. QED  BY ONLY <2>1, <2>2, <2>4
<1>2. PICK S, f, g : /\ S = DOMAIN o
                     /\ f = [k \in S |-> IF o[k].from = u THEN o[k].amount ELSE 0]
                     /\ g = [k \in S |-> IF o[k].to = u THEN o[k].amount ELSE 0]
  OBVIOUS
<1>3. By(o, u) = SumFunctionOnSet(f, S) /\ To(o, u) = SumFunctionOnSet(g, S)
  BY <1>2 DEF By, To, SumFunction
<1>4. \A k \in S : f[k] \in Nat /\ g[k] \in Nat
  BY <1>1, <1>2
<1>5. SumFunctionOnSet(f, S) \in Nat /\ SumFunctionOnSet(g, S) \in Nat
  BY <1>1, <1>2, <1>4, SumIsNat
<1>6. ASSUME \A k \in DOMAIN o : o[k].from # u PROVE SumFunctionOnSet(f, S) = 0
  <2>1. \A k \in S : f[k] = 0
    BY <1>2, <1>6
  <2>. QED  BY <1>1, <1>2, <2>1, SumOfZeros
<1>7. ASSUME \A k \in DOMAIN o : o[k].to # u PROVE SumFunctionOnSet(g, S) = 0
  <2>1. \A k \in S : g[k] = 0
    BY <1>2, <1>7
  <2>. QED  BY <1>1, <1>2, <2>1, SumOfZeros
<1>. QED  BY <1>3, <1>5, <1>6, <1>7

\* The sides: who owes and who is owed.
LEMMA RoundedIsInt ==
  ASSUME LedgerInv
  PROVE  /\ \A u \in Users : Rounded(u) \in Int
         /\ Debtors \in SUBSET Users /\ Creditors \in SUBSET Users
         /\ Debtors \cap Creditors = {}
         /\ IsFiniteSet(Debtors) /\ IsFiniteSet(Creditors) /\ IsFiniteSet(Users)
         /\ IsFiniteSet(Debtors \cup Creditors)
         /\ \A u \in Debtors : Rounded(u) < 0
         /\ \A u \in Creditors : Rounded(u) > 0
<1>1. \A x \in Int : Minor(x) \in Int
  BY DEF Minor, Sub
<1>2. \A u \in Users : Rounded(u) \in Int
  BY <1>1 DEF Rounded, LedgerInv
<1>3. /\ Debtors \in SUBSET Users /\ Creditors \in SUBSET Users
      /\ \A u \in Debtors : Rounded(u) < 0
      /\ \A u \in Creditors : Rounded(u) > 0
  BY DEF Debtors, Creditors
<1>4. Debtors \cap Creditors = {}
  BY <1>2, <1>3
<1>5. /\ IsFiniteSet(Debtors) /\ IsFiniteSet(Creditors) /\ IsFiniteSet(Users)
  BY <1>3, BalanceAssumption, FS_Subset
<1>6. IsFiniteSet(Debtors \cup Creditors)
  BY <1>5, FS_Union
<1>. QED  BY <1>2, <1>3, <1>4, <1>5, <1>6

LEMMA SettledIs ==
  ASSUME LedgerInv
  PROVE  /\ Settled \in SUBSET (Debtors \cup Creditors)
         /\ IsFiniteSet(Settled) /\ Cardinality(Settled) \in Nat
<1>1. Settled \in SUBSET (Debtors \cup Creditors)
  BY DEF Settled
<1>. QED  BY <1>1, RoundedIsInt, FS_Subset, FS_CardinalityType

\* The invariant of the matching holds at first and when simplify starts.
LEMMA MatchStarts == Init => MatchInv
  BY DEF Init, MatchInv

LEMMA MatchingStarts ==
  ASSUME LedgerInv, MatchInv, Simplify
  PROVE  MatchInv'
<1>1. /\ net' = net /\ out' = <<>> /\ phase' = "match"
      /\ debtors' \in Descending({Owing(u) : u \in Debtors})
      /\ creditors' \in Descending({Owed(u) : u \in Creditors})
  BY DEF Simplify, Debtors, Creditors
<1>2. \A u \in Users : Rounded(u)' = Rounded(u)
  BY <1>1 DEF Rounded
<1>3. Debtors' = Debtors /\ Creditors' = Creditors
  BY <1>2 DEF Debtors, Creditors
<1>4. \A u : By(out', u) = 0 /\ To(out', u) = 0
  <2>2. out' \in Seq(Transfer) /\ DOMAIN out' = {}
    BY <1>1
  <2>3. \A u : By(out', u) = 0 /\ To(out', u) = 0
    <3>1. PICK o : o = out'
      OBVIOUS
    <3>. QED  BY <2>2, <3>1, NoTransfers
  <2>. QED  BY <2>3
<1>5. PICK minus, plus : /\ minus = [u \in Debtors |-> -Rounded(u)]
                         /\ plus = [u \in Creditors |-> Rounded(u)]
  OBVIOUS
<1>6. /\ OnList(debtors', Debtors)
      /\ \A k \in DOMAIN debtors' : debtors'[k].amt = minus[debtors'[k].id]
  <2>2. \A u \in Debtors : minus[u] \in Nat
    BY <1>5, RoundedIsInt
  <2>3. PICK S, P, ps : S = Debtors /\ P = {Owing(u) : u \in Debtors} /\ ps = debtors'
    OBVIOUS
  <2>4. ps \in Descending(P) /\ S \in SUBSET Users /\ \A u \in S : minus[u] \in Nat
    BY <1>1, <2>2, <2>3, RoundedIsInt
  <2>6. /\ \A u \in S : [id |-> u, amt |-> minus[u]] \in P
        /\ \A p \in P : p.id \in S /\ p = [id |-> p.id, amt |-> minus[p.id]]
    <3>1. \A u \in Debtors : Owing(u) = [id |-> u, amt |-> minus[u]]
      BY <1>5 DEF Owing
    <3>. QED  BY <2>3, <3>1
  <2>5. OnList(ps, S) /\ \A k \in DOMAIN ps : ps[k].amt = minus[ps[k].id]
    BY ONLY <2>4, <2>6, DescendingIsList
  <2>. QED  BY <2>3, <2>5
<1>7. /\ OnList(creditors', Creditors)
      /\ \A k \in DOMAIN creditors' : creditors'[k].amt = plus[creditors'[k].id]
  <2>2. \A u \in Creditors : plus[u] \in Nat
    BY <1>5, RoundedIsInt
  <2>3. PICK S, P, ps : S = Creditors /\ P = {Owed(u) : u \in Creditors} /\ ps = creditors'
    OBVIOUS
  <2>4. ps \in Descending(P) /\ S \in SUBSET Users /\ \A u \in S : plus[u] \in Nat
    BY <1>1, <2>2, <2>3, RoundedIsInt
  <2>6. /\ \A u \in S : [id |-> u, amt |-> plus[u]] \in P
        /\ \A p \in P : p.id \in S /\ p = [id |-> p.id, amt |-> plus[p.id]]
    <3>1. \A u \in Creditors : Owed(u) = [id |-> u, amt |-> plus[u]]
      BY <1>5 DEF Owed
    <3>. QED  BY <2>3, <3>1
  <2>5. OnList(ps, S) /\ \A k \in DOMAIN ps : ps[k].amt = plus[ps[k].id]
    BY ONLY <2>4, <2>6, DescendingIsList
  <2>. QED  BY <2>3, <2>5
<1>8. \A k \in DOMAIN debtors' :
        debtors'[k].amt + By(out', debtors'[k].id) = -Minor(net'[debtors'[k].id])
  <2>. SUFFICES ASSUME NEW k \in DOMAIN debtors'
                PROVE  debtors'[k].amt + By(out', debtors'[k].id) = -Minor(net'[debtors'[k].id])
    OBVIOUS
  <2>1. PICK u : u = debtors'[k].id
    OBVIOUS
  <2>2. u \in Debtors /\ debtors'[k].amt = -Rounded(u)
    BY <1>5, <1>6, <2>1 DEF OnList
  <2>3. u \in Users /\ Rounded(u) \in Int
    BY <2>2, RoundedIsInt
  <2>4. By(out', u) = 0 /\ Minor(net'[u]) = Rounded(u)
    BY <1>1, <1>4 DEF Rounded
  <2>. QED  BY <2>1, <2>2, <2>3, <2>4
<1>9. \A k \in DOMAIN creditors' :
        creditors'[k].amt + To(out', creditors'[k].id) = Minor(net'[creditors'[k].id])
  <2>. SUFFICES ASSUME NEW k \in DOMAIN creditors'
                PROVE  creditors'[k].amt + To(out', creditors'[k].id) = Minor(net'[creditors'[k].id])
    OBVIOUS
  <2>1. PICK u : u = creditors'[k].id
    OBVIOUS
  <2>2. u \in Creditors /\ creditors'[k].amt = Rounded(u)
    BY <1>5, <1>7, <2>1 DEF OnList
  <2>3. u \in Users /\ Rounded(u) \in Int
    BY <2>2, RoundedIsInt
  <2>4. To(out', u) = 0 /\ Minor(net'[u]) = Rounded(u)
    BY <1>1, <1>4 DEF Rounded
  <2>. QED  BY <2>1, <2>2, <2>3, <2>4
<1>10. SumFunction([u \in Users |-> By(out', u)]) = SumFunction([u \in Users |-> To(out', u)])
  <2>1. [u \in Users |-> By(out', u)] = [u \in Users |-> To(out', u)]
    BY <1>4
  <2>. QED  BY <2>1
<1>11. /\ out' \in Seq(Transfer) /\ Len(out') = 0
       /\ \A k \in DOMAIN out' : out'[k].from \in Debtors /\ out'[k].to \in Creditors
  BY <1>1
<1>12. Cardinality(Settled') \in Nat
  <2>1. Settled' \in SUBSET (Debtors \cup Creditors)
    BY <1>3 DEF Settled
  <2>. QED  BY <2>1, RoundedIsInt, FS_Subset, FS_CardinalityType
<1>. QED  BY <1>1, <1>3, <1>6, <1>7, <1>8, <1>9, <1>10, <1>11, <1>12 DEF MatchInv, Rounded

\* A set that gets an element more.
LEMMA SetGrows ==
  ASSUME NEW S, NEW R, IsFiniteSet(R), S \in SUBSET R, NEW x \in R, x \notin S
  PROVE  /\ Cardinality(S) + 1 <= Cardinality(R)
         /\ Cardinality(S) \in Nat /\ Cardinality(R) \in Nat
<1>1. IsFiniteSet(S)
  BY FS_Subset
<1>2. IsFiniteSet(S \cup {x}) /\ Cardinality(S \cup {x}) = Cardinality(S) + 1
  BY <1>1, FS_AddElement
<1>3. S \cup {x} \in SUBSET R
  OBVIOUS
<1>4. Cardinality(S \cup {x}) <= Cardinality(R)
  BY <1>3, FS_Subset
<1>. QED  BY <1>1, <1>2, <1>4, FS_CardinalityType

\* One round of simplify: d pays c, and one of them is settled by it.
LEMMA MatchPays ==
  ASSUME LedgerInv, MatchInv, Match
  PROVE  \E i \in DOMAIN debtors, j \in DOMAIN creditors, d \in Debtors, c \in Creditors,
           pay \in Nat \ {0} :
           /\ d = debtors[i].id /\ c = creditors[j].id
           /\ pay <= debtors[i].amt /\ pay <= creditors[j].amt
           /\ pay = debtors[i].amt \/ pay = creditors[j].amt
           /\ out' = Append(out, [from |-> d, to |-> c, amount |-> pay])
           /\ debtors' = [debtors EXCEPT ![i] = Less(@, pay)]
           /\ creditors' = [creditors EXCEPT ![j] = Less(@, pay)]
<1>1. /\ phase = "match" /\ Open(debtors) # {} /\ Open(creditors) # {}
  BY DEF Match, Matching
<1>2. OnList(debtors, Debtors) /\ OnList(creditors, Creditors)
  BY <1>1 DEF MatchInv
<1>3. PICK i, j, a, b : /\ i = First(debtors) /\ j = First(creditors)
                        /\ a = debtors[i].amt /\ b = creditors[j].amt
  OBVIOUS
<1>4. i \in DOMAIN debtors /\ a > Dust
  <2>1. PICK ps, S : ps = debtors /\ S = Debtors
    OBVIOUS
  <2>2. First(ps) \in DOMAIN ps /\ ps[First(ps)].amt > Dust
    BY <1>1, <1>2, <2>1, FirstIsOpen
  <2>. QED  BY <1>3, <2>1, <2>2
<1>5. j \in DOMAIN creditors /\ b > Dust
  <2>1. PICK ps, S : ps = creditors /\ S = Creditors
    OBVIOUS
  <2>2. First(ps) \in DOMAIN ps /\ ps[First(ps)].amt > Dust
    BY <1>1, <1>2, <2>1, FirstIsOpen
  <2>. QED  BY <1>3, <2>1, <2>2
<1>6. a \in Nat /\ b \in Nat /\ a > 1 /\ b > 1
  BY <1>2, <1>3, <1>4, <1>5 DEF OnList, Party, Dust
<1>7. PICK pay : pay = Min({a, b})
  OBVIOUS
<1>8. pay = (IF a <= b THEN a ELSE b)
  BY <1>6, <1>7, Smaller
<1>9. pay \in Nat \ {0} /\ pay <= a /\ pay <= b /\ (pay = a \/ pay = b)
  BY <1>6, <1>8
<1>10. debtors[i].id \in Debtors /\ creditors[j].id \in Creditors
  BY <1>2, <1>4, <1>5 DEF OnList
<1>11. /\ out' = Append(out, [from |-> debtors[i].id, to |-> creditors[j].id, amount |-> pay])
       /\ debtors' = [debtors EXCEPT ![i] = Less(@, pay)]
       /\ creditors' = [creditors EXCEPT ![j] = Less(@, pay)]
  BY <1>3, <1>7 DEF Match, Transferred
<1>. QED  BY <1>3, <1>4, <1>5, <1>9, <1>10, <1>11

\* A round preserves the invariant of the matching.
LEMMA MatchingGoesOn ==
  ASSUME LedgerInv, MatchInv, Match
  PROVE  MatchInv'
<1>1. /\ phase = "match" /\ phase' = "match" /\ net' = net
  BY DEF Match, Matching
<1>2. PICK i \in DOMAIN debtors, j \in DOMAIN creditors, d \in Debtors, c \in Creditors,
           pay \in Nat \ {0} :
        /\ d = debtors[i].id /\ c = creditors[j].id
        /\ pay <= debtors[i].amt /\ pay <= creditors[j].amt
        /\ pay = debtors[i].amt \/ pay = creditors[j].amt
        /\ out' = Append(out, [from |-> d, to |-> c, amount |-> pay])
        /\ debtors' = [debtors EXCEPT ![i] = Less(@, pay)]
        /\ creditors' = [creditors EXCEPT ![j] = Less(@, pay)]
  BY MatchPays
<1>3. PICK o, p, D, C, S, n :
        /\ o = out /\ p = out' /\ D = Debtors /\ C = Creditors /\ S = Settled /\ n = Len(out)
  OBVIOUS
<1>4. /\ OnList(debtors, D) /\ OnList(creditors, C)
      /\ o \in Seq(Transfer) /\ n \in Nat
      /\ \A k \in DOMAIN o : o[k].from \in D /\ o[k].to \in C
      /\ \A k \in DOMAIN debtors : debtors[k].amt + By(o, debtors[k].id) = -Rounded(debtors[k].id)
      /\ \A k \in DOMAIN creditors :
           creditors[k].amt + To(o, creditors[k].id) = Rounded(creditors[k].id)
      /\ n <= Cardinality(S)
      /\ SumFunction([u \in Users |-> By(o, u)]) = SumFunction([u \in Users |-> To(o, u)])
  BY <1>1, <1>3 DEF MatchInv
<1>5. /\ D \in SUBSET Users /\ C \in SUBSET Users /\ D \cap C = {}
      /\ IsFiniteSet(D \cup C) /\ IsFiniteSet(Users) /\ d # c
      /\ \A u \in Users : Rounded(u) \in Int
  BY <1>2, <1>3, RoundedIsInt
<1>6. /\ \A u \in Users : Rounded(u)' = Rounded(u)
      /\ Debtors' = D /\ Creditors' = C
  BY <1>1, <1>3 DEF Rounded, Debtors, Creditors
<1>7. d \in D /\ c \in C /\ d \in Users /\ c \in Users
  BY <1>2, <1>3, <1>5
<1>8. \A u : /\ By(o, u) \in Int /\ By(p, u) = By(o, u) + (IF u = d THEN pay ELSE 0)
             /\ To(o, u) \in Int /\ To(p, u) = To(o, u) + (IF u = c THEN pay ELSE 0)
  <2>. SUFFICES ASSUME NEW u
                PROVE  /\ By(o, u) \in Int /\ By(p, u) = By(o, u) + (IF u = d THEN pay ELSE 0)
                       /\ To(o, u) \in Int /\ To(p, u) = To(o, u) + (IF u = c THEN pay ELSE 0)
    OBVIOUS
  <2>1. p = Extended(o, d, c, pay)
    BY <1>2, <1>3 DEF Extended
  <2>2. o \in Seq(Transfer)
    BY <1>4
  <2>3. d \in Users /\ c \in Users
    BY <1>7
  <2>4. pay \in Nat \ {0}
    OBVIOUS
  <2>. QED  BY ONLY <2>1, <2>2, <2>3, <2>4, OneMoreTransfer
<1>9. /\ p \in Seq(Transfer) /\ Len(p) = n + 1
      /\ \A k \in DOMAIN p : p[k].from \in D /\ p[k].to \in C
  <2>1. PICK x : x = [from |-> d, to |-> c, amount |-> pay]
    OBVIOUS
  <2>2. x \in Transfer /\ x.from = d /\ x.to = c
    BY <1>7, <2>1 DEF Transfer
  <2>3. p = Append(o, x)
    BY <1>2, <1>3, <2>1
  <2>4. /\ p \in Seq(Transfer) /\ Len(p) = n + 1 /\ DOMAIN o = 1..n /\ DOMAIN p = 1..(n + 1)
        /\ p[n + 1] = x /\ \A k \in 1..n : p[k] = o[k]
    BY <1>3, <1>4, <2>2, <2>3
  <2>5. \A k \in 1..(n + 1) : k \in 1..n \/ k = n + 1
    BY <1>4
  <2>. QED  BY <1>4, <1>7, <2>2, <2>4, <2>5
<1>10. /\ OnList(debtors', D) /\ DOMAIN debtors' = DOMAIN debtors
       /\ \A k \in DOMAIN debtors :
            /\ debtors'[k].id = debtors[k].id
            /\ debtors'[k].amt = debtors[k].amt - (IF k = i THEN pay ELSE 0)
  <2>1. PICK ps, qs : ps = debtors /\ qs = debtors'
    OBVIOUS
  <2>2. /\ OnList(ps, D) /\ i \in DOMAIN ps /\ pay <= ps[i].amt /\ pay \in Nat
        /\ qs = Paid(ps, i, pay)
    BY <1>2, <1>4, <2>1 DEF Paid
  <2>3. /\ OnList(qs, D) /\ DOMAIN qs = DOMAIN ps
        /\ \A k \in DOMAIN ps : /\ qs[k].id = ps[k].id
                                /\ qs[k].amt = ps[k].amt - (IF k = i THEN pay ELSE 0)
    BY ONLY <2>2, PaidList
  <2>. QED  BY ONLY <2>1, <2>3
<1>11. /\ OnList(creditors', C) /\ DOMAIN creditors' = DOMAIN creditors
       /\ \A k \in DOMAIN creditors :
            /\ creditors'[k].id = creditors[k].id
            /\ creditors'[k].amt = creditors[k].amt - (IF k = j THEN pay ELSE 0)
  <2>1. PICK ps, qs : ps = creditors /\ qs = creditors'
    OBVIOUS
  <2>2. /\ OnList(ps, C) /\ j \in DOMAIN ps /\ pay <= ps[j].amt /\ pay \in Nat
        /\ qs = Paid(ps, j, pay)
    BY <1>2, <1>4, <2>1 DEF Paid
  <2>3. /\ OnList(qs, C) /\ DOMAIN qs = DOMAIN ps
        /\ \A k \in DOMAIN ps : /\ qs[k].id = ps[k].id
                                /\ qs[k].amt = ps[k].amt - (IF k = j THEN pay ELSE 0)
    BY ONLY <2>2, PaidList
  <2>. QED  BY ONLY <2>1, <2>3
<1>12. \A k \in DOMAIN debtors : debtors[k].amt \in Nat /\ debtors[k].id \in D
                                 /\ (debtors[k].id = d <=> k = i)
  BY <1>2, <1>4 DEF OnList, Party
<1>13. \A k \in DOMAIN creditors : creditors[k].amt \in Nat /\ creditors[k].id \in C
                                   /\ (creditors[k].id = c <=> k = j)
  BY <1>2, <1>4 DEF OnList, Party
<1>14. \A k \in DOMAIN debtors' : debtors'[k].amt + By(p, debtors'[k].id) = -Rounded(debtors'[k].id)
  <2>. SUFFICES ASSUME NEW k \in DOMAIN debtors
                PROVE  debtors'[k].amt + By(p, debtors'[k].id) = -Rounded(debtors'[k].id)
    BY <1>10
  <2>1. PICK u, a, x : u = debtors[k].id /\ a = debtors[k].amt /\ x = By(o, u)
    OBVIOUS
  <2>2. u = d <=> k = i
    BY <1>12, <2>1
  <2>3. /\ debtors'[k].id = u /\ debtors'[k].amt = a - (IF u = d THEN pay ELSE 0)
        /\ By(p, u) = x + (IF u = d THEN pay ELSE 0)
    BY <1>8, <1>10, <2>1, <2>2
  <2>4. a + x = -Rounded(u) /\ a \in Int /\ x \in Int
    BY <1>4, <1>8, <1>12, <2>1
  <2>. QED  BY ONLY <2>3, <2>4, pay \in Nat \ {0}
<1>15. \A k \in DOMAIN creditors' :
         creditors'[k].amt + To(p, creditors'[k].id) = Rounded(creditors'[k].id)
  <2>. SUFFICES ASSUME NEW k \in DOMAIN creditors
                PROVE  creditors'[k].amt + To(p, creditors'[k].id) = Rounded(creditors'[k].id)
    BY <1>11
  <2>1. PICK u, a, x : u = creditors[k].id /\ a = creditors[k].amt /\ x = To(o, u)
    OBVIOUS
  <2>2. u = c <=> k = j
    BY <1>13, <2>1
  <2>3. /\ creditors'[k].id = u /\ creditors'[k].amt = a - (IF u = c THEN pay ELSE 0)
        /\ To(p, u) = x + (IF u = c THEN pay ELSE 0)
    BY <1>8, <1>11, <2>1, <2>2
  <2>4. a + x = Rounded(u) /\ a \in Int /\ x \in Int
    BY <1>4, <1>8, <1>13, <2>1
  <2>. QED  BY ONLY <2>3, <2>4, pay \in Nat \ {0}
<1>16. /\ Settled' = {u \in D : By(p, u) = -Rounded(u)} \cup {u \in C : To(p, u) = Rounded(u)}
       /\ S = {u \in D : By(o, u) = -Rounded(u)} \cup {u \in C : To(o, u) = Rounded(u)}
  BY <1>3, <1>5, <1>6 DEF Settled
<1>17. /\ debtors[i].amt + By(o, d) = -Rounded(d) /\ debtors[i].amt \in Nat
       /\ creditors[j].amt + To(o, c) = Rounded(c) /\ creditors[j].amt \in Nat
  BY <1>2, <1>4, <1>12, <1>13
<1>18. By(o, d) # -Rounded(d) /\ To(o, c) # Rounded(c)
  <2>1. debtors[i].amt > 0 /\ creditors[j].amt > 0
    BY <1>2, <1>17
  <2>2. By(o, d) \in Int /\ To(o, c) \in Int
    BY <1>8
  <2>. QED  BY ONLY <1>17, <2>1, <2>2
<1>19. d \notin S /\ c \notin S /\ S \in SUBSET (D \cup C)
  BY <1>5, <1>7, <1>16, <1>18
<1>20. S \in SUBSET Settled' /\ Settled' \in SUBSET (D \cup C)
  <2>1. \A u \in S : /\ u # d /\ u # c
                     /\ By(p, u) = By(o, u) /\ To(p, u) = To(o, u)
    <3>. SUFFICES ASSUME NEW u \in S
                  PROVE  /\ u # d /\ u # c
                         /\ By(p, u) = By(o, u) /\ To(p, u) = To(o, u)
      OBVIOUS
    <3>1. u # d /\ u # c
      BY <1>19
    <3>2. /\ By(o, u) \in Int /\ By(p, u) = By(o, u) + 0
          /\ To(o, u) \in Int /\ To(p, u) = To(o, u) + 0
      BY <1>8, <3>1
    <3>. QED  BY ONLY <3>1, <3>2
  <2>. QED  BY <1>16, <2>1
<1>21. d \in Settled' \/ c \in Settled'
  <2>1. CASE pay = debtors[i].amt
    <3>1. By(p, d) = By(o, d) + pay /\ By(o, d) \in Int
      BY <1>8
    <3>2. By(p, d) = -Rounded(d)
      BY <1>17, <2>1, <3>1
    <3>. QED  BY <1>7, <1>16, <3>2
  <2>2. CASE pay = creditors[j].amt
    <3>1. To(p, c) = To(o, c) + pay /\ To(o, c) \in Int
      BY <1>8
    <3>2. To(p, c) = Rounded(c)
      BY <1>17, <2>2, <3>1
    <3>. QED  BY <1>7, <1>16, <3>2
  <2>. QED  BY <1>2, <2>1, <2>2
<1>22. n + 1 <= Cardinality(Settled')
  <2>1. IsFiniteSet(Settled')
    BY <1>5, <1>20, FS_Subset
  <2>2. PICK e : e \in Settled' /\ e \notin S
    BY <1>19, <1>21
  <2>3. Cardinality(S) + 1 <= Cardinality(Settled') /\ Cardinality(S) \in Nat
        /\ Cardinality(Settled') \in Nat
    BY <1>20, <2>1, <2>2, SetGrows
  <2>. QED  BY <1>4, <2>3
<1>23. n + 1 <= Cardinality(D \cup C) - 1
  <2>1. PICK T : T = S \cup {d}
    OBVIOUS
  <2>2. T \in SUBSET (D \cup C) /\ S \in SUBSET T /\ d \in T /\ c \notin T /\ c \in D \cup C
    BY <1>5, <1>7, <1>19, <2>1
  <2>3. IsFiniteSet(T)
    BY <1>5, <2>2, FS_Subset
  <2>4. Cardinality(S) + 1 <= Cardinality(T) /\ Cardinality(S) \in Nat
    BY <1>19, <2>2, <2>3, SetGrows
  <2>5. Cardinality(T) + 1 <= Cardinality(D \cup C) /\ Cardinality(T) \in Nat
        /\ Cardinality(D \cup C) \in Nat
    BY <1>5, <2>2, SetGrows
  <2>. QED  BY <1>4, <2>4, <2>5
<1>24. SumFunction([u \in Users |-> By(p, u)]) = SumFunction([u \in Users |-> To(p, u)])
  <2>1. PICK b, t, b2, t2, more, most :
          /\ b = [u \in Users |-> By(o, u)] /\ b2 = [u \in Users |-> By(p, u)]
          /\ t = [u \in Users |-> To(o, u)] /\ t2 = [u \in Users |-> To(p, u)]
          /\ more = [u \in Users |-> IF u = d THEN pay ELSE 0]
          /\ most = [u \in Users |-> IF u = c THEN pay ELSE 0]
    OBVIOUS
  <2>2. \A u \in Users : /\ b[u] \in Int /\ more[u] \in Int /\ b2[u] = b[u] + more[u]
                         /\ t[u] \in Int /\ most[u] \in Int /\ t2[u] = t[u] + most[u]
    BY <1>8, <2>1
  <2>3. SumFunctionOnSet(b2, Users) = SumFunctionOnSet(b, Users) + SumFunctionOnSet(more, Users)
    BY ONLY <1>5, <2>2, SumOfSums
  <2>4. SumFunctionOnSet(t2, Users) = SumFunctionOnSet(t, Users) + SumFunctionOnSet(most, Users)
    BY ONLY <1>5, <2>2, SumOfSums
  <2>5. SumFunctionOnSet(more, Users) = pay
    <3>1. \A u \in Users : more[u] = IF u = d THEN pay ELSE 0
      BY <2>1
    <3>. QED  BY ONLY <1>5, <1>7, <3>1, pay \in Nat \ {0}, SumOfOne
  <2>6. SumFunctionOnSet(most, Users) = pay
    <3>1. \A u \in Users : most[u] = IF u = c THEN pay ELSE 0
      BY <2>1
    <3>. QED  BY ONLY <1>5, <1>7, <3>1, pay \in Nat \ {0}, SumOfOne
  <2>7. SumFunction(b) = SumFunction(t)
    BY <1>4, <2>1
  <2>8. DOMAIN b = Users /\ DOMAIN t = Users /\ DOMAIN b2 = Users /\ DOMAIN t2 = Users
    BY <2>1
  <2>. QED  BY <2>1, <2>3, <2>4, <2>5, <2>6, <2>7, <2>8 DEF SumFunction
<1>25. /\ \A k \in DOMAIN debtors' : debtors'[k].id \in Users
       /\ \A k \in DOMAIN creditors' : creditors'[k].id \in Users
  BY <1>5, <1>10, <1>11, <1>12, <1>13
<1>26. /\ \A k \in DOMAIN debtors' :
            debtors'[k].amt + By(out', debtors'[k].id) = -Minor(net'[debtors'[k].id])
       /\ \A k \in DOMAIN creditors' :
            creditors'[k].amt + To(out', creditors'[k].id) = Minor(net'[creditors'[k].id])
  BY <1>1, <1>3, <1>14, <1>15 DEF Rounded
<1>. QED  BY <1>1, <1>3, <1>6, <1>9, <1>10, <1>11, <1>22, <1>23, <1>24, <1>26 DEF MatchInv, Rounded

-----------------------------------------------------------------------------
(***************************************************************************)
(* What every round preserves, and what follows at the end.                *)
(***************************************************************************)

\* And so does every step.
LEMMA MatchStep ==
  ASSUME LedgerInv, MatchInv, [Next]_vars
  PROVE  MatchInv'
<1>1. CASE Bill
  <2>1. phase = "ledger" /\ UNCHANGED <<match, phase>>
    BY <1>1, BillsAreGood DEF Bill, Post
  <2>. QED  BY <2>1 DEF MatchInv, match
<1>2. CASE Simplify
  BY <1>2, MatchingStarts
<1>3. CASE Match
  BY <1>3, MatchingGoesOn
<1>4. CASE Answer
  BY <1>4 DEF Answer, MatchInv
<1>5. CASE UNCHANGED vars
  <2>1. UNCHANGED <<net, debtors, creditors, out, phase>>
    BY <1>5 DEF vars
  <2>2. \A u : Rounded(u)' = Rounded(u) /\ By(out', u) = By(out, u) /\ To(out', u) = To(out, u)
    BY <2>1 DEF Rounded
  <2>3. Debtors' = Debtors /\ Creditors' = Creditors
    BY <2>2 DEF Debtors, Creditors
  <2>. QED  BY <2>1 DEF MatchInv, Settled, Debtors, Creditors, Rounded
<1>. QED  BY <1>1, <1>2, <1>3, <1>4, <1>5 DEF Next

\* In every state the transfers are what MatchInv says of them: each has
\* settled a user, and what is left of the lists is what is still owed.
THEOREM MatchIsSound == Spec => [](LedgerInv /\ MatchInv)
<1>1. Init => LedgerInv /\ MatchInv
  BY LedgerStarts, MatchStarts
<1>2. LedgerInv /\ MatchInv /\ [Next]_vars => LedgerInv' /\ MatchInv'
  BY LedgerStep, MatchStep
<1>. QED  BY <1>1, <1>2, PTL DEF Spec

-----------------------------------------------------------------------------
\* What u still has to pay or to get.
LEMMA StillOpen ==
  ASSUME LedgerInv, MatchInv, phase = "match", NEW u \in Users
  PROVE  /\ PaidBy(u) \in Nat /\ Debt(u) \in Nat /\ PaidBy(u) <= Debt(u)
         /\ PaidTo(u) \in Nat /\ Credit(u) \in Nat /\ PaidTo(u) <= Credit(u)
         /\ Credit(u) = Debt(u) + Rounded(u)
         /\ PaidBy(u) = By(out, u) /\ PaidTo(u) = To(out, u)
         /\ IF u \in Debtors
            THEN \E k \in DOMAIN debtors : debtors[k].amt = Debt(u) - PaidBy(u)
            ELSE Debt(u) = 0
         /\ IF u \in Creditors
            THEN \E k \in DOMAIN creditors : creditors[k].amt = Credit(u) - PaidTo(u)
            ELSE Credit(u) = 0
<1>1. PICK o, r : o = out /\ r = Rounded(u)
  OBVIOUS
<1>2. r \in Int /\ (u \in Debtors <=> r < 0) /\ (u \in Creditors <=> r > 0)
  BY <1>1, RoundedIsInt DEF Debtors, Creditors
<1>3. PaidBy(u) = By(o, u) /\ PaidTo(u) = To(o, u)
  BY <1>1 DEF PaidBy, PaidTo, By, To
<1>4. o \in Seq(Transfer) /\ \A k \in DOMAIN o : o[k].from \in Debtors /\ o[k].to \in Creditors
  BY <1>1 DEF MatchInv
<1>5. /\ By(o, u) \in Nat /\ To(o, u) \in Nat
      /\ u \notin Debtors => By(o, u) = 0
      /\ u \notin Creditors => To(o, u) = 0
  <2>1. /\ u \notin Debtors => \A k \in DOMAIN o : o[k].from # u
        /\ u \notin Creditors => \A k \in DOMAIN o : o[k].to # u
    BY <1>4
  <2>. QED  BY ONLY <1>4, <2>1, NoTransfers
<1>6. /\ Debt(u) = (IF r < 0 THEN -r ELSE 0) /\ Credit(u) = (IF r > 0 THEN r ELSE 0)
  <2>1. PICK z, m : z = 0 /\ m = -r /\ z \in Int /\ m \in Int
    BY <1>2
  <2>2. /\ Max({z, m}) = (IF z >= m THEN z ELSE m)
        /\ Max({z, r}) = (IF z >= r THEN z ELSE r)
    BY ONLY <1>2, <2>1, Larger
  <2>3. Debt(u) = Max({z, m}) /\ Credit(u) = Max({z, r})
    BY <1>1, <2>1 DEF Debt, Credit
  <2>. QED  BY ONLY <1>2, <2>1, <2>2, <2>3
<1>7. u \in Debtors => \E k \in DOMAIN debtors : debtors[k].amt = Debt(u) - By(o, u)
                                                 /\ debtors[k].amt \in Nat
  <2>. SUFFICES ASSUME u \in Debtors
                PROVE  \E k \in DOMAIN debtors : debtors[k].amt = Debt(u) - By(o, u)
                                                 /\ debtors[k].amt \in Nat
    OBVIOUS
  <2>1. PICK k \in DOMAIN debtors : debtors[k].id = u
    BY DEF MatchInv, OnList
  <2>2. debtors[k].amt \in Nat
    BY DEF MatchInv, OnList, Party
  <2>3. debtors[k].amt + By(o, u) = -r
    BY <1>1, <2>1 DEF MatchInv
  <2>4. Debt(u) = -r
    BY <1>2, <1>6
  <2>. QED  BY <1>2, <1>5, <2>2, <2>3, <2>4
<1>8. u \in Creditors => \E k \in DOMAIN creditors : creditors[k].amt = Credit(u) - To(o, u)
                                                     /\ creditors[k].amt \in Nat
  <2>. SUFFICES ASSUME u \in Creditors
                PROVE  \E k \in DOMAIN creditors : creditors[k].amt = Credit(u) - To(o, u)
                                                   /\ creditors[k].amt \in Nat
    OBVIOUS
  <2>1. PICK k \in DOMAIN creditors : creditors[k].id = u
    BY DEF MatchInv, OnList
  <2>2. creditors[k].amt \in Nat
    BY DEF MatchInv, OnList, Party
  <2>3. creditors[k].amt + To(o, u) = r
    BY <1>1, <2>1 DEF MatchInv
  <2>4. Credit(u) = r
    BY <1>2, <1>6
  <2>. QED  BY <1>2, <1>5, <2>2, <2>3, <2>4
<1>9. PICK d, c, x, y : d = Debt(u) /\ c = Credit(u) /\ x = By(o, u) /\ y = To(o, u)
  OBVIOUS
<1>10. d \in Nat /\ c \in Nat /\ x \in Nat /\ y \in Nat /\ c = d + r
  BY <1>2, <1>5, <1>6, <1>9
<1>11. x <= d
  <2>1. CASE u \in Debtors
    <3>1. PICK a \in Nat : a = d - x
      BY <1>7, <1>9, <2>1
    <3>. QED  BY <1>10, <3>1
  <2>2. CASE u \notin Debtors
    BY <1>5, <1>9, <1>10, <2>2
  <2>. QED  BY <2>1, <2>2
<1>12. y <= c
  <2>1. CASE u \in Creditors
    <3>1. PICK a \in Nat : a = c - y
      BY <1>8, <1>9, <2>1
    <3>. QED  BY <1>10, <3>1
  <2>2. CASE u \notin Creditors
    BY <1>5, <1>9, <1>10, <2>2
  <2>. QED  BY <2>1, <2>2
<1>. QED  BY <1>1, <1>2, <1>3, <1>6, <1>7, <1>8, <1>9, <1>10, <1>11, <1>12

\* No transfer asks more of a debtor, or brings a creditor more, than the
\* balance that getGroupBalances computed for the user.
THEOREM NobodyPaysTooMuch == Spec => []NobodyOverpays
<1>1. LedgerInv /\ MatchInv => NobodyOverpays
  BY StillOpen DEF NobodyOverpays
<1>. QED  BY <1>1, MatchIsSound, PTL

-----------------------------------------------------------------------------
\* A side with nothing above the dust has at most one minor unit a user left.
LEMMA DustIsLittle ==
  ASSUME NEW left, NEW S \in SUBSET Users, NEW R \in SUBSET S,
         \A u \in Users : left[u] \in Int,
         \A u \in Users : left[u] <= (IF u \in R THEN 1 ELSE 0), IsFiniteSet(Users)
  PROVE  SumFunctionOnSet(left, Users) <= Cardinality(S)
<1>1. PICK one : one = [u \in Users |-> IF u \in R THEN 1 ELSE 0]
  OBVIOUS
<1>2. \A u \in Users : one[u] = (IF u \in R THEN 1 ELSE 0) /\ one[u] \in Int /\ left[u] <= one[u]
  BY <1>1
<1>3. SumFunctionOnSet(left, Users) <= SumFunctionOnSet(one, Users)
  BY <1>2, SumIsMonotonic
<1>4. SumFunctionOnSet(one, Users) = Cardinality(R)
  <2>1. R \in SUBSET Users
    OBVIOUS
  <2>. QED  BY <1>2, <2>1, SumCounts
<1>5. /\ Cardinality(R) <= Cardinality(S) /\ Cardinality(R) \in Nat /\ Cardinality(S) \in Nat
  BY FS_Subset, FS_CardinalityType
<1>6. SumFunctionOnSet(left, Users) \in Int
  BY SumIsInt
<1>. QED  BY <1>3, <1>4, <1>5, <1>6

\* Once a side is done, what is left is dust and what the nets are off by.
LEMMA LittleIsLeft ==
  ASSUME LedgerInv, MatchInv, phase = "match", ~Matching,
         NEW S, S = Debtors \cup Creditors,
         NEW r, NEW l, NEW m, \A u \in Users : /\ r[u] = Rounded(u)
                                               /\ l[u] = Debt(u) - PaidBy(u)
                                               /\ m[u] = Credit(u) - PaidTo(u),
         NEW off, off = Distance(SumFunctionOnSet(r, Users), 0)
  PROVE  /\ SumFunctionOnSet(l, Users) <= Cardinality(S) + off
         /\ SumFunctionOnSet(m, Users) <= Cardinality(S) + off
<1>1. IsFiniteSet(Users) /\ S \in SUBSET Users /\ Debtors \in SUBSET S /\ Creditors \in SUBSET S
      /\ \A u \in Users : r[u] \in Int
  BY RoundedIsInt
<1>2. PICK d, c, b, t : /\ d = [u \in Users |-> Debt(u)] /\ c = [u \in Users |-> Credit(u)]
                        /\ b = [u \in Users |-> By(out, u)] /\ t = [u \in Users |-> To(out, u)]
  OBVIOUS
<1>3. \A u \in Users : /\ d[u] \in Int /\ c[u] \in Int /\ b[u] \in Int /\ t[u] \in Int
                       /\ r[u] \in Int /\ l[u] \in Int /\ m[u] \in Int
                       /\ c[u] = d[u] + r[u] /\ d[u] = l[u] + b[u] /\ c[u] = m[u] + t[u]
  <2>. SUFFICES ASSUME NEW u \in Users
                PROVE  /\ d[u] \in Int /\ c[u] \in Int /\ b[u] \in Int /\ t[u] \in Int
                       /\ r[u] \in Int /\ l[u] \in Int /\ m[u] \in Int
                       /\ c[u] = d[u] + r[u] /\ d[u] = l[u] + b[u] /\ c[u] = m[u] + t[u]
    OBVIOUS
  <2>1. /\ PaidBy(u) \in Nat /\ Debt(u) \in Nat /\ PaidTo(u) \in Nat /\ Credit(u) \in Nat
        /\ Credit(u) = Debt(u) + Rounded(u)
        /\ PaidBy(u) = By(out, u) /\ PaidTo(u) = To(out, u)
    BY StillOpen
  <2>2. d[u] = Debt(u) /\ c[u] = Credit(u) /\ b[u] = PaidBy(u) /\ t[u] = PaidTo(u)
    BY <1>2, <2>1
  <2>3. r[u] = Rounded(u) /\ r[u] \in Int /\ l[u] = Debt(u) - PaidBy(u) /\ m[u] = Credit(u) - PaidTo(u)
    BY <1>1
  <2>. QED  BY ONLY <2>1, <2>2, <2>3
<1>4. SumFunctionOnSet(c, Users) = SumFunctionOnSet(d, Users) + SumFunctionOnSet(r, Users)
  BY ONLY <1>1, <1>3, SumOfSums
<1>5. SumFunctionOnSet(d, Users) = SumFunctionOnSet(l, Users) + SumFunctionOnSet(b, Users)
  BY ONLY <1>1, <1>3, SumOfSums
<1>6. SumFunctionOnSet(c, Users) = SumFunctionOnSet(m, Users) + SumFunctionOnSet(t, Users)
  BY ONLY <1>1, <1>3, SumOfSums
<1>7. SumFunctionOnSet(b, Users) = SumFunctionOnSet(t, Users)
  <2>1. SumFunction(b) = SumFunction(t)
    BY <1>2 DEF MatchInv
  <2>. QED  BY <1>2, <2>1 DEF SumFunction
<1>8. /\ SumFunctionOnSet(r, Users) \in Int /\ SumFunctionOnSet(l, Users) \in Int
      /\ SumFunctionOnSet(m, Users) \in Int /\ SumFunctionOnSet(d, Users) \in Int
      /\ SumFunctionOnSet(b, Users) \in Int /\ SumFunctionOnSet(c, Users) \in Int
  BY ONLY <1>1, <1>3, SumIsInt
<1>9. SumFunctionOnSet(m, Users) = SumFunctionOnSet(l, Users) + SumFunctionOnSet(r, Users)
  <2>1. PICK sm, sl, sr, sb, st, sd, sc :
          /\ sm = SumFunctionOnSet(m, Users) /\ sl = SumFunctionOnSet(l, Users)
          /\ sr = SumFunctionOnSet(r, Users) /\ sb = SumFunctionOnSet(b, Users)
          /\ st = SumFunctionOnSet(t, Users) /\ sd = SumFunctionOnSet(d, Users)
          /\ sc = SumFunctionOnSet(c, Users)
    OBVIOUS
  <2>2. /\ sc = sd + sr /\ sd = sl + sb /\ sc = sm + st /\ sb = st
        /\ sr \in Int /\ sl \in Int /\ sm \in Int /\ sd \in Int /\ sb \in Int /\ sc \in Int
    BY ONLY <1>4, <1>5, <1>6, <1>7, <1>8, <2>1
  <2>3. sm = sl + sr
    BY ONLY <2>2
  <2>. QED  BY ONLY <2>1, <2>3
<1>10. off \in Nat /\ SumFunctionOnSet(r, Users) <= off /\ -SumFunctionOnSet(r, Users) <= off
  BY <1>8 DEF Distance
<1>11. Cardinality(S) \in Nat
  BY <1>1, FS_Subset, FS_CardinalityType
<1>12. CASE Open(debtors) = {}
  <2>1. \A u \in Users : l[u] <= (IF u \in Debtors THEN 1 ELSE 0)
    <3>. SUFFICES ASSUME NEW u \in Users
                  PROVE  l[u] <= (IF u \in Debtors THEN 1 ELSE 0)
      OBVIOUS
    <3>1. l[u] = Debt(u) - PaidBy(u) /\ PaidBy(u) \in Nat
      BY StillOpen
    <3>2. CASE u \in Debtors
      <4>1. PICK k \in DOMAIN debtors : debtors[k].amt = Debt(u) - PaidBy(u)
        BY <3>2, StillOpen
      <4>2. ~(debtors[k].amt > 1)
        BY <1>12 DEF Open, Dust
      <4>. QED  BY <1>3, <3>1, <3>2, <4>1, <4>2
    <3>3. CASE u \notin Debtors
      <4>1. Debt(u) = 0
        BY <3>3, StillOpen
      <4>. QED  BY <3>1, <3>3, <4>1
    <3>. QED  BY <3>2, <3>3
  <2>2. \A u \in Users : l[u] \in Int
    BY <1>3
  <2>3. SumFunctionOnSet(l, Users) <= Cardinality(S)
    BY ONLY <1>1, <2>1, <2>2, DustIsLittle
  <2>. QED  BY <1>8, <1>9, <1>10, <1>11, <2>3
<1>13. CASE Open(creditors) = {}
  <2>1. \A u \in Users : m[u] <= (IF u \in Creditors THEN 1 ELSE 0)
    <3>. SUFFICES ASSUME NEW u \in Users
                  PROVE  m[u] <= (IF u \in Creditors THEN 1 ELSE 0)
      OBVIOUS
    <3>1. m[u] = Credit(u) - PaidTo(u) /\ PaidTo(u) \in Nat
      BY StillOpen
    <3>2. CASE u \in Creditors
      <4>1. PICK k \in DOMAIN creditors : creditors[k].amt = Credit(u) - PaidTo(u)
        BY <3>2, StillOpen
      <4>2. ~(creditors[k].amt > 1)
        BY <1>13 DEF Open, Dust
      <4>. QED  BY <1>3, <3>1, <3>2, <4>1, <4>2
    <3>3. CASE u \notin Creditors
      <4>1. Credit(u) = 0
        BY <3>3, StillOpen
      <4>. QED  BY <3>1, <3>3, <4>1
    <3>. QED  BY <3>2, <3>3
  <2>2. \A u \in Users : m[u] \in Int
    BY <1>3
  <2>3. SumFunctionOnSet(m, Users) <= Cardinality(S)
    BY ONLY <1>1, <2>1, <2>2, DustIsLittle
  <2>. QED  BY <1>8, <1>9, <1>10, <1>11, <2>3
<1>. QED  BY <1>12, <1>13 DEF Matching

\* The greedy matching ends with fewer transfers than users with a balance,
\* and leaves at most a minor unit of each, beside what the rounded nets
\* fail to balance by.
THEOREM SettlementIsShort == Spec => []SettlesInFewTransfers
<1>1. ASSUME LedgerInv, MatchInv, phase = "match", ~Matching
      PROVE  SettlesInFewTransfers
  <2>1. PICK S, n, r, l, m, off :
          /\ S = Debtors \cup Creditors /\ n = Cardinality(S)
          /\ r = [u \in Users |-> Rounded(u)]
          /\ l = [u \in Users |-> Debt(u) - PaidBy(u)]
          /\ m = [u \in Users |-> Credit(u) - PaidTo(u)]
          /\ off = Distance(SumFunctionOnSet(r, Users), 0)
    OBVIOUS
  <2>2. {u \in Users : Rounded(u) # 0} = S
    BY <1>1, <2>1, RoundedIsInt DEF Debtors, Creditors
  <2>3. /\ SumFunctionOnSet(l, Users) <= n + off
        /\ SumFunctionOnSet(m, Users) <= n + off
    <3>1. \A u \in Users : r[u] = Rounded(u) /\ l[u] = Debt(u) - PaidBy(u)
                                             /\ m[u] = Credit(u) - PaidTo(u)
      BY <2>1
    <3>. QED  BY <1>1, <2>1, <3>1, LittleIsLeft
  <2>4. SumFunction(l) <= n + off /\ SumFunction(m) <= n + off
        /\ off = Distance(SumFunction(r), 0)
    <3>1. DOMAIN l = Users /\ DOMAIN m = Users /\ DOMAIN r = Users
      BY <2>1
    <3>. QED  BY <2>1, <2>3, <3>1 DEF SumFunction
  <2>5. n \in Nat
    BY <1>1, <2>1, RoundedIsInt, FS_CardinalityType
  <2>6. Len(out) <= Max({0, n - 1})
    <3>1. PICK z, k : z = 0 /\ k = n - 1 /\ z \in Int /\ k \in Int
      BY <2>5
    <3>2. Max({z, k}) = IF z >= k THEN z ELSE k
      BY ONLY <3>1, Larger
    <3>3. Len(out) = 0 \/ Len(out) <= n - 1
      BY <1>1, <2>1 DEF MatchInv
    <3>. QED  BY <2>5, <3>1, <3>2, <3>3
  <2>7. /\ n = Cardinality({u \in Users : Rounded(u) # 0})
        /\ off = Distance(SumFunction([u \in Users |-> Rounded(u)]), 0)
        /\ SumFunction([u \in Users |-> Debt(u) - PaidBy(u)]) <= n + off
        /\ SumFunction([u \in Users |-> Credit(u) - PaidTo(u)]) <= n + off
    BY <2>1, <2>2, <2>4
  <2>. QED  BY <2>6, <2>7 DEF SettlesInFewTransfers
<1>2. LedgerInv /\ MatchInv => SettlesInFewTransfers
  BY <1>1 DEF SettlesInFewTransfers
<1>. QED  BY <1>2, MatchIsSound, PTL

\* Every reachable state is of its types: nets are whole numbers, shares and
\* what is left of a debt or a credit are never negative, no transfer is of
\* nothing.
THEOREM BalanceTypeCorrect == Spec => []TypeOK
<1>1. ASSUME LedgerInv, MatchInv PROVE TypeOK
  <2>1. net \in [Users -> Int] /\ bills \in 0..MaxBills /\ phase \in {"ledger", "match"}
    BY <1>1 DEF LedgerInv, MatchInv
  <2>2. DOMAIN last.owed \subseteq Users /\ \A u \in DOMAIN last.owed : last.owed[u] \in Nat
    BY <1>1 DEF LedgerInv, IsGood, IsSplit, Refused
  <2>3. /\ \A k \in DOMAIN debtors : debtors[k] \in Party
        /\ \A k \in DOMAIN creditors : creditors[k] \in Party
        /\ \A k \in DOMAIN out : out[k] \in Transfer
    <3>1. CASE phase = "ledger"
      BY <1>1, <3>1 DEF MatchInv
    <3>2. CASE phase = "match"
      <4>1. OnList(debtors, Debtors) /\ OnList(creditors, Creditors) /\ out \in Seq(Transfer)
        BY <1>1, <3>2 DEF MatchInv
      <4>2. \A k \in DOMAIN out : out[k] \in Transfer
        BY <4>1
      <4>3. /\ \A k \in DOMAIN debtors : debtors[k] \in Party
            /\ \A k \in DOMAIN creditors : creditors[k] \in Party
        BY <4>1 DEF OnList
      <4>. QED  BY <4>2, <4>3
    <3>. QED  BY <2>1, <3>1, <3>2
  <2>4. /\ Range(debtors) \cup Range(creditors) \subseteq Party
        /\ Range(out) \subseteq Transfer
    BY <2>3 DEF Range
  <2>. QED  BY <2>1, <2>2, <2>4 DEF TypeOK
<1>. QED  BY <1>1, MatchIsSound, PTL

-----------------------------------------------------------------------------
(***************************************************************************)
(* ExpenseActivity: what requests carry from place to place.               *)
(***************************************************************************)

\* What a request has with it at the places of its handler.
Fits(k) ==
  /\ k.at = "react" => k.mark \in Marks
  /\ k.at = "note" => k.mark \in marks.rows /\ marks.logged[k.mark] = 0
  /\ k.at = "attach" => k.receipt \in receipts.stored
  /\ k.at = "point" => k.receipt \in receipts.attached
  /\ k.at \in {"commit", "find", "bump"} => k.swept = 0
  /\ k.at \in {"commit", "find"} => k.row = 0
  /\ k.at = "commit" => k.write # None /\ (k.write # "delete" => k.choice \in Categories)
  /\ k.at \in {"find", "bump"} => k.choice \in Categories
  /\ k.at = "bump" /\ k.row # 0 => k.row \in RowsOf(k.choice)
  /\ k.at = "fill" => k.key \in KeySet /\ (~k.raced => k.table = Table)

OneNote ==
  \A r, q \in Requests :
    req[r].at = "note" /\ req[q].at = "note" /\ req[r].mark = req[q].mark => r = q

\* Requests carry what fits their place, a mark has one writer of its log.
ActivityInv ==
  /\ ActivityTypeOK
  /\ \A r \in Requests : Fits(req[r])
  /\ OneNote
  /\ TrailIsSound /\ NoHitIsLost /\ ReportsAreSwept

\* A request goes to one place, the others stay.
LEMMA Goes ==
  ASSUME req \in [Requests -> Request], NEW r \in Requests, NEW k \in Request, Go(r, k)
  PROVE  /\ req' \in [Requests -> Request]
         /\ req'[r] = k /\ \A q \in Requests \ {r} : req'[q] = req[q]
  BY DEF Go

LEMMA IdleIsRequest == Idle \in Request /\ NoReport.of \in Tables
  BY DEF Idle, Request, Places, Tables, NoTable, Lives, NoReport, None, NoChoice

\* The counters in order of creation.
LEMMA CountersAre ==
  ASSUME ActivityTypeOK
  PROVE  \E n \in Nat : /\ n = Len(counters) /\ DOMAIN counters = 1..n
                        /\ \A j \in 1..n : /\ counters[j] \in [choice : Categories, hits : Nat]
                                           /\ counters[j].choice \in Categories
                                           /\ counters[j].hits \in Nat
<1>1. PICK Entry, cs : Entry = [choice : Categories, hits : Nat] /\ cs = counters
  OBVIOUS
<1>2. cs \in Seq(Entry)
  BY <1>1 DEF ActivityTypeOK
<1>3. PICK n \in Nat : n = Len(cs)
  BY <1>2
<1>4. DOMAIN cs = 1..n /\ \A j \in 1..n : cs[j] \in Entry
  BY ONLY <1>2, <1>3
<1>5. \A e \in Entry : e.choice \in Categories /\ e.hits \in Nat
  BY <1>1
<1>. QED  BY <1>1, <1>3, <1>4, <1>5

\* The places that a request comes to, and what it takes along.
LEMMA Steps ==
  ASSUME ActivityTypeOK, \A r \in Requests : Fits(req[r]),
         NEW r \in Requests, Step(r)
  PROVE  /\ req' \in [Requests -> Request]
         /\ \A q \in Requests \ {r} :
              \/ req'[q] = req[q]
              \/ /\ Commit(r) /\ req[q].at = "fill"
                 /\ req'[q] = [req[q] EXCEPT !.raced = TRUE]
<1>. USE DEF ActivityTypeOK
<1>1. PICK k : k = req[r]
  OBVIOUS
<1>2. k \in Request
  BY <1>1
<1>3. CASE \E j \in Request : Go(r, j)
  BY <1>3, Goes
<1>4. CASE CreateReaction(r)
  <2>1. [k EXCEPT !.at = "note"] \in Request
    BY <1>2 DEF Request, Places
  <2>. QED  BY <1>1, <1>3, <1>4, <2>1 DEF CreateReaction
<1>5. CASE LogReaction(r) \/ Point(r) \/ Fill(r) \/ Fail(r)
  BY <1>3, <1>5, IdleIsRequest DEF LogReaction, Point, Fill, Fail
<1>6. CASE Attach(r)
  <2>1. [k EXCEPT !.at = "point"] \in Request
    BY <1>2 DEF Request, Places
  <2>. QED  BY <1>1, <1>3, <1>6, <2>1 DEF Attach
<1>7. CASE Commit(r)
  <2>1. \A q \in Requests : req[q] \in Request
    OBVIOUS
  <2>2. \A q \in Requests : req'[q] = IF q = r
          THEN [req[r] EXCEPT !.at = IF req[r].write = "delete" THEN "sweep" ELSE "find"]
          ELSE [req[q] EXCEPT !.raced = req[q].raced \/ req[q].at = "fill"]
    BY <1>7 DEF Commit
  <2>3. req'[r] \in Request
    <3>1. PICK at : at = IF req[r].write = "delete" THEN "sweep" ELSE "find"
      OBVIOUS
    <3>2. at \in Places /\ req'[r] = [k EXCEPT !.at = at]
      BY <1>1, <2>2, <3>1 DEF Places
    <3>. QED  BY <1>2, <3>2 DEF Request
  <2>4. ASSUME NEW q \in Requests \ {r}
        PROVE  /\ req'[q] \in Request
               /\ req'[q] = req[q] \/ (req[q].at = "fill" /\ req'[q] = [req[q] EXCEPT !.raced = TRUE])
    <3>1. req[q].raced \in BOOLEAN /\ req[q] = [req[q] EXCEPT !.raced = req[q].raced]
      BY <2>1 DEF Request
    <3>2. req'[q] = [req[q] EXCEPT !.raced = req[q].raced \/ req[q].at = "fill"]
      BY <2>2
    <3>3. CASE req[q].at = "fill"
      <4>1. req'[q] = [req[q] EXCEPT !.raced = TRUE]
        BY <3>1, <3>2, <3>3
      <4>. QED  BY <2>1, <3>3, <4>1 DEF Request
    <3>4. CASE req[q].at # "fill"
      BY <2>1, <3>1, <3>2, <3>4
    <3>. QED  BY <3>3, <3>4
  <2>5. DOMAIN req' = Requests /\ req' = [q \in Requests |-> req'[q]]
    BY <1>7 DEF Commit
  <2>. QED  BY <1>7, <2>3, <2>4, <2>5
<1>8. CASE Find(r)
  <2>1. [k EXCEPT !.at = "bump"] \in Request
    BY <1>2 DEF Request, Places
  <2>2. ASSUME NEW i \in RowsOf(k.choice)
        PROVE  [k EXCEPT !.at = "bump", !.row = i, !.hits = counters[i].hits] \in Request
    <3>1. \A j \in DOMAIN counters : j \in Nat /\ counters[j].hits \in Nat
      <4>1. \E n \in Nat : DOMAIN counters = 1..n /\ \A j \in 1..n : counters[j].hits \in Nat
        BY CountersAre
      <4>. QED  BY <4>1
    <3>2. i \in DOMAIN counters
      BY DEF RowsOf
    <3>3. i \in Nat /\ counters[i].hits \in Nat
      BY <3>1, <3>2
    <3>. QED  BY <1>2, <3>3 DEF Request, Places
  <2>. QED  BY <1>1, <1>3, <1>8, <2>1, <2>2 DEF Find
<1>9. CASE Increment(r) \/ CreateCounter(r)
  <2>1. [k EXCEPT !.at = "sweep"] \in Request
    BY <1>2 DEF Request, Places
  <2>. QED  BY <1>1, <1>3, <1>9, <2>1 DEF Increment, CreateCounter
<1>10. CASE Sweep(r)
  <2>1. PICK n \in Nat : n = k.swept + 1
    BY <1>2 DEF Request
  <2>2. [k EXCEPT !.swept = n] \in Request
    BY <1>2 DEF Request
  <2>3. Go(r, Idle) \/ Go(r, [k EXCEPT !.swept = n])
    BY <1>1, <1>10, <2>1 DEF Sweep
  <2>. QED  BY <1>3, <2>2, <2>3, IdleIsRequest
<1>11. ASSUME NEW mark \in Marks, React(r, mark)
       PROVE  \E j \in Request : Go(r, j)
  <2>1. [Idle EXCEPT !.at = "react", !.mark = mark] \in Request
    BY IdleIsRequest DEF Request, Places
  <2>. QED  BY <1>11, <2>1 DEF React
<1>12. ASSUME NEW receipt \in Receipts, Upload(r, receipt)
       PROVE  \E j \in Request : Go(r, j)
  <2>1. [Idle EXCEPT !.at = "attach", !.receipt = receipt] \in Request
    BY IdleIsRequest DEF Request, Places
  <2>. QED  BY <1>12, <2>1 DEF Upload
<1>13. ASSUME NEW write \in {"create", "reclassify", "delete"},
              NEW choice \in Categories \cup {NoChoice}, Start(r, write, choice)
       PROVE  \E j \in Request : Go(r, j)
  <2>1. [Idle EXCEPT !.at = "commit", !.write = write, !.choice = choice] \in Request
    BY IdleIsRequest DEF Request, Places
  <2>. QED  BY <1>13, <2>1 DEF Start
<1>14. ASSUME NEW key \in KeySet, Query(r, key)
       PROVE  \E j \in Request : Go(r, j)
  <2>1. Table \in Tables
    BY DEF Table, Tables
  <2>2. [Idle EXCEPT !.at = "fill", !.key = key, !.table = Table] \in Request
    BY <2>1, IdleIsRequest DEF Request, Places
  <2>. QED  BY <1>14, <2>2 DEF Query
<1>. QED  BY <1>3, <1>4, <1>5, <1>6, <1>7, <1>8, <1>9, <1>10, <1>11, <1>12, <1>13, <1>14 DEF Step

\* A list with an element more.
LEMMA AppendIs ==
  ASSUME NEW S, NEW cs \in Seq(S), NEW x \in S, NEW n \in Nat, n = Len(cs), NEW ds, ds = Append(cs, x)
  PROVE  /\ ds \in Seq(S) /\ DOMAIN cs = 1..n /\ DOMAIN ds = 1..(n + 1)
         /\ ds[n + 1] = x /\ \A i \in 1..n : ds[i] = cs[i]
  OBVIOUS

\* What a step leaves of what others count on.
LEMMA Grows ==
  ASSUME ActivityTypeOK, \A r \in Requests : Fits(req[r]), NEW r \in Requests, Step(r)
  PROVE  /\ marks.rows \subseteq marks'.rows
         /\ receipts.stored \subseteq receipts'.stored
         /\ receipts.attached \subseteq receipts'.attached
         /\ \A c : RowsOf(c) \subseteq RowsOf(c)'
         /\ Commit(r) \/ Table' = Table
         /\ \A m \in Marks : marks'.logged[m] = marks.logged[m]
                             \/ (LogReaction(r) /\ m = req[r].mark)
<1>1. /\ marks.rows \subseteq marks'.rows
      /\ \A m \in Marks : marks'.logged[m] = marks.logged[m]
                          \/ (LogReaction(r) /\ m = req[r].mark)
  <2>1. CASE UNCHANGED marks
    BY <2>1
  <2>2. CASE CreateReaction(r)
    BY <2>2 DEF CreateReaction, ActivityTypeOK
  <2>3. CASE LogReaction(r)
    BY <2>3 DEF LogReaction, ActivityTypeOK
  <2>. QED  BY <2>1, <2>2, <2>3 DEF Step, Attach, Point, Commit, Find, Increment, CreateCounter,
                                 Sweep, Fill, Fail, React, Upload, Start, Query
<1>2. /\ receipts.stored \subseteq receipts'.stored
      /\ receipts.attached \subseteq receipts'.attached
  <2>1. CASE UNCHANGED receipts
    BY <2>1
  <2>2. CASE Attach(r) \/ \E receipt \in Receipts : Upload(r, receipt)
    <3>1. receipts = [stored |-> receipts.stored, attached |-> receipts.attached]
      BY DEF ActivityTypeOK
    <3>2. \E x : \/ receipts' = [receipts EXCEPT !.attached = @ \cup {x}]
                \/ receipts' = [receipts EXCEPT !.stored = @ \cup {x}]
      BY <2>2 DEF Attach, Upload
    <3>. QED  BY <3>1, <3>2
  <2>. QED  BY <2>1, <2>2, ZenonT(60)
            DEF Step, CreateReaction, LogReaction, Point, Commit, Find, Increment, CreateCounter,
                Sweep, Fill, Fail, React, Start, Query
<1>3. \A c : RowsOf(c) \subseteq RowsOf(c)'
  <2>1. CASE UNCHANGED counters
    BY <2>1 DEF RowsOf
  <2>2. CASE Increment(r) \/ CreateCounter(r)
    <3>. SUFFICES ASSUME NEW c, NEW i \in RowsOf(c) PROVE i \in RowsOf(c)'
      OBVIOUS
    <3>1. PICK n \in Nat : /\ n = Len(counters) /\ DOMAIN counters = 1..n
                           /\ \A j \in 1..n : counters[j] \in [choice : Categories, hits : Nat]
      BY CountersAre
    <3>2. i \in 1..n /\ counters[i].choice = c
      BY <3>1 DEF RowsOf
    <3>3. CASE Increment(r)
      <4>1. PICK h, j : counters' = [counters EXCEPT ![j].hits = h]
        BY <3>3 DEF Increment, Incremented
      <4>2. DOMAIN counters' = 1..n /\ counters'[i].choice = counters[i].choice
        BY <3>1, <3>2, <4>1
      <4>. QED  BY <3>2, <4>2 DEF RowsOf
    <3>4. CASE CreateCounter(r)
      <4>1. PICK x, cs, ds, Entry :
              /\ cs = counters /\ ds = counters' /\ ds = Append(cs, x)
              /\ x = [choice |-> req[r].choice, hits |-> 1]
              /\ Entry = [choice : Categories, hits : Nat]
        BY <3>4 DEF CreateCounter
      <4>2. cs \in Seq(Entry)
        BY <4>1 DEF ActivityTypeOK
      <4>3. x \in Entry
        BY <3>4, <4>1 DEF CreateCounter, Fits
      <4>5. DOMAIN ds = 1..(n + 1) /\ \A j \in 1..n : ds[j] = cs[j]
        BY <3>1, <4>1, <4>2, <4>3, AppendIs
      <4>4. i \in DOMAIN counters' /\ counters'[i] = counters[i]
        BY <3>2, <4>1, <4>5
      <4>. QED  BY <3>2, <4>4 DEF RowsOf
    <3>. QED  BY <2>2, <3>3, <3>4
  <2>. QED  BY <2>1, <2>2 DEF Step, CreateReaction, LogReaction, Attach, Point, Commit, Find,
                           Sweep, Fill, Fail, React, Upload, Start, Query
<1>4. Commit(r) \/ Table' = Table
  <2>1. CASE UNCHANGED expense
    BY <2>1 DEF Table
  <2>2. CASE Point(r)
    BY <2>2 DEF Point, Table, ActivityTypeOK
  <2>. QED  BY <2>1, <2>2 DEF Step, CreateReaction, LogReaction, Attach, Find, Increment,
                           CreateCounter, Sweep, Fill, Fail, React, Upload, Start, Query
<1>. QED  BY <1>1, <1>2, <1>3, <1>4

\* Every step leaves all variables of their types.
LEMMA TypeStep ==
  ASSUME ActivityTypeOK, \A r \in Requests : Fits(req[r]), TrailIsSound,
         NEW r \in Requests, Step(r)
  PROVE  ActivityTypeOK'
<1>1. req' \in [Requests -> Request] /\ req[r] \in Request /\ Fits(req[r])
  BY Steps DEF ActivityTypeOK
<1>2. expense' \in [live : Lives, choice : Categories \cup {NoChoice}, receipt : Receipts \cup {None}]
  <2>1. CASE UNCHANGED expense
    BY <2>1 DEF ActivityTypeOK
  <2>2. CASE Point(r)
    <3>1. req[r].receipt \in Receipts
      BY <1>1, <2>2 DEF Point, Fits, ActivityTypeOK
    <3>. QED  BY <2>2, <3>1 DEF Point, ActivityTypeOK
  <2>3. CASE Commit(r)
    <3>1. req[r].write \in {"create", "reclassify", "delete"}
          /\ req[r].choice \in Categories \cup {NoChoice}
      BY <1>1, <2>3 DEF Commit, Fits, Request
    <3>2. expense' = Written(req[r])
      BY <2>3 DEF Commit
    <3>3. CASE req[r].write = "create"
      BY <3>1, <3>2, <3>3 DEF Written, ActivityTypeOK, Lives
    <3>4. CASE req[r].write = "reclassify"
      BY <3>1, <3>2, <3>4 DEF Written, ActivityTypeOK, Lives
    <3>5. CASE req[r].write = "delete"
      BY <3>1, <3>2, <3>5 DEF Written, ActivityTypeOK, Lives
    <3>. QED  BY <3>1, <3>3, <3>4, <3>5
  <2>. QED  BY <2>1, <2>2, <2>3 DEF Step, CreateReaction, LogReaction, Attach, Find, Increment,
                           CreateCounter, Sweep, Fill, Fail, React, Upload, Start, Query
<1>3. marks' \in [rows : SUBSET Marks, logged : [Marks -> Nat]]
  <2>1. CASE UNCHANGED marks
    BY <2>1 DEF ActivityTypeOK
  <2>2. CASE CreateReaction(r)
    <3>1. req[r].mark \in Marks
      BY <1>1, <2>2 DEF CreateReaction, Fits
    <3>. QED  BY <2>2, <3>1 DEF CreateReaction, ActivityTypeOK
  <2>3. CASE LogReaction(r)
    <3>1. marks.logged \in [Marks -> Nat] /\ marks.rows \in SUBSET Marks
          /\ marks = [rows |-> marks.rows, logged |-> marks.logged]
      BY DEF ActivityTypeOK
    <3>2. PICK l, l0, m : /\ l0 = marks.logged /\ m = req[r].mark
                          /\ l = [l0 EXCEPT ![m] = l0[m] + 1]
      OBVIOUS
    <3>3. l \in [Marks -> Nat]
      <4>1. l0 \in [Marks -> Nat]
        BY <3>1, <3>2
      <4>2. CASE m \in Marks
        <5>1. PICK n \in Nat : n = l0[m] + 1
          BY <4>1, <4>2
        <5>2. l = [l0 EXCEPT ![m] = n]
          BY <3>2, <5>1
        <5>. QED  BY <4>1, <5>2
      <4>3. CASE m \notin Marks
        <5>1. l = l0
          BY <3>2, <4>1, <4>3
        <5>. QED  BY <4>1, <5>1
      <4>. QED  BY <4>2, <4>3
    <3>4. marks' = [rows |-> marks.rows, logged |-> l]
      BY <2>3, <3>1, <3>2 DEF LogReaction
    <3>. QED  BY <3>1, <3>3, <3>4
  <2>. QED  BY <2>1, <2>2, <2>3 DEF Step, Attach, Point, Commit, Find, Increment, CreateCounter,
                                 Sweep, Fill, Fail, React, Upload, Start, Query
<1>4. receipts' \in [stored : SUBSET Receipts, attached : SUBSET Receipts]
  <2>1. CASE UNCHANGED receipts
    BY <2>1 DEF ActivityTypeOK
  <2>2. CASE Attach(r)
    <3>1. req[r].receipt \in Receipts
      BY <1>1, <2>2 DEF Attach, Fits, ActivityTypeOK
    <3>. QED  BY <2>2, <3>1 DEF Attach, ActivityTypeOK
  <2>3. ASSUME NEW receipt \in Receipts, Upload(r, receipt)
        PROVE  receipts' \in [stored : SUBSET Receipts, attached : SUBSET Receipts]
    <3>1. PICK s, a : s = receipts.stored /\ a = receipts.attached
      OBVIOUS
    <3>2. receipts = [stored |-> s, attached |-> a] /\ s \in SUBSET Receipts /\ a \in SUBSET Receipts
      BY <3>1 DEF ActivityTypeOK
    <3>3. receipts' = [stored |-> s \cup {receipt}, attached |-> a]
      BY <2>3, <3>2 DEF Upload
    <3>. QED  BY <3>2, <3>3
  <2>. QED  BY <2>1, <2>2, <2>3 DEF Step, CreateReaction, LogReaction, Point, Commit, Find,
                           Increment, CreateCounter, Sweep, Fill, Fail, React, Start, Query
<1>5. counters' \in Seq([choice : Categories, hits : Nat]) /\ bumped' \in [Categories -> Nat]
  <2>1. CASE UNCHANGED <<counters, bumped>>
    BY <2>1 DEF ActivityTypeOK
  <2>2. CASE Increment(r) \/ CreateCounter(r)
    <3>1. PICK Entry, cs : Entry = [choice : Categories, hits : Nat] /\ cs = counters
      OBVIOUS
    <3>2. PICK n \in Nat : n = Len(cs) /\ DOMAIN cs = 1..n /\ \A j \in 1..n : cs[j] \in Entry
      BY <3>1, CountersAre
    <3>3. cs \in Seq(Entry) /\ req[r].choice \in Categories /\ bumped \in [Categories -> Nat]
      BY <1>1, <2>2, <3>1 DEF Fits, Increment, CreateCounter, ActivityTypeOK
    <3>4. bumped' \in [Categories -> Nat]
      <4>1. bumped' = [bumped EXCEPT ![req[r].choice] = @ + 1]
        BY <2>2 DEF Increment, CreateCounter
      <4>. QED  BY <3>3, <4>1
    <3>5. CASE Increment(r)
      <4>1. PICK i : i = req[r].row /\ i \in 1..n
        BY <1>1, <3>1, <3>2, <3>5 DEF Fits, Increment, RowsOf
      <4>2. counters' = [cs EXCEPT ![i].hits = @ + 1]
        BY <3>1, <3>5, <4>1 DEF Increment, Incremented
      <4>3. cs[i] \in [choice : Categories, hits : Nat]
        BY <3>1, <3>2, <4>1
      <4>4. PICK e : e = [cs[i] EXCEPT !.hits = @ + 1]
        OBVIOUS
      <4>5. e \in Entry
        BY <3>1, <4>3, <4>4
      <4>6. counters' = [cs EXCEPT ![i] = e]
        BY <4>2, <4>4
      <4>. QED  BY <3>1, <3>2, <3>3, <3>4, <4>1, <4>5, <4>6
    <3>6. CASE CreateCounter(r)
      <4>1. PICK e : e = [choice |-> req[r].choice, hits |-> 1]
        OBVIOUS
      <4>2. e \in Entry
        BY <3>1, <3>3, <4>1
      <4>3. counters' = Append(cs, e)
        BY <3>1, <3>6, <4>1 DEF CreateCounter
      <4>. QED  BY <3>1, <3>3, <3>4, <4>2, <4>3
    <3>. QED  BY <2>2, <3>5, <3>6
  <2>. QED  BY <2>1, <2>2 DEF Step, CreateReaction, LogReaction, Attach, Point, Commit, Find,
                           Sweep, Fill, Fail, React, Upload, Start, Query
<1>6. report' \in [KeySet -> [kept : BOOLEAN, of : Tables, excused : BOOLEAN]]
  <2>1. CASE UNCHANGED report
    BY <2>1 DEF ActivityTypeOK
  <2>2. NoReport \in [kept : BOOLEAN, of : Tables, excused : BOOLEAN]
    BY IdleIsRequest DEF NoReport
  <2>3. CASE Sweep(r)
    BY <2>2, <2>3 DEF Sweep, ActivityTypeOK
  <2>4. CASE Fill(r)
    <3>1. [kept |-> TRUE, of |-> req[r].table, excused |-> req[r].raced]
            \in [kept : BOOLEAN, of : Tables, excused : BOOLEAN]
      BY <1>1 DEF Request
    <3>. QED  BY <2>4, <3>1 DEF Fill, ActivityTypeOK
  <2>5. CASE Fail(r)
    <3>1. \A key \in KeySet : [report[key] EXCEPT !.excused = report[key].kept]
                                \in [kept : BOOLEAN, of : Tables, excused : BOOLEAN]
      BY DEF ActivityTypeOK
    <3>. QED  BY <2>5, <3>1 DEF Fail, ActivityTypeOK
  <2>. QED  BY <2>1, <2>3, <2>4, <2>5 DEF Step, CreateReaction, LogReaction, Attach, Point, Commit,
                           Find, Increment, CreateCounter, React, Upload, Start, Query
<1>. QED  BY <1>1, <1>2, <1>3, <1>4, <1>5, <1>6 DEF ActivityTypeOK

\* What fits a request stays so when another one takes a step.
LEMMA OthersFit ==
  ASSUME ActivityTypeOK, \A p \in Requests : Fits(req[p]), OneNote,
         NEW r \in Requests, Step(r), NEW q \in Requests \ {r}
  PROVE  Fits(req[q])'
<1>1. PICK k, j : k = req[q] /\ j = req'[q]
  OBVIOUS
<1>2. Fits(k) /\ k \in Request
  BY <1>1 DEF ActivityTypeOK
<1>3. /\ j.at = k.at /\ j.mark = k.mark /\ j.receipt = k.receipt /\ j.swept = k.swept
      /\ j.write = k.write /\ j.choice = k.choice /\ j.row = k.row /\ j.key = k.key
      /\ j.table = k.table /\ (k.raced => j.raced)
      /\ Commit(r) /\ k.at = "fill" => j.raced
  <2>1. j = k \/ j = [k EXCEPT !.raced = TRUE]
    BY <1>1, Steps
  <2>2. CASE Commit(r)
    <3>1. j = [k EXCEPT !.raced = k.raced \/ k.at = "fill"]
      BY <1>1, <2>2 DEF Commit
    <3>. QED  BY <1>2, <3>1 DEF Request
  <2>3. CASE ~Commit(r)
    BY <1>2, <2>1, <2>3 DEF Request
  <2>. QED  BY <2>2, <2>3
<1>4. /\ marks.rows \subseteq marks'.rows
      /\ receipts.stored \subseteq receipts'.stored
      /\ receipts.attached \subseteq receipts'.attached
      /\ \A c : RowsOf(c) \subseteq RowsOf(c)'
      /\ Commit(r) \/ Table' = Table
      /\ \A m \in Marks : marks'.logged[m] = marks.logged[m]
                          \/ (LogReaction(r) /\ m = req[r].mark)
  BY Grows
<1>5. k.at = "note" => marks'.logged[k.mark] = 0
  <2>. SUFFICES ASSUME k.at = "note" PROVE marks'.logged[k.mark] = 0
    OBVIOUS
  <2>1. k.mark \in Marks /\ marks.logged[k.mark] = 0
    BY <1>2 DEF Fits, ActivityTypeOK
  <2>2. ~(LogReaction(r) /\ k.mark = req[r].mark)
    BY <1>1 DEF LogReaction, OneNote
  <2>. QED  BY <1>4, <2>1, <2>2
<1>6. k.at = "bump" /\ k.row # 0 => k.row \in RowsOf(k.choice)'
  BY <1>2, <1>4 DEF Fits
<1>7. k.row \in RowsOf(k.choice)' => j.row \in {i \in DOMAIN counters' : counters'[i].choice = j.choice}
  BY <1>3 DEF RowsOf
<1>8. j.at = "fill" => j.key \in KeySet /\ (~j.raced => j.table = Table')
  BY <1>2, <1>3, <1>4 DEF Fits
<1>9. j.at = "note" => j.mark \in marks'.rows /\ marks'.logged[j.mark] = 0
  BY <1>2, <1>3, <1>4, <1>5 DEF Fits
<1>10. /\ j.at = "attach" => j.receipt \in receipts'.stored
       /\ j.at = "point" => j.receipt \in receipts'.attached
  BY <1>2, <1>3, <1>4 DEF Fits
<1>11. /\ j.at = "react" => j.mark \in Marks
       /\ j.at \in {"commit", "find", "bump"} => j.swept = 0
       /\ j.at \in {"commit", "find"} => j.row = 0
       /\ j.at = "commit" => j.write # None /\ (j.write # "delete" => j.choice \in Categories)
       /\ j.at \in {"find", "bump"} => j.choice \in Categories
  BY <1>2, <1>3 DEF Fits
<1>12. j.at = "bump" /\ j.row # 0 =>
         j.row \in {i \in DOMAIN counters' : counters'[i].choice = j.choice}
  BY <1>3, <1>6, <1>7
<1>. QED  BY <1>1, <1>8, <1>9, <1>10, <1>11, <1>12 DEF Fits, RowsOf

\* And of what the request that takes the step has with it.
LEMMA ItselfFits ==
  ASSUME ActivityTypeOK, \A p \in Requests : Fits(req[p]), TrailIsSound,
         NEW r \in Requests, Step(r)
  PROVE  Fits(req[r])'
<1>1. PICK k : k = req[r] /\ k \in Request /\ Fits(k)
  BY DEF ActivityTypeOK
<1>2. DOMAIN req = Requests
  BY DEF ActivityTypeOK
<1>3. CASE Go(r, Idle)
  <2>1. req'[r] = Idle
    BY <1>2, <1>3 DEF Go
  <2>2. req'[r].at = "idle"
    BY <2>1 DEF Idle
  <2>. QED  BY <2>2 DEF Fits
<1>4. CASE CreateReaction(r)
  <2>1. req'[r] = [k EXCEPT !.at = "note"]
    BY <1>1, <1>2, <1>4 DEF CreateReaction, Go
  <2>2. k.mark \in Marks /\ k.mark \notin marks.rows /\ k.mark \in marks'.rows
        /\ marks'.logged = marks.logged
    BY <1>1, <1>4 DEF CreateReaction, Fits, Insertable, ActivityTypeOK
  <2>3. marks.logged[k.mark] = 0
    BY <2>2 DEF TrailIsSound, ActivityTypeOK
  <2>4. req'[r].at = "note" /\ req'[r].mark = k.mark
    BY <1>1, <2>1 DEF Request
  <2>. QED  BY <2>2, <2>3, <2>4 DEF Fits
<1>5. CASE Attach(r)
  <2>1. req'[r] = [k EXCEPT !.at = "point"]
    BY <1>1, <1>2, <1>5 DEF Attach, Go
  <2>2. k.receipt \in receipts'.attached
    BY <1>1, <1>5 DEF Attach, ActivityTypeOK
  <2>3. req'[r].at = "point" /\ req'[r].receipt = k.receipt
    BY <1>1, <2>1 DEF Request
  <2>. QED  BY <2>2, <2>3 DEF Fits
<1>6. CASE Commit(r)
  <2>1. req'[r] = [k EXCEPT !.at = IF k.write = "delete" THEN "sweep" ELSE "find"]
    BY <1>1, <1>6 DEF Commit
  <2>2. k.swept = 0 /\ k.row = 0 /\ (k.write # "delete" => k.choice \in Categories)
    BY <1>1, <1>6 DEF Commit, Fits
  <2>3. /\ req'[r].at = (IF k.write = "delete" THEN "sweep" ELSE "find")
        /\ req'[r].swept = k.swept /\ req'[r].choice = k.choice /\ req'[r].row = k.row
    BY <1>1, <2>1 DEF Request
  <2>. QED  BY <2>2, <2>3 DEF Fits
<1>7. CASE Find(r)
  <2>1. k.swept = 0 /\ k.row = 0 /\ k.choice \in Categories /\ counters' = counters
    BY <1>1, <1>7 DEF Find, Fits
  <2>2. CASE Go(r, [k EXCEPT !.at = "bump"])
    <3>1. req'[r] = [k EXCEPT !.at = "bump"]
      BY <1>2, <2>2 DEF Go
    <3>2. /\ req'[r].at = "bump" /\ req'[r].swept = 0 /\ req'[r].row = 0
          /\ req'[r].choice = k.choice
      BY <1>1, <2>1, <3>1 DEF Request
    <3>. QED  BY <2>1, <3>2 DEF Fits
  <2>3. ASSUME NEW i \in RowsOf(k.choice),
               Go(r, [k EXCEPT !.at = "bump", !.row = i, !.hits = counters[i].hits])
        PROVE  Fits(req[r])'
    <3>1. req'[r] = [k EXCEPT !.at = "bump", !.row = i, !.hits = counters[i].hits]
      BY <1>2, <2>3 DEF Go
    <3>2. /\ req'[r].at = "bump" /\ req'[r].swept = 0 /\ req'[r].row = i
          /\ req'[r].choice = k.choice
      BY <1>1, <2>1, <3>1 DEF Request
    <3>3. i \in DOMAIN counters' /\ counters'[i].choice = k.choice
      BY <2>1 DEF RowsOf
    <3>. QED  BY <2>1, <3>2, <3>3 DEF Fits, RowsOf
  <2>. QED  BY <1>1, <1>7, <2>2, <2>3 DEF Find
<1>8. CASE Increment(r) \/ CreateCounter(r)
  <2>1. req'[r] = [k EXCEPT !.at = "sweep"]
    BY <1>1, <1>2, <1>8 DEF Increment, CreateCounter, Go
  <2>2. req'[r].at = "sweep"
    BY <1>1, <2>1 DEF Request
  <2>. QED  BY <2>2 DEF Fits
<1>9. CASE Sweep(r) /\ ~Go(r, Idle)
  <2>1. req'[r] = [k EXCEPT !.swept = @ + 1] /\ k.at = "sweep"
    BY <1>1, <1>2, <1>9 DEF Sweep, Go
  <2>2. req'[r].at = "sweep"
    BY <1>1, <2>1 DEF Request
  <2>. QED  BY <2>2 DEF Fits
<1>10. ASSUME NEW mark \in Marks, React(r, mark)
       PROVE  Fits(req[r])'
  <2>1. req'[r] = [Idle EXCEPT !.at = "react", !.mark = mark]
    BY <1>2, <1>10 DEF React, Go
  <2>2. req'[r].at = "react" /\ req'[r].mark = mark
    BY <2>1 DEF Idle
  <2>. QED  BY <2>2 DEF Fits
<1>11. ASSUME NEW receipt \in Receipts, Upload(r, receipt)
       PROVE  Fits(req[r])'
  <2>1. req'[r] = [Idle EXCEPT !.at = "attach", !.receipt = receipt]
    BY <1>2, <1>11 DEF Upload, Go
  <2>2. req'[r].at = "attach" /\ req'[r].receipt = receipt
    BY <2>1 DEF Idle
  <2>3. receipt \in receipts'.stored
    BY <1>11 DEF Upload, ActivityTypeOK
  <2>. QED  BY <2>2, <2>3 DEF Fits
<1>12. ASSUME NEW write \in {"create", "reclassify", "delete"},
              NEW choice \in Categories \cup {NoChoice}, Start(r, write, choice)
       PROVE  Fits(req[r])'
  <2>1. req'[r] = [Idle EXCEPT !.at = "commit", !.write = write, !.choice = choice]
    BY <1>2, <1>12 DEF Start, Go
  <2>2. /\ req'[r].at = "commit" /\ req'[r].write = write /\ req'[r].choice = choice
        /\ req'[r].swept = 0 /\ req'[r].row = 0
    BY <2>1 DEF Idle
  <2>3. write # None /\ (write # "delete" => choice \in Categories)
    BY <1>12 DEF Start, None
  <2>. QED  BY <2>2, <2>3 DEF Fits
<1>13. ASSUME NEW key \in KeySet, Query(r, key)
       PROVE  Fits(req[r])'
  <2>1. req'[r] = [Idle EXCEPT !.at = "fill", !.key = key, !.table = Table] /\ expense' = expense
    BY <1>2, <1>13 DEF Query, Go
  <2>2. /\ req'[r].at = "fill" /\ req'[r].key = key /\ req'[r].table = Table /\ Table' = Table
    BY <2>1 DEF Idle, Table
  <2>. QED  BY <2>2 DEF Fits
<1>14. Go(r, Idle) \/ ~(LogReaction(r) \/ Point(r) \/ Fill(r) \/ Fail(r))
  BY DEF LogReaction, Point, Fill, Fail
<1>. QED  BY <1>3, <1>4, <1>5, <1>6, <1>7, <1>8, <1>9, <1>10, <1>11, <1>12, <1>13, <1>14 DEF Step

-----------------------------------------------------------------------------
(***************************************************************************)
(* The trail of an expense, the hits, and the reports.                     *)
(***************************************************************************)

\* Nobody comes to write the log of a mark but by having created it.
LEMMA NotesStart ==
  ASSUME ActivityTypeOK, NEW r \in Requests, Step(r), req'[r].at = "note"
  PROVE  CreateReaction(r) /\ req'[r].mark = req[r].mark
<1>1. PICK k : k = req[r] /\ k \in Request
  BY DEF ActivityTypeOK
<1>2. DOMAIN req = Requests
  BY DEF ActivityTypeOK
<1>3. ASSUME NEW j, Go(r, j) PROVE j.at = "note"
  BY <1>2, <1>3 DEF Go
<1>4. ~Go(r, Idle)
  BY <1>3 DEF Idle
<1>5. \A at \in Places \ {"note"} : [k EXCEPT !.at = at].at # "note"
  BY <1>1 DEF Request
<1>6. ~Attach(r) /\ ~Increment(r) /\ ~CreateCounter(r)
  BY <1>1, <1>3, <1>5 DEF Attach, Increment, CreateCounter, Places
<1>7. ~Find(r)
  <2>1. [k EXCEPT !.at = "bump"].at # "note"
    BY <1>5 DEF Places
  <2>2. \A i, h : [k EXCEPT !.at = "bump", !.row = i, !.hits = h].at # "note"
    BY <1>1 DEF Request
  <2>. QED  BY <1>1, <1>3, <2>1, <2>2, ZenonT(60) DEF Find
<1>8. ~Commit(r)
  <2>1. ASSUME Commit(r) PROVE FALSE
    <3>1. req'[r] = [k EXCEPT !.at = IF k.write = "delete" THEN "sweep" ELSE "find"]
      BY <1>1, <2>1 DEF Commit
    <3>. QED  BY <1>1, <3>1 DEF Request
  <2>. QED  BY <2>1
<1>9. ~Sweep(r)
  <2>1. ASSUME Sweep(r) PROVE FALSE
    <3>1. Go(r, [k EXCEPT !.swept = @ + 1]) /\ k.at = "sweep"
      BY <1>1, <1>4, <2>1 DEF Sweep
    <3>2. [k EXCEPT !.swept = @ + 1].at = "sweep"
      BY <1>1, <3>1 DEF Request
    <3>. QED  BY <1>3, <3>1, <3>2
  <2>. QED  BY <2>1
<1>10. ASSUME NEW mark \in Marks, React(r, mark) PROVE FALSE
  <2>1. PICK j : j = [Idle EXCEPT !.at = "react", !.mark = mark]
    OBVIOUS
  <2>2. j.at = "react"
    BY <2>1 DEF Idle
  <2>. QED  BY <1>3, <1>10, <2>1, <2>2 DEF React
<1>11. ASSUME NEW receipt \in Receipts, Upload(r, receipt) PROVE FALSE
  <2>1. PICK j : j = [Idle EXCEPT !.at = "attach", !.receipt = receipt]
    OBVIOUS
  <2>2. j.at = "attach"
    BY <2>1 DEF Idle
  <2>. QED  BY <1>3, <1>11, <2>1, <2>2 DEF Upload
<1>12. ASSUME NEW write, NEW choice, Start(r, write, choice) PROVE FALSE
  <2>1. PICK j : j = [Idle EXCEPT !.at = "commit", !.write = write, !.choice = choice]
    OBVIOUS
  <2>2. j.at = "commit"
    BY <2>1 DEF Idle
  <2>. QED  BY <1>3, <1>12, <2>1, <2>2 DEF Start
<1>13. ASSUME NEW key, Query(r, key) PROVE FALSE
  <2>1. PICK j : j = [Idle EXCEPT !.at = "fill", !.key = key, !.table = Table]
    OBVIOUS
  <2>2. j.at = "fill"
    BY <2>1 DEF Idle
  <2>. QED  BY <1>3, <1>13, <2>1, <2>2 DEF Query
<1>14. CreateReaction(r)
  BY <1>4, <1>6, <1>7, <1>8, <1>9, <1>10, <1>11, <1>12, <1>13 DEF Step, LogReaction, Point, Fill, Fail
<1>15. req'[r] = [k EXCEPT !.at = "note"]
  BY <1>1, <1>2, <1>14 DEF CreateReaction, Go
<1>. QED  BY <1>1, <1>14, <1>15 DEF Request

\* So a mark has one writer of its log after the step as well.
LEMMA OneNoteStep ==
  ASSUME ActivityTypeOK, \A p \in Requests : Fits(req[p]), OneNote, NEW r \in Requests, Step(r)
  PROVE  OneNote'
<1>1. ASSUME NEW q \in Requests \ {r}
      PROVE  req'[q].at = req[q].at /\ req'[q].mark = req[q].mark
  <2>1. PICK k, j : k = req[q] /\ j = req'[q] /\ k \in Request
    BY DEF ActivityTypeOK
  <2>2. j = k \/ j = [k EXCEPT !.raced = TRUE]
    BY <2>1, Steps
  <2>3. j.at = k.at /\ j.mark = k.mark
    BY <2>1, <2>2 DEF Request
  <2>. QED  BY <2>1, <2>3
<1>2. ASSUME NEW q \in Requests \ {r}, req'[q].at = "note", req'[r].at = "note",
             req'[q].mark = req'[r].mark
      PROVE  FALSE
  <2>1. CreateReaction(r) /\ req'[r].mark = req[r].mark
    BY <1>2, NotesStart
  <2>2. req[r].mark \notin marks.rows
    BY <2>1 DEF CreateReaction, Insertable
  <2>3. req[q].mark \in marks.rows
    BY <1>1, <1>2 DEF Fits
  <2>. QED  BY <1>1, <1>2, <2>1, <2>2, <2>3
<1>. QED  BY <1>1, <1>2 DEF OneNote

\* A mark is logged once and a receipt is attached before it is pointed to.
LEMMA TrailStep ==
  ASSUME ActivityTypeOK, \A p \in Requests : Fits(req[p]), TrailIsSound,
         NEW r \in Requests, Step(r)
  PROVE  TrailIsSound'
<1>1. \A m \in Marks : marks'.logged[m] <= 1 /\ (marks'.logged[m] = 1 => m \in marks'.rows)
  <2>. SUFFICES ASSUME NEW m \in Marks
                PROVE  marks'.logged[m] <= 1 /\ (marks'.logged[m] = 1 => m \in marks'.rows)
    OBVIOUS
  <2>1. CASE LogReaction(r) /\ m = req[r].mark
    <3>1. m \in marks.rows /\ marks.logged[m] = 0
      BY <2>1 DEF LogReaction, Fits
    <3>2. marks'.rows = marks.rows /\ marks'.logged[m] = marks.logged[m] + 1
      BY <2>1 DEF LogReaction, ActivityTypeOK
    <3>. QED  BY <3>1, <3>2
  <2>2. CASE marks'.logged[m] = marks.logged[m]
    BY <2>2, Grows DEF TrailIsSound
  <2>. QED  BY <2>1, <2>2, Grows
<1>2. expense'.receipt # None => expense'.receipt \in receipts'.attached
  <2>1. CASE Point(r)
    <3>1. expense'.receipt = req[r].receipt
      BY <2>1 DEF Point, ActivityTypeOK
    <3>2. req[r].receipt \in receipts.attached
      BY <2>1 DEF Point, Fits
    <3>. QED  BY <3>1, <3>2, Grows
  <2>2. CASE Commit(r)
    <3>1. req[r].write \in {"create", "reclassify", "delete"} /\ expense' = Written(req[r])
      BY <2>2 DEF Commit, Fits, ActivityTypeOK, Request
    <3>2. expense'.receipt = expense.receipt
      BY <3>1 DEF Written, ActivityTypeOK
    <3>. QED  BY <3>2, Grows DEF TrailIsSound
  <2>3. CASE UNCHANGED expense
    BY <2>3, Grows DEF TrailIsSound
  <2>. QED  BY <2>1, <2>2, <2>3 DEF Step, CreateReaction, LogReaction, Attach, Find, Increment,
                           CreateCounter, Sweep, Fill, Fail, React, Upload, Start, Query
<1>3. receipts'.attached \subseteq receipts'.stored
  <2>1. CASE Attach(r)
    <3>1. req[r].receipt \in receipts.stored
      BY <2>1 DEF Attach, Fits
    <3>2. receipts'.attached = receipts.attached \cup {req[r].receipt}
          /\ receipts'.stored = receipts.stored
      BY <2>1 DEF Attach, ActivityTypeOK
    <3>. QED  BY <3>1, <3>2 DEF TrailIsSound
  <2>2. ASSUME NEW receipt \in Receipts, Upload(r, receipt)
        PROVE  receipts'.attached \subseteq receipts'.stored
    <3>1. receipts'.attached = receipts.attached
      BY <2>2 DEF Upload, ActivityTypeOK
    <3>. QED  BY <3>1, Grows DEF TrailIsSound
  <2>3. CASE UNCHANGED receipts
    BY <2>3 DEF TrailIsSound
  <2>. QED  BY <2>1, <2>2, <2>3 DEF Step, CreateReaction, LogReaction, Point, Commit, Find,
                           Increment, CreateCounter, Sweep, Fill, Fail, React, Start, Query
<1>. QED  BY <1>1, <1>2, <1>3 DEF TrailIsSound

\* An increment of a row of the choice, or a new row of it, is one hit more
\* of that choice and none of another.
LEMMA HitsStep ==
  ASSUME ActivityTypeOK, \A p \in Requests : Fits(req[p]), NoHitIsLost,
         NEW r \in Requests, Step(r)
  PROVE  NoHitIsLost'
<1>1. CASE UNCHANGED <<counters, bumped>>
  BY <1>1 DEF NoHitIsLost, RowsOf
<1>2. PICK c0, n, cs, ds, f, g, row :
        /\ c0 = req[r].choice /\ cs = counters /\ ds = counters' /\ n = Len(cs) /\ row = req[r].row
        /\ f = [i \in DOMAIN cs |-> cs[i].hits] /\ g = [i \in DOMAIN ds |-> ds[i].hits]
  OBVIOUS
<1>3. /\ n \in Nat /\ DOMAIN cs = 1..n
      /\ \A i \in 1..n : /\ cs[i] \in [choice : Categories, hits : Nat]
                         /\ cs[i].choice \in Categories /\ cs[i].hits \in Nat
  BY <1>2, CountersAre
<1>4. IsFiniteSet(1..n)
  BY ONLY <1>3, FS_Interval
<1>6. DOMAIN f = 1..n /\ \A i \in 1..n : f[i] = cs[i].hits /\ f[i] \in Int
  BY <1>2, <1>3
<1>7. DOMAIN g = DOMAIN ds /\ \A i \in DOMAIN ds : g[i] = ds[i].hits
  BY <1>2
<1>5. CASE Increment(r) \/ CreateCounter(r)
  <2>1. c0 \in Categories
    BY <1>2, <1>5 DEF Increment, CreateCounter, Fits
  <2>2. \A c \in Categories : bumped'[c] = bumped[c] + (IF c = c0 THEN 1 ELSE 0)
    <3>1. bumped' = [bumped EXCEPT ![c0] = @ + 1] /\ bumped \in [Categories -> Nat]
      BY <1>2, <1>5 DEF Increment, CreateCounter, ActivityTypeOK
    <3>. QED  BY <2>1, <3>1
  <2>. SUFFICES ASSUME NEW c \in Categories
                PROVE  bumped'[c] = SumFunctionOnSet(g, RowsOf(c)')
    BY <1>2 DEF NoHitIsLost
  <2>3. PICK R : R = RowsOf(c)
    OBVIOUS
  <2>4. R \in SUBSET (1..n) /\ \A i \in 1..n : i \in R <=> cs[i].choice = c
    BY <1>2, <1>3, <2>3 DEF RowsOf
  <2>5. IsFiniteSet(R) /\ \A i \in R : f[i] \in Int
    BY <1>4, <1>6, <2>4, FS_Subset
  <2>10. RowsOf(c)' = {i \in DOMAIN ds : ds[i].choice = c}
    BY <1>2 DEF RowsOf
  <2>6. bumped[c] = SumFunctionOnSet(f, R)
    BY <1>2, <2>3 DEF NoHitIsLost
  <2>7. SumFunctionOnSet(f, R) \in Int
    BY ONLY <2>5, SumIsInt
  <2>8. CASE Increment(r)
    <3>1. row \in 1..n /\ cs[row].choice = c0
      BY <1>2, <1>3, <2>8 DEF Increment, Fits, RowsOf
    <3>2. ds = [cs EXCEPT ![row].hits = @ + 1]
      BY <1>2, <2>8 DEF Increment, Incremented
    <3>3. /\ DOMAIN ds = 1..n
          /\ \A i \in 1..n : /\ ds[i].choice = cs[i].choice
                             /\ ds[i].hits = cs[i].hits + (IF i = row THEN 1 ELSE 0)
      <4>1. DOMAIN ds = 1..n
        BY <1>3, <3>2
      <4>2. ASSUME NEW i \in 1..n
            PROVE  /\ ds[i].choice = cs[i].choice
                   /\ ds[i].hits = cs[i].hits + (IF i = row THEN 1 ELSE 0)
        <5>1. CASE i = row
          <6>1. ds[i] = [cs[i] EXCEPT !.hits = @ + 1]
            BY <1>3, <3>1, <3>2, <5>1
          <6>. QED  BY <1>3, <5>1, <6>1
        <5>2. CASE i # row
          <6>1. ds[i] = cs[i]
            BY <1>3, <3>2, <5>2
          <6>. QED  BY <1>3, <5>2, <6>1
        <5>. QED  BY <5>1, <5>2
      <4>. QED  BY <4>1, <4>2
    <3>4. RowsOf(c)' = R
      BY ONLY <2>4, <2>10, <3>3
    <3>5. PICK one : one = [i \in R |-> IF i = row THEN 1 ELSE 0]
      OBVIOUS
    <3>6. \A i \in R : f[i] \in Int /\ one[i] \in Int /\ g[i] = f[i] + one[i]
      BY <1>6, <1>7, <2>4, <3>3, <3>5
    <3>7. SumFunctionOnSet(g, R) = SumFunctionOnSet(f, R) + SumFunctionOnSet(one, R)
      BY ONLY <2>5, <3>6, SumOfSums
    <3>8. SumFunctionOnSet(one, R) = IF c = c0 THEN 1 ELSE 0
      <4>1. CASE c = c0
        <5>1. row \in R /\ 1 \in Int /\ \A i \in R : one[i] = IF i = row THEN 1 ELSE 0
          BY <2>4, <3>1, <3>5, <4>1
        <5>2. SumFunctionOnSet(one, R) = 1
          BY ONLY <2>5, <5>1, SumOfOne
        <5>. QED  BY <4>1, <5>2
      <4>2. CASE c # c0
        <5>1. \A i \in R : one[i] = 0
          BY <2>4, <3>1, <3>5, <4>2
        <5>. QED  BY <2>5, <4>2, <5>1, SumOfZeros
      <4>. QED  BY <4>1, <4>2
    <3>. QED  BY <2>2, <2>6, <2>7, <3>4, <3>7, <3>8
  <2>9. CASE CreateCounter(r)
    <3>1. PICK x, Entry : /\ x = [choice |-> c0, hits |-> 1] /\ Entry = [choice : Categories, hits : Nat]
      OBVIOUS
    <3>2. x \in Entry /\ cs \in Seq(Entry) /\ ds = Append(cs, x)
      BY <1>2, <2>1, <2>9, <3>1 DEF CreateCounter, ActivityTypeOK
    <3>3. DOMAIN ds = 1..(n + 1) /\ ds[n + 1] = x /\ \A i \in 1..n : ds[i] = cs[i]
      BY ONLY <1>2, <1>3, <3>2, AppendIs
    <3>4. PICK m : m = n + 1 /\ m \notin 1..n /\ DOMAIN ds = 1..n \cup {m}
      BY <1>3, <3>3
    <3>5. /\ \A i \in R : g[i] = f[i] /\ g[i] \in Int
          /\ g[m] = 1 /\ m \notin R
      <4>1. m \in DOMAIN ds /\ ds[m].hits = 1
        BY <3>1, <3>3, <3>4
      <4>2. \A i \in 1..n : i \in DOMAIN ds /\ ds[i].hits = cs[i].hits
        BY <3>3, <3>4
      <4>. QED  BY <1>6, <1>7, <2>4, <3>4, <4>1, <4>2
    <3>6. SumFunctionOnSet(g, R) = SumFunctionOnSet(f, R)
      BY ONLY <2>5, <3>5, SumSame
    <3>7. CASE c = c0
      <4>1. RowsOf(c)' = R \cup {m}
        <5>1. m \in DOMAIN ds /\ ds[m].choice = c
          <6>1. x.choice = c0
            BY ONLY <3>1
          <6>2. ds[m] = x
            BY ONLY <3>3, <3>4
          <6>3. m \in DOMAIN ds
            BY ONLY <3>4
          <6>. QED  BY ONLY <3>7, <6>1, <6>2, <6>3
        <5>2. \A i \in 1..n : ds[i].choice = c <=> i \in R
          BY <2>4, <3>3
        <5>. QED  BY ONLY <2>4, <2>10, <3>4, <5>1, <5>2
      <4>2. \A i \in R \cup {m} : g[i] \in Int
        BY <3>5
      <4>3. SumFunctionOnSet(g, R \cup {m}) = g[m] + SumFunctionOnSet(g, R)
        BY ONLY <2>5, <3>5, <4>2, SumAddElement
      <4>. QED  BY <2>2, <2>6, <2>7, <3>5, <3>6, <3>7, <4>1, <4>3
    <3>8. CASE c # c0
      <4>1. RowsOf(c)' = R
        <5>1. ds[m].choice # c
          BY <3>1, <3>3, <3>4, <3>8
        <5>2. \A i \in 1..n : ds[i].choice = c <=> i \in R
          BY <2>4, <3>3
        <5>. QED  BY ONLY <2>4, <2>10, <3>4, <5>1, <5>2
      <4>. QED  BY <2>2, <2>6, <2>7, <3>6, <3>8, <4>1
    <3>. QED  BY <3>7, <3>8
  <2>. QED  BY <1>5, <2>8, <2>9
<1>. QED  BY <1>1, <1>5 DEF Step, CreateReaction, LogReaction, Attach, Point, Commit, Find, Sweep,
                           Fill, Fail, React, Upload, Start, Query

\* A request that does not take the step is where it was, and so is a sweep.
LEMMA OthersStay ==
  ASSUME ActivityTypeOK, \A p \in Requests : Fits(req[p]), NEW r \in Requests, Step(r),
         NEW q \in Requests \ {r}
  PROVE  req'[q].at = req[q].at /\ req'[q].swept = req[q].swept
<1>1. PICK k, j : k = req[q] /\ j = req'[q] /\ k \in Request
  BY DEF ActivityTypeOK
<1>2. j = k \/ j = [k EXCEPT !.raced = TRUE]
  BY <1>1, Steps
<1>3. j.at = k.at /\ j.swept = k.swept
  BY <1>1, <1>2 DEF Request
<1>. QED  BY <1>1, <1>3

\* k has yet to sweep key.
Sweeps(k, key) ==
  \/ k.at \in {"find", "bump"}
  \/ k.at = "sweep" /\ \E i \in DOMAIN Keys : i > k.swept /\ Keys[i] = key

\* The writers that have yet to sweep a report.
LEMMA SweepersAre ==
  /\ \A key : ToSweep(key) <=> \E p \in Requests : Sweeps(req[p], key)
  /\ \A key : ToSweep(key)' <=> \E p \in Requests : Sweeps(req'[p], key)
  BY DEF ToSweep, Sweeps

\* A report that is to be swept stays so, but for the step that sweeps it.
LEMMA SweepsStay ==
  ASSUME ActivityTypeOK, \A p \in Requests : Fits(req[p]), NEW r \in Requests, Step(r),
         NEW key, ToSweep(key), Sweeps(req[r], key) => Sweeps(req'[r], key)
  PROVE  ToSweep(key)'
<1>1. PICK p \in Requests : Sweeps(req[p], key)
  BY SweepersAre
<1>2. CASE p = r
  BY <1>1, <1>2, SweepersAre
<1>3. CASE p # r
  <2>1. Sweeps(req'[p], key)
    BY <1>1, <1>3, OthersStay DEF Sweeps
  <2>. QED  BY <2>1, SweepersAre
<1>. QED  BY <1>2, <1>3

\* A writer that comes to its sweep has all reports before it.
LEMMA AllToSweep ==
  ASSUME ActivityTypeOK, \A p \in Requests : Fits(req[p]), NEW r \in Requests,
         Commit(r) \/ Find(r) \/ Increment(r) \/ CreateCounter(r), NEW key \in KeySet
  PROVE  ToSweep(key)'
<1>1. PICK k, j : k = req[r] /\ j = req'[r] /\ k \in Request /\ Fits(k)
  BY DEF ActivityTypeOK
<1>2. k.swept = 0
  BY <1>1 DEF Commit, Find, Increment, CreateCounter, Fits
<1>3. DOMAIN req = Requests
  BY DEF ActivityTypeOK
<1>4. j.at \in {"find", "bump"} \/ (j.at = "sweep" /\ j.swept = 0)
  <2>1. CASE Commit(r)
    <3>1. j = [k EXCEPT !.at = IF k.write = "delete" THEN "sweep" ELSE "find"]
      BY <1>1, <2>1 DEF Commit
    <3>. QED  BY <1>1, <1>2, <3>1 DEF Request
  <2>2. CASE Find(r)
    <3>1. ASSUME NEW b, Go(r, b) PROVE j = b
      BY <1>1, <1>3, <3>1 DEF Go
    <3>2. CASE Go(r, [k EXCEPT !.at = "bump"])
      BY <1>1, <3>1, <3>2 DEF Request
    <3>3. ASSUME NEW i \in RowsOf(k.choice),
                 Go(r, [k EXCEPT !.at = "bump", !.row = i, !.hits = counters[i].hits])
          PROVE  j.at = "bump"
      BY <1>1, <3>1, <3>3 DEF Request
    <3>. QED  BY <1>1, <2>2, <3>2, <3>3 DEF Find
  <2>3. CASE Increment(r) \/ CreateCounter(r)
    <3>1. j = [k EXCEPT !.at = "sweep"]
      BY <1>1, <1>3, <2>3 DEF Increment, CreateCounter, Go
    <3>. QED  BY <1>1, <1>2, <3>1 DEF Request
  <2>. QED  BY <2>1, <2>2, <2>3
<1>5. PICK i \in DOMAIN Keys : Keys[i] = key
  BY DEF KeySet, ToSet
<1>6. i \in Nat \ {0}
  <2>1. Keys \in Seq(STRING)
    BY ActivityAssumption
  <2>2. Len(Keys) \in Nat /\ DOMAIN Keys = 1..Len(Keys)
    BY <2>1
  <2>. QED  BY <2>2
<1>7. Sweeps(j, key)
  BY <1>4, <1>5, <1>6 DEF Sweeps
<1>. QED  BY <1>1, <1>7, SweepersAre

\* A report that is left in Redis, unexcused and with no sweep before it, is
\* of the table as it is.
LEMMA ReportsStep ==
  ASSUME ActivityTypeOK, \A p \in Requests : Fits(req[p]), ReportsAreSwept,
         NEW r \in Requests, Step(r)
  PROVE  ReportsAreSwept'
<1>. SUFFICES ASSUME NEW key \in KeySet,
                     report'[key].kept, ~report'[key].excused, ~ToSweep(key)'
              PROVE  report'[key].of = Table'
  BY DEF ReportsAreSwept
<1>1. PICK k : k = req[r] /\ k \in Request /\ Fits(k)
  BY DEF ActivityTypeOK
<1>2. DOMAIN report = KeySet
  BY DEF ActivityTypeOK
<1>3. ~Commit(r) /\ ~Find(r) /\ ~Increment(r) /\ ~CreateCounter(r)
  BY AllToSweep
<1>4. Table' = Table
  BY <1>3, Grows
<1>5. ASSUME report'[key] = report[key], Sweeps(k, key) => Sweeps(req'[r], key)
      PROVE  report'[key].of = Table'
  <2>1. ~ToSweep(key)
    BY <1>1, <1>5, SweepsStay
  <2>. QED  BY <1>4, <1>5, <2>1 DEF ReportsAreSwept
<1>6. CASE Fill(r)
  <2>1. k.at = "fill"
    BY <1>1, <1>6 DEF Fill
  <2>2. CASE key = k.key
    <3>1. report'[key] = [kept |-> TRUE, of |-> k.table, excused |-> k.raced]
      BY <1>1, <1>2, <1>6, <2>2 DEF Fill
    <3>2. k.raced \in BOOLEAN
      BY <1>1 DEF Request
    <3>. QED  BY <1>1, <1>4, <2>1, <3>1, <3>2 DEF Fits
  <2>3. CASE key # k.key
    <3>1. report'[key] = report[key]
      BY <1>1, <1>2, <1>6, <2>3 DEF Fill
    <3>2. ~Sweeps(k, key)
      BY <2>1 DEF Sweeps
    <3>. QED  BY <1>5, <3>1, <3>2
  <2>. QED  BY <2>2, <2>3
<1>7. CASE Fail(r)
  <2>1. CASE k.at \in {"find", "bump", "sweep"}
    <3>1. report'[key] = [report[key] EXCEPT !.excused = report[key].kept]
      BY <1>1, <1>7, <2>1 DEF Fail
    <3>2. report[key] \in [kept : BOOLEAN, of : Tables, excused : BOOLEAN]
      BY DEF ActivityTypeOK
    <3>3. report'[key].excused = report'[key].kept
      BY <3>1, <3>2
    <3>. QED  BY <3>3
  <2>2. CASE k.at \notin {"find", "bump", "sweep"}
    <3>1. report'[key] = report[key]
      BY <1>1, <1>7, <2>2 DEF Fail
    <3>2. ~Sweeps(k, key)
      BY <2>2 DEF Sweeps
    <3>. QED  BY <1>5, <3>1, <3>2
  <2>. QED  BY <2>1, <2>2
<1>8. CASE Sweep(r)
  <2>1. k.at = "sweep" /\ k.swept \in Nat
    BY <1>1, <1>8 DEF Sweep, Request
  <2>2. PICK n \in Nat : n = k.swept + 1
    BY <2>1
  <2>3. report' = [report EXCEPT ![Keys[n]] = NoReport]
    BY <1>1, <1>8, <2>2 DEF Sweep
  <2>4. key # Keys[n]
    BY <1>2, <2>3 DEF NoReport
  <2>5. report'[key] = report[key]
    BY <1>2, <2>3, <2>4
  <2>6. ASSUME Sweeps(k, key) PROVE Sweeps(req'[r], key)
    <3>1. PICK i \in DOMAIN Keys : i > k.swept /\ Keys[i] = key
      BY <2>1, <2>6 DEF Sweeps
    <3>2. i \in Nat /\ i <= Len(Keys) /\ Len(Keys) \in Nat
      <4>1. Keys \in Seq(STRING)
        BY ActivityAssumption
      <4>. QED  BY <3>1, <4>1
    <3>3. i > n
      BY <2>1, <2>2, <2>4, <3>1, <3>2
    <3>4. ~Swept(k)
      BY <2>2, <3>2, <3>3 DEF Swept
    <3>5. req'[r] = [k EXCEPT !.swept = n]
      BY <1>1, <1>8, <2>2, <3>4 DEF Sweep, Go, ActivityTypeOK
    <3>6. req'[r].at = "sweep" /\ req'[r].swept = n
      BY <1>1, <2>1, <3>5 DEF Request
    <3>. QED  BY <3>1, <3>3, <3>6 DEF Sweeps
  <2>. QED  BY <1>5, <2>5, <2>6
<1>9. CASE UNCHANGED report /\ k.at \notin {"find", "bump", "sweep"}
  <2>1. ~Sweeps(k, key)
    BY <1>9 DEF Sweeps
  <2>. QED  BY <1>5, <1>9, <2>1
<1>. QED  BY <1>1, <1>3, <1>6, <1>7, <1>8, <1>9 DEF Step, CreateReaction, LogReaction, Attach, Point,
                                                    React, Upload, Start, Query

-----------------------------------------------------------------------------

\* The invariant holds at first, and every step preserves it.
LEMMA ActivityStarts == ActivityInit => ActivityInv
<1>. SUFFICES ASSUME ActivityInit PROVE ActivityInv
  OBVIOUS
<1>1. ActivityTypeOK
  <2>1. /\ expense \in [live : Lives, choice : Categories \cup {NoChoice},
                        receipt : Receipts \cup {None}]
        /\ marks \in [rows : SUBSET Marks, logged : [Marks -> Nat]]
        /\ receipts \in [stored : SUBSET Receipts, attached : SUBSET Receipts]
        /\ counters \in Seq([choice : Categories, hits : Nat])
        /\ bumped \in [Categories -> Nat]
    BY DEF ActivityInit, Lives
  <2>2. report \in [KeySet -> [kept : BOOLEAN, of : Tables, excused : BOOLEAN]]
    BY IdleIsRequest DEF ActivityInit, NoReport
  <2>3. req \in [Requests -> Request]
    BY IdleIsRequest DEF ActivityInit
  <2>. QED  BY <2>1, <2>2, <2>3 DEF ActivityTypeOK
<1>2. \A r \in Requests : req[r].at = "idle"
  BY DEF ActivityInit, Idle
<1>3. (\A r \in Requests : Fits(req[r])) /\ OneNote
  BY <1>2 DEF Fits, OneNote
<1>4. TrailIsSound
  BY DEF ActivityInit, TrailIsSound
<1>5. NoHitIsLost
  <2>. SUFFICES ASSUME NEW c \in Categories
                PROVE  bumped[c] = SumFunctionOnSet([i \in DOMAIN counters |-> counters[i].hits], RowsOf(c))
    BY DEF NoHitIsLost
  <2>1. RowsOf(c) = {} /\ bumped[c] = 0
    BY DEF ActivityInit, RowsOf
  <2>. QED  BY <2>1, SumOfNone
<1>6. ReportsAreSwept
  BY DEF ActivityInit, ReportsAreSwept, NoReport
<1>. QED  BY <1>1, <1>3, <1>4, <1>5, <1>6 DEF ActivityInv

LEMMA ActivityStep == ActivityInv /\ [ActivityNext]_activityVars => ActivityInv'
<1>. SUFFICES ASSUME ActivityInv, [ActivityNext]_activityVars PROVE ActivityInv'
  OBVIOUS
<1>1. /\ ActivityTypeOK /\ \A r \in Requests : Fits(req[r])
      /\ OneNote /\ TrailIsSound /\ NoHitIsLost /\ ReportsAreSwept
  BY DEF ActivityInv
<1>2. ASSUME NEW r \in Requests, Step(r) PROVE ActivityInv'
  <2>1. ActivityTypeOK'
    BY <1>1, <1>2, TypeStep
  <2>2. \A q \in Requests : Fits(req[q])'
    BY <1>1, <1>2, OthersFit, ItselfFits
  <2>3. OneNote'
    BY <1>1, <1>2, OneNoteStep
  <2>4. TrailIsSound'
    BY <1>1, <1>2, TrailStep
  <2>5. NoHitIsLost'
    BY <1>1, <1>2, HitsStep
  <2>6. ReportsAreSwept'
    BY <1>1, <1>2, ReportsStep
  <2>. QED  BY <2>1, <2>2, <2>3, <2>4, <2>5, <2>6 DEF ActivityInv
<1>3. ASSUME NEW key \in KeySet, ExpireReport(key) PROVE ActivityInv'
  <2>1. /\ UNCHANGED <<expense, marks, receipts, counters, bumped, req>>
        /\ report' = [report EXCEPT ![key] = NoReport]
    BY <1>3 DEF ExpireReport
  <2>2. ActivityTypeOK'
    <3>1. NoReport \in [kept : BOOLEAN, of : Tables, excused : BOOLEAN]
      BY IdleIsRequest DEF NoReport
    <3>. QED  BY <1>1, <2>1, <3>1 DEF ActivityTypeOK
  <2>3. (\A q \in Requests : Fits(req[q])') /\ OneNote'
    BY <1>1, <2>1 DEF Fits, OneNote, RowsOf, Table
  <2>4. TrailIsSound' /\ NoHitIsLost'
    BY <1>1, <2>1 DEF TrailIsSound, NoHitIsLost, RowsOf
  <2>5. \A other \in KeySet : report'[other] = report[other] \/ ~report'[other].kept
    BY <1>1, <2>1 DEF ActivityTypeOK, NoReport
  <2>6. ReportsAreSwept'
    BY <1>1, <2>1, <2>5 DEF ReportsAreSwept, ToSweep, Table
  <2>. QED  BY <2>2, <2>3, <2>4, <2>6 DEF ActivityInv
<1>4. CASE UNCHANGED activityVars
  <2>1. UNCHANGED <<expense, marks, receipts, counters, bumped, report, req>>
    BY <1>4 DEF activityVars
  <2>2. ActivityTypeOK' /\ (\A q \in Requests : Fits(req[q])') /\ OneNote'
    BY <1>1, <2>1 DEF ActivityTypeOK, Fits, OneNote, RowsOf, Table
  <2>3. TrailIsSound' /\ NoHitIsLost' /\ ReportsAreSwept'
    BY <1>1, <2>1 DEF TrailIsSound, NoHitIsLost, RowsOf, ReportsAreSwept, ToSweep, Table
  <2>. QED  BY <2>2, <2>3 DEF ActivityInv
<1>. QED  BY <1>2, <1>3, <1>4 DEF ActivityNext

\* Every request carries what its place needs, whatever overlaps or fails.
THEOREM ActivityIsSound == ActivitySpec => []ActivityInv
<1>. QED  BY ActivityStarts, ActivityStep, PTL DEF ActivitySpec

\* A reaction is logged at most once and only if it is there, the receipt of
\* an expense is attached and each attachment has its file
\* (createExpenseReaction, uploadExpenseReceipt).
THEOREM TrailStaysSound == ActivitySpec => []TrailIsSound
<1>1. ActivityInv => TrailIsSound
  BY DEF ActivityInv
<1>. QED  BY <1>1, ActivityIsSound, PTL

\* The counters of a choice add up to the hits that were counted without an
\* error, however many rows two first hits have made (bumpCategoryHit).
THEOREM HitsAddUp == ActivitySpec => []NoHitIsLost
<1>1. ActivityInv => NoHitIsLost
  BY DEF ActivityInv
<1>. QED  BY <1>1, ActivityIsSound, PTL

\* A report in Redis that no writer has yet to sweep is of the expense as it
\* is, but for what failed writers and overlapping reports leave
\* (invalidateGroup, key by key).
THEOREM SweepsReachAll == ActivitySpec => []ReportsAreSwept
<1>1. ActivityInv => ReportsAreSwept
  BY DEF ActivityInv
<1>. QED  BY <1>1, ActivityIsSound, PTL
=============================================================================
