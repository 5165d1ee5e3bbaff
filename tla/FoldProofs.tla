------------------------------ MODULE FoldProofs ------------------------------
(***************************************************************************)
(* What a total over a finite set, and a fold over a sequence, computes:   *)
(* both are recursive functions, and what is recursive is proved by two    *)
(* induction rules that are stated about sets instead of predicates.       *)
(***************************************************************************)
EXTENDS Totals, FiniteSetTheorems, WellFoundedInduction, TLAPS

\* Of some numbers one is the least.
LEMMA LeastOf ==
    ASSUME NEW T \in SUBSET Nat, T # {}
    PROVE  \E n \in T : \A m \in T : n <= m
<1>. DEFINE R == {p \in Nat \X Nat : p[1] < p[2]}
<1>1. IsWellFoundedOn(R, Nat) BY NatLessThanWellFounded DEF OpToRel
<1>2. PICK n \in T : \A m \in T : ~(<<m, n>> \in R) BY <1>1, WFMin
<1>3. ASSUME NEW m \in T PROVE n <= m
    <2>1. m \in Nat /\ n \in Nat /\ ~(<<m, n>> \in R) BY <1>2
    <2>2. <<m, n>> \in Nat \X Nat /\ <<m, n>>[1] = m /\ <<m, n>>[2] = n BY <2>1
    <2>3. ~(m < n) BY <2>1, <2>2
    <2>. QED BY <2>1, <2>3
<1>. QED BY <1>3

\* A set of numbers with zero, and with the successor of what is in it, has all.
LEMMA NumberInduction ==
    ASSUME NEW G \in SUBSET Nat, 0 \in G, \A n \in G : n + 1 \in G
    PROVE  G = Nat
<1>1. SUFFICES ASSUME Nat \ G # {} PROVE FALSE OBVIOUS
<1>2. PICK n \in Nat \ G : \A m \in Nat \ G : n <= m BY <1>1, LeastOf
<1>3. n # 0 OBVIOUS
<1>4. n - 1 \in Nat /\ ~(n <= n - 1) BY <1>2, <1>3
<1>5. n - 1 \in G BY <1>2, <1>4
<1>6. (n - 1) + 1 = n BY <1>2
<1>. QED BY <1>5, <1>6, <1>2

\* A set of subsets with the empty one, and with each whose elements can be taken
\* away one at a time within the set, has all subsets of a finite set.
LEMMA SubsetInduction ==
    ASSUME NEW S, IsFiniteSet(S), NEW G, {} \in G,
           \A s \in SUBSET S : s # {} /\ (\A x \in s : s \ {x} \in G) => s \in G
    PROVE  \A s \in SUBSET S : s \in G
<1>. DEFINE N == {n \in Nat : \A s \in SUBSET S : Cardinality(s) = n => s \in G}
<1>0. \A s \in SUBSET S : IsFiniteSet(s) /\ Cardinality(s) \in Nat
    BY FS_Subset, FS_CardinalityType
<1>1. 0 \in N BY <1>0, FS_EmptySet
<1>2. ASSUME NEW n \in N PROVE n + 1 \in N
    <2>. SUFFICES ASSUME NEW s \in SUBSET S, Cardinality(s) = n + 1 PROVE s \in G OBVIOUS
    <2>1. s # {} BY FS_EmptySet
    <2>2. ASSUME NEW x \in s PROVE s \ {x} \in G
        <3>1. Cardinality(s \ {x}) = Cardinality(s) - 1 BY <1>0, FS_RemoveElement
        <3>2. Cardinality(s \ {x}) = n BY <3>1
        <3>. QED BY <3>2
    <2>. QED BY <2>1, <2>2
<1>3. N = Nat
    <2>1. N \in SUBSET Nat OBVIOUS
    <2>. HIDE DEF N
    <2>. QED BY <1>1, <1>2, <2>1, NumberInduction
<1>. QED BY <1>0, <1>3

-----------------------------------------------------------------------------
(* Recursive functions on the subsets of a finite set.                     *)

\* g takes the elements away one by one, as pick chooses, and combines each with
\* the value for the rest.
Recursive(g, S, A, base, step, pick) ==
    /\ g \in [SUBSET S -> A]
    /\ \A s \in SUBSET S : g[s] = IF s = {} THEN base ELSE step[<<pick[s], g[s \ {pick[s]}]>>]

LEMMA RecursionExists ==
    ASSUME NEW S, IsFiniteSet(S), NEW A, NEW base \in A,
           NEW step \in [S \X A -> A], NEW pick,
           \A s \in SUBSET S : s # {} => pick[s] \in s
    PROVE  \E g : Recursive(g, S, A, base, step, pick)
<1>. DEFINE Fits(g, s) == g[s] = IF s = {} THEN base ELSE step[<<pick[s], g[s \ {pick[s]}]>>]
            N == {n \in Nat : \E g \in [SUBSET S -> A] :
                      \A s \in SUBSET S : Cardinality(s) <= n => Fits(g, s)}
<1>0. \A s \in SUBSET S : IsFiniteSet(s) /\ Cardinality(s) \in Nat
    BY FS_Subset, FS_CardinalityType
<1>1. 0 \in N
    <2>. DEFINE g == [s \in SUBSET S |-> base]
    <2>1. g \in [SUBSET S -> A] OBVIOUS
    <2>2. ASSUME NEW s \in SUBSET S, Cardinality(s) <= 0 PROVE Fits(g, s)
        <3>1. Cardinality(s) = 0 BY <1>0, <2>2
        <3>2. s = {} BY <3>1, <1>0, FS_EmptySet
        <3>. QED BY <3>2
    <2>. QED BY <2>1, <2>2
<1>2. ASSUME NEW n \in N PROVE n + 1 \in N
    <2>1. PICK g \in [SUBSET S -> A] :
              \A s \in SUBSET S : Cardinality(s) <= n => Fits(g, s)
        OBVIOUS
    <2>. DEFINE h == [s \in SUBSET S |-> IF Cardinality(s) = n + 1
                          THEN step[<<pick[s], g[s \ {pick[s]}]>>] ELSE g[s]]
    <2>2. \A s \in SUBSET S : s # {} =>
              /\ s \ {pick[s]} \in SUBSET S /\ Cardinality(s \ {pick[s]}) = Cardinality(s) - 1
              /\ <<pick[s], g[s \ {pick[s]}]>> \in S \X A
        BY <1>0, FS_RemoveElement
    <2>3. \A s \in SUBSET S : Cardinality(s) = n + 1 => s # {}
        <3>1. n \in Nat /\ n + 1 # 0 OBVIOUS
        <3>. QED BY <3>1, FS_EmptySet
    <2>4. h \in [SUBSET S -> A] BY <2>2, <2>3
    <2>5. ASSUME NEW s \in SUBSET S, Cardinality(s) <= n + 1 PROVE Fits(h, s)
        <3>1. CASE s = {}
            <4>1. Cardinality(s) = 0 BY <3>1, FS_EmptySet
            <4>2. Cardinality(s) <= n /\ Cardinality(s) # n + 1 BY <4>1
            <4>3. g[s] = base BY <2>1, <3>1, <4>2
            <4>4. h[s] = base BY <4>2, <4>3
            <4>. QED BY <3>1, <4>4
        <3>2. CASE s # {}
            <4>. DEFINE r == s \ {pick[s]}
            <4>1. r \in SUBSET S /\ Cardinality(r) = Cardinality(s) - 1 BY <2>2, <3>2
            <4>2. Cardinality(r) # n + 1 BY <4>1, <1>0, <2>5
            <4>3. h[r] = g[r] BY <4>1, <4>2
            <4>4. h[s] = step[<<pick[s], g[r]>>]
                <5>1. CASE Cardinality(s) = n + 1 BY <5>1
                <5>2. CASE Cardinality(s) # n + 1
                    <6>1. Cardinality(s) <= n BY <5>2, <2>5, <1>0
                    <6>2. g[s] = step[<<pick[s], g[r]>>] BY <6>1, <2>1, <3>2
                    <6>. QED BY <6>2, <5>2
                <5>. QED BY <5>1, <5>2
            <4>. QED BY <3>2, <4>3, <4>4
        <3>. QED BY <3>1, <3>2
    <2>. HIDE DEF h, Fits
    <2>6. n + 1 \in Nat OBVIOUS
    <2>. QED BY <2>4, <2>5, <2>6
<1>3. N = Nat
    <2>1. N \in SUBSET Nat OBVIOUS
    <2>. HIDE DEF N
    <2>. QED BY <1>1, <1>2, <2>1, NumberInduction
<1>4. Cardinality(S) \in N BY <1>3, <1>0
<1>5. PICK g \in [SUBSET S -> A] :
          \A s \in SUBSET S : Cardinality(s) <= Cardinality(S) => Fits(g, s)
    BY <1>4
<1>6. \A s \in SUBSET S : Cardinality(s) <= Cardinality(S) BY FS_Subset
<1>. QED BY <1>5, <1>6 DEF Recursive
-----------------------------------------------------------------------------
(* Totals.                                                                 *)

Pick(s) == CHOOSE x \in s : TRUE

\* g computes the totals of the subsets of S.
Sums(g, f, S) ==
    /\ g \in [SUBSET S -> Nat]
    /\ \A s \in SUBSET S : g[s] = IF s = {} THEN 0 ELSE f[Pick(s)] + g[s \ {Pick(s)}]

LEMMA PickIn == \A s : s # {} => Pick(s) \in s
BY DEF Pick

LEMMA TotalIs ==
    ASSUME NEW S, IsFiniteSet(S), NEW f, \A x \in S : f[x] \in Nat
    PROVE  \E g : Sums(g, f, S) /\ Total(f, S) = g[S]
<1>. DEFINE step == [p \in S \X Nat |-> f[p[1]] + p[2]]
            pick == [s \in SUBSET S |-> Pick(s)]
            Value(i, s) == IF s = {} THEN 0 ELSE f[CHOOSE x \in s : TRUE] + i[s \ {CHOOSE x \in s : TRUE}]
            Is(i) == i = [s \in SUBSET S |-> Value(i, s)]
            iter == CHOOSE i : Is(i)
<1>1. Total(f, S) = iter[S]
    BY DEF Total, MapThenSumSet, MapThenFoldSet
<1>2. PICK g : Recursive(g, S, Nat, 0, step, pick)
    <2>1. step \in [S \X Nat -> Nat] OBVIOUS
    <2>2. \A s \in SUBSET S : s # {} => pick[s] \in s BY PickIn
    <2>3. 0 \in Nat OBVIOUS
    <2>. HIDE DEF step, pick
    <2>. QED BY <2>1, <2>2, <2>3, RecursionExists
<1>3. Sums(g, f, S)
    <2>1. ASSUME NEW s \in SUBSET S, s # {}
          PROVE  step[<<pick[s], g[s \ {pick[s]}]>>] = f[Pick(s)] + g[s \ {Pick(s)}]
        <3>1. Pick(s) \in S /\ g[s \ {Pick(s)}] \in Nat /\ pick[s] = Pick(s)
            BY <1>2, <2>1, PickIn DEF Recursive
        <3>2. <<Pick(s), g[s \ {Pick(s)}]>> \in S \X Nat BY <3>1
        <3>. QED BY <3>1, <3>2
    <2>. QED BY <1>2, <2>1 DEF Sums, Recursive
<1>4. Is(g)
    BY <1>3 DEF Sums, Pick
<1>5. Is(iter)
    <2>. HIDE DEF Is
    <2>. QED BY <1>4
<1>6. \A s \in SUBSET S : iter[s] = IF s = {} THEN 0 ELSE f[Pick(s)] + iter[s \ {Pick(s)}]
    <2>. HIDE DEF iter
    <2>. QED BY <1>5 DEF Pick
<1>7. \A s \in SUBSET S : iter[s] = g[s]
    <2>. DEFINE G == {s \in SUBSET S : iter[s] = g[s]}
    <2>. HIDE DEF iter
    <2>1. {} \in G BY <1>3, <1>6 DEF Sums
    <2>2. ASSUME NEW s \in SUBSET S, s # {}, \A x \in s : s \ {x} \in G PROVE s \in G
        BY <1>3, <1>6, <2>2, PickIn DEF Sums
    <2>3. \A s \in SUBSET S : s \in G
        <3>. HIDE DEF G
        <3>. QED BY <2>1, <2>2, SubsetInduction
    <2>. QED BY <2>3
<1>8. iter[S] = g[S]
    <2>. HIDE DEF iter
    <2>. QED BY <1>7
<1>. QED BY <1>1, <1>3, <1>8

\* It does not matter in which order the elements are taken.
LEMMA SumsTake ==
    ASSUME NEW S, IsFiniteSet(S), NEW f, \A x \in S : f[x] \in Nat, NEW g, Sums(g, f, S)
    PROVE  \A s \in SUBSET S : \A x \in s : g[s] = f[x] + g[s \ {x}]
<1>. DEFINE G == {s \in SUBSET S : \A x \in s : g[s] = f[x] + g[s \ {x}]}
<1>1. {} \in G OBVIOUS
<1>2. ASSUME NEW s \in SUBSET S, s # {}, \A x \in s : s \ {x} \in G PROVE s \in G
    <2>. DEFINE y == Pick(s)
    <2>1. y \in s /\ g[s] = f[y] + g[s \ {y}] BY <1>2, PickIn DEF Sums
    <2>2. ASSUME NEW x \in s, x # y PROVE g[s] = f[x] + g[s \ {x}]
        <3>1. g[s \ {y}] = f[x] + g[(s \ {y}) \ {x}] BY <1>2, <2>1, <2>2
        <3>2. g[s \ {x}] = f[y] + g[(s \ {x}) \ {y}] BY <1>2, <2>1, <2>2
        <3>3. (s \ {y}) \ {x} = (s \ {x}) \ {y} OBVIOUS
        <3>4. f[x] \in Nat /\ f[y] \in Nat /\ g[(s \ {x}) \ {y}] \in Nat BY <2>1 DEF Sums
        <3>. DEFINE rest == g[(s \ {x}) \ {y}]
        <3>. HIDE DEF y, rest
        <3>5. f[y] + (f[x] + rest) = f[x] + (f[y] + rest) BY <3>4 DEF rest
        <3>6. g[s] = f[y] + (f[x] + rest) BY <2>1, <3>1, <3>3 DEF rest
        <3>7. g[s \ {x}] = f[y] + rest BY <3>2 DEF rest
        <3>. QED BY <3>5, <3>6, <3>7
    <2>. QED BY <2>1, <2>2
<1>3. \A s \in SUBSET S : s \in G
    <2>. HIDE DEF G
    <2>. QED BY <1>1, <1>2, SubsetInduction
<1>. QED BY <1>3

\* A total over a subset is what the totals of the set say of it.
LEMMA SumsRestrict ==
    ASSUME NEW S, IsFiniteSet(S), NEW f, \A x \in S : f[x] \in Nat, NEW g, Sums(g, f, S),
           NEW T \in SUBSET S
    PROVE  Total(f, T) = g[T]
<1>1. IsFiniteSet(T) BY FS_Subset
<1>2. PICK k : Sums(k, f, T) /\ Total(f, T) = k[T] BY <1>1, TotalIs
<1>. DEFINE G == {s \in SUBSET T : k[s] = g[s]}
<1>3. {} \in G BY <1>2 DEF Sums
<1>4. ASSUME NEW s \in SUBSET T, s # {}, \A x \in s : s \ {x} \in G PROVE s \in G
    BY <1>2, <1>4, PickIn DEF Sums
<1>5. \A s \in SUBSET T : s \in G
    <2>. HIDE DEF G
    <2>. QED BY <1>1, <1>3, <1>4, SubsetInduction
<1>. QED BY <1>2, <1>5

-----------------------------------------------------------------------------
(* What the proofs of the models use of it.                                *)

LEMMA TotalEmpty == ASSUME NEW f PROVE Total(f, {}) = 0
<1>1. IsFiniteSet({}) BY FS_EmptySet
<1>2. PICK g : Sums(g, f, {}) /\ Total(f, {}) = g[{}] BY <1>1, TotalIs
<1>. QED BY <1>2 DEF Sums

LEMMA TotalType ==
    ASSUME NEW S, IsFiniteSet(S), NEW f, \A x \in S : f[x] \in Nat
    PROVE  Total(f, S) \in Nat
<1>1. PICK g : Sums(g, f, S) /\ Total(f, S) = g[S] BY TotalIs
<1>. QED BY <1>1 DEF Sums

LEMMA TotalTake ==
    ASSUME NEW S, IsFiniteSet(S), NEW f, \A x \in S : f[x] \in Nat, NEW x \in S
    PROVE  Total(f, S) = f[x] + Total(f, S \ {x})
<1>1. PICK g : Sums(g, f, S) /\ Total(f, S) = g[S] BY TotalIs
<1>2. Total(f, S \ {x}) = g[S \ {x}] BY <1>1, SumsRestrict
<1>3. g[S] = f[x] + g[S \ {x}] BY <1>1, SumsTake
<1>. QED BY <1>1, <1>2, <1>3

LEMMA TotalAdd ==
    ASSUME NEW S, IsFiniteSet(S), NEW x, x \notin S, NEW f, \A y \in S \cup {x} : f[y] \in Nat
    PROVE  Total(f, S \cup {x}) = f[x] + Total(f, S)
<1>1. IsFiniteSet(S \cup {x}) BY FS_AddElement
<1>2. (S \cup {x}) \ {x} = S OBVIOUS
<1>3. Total(f, S \cup {x}) = f[x] + Total(f, (S \cup {x}) \ {x}) BY <1>1, TotalTake
<1>. QED BY <1>2, <1>3

\* Only the weights of the elements matter.
LEMMA TotalSame ==
    ASSUME NEW S, IsFiniteSet(S), NEW f, NEW k, \A x \in S : f[x] \in Nat /\ k[x] = f[x]
    PROVE  Total(k, S) = Total(f, S)
<1>. DEFINE G == {s \in SUBSET S : Total(k, s) = Total(f, s)}
<1>1. {} \in G BY TotalEmpty
<1>2. ASSUME NEW s \in SUBSET S, s # {}, \A x \in s : s \ {x} \in G PROVE s \in G
    <2>1. PICK x \in s : TRUE BY <1>2
    <2>2. IsFiniteSet(s) BY FS_Subset
    <2>3. Total(f, s) = f[x] + Total(f, s \ {x}) BY <2>2, TotalTake
    <2>4. Total(k, s) = k[x] + Total(k, s \ {x}) BY <2>2, TotalTake
    <2>5. Total(k, s \ {x}) = Total(f, s \ {x}) BY <1>2
    <2>. QED BY <2>3, <2>4, <2>5
<1>3. \A s \in SUBSET S : s \in G
    <2>. HIDE DEF G
    <2>. QED BY <1>1, <1>2, SubsetInduction
<1>. QED BY <1>3

LEMMA TotalSubset ==
    ASSUME NEW S, IsFiniteSet(S), NEW f, \A x \in S : f[x] \in Nat, NEW T \in SUBSET S
    PROVE  Total(f, T) <= Total(f, S)
<1>. DEFINE G == {s \in SUBSET S : Total(f, s \cap T) <= Total(f, s)}
<1>1. {} \in G
    <2>1. {} \cap T = {} OBVIOUS
    <2>2. Total(f, {}) = 0 BY TotalEmpty
    <2>. QED BY <2>1, <2>2
<1>2. ASSUME NEW s \in SUBSET S, s # {}, \A x \in s : s \ {x} \in G PROVE s \in G
    <2>1. PICK x \in s : TRUE BY <1>2
    <2>2. IsFiniteSet(s) /\ IsFiniteSet(s \cap T) /\ IsFiniteSet(s \ {x}) /\ IsFiniteSet((s \ {x}) \cap T)
        BY FS_Subset
    <2>3. Total(f, s) = f[x] + Total(f, s \ {x}) BY <2>2, TotalTake
    <2>4. Total(f, (s \ {x}) \cap T) <= Total(f, s \ {x}) BY <1>2
    <2>5. f[x] \in Nat /\ Total(f, s \ {x}) \in Nat /\ Total(f, (s \ {x}) \cap T) \in Nat
        BY <2>2, TotalType
    <2>6. CASE x \in T
        <3>1. Total(f, s \cap T) = f[x] + Total(f, (s \cap T) \ {x}) BY <2>2, <2>6, TotalTake
        <3>2. (s \cap T) \ {x} = (s \ {x}) \cap T OBVIOUS
        <3>3. \A a, t, u \in Nat : t <= u => a + t <= a + u OBVIOUS
        <3>4. Total(f, s \cap T) <= Total(f, s) BY <2>3, <2>4, <2>5, <3>1, <3>2, <3>3
        <3>. QED BY <3>4
    <2>7. CASE x \notin T
        <3>1. s \cap T = (s \ {x}) \cap T BY <2>7
        <3>2. \A a, t, u \in Nat : t <= u => t <= a + u OBVIOUS
        <3>3. Total(f, s \cap T) <= Total(f, s) BY <2>3, <2>4, <2>5, <3>1, <3>2
        <3>. QED BY <3>3
    <2>. QED BY <2>6, <2>7
<1>3. \A s \in SUBSET S : s \in G
    <2>. HIDE DEF G
    <2>. QED BY <1>1, <1>2, SubsetInduction
<1>4. S \cap T = T OBVIOUS
<1>. QED BY <1>3, <1>4

\* The weight of one element changes.
LEMMA TotalChange ==
    ASSUME NEW S, IsFiniteSet(S), NEW x \in S, NEW f, NEW k,
           \A y \in S : f[y] \in Nat /\ k[y] \in Nat,
           \A y \in S \ {x} : k[y] = f[y]
    PROVE  Total(k, S) + f[x] = Total(f, S) + k[x]
<1>1. IsFiniteSet(S \ {x}) BY FS_RemoveElement
<1>2. Total(f, S) = f[x] + Total(f, S \ {x}) BY TotalTake
<1>3. Total(k, S) = k[x] + Total(k, S \ {x}) BY TotalTake
<1>4. Total(k, S \ {x}) = Total(f, S \ {x}) BY <1>1, TotalSame
<1>5. Total(f, S \ {x}) \in Nat /\ f[x] \in Nat /\ k[x] \in Nat BY <1>1, TotalType
<1>. DEFINE rest == Total(f, S \ {x})
<1>. HIDE DEF rest
<1>6. (k[x] + rest) + f[x] = (f[x] + rest) + k[x] BY <1>5 DEF rest
<1>. QED BY <1>2, <1>3, <1>4, <1>6 DEF rest

\* Weights that are all zero.
LEMMA TotalZero ==
    ASSUME NEW S, IsFiniteSet(S), NEW f, \A y \in S : f[y] = 0
    PROVE  Total(f, S) = 0
<1>. DEFINE G == {s \in SUBSET S : Total(f, s) = 0}
<1>1. {} \in G BY TotalEmpty
<1>2. ASSUME NEW s \in SUBSET S, s # {}, \A x \in s : s \ {x} \in G PROVE s \in G
    <2>1. PICK x \in s : TRUE BY <1>2
    <2>2. IsFiniteSet(s) /\ \A y \in s : f[y] \in Nat BY FS_Subset
    <2>3. Total(f, s) = f[x] + Total(f, s \ {x}) BY <2>2, TotalTake
    <2>. QED BY <1>2, <2>1, <2>3
<1>3. \A s \in SUBSET S : s \in G
    <2>. HIDE DEF G
    <2>. QED BY <1>1, <1>2, SubsetInduction
<1>. QED BY <1>3

\* A total bounds every weight.
LEMMA TotalBounds ==
    ASSUME NEW S, IsFiniteSet(S), NEW f, \A x \in S : f[x] \in Nat
    PROVE  \E n \in Nat : \A x \in S : f[x] <= n
<1>1. ASSUME NEW x \in S PROVE f[x] <= Total(f, S)
    <2>1. Total(f, S) = f[x] + Total(f, S \ {x}) BY TotalTake
    <2>2. IsFiniteSet(S \ {x}) BY FS_RemoveElement
    <2>3. Total(f, S \ {x}) \in Nat /\ f[x] \in Nat BY <2>2, TotalType
    <2>. QED BY <2>1, <2>3
<1>. QED BY <1>1, TotalType

-----------------------------------------------------------------------------
(* Folds over a sequence, from its first element to its last.              *)

\* g computes what the elements of rs at the positions in a set make of base,
\* the last of them last.
Along(g, rs, n, A, base, next) ==
    /\ g \in [SUBSET (1 .. n) -> A]
    /\ \A s \in SUBSET (1 .. n) :
           g[s] = IF s = {} THEN base ELSE next[<<g[s \ {Max(s)}], rs[Max(s)]>>]

\* The last of some positions is one of them.
LEMMA LastOf ==
    ASSUME NEW n \in Nat, NEW s \in SUBSET (1 .. n), s # {}
    PROVE  Max(s) \in s /\ \A y \in s : Max(s) >= y
<1>. DEFINE T == {n - x : x \in s}
<1>1. T \in SUBSET Nat /\ T # {}
    <2>1. \A x \in 1 .. n : n - x \in Nat OBVIOUS
    <2>. QED BY <2>1
<1>2. PICK m \in T : \A k \in T : m <= k
    <2>. HIDE DEF T
    <2>. QED BY <1>1, LeastOf
<1>3. PICK x \in s : m = n - x BY <1>2
<1>4. ASSUME NEW y \in s PROVE x >= y
    <2>1. n - y \in T OBVIOUS
    <2>2. n - x <= n - y BY <1>2, <1>3, <2>1
    <2>3. x \in Int /\ y \in Int OBVIOUS
    <2>. QED BY <2>2, <2>3
<1>. QED BY <1>4 DEF Max

LEMMA AlongExists ==
    ASSUME NEW E, NEW n \in Nat, NEW rs \in [1 .. n -> E], NEW A, NEW base \in A,
           NEW next \in [A \X E -> A]
    PROVE  \E g : Along(g, rs, n, A, base, next)
<1>. DEFINE S == 1 .. n
            step == [p \in S \X A |-> next[<<p[2], rs[p[1]]>>]]
            pick == [s \in SUBSET S |-> Max(s)]
<1>1. IsFiniteSet(S) BY FS_Interval
<1>2. step \in [S \X A -> A]
    <2>1. ASSUME NEW p \in S \X A PROVE next[<<p[2], rs[p[1]]>>] \in A
        <3>1. <<p[2], rs[p[1]]>> \in A \X E OBVIOUS
        <3>. QED BY <3>1
    <2>. QED BY <2>1
<1>3. \A s \in SUBSET S : s # {} => pick[s] \in s /\ pick[s] = Max(s) BY LastOf
<1>4. PICK g : Recursive(g, S, A, base, step, pick)
    <2>. HIDE DEF S, step, pick
    <2>. QED BY <1>1, <1>2, <1>3, RecursionExists
<1>5. ASSUME NEW s \in SUBSET S, s # {}
      PROVE  step[<<pick[s], g[s \ {pick[s]}]>>] = next[<<g[s \ {Max(s)}], rs[Max(s)]>>]
    <2>1. Max(s) \in S /\ s \ {Max(s)} \in SUBSET S BY <1>3, <1>5
    <2>2. g[s \ {Max(s)}] \in A BY <2>1, <1>4 DEF Recursive
    <2>3. <<Max(s), g[s \ {Max(s)}]>> \in S \X A BY <2>1, <2>2
    <2>4. step[<<Max(s), g[s \ {Max(s)}]>>] = next[<<g[s \ {Max(s)}], rs[Max(s)]>>]
        <3>. HIDE DEF S
        <3>. QED BY <2>3
    <2>. QED BY <1>3, <1>5, <2>4
<1>6. ASSUME NEW s \in SUBSET S
      PROVE  g[s] = IF s = {} THEN base ELSE next[<<g[s \ {Max(s)}], rs[Max(s)]>>]
    <2>1. g[s] = IF s = {} THEN base ELSE step[<<pick[s], g[s \ {pick[s]}]>>]
        <3>. HIDE DEF S, step, pick
        <3>. QED BY <1>4 DEF Recursive
    <2>. HIDE DEF step, pick
    <2>. QED BY <1>5, <2>1
<1>7. g \in [SUBSET S -> A] BY <1>4 DEF Recursive
<1>. HIDE DEF step, pick
<1>. QED BY <1>6, <1>7 DEF Along

\* One element more: the fold goes one step on.
SameUpTo(n, rs, us) == \A i \in 1 .. n : us[i] = rs[i]
LEMMA AlongAppend ==
    ASSUME NEW n, NEW m, NEW A, NEW base, NEW next, NEW rs, NEW us, NEW g, NEW h,
           n \in Nat, m = n + 1,
           Along(g, rs, n, A, base, next), Along(h, us, m, A, base, next),
           SameUpTo(n, rs, us)
    PROVE  h[1 .. m] = next[<<g[1 .. n], us[m]>>]
<1>. DEFINE G == {s \in SUBSET (1 .. n) : h[s] = g[s]}
<1>0. IsFiniteSet(1 .. n) /\ 1 .. n \subseteq 1 .. n + 1 BY FS_Interval
<1>1. {} \in G BY <1>0 DEF Along
<1>2. ASSUME NEW s \in SUBSET (1 .. n), s # {}, \A x \in s : s \ {x} \in G PROVE s \in G
    <2>1. Max(s) \in s BY <1>2, LastOf
    <2>2. h[s \ {Max(s)}] = g[s \ {Max(s)}] /\ us[Max(s)] = rs[Max(s)]
        BY <1>2, <2>1 DEF SameUpTo
    <2>3. s \in SUBSET (1 .. n + 1) BY <1>0
    <2>4. h[s] = next[<<h[s \ {Max(s)}], us[Max(s)]>>] BY <1>2, <2>3 DEF Along
    <2>5. g[s] = next[<<g[s \ {Max(s)}], rs[Max(s)]>>] BY <1>2 DEF Along
    <2>. QED BY <2>2, <2>4, <2>5
<1>3. \A s \in SUBSET (1 .. n) : s \in G
    <2>. HIDE DEF G
    <2>. QED BY <1>0, <1>1, <1>2, SubsetInduction
<1>4. h[1 .. n] = g[1 .. n] BY <1>3
<1>5. Max(1 .. n + 1) = n + 1
    <2>1. n + 1 \in Nat /\ n + 1 \in 1 .. n + 1 OBVIOUS
    <2>2. Max(1 .. n + 1) \in 1 .. n + 1 /\ Max(1 .. n + 1) >= n + 1
        BY <2>1, LastOf
    <2>. QED BY <2>2
<1>6. (1 .. n + 1) \ {n + 1} = 1 .. n /\ 1 .. n + 1 # {}
    <2>1. \A x : x \in 1 .. n + 1 /\ x # n + 1 <=> x \in 1 .. n OBVIOUS
    <2>2. n + 1 \in 1 .. n + 1 OBVIOUS
    <2>. QED BY <2>1, <2>2
<1>. QED BY <1>4, <1>5, <1>6 DEF Along

\* v is what the first n elements of rs make of base.
FoldsTo(v, rs, n, A, base, next) == \E g : Along(g, rs, n, A, base, next) /\ v = g[1 .. n]

LEMMA FoldsAppend ==
    ASSUME NEW n, NEW m, NEW A, NEW base, NEW next, NEW rs, NEW us, NEW v, NEW w,
           n \in Nat, m = n + 1, SameUpTo(n, rs, us),
           FoldsTo(v, rs, n, A, base, next), FoldsTo(w, us, m, A, base, next)
    PROVE  w = next[<<v, us[m]>>]
<1>1. PICK g : Along(g, rs, n, A, base, next) /\ v = g[1 .. n] BY DEF FoldsTo
<1>2. PICK h : Along(h, us, m, A, base, next) /\ w = h[1 .. m] BY DEF FoldsTo
<1>3. h[1 .. m] = next[<<g[1 .. n], us[m]>>] BY <1>1, <1>2, AlongAppend
<1>. QED BY <1>1, <1>2, <1>3
=============================================================================
