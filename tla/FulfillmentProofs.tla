------------------------- MODULE FulfillmentProofs -------------------------
(***************************************************************************)
(* Theorems about Fulfillment and the stock ledger under it, for any       *)
(* warehouses, reservations, orders, transfers and shipments, and any      *)
(* quantities.                                                             *)
(***************************************************************************)
EXTENDS Fulfillment, FiniteSetTheorems, TLAPS

-----------------------------------------------------------------------------
(* Facts about sums over finite sets.  The library's induction theorems cannot be cited    *)
(* (they take an operator); that the strict subset ordering is well founded can, and a     *)
(* minimal counterexample does the same work.                                              *)

\* The recursion behind SumFunctionOnSet, and what it means to solve it.
Chosen(s) == CHOOSE x \in s : TRUE
Body(f, h, s) == IF s = {} THEN 0 ELSE f[Chosen(s)] + h[s \ {Chosen(s)}]
Solves(f, h, S) == \A s \in SUBSET S : h[s] = Body(f, h, s)
Fold(f, S) == CHOOSE h : h = [s \in SUBSET S |-> Body(f, h, s)]

\* Every non-empty set of naturals has a least element.
LEMMA LeastNatural ==
    ASSUME NEW N, N \in SUBSET Nat, N # {}
    PROVE  \E n \in N : \A m \in N : n <= m
<1>. DEFINE T == {0..n : n \in N}
<1>1. T \subseteq FiniteSubsetsOf(Nat)
  <2>1. \A n \in N : IsFiniteSet(0..n) /\ 0..n \subseteq Nat
    BY FS_Interval
  <2>. QED BY <2>1 DEF FiniteSubsetsOf
<1>2. T # {}
  OBVIOUS
<1>3. PICK x \in T : \A y \in T : ~ (<<y, x>> \in StrictSubsetOrdering(Nat))
  <2>. HIDE DEF T
  <2>. QED BY <1>1, <1>2, WFMin, FS_StrictSubsetOrderingWellFounded
<1>4. PICK n \in N : x = 0..n
  OBVIOUS
<1>5. ASSUME NEW m \in N, ~(n <= m) PROVE FALSE
  <2>1. n \in Nat /\ m \in Nat
    OBVIOUS
  <2>2. 0..m \subseteq 0..n /\ n \in 0..n /\ n \notin 0..m
    BY <1>5, <2>1
  <2>3. <<0..m, 0..n>> \in (SUBSET Nat) \X (SUBSET Nat)
    BY <2>1
  <2>4. <<0..m, 0..n>> \in StrictSubsetOrdering(Nat)
    BY <2>2, <2>3 DEF StrictSubsetOrdering
  <2>. QED BY <2>4, <1>3, <1>4
<1>. QED BY <1>5

\* The definition of the sum, unfolded.
LEMMA SumUnfolds ==
    ASSUME NEW f, NEW S
    PROVE  SumFunctionOnSet(f, S) = Fold(f, S)[S]
BY DEF SumFunctionOnSet, FoldFunctionOnSet, MapThenFoldSet, Fold, Body, Chosen

\* The recursion has a solution on the subsets of a finite set.
LEMMA FoldExists ==
    ASSUME NEW f, NEW S, IsFiniteSet(S), \A x \in S : f[x] \in Nat
    PROVE  \E h \in [SUBSET S -> Nat] : h = [s \in SUBSET S |-> Body(f, h, s)]
<1>. DEFINE Good(n, h) == \A s \in SUBSET S : Cardinality(s) <= n => h[s] = Body(f, h, s)
            N == {n \in Nat : ~ \E h \in [SUBSET S -> Nat] : Good(n, h)}
<1>0. \A s \in SUBSET S : /\ IsFiniteSet(s) /\ Cardinality(s) \in Nat
                          /\ Cardinality(s) = 0 <=> s = {}
                          /\ Cardinality(s) <= Cardinality(S)
  BY FS_Subset, FS_CardinalityType, FS_EmptySet
<1>1. \A s \in SUBSET S : s # {} => /\ Chosen(s) \in s
                                    /\ s \ {Chosen(s)} \in SUBSET S
                                    /\ Cardinality(s \ {Chosen(s)}) = Cardinality(s) - 1
  BY <1>0, FS_RemoveElement DEF Chosen
<1>2. N = {}
  <2>. SUFFICES ASSUME N # {} PROVE FALSE
    OBVIOUS
  <2>1. PICK n \in N : \A m \in N : n <= m
    BY LeastNatural
  <2>2. n # 0
    <3>. DEFINE h == [s \in SUBSET S |-> 0]
    <3>1. h \in [SUBSET S -> Nat] /\ Good(0, h)
      BY <1>0 DEF Body
    <3>. QED BY <3>1
  <2>3. PICK h \in [SUBSET S -> Nat] : Good(n - 1, h)
    <3>1. n \in Nat /\ n - 1 \in Nat /\ ~(n <= n - 1)
      BY <2>2
    <3>2. n - 1 \notin N
      <4>. HIDE DEF N
      <4>. QED BY <2>1, <3>1
    <3>. QED BY <3>1, <3>2
  <2>. DEFINE g == [s \in SUBSET S |-> Body(f, h, s)]
  <2>4. g \in [SUBSET S -> Nat]
    <3>1. \A s \in SUBSET S : s # {} => f[Chosen(s)] \in Nat /\ h[s \ {Chosen(s)}] \in Nat
      BY <1>1
    <3>2. \A s \in SUBSET S : Body(f, h, s) \in Nat
      BY <3>1 DEF Body
    <3>. QED BY <3>2
  <2>5. Good(n, g)
    <3>. SUFFICES ASSUME NEW s \in SUBSET S, Cardinality(s) <= n PROVE g[s] = Body(f, g, s)
      OBVIOUS
    <3>1. CASE s = {}
      BY <3>1 DEF Body
    <3>2. CASE s # {}
      <4>. DEFINE t == s \ {Chosen(s)}
      <4>1. t \in SUBSET S /\ Cardinality(t) <= n - 1
        BY <1>0, <1>1, <3>2
      <4>2. h[t] = Body(f, h, t)
        BY <4>1, <2>3
      <4>3. g[t] = h[t]
        BY <4>1, <4>2
      <4>. QED BY <3>2, <4>3 DEF Body
    <3>. QED BY <3>1, <3>2
  <2>. QED BY <2>4, <2>5, <2>1
<1>3. Cardinality(S) \in Nat
  BY FS_CardinalityType
<1>4. PICK h \in [SUBSET S -> Nat] : Good(Cardinality(S), h)
  BY <1>2, <1>3
<1>5. \A s \in SUBSET S : h[s] = Body(f, h, s)
  BY <1>0, <1>4
<1>. QED BY <1>5

\* On the subsets they have in common two solutions agree.
LEMMA FoldUnique ==
    ASSUME NEW f, NEW S, NEW U, NEW h, NEW g,
           IsFiniteSet(S), U \in SUBSET S, Solves(f, h, S), Solves(f, g, U)
    PROVE  \A s \in SUBSET U : h[s] = g[s]
<1>. DEFINE Bad == {s \in SUBSET U : h[s] # g[s]}
            N == {Cardinality(s) : s \in Bad}
<1>. SUFFICES ASSUME Bad # {} PROVE FALSE
  OBVIOUS
<1>0. \A s \in SUBSET U : IsFiniteSet(s) /\ Cardinality(s) \in Nat
  BY FS_Subset, FS_CardinalityType
<1>1. N \in SUBSET Nat /\ N # {}
  BY <1>0
<1>2. PICK n \in N : \A m \in N : n <= m
  BY <1>1, LeastNatural
<1>3. PICK s \in Bad : n = Cardinality(s)
  OBVIOUS
<1>4. s # {}
  BY <1>3 DEF Solves, Body
<1>5. Chosen(s) \in s
  BY <1>4 DEF Chosen
<1>6. /\ s \ {Chosen(s)} \in SUBSET U
      /\ Cardinality(s \ {Chosen(s)}) = Cardinality(s) - 1
      /\ Cardinality(s) \in Nat
  BY <1>0, <1>3, <1>5, FS_RemoveElement
<1>7. s \ {Chosen(s)} \notin Bad
  <2>1. ~(n <= Cardinality(s \ {Chosen(s)}))
    BY <1>3, <1>6
  <2>. QED BY <1>2, <2>1
<1>8. h[s \ {Chosen(s)}] = g[s \ {Chosen(s)}]
  BY <1>6, <1>7
<1>. QED BY <1>3, <1>4, <1>8 DEF Solves, Body

\* The sum of a finite set is a natural number, and the sum of its subsets is what the same
\* recursion gives.
LEMMA SumSolves ==
    ASSUME NEW f, NEW S, IsFiniteSet(S), \A x \in S : f[x] \in Nat
    PROVE  /\ SumFunctionOnSet(f, S) \in Nat
           /\ SumFunctionOnSet(f, {}) = 0
           /\ S # {} => SumFunctionOnSet(f, S) = f[Chosen(S)] + SumFunctionOnSet(f, S \ {Chosen(S)})
<1>1. ASSUME NEW U \in SUBSET S
      PROVE  /\ SumFunctionOnSet(f, U) = Fold(f, U)[U]
             /\ SumFunctionOnSet(f, U) \in Nat
             /\ Solves(f, Fold(f, U), U)
  <2>1. IsFiniteSet(U) /\ \A x \in U : f[x] \in Nat
    BY FS_Subset
  <2>2. PICK h \in [SUBSET U -> Nat] : h = [s \in SUBSET U |-> Body(f, h, s)]
    BY <2>1, FoldExists
  <2>3. Fold(f, U) = [s \in SUBSET U |-> Body(f, Fold(f, U), s)]
    BY <2>2 DEF Fold
  <2>4. Solves(f, Fold(f, U), U)
    BY <2>3, Zenon DEF Solves
  <2>5. Solves(f, h, U)
    BY <2>2, Zenon DEF Solves
  <2>6. U \in SUBSET U
    OBVIOUS
  <2>7. Fold(f, U)[U] = h[U]
    BY <2>1, <2>4, <2>5, <2>6, FoldUnique
  <2>. QED BY <2>4, <2>6, <2>7, SumUnfolds
<1>2. SumFunctionOnSet(f, {}) = 0
  BY <1>1 DEF Solves, Body
<1>3. ASSUME S # {}
      PROVE  SumFunctionOnSet(f, S) = f[Chosen(S)] + SumFunctionOnSet(f, S \ {Chosen(S)})
  <2>. DEFINE T == S \ {Chosen(S)}
  <2>0. T \in SUBSET S /\ T \in SUBSET T /\ S \in SUBSET S
    OBVIOUS
  <2>1. Fold(f, S)[S] = f[Chosen(S)] + Fold(f, S)[T]
    BY <1>1, <1>3, <2>0 DEF Solves, Body
  <2>2. \A s \in SUBSET T : Fold(f, S)[s] = Fold(f, T)[s]
    <3>1. ASSUME NEW U \in SUBSET S PROVE \A s \in SUBSET U : Fold(f, S)[s] = Fold(f, U)[s]
      <4>1. Solves(f, Fold(f, S), S) /\ Solves(f, Fold(f, U), U)
        BY <1>1, <2>0
      <4>. QED BY <4>1, FoldUnique
    <3>. QED BY <2>0, <3>1
  <2>. QED BY <1>1, <2>0, <2>1, <2>2
<1>. QED BY <1>1, <1>2, <1>3

\* The sum does not depend on the order: any element can be taken out.
LEMMA SumRemove ==
    ASSUME NEW f, NEW S, IsFiniteSet(S), \A x \in S : f[x] \in Nat
    PROVE  \A x \in S : SumFunctionOnSet(f, S) = f[x] + SumFunctionOnSet(f, S \ {x})
<1>. DEFINE Bad == {s \in SUBSET S : \E x \in s :
                      SumFunctionOnSet(f, s) # f[x] + SumFunctionOnSet(f, s \ {x})}
            N == {Cardinality(s) : s \in Bad}
<1>. SUFFICES ASSUME Bad # {} PROVE FALSE
  <2>1. S \in SUBSET S
    OBVIOUS
  <2>. QED BY <2>1
<1>0. \A s \in SUBSET S : /\ IsFiniteSet(s) /\ Cardinality(s) \in Nat
                          /\ \A x \in s : f[x] \in Nat
  BY FS_Subset, FS_CardinalityType
<1>1. N \in SUBSET Nat /\ N # {}
  BY <1>0
<1>2. PICK n \in N : \A m \in N : n <= m
  BY <1>1, LeastNatural
<1>3. PICK s \in Bad : n = Cardinality(s)
  OBVIOUS
<1>4. PICK x \in s : SumFunctionOnSet(f, s) # f[x] + SumFunctionOnSet(f, s \ {x})
  BY <1>3
<1>. DEFINE y == Chosen(s)
<1>5. y \in s /\ SumFunctionOnSet(f, s) = f[y] + SumFunctionOnSet(f, s \ {y})
  BY <1>0, <1>3, <1>4, SumSolves DEF Chosen
<1>6. x # y
  BY <1>4, <1>5
<1>. HIDE DEF y
<1>7. ASSUME NEW z \in s
      PROVE  /\ s \ {z} \in SUBSET S /\ s \ {z} \notin Bad
             /\ IsFiniteSet(s \ {z}) /\ \A u \in s \ {z} : f[u] \in Nat
  <2>1. s \ {z} \in SUBSET S /\ Cardinality(s \ {z}) = Cardinality(s) - 1
    BY <1>0, <1>3, FS_RemoveElement
  <2>2. ~(n <= Cardinality(s \ {z}))
    BY <1>0, <1>3, <2>1
  <2>. QED BY <1>0, <1>2, <2>1, <2>2
<1>8. SumFunctionOnSet(f, s \ {y}) = f[x] + SumFunctionOnSet(f, (s \ {y}) \ {x})
  <2>1. x \in s \ {y}
    BY <1>6
  <2>. QED BY <1>5, <1>7, <2>1
<1>9. SumFunctionOnSet(f, s \ {x}) = f[y] + SumFunctionOnSet(f, (s \ {x}) \ {y})
  <2>1. y \in s \ {x}
    BY <1>5, <1>6
  <2>. QED BY <1>7, <2>1
<1>10. (s \ {x}) \ {y} = (s \ {y}) \ {x}
  OBVIOUS
<1>11. SumFunctionOnSet(f, (s \ {y}) \ {x}) \in Nat /\ f[x] \in Nat /\ f[y] \in Nat
  <2>1. (s \ {y}) \ {x} \in SUBSET S
    BY <1>3
  <2>. QED BY <1>0, <1>3, <1>5, <2>1, SumSolves
<1>12. SumFunctionOnSet(f, s \ {x}) = f[y] + SumFunctionOnSet(f, (s \ {y}) \ {x})
  BY <1>9, <1>10
<1>13. SumFunctionOnSet(f, s) = f[y] + (f[x] + SumFunctionOnSet(f, (s \ {y}) \ {x}))
  BY <1>5, <1>8
<1>14. \A a, b, c \in Nat : a + (b + c) = b + (a + c)
  OBVIOUS
<1>. QED BY <1>4, <1>11, <1>12, <1>13, <1>14

(* What a sum over a finite set is: nothing over the empty set, a natural number, and *)
(* any element of the set can be taken out of it.                                    *)
LEMMA SumFacts ==
    ASSUME NEW f, NEW S, IsFiniteSet(S), \A x \in S : f[x] \in Nat
    PROVE  /\ SumFunctionOnSet(f, S) \in Nat
           /\ S = {} => SumFunctionOnSet(f, S) = 0
           /\ \A x \in S : /\ SumFunctionOnSet(f, S) = f[x] + SumFunctionOnSet(f, S \ {x})
                           /\ SumFunctionOnSet(f, S \ {x}) \in Nat
                           /\ f[x] <= SumFunctionOnSet(f, S)
<1>1. \A x \in S : SumFunctionOnSet(f, S \ {x}) \in Nat
  <2>1. ASSUME NEW x \in S PROVE SumFunctionOnSet(f, S \ {x}) \in Nat
    <3>1. IsFiniteSet(S \ {x}) /\ \A z \in S \ {x} : f[z] \in Nat
      BY FS_RemoveElement
    <3>. QED BY <3>1, SumSolves
  <2>. QED BY <2>1
<1>2. SumFunctionOnSet(f, S) \in Nat /\ (S = {} => SumFunctionOnSet(f, S) = 0)
  BY SumSolves
<1>. QED BY <1>1, <1>2, SumRemove

(* Where two functions agree they have the same sum. *)
LEMMA SumSame ==
    ASSUME NEW f, NEW g, NEW S, IsFiniteSet(S),
           \A x \in S : f[x] \in Nat /\ f[x] = g[x]
    PROVE  SumFunctionOnSet(f, S) = SumFunctionOnSet(g, S)
<1>. DEFINE Bad == {s \in SUBSET S : SumFunctionOnSet(f, s) # SumFunctionOnSet(g, s)}
            N == {Cardinality(s) : s \in Bad}
<1>. SUFFICES ASSUME Bad # {} PROVE FALSE
  <2>1. S \in SUBSET S
    OBVIOUS
  <2>. QED BY <2>1
<1>0. \A s \in SUBSET S : /\ IsFiniteSet(s) /\ Cardinality(s) \in Nat
                          /\ \A x \in s : f[x] \in Nat /\ g[x] \in Nat /\ f[x] = g[x]
  BY FS_Subset, FS_CardinalityType
<1>1. N \in SUBSET Nat /\ N # {}
  BY <1>0
<1>2. PICK n \in N : \A m \in N : n <= m
  BY <1>1, LeastNatural
<1>3. PICK s \in Bad : n = Cardinality(s)
  OBVIOUS
<1>4. s # {}
  BY <1>0, <1>3, SumFacts
<1>5. PICK x \in s : TRUE
  BY <1>4
<1>6. s \ {x} \in SUBSET S /\ Cardinality(s \ {x}) = Cardinality(s) - 1
  BY <1>0, <1>3, <1>5, FS_RemoveElement
<1>7. s \ {x} \notin Bad
  <2>1. ~(n <= Cardinality(s \ {x}))
    BY <1>0, <1>3, <1>6
  <2>. QED BY <1>2, <2>1
<1>8. /\ SumFunctionOnSet(f, s) = f[x] + SumFunctionOnSet(f, s \ {x})
      /\ SumFunctionOnSet(g, s) = g[x] + SumFunctionOnSet(g, s \ {x})
  BY <1>0, <1>3, <1>5, SumFacts
<1>9. SumFunctionOnSet(f, s \ {x}) = SumFunctionOnSet(g, s \ {x}) /\ f[x] = g[x]
  BY <1>0, <1>3, <1>5, <1>6, <1>7
<1>. QED BY <1>3, <1>8, <1>9

\* The share of one element in a sum.
Share(f, S, x) == IF x \in S THEN f[x] ELSE 0

(* Two sums that differ in one element differ by its shares. *)
LEMMA SumChange ==
    ASSUME NEW f, NEW g, NEW S, NEW T, NEW x,
           IsFiniteSet(S), IsFiniteSet(T), S \ {x} = T \ {x},
           \A y \in S : f[y] \in Nat, \A y \in T : g[y] \in Nat,
           \A y \in S \ {x} : f[y] = g[y]
    PROVE  /\ SumFunctionOnSet(f, S) \in Nat /\ SumFunctionOnSet(g, T) \in Nat
           /\ SumFunctionOnSet(g, T) + Share(f, S, x) = SumFunctionOnSet(f, S) + Share(g, T, x)
<1>. DEFINE R == S \ {x}
<1>1. IsFiniteSet(R)
  BY FS_Subset
<1>2. /\ SumFunctionOnSet(f, R) = SumFunctionOnSet(g, R) /\ SumFunctionOnSet(f, R) \in Nat
  BY <1>1, SumSame, SumFacts
<1>3. ASSUME NEW h, NEW U, IsFiniteSet(U), U \ {x} = R, \A y \in U : h[y] \in Nat
      PROVE  /\ SumFunctionOnSet(h, U) = Share(h, U, x) + SumFunctionOnSet(h, R)
             /\ Share(h, U, x) \in Nat
  <2>1. CASE x \in U
    BY <1>3, <2>1, SumFacts DEF Share
  <2>2. CASE x \notin U
    <3>1. U = R
      BY <1>3, <2>2
    <3>2. SumFunctionOnSet(h, R) \in Nat
      BY <1>3, <3>1, SumFacts
    <3>. QED BY <2>2, <3>1, <3>2 DEF Share
  <2>. QED BY <2>1, <2>2
<1>4. /\ SumFunctionOnSet(f, S) = Share(f, S, x) + SumFunctionOnSet(f, R) /\ Share(f, S, x) \in Nat
      /\ SumFunctionOnSet(g, T) = Share(g, T, x) + SumFunctionOnSet(g, R) /\ Share(g, T, x) \in Nat
  BY <1>3
<1>. HIDE DEF R
<1>. QED BY <1>2, <1>4

(* A sum grows by as much as its only term that changes. *)
LEMMA SumMoves ==
    ASSUME NEW f, NEW g, NEW S, NEW x, x \in S, IsFiniteSet(S),
           \A y \in S : f[y] \in Nat, \A y \in S : g[y] \in Nat,
           \A y \in S \ {x} : f[y] = g[y]
    PROVE  /\ SumFunctionOnSet(f, S) \in Nat /\ SumFunctionOnSet(g, S) \in Nat
           /\ SumFunctionOnSet(g, S) + f[x] = SumFunctionOnSet(f, S) + g[x]
<1>1. /\ SumFunctionOnSet(f, S) \in Nat /\ SumFunctionOnSet(g, S) \in Nat
      /\ SumFunctionOnSet(g, S) + Share(f, S, x) = SumFunctionOnSet(f, S) + Share(g, S, x)
  BY SumChange
<1>2. Share(f, S, x) = f[x] /\ Share(g, S, x) = g[x]
  BY DEF Share
<1>3. f[x] \in Nat /\ g[x] \in Nat
  OBVIOUS
<1>. QED BY <1>1, <1>2, <1>3

(* A sum grows with its terms. *)
LEMMA SumMonotone ==
    ASSUME NEW f, NEW g, NEW S, IsFiniteSet(S),
           \A x \in S : f[x] \in Nat /\ g[x] \in Nat /\ f[x] <= g[x]
    PROVE  SumFunctionOnSet(f, S) <= SumFunctionOnSet(g, S)
<1>. DEFINE Bad == {s \in SUBSET S : ~(SumFunctionOnSet(f, s) <= SumFunctionOnSet(g, s))}
            N == {Cardinality(s) : s \in Bad}
<1>. SUFFICES ASSUME Bad # {} PROVE FALSE
  <2>1. S \in SUBSET S
    OBVIOUS
  <2>. QED BY <2>1
<1>0. \A s \in SUBSET S : /\ IsFiniteSet(s) /\ Cardinality(s) \in Nat
                          /\ \A x \in s : f[x] \in Nat /\ g[x] \in Nat /\ f[x] <= g[x]
  BY FS_Subset, FS_CardinalityType
<1>1. N \in SUBSET Nat /\ N # {}
  BY <1>0
<1>2. PICK n \in N : \A m \in N : n <= m
  BY <1>1, LeastNatural
<1>3. PICK s \in Bad : n = Cardinality(s)
  OBVIOUS
<1>4. s # {}
  <2>. SUFFICES ASSUME s = {} PROVE FALSE
    OBVIOUS
  <2>1. SumFunctionOnSet(f, s) = 0 /\ SumFunctionOnSet(g, s) = 0
    BY <1>0, <1>3, SumFacts
  <2>. QED BY <1>3, <2>1
<1>5. PICK x \in s : TRUE
  BY <1>4
<1>6. s \ {x} \in SUBSET S /\ Cardinality(s \ {x}) = Cardinality(s) - 1
  BY <1>0, <1>3, <1>5, FS_RemoveElement
<1>7. s \ {x} \notin Bad
  <2>1. ~(n <= Cardinality(s \ {x}))
    BY <1>0, <1>3, <1>6
  <2>. QED BY <1>2, <2>1
<1>8. /\ SumFunctionOnSet(f, s) = f[x] + SumFunctionOnSet(f, s \ {x})
      /\ SumFunctionOnSet(g, s) = g[x] + SumFunctionOnSet(g, s \ {x})
      /\ SumFunctionOnSet(f, s \ {x}) \in Nat /\ SumFunctionOnSet(g, s \ {x}) \in Nat
  BY <1>0, <1>3, <1>5, SumFacts
<1>9. SumFunctionOnSet(f, s \ {x}) <= SumFunctionOnSet(g, s \ {x}) /\ f[x] <= g[x]
  BY <1>0, <1>3, <1>5, <1>6, <1>7
<1>10. f[x] \in Nat /\ g[x] \in Nat /\ ~(SumFunctionOnSet(f, s) <= SumFunctionOnSet(g, s))
  BY <1>0, <1>3, <1>5
<1>. HIDE DEF Bad
<1>. QED BY <1>8, <1>9, <1>10

(* Nothing adds up to nothing. *)
LEMMA SumZero ==
    ASSUME NEW f, NEW S, IsFiniteSet(S), \A x \in S : f[x] = 0
    PROVE  SumFunctionOnSet(f, S) = 0
<1>. DEFINE Bad == {s \in SUBSET S : SumFunctionOnSet(f, s) # 0}
            N == {Cardinality(s) : s \in Bad}
<1>. SUFFICES ASSUME Bad # {} PROVE FALSE
  <2>1. S \in SUBSET S
    OBVIOUS
  <2>. QED BY <2>1
<1>0. \A s \in SUBSET S : /\ IsFiniteSet(s) /\ Cardinality(s) \in Nat
                          /\ \A x \in s : f[x] \in Nat /\ f[x] = 0
  BY FS_Subset, FS_CardinalityType
<1>1. N \in SUBSET Nat /\ N # {}
  BY <1>0
<1>2. PICK n \in N : \A m \in N : n <= m
  BY <1>1, LeastNatural
<1>3. PICK s \in Bad : n = Cardinality(s)
  OBVIOUS
<1>4. s # {}
  BY <1>0, <1>3, SumFacts
<1>5. PICK x \in s : TRUE
  BY <1>4
<1>6. s \ {x} \in SUBSET S /\ Cardinality(s \ {x}) = Cardinality(s) - 1
  BY <1>0, <1>3, <1>5, FS_RemoveElement
<1>7. s \ {x} \notin Bad
  <2>1. ~(n <= Cardinality(s \ {x}))
    BY <1>0, <1>3, <1>6
  <2>. QED BY <1>2, <2>1
<1>8. SumFunctionOnSet(f, s) = f[x] + SumFunctionOnSet(f, s \ {x}) /\ f[x] = 0
  BY <1>0, <1>3, <1>5, SumFacts
<1>9. SumFunctionOnSet(f, s \ {x}) = 0
  BY <1>6, <1>7
<1>. QED BY <1>3, <1>8, <1>9

-----------------------------------------------------------------------------
(* The inductive invariant. *)

\* Balances and cost layers.
StockInv == bal \in [Warehouses -> Balances] /\ layers \in [Warehouses -> Layers] /\ CostFollowsStock

RowsTypeOK ==
    /\ reservation \in [Reservations -> ReservationRows]
    /\ \A r \in Reservations :
          reservation[r].allocated + reservation[r].released <= reservation[r].quantity
    /\ alloc \in [Allocs -> AllocRows]
    /\ transfer \in [Transfers -> TransferRows]
    /\ consumed \in [Items -> Nat]
    /\ progress \in [Allocs -> ProgressRows]
    /\ shipment \in [Shipments -> ShipmentRows]

\* A row that was not created is empty; a shipment is of an allocation, and an allocation
\* that came from a reservation is in the warehouse of that reservation.
RefersInv ==
    /\ \A r \in Reservations : reservation[r].status = "none" => reservation[r].quantity = 0
    /\ \A s \in Shipments : shipment[s].status # "none" => shipment[s].of \in Allocs
    /\ \A a \in Allocs : alloc[a].from \in Reservations =>
          reservation[alloc[a].from].status # "none" /\ reservation[alloc[a].from].warehouse = a[2]

\* An open allocation has shipped part of what was picked, and the order covers the
\* allocations of its item.
ProgressInv ==
    /\ \A a \in Allocs : alloc[a].status = "none" => progress[a].picked = 0 /\ progress[a].shipped = 0
    /\ \A a \in Allocs : Holding(a) =>
          /\ progress[a].shipped <= progress[a].picked /\ progress[a].picked <= alloc[a].quantity
          /\ progress[a].shipped < alloc[a].quantity
    /\ \A i \in Items : SumFunctionOnSet(AllocatedFor(i), Scope) <= Ordered

Inv == StockInv /\ RowsTypeOK /\ RefersInv /\ ProgressInv /\ ReservedIsCommitted /\ AllocatedIsHeld

-----------------------------------------------------------------------------
(* What the operations do to balances and layers. *)

USE DEF stockVars, ledgerVars, fulfillmentVars

\* The columns of one balance change by the given numbers of units.
Moves(w, onHand, reserved, allocated) ==
    \A v \in Warehouses :
       /\ bal'[v].onHand = bal[v].onHand + (IF v = w THEN onHand ELSE 0)
       /\ bal'[v].reserved = bal[v].reserved + (IF v = w THEN reserved ELSE 0)
       /\ bal'[v].allocated = bal[v].allocated + (IF v = w THEN allocated ELSE 0)

\* A booking replaces one balance, by one that its checks allow.
LEMMA BookIs ==
    ASSUME StockInv, NEW w \in Warehouses, NEW b, Book(w, b)
    PROVE  /\ bal' \in [Warehouses -> Balances] /\ bal'[w] = b
           /\ \A v \in Warehouses \ {w} : bal'[v] = bal[v]
           /\ b \in Balances /\ Encumbered(b) <= b.onHand
BY DEF Book, Checked, StockInv

\* Writes of one balance and of the layers of its warehouse.
LEMMA StockStepInv ==
    ASSUME StockInv, NEW w \in Warehouses, NEW b, Book(w, b),
           layers' \in [Warehouses -> Layers], \A v \in Warehouses \ {w} : layers'[v] = layers[v],
           layers'[w].sellable = b.onHand - b.damaged - b.quarantine,
           layers'[w].damaged = b.damaged, layers'[w].quarantine = b.quarantine
    PROVE  StockInv'
<1>1. /\ bal' \in [Warehouses -> Balances] /\ bal'[w] = b
      /\ \A v \in Warehouses \ {w} : bal'[v] = bal[v]
      /\ b \in Balances /\ Encumbered(b) <= b.onHand
  BY BookIs
<1>2. b.reserved + b.allocated <= layers'[w].sellable
  BY <1>1 DEF Encumbered, Balances
<1>. QED BY <1>1, <1>2 DEF StockInv, CostFollowsStock

\* The columns of a balance that is written.
LEMMA BookMoves ==
    ASSUME StockInv, NEW w \in Warehouses, NEW b, NEW x \in Int, NEW y \in Int, NEW z \in Int,
           Book(w, b), b.onHand = bal[w].onHand + x, b.reserved = bal[w].reserved + y,
           b.allocated = bal[w].allocated + z
    PROVE  Moves(w, x, y, z)
<1>1. /\ bal'[w] = b /\ \A v \in Warehouses \ {w} : bal'[v] = bal[v]
  BY BookIs
<1>2. \A v \in Warehouses : bal[v].onHand \in Nat /\ bal[v].reserved \in Nat /\ bal[v].allocated \in Nat
  BY DEF StockInv, Balances
<1>. QED BY <1>1, <1>2 DEF Moves

\* Where only promises are made, moved or given back.
LEMMA PromiseMoves ==
    ASSUME StockInv, NEW w \in Warehouses, NEW b, NEW y \in Int, NEW z \in Int,
           Book(w, b), UNCHANGED layers,
           b.onHand = bal[w].onHand, b.damaged = bal[w].damaged, b.quarantine = bal[w].quarantine,
           b.reserved = bal[w].reserved + y, b.allocated = bal[w].allocated + z
    PROVE  StockInv' /\ Moves(w, 0, y, z)
<1>1. b.onHand = bal[w].onHand + 0
  BY DEF StockInv, Balances
<1>2. Moves(w, 0, y, z)
  BY <1>1, BookMoves
<1>3. StockInv'
  BY StockStepInv DEF StockInv, CostFollowsStock
<1>. QED BY <1>2, <1>3

\* Stock put aside, taken back, received, counted, sold over the counter or thrown away.
LEMMA StockStepMoves ==
    ASSUME StockInv, NEW w \in Warehouses, NEW q \in Quantities,
           \/ \E bucket \in {"damaged", "quarantine"} : SetAside(w, bucket, q) \/ RemoveAside(w, bucket, q)
           \/ ReleaseQuarantine(w, q)
           \/ RemoveFree(w, q)
           \/ ReceiveGoods(w, q, 0)
           \/ ReceiveGoods(w, 0, q)
    PROVE  StockInv' /\ \E x \in Int : Moves(w, x, 0, 0)
<1>. q \in Nat
  BY LedgerAssumption DEF Quantities
<1>0. /\ bal[w] \in Balances /\ layers[w] \in Layers
      /\ layers[w].sellable = bal[w].onHand - bal[w].damaged - bal[w].quarantine
      /\ layers[w].damaged = bal[w].damaged /\ layers[w].quarantine = bal[w].quarantine
  BY DEF StockInv, CostFollowsStock
<1>. DEFINE s == layers[w].sellable
            d == layers[w].damaged
            u == layers[w].quarantine
<1>1. ASSUME NEW b, NEW x \in Int, Book(w, b), b.onHand = bal[w].onHand + x,
             b.reserved = bal[w].reserved, b.allocated = bal[w].allocated,
             layers' \in [Warehouses -> Layers], \A v \in Warehouses \ {w} : layers'[v] = layers[v],
             layers'[w].sellable = b.onHand - b.damaged - b.quarantine,
             layers'[w].damaged = b.damaged, layers'[w].quarantine = b.quarantine
      PROVE  StockInv' /\ \E n \in Int : Moves(w, n, 0, 0)
  <2>1. StockInv'
    BY <1>1, StockStepInv
  <2>2. b.reserved = bal[w].reserved + 0 /\ b.allocated = bal[w].allocated + 0
    BY <1>0, <1>1 DEF Balances
  <2>. QED BY <1>1, <2>1, <2>2, BookMoves
<1>2. CASE SetAside(w, "damaged", q)
  <2>1. PICK b : b = [bal[w] EXCEPT !.damaged = @ + q]
    OBVIOUS
  <2>. DEFINE m == s - q
              n == d + q
  <2>2. /\ Book(w, b) /\ q <= s
        /\ layers' = [layers EXCEPT ![w].sellable = m, ![w].damaged = n]
    BY <1>2, <2>1 DEF SetAside, MoveAside, StockInv, Layers
  <2>3. m \in Nat /\ n \in Nat
    BY <1>0, <2>2 DEF Layers
  <2>4. /\ b.onHand = bal[w].onHand + 0 /\ b.reserved = bal[w].reserved /\ b.allocated = bal[w].allocated
        /\ m = b.onHand - b.damaged - b.quarantine /\ n = b.damaged /\ u = b.quarantine
    BY <1>0, <2>1 DEF Balances
  <2>. HIDE DEF m, n
  <2>5. /\ layers' \in [Warehouses -> Layers] /\ \A v \in Warehouses \ {w} : layers'[v] = layers[v]
        /\ layers'[w].sellable = m /\ layers'[w].damaged = n /\ layers'[w].quarantine = u
    BY <2>2, <2>3 DEF StockInv, Layers
  <2>. QED BY <1>1, <2>2, <2>4, <2>5
<1>3. CASE SetAside(w, "quarantine", q)
  <2>1. PICK b : b = [bal[w] EXCEPT !.quarantine = @ + q]
    OBVIOUS
  <2>. DEFINE m == s - q
              n == u + q
  <2>2. /\ Book(w, b) /\ q <= s
        /\ layers' = [layers EXCEPT ![w].sellable = m, ![w].quarantine = n]
    BY <1>3, <2>1 DEF SetAside, MoveAside, StockInv, Layers
  <2>3. m \in Nat /\ n \in Nat
    BY <1>0, <2>2 DEF Layers
  <2>4. /\ b.onHand = bal[w].onHand + 0 /\ b.reserved = bal[w].reserved /\ b.allocated = bal[w].allocated
        /\ m = b.onHand - b.damaged - b.quarantine /\ d = b.damaged /\ n = b.quarantine
    BY <1>0, <2>1 DEF Balances
  <2>. HIDE DEF m, n
  <2>5. /\ layers' \in [Warehouses -> Layers] /\ \A v \in Warehouses \ {w} : layers'[v] = layers[v]
        /\ layers'[w].sellable = m /\ layers'[w].damaged = d /\ layers'[w].quarantine = n
    BY <2>2, <2>3 DEF StockInv, Layers
  <2>. QED BY <1>1, <2>2, <2>4, <2>5
<1>4. CASE RemoveAside(w, "damaged", q)
  <2>1. PICK b : b = [bal[w] EXCEPT !.onHand = @ - q, !.damaged = @ - q]
    OBVIOUS
  <2>. DEFINE n == d - q
  <2>2. /\ Book(w, b) /\ q <= d
        /\ layers' = [layers EXCEPT ![w].damaged = n]
    BY <1>4, <2>1 DEF RemoveAside, TakeAside, StockInv, Layers
  <2>3. n \in Nat
    BY <1>0, <2>2 DEF Layers
  <2>4. /\ b.onHand = bal[w].onHand + (-q) /\ b.reserved = bal[w].reserved /\ b.allocated = bal[w].allocated
        /\ s = b.onHand - b.damaged - b.quarantine /\ n = b.damaged /\ u = b.quarantine
    BY <1>0, <2>1 DEF Balances
  <2>. HIDE DEF n
  <2>5. /\ layers' \in [Warehouses -> Layers] /\ \A v \in Warehouses \ {w} : layers'[v] = layers[v]
        /\ layers'[w].sellable = s /\ layers'[w].damaged = n /\ layers'[w].quarantine = u
    BY <2>2, <2>3 DEF StockInv, Layers
  <2>6. -q \in Int
    OBVIOUS
  <2>. QED BY <1>1, <2>2, <2>4, <2>5, <2>6
<1>5. CASE RemoveAside(w, "quarantine", q)
  <2>1. PICK b : b = [bal[w] EXCEPT !.onHand = @ - q, !.quarantine = @ - q]
    OBVIOUS
  <2>. DEFINE n == u - q
  <2>2. /\ Book(w, b) /\ q <= u
        /\ layers' = [layers EXCEPT ![w].quarantine = n]
    BY <1>5, <2>1 DEF RemoveAside, TakeAside, StockInv, Layers
  <2>3. n \in Nat
    BY <1>0, <2>2 DEF Layers
  <2>4. /\ b.onHand = bal[w].onHand + (-q) /\ b.reserved = bal[w].reserved /\ b.allocated = bal[w].allocated
        /\ s = b.onHand - b.damaged - b.quarantine /\ d = b.damaged /\ n = b.quarantine
    BY <1>0, <2>1 DEF Balances
  <2>. HIDE DEF n
  <2>5. /\ layers' \in [Warehouses -> Layers] /\ \A v \in Warehouses \ {w} : layers'[v] = layers[v]
        /\ layers'[w].sellable = s /\ layers'[w].damaged = d /\ layers'[w].quarantine = n
    BY <2>2, <2>3 DEF StockInv, Layers
  <2>6. -q \in Int
    OBVIOUS
  <2>. QED BY <1>1, <2>2, <2>4, <2>5, <2>6
<1>6. CASE ReleaseQuarantine(w, q)
  <2>1. PICK b : b = [bal[w] EXCEPT !.quarantine = @ - q]
    OBVIOUS
  <2>. DEFINE m == s + q
              n == u - q
  <2>2. /\ Book(w, b) /\ q <= u
        /\ layers' = [layers EXCEPT ![w].quarantine = n, ![w].sellable = m]
    BY <1>6, <2>1 DEF ReleaseQuarantine, StockInv, Layers
  <2>3. m \in Nat /\ n \in Nat
    BY <1>0, <2>2 DEF Layers
  <2>4. /\ b.onHand = bal[w].onHand + 0 /\ b.reserved = bal[w].reserved /\ b.allocated = bal[w].allocated
        /\ m = b.onHand - b.damaged - b.quarantine /\ d = b.damaged /\ n = b.quarantine
    BY <1>0, <2>1 DEF Balances
  <2>. HIDE DEF m, n
  <2>5. /\ layers' \in [Warehouses -> Layers] /\ \A v \in Warehouses \ {w} : layers'[v] = layers[v]
        /\ layers'[w].sellable = m /\ layers'[w].damaged = d /\ layers'[w].quarantine = n
    BY <2>2, <2>3 DEF StockInv, Layers
  <2>. QED BY <1>1, <2>2, <2>4, <2>5
<1>7. CASE RemoveFree(w, q)
  <2>1. PICK b : b = [bal[w] EXCEPT !.onHand = @ - q]
    OBVIOUS
  <2>. DEFINE m == s - q
  <2>2. /\ Book(w, b) /\ q <= s
        /\ layers' = [layers EXCEPT ![w].sellable = m]
    BY <1>7, <2>1 DEF RemoveFree, TakeSellable, StockInv, Layers
  <2>3. m \in Nat
    BY <1>0, <2>2 DEF Layers
  <2>4. /\ b.onHand = bal[w].onHand + (-q) /\ b.reserved = bal[w].reserved /\ b.allocated = bal[w].allocated
        /\ m = b.onHand - b.damaged - b.quarantine /\ d = b.damaged /\ u = b.quarantine
    BY <1>0, <2>1 DEF Balances
  <2>. HIDE DEF m
  <2>5. /\ layers' \in [Warehouses -> Layers] /\ \A v \in Warehouses \ {w} : layers'[v] = layers[v]
        /\ layers'[w].sellable = m /\ layers'[w].damaged = d /\ layers'[w].quarantine = u
    BY <2>2, <2>3 DEF StockInv, Layers
  <2>6. -q \in Int
    OBVIOUS
  <2>. QED BY <1>1, <2>2, <2>4, <2>5, <2>6
<1>8. CASE ReceiveGoods(w, q, 0)
  <2>1. PICK b : b = [bal[w] EXCEPT !.onHand = @ + q + 0, !.quarantine = @ + 0]
    OBVIOUS
  <2>. DEFINE m == s + q
              n == u + 0
  <2>2. /\ Book(w, b)
        /\ layers' = [layers EXCEPT ![w].sellable = m, ![w].quarantine = n]
    BY <1>8, <2>1 DEF ReceiveGoods, StockInv, Layers
  <2>3. m \in Nat /\ n \in Nat
    BY <1>0, <2>2 DEF Layers
  <2>4. /\ b.onHand = bal[w].onHand + q /\ b.reserved = bal[w].reserved /\ b.allocated = bal[w].allocated
        /\ m = b.onHand - b.damaged - b.quarantine /\ d = b.damaged /\ n = b.quarantine
    BY <1>0, <2>1 DEF Balances
  <2>. HIDE DEF m, n
  <2>5. /\ layers' \in [Warehouses -> Layers] /\ \A v \in Warehouses \ {w} : layers'[v] = layers[v]
        /\ layers'[w].sellable = m /\ layers'[w].damaged = d /\ layers'[w].quarantine = n
    BY <2>2, <2>3 DEF StockInv, Layers
  <2>. QED BY <1>1, <2>2, <2>4, <2>5
<1>9. CASE ReceiveGoods(w, 0, q)
  <2>1. PICK b : b = [bal[w] EXCEPT !.onHand = @ + 0 + q, !.quarantine = @ + q]
    OBVIOUS
  <2>. DEFINE m == s + 0
              n == u + q
  <2>2. /\ Book(w, b)
        /\ layers' = [layers EXCEPT ![w].sellable = m, ![w].quarantine = n]
    BY <1>9, <2>1 DEF ReceiveGoods, StockInv, Layers
  <2>3. m \in Nat /\ n \in Nat
    BY <1>0, <2>2 DEF Layers
  <2>4. /\ b.onHand = bal[w].onHand + q /\ b.reserved = bal[w].reserved /\ b.allocated = bal[w].allocated
        /\ m = b.onHand - b.damaged - b.quarantine /\ d = b.damaged /\ n = b.quarantine
    BY <1>0, <2>1 DEF Balances
  <2>. HIDE DEF m, n
  <2>5. /\ layers' \in [Warehouses -> Layers] /\ \A v \in Warehouses \ {w} : layers'[v] = layers[v]
        /\ layers'[w].sellable = m /\ layers'[w].damaged = d /\ layers'[w].quarantine = n
    BY <2>2, <2>3 DEF StockInv, Layers
  <2>. QED BY <1>1, <2>2, <2>4, <2>5
<1>. QED BY <1>2, <1>3, <1>4, <1>5, <1>6, <1>7, <1>8, <1>9

\* Sellable units that leave a warehouse, free ones or allocated ones, or come in.
LEMMA SellableInv ==
    ASSUME StockInv, NEW w \in Warehouses, NEW b, NEW m \in Nat,
           Book(w, b), layers' = [layers EXCEPT ![w].sellable = m],
           m = b.onHand - bal[w].damaged - bal[w].quarantine,
           b.damaged = bal[w].damaged, b.quarantine = bal[w].quarantine
    PROVE  StockInv'
<1>1. layers[w].damaged = bal[w].damaged /\ layers[w].quarantine = bal[w].quarantine
  BY DEF StockInv, CostFollowsStock
<1>2. /\ layers' \in [Warehouses -> Layers] /\ \A v \in Warehouses \ {w} : layers'[v] = layers[v]
      /\ layers'[w].sellable = m /\ layers'[w].damaged = layers[w].damaged
      /\ layers'[w].quarantine = layers[w].quarantine
  BY DEF StockInv, Layers
<1>. QED BY <1>1, <1>2, StockStepInv

\* Units taken for an allocation leave the stock and the allocated column together.
LEMMA TakeMoves ==
    ASSUME StockInv, NEW a \in Allocs, NEW q \in Nat, TakeAllocated(a, q)
    PROVE  StockInv' /\ Moves(a[2], -q, 0, -q)
<1>w. PICK w \in Warehouses : w = a[2]
  BY LedgerAssumption DEF Allocs
<1>0. bal[w] \in Balances /\ layers[w] \in Layers
  BY DEF StockInv
<1>1. PICK b : b = [bal[w] EXCEPT !.onHand = @ - q, !.allocated = @ - q]
  OBVIOUS
<1>2. PICK m : m = layers[w].sellable - q
  OBVIOUS
<1>3. /\ Book(w, b) /\ q <= layers[w].sellable
      /\ layers' = [layers EXCEPT ![w].sellable = m]
  BY <1>w, <1>1, <1>2 DEF TakeAllocated, TakeSellable, StockInv, Layers
<1>4. m \in Nat
  BY <1>0, <1>2, <1>3 DEF Layers
<1>5. /\ b.onHand = bal[w].onHand + (-q) /\ b.reserved = bal[w].reserved + 0
      /\ b.allocated = bal[w].allocated + (-q)
      /\ b.damaged = bal[w].damaged /\ b.quarantine = bal[w].quarantine
      /\ m = b.onHand - bal[w].damaged - bal[w].quarantine
  BY <1>0, <1>1, <1>2 DEF Balances, StockInv, CostFollowsStock
<1>6. (-q) \in Int /\ 0 \in Int
  OBVIOUS
<1>7. StockInv'
  BY <1>3, <1>4, <1>5, SellableInv
<1>8. Moves(w, (-q), 0, (-q))
  BY <1>3, <1>5, <1>6, BookMoves
<1>. QED BY <1>w, <1>7, <1>8

\* A transfer that is shipped takes its units out of the source, which has them free.
LEMMA ShipMoves ==
    ASSUME StockInv, RowsTypeOK, NEW t \in Transfers, ShipTransfer(t)
    PROVE  StockInv' /\ \E w \in Warehouses, q \in Nat :
              w = transfer[t].source /\ q = transfer[t].quantity /\ Moves(w, -q, 0, 0)
<1>w. PICK w \in Warehouses, q \in Nat : w = transfer[t].source /\ q = transfer[t].quantity
  BY DEF RowsTypeOK, TransferRows
<1>0. bal[w] \in Balances /\ layers[w] \in Layers
  BY DEF StockInv
<1>1. PICK b : b = [bal[w] EXCEPT !.onHand = @ - q]
  OBVIOUS
<1>2. PICK m : m = layers[w].sellable - q
  OBVIOUS
<1>3. /\ Book(w, b) /\ q <= layers[w].sellable
      /\ layers' = [layers EXCEPT ![w].sellable = m]
  BY <1>w, <1>1, <1>2 DEF ShipTransfer, TakeSellable, StockInv, Layers
<1>4. m \in Nat
  BY <1>0, <1>2, <1>3 DEF Layers
<1>5. /\ b.onHand = bal[w].onHand + (-q) /\ b.reserved = bal[w].reserved + 0
      /\ b.allocated = bal[w].allocated + 0
      /\ b.damaged = bal[w].damaged /\ b.quarantine = bal[w].quarantine
      /\ m = b.onHand - bal[w].damaged - bal[w].quarantine
  BY <1>0, <1>1, <1>2 DEF Balances, StockInv, CostFollowsStock
<1>6. (-q) \in Int /\ 0 \in Int
  OBVIOUS
<1>7. StockInv'
  BY <1>3, <1>4, <1>5, SellableInv
<1>8. Moves(w, (-q), 0, 0)
  BY <1>3, <1>5, <1>6, BookMoves
<1>. QED BY <1>w, <1>7, <1>8

\* A transfer that is received puts its units into the target.
LEMMA ReceiveMoves ==
    ASSUME StockInv, RowsTypeOK, NEW t \in Transfers, ReceiveTransfer(t)
    PROVE  StockInv' /\ \E w \in Warehouses, q \in Nat :
              w = transfer[t].destination /\ q = transfer[t].quantity /\ Moves(w, q, 0, 0)
<1>w. PICK w \in Warehouses, q \in Nat : w = transfer[t].destination /\ q = transfer[t].quantity
  BY DEF RowsTypeOK, TransferRows
<1>0. bal[w] \in Balances /\ layers[w] \in Layers
  BY DEF StockInv
<1>1. PICK b : b = [bal[w] EXCEPT !.onHand = @ + q]
  OBVIOUS
<1>2. PICK m : m = layers[w].sellable + q
  OBVIOUS
<1>3. Book(w, b) /\ layers' = [layers EXCEPT ![w].sellable = m]
  BY <1>w, <1>1, <1>2 DEF ReceiveTransfer, AddSellable, StockInv, Layers
<1>4. m \in Nat
  BY <1>0, <1>2, <1>3 DEF Layers
<1>5. /\ b.onHand = bal[w].onHand + q /\ b.reserved = bal[w].reserved + 0
      /\ b.allocated = bal[w].allocated + 0
      /\ b.damaged = bal[w].damaged /\ b.quarantine = bal[w].quarantine
      /\ m = b.onHand - bal[w].damaged - bal[w].quarantine
  BY <1>0, <1>1, <1>2 DEF Balances, StockInv, CostFollowsStock
<1>6. q \in Int /\ 0 \in Int
  OBVIOUS
<1>7. StockInv'
  BY <1>3, <1>4, <1>5, SellableInv
<1>8. Moves(w, q, 0, 0)
  BY <1>3, <1>5, <1>6, BookMoves
<1>. QED BY <1>w, <1>7, <1>8
-----------------------------------------------------------------------------
(* Reservations. *)

\* A step on the row of one reservation, which changes what it commits by k units.
RowEffect(r, w, k) ==
    /\ reservation' \in [Reservations -> ReservationRows]
    /\ reservation'[r].allocated + reservation'[r].released <= reservation'[r].quantity
    /\ \A s \in Reservations \ {r} : reservation'[s] = reservation[s]
    /\ reservation'[r].status # "none" /\ reservation'[r].warehouse = w
    /\ reservation[r].status # "none" => reservation[r].warehouse = w
    /\ Commitment(r)' = Commitment(r) + k

Row(r) == reservation[r]

\* The numbers of a reservation row.
LEMMA RowFacts ==
    ASSUME RowsTypeOK, NEW r \in Reservations
    PROVE  /\ Row(r) \in ReservationRows /\ Row(r).warehouse \in Warehouses
           /\ Row(r).quantity \in Nat /\ Row(r).allocated \in Nat /\ Row(r).released \in Nat
           /\ Commitment(r) \in Nat /\ Commitment(r) = Row(r).quantity - Row(r).allocated - Row(r).released
BY DEF RowsTypeOK, ReservationRows, Commitment, Row

\* A row of reservations is overwritten.
LEMMA RowWritten ==
    ASSUME RowsTypeOK, NEW r \in Reservations, NEW row \in ReservationRows,
           row.allocated + row.released <= row.quantity, reservation' = [reservation EXCEPT ![r] = row]
    PROVE  /\ reservation' \in [Reservations -> ReservationRows] /\ reservation'[r] = row
           /\ reservation'[r].allocated + reservation'[r].released <= reservation'[r].quantity
           /\ \A s \in Reservations \ {r} : reservation'[s] = reservation[s]
           /\ Commitment(r)' = row.quantity - row.allocated - row.released
BY DEF RowsTypeOK, Commitment

\* A reservation commits what its balance reserves.
LEMMA ReserveEffect ==
    ASSUME StockInv, RowsTypeOK, RefersInv, NEW r \in Reservations, NEW w \in Warehouses,
           NEW q \in Quantities, Reserve(r, w, q)
    PROVE  StockInv' /\ Moves(w, 0, q, 0) /\ RowEffect(r, w, q)
<1>. q \in Nat
  BY LedgerAssumption DEF Quantities
<1>1. PICK b : b = [bal[w] EXCEPT !.reserved = @ + q]
  OBVIOUS
<1>2. bal[w] \in Balances
  BY DEF StockInv
<1>3. /\ b.onHand = bal[w].onHand /\ b.damaged = bal[w].damaged /\ b.quarantine = bal[w].quarantine
      /\ b.reserved = bal[w].reserved + q /\ b.allocated = bal[w].allocated + 0
  BY <1>1, <1>2 DEF Balances
<1>4. Book(w, b) /\ UNCHANGED layers
  BY <1>1 DEF Reserve, KeepRest
<1>5. 0 \in Int /\ q \in Int
  OBVIOUS
<1>6. StockInv' /\ Moves(w, 0, q, 0)
  BY <1>3, <1>4, <1>5, PromiseMoves
<1>7. PICK row : row = [status |-> "active", warehouse |-> w, quantity |-> q, allocated |-> 0, released |-> 0]
  OBVIOUS
<1>8. /\ row \in ReservationRows /\ row.allocated + row.released <= row.quantity
      /\ row.quantity - row.allocated - row.released = q
      /\ row.status = "active" /\ row.warehouse = w
  BY <1>7 DEF ReservationRows, Open
<1>9. reservation' = [reservation EXCEPT ![r] = row] /\ reservation[r].status = "none"
  BY <1>7 DEF Reserve
<1>10. Commitment(r) = 0
  BY <1>9, RowFacts DEF RefersInv, Row
<1>11. /\ reservation' \in [Reservations -> ReservationRows] /\ reservation'[r] = row
       /\ reservation'[r].allocated + reservation'[r].released <= reservation'[r].quantity
       /\ \A s \in Reservations \ {r} : reservation'[s] = reservation[s]
       /\ Commitment(r)' = q
  BY <1>8, <1>9, RowWritten
<1>. QED BY <1>6, <1>8, <1>9, <1>10, <1>11 DEF RowEffect

\* A reservation that ends gives its balance back what it still commits, and no more.
LEMMA GiveUpEffect ==
    ASSUME StockInv, RowsTypeOK, NEW r \in Reservations, NEW to,
           to \in {"released", "expired", "converted"}, GiveUp(r, to)
    PROVE  StockInv' /\ \E w \in Warehouses, k \in Int : Moves(w, 0, k, 0) /\ RowEffect(r, w, k)
<1>1. PICK w \in Warehouses : w = Row(r).warehouse
  BY RowFacts
<1>2. PICK c \in Nat : c = Commitment(r)
  BY RowFacts
<1>3. PICK b : b = [bal[w] EXCEPT !.reserved = @ - c]
  OBVIOUS
<1>4. bal[w] \in Balances
  BY DEF StockInv
<1>5. /\ b.onHand = bal[w].onHand /\ b.damaged = bal[w].damaged /\ b.quarantine = bal[w].quarantine
      /\ b.reserved = bal[w].reserved + (-c) /\ b.allocated = bal[w].allocated + 0
  BY <1>3, <1>4 DEF Balances
<1>6. Book(w, b) /\ UNCHANGED layers
  BY <1>1, <1>2, <1>3 DEF GiveUp, KeepRest, Row
<1>7. 0 \in Int /\ -c \in Int
  OBVIOUS
<1>8. StockInv' /\ Moves(w, 0, -c, 0)
  BY <1>5, <1>6, <1>7, PromiseMoves
<1>9. PICK row : row = [Row(r) EXCEPT !.status = to, !.released = Row(r).released + c]
  OBVIOUS
<1>o. PICK o \in ReservationRows : o = Row(r)
  BY RowFacts
<1>x. PICK x \in Nat : x = o.released + c
  BY <1>o, RowFacts
<1>y. row = [o EXCEPT !.status = to, !.released = x]
  BY <1>9, <1>o, <1>x
<1>10. /\ row \in ReservationRows /\ row.allocated + row.released <= row.quantity
       /\ row.quantity - row.allocated - row.released = 0
       /\ row.status = to /\ row.warehouse = w
  <2>1. /\ o.quantity \in Nat /\ o.allocated \in Nat
        /\ o.released \in Nat /\ c = o.quantity - o.allocated - o.released
    BY <1>2, <1>o, RowFacts
  <2>2. /\ row.quantity = o.quantity /\ row.allocated = o.allocated
        /\ row.released = x /\ row.status = to /\ row.warehouse = w
    BY <1>1, <1>o, <1>y DEF ReservationRows
  <2>3. row \in ReservationRows
    BY <1>y DEF ReservationRows
  <2>. QED BY <1>x, <2>1, <2>2, <2>3
<1>11. reservation' = [reservation EXCEPT ![r] = row]
  BY <1>2, <1>9 DEF GiveUp, Row, RowsTypeOK
<1>12. /\ reservation' \in [Reservations -> ReservationRows] /\ reservation'[r] = row
       /\ reservation'[r].allocated + reservation'[r].released <= reservation'[r].quantity
       /\ \A s \in Reservations \ {r} : reservation'[s] = reservation[s]
       /\ Commitment(r)' = 0
  BY <1>10, <1>11, RowWritten
<1>13. Commitment(r)' = Commitment(r) + (-c)
  BY <1>2, <1>12
<1>. QED BY <1>1, <1>7, <1>8, <1>10, <1>12, <1>13 DEF RowEffect, Row

(* What the warehouses have reserved follows what the reservations commit. *)
LEMMA CommittedChange ==
    ASSUME RowsTypeOK, RefersInv, ReservedIsCommitted, StockInv,
           NEW r \in Reservations, NEW w \in Warehouses,
           NEW k \in Int, NEW x \in Int, NEW z \in Int, Moves(w, x, k, z), RowEffect(r, w, k)
    PROVE  ReservedIsCommitted'
<1>. SUFFICES ASSUME NEW v \in Warehouses
             PROVE  bal'[v].reserved = SumFunctionOnSet(CommittedAt(v)', Reservations)
  BY DEF ReservedIsCommitted
<1>1. PICK f : f = CommittedAt(v)
  OBVIOUS
<1>2. PICK g : g = CommittedAt(v)'
  OBVIOUS
<1>3. \A s \in Reservations :
         /\ f[s] = IF reservation[s].warehouse = v THEN Commitment(s) ELSE 0
         /\ Commitment(s) \in Nat
         /\ reservation[s].status = "none" => Commitment(s) = 0
  <2>1. \A s \in Reservations : f[s] = IF reservation[s].warehouse = v THEN Commitment(s) ELSE 0
    BY <1>1 DEF CommittedAt
  <2>2. ASSUME NEW s \in Reservations
        PROVE  Commitment(s) \in Nat /\ (reservation[s].status = "none" => Commitment(s) = 0)
    <3>1. /\ Row(s).quantity \in Nat /\ Row(s).allocated \in Nat /\ Row(s).released \in Nat
          /\ Commitment(s) \in Nat /\ Commitment(s) = Row(s).quantity - Row(s).allocated - Row(s).released
      BY RowFacts
    <3>2. reservation[s].status = "none" => Row(s).quantity = 0
      BY DEF RefersInv, Row
    <3>. QED BY <3>1, <3>2
  <2>. QED BY <2>1, <2>2
<1>4. \A s \in Reservations \ {r} : g[s] = f[s]
  BY <1>2, <1>3 DEF CommittedAt, Commitment, RowEffect
<1>5. /\ g[r] = (IF v = w THEN Commitment(r) + k ELSE 0)
      /\ f[r] = (IF v = w THEN Commitment(r) ELSE 0)
  BY <1>2, <1>3 DEF CommittedAt, RowEffect
<1>6. Commitment(r) + k \in Nat
  <2>1. /\ Commitment(r)' = reservation'[r].quantity - reservation'[r].allocated - reservation'[r].released
        /\ reservation'[r] \in ReservationRows
        /\ reservation'[r].allocated + reservation'[r].released <= reservation'[r].quantity
    BY DEF Commitment, RowEffect
  <2>2. Commitment(r)' \in Nat
    BY <2>1 DEF ReservationRows
  <2>. QED BY <2>2 DEF RowEffect
<1>7. /\ \A s \in Reservations : f[s] \in Nat
      /\ \A s \in Reservations : g[s] \in Nat
  BY <1>3, <1>4, <1>5, <1>6
<1>8. /\ SumFunctionOnSet(f, Reservations) \in Nat /\ SumFunctionOnSet(g, Reservations) \in Nat
      /\ SumFunctionOnSet(g, Reservations) + f[r] = SumFunctionOnSet(f, Reservations) + g[r]
  BY <1>4, <1>7, FiniteAssumption, SumChange DEF Share
<1>9. /\ bal[v].reserved = SumFunctionOnSet(f, Reservations)
      /\ bal'[v].reserved = bal[v].reserved + (IF v = w THEN k ELSE 0)
  BY <1>1 DEF ReservedIsCommitted, Moves
<1>10. bal'[v].reserved = SumFunctionOnSet(g, Reservations)
  BY <1>3, <1>5, <1>8, <1>9
<1>. QED BY <1>2, <1>10

(* The status of a reservation changes and its quantities do not. *)
LEMMA StatusEffect ==
    ASSUME StockInv, RowsTypeOK, NEW r \in Reservations, NEW to,
           to \in {"payment_pending", "late_payment_review"}, reservation[r].status # "none",
           reservation' = [reservation EXCEPT ![r].status = to], UNCHANGED bal, UNCHANGED layers
    PROVE  StockInv' /\ \E w \in Warehouses : Moves(w, 0, 0, 0) /\ RowEffect(r, w, 0)
<1>1. StockInv'
  BY DEF StockInv, CostFollowsStock
<1>2. PICK o \in ReservationRows : o = Row(r)
  BY RowFacts
<1>3. PICK w \in Warehouses : w = o.warehouse
  BY DEF ReservationRows
<1>4. Moves(w, 0, 0, 0)
  BY DEF Moves, StockInv, Balances
<1>5. PICK row : row = [o EXCEPT !.status = to]
  OBVIOUS
<1>6. /\ o.quantity \in Nat /\ o.allocated \in Nat /\ o.released \in Nat
      /\ o.allocated + o.released <= o.quantity
  BY <1>2, RowFacts DEF RowsTypeOK, Row
<1>7. /\ row.quantity = o.quantity /\ row.allocated = o.allocated
      /\ row.released = o.released /\ row.status = to /\ row.warehouse = w
  BY <1>3, <1>5 DEF ReservationRows
<1>8. row \in ReservationRows
  BY <1>5 DEF ReservationRows, Open
<1>9. reservation' = [reservation EXCEPT ![r] = row]
  BY <1>2, <1>5 DEF Row, RowsTypeOK
<1>10. /\ reservation' \in [Reservations -> ReservationRows] /\ reservation'[r] = row
       /\ reservation'[r].allocated + reservation'[r].released <= reservation'[r].quantity
       /\ \A s \in Reservations \ {r} : reservation'[s] = reservation[s]
       /\ Commitment(r)' = row.quantity - row.allocated - row.released
  BY <1>6, <1>7, <1>8, <1>9, RowWritten
<1>11. Commitment(r)' = Commitment(r) + 0
  BY <1>2, <1>6, <1>7, <1>10, RowFacts
<1>12. RowEffect(r, w, 0)
  BY <1>2, <1>3, <1>7, <1>10, <1>11 DEF RowEffect, Row
<1>. QED BY <1>1, <1>4, <1>12

(* A late payment takes what was released once more. *)
LEMMA ConvertEffect ==
    ASSUME StockInv, RowsTypeOK, NEW r \in Reservations, Convert(r)
    PROVE  StockInv' /\ \E w \in Warehouses, k \in Int : Moves(w, 0, k, 0) /\ RowEffect(r, w, k)
<1>2. PICK o \in ReservationRows : o = Row(r)
  BY RowFacts
<1>3. PICK w \in Warehouses : w = o.warehouse
  BY DEF ReservationRows
<1>6. /\ o.quantity \in Nat /\ o.allocated \in Nat /\ o.released \in Nat
      /\ o.allocated + o.released <= o.quantity
  BY <1>2, RowFacts DEF RowsTypeOK, Row
<1>a. PICK k : k = IF o.status = "late_payment_review" THEN o.released ELSE 0
  OBVIOUS
<1>k. k \in Nat /\ k <= o.released /\ k \in Int /\ 0 \in Int
  BY <1>6, <1>a
<1>b. PICK b : b = [bal[w] EXCEPT !.reserved = @ + k]
  OBVIOUS
<1>c. bal[w] \in Balances
  BY DEF StockInv
<1>d. /\ b.onHand = bal[w].onHand /\ b.damaged = bal[w].damaged /\ b.quarantine = bal[w].quarantine
      /\ b.reserved = bal[w].reserved + k /\ b.allocated = bal[w].allocated + 0
  BY <1>b, <1>c DEF Balances
<1>5. PICK row : row = [o EXCEPT !.status = "converted", !.released = o.released - k]
  OBVIOUS
<1>e. /\ Book(w, b) /\ UNCHANGED layers /\ o.status \in Open
      /\ reservation' = [reservation EXCEPT ![r].status = "converted", ![r].released = @ - k]
  BY <1>2, <1>3, <1>a, <1>b DEF Convert, KeepRest, Row
<1>f. StockInv' /\ Moves(w, 0, k, 0)
  BY <1>d, <1>e, <1>k, PromiseMoves
<1>x. PICK x \in Nat : x = o.released - k
  BY <1>6, <1>k
<1>y. row = [o EXCEPT !.status = "converted", !.released = x]
  BY <1>5, <1>x
<1>7. /\ row.quantity = o.quantity /\ row.allocated = o.allocated
      /\ row.released = x /\ row.status = "converted" /\ row.warehouse = w
  BY <1>3, <1>y DEF ReservationRows
<1>8. row \in ReservationRows
  BY <1>y DEF ReservationRows, Open
<1>9. reservation' = [reservation EXCEPT ![r] = row]
  BY <1>2, <1>5, <1>e DEF Row, RowsTypeOK
<1>10. /\ reservation' \in [Reservations -> ReservationRows] /\ reservation'[r] = row
       /\ reservation'[r].allocated + reservation'[r].released <= reservation'[r].quantity
       /\ \A s \in Reservations \ {r} : reservation'[s] = reservation[s]
       /\ Commitment(r)' = row.quantity - row.allocated - row.released
  <2>1. row.allocated + row.released <= row.quantity
    BY <1>6, <1>7, <1>x, <1>k
  <2>. QED BY <2>1, <1>8, <1>9, RowWritten
<1>11. Commitment(r)' = Commitment(r) + k
  BY <1>2, <1>6, <1>7, <1>10, <1>x, <1>k, RowFacts
<1>12. RowEffect(r, w, k)
  BY <1>2, <1>3, <1>7, <1>10, <1>11 DEF RowEffect, Row
<1>. QED BY <1>f, <1>k, <1>12

(* Units allocated from a reservation, and given back to it. *)
LEMMA AllocatedEffect ==
    ASSUME RowsTypeOK, NEW r \in Reservations, NEW k \in Int, reservation[r].status = "converted",
           0 <= reservation[r].allocated + k, k <= Commitment(r),
           reservation' = [reservation EXCEPT ![r].allocated = @ + k]
    PROVE  RowEffect(r, reservation[r].warehouse, -k)
<1>2. PICK o \in ReservationRows : o = Row(r)
  BY RowFacts
<1>3. PICK w \in Warehouses : w = o.warehouse
  BY DEF ReservationRows
<1>6. /\ o.quantity \in Nat /\ o.allocated \in Nat /\ o.released \in Nat
      /\ o.allocated + o.released <= o.quantity /\ o.status = "converted"
      /\ 0 <= o.allocated + k /\ k <= o.quantity - o.allocated - o.released
  BY <1>2, RowFacts DEF RowsTypeOK, Row
<1>x. PICK x \in Nat : x = o.allocated + k
  BY <1>6
<1>5. PICK row : row = [o EXCEPT !.allocated = x]
  OBVIOUS
<1>7. /\ row.quantity = o.quantity /\ row.allocated = x
      /\ row.released = o.released /\ row.status = "converted" /\ row.warehouse = w
  BY <1>3, <1>5, <1>6 DEF ReservationRows
<1>8. row \in ReservationRows
  BY <1>5 DEF ReservationRows
<1>9. reservation' = [reservation EXCEPT ![r] = row]
  BY <1>2, <1>5, <1>x DEF Row, RowsTypeOK
<1>10. /\ reservation' \in [Reservations -> ReservationRows] /\ reservation'[r] = row
       /\ reservation'[r].allocated + reservation'[r].released <= reservation'[r].quantity
       /\ \A s \in Reservations \ {r} : reservation'[s] = reservation[s]
       /\ Commitment(r)' = row.quantity - row.allocated - row.released
  <2>1. row.allocated + row.released <= row.quantity
    BY <1>6, <1>7, <1>x
  <2>. QED BY <2>1, <1>8, <1>9, RowWritten
<1>11. Commitment(r)' = Commitment(r) + (-k)
  BY <1>2, <1>6, <1>7, <1>10, <1>x, RowFacts
<1>12. RowEffect(r, w, -k)
  BY <1>2, <1>3, <1>7, <1>10, <1>11 DEF RowEffect, Row
<1>. QED BY <1>2, <1>3, <1>12 DEF Row

(* Rows of reservations stay in their warehouse, and never become empty again. *)
ReservationsKept ==
    /\ reservation' \in [Reservations -> ReservationRows]
    /\ \A r \in Reservations :
          /\ reservation'[r].allocated + reservation'[r].released <= reservation'[r].quantity
          /\ reservation'[r].status = "none" => reservation'[r].quantity = 0
          /\ reservation[r].status # "none" =>
                reservation'[r].status # "none" /\ reservation'[r].warehouse = reservation[r].warehouse

\* Whatever happens to one reservation keeps what other rows rely on.
LEMMA RowKept ==
    ASSUME RowsTypeOK, RefersInv, NEW r \in Reservations, NEW w, NEW k, RowEffect(r, w, k)
    PROVE  ReservationsKept
<1>. SUFFICES ASSUME NEW s \in Reservations
              PROVE  /\ reservation'[s].allocated + reservation'[s].released <= reservation'[s].quantity
                     /\ reservation'[s].status = "none" => reservation'[s].quantity = 0
                     /\ reservation[s].status # "none" =>
                           /\ reservation'[s].status # "none"
                           /\ reservation'[s].warehouse = reservation[s].warehouse
  BY DEF ReservationsKept, RowEffect
<1>1. CASE s = r
  BY <1>1 DEF RowEffect
<1>2. CASE s # r
  BY <1>2 DEF RowEffect, RowsTypeOK, RefersInv
<1>. QED BY <1>1, <1>2

(* Every operation of the reservation service. *)
LEMMA ReservationSteps ==
    ASSUME StockInv, RowsTypeOK, RefersInv, ReservedIsCommitted, ReservationStep
    PROVE  StockInv' /\ ReservationsKept /\ ReservedIsCommitted'
           /\ \E w \in Warehouses, k \in Int : Moves(w, 0, k, 0)
<1>. SUFFICES StockInv' /\ \E r \in Reservations, w \in Warehouses, k \in Int :
                 Moves(w, 0, k, 0) /\ RowEffect(r, w, k)
  <2>1. PICK r \in Reservations, w \in Warehouses, k \in Int : Moves(w, 0, k, 0) /\ RowEffect(r, w, k)
    OBVIOUS
  <2>2. 0 \in Int
    OBVIOUS
  <2>3. ReservedIsCommitted'
    BY <2>1, <2>2, CommittedChange
  <2>. QED BY <2>1, <2>3, RowKept
<1>1. PICK r \in Reservations :
         \/ \E w \in Warehouses, q \in Quantities : Reserve(r, w, q)
         \/ BeginPayment(r)
         \/ \E to \in {"released", "expired"} : Release(r, to)
         \/ ReleaseConvertedCommitment(r)
         \/ MarkLatePaymentReview(r)
         \/ Convert(r)
  BY DEF ReservationStep
<1>2. CASE \E w \in Warehouses, q \in Quantities : Reserve(r, w, q)
  <2>1. PICK w \in Warehouses, q \in Quantities : Reserve(r, w, q)
    BY <1>2
  <2>2. q \in Int
    BY LedgerAssumption DEF Quantities
  <2>. QED BY <2>1, <2>2, ReserveEffect
<1>3. CASE BeginPayment(r)
  <2>1. /\ reservation[r].status # "none" /\ UNCHANGED bal /\ UNCHANGED layers
        /\ reservation' = [reservation EXCEPT ![r].status = "payment_pending"]
    BY <1>3 DEF BeginPayment, KeepRest
  <2>2. StockInv' /\ \E w \in Warehouses : Moves(w, 0, 0, 0) /\ RowEffect(r, w, 0)
    BY <2>1, StatusEffect
  <2>. QED BY <2>2
<1>4. CASE \E to \in {"released", "expired"} : Release(r, to)
  <2>1. PICK to \in {"released", "expired"} : GiveUp(r, to)
    BY <1>4 DEF Release
  <2>2. to \in {"released", "expired", "converted"}
    OBVIOUS
  <2>3. StockInv' /\ \E w \in Warehouses, k \in Int : Moves(w, 0, k, 0) /\ RowEffect(r, w, k)
    BY <2>1, <2>2, GiveUpEffect
  <2>. QED BY <2>3
<1>5. CASE ReleaseConvertedCommitment(r)
  <2>1. GiveUp(r, "converted")
    BY <1>5 DEF ReleaseConvertedCommitment
  <2>2. StockInv' /\ \E w \in Warehouses, k \in Int : Moves(w, 0, k, 0) /\ RowEffect(r, w, k)
    BY <2>1, GiveUpEffect
  <2>. QED BY <2>2
<1>6. CASE MarkLatePaymentReview(r)
  <2>1. /\ reservation[r].status # "none" /\ UNCHANGED bal /\ UNCHANGED layers
        /\ reservation' = [reservation EXCEPT ![r].status = "late_payment_review"]
    BY <1>6 DEF MarkLatePaymentReview, KeepRest
  <2>2. StockInv' /\ \E w \in Warehouses : Moves(w, 0, 0, 0) /\ RowEffect(r, w, 0)
    BY <2>1, StatusEffect
  <2>. QED BY <2>2
<1>7. CASE Convert(r)
  BY <1>7, ConvertEffect
<1>. QED BY <1>1, <1>2, <1>3, <1>4, <1>5, <1>6, <1>7
-----------------------------------------------------------------------------
(* Allocations. *)

Closed(a) == alloc[a].status \in {"released", "shipped"}
HeldBy(a) == IF Holding(a) THEN alloc[a].quantity - Left(a) ELSE 0
Promised(a) == IF Live(a) THEN alloc[a].quantity ELSE 0
Twice == \E a \in Allocs : ClosedTwice(a)
HeldSums ==
    /\ \A w \in Scope : bal[w].allocated = SumFunctionOnSet(HeldAt(w), Items)
    /\ \A i \in Items : consumed[i] = SumFunctionOnSet(LeftFor(i), Scope)
AllocRowsOK ==
    /\ alloc \in [Allocs -> AllocRows]
    /\ progress \in [Allocs -> ProgressRows]
    /\ \A a \in Allocs : alloc[a].status = "none" => progress[a].picked = 0 /\ progress[a].shipped = 0
    /\ \A a \in Allocs : Holding(a) =>
          /\ progress[a].shipped <= progress[a].picked /\ progress[a].picked <= alloc[a].quantity
          /\ progress[a].shipped < alloc[a].quantity

(* What one allocation holds, and what has left for it. *)
LEMMA AllocFacts ==
    ASSUME AllocRowsOK, NEW a \in Allocs
    PROVE  /\ HeldBy(a) \in Nat /\ Left(a) \in Nat /\ Promised(a) \in Nat /\ Left(a) <= Promised(a)
<1>1. /\ alloc[a].quantity \in Nat /\ progress[a].shipped \in Nat
      /\ Holding(a) => progress[a].shipped < alloc[a].quantity
      /\ alloc[a].status \in {"none", "allocated", "picked", "shipped", "released"}
  BY DEF AllocRowsOK, AllocRows, ProgressRows
<1>2. CASE Holding(a)
  BY <1>1, <1>2 DEF HeldBy, Left, Promised, Live, Holding
<1>3. CASE ~Holding(a)
  BY <1>1, <1>3 DEF HeldBy, Left, Promised, Live, Holding
<1>. QED BY <1>2, <1>3

(* The same after a step. *)
LEMMA AllocFactsNext ==
    ASSUME AllocRowsOK', NEW a \in Allocs
    PROVE  /\ HeldBy(a)' \in Nat /\ Left(a)' \in Nat /\ Promised(a)' \in Nat /\ Left(a)' <= Promised(a)'
<1>1. /\ alloc'[a].quantity \in Nat /\ progress'[a].shipped \in Nat
      /\ Holding(a)' => progress'[a].shipped < alloc'[a].quantity
      /\ alloc'[a].status \in {"none", "allocated", "picked", "shipped", "released"}
  BY DEF AllocRowsOK, AllocRows, ProgressRows
<1>2. CASE Holding(a)'
  BY <1>1, <1>2 DEF HeldBy, Left, Promised, Live, Holding
<1>3. CASE ~Holding(a)'
  BY <1>1, <1>3 DEF HeldBy, Left, Promised, Live, Holding
<1>. QED BY <1>2, <1>3

(* A step on one allocation: z more units are held by it, and c more have left for it. *)
AllocEffect(a, z, c) ==
    /\ AllocRowsOK'
    /\ \A b \in Allocs \ {a} : alloc'[b] = alloc[b] /\ progress'[b] = progress[b]
    /\ ~Closed(a)
    /\ \A i \in Items : consumed'[i] = consumed[i] + (IF i = a[1] THEN c ELSE 0)
    /\ ClosedTwice(a)' \/ (HeldBy(a)' = HeldBy(a) + z /\ Left(a)' = Left(a) + c)

(* What the warehouses have allocated and what the items consumed follow the allocations. *)
LEMMA HeldChange ==
    ASSUME AllocRowsOK, HeldSums, StockInv, RowsTypeOK,
           NEW i \in Items, NEW w \in Scope, NEW x, NEW y, NEW z \in Int, NEW c \in Int,
           Moves(w, x, y, z), AllocEffect(<<i, w>>, z, c), ~ClosedTwice(<<i, w>>)'
    PROVE  HeldSums'
<1>0. <<i, w>> \in Allocs /\ Scope \subseteq Warehouses /\ IsFiniteSet(Items) /\ IsFiniteSet(Scope)
  BY LedgerAssumption, FiniteAssumption, FS_Subset DEF Allocs
<1>1. /\ \A b \in Allocs \ {<<i, w>>} : HeldBy(b)' = HeldBy(b) /\ Left(b)' = Left(b)
      /\ HeldBy(<<i, w>>)' = HeldBy(<<i, w>>) + z /\ Left(<<i, w>>)' = Left(<<i, w>>) + c
      /\ \A j \in Items : consumed'[j] = consumed[j] + (IF j = i THEN c ELSE 0)
  <2>1. AllocEffect(<<i, w>>, z, c) /\ ~ClosedTwice(<<i, w>>)'
    OBVIOUS
  <2>2. \A b \in Allocs \ {<<i, w>>} : HeldBy(b)' = HeldBy(b) /\ Left(b)' = Left(b)
    BY <2>1 DEF AllocEffect, HeldBy, Left, Holding
  <2>. QED BY <2>1, <2>2 DEF AllocEffect
<1>2. AllocRowsOK'
  BY DEF AllocEffect
<1>3. /\ \A b \in Allocs : HeldBy(b) \in Nat /\ Left(b) \in Nat
      /\ \A b \in Allocs : HeldBy(b)' \in Nat /\ Left(b)' \in Nat
  BY <1>2, AllocFacts, AllocFactsNext
<1>4. ASSUME NEW v \in Scope PROVE bal'[v].allocated = SumFunctionOnSet(HeldAt(v)', Items)
  <2>1. PICK f : f = HeldAt(v)
    OBVIOUS
  <2>2. PICK g : g = HeldAt(v)'
    OBVIOUS
  <2>3. \A j \in Items : <<j, v>> \in Allocs /\ f[j] = HeldBy(<<j, v>>) /\ g[j] = HeldBy(<<j, v>>)'
    BY <2>1, <2>2 DEF HeldAt, HeldBy, Allocs
  <2>4. /\ \A j \in Items \ {i} : f[j] = g[j]
        /\ \A j \in Items : f[j] \in Nat
        /\ \A j \in Items : g[j] \in Nat
        /\ g[i] = f[i] + (IF v = w THEN z ELSE 0)
    <3>1. \A j \in Items \ {i} : f[j] = g[j]
      BY <1>1, <2>3
    <3>2. \A j \in Items : f[j] \in Nat /\ g[j] \in Nat
      BY <1>3, <2>3
    <3>3. CASE v = w
      BY <1>1, <2>3, <3>1, <3>2, <3>3
    <3>4. CASE v # w
      <4>1. <<i, v>> \in Allocs \ {<<i, w>>}
        BY <2>3, <3>4
      <4>2. g[i] = f[i]
        BY <1>1, <2>3, <4>1
      <4>. QED BY <3>1, <3>2, <3>4, <4>2
    <3>. QED BY <3>3, <3>4
  <2>5. /\ SumFunctionOnSet(f, Items) \in Nat /\ SumFunctionOnSet(g, Items) \in Nat
        /\ SumFunctionOnSet(g, Items) + f[i] = SumFunctionOnSet(f, Items) + g[i]
    <3>1. /\ IsFiniteSet(Items) /\ i \in Items
          /\ \A j \in Items : f[j] \in Nat
          /\ \A j \in Items : g[j] \in Nat
          /\ \A j \in Items \ {i} : f[j] = g[j]
      BY <1>0, <2>4
    <3>. QED BY <3>1, SumMoves
  <2>6. /\ bal[v].allocated = SumFunctionOnSet(f, Items)
        /\ bal'[v].allocated = bal[v].allocated + (IF v = w THEN z ELSE 0)
    BY <1>0, <2>1 DEF HeldSums, Moves
  <2>7. bal'[v].allocated = SumFunctionOnSet(g, Items)
    BY <2>4, <2>5, <2>6
  <2>. QED BY <2>2, <2>7
<1>5. ASSUME NEW j \in Items PROVE consumed'[j] = SumFunctionOnSet(LeftFor(j)', Scope)
  <2>1. PICK f : f = LeftFor(j)
    OBVIOUS
  <2>2. PICK g : g = LeftFor(j)'
    OBVIOUS
  <2>3. \A v \in Scope : <<j, v>> \in Allocs /\ f[v] = Left(<<j, v>>) /\ g[v] = Left(<<j, v>>)'
    BY <2>1, <2>2 DEF LeftFor, Allocs
  <2>4. /\ \A v \in Scope \ {w} : f[v] = g[v]
        /\ \A v \in Scope : f[v] \in Nat
        /\ \A v \in Scope : g[v] \in Nat
        /\ g[w] = f[w] + (IF j = i THEN c ELSE 0)
    <3>1. \A v \in Scope \ {w} : f[v] = g[v]
      BY <1>1, <2>3
    <3>2. \A v \in Scope : f[v] \in Nat /\ g[v] \in Nat
      BY <1>3, <2>3
    <3>3. CASE j = i
      BY <1>1, <2>3, <3>1, <3>2, <3>3
    <3>4. CASE j # i
      <4>1. <<j, w>> \in Allocs \ {<<i, w>>}
        BY <2>3, <3>4
      <4>2. g[w] = f[w]
        BY <1>1, <2>3, <4>1
      <4>. QED BY <3>1, <3>2, <3>4, <4>2
    <3>. QED BY <3>3, <3>4
  <2>5. /\ SumFunctionOnSet(f, Scope) \in Nat /\ SumFunctionOnSet(g, Scope) \in Nat
        /\ SumFunctionOnSet(g, Scope) + f[w] = SumFunctionOnSet(f, Scope) + g[w]
    <3>1. /\ IsFiniteSet(Scope) /\ w \in Scope
          /\ \A v \in Scope : f[v] \in Nat
          /\ \A v \in Scope : g[v] \in Nat
          /\ \A v \in Scope \ {w} : f[v] = g[v]
      BY <1>0, <2>4
    <3>. QED BY <3>1, SumMoves
  <2>6. /\ consumed[j] = SumFunctionOnSet(f, Scope)
        /\ consumed'[j] = consumed[j] + (IF j = i THEN c ELSE 0)
    BY <1>1, <2>1 DEF HeldSums
  <2>7. consumed'[j] = SumFunctionOnSet(g, Scope)
    BY <2>4, <2>5, <2>6
  <2>. QED BY <2>2, <2>7
<1>. QED BY <1>4, <1>5 DEF HeldSums

(* An allocation that was closed twice stays so. *)
LEMMA TwiceStays ==
    ASSUME Twice, NEW a \in Allocs, NEW z, NEW c, AllocEffect(a, z, c)
    PROVE  Twice'
<1>1. PICK b \in Allocs : ClosedTwice(b)
  BY DEF Twice
<1>2. b # a
  BY <1>1 DEF AllocEffect, ClosedTwice, Closed
<1>3. ClosedTwice(b)'
  BY <1>1, <1>2 DEF AllocEffect, ClosedTwice
<1>. QED BY <1>3 DEF Twice

(* An order item has no more allocated after a step that allocates no more of it. *)
Caps == \A i \in Items : SumFunctionOnSet(AllocatedFor(i), Scope) <= Ordered

\* Where no allocation promises more, no item's order is exceeded.
LEMMA CapsKept ==
    ASSUME AllocRowsOK, AllocRowsOK', Caps, \A b \in Allocs : Promised(b)' <= Promised(b)
    PROVE  Caps'
<1>0. IsFiniteSet(Scope) /\ Ordered \in Nat
  BY LedgerAssumption, FiniteAssumption, FS_Subset
<1>. SUFFICES ASSUME NEW i \in Items PROVE SumFunctionOnSet(AllocatedFor(i)', Scope) <= Ordered
  BY DEF Caps
<1>1. PICK f : f = AllocatedFor(i)
  OBVIOUS
<1>2. PICK g : g = AllocatedFor(i)'
  OBVIOUS
<1>3. \A v \in Scope : <<i, v>> \in Allocs /\ f[v] = Promised(<<i, v>>) /\ g[v] = Promised(<<i, v>>)'
  BY <1>1, <1>2 DEF AllocatedFor, Promised, Allocs
<1>4. \A v \in Scope : f[v] \in Nat /\ g[v] \in Nat /\ g[v] <= f[v]
  BY <1>3, AllocFacts, AllocFactsNext
<1>5. SumFunctionOnSet(g, Scope) <= SumFunctionOnSet(f, Scope)
  BY <1>0, <1>4, SumMonotone
<1>6. SumFunctionOnSet(g, Scope) \in Nat /\ SumFunctionOnSet(f, Scope) \in Nat
  BY <1>0, <1>4, SumFacts
<1>7. SumFunctionOnSet(f, Scope) <= Ordered
  BY <1>1 DEF Caps
<1>8. SumFunctionOnSet(g, Scope) <= Ordered
  BY <1>0, <1>5, <1>6, <1>7
<1>. QED BY <1>2, <1>8

(* The lines of the orders: what was held and what has left add up, within the order. *)
LEMMA HeldWithinOrder ==
    AllocRowsOK /\ Caps /\ HeldSums => AllocatedIsHeld
<1>. SUFFICES ASSUME AllocRowsOK, Caps, HeldSums PROVE AllocatedIsHeld
  OBVIOUS
<1>0. IsFiniteSet(Scope) /\ Ordered \in Nat
  BY LedgerAssumption, FiniteAssumption, FS_Subset
<1>1. ASSUME NEW i \in Items PROVE consumed[i] <= Ordered
  <2>1. PICK f : f = AllocatedFor(i)
    OBVIOUS
  <2>2. PICK g : g = LeftFor(i)
    OBVIOUS
  <2>3. \A v \in Scope : <<i, v>> \in Allocs /\ f[v] = Promised(<<i, v>>) /\ g[v] = Left(<<i, v>>)
    BY <2>1, <2>2 DEF AllocatedFor, Promised, Allocs, LeftFor
  <2>4. \A v \in Scope : f[v] \in Nat /\ g[v] \in Nat /\ g[v] <= f[v]
    BY <2>3, AllocFacts
  <2>5. SumFunctionOnSet(g, Scope) <= SumFunctionOnSet(f, Scope)
    BY <1>0, <2>4, SumMonotone
  <2>6. SumFunctionOnSet(g, Scope) \in Nat /\ SumFunctionOnSet(f, Scope) \in Nat
    BY <1>0, <2>4, SumFacts
  <2>7. SumFunctionOnSet(f, Scope) <= Ordered /\ consumed[i] = SumFunctionOnSet(g, Scope)
    BY <2>1, <2>2 DEF Caps, HeldSums
  <2>. QED BY <1>0, <2>5, <2>6, <2>7
<1>. QED BY <1>1 DEF AllocatedIsHeld, HeldSums

Statuses == {"none", "allocated", "picked", "shipped", "released"}
(* Only the status of one open allocation, and its progress, change. *)
Turned(a, to) ==
    /\ Holding(a) /\ alloc' = [alloc EXCEPT ![a].status = to]
    /\ progress' \in [Allocs -> ProgressRows]
    /\ \A b \in Allocs \ {a} : progress'[b] = progress[b]
(* What such a step keeps: the rows, their origin, and what the orders promised. *)
Turns(a) ==
    /\ AllocRowsOK' /\ ~Closed(a)
    /\ \A b \in Allocs \ {a} : alloc'[b] = alloc[b] /\ progress'[b] = progress[b]
    /\ \A b \in Allocs : alloc'[b].from = alloc[b].from
    /\ \A b \in Allocs : Promised(b)' <= Promised(b)

\* An open allocation turned to another status, as rows.
LEMMA TurnedRows ==
    ASSUME AllocRowsOK, NEW a \in Allocs, NEW to \in Statuses, Turned(a, to)
    PROVE  /\ alloc' \in [Allocs -> AllocRows] /\ alloc'[a].status = to
           /\ alloc'[a].quantity = alloc[a].quantity /\ alloc'[a].from = alloc[a].from
           /\ \A b \in Allocs \ {a} : alloc'[b] = alloc[b]
           /\ alloc[a].quantity \in Nat /\ progress[a].shipped \in Nat
           /\ progress'[a].shipped \in Nat /\ progress[a].shipped < alloc[a].quantity
<1>1. alloc[a] \in AllocRows /\ alloc' = [alloc EXCEPT ![a].status = to]
  BY DEF AllocRowsOK, Turned
<1>2. PICK o \in AllocRows : o = alloc[a]
  BY <1>1
<1>3. PICK row : row = [o EXCEPT !.status = to]
  OBVIOUS
<1>4. row \in AllocRows /\ row.status = to /\ row.quantity = o.quantity /\ row.from = o.from
  BY <1>3 DEF AllocRows, Statuses
<1>5. alloc' = [alloc EXCEPT ![a] = row]
  BY <1>1, <1>2, <1>3 DEF AllocRowsOK
<1>6. alloc' \in [Allocs -> AllocRows] /\ alloc'[a] = row /\ \A b \in Allocs \ {a} : alloc'[b] = alloc[b]
  BY <1>4, <1>5 DEF AllocRowsOK
<1>7. alloc[a].quantity \in Nat
  BY <1>1 DEF AllocRows
<1>8. progress[a].shipped \in Nat /\ progress'[a].shipped \in Nat
  BY DEF AllocRowsOK, ProgressRows, Turned
<1>9. progress[a].shipped < alloc[a].quantity
  BY DEF AllocRowsOK, Turned
<1>. QED BY <1>2, <1>4, <1>6, <1>7, <1>8, <1>9

(* The allocation stays open, and n more of its units have been shipped. *)
LEMMA StaysOpen ==
    ASSUME AllocRowsOK, NEW a \in Allocs, NEW to \in {"allocated", "picked"}, NEW n \in Nat,
           Turned(a, to), progress'[a].shipped = progress[a].shipped + n,
           progress'[a].shipped <= progress'[a].picked, progress'[a].picked <= alloc[a].quantity,
           progress'[a].shipped < alloc[a].quantity
    PROVE  Turns(a) /\ HeldBy(a)' = HeldBy(a) + (-n) /\ Left(a)' = Left(a) + n
<1>0. to \in Statuses /\ to # "none" /\ to # "shipped" /\ to # "released"
  BY DEF Statuses
<1>1. /\ alloc' \in [Allocs -> AllocRows] /\ alloc'[a].status = to
      /\ alloc'[a].quantity = alloc[a].quantity /\ alloc'[a].from = alloc[a].from
      /\ \A b \in Allocs \ {a} : alloc'[b] = alloc[b]
      /\ alloc[a].quantity \in Nat /\ progress[a].shipped \in Nat
      /\ progress'[a].shipped \in Nat /\ progress[a].shipped < alloc[a].quantity
  BY <1>0, TurnedRows
<1>2. /\ progress' \in [Allocs -> ProgressRows] /\ \A b \in Allocs \ {a} : progress'[b] = progress[b]
      /\ alloc[a].status \in {"allocated", "picked"}
  BY DEF Turned, Holding
<1>3. \A b \in Allocs : alloc'[b].status = "none" => progress'[b].picked = 0 /\ progress'[b].shipped = 0
  BY <1>0, <1>1, <1>2 DEF AllocRowsOK
<1>4. \A b \in Allocs : Holding(b)' =>
         /\ progress'[b].shipped <= progress'[b].picked /\ progress'[b].picked <= alloc'[b].quantity
         /\ progress'[b].shipped < alloc'[b].quantity
  BY <1>1, <1>2 DEF AllocRowsOK, Holding
<1>5. AllocRowsOK'
  BY <1>1, <1>2, <1>3, <1>4 DEF AllocRowsOK
<1>6. \A b \in Allocs : Promised(b)' <= Promised(b)
  <2>1. Promised(a)' = Promised(a) /\ \A b \in Allocs \ {a} : Promised(b)' = Promised(b)
    BY <1>0, <1>1, <1>2 DEF Promised, Live
  <2>2. \A b \in Allocs : Promised(b) \in Nat /\ Promised(b)' = Promised(b)
    BY <2>1, AllocFacts
  <2>. QED BY <2>2
<1>7. HeldBy(a)' = HeldBy(a) + (-n) /\ Left(a)' = Left(a) + n
  BY <1>0, <1>1, <1>2 DEF HeldBy, Left, Holding
<1>8. \A b \in Allocs : alloc'[b].from = alloc[b].from
  BY <1>1
<1>. QED BY <1>1, <1>2, <1>5, <1>6, <1>7, <1>8 DEF Turns, Closed

(* The allocation is closed. *)
LEMMA Closes ==
    ASSUME AllocRowsOK, NEW a \in Allocs, NEW to \in {"shipped", "released"}, Turned(a, to)
    PROVE  /\ Turns(a) /\ HeldBy(a)' = 0 /\ HeldBy(a) = alloc[a].quantity - progress[a].shipped
           /\ Left(a) = progress[a].shipped
           /\ Left(a)' = (IF to = "shipped" THEN alloc[a].quantity ELSE 0)
           /\ (progress'[a].shipped # 0 /\ progress'[a].shipped < alloc[a].quantity) => ClosedTwice(a)'
<1>0. to \in Statuses /\ to # "none" /\ to # "allocated" /\ to # "picked"
  BY DEF Statuses
<1>1. /\ alloc' \in [Allocs -> AllocRows] /\ alloc'[a].status = to
      /\ alloc'[a].quantity = alloc[a].quantity /\ alloc'[a].from = alloc[a].from
      /\ \A b \in Allocs \ {a} : alloc'[b] = alloc[b]
      /\ alloc[a].quantity \in Nat /\ progress[a].shipped \in Nat
      /\ progress'[a].shipped \in Nat /\ progress[a].shipped < alloc[a].quantity
  BY <1>0, TurnedRows
<1>2. /\ progress' \in [Allocs -> ProgressRows] /\ \A b \in Allocs \ {a} : progress'[b] = progress[b]
      /\ alloc[a].status \in {"allocated", "picked"}
  BY DEF Turned, Holding
<1>3. \A b \in Allocs : alloc'[b].status = "none" => progress'[b].picked = 0 /\ progress'[b].shipped = 0
  BY <1>0, <1>1, <1>2 DEF AllocRowsOK
<1>4. \A b \in Allocs : Holding(b)' =>
         /\ progress'[b].shipped <= progress'[b].picked /\ progress'[b].picked <= alloc'[b].quantity
         /\ progress'[b].shipped < alloc'[b].quantity
  BY <1>0, <1>1, <1>2 DEF AllocRowsOK, Holding
<1>5. AllocRowsOK'
  BY <1>1, <1>2, <1>3, <1>4 DEF AllocRowsOK
<1>6. \A b \in Allocs : Promised(b)' <= Promised(b)
  <2>1. Promised(a)' <= Promised(a) /\ \A b \in Allocs \ {a} : Promised(b)' = Promised(b)
    BY <1>0, <1>1, <1>2 DEF Promised, Live
  <2>2. \A b \in Allocs : Promised(b) \in Nat
    BY AllocFacts
  <2>. QED BY <2>1, <2>2
<1>7. /\ HeldBy(a)' = 0 /\ HeldBy(a) = alloc[a].quantity - progress[a].shipped
      /\ Left(a) = progress[a].shipped
      /\ Left(a)' = (IF to = "shipped" THEN alloc[a].quantity ELSE 0)
  BY <1>0, <1>1, <1>2 DEF HeldBy, Left, Holding
<1>8. \A b \in Allocs : alloc'[b].from = alloc[b].from
  BY <1>1
<1>9. (progress'[a].shipped # 0 /\ progress'[a].shipped < alloc[a].quantity) => ClosedTwice(a)'
  BY <1>0, <1>1 DEF ClosedTwice
<1>. QED BY <1>1, <1>2, <1>5, <1>6, <1>7, <1>8, <1>9 DEF Turns, Closed

(* The invariant in parts. *)
ShipmentsOK ==
    /\ shipment \in [Shipments -> ShipmentRows]
    /\ \A s \in Shipments : shipment[s].status # "none" => shipment[s].of \in Allocs
FromOK ==
    \A a \in Allocs : alloc[a].from \in Reservations =>
       reservation[alloc[a].from].status # "none" /\ reservation[alloc[a].from].warehouse = a[2]
TransfersOK == transfer \in [Transfers -> TransferRows]

\* The parts of the invariant that the steps are proved from.
LEMMA InvParts ==
    ASSUME Inv
    PROVE  /\ StockInv /\ RowsTypeOK /\ RefersInv /\ ReservedIsCommitted /\ AllocatedIsHeld
           /\ AllocRowsOK /\ Caps /\ ShipmentsOK /\ FromOK /\ TransfersOK
           /\ Twice \/ HeldSums
           /\ consumed \in [Items -> Nat]
BY DEF Inv, RowsTypeOK, RefersInv, ProgressInv, AllocatedIsHeld, Twice, HeldSums,
       AllocRowsOK, Caps, ShipmentsOK, FromOK, TransfersOK

\* The parts that a step has to show.
LEMMA InvAgain ==
    ASSUME StockInv', ReservationsKept, ReservedIsCommitted', AllocatedIsHeld', AllocRowsOK', Caps',
           ShipmentsOK', FromOK', TransfersOK', consumed' \in [Items -> Nat]
    PROVE  Inv'
<1>1. RowsTypeOK'
  BY DEF RowsTypeOK, ReservationsKept, AllocRowsOK, TransfersOK, ShipmentsOK
<1>2. RefersInv'
  BY DEF RefersInv, ReservationsKept, ShipmentsOK, FromOK
<1>3. ProgressInv'
  BY DEF ProgressInv, AllocRowsOK, Caps
<1>. QED BY <1>1, <1>2, <1>3 DEF Inv

(* Allocations keep referring to the reservations they came from. *)
LEMMA FromKept ==
    ASSUME FromOK, ReservationsKept, \A a \in Allocs : alloc'[a].from = alloc[a].from
    PROVE  FromOK'
BY DEF FromOK, ReservationsKept

(* A step on one allocation keeps what is held and what left within the order. *)
LEMMA AllocatedStays ==
    ASSUME Inv, NEW i \in Items, NEW w \in Scope, NEW x, NEW y, NEW z \in Int, NEW c \in Int,
           Moves(w, x, y, z), AllocEffect(<<i, w>>, z, c), Caps'
    PROVE  AllocatedIsHeld'
<1>0. <<i, w>> \in Allocs
  BY DEF Allocs
<1>1. CASE Twice
  <2>1. Twice'
    BY <1>0, <1>1, TwiceStays
  <2>. QED BY <2>1 DEF AllocatedIsHeld, Twice
<1>2. CASE ClosedTwice(<<i, w>>)'
  <2>1. Twice'
    BY <1>0, <1>2 DEF Twice
  <2>. QED BY <2>1 DEF AllocatedIsHeld, Twice
<1>3. CASE HeldSums /\ ~ClosedTwice(<<i, w>>)'
  <2>1. HeldSums'
    BY <1>3, InvParts, HeldChange
  <2>2. AllocRowsOK'
    BY DEF AllocEffect
  <2>3. (AllocRowsOK /\ Caps /\ HeldSums => AllocatedIsHeld)'
    BY HeldWithinOrder, PTL
  <2>. QED BY <2>1, <2>2, <2>3
<1>. QED BY <1>1, <1>2, <1>3, InvParts

(* A step on an allocation that was made before. *)
LEMMA TurnInv ==
    ASSUME Inv, StockInv', NEW i \in Items, NEW w \in Scope, NEW x, NEW y, NEW z \in Int, NEW c \in Int,
           Moves(w, x, y, z), Turns(<<i, w>>),
           \A j \in Items : consumed'[j] = consumed[j] + (IF j = i THEN c ELSE 0),
           consumed' \in [Items -> Nat],
           ClosedTwice(<<i, w>>)' \/ ( /\ HeldBy(<<i, w>>)' = HeldBy(<<i, w>>) + z
                                       /\ Left(<<i, w>>)' = Left(<<i, w>>) + c ),
           ReservationsKept, ReservedIsCommitted', ShipmentsOK', UNCHANGED transfer
    PROVE  Inv'
<1>1. AllocEffect(<<i, w>>, z, c)
  BY DEF AllocEffect, Turns
<1>2. AllocRowsOK' /\ Caps'
  BY InvParts, CapsKept DEF Turns
<1>3. AllocatedIsHeld'
  BY <1>1, <1>2, AllocatedStays
<1>4. FromOK'
  BY InvParts, FromKept DEF Turns
<1>5. TransfersOK'
  BY InvParts DEF TransfersOK
<1>. QED BY <1>2, <1>3, <1>4, <1>5, InvAgain

(* Steps that leave reservations alone. *)
LEMMA ReservedSame ==
    ASSUME Inv, UNCHANGED reservation,
           \A v \in Warehouses : bal'[v].reserved = bal[v].reserved
    PROVE  ReservationsKept /\ ReservedIsCommitted'
<1>1. ReservationsKept
  BY InvParts DEF ReservationsKept, RowsTypeOK, RefersInv
<1>. SUFFICES ASSUME NEW v \in Warehouses
             PROVE  bal'[v].reserved = SumFunctionOnSet(CommittedAt(v)', Reservations)
  BY <1>1 DEF ReservedIsCommitted
<1>2. CommittedAt(v)' = CommittedAt(v)
  BY DEF CommittedAt, Commitment
<1>3. bal[v].reserved = SumFunctionOnSet(CommittedAt(v), Reservations)
  BY InvParts DEF ReservedIsCommitted
<1>. QED BY <1>2, <1>3

(* Steps that leave allocations, what they hold and what left for them alone. *)
LEMMA AllocatedSame ==
    ASSUME Inv, StockInv', UNCHANGED <<alloc, consumed, progress>>,
           \A v \in Warehouses : bal'[v].allocated = bal[v].allocated,
           ReservationsKept, ReservedIsCommitted', ShipmentsOK', TransfersOK'
    PROVE  Inv'
<1>1. AllocRowsOK' /\ Caps' /\ consumed' \in [Items -> Nat]
  BY InvParts DEF AllocRowsOK, Caps, AllocatedFor, Live, Holding
<1>2. FromOK'
  BY InvParts, FromKept
<1>3. AllocatedIsHeld'
  <2>1. CASE Twice
    BY <2>1 DEF Twice, ClosedTwice, AllocatedIsHeld
  <2>2. CASE HeldSums
    <3>1. \A v \in Scope : HeldAt(v)' = HeldAt(v)
      BY DEF HeldAt, Holding, Left
    <3>2. \A j \in Items : LeftFor(j)' = LeftFor(j)
      BY DEF LeftFor, Left
    <3>3. HeldSums'
      BY <2>2, <3>1, <3>2, LedgerAssumption DEF HeldSums
    <3>4. (AllocRowsOK /\ Caps /\ HeldSums => AllocatedIsHeld)'
      BY HeldWithinOrder, PTL
    <3>. QED BY <1>1, <3>3, <3>4
  <2>. QED BY <2>1, <2>2, InvParts
<1>. QED BY <1>1, <1>2, <1>3, InvAgain
-----------------------------------------------------------------------------
(* The steps keep the invariant. *)

\* Steps that leave the shipments alone keep their types.
LEMMA ShipmentsSame ==
    ASSUME Inv, UNCHANGED shipment
    PROVE  ShipmentsOK'
BY InvParts DEF ShipmentsOK

\* Columns that a step does not move are the same everywhere.
LEMMA MovedSame ==
    ASSUME Inv, NEW w \in Warehouses, NEW x, NEW y, NEW z, Moves(w, x, y, z)
    PROVE  /\ y = 0 => \A v \in Warehouses : bal'[v].reserved = bal[v].reserved
           /\ z = 0 => \A v \in Warehouses : bal'[v].allocated = bal[v].allocated
           /\ x = 0 => \A v \in Warehouses : bal'[v].onHand = bal[v].onHand
<1>1. \A v \in Warehouses : bal[v].onHand \in Nat /\ bal[v].reserved \in Nat /\ bal[v].allocated \in Nat
  BY InvParts DEF StockInv, Balances
<1>. QED BY <1>1 DEF Moves

\* Counts, receipts and disposals keep the invariant: they take only what is free.
LEMMA StockSteps ==
    ASSUME Inv, StockStep, UNCHANGED fulfillmentVars
    PROVE  Inv'
<1>1. PICK w \in Warehouses, q \in Quantities :
       \/ \E bucket \in {"damaged", "quarantine"} : SetAside(w, bucket, q) \/ RemoveAside(w, bucket, q)
       \/ ReleaseQuarantine(w, q)
       \/ RemoveFree(w, q)
       \/ ReceiveGoods(w, q, 0)
       \/ ReceiveGoods(w, 0, q)
  BY DEF StockStep
<1>2. StockInv' /\ \E x \in Int : Moves(w, x, 0, 0)
  BY <1>1, InvParts, StockStepMoves
<1>3. UNCHANGED <<reservation, alloc, transfer, consumed>>
  BY <1>1 DEF SetAside, RemoveAside, ReleaseQuarantine, RemoveFree, ReceiveGoods, KeepPromises
<1>4. /\ \A v \in Warehouses : bal'[v].reserved = bal[v].reserved
      /\ \A v \in Warehouses : bal'[v].allocated = bal[v].allocated
  BY <1>2, MovedSame
<1>5. ReservationsKept /\ ReservedIsCommitted' /\ ShipmentsOK' /\ TransfersOK'
  BY <1>3, <1>4, ReservedSame, ShipmentsSame, InvParts DEF TransfersOK
<1>. QED BY <1>2, <1>3, <1>4, <1>5, AllocatedSame

\* The steps of the reservations keep the invariant.
LEMMA ReservationInv ==
    ASSUME Inv, ReservationStep, UNCHANGED fulfillmentVars
    PROVE  Inv'
<1>1. StockInv' /\ ReservationsKept /\ ReservedIsCommitted'
      /\ \E w \in Warehouses, k \in Int : Moves(w, 0, k, 0)
  BY InvParts, ReservationSteps
<1>2. UNCHANGED <<alloc, transfer, consumed>>
  BY DEF ReservationStep, Reserve, BeginPayment, Release, ReleaseConvertedCommitment, GiveUp,
         MarkLatePaymentReview, Convert, KeepRest
<1>3. \A v \in Warehouses : bal'[v].allocated = bal[v].allocated
  BY <1>1, MovedSame
<1>4. ShipmentsOK' /\ TransfersOK'
  BY <1>2, ShipmentsSame, InvParts DEF TransfersOK
<1>. QED BY <1>1, <1>2, <1>3, <1>4, AllocatedSame

\* A transfer that moves on keeps its type.
LEMMA TransferRowsKept ==
    ASSUME TransfersOK, NEW t \in Transfers, NEW from, NEW to \in {"approved", "shipped", "received", "cancelled"},
           SetTransfer(t, from, to)
    PROVE  TransfersOK'
<1>1. PICK row : row = [transfer[t] EXCEPT !.status = to]
  OBVIOUS
<1>2. row \in TransferRows
  BY <1>1 DEF TransfersOK, TransferRows
<1>3. transfer' = [transfer EXCEPT ![t] = row]
  BY <1>1 DEF SetTransfer, TransfersOK
<1>. QED BY <1>2, <1>3 DEF TransfersOK

\* The steps of the transfers keep the invariant: they move only what is free.
LEMMA TransferInv ==
    ASSUME Inv, TransferStep, UNCHANGED fulfillmentVars
    PROVE  Inv'
<1>1. PICK t \in Transfers :
       \/ \E from, to \in Warehouses, q \in 1..MaxTransfer : CreateTransfer(t, from, to, q)
       \/ ApproveTransfer(t)
       \/ CancelTransfer(t)
       \/ ShipTransfer(t)
       \/ ReceiveTransfer(t)
  BY DEF TransferStep
<1>2. UNCHANGED <<reservation, alloc, consumed>> /\ ShipmentsOK'
  BY <1>1, ShipmentsSame
     DEF CreateTransfer, ApproveTransfer, CancelTransfer, ShipTransfer, ReceiveTransfer, SetTransfer
<1>3. SUFFICES /\ StockInv' /\ TransfersOK'
               /\ \A v \in Warehouses : bal'[v].reserved = bal[v].reserved
               /\ \A v \in Warehouses : bal'[v].allocated = bal[v].allocated
  BY <1>2, ReservedSame, AllocatedSame
<1>4. CASE \E from, to \in Warehouses, q \in 1..MaxTransfer : CreateTransfer(t, from, to, q)
  <2>1. PICK from \in Warehouses, to \in Warehouses, q \in 1..MaxTransfer : CreateTransfer(t, from, to, q)
    BY <1>4
  <2>2. TransfersOK'
    BY <2>1, InvParts, LedgerAssumption DEF CreateTransfer, TransfersOK, TransferRows
  <2>. QED BY <2>1, <2>2, InvParts DEF CreateTransfer, StockInv, CostFollowsStock
<1>5. CASE ApproveTransfer(t)
  <2>1. TransfersOK'
    BY <1>5, InvParts, TransferRowsKept DEF ApproveTransfer
  <2>. QED BY <1>5, <2>1, InvParts DEF ApproveTransfer, StockInv, CostFollowsStock
<1>6. CASE CancelTransfer(t)
  <2>1. TransfersOK'
    BY <1>6, InvParts, TransferRowsKept DEF CancelTransfer
  <2>. QED BY <1>6, <2>1, InvParts DEF CancelTransfer, StockInv, CostFollowsStock
<1>7. CASE ShipTransfer(t)
  <2>1. TransfersOK'
    BY <1>7, InvParts, TransferRowsKept DEF ShipTransfer
  <2>2. StockInv' /\ \E w \in Warehouses, q \in Nat : Moves(w, -q, 0, 0)
    BY <1>7, InvParts, ShipMoves
  <2>. QED BY <2>1, <2>2, MovedSame
<1>8. CASE ReceiveTransfer(t)
  <2>1. TransfersOK'
    BY <1>8, InvParts, TransferRowsKept DEF ReceiveTransfer
  <2>2. StockInv' /\ \E w \in Warehouses, q \in Nat : Moves(w, q, 0, 0)
    BY <1>8, InvParts, ReceiveMoves
  <2>. QED BY <2>1, <2>2, MovedSame
<1>. QED BY <1>1, <1>4, <1>5, <1>6, <1>7, <1>8

\* A shipment keeps its allocation.
LEMMA ShipmentTurned ==
    ASSUME ShipmentsOK, NEW s \in Shipments, NEW to \in {"ready", "cancelled", "handed_over"},
           shipment[s].status # "none", shipment' = [shipment EXCEPT ![s].status = to]
    PROVE  ShipmentsOK'
<1>1. PICK o \in ShipmentRows : o = shipment[s]
  BY DEF ShipmentsOK
<1>2. PICK row : row = [o EXCEPT !.status = to]
  OBVIOUS
<1>3. row \in ShipmentRows /\ row.of = o.of
  BY <1>2 DEF ShipmentRows
<1>4. shipment' = [shipment EXCEPT ![s] = row]
  BY <1>1, <1>2 DEF ShipmentsOK
<1>5. row.of \in Allocs
  BY <1>1, <1>3 DEF ShipmentsOK
<1>. QED BY <1>3, <1>4, <1>5 DEF ShipmentsOK

(* Shipments that are made up, made ready or cancelled. *)
LEMMA ShipmentInv ==
    ASSUME Inv, NEW s \in Shipments,
           \/ \E a \in Allocs, q \in Quantities : CreateShipment(s, a, q)
           \/ MarkReady(s)
           \/ CancelShipment(s)
    PROVE  Inv'
<1>1. UNCHANGED <<bal, layers, reservation, alloc, transfer, consumed, progress>>
  BY DEF CreateShipment, MarkReady, CancelShipment
<1>2. ShipmentsOK'
  <2>0. shipment \in [Shipments -> ShipmentRows] /\ \A x \in Shipments : shipment[x].status # "none" => shipment[x].of \in Allocs
    BY InvParts DEF ShipmentsOK
  <2>1. SUFFICES ASSUME NEW row \in ShipmentRows, row.status # "none" => row.of \in Allocs,
                        shipment' = [shipment EXCEPT ![s] = row]
                 PROVE  ShipmentsOK'
    <3>1. CASE \E a \in Allocs, q \in Quantities : CreateShipment(s, a, q)
      <4>1. PICK a \in Allocs, q \in Quantities : CreateShipment(s, a, q)
        BY <3>1
      <4>2. PICK row : row = [status |-> "draft", of |-> a, quantity |-> q]
        OBVIOUS
      <4>3. row \in ShipmentRows /\ row.of = a
        BY <4>2, LedgerAssumption DEF ShipmentRows, Quantities
      <4>. QED BY <2>1, <4>1, <4>2, <4>3 DEF CreateShipment
    <3>2. CASE MarkReady(s) \/ CancelShipment(s)
      BY <3>2, InvParts, ShipmentTurned DEF MarkReady, CancelShipment
    <3>. QED BY <3>1, <3>2
  <2>. QED BY <2>0, <2>1 DEF ShipmentsOK
<1>3. StockInv' /\ TransfersOK' /\ ReservationsKept /\ ReservedIsCommitted'
  BY <1>1, InvParts, ReservedSame DEF StockInv, CostFollowsStock, TransfersOK
<1>. QED BY <1>1, <1>2, <1>3, AllocatedSame

(* Picks, unpicks and the desk's own status change: nothing leaves the stock. *)
LEMMA PickInv ==
    ASSUME Inv, NEW a \in Allocs, NEW to \in {"allocated", "picked"}, Turned(a, to),
           progress'[a].shipped = progress[a].shipped,
           progress'[a].shipped <= progress'[a].picked, progress'[a].picked <= alloc[a].quantity,
           UNCHANGED <<bal, layers, reservation, transfer, consumed, shipment>>
    PROVE  Inv'
<1>1. PICK i \in Items, w \in Scope : a = <<i, w>>
  BY DEF Allocs
<1>2. progress[a].shipped \in Nat /\ progress[a].shipped < alloc[a].quantity
  BY InvParts DEF AllocRowsOK, ProgressRows, Turned
<1>3. progress'[a].shipped = progress[a].shipped + 0 /\ progress'[a].shipped < alloc[a].quantity
  BY <1>2
<1>4. 0 \in Nat /\ 0 \in Int
  OBVIOUS
<1>5. Turns(a) /\ HeldBy(a)' = HeldBy(a) + 0 /\ Left(a)' = Left(a) + 0
  <2>1. PICK n \in Nat : n = 0
    OBVIOUS
  <2>2. progress'[a].shipped = progress[a].shipped + n
    BY <1>3, <2>1
  <2>3. Turns(a) /\ HeldBy(a)' = HeldBy(a) + (-n) /\ Left(a)' = Left(a) + n
    BY <1>3, <2>2, InvParts, StaysOpen
  <2>4. HeldBy(a) \in Nat
    BY InvParts, AllocFacts
  <2>. QED BY <2>1, <2>3, <2>4
<1>6. /\ \A j \in Items : consumed'[j] = consumed[j] + (IF j = i THEN 0 ELSE 0)
      /\ consumed' \in [Items -> Nat] /\ ShipmentsOK' /\ StockInv'
  BY InvParts, ShipmentsSame DEF StockInv, CostFollowsStock
<1>7. ReservationsKept /\ ReservedIsCommitted'
  BY ReservedSame
<1>8. Moves(w, 0, 0, 0)
  BY InvParts DEF Moves, StockInv, Balances
<1>. QED BY <1>1, <1>4, <1>5, <1>6, <1>7, <1>8, TurnInv

\* An allocation marked as picked, or taken back, keeps the invariant.
LEMMA ChangeInv ==
    ASSUME Inv, NEW a \in Allocs, UNCHANGED fulfillmentVars,
           ChangeAllocation(a, "allocated", "picked") \/ ChangeAllocation(a, "picked", "allocated")
    PROVE  Inv'
<1>1. PICK to \in {"allocated", "picked"} : Turned(a, to)
  BY InvParts DEF ChangeAllocation, Turned, Holding, AllocRowsOK
<1>2. progress[a].shipped <= progress[a].picked /\ progress[a].picked <= alloc[a].quantity
  BY <1>1, InvParts DEF AllocRowsOK, Turned
<1>3. UNCHANGED <<bal, layers, reservation, transfer, consumed, shipment>>
  BY DEF ChangeAllocation
<1>. QED BY <1>1, <1>2, <1>3, PickInv

\* The row of progress after a change of its picked units, or of its shipped units.
LEMMA ProgressWritten ==
    ASSUME AllocRowsOK, NEW a \in Allocs, NEW row \in ProgressRows, progress' = [progress EXCEPT ![a] = row]
    PROVE  /\ progress' \in [Allocs -> ProgressRows] /\ progress'[a] = row
           /\ \A b \in Allocs \ {a} : progress'[b] = progress[b]
BY DEF AllocRowsOK

\* Picking and putting back stay between what is shipped and what is allocated.
LEMMA PickOrUnpickInv ==
    ASSUME Inv, NEW a \in Allocs, NEW q \in Quantities, Pick(a, q) \/ Unpick(a, q)
    PROVE  Inv'
<1>0. q \in Nat
  BY LedgerAssumption DEF Quantities
<1>1. PICK o \in ProgressRows : o = progress[a]
  BY InvParts DEF AllocRowsOK
<1>2. o.picked \in Nat /\ o.shipped \in Nat
  BY DEF ProgressRows
<1>3. Holding(a) /\ o.shipped <= o.picked /\ o.picked <= alloc[a].quantity /\ alloc[a].quantity \in Nat
      /\ alloc[a].status \in {"allocated", "picked"}
  BY <1>1, InvParts DEF Pick, Unpick, Holding, AllocRowsOK, AllocRows
<1>4. UNCHANGED <<bal, layers, reservation, transfer, consumed, shipment>>
  BY DEF Pick, Unpick
<1>5. \E p \in Nat, to \in {"allocated", "picked"} :
         /\ o.shipped <= p /\ p <= alloc[a].quantity
         /\ progress' = [progress EXCEPT ![a].picked = p]
         /\ alloc' = [alloc EXCEPT ![a].status = to]
  <2>1. CASE Pick(a, q)
    <3>1. PICK p : p = o.picked + q
      OBVIOUS
    <3>2. p \in Nat /\ o.shipped <= p /\ p <= alloc[a].quantity
      BY <1>0, <1>1, <1>2, <1>3, <2>1, <3>1 DEF Pick
    <3>3. progress' = [progress EXCEPT ![a].picked = p]
      BY <1>1, <2>1, <3>1, InvParts DEF Pick, AllocRowsOK
    <3>4. \E to \in {"allocated", "picked"} : alloc' = [alloc EXCEPT ![a].status = to]
      BY <1>3, <2>1 DEF Pick
    <3>. QED BY <3>2, <3>3, <3>4
  <2>2. CASE Unpick(a, q)
    <3>1. PICK p : p = o.picked - q
      OBVIOUS
    <3>2. p \in Nat /\ o.shipped <= p /\ p <= alloc[a].quantity
      BY <1>0, <1>1, <1>2, <1>3, <2>2, <3>1 DEF Unpick
    <3>3. progress' = [progress EXCEPT ![a].picked = p]
      BY <1>1, <2>2, <3>1, InvParts DEF Unpick, AllocRowsOK
    <3>4. \E to \in {"allocated", "picked"} : alloc' = [alloc EXCEPT ![a].status = to]
      BY <1>3, <2>2 DEF Unpick
    <3>. QED BY <3>2, <3>3, <3>4
  <2>. QED BY <2>1, <2>2
<1>6. PICK p \in Nat, to \in {"allocated", "picked"} :
         /\ o.shipped <= p /\ p <= alloc[a].quantity
         /\ progress' = [progress EXCEPT ![a].picked = p]
         /\ alloc' = [alloc EXCEPT ![a].status = to]
  BY <1>5
<1>7. PICK row : row = [o EXCEPT !.picked = p]
  OBVIOUS
<1>8. row \in ProgressRows /\ row.picked = p /\ row.shipped = o.shipped
  BY <1>7 DEF ProgressRows
<1>9. progress' = [progress EXCEPT ![a] = row]
  BY <1>1, <1>6, <1>7, InvParts DEF AllocRowsOK
<1>10. /\ progress' \in [Allocs -> ProgressRows] /\ progress'[a] = row
       /\ \A b \in Allocs \ {a} : progress'[b] = progress[b]
  BY <1>8, <1>9, InvParts, ProgressWritten
<1>11. Turned(a, to)
  BY <1>3, <1>6, <1>10 DEF Turned
<1>. QED BY <1>1, <1>4, <1>6, <1>8, <1>10, <1>11, PickInv

(* Units taken out of the stock for an order. *)
LEMMA TakenInv ==
    ASSUME Inv, NEW a \in Allocs, NEW q \in Nat, TakeAllocated(a, q), Turns(a),
           ClosedTwice(a)' \/ (HeldBy(a)' = HeldBy(a) + (-q) /\ Left(a)' = Left(a) + q), ShipmentsOK'
    PROVE  Inv'
<1>1. PICK i \in Items, w \in Scope : a = <<i, w>>
  BY DEF Allocs
<1>2. StockInv' /\ Moves(w, -q, 0, -q)
  BY <1>1, InvParts, TakeMoves
<1>3. consumed' = [consumed EXCEPT ![i] = consumed[i] + q] /\ UNCHANGED reservation /\ UNCHANGED transfer
  BY <1>1 DEF TakeAllocated
<1>4. /\ \A j \in Items : consumed'[j] = consumed[j] + (IF j = i THEN q ELSE 0)
      /\ consumed' \in [Items -> Nat]
  BY <1>3, InvParts
<1>5. w \in Warehouses /\ -q \in Int /\ q \in Int
  BY LedgerAssumption
<1>6. ReservationsKept /\ ReservedIsCommitted'
  BY <1>2, <1>3, <1>5, MovedSame, ReservedSame
<1>. QED BY <1>1, <1>2, <1>3, <1>4, <1>5, <1>6, TurnInv

\* A sale that consumes an open allocation takes its units from where they are held.
LEMMA ConsumeInv ==
    ASSUME Inv, NEW a \in Allocs, ConsumeForSale(a), UNCHANGED fulfillmentVars
    PROVE  Inv'
<1>1. PICK q \in Nat : q = alloc[a].quantity
  BY InvParts DEF AllocRowsOK, AllocRows
<1>2. TakeAllocated(a, q) /\ Turned(a, "shipped")
  BY <1>1, InvParts DEF ConsumeForSale, Turned, Holding, AllocRowsOK
<1>3. /\ Turns(a) /\ HeldBy(a)' = 0 /\ HeldBy(a) = q - progress[a].shipped
      /\ Left(a) = progress[a].shipped /\ Left(a)' = q
      /\ (progress'[a].shipped # 0 /\ progress'[a].shipped < q) => ClosedTwice(a)'
  BY <1>1, <1>2, InvParts, Closes
<1>4. progress'[a].shipped = progress[a].shipped /\ progress[a].shipped \in Nat /\ progress[a].shipped < q
  BY <1>1, <1>2, InvParts DEF AllocRowsOK, Turned, ProgressRows
<1>5. ClosedTwice(a)' \/ (HeldBy(a)' = HeldBy(a) + (-q) /\ Left(a)' = Left(a) + q)
  BY <1>3, <1>4
<1>. QED BY <1>2, <1>3, <1>5, TakenInv, ShipmentsSame

(* The whole quantity of an allocation goes back, to its reservation or to the free stock. *)
LEMMA ReleaseInv ==
    ASSUME Inv, NEW a \in Allocs, ReleaseAllocation(a), UNCHANGED fulfillmentVars
    PROVE  Inv'
<1>1. PICK i \in Items, w \in Scope : a = <<i, w>>
  BY DEF Allocs
<1>2. PICK q \in Nat : q = alloc[a].quantity
  BY InvParts DEF AllocRowsOK, AllocRows
<1>3. PICK r \in Reservations \cup {None} : r = alloc[a].from
  BY InvParts DEF AllocRowsOK, AllocRows
<1>w. w \in Warehouses /\ a[2] = w /\ None \notin Reservations
  BY <1>1, LedgerAssumption
<1>4. PICK y : y = IF r # None /\ reservation[r].status = "converted" THEN q ELSE 0
  OBVIOUS
<1>5. PICK b : b = [bal[w] EXCEPT !.allocated = @ - q, !.reserved = @ + y]
  OBVIOUS
<1>6. /\ Book(w, b) /\ UNCHANGED layers /\ UNCHANGED transfer /\ UNCHANGED consumed
      /\ Turned(a, "released")
  BY <1>1, <1>2, <1>3, <1>4, <1>5, InvParts DEF ReleaseAllocation, Turned, Holding, AllocRowsOK
<1>7. y \in Int /\ y \in Nat /\ -q \in Int /\ 0 \in Int /\ bal[w] \in Balances
  BY <1>4, <1>w, InvParts DEF StockInv
<1>8. /\ b.onHand = bal[w].onHand /\ b.damaged = bal[w].damaged /\ b.quarantine = bal[w].quarantine
      /\ b.reserved = bal[w].reserved + y /\ b.allocated = bal[w].allocated + (-q)
  BY <1>5, <1>7 DEF Balances
<1>9. StockInv' /\ Moves(w, 0, y, -q)
  BY <1>w, <1>6, <1>7, <1>8, InvParts, PromiseMoves
<1>10. ReservationsKept /\ ReservedIsCommitted'
  <2>1. CASE r # None /\ reservation[r].status = "converted"
    <3>1. r \in Reservations /\ y = q /\ reservation[r].warehouse = w
      BY <1>w, <1>3, <1>4, <2>1, InvParts DEF FromOK
    <3>2. PICK k \in Int : k = -q
      OBVIOUS
    <3>3. /\ q <= reservation[r].allocated
          /\ reservation' = [reservation EXCEPT ![r].allocated = @ - q]
      BY <1>2, <1>3, <2>1 DEF ReleaseAllocation
    <3>4. reservation[r].allocated \in Nat /\ Commitment(r) \in Nat
      BY <3>1, InvParts, RowFacts DEF Row
    <3>5. /\ 0 <= reservation[r].allocated + k /\ k <= Commitment(r)
          /\ reservation[r].allocated - q = reservation[r].allocated + k
      BY <3>2, <3>3, <3>4
    <3>6. reservation' = [reservation EXCEPT ![r].allocated = @ + k]
      BY <3>3, <3>5
    <3>7. RowEffect(r, w, -k)
      BY <2>1, <3>1, <3>5, <3>6, InvParts, AllocatedEffect
    <3>8. -k = y
      BY <3>1, <3>2
    <3>9. RowEffect(r, w, y)
      BY <3>7, <3>8
    <3>. QED BY <1>w, <1>7, <1>9, <3>1, <3>9, InvParts, CommittedChange, RowKept
  <2>2. CASE ~(r # None /\ reservation[r].status = "converted")
    <3>1. UNCHANGED reservation
      BY <1>3, <2>2 DEF ReleaseAllocation
    <3>2. y = 0
      BY <1>4, <2>2
    <3>. QED BY <1>w, <1>9, <3>1, <3>2, MovedSame, ReservedSame
  <2>. QED BY <2>1, <2>2
<1>11. /\ Turns(a) /\ HeldBy(a)' = 0 /\ HeldBy(a) = q - progress[a].shipped
       /\ Left(a) = progress[a].shipped /\ Left(a)' = 0
       /\ (progress'[a].shipped # 0 /\ progress'[a].shipped < q) => ClosedTwice(a)'
  BY <1>2, <1>6, InvParts, Closes
<1>12. progress'[a].shipped = progress[a].shipped /\ progress[a].shipped \in Nat /\ progress[a].shipped < q
  BY <1>2, <1>6, InvParts DEF AllocRowsOK, Turned, ProgressRows
<1>13. ClosedTwice(a)' \/ (HeldBy(a)' = HeldBy(a) + (-q) /\ Left(a)' = Left(a) + 0)
  BY <1>11, <1>12
<1>14. /\ \A j \in Items : consumed'[j] = consumed[j] + (IF j = i THEN 0 ELSE 0)
       /\ consumed' \in [Items -> Nat]
  BY <1>6, InvParts
<1>15. ShipmentsOK'
  BY ShipmentsSame
<1>. QED BY <1>1, <1>6, <1>7, <1>9, <1>10, <1>11, <1>13, <1>14, <1>15, TurnInv

(* A shipment is handed over and its units leave the stock. *)
LEMMA HandoverInv ==
    ASSUME Inv, NEW s \in Shipments, Handover(s)
    PROVE  Inv'
<1>1. PICK a \in Allocs, q \in Nat : a = shipment[s].of /\ q = shipment[s].quantity
  BY InvParts DEF Handover, ShipmentsOK, ShipmentRows
<1>2. PICK o \in ProgressRows : o = progress[a]
  BY InvParts DEF AllocRowsOK
<1>3. PICK n \in Nat : n = o.shipped + q
  BY DEF ProgressRows
<1>4. PICK row : row = [o EXCEPT !.shipped = n]
  OBVIOUS
<1>5. row \in ProgressRows /\ row.picked = o.picked /\ row.shipped = n
  BY <1>4 DEF ProgressRows
<1>6. progress' = [progress EXCEPT ![a] = row]
  BY <1>1, <1>2, <1>3, <1>4, InvParts DEF Handover, AllocRowsOK
<1>7. /\ progress' \in [Allocs -> ProgressRows] /\ progress'[a] = row
      /\ \A b \in Allocs \ {a} : progress'[b] = progress[b]
  BY <1>5, <1>6, InvParts, ProgressWritten
<1>8. /\ n <= o.picked /\ ConsumeForShipment(a, q, n = alloc[a].quantity)
      /\ shipment[s].status # "none" /\ shipment' = [shipment EXCEPT ![s].status = "handed_over"]
  BY <1>1, <1>2, <1>3, <1>5, <1>7 DEF Handover
<1>9. /\ Holding(a) /\ o.shipped <= o.picked /\ o.picked <= alloc[a].quantity /\ alloc[a].quantity \in Nat
      /\ alloc[a].status \in {"allocated", "picked"} /\ o.picked \in Nat /\ o.shipped \in Nat
      /\ o.shipped < alloc[a].quantity
  BY <1>2, <1>8, InvParts DEF ConsumeForShipment, Holding, AllocRowsOK, AllocRows, ProgressRows
<1>10. TakeAllocated(a, q) /\ ShipmentsOK'
  BY <1>8, InvParts, ShipmentTurned DEF ConsumeForShipment
<1>11. CASE n = alloc[a].quantity
  <2>1. Turned(a, "shipped")
    BY <1>7, <1>8, <1>9, <1>11 DEF ConsumeForShipment, Turned
  <2>2. /\ Turns(a) /\ HeldBy(a)' = 0 /\ HeldBy(a) = alloc[a].quantity - o.shipped
        /\ Left(a) = o.shipped /\ Left(a)' = alloc[a].quantity
    BY <1>2, <2>1, InvParts, Closes
  <2>3. HeldBy(a)' = HeldBy(a) + (-q) /\ Left(a)' = Left(a) + q
    BY <1>3, <1>9, <1>11, <2>2
  <2>. QED BY <1>10, <2>2, <2>3, TakenInv
<1>12. CASE n # alloc[a].quantity
  <2>1. PICK to \in {"allocated", "picked"} : to = alloc[a].status
    BY <1>9
  <2>2. Turned(a, to)
    BY <1>7, <1>8, <1>9, <1>12, <2>1 DEF ConsumeForShipment, Turned
  <2>3. /\ progress'[a].shipped = progress[a].shipped + q /\ progress'[a].shipped <= progress'[a].picked
        /\ progress'[a].picked <= alloc[a].quantity /\ progress'[a].shipped < alloc[a].quantity
    BY <1>2, <1>3, <1>5, <1>7, <1>8, <1>9, <1>12
  <2>4. Turns(a) /\ HeldBy(a)' = HeldBy(a) + (-q) /\ Left(a)' = Left(a) + q
    BY <2>2, <2>3, InvParts, StaysOpen
  <2>. QED BY <1>10, <2>4, TakenInv
<1>. QED BY <1>11, <1>12

(* An order item is allocated in one more warehouse. *)
LEMMA CreateInv ==
    ASSUME Inv, NEW i \in Items, NEW w \in Scope, NEW q \in Quantities,
           NEW r \in Reservations \cup {None}, CreateAllocation(i, w, q, r),
           StockInv', NEW y \in Int, Moves(w, 0, y, q), ReservationsKept, ReservedIsCommitted',
           r \in Reservations => reservation[r].status # "none" /\ reservation[r].warehouse = w,
           progress' \in [Allocs -> ProgressRows],
           \A b \in Allocs \ {<<i, w>>} : progress'[b] = progress[b],
           progress'[<<i, w>>].picked = progress[<<i, w>>].picked,
           progress'[<<i, w>>].shipped = progress[<<i, w>>].shipped,
           UNCHANGED shipment
    PROVE  Inv'
<1>1. PICK a \in Allocs : a = <<i, w>>
  BY DEF Allocs
<1>2. q \in Nat /\ q # 0
  BY LedgerAssumption DEF Quantities
<1>3. PICK row \in AllocRows : row = [status |-> "allocated", quantity |-> q, from |-> r]
  BY <1>2 DEF AllocRows
<1>4. row.status = "allocated" /\ row.quantity = q /\ row.from = r
  BY <1>3
<1>5. /\ alloc[a].status = "none" /\ alloc' = [alloc EXCEPT ![a] = row]
      /\ WithinOrder(i, w, q) /\ UNCHANGED <<layers, transfer, consumed>>
  BY <1>1, <1>3 DEF CreateAllocation
<1>6. /\ alloc' \in [Allocs -> AllocRows] /\ alloc'[a] = row
      /\ \A b \in Allocs \ {a} : alloc'[b] = alloc[b] /\ progress'[b] = progress[b]
      /\ progress' \in [Allocs -> ProgressRows] /\ progress'[a].picked = 0 /\ progress'[a].shipped = 0
  BY <1>1, <1>5, InvParts DEF AllocRowsOK
<1>7. AllocRowsOK'
  <2>1. \A b \in Allocs : alloc'[b].status = "none" => progress'[b].picked = 0 /\ progress'[b].shipped = 0
    BY <1>6, InvParts DEF AllocRowsOK
  <2>2. \A b \in Allocs : Holding(b)' =>
           /\ progress'[b].shipped <= progress'[b].picked /\ progress'[b].picked <= alloc'[b].quantity
           /\ progress'[b].shipped < alloc'[b].quantity
    BY <1>2, <1>4, <1>6, InvParts DEF AllocRowsOK, Holding
  <2>. QED BY <1>6, <2>1, <2>2 DEF AllocRowsOK
<1>8. /\ HeldBy(a) = 0 /\ HeldBy(a)' = q /\ Left(a) = 0 /\ Left(a)' = 0 /\ ~Closed(a)
      /\ Promised(a)' = q /\ \A b \in Allocs \ {a} : Promised(b)' = Promised(b)
  BY <1>2, <1>4, <1>5, <1>6 DEF HeldBy, Left, Holding, Closed, Promised, Live
<1>9. AllocEffect(a, q, 0)
  <2>1. \A j \in Items : consumed'[j] = consumed[j] + (IF j = a[1] THEN 0 ELSE 0)
    BY <1>5, InvParts
  <2>2. HeldBy(a)' = HeldBy(a) + q /\ Left(a)' = Left(a) + 0
    BY <1>2, <1>8
  <2>. QED BY <1>6, <1>7, <1>8, <2>1, <2>2 DEF AllocEffect
<1>10. Caps'
  <2>0. IsFiniteSet(Scope) /\ Ordered \in Nat
    BY LedgerAssumption, FiniteAssumption, FS_Subset
  <2>. SUFFICES ASSUME NEW j \in Items PROVE SumFunctionOnSet(AllocatedFor(j)', Scope) <= Ordered
    BY DEF Caps
  <2>1. PICK f : f = AllocatedFor(j)
    OBVIOUS
  <2>2. PICK g : g = AllocatedFor(j)'
    OBVIOUS
  <2>3. \A v \in Scope : <<j, v>> \in Allocs /\ f[v] = Promised(<<j, v>>) /\ g[v] = Promised(<<j, v>>)'
    BY <2>1, <2>2 DEF AllocatedFor, Promised, Allocs
  <2>4. \A v \in Scope : f[v] \in Nat /\ g[v] \in Nat
    BY <1>7, <2>3, InvParts, AllocFacts, AllocFactsNext
  <2>5. CASE j # i
    <3>1. \A v \in Scope : f[v] = g[v]
      BY <1>1, <1>8, <2>3, <2>5
    <3>2. SumFunctionOnSet(f, Scope) = SumFunctionOnSet(g, Scope)
      BY <2>0, <2>4, <3>1, SumSame
    <3>3. SumFunctionOnSet(f, Scope) <= Ordered
      BY <2>1, InvParts DEF Caps
    <3>. QED BY <2>2, <3>2, <3>3
  <2>6. CASE j = i
    <3>0. IsFiniteSet(Scope \ {w})
      BY <2>0, FS_RemoveElement
    <3>1. \A v \in Scope \ {w} : f[v] \in Nat /\ f[v] = g[v]
      BY <1>1, <1>8, <2>3, <2>4, <2>6
    <3>2. SumFunctionOnSet(f, Scope \ {w}) = SumFunctionOnSet(g, Scope \ {w})
      BY <3>0, <3>1, SumSame
    <3>3. g[w] = q
      BY <1>1, <1>8, <2>3, <2>6
    <3>4. SumFunctionOnSet(g, Scope) = g[w] + SumFunctionOnSet(g, Scope \ {w})
      BY <2>0, <2>4, SumFacts
    <3>5. q + SumFunctionOnSet(f, Scope \ {w}) <= Ordered
      BY <1>5, <2>1, <2>6 DEF WithinOrder
    <3>. QED BY <2>2, <3>2, <3>3, <3>4, <3>5
  <2>. QED BY <2>5, <2>6
<1>11. AllocatedIsHeld'
  <2>1. q \in Int /\ 0 \in Int
    BY <1>2
  <2>2. AllocEffect(<<i, w>>, q, 0)
    BY <1>1, <1>9
  <2>. QED BY <1>10, <2>1, <2>2, AllocatedStays
<1>12. FromOK'
  <2>1. \A b \in Allocs : alloc'[b].from \in Reservations =>
           reservation[alloc'[b].from].status # "none" /\ reservation[alloc'[b].from].warehouse = b[2]
    <3>1. a[2] = w
      BY <1>1
    <3>. QED BY <1>4, <1>6, <3>1, InvParts DEF FromOK
  <2>. QED BY <2>1 DEF FromOK, ReservationsKept
<1>13. ShipmentsOK' /\ TransfersOK' /\ consumed' \in [Items -> Nat]
  BY <1>5, InvParts, ShipmentsSame DEF TransfersOK
<1>. QED BY <1>7, <1>10, <1>11, <1>12, <1>13, InvAgain

\* Free stock is allocated where the order still has room.
LEMMA AllocateFreeInv ==
    ASSUME Inv, NEW i \in Items, NEW w \in Scope, NEW q \in Quantities, AllocateFree(i, w, q),
           UNCHANGED fulfillmentVars
    PROVE  Inv'
<1>0. q \in Nat /\ w \in Warehouses /\ 0 \in Int /\ q \in Int /\ None \in Reservations \cup {None}
      /\ None \notin Reservations
  BY LedgerAssumption DEF Quantities
<1>1. PICK b : b = [bal[w] EXCEPT !.allocated = @ + q]
  OBVIOUS
<1>2. Book(w, b) /\ UNCHANGED layers /\ CreateAllocation(i, w, q, None) /\ UNCHANGED reservation
  BY <1>1 DEF AllocateFree, CreateAllocation
<1>3. bal[w] \in Balances
  BY <1>0, InvParts DEF StockInv
<1>4. /\ b.onHand = bal[w].onHand /\ b.damaged = bal[w].damaged /\ b.quarantine = bal[w].quarantine
      /\ b.reserved = bal[w].reserved + 0 /\ b.allocated = bal[w].allocated + q
  BY <1>1, <1>3 DEF Balances
<1>5. StockInv' /\ Moves(w, 0, 0, q)
  BY <1>0, <1>2, <1>4, InvParts, PromiseMoves
<1>6. ReservationsKept /\ ReservedIsCommitted'
  BY <1>0, <1>2, <1>5, MovedSame, ReservedSame
<1>7. progress' = progress /\ progress \in [Allocs -> ProgressRows]
  BY InvParts DEF AllocRowsOK
<1>. QED BY <1>0, <1>2, <1>5, <1>6, <1>7, CreateInv

\* Reserved stock becomes allocated in the warehouse of its reservation.
LEMMA AllocateReservedInv ==
    ASSUME Inv, NEW i \in Items, NEW w \in Scope, NEW q \in Quantities, NEW r \in Reservations,
           AllocateReserved(i, w, q, r), progress' \in [Allocs -> ProgressRows],
           \A b \in Allocs \ {<<i, w>>} : progress'[b] = progress[b],
           progress'[<<i, w>>].picked = progress[<<i, w>>].picked,
           progress'[<<i, w>>].shipped = progress[<<i, w>>].shipped,
           UNCHANGED shipment
    PROVE  Inv'
<1>0. q \in Nat /\ w \in Warehouses /\ 0 \in Int /\ q \in Int /\ -q \in Int
      /\ r \in Reservations \cup {None}
  BY LedgerAssumption DEF Quantities
<1>1. PICK b : b = [bal[w] EXCEPT !.reserved = @ - q, !.allocated = @ + q]
  OBVIOUS
<1>2. /\ Book(w, b) /\ UNCHANGED layers /\ CreateAllocation(i, w, q, r)
      /\ reservation[r].status = "converted" /\ reservation[r].warehouse = w /\ q <= Commitment(r)
      /\ reservation' = [reservation EXCEPT ![r].allocated = @ + q]
  BY <1>1 DEF AllocateReserved, CreateAllocation
<1>3. bal[w] \in Balances
  BY <1>0, InvParts DEF StockInv
<1>4. /\ b.onHand = bal[w].onHand /\ b.damaged = bal[w].damaged /\ b.quarantine = bal[w].quarantine
      /\ b.reserved = bal[w].reserved + (-q) /\ b.allocated = bal[w].allocated + q
  BY <1>1, <1>3 DEF Balances
<1>5. StockInv' /\ Moves(w, 0, -q, q)
  BY <1>0, <1>2, <1>4, InvParts, PromiseMoves
<1>6. 0 <= reservation[r].allocated + q
  BY <1>0, InvParts, RowFacts DEF Row
<1>7. RowEffect(r, w, -q)
  BY <1>0, <1>2, <1>6, InvParts, AllocatedEffect
<1>8. ReservationsKept /\ ReservedIsCommitted'
  BY <1>0, <1>5, <1>7, InvParts, CommittedChange, RowKept
<1>. QED BY <1>0, <1>2, <1>5, <1>8, CreateInv

\* The fulfillment desk allocates from the order's own reservation.
LEMMA AllocateInv ==
    ASSUME Inv, NEW i \in Items, NEW w \in Scope, NEW q \in Quantities, Allocate(i, w, q)
    PROVE  Inv'
<1>1. PICK r \in Reservations : r = OrderReservation[i]
  BY OrderAssumption
<1>2. PICK a \in Allocs : a = <<i, w>>
  BY DEF Allocs
<1>3. AllocateReserved(i, w, q, r) /\ UNCHANGED shipment
      /\ progress' = [progress EXCEPT ![a].exists = TRUE]
  BY <1>1, <1>2 DEF Allocate
<1>4. PICK o \in ProgressRows : o = progress[a]
  BY InvParts DEF AllocRowsOK
<1>5. PICK row : row = [o EXCEPT !.exists = TRUE]
  OBVIOUS
<1>6. row \in ProgressRows /\ row.picked = o.picked /\ row.shipped = o.shipped
  BY <1>5 DEF ProgressRows
<1>7. progress' = [progress EXCEPT ![a] = row]
  BY <1>3, <1>4, <1>5, InvParts DEF AllocRowsOK
<1>8. /\ progress' \in [Allocs -> ProgressRows] /\ progress'[a] = row
      /\ \A b \in Allocs \ {a} : progress'[b] = progress[b]
  BY <1>6, <1>7, InvParts, ProgressWritten
<1>. QED BY <1>2, <1>3, <1>4, <1>6, <1>8, AllocateReservedInv
-----------------------------------------------------------------------------
(* The theorems. *)

\* The invariant holds at first.
LEMMA InitInv ==
    ASSUME Init
    PROVE  Inv
<1>0. /\ SomeWarehouse \in Warehouses /\ None \notin Reservations /\ Scope \subseteq Warehouses
      /\ IsFiniteSet(Reservations) /\ IsFiniteSet(Items) /\ IsFiniteSet(Scope)
      /\ Opening \in [Warehouses -> Nat] /\ Ordered \in Nat
  BY LedgerAssumption, FiniteAssumption, FS_Subset DEF SomeWarehouse
<1>1. /\ bal = [w \in Warehouses |-> [onHand |-> Opening[w], reserved |-> 0, allocated |-> 0,
                                      damaged |-> 0, quarantine |-> 0]]
      /\ layers = [w \in Warehouses |-> [sellable |-> Opening[w], damaged |-> 0, quarantine |-> 0]]
      /\ consumed = [i \in Items |-> 0]
      /\ alloc = [a \in Allocs |-> [status |-> "none", quantity |-> 0, from |-> None]]
      /\ progress = [a \in Allocs |-> [exists |-> FALSE, picked |-> 0, shipped |-> 0]]
  BY DEF Init, LedgerInit
<1>2. StockInv
  BY <1>0, <1>1 DEF StockInv, CostFollowsStock, Balances, Layers
<1>3. /\ reservation \in [Reservations -> ReservationRows]
      /\ \A r \in Reservations : /\ reservation[r].quantity = 0 /\ reservation[r].allocated = 0
                                 /\ reservation[r].released = 0
  BY <1>0 DEF Init, LedgerInit, ReservationRows, Open
<1>4. /\ alloc \in [Allocs -> AllocRows] /\ consumed \in [Items -> Nat]
      /\ \A a \in Allocs : alloc[a].status = "none" /\ alloc[a].from = None
  BY <1>1 DEF AllocRows
<1>5. transfer \in [Transfers -> TransferRows]
  BY <1>0 DEF Init, LedgerInit, TransferRows
<1>6. /\ progress \in [Allocs -> ProgressRows]
      /\ \A a \in Allocs : progress[a].picked = 0 /\ progress[a].shipped = 0
  BY <1>1 DEF ProgressRows
<1>7. /\ shipment \in [Shipments -> ShipmentRows]
      /\ \A s \in Shipments : shipment[s].status = "none"
  BY DEF Init, ShipmentRows
<1>8. RowsTypeOK
  BY <1>3, <1>4, <1>5, <1>6, <1>7 DEF RowsTypeOK
<1>9. RefersInv
  BY <1>0, <1>3, <1>4, <1>7 DEF RefersInv
<1>10. \A i \in Items : SumFunctionOnSet(AllocatedFor(i), Scope) = 0
  <2>. SUFFICES ASSUME NEW i \in Items PROVE SumFunctionOnSet(AllocatedFor(i), Scope) = 0
    OBVIOUS
  <2>1. \A w \in Scope : AllocatedFor(i)[w] = 0
    BY <1>4 DEF AllocatedFor, Live, Allocs
  <2>. QED BY <1>0, <2>1, SumZero
<1>11. ProgressInv
  BY <1>0, <1>4, <1>6, <1>10 DEF ProgressInv, Holding
<1>12. ReservedIsCommitted
  <2>. SUFFICES ASSUME NEW w \in Warehouses
                PROVE  SumFunctionOnSet(CommittedAt(w), Reservations) = 0
    BY <1>1 DEF ReservedIsCommitted
  <2>1. \A r \in Reservations : CommittedAt(w)[r] = 0
    BY <1>3 DEF CommittedAt, Commitment
  <2>. QED BY <1>0, <2>1, SumZero
<1>13. AllocatedIsHeld
  <2>1. ASSUME NEW w \in Scope PROVE bal[w].allocated = SumFunctionOnSet(HeldAt(w), Items)
    <3>1. \A i \in Items : HeldAt(w)[i] = 0
      BY <1>4 DEF HeldAt, Holding, Allocs
    <3>2. SumFunctionOnSet(HeldAt(w), Items) = 0
      BY <1>0, <3>1, SumZero
    <3>. QED BY <1>0, <1>1, <3>2
  <2>2. ASSUME NEW i \in Items PROVE consumed[i] = SumFunctionOnSet(LeftFor(i), Scope) /\ consumed[i] <= Ordered
    <3>1. \A w \in Scope : LeftFor(i)[w] = 0
      BY <1>4 DEF LeftFor, Left, Allocs
    <3>2. SumFunctionOnSet(LeftFor(i), Scope) = 0
      BY <1>0, <3>1, SumZero
    <3>. QED BY <1>0, <1>1, <3>2
  <2>. QED BY <2>1, <2>2 DEF AllocatedIsHeld
<1>. QED BY <1>2, <1>8, <1>9, <1>11, <1>12, <1>13 DEF Inv

\* A stutter keeps the invariant.
LEMMA StutterInv ==
    ASSUME Inv, UNCHANGED vars
    PROVE  Inv'
<1>1. UNCHANGED <<bal, layers, reservation, alloc, transfer, consumed, progress, shipment>>
  BY DEF vars
<1>2. StockInv' /\ ReservationsKept /\ ReservedIsCommitted' /\ ShipmentsOK' /\ TransfersOK'
  BY <1>1, InvParts, ReservedSame, ShipmentsSame DEF StockInv, CostFollowsStock, TransfersOK
<1>. QED BY <1>1, <1>2, AllocatedSame

\* No step breaks the invariant.
LEMMA NextInv ==
    ASSUME Inv, Next
    PROVE  Inv'
<1>1. CASE LedgerStep /\ UNCHANGED fulfillmentVars
  <2>1. CASE StockStep
    BY <1>1, <2>1, StockSteps
  <2>2. CASE ReservationStep
    BY <1>1, <2>2, ReservationInv
  <2>3. CASE TransferStep
    BY <1>1, <2>3, TransferInv
  <2>4. CASE \E i \in Items, w \in Scope, q \in Quantities : AllocateFree(i, w, q)
    BY <1>1, <2>4, AllocateFreeInv
  <2>5. CASE \E i \in Items, w \in Scope, q \in Quantities, r \in Reservations : AllocateReserved(i, w, q, r)
    <3>1. progress' = progress /\ shipment' = shipment /\ progress \in [Allocs -> ProgressRows]
      BY <1>1, InvParts DEF AllocRowsOK
    <3>. QED BY <2>5, <3>1, AllocateReservedInv
  <2>6. CASE \E a \in Allocs : ChangeAllocation(a, "allocated", "picked") \/ ChangeAllocation(a, "picked", "allocated")
    BY <1>1, <2>6, ChangeInv
  <2>7. CASE \E a \in Allocs : ReleaseAllocation(a)
    BY <1>1, <2>7, ReleaseInv
  <2>8. CASE \E a \in Allocs : ConsumeForSale(a)
    BY <1>1, <2>8, ConsumeInv
  <2>. QED BY <1>1, <2>1, <2>2, <2>3, <2>4, <2>5, <2>6, <2>7, <2>8 DEF LedgerStep, AllocationStep
<1>2. CASE FulfillmentStep
  <2>1. CASE \E i \in Items, w \in Scope, q \in Quantities : Allocate(i, w, q)
    BY <2>1, AllocateInv
  <2>2. CASE \E a \in Allocs, q \in Quantities : Pick(a, q) \/ Unpick(a, q)
    BY <2>2, PickOrUnpickInv
  <2>3. CASE \E s \in Shipments : \/ \E a \in Allocs, q \in Quantities : CreateShipment(s, a, q)
                                  \/ MarkReady(s)
                                  \/ CancelShipment(s)
    BY <2>3, ShipmentInv
  <2>4. CASE \E s \in Shipments : Handover(s)
    BY <2>4, HandoverInv
  <2>. QED BY <1>2, <2>1, <2>2, <2>3, <2>4 DEF FulfillmentStep
<1>. QED BY <1>1, <1>2 DEF Next

(* The inductive invariant. *)
THEOREM Invariant == Spec => []Inv
<1>1. Init => Inv
  BY InitInv
<1>2. Inv /\ [Next]_vars => Inv'
  BY NextInv, StutterInv
<1>. QED BY <1>1, <1>2, PTL DEF Spec

(* Balances, layers, reservations, allocations, transfers, progress and shipments have    *)
(* their types; no column of a balance is negative, and no reservation gives more away     *)
(* than it holds.                                                                          *)
THEOREM TypeCorrect == Spec => []TypeOK
<1>1. Inv => TypeOK
  BY DEF Inv, StockInv, RowsTypeOK, TypeOK, LedgerTypeOK
<1>. QED BY <1>1, Invariant, PTL

(* Every unit in stock has a cost layer of its bucket, and what is promised is sellable.   *)
THEOREM Costs == Spec => []CostFollowsStock
<1>1. Inv => CostFollowsStock
  BY DEF Inv, StockInv
<1>. QED BY <1>1, Invariant, PTL

(* The reserved column of a warehouse is the sum of what its reservations still commit.    *)
THEOREM Reserved == Spec => []ReservedIsCommitted
<1>1. Inv => ReservedIsCommitted
  BY DEF Inv
<1>. QED BY <1>1, Invariant, PTL

(* The allocated column is the sum of what open allocations hold, and the consumptions of  *)
(* an order item are what left for it, within the order, unless an allocation that was     *)
(* shipped in part was released or consumed by the inventory desk.                         *)
THEOREM Allocated == Spec => []AllocatedIsHeld
<1>1. Inv => AllocatedIsHeld
  BY DEF Inv
<1>. QED BY <1>1, Invariant, PTL
-----------------------------------------------------------------------------
(* Units. *)

OnHandSum == SumFunctionOnSet(OnHand, Warehouses)
UnderWaySum == SumFunctionOnSet(UnderWay, Transfers)

\* What one warehouse gains or loses, the sum over all gains or loses.
LEMMA OnHandMoves ==
    ASSUME StockInv, StockInv', NEW w \in Warehouses, NEW x \in Int, NEW y, NEW z, Moves(w, x, y, z)
    PROVE  OnHandSum \in Nat /\ OnHandSum' \in Nat /\ OnHandSum' = OnHandSum + x
<1>1. PICK f : f = OnHand
  OBVIOUS
<1>2. PICK g : g = OnHand'
  OBVIOUS
<1>3. /\ \A v \in Warehouses : f[v] \in Nat
      /\ \A v \in Warehouses : g[v] \in Nat
      /\ \A v \in Warehouses \ {w} : f[v] = g[v]
      /\ g[w] = f[w] + x
  BY <1>1, <1>2 DEF OnHand, Moves, StockInv, Balances
<1>4. IsFiniteSet(Warehouses) /\ x \in Int
  BY FiniteAssumption
<1>s. /\ SumFunctionOnSet(f, Warehouses) \in Nat /\ SumFunctionOnSet(g, Warehouses) \in Nat
      /\ SumFunctionOnSet(g, Warehouses) + f[w] = SumFunctionOnSet(f, Warehouses) + g[w]
  BY <1>3, <1>4, SumMoves
<1>5. /\ SumFunctionOnSet(f, Warehouses) \in Nat /\ SumFunctionOnSet(g, Warehouses) \in Nat
      /\ SumFunctionOnSet(g, Warehouses) = SumFunctionOnSet(f, Warehouses) + x
  BY <1>3, <1>4, <1>s
<1>. QED BY <1>1, <1>2, <1>5 DEF OnHandSum

\* What one item's order consumes, the sum over all consumes.
LEMMA SoldMoves ==
    ASSUME NEW i \in Items, NEW q \in Nat,
           \A j \in Items : consumed[j] \in Nat, \A j \in Items : consumed'[j] \in Nat,
           \A j \in Items \ {i} : consumed[j] = consumed'[j], consumed'[i] = consumed[i] + q
    PROVE  Sold \in Nat /\ Sold' \in Nat /\ Sold' = Sold + q
<1>1. PICK f : f = consumed
  OBVIOUS
<1>2. PICK g : g = consumed'
  OBVIOUS
<1>3. /\ \A v \in Items : f[v] \in Nat
      /\ \A v \in Items : g[v] \in Nat
      /\ \A v \in Items \ {i} : f[v] = g[v]
      /\ g[i] = f[i] + q
  BY <1>1, <1>2
<1>4. IsFiniteSet(Items) /\ q \in Int
  BY FiniteAssumption
<1>s. /\ SumFunctionOnSet(f, Items) \in Nat /\ SumFunctionOnSet(g, Items) \in Nat
      /\ SumFunctionOnSet(g, Items) + f[i] = SumFunctionOnSet(f, Items) + g[i]
  BY <1>3, <1>4, SumMoves
<1>5. /\ SumFunctionOnSet(f, Items) \in Nat /\ SumFunctionOnSet(g, Items) \in Nat
      /\ SumFunctionOnSet(g, Items) = SumFunctionOnSet(f, Items) + q
  BY <1>3, <1>4, <1>s
<1>. QED BY <1>1, <1>2, <1>5 DEF Sold

\* A transfer changes its status; d more of its units are under way.
LEMMA UnderWayMoves ==
    ASSUME TransfersOK, TransfersOK', NEW t \in Transfers, NEW d \in Int,
           \A u \in Transfers \ {t} : transfer'[u] = transfer[u],
           UnderWay'[t] = UnderWay[t] + d
    PROVE  UnderWaySum \in Nat /\ UnderWaySum' \in Nat /\ UnderWaySum' = UnderWaySum + d
<1>1. PICK f : f = UnderWay
  OBVIOUS
<1>2. PICK g : g = UnderWay'
  OBVIOUS
<1>3. /\ \A v \in Transfers : f[v] \in Nat
      /\ \A v \in Transfers : g[v] \in Nat
      /\ \A v \in Transfers \ {t} : f[v] = g[v]
      /\ g[t] = f[t] + d
  BY <1>1, <1>2 DEF UnderWay, TransfersOK, TransferRows
<1>4. IsFiniteSet(Transfers) /\ d \in Int
  BY FiniteAssumption
<1>s. /\ SumFunctionOnSet(f, Transfers) \in Nat /\ SumFunctionOnSet(g, Transfers) \in Nat
      /\ SumFunctionOnSet(g, Transfers) + f[t] = SumFunctionOnSet(f, Transfers) + g[t]
  BY <1>3, <1>4, SumMoves
<1>5. /\ SumFunctionOnSet(f, Transfers) \in Nat /\ SumFunctionOnSet(g, Transfers) \in Nat
      /\ SumFunctionOnSet(g, Transfers) = SumFunctionOnSet(f, Transfers) + d
  BY <1>3, <1>4, <1>s
<1>. QED BY <1>1, <1>2, <1>5 DEF UnderWaySum

\* The units are those under way and those on hand.
LEMMA UnitsAre ==
    /\ Units = UnderWaySum + OnHandSum
    /\ Units' = UnderWaySum' + OnHandSum'
BY DEF Units, UnderWaySum, OnHandSum

\* Nothing moves.
LEMMA OnHandSame ==
    ASSUME \A v \in Warehouses : bal'[v].onHand = bal[v].onHand
    PROVE  OnHandSum' = OnHandSum
<1>1. OnHand' = OnHand
  BY DEF OnHand
<1>. QED BY <1>1 DEF OnHandSum

\* Steps that move nothing conserve the units.
LEMMA UnitsSame ==
    ASSUME \A v \in Warehouses : bal'[v].onHand = bal[v].onHand, UNCHANGED transfer, UNCHANGED consumed
    PROVE  Units' + Sold' = Units + Sold
<1>1. UnderWaySum' = UnderWaySum /\ Sold' = Sold
  BY DEF UnderWaySum, UnderWay, Sold
<1>. QED BY <1>1, OnHandSame, UnitsAre

\* Units taken out of the stock for an order are consumed by it.
LEMMA TakenUnits ==
    ASSUME Inv, NEW a \in Allocs, NEW q \in Nat, TakeAllocated(a, q)
    PROVE  Units' + Sold' = Units + Sold
<1>1. PICK i \in Items, w \in Scope : a = <<i, w>>
  BY DEF Allocs
<1>2. w \in Warehouses /\ -q \in Int
  BY LedgerAssumption
<1>3. StockInv' /\ Moves(w, -q, 0, -q)
  BY <1>1, InvParts, TakeMoves
<1>4. OnHandSum \in Nat /\ OnHandSum' \in Nat /\ OnHandSum' = OnHandSum + (-q)
  BY <1>2, <1>3, InvParts, OnHandMoves
<1>5. consumed' = [consumed EXCEPT ![i] = @ + q] /\ UNCHANGED transfer
  BY <1>1 DEF TakeAllocated
<1>6. Sold \in Nat /\ Sold' \in Nat /\ Sold' = Sold + q
  <2>1. /\ \A j \in Items : consumed[j] \in Nat
        /\ \A j \in Items : consumed'[j] \in Nat
        /\ \A j \in Items \ {i} : consumed[j] = consumed'[j]
        /\ consumed'[i] = consumed[i] + q
    BY <1>5, InvParts
  <2>. QED BY <2>1, SoldMoves
<1>7. UnderWaySum' = UnderWaySum
  BY <1>5 DEF UnderWaySum, UnderWay
<1>8. UnderWaySum \in Nat
  <2>1. IsFiniteSet(Transfers) /\ \A t \in Transfers : UnderWay[t] \in Nat
    BY InvParts, FiniteAssumption DEF UnderWay, TransfersOK, TransferRows
  <2>. QED BY <2>1, SumFacts DEF UnderWaySum
<1>. QED BY <1>4, <1>6, <1>7, <1>8, UnitsAre

\* A transfer that changes its status keeps its quantity.
LEMMA SetTransferIs ==
    ASSUME TransfersOK, NEW t \in Transfers, NEW from, NEW to, SetTransfer(t, from, to)
    PROVE  /\ \A u \in Transfers \ {t} : transfer'[u] = transfer[u]
           /\ transfer[t].status \in from /\ transfer'[t].status = to
           /\ transfer'[t].quantity = transfer[t].quantity
           /\ transfer[t].quantity \in Nat /\ UNCHANGED consumed
<1>1. PICK o \in TransferRows : o = transfer[t]
  BY DEF TransfersOK
<1>2. PICK row : row = [o EXCEPT !.status = to]
  OBVIOUS
<1>3. row.status = to /\ row.quantity = o.quantity /\ o.quantity \in Nat
  BY <1>2 DEF TransferRows
<1>4. transfer' = [transfer EXCEPT ![t] = row]
  BY <1>1, <1>2 DEF SetTransfer, TransfersOK
<1>. QED BY <1>1, <1>3, <1>4 DEF SetTransfer, TransfersOK

\* A transfer moves units from a warehouse to the road, and from there to a warehouse.
LEMMA TransferUnits ==
    ASSUME Inv, Inv', TransferStep
    PROVE  Units' + Sold' = Units + Sold
<1>0. /\ StockInv /\ StockInv' /\ TransfersOK
  BY InvParts DEF Inv
<1>00. TransfersOK'
  BY DEF Inv, RowsTypeOK, TransfersOK
<1>1. PICK t \in Transfers :
       \/ \E from, to \in Warehouses, q \in 1..MaxTransfer : CreateTransfer(t, from, to, q)
       \/ ApproveTransfer(t)
       \/ CancelTransfer(t)
       \/ ShipTransfer(t)
       \/ ReceiveTransfer(t)
  BY DEF TransferStep
<1>2. \E q \in Int : /\ OnHandSum \in Int /\ OnHandSum' = OnHandSum - q /\ UnderWay'[t] = UnderWay[t] + q
                     /\ \A u \in Transfers \ {t} : transfer'[u] = transfer[u]
                     /\ UNCHANGED consumed
  <2>o. OnHandSum \in Nat
    <3>1. IsFiniteSet(Warehouses) /\ \A v \in Warehouses : OnHand[v] \in Nat
      BY <1>0, FiniteAssumption DEF OnHand, StockInv, Balances
    <3>. QED BY <3>1, SumFacts DEF OnHandSum
  <2>s. ASSUME UNCHANGED bal, UnderWay'[t] = UnderWay[t], UNCHANGED consumed,
               \A u \in Transfers \ {t} : transfer'[u] = transfer[u]
        PROVE  <1>2
    <3>1. OnHandSum' = OnHandSum - 0
      BY <2>o, <2>s, OnHandSame
    <3>2. UnderWay'[t] = UnderWay[t] + 0
      BY <1>0, <2>s DEF UnderWay, TransfersOK, TransferRows
    <3>3. 0 \in Int
      OBVIOUS
    <3>. QED BY <2>o, <2>s, <3>1, <3>2, <3>3
  <2>1. CASE \E from, to \in Warehouses, q \in 1..MaxTransfer : CreateTransfer(t, from, to, q)
    BY <2>1, <2>s, <1>0 DEF CreateTransfer, UnderWay, TransfersOK
  <2>2. CASE ApproveTransfer(t)
    <3>1. SetTransfer(t, {"draft"}, "approved") /\ UNCHANGED bal
      BY <2>2 DEF ApproveTransfer
    <3>2. UnderWay'[t] = UnderWay[t] /\ UNCHANGED consumed /\ \A u \in Transfers \ {t} : transfer'[u] = transfer[u]
      BY <1>0, <3>1, SetTransferIs DEF UnderWay
    <3>. QED BY <2>s, <3>1, <3>2
  <2>3. CASE CancelTransfer(t)
    <3>1. SetTransfer(t, {"draft", "approved"}, "cancelled") /\ UNCHANGED bal
      BY <2>3 DEF CancelTransfer
    <3>2. UnderWay'[t] = UnderWay[t] /\ UNCHANGED consumed /\ \A u \in Transfers \ {t} : transfer'[u] = transfer[u]
      BY <1>0, <3>1, SetTransferIs DEF UnderWay
    <3>. QED BY <2>s, <3>1, <3>2
  <2>4. CASE ShipTransfer(t)
    <3>1. PICK w \in Warehouses, q \in Nat : q = transfer[t].quantity /\ Moves(w, -q, 0, 0)
      BY <2>4, InvParts, ShipMoves
    <3>2. -q \in Int
      OBVIOUS
    <3>3. OnHandSum' = OnHandSum + (-q)
      BY <1>0, <3>1, <3>2, OnHandMoves
    <3>4. SetTransfer(t, {"approved"}, "shipped")
      BY <2>4 DEF ShipTransfer
    <3>5. UnderWay'[t] = UnderWay[t] + q /\ UNCHANGED consumed /\ \A u \in Transfers \ {t} : transfer'[u] = transfer[u]
      BY <1>0, <3>1, <3>4, SetTransferIs DEF UnderWay
    <3>6. OnHandSum' = OnHandSum - q
      BY <2>o, <3>3
    <3>7. q \in Int
      OBVIOUS
    <3>. QED BY <2>o, <3>5, <3>6, <3>7
  <2>5. CASE ReceiveTransfer(t)
    <3>1. PICK w \in Warehouses, q \in Nat : q = transfer[t].quantity /\ Moves(w, q, 0, 0)
      BY <2>5, InvParts, ReceiveMoves
    <3>2. -q \in Int /\ q \in Int
      OBVIOUS
    <3>3. OnHandSum' = OnHandSum + q
      BY <1>0, <3>1, <3>2, OnHandMoves
    <3>4. SetTransfer(t, {"shipped"}, "received")
      BY <2>5 DEF ReceiveTransfer
    <3>5. UnderWay'[t] = UnderWay[t] + (-q) /\ UNCHANGED consumed /\ \A u \in Transfers \ {t} : transfer'[u] = transfer[u]
      BY <1>0, <3>1, <3>4, SetTransferIs DEF UnderWay
    <3>6. OnHandSum' = OnHandSum - (-q)
      BY <2>o, <3>3
    <3>. QED BY <2>o, <3>2, <3>5, <3>6
  <2>. QED BY <1>1, <2>1, <2>2, <2>3, <2>4, <2>5
<1>3. PICK q \in Int : /\ OnHandSum \in Int /\ OnHandSum' = OnHandSum - q /\ UnderWay'[t] = UnderWay[t] + q
                       /\ \A u \in Transfers \ {t} : transfer'[u] = transfer[u]
                       /\ UNCHANGED consumed
  BY <1>2
<1>4. UnderWaySum \in Nat /\ UnderWaySum' = UnderWaySum + q
  BY <1>0, <1>00, <1>3, UnderWayMoves
<1>5. Sold' = Sold
  BY <1>3 DEF Sold
<1>6. UnderWaySum' + OnHandSum' = UnderWaySum + OnHandSum
  BY <1>3, <1>4
<1>. QED BY <1>5, <1>6, UnitsAre

(* What only promises stock moves no units. *)
LEMMA BookKeepsOnHand ==
    ASSUME StockInv, NEW w \in Warehouses, NEW b, Book(w, b), b.onHand = bal[w].onHand
    PROVE  \A v \in Warehouses : bal'[v].onHand = bal[v].onHand
BY BookIs

\* An allocation moves units only when it ships them, to those consumed.
LEMMA AllocationUnits ==
    ASSUME Inv, AllocationStep
    PROVE  Units' + Sold' = Units + Sold
<1>0. StockInv /\ Scope \subseteq Warehouses /\ \A w \in Warehouses : bal[w] \in Balances
  BY InvParts, LedgerAssumption DEF StockInv
<1>1. CASE \E i \in Items, w \in Scope, q \in Quantities : AllocateFree(i, w, q)
  <2>1. PICK i \in Items, w \in Scope, q \in Quantities : AllocateFree(i, w, q)
    BY <1>1
  <2>2. PICK b : b = [bal[w] EXCEPT !.allocated = @ + q]
    OBVIOUS
  <2>3. Book(w, b) /\ w \in Warehouses /\ UNCHANGED transfer /\ UNCHANGED consumed
    BY <1>0, <2>1, <2>2 DEF AllocateFree, CreateAllocation
  <2>4. b.onHand = bal[w].onHand
    BY <1>0, <2>2, <2>3 DEF Balances
  <2>. QED BY <1>0, <2>3, <2>4, BookKeepsOnHand, UnitsSame
<1>2. CASE \E i \in Items, w \in Scope, q \in Quantities, r \in Reservations : AllocateReserved(i, w, q, r)
  <2>1. PICK i \in Items, w \in Scope, q \in Quantities, r \in Reservations : AllocateReserved(i, w, q, r)
    BY <1>2
  <2>2. PICK b : b = [bal[w] EXCEPT !.reserved = @ - q, !.allocated = @ + q]
    OBVIOUS
  <2>3. Book(w, b) /\ w \in Warehouses /\ UNCHANGED transfer /\ UNCHANGED consumed
    BY <1>0, <2>1, <2>2 DEF AllocateReserved, CreateAllocation
  <2>4. b.onHand = bal[w].onHand
    BY <1>0, <2>2, <2>3 DEF Balances
  <2>. QED BY <1>0, <2>3, <2>4, BookKeepsOnHand, UnitsSame
<1>3. CASE \E a \in Allocs : ChangeAllocation(a, "allocated", "picked") \/ ChangeAllocation(a, "picked", "allocated")
  BY <1>3, UnitsSame DEF ChangeAllocation
<1>4. CASE \E a \in Allocs : ReleaseAllocation(a)
  <2>1. PICK a \in Allocs : ReleaseAllocation(a)
    BY <1>4
  <2>2. PICK w \in Scope : w = a[2]
    BY DEF Allocs
  <2>3. PICK y, q, b : b = [bal[w] EXCEPT !.allocated = @ - q, !.reserved = @ + y] /\ Book(w, b)
    BY <2>1, <2>2 DEF ReleaseAllocation
  <2>4. w \in Warehouses /\ UNCHANGED transfer /\ UNCHANGED consumed
    BY <1>0, <2>1 DEF ReleaseAllocation
  <2>5. b.onHand = bal[w].onHand
    BY <1>0, <2>3, <2>4 DEF Balances
  <2>. QED BY <1>0, <2>3, <2>4, <2>5, BookKeepsOnHand, UnitsSame
<1>5. CASE \E a \in Allocs : ConsumeForSale(a)
  <2>1. PICK a \in Allocs : ConsumeForSale(a)
    BY <1>5
  <2>2. PICK q \in Nat : q = alloc[a].quantity
    BY InvParts DEF AllocRowsOK, AllocRows
  <2>3. TakeAllocated(a, q)
    BY <2>1, <2>2 DEF ConsumeForSale
  <2>. QED BY <2>3, TakenUnits
<1>. QED BY <1>1, <1>2, <1>3, <1>4, <1>5 DEF AllocationStep

\* So do the steps of the fulfillment desk.
LEMMA FulfillmentUnits ==
    ASSUME Inv, FulfillmentStep
    PROVE  Units' + Sold' = Units + Sold
<1>1. CASE \E i \in Items, w \in Scope, q \in Quantities : Allocate(i, w, q)
  <2>1. \E i \in Items, w \in Scope, q \in Quantities, r \in Reservations : AllocateReserved(i, w, q, r)
    BY <1>1, OrderAssumption DEF Allocate
  <2>. QED BY <2>1, AllocationUnits DEF AllocationStep
<1>2. CASE \E a \in Allocs, q \in Quantities : Pick(a, q) \/ Unpick(a, q)
  BY <1>2, UnitsSame DEF Pick, Unpick
<1>3. CASE \E s \in Shipments : \/ \E a \in Allocs, q \in Quantities : CreateShipment(s, a, q)
                                \/ MarkReady(s)
                                \/ CancelShipment(s)
  BY <1>3, UnitsSame DEF CreateShipment, MarkReady, CancelShipment
<1>4. CASE \E s \in Shipments : Handover(s)
  <2>1. PICK s \in Shipments : Handover(s)
    BY <1>4
  <2>2. PICK a \in Allocs, q \in Nat : a = shipment[s].of /\ q = shipment[s].quantity
    BY <2>1, InvParts DEF Handover, ShipmentsOK, ShipmentRows
  <2>3. TakeAllocated(a, q)
    BY <2>1, <2>2 DEF Handover, ConsumeForShipment
  <2>. QED BY <2>3, TakenUnits
<1>. QED BY <1>1, <1>2, <1>3, <1>4 DEF FulfillmentStep

(* Every step other than a count, a receipt, a return to the supplier, a disposal or a     *)
(* sale over the counter keeps the units on hand, under way and consumed, all together.    *)
THEOREM Conserved == Spec => UnitsAreConserved
<1>1. ASSUME Inv, Inv', Next PROVE KeepPromises \/ Units' + Sold' = Units + Sold
  <2>1. CASE StockStep
    BY <2>1 DEF StockStep, SetAside, RemoveAside, ReleaseQuarantine, RemoveFree, ReceiveGoods
  <2>2. CASE ReservationStep
    <3>1. \E w \in Warehouses, k \in Int : Moves(w, 0, k, 0)
      BY <1>1, <2>2, InvParts, ReservationSteps
    <3>2. \A v \in Warehouses : bal'[v].onHand = bal[v].onHand
      BY <1>1, <3>1, MovedSame
    <3>3. UNCHANGED transfer /\ UNCHANGED consumed
      BY <2>2 DEF ReservationStep, Reserve, BeginPayment, Release, ReleaseConvertedCommitment, GiveUp,
             MarkLatePaymentReview, Convert, KeepRest
    <3>. QED BY <3>2, <3>3, UnitsSame
  <2>3. CASE AllocationStep
    BY <1>1, <2>3, AllocationUnits
  <2>4. CASE TransferStep
    BY <1>1, <2>4, TransferUnits
  <2>5. CASE FulfillmentStep
    BY <1>1, <2>5, FulfillmentUnits
  <2>. QED BY <1>1, <2>1, <2>2, <2>3, <2>4, <2>5 DEF Next, LedgerStep
<1>2. Inv /\ Inv' /\ [Next]_vars => [KeepPromises \/ Units' + Sold' = Units + Sold]_vars
  BY <1>1
<1>. QED BY <1>2, Invariant, PTL DEF Spec, UnitsAreConserved
=============================================================================
