--------------------------- MODULE EnforcementProofs ---------------------------
(***************************************************************************)
(* Proofs about OrbitopeEnforcement, for matrices of every size: the       *)
(* inequalities hold in the orbitope, those of packing type are violated   *)
(* by the solution, and the check accepts the orbitope and nothing else.   *)
(***************************************************************************)
EXTENDS OrbitopeEnforcement, FiniteSetTheorems, SequenceTheorems, WellFoundedInduction, TLAPS

-------------------------------------------------------------------------------
(***************************************************************************)
(* Least numbers and smallest sets.                                        *)
(***************************************************************************)

(* A set of natural numbers that is not empty has a smallest element. *)
LEMMA MinIsLeast ==
  ASSUME NEW S, S \subseteq Nat, S # {}
  PROVE  \E x \in S : \A y \in S : x <= y
<1> DEFINE R == {ss \in Nat \X Nat : ss[1] < ss[2]}
<1>1. IsWellFoundedOn(R, Nat)
  BY NatLessThanWellFounded DEF OpToRel
<1>2. PICK x \in S : \A y \in S : ~(<<y, x>> \in R)
  BY <1>1, WFMin
<1>3. ASSUME NEW y \in S PROVE x <= y
  <2>1. ~(<<y, x>> \in R) /\ x \in Nat /\ y \in Nat
    BY <1>2
  <2>2. x > y => <<y, x>> \in R
    BY <2>1
  <2> QED BY <2>1, <2>2
<1> QED BY <1>2, <1>3

(* Of finite sets, one has no other of them inside. *)
LEMMA SmallestSet ==
  ASSUME NEW D, IsFiniteSet(D), NEW B, B \subseteq SUBSET D, B # {}
  PROVE  \E T \in B : \A U \in SUBSET T : U # T => U \notin B
<1> DEFINE N == {Cardinality(T) : T \in B}
<1>1. \A T \in SUBSET D : IsFiniteSet(T) /\ Cardinality(T) \in Nat
  BY FS_Subset, FS_CardinalityType
<1>2. PICK n \in N : \A k \in N : n <= k
  <2>1. N \subseteq Nat /\ N # {}
    BY <1>1
  <2> HIDE DEF N
  <2> QED BY <2>1, MinIsLeast
<1>3. PICK T \in B : Cardinality(T) = n
  BY <1>2
<1>4. ASSUME NEW U \in SUBSET T, U # T, U \in B PROVE FALSE
  <2>1. n <= Cardinality(U)
    BY <1>2, <1>4
  <2>2. Cardinality(U) <= Cardinality(T) /\ (Cardinality(T) = Cardinality(U) => T = U)
    BY <1>1, <1>3, FS_Subset
  <2>3. Cardinality(T) \in Nat /\ Cardinality(U) \in Nat
    BY <1>1, <1>3, <1>4
  <2> QED BY <1>3, <1>4, <2>1, <2>2, <2>3
<1> QED BY <1>4

-------------------------------------------------------------------------------
(***************************************************************************)
(* Sums over finite sets.                                                  *)
(***************************************************************************)

(* The element that a sum takes first. *)
Pick(E) == CHOOSE x \in E : TRUE

(* F holds the sums of v over the sets in S. *)
Sums(F, v, S) ==
  F = [s \in S |-> IF s = {} THEN 0 ELSE v[Pick(s)] + F[s \ {Pick(s)}]]

LEMMA PickIn == ASSUME NEW E, E # {} PROVE Pick(E) \in E
BY DEF Pick

LEMMA SumsExist ==
  ASSUME NEW D, IsFiniteSet(D), NEW v
  PROVE  \E F : Sums(F, v, SUBSET D)
<1> DEFINE Upto(k) == {s \in SUBSET D : Cardinality(s) <= k}
           Bad == {k \in Nat : ~\E F : Sums(F, v, Upto(k))}
<1>1. \A s \in SUBSET D : IsFiniteSet(s) /\ Cardinality(s) \in Nat
                            /\ Cardinality(s) <= Cardinality(D)
  BY FS_Subset, FS_CardinalityType
<1>2. ASSUME Bad # {} PROVE FALSE
  <2>1. PICK k \in Bad : \A h \in Bad : k <= h
    <3>1. Bad \subseteq Nat
      OBVIOUS
    <3> HIDE DEF Bad
    <3> QED BY <1>2, <3>1, MinIsLeast
  <2>2. k \in Nat /\ ~\E F : Sums(F, v, Upto(k))
    BY <2>1
  <2>3. CASE k = 0
    <3> DEFINE F == [s \in Upto(0) |-> 0]
    <3>1. \A s \in Upto(0) : s = {}
      BY <1>1, FS_EmptySet
    <3>2. F = [s \in Upto(0) |-> IF s = {} THEN 0 ELSE v[Pick(s)] + F[s \ {Pick(s)}]]
      BY <3>1
    <3> HIDE DEF F
    <3>3. Sums(F, v, Upto(0))
      BY <3>2 DEF Sums
    <3> QED BY <2>2, <2>3, <3>3
  <2>4. CASE k # 0
    <3>1. k - 1 \in Nat /\ ~(k <= k - 1)
      BY <2>2, <2>4
    <3>2. PICK G : Sums(G, v, Upto(k - 1))
      <4>1. k - 1 \notin Bad
        BY <2>1, <3>1
      <4> QED BY <3>1, <4>1
    <3> DEFINE E(H, s) == IF s = {} THEN 0 ELSE v[Pick(s)] + H[s \ {Pick(s)}]
               F == [s \in Upto(k) |-> E(G, s)]
    <3>3. G = [s \in Upto(k - 1) |-> E(G, s)]
      BY <3>2 DEF Sums
    <3>4. ASSUME NEW s \in Upto(k), s # {}
          PROVE  s \ {Pick(s)} \in Upto(k - 1) /\ s \ {Pick(s)} \in Upto(k)
      <4>1. Pick(s) \in s
        BY <3>4, PickIn
      <4>2. Cardinality(s \ {Pick(s)}) = Cardinality(s) - 1 /\ s \ {Pick(s)} \in SUBSET D
        BY <1>1, <4>1, FS_RemoveElement
      <4>3. Cardinality(s) \in Nat /\ Cardinality(s) <= k
        BY <1>1
      <4> QED BY <2>2, <3>1, <4>2, <4>3
    <3>5. ASSUME NEW s \in Upto(k) PROVE F[s] = E(F, s)
      <4>1. CASE s = {}
        BY <4>1
      <4>2. CASE s # {}
        <5> DEFINE t == s \ {Pick(s)}
        <5>1. t \in Upto(k - 1) /\ t \in Upto(k)
          BY <3>4, <4>2
        <5>2. F[t] = E(G, t) /\ F[s] = E(G, s)
          BY <5>1
        <5> HIDE DEF t, F
        <5>3. G[t] = E(G, t)
          <6> HIDE DEF E, Upto
          <6> QED BY <3>3, <5>1
        <5> QED BY <4>2, <5>2, <5>3 DEF t
      <4> QED BY <4>1, <4>2
    <3>6. F = [s \in Upto(k) |-> F[s]]
      OBVIOUS
    <3> HIDE DEF F
    <3>7. F = [s \in Upto(k) |-> E(F, s)]
      <4> HIDE DEF E, Upto
      <4> QED BY <3>5, <3>6
    <3>8. Sums(F, v, Upto(k))
      BY <3>7 DEF Sums
    <3> QED BY <2>2, <3>8
  <2> QED BY <2>3, <2>4
<1>3. Cardinality(D) \in Nat
  BY FS_CardinalityType
<1>4. \E F : Sums(F, v, Upto(Cardinality(D)))
  BY <1>2, <1>3
<1>5. Upto(Cardinality(D)) = SUBSET D
  BY <1>1
<1> QED BY <1>4, <1>5

(* Two such functions agree where both are defined. *)
LEMMA SumsAgree ==
  ASSUME NEW D, IsFiniteSet(D), NEW E, E \subseteq D, NEW v, NEW F, NEW G,
         Sums(F, v, SUBSET D), Sums(G, v, SUBSET E)
  PROVE  F[E] = G[E]
<1> DEFINE B == {s \in SUBSET E : F[s] # G[s]}
<1>1. ASSUME B # {} PROVE FALSE
  <2>1. PICK T \in B : \A U \in SUBSET T : U # T => U \notin B
    <3>1. IsFiniteSet(E) /\ B \subseteq SUBSET E
      BY FS_Subset
    <3> HIDE DEF B
    <3> QED BY <1>1, <3>1, SmallestSet
  <2>2. T \in SUBSET E /\ T \in SUBSET D /\ F[T] # G[T]
    BY <2>1
  <2>3. /\ F[T] = IF T = {} THEN 0 ELSE v[Pick(T)] + F[T \ {Pick(T)}]
        /\ G[T] = IF T = {} THEN 0 ELSE v[Pick(T)] + G[T \ {Pick(T)}]
    BY <2>2 DEF Sums
  <2>4. T # {}
    BY <2>2, <2>3
  <2>5. F[T \ {Pick(T)}] = G[T \ {Pick(T)}]
    <3>1. Pick(T) \in T
      BY <2>4, PickIn
    <3>2. T \ {Pick(T)} \in SUBSET T /\ T \ {Pick(T)} # T
      BY <3>1
    <3> QED BY <2>1, <2>2, <3>2
  <2> QED BY <2>2, <2>3, <2>4, <2>5
<1> QED BY <1>1

(* The sum is the value of such a function. *)
LEMMA SumIs ==
  ASSUME NEW D, IsFiniteSet(D), NEW v, NEW F, Sums(F, v, SUBSET D), NEW E, E \subseteq D
  PROVE  Sum(v, E) = F[E]
<1> DEFINE G == CHOOSE g : g = [s \in SUBSET E |->
                  IF s = {} THEN 0
                  ELSE v[CHOOSE x \in s : TRUE] + g[s \ {CHOOSE x \in s : TRUE}]]
<1>1. Sum(v, E) = G[E]
  BY Zenon DEF Sum, MapThenSumSet, MapThenFoldSet
<1>2. IsFiniteSet(E)
  BY FS_Subset
<1>3. PICK g : Sums(g, v, SUBSET E)
  BY <1>2, SumsExist
<1>4. g = [s \in SUBSET E |->
             IF s = {} THEN 0
             ELSE v[CHOOSE x \in s : TRUE] + g[s \ {CHOOSE x \in s : TRUE}]]
  BY <1>3, Zenon DEF Sums, Pick
<1>5. G = [s \in SUBSET E |->
             IF s = {} THEN 0
             ELSE v[CHOOSE x \in s : TRUE] + G[s \ {CHOOSE x \in s : TRUE}]]
  BY <1>4, Zenon
<1> HIDE DEF G
<1>6. Sums(G, v, SUBSET E)
  BY <1>5, Zenon DEF Sums, Pick
<1> QED BY <1>1, <1>6, SumsAgree
LEMMA SumEmpty == ASSUME NEW v PROVE Sum(v, {}) = 0
<1>1. IsFiniteSet({})
  BY FS_EmptySet
<1>2. PICK F : Sums(F, v, SUBSET {})
  BY <1>1, SumsExist
<1>3. F[{}] = 0
  BY <1>2 DEF Sums
<1> QED BY <1>1, <1>2, <1>3, SumIs

LEMMA SumUnfolds ==
  ASSUME NEW E, IsFiniteSet(E), E # {}, NEW v
  PROVE  Sum(v, E) = v[Pick(E)] + Sum(v, E \ {Pick(E)})
<1>1. PICK F : Sums(F, v, SUBSET E)
  BY SumsExist
<1>2. F[E] = v[Pick(E)] + F[E \ {Pick(E)}]
  BY <1>1 DEF Sums
<1>3. Sum(v, E) = F[E] /\ Sum(v, E \ {Pick(E)}) = F[E \ {Pick(E)}]
  BY <1>1, SumIs
<1> QED BY <1>2, <1>3

(* The sums of numbers are numbers, those of natural numbers natural. *)
LEMMA SumType ==
  ASSUME NEW E, IsFiniteSet(E), NEW v, NEW S \in {Int, Nat}, \A e \in E : v[e] \in S
  PROVE  Sum(v, E) \in S
<1> DEFINE B == {T \in SUBSET E : Sum(v, T) \notin S}
<1>1. ASSUME B # {} PROVE FALSE
  <2>1. PICK T \in B : \A U \in SUBSET T : U # T => U \notin B
    <3>1. B \subseteq SUBSET E
      OBVIOUS
    <3> HIDE DEF B
    <3> QED BY <1>1, <3>1, SmallestSet
  <2>2. T \in SUBSET E /\ Sum(v, T) \notin S /\ IsFiniteSet(T)
    BY <2>1, FS_Subset
  <2>3. T # {}
    BY <2>2, SumEmpty
  <2>4. Pick(T) \in T
    BY <2>3, PickIn
  <2>5. Sum(v, T) = v[Pick(T)] + Sum(v, T \ {Pick(T)})
    BY <2>2, <2>3, SumUnfolds
  <2>6. Sum(v, T \ {Pick(T)}) \in S
    <3>1. T \ {Pick(T)} \in SUBSET T /\ T \ {Pick(T)} # T
      BY <2>4
    <3> QED BY <2>1, <2>2, <3>1
  <2>7. v[Pick(T)] \in S
    BY <2>2, <2>4
  <2> QED BY <2>2, <2>5, <2>6, <2>7
<1> QED BY <1>1

(* The sum does not depend on which element comes first. *)
LEMMA SumTakes ==
  ASSUME NEW E, IsFiniteSet(E), NEW v, \A e \in E : v[e] \in Int, NEW a \in E
  PROVE  Sum(v, E) = v[a] + Sum(v, E \ {a})
<1> DEFINE B == {T \in SUBSET E : ~\A x \in T : Sum(v, T) = v[x] + Sum(v, T \ {x})}
<1>1. ASSUME B # {} PROVE FALSE
  <2>1. PICK T \in B : \A U \in SUBSET T : U # T => U \notin B
    <3>1. B \subseteq SUBSET E
      OBVIOUS
    <3> HIDE DEF B
    <3> QED BY <1>1, <3>1, SmallestSet
  <2>2. T \in SUBSET E /\ IsFiniteSet(T)
    BY <2>1, FS_Subset
  <2>3. PICK x \in T : Sum(v, T) # v[x] + Sum(v, T \ {x})
    BY <2>1
  <2> DEFINE p == Pick(T)
             W == T \ {p, x}
  <2>4. p \in T
    BY <2>3, PickIn
  <2>5. Sum(v, T) = v[p] + Sum(v, T \ {p})
    BY <2>2, <2>3, SumUnfolds
  <2>6. p # x
    BY <2>3, <2>5
  <2> HIDE DEF p
  <2>7. T \ {p} \notin B /\ T \ {x} \notin B
    BY <2>1, <2>3, <2>4
  <2>8. T \ {p} \in SUBSET E /\ T \ {x} \in SUBSET E /\ W \in SUBSET E
    BY <2>2
  <2>9. Sum(v, T \ {p}) = v[x] + Sum(v, (T \ {p}) \ {x})
    BY <2>3, <2>6, <2>7, <2>8
  <2>10. Sum(v, T \ {x}) = v[p] + Sum(v, (T \ {x}) \ {p})
    BY <2>4, <2>6, <2>7, <2>8
  <2>11. (T \ {p}) \ {x} = W /\ (T \ {x}) \ {p} = W
    OBVIOUS
  <2>12. Sum(v, W) \in Int /\ v[x] \in Int /\ v[p] \in Int
    <3>1. IsFiniteSet(W) /\ \A e \in W : v[e] \in Int
      BY <2>8, FS_Subset
    <3>2. Sum(v, W) \in Int
      <4> HIDE DEF W
      <4> QED BY <3>1, SumType
    <3> QED BY <2>2, <2>3, <2>4, <3>2
  <2>13. Sum(v, T) = v[p] + (v[x] + Sum(v, W)) /\ Sum(v, T \ {x}) = v[p] + Sum(v, W)
    BY <2>5, <2>9, <2>10, <2>11
  <2> HIDE DEF B, W
  <2>14. v[p] + (v[x] + Sum(v, W)) = v[x] + (v[p] + Sum(v, W))
    BY <2>12
  <2> QED BY <2>3, <2>13, <2>14
<1> QED BY <1>1

LEMMA SumAdds ==
  ASSUME NEW E, IsFiniteSet(E), NEW v, NEW a, a \notin E, \A e \in E \cup {a} : v[e] \in Int
  PROVE  Sum(v, E \cup {a}) = v[a] + Sum(v, E)
<1>1. IsFiniteSet(E \cup {a}) /\ (E \cup {a}) \ {a} = E
  BY FS_AddElement
<1> QED BY <1>1, SumTakes

LEMMA SumOne == ASSUME NEW v, NEW a, v[a] \in Int PROVE Sum(v, {a}) = v[a]
<1>1. IsFiniteSet({a}) /\ {a} \ {a} = {}
  BY FS_Singleton
<1>2. Sum(v, {a}) = v[a] + Sum(v, {a} \ {a})
  BY <1>1, SumTakes
<1> QED BY <1>1, <1>2, SumEmpty

LEMMA SumSplits ==
  ASSUME NEW A, IsFiniteSet(A), NEW B, IsFiniteSet(B), A \cap B = {}, NEW v,
         \A e \in A \cup B : v[e] \in Int
  PROVE  Sum(v, A \cup B) = Sum(v, A) + Sum(v, B)
<1> DEFINE Z == {T \in SUBSET A : Sum(v, T \cup B) # Sum(v, T) + Sum(v, B)}
<1>1. ASSUME Z # {} PROVE FALSE
  <2>1. PICK T \in Z : \A U \in SUBSET T : U # T => U \notin Z
    <3>1. Z \subseteq SUBSET A
      OBVIOUS
    <3> HIDE DEF Z
    <3> QED BY <1>1, <3>1, SmallestSet
  <2>2. T \in SUBSET A /\ IsFiniteSet(T) /\ Sum(v, T \cup B) # Sum(v, T) + Sum(v, B)
    BY <2>1, FS_Subset
  <2>3. Sum(v, B) \in Int
    BY SumType
  <2>4. T # {}
    <3>1. {} \cup B = B
      OBVIOUS
    <3> QED BY <2>2, <2>3, <3>1, SumEmpty
  <2>5. PICK a \in T : TRUE
    BY <2>4
  <2> DEFINE U == T \ {a}
  <2>6. Sum(v, U \cup B) = Sum(v, U) + Sum(v, B)
    <3>1. U \in SUBSET T /\ U # T
      BY <2>5
    <3> QED BY <2>1, <2>2, <3>1
  <2>7. Sum(v, T) = v[a] + Sum(v, U)
    BY <2>2, <2>5, SumTakes
  <2>8. Sum(v, T \cup B) = v[a] + Sum(v, U \cup B)
    <3>1. IsFiniteSet(U \cup B) /\ a \notin U \cup B
      BY <2>2, <2>5, FS_RemoveElement, FS_Union
    <3>2. \A e \in (U \cup B) \cup {a} : v[e] \in Int
      BY <2>2, <2>5
    <3>3. (U \cup B) \cup {a} = T \cup B
      BY <2>5
    <3> HIDE DEF U
    <3>4. Sum(v, (U \cup B) \cup {a}) = v[a] + Sum(v, U \cup B)
      BY <3>1, <3>2, SumAdds
    <3> QED BY <3>3, <3>4
  <2>9. Sum(v, U) \in Int
    <3>1. IsFiniteSet(U) /\ \A e \in U : v[e] \in Int
      BY <2>2, FS_RemoveElement
    <3> HIDE DEF U
    <3> QED BY <3>1, SumType
  <2>10. v[a] \in Int
    BY <2>2, <2>5
  <2> QED BY <2>2, <2>3, <2>6, <2>7, <2>8, <2>9, <2>10
<1>2. A \notin Z
  BY <1>1
<1> QED BY <1>2
LEMMA SumSame ==
  ASSUME NEW E, IsFiniteSet(E), NEW v, NEW w, \A e \in E : v[e] = w[e]
  PROVE  Sum(v, E) = Sum(w, E)
<1> DEFINE Z == {T \in SUBSET E : Sum(v, T) # Sum(w, T)}
<1>1. ASSUME Z # {} PROVE FALSE
  <2>1. PICK T \in Z : \A U \in SUBSET T : U # T => U \notin Z
    <3>1. Z \subseteq SUBSET E
      OBVIOUS
    <3> HIDE DEF Z
    <3> QED BY <1>1, <3>1, SmallestSet
  <2>2. T \in SUBSET E /\ IsFiniteSet(T) /\ Sum(v, T) # Sum(w, T)
    BY <2>1, FS_Subset
  <2>3. T # {}
    BY <2>2, SumEmpty
  <2>4. Pick(T) \in T
    BY <2>3, PickIn
  <2>5. Sum(v, T \ {Pick(T)}) = Sum(w, T \ {Pick(T)})
    <3>1. T \ {Pick(T)} \in SUBSET T /\ T \ {Pick(T)} # T
      BY <2>4
    <3> QED BY <2>1, <2>2, <3>1
  <2>6. v[Pick(T)] = w[Pick(T)]
    BY <2>2, <2>4
  <2> QED BY <2>2, <2>3, <2>5, <2>6, SumUnfolds
<1> QED BY <1>1

LEMMA SumNegated ==
  ASSUME NEW E, IsFiniteSet(E), NEW v, NEW w,
         \A e \in E : v[e] \in Int /\ w[e] = -v[e]
  PROVE  Sum(w, E) = -Sum(v, E)
<1> DEFINE Z == {T \in SUBSET E : Sum(w, T) # -Sum(v, T)}
<1>1. ASSUME Z # {} PROVE FALSE
  <2>1. PICK T \in Z : \A U \in SUBSET T : U # T => U \notin Z
    <3>1. Z \subseteq SUBSET E
      OBVIOUS
    <3> HIDE DEF Z
    <3> QED BY <1>1, <3>1, SmallestSet
  <2>2. T \in SUBSET E /\ IsFiniteSet(T) /\ Sum(w, T) # -Sum(v, T)
    BY <2>1, FS_Subset
  <2>3. T # {}
    BY <2>2, SumEmpty
  <2> DEFINE p == Pick(T)
             U == T \ {p}
  <2>4. p \in T
    BY <2>3, PickIn
  <2>5. Sum(w, U) = -Sum(v, U)
    <3>1. U \in SUBSET T /\ U # T
      BY <2>4
    <3> QED BY <2>1, <2>2, <3>1
  <2>6. v[p] \in Int /\ w[p] = -v[p]
    BY <2>2, <2>4
  <2>7. Sum(v, T) = v[p] + Sum(v, U) /\ Sum(w, T) = w[p] + Sum(w, U)
    BY <2>2, <2>3, SumUnfolds
  <2>8. Sum(v, U) \in Int
    <3>1. IsFiniteSet(U) /\ \A e \in U : v[e] \in Int
      BY <2>2, FS_RemoveElement
    <3> HIDE DEF U
    <3> QED BY <3>1, SumType
  <2> HIDE DEF p, U, Z
  <2> QED BY <2>2, <2>5, <2>6, <2>7, <2>8
<1> QED BY <1>1

(* Fewer natural numbers have a smaller sum. *)
LEMMA SumGrows ==
  ASSUME NEW B, IsFiniteSet(B), NEW A, A \subseteq B, NEW v, \A e \in B : v[e] \in Nat
  PROVE  Sum(v, A) <= Sum(v, B) /\ Sum(v, A) \in Nat /\ Sum(v, B) \in Nat
<1>1. IsFiniteSet(A) /\ IsFiniteSet(B \ A) /\ A \cap (B \ A) = {} /\ A \cup (B \ A) = B
  BY FS_Subset
<1>2. \A e \in A \cup (B \ A) : v[e] \in Int
  BY <1>1
<1>3. Sum(v, B) = Sum(v, A) + Sum(v, B \ A)
  <2>1. Sum(v, A \cup (B \ A)) = Sum(v, A) + Sum(v, B \ A)
    BY <1>1, <1>2, SumSplits
  <2> QED BY <1>1, <2>1
<1>4. Sum(v, A) \in Nat /\ Sum(v, B \ A) \in Nat
  <2>1. \A e \in A : v[e] \in Nat
    OBVIOUS
  <2>2. \A e \in B \ A : v[e] \in Nat
    OBVIOUS
  <2> QED BY <1>1, <2>1, <2>2, SumType
<1> QED BY <1>3, <1>4

LEMMA SumAbove ==
  ASSUME NEW E, IsFiniteSet(E), NEW v, \A e \in E : v[e] \in Nat, NEW a \in E
  PROVE  v[a] <= Sum(v, E)
<1>1. {a} \subseteq E /\ v[a] \in Int
  OBVIOUS
<1>2. Sum(v, {a}) <= Sum(v, E)
  BY <1>1, SumGrows
<1> QED BY <1>1, <1>2, SumOne

(* A sum is zero if its numbers are. *)
LEMMA SumZero ==
  ASSUME NEW E, IsFiniteSet(E), NEW v, \A e \in E : v[e] = 0
  PROVE  Sum(v, E) = 0
<1> DEFINE Z == {T \in SUBSET E : Sum(v, T) # 0}
<1>1. ASSUME Z # {} PROVE FALSE
  <2>1. PICK T \in Z : \A U \in SUBSET T : U # T => U \notin Z
    <3>1. Z \subseteq SUBSET E
      OBVIOUS
    <3> HIDE DEF Z
    <3> QED BY <1>1, <3>1, SmallestSet
  <2>2. T \in SUBSET E /\ IsFiniteSet(T) /\ Sum(v, T) # 0
    BY <2>1, FS_Subset
  <2>3. T # {}
    BY <2>2, SumEmpty
  <2>4. Pick(T) \in T
    BY <2>3, PickIn
  <2>5. Sum(v, T \ {Pick(T)}) = 0
    <3>1. T \ {Pick(T)} \in SUBSET T /\ T \ {Pick(T)} # T
      BY <2>4
    <3> QED BY <2>1, <2>2, <3>1
  <2>6. v[Pick(T)] = 0
    BY <2>2, <2>4
  <2>7. Sum(v, T) = 0 + 0
    BY <2>2, <2>3, <2>5, <2>6, SumUnfolds
  <2> QED BY <2>2, <2>7
<1> QED BY <1>1

(* The activity of a cut is a sum as well. *)
Terms(cut, v) == [e \in DOMAIN cut.coef |-> cut.coef[e] * v[e]]

LEMMA ActivityIsSum ==
  ASSUME NEW cut, NEW v, IsFiniteSet(DOMAIN cut.coef)
  PROVE  Activity(cut, v) = Sum(Terms(cut, v), DOMAIN cut.coef)
<1> DEFINE E == DOMAIN cut.coef
           G == CHOOSE g : g = [s \in SUBSET E |->
                  IF s = {} THEN 0
                  ELSE cut.coef[CHOOSE x \in s : TRUE] * v[CHOOSE x \in s : TRUE]
                         + g[s \ {CHOOSE x \in s : TRUE}]]
<1>1. Activity(cut, v) = G[E]
  BY Zenon DEF Activity, MapThenSumSet, MapThenFoldSet
<1>2. PICK g : Sums(g, Terms(cut, v), SUBSET E)
  BY SumsExist
<1>3. ASSUME NEW s \in SUBSET E, s # {}
      PROVE  Terms(cut, v)[Pick(s)] = cut.coef[Pick(s)] * v[Pick(s)]
  <2>1. Pick(s) \in E
    BY <1>3, PickIn
  <2> QED BY <2>1 DEF Terms
<1> HIDE DEF E
<1>4. g = [s \in SUBSET E |->
             IF s = {} THEN 0 ELSE cut.coef[Pick(s)] * v[Pick(s)] + g[s \ {Pick(s)}]]
  BY <1>2, <1>3 DEF Sums
<1>5. g = [s \in SUBSET E |->
             IF s = {} THEN 0
             ELSE cut.coef[CHOOSE x \in s : TRUE] * v[CHOOSE x \in s : TRUE]
                    + g[s \ {CHOOSE x \in s : TRUE}]]
  BY <1>4, Zenon DEF Pick
<1>6. G = [s \in SUBSET E |->
             IF s = {} THEN 0
             ELSE cut.coef[CHOOSE x \in s : TRUE] * v[CHOOSE x \in s : TRUE]
                    + G[s \ {CHOOSE x \in s : TRUE}]]
  BY <1>5, Zenon
<1> HIDE DEF G
<1>7. G = [s \in SUBSET E |->
             IF s = {} THEN 0 ELSE cut.coef[Pick(s)] * v[Pick(s)] + G[s \ {Pick(s)}]]
  BY <1>6, Zenon DEF Pick
<1>8. Sums(G, Terms(cut, v), SUBSET E)
  BY <1>3, <1>7 DEF Sums
<1>9. Sum(Terms(cut, v), E) = G[E]
  BY <1>8, SumIs DEF E
<1> QED BY <1>1, <1>9 DEF E

-------------------------------------------------------------------------------
(***************************************************************************)
(* Matrices, and the table of shifted columns.                             *)
(***************************************************************************)
Cells(m, n) == (0 .. m - 1) \X (0 .. n - 1)

(* A matrix of natural numbers with m rows and n columns. *)
Shape(v, m, n) == m \in Nat \ {0} /\ n \in Nat \ {0} /\ v \in [Cells(m, n) -> Nat]

LEMMA Size ==
  ASSUME NEW m \in Nat \ {0}, NEW n \in Nat \ {0}, NEW v, DOMAIN v = Cells(m, n)
  PROVE  NR(v) = m /\ NC(v) = n
<1>1. Cardinality({e \in DOMAIN v : e[2] = 0}) = m
  <2> DEFINE S == 0 .. m - 1
             T == {e \in DOMAIN v : e[2] = 0}
             f == [r \in S |-> <<r, 0>>]
  <2>1. IsFiniteSet(S) /\ Cardinality(S) = m
    BY FS_Interval
  <2>2. f \in Bijection(S, T)
    <3>1. \A r \in S : <<r, 0>> \in T
      BY DEF Cells
    <3>2. \A e \in T : \E r \in S : e = <<r, 0>>
      BY DEF Cells
    <3>3. \A r, q \in S : <<r, 0>> = <<q, 0>> => r = q
      OBVIOUS
    <3> HIDE DEF T
    <3>4. f \in [S -> T]
      BY <3>1
    <3>5. IsInjective(f) /\ \A e \in T : \E r \in S : f[r] = e
      BY <3>2, <3>3 DEF IsInjective
    <3> QED BY <3>4, <3>5 DEF Bijection, Injection, Surjection
  <2> HIDE DEF S, T, f
  <2>3. Cardinality(S) = Cardinality(T)
    BY <2>1, <2>2, FS_Bijection DEF ExistsBijection
  <2> QED BY <2>1, <2>3 DEF T
<1>2. Cardinality({e \in DOMAIN v : e[1] = 0}) = n
  <2> DEFINE S == 0 .. n - 1
             T == {e \in DOMAIN v : e[1] = 0}
             f == [c_ \in S |-> <<0, c_>>]
  <2>1. IsFiniteSet(S) /\ Cardinality(S) = n
    BY FS_Interval
  <2>2. f \in Bijection(S, T)
    <3>1. \A d \in S : <<0, d>> \in T
      BY DEF Cells
    <3>2. \A e \in T : \E d \in S : e = <<0, d>>
      BY DEF Cells
    <3>3. \A d, q \in S : <<0, d>> = <<0, q>> => d = q
      OBVIOUS
    <3> HIDE DEF T
    <3>4. f \in [S -> T]
      BY <3>1
    <3>5. IsInjective(f) /\ \A e \in T : \E d \in S : f[d] = e
      BY <3>2, <3>3 DEF IsInjective
    <3> QED BY <3>4, <3>5 DEF Bijection, Injection, Surjection
  <2> HIDE DEF S, T, f
  <2>3. Cardinality(S) = Cardinality(T)
    BY <2>1, <2>2, FS_Bijection DEF ExistsBijection
  <2> QED BY <2>1, <2>3 DEF T
<1> QED BY <1>1, <1>2 DEF NR, NC

LEMMA CellsFinite ==
  ASSUME NEW m \in Nat, NEW n \in Nat, NEW E, E \subseteq Cells(m, n)
  PROVE  IsFiniteSet(E)
<1>1. IsFiniteSet(0 .. m - 1) /\ IsFiniteSet(0 .. n - 1)
  BY FS_Interval
<1>2. IsFiniteSet(Cells(m, n))
  BY <1>1, FS_Product DEF Cells
<1> QED BY <1>2, FS_Subset

(* The entries on the diagonal and below. *)
LEMMA EntryIs ==
  ASSUME NEW m, NEW n, NEW v, Shape(v, m, n), NEW e \in Lower(v)
  PROVE  e = <<e[1], e[2]>> /\ e[1] \in Nat /\ e[2] \in Nat /\ e[2] <= e[1] /\ v[e] \in Nat
<1>1. DOMAIN v = Cells(m, n) /\ e \in Cells(m, n) /\ e[2] <= e[1] /\ m \in Nat /\ n \in Nat
  BY DEF Lower, Shape
<1>2. e = <<e[1], e[2]>> /\ e[1] \in 0 .. m - 1 /\ e[2] \in 0 .. n - 1
  BY <1>1 DEF Cells
<1>3. v[e] \in Nat
  BY <1>1 DEF Shape
<1> QED BY <1>1, <1>2, <1>3

LEMMA LowerIs ==
  ASSUME NEW m, NEW n, NEW v, Shape(v, m, n), NEW e \in Lower(v)
  PROVE  /\ e[1] \in 0 .. m - 1 /\ e[2] \in 0 .. n - 1 /\ e \in Cells(m, n)
         /\ e[2] > 0 => <<e[1] - 1, e[2] - 1>> \in Lower(v)
         /\ e[2] < e[1] => <<e[1] - 1, e[2]>> \in Lower(v)
<1>1. DOMAIN v = Cells(m, n) /\ e \in Cells(m, n) /\ e[2] <= e[1] /\ m \in Nat /\ n \in Nat
  BY DEF Lower, Shape
<1>2. e = <<e[1], e[2]>> /\ e[1] \in 0 .. m - 1 /\ e[2] \in 0 .. n - 1
  BY <1>1 DEF Cells
<1>3. e[2] > 0 => <<e[1] - 1, e[2] - 1>> \in Lower(v)
  BY <1>1, <1>2 DEF Lower, Cells
<1>4. e[2] < e[1] => <<e[1] - 1, e[2]>> \in Lower(v)
  BY <1>1, <1>2 DEF Lower, Cells
<1> QED BY <1>1, <1>2, <1>3, <1>4

(* One cell of the table, from those of the row above. *)
Cell(v, T, e) ==
  IF e = <<0, 0>> THEN [weight |-> v[e], case |-> 3]
  ELSE IF e[1] = e[2]
    THEN IF v[e] < T[<<e[1] - 1, e[2] - 1>>].weight THEN [weight |-> v[e], case |-> 3]
         ELSE [weight |-> T[<<e[1] - 1, e[2] - 1>>].weight, case |-> 1]
  ELSE IF e[2] = 0
    THEN [weight |-> T[<<e[1] - 1, 0>>].weight + v[e], case |-> 2]
  ELSE FromAbove(e, T[<<e[1] - 1, e[2] - 1>>].weight, v[e] + T[<<e[1] - 1, e[2]>>].weight)

Tabled(F, v, S) == F = [e \in S |-> Cell(v, F, e)]

LEMMA CellLocal ==
  ASSUME NEW m, NEW n, NEW v, Shape(v, m, n), NEW e \in Lower(v), NEW F, NEW G,
         e[2] > 0 => F[<<e[1] - 1, e[2] - 1>>] = G[<<e[1] - 1, e[2] - 1>>],
         e[2] < e[1] => F[<<e[1] - 1, e[2]>>] = G[<<e[1] - 1, e[2]>>]
  PROVE  Cell(v, F, e) = Cell(v, G, e)
<1>1. e = <<e[1], e[2]>> /\ e[1] \in Nat /\ e[2] \in Nat /\ e[2] <= e[1]
  BY EntryIs
<1>2. CASE e = <<0, 0>>
  BY <1>2 DEF Cell
<1>3. CASE e # <<0, 0>> /\ e[1] = e[2]
  <2>1. e[2] > 0
    BY <1>1, <1>3
  <2> QED BY <1>3, <2>1 DEF Cell
<1>4. CASE e # <<0, 0>> /\ e[1] # e[2] /\ e[2] = 0
  <2>1. e[2] < e[1]
    BY <1>1, <1>4
  <2> QED BY <1>4, <2>1 DEF Cell
<1>5. CASE e # <<0, 0>> /\ e[1] # e[2] /\ e[2] # 0
  <2>1. e[2] < e[1] /\ e[2] > 0
    BY <1>1, <1>5
  <2> QED BY <1>5, <2>1 DEF Cell
<1> QED BY <1>2, <1>3, <1>4, <1>5

(* The first k rows of it. *)
Top(v, k) == {e \in Lower(v) : e[1] < k}

LEMMA TopIs ==
  ASSUME NEW m, NEW n, NEW v, Shape(v, m, n)
  PROVE  /\ Top(v, 0) = {} /\ Top(v, m) = Lower(v)
         /\ \A k \in Nat \ {0} : \A e \in Top(v, k - 1) : e \in Top(v, k)
         /\ \A k \in Nat \ {0} : \A e \in Top(v, k) :
              /\ e[2] > 0 => <<e[1] - 1, e[2] - 1>> \in Top(v, k - 1)
              /\ e[2] < e[1] => <<e[1] - 1, e[2]>> \in Top(v, k - 1)
<1>1. ASSUME NEW e \in Lower(v) PROVE ~(e[1] < 0) /\ e[1] < m
  <2>1. e[1] \in 0 .. m - 1 /\ m \in Nat
    BY LowerIs DEF Shape
  <2> QED BY <2>1
<1>2. Top(v, 0) = {} /\ Top(v, m) = Lower(v)
  BY <1>1 DEF Top
<1>3. ASSUME NEW k \in Nat \ {0}, NEW e \in Top(v, k - 1) PROVE e \in Top(v, k)
  <2>1. e \in Lower(v) /\ e[1] < k - 1 /\ e[1] \in Nat
    BY EntryIs DEF Top
  <2>2. e[1] < k
    BY <2>1
  <2> QED BY <2>1, <2>2 DEF Top
<1>4. ASSUME NEW k \in Nat \ {0}, NEW e \in Top(v, k), NEW d, <<e[1] - 1, d>> \in Lower(v)
      PROVE  <<e[1] - 1, d>> \in Top(v, k - 1)
  <2>1. e \in Lower(v) /\ e[1] < k /\ e[1] \in Nat
    BY EntryIs DEF Top
  <2>2. e[1] - 1 < k - 1
    BY <2>1
  <2> QED BY <1>4, <2>2 DEF Top
<1>5. ASSUME NEW k \in Nat \ {0}, NEW e \in Top(v, k)
      PROVE  /\ e[2] > 0 => <<e[1] - 1, e[2] - 1>> \in Top(v, k - 1)
             /\ e[2] < e[1] => <<e[1] - 1, e[2]>> \in Top(v, k - 1)
  <2>1. e \in Lower(v)
    BY DEF Top
  <2>2. /\ e[2] > 0 => <<e[1] - 1, e[2] - 1>> \in Lower(v)
        /\ e[2] < e[1] => <<e[1] - 1, e[2]>> \in Lower(v)
    BY <2>1, LowerIs
  <2> QED BY <1>4, <2>2
<1> QED BY <1>2, <1>3, <1>5

LEMMA TableExists ==
  ASSUME NEW m, NEW n, NEW v, Shape(v, m, n)
  PROVE  \E F : Tabled(F, v, Lower(v))
<1> DEFINE Bad == {k \in Nat : ~\E F : Tabled(F, v, Top(v, k))}
<1>1. ASSUME Bad # {} PROVE FALSE
  <2>1. PICK k \in Bad : \A h \in Bad : k <= h
    <3>1. Bad \subseteq Nat
      OBVIOUS
    <3> HIDE DEF Bad
    <3> QED BY <1>1, <3>1, MinIsLeast
  <2>2. k \in Nat /\ ~\E F : Tabled(F, v, Top(v, k))
    BY <2>1
  <2>3. CASE k = 0
    <3>1. Top(v, 0) = {}
      BY TopIs
    <3> DEFINE F == [e \in Top(v, 0) |-> 0]
    <3>2. F = [e \in Top(v, 0) |-> Cell(v, F, e)]
      BY <3>1
    <3> HIDE DEF F
    <3>3. Tabled(F, v, Top(v, 0))
      BY <3>2 DEF Tabled
    <3> QED BY <2>2, <2>3, <3>3
  <2>4. CASE k # 0
    <3>1. k - 1 \in Nat /\ ~(k <= k - 1)
      BY <2>2, <2>4
    <3>2. PICK G : Tabled(G, v, Top(v, k - 1))
      <4>1. k - 1 \notin Bad
        BY <2>1, <3>1
      <4> QED BY <3>1, <4>1
    <3> DEFINE F == [e \in Top(v, k) |-> Cell(v, G, e)]
    <3>3. G = [e \in Top(v, k - 1) |-> Cell(v, G, e)]
      BY <3>2 DEF Tabled
    <3>4. ASSUME NEW e \in Top(v, k - 1) PROVE F[e] = G[e]
      <4>1. e \in Top(v, k)
        BY <2>2, <2>4, TopIs
      <4>2. G[e] = Cell(v, G, e)
        BY <3>3
      <4> QED BY <4>1, <4>2
    <3>5. ASSUME NEW e \in Top(v, k) PROVE F[e] = Cell(v, F, e)
      <4>1. e \in Lower(v)
        BY <2>2 DEF Top
      <4>2. e[2] > 0 => <<e[1] - 1, e[2] - 1>> \in Top(v, k - 1)
        BY <2>2, <2>4, <4>1, TopIs
      <4>3. e[2] < e[1] => <<e[1] - 1, e[2]>> \in Top(v, k - 1)
        BY <2>2, <2>4, <4>1, TopIs
      <4>4. F[e] = Cell(v, G, e)
        OBVIOUS
      <4> HIDE DEF F
      <4>5. /\ e[2] > 0 => F[<<e[1] - 1, e[2] - 1>>] = G[<<e[1] - 1, e[2] - 1>>]
            /\ e[2] < e[1] => F[<<e[1] - 1, e[2]>>] = G[<<e[1] - 1, e[2]>>]
        BY <3>4, <4>2, <4>3
      <4>6. Cell(v, F, e) = Cell(v, G, e)
        BY <4>1, <4>5, CellLocal
      <4> QED BY <4>4, <4>6
    <3>6. F = [e \in Top(v, k) |-> F[e]]
      OBVIOUS
    <3> HIDE DEF F
    <3>7. F = [e \in Top(v, k) |-> Cell(v, F, e)]
      BY <3>5, <3>6
    <3>8. Tabled(F, v, Top(v, k))
      BY <3>7 DEF Tabled
    <3> QED BY <2>2, <3>8
  <2> QED BY <2>3, <2>4
<1>2. m \in Nat
  BY DEF Shape
<1>3. \E F : Tabled(F, v, Top(v, m))
  BY <1>1, <1>2
<1>4. Top(v, m) = Lower(v)
  BY TopIs
<1> QED BY <1>3, <1>4

LEMMA TableUnfolds ==
  ASSUME NEW m, NEW n, NEW v, Shape(v, m, n)
  PROVE  Tabled(SCTable(v), v, Lower(v))
<1> DEFINE T == CHOOSE F : F = [e \in Lower(v) |-> Cell(v, F, e)]
<1>1. SCTable(v) = [e \in Lower(v) |-> T[e]]
  BY Zenon DEF SCTable, Cell
<1>2. PICK F : F = [e \in Lower(v) |-> Cell(v, F, e)]
  BY TableExists DEF Tabled
<1>3. T = [e \in Lower(v) |-> Cell(v, T, e)]
  BY <1>2, Zenon
<1> HIDE DEF T
<1>4. SCTable(v) = T
  BY <1>1, <1>3
<1> QED BY <1>3, <1>4 DEF Tabled

(* What the table holds: the least value of a shifted column that ends in   *)
(* an entry, and where it comes from.                                       *)
TableRight(t, v) ==
  /\ DOMAIN t = Lower(v)
  /\ \A e \in Lower(v) :
       /\ t[e].weight \in Nat /\ t[e].case \in {1, 2, 3}
       /\ t[e].case = 1 => e[2] > 0 /\ t[e].weight = t[<<e[1] - 1, e[2] - 1>>].weight
       /\ t[e].case = 2 => e[2] < e[1] /\ t[e].weight = v[e] + t[<<e[1] - 1, e[2]>>].weight
       /\ t[e].case = 3 => e[1] = e[2] /\ t[e].weight = v[e]
       /\ e[1] = e[2] => t[e].weight <= v[e]
       /\ e[2] < e[1] => t[e].weight <= v[e] + t[<<e[1] - 1, e[2]>>].weight

LEMMA TableWeights ==
  ASSUME NEW m, NEW n, NEW v, Shape(v, m, n), NEW t, Tabled(t, v, Lower(v))
  PROVE  \A e \in Lower(v) : t[e].weight \in Nat
<1> DEFINE Bad == {k \in Nat : \E e \in Top(v, k) : t[e].weight \notin Nat}
<1>1. ASSUME Bad # {} PROVE FALSE
  <2>1. PICK k \in Bad : \A h \in Bad : k <= h
    <3>1. Bad \subseteq Nat
      OBVIOUS
    <3> HIDE DEF Bad
    <3> QED BY <1>1, <3>1, MinIsLeast
  <2>2. k \in Nat
    BY <2>1
  <2>3. PICK e \in Top(v, k) : t[e].weight \notin Nat
    BY <2>1
  <2>4. k \in Nat \ {0} /\ k - 1 \in Nat /\ ~(k <= k - 1)
    BY <2>2, <2>3, TopIs
  <2>5. k - 1 \notin Bad
    BY <2>1, <2>4
  <2>6. \A f \in Top(v, k - 1) : t[f].weight \in Nat
    BY <2>4, <2>5
  <2>7. e \in Lower(v)
    BY DEF Top
  <2>8. e = <<e[1], e[2]>> /\ e[1] \in Nat /\ e[2] \in Nat /\ e[2] <= e[1] /\ v[e] \in Nat
    BY <2>7, EntryIs
  <2>9. /\ e[2] > 0 => t[<<e[1] - 1, e[2] - 1>>].weight \in Nat
        /\ e[2] < e[1] => t[<<e[1] - 1, e[2]>>].weight \in Nat
    BY <2>4, <2>6, TopIs
  <2>10. t[e] = Cell(v, t, e)
    BY <2>7 DEF Tabled
  <2> DEFINE l == t[<<e[1] - 1, e[2] - 1>>].weight
             a == t[<<e[1] - 1, e[2]>>].weight
  <2>11. Cell(v, t, e).weight \in {v[e], l, a + v[e], v[e] + a}
    BY <2>8 DEF Cell, FromAbove
  <2>12. CASE e[2] = 0 /\ e[1] = 0
    <3>1. Cell(v, t, e).weight = v[e]
      BY <2>8, <2>12 DEF Cell
    <3> QED BY <2>3, <2>8, <2>10, <3>1
  <2>13. CASE e[2] = 0 /\ e[1] > 0
    <3>1. Cell(v, t, e).weight = a + v[e]
      BY <2>8, <2>13 DEF Cell
    <3> HIDE DEF a
    <3>2. a \in Nat
      BY <2>8, <2>9, <2>13 DEF a
    <3>3. a + v[e] \in Nat
      BY <2>8, <3>2
    <3> QED BY <2>3, <2>10, <3>1, <3>3
  <2>14. CASE e[2] > 0 /\ e[2] = e[1]
    <3>1. Cell(v, t, e).weight \in {v[e], l}
      BY <2>8, <2>14 DEF Cell
    <3> QED BY <2>3, <2>8, <2>9, <2>10, <2>14, <3>1
  <2>15. CASE e[2] > 0 /\ e[2] < e[1]
    <3>1. a \in Nat /\ l \in Nat
      BY <2>9, <2>15
    <3> HIDE DEF a, l
    <3>2. a + v[e] \in Nat /\ v[e] + a \in Nat
      BY <2>8, <3>1
    <3> QED BY <2>3, <2>8, <2>10, <2>11, <3>1, <3>2
  <2> QED BY <2>8, <2>12, <2>13, <2>14, <2>15
<1>2. m \in Nat /\ Top(v, m) = Lower(v)
  BY TopIs DEF Shape
<1> QED BY <1>1, <1>2

LEMMA TableIsRight ==
  ASSUME NEW m, NEW n, NEW v, Shape(v, m, n)
  PROVE  TableRight(SCTable(v), v)
<1> DEFINE t == SCTable(v)
<1>1. Tabled(t, v, Lower(v))
  BY TableUnfolds
<1> HIDE DEF t
<1>2. \A e \in Lower(v) : t[e].weight \in Nat
  BY <1>1, TableWeights
<1>3. DOMAIN t = Lower(v)
  BY <1>1 DEF Tabled
<1>4. ASSUME NEW e \in Lower(v)
      PROVE /\ t[e].weight \in Nat /\ t[e].case \in {1, 2, 3}
            /\ t[e].case = 1 => e[2] > 0 /\ t[e].weight = t[<<e[1] - 1, e[2] - 1>>].weight
            /\ t[e].case = 2 => e[2] < e[1] /\ t[e].weight = v[e] + t[<<e[1] - 1, e[2]>>].weight
            /\ t[e].case = 3 => e[1] = e[2] /\ t[e].weight = v[e]
            /\ e[1] = e[2] => t[e].weight <= v[e]
            /\ e[2] < e[1] => t[e].weight <= v[e] + t[<<e[1] - 1, e[2]>>].weight
  <2> DEFINE l == t[<<e[1] - 1, e[2] - 1>>].weight
             a == t[<<e[1] - 1, e[2]>>].weight
  <2>1. t[e] = Cell(v, t, e)
    BY <1>1 DEF Tabled
  <2>2. e = <<e[1], e[2]>> /\ e[1] \in Nat /\ e[2] \in Nat /\ e[2] <= e[1] /\ v[e] \in Nat
    BY EntryIs
  <2>3. (e[2] > 0 => l \in Nat) /\ (e[2] < e[1] => a \in Nat)
    BY <1>2, LowerIs
  <2>4. t[e].weight \in Nat
    BY <1>2
  <2>5. CASE e[2] = 0 /\ e[1] = 0
    <3>1. t[e] = [weight |-> v[e], case |-> 3]
      BY <2>1, <2>2, <2>5 DEF Cell
    <3> QED BY <2>2, <2>4, <2>5, <3>1
  <2>6. CASE e[2] = 0 /\ e[1] > 0
    <3>1. t[e] = [weight |-> a + v[e], case |-> 2]
      BY <2>1, <2>2, <2>6 DEF Cell
    <3> HIDE DEF a
    <3>2. a + v[e] = v[e] + a /\ t[e].weight = v[e] + a /\ t[e].case = 2 /\ v[e] + a \in Nat
      BY <2>2, <2>3, <2>6, <3>1
    <3> QED BY <2>2, <2>4, <2>6, <3>2 DEF a
  <2>7. CASE e[2] > 0 /\ e[2] = e[1]
    <3>1. \/ t[e] = [weight |-> v[e], case |-> 3]
          \/ t[e] = [weight |-> l, case |-> 1] /\ ~(v[e] < l)
      BY <2>1, <2>2, <2>7 DEF Cell
    <3> HIDE DEF l
    <3>2. \/ t[e].weight = v[e] /\ t[e].case = 3
          \/ t[e].weight = l /\ t[e].case = 1 /\ l <= v[e]
      BY <2>2, <2>3, <2>7, <3>1
    <3> QED BY <2>2, <2>4, <2>7, <3>2 DEF l
  <2>8. CASE e[2] > 0 /\ e[2] < e[1]
    <3>1. \/ t[e] = [weight |-> l, case |-> 1] /\ l < v[e] + a
          \/ t[e] = [weight |-> v[e] + a, case |-> 2] /\ ~(l < v[e] + a)
      BY <2>1, <2>2, <2>8 DEF Cell, FromAbove
    <3>2. a \in Nat /\ l \in Nat
      BY <2>3, <2>8
    <3> HIDE DEF a, l
    <3>3. \/ t[e].weight = l /\ t[e].case = 1 /\ l <= v[e] + a
          \/ t[e].weight = v[e] + a /\ t[e].case = 2 /\ v[e] + a <= v[e] + a
      BY <2>2, <3>1, <3>2
    <3> QED BY <2>2, <2>4, <2>8, <3>3 DEF a, l
  <2> QED BY <2>2, <2>5, <2>6, <2>7, <2>8
<1> QED BY <1>3, <1>4 DEF TableRight, t

(* A shifted column, entry by entry. *)
Walk(t, W, e) ==
  IF t[e].case = 1 THEN W[<<e[1] - 1, e[2] - 1>>]
  ELSE IF t[e].case = 2 THEN {e} \cup W[<<e[1] - 1, e[2]>>]
  ELSE {e}

Walks(W, t, S) == W = [e \in S |-> Walk(t, W, e)]

LEMMA WalksExist ==
  ASSUME NEW m, NEW n, NEW v, Shape(v, m, n), NEW t, TableRight(t, v)
  PROVE  \E W : Walks(W, t, Lower(v))
<1> DEFINE Bad == {k \in Nat : ~\E W : Walks(W, t, Top(v, k))}
<1>1. ASSUME Bad # {} PROVE FALSE
  <2>1. PICK k \in Bad : \A h \in Bad : k <= h
    <3>1. Bad \subseteq Nat
      OBVIOUS
    <3> HIDE DEF Bad
    <3> QED BY <1>1, <3>1, MinIsLeast
  <2>2. k \in Nat /\ ~\E W : Walks(W, t, Top(v, k))
    BY <2>1
  <2>3. CASE k = 0
    <3>1. Top(v, 0) = {}
      BY TopIs
    <3> DEFINE W == [e \in Top(v, 0) |-> 0]
    <3>2. W = [e \in Top(v, 0) |-> Walk(t, W, e)]
      BY <3>1
    <3> HIDE DEF W
    <3>3. Walks(W, t, Top(v, 0))
      BY <3>2 DEF Walks
    <3> QED BY <2>2, <2>3, <3>3
  <2>4. CASE k # 0
    <3>1. k - 1 \in Nat /\ ~(k <= k - 1)
      BY <2>2, <2>4
    <3>2. PICK G : Walks(G, t, Top(v, k - 1))
      <4>1. k - 1 \notin Bad
        BY <2>1, <3>1
      <4> QED BY <3>1, <4>1
    <3> DEFINE W == [e \in Top(v, k) |-> Walk(t, G, e)]
    <3>3. G = [e \in Top(v, k - 1) |-> Walk(t, G, e)]
      BY <3>2 DEF Walks
    <3>4. ASSUME NEW e \in Top(v, k - 1) PROVE W[e] = G[e]
      <4>1. e \in Top(v, k)
        BY <2>2, <2>4, TopIs
      <4>2. G[e] = Walk(t, G, e)
        BY <3>3
      <4> QED BY <4>1, <4>2
    <3>5. ASSUME NEW e \in Top(v, k) PROVE W[e] = Walk(t, W, e)
      <4>1. e \in Lower(v)
        BY DEF Top
      <4>2. /\ e[2] > 0 => <<e[1] - 1, e[2] - 1>> \in Top(v, k - 1)
            /\ e[2] < e[1] => <<e[1] - 1, e[2]>> \in Top(v, k - 1)
        BY <2>2, <2>4, TopIs
      <4>3. (t[e].case = 1 => e[2] > 0) /\ (t[e].case = 2 => e[2] < e[1])
        BY <4>1 DEF TableRight
      <4>4. W[e] = Walk(t, G, e)
        OBVIOUS
      <4> HIDE DEF W
      <4>5. Walk(t, W, e) = Walk(t, G, e)
        BY <3>4, <4>2, <4>3 DEF Walk
      <4> QED BY <4>4, <4>5
    <3>6. W = [e \in Top(v, k) |-> W[e]]
      OBVIOUS
    <3> HIDE DEF W
    <3>7. W = [e \in Top(v, k) |-> Walk(t, W, e)]
      BY <3>5, <3>6
    <3>8. Walks(W, t, Top(v, k))
      BY <3>7 DEF Walks
    <3> QED BY <2>2, <3>8
  <2> QED BY <2>3, <2>4
<1>2. m \in Nat /\ Top(v, m) = Lower(v)
  BY TopIs DEF Shape
<1> QED BY <1>1, <1>2

LEMMA ColumnUnfolds ==
  ASSUME NEW m, NEW n, NEW v, Shape(v, m, n), NEW t, TableRight(t, v), NEW e \in Lower(v)
  PROVE  /\ t[e].case = 1 => ColumnAt(t, e) = ColumnAt(t, <<e[1] - 1, e[2] - 1>>)
         /\ t[e].case = 2 => ColumnAt(t, e) = {e} \cup ColumnAt(t, <<e[1] - 1, e[2]>>)
         /\ t[e].case = 3 => ColumnAt(t, e) = {e}
<1> DEFINE W == CHOOSE F : F = [p \in DOMAIN t |-> Walk(t, F, p)]
<1>1. \A f : ColumnAt(t, f) = W[f]
  BY Zenon DEF ColumnAt, Walk
<1>2. DOMAIN t = Lower(v)
  BY DEF TableRight
<1>3. PICK F : F = [p \in DOMAIN t |-> Walk(t, F, p)]
  BY <1>2, WalksExist DEF Walks
<1>4. W = [p \in DOMAIN t |-> Walk(t, W, p)]
  BY <1>3, Zenon
<1> HIDE DEF W
<1>5. W[e] = Walk(t, W, e)
  BY <1>2, <1>4
<1>6. t[e].case \in {1, 2, 3}
  BY DEF TableRight
<1> QED BY <1>1, <1>5, <1>6 DEF Walk

(* It has entries of rows down to its end only, and the weight of the table.*)
LEMMA ColumnFacts ==
  ASSUME NEW m, NEW n, NEW v, Shape(v, m, n), NEW t, TableRight(t, v)
  PROVE  \A e \in Lower(v) :
           /\ ColumnAt(t, e) \subseteq Lower(v)
           /\ \A f \in ColumnAt(t, e) : f[1] <= e[1]
           /\ Sum(v, ColumnAt(t, e)) = t[e].weight
<1> DEFINE Right(e) == /\ ColumnAt(t, e) \subseteq Lower(v)
                       /\ \A f \in ColumnAt(t, e) : f[1] <= e[1]
                       /\ Sum(v, ColumnAt(t, e)) = t[e].weight
           Bad == {k \in Nat : \E e \in Top(v, k) : ~Right(e)}
<1>1. ASSUME Bad # {} PROVE FALSE
  <2>1. PICK k \in Bad : \A h \in Bad : k <= h
    <3>1. Bad \subseteq Nat
      OBVIOUS
    <3> HIDE DEF Bad
    <3> QED BY <1>1, <3>1, MinIsLeast
  <2>2. k \in Nat
    BY <2>1
  <2>3. PICK e \in Top(v, k) : ~Right(e)
    BY <2>1
  <2>4. k \in Nat \ {0} /\ k - 1 \in Nat /\ ~(k <= k - 1)
    BY <2>2, <2>3, TopIs
  <2>5. k - 1 \notin Bad
    BY <2>1, <2>4
  <2>6. \A f \in Top(v, k - 1) : Right(f)
    BY <2>4, <2>5
  <2>7. e \in Lower(v)
    BY DEF Top
  <2>8. e = <<e[1], e[2]>> /\ e[1] \in Nat /\ e[2] \in Nat /\ e[2] <= e[1] /\ v[e] \in Nat
    BY <2>7, EntryIs
  <2> HIDE DEF Bad
  <2> DEFINE l == <<e[1] - 1, e[2] - 1>>
             a == <<e[1] - 1, e[2]>>
  <2>9. (e[2] > 0 => Right(l)) /\ (e[2] < e[1] => Right(a))
    <3> HIDE DEF Right
    <3> QED BY <2>4, <2>6, TopIs
  <2>10. /\ t[e].case \in {1, 2, 3}
         /\ t[e].case = 1 => e[2] > 0 /\ t[e].weight = t[l].weight
         /\ t[e].case = 2 => e[2] < e[1] /\ t[e].weight = v[e] + t[a].weight
         /\ t[e].case = 3 => t[e].weight = v[e]
    BY <2>7 DEF TableRight
  <2>11. /\ t[e].case = 1 => ColumnAt(t, e) = ColumnAt(t, l)
         /\ t[e].case = 2 => ColumnAt(t, e) = {e} \cup ColumnAt(t, a)
         /\ t[e].case = 3 => ColumnAt(t, e) = {e}
    BY <2>7, ColumnUnfolds
  <2>12. \A f \in Lower(v) : f[1] \in Nat
    BY EntryIs
  <2>13. l[1] = e[1] - 1 /\ a[1] = e[1] - 1
    OBVIOUS
  <2>14. \A f \in Lower(v) : f[1] <= e[1] - 1 => f[1] <= e[1] /\ f # e
    BY <2>8, <2>12
  <2> HIDE DEF l, a
  <2>15. CASE t[e].case = 1
    <3>1. Right(l) /\ ColumnAt(t, e) = ColumnAt(t, l) /\ t[e].weight = t[l].weight
      BY <2>9, <2>10, <2>11, <2>15
    <3>2. \A f \in ColumnAt(t, l) : f[1] <= e[1]
      BY <2>13, <2>14, <3>1
    <3> QED BY <2>3, <3>1, <3>2
  <2>16. CASE t[e].case = 2
    <3>1. Right(a) /\ ColumnAt(t, e) = {e} \cup ColumnAt(t, a) /\ t[e].weight = v[e] + t[a].weight
      BY <2>9, <2>10, <2>11, <2>16
    <3>2. \A f \in ColumnAt(t, a) : f \in Lower(v) /\ f[1] <= e[1] /\ f # e
      BY <2>13, <2>14, <3>1
    <3>3. ColumnAt(t, e) = ColumnAt(t, a) \cup {e}
      BY <3>1
    <3>4. IsFiniteSet(ColumnAt(t, a))
      <4>1. \A f \in Lower(v) : f \in Cells(m, n)
        BY LowerIs
      <4>2. ColumnAt(t, a) \subseteq Cells(m, n) /\ m \in Nat /\ n \in Nat
        BY <3>2, <4>1 DEF Shape
      <4> QED BY <4>2, CellsFinite
    <3>5. \A f \in ColumnAt(t, a) \cup {e} : v[f] \in Int
      <4>1. \A f \in Lower(v) : v[f] \in Nat
        BY EntryIs
      <4> QED BY <2>8, <3>2, <4>1
    <3>6. Sum(v, ColumnAt(t, a) \cup {e}) = v[e] + Sum(v, ColumnAt(t, a))
      BY <3>2, <3>4, <3>5, SumAdds
    <3>7. Sum(v, ColumnAt(t, e)) = t[e].weight
      BY <3>1, <3>3, <3>6
    <3>8. \A f \in ColumnAt(t, e) : f \in Lower(v) /\ f[1] <= e[1]
      BY <2>7, <2>8, <3>2, <3>3
    <3> QED BY <2>3, <3>7, <3>8
  <2>17. CASE t[e].case = 3
    <3>1. ColumnAt(t, e) = {e} /\ t[e].weight = v[e]
      BY <2>10, <2>11, <2>17
    <3>2. Sum(v, {e}) = v[e]
      BY <2>8, SumOne
    <3>3. e[1] <= e[1]
      BY <2>8
    <3> QED BY <2>3, <2>7, <3>1, <3>2, <3>3
  <2> QED BY <2>10, <2>15, <2>16, <2>17
<1>2. m \in Nat /\ Top(v, m) = Lower(v)
  BY TopIs DEF Shape
<1>3. \A e \in Lower(v) : Right(e)
  <2> HIDE DEF Right
  <2> QED BY <1>1, <1>2
<1> QED BY <1>3

-------------------------------------------------------------------------------
(***************************************************************************)
(* Sorted matrices with at most one entry in a row, and bars.              *)
(***************************************************************************)
Sorted(x, m, n) ==
  \A a \in 0 .. n - 2 : \A r \in 0 .. m - 1 :
    x[<<r, a>>] < x[<<r, a + 1>>] => \E q \in 0 .. r - 1 : x[<<q, a>>] > x[<<q, a + 1>>]

LEMMA SortedIs ==
  ASSUME NEW m, NEW n, NEW x, Shape(x, m, n)
  PROVE  ColumnsSorted(x) <=> Sorted(x, m, n)
<1>1. NR(x) = m /\ NC(x) = n
  BY Size DEF Shape
<1> QED BY <1>1 DEF ColumnsSorted, Sorted

(* Values 0 and u; no row has two u, nor more than u in sum.                *)
Slim(x, m, n, u) ==
  /\ u \in Nat \ {0} /\ m \in Nat \ {0} /\ n \in Nat \ {0}
  /\ x \in [Cells(m, n) -> {0, u}]
  /\ \A r \in 0 .. m - 1 : \A d, k \in 0 .. n - 1 :
       d # k => x[<<r, d>>] = 0 \/ x[<<r, k>>] = 0
  /\ \A r \in 0 .. m - 1 : RowSum(x, r) <= u

LEMMA RowFinite ==
  ASSUME NEW m, NEW n, NEW x, Shape(x, m, n), NEW r
  PROVE  IsFiniteSet({e \in DOMAIN x : e[1] = r})
<1>1. {e \in DOMAIN x : e[1] = r} \subseteq Cells(m, n) /\ m \in Nat /\ n \in Nat
  BY DEF Shape
<1> QED BY <1>1, CellsFinite

LEMMA RowsSlim ==
  ASSUME NEW m \in Nat \ {0}, NEW n \in Nat \ {0}, NEW u \in Nat \ {0},
         NEW x \in [Cells(m, n) -> {0, u}],
         \A r \in 0 .. m - 1 : RowSum(x, r) <= u
  PROVE  Slim(x, m, n, u) /\ Shape(x, m, n)
<1>1. Shape(x, m, n)
  BY DEF Shape
<1>2. ASSUME NEW r \in 0 .. m - 1, NEW d \in 0 .. n - 1, NEW k \in 0 .. n - 1, d # k,
             x[<<r, d>>] # 0, x[<<r, k>>] # 0
      PROVE  FALSE
  <2> DEFINE E == {e \in DOMAIN x : e[1] = r}
             a == <<r, d>>
             b == <<r, k>>
  <2>1. a \in E /\ b \in E /\ a # b /\ x[a] = u /\ x[b] = u
    BY <1>2 DEF Cells
  <2>2. IsFiniteSet(E)
    BY <1>1, RowFinite
  <2>3. \A e \in E : x[e] \in Nat /\ x[e] \in Int
    OBVIOUS
  <2>4. Sum(x, E) = RowSum(x, r) /\ RowSum(x, r) <= u
    BY DEF RowSum
  <2> HIDE DEF E, a, b
  <2>5. Sum(x, E) = u + Sum(x, E \ {a})
    BY <2>1, <2>2, <2>3, SumTakes
  <2>6. IsFiniteSet(E \ {a}) /\ b \in E \ {a} /\ \A e \in E \ {a} : x[e] \in Nat
    BY <2>1, <2>2, <2>3, FS_RemoveElement
  <2>7. u <= Sum(x, E \ {a}) /\ Sum(x, E \ {a}) \in Nat
    <3>1. x[b] <= Sum(x, E \ {a})
      BY <2>6, SumAbove
    <3>2. Sum(x, E \ {a}) \in Nat
      BY <2>6, SumType
    <3> QED BY <2>1, <3>1, <3>2
  <2> QED BY <2>4, <2>5, <2>7
<1> QED BY <1>1, <1>2 DEF Slim

LEMMA SlimValue ==
  ASSUME NEW m, NEW n, NEW u, NEW x, Slim(x, m, n, u), NEW r \in 0 .. m - 1, NEW d \in 0 .. n - 1
  PROVE  x[<<r, d>>] \in {0, u} /\ x[<<r, d>>] \in Nat
<1>1. <<r, d>> \in Cells(m, n) /\ u \in Nat
  BY DEF Cells, Slim
<1> QED BY <1>1 DEF Slim

(* A u in a row, not in the first column, stands below one further left.    *)
LEMMA LeftAbove ==
  ASSUME NEW m, NEW n, NEW u, NEW x, Slim(x, m, n, u), Sorted(x, m, n),
         NEW r \in 0 .. m - 1, NEW d \in 1 .. n - 1, x[<<r, d>>] # 0
  PROVE  \E q \in 0 .. r - 1 : x[<<q, d - 1>>] # 0
<1>1. d - 1 \in 0 .. n - 2 /\ d \in 0 .. n - 1 /\ d - 1 \in 0 .. n - 1 /\ (d - 1) + 1 = d /\ d # d - 1
  BY DEF Slim
<1>2. x[<<r, d>>] = u /\ u \in Nat \ {0}
  <2>1. x[<<r, d>>] \in {0, u}
    BY <1>1, SlimValue
  <2>2. u \in Nat \ {0}
    BY DEF Slim
  <2> QED BY <2>1, <2>2
<1>3. x[<<r, d - 1>>] = 0
  BY <1>1 DEF Slim
<1>4. PICK q \in 0 .. r - 1 : x[<<q, d - 1>>] > x[<<q, d>>]
  <2>1. x[<<r, d - 1>>] < x[<<r, (d - 1) + 1>>]
    BY <1>1, <1>2, <1>3
  <2>2. \E q \in 0 .. r - 1 : x[<<q, d - 1>>] > x[<<q, (d - 1) + 1>>]
    BY <1>1, <2>1 DEF Sorted
  <2> QED BY <1>1, <2>2
<1>5. q \in 0 .. m - 1
  BY DEF Slim
<1>6. x[<<q, d>>] \in Nat /\ x[<<q, d - 1>>] \in Nat
  BY <1>1, <1>5, SlimValue
<1> QED BY <1>4, <1>6

LEMMA AboveDiagonal ==
  ASSUME NEW m, NEW n, NEW u, NEW x, Slim(x, m, n, u), Sorted(x, m, n)
  PROVE  \A r \in 0 .. m - 1 : \A d \in 0 .. n - 1 : d > r => x[<<r, d>>] = 0
<1> DEFINE Bad == {r \in 0 .. m - 1 : \E d \in 0 .. n - 1 : d > r /\ x[<<r, d>>] # 0}
<1>1. ASSUME Bad # {} PROVE FALSE
  <2>1. PICK r \in Bad : \A q \in Bad : r <= q
    <3>1. Bad \subseteq Nat
      BY DEF Slim
    <3> HIDE DEF Bad
    <3> QED BY <1>1, <3>1, MinIsLeast
  <2>2. r \in 0 .. m - 1
    BY <2>1
  <2>3. PICK d \in 0 .. n - 1 : d > r /\ x[<<r, d>>] # 0
    BY <2>1
  <2>4. d \in 1 .. n - 1 /\ d - 1 \in 0 .. n - 1
    BY <2>2, <2>3 DEF Slim
  <2>5. PICK q \in 0 .. r - 1 : x[<<q, d - 1>>] # 0
    BY <2>2, <2>3, <2>4, LeftAbove
  <2>6. q \in 0 .. m - 1 /\ d - 1 > q /\ ~(r <= q)
    BY <2>2, <2>3 DEF Slim
  <2> QED BY <2>1, <2>4, <2>5, <2>6
<1> QED BY <1>1

(* Where rows above are empty from column d - 1 on, a row is from d on.     *)
LEMMA RowClear ==
  ASSUME NEW m, NEW n, NEW u, NEW x, Slim(x, m, n, u), Sorted(x, m, n),
         NEW r \in 0 .. m - 1, NEW d \in Nat \ {0},
         \A q \in 0 .. r - 1 : \A k \in d - 1 .. n - 1 : x[<<q, k>>] = 0
  PROVE  \A k \in d .. n - 1 : x[<<r, k>>] = 0
<1> SUFFICES ASSUME NEW k \in d .. n - 1, x[<<r, k>>] # 0 PROVE FALSE
  OBVIOUS
<1>1. k \in 1 .. n - 1 /\ k - 1 \in d - 1 .. n - 1
  BY DEF Slim
<1>2. \E q \in 0 .. r - 1 : x[<<q, k - 1>>] # 0
  BY <1>1, LeftAbove
<1> QED BY <1>1, <1>2

(* Empty from row 0 to row r, from column d on. *)
Clear(x, n, r, d) == \A q \in 0 .. r : \A k \in d .. n - 1 : x[<<q, k>>] = 0

(* A shifted column without an entry of x leaves none to its right.         *)
LEMMA Shadow ==
  ASSUME NEW m, NEW n, NEW u, NEW x, Slim(x, m, n, u), Sorted(x, m, n),
         NEW v, Shape(v, m, n), NEW t, TableRight(t, v)
  PROVE  \A e \in Lower(v) :
           (\A f \in ColumnAt(t, e) : x[f] = 0) => Clear(x, n, e[1], e[2])
<1> DEFINE Right(e) == (\A f \in ColumnAt(t, e) : x[f] = 0) => Clear(x, n, e[1], e[2])
           Bad == {k \in Nat : \E e \in Top(v, k) : ~Right(e)}
<1>0. m \in Nat /\ n \in Nat /\ Top(v, m) = Lower(v)
  BY TopIs DEF Shape
<1>1. ASSUME Bad # {} PROVE FALSE
  <2>1. PICK k \in Bad : \A h \in Bad : k <= h
    <3>1. Bad \subseteq Nat
      OBVIOUS
    <3> HIDE DEF Bad
    <3> QED BY <1>1, <3>1, MinIsLeast
  <2>2. k \in Nat
    BY <2>1
  <2>3. PICK e \in Top(v, k) : ~Right(e)
    BY <2>1
  <2>4. k \in Nat \ {0} /\ k - 1 \in Nat /\ ~(k <= k - 1)
    BY <2>2, <2>3, TopIs
  <2>5. k - 1 \notin Bad
    BY <2>1, <2>4
  <2>6. \A f \in Top(v, k - 1) : Right(f)
    BY <2>4, <2>5
  <2>7. e \in Lower(v)
    BY DEF Top
  <2>8. e = <<e[1], e[2]>> /\ e[1] \in Nat /\ e[2] \in Nat /\ e[2] <= e[1] /\ v[e] \in Nat
    BY <2>7, EntryIs
  <2>9. e[1] \in 0 .. m - 1 /\ e[2] \in 0 .. n - 1
    BY <2>7, LowerIs
  <2> HIDE DEF Bad
  <2> DEFINE l == <<e[1] - 1, e[2] - 1>>
             a == <<e[1] - 1, e[2]>>
  <2>10. (e[2] > 0 => Right(l)) /\ (e[2] < e[1] => Right(a))
    <3> HIDE DEF Right
    <3> QED BY <2>4, <2>6, TopIs
  <2>11. /\ t[e].case \in {1, 2, 3}
         /\ t[e].case = 1 => e[2] > 0
         /\ t[e].case = 2 => e[2] < e[1]
         /\ t[e].case = 3 => e[1] = e[2]
    BY <2>7 DEF TableRight
  <2>12. /\ t[e].case = 1 => ColumnAt(t, e) = ColumnAt(t, l)
         /\ t[e].case = 2 => ColumnAt(t, e) = {e} \cup ColumnAt(t, a)
         /\ t[e].case = 3 => ColumnAt(t, e) = {e}
    BY <2>7, ColumnUnfolds
  <2>13. /\ \A f \in ColumnAt(t, e) : x[f] = 0
         /\ ~Clear(x, n, e[1], e[2])
    BY <2>3
  <2>14. l[1] = e[1] - 1 /\ l[2] = e[2] - 1 /\ a[1] = e[1] - 1 /\ a[2] = e[2]
    OBVIOUS
  <2>15. CASE t[e].case = 1
    <3>1. Clear(x, n, e[1] - 1, e[2] - 1) /\ e[2] \in Nat \ {0}
      <4>1. Right(l) /\ e[2] > 0
        BY <2>10, <2>11, <2>15
      <4> HIDE DEF l
      <4> QED BY <2>8, <2>12, <2>13, <2>14, <2>15, <4>1
    <3>2. \A q \in 0 .. e[1] - 1 : \A h \in e[2] - 1 .. n - 1 : x[<<q, h>>] = 0
      BY <3>1 DEF Clear
    <3>3. \A h \in e[2] .. n - 1 : x[<<e[1], h>>] = 0
      <4> DEFINE d == e[2]
                 r == e[1]
      <4>1. d \in Nat \ {0} /\ r \in 0 .. m - 1
        BY <2>9, <3>1
      <4>2. \A q \in 0 .. r - 1 : \A h \in d - 1 .. n - 1 : x[<<q, h>>] = 0
        BY <3>2
      <4> HIDE DEF d, r
      <4>3. \A h \in d .. n - 1 : x[<<r, h>>] = 0
        BY <4>1, <4>2, RowClear
      <4> QED BY <4>3 DEF d, r
    <3>4. Clear(x, n, e[1], e[2])
      <4>1. \A q \in 0 .. e[1] : q = e[1] \/ q \in 0 .. e[1] - 1
        BY <2>8
      <4>2. \A h \in e[2] .. n - 1 : h \in e[2] - 1 .. n - 1
        BY <1>0, <2>8
      <4> QED BY <3>2, <3>3, <4>1, <4>2 DEF Clear
    <3> QED BY <2>13, <3>4
  <2>16. CASE t[e].case = 2
    <3>1. Clear(x, n, e[1] - 1, e[2]) /\ x[e] = 0
      <4>1. Right(a)
        BY <2>10, <2>11, <2>16
      <4> HIDE DEF a
      <4> QED BY <2>12, <2>13, <2>14, <2>16, <4>1
    <3>2. \A q \in 0 .. e[1] - 1 : \A h \in e[2] .. n - 1 : x[<<q, h>>] = 0
      BY <3>1 DEF Clear
    <3>3. \A h \in e[2] + 1 .. n - 1 : x[<<e[1], h>>] = 0
      <4> DEFINE d == e[2] + 1
      <4>1. d \in Nat \ {0} /\ d - 1 = e[2]
        BY <2>8
      <4> HIDE DEF d
      <4>2. \A q \in 0 .. e[1] - 1 : \A h \in d - 1 .. n - 1 : x[<<q, h>>] = 0
        BY <3>2, <4>1
      <4>3. \A h \in d .. n - 1 : x[<<e[1], h>>] = 0
        BY <2>9, <4>1, <4>2, RowClear
      <4> QED BY <4>3 DEF d
    <3>4. Clear(x, n, e[1], e[2])
      <4>1. \A q \in 0 .. e[1] : q = e[1] \/ q \in 0 .. e[1] - 1
        BY <2>8
      <4>2. \A h \in e[2] .. n - 1 : h = e[2] \/ h \in e[2] + 1 .. n - 1
        BY <1>0, <2>8
      <4>3. x[<<e[1], e[2]>>] = 0
        BY <2>8, <3>1
      <4> QED BY <3>2, <3>3, <4>1, <4>2, <4>3 DEF Clear
    <3> QED BY <2>13, <3>4
  <2>17. CASE t[e].case = 3
    <3>1. e[1] = e[2] /\ x[<<e[1], e[2]>>] = 0
      <4>1. e[1] = e[2] /\ ColumnAt(t, e) = {e}
        BY <2>11, <2>12, <2>17
      <4> QED BY <2>8, <2>13, <4>1
    <3>2. ASSUME NEW q \in 0 .. e[1], NEW h \in e[2] .. n - 1 PROVE x[<<q, h>>] = 0
      <4>1. q \in 0 .. m - 1 /\ h \in 0 .. n - 1
        BY <1>0, <2>8, <2>9
      <4>2. (q = e[1] /\ h = e[2]) \/ h > q
        BY <1>0, <2>8, <3>1
      <4> QED BY <3>1, <4>1, <4>2, AboveDiagonal
    <3> QED BY <2>13, <3>2 DEF Clear
  <2> QED BY <2>11, <2>15, <2>16, <2>17
<1>2. \A e \in Lower(v) : Right(e)
  <2> HIDE DEF Right
  <2> QED BY <1>0, <1>1
<1> QED BY <1>2

(* A bar has entries of one row, on the diagonal or below. *)
LEMMA LeaderIs ==
  ASSUME NEW m, NEW n, NEW v, Shape(v, m, n), NEW e \in Leaders(v)
  PROVE  /\ e \in Lower(v) /\ e[1] \in Nat /\ e[2] \in Nat \ {0} /\ e[2] <= e[1] /\ e[1] \in 0 .. m - 1
         /\ <<e[1] - 1, e[2] - 1>> \in Lower(v)
<1>1. e \in Lower(v) /\ e[2] > 0
  BY DEF Leaders
<1>2. e[1] \in Nat /\ e[2] \in Nat /\ e[2] <= e[1]
  BY <1>1, EntryIs
<1>3. e[1] \in 0 .. m - 1 /\ <<e[1] - 1, e[2] - 1>> \in Lower(v)
  BY <1>1, LowerIs
<1> QED BY <1>1, <1>2, <1>3

LEMMA BarIs ==
  ASSUME NEW m, NEW n, NEW v, Shape(v, m, n), NEW e \in Leaders(v),
         NEW f \in Bar(v, e[1], e[2])
  PROVE  /\ f[1] = e[1] /\ f[2] \in e[2] .. n - 1 /\ f = <<f[1], f[2]>>
         /\ f \in Lower(v) /\ f \in Cells(m, n)
<1>1. e[1] \in Nat /\ e[2] \in Nat \ {0} /\ e[1] \in 0 .. m - 1
  BY LeaderIs
<1>2. NC(v) = n /\ n \in Nat \ {0} /\ DOMAIN v = Cells(m, n)
  BY Size DEF Shape
<1>3. PICK k \in e[2] .. LastColumn(v, e[1]) : f = <<e[1], k>>
  BY DEF Bar
<1>4. LastColumn(v, e[1]) \in Int /\ LastColumn(v, e[1]) <= e[1] /\ LastColumn(v, e[1]) <= n - 1
  BY <1>1, <1>2 DEF LastColumn
<1>5. k \in e[2] .. n - 1 /\ k <= e[1] /\ k \in 0 .. n - 1
  BY <1>1, <1>2, <1>3, <1>4
<1>6. f[1] = e[1] /\ f[2] = k /\ f = <<f[1], f[2]>>
  BY <1>3
<1>7. f \in Cells(m, n)
  BY <1>1, <1>3, <1>5 DEF Cells
<1>8. f \in Lower(v)
  BY <1>2, <1>5, <1>6, <1>7 DEF Lower
<1> QED BY <1>5, <1>6, <1>7, <1>8

(* In a sorted matrix a bar has no more than a shifted column in front of it, *)
(* be it the least or not.                                                    *)
LEMMA BarFits ==
  ASSUME NEW m, NEW n, NEW u, NEW x, Slim(x, m, n, u), Shape(x, m, n), Sorted(x, m, n),
         NEW v, Shape(v, m, n), NEW t, TableRight(t, v), NEW e \in Leaders(v)
  PROVE  Sum(x, Bar(v, e[1], e[2])) <= Sum(x, ColumnAt(t, <<e[1] - 1, e[2] - 1>>))
<1> DEFINE p == <<e[1] - 1, e[2] - 1>>
           B == Bar(v, e[1], e[2])
           C == ColumnAt(t, p)
           R == {f \in DOMAIN x : f[1] = e[1]}
<1>1. e[1] \in 0 .. m - 1 /\ e[1] \in Nat /\ e[2] \in Nat \ {0} /\ p \in Lower(v)
  BY LeaderIs
<1>2. m \in Nat /\ n \in Nat /\ u \in Nat \ {0} /\ DOMAIN x = Cells(m, n)
  BY DEF Slim, Shape
<1>3. C \subseteq Cells(m, n)
  <2>1. C \subseteq Lower(v)
    BY <1>1, ColumnFacts
  <2>2. \A f \in Lower(v) : f \in Cells(m, n)
    BY LowerIs
  <2> QED BY <2>1, <2>2
<1>4. \A f \in B : f[1] = e[1] /\ f[2] \in e[2] .. n - 1 /\ f = <<f[1], f[2]>> /\ f \in Cells(m, n)
  <2> HIDE DEF p, C, R
  <2> QED BY BarIs
<1>5. IsFiniteSet(C) /\ IsFiniteSet(B) /\ IsFiniteSet(R)
  <2>1. B \subseteq Cells(m, n) /\ R \subseteq Cells(m, n)
    BY <1>2, <1>4
  <2> HIDE DEF B, C, R
  <2> QED BY <1>2, <1>3, <2>1, CellsFinite
<1>6. \A f \in Cells(m, n) : x[f] \in {0, u} /\ x[f] \in Nat
  BY <1>2 DEF Slim
<1>7. p[1] = e[1] - 1 /\ p[2] = e[2] - 1
  OBVIOUS
<1>8. B \subseteq R
  BY <1>2, <1>4
<1> HIDE DEF B, C, p
<1>9. CASE \E f \in C : x[f] # 0
  <2>1. PICK f \in C : x[f] # 0
    BY <1>9
  <2>2. x[f] = u
    BY <1>3, <1>6, <2>1
  <2>3. \A g \in C : x[g] \in Nat
    BY <1>3, <1>6
  <2>4. x[f] <= Sum(x, C)
    BY <1>5, <2>3, SumAbove
  <2>5. \A g \in R : x[g] \in Nat
    BY <1>2, <1>6
  <2>6. RowSum(x, e[1]) = Sum(x, R) /\ RowSum(x, e[1]) <= u
    BY <1>1 DEF RowSum, Slim
  <2> HIDE DEF R
  <2>7. Sum(x, B) <= Sum(x, R) /\ Sum(x, B) \in Nat /\ Sum(x, R) \in Nat
    BY <1>5, <1>8, <2>5, SumGrows
  <2>8. Sum(x, C) \in Nat
    BY <1>5, <2>3, SumType
  <2>9. Sum(x, B) <= Sum(x, C)
    BY <1>2, <2>2, <2>4, <2>6, <2>7, <2>8
  <2> QED BY <2>9 DEF B, C, p
<1>10. CASE \A f \in C : x[f] = 0
  <2>1. Clear(x, n, p[1], p[2])
    BY <1>1, <1>10, Shadow DEF C
  <2> DEFINE r == e[1]
             d == e[2]
  <2>2. \A q \in 0 .. r - 1 : \A k \in d - 1 .. n - 1 : x[<<q, k>>] = 0
    BY <1>7, <2>1 DEF Clear
  <2>3. r \in 0 .. m - 1 /\ d \in Nat \ {0}
    BY <1>1
  <2> HIDE DEF r, d
  <2>4. \A k \in d .. n - 1 : x[<<r, k>>] = 0
    BY <2>2, <2>3, RowClear
  <2>5. \A f \in B : x[f] = 0
    BY <1>4, <2>4 DEF r, d
  <2>6. Sum(x, B) = 0 /\ Sum(x, C) = 0
    BY <1>5, <1>10, <2>5, SumZero
  <2> QED BY <2>6 DEF B, C, p
<1> QED BY <1>9, <1>10

(* What an inequality of bar and shifted column adds up to. *)
LEMMA SCIActivity ==
  ASSUME NEW m, NEW n, NEW v, Shape(v, m, n), NEW t, TableRight(t, v), NEW e \in Leaders(v),
         NEW w, \A f \in Cells(m, n) : w[f] \in Nat
  PROVE  /\ Activity(SCI(v, t, e), w)
              = Sum(w, Bar(v, e[1], e[2])) - Sum(w, ColumnAt(t, <<e[1] - 1, e[2] - 1>>))
         /\ Sum(w, Bar(v, e[1], e[2])) \in Nat
         /\ Sum(w, ColumnAt(t, <<e[1] - 1, e[2] - 1>>)) \in Nat
<1> DEFINE p == <<e[1] - 1, e[2] - 1>>
           B == Bar(v, e[1], e[2])
           C == ColumnAt(t, p)
           cut == SCI(v, t, e)
           T == Terms(cut, w)
<1>1. e[1] \in Nat /\ p \in Lower(v) /\ p[1] = e[1] - 1
  BY LeaderIs
<1>2. m \in Nat /\ n \in Nat
  BY DEF Shape
<1>3. C \subseteq Cells(m, n)
  <2>1. C \subseteq Lower(v)
    BY <1>1, ColumnFacts
  <2>2. \A f \in Lower(v) : f \in Cells(m, n)
    BY LowerIs
  <2> QED BY <2>1, <2>2
<1>4. \A f \in B : f[1] = e[1] /\ f \in Cells(m, n)
  <2> HIDE DEF p, C, cut, T
  <2> QED BY BarIs
<1>5. \A f \in C : f[1] <= e[1] - 1 /\ f[1] \in Nat
  <2>1. C \subseteq Lower(v) /\ \A f \in C : f[1] <= p[1]
    BY <1>1, ColumnFacts
  <2>2. \A f \in Lower(v) : f[1] \in Nat
    BY EntryIs
  <2> QED BY <1>1, <2>1, <2>2
<1>6. cut.coef = [f \in B \cup C |-> IF f \in B THEN 1 ELSE -1]
  BY DEF SCI
<1> HIDE DEF B, C, p, cut
<1>7. B \cap C = {}
  <2>1. \A f \in C : f[1] # e[1]
    BY <1>1, <1>5
  <2> QED BY <1>4, <2>1
<1>8. /\ DOMAIN cut.coef = B \cup C
      /\ \A f \in B : cut.coef[f] = 1
      /\ \A f \in C : cut.coef[f] = -1
  BY <1>6, <1>7
<1>9. B \subseteq Cells(m, n) /\ IsFiniteSet(B) /\ IsFiniteSet(C)
  <2>1. B \subseteq Cells(m, n)
    BY <1>4
  <2> QED BY <1>2, <1>3, <2>1, CellsFinite
<1>10. \A f \in B : T[f] = w[f] /\ w[f] \in Nat
  BY <1>8, <1>9 DEF Terms
<1>11. \A f \in C : T[f] = -w[f] /\ w[f] \in Int /\ w[f] \in Nat
  BY <1>3, <1>8 DEF Terms
<1>12. Activity(cut, w) = Sum(T, B \cup C)
  <2>1. IsFiniteSet(DOMAIN cut.coef)
    BY <1>8, <1>9, FS_Union
  <2>2. Activity(cut, w) = Sum(Terms(cut, w), DOMAIN cut.coef)
    BY <2>1, ActivityIsSum
  <2> QED BY <1>8, <2>2
<1> HIDE DEF T
<1>13. Sum(T, B \cup C) = Sum(T, B) + Sum(T, C)
  <2>1. \A f \in B \cup C : T[f] \in Int
    BY <1>10, <1>11
  <2> QED BY <1>7, <1>9, <2>1, SumSplits
<1>14. Sum(T, B) = Sum(w, B)
  BY <1>9, <1>10, SumSame
<1>15. Sum(T, C) = -Sum(w, C)
  BY <1>9, <1>11, SumNegated
<1>16. Sum(w, B) \in Nat /\ Sum(w, C) \in Nat
  BY <1>9, <1>10, <1>11, SumType
<1>17. Activity(cut, w) = Sum(w, B) - Sum(w, C)
  BY <1>12, <1>13, <1>14, <1>15, <1>16
<1> QED BY <1>16, <1>17 DEF B, C, p, cut

(* It holds for all sorted matrices, and not for the solution it is for.    *)
LEMMA SCIHolds ==
  ASSUME NEW m, NEW n, NEW u, NEW x, Slim(x, m, n, u), Shape(x, m, n), Sorted(x, m, n),
         NEW v, Shape(v, m, n), NEW t, TableRight(t, v), NEW e \in Leaders(v)
  PROVE  Holds(SCI(v, t, e), x, u)
<1>1. \A f \in Cells(m, n) : x[f] \in Nat
  BY DEF Shape
<1> DEFINE B == Sum(x, Bar(v, e[1], e[2]))
           C == Sum(x, ColumnAt(t, <<e[1] - 1, e[2] - 1>>))
<1>2. Activity(SCI(v, t, e), x) = B - C /\ B \in Nat /\ C \in Nat
  BY <1>1, SCIActivity
<1>3. B <= C
  BY BarFits
<1>4. SCI(v, t, e).rhs = 0 /\ u \in Nat
  BY DEF SCI, Slim
<1> HIDE DEF B, C
<1> QED BY <1>2, <1>3, <1>4 DEF Holds

LEMMA SCIViolated ==
  ASSUME NEW m, NEW n, NEW v, Shape(v, m, n), NEW t, TableRight(t, v), NEW e \in Exceeding(v, t),
         NEW u \in Nat
  PROVE  ~Holds(SCI(v, t, e), v, u)
<1> DEFINE B == Sum(v, Bar(v, e[1], e[2]))
           p == <<e[1] - 1, e[2] - 1>>
           C == Sum(v, ColumnAt(t, p))
<1>1. e \in Leaders(v) /\ B > t[p].weight
  BY DEF Exceeding
<1>2. p \in Lower(v)
  BY <1>1, LeaderIs
<1>3. C = t[p].weight
  BY <1>2, ColumnFacts
<1>4. \A f \in Cells(m, n) : v[f] \in Nat
  BY DEF Shape
<1>5. Activity(SCI(v, t, e), v) = B - C /\ B \in Nat /\ C \in Nat
  BY <1>1, <1>4, SCIActivity
<1>6. SCI(v, t, e).rhs = 0
  BY DEF SCI
<1> HIDE DEF B, C, p
<1> QED BY <1>1, <1>3, <1>5, <1>6 DEF Holds

(* Below zeros, and on the diagonal, shifted columns weigh nothing. *)
LEMMA ColumnLight ==
  ASSUME NEW m, NEW n, NEW v, Shape(v, m, n), NEW t, TableRight(t, v),
         NEW a \in 0 .. n - 1, NEW r \in 0 .. m - 1, \A q \in 0 .. r : v[<<q, a>>] = 0
  PROVE  \A q \in a .. r : t[<<q, a>>].weight = 0
<1> DEFINE Bad == {q \in a .. r : t[<<q, a>>].weight # 0}
<1>1. ASSUME Bad # {} PROVE FALSE
  <2>1. PICK q \in Bad : \A h \in Bad : q <= h
    <3>1. Bad \subseteq Nat
      BY DEF Shape
    <3> HIDE DEF Bad
    <3> QED BY <1>1, <3>1, MinIsLeast
  <2>2. q \in a .. r /\ t[<<q, a>>].weight # 0
    BY <2>1
  <2>3. q \in Nat /\ a \in Nat /\ a <= q /\ q \in 0 .. r /\ q \in 0 .. m - 1
    BY <2>2 DEF Shape
  <2> DEFINE e == <<q, a>>
  <2>4. e \in Lower(v) /\ e[1] = q /\ e[2] = a /\ v[e] = 0
    <3>1. e \in Cells(m, n) /\ DOMAIN v = Cells(m, n)
      BY <2>3 DEF Cells, Shape
    <3>2. e[1] = q /\ e[2] = a
      OBVIOUS
    <3> QED BY <2>3, <3>1, <3>2 DEF Lower
  <2> HIDE DEF e
  <2>5. /\ t[e].weight \in Nat
        /\ e[1] = e[2] => t[e].weight <= v[e]
        /\ e[2] < e[1] => t[e].weight <= v[e] + t[<<e[1] - 1, e[2]>>].weight
    BY <2>4 DEF TableRight
  <2>6. CASE q = a
    <3>1. t[e].weight <= 0
      BY <2>4, <2>5, <2>6
    <3> QED BY <2>2, <2>5, <3>1 DEF e
  <2>7. CASE q # a
    <3>1. q - 1 \in a .. r /\ ~(q <= q - 1) /\ a < q
      BY <2>2, <2>3, <2>7
    <3>2. t[<<q - 1, a>>].weight = 0
      BY <2>1, <3>1
    <3>3. t[e].weight <= 0 + 0
      BY <2>4, <2>5, <3>1, <3>2
    <3> QED BY <2>2, <2>5, <3>3 DEF e
  <2> QED BY <2>6, <2>7
<1> QED BY <1>1

(* A slim matrix that is empty above the diagonal is sorted if and only if  *)
(* no bar exceeds its shifted column.                                       *)
LEMMA SortedFits ==
  ASSUME NEW m, NEW n, NEW u, NEW v, Slim(v, m, n, u), Shape(v, m, n), Sorted(v, m, n),
         NEW t, TableRight(t, v)
  PROVE  Exceeding(v, t) = {}
<1> SUFFICES ASSUME NEW e \in Exceeding(v, t) PROVE FALSE
  OBVIOUS
<1>1. e \in Leaders(v)
  BY DEF Exceeding
<1>2. Holds(SCI(v, t, e), v, u)
  BY <1>1, SCIHolds
<1>3. u \in Nat
  BY DEF Slim
<1> QED BY <1>2, <1>3, SCIViolated

LEMMA UnsortedExceeds ==
  ASSUME NEW m, NEW n, NEW u, NEW v, Slim(v, m, n, u), Shape(v, m, n), ~Sorted(v, m, n),
         \A r \in 0 .. m - 1 : \A d \in 0 .. n - 1 : d > r => v[<<r, d>>] = 0,
         NEW t, TableRight(t, v)
  PROVE  Exceeding(v, t) # {}
<1>1. PICK a \in 0 .. n - 2, r \in 0 .. m - 1 :
         /\ v[<<r, a>>] < v[<<r, a + 1>>]
         /\ ~\E q \in 0 .. r - 1 : v[<<q, a>>] > v[<<q, a + 1>>]
  BY DEF Sorted
<1>2. /\ m \in Nat /\ n \in Nat /\ u \in Nat \ {0} /\ DOMAIN v = Cells(m, n)
      /\ a \in 0 .. n - 1 /\ a + 1 \in 0 .. n - 1 /\ a \in Nat /\ r \in Nat
  BY DEF Slim, Shape
<1>3. \A q \in 0 .. m - 1 : \A d \in 0 .. n - 1 : v[<<q, d>>] \in {0, u} /\ v[<<q, d>>] \in Nat
  BY SlimValue
<1>4. v[<<r, a + 1>>] = u
  <2>1. v[<<r, a + 1>>] \in {0, u} /\ v[<<r, a>>] \in Nat
    BY <1>2, <1>3
  <2> QED BY <1>1, <1>2, <2>1
<1>5. a + 1 <= r
  BY <1>2, <1>4
<1>6. \A q \in 0 .. r - 1 : v[<<q, a>>] = 0
  <2>1. SUFFICES ASSUME NEW q \in 0 .. r - 1, v[<<q, a>>] # 0 PROVE FALSE
    OBVIOUS
  <2>2. q \in 0 .. m - 1
    BY <1>2
  <2>3. v[<<q, a + 1>>] = 0
    <3>1. a # a + 1
      BY <1>2
    <3> QED BY <1>2, <2>1, <2>2, <3>1 DEF Slim
  <2>4. v[<<q, a>>] \in Nat
    BY <1>2, <1>3, <2>2
  <2>5. v[<<q, a>>] > v[<<q, a + 1>>]
    BY <2>1, <2>3, <2>4
  <2> QED BY <1>1, <2>5
<1> DEFINE e == <<r, a + 1>>
           B == Bar(v, e[1], e[2])
<1>7. e \in Leaders(v) /\ e[1] = r /\ e[2] = a + 1 /\ e \in Cells(m, n)
  <2>1. e \in Cells(m, n) /\ e[1] = r /\ e[2] = a + 1
    BY <1>2 DEF Cells
  <2>2. e[2] > 0 /\ e[2] <= e[1]
    BY <1>2, <1>5, <2>1
  <2> QED BY <1>2, <2>1, <2>2 DEF Leaders, Lower
<1>8. e \in B
  <2>1. NC(v) = n
    BY Size DEF Shape
  <2>2. a + 1 \in a + 1 .. LastColumn(v, r)
    BY <1>2, <1>5, <2>1 DEF LastColumn
  <2> QED BY <1>7, <2>2 DEF Bar
<1>9. \A f \in B : f \in Cells(m, n)
  <2> HIDE DEF e
  <2> QED BY <1>7, BarIs
<1>10. IsFiniteSet(B) /\ \A f \in B : v[f] \in Nat
  <2>1. B \subseteq Cells(m, n)
    BY <1>9
  <2> HIDE DEF B, e
  <2>2. IsFiniteSet(B)
    BY <1>2, <2>1, CellsFinite
  <2> QED BY <2>1, <2>2 DEF Shape
<1>11. v[e] <= Sum(v, B) /\ Sum(v, B) \in Nat
  <2> HIDE DEF B, e
  <2>1. v[e] <= Sum(v, B)
    BY <1>8, <1>10, SumAbove
  <2>2. Sum(v, B) \in Nat
    BY <1>10, SumType
  <2> QED BY <2>1, <2>2
<1>12. t[<<r - 1, a>>].weight = 0
  <2> DEFINE q == r - 1
  <2>1. q \in 0 .. m - 1 /\ q \in a .. q
    BY <1>2, <1>5
  <2>2. \A h \in 0 .. q : v[<<h, a>>] = 0
    BY <1>6
  <2> HIDE DEF q
  <2>3. \A h \in a .. q : t[<<h, a>>].weight = 0
    BY <1>2, <2>1, <2>2, ColumnLight
  <2> QED BY <2>1, <2>3 DEF q
<1>13. <<e[1] - 1, e[2] - 1>> = <<r - 1, a>>
  <2>1. (a + 1) - 1 = a
    BY <1>2
  <2> QED BY <1>7, <2>1
<1>14. Sum(v, B) > t[<<e[1] - 1, e[2] - 1>>].weight
  <2>1. Sum(v, B) > 0
    BY <1>2, <1>4, <1>11
  <2> QED BY <1>12, <1>13, <2>1
<1> QED BY <1>7, <1>14 DEF Exceeding

(* The columns of a full orbitope, pair by pair. *)
LEMMA FullSortedIs ==
  ASSUME NEW m, NEW n, NEW v, Shape(v, m, n)
  PROVE  FullSorted(v) <=> Sorted(v, m, n)
<1>1. NR(v) = m /\ NC(v) = n /\ m \in Nat /\ n \in Nat
  BY Size DEF Shape
<1>2. \A q \in 0 .. m - 1 : \A a \in 0 .. n - 2 : v[<<q, a>>] \in Nat /\ v[<<q, a + 1>>] \in Nat
  <2> TAKE q \in 0 .. m - 1
  <2> TAKE a \in 0 .. n - 2
  <2>1. a \in 0 .. n - 1 /\ a + 1 \in 0 .. n - 1
    BY <1>1
  <2>2. <<q, a>> \in Cells(m, n) /\ <<q, a + 1>> \in Cells(m, n)
    BY <2>1 DEF Cells
  <2> QED BY <2>2 DEF Shape
<1>3. ASSUME NEW a \in 0 .. n - 2
      PROVE  PairSorted(v, a) <=>
               \A r \in 0 .. m - 1 :
                 v[<<r, a>>] < v[<<r, a + 1>>] => \E q \in 0 .. r - 1 : v[<<q, a>>] > v[<<q, a + 1>>]
  <2> DEFINE D == {r \in 0 .. m - 1 : v[<<r, a>>] # v[<<r, a + 1>>]}
             f == Min(D)
  <2>1. PairSorted(v, a) <=> D = {} \/ v[<<f, a>>] > v[<<f, a + 1>>]
    BY <1>1 DEF PairSorted
  <2>2. D # {} => f \in D /\ \A y \in D : f <= y
    <3>1. D \subseteq Nat
      BY <1>1
    <3> HIDE DEF D
    <3>2. D # {} => \E z \in D : \A y \in D : z <= y
      BY <3>1, MinIsLeast
    <3> QED BY <3>2 DEF Min
  <2> HIDE DEF f
  <2>3. ASSUME D = {} \/ v[<<f, a>>] > v[<<f, a + 1>>], NEW r \in 0 .. m - 1,
               v[<<r, a>>] < v[<<r, a + 1>>]
        PROVE  \E q \in 0 .. r - 1 : v[<<q, a>>] > v[<<q, a + 1>>]
    <3>1. r \in D
      BY <1>2, <2>3
    <3>2. f \in D /\ f <= r /\ v[<<f, a>>] > v[<<f, a + 1>>]
      BY <2>2, <2>3, <3>1
    <3>3. f \in 0 .. m - 1 /\ f # r
      BY <1>2, <2>3, <3>2
    <3>4. f \in 0 .. r - 1
      BY <1>1, <3>2, <3>3
    <3> QED BY <3>2, <3>4
  <2>4. ASSUME \A r \in 0 .. m - 1 :
                 v[<<r, a>>] < v[<<r, a + 1>>] => \E q \in 0 .. r - 1 : v[<<q, a>>] > v[<<q, a + 1>>],
               D # {}
        PROVE  v[<<f, a>>] > v[<<f, a + 1>>]
    <3>1. f \in D /\ f \in 0 .. m - 1 /\ v[<<f, a>>] # v[<<f, a + 1>>]
      BY <2>2, <2>4
    <3>2. ASSUME v[<<f, a>>] < v[<<f, a + 1>>] PROVE FALSE
      <4>1. PICK q \in 0 .. f - 1 : v[<<q, a>>] > v[<<q, a + 1>>]
        BY <2>4, <3>1, <3>2
      <4>2. q \in 0 .. m - 1 /\ ~(f <= q)
        BY <1>1, <3>1
      <4>3. q \in D
        BY <1>2, <4>1, <4>2
      <4> QED BY <2>2, <2>4, <4>2, <4>3
    <3> QED BY <1>2, <3>1, <3>2
  <2> HIDE DEF D
  <2> QED BY <2>1, <2>3, <2>4
<1> QED BY <1>1, <1>3 DEF FullSorted, Sorted

-------------------------------------------------------------------------------
(***************************************************************************)
(* Cover inequalities.                                                     *)
(***************************************************************************)

(* What coefficients add up to. *)
Load(co, x) == Sum([e \in DOMAIN co |-> co[e] * x[e]], DOMAIN co)

LEMMA LoadIsActivity ==
  ASSUME NEW cut, NEW x, IsFiniteSet(DOMAIN cut.coef)
  PROVE  Activity(cut, x) = Load(cut.coef, x)
BY ActivityIsSum DEF Load, Terms

(* The coefficients new are co and those of two other entries. *)
TwoMore(new, co, x, a, b) ==
  /\ IsFiniteSet(DOMAIN co)
  /\ \A e \in DOMAIN co : co[e] \in Int /\ x[e] \in Int
  /\ a # b /\ a \notin DOMAIN co /\ b \notin DOMAIN co /\ x[a] \in Int /\ x[b] \in Int
  /\ DOMAIN new = DOMAIN co \cup {a, b} /\ \A e \in DOMAIN co : new[e] = co[e]
  /\ new[a] \in {-1, 0, 1} /\ new[b] \in {-1, 0, 1}

Grown(new, co, x, a, b) ==
  Load(co, x) \in Int /\ Load(new, x) = Load(co, x) + (new[a] * x[a] + new[b] * x[b])

LEMMA LoadGrows ==
  ASSUME NEW co, NEW x, NEW a, NEW b, NEW new, TwoMore(new, co, x, a, b)
  PROVE  Grown(new, co, x, a, b)
<1> DEFINE D == DOMAIN co
           f == [e \in D |-> co[e] * x[e]]
           g == [e \in DOMAIN new |-> new[e] * x[e]]
<1>3. \A e \in D : g[e] = f[e] /\ f[e] \in Int /\ g[e] \in Int
  BY DEF TwoMore
<1>4. g[a] = new[a] * x[a] /\ g[b] = new[b] * x[b] /\ g[a] \in Int /\ g[b] \in Int
  BY DEF TwoMore
<1>5. Load(new, x) = Sum(g, D \cup {a, b}) /\ Load(co, x) = Sum(f, D)
  BY DEF Load, TwoMore
<1> HIDE DEF D, f, g
<1>6. a # b /\ a \notin D /\ b \notin D /\ IsFiniteSet(D)
  BY DEF D, TwoMore
<1>7. Sum(g, D) = Sum(f, D) /\ Sum(f, D) \in Int
  BY <1>3, <1>6, SumSame, SumType
<1>8. Sum(g, D \cup {a}) = g[a] + Sum(g, D)
  <2>1. \A e \in D \cup {a} : g[e] \in Int
    BY <1>3, <1>4
  <2> QED BY <1>6, <2>1, SumAdds
<1>9. Sum(g, (D \cup {a}) \cup {b}) = g[b] + Sum(g, D \cup {a})
  <2>1. \A e \in (D \cup {a}) \cup {b} : g[e] \in Int
    BY <1>3, <1>4
  <2>2. IsFiniteSet(D \cup {a}) /\ b \notin D \cup {a}
    BY <1>6, FS_AddElement
  <2> QED BY <2>1, <2>2, SumAdds
<1>10. (D \cup {a}) \cup {b} = D \cup {a, b}
  OBVIOUS
<1>11. Load(new, x) = Load(co, x) + (g[a] + g[b]) /\ Load(co, x) \in Int
  <2>1. Load(new, x) = g[b] + (g[a] + Sum(f, D))
    BY <1>5, <1>7, <1>8, <1>9, <1>10
  <2>2. Sum(f, D) \in Int /\ Load(co, x) = Sum(f, D)
    BY <1>5, <1>7
  <2>3. g[b] + (g[a] + Sum(f, D)) = Sum(f, D) + (g[a] + g[b])
    BY <1>4, <2>2
  <2> QED BY <2>1, <2>2, <2>3
<1> QED BY <1>4, <1>11 DEF Grown

(* The state the separation of covers goes through. *)
IsState(s) == s = [lhs |-> s.lhs, rhs |-> s.rhs, coef |-> s.coef, cuts |-> s.cuts]

Little(v, u, d, i) == u - (v[<<i, d>>] + v[<<i, d + 1>>]) > 0

(* z is the state after row i of columns d and d + 1. *)
Stepped(z, s, v, u, d, i) ==
  /\ IsState(z)
  /\ z.cuts = IF v[<<i, d + 1>>] - v[<<i, d>>] + s.lhs - s.rhs > 0
                THEN s.cuts \cup {[coef |-> RowTerms(s.coef, i, d, -1, 1), rhs |-> s.rhs \div u]}
                ELSE s.cuts
  /\ z.coef = RowTerms(s.coef, i, d, IF Little(v, u, d, i) \/ i = 0 THEN -1 ELSE 0,
                                     IF ~Little(v, u, d, i) \/ i = 0 THEN 1 ELSE 0)
  /\ z.lhs = IF Little(v, u, d, i)
              THEN s.lhs - v[<<i, d>>] + (IF i = 0 THEN v[<<i, d + 1>>] ELSE 0)
              ELSE s.lhs + v[<<i, d>>] - (IF i = 0 THEN v[<<i, d>>] ELSE 0)
  /\ z.rhs = IF Little(v, u, d, i) \/ i = 0 THEN s.rhs ELSE s.rhs + u

LEMMA CoverStepIs ==
  ASSUME NEW s, IsState(s), NEW v, NEW u, NEW d, NEW i
  PROVE  Stepped(CoverStep(s, v, u, d, i), s, v, u, d, i)
<1> DEFINE z == CoverStep(s, v, u, d, i)
           F == {"lhs", "rhs", "coef", "cuts"}
<1>1. DOMAIN s = F /\ s = [k \in F |-> s[k]]
  BY DEF IsState
<1>2. DOMAIN z = F /\ z = [k \in F |-> z[k]]
  BY <1>1 DEF CoverStep
<1>3. IsState(z)
  BY <1>2 DEF IsState
<1> QED BY <1>1, <1>3 DEF CoverStep, Little, Stepped

(* What holds of the state after i rows of columns d and d + 1: for a       *)
(* sorted x the cover adds up to at most the right-hand side, and to less   *)
(* when a row of x has already decided.                                     *)
Decides(x, d, i) == \E q \in 0 .. i - 1 : x[<<q, d>>] > x[<<q, d + 1>>]

Covering(s, m, n, u, x, d, i, N) ==
  /\ IsState(s)
  /\ N \in Nat /\ s.rhs = u * N
  /\ DOMAIN s.coef = (0 .. i - 1) \X {d, d + 1}
  /\ \A e \in DOMAIN s.coef : s.coef[e] \in Int
  /\ Load(s.coef, x) + (IF Decides(x, d, i) THEN 1 ELSE 0) <= N
  /\ \A cut \in s.cuts : Holds(cut, x, 1)

LEMMA Quotient ==
  ASSUME NEW u \in Nat \ {0}, NEW N \in Nat
  PROVE  (u * N) \div u = N
OBVIOUS

LEMMA CoverStepKeeps ==
  ASSUME NEW m \in Nat \ {0}, NEW n \in Nat \ {0}, NEW u \in Nat \ {0},
         NEW x \in [Cells(m, n) -> 0 .. 1], Sorted(x, m, n),
         NEW v, NEW s, NEW d \in 0 .. n - 2, NEW i \in 0 .. m - 1, NEW N,
         Covering(s, m, n, u, x, d, i, N)
  PROVE  \E M : Covering(CoverStep(s, v, u, d, i), m, n, u, x, d, i + 1, M)
<1> DEFINE z == CoverStep(s, v, u, d, i)
           a == x[<<i, d>>]
           b == x[<<i, d + 1>>]
           D == DOMAIN s.coef
           G == IF Decides(x, d, i) THEN 1 ELSE 0
           l == IF Little(v, u, d, i) \/ i = 0 THEN -1 ELSE 0
           r == IF ~Little(v, u, d, i) \/ i = 0 THEN 1 ELSE 0
           M == IF Little(v, u, d, i) \/ i = 0 THEN N ELSE N + 1
           C == RowTerms(s.coef, i, d, -1, 1)
<1>1. d \in Int /\ i \in Int /\ d + 1 \in 0 .. n - 1 /\ d \in 0 .. n - 1
  OBVIOUS
<1>2. a \in {0, 1} /\ b \in {0, 1}
  <2>1. <<i, d>> \in Cells(m, n) /\ <<i, d + 1>> \in Cells(m, n)
    BY <1>1 DEF Cells
  <2> QED BY <2>1
<1>3. D = (0 .. i - 1) \X {d, d + 1} /\ \A e \in D : s.coef[e] \in Int
  BY DEF Covering
<1>4. <<i, d>> \notin D /\ <<i, d + 1>> \notin D
  BY <1>3
<1>5. \A e \in D : x[e] \in Int
  <2>1. \A e \in D : e \in Cells(m, n)
    BY <1>1, <1>3 DEF Cells
  <2> QED BY <2>1
<1>6. IsFiniteSet(D)
  <2>1. D \subseteq Cells(m, n)
    BY <1>1, <1>3 DEF Cells
  <2> HIDE DEF D
  <2> QED BY <2>1, CellsFinite
<1>7. ASSUME NEW p \in {-1, 0, 1}, NEW q \in {-1, 0, 1}
      PROVE  /\ Load(RowTerms(s.coef, i, d, p, q), x) = Load(s.coef, x) + (p * a + q * b)
             /\ Load(s.coef, x) \in Int
  <2> DEFINE co == s.coef
  <2>1. /\ IsFiniteSet(DOMAIN co)
        /\ \A e \in DOMAIN co : co[e] \in Int
        /\ \A e \in DOMAIN co : x[e] \in Int
    BY <1>3, <1>5, <1>6
  <2> DEFINE f == <<i, d>>
             g == <<i, d + 1>>
             new == RowTerms(co, i, d, p, q)
  <2>2. /\ f # g /\ f \notin DOMAIN co /\ g \notin DOMAIN co
        /\ x[f] \in Int /\ x[g] \in Int
    BY <1>1, <1>2, <1>4
  <2>3. /\ DOMAIN new = DOMAIN co \cup {f, g}
        /\ \A e \in DOMAIN co : new[e] = co[e]
        /\ new[f] = p /\ new[g] = q
    BY <2>2 DEF RowTerms
  <2>4. new[f] \in {-1, 0, 1} /\ new[g] \in {-1, 0, 1}
    BY <2>3
  <2> HIDE DEF co, D, f, g, new
  <2>5. TwoMore(new, co, x, f, g)
    BY <2>1, <2>2, <2>3, <2>4 DEF TwoMore
  <2>6. Grown(new, co, x, f, g)
    BY <2>5, LoadGrows
  <2>7. Load(co, x) \in Int /\ Load(new, x) = Load(co, x) + (p * x[f] + q * x[g])
    BY <2>3, <2>6 DEF Grown
  <2> QED BY <2>7 DEF co, f, g, new
<1>8. Load(C, x) = Load(s.coef, x) + (b - a) /\ Load(s.coef, x) \in Int
  <2> DEFINE p == -1
             q == 1
  <2>1. p \in {-1, 0, 1} /\ q \in {-1, 0, 1}
    OBVIOUS
  <2>2. C = RowTerms(s.coef, i, d, p, q)
    OBVIOUS
  <2> HIDE DEF p, q, C, a, b
  <2>3. Load(C, x) = Load(s.coef, x) + (p * a + q * b) /\ Load(s.coef, x) \in Int
    BY <1>7, <2>1, <2>2
  <2>4. p * a + q * b = b - a
    BY <1>2 DEF p, q
  <2> QED BY <2>3, <2>4
<1>9. a < b => Decides(x, d, i)
  BY DEF Sorted, Decides
<1>10. Load(s.coef, x) + G <= N /\ N \in Nat /\ s.rhs = u * N /\ IsState(s)
  BY DEF Covering
<1>11. G \in {0, 1} /\ (a < b => G = 1)
  BY <1>9
<1>12. Load(C, x) <= N
  <2> HIDE DEF a, b, G, C
  <2> QED BY <1>2, <1>8, <1>10, <1>11
<1>13. Holds([coef |-> C, rhs |-> s.rhs \div u], x, 1)
  <2> DEFINE cut == [coef |-> C, rhs |-> s.rhs \div u]
  <2>1. s.rhs \div u = N
    BY <1>10, Quotient
  <2>2. IsFiniteSet(DOMAIN C)
    <3> DEFINE f == <<i, d>>
               g == <<i, d + 1>>
    <3>1. DOMAIN C = (D \cup {f}) \cup {g}
      BY DEF RowTerms
    <3> HIDE DEF f, g, C, D
    <3>2. IsFiniteSet(D \cup {f})
      BY <1>6, FS_AddElement
    <3>3. IsFiniteSet((D \cup {f}) \cup {g})
      BY <3>2, FS_AddElement
    <3> QED BY <3>1, <3>3
  <2>3. cut.coef = C /\ cut.rhs = N
    BY <2>1
  <2> HIDE DEF cut, C
  <2>4. Activity(cut, x) = Load(C, x)
    BY <2>2, <2>3, LoadIsActivity
  <2>5. 1 * N = N
    BY <1>10
  <2> QED BY <1>12, <2>3, <2>4, <2>5 DEF Holds, cut
<1>14. /\ IsState(z)
       /\ z.cuts \subseteq s.cuts \cup {[coef |-> C, rhs |-> s.rhs \div u]}
       /\ z.coef = RowTerms(s.coef, i, d, l, r)
       /\ z.rhs = IF Little(v, u, d, i) \/ i = 0 THEN s.rhs ELSE s.rhs + u
  <2>1. Stepped(z, s, v, u, d, i)
    BY <1>10, CoverStepIs
  <2> HIDE DEF z
  <2> QED BY <2>1 DEF Stepped
<1> HIDE DEF z
<1>15. \A cut \in z.cuts : Holds(cut, x, 1)
  <2> HIDE DEF C
  <2> QED BY <1>13, <1>14 DEF Covering
<1>16. M \in Nat /\ z.rhs = u * M
  <2>1. u * (N + 1) = u * N + u
    BY <1>10
  <2> QED BY <1>10, <1>14, <2>1
<1>17. DOMAIN z.coef = (0 .. i) \X {d, d + 1} /\ \A e \in DOMAIN z.coef : z.coef[e] \in Int
  <2>1. DOMAIN z.coef = D \cup {<<i, d>>, <<i, d + 1>>}
    BY <1>14 DEF RowTerms
  <2>2. \A e \in DOMAIN z.coef : z.coef[e] \in {l, r} \/ (e \in D /\ z.coef[e] = s.coef[e])
    BY <1>14 DEF RowTerms
  <2>3. \A q \in Int : q \in 0 .. i <=> q \in 0 .. i - 1 \/ q = i
    BY <1>1
  <2>4. \A q \in 0 .. i - 1 : q \in Int
    OBVIOUS
  <2>5. DOMAIN z.coef = (0 .. i) \X {d, d + 1}
    BY <1>3, <2>1, <2>3, <2>4
  <2>6. l \in Int /\ r \in Int
    OBVIOUS
  <2> QED BY <1>3, <2>2, <2>5, <2>6
<1>18. Load(z.coef, x) = Load(s.coef, x) + (l * a + r * b)
  <2>1. l \in {-1, 0, 1} /\ r \in {-1, 0, 1}
    OBVIOUS
  <2> HIDE DEF l, r, a, b
  <2> QED BY <1>7, <1>14, <2>1
<1>19. Decides(x, d, i + 1) <=> Decides(x, d, i) \/ a > b
  <2>1. \A q \in 0 .. (i + 1) - 1 : q \in 0 .. i - 1 \/ q = i
    BY <1>1
  <2>2. \A q \in 0 .. i - 1 : q \in 0 .. (i + 1) - 1
    BY <1>1
  <2>3. i \in 0 .. (i + 1) - 1
    BY <1>1
  <2> QED BY <2>1, <2>2, <2>3 DEF Decides
<1>20. i = 0 => ~Decides(x, d, i)
  BY DEF Decides
<1>21. Load(z.coef, x) + (IF Decides(x, d, i + 1) THEN 1 ELSE 0) <= M
  <2> DEFINE S == Load(s.coef, x)
             T == Load(z.coef, x)
             H == IF Decides(x, d, i + 1) THEN 1 ELSE 0
  <2>1. H = IF G = 1 \/ a > b THEN 1 ELSE 0
    BY <1>19
  <2>2. i = 0 => ~(a < b)
    BY <1>9, <1>20
  <2>3. S \in Int /\ S + G <= N /\ T = S + (l * a + r * b)
    BY <1>8, <1>10, <1>18
  <2>4. G \in {0, 1} /\ (i = 0 => G = 0)
    BY <1>20
  <2> HIDE DEF S, T, H, G, a, b
  <2>5. CASE i = 0
    <3>1. T = S + (b - a) /\ M = N
      BY <1>2, <2>3, <2>5
    <3> QED BY <1>2, <1>10, <2>1, <2>2, <2>3, <2>4, <2>5, <3>1 DEF S, T, H
  <2>6. CASE i # 0 /\ Little(v, u, d, i)
    <3>1. T = S - a /\ M = N
      BY <1>2, <2>3, <2>6
    <3> QED BY <1>2, <1>10, <2>1, <2>3, <2>4, <3>1 DEF S, T, H
  <2>7. CASE i # 0 /\ ~Little(v, u, d, i)
    <3>1. T = S + b /\ M = N + 1
      BY <1>2, <2>3, <2>7
    <3> QED BY <1>2, <1>10, <2>1, <2>3, <2>4, <3>1 DEF S, T, H
  <2> QED BY <2>5, <2>6, <2>7
<1>22. (i + 1) - 1 = i
  BY <1>1
<1>23. Covering(z, m, n, u, x, d, i + 1, M)
  <2> HIDE DEF M
  <2> QED BY <1>14, <1>15, <1>16, <1>17, <1>21, <1>22 DEF Covering
<1> QED BY <1>23 DEF z

(* The state after i rows of a pair of columns, after d pairs of columns.   *)
PairAt(F, s, v, u, d, i) ==
  IF i = 0 THEN [s EXCEPT !.coef = <<>>] ELSE CoverStep(F[i - 1], v, u, d, i - 1)

ColumnsAt(F, v, u, d) ==
  IF d = 0 THEN [lhs |-> 0, rhs |-> 0, coef |-> <<>>, cuts |-> {}]
  ELSE CoverPair(F[d - 1], v, u, d - 1)

PairRun(F, s, v, u, d, k) == F = [i \in 0 .. k |-> PairAt(F, s, v, u, d, i)]

ColumnsRun(F, v, u, k) == F = [d \in 0 .. k |-> ColumnsAt(F, v, u, d)]

LEMMA PairRunExists ==
  ASSUME NEW s, NEW v, NEW u, NEW d, NEW k \in Nat
  PROVE  \E F : PairRun(F, s, v, u, d, k)
<1> DEFINE Bad == {h \in Nat : ~\E F : PairRun(F, s, v, u, d, h)}
<1>1. ASSUME Bad # {} PROVE FALSE
  <2>1. PICK h \in Bad : \A g \in Bad : h <= g
    <3>1. Bad \subseteq Nat
      OBVIOUS
    <3> HIDE DEF Bad
    <3> QED BY <1>1, <3>1, MinIsLeast
  <2>2. h \in Nat /\ ~\E F : PairRun(F, s, v, u, d, h)
    BY <2>1
  <2>3. CASE h = 0
    <3> DEFINE F == [i \in 0 .. 0 |-> PairAt(<<>>, s, v, u, d, 0)]
    <3>1. \A i \in 0 .. 0 : i = 0
      OBVIOUS
    <3>2. \A G : PairAt(G, s, v, u, d, 0) = PairAt(<<>>, s, v, u, d, 0)
      BY DEF PairAt
    <3>3. F = [i \in 0 .. 0 |-> PairAt(F, s, v, u, d, i)]
      BY <3>1, <3>2
    <3> HIDE DEF F
    <3>4. PairRun(F, s, v, u, d, 0)
      BY <3>3 DEF PairRun
    <3> QED BY <2>2, <2>3, <3>4
  <2>4. CASE h # 0
    <3>1. h - 1 \in Nat /\ ~(h <= h - 1)
      BY <2>2, <2>4
    <3>2. PICK G : PairRun(G, s, v, u, d, h - 1)
      <4>1. h - 1 \notin Bad
        BY <2>1, <3>1
      <4> QED BY <3>1, <4>1
    <3> DEFINE F == [i \in 0 .. h |-> PairAt(G, s, v, u, d, i)]
    <3>3. G = [i \in 0 .. h - 1 |-> PairAt(G, s, v, u, d, i)]
      BY <3>2 DEF PairRun
    <3>4. \A i \in 0 .. h - 1 : F[i] = G[i]
      <4> TAKE i \in 0 .. h - 1
      <4>1. i \in 0 .. h
        BY <2>2
      <4>2. F[i] = PairAt(G, s, v, u, d, i)
        BY <4>1
      <4> HIDE DEF F
      <4>3. G[i] = PairAt(G, s, v, u, d, i)
        BY <3>3
      <4> QED BY <4>2, <4>3
    <3>5. \A i \in 0 .. h : PairAt(G, s, v, u, d, i) = PairAt(F, s, v, u, d, i)
      <4> TAKE i \in 0 .. h
      <4>1. i # 0 => i - 1 \in 0 .. h - 1
        BY <2>2
      <4>2. i # 0 => F[i - 1] = G[i - 1]
        BY <3>4, <4>1
      <4> HIDE DEF F
      <4> QED BY <4>2 DEF PairAt
    <3>6. F = [i \in 0 .. h |-> PairAt(F, s, v, u, d, i)]
      <4>1. F = [i \in 0 .. h |-> PairAt(G, s, v, u, d, i)]
        OBVIOUS
      <4> HIDE DEF F
      <4> QED BY <3>5, <4>1
    <3> HIDE DEF F
    <3>7. PairRun(F, s, v, u, d, h)
      BY <3>6 DEF PairRun
    <3> QED BY <2>2, <3>7
  <2> QED BY <2>3, <2>4
<1> QED BY <1>1

LEMMA PairRuns ==
  ASSUME NEW s, NEW v, NR(v) \in Nat, NEW u, NEW d
  PROVE  \E F : PairRun(F, s, v, u, d, NR(v)) /\ CoverPair(s, v, u, d) = F[NR(v)]
<1> DEFINE W == CHOOSE F : F = [i \in 0 .. NR(v) |-> PairAt(F, s, v, u, d, i)]
<1>1. CoverPair(s, v, u, d) = W[NR(v)]
  BY Zenon DEF CoverPair, PairAt
<1>2. \E F : PairRun(F, s, v, u, d, NR(v))
  BY PairRunExists
<1>3. W = [i \in 0 .. NR(v) |-> PairAt(W, s, v, u, d, i)]
  BY <1>2, Zenon DEF PairRun
<1> HIDE DEF W
<1> QED BY <1>1, <1>3 DEF PairRun

LEMMA ColumnsRunExists ==
  ASSUME NEW v, NEW u, NEW k \in Nat
  PROVE  \E F : ColumnsRun(F, v, u, k)
<1> DEFINE Bad == {h \in Nat : ~\E F : ColumnsRun(F, v, u, h)}
<1>1. ASSUME Bad # {} PROVE FALSE
  <2>1. PICK h \in Bad : \A g \in Bad : h <= g
    <3>1. Bad \subseteq Nat
      OBVIOUS
    <3> HIDE DEF Bad
    <3> QED BY <1>1, <3>1, MinIsLeast
  <2>2. h \in Nat /\ ~\E F : ColumnsRun(F, v, u, h)
    BY <2>1
  <2>3. CASE h = 0
    <3> DEFINE F == [d \in 0 .. 0 |-> ColumnsAt(<<>>, v, u, 0)]
    <3>1. \A d \in 0 .. 0 : d = 0
      OBVIOUS
    <3>2. \A G : ColumnsAt(G, v, u, 0) = ColumnsAt(<<>>, v, u, 0)
      BY DEF ColumnsAt
    <3>3. F = [d \in 0 .. 0 |-> ColumnsAt(F, v, u, d)]
      BY <3>1, <3>2
    <3> HIDE DEF F
    <3>4. ColumnsRun(F, v, u, 0)
      BY <3>3 DEF ColumnsRun
    <3> QED BY <2>2, <2>3, <3>4
  <2>4. CASE h # 0
    <3>1. h - 1 \in Nat /\ ~(h <= h - 1)
      BY <2>2, <2>4
    <3>2. PICK G : ColumnsRun(G, v, u, h - 1)
      <4>1. h - 1 \notin Bad
        BY <2>1, <3>1
      <4> QED BY <3>1, <4>1
    <3> DEFINE F == [d \in 0 .. h |-> ColumnsAt(G, v, u, d)]
    <3>3. G = [d \in 0 .. h - 1 |-> ColumnsAt(G, v, u, d)]
      BY <3>2 DEF ColumnsRun
    <3>4. \A d \in 0 .. h - 1 : F[d] = G[d]
      <4> TAKE d \in 0 .. h - 1
      <4>1. d \in 0 .. h
        BY <2>2
      <4>2. F[d] = ColumnsAt(G, v, u, d)
        BY <4>1
      <4> HIDE DEF F
      <4>3. G[d] = ColumnsAt(G, v, u, d)
        BY <3>3
      <4> QED BY <4>2, <4>3
    <3>5. \A d \in 0 .. h : ColumnsAt(G, v, u, d) = ColumnsAt(F, v, u, d)
      <4> TAKE d \in 0 .. h
      <4>1. d # 0 => d - 1 \in 0 .. h - 1
        BY <2>2
      <4>2. d # 0 => F[d - 1] = G[d - 1]
        BY <3>4, <4>1
      <4> HIDE DEF F
      <4> QED BY <4>2 DEF ColumnsAt
    <3>6. F = [d \in 0 .. h |-> ColumnsAt(F, v, u, d)]
      <4>1. F = [d \in 0 .. h |-> ColumnsAt(G, v, u, d)]
        OBVIOUS
      <4> HIDE DEF F
      <4> QED BY <3>5, <4>1
    <3> HIDE DEF F
    <3>7. ColumnsRun(F, v, u, h)
      BY <3>6 DEF ColumnsRun
    <3> QED BY <2>2, <3>7
  <2> QED BY <2>3, <2>4
<1> QED BY <1>1

LEMMA ColumnsRuns ==
  ASSUME NEW v, NC(v) - 1 \in Nat, NEW u
  PROVE  \E F : ColumnsRun(F, v, u, NC(v) - 1) /\ Covers(v, u) = F[NC(v) - 1].cuts
<1> DEFINE W == CHOOSE F : F = [d \in 0 .. NC(v) - 1 |-> ColumnsAt(F, v, u, d)]
<1>1. Covers(v, u) = W[NC(v) - 1].cuts
  BY Zenon DEF Covers, ColumnsAt
<1>2. \E F : ColumnsRun(F, v, u, NC(v) - 1)
  <2> DEFINE k == NC(v) - 1
  <2>1. k \in Nat
    OBVIOUS
  <2> HIDE DEF k
  <2>2. \E F : ColumnsRun(F, v, u, k)
    BY <2>1, ColumnsRunExists
  <2> QED BY <2>2 DEF k
<1>3. W = [d \in 0 .. NC(v) - 1 |-> ColumnsAt(W, v, u, d)]
  BY <1>2, Zenon DEF ColumnsRun
<1> HIDE DEF W
<1> QED BY <1>1, <1>3 DEF ColumnsRun

(* A state with inequalities that hold for x. *)
Valid(s, u, x) ==
  IsState(s) /\ (\E N \in Nat : s.rhs = u * N) /\ \A cut \in s.cuts : Holds(cut, x, 1)

LEMMA ResetIs ==
  ASSUME NEW s, IsState(s), NEW z, z = [s EXCEPT !.coef = <<>>]
  PROVE  IsState(z) /\ z.lhs = s.lhs /\ z.rhs = s.rhs /\ z.cuts = s.cuts /\ z.coef = <<>>
<1> DEFINE F == {"lhs", "rhs", "coef", "cuts"}
<1>1. DOMAIN s = F /\ s = [k \in F |-> s[k]]
  BY DEF IsState
<1>2. DOMAIN z = F /\ z = [k \in F |-> z[k]]
  BY <1>1
<1>3. IsState(z)
  BY <1>2 DEF IsState
<1> QED BY <1>1, <1>3

LEMMA PairKeeps ==
  ASSUME NEW m \in Nat \ {0}, NEW n \in Nat \ {0}, NEW u \in Nat \ {0},
         NEW x \in [Cells(m, n) -> 0 .. 1], Sorted(x, m, n),
         NEW v, NR(v) = m, NEW s, Valid(s, u, x), NEW d \in 0 .. n - 2
  PROVE  Valid(CoverPair(s, v, u, d), u, x)
<1>1. PICK F : PairRun(F, s, v, u, d, m) /\ CoverPair(s, v, u, d) = F[m]
  BY PairRuns
<1>2. \A i \in 0 .. m : F[i] = PairAt(F, s, v, u, d, i)
  BY <1>1 DEF PairRun
<1> DEFINE Fine(i) == \E N : Covering(F[i], m, n, u, x, d, i, N)
           Bad == {i \in 0 .. m : ~Fine(i)}
<1>3. Fine(0)
  <2> DEFINE z == F[0]
  <2>1. z = [s EXCEPT !.coef = <<>>]
    BY <1>2 DEF PairAt
  <2>2. IsState(s)
    BY DEF Valid
  <2> HIDE DEF z
  <2>3. IsState(z) /\ z.rhs = s.rhs /\ z.cuts = s.cuts /\ z.coef = <<>>
    BY <2>1, <2>2, ResetIs
  <2>4. PICK N \in Nat : s.rhs = u * N
    BY DEF Valid
  <2>5. DOMAIN z.coef = {} /\ (0 .. 0 - 1) \X {d, d + 1} = {}
    <3>1. DOMAIN <<>> = {}
      OBVIOUS
    <3>2. 0 .. 0 - 1 = {}
      OBVIOUS
    <3> QED BY <2>3, <3>1, <3>2
  <2>6. Load(z.coef, x) = 0
    BY <2>5, SumEmpty DEF Load
  <2>7. ~Decides(x, d, 0)
    BY DEF Decides
  <2>8. Covering(z, m, n, u, x, d, 0, N)
    BY <2>3, <2>4, <2>5, <2>6, <2>7 DEF Covering, Valid
  <2> QED BY <2>8 DEF z
<1>4. ASSUME Bad # {} PROVE FALSE
  <2>1. PICK i \in Bad : \A g \in Bad : i <= g
    <3>1. Bad \subseteq Nat
      OBVIOUS
    <3> HIDE DEF Bad
    <3> QED BY <1>4, <3>1, MinIsLeast
  <2>2. i \in 0 .. m /\ ~Fine(i)
    BY <2>1
  <2>3. i # 0
    <3> HIDE DEF Fine
    <3> QED BY <1>3, <2>2
  <2> DEFINE h == i - 1
  <2>4. h \in 0 .. m - 1 /\ h \in 0 .. m /\ ~(i <= h) /\ i = h + 1
    BY <2>2, <2>3
  <2>5. Fine(h)
    <3> HIDE DEF Fine, h
    <3> QED BY <2>1, <2>4
  <2>6. F[i] = CoverStep(F[h], v, u, d, h)
    BY <1>2, <2>2, <2>3 DEF PairAt
  <2> HIDE DEF h
  <2>7. PICK N : Covering(F[h], m, n, u, x, d, h, N)
    BY <2>5
  <2>8. \E M : Covering(CoverStep(F[h], v, u, d, h), m, n, u, x, d, h + 1, M)
    BY <2>4, <2>7, CoverStepKeeps
  <2>9. Fine(i)
    BY <2>4, <2>6, <2>8
  <2> QED BY <2>2, <2>9
<1>5. Fine(m)
  <2>1. m \in 0 .. m
    OBVIOUS
  <2> HIDE DEF Fine
  <2> QED BY <1>4, <2>1
<1>6. Valid(F[m], u, x)
  BY <1>5 DEF Covering, Valid
<1> QED BY <1>1, <1>6

(* All cover inequalities hold for all sorted matrices of 0 and 1. *)
LEMMA CoversHold ==
  ASSUME NEW m \in Nat \ {0}, NEW n \in Nat \ {0}, NEW u \in Nat \ {0},
         NEW x \in [Cells(m, n) -> 0 .. 1], Sorted(x, m, n),
         NEW v, DOMAIN v = Cells(m, n)
  PROVE  \A cut \in Covers(v, u) : Holds(cut, x, 1)
<1>1. NR(v) = m /\ NC(v) = n
  BY Size
<1> DEFINE k == n - 1
<1>2. k \in Nat /\ \A d \in 0 .. k : d \in Nat
  OBVIOUS
<1>3. PICK F : ColumnsRun(F, v, u, k) /\ Covers(v, u) = F[k].cuts
  BY <1>1, <1>2, ColumnsRuns
<1>4. \A d \in 0 .. k : F[d] = ColumnsAt(F, v, u, d)
  BY <1>3 DEF ColumnsRun
<1> DEFINE Fine(d) == Valid(F[d], u, x)
           Bad == {d \in 0 .. k : ~Fine(d)}
<1>5. Fine(0)
  <2> DEFINE z == F[0]
  <2>1. z = [lhs |-> 0, rhs |-> 0, coef |-> <<>>, cuts |-> {}]
    BY <1>2, <1>4 DEF ColumnsAt
  <2> HIDE DEF z
  <2>2. z.rhs = u * 0
    BY <2>1
  <2>3. IsState(z) /\ z.cuts = {}
    BY <2>1 DEF IsState
  <2>4. Valid(z, u, x)
    BY <2>2, <2>3 DEF Valid
  <2> QED BY <2>4 DEF z
<1>6. ASSUME Bad # {} PROVE FALSE
  <2>1. PICK d \in Bad : \A g \in Bad : d <= g
    <3>1. Bad \subseteq Nat
      OBVIOUS
    <3> HIDE DEF Bad
    <3> QED BY <1>6, <3>1, MinIsLeast
  <2>2. d \in 0 .. k /\ ~Fine(d)
    BY <2>1
  <2>3. d # 0
    <3> HIDE DEF Fine
    <3> QED BY <1>5, <2>2
  <2> DEFINE h == d - 1
  <2>4. h \in 0 .. n - 2 /\ h \in 0 .. k /\ ~(d <= h)
    BY <2>2, <2>3
  <2>5. Fine(h)
    <3> HIDE DEF Fine, h
    <3> QED BY <2>1, <2>4
  <2>6. F[d] = CoverPair(F[h], v, u, h)
    BY <1>4, <2>2, <2>3 DEF ColumnsAt
  <2> HIDE DEF h
  <2>7. Valid(CoverPair(F[h], v, u, h), u, x)
    BY <1>1, <2>4, <2>5, PairKeeps
  <2> QED BY <2>2, <2>6, <2>7
<1>7. Fine(k)
  <2>1. k \in 0 .. k
    BY <1>2
  <2> HIDE DEF Fine
  <2> QED BY <1>6, <2>1
<1> HIDE DEF k
<1> QED BY <1>3, <1>7 DEF Valid

(* No row so far has less in column d than in the next. *)
Falling(v, d, i) == \A q \in 0 .. i - 1 : ~(v[<<q, d>>] < v[<<q, d + 1>>])

(* As long as nothing has been found for a solution of 0 and u, both sides  *)
(* are level.                                                               *)
Level(s) == IsState(s) /\ s.lhs \in Int /\ s.rhs \in Int /\ (s.cuts = {} => s.lhs = s.rhs)

LevelAt(z, s, v, d, i) ==
  Level(z) /\ s.cuts \subseteq z.cuts /\ (z.cuts = {} => Falling(v, d, i))

LEMMA StepLevel ==
  ASSUME NEW m \in Nat \ {0}, NEW n \in Nat \ {0}, NEW u \in Nat \ {0},
         NEW v \in [Cells(m, n) -> {0, u}], NEW s, NEW z, NEW d \in 0 .. n - 2, NEW i \in 0 .. m - 1,
         LevelAt(z, s, v, d, i)
  PROVE  LevelAt(CoverStep(z, v, u, d, i), s, v, d, i + 1)
<1> DEFINE y == CoverStep(z, v, u, d, i)
           a == v[<<i, d>>]
           b == v[<<i, d + 1>>]
<1>1. d + 1 \in 0 .. n - 1 /\ d \in 0 .. n - 1
  OBVIOUS
<1>2. a \in {0, u} /\ b \in {0, u}
  <2>1. <<i, d>> \in Cells(m, n) /\ <<i, d + 1>> \in Cells(m, n)
    BY <1>1 DEF Cells
  <2> QED BY <2>1
<1>3. IsState(z) /\ z.lhs \in Int /\ z.rhs \in Int /\ (z.cuts = {} => z.lhs = z.rhs)
  BY DEF LevelAt, Level
<1>4. Stepped(y, z, v, u, d, i)
  BY <1>3, CoverStepIs
<1> HIDE DEF y
<1>5. /\ IsState(y)
      /\ z.cuts \subseteq y.cuts
      /\ y.cuts = {} => ~(b - a + z.lhs - z.rhs > 0)
  BY <1>4 DEF Stepped
<1>6. /\ y.lhs = IF Little(v, u, d, i) THEN z.lhs - a + (IF i = 0 THEN b ELSE 0)
                 ELSE z.lhs + a - (IF i = 0 THEN a ELSE 0)
      /\ y.rhs = IF Little(v, u, d, i) \/ i = 0 THEN z.rhs ELSE z.rhs + u
  BY <1>4 DEF Stepped
<1>7. Little(v, u, d, i) <=> u - (a + b) > 0
  BY DEF Little
<1> HIDE DEF a, b
<1>8. y.lhs \in Int /\ y.rhs \in Int
  BY <1>2, <1>3, <1>6
<1>9. y.cuts = {} => b <= a /\ y.lhs = y.rhs
  <2> SUFFICES ASSUME y.cuts = {} PROVE b <= a /\ y.lhs = y.rhs
    OBVIOUS
  <2>1. z.cuts = {} /\ z.lhs = z.rhs
    BY <1>3, <1>5
  <2>2. b <= a
    BY <1>2, <1>3, <1>5, <2>1
  <2>3. Little(v, u, d, i) <=> a = 0 /\ b = 0
    BY <1>2, <1>7, <2>2
  <2>4. CASE a = 0 /\ b = 0
    BY <1>3, <1>6, <2>1, <2>3, <2>4
  <2>5. CASE ~(a = 0 /\ b = 0)
    <3>1. a = u
      BY <1>2, <2>2, <2>5
    <3> QED BY <1>3, <1>6, <2>1, <2>2, <2>3, <2>5, <3>1
  <2> QED BY <2>2, <2>4, <2>5
<1>10. Level(y) /\ s.cuts \subseteq y.cuts
  BY <1>5, <1>8, <1>9 DEF Level, LevelAt
<1>11. y.cuts = {} => Falling(v, d, i + 1)
  <2> SUFFICES ASSUME y.cuts = {} PROVE Falling(v, d, i + 1)
    OBVIOUS
  <2>1. Falling(v, d, i) /\ b <= a
    BY <1>5, <1>9 DEF LevelAt
  <2>2. ~(v[<<i, d>>] < v[<<i, d + 1>>])
    <3>1. ~(a < b)
      BY <1>2, <2>1
    <3> QED BY <3>1 DEF a, b
  <2>3. \A q \in 0 .. (i + 1) - 1 : q \in 0 .. i - 1 \/ q = i
    OBVIOUS
  <2> QED BY <2>1, <2>2, <2>3 DEF Falling
<1> QED BY <1>10, <1>11 DEF LevelAt, y

LEMMA PairLevel ==
  ASSUME NEW m \in Nat \ {0}, NEW n \in Nat \ {0}, NEW u \in Nat \ {0},
         NEW v \in [Cells(m, n) -> {0, u}], NR(v) = m, NEW s, Level(s), NEW d \in 0 .. n - 2
  PROVE  LevelAt(CoverPair(s, v, u, d), s, v, d, m)
<1>1. PICK F : PairRun(F, s, v, u, d, m) /\ CoverPair(s, v, u, d) = F[m]
  BY PairRuns
<1>2. \A i \in 0 .. m : F[i] = PairAt(F, s, v, u, d, i)
  BY <1>1 DEF PairRun
<1> DEFINE Fine(i) == LevelAt(F[i], s, v, d, i)
           Bad == {i \in 0 .. m : ~Fine(i)}
<1>3. Fine(0)
  <2> DEFINE z == F[0]
  <2>1. z = [s EXCEPT !.coef = <<>>]
    BY <1>2 DEF PairAt
  <2>2. IsState(s)
    BY DEF Level
  <2> HIDE DEF z
  <2>3. IsState(z) /\ z.lhs = s.lhs /\ z.rhs = s.rhs /\ z.cuts = s.cuts
    BY <2>1, <2>2, ResetIs
  <2>4. Falling(v, d, 0)
    BY DEF Falling
  <2>5. LevelAt(z, s, v, d, 0)
    BY <2>3, <2>4 DEF LevelAt, Level
  <2> QED BY <2>5 DEF z
<1>4. ASSUME Bad # {} PROVE FALSE
  <2>1. PICK i \in Bad : \A g \in Bad : i <= g
    <3>1. Bad \subseteq Nat
      OBVIOUS
    <3> HIDE DEF Bad
    <3> QED BY <1>4, <3>1, MinIsLeast
  <2>2. i \in 0 .. m /\ ~Fine(i)
    BY <2>1
  <2>3. i # 0
    <3> HIDE DEF Fine
    <3> QED BY <1>3, <2>2
  <2> DEFINE h == i - 1
  <2>4. h \in 0 .. m - 1 /\ h \in 0 .. m /\ ~(i <= h) /\ i = h + 1
    BY <2>2, <2>3
  <2>5. Fine(h)
    <3> HIDE DEF Fine, h
    <3> QED BY <2>1, <2>4
  <2>6. F[i] = CoverStep(F[h], v, u, d, h)
    BY <1>2, <2>2, <2>3 DEF PairAt
  <2> HIDE DEF h
  <2>7. LevelAt(CoverStep(F[h], v, u, d, h), s, v, d, h + 1)
    BY <2>4, <2>5, StepLevel
  <2> QED BY <2>2, <2>4, <2>6, <2>7
<1>5. Fine(m)
  <2>1. m \in 0 .. m
    OBVIOUS
  <2> HIDE DEF Fine
  <2> QED BY <1>4, <2>1
<1> QED BY <1>1, <1>5

(* A solution of 0 and u without a cover inequality is sorted. *)
LEMMA NoCoversSorted ==
  ASSUME NEW m \in Nat \ {0}, NEW n \in Nat \ {0}, NEW u \in Nat \ {0},
         NEW v \in [Cells(m, n) -> {0, u}], Covers(v, u) = {}
  PROVE  Sorted(v, m, n)
<1>1. NR(v) = m /\ NC(v) = n
  BY Size
<1> DEFINE k == n - 1
<1>2. k \in Nat /\ \A d \in 0 .. k : d \in Nat
  OBVIOUS
<1>3. PICK F : ColumnsRun(F, v, u, k) /\ Covers(v, u) = F[k].cuts
  BY <1>1, <1>2, ColumnsRuns
<1>4. \A d \in 0 .. k : F[d] = ColumnsAt(F, v, u, d)
  BY <1>3 DEF ColumnsRun
<1> DEFINE Fine(d) == /\ Level(F[d])
                      /\ F[d].cuts = {} => \A a \in 0 .. d - 1 : Falling(v, a, m)
           Bad == {d \in 0 .. k : ~Fine(d)}
<1>5. Fine(0)
  <2> DEFINE z == F[0]
  <2>1. z = [lhs |-> 0, rhs |-> 0, coef |-> <<>>, cuts |-> {}]
    BY <1>2, <1>4 DEF ColumnsAt
  <2> HIDE DEF z
  <2>2. Level(z)
    BY <2>1 DEF IsState, Level
  <2> QED BY <2>2 DEF z
<1>6. ASSUME Bad # {} PROVE FALSE
  <2>1. PICK d \in Bad : \A g \in Bad : d <= g
    <3>1. Bad \subseteq Nat
      OBVIOUS
    <3> HIDE DEF Bad
    <3> QED BY <1>6, <3>1, MinIsLeast
  <2>2. d \in 0 .. k /\ ~Fine(d)
    BY <2>1
  <2>3. d # 0
    <3> HIDE DEF Fine
    <3> QED BY <1>5, <2>2
  <2> DEFINE h == d - 1
  <2>4. h \in 0 .. n - 2 /\ h \in 0 .. k /\ ~(d <= h) /\ d = h + 1
    BY <2>2, <2>3
  <2>5. Fine(h)
    <3> HIDE DEF Fine, h
    <3> QED BY <2>1, <2>4
  <2>6. F[d] = CoverPair(F[h], v, u, h)
    BY <1>4, <2>2, <2>3 DEF ColumnsAt
  <2> HIDE DEF h
  <2>7. LevelAt(CoverPair(F[h], v, u, h), F[h], v, h, m)
    BY <1>1, <2>4, <2>5, PairLevel
  <2>8. \A a \in 0 .. d - 1 : a \in 0 .. h - 1 \/ a = h
    BY <2>4
  <2>9. Level(F[d]) /\ (F[d].cuts = {} => F[h].cuts = {} /\ Falling(v, h, m))
    BY <2>6, <2>7 DEF LevelAt
  <2> QED BY <2>2, <2>5, <2>8, <2>9
<1>7. Fine(k)
  <2>1. k \in 0 .. k
    BY <1>2
  <2> HIDE DEF Fine
  <2> QED BY <1>6, <2>1
<1>8. \A a \in 0 .. n - 2 : Falling(v, a, m)
  <2>1. 0 .. k - 1 = 0 .. n - 2
    OBVIOUS
  <2> HIDE DEF k
  <2> QED BY <1>3, <1>7, <2>1
<1> QED BY <1>8 DEF Falling, Sorted

-------------------------------------------------------------------------------
(***************************************************************************)
(* What the callbacks find, and orbitopes.                                 *)
(***************************************************************************)

(* The size of a solution. *)
LEMMA SolShape ==
  ASSUME NEW k, NEW u \in Nat \ {0}, Constraint(k, u)
  PROVE  /\ Shape(k.sol, NR(k.sol), NC(k.sol))
         /\ NR(k.sol) \in Nat \ {0} /\ NC(k.sol) \in Nat \ {0}
         /\ k.sol \in [Cells(NR(k.sol), NC(k.sol)) -> 0 .. u]
BY DEF Constraint, Shape, Cells

(* The rows of a packing or partitioning orbitope. *)
LEMMA RowsAtMostOne ==
  ASSUME NEW x, NEW t \in {"packing", "partitioning"}, NEW u \in Nat, RowsAllowed(x, t, u)
  PROVE  \A r \in 0 .. NR(x) - 1 : RowSum(x, r) <= u
<1>1. CASE t = "packing"
  BY <1>1 DEF RowsAllowed
<1>2. CASE t = "partitioning"
  <2>1. \A r \in 0 .. NR(x) - 1 : RowSum(x, r) = u
    BY <1>2 DEF RowsAllowed
  <2>2. u <= u
    OBVIOUS
  <2> QED BY <2>1, <2>2
<1> QED BY <1>1, <1>2

(* A matrix of the orbitope, of the size of another one. *)
LEMMA OrbitopeSlim ==
  ASSUME NEW m \in Nat \ {0}, NEW n \in Nat \ {0}, NEW t \in {"packing", "partitioning"},
         NEW x \in Orbitope(Cells(m, n), t)
  PROVE  Slim(x, m, n, 1) /\ Shape(x, m, n) /\ Sorted(x, m, n)
<1>1. x \in [Cells(m, n) -> 0 .. 1] /\ RowsAllowed(x, t, 1) /\ ColumnsSorted(x)
  BY DEF Orbitope
<1>2. NR(x) = m
  BY <1>1, Size
<1>3. \A r \in 0 .. m - 1 : RowSum(x, r) <= 1
  BY <1>1, <1>2, RowsAtMostOne
<1>4. x \in [Cells(m, n) -> {0, 1}]
  <2>1. 0 .. 1 = {0, 1}
    OBVIOUS
  <2> QED BY <1>1, <2>1
<1>5. Slim(x, m, n, 1) /\ Shape(x, m, n)
  <2> DEFINE u == 1
  <2>1. /\ u \in Nat \ {0} /\ x \in [Cells(m, n) -> {0, u}]
        /\ \A r \in 0 .. m - 1 : RowSum(x, r) <= u
    BY <1>3, <1>4
  <2> HIDE DEF u
  <2>2. Slim(x, m, n, u) /\ Shape(x, m, n)
    BY <2>1, RowsSlim
  <2> QED BY <2>2 DEF u
<1> QED BY <1>1, <1>5, SortedIs

(* A binary solution whose rows are as the type says. *)
LEMMA SolSlim ==
  ASSUME NEW k, NEW u \in Nat \ {0}, Constraint(k, u), PackingType(k),
         \A e \in DOMAIN k.sol : k.sol[e] \in {0, u}, RowsAllowed(k.sol, k.type, u)
  PROVE  Slim(k.sol, NR(k.sol), NC(k.sol), u)
<1> DEFINE x == k.sol
           m == NR(x)
           n == NC(x)
<1>1. m \in Nat \ {0} /\ n \in Nat \ {0} /\ x \in [Cells(m, n) -> 0 .. u]
  BY SolShape
<1>2. x \in [Cells(m, n) -> {0, u}]
  BY <1>1
<1>3. \A r \in 0 .. m - 1 : RowSum(x, r) <= u
  BY RowsAtMostOne DEF PackingType
<1> HIDE DEF x, m, n
<1>4. Slim(x, m, n, u)
  BY <1>1, <1>2, <1>3, RowsSlim
<1> QED BY <1>4 DEF x, m, n

(* Such a solution is sorted if and only if it is empty above the diagonal  *)
(* and no bar exceeds its shifted column.                                   *)
LEMMA SortedAccepted ==
  ASSUME NEW k, NEW u \in Nat \ {0}, Constraint(k, u), PackingType(k),
         \A e \in DOMAIN k.sol : k.sol[e] \in {0, u}, RowsAllowed(k.sol, k.type, u)
  PROVE  ColumnsSorted(k.sol) <=>
           /\ \A e \in DOMAIN k.triangle : k.sol[e] = 0
           /\ ExceedingBars(k.sol) = {}
<1> DEFINE x == k.sol
           m == NR(x)
           n == NC(x)
           t == SCTable(x)
           Empty == \A r \in 0 .. m - 1 : \A d \in 0 .. n - 1 : d > r => x[<<r, d>>] = 0
<1>1. Slim(x, m, n, u) /\ Shape(x, m, n)
  BY SolSlim, SolShape
<1>2. ExceedingBars(x) = Exceeding(x, t)
  BY DEF ExceedingBars
<1>3. DOMAIN k.triangle = {e \in DOMAIN x : e[2] > e[1]} /\ DOMAIN x = Cells(m, n)
  BY SolShape DEF Constraint
<1>4. (\A e \in DOMAIN k.triangle : x[e] = 0) <=> Empty
  <2>1. ASSUME \A e \in DOMAIN k.triangle : x[e] = 0, NEW r \in 0 .. m - 1, NEW d \in 0 .. n - 1, d > r
        PROVE  x[<<r, d>>] = 0
    <3>1. <<r, d>> \in Cells(m, n) /\ <<r, d>>[2] > <<r, d>>[1]
      BY <2>1 DEF Cells
    <3>2. <<r, d>> \in DOMAIN k.triangle
      BY <1>3, <3>1
    <3> QED BY <2>1, <3>2
  <2>2. ASSUME Empty, NEW e \in DOMAIN k.triangle PROVE x[e] = 0
    <3>1. e \in Cells(m, n) /\ e[2] > e[1]
      BY <1>3
    <3>2. e = <<e[1], e[2]>> /\ e[1] \in 0 .. m - 1 /\ e[2] \in 0 .. n - 1
      BY <3>1 DEF Cells
    <3>3. x[<<e[1], e[2]>>] = 0
      BY <2>2, <3>1, <3>2
    <3> QED BY <3>2, <3>3
  <2> QED BY <2>1, <2>2
<1> HIDE DEF x, m, n, t
<1>5. TableRight(t, x)
  BY <1>1, TableIsRight DEF t
<1>6. ColumnsSorted(x) <=> Sorted(x, m, n)
  BY <1>1, SortedIs
<1>7. Sorted(x, m, n) => Empty
  BY <1>1, AboveDiagonal
<1>8. Sorted(x, m, n) => Exceeding(x, t) = {}
  BY <1>1, <1>5, SortedFits
<1>9. Empty /\ ~Sorted(x, m, n) => Exceeding(x, t) # {}
  BY <1>1, <1>5, UnsortedExceeds
<1>10. ColumnsSorted(x) <=> (\A e \in DOMAIN k.triangle : x[e] = 0) /\ ExceedingBars(x) = {}
  <2> HIDE DEF Empty
  <2> QED BY <1>2, <1>4, <1>6, <1>7, <1>8, <1>9
<1> QED BY <1>10 DEF x

(* The pairwise check of a full orbitope, and the absence of covers.        *)
LEMMA FullAccepted ==
  ASSUME NEW k, NEW u \in Nat \ {0}, Constraint(k, u)
  PROVE  FullSorted(k.sol) <=> ColumnsSorted(k.sol)
<1> DEFINE x == k.sol
           m == NR(x)
           n == NC(x)
<1>1. Shape(x, m, n)
  BY SolShape
<1> HIDE DEF x, m, n
<1>2. FullSorted(x) <=> ColumnsSorted(x)
  BY <1>1, FullSortedIs, SortedIs
<1> QED BY <1>2 DEF x

LEMMA CoversAccepted ==
  ASSUME NEW k, NEW u \in Nat \ {0}, Constraint(k, u),
         \A e \in DOMAIN k.sol : k.sol[e] \in {0, u}, Covers(k.sol, u) = {}
  PROVE  ColumnsSorted(k.sol)
<1> DEFINE x == k.sol
           m == NR(x)
           n == NC(x)
<1>1. Shape(x, m, n) /\ m \in Nat \ {0} /\ n \in Nat \ {0} /\ x \in [Cells(m, n) -> 0 .. u]
  BY SolShape
<1>2. x \in [Cells(m, n) -> {0, u}] /\ Covers(x, u) = {}
  BY <1>1
<1> HIDE DEF x, m, n
<1>3. Sorted(x, m, n)
  BY <1>1, <1>2, NoCoversSorted
<1>4. ColumnsSorted(x)
  BY <1>1, <1>3, SortedIs
<1> QED BY <1>4 DEF x

(* What a cut of constraint k does. *)
Cuts(cut, k, u) ==
  /\ \A x \in Orbitope(DOMAIN k.sol, k.type) : Holds(cut, x, 1)
  /\ PackingType(k) => ~Holds(cut, k.sol, u)

LEMMA SCIsCut ==
  ASSUME NEW k, NEW u \in Nat \ {0}, Constraint(k, u), PackingType(k), NEW cut \in SCIs(k.sol)
  PROVE  Cuts(cut, k, u)
<1> DEFINE v == k.sol
           m == NR(v)
           n == NC(v)
           t == SCTable(v)
           ty == k.type
<1>1. Shape(v, m, n) /\ m \in Nat \ {0} /\ n \in Nat \ {0} /\ DOMAIN v = Cells(m, n)
  BY SolShape DEF Shape
<1>2. PICK e \in Exceeding(v, t) : cut = SCI(v, t, e)
  BY DEF SCIs
<1>3. ty \in {"packing", "partitioning"}
  BY DEF PackingType
<1> HIDE DEF v, m, n, t, ty
<1>4. TableRight(t, v)
  BY <1>1, TableIsRight DEF t
<1>5. e \in Leaders(v)
  BY DEF Exceeding
<1>6. ASSUME NEW x \in Orbitope(Cells(m, n), ty) PROVE Holds(cut, x, 1)
  <2>1. Slim(x, m, n, 1) /\ Shape(x, m, n) /\ Sorted(x, m, n)
    BY <1>1, <1>3, OrbitopeSlim
  <2>2. Holds(SCI(v, t, e), x, 1)
    BY <1>1, <1>4, <1>5, <2>1, SCIHolds
  <2> QED BY <1>2, <2>2
<1>7. ~Holds(cut, v, u)
  <2>1. u \in Nat
    OBVIOUS
  <2>2. ~Holds(SCI(v, t, e), v, u)
    BY <1>1, <1>4, <2>1, SCIViolated
  <2> QED BY <1>2, <2>2
<1> QED BY <1>1, <1>6, <1>7 DEF Cuts, v, ty

LEMMA CoversCut ==
  ASSUME NEW k, NEW u \in Nat \ {0}, Constraint(k, u), ~PackingType(k), NEW cut \in Covers(k.sol, u)
  PROVE  Cuts(cut, k, u)
<1> DEFINE v == k.sol
           m == NR(v)
           n == NC(v)
<1>1. m \in Nat \ {0} /\ n \in Nat \ {0} /\ DOMAIN v = Cells(m, n) /\ cut \in Covers(v, u)
  BY SolShape DEF Shape
<1> HIDE DEF v, m, n
<1>2. ASSUME NEW x \in Orbitope(Cells(m, n), k.type) PROVE Holds(cut, x, 1)
  <2>1. x \in [Cells(m, n) -> 0 .. 1] /\ ColumnsSorted(x)
    BY DEF Orbitope
  <2>2. Shape(x, m, n)
    BY <1>1, <2>1 DEF Shape
  <2>3. Sorted(x, m, n)
    BY <2>1, <2>2, SortedIs
  <2> QED BY <1>1, <2>1, <2>3, CoversHold
<1> QED BY <1>1, <1>2 DEF Cuts, v

(* Entries of the triangle. *)
LEMMA TriangleFinite ==
  ASSUME NEW k, NEW u \in Nat \ {0}, Constraint(k, u), PackingType(k)
  PROVE  IsFiniteSet(ToFix(k))
<1>1. /\ NR(k.sol) \in Nat /\ NC(k.sol) \in Nat
      /\ DOMAIN k.sol = Cells(NR(k.sol), NC(k.sol))
  BY SolShape DEF Shape
<1>2. ToFix(k) \subseteq Cells(NR(k.sol), NC(k.sol))
  BY <1>1 DEF ToFix, Constraint
<1> QED BY <1>1, <1>2, CellsFinite

(* With nothing left to fix the solution is zero above the diagonal. *)
LEMMA TriangleEmpty ==
  ASSUME NEW k, NEW u \in Nat \ {0}, Constraint(k, u), PackingType(k),
         \A e \in DOMAIN k.triangle : k.triangle[e] = "zero" => k.sol[e] = 0,
         k.fixed \/ (AtOne(k) = {} /\ ToFix(k) = {})
  PROVE  \A e \in DOMAIN k.triangle : k.sol[e] = 0
<1>1. CASE k.fixed
  BY <1>1 DEF Constraint
<1>2. CASE AtOne(k) = {} /\ ToFix(k) = {}
  <2> SUFFICES ASSUME NEW e \in DOMAIN k.triangle PROVE k.triangle[e] = "zero"
    OBVIOUS
  <2>1. k.triangle[e] \in {"free", "zero", "one"}
    BY DEF Constraint
  <2>2. k.triangle[e] # "one"
    BY <1>2 DEF AtOne
  <2>3. k.triangle[e] # "free"
    BY <1>2 DEF ToFix
  <2> QED BY <2>1, <2>2, <2>3
<1> QED BY <1>1, <1>2

(* What the check asks of a constraint. *)
Passed(k) ==
  IF PackingType(k) THEN TriangleZero(k) /\ ExceedingBars(k.sol) = {} ELSE FullSorted(k.sol)

LEMMA PassedAccepted ==
  ASSUME NEW k, NEW u \in Nat \ {0}, Constraint(k, u),
         \A e \in DOMAIN k.sol : k.sol[e] \in {0, u}, RowsAllowed(k.sol, k.type, u)
  PROVE  Passed(k) <=> ColumnsSorted(k.sol)
<1>1. CASE PackingType(k)
  <2>1. ColumnsSorted(k.sol) <=>
          /\ \A e \in DOMAIN k.triangle : k.sol[e] = 0
          /\ ExceedingBars(k.sol) = {}
    BY <1>1, SortedAccepted
  <2>2. TriangleZero(k) <=> \A e \in DOMAIN k.triangle : k.sol[e] = 0
    BY DEF TriangleZero, Constraint
  <2> QED BY <1>1, <2>1, <2>2 DEF Passed
<1>2. CASE ~PackingType(k)
  <2>1. FullSorted(k.sol) <=> ColumnsSorted(k.sol)
    BY FullAccepted
  <2> QED BY <1>2, <2>1 DEF Passed
<1> QED BY <1>1, <1>2

-------------------------------------------------------------------------------
(***************************************************************************)
(* The invariant.                                                          *)
(***************************************************************************)

(* Nothing that orbitopes are about changes from one list to the other, and *)
(* other constraints than d do not change at all.                           *)
Kept(new, old, d) ==
  /\ DOMAIN new = DOMAIN old /\ Len(new) = Len(old)
  /\ \A h \in DOMAIN old :
       /\ new[h].sol = old[h].sol /\ new[h].type = old[h].type /\ new[h].model = old[h].model
       /\ h # d => new[h] = old[h]

IsList(l) == \E S : l \in Seq(S)

LEMMA ListShape ==
  ASSUME NEW l, IsList(l)
  PROVE  Len(l) \in Nat /\ DOMAIN l = 1 .. Len(l)
<1>1. PICK S : l \in Seq(S)
  BY DEF IsList
<1> QED BY <1>1, LenProperties

LEMMA ListKept == ASSUME NEW l, NEW d PROVE Kept(l, l, d)
BY DEF Kept

LEMMA FixKept ==
  ASSUME NEW l, IsList(l), NEW d \in DOMAIN l, NEW u, Constraint(l[d], u), NEW root
  PROVE  LET new == [l EXCEPT ![d] = FixTriangle(l[d], root)]
         IN  IsList(new) /\ Kept(new, l, d)
<1> DEFINE x == FixTriangle(l[d], root)
           new == [l EXCEPT ![d] = x]
<1>1. PICK S : l \in Seq(S)
  BY DEF IsList
<1> DEFINE T == S \cup {x}
<1>2. l \in Seq(T) /\ x \in T
  <2>1. \A h \in 1 .. Len(l) : l[h] \in T
    BY <1>1
  <2> HIDE DEF x
  <2> QED BY <1>1, <2>1
<1>3. d \in 1 .. Len(l)
  BY <1>1
<1>4. x.sol = l[d].sol /\ x.type = l[d].type /\ x.model = l[d].model
  BY DEF FixTriangle, Constraint
<1> HIDE DEF x, T
<1>5. new \in Seq(T) /\ Len(new) = Len(l)
  BY <1>2, <1>3, ExceptSeq
<1>6. DOMAIN new = DOMAIN l /\ new[d] = x /\ \A h \in DOMAIN l : h # d => new[h] = l[h]
  <2>1. l = [h \in DOMAIN l |-> l[h]]
    BY <1>1
  <2> QED BY <2>1
<1> HIDE DEF new
<1>7. IsList(new) /\ Kept(new, l, d)
  BY <1>4, <1>5, <1>6 DEF IsList, Kept
<1> QED BY <1>7 DEF new, x

(* A constraint as it comes to the callbacks. *)
Ready(k) ==
  /\ Constraint(k, one)
  /\ call = "sepa" \/ \A e \in DOMAIN k.sol : k.sol[e] \in {0, one}
  /\ call = "check" \/ \A e \in DOMAIN k.triangle : k.triangle[e] = "zero" => k.sol[e] = 0

(* A constraint that enforcement has got to the end of without a result.    *)
Right(k) == Enforced(k) /\ RowsAllowed(k.sol, k.type, one) => Accepted(k)

Typed ==
  /\ pc \in {"loop", "done"} /\ call \in {"sepa", "enfolp", "enfops", "check"}
  /\ one \in Nat \ {0} /\ c \in Nat \ {0} /\ nfixed \in Nat /\ infeasible \in BOOLEAN
  /\ refused \in BOOLEAN /\ (refused => call = "enfops")
  /\ IsList(conss)

(* Constraints do not change before it is their turn, and not in a check. *)
Pending == \A h \in DOMAIN conss : h >= c \/ call = "check" => Ready(conss[h])

CutsRight == \A p \in cuts : p[1] \in DOMAIN conss /\ Cuts(p[2], conss[p[1]], one)

Checked ==
  call = "check" =>
    /\ result \in {"feasible", "infeasible"}
    /\ result = "feasible" <=> \A h \in DOMAIN conss : h < c /\ conss[h].model => Passed(conss[h])

Behind == \A h \in DOMAIN conss : h < c => Right(conss[h])

Nothing == ~infeasible /\ nfixed = 0 /\ cuts = {}

PseudoBehind == call = "enfops" /\ result = "feasible" => Behind
LPBehind == call = "enfolp" /\ Nothing => Behind

(* The answer feasible comes behind the last constraint, unless the solution *)
(* is refused already.                                                      *)
Completed ==
  pc = "done" /\ call # "sepa" /\ ~refused /\ result = "feasible" =>
    c > Len(conss) /\ (call = "enfolp" => Nothing)

EInv == Typed /\ Pending /\ CutsRight /\ Checked /\ PseudoBehind /\ LPBehind /\ Completed

LEMMA EInit == Init => EInv
<1> SUFFICES ASSUME Init PROVE EInv
  OBVIOUS
<1>1. /\ pc = "loop" /\ c = 1 /\ infeasible = FALSE /\ nfixed = 0 /\ cuts = {}
      /\ result = IF call = "sepa" THEN "didnotfind" ELSE "feasible"
  BY DEF Init
<1>2. PICK q \in Problems : call \in q.calls /\ conss = q.conss /\ one = q.one
  BY DEF Init
<1>3. one \in Nat \ {0} /\ call \in {"sepa", "enfolp", "enfops", "check"}
  <2>1. one \in Nat \ {0} /\ q.calls \subseteq {"sepa", "enfolp", "enfops", "check"}
    BY <1>2, ProblemAssumption
  <2> QED BY <1>2, <2>1
<1>4. Typed
  <2>1. q.conss \in Seq({q.conss[h] : h \in DOMAIN q.conss})
    BY ProblemAssumption
  <2> DEFINE S == {conss[h] : h \in DOMAIN conss}
  <2>2. conss \in Seq(S)
    BY <1>2, <2>1
  <2> HIDE DEF S
  <2>3. IsList(conss)
    BY <2>2 DEF IsList
  <2>4. pc \in {"loop", "done"} /\ infeasible \in BOOLEAN
    BY <1>1
  <2>5. c \in Nat \ {0} /\ nfixed \in Nat
    BY <1>1
  <2>6. refused \in BOOLEAN /\ (refused => call = "enfops")
    BY DEF Init
  <2> QED BY <1>3, <2>3, <2>4, <2>5, <2>6 DEF Typed
<1>5. ASSUME NEW h \in DOMAIN conss PROVE Ready(conss[h])
  <2>1. Constraint(conss[h], one)
    BY <1>2, ProblemAssumption
  <2>2. \/ q.calls \subseteq {"sepa"}
        \/ \A e \in DOMAIN conss[h].sol : conss[h].sol[e] \in {0, one}
    BY <1>2, ProblemAssumption
  <2>3. \/ q.calls \subseteq {"check"}
        \/ \A e \in DOMAIN conss[h].triangle :
             conss[h].triangle[e] = "zero" => conss[h].sol[e] = 0
    BY <1>2, ProblemAssumption
  <2>4. call = "sepa" \/ \A e \in DOMAIN conss[h].sol : conss[h].sol[e] \in {0, one}
    BY <1>2, <2>2
  <2>5. \/ call = "check"
        \/ \A e \in DOMAIN conss[h].triangle :
             conss[h].triangle[e] = "zero" => conss[h].sol[e] = 0
    BY <1>2, <2>3
  <2> QED BY <2>1, <2>4, <2>5 DEF Ready
<1>6. Pending
  BY <1>5 DEF Pending
<1>7. \A h \in DOMAIN conss : ~(h < c)
  <2>1. DOMAIN conss = 1 .. Len(conss) /\ Len(conss) \in Nat
    BY <1>4, ListShape DEF Typed
  <2> QED BY <1>1, <2>1
<1>8. CutsRight /\ Completed
  BY <1>1 DEF CutsRight, Completed
<1>9. Checked /\ PseudoBehind /\ LPBehind
  BY <1>1, <1>7 DEF Checked, PseudoBehind, LPBehind, Behind
<1> QED BY <1>4, <1>6, <1>8, <1>9 DEF EInv

(* The constraint at hand. *)
LEMMA AtHand ==
  ASSUME EInv, pc = "loop", ~Over
  PROVE  c \in DOMAIN conss /\ Ready(conss[c])
<1>1. /\ call \in {"sepa", "enfolp", "enfops", "check"} /\ c \in Nat \ {0}
      /\ Len(conss) \in Nat /\ DOMAIN conss = 1 .. Len(conss)
  BY ListShape DEF EInv, Typed
<1>2. ~(c > Len(conss))
  BY <1>1 DEF Over, SeparationOver
<1>3. c \in DOMAIN conss
  BY <1>1, <1>2
<1>4. c >= c
  BY <1>1
<1> QED BY <1>3, <1>4 DEF EInv, Pending

(* What was right stays right, and the list goes on behind the constraint   *)
(* at hand.                                                                 *)
LEMMA GoesOn ==
  ASSUME EInv, pc = "loop", ~Over, Kept(conss', conss, c), IsList(conss'), c' = c + 1,
         call' = call, one' = one
  PROVE  /\ conss' = conss \/ call # "check" => Pending'
         /\ Behind /\ Right(conss[c]) => Behind'
         /\ c' \in Nat \ {0}
         /\ \A h \in DOMAIN conss' : h < c' <=> h < c \/ h = c
<1>1. /\ c \in DOMAIN conss /\ DOMAIN conss = 1 .. Len(conss) /\ Len(conss) \in Nat
      /\ DOMAIN conss' = DOMAIN conss /\ c \in Nat \ {0}
  BY AtHand, ListShape DEF EInv, Typed, Kept
<1>2. c' \in Nat \ {0} /\ \A h \in DOMAIN conss' : h < c' <=> h < c \/ h = c
  BY <1>1
<1>3. \A h \in DOMAIN conss' : h >= c' => h >= c /\ h # c
  BY <1>1
<1>4. ASSUME conss' = conss \/ call # "check", NEW h \in DOMAIN conss', h >= c' \/ call' = "check"
      PROVE  Ready(conss[h])'
  <2>1. conss'[h] = conss[h]
    BY <1>1, <1>3, <1>4 DEF Kept
  <2>2. h \in DOMAIN conss /\ (h >= c \/ call = "check")
    BY <1>1, <1>3, <1>4
  <2>3. Ready(conss[h])
    BY <2>2 DEF EInv, Pending
  <2> QED BY <2>1, <2>3 DEF Ready
<1>5. ASSUME Behind, Right(conss[c]), NEW h \in DOMAIN conss', h < c'
      PROVE  Right(conss[h])'
  <2>1. h \in DOMAIN conss /\ (h < c \/ h = c)
    BY <1>1, <1>2, <1>5
  <2>2. Right(conss[h])
    BY <1>5, <2>1 DEF Behind
  <2>3. /\ conss'[h].sol = conss[h].sol /\ conss'[h].type = conss[h].type
        /\ conss'[h].model = conss[h].model
    BY <2>1 DEF Kept
  <2> QED BY <2>2, <2>3 DEF Right, Enforced, PackingType, Accepted
<1> QED BY <1>2, <1>4, <1>5 DEF Pending, Behind

(* Cuts stay cuts. *)
LEMMA CutsStay ==
  ASSUME EInv, NEW d, Kept(conss', conss, d), one' = one, NEW p \in cuts
  PROVE  p[1] \in DOMAIN conss' /\ Cuts(p[2], conss'[p[1]], one')
<1>1. p[1] \in DOMAIN conss /\ Cuts(p[2], conss[p[1]], one)
  BY DEF EInv, CutsRight
<1>2. /\ p[1] \in DOMAIN conss'
      /\ conss'[p[1]].sol = conss[p[1]].sol /\ conss'[p[1]].type = conss[p[1]].type
  BY <1>1 DEF Kept
<1> QED BY <1>1, <1>2 DEF Cuts, PackingType

(* A constraint that enforcement finds nothing for. *)
LEMMA NothingFoundRight ==
  ASSUME NEW k, one \in Nat \ {0}, Ready(k), call \notin {"sepa", "check"},
         PackingType(k) =>
           /\ k.fixed \/ (AtOne(k) = {} /\ ToFix(k) = {})
           /\ ExceedingBars(k.sol) = {},
         ~PackingType(k) /\ Enforced(k) => FullSorted(k.sol) \/ Covers(k.sol, one) = {}
  PROVE  Right(k)
<1> SUFFICES ASSUME Enforced(k), RowsAllowed(k.sol, k.type, one) PROVE Accepted(k)
  BY DEF Right
<1>1. /\ Constraint(k, one)
      /\ \A e \in DOMAIN k.sol : k.sol[e] \in {0, one}
      /\ \A e \in DOMAIN k.triangle : k.triangle[e] = "zero" => k.sol[e] = 0
  BY DEF Ready
<1>2. CASE PackingType(k)
  <2>1. \A e \in DOMAIN k.triangle : k.sol[e] = 0
    BY <1>1, <1>2, TriangleEmpty
  <2>2. ColumnsSorted(k.sol)
    BY <1>1, <1>2, <2>1, SortedAccepted
  <2> QED BY <1>1, <2>2 DEF Accepted
<1>3. CASE ~PackingType(k)
  <2>1. CASE FullSorted(k.sol)
    <3>1. ColumnsSorted(k.sol)
      BY <1>1, <2>1, FullAccepted
    <3> QED BY <1>1, <3>1 DEF Accepted
  <2>2. CASE Covers(k.sol, one) = {}
    <3>1. ColumnsSorted(k.sol)
      BY <1>1, <2>2, CoversAccepted
    <3> QED BY <1>1, <3>1 DEF Accepted
  <2> QED BY <1>3, <2>1, <2>2
<1> QED BY <1>2, <1>3

LEMMA ESkip == EInv /\ Skip => EInv'
<1> SUFFICES ASSUME EInv, Skip PROVE EInv'
  OBVIOUS
<1>1. /\ pc = "loop" /\ ~Over /\ c' = c + 1
      /\ UNCHANGED <<pc, call, completely, refused, one, nuseful, conss, infeasible, nfixed, cuts,
                     result>>
  BY DEF Skip
<1>2. call # "sepa" /\ ~conss[c].model
  BY DEF Skip, Skipped
<1>3. /\ Pending' /\ c' \in Nat \ {0}
      /\ Behind /\ Right(conss[c]) => Behind'
      /\ \A h \in DOMAIN conss' : h < c' <=> h < c \/ h = c
  <2>1. Kept(conss', conss, c) /\ IsList(conss')
    BY <1>1, ListKept DEF EInv, Typed
  <2>2. call' = call /\ one' = one /\ conss' = conss
    BY <1>1
  <2> QED BY <1>1, <2>1, <2>2, GoesOn
<1>4. Right(conss[c])
  BY <1>2 DEF Right, Enforced
<1>5. Typed'
  BY <1>1, <1>3 DEF EInv, Typed, IsList
<1>6. CutsRight'
  <2>1. CutsRight
    BY DEF EInv
  <2> QED BY <1>1, <2>1 DEF CutsRight
<1>7. Checked'
  <2>1. ASSUME call = "check" PROVE Checked'
    <3>1. /\ result \in {"feasible", "infeasible"}
          /\ result = "feasible" <=> \A h \in DOMAIN conss : h < c /\ conss[h].model => Passed(conss[h])
      BY <2>1 DEF EInv, Checked
    <3>2. \A h \in DOMAIN conss : h < c' /\ conss[h].model <=> h < c /\ conss[h].model
      BY <1>1, <1>2, <1>3
    <3>3. conss' = conss /\ result' = result
      BY <1>1
    <3> QED BY <3>1, <3>2, <3>3 DEF Checked
  <2>2. call' = call
    BY <1>1
  <2> QED BY <2>1, <2>2 DEF Checked
<1>8. PseudoBehind' /\ LPBehind'
  <2>1. PseudoBehind /\ LPBehind
    BY DEF EInv
  <2>2. Nothing' => Nothing
    BY <1>1 DEF Nothing
  <2>3. call' = call /\ result' = result
    BY <1>1
  <2> QED BY <1>3, <1>4, <2>1, <2>2, <2>3 DEF PseudoBehind, LPBehind
<1>9. Completed'
  BY <1>1 DEF Completed
<1> QED BY <1>3, <1>5, <1>6, <1>7, <1>8, <1>9 DEF EInv

LEMMA ECheck == EInv /\ Check => EInv'
<1> SUFFICES ASSUME EInv, Check PROVE EInv'
  OBVIOUS
<1> DEFINE k == conss[c]
<1>1. /\ pc = "loop" /\ ~Over /\ c' = c + 1 /\ call = "check"
      /\ UNCHANGED <<pc, call, completely, refused, one, nuseful, conss, infeasible, nfixed, cuts>>
  BY DEF Check
<1>2. k.model
  BY DEF Check, Skipped
<1>3. result' = IF Passed(k) THEN result ELSE "infeasible"
  BY DEF Check, Passed
<1>4. /\ Pending' /\ c' \in Nat \ {0} /\ c \in DOMAIN conss
      /\ \A h \in DOMAIN conss' : h < c' <=> h < c \/ h = c
  <2>1. Kept(conss', conss, c) /\ IsList(conss')
    BY <1>1, ListKept DEF EInv, Typed
  <2>2. call' = call /\ one' = one /\ conss' = conss
    BY <1>1
  <2> QED BY <1>1, <2>1, <2>2, GoesOn, AtHand
<1>5. Typed'
  BY <1>1, <1>4 DEF EInv, Typed, IsList
<1>6. CutsRight'
  <2>1. CutsRight
    BY DEF EInv
  <2> QED BY <1>1, <2>1 DEF CutsRight
<1>7. Checked'
  <2>1. /\ result \in {"feasible", "infeasible"}
        /\ result = "feasible" <=> \A h \in DOMAIN conss : h < c /\ conss[h].model => Passed(conss[h])
    BY <1>1 DEF EInv, Checked
  <2>2. conss' = conss
    BY <1>1
  <2>3. (\A h \in DOMAIN conss' : h < c' /\ conss'[h].model => Passed(conss'[h]))
          <=> /\ \A h \in DOMAIN conss : h < c /\ conss[h].model => Passed(conss[h])
              /\ Passed(k)
    BY <1>2, <1>4, <2>2
  <2>4. /\ result' \in {"feasible", "infeasible"}
        /\ result' = "feasible" <=> result = "feasible" /\ Passed(k)
    BY <1>3, <2>1
  <2> HIDE DEF k
  <2> QED BY <2>1, <2>3, <2>4 DEF Checked
<1>8. PseudoBehind' /\ LPBehind' /\ Completed'
  BY <1>1 DEF PseudoBehind, LPBehind, Completed
<1> QED BY <1>4, <1>5, <1>6, <1>7, <1>8 DEF EInv

(* The inequalities that are separated for constraint k. *)
New(k) ==
  IF PackingType(k)
    THEN IF ~k.fixed /\ (AtOne(k) # {} \/ ToFix(k) # {}) THEN {} ELSE SCIs(k.sol)
  ELSE IF SepaFull THEN Covers(k.sol, one) ELSE {}

LEMMA NewCut ==
  ASSUME NEW k, one \in Nat \ {0}, Constraint(k, one), NEW cut \in New(k)
  PROVE  Cuts(cut, k, one)
<1>1. CASE PackingType(k)
  <2>1. cut \in SCIs(k.sol)
    BY <1>1 DEF New
  <2> QED BY <1>1, <2>1, SCIsCut
<1>2. CASE ~PackingType(k)
  <2>1. cut \in Covers(k.sol, one)
    BY <1>2 DEF New
  <2> QED BY <1>2, <2>1, CoversCut
<1> QED BY <1>1, <1>2

LEMMA ESeparate == EInv /\ Separate => EInv'
<1> SUFFICES ASSUME EInv, Separate PROVE EInv'
  OBVIOUS
<1> DEFINE k == conss[c]
           tri == PackingType(k) /\ ~k.fixed
<1>1. /\ pc = "loop" /\ ~Over /\ c' = c + 1 /\ call \in {"sepa", "enfolp"}
      /\ UNCHANGED <<pc, call, completely, refused, one, nuseful, result>>
  BY DEF Separate
<1>2. /\ cuts' = cuts \cup {<<c, d>> : d \in New(k)}
      /\ IF tri
           THEN /\ \E root \in BOOLEAN : conss' = [conss EXCEPT ![c] = FixTriangle(k, root)]
                /\ nfixed' = nfixed + Cardinality(ToFix(k))
           ELSE UNCHANGED <<conss, nfixed>>
      /\ infeasible' \in {tri /\ AtOne(k) # {}} \cup (IF New(k) = {} THEN {} ELSE {TRUE})
  BY DEF Separate, New
<1>3. /\ c \in DOMAIN conss /\ Ready(k) /\ Constraint(k, one) /\ IsList(conss)
      /\ one \in Nat \ {0} /\ nfixed \in Nat
  BY <1>1, AtHand DEF EInv, Typed, Ready
<1>4. IsList(conss') /\ Kept(conss', conss, c)
  <2>1. CASE tri
    <3>1. PICK root \in BOOLEAN : conss' = [conss EXCEPT ![c] = FixTriangle(k, root)]
      BY <1>2, <2>1
    <3> QED BY <1>3, <3>1, FixKept
  <2>2. CASE ~tri
    <3>1. conss' = conss
      BY <1>2, <2>2
    <3> QED BY <1>3, <3>1, ListKept
  <2> QED BY <2>1, <2>2
<1>5. /\ Pending' /\ c' \in Nat \ {0}
      /\ Behind /\ Right(k) => Behind'
  <2>1. call' = call /\ one' = one /\ call # "check"
    BY <1>1
  <2> QED BY <1>1, <1>4, <2>1, GoesOn
<1>6. nfixed' \in Nat /\ (nfixed' = 0 => nfixed = 0 /\ (tri => ToFix(k) = {}))
  <2>1. CASE tri
    <3>1. IsFiniteSet(ToFix(k))
      BY <1>3, <2>1, TriangleFinite
    <3>2. Cardinality(ToFix(k)) \in Nat /\ (Cardinality(ToFix(k)) = 0 <=> ToFix(k) = {})
      BY <3>1, FS_CardinalityType, FS_EmptySet
    <3>3. nfixed' = nfixed + Cardinality(ToFix(k))
      BY <1>2, <2>1
    <3> QED BY <1>3, <3>2, <3>3
  <2>2. CASE ~tri
    <3>1. nfixed' = nfixed
      BY <1>2, <2>2
    <3> QED BY <1>3, <2>2, <3>1
  <2> QED BY <2>1, <2>2
<1>7. infeasible' \in BOOLEAN /\ (~infeasible' => ~(tri /\ AtOne(k) # {}))
  <2>1. infeasible' = (tri /\ AtOne(k) # {}) \/ infeasible' = TRUE
    BY <1>2
  <2> QED BY <2>1
<1>8. Typed'
  <2>1. Typed
    BY DEF EInv
  <2> QED BY <1>1, <1>4, <1>5, <1>6, <1>7, <2>1 DEF Typed
<1>9. CutsRight'
  <2> SUFFICES ASSUME NEW p \in cuts' PROVE p[1] \in DOMAIN conss' /\ Cuts(p[2], conss'[p[1]], one')
    BY DEF CutsRight
  <2>1. one' = one
    BY <1>1
  <2>2. CASE p \in cuts
    BY <1>4, <2>1, <2>2, CutsStay
  <2>3. ASSUME NEW d \in New(k), p = <<c, d>> PROVE p[1] \in DOMAIN conss' /\ Cuts(p[2], conss'[p[1]], one')
    <3>1. Cuts(d, k, one)
      BY <1>3, NewCut
    <3>2. p[1] = c /\ p[2] = d /\ c \in DOMAIN conss'
      BY <1>3, <1>4, <2>3 DEF Kept
    <3>3. conss'[c].sol = k.sol /\ conss'[c].type = k.type
      BY <1>3, <1>4 DEF Kept
    <3>4. Cuts(d, conss'[c], one)
      BY <3>1, <3>3 DEF Cuts, PackingType
    <3> QED BY <2>1, <3>2, <3>4
  <2> QED BY <1>2, <2>2, <2>3
<1>10. LPBehind'
  <2> SUFFICES ASSUME call' = "enfolp", Nothing' PROVE Behind'
    BY DEF LPBehind
  <2>1. call = "enfolp" /\ ~infeasible
    BY <1>1 DEF Over, SeparationOver
  <2>2. cuts = {} /\ New(k) = {}
    BY <1>2 DEF Nothing
  <2>3. nfixed = 0 /\ (tri => ToFix(k) = {} /\ AtOne(k) = {})
    BY <1>6, <1>7 DEF Nothing
  <2>4. Behind
    BY <2>1, <2>2, <2>3 DEF EInv, LPBehind, Nothing
  <2>5. PackingType(k) => k.fixed \/ (AtOne(k) = {} /\ ToFix(k) = {})
    BY <2>3
  <2>6. ASSUME PackingType(k) PROVE ExceedingBars(k.sol) = {}
    <3>1. SCIs(k.sol) = {}
      BY <2>2, <2>5, <2>6 DEF New
    <3> QED BY <3>1 DEF SCIs, ExceedingBars
  <2>7. ASSUME ~PackingType(k), Enforced(k) PROVE Covers(k.sol, one) = {}
    BY <2>1, <2>2, <2>7 DEF New, Enforced
  <2>8. Right(k)
    <3> HIDE DEF k, tri
    <3> QED BY <1>3, <2>1, <2>5, <2>6, <2>7, NothingFoundRight
  <2> QED BY <1>5, <2>4, <2>8
<1>11. Checked' /\ PseudoBehind' /\ Completed'
  BY <1>1 DEF Checked, PseudoBehind, Completed
<1> QED BY <1>5, <1>8, <1>9, <1>10, <1>11 DEF EInv

LEMMA EPseudo == EInv /\ EnforcePseudo => EInv'
<1> SUFFICES ASSUME EInv, EnforcePseudo PROVE EInv'
  OBVIOUS
<1> DEFINE k == conss[c]
           tri == PackingType(k) /\ ~k.fixed
<1>1. /\ pc = "loop" /\ ~Over /\ c' = c + 1 /\ call = "enfops"
      /\ UNCHANGED <<pc, call, completely, refused, one, nuseful, infeasible, nfixed, cuts>>
  BY DEF EnforcePseudo
<1>2. /\ IF tri
           THEN \E root \in BOOLEAN : conss' = [conss EXCEPT ![c] = FixTriangle(k, root)]
           ELSE UNCHANGED conss
      /\ result' = IF tri /\ AtOne(k) # {} THEN "cutoff"
                   ELSE IF tri /\ ToFix(k) # {} THEN "reduceddom"
                   ELSE IF PackingType(k)
                     THEN IF ExceedingBars(k.sol) # {} THEN "infeasible" ELSE result
                   ELSE IF FullSorted(k.sol) THEN result ELSE "infeasible"
  BY DEF EnforcePseudo
<1>3. /\ c \in DOMAIN conss /\ Ready(k) /\ Constraint(k, one) /\ IsList(conss)
      /\ one \in Nat \ {0}
  BY <1>1, AtHand DEF EInv, Typed, Ready
<1>4. IsList(conss') /\ Kept(conss', conss, c)
  <2>1. CASE tri
    <3>1. PICK root \in BOOLEAN : conss' = [conss EXCEPT ![c] = FixTriangle(k, root)]
      BY <1>2, <2>1
    <3> QED BY <1>3, <3>1, FixKept
  <2>2. CASE ~tri
    <3>1. conss' = conss
      BY <1>2, <2>2
    <3> QED BY <1>3, <3>1, ListKept
  <2> QED BY <2>1, <2>2
<1>5. /\ Pending' /\ c' \in Nat \ {0}
      /\ Behind /\ Right(k) => Behind'
  <2>1. call' = call /\ one' = one /\ call # "check"
    BY <1>1
  <2> QED BY <1>1, <1>4, <2>1, GoesOn
<1>6. Typed'
  <2>1. Typed
    BY DEF EInv
  <2> QED BY <1>1, <1>4, <1>5, <2>1 DEF Typed
<1>7. CutsRight'
  <2> SUFFICES ASSUME NEW p \in cuts' PROVE p[1] \in DOMAIN conss' /\ Cuts(p[2], conss'[p[1]], one')
    BY DEF CutsRight
  <2>1. one' = one /\ cuts' = cuts
    BY <1>1
  <2> QED BY <1>4, <2>1, CutsStay
<1>8. PseudoBehind'
  <2> SUFFICES ASSUME result' = "feasible" PROVE Behind'
    BY DEF PseudoBehind
  <2>1. /\ ~(tri /\ AtOne(k) # {}) /\ ~(tri /\ ToFix(k) # {})
        /\ PackingType(k) => ExceedingBars(k.sol) = {}
        /\ ~PackingType(k) => FullSorted(k.sol)
        /\ result = "feasible"
    BY <1>2
  <2>2. Behind
    BY <1>1, <2>1 DEF EInv, PseudoBehind
  <2>3. PackingType(k) => k.fixed \/ (AtOne(k) = {} /\ ToFix(k) = {})
    BY <2>1
  <2>4. Right(k)
    <3> HIDE DEF k, tri
    <3> QED BY <1>1, <1>3, <2>1, <2>3, NothingFoundRight
  <2> QED BY <1>5, <2>2, <2>4
<1>9. Checked' /\ LPBehind' /\ Completed'
  BY <1>1 DEF Checked, LPBehind, Completed
<1> QED BY <1>5, <1>6, <1>7, <1>8, <1>9 DEF EInv

LEMMA EReturn == EInv /\ Return => EInv'
<1> SUFFICES ASSUME EInv, Return PROVE EInv'
  OBVIOUS
<1>1. /\ pc = "loop" /\ Over /\ pc' = "done"
      /\ result' = IF call \in {"sepa", "enfolp"} THEN Answer ELSE result
      /\ UNCHANGED <<call, completely, refused, one, nuseful, conss, c, infeasible, nfixed, cuts>>
  BY DEF Return
<1>2. Typed'
  BY <1>1 DEF EInv, Typed, IsList
<1>3. Pending' /\ CutsRight'
  <2>1. Pending /\ CutsRight
    BY DEF EInv
  <2> QED BY <1>1, <2>1 DEF Pending, Ready, CutsRight
<1>4. Behind => Behind'
  BY <1>1 DEF Behind, Right, Enforced, Accepted
<1>5. Checked'
  <2>1. Checked
    BY DEF EInv
  <2>2. call = "check" => result' = result
    BY <1>1
  <2> QED BY <1>1, <2>1, <2>2 DEF Checked
<1>6. PseudoBehind' /\ LPBehind'
  <2>1. PseudoBehind /\ LPBehind
    BY DEF EInv
  <2>2. Nothing' => Nothing
    BY <1>1 DEF Nothing
  <2>3. call' = call /\ (call = "enfops" => result' = result)
    BY <1>1
  <2> QED BY <1>4, <2>1, <2>2, <2>3 DEF PseudoBehind, LPBehind
<1>7. Completed'
  <2> SUFFICES ASSUME call' # "sepa", ~refused', result' = "feasible"
               PROVE  c' > Len(conss') /\ (call' = "enfolp" => Nothing')
    BY DEF Completed
  <2>1. /\ call' = call /\ c' = c /\ conss' = conss /\ ~refused
        /\ call \in {"enfolp", "enfops", "check"}
    BY <1>1 DEF EInv, Typed
  <2>2. CASE call = "enfolp"
    <3>1. Answer = "feasible"
      BY <1>1, <2>2
    <3>2. ~infeasible /\ ~(nfixed > 0) /\ cuts = {}
      BY <3>1 DEF Answer
    <3>3. Nothing
      BY <3>2 DEF Nothing, EInv, Typed
    <3>4. SeparationOver
      BY <1>1, <2>2 DEF Over
    <3>5. c > Len(conss)
      BY <3>2, <3>4 DEF SeparationOver, Found
    <3>6. Nothing'
      BY <1>1, <3>3 DEF Nothing
    <3> QED BY <2>1, <3>5, <3>6
  <2>3. CASE call \in {"enfops", "check"}
    <3>1. result = "feasible"
      BY <1>1, <2>3
    <3>2. c > Len(conss)
      BY <1>1, <2>1, <2>3, <3>1 DEF Over
    <3> QED BY <2>1, <2>3, <3>2
  <2> QED BY <2>1, <2>2, <2>3
<1> QED BY <1>2, <1>3, <1>5, <1>6, <1>7 DEF EInv

LEMMA EStutter == EInv /\ UNCHANGED vars => EInv'
<1> SUFFICES ASSUME EInv, UNCHANGED vars PROVE EInv'
  OBVIOUS
<1>1. UNCHANGED <<pc, call, completely, refused, one, nuseful, conss, c, infeasible, nfixed, cuts,
                  result>>
  BY DEF vars
<1>2. Typed' /\ Pending' /\ CutsRight'
  BY <1>1 DEF EInv, Typed, IsList, Pending, Ready, CutsRight
<1>3. Checked' /\ Completed'
  BY <1>1 DEF EInv, Checked, Completed, Nothing
<1>4. Behind <=> Behind'
  BY <1>1 DEF Behind, Right, Enforced, Accepted
<1>5. PseudoBehind' /\ LPBehind'
  BY <1>1, <1>4 DEF EInv, PseudoBehind, LPBehind, Nothing
<1> QED BY <1>2, <1>3, <1>5 DEF EInv

(* The invariant holds, whatever the constraints and their number. *)
THEOREM EnforcementInvariant == Spec => []EInv
<1>1. EInv /\ [Next]_vars => EInv'
  BY ESkip, ESeparate, EPseudo, ECheck, EReturn, EStutter DEF Next
<1> QED BY EInit, <1>1, PTL DEF Spec

-------------------------------------------------------------------------------
(***************************************************************************)
(* The theorems.                                                           *)
(***************************************************************************)

(* No inequality that separateSCIs or separateCoversOrbisack finds cuts off *)
(* a matrix of the orbitope, however large it is and whatever the solution. *)
THEOREM CutsNeverExclude == Spec => []CutsValid
<1>1. EInv => CutsValid
  BY DEF EInv, CutsRight, Cuts, CutsValid
<1> QED BY <1>1, EnforcementInvariant, PTL

(* The shifted column inequalities that are added cut off the solution.     *)
THEOREM CutsExcludeSolution == Spec => []CutsViolated
<1>1. EInv => CutsViolated
  BY DEF EInv, CutsRight, Cuts, CutsViolated
<1> QED BY <1>1, EnforcementInvariant, PTL

(* The check accepts exactly the members of the orbitopes of the model:     *)
(* for packing and partitioning the triangle and the shifted columns decide *)
(* it, for full orbitopes the comparison of neighbouring columns.           *)
THEOREM CheckDecides == Spec => []CheckExact
<1>1. EInv => CheckExact
  <2> SUFFICES ASSUME EInv, pc = "done", call = "check",
                      \A h \in DOMAIN conss : RowsAllowed(conss[h].sol, conss[h].type, one)
               PROVE  result = "feasible" <=> \A h \in DOMAIN conss : conss[h].model => Accepted(conss[h])
    BY DEF CheckExact
  <2>1. result = "feasible" <=> \A h \in DOMAIN conss : h < c /\ conss[h].model => Passed(conss[h])
    BY DEF EInv, Checked
  <2>2. ASSUME NEW h \in DOMAIN conss PROVE Passed(conss[h]) <=> Accepted(conss[h])
    <3>1. Ready(conss[h]) /\ one \in Nat \ {0}
      BY DEF EInv, Pending, Typed
    <3>2. Constraint(conss[h], one) /\ \A e \in DOMAIN conss[h].sol : conss[h].sol[e] \in {0, one}
      BY <3>1 DEF Ready
    <3>3. Passed(conss[h]) <=> ColumnsSorted(conss[h].sol)
      BY <3>1, <3>2, PassedAccepted
    <3> QED BY <3>2, <3>3 DEF Accepted
  <2>3. ASSUME result = "feasible", NEW h \in DOMAIN conss PROVE h < c
    <3>1. c > Len(conss)
      BY <2>3 DEF EInv, Typed, Completed
    <3>2. Len(conss) \in Nat /\ DOMAIN conss = 1 .. Len(conss) /\ c \in Nat
      BY ListShape DEF EInv, Typed
    <3> QED BY <3>1, <3>2
  <2> QED BY <2>1, <2>2, <2>3
<1> QED BY <1>1, EnforcementInvariant, PTL

(* Enforcement answers feasible only if every constraint it looks at is     *)
(* fulfilled, or the solution has been refused before.                      *)
THEOREM FeasibleIsRight == Spec => []FeasibleIsOrbitope
<1>1. EInv => FeasibleIsOrbitope
  <2> SUFFICES ASSUME EInv, pc = "done", call \in {"enfolp", "enfops"}, ~refused,
                      result = "feasible", NEW h \in DOMAIN conss
               PROVE  Right(conss[h])
    BY DEF FeasibleIsOrbitope, Right
  <2>1. c > Len(conss) /\ (call = "enfolp" => Nothing)
    BY DEF EInv, Completed
  <2>2. Len(conss) \in Nat /\ DOMAIN conss = 1 .. Len(conss) /\ c \in Nat
    BY ListShape DEF EInv, Typed
  <2>3. h < c
    BY <2>1, <2>2
  <2>4. Behind
    BY <2>1 DEF EInv, PseudoBehind, LPBehind
  <2> QED BY <2>3, <2>4 DEF Behind
<1> QED BY <1>1, EnforcementInvariant, PTL
===============================================================================
