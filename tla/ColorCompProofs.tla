---------------------------- MODULE ColorCompProofs ---------------------------
(***************************************************************************)
(* Proofs about ColorComp, for any graph, any number of colours and each   *)
(* strategy.  The inductive invariant says which vertices the search has   *)
(* seen, how those of the component at hand hang together, and which       *)
(* components are on the list when the loops have come to c1 and c2.       *)
(***************************************************************************)
EXTENDS ColorComp, FiniteSetTheorems, SequenceTheorems, TLAPS

-------------------------------------------------------------------------------
(***************************************************************************)
(* The members of a set in ascending order.                                *)
(***************************************************************************)

(* The rank grows with the number, and is below the size of the set.        *)
LEMMA RankGrows ==
  ASSUME NEW S \in SUBSET Int, IsFiniteSet(S)
  PROVE  /\ \A x \in S : Rank(x, S) \in 0 .. Cardinality(S) - 1
         /\ \A x, y \in S : x < y => Rank(x, S) < Rank(y, S)
<1> DEFINE Less(x) == {y \in S : y < x}
<1>1. \A x \in S : IsFiniteSet(Less(x)) /\ Cardinality(Less(x)) \in Nat
  BY FS_Subset, FS_CardinalityType
<1>2. ASSUME NEW x \in S, NEW T \in SUBSET S, Less(x) \subseteq T, x \in T
      PROVE  Cardinality(Less(x)) < Cardinality(T)
  <2>1. IsFiniteSet(T) /\ Cardinality(T) \in Nat
    BY FS_Subset, FS_CardinalityType
  <2>2. Less(x) \in SUBSET T /\ Less(x) # T
    BY <1>2
  <2>. QED BY <1>1, <2>1, <2>2, FS_Subset
<1>3. Cardinality(S) \in Nat
  BY FS_CardinalityType
<1>4. ASSUME NEW x \in S PROVE Rank(x, S) \in 0 .. Cardinality(S) - 1
  <2>1. Cardinality(Less(x)) < Cardinality(S)
    BY <1>2
  <2>. QED BY <1>1, <1>3, <2>1 DEF Rank
<1>5. ASSUME NEW x \in S, NEW y \in S, x < y PROVE Rank(x, S) < Rank(y, S)
  <2>1. x \in Int /\ y \in Int
    OBVIOUS
  <2>2. ASSUME NEW z \in S, z < x PROVE z < y
    <3>1. z \in Int
      OBVIOUS
    <3>. QED BY <1>5, <2>1, <2>2, <3>1
  <2>3. Less(x) \subseteq Less(y) /\ x \in Less(y)
    BY <1>5, <2>2
  <2>. QED BY <1>2, <2>3 DEF Rank
<1>. QED BY <1>4, <1>5

(* Every rank is taken: as many different ranks as members.                 *)
LEMMA RankTaken ==
  ASSUME NEW S \in SUBSET Int, IsFiniteSet(S), NEW k \in 1 .. Cardinality(S)
  PROVE  \E x \in S : Rank(x, S) = k - 1
<1> DEFINE n == Cardinality(S)
           T == 0 .. n - 1
           rank == [x \in S |-> Rank(x, S)]
<1>1. n \in Nat
  BY FS_CardinalityType
<1>2. IsFiniteSet(T) /\ Cardinality(T) = n
  <2>1. 0 \in Int /\ n - 1 \in Int
    BY <1>1
  <2>2. IsFiniteSet(T) /\ Cardinality(T) = IF 0 > n - 1 THEN 0 ELSE n - 1 - 0 + 1
    BY <2>1, FS_Interval
  <2>. QED BY <1>1, <2>2
<1>3. rank \in [S -> T]
  BY RankGrows
<1>4. \A x, y \in S : rank[x] = rank[y] => x = y
  <2>1. ASSUME NEW x \in S, NEW y \in S, x # y PROVE rank[x] # rank[y]
    <3>1. x < y \/ y < x
      BY <2>1
    <3>2. rank[x] < rank[y] \/ rank[y] < rank[x]
      BY <3>1, RankGrows
    <3>3. rank[x] \in Int /\ rank[y] \in Int
      BY <1>3, <1>1
    <3>. QED BY <3>2, <3>3
  <2>. QED BY <2>1
<1>5. rank \in Injection(S, T)
  BY <1>3, <1>4 DEF Injection, IsInjective
<1>6. rank \in Surjection(S, T)
  BY <1>2, <1>5, FS_Injection
<1>7. k - 1 \in T
  BY <1>1
<1>. QED BY <1>6, <1>7 DEF Surjection

(* The sequence has exactly the members of the set, in ascending order.     *)
LEMMA AscendingIsSorted ==
  ASSUME NEW S \in SUBSET Int, IsFiniteSet(S)
  PROVE  /\ Ascending(S) \in Seq(S)
         /\ Len(Ascending(S)) = Cardinality(S) /\ Cardinality(S) \in Nat
         /\ Range(Ascending(S)) = S
         /\ \A g, h \in DOMAIN Ascending(S) : g < h => Ascending(S)[g] < Ascending(S)[h]
<1> DEFINE n == Cardinality(S)
           a == Ascending(S)
<1>1. n \in Nat
  BY FS_CardinalityType
<1>2. DOMAIN a = 1 .. n
  BY DEF Ascending
<1>3. \A k \in 1 .. n : a[k] \in S /\ Rank(a[k], S) = k - 1
  BY RankTaken DEF Ascending
<1>4. a \in [1 .. n -> S]
  BY <1>2, <1>3 DEF Ascending
<1>5. a \in Seq(S) /\ Len(a) = n
  BY <1>1, <1>4
<1>6. ASSUME NEW x \in S, NEW y \in S
      PROVE  /\ x \in Int /\ y \in Int /\ Rank(x, S) \in 0 .. n - 1
             /\ Rank(x, S) = Rank(y, S) => x = y
             /\ Rank(x, S) < Rank(y, S) => x < y
  <2>1. x \in Int /\ y \in Int
    OBVIOUS
  <2>2. Rank(x, S) \in 0 .. n - 1 /\ Rank(y, S) \in 0 .. n - 1
    BY RankGrows
  <2>3. (x < y => Rank(x, S) < Rank(y, S)) /\ (y < x => Rank(y, S) < Rank(x, S))
    BY RankGrows
  <2>. QED BY <1>1, <2>1, <2>2, <2>3
<1>7. ASSUME NEW x \in S PROVE x \in Range(a)
  <2> DEFINE k == Rank(x, S) + 1
  <2>1. k \in 1 .. n /\ k - 1 = Rank(x, S)
    BY <1>1, <1>6
  <2>2. a[k] \in S /\ Rank(a[k], S) = Rank(x, S)
    BY <1>3, <2>1
  <2>3. a[k] = x
    BY <1>6, <2>2
  <2>. QED BY <1>2, <2>1, <2>3 DEF Range
<1>8. Range(a) = S
  BY <1>2, <1>3, <1>7 DEF Range
<1>9. ASSUME NEW g \in 1 .. n, NEW h \in 1 .. n, g < h PROVE a[g] < a[h]
  <2>1. a[g] \in S /\ a[h] \in S /\ Rank(a[g], S) < Rank(a[h], S)
    BY <1>1, <1>3, <1>9
  <2>. QED BY <1>6, <2>1
<1>. QED BY <1>1, <1>2, <1>5, <1>8, <1>9

-------------------------------------------------------------------------------

Submatrices == [rows : Seq(Vertices), cols : Seq(Colors)]
SubSets     == [rows : SUBSET Vertices, cols : SUBSET Colors]

Assumptions ==
  SizeAssumption /\ StrategyAssumption /\ MatrixAssumption /\ GraphAssumption

(* The vertices without colours of the pick, those of the component at      *)
(* hand, and those of the components that have been recorded for the pick.  *)
R0   == Removed(dom, Pick)
Comp == IF pc = "dfs" THEN Range(component) ELSE {}
Done == removed \ (R0 \cup Comp)

(* The variables have their types, and the loops their bounds. *)
Typed ==
  /\ dom \in Matrices /\ strategy \in Strategies
  /\ pc \in {"idle", "pick", "vertices", "dfs", "returned"}
  /\ c1 \in 0 .. NColors /\ c2 \in 0 .. NColors + 1
  /\ startvertex \in 0 .. NVertices
  /\ removed \subseteq Vertices
  /\ dfsstack \in Seq(Vertices) /\ component \in Seq(Vertices)
  /\ found \in Seq(Submatrices)
  /\ pc \in {"vertices", "dfs"} => InLoop
  /\ pc \in {"pick", "vertices", "dfs"} => FirstOf(c1) <= c2
  /\ pc = "returned" => c1 = NColors
  /\ pc # "dfs" => dfsstack = <<>>

(* What has been recorded has no neighbours that are still to be seen.      *)
Search ==
  pc \in {"vertices", "dfs"} =>
    /\ R0 # {} /\ R0 \subseteq removed
    /\ Comp \subseteq removed /\ Comp \cap R0 = {}
    /\ \A v \in Vertices : v < startvertex => v \in removed
    /\ Closed(Done, R0)

(* The component at hand: no vertex comes twice, each but the first one is  *)
(* next to an earlier one, the stack is a path in it.                       *)
InComponent ==
  /\ IsInjective(component)
  /\ pc = "dfs" =>
       /\ startvertex < NVertices /\ startvertex \in removed
       /\ component # <<>>
       /\ IsInjective(dfsstack)
       /\ Range(dfsstack) \subseteq Range(component)
       /\ \A k \in DOMAIN component :
            k > 1 => \E h \in 1 .. k - 1 : Adjacent(component[h], component[k])

(* A pick of which the loops are through. *)
Before(a, b) == a < c1 \/ (a = c1 /\ b < c2)

(* What is on the list: the components for the picks before this one, and   *)
(* the components that have been recorded for it.                           *)
Recorded(s) ==
  \E p \in Used :
    /\ s.cols = ColumnsOf({p[1], p[2]})
    /\ s.rows \in Components(Removed(dom, {p[1], p[2]}))
    /\ \/ Before(p[1], p[2])
       \/ pc \in {"vertices", "dfs"} /\ p = <<c1, c2>> /\ s.rows \subseteq Done

ListExact ==
  /\ pc # "idle" => Listed(found) = {s \in SubSets : Recorded(s)}
  /\ IsInjective(found)

IInv == Typed /\ Search /\ InComponent /\ StackIsPath /\ OrderOfMatrix /\ ListExact

-------------------------------------------------------------------------------
LEMMA VerticesFinite ==
  ASSUME SizeAssumption
  PROVE  /\ Vertices \subseteq Int /\ IsFiniteSet(Vertices) /\ Cardinality(Vertices) = NVertices
         /\ Colors \subseteq Int /\ IsFiniteSet(Colors)
<1>1. NVertices \in Nat \ {0} /\ NColors \in Nat \ {0}
  BY DEF SizeAssumption
<1>2. 0 \in Int /\ NVertices - 1 \in Int /\ NColors - 1 \in Int
  BY <1>1
<1>3. IsFiniteSet(Vertices) /\ Cardinality(Vertices) = IF 0 > NVertices - 1 THEN 0 ELSE NVertices - 1 - 0 + 1
  BY <1>2, FS_Interval DEF Vertices
<1>4. IsFiniteSet(Colors)
  BY <1>2, FS_Interval DEF Colors
<1>. QED BY <1>1, <1>3, <1>4 DEF Vertices, Colors

(* The graph is undirected. *)
LEMMA AdjacentSymmetric ==
  ASSUME GraphAssumption, NEW v \in Vertices, NEW w, Adjacent(v, w)
  PROVE  w \in Vertices /\ v # w /\ Adjacent(w, v)
<1>1. Adjacencies[v] \in Seq(Vertices)
  BY DEF GraphAssumption
<1>2. w \in Vertices
  BY <1>1 DEF Adjacent, Range
<1>. QED BY <1>2 DEF GraphAssumption, Adjacent

LEMMA RemovedType ==
  ASSUME NEW d, NEW pick PROVE Removed(d, pick) \subseteq Vertices
BY DEF Removed

(* No more vertices than there are, if none comes twice. *)
LEMMA FitsIntoCells ==
  ASSUME SizeAssumption, NEW q \in Seq(Vertices), IsInjective(q)
  PROVE  Len(q) <= NVertices
<1>1. q \in Injection(1 .. Len(q), Vertices)
  BY DEF Injection, IsInjective
<1>2. Cardinality(1 .. Len(q)) <= Cardinality(Vertices)
  BY <1>1, VerticesFinite, FS_Injection
<1>3. Len(q) \in Nat /\ 1 \in Int /\ Len(q) \in Int
  OBVIOUS
<1>4. Cardinality(1 .. Len(q)) = IF 1 > Len(q) THEN 0 ELSE Len(q) - 1 + 1
  BY <1>3, FS_Interval
<1>. QED BY <1>2, <1>3, <1>4, VerticesFinite DEF SizeAssumption

(* One more at the end of a sequence, and one fewer.                        *)
LEMMA Appended ==
  ASSUME NEW S, NEW q \in Seq(S), NEW x \in S
  PROVE  /\ Append(q, x) \in Seq(S) /\ Append(q, x) # <<>>
         /\ Len(Append(q, x)) = Len(q) + 1 /\ DOMAIN Append(q, x) = 1 .. Len(q) + 1
         /\ Append(q, x)[Len(q) + 1] = x
         /\ \A k \in DOMAIN q : k \in DOMAIN Append(q, x) /\ Append(q, x)[k] = q[k]
         /\ Range(Append(q, x)) = Range(q) \cup {x}
         /\ IsInjective(q) /\ x \notin Range(q) => IsInjective(Append(q, x))
<1> DEFINE a == Append(q, x)
<1>1. /\ a \in Seq(S) /\ a # <<>> /\ Len(a) = Len(q) + 1 /\ DOMAIN a = 1 .. Len(q) + 1
      /\ a[Len(q) + 1] = x /\ \A k \in 1 .. Len(q) : a[k] = q[k]
  OBVIOUS
<1>2. DOMAIN q = 1 .. Len(q) /\ Len(q) \in Nat
  OBVIOUS
<1>3. \A k \in 1 .. Len(q) + 1 : k \in 1 .. Len(q) \/ k = Len(q) + 1
  BY <1>2
<1>4. \A k \in 1 .. Len(q) : k \in 1 .. Len(q) + 1
  BY <1>2
<1> HIDE DEF a
<1>5. Range(a) = Range(q) \cup {x}
  <2>1. Len(q) + 1 \in DOMAIN a
    BY <1>1, <1>2
  <2>. QED BY <1>1, <1>2, <1>3, <1>4, <2>1 DEF Range
<1>6. IsInjective(q) /\ x \notin Range(q) => IsInjective(a)
  BY <1>1, <1>2, <1>3 DEF Range, IsInjective
<1>. QED BY <1>1, <1>2, <1>4, <1>5, <1>6 DEF a

LEMMA Shortened ==
  ASSUME NEW S, NEW q \in Seq(S), q # <<>>
  PROVE  /\ SubSeq(q, 1, Len(q) - 1) \in Seq(S)
         /\ Len(SubSeq(q, 1, Len(q) - 1)) = Len(q) - 1 /\ Len(q) \in Nat \ {0}
         /\ \A k \in DOMAIN SubSeq(q, 1, Len(q) - 1) :
              k \in DOMAIN q /\ SubSeq(q, 1, Len(q) - 1)[k] = q[k]
         /\ Range(q) = Range(SubSeq(q, 1, Len(q) - 1)) \cup {q[Len(q)]}
         /\ IsInjective(q) => IsInjective(SubSeq(q, 1, Len(q) - 1))
<1> DEFINE r == SubSeq(q, 1, Len(q) - 1)
<1>1. Len(q) \in Nat \ {0}
  BY EmptySeq
<1>2. r \in Seq(S) /\ Len(r) = Len(q) - 1 /\ \A k \in 1 .. Len(q) - 1 : r[k] = q[k]
  <2> DEFINE n == Len(q) - 1
  <2>1. n \in Int /\ n >= 0 /\ \A k \in 1 .. n : q[k] \in S
    BY <1>1
  <2>2. Len(SubSeq(q, 1, n)) = IF 1 <= n THEN n - 1 + 1 ELSE 0
    <3> HIDE DEF n
    <3>. QED BY <2>1, SubSeqProperties
  <2>3. Len(SubSeq(q, 1, n)) = n
    <3> HIDE DEF n
    <3>. QED BY <2>1, <2>2
  <2>4. SubSeq(q, 1, n) \in Seq(S) /\ \A k \in 1 .. n : SubSeq(q, 1, n)[k] = q[k]
    BY <1>1
  <2>. QED BY <2>3, <2>4
<1> HIDE DEF r
<1>3. DOMAIN r = 1 .. Len(q) - 1 /\ DOMAIN q = 1 .. Len(q)
  BY <1>2
<1>4. \A k \in 1 .. Len(q) : k \in 1 .. Len(q) - 1 \/ k = Len(q)
  BY <1>1
<1>5. \A k \in 1 .. Len(q) - 1 : k \in 1 .. Len(q)
  BY <1>1
<1>6. Len(q) \in 1 .. Len(q)
  BY <1>1
<1>7. Range(q) = Range(r) \cup {q[Len(q)]}
  BY <1>2, <1>3, <1>4, <1>5, <1>6 DEF Range
<1>8. IsInjective(q) => IsInjective(r)
  BY <1>2, <1>3, <1>5 DEF IsInjective
<1>. QED BY <1>1, <1>2, <1>3, <1>5, <1>7, <1>8 DEF r

(* A set of natural numbers that is not empty has a smallest element. *)
LEMMA MinExists ==
  ASSUME NEW S, S \subseteq Nat, S # {}
  PROVE  \E x \in S : \A y \in S : x <= y
<1> DEFINE R == {ss \in Nat \X Nat : ss[1] < ss[2]}
<1>1. IsWellFoundedOn(R, Nat)
  BY NatLessThanWellFounded DEF OpToRel
<1>2. PICK x \in S : \A y \in S : ~(<<y, x>> \in R)
  BY <1>1, WFMin
<1>3. ASSUME NEW y \in S PROVE x <= y
  <2>1. ~(<<y, x>> \in R) /\ x \in Nat /\ y \in Nat
    BY <1>2
  <2>2. x > y => <<y, x>> \in R
    BY <2>1
  <2> QED BY <2>1, <2>2
<1> QED BY <1>2, <1>3

-------------------------------------------------------------------------------
(* A pick of two colours, and what has been seen when the stack is empty. *)

LEMMA PickType ==
  ASSUME Assumptions, Typed, InLoop
  PROVE  /\ c1 \in Colors /\ c2 \in Colors /\ c2 + 1 \in 0 .. NColors + 1 /\ Pick \subseteq Colors
         /\ ColumnsOf(Pick) \in SUBSET Colors
         /\ R0 # {} /\ FirstOf(c1) <= c2 => <<c1, c2>> \in Used
<1>0. NColors \in Nat \ {0}
  BY DEF Assumptions, SizeAssumption
<1>1. c1 \in Colors /\ c2 \in Colors
  BY <1>0 DEF InLoop, Typed, Colors
<1>2. c2 + 1 \in 0 .. NColors + 1
  BY <1>0, <1>1 DEF Colors
<1>3. ASSUME R0 # {}, FirstOf(c1) <= c2 PROVE <<c1, c2>> \in Used
  <2>1. /\ strategy = "inverted1" => c2 = c1
        /\ strategy # "inverted1" => c1 < c2 /\ (AllColorPairs \/ c2 = c1 + 1)
    BY <1>0, <1>1, <1>3 DEF InLoop, FirstOf, Colors
  <2>. QED BY <1>1, <1>3, <2>1 DEF Used, R0, Pick
<1>. QED BY <1>1, <1>2, <1>3 DEF Pick, ColumnsOf

(* The component at hand, once nothing on the stack is left to be seen, is  *)
(* a component of the graph without R0, and a new one.                      *)
LEMMA ComponentFound ==
  ASSUME Assumptions, Typed, Search, InComponent, StackIsPath, pc = "dfs", dfsstack = <<>>
  PROVE  Comp \in Components(R0) /\ Comp \cap Done = {}
<1>0. GraphAssumption /\ R0 \subseteq Vertices /\ removed \subseteq Vertices
  BY RemovedType DEF Assumptions, R0, Typed
<1>1. /\ Comp = Range(component) /\ Comp \subseteq Vertices /\ Comp \cap R0 = {}
      /\ Comp \subseteq removed
  BY DEF Comp, Search, Typed, Range
<1>2. DOMAIN component = 1 .. Len(component) /\ Len(component) \in Nat \ {0}
  <2>1. component \in Seq(Vertices) /\ component # <<>>
    BY DEF Typed, InComponent
  <2>2. Len(component) \in Nat \ {0}
    BY <2>1, EmptySeq
  <2>3. DOMAIN component = 1 .. Len(component)
    BY <2>1
  <2>. QED BY <2>2, <2>3
<1>3. Comp # {}
  <2>1. 1 \in DOMAIN component
    BY <1>2
  <2>2. component[1] \in Range(component)
    BY <2>1 DEF Range
  <2>. QED BY <1>1, <2>2
<1>4. Comp \cap Done = {}
  BY DEF Done
<1>5. Closed(Comp, R0)
  <2> SUFFICES ASSUME NEW v \in Comp, NEW w \in Vertices, Adjacent(v, w), w \notin Comp \cup R0
               PROVE  FALSE
    BY DEF Closed
  <2>1. w \in removed
    BY <1>1 DEF StackIsPath, Range
  <2>2. w \in Done
    BY <2>1 DEF Done
  <2>3. Adjacent(w, v)
    BY <1>0, <1>1, AdjacentSymmetric
  <2>4. v \in Done \cup R0
    BY <1>1, <2>2, <2>3 DEF Search, Closed
  <2>. QED BY <1>1, <1>4, <2>4
<1>6. ASSUME NEW T \in SUBSET Comp, T # {}, Closed(T, R0)
      PROVE  component[1] \in T
  <2> DEFINE I == {k \in DOMAIN component : component[k] \in T}
  <2>1. I \subseteq Nat /\ I # {}
    BY <1>1, <1>2, <1>6 DEF Range
  <2>2. PICK k \in I : \A h \in I : k <= h
    BY <2>1, MinExists
  <2>3. k \in Nat /\ k >= 1 /\ component[k] \in T
    BY <1>2, <2>2
  <2>4. CASE k = 1
    BY <2>3, <2>4
  <2>5. CASE k > 1
    <3>1. PICK h \in 1 .. k - 1 : Adjacent(component[h], component[k])
      BY <2>2, <2>5 DEF InComponent
    <3>2. h \in DOMAIN component /\ h < k /\ h \in Nat
      BY <1>2, <2>2, <2>3
    <3>3. component[h] \in Comp /\ component[h] \in Vertices /\ component[k] \in Vertices
      BY <1>1, <2>3, <3>2 DEF Range
    <3>4. Adjacent(component[k], component[h])
      BY <1>0, <3>1, <3>3, AdjacentSymmetric
    <3>5. component[h] \in T
      BY <1>1, <1>6, <2>3, <3>3, <3>4 DEF Closed
    <3>6. h \in I
      BY <3>2, <3>5
    <3>. QED BY <2>2, <2>3, <3>2, <3>6
  <2>. QED BY <2>3, <2>4, <2>5
<1>7. ASSUME NEW T \in SUBSET Comp, T # {}, Closed(T, R0) PROVE T = Comp
  <2> SUFFICES ASSUME Comp \ T # {} PROVE FALSE
    OBVIOUS
  <2>1. Closed(Comp \ T, R0)
    <3> SUFFICES ASSUME NEW v \in Comp \ T, NEW w \in Vertices, Adjacent(v, w), w \in T
                 PROVE  FALSE
      BY <1>5 DEF Closed
    <3>1. Adjacent(w, v)
      BY <1>0, <1>1, AdjacentSymmetric
    <3>2. v \in T \cup R0
      BY <1>1, <1>7, <3>1 DEF Closed
    <3>. QED BY <1>1, <3>2
  <2>2. component[1] \in T /\ component[1] \in Comp \ T
    <3>1. component[1] \in T
      BY <1>6, <1>7
    <3>2. component[1] \in Comp \ T
      BY <1>6, <2>1
    <3>. QED BY <3>1, <3>2
  <2>. QED BY <2>2
<1>. QED BY <1>1, <1>3, <1>4, <1>5, <1>7 DEF Components

(* A component in C and D, of which C is one, is C or lies in D.            *)
LEMMA ComponentsApart ==
  ASSUME GraphAssumption, NEW R, NEW C \in Components(R), NEW D, NEW S \in Components(R),
         S \subseteq D \cup C
  PROVE  S = C \/ S \subseteq D
<1>1. Closed(S \cap C, R)
  BY DEF Components, Closed
<1>2. S \cap C # {} => S \cap C = S /\ S \cap C = C
  BY <1>1 DEF Components
<1>. QED BY <1>2

(* The vertex that is visited next to the head of the stack. *)
LEMMA NextIsUnvisited ==
  ASSUME Assumptions, Typed, dfsstack # <<>>
  PROVE  /\ Len(dfsstack) \in Nat \ {0} /\ Len(dfsstack) \in DOMAIN dfsstack
         /\ Top \in Vertices /\ Top \in Range(dfsstack)
         /\ Unvisited # {} =>
              NextVertex \in Vertices /\ NextVertex \notin removed /\ Adjacent(Top, NextVertex)
         /\ Unvisited = {} => \A w \in Vertices : Adjacent(Top, w) => w \in removed
<1>1. Len(dfsstack) \in Nat \ {0}
  BY EmptySeq DEF Typed
<1>2. DOMAIN dfsstack = 1 .. Len(dfsstack)
  BY DEF Typed
<1>3. Len(dfsstack) \in DOMAIN dfsstack
  BY <1>1, <1>2
<1>4. Top \in Vertices /\ Top \in Range(dfsstack)
  BY <1>3 DEF Typed, Top, Range
<1>5. Adjacencies[Top] \in Seq(Vertices)
  BY <1>4 DEF Assumptions, GraphAssumption
<1>6. ASSUME Unvisited # {}
      PROVE  NextVertex \in Vertices /\ NextVertex \notin removed /\ Adjacent(Top, NextVertex)
  <2> DEFINE k == CHOOSE k \in Unvisited : \A h \in Unvisited : k <= h
  <2>1. Unvisited \subseteq Nat
    BY <1>5 DEF Unvisited
  <2>2. \E x \in Unvisited : \A y \in Unvisited : x <= y
    BY <1>6, <2>1, MinExists
  <2>3. k \in Unvisited
    BY <2>2
  <2>4. NextVertex = Adjacencies[Top][k]
    BY DEF NextVertex
  <2> HIDE DEF k
  <2>. QED BY <1>5, <2>3, <2>4 DEF Unvisited, Adjacent, Range
<1>7. ASSUME Unvisited = {}, NEW w \in Vertices, Adjacent(Top, w) PROVE w \in removed
  BY <1>7 DEF Unvisited, Adjacent, Range
<1>. QED BY <1>1, <1>3, <1>4, <1>6, <1>7

LEMMA SomeTypes ==
  ASSUME Assumptions PROVE SomeNode \in Matrices /\ SomeStrategy \in Strategies
BY DEF Assumptions, MatrixAssumption, StrategyAssumption, SomeNode, SomeStrategy

(* The submatrix that is recorded for the component at hand. *)
Recording ==
  [rows |-> Ascending(Range(component)), cols |-> Ascending(ColumnsOf(Pick))]

LEMMA RecordingType ==
  ASSUME Assumptions, Typed, pc = "dfs"
  PROVE  /\ Recording \in Submatrices
         /\ AsSets(Recording) = [rows |-> Comp, cols |-> ColumnsOf(Pick)]
         /\ AsSets(Recording) \in SubSets
         /\ Increasing(Recording.rows) /\ Increasing(Recording.cols)
<1>0. SizeAssumption
  BY DEF Assumptions
<1>1. Range(component) \subseteq Vertices /\ Comp = Range(component)
  BY DEF Typed, Range, Comp
<1>2. ColumnsOf(Pick) \subseteq Colors
  BY PickType DEF Typed
<1>3. /\ Range(component) \in SUBSET Int /\ IsFiniteSet(Range(component))
      /\ ColumnsOf(Pick) \in SUBSET Int /\ IsFiniteSet(ColumnsOf(Pick))
  BY <1>0, <1>1, <1>2, VerticesFinite, FS_Subset
<1>4. /\ Ascending(Range(component)) \in Seq(Range(component))
      /\ Range(Ascending(Range(component))) = Range(component)
      /\ Increasing(Ascending(Range(component)))
  BY <1>3, AscendingIsSorted DEF Increasing
<1>5. /\ Ascending(ColumnsOf(Pick)) \in Seq(ColumnsOf(Pick))
      /\ Range(Ascending(ColumnsOf(Pick))) = ColumnsOf(Pick)
      /\ Increasing(Ascending(ColumnsOf(Pick)))
  BY <1>3, AscendingIsSorted DEF Increasing
<1>6. Ascending(Range(component)) \in Seq(Vertices) /\ Ascending(ColumnsOf(Pick)) \in Seq(Colors)
  BY <1>1, <1>2, <1>4, <1>5, SeqMonotonic
<1>. QED BY <1>1, <1>2, <1>4, <1>5, <1>6 DEF Recording, Submatrices, SubSets, AsSets

(* A list with one more submatrix in front. *)
LEMMA ListedPrepend ==
  ASSUME NEW f \in Seq(Submatrices), NEW e \in Submatrices
  PROVE  /\ <<e>> \o f \in Seq(Submatrices)
         /\ Listed(<<e>> \o f) = Listed(f) \cup {AsSets(e)}
         /\ \A k \in DOMAIN (<<e>> \o f) :
              (<<e>> \o f)[k] = e \/ \E h \in DOMAIN f : (<<e>> \o f)[k] = f[h]
         /\ IsInjective(f) /\ AsSets(e) \notin Listed(f) => IsInjective(<<e>> \o f)
<1> DEFINE g == <<e>> \o f
<1>1. <<e>> \in Seq(Submatrices) /\ Len(<<e>>) = 1 /\ <<e>>[1] = e
  OBVIOUS
<1>2. g \in Seq(Submatrices) /\ Len(g) = Len(f) + 1
  BY <1>1, ConcatProperties
<1>3. g[1] = e
  BY <1>1, ConcatProperties
<1>4. \A k \in DOMAIN f : k + 1 \in DOMAIN g /\ g[k + 1] = f[k]
  BY <1>1, <1>2, ConcatProperties
<1>5. \A k \in DOMAIN g : k = 1 \/ (k - 1 \in DOMAIN f /\ g[k] = f[k - 1])
  BY <1>1, <1>2, ConcatProperties
<1>6. 1 \in DOMAIN g /\ DOMAIN g \subseteq Int
  BY <1>2
<1> HIDE DEF g
<1>7. Listed(g) = Listed(f) \cup {AsSets(e)}
  BY <1>3, <1>4, <1>5, <1>6 DEF Listed
<1>8. ASSUME IsInjective(f), AsSets(e) \notin Listed(f) PROVE IsInjective(g)
  <2> SUFFICES ASSUME NEW k \in DOMAIN g, NEW h \in DOMAIN g, g[k] = g[h] PROVE k = h
    BY DEF IsInjective
  <2>1. \A x \in DOMAIN f : f[x] # e
    BY <1>8 DEF Listed
  <2>2. CASE k = 1 \/ h = 1
    BY <1>3, <1>5, <2>1, <2>2
  <2>3. CASE k # 1 /\ h # 1
    <3>1. k - 1 \in DOMAIN f /\ h - 1 \in DOMAIN f /\ f[k - 1] = f[h - 1]
      BY <1>5, <2>3
    <3>2. k - 1 = h - 1
      BY <1>8, <3>1 DEF IsInjective
    <3>. QED BY <1>6, <3>2
  <2>. QED BY <2>2, <2>3
<1>9. \A k \in DOMAIN g : g[k] = e \/ \E h \in DOMAIN f : g[k] = f[h]
  BY <1>3, <1>5
<1>. QED BY <1>2, <1>7, <1>8, <1>9 DEF g

-------------------------------------------------------------------------------
(* The inductive invariant: one lemma for each of its parts. *)

LEMMA TypedInit == ASSUME Assumptions PROVE Init => Typed
BY SomeTypes DEF Init, Typed, Assumptions, SizeAssumption

LEMMA TypedStep == ASSUME Assumptions, Typed, InComponent, [Next]_vars PROVE Typed'
<1>0. NVertices \in Nat \ {0} /\ NColors \in Nat \ {0} /\ SizeAssumption
  BY DEF Assumptions, SizeAssumption
<1>1. CASE Call
  BY <1>0, <1>1 DEF Call, Typed, FirstOf
<1>2. CASE NextColor
  <2>1. c1 + 1 \in 0 .. NColors /\ FirstOf(c1 + 1) \in 0 .. NColors + 1
    BY <1>0, <1>2 DEF NextColor, Typed, FirstOf
  <2>. QED BY <1>2, <2>1 DEF NextColor, Typed, FirstOf
<1>3. CASE SkipPick
  <2>1. c2 + 1 \in 0 .. NColors + 1 /\ FirstOf(c1) <= c2 + 1
    BY <1>0, <1>3, PickType DEF SkipPick, Typed, FirstOf
  <2>. QED BY <1>3, <2>1 DEF SkipPick, Typed, FirstOf
<1>4. CASE StartPick
  <2>1. removed' \subseteq Vertices
    BY <1>4, RemovedType DEF StartPick
  <2>. QED BY <1>0, <1>4, <2>1 DEF StartPick, Typed, FirstOf, InLoop
<1>5. CASE SkipVertex
  BY <1>0, <1>5 DEF SkipVertex, Typed, FirstOf, InLoop
<1>6. CASE StartComponent
  <2>1. startvertex \in Vertices
    BY <1>0, <1>6 DEF StartComponent, Typed, Vertices
  <2>2. <<startvertex>> \in Seq(Vertices)
    BY <2>1
  <2>. QED BY <1>6, <2>1, <2>2 DEF StartComponent, Typed, FirstOf, InLoop
<1>7. CASE Visit
  <2>1. NextVertex \in Vertices
    BY <1>7, NextIsUnvisited DEF Visit
  <2>2. Append(component, NextVertex) \in Seq(Vertices) /\ Append(dfsstack, NextVertex) \in Seq(Vertices)
    BY <2>1 DEF Typed
  <2>3. dfsstack' \in Seq(Vertices) /\ component' \in Seq(Vertices) /\ removed' \subseteq Vertices
    BY <1>7, <2>1, <2>2 DEF Visit, Typed
  <2>. QED BY <1>7, <2>3 DEF Visit, Typed, FirstOf, InLoop
<1>8. CASE Pop
  <2>1. dfsstack' \in Seq(Vertices)
    BY <1>8, Shortened DEF Pop, Typed
  <2>. QED BY <1>8, <2>1 DEF Pop, Typed, FirstOf, InLoop
<1>9. CASE Record
  <2>1. found' = <<Recording>> \o found
    BY <1>9 DEF Record, Recording
  <2>2. Recording \in Submatrices
    BY <1>9, RecordingType DEF Record
  <2>3. found' \in Seq(Submatrices)
    BY <2>1, <2>2, ListedPrepend DEF Typed
  <2>4. startvertex' \in 0 .. NVertices
    BY <1>0, <1>9 DEF Record, Typed, InComponent
  <2>. QED BY <1>9, <2>3, <2>4 DEF Record, Typed, FirstOf, InLoop
<1>10. CASE EndPick
  <2>1. c2 + 1 \in 0 .. NColors + 1 /\ FirstOf(c1) <= c2 + 1
    BY <1>0, <1>10, PickType DEF EndPick, Typed, FirstOf
  <2>. QED BY <1>10, <2>1 DEF EndPick, Typed, FirstOf
<1>11. CASE Return
  BY <1>11 DEF Return, Typed
<1>12. CASE Consume
  BY <1>0, <1>12, SomeTypes DEF Consume, Typed
<1>13. CASE UNCHANGED vars
  BY <1>13 DEF vars, Typed, FirstOf, InLoop
<1>. QED BY <1>1, <1>2, <1>3, <1>4, <1>5, <1>6, <1>7, <1>8, <1>9, <1>10, <1>11, <1>12, <1>13
         DEF Next, Step

LEMMA SearchInit == Init => Search
BY DEF Init, Search

LEMMA SearchStep ==
  ASSUME Assumptions, Typed, Search, InComponent, StackIsPath, [Next]_vars
  PROVE  Search'
<1>0. NVertices \in Nat \ {0} /\ SizeAssumption /\ GraphAssumption
  BY DEF Assumptions, SizeAssumption
<1>1. CASE Call \/ NextColor \/ SkipPick \/ EndPick \/ Return \/ Consume
  BY <1>1 DEF Call, NextColor, SkipPick, EndPick, Return, Consume, Search
<1>2. CASE StartPick
  <2>1. R0' = R0 /\ removed' = R0 /\ Comp' = {} /\ R0' # {}
    BY <1>2 DEF StartPick, R0, Comp, Removed, Pick
  <2>2. Done' = {}
    BY <2>1 DEF Done
  <2>3. \A v \in Vertices : ~(v < startvertex')
    BY <1>0, <1>2 DEF StartPick, Vertices
  <2>. QED BY <2>1, <2>2, <2>3 DEF Search, Closed
<1>3. CASE SkipVertex
  <2>1. R0' = R0 /\ removed' = removed /\ Comp' = Comp /\ Done' = Done
    BY <1>3 DEF SkipVertex, R0, Comp, Done, Removed, Pick
  <2>2. \A v \in Vertices : v < startvertex' => v < startvertex \/ v = startvertex
    BY <1>0, <1>3 DEF SkipVertex, Vertices, Typed
  <2>. QED BY <1>3, <2>1, <2>2 DEF SkipVertex, Search, Closed
<1>4. CASE StartComponent
  <2>1. R0' = R0 /\ removed' = removed \cup {startvertex} /\ Comp' = {startvertex} /\ Comp = {}
    BY <1>4 DEF StartComponent, R0, Comp, Removed, Pick, Range
  <2>2. startvertex \notin removed /\ R0 \subseteq removed
    BY <1>4 DEF StartComponent, Search
  <2>3. Done' = Done
    BY <2>1, <2>2 DEF Done
  <2>. QED BY <1>4, <2>1, <2>2, <2>3 DEF StartComponent, Search, Closed
<1>5. CASE Visit
  <2>1. NextVertex \in Vertices /\ NextVertex \notin removed
    BY <1>5, NextIsUnvisited DEF Visit
  <2>2. Range(Append(component, NextVertex)) = Range(component) \cup {NextVertex}
    BY <2>1, Appended DEF Typed
  <2>3. R0' = R0 /\ removed' = removed \cup {NextVertex} /\ Comp' = Comp \cup {NextVertex}
    BY <1>5, <2>2 DEF Visit, R0, Comp, Removed, Pick, Range
  <2>4. R0 \subseteq removed /\ Comp \subseteq removed /\ Comp \cap R0 = {}
    BY <1>5 DEF Visit, Search
  <2>5. Done' = Done
    BY <2>1, <2>3, <2>4 DEF Done
  <2>. QED BY <1>5, <2>1, <2>3, <2>4, <2>5 DEF Visit, Search, Closed
<1>6. CASE Pop
  <2>1. R0' = R0 /\ removed' = removed /\ Comp' = Comp /\ Done' = Done
    BY <1>6 DEF Pop, R0, Comp, Done, Removed, Pick, Range
  <2>. QED BY <1>6, <2>1 DEF Pop, Search, Closed
<1>7. CASE Record
  <2>1. R0' = R0 /\ removed' = removed /\ Comp' = {}
    BY <1>7 DEF Record, R0, Comp, Removed, Pick
  <2>2. Comp \in Components(R0) /\ R0 \subseteq removed /\ Comp \subseteq removed /\ Comp \cap R0 = {}
    BY <1>7, ComponentFound DEF Record, Search
  <2>3. Done' = Done \cup Comp
    BY <2>1, <2>2 DEF Done
  <2>4. Closed(Done', R0')
    BY <1>7, <2>1, <2>2, <2>3 DEF Record, Search, Closed, Components
  <2>5. \A v \in Vertices : v < startvertex' => v < startvertex \/ v = startvertex
    BY <1>0, <1>7 DEF Record, Vertices, Typed
  <2>. QED BY <1>7, <2>1, <2>2, <2>4, <2>5 DEF Record, Search, InComponent, Closed
<1>8. CASE UNCHANGED vars
  BY <1>8 DEF vars, Search, R0, Comp, Done, Removed, Pick, Closed, Range
<1>. QED BY <1>1, <1>2, <1>3, <1>4, <1>5, <1>6, <1>7, <1>8 DEF Next, Step

LEMMA InComponentInit == Init => InComponent
BY DEF Init, InComponent, IsInjective

LEMMA InComponentStep ==
  ASSUME Assumptions, Typed, Search, InComponent, [Next]_vars
  PROVE  InComponent'
<1>0. NVertices \in Nat \ {0} /\ SizeAssumption /\ GraphAssumption
  BY DEF Assumptions, SizeAssumption
<1>1. CASE Call \/ NextColor \/ SkipPick \/ StartPick \/ SkipVertex \/ Record \/ EndPick \/ Return \/ Consume
  BY <1>1 DEF Call, NextColor, SkipPick, StartPick, SkipVertex, Record, EndPick, Return, Consume,
       InComponent, IsInjective
<1>2. CASE StartComponent
  <2> DEFINE q == <<startvertex>>
  <2>1. q # <<>> /\ DOMAIN q = {1}
    OBVIOUS
  <2>2. IsInjective(q)
    BY <2>1 DEF IsInjective
  <2> HIDE DEF q
  <2>3. component' = q /\ dfsstack' = q /\ startvertex' = startvertex /\ removed' = removed \cup {startvertex}
    BY <1>2 DEF StartComponent, q
  <2>. QED BY <1>2, <2>1, <2>2, <2>3 DEF StartComponent, InComponent
<1>3. CASE Visit
  <2> DEFINE q == Append(component, NextVertex)
             p == Append(dfsstack, NextVertex)
             n == Len(component) + 1
  <2>0. dfsstack # <<>> /\ pc = "dfs" /\ component \in Seq(Vertices) /\ dfsstack \in Seq(Vertices)
    BY <1>3 DEF Visit, Typed
  <2>1. NextVertex \in Vertices /\ NextVertex \notin removed /\ Adjacent(Top, NextVertex)
        /\ Top \in Range(dfsstack)
    BY <1>3, <2>0, NextIsUnvisited DEF Visit
  <2>2. Range(component) \subseteq removed /\ Range(dfsstack) \subseteq Range(component)
    BY <2>0 DEF Search, Comp, InComponent
  <2>3. /\ DOMAIN component = 1 .. Len(component) /\ Len(component) \in Nat
        /\ q # <<>> /\ IsInjective(q) /\ Range(q) = Range(component) \cup {NextVertex}
        /\ DOMAIN q = 1 .. n /\ q[n] = NextVertex
        /\ \A k \in DOMAIN component : k \in DOMAIN q /\ q[k] = component[k]
    BY <2>0, <2>1, <2>2, Appended DEF InComponent
  <2>4. IsInjective(p) /\ Range(p) = Range(dfsstack) \cup {NextVertex}
    BY <2>0, <2>1, <2>2, Appended DEF InComponent
  <2>5. PICK g \in DOMAIN component : component[g] = Top
    BY <2>1, <2>2 DEF Range
  <2> HIDE DEF q, p
  <2>6. ASSUME NEW k \in DOMAIN q, k > 1 PROVE \E h \in 1 .. k - 1 : Adjacent(q[h], q[k])
    <3>1. CASE k = n
      <4>1. g \in 1 .. k - 1 /\ q[g] = Top /\ q[k] = NextVertex
        BY <2>3, <2>5, <3>1
      <4>. QED BY <2>1, <4>1
    <3>2. CASE k # n
      <4>1. k \in DOMAIN component
        BY <2>3, <3>2
      <4>2. PICK h \in 1 .. k - 1 : Adjacent(component[h], component[k])
        BY <2>0, <2>6, <4>1 DEF InComponent
      <4>3. h \in DOMAIN component
        BY <2>3, <4>1
      <4>. QED BY <2>3, <4>1, <4>2, <4>3
    <3>. QED BY <3>1, <3>2
  <2>7. component' = q /\ dfsstack' = p /\ startvertex' = startvertex /\ removed' = removed \cup {NextVertex}
    BY <1>3 DEF Visit, p, q
  <2>. QED BY <2>0, <2>2, <2>3, <2>4, <2>6, <2>7 DEF InComponent
<1>4. CASE Pop
  <2>0. /\ dfsstack \in Seq(Vertices) /\ dfsstack # <<>>
        /\ dfsstack' = SubSeq(dfsstack, 1, Len(dfsstack) - 1)
    BY <1>4 DEF Pop, Typed
  <2>1. /\ IsInjective(dfsstack) => IsInjective(dfsstack')
        /\ Range(dfsstack') \subseteq Range(dfsstack)
    BY <2>0, Shortened
  <2>. QED BY <1>4, <2>1 DEF Pop, InComponent, IsInjective
<1>5. CASE UNCHANGED vars
  BY <1>5 DEF vars, InComponent, IsInjective
<1>. QED BY <1>1, <1>2, <1>3, <1>4, <1>5 DEF Next, Step

LEMMA StackInit == Init => StackIsPath
BY DEF Init, StackIsPath

LEMMA StackStep ==
  ASSUME Assumptions, Typed, Search, InComponent, StackIsPath, [Next]_vars
  PROVE  StackIsPath'
<1>1. CASE Call \/ NextColor \/ SkipPick \/ StartPick \/ SkipVertex \/ Record \/ EndPick \/ Return \/ Consume
  BY <1>1 DEF Call, NextColor, SkipPick, StartPick, SkipVertex, Record, EndPick, Return, Consume,
       StackIsPath
<1>2. CASE StartComponent
  <2> DEFINE q == <<startvertex>>
  <2>1. Len(q) = 1
    OBVIOUS
  <2> HIDE DEF q
  <2>2. component' = q /\ dfsstack' = q
    BY <1>2 DEF StartComponent, q
  <2>3. 1 .. Len(q) - 1 = {}
    BY <2>1
  <2>. QED BY <2>2, <2>3 DEF StackIsPath
<1>3. CASE Visit
  <2> DEFINE q == Append(component, NextVertex)
             p == Append(dfsstack, NextVertex)
             n == Len(dfsstack) + 1
  <2>0. dfsstack # <<>> /\ pc = "dfs" /\ component \in Seq(Vertices) /\ dfsstack \in Seq(Vertices)
    BY <1>3 DEF Visit, Typed
  <2>1. NextVertex \in Vertices /\ Adjacent(Top, NextVertex) /\ Len(dfsstack) \in Nat \ {0}
    BY <1>3, <2>0, NextIsUnvisited DEF Visit
  <2>2. Range(q) = Range(component) \cup {NextVertex}
    BY <2>0, <2>1, Appended
  <2>3. /\ Range(p) = Range(dfsstack) \cup {NextVertex} /\ Len(p) = n /\ p[n] = NextVertex
        /\ DOMAIN dfsstack = 1 .. Len(dfsstack)
        /\ \A k \in DOMAIN dfsstack : p[k] = dfsstack[k]
    BY <2>0, <2>1, Appended
  <2> HIDE DEF p, q
  <2>4. ASSUME NEW k \in 1 .. Len(p) - 1 PROVE Adjacent(p[k], p[k + 1])
    <3>1. CASE k = Len(dfsstack)
      <4>1. k \in DOMAIN dfsstack /\ k + 1 = n /\ dfsstack[k] = Top
        BY <2>1, <2>3, <3>1 DEF Top
      <4>. QED BY <2>1, <2>3, <4>1
    <3>2. CASE k # Len(dfsstack)
      <4>0. Len(p) - 1 = Len(dfsstack)
        BY <2>1, <2>3
      <4>a. k \in 1 .. Len(dfsstack)
        BY <4>0
      <4>1. k \in 1 .. Len(dfsstack) - 1 /\ k \in DOMAIN dfsstack /\ k + 1 \in DOMAIN dfsstack
        <5>1. k \in 1 .. Len(dfsstack) - 1 /\ k + 1 \in 1 .. Len(dfsstack)
          BY <2>1, <3>2, <4>a
        <5>. QED BY <2>3, <4>a, <5>1
      <4>. QED BY <2>0, <2>3, <4>1 DEF StackIsPath
    <3>. QED BY <3>1, <3>2
  <2>5. component' = q /\ dfsstack' = p /\ removed' = removed \cup {NextVertex}
    BY <1>3 DEF Visit, p, q
  <2>. QED BY <2>0, <2>2, <2>3, <2>4, <2>5 DEF StackIsPath
<1>4. CASE Pop
  <2>0. dfsstack # <<>> /\ pc = "dfs" /\ dfsstack \in Seq(Vertices) /\ Unvisited = {}
    BY <1>4 DEF Pop, Typed
  <2> DEFINE p == SubSeq(dfsstack, 1, Len(dfsstack) - 1)
  <2> HIDE DEF p
  <2>1. /\ Len(dfsstack) \in Nat \ {0} /\ Len(p) = Len(dfsstack) - 1 /\ p \in Seq(Vertices)
        /\ \A k \in DOMAIN p : p[k] = dfsstack[k]
        /\ Range(dfsstack) = Range(p) \cup {Top}
    BY <2>0, Shortened DEF Top, p
  <2>2. \A w \in Vertices : Adjacent(Top, w) => w \in removed
    BY <2>0, NextIsUnvisited
  <2>3. ASSUME NEW k \in 1 .. Len(p) - 1 PROVE Adjacent(p[k], p[k + 1])
    <3>1. k \in 1 .. Len(dfsstack) - 1 /\ k \in DOMAIN p /\ k + 1 \in DOMAIN p
      BY <2>1
    <3>. QED BY <2>0, <2>1, <3>1 DEF StackIsPath
  <2>4. component' = component /\ dfsstack' = p /\ removed' = removed
    BY <1>4 DEF Pop, p
  <2>5. \A v \in Range(component) \ Range(p) : \A w \in Vertices : Adjacent(v, w) => w \in removed
    BY <2>0, <2>1, <2>2 DEF StackIsPath
  <2>. QED BY <2>3, <2>4, <2>5 DEF StackIsPath
<1>5. CASE UNCHANGED vars
  BY <1>5 DEF vars, StackIsPath, Range
<1>. QED BY <1>1, <1>2, <1>3, <1>4, <1>5 DEF Next, Step

LEMMA OrderInit == Init => OrderOfMatrix
BY DEF Init, OrderOfMatrix

LEMMA OrderStep ==
  ASSUME Assumptions, Typed, OrderOfMatrix, [Next]_vars
  PROVE  OrderOfMatrix'
<1>1. CASE Record
  <2>1. found' = <<Recording>> \o found
    BY <1>1 DEF Record, Recording
  <2>2. Recording \in Submatrices /\ Increasing(Recording.rows) /\ Increasing(Recording.cols)
    BY <1>1, RecordingType DEF Record
  <2>3. \A k \in DOMAIN found' : found'[k] = Recording \/ \E h \in DOMAIN found : found'[k] = found[h]
    BY <2>1, <2>2, ListedPrepend DEF Typed
  <2>. QED BY <2>2, <2>3 DEF OrderOfMatrix, Increasing
<1>2. CASE found' = <<>>
  BY <1>2 DEF OrderOfMatrix
<1>3. CASE found' = found
  BY <1>3 DEF OrderOfMatrix, Increasing
<1>. QED
  BY <1>1, <1>2, <1>3 DEF Next, Step, Call, NextColor, SkipPick, StartPick, SkipVertex,
     StartComponent, Visit, Pop, EndPick, Return, Consume, vars

(* The pairs of colours come in the order of the loops. *)
LEMMA UsedInLoop ==
  ASSUME Assumptions, NEW p \in Used
  PROVE  /\ p = <<p[1], p[2]>> /\ p[1] \in Colors /\ p[2] \in Colors
         /\ p[1] \in Int /\ p[2] \in Int /\ p[1] <= p[2] /\ p[2] < NColors
         /\ FirstOf(p[1]) <= p[2]
         /\ strategy = "inverted1" => p[1] = p[2]
         /\ strategy # "inverted1" => p[1] < p[2] /\ (AllColorPairs \/ p[2] = p[1] + 1)
         /\ Removed(dom, {p[1], p[2]}) # {}
<1>0. NColors \in Nat
  BY DEF Assumptions, SizeAssumption
<1>1. /\ p \in Colors \X Colors
      /\ IF strategy = "inverted1" THEN p[1] = p[2]
         ELSE p[1] < p[2] /\ (AllColorPairs \/ p[2] = p[1] + 1)
      /\ Removed(dom, {p[1], p[2]}) # {}
  BY DEF Used
<1>2. p = <<p[1], p[2]>> /\ p[1] \in Colors /\ p[2] \in Colors
  BY <1>1
<1>3. p[1] \in Int /\ p[2] \in Int /\ p[2] < NColors
  BY <1>0, <1>2 DEF Colors
<1>4. FirstOf(p[1]) <= p[2]
  BY <1>1, <1>3 DEF FirstOf
<1>5. p[1] <= p[2]
  BY <1>1, <1>3
<1>. QED BY <1>1, <1>2, <1>3, <1>4, <1>5

(* A step of the search records nothing. *)
LEMMA DoneKept ==
  ASSUME Assumptions, Typed, Search, SkipVertex \/ StartComponent \/ Visit \/ Pop
  PROVE  R0' = R0 /\ Done' = Done /\ pc \in {"vertices", "dfs"} /\ pc' \in {"vertices", "dfs"}
<1>1. CASE SkipVertex
  BY <1>1 DEF SkipVertex, R0, Comp, Done, Removed, Pick
<1>2. CASE StartComponent
  <2>1. R0' = R0 /\ removed' = removed \cup {startvertex} /\ Comp' = {startvertex} /\ Comp = {}
    BY <1>2 DEF StartComponent, R0, Comp, Removed, Pick, Range
  <2>2. startvertex \notin removed /\ R0 \subseteq removed
    BY <1>2 DEF StartComponent, Search
  <2>. QED BY <1>2, <2>1, <2>2 DEF StartComponent, Done
<1>3. CASE Visit
  <2>1. NextVertex \in Vertices /\ NextVertex \notin removed
    BY <1>3, NextIsUnvisited DEF Visit
  <2>2. Range(Append(component, NextVertex)) = Range(component) \cup {NextVertex}
    BY <2>1, Appended DEF Typed
  <2>3. R0' = R0 /\ removed' = removed \cup {NextVertex} /\ Comp' = Comp \cup {NextVertex}
    BY <1>3, <2>2 DEF Visit, R0, Comp, Removed, Pick, Range
  <2>4. R0 \subseteq removed /\ Comp \subseteq removed
    BY <1>3 DEF Visit, Search
  <2>. QED BY <1>3, <2>1, <2>3, <2>4 DEF Visit, Done
<1>4. CASE Pop
  BY <1>4 DEF Pop, R0, Comp, Done, Removed, Pick, Range
<1>. QED BY <1>1, <1>2, <1>3, <1>4

LEMMA ListInit == Init => ListExact
BY DEF Init, ListExact, IsInjective

LEMMA ListStep ==
  ASSUME Assumptions, Typed, Search, InComponent, StackIsPath, ListExact, [Next]_vars
  PROVE  ListExact'
<1>0. /\ NColors \in Nat \ {0} /\ NVertices \in Nat \ {0} /\ SizeAssumption /\ GraphAssumption
      /\ c1 \in Int /\ c2 \in Int
  BY DEF Assumptions, SizeAssumption, Typed
<1>a. ASSUME UNCHANGED <<dom, strategy>>
      PROVE  Used' = Used /\ \A d, pick : Removed(d, pick)' = Removed(d, pick)
                          /\ ColumnsOf(pick)' = ColumnsOf(pick)
  BY <1>a DEF Used, Removed, ColumnsOf
<1>b. ASSUME UNCHANGED <<dom, strategy, found>>, pc # "idle",
             \A s \in SubSets : Recorded(s)' <=> Recorded(s)
      PROVE  ListExact'
  BY <1>b DEF ListExact, Listed, IsInjective
<1>1. CASE Call
  <2>1. \A p \in Used' : ~Before(p[1], p[2])'
    <3> SUFFICES ASSUME NEW p \in Used', Before(p[1], p[2])' PROVE FALSE
      OBVIOUS
    <3>1. /\ p[1] \in Colors /\ p[2] \in Colors
          /\ IF strategy' = "inverted1" THEN p[1] = p[2] ELSE p[1] < p[2]
      BY DEF Used
    <3>2. c1' = 0 /\ c2' = IF strategy' = "inverted1" THEN 0 ELSE 1
      BY <1>1 DEF Call, FirstOf
    <3>3. p[1] < 0 \/ (p[1] = 0 /\ p[2] < c2')
      BY <3>2 DEF Before
    <3>. QED BY <1>0, <3>1, <3>2, <3>3 DEF Colors
  <2>2. pc' = "pick" /\ found' = <<>>
    BY <1>1 DEF Call
  <2>3. \A s \in SubSets : ~Recorded(s)'
    BY <2>1, <2>2 DEF Recorded
  <2>. QED BY <2>2, <2>3 DEF ListExact, Listed, IsInjective
<1>2. CASE NextColor
  <2>1. \A p \in Used : Before(p[1], p[2])' <=> Before(p[1], p[2])
    <3> SUFFICES ASSUME NEW p \in Used PROVE Before(p[1], p[2])' <=> Before(p[1], p[2])
      OBVIOUS
    <3>1. /\ p[1] \in Int /\ p[2] \in Int /\ p[2] < NColors
          /\ strategy = "inverted1" => p[1] = p[2]
          /\ strategy # "inverted1" => p[1] < p[2] /\ (AllColorPairs \/ p[2] = p[1] + 1)
      BY UsedInLoop
    <3>2. c1' = c1 + 1 /\ c2' = FirstOf(c1 + 1) /\ ~InLoop /\ FirstOf(c1) <= c2 /\ c1 < NColors
      BY <1>2 DEF NextColor, Typed
    <3>3. CASE strategy = "inverted1"
      <4>1. c2' = c1 + 1 /\ c1 < c2
        BY <1>0, <3>2, <3>3 DEF FirstOf, InLoop
      <4>. QED BY <1>0, <3>1, <3>2, <3>3, <4>1 DEF Before
    <3>4. CASE strategy # "inverted1"
      <4>1. c2' = c1 + 2 /\ c1 < c2 /\ (c2 >= NColors \/ (~AllColorPairs /\ c2 >= c1 + 2))
        BY <1>0, <3>2, <3>4 DEF FirstOf, InLoop
      <4>. QED BY <1>0, <3>1, <3>2, <3>4, <4>1 DEF Before
    <3>. QED BY <3>3, <3>4
  <2>2. UNCHANGED <<dom, strategy, found>> /\ pc = "pick" /\ pc' = "pick"
    BY <1>2 DEF NextColor
  <2>3. \A s \in SubSets : Recorded(s)' <=> Recorded(s)
    BY <1>a, <2>1, <2>2 DEF Recorded
  <2>. QED BY <1>b, <2>2, <2>3
<1>3. CASE SkipPick
  <2>1. UNCHANGED <<dom, strategy, found>> /\ pc = "pick" /\ pc' = "pick" /\ c1' = c1 /\ c2' = c2 + 1
        /\ Removed(dom, Pick) = {}
    BY <1>3 DEF SkipPick
  <2>2. ASSUME NEW p \in Used PROVE Before(p[1], p[2])' <=> Before(p[1], p[2])
    <3>1. p[1] \in Int /\ p[2] \in Int /\ (p[1] # c1 \/ p[2] # c2)
      BY <2>1, UsedInLoop DEF Pick
    <3>. QED BY <1>0, <2>1, <3>1 DEF Before
  <2>3. \A s \in SubSets : Recorded(s)' <=> Recorded(s)
    BY <1>a, <2>1, <2>2 DEF Recorded
  <2>. QED BY <1>b, <2>1, <2>3
<1>4. CASE StartPick
  <2>1. UNCHANGED <<dom, strategy, found, c1, c2>> /\ pc = "pick" /\ pc' = "vertices"
    BY <1>4 DEF StartPick
  <2>2. Done' = {}
    BY <1>4 DEF StartPick, R0, Comp, Removed, Pick, Done
  <2>3. \A R : \A S \in Components(R) : ~(S \subseteq {})
    BY DEF Components
  <2>4. \A s \in SubSets : Recorded(s)' <=> Recorded(s)
    BY <1>a, <2>1, <2>2, <2>3 DEF Recorded, Before
  <2>. QED BY <1>b, <2>1, <2>4
<1>5. CASE SkipVertex \/ StartComponent \/ Visit \/ Pop
  <2>1. UNCHANGED <<dom, strategy, found, c1, c2>>
    BY <1>5 DEF SkipVertex, StartComponent, Visit, Pop
  <2>2. Done' = Done /\ pc \in {"vertices", "dfs"} /\ pc' \in {"vertices", "dfs"}
    BY <1>5, DoneKept
  <2>3. \A s \in SubSets : Recorded(s)' <=> Recorded(s)
    BY <1>a, <2>1, <2>2 DEF Recorded, Before
  <2>. QED BY <1>b, <2>1, <2>2, <2>3
<1>6. CASE Record
  <2> DEFINE e == AsSets(Recording)
             p0 == <<c1, c2>>
  <2>1. UNCHANGED <<dom, strategy, c1, c2>> /\ pc = "dfs" /\ pc' = "vertices" /\ dfsstack = <<>>
        /\ found' = <<Recording>> \o found /\ InLoop /\ FirstOf(c1) <= c2
    BY <1>6 DEF Record, Recording, Typed
  <2>2. /\ Recording \in Submatrices /\ e = [rows |-> Comp, cols |-> ColumnsOf(Pick)]
        /\ e \in SubSets
    BY <2>1, RecordingType
  <2>3. Comp \in Components(R0) /\ Comp \cap Done = {}
    BY <2>1, ComponentFound
  <2>4. /\ R0' = R0 /\ R0 # {} /\ Done' = Done \cup Comp
    <3>1. R0' = R0 /\ removed' = removed /\ Comp' = {}
      BY <1>6 DEF Record, R0, Comp, Removed, Pick
    <3>2. R0 # {} /\ R0 \subseteq removed /\ Comp \subseteq removed /\ Comp \cap R0 = {}
      BY <2>1 DEF Search
    <3>. QED BY <3>1, <3>2 DEF Done
  <2>5. p0 \in Used /\ {p0[1], p0[2]} = Pick /\ ~Before(p0[1], p0[2])
    BY <1>0, <2>1, <2>4, PickType DEF Pick, Before
  <2>6. ASSUME NEW s \in SubSets PROVE Recorded(s)' <=> Recorded(s) \/ s = e
    <3>0. Recorded(s)' <=>
            \E p \in Used :
              /\ s.cols = ColumnsOf({p[1], p[2]})
              /\ s.rows \in Components(Removed(dom, {p[1], p[2]}))
              /\ \/ Before(p[1], p[2])
                 \/ p = p0 /\ s.rows \subseteq Done \cup Comp
      BY <1>a, <2>1, <2>4 DEF Recorded, Before
    <3>1. ASSUME s.rows \in Components(R0), s.cols = ColumnsOf(Pick), s.rows \subseteq Done \cup Comp
          PROVE  Recorded(s) \/ s = e
      <4>1. s.rows = Comp \/ s.rows \subseteq Done
        BY <1>0, <2>3, <3>1, ComponentsApart
      <4>2. s.rows = Comp => s = e
        BY <2>2, <3>1 DEF SubSets
      <4>3. s.rows \subseteq Done => Recorded(s)
        BY <2>1, <2>5, <3>1 DEF Recorded, R0
      <4>. QED BY <4>1, <4>2, <4>3
    <3>2. Recorded(s)' => Recorded(s) \/ s = e
      <4> SUFFICES ASSUME NEW p \in Used,
                          s.cols = ColumnsOf({p[1], p[2]}),
                          s.rows \in Components(Removed(dom, {p[1], p[2]})),
                          Before(p[1], p[2]) \/ (p = p0 /\ s.rows \subseteq Done \cup Comp)
                   PROVE  Recorded(s) \/ s = e
        BY <3>0
      <4>1. CASE Before(p[1], p[2])
        BY <4>1 DEF Recorded
      <4>2. CASE p = p0 /\ s.rows \subseteq Done \cup Comp
        BY <2>5, <3>1, <4>2 DEF R0
      <4>. QED BY <4>1, <4>2
    <3>3. Recorded(s) => Recorded(s)'
      BY <2>1, <3>0 DEF Recorded
    <3>4. s = e => Recorded(s)'
      <4>1. /\ e.cols = ColumnsOf({p0[1], p0[2]})
            /\ e.rows \in Components(Removed(dom, {p0[1], p0[2]})) /\ e.rows \subseteq Done \cup Comp
        BY <2>2, <2>3, <2>5 DEF R0
      <4>. QED BY <2>5, <3>0, <4>1
    <3>. QED BY <3>2, <3>3, <3>4
  <2>7. e \notin Listed(found)
    <3> SUFFICES ASSUME Recorded(e) PROVE FALSE
      BY <2>1, <2>2 DEF ListExact
    <3>1. PICK p \in Used :
            /\ e.cols = ColumnsOf({p[1], p[2]})
            /\ Before(p[1], p[2]) \/ (p = p0 /\ e.rows \subseteq Done)
      BY DEF Recorded
    <3>2. ~(e.rows \subseteq Done)
      BY <2>2, <2>3 DEF Components
    <3>3. {p[1], p[2]} = Pick
      <4>1. {p[1], p[2]} \subseteq Colors /\ Pick \subseteq Colors
        BY <2>1, UsedInLoop, PickType
      <4>. QED BY <2>2, <3>1, <4>1 DEF ColumnsOf
    <3>4. p[1] \in Int /\ p[2] \in Int /\ p[1] <= p[2] /\ c1 <= c2
      <4>1. c1 <= c2
        BY <1>0, <2>1 DEF FirstOf
      <4>. QED BY <4>1, UsedInLoop
    <3>5. p[1] = c1 /\ p[2] = c2
      BY <1>0, <3>3, <3>4 DEF Pick
    <3>. QED BY <1>0, <3>1, <3>2, <3>5 DEF Before
  <2>8. Listed(found') = Listed(found) \cup {e} /\ IsInjective(found')
    BY <2>1, <2>2, <2>7, ListedPrepend DEF Typed, ListExact
  <2>9. Listed(found') = {s \in SubSets : Recorded(s)'}
    <3>1. Listed(found) = {s \in SubSets : Recorded(s)}
      BY <2>1 DEF ListExact
    <3> HIDE DEF e
    <3>. QED BY <2>2, <2>6, <2>8, <3>1
  <2>. QED BY <2>8, <2>9 DEF ListExact, Listed
<1>7. CASE EndPick
  <2>1. UNCHANGED <<dom, strategy, found>> /\ pc = "vertices" /\ pc' = "pick" /\ c1' = c1 /\ c2' = c2 + 1
        /\ startvertex = NVertices
    BY <1>7 DEF EndPick
  <2>2. ASSUME NEW p \in Used
        PROVE  Before(p[1], p[2])' <=> Before(p[1], p[2]) \/ p = <<c1, c2>>
    <3>1. p[1] \in Int /\ p[2] \in Int /\ p = <<p[1], p[2]>>
      BY UsedInLoop
    <3>. QED BY <1>0, <2>1, <3>1 DEF Before
  <2>3. ASSUME NEW S \in Components(R0) PROVE S \subseteq Done
    <3>1. Vertices \subseteq removed
      BY <1>0, <2>1 DEF Search, Vertices
    <3>. QED BY <2>1, <3>1 DEF Components, Done, Comp
  <2>4. \A s \in SubSets : Recorded(s)' <=> Recorded(s)
    <3> SUFFICES ASSUME NEW s \in SubSets PROVE Recorded(s)' <=> Recorded(s)
      OBVIOUS
    <3>1. Recorded(s)' <=>
            \E p \in Used :
              /\ s.cols = ColumnsOf({p[1], p[2]})
              /\ s.rows \in Components(Removed(dom, {p[1], p[2]}))
              /\ Before(p[1], p[2]) \/ p = <<c1, c2>>
      BY <1>a, <2>1, <2>2 DEF Recorded
    <3>2. \A p \in Used : p = <<c1, c2>> => Removed(dom, {p[1], p[2]}) = R0
      BY DEF R0, Pick
    <3>. QED BY <2>1, <2>3, <3>1, <3>2 DEF Recorded
  <2>. QED BY <1>b, <2>1, <2>4
<1>8. CASE Return
  <2>1. UNCHANGED <<dom, strategy, found, c1, c2>> /\ pc = "pick" /\ pc' = "returned"
    BY <1>8 DEF Return
  <2>2. \A s \in SubSets : Recorded(s)' <=> Recorded(s)
    BY <1>a, <2>1 DEF Recorded, Before
  <2>. QED BY <1>b, <2>1, <2>2
<1>9. CASE Consume
  BY <1>9 DEF Consume, ListExact, IsInjective
<1>10. CASE UNCHANGED vars
  <2>1. UNCHANGED <<dom, strategy, found, c1, c2, pc>> /\ Done' = Done
    BY <1>10 DEF vars, Done, R0, Comp, Removed, Pick, Range
  <2>2. \A s \in SubSets : Recorded(s)' <=> Recorded(s)
    BY <1>a, <2>1 DEF Recorded, Before
  <2>. QED BY <1>b, <2>1, <2>2 DEF ListExact, Listed, IsInjective
<1>. QED BY <1>1, <1>2, <1>3, <1>4, <1>5, <1>6, <1>7, <1>8, <1>9, <1>10 DEF Next, Step

LEMMA Invariant == ASSUME Assumptions PROVE Spec => []IInv
<1>1. Init => IInv
  BY TypedInit, SearchInit, InComponentInit, StackInit, OrderInit, ListInit DEF IInv
<1>2. IInv /\ [Next]_vars => IInv'
  BY TypedStep, SearchStep, InComponentStep, StackStep, OrderStep, ListStep DEF IInv
<1>. QED BY <1>1, <1>2, PTL DEF Spec

-------------------------------------------------------------------------------
(* The variables keep their types, and the stack and the component fit into *)
(* their nvertices cells, whatever the graph.                               *)
THEOREM TypeCorrect == ASSUME Assumptions PROVE Spec => []TypeOK
<1>1. ASSUME Typed, InComponent PROVE TypeOK
  <2>0. SizeAssumption /\ NVertices \in Nat
    BY DEF Assumptions, SizeAssumption
  <2>1. Len(dfsstack) <= NVertices
    <3>1. CASE pc = "dfs"
      BY <1>1, <2>0, <3>1, FitsIntoCells DEF Typed, InComponent
    <3>2. CASE pc # "dfs"
      <4>1. Len(dfsstack) = 0
        BY <1>1, <3>2 DEF Typed
      <4>. QED BY <2>0, <4>1
    <3>. QED BY <3>1, <3>2
  <2>2. Len(component) <= NVertices
    BY <1>1, <2>0, FitsIntoCells DEF Typed, InComponent
  <2>. QED BY <1>1, <2>1, <2>2 DEF Typed, TypeOK, Submatrices
<1>2. IInv => TypeOK
  BY <1>1 DEF IInv
<1>. QED BY <1>2, Invariant, PTL

(* The component at hand is never the whole graph, a vertex has always been *)
(* removed: the search is never ended early by it.                          *)
THEOREM NeverTheWholeGraph ==
  ASSUME Assumptions PROVE Spec => [](pc = "dfs" => Range(component) # Vertices)
<1>1. Search => (pc = "dfs" => Range(component) # Vertices)
  BY RemovedType DEF Search, Comp, R0
<1>2. IInv => (pc = "dfs" => Range(component) # Vertices)
  BY <1>1 DEF IInv
<1>. QED BY <1>2, Invariant, PTL

(* The stack is the path from the start vertex to the vertex at hand, and   *)
(* what is off it has no neighbour that is still to be visited.             *)
THEOREM StackCorrect == ASSUME Assumptions PROVE Spec => []StackIsPath
<1>1. IInv => StackIsPath
  BY DEF IInv
<1>. QED BY <1>1, Invariant, PTL

(* The rows and columns of what is handed out come in the order of the      *)
(* matrix.                                                                  *)
THEOREM OrderCorrect == ASSUME Assumptions PROVE Spec => []OrderOfMatrix
<1>1. IInv => OrderOfMatrix
  BY DEF IInv
<1>. QED BY <1>1, Invariant, PTL

(* Once the loops are through, the list holds the components of each graph, *)
(* all of them, each of them once, and nothing else.                        *)
THEOREM ComponentsExact == ASSUME Assumptions PROVE Spec => []AllComponents
<1>1. ASSUME Typed, ListExact, pc = "returned"
      PROVE  /\ Listed(found) =
                  UNION {{[rows |-> S, cols |-> ColumnsOf({p[1], p[2]})] :
                            S \in Components(Removed(dom, {p[1], p[2]}))} : p \in Used}
             /\ IsInjective(found)
  <2> DEFINE All == UNION {{[rows |-> S, cols |-> ColumnsOf({p[1], p[2]})] :
                              S \in Components(Removed(dom, {p[1], p[2]}))} : p \in Used}
  <2>1. c1 = NColors /\ NColors \in Nat
    BY <1>1 DEF Typed, Assumptions, SizeAssumption
  <2>2. ASSUME NEW p \in Used PROVE Before(p[1], p[2])
    <3>1. p[1] \in Int /\ p[2] \in Int /\ p[1] <= p[2] /\ p[2] < NColors
      BY UsedInLoop
    <3>2. p[1] < c1
      BY <2>1, <3>1
    <3>. QED BY <3>2 DEF Before
  <2>3. ASSUME NEW p \in Used, NEW S \in Components(Removed(dom, {p[1], p[2]}))
        PROVE  [rows |-> S, cols |-> ColumnsOf({p[1], p[2]})] \in SubSets
    <3>1. S \subseteq Vertices
      BY DEF Components
    <3>2. ColumnsOf({p[1], p[2]}) \subseteq Colors
      BY UsedInLoop DEF ColumnsOf
    <3>. QED BY <3>1, <3>2 DEF SubSets
  <2>4. ASSUME NEW s \in SubSets PROVE Recorded(s) <=> s \in All
    <3>1. s = [rows |-> s.rows, cols |-> s.cols]
      BY DEF SubSets
    <3>2. ASSUME Recorded(s) PROVE s \in All
      <4>1. PICK p \in Used :
              /\ s.cols = ColumnsOf({p[1], p[2]})
              /\ s.rows \in Components(Removed(dom, {p[1], p[2]}))
        BY <3>2 DEF Recorded
      <4>2. s \in {[rows |-> S, cols |-> ColumnsOf({p[1], p[2]})] :
                     S \in Components(Removed(dom, {p[1], p[2]}))}
        BY <3>1, <4>1
      <4>. QED BY <4>2
    <3>3. s \in All => Recorded(s)
      <4> SUFFICES ASSUME NEW p \in Used, NEW S \in Components(Removed(dom, {p[1], p[2]})),
                          s = [rows |-> S, cols |-> ColumnsOf({p[1], p[2]})]
                   PROVE  Recorded(s)
        OBVIOUS
      <4>1. s.rows = S /\ s.cols = ColumnsOf({p[1], p[2]})
        OBVIOUS
      <4>. QED BY <2>2, <4>1 DEF Recorded
    <3>. QED BY <3>2, <3>3
  <2>5. ASSUME NEW s \in All PROVE s \in SubSets
    <3>1. PICK p \in Used : s \in {[rows |-> S, cols |-> ColumnsOf({p[1], p[2]})] :
                                    S \in Components(Removed(dom, {p[1], p[2]}))}
      OBVIOUS
    <3>2. PICK S \in Components(Removed(dom, {p[1], p[2]})) :
            s = [rows |-> S, cols |-> ColumnsOf({p[1], p[2]})]
      BY <3>1
    <3>. QED BY <2>3, <3>2
  <2> HIDE DEF All
  <2>6. Listed(found) = All
    BY <1>1, <2>4, <2>5 DEF ListExact
  <2>. QED BY <1>1, <2>6 DEF All, ListExact
<1>2. IInv => AllComponents
  BY <1>1 DEF IInv, AllComponents
<1>. QED BY <1>2, Invariant, PTL

(* A component is closed, so that what is recorded is a sub-symmetry.       *)
LEMMA ComponentIsSymmetric ==
  ASSUME Assumptions, NEW a \in Colors, NEW b \in Colors, NEW s \in SubSets,
         s.cols = ColumnsOf({a, b}), s.rows \in Components(Removed(dom, {a, b}))
  PROVE  SubSymmetric(dom, s)
<1>1. ASSUME NEW v \in Vertices \ s.rows, NEW w \in s.rows, Adjacent(v, w)
      PROVE  v \in Removed(dom, {a, b})
  <2>1. w \in Vertices
    BY DEF Components
  <2>2. Adjacent(w, v)
    BY <1>1, <2>1, AdjacentSymmetric DEF Assumptions
  <2>. QED BY <2>2 DEF Components, Closed
<1>2. ASSUME NEW v \in Removed(dom, {a, b})
      PROVE  \/ \A c \in s.cols : dom[v][c] = "zero"
             \/ \E c \in Colors \ s.cols : dom[v][c] = "one"
  BY DEF Removed, ColumnsOf
<1>. QED BY <1>1, <1>2 DEF SubSymmetric

LEMMA ListedIsSymmetric ==
  ASSUME Assumptions, Typed, ListExact, pc # "idle", NEW s \in Listed(found)
  PROVE  s \in SubSets /\ SubSymmetric(dom, s)
<1>1. s \in SubSets /\ Recorded(s)
  BY DEF ListExact
<1>2. PICK p \in Used :
        /\ s.cols = ColumnsOf({p[1], p[2]})
        /\ s.rows \in Components(Removed(dom, {p[1], p[2]}))
  BY <1>1 DEF Recorded
<1>3. p[1] \in Colors /\ p[2] \in Colors
  BY UsedInLoop
<1>. QED BY <1>1, <1>2, <1>3, ComponentIsSymmetric

(* The handler implements what the propagator expects of it: it hands out   *)
(* sub-symmetries of the bounds it has been called with, and nothing else.  *)
THEOREM Refinement == ASSUME Assumptions PROVE Spec => ImplementsSource
<1> USE DEF Source!Init, Source!Next, Source!vars, Active
<1>1. Init => Source!Init
  BY SomeTypes DEF Init, Listed
<1>2. IInv /\ [Next]_vars => [Source!Next]_(Source!vars)
  <2> SUFFICES ASSUME IInv, [Next]_vars PROVE [Source!Next]_(Source!vars)
    OBVIOUS
  <2>1. CASE Call
    <3>1. Listed(found') = {}
      BY <2>1 DEF Call, Listed
    <3>. QED BY <2>1, <3>1 DEF Call, Source!Call
  <2>2. CASE Record
    <3> DEFINE e == AsSets(Recording)
    <3>1. found' = <<Recording>> \o found /\ dom' = dom /\ pc = "dfs" /\ pc' = "vertices"
      BY <2>2 DEF Record, Recording
    <3>2. Listed(found') = Listed(found) \cup {e}
      BY <3>1, RecordingType, ListedPrepend DEF IInv, Typed
    <3>3. e = [rows |-> Comp, cols |-> ColumnsOf({c1, c2})] /\ e \in SubSets
      BY <3>1, RecordingType DEF IInv, Pick
    <3>4. Comp \in Components(Removed(dom, {c1, c2}))
      BY <2>2, ComponentFound DEF Record, IInv, R0, Pick
    <3>5. c1 \in Colors /\ c2 \in Colors
      BY <3>1, PickType DEF IInv, Typed
    <3>6. SubSymmetric(dom, e)
      <4>1. e.rows = Comp /\ e.cols = ColumnsOf({c1, c2})
        BY <3>3
      <4> HIDE DEF e
      <4>. QED BY <3>3, <3>4, <3>5, <4>1, ComponentIsSymmetric
    <3> HIDE DEF e
    <3>. QED BY <3>1, <3>2, <3>3, <3>6 DEF Source!Report, SubSets
  <2>3. CASE Return
    BY <2>3 DEF Return, Source!Return, Listed
  <2>4. CASE Consume
    <3>1. Listed(found') = {}
      BY <2>4 DEF Consume, Listed
    <3>. QED BY <2>4, <3>1, SomeTypes DEF Consume, Source!Consume
  <2>5. CASE NextColor \/ SkipPick \/ StartPick \/ SkipVertex \/ StartComponent \/ Visit \/ Pop \/ EndPick
    BY <2>5 DEF NextColor, SkipPick, StartPick, SkipVertex, StartComponent, Visit, Pop, EndPick, Listed
  <2>6. CASE UNCHANGED vars
    BY <2>6 DEF vars, Listed
  <2>. QED BY <2>1, <2>2, <2>3, <2>4, <2>5, <2>6 DEF Next, Step
<1>. QED BY <1>1, <1>2, Invariant, PTL DEF Spec, ImplementsSource, Source!Spec

(* Two colours of a submatrix, exchanged on its rows, turn a colouring that *)
(* the bounds allow into a colouring: a vertex outside that is next to one  *)
(* of the rows has none of the colours of the submatrix.                    *)
THEOREM ColoursExchangeable == ASSUME Assumptions PROVE Spec => []ColoursMayBeExchanged
<1>1. ASSUME Typed, ListExact, pc = "returned",
             NEW p \in [Vertices -> -1 .. NColors - 1], Colouring(p), FitsNode(p),
             NEW k \in DOMAIN found, NEW b \in Range(found[k].cols), NEW c \in Range(found[k].cols)
      PROVE  Colouring(Exchange(p, found[k], b, c))
  <2> DEFINE s == found[k]
             q == Exchange(p, s, b, c)
             rows == Range(s.rows)
  <2>0. NColors \in Nat /\ GraphAssumption
    BY DEF Assumptions, SizeAssumption
  <2>1. AsSets(s) \in Listed(found)
    BY DEF Listed
  <2>2. AsSets(s) \in SubSets /\ SubSymmetric(dom, AsSets(s))
    BY <1>1, <2>1, ListedIsSymmetric
  <2>3. rows \subseteq Vertices /\ Range(s.cols) \subseteq Colors
    BY <2>2 DEF AsSets, SubSets
  <2>4. b # -1 /\ c # -1
    BY <2>0, <2>3 DEF Colors
  <2>5. \A v \in Vertices :
          q[v] = IF v \notin rows THEN p[v]
                 ELSE IF p[v] = b THEN c ELSE IF p[v] = c THEN b ELSE p[v]
    BY DEF Exchange
  <2>6. ASSUME NEW v \in Vertices \ rows, NEW w \in rows, Adjacent(v, w)
        PROVE  p[v] \notin Range(s.cols)
    <3>1. \/ \A x \in Range(s.cols) : dom[v][x] = "zero"
          \/ \E x \in Colors \ Range(s.cols) : dom[v][x] = "one"
      BY <2>2, <2>6 DEF SubSymmetric, AsSets
    <3>. QED BY <1>1, <2>3, <3>1 DEF FitsNode
  <2> HIDE DEF s, q, rows
  <2>7. ASSUME NEW v \in Vertices, NEW w \in Vertices, Adjacent(v, w)
        PROVE  q[v] = -1 \/ q[v] # q[w]
    <3>1. p[v] = -1 \/ p[v] # p[w]
      BY <1>1, <2>7 DEF Colouring
    <3>2. CASE v \in rows /\ w \in rows
      BY <2>4, <2>5, <3>1, <3>2
    <3>3. CASE v \notin rows /\ w \notin rows
      BY <2>5, <3>1, <3>3
    <3>4. CASE v \notin rows /\ w \in rows
      <4>1. p[v] # b /\ p[v] # c
        BY <2>6, <2>7, <3>4 DEF s
      <4>. QED BY <2>5, <3>1, <3>4, <4>1
    <3>5. CASE v \in rows /\ w \notin rows
      <4>1. Adjacent(w, v)
        BY <2>0, <2>7, AdjacentSymmetric
      <4>2. p[w] # b /\ p[w] # c
        BY <2>6, <3>5, <4>1 DEF s
      <4>. QED BY <2>5, <3>1, <3>5, <4>2
    <3>. QED BY <3>2, <3>3, <3>4, <3>5
  <2>. QED BY <2>7 DEF Colouring, q, s
<1>2. IInv => ColoursMayBeExchanged
  BY <1>1 DEF IInv, ColoursMayBeExchanged
<1>. QED BY <1>2, Invariant, PTL

-------------------------------------------------------------------------------
(* Every call comes to its end. *)

LEMMA OneRoundLess ==
  ASSUME NEW w \in Nat, NEW x \in Int, NEW y \in Int, x <= y - 1
  PROVE  w * x \in Int /\ w * y \in Int /\ w * x <= w * y - w
<1>1. PICK d \in Nat : y = x + 1 + d
  <2>1. y - x - 1 \in Nat /\ y = x + 1 + (y - x - 1)
    OBVIOUS
  <2>. QED BY <2>1
<1>2. w * y = w * x + w + w * d
  BY <1>1
<1>3. w * d >= 0 /\ w * d \in Int /\ w * x \in Int /\ w * y \in Int
  BY <1>1
<1>. QED BY <1>2, <1>3

LEMMA Product == ASSUME NEW w \in Nat, NEW x \in Nat PROVE w * x \in Nat
OBVIOUS

(* How many vertices are not marked. *)
Unmarked(R) == Cardinality(Vertices \ R)

LEMMA UnmarkedLess ==
  ASSUME SizeAssumption, NEW R
  PROVE  /\ Unmarked(R) \in 0 .. NVertices
         /\ \A v \in Vertices : v \notin R => Unmarked(R \cup {v}) = Unmarked(R) - 1
<1>1. IsFiniteSet(Vertices \ R) /\ Cardinality(Vertices \ R) <= Cardinality(Vertices)
  BY VerticesFinite, FS_Subset
<1>2. Cardinality(Vertices \ R) \in Nat
  BY <1>1, FS_CardinalityType
<1>3. ASSUME NEW v \in Vertices, v \notin R PROVE Unmarked(R \cup {v}) = Unmarked(R) - 1
  <2>1. Vertices \ (R \cup {v}) = (Vertices \ R) \ {v} /\ v \in Vertices \ R
    BY <1>3
  <2>. QED BY <1>1, <2>1, FS_RemoveElement DEF Unmarked
<1>. QED BY <1>1, <1>2, <1>3, VerticesFinite DEF Unmarked, SizeAssumption

(* What is left to do in the search for the components of a pick. *)
Width == 4 * NVertices + 3
Left  == 1 + 2 * (NVertices - startvertex) + 2 * Unmarked(removed) + Len(dfsstack)

LEMMA LeftType ==
  ASSUME Assumptions, NEW v \in 0 .. NVertices, NEW R, NEW q \in Seq(Vertices)
  PROVE  1 + 2 * (NVertices - v) + 2 * Unmarked(R) + Len(q) \in Nat \ {0}
<1>1. NVertices \in Nat /\ Len(q) \in Nat
  BY DEF Assumptions, SizeAssumption
<1>2. Unmarked(R) \in Nat
  BY UnmarkedLess DEF Assumptions
<1>. QED BY <1>1, <1>2

(* The rounds that are left to the loop over the first colours.             *)
Outer(a) == (NColors + 2) * (NColors - a)

LEMMA OuterType ==
  ASSUME Assumptions, NEW a \in 0 .. NColors
  PROVE  Outer(a) \in Nat
<1>1. NColors + 2 \in Nat /\ NColors - a \in Nat
  BY DEF Assumptions, SizeAssumption
<1>. QED BY <1>1, Product DEF Outer

LEMMA RoundsType ==
  ASSUME Assumptions, NEW a \in 0 .. NColors, NEW b \in 0 .. NColors + 1
  PROVE  /\ Outer(a) + (NColors + 1 - b) \in Nat
         /\ b <= NColors => Outer(a) + (NColors + 1 - b) - 1 \in Nat
<1>1. NColors \in Nat
  BY DEF Assumptions, SizeAssumption
<1>. QED BY <1>1, OuterType

LEMMA LaterRound ==
  ASSUME NEW o \in Int, NEW p \in Int, NEW n \in Int, NEW a \in Int, NEW b \in Int,
         p <= o - (n + 2), a <= n + 1, b >= 0
  PROVE  p + (n + 1 - b) <= o + (n + 1 - a) - 1
OBVIOUS

LEMMA Regroup ==
  ASSUME NEW a \in Int, NEW x \in Int, NEW y \in Int, NEW z \in Int
  PROVE  a + 1 + x + y + z = a + (1 + x + y + z)
OBVIOUS

(* A vertex is marked once and dropped from the stack once. *)
LEMMA SearchDecreases ==
  ASSUME Assumptions, Typed, Search, InComponent, Typed', Active, Active', Next
  PROVE  \/ pc = "pick" /\ pc' = "pick" /\ Rounds' <= Rounds - 1
         \/ pc = "pick" /\ pc' # "pick" /\ Rounds' = Rounds /\ Left' < Width
         \/ pc # "pick" /\ pc' # "pick" /\ Rounds' = Rounds /\ Left' < Left
         \/ pc # "pick" /\ pc' = "pick" /\ Rounds' = Rounds - 1
<1>0. /\ SizeAssumption /\ NVertices \in Nat /\ NColors \in Nat
      /\ c1 \in 0 .. NColors /\ c2 \in 0 .. NColors + 1
      /\ c1' \in 0 .. NColors /\ c2' \in 0 .. NColors + 1
      /\ startvertex \in 0 .. NVertices /\ Len(dfsstack) \in Nat
  BY DEF Assumptions, SizeAssumption, Typed
<1>1. Unmarked(removed) \in Nat /\ Unmarked(removed') \in 0 .. NVertices
  BY <1>0, UnmarkedLess
<1>2. /\ Outer(c1) \in Nat /\ Rounds = Outer(c1) + (NColors + 1 - c2)
      /\ Rounds' = Outer(c1') + (NColors + 1 - c2')
  BY <1>0, OuterType DEF Rounds, Outer
<1>3. CASE NextColor
  <2>1. pc = "pick" /\ pc' = "pick" /\ c1' = c1 + 1
    BY <1>3 DEF NextColor
  <2>2. NColors + 2 \in Nat /\ NColors - c1' \in Int /\ NColors - c1 \in Int /\ NColors - c1' <= NColors - c1 - 1
    BY <1>0, <2>1
  <2>3. Outer(c1') <= Outer(c1) - (NColors + 2)
    BY <2>2, OneRoundLess DEF Outer
  <2>4. Outer(c1') \in Nat
    BY <1>0, OuterType
  <2>5. /\ NColors \in Int /\ c2 \in Int /\ c2' \in Int /\ c2 <= NColors + 1 /\ c2' >= 0
        /\ Outer(c1) \in Int /\ Outer(c1') \in Int
    BY <1>0, <1>2, <2>4
  <2>6. Outer(c1') + (NColors + 1 - c2') <= Outer(c1) + (NColors + 1 - c2) - 1
    BY <2>3, <2>5, LaterRound
  <2>7. Rounds' <= Rounds - 1
    BY <1>2, <2>5, <2>6
  <2>. QED BY <2>1, <2>7
<1>4. CASE SkipPick
  BY <1>0, <1>2, <1>4 DEF SkipPick
<1>5. CASE StartPick
  <2>1. pc = "pick" /\ pc' # "pick" /\ c1' = c1 /\ c2' = c2 /\ startvertex' = 0 /\ dfsstack' = dfsstack
    BY <1>5 DEF StartPick
  <2>2. Len(dfsstack') = 0
    BY <2>1 DEF Typed
  <2>. QED BY <1>0, <1>1, <2>1, <2>2 DEF Rounds, Left, Width
<1>6. CASE SkipVertex
  BY <1>0, <1>1, <1>6 DEF SkipVertex, Rounds, Left
<1>7. CASE StartComponent
  <2>1. /\ pc # "pick" /\ pc' # "pick" /\ c1' = c1 /\ c2' = c2 /\ startvertex' = startvertex
        /\ removed' = removed \cup {startvertex} /\ startvertex \notin removed
        /\ startvertex < NVertices /\ dfsstack' = <<startvertex>>
    BY <1>7 DEF StartComponent
  <2>2. startvertex \in Vertices
    BY <1>0, <2>1 DEF Vertices
  <2>3. Unmarked(removed') = Unmarked(removed) - 1
    BY <1>0, <2>1, <2>2, UnmarkedLess
  <2>4. Len(dfsstack') = 1 /\ Len(dfsstack) = 0
    BY <1>7, <2>1 DEF StartComponent, Typed
  <2>. QED BY <1>0, <1>1, <2>1, <2>3, <2>4 DEF Rounds, Left
<1>8. CASE Visit
  <2>1. /\ pc # "pick" /\ pc' # "pick" /\ c1' = c1 /\ c2' = c2 /\ startvertex' = startvertex
        /\ removed' = removed \cup {NextVertex} /\ dfsstack' = Append(dfsstack, NextVertex)
    BY <1>8 DEF Visit
  <2>2. NextVertex \in Vertices /\ NextVertex \notin removed
    BY <1>8, NextIsUnvisited DEF Visit
  <2>3. Unmarked(removed') = Unmarked(removed) - 1
    BY <1>0, <2>1, <2>2, UnmarkedLess
  <2>4. Len(dfsstack') = Len(dfsstack) + 1
    BY <2>1, <2>2, Appended DEF Typed
  <2>. QED BY <1>0, <1>1, <2>1, <2>3, <2>4 DEF Rounds, Left
<1>9. CASE Pop
  <2>1. /\ pc # "pick" /\ pc' # "pick" /\ c1' = c1 /\ c2' = c2 /\ startvertex' = startvertex
        /\ removed' = removed /\ dfsstack # <<>>
        /\ dfsstack' = SubSeq(dfsstack, 1, Len(dfsstack) - 1)
    BY <1>9 DEF Pop
  <2>2. Len(dfsstack') = Len(dfsstack) - 1
    BY <2>1, Shortened DEF Typed
  <2>. QED BY <1>0, <1>1, <2>1, <2>2 DEF Rounds, Left
<1>10. CASE Record
  BY <1>0, <1>1, <1>10 DEF Record, Rounds, Left
<1>11. CASE EndPick
  BY <1>0, <1>2, <1>11 DEF EndPick
<1>12. CASE Call \/ Return \/ Consume
  BY <1>12 DEF Call, Return, Consume, Active
<1>. QED
  BY <1>3, <1>4, <1>5, <1>6, <1>7, <1>8, <1>9, <1>10, <1>11, <1>12 DEF Next, Step

(* Every step of a call leaves less to do: the depth-first search comes to  *)
(* its end, although a vertex is pushed again with each of its neighbours.  *)
THEOREM SearchEnds == ASSUME Assumptions PROVE Spec => SearchAdvances
<1>1. ASSUME Typed, Search, InComponent, Typed', Next, Active, Active'
      PROVE  Remaining' < Remaining /\ Remaining' >= 0
  <2>0. NVertices \in Nat /\ Width \in Nat
    BY DEF Assumptions, SizeAssumption, Width
  <2>a. NColors \in Nat /\ (pc # "pick" => c2 <= NColors) /\ (pc' # "pick" => c2' <= NColors)
    <3>1. NColors \in Nat
      BY DEF Assumptions, SizeAssumption
    <3>2. c1 \in Int /\ c2 \in Int /\ c1' \in Int /\ c2' \in Int
      BY <1>1, <3>1 DEF Typed
    <3>3. pc # "pick" => InLoop
      BY <1>1 DEF Typed, Active
    <3>4. pc' # "pick" => InLoop'
      BY <1>1 DEF Typed, Active
    <3>5. InLoop => c2 <= NColors
      BY <3>1, <3>2 DEF InLoop
    <3>a. InLoop' => c1' < NColors /\ (c2' = c1' \/ c2' < NColors)
      BY DEF InLoop
    <3>6. InLoop' => c2' <= NColors
      BY <3>1, <3>2, <3>a
    <3>. QED BY <3>1, <3>3, <3>4, <3>5, <3>6
  <2>b. /\ Rounds = Outer(c1) + (NColors + 1 - c2)
        /\ Rounds' = Outer(c1') + (NColors + 1 - c2')
    BY DEF Rounds, Outer
  <2>1. /\ Rounds \in Nat /\ Rounds' \in Nat /\ (pc # "pick" => Rounds - 1 \in Nat)
        /\ (pc' # "pick" => Rounds' - 1 \in Nat)
    <3>1. /\ c1 \in 0 .. NColors /\ c2 \in 0 .. NColors + 1
          /\ c1' \in 0 .. NColors /\ c2' \in 0 .. NColors + 1
      BY <1>1 DEF Typed
    <3>2. /\ Outer(c1) + (NColors + 1 - c2) \in Nat
          /\ c2 <= NColors => Outer(c1) + (NColors + 1 - c2) - 1 \in Nat
      BY <3>1, RoundsType
    <3>3. /\ Outer(c1') + (NColors + 1 - c2') \in Nat
          /\ c2' <= NColors => Outer(c1') + (NColors + 1 - c2') - 1 \in Nat
      BY <3>1, RoundsType
    <3>4. Rounds \in Nat /\ (c2 <= NColors => Rounds - 1 \in Nat)
      BY <2>a, <2>b, <3>1, <3>2, OuterType
    <3>5. Rounds' \in Nat /\ (c2' <= NColors => Rounds' - 1 \in Nat)
      BY <2>a, <2>b, <3>1, <3>3, OuterType
    <3>. QED BY <2>a, <3>4, <3>5
  <2>c. Unmarked(removed) \in Nat /\ Unmarked(removed') \in Nat
    BY UnmarkedLess DEF Assumptions, SizeAssumption
  <2>2. Left \in Nat \ {0} /\ Left' \in Nat \ {0}
    BY <1>1, LeftType DEF Typed, Left
  <2>3. Remaining = IF pc = "pick" THEN Width * Rounds ELSE Width * (Rounds - 1) + Left
    <3>1. CASE pc # "pick"
      <4>1. /\ Width * (Rounds - 1) \in Int /\ 2 * (NVertices - startvertex) \in Int
            /\ 2 * Unmarked(removed) \in Int /\ Len(dfsstack) \in Int
        BY <1>1, <2>0, <2>1, <2>c, <3>1 DEF Typed
      <4>. QED BY <3>1, <4>1, Regroup DEF Remaining, Width, Left, Unmarked
    <3>. QED BY <3>1 DEF Remaining, Width
  <2>4. Remaining' = IF pc' = "pick" THEN Width * Rounds' ELSE Width * (Rounds' - 1) + Left'
    <3>1. CASE pc' # "pick"
      <4>1. /\ Width * (Rounds' - 1) \in Int /\ 2 * (NVertices - startvertex') \in Int
            /\ 2 * Unmarked(removed') \in Int /\ Len(dfsstack') \in Int
        <5>1. startvertex' \in 0 .. NVertices /\ Len(dfsstack') \in Int
          BY <1>1 DEF Typed
        <5>2. Width * (Rounds' - 1) \in Nat
          BY <2>0, <2>1, <3>1, Product
        <5>. QED BY <2>0, <2>c, <5>1, <5>2
      <4>. QED BY <3>1, <4>1, Regroup DEF Remaining, Width, Left, Unmarked
    <3>. QED BY <3>1 DEF Remaining, Width
  <2>5. CASE pc = "pick" /\ pc' = "pick" /\ Rounds' <= Rounds - 1
    <3>1. /\ Width * Rounds' \in Nat
          /\ Width * Rounds' <= Width * Rounds - Width /\ Width * Rounds \in Int
      <4>1. Width * Rounds' \in Nat
        BY <2>0, <2>1, Product
      <4>2. Rounds' \in Int /\ Rounds \in Int
        BY <2>1
      <4>3. /\ Width * Rounds \in Int
            /\ Width * Rounds' <= Width * Rounds - Width
        BY <2>0, <2>5, <4>2, OneRoundLess
      <4>. QED BY <4>1, <4>3
    <3>. QED BY <2>0, <2>3, <2>4, <2>5, <3>1 DEF Width
  <2>6. CASE pc = "pick" /\ pc' # "pick" /\ Rounds' = Rounds /\ Left' < Width
    <3>1. /\ Width * (Rounds - 1) \in Nat
          /\ Width * (Rounds - 1) <= Width * Rounds - Width /\ Width * Rounds \in Int
      <4>1. Rounds - 1 \in Nat /\ Rounds - 1 <= Rounds - 1
        BY <2>1, <2>6
      <4>. QED BY <2>0, <2>1, <4>1, Product, OneRoundLess
    <3>. QED BY <2>0, <2>2, <2>3, <2>4, <2>6, <3>1
  <2>7. CASE pc # "pick" /\ pc' # "pick" /\ Rounds' = Rounds /\ Left' < Left
    <3>1. Width * (Rounds - 1) \in Nat
      BY <2>0, <2>1, <2>7, Product
    <3>. QED BY <2>2, <2>3, <2>4, <2>7, <3>1
  <2>8. CASE pc # "pick" /\ pc' = "pick" /\ Rounds' = Rounds - 1
    <3>1. Width * (Rounds - 1) \in Nat
      BY <2>0, <2>1, <2>8, Product
    <3>. QED BY <2>2, <2>3, <2>4, <2>8, <3>1
  <2>. QED BY <1>1, <2>5, <2>6, <2>7, <2>8, SearchDecreases
<1>2. IInv /\ IInv' /\ [Next]_vars => [Active /\ Active' => Remaining' < Remaining /\ Remaining' >= 0]_vars
  BY <1>1 DEF IInv
<1>. QED BY <1>2, Invariant, PTL DEF Spec, SearchAdvances
===============================================================================
