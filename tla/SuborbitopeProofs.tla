--------------------------- MODULE SuborbitopeProofs --------------------------
(***************************************************************************)
(* Proofs about Suborbitope, for matrices and towers of any size.  The     *)
(* inductive invariant says what the heights carried from row to row are,  *)
(* and which submatrices are on the list when row i has been reached.      *)
(***************************************************************************)
EXTENDS Suborbitope, FiniteSetTheorems, SequenceTheorems, TLAPS

-------------------------------------------------------------------------------
(***************************************************************************)
(* The members of a set in ascending order.                                *)
(***************************************************************************)

(* The rank grows with the number, and is below the size of the set.        *)
LEMMA RankGrows ==
  ASSUME NEW S \in SUBSET Int, IsFiniteSet(S)
  PROVE  /\ \A x \in S : Rank(x, S) \in 0 .. Cardinality(S) - 1
         /\ \A x, y \in S : x < y => Rank(x, S) < Rank(y, S)
<1> DEFINE Less(x) == {y \in S : y < x}
<1>1. \A x \in S : IsFiniteSet(Less(x)) /\ Cardinality(Less(x)) \in Nat
  BY FS_Subset, FS_CardinalityType
<1>2. ASSUME NEW x \in S, NEW T \in SUBSET S, Less(x) \subseteq T, x \in T
      PROVE  Cardinality(Less(x)) < Cardinality(T)
  <2>1. IsFiniteSet(T) /\ Cardinality(T) \in Nat
    BY FS_Subset, FS_CardinalityType
  <2>2. Less(x) \in SUBSET T /\ Less(x) # T
    BY <1>2
  <2>. QED BY <1>1, <2>1, <2>2, FS_Subset
<1>3. Cardinality(S) \in Nat
  BY FS_CardinalityType
<1>4. ASSUME NEW x \in S PROVE Rank(x, S) \in 0 .. Cardinality(S) - 1
  <2>1. Cardinality(Less(x)) < Cardinality(S)
    BY <1>2
  <2>. QED BY <1>1, <1>3, <2>1 DEF Rank
<1>5. ASSUME NEW x \in S, NEW y \in S, x < y PROVE Rank(x, S) < Rank(y, S)
  <2>1. x \in Int /\ y \in Int
    OBVIOUS
  <2>2. ASSUME NEW z \in S, z < x PROVE z < y
    <3>1. z \in Int
      OBVIOUS
    <3>. QED BY <1>5, <2>1, <2>2, <3>1
  <2>3. Less(x) \subseteq Less(y) /\ x \in Less(y)
    BY <1>5, <2>2
  <2>. QED BY <1>2, <2>3 DEF Rank
<1>. QED BY <1>4, <1>5

(* Every rank is taken: as many different ranks as members.                 *)
LEMMA RankTaken ==
  ASSUME NEW S \in SUBSET Int, IsFiniteSet(S), NEW k \in 1 .. Cardinality(S)
  PROVE  \E x \in S : Rank(x, S) = k - 1
<1> DEFINE n == Cardinality(S)
           T == 0 .. n - 1
           rank == [x \in S |-> Rank(x, S)]
<1>1. n \in Nat
  BY FS_CardinalityType
<1>2. IsFiniteSet(T) /\ Cardinality(T) = n
  <2>1. 0 \in Int /\ n - 1 \in Int
    BY <1>1
  <2>2. IsFiniteSet(T) /\ Cardinality(T) = IF 0 > n - 1 THEN 0 ELSE n - 1 - 0 + 1
    BY <2>1, FS_Interval
  <2>. QED BY <1>1, <2>2
<1>3. rank \in [S -> T]
  BY RankGrows
<1>4. \A x, y \in S : rank[x] = rank[y] => x = y
  <2>1. ASSUME NEW x \in S, NEW y \in S, x # y PROVE rank[x] # rank[y]
    <3>1. x < y \/ y < x
      BY <2>1
    <3>2. rank[x] < rank[y] \/ rank[y] < rank[x]
      BY <3>1, RankGrows
    <3>3. rank[x] \in Int /\ rank[y] \in Int
      BY <1>3, <1>1
    <3>. QED BY <3>2, <3>3
  <2>. QED BY <2>1
<1>5. rank \in Injection(S, T)
  BY <1>3, <1>4 DEF Injection, IsInjective
<1>6. rank \in Surjection(S, T)
  BY <1>2, <1>5, FS_Injection
<1>7. k - 1 \in T
  BY <1>1
<1>. QED BY <1>6, <1>7 DEF Surjection

(* The sequence has exactly the members of the set. *)
LEMMA AscendingMembers ==
  ASSUME NEW S \in SUBSET Int, IsFiniteSet(S)
  PROVE  Ascending(S) \in Seq(S) /\ Range(Ascending(S)) = S
<1> DEFINE n == Cardinality(S)
           a == Ascending(S)
<1>1. n \in Nat
  BY FS_CardinalityType
<1>2. DOMAIN a = 1 .. n
  BY DEF Ascending
<1>3. \A k \in 1 .. n : a[k] \in S /\ Rank(a[k], S) = k - 1
  BY RankTaken DEF Ascending
<1>4. a \in [1 .. n -> S]
  BY <1>2, <1>3 DEF Ascending
<1>5. a \in Seq(S) /\ Len(a) = n
  BY <1>1, <1>4
<1>6. ASSUME NEW x \in S, NEW y \in S
      PROVE  /\ x \in Int /\ y \in Int /\ Rank(x, S) \in 0 .. n - 1
             /\ Rank(x, S) = Rank(y, S) => x = y
             /\ Rank(x, S) < Rank(y, S) => x < y
  <2>1. x \in Int /\ y \in Int
    OBVIOUS
  <2>2. Rank(x, S) \in 0 .. n - 1 /\ Rank(y, S) \in 0 .. n - 1
    BY RankGrows
  <2>3. (x < y => Rank(x, S) < Rank(y, S)) /\ (y < x => Rank(y, S) < Rank(x, S))
    BY RankGrows
  <2>. QED BY <1>1, <2>1, <2>2, <2>3
<1>7. ASSUME NEW x \in S PROVE x \in Range(a)
  <2> DEFINE k == Rank(x, S) + 1
  <2>1. k \in 1 .. n /\ k - 1 = Rank(x, S)
    BY <1>1, <1>6
  <2>2. a[k] \in S /\ Rank(a[k], S) = Rank(x, S)
    BY <1>3, <2>1
  <2>3. a[k] = x
    BY <1>6, <2>2
  <2>. QED BY <1>2, <2>1, <2>3 DEF Range
<1>8. Range(a) = S
  BY <1>2, <1>3, <1>7 DEF Range
<1>. QED BY <1>5, <1>8

-------------------------------------------------------------------------------

Submatrices == [first : RowIndices, cols : Seq(Cols)]
SubSets     == [first : RowIndices, cols : SUBSET Cols]

(* The heights t are those of the towers of entries v above row r. *)
Heights(t, v, r) ==
  \A k \in Cols :
    /\ t[k] \in 0 .. r
    /\ \A q \in r - t[k] .. r - 1 : dom[q][k] = v
    /\ t[k] < r => dom[r - t[k] - 1][k] # v

(* The variables have their types, rows and columns their bounds.           *)
Typed ==
  /\ dom \in Matrices
  /\ pc \in {"idle", "row", "zeros", "ones", "returned"}
  /\ i \in 0 .. M
  /\ pc \in {"zeros", "ones"} => i < M
  /\ pc = "returned" => i = M
  /\ zerotower \in [Cols -> 0 .. M] /\ onetower \in [Cols -> 0 .. M]
  /\ zeroused \subseteq Cols /\ oneused \subseteq Cols
  /\ found \in Seq(Submatrices)

(* The towers above row i have been counted, in the middle of a row those   *)
(* above the next one; zeroused and oneused are the columns with a tower.   *)
Measured ==
  /\ pc = "row" => Heights(zerotower, "zero", i) /\ Heights(onetower, "one", i)
  /\ pc \in {"zeros", "ones"} =>
       /\ Heights(zerotower, "zero", i + 1) /\ Heights(onetower, "one", i + 1)
       /\ zeroused = Down(i) /\ oneused = Up(i)

(* What has been recorded when row i has been reached. *)
Recorded(s) ==
  \/ s.cols = Down(s.first) /\ (s.first < i \/ (pc = "ones" /\ s.first = i))
  \/ s.cols = Up(s.first) /\ s.first < i

ListExact ==
  pc # "idle" => Listed(found) = {s \in SubSets : Cardinality(s.cols) >= 2 /\ Recorded(s)}

IInv == Typed /\ Measured /\ ListExact

-------------------------------------------------------------------------------
(* A tower of h entries stands where the height is at least h. *)
LEMMA TallEnough ==
  ASSUME NEW t, NEW v, NEW r \in Nat, Heights(t, v, r), NEW k \in Cols, NEW h \in Nat
  PROVE  t[k] >= h <=> Tower(dom, k, r, h, v)
<1>1. t[k] \in 0 .. r
  BY DEF Heights
<1>2. ASSUME t[k] >= h PROVE Tower(dom, k, r, h, v)
  <2>1. \A q \in r - h .. r - 1 : q \in r - t[k] .. r - 1
    BY <1>1, <1>2
  <2>. QED BY <1>1, <1>2, <2>1 DEF Tower, Heights
<1>3. ASSUME Tower(dom, k, r, h, v) PROVE t[k] >= h
  <2> SUFFICES ASSUME t[k] < h PROVE FALSE
    BY <1>1
  <2>1. r >= h
    BY <1>3 DEF Tower
  <2>2. r - t[k] - 1 \in r - h .. r - 1 /\ t[k] < r
    BY <1>1, <2>1
  <2>. QED BY <1>3, <2>2 DEF Tower, Heights
<1>. QED BY <1>2, <1>3

(* The heights grow by one entry, or fall to nothing. *)
LEMMA GrowHeights ==
  ASSUME SizeAssumption, i \in 0 .. M, i < M, NEW t \in [Cols -> 0 .. M], NEW v,
         Heights(t, v, i)
  PROVE  Heights(Grow(t, v), v, i + 1) /\ Grow(t, v) \in [Cols -> 0 .. M]
<1>0. i \in Nat /\ M \in Nat
  BY DEF SizeAssumption
<1>1. ASSUME NEW k \in Cols
      PROVE  /\ Grow(t, v)[k] \in 0 .. i + 1
             /\ \A q \in i + 1 - Grow(t, v)[k] .. i : dom[q][k] = v
             /\ Grow(t, v)[k] < i + 1 => dom[i + 1 - Grow(t, v)[k] - 1][k] # v
  <2>1. t[k] \in 0 .. i /\ (\A q \in i - t[k] .. i - 1 : dom[q][k] = v)
        /\ (t[k] < i => dom[i - t[k] - 1][k] # v)
    BY DEF Heights
  <2>2. CASE dom[i][k] = v
    <3>1. Grow(t, v)[k] = t[k] + 1
      BY <2>2 DEF Grow
    <3>2. \A q \in i + 1 - (t[k] + 1) .. i : q = i \/ q \in i - t[k] .. i - 1
      BY <1>0, <2>1
    <3>3. i + 1 - (t[k] + 1) - 1 = i - t[k] - 1
      BY <1>0, <2>1
    <3>. QED BY <1>0, <2>1, <2>2, <3>1, <3>2, <3>3
  <2>3. CASE dom[i][k] # v
    <3>1. Grow(t, v)[k] = 0
      BY <2>3 DEF Grow
    <3>. QED BY <1>0, <2>3, <3>1
  <2>. QED BY <2>2, <2>3
<1>2. Heights(Grow(t, v), v, i + 1)
  <2>1. i + 1 - 1 = i
    BY <1>0
  <2>. QED BY <1>1, <2>1 DEF Heights
<1>3. \A k \in Cols : Grow(t, v)[k] \in 0 .. M
  BY <1>0, <1>1
<1>. QED BY <1>2, <1>3 DEF Grow

(* A column cannot have been down and up at once. *)
LEMMA DownIsNotUp ==
  ASSUME HeightAssumption, NEW r \in Nat, NEW k \in Cols
  PROVE  ~(k \in Down(r) /\ k \in Up(r))
<1> SUFFICES ASSUME Tower(dom, k, r, zeroheight, "zero"), Tower(dom, k, r, oneheight, "one")
             PROVE  FALSE
  BY DEF Down, Up
<1>1. r - 1 \in r - zeroheight .. r - 1 /\ r - 1 \in r - oneheight .. r - 1
  BY DEF Tower, HeightAssumption
<1>. QED BY <1>1 DEF Tower

LEMMA ColsFinite ==
  ASSUME SizeAssumption, NEW C \in SUBSET Cols
  PROVE  C \in SUBSET Int /\ IsFiniteSet(C) /\ Cardinality(C) \in Nat
<1>1. 0 \in Int /\ N - 1 \in Int /\ Cols \subseteq Int
  BY DEF SizeAssumption, Cols
<1>2. IsFiniteSet(Cols)
  BY <1>1, FS_Interval DEF Cols
<1>. QED BY <1>1, <1>2, FS_Subset, FS_CardinalityType

(* The submatrix that is recorded is one of columns in ascending order, and *)
(* as sets it is that of the columns C.                                     *)
LEMMA RecordedMatrix ==
  ASSUME SizeAssumption, i \in RowIndices, NEW C \in SUBSET Cols
  PROVE  Submatrix(C) \in Submatrices /\ AsSet(Submatrix(C)) = [first |-> i, cols |-> C]
<1>1. Ascending(C) \in Seq(C) /\ Range(Ascending(C)) = C
  BY ColsFinite, AscendingMembers
<1>2. Ascending(C) \in Seq(Cols)
  BY <1>1, SeqMonotonic
<1>. QED BY <1>1, <1>2 DEF Submatrix, Submatrices, AsSet

(* A list with one more submatrix in front. *)
LEMMA ListedPrepend ==
  ASSUME NEW f \in Seq(Submatrices), NEW e \in Submatrices
  PROVE  /\ <<e>> \o f \in Seq(Submatrices)
         /\ Listed(<<e>> \o f) = Listed(f) \cup {AsSet(e)}
<1> DEFINE g == <<e>> \o f
<1>1. <<e>> \in Seq(Submatrices) /\ Len(<<e>>) = 1 /\ <<e>>[1] = e
  OBVIOUS
<1>2. g \in Seq(Submatrices) /\ Len(g) = Len(f) + 1
  BY <1>1, ConcatProperties
<1>3. g[1] = e
  BY <1>1, ConcatProperties
<1>4. \A k \in DOMAIN f : k + 1 \in DOMAIN g /\ g[k + 1] = f[k]
  BY <1>1, <1>2, ConcatProperties
<1>5. \A k \in DOMAIN g : k = 1 \/ (k - 1 \in DOMAIN f /\ g[k] = f[k - 1])
  BY <1>1, <1>2, ConcatProperties
<1>6. 1 \in DOMAIN g
  BY <1>2
<1> HIDE DEF g
<1>7. Listed(g) = Listed(f) \cup {AsSet(e)}
  BY <1>3, <1>4, <1>5, <1>6 DEF Listed
<1>. QED BY <1>2, <1>7 DEF g

LEMMA SomeNodeType == ASSUME MatrixAssumption PROVE SomeNode \in Matrices
BY DEF MatrixAssumption, SomeNode

-------------------------------------------------------------------------------
(* The inductive invariant: one lemma for each of its parts. *)

LEMMA TypedInit == ASSUME SizeAssumption, MatrixAssumption PROVE Init => Typed
BY SomeNodeType DEF Init, Typed, SizeAssumption, NoTower

LEMMA TypedStep ==
  ASSUME SizeAssumption, MatrixAssumption, Typed, Measured, [Next]_vars
  PROVE  Typed'
<1>0. M \in Nat \ {0}
  BY DEF SizeAssumption
<1>1. CASE Call
  BY <1>0, <1>1 DEF Call, Typed, NoTower
<1>2. CASE ScanRow
  <2>1. Heights(zerotower, "zero", i) /\ Heights(onetower, "one", i) /\ i < M
    BY <1>2 DEF ScanRow, Measured
  <2>2. zerotower' \in [Cols -> 0 .. M] /\ onetower' \in [Cols -> 0 .. M]
    BY <1>2, <2>1, GrowHeights DEF ScanRow, Typed
  <2>. QED BY <1>2, <2>1, <2>2 DEF ScanRow, Typed
<1>3. CASE RecordZeros
  <2>1. i \in RowIndices
    BY <1>0, <1>3 DEF RecordZeros, Typed, RowIndices
  <2>2. Submatrix(zeroused) \in Submatrices
    BY <2>1, RecordedMatrix DEF Typed
  <2>3. found' \in Seq(Submatrices)
    BY <1>3, <2>2, ListedPrepend DEF RecordZeros, Typed
  <2>. QED BY <1>3, <2>3 DEF RecordZeros, Typed
<1>4. CASE RecordOnes
  <2>1. i \in RowIndices
    BY <1>0, <1>4 DEF RecordOnes, Typed, RowIndices
  <2>2. Submatrix(oneused) \in Submatrices
    BY <2>1, RecordedMatrix DEF Typed
  <2>3. found' \in Seq(Submatrices)
    BY <1>4, <2>2, ListedPrepend DEF RecordOnes, Typed
  <2>4. i' \in 0 .. M
    BY <1>0, <1>4 DEF RecordOnes, Typed
  <2>. QED BY <1>4, <2>3, <2>4 DEF RecordOnes, Typed
<1>5. CASE Return
  BY <1>0, <1>5 DEF Return, Typed, NoTower
<1>6. CASE Consume
  BY <1>6, SomeNodeType DEF Consume, Typed
<1>7. CASE UNCHANGED vars
  BY <1>7 DEF vars, Typed
<1>. QED BY <1>1, <1>2, <1>3, <1>4, <1>5, <1>6, <1>7 DEF Next

LEMMA MeasuredInit == Init => Measured
BY DEF Init, Measured

LEMMA MeasuredStep ==
  ASSUME SizeAssumption, HeightAssumption, Typed, Measured, [Next]_vars
  PROVE  Measured'
<1>0. M \in Nat \ {0} /\ i \in Nat
  BY DEF SizeAssumption, Typed
<1>1. CASE Call
  <2>1. \A k \in Cols, v \in {"zero", "one"} : zerotower'[k] = 0 /\ onetower'[k] = 0
    BY <1>1 DEF Call, NoTower
  <2>2. Heights(zerotower, "zero", i)' /\ Heights(onetower, "one", i)'
    BY <1>1, <2>1 DEF Call, Heights
  <2>. QED BY <1>1, <2>2 DEF Call, Measured
<1>2. CASE ScanRow
  <2>0. Heights(zerotower, "zero", i) /\ Heights(onetower, "one", i) /\ i < M
    BY <1>2 DEF ScanRow, Measured
  <2>1. Heights(Grow(zerotower, "zero"), "zero", i + 1) /\ Heights(Grow(onetower, "one"), "one", i + 1)
    BY <2>0, GrowHeights DEF Typed
  <2>2. Heights(zerotower, "zero", i + 1)' /\ Heights(onetower, "one", i + 1)'
    BY <1>2, <2>1 DEF ScanRow, Heights
  <2>3. \A k \in Cols : /\ zerotower[k] >= zeroheight <=> k \in Down(i)
                        /\ onetower[k] >= oneheight <=> k \in Up(i)
    BY <1>0, <2>0, TallEnough DEF Down, Up, HeightAssumption
  <2>4. \A k \in Cols : zerotower[k] < zeroheight <=> ~(zerotower[k] >= zeroheight)
    BY DEF HeightAssumption, Typed
  <2>5. zeroused' = Down(i) /\ oneused' = Up(i)
    BY <1>0, <1>2, <2>3, <2>4, DownIsNotUp DEF ScanRow, Down, Up
  <2>6. (zeroused = Down(i) /\ oneused = Up(i))'
    BY <1>2, <2>5 DEF ScanRow, Down, Up, Tower
  <2>. QED BY <1>2, <2>2, <2>6 DEF ScanRow, Measured
<1>3. CASE RecordZeros
  BY <1>3 DEF RecordZeros, Measured, Heights, Down, Up, Tower
<1>4. CASE RecordOnes
  BY <1>4 DEF RecordOnes, Measured, Heights
<1>5. CASE Return
  BY <1>5 DEF Return, Measured
<1>6. CASE Consume
  BY <1>6 DEF Consume, Measured
<1>7. CASE UNCHANGED vars
  BY <1>7 DEF vars, Measured, Heights, Down, Up, Tower
<1>. QED BY <1>1, <1>2, <1>3, <1>4, <1>5, <1>6, <1>7 DEF Next

LEMMA ListExactInit == Init => ListExact
BY DEF Init, ListExact

LEMMA ListExactStep ==
  ASSUME SizeAssumption, Typed, Measured, ListExact, [Next]_vars
  PROVE  ListExact'
<1> DEFINE Wide(s) == Cardinality(s.cols) >= 2
<1>0. M \in Nat \ {0} /\ i \in Nat /\ \A s \in SubSets : s.first \in Int
  BY DEF SizeAssumption, Typed, SubSets, RowIndices
<1>1. CASE Call
  <2>1. \A s \in SubSets : ~Recorded(s)'
    BY <1>0, <1>1 DEF Call, Recorded, SubSets, RowIndices
  <2>2. Listed(found)' = {}
    BY <1>1 DEF Call, Listed
  <2>. QED BY <2>1, <2>2 DEF ListExact
<1>2. CASE ScanRow
  <2>1. \A s \in SubSets : Recorded(s)' <=> Recorded(s)
    BY <1>2 DEF ScanRow, Recorded, Down, Up, Tower
  <2>2. Listed(found)' = Listed(found) /\ pc # "idle"
    BY <1>2 DEF ScanRow, Listed
  <2>. QED BY <2>1, <2>2 DEF ListExact
<1>3. CASE RecordZeros
  <2> DEFINE e == [first |-> i, cols |-> zeroused]
  <2>1. i \in RowIndices /\ e \in SubSets
    BY <1>0, <1>3 DEF RecordZeros, Typed, RowIndices, SubSets
  <2>2. zeroused = Down(i)
    BY <1>3 DEF RecordZeros, Measured
  <2>3. \A s \in SubSets : Recorded(s)' <=> Recorded(s) \/ s = e
    BY <1>0, <1>3, <2>1, <2>2 DEF RecordZeros, Recorded, SubSets, Down, Up, Tower
  <2>4. Submatrix(zeroused) \in Submatrices /\ AsSet(Submatrix(zeroused)) = e
    BY <2>1, RecordedMatrix DEF Typed
  <2>5. Listed(found') = IF Wide(e) THEN Listed(found) \cup {e} ELSE Listed(found)
    BY <1>3, <2>4, ListedPrepend DEF RecordZeros, Typed
  <2>6. Listed(found') = {s \in SubSets : Wide(s) /\ Recorded(s)'}
    <3>1. Listed(found) = {s \in SubSets : Wide(s) /\ Recorded(s)}
      BY <1>3 DEF RecordZeros, ListExact
    <3> HIDE DEF Wide, e
    <3>. QED BY <2>1, <2>3, <2>5, <3>1
  <2>. QED BY <2>6 DEF ListExact, Listed
<1>4. CASE RecordOnes
  <2> DEFINE e == [first |-> i, cols |-> oneused]
  <2>1. i \in RowIndices /\ e \in SubSets
    BY <1>0, <1>4 DEF RecordOnes, Typed, RowIndices, SubSets
  <2>2. oneused = Up(i)
    BY <1>4 DEF RecordOnes, Measured
  <2>3. \A s \in SubSets : Recorded(s)' <=> Recorded(s) \/ s = e
    BY <1>0, <1>4, <2>1, <2>2 DEF RecordOnes, Recorded, SubSets, Down, Up, Tower
  <2>4. Submatrix(oneused) \in Submatrices /\ AsSet(Submatrix(oneused)) = e
    BY <2>1, RecordedMatrix DEF Typed
  <2>5. Listed(found') = IF Wide(e) THEN Listed(found) \cup {e} ELSE Listed(found)
    BY <1>4, <2>4, ListedPrepend DEF RecordOnes, Typed
  <2>6. Listed(found') = {s \in SubSets : Wide(s) /\ Recorded(s)'}
    <3>1. Listed(found) = {s \in SubSets : Wide(s) /\ Recorded(s)}
      BY <1>4 DEF RecordOnes, ListExact
    <3> HIDE DEF Wide, e
    <3>. QED BY <2>1, <2>3, <2>5, <3>1
  <2>. QED BY <2>6 DEF ListExact, Listed
<1>5. CASE Return
  <2>1. \A s \in SubSets : Recorded(s)' <=> Recorded(s)
    BY <1>5 DEF Return, Recorded, Down, Up, Tower
  <2>2. Listed(found)' = Listed(found) /\ pc # "idle"
    BY <1>5 DEF Return, Listed
  <2>. QED BY <2>1, <2>2 DEF ListExact
<1>6. CASE Consume
  BY <1>6 DEF Consume, ListExact
<1>7. CASE UNCHANGED vars
  BY <1>7 DEF vars, ListExact, Listed, Recorded, Down, Up, Tower
<1>. QED BY <1>1, <1>2, <1>3, <1>4, <1>5, <1>6, <1>7 DEF Next

LEMMA Invariant ==
  ASSUME SizeAssumption, HeightAssumption, MatrixAssumption PROVE Spec => []IInv
<1>1. Init => IInv
  BY TypedInit, MeasuredInit, ListExactInit DEF IInv
<1>2. IInv /\ [Next]_vars => IInv'
  BY TypedStep, MeasuredStep, ListExactStep DEF IInv
<1>. QED BY <1>1, <1>2, PTL DEF Spec

-------------------------------------------------------------------------------
(* The variables keep their types: the heights are at most M, the columns   *)
(* with a tower are columns.                                                *)
THEOREM TypeCorrect ==
  ASSUME SizeAssumption, HeightAssumption, MatrixAssumption
  PROVE  Spec => []TypeOK
<1>1. IInv => TypeOK
  BY DEF IInv, Typed, TypeOK, Submatrices
<1>. QED BY <1>1, Invariant, PTL

(* Whatever the bounds of the matrix, the list that is returned holds for   *)
(* each row the columns with a tower of zeros above it, and those with a    *)
(* tower of ones, wherever these are two or more, and nothing else.         *)
THEOREM TowersExact ==
  ASSUME SizeAssumption, HeightAssumption, MatrixAssumption
  PROVE  Spec => []AllTowers
<1>1. ASSUME Typed, ListExact, pc = "returned"
      PROVE  Listed(found) = {s \in SubSets :
               Cardinality(s.cols) >= 2 /\ s.cols \in {Down(s.first), Up(s.first)}}
  <2>1. \A s \in SubSets : s.first < i
    BY <1>1 DEF Typed, SubSets, RowIndices, SizeAssumption
  <2>2. \A s \in SubSets : Recorded(s) <=> s.cols \in {Down(s.first), Up(s.first)}
    BY <1>1, <2>1 DEF Recorded
  <2>. QED BY <1>1, <2>2 DEF ListExact
<1>2. IInv => AllTowers
  BY <1>1 DEF IInv, AllTowers, SubSets
<1>. QED BY <1>2, Invariant, PTL

(* What is on the list is a sub-symmetry: its columns have all been down    *)
(* for long enough, or all up.                                              *)
LEMMA ListedIsSymmetric ==
  ASSUME Typed, ListExact, pc # "idle", NEW s \in Listed(found)
  PROVE  s \in SubSets /\ SubSymmetric(dom, s) /\ s.cols \in {Down(s.first), Up(s.first)}
BY DEF ListExact, Recorded, Down, Up, SubSymmetric

(* The handler implements what the propagator expects of it: it hands out   *)
(* sub-symmetries of the bounds it has been called with, and nothing else.  *)
THEOREM Refinement ==
  ASSUME SizeAssumption, HeightAssumption, MatrixAssumption
  PROVE  Spec => ImplementsSource
<1> USE DEF Source!Init, Source!Next, Source!vars, Active
<1>1. Init => Source!Init
  BY SomeNodeType DEF Init, Listed
<1>2. IInv /\ [Next]_vars => [Source!Next]_(Source!vars)
  <2> SUFFICES ASSUME IInv, [Next]_vars PROVE [Source!Next]_(Source!vars)
    OBVIOUS
  <2>1. CASE Call
    <3>1. Listed(found') = {}
      BY <2>1 DEF Call, Listed
    <3>. QED BY <2>1, <3>1 DEF Call, Source!Call
  <2>2. ASSUME NEW C \in SUBSET Cols, pc \in {"zeros", "ones"}, C \in {Down(i), Up(i)},
               found' = IF Cardinality(C) >= 2 THEN <<Submatrix(C)>> \o found ELSE found,
               dom' = dom, pc' \in {"row", "ones"}
        PROVE  [Source!Next]_(Source!vars)
    <3> DEFINE e == [first |-> i, cols |-> C]
    <3>1. i \in RowIndices
      BY <2>2 DEF IInv, Typed, RowIndices, SizeAssumption
    <3>2. e \in SubSets /\ SubSymmetric(dom, e)
      BY <2>2, <3>1 DEF SubSets, SubSymmetric, Down, Up
    <3>3. Submatrix(C) \in Submatrices /\ AsSet(Submatrix(C)) = e
      BY <3>1, RecordedMatrix
    <3>4. Listed(found') \in {Listed(found), Listed(found) \cup {e}}
      BY <2>2, <3>3, ListedPrepend DEF IInv, Typed
    <3>5. Active /\ Active'
      BY <2>2
    <3> HIDE DEF e
    <3>. QED BY <2>2, <3>2, <3>4, <3>5 DEF Source!Report, SubSets
  <2>3. CASE RecordZeros
    <3>1. zeroused \in SUBSET Cols /\ zeroused = Down(i)
      BY <2>3 DEF RecordZeros, IInv, Typed, Measured
    <3>. QED BY <2>2, <2>3, <3>1 DEF RecordZeros
  <2>4. CASE RecordOnes
    <3>1. oneused \in SUBSET Cols /\ oneused = Up(i)
      BY <2>4 DEF RecordOnes, IInv, Typed, Measured
    <3>. QED BY <2>2, <2>4, <3>1 DEF RecordOnes
  <2>5. CASE ScanRow
    BY <2>5 DEF ScanRow, Listed
  <2>6. CASE Return
    BY <2>6 DEF Return, Source!Return, Listed
  <2>7. CASE Consume
    <3>1. Listed(found') = {}
      BY <2>7 DEF Consume, Listed
    <3>. QED BY <2>7, <3>1, SomeNodeType DEF Consume, Source!Consume
  <2>8. CASE UNCHANGED vars
    BY <2>8 DEF vars, Listed
  <2>. QED BY <2>1, <2>3, <2>4, <2>5, <2>6, <2>7, <2>8 DEF Next
<1>. QED BY <1>1, <1>2, Invariant, PTL DEF Spec, ImplementsSource, Source!Spec

-------------------------------------------------------------------------------
(* The schedules of two units that have both been down, or both been up,    *)
(* above row r: they agree in row r - 1.                                    *)
Schedules == {x \in [RowIndices -> 0 .. 1] : Schedule(x)}

DownBefore(p, r) == \A q \in r - zeroheight .. r - 1 : p[q] = 0
UpBefore(p, r)   == \A q \in r - oneheight .. r - 1 : p[q] = 1

LEMMA StartsOfJoined ==
  ASSUME SizeAssumption, NEW p \in Schedules, NEW q \in Schedules, NEW r \in RowIndices,
         r > 0, p[r - 1] = q[r - 1], NEW t \in RowIndices
  PROVE  StartsAt(Joined(p, q, r), t) <=> StartsAt(IF t < r THEN p ELSE q, t)
<1>1. r \in Int /\ t \in Int /\ t >= 0 /\ (t > 0 => t - 1 \in RowIndices)
  BY DEF RowIndices, SizeAssumption
<1>2. t > 0 /\ t > r => ~(t - 1 < r) /\ ~(t < r)
  BY <1>1
<1>3. t < r => t - 1 < r
  BY <1>1
<1>4. t = r => t > 0 /\ t - 1 = r - 1 /\ t - 1 < r /\ ~(t < r)
  BY <1>1
<1>5. t < r \/ t = r \/ t > r
  BY <1>1
<1>. QED BY <1>1, <1>2, <1>3, <1>4, <1>5 DEF StartsAt, Joined

(* A schedule that goes on from row r as another one does is a schedule.    *)
LEMMA JoinedIsSchedule ==
  ASSUME SizeAssumption, HeightAssumption, NEW p \in Schedules, NEW q \in Schedules,
         NEW r \in RowIndices,
         \/ r >= zeroheight /\ DownBefore(p, r) /\ DownBefore(q, r)
         \/ r >= oneheight /\ UpBefore(p, r) /\ UpBefore(q, r)
  PROVE  r > 0 /\ p[r - 1] = q[r - 1] /\ Schedule(Joined(p, q, r))
<1> DEFINE x == Joined(p, q, r)
<1>0. r \in Int /\ zeroheight \in Int /\ oneheight \in Int /\ zeroheight > 0 /\ oneheight > 0
      /\ RowIndices \subseteq Int
  BY DEF RowIndices, SizeAssumption, HeightAssumption
<1>1. r > 0 /\ p[r - 1] = q[r - 1]
  <2>1. r - 1 \in r - zeroheight .. r - 1 /\ r - 1 \in r - oneheight .. r - 1
    BY <1>0
  <2>. QED BY <1>0, <2>1 DEF DownBefore, UpBefore
<1>2. \A g \in RowIndices : x[g] = IF g < r THEN p[g] ELSE q[g]
  BY DEF Joined
<1>3. ASSUME NEW t \in RowIndices, StartsAt(x, t)
      PROVE  /\ \A g \in t .. t + oneheight - 1 : g \in RowIndices => x[g] = 1
             /\ \A g \in t - zeroheight .. t - 1 : g \in RowIndices => x[g] = 0
  <2>0. t \in Int /\ StartsAt(IF t < r THEN p ELSE q, t)
    BY <1>0, <1>1, <1>3, StartsOfJoined
  <2>1. CASE t < r
    <3>0. /\ t > 0 /\ p[t] = 1 /\ p[t - 1] = 0
          /\ \A g \in t .. t + oneheight - 1 : g \in RowIndices => p[g] = 1
          /\ \A g \in t - zeroheight .. t - 1 : g \in RowIndices => p[g] = 0
      BY <2>0, <2>1 DEF StartsAt, Schedules, Schedule
    <3>1. ASSUME NEW g \in t .. t + oneheight - 1, g \in RowIndices PROVE x[g] = 1
      <4>1. CASE g < r
        BY <1>2, <3>0, <3>1, <4>1
      <4>2. CASE r <= g
        <5>1. r - 1 \in RowIndices /\ r - 1 \in t .. t + oneheight - 1
          BY <1>0, <1>1, <2>0, <2>1, <4>2 DEF RowIndices, SizeAssumption
        <5>2. p[r - 1] = 1
          BY <3>0, <5>1
        <5>3. r - 1 \in r - zeroheight .. r - 1
          BY <1>0
        <5>4. r >= oneheight /\ UpBefore(p, r)
          BY <5>2, <5>3 DEF DownBefore
        <5>5. t - 1 \in r - oneheight .. r - 1
          BY <1>0, <2>0, <2>1, <4>2
        <5>. QED BY <3>0, <5>4, <5>5 DEF UpBefore
      <4>. QED BY <1>0, <3>1, <4>1, <4>2
    <3>2. ASSUME NEW g \in t - zeroheight .. t - 1, g \in RowIndices PROVE x[g] = 0
      <4>1. g < r
        BY <1>0, <2>0, <2>1, <3>2
      <4>. QED BY <1>2, <3>0, <3>2, <4>1
    <3>. QED BY <3>1, <3>2
  <2>2. CASE ~(t < r)
    <3>0. /\ t > 0 /\ q[t] = 1 /\ q[t - 1] = 0
          /\ \A g \in t .. t + oneheight - 1 : g \in RowIndices => q[g] = 1
          /\ \A g \in t - zeroheight .. t - 1 : g \in RowIndices => q[g] = 0
      BY <2>0, <2>2 DEF StartsAt, Schedules, Schedule
    <3>1. ASSUME NEW g \in t .. t + oneheight - 1, g \in RowIndices PROVE x[g] = 1
      <4>1. ~(g < r)
        BY <1>0, <2>0, <2>2, <3>1
      <4>. QED BY <1>2, <3>0, <3>1, <4>1
    <3>2. ASSUME NEW g \in t - zeroheight .. t - 1, g \in RowIndices PROVE x[g] = 0
      <4>1. CASE ~(g < r)
        BY <1>2, <3>0, <3>2, <4>1
      <4>2. CASE g < r
        <5>1. r - 1 \in RowIndices /\ r - 1 \in t - zeroheight .. t - 1
          BY <1>0, <1>1, <2>0, <2>2, <3>2, <4>2 DEF RowIndices, SizeAssumption
        <5>2. q[r - 1] = 0
          BY <3>0, <5>1
        <5>3. r - 1 \in r - oneheight .. r - 1
          BY <1>0
        <5>4. r >= zeroheight /\ DownBefore(p, r)
          BY <5>2, <5>3 DEF UpBefore
        <5>5. g \in r - zeroheight .. r - 1
          BY <1>0, <2>0, <2>2, <3>2, <4>2
        <5>. QED BY <1>2, <3>2, <4>2, <5>4, <5>5 DEF DownBefore
      <4>. QED BY <4>1, <4>2
    <3>. QED BY <3>1, <3>2
  <2>. QED BY <2>1, <2>2
<1>. QED BY <1>1, <1>3 DEF Schedule

(* The starts of the two schedules are shared out, none is lost or added.   *)
LEMMA StartsKept ==
  ASSUME SizeAssumption, NEW p \in Schedules, NEW q \in Schedules, NEW r \in RowIndices,
         r > 0, p[r - 1] = q[r - 1]
  PROVE  Starts(Joined(p, q, r)) + Starts(Joined(q, p, r)) = Starts(p) + Starts(q)
<1> DEFINE Early(x) == {t \in RowIndices : t < r /\ StartsAt(x, t)}
           Late(x)  == {t \in RowIndices : ~(t < r) /\ StartsAt(x, t)}
<1>1. IsFiniteSet(RowIndices)
  BY FS_Interval DEF RowIndices, SizeAssumption
<1>2. ASSUME NEW x, NEW y
      PROVE  /\ Cardinality(Early(x) \cup Late(y)) = Cardinality(Early(x)) + Cardinality(Late(y))
             /\ Cardinality(Early(x)) \in Nat /\ Cardinality(Late(y)) \in Nat
  <2>1. IsFiniteSet(Early(x)) /\ IsFiniteSet(Late(y))
    BY <1>1, FS_Subset
  <2>2. Cardinality(Early(x)) \in Nat /\ Cardinality(Late(y)) \in Nat
    BY <2>1, FS_CardinalityType
  <2>3. Early(x) \cap Late(y) = {}
    OBVIOUS
  <2>4. Cardinality(Early(x) \cap Late(y)) = 0
    BY <2>3, FS_EmptySet
  <2> HIDE DEF Early, Late
  <2>5. Cardinality(Early(x) \cup Late(y))
          = Cardinality(Early(x)) + Cardinality(Late(y)) - Cardinality(Early(x) \cap Late(y))
    BY <2>1, FS_Union
  <2>. QED BY <2>2, <2>4, <2>5
<1>3. \A x : {t \in RowIndices : StartsAt(x, t)} = Early(x) \cup Late(x)
  OBVIOUS
<1>4. /\ {t \in RowIndices : StartsAt(Joined(p, q, r), t)} = Early(p) \cup Late(q)
      /\ {t \in RowIndices : StartsAt(Joined(q, p, r), t)} = Early(q) \cup Late(p)
  <2>1. \A t \in RowIndices :
          /\ StartsAt(Joined(p, q, r), t) <=> StartsAt(IF t < r THEN p ELSE q, t)
          /\ StartsAt(Joined(q, p, r), t) <=> StartsAt(IF t < r THEN q ELSE p, t)
    BY StartsOfJoined
  <2>. QED BY <2>1
<1> HIDE DEF Early, Late
<1>5. /\ Starts(p) = Cardinality(Early(p)) + Cardinality(Late(p))
      /\ Starts(q) = Cardinality(Early(q)) + Cardinality(Late(q))
      /\ Starts(Joined(p, q, r)) = Cardinality(Early(p)) + Cardinality(Late(q))
      /\ Starts(Joined(q, p, r)) = Cardinality(Early(q)) + Cardinality(Late(p))
  BY <1>2, <1>3, <1>4 DEF Starts
<1>6. /\ Cardinality(Early(p)) \in Nat /\ Cardinality(Late(p)) \in Nat
      /\ Cardinality(Early(q)) \in Nat /\ Cardinality(Late(q)) \in Nat
  BY <1>2
<1>. QED BY <1>5, <1>6

(* What is fixed in a tower is what a schedule that fits the column does.   *)
LEMMA FitsTower ==
  ASSUME HeightAssumption, NEW r \in Nat, NEW k \in Cols, NEW p, FitsColumn(p, k, r)
  PROVE  /\ k \in Down(r) => r >= zeroheight /\ DownBefore(p, r)
         /\ k \in Up(r) => r >= oneheight /\ UpBefore(p, r)
<1>1. ASSUME NEW h \in Nat, r >= h, NEW g \in r - h .. r - 1 PROVE g \in 0 .. r - 1
  BY <1>1
<1>2. zeroheight \in Nat /\ oneheight \in Nat
  BY DEF HeightAssumption
<1>3. ASSUME k \in Down(r) PROVE r >= zeroheight /\ DownBefore(p, r)
  <2>1. Tower(dom, k, r, zeroheight, "zero")
    BY <1>3 DEF Down
  <2>. QED BY <1>1, <1>2, <2>1 DEF Tower, FitsColumn, DownBefore
<1>4. ASSUME k \in Up(r) PROVE r >= oneheight /\ UpBefore(p, r)
  <2>1. Tower(dom, k, r, oneheight, "one")
    BY <1>4 DEF Up
  <2>. QED BY <1>1, <1>2, <2>1 DEF Tower, FitsColumn, UpBefore
<1>. QED BY <1>3, <1>4

(* Two units of a submatrix that is handed out may exchange what they do    *)
(* from its first row on: both schedules stay schedules, with as many       *)
(* starts as before.                                                        *)
THEOREM TailsExchangeable ==
  ASSUME SizeAssumption, HeightAssumption, MatrixAssumption
  PROVE  Spec => []TailsMayBeExchanged
<1>1. ASSUME Typed, ListExact, pc = "returned",
             NEW s \in Range(found), NEW b \in Range(s.cols), NEW c \in Range(s.cols),
             NEW p \in Schedules, NEW q \in Schedules,
             FitsColumn(p, b, s.first), FitsColumn(q, c, s.first)
      PROVE  /\ Schedule(Joined(p, q, s.first)) /\ Schedule(Joined(q, p, s.first))
             /\ Starts(Joined(p, q, s.first)) + Starts(Joined(q, p, s.first))
                  = Starts(p) + Starts(q)
  <2> DEFINE r == s.first
  <2>1. AsSet(s) \in Listed(found)
    BY DEF Range, Listed
  <2>2. AsSet(s) \in SubSets /\ AsSet(s).cols \in {Down(AsSet(s).first), Up(AsSet(s).first)}
    BY <1>1, <2>1, ListedIsSymmetric
  <2>3. AsSet(s).first = r /\ AsSet(s).cols = Range(s.cols)
    BY DEF AsSet
  <2>4. r \in RowIndices /\ Range(s.cols) \in {Down(r), Up(r)}
    BY <2>2, <2>3 DEF SubSets
  <2>5. r \in Int /\ zeroheight \in Int /\ oneheight \in Int /\ RowIndices = 0 .. M - 1
    BY <2>4 DEF RowIndices, SizeAssumption, HeightAssumption
  <2> HIDE DEF r
  <2>6. r \in Nat /\ b \in Cols /\ c \in Cols
    BY <2>4, <2>5 DEF Down, Up
  <2>7. \/ r >= zeroheight /\ DownBefore(p, r) /\ DownBefore(q, r)
        \/ r >= oneheight /\ UpBefore(p, r) /\ UpBefore(q, r)
    BY <1>1, <2>4, <2>6, FitsTower DEF r
  <2>8. r > 0 /\ p[r - 1] = q[r - 1] /\ Schedule(Joined(p, q, r)) /\ Schedule(Joined(q, p, r))
    BY <2>4, <2>7, JoinedIsSchedule
  <2>9. Starts(Joined(p, q, r)) + Starts(Joined(q, p, r)) = Starts(p) + Starts(q)
    BY <2>4, <2>8, StartsKept
  <2>. QED BY <2>8, <2>9 DEF r
<1>2. IInv => TailsMayBeExchanged
  BY <1>1 DEF IInv, TailsMayBeExchanged, Schedules
<1>. QED BY <1>2, Invariant, PTL
===============================================================================
