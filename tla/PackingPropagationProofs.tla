----------------------- MODULE PackingPropagationProofs -----------------------
(***************************************************************************)
(* Orbitopal fixing is sound, for matrices of every size and all bounds,   *)
(* and of the whole matrix it overlooks nothing.                           *)
(*                                                                         *)
(* The argument is that of the paper the code follows.  The frontier       *)
(* (lastones) bounds the column of the one in each row of every point that *)
(* the bounds admit, because the first one of a column is below the first  *)
(* one of the column to its left; the first non-zero (firstnonzeros) bounds *)
(* it from below; and while the look-ahead supposes that a step is not     *)
(* taken, beta bounds it for the points that do not take the step.         *)
(***************************************************************************)
EXTENDS PackingPropagation, FiniteSetTheorems, WellFoundedInduction, TLAPS

-------------------------------------------------------------------------------
(***************************************************************************)
(* Points, bounds and the operators of the module.                         *)
(***************************************************************************)

(* A set of natural numbers that is not empty has a smallest element. *)
LEMMA MinExists ==
  ASSUME NEW S, S \subseteq Nat, S # {}
  PROVE  \E x \in S : \A y \in S : x <= y
<1> DEFINE R == {ss \in Nat \X Nat : ss[1] < ss[2]}
<1>1. IsWellFoundedOn(R, Nat)
  BY NatLessThanWellFounded DEF OpToRel
<1>2. PICK x \in S : \A y \in S : ~(<<y, x>> \in R)
  BY <1>1, WFMin
<1>3. ASSUME NEW y \in S PROVE x <= y
  <2>1. ~(<<y, x>> \in R) /\ x \in Nat /\ y \in Nat
    BY <1>2
  <2>2. x > y => <<y, x>> \in R
    BY <2>1
  <2> QED BY <2>1, <2>2
<1> QED BY <1>2, <1>3

(* Fixing entries yields bounds. *)
LEMMA FixType ==
  ASSUME NEW d \in Bounds, NEW E, NEW v \in Dom
  PROVE  Fix(d, E, v) \in Bounds
BY DEF Fix, Bounds

(* Fixing free entries tightens the bounds. *)
LEMMA FixTightens ==
  ASSUME NEW d \in Bounds, NEW E, NEW F, F \subseteq Free(d, E), NEW v \in Dom
  PROVE  Tightens(Fix(d, F, v), d)
<1>1. \A r \in Rows, c \in Cols :
        Fix(d, F, v)[r][c] = IF <<r, c>> \in F THEN v ELSE d[r][c]
  BY DEF Fix
<1>2. \A r \in Rows, c \in Cols : <<r, c>> \in F => d[r][c] = "free"
  BY DEF Free
<1> QED BY <1>1, <1>2 DEF Tightens

(* A point that avoids a set of entries survives fixing them to zero. *)
LEMMA FixKeeps ==
  ASSUME NEW d \in Bounds, NEW p, Fits(p, d), NEW E,
         \A r \in Rows, c \in Cols : <<r, c>> \in E => p[r] # c
  PROVE  Fits(p, Fix(d, E, "zero"))
<1>1. \A r \in Rows, c \in Cols :
        Fix(d, E, "zero")[r][c] = IF <<r, c>> \in E THEN "zero" ELSE d[r][c]
  BY DEF Fix
<1> QED BY <1>1 DEF Fits

(* The column of the one in each row of a point. *)
LEMMA PointType ==
  ASSUME NEW t \in Types, NEW p \in Orbitope[t], NEW r \in Rows
  PROVE  /\ p[r] \in -1 .. NCols - 1
         /\ t = "partitioning" => p[r] \in Cols
BY SizeAssumption DEF Orbitope, Placements, Cols

(* Lexicographic order puts a one of the column to the left above each one. *)
LEMMA OneAbove ==
  ASSUME NEW t \in Types, NEW p \in Orbitope[t], NEW r \in Rows, p[r] > 0
  PROVE  \E q \in 0 .. r - 1 : p[q] = p[r] - 1
<1> DEFINE c == p[r]
<1>1. c \in 1 .. NCols - 1 /\ r \in 0 .. NRows - 1
  BY PointType, SizeAssumption DEF Rows
<1>2. LexGeq(p, c - 1, c)
  BY <1>1 DEF Orbitope
<1>3. Entry(p, r, c - 1) = 0 /\ Entry(p, r, c) = 1
  BY <1>1 DEF Entry
<1>4. PICK s \in Rows : /\ Entry(p, s, c - 1) > Entry(p, s, c)
                        /\ \A q \in 0 .. s - 1 : Entry(p, q, c - 1) = Entry(p, q, c)
  BY <1>2, <1>3 DEF LexGeq
<1>5. p[s] = c - 1
  BY <1>4 DEF Entry
<1>6. s < r
  <2>1. s # r
    BY <1>3, <1>4
  <2>2. ~(r < s)
    BY <1>1, <1>3, <1>4 DEF Rows
  <2> QED BY <2>1, <2>2, SizeAssumption DEF Rows
<1> QED BY <1>5, <1>6, SizeAssumption DEF Rows

(* No point has a one above the diagonal. *)
LEMMA BelowDiagonal ==
  ASSUME NEW t \in Types, NEW p \in Orbitope[t], NEW r \in Rows
  PROVE  p[r] <= r
<1> DEFINE High == {q \in Rows : p[q] > q}
<1>1. SUFFICES ASSUME High # {} PROVE FALSE
  BY PointType, SizeAssumption DEF Rows
<1>2. PICK q \in High : \A y \in High : q <= y
  <2>1. High \subseteq Nat
    BY SizeAssumption DEF Rows
  <2> QED BY <1>1, <2>1, MinExists
<1>3. q \in Rows /\ q \in Nat /\ p[q] > q /\ p[q] \in Int
  BY PointType, SizeAssumption DEF Rows
<1>4. PICK y \in 0 .. q - 1 : p[y] = p[q] - 1
  BY <1>3, OneAbove
<1>5. y \in High
  BY <1>3, <1>4, SizeAssumption DEF Rows
<1> QED BY <1>2, <1>3, <1>4, <1>5

(* One row down, the one is at most one column further. *)
LEMMA NextColumn ==
  ASSUME NEW t \in Types, NEW p \in Orbitope[t], NEW r \in Rows,
         NEW l \in -1 .. NCols - 1, \A q \in 0 .. r - 1 : p[q] <= l
  PROVE  p[r] <= l + 1
<1>1. p[r] \in -1 .. NCols - 1
  BY PointType
<1>2. CASE p[r] > 0
  <2>1. PICK q \in 0 .. r - 1 : p[q] = p[r] - 1
    BY <1>2, OneAbove
  <2> QED BY <1>1, <2>1, SizeAssumption
<1>3. CASE p[r] <= 0
  BY <1>1, <1>3, SizeAssumption
<1> QED BY <1>1, <1>2, <1>3, SizeAssumption

(* One row down, the one is at most where the frontier is. *)
LEMMA AdvanceBounds ==
  ASSUME type \in Types, dom \in Bounds,
         NEW p \in Orbitope[type], Fits(p, dom), NEW r \in Rows,
         NEW l \in -1 .. NCols - 1, \A q \in 0 .. r - 1 : p[q] <= l
  PROVE  p[r] <= Advance(r, l)
<1>1. p[r] \in -1 .. NCols - 1
  BY PointType
<1>2. p[r] <= l + 1
  BY NextColumn
<1>3. ASSUME Blocked(r, l) PROVE p[r] <= l
  <2>1. CASE l = NCols - 1
    BY <1>1, <2>1, SizeAssumption
  <2>2. CASE l # NCols - 1 /\ dom[r][l + 1] = "zero"
    <3>1. l + 1 \in Cols
      BY <2>2, SizeAssumption DEF Cols
    <3>2. p[r] # l + 1
      BY <2>2, <3>1 DEF Fits
    <3> QED BY <1>1, <1>2, <3>2, SizeAssumption
  <2> QED BY <1>3, <2>1, <2>2 DEF Blocked
<1> QED BY <1>2, <1>3, SizeAssumption DEF Advance

(* The frontier moves by at most one column, and stays in the matrix. *)
LEMMA AdvanceType ==
  ASSUME NEW r \in Rows, NEW l \in -1 .. NCols - 1
  PROVE  /\ Advance(r, l) \in -1 .. NCols - 1
         /\ Blocked(r, l) => Advance(r, l) = l
         /\ ~Blocked(r, l) => Advance(r, l) = l + 1 /\ l < NCols - 1
BY SizeAssumption DEF Advance, Blocked

LEMMA FirstNonzeroType ==
  ASSUME NEW r \in Rows
  PROVE  /\ FirstNonzero(r) \in -1 .. LastColumn(r)
         /\ FirstNonzero(r) # -1 => FirstNonzero(r) \in FirstCandidates(r)
         /\ \A c \in FirstCandidates(r) : FirstNonzero(r) <= c
         /\ LastColumn(r) \in Cols /\ LastColumn(r) <= r
<1>0. LastColumn(r) \in Cols /\ LastColumn(r) <= r /\ LastColumn(r) \in Nat
  BY SizeAssumption DEF LastColumn, Rows, Cols
<1>1. FirstCandidates(r) \subseteq 0 .. LastColumn(r)
  BY DEF FirstCandidates
<1>2. CASE FirstCandidates(r) = {}
  BY <1>0, <1>2 DEF FirstNonzero
<1>3. CASE FirstCandidates(r) # {}
  <2>1. FirstCandidates(r) \subseteq Nat
    BY <1>0, <1>1
  <2>2. \E c \in FirstCandidates(r) : \A b \in FirstCandidates(r) : c <= b
    BY <1>3, <2>1, MinExists
  <2>3. /\ FirstNonzero(r) \in FirstCandidates(r)
        /\ \A b \in FirstCandidates(r) : FirstNonzero(r) <= b
    BY <1>3, <2>2 DEF FirstNonzero
  <2> QED BY <1>0, <1>1, <2>3
<1> QED BY <1>2, <1>3

(* The one of a row is not to the left of the first non-zero. *)
LEMMA FirstNonzeroBounds ==
  ASSUME type \in Types, dom \in Bounds,
         NEW p \in Orbitope[type], Fits(p, dom), NEW r \in Rows
  PROVE  /\ FirstNonzero(r) <= p[r]
         /\ type = "partitioning" => FirstNonzero(r) # -1
<1>1. p[r] \in -1 .. NCols - 1 /\ p[r] <= r
  BY PointType, BelowDiagonal
<1>2. CASE type = "partitioning"
  <2>1. p[r] \in Cols /\ p[r] \in 0 .. LastColumn(r)
    BY <1>1, <1>2, PointType, SizeAssumption DEF LastColumn, Cols, Rows
  <2>2. dom[r][p[r]] # "zero"
    BY <2>1 DEF Fits
  <2>3. p[r] \in FirstCandidates(r)
    BY <1>2, <2>1, <2>2 DEF FirstCandidates
  <2>4. FirstNonzero(r) # -1
    <3>1. FirstNonzero(r) \in FirstCandidates(r)
      BY <2>3, FirstNonzeroType DEF FirstNonzero
    <3> QED BY <3>1, FirstNonzeroType, SizeAssumption DEF FirstCandidates, Cols
  <2> QED BY <2>3, <2>4, FirstNonzeroType
<1>3. CASE type # "partitioning"
  <2>1. CASE FirstNonzero(r) = -1
    BY <1>1, <1>3, <2>1, SizeAssumption
  <2>2. CASE FirstNonzero(r) # -1
    <3>1. FirstNonzero(r) \in FirstCandidates(r)
      BY <2>2, FirstNonzeroType
    <3>2. FirstNonzero(r) \in Cols /\ dom[r][FirstNonzero(r)] = "one"
      BY <1>3, <3>1, FirstNonzeroType, SizeAssumption DEF FirstCandidates, Cols
    <3>3. p[r] = FirstNonzero(r)
      BY <3>2 DEF Fits
    <3> QED BY <1>1, <1>3, <3>3, SizeAssumption
  <2> QED BY <2>1, <2>2
<1> QED BY <1>2, <1>3
(* The entries of the matrix can be counted. *)
LEMMA EntriesFinite ==
  ASSUME NEW E, E \subseteq Rows \X Cols
  PROVE  IsFiniteSet(E) /\ Cardinality(E) \in Nat
<1>1. IsFiniteSet(Rows) /\ IsFiniteSet(Cols)
  BY FS_Interval, SizeAssumption DEF Rows, Cols
<1>2. IsFiniteSet(Rows \X Cols)
  BY <1>1, FS_Product
<1> QED BY <1>2, FS_Subset, FS_CardinalityType

-------------------------------------------------------------------------------
(***************************************************************************)
(* The first layer of the invariant: types, and which cells are written.   *)
(***************************************************************************)

First == IF Submatrix THEN 0 ELSE 1

VarTypes ==
  /\ type \in Types /\ dom0 \in Matrices /\ dom \in Bounds
  /\ pc \in {"idle", "triangle", "rows", "steps", "scan", "done"}
  /\ i \in 0 .. NRows /\ last \in -1 .. NCols - 1 /\ beta \in -1 .. NCols - 1
  /\ infeasible \in BOOLEAN /\ nfixed \in Nat /\ conflict \subseteq BoundOnEntry

Arrays ==
  /\ lastones \in [DOMAIN lastones -> -1 .. NCols - 1] /\ DOMAIN lastones \subseteq Rows
  /\ firstnz \in [DOMAIN firstnz -> -1 .. NCols - 1] /\ DOMAIN firstnz \subseteq Rows
  /\ steps \in Seq(Rows)
  /\ \A h \in 1 .. Len(steps) : steps[h] \in DOMAIN lastones /\ lastones[steps[h]] >= 0

Places ==
  /\ k \in 1 .. Len(steps) + 1
  /\ pc \in {"idle", "triangle"} =>
       /\ dom = dom0 /\ k = 1 /\ steps = <<>> /\ conflict = {}
       /\ lastones = Unwritten /\ firstnz = Unwritten
       /\ infeasible = FALSE /\ nfixed = 0
  /\ pc = "rows" =>
       /\ First <= i /\ k = 1 /\ conflict = {}
       /\ DOMAIN lastones = {0} \cup 0 .. i - 1 /\ DOMAIN firstnz = First .. i - 1
       /\ \A h \in 1 .. Len(steps) : steps[h] < i
  /\ pc \in {"steps", "scan"} =>
       /\ DOMAIN lastones = Rows /\ DOMAIN firstnz = First .. NRows - 1
       /\ conflict = {}
  /\ pc = "scan" => k <= Len(steps) /\ steps[k] < i

Control == VarTypes /\ Arrays /\ Places

(* What the frontier's move into row i does to the arrays. *)
LEMMA MoveType ==
  ASSUME Control, pc = "rows", i < NRows, MoveFrontier
  PROVE  /\ lastones' \in [0 .. i -> -1 .. NCols - 1]
         /\ firstnz' \in [First .. i -> -1 .. NCols - 1]
         /\ \A r \in 0 .. i : lastones'[r] = IF r = i THEN Advance(i, last) ELSE lastones[r]
         /\ \A r \in First .. i : firstnz'[r] = IF r = i THEN FirstNonzero(i) ELSE firstnz[r]
         /\ steps' \in Seq(Rows) /\ Len(steps) <= Len(steps') /\ Len(steps') \in Nat
         /\ \A h \in 1 .. Len(steps') : steps'[h] \in 0 .. i /\ lastones'[steps'[h]] >= 0
<1>1. i \in Rows /\ i \in Nat /\ First \in {0, 1} /\ First <= i
  BY SizeAssumption DEF Control, VarTypes, Arrays, Places, Rows, First
<1>2. Advance(i, last) \in -1 .. NCols - 1
  BY <1>1, AdvanceType DEF Control, VarTypes, Arrays, Places
<1>3. FirstNonzero(i) \in -1 .. NCols - 1
  BY <1>1, FirstNonzeroType, SizeAssumption DEF Cols
<1>4. DOMAIN lastones \cup {i} = 0 .. i /\ DOMAIN firstnz \cup {i} = First .. i
  BY <1>1 DEF Control, VarTypes, Arrays, Places
<1>5. /\ lastones' \in [0 .. i -> -1 .. NCols - 1]
      /\ \A r \in 0 .. i : lastones'[r] = IF r = i THEN Advance(i, last) ELSE lastones[r]
  BY <1>2, <1>4 DEF MoveFrontier, Control, VarTypes, Arrays, Places
<1>6. /\ firstnz' \in [First .. i -> -1 .. NCols - 1]
      /\ \A r \in First .. i : firstnz'[r] = IF r = i THEN FirstNonzero(i) ELSE firstnz[r]
  BY <1>3, <1>4 DEF MoveFrontier, Control, VarTypes, Arrays, Places
<1>7. \A h \in 1 .. Len(steps) : /\ steps[h] \in 0 .. i /\ steps[h] # i
                                 /\ lastones'[steps[h]] >= 0
  BY <1>1, <1>5 DEF Control, VarTypes, Arrays, Places
<1>8. CASE Blocked(i, last)
  <2>1. steps' = steps
    BY <1>8 DEF MoveFrontier
  <2> QED BY <1>5, <1>6, <1>7, <2>1 DEF Control, VarTypes, Arrays, Places
<1>9. CASE ~Blocked(i, last)
  <2>1. steps' = Append(steps, i)
    BY <1>9 DEF MoveFrontier
  <2>2. /\ steps' \in Seq(Rows) /\ Len(steps') = Len(steps) + 1 /\ Len(steps) \in Nat
        /\ steps'[Len(steps) + 1] = i
        /\ \A h \in 1 .. Len(steps) : steps'[h] = steps[h]
    BY <1>1, <2>1 DEF Control, VarTypes, Arrays, Places
  <2>3. lastones'[i] >= 0
    BY <1>1, <1>5, <1>9, AdvanceType DEF Control, VarTypes, Arrays, Places
  <2>4. ASSUME NEW h \in 1 .. Len(steps')
        PROVE  steps'[h] \in 0 .. i /\ lastones'[steps'[h]] >= 0
    <3>1. CASE h = Len(steps) + 1
      BY <1>1, <2>2, <2>3, <3>1
    <3>2. CASE h # Len(steps) + 1
      <4>1. h \in 1 .. Len(steps)
        BY <2>2, <3>2
      <4> QED BY <1>7, <2>2, <4>1
    <3> QED BY <3>1, <3>2
  <2> QED BY <1>5, <1>6, <2>2, <2>4
<1> QED BY <1>8, <1>9

(* The reasons for the frontier's place are bounds on entries. *)
LEMMA ReasonType ==
  ASSUME Control, pc = "rows", i < NRows
  PROVE  FrontierReason \subseteq BoundOnEntry
<1>1. i \in Rows /\ i \in Nat
  BY SizeAssumption DEF Control, VarTypes, Arrays, Places, Rows
<1>2. ASSUME NEW q \in 1 .. i - 1, lastones[q] + 1 <= LastColumn(q)
      PROVE  <<q, lastones[q] + 1, "zero">> \in BoundOnEntry
  <2>1. q \in Rows /\ q \in DOMAIN lastones
    BY <1>1, SizeAssumption DEF Rows, Control, VarTypes, Arrays, Places
  <2>2. lastones[q] \in -1 .. NCols - 1
    BY <2>1 DEF Control, VarTypes, Arrays, Places
  <2>3. LastColumn(q) \in Cols
    BY <2>1, FirstNonzeroType
  <2>4. lastones[q] + 1 \in Cols
    BY <1>2, <2>2, <2>3, SizeAssumption DEF Cols
  <2> QED BY <2>1, <2>4 DEF BoundOnEntry
<1>3. <<0, 0, "zero">> \in BoundOnEntry
  BY SizeAssumption DEF BoundOnEntry, Rows, Cols
<1> QED BY <1>2, <1>3 DEF FrontierReason
(* Control is an invariant. *)
LEMMA ControlInvariant == Spec => []Control
<1> USE SizeAssumption
<1>1. Init => Control
  <2> SUFFICES ASSUME Init PROVE Control
    OBVIOUS
  <2>1. type \in Types /\ dom0 \in Matrices /\ dom \in Bounds
    BY TypeAssumption, MatrixAssumption DEF Init, SomeType, SomeMatrix
  <2>2. /\ lastones \in [DOMAIN lastones -> -1 .. NCols - 1] /\ DOMAIN lastones = {}
        /\ firstnz \in [DOMAIN firstnz -> -1 .. NCols - 1] /\ DOMAIN firstnz = {}
    BY DEF Init, Unwritten
  <2>3. steps \in Seq(Rows) /\ Len(steps) = 0
    BY DEF Init
  <2>4. infeasible \in BOOLEAN
    BY DEF Init
  <2>5. i \in 0 .. NRows /\ last \in -1 .. NCols - 1 /\ beta \in -1 .. NCols - 1
    BY DEF Init
  <2>6. VarTypes
    BY <2>1, <2>4, <2>5 DEF Init, VarTypes
  <2>7. Arrays
    BY <2>2, <2>3 DEF Arrays
  <2>8. Places
    BY <2>3 DEF Init, Places
  <2> QED BY <2>6, <2>7, <2>8 DEF Control
<1>2. Control /\ [Next]_vars => Control'
  <2> SUFFICES ASSUME Control, [Next]_vars PROVE Control'
    OBVIOUS
  <2>0. Len(steps) \in Nat /\ First \in {0, 1}
    BY DEF Control, VarTypes, Arrays, Places, First
  <2>1. CASE Call
    <3>1. dom' \in Bounds
      BY <2>1, MatrixAssumption DEF Call
    <3> QED BY <2>1, <3>1 DEF Control, VarTypes, Arrays, Places, Call
  <2>2. CASE NotAllowed
    BY <2>2 DEF Control, VarTypes, Arrays, Places, NotAllowed
  <2>3. CASE Triangle
    <3>1. dom' \in Bounds
      BY <2>3, FixType DEF Triangle, Control, VarTypes, Arrays, Places, Dom
    <3>2. nfixed' \in Nat
      <4>1. FreeBeforeOne(dom, Upper) \subseteq Rows \X Cols
        BY DEF FreeBeforeOne, Free, Upper
      <4> QED BY <2>3, <4>1, EntriesFinite DEF Triangle
    <3>3. Corner \in -1 .. NCols - 1
      BY DEF Corner
    <3>4. lastones' \in [{0} -> -1 .. NCols - 1] /\ 0 \in Rows
      BY <2>3, <3>3 DEF Triangle, Rows
    <3>5. firstnz' = Unwritten /\ DOMAIN firstnz' = {} /\ steps' = <<>> /\ Len(steps') = 0
      BY <2>3 DEF Triangle, Control, VarTypes, Arrays, Places, Unwritten
    <3>6. firstnz' \in [{} -> -1 .. NCols - 1]
      BY <3>5 DEF Unwritten
    <3>7. i' = First /\ First .. First - 1 = {} /\ {0} \cup 0 .. First - 1 = {0}
      BY <2>0, <2>3 DEF Triangle, First
    <3>8. infeasible' \in BOOLEAN /\ conflict' = {} /\ k' = 1
      BY <2>3 DEF Triangle, Control, VarTypes, Arrays, Places
    <3>9. pc' \in {"rows", "done"} /\ last' = Corner
      BY <2>3 DEF Triangle
    <3>10. type' \in Types /\ dom0' \in Matrices /\ beta' \in -1 .. NCols - 1
      BY <2>3 DEF Triangle, Control, VarTypes, Arrays, Places
    <3>11. steps' \in Seq(Rows)
      BY <3>5
    <3>12. First \in 0 .. NRows
      BY <2>0
    <3>13. VarTypes'
      BY <3>1, <3>2, <3>3, <3>7, <3>8, <3>9, <3>10, <3>12 DEF VarTypes
    <3>14. Arrays'
      BY <3>4, <3>5, <3>6, <3>11 DEF Arrays
    <3>15. DOMAIN lastones' = {0}
      BY <3>4
    <3>16. Places'
      BY <2>0, <3>5, <3>7, <3>8, <3>9, <3>15 DEF Places
    <3> QED BY <3>13, <3>14, <3>16 DEF Control
  <2>4. CASE RowAllZero
    <3>1. infeasible' \in BOOLEAN
      BY <2>4 DEF RowAllZero
    <3> QED BY <2>4, <3>1 DEF Control, VarTypes, Arrays, Places, RowAllZero
  <2>5. CASE RowBeyond
    <3>1. pc = "rows" /\ i < NRows /\ MoveFrontier /\ i \in Rows /\ i \in Nat
      BY <2>5 DEF RowBeyond, Control, VarTypes, Arrays, Places, Rows
    <3>2. conflict' \subseteq BoundOnEntry
      <4>1. FirstNonzero(i) > Advance(i, last) /\ FirstNonzero(i) # -1
        BY <2>5, <3>1, AdvanceType, FirstNonzeroType DEF RowBeyond, Control, VarTypes, Arrays, Places
      <4>2. FirstNonzero(i) \in Cols /\ 0 .. FirstNonzero(i) - 1 \subseteq Cols
        BY <3>1, <4>1, FirstNonzeroType DEF Cols
      <4>3. {<<i, c, "zero">> : c \in 0 .. FirstNonzero(i) - 1} \subseteq BoundOnEntry
        BY <3>1, <4>2 DEF BoundOnEntry
      <4>4. {<<i, FirstNonzero(i), "one">>} \subseteq BoundOnEntry
        BY <3>1, <4>2 DEF BoundOnEntry
      <4> QED BY <2>5, <3>1, <4>3, <4>4, ReasonType DEF RowBeyond
    <3>3. infeasible' \in BOOLEAN
      BY <2>5 DEF RowBeyond
    <3>4. 0 .. i \subseteq Rows /\ First .. i \subseteq Rows
      BY <2>0, <3>1 DEF Rows
    <3>5. VarTypes'
      BY <2>5, <3>2, <3>3 DEF Control, VarTypes, RowBeyond
    <3>6. Arrays'
      BY <3>1, <3>4, MoveType DEF Arrays
    <3>7. Places'
      BY <2>0, <2>5, <3>1, MoveType DEF Control, Places, RowBeyond
    <3> QED BY <3>5, <3>6, <3>7 DEF Control
  <2>6. CASE RowBlocked
    <3>1. pc = "rows" /\ i < NRows /\ MoveFrontier /\ i \in Rows /\ i \in Nat
      BY <2>6 DEF RowBlocked, RowFits, Control, VarTypes, Arrays, Places, Rows
    <3>2. Beyond \subseteq Rows \X Cols
      BY <3>1, FirstNonzeroType, AdvanceType DEF Beyond, Control, VarTypes, Arrays, Places, Cols
    <3>3. conflict' \subseteq BoundOnEntry
      <4>1. PICK o \in Ones(dom, Beyond) :
              conflict' = FrontierReason \cup {<<o[1], o[2], "one">>}
        BY <2>6 DEF RowBlocked
      <4>2. o[1] \in Rows /\ o[2] \in Cols
        BY <3>2, <4>1 DEF Ones
      <4> QED BY <3>1, <4>1, <4>2, ReasonType DEF BoundOnEntry
    <3>4. infeasible' \in BOOLEAN
      BY <2>6 DEF RowBlocked
    <3>5. 0 .. i \subseteq Rows /\ First .. i \subseteq Rows
      BY <2>0, <3>1 DEF Rows
    <3>6. dom' \in Bounds
      BY <2>6, FixType DEF RowBlocked, Control, VarTypes, Arrays, Places, Dom
    <3>7. nfixed' \in Nat
      <4>1. FreeBeforeOne(dom, Beyond) \subseteq Rows \X Cols
        BY <3>2 DEF FreeBeforeOne, Free
      <4> QED BY <2>6, <4>1, EntriesFinite DEF RowBlocked, Control, VarTypes, Arrays, Places
    <3>8. VarTypes'
      BY <2>6, <3>3, <3>4, <3>6, <3>7 DEF Control, VarTypes, RowBlocked
    <3>9. Arrays'
      BY <3>1, <3>5, MoveType DEF Arrays
    <3>10. Places'
      BY <2>0, <2>6, <3>1, MoveType DEF Control, Places, RowBlocked
    <3> QED BY <3>8, <3>9, <3>10 DEF Control
  <2>7. CASE RowFix
    <3>1. pc = "rows" /\ i < NRows /\ MoveFrontier /\ i \in Rows /\ i \in Nat
      BY <2>7 DEF RowFix, RowFits, Control, VarTypes, Arrays, Places, Rows
    <3>2. Beyond \subseteq Rows \X Cols
      BY <3>1, FirstNonzeroType, AdvanceType DEF Beyond, Control, VarTypes, Arrays, Places, Cols
    <3>3. dom' \in Bounds
      BY <2>7, FixType DEF RowFix, Control, VarTypes, Arrays, Places, Dom
    <3>4. nfixed' \in Nat
      <4>1. Free(dom, Beyond) \cup Ones(dom, Beyond) \subseteq Rows \X Cols
        BY <3>2 DEF Free, Ones
      <4> QED BY <2>7, <4>1, EntriesFinite DEF RowFix, Control, VarTypes, Arrays, Places
    <3>5. infeasible' \in BOOLEAN
      BY <2>7, ModeAssumption DEF RowFix, Control, VarTypes, Arrays, Places
    <3>6. /\ i' = i + 1 /\ last' = Advance(i, last) /\ pc' = "rows" /\ k' = 1
          /\ conflict' = {} /\ UNCHANGED <<type, dom0, beta>>
      BY <2>7, <3>1 DEF RowFix, Control, VarTypes, Arrays, Places
    <3>7. last' \in -1 .. NCols - 1
      BY <3>1, <3>6, AdvanceType DEF Control, VarTypes, Arrays, Places
    <3>8. 0 .. i \subseteq Rows /\ First .. i \subseteq Rows /\ {0} \cup 0 .. i' - 1 = 0 .. i
          /\ First .. i' - 1 = First .. i /\ First <= i'
      BY <2>0, <3>1, <3>6 DEF Rows, Control, VarTypes, Arrays, Places
    <3>9. VarTypes'
      BY <3>1, <3>3, <3>4, <3>5, <3>6, <3>7 DEF Control, VarTypes
    <3>10. Arrays'
      BY <3>1, <3>8, MoveType DEF Arrays
    <3>11. \A h \in 1 .. Len(steps') : steps'[h] < i'
      BY <3>1, <3>6, MoveType
    <3>12. Places'
      BY <2>0, <3>1, <3>6, <3>8, <3>11, MoveType DEF Places
    <3> QED BY <3>9, <3>10, <3>12 DEF Control
  <2>8. CASE EndRows
    <3>1. DOMAIN lastones = Rows /\ DOMAIN firstnz = First .. NRows - 1
      BY <2>8 DEF EndRows, Control, VarTypes, Arrays, Places, Rows
    <3>2. VarTypes'
      BY <2>8 DEF Control, VarTypes, EndRows
    <3>3. Arrays'
      BY <2>8 DEF Control, Arrays, EndRows
    <3>4. Places'
      BY <2>0, <2>8, <3>1 DEF Control, Places, EndRows
    <3> QED BY <3>2, <3>3, <3>4 DEF Control
  <2>9. CASE StepFixed
    <3>1. VarTypes'
      BY <2>0, <2>9 DEF Control, VarTypes, StepFixed
    <3>2. Arrays'
      BY <2>9 DEF Control, Arrays, StepFixed
    <3>3. Places'
      BY <2>0, <2>9 DEF Control, Places, StepFixed
    <3> QED BY <3>1, <3>2, <3>3 DEF Control
  <2>10. CASE StepOpen
    <3>1. k \in 1 .. Len(steps) /\ steps[k] \in Rows /\ steps[k] \in DOMAIN lastones
      BY <2>0, <2>10 DEF Control, Arrays, Places, StepOpen
    <3>2. lastones[steps[k]] \in 0 .. NCols - 1
      BY <3>1 DEF Control, Arrays
    <3>3. i' \in 0 .. NRows /\ beta' \in -1 .. NCols - 1 /\ steps[k] < i'
      BY <2>10, <3>1, <3>2 DEF StepOpen, Rows
    <3>4. VarTypes'
      BY <2>0, <2>10, <3>3 DEF Control, VarTypes, StepOpen
    <3>5. Arrays'
      BY <2>10 DEF Control, Arrays, StepOpen
    <3>6. Places'
      BY <2>0, <2>10, <3>1, <3>3 DEF Control, Places, StepOpen
    <3> QED BY <3>4, <3>5, <3>6 DEF Control
  <2>11. CASE ScanRow
    <3>1. Advance(i, beta) \in -1 .. NCols - 1
      BY <2>11, AdvanceType DEF ScanRow, Control, VarTypes, Rows
    <3>2. k \in 1 .. Len(steps) /\ steps[k] \in Nat
      BY <2>0, <2>11 DEF ScanRow, Control, Arrays, Places, Rows
    <3>3. VarTypes'
      BY <2>0, <2>11, <3>1 DEF Control, VarTypes, ScanRow
    <3>4. Arrays'
      BY <2>11 DEF Control, Arrays, ScanRow
    <3>5. Places'
      BY <2>0, <2>11, <3>2 DEF Control, VarTypes, Places, ScanRow
    <3> QED BY <3>3, <3>4, <3>5 DEF Control
  <2>12. CASE ScanHit
    <3>1. dom' \in Bounds
      BY <2>12, FixType DEF ScanHit, Control, VarTypes, Dom
    <3>2. infeasible' \in BOOLEAN
      BY <2>12, ModeAssumption DEF ScanHit, Control, VarTypes
    <3>3. nfixed' \in Nat
      BY <2>12 DEF ScanHit, Control, VarTypes
    <3>4. VarTypes'
      BY <2>0, <2>12, <3>1, <3>2, <3>3 DEF Control, VarTypes, ScanHit
    <3>5. Arrays'
      BY <2>12 DEF Control, Arrays, ScanHit
    <3>6. Places'
      BY <2>0, <2>12 DEF Control, Places, ScanHit
    <3> QED BY <3>4, <3>5, <3>6 DEF Control
  <2>13. CASE ScanEnd
    <3>1. VarTypes'
      BY <2>0, <2>13 DEF Control, VarTypes, ScanEnd
    <3>2. Arrays'
      BY <2>13 DEF Control, Arrays, ScanEnd
    <3>3. Places'
      BY <2>0, <2>13 DEF Control, Places, ScanEnd
    <3> QED BY <3>1, <3>2, <3>3 DEF Control
  <2>14. CASE EndSteps
    <3>1. VarTypes'
      BY <2>0, <2>14 DEF Control, VarTypes, EndSteps
    <3>2. Arrays'
      BY <2>14 DEF Control, Arrays, EndSteps
    <3>3. Places'
      BY <2>0, <2>14 DEF Control, Places, EndSteps
    <3> QED BY <3>1, <3>2, <3>3 DEF Control
  <2>15. CASE Leave
    <3>1. type' \in Types /\ dom0' \in Matrices /\ dom' \in Bounds
      BY <2>15, TypeAssumption, MatrixAssumption DEF Leave, SomeType, SomeMatrix
    <3>2. /\ lastones' \in [DOMAIN lastones' -> -1 .. NCols - 1] /\ DOMAIN lastones' = {}
          /\ firstnz' \in [DOMAIN firstnz' -> -1 .. NCols - 1] /\ DOMAIN firstnz' = {}
      BY <2>15 DEF Leave, Unwritten
    <3>3. steps' \in Seq(Rows) /\ Len(steps') = 0
      BY <2>15 DEF Leave
    <3>8. infeasible' \in BOOLEAN
      BY <2>15 DEF Leave
    <3>9. i' \in 0 .. NRows /\ last' \in -1 .. NCols - 1 /\ beta' \in -1 .. NCols - 1
      BY <2>15 DEF Leave
    <3>4. VarTypes'
      BY <2>15, <3>1, <3>8, <3>9 DEF VarTypes, Leave
    <3>5. Arrays'
      BY <3>2, <3>3 DEF Arrays
    <3>6. k' = 1 /\ pc' = "idle" /\ dom' = dom0' /\ steps' = <<>> /\ conflict' = {}
          /\ lastones' = Unwritten /\ firstnz' = Unwritten
          /\ infeasible' = FALSE /\ nfixed' = 0
      BY <2>15 DEF Leave
    <3>7. Places'
      BY <3>3, <3>6 DEF Places
    <3> QED BY <3>4, <3>5, <3>7 DEF Control
  <2>16. CASE UNCHANGED vars
    <3>1. VarTypes'
      BY <2>16 DEF Control, VarTypes, vars
    <3>2. Arrays'
      BY <2>16 DEF Control, Arrays, vars
    <3>3. Places'
      BY <2>16 DEF Control, Places, vars
    <3> QED BY <3>1, <3>2, <3>3 DEF Control
  <2> QED
    BY <2>1, <2>2, <2>3, <2>4, <2>5, <2>6, <2>7, <2>8, <2>9, <2>10, <2>11,
       <2>12, <2>13, <2>14, <2>15, <2>16 DEF Next
<1> QED
  BY <1>1, <1>2, PTL DEF Spec

(* Every variable has its type, for every size of the matrix. *)
THEOREM TypeCorrect == Spec => []TypeOK
<1>1. Control => TypeOK
  BY DEF Control, VarTypes, Arrays, Places, TypeOK
<1> QED BY <1>1, ControlInvariant, PTL
-------------------------------------------------------------------------------
(***************************************************************************)
(* The second layer: the frontier stays in the bar and never moves back.   *)
(***************************************************************************)

(* The frontier in the rows dealt with: in the bar, and from row to row it  *)
(* stays or moves one column.                                              *)
Bar == \A r \in DOMAIN lastones : lastones[r] <= LastColumn(r)

Chain ==
  \A r \in DOMAIN lastones \ {0} :
    r - 1 \in DOMAIN lastones /\ lastones[r] \in {lastones[r - 1], lastones[r - 1] + 1}

(* Each frontier step reaches a column no row above has reached. *)
StepsMove ==
  /\ \A h \in 1 .. Len(steps) :
       /\ lastones[steps[h]] >= h - 1
       /\ \A q \in 0 .. steps[h] - 1 :
            q \in DOMAIN lastones /\ lastones[q] < lastones[steps[h]]
  /\ \A g, h \in 1 .. Len(steps) : g < h => lastones[steps[g]] < lastones[steps[h]]

AtRow ==
  pc = "rows" =>
    /\ \A r \in DOMAIN lastones : lastones[r] <= last
    /\ last = lastones[IF i = 0 THEN 0 ELSE i - 1]
    /\ Len(steps) <= last + 1

(* In a submatrix the triangle is zero when its rows are processed. *)
UpperZero ==
  Submatrix /\ pc \in {"rows", "steps", "scan"} =>
    \A r \in Rows, c \in Cols : c > r => dom[r][c] = "zero"

Frontier == Bar /\ Chain /\ StepsMove /\ AtRow /\ UpperZero

(* The frontier's move into row i stays in the bar. *)
LEMMA AdvanceInBar ==
  ASSUME Control, Frontier, pc = "rows", i < NRows
  PROVE  Advance(i, last) <= LastColumn(i)
<1> USE SizeAssumption
<1>1. i \in Rows /\ i \in Nat /\ last \in -1 .. NCols - 1
  BY DEF Control, VarTypes, Rows
<1>2. CASE i = 0
  <2>1. Submatrix /\ 0 \in DOMAIN lastones
    BY <1>1, <1>2, ModeAssumption DEF Control, Places, First
  <2>2. last <= LastColumn(0) /\ LastColumn(0) = 0
    BY <1>2, <2>1 DEF Frontier, Bar, AtRow, LastColumn
  <2>3. CASE last = -1
    BY <1>1, <1>2, <2>2, <2>3, AdvanceType
  <2>4. CASE last = 0 /\ NCols = 1
    BY <1>1, <1>2, <2>2, <2>4, AdvanceType
  <2>5. CASE last = 0 /\ NCols # 1
    <3>1. 1 \in Cols /\ 0 \in Rows
      BY <1>1, <1>2, <2>5 DEF Cols
    <3>2. dom[0][1] = "zero"
      BY <2>1, <3>1 DEF Frontier, UpperZero
    <3>3. Blocked(0, 0)
      BY <3>2 DEF Blocked
    <3> QED BY <1>2, <2>2, <2>5, <3>3 DEF Advance
  <2> QED BY <1>1, <2>2, <2>3, <2>4, <2>5
<1>3. CASE i > 0
  <2>1. i - 1 \in DOMAIN lastones /\ last = lastones[i - 1]
    BY <1>1, <1>3 DEF Control, Places, Frontier, AtRow
  <2>2. last <= LastColumn(i - 1)
    BY <2>1 DEF Frontier, Bar
  <2>3. last <= i - 1
    BY <1>1, <1>3, <2>2 DEF LastColumn
  <2>4. Advance(i, last) <= i /\ Advance(i, last) <= NCols - 1 /\ Advance(i, last) \in Int
    BY <1>1, <2>3, AdvanceType
  <2> QED BY <1>1, <2>4 DEF LastColumn
<1> QED BY <1>1, <1>2, <1>3

(* What the move preserves. *)
LEMMA MoveInBar ==
  ASSUME Control, Frontier, pc = "rows", i < NRows, MoveFrontier
  PROVE  /\ Bar' /\ Chain' /\ StepsMove'
         /\ \A r \in 0 .. i : lastones'[r] <= Advance(i, last)
         /\ Len(steps') <= Advance(i, last) + 1
<1> USE SizeAssumption
<1>1. i \in Rows /\ i \in Nat /\ last \in -1 .. NCols - 1
  BY DEF Control, VarTypes, Rows
<1>2. /\ DOMAIN lastones' = 0 .. i
      /\ lastones'[i] = Advance(i, last)
      /\ \A r \in 0 .. i : r # i => lastones'[r] = lastones[r]
  BY <1>1, MoveType
<1>3. DOMAIN lastones = {0} \cup 0 .. i - 1
  BY DEF Control, Places
<1>4. Advance(i, last) \in {last, last + 1} /\ Advance(i, last) \in -1 .. NCols - 1
  BY <1>1, AdvanceType
<1>5. \A r \in DOMAIN lastones : lastones[r] \in -1 .. NCols - 1 /\ lastones[r] <= last
  BY DEF Control, Arrays, Frontier, AtRow
<1>6. Bar'
  <2>1. ASSUME NEW r \in 0 .. i PROVE lastones'[r] <= LastColumn(r)
    <3>1. CASE r = i
      BY <1>2, <3>1, AdvanceInBar
    <3>2. CASE r # i
      <4>1. r \in DOMAIN lastones /\ lastones'[r] = lastones[r]
        BY <1>1, <1>2, <1>3, <3>2
      <4> QED BY <4>1 DEF Frontier, Bar
    <3> QED BY <3>1, <3>2
  <2> QED BY <1>2, <2>1 DEF Bar, LastColumn
<1>7. Chain'
  <2>1. ASSUME NEW r \in 0 .. i, r # 0
        PROVE  r - 1 \in 0 .. i /\ lastones'[r] \in {lastones'[r - 1], lastones'[r - 1] + 1}
    <3>1. r - 1 \in 0 .. i /\ r - 1 # i /\ lastones'[r - 1] = lastones[r - 1]
      BY <1>1, <1>2, <2>1
    <3>2. CASE r = i
      <4>1. last = lastones[i - 1]
        BY <2>1, <3>2 DEF Frontier, AtRow
      <4> QED BY <1>2, <1>4, <3>1, <3>2, <4>1
    <3>3. CASE r # i
      <4>1. r \in DOMAIN lastones \ {0} /\ lastones'[r] = lastones[r]
        BY <1>1, <1>2, <1>3, <2>1, <3>3
      <4> QED BY <3>1, <4>1 DEF Frontier, Chain
    <3> QED BY <3>2, <3>3
  <2> QED BY <1>2, <2>1 DEF Chain
<1>8. \A r \in 0 .. i : lastones'[r] <= Advance(i, last)
  <2>1. ASSUME NEW r \in 0 .. i, r # i PROVE lastones'[r] <= last
    BY <1>1, <1>2, <1>3, <1>5, <2>1
  <2>2. \A r \in 0 .. i : r # i => lastones'[r] \in -1 .. NCols - 1
    BY <1>1, <1>2, <1>3, <1>5
  <2> QED BY <1>1, <1>2, <1>4, <2>1, <2>2
<1>9. ASSUME NEW h \in 1 .. Len(steps)
      PROVE  /\ steps[h] \in 0 .. i - 1 /\ lastones'[steps[h]] = lastones[steps[h]]
             /\ lastones[steps[h]] \in Int /\ lastones[steps[h]] <= last
             /\ lastones[steps[h]] >= h - 1
             /\ \A q \in 0 .. steps[h] - 1 :
                  q \in 0 .. i /\ lastones'[q] < lastones'[steps[h]]
  <2>1. steps[h] \in DOMAIN lastones /\ steps[h] \in Rows /\ steps[h] < i
    BY DEF Control, Arrays, Places
  <2>2. steps[h] \in 0 .. i - 1
    BY <1>1, <2>1 DEF Rows
  <2>3. lastones'[steps[h]] = lastones[steps[h]]
    BY <1>1, <1>2, <2>2
  <2>4. ASSUME NEW q \in 0 .. steps[h] - 1
        PROVE  q \in 0 .. i /\ lastones'[q] < lastones'[steps[h]]
    <3>1. q \in 0 .. i /\ q # i
      BY <1>1, <2>2
    <3>2. lastones[q] < lastones[steps[h]]
      BY DEF Frontier, StepsMove
    <3> QED BY <1>2, <2>3, <3>1, <3>2
  <2> QED BY <1>5, <2>1, <2>2, <2>3, <2>4 DEF Frontier, StepsMove
<1>10. Len(steps) \in Nat /\ Len(steps) <= last + 1
  BY DEF Control, Arrays, Frontier, AtRow
<1>11. ASSUME NEW g \in 1 .. Len(steps), NEW h \in 1 .. Len(steps), g < h
       PROVE  lastones'[steps[g]] < lastones'[steps[h]]
  BY <1>9, <1>11 DEF Frontier, StepsMove
<1>12. StepsMove' /\ Len(steps') <= Advance(i, last) + 1
  <2>1. CASE Blocked(i, last)
    <3>1. steps' = steps /\ Advance(i, last) = last
      BY <1>1, <2>1, AdvanceType DEF MoveFrontier
    <3> QED BY <1>2, <1>9, <1>10, <1>11, <3>1 DEF StepsMove
  <2>2. CASE ~Blocked(i, last)
    <3>1. steps' = Append(steps, i) /\ Advance(i, last) = last + 1
      BY <1>1, <2>2, AdvanceType DEF MoveFrontier
    <3>2. /\ Len(steps') = Len(steps) + 1
          /\ steps'[Len(steps) + 1] = i
          /\ \A h \in 1 .. Len(steps) : steps'[h] = steps[h]
      BY <1>1, <3>1 DEF Control, Arrays
    <3>3. ASSUME NEW h \in 1 .. Len(steps')
          PROVE  /\ lastones'[steps'[h]] >= h - 1
                 /\ \A q \in 0 .. steps'[h] - 1 :
                      q \in 0 .. i /\ lastones'[q] < lastones'[steps'[h]]
      <4>1. CASE h = Len(steps) + 1
        <5>1. steps'[h] = i /\ lastones'[i] = last + 1
          BY <1>2, <3>1, <3>2, <4>1
        <5>2. ASSUME NEW q \in 0 .. i - 1 PROVE q \in 0 .. i /\ lastones'[q] < last + 1
          <6>1. q \in DOMAIN lastones /\ lastones'[q] = lastones[q]
            BY <1>1, <1>2, <1>3
          <6> QED BY <1>1, <1>5, <6>1
        <5>3. h - 1 <= last + 1
          BY <1>1, <1>10, <4>1
        <5> QED BY <5>1, <5>2, <5>3
      <4>2. CASE h # Len(steps) + 1
        <5>1. h \in 1 .. Len(steps)
          BY <1>10, <3>2, <4>2
        <5> QED BY <1>9, <3>2, <5>1
      <4> QED BY <4>1, <4>2
    <3>4. ASSUME NEW g \in 1 .. Len(steps'), NEW h \in 1 .. Len(steps'), g < h
          PROVE  lastones'[steps'[g]] < lastones'[steps'[h]]
      <4>1. g \in 1 .. Len(steps)
        BY <1>10, <3>2, <3>4
      <4>2. CASE h = Len(steps) + 1
        <5>1. steps'[h] = i /\ lastones'[i] = last + 1
          BY <1>2, <3>1, <3>2, <4>2
        <5>2. /\ steps'[g] = steps[g] /\ lastones'[steps[g]] = lastones[steps[g]]
              /\ lastones[steps[g]] \in Int /\ lastones[steps[g]] <= last
          BY <1>9, <3>2, <4>1
        <5> QED BY <1>1, <5>1, <5>2
      <4>3. CASE h # Len(steps) + 1
        <5>1. h \in 1 .. Len(steps)
          BY <1>10, <3>2, <4>3
        <5> QED BY <1>11, <3>2, <3>4, <4>1, <5>1
      <4> QED BY <4>2, <4>3
    <3>5. Len(steps') <= Advance(i, last) + 1
      BY <1>1, <1>10, <3>1, <3>2
    <3>6. StepsMove'
      BY <1>2, <3>3, <3>4 DEF StepsMove
    <3> QED BY <3>5, <3>6
  <2> QED BY <2>1, <2>2
<1> QED BY <1>6, <1>7, <1>8, <1>12
(* Frontier is an invariant. *)
LEMMA FrontierInvariant == Spec => []Frontier
<1> USE SizeAssumption
<1>1. Init => Frontier
  <2> SUFFICES ASSUME Init PROVE Frontier
    OBVIOUS
  <2>1. DOMAIN lastones = {} /\ Len(steps) = 0 /\ pc = "idle"
    BY DEF Init, Unwritten
  <2> QED BY <2>1 DEF Frontier, Bar, Chain, StepsMove, AtRow, UpperZero
<1>2. Control /\ Frontier /\ [Next]_vars => Frontier'
  <2> SUFFICES ASSUME Control, Frontier, [Next]_vars PROVE Frontier'
    OBVIOUS
  <2>1. CASE /\ UNCHANGED <<dom, lastones, steps>>
             /\ pc' = "rows" => UNCHANGED <<pc, i, last>>
             /\ pc' \in {"steps", "scan"} => pc \in {"rows", "steps", "scan"}
    BY <2>1 DEF Frontier, Bar, Chain, StepsMove, AtRow, UpperZero, LastColumn
  <2>2. CASE Call \/ Leave
    <3>1. DOMAIN lastones' = {} /\ Len(steps') = 0 /\ pc' \in {"idle", "triangle"}
      BY <2>2 DEF Call, Leave, Unwritten, Control, Places
    <3> QED BY <3>1 DEF Frontier, Bar, Chain, StepsMove, AtRow, UpperZero
  <2>3. CASE Triangle
    <3>1. DOMAIN lastones' = {0} /\ lastones'[0] = Corner /\ last' = Corner
          /\ Corner \in {-1, 0} /\ i' \in {0, 1}
      BY <2>3 DEF Triangle, Corner
    <3>2. Len(steps') = 0
      BY <2>3 DEF Triangle, Control, Places
    <3>3. UpperZero'
      <4>1. SUFFICES ASSUME Submatrix, pc' \in {"rows", "steps", "scan"},
                            NEW r \in Rows, NEW c \in Cols, c > r
                     PROVE  dom'[r][c] = "zero"
        BY DEF UpperZero
      <4>2. Ones(dom, Upper) = {}
        BY <2>3, <4>1 DEF Triangle
      <4>3. <<r, c>> \in Upper
        BY <4>1 DEF Upper
      <4>4. dom[r][c] \in Dom /\ dom[r][c] # "one"
        BY <4>2, <4>3 DEF Ones, Control, VarTypes, Bounds
      <4>5. dom[r][c] = "free" => <<r, c>> \in FreeBeforeOne(dom, Upper)
        BY <4>2, <4>3 DEF FreeBeforeOne, Free
      <4> QED BY <2>3, <4>4, <4>5 DEF Triangle, Fix, Dom
    <3>4. LastColumn(0) = 0
      BY DEF LastColumn
    <3>5. Bar' /\ Chain' /\ StepsMove' /\ AtRow'
      BY <3>1, <3>2, <3>4 DEF Bar, Chain, StepsMove, AtRow, LastColumn
    <3> QED BY <3>3, <3>5 DEF Frontier
  <2>4. CASE RowBeyond \/ RowBlocked
    <3>1. pc = "rows" /\ i < NRows /\ MoveFrontier /\ pc' = "done"
      BY <2>4 DEF RowBeyond, RowBlocked, RowFits
    <3> QED BY <3>1, MoveInBar DEF Frontier, AtRow, UpperZero
  <2>5. CASE RowFix
    <3>1. pc = "rows" /\ i < NRows /\ MoveFrontier /\ pc' = "rows"
          /\ last' = Advance(i, last) /\ i' = i + 1 /\ i \in Nat
      BY <2>5 DEF RowFix, RowFits, Control, VarTypes
    <3>2. DOMAIN lastones' = 0 .. i /\ lastones'[i] = Advance(i, last)
      BY <3>1, MoveType
    <3>3. AtRow'
      BY <3>1, <3>2, MoveInBar DEF AtRow
    <3>4. \A r \in Rows, c \in Cols : dom[r][c] = "zero" => dom'[r][c] = "zero"
      BY <2>5 DEF RowFix, Fix
    <3>5. UpperZero'
      BY <3>1, <3>4 DEF Frontier, UpperZero
    <3> QED BY <3>1, <3>3, <3>5, MoveInBar DEF Frontier
  <2>6. CASE ScanHit
    <3>1. \A r \in Rows, c \in Cols : dom[r][c] = "zero" => dom'[r][c] = "zero"
      BY <2>6 DEF ScanHit, Fix, Free
    <3>2. UpperZero'
      BY <2>6, <3>1 DEF ScanHit, Frontier, UpperZero
    <3> QED
      BY <2>6, <3>2 DEF ScanHit, Frontier, Bar, Chain, StepsMove, AtRow, LastColumn
  <2> QED
    BY <2>1, <2>2, <2>3, <2>4, <2>5, <2>6
    DEF Next, vars, NotAllowed, RowAllZero, EndRows, StepFixed, StepOpen, ScanRow,
        ScanEnd, EndSteps
<1> QED BY <1>1, <1>2, ControlInvariant, PTL DEF Spec

(* The buffers of the function are large enough, and the frontier moves     *)
(* from column to column, for every size of the matrix.                     *)
THEOREM FrontierStaysInBar == Spec => []FrontierInBar
<1>1. Control /\ Frontier => FrontierInBar
  <2> SUFFICES ASSUME Control, Frontier PROVE FrontierInBar
    OBVIOUS
  <2>1. Len(steps) \in Nat /\ DOMAIN steps = 1 .. Len(steps)
    BY DEF Control, Arrays
  <2>2. Len(steps) <= NCols
    <3>1. CASE Len(steps) = 0
      BY <3>1, SizeAssumption
    <3>2. CASE Len(steps) # 0
      <4>1. Len(steps) \in 1 .. Len(steps)
        BY <2>1, <3>2
      <4>2. lastones[steps[Len(steps)]] \in -1 .. NCols - 1
        BY <4>1 DEF Control, Arrays
      <4>3. lastones[steps[Len(steps)]] >= Len(steps) - 1
        BY <4>1 DEF Frontier, StepsMove
      <4> QED BY <2>1, <4>2, <4>3, SizeAssumption
    <3> QED BY <3>1, <3>2
  <2> QED BY <2>1, <2>2 DEF Control, Arrays, Frontier, Bar, StepsMove, FrontierInBar
<1> QED BY <1>1, ControlInvariant, FrontierInvariant, PTL
-------------------------------------------------------------------------------
(***************************************************************************)
(* The count of the fixings.                                               *)
(***************************************************************************)

Entries == Rows \X Cols

Changed(e, d) == {x \in Entries : e[x[1]][x[2]] # d[x[1]][x[2]]}

(* What is free now was free when the function was called. *)
FreeAllAlong(e, d) == \A x \in Entries : e[x[1]][x[2]] = "free" => d[x[1]][x[2]] = "free"

(* The entry the look-ahead supposes to be zero stays free while it looks.  *)
StillOpen == pc = "scan" => Free(dom, {Step}) = {Step}

(* Of the whole matrix the count is exact.  In a submatrix it counts also   *)
(* what it would have fixed: it never reports less than it did.             *)
Counted ==
  /\ FreeAllAlong(dom, dom0)
  /\ IF Submatrix THEN Cardinality(Changed(dom, dom0)) <= nfixed
     ELSE nfixed = Cardinality(Changed(dom, dom0))

(* Fixing free entries changes just these. *)
LEMMA FixCounts ==
  ASSUME NEW e, NEW d, NEW F, F \subseteq Free(e, Entries), NEW v \in {"zero", "one"},
         FreeAllAlong(e, d)
  PROVE  /\ FreeAllAlong(Fix(e, F, v), d)
         /\ Cardinality(F) \in Nat /\ Cardinality(Changed(e, d)) \in Nat
         /\ Cardinality(Changed(Fix(e, F, v), d)) = Cardinality(Changed(e, d)) + Cardinality(F)
<1>1. ASSUME NEW x \in Entries
      PROVE  /\ Fix(e, F, v)[x[1]][x[2]] = IF x \in F THEN v ELSE e[x[1]][x[2]]
             /\ x \in F => e[x[1]][x[2]] = "free" /\ d[x[1]][x[2]] = "free"
  <2>1. PICK r \in Rows, c \in Cols : x = <<r, c>>
    BY DEF Entries
  <2>2. Fix(e, F, v)[r][c] = IF <<r, c>> \in F THEN v ELSE e[r][c]
    BY DEF Fix
  <2>3. x \in F => e[x[1]][x[2]] = "free"
    BY DEF Free
  <2> QED BY <2>1, <2>2, <2>3 DEF FreeAllAlong
<1>2. FreeAllAlong(Fix(e, F, v), d)
  BY <1>1 DEF FreeAllAlong
<1>3. F \subseteq Entries
  BY DEF Free
<1>4. Changed(Fix(e, F, v), d) = Changed(e, d) \cup F
  <2>1. ASSUME NEW x \in Entries
        PROVE  x \in Changed(Fix(e, F, v), d) <=> x \in Changed(e, d) \cup F
    BY <1>1 DEF Changed
  <2>2. Changed(Fix(e, F, v), d) \subseteq Entries /\ Changed(e, d) \subseteq Entries
    BY DEF Changed
  <2> QED BY <1>3, <2>1, <2>2
<1>5. Changed(e, d) \cap F = {}
  BY <1>1 DEF Changed
<1>6. IsFiniteSet(F) /\ IsFiniteSet(Changed(e, d))
  BY <1>3, EntriesFinite DEF Changed, Entries
<1>7. /\ Cardinality(F) \in Nat /\ Cardinality(Changed(e, d)) \in Nat
      /\ Cardinality(Changed(e, d) \cup F) =
           Cardinality(Changed(e, d)) + Cardinality(F) - Cardinality(Changed(e, d) \cap F)
  BY <1>6, FS_Union, FS_CardinalityType
<1>8. Cardinality(Changed(e, d) \cap F) = 0
  BY <1>5, FS_EmptySet
<1> QED BY <1>2, <1>4, <1>7, <1>8

(* The entries that a row and the look-ahead fix are in the matrix.         *)
LEMMA BeyondInMatrix ==
  ASSUME i \in Rows, last \in -1 .. NCols - 1
  PROVE  Beyond \subseteq Entries
<1>1. LastColumn(i) \in Cols
  BY FirstNonzeroType
<1>2. Advance(i, last) \in -1 .. NCols - 1
  BY AdvanceType
<1> QED BY <1>1, <1>2, SizeAssumption DEF Beyond, Entries, Cols

LEMMA FewSteps ==
  ASSUME Control, Frontier
  PROVE  Len(steps) \in Nat /\ Len(steps) <= NCols
<1>1. Len(steps) \in Nat
  BY DEF Control, Arrays
<1>2. CASE Len(steps) = 0
  BY <1>2, SizeAssumption
<1>3. CASE Len(steps) # 0
  <2>1. Len(steps) \in 1 .. Len(steps)
    BY <1>1, <1>3
  <2>2. lastones[steps[Len(steps)]] \in -1 .. NCols - 1
    BY <2>1 DEF Control, Arrays
  <2>3. lastones[steps[Len(steps)]] >= Len(steps) - 1
    BY <2>1 DEF Frontier, StepsMove
  <2> QED BY <1>1, <2>2, <2>3, SizeAssumption
<1> QED BY <1>1, <1>2, <1>3

LEMMA StillOpenInvariant == Spec => []StillOpen
<1>1. Init => StillOpen
  BY DEF Init, StillOpen
<1>2. StillOpen /\ [Next]_vars => StillOpen'
  <2> SUFFICES ASSUME StillOpen, [Next]_vars, pc' = "scan" PROVE Free(dom', {Step'}) = {Step'}
    BY DEF StillOpen
  <2>1. CASE vars' = vars
    BY <2>1 DEF vars, StillOpen, Free, Step
  <2>2. CASE StepOpen
    <3>1. Step' = Step /\ dom' = dom /\ Free(dom, {Step}) # {}
      BY <2>2 DEF StepOpen, Step
    <3>2. Free(dom, {Step}) = {Step}
      BY <3>1 DEF Free
    <3> QED BY <3>1, <3>2
  <2>3. CASE ScanRow
    BY <2>3 DEF ScanRow, StillOpen, Free, Step
  <2> QED
    BY <2>1, <2>2, <2>3
    DEF Next, Call, NotAllowed, Triangle, RowAllZero, RowBeyond, RowBlocked, RowFix, EndRows, RowFits,
        StepFixed, ScanHit, ScanEnd, EndSteps, Leave
<1> QED BY <1>1, <1>2, PTL DEF Spec

(* A call starts with no change. *)
LEMMA NoChange ==
  ASSUME NEW d
  PROVE  FreeAllAlong(d, d) /\ Cardinality(Changed(d, d)) = 0
<1>1. Changed(d, d) = {}
  BY DEF Changed
<1> QED BY <1>1, FS_EmptySet DEF FreeAllAlong

LEMMA CountedInvariant == Spec => []Counted
<1>1. Init => Counted
  BY NoChange DEF Init, Counted
<1>2. Control /\ Frontier /\ StillOpen /\ Counted /\ [Next]_vars => Counted'
  <2> SUFFICES ASSUME Control, Frontier, StillOpen, Counted, [Next]_vars PROVE Counted'
    OBVIOUS
  <2>0. nfixed \in Nat /\ Submatrix \in BOOLEAN
    BY ModeAssumption DEF Control, VarTypes
  <2>1. CASE UNCHANGED <<dom, dom0, nfixed>>
    BY <2>1 DEF Counted
  <2>2. CASE Call
    <3>1. dom' = dom0' /\ nfixed' = 0
      BY <2>2 DEF Call, Control, Places
    <3> QED BY <3>1, NoChange DEF Counted
  <2>3. CASE Leave
    <3>1. dom' = dom0' /\ nfixed' = 0
      BY <2>3 DEF Leave
    <3> QED BY <3>1, NoChange DEF Counted
  <2>4. CASE Triangle
    <3>1. FreeBeforeOne(dom, Upper) \subseteq Free(dom, Entries)
      BY DEF FreeBeforeOne, Free, Upper, Entries
    <3>2. dom' = Fix(dom, FreeBeforeOne(dom, Upper), "zero") /\ dom0' = dom0 /\ dom = dom0
          /\ nfixed' = Cardinality(FreeBeforeOne(dom, Upper))
      BY <2>4 DEF Triangle, Control, Places
    <3>3. Cardinality(Changed(dom, dom0)) = 0
      BY <3>2, NoChange
    <3> HIDE DEF Counted
    <3>4. FreeAllAlong(dom, dom0)
      BY DEF Counted
    <3>5. /\ FreeAllAlong(dom', dom0)
          /\ Cardinality(FreeBeforeOne(dom, Upper)) \in Nat
          /\ Cardinality(Changed(dom', dom0)) = 0 + Cardinality(FreeBeforeOne(dom, Upper))
      BY <3>1, <3>2, <3>3, <3>4, FixCounts
    <3> QED BY <2>0, <3>2, <3>5 DEF Counted
  <2>5. CASE RowBlocked
    <3>1. i \in Rows /\ last \in -1 .. NCols - 1 /\ pc = "rows"
      BY <2>5, SizeAssumption DEF RowBlocked, RowFits, Control, VarTypes, Rows
    <3>2. Beyond \subseteq Entries
      BY <3>1, BeyondInMatrix
    <3>3. FreeBeforeOne(dom, Beyond) \subseteq Free(dom, Entries)
      BY <3>2 DEF FreeBeforeOne, Free
    <3>4. dom' = Fix(dom, FreeBeforeOne(dom, Beyond), "zero") /\ dom0' = dom0
          /\ nfixed' = nfixed + Cardinality(FreeBeforeOne(dom, Beyond))
      BY <2>5 DEF RowBlocked
    <3>5. FreeAllAlong(dom, dom0)
      BY DEF Counted
    <3>6. /\ FreeAllAlong(dom', dom0)
          /\ Cardinality(FreeBeforeOne(dom, Beyond)) \in Nat
          /\ Cardinality(Changed(dom, dom0)) \in Nat
          /\ Cardinality(Changed(dom', dom0)) =
               Cardinality(Changed(dom, dom0)) + Cardinality(FreeBeforeOne(dom, Beyond))
      BY <3>3, <3>4, <3>5, FixCounts
    <3> QED BY <2>0, <3>4, <3>6 DEF Counted
  <2>6. CASE RowFix
    <3>1. i \in Rows /\ last \in -1 .. NCols - 1 /\ pc = "rows"
      BY <2>6, SizeAssumption DEF RowFix, RowFits, Control, VarTypes, Rows
    <3>2. Beyond \subseteq Entries
      BY <3>1, BeyondInMatrix
    <3>3. Free(dom, Beyond) \subseteq Free(dom, Entries)
      BY <3>2 DEF Free
    <3>4. /\ dom' = Fix(dom, Free(dom, Beyond), "zero") /\ dom0' = dom0
          /\ nfixed' = nfixed + Cardinality(Free(dom, Beyond) \cup Ones(dom, Beyond))
          /\ ~Submatrix => Ones(dom, Beyond) = {}
      BY <2>6 DEF RowFix
    <3>5. FreeAllAlong(dom, dom0)
      BY DEF Counted
    <3>6. /\ FreeAllAlong(dom', dom0)
          /\ Cardinality(Free(dom, Beyond)) \in Nat
          /\ Cardinality(Changed(dom, dom0)) \in Nat
          /\ Cardinality(Changed(dom', dom0)) =
               Cardinality(Changed(dom, dom0)) + Cardinality(Free(dom, Beyond))
      BY <3>3, <3>4, <3>5, FixCounts
    <3>7. /\ IsFiniteSet(Free(dom, Beyond) \cup Ones(dom, Beyond))
          /\ Cardinality(Free(dom, Beyond) \cup Ones(dom, Beyond)) \in Nat
      <4>1. Free(dom, Beyond) \cup Ones(dom, Beyond) \subseteq Rows \X Cols
        BY <3>2 DEF Free, Ones, Entries
      <4> QED BY <4>1, EntriesFinite
    <3>8. Cardinality(Free(dom, Beyond)) <= Cardinality(Free(dom, Beyond) \cup Ones(dom, Beyond))
      BY <3>7, FS_Subset
    <3>9. CASE Submatrix
      BY <2>0, <3>4, <3>6, <3>7, <3>8, <3>9 DEF Counted
    <3>10. CASE ~Submatrix
      <4>1. Free(dom, Beyond) \cup Ones(dom, Beyond) = Free(dom, Beyond)
        BY <3>4, <3>10
      <4> QED BY <2>0, <3>4, <3>6, <3>10, <4>1 DEF Counted
    <3> QED BY <3>9, <3>10
  <2>7. CASE ScanHit
    <3>1. /\ pc = "scan" /\ i < NRows /\ i \in 0 .. NRows /\ k \in 1 .. Len(steps)
          /\ dom' = Fix(dom, Free(dom, Forced), "one") /\ dom0' = dom0 /\ nfixed' = nfixed + 1
      BY <2>7 DEF ScanHit, Control, VarTypes, Places
    <3>2. FreeAllAlong(dom, dom0)
      BY DEF Counted
    <3>3. CASE ~Submatrix
      <4>1. steps[k] \in Rows /\ lastones[steps[k]] \in Cols
        BY <3>1, SizeAssumption DEF Control, Arrays, Cols
      <4>2. Free(dom, Forced) = {Step} /\ Free(dom, Forced) \subseteq Free(dom, Entries)
        <5>1. Forced = {Step} /\ Step \in Entries
          BY <3>3, <4>1 DEF Forced, Step, Entries
        <5>2. Free(dom, {Step}) = {Step}
          BY <3>1 DEF StillOpen
        <5> QED BY <5>1, <5>2 DEF Free
      <4>3. Cardinality(Free(dom, Forced)) = 1
        BY <4>2, FS_Singleton
      <4>4. /\ FreeAllAlong(dom', dom0)
            /\ Cardinality(Changed(dom', dom0)) = Cardinality(Changed(dom, dom0)) + 1
        BY <3>1, <3>2, <4>2, <4>3, FixCounts
      <4> QED BY <3>1, <3>3, <4>4 DEF Counted
    <3>4. CASE Submatrix
      <4>1. k - 1 \in Cols /\ i \in Rows
        <5>1. Len(steps) <= NCols
          BY FewSteps
        <5> QED BY <3>1, <5>1, SizeAssumption DEF Rows, Cols
      <4>2. Free(dom, Forced) \subseteq {<<i, k - 1>>} /\ Free(dom, Forced) \subseteq Free(dom, Entries)
        BY <3>4, <4>1 DEF Free, Forced, Entries
      <4>3. Cardinality(Free(dom, Forced)) \in {0, 1}
        <5>1. Free(dom, Forced) = {} \/ Free(dom, Forced) = {<<i, k - 1>>}
          BY <4>2
        <5> QED BY <5>1, FS_Singleton, FS_EmptySet
      <4>4. /\ FreeAllAlong(dom', dom0)
            /\ Cardinality(Changed(dom, dom0)) \in Nat
            /\ Cardinality(Changed(dom', dom0)) =
                 Cardinality(Changed(dom, dom0)) + Cardinality(Free(dom, Forced))
        BY <3>1, <3>2, <4>2, FixCounts
      <4> QED BY <2>0, <3>1, <3>4, <4>3, <4>4 DEF Counted
    <3> QED BY <3>3, <3>4
  <2> QED
    BY <2>1, <2>2, <2>3, <2>4, <2>5, <2>6, <2>7
    DEF Next, NotAllowed, RowAllZero, RowBeyond, EndRows, StepFixed, StepOpen, ScanRow, ScanEnd,
        EndSteps, vars
<1> QED
  BY <1>1, <1>2, ControlInvariant, FrontierInvariant, StillOpenInvariant, PTL DEF Spec

(* The number of fixings that the function for the whole matrix reports is  *)
(* the number of entries whose bounds it changed.                           *)
THEOREM FixingsCounted == ~Submatrix => (Spec => []CountExact)
<1>0. SUFFICES ASSUME ~Submatrix PROVE Spec => []CountExact
  OBVIOUS
<1>1. Counted => CountExact
  BY <1>0 DEF Counted, CountExact, Changed, Entries
<1> QED BY <1>0, <1>1, CountedInvariant, PTL

(* Both functions report every fixing: whenever some bound has changed, the *)
(* count is positive, and consPropOrbitope answers REDUCEDDOM.              *)
THEOREM FixingsReported == Spec => [](nfixed = 0 => dom = dom0)
<1>1. Control /\ Counted => (nfixed = 0 => dom = dom0)
  <2> SUFFICES ASSUME Control, Counted, nfixed = 0 PROVE dom = dom0
    OBVIOUS
  <2>1. dom \in Bounds /\ dom0 \in Bounds
    BY MatrixAssumption DEF Control, VarTypes
  <2>2. Changed(dom, dom0) \subseteq Rows \X Cols
    BY DEF Changed, Entries
  <2>3. IsFiniteSet(Changed(dom, dom0)) /\ Cardinality(Changed(dom, dom0)) \in Nat
    BY <2>2, EntriesFinite
  <2>4. Cardinality(Changed(dom, dom0)) = 0
    BY <2>3 DEF Counted
  <2>5. Changed(dom, dom0) = {}
    BY <2>3, <2>4, FS_EmptySet
  <2>6. \A r \in Rows, c \in Cols : dom[r][c] = dom0[r][c]
    <3>1. SUFFICES ASSUME NEW r \in Rows, NEW c \in Cols PROVE dom[r][c] = dom0[r][c]
      OBVIOUS
    <3>2. <<r, c>> \in Entries /\ <<r, c>> \notin Changed(dom, dom0)
      BY <2>5 DEF Entries
    <3> QED BY <3>2 DEF Changed
  <2>7. \A r \in Rows : dom[r] = dom0[r]
    BY <2>1, <2>6 DEF Bounds
  <2> QED BY <2>1, <2>7 DEF Bounds
<1> QED BY <1>1, ControlInvariant, CountedInvariant, PTL
-------------------------------------------------------------------------------
(***************************************************************************)
(* The look-ahead in a submatrix, which fixes another entry than the one   *)
(* it has tried: what is known of that entry.                              *)
(***************************************************************************)

(* The rows are processed before the look-ahead makes any one. *)
OnesGiven ==
  pc \in {"triangle", "rows"} =>
    \A r \in Rows, c \in Cols : dom[r][c] = "one" => dom0[r][c] = "one"

(* What it means to be the first non-zero of a row. *)
FirstsPassed ==
  pc \in {"rows", "steps", "scan"} =>
    \A r \in DOMAIN firstnz :
      /\ type = "packing" /\ firstnz[r] # -1 => dom0[r][firstnz[r]] = "one"
      /\ type = "partitioning" =>
           \A c \in Cols : c < firstnz[r] => dom[r][c] # "free"

(* The corner of a partitioning orbitope is no step: the h-th step reaches  *)
(* a column numbered at least h.                                            *)
StepsRight ==
  type = "partitioning" /\ pc \in {"rows", "steps", "scan"} =>
    /\ \A h \in 1 .. Len(steps) : lastones[steps[h]] >= h
    /\ pc = "rows" => Len(steps) <= last

BetaAbove == pc = "scan" => beta >= lastones[steps[k]] - 1

Passed == OnesGiven /\ FirstsPassed /\ StepsRight /\ BetaAbove

(* Every step fixes free entries, or starts or ends a call. *)
LEMMA StepFixes ==
  ASSUME Control, Next, ~Call, ~Leave
  PROVE  \/ dom' = dom
         \/ \E v \in Dom : \E E : \E F \in SUBSET Free(dom, E) : dom' = Fix(dom, F, v)
<1>1. CASE Triangle
  BY <1>1 DEF Triangle, FreeBeforeOne, Dom
<1>2. CASE RowBlocked
  BY <1>2 DEF RowBlocked, FreeBeforeOne, Dom
<1>3. CASE RowFix
  BY <1>3 DEF RowFix, Dom
<1>4. CASE ScanHit
  BY <1>4 DEF ScanHit, Dom
<1> QED
  BY <1>1, <1>2, <1>3, <1>4
  DEF Next, NotAllowed, RowAllZero, RowBeyond, EndRows, StepFixed, StepOpen, ScanRow,
      ScanEnd, EndSteps

(* Every step but the first and the last of a call tightens the bounds.     *)
LEMMA StepTightens ==
  ASSUME Control, Next, ~Call, ~Leave
  PROVE  Tightens(dom', dom)
<1>1. CASE dom' = dom
  BY <1>1 DEF Tightens
<1>2. CASE dom' # dom
  <2>1. PICK v \in Dom : \E E : \E F \in SUBSET Free(dom, E) : dom' = Fix(dom, F, v)
    BY <1>2, StepFixes
  <2>2. PICK E : \E F \in SUBSET Free(dom, E) : dom' = Fix(dom, F, v)
    BY <2>1
  <2>3. PICK F \in SUBSET Free(dom, E) : dom' = Fix(dom, F, v)
    BY <2>2
  <2> QED BY <2>3, FixTightens DEF Control, VarTypes
<1> QED BY <1>1, <1>2

LEMMA PassedInvariant == Spec => []Passed
<1> USE SizeAssumption
<1>1. Init => Passed
  BY DEF Init, Passed, OnesGiven, FirstsPassed, StepsRight, BetaAbove
<1>2. Control /\ Passed /\ [Next]_vars => Passed'
  <2> SUFFICES ASSUME Control, Passed, [Next]_vars PROVE Passed'
    OBVIOUS
  <2>1. CASE vars' = vars
    BY <2>1 DEF vars, Passed, OnesGiven, FirstsPassed, StepsRight, BetaAbove
  <2>2. CASE Call \/ Leave
    <3>1. dom' = dom0' /\ pc' \in {"idle", "triangle"}
      BY <2>2 DEF Call, Leave
    <3> QED BY <3>1 DEF Passed, OnesGiven, FirstsPassed, StepsRight, BetaAbove
  <2>3. CASE pc' = "done"
    BY <2>3 DEF Passed, OnesGiven, FirstsPassed, StepsRight, BetaAbove
  <2>4. ASSUME Next, ~Call, ~Leave
        PROVE  \A r \in Rows, c \in Cols : dom[r][c] # "free" => dom'[r][c] = dom[r][c]
    BY <2>4, StepTightens DEF Tightens
  <2>5. CASE Triangle
    <3>1. pc' \in {"rows", "done"} /\ DOMAIN firstnz' = {} /\ Len(steps') = 0 /\ type' = type
          /\ dom = dom0 /\ dom0' = dom0 /\ last' = Corner
      BY <2>5 DEF Triangle, Control, Places, Unwritten
    <3>2. type = "partitioning" => Corner = 0
      BY DEF Corner
    <3>3. \A r \in Rows, c \in Cols : dom'[r][c] = "one" => dom[r][c] = "one"
      BY <2>5 DEF Triangle, Fix
    <3> QED BY <3>1, <3>2, <3>3 DEF Passed, OnesGiven, FirstsPassed, StepsRight, BetaAbove
  <2>6. CASE RowFix
    <3>1. /\ pc = "rows" /\ pc' = "rows" /\ i < NRows /\ MoveFrontier /\ last' = Advance(i, last)
          /\ UNCHANGED <<type, dom0>> /\ i \in Rows /\ i \in Nat /\ last \in -1 .. NCols - 1
          /\ ~Call /\ ~Leave /\ Next
      BY <2>6 DEF RowFix, RowFits, Control, VarTypes, Rows, Call, Leave, Next
    <3>2. OnesGiven'
      <4>1. \A r \in Rows, c \in Cols : dom'[r][c] = "one" => dom[r][c] = "one"
        BY <2>6 DEF RowFix, Fix
      <4> QED BY <3>1, <4>1 DEF Passed, OnesGiven
    <3>3. FirstsPassed'
      <4>1. SUFFICES ASSUME NEW r \in First .. i
                     PROVE  /\ type = "packing" /\ firstnz'[r] # -1 => dom0[r][firstnz'[r]] = "one"
                            /\ type = "partitioning" =>
                                 \A c \in Cols : c < firstnz'[r] => dom'[r][c] # "free"
        BY <3>1, MoveType DEF FirstsPassed
      <4>2. r \in Rows /\ First \in {0, 1}
        BY <3>1 DEF Rows, First
      <4>3. CASE r # i
        <5>1. firstnz'[r] = firstnz[r] /\ r \in DOMAIN firstnz
          BY <3>1, <4>2, <4>3, MoveType DEF Control, Places
        <5> QED BY <2>4, <3>1, <4>2, <5>1 DEF Passed, FirstsPassed
      <4>4. CASE r = i
        <5>1. firstnz'[i] = FirstNonzero(i)
          BY <3>1, <4>4, MoveType
        <5>2. /\ FirstNonzero(i) \in -1 .. LastColumn(i)
              /\ FirstNonzero(i) # -1 => FirstNonzero(i) \in FirstCandidates(i)
              /\ \A c \in FirstCandidates(i) : FirstNonzero(i) <= c
              /\ LastColumn(i) \in Cols
          BY <3>1, FirstNonzeroType
        <5>3. type = "packing" /\ FirstNonzero(i) # -1 => dom0[i][FirstNonzero(i)] = "one"
          <6>1. SUFFICES ASSUME type = "packing", FirstNonzero(i) # -1
                         PROVE  dom0[i][FirstNonzero(i)] = "one"
            OBVIOUS
          <6>2. FirstNonzero(i) \in Cols /\ dom[i][FirstNonzero(i)] = "one"
            BY <5>2, <6>1 DEF FirstCandidates, Cols
          <6> QED BY <3>1, <6>2 DEF Passed, OnesGiven
        <5>4. ASSUME type = "partitioning", NEW c \in Cols, c < FirstNonzero(i)
              PROVE  dom'[i][c] # "free"
          <6>1. c \in 0 .. LastColumn(i) /\ c \notin FirstCandidates(i)
            BY <5>2, <5>4 DEF Cols
          <6>2. dom[i][c] = "zero"
            BY <5>4, <6>1 DEF FirstCandidates
          <6> QED BY <2>4, <3>1, <6>2
        <5> QED BY <4>4, <5>1, <5>3, <5>4
      <4> QED BY <4>3, <4>4
    <3>4. StepsRight'
      <4>1. SUFFICES ASSUME type = "partitioning"
                     PROVE  /\ \A h \in 1 .. Len(steps') : lastones'[steps'[h]] >= h
                            /\ Len(steps') <= last'
        BY <3>1 DEF StepsRight
      <4>2. /\ \A h \in 1 .. Len(steps) : lastones[steps[h]] >= h /\ steps[h] < i /\ steps[h] \in Rows
            /\ Len(steps) <= last /\ Len(steps) \in Nat
        BY <3>1, <4>1 DEF Passed, StepsRight, Control, Places, Arrays
      <4>3. ASSUME NEW h \in 1 .. Len(steps) PROVE lastones'[steps[h]] >= h
        <5>1. steps[h] \in 0 .. i /\ steps[h] # i
          BY <3>1, <4>2 DEF Rows
        <5> QED BY <3>1, <4>2, <5>1, MoveType
      <4>4. CASE Blocked(i, last)
        <5>1. steps' = steps /\ last' = last
          BY <3>1, <4>4, AdvanceType DEF MoveFrontier
        <5> QED BY <4>2, <4>3, <5>1
      <4>5. CASE ~Blocked(i, last)
        <5>1. steps' = Append(steps, i) /\ last' = last + 1
          BY <3>1, <4>5, AdvanceType DEF MoveFrontier
        <5>2. lastones'[i] = last + 1
          BY <3>1, <4>5, AdvanceType, MoveType
        <5>3. steps \in Seq(Rows)
          BY DEF Control, Arrays
        <5>4. /\ Len(steps') = Len(steps) + 1 /\ steps'[Len(steps) + 1] = i
              /\ \A h \in 1 .. Len(steps) : steps'[h] = steps[h]
          BY <3>1, <5>1, <5>3
        <5>5. ASSUME NEW h \in 1 .. Len(steps') PROVE lastones'[steps'[h]] >= h
          <6>1. CASE h = Len(steps) + 1
            BY <3>1, <4>2, <5>2, <5>4, <6>1
          <6>2. CASE h # Len(steps) + 1
            <7>1. h \in 1 .. Len(steps)
              BY <4>2, <5>4, <6>2
            <7> QED BY <4>3, <5>4, <7>1
          <6> QED BY <6>1, <6>2
        <5> QED BY <3>1, <4>2, <5>1, <5>4, <5>5
      <4> QED BY <4>4, <4>5
    <3> QED BY <3>1, <3>2, <3>3, <3>4 DEF Passed, BetaAbove
  <2>7. CASE EndRows \/ StepFixed \/ StepOpen \/ ScanRow \/ ScanHit \/ ScanEnd
    <3>1. /\ UNCHANGED <<type, dom0, lastones, firstnz, steps>> /\ ~Call /\ ~Leave /\ Next
          /\ pc \in {"rows", "steps", "scan"} /\ pc' \in {"steps", "scan"}
      BY <2>7 DEF EndRows, StepFixed, StepOpen, ScanRow, ScanHit, ScanEnd, Call, Leave, Next
    <3>2. DOMAIN firstnz \subseteq Rows
      BY DEF Control, Arrays
    <3>3. OnesGiven' /\ FirstsPassed' /\ StepsRight'
      BY <2>4, <3>1, <3>2 DEF Passed, OnesGiven, FirstsPassed, StepsRight
    <3>4. BetaAbove'
      <4>1. CASE StepOpen
        <5>1. lastones[steps[k]] \in -1 .. NCols - 1 /\ beta' = lastones[steps[k]] - 1 /\ k' = k
          BY <4>1 DEF StepOpen, Control, Arrays, Places
        <5> QED BY <3>1, <5>1 DEF BetaAbove
      <4>2. CASE ScanRow
        <5>1. /\ beta' = Advance(i, beta) /\ k' = k /\ pc = "scan" /\ i \in Rows
              /\ beta \in -1 .. NCols - 1 /\ k \in 1 .. Len(steps)
          BY <4>2 DEF ScanRow, Control, VarTypes, Places, Rows
        <5>2. beta' >= beta /\ beta' \in Int
          BY <5>1, AdvanceType
        <5>3. lastones[steps[k]] \in -1 .. NCols - 1
          BY <5>1 DEF Control, Arrays
        <5> QED BY <3>1, <5>1, <5>2, <5>3 DEF Passed, BetaAbove
      <4>3. CASE ~StepOpen /\ ~ScanRow
        BY <2>7, <4>3 DEF EndRows, StepFixed, ScanHit, ScanEnd, BetaAbove
      <4> QED BY <4>1, <4>2, <4>3
    <3> QED BY <3>3, <3>4 DEF Passed
  <2> QED
    BY <2>1, <2>2, <2>3, <2>5, <2>6, <2>7
    DEF Next, NotAllowed, RowAllZero, RowBeyond, RowBlocked, EndSteps
<1> QED BY <1>1, <1>2, ControlInvariant, PTL DEF Spec

(* In a partitioning submatrix, and in rows that are closed, the entry that *)
(* the look-ahead fixes is no longer free: the look-ahead does nothing.     *)
LEMMA HitIsVain ==
  ASSUME Submatrix, Control, Frontier, Passed, FreeAllAlong(dom, dom0), ScanHit,
         type = "partitioning" \/ Closed(dom0)
  PROVE  Free(dom, Forced) = {}
<1> USE SizeAssumption
<1>1. /\ pc = "scan" /\ i < NRows /\ firstnz[i] > Advance(i, beta)
      /\ i \in Rows /\ beta \in -1 .. NCols - 1 /\ k \in 1 .. Len(steps) /\ steps[k] \in Rows
      /\ i \in DOMAIN firstnz /\ firstnz[i] \in -1 .. NCols - 1
      /\ lastones[steps[k]] \in -1 .. NCols - 1
  <2>1. pc = "scan" /\ i < NRows /\ firstnz[i] > Advance(i, beta)
    BY DEF ScanHit
  <2>2. /\ i \in Rows /\ beta \in -1 .. NCols - 1 /\ k \in 1 .. Len(steps)
    BY <2>1 DEF Control, VarTypes, Places, Rows
  <2>4. steps[k] \in Rows /\ lastones[steps[k]] \in -1 .. NCols - 1
    BY <2>2 DEF Control, Arrays
  <2>3. i \in DOMAIN firstnz /\ firstnz[i] \in -1 .. NCols - 1
    BY <2>1, <2>2 DEF Control, Arrays, Places, First, Rows
  <2> QED BY <2>1, <2>2, <2>3, <2>4
<1>2. Advance(i, beta) >= beta /\ Advance(i, beta) \in -1 .. NCols - 1
  <2>1. /\ Advance(i, beta) \in -1 .. NCols - 1
        /\ Advance(i, beta) = beta \/ Advance(i, beta) = beta + 1
    BY <1>1, AdvanceType
  <2>2. beta \in -1 .. NCols - 1
    BY <1>1
  <2> QED BY <2>1, <2>2
<1>3. firstnz[i] # -1 /\ firstnz[i] \in Cols
  BY <1>1, <1>2 DEF Cols
<1>4. k - 1 \in Cols
  <2>1. Len(steps) \in Nat /\ Len(steps) <= NCols
    BY FewSteps
  <2> QED BY <1>1, <2>1 DEF Cols
<1>5. dom[i][k - 1] # "free"
  <2>1. CASE type = "partitioning"
    <3>1. lastones[steps[k]] >= k
      BY <1>1, <2>1 DEF Passed, StepsRight
    <3>2. beta >= lastones[steps[k]] - 1
      BY <1>1 DEF Passed, BetaAbove
    <3>3. k - 1 < firstnz[i]
      BY <1>1, <1>2, <3>1, <3>2
    <3> QED BY <1>1, <1>4, <2>1, <3>3 DEF Passed, FirstsPassed
  <2>2. CASE type # "partitioning"
    <3>1. type = "packing" /\ Closed(dom0)
      BY <2>2, TypeAssumption DEF Control, VarTypes
    <3>2. dom0[i][firstnz[i]] = "one"
      BY <1>1, <1>3, <3>1 DEF Passed, FirstsPassed
    <3>3. dom0[i][k - 1] # "free"
      BY <1>1, <1>3, <1>4, <3>1, <3>2 DEF Closed
    <3>4. <<i, k - 1>> \in Entries
      BY <1>1, <1>4 DEF Entries
    <3>5. dom[i][k - 1] = "free" => dom0[i][k - 1] = "free"
      <4>1. \A x \in Entries : dom[x[1]][x[2]] = "free" => dom0[x[1]][x[2]] = "free"
        BY DEF FreeAllAlong
      <4> QED BY <3>4, <4>1
    <3> QED BY <3>3, <3>5
  <2> QED BY <2>1, <2>2
<1>6. ASSUME NEW x \in Free(dom, Forced) PROVE FALSE
  <2>1. x = <<i, k - 1>> /\ dom[x[1]][x[2]] = "free"
    BY <1>6 DEF Free, Forced
  <2> QED BY <1>5, <2>1
<1> QED BY <1>6
-------------------------------------------------------------------------------
(***************************************************************************)
(* The third layer: what the arrays mean for the points of the orbitope    *)
(* that the bounds of the node admit.                                      *)
(***************************************************************************)

Admitted == {p \in Orbitope[type] : Fits(p, dom0)}

(* What is left out: the look-ahead in a packing submatrix with rows that   *)
(* are not closed.                                                          *)
Faithful ==
  \/ ~Submatrix \/ pc \in {"idle", "triangle", "rows"}
  \/ type = "partitioning" \/ Closed(dom0)

(* The bounds have only been tightened. *)
Narrows == \A p \in Orbitope[type] : Fits(p, dom) => Fits(p, dom0)

(* No admitted point is lost, and there is none once infeasible is set. *)
Kept == Faithful => /\ \A p \in Admitted : Fits(p, dom)
                    /\ infeasible => Admitted = {}

(* The one of a row lies between the first non-zero and the frontier. *)
Between ==
  Faithful /\ pc \in {"rows", "steps", "scan"} =>
    \A p \in Admitted :
      /\ \A r \in DOMAIN lastones : p[r] <= lastones[r]
      /\ \A r \in DOMAIN firstnz : firstnz[r] <= p[r]

(* beta bounds the points that do not take the step supposed not taken. *)
Supposed ==
  Faithful /\ pc = "scan" =>
    \A p \in Admitted :
      p[steps[k]] # lastones[steps[k]] => \A q \in 0 .. i - 1 : p[q] <= beta

Meaning == Narrows /\ Kept /\ Between /\ Supposed

(* Bounds that result from fixing free entries admit no new points. *)
LEMMA FixNarrows ==
  ASSUME NEW d \in Bounds, NEW E, NEW F, F \subseteq Free(d, E), NEW v,
         NEW p, Fits(p, Fix(d, F, v))
  PROVE  Fits(p, d)
<1>1. \A r \in Rows, c \in Cols :
        Fix(d, F, v)[r][c] = IF <<r, c>> \in F THEN v ELSE d[r][c]
  BY DEF Fix
<1>2. \A r \in Rows, c \in Cols : <<r, c>> \in F => d[r][c] = "free"
  BY DEF Free
<1>3. ASSUME NEW r \in Rows, NEW c \in Cols
      PROVE  (d[r][c] = "one" => p[r] = c) /\ (d[r][c] = "zero" => p[r] # c)
  <2>1. CASE <<r, c>> \in F
    BY <1>2, <2>1
  <2>2. CASE <<r, c>> \notin F
    BY <1>1, <2>2 DEF Fits
  <2> QED BY <2>1, <2>2
<1> QED BY <1>3 DEF Fits

(* The bounds only get tighter. *)
LEMMA NarrowsStep ==
  ASSUME Control, Narrows, Next
  PROVE  Narrows'
<1>1. CASE Call \/ Leave
  BY <1>1 DEF Call, Leave, Narrows
<1>2. CASE ~Call /\ ~Leave
  <2>1. UNCHANGED <<type, dom0>>
    BY <1>2 DEF Next, NotAllowed, Triangle, RowAllZero, RowBeyond, RowBlocked, RowFix,
                EndRows, StepFixed, StepOpen, ScanRow, ScanHit, ScanEnd, EndSteps
  <2>2. \A p : Fits(p, dom') => Fits(p, dom)
    <3>1. CASE dom' = dom
      BY <3>1
    <3>2. CASE dom' # dom
      <4>1. PICK v \in Dom : \E E : \E F \in SUBSET Free(dom, E) : dom' = Fix(dom, F, v)
        BY <1>2, <3>2, StepFixes
      <4>2. PICK E : \E F \in SUBSET Free(dom, E) : dom' = Fix(dom, F, v)
        BY <4>1
      <4>3. PICK F \in SUBSET Free(dom, E) : dom' = Fix(dom, F, v)
        BY <4>2
      <4> QED BY <4>3, FixNarrows DEF Control, VarTypes
    <3> QED BY <3>1, <3>2
  <2> QED BY <2>1, <2>2 DEF Narrows
<1> QED BY <1>1, <1>2

(* In the row at hand, an admitted point has no one beyond the frontier. *)
LEMMA RowBounds ==
  ASSUME Control, Frontier, Meaning, pc = "rows", i < NRows, NEW p \in Admitted
  PROVE  /\ p \in Orbitope[type] /\ Fits(p, dom) /\ i \in Rows
         /\ p[i] <= Advance(i, last)
         /\ FirstNonzero(i) <= p[i]
         /\ type = "partitioning" => FirstNonzero(i) # -1
         /\ p[i] \in Int /\ Advance(i, last) \in Int /\ FirstNonzero(i) \in Int
<1>1. i \in Rows /\ last \in -1 .. NCols - 1 /\ type \in Types /\ dom \in Bounds
  BY SizeAssumption DEF Control, VarTypes, Rows
<1>2. p \in Orbitope[type] /\ Fits(p, dom) /\ Faithful
  BY DEF Admitted, Meaning, Kept, Faithful
<1>3. ASSUME NEW q \in 0 .. i - 1 PROVE p[q] <= last
  <2>1. q \in DOMAIN lastones /\ q \in Rows
    BY <1>1, SizeAssumption DEF Control, Places, Rows
  <2>2. p[q] <= lastones[q] /\ lastones[q] <= last
    BY <1>2, <2>1 DEF Meaning, Between, Frontier, AtRow
  <2>3. lastones[q] \in -1 .. NCols - 1 /\ p[q] \in -1 .. NCols - 1
    BY <1>1, <1>2, <2>1, PointType DEF Control, Arrays
  <2> QED BY <1>1, <2>2, <2>3
<1>4. p[i] <= Advance(i, last)
  BY <1>1, <1>2, <1>3, AdvanceBounds
<1>5. FirstNonzero(i) <= p[i] /\ (type = "partitioning" => FirstNonzero(i) # -1)
  BY <1>1, <1>2, FirstNonzeroBounds
<1>6. p[i] \in Int /\ Advance(i, last) \in Int /\ FirstNonzero(i) \in Int
  BY <1>1, <1>2, PointType, AdvanceType, FirstNonzeroType, SizeAssumption DEF Cols
<1> QED BY <1>1, <1>2, <1>4, <1>5, <1>6

(* Meaning is an invariant. *)
LEMMA MeaningInvariant == Spec => []Meaning
<1> USE SizeAssumption
<1>1. Init => Meaning
  <2> SUFFICES ASSUME Init PROVE Meaning
    OBVIOUS
  <2>1. dom = dom0 /\ pc = "idle" /\ infeasible = FALSE
    BY DEF Init
  <2> QED BY <2>1 DEF Meaning, Narrows, Kept, Between, Supposed, Admitted
<1>2. Control /\ Frontier /\ Counted /\ Passed /\ Meaning /\ [Next]_vars => Meaning'
  <2> SUFFICES ASSUME Control, Frontier, Counted, Passed, Meaning, [Next]_vars PROVE Meaning'
    OBVIOUS
  <2>1. CASE UNCHANGED vars
    BY <2>1 DEF vars, Meaning, Narrows, Kept, Between, Supposed, Admitted, Faithful, Closed, Fits
  <2>2. CASE Next
    <3>1. Narrows'
      BY <2>2, NarrowsStep DEF Meaning
    <3>2. CASE Call \/ Leave
      <4>1. dom' = dom0' /\ pc' \in {"idle", "triangle"} /\ infeasible' = FALSE
        BY <3>2 DEF Call, Leave, Control, Places
      <4> QED BY <3>1, <4>1 DEF Meaning, Kept, Between, Supposed, Admitted
    <3>3. CASE NotAllowed
      BY <3>1, <3>3 DEF NotAllowed, Control, Places, Meaning, Kept, Between, Supposed,
                        Admitted, Faithful
    <3>4. CASE Triangle
      <4>1. UNCHANGED <<type, dom0>> /\ Admitted' = Admitted
        BY <3>4 DEF Triangle, Admitted, Fits
      <4>2. ASSUME NEW p \in Admitted
            PROVE  /\ p \in Orbitope[type] /\ Fits(p, dom) /\ type \in Types
                   /\ \A r \in Rows : p[r] <= r /\ p[r] \in -1 .. NCols - 1
        <5>1. p \in Orbitope[type] /\ type \in Types
          BY DEF Admitted, Control, VarTypes
        <5>2. Fits(p, dom)
          BY <3>4 DEF Meaning, Kept, Faithful, Triangle
        <5> QED BY <5>1, <5>2, BelowDiagonal, PointType
      <4>3. ASSUME NEW p \in Admitted PROVE Fits(p, dom')
        <5>1. \A r \in Rows, c \in Cols : <<r, c>> \in FreeBeforeOne(dom, Upper) => p[r] # c
          BY <4>2 DEF FreeBeforeOne, Free, Upper, Rows, Cols
        <5> QED BY <3>4, <4>2, <5>1, FixKeeps DEF Triangle, Control, VarTypes
      <4>4. ASSUME infeasible' PROVE Admitted = {}
        <5>1. PICK e \in Upper : dom[e[1]][e[2]] = "one"
          BY <3>4, <4>4 DEF Triangle, Ones
        <5>2. e[1] \in Rows /\ e[2] \in Cols /\ e[2] > e[1]
          BY DEF Upper
        <5>3. ASSUME NEW p \in Admitted PROVE FALSE
          BY <4>2, <5>1, <5>2 DEF Fits, Rows, Cols
        <5> QED BY <5>3
      <4>5. ASSUME NEW p \in Admitted PROVE p[0] <= Corner
        <5>1. 0 \in Rows /\ 0 \in Cols
          BY DEF Rows, Cols
        <5>2. p[0] <= 0 /\ p[0] \in -1 .. NCols - 1
          BY <4>2, <5>1
        <5>3. dom[0][0] = "zero" => p[0] # 0
          BY <4>2, <5>1 DEF Fits
        <5> QED BY <5>2, <5>3 DEF Corner
      <4>6. DOMAIN lastones' = {0} /\ lastones'[0] = Corner /\ DOMAIN firstnz' = {}
            /\ pc' \in {"rows", "done"}
        BY <3>4 DEF Triangle, Control, Places, Unwritten
      <4>7. Kept'
        BY <4>1, <4>3, <4>4 DEF Kept
      <4>8. Between' /\ Supposed'
        BY <4>1, <4>5, <4>6 DEF Between, Supposed
      <4> QED BY <3>1, <4>7, <4>8 DEF Meaning
    <3>5. CASE RowAllZero \/ RowBeyond \/ RowBlocked
      <4>1. pc = "rows" /\ i < NRows /\ pc' = "done" /\ UNCHANGED <<type, dom0>>
        BY <3>5 DEF RowAllZero, RowBeyond, RowBlocked, RowFits
      <4>2. Admitted' = Admitted
        BY <4>1 DEF Admitted, Fits
      <4>3. ASSUME NEW p \in Admitted PROVE FALSE
        <5>1. CASE RowAllZero
          BY <4>1, <5>1, RowBounds DEF RowAllZero
        <5>2. CASE RowBeyond
          BY <4>1, <5>2, RowBounds DEF RowBeyond
        <5>3. CASE RowBlocked
          <6>1. PICK e \in Beyond : dom[e[1]][e[2]] = "one"
            BY <5>3 DEF RowBlocked, Ones
          <6>2. i \in Rows /\ Advance(i, last) \in -1 .. NCols - 1 /\ LastColumn(i) \in Cols
            BY <4>1, AdvanceType, FirstNonzeroType DEF Control, VarTypes, Rows
          <6>3. e[1] = i /\ e[2] \in Cols /\ e[2] > Advance(i, last)
            BY <6>2 DEF Beyond, Cols
          <6>4. p[i] = e[2]
            BY <4>1, <6>1, <6>2, <6>3, RowBounds DEF Fits
          <6> QED BY <4>1, <6>3, <6>4, RowBounds DEF Cols
        <5> QED BY <3>5, <5>1, <5>2, <5>3
      <4> QED BY <3>1, <4>1, <4>2, <4>3 DEF Meaning, Kept, Between, Supposed
    <3>6. CASE RowFix
      <4>1. pc = "rows" /\ i < NRows /\ pc' = "rows" /\ MoveFrontier
            /\ UNCHANGED <<type, dom0>>
        BY <3>6 DEF RowFix, RowFits
      <4>2. Admitted' = Admitted /\ Faithful
        BY <4>1 DEF Admitted, Fits, Faithful, Closed
      <4>3. i \in Rows /\ i \in Nat /\ Advance(i, last) \in -1 .. NCols - 1
            /\ LastColumn(i) \in Cols
        BY <4>1, AdvanceType, FirstNonzeroType DEF Control, VarTypes, Rows
      <4>4. ASSUME NEW p \in Admitted PROVE Fits(p, dom')
        <5>1. \A r \in Rows, c \in Cols : <<r, c>> \in Free(dom, Beyond) => p[r] # c
          BY <4>1, <4>3, RowBounds DEF Free, Beyond, Cols
        <5> QED BY <3>6, <4>1, <5>1, RowBounds, FixKeeps DEF RowFix, Control, VarTypes
      <4>5. infeasible' => infeasible
        BY <3>6 DEF RowFix
      <4>6. Kept'
        BY <4>2, <4>4, <4>5 DEF Kept, Meaning
      <4>7. ASSUME NEW p \in Admitted, NEW r \in 0 .. i PROVE p[r] <= lastones'[r]
        <5>1. CASE r = i
          BY <4>1, <4>3, <5>1, MoveType, RowBounds
        <5>2. CASE r # i
          <6>1. r \in DOMAIN lastones /\ lastones'[r] = lastones[r]
            BY <4>1, <4>3, <5>2, MoveType DEF Control, Places
          <6> QED BY <4>1, <4>2, <6>1 DEF Meaning, Between
        <5> QED BY <5>1, <5>2
      <4>8. ASSUME NEW p \in Admitted, NEW r \in First .. i PROVE firstnz'[r] <= p[r]
        <5>1. CASE r = i
          BY <4>1, <4>3, <5>1, MoveType, RowBounds
        <5>2. CASE r # i
          <6>1. r \in DOMAIN firstnz /\ firstnz'[r] = firstnz[r]
            BY <4>1, <4>3, <5>2, MoveType DEF Control, Places, First
          <6> QED BY <4>1, <4>2, <6>1 DEF Meaning, Between
        <5> QED BY <5>1, <5>2
      <4>9. Between'
        BY <4>1, <4>2, <4>7, <4>8, MoveType DEF Between
      <4> QED BY <3>1, <4>1, <4>6, <4>9 DEF Meaning, Supposed
    <3>7. CASE EndRows \/ StepFixed \/ ScanEnd \/ EndSteps
      <4>1. /\ UNCHANGED <<type, dom0, dom, lastones, firstnz, infeasible>>
            /\ pc \in {"rows", "steps", "scan"} /\ pc' \in {"steps", "done"}
        BY <3>7 DEF EndRows, StepFixed, ScanEnd, EndSteps
      <4>2. Admitted' = Admitted /\ (Faithful' => Faithful)
        BY <4>1 DEF Admitted, Fits, Faithful, Closed
      <4> QED BY <3>1, <4>1, <4>2 DEF Meaning, Kept, Between, Supposed, Fits
    <3>8. CASE StepOpen
      <4>1. /\ UNCHANGED <<type, dom0, dom, lastones, firstnz, infeasible, steps, k>>
            /\ pc = "steps" /\ pc' = "scan" /\ k <= Len(steps)
            /\ beta' = lastones[steps[k]] - 1 /\ i' = steps[k] + 1
        BY <3>8 DEF StepOpen
      <4>2. Admitted' = Admitted /\ (Faithful' => Faithful)
        BY <4>1 DEF Admitted, Fits, Faithful, Closed
      <4>3. k \in 1 .. Len(steps) /\ steps[k] \in Rows /\ DOMAIN lastones = Rows
        BY <4>1 DEF Control, Arrays, Places
      <4>4. ASSUME Faithful, NEW p \in Admitted, p[steps[k]] # lastones[steps[k]],
                   NEW q \in 0 .. i' - 1
            PROVE  p[q] <= beta'
        <5>1. q \in Rows /\ q \in 0 .. steps[k]
          BY <4>1, <4>3 DEF Rows
        <5>2. p[q] <= lastones[q]
          BY <4>1, <4>3, <4>4, <5>1 DEF Meaning, Between
        <5>3. q # steps[k] => lastones[q] < lastones[steps[k]]
          BY <4>3, <5>1 DEF Frontier, StepsMove, Rows
        <5>4. /\ p[q] \in Int /\ lastones[q] \in Int /\ lastones[steps[k]] \in Int
          BY <4>3, <5>1, PointType DEF Admitted, Control, VarTypes, Arrays
        <5> QED BY <4>1, <4>4, <5>2, <5>3, <5>4
      <4>5. Supposed'
        BY <4>1, <4>2, <4>4 DEF Supposed
      <4>6. Kept' /\ Between'
        BY <4>1, <4>2 DEF Meaning, Kept, Between, Fits
      <4> QED BY <3>1, <4>5, <4>6 DEF Meaning
    <3>9. CASE ScanRow
      <4>1. /\ UNCHANGED <<type, dom0, dom, lastones, firstnz, infeasible, steps, k>>
            /\ pc = "scan" /\ pc' = "scan" /\ i < NRows
            /\ beta' = Advance(i, beta) /\ i' = i + 1
        BY <3>9 DEF ScanRow
      <4>2. Admitted' = Admitted /\ (Faithful' => Faithful)
        BY <4>1 DEF Admitted, Fits, Faithful, Closed
      <4>3. i \in Rows /\ i \in Nat /\ beta \in -1 .. NCols - 1
            /\ Advance(i, beta) \in {beta, beta + 1}
        BY <4>1, AdvanceType DEF Control, VarTypes, Rows
      <4>4. ASSUME Faithful, NEW p \in Admitted, p[steps[k]] # lastones[steps[k]],
                   NEW q \in 0 .. i
            PROVE  p[q] <= Advance(i, beta)
        <5>1. \A y \in 0 .. i - 1 : p[y] <= beta
          BY <4>1, <4>4 DEF Meaning, Supposed
        <5>2. p \in Orbitope[type] /\ Fits(p, dom) /\ type \in Types /\ dom \in Bounds
          BY <4>4 DEF Admitted, Meaning, Kept, Control, VarTypes
        <5>3. CASE q = i
          BY <4>3, <5>1, <5>2, <5>3, AdvanceBounds
        <5>4. CASE q # i
          <6>1. q \in 0 .. i - 1 /\ q \in Rows
            BY <4>3, <5>4 DEF Rows
          <6>2. p[q] <= beta /\ p[q] \in -1 .. NCols - 1
            BY <5>1, <5>2, <6>1, PointType
          <6> QED BY <4>3, <6>2
        <5> QED BY <5>3, <5>4
      <4>5. Supposed'
        BY <4>1, <4>2, <4>3, <4>4 DEF Supposed
      <4>6. Kept' /\ Between'
        BY <4>1, <4>2 DEF Meaning, Kept, Between, Fits
      <4> QED BY <3>1, <4>5, <4>6 DEF Meaning
    <3>10. CASE ScanHit
      <4>1. /\ UNCHANGED <<type, dom0, lastones, firstnz>>
            /\ pc = "scan" /\ pc' = "steps" /\ i < NRows
            /\ firstnz[i] > Advance(i, beta)
            /\ dom' = Fix(dom, Free(dom, Forced), "one")
            /\ infeasible' => infeasible
        BY <3>10 DEF ScanHit
      <4>2. /\ Admitted' = Admitted
            /\ Faithful' => /\ Faithful
                            /\ ~Submatrix \/ type = "partitioning" \/ Closed(dom0)
        BY <4>1 DEF Admitted, Fits, Faithful, Closed
      <4>3. /\ i \in Rows /\ beta \in -1 .. NCols - 1 /\ Advance(i, beta) \in Int
            /\ k \in 1 .. Len(steps) /\ steps[k] \in Rows /\ steps[k] < i
            /\ i \in DOMAIN firstnz /\ firstnz[i] \in Int
        <5>1. i \in Rows /\ beta \in -1 .. NCols - 1
          BY <4>1 DEF Control, VarTypes, Rows
        <5>2. k \in 1 .. Len(steps) /\ steps[k] \in Rows /\ steps[k] < i
          BY <4>1 DEF Control, Arrays, Places
        <5>3. i \in First .. NRows - 1
          BY <5>1, <5>2 DEF Rows, First
        <5>4. i \in DOMAIN firstnz /\ firstnz[i] \in Int
          BY <4>1, <5>3 DEF Control, Arrays, Places
        <5> QED BY <5>1, <5>2, <5>4, AdvanceType
      <4>4. ASSUME Faithful, ~Submatrix, NEW p \in Admitted PROVE Fits(p, dom')
        <5>1. p \in Orbitope[type] /\ Fits(p, dom) /\ type \in Types /\ dom \in Bounds
          BY <4>4 DEF Admitted, Meaning, Kept, Control, VarTypes
        <5>2. p[steps[k]] = lastones[steps[k]]
          <6>1. SUFFICES ASSUME p[steps[k]] # lastones[steps[k]] PROVE FALSE
            OBVIOUS
          <6>2. p[i] <= Advance(i, beta)
            <7>1. \A y \in 0 .. i - 1 : p[y] <= beta
              BY <4>1, <4>4, <6>1 DEF Meaning, Supposed
            <7> QED BY <4>3, <5>1, <7>1, AdvanceBounds
          <6>3. firstnz[i] <= p[i]
            BY <4>1, <4>3, <4>4 DEF Meaning, Between
          <6>4. p[i] \in Int
            BY <4>3, <5>1, PointType
          <6> QED BY <4>1, <4>3, <6>2, <6>3, <6>4
        <5>3. \A r \in Rows, c \in Cols :
                dom'[r][c] = IF <<r, c>> \in Free(dom, Forced) THEN "one" ELSE dom[r][c]
          BY <4>1 DEF Fix
        <5>4. \A r \in Rows, c \in Cols : <<r, c>> \in Free(dom, Forced) => p[r] = c
          <6>1. Forced = {<<steps[k], lastones[steps[k]]>>}
            BY <4>4 DEF Forced, Step
          <6>2. \A r, c : <<r, c>> \in Forced => r = steps[k] /\ c = lastones[steps[k]]
            BY <6>1
          <6>3. Free(dom, Forced) \subseteq Forced
            BY DEF Free
          <6>4. ASSUME NEW r \in Rows, NEW c \in Cols, <<r, c>> \in Free(dom, Forced)
                PROVE  p[r] = c
            <7>1. r = steps[k] /\ c = lastones[steps[k]]
              BY <6>2, <6>3, <6>4
            <7> QED BY <5>2, <7>1
          <6> QED BY <6>4
        <5>5. ASSUME NEW r \in Rows, NEW c \in Cols
              PROVE  (dom'[r][c] = "one" => p[r] = c) /\ (dom'[r][c] = "zero" => p[r] # c)
          <6>1. CASE <<r, c>> \in Free(dom, Forced)
            BY <5>3, <5>4, <6>1
          <6>2. CASE <<r, c>> \notin Free(dom, Forced)
            BY <5>1, <5>3, <6>2 DEF Fits
          <6> QED BY <6>1, <6>2
        <5> QED BY <5>5 DEF Fits
      <4>5. ASSUME Faithful, Submatrix, type = "partitioning" \/ Closed(dom0), NEW p \in Admitted
            PROVE  Fits(p, dom')
        <5>1. p \in Orbitope[type] /\ Fits(p, dom) /\ dom \in Bounds
          BY <4>5 DEF Admitted, Meaning, Kept, Control, VarTypes
        <5>2. Free(dom, Forced) = {}
          BY <3>10, <4>5, HitIsVain DEF Counted
        <5>3. \A r \in Rows, c \in Cols : dom'[r][c] = dom[r][c]
          BY <4>1, <5>2 DEF Fix
        <5> QED BY <5>1, <5>3 DEF Fits
      <4>6. Kept'
        BY <4>1, <4>2, <4>4, <4>5, ModeAssumption DEF Meaning, Kept
      <4>7. Between' /\ Supposed'
        BY <4>1, <4>2 DEF Meaning, Between, Supposed
      <4> QED BY <3>1, <4>6, <4>7 DEF Meaning
    <3> QED
      BY <2>2, <3>2, <3>3, <3>4, <3>5, <3>6, <3>7, <3>8, <3>9, <3>10 DEF Next
  <2> QED BY <2>1, <2>2
<1> QED
  BY <1>1, <1>2, ControlInvariant, FrontierInvariant, CountedInvariant, PassedInvariant, PTL
  DEF Spec

(* Propagating the whole matrix cuts off no point of the orbitope and       *)
(* declares a node infeasible only when it has none, for every size of the  *)
(* matrix, both types and all bounds.                                       *)
THEOREM PropagationSound == ~Submatrix => (Spec => []Sound)
<1>1. SUFFICES ASSUME ~Submatrix PROVE Spec => []Sound
  OBVIOUS
<1>2. Meaning => Sound
  BY <1>1 DEF Meaning, Kept, Faithful, Admitted, Sound, KeepsPoints, NoPointFits
<1> QED BY <1>2, MeaningInvariant, PTL

(* In a submatrix this holds until the look-ahead starts, and throughout    *)
(* when the orbitope is a partitioning one or the rows are closed: then the *)
(* entry that the look-ahead fixes instead of the right one is not free.    *)
THEOREM SubmatrixSound == Spec => []SoundInSubmatrix
<1>1. Meaning => SoundInSubmatrix
  BY DEF Meaning, Kept, Faithful, Admitted, Sound, KeepsPoints, NoPointFits, SoundInSubmatrix
<1> QED BY <1>1, MeaningInvariant, PTL
-------------------------------------------------------------------------------
(***************************************************************************)
(* The function implements PropagationStep.                                *)
(***************************************************************************)

(* The propagation of the whole matrix does what the solver relies on, and  *)
(* nothing else: it implements PropagationStep.                             *)
THEOREM PromiseKept == ~Submatrix => (Spec => ImplementsPromise)
<1>0. SUFFICES ASSUME ~Submatrix PROVE Spec => ImplementsPromise
  OBVIOUS
<1>1. Init => Promise!Init
  <2> SUFFICES ASSUME Init PROVE Promise!Init
    OBVIOUS
  <2>1. dom \in Bounds /\ type \in Types
    BY TypeAssumption, MatrixAssumption DEF Init, SomeType, SomeMatrix
  <2>2. Busy = FALSE /\ (infeasible /\ pc = "done") = FALSE
    BY DEF Init, Busy
  <2> QED BY <2>1, <2>2 DEF Promise!Init
<1>2. Control /\ Meaning /\ Control' /\ Meaning' /\ [Next]_vars
        => [Promise!Next]_<<dom, Orbitope[type], Busy, infeasible /\ pc = "done">>
  <2> SUFFICES ASSUME Control, Meaning, Control', Meaning', [Next]_vars
               PROVE  [Promise!Next]_<<dom, Orbitope[type], Busy, infeasible /\ pc = "done">>
    OBVIOUS
  <2>1. CASE UNCHANGED vars
    BY <2>1 DEF vars, Busy
  <2>2. CASE Call
    <3>1. /\ ~Busy /\ Busy' = TRUE /\ dom' \in Bounds /\ type' \in Types
          /\ (infeasible /\ pc = "done")' = FALSE
      BY <2>2 DEF Call, Busy, Control, VarTypes
    <3> QED BY <3>1 DEF Promise!Next, Promise!Start
  <2>3. CASE Leave
    <3>1. /\ ~Busy /\ ~Busy' /\ dom' \in Bounds /\ type' \in Types
          /\ (infeasible /\ pc = "done")' = FALSE
      BY <2>3 DEF Leave, Busy, Control, VarTypes
    <3> QED BY <3>1 DEF Promise!Next, Promise!Leave
  <2>4. CASE Next /\ ~Call /\ ~Leave
    <3>1. /\ UNCHANGED <<type, dom0>> /\ Busy /\ pc # "done"
          /\ pc' # "done" => Busy'
          /\ pc' = "done" => ~Busy'
          /\ pc' = "done" => infeasible' = TRUE \/ dom' = dom
      BY <2>4 DEF Next, Busy, NotAllowed, Triangle, RowAllZero, RowBeyond, RowBlocked, RowFits,
         RowFix, EndRows, StepFixed, StepOpen, ScanRow, ScanHit, ScanEnd, EndSteps
    <3>2. dom' \in Bounds /\ Tightens(dom', dom)
      BY <2>4, StepTightens DEF Control, VarTypes
    <3>3. ASSUME NEW p \in Orbitope[type], Fits(p, dom)
          PROVE  Fits(p, dom') /\ ~infeasible'
      <4>1. Fits(p, dom0)
        BY <3>3 DEF Meaning, Narrows
      <4>2. p \in Admitted'
        BY <3>1, <4>1 DEF Admitted
      <4>3. Faithful'
        BY <1>0 DEF Faithful
      <4> QED BY <4>2, <4>3 DEF Meaning, Kept
    <3>4. CASE pc' # "done"
      <4>1. (infeasible /\ pc = "done")' = (infeasible /\ pc = "done")
        BY <3>1, <3>4
      <4>2. Busy' = Busy
        BY <3>1, <3>4 DEF Busy
      <4> QED
        BY <3>1, <3>2, <3>3, <4>1, <4>2 DEF Promise!Next, Promise!Tighten, Promise!Keeps
    <3>5. CASE pc' = "done" /\ infeasible' = TRUE
      <4>1. (infeasible /\ pc = "done")' = TRUE
        BY <3>5
      <4>2. Busy' = FALSE
        BY <3>1, <3>5 DEF Busy
      <4>3. \A p \in Orbitope[type] : ~Fits(p, dom)
        BY <3>3, <3>5
      <4> QED BY <3>1, <3>2, <4>1, <4>2, <4>3 DEF Promise!Next, Promise!CutOff
    <3>6. CASE pc' = "done" /\ infeasible' = FALSE
      <4>1. (infeasible /\ pc = "done")' = (infeasible /\ pc = "done")
        BY <3>1, <3>6
      <4>2. Busy' = FALSE
        BY <3>1, <3>6 DEF Busy
      <4>3. dom' = dom
        BY <3>1, <3>6
      <4> QED BY <3>1, <4>1, <4>2, <4>3 DEF Promise!Next, Promise!Finish
    <3>7. infeasible' \in BOOLEAN
      BY DEF Control, VarTypes
    <3> QED BY <3>4, <3>5, <3>6, <3>7
  <2> QED BY <2>1, <2>2, <2>3, <2>4
<1> QED
  BY <1>1, <1>2, ControlInvariant, MeaningInvariant, PTL
  DEF Spec, ImplementsPromise, Promise!Spec
-------------------------------------------------------------------------------
(***************************************************************************)
(* What is given to conflict analysis is a reason.                         *)
(***************************************************************************)

(* While the rows are processed, the entry next to the frontier is zero     *)
(* wherever the frontier has not moved.                                    *)
Held ==
  pc = "rows" =>
    /\ lastones[0] = -1 => dom[0][0] = "zero"
    /\ \A r \in DOMAIN lastones \ {0} :
         lastones[r] = lastones[r - 1] /\ lastones[r] < NCols - 1
           => dom[r][lastones[r] + 1] = "zero"

(* The frontier bounds every point that obeys its reason. *)
LEMMA ReasonBounds ==
  ASSUME Control, Frontier, pc = "rows", i < NRows,
         NEW p \in Orbitope[type], \A b \in FrontierReason : p[b[1]] # b[2],
         NEW q \in 0 .. i - 1
  PROVE  p[q] <= lastones[q]
<1> USE SizeAssumption
<1> DEFINE High == {r \in 0 .. i - 1 : p[r] > lastones[r]}
<1>1. i \in Rows /\ i \in Nat /\ type \in Types /\ 0 .. i - 1 \subseteq Rows
      /\ 0 .. i - 1 \subseteq DOMAIN lastones
  BY DEF Control, VarTypes, Places, Rows
<1>2. \A r \in 0 .. i - 1 : p[r] \in Int /\ lastones[r] \in -1 .. NCols - 1
  BY <1>1, PointType DEF Control, Arrays
<1>3. SUFFICES ASSUME High # {} PROVE FALSE
  BY <1>2
<1>4. PICK r \in High : \A y \in High : r <= y
  <2>1. High \subseteq Nat
    BY <1>1
  <2> QED BY <1>3, <2>1, MinExists
<1>5. r \in 0 .. i - 1 /\ r \in Rows /\ r \in Nat /\ p[r] > lastones[r]
  BY <1>1
<1>6. ASSUME NEW y \in 0 .. r - 1 PROVE y \in 0 .. i - 1 /\ y \notin High
  <2>1. y \in 0 .. i - 1 /\ ~(r <= y)
    BY <1>1, <1>5
  <2> QED BY <1>4, <2>1
<1>7. CASE r = 0
  <2>1. p[0] <= 0
    BY <1>1, <1>5, <1>7, BelowDiagonal
  <2>2. lastones[0] = -1 /\ p[0] = 0
    BY <1>2, <1>5, <1>7, <2>1
  <2>3. <<0, 0, "zero">> \in FrontierReason
    BY <2>2 DEF FrontierReason
  <2> QED BY <2>2, <2>3
<1>8. CASE r # 0
  <2> DEFINE l == lastones[r - 1]
  <2>1. r - 1 \in 0 .. i - 1 /\ l \in -1 .. NCols - 1 /\ lastones[r] \in {l, l + 1}
    BY <1>1, <1>2, <1>5, <1>8 DEF Frontier, Chain
  <2>2. ASSUME NEW y \in 0 .. r - 1 PROVE p[y] <= l
    <3>1. p[y] <= lastones[y] /\ y \in 0 .. i - 1
      BY <1>2, <1>6
    <3>2. lastones[y] <= l
      <4> DEFINE Down == {z \in y .. r - 1 : \A w \in z .. r - 1 : lastones[w] <= l}
      <4>1. r - 1 \in Down
        BY <1>5, <2>1
      <4>2. Down \subseteq Nat
        BY <1>5
      <4>3. PICK z \in Down : \A w \in Down : z <= w
        BY <4>1, <4>2, MinExists
      <4>4. CASE z = y
        BY <1>5, <4>3, <4>4
      <4>5. CASE z # y
        <5>0. z \in y .. r - 1 /\ y \in Nat /\ r \in Nat /\ i \in Int /\ r <= i - 1
          BY <1>1, <1>5, <4>3
        <5>1. z - 1 \in y .. r - 1 /\ z \in 0 .. i - 1 /\ z # 0 /\ z - 1 \in 0 .. i - 1
          BY <4>5, <5>0
        <5>2. lastones[z] \in {lastones[z - 1], lastones[z - 1] + 1}
          BY <1>1, <5>1 DEF Frontier, Chain
        <5>3. lastones[z] <= l /\ lastones[z] \in Int /\ lastones[z - 1] \in Int
          BY <1>2, <1>5, <5>1
        <5>4. lastones[z - 1] <= l
          BY <2>1, <5>2, <5>3
        <5>5. \A w \in z - 1 .. r - 1 : lastones[w] <= l
          BY <5>1, <5>4
        <5>6. z - 1 \in Down
          BY <5>1, <5>5
        <5> QED BY <1>5, <4>3, <5>1, <5>6
      <4> QED BY <4>4, <4>5
    <3> QED BY <1>2, <2>1, <3>1, <3>2
  <2>3. p[r] <= l + 1
    BY <1>1, <1>5, <2>1, <2>2, NextColumn
  <2>4. lastones[r] = l /\ p[r] = l + 1
    BY <1>2, <1>5, <2>1, <2>3
  <2>5. p[r] \in -1 .. NCols - 1 /\ p[r] <= r
    BY <1>1, <1>5, PointType, BelowDiagonal
  <2>6. <<r, lastones[r] + 1, "zero">> \in FrontierReason
    <3>1. r \in 1 .. i - 1
      BY <1>5, <1>8
    <3>2. lastones[r] + 1 <= LastColumn(r)
      BY <2>4, <2>5, <1>5 DEF LastColumn
    <3> QED BY <2>4, <3>1, <3>2 DEF FrontierReason
  <2> QED BY <2>4, <2>6
<1> QED BY <1>7, <1>8

(* A row whose frontier did not move is blocked, and stays so. *)
LEMMA HeldStep ==
  ASSUME Control, Frontier, Held, [Next]_vars
  PROVE  Held'
<1> USE SizeAssumption
<1>1. CASE Triangle
  <2>1. DOMAIN lastones' = {0} /\ lastones'[0] = Corner
    BY <1>1 DEF Triangle
  <2>2. Corner = -1 => dom[0][0] = "zero"
    BY DEF Corner
  <2>3. dom[0][0] = "zero" => dom'[0][0] = "zero"
    BY <1>1 DEF Triangle, Fix, Rows, Cols
  <2> QED BY <2>1, <2>2, <2>3 DEF Held
<1>2. CASE RowFix
  <2>1. pc = "rows" /\ i < NRows /\ MoveFrontier
    BY <1>2 DEF RowFix, RowFits
  <2>2. i \in Rows /\ i \in Nat /\ last \in -1 .. NCols - 1 /\ 0 \in DOMAIN lastones
    BY <2>1 DEF Control, VarTypes, Places, Rows
  <2>3. \A r \in Rows, c \in Cols : dom[r][c] = "zero" => dom'[r][c] = "zero"
    BY <1>2 DEF RowFix, Fix
  <2>4. /\ DOMAIN lastones' = 0 .. i
        /\ \A r \in 0 .. i : lastones'[r] = IF r = i THEN Advance(i, last) ELSE lastones[r]
    BY <2>1, MoveType
  <2>5. Advance(i, last) = last /\ last < NCols - 1 => dom[i][last + 1] = "zero"
    BY <2>2, AdvanceType DEF Blocked
  <2>6. last = lastones[IF i = 0 THEN 0 ELSE i - 1]
    BY <2>1 DEF Frontier, AtRow
  <2>7. Advance(i, last) \in -1 .. NCols - 1 /\ (Advance(i, last) = -1 => last = -1)
    BY <2>2, AdvanceType
  <2>8. lastones'[0] = -1 => dom'[0][0] = "zero"
    <3>1. lastones'[0] = -1 => lastones[0] = -1
      BY <2>2, <2>4, <2>6, <2>7
    <3> QED BY <2>1, <2>3, <3>1 DEF Held, Rows, Cols
  <2>9. ASSUME NEW r \in 1 .. i, lastones'[r] = lastones'[r - 1], lastones'[r] < NCols - 1
        PROVE  dom'[r][lastones'[r] + 1] = "zero"
    <3>1. r \in 0 .. i /\ r - 1 \in 0 .. i /\ r - 1 # i /\ r \in Rows
      BY <2>2, <2>9 DEF Rows
    <3>2. CASE r = i
      <4>1. lastones'[r] = Advance(i, last) /\ lastones'[r - 1] = last
        BY <2>2, <2>4, <2>6, <2>9, <3>1, <3>2
      <4>2. Advance(i, last) = last /\ last < NCols - 1
        BY <2>9, <4>1
      <4>3. dom[i][last + 1] = "zero" /\ last + 1 \in Cols
        BY <2>2, <2>5, <4>2 DEF Cols
      <4> QED BY <2>3, <3>1, <3>2, <4>1, <4>2, <4>3
    <3>3. CASE r # i
      <4>1. r \in DOMAIN lastones \ {0} /\ lastones'[r] = lastones[r]
            /\ lastones'[r - 1] = lastones[r - 1]
        BY <2>1, <2>2, <2>4, <2>9, <3>1, <3>3 DEF Control, Places
      <4>2. dom[r][lastones[r] + 1] = "zero"
        BY <2>1, <2>9, <4>1 DEF Held
      <4>3. lastones[r] + 1 \in Cols
        BY <2>9, <4>1 DEF Control, Arrays, Cols
      <4> QED BY <2>3, <3>1, <4>1, <4>2, <4>3
    <3> QED BY <3>2, <3>3
  <2>10. DOMAIN lastones' \ {0} = 1 .. i
    BY <2>2, <2>4
  <2> QED BY <2>8, <2>9, <2>10 DEF Held
<1>3. CASE pc' # "rows"
  BY <1>3 DEF Held
<1>4. CASE UNCHANGED vars
  BY <1>4 DEF vars, Held
<1>5. CASE pc' = "rows" /\ ~Triangle /\ ~RowFix /\ Next
  <2>1. FALSE
    BY <1>5 DEF Next, Call, NotAllowed, RowAllZero, RowBeyond, RowBlocked, EndRows,
                StepFixed, StepOpen, ScanRow, ScanHit, ScanEnd, EndSteps, Leave
  <2> QED BY <2>1
<1> QED BY <1>1, <1>2, <1>3, <1>4, <1>5

(* The bounds that keep the frontier where it is hold. *)
LEMMA ReasonHolds ==
  ASSUME Control, Held, pc = "rows", i < NRows, NEW b \in FrontierReason
  PROVE  b[1] \in Rows /\ b[2] \in Cols /\ b[3] = "zero" /\ dom[b[1]][b[2]] = "zero"
<1> USE SizeAssumption
<1>1. i \in Nat /\ i \in Rows
  BY DEF Control, VarTypes, Rows
<1>2. CASE lastones[0] = -1 /\ b = <<0, 0, "zero">>
  BY <1>2 DEF Held, Rows, Cols
<1>3. ASSUME NEW r \in 1 .. i - 1, lastones[r] + 1 <= LastColumn(r),
             lastones[r - 1] = lastones[r], b = <<r, lastones[r] + 1, "zero">>
      PROVE  b[1] \in Rows /\ b[2] \in Cols /\ b[3] = "zero" /\ dom[b[1]][b[2]] = "zero"
  <2>1. r \in Rows /\ r \in DOMAIN lastones \ {0}
    BY <1>1 DEF Rows, Control, Places
  <2>2. lastones[r] \in -1 .. NCols - 1 /\ LastColumn(r) \in Cols
    BY <2>1, FirstNonzeroType DEF Control, Arrays
  <2>3. lastones[r] < NCols - 1 /\ lastones[r] + 1 \in Cols
    BY <1>3, <2>2 DEF Cols
  <2>4. dom[r][lastones[r] + 1] = "zero"
    BY <1>3, <2>1, <2>3 DEF Held
  <2> QED BY <1>3, <2>1, <2>3, <2>4
<1> QED BY <1>2, <1>3 DEF FrontierReason

(* Above a row in which the frontier stops short of a non-zero of the row,  *)
(* its reason excludes all points with their one beyond.                    *)
LEMMA ReasonExcludes ==
  ASSUME Control, Frontier, pc = "rows", i < NRows, i # 0,
         NEW p \in Orbitope[type], \A b \in FrontierReason : p[b[1]] # b[2],
         NEW c \in Cols, c > Advance(i, last), dom[i][c] # "zero"
  PROVE  p[i] < c
<1> USE SizeAssumption
<1>1. i \in Nat /\ i \in Rows /\ last \in -1 .. NCols - 1 /\ type \in Types
  BY DEF Control, VarTypes, Rows
<1>2. ASSUME NEW q \in 0 .. i - 1 PROVE p[q] <= last
  <2>1. q \in Rows /\ q \in DOMAIN lastones
    BY <1>1 DEF Rows, Control, Places
  <2>2. p[q] <= lastones[q]
    BY ReasonBounds
  <2>3. lastones[q] <= last
    BY <2>1 DEF Frontier, AtRow
  <2>4. p[q] \in -1 .. NCols - 1 /\ lastones[q] \in -1 .. NCols - 1
    BY <1>1, <2>1, PointType DEF Control, Arrays
  <2> QED BY <1>1, <2>2, <2>3, <2>4
<1>3. p[i] <= last + 1 /\ p[i] \in -1 .. NCols - 1
  BY <1>1, <1>2, NextColumn, PointType
<1>4. c \in 0 .. NCols - 1
  BY DEF Cols
<1>5. CASE Blocked(i, last)
  <2>1. Advance(i, last) = last
    BY <1>1, <1>5, AdvanceType
  <2>2. c # last + 1
    BY <1>1, <1>4, <1>5 DEF Blocked
  <2> QED BY <1>1, <1>3, <1>4, <2>1, <2>2
<1>6. CASE ~Blocked(i, last)
  BY <1>1, <1>3, <1>4, <1>6, AdvanceType
<1> QED BY <1>5, <1>6

(* A conflict is a reason: see ConflictExplains. *)
LEMMA BeyondExplained ==
  ASSUME Control, Frontier, Held, RowBeyond
  PROVE  ConflictExplains'
<1> USE SizeAssumption
<1>1. pc = "rows" /\ i < NRows /\ i \in Nat /\ i \in Rows /\ dom' = dom /\ type' = type
      /\ last \in -1 .. NCols - 1 /\ type \in Types
  BY DEF RowBeyond, Control, VarTypes, Rows
<1> DEFINE f == FirstNonzero(i)
           Own == IF type = "partitioning" THEN {<<i, c, "zero">> : c \in 0 .. f - 1}
                  ELSE {<<i, f, "one">>}
<1>2. conflict' = FrontierReason \cup Own /\ f > Advance(i, last)
  BY DEF RowBeyond
<1>3. /\ f \in Cols /\ f \in FirstCandidates(i) /\ LastColumn(i) \in Cols
      /\ \A c \in FirstCandidates(i) : f <= c
      /\ f <= LastColumn(i) /\ Advance(i, last) \in -1 .. NCols - 1
  <2>1. Advance(i, last) \in -1 .. NCols - 1
    BY <1>1, AdvanceType
  <2>2. f \in -1 .. LastColumn(i) /\ LastColumn(i) \in Cols
    BY <1>1, FirstNonzeroType
  <2>3. f # -1 /\ f \in Cols /\ f <= LastColumn(i)
    BY <1>2, <2>1, <2>2 DEF Cols
  <2> QED BY <1>1, <2>1, <2>2, <2>3, FirstNonzeroType
<1>4. /\ dom[i][f] # "zero"
      /\ type # "partitioning" => dom[i][f] = "one"
      /\ type = "partitioning" => \A c \in 0 .. f - 1 : dom[i][c] = "zero"
  <2>1. dom[i][f] # "zero" /\ (type # "partitioning" => dom[i][f] = "one")
    BY <1>3 DEF FirstCandidates
  <2>2. ASSUME type = "partitioning", NEW c \in 0 .. f - 1 PROVE dom[i][c] = "zero"
    <3>1. c \in 0 .. LastColumn(i) /\ ~(f <= c)
      BY <1>3 DEF Cols
    <3>2. c \notin FirstCandidates(i)
      BY <1>3, <3>1
    <3> QED BY <2>2, <3>1, <3>2 DEF FirstCandidates
  <2> QED BY <2>1, <2>2
<1>5. ASSUME NEW b \in conflict' PROVE dom'[b[1]][b[2]] = b[3]
  <2>1. CASE b \in FrontierReason
    BY <1>1, <2>1, ReasonHolds
  <2>2. CASE b \in Own
    BY <1>1, <1>4, <2>2
  <2> QED BY <1>2, <2>1, <2>2
<1>6. ASSUME NEW p \in Orbitope[type]
      PROVE  \E b \in conflict' : IF b[3] = "one" THEN p[b[1]] # b[2] ELSE p[b[1]] = b[2]
  <2>1. CASE \E b \in FrontierReason : p[b[1]] = b[2]
    <3>1. PICK b \in FrontierReason : p[b[1]] = b[2]
      BY <2>1
    <3>2. b[3] = "zero"
      BY <1>1, ReasonHolds
    <3> QED BY <1>2, <3>1, <3>2
  <2>2. CASE \A b \in FrontierReason : p[b[1]] # b[2]
    <3>1. p[i] < f /\ p[i] \in -1 .. NCols - 1
      <4>1. CASE i = 0
        <5>1. last = lastones[0] /\ LastColumn(0) = 0 /\ f = 0
          BY <1>1, <1>2, <1>3, <4>1 DEF Frontier, AtRow, LastColumn, Cols
        <5>2. last = -1
          BY <1>1, <1>2, <1>3, <5>1, AdvanceType
        <5>3. p[0] # 0
          <6>1. <<0, 0, "zero">> \in FrontierReason
            BY <5>1, <5>2 DEF FrontierReason
          <6> QED BY <2>2, <6>1
        <5>4. p[0] \in -1 .. NCols - 1 /\ p[0] <= 0
          BY <1>1, <4>1, PointType, BelowDiagonal
        <5> QED BY <4>1, <5>1, <5>3, <5>4
      <4>2. CASE i # 0
        BY <1>1, <1>2, <1>3, <1>4, <2>2, <4>2, ReasonExcludes, PointType
      <4> QED BY <4>1, <4>2
    <3>2. CASE type = "partitioning"
      <4>1. p[i] \in 0 .. f - 1
        BY <1>1, <1>3, <3>1, <3>2, PointType DEF Cols
      <4>2. <<i, p[i], "zero">> \in conflict'
        BY <1>2, <3>2, <4>1
      <4> QED BY <4>2
    <3>3. CASE type # "partitioning"
      <4>1. <<i, f, "one">> \in conflict' /\ p[i] # f
        BY <1>2, <1>3, <3>1, <3>3 DEF Cols
      <4> QED BY <4>1
    <3> QED BY <3>2, <3>3
  <2> QED BY <2>1, <2>2
<1> QED BY <1>1, <1>5, <1>6 DEF ConflictExplains

LEMMA BlockedExplained ==
  ASSUME Control, Frontier, Held, RowBlocked
  PROVE  ConflictExplains'
<1> USE SizeAssumption
<1>1. pc = "rows" /\ i < NRows /\ i \in Nat /\ i \in Rows /\ type' = type
      /\ last \in -1 .. NCols - 1 /\ type \in Types /\ ~Submatrix /\ i # 0
  BY DEF RowBlocked, RowFits, Control, VarTypes, Places, First, Rows
<1>2. PICK o \in Ones(dom, Beyond) : conflict' = FrontierReason \cup {<<o[1], o[2], "one">>}
  BY DEF RowBlocked
<1>3. o[1] = i /\ o[2] \in Cols /\ o[2] > Advance(i, last) /\ dom[i][o[2]] = "one"
  <2>1. PICK c \in Advance(i, last) + 1 .. LastColumn(i) : o = <<i, c>>
    BY DEF Ones, Beyond
  <2>2. Advance(i, last) \in -1 .. NCols - 1 /\ LastColumn(i) \in Cols
    BY <1>1, AdvanceType, FirstNonzeroType
  <2>3. c \in Cols /\ c > Advance(i, last)
    BY <2>2 DEF Cols
  <2> QED BY <2>1, <2>3 DEF Ones
<1>4. \A r \in Rows, c \in Cols : dom[r][c] # "free" => dom'[r][c] = dom[r][c]
  BY DEF RowBlocked, Fix, FreeBeforeOne, Free
<1>5. ASSUME NEW b \in conflict' PROVE dom'[b[1]][b[2]] = b[3]
  <2>1. CASE b \in FrontierReason
    BY <1>1, <1>4, <2>1, ReasonHolds
  <2>2. CASE b = <<o[1], o[2], "one">>
    BY <1>1, <1>3, <1>4, <2>2
  <2> QED BY <1>2, <2>1, <2>2
<1>6. ASSUME NEW p \in Orbitope[type]
      PROVE  \E b \in conflict' : IF b[3] = "one" THEN p[b[1]] # b[2] ELSE p[b[1]] = b[2]
  <2>1. CASE \E b \in FrontierReason : p[b[1]] = b[2]
    <3>1. PICK b \in FrontierReason : p[b[1]] = b[2]
      BY <2>1
    <3>2. b[3] = "zero"
      BY <1>1, ReasonHolds
    <3> QED BY <1>2, <3>1, <3>2
  <2>2. CASE \A b \in FrontierReason : p[b[1]] # b[2]
    <3>1. p[i] < o[2] /\ p[i] \in -1 .. NCols - 1
      BY <1>1, <1>3, <2>2, ReasonExcludes, PointType
    <3>2. p[o[1]] # o[2]
      BY <1>3, <3>1 DEF Cols
    <3>3. <<o[1], o[2], "one">> \in conflict'
      BY <1>2
    <3> QED BY <3>2, <3>3
  <2> QED BY <2>1, <2>2
<1> QED BY <1>1, <1>5, <1>6 DEF ConflictExplains

(* The bounds given to conflict analysis hold, and no point of the orbitope *)
(* satisfies them: for every size, in the matrix and in submatrices.        *)
THEOREM ConflictIsReason == Spec => []ConflictExplains
<1>1. Init => Held /\ ConflictExplains
  BY DEF Init, Held, ConflictExplains
<1>2. Control /\ Frontier /\ Held /\ ConflictExplains /\ [Next]_vars
        => (Held /\ ConflictExplains)'
  <2> SUFFICES ASSUME Control, Frontier, Held, ConflictExplains, [Next]_vars
               PROVE  Held' /\ ConflictExplains'
    OBVIOUS
  <2>1. Held'
    BY HeldStep
  <2>2. CASE RowBeyond
    BY <2>1, <2>2, BeyondExplained
  <2>3. CASE RowBlocked
    BY <2>1, <2>3, BlockedExplained
  <2>4. CASE conflict' = {}
    BY <2>1, <2>4 DEF ConflictExplains
  <2>5. CASE UNCHANGED <<dom, conflict, type>>
    BY <2>1, <2>5 DEF ConflictExplains
  <2>6. CASE Call \/ NotAllowed \/ Triangle \/ RowAllZero \/ RowFix \/ ScanHit \/ Leave
    <3>1. pc \in {"idle", "triangle", "rows", "scan"} => conflict = {}
      BY DEF Control, Places
    <3>2. conflict' = {}
      BY <2>6, <3>1 DEF Call, NotAllowed, Triangle, RowAllZero, RowFix, RowFits, ScanHit, Leave
    <3> QED BY <2>4, <3>2
  <2>7. CASE EndRows \/ StepFixed \/ StepOpen \/ ScanRow \/ ScanEnd \/ EndSteps
    BY <2>5, <2>7 DEF EndRows, StepFixed, StepOpen, ScanRow, ScanEnd, EndSteps
  <2>8. CASE UNCHANGED vars
    BY <2>5, <2>8 DEF vars
  <2> QED BY <2>2, <2>3, <2>6, <2>7, <2>8 DEF Next
<1> QED BY <1>1, <1>2, ControlInvariant, FrontierInvariant, PTL DEF Spec

-------------------------------------------------------------------------------
(***************************************************************************)
(* The converse: nothing is overlooked.  When the function for the whole   *)
(* matrix comes to its end without a verdict, and the constraints on the   *)
(* rows have nothing to add, every free entry but the corner is zero in    *)
(* one point of the orbitope and one in another.                           *)
(*                                                                         *)
(* The points are made from the frontier.  Where it steps, they have their *)
(* one at the step; in the other rows, at the first non-zero, or at the    *)
(* entry in question.  For a step that is not taken, the frontier of the   *)
(* supposition serves, which the look-ahead has followed to the last row.  *)
(***************************************************************************)

(* Where a frontier is in row r, when it is in column l above it. *)
Onward(d, r, l) == IF l = NCols - 1 \/ d[r][l + 1] = "zero" THEN l ELSE l + 1

(* From row r to row t, b goes on as a frontier does. *)
Goes(d, b, r, t) == \A q \in r + 1 .. t : b[q] = Onward(d, q, b[q - 1])

LEMMA OnwardType ==
  ASSUME NEW d, NEW r, NEW l \in -1 .. NCols - 1
  PROVE  /\ Onward(d, r, l) \in -1 .. NCols - 1
         /\ Onward(d, r, l) \in {l, l + 1}
         /\ Onward(d, r, l) = l + 1 => d[r][l + 1] # "zero" /\ l + 1 \in Cols
BY SizeAssumption DEF Onward, Cols

LEMMA AdvanceIsOnward ==
  ASSUME NEW r, NEW l PROVE Advance(r, l) = Onward(dom, r, l)
BY DEF Advance, Blocked, Onward

LEMMA OnwardMonotone ==
  ASSUME NEW d, NEW r, NEW l \in -1 .. NCols - 1, NEW m \in -1 .. NCols - 1, l <= m
  PROVE  Onward(d, r, l) <= Onward(d, r, m)
<1>1. CASE l = m
  BY <1>1, OnwardType, SizeAssumption
<1>2. CASE l # m
  <2>1. Onward(d, r, l) \in {l, l + 1} /\ Onward(d, r, m) \in {m, m + 1}
    BY OnwardType
  <2> QED BY <1>2, <2>1, SizeAssumption
<1> QED BY <1>1, <1>2

(* A frontier that starts to the left of another one stays there. *)
LEMMA StaysLeft ==
  ASSUME NEW d, NEW r \in Rows, NEW t \in Rows, NEW x, NEW y,
         \A q \in r .. t : x[q] \in -1 .. NCols - 1 /\ y[q] \in -1 .. NCols - 1,
         Goes(d, x, r, t), Goes(d, y, r, t), x[r] <= y[r]
  PROVE  \A q \in r .. t : x[q] <= y[q]
<1> DEFINE Ahead == {q \in r .. t : x[q] > y[q]}
<1>0. r \in Nat /\ t \in Nat /\ NCols \in Nat
  BY SizeAssumption DEF Rows
<1>1. SUFFICES ASSUME Ahead # {} PROVE FALSE
  <2>1. SUFFICES ASSUME NEW q \in r .. t PROVE x[q] <= y[q]
    OBVIOUS
  <2>2. x[q] \in Int /\ y[q] \in Int /\ ~(x[q] > y[q])
    BY <1>0, <1>1
  <2> QED BY <2>2
<1>2. Ahead \subseteq Nat
  BY <1>0
<1>3. PICK q \in Ahead : \A u \in Ahead : q <= u
  BY <1>1, <1>2, MinExists
<1>4. q \in r .. t /\ x[q] > y[q] /\ q # r
  <2>1. r > t \/ (x[r] \in Int /\ y[r] \in Int)
    BY <1>0
  <2> QED BY <1>0, <1>3, <2>1
<1>5. q - 1 \in r .. t /\ q \in r + 1 .. t /\ q - 1 < q
  BY <1>0, <1>4
<1>6. x[q - 1] \in -1 .. NCols - 1 /\ y[q - 1] \in -1 .. NCols - 1
  BY <1>5
<1>7. ~(q <= q - 1)
  BY <1>0, <1>4
<1>8. q - 1 \notin Ahead
  BY <1>3, <1>7
<1>9. x[q - 1] <= y[q - 1]
  BY <1>0, <1>5, <1>6, <1>8
<1>10. x[q] = Onward(d, q, x[q - 1]) /\ y[q] = Onward(d, q, y[q - 1])
  BY <1>5 DEF Goes
<1>11. x[q] <= y[q]
  BY <1>6, <1>9, <1>10, OnwardMonotone
<1>12. x[q] \in Int /\ y[q] \in Int
  BY <1>0, <1>4
<1> QED BY <1>4, <1>11, <1>12

-------------------------------------------------------------------------------
(***************************************************************************)
(* Points made from a frontier.                                            *)
(***************************************************************************)

(* In each row b stays in its column or moves to the next one.             *)
Way(b) ==
  /\ b \in [Rows -> -1 .. NCols - 1] /\ b[0] <= 0
  /\ \A q \in 1 .. NRows - 1 : b[q] \in {b[q - 1], b[q - 1] + 1}

(* The ones are at the steps of b, and otherwise where g has them.         *)
PointOf(b, g) == [q \in Rows |-> IF q = 0 \/ b[q] # b[q - 1] THEN b[q] ELSE g[q]]

(* Each column of such a point is opened to the right of the one before. *)
LEMMA WayToPoint ==
  ASSUME NEW t \in Types, NEW b, Way(b), NEW g \in [1 .. NRows - 1 -> -1 .. NCols - 1],
         \A q \in 1 .. NRows - 1 : g[q] <= b[q],
         t = "partitioning" => b[0] = 0 /\ \A q \in 1 .. NRows - 1 : g[q] # -1
  PROVE  PointOf(b, g) \in Orbitope[t]
<1> DEFINE p == PointOf(b, g)
<1>0. NRows \in Nat /\ NRows > 0 /\ NCols \in Nat /\ NCols > 0 /\ Rows = 0 .. NRows - 1
  BY SizeAssumption DEF Rows
<1>1. \A q \in Rows : b[q] \in -1 .. NCols - 1
  BY DEF Way
<1>2. \A q \in 1 .. NRows - 1 : q \in Rows /\ q - 1 \in Rows /\ g[q] \in -1 .. NCols - 1
  BY <1>0
<1>3. /\ p[0] = b[0]
      /\ \A q \in 1 .. NRows - 1 : b[q] # b[q - 1] => p[q] = b[q]
      /\ \A q \in 1 .. NRows - 1 : b[q] = b[q - 1] => p[q] = g[q]
  BY <1>0, <1>2 DEF PointOf
<1>4. \A q \in Rows : p[q] \in -1 .. NCols - 1 /\ p[q] <= b[q]
  <2> SUFFICES ASSUME NEW q \in Rows PROVE p[q] \in -1 .. NCols - 1 /\ p[q] <= b[q]
    OBVIOUS
  <2>1. CASE q = 0
    BY <1>0, <1>1, <1>3, <2>1
  <2>2. CASE q # 0
    <3>1. q \in 1 .. NRows - 1
      BY <1>0, <2>2
    <3> QED BY <1>0, <1>1, <1>2, <1>3, <3>1
  <2> QED BY <2>1, <2>2
<1>5. p \in Placements(t)
  <2>1. p \in [Rows -> -1 .. NCols - 1]
    BY <1>4 DEF PointOf
  <2>2. ASSUME t = "partitioning", NEW q \in Rows PROVE p[q] # -1
    <3>1. CASE q = 0
      BY <1>3, <2>2, <3>1
    <3>2. CASE q # 0
      <4>1. q \in 1 .. NRows - 1
        BY <1>0, <3>2
      <4>2. CASE b[q] = b[q - 1]
        BY <1>3, <2>2, <4>1, <4>2
      <4>3. CASE b[q] # b[q - 1]
        <5>1. b[q] = b[q - 1] + 1 /\ b[q - 1] \in -1 .. NCols - 1
          BY <1>1, <1>2, <4>1, <4>3 DEF Way
        <5> QED BY <1>0, <1>3, <4>1, <4>3, <5>1
      <4> QED BY <4>2, <4>3
    <3> QED BY <3>1, <3>2
  <2>3. CASE t = "packing"
    BY <2>1, <2>3 DEF Placements
  <2>4. CASE t # "packing"
    <3>1. t = "partitioning"
      BY <2>4, TypeAssumption
    <3>2. \A q \in Rows : p[q] \in 0 .. NCols - 1
      BY <1>0, <1>4, <2>2, <3>1
    <3> QED BY <2>1, <2>4, <3>2 DEF Placements
  <2> QED BY <2>3, <2>4
<1>6. ASSUME NEW c \in 1 .. NCols - 1 PROVE LexGeq(p, c - 1, c)
  <2> DEFINE Open == {q \in Rows : p[q] \in {c - 1, c}}
  <2>0. c \in Nat /\ c >= 1
    BY <1>0
  <2>1. CASE Open = {}
    BY <2>0, <2>1 DEF LexGeq, Entry
  <2>2. CASE Open # {}
    <3>1. Open \subseteq Nat
      BY <1>0
    <3>2. PICK m \in Open : \A y \in Open : m <= y
      BY <2>2, <3>1, MinExists
    <3>3. ASSUME p[m] = c PROVE FALSE
      <4> DEFINE Far == {q \in Rows : b[q] >= c - 1}
      <4>1. m \in Rows /\ m \in Far
        <5>1. m \in Rows /\ b[m] \in Int /\ p[m] <= b[m]
          BY <1>0, <1>1, <1>4
        <5> QED BY <2>0, <3>3, <5>1
      <4>2. Far \subseteq Nat
        BY <1>0
      <4>3. PICK n \in Far : \A y \in Far : n <= y
        BY <4>1, <4>2, MinExists
      <4>4. n \in Rows /\ b[n] >= c - 1 /\ b[n] \in Int /\ n <= m
        BY <1>0, <1>1, <4>1, <4>3
      <4>5. p[n] = c - 1
        <5>1. CASE n = 0
          <6>1. b[0] = c - 1
            BY <2>0, <4>4, <5>1 DEF Way
          <6> QED BY <1>3, <5>1, <6>1
        <5>2. CASE n # 0
          <6>1. n \in 1 .. NRows - 1 /\ n - 1 \in Rows /\ ~(n <= n - 1)
            BY <1>0, <4>4, <5>2
          <6>2. b[n - 1] \in Int /\ ~(b[n - 1] >= c - 1)
            BY <1>0, <1>1, <4>3, <6>1
          <6>3. b[n] = b[n - 1] \/ b[n] = b[n - 1] + 1
            BY <6>1 DEF Way
          <6>4. b[n] = c - 1 /\ b[n] # b[n - 1]
            BY <2>0, <4>4, <6>2, <6>3
          <6> QED BY <1>3, <6>1, <6>4
        <5> QED BY <5>1, <5>2
      <4>6. n \in Open /\ n # m
        BY <2>0, <3>3, <4>4, <4>5
      <4> QED BY <1>0, <3>2, <4>1, <4>4, <4>6
    <3>4. m \in Rows /\ p[m] = c - 1
      BY <3>2, <3>3
    <3>5. Entry(p, m, c - 1) = 1 /\ Entry(p, m, c) = 0
      BY <2>0, <3>4 DEF Entry
    <3>6. ASSUME NEW q \in 0 .. m - 1 PROVE Entry(p, q, c - 1) = Entry(p, q, c)
      <4>1. q \in Rows /\ ~(m <= q)
        BY <1>0, <3>4
      <4>2. p[q] # c - 1 /\ p[q] # c
        BY <3>2, <4>1
      <4> QED BY <4>2 DEF Entry
    <3> QED BY <3>4, <3>5, <3>6 DEF LexGeq
  <2> QED BY <2>1, <2>2
<1> QED BY <1>5, <1>6 DEF Orbitope

-------------------------------------------------------------------------------
(***************************************************************************)
(* What the function leaves behind: bounds d, the frontier L and the first *)
(* non-zeros f.                                                            *)
(***************************************************************************)

(* The frontiers from row r to row t of the supposition that the step of    *)
(* row r is not taken.                                                      *)
Trails(d, L, r, t) ==
  {b \in [r .. t -> -1 .. NCols - 1] : b[r] = L[r] - 1 /\ Goes(d, b, r, t)}

(* It leaves room for the first non-zero of each row, or of some row not.   *)
HasRoom(d, L, f, r) ==
  \E b \in Trails(d, L, r, NRows - 1) : \A q \in r + 1 .. NRows - 1 : f[q] <= b[q]
NoRoom(d, L, f, r) ==
  \E t \in r + 1 .. NRows - 1 : \E b \in Trails(d, L, r, t) : f[t] > b[t]

TopShaped(d, L) ==
  /\ \A c \in Cols : c > 0 => d[0][c] = "zero"
  /\ L[0] = IF type = "packing" /\ d[0][0] = "zero" THEN -1 ELSE 0

(* Row q has been processed: beyond the frontier it is zero.                *)
RowShaped(d, L, f, q) ==
  /\ L[q] = Onward(d, q, L[q - 1])
  /\ \A c \in Cols : c > L[q] => d[q][c] = "zero"
  /\ f[q] <= L[q]
  /\ type = "partitioning" => f[q] # -1
  /\ f[q] # -1 => d[q][f[q]] # "zero"

(* A one in it is the first non-zero, or has been fixed by the look-ahead.  *)
OneShaped(d, L, f, q) ==
  \A c \in Cols : d[q][c] = "one" =>
    f[q] # -1 \/ (L[q] # L[q - 1] /\ c = L[q] /\ NoRoom(d, L, f, q))

(* All rows have been processed, and all steps tried.                       *)
Finished(d, L, f) ==
  /\ type \in Types /\ d \in Bounds /\ L \in [Rows -> -1 .. NCols - 1]
  /\ f \in [1 .. NRows - 1 -> -1 .. NCols - 1]
  /\ TopShaped(d, L)
  /\ \A q \in 1 .. NRows - 1 :
       /\ RowShaped(d, L, f, q) /\ OneShaped(d, L, f, q)
       /\ L[q] # L[q - 1] => d[q][L[q]] = "one" \/ HasRoom(d, L, f, q)
  /\ Closed(d)

(* The bounds d admit the value v in row q. *)
Admits(d, q, v) ==
  (v # -1 => d[q][v] # "zero") /\ \A c \in Cols : d[q][c] = "one" => v = c

LEMMA AdmittedFits ==
  ASSUME NEW d, NEW p, \A q \in Rows : Admits(d, q, p[q])
  PROVE  Fits(p, d)
<1> SUFFICES ASSUME NEW r \in Rows, NEW c \in Cols
             PROVE  /\ d[r][c] = "one"  => p[r] = c
                    /\ d[r][c] = "zero" => p[r] # c
  BY DEF Fits
<1>1. c # -1
  BY SizeAssumption DEF Cols
<1> QED BY <1>1 DEF Admits

LEMMA FinishedFacts ==
  ASSUME NEW d, NEW L, NEW f, Finished(d, L, f)
  PROVE  /\ Way(L) /\ Admits(d, 0, L[0])
         /\ type = "partitioning" => L[0] = 0
         /\ \A q \in Rows : L[q] \in -1 .. NCols - 1
         /\ \A q \in 1 .. NRows - 1 : /\ q \in Rows /\ q - 1 \in Rows
                                      /\ f[q] \in -1 .. NCols - 1 /\ f[q] <= L[q]
                                      /\ L[q] = Onward(d, q, L[q - 1])
                                      /\ L[q] \in {L[q - 1], L[q - 1] + 1}
<1>0. NRows \in Nat /\ NRows > 0 /\ NCols \in Nat /\ NCols > 0 /\ Rows = 0 .. NRows - 1
      /\ Cols = 0 .. NCols - 1
  BY SizeAssumption DEF Rows, Cols
<1>1. \A q \in Rows : L[q] \in -1 .. NCols - 1
  BY DEF Finished
<1>2. ASSUME NEW q \in 1 .. NRows - 1
      PROVE  /\ q \in Rows /\ q - 1 \in Rows
             /\ f[q] \in -1 .. NCols - 1 /\ f[q] <= L[q]
             /\ L[q] = Onward(d, q, L[q - 1])
             /\ L[q] \in {L[q - 1], L[q - 1] + 1}
  <2>1. q \in Rows /\ q - 1 \in Rows
    BY <1>0
  <2>2. f[q] \in -1 .. NCols - 1 /\ f[q] <= L[q] /\ L[q] = Onward(d, q, L[q - 1])
    BY DEF Finished, RowShaped
  <2>3. L[q - 1] \in -1 .. NCols - 1
    BY <1>1, <2>1
  <2> QED BY <2>1, <2>2, <2>3, OnwardType
<1>3. L[0] \in {-1, 0} /\ (type = "partitioning" => L[0] = 0)
  BY DEF Finished, TopShaped
<1>4. Way(L)
  BY <1>2, <1>3 DEF Way, Finished
<1>5. 0 \in Rows /\ 0 \in Cols
  BY <1>0
<1>6. \A c \in Cols : c # 0 => d[0][c] = "zero"
  BY <1>0 DEF Finished, TopShaped
<1>7. L[0] = -1 => d[0][0] = "zero"
  BY DEF Finished, TopShaped
<1>8. L[0] = 0 => d[0][0] # "zero"
  <2>1. CASE type = "packing"
    BY <2>1 DEF Finished, TopShaped
  <2>2. CASE type # "packing"
    <3>1. type = "partitioning"
      BY <2>2, TypeAssumption DEF Finished
    <3>2. \E c \in Cols : d[0][c] # "zero"
      BY <1>5, <3>1 DEF Finished, Closed
    <3> QED BY <1>6, <3>2
  <2> QED BY <2>1, <2>2
<1>9. Admits(d, 0, L[0])
  BY <1>3, <1>6, <1>7, <1>8 DEF Admits
<1> QED BY <1>1, <1>2, <1>3, <1>4, <1>9

(* A frontier that comes from column x in row q - 1 to column y. *)
LEMMA FollowedAdmits ==
  ASSUME NEW d, NEW L, NEW f, Finished(d, L, f),
         NEW q \in 1 .. NRows - 1, NEW x \in -1 .. NCols - 1, NEW y, y = Onward(d, q, x),
         L[q] # L[q - 1] /\ NoRoom(d, L, f, q) => y = L[q] /\ x = L[q - 1]
  PROVE  Admits(d, q, IF y # x THEN y ELSE f[q])
<1>0. q \in Rows /\ f[q] \in -1 .. NCols - 1
  BY FinishedFacts
<1>1. ASSUME NEW c \in Cols, d[q][c] = "one", NEW v \in Cols, d[q][v] # "zero" PROVE v = c
  BY <1>0, <1>1 DEF Finished, Closed
<1>2. CASE y # x
  <2>1. y \in Cols /\ d[q][y] # "zero"
    BY <1>2, OnwardType
  <2> QED BY <1>1, <1>2, <2>1 DEF Admits
<1>3. CASE y = x
  <2>1. f[q] # -1 => d[q][f[q]] # "zero" /\ f[q] \in Cols
    BY <1>0, SizeAssumption DEF Finished, RowShaped, Cols
  <2>2. ASSUME NEW c \in Cols, d[q][c] = "one" PROVE f[q] = c
    <3>1. f[q] # -1 \/ (L[q] # L[q - 1] /\ NoRoom(d, L, f, q))
      BY <2>2 DEF Finished, OneShaped
    <3>2. f[q] # -1
      BY <1>3, <3>1
    <3> QED BY <1>1, <2>1, <2>2, <3>2
  <2> QED BY <1>3, <2>1, <2>2 DEF Admits
<1> QED BY <1>2, <1>3

LEMMA WayAdmitted ==
  ASSUME NEW d, NEW L, NEW f, Finished(d, L, f),
         NEW b, Way(b), b[0] = L[0],
         NEW g \in [1 .. NRows - 1 -> -1 .. NCols - 1],
         \A q \in 1 .. NRows - 1 :
           /\ g[q] <= b[q] /\ (type = "partitioning" => g[q] # -1)
           /\ Admits(d, q, IF b[q] # b[q - 1] THEN b[q] ELSE g[q])
  PROVE  PointOf(b, g) \in Orbitope[type] /\ Fits(PointOf(b, g), d)
<1>1. type \in Types
  BY DEF Finished
<1>2. type = "partitioning" => b[0] = 0
  BY FinishedFacts
<1>3. PointOf(b, g) \in Orbitope[type]
  BY <1>1, <1>2, WayToPoint
<1>4. ASSUME NEW q \in Rows PROVE Admits(d, q, PointOf(b, g)[q])
  <2>1. CASE q = 0
    <3>1. PointOf(b, g)[q] = L[0]
      BY <2>1 DEF PointOf
    <3> QED BY <2>1, <3>1, FinishedFacts
  <2>2. CASE q # 0
    <3>1. q \in 1 .. NRows - 1
      BY <2>2, SizeAssumption DEF Rows
    <3>2. PointOf(b, g)[q] = IF b[q] # b[q - 1] THEN b[q] ELSE g[q]
      BY <2>2 DEF PointOf
    <3> QED BY <3>1, <3>2
  <2> QED BY <2>1, <2>2
<1> QED BY <1>3, <1>4, AdmittedFits

(* The point that takes all steps. *)
LEMMA StepsPoint ==
  ASSUME NEW d, NEW L, NEW f, Finished(d, L, f)
  PROVE  \E p \in Orbitope[type] :
           /\ Fits(p, d)
           /\ \A q \in 1 .. NRows - 1 : L[q] # L[q - 1] => p[q] = L[q]
<1>1. ASSUME NEW q \in 1 .. NRows - 1
      PROVE  /\ f[q] <= L[q] /\ (type = "partitioning" => f[q] # -1)
             /\ Admits(d, q, IF L[q] # L[q - 1] THEN L[q] ELSE f[q])
  <2>1. L[q - 1] \in -1 .. NCols - 1 /\ f[q] <= L[q] /\ L[q] = Onward(d, q, L[q - 1])
    BY FinishedFacts
  <2>2. type = "partitioning" => f[q] # -1
    BY DEF Finished, RowShaped
  <2> QED BY <2>1, <2>2, FollowedAdmits
<1>2. Way(L) /\ f \in [1 .. NRows - 1 -> -1 .. NCols - 1]
  BY FinishedFacts DEF Finished
<1>3. PointOf(L, f) \in Orbitope[type] /\ Fits(PointOf(L, f), d)
  BY <1>1, <1>2, WayAdmitted
<1>4. \A q \in 1 .. NRows - 1 : L[q] # L[q - 1] => PointOf(L, f)[q] = L[q]
  BY FinishedFacts DEF PointOf
<1> QED BY <1>3, <1>4

(* Where the frontier does not step, it leaves the choice of the value.     *)
LEMMA StayPoint ==
  ASSUME NEW d, NEW L, NEW f, Finished(d, L, f), NEW r \in 1 .. NRows - 1, L[r] = L[r - 1],
         NEW v \in -1 .. NCols - 1, v <= L[r], Admits(d, r, v),
         type = "partitioning" => v # -1
  PROVE  \E p \in Orbitope[type] : Fits(p, d) /\ p[r] = v
<1> DEFINE g == [f EXCEPT ![r] = v]
<1>1. g \in [1 .. NRows - 1 -> -1 .. NCols - 1] /\ g[r] = v
      /\ \A q \in 1 .. NRows - 1 : q # r => g[q] = f[q]
  BY DEF Finished
<1>2. ASSUME NEW q \in 1 .. NRows - 1
      PROVE  /\ g[q] <= L[q] /\ (type = "partitioning" => g[q] # -1)
             /\ Admits(d, q, IF L[q] # L[q - 1] THEN L[q] ELSE g[q])
  <2>1. CASE q = r
    BY <1>1, <2>1
  <2>2. CASE q # r
    <3>1. L[q - 1] \in -1 .. NCols - 1 /\ f[q] <= L[q] /\ L[q] = Onward(d, q, L[q - 1])
      BY FinishedFacts
    <3>2. type = "partitioning" => f[q] # -1
      BY DEF Finished, RowShaped
    <3>3. Admits(d, q, IF L[q] # L[q - 1] THEN L[q] ELSE f[q])
      BY <3>1, FollowedAdmits
    <3> QED BY <1>1, <2>2, <3>1, <3>2, <3>3
  <2> QED BY <2>1, <2>2
<1> HIDE DEF g
<1>3. PointOf(L, g) \in Orbitope[type] /\ Fits(PointOf(L, g), d)
  BY <1>1, <1>2, FinishedFacts, WayAdmitted
<1>4. PointOf(L, g)[r] = v
  <2>1. r \in Rows /\ r # 0
    BY FinishedFacts, SizeAssumption
  <2> QED BY <1>1, <2>1 DEF PointOf
<1> QED BY <1>3, <1>4

(* A frontier that has room below an untaken step takes the steps that the  *)
(* look-ahead has fixed.                                                    *)
LEMMA TakesFixedSteps ==
  ASSUME NEW d, NEW L, NEW f, Finished(d, L, f), NEW r \in 1 .. NRows - 1,
         NEW b \in Trails(d, L, r, NRows - 1),
         \A q \in r + 1 .. NRows - 1 : f[q] <= b[q],
         NEW s \in r + 1 .. NRows - 1, L[s] # L[s - 1], NoRoom(d, L, f, s)
  PROVE  b[s] = L[s] /\ b[s - 1] = L[s - 1]
<1>0. NRows \in Nat /\ NCols \in Nat /\ Rows = 0 .. NRows - 1 /\ r \in Rows /\ NRows - 1 \in Rows
  BY SizeAssumption DEF Rows
<1>1. /\ \A q \in r .. NRows - 1 : b[q] \in -1 .. NCols - 1
      /\ b[r] = L[r] - 1 /\ Goes(d, b, r, NRows - 1)
  BY DEF Trails
<1>2. \A q \in r .. NRows - 1 : q \in Rows /\ L[q] \in -1 .. NCols - 1
  BY <1>0, FinishedFacts
<1>3. Goes(d, L, r, NRows - 1)
  <2>1. \A q \in r + 1 .. NRows - 1 : q \in 1 .. NRows - 1
    BY <1>0
  <2> QED BY <2>1, FinishedFacts DEF Goes
<1>4. r \in r .. NRows - 1
  BY <1>0
<1>5. L[r] \in Int /\ b[r] <= L[r]
  BY <1>0, <1>1, <1>2, <1>4
<1>6. \A q \in r .. NRows - 1 : b[q] <= L[q]
  BY <1>0, <1>1, <1>2, <1>3, <1>5, StaysLeft
<1>7. s \in r .. NRows - 1 /\ s - 1 \in r .. NRows - 1 /\ s \in 1 .. NRows - 1 /\ s \in Rows
  BY <1>0
<1>8. ASSUME b[s] <= L[s] - 1 PROVE FALSE
  <2>0. PICK t \in s + 1 .. NRows - 1 : \E c \in Trails(d, L, s, t) : f[t] > c[t]
    BY DEF NoRoom
  <2>1. PICK c \in Trails(d, L, s, t) : f[t] > c[t]
    BY <2>0
  <2>2. /\ \A q \in s .. t : c[q] \in -1 .. NCols - 1
        /\ c[s] = L[s] - 1 /\ Goes(d, c, s, t)
    BY <2>1 DEF Trails
  <2>3. t \in Rows /\ t \in r + 1 .. NRows - 1 /\ t \in s .. t /\ t \in r .. NRows - 1
        /\ t \in 1 .. NRows - 1
    BY <1>0, <2>1
  <2>4. \A q \in s .. t : q \in r .. NRows - 1
    BY <1>0, <2>3
  <2>5. Goes(d, b, s, t)
    <3>1. \A q \in s + 1 .. t : q \in r + 1 .. NRows - 1
      BY <1>0, <2>3
    <3> QED BY <1>1, <3>1 DEF Goes
  <2>6. \A q \in s .. t : b[q] <= c[q]
    BY <1>1, <1>7, <1>8, <2>2, <2>3, <2>4, <2>5, StaysLeft
  <2>7. b[t] <= c[t] /\ b[t] \in Int /\ c[t] \in Int
    BY <1>0, <1>1, <2>2, <2>3, <2>6
  <2>8. f[t] <= b[t] /\ f[t] \in Int
    BY <1>0, <2>3, FinishedFacts
  <2> QED BY <2>1, <2>7, <2>8
<1>9. /\ b[s] \in -1 .. NCols - 1 /\ L[s] \in -1 .. NCols - 1 /\ b[s] <= L[s]
      /\ b[s - 1] \in -1 .. NCols - 1 /\ L[s - 1] \in -1 .. NCols - 1 /\ b[s - 1] <= L[s - 1]
  BY <1>1, <1>2, <1>6, <1>7
<1>10. b[s] = L[s]
  BY <1>0, <1>8, <1>9
<1>11. b[s] \in {b[s - 1], b[s - 1] + 1}
  <2>1. b[s] = Onward(d, s, b[s - 1])
    BY <1>1 DEF Goes
  <2> QED BY <1>9, <2>1, OnwardType
<1>12. L[s] = L[s - 1] + 1
  BY <1>7, FinishedFacts
<1> QED BY <1>0, <1>9, <1>10, <1>11, <1>12

(* A step that has been tried and not fixed need not be taken.              *)
LEMMA RoomPoint ==
  ASSUME NEW d, NEW L, NEW f, Finished(d, L, f), NEW r \in 1 .. NRows - 1, L[r] # L[r - 1],
         HasRoom(d, L, f, r),
         NEW v \in -1 .. NCols - 1, v < L[r], Admits(d, r, v),
         type = "partitioning" => v # -1
  PROVE  \E p \in Orbitope[type] : Fits(p, d) /\ p[r] = v
<1>0. NRows \in Nat /\ NCols \in Nat /\ Rows = 0 .. NRows - 1 /\ r \in Rows /\ 0 \in Rows
  BY SizeAssumption DEF Rows
<1>1. PICK c \in Trails(d, L, r, NRows - 1) : \A q \in r + 1 .. NRows - 1 : f[q] <= c[q]
  BY DEF HasRoom
<1>2. /\ \A q \in r .. NRows - 1 : c[q] \in -1 .. NCols - 1
      /\ c[r] = L[r] - 1 /\ Goes(d, c, r, NRows - 1)
  BY DEF Trails
<1> DEFINE b == [q \in Rows |-> IF q < r THEN L[q] ELSE c[q]]
           g == [f EXCEPT ![r] = v]
<1>3. /\ \A q \in 0 .. r - 1 : b[q] = L[q]
      /\ \A q \in r .. NRows - 1 : b[q] = c[q]
  BY <1>0
<1>4. b \in [Rows -> -1 .. NCols - 1]
  <2>1. ASSUME NEW q \in Rows
        PROVE  (IF q < r THEN L[q] ELSE c[q]) \in -1 .. NCols - 1
    <3>1. CASE q < r
      BY <3>1, FinishedFacts
    <3>2. CASE ~(q < r)
      <4>1. q \in r .. NRows - 1
        BY <1>0, <3>2
      <4> QED BY <1>2, <3>2, <4>1
    <3> QED BY <3>1, <3>2
  <2> QED BY <2>1
<1>5. g \in [1 .. NRows - 1 -> -1 .. NCols - 1] /\ g[r] = v
      /\ \A q \in 1 .. NRows - 1 : q # r => g[q] = f[q]
  BY DEF Finished
<1> HIDE DEF b, g
<1>6. b[0] = L[0]
  BY <1>0, <1>3
<1>7. b[r] = b[r - 1] /\ b[r] = L[r] - 1
  <2>1. L[r] = L[r - 1] + 1 /\ L[r - 1] \in -1 .. NCols - 1
    BY FinishedFacts
  <2>2. r - 1 \in 0 .. r - 1 /\ r \in r .. NRows - 1
    BY <1>0
  <2>3. b[r - 1] = L[r - 1] /\ b[r] = c[r]
    BY <1>3, <2>2
  <2> QED BY <1>2, <2>1, <2>3
<1>8. ASSUME NEW q \in 1 .. NRows - 1
      PROVE  /\ b[q] \in {b[q - 1], b[q - 1] + 1}
             /\ g[q] <= b[q] /\ (type = "partitioning" => g[q] # -1)
             /\ Admits(d, q, IF b[q] # b[q - 1] THEN b[q] ELSE g[q])
  <2>0. L[q - 1] \in -1 .. NCols - 1 /\ f[q] <= L[q] /\ L[q] = Onward(d, q, L[q - 1])
        /\ L[q] \in {L[q - 1], L[q - 1] + 1}
    BY FinishedFacts
  <2>1. type = "partitioning" => f[q] # -1
    BY DEF Finished, RowShaped
  <2>2. CASE q < r
    <3>1. q \in 0 .. r - 1 /\ q - 1 \in 0 .. r - 1 /\ q # r
      BY <1>0, <2>2
    <3>2. b[q] = L[q] /\ b[q - 1] = L[q - 1] /\ g[q] = f[q]
      BY <1>3, <1>5, <3>1
    <3>3. Admits(d, q, IF L[q] # L[q - 1] THEN L[q] ELSE f[q])
      BY <2>0, FollowedAdmits
    <3> QED BY <2>0, <2>1, <3>2, <3>3
  <2>3. CASE q = r
    <3>1. v <= L[r] - 1
      BY <1>0, FinishedFacts
    <3> QED BY <1>5, <1>7, <2>3, <3>1
  <2>4. CASE q > r
    <3>1. q \in r + 1 .. NRows - 1 /\ q \in r .. NRows - 1 /\ q - 1 \in r .. NRows - 1 /\ q # r
      BY <1>0, <2>4
    <3>2. b[q] = c[q] /\ b[q - 1] = c[q - 1] /\ g[q] = f[q] /\ f[q] <= c[q]
      BY <1>1, <1>3, <1>5, <3>1
    <3>3. c[q] = Onward(d, q, c[q - 1]) /\ c[q - 1] \in -1 .. NCols - 1
      BY <1>2, <3>1 DEF Goes
    <3>4. L[q] # L[q - 1] /\ NoRoom(d, L, f, q) => c[q] = L[q] /\ c[q - 1] = L[q - 1]
      BY <1>1, <3>1, TakesFixedSteps
    <3>5. Admits(d, q, IF c[q] # c[q - 1] THEN c[q] ELSE f[q])
      BY <3>3, <3>4, FollowedAdmits
    <3>6. c[q] \in {c[q - 1], c[q - 1] + 1}
      BY <3>3, OnwardType
    <3> QED BY <2>1, <3>2, <3>5, <3>6
  <2> QED BY <1>0, <2>2, <2>3, <2>4
<1>9. Way(b)
  <2>1. b[0] <= 0
    BY <1>6, FinishedFacts DEF Way
  <2> QED BY <1>4, <1>8, <2>1 DEF Way
<1>10. PointOf(b, g) \in Orbitope[type] /\ Fits(PointOf(b, g), d)
  BY <1>5, <1>6, <1>8, <1>9, WayAdmitted
<1>11. PointOf(b, g)[r] = v
  <2>1. r # 0
    OBVIOUS
  <2>2. PointOf(b, g)[r] = g[r]
    BY <1>0, <1>7, <2>1 DEF PointOf
  <2> QED BY <1>5, <2>2
<1> QED BY <1>10, <1>11

(* Each free entry but the corner has a choice. *)
LEMMA FreeChoice ==
  ASSUME NEW d, NEW L, NEW f, Finished(d, L, f),
         NEW r \in Rows, NEW c \in Cols, d[r][c] = "free", r # 0 \/ c # 0
  PROVE  /\ \E p \in Orbitope[type] : Fits(p, d) /\ p[r] # c
         /\ \E p \in Orbitope[type] : Fits(p, d) /\ p[r] = c
<1>0. NRows \in Nat /\ NCols \in Nat /\ Rows = 0 .. NRows - 1 /\ Cols = 0 .. NCols - 1
  BY SizeAssumption DEF Rows, Cols
<1>1. r \in 1 .. NRows - 1
  <2>1. r # 0
    <3>1. SUFFICES ASSUME r = 0 PROVE FALSE
      OBVIOUS
    <3>2. c > 0
      BY <1>0, <3>1
    <3>3. d[0][c] = "zero"
      BY <3>2 DEF Finished, TopShaped
    <3> QED BY <3>1, <3>3
  <2> QED BY <1>0, <2>1
<1>2. L[r] \in -1 .. NCols - 1 /\ L[r - 1] \in -1 .. NCols - 1
  BY <1>0, <1>1, FinishedFacts
<1>3. \A b \in Cols : d[r][b] # "zero" => b <= L[r]
  <2>1. SUFFICES ASSUME NEW b \in Cols, d[r][b] # "zero" PROVE b <= L[r]
    OBVIOUS
  <2>2. ~(b > L[r])
    BY <1>1, <2>1 DEF Finished, RowShaped
  <2> QED BY <1>0, <1>2, <2>2
<1>4. \A b \in Cols : d[r][b] # "one"
  BY DEF Finished, Closed
<1>5. c <= L[r] /\ Admits(d, r, c)
  BY <1>3, <1>4 DEF Admits
<1>6. PICK v \in -1 .. NCols - 1 : /\ v # c /\ v <= L[r] /\ Admits(d, r, v)
                                   /\ type = "partitioning" => v # -1
  <2>1. CASE type = "partitioning"
    <3>1. PICK b \in Cols \ {c} : d[r][b] # "zero"
      BY <2>1 DEF Finished, Closed
    <3>2. b \in -1 .. NCols - 1 /\ b # -1
      BY <1>0, <3>1
    <3> QED BY <1>3, <1>4, <3>1, <3>2 DEF Admits
  <2>2. CASE type # "partitioning"
    <3>1. -1 \in -1 .. NCols - 1 /\ -1 # c /\ -1 <= L[r]
      BY <1>0, <1>2
    <3>2. Admits(d, r, -1)
      BY <1>4 DEF Admits
    <3> QED BY <2>2, <3>1, <3>2
  <2> QED BY <2>1, <2>2
<1>7. c \in -1 .. NCols - 1 /\ c # -1
  BY <1>0
<1>8. CASE L[r] = L[r - 1]
  <2>1. \E p \in Orbitope[type] : Fits(p, d) /\ p[r] = c
    BY <1>1, <1>5, <1>7, <1>8, StayPoint
  <2>2. \E p \in Orbitope[type] : Fits(p, d) /\ p[r] = v
    BY <1>1, <1>6, <1>8, StayPoint
  <2> QED BY <1>6, <2>1, <2>2
<1>9. CASE L[r] # L[r - 1]
  <2>0. L[r] \in Cols
    <3>1. L[r] \in {L[r - 1], L[r - 1] + 1}
      BY <1>1, FinishedFacts
    <3> QED BY <1>0, <1>2, <1>9, <3>1
  <2>1. HasRoom(d, L, f, r)
    BY <1>1, <1>4, <1>9, <2>0 DEF Finished
  <2>2. PICK p \in Orbitope[type] : Fits(p, d) /\ p[r] = L[r]
    BY <1>1, <1>9, StepsPoint
  <2>3. CASE c = L[r]
    <3>1. v < L[r]
      BY <1>0, <1>2, <1>6, <2>3
    <3>2. \E w \in Orbitope[type] : Fits(w, d) /\ w[r] = v
      BY <1>1, <1>6, <1>9, <2>1, <3>1, RoomPoint
    <3> QED BY <1>6, <2>2, <2>3, <3>2
  <2>4. CASE c # L[r]
    <3>1. c < L[r]
      BY <1>0, <1>2, <1>5, <2>4
    <3>2. \E w \in Orbitope[type] : Fits(w, d) /\ w[r] = c
      BY <1>1, <1>5, <1>7, <1>9, <2>1, <3>1, RoomPoint
    <3> QED BY <2>2, <2>4, <3>2
  <2> QED BY <2>3, <2>4
<1> QED BY <1>8, <1>9

-------------------------------------------------------------------------------
(***************************************************************************)
(* The invariant.                                                          *)
(***************************************************************************)

(* The rows are processed, or have been without a verdict, and the ones     *)
(* that were there at the beginning are not in the triangle.                *)
Going ==
  \/ pc \in {"rows", "steps", "scan"}
  \/ pc = "done" /\ ~infeasible /\ DOMAIN lastones # {}
Clean   == Ones(dom0, Upper) = {}
Through == IF pc = "rows" THEN i - 1 ELSE NRows - 1

Ended ==
  pc = "done" /\ Going =>
    k > Len(steps) /\ DOMAIN lastones = Rows /\ DOMAIN firstnz = 1 .. NRows - 1

Grown ==
  Going /\ Clean =>
    /\ \A r \in Rows, c \in Cols : c > r => dom[r][c] = "zero"
    /\ TopShaped(dom, lastones)
    /\ \A q \in 1 .. Through : RowShaped(dom, lastones, firstnz, q)

OnesSeen ==
  Going /\ Clean =>
    \A q \in 1 .. Through :
      IF pc = "rows" THEN \A c \in Cols : dom[q][c] = "one" => firstnz[q] # -1
      ELSE OneShaped(dom, lastones, firstnz, q)

(* The steps are those of the frontier. *)
StepsKnown ==
  Going =>
    /\ \A h \in 1 .. Len(steps) :
         steps[h] \in 1 .. Through /\ lastones[steps[h]] # lastones[steps[h] - 1]
    /\ \A q \in 1 .. Through :
         lastones[q] # lastones[q - 1] => \E h \in 1 .. Len(steps) : steps[h] = q

(* A step that has been tried is fixed, or there is room without it. While  *)
(* it is tried, there has been room so far.                                 *)
RoomSoFar(r) ==
  \E b \in Trails(dom, lastones, r, i - 1) :
    b[i - 1] = beta /\ \A q \in r + 1 .. i - 1 : firstnz[q] <= b[q]

Tried ==
  Going /\ Clean =>
    /\ \A h \in 1 .. Len(steps) : h < k =>
         \/ dom[steps[h]][lastones[steps[h]]] = "one"
         \/ HasRoom(dom, lastones, firstnz, steps[h])
    /\ pc = "scan" =>
         dom[steps[k]][lastones[steps[k]]] = "free" /\ RoomSoFar(steps[k])

(* Whether an entry is zero is all that matters for where frontiers go.     *)
SameZeros(d, e) == \A r \in Rows, c \in Cols : d[r][c] = "zero" <=> e[r][c] = "zero"

LEMMA OnwardSame ==
  ASSUME NEW d, NEW e, SameZeros(d, e), NEW r \in Rows, NEW l \in -1 .. NCols - 1
  PROVE  Onward(e, r, l) = Onward(d, r, l)
<1>1. CASE l = NCols - 1
  BY <1>1 DEF Onward
<1>2. CASE l # NCols - 1
  <2>1. l + 1 \in Cols
    BY <1>2, SizeAssumption DEF Cols
  <2> QED BY <2>1 DEF Onward, SameZeros
<1> QED BY <1>1, <1>2

LEMMA TrailsSame ==
  ASSUME NEW d, NEW e, SameZeros(d, e), NEW L, NEW r \in Rows, NEW t \in Rows
  PROVE  Trails(d, L, r, t) \subseteq Trails(e, L, r, t)
<1>1. SUFFICES ASSUME NEW b \in Trails(d, L, r, t), NEW q \in r + 1 .. t
               PROVE  b[q] = Onward(e, q, b[q - 1])
  BY DEF Trails, Goes
<1>2. q \in Rows /\ q - 1 \in r .. t
  BY SizeAssumption DEF Rows
<1>3. b[q - 1] \in -1 .. NCols - 1 /\ b[q] = Onward(d, q, b[q - 1])
  BY <1>2 DEF Trails, Goes
<1> QED BY <1>2, <1>3, OnwardSame

LEMMA RoomSame ==
  ASSUME NEW d, NEW e, SameZeros(d, e), NEW L, NEW f, NEW r \in Rows
  PROVE  /\ HasRoom(d, L, f, r) => HasRoom(e, L, f, r)
         /\ NoRoom(d, L, f, r) => NoRoom(e, L, f, r)
<1>1. NRows - 1 \in Rows /\ \A t \in r + 1 .. NRows - 1 : t \in Rows
  BY SizeAssumption DEF Rows
<1>2. HasRoom(d, L, f, r) => HasRoom(e, L, f, r)
  BY <1>1, TrailsSame DEF HasRoom
<1>3. NoRoom(d, L, f, r) => NoRoom(e, L, f, r)
  BY <1>1, TrailsSame DEF NoRoom
<1> QED BY <1>2, <1>3

(* A row that has been processed stays as it is. *)
LEMMA RowSame ==
  ASSUME NEW d, NEW e, NEW L, NEW M, NEW f, NEW g, NEW q \in Rows, q - 1 \in Rows,
         \A c \in Cols : d[q][c] = "zero" <=> e[q][c] = "zero",
         M[q] = L[q], M[q - 1] = L[q - 1], g[q] = f[q],
         L[q - 1] \in -1 .. NCols - 1, f[q] \in -1 .. NCols - 1,
         RowShaped(d, L, f, q)
  PROVE  RowShaped(e, M, g, q)
<1>1. Onward(e, q, L[q - 1]) = Onward(d, q, L[q - 1])
  <2>1. L[q - 1] # NCols - 1 => L[q - 1] + 1 \in Cols
    BY SizeAssumption DEF Cols
  <2> QED BY <2>1 DEF Onward
<1>2. f[q] # -1 => f[q] \in Cols
  BY SizeAssumption DEF Cols
<1> QED BY <1>1, <1>2 DEF RowShaped

-------------------------------------------------------------------------------
(* The arrays at each place of the function for the whole matrix.           *)
LEMMA Written ==
  ASSUME ~Submatrix, Control, Ended, Going
  PROVE  /\ DOMAIN lastones = 0 .. Through /\ DOMAIN firstnz = 1 .. Through
         /\ Through \in 0 .. NRows - 1
         /\ \A q \in 0 .. Through : q \in Rows /\ lastones[q] \in -1 .. NCols - 1
         /\ \A q \in 1 .. Through : q - 1 \in 0 .. Through /\ firstnz[q] \in -1 .. NCols - 1
<1>0. NRows \in Nat /\ NRows > 0 /\ Rows = 0 .. NRows - 1 /\ First = 1 /\ i \in 0 .. NRows
  BY SizeAssumption DEF Rows, First, Control, VarTypes
<1>1. /\ DOMAIN lastones = 0 .. Through /\ DOMAIN firstnz = 1 .. Through
      /\ Through \in 0 .. NRows - 1
  <2>1. CASE pc = "rows"
    <3>1. 1 <= i /\ DOMAIN lastones = {0} \cup 0 .. i - 1 /\ DOMAIN firstnz = 1 .. i - 1
      BY <1>0, <2>1 DEF Control, Places
    <3>2. {0} \cup 0 .. i - 1 = 0 .. i - 1
      BY <1>0, <3>1
    <3> QED BY <1>0, <2>1, <3>1, <3>2 DEF Through
  <2>2. CASE pc \in {"steps", "scan"}
    BY <1>0, <2>2 DEF Control, Places, Through
  <2>3. CASE pc = "done"
    BY <1>0, <2>3 DEF Ended, Through
  <2> QED BY <2>1, <2>2, <2>3 DEF Going
<1>2. \A q \in 0 .. Through : q \in Rows /\ lastones[q] \in -1 .. NCols - 1
  BY <1>0, <1>1 DEF Control, Arrays
<1>3. \A q \in 1 .. Through : q - 1 \in 0 .. Through /\ firstnz[q] \in -1 .. NCols - 1
  BY <1>0, <1>1 DEF Control, Arrays
<1> QED BY <1>1, <1>2, <1>3

(* Steps that change neither bounds nor arrays. *)
Idle ==
  /\ UNCHANGED <<type, dom0, dom, lastones, firstnz, steps>>
  /\ Through' = Through
  /\ pc \in {"rows", "steps", "scan"} \/ (pc = "done" /\ Going)

(* What the steps of the function are, for this invariant. *)
LEMMA Kinds ==
  ASSUME ~Submatrix, Control, [Next]_vars, Going'
  PROVE  \/ Triangle \/ RowFix \/ ScanHit
         \/ Idle /\ (vars' = vars \/ EndRows \/ StepFixed \/ StepOpen \/ ScanRow \/ ScanEnd \/ EndSteps)
<1>1. CASE vars' = vars
  <2>1. Idle
    BY <1>1 DEF vars, Idle, Through, Going
  <2> QED BY <1>1, <2>1
<1>2. CASE EndRows
  <2>1. Idle
    BY <1>2, SizeAssumption DEF EndRows, Idle, Through, Going
  <2> QED BY <1>2, <2>1
<1>3. CASE StepFixed \/ StepOpen \/ ScanRow \/ ScanEnd \/ EndSteps
  <2>1. Idle
    BY <1>3 DEF StepFixed, StepOpen, ScanRow, ScanEnd, EndSteps, Idle, Through, Going
  <2> QED BY <1>3, <2>1
<1>4. CASE Call \/ Leave
  BY <1>4 DEF Call, Leave, Going
<1>5. CASE NotAllowed
  BY <1>5 DEF NotAllowed, Going, Control, Places, Unwritten
<1>6. CASE RowAllZero \/ RowBeyond \/ RowBlocked
  BY <1>6 DEF RowAllZero, RowBeyond, RowBlocked, Going
<1> QED BY <1>1, <1>2, <1>3, <1>4, <1>5, <1>6 DEF Next

LEMMA EndedInvariant == ~Submatrix => (Spec => []Ended)
<1>0. SUFFICES ASSUME ~Submatrix PROVE Spec => []Ended
  OBVIOUS
<1>1. Init => Ended
  BY DEF Init, Ended
<1>2. Control /\ Ended /\ [Next]_vars => Ended'
  <2> SUFFICES ASSUME Control, Ended, [Next]_vars, pc' = "done", Going' PROVE
                 k' > Len(steps') /\ DOMAIN lastones' = Rows /\ DOMAIN firstnz' = 1 .. NRows - 1
    BY DEF Ended
  <2>1. CASE Triangle \/ RowFix \/ ScanHit \/ EndRows \/ StepFixed \/ StepOpen \/ ScanRow \/ ScanEnd
    <3>1. pc' # "done"
      BY <1>0, <2>1 DEF Triangle, RowFix, RowFits, ScanHit, EndRows, StepFixed, StepOpen, ScanRow, ScanEnd
    <3> QED BY <3>1
  <2>2. CASE EndSteps
    BY <1>0, <2>2 DEF EndSteps, Control, Places, First
  <2>3. CASE vars' = vars
    BY <2>3 DEF vars, Ended, Going
  <2> QED BY <1>0, <2>1, <2>2, <2>3, Kinds
<1> QED BY <1>0, <1>1, <1>2, ControlInvariant, PTL DEF Spec

-------------------------------------------------------------------------------
(***************************************************************************)
(* The rows.                                                               *)
(***************************************************************************)

(* What the triangle makes of the bounds. *)
LEMMA TriangleClears ==
  ASSUME ~Submatrix, Control, Triangle, Clean
  PROVE  /\ \A r \in Rows, c \in Cols : c > r => dom'[r][c] = "zero"
         /\ TopShaped(dom, lastones)'
         /\ Through' = 0 /\ Len(steps') = 0 /\ k' = 1
<1>0. 0 \in Rows /\ 0 \in Cols /\ dom \in Bounds /\ dom = dom0 /\ Cols \subseteq Nat
  BY SizeAssumption DEF Rows, Cols, Control, VarTypes, Places, Triangle
<1>1. \A r \in Rows, c \in Cols :
        dom'[r][c] = IF <<r, c>> \in FreeBeforeOne(dom, Upper) THEN "zero" ELSE dom[r][c]
  BY DEF Triangle, Fix
<1>2. ASSUME NEW r \in Rows, NEW c \in Cols, c > r PROVE dom'[r][c] = "zero"
  <2>1. <<r, c>> \in Upper /\ Ones(dom, Upper) = {}
    BY <1>0, <1>2 DEF Upper, Clean
  <2>2. dom[r][c] \in Dom /\ dom[r][c] # "one"
    BY <1>0, <2>1 DEF Ones, Bounds
  <2>3. dom[r][c] = "free" => <<r, c>> \in FreeBeforeOne(dom, Upper)
    BY <2>1 DEF FreeBeforeOne, Free
  <2> QED BY <1>1, <2>2, <2>3 DEF Dom
<1>3. dom'[0][0] = dom[0][0]
  <2>1. <<0, 0>> \notin FreeBeforeOne(dom, Upper)
    BY DEF FreeBeforeOne, Free, Upper
  <2> QED BY <1>0, <1>1, <2>1
<1>4. lastones'[0] = Corner /\ type' = type
  BY DEF Triangle
<1>5. TopShaped(dom, lastones)'
  BY <1>0, <1>2, <1>3, <1>4 DEF TopShaped, Corner
<1>6. Through' = 0 /\ Len(steps') = 0 /\ k' = 1
  BY DEF Triangle, Through, Control, Places
<1> QED BY <1>2, <1>5, <1>6

(* What is known of row i when it has been processed, and of the others.    *)
LEMMA RowDone ==
  ASSUME ~Submatrix, Control, Frontier, Ended, Grown, RowFix, Clean
  PROVE  /\ i \in 1 .. NRows - 1 /\ Through = i - 1 /\ Through' = i
         /\ \A r \in Rows : r # i => dom'[r] = dom[r]
         /\ \A q \in 0 .. i - 1 : q \in Rows /\ q # i /\ lastones'[q] = lastones[q]
         /\ \A q \in 1 .. i - 1 : firstnz'[q] = firstnz[q]
         /\ RowShaped(dom', lastones', firstnz', i)
         /\ \A c \in Cols : dom'[i][c] = "one" => firstnz'[i] # -1
         /\ \A c \in Cols : c > i => dom'[i][c] = "zero"
<1>0. /\ NRows \in Nat /\ NCols \in Nat /\ NRows > 0 /\ NCols > 0
      /\ Rows = 0 .. NRows - 1 /\ Cols = 0 .. NCols - 1 /\ First = 1
      /\ pc = "rows" /\ i < NRows /\ MoveFrontier /\ Going /\ pc' = "rows" /\ i' = i + 1
      /\ dom \in Bounds /\ type' = type /\ Ones(dom, Beyond) = {}
  BY SizeAssumption DEF Rows, Cols, First, RowFix, RowFits, Going, Control, VarTypes
<1>1. i \in 1 .. NRows - 1 /\ Through = i - 1 /\ Through' = i /\ i \in Rows /\ i - 1 \in 0 .. i - 1
  BY <1>0 DEF Control, VarTypes, Places, Through
<1>2. last \in -1 .. NCols - 1 /\ last = lastones[i - 1]
  BY <1>0, <1>1 DEF Control, VarTypes, Frontier, AtRow
<1> DEFINE A == Advance(i, last)
<1>3. A \in -1 .. NCols - 1 /\ (Blocked(i, last) => A = last)
      /\ (~Blocked(i, last) => A = last + 1 /\ last < NCols - 1)
  BY <1>1, <1>2, AdvanceType
<1>4. /\ lastones'[i] = A /\ firstnz'[i] = FirstNonzero(i)
      /\ \A q \in 0 .. i - 1 : q \in Rows /\ q # i /\ lastones'[q] = lastones[q]
      /\ \A q \in 1 .. i - 1 : firstnz'[q] = firstnz[q]
  BY <1>0, <1>1, MoveType
<1>5. \A r \in Rows, c \in Cols :
        dom'[r][c] = IF <<r, c>> \in Free(dom, Beyond) THEN "zero" ELSE dom[r][c]
  BY DEF RowFix, Fix
<1>6. \A r \in Rows : r # i => dom'[r] = dom[r]
  <2>1. SUFFICES ASSUME NEW r \in Rows, r # i PROVE dom'[r] = dom[r]
    OBVIOUS
  <2>2. \A c \in Cols : <<r, c>> \notin Free(dom, Beyond)
    BY <2>1 DEF Free, Beyond
  <2>3. dom'[r] = [c \in Cols |-> IF <<r, c>> \in Free(dom, Beyond) THEN "zero" ELSE dom[r][c]]
    BY DEF RowFix, Fix
  <2>4. dom[r] \in [Cols -> Dom]
    BY <1>0 DEF Bounds
  <2> QED BY <2>2, <2>3, <2>4
<1>7. LastColumn(i) \in Cols /\ LastColumn(i) <= i /\ FirstNonzero(i) \in -1 .. LastColumn(i)
      /\ (FirstNonzero(i) # -1 => FirstNonzero(i) \in FirstCandidates(i))
  BY <1>1, FirstNonzeroType
<1>8. \A c \in Cols : c > LastColumn(i) => c > i
  BY <1>0, <1>1 DEF LastColumn
<1>9. \A c \in Cols : c > i => dom[i][c] = "zero"
  BY <1>0, <1>1 DEF Grown
<1>10. ASSUME NEW c \in Cols, c > A PROVE dom'[i][c] = "zero"
  <2>1. CASE c > i
    <3>1. dom[i][c] = "zero"
      BY <1>9, <2>1
    <3> QED BY <1>1, <1>5, <3>1
  <2>2. CASE ~(c > i)
    <3>1. c \in A + 1 .. LastColumn(i)
      BY <1>0, <1>1, <1>3, <1>7, <1>8, <1>10, <2>2
    <3>2. <<i, c>> \in Beyond
      BY <3>1 DEF Beyond
    <3>3. dom[i][c] # "one"
      <4>1. <<i, c>> \notin Ones(dom, Beyond)
        BY <1>0
      <4> QED BY <3>2, <4>1 DEF Ones
    <3>4. dom[i][c] \in Dom
      BY <1>0, <1>1 DEF Bounds
    <3>5. dom[i][c] = "free" => <<i, c>> \in Free(dom, Beyond)
      BY <3>2 DEF Free
    <3> QED BY <1>1, <1>5, <3>3, <3>4, <3>5 DEF Dom
  <2> QED BY <2>1, <2>2
<1>11. ASSUME NEW c \in Cols, c <= A PROVE dom'[i][c] = dom[i][c]
  <2>1. <<i, c>> \notin Beyond
    BY <1>0, <1>3, <1>11 DEF Beyond
  <2>2. <<i, c>> \notin Free(dom, Beyond)
    BY <2>1 DEF Free
  <2> QED BY <1>1, <1>5, <2>2
<1>12. A = Onward(dom', i, last)
  <2>1. CASE last = NCols - 1
    BY <1>3, <2>1 DEF Onward, Blocked
  <2>2. CASE last # NCols - 1 /\ dom[i][last + 1] = "zero"
    <3>1. last + 1 \in Cols /\ A = last
      BY <1>0, <1>2, <1>3, <2>2 DEF Blocked
    <3>2. dom'[i][last + 1] = "zero"
      BY <1>0, <1>2, <1>10, <3>1
    <3> QED BY <3>1, <3>2 DEF Onward
  <2>3. CASE last # NCols - 1 /\ dom[i][last + 1] # "zero"
    <3>1. last + 1 \in Cols /\ A = last + 1
      BY <1>0, <1>2, <1>3, <2>3 DEF Blocked
    <3>2. dom'[i][last + 1] # "zero"
      BY <1>0, <1>11, <2>3, <3>1
    <3> QED BY <2>3, <3>1, <3>2 DEF Onward
  <2> QED BY <2>1, <2>2, <2>3
<1>13. FirstNonzero(i) <= A /\ (type = "partitioning" => FirstNonzero(i) # -1)
  BY DEF RowFix, RowFits
<1>14. FirstNonzero(i) # -1 => dom'[i][FirstNonzero(i)] # "zero"
  <2>1. SUFFICES ASSUME FirstNonzero(i) # -1 PROVE dom'[i][FirstNonzero(i)] # "zero"
    OBVIOUS
  <2>2. FirstNonzero(i) \in Cols
    BY <1>0, <1>7, <2>1
  <2>3. dom[i][FirstNonzero(i)] # "zero"
    BY <1>7, <2>1 DEF FirstCandidates
  <2> QED BY <1>11, <1>13, <2>2, <2>3
<1> HIDE DEF A
<1>15. lastones'[i - 1] = last
  BY <1>1, <1>2, <1>4
<1>16. RowShaped(dom', lastones', firstnz', i)
  BY <1>0, <1>4, <1>10, <1>12, <1>13, <1>14, <1>15 DEF RowShaped
<1>17. ASSUME NEW c \in Cols, dom'[i][c] = "one" PROVE firstnz'[i] # -1
  <2>1. c <= A
    BY <1>0, <1>3, <1>10, <1>17
  <2>2. dom[i][c] = "one"
    BY <1>11, <1>17, <2>1
  <2>3. c \in 0 .. LastColumn(i)
    BY <1>0, <1>1, <1>7, <1>8, <1>9, <2>2
  <2>4. c \in FirstCandidates(i)
    BY <2>2, <2>3 DEF FirstCandidates
  <2>5. FirstNonzero(i) # -1
    <3>1. FirstCandidates(i) \subseteq Nat
      BY <1>0, <1>7 DEF FirstCandidates
    <3>2. FirstNonzero(i) \in FirstCandidates(i)
      BY <2>4, <3>1, MinExists DEF FirstNonzero
    <3> QED BY <3>1, <3>2
  <2> QED BY <1>4, <2>5
<1>18. \A c \in Cols : c > i => dom'[i][c] = "zero"
  BY <1>1, <1>5, <1>9
<1> QED BY <1>1, <1>4, <1>6, <1>16, <1>17, <1>18

(* The look-ahead makes no entry zero, and none that was zero anything else. *)
LEMMA HitSame ==
  ASSUME ~Submatrix, Control, ScanHit
  PROVE  /\ SameZeros(dom, dom')
         /\ UNCHANGED <<type, dom0, lastones, firstnz, steps>> /\ Through' = Through
         /\ k \in 1 .. Len(steps) /\ steps[k] \in Rows /\ k' = k + 1
         /\ \A r \in Rows, c \in Cols :
              dom'[r][c] = "one" => \/ dom[r][c] = "one"
                                    \/ r = steps[k] /\ c = lastones[steps[k]]
         /\ \A r \in Rows, c \in Cols : dom[r][c] = "one" => dom'[r][c] = "one"
         /\ lastones[steps[k]] \in Cols /\ dom[steps[k]][lastones[steps[k]]] = "free"
              => dom'[steps[k]][lastones[steps[k]]] = "one"
<1>1. \A r \in Rows, c \in Cols :
        dom'[r][c] = IF <<r, c>> \in Free(dom, {Step}) THEN "one" ELSE dom[r][c]
  BY DEF ScanHit, Fix, Forced
<1>2. k \in 1 .. Len(steps) /\ steps[k] \in Rows
  BY DEF ScanHit, Control, Places, Arrays
<1>3. SameZeros(dom, dom')
  BY <1>1 DEF SameZeros, Free
<1>4. UNCHANGED <<type, dom0, lastones, firstnz, steps>> /\ Through' = Through /\ k' = k + 1
  BY DEF ScanHit, Through
<1> QED BY <1>1, <1>2, <1>3, <1>4 DEF Free, Step

LEMMA GrownInvariant == ~Submatrix => (Spec => []Grown)
<1>0. SUFFICES ASSUME ~Submatrix PROVE Spec => []Grown
  OBVIOUS
<1>1. Init => Grown
  BY DEF Init, Grown, Going
<1>2. Control /\ Frontier /\ Ended /\ Grown /\ [Next]_vars => Grown'
  <2> SUFFICES ASSUME Control, Frontier, Ended, Grown, [Next]_vars, Going', Clean' PROVE
                 /\ \A r \in Rows, c \in Cols : c > r => dom'[r][c] = "zero"
                 /\ TopShaped(dom, lastones)'
                 /\ \A q \in 1 .. Through' : RowShaped(dom, lastones, firstnz, q)'
    BY DEF Grown
  <2>1. CASE Triangle
    <3>1. Clean
      BY <2>1 DEF Triangle, Clean
    <3> QED BY <1>0, <2>1, <3>1, TriangleClears
  <2>2. CASE RowFix
    <3>1. Clean /\ Going
      BY <2>2 DEF RowFix, RowFits, Clean, Going
    <3>2. ASSUME NEW r \in Rows, NEW c \in Cols, c > r PROVE dom'[r][c] = "zero"
      BY <1>0, <2>2, <3>1, <3>2, RowDone DEF Grown
    <3>3. TopShaped(dom, lastones)'
      <4>1. type' = type /\ 0 \in Rows /\ 0 # i /\ lastones'[0] = lastones[0]
        BY <1>0, <2>2, <3>1, RowDone, SizeAssumption DEF RowFix, Rows
      <4>2. dom'[0] = dom[0]
        BY <1>0, <2>2, <3>1, <4>1, RowDone
      <4> QED BY <3>1, <4>1, <4>2 DEF Grown, TopShaped
    <3>4. ASSUME NEW q \in 1 .. Through' PROVE RowShaped(dom, lastones, firstnz, q)'
      <4>0. Through' = i /\ Through = i - 1 /\ i \in 1 .. NRows - 1
        BY <1>0, <2>2, <3>1, RowDone
      <4>1. CASE q = i
        <5>1. RowShaped(dom', lastones', firstnz', q) /\ type' = type
          BY <1>0, <2>2, <3>1, <4>1, RowDone DEF RowFix
        <5> QED BY <5>1 DEF RowShaped
      <4>2. CASE q # i
        <5>1. q \in 1 .. i - 1 /\ q \in 0 .. i - 1 /\ q - 1 \in 0 .. i - 1 /\ q \in 0 .. Through
              /\ q - 1 \in 0 .. Through /\ q \in 1 .. Through
          BY <4>0, <4>2
        <5>2. /\ q \in Rows /\ q - 1 \in Rows /\ lastones'[q] = lastones[q]
              /\ lastones'[q - 1] = lastones[q - 1] /\ firstnz'[q] = firstnz[q]
          BY <1>0, <2>2, <3>1, <5>1, RowDone
        <5>3. dom'[q] = dom[q]
          BY <1>0, <2>2, <3>1, <4>2, <5>2, RowDone
        <5>4. lastones[q - 1] \in -1 .. NCols - 1 /\ firstnz[q] \in -1 .. NCols - 1
          BY <1>0, <3>1, <5>1, Written
        <5>5. RowShaped(dom, lastones, firstnz, q)
          BY <3>1, <5>1 DEF Grown
        <5>6. RowShaped(dom', lastones', firstnz', q)
          BY <5>2, <5>3, <5>4, <5>5, RowSame
        <5>7. type' = type
          BY <2>2 DEF RowFix
        <5> QED BY <5>6, <5>7 DEF RowShaped
      <4> QED BY <4>1, <4>2
    <3> QED BY <3>2, <3>3, <3>4
  <2>3. CASE ScanHit
    <3>1. Clean /\ Going
      BY <2>3 DEF ScanHit, Clean, Going
    <3>2. /\ SameZeros(dom, dom') /\ Through' = Through
          /\ UNCHANGED <<type, dom0, lastones, firstnz, steps>>
      BY <1>0, <2>3, HitSame
    <3>3. \A r \in Rows, c \in Cols : c > r => dom'[r][c] = "zero"
      BY <3>1, <3>2 DEF Grown, SameZeros
    <3>4. TopShaped(dom, lastones)'
      <4>1. 0 \in Rows /\ 0 \in Cols
        BY SizeAssumption DEF Rows, Cols
      <4> QED BY <3>1, <3>2, <4>1 DEF Grown, TopShaped, SameZeros
    <3>5. ASSUME NEW q \in 1 .. Through' PROVE RowShaped(dom, lastones, firstnz, q)'
      <4>1. /\ q \in 1 .. Through /\ q \in Rows /\ q - 1 \in Rows
            /\ lastones[q - 1] \in -1 .. NCols - 1 /\ firstnz[q] \in -1 .. NCols - 1
        <5>1. q \in 1 .. Through /\ Through \in 0 .. NRows - 1
          BY <1>0, <3>1, <3>2, Written
        <5>2. q \in 0 .. Through /\ q - 1 \in 0 .. Through
          BY <5>1
        <5> QED BY <1>0, <3>1, <5>1, <5>2, Written
      <4>2. RowShaped(dom', lastones, firstnz, q)
        BY <3>1, <3>2, <4>1, RowSame DEF Grown, SameZeros
      <4> QED BY <3>2, <4>2 DEF RowShaped
    <3> QED BY <3>3, <3>4, <3>5
  <2>4. CASE Idle
    <3>1. Clean /\ Going
      BY <2>4 DEF Idle, Clean, Going
    <3> QED BY <2>4, <3>1 DEF Idle, Grown, TopShaped, RowShaped
  <2> QED BY <1>0, <2>1, <2>2, <2>3, <2>4, Kinds
<1> QED BY <1>0, <1>1, <1>2, ControlInvariant, FrontierInvariant, EndedInvariant, PTL DEF Spec

-------------------------------------------------------------------------------
(***************************************************************************)
(* The steps and the look-ahead.                                           *)
(***************************************************************************)

LEMMA StepsKnownInvariant == ~Submatrix => (Spec => []StepsKnown)
<1>0. SUFFICES ASSUME ~Submatrix PROVE Spec => []StepsKnown
  OBVIOUS
<1>1. Init => StepsKnown
  BY DEF Init, StepsKnown, Going
<1>2. Control /\ Frontier /\ Ended /\ StepsKnown /\ [Next]_vars => StepsKnown'
  <2> SUFFICES ASSUME Control, Frontier, Ended, StepsKnown, [Next]_vars, Going' PROVE
                 /\ \A h \in 1 .. Len(steps') :
                      steps'[h] \in 1 .. Through' /\ lastones'[steps'[h]] # lastones'[steps'[h] - 1]
                 /\ \A q \in 1 .. Through' : lastones'[q] # lastones'[q - 1] =>
                      \E h \in 1 .. Len(steps') : steps'[h] = q
    BY DEF StepsKnown
  <2>1. CASE Triangle
    BY <1>0, <2>1 DEF Triangle, Through, Control, Places
  <2>2. CASE RowFix
    <3>0. /\ NRows \in Nat /\ First = 1 /\ pc = "rows" /\ i < NRows /\ MoveFrontier /\ Going
          /\ pc' = "rows" /\ i' = i + 1 /\ i \in Nat /\ 1 <= i
      BY <1>0, <2>2, SizeAssumption DEF First, RowFix, RowFits, Going, Control, VarTypes, Places
    <3>1. Through = i - 1 /\ Through' = i /\ i \in Rows /\ last \in -1 .. NCols - 1
          /\ last = lastones[i - 1] /\ steps \in Seq(Rows) /\ i - 1 \in 0 .. i
      <4>1. Through = i - 1 /\ Through' = i /\ i \in Rows /\ i - 1 \in 0 .. i
        BY <3>0 DEF Through, Rows
      <4>2. last \in -1 .. NCols - 1 /\ steps \in Seq(Rows)
        BY DEF Control, VarTypes, Arrays
      <4>3. last = lastones[i - 1]
        BY <3>0 DEF Frontier, AtRow
      <4> QED BY <4>1, <4>2, <4>3
    <3>2. \A r \in 0 .. i : lastones'[r] = IF r = i THEN Advance(i, last) ELSE lastones[r]
      BY <3>0, MoveType
    <3>3. lastones'[i - 1] = last /\ lastones'[i] = Advance(i, last)
      BY <3>0, <3>1, <3>2
    <3>4. \A h \in 1 .. Len(steps) :
            steps[h] \in 1 .. i /\ lastones'[steps[h]] # lastones'[steps[h] - 1]
      <4>1. SUFFICES ASSUME NEW h \in 1 .. Len(steps)
                     PROVE  steps[h] \in 1 .. i /\ lastones'[steps[h]] # lastones'[steps[h] - 1]
        OBVIOUS
      <4>2. steps[h] \in 1 .. i - 1 /\ lastones[steps[h]] # lastones[steps[h] - 1]
        BY <3>0, <3>1 DEF StepsKnown
      <4>3. steps[h] \in 0 .. i /\ steps[h] # i /\ steps[h] - 1 \in 0 .. i /\ steps[h] - 1 # i
        BY <3>0, <4>2
      <4> QED BY <3>0, <3>2, <4>2, <4>3
    <3>5. ASSUME NEW q \in 1 .. i - 1, lastones'[q] # lastones'[q - 1]
          PROVE  \E h \in 1 .. Len(steps) : steps[h] = q
      <4>1. q \in 0 .. i /\ q # i /\ q - 1 \in 0 .. i /\ q - 1 # i
        BY <3>0
      <4>2. lastones[q] # lastones[q - 1]
        BY <3>2, <3>5, <4>1
      <4> QED BY <3>0, <3>1, <4>2 DEF StepsKnown
    <3>6. CASE Blocked(i, last)
      <4>1. steps' = steps /\ lastones'[i] = lastones'[i - 1]
        BY <3>0, <3>1, <3>3, <3>6, AdvanceType DEF MoveFrontier
      <4>2. ASSUME NEW q \in 1 .. i, lastones'[q] # lastones'[q - 1] PROVE q \in 1 .. i - 1
        BY <3>0, <4>1, <4>2
      <4> QED BY <3>1, <3>4, <3>5, <4>1, <4>2
    <3>7. CASE ~Blocked(i, last)
      <4>1. steps' = Append(steps, i) /\ lastones'[i] = lastones'[i - 1] + 1
        BY <3>0, <3>1, <3>3, <3>7, AdvanceType DEF MoveFrontier
      <4>2. /\ Len(steps') = Len(steps) + 1 /\ Len(steps) \in Nat /\ steps'[Len(steps) + 1] = i
            /\ \A h \in 1 .. Len(steps) : steps'[h] = steps[h]
        BY <3>1, <4>1
      <4>3. ASSUME NEW h \in 1 .. Len(steps')
            PROVE  steps'[h] \in 1 .. i /\ lastones'[steps'[h]] # lastones'[steps'[h] - 1]
        <5>1. CASE h = Len(steps) + 1
          BY <3>0, <3>1, <3>3, <4>1, <4>2, <5>1
        <5>2. CASE h # Len(steps) + 1
          <6>1. h \in 1 .. Len(steps)
            BY <4>2, <5>2
          <6> QED BY <3>4, <4>2, <6>1
        <5> QED BY <5>1, <5>2
      <4>4. ASSUME NEW q \in 1 .. i, lastones'[q] # lastones'[q - 1]
            PROVE  \E h \in 1 .. Len(steps') : steps'[h] = q
        <5>1. CASE q = i
          <6>1. Len(steps) + 1 \in 1 .. Len(steps')
            BY <4>2
          <6> QED BY <4>2, <5>1, <6>1
        <5>2. CASE q # i
          <6>1. q \in 1 .. i - 1
            BY <3>0, <5>2
          <6>2. PICK h \in 1 .. Len(steps) : steps[h] = q
            BY <3>5, <4>4, <6>1
          <6>3. h \in 1 .. Len(steps')
            BY <4>2
          <6> QED BY <4>2, <6>2, <6>3
        <5> QED BY <5>1, <5>2
      <4> QED BY <3>1, <4>3, <4>4
    <3> QED BY <3>6, <3>7
  <2>3. CASE ScanHit
    BY <1>0, <2>3, HitSame DEF ScanHit, Going, StepsKnown
  <2>4. CASE Idle
    BY <2>4 DEF Idle, Going, StepsKnown
  <2> QED BY <1>0, <2>1, <2>2, <2>3, <2>4, Kinds
<1> QED BY <1>0, <1>1, <1>2, ControlInvariant, FrontierInvariant, EndedInvariant, PTL DEF Spec

(* The step at hand: it reaches an entry that is not zero. *)
LEMMA StepAtHand ==
  ASSUME ~Submatrix, Control, Ended, Grown, StepsKnown, Going, Clean, pc \in {"steps", "scan"},
         k <= Len(steps)
  PROVE  /\ k \in 1 .. Len(steps) /\ steps[k] \in 1 .. NRows - 1
         /\ steps[k] \in Rows /\ steps[k] - 1 \in Rows
         /\ lastones[steps[k]] = lastones[steps[k] - 1] + 1
         /\ lastones[steps[k]] \in Cols
         /\ dom[steps[k]][lastones[steps[k]]] # "zero"
<1>1. Through = NRows - 1 /\ k \in 1 .. Len(steps)
  BY DEF Through, Control, Places
<1>2. steps[k] \in 1 .. NRows - 1 /\ lastones[steps[k]] # lastones[steps[k] - 1]
  BY <1>1 DEF StepsKnown
<1>3. PICK r \in 1 .. NRows - 1 : r = steps[k]
  BY <1>2
<1>4. r \in 0 .. Through /\ r - 1 \in 0 .. Through
  BY <1>1, SizeAssumption
<1>5. r \in Rows /\ r - 1 \in Rows /\ lastones[r - 1] \in -1 .. NCols - 1
  BY <1>4, Written
<1>6. lastones[r] = Onward(dom, r, lastones[r - 1])
  BY <1>1 DEF Grown, RowShaped
<1>7. /\ lastones[r] = lastones[r - 1] + 1 /\ lastones[r] \in Cols
      /\ dom[r][lastones[r]] # "zero"
  BY <1>2, <1>3, <1>5, <1>6, OnwardType
<1> QED BY <1>1, <1>3, <1>5, <1>7

(* The frontier of the supposition, one row further. *)
LEMMA OneRowOn ==
  ASSUME NEW d, NEW L, NEW r \in Rows, NEW t \in Rows, r < t,
         NEW b \in Trails(d, L, r, t - 1)
  PROVE  \E c \in Trails(d, L, r, t) : /\ c[t] = Onward(d, t, b[t - 1])
                                       /\ \A q \in r .. t - 1 : c[q] = b[q]
<1> DEFINE c == [q \in r .. t |-> IF q = t THEN Onward(d, t, b[t - 1]) ELSE b[q]]
<1>0. r \in Nat /\ t \in Nat
  BY SizeAssumption DEF Rows
<1>1. b \in [r .. t - 1 -> -1 .. NCols - 1] /\ b[r] = L[r] - 1 /\ Goes(d, b, r, t - 1)
  BY DEF Trails
<1>2. t - 1 \in r .. t - 1 /\ t \in r .. t /\ r \in r .. t - 1
  BY <1>0
<1>3. Onward(d, t, b[t - 1]) \in -1 .. NCols - 1
  BY <1>1, <1>2, OnwardType
<1>4. \A q \in r .. t : q # t => q \in r .. t - 1
  BY <1>0
<1>5. c \in [r .. t -> -1 .. NCols - 1]
  BY <1>1, <1>3, <1>4
<1>6. c[t] = Onward(d, t, b[t - 1]) /\ \A q \in r .. t - 1 : c[q] = b[q]
  BY <1>0, <1>2
<1> HIDE DEF c
<1>7. ASSUME NEW q \in r + 1 .. t PROVE c[q] = Onward(d, q, c[q - 1])
  <2>1. q - 1 \in r .. t - 1
    BY <1>0
  <2>2. CASE q = t
    BY <1>6, <2>1, <2>2
  <2>3. CASE q # t
    <3>1. q \in r + 1 .. t - 1 /\ q \in r .. t - 1
      BY <1>0, <2>3
    <3> QED BY <1>1, <1>6, <2>1, <3>1 DEF Goes
  <2> QED BY <2>2, <2>3
<1>8. c \in Trails(d, L, r, t)
  BY <1>1, <1>2, <1>5, <1>6, <1>7 DEF Trails, Goes
<1> QED BY <1>6, <1>8

LEMMA TriedInvariant == ~Submatrix => (Spec => []Tried)
<1>0. SUFFICES ASSUME ~Submatrix PROVE Spec => []Tried
  OBVIOUS
<1>1. Init => Tried
  BY DEF Init, Tried, Going
<1>2. Control /\ Ended /\ Grown /\ StepsKnown /\ Tried /\ [Next]_vars => Tried'
  <2> DEFINE Settles(h) == \/ dom[steps[h]][lastones[steps[h]]] = "one"
                           \/ HasRoom(dom, lastones, firstnz, steps[h])
  <2> SUFFICES ASSUME Control, Ended, Grown, StepsKnown, Tried, [Next]_vars, Going', Clean' PROVE
                 /\ \A h \in 1 .. Len(steps') : h < k' => Settles(h)'
                 /\ pc' = "scan" =>
                      dom'[steps'[k']][lastones'[steps'[k']]] = "free" /\ RoomSoFar(steps[k])'
    BY DEF Tried
  <2>0. Len(steps) \in Nat /\ k \in Nat /\ \A h \in 1 .. Len(steps) : steps[h] \in Rows
    BY DEF Control, Arrays, Places
  <2>1. CASE Triangle \/ RowFix
    <3>1. pc' = "rows" /\ k' = 1
      BY <1>0, <2>1 DEF Triangle, RowFix, RowFits, Control, Places
    <3> QED BY <3>1
  <2>2. CASE ScanHit
    <3>1. Clean /\ Going /\ pc' = "steps" /\ pc = "scan" /\ k <= Len(steps)
      BY <2>2 DEF ScanHit, Clean, Going, Control, Places
    <3>2. /\ SameZeros(dom, dom') /\ UNCHANGED <<lastones, firstnz, steps>>
          /\ k \in 1 .. Len(steps) /\ k' = k + 1
          /\ lastones[steps[k]] \in Cols /\ dom[steps[k]][lastones[steps[k]]] = "free"
               => dom'[steps[k]][lastones[steps[k]]] = "one"
      BY <1>0, <2>2, HitSame
    <3>3. dom'[steps[k]][lastones[steps[k]]] = "one"
      BY <1>0, <3>1, <3>2, StepAtHand DEF Tried
    <3>4. ASSUME NEW h \in 1 .. Len(steps), h < k PROVE Settles(h)'
      <4>1. Settles(h)
        BY <3>1, <3>4 DEF Tried
      <4>2. CASE HasRoom(dom, lastones, firstnz, steps[h])
        <5>1. HasRoom(dom', lastones, firstnz, steps[h])
          BY <2>0, <3>2, <4>2, RoomSame
        <5> QED BY <3>2, <5>1
      <4>3. CASE dom[steps[h]][lastones[steps[h]]] = "one"
        <5>1. steps[h] \in Rows /\ lastones[steps[h]] \in Cols
          BY SizeAssumption DEF Control, Arrays, Cols
        <5>2. dom'[steps[h]][lastones[steps[h]]] = "one"
          BY <1>0, <2>2, <4>3, <5>1, HitSame
        <5> QED BY <3>2, <5>2
      <4> QED BY <4>1, <4>2, <4>3
    <3>5. ASSUME NEW h \in 1 .. Len(steps), h < k' PROVE Settles(h)'
      <4>1. CASE h = k
        BY <3>2, <3>3, <4>1
      <4>2. CASE h # k
        BY <2>0, <3>2, <3>4, <3>5, <4>2
      <4> QED BY <4>1, <4>2
    <3> QED BY <3>1, <3>2, <3>5
  <2>3. CASE Idle /\ (vars' = vars \/ EndRows \/ StepFixed \/ StepOpen \/ ScanRow \/ ScanEnd \/ EndSteps)
    <3>0. /\ Clean /\ Going /\ UNCHANGED <<dom, lastones, firstnz, steps>>
      BY <2>3 DEF Idle, Clean, Going
    <3>1. ASSUME NEW h \in 1 .. Len(steps), h < k PROVE Settles(h)'
      BY <3>0, <3>1 DEF Tried
    <3>2. CASE vars' = vars
      BY <3>0, <3>2 DEF vars, Tried, RoomSoFar
    <3>3. CASE EndRows
      BY <3>0, <3>3 DEF EndRows
    <3>4. CASE StepFixed
      <4>1. k <= Len(steps) /\ pc = "steps" /\ pc' = pc /\ k' = k + 1 /\ Free(dom, {Step}) = {}
        BY <3>4 DEF StepFixed
      <4>2. dom[steps[k]][lastones[steps[k]]] \in Dom
        BY <1>0, <3>0, <4>1, StepAtHand DEF Control, VarTypes, Bounds
      <4>3. dom[steps[k]][lastones[steps[k]]] # "free"
        <5>1. Step \notin Free(dom, {Step})
          BY <4>1
        <5>2. dom[Step[1]][Step[2]] # "free"
          BY <5>1 DEF Free
        <5> QED BY <5>2 DEF Step
      <4>4. dom[steps[k]][lastones[steps[k]]] = "one"
        BY <1>0, <3>0, <4>1, <4>2, <4>3, StepAtHand DEF Dom
      <4>5. ASSUME NEW h \in 1 .. Len(steps), h < k + 1 PROVE Settles(h)'
        <5>1. CASE h = k
          BY <3>0, <4>4, <5>1
        <5>2. CASE h # k
          BY <2>0, <3>1, <4>5, <5>2
        <5> QED BY <5>1, <5>2
      <4> QED BY <3>0, <4>1, <4>5
    <3>5. CASE StepOpen
      <4>1. k <= Len(steps) /\ pc = "steps" /\ k' = k /\ Free(dom, {Step}) # {}
            /\ beta' = lastones[steps[k]] - 1 /\ i' = steps[k] + 1
        BY <3>5 DEF StepOpen
      <4>2. dom[steps[k]][lastones[steps[k]]] = "free"
        BY <4>1 DEF Free, Step
      <4>3. PICK r \in Rows : r = steps[k]
        BY <1>0, <3>0, <4>1, StepAtHand
      <4>4. r \in Nat /\ lastones[r] - 1 \in -1 .. NCols - 1
        BY <1>0, <3>0, <4>1, <4>3, StepAtHand, SizeAssumption DEF Rows, Cols
      <4> DEFINE b == [q \in r .. r |-> lastones[r] - 1]
      <4>5. b \in Trails(dom, lastones, r, r) /\ b[r] = lastones[r] - 1
        BY <4>4 DEF Trails, Goes
      <4> HIDE DEF b
      <4>6. b \in Trails(dom', lastones', r, i' - 1) /\ b[i' - 1] = beta'
            /\ \A q \in r + 1 .. i' - 1 : firstnz'[q] <= b[q]
        BY <3>0, <4>1, <4>3, <4>4, <4>5
      <4>7. RoomSoFar(r)'
        BY <4>6 DEF RoomSoFar
      <4>8. RoomSoFar(steps[k])'
        BY <3>0, <4>1, <4>3, <4>6 DEF RoomSoFar
      <4> QED BY <3>0, <3>1, <4>1, <4>2, <4>8
    <3>6. CASE ScanRow
      <4>1. pc = "scan" /\ i < NRows /\ firstnz[i] <= Advance(i, beta) /\ pc' = pc /\ k' = k
            /\ beta' = Advance(i, beta) /\ i' = i + 1
        BY <3>6 DEF ScanRow
      <4>2. dom[steps[k]][lastones[steps[k]]] = "free" /\ RoomSoFar(steps[k])
        BY <3>0, <4>1 DEF Tried
      <4>3. k <= Len(steps) /\ steps[k] < i /\ i \in Rows /\ i \in Nat
        BY <4>1, SizeAssumption DEF Control, VarTypes, Places, Rows
      <4>4. PICK r \in Rows : r = steps[k]
        BY <1>0, <3>0, <4>1, <4>3, StepAtHand
      <4>5. PICK b \in Trails(dom, lastones, r, i - 1) :
              b[i - 1] = beta /\ \A q \in r + 1 .. i - 1 : firstnz[q] <= b[q]
        BY <4>2, <4>4 DEF RoomSoFar
      <4>6. PICK c \in Trails(dom, lastones, r, i) : /\ c[i] = Onward(dom, i, b[i - 1])
                                                    /\ \A q \in r .. i - 1 : c[q] = b[q]
        <5>1. r < i /\ i \in Rows
          BY <4>3, <4>4
        <5> QED BY <5>1, OneRowOn
      <4>7. c[i] = Advance(i, beta)
        BY <4>5, <4>6, AdvanceIsOnward
      <4>8. ASSUME NEW q \in r + 1 .. i PROVE firstnz[q] <= c[q]
        <5>1. CASE q = i
          BY <4>1, <4>7, <5>1
        <5>2. CASE q # i
          <6>1. q \in r + 1 .. i - 1 /\ q \in r .. i - 1
            BY <4>3, <4>4, <5>2, SizeAssumption DEF Rows
          <6> QED BY <4>5, <4>6, <6>1
        <5> QED BY <5>1, <5>2
      <4>9. i' - 1 = i
        BY <4>1, <4>3
      <4>10. c \in Trails(dom', lastones', r, i' - 1) /\ c[i' - 1] = beta'
             /\ \A q \in r + 1 .. i' - 1 : firstnz'[q] <= c[q]
        BY <3>0, <4>1, <4>6, <4>7, <4>8, <4>9
      <4>11. RoomSoFar(steps[k])'
        BY <3>0, <4>1, <4>4, <4>10 DEF RoomSoFar
      <4> QED BY <3>0, <3>1, <4>1, <4>2, <4>11
    <3>7. CASE ScanEnd
      <4>1. pc = "scan" /\ i = NRows /\ pc' = "steps" /\ k' = k + 1
        BY <3>7 DEF ScanEnd
      <4>2. HasRoom(dom, lastones, firstnz, steps[k])
        BY <3>0, <4>1 DEF Tried, RoomSoFar, HasRoom
      <4>3. ASSUME NEW h \in 1 .. Len(steps), h < k + 1 PROVE Settles(h)'
        <5>1. CASE h = k
          BY <3>0, <4>2, <5>1
        <5>2. CASE h # k
          BY <2>0, <3>1, <4>3, <5>2
        <5> QED BY <5>1, <5>2
      <4> QED BY <3>0, <4>1, <4>3
    <3>8. CASE EndSteps
      BY <3>0, <3>1, <3>8 DEF EndSteps
    <3> QED BY <2>3, <3>2, <3>3, <3>4, <3>5, <3>6, <3>7, <3>8
  <2> QED BY <1>0, <2>1, <2>2, <2>3, Kinds
<1> QED
  BY <1>0, <1>1, <1>2, ControlInvariant, EndedInvariant, GrownInvariant, StepsKnownInvariant, PTL
  DEF Spec

(* A one that the rows above account for is a first non-zero, and one that  *)
(* the look-ahead makes has no room beside it.                              *)
LEMMA OnesSeenInvariant == ~Submatrix => (Spec => []OnesSeen)
<1>0. SUFFICES ASSUME ~Submatrix PROVE Spec => []OnesSeen
  OBVIOUS
<1>1. Init => OnesSeen
  BY DEF Init, OnesSeen, Going
<1>2. Control /\ Frontier /\ Ended /\ Grown /\ StepsKnown /\ Tried /\ OnesSeen /\ [Next]_vars
        => OnesSeen'
  <2> SUFFICES ASSUME Control, Frontier, Ended, Grown, StepsKnown, Tried, OnesSeen, [Next]_vars,
                      Going', Clean', NEW q \in 1 .. Through' PROVE
                 IF pc' = "rows" THEN \A c \in Cols : dom'[q][c] = "one" => firstnz'[q] # -1
                 ELSE OneShaped(dom, lastones, firstnz, q)'
    BY DEF OnesSeen
  <2>1. CASE Triangle
    <3>1. Through' = 0
      BY <1>0, <2>1, TriangleClears DEF Triangle, Clean
    <3> QED BY <3>1
  <2>2. CASE RowFix
    <3>1. Clean /\ Going /\ pc = "rows" /\ pc' = "rows"
      BY <2>2 DEF RowFix, RowFits, Clean, Going
    <3>2. Through' = i /\ Through = i - 1 /\ i \in 1 .. NRows - 1
      BY <1>0, <2>2, <3>1, RowDone
    <3>3. CASE q = i
      BY <1>0, <2>2, <3>1, <3>3, RowDone
    <3>4. CASE q # i
      <4>1. q \in 1 .. i - 1 /\ q \in 0 .. i - 1
        BY <3>2, <3>4
      <4>2. dom'[q] = dom[q] /\ firstnz'[q] = firstnz[q]
        BY <1>0, <2>2, <3>1, <3>4, <4>1, RowDone
      <4> QED BY <3>1, <3>2, <4>1, <4>2 DEF OnesSeen
    <3> QED BY <3>3, <3>4
  <2>3. CASE ScanHit
    <3>1. Clean /\ Going /\ pc = "scan" /\ pc' = "steps" /\ k <= Len(steps)
      BY <2>3 DEF ScanHit, Clean, Going, Control, Places
    <3>2. /\ SameZeros(dom, dom') /\ UNCHANGED <<lastones, firstnz>> /\ Through' = Through
          /\ \A r \in Rows, c \in Cols :
               dom'[r][c] = "one" => \/ dom[r][c] = "one"
                                     \/ r = steps[k] /\ c = lastones[steps[k]]
      BY <1>0, <2>3, HitSame
    <3>3. q \in 1 .. Through /\ q \in Rows
      <4>1. q \in 0 .. Through
        BY <1>0, <3>1, <3>2, Written
      <4> QED BY <1>0, <3>1, <3>2, <4>1, Written
    <3>4. ASSUME NEW c \in Cols, dom'[q][c] = "one"
          PROVE  \/ firstnz[q] # -1
                 \/ lastones[q] # lastones[q - 1] /\ c = lastones[q] /\ NoRoom(dom', lastones, firstnz, q)
      <4>1. CASE dom[q][c] = "one"
        <5>1. \/ firstnz[q] # -1
              \/ lastones[q] # lastones[q - 1] /\ c = lastones[q] /\ NoRoom(dom, lastones, firstnz, q)
          BY <3>1, <3>3, <4>1 DEF OnesSeen, OneShaped
        <5> QED BY <3>2, <3>3, <5>1, RoomSame
      <4>2. CASE q = steps[k] /\ c = lastones[steps[k]]
        <5>1. lastones[q] = lastones[q - 1] + 1 /\ lastones[q] \in Cols
          BY <1>0, <3>1, <4>2, StepAtHand
        <5>2. lastones[q] # lastones[q - 1] /\ q \in 1 .. NRows - 1
          BY <1>0, <3>1, <4>2, StepAtHand DEF StepsKnown, Through
        <5>3. RoomSoFar(q) /\ q < i /\ i < NRows /\ firstnz[i] > Advance(i, beta) /\ i \in Nat
          BY <2>3, <3>1, <4>2 DEF Tried, ScanHit, Control, Places, VarTypes
        <5>4. i \in Rows /\ i \in q + 1 .. NRows - 1
          BY <3>3, <5>3, SizeAssumption DEF Rows
        <5>5. PICK b \in Trails(dom, lastones, q, i - 1) : b[i - 1] = beta
          BY <5>3 DEF RoomSoFar
        <5>6. PICK a \in Trails(dom, lastones, q, i) : a[i] = Onward(dom, i, b[i - 1])
          BY <3>3, <5>3, <5>4, <5>5, OneRowOn
        <5>7. a[i] = Advance(i, beta)
          BY <5>5, <5>6, AdvanceIsOnward
        <5>8. NoRoom(dom, lastones, firstnz, q)
          BY <5>3, <5>4, <5>6, <5>7 DEF NoRoom
        <5> QED BY <3>2, <3>3, <4>2, <5>2, <5>8, RoomSame
      <4> QED BY <3>2, <3>3, <3>4, <4>1, <4>2
    <3> QED BY <3>1, <3>2, <3>4 DEF OneShaped
  <2>4. CASE Idle
    <3>1. /\ Clean /\ Going /\ UNCHANGED <<dom, lastones, firstnz>> /\ q \in 1 .. Through
          /\ pc' = "rows" => pc = "rows"
      <4>1. pc' = "rows" => pc = "rows"
        BY <1>0, <2>4, Kinds DEF vars, Triangle, RowFix, RowFits, ScanHit, EndRows, StepFixed,
           StepOpen, ScanRow, ScanEnd, EndSteps, Idle
      <4> QED BY <2>4, <4>1 DEF Idle, Clean, Going
    <3> QED BY <3>1 DEF OnesSeen, OneShaped
  <2> QED BY <1>0, <2>1, <2>2, <2>3, <2>4, Kinds
<1> QED
  BY <1>0, <1>1, <1>2, ControlInvariant, FrontierInvariant, EndedInvariant, GrownInvariant,
     StepsKnownInvariant, TriedInvariant, PTL DEF Spec

-------------------------------------------------------------------------------
(* At the end all of it holds.                                              *)
LEMMA SettledIsFinished ==
  ASSUME ~Submatrix, Control, Ended, Grown, StepsKnown, Tried, OnesSeen, Settled
  PROVE  Finished(dom, lastones, firstnz)
<1>0. NRows \in Nat /\ NRows > 0 /\ Rows = 0 .. NRows - 1
  BY SizeAssumption DEF Rows
<1>1. /\ pc = "done" /\ Clean /\ Going /\ Through = NRows - 1 /\ Closed(dom)
      /\ k > Len(steps) /\ DOMAIN lastones = Rows /\ DOMAIN firstnz = 1 .. NRows - 1
  <2>1. /\ pc = "done" /\ Clean /\ Through = NRows - 1 /\ Closed(dom) /\ DOMAIN lastones = Rows
        /\ ~infeasible
    BY DEF Settled, Clean, Through
  <2>2. 0 \in Rows
    BY <1>0
  <2>3. Going
    BY <2>1, <2>2 DEF Going
  <2> QED BY <2>1, <2>3 DEF Ended
<1>2. /\ type \in Types /\ dom \in Bounds
      /\ lastones \in [Rows -> -1 .. NCols - 1] /\ firstnz \in [1 .. NRows - 1 -> -1 .. NCols - 1]
  BY <1>1 DEF Control, VarTypes, Arrays
<1>3. TopShaped(dom, lastones)
  BY <1>1 DEF Grown
<1>4. ASSUME NEW q \in 1 .. NRows - 1
      PROVE  /\ RowShaped(dom, lastones, firstnz, q) /\ OneShaped(dom, lastones, firstnz, q)
             /\ lastones[q] # lastones[q - 1]
                  => dom[q][lastones[q]] = "one" \/ HasRoom(dom, lastones, firstnz, q)
  <2>1. RowShaped(dom, lastones, firstnz, q) /\ OneShaped(dom, lastones, firstnz, q)
    BY <1>1 DEF Grown, OnesSeen
  <2>2. ASSUME lastones[q] # lastones[q - 1]
        PROVE  dom[q][lastones[q]] = "one" \/ HasRoom(dom, lastones, firstnz, q)
    <3>1. PICK h \in 1 .. Len(steps) : steps[h] = q
      BY <1>1, <2>2 DEF StepsKnown
    <3>2. h < k
      BY <1>1 DEF Control, Arrays, Places
    <3> QED BY <1>1, <3>1, <3>2 DEF Tried
  <2> QED BY <2>1, <2>2
<1> QED BY <1>1, <1>2, <1>3, <1>4 DEF Finished

(* Orbitopal fixing overlooks nothing: when the function for the whole      *)
(* matrix has come to its end without a verdict, and the set packing and    *)
(* partitioning constraints on the rows have nothing to say, the node has a *)
(* point, and every free entry but the corner is zero in one point of the   *)
(* orbitope that respects the bounds, and one in another.                   *)
THEOREM NothingOverlooked == ~Submatrix => (Spec => []Complete)
<1>0. SUFFICES ASSUME ~Submatrix PROVE Spec => []Complete
  OBVIOUS
<1>1. Control /\ Ended /\ Grown /\ StepsKnown /\ Tried /\ OnesSeen => Complete
  <2> SUFFICES ASSUME Control, Ended, Grown, StepsKnown, Tried, OnesSeen, Settled
               PROVE  /\ \E p \in Orbitope[type] : Fits(p, dom)
                      /\ \A e \in Free(dom, Rows \X Cols) \ {<<0, 0>>} :
                           /\ \E p \in Orbitope[type] : Fits(p, dom) /\ p[e[1]] # e[2]
                           /\ \E p \in Orbitope[type] : Fits(p, dom) /\ p[e[1]] = e[2]
    BY DEF Complete
  <2>1. Finished(dom, lastones, firstnz)
    BY <1>0, SettledIsFinished
  <2>2. \E p \in Orbitope[type] : Fits(p, dom)
    BY <2>1, StepsPoint
  <2>3. ASSUME NEW e \in Free(dom, Rows \X Cols) \ {<<0, 0>>}
        PROVE  /\ \E p \in Orbitope[type] : Fits(p, dom) /\ p[e[1]] # e[2]
               /\ \E p \in Orbitope[type] : Fits(p, dom) /\ p[e[1]] = e[2]
    <3>1. e[1] \in Rows /\ e[2] \in Cols /\ dom[e[1]][e[2]] = "free" /\ (e[1] # 0 \/ e[2] # 0)
      BY DEF Free
    <3> QED BY <2>1, <3>1, FreeChoice
  <2> QED BY <2>2, <2>3
<1> QED
  BY <1>0, <1>1, ControlInvariant, EndedInvariant, GrownInvariant, StepsKnownInvariant,
     TriedInvariant, OnesSeenInvariant, PTL
===============================================================================
