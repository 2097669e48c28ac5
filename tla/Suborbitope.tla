----------------------------- MODULE Suborbitope ------------------------------
(***************************************************************************)
(* The sub-orbitope activation handler (activation_suborbitope.c), its     *)
(* callback findPatternMatches.                                            *)
(*                                                                         *)
(* The columns of the matrix are identical production units, its rows the  *)
(* periods of time.  A unit that has been down for its minimum downtime    *)
(* may be started again, and it does not matter how long it has been down  *)
(* before; likewise for the minimum uptime.  The handler looks for columns *)
(* that end, above some row, in a tower of enough entries fixed to zero,   *)
(* or to one: from that row on these columns form a full orbitope.         *)
(***************************************************************************)
EXTENDS AscendingOrder

CONSTANTS
  M, N,          (* rows and columns                                       *)
  zeroheight,    (* height of the tower of zeros: the minimum downtime     *)
  oneheight,     (* height of the tower of ones: the minimum uptime        *)
  Matrices       (* the bounds the matrix may have at a node               *)

RowIndices == 0 .. M - 1
Cols == 0 .. N - 1
Dom  == {"free", "zero", "one"}

(* Assumed of the constants, by the module that instantiates this one.      *)
SizeAssumption == M \in Nat \ {0} /\ N \in Nat \ {0}
HeightAssumption == zeroheight \in Nat \ {0} /\ oneheight \in Nat \ {0}
MatrixAssumption == Matrices \subseteq [RowIndices -> [Cols -> Dom]] /\ Matrices # {}

VARIABLES
  dom,            (* local bounds of the matrix at the current node        *)
  pc,
  i,              (* the row at hand                                       *)
  zerotower,      (* zerotowerheight                                       *)
  onetower,       (* onetowerheight                                        *)
  zeroused,       (* zerousedcols                                          *)
  oneused,        (* oneusedcols                                           *)
  found           (* the list of submatrices, the latest first             *)

vars == <<dom, pc, i, zerotower, onetower, zeroused, oneused, found>>

-------------------------------------------------------------------------------
NoTower  == [k \in Cols |-> 0]
SomeNode == CHOOSE d \in Matrices : TRUE

Init ==
  /\ dom = SomeNode
  /\ pc = "idle"
  /\ i = 0
  /\ zerotower = NoTower /\ onetower = NoTower
  /\ zeroused = {} /\ oneused = {}
  /\ found = <<>>

(* The propagator calls the handler at a node with bounds d. *)
Call ==
  /\ pc = "idle"
  /\ dom' \in Matrices
  /\ zerotower' = NoTower /\ onetower' = NoTower
  /\ i' = 0
  /\ found' = <<>>
  /\ pc' = "row"
  /\ UNCHANGED <<zeroused, oneused>>

(* Slip: a free entry leaves the towers as they are. *)
GrowOverFree(t, v) ==
  [k \in Cols |-> IF dom[i][k] = v THEN t[k] + 1 ELSE IF dom[i][k] = "free" THEN t[k] ELSE 0]

(* The tower t of entries v, one row further down. *)
Grow(t, v) == [k \in Cols |-> IF dom[i][k] = v THEN t[k] + 1 ELSE 0]

(* Slip: the towers grow before they are measured. *)
ScanRowAfter ==
  /\ pc = "row" /\ i < M
  /\ zerotower' = Grow(zerotower, "zero")
  /\ onetower' = Grow(onetower, "one")
  /\ zeroused' = {k \in Cols : zerotower'[k] >= zeroheight}
  /\ oneused' = {k \in Cols : zerotower'[k] < zeroheight /\ onetower'[k] >= oneheight}
  /\ pc' = "zeros"
  /\ UNCHANGED <<dom, i, found>>

(* Row i: the towers above it are measured, then the row is added to them.  *)
ScanRow ==
  /\ pc = "row" /\ i < M
  /\ zeroused' = {k \in Cols : zerotower[k] >= zeroheight}
  /\ oneused' = {k \in Cols : zerotower[k] < zeroheight /\ onetower[k] >= oneheight}
  /\ zerotower' = Grow(zerotower, "zero")
  /\ onetower' = Grow(onetower, "one")
  /\ pc' = "zeros"
  /\ UNCHANGED <<dom, i, found>>

(* The rows from i on and the columns C, in the order of the matrix. *)
Submatrix(C) == [first |-> i, cols |-> Ascending(C)]

RecordZeros ==
  /\ pc = "zeros"
  /\ found' = IF Cardinality(zeroused) >= 2 THEN <<Submatrix(zeroused)>> \o found ELSE found
  /\ pc' = "ones"
  /\ UNCHANGED <<dom, i, zerotower, onetower, zeroused, oneused>>

RecordOnes ==
  /\ pc = "ones"
  /\ found' = IF Cardinality(oneused) >= 2 THEN <<Submatrix(oneused)>> \o found ELSE found
  /\ i' = i + 1
  /\ pc' = "row"
  /\ UNCHANGED <<dom, zerotower, onetower, zeroused, oneused>>

(* The buffers are freed, and the list is handed to the propagator ... *)
Return ==
  /\ pc = "row" /\ i = M
  /\ pc' = "returned"
  /\ zerotower' = NoTower /\ onetower' = NoTower /\ zeroused' = {} /\ oneused' = {}
  /\ UNCHANGED <<dom, i, found>>

(* ... which propagates it and frees it. *)
Consume ==
  /\ pc = "returned"
  /\ found' = <<>>
  /\ dom' = SomeNode
  /\ pc' = "idle"
  /\ UNCHANGED <<i, zerotower, onetower, zeroused, oneused>>

Next == Call \/ ScanRow \/ RecordZeros \/ RecordOnes \/ Return \/ Consume

Spec == Init /\ [][Next]_vars

-------------------------------------------------------------------------------
(***************************************************************************)
(* Properties.                                                             *)
(***************************************************************************)

Active == pc \notin {"idle", "returned"}

(* The variables have the values their declarations in the code allow.      *)
TypeOK ==
  /\ dom \in Matrices
  /\ pc \in {"idle", "row", "zeros", "ones", "returned"}
  /\ i \in 0 .. M
  /\ zerotower \in [Cols -> 0 .. M] /\ onetower \in [Cols -> 0 .. M]
  /\ zeroused \subseteq Cols /\ oneused \subseteq Cols
  /\ found \in Seq([first : RowIndices, cols : Seq(Cols)])

(* The h entries of column k above row r are fixed to v. *)
Tower(d, k, r, h, v) == r >= h /\ \A q \in r - h .. r - 1 : d[q][k] = v

(* The columns C are interchangeable from row r on: all have been down for  *)
(* long enough, or all up.                                                  *)
SubSymmetric(d, s) ==
  \/ \A k \in s.cols : Tower(d, k, s.first, zeroheight, "zero")
  \/ \A k \in s.cols : Tower(d, k, s.first, oneheight, "one")

AsSet(s) == [first |-> s.first, cols |-> Range(s.cols)]
Listed(f) == {AsSet(f[k]) : k \in DOMAIN f}

(* The handler implements what the propagator expects of it. *)
Source == INSTANCE SubSymmetrySource WITH
  Domains     <- Matrices,
  Submatrices <- [first : RowIndices, cols : SUBSET Cols],
  Symmetric   <- SubSymmetric,
  busy        <- Active,
  found       <- Listed(found)

ImplementsSource == Source!Spec

Down(r) == {k \in Cols : Tower(dom, k, r, zeroheight, "zero")}
Up(r)   == {k \in Cols : Tower(dom, k, r, oneheight, "one")}

(* The list holds the columns with a tower above each row, all of them: the *)
(* heights kept from row to row are those of the towers. A unit that counts *)
(* as down is not put among those that are up.                              *)
AllTowers ==
  pc = "returned" =>
    Listed(found) = {s \in [first : RowIndices, cols : SUBSET Cols] :
                       Cardinality(s.cols) >= 2 /\ s.cols \in {Down(s.first), Up(s.first)}}

(* The schedules of one unit: from a start it stays up for oneheight        *)
(* periods and before a start it was down for zeroheight periods. The state *)
(* before the first period is open.                                         *)
StartsAt(p, t) == t > 0 /\ p[t] = 1 /\ p[t - 1] = 0
Schedule(p) ==
  \A t \in RowIndices :
    StartsAt(p, t) =>
      /\ \A q \in t .. t + oneheight - 1 : q \in RowIndices => p[q] = 1
      /\ \A q \in t - zeroheight .. t - 1 : q \in RowIndices => p[q] = 0

FitsColumn(p, k, r) ==
  \A q \in 0 .. r - 1 : /\ dom[q][k] = "one"  => p[q] = 1
                        /\ dom[q][k] = "zero" => p[q] = 0
Starts(p) == Cardinality({t \in RowIndices : StartsAt(p, t)})
Joined(p, q, r) == [t \in RowIndices |-> IF t < r THEN p[t] ELSE q[t]]

(* Two units of a submatrix may exchange what they do from its first row    *)
(* on: both schedules stay schedules, with as many starts as before.        *)
TailsMayBeExchanged ==
  pc = "returned" =>
    \A s \in Range(found) : \A b, c \in Range(s.cols) :
      \A p, q \in {x \in [RowIndices -> 0 .. 1] : Schedule(x)} :
        FitsColumn(p, b, s.first) /\ FitsColumn(q, c, s.first) =>
          /\ Schedule(Joined(p, q, s.first)) /\ Schedule(Joined(q, p, s.first))
          /\ Starts(Joined(p, q, s.first)) + Starts(Joined(q, p, s.first))
               = Starts(p) + Starts(q)
===============================================================================
