---------------------------- MODULE MCFullOrbitope ----------------------------
(***************************************************************************)
(* Full orbitopes, created and propagated, for TLC.  Instances of          *)
(* FullOrbitope: the schedules of production units, with the               *)
(* sub-symmetries of the sub-orbitope handler and any bounds at the root,  *)
(* and, for the dynamic row order, a tree of three nodes below a root with *)
(* two columns and nothing fixed.  Instances of StrengthenOrbitope: a      *)
(* square matrix, one of four rows, and one with a variable beside it.     *)
(***************************************************************************)
EXTENDS FullOrbitope
LOCAL INSTANCE FiniteSetsExt
LOCAL INSTANCE SequencesExt

(* Any bounds, with an entry of the last row free: 3^8 for 3 x 3.           *)
AnyRoot   == {d \in Bounds : d[NRows - 1, 1] = "free"}
AnyMatrix == [Rows -> [Cols -> 0 .. 1]]
NoneSymmetric(d, s) == FALSE

(* Production units that stay up, and down, for two periods. *)
MinTime == 2
StartsAt(x, r, k) == r > 0 /\ x[r][k] = 1 /\ x[r - 1][k] = 0
StopsAt(x, r, k)  == r > 0 /\ x[r][k] = 0 /\ x[r - 1][k] = 1
Schedules ==
  {x \in AnyMatrix : \A r \in Rows, k \in Cols : \A q \in Rows :
     /\ StartsAt(x, r, k) /\ q \in r .. r + MinTime - 1 => x[q][k] = 1
     /\ StopsAt(x, r, k) /\ q \in r .. r + MinTime - 1 => x[q][k] = 0}

UnitSubs ==
  {[rows |-> SetToSortSeq(r .. NRows - 1, LAMBDA a, b : a < b),
    cols |-> SetToSortSeq(C, LAMBDA a, b : a < b)] :
     r \in 1 .. NRows - 1, C \in {S \in SUBSET Cols : Cardinality(S) >= 2}}
UnitsSymmetric(d, s) ==
  \E v \in {"zero", "one"} : \A h \in DOMAIN s.cols :
    \A q \in s.rows[1] - MinTime .. s.rows[1] - 1 : q \in Rows /\ d[q, s.cols[h]] = v

(* Every plan has a representative with as many units up in each period and *)
(* as many starts.                                                          *)
Up(x, r)     == Cardinality({k \in Cols : x[r][k] = 1})
Starts(x) == Cardinality({e \in Rows \X Cols : StartsAt(x, e[1], e[2])})
SortedPlans ==
  {x \in Points :
     /\ Sorted(x, [rows |-> Natural(NRows), cols |-> Natural(NCols)])
     /\ \A s \in Submatrices : Symmetric(Fixed(x), s) => Sorted(x, s)}
ASSUME HasHandler =>
  \A x \in Points : \E y \in SortedPlans :
    Starts(y) = Starts(x) /\ \A r \in Rows : Up(y, r) = Up(x, r)
-------------------------------------------------------------------------------
D == INSTANCE FullOrbitope WITH
  NCols       <- 2,
  Dynamic     <- TRUE,
  HasHandler  <- FALSE,
  Roots       <- {[e \in Rows \X (0 .. 1) |-> "free"]},
  Submatrices <- {},
  Symmetric   <- NoneSymmetric,
  Points      <- [Rows -> [0 .. 1 -> 0 .. 1]],
  MaxList     <- 0,
  MaxNodes    <- 3

VARIABLES
  spc, scovered, sncovered, sncoveredpart, scons, stodo, sleft, scoverage, shit, smay,
  srows, snrows, sr, stype, swithin, sexact,     (* the strengthening      *)
  kind                                           (* which instance it is   *)

svars == <<spc, scovered, sncovered, sncoveredpart, scons, stodo, sleft, scoverage, shit, smay,
           srows, snrows, sr, stype, swithin, sexact>>

Square == INSTANCE StrengthenOrbitope WITH
  NRows <- 3, NCols <- 3, NOutside <- 0, MinRows <- 3,
  pc <- spc, covered <- scovered, ncovered <- sncovered, ncoveredpart <- sncoveredpart,
  cons <- scons, todo <- stodo, left <- sleft, coverage <- scoverage, hit <- shit,
  mayinteract <- smay, rows <- srows, nrows <- snrows, r <- sr, type <- stype,
  within <- swithin, exact <- sexact
Tall == INSTANCE StrengthenOrbitope WITH
  NRows <- 4, NCols <- 2, NOutside <- 0, MinRows <- 3,
  pc <- spc, covered <- scovered, ncovered <- sncovered, ncoveredpart <- sncoveredpart,
  cons <- scons, todo <- stodo, left <- sleft, coverage <- scoverage, hit <- shit,
  mayinteract <- smay, rows <- srows, nrows <- snrows, r <- sr, type <- stype,
  within <- swithin, exact <- sexact
Mixed == INSTANCE StrengthenOrbitope WITH
  NRows <- 3, NCols <- 2, NOutside <- 1, MinRows <- 2,
  pc <- spc, covered <- scovered, ncovered <- sncovered, ncoveredpart <- sncoveredpart,
  cons <- scons, todo <- stodo, left <- sleft, coverage <- scoverage, hit <- shit,
  mayinteract <- smay, rows <- srows, nrows <- snrows, r <- sr, type <- stype,
  within <- swithin, exact <- sexact

ASSUME Square!SizeAssumption /\ Tall!SizeAssumption /\ Mixed!SizeAssumption

NoTree ==
  /\ root = <<>> /\ tree = <<>> /\ roworder = <<>> /\ pc = "none" /\ path = <<>>
  /\ entered = <<>> /\ dom = <<>> /\ list = <<>> /\ infeasible = FALSE /\ nfixed = 0
NoScan ==
  /\ spc = "none" /\ scovered = <<>> /\ sncovered = 0 /\ sncoveredpart = 0 /\ scons = <<>>
  /\ stodo = <<>> /\ sleft = 0 /\ scoverage = <<>> /\ shit = {} /\ smay = FALSE
  /\ srows = <<>> /\ snrows = 0 /\ sr = 0 /\ stype = "none" /\ swithin = {} /\ sexact = {}

InitKind ==
  \/ kind = "static" /\ Init /\ NoScan
  \/ kind = "dynamic" /\ D!Init /\ NoScan
  \/ kind = "square" /\ Square!Init /\ NoTree
  \/ kind = "tall" /\ Tall!Init /\ NoTree
  \/ kind = "mixed" /\ Mixed!Init /\ NoTree

NextStatic  == kind = "static" /\ Next /\ UNCHANGED <<svars, kind>>
NextDynamic == kind = "dynamic" /\ D!Next /\ UNCHANGED <<svars, kind>>
NextSquare  == kind = "square" /\ Square!Next /\ UNCHANGED <<vars, kind>>
NextTall    == kind = "tall" /\ Tall!Next /\ UNCHANGED <<vars, kind>>
NextMixed   == kind = "mixed" /\ Mixed!Next /\ UNCHANGED <<vars, kind>>

SpecKind ==
  /\ InitKind
  /\ [][NextStatic \/ NextDynamic \/ NextSquare \/ NextTall \/ NextMixed]_<<vars, svars, kind>>

(* A representative solution is never lost, in either kind, although the    *)
(* row order, in which no row is twice, is shared by all nodes of the tree. *)
RepresentativesKeptOfKind ==
  CASE kind = "static"  -> TypeOK /\ RepresentativesKept
    [] kind = "dynamic" -> D!TypeOK /\ D!RepresentativesKept
    [] OTHER            -> TRUE

(* The propagation of the matrix is exact, in either kind.                  *)
FixesExactlyOfKind ==
  [][CASE kind = "static"  -> ExactStep
       [] kind = "dynamic" -> D!ExactStep
       [] OTHER            -> TRUE]_<<vars, svars, kind>>

(* A full orbitope is strengthened soundly, whatever the order of the       *)
(* constraints and of their variables, and the counters of the scan agree   *)
(* with what it has recorded.  In a square matrix no row is missed: with    *)
(* more rows than columns the scan may end before all have been looked at,  *)
(* and with variables outside of the matrix a constraint may be given up    *)
(* too early.                                                               *)
StrengthenedRight ==
  CASE kind = "square" ->
         Square!TypeOK /\ Square!CountsMatch /\ Square!StrengthenedSoundly /\ Square!AllRowsFound
    [] kind = "tall"   -> Tall!TypeOK /\ Tall!CountsMatch /\ Tall!StrengthenedSoundly
    [] kind = "mixed"  -> Mixed!TypeOK /\ Mixed!CountsMatch /\ Mixed!StrengthenedSoundly
    [] OTHER           -> TRUE
===============================================================================
