----------------------------- MODULE MCResolution ------------------------------
(***************************************************************************)
(* What the orbitope constraint handler is asked about fixings and about   *)
(* solutions, each with a small instance: the callbacks that look at a     *)
(* solution (OrbitopeEnforcement); reasons in packing and partitioning     *)
(* orbitopes (R) and in full ones (U), the latter with the sub-symmetries  *)
(* of production units.  A behaviour is that of one of the three; the      *)
(* others are left alone.                                                  *)
(***************************************************************************)
EXTENDS OrbitopeEnforcement

CONSTANTS NRows, NCols, Types, Matrices   (* of R *)

Entries == (0 .. NRows - 1) \X (0 .. NCols - 1)

(* Any bounds below the diagonal. *)
LowerBounds ==
  {[e \in Entries |-> IF e[2] > e[1] THEN "zero" ELSE d[e]] :
     d \in [{e \in Entries : e[2] <= e[1]} -> {"free", "zero", "one"}]}

(* The first rows are fixed to zero, so that the frontier comes late.       *)
LateBounds ==
  {[e \in Entries |-> IF e[2] > e[1] \/ e[1] < 2 THEN "zero" ELSE d[e]] :
     d \in [{e \in Entries : e[2] <= e[1] /\ e[1] >= 2} -> {"free", "zero", "one"}]}

VARIABLES
  kind,
  type, s, row, trail, rpc, bdchg, table, p, reason, rresult,
  udom, ulist, utrail, upc, ubdchg, ureason, uresult

rvars == <<type, s, row, trail, rpc, bdchg, table, p, reason, rresult>>
uvars == <<udom, ulist, utrail, upc, ubdchg, ureason, uresult>>

R == INSTANCE ConflictResolution WITH pc <- rpc, result <- rresult

-------------------------------------------------------------------------------
(* A matrix of three units and three periods.  Columns may be exchanged     *)
(* below two equal rows.                                                    *)
Periods  == 0 .. 2
LastRow  == {[rows |-> <<2>>, cols |-> <<0, 1, 2>>]}
UnitsSymmetric(d, s_) ==
  \E v \in {"zero", "one"} : \A k \in Periods : d[0, k] = v /\ d[1, k] = v

U == INSTANCE FullResolution WITH
  NRows       <- 3,
  NCols       <- 3,
  Matrices    <- [Periods \X Periods -> {"free", "zero", "one"}],
  Submatrices <- LastRow,
  Symmetric   <- UnitsSymmetric,
  Points      <- [Periods -> [Periods -> 0 .. 1]],
  dom <- udom, list <- ulist, trail <- utrail, pc <- upc, bdchg <- ubdchg,
  reason <- ureason, result <- uresult

-------------------------------------------------------------------------------
(* Matrices with values 0 .. v1 whose rows are as the type says.            *)
Sols(m, n, t, v1) ==
  LET rowsum(r) == MapThenSumSet(LAMBDA h : r[h], DOMAIN r)
      Rows   == {r \in [0 .. n - 1 -> 0 .. v1] :
                   t = "full" \/ rowsum(r) = v1 \/ (t = "packing" /\ rowsum(r) < v1)}
  IN  {[e \in (0 .. m - 1) \X (0 .. n - 1) |-> g[e[1]][e[2]]] : g \in [0 .. m - 1 -> Rows]}

(* Bounds of the triangle that allow the solution.                          *)
Triangles(v) ==
  {tri \in [{e \in DOMAIN v : e[2] > e[1]} -> {"free", "zero", "one"}] :
     \A e \in DOMAIN tri : (tri[e] = "zero" => v[e] = 0) /\ (tri[e] = "one" => v[e] = 1)}

(* The flag is set only when the triangle is fixed.                         *)
PackingConss(m, n, t) ==
  {k \in UNION {{[type |-> t, model |-> g, fixed |-> f, triangle |-> tri, sol |-> v] :
                   g, f \in BOOLEAN, tri \in Triangles(v)} : v \in Sols(m, n, t, 1)} :
     k.fixed => \A e \in DOMAIN k.triangle : k.triangle[e] = "zero"}

(* Full orbitopes have no triangle that is fixed. *)
FullConss(m, n, v1) ==
  {[type |-> "full", model |-> g, fixed |-> FALSE, triangle |-> <<>>, sol |-> v] :
     g \in BOOLEAN, v \in Sols(m, n, "full", v1)}

Large == PackingConss(3, 3, "packing") \cup PackingConss(4, 2, "partitioning")
Small == PackingConss(2, 2, "packing") \cup FullConss(2, 2, 1)

(* One or two constraints.  Solutions of 0 and 1 come to all callbacks;     *)
(* those with halves to the separation of full orbitopes.                   *)
AllProblems ==
  {[conss |-> l, one |-> 1, calls |-> {"sepa", "enfolp", "enfops", "check"}] :
     l \in {<<k>> : k \in Large \cup Small} \cup (Small \X Small)} \cup
  {[conss |-> <<k>>, one |-> 2, calls |-> {"sepa"}] : k \in FullConss(3, 2, 2)}

ASSUME U!SizeAssumption /\ U!MatrixAssumption /\ U!PointAssumption
ASSUME R!SizeAssumption /\ R!TypeAssumption /\ R!MatrixAssumption

-------------------------------------------------------------------------------
(* The ones that are not looked at. *)
NoPacking ==
  /\ type = "packing" /\ s = <<>> /\ row = 1 /\ trail = {} /\ rpc = "done"
  /\ bdchg = R!NoFixing /\ table = <<>> /\ p = <<0, 0>> /\ reason = {} /\ rresult = "none"
NoFull ==
  /\ udom = <<>> /\ ulist = <<>> /\ utrail = {} /\ upc = "done"
  /\ ubdchg = U!NoFixing /\ ureason = {} /\ uresult = "none"
NoCallback ==
  /\ pc = "done" /\ call = "none" /\ completely = FALSE /\ refused = FALSE /\ one = 1
  /\ nuseful = 0 /\ conss = <<>> /\ c = 1 /\ infeasible = FALSE /\ nfixed = 0 /\ cuts = {}
  /\ result = "none"

InitKind ==
  \/ kind = "packing" /\ R!Init /\ NoFull /\ NoCallback
  \/ kind = "full" /\ NoPacking /\ U!Init /\ NoCallback
  \/ kind = "callback" /\ NoPacking /\ NoFull /\ Init

NextPacking  == kind = "packing" /\ R!Next /\ UNCHANGED <<kind, uvars, vars>>
NextFull     == kind = "full" /\ U!Next /\ UNCHANGED <<kind, rvars, vars>>
NextCallback == kind = "callback" /\ Next /\ UNCHANGED <<kind, rvars, uvars>>

SpecKind ==
  InitKind /\ [][NextPacking \/ NextFull \/ NextCallback]_<<kind, rvars, uvars, vars>>

(* Packing and partitioning orbitopes alone. *)
SpecPacking ==
  /\ kind = "packing" /\ R!Init /\ NoFull /\ NoCallback
  /\ [][NextPacking]_<<kind, rvars, uvars, vars>>

-------------------------------------------------------------------------------
(* Every fixing is resolved: the table holds the least weights, the walk    *)
(* through it stays in it, as the assertions of its loop say, and comes to  *)
(* the bar.                                                                 *)
AlwaysResolvedInTable == kind = "packing" => R!TypeOK /\ R!AlwaysResolved /\ R!TableLeast

(* The reason of a fixing was in force before it, and implies it, unless    *)
(* two shifted columns could have forced it.                                *)
ReasonRight == R!ReasonInForce /\ (R!OneColumnForces => R!ReasonImplies)

(* The fixing follows from its reason, whatever the shifted columns.        *)
ReasonImplies == R!ReasonImplies

(* A fixing found in the whole of a full orbitope follows from its reason.  *)
WholeReasonImplies == U!WholeReasonImplies
================================================================================
