---------------------------- MODULE FullResolution ----------------------------
(***************************************************************************)
(* The reasons a full orbitope constraint gives for its fixings            *)
(* (cons_orbitope.c, resolvePropagationFullOrbitope).                      *)
(*                                                                         *)
(* The propagation notes nothing with a fixing.  To resolve one, both      *)
(* faces are computed again from the bounds in force just before it, for   *)
(* the whole matrix, and in every column the fixed entries are given as    *)
(* reason down to the row in which the faces are decided.  Fixings in a    *)
(* submatrix that an activation handler has found are noted and resolved   *)
(* in the same way.                                                        *)
(***************************************************************************)
EXTENDS LexFixing, SubmatrixBounds

CONSTANTS
  NRows,           (* nspcons                                              *)
  NCols,           (* nblocks                                              *)
  Matrices,        (* the bounds at a node                                 *)
  Submatrices,     (* the submatrices a handler may find                   *)
  Symmetric(_, _), (* Symmetric(d, s): s is a sub-symmetry under bounds d  *)
  Points           (* the solutions: row |-> column |-> 0 or 1             *)

Rows == 0 .. NRows - 1
Cols == 0 .. NCols - 1
Bounds == [Rows \X Cols -> {"free", "zero", "one"}]

(* Assumed of the constants, by the module that instantiates this one.      *)
SizeAssumption == NRows \in Nat \ {0} /\ NCols \in Nat \ {0}
MatrixAssumption == Matrices \subseteq Bounds
PointAssumption == Points \subseteq [Rows -> [Cols -> 0 .. 1]]

VARIABLES
  dom,         (* the bounds                                               *)
  list,        (* the list of submatrices from submatrix on                *)
  trail,       (* the fixings: entry, value, and the bounds before         *)
  pc,
  bdchg,       (* the fixing to be resolved                                *)
  reason,      (* the entries given to conflict analysis                   *)
  result

vars == <<dom, list, trail, pc, bdchg, reason, result>>

-------------------------------------------------------------------------------
Natural(n) == [k \in 1 .. n |-> k - 1]
Whole == [rows |-> Natural(NRows), cols |-> Natural(NCols)]

NoFixing == [entry |-> <<0, 0>>, value |-> "free", by |-> Whole, before |-> <<>>]

Init ==
  /\ dom \in Matrices
  /\ list = <<>> /\ trail = {} /\ pc = "whole"
  /\ bdchg = NoFixing /\ reason = {} /\ result = "none"

(* The submatrix is worked off column by column, each from the top.         *)
Earlier(e, f) == e[2] < f[2] \/ (e[2] = f[2] /\ e[1] < f[1])

(* doPropagateFullOrbitope on s, whose bounds d it changes to those of f.   *)
Propagate(s, d, f) ==
  LET new == {e \in DOMAIN d : f.dom[e] # d[e]}
      before(e) == [g \in DOMAIN d |-> IF g \in new /\ Earlier(g, e) THEN f.dom[g] ELSE d[g]]
  IN  /\ dom' = WriteBack(dom, s, f.dom)
      /\ trail' = trail \cup
           {[entry |-> <<s.rows[e[1] + 1], s.cols[e[2] + 1]>>, value |-> f.dom[e], by |-> s,
             before |-> WriteBack(dom, s, before(e))] : e \in new}

(* What a handler returns; the bound is one submatrix.                      *)
Lists == {<<>>} \cup {<<s>> : s \in {h \in Submatrices : Symmetric(dom', h)}}

PropagateWhole ==
  /\ pc = "whole"
  /\ LET d == SubBounds(dom, Whole)
         f == FullFixing(d)
     IN  /\ Propagate(Whole, d, f)
         /\ IF f.infeasible THEN list' = <<>> ELSE list' \in Lists
  /\ pc' = IF list' = <<>> THEN "fixed" ELSE "sub"
  /\ UNCHANGED <<bdchg, reason, result>>

PropagateSubmatrix ==
  /\ pc = "sub"
  /\ LET d == SubBounds(dom, list[1]) IN Propagate(list[1], d, FullFixing(d))
  /\ list' = Tail(list)
  /\ pc' = IF list' = <<>> THEN "fixed" ELSE "sub"
  /\ UNCHANGED <<bdchg, reason, result>>

-------------------------------------------------------------------------------
(* The first row in which column a, beside the completed column b, has      *)
(* another value; the last row when there is none.                          *)
FixedRow(a, b) ==
  LET F == {r \in Rows : a[r] # b[r] /\ a[r] # 2}
  IN  IF F = {} THEN NRows - 1 ELSE Min(F)

(* Slip: the first of two pairs of columns decides, not the lower row.      *)
MinFixedRowsLess(d) ==
  LET low  == LexMinFace(d)
      high == LexMaxFace(d)
      lowAt(c)  == FixedRow(Column(d, c, 2), low[c + 1].col)
      highAt(c) == FixedRow(Column(d, c, 2), high[c - 1].col)
  IN  [c \in Cols |->
         Min({lowAt(b) : b \in {c - 1, c} \cap 0 .. NCols - 2}
             \cup {highAt(b) : b \in {c, c + 1} \cap 1 .. NCols - 1} \cup {NRows - 1})]

(* minfixedrowlexmin and minfixedrowlexmax: each column has the lower one   *)
(* of the rows of its two pairs, and the lower one of the two faces.        *)
MinFixedRows(d) ==
  LET low  == LexMinFace(d)
      high == LexMaxFace(d)
      lowAt(c)  == FixedRow(Column(d, c, 2), low[c + 1].col)
      highAt(c) == FixedRow(Column(d, c, 2), high[c - 1].col)
  IN  [c \in Cols |->
         Max({lowAt(b) : b \in {c - 1, c} \cap 0 .. NCols - 2}
             \cup {highAt(b) : b \in {c, c + 1} \cap 1 .. NCols - 1} \cup {-1})]

Resolve ==
  /\ pc = "fixed"
  /\ bdchg' \in trail
  /\ LET d   == bdchg'.before
         bad == LexMinFace(d)[0].bad \/ LexMaxFace(d)[NCols - 1].bad
     IN  reason' = IF bad THEN {}
                   ELSE LET rows == MinFixedRows(d)
                        IN  {e \in Rows \X Cols : e[1] <= rows[e[2]] /\ d[e] # "free"}
  /\ result' = IF reason' = {} THEN "didnotfind" ELSE "success"
  /\ pc' = "done"
  /\ UNCHANGED <<dom, list, trail>>

Next == PropagateWhole \/ PropagateSubmatrix \/ Resolve

Spec == Init /\ [][Next]_vars

-------------------------------------------------------------------------------
Fits(x, d, E) ==
  \A e \in E : (d[e] = "one" => x[e[1]][e[2]] = 1) /\ (d[e] = "zero" => x[e[1]][e[2]] = 0)

Fixed(x) == [e \in Rows \X Cols |-> IF x[e[1]][e[2]] = 1 THEN "one" ELSE "zero"]

Sorted(x, s) ==
  \A h \in 2 .. Len(s.cols) : \A g \in DOMAIN s.rows :
    x[s.rows[g]][s.cols[h - 1]] < x[s.rows[g]][s.cols[h]] =>
      \E f \in 1 .. g - 1 : x[s.rows[f]][s.cols[h - 1]] > x[s.rows[f]][s.cols[h]]

(* A fixing found in the whole matrix follows from its reason: no bound     *)
(* below the rows in which the faces are decided was needed for it, so that *)
(* conflict analysis learns nothing that cuts off a sorted solution.        *)
WholeReasonImplies ==
  result = "success" /\ bdchg.by = Whole =>
    \A x \in Points :
      Sorted(x, Whole) /\ Fits(x, bdchg.before, reason) =>
        Fits(x, [dom EXCEPT ![bdchg.entry] = bdchg.value], {bdchg.entry})
===============================================================================
