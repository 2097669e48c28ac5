-------------------------- MODULE PackingPropagation --------------------------
(***************************************************************************)
(* Orbitopal fixing for a packing or partitioning orbitope                 *)
(* (cons_orbitope.c): propagatePackingPartitioningCons for the whole       *)
(* matrix, propagatePackingPartitioningConsSubmatrix for a submatrix that  *)
(* an activation handler has found, and the triangle each fixes first.     *)
(*                                                                         *)
(* Row by row, the code keeps the rightmost column that can hold a one     *)
(* (lastones), fixes what lies beyond it to zero, and notes the rows in    *)
(* which it moves (frontiersteps).  Then it looks ahead from each of these *)
(* rows: if not taking the step leaves no place for the first non-zero of  *)
(* some row below, the step has to be taken.                               *)
(*                                                                         *)
(* The two functions have the same text but for the places where Submatrix *)
(* appears below.  Entries of a submatrix are named by their place in it.  *)
(***************************************************************************)
EXTENDS Integers, FiniteSets, Sequences

CONSTANTS
  NRows,      (* nspcons, or nrows of the submatrix                        *)
  NCols,      (* nblocks, or ncols of the submatrix                        *)
  Types,      (* the types of orbitope                                     *)
  Submatrix,  (* TRUE: the function for submatrices                        *)
  Matrices    (* the bounds the matrix may have at a node                  *)

Rows == 0 .. NRows - 1
Cols == 0 .. NCols - 1

(* The local bounds of a binary variable. *)
Dom == {"free", "zero", "one"}

Bounds == [Rows -> [Cols -> Dom]]

ASSUME SizeAssumption == NRows \in Nat \ {0} /\ NCols \in Nat \ {0}
ASSUME TypeAssumption == Types \subseteq {"packing", "partitioning"} /\ Types # {}
ASSUME ModeAssumption == Submatrix \in BOOLEAN
ASSUME MatrixAssumption == Matrices \subseteq Bounds /\ Matrices # {}

VARIABLES
  type,        (* orbitopetype                                             *)
  dom0,        (* the bounds when the function was called                  *)
  dom,         (* the bounds now                                           *)
  pc,          (* where the function is                                    *)
  i,           (* the row at hand                                          *)
  last,        (* lastoneprevrow                                           *)
  lastones,    (* row |-> rightmost column for a one; rows written so far  *)
  firstnz,     (* row |-> firstnonzeros; rows written so far               *)
  steps,       (* frontiersteps[0 .. nsteps - 1]                           *)
  k,           (* the frontier step at hand, counted from 1                *)
  beta,        (* betaprev                                                 *)
  infeasible,  (* *infeasible                                              *)
  nfixed,      (* *nfixedvars                                              *)
  conflict     (* the bounds given to conflict analysis                    *)

vars == <<type, dom0, dom, pc, i, last, lastones, firstnz, steps, k, beta,
          infeasible, nfixed, conflict>>

-------------------------------------------------------------------------------
(***************************************************************************)
(* Reading and fixing entries.                                             *)
(***************************************************************************)

Fix(d, E, v) ==
  [r \in Rows |-> [c \in Cols |-> IF <<r, c>> \in E THEN v ELSE d[r][c]]]

Free(d, E) == {e \in E : d[e[1]][e[2]] = "free"}
Ones(d, E) == {e \in E : d[e[1]][e[2]] = "one"}

(* The order in which nested loops over rows and columns visit entries. *)
Before(e, f) == e[1] < f[1] \/ (e[1] = f[1] /\ e[2] < f[2])

(* The free entries of E in front of the first one: a loop that fixes E to *)
(* zero stops there, with *infeasible = TRUE.                              *)
FreeBeforeOne(d, E) == {e \in Free(d, E) : \A o \in Ones(d, E) : Before(e, o)}

(* Slip: the triangle contains the diagonal. *)
UpperWithDiagonal == {e \in Rows \X Cols : e[2] >= e[1]}

(* The triangle above the diagonal. *)
Upper == {e \in Rows \X Cols : e[2] > e[1]}

(* The last column that is part of the bar of row r. *)
LastColumn(r) == IF NCols - 1 > r THEN r ELSE NCols - 1

(* Slip: a free entry of a packing orbitope counts as a one. *)
FirstCandidatesFree(r) ==
  {c \in 0 .. LastColumn(r) : dom[r][c] # "zero"}

FirstCandidates(r) ==
  {c \in 0 .. LastColumn(r) :
     IF type = "partitioning" THEN dom[r][c] # "zero" ELSE dom[r][c] = "one"}

FirstNonzero(r) ==
  IF FirstCandidates(r) = {} THEN -1
  ELSE CHOOSE c \in FirstCandidates(r) : \A b \in FirstCandidates(r) : c <= b

(* In row r the frontier cannot move from column l to column l + 1. *)
Blocked(r, l) == l = NCols - 1 \/ dom[r][l + 1] = "zero"

(* Where the frontier is in row r, when it is in column l above it. *)
Advance(r, l) == IF Blocked(r, l) THEN l ELSE l + 1

-------------------------------------------------------------------------------
(* Between two calls the bounds are of no interest: one value stands for all. *)
SomeMatrix == CHOOSE d \in Matrices : TRUE
SomeType   == CHOOSE t \in Types : TRUE

(* The contents of an array of which no cell is written. *)
Unwritten == [r \in {} |-> 0]

Init ==
  /\ type = SomeType
  /\ dom0 = SomeMatrix /\ dom = SomeMatrix
  /\ pc = "idle"
  /\ i = 0 /\ last = 0 /\ k = 1 /\ beta = 0
  /\ lastones = Unwritten /\ firstnz = Unwritten
  /\ steps = <<>>
  /\ infeasible = FALSE
  /\ nfixed = 0
  /\ conflict = {}

Call ==
  /\ pc = "idle"
  /\ type' \in Types
  /\ dom0' \in Matrices
  /\ dom' = dom0'
  /\ pc' = "triangle"
  /\ UNCHANGED <<i, last, lastones, firstnz, steps, k, beta, infeasible, nfixed, conflict>>

(* Strong dual reductions are not allowed: nothing is done. *)
NotAllowed ==
  /\ pc = "triangle"
  /\ pc' = "done"
  /\ UNCHANGED <<type, dom0, dom, i, last, lastones, firstnz, steps, k, beta,
                 infeasible, nfixed, conflict>>

(* In a packing orbitope the frontier starts left of a corner fixed to zero. *)
Corner == IF type = "packing" /\ dom[0][0] = "zero" THEN -1 ELSE 0

(* fixTriangle, fixTriangleSubmatrix and the start of the loop over rows.   *)
(* Only the function for submatrices heeds the verdict of the triangle.     *)
Triangle ==
  /\ pc = "triangle"
  /\ dom' = Fix(dom, FreeBeforeOne(dom, Upper), "zero")
  /\ nfixed' = Cardinality(FreeBeforeOne(dom, Upper))
  /\ infeasible' = (Ones(dom, Upper) # {})
  /\ pc' = IF Submatrix /\ Ones(dom, Upper) # {} THEN "done" ELSE "rows"
  /\ last' = Corner
  /\ lastones' = [r \in {0} |-> Corner]
  /\ i' = IF Submatrix THEN 0 ELSE 1
  /\ UNCHANGED <<type, dom0, firstnz, steps, k, beta, conflict>>

(* Every entry of a row of a partitioning orbitope is fixed to zero. *)
RowAllZero ==
  /\ pc = "rows" /\ i < NRows
  /\ type = "partitioning" /\ FirstNonzero(i) = -1
  /\ infeasible' = TRUE
  /\ pc' = "done"
  /\ UNCHANGED <<type, dom0, dom, i, last, lastones, firstnz, steps, k, beta,
                 nfixed, conflict>>

(* Slip: the frontier may run ahead of the diagonal. *)
MoveFrontierAlways ==
  /\ firstnz' = [r \in DOMAIN firstnz \cup {i} |->
                   IF r = i THEN FirstNonzero(i) ELSE firstnz[r]]
  /\ lastones' = [r \in DOMAIN lastones \cup {i} |->
                    IF r = i THEN Advance(i, last) ELSE lastones[r]]
  /\ steps' = Append(steps, i)

(* The frontier enters row i. *)
MoveFrontier ==
  /\ firstnz' = [r \in DOMAIN firstnz \cup {i} |->
                   IF r = i THEN FirstNonzero(i) ELSE firstnz[r]]
  /\ lastones' = [r \in DOMAIN lastones \cup {i} |->
                    IF r = i THEN Advance(i, last) ELSE lastones[r]]
  /\ steps' = IF Blocked(i, last) THEN steps ELSE Append(steps, i)

(* Slip: the corner of a packing orbitope is left out. *)
FrontierReasonNoCorner ==
  {<<r, lastones[r] + 1, "zero">> :
     r \in {q \in 1 .. i - 1 : /\ lastones[q] + 1 <= LastColumn(q)
                               /\ lastones[q - 1] = lastones[q]}}

(* The bounds that keep the frontier above row i where it is. *)
FrontierReason ==
  {<<r, lastones[r] + 1, "zero">> :
     r \in {q \in 1 .. i - 1 : /\ lastones[q] + 1 <= LastColumn(q)
                               /\ lastones[q - 1] = lastones[q]}}
  \cup (IF lastones[0] = -1 THEN {<<0, 0, "zero">>} ELSE {})

(* The first non-zero of row i is beyond the frontier. *)
RowBeyond ==
  /\ pc = "rows" /\ i < NRows
  /\ FirstNonzero(i) > Advance(i, last)
  /\ MoveFrontier
  /\ conflict' = FrontierReason \cup
       (IF type = "partitioning"
        THEN {<<i, c, "zero">> : c \in 0 .. FirstNonzero(i) - 1}
        ELSE {<<i, FirstNonzero(i), "one">>})
  /\ infeasible' = TRUE
  /\ pc' = "done"
  /\ UNCHANGED <<type, dom0, dom, i, last, k, beta, nfixed>>

(* Row i can be dealt with. *)
RowFits ==
  /\ pc = "rows" /\ i < NRows
  /\ type = "partitioning" => FirstNonzero(i) # -1
  /\ FirstNonzero(i) <= Advance(i, last)

(* The entries of row i beyond the frontier. *)
Beyond == {<<i, c>> : c \in Advance(i, last) + 1 .. LastColumn(i)}

(* In the whole matrix, an entry of row i beyond the frontier is one:       *)
(* SCIPinferBinvarCons reports that the node is infeasible.                 *)
RowBlocked ==
  /\ RowFits
  /\ ~Submatrix /\ Ones(dom, Beyond) # {}
  /\ MoveFrontier
  /\ dom' = Fix(dom, FreeBeforeOne(dom, Beyond), "zero")
  /\ nfixed' = nfixed + Cardinality(FreeBeforeOne(dom, Beyond))
  /\ infeasible' = TRUE
  /\ \E o \in Ones(dom, Beyond) :
       /\ \A e \in Ones(dom, Beyond) : ~Before(e, o)
       /\ conflict' = FrontierReason \cup {<<o[1], o[2], "one">>}
  /\ pc' = "done"
  /\ UNCHANGED <<type, dom0, i, last, k, beta>>

(* Slip: the fixings start at the frontier, not beyond it. *)
RowFixFromFrontier ==
  /\ RowFits
  /\ Submatrix \/ Ones(dom, Beyond) = {}
  /\ MoveFrontier
  /\ dom' = Fix(dom, Free(dom, Beyond \cup {<<i, Advance(i, last)>>}), "zero")
  /\ nfixed' = nfixed + Cardinality(Free(dom, Beyond))
  /\ infeasible' = infeasible
  /\ last' = Advance(i, last)
  /\ i' = i + 1
  /\ UNCHANGED <<type, dom0, pc, k, beta, conflict>>

(* The entries of row i beyond the frontier are fixed to zero.  A fixing    *)
(* that succeeds resets *infeasible.  In a submatrix SCIPchgVarUb leaves an *)
(* entry that is one as it is, reports nothing, and the fixing is counted.  *)
RowFix ==
  /\ RowFits
  /\ Submatrix \/ Ones(dom, Beyond) = {}
  /\ MoveFrontier
  /\ dom' = Fix(dom, Free(dom, Beyond), "zero")
  /\ nfixed' = nfixed + Cardinality(Free(dom, Beyond) \cup Ones(dom, Beyond))
  /\ infeasible' = (infeasible /\ (Submatrix \/ Free(dom, Beyond) = {}))
  /\ last' = Advance(i, last)
  /\ i' = i + 1
  /\ UNCHANGED <<type, dom0, pc, k, beta, conflict>>

EndRows ==
  /\ pc = "rows" /\ i = NRows
  /\ pc' = "steps"
  /\ k' = 1
  /\ UNCHANGED <<type, dom0, dom, i, last, lastones, firstnz, steps, beta,
                 infeasible, nfixed, conflict>>

(* The entry at which the frontier makes its k-th step. *)
Step == <<steps[k], lastones[steps[k]]>>

(* It is fixed: there is nothing to find out. *)
StepFixed ==
  /\ pc = "steps" /\ k <= Len(steps)
  /\ Free(dom, {Step}) = {}
  /\ k' = k + 1
  /\ UNCHANGED <<type, dom0, dom, pc, i, last, lastones, firstnz, steps, beta,
                 infeasible, nfixed, conflict>>

(* Slip: the supposition is that the step is taken. *)
StepOpenTaken ==
  /\ pc = "steps" /\ k <= Len(steps)
  /\ Free(dom, {Step}) # {}
  /\ pc' = "scan"
  /\ beta' = lastones[steps[k]]
  /\ i' = steps[k] + 1
  /\ UNCHANGED <<type, dom0, dom, last, lastones, firstnz, steps, k,
                 infeasible, nfixed, conflict>>

(* Suppose it were zero: the frontier stays one column to the left. *)
StepOpen ==
  /\ pc = "steps" /\ k <= Len(steps)
  /\ Free(dom, {Step}) # {}
  /\ pc' = "scan"
  /\ beta' = lastones[steps[k]] - 1
  /\ i' = steps[k] + 1
  /\ UNCHANGED <<type, dom0, dom, last, lastones, firstnz, steps, k,
                 infeasible, nfixed, conflict>>

(* The supposition leaves room for the first non-zero of row i. *)
ScanRow ==
  /\ pc = "scan" /\ i < NRows
  /\ firstnz[i] <= Advance(i, beta)
  /\ beta' = Advance(i, beta)
  /\ i' = i + 1
  /\ UNCHANGED <<type, dom0, dom, pc, last, lastones, firstnz, steps, k,
                 infeasible, nfixed, conflict>>

(* The entry the code fixes when the supposition fails in row i: Step, but  *)
(* in a submatrix the entry of row i in the column numbered like the step.  *)
Forced == IF Submatrix THEN {<<i, k - 1>>} ELSE {Step}

(* Slip: a fixing of the look-ahead is not counted. *)
ScanHitUncounted ==
  /\ pc = "scan" /\ i < NRows
  /\ firstnz[i] > Advance(i, beta)
  /\ dom' = Fix(dom, Free(dom, Forced), "one")
  /\ nfixed' = nfixed
  /\ infeasible' = (infeasible /\ Submatrix)
  /\ pc' = "steps"
  /\ k' = k + 1
  /\ UNCHANGED <<type, dom0, i, last, lastones, firstnz, steps, beta, conflict>>

(* It leaves none. *)
ScanHit ==
  /\ pc = "scan" /\ i < NRows
  /\ firstnz[i] > Advance(i, beta)
  /\ dom' = Fix(dom, Free(dom, Forced), "one")
  /\ nfixed' = nfixed + 1
  /\ infeasible' = (infeasible /\ Submatrix)
  /\ pc' = "steps"
  /\ k' = k + 1
  /\ UNCHANGED <<type, dom0, i, last, lastones, firstnz, steps, beta, conflict>>

(* There is room in all rows: nothing is fixed. *)
ScanEnd ==
  /\ pc = "scan" /\ i = NRows
  /\ pc' = "steps"
  /\ k' = k + 1
  /\ UNCHANGED <<type, dom0, dom, i, last, lastones, firstnz, steps, beta,
                 infeasible, nfixed, conflict>>

EndSteps ==
  /\ pc = "steps" /\ k > Len(steps)
  /\ pc' = "done"
  /\ UNCHANGED <<type, dom0, dom, i, last, lastones, firstnz, steps, k, beta,
                 infeasible, nfixed, conflict>>

(* The caller has taken the result; the buffers are freed. *)
Leave ==
  /\ pc = "done"
  /\ pc' = "idle"
  /\ type' = SomeType
  /\ dom0' = SomeMatrix /\ dom' = SomeMatrix
  /\ i' = 0 /\ last' = 0 /\ k' = 1 /\ beta' = 0
  /\ lastones' = Unwritten /\ firstnz' = Unwritten
  /\ steps' = <<>>
  /\ infeasible' = FALSE
  /\ nfixed' = 0
  /\ conflict' = {}

Next ==
  \/ Call \/ NotAllowed \/ Triangle
  \/ RowAllZero \/ RowBeyond \/ RowBlocked \/ RowFix \/ EndRows
  \/ StepFixed \/ StepOpen \/ ScanRow \/ ScanHit \/ ScanEnd \/ EndSteps
  \/ Leave

Spec == Init /\ [][Next]_vars
-------------------------------------------------------------------------------
(***************************************************************************)
(* The orbitopes.  A point is given by the column of the one in each row,  *)
(* -1 for a row without one; its columns are sorted lexicographically.     *)
(***************************************************************************)

Placements(t) == [Rows -> (IF t = "packing" THEN -1 ELSE 0) .. NCols - 1]

Entry(p, r, c) == IF p[r] = c THEN 1 ELSE 0

(* Column b of p is not larger than column a. *)
LexGeq(p, a, b) ==
  \/ \A r \in Rows : Entry(p, r, a) = Entry(p, r, b)
  \/ \E r \in Rows : /\ Entry(p, r, a) > Entry(p, r, b)
                     /\ \A q \in 0 .. r - 1 : Entry(p, q, a) = Entry(p, q, b)

Orbitope == [t \in Types |->
              {p \in Placements(t) : \A c \in 1 .. NCols - 1 : LexGeq(p, c - 1, c)}]

(* The point p respects the bounds d. *)
Fits(p, d) ==
  \A r \in Rows : \A c \in Cols :
    /\ d[r][c] = "one"  => p[r] = c
    /\ d[r][c] = "zero" => p[r] # c

(* e differs from d by fixings of free entries. *)
Tightens(e, d) ==
  \A r \in Rows : \A c \in Cols : e[r][c] = d[r][c] \/ d[r][c] = "free"

-------------------------------------------------------------------------------
(***************************************************************************)
(* Properties.                                                             *)
(***************************************************************************)

Busy == pc \in {"triangle", "rows", "steps", "scan"}

BoundOnEntry == Rows \X Cols \X {"zero", "one"}

(* The variables have the values their declarations in the code allow. *)
TypeOK ==
  /\ type \in Types
  /\ dom0 \in Matrices /\ dom \in Bounds
  /\ pc \in {"idle", "triangle", "rows", "steps", "scan", "done"}
  /\ i \in 0 .. NRows /\ last \in -1 .. NCols - 1
  /\ DOMAIN lastones \subseteq Rows /\ DOMAIN firstnz \subseteq Rows
  /\ \A r \in DOMAIN lastones : lastones[r] \in -1 .. NCols - 1
  /\ \A r \in DOMAIN firstnz : firstnz[r] \in -1 .. NCols - 1
  /\ steps \in Seq(Rows)
  /\ k \in 1 .. Len(steps) + 1 /\ beta \in -1 .. NCols - 1
  /\ infeasible \in BOOLEAN
  /\ nfixed \in Nat
  /\ conflict \subseteq BoundOnEntry

KeepsPoints == \A p \in Orbitope[type] : Fits(p, dom0) => Fits(p, dom)
NoPointFits == \A p \in Orbitope[type] : ~Fits(p, dom0)

(* Fixings never cut off a point of the orbitope, and the node is cut off   *)
(* only when no point is left: Lemma 1 of the paper the code follows, for   *)
(* fixings that are made while rows below are still to be read, and for the *)
(* look-ahead, which compares old first non-zeros with new bounds.          *)
Sound == KeepsPoints /\ (infeasible => NoPointFits)

(* The frontier stays in the bar, so that frontiersteps[nblocks] is large   *)
(* enough and [lastoneprevrow + 1] is a column: in a submatrix, whose loop  *)
(* starts in row 0, this depends on the triangle.                           *)
FrontierInBar ==
  /\ \A r \in DOMAIN lastones : lastones[r] <= LastColumn(r)
  /\ Len(steps) <= NCols
  /\ \A h \in DOMAIN steps : lastones[steps[h]] >= 0
  /\ \A g, h \in DOMAIN steps : g < h => lastones[steps[g]] < lastones[steps[h]]

(* The number of fixings reported is the number of entries whose bounds     *)
(* changed: consPropOrbitope answers REDUCEDDOM or DIDNOTFIND by it.        *)
CountExact == nfixed = Cardinality({e \in Rows \X Cols : dom[e[1]][e[2]] # dom0[e[1]][e[2]]})

(* What is given to conflict analysis holds at the node, and is by itself   *)
(* a reason: no point of the orbitope satisfies it.                         *)
ConflictExplains ==
  conflict # {} =>
    /\ \A b \in conflict : dom[b[1]][b[2]] = b[3]
    /\ \A p \in Orbitope[type] :
         \E b \in conflict : IF b[3] = "one" THEN p[b[1]] # b[2] ELSE p[b[1]] = b[2]

(* The set packing and partitioning constraints on the rows find nothing in *)
(* the bounds d.                                                            *)
Closed(d) ==
  \A r \in Rows :
    /\ \A b, c \in Cols : b # c /\ d[r][b] = "one" => d[r][c] = "zero"
    /\ type = "partitioning" =>
         /\ \E c \in Cols : d[r][c] # "zero"
         /\ \A c \in Cols : d[r][c] = "free" => \E b \in Cols \ {c} : d[r][b] # "zero"

(* The same of a submatrix: up to the look-ahead; and throughout, when the  *)
(* entry that the look-ahead fixes instead of the right one cannot be free, *)
(* in a partitioning orbitope or in rows that are closed.                   *)
SoundInSubmatrix ==
  pc \in {"triangle", "rows"} \/ type = "partitioning" \/ Closed(dom0) => Sound

(* All rows have been processed without a verdict, and the set packing      *)
(* constraints had nothing to say before and after.  The triangle is        *)
(* excepted: see VerdictKept.                                               *)
Settled ==
  /\ pc = "done" /\ DOMAIN lastones = Rows /\ ~infeasible
  /\ Ones(dom0, Upper) = {}
  /\ Closed(dom0) /\ Closed(dom)

(* Nothing is overlooked.  When orbitope and rows are settled, each free    *)
(* entry can still be zero and can still be one (so that the node has a     *)
(* point): the fixings the code finds are all there are.  The corner is     *)
(* excepted: the look-ahead never tries it.                                 *)
Complete ==
  Settled =>
    /\ \E p \in Orbitope[type] : Fits(p, dom)
    /\ \A e \in Free(dom, Rows \X Cols) \ {<<0, 0>>} :
         /\ \E p \in Orbitope[type] : Fits(p, dom) /\ p[e[1]] # e[2]
         /\ \E p \in Orbitope[type] : Fits(p, dom) /\ p[e[1]] = e[2]

(* The function implements what the solver relies on. *)
Promise == INSTANCE PropagationStep WITH
  PointSets <- {Orbitope[t] : t \in Types},
  points    <- Orbitope[type],
  busy      <- Busy,
  cutoff    <- (infeasible /\ pc = "done")

ImplementsPromise == Promise!Spec

(* What the code says and does not keep.                                    *)

(* "The problem is infeasible: some variable in the upper right triangle is *)
(* fixed to 1": when the function returns, it says so to its caller.        *)
VerdictKept ==
  pc = "done" /\ DOMAIN lastones # {} /\ Ones(dom0, Upper) # {} => infeasible
===============================================================================
