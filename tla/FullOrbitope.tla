----------------------------- MODULE FullOrbitope ------------------------------
(***************************************************************************)
(* A full orbitope in the search tree: propagateFullOrbitopeCons and what  *)
(* it calls (cons_orbitope.c).                                             *)
(*                                                                         *)
(* The columns are sorted with respect to an order of the rows.  With      *)
(* dynamic propagation this order is not given: a row is appended to it    *)
(* when the solver has branched on one of its entries.  The order belongs  *)
(* to the constraint, not to the node, so that what is fixed at one node   *)
(* and what is fixed at another, in whatever sequence the solver visits    *)
(* them, concerns the same sorting.                                        *)
(***************************************************************************)
EXTENDS LexFixing, SubmatrixBounds

CONSTANTS
  NRows, NCols,
  Dynamic,         (* usedynamicprop && !ismodelcons                       *)
  HasHandler,      (* the constraint has an activation handler             *)
  Roots,           (* the bounds the matrix may have at the root           *)
  Submatrices,     (* the submatrices a handler may find                   *)
  Symmetric(_, _), (* Symmetric(d, s): s is a sub-symmetry under bounds d  *)
  Points,          (* the solutions: row |-> column |-> 0 or 1             *)
  MaxList,         (* bound of the instance: length of the list            *)
  MaxNodes         (* bound of the instance: size of the tree              *)

Rows == 0 .. NRows - 1
Cols == 0 .. NCols - 1
Dom  == {"free", "zero", "one"}
Bounds == [Rows \X Cols -> Dom]

NoneTwice(q) == \A g, h \in DOMAIN q : q[g] = q[h] => g = h

ASSUME SizeAssumption ==
  NRows \in Nat \ {0} /\ NCols \in Nat \ {0} /\ MaxList \in Nat /\ MaxNodes \in Nat \ {0}
ASSUME KindAssumption == Dynamic \in BOOLEAN /\ HasHandler \in BOOLEAN
ASSUME RootAssumption == Roots \subseteq Bounds /\ Roots # {}
ASSUME PointAssumption == Points \subseteq [Rows -> [Cols -> 0 .. 1]]
ASSUME SubmatrixAssumption ==
  \A s \in Submatrices :
    /\ s.rows \in Seq(Rows) \ {<<>>} /\ s.cols \in Seq(Cols) \ {<<>>}
    /\ NoneTwice(s.rows) /\ NoneTwice(s.cols)

(* A node of the tree: a branching per edge from the root. *)
Branchings == [row : Rows, col : Cols, to : {"zero", "one"}]

VARIABLES
  root,        (* the bounds at the root before any propagation            *)
  tree,        (* the nodes visited: path |-> bounds and verdict           *)
  roworder,    (* the first nrowsused entries of roworder                  *)
  pc,
  path,        (* the current node                                         *)
  entered,     (* its bounds when the propagation was called               *)
  dom,         (* its bounds                                               *)
  list,        (* the list of submatrices from submatrix on                *)
  infeasible,
  nfixed       (* nfixedvars                                               *)

vars == <<root, tree, roworder, pc, path, entered, dom, list, infeasible, nfixed>>

-------------------------------------------------------------------------------
Natural(n) == [k \in 1 .. n |-> k - 1]

Whole == [rows |-> roworder, cols |-> Natural(NCols)]

Node(d, v) == [dom |-> d, cutoff |-> v]

Init ==
  /\ root \in Roots
  /\ tree = [p \in {<<>>} |-> Node(root, FALSE)]
  /\ roworder = IF Dynamic THEN <<>> ELSE Natural(NRows)
  /\ pc = "idle"
  /\ path = <<>> /\ dom = root /\ entered = root
  /\ list = <<>> /\ infeasible = FALSE /\ nfixed = 0

(* The propagation is called at the node p with bounds d.  It returns at    *)
(* once without strong dual reductions, and with a dynamic order in a       *)
(* probing node.                                                            *)
Call(p, d) ==
  /\ path' = p /\ dom' = d /\ entered' = d
  /\ infeasible' = FALSE /\ nfixed' = 0
  /\ \E strongdualreds, probing \in BOOLEAN :
       pc' = IF ~strongdualreds \/ (Dynamic /\ probing) THEN "return"
             ELSE IF Dynamic THEN "order" ELSE "whole"
  /\ UNCHANGED <<root, tree, roworder, list>>

(* The solver takes up a node again ... *)
Revisit ==
  /\ pc = "idle"
  /\ \E p \in DOMAIN tree : ~tree[p].cutoff /\ Call(p, tree[p].dom)

(* ... or branches at one. *)
Branch ==
  /\ pc = "idle" /\ Cardinality(DOMAIN tree) < MaxNodes
  /\ \E p \in DOMAIN tree : \E b \in Branchings :
       /\ ~tree[p].cutoff
       /\ tree[p].dom[<<b.row, b.col>>] = "free"
       /\ Append(p, b) \notin DOMAIN tree
       /\ Call(Append(p, b), [tree[p].dom EXCEPT ![<<b.row, b.col>>] = b.to])

(* The order, with the rows of the branchings p appended that are not in it. *)
Appended(order, p) ==
  LET F[k \in 0 .. Len(p)] ==
        IF k = 0 THEN order
        ELSE IF \E g \in DOMAIN F[k - 1] : F[k - 1][g] = p[k].row THEN F[k - 1]
        ELSE Append(F[k - 1], p[k].row)
  IN  F[Len(p)]

(* Slip: the order is made from the current path alone. *)
ComputeDynamicRowOrderOfPath ==
  /\ pc = "order"
  /\ roworder' = Appended(<<>>, path)
  /\ pc' = IF roworder' = <<>> THEN "return" ELSE "whole"
  /\ UNCHANGED <<root, tree, path, entered, dom, list, infeasible, nfixed>>

(* The rows of the branchings between the root and the node that are not    *)
(* yet in the order are appended to it.                                     *)
ComputeDynamicRowOrder ==
  /\ pc = "order"
  /\ roworder' = Appended(roworder, path)
  /\ pc' = IF roworder' = <<>> THEN "return" ELSE "whole"
  /\ UNCHANGED <<root, tree, path, entered, dom, list, infeasible, nfixed>>

(* The whole matrix is propagated; after a verdict there is nothing more.   *)
PropagateWhole ==
  /\ pc = "whole"
  /\ \E f \in {FullFixing(SubBounds(dom, Whole))} :
       /\ dom' = WriteBack(dom, Whole, f.dom)
       /\ infeasible' = f.infeasible
       /\ nfixed' = nfixed + f.nfixed
       /\ pc' = IF f.infeasible \/ ~HasHandler THEN "return" ELSE "find"
  /\ UNCHANGED <<root, tree, roworder, path, entered, list>>

(* The lists a handler may return under the bounds d.                       *)
Lists(d) ==
  UNION {[1 .. n -> {s \in Submatrices : Symmetric(d, s)}] : n \in 0 .. MaxList}

FindActivationData ==
  /\ pc = "find"
  /\ list' \in Lists(dom)
  /\ pc' = "sub"
  /\ UNCHANGED <<root, tree, roworder, path, entered, dom, infeasible, nfixed>>

(* Slip: the count of the last propagation replaces the earlier ones. *)
PropagateSubmatrixRecounting ==
  /\ pc = "sub" /\ list # <<>> /\ ~infeasible
  /\ \E f \in {FullFixing(SubBounds(dom, Head(list)))} :
       /\ dom' = WriteBack(dom, Head(list), f.dom)
       /\ infeasible' = f.infeasible
       /\ nfixed' = f.nfixed
  /\ list' = Tail(list)
  /\ UNCHANGED <<root, tree, roworder, pc, path, entered>>

(* The next submatrix is propagated, its rows in its own order, and freed.  *)
PropagateSubmatrix ==
  /\ pc = "sub" /\ list # <<>> /\ ~infeasible
  /\ \E f \in {FullFixing(SubBounds(dom, Head(list)))} :
       /\ dom' = WriteBack(dom, Head(list), f.dom)
       /\ infeasible' = f.infeasible
       /\ nfixed' = nfixed + f.nfixed
  /\ list' = Tail(list)
  /\ UNCHANGED <<root, tree, roworder, pc, path, entered>>

FreeSubmatrix ==
  /\ pc = "sub" /\ list # <<>> /\ infeasible
  /\ list' = Tail(list)
  /\ UNCHANGED <<root, tree, roworder, pc, path, entered, dom, infeasible, nfixed>>

EndList ==
  /\ pc = "sub" /\ list = <<>>
  /\ pc' = "return"
  /\ UNCHANGED <<root, tree, roworder, path, entered, dom, list, infeasible, nfixed>>

(* The solver leaves the node. *)
Return ==
  /\ pc = "return"
  /\ tree' = [p \in DOMAIN tree \cup {path} |->
                IF p = path THEN Node(dom, infeasible) ELSE tree[p]]
  /\ pc' = "idle"
  /\ path' = <<>> /\ dom' = root /\ entered' = root
  /\ infeasible' = FALSE /\ nfixed' = 0
  /\ UNCHANGED <<root, roworder, list>>

Next ==
  \/ Revisit \/ Branch
  \/ ComputeDynamicRowOrder \/ PropagateWhole
  \/ FindActivationData \/ PropagateSubmatrix \/ FreeSubmatrix \/ EndList
  \/ Return

Spec == Init /\ [][Next]_vars

-------------------------------------------------------------------------------
(***************************************************************************)
(* What is to be kept.                                                     *)
(***************************************************************************)

Fits(x, d) ==
  \A r \in Rows : \A k \in Cols :
    /\ d[<<r, k>>] = "one"  => x[r][k] = 1
    /\ d[<<r, k>>] = "zero" => x[r][k] = 0

Fixed(x) == [e \in Rows \X Cols |-> IF x[e[1]][e[2]] = 1 THEN "one" ELSE "zero"]

(* A sub-symmetry of a node is one of every solution of the node.           *)
ASSUME SymmetryAssumption ==
  \A d \in Bounds, s \in Submatrices :
    Symmetric(d, s) => \A x \in Points : Fits(x, d) => Symmetric(Fixed(x), s)

(* The columns of x in the submatrix s are sorted, the greatest first: where *)
(* two neighbours differ first, the left one has the one.                    *)
Sorted(x, s) ==
  \A h \in 2 .. Len(s.cols) : \A g \in DOMAIN s.rows :
    x[s.rows[g]][s.cols[h - 1]] < x[s.rows[g]][s.cols[h]] =>
      \E f \in 1 .. g - 1 : x[s.rows[f]][s.cols[h - 1]] > x[s.rows[f]][s.cols[h]]

(* x is a representative solution under the row order as it is.  The order  *)
(* only grows, and there are the fewer of them the longer it is.            *)
Representative(x) ==
  Sorted(x, Whole) /\ \A s \in Submatrices : Symmetric(Fixed(x), s) => Sorted(x, s)

Follows(x, p) ==
  \A k \in DOMAIN p : x[p[k].row][p[k].col] = (IF p[k].to = "one" THEN 1 ELSE 0)

-------------------------------------------------------------------------------
(***************************************************************************)
(* Properties.                                                             *)
(***************************************************************************)

(* The variables have the values their declarations in the code allow.      *)
TypeOK ==
  /\ root \in Roots
  /\ \A p \in DOMAIN tree : /\ p \in Seq(Branchings)
                            /\ tree[p].dom \in Bounds /\ tree[p].cutoff \in BOOLEAN
  /\ roworder \in Seq(Rows) /\ NoneTwice(roworder)
  /\ pc \in {"idle", "order", "whole", "find", "sub", "return"}
  /\ path \in Seq(Branchings)
  /\ dom \in Bounds /\ entered \in Bounds
  /\ list \in Seq(Submatrices)
  /\ infeasible \in BOOLEAN /\ nfixed \in Nat

(* A representative solution is never lost: at every node of the tree,      *)
(* those that obey the branchings on the way to it are still there, whatever *)
(* has happened to the row order at other nodes since.                      *)
RepresentativesKept ==
  pc = "idle" =>
    \A p \in {q \in DOMAIN tree : tree[q] # Node(root, FALSE)} : \A x \in Points :
      \/ Fits(x, tree[p].dom) /\ ~tree[p].cutoff
      \/ ~Fits(x, root) \/ ~Follows(x, p)
      \/ ~Representative(x)

(* The values an entry has in the matrices X, as bounds. *)
Hull(X, e) ==
  LET V == {x[e[1]][e[2]] : x \in X}
  IN  IF V = {0} THEN "zero" ELSE IF V = {1} THEN "one" ELSE "free"

ExactStep ==
  pc = "whole" =>
    LET X == {x \in [Rows -> [Cols -> 0 .. 1]] : Fits(x, dom) /\ Sorted(x, Whole)}
    IN  /\ infeasible' <=> X = {}
        /\ ~infeasible' => \A e \in Covered(Whole) : dom'[e] = Hull(X, e)

(* The propagation of the matrix finds all there is to find, and not more:  *)
(* in the rows of the order the bounds become those of the sorted matrices  *)
(* of the node, and the node is cut off exactly when there are none.        *)
FixesExactly == [][ExactStep]_vars

(* The caller learns of reductions when there are some, from whichever of   *)
(* the propagations they come.                                              *)
CountTellsChange == pc = "return" /\ ~infeasible => (nfixed > 0 <=> dom # entered)
===============================================================================
