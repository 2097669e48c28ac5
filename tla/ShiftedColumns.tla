---------------------------- MODULE ShiftedColumns -----------------------------
(***************************************************************************)
(* Shifted columns of a packing or partitioning orbitope (cons_orbitope.c, *)
(* computeSCTable), which separation, checking and conflict resolution     *)
(* share.                                                                  *)
(*                                                                         *)
(* A bar is the part of a row from some column j on.  It cannot exceed a   *)
(* shifted column that ends in front of it: entries of the rows above, one *)
(* on each diagonal, that move to the right as one goes down.  The table   *)
(* holds for every entry the least value of a shifted column that ends     *)
(* there, and from which neighbour it comes.                               *)
(*                                                                         *)
(* A matrix v is a function of its entries <<r, c>>.                       *)
(***************************************************************************)
EXTENDS Integers, FiniteSets, FiniteSetsExt

NR(v) == Cardinality({e \in DOMAIN v : e[2] = 0})
NC(v) == Cardinality({e \in DOMAIN v : e[1] = 0})

(* The entries on the diagonal and below. *)
Lower(v) == {e \in DOMAIN v : e[2] <= e[1]}

LastColumn(v, r) == IF NC(v) - 1 > r THEN r ELSE NC(v) - 1

(* Entry e, not on the diagonal nor in the first column, is left aside (1)  *)
(* or taken (2).                                                            *)
FromAbove(e, left, right) ==
  IF left < right THEN [weight |-> left, case |-> 1] ELSE [weight |-> right, case |-> 2]

SCTable(v) ==
  LET T[e \in Lower(v)] ==
        IF e = <<0, 0>> THEN [weight |-> v[e], case |-> 3]
        ELSE IF e[1] = e[2]
          THEN LET before == T[e[1] - 1, e[2] - 1].weight
               IN  IF v[e] < before THEN [weight |-> v[e], case |-> 3]
                   ELSE [weight |-> before, case |-> 1]
        ELSE IF e[2] = 0
          THEN [weight |-> T[e[1] - 1, 0].weight + v[e], case |-> 2]
        ELSE FromAbove(e, T[e[1] - 1, e[2] - 1].weight, v[e] + T[e[1] - 1, e[2]].weight)
  IN  [e \in Lower(v) |-> T[e]]

(* The shifted column that ends at e, read off the table t. *)
ColumnAt(t, e) ==
  LET W[p \in DOMAIN t] ==
        IF t[p].case = 1 THEN W[p[1] - 1, p[2] - 1]
        ELSE IF t[p].case = 2 THEN {p} \cup W[p[1] - 1, p[2]]
        ELSE {p}
  IN  W[e]

Sum(v, E) == MapThenSumSet(LAMBDA e : v[e], E)

(* The bar of row r from column c on. *)
Bar(v, r, c) == {<<r, k>> : k \in c .. LastColumn(v, r)}

(* The leaders of bars for which there is a shifted column. *)
Leaders(v) == {e \in Lower(v) : e[2] > 0}

(* Slip: bars that equal the shifted column are taken for greater. *)
ExceedingOrTight(v, t) ==
  {e \in Leaders(v) : Sum(v, Bar(v, e[1], e[2])) >= t[e[1] - 1, e[2] - 1].weight}

(* The bars that exceed the least shifted column in front of them. *)
Exceeding(v, t) ==
  {e \in Leaders(v) : Sum(v, Bar(v, e[1], e[2])) > t[e[1] - 1, e[2] - 1].weight}
================================================================================
