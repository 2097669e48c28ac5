------------------------------ MODULE LexFixing -------------------------------
(***************************************************************************)
(* Fixing of variables in a full orbitope (cons_orbitope.c,                *)
(* doPropagateFullOrbitope): the columns of a binary matrix are to be      *)
(* sorted lexicographically, the greatest first.                           *)
(*                                                                         *)
(* From the last column to the first the least completion of every column  *)
(* is computed, from the first to the last the greatest one.  What the two *)
(* have in common, from the top of a column down, is fixed.                *)
(*                                                                         *)
(* A matrix d is a function of its entries <<r, c>>, in the order in which *)
(* rows and columns are to be read.  A free entry is the number 2.         *)
(***************************************************************************)
EXTENDS Integers, FiniteSets, FiniteSetsExt

NR(d) == Cardinality({e \in DOMAIN d : e[2] = 0})
NC(d) == Cardinality({e \in DOMAIN d : e[1] = 0})

(* Column c; f stands for its free entries. *)
Column(d, c, f) ==
  [r \in 0 .. NR(d) - 1 |->
     IF d[<<r, c>>] = "one" THEN 1 ELSE IF d[<<r, c>>] = "zero" THEN 0 ELSE f]

(* The rows in which column a can still differ from b in the way it should. *)
Discriminating(a, b, v, minfixed) ==
  {r \in 0 .. minfixed : a[r] # 1 - v /\ b[r] # v}

(* Column a, beside the column b that is already complete: completed as the *)
(* least column that is not less than b (v = 1), or as the greatest that is *)
(* not greater (v = 0).  It is bad when there is none.                      *)
Completed(a, b, v) ==
  LET rows     == DOMAIN a
      fixed    == {r \in rows : a[r] # b[r] /\ a[r] # 2}
      minfixed == Min(fixed \cup {Cardinality(rows)})
      D        == Discriminating(a, b, v, IF fixed = {} THEN minfixed - 1 ELSE minfixed)
      maxdiscr == IF D = {} THEN Cardinality(rows) ELSE Max(D)
  IN  [bad |-> fixed # {} /\ D = {},
       col |-> [r \in rows |->
                  IF a[r] # 2 THEN a[r]
                  ELSE IF fixed = {} \/ r < maxdiscr THEN b[r]
                  ELSE IF r = maxdiscr THEN v ELSE 1 - v]]

(* The lexicographically minimal face, by columns.                         *)
LexMinFace(d) ==
  LET n == NC(d)
      F[c \in 0 .. n - 1] ==
        IF c = n - 1 THEN [bad |-> FALSE, col |-> Column(d, c, 0)]
        ELSE IF F[c + 1].bad THEN F[c + 1]
        ELSE Completed(Column(d, c, 2), F[c + 1].col, 1)
  IN  [c \in 0 .. n - 1 |-> F[c]]

(* The lexicographically maximal face.                                     *)
LexMaxFace(d) ==
  LET n == NC(d)
      F[c \in 0 .. n - 1] ==
        IF c = 0 THEN [bad |-> FALSE, col |-> Column(d, c, 1)]
        ELSE IF F[c - 1].bad THEN F[c - 1]
        ELSE Completed(Column(d, c, 2), F[c - 1].col, 0)
  IN  [c \in 0 .. n - 1 |-> F[c]]

(* Slip: the comparison of the two faces goes on below a difference. *)
CommonAnywhere(d, low, high) ==
  {e \in DOMAIN d : d[e] = "free" /\ low[e[2]].col[e[1]] = high[e[2]].col[e[1]]}

(* The free entries above the first difference of the two faces.           *)
Common(d, low, high) ==
  {e \in DOMAIN d :
     d[e] = "free" /\ \A r \in 0 .. e[1] : low[e[2]].col[r] = high[e[2]].col[r]}

(* The effect of the propagation on the bounds d. *)
FullFixing(d) ==
  LET low  == LexMinFace(d)
      high == LexMaxFace(d)
      bad  == low[0].bad \/ high[NC(d) - 1].bad
      E    == IF bad THEN {} ELSE Common(d, low, high)
  IN  [infeasible |-> bad,
       nfixed     |-> Cardinality(E),
       dom        |-> [e \in DOMAIN d |->
                         IF e \notin E THEN d[e]
                         ELSE IF low[e[2]].col[e[1]] = 1 THEN "one" ELSE "zero"]]
===============================================================================
