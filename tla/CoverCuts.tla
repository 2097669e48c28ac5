------------------------------- MODULE CoverCuts -------------------------------
(***************************************************************************)
(* The inequalities the orbitope constraint handler separates              *)
(* (cons_orbitope.c): shifted column inequalities for packing and          *)
(* partitioning orbitopes (separateSCIs), cover inequalities of adjacent   *)
(* columns for full orbitopes (separateCoversOrbisack).                    *)
(*                                                                         *)
(* A solution v has values 0 .. one, one standing for 1.  An inequality is *)
(* a record of integral coefficients and a right-hand side.                *)
(***************************************************************************)
EXTENDS ShiftedColumns, Sequences

Activity(cut, v) == MapThenSumSet(LAMBDA e : cut.coef[e] * v[e], DOMAIN cut.coef)

(* v, with values 0 .. one, fulfils the inequality. *)
Holds(cut, v, one) == Activity(cut, v) <= one * cut.rhs

(* Bar of leader e, minus the least shifted column in front of it.          *)
SCI(v, t, e) ==
  LET bar == Bar(v, e[1], e[2])
      col == ColumnAt(t, <<e[1] - 1, e[2] - 1>>)
  IN  [coef |-> [f \in bar \cup col |-> IF f \in bar THEN 1 ELSE -1], rhs |-> 0]

SCIs(v) == LET t == SCTable(v) IN {SCI(v, t, e) : e \in Exceeding(v, t)}

-------------------------------------------------------------------------------
(* The coefficients co, and those of row i, columns c and c + 1. *)
RowTerms(co, i, c, l, r) ==
  [e \in DOMAIN co \cup {<<i, c>>, <<i, c + 1>>} |->
     IF e = <<i, c>> THEN l ELSE IF e = <<i, c + 1>> THEN r ELSE co[e]]

(* Slip: the right-hand side is not increased. *)
CoverStepNoRhs(s, v, one, c, i) ==
  LET a     == v[i, c]
      b     == v[i, c + 1]
      small == one - (a + b) > 0
  IN  [s EXCEPT
         !.cuts = IF b - a + s.lhs - s.rhs > 0
                    THEN @ \cup {[coef |-> RowTerms(s.coef, i, c, -1, 1), rhs |-> s.rhs \div one]}
                    ELSE @,
         !.coef = RowTerms(@, i, c, IF small \/ i = 0 THEN -1 ELSE 0,
                                    IF ~small \/ i = 0 THEN 1 ELSE 0),
         !.lhs  = IF small THEN @ - a + (IF i = 0 THEN b ELSE 0)
                  ELSE @ + a - (IF i = 0 THEN a ELSE 0),
         !.rhs  = 0]

(* The values that row i, columns c and c + 1, adds to the cover, in the    *)
(* units of the solution: a row with little in both columns contributes     *)
(* -x(i, c), another one x(i, c + 1) - 1, for which lhs, however, grows by  *)
(* the value of x(i, c).  The first row is lifted.                          *)
CoverStep(s, v, one, c, i) ==
  LET a     == v[i, c]
      b     == v[i, c + 1]
      small == one - (a + b) > 0
  IN  [s EXCEPT
         !.cuts = IF b - a + s.lhs - s.rhs > 0
                    THEN @ \cup {[coef |-> RowTerms(s.coef, i, c, -1, 1), rhs |-> s.rhs \div one]}
                    ELSE @,
         !.coef = RowTerms(@, i, c, IF small \/ i = 0 THEN -1 ELSE 0,
                                    IF ~small \/ i = 0 THEN 1 ELSE 0),
         !.lhs  = IF small THEN @ - a + (IF i = 0 THEN b ELSE 0)
                  ELSE @ + a - (IF i = 0 THEN a ELSE 0),
         !.rhs  = IF small \/ i = 0 THEN @ ELSE @ + one]

(* The rows of columns c and c + 1; lhs and rhs go on from the columns      *)
(* before.  Row i is the i-th of the row order; with a dynamic one, v has   *)
(* the first nrowsused rows.                                                *)
CoverPair(s, v, one, c) ==
  LET after[i \in 0 .. NR(v)] ==
        IF i = 0 THEN [s EXCEPT !.coef = <<>>] ELSE CoverStep(after[i - 1], v, one, c, i - 1)
  IN  after[NR(v)]

Covers(v, one) ==
  LET after[c \in 0 .. NC(v) - 1] ==
        IF c = 0 THEN [lhs |-> 0, rhs |-> 0, coef |-> <<>>, cuts |-> {}]
        ELSE CoverPair(after[c - 1], v, one, c - 1)
  IN  after[NC(v) - 1].cuts
================================================================================
