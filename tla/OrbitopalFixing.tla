---------------------------- MODULE OrbitopalFixing ----------------------------
(***************************************************************************)
(* The result of orbitopal fixing as a function of the bounds, for a       *)
(* packing or partitioning orbitope (cons_orbitope.c).  PackingPropagation *)
(* describes the same two functions step by step; it is shown to compute   *)
(* this one.  The modules that put propagations together use this form, in *)
(* which a propagation is a single step.                                   *)
(*                                                                         *)
(* A matrix d is a function of its entries <<r, c>>, with the rows         *)
(* 0 .. NR(d) - 1 and the columns 0 .. NC(d) - 1.                          *)
(***************************************************************************)
EXTENDS Integers, FiniteSets, Sequences, TLC
LOCAL INSTANCE SequencesExt

NR(d) == Cardinality({e \in DOMAIN d : e[2] = 0})
NC(d) == Cardinality({e \in DOMAIN d : e[1] = 0})

Entries(d, v) == {e \in DOMAIN d : d[e] = v}

FixIn(d, E, v) == [e \in E |-> v] @@ d

InFrontOf(e, f) == e[1] < f[1] \/ (e[1] = f[1] /\ e[2] < f[2])

(* What a loop over E in row-major order fixes before it meets a one.      *)
UpToOne(d, E) ==
  {e \in E \cap Entries(d, "free") : \A o \in E \cap Entries(d, "one") : InFrontOf(e, o)}

Triangle0(d) == {e \in DOMAIN d : e[2] > e[1]}

BarEnd(d, r) == IF r < NC(d) - 1 THEN r ELSE NC(d) - 1

Stuck(d, r, l) == l = NC(d) - 1 \/ d[r, l + 1] = "zero"
Move(d, r, l)  == IF Stuck(d, r, l) THEN l ELSE l + 1

FirstIn(d, t, r) ==
  LET C == {c \in 0 .. BarEnd(d, r) :
              IF t = "partitioning" THEN d[r, c] # "zero" ELSE d[r, c] = "one"}
  IN  IF C = {} THEN -1 ELSE CHOOSE c \in C : \A b \in C : c <= b

CornerOf(d, t) == IF t = "packing" /\ d[0, 0] = "zero" THEN -1 ELSE 0

(* The element of a set of one: TLC then computes a state of the fold once. *)
The(S) == CHOOSE x \in S : TRUE

(* Row r, in the state s of the loop over the rows.                        *)
RowStep(s, t, sub, r) ==
  LET d      == s.dom
      f      == FirstIn(d, t, r)
      a      == Move(d, r, s.last)
      beyond == {<<r, c>> : c \in a + 1 .. BarEnd(d, r)}
      ones   == beyond \cap Entries(d, "one")
      free   == beyond \cap Entries(d, "free")
      cut    == [s EXCEPT !.infeasible = TRUE, !.stop = TRUE]
  IN  IF s.stop THEN s
      ELSE IF (t = "partitioning" /\ f = -1) \/ f > a THEN cut
      ELSE IF ~sub /\ ones # {}
        THEN [cut EXCEPT !.dom = FixIn(d, UpToOne(d, beyond), "zero"),
                         !.nfixed = @ + Cardinality(UpToOne(d, beyond))]
      ELSE [s EXCEPT !.dom = FixIn(d, free, "zero"),
                     !.nfixed = @ + Cardinality(free \cup ones),
                     !.infeasible = @ /\ (sub \/ free = {}),
                     !.last = a,
                     !.lastones[r] = a,
                     !.firstnz[r] = f,
                     !.steps = IF Stuck(d, r, s.last) THEN @ ELSE Append(@, r)]

(* The rows below r in which the frontier, held back in row r, is too far  *)
(* left for the first non-zero.                                            *)
NoRoom(s, r) ==
  LET d    == s.dom
      beta == [q \in r .. NR(d) - 1 |->
                 LET below == [h \in 1 .. q - r |-> r + h]
                 IN  FoldLeft(LAMBDA l, h : Move(d, h, l), s.lastones[r] - 1, below)]
  IN  {q \in r + 1 .. NR(d) - 1 : s.firstnz[q] > beta[q]}

(* The look-ahead from the k-th frontier step: see PackingPropagation for  *)
(* the entry that is fixed in a submatrix.                                 *)
LookAhead(s, sub, k) ==
  LET r == s.steps[k]
      q == CHOOSE h \in NoRoom(s, r) : \A g \in NoRoom(s, r) : h <= g
      E == IF sub THEN {<<q, k - 1>>} ELSE {<<r, s.lastones[r]>>}
  IN  IF s.dom[r, s.lastones[r]] # "free" \/ NoRoom(s, r) = {} THEN s
      ELSE [s EXCEPT !.dom = FixIn(@, E \cap Entries(@, "free"), "one"),
                     !.nfixed = @ + 1,
                     !.infeasible = @ /\ sub]

(* The bounds after the call, *infeasible and *nfixedvars, for an orbitope *)
(* of type t; sub tells the function for submatrices from the other.       *)
Fixing(d, t, sub) ==
  LET up    == Triangle0(d)
      start == [dom        |-> FixIn(d, UpToOne(d, up), "zero"),
                infeasible |-> up \cap Entries(d, "one") # {},
                nfixed     |-> Cardinality(UpToOne(d, up)),
                stop       |-> sub /\ up \cap Entries(d, "one") # {},
                last       |-> CornerOf(FixIn(d, UpToOne(d, up), "zero"), t),
                lastones   |-> [r \in 0 .. NR(d) - 1 |-> CornerOf(d, t)],
                firstnz    |-> [r \in 0 .. NR(d) - 1 |-> -1],
                steps      |-> <<>>]
      first == IF sub THEN 0 ELSE 1
      rows  == FoldLeft(LAMBDA s, r : The({RowStep(x, t, sub, r) : x \in {s}}), start,
                        [h \in 1 .. NR(d) - first |-> h - 1 + first])
      end   == IF rows.stop THEN rows
               ELSE FoldLeft(LAMBDA s, k : The({LookAhead(x, sub, k) : x \in {s}}), rows,
                             [k \in 1 .. Len(rows.steps) |-> k])
  IN  [dom |-> end.dom, infeasible |-> end.infeasible, nfixed |-> end.nfixed]
================================================================================
