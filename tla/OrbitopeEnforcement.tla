-------------------------- MODULE OrbitopeEnforcement --------------------------
(***************************************************************************)
(* The callbacks of the orbitope constraint handler that look at a         *)
(* solution (cons_orbitope.c): separation, enforcement of LP and of pseudo *)
(* solutions, and the check of a candidate.  Each goes through its         *)
(* constraints one by one and returns a single result.                     *)
(***************************************************************************)
EXTENDS CoverCuts

CONSTANTS
  Problems,     (* lists of constraints with a solution, the value one that *)
                (* stands for 1 in it, and the callbacks it may come to:   *)
                (* "sepa", "enfolp", "enfops", "check"                     *)
  SepaFull      (* the parameter sepafullorbitope                          *)

PackingType(k) == k.type \in {"packing", "partitioning"}

(* A constraint: its type, ismodelcons, istrianglefixed, the bounds of the  *)
(* entries above the diagonal, and the solution, with values 0 .. u.        *)
Constraint(k, u) ==
  /\ DOMAIN k = {"type", "model", "fixed", "triangle", "sol"}
  /\ k.type \in {"packing", "partitioning", "full"} /\ k.model \in BOOLEAN /\ k.fixed \in BOOLEAN
  /\ NR(k.sol) \in Nat \ {0} /\ NC(k.sol) \in Nat \ {0}
  /\ k.sol \in [(0 .. NR(k.sol) - 1) \X (0 .. NC(k.sol) - 1) -> 0 .. u]
  /\ PackingType(k) => DOMAIN k.triangle = {e \in DOMAIN k.sol : e[2] > e[1]}
  /\ \A e \in DOMAIN k.triangle : k.triangle[e] \in {"free", "zero", "one"}
  /\ k.fixed => \A e \in DOMAIN k.triangle : k.triangle[e] = "zero" /\ k.sol[e] = 0

(* Solutions that come to enforcement or to the check are integral: the     *)
(* integrality constraints are asked first.  Those of the node respect its  *)
(* bounds; a candidate need not.                                            *)
ASSUME ProblemAssumption ==
  \A q \in Problems :
    /\ q.one \in Nat \ {0} /\ q.calls \subseteq {"sepa", "enfolp", "enfops", "check"}
    /\ q.conss \in Seq({q.conss[h] : h \in DOMAIN q.conss})
    /\ \A h \in DOMAIN q.conss :
         LET k == q.conss[h]
         IN  /\ Constraint(k, q.one)
             /\ q.calls \subseteq {"sepa"} \/ \A e \in DOMAIN k.sol : k.sol[e] \in {0, q.one}
             /\ \/ q.calls \subseteq {"check"}
                \/ \A e \in DOMAIN k.triangle : k.triangle[e] = "zero" => k.sol[e] = 0

ASSUME FlagAssumption == SepaFull \in BOOLEAN

VARIABLES
  pc,           (* "loop" or "done"                                        *)
  call,         (* the callback                                            *)
  completely,   (* the check is to look at all constraints                 *)
  refused,      (* objinfeasible || solinfeasible: the pseudo solution to  *)
                (* be enforced is already known to be infeasible           *)
  one,          (* the value in solutions that stands for 1                *)
  nuseful,      (* nusefulconss                                            *)
  conss,        (* the constraints                                         *)
  c,            (* the constraint at hand                                  *)
  infeasible, nfixed,
  cuts,         (* pairs of a constraint and an inequality                 *)
  result

vars == <<pc, call, completely, refused, one, nuseful, conss, c, infeasible, nfixed, cuts,
          result>>

-------------------------------------------------------------------------------
InFrontOf(e, f) == e[1] < f[1] \/ (e[1] = f[1] /\ e[2] < f[2])

AtOne(k) == {e \in DOMAIN k.triangle : k.triangle[e] = "one"}

(* fixTriangle: the free entries in front of the first one.                 *)
ToFix(k) ==
  {e \in DOMAIN k.triangle :
     k.triangle[e] = "free" /\ \A o \in AtOne(k) : InFrontOf(e, o)}

(* The flag is set when all of the triangle is zero for good: root says     *)
(* that bound changes are global.                                           *)
FixTriangle(k, root) ==
  LET tri == [e \in DOMAIN k.triangle |-> IF e \in ToFix(k) THEN "zero" ELSE k.triangle[e]]
  IN  [k EXCEPT !.triangle = tri, !.fixed = AtOne(k) = {} /\ root]

(* SCIPcheckSolutionOrbisack: the first row in which the columns differ.    *)
PairSorted(v, a) ==
  LET differ == {r \in 0 .. NR(v) - 1 : v[r, a] # v[r, a + 1]}
  IN  differ = {} \/ v[Min(differ), a] > v[Min(differ), a + 1]

(* Only the check has completely, only the enforcement of pseudo solutions  *)
(* looks at objinfeasible and solinfeasible, and only separateConstraints   *)
(* at nusefulconss.                                                         *)
Init ==
  /\ pc = "loop"
  /\ \E q \in Problems : call \in q.calls /\ conss = q.conss /\ one = q.one
  /\ completely \in IF call = "check" THEN BOOLEAN ELSE {FALSE}
  /\ refused \in IF call = "enfops" THEN BOOLEAN ELSE {FALSE}
  /\ nuseful \in IF call \in {"sepa", "enfolp"} THEN 0 .. Len(conss) ELSE {Len(conss)}
  /\ c = 1 /\ infeasible = FALSE /\ nfixed = 0 /\ cuts = {}
  /\ result = IF call = "sepa" THEN "didnotfind" ELSE "feasible"

(* Constraints that are not part of the model are separated only.           *)
Skipped == call # "sepa" /\ ~conss[c].model

Found == cuts # {} \/ nfixed > 0

(* The loop of separateConstraints has come to its end: behind the useful   *)
(* constraints it stops as soon as anything has been found.                 *)
SeparationOver ==
  \/ c > Len(conss) \/ infeasible
  \/ Found /\ c - 2 >= nuseful /\ (call = "enfolp" => conss[c - 1].model)

(* The loop of the callback has come to its end.  That of enfops is not     *)
(* entered for a solution that is refused already: the answer is feasible.  *)
Over ==
  CASE call \in {"sepa", "enfolp"} -> SeparationOver
    [] call = "enfops" -> refused \/ c > Len(conss) \/ result = "infeasible"
    [] call = "check"  -> c > Len(conss) \/ (result # "feasible" /\ ~completely)

Skip ==
  /\ pc = "loop" /\ ~Over /\ Skipped
  /\ c' = c + 1
  /\ UNCHANGED <<pc, call, completely, refused, one, nuseful, conss, infeasible, nfixed, cuts,
                 result>>

(* one constraint of separateConstraints.  A row that cannot be fulfilled   *)
(* within the bounds makes the node infeasible.                             *)
Separate ==
  /\ pc = "loop" /\ call \in {"sepa", "enfolp"} /\ ~Over /\ ~Skipped
  /\ LET k == conss[c]
         new == IF PackingType(k)
                  THEN IF ~k.fixed /\ (AtOne(k) # {} \/ ToFix(k) # {}) THEN {} ELSE SCIs(k.sol)
                ELSE IF SepaFull THEN Covers(k.sol, one) ELSE {}
     IN  /\ cuts' = cuts \cup {<<c, d>> : d \in new}
         /\ IF PackingType(k) /\ ~k.fixed
              THEN /\ \E root \in BOOLEAN : conss' = [conss EXCEPT ![c] = FixTriangle(k, root)]
                   /\ nfixed' = nfixed + Cardinality(ToFix(k))
              ELSE UNCHANGED <<conss, nfixed>>
         /\ infeasible' \in {PackingType(k) /\ ~k.fixed /\ AtOne(k) # {}}
                              \cup (IF new = {} THEN {} ELSE {TRUE})
  /\ c' = c + 1
  /\ UNCHANGED <<pc, call, completely, refused, one, nuseful, result>>

ExceedingBars(v) == Exceeding(v, SCTable(v))

FullSorted(v) == \A a \in 0 .. NC(v) - 2 : PairSorted(v, a)

(* one constraint of the enforcement of a pseudo solution.                  *)
EnforcePseudo ==
  /\ pc = "loop" /\ call = "enfops" /\ ~Over /\ ~Skipped
  /\ LET k == conss[c]
         tri == PackingType(k) /\ ~k.fixed
     IN  /\ IF tri
              THEN \E root \in BOOLEAN : conss' = [conss EXCEPT ![c] = FixTriangle(k, root)]
              ELSE UNCHANGED conss
         /\ result' = IF tri /\ AtOne(k) # {} THEN "cutoff"
                      ELSE IF tri /\ ToFix(k) # {} THEN "reduceddom"
                      ELSE IF PackingType(k)
                        THEN IF ExceedingBars(k.sol) # {} THEN "infeasible" ELSE result
                      ELSE IF FullSorted(k.sol) THEN result ELSE "infeasible"
  /\ c' = c + 1
  /\ UNCHANGED <<pc, call, completely, refused, one, nuseful, infeasible, nfixed, cuts>>

(* Slip: a triangle that is not fixed is not looked at. *)
TriangleZeroUnread(k) == TRUE

(* Without assertions the triangle is only read when it is not fixed.       *)
TriangleZero(k) == k.fixed \/ \A e \in DOMAIN k.triangle : k.sol[e] = 0

(* one constraint of the check of a candidate.                              *)
Check ==
  /\ pc = "loop" /\ call = "check" /\ ~Over /\ ~Skipped
  /\ LET k == conss[c]
     IN  result' = IF PackingType(k)
                     THEN IF TriangleZero(k) /\ ExceedingBars(k.sol) = {} THEN result ELSE "infeasible"
                   ELSE IF FullSorted(k.sol) THEN result ELSE "infeasible"
  /\ c' = c + 1
  /\ UNCHANGED <<pc, call, completely, refused, one, nuseful, conss, infeasible, nfixed, cuts>>

(* Slip: inequalities come before reductions. *)
AnswerCutsOnly ==
  IF infeasible THEN "cutoff" ELSE IF nfixed > 0 THEN "reduceddom" ELSE result

Answer ==
  IF infeasible THEN "cutoff"
  ELSE IF nfixed > 0 THEN "reduceddom"
  ELSE IF cuts # {} THEN "separated" ELSE result

(* The callback returns. *)
Return ==
  /\ pc = "loop" /\ Over
  /\ result' = IF call \in {"sepa", "enfolp"} THEN Answer ELSE result
  /\ pc' = "done"
  /\ UNCHANGED <<call, completely, refused, one, nuseful, conss, c, infeasible, nfixed, cuts>>

Next == Skip \/ Separate \/ EnforcePseudo \/ Check \/ Return

Spec == Init /\ [][Next]_vars

-------------------------------------------------------------------------------
(***************************************************************************)
(* Properties.                                                             *)
(***************************************************************************)

RowSum(x, r) == Sum(x, {e \in DOMAIN x : e[1] = r})

RowsAllowed(x, t, n) ==
  \A r \in 0 .. NR(x) - 1 :
    CASE t = "packing" -> RowSum(x, r) <= n
      [] t = "partitioning" -> RowSum(x, r) = n
      [] t = "full" -> TRUE

(* Columns in the order of their first difference. *)
ColumnsSorted(x) ==
  \A a \in 0 .. NC(x) - 2 : \A r \in 0 .. NR(x) - 1 :
    x[r, a] < x[r, a + 1] => \E q \in 0 .. r - 1 : x[q, a] > x[q, a + 1]

(* The 0/1 matrices with entries E of which the rows are as the type says.  *)
Orbitope(E, t) ==
  {x \in [E -> 0 .. 1] : RowsAllowed(x, t, 1) /\ ColumnsSorted(x)}

(* No inequality cuts off a matrix of the orbitope.                         *)
CutsValid ==
  \A p \in cuts :
    \A x \in Orbitope(DOMAIN conss[p[1]].sol, conss[p[1]].type) : Holds(p[2], x, 1)

(* Every inequality of a packing or partitioning orbitope cuts off the      *)
(* solution it is found for.                                                *)
CutsViolated ==
  \A p \in cuts : PackingType(conss[p[1]]) => ~Holds(p[2], conss[p[1]].sol, one)

(* Binary solutions in the orbitope. *)
Accepted(k) == (\A e \in DOMAIN k.sol : k.sol[e] \in {0, one}) /\ ColumnsSorted(k.sol)

(* A candidate is accepted if and only if it is in all orbitopes of the     *)
(* model, as far as its rows are what other constraints say.                *)
CheckExact ==
  pc = "done" /\ call = "check" /\ (\A h \in DOMAIN conss : RowsAllowed(conss[h].sol, conss[h].type, one)) =>
    (result = "feasible" <=> \A h \in DOMAIN conss : conss[h].model => Accepted(conss[h]))

(* The constraints that enforcement looks at: with full orbitopes, that of  *)
(* LP solutions only does when they are separated.                          *)
Enforced(k) == k.model /\ (PackingType(k) \/ call = "enfops" \/ SepaFull)

(* Enforcement does not take a solution for feasible that is not.  A pseudo *)
(* solution that others have refused is answered feasible unseen; the       *)
(* solver keeps its verdict.                                                *)
FeasibleIsOrbitope ==
  pc = "done" /\ call \in {"enfolp", "enfops"} /\ ~refused /\ result = "feasible" =>
    \A h \in DOMAIN conss :
      Enforced(conss[h]) /\ RowsAllowed(conss[h].sol, conss[h].type, one) => Accepted(conss[h])
===============================================================================
