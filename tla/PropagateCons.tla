----------------------------- MODULE PropagateCons -----------------------------
(***************************************************************************)
(* One node of the search tree: the solver's propagation loop (solve.c),   *)
(* the propagator of the orbitope constraint handler (consPropOrbitope,    *)
(* propagateCons), and the activation handler it asks for submatrices.     *)
(*                                                                         *)
(* A constraint is propagated as a whole first; the activation handler is  *)
(* then asked once for a list of submatrices, and each of them is          *)
(* propagated as an orbitope of its own, although the bounds for which the *)
(* list was made have changed in the meantime.  The solver calls the       *)
(* propagator again as long as it reports reductions.                      *)
(*                                                                         *)
(* Propagations are the functions of OrbitopalFixing.  Of the handler only *)
(* the contract SubSymmetrySource is used: the list may hold any           *)
(* submatrices that are symmetric under the bounds at hand.                *)
(***************************************************************************)
EXTENDS OrbitopalFixing, SubmatrixBounds
LOCAL INSTANCE Functions

CONSTANTS
  NRows, NCols,
  NConss,        (* nusefulconss                                           *)
  Type,          (* the type of the constraints                            *)
  HasHandler,    (* the constraints that have an activation handler        *)
  Matrices,      (* the bounds a matrix may have when the node is entered  *)
  Submatrices,   (* the submatrices a handler may find                     *)
  Symmetric(_, _), (* Symmetric(d, s): s is a sub-symmetry under bounds d  *)
  Points,        (* the solutions: row |-> column of its one, or -1        *)
  MaxList,       (* bound of the instance: length of the list              *)
  MaxRounds      (* the limits on the rounds, at the root and elsewhere;   *)
                 (* 0 for -1, which is no limit                            *)

Rows == 0 .. NRows - 1
Cols == 0 .. NCols - 1
Dom  == {"free", "zero", "one"}
Bounds == [Rows \X Cols -> Dom]
Conss == 1 .. NConss

ASSUME SizeAssumption ==
  NRows \in Nat \ {0} /\ NCols \in Nat \ {0} /\ NConss \in Nat \ {0}
  /\ MaxRounds \subseteq Nat /\ MaxRounds # {} /\ MaxList \in Nat
ASSUME TypeAssumption == Type \in {"packing", "partitioning"} /\ HasHandler \subseteq Conss
ASSUME MatrixAssumption == Matrices \subseteq Bounds /\ Matrices # {}
ASSUME PointAssumption == Points \subseteq [Rows -> -1 .. NCols - 1]

(* Rows and columns are named in increasing order. *)
Increasing(q) == \A g, h \in DOMAIN q : g < h => q[g] < q[h]
ASSUME SubmatrixAssumption ==
  \A s \in Submatrices :
    /\ s.rows \in Seq(Rows) /\ s.rows # <<>> /\ Increasing(s.rows)
    /\ s.cols \in Seq(Cols) /\ s.cols # <<>> /\ Increasing(s.cols)

VARIABLES
  dom,         (* the bounds of the matrix of each constraint              *)
  dom0,        (* the bounds when the node was entered                     *)
  domRound,    (* the bounds when the propagator was called                *)
  pc,
  c,           (* the constraint at hand                                   *)
  list,        (* the list of submatrices from submatrix on                *)
  infeasible,
  nfixed,      (* nfixedvars                                               *)
  result,      (* *result of the propagator                                *)
  maxrounds,   (* maxproprounds                                            *)
  round        (* propround; stays 0 without a limit                       *)

vars == <<dom, dom0, domRound, pc, c, list, infeasible, nfixed, result, maxrounds, round>>

-------------------------------------------------------------------------------
(* Slip: the submatrices are not checked against the bounds at hand. *)
ListsUnchecked(d) ==
  UNION {[1 .. n -> Submatrices] : n \in 0 .. MaxList}

(* The lists a handler may return under the bounds d. *)
Lists(d) ==
  UNION {[1 .. n -> {s \in Submatrices : Symmetric(d, s)}] : n \in 0 .. MaxList}

SomeMatrices == [k \in Conss |-> CHOOSE d \in Matrices : TRUE]

Init ==
  /\ dom = SomeMatrices /\ dom0 = SomeMatrices /\ domRound = SomeMatrices
  /\ pc = "idle"
  /\ c = 1 /\ list = <<>>
  /\ infeasible = FALSE /\ nfixed = 0
  /\ result = "DIDNOTRUN" /\ maxrounds = 0 /\ round = 0

(* The solver comes to a node. *)
EnterNode ==
  /\ pc = "idle"
  /\ dom' \in [Conss -> Matrices]
  /\ dom0' = dom' /\ domRound' = dom'
  /\ maxrounds' \in MaxRounds
  /\ pc' = "round"
  /\ UNCHANGED <<c, list, infeasible, nfixed, result, round>>

(* Slip: the rounds are not counted. *)
CallPropagatorUncounted ==
  /\ pc = "round"
  /\ maxrounds > 0 => round < maxrounds
  /\ c' = 1
  /\ infeasible' = FALSE /\ nfixed' = 0 /\ result' = "DIDNOTRUN"
  /\ domRound' = dom
  /\ pc' = "cons"
  /\ UNCHANGED <<dom, dom0, list, maxrounds, round>>

(* A propagation round: consPropOrbitope is called. *)
CallPropagator ==
  /\ pc = "round"
  /\ maxrounds > 0 => round < maxrounds
  /\ round' = IF maxrounds > 0 THEN round + 1 ELSE 0
  /\ c' = 1
  /\ infeasible' = FALSE /\ nfixed' = 0 /\ result' = "DIDNOTRUN"
  /\ domRound' = dom
  /\ pc' = "cons"
  /\ UNCHANGED <<dom, dom0, list, maxrounds>>

(* Constraint c is propagated as a whole; the count starts at zero again.   *)
PropagateWhole ==
  /\ pc = "cons" /\ c <= NConss /\ ~infeasible
  /\ \E f \in {Fixing(dom[c], Type, FALSE)} :
         /\ dom' = [dom EXCEPT ![c] = f.dom]
         /\ infeasible' = f.infeasible
         /\ nfixed' = f.nfixed
  /\ IF c \in HasHandler THEN pc' = "find" /\ c' = c ELSE pc' = "cons" /\ c' = c + 1
  /\ UNCHANGED <<dom0, domRound, list, result, maxrounds, round>>

(* The activation handler is asked for the submatrices, also when the node  *)
(* is already known to be infeasible.                                       *)
FindActivationData ==
  /\ pc = "find"
  /\ list' \in Lists(dom[c])
  /\ pc' = "sub"
  /\ UNCHANGED <<dom, dom0, domRound, c, infeasible, nfixed, result, maxrounds, round>>

(* The next submatrix is propagated, and freed. *)
PropagateSubmatrix ==
  /\ pc = "sub" /\ list # <<>>
  /\ ~infeasible
  /\ \E f \in {Fixing(SubBounds(dom[c], Head(list)), "packing", TRUE)} :
         /\ dom' = [dom EXCEPT ![c] = WriteBack(@, Head(list), f.dom)]
         /\ infeasible' = f.infeasible
         /\ nfixed' = nfixed + f.nfixed
  /\ list' = Tail(list)
  /\ UNCHANGED <<dom0, domRound, pc, c, result, maxrounds, round>>

(* After a verdict the rest of the list is only freed. *)
FreeSubmatrix ==
  /\ pc = "sub" /\ list # <<>>
  /\ infeasible
  /\ list' = Tail(list)
  /\ UNCHANGED <<dom, dom0, domRound, pc, c, infeasible, nfixed, result, maxrounds, round>>

EndList ==
  /\ pc = "sub" /\ list = <<>>
  /\ pc' = "cons" /\ c' = c + 1
  /\ UNCHANGED <<dom, dom0, domRound, list, infeasible, nfixed, result, maxrounds, round>>

(* Slip: a single reduction is not reported. *)
AnswerFromTwo ==
  /\ pc = "cons" /\ (c > NConss \/ infeasible)
  /\ result' = IF infeasible THEN "CUTOFF"
               ELSE IF nfixed > 1 THEN "REDUCEDDOM" ELSE "DIDNOTFIND"
  /\ pc' = "answer"
  /\ UNCHANGED <<dom, dom0, domRound, c, list, infeasible, nfixed, maxrounds, round>>

(* The propagator tells the solver what it has found. *)
Answer ==
  /\ pc = "cons" /\ (c > NConss \/ infeasible)
  /\ result' = IF infeasible THEN "CUTOFF"
               ELSE IF nfixed > 0 THEN "REDUCEDDOM" ELSE "DIDNOTFIND"
  /\ pc' = "answer"
  /\ UNCHANGED <<dom, dom0, domRound, c, list, infeasible, nfixed, maxrounds, round>>

(* Reductions call for another round ... *)
Again ==
  /\ pc = "answer" /\ result = "REDUCEDDOM"
  /\ pc' = "round"
  /\ UNCHANGED <<dom, dom0, domRound, c, list, infeasible, nfixed, result, maxrounds, round>>

(* ... and otherwise, or at the limit, the solver goes on to another node. *)
LeaveNode ==
  /\ \/ pc = "answer" /\ result # "REDUCEDDOM"
     \/ pc = "round" /\ maxrounds > 0 /\ round >= maxrounds
  /\ dom' = SomeMatrices /\ dom0' = SomeMatrices /\ domRound' = SomeMatrices
  /\ pc' = "idle"
  /\ c' = 1 /\ list' = <<>> /\ infeasible' = FALSE /\ nfixed' = 0
  /\ result' = "DIDNOTRUN" /\ maxrounds' = 0 /\ round' = 0

Propagate ==
  \/ CallPropagator \/ PropagateWhole \/ FindActivationData
  \/ PropagateSubmatrix \/ FreeSubmatrix \/ EndList
  \/ Answer \/ Again \/ LeaveNode

Next == EnterNode \/ Propagate

Spec == Init /\ [][Next]_vars

(* The loop is sequential code: it does not stop between two statements.    *)
FairSpec == Spec /\ WF_vars(Propagate)

-------------------------------------------------------------------------------
(***************************************************************************)
(* What is to be kept.                                                     *)
(***************************************************************************)

Fits(p, d) ==
  \A r \in Rows : \A k \in Cols :
    /\ d[r, k] = "one"  => p[r] = k
    /\ d[r, k] = "zero" => p[r] # k

(* The bounds that leave the point p alone. *)
Fixed(p) == [e \in Rows \X Cols |-> IF p[e[1]] = e[2] THEN "one" ELSE "zero"]

(* The columns of p, cut down to the submatrix s, are sorted.               *)
Sorted(p, s) ==
  \A h \in 2 .. Len(s.cols) :
    \A g \in DOMAIN s.rows :
      p[s.rows[g]] = s.cols[h] => \E f \in 1 .. g : p[s.rows[f]] = s.cols[h - 1]

Whole == [rows |-> [g \in 1 .. NRows |-> g - 1], cols |-> [h \in 1 .. NCols |-> h - 1]]

(* The representative solutions: sorted in the whole matrix and in every    *)
(* submatrix whose columns the solution itself makes interchangeable. They  *)
(* are the same at every node of the tree.                                  *)
Canonical ==
  {p \in Points :
     Sorted(p, Whole) /\ \A s \in Submatrices : Symmetric(Fixed(p), s) => Sorted(p, s)}

-------------------------------------------------------------------------------
(***************************************************************************)
(* Properties.                                                             *)
(***************************************************************************)

(* The variables have the values their declarations in the code allow.      *)
TypeOK ==
  /\ dom \in [Conss -> Bounds] /\ dom0 \in [Conss -> Bounds]
  /\ domRound \in [Conss -> Bounds]
  /\ pc \in {"idle", "round", "cons", "find", "sub", "answer"}
  /\ c \in 1 .. NConss + 1
  /\ list \in Seq(Submatrices)
  /\ infeasible \in BOOLEAN /\ nfixed \in Nat
  /\ maxrounds \in MaxRounds \cup {0} /\ round \in Nat
  /\ result \in {"DIDNOTRUN", "CUTOFF", "REDUCEDDOM", "DIDNOTFIND"}

(* However many submatrices are propagated, in whatever order, and whatever *)
(* earlier propagations did to the bounds: when the propagator answers, no  *)
(* representative solution of the node has been cut off, and the node is    *)
(* cut off only when it has none.  P are the representative solutions.      *)
RepresentativesKept(P) ==
  pc = "answer" =>
    /\ \A k \in Conss : \A p \in P : Fits(p, dom0[k]) => Fits(p, dom[k])
    /\ infeasible => \E k \in Conss : \A p \in P : ~Fits(p, dom0[k])

(* No reduction is kept from the solver, whichever of the submatrices it    *)
(* was found in: the propagations are called again after it.                *)
ReductionsAreTold ==
  pc = "answer" /\ ~infeasible /\ dom # domRound => result = "REDUCEDDOM"

(* A reduction the solver is told of has been found in this call; otherwise *)
(* it calls again in vain.                                                  *)
ToldReductionsExist ==
  pc = "answer" /\ result = "REDUCEDDOM" => dom # domRound

(* With a limit on the rounds, the propagation of a node comes to an end.   *)
NodeFinishes == pc = "round" /\ maxrounds > 0 ~> pc = "idle"

(* A reduction is followed by another round, so that the bounds with which  *)
(* the solver leaves the node are a fixpoint of the propagations.           *)
LeavesFixpoint ==
  [][pc = "answer" /\ pc' = "idle" /\ ~infeasible => dom = domRound]_vars
===============================================================================
