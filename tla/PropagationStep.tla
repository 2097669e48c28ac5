--------------------------- MODULE PropagationStep ---------------------------
(***************************************************************************)
(* What one propagation of an orbitope promises the solver, however it is  *)
(* computed: it fixes free entries of the matrix, keeps every point of the *)
(* orbitope that the bounds of the node admit, and cuts the node off only  *)
(* when the bounds admit none.                                             *)
(***************************************************************************)
CONSTANTS
  Bounds,         (* the bounds a matrix can have                          *)
  PointSets,      (* the sets of points an orbitope can have               *)
  Fits(_, _),     (* Fits(p, d): the bounds d admit the point p            *)
  Tightens(_, _)  (* Tightens(e, d): e fixes entries that are free in d    *)

VARIABLES
  dom,      (* the bounds                                                  *)
  points,   (* the points of the orbitope that is propagated               *)
  busy,     (* TRUE while the propagation runs                             *)
  cutoff    (* TRUE when it has proved the node infeasible                 *)

Keeps(e, d) == \A p \in points : Fits(p, d) => Fits(p, e)

Init ==
  /\ dom \in Bounds
  /\ points \in PointSets
  /\ busy = FALSE
  /\ cutoff = FALSE

Start ==
  /\ ~busy
  /\ busy' = TRUE
  /\ dom' \in Bounds
  /\ points' \in PointSets
  /\ cutoff' = FALSE

Tighten ==
  /\ busy
  /\ dom' \in Bounds
  /\ Tightens(dom', dom)
  /\ Keeps(dom', dom)
  /\ UNCHANGED <<points, busy, cutoff>>

(* No point is left: what is fixed on the way does not matter.              *)
CutOff ==
  /\ busy
  /\ \A p \in points : ~Fits(p, dom)
  /\ dom' \in Bounds
  /\ Tightens(dom', dom)
  /\ cutoff' = TRUE
  /\ busy' = FALSE
  /\ UNCHANGED points

Finish ==
  /\ busy
  /\ busy' = FALSE
  /\ UNCHANGED <<dom, points, cutoff>>

(* Between two propagations the solver changes the bounds as it likes.      *)
Leave ==
  /\ ~busy /\ ~busy'
  /\ dom' \in Bounds
  /\ points' \in PointSets
  /\ cutoff' = FALSE

Next == Start \/ Tighten \/ CutOff \/ Finish \/ Leave

Spec == Init /\ [][Next]_<<dom, points, busy, cutoff>>
==============================================================================
