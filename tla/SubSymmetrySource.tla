-------------------------- MODULE SubSymmetrySource --------------------------
(***************************************************************************)
(* What the orbitope constraint handler expects of an activation handler.  *)
(*                                                                         *)
(* The callback SCIP_DECL_ACTIVATIONFINDDATA is called at a node of the    *)
(* search tree, reads the local bounds of the variables of the matrix and  *)
(* returns a list of submatrices.  The propagator of cons_orbitope.c then  *)
(* treats each of them as an orbitope of its own, which is sound only if   *)
(* the submatrix really is symmetric at that node.  This module says so    *)
(* and nothing about how the submatrices are found; the modules of the     *)
(* three handlers are shown to implement it.                               *)
(***************************************************************************)

CONSTANTS
  Domains,         (* the local bounds a node may have, for the whole matrix *)
  Submatrices,     (* the values a reported submatrix may have               *)
  Symmetric(_, _)  (* Symmetric(d, s): s is a sub-symmetry under bounds d    *)

VARIABLES
  dom,    (* the local bounds at the current node                  *)
  busy,   (* TRUE between the call of the callback and its return  *)
  found   (* the submatrices the caller owns or is about to receive *)

vars == <<dom, busy, found>>

Init ==
  /\ dom \in Domains
  /\ busy = FALSE
  /\ found = {}

(* The constraint handler calls the callback at some node. *)
Call ==
  /\ ~busy
  /\ busy' = TRUE
  /\ dom' \in Domains
  /\ found' = {}

(* The handler puts a submatrix on the list. *)
Report ==
  /\ busy
  /\ \E s \in Submatrices : Symmetric(dom, s) /\ found' = found \cup {s}
  /\ UNCHANGED <<dom, busy>>

(* The callback returns the list. *)
Return ==
  /\ busy
  /\ busy' = FALSE
  /\ UNCHANGED <<dom, found>>

(* The caller has propagated the submatrices and frees the list. *)
Consume ==
  /\ ~busy
  /\ found' = {}
  /\ dom' \in Domains
  /\ UNCHANGED busy

Next == Call \/ Report \/ Return \/ Consume

Spec == Init /\ [][Next]_vars
==============================================================================
