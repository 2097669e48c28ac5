----------------------------- MODULE OrbitopeFlags -----------------------------
(***************************************************************************)
(* The flags of an orbitope constraint on its way from the caller through  *)
(* the transformed problem to the sub-SCIPs that heuristics solve          *)
(* (cons_orbitope.c).                                                      *)
(*                                                                         *)
(* A model constraint demands an order of the columns; any other has been  *)
(* added for symmetry handling only, may choose its order of the rows      *)
(* while the tree grows, and is not to be copied.  The four flags are      *)
(* passed by position, and not every caller has them in the order of the   *)
(* function it calls.                                                      *)
(***************************************************************************)
EXTENDS Integers, Sequences

CONSTANTS
  forceconscopy,   (* parameter of the constraint handler                  *)
  MaxConss,        (* bound of the instance: number of constraints         *)
  MaxDepth         (* bound of the instance: sub-SCIPs of sub-SCIPs        *)

Flags == [usedynamicprop : BOOLEAN, mayinteract : BOOLEAN,
          resolveprop : BOOLEAN, ismodelcons : BOOLEAN]

VARIABLE conss
(* The constraints created so far.  flags: what the constraint data hold;   *)
(* asked: what the caller wanted of the constraint it descends from; basic: *)
(* that one came from SCIPcreateConsBasicOrbitope; depth:                   *)
(* SCIPgetSubscipDepth; transformed: it belongs to the transformed problem. *)

vars == conss

-------------------------------------------------------------------------------
Init == conss = <<>>

(* SCIPcreateConsOrbitope, its parameters in its own order. *)
CreateConsOrbitope(dyn, mayint, res, model) ==
  [usedynamicprop |-> dyn /\ ~mayint, mayinteract |-> mayint,
   resolveprop |-> res, ismodelcons |-> model]

(* SCIPcreateConsBasicOrbitope hands resolveprop, ismodelcons and           *)
(* mayinteract over in this order.                                          *)
CreateConsBasicOrbitope(f) ==
  CreateConsOrbitope(f.usedynamicprop, f.resolveprop, f.ismodelcons, f.mayinteract)

Add(c) == Len(conss) < MaxConss /\ conss' = Append(conss, c)

Create ==
  \E f \in Flags :
    Add([flags |-> CreateConsOrbitope(f.usedynamicprop, f.mayinteract, f.resolveprop, f.ismodelcons),
         asked |-> f, basic |-> FALSE, depth |-> 0, transformed |-> FALSE])

CreateBasic ==
  \E f \in Flags :
    Add([flags |-> CreateConsBasicOrbitope(f),
         asked |-> f, basic |-> TRUE, depth |-> 0, transformed |-> FALSE])

(* A constraint read from a file. *)
Parse ==
  \E f \in {CreateConsOrbitope(FALSE, TRUE, TRUE, TRUE)} :
    Add([flags |-> f, asked |-> f, basic |-> FALSE, depth |-> 0, transformed |-> FALSE])

(* The constraint of the transformed problem. *)
Trans ==
  \E k \in DOMAIN conss :
    /\ ~conss[k].transformed
    /\ Add([conss[k] EXCEPT !.transformed = TRUE])

(* A constraint is copied to a sub-SCIP, if it is a model constraint or the *)
(* user insists; here, too, mayinteract comes last.                         *)
Copy ==
  \E k \in DOMAIN conss : \E f \in {conss[k].flags} :
    /\ f.ismodelcons \/ forceconscopy
    /\ conss[k].depth < MaxDepth
    /\ Add([flags |-> CreateConsOrbitope(f.usedynamicprop, f.resolveprop, f.ismodelcons, f.mayinteract),
            asked |-> conss[k].asked, basic |-> conss[k].basic,
            depth |-> conss[k].depth + 1, transformed |-> FALSE])

Next == Create \/ CreateBasic \/ Parse \/ Trans \/ Copy

Spec == Init /\ [][Next]_vars

-------------------------------------------------------------------------------
(***************************************************************************)
(* Properties.                                                             *)
(***************************************************************************)

(* A constraint has been asked for as a model constraint exactly if its     *)
(* data say so, also in a sub-SCIP; those of SCIPcreateConsBasicOrbitope    *)
(* aside, which have the flags at the wrong positions from the start.       *)
StayModelConss ==
  \A k \in DOMAIN conss :
    ~conss[k].basic => conss[k].flags.ismodelcons = conss[k].asked.ismodelcons
===============================================================================
