--------------------------- MODULE AscendingOrder ----------------------------
(***************************************************************************)
(* The members of a finite set of numbers in ascending order, as a loop    *)
(* over the rows or columns of a matrix collects them, or as SCIPsortInt   *)
(* leaves them.  The definition is by rank, and not by the sort of the     *)
(* community modules, because the provers can work with it.                *)
(***************************************************************************)
EXTENDS Integers, FiniteSets, Sequences, Functions

(* How many members of S are smaller than x. *)
Rank(x, S) == Cardinality({y \in S : y < x})

Ascending(S) == [k \in 1 .. Cardinality(S) |-> CHOOSE x \in S : Rank(x, S) = k - 1]
==============================================================================
