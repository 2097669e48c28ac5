------------------------- MODULE MCPackingPropagation -------------------------
(***************************************************************************)
(* Instances of PackingPropagation for TLC: every matrix of bounds of a    *)
(* given size, the ones in a row restricted to what fits the time.         *)
(***************************************************************************)
EXTENDS PackingPropagation

AllMatrices == Bounds

(* A one in a row has fixed the other entries of the row to zero. *)
ClosedRows ==
  {r \in [Cols -> Dom] : \A b, c \in Cols : r[b] = "one" /\ b # c => r[c] = "zero"}
ClosedMatrices == [Rows -> ClosedRows]

BothTypes == {"packing", "partitioning"}

Big == INSTANCE OrbitopalFixing

Flat(d) == [e \in Rows \X Cols |-> d[e[1]][e[2]]]

(* The steps of the two functions compute the function OrbitopalFixing.     *)
(* Fixing, in which the rows are folded and nothing is kept but the bounds, *)
(* the verdict and the count: the interleaving of fixings with the reading  *)
(* of rows and the order of the look-ahead make no other difference.        *)
ComputesFixing ==
  pc = "done" /\ DOMAIN lastones # {} =>
    Big!Fixing(Flat(dom0), type, Submatrix)
      = [dom |-> Flat(dom), infeasible |-> infeasible, nfixed |-> nfixed]
===============================================================================
