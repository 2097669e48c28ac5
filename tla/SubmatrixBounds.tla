--------------------------- MODULE SubmatrixBounds ----------------------------
(***************************************************************************)
(* The bounds d of a matrix, a function of its entries <<row, column>>, as *)
(* the propagations see them through an order of rows and columns: the     *)
(* arrays rows and cols of a submatrix s, or the row order of an orbitope. *)
(* The rows and columns of the copy are counted from 0.                    *)
(***************************************************************************)
EXTENDS Integers, Sequences

(* The entries of the copy, and those of the matrix that it is made of.     *)
Copy(s)    == (0 .. Len(s.rows) - 1) \X (0 .. Len(s.cols) - 1)
Covered(s) == {s.rows[g] : g \in DOMAIN s.rows} \X {s.cols[h] : h \in DOMAIN s.cols}

SubBounds(d, s) == [e \in Copy(s) |-> d[<<s.rows[e[1] + 1], s.cols[e[2] + 1]>>]]

(* The place in the submatrix s of an entry of the matrix. *)
Place(s, e) ==
  CHOOSE f \in Copy(s) : e = <<s.rows[f[1] + 1], s.cols[f[2] + 1]>>

(* The bounds d after those of the submatrix s have become b. *)
WriteBack(d, s, b) ==
  LET C == Covered(s)
  IN  [e \in DOMAIN d |-> IF e \in C THEN b[Place(s, e)] ELSE d[e]]
===============================================================================
