------------------------------- MODULE MCPacking -------------------------------
(***************************************************************************)
(* Two instances of PackingPropagation in one run, both on every matrix of *)
(* bounds: the function for the whole matrix, and the one for submatrices  *)
(* (Sub), with variables of its own.  A behaviour is that of one of them.  *)
(***************************************************************************)
EXTENDS MCPackingPropagation

VARIABLES
  kind, qtype, qdom0, qdom, qpc, qi, qlast, qlastones, qfirstnz, qsteps, qk, qbeta,
  qinfeasible, qnfixed, qconflict

qvars == <<qtype, qdom0, qdom, qpc, qi, qlast, qlastones, qfirstnz, qsteps, qk, qbeta,
           qinfeasible, qnfixed, qconflict>>

Sub == INSTANCE MCPackingPropagation WITH
  Submatrix <- TRUE,
  type <- qtype, dom0 <- qdom0, dom <- qdom, pc <- qpc, i <- qi, last <- qlast,
  lastones <- qlastones, firstnz <- qfirstnz, steps <- qsteps, k <- qk, beta <- qbeta,
  infeasible <- qinfeasible, nfixed <- qnfixed, conflict <- qconflict

InitKind ==
  /\ kind \in {"whole", "sub"}
  /\ Init /\ Sub!Init

NextWhole == kind = "whole" /\ Next /\ UNCHANGED <<kind, qvars>>
NextSub   == kind = "sub" /\ Sub!Next /\ UNCHANGED <<kind, vars>>

SpecKind == InitKind /\ [][NextWhole \/ NextSub]_<<kind, vars, qvars>>

-------------------------------------------------------------------------------
(* The properties of the whole matrix keep their names.                     *)

(* Both functions compute OrbitopalFixing.Fixing.  In a submatrix, the      *)
(* points of the orbitope are kept up to the look-ahead, and throughout in  *)
(* a partitioning orbitope or if the rows are closed; the frontier stays in *)
(* the bar although the loop starts in row 0; and what is given to conflict *)
(* analysis is a reason within the submatrix.                               *)
ResultsRight ==
  /\ ComputesFixing
  /\ kind = "sub" =>
       Sub!ComputesFixing /\ Sub!SoundInSubmatrix /\ Sub!FrontierInBar /\ Sub!ConflictExplains
===============================================================================
