-------------------------- MODULE ConflictResolution ---------------------------
(***************************************************************************)
(* The reasons an orbitope constraint gives for its fixings                *)
(* (cons_orbitope.c, resolvePropagation).                                  *)
(*                                                                         *)
(* Orbitopal fixing of the whole matrix notes with every fixing one entry  *)
(* of the matrix, the leader of a bar (inferinfo).  When conflict analysis *)
(* asks for the reason of a fixing, the code is told the leader, but not   *)
(* the variable; it computes the table of shifted columns from the bounds  *)
(* in force just before the fixing, and walks along the least shifted      *)
(* column in front of the bar.                                             *)
(***************************************************************************)
EXTENDS ShiftedColumns, Sequences, TLC

F == INSTANCE OrbitopalFixing

CONSTANTS
  NRows,     (* nspcons                                                    *)
  NCols,     (* nblocks                                                    *)
  Types,     (* the types of orbitope                                      *)
  Matrices   (* the bounds at a node, the triangle being fixed             *)

Entries == (0 .. NRows - 1) \X (0 .. NCols - 1)
Bounds  == [Entries -> {"free", "zero", "one"}]

(* Assumed of the constants, by the module that instantiates this one.      *)
SizeAssumption == NRows \in Nat \ {0} /\ NCols \in Nat \ {0}
TypeAssumption == Types \subseteq {"packing", "partitioning"}
MatrixAssumption ==
  \A d \in Matrices : d \in Bounds /\ \A e \in Entries \ Lower(d) : d[e] = "zero"

VARIABLES
  type,      (* orbitopetype                                               *)
  s,         (* the state of orbitopal fixing: see OrbitopalFixing         *)
  row,       (* the row, and then the frontier step, it has come to        *)
  trail,     (* the fixings: entry, value, leader, and the bounds before   *)
  pc,        (* "rows", "steps", "fixed", "walk", "bar" or "done"          *)
  bdchg,     (* the fixing to be resolved, one of the trail                *)
  table,     (* weights and cases                                          *)
  p,         (* the entry the walk has come to                             *)
  reason,    (* the bounds given to conflict analysis                      *)
  result

vars == <<type, s, row, trail, pc, bdchg, table, p, reason, result>>

-------------------------------------------------------------------------------
(***************************************************************************)
(* Orbitopal fixing.                                                       *)
(***************************************************************************)
NoFixing == [entry |-> <<0, 0>>, value |-> "free", leader |-> <<0, 0>>, before |-> <<>>]

Init ==
  /\ type \in Types
  /\ \E d \in Matrices :
       s = [dom |-> d, infeasible |-> FALSE, nfixed |-> 0, stop |-> FALSE,
            last |-> F!CornerOf(d, type),
            lastones |-> [r \in 0 .. NRows - 1 |-> F!CornerOf(d, type)],
            firstnz |-> [r \in 0 .. NRows - 1 |-> -1], steps |-> <<>>]
  /\ row = 1 /\ trail = {} /\ pc = "rows"
  /\ bdchg = NoFixing /\ table = <<>> /\ p = <<0, 0>>
  /\ reason = {} /\ result = "none"

(* Slip: the correction for a frontier that does not move is forgotten.     *)
LeaderOfBarUncorrected(d, r, last) == <<r, F!Move(d, r, last) + 1>>

(* The leader noted with the fixings of row r; the frontier above it is in  *)
(* column last.                                                             *)
LeaderOfBar(d, r, last) ==
  <<r, F!Move(d, r, last) + 1 + (IF F!Stuck(d, r, last) THEN 1 ELSE 0)>>

(* The entries that row r fixes to zero, one after the other.               *)
FixedInRow(r) ==
  LET beyond == {<<r, c>> : c \in F!Move(s.dom, r, s.last) + 1 .. F!BarEnd(s.dom, r)}
  IN  F!UpToOne(s.dom, beyond)

Row ==
  /\ pc = "rows" /\ row < NRows /\ ~s.stop
  /\ s' = F!RowStep(s, type, FALSE, row)
  /\ trail' = trail \cup
       {[entry |-> e, value |-> "zero", leader |-> LeaderOfBar(s.dom, row, s.last),
         before |-> F!FixIn(s.dom, {g \in FixedInRow(row) : g[2] < e[2]}, "zero")] :
          e \in IF s'.dom = s.dom THEN {} ELSE FixedInRow(row)}
  /\ row' = row + 1
  /\ UNCHANGED <<type, pc, bdchg, table, p, reason, result>>

EndRows ==
  /\ pc = "rows" /\ (s.stop \/ row = NRows)
  /\ pc' = IF s.stop THEN "fixed" ELSE "steps"
  /\ row' = 1
  /\ UNCHANGED <<type, s, trail, bdchg, table, p, reason, result>>

(* The first non-zero for which there is no room unless step k is taken.    *)
LeaderOfStep(k) ==
  LET q == CHOOSE h \in F!NoRoom(s, s.steps[k]) : \A g \in F!NoRoom(s, s.steps[k]) : h <= g
  IN  <<q, s.firstnz[q]>>

LookAhead ==
  /\ pc = "steps" /\ row <= Len(s.steps)
  /\ s' = F!LookAhead(s, FALSE, row)
  /\ trail' = IF s'.dom = s.dom THEN trail
              ELSE trail \cup {[entry |-> <<s.steps[row], s.lastones[s.steps[row]]>>,
                                value |-> "one", leader |-> LeaderOfStep(row),
                                before |-> s.dom]}
  /\ row' = row + 1
  /\ UNCHANGED <<type, pc, bdchg, table, p, reason, result>>

EndSteps ==
  /\ pc = "steps" /\ row > Len(s.steps)
  /\ pc' = "fixed"
  /\ UNCHANGED <<type, s, row, trail, bdchg, table, p, reason, result>>

-------------------------------------------------------------------------------
(***************************************************************************)
(* Resolution.                                                             *)
(***************************************************************************)

Vals(d) ==
  [e \in Entries |-> IF d[e] = "zero" THEN 0 ELSE IF d[e] = "one" THEN 2 ELSE 1]

(* resolveprop; a one whose shifted column does not weigh 1 is given up.    *)
Resolve ==
  /\ pc = "fixed"
  /\ bdchg' \in trail
  /\ table' = SCTable(Vals(bdchg'.before))
  /\ p' = <<bdchg'.leader[1] - 1, bdchg'.leader[2] - 1>>
  /\ pc' = IF bdchg'.value = "one" /\ table'[p'].weight # 1 THEN "done" ELSE "walk"
  /\ result' = "didnotfind"
  /\ UNCHANGED <<type, s, row, trail, reason>>

Zero(e) == bdchg.before[e] = "zero"

(* Case 1: the walk goes to the entry up left. *)
WalkLeft ==
  /\ pc = "walk" /\ table[p].case = 1
  /\ p' = <<p[1] - 1, p[2] - 1>>
  /\ UNCHANGED <<type, s, row, trail, pc, bdchg, table, reason, result>>

(* A zero of the shifted column is part of the reason; of a fixing to zero  *)
(* every entry is.                                                          *)
Take ==
  /\ reason' = IF bdchg.value = "zero" \/ Zero(p) THEN reason \cup {<<p, "zero">>} ELSE reason
  /\ result' = IF bdchg.value = "zero" \/ Zero(p) THEN "success" ELSE result

(* Case 2: the entry is taken and the walk goes to the one above. *)
WalkUp ==
  /\ pc = "walk" /\ table[p].case = 2
  /\ Take
  /\ p' = <<p[1] - 1, p[2]>>
  /\ UNCHANGED <<type, s, row, trail, pc, bdchg, table>>

(* Case 3: the diagonal is reached. *)
WalkEnd ==
  /\ pc = "walk" /\ table[p].case = 3
  /\ Take
  /\ pc' = IF bdchg.value = "one" THEN "bar" ELSE "done"
  /\ UNCHANGED <<type, s, row, trail, bdchg, table, p>>

(* Slip: the entries in front of the bar are not part of the reason. *)
BarReasonPacking ==
  LET i == bdchg.leader[1]
      j == bdchg.leader[2]
      ones == {c \in j .. F!BarEnd(bdchg.before, i) : bdchg.before[i, c] = "one"}
  IN  {<<<<i, c>>, "one">> : c \in {b \in ones : \A g \in ones : b <= g}}

(* The bounds of the row of the bar that make it one. *)
BarReason ==
  LET i == bdchg.leader[1]
      j == bdchg.leader[2]
      ones == {c \in j .. F!BarEnd(bdchg.before, i) : bdchg.before[i, c] = "one"}
  IN  IF type = "partitioning"
        THEN {<<<<i, c>>, "zero">> : c \in 0 .. j - 1}
        ELSE {<<<<i, c>>, "one">> : c \in {b \in ones : \A g \in ones : b <= g}}

TakeBar ==
  /\ pc = "bar"
  /\ reason' = reason \cup BarReason
  /\ result' = IF BarReason = {} THEN result ELSE "success"
  /\ pc' = "done"
  /\ UNCHANGED <<type, s, row, trail, bdchg, table, p>>

Next ==
  \/ Row \/ EndRows \/ LookAhead \/ EndSteps
  \/ Resolve \/ WalkLeft \/ WalkUp \/ WalkEnd \/ TakeBar

Spec == Init /\ [][Next]_vars

-------------------------------------------------------------------------------
(***************************************************************************)
(* Properties.                                                             *)
(***************************************************************************)

(* The walk stays in the table: the assertions of its loop.                 *)
TypeOK ==
  /\ type \in Types /\ pc \in {"rows", "steps", "fixed", "walk", "bar", "done"}
  /\ s.dom \in Bounds /\ row \in 1 .. NRows + 1
  /\ pc = "walk" => /\ p \in Lower(s.dom)
                    /\ p[1] < bdchg.leader[1] /\ p[2] < bdchg.leader[2]
  /\ result \in {"none", "didnotfind", "success"}

(* The bounds of a reason were in force before the fixing. *)
ReasonInForce == \A b \in reason : bdchg.before[b[1]] = b[2]

(* A fixing is never left without a reason, unless the node was infeasible  *)
(* from the start: row 0 of a partitioning orbitope without a one.          *)
AlwaysResolved ==
  pc = "done" /\ result = "didnotfind" => type = "partitioning" /\ Zero(<<0, 0>>)

(* The 0/1 matrices of a type whose columns are sorted, the greatest first; *)
(* g tells the column of the one in every row, or NCols for none.           *)
NotLess(g, c) ==
  \A r \in DOMAIN g : g[r] = c + 1 => \E q \in 0 .. r - 1 : g[q] = c

Orbitopes ==
  [t \in Types |->
     LET ColumnsOf == IF t = "packing" THEN 0 .. NCols ELSE 0 .. NCols - 1
         Placed == {g \in [0 .. NRows - 1 -> ColumnsOf] :
                      \A c \in 0 .. NCols - 2 : NotLess(g, c)}
     IN  {[e \in Entries |-> IF g[e[1]] = e[2] THEN 1 ELSE 0] : g \in Placed}]

Value(v) == IF v = "one" THEN 1 ELSE 0

(* The shifted columns that end d rows below the diagonal in column k.      *)
RECURSIVE Columns(_, _)
Columns(d, k) ==
  IF d < 0 THEN {{}}
  ELSE UNION {{C \cup {<<d + b, b>>} : C \in Columns(d - 1, b)} : b \in 0 .. k}

(* The table holds the least weights.                                       *)
TableLeast ==
  pc = "walk" =>
    \A e \in DOMAIN table :
      \A C \in Columns(e[1] - e[2], e[2]) :
        C \subseteq Entries => table[e].weight <= Sum(Vals(bdchg.before), C)

(* The fixing follows from its reason: no sorted matrix within the bounds   *)
(* of the reason has the other value there.  Otherwise conflict analysis    *)
(* learns a constraint that cuts off solutions.  It holds for fixings to    *)
(* zero, and for those to one as long as the column that the walk follows   *)
(* is the one with the fixed variable.                                      *)
ReasonImplies ==
  pc = "done" /\ result = "success" =>
    \A x \in Orbitopes[type] :
      (\A b \in reason : x[b[1]] = Value(b[2])) => x[bdchg.entry] = Value(bdchg.value)

(* Only one shifted column in front of the bar can have forced the fixing.  *)
OneColumnForces ==
  pc = "done" /\ bdchg.value = "one" =>
    LET q == <<bdchg.leader[1] - 1, bdchg.leader[2] - 1>>
    IN  Cardinality({C \in Columns(q[1] - q[2], q[2]) :
                       C \subseteq Entries /\ Sum(Vals(bdchg.before), C) = 1}) <= 1
================================================================================
