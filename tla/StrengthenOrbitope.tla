-------------------------- MODULE StrengthenOrbitope --------------------------
(***************************************************************************)
(* Strengthening of a full orbitope when its constraint is created:        *)
(* SCIPisPackingPartitioningOrbitope (symmetry.c) looks for the rows that  *)
(* lie in a set packing or partitioning constraint, and                    *)
(* strengthenOrbitopeConstraint (cons_orbitope.c) drops the other rows,    *)
(* if enough of them are left.                                             *)
(*                                                                         *)
(* The constraints come one after the other, and the variables of each,    *)
(* both in any order.  A variable counts for the row it lies in, or for    *)
(* Out if it is not in the matrix; which column it is from makes no        *)
(* difference to the scan, so that a constraint is the number of its       *)
(* variables in each place.  within and exact record what the constraints  *)
(* of the list are, whether or not the code looks at them.                 *)
(***************************************************************************)
EXTENDS Integers, FiniteSets, Sequences
LOCAL INSTANCE SequencesExt
LOCAL INSTANCE FiniteSetsExt

CONSTANTS
  NRows, NCols,
  NOutside,       (* how many variables there are outside of the matrix    *)
  MinRows         (* the number of rows for which dropping is worth it: 3  *)

Rows == 0 .. NRows - 1
Out == NRows
Places == Rows \cup {Out}
Room(q) == IF q = Out THEN NOutside ELSE NCols

(* Assumed of the constants, by the module that instantiates this one.      *)
SizeAssumption == {NRows, NCols} \subseteq Nat \ {0} /\ {NOutside, MinRows} \subseteq Nat

Size(n) == MapThenSumSet(LAMBDA q : n[q], Places)

NoVars  == [q \in Places |-> 0]
VarSets == {n \in [Places -> 0 .. Max({NCols, NOutside})] : \A q \in Places : n[q] <= Room(q)}
Conss   == [type : {"packing", "partitioning"}, n : VarSets \ {NoVars}]
NoCons  == [type |-> "none", n |-> NoVars]

VARIABLES
  pc,
  covered,        (* 2: the row is a partitioning constraint, 1: it lies in one of either kind *)
  ncovered, ncoveredpart,
  cons,           (* the constraint at hand                                *)
  todo,           (* the number of its variables that have not been read   *)
  left,           (* nvarsinorbitope                                       *)
  coverage,       (* rowcoveragesetppc                                     *)
  hit,            (* rowsinsetppc                                          *)
  mayinteract,
  rows,           (* the rows of the matrix, as they lie in vars           *)
  nrows,
  r,
  type,           (* the type of the orbitope                              *)
  within,         (* the rows that lie in a constraint of the list         *)
  exact           (* the rows that are a partitioning constraint of it     *)

scan == <<covered, ncovered, ncoveredpart>>
at   == <<cons, todo, left, coverage, hit>>
drop == <<mayinteract, rows, nrows, r, type>>
list == <<within, exact>>
vars == <<pc, scan, at, drop, list>>

-------------------------------------------------------------------------------
NoneCovered == [q \in Rows |-> 0]
AllRows == [k \in 1 .. NRows |-> k - 1]

Init ==
  /\ pc = "next"
  /\ covered = NoneCovered /\ ncovered = 0 /\ ncoveredpart = 0
  /\ cons = NoCons /\ todo = NoVars /\ left = 0 /\ coverage = NoneCovered /\ hit = {}
  /\ mayinteract = FALSE
  /\ rows = AllRows /\ nrows = NRows /\ r = NRows - 1 /\ type = "full"
  /\ within = {} /\ exact = {}

(* What the constraint b, of the list, contributes. *)
Listed(b) ==
  LET full == {q \in Rows : b.n[q] = NCols}
  IN  /\ within' = within \cup full
      /\ exact' = exact \cup {q \in full : b.type = "partitioning" /\ Size(b.n) = NCols}

(* The loop over the constraints ends early.                                *)
Enough == ncoveredpart >= NCols

(* The next packing or partitioning constraint; one with too few variables  *)
(* is passed over.                                                          *)
NextCons ==
  /\ pc = "next" /\ ~Enough
  /\ \E b \in Conss :
       IF Size(b.n) < NCols
         THEN UNCHANGED <<pc, at, list>>
         ELSE /\ cons' = b
              /\ todo' = b.n
              /\ left' = Size(b.n)
              /\ pc' = "read"
              /\ Listed(b)
              /\ UNCHANGED <<coverage, hit>>
  /\ UNCHANGED <<scan, drop>>

(* The loop over the constraints has ended early: the rest is not looked at. *)
UnreadCons ==
  /\ pc = "next" /\ Enough
  /\ \E b \in Conss : Listed(b)
  /\ UNCHANGED <<pc, scan, at, drop>>

(* A row that need not be looked at for the constraint at hand.             *)
Treated(q) ==
  \/ covered[q] = 2
  \/ covered[q] = 1 /\ (Size(cons.n) > NCols \/ Cardinality(hit) > 1)

(* Slip: one row too many counts as one that cannot be covered any more.    *)
HopelessEarly(n) == Size(cons.n) - n < NCols

(* With variables in n rows, too few are left to cover one of them.         *)
Hopeless(n) == Size(cons.n) - n < NCols - 1

(* The next variable of the constraint. *)
ReadVar ==
  /\ pc = "read" /\ left >= NCols
  /\ \E q \in Places :
       /\ todo[q] > 0
       /\ todo' = [todo EXCEPT ![q] = @ - 1]
       /\ IF q = Out \/ Treated(q)
            THEN left' = left - 1 /\ UNCHANGED <<pc, coverage, hit>>
            ELSE /\ hit' = hit \cup {q}
                 /\ coverage' = [coverage EXCEPT ![q] = @ + 1]
                 /\ pc' = IF Hopeless(Cardinality(hit')) THEN "store" ELSE "read"
                 /\ left' = left
  /\ UNCHANGED <<cons, scan, drop, list>>

EndRead ==
  /\ pc = "read" /\ (todo = NoVars \/ left < NCols)
  /\ pc' = "store"
  /\ UNCHANGED <<scan, at, drop, list>>

(* What the constraint covers is recorded. *)
StoreCoverage ==
  /\ pc = "store"
  /\ IF /\ cons.type = "partitioning" /\ Size(cons.n) = NCols
        /\ Cardinality(hit) = 1 /\ \A q \in hit : coverage[q] = NCols
       THEN /\ covered' = [q \in Rows |-> IF q \in hit THEN 2 ELSE covered[q]]
            /\ ncoveredpart' = ncoveredpart + 1
            /\ ncovered' = ncovered + Cardinality({q \in hit : covered[q] # 1})
       ELSE LET new == {q \in hit : covered[q] = 0 /\ coverage[q] >= NCols}
            IN  /\ covered' = [q \in Rows |-> IF q \in new THEN 1 ELSE covered[q]]
                /\ ncovered' = ncovered + Cardinality(new)
                /\ ncoveredpart' = ncoveredpart
  /\ cons' = NoCons /\ todo' = NoVars /\ left' = 0 /\ coverage' = NoneCovered /\ hit' = {}
  /\ pc' = "next"
  /\ UNCHANGED <<drop, list>>

(* The list of constraints has ended, and with it the scan.  mayinteract    *)
(* comes from the caller, and is read here.                                 *)
EndScan ==
  /\ pc = "next"
  /\ mayinteract' \in BOOLEAN
  /\ LET found == IF ncovered # NRows THEN "full"
                  ELSE IF ncoveredpart = NRows THEN "partitioning" ELSE "packing"
         drops == ncovered >= MinRows /\ ~mayinteract'
     IN  /\ type' = IF drops THEN "packing" ELSE found
         /\ pc' = IF drops THEN "drop" ELSE "done"
  /\ UNCHANGED <<scan, at, rows, nrows, r, list>>

(* Row r is looked at, from the last to the first; when it is dropped, the  *)
(* rows behind it move up.                                                  *)
DropRow ==
  /\ pc = "drop" /\ r >= 0
  /\ IF covered[r] = 0
       THEN /\ rows' = RemoveAt(rows, r + 1)
            /\ nrows' = nrows - 1
       ELSE UNCHANGED <<rows, nrows>>
  /\ r' = r - 1
  /\ pc' = IF r' < 0 THEN "done" ELSE "drop"
  /\ UNCHANGED <<scan, at, mayinteract, type, list>>

(* The constraint is created, and the next one may come.                    *)
Created ==
  /\ pc = "done"
  /\ pc' = "next"
  /\ covered' = NoneCovered /\ ncovered' = 0 /\ ncoveredpart' = 0
  /\ mayinteract' = FALSE
  /\ rows' = AllRows /\ nrows' = NRows /\ r' = NRows - 1 /\ type' = "full"
  /\ within' = {} /\ exact' = {}
  /\ UNCHANGED at

Next ==
  \/ NextCons \/ UnreadCons \/ ReadVar \/ EndRead \/ StoreCoverage \/ EndScan
  \/ DropRow \/ Created

Spec == Init /\ [][Next]_vars

-------------------------------------------------------------------------------
(***************************************************************************)
(* Properties.                                                             *)
(***************************************************************************)

(* The variables have the values their declarations in the code allow.      *)
TypeOK ==
  /\ pc \in {"next", "read", "store", "drop", "done"}
  /\ covered \in [Rows -> 0 .. 2] /\ coverage \in [Rows -> 0 .. NCols]
  /\ ncovered \in 0 .. NRows /\ ncoveredpart \in 0 .. NRows
  /\ cons \in Conss \cup {NoCons} /\ \A q \in Places : todo[q] \in 0 .. cons.n[q]
  /\ hit \subseteq Rows /\ left \in 0 .. Size(cons.n)
  /\ mayinteract \in BOOLEAN
  /\ rows \in Seq(Rows) /\ Len(rows) = nrows /\ nrows \in 0 .. NRows /\ r \in -1 .. NRows - 1
  /\ type \in {"full", "packing", "partitioning"}
  /\ within \subseteq Rows /\ exact \subseteq within

(* The rows of a strengthened orbitope lie in constraints of that kind, in   *)
(* the order of the caller's matrix; an orbitope that shares its variables  *)
(* with other symmetries keeps all its rows where they are.                 *)
StrengthenedSoundly ==
  pc = "done" =>
    /\ type = "packing" => \A k \in 1 .. nrows : rows[k] \in within
    /\ type = "partitioning" => \A k \in 1 .. nrows : rows[k] \in exact
    /\ \A g, h \in 1 .. nrows : g < h => rows[g] < rows[h]
    /\ mayinteract \/ type # "packing" => nrows = NRows

(* The counters agree with what is recorded: ncovered = NRows, on which the *)
(* type depends, means that every row is covered.                           *)
CountsMatch ==
  /\ ncovered = Cardinality({q \in Rows : covered[q] > 0})
  /\ ncoveredpart = Cardinality({q \in Rows : covered[q] = 2})

(* Every row that lies in a constraint is found.                            *)
AllRowsFound ==
  pc \in {"drop", "done"} => {q \in Rows : covered[q] > 0} = within
===============================================================================
