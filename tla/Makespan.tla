------------------------------- MODULE Makespan -------------------------------
(***************************************************************************)
(* The makespan activation handler (activation_makespan.c), its callback   *)
(* findSubSymmetries.                                                      *)
(*                                                                         *)
(* The rows of the matrix are jobs, its columns machines.  Row by row, the *)
(* handler keeps the makespan of every machine whose entries are all fixed *)
(* so far, and counts in a hash map how many machines have each makespan.  *)
(* When a machine reaches a makespan that another machine has, the two are *)
(* interchangeable for the jobs that remain: the makespan goes into the    *)
(* set newsym, and the submatrix of these machines is put on the list when *)
(* the next row is processed, or later, as long as its first row is fixed  *)
(* to zero.                                                                *)
(*                                                                         *)
(* The two hash maps belong to the constraint and outlive the call, so the *)
(* module describes a sequence of calls at different nodes.                *)
(***************************************************************************)
EXTENDS Integers, FiniteSets

CONSTANTS
  NJobs,       (* number of rows                                          *)
  NMachines,   (* number of columns                                       *)
  JobTimes,    (* the processing time of each job                         *)
  Rows,        (* the bounds one row of the matrix may have at a node     *)
  INT_MAX,     (* the largest int: the image of a key that is absent      *)
  Load(_, _)   (* Load(c, k): total time of the first k jobs that are     *)
               (* fixed to one in the column c                            *)

Jobs     == 0 .. NJobs - 1
Machines == 0 .. NMachines - 1

(* The local bounds of a binary variable: lb = 0 /\ ub = 1, ub < 0.5, lb > 0.5 *)
Dom == {"free", "zero", "one"}

(* The sizes are C ints. *)
ASSUME SizeAssumption ==
  NJobs \in Nat \ {0} /\ NMachines \in Nat \ {0} /\ INT_MAX \in Nat
  /\ NMachines < INT_MAX

(* The processing times are natural numbers (weights of knapsack items). *)
ASSUME TimeAssumption == JobTimes \in [Jobs -> Nat]

ASSUME RowAssumption == Rows \subseteq [Machines -> Dom] /\ Rows # {}

(* Load is the prefix sum over a column. *)
ASSUME LoadAssumption ==
  \A c \in [Jobs -> Dom] :
    /\ Load(c, 0) = 0
    /\ \A k \in Jobs :
         Load(c, k + 1) = Load(c, k) + (IF c[k] = "one" THEN JobTimes[k] ELSE 0)

VARIABLES
  dom,        (* local bounds of the matrix at the current node           *)
  pc,         (* where findSubSymmetries is                               *)
  j,          (* the row being processed                                  *)
  m,          (* the machine being processed in row j                     *)
  fixed,      (* fixedmakespan                                            *)
  undet,      (* allundetermined                                          *)
  makespans,  (* hash map: makespan |-> number of machines that have it   *)
  newsym,     (* hash map used as a set: makespans with a new sub-symmetry*)
  todo,       (* entries of newsym the loop over its slots has yet to see *)
  reinsert,   (* reinsertmakespans[0 .. reinsertmakespanshead - 1]        *)
  found       (* the list of submatrices                                  *)

vars == <<dom, pc, j, m, fixed, undet, makespans, newsym, todo, reinsert, found>>

-------------------------------------------------------------------------------
(***************************************************************************)
(* The operations of SCIP's hash map (misc.c) that the handler uses.       *)
(***************************************************************************)

Empty == [x \in {} |-> 0]

GetImageInt(map, key) == IF key \in DOMAIN map THEN map[key] ELSE INT_MAX

SetImageInt(map, key, image) ==
  [x \in DOMAIN map \cup {key} |-> IF x = key THEN image ELSE map[x]]

(* A key that exists is left alone; the callers ignore the return code. *)
InsertInt(map, key, image) ==
  IF key \in DOMAIN map THEN map ELSE SetImageInt(map, key, image)

RemoveKey(map, key) == [x \in DOMAIN map \ {key} |-> map[x]]

-------------------------------------------------------------------------------
NoMakespan == -1    (* fixedmakespan of a machine with an unfixed entry *)

(* Between two calls the bounds are of no interest: one value stands for all. *)
SomeNode == [k \in Jobs |-> CHOOSE r \in Rows : TRUE]

Init ==
  /\ dom = SomeNode
  /\ pc = "idle"
  /\ j = 0 /\ m = 0
  /\ fixed = [i \in Machines |-> 0]
  /\ undet = FALSE
  /\ makespans = Empty
  /\ newsym = {}
  /\ todo = {}
  /\ reinsert = {}
  /\ found = {}

(* The propagator calls the handler at a node with bounds d. *)
Call ==
  /\ pc = "idle"
  /\ dom' \in [Jobs -> Rows]
  /\ found' = {}
  /\ fixed' = [i \in Machines |-> 0]
  /\ reinsert' = {}
  /\ makespans' = InsertInt(makespans, 0, NMachines)
  /\ j' = 0
  /\ pc' = "row"
  /\ UNCHANGED <<m, undet, newsym, todo>>

(* Row j: the sub-symmetries found in the previous row come first ... *)
StartNewsym ==
  /\ pc = "row" /\ j < NJobs
  /\ newsym # {}
  /\ pc' = "newsym"
  /\ todo' = newsym
  /\ UNCHANGED <<dom, j, m, fixed, undet, makespans, newsym, reinsert, found>>

(* ... and then the machines. *)
StartMachines ==
  /\ pc' = "machines"
  /\ m' = 0
  /\ undet' = TRUE

SkipNewsym ==
  /\ pc = "row" /\ j < NJobs
  /\ newsym = {}
  /\ StartMachines
  /\ UNCHANGED <<dom, j, fixed, makespans, newsym, todo, reinsert, found>>

(* The columns of the submatrix of makespan v: the first ncols machines.   *)
Columns(v) ==
  {i \in Machines :
     /\ fixed[i] = v
     /\ Cardinality({h \in 0 .. i - 1 : fixed[h] = v}) < GetImageInt(makespans, v)}

FirstRowZero(v) == \A i \in Columns(v) : dom[j][i] = "zero"

(* The submatrix of v is deferred to the next row. *)
Defer ==
  /\ pc = "newsym"
  /\ \E v \in todo :
       /\ FirstRowZero(v)
       /\ reinsert' = reinsert \cup {v}
       /\ todo' = todo \ {v}
  /\ UNCHANGED <<dom, pc, j, m, fixed, undet, makespans, newsym, found>>

(* The submatrix of v, with the rows from j to the last, goes on the list. *)
Record ==
  /\ pc = "newsym"
  /\ \E v \in todo :
       /\ ~FirstRowZero(v)
       /\ found' = found \cup {[start |-> j, cols |-> Columns(v),
                                ncols |-> GetImageInt(makespans, v)]}
       /\ todo' = todo \ {v}
  /\ UNCHANGED <<dom, pc, j, m, fixed, undet, makespans, newsym, reinsert>>

(* Slip: the deferred entries are not put back. *)
EndNewsymDropsDeferred ==
  /\ pc = "newsym"
  /\ todo = {}
  /\ newsym' = {}
  /\ reinsert' = {}
  /\ StartMachines
  /\ UNCHANGED <<dom, j, fixed, makespans, todo, found>>

(* All entries are processed: the deferred ones are put back. *)
EndNewsym ==
  /\ pc = "newsym"
  /\ todo = {}
  /\ newsym' = reinsert
  /\ reinsert' = {}
  /\ StartMachines
  /\ UNCHANGED <<dom, j, fixed, makespans, todo, found>>

(* A machine whose makespan is undetermined stays undetermined. *)
Undetermined ==
  /\ pc = "machines" /\ m < NMachines
  /\ fixed[m] = NoMakespan
  /\ m' = m + 1
  /\ UNCHANGED <<dom, pc, j, fixed, undet, makespans, newsym, todo, reinsert, found>>

(* Slip: an entry whose count falls to zero is kept. *)
DecreaseKeepsZero(map, v) ==
  LET count == GetImageInt(map, v) - 1
  IN  IF count < 0 THEN RemoveKey(map, v) ELSE SetImageInt(map, v, count)

(* One machine fewer has makespan v. *)
Decrease(map, v) ==
  LET count == GetImageInt(map, v) - 1
  IN  IF count <= 0 THEN RemoveKey(map, v) ELSE SetImageInt(map, v, count)

(* Slip: a makespan is marked although no other machine has it. *)
FixedToOneMarksAll ==
  /\ pc = "machines" /\ m < NMachines
  /\ fixed[m] # NoMakespan
  /\ dom[j][m] = "one"
  /\ LET left == Decrease(makespans, fixed[m])
         new  == fixed[m] + JobTimes[j]
         old  == IF new \in DOMAIN left THEN left[new] ELSE 0
     IN  /\ fixed' = [fixed EXCEPT ![m] = new]
         /\ makespans' = SetImageInt(left, new, old + 1)
         /\ newsym' = newsym \cup {new}
  /\ undet' = FALSE
  /\ m' = m + 1
  /\ UNCHANGED <<dom, pc, j, todo, reinsert, found>>

(* Machine m runs job j: it moves to a larger makespan. *)
FixedToOne ==
  /\ pc = "machines" /\ m < NMachines
  /\ fixed[m] # NoMakespan
  /\ dom[j][m] = "one"
  /\ LET left == Decrease(makespans, fixed[m])
         new  == fixed[m] + JobTimes[j]
     IN  /\ fixed' = [fixed EXCEPT ![m] = new]
         /\ IF GetImageInt(left, new) = INT_MAX
              THEN /\ makespans' = InsertInt(left, new, 1)
                   /\ UNCHANGED newsym
              ELSE /\ makespans' = SetImageInt(left, new, left[new] + 1)
                   /\ newsym' = newsym \cup {new}
  /\ undet' = FALSE
  /\ m' = m + 1
  /\ UNCHANGED <<dom, pc, j, todo, reinsert, found>>

(* Machine m does not run job j: its makespan stays. *)
FixedToZero ==
  /\ pc = "machines" /\ m < NMachines
  /\ fixed[m] # NoMakespan
  /\ dom[j][m] = "zero"
  /\ undet' = FALSE
  /\ m' = m + 1
  /\ UNCHANGED <<dom, pc, j, fixed, makespans, newsym, todo, reinsert, found>>

(* Slip: the machine is still counted at its old makespan. *)
UnfixedStillCounted ==
  /\ pc = "machines" /\ m < NMachines
  /\ fixed[m] # NoMakespan
  /\ dom[j][m] = "free"
  /\ fixed' = [fixed EXCEPT ![m] = NoMakespan]
  /\ undet' = FALSE
  /\ m' = m + 1
  /\ UNCHANGED <<dom, pc, j, makespans, newsym, todo, reinsert, found>>

(* It is open whether machine m runs job j. *)
Unfixed ==
  /\ pc = "machines" /\ m < NMachines
  /\ fixed[m] # NoMakespan
  /\ dom[j][m] = "free"
  /\ makespans' = Decrease(makespans, fixed[m])
  /\ fixed' = [fixed EXCEPT ![m] = NoMakespan]
  /\ undet' = FALSE
  /\ m' = m + 1
  /\ UNCHANGED <<dom, pc, j, newsym, todo, reinsert, found>>

(* The end of a row; the loop stops early when every machine is undetermined. *)
EndRow ==
  /\ pc = "machines" /\ m = NMachines
  /\ IF undet THEN pc' = "clear" /\ j' = j
              ELSE pc' = "row" /\ j' = j + 1
  /\ UNCHANGED <<dom, m, fixed, undet, makespans, newsym, todo, reinsert, found>>

(* Slip: only one of the two hash maps is emptied. *)
ReturnKeepsNewsym ==
  /\ pc = "clear" \/ (pc = "row" /\ j = NJobs)
  /\ makespans' = Empty
  /\ pc' = "returned"
  /\ UNCHANGED <<dom, j, m, fixed, undet, newsym, todo, reinsert, found>>

(* The loop is over: the hash maps are emptied for the next call. *)
Return ==
  /\ pc = "clear" \/ (pc = "row" /\ j = NJobs)
  /\ makespans' = Empty
  /\ newsym' = {}
  /\ pc' = "returned"
  /\ UNCHANGED <<dom, j, m, fixed, undet, todo, reinsert, found>>

(* The propagator frees the list and the solver leaves the node; the locals *)
(* of the call are gone.                                                    *)
Consume ==
  /\ pc = "returned"
  /\ pc' = "idle"
  /\ found' = {}
  /\ dom' = SomeNode
  /\ j' = 0 /\ m' = 0 /\ undet' = FALSE
  /\ fixed' = [i \in Machines |-> 0]
  /\ UNCHANGED <<makespans, newsym, todo, reinsert>>

Next ==
  \/ Call \/ StartNewsym \/ SkipNewsym \/ Defer \/ Record \/ EndNewsym
  \/ Undetermined \/ FixedToOne \/ FixedToZero \/ Unfixed
  \/ EndRow \/ Return \/ Consume

Spec == Init /\ [][Next]_vars

-------------------------------------------------------------------------------
(***************************************************************************)
(* Properties.                                                             *)
(***************************************************************************)

Active == pc \in {"row", "newsym", "machines", "clear"}

Column(i) == [k \in Jobs |-> dom[k][i]]

(* How many rows machine i has been through. *)
Seen(i) == IF pc = "clear" \/ (pc = "machines" /\ i < m) THEN j + 1 ELSE j

Submatrix == [start : Jobs, cols : SUBSET Machines, ncols : 1 .. NMachines]

(* The variables have the values their declarations in the code allow. *)
TypeOK ==
  /\ dom \in [Jobs -> Rows]
  /\ pc \in {"idle", "row", "newsym", "machines", "clear", "returned"}
  /\ j \in 0 .. NJobs /\ m \in 0 .. NMachines
  /\ fixed \in [Machines -> Nat \cup {NoMakespan}]
  /\ undet \in BOOLEAN
  /\ DOMAIN makespans \subseteq Nat
  /\ newsym \subseteq Nat /\ todo \subseteq newsym /\ reinsert \subseteq newsym
  /\ found \subseteq Submatrix

(* While the call runs, a machine has a makespan exactly when all of its    *)
(* entries up to here are fixed, and it is the sum of their processing      *)
(* times: what the comment on fixedmakespan says.                           *)
FixedIsLoad ==
  Active =>
    \A i \in Machines :
      /\ fixed[i] = NoMakespan <=> \E k \in 0 .. Seen(i) - 1 : dom[k][i] = "free"
      /\ fixed[i] # NoMakespan => fixed[i] = Load(Column(i), Seen(i))

(* The hash map counts the machines of each makespan, whatever the order in *)
(* which machines arrive at and leave a makespan within a row: the image is *)
(* used as the length of the array of columns of a submatrix.               *)
CountsMatch ==
  Active =>
    /\ DOMAIN makespans = {fixed[i] : i \in Machines} \ {NoMakespan}
    /\ \A v \in DOMAIN makespans :
         makespans[v] = Cardinality({i \in Machines : fixed[i] = v})

(* The hash maps outlive the call: they are empty when the next one starts. *)
CleanBetweenCalls ==
  ~Active => makespans = Empty /\ newsym = {} /\ todo = {} /\ reinsert = {}

(* s is a sub-symmetry under the bounds d: above its first row its columns  *)
(* are fixed, and to columns of equal makespan. Swapping two of them below  *)
(* maps solutions of the node to solutions of the node.                     *)
SubSymmetric(d, s) ==
  /\ s.cols # {}
  /\ s.ncols = Cardinality(s.cols)
  /\ \A i \in s.cols : \A k \in 0 .. s.start - 1 : d[k][i] # "free"
  /\ \A i, h \in s.cols :
       Load([k \in Jobs |-> d[k][i]], s.start) = Load([k \in Jobs |-> d[k][h]], s.start)

(* Every submatrix handed to the propagator is a sub-symmetry at this node. *)
FoundIsSymmetric == \A s \in found : SubSymmetric(dom, s)

(* The pairs of machines that are interchangeable from row t on although    *)
(* they differ above it, so that the symmetry of the whole matrix no longer *)
(* relates them, and that row t can tell apart.                             *)
Interchangeable(i, h, t) ==
  /\ \A k \in 0 .. t - 1 : dom[k][i] # "free" /\ dom[k][h] # "free"
  /\ \E k \in 0 .. t - 1 : dom[k][i] # dom[k][h]
  /\ Load(Column(i), t) = Load(Column(h), t)
  /\ dom[t][i] # "zero" \/ dom[t][h] # "zero"

(* No sub-symmetry is lost, by deferring it or by leaving the loop early:   *)
(* the list that is returned covers every interchangeable pair of machines. *)
NothingMissed ==
  pc = "returned" =>
    \A i, h \in Machines : \A t \in Jobs :
      i # h /\ Interchangeable(i, h, t) =>
        \E s \in found : s.start <= t /\ {i, h} \subseteq s.cols

(* newsymmakespans never holds more than half as many makespans as there    *)
(* are machines, and reinsertmakespans never overflows, for rows that run   *)
(* on at most one machine: the sizes with which they are allocated.         *)
HalfTheMachines ==
  /\ 2 * Cardinality(newsym) <= NMachines
  /\ Cardinality(reinsert) <= NMachines \div 2 + 1

(* The handler implements what the propagator expects of it. *)
Source == INSTANCE SubSymmetrySource WITH
  Domains     <- [Jobs -> Rows],
  Submatrices <- Submatrix,
  Symmetric   <- SubSymmetric,
  busy        <- Active

ImplementsSource == Source!Spec

(* What the code says and does not keep.                                    *)

(* "newsymmakespans: used as a hashset to record makespan values v for      *)
(* which activationdata->makespans[v] >= 2", when a row has been processed.  *)
NewsymHasTwo == pc = "row" => \A v \in newsym : GetImageInt(makespans, v) >= 2

(* SCIPhashmapRemove asserts that the key is not NULL: the makespan 0 is    *)
(* never removed.                                                           *)
ZeroNeverRemoved ==
  [][pc = "machines" /\ 0 \in DOMAIN makespans => 0 \in DOMAIN makespans']_vars
===============================================================================
