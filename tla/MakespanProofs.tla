---------------------------- MODULE MakespanProofs ----------------------------
(***************************************************************************)
(* Proofs about Makespan, for every number of jobs and machines, all       *)
(* processing times and all bounds. The inductive invariant is built in    *)
(* layers: Control, Counted, Loaded and Pending, each proved with the help *)
(* of the ones before it.                                                  *)
(***************************************************************************)
EXTENDS Makespan, FiniteSetTheorems, TLAPS

(* The types of the variables but found, and what the program counter says  *)
(* about them.                                                             *)
Control ==
  /\ dom \in [Jobs -> Rows]
  /\ pc \in {"idle", "row", "newsym", "machines", "clear", "returned"}
  /\ j \in 0 .. NJobs /\ m \in 0 .. NMachines
  /\ fixed \in [Machines -> Nat \cup {NoMakespan}]
  /\ undet \in BOOLEAN
  /\ newsym \subseteq Nat /\ todo \subseteq newsym /\ reinsert \subseteq newsym
  /\ pc \in {"newsym", "machines", "clear"} => j < NJobs
  /\ pc # "newsym" => todo = {} /\ reinsert = {}
  /\ ~Active => makespans = Empty /\ newsym = {}
  /\ (pc = "machines" /\ undet) \/ pc = "clear"
       => \A i \in Machines : pc = "clear" \/ i < m => fixed[i] = NoMakespan

(* Rows is not empty, so the bounds between two calls are well defined.     *)
LEMMA SomeNodeType == SomeNode \in [Jobs -> Rows]
BY RowAssumption DEF SomeNode

(* Control is an invariant.                                                *)
LEMMA ControlInvariant == Spec => []Control
<1> USE SizeAssumption, TimeAssumption DEF NoMakespan, Active
<1>1. Init => Control
  <2> SUFFICES ASSUME Init PROVE Control
    OBVIOUS
  <2>1. fixed \in [Machines -> Nat \cup {NoMakespan}]
    BY DEF Init
  <2>2. j \in 0 .. NJobs /\ m \in 0 .. NMachines
    BY DEF Init
  <2>. QED
    BY <2>1, <2>2, SomeNodeType DEF Init, Control
<1>2. Control /\ [Next]_vars => Control'
  <2> SUFFICES ASSUME Control, [Next]_vars PROVE Control'
    OBVIOUS
  <2>1. CASE Call
    BY <2>1 DEF Control, Call
  <2>2. CASE StartNewsym
    BY <2>2 DEF Control, StartNewsym
  <2>3. CASE SkipNewsym
    BY <2>3 DEF Control, SkipNewsym, StartMachines, Machines
  <2>4. CASE Defer
    BY <2>4 DEF Control, Defer
  <2>5. CASE Record
    BY <2>5 DEF Control, Record
  <2>6. CASE EndNewsym
    BY <2>6 DEF Control, EndNewsym, StartMachines, Machines
  <2>7. CASE Undetermined
    BY <2>7 DEF Control, Undetermined, Machines
  <2>8. CASE FixedToOne
    <3>1. m \in Machines /\ fixed[m] \in Nat /\ JobTimes[j] \in Nat
      BY <2>8 DEF Control, FixedToOne, Machines, Jobs
    <3>2. fixed[m] + JobTimes[j] \in Nat
      BY <3>1
    <3>3. fixed' \in [Machines -> Nat \cup {NoMakespan}] /\ newsym' \subseteq Nat
          /\ newsym \subseteq newsym'
      BY <2>8, <3>1, <3>2 DEF Control, FixedToOne
    <3>4. undet' \in BOOLEAN /\ ~undet'
      BY <2>8 DEF FixedToOne
    <3>. QED
      BY <2>8, <3>3, <3>4 DEF Control, FixedToOne
  <2>9. CASE FixedToZero
    <3>1. undet' \in BOOLEAN /\ ~undet'
      BY <2>9 DEF FixedToZero
    <3>. QED
      BY <2>9, <3>1 DEF Control, FixedToZero
  <2>10. CASE Unfixed
    <3>1. undet' \in BOOLEAN /\ ~undet'
      BY <2>10 DEF Unfixed
    <3>2. fixed' \in [Machines -> Nat \cup {NoMakespan}]
      BY <2>10 DEF Control, Unfixed
    <3>. QED
      BY <2>10, <3>1, <3>2 DEF Control, Unfixed
  <2>11. CASE EndRow
    BY <2>11 DEF Control, EndRow, Machines
  <2>12. CASE Return
    BY <2>12 DEF Control, Return
  <2>13. CASE Consume
    <3>1. undet' \in BOOLEAN /\ ~undet'
      BY <2>13 DEF Consume
    <3>. QED
      BY <2>13, <3>1, SomeNodeType DEF Control, Consume
  <2>14. CASE UNCHANGED vars
    BY <2>14 DEF Control, vars
  <2>. QED
    BY <2>1, <2>2, <2>3, <2>4, <2>5, <2>6, <2>7, <2>8, <2>9, <2>10, <2>11,
       <2>12, <2>13, <2>14 DEF Next
<1>. QED
  BY <1>1, <1>2, PTL DEF Spec

-------------------------------------------------------------------------------
(***************************************************************************)
(* The counting map.                                                       *)
(***************************************************************************)

Class(f, v) == {i \in Machines : f[i] = v}

(* map counts the machines of each makespan of f.                          *)
Counts(map, f) ==
  /\ DOMAIN map = {f[i] : i \in Machines} \ {NoMakespan}
  /\ \A v \in DOMAIN map : map[v] = Cardinality(Class(f, v))

Counted == Active => Counts(makespans, fixed)

(* The classes are finite, and no larger than the number of machines.      *)
LEMMA ClassSize ==
  ASSUME NEW f, NEW v
  PROVE  /\ IsFiniteSet(Class(f, v))
         /\ Cardinality(Class(f, v)) \in 0 .. NMachines
<1>1. IsFiniteSet(Machines) /\ Cardinality(Machines) = NMachines
  <2>1. 0 \in Int /\ NMachines - 1 \in Int
    BY SizeAssumption
  <2>2. IsFiniteSet(0 .. NMachines - 1)
        /\ Cardinality(0 .. NMachines - 1)
             = IF 0 > NMachines - 1 THEN 0 ELSE (NMachines - 1) - 0 + 1
    BY <2>1, FS_Interval
  <2>. QED
    BY <2>2, SizeAssumption DEF Machines
<1>2. Class(f, v) \subseteq Machines
  BY DEF Class
<1>3. IsFiniteSet(Class(f, v)) /\ Cardinality(Class(f, v)) <= Cardinality(Machines)
  BY <1>1, <1>2, FS_Subset
<1>4. Cardinality(Class(f, v)) \in Nat
  BY <1>3, FS_CardinalityType
<1>. QED
  BY <1>1, <1>3, <1>4, SizeAssumption

(* A machine becomes undetermined: Decrease keeps the counts.              *)
LEMMA Leave ==
  ASSUME NEW map, NEW f \in [Machines -> Nat \cup {NoMakespan}], NEW i \in Machines,
         f[i] # NoMakespan, Counts(map, f)
  PROVE  Counts(Decrease(map, f[i]), [f EXCEPT ![i] = NoMakespan])
<1> DEFINE g == [f EXCEPT ![i] = NoMakespan]
           v == f[i]
<1>1. v \in DOMAIN map /\ map[v] = Cardinality(Class(f, v))
  BY DEF Counts
<1>2. Class(g, v) = Class(f, v) \ {i} /\ i \in Class(f, v)
  BY DEF Class, NoMakespan
<1>3. Cardinality(Class(g, v)) = Cardinality(Class(f, v)) - 1
  BY <1>2, ClassSize, FS_RemoveElement
<1>4. \A w \in Nat : w # v => Class(g, w) = Class(f, w)
  BY DEF Class, NoMakespan
<1>5. DOMAIN map \subseteq Nat
  BY DEF Counts, NoMakespan
<1>6. Cardinality(Class(g, v)) \in Nat /\ Cardinality(Class(f, v)) \in Nat
  BY ClassSize, SizeAssumption
<1>7. Cardinality(Class(g, v)) = 0 <=> Class(g, v) = {}
  BY ClassSize, FS_EmptySet
<1>8. v \in Nat
  BY DEF NoMakespan
<1>9. {g[h] : h \in Machines} \ {NoMakespan}
        = IF Class(g, v) = {} THEN DOMAIN map \ {v} ELSE DOMAIN map
  BY <1>5, <1>8 DEF Counts, Class, NoMakespan
<1>10. GetImageInt(map, v) = map[v]
  BY <1>1 DEF GetImageInt
<1> DEFINE c == Cardinality(Class(g, v))
           count == GetImageInt(map, v) - 1
<1>11. c \in Nat /\ count = c /\ (c = 0 <=> Class(g, v) = {})
  BY <1>1, <1>3, <1>6, <1>7, <1>10
<1> HIDE DEF c, count, g, v
<1>12. CASE Class(g, v) = {}
  <2>1. count <= 0
    BY <1>11, <1>12
  <2>2. Decrease(map, v) = RemoveKey(map, v)
    BY <2>1 DEF Decrease, count
  <2>3. Counts(Decrease(map, v), g)
    BY <2>2, <1>4, <1>5, <1>9, <1>12 DEF Counts, RemoveKey
  <2>. QED
    BY <2>3 DEF g, v
<1>13. CASE Class(g, v) # {}
  <2>1. count = c /\ ~(count <= 0)
    BY <1>11, <1>13
  <2>2. Decrease(map, v) = SetImageInt(map, v, c)
    BY <2>1 DEF Decrease, count
  <2>3. Counts(Decrease(map, v), g)
    BY <2>2, <1>1, <1>4, <1>5, <1>9, <1>13 DEF Counts, SetImageInt, c
  <2>. QED
    BY <2>3 DEF g, v
<1>. QED
  BY <1>12, <1>13 DEF g, v

(* A machine gets makespan v: the count of v grows by one, from zero if the *)
(* key is absent.                                                           *)
LEMMA Arrive ==
  ASSUME NEW map, NEW f \in [Machines -> Nat \cup {NoMakespan}], NEW i \in Machines,
         f[i] = NoMakespan, NEW v \in Nat, Counts(map, f)
  PROVE  LET g == [f EXCEPT ![i] = v]
         IN  /\ v \notin DOMAIN map => Counts(InsertInt(map, v, 1), g)
             /\ v \in DOMAIN map => Counts(SetImageInt(map, v, map[v] + 1), g)
<1> DEFINE g == [f EXCEPT ![i] = v]
<1>1. Class(g, v) = Class(f, v) \cup {i} /\ i \notin Class(f, v)
  BY DEF Class, NoMakespan
<1>2. Cardinality(Class(g, v)) = Cardinality(Class(f, v)) + 1
  BY <1>1, ClassSize, FS_AddElement
<1>3. \A w \in Nat : w # v => Class(g, w) = Class(f, w)
  BY DEF Class, NoMakespan
<1>4. DOMAIN map \subseteq Nat
  BY DEF Counts, NoMakespan
<1>5. {g[h] : h \in Machines} \ {NoMakespan} = DOMAIN map \cup {v}
  BY DEF Counts, NoMakespan
<1>6. CASE v \notin DOMAIN map
  <2>1. Class(f, v) = {}
    BY <1>6 DEF Counts, Class, NoMakespan
  <2>2. Cardinality(Class(g, v)) = 1
    BY <2>1, <1>2, FS_EmptySet
  <2>3. InsertInt(map, v, 1) = SetImageInt(map, v, 1)
    BY <1>6 DEF InsertInt
  <2>. QED
    BY <2>2, <2>3, <1>3, <1>4, <1>5, <1>6 DEF Counts, SetImageInt
<1>7. CASE v \in DOMAIN map
  <2>1. map[v] + 1 = Cardinality(Class(g, v))
    BY <1>7, <1>2 DEF Counts
  <2>. QED
    BY <2>1, <1>3, <1>4, <1>5, <1>7 DEF Counts, SetImageInt
<1>. QED
  BY <1>6, <1>7

(* The map of the first row: all machines have makespan 0.                 *)
LEMMA CountsInitially ==
  Counts(InsertInt(Empty, 0, NMachines), [i \in Machines |-> 0])
<1> DEFINE f == [i \in Machines |-> 0]
           map == InsertInt(Empty, 0, NMachines)
<1>1. DOMAIN map = {0} /\ map[0] = NMachines
  BY DEF InsertInt, SetImageInt, Empty
<1>2. Class(f, 0) = 0 .. NMachines - 1
  BY DEF Class, Machines
<1>3. Cardinality(0 .. NMachines - 1) = NMachines
  <2>1. 0 \in Int /\ NMachines - 1 \in Int
    BY SizeAssumption
  <2>2. Cardinality(0 .. NMachines - 1)
          = IF 0 > NMachines - 1 THEN 0 ELSE (NMachines - 1) - 0 + 1
    BY <2>1, FS_Interval
  <2>. QED
    BY <2>2, SizeAssumption
<1>4. {f[i] : i \in Machines} \ {NoMakespan} = {0}
  <2>1. 0 \in Machines
    BY SizeAssumption DEF Machines
  <2>. QED
    BY <2>1 DEF NoMakespan
<1>. QED
  BY <1>1, <1>2, <1>3, <1>4 DEF Counts

(* The hash map counts the machines of each makespan in every state of the *)
(* search.                                                                 *)
LEMMA CountedInvariant == Spec => []Counted
<1>1. Init => Counted
  BY DEF Init, Counted, Active
<1>2. Control /\ Counted /\ [Next]_vars => Counted'
  <2> SUFFICES ASSUME Control, Counted, [Next]_vars PROVE Counted'
    OBVIOUS
  <2>1. CASE Call
    <3>1. makespans' = InsertInt(Empty, 0, NMachines)
          /\ fixed' = [i \in Machines |-> 0]
      BY <2>1 DEF Call, Control, Active
    <3>. QED
      BY <3>1, CountsInitially DEF Counted
  <2>2. CASE StartNewsym \/ SkipNewsym \/ Defer \/ Record \/ EndNewsym
             \/ Undetermined \/ FixedToZero \/ EndRow
    BY <2>2 DEF StartNewsym, SkipNewsym, Defer, Record, EndNewsym, Undetermined,
         FixedToZero, EndRow, Counted, Counts, Class, Active
  <2>3. CASE FixedToOne
    <3> DEFINE left == Decrease(makespans, fixed[m])
               f    == [fixed EXCEPT ![m] = NoMakespan]
               new  == fixed[m] + JobTimes[j]
    <3>1. m \in Machines /\ fixed[m] \in Nat /\ JobTimes[j] \in Nat
          /\ fixed \in [Machines -> Nat \cup {NoMakespan}]
      BY <2>3, TimeAssumption, SizeAssumption DEF Control, FixedToOne, Machines, Jobs, NoMakespan
    <3>2. fixed[m] # NoMakespan /\ Counts(makespans, fixed)
      BY <2>3 DEF FixedToOne, Counted, Active
    <3>3. Counts(left, f)
      BY <3>1, <3>2, Leave
    <3>4. f \in [Machines -> Nat \cup {NoMakespan}] /\ f[m] = NoMakespan /\ new \in Nat
      BY <3>1
    <3>5. [f EXCEPT ![m] = new] = fixed'
      BY <2>3, <3>1 DEF FixedToOne
    <3>6. new \in DOMAIN left => left[new] < INT_MAX /\ left[new] \in Nat
      BY <3>3, ClassSize, SizeAssumption DEF Counts
    <3>7. GetImageInt(left, new) = INT_MAX <=> new \notin DOMAIN left
      BY <3>6, SizeAssumption DEF GetImageInt
    <3>8. /\ new \notin DOMAIN left => Counts(InsertInt(left, new, 1), fixed')
          /\ new \in DOMAIN left => Counts(SetImageInt(left, new, left[new] + 1), fixed')
      BY <3>1, <3>3, <3>4, <3>5, Arrive
    <3>. QED
      BY <2>3, <3>7, <3>8 DEF FixedToOne, Counted
  <2>4. CASE Unfixed
    <3>1. m \in Machines /\ fixed \in [Machines -> Nat \cup {NoMakespan}]
      BY <2>4, SizeAssumption DEF Control, Unfixed, Machines
    <3>2. fixed[m] # NoMakespan /\ Counts(makespans, fixed)
      BY <2>4 DEF Unfixed, Counted, Active
    <3>. QED
      BY <2>4, <3>1, <3>2, Leave DEF Unfixed, Counted
  <2>5. CASE Return \/ Consume
    BY <2>5 DEF Return, Consume, Counted, Active
  <2>6. CASE UNCHANGED vars
    BY <2>6 DEF vars, Counted, Counts, Class, Active
  <2>. QED
    BY <2>1, <2>2, <2>3, <2>4, <2>5, <2>6 DEF Next
<1>. QED
  BY <1>1, <1>2, ControlInvariant, PTL DEF Spec

(* The hash map of makespans is exact, however machines arrive at and leave *)
(* a makespan, and the code's test against INT_MAX tells absent keys apart. *)
THEOREM CountsCorrect == Spec => []CountsMatch
<1>1. Counted => CountsMatch
  BY DEF Counted, CountsMatch, Counts, Class
<1>. QED
  BY <1>1, CountedInvariant, PTL

-------------------------------------------------------------------------------
(***************************************************************************)
(* fixedmakespan.                                                          *)
(***************************************************************************)

(* What FixedIsLoad says of one machine, for c its column and k its rows.   *)
LoadOf(f, c, k) ==
  /\ f = NoMakespan <=> \E h \in 0 .. k - 1 : c[h] = "free"
  /\ f # NoMakespan => f = Load(c, k)

(* One more row.                                                           *)
LEMMA NextRow ==
  ASSUME NEW c \in [Jobs -> Dom], NEW k \in Jobs, NEW f \in Nat \cup {NoMakespan},
         LoadOf(f, c, k)
  PROVE  /\ f = NoMakespan => LoadOf(f, c, k + 1)
         /\ f # NoMakespan /\ c[k] = "one" => LoadOf(f + JobTimes[k], c, k + 1)
         /\ f # NoMakespan /\ c[k] = "zero" => LoadOf(f, c, k + 1)
         /\ f # NoMakespan /\ c[k] = "free" => LoadOf(NoMakespan, c, k + 1)
<1>1. JobTimes[k] \in Nat
  BY TimeAssumption
<1>2. Load(c, k + 1) = Load(c, k) + (IF c[k] = "one" THEN JobTimes[k] ELSE 0)
  BY LoadAssumption
<1>3. 0 .. (k + 1) - 1 = (0 .. k - 1) \cup {k}
  BY SizeAssumption DEF Jobs
<1>4. c[k] \in Dom
  OBVIOUS
<1>. QED
  BY <1>1, <1>2, <1>3, <1>4 DEF LoadOf, NoMakespan, Dom

Loaded == Active => \A i \in Machines : LoadOf(fixed[i], Column(i), Seen(i))

(* fixed[i] is the makespan of the rows machine i has been through.        *)
LEMMA LoadedInvariant == Spec => []Loaded
<1>1. Init => Loaded
  BY DEF Init, Loaded, Active
<1>2. Control /\ Control' /\ Loaded /\ [Next]_vars => Loaded'
  <2> SUFFICES ASSUME Control, Control', Loaded, [Next]_vars,
                      Active', NEW i \in Machines
               PROVE  LoadOf(fixed'[i], Column(i)', Seen(i)')
    BY DEF Loaded
  <2>0. Column(i) \in [Jobs -> Dom] /\ Column(i)' \in [Jobs -> Dom]
    BY RowAssumption DEF Column, Control
  <2>a. /\ fixed \in [Machines -> Nat \cup {NoMakespan}]
        /\ j \in 0 .. NJobs /\ m \in 0 .. NMachines
        /\ pc \in {"newsym", "machines"} => j \in Jobs
    BY SizeAssumption DEF Control, Jobs
  <2>b. ASSUME UNCHANGED <<dom, fixed>>, Active, Seen(i)' = Seen(i)
        PROVE  LoadOf(fixed'[i], Column(i)', Seen(i)')
    <3>1. Column(i)' = Column(i)
      BY <2>b DEF Column
    <3>. QED
      BY <2>b, <3>1 DEF Loaded
  <2>1. CASE Call
    <3>1. Seen(i)' = 0 /\ fixed'[i] = 0
      BY <2>1 DEF Call, Seen
    <3>2. Load(Column(i)', 0) = 0
      BY <2>0, LoadAssumption
    <3>. QED
      BY <3>1, <3>2 DEF LoadOf, NoMakespan
  <2>2. CASE StartNewsym \/ SkipNewsym \/ Defer \/ Record \/ EndNewsym
    <3>1. Seen(i)' = Seen(i)
      BY <2>2 DEF StartNewsym, SkipNewsym, Defer, Record, EndNewsym, StartMachines,
           Seen, Machines
    <3>. QED
      BY <2>2, <2>b, <3>1 DEF StartNewsym, SkipNewsym, Defer, Record, EndNewsym, Active
  <2>3. CASE Undetermined \/ FixedToOne \/ FixedToZero \/ Unfixed
    <3>1. pc = "machines" /\ pc' = pc /\ j' = j /\ m' = m + 1 /\ m \in Machines
          /\ dom' = dom /\ j \in Jobs
      BY <2>3, <2>a, SizeAssumption DEF Undetermined, FixedToOne, FixedToZero, Unfixed, Machines
    <3>2. Column(i)' = Column(i) /\ LoadOf(fixed[i], Column(i), Seen(i))
      BY <3>1 DEF Column, Loaded, Active
    <3>3. CASE i # m
      <4>1. Seen(i)' = Seen(i)
        BY <3>1, <3>3 DEF Seen, Machines
      <4>2. fixed'[i] = fixed[i]
        BY <2>3, <2>a, <3>3 DEF Undetermined, FixedToOne, FixedToZero, Unfixed
      <4>. QED
        BY <3>2, <4>1, <4>2
    <3>4. CASE i = m
      <4>1. Seen(i) = j /\ Seen(i)' = j + 1
        BY <3>1, <3>4 DEF Seen, Machines
      <4>2. Column(i)[j] = dom[j][m]
        BY <3>1, <3>4 DEF Column
      <4>3. fixed[i] \in Nat \cup {NoMakespan}
        BY <2>a
      <4> DEFINE c == Column(i)
      <4>4. /\ fixed[i] = NoMakespan => LoadOf(fixed[i], c, j + 1)
            /\ fixed[i] # NoMakespan /\ c[j] = "one"
                 => LoadOf(fixed[i] + JobTimes[j], c, j + 1)
            /\ fixed[i] # NoMakespan /\ c[j] = "zero" => LoadOf(fixed[i], c, j + 1)
            /\ fixed[i] # NoMakespan /\ c[j] = "free" => LoadOf(NoMakespan, c, j + 1)
        <5>1. LoadOf(fixed[i], c, j)
          BY <3>2, <4>1
        <5>. QED
          BY <2>0, <3>1, <4>3, <5>1, NextRow
      <4>5. \/ fixed[i] = NoMakespan /\ fixed'[i] = fixed[i]
            \/ fixed[i] # NoMakespan /\ c[j] = "one" /\ fixed'[i] = fixed[i] + JobTimes[j]
            \/ fixed[i] # NoMakespan /\ c[j] = "zero" /\ fixed'[i] = fixed[i]
            \/ fixed[i] # NoMakespan /\ c[j] = "free" /\ fixed'[i] = NoMakespan
        BY <2>3, <2>a, <3>1, <3>4, <4>2 DEF Undetermined, FixedToOne, FixedToZero, Unfixed
      <4> HIDE DEF c
      <4>6. LoadOf(fixed'[i], c, j + 1)
        BY <4>4, <4>5
      <4>. QED
        BY <4>6, <4>1, <3>2 DEF c
    <3>. QED
      BY <3>3, <3>4
  <2>4. CASE EndRow
    <3>1. Seen(i)' = Seen(i)
      BY <2>4, <2>a, SizeAssumption DEF EndRow, Seen, Machines
    <3>. QED
      BY <2>4, <2>b, <3>1 DEF EndRow, Active
  <2>5. CASE Return \/ Consume
    BY <2>5 DEF Return, Consume, Active
  <2>6. CASE UNCHANGED vars
    <3>1. Seen(i)' = Seen(i) /\ Active
      BY <2>6 DEF vars, Seen, Active
    <3>. QED
      BY <2>6, <2>b, <3>1 DEF vars
  <2>. QED
    BY <2>1, <2>2, <2>3, <2>4, <2>5, <2>6 DEF Next
<1>. QED
  BY <1>1, <1>2, ControlInvariant, PTL DEF Spec

(* fixedmakespan is what its comment says it is, in every state of a call. *)
THEOREM FixedIsLoadCorrect == Spec => []FixedIsLoad
<1>1. Control /\ Loaded => FixedIsLoad
  <2> SUFFICES ASSUME Control, Loaded, Active, NEW i \in Machines
               PROVE  /\ fixed[i] = NoMakespan <=>
                           \E k \in 0 .. Seen(i) - 1 : dom[k][i] = "free"
                      /\ fixed[i] # NoMakespan => fixed[i] = Load(Column(i), Seen(i))
    BY DEF FixedIsLoad
  <2>1. LoadOf(fixed[i], Column(i), Seen(i))
    BY DEF Loaded
  <2>2. 0 .. Seen(i) - 1 \subseteq Jobs
    BY SizeAssumption DEF Control, Seen, Jobs, Machines, Active
  <2>3. \A k \in 0 .. Seen(i) - 1 : Column(i)[k] = dom[k][i]
    BY <2>2 DEF Column
  <2>. QED
    BY <2>1, <2>3 DEF LoadOf
<1>. QED
  BY <1>1, ControlInvariant, LoadedInvariant, PTL

-------------------------------------------------------------------------------
(***************************************************************************)
(* Pending sub-symmetries. A makespan in newsym is the makespan of some    *)
(* machine although machines leave it within the row in which it was       *)
(* added: either a machine that has been through row j has it, or it was   *)
(* deferred, and then row j is zero for all the machines that have it.     *)
(***************************************************************************)
Pending ==
  /\ pc \in {"row", "newsym", "clear"} =>
       \A v \in newsym : \E i \in Machines : fixed[i] = v
  /\ pc = "newsym" =>
       \A v \in reinsert : \A i \in Machines : fixed[i] = v => dom[j][i] = "zero"
  /\ pc = "machines" =>
       \A v \in newsym :
         /\ \E i \in Machines : fixed[i] = v
         /\ \/ \E i \in Machines : i < m /\ fixed[i] = v
            \/ \A i \in Machines : fixed[i] = v => dom[j][i] = "zero"

(* The columns of a submatrix are all machines of its makespan: the count  *)
(* cuts none of them off.                                                  *)
LEMMA ColumnsAreClass ==
  ASSUME Control, Counted, Active, NEW v \in Nat, NEW w \in Machines, fixed[w] = v
  PROVE  /\ Columns(v) = Class(fixed, v)
         /\ GetImageInt(makespans, v) = Cardinality(Class(fixed, v))
         /\ Cardinality(Class(fixed, v)) \in 1 .. NMachines
<1>1. v \in DOMAIN makespans /\ makespans[v] = Cardinality(Class(fixed, v))
  BY DEF Counted, Counts, NoMakespan
<1>2. IsFiniteSet(Class(fixed, v)) /\ Cardinality(Class(fixed, v)) \in 0 .. NMachines
  BY ClassSize
<1>3. Class(fixed, v) # {}
  BY DEF Class
<1>4. Cardinality(Class(fixed, v)) # 0
  BY <1>2, <1>3, FS_EmptySet
<1>5. ASSUME NEW i \in Class(fixed, v)
      PROVE  Cardinality({h \in 0 .. i - 1 : fixed[h] = v}) < Cardinality(Class(fixed, v))
  <2> DEFINE S == {h \in 0 .. i - 1 : fixed[h] = v}
             T == Class(fixed, v) \ {i}
  <2>1. S \subseteq T
    BY <1>5, SizeAssumption DEF Class, Machines
  <2>2. IsFiniteSet(T) /\ Cardinality(T) = Cardinality(Class(fixed, v)) - 1
    BY <1>2, <1>5, FS_RemoveElement
  <2>3. IsFiniteSet(S) /\ Cardinality(S) <= Cardinality(T)
    BY <2>1, <2>2, FS_Subset
  <2>4. Cardinality(S) \in Nat
    BY <2>3, FS_CardinalityType
  <2> HIDE DEF S, T
  <2>5. Cardinality(S) < Cardinality(Class(fixed, v))
    BY <1>2, <2>2, <2>3, <2>4, SizeAssumption
  <2>. QED
    BY <2>5 DEF S
<1>6. GetImageInt(makespans, v) = Cardinality(Class(fixed, v))
  BY <1>1 DEF GetImageInt
<1>7. Columns(v) = Class(fixed, v)
  <2>1. \A i \in Machines : fixed[i] = v =>
          Cardinality({h \in 0 .. i - 1 : fixed[h] = v}) < GetImageInt(makespans, v)
    BY <1>5, <1>6 DEF Class
  <2>. QED
    BY <2>1 DEF Columns, Class
<1>. QED
  BY <1>2, <1>4, <1>6, <1>7, SizeAssumption

(* A makespan in newsym is never without a machine.                        *)
LEMMA PendingInvariant == Spec => []Pending
<1>1. Init => Pending
  BY DEF Init, Pending
<1>2. Control /\ Control' /\ Counted /\ Pending /\ [Next]_vars => Pending'
  <2> SUFFICES ASSUME Control, Control', Counted, Pending, [Next]_vars PROVE Pending'
    OBVIOUS
  <2>a. /\ fixed \in [Machines -> Nat \cup {NoMakespan}]
        /\ j \in 0 .. NJobs /\ m \in 0 .. NMachines
        /\ newsym \subseteq Nat
    BY DEF Control
  <2>1. CASE Call
    BY <2>1 DEF Call, Pending, Control, Active
  <2>2. CASE StartNewsym \/ SkipNewsym
    BY <2>2 DEF StartNewsym, SkipNewsym, StartMachines, Pending, Control
  <2>3. CASE Defer
    <3>1. PICK v \in todo : FirstRowZero(v) /\ reinsert' = reinsert \cup {v}
      BY <2>3 DEF Defer
    <3>2. v \in newsym /\ v \in Nat
      BY <2>a, <3>1 DEF Control
    <3>3. PICK w \in Machines : fixed[w] = v
      BY <2>3, <3>2 DEF Defer, Pending
    <3>4. Columns(v) = Class(fixed, v)
      BY <2>3, <3>2, <3>3, ColumnsAreClass DEF Defer, Active
    <3>5. \A i \in Machines : fixed[i] = v => dom[j][i] = "zero"
      BY <3>1, <3>4 DEF FirstRowZero, Class
    <3>. QED
      BY <2>3, <3>1, <3>5 DEF Defer, Pending
  <2>4. CASE Record
    BY <2>4 DEF Record, Pending
  <2>5. CASE EndNewsym
    BY <2>5 DEF EndNewsym, StartMachines, Pending, Control
  <2>6. CASE Undetermined \/ FixedToZero
    <3>1. pc = "machines" /\ pc' = pc /\ m' = m + 1 /\ UNCHANGED <<dom, j, fixed, newsym>>
      BY <2>6 DEF Undetermined, FixedToZero
    <3>2. \A i \in Machines : i < m => i < m'
      BY <2>a, <3>1, SizeAssumption DEF Machines
    <3>. QED
      BY <3>1, <3>2 DEF Pending
  <2>7. CASE FixedToOne
    <3> DEFINE new == fixed[m] + JobTimes[j]
    <3>1. pc = "machines" /\ pc' = pc /\ m' = m + 1 /\ UNCHANGED <<dom, j>>
          /\ fixed' = [fixed EXCEPT ![m] = new]
          /\ newsym' \subseteq newsym \cup {new} /\ dom[j][m] = "one"
      BY <2>7 DEF FixedToOne
    <3>2. m \in Machines /\ m < m' /\ \A i \in Machines : i < m => i < m' /\ i # m
      BY <2>7, <2>a, <3>1, SizeAssumption DEF FixedToOne, Machines
    <3>3. fixed'[m] = new /\ \A i \in Machines : i # m => fixed'[i] = fixed[i]
      BY <2>a, <3>1, <3>2
    <3> HIDE DEF new
    <3>4. ASSUME NEW v \in newsym'
          PROVE  /\ \E i \in Machines : fixed'[i] = v
                 /\ \/ \E i \in Machines : i < m' /\ fixed'[i] = v
                    \/ \A i \in Machines : fixed'[i] = v => dom[j][i] = "zero"
      <4>1. CASE v = new
        BY <3>2, <3>3, <4>1
      <4>2. CASE v # new
        <5>1. v \in newsym
          BY <3>1, <3>4, <4>2
        <5>2. CASE \E i \in Machines : i < m /\ fixed[i] = v
          BY <3>2, <3>3, <5>2
        <5>3. CASE \A i \in Machines : fixed[i] = v => dom[j][i] = "zero"
          <6>1. fixed[m] # v
            BY <3>1, <3>2, <5>3
          <6>2. PICK w \in Machines : fixed[w] = v
            BY <3>1, <5>1 DEF Pending
          <6>. QED
            BY <3>3, <4>2, <5>3, <6>1, <6>2
        <5>. QED
          BY <3>1, <5>1, <5>2, <5>3 DEF Pending
      <4>. QED
        BY <4>1, <4>2
    <3>. QED
      BY <3>1, <3>4 DEF Pending
  <2>8. CASE Unfixed
    <3>1. pc = "machines" /\ pc' = pc /\ m' = m + 1 /\ UNCHANGED <<dom, j, newsym>>
          /\ fixed' = [fixed EXCEPT ![m] = NoMakespan] /\ dom[j][m] = "free"
      BY <2>8 DEF Unfixed
    <3>2. m \in Machines /\ \A i \in Machines : i < m => i < m' /\ i # m
      BY <2>8, <2>a, <3>1, SizeAssumption DEF Unfixed, Machines
    <3>3. fixed'[m] = NoMakespan /\ \A i \in Machines : i # m => fixed'[i] = fixed[i]
      BY <2>a, <3>1, <3>2
    <3>4. ASSUME NEW v \in newsym
          PROVE  /\ \E i \in Machines : fixed'[i] = v
                 /\ \/ \E i \in Machines : i < m' /\ fixed'[i] = v
                    \/ \A i \in Machines : fixed'[i] = v => dom[j][i] = "zero"
      <4>1. v # NoMakespan
        BY <2>a, <3>4 DEF NoMakespan
      <4>2. CASE \E i \in Machines : i < m /\ fixed[i] = v
        BY <3>2, <3>3, <4>2
      <4>3. CASE \A i \in Machines : fixed[i] = v => dom[j][i] = "zero"
        <5>1. fixed[m] # v
          BY <3>1, <3>2, <4>3
        <5>2. PICK w \in Machines : fixed[w] = v
          BY <3>1, <3>4 DEF Pending
        <5>. QED
          BY <3>3, <4>1, <4>3, <5>1, <5>2
      <4>. QED
        BY <3>1, <3>4, <4>2, <4>3 DEF Pending
    <3>. QED
      BY <3>1, <3>4 DEF Pending
  <2>9. CASE EndRow
    BY <2>9 DEF EndRow, Pending
  <2>10. CASE Return \/ Consume
    BY <2>10 DEF Return, Consume, Pending
  <2>11. CASE UNCHANGED vars
    BY <2>11 DEF vars, Pending
  <2>. QED
    BY <2>1, <2>2, <2>3, <2>4, <2>5, <2>6, <2>7, <2>8, <2>9, <2>10, <2>11 DEF Next
<1>. QED
  BY <1>1, <1>2, ControlInvariant, CountedInvariant, PTL DEF Spec

-------------------------------------------------------------------------------
(***************************************************************************)
(* The submatrices.                                                        *)
(***************************************************************************)

Reported == found \subseteq Submatrix /\ FoundIsSymmetric

(* The submatrix that Record adds is a sub-symmetry.                       *)
LEMMA RecordedIsSymmetric ==
  ASSUME Control, Counted, Loaded, Pending, pc = "newsym", NEW v \in todo
  PROVE  LET s == [start |-> j, cols |-> Columns(v), ncols |-> GetImageInt(makespans, v)]
         IN  s \in Submatrix /\ SubSymmetric(dom, s)
<1> DEFINE s == [start |-> j, cols |-> Columns(v), ncols |-> GetImageInt(makespans, v)]
<1>1. v \in newsym /\ v \in Nat /\ Active /\ j \in Jobs
  BY SizeAssumption DEF Control, Active, Jobs
<1>2. PICK w \in Machines : fixed[w] = v
  BY <1>1 DEF Pending
<1>3. /\ s.cols = Class(fixed, v)
      /\ s.ncols = Cardinality(Class(fixed, v))
      /\ Cardinality(Class(fixed, v)) \in 1 .. NMachines
  BY <1>1, <1>2, ColumnsAreClass
<1>4. s \in Submatrix
  <2>1. Class(fixed, v) \subseteq Machines
    BY DEF Class
  <2>. QED
    BY <1>1, <1>3, <2>1 DEF Submatrix
<1>5. \A i \in Class(fixed, v) : LoadOf(v, Column(i), j) /\ v # NoMakespan
  BY <1>1 DEF Class, Loaded, Seen, NoMakespan
<1>6. \A i \in Class(fixed, v) : \A k \in 0 .. j - 1 : dom[k][i] # "free"
  <2>1. 0 .. j - 1 \subseteq Jobs
    BY <1>1, SizeAssumption DEF Jobs
  <2>. QED
    BY <2>1, <1>5 DEF LoadOf, Column
<1>7. \A i, h \in Class(fixed, v) : Load(Column(i), j) = Load(Column(h), j)
  BY <1>5 DEF LoadOf
<1>8. SubSymmetric(dom, s)
  <2>1. w \in s.cols
    BY <1>2, <1>3 DEF Class
  <2>2. s.start = j
    OBVIOUS
  <2> HIDE DEF s
  <2>3. /\ \A i \in s.cols : \A k \in 0 .. s.start - 1 : dom[k][i] # "free"
        /\ \A i, h \in s.cols : Load(Column(i), s.start) = Load(Column(h), s.start)
    BY <1>3, <1>6, <1>7, <2>2
  <2>. QED
    BY <1>3, <2>1, <2>3 DEF SubSymmetric, Column
<1>. QED
  BY <1>4, <1>8

(* Every submatrix on the list is well formed and a sub-symmetry.          *)
LEMMA ReportedInvariant == Spec => []Reported
<1>1. Init => Reported
  BY DEF Init, Reported, FoundIsSymmetric
<1>2. Control /\ Counted /\ Loaded /\ Pending /\ Reported /\ [Next]_vars => Reported'
  <2> SUFFICES ASSUME Control, Counted, Loaded, Pending, Reported, [Next]_vars
               PROVE  Reported'
    OBVIOUS
  <2>1. CASE Record
    <3>1. PICK v \in todo :
            found' = found \cup {[start |-> j, cols |-> Columns(v),
                                  ncols |-> GetImageInt(makespans, v)]}
      BY <2>1 DEF Record
    <3>2. LET s == [start |-> j, cols |-> Columns(v), ncols |-> GetImageInt(makespans, v)]
          IN  s \in Submatrix /\ SubSymmetric(dom, s)
      BY <2>1, RecordedIsSymmetric DEF Record
    <3>3. dom' = dom
      BY <2>1 DEF Record
    <3>. QED
      BY <3>1, <3>2, <3>3 DEF Reported, FoundIsSymmetric
  <2>2. CASE UNCHANGED <<dom, found>>
    BY <2>2 DEF Reported, FoundIsSymmetric
  <2>3. CASE Call \/ Consume
    BY <2>3 DEF Call, Consume, Reported, FoundIsSymmetric
  <2>. QED
    BY <2>1, <2>2, <2>3 DEF Next, vars, StartNewsym, SkipNewsym, Defer, EndNewsym,
         Undetermined, FixedToOne, FixedToZero, Unfixed, EndRow, Return
<1>. QED
  BY <1>1, <1>2, ControlInvariant, CountedInvariant, LoadedInvariant,
     PendingInvariant, PTL DEF Spec

(* The propagator receives sub-symmetries only: for every matrix of bounds, *)
(* packing or not, the columns of a submatrix on the list are fixed above   *)
(* its first row and have equal makespans there.                            *)
THEOREM SubSymmetriesSound == Spec => []FoundIsSymmetric
<1>1. Reported => FoundIsSymmetric
  BY DEF Reported
<1>. QED
  BY <1>1, ReportedInvariant, PTL

(* The variables keep their types; in particular the number of columns of a *)
(* submatrix, read from the hash map, is between 1 and the number of        *)
(* machines, and never the INT_MAX of an absent key.                        *)
THEOREM TypeCorrect == Spec => []TypeOK
<1>1. Control /\ Counted /\ Reported => TypeOK
  <2> SUFFICES ASSUME Control, Counted, Reported PROVE TypeOK
    OBVIOUS
  <2>1. DOMAIN makespans \subseteq Nat
    BY DEF Counted, Control, Counts, Empty, NoMakespan
  <2>. QED
    BY <2>1 DEF Control, Reported, TypeOK
<1>. QED
  BY <1>1, ControlInvariant, CountedInvariant, ReportedInvariant, PTL

(* The buffers that outlive the call are empty between two calls.          *)
THEOREM BuffersClean == Spec => []CleanBetweenCalls
<1>1. Control => CleanBetweenCalls
  BY DEF Control, CleanBetweenCalls, Active
<1>. QED
  BY <1>1, ControlInvariant, PTL

(* The handler implements the contract of the callback: each of its steps  *)
(* is a step of the contract or changes nothing that the caller sees.       *)
THEOREM Refinement == Spec => ImplementsSource
<1> USE DEF Source!Init, Source!Next, Source!vars, Active
<1>1. Init => Source!Init
  BY SomeNodeType DEF Init
<1>2. Control /\ Counted /\ Loaded /\ Pending /\ [Next]_vars => [Source!Next]_(Source!vars)
  <2> SUFFICES ASSUME Control, Counted, Loaded, Pending, [Next]_vars
               PROVE  [Source!Next]_(Source!vars)
    OBVIOUS
  <2>1. CASE Call
    BY <2>1 DEF Call, Source!Call
  <2>2. CASE Record
    <3>1. PICK v \in todo :
            found' = found \cup {[start |-> j, cols |-> Columns(v),
                                  ncols |-> GetImageInt(makespans, v)]}
      BY <2>2 DEF Record
    <3>2. LET s == [start |-> j, cols |-> Columns(v), ncols |-> GetImageInt(makespans, v)]
          IN  s \in Submatrix /\ SubSymmetric(dom, s)
      BY <2>2, RecordedIsSymmetric DEF Record
    <3>. QED
      BY <2>2, <3>1, <3>2 DEF Record, Source!Report
  <2>3. CASE Return
    BY <2>3 DEF Return, Source!Return
  <2>4. CASE Consume
    BY <2>4, SomeNodeType DEF Consume, Source!Consume
  <2>5. CASE StartNewsym \/ SkipNewsym \/ Defer \/ EndNewsym \/ Undetermined
             \/ FixedToOne \/ FixedToZero \/ Unfixed \/ EndRow
    BY <2>5 DEF StartNewsym, SkipNewsym, StartMachines, Defer, EndNewsym, Undetermined,
         FixedToOne, FixedToZero, Unfixed, EndRow
  <2>6. CASE UNCHANGED vars
    BY <2>6 DEF vars
  <2>. QED
    BY <2>1, <2>2, <2>3, <2>4, <2>5, <2>6 DEF Next
<1>. QED
  BY <1>1, <1>2, ControlInvariant, CountedInvariant, LoadedInvariant,
     PendingInvariant, PTL DEF Spec, ImplementsSource, Source!Spec

-------------------------------------------------------------------------------
(***************************************************************************)
(* Nothing is missed. Two machines that have come to the same makespan by  *)
(* different rows are covered by a submatrix, or their makespan waits in   *)
(* newsym; within a row that holds of the machines that have been through  *)
(* it, and of those that it will not move.                                 *)
(***************************************************************************)

(* The machines have been given different jobs in the rows above k.        *)
Differ(i, h, k) == \E r \in 0 .. k - 1 : dom[r][i] # dom[r][h]

(* Machine i has been through row j, or will be without effect.            *)
Still(i) == pc # "machines" \/ i < m \/ dom[j][i] = "zero"

RowsDone == IF pc = "machines" THEN j + 1 ELSE j

Covered(i, h, t) == \E s \in found : s.start <= t /\ {i, h} \subseteq s.cols

Waiting == IF pc = "newsym" THEN todo \cup reinsert ELSE newsym

Awaited ==
  pc \in {"row", "newsym", "machines"} =>
    \A i, h \in Machines :
      /\ i # h /\ fixed[i] = fixed[h] /\ fixed[i] # NoMakespan
      /\ Still(i) /\ Still(h) /\ Differ(i, h, RowsDone)
      => fixed[i] \in Waiting \/ Covered(i, h, j)

(* The rows in which every interchangeable pair has been looked for.       *)
LookedAt(t) == t < j \/ (t = j /\ pc = "machines") \/ pc \in {"clear", "returned"}

Settled ==
  pc # "idle" =>
    \A i, h \in Machines : \A t \in Jobs :
      i # h /\ Interchangeable(i, h, t) /\ LookedAt(t) => Covered(i, h, t)

(* A machine that comes to the makespan of another one marks it.            *)
LEMMA ComesUpon ==
  ASSUME Control, Counted, FixedToOne, NEW h \in Machines, h # m,
         fixed[h] = fixed[m] + JobTimes[j]
  PROVE  fixed[m] + JobTimes[j] \in newsym'
<1> DEFINE left == Decrease(makespans, fixed[m])
           f    == [fixed EXCEPT ![m] = NoMakespan]
           new  == fixed[m] + JobTimes[j]
<1>1. m \in Machines /\ fixed[m] \in Nat /\ JobTimes[j] \in Nat
      /\ fixed \in [Machines -> Nat \cup {NoMakespan}]
  BY TimeAssumption, SizeAssumption DEF Control, FixedToOne, Machines, Jobs, NoMakespan
<1>2. fixed[m] # NoMakespan /\ Counts(makespans, fixed)
  BY DEF FixedToOne, Counted, Active
<1>3. Counts(left, f)
  BY <1>1, <1>2, Leave
<1>4. f[h] = new /\ new # NoMakespan
  BY <1>1 DEF NoMakespan
<1>5. new \in DOMAIN left /\ left[new] = Cardinality(Class(f, new))
  BY <1>3, <1>4 DEF Counts
<1>6. left[new] # INT_MAX
  BY <1>5, ClassSize, SizeAssumption
<1>7. GetImageInt(left, new) # INT_MAX
  BY <1>5, <1>6 DEF GetImageInt
<1>. QED
  BY <1>7 DEF FixedToOne

(* Rows in which a pair is fixed to zero do not tell it apart. *)
LEMMA SameRow ==
  ASSUME NEW i, NEW h, NEW k \in Jobs, dom[k][i] = dom[k][h], Differ(i, h, k + 1)
  PROVE  Differ(i, h, k)
<1>1. 0 .. (k + 1) - 1 = (0 .. k - 1) \cup {k}
  BY SizeAssumption DEF Jobs
<1>. QED
  BY <1>1 DEF Differ

LEMMA AwaitedInvariant == Spec => []Awaited
<1>1. Init => Awaited
  BY DEF Init, Awaited
<1>2. Control /\ Control' /\ Counted /\ Reported /\ Awaited /\ [Next]_vars => Awaited'
  <2> SUFFICES ASSUME Control, Control', Counted, Reported, Awaited, [Next]_vars,
                      pc' \in {"row", "newsym", "machines"},
                      NEW i \in Machines, NEW h \in Machines, i # h,
                      fixed'[i] = fixed'[h], fixed'[i] # NoMakespan,
                      Still(i)', Still(h)', Differ(i, h, RowsDone)'
               PROVE  fixed'[i] \in Waiting' \/ Covered(i, h, j)'
    BY DEF Awaited
  <2>a. /\ fixed \in [Machines -> Nat \cup {NoMakespan}]
        /\ j \in 0 .. NJobs /\ m \in 0 .. NMachines
        /\ pc \in {"newsym", "machines"} => j \in Jobs
        /\ i \in Int /\ h \in Int /\ i < NMachines /\ h < NMachines
    BY SizeAssumption DEF Control, Jobs, Machines
  <2>b. ASSUME pc \in {"row", "newsym", "machines"}, fixed[i] = fixed[h], fixed[i] # NoMakespan,
               Still(i), Still(h), Differ(i, h, RowsDone)
        PROVE  fixed[i] \in Waiting \/ Covered(i, h, j)
    BY <2>b DEF Awaited
  <2>1. CASE Call
    BY <2>1 DEF Call, Differ, RowsDone
  <2>2. CASE StartNewsym
    <3>1. /\ pc = "row" /\ pc' = "newsym" /\ UNCHANGED <<dom, j, fixed, found>>
          /\ Waiting' = Waiting
      BY <2>2 DEF StartNewsym, Waiting, Control
    <3>. QED
      BY <2>b, <3>1 DEF Still, Differ, RowsDone, Covered
  <2>3. CASE SkipNewsym \/ EndNewsym
    <3>1. /\ pc \in {"row", "newsym"} /\ pc' = "machines" /\ m' = 0 /\ j \in Jobs
          /\ UNCHANGED <<dom, j, fixed, found>> /\ Waiting' = Waiting
      <4>1. CASE SkipNewsym
        BY <4>1, <2>a, SizeAssumption DEF SkipNewsym, StartMachines, Waiting, Jobs
      <4>2. CASE EndNewsym
        BY <4>2, <2>a DEF EndNewsym, StartMachines, Waiting
      <4>. QED
        BY <2>3, <4>1, <4>2
    <3>2. dom[j][i] = "zero" /\ dom[j][h] = "zero"
      BY <3>1, <2>a, SizeAssumption DEF Still, Machines
    <3>3. Differ(i, h, j + 1)
      BY <3>1 DEF Differ, RowsDone
    <3>4. Differ(i, h, j)
      BY <3>1, <3>2, <3>3, SameRow
    <3>. QED
      BY <2>b, <3>1, <3>4 DEF Still, RowsDone, Covered
  <2>4. CASE Defer
    <3>1. /\ pc = "newsym" /\ pc' = "newsym" /\ UNCHANGED <<dom, j, m, fixed, found>>
          /\ Waiting' = Waiting
      BY <2>4 DEF Defer, Waiting
    <3>. QED
      BY <2>b, <3>1 DEF Still, Differ, RowsDone, Covered
  <2>5. CASE Record
    <3>1. /\ pc = "newsym" /\ pc' = "newsym" /\ UNCHANGED <<dom, j, m, fixed, reinsert>>
      BY <2>5 DEF Record
    <3>2. PICK v \in todo :
            /\ todo' = todo \ {v}
            /\ found' = found \cup {[start |-> j, cols |-> Columns(v),
                                     ncols |-> GetImageInt(makespans, v)]}
      BY <2>5 DEF Record
    <3>3. fixed[i] \in Waiting \/ Covered(i, h, j)
      BY <2>b, <3>1 DEF Still, Differ, RowsDone
    <3>4. CASE fixed[i] = v
      <4>1. v \in Nat
        BY <2>a, <3>1, <3>4 DEF NoMakespan
      <4>2. Columns(v) = Class(fixed, v)
        BY <3>1, <3>4, <4>1, ColumnsAreClass DEF Active
      <4>3. {i, h} \subseteq Columns(v)
        BY <3>1, <3>4, <4>2 DEF Class
      <4> DEFINE s == [start |-> j, cols |-> Columns(v), ncols |-> GetImageInt(makespans, v)]
      <4>4. s \in found' /\ s.start <= j' /\ {i, h} \subseteq s.cols
        BY <2>a, <3>1, <3>2, <4>3
      <4>. QED
        BY <4>4 DEF Covered
    <3>5. CASE fixed[i] # v
      BY <3>1, <3>2, <3>3, <3>5 DEF Waiting, Covered
    <3>. QED
      BY <3>4, <3>5
  <2>6. CASE Undetermined \/ FixedToZero \/ Unfixed
    <3>1. /\ pc = "machines" /\ pc' = "machines" /\ m' = m + 1 /\ UNCHANGED <<dom, j, newsym, found>>
          /\ \/ fixed' = fixed /\ (fixed[m] = NoMakespan \/ dom[j][m] = "zero")
             \/ fixed' = [fixed EXCEPT ![m] = NoMakespan]
      BY <2>6 DEF Undetermined, FixedToZero, Unfixed
    <3>2. fixed'[i] = fixed[i] /\ fixed'[h] = fixed[h]
      BY <2>a, <3>1
    <3>3. ASSUME NEW k \in {i, h} PROVE Still(k)
      <4>1. k = m => dom[j][m] = "zero"
        BY <2>a, <3>1, <3>2
      <4>2. k < m + 1 \/ dom[j][k] = "zero"
        BY <3>1 DEF Still
      <4>. QED
        BY <2>a, <4>1, <4>2 DEF Still
    <3>4. Still(i) /\ Still(h) /\ Differ(i, h, RowsDone)
      BY <3>1, <3>3 DEF Differ, RowsDone
    <3>. QED
      BY <2>b, <3>1, <3>2, <3>4 DEF Waiting, Covered
  <2>7. CASE FixedToOne
    <3> DEFINE new == fixed[m] + JobTimes[j]
    <3>1. /\ pc = "machines" /\ pc' = "machines" /\ m' = m + 1 /\ UNCHANGED <<dom, j, found>>
          /\ fixed' = [fixed EXCEPT ![m] = new] /\ newsym \subseteq newsym'
      BY <2>7 DEF FixedToOne
    <3>2. m \in Machines
      BY <2>7, <2>a, SizeAssumption DEF FixedToOne, Machines
    <3>3. /\ fixed'[m] = new
          /\ \A k \in Machines : k # m => fixed'[k] = fixed[k]
      BY <2>a, <3>1, <3>2
    <3>4. CASE i = m \/ h = m
      <4>1. PICK k \in {i, h} : k # m
        BY <3>4
      <4>2. fixed[k] = new /\ fixed'[i] = new
        BY <3>3, <3>4, <4>1
      <4>3. new \in newsym'
        BY <2>7, <4>1, <4>2, ComesUpon
      <4>. QED
        BY <3>1, <4>2, <4>3 DEF Waiting
    <3>5. CASE i # m /\ h # m
      <4>1. fixed'[i] = fixed[i] /\ fixed'[h] = fixed[h]
        BY <3>3, <3>5
      <4>2. Still(i) /\ Still(h) /\ Differ(i, h, RowsDone)
        BY <2>a, <3>1, <3>5 DEF Still, Differ, RowsDone
      <4>. QED
        BY <2>b, <3>1, <4>1, <4>2 DEF Waiting, Covered
    <3>. QED
      BY <3>4, <3>5
  <2>8. CASE EndRow
    <3>1. /\ pc = "machines" /\ pc' = "row" /\ m = NMachines /\ j' = j + 1
          /\ UNCHANGED <<dom, fixed, newsym, found>>
      BY <2>8 DEF EndRow
    <3>2. Still(i) /\ Still(h) /\ Differ(i, h, RowsDone)
      BY <2>a, <3>1 DEF Still, Differ, RowsDone
    <3>3. fixed[i] \in Waiting \/ Covered(i, h, j)
      BY <2>b, <3>1, <3>2
    <3>4. ASSUME Covered(i, h, j) PROVE Covered(i, h, j)'
      <4>1. PICK s \in found : s.start <= j /\ {i, h} \subseteq s.cols
        BY <3>4 DEF Covered
      <4>2. s.start \in Int
        BY DEF Reported, Submatrix, Jobs
      <4>. QED
        BY <2>a, <3>1, <4>1, <4>2 DEF Covered
    <3>. QED
      BY <3>1, <3>3, <3>4 DEF Waiting
  <2>9. CASE Return \/ Consume
    BY <2>9 DEF Return, Consume
  <2>10. CASE UNCHANGED vars
    BY <2>b, <2>10 DEF vars, Still, Differ, RowsDone, Waiting, Covered
  <2>. QED
    BY <2>1, <2>2, <2>3, <2>4, <2>5, <2>6, <2>7, <2>8, <2>9, <2>10 DEF Next
<1>. QED
  BY <1>1, <1>2, ControlInvariant, CountedInvariant, ReportedInvariant, PTL DEF Spec

(* Every pair that row t could tell apart is covered once t is looked at.   *)
LEMMA SettledInvariant == Spec => []Settled
<1>1. Init => Settled
  BY DEF Init, Settled
<1>2. Control /\ Control' /\ Loaded /\ Pending /\ Awaited /\ Settled /\ [Next]_vars => Settled'
  <2> SUFFICES ASSUME Control, Control', Loaded, Pending, Awaited, Settled, [Next]_vars,
                      pc' # "idle",
                      NEW i \in Machines, NEW h \in Machines, NEW t \in Jobs, i # h,
                      Interchangeable(i, h, t)', LookedAt(t)'
               PROVE  Covered(i, h, t)'
    BY DEF Settled
  <2>a. /\ fixed \in [Machines -> Nat \cup {NoMakespan}]
        /\ j \in 0 .. NJobs /\ m \in 0 .. NMachines /\ t \in 0 .. NJobs - 1 /\ NJobs \in Nat
        /\ pc \in {"newsym", "machines"} => j \in Jobs
    BY SizeAssumption DEF Control, Jobs, Machines
  <2>b. ASSUME dom' = dom, LookedAt(t), pc # "idle", found \subseteq found'
        PROVE  Covered(i, h, t)'
    <3>1. Interchangeable(i, h, t)
      BY <2>b DEF Interchangeable, Column
    <3>2. Covered(i, h, t)
      BY <2>b, <3>1 DEF Settled
    <3>. QED
      BY <2>b, <3>2 DEF Covered
  <2>1. CASE Call
    BY <2>1, <2>a DEF Call, LookedAt
  <2>2. CASE StartNewsym \/ Defer \/ Record \/ Undetermined \/ FixedToZero \/ FixedToOne \/ Unfixed
    <3>1. /\ dom' = dom /\ pc # "idle" /\ found \subseteq found' /\ j' = j
          /\ pc' = pc \/ (pc = "row" /\ pc' = "newsym")
      BY <2>2 DEF StartNewsym, Defer, Record, Undetermined, FixedToZero, FixedToOne, Unfixed
    <3>2. LookedAt(t)
      BY <3>1 DEF LookedAt
    <3>. QED
      BY <2>b, <3>1, <3>2
  <2>3. CASE SkipNewsym \/ EndNewsym
    <3>1. /\ pc \in {"row", "newsym"} /\ pc' = "machines" /\ UNCHANGED <<dom, j, found>>
          /\ t < j \/ t = j
      BY <2>3 DEF SkipNewsym, EndNewsym, StartMachines, LookedAt
    <3>2. CASE t < j
      BY <2>b, <3>1, <3>2 DEF LookedAt
    <3>3. CASE t = j
      <4>1. Interchangeable(i, h, j)
        BY <3>1, <3>3 DEF Interchangeable, Column
      <4>2. LoadOf(fixed[i], Column(i), j) /\ LoadOf(fixed[h], Column(h), j)
        BY <3>1 DEF Loaded, Active, Seen
      <4>3. 0 .. j - 1 \subseteq Jobs
        BY <2>a DEF Jobs
      <4>4. \A k \in 0 .. j - 1 : Column(i)[k] # "free" /\ Column(h)[k] # "free"
        BY <4>1, <4>3 DEF Interchangeable, Column
      <4>5. fixed[i] = Load(Column(i), j) /\ fixed[h] = Load(Column(h), j) /\ fixed[i] # NoMakespan
        BY <4>2, <4>4 DEF LoadOf
      <4>6. fixed[i] = fixed[h]
        BY <4>1, <4>5 DEF Interchangeable
      <4>7. Differ(i, h, RowsDone) /\ Still(i) /\ Still(h)
        BY <3>1, <4>1 DEF Interchangeable, Differ, RowsDone, Still
      <4>8. fixed[i] \in Waiting \/ Covered(i, h, j)
        BY <3>1, <4>5, <4>6, <4>7 DEF Awaited
      <4>9. fixed[i] \notin Waiting
        <5>1. CASE SkipNewsym
          BY <5>1 DEF SkipNewsym, Waiting
        <5>2. CASE EndNewsym
          <6>1. Waiting = reinsert /\ pc = "newsym"
            BY <5>2 DEF EndNewsym, Waiting
          <6>2. fixed[i] \in reinsert => dom[j][i] = "zero" /\ dom[j][h] = "zero"
            BY <4>6, <6>1 DEF Pending
          <6>. QED
            BY <4>1, <6>1, <6>2 DEF Interchangeable
        <5>. QED
          BY <2>3, <5>1, <5>2
      <4>. QED
        BY <3>1, <3>3, <4>8, <4>9 DEF Covered
    <3>. QED
      BY <3>1, <3>2, <3>3
  <2>4. CASE EndRow
    <3>1. /\ pc = "machines" /\ m = NMachines /\ UNCHANGED <<dom, found>>
          /\ \/ undet /\ pc' = "clear" /\ j' = j
             \/ pc' = "row" /\ j' = j + 1
      BY <2>4 DEF EndRow
    <3>2. CASE t <= j
      <4>1. LookedAt(t)
        BY <2>a, <3>1, <3>2 DEF LookedAt
      <4>. QED
        BY <2>b, <3>1, <4>1
    <3>3. CASE t > j
      <4>1. undet
        BY <2>a, <3>1, <3>3 DEF LookedAt
      <4>2. i < m
        BY <3>1, SizeAssumption DEF Machines
      <4>3. fixed[i] = NoMakespan
        BY <3>1, <4>1, <4>2 DEF Control
      <4>4. LoadOf(fixed[i], Column(i), j + 1)
        BY <3>1, <4>2 DEF Loaded, Active, Seen
      <4>5. PICK k \in 0 .. j : Column(i)[k] = "free"
        BY <2>a, <4>3, <4>4 DEF LoadOf
      <4>6. k \in Jobs /\ k \in 0 .. t - 1
        BY <2>a, <3>3 DEF Jobs
      <4>7. dom[k][i] = "free"
        BY <4>5, <4>6 DEF Column
      <4>. QED
        BY <3>1, <4>6, <4>7 DEF Interchangeable
    <3>. QED
      BY <2>a, <3>2, <3>3
  <2>5. CASE Return
    <3>1. /\ UNCHANGED <<dom, found>> /\ pc # "idle"
          /\ pc = "clear" \/ (pc = "row" /\ j = NJobs)
      BY <2>5 DEF Return
    <3>2. LookedAt(t)
      BY <2>a, <3>1 DEF LookedAt
    <3>. QED
      BY <2>b, <3>1, <3>2
  <2>6. CASE Consume
    BY <2>6 DEF Consume
  <2>7. CASE UNCHANGED vars
    BY <2>b, <2>7 DEF vars, LookedAt
  <2>. QED
    BY <2>1, <2>2, <2>3, <2>4, <2>5, <2>6, <2>7 DEF Next
<1>. QED
  BY <1>1, <1>2, ControlInvariant, LoadedInvariant, PendingInvariant, AwaitedInvariant,
     PTL DEF Spec

(* The handler is complete: a pair of machines that a row could tell apart, *)
(* interchangeable from that row on and different above, is in a submatrix  *)
(* that is handed out, whatever is deferred and wherever the loop ends.     *)
THEOREM NothingIsMissed == Spec => []NothingMissed
<1>1. Settled => NothingMissed
  BY DEF Settled, NothingMissed, LookedAt, Covered
<1>. QED
  BY <1>1, SettledInvariant, PTL

-------------------------------------------------------------------------------
(***************************************************************************)
(* The sizes of the buffers. If a job runs on at most one machine, each    *)
(* makespan in newsym has two machines of its own: they have it, or had it *)
(* when they came to an entry that is not fixed.                           *)
(***************************************************************************)

(* A job runs on at most one machine. *)
OneMachine == \A r \in Rows : \A i, h \in Machines : r[i] = "one" /\ r[h] = "one" => i = h

(* Machine i has makespan v, or had it when its makespan got undetermined.  *)
FirstFree(i, k) == dom[k][i] = "free" /\ \A l \in 0 .. k - 1 : dom[l][i] # "free"
StoppedAt(i, v) == \E k \in 0 .. Seen(i) - 1 : FirstFree(i, k) /\ Load(Column(i), k) = v
Last(i, v)      == (v # NoMakespan /\ fixed[i] = v) \/ StoppedAt(i, v)

Paired ==
  Active => \A v \in newsym : \E i, h \in Machines : i # h /\ Last(i, v) /\ Last(h, v)

(* As long as no machine has been given job j, the makespans in newsym are  *)
(* those that were deferred.                                                *)
NoneYet ==
  pc = "machines" /\ (\A i \in Machines : i < m => dom[j][i] # "one") =>
    \A v \in newsym : \A i \in Machines : fixed[i] = v => dom[j][i] = "zero"

LEMMA NoneYetInvariant == Spec => []NoneYet
<1>1. Init => NoneYet
  BY DEF Init, NoneYet
<1>2. Control /\ Pending /\ NoneYet /\ [Next]_vars => NoneYet'
  <2> SUFFICES ASSUME Control, Pending, NoneYet, [Next]_vars, pc' = "machines",
                      \A i \in Machines : i < m' => dom'[j'][i] # "one",
                      NEW v \in newsym', NEW i \in Machines, fixed'[i] = v
               PROVE  dom'[j'][i] = "zero"
    BY DEF NoneYet
  <2>a. /\ fixed \in [Machines -> Nat \cup {NoMakespan}] /\ newsym \subseteq Nat
        /\ j \in 0 .. NJobs /\ m \in 0 .. NMachines
    BY DEF Control
  <2>1. CASE SkipNewsym
    BY <2>1 DEF SkipNewsym
  <2>2. CASE EndNewsym
    BY <2>2 DEF EndNewsym, Pending
  <2>3. CASE Undetermined \/ FixedToZero \/ Unfixed
    <3>1. /\ pc = "machines" /\ m' = m + 1 /\ UNCHANGED <<dom, j, newsym>>
          /\ fixed' = fixed \/ fixed' = [fixed EXCEPT ![m] = NoMakespan]
      BY <2>3 DEF Undetermined, FixedToZero, Unfixed
    <3>2. \A h \in Machines : h < m => dom[j][h] # "one"
      BY <2>a, <3>1, SizeAssumption DEF Machines
    <3>3. fixed[i] = v
      BY <2>a, <3>1 DEF NoMakespan
    <3>. QED
      BY <3>1, <3>2, <3>3 DEF NoneYet
  <2>4. CASE FixedToOne
    <3>1. m \in Machines /\ m < m' /\ dom'[j'][m] = "one"
      BY <2>4, <2>a, SizeAssumption DEF FixedToOne, Machines
    <3>. QED
      BY <3>1
  <2>5. CASE Call \/ StartNewsym \/ Defer \/ Record \/ EndRow \/ Return \/ Consume
    BY <2>5 DEF Call, StartNewsym, Defer, Record, EndRow, Return, Consume
  <2>6. CASE UNCHANGED vars
    BY <2>6 DEF vars, NoneYet
  <2>. QED
    BY <2>1, <2>2, <2>3, <2>4, <2>5, <2>6 DEF Next
<1>. QED
  BY <1>1, <1>2, ControlInvariant, PendingInvariant, PTL DEF Spec

(* A makespan is marked only when another machine has it. *)
LEMMA FreshIsShared ==
  ASSUME Control, Counted, FixedToOne, newsym' # newsym
  PROVE  \E h \in Machines : h # m /\ fixed[h] = fixed[m] + JobTimes[j]
<1> DEFINE left == Decrease(makespans, fixed[m])
           f    == [fixed EXCEPT ![m] = NoMakespan]
           new  == fixed[m] + JobTimes[j]
<1>1. m \in Machines /\ fixed[m] \in Nat /\ JobTimes[j] \in Nat
      /\ fixed \in [Machines -> Nat \cup {NoMakespan}]
  BY TimeAssumption, SizeAssumption DEF Control, FixedToOne, Machines, Jobs, NoMakespan
<1>2. fixed[m] # NoMakespan /\ Counts(makespans, fixed)
  BY DEF FixedToOne, Counted, Active
<1>3. Counts(left, f)
  BY <1>1, <1>2, Leave
<1>4. GetImageInt(left, new) # INT_MAX
  BY DEF FixedToOne
<1>5. new \in DOMAIN left
  BY <1>4 DEF GetImageInt
<1>6. PICK h \in Machines : f[h] = new
  BY <1>3, <1>5 DEF Counts
<1>7. h # m
  BY <1>1, <1>6 DEF NoMakespan
<1>. QED
  BY <1>1, <1>6, <1>7

LEMMA PairedInvariant == ASSUME OneMachine PROVE Spec => []Paired
<1>1. Init => Paired
  BY DEF Init, Paired, Active
<1>2. Control /\ Control' /\ Counted /\ Loaded /\ NoneYet /\ Paired /\ [Next]_vars => Paired'
  <2> SUFFICES ASSUME Control, Control', Counted, Loaded, NoneYet, Paired, [Next]_vars,
                      Active', NEW v \in newsym'
               PROVE  \E i, h \in Machines : i # h /\ Last(i, v)' /\ Last(h, v)'
    BY DEF Paired
  <2>a. /\ fixed \in [Machines -> Nat \cup {NoMakespan}] /\ newsym \subseteq Nat
        /\ j \in 0 .. NJobs /\ m \in 0 .. NMachines /\ NMachines \in Nat
        /\ dom \in [Jobs -> Rows]
    BY SizeAssumption DEF Control
  <2>b. \A i \in Machines : Seen(i) \in Nat /\ i \in Int /\ i < NMachines
    BY <2>a DEF Seen, Machines
  <2>c. ASSUME Active, v \in newsym, dom' = dom, fixed' = fixed,
               \A i \in Machines : Seen(i)' \in Nat /\ Seen(i) <= Seen(i)'
        PROVE  \E i, h \in Machines : i # h /\ Last(i, v)' /\ Last(h, v)'
    <3>1. PICK i \in Machines, h \in Machines : i # h /\ Last(i, v) /\ Last(h, v)
      BY <2>c DEF Paired
    <3>2. ASSUME NEW k \in Machines, Last(k, v) PROVE Last(k, v)'
      <4>1. 0 .. Seen(k) - 1 \subseteq 0 .. Seen(k)' - 1
        BY <2>b, <2>c
      <4>. QED
        BY <2>c, <3>2, <4>1 DEF Last, StoppedAt, FirstFree, Column
    <3>. QED
      BY <3>1, <3>2
  <2>1. CASE Call
    BY <2>1 DEF Call, Control, Active
  <2>2. CASE StartNewsym \/ SkipNewsym \/ Defer \/ Record \/ EndNewsym
    <3>1. /\ Active /\ newsym' \subseteq newsym /\ UNCHANGED <<dom, fixed, j>>
          /\ pc \in {"row", "newsym"} /\ (pc' = "machines" => m' = 0) /\ pc' # "clear"
      BY <2>2 DEF StartNewsym, SkipNewsym, Defer, Record, EndNewsym, StartMachines, Control, Active
    <3>2. \A i \in Machines : Seen(i)' = Seen(i)
      BY <2>b, <3>1, SizeAssumption DEF Seen, Machines
    <3>. QED
      BY <2>b, <2>c, <3>1, <3>2
  <2>3. CASE Undetermined \/ FixedToZero
    <3>1. /\ Active /\ newsym' = newsym /\ UNCHANGED <<dom, fixed, j, pc>>
          /\ pc = "machines" /\ m' = m + 1
      BY <2>3 DEF Undetermined, FixedToZero, Active
    <3>2. \A i \in Machines : Seen(i)' \in Nat /\ Seen(i) <= Seen(i)'
      BY <2>a, <2>b, <3>1 DEF Seen
    <3>. QED
      BY <2>c, <3>1, <3>2
  <2>4. CASE EndRow
    <3>1. /\ Active /\ newsym' = newsym /\ UNCHANGED <<dom, fixed>> /\ pc = "machines" /\ m = NMachines
          /\ (pc' = "clear" /\ j' = j) \/ (pc' = "row" /\ j' = j + 1)
      BY <2>4 DEF EndRow, Active
    <3>2. \A i \in Machines : Seen(i)' = Seen(i)
      BY <2>a, <2>b, <3>1 DEF Seen
    <3>. QED
      BY <2>b, <2>c, <3>1, <3>2
  <2>5. CASE FixedToOne
    <3> DEFINE new == fixed[m] + JobTimes[j]
    <3>1. /\ pc = "machines" /\ pc' = "machines" /\ m' = m + 1 /\ UNCHANGED <<dom, j>>
          /\ fixed' = [fixed EXCEPT ![m] = new] /\ newsym' \subseteq newsym \cup {new}
          /\ dom[j][m] = "one" /\ fixed[m] # NoMakespan
      BY <2>5 DEF FixedToOne
    <3>2. m \in Machines /\ new \in Nat /\ j \in Jobs
      BY <2>5, <2>a, SizeAssumption, TimeAssumption DEF FixedToOne, Machines, Jobs, Control, NoMakespan
    <3>3. /\ fixed'[m] = new
          /\ \A k \in Machines : k # m => fixed'[k] = fixed[k]
      BY <2>a, <3>1, <3>2
    <3>4. CASE v \in newsym
      <4>1. \A i \in Machines : i < m => dom[j][i] # "one"
        BY <2>a, <2>b, <3>1, <3>2 DEF OneMachine
      <4>2. fixed[m] # v
        BY <3>1, <3>2, <3>4, <4>1 DEF NoneYet
      <4>3. ~StoppedAt(m, v)
        <5>1. LoadOf(fixed[m], Column(m), j)
          BY <2>b, <3>1, <3>2 DEF Loaded, Active, Seen
        <5>2. Seen(m) = j
          BY <2>a, <3>1 DEF Seen
        <5>3. 0 .. j - 1 \subseteq Jobs
          BY <3>2, SizeAssumption DEF Jobs
        <5>. QED
          BY <3>1, <5>1, <5>2, <5>3 DEF LoadOf, StoppedAt, FirstFree, Column
      <4>4. PICK i \in Machines, h \in Machines : i # h /\ Last(i, v) /\ Last(h, v)
        BY <3>1, <3>4 DEF Paired, Active
      <4>5. ASSUME NEW k \in Machines, Last(k, v) PROVE Last(k, v)'
        <5>1. k # m
          BY <4>2, <4>3, <4>5 DEF Last
        <5>2. Seen(k)' = Seen(k)
          BY <2>a, <2>b, <3>1, <5>1 DEF Seen
        <5>. QED
          BY <3>1, <3>3, <4>5, <5>1, <5>2 DEF Last, StoppedAt, FirstFree, Column
      <4>. QED
        BY <4>4, <4>5
    <3>5. CASE v \notin newsym
      <4>1. v = new /\ newsym' # newsym
        BY <3>1, <3>5
      <4>2. PICK h \in Machines : h # m /\ fixed[h] = new
        BY <2>5, <4>1, <3>2, FreshIsShared
      <4>3. PICK x \in Machines : x = m
        BY <3>2
      <4>4. v # NoMakespan /\ fixed'[x] = v /\ fixed'[h] = v
        BY <3>2, <3>3, <4>1, <4>2, <4>3 DEF NoMakespan
      <4>5. Last(x, v)' /\ Last(h, v)'
        BY <4>4 DEF Last
      <4>. QED
        BY <4>2, <4>3, <4>5
    <3>. QED
      BY <3>4, <3>5
  <2>6. CASE Unfixed
    <3>1. /\ pc = "machines" /\ pc' = "machines" /\ m' = m + 1 /\ UNCHANGED <<dom, j, newsym>>
          /\ fixed' = [fixed EXCEPT ![m] = NoMakespan] /\ dom[j][m] = "free" /\ fixed[m] # NoMakespan
      BY <2>6 DEF Unfixed
    <3>2. m \in Machines /\ j \in Nat
      BY <2>6, <2>a, SizeAssumption DEF Unfixed, Machines
    <3>3. \A k \in Machines : k # m => fixed'[k] = fixed[k]
      BY <2>a, <3>1, <3>2
    <3>4. PICK i \in Machines, h \in Machines : i # h /\ Last(i, v) /\ Last(h, v)
      BY <3>1 DEF Paired, Active
    <3>5. ASSUME NEW k \in Machines, Last(k, v), k # m PROVE Last(k, v)'
      <4>1. Seen(k)' = Seen(k)
        BY <2>a, <2>b, <3>1, <3>5 DEF Seen
      <4>. QED
        BY <3>1, <3>3, <3>5, <4>1 DEF Last, StoppedAt, FirstFree, Column
    <3>6. ASSUME NEW x \in Machines, x = m, Last(x, v) PROVE Last(x, v)'
      <4>1. LoadOf(fixed[x], Column(x), Seen(x))
        BY <3>1 DEF Loaded, Active
      <4>2. Seen(x) = j /\ Seen(x)' = j + 1
        BY <2>a, <2>b, <3>1, <3>6 DEF Seen
      <4>3. \A k \in 0 .. j - 1 : dom[k][x] # "free"
        <5>1. 0 .. j - 1 \subseteq Jobs
          BY <2>a, SizeAssumption DEF Jobs
        <5>. QED
          BY <3>1, <3>6, <4>1, <4>2, <5>1 DEF LoadOf, Column
      <4>4. ~StoppedAt(x, v)
        BY <4>2, <4>3 DEF StoppedAt, FirstFree
      <4>5. v = Load(Column(x), j)
        BY <3>1, <3>6, <4>1, <4>2, <4>4 DEF Last, LoadOf
      <4>6. j \in 0 .. Seen(x)' - 1
        BY <3>2, <4>2
      <4>7. FirstFree(x, j)'
        BY <3>1, <3>6, <4>3 DEF FirstFree
      <4>8. Load(Column(x), j)' = v
        BY <3>1, <4>5 DEF Column
      <4>9. PICK k \in Nat : k = j
        BY <3>2
      <4>10. k \in 0 .. Seen(x)' - 1 /\ FirstFree(x, k)' /\ Load(Column(x), k)' = v
        BY <3>1, <4>6, <4>7, <4>8, <4>9 DEF FirstFree, Column
      <4>. QED
        BY <4>10 DEF Last, StoppedAt
    <3>. QED
      BY <3>2, <3>4, <3>5, <3>6
  <2>7. CASE Return \/ Consume
    BY <2>7 DEF Return, Consume, Active
  <2>8. CASE UNCHANGED vars
    BY <2>8, <2>b, <2>c DEF vars, Active, Seen
  <2>. QED
    BY <2>1, <2>2, <2>3, <2>4, <2>5, <2>6, <2>7, <2>8 DEF Next
<1>. QED
  BY <1>1, <1>2, ControlInvariant, CountedInvariant, LoadedInvariant, NoneYetInvariant,
     PTL DEF Spec

(* A machine had one makespan last. *)
LEMMA LastIsUnique ==
  ASSUME Control, Loaded, Active, NEW i \in Machines, NEW v \in Nat, NEW w \in Nat,
         Last(i, v), Last(i, w)
  PROVE  v = w
<1>1. LoadOf(fixed[i], Column(i), Seen(i))
  BY DEF Loaded
<1>2. Seen(i) \in Nat /\ 0 .. Seen(i) - 1 \subseteq Jobs /\ fixed[i] \in Nat \cup {NoMakespan}
  BY SizeAssumption DEF Control, Seen, Jobs, Machines, Active
<1>3. CASE fixed[i] # NoMakespan
  <2>1. \A k \in 0 .. Seen(i) - 1 : dom[k][i] # "free"
    BY <1>1, <1>2, <1>3 DEF LoadOf, Column
  <2>. QED
    BY <2>1 DEF Last, StoppedAt, FirstFree
<1>4. CASE fixed[i] = NoMakespan
  <2>1. PICK k \in 0 .. Seen(i) - 1 : FirstFree(i, k) /\ Load(Column(i), k) = v
    BY <1>4 DEF Last, StoppedAt
  <2>2. PICK l \in 0 .. Seen(i) - 1 : FirstFree(i, l) /\ Load(Column(i), l) = w
    BY <1>4 DEF Last, StoppedAt
  <2>3. k = l
    BY <1>2, <2>1, <2>2 DEF FirstFree
  <2>. QED
    BY <2>1, <2>2, <2>3
<1>. QED
  BY <1>3, <1>4

(* Twice as many machines as makespans in newsym. *)
LEMMA TwoEach ==
  ASSUME Control, Loaded, Paired, Active
  PROVE  IsFiniteSet(newsym) /\ 2 * Cardinality(newsym) <= NMachines
<1> DEFINE one[v \in newsym] == CHOOSE i \in Machines : \E h \in Machines : i # h /\ Last(i, v) /\ Last(h, v)
           two[v \in newsym] == CHOOSE h \in Machines : one[v] # h /\ Last(h, v)
           both[p \in newsym \X (0 .. 1)] == IF p[2] = 0 THEN one[p[1]] ELSE two[p[1]]
<1>1. ASSUME NEW v \in newsym
      PROVE  /\ one[v] \in Machines /\ two[v] \in Machines /\ one[v] # two[v]
             /\ Last(one[v], v) /\ Last(two[v], v)
  <2>1. \E i \in Machines : \E h \in Machines : i # h /\ Last(i, v) /\ Last(h, v)
    BY DEF Paired
  <2>2. one[v] \in Machines /\ \E h \in Machines : one[v] # h /\ Last(one[v], v) /\ Last(h, v)
    BY <2>1
  <2>3. two[v] = CHOOSE h \in Machines : one[v] # h /\ Last(h, v)
    OBVIOUS
  <2>. QED
    BY <2>2, <2>3
<1> HIDE DEF one, two
<1>2. newsym \subseteq Nat
  BY DEF Control
<1>3. IsFiniteSet(Machines) /\ Cardinality(Machines) = NMachines
  <2>1. 0 \in Int /\ NMachines - 1 \in Int
    BY SizeAssumption
  <2>2. IsFiniteSet(0 .. NMachines - 1)
        /\ Cardinality(0 .. NMachines - 1)
             = IF 0 > NMachines - 1 THEN 0 ELSE (NMachines - 1) - 0 + 1
    BY <2>1, FS_Interval
  <2>. QED
    BY <2>2, SizeAssumption DEF Machines
<1>4. IsFiniteSet(newsym)
  <2> DEFINE f == [v \in newsym |-> one[v]]
  <2>1. f \in Injection(newsym, Machines)
    BY <1>1, <1>2, LastIsUnique DEF Injection, IsInjective
  <2>. QED
    BY <2>1, <1>3, FS_Injection
<1>5. both \in Injection(newsym \X (0 .. 1), Machines)
  <2>1. both \in [newsym \X (0 .. 1) -> Machines]
    BY <1>1
  <2>2. ASSUME NEW p \in newsym \X (0 .. 1), NEW q \in newsym \X (0 .. 1), both[p] = both[q]
        PROVE  p = q
    <3>1. p[1] \in newsym /\ q[1] \in newsym /\ p[2] \in 0 .. 1 /\ q[2] \in 0 .. 1
          /\ p = <<p[1], p[2]>> /\ q = <<q[1], q[2]>>
      OBVIOUS
    <3>2. both[p] \in Machines /\ Last(both[p], p[1]) /\ Last(both[q], q[1])
      BY <1>1, <3>1
    <3>3. p[1] = q[1]
      BY <1>2, <2>2, <3>1, <3>2, LastIsUnique
    <3>4. p[2] = q[2]
      BY <1>1, <2>2, <3>1, <3>3
    <3>. QED
      BY <3>1, <3>3, <3>4
  <2> HIDE DEF both
  <2>. QED
    BY <2>1, <2>2 DEF Injection, IsInjective
<1>6. IsFiniteSet(0 .. 1) /\ Cardinality(0 .. 1) = 2
  <2>1. 0 \in Int /\ 1 \in Int
    OBVIOUS
  <2>2. IsFiniteSet(0 .. 1) /\ Cardinality(0 .. 1) = IF 0 > 1 THEN 0 ELSE 1 - 0 + 1
    BY <2>1, FS_Interval
  <2>. QED
    BY <2>2
<1>7. Cardinality(newsym \X (0 .. 1)) = Cardinality(newsym) * 2
  BY <1>4, <1>6, FS_Product
<1>8. Cardinality(newsym \X (0 .. 1)) <= NMachines
  BY <1>3, <1>5, FS_Injection
<1>9. Cardinality(newsym) \in Nat
  BY <1>4, FS_CardinalityType
<1>. QED
  BY <1>4, <1>7, <1>8, <1>9, SizeAssumption

(* The two hash maps never hold more than half as many makespans as there   *)
(* are machines, if a job runs on at most one machine: the size for which   *)
(* reinsertmakespans is allocated.                                          *)
THEOREM BuffersLargeEnough == ASSUME OneMachine PROVE Spec => []HalfTheMachines
<1>1. Control /\ Loaded /\ Paired => HalfTheMachines
  <2> SUFFICES ASSUME Control, Loaded, Paired PROVE HalfTheMachines
    OBVIOUS
  <2>1. IsFiniteSet(newsym) /\ 2 * Cardinality(newsym) <= NMachines
    <3>1. CASE Active
      BY <3>1, TwoEach
    <3>2. CASE ~Active
      <4>1. newsym = {}
        BY <3>2 DEF Control
      <4>. QED
        BY <4>1, FS_EmptySet, SizeAssumption
    <3>. QED
      BY <3>1, <3>2
  <2>2. IsFiniteSet(reinsert) /\ Cardinality(reinsert) <= Cardinality(newsym)
    BY <2>1, FS_Subset DEF Control
  <2>3. Cardinality(newsym) \in Nat /\ Cardinality(reinsert) \in Nat
    BY <2>1, <2>2, FS_CardinalityType
  <2>. QED
    BY <2>1, <2>2, <2>3, SizeAssumption DEF HalfTheMachines
<1>. QED
  BY <1>1, ControlInvariant, LoadedInvariant, PairedInvariant, PTL
===============================================================================
