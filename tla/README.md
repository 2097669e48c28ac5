# Activation handlers for sub-symmetries: specifications, checks and proofs

The repository adds *activation handlers* to SCIP. An orbitope constraint
handles the symmetry of a 0/1 matrix whose columns are interchangeable, by
keeping only solutions whose columns are sorted. Deep in the search tree, parts
of a matrix become symmetric that are not symmetric at the root. An activation
handler looks for such parts, at every node and from the local bounds, and the
orbitope constraint then propagates each of them as if it were an orbitope of
its own.

The correctness of the whole rests on two statements. What the handler reports
must be symmetric at this node, and what the constraint handler does with it
must keep a solution of every orbit. Both are about every matrix of bounds; the
repository tests neither.

All paths below are relative to `src/scip/src/scip/`.

## 1. Inventory

| Part | State | Operations | Modelled in |
|---|---|---|---|
| Makespan handler, `activation_makespan.c` | per constraint: matrix, job times, two hash maps used as buffers; per handler: map from constraints to data | `findSubSymmetries`, registration, init, free, find | `Makespan` (search), `HandlerRegistry` (the rest) |
| Suborbitope handler, `activation_suborbitope.c` | matrix, heights of towers | `findPatternMatches`, registration | `Suborbitope`, `HandlerRegistry` |
| Colour-component handler, `activation_colorcomp.c` | graph, DFS stack, component buffers | three strategies, registration | `ColorComp`, `HandlerRegistry` |
| Interface and registry, `activation.c`, `scip_activation.c`, parts of `set.c` and `cons.c` | list of handlers, handler of a constraint, data by address | register, find, init, transform, free | `HandlerRegistry` |
| Packing/partitioning propagation, `cons_orbitope.c` 676-821, 986-1704 | local bounds; the frontier (`lastones`, `frontiersteps`), first non-zeros, verdict, count, conflict | `fixTriangle`, `fixTriangleSubmatrix`, `propagatePackingPartitioningCons`, `...Submatrix` | `PackingPropagation` step by step, `OrbitopalFixing` as a function |
| Callers, `cons_orbitope.c` 2279-2342, 3663-3704; `solve.c` 586-627 | list of submatrices, `nfixedvars`, result, the rounds of the solver | `propagateCons`, `consPropOrbitope`, `propagateDomains` | `PropagateCons` |
| Full orbitopes, `cons_orbitope.c` 1715-2274 | row order (shared by all nodes), lexicographically extreme faces | `findLexMinFace`, `findLexMaxFace`, `doPropagateFullOrbitope`, `computeDynamicRowOrder` and their callers | `LexFixing`, `FullOrbitope` |
| Conflict resolution, `cons_orbitope.c` 2356-2812 | inference information of past fixings, table of shifted columns | `resolvePropagation`, `resolvePropagationFullOrbitope` | `ConflictResolution`, `FullResolution` |
| Separation, enforcement, check, `cons_orbitope.c` 583-671, 830-985, 2985-3660 | LP and pseudo solutions, result | `separateSCIs`, `separateCoversOrbisack`, the callbacks | `ShiftedColumns`, `CoverCuts`, `OrbitopeEnforcement` |
| Creation and copying, `cons_orbitope.c` 313-444, 3933-3990, 4239-4390; `symmetry.c` 1104-1360 | flags, rows kept | `strengthenOrbitopeConstraint`, `SCIPisPackingPartitioningOrbitope`, create, transform, copy | `StrengthenOrbitope`, `OrbitopeFlags` |
| Hash map, `misc.c` | robin-hood table | insert, set, get, remove, clear, rebuild | `HashMap`, refined from `AssociativeMap`; by effect in `Makespan` |
| Rest of SCIP, Python bindings, experiments | | | section 6 |

How they interact. The solver calls `consPropOrbitope` at a node.
`propagateCons` propagates the whole matrix; if the constraint refers to an
activation handler, it asks the handler for a list of submatrices
(`SCIPactivationhdlrFindActivationData`), propagates them one after the other
and frees the list. For packing and partitioning orbitopes (2313-2320) it asks
whatever the verdict on the whole matrix is, for full ones only if there is
none. The handler reads the same bounds the propagator writes. Nothing runs
concurrently: what is hard here is the order in which bounds are read and
changed within one call, buffers that outlive a call, failures after part of the
work is done, and the protocol of registering, initialising and freeing that
SCIP's stages impose. `PROJECT.json` lists these hazards at the lines where they
bite.

What makes each part correct:

* *makespan handler*: the columns of a reported submatrix have the same, fixed
  makespan above it; no interchangeable pair of machines is overlooked; the
  counting map is exact; the buffers are empty between calls;
* *propagation*: no point of the orbitope is lost, a cutoff means there is none,
  the frontier stays inside the bar (and so inside the arrays), conflicts are
  reasons, the count of fixings is right, nothing is overlooked;
* *callers*: the results add up; with a list of submatrices found under some
  bounds no orbit of solutions is lost, although the first of them to be
  propagated changes the bounds under which the others were found;
* *registry*: constraints never refer to data that has been freed, an answer is
  about the constraint asked for and the problem being solved;
* *resolution*: the reason given for a fixing implies it and was in force before;
* *callbacks for solutions*: cuts hold in the orbitope and are violated by the
  solution, the check accepts exactly the orbitope, one result stands for all
  constraints;
* *creation*: a type is claimed only when every row kept has it; the flags should
  reach every copy, and do not (section 5);
* *hash map*: it is a partial function, whatever the hash values, and it never
  fills up.

## 2. Modules

| Module | What it says |
|---|---|
| `AscendingOrder` | a set of rows or columns in ascending order, as loops and sorts leave it |
| `SubSymmetrySource` | abstract: what the propagator expects of any activation handler |
| `Makespan`, `ColorComp`, `Suborbitope` | the searches of the three handlers, each refined from `SubSymmetrySource` |
| `HandlerRegistry` | the data the handlers keep, from registration to the end of SCIP |
| `PropagationStep` | abstract: what the solver expects of one propagation of one constraint |
| `PackingPropagation` | the two propagation functions and the two triangle functions, refined from `PropagationStep` |
| `OrbitopalFixing` | the same as a function of the bounds; `PackingPropagation` is shown to compute it |
| `SubmatrixBounds` | bounds seen through an order of rows and columns |
| `PropagateCons` | composition: solver loop, orbitope propagator, any activation handler |
| `LexFixing`, `FullOrbitope` | the faces of a full orbitope and what they fix; the tree of nodes with its shared row order |
| `ShiftedColumns` | the table of shifted columns, shared by resolution, separation and check |
| `ConflictResolution`, `FullResolution` | reasons for the fixings of `OrbitopalFixing` and `LexFixing` |
| `CoverCuts`, `OrbitopeEnforcement` | inequalities, and the callbacks that look at solutions |
| `StrengthenOrbitope`, `OrbitopeFlags` | what becomes of an orbitope when it is created, transformed and copied |
| `AssociativeMap`, `HashMap` | a partial function; the robin-hood table refined from it |
| `MCPackingPropagation`, `MCPacking`, `MCHandlers`, `MCPropagateCons`, `MCFullOrbitope`, `MCResolution`, `MCHashMap` | finite instances for TLC |
| `MakespanProofs`, `ColorCompProofs`, `SuborbitopeProofs`, `HandlerRegistryProofs`, `PackingPropagationProofs`, `FullOrbitopeProofs`, `EnforcementProofs`, `HashMapProofs` | theorems about the module named, and their proofs |

An MC module may hold several instances. It then has one more variable that says
whose behaviour it is (`kind`, `handler` or `size`); the variables of the others
keep their first values. The state space is the sum of theirs and not the
product, and each property is about one of them.

### Makespan

One call of the handler is a sequence of steps: the rows in order; in each row
first the new sub-symmetries (`StartNewsym`, then `Defer` or `Record` for each,
in any order because the code follows the slots of a hash table, then
`EndNewsym`), then the machines in order (`Undetermined`, `FixedToOne`,
`FixedToZero`, `Unfixed`). `Return` empties the maps, `Consume` stands for the
caller that frees the list. `Call` chooses a new node, with arbitrary bounds;
the two hash maps survive from call to call as in the code. Hash maps are
functions with a finite domain, and an absent key has the image `INT_MAX`, as
`SCIPhashmapGetImageInt` returns it. Times and sums are natural numbers: an
overflow of `int` is not modelled.

Variables: `fixed` is `fixedmakespan`, `undet` is `allundetermined`, `newsym` is
the key set of `newsymmakespans`, `todo` the slots the loop has yet to visit,
`reinsert` the used part of `reinsertmakespans`, `found` the list.

### ColorComp and Suborbitope

`ColorComp` follows the depth-first search push by push. `c1` and `c2` are the
loop counters over the colours (`InLoop`, `NextColor`); the strategy for single
colours has only the first. For each pick, `StartPick` removes vertices and
`SkipPick` goes on if none goes; then every vertex starts a component unless it
has been visited (`StartComponent`, `SkipVertex`); `Visit` pushes the vertex at
hand back and a neighbour on top, `Pop` drops it, `Record` sorts the component
into the list. `removed` is `removedvertices`, which also serves as the set of
visited vertices. The three strategies differ in `InLoop`, `Removed` and
`ColumnsOf`. The branch that gives up when a component is the whole graph
(`activation_colorcomp.c` 310-315) has no action, because it cannot be taken:
theorem `NeverTheWholeGraph`. The components with which `AllComponents` compares
the list are defined without a search, as the smallest sets of vertices without
neighbours outside.

`Suborbitope` has one step per row and list entry: `ScanRow` measures the towers
above the row and then adds the row to them, `RecordZeros` and `RecordOnes` put
the columns that are down, and those that are up, into the list.

### HandlerRegistry

Constraints are numbers, in the order of their creation; they lie at addresses,
which are used again after a deletion. `consmap` is the handler's hash map from
addresses to data, `data` everything it has allocated. The actions are the calls
of the user (`AddCons`, `DelCons`, `Register`, `SetActivationhdlr`), the stages
of SCIP (`Transform`, `ExitForReopt`, `InitAfterReopt`, `FreeTransform`,
`FreeScip`) and the look-up of the propagator (`FindActivationData`). `replaces`
tells the makespan and colour-component handlers, which overwrite their
variables by the transformed ones at initialisation (497 and 715), from the
sub-orbitope handler, which transforms them while it reads (250). `caller`
restricts what users do to one of the two calls no code of the repository makes,
so that the properties can name the one they do not hold for.

### PackingPropagation

The functions for the whole matrix and for submatrices have the same text but
for a few places, so one module describes both; the constant `Submatrix` selects
the function. The differences, each visible in the action named, are:

| | whole matrix | submatrix |
|---|---|---|
| verdict of the triangle (`Triangle`) | ignored, and the rows follow | returned |
| first row of the loop (`Triangle`) | 1 | 0 |
| fixing an entry beyond the frontier (`RowBlocked`, `RowFix`) | `SCIPinferBinvarCons`: reports entries that are one, resets the verdict if it succeeds | `SCIPchgVarUb`: leaves entries that are one, reports nothing, always counted |
| look-ahead (`Forced`, `ScanHit`) | fixes the step it has tested | fixes another entry (section 5) |

An action is one iteration of a loop. Within a row the loops over columns become
set expressions (`FirstNonzero`, `FreeBeforeOne`): the code stops at the first
entry that fails, and so does the set of fixings. `lastones` and `firstnz` are
functions on the rows written so far, so that reading a cell that has not been
written would be an error in TLC and an unprovable step in TLAPS. `conflict`
is the set of bounds handed to conflict analysis. The module describes the
release build that the repository's installation instructions produce, without
`ENABLE_CONFLICT_ANALYSIS_SUBMATRIX`, in the solving stage (`SCIPfixVar` and the
other functions that change bounds do what they do there), with conflict
analysis applicable. `istrianglefixed` is left out: it is set only when the
triangle is globally zero, and then `Triangle` changes nothing. Inference
information is left out; `ConflictResolution` has it.

A point of the orbitope is given by the column of the one in each row (-1 for
none), and `Orbitope` contains those whose columns are sorted lexicographically:
the definition of the polytope, not the characterisation the code uses. Deriving
the second from the first is part of the proofs (`OneAbove`, `BelowDiagonal`,
`NextColumn`).

### PropagateCons

One node: `EnterNode`, then rounds (`CallPropagator`). In a round the constraints
come one by one: `PropagateWhole`, `FindActivationData` if the constraint has a
handler, `PropagateSubmatrix` for each submatrix (`FreeSubmatrix` after a
verdict), `EndList`; then `Answer` sets the result and `Again` or `LeaveNode`
follows. A propagation is one step here, by the functions of `OrbitopalFixing`,
which `MCPacking` compares with `PackingPropagation` on every matrix. The handler
is any handler: `FindActivationData` returns any list of submatrices that satisfy
the contract `SubSymmetrySource` under the bounds at hand. The constant
`Symmetric` says what a sub-symmetry is, `Points` what a solution is. `domRound`
and `dom0` record bounds for the properties.

### LexFixing and FullOrbitope

`LexFixing` computes the two faces and the fixings as functions of the bounds.
In `FullOrbitope` the solver branches and comes back to nodes in any order
(`Branch`, `Revisit`), and the propagation of a node is the sequence of
`ComputeDynamicRowOrder`, `PropagateWhole`, `FindActivationData`,
`PropagateSubmatrix`/`FreeSubmatrix`, `EndList` and `Return`. `tree` keeps the
bounds of every node; `roworder` belongs to the constraint. `Submatrices` is what
the constraint's handler can find, with what its contract says of them as
assumptions: rows and columns are not empty and none comes twice
(`SubmatrixAssumption`); a sub-symmetry of a node is one of each of its
solutions (`SymmetryAssumption`), as a handler that looks at fixed entries only
cannot but have it. TLC evaluates both for the sub-orbitope handler.

### ConflictResolution and FullResolution

`ConflictResolution` runs orbitopal fixing row by row (`Row`, `LookAhead`) and
keeps, with every fixing, the leader the code stores and the bounds before it.
`Resolve` takes any of them, and the walk through the table (`WalkLeft`,
`WalkUp`, `WalkEnd`, `TakeBar`) collects the reason. `FullResolution` does the
same for full orbitopes, where nothing is stored and both faces are computed
again.

### CoverCuts, OrbitopeEnforcement, StrengthenOrbitope, OrbitopeFlags

`OrbitopeEnforcement` has a callback called with a solution and goes through the
constraints one by one; `CoverCuts` has the inequalities. Solutions have the
values 0 .. `one`, so that halves can be had without fractions. Whether adding a
row makes the LP infeasible (`SCIPaddRow`) is a free choice. `refused` stands for
`objinfeasible || solinfeasible`, with which `consEnfopsOrbitope` answers
`SCIP_FEASIBLE` before it has looked at a constraint (3568-3570, `Over`).
`CoverPair` reads the rows in the order of the matrix and all of them. With a
dynamic row order `separateCoversOrbisack` goes through the first `nrowsused` rows
in that order (3154 and 3171); that is the same with other names for the rows, for
the matrix of these rows alone, and a matrix sorted with respect to all rows is
sorted with respect to the first ones.

`StrengthenOrbitope` reads the set packing and partitioning constraints in any
order, and their variables in any order, because both orders depend on the
presolving before; then it drops rows. The scan asks for the row of a variable and
never for its column, so that a constraint is the number of its variables in each
row and outside of the matrix. `OrbitopeFlags` has the four flags, the
ways a constraint is created, and the argument order of each.

### HashMap

One step is one iteration of a probing loop; the calls are those of
`AssociativeMap`. The hash functions that TLC tries are given by the constant
`Hashes` (`AnyHash` in `MCHashMap`). The refinement reads the map off the slots
of the table; while an element is in `hand`, it belongs to the map as well. Powers
of two are a recursive function (`Pow2`), so that they can be proved about.

## 3. Runs

| Run | Instance | Shows |
|---|---|---|
| `packing` | every 3 x 3 matrix of bounds, both types, the function for the whole matrix and the one for submatrices | soundness, completeness, frontier, conflicts, count, both functions equal to `OrbitopalFixing`, `PropagationStep` |
| `handlers` | makespan: 3 jobs and 3 machines, and 5 jobs and 4 machines; colours: a path of 4 vertices, 4 colours, three strategies; sub-orbitope: 3 x 3, all bounds; registry: 2 addresses, 3 constraints, 2 transformations | what each handler reports is exactly what it should, and symmetric in the problem it comes from; the data it uses are the right ones; `SubSymmetrySource` |
| `cons_rounds` | 3 x 3, one constraint, lists of up to two submatrices, colourings and schedules, no limit on the rounds or two | composition: with three rows, representatives are kept although lists get stale; a node comes to an end, at a fixpoint |
| `full` | static order: 3 x 3 with submatrices of production units; dynamic order: 3 x 2 and a tree of 3 nodes; strengthening: 3 x 3, 4 x 2, and 3 x 2 with a variable outside | the same for full orbitopes; exactness of the faces; what an orbitope is strengthened to is justified |
| `resolution` | packing and partitioning 4 x 3, full 3 x 3; solutions of 3 x 3 packing, 4 x 2 partitioning, 3 x 2 full with halves, pairs of 2 x 2 | reasons are in force and imply; cuts, check and enforcement are right |
| `hashmap` | 3 origins and 2 images, 4 origins and 1 image, the hash functions up to names and a rotation | the table is a map, and every call ends |
| `cons_lookahead`, `packing_verdict`, `cons_two`, `cons_answer`, `resolve_tie`, `flags` | as above; 5 rows for `cons_lookahead` and `resolve_tie`; up to three constraints for `flags` | the disagreements of section 5 |

Deadlock is checked except where a behaviour has an end: one callback, one
resolution, the last constraint an instance allows, a tree of which the root has
been cut off. No symmetry reduction is used.

### Why the bounds are enough to be interesting

*Makespan.* Three machines are the fewest with a pair and a machine outside it;
two equal jobs let machines meet after different histories; the job of time zero
makes a machine meet its own makespan again, so that there is a sub-symmetry to
defer with rows left. In the wide instance the times 1, 1, 2, 2 let two pairs be
pending at once, and one machine reach by one long job what another reached by
two short ones; the fifth job still tells them apart.

*Colours.* A path 3 - 0 - 1 - 2, whose numbers are not in the order of the path,
gives components whose search order is not their row order, and a removal in the
middle gives two. Four colours leave a submatrix for each strategy beside the
colours that caused the removal.

*Propagation.* In a 3 x 3 matrix the frontier can be left behind, move, and
reach the border, and the look-ahead meets a row without room; all 19683
matrices are tried for each type and function. Two rows are too few for the
look-ahead.

*Composition.* Two submatrices are the fewest of which one makes the other's
bounds stale. The matrices of bounds have rows that are free, decided, or without
a one: closed under the constraints on the rows, as the solver leaves them when
it calls the propagator, so that lists are long and overlap. One constraint only,
because with two the error of `cons_two` hides everything else. A limit of two
rounds is the smallest at which a node is propagated again and then left. Three
rows are too few for the look-ahead of a submatrix to do harm: `cons_lookahead`
shows that with five a colouring can be lost (section 5). What `cons_rounds`
shows is therefore not true of all sizes, and no theorem says it.

*Full orbitopes.* Periods of minimum length 2 in three rows give towers that end
above the last row. A tree of three nodes has the two orders in which siblings
can be visited, and a visit after the row order has grown elsewhere. In `full`
one entry is left free so that there is something to fix; which entry it is does
not matter to the property, but 3^8 roots are as many as TLC can try.

*Resolution.* The walk needs a shifted column that moves right twice, so four
rows.

*Strengthening.* With as many rows as columns every threshold of the scan can be met
exactly; with 4 x 2 and a row to spare, rows are dropped or not by one. A variable
outside the matrix makes constraints longer than a row. The number of constraints
is not bounded.

*Hash map.* Widths are scaled: hash values of three bits, tables of 4, then 8
slots. Hash functions are taken up to the names of the elements and a rotation
of the table: one element is at home in the last slot and, unless all slots are
some element's home, none in the first, so that chains that go around the end of
the table are among them. A table is rebuilt at a load above 500/1024 or
700/1024, not 921/1024 as in the code, which at 4 slots would mean a full table:
the code's smallest table has 32 slots, and 29 of them in use are more elements
than TLC can follow. `NeverFull` needs of the constant that a table with one
empty slot already counts as too full: (n - 1) * 1024 / n, rounded down, is above
`MaxLoad` for the smallest number of slots n. It is 992 for 32 slots, 768 for 4.

### Fairness

The modelled code is sequential. Every statement is followed by the next one
unless the process dies, so that it is justified to assume that a call that has
begun goes on: `WF` of `Internal` in `HashMap`, of `Propagate` in
`PropagateCons`. `MCPropagateCons` states the latter as `NotStopped`, which is the
same because `Propagate` is enabled exactly while `pc` is not `"idle"`. What is
*not* assumed is that the environment calls: `Call`, `EnterNode` have no
fairness, so that what must happen is only that a call ends.

`Ends` and `NodeFinishes` are the two liveness properties. `NodeFinishes` is
about nodes with a limit on the number of rounds; without one it does not hold
(section 5). The search of `ColorComp` is shown to end without fairness, by a
measure: `SearchAdvances` says that every step of a call makes `Remaining`
smaller.

### Properties worth a word

* `NothingMissed` is the completeness of the makespan handler: a pair of machines
  that is interchangeable from row *t* on, and that row *t* can tell apart, is in
  a submatrix of the list. It fails if a deferred entry is dropped or the loop
  over the rows stops too early.
* `CountsMatch` relates two data structures that are updated separately, for each
  order in which machines arrive at and leave a makespan.
* `ColoursMayBeExchanged` and `TailsMayBeExchanged` do not speak of bounds but of
  solutions: exchanging two colours in a component, or what two units do below a
  tower, turns solutions of the node into solutions. That is what a
  sub-symmetry is for; `SubSymmetric`, which the handlers are refined with, is the
  condition on bounds that should imply it.
* `Sound` is Lemma 1 of the paper the code follows, for the code: fixings are made
  while rows below are still to be read, and the look-ahead compares first
  non-zeros noted before the fixings with bounds read after them.
* `Complete` has two exceptions, both in its definition: the corner (0,0), which
  the look-ahead never tries, and ones in the triangle (section 5).
* `ResultsRight` says exactly how far the function for submatrices can be
  trusted (`SoundInSubmatrix`): for all bounds up to the look-ahead; in the
  look-ahead only in a partitioning orbitope, or when the set packing constraints
  on the rows have nothing left to do. The orbitope
  constraint handler does not wait for them. In a submatrix,
  `ConflictExplains` says nothing about nodes where it is not symmetric.
* `RepresentativesKeptOfKind` is the correctness of the whole: the *canonical*
  solutions, those sorted in the matrix and in every submatrix that they
  themselves make a sub-symmetry, are the same at every node; with three rows
  none is cut off by however many stale submatrices, with five one can be. The
  MC modules assume, and TLC evaluates, that every solution has a canonical one
  of the same value.
* `ReasonRight` compares a reason with all matrices of the orbitope, not only
  those of the node. It leaves out fixings to one that two shifted columns could
  have forced. With four rows there are none; `resolve_tie` shows that with five
  there are, and that the reason is then wrong (section 5). `ReasonRight` itself
  has been checked with the five rows of `resolve_tie`, too.
* `StrengthenedRight` is checked for every order of constraints and variables.
* `FeasibleIsOrbitope` is about solutions that nobody has refused before the
  handler is asked; what it answers for the others is in section 5.

Each property of a passing run has a mutant in `PROJECT.json`: a definition with
a plausible slip (its comment in the module starts with *Slip*), under which TLC
finds the property violated.

## 4. Theorems

Proved by TLAPS for every size of the matrix, all job times, graphs, heights of
towers, all bounds, solutions and lists of constraints, hash functions and sizes
of a hash map. TLC has checked each inductive invariant, or the conjunct that was
new in it, on the instance of a run before it was proved.

### MakespanProofs

Under `SizeAssumption`, `TimeAssumption`, `RowAssumption`, `LoadAssumption`
(`Load` is the prefix sum of the job times over a column; TLC evaluates the
assumption on its instances):

* `CountsCorrect`, `FixedIsLoadCorrect`, `BuffersClean`, `TypeCorrect`;
* `SubSymmetriesSound`: every reported submatrix is a sub-symmetry;
* `Refinement`: `Makespan` implements `SubSymmetrySource`;
* `NothingIsMissed`: no interchangeable pair of machines is overlooked;
* `BuffersLargeEnough`: the two buffers of `nmachines / 2` cells suffice, if no
  job is fixed to two machines (`OneMachine`). The handler is meant for matrices
  whose rows are set packing or partitioning constraints; once these have been
  propagated, at most one entry of a row is fixed to one. The rows of the
  instances in `MCHandlers` are of that kind. The pairing below needs it.

The inductive invariant consists of the types, of where the handler is (which of
the locals are fresh), of the meaning of `fixed` as a load, and of the exact
counts. The counts need a bijection between cardinalities before and after one
machine moves; they are needed for soundness because `Record` takes the first
`ncols` machines of a makespan, `ncols` being read from the map.

`NothingIsMissed` adds two layers. `Awaited`: a makespan that two machines share
and that has not been reported is a key that still waits (in `newsym`, `todo` or
`reinsert`, according to where the handler is). `Settled`: what the rows already
looked at can tell apart is in the list. `BuffersLargeEnough` looks at the
history: `Last(i, v)` is the row in which machine *i* left or reached makespan
*v*; that at most one machine moves in a row pairs every waiting makespan with
two machines of its own.

### ColorCompProofs

Under `SizeAssumption`, `StrategyAssumption`, `GraphAssumption`,
`MatrixAssumption`, for every graph, number of colours and strategy. These are
hypotheses of the theorems (`Assumptions`), because the handler is checked as an
instance inside `MCHandlers`.

* `TypeCorrect`: stack and component fit into their `nvertices` cells;
* `NeverTheWholeGraph`, `StackCorrect`, `OrderCorrect`;
* `ComponentsExact`: the list holds exactly the components of each graph, once;
* `Refinement`: `ColorComp` implements `SubSymmetrySource`;
* `ColoursExchangeable`: two colours exchanged on the rows of a submatrix turn
  colourings of the node into colourings;
* `SearchEnds`: every step of a call decreases `Remaining`, a natural number. That
  a call ends follows; this last step is about fairness and stays with the reader.

The invariant again has layers. `Search`: what is marked contains the removed
vertices and all vertices before `startvertex`, and what has been recorded
(`Done`) is closed. `InComponent`: the stack is a path in the component, and each
vertex of the component but the first is next to an earlier one; so any closed
set that holds the first holds all, and with `StackIsPath`, by which a component
is closed when the stack is empty, it is one of the smallest closed sets.
`ListExact`: the list holds the components of the picks before (`c1`, `c2`), and
of the pick at hand those inside `Done`, each once.

### SuborbitopeProofs

Under `SizeAssumption`, `HeightAssumption`, `MatrixAssumption`, as hypotheses:

* `TypeCorrect`, `TowersExact` (the list holds all towers and nothing else);
* `Refinement`: `Suborbitope` implements `SubSymmetrySource`;
* `TailsExchangeable`: two units that exchange the rest of their schedules still
  have schedules, with as many starts as before. The proof counts the starts above
  and below the first row of the submatrix.

The invariant says that the heights kept from row to row are those of the
towers (`Measured`) and what the list holds for the rows so far (`ListExact`).
`AscendingMembers`, which `ColorCompProofs` has in a stronger form
(`AscendingIsSorted`), is about the order of recorded columns; the definition by
rank replaces the sort of the community modules because theirs is out of the
provers' reach.

### HandlerRegistryProofs

Under `BoundAssumption`, for any set of addresses and any numbers of constraints,
registrations and transformations: `TypeCorrect`, `MapLeadsToLiveData`,
`AnswersFromOwnData`, `RegisteredAreAnswered`, `VariablesOfThisProblem`,
`NothingOutlivesScip`. The invariant ties addresses, constraints and data
together: the data under the address of a constraint that refers to the handler
are its own (`Own`; unless constraints are deleted, those of every entry,
`OwnAlways`), the transformed constraints are copies of the original ones
(`Copied`), and the latest answer came from the entry of its constraint
(`Answered`). `AnswersFromOwnData` holds even if addresses are used again: a
registration that finds foreign data fails before the handler is set.

### PackingPropagationProofs

Under `SizeAssumption`, `TypeAssumption`,
`ModeAssumption`, `MatrixAssumption`; the invariant comes in layers, each of
which uses the ones before:

1. `Control`: types, which cells of the arrays are written at each place
   (gives `TypeCorrect`);
2. `Frontier`: the frontier moves by at most one column per row, never back, and
   stays in the bar; frontier steps reach new columns; in a submatrix the
   triangle is zero from the first row on (gives `FrontierStaysInBar`);
3. `Meaning`: for every point that satisfies the bounds of the node, its one in a
   row lies between the first non-zero and the frontier, and, during the
   look-ahead, `beta` bounds those points that do not take the step (gives
   `PropagationSound`, and with the tightening of bounds
   `PromiseKept`, the refinement of `PropagationStep`);
4. `Held`: where the frontier has not moved, the entry next to it is zero (gives
   `ConflictIsReason`, which is about *all* points of the orbitope, not only
   those that satisfy the bounds of the node, and so does not follow from the
   third layer);
5. `Counted`: entries that are free were free at first (`FreeAllAlong`), and every
   fixing adds to the entries changed. `FixingsCounted` says that the whole matrix
   reports as many fixings as there are, `FixingsReported` that neither function
   is silent about one (that the one for submatrices reports too many is the run
   `cons_answer`);
6. `Passed`: ones before the look-ahead are those of the node (`OnesGiven`), what
   the columns in front of a first non-zero hold (`FirstsPassed`), which columns
   the steps reach (`StepsRight`). In a partitioning orbitope, and if the rows are
   closed, the entry which the look-ahead of a submatrix fixes is therefore not
   free (`HitIsVain`), and the look-ahead does nothing. This gives
   `SubmatrixSound`, the exact extent to which the function for submatrices can be
   trusted; `cons_lookahead` shows what happens beyond it.

`MinExists` (a non-empty set of numbers has a least element) is taken from the
well-foundedness of the natural numbers and replaces induction over rows.
`PropagationSound`, `PromiseKept` and `FixingsCounted` are stated for the whole
matrix because for submatrices they are false.

### PackingPropagationProofs: the converse

`NothingOverlooked`, for the whole matrix (`~Submatrix`; in a submatrix the rows
are not set partitioning constraints and the statement is false): where the
function ends without a verdict and the constraints on the rows have nothing to
add (`RowsSettled`), a free entry other than the corner is zero in one point of
the orbitope that satisfies the bounds, and one in another. The points are built
from the frontier. A *way* is a path that stays in its column or moves to the
next one from row to row; `WayToPoint` makes a point of it that has its ones at
the steps of the way, and in the other rows at the first non-zero or at the entry
in question. `FreeChoice` finds, for a finished matrix (`Finished`), a way for
each of the two values of a free entry.

Five layers join the invariant: the function ends with all rows seen (`Ended`);
the bounds and the arrays in the rows processed have the shape the frontier gives
them (`Grown`); a row with a one has a first non-zero, or the one is a step the
look-ahead has fixed (`OnesSeen`); the steps recorded are those of the frontier
(`StepsKnown`); and a step that has been tried is fixed, or a frontier without it
reaches the last row (`Tried`). `TakesFixedSteps` is what makes this enough: such
a frontier takes all later steps that were fixed, so a way through it is a point
of the bounds at the end and not only of those at the time of the look-ahead.

### FullOrbitopeProofs

Under the assumptions of `FullOrbitope`, for every size of matrix, tree and list:

* `FullFixingExact`: for all bounds, `FullFixing` reports infeasibility exactly
  when no sorted matrix is within the bounds, and fixes an entry exactly when all
  such matrices agree on it;
* `TypeCorrect`; `PropagationExact` (`FixesExactly`), which says the same of a
  step of the specification, through any order of the rows;
* `KeepsRepresentatives` (`RepresentativesKept`), for static and dynamic order;
* `ReductionsReported` (`CountTellsChange`).

The proof of `FullFixingExact` treats both faces as one. `Side(m, v, a, b)` says
that column *a* is on side *v* of column *b* (not less for v = 1, not greater for
v = 0), and `CompletedFirst` that `Completed` gives, of all columns on that side
that agree with the bounds, the one next to *b*, or says that there is none. A
face is a `Chain` of such steps; `ChainFirst` makes it a bound of every sorted
matrix, and a face that is not bad is itself one. What the faces have in common
from the top of a column down, every sorted matrix has (`CommonValue`). For the
converse `BothValues` needs, for a free entry below the first difference, sorted
matrices with both values there: the two faces serve if they differ at the entry
itself; if not, a column with the value wanted fits between those of the two faces
(`BothBelow`), with the columns of the greatest face to its left and those of the
least to its right (`Exchange`). The recursive functions of
the model are unfolded by `Recursion`: there is a function that satisfies the
equation, by the least number for which there would be none. A recursive
function, unlike a RECURSIVE operator, can be reasoned about in this way.

The invariant of the tree says of every node, and of the node at hand, that its
bounds fit the representative solutions that follow the branchings (`TreeKept`,
`NodeKept`). Two facts make it inductive. The order only grows, so that what is
representative later was representative before (`FewerRepresentatives`): what
other nodes have fixed in the meantime needs no revision. And each submatrix of
the list is a sub-symmetry of every solution that the node still has
(`ListRight`), not only of the bounds under which it was found: that is what
survives the propagation of the submatrices before it. `Counted` remembers that
bounds change from free only, so that two changes cannot cancel.

### EnforcementProofs

Under `ProblemAssumption` and `FlagAssumption`, for lists of constraints of any
length, type and size, and any solution with values 0 .. `one`:

* `CutsNeverExclude` (`CutsValid`): no inequality cuts off a matrix of the
  orbitope, shifted column or cover, lifted or not;
* `CutsExcludeSolution` (`CutsViolated`): a shifted column inequality that is
  added is violated;
* `CheckDecides` (`CheckExact`): the check accepts exactly the members;
* `FeasibleIsRight` (`FeasibleIsOrbitope`): enforcement answers feasible only if
  the constraints it looks at (`Enforced`) are fulfilled, for both values of
  `sepafullorbitope`, unless the solution has been refused before (`refused`).

`ProblemAssumption` says of a constraint what creation makes of it
(`Constraint`), and of a solution that it is binary when it comes to enforcement
or to the check. The integrality constraints are asked before (priority 0,
`cons_integral.c` 43, against -1005200, `cons_orbitope.c` 130), and a solution
that they refuse does not get there, except in a check that goes on to list all
reasons, after the candidate has been refused.

The proof has three parts. *Shifted columns*: the table of `computeSCTable` is a
recursive function, and exists (`TableExists`); its weight at an entry is the
sum over the column read off it (`TableIsRight`, `ColumnFacts`). If a sorted
matrix with at most a one in each row has no one on a shifted column, it has
none above and to the right of its end (`Shadow`): a bar in front of which there
is no one is empty, and the inequality holds (`SCIHolds`). Conversely a matrix
that is empty above the diagonal and not sorted has a bar with a one in front of
which a shifted column is empty: straight down the left one of the two columns
that are out of order, from the diagonal (`ColumnLight`, `UnsortedExceeds`). So
the bars, compared with the table alone, decide membership (`SortedAccepted`).
*Covers*: `Covering` says of the coefficients collected so far that no sorted
pair of columns comes above the right-hand side, and that it stays below once a
row has decided the order of the pair; each row keeps it (`CoverStepKeeps`), the
lifted first one included. That the violation is summed up with a term of the
wrong column does no harm to validity, and none to the search in binary
solutions: as long as no cover has been found both sides are equal (`Level`), so
if none is found the columns are sorted (`NoCoversSorted`). *The callbacks*:
`EInv` says, while the loop goes on, that the constraints behind are right
unless something has been found (`PseudoBehind`, `LPBehind`) and that those
ahead are as they came (`Pending`), and that a callback ends only behind the
last constraint or with something found (`Completed`), except for a solution
refused before; `fixTriangle` changes nothing that cuts or orbitopes depend on
(`Kept`).

### HashMapProofs

Under `SizeAssumption`, `HashAssumption`, `LoadAssumption`, `OriginAssumption`,
`AnswerAssumption`, for every table size, hash function and set of origins:

* `TableTypes` (`TypeOK`), `TableCount` (`CountExact`), `TableInOrder`
  (`RobinHood`), `SlotLeft` (`NeverFull`), `TableDistance` (`DistanceExact`): the
  parts of `TableSound`;
* `TableIsMap`: `HashMap` implements `AssociativeMap`, in safety: it starts as
  the empty function, and each of its steps is a step of the function or none.
  That every call ends (the fairness in `ImplementsMap`, and `Ends`) stays with TLC.

`LoadAssumption` says that the smallest table with one empty slot counts as too
full (at 921/1024 that holds from 11 slots on, and the code starts with 32);
`OriginAssumption` that the largest table holds all origins without being too
full. In the code a table of 2^32 slots would need 3.8 thousand million elements
to be so.

`Sorted` says that each element not at home has an occupied slot in front of it
whose element is at most one less far from its home. Going back from an element
one slot at a time, distances fall by one at most (`ChainBack`), so every slot
between the home of an element and the element is in use, by elements at least
as far away as the searched one would be there (`Between`): a search that meets a
closer element or an empty slot has overlooked nothing (`NotOverlooked`), and if
some slot is empty, no distance reaches the number of slots minus one
(`NotAround`), so the distance counted never wraps around.

The invariant `IInv` adds to the order what holds in the middle of a call.
`Holed`: during a removal one slot is empty out of turn, and only the element
behind it may be out of order, by one against the element in front of the hole;
moving it up moves the hole. `Keys`: no origin is twice in the slots, in what is
left of the old table, or in hand. `Probing`: the distance counted is that of the
position from the home of what is looked for, the elements behind are at least as
far, and no slot with the searched origin has been passed. `Counts`: the elements
to be placed have their slots; that a table is too full soon enough is `TwoLeft`,
that a largest table never has to grow is `LargestNotTooFull`. The map is a set of
elements (`All`) with distinct origins (`MapOf`); a step adds one, takes one out,
or moves one between slots, old slots and hand.

### Only model-checked

* `PropagateCons` with a list that goes stale (`RepresentativesKeptOfKind`): from
  five rows on it is false of the code (`cons_lookahead`), so no theorem says it;
  that of the full orbitope, where a list comes from the node itself, is proved
  (`FullOrbitopeProofs`) for any sizes, lists and trees;
* conflict resolution and strengthening. For resolution the statement
  for every size is false as well (`resolve_tie`);
* liveness (`Ends`, `NodeFinishes`), which is out of the prover's reach;
* what `OrbitopalFixing` computes, for every size.

## 5. Where the code and its comments disagree

Found by a run:

* **The look-ahead for submatrices fixes another entry** (`cons_lookahead`,
  `cons_orbitope.c` 1687). The entry tested is `vars[rows[s]][cols[lastoneinrow]]`,
  the one fixed `vars[rows[i]][cols[j]]`, with the row without room and the index
  of the step. When the rows are closed under set packing this entry cannot be
  free, and the statement has no effect. But the rows are closed when the node is
  entered, not when the submatrix is propagated: the look-ahead of the whole
  matrix, in the same call, fixes a one in a row that keeps free entries. With the
  path 0 - 1 - 3 - 4 - 2, three colours, vertex 0 without a colour, 2 in the first
  and 4 in the last, it fixes (3, 1); the submatrix of rows 0, 1, 3 and the first
  two columns, a component that `inverted1` returns, does not have row 2, which
  gave row 3 its room, and its look-ahead fixes (3, 0), too. A representative
  solution is cut off. Three rows are too few for this; no instance of the
  makespan kind is known (its submatrices have all rows from one on).
* **A verdict is lost** (`packing_verdict`, 1030-1035 and 1221). The whole
  matrix: a one in the triangle makes the node infeasible; the next successful
  fixing resets the flag.
* **Reductions of all constraints but the last are not told** (`cons_two`, 3683).
  Each propagation sets the common counter to zero.
* **Reductions are told that do not exist** (`cons_answer`, 1624 and 1688). The
  solver then propagates the node again; as the same happens in the next round, it
  does so until its limit on the rounds, or for ever without one.

* **A reason for another fixing** (`resolve_tie`, 2708). `resolvePropagation` is
  not told the variable and takes any shifted column of weight 1 in front of the
  bar. When there are two, it may explain the fixing by the one that did not force
  it, and the reason does not imply the fixing.
* **A copied model constraint is none** (`flags`, 3977; 4382 has the same). Where
  `SCIPcreateConsOrbitope` expects `mayinteract`, `resolveprop`, `ismodelcons`, the
  copy and the basic creation pass `resolveprop`, `ismodelcons`, `mayinteract`. In
  the sub-SCIP a model constraint whose symmetries do not interact with others is
  neither enforced nor checked. A symmetry handling constraint can become a model
  constraint, and be copied again; a copied model constraint can be propagated
  with a dynamic order. `StayModelConss` leaves out what the basic creation makes,
  because it is at odds with the caller before anything is copied.

Seen while modelling; the models describe what the code does, and no run is kept
for them:

* *A single machine as a sub-symmetry* (`activation_makespan.c` 228 and 418).
  Harmless, at odds with the comment; `NewsymHasTwo` in `Makespan`.
* *The key NULL is removed from the hash map* (`activation_makespan.c` 402,
  `misc.c` 3390): an assertion in debug builds; `ZeroNeverRemoved` in `Makespan`.
* *Double registration* (`activation_makespan.c` 145, `activation_suborbitope.c`
  132, `activation_colorcomp.c` 155): the old data are freed, their entry stays,
  and the insertion of the new ones fails. `HandlerRegistry` registers a
  constraint once.
* *A handler without data* (`activation_makespan.c` 574, `cons_orbitope.c` 2254):
  the comment says that the result is left `NULL`, but it is left as it is, and
  the caller, which ignores the return code, goes on with a pointer that nobody
  has set. It happens to a constraint that got its handler from
  `SCIPsetConsActivationhdlr` alone. `AnswerDefined` is about registered ones.
* *A second solve* (`activation_makespan.c` 497): the variables of the original
  problem have been overwritten by the first transformed ones, which are gone when
  the problem is transformed again; `activation_colorcomp.c` 715 does the same.
  `ReadsThisProblem` is about the first solve for the handlers that overwrite.
* *Submatrices without columns* (`activation_colorcomp.c` 438 and 555): with two
  colours, or one, the inverted strategies report `ncolors - 2 = 0` columns,
  against the assertion in `cons_orbitope.c` 1377.
* *A fixing in a submatrix of a full orbitope is resolved in the whole matrix*
  (`cons_orbitope.c` 2136): the reason lacks the bounds that made it a
  sub-symmetry, and a learnt conflict may cut off solutions. The conflicts of
  packing submatrices (1546) lack them, too. `WholeReasonImplies` is about the
  other fixings.
* *Rows of later constraints* (`symmetry.c` 1238): the loop compares a number of
  rows, `ncoveredpart`, with the number of columns. With more rows than columns it
  ends early, rows are dropped that should be kept, and less symmetry is handled.
  This is why `AllRowsFound` is about as many rows as columns.
* *Cover inequalities* (3237): the violation is summed up with the value of the
  left column where the inequality has the right one, and not reset between pairs
  of columns: inequalities can be added that are not violated. They are valid, and
  `CutsViolated` is about packing and partitioning only.
* *Enforcement*: with the default of `sepafullorbitope` an LP solution outside a
  full orbitope of the model counts as feasible (3313); `FeasibleIsOrbitope` leaves
  these out (`Enforced`), and is checked with the parameter set. The assertion in
  3084 is the opposite of its comment. In the enforcement of pseudo solutions a
  cutoff is overwritten when a later constraint finds a reduction (3605).
* *Feasible without a look* (3568-3570): for a pseudo solution that another handler
  or its objective value has refused, `consEnfopsOrbitope` answers `SCIP_FEASIBLE`,
  which by `type_cons.h` 418 means that "all constraints of the handler are
  feasible"; the answer for a skipped enforcement is `SCIP_DIDNOTRUN` (419).
  `consEnfopsOrbisack` does the same (`cons_orbisack.c` 1408). The solver does not
  go by it: what has been refused stays refused (`*infeasible`, `solve.c` 3401). If
  the objective value alone refuses the solution, the assertion in `solve.c` 3528
  relies on some other handler to say so. `FeasibleIsOrbitope` leaves these
  solutions out.

## 6. Not modelled

* *`SCIPaddRow`, the LP, conflict analysis, branching*: only their answers, as
  free choices.
* *Presolving's deletion of constraints* without variables left
  (`cons_orbitope.c` 3707-3770), locks, printing, the text of the parser: no state
  that a sequence of calls could bring out of order.
* *Overflow of makespans* (`activation_makespan.c` 407): sums above 2^31.
* *A dynamic row order together with submatrices* (`cons_orbitope.c` 2248): the
  repository creates orbitopes with a handler without it (`mkcs.py` 73, `mucp.py`
  231).
* *The code under `ENABLE_CONFLICT_ANALYSIS_SUBMATRIX`*: not compiled.
* *Python interface, experiments, instance readers, plots*: they call the above
  and have no state of their own.
* *The rest of SCIP* is third-party code, a million lines, of which the
  repository changes a few: its propagation loop, the stages of a solve, and the
  hash map are modelled as far as the handlers depend on them.

## 7. Plan

What is left, in this order:

1. The composition where it is true: with rows that stay closed under set packing
   while the list is worked off, or with submatrices of the makespan kind, every
   canonical solution is kept. Without such a hypothesis `cons_lookahead` refutes
   it.
2. `StrengthenedRight`: what the scan of the constraints on the rows has found is a
   partition, in whatever order it reads them.
3. `ReasonRight` for fixings that one shifted column forces. The lemmas of
   `EnforcementProofs` about table and columns are what it needs.
