------------------------------ MODULE ColorComp -------------------------------
(***************************************************************************)
(* The colour-component activation handler (activation_colorcomp.c).       *)
(*                                                                         *)
(* The rows of the matrix are the vertices of a graph, its columns colours *)
(* of which a vertex gets at most one.  The handler removes from the graph *)
(* the vertices whose colour does not matter for a set of colours, and     *)
(* reports the components of what is left: inside a component the colours  *)
(* can be permuted without looking at the rest of the graph.               *)
(*                                                                         *)
(* The three strategies run the same search and differ in the vertices     *)
(* that are removed and in the columns that are reported.                  *)
(***************************************************************************)
EXTENDS AscendingOrder

CONSTANTS
  NVertices, NColors,
  Adjacencies,     (* the adjacent vertices of each vertex, in some order  *)
  Strategies,      (* the strategies constraints are registered with       *)
  AllColorPairs,   (* FALSE: only pairs of consecutive colours             *)
  Matrices         (* the bounds the matrix may have at a node             *)

Vertices == 0 .. NVertices - 1
Colors   == 0 .. NColors - 1
Dom      == {"free", "zero", "one"}

(* Assumed of the constants, by the module that instantiates this one.      *)
SizeAssumption == NVertices \in Nat \ {0} /\ NColors \in Nat \ {0}
StrategyAssumption ==
  /\ Strategies \subseteq {"color_pairs", "inverted1", "inverted2"} /\ Strategies # {}
  /\ AllColorPairs \in BOOLEAN
MatrixAssumption ==
  Matrices \subseteq [Vertices -> [Colors -> Dom]] /\ Matrices # {}

(* The graph is undirected and has no loops. *)
GraphAssumption ==
  /\ Adjacencies \in [Vertices -> Seq(Vertices)]
  /\ \A v, w \in Vertices :
       w \in Range(Adjacencies[v]) => v # w /\ v \in Range(Adjacencies[w])

Adjacent(v, w) == w \in Range(Adjacencies[v])

VARIABLES
  dom,           (* local bounds of the matrix at the current node         *)
  strategy,      (* that of the constraint for which the handler is called *)
  pc,
  c1, c2,        (* the loops over the colours                             *)
  startvertex,
  removed,       (* removedvertices, as a set                              *)
  dfsstack,
  component,
  found          (* the list of submatrices, the latest first              *)

vars == <<dom, strategy, pc, c1, c2, startvertex, removed, dfsstack, component, found>>

-------------------------------------------------------------------------------
(* The loops over the colours: pairs c1 < c2, neighbours or all, or single  *)
(* colours, for which c2 is c1.                                             *)
FirstOf(c) == IF strategy = "inverted1" THEN c ELSE c + 1
InLoop ==
  c1 < NColors /\ IF strategy = "inverted1" THEN c2 = c1
                  ELSE c2 < NColors /\ (AllColorPairs \/ c2 < c1 + 2)
Pick == {c1, c2}

(* Slip: one of the two colours is enough to remove a vertex. *)
RemovedForAny(d, pick) ==
  IF strategy = "color_pairs"
    THEN {v \in Vertices : \E c \in pick : d[v][c] = "zero"}
    ELSE {v \in Vertices : \E c \in pick : d[v][c] = "one"}

(* Vertices that do not have any of the two colours; inverted, vertices    *)
(* that do have one of the colours.                                        *)
Removed(d, pick) ==
  IF strategy = "color_pairs"
    THEN {v \in Vertices : \A c \in pick : d[v][c] = "zero"}
    ELSE {v \in Vertices : \E c \in pick : d[v][c] = "one"}

(* The colours of the columns that are reported for a pick. *)
ColumnsOf(pick) == IF strategy = "color_pairs" THEN pick ELSE Colors \ pick

SomeNode     == CHOOSE d \in Matrices : TRUE
SomeStrategy == CHOOSE t \in Strategies : TRUE

Init ==
  /\ dom = SomeNode /\ strategy = SomeStrategy
  /\ pc = "idle"
  /\ c1 = 0 /\ c2 = 0 /\ startvertex = 0
  /\ removed = {} /\ dfsstack = <<>> /\ component = <<>>
  /\ found = <<>>

(* The propagator calls the handler for a constraint at a node. *)
Call ==
  /\ pc = "idle"
  /\ dom' \in Matrices
  /\ strategy' \in Strategies
  /\ c1' = 0 /\ c2' = FirstOf(0)'
  /\ found' = <<>>
  /\ pc' = "pick"
  /\ UNCHANGED <<startvertex, removed, dfsstack, component>>

(* The inner loop is over. *)
NextColor ==
  /\ pc = "pick" /\ c1 < NColors /\ ~InLoop
  /\ c1' = c1 + 1 /\ c2' = FirstOf(c1 + 1)
  /\ UNCHANGED <<dom, strategy, pc, startvertex, removed, dfsstack, component, found>>

(* There is nothing to do if no vertex is removed. *)
SkipPick ==
  /\ pc = "pick" /\ InLoop
  /\ removed' = Removed(dom, Pick)
  /\ removed' = {}
  /\ c2' = c2 + 1
  /\ UNCHANGED <<dom, strategy, pc, c1, startvertex, dfsstack, component, found>>

StartPick ==
  /\ pc = "pick" /\ InLoop
  /\ removed' = Removed(dom, Pick)
  /\ removed' # {}
  /\ startvertex' = 0
  /\ pc' = "vertices"
  /\ UNCHANGED <<dom, strategy, c1, c2, dfsstack, component, found>>

(* The start vertex is visited already, or was never there. *)
SkipVertex ==
  /\ pc = "vertices" /\ startvertex < NVertices
  /\ startvertex \in removed
  /\ startvertex' = startvertex + 1
  /\ UNCHANGED <<dom, strategy, pc, c1, c2, removed, dfsstack, component, found>>

StartComponent ==
  /\ pc = "vertices" /\ startvertex < NVertices
  /\ startvertex \notin removed
  /\ removed' = removed \cup {startvertex}
  /\ component' = <<startvertex>>
  /\ dfsstack' = <<startvertex>>
  /\ pc' = "dfs"
  /\ UNCHANGED <<dom, strategy, c1, c2, startvertex, found>>

(* The vertices next to the head of the stack that are not yet visited.     *)
Top        == dfsstack[Len(dfsstack)]
Unvisited  == {k \in DOMAIN Adjacencies[Top] : Adjacencies[Top][k] \notin removed}
NextVertex == Adjacencies[Top][CHOOSE k \in Unvisited : \A h \in Unvisited : k <= h]

(* Slip: a vertex is marked when it is popped, not when it is pushed. *)
VisitUnmarked ==
  /\ pc = "dfs" /\ dfsstack # <<>> /\ Unvisited # {}
  /\ removed' = removed \cup {Top}
  /\ component' = Append(component, NextVertex)
  /\ dfsstack' = Append(dfsstack, NextVertex)
  /\ UNCHANGED <<dom, strategy, pc, c1, c2, startvertex, found>>

(* The head of the stack goes back, and one of its neighbours on top.       *)
Visit ==
  /\ pc = "dfs" /\ dfsstack # <<>> /\ Unvisited # {}
  /\ removed' = removed \cup {NextVertex}
  /\ component' = Append(component, NextVertex)
  /\ dfsstack' = Append(dfsstack, NextVertex)
  /\ UNCHANGED <<dom, strategy, pc, c1, c2, startvertex, found>>

(* Slip: the vertex below the head is dropped with it. *)
PopTwo ==
  /\ pc = "dfs" /\ dfsstack # <<>> /\ Unvisited = {}
  /\ dfsstack' = SubSeq(dfsstack, 1, Len(dfsstack) - 2)
  /\ UNCHANGED <<dom, strategy, pc, c1, c2, startvertex, removed, component, found>>

Pop ==
  /\ pc = "dfs" /\ dfsstack # <<>> /\ Unvisited = {}
  /\ dfsstack' = SubSeq(dfsstack, 1, Len(dfsstack) - 1)
  /\ UNCHANGED <<dom, strategy, pc, c1, c2, startvertex, removed, component, found>>

(* Slip: the rows stay in the order in which they were visited. *)
RecordUnsorted ==
  /\ pc = "dfs" /\ dfsstack = <<>>
  /\ found' = <<[rows |-> component, cols |-> Ascending(ColumnsOf(Pick))]>> \o found
  /\ startvertex' = startvertex + 1
  /\ pc' = "vertices"
  /\ UNCHANGED <<dom, strategy, c1, c2, removed, dfsstack, component>>

(* A component of the whole graph would be skipped; there is none, because  *)
(* a vertex has been removed.                                               *)
Record ==
  /\ pc = "dfs" /\ dfsstack = <<>>
  /\ found' = <<[rows |-> Ascending(Range(component)), cols |-> Ascending(ColumnsOf(Pick))]>> \o found
  /\ startvertex' = startvertex + 1
  /\ pc' = "vertices"
  /\ UNCHANGED <<dom, strategy, c1, c2, removed, dfsstack, component>>

EndPick ==
  /\ pc = "vertices" /\ startvertex = NVertices
  /\ c2' = c2 + 1
  /\ pc' = "pick"
  /\ UNCHANGED <<dom, strategy, c1, startvertex, removed, dfsstack, component, found>>

(* The list is handed to the propagator ... *)
Return ==
  /\ pc = "pick" /\ c1 = NColors
  /\ pc' = "returned"
  /\ UNCHANGED <<dom, strategy, c1, c2, startvertex, removed, dfsstack, component, found>>

(* ... which propagates and frees it. The next call writes the buffers      *)
(* before it reads them: one value stands for what they keep.               *)
Consume ==
  /\ pc = "returned"
  /\ found' = <<>>
  /\ dom' = SomeNode /\ strategy' = SomeStrategy
  /\ c1' = 0 /\ c2' = 0 /\ startvertex' = 0 /\ removed' = {} /\ component' = <<>>
  /\ pc' = "idle"
  /\ UNCHANGED dfsstack

Step ==
  \/ NextColor \/ SkipPick \/ StartPick \/ SkipVertex \/ StartComponent
  \/ Visit \/ Pop \/ Record \/ EndPick \/ Return

Next == Call \/ Step \/ Consume

Spec == Init /\ [][Next]_vars

-------------------------------------------------------------------------------
(***************************************************************************)
(* Properties.                                                             *)
(***************************************************************************)

Active == pc \notin {"idle", "returned"}

(* The variables have the values their declarations in the code allow: the  *)
(* stack and the component fit into their nvertices cells, whatever the     *)
(* graph, although a vertex is pushed again each time it is looked at.      *)
TypeOK ==
  /\ dom \in Matrices /\ strategy \in Strategies
  /\ pc \in {"idle", "pick", "vertices", "dfs", "returned"}
  /\ c1 \in 0 .. NColors /\ c2 \in 0 .. NColors + 1
  /\ startvertex \in 0 .. NVertices
  /\ removed \subseteq Vertices
  /\ dfsstack \in Seq(Vertices) /\ Len(dfsstack) <= NVertices
  /\ component \in Seq(Vertices) /\ Len(component) <= NVertices
  /\ found \in Seq([rows : Seq(Vertices), cols : Seq(Colors)])

(* The stack is the path from the start vertex to the vertex at hand, and   *)
(* what is off the stack has no neighbour that is still to be visited.      *)
StackIsPath ==
  pc = "dfs" =>
    /\ \A k \in 1 .. Len(dfsstack) - 1 : Adjacent(dfsstack[k], dfsstack[k + 1])
    /\ \A v \in Range(component) \ Range(dfsstack) :
         \A w \in Vertices : Adjacent(v, w) => w \in removed

(* s is a sub-symmetry under the bounds d: a vertex next to a row of s that *)
(* is not a row itself has none of the colours of s, or one outside s.      *)
SubSymmetric(d, s) ==
  \A v \in Vertices \ s.rows, w \in s.rows :
    Adjacent(v, w) =>
      \/ \A c \in s.cols : d[v][c] = "zero"
      \/ \E c \in Colors \ s.cols : d[v][c] = "one"

AsSets(s) == [rows |-> Range(s.rows), cols |-> Range(s.cols)]

(* The rows and columns of a submatrix come in the order of the matrix: the *)
(* propagator takes the first row for the first vertex of the orbitope.     *)
Increasing(q) == \A g, h \in DOMAIN q : g < h => q[g] < q[h]
OrderOfMatrix ==
  \A k \in DOMAIN found : Increasing(found[k].rows) /\ Increasing(found[k].cols)

(* The components of the graph without the vertices in R: the smallest sets *)
(* of vertices that have no neighbours outside, but for those in R.         *)
Closed(S, R) == \A v \in S, w \in Vertices : Adjacent(v, w) => w \in S \cup R
Components(R) ==
  {S \in SUBSET (Vertices \ R) :
     S # {} /\ Closed(S, R) /\ \A T \in SUBSET S : T # {} /\ Closed(T, R) => T = S}

(* The pairs of colours for which vertices are removed from the graph. *)
Used ==
  {p \in Colors \X Colors :
     /\ IF strategy = "inverted1" THEN p[1] = p[2]
        ELSE p[1] < p[2] /\ (AllColorPairs \/ p[2] = p[1] + 1)
     /\ Removed(dom, {p[1], p[2]}) # {}}

Listed(f) == {AsSets(f[k]) : k \in DOMAIN f}

(* Once the search over the colours is through, the list holds exactly the  *)
(* components of each graph, each of them once.                             *)
AllComponents ==
  pc = "returned" =>
    /\ Listed(found) =
         UNION {{[rows |-> S, cols |-> ColumnsOf({p[1], p[2]})] :
                   S \in Components(Removed(dom, {p[1], p[2]}))} : p \in Used}
    /\ IsInjective(found)

(* Two colours of a submatrix, exchanged on its rows, turn every colouring  *)
(* of the node into a colouring of the same vertices: the reason for which  *)
(* the submatrix may be propagated as an orbitope.                          *)
Colouring(p) == \A v, w \in Vertices : Adjacent(v, w) => p[v] = -1 \/ p[v] # p[w]
FitsNode(p) ==
  \A v \in Vertices : \A c \in Colors :
    /\ dom[v][c] = "one"  => p[v] = c
    /\ dom[v][c] = "zero" => p[v] # c
Exchange(p, s, b, c) ==
  [v \in Vertices |-> IF v \notin Range(s.rows) THEN p[v]
                      ELSE IF p[v] = b THEN c ELSE IF p[v] = c THEN b ELSE p[v]]
ColoursMayBeExchanged ==
  pc = "returned" /\ found # <<>> =>
    \A p \in {q \in [Vertices -> -1 .. NColors - 1] : Colouring(q) /\ FitsNode(q)} :
      \A k \in DOMAIN found : \A b, c \in Range(found[k].cols) :
        Colouring(Exchange(p, found[k], b, c))

(* A call comes to its end: the depth-first search pushes the vertex at     *)
(* hand again with each neighbour it finds, but every step leaves less to   *)
(* do.  A vertex can be marked once, and be dropped once.                   *)
Rounds == (NColors + 2) * (NColors - c1) + (NColors + 1 - c2)
Remaining ==
  IF pc = "pick" THEN (4 * NVertices + 3) * Rounds
  ELSE (4 * NVertices + 3) * (Rounds - 1) + 1
       + 2 * (NVertices - startvertex) + 2 * Cardinality(Vertices \ removed) + Len(dfsstack)

SearchAdvances == [][Active /\ Active' => Remaining' < Remaining /\ Remaining' >= 0]_vars

(* The handler implements what the propagator expects of it. *)
Source == INSTANCE SubSymmetrySource WITH
  Domains     <- Matrices,
  Submatrices <- [rows : SUBSET Vertices, cols : SUBSET Colors],
  Symmetric   <- SubSymmetric,
  busy        <- Active,
  found       <- Listed(found)

ImplementsSource == Source!Spec
===============================================================================
