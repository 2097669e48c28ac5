------------------------------- MODULE MCHandlers ------------------------------
(***************************************************************************)
(* The three activation handlers of the solver, each with an instance of   *)
(* its own: machines and jobs (Makespan, and a larger instance W), the     *)
(* vertices of a graph and their colours (C), production units and periods *)
(* (S); and the registry of their data (R), over the life of a problem.  A *)
(* behaviour is that of one of these; the others do nothing.               *)
(***************************************************************************)
EXTENDS Makespan, TLC

CONSTANTS
  NVertices, NColors,
  M, N, zeroheight, oneheight,
  Addr, MaxConss, MaxData, MaxGen

VARIABLES
  handler,      (* the one that is called                                  *)
  wdom, wpc, wj, wm, wfixed, wundet, wmakespans, wnewsym, wtodo, wreinsert, wfound,
  cdom, strategy, cpc, c1, c2, startvertex, removed, dfsstack, component, cfound,
  sdom, spc, i, zerotower, onetower, zeroused, oneused, sfound,
  replaces, caller, stage, gen, initialized, origs, transs, nconss, consmap, data, answer

wvars  == <<wdom, wpc, wj, wm, wfixed, wundet, wmakespans, wnewsym, wtodo, wreinsert, wfound>>
ccvars == <<cdom, strategy, cpc, c1, c2, startvertex, removed, dfsstack, component, cfound>>
hrvars == <<replaces, caller, stage, gen, initialized, origs, transs, nconss, consmap, data,
            answer>>
sovars == <<sdom, spc, i, zerotower, onetower, zeroused, oneused, sfound>>

-------------------------------------------------------------------------------
(* Machines and jobs: a prefix sum, and rows in which a job runs on at most *)
(* one of three machines.  The first job takes no time, the others one      *)
(* unit.                                                                    *)
LoadBy(times, c, k) ==
  LET sum[n \in Nat] ==
        IF n = 0 THEN 0 ELSE sum[n - 1] + (IF c[n - 1] = "one" THEN times[n - 1] ELSE 0)
  IN  sum[k]

Times == [k \in 0 .. 2 |-> IF k = 0 THEN 0 ELSE 1]
MCLoad(c, k) == LoadBy(Times, c, k)

PackingRows ==
  {r \in [0 .. 2 -> {"free", "zero", "one"}] :
     Cardinality({h \in 0 .. 2 : r[h] = "one"}) <= 1}

(* Five jobs and four machines: two pairs of equal jobs, and one that lasts *)
(* longer; rows in which all entries but one are fixed to zero, and that    *)
(* one, on the first or the last machine, may be free.                      *)
WideTimes == [k \in 0 .. 4 |-> 1 + k \div 2]
WideLoad(c, k) == LoadBy(WideTimes, c, k)

SparseRows ==
  {[h \in 0 .. 3 |-> IF h = g THEN d ELSE "zero"] :
     g \in 0 .. 3, d \in {"zero", "one"}} \cup
  {[h \in 0 .. 3 |-> IF h = g THEN "free" ELSE "zero"] : g \in {0, 3}}

W == INSTANCE Makespan WITH
  NJobs <- 5, NMachines <- 4, JobTimes <- WideTimes, Load <- WideLoad,
  Rows <- SparseRows,
  dom <- wdom, pc <- wpc, j <- wj, m <- wm, fixed <- wfixed, undet <- wundet,
  makespans <- wmakespans, newsym <- wnewsym, todo <- wtodo, reinsert <- wreinsert,
  found <- wfound

(* The path 3 - 0 - 1 - 2, with bounds in which a vertex has a colour, is   *)
(* free, or stays without one.                                              *)
Path == (0 :> <<3, 1>>) @@ (1 :> <<0, 2>>) @@ (2 :> <<1>>) @@ (3 :> <<0>>)

PlainRows ==
  {[c \in 0 .. NColors - 1 |-> v] : v \in {"free", "zero"}} \cup
  {[c \in 0 .. NColors - 1 |-> IF c = b THEN "one" ELSE "zero"] : b \in 0 .. 1}

C == INSTANCE ColorComp WITH
  dom <- cdom, pc <- cpc, found <- cfound,
  Adjacencies   <- Path,
  Strategies    <- {"color_pairs", "inverted1", "inverted2"},
  AllColorPairs <- FALSE,
  Matrices      <- [0 .. NVertices - 1 -> PlainRows]

(* Production units and periods, with any bounds. *)
S == INSTANCE Suborbitope WITH
  dom <- sdom, pc <- spc, found <- sfound,
  Matrices <- [0 .. M - 1 -> [0 .. N - 1 -> Dom]]

(* What each of them keeps about the constraints it is responsible for. *)
R == INSTANCE HandlerRegistry

ASSUME C!SizeAssumption /\ C!StrategyAssumption /\ C!MatrixAssumption /\ C!GraphAssumption
ASSUME S!SizeAssumption /\ S!HeightAssumption /\ S!MatrixAssumption
ASSUME R!BoundAssumption

-------------------------------------------------------------------------------
InitHandlers ==
  /\ handler \in {"makespan", "wide", "colorcomp", "suborbitope", "registry"}
  /\ Init /\ W!Init /\ C!Init /\ S!Init /\ R!Init
  /\ handler # "registry" => replaces /\ caller = "none"

NextMakespan ==
  /\ handler = "makespan" /\ Next
  /\ UNCHANGED <<handler, wvars, ccvars, sovars, hrvars>>
NextWide ==
  /\ handler = "wide" /\ W!Next
  /\ UNCHANGED <<handler, vars, ccvars, sovars, hrvars>>
NextColorComp ==
  /\ handler = "colorcomp" /\ C!Next
  /\ UNCHANGED <<handler, vars, wvars, sovars, hrvars>>
NextSuborbitope ==
  /\ handler = "suborbitope" /\ S!Next
  /\ UNCHANGED <<handler, vars, wvars, ccvars, hrvars>>
NextRegistry ==
  /\ handler = "registry" /\ R!Next
  /\ UNCHANGED <<handler, vars, wvars, ccvars, sovars>>

all == <<handler, vars, wvars, ccvars, sovars, hrvars>>

(* After SCIPfree there is nothing left to happen: this is no deadlock. *)
Ended == stage = "freed" /\ UNCHANGED all

NextHandlers ==
  NextMakespan \/ NextWide \/ NextColorComp \/ NextSuborbitope \/ NextRegistry \/ Ended

SpecHandlers == InitHandlers /\ [][NextHandlers]_all

-------------------------------------------------------------------------------
(***************************************************************************)
(* Properties: those of Makespan under their own names, and the following. *)
(***************************************************************************)

(* Of the wide instance: what is handed out are sub-symmetries, none is     *)
(* missed, and the two hash maps stay within half the machines.             *)
WideInstanceRight == W!FoundIsSymmetric /\ W!NothingMissed /\ W!HalfTheMachines

(* The stack of the colour-component handler fits into its nvertices cells: *)
(* it is the path from the start vertex to the vertex at hand, and what is  *)
(* off it has no neighbour still to be visited.  So the list holds exactly  *)
(* the components of each graph, with rows in the order of the matrix.      *)
ComponentsExact == C!TypeOK /\ C!StackIsPath /\ C!AllComponents /\ C!OrderOfMatrix

(* Each step of its search leaves less to do: every call comes to an end.   *)
SearchAdvances == C!SearchAdvances

(* Exchanging two colours of a submatrix turns colourings of the node into  *)
(* colourings.                                                              *)
ColoursMayBeExchanged == C!ColoursMayBeExchanged

(* The list of the sub-orbitope handler holds exactly the towers, whose     *)
(* heights it has carried from row to row.                                  *)
TowersExact == S!TypeOK /\ S!AllTowers

(* Two units of a submatrix may exchange what they do below its tower.      *)
TailsMayBeExchanged == S!TailsMayBeExchanged

(* Each of the two implements what the propagator expects of a handler.     *)
OthersAreSources == C!ImplementsSource /\ S!ImplementsSource

(* As long as no constraint of the original problem is deleted, the         *)
(* registry's map leads to data that have not been freed, over all          *)
(* transformations and reoptimisations, and nothing outlives SCIP.          *)
DataLive == R!TypeOK /\ R!EntriesLive /\ R!NothingLeft

(* A registered constraint is answered, from its own data, not from those   *)
(* of another one that was at its address before, and from variables of the *)
(* problem that is being solved.                                            *)
AnswersRight == R!AnswerDefined /\ R!AnswersOwnData /\ R!ReadsThisProblem
===============================================================================
