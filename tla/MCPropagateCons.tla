---------------------------- MODULE MCPropagateCons ----------------------------
(***************************************************************************)
(* Instances of PropagateCons for TLC: machines that run jobs, with the    *)
(* sub-symmetries of the makespan handler, and the colours of the vertices *)
(* of a graph, with those of the colour-component handler.                 *)
(***************************************************************************)
EXTENDS PropagateCons
LOCAL INSTANCE FiniteSetsExt
LOCAL INSTANCE SequencesExt

(* Rows that are free, decided, or without a one. *)
PlainRows ==
  {[k \in Cols |-> v] : v \in {"free", "zero"}} \cup
  {[k \in Cols |-> IF k = b THEN "one" ELSE "zero"] : b \in Cols}
PlainMatrices == {[e \in Rows \X Cols |-> m[e[1]][e[2]]] : m \in [Rows -> PlainRows]}

(* No vertex is decided but 2, which has the first colour, and 4, which has *)
(* the last; 0 has none.                                                    *)
Decided == (0 :> -1) @@ (2 :> 0) @@ (4 :> NCols - 1)
SomeDecided ==
  {[e \in Rows \X Cols |-> IF e[1] \notin D THEN "free"
                          ELSE IF e[2] = Decided[e[1]] THEN "one" ELSE "zero"] :
     D \in SUBSET DOMAIN Decided}

Asc(S) == SetToSortSeq(S, LAMBDA a, b : a < b)

(* Makespan scheduling: job j takes Times[j]. *)
Times == [j \in Rows |-> IF j = 0 THEN 1 ELSE IF j = 1 THEN 1 ELSE 2]
Assignments == [Rows -> Cols]
LoadOf(d, k, t) == MapThenSumSet(LAMBDA j : Times[j], {j \in 0 .. t - 1 : d[j, k] = "one"})

MakespanSubs ==
  {[rows |-> Asc(t .. NRows - 1), cols |-> Asc(C)] :
     t \in Rows, C \in {S \in SUBSET Cols : Cardinality(S) >= 2}}
MakespanSymmetric(d, s) ==
  /\ \A j \in 0 .. s.rows[1] - 1 : \A h \in DOMAIN s.cols : d[j, s.cols[h]] # "free"
  /\ Cardinality({LoadOf(d, s.cols[h], s.rows[1]) : h \in DOMAIN s.cols}) = 1
Makespan(p) == Max({LoadOf(Fixed(p), k, NRows) : k \in Cols})

(* Every schedule has a representative with the same makespan. *)
M == INSTANCE PropagateCons WITH
  Type        <- "partitioning",
  Submatrices <- MakespanSubs,
  Symmetric   <- MakespanSymmetric,
  Points      <- Assignments
ASSUME
  LET Spans == {Makespan(q) : q \in M!Canonical}
  IN  \A p \in Assignments : Makespan(p) \in Spans

(* The maximum k-colourable subgraph of a path: a vertex may be left        *)
(* without a colour.                                                        *)
CONSTANT Path
Straight == [v \in 1 .. NRows |-> v - 1]
Bent     == <<0, 1, 3, 4, 2>>
Adjacent(v, w) ==
  \E h \in 1 .. Len(Path) - 1 : {v, w} = {Path[h], Path[h + 1]}

Colourings ==
  {p \in [Rows -> -1 .. NCols - 1] :
     \A v, w \in Rows : Adjacent(v, w) => p[v] = -1 \/ p[v] # p[w]}
ColourSubs ==
  {[rows |-> Asc(R), cols |-> Asc(C)] :
     R \in SUBSET Rows \ {{}}, C \in {S \in SUBSET Cols : Cardinality(S) >= 2}}
ColourSymmetric(d, s) ==
  LET R == ToSet(s.rows)
      K == ToSet(s.cols)
  IN  \A v \in Rows \ R :
        (\E w \in R : Adjacent(v, w)) =>
          \/ \A k \in K : d[v, k] = "zero"
          \/ \E k \in Cols \ K : d[v, k] = "one"

(* Every colouring has a representative that colours the same vertices. *)
ASSUME
  LET Uncoloured(p) == {v \in Rows : p[v] = -1}
      Kept          == {Uncoloured(q) : q \in Canonical}
  IN  \A p \in Points : Uncoloured(p) \in Kept

NoHandler == {}
AllHandlers == Conss
Limits == {0, 2}

VARIABLE kind   (* of which kind the matrices are: this one, or that of M   *)

InitKind == kind \in {"colour", "makespan"} /\ Init
NextKind == (IF kind = "colour" THEN Next ELSE M!Next) /\ UNCHANGED kind

(* Weak fairness of Propagate, which is enabled unless pc is "idle": the    *)
(* solver does not stop in the midst of a node.                             *)
NotStopped == []<>(pc = "idle") \/ []<><<TRUE>>_<<vars, kind>>

SpecKind == InitKind /\ [][NextKind]_<<vars, kind>> /\ NotStopped

ColourRepresentatives   == Canonical
ScheduleRepresentatives == M!Canonical

(* The representative solutions of either kind are kept, and the variables  *)
(* have the values their declarations allow.                                *)
RepresentativesKeptOfKind ==
  /\ TypeOK
  /\ IF kind = "colour" THEN RepresentativesKept(ColourRepresentatives)
     ELSE M!RepresentativesKept(ScheduleRepresentatives)
================================================================================
