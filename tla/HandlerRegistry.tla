---------------------------- MODULE HandlerRegistry ----------------------------
(***************************************************************************)
(* What the activation handlers keep about the constraints they serve, and *)
(* its life from the registration of a constraint to the end of SCIP:      *)
(* activation.c, set.c, the registration, initialisation and lookup of     *)
(* activation_makespan.c and its two siblings, and the transformation of   *)
(* constraints in cons.c.                                                  *)
(*                                                                         *)
(* The data of a constraint are found by the address of the original       *)
(* constraint.  They hold the matrix of variables: original ones, until a  *)
(* handler that has an initialisation callback replaces them by those of   *)
(* the transformed problem; the other kind transforms them when it reads   *)
(* them.                                                                   *)
(***************************************************************************)
EXTENDS Integers, FiniteSets, Sequences

CONSTANTS
  Addr,          (* the addresses original constraints may have            *)
  MaxConss,      (* bound of the instance: constraints ever created        *)
  MaxData,       (* bound of the instance: data ever allocated             *)
  MaxGen         (* bound of the instance: transformations of the problem  *)

(* Assumed of the constants, by the module that instantiates this one. *)
BoundAssumption == {MaxConss, MaxData, MaxGen} \subseteq Nat

VARIABLES
  replaces,      (* the handler replaces the variables at initialisation   *)
  caller,        (* what the caller does besides registering: "none",      *)
                 (* "deletes" constraints of the original problem, or      *)
                 (* "sets" the handler by SCIPsetConsActivationhdlr        *)
                 (* without registering the constraint                     *)
  stage,         (* "problem", "transformed", or "freed"                   *)
  gen,           (* the number of transformations so far                   *)
  initialized,   (* the flag of the handler                                *)
  origs,         (* the original constraints: address |-> constraint       *)
  transs,        (* the transformed ones, by the address of the original   *)
  nconss,        (* constraints created so far                             *)
  consmap,       (* address |-> number of the data                         *)
  data,          (* the data allocated so far                              *)
  answer         (* what the handler has used for its latest answer        *)

use  == <<replaces, caller>>
vars == <<use, stage, gen, initialized, origs, transs, nconss, consmap, data, answer>>

NoAnswer == [cons |-> 0, used |-> 0, vars |-> 0]

-------------------------------------------------------------------------------
Empty == <<>>

Put(f, a, v) == [b \in DOMAIN f \cup {a} |-> IF b = a THEN v ELSE f[b]]
Drop(f, a) == [b \in DOMAIN f \ {a} |-> f[b]]

Init ==
  /\ replaces \in BOOLEAN /\ caller \in {"none", "deletes", "sets"}
  /\ stage = "problem" /\ gen = 0 /\ initialized = FALSE
  /\ origs = Empty /\ transs = Empty /\ nconss = 0
  /\ consmap = Empty /\ data = <<>>
  /\ answer = NoAnswer

(* A constraint is created, without a handler. *)
AddCons ==
  /\ stage = "problem" /\ nconss < MaxConss
  /\ \E a \in Addr \ DOMAIN origs :
       origs' = Put(origs, a, [id |-> nconss + 1, handler |-> FALSE])
  /\ nconss' = nconss + 1
  /\ UNCHANGED <<use, stage, gen, initialized, transs, consmap, data, answer>>

(* A constraint is deleted and its memory freed; the handler is not told.   *)
DelCons ==
  /\ caller = "deletes" /\ stage = "problem"
  /\ \E a \in DOMAIN origs : origs' = Drop(origs, a)
  /\ UNCHANGED <<use, stage, gen, initialized, transs, nconss, consmap, data, answer>>

(* Data with the variables of the matrix as the caller has them. *)
Fresh(id) == [live |-> TRUE, cons |-> id, vars |-> 0]

Registered(id) == \E k \in DOMAIN data : data[k].cons = id

(* Slip: the handler of the constraint is set before the data are stored.   *)
RegisterHandlerFirst ==
  /\ stage # "freed" /\ Len(data) < MaxData
  /\ \E a \in DOMAIN origs :
       /\ ~Registered(origs[a].id) /\ ~origs[a].handler
       /\ IF a \in DOMAIN consmap
            THEN /\ data' = Append([data EXCEPT ![consmap[a]].live = FALSE], Fresh(origs[a].id))
                 /\ UNCHANGED consmap
            ELSE /\ data' = Append(data, Fresh(origs[a].id))
                 /\ consmap' = Put(consmap, a, Len(data) + 1)
       /\ origs' = [origs EXCEPT ![a].handler = TRUE]
  /\ UNCHANGED <<use, stage, gen, initialized, transs, nconss, answer>>

(* A constraint is registered, once.  The data are stored under its         *)
(* address.  Those found there are freed, but their entry remains, so that  *)
(* the map refuses the new one, and the call ends with an error before the  *)
(* handler is set.                                                          *)
Register ==
  /\ stage # "freed" /\ Len(data) < MaxData
  /\ \E a \in DOMAIN origs :
       /\ ~Registered(origs[a].id) /\ ~origs[a].handler
       /\ IF a \in DOMAIN consmap
            THEN /\ data' = Append([data EXCEPT ![consmap[a]].live = FALSE], Fresh(origs[a].id))
                 /\ UNCHANGED <<consmap, origs>>
            ELSE /\ data' = Append(data, Fresh(origs[a].id))
                 /\ consmap' = Put(consmap, a, Len(data) + 1)
                 /\ origs' = [origs EXCEPT ![a].handler = TRUE]
  /\ UNCHANGED <<use, stage, gen, initialized, transs, nconss, answer>>

SetActivationhdlr ==
  /\ caller = "sets" /\ stage = "problem"
  /\ \E a \in DOMAIN origs : origs' = [origs EXCEPT ![a].handler = TRUE]
  /\ UNCHANGED <<use, stage, gen, initialized, transs, nconss, consmap, data, answer>>

(* SCIPgetTransformedVar in the g-th transformed problem, of a variable of  *)
(* the original problem (0) or of a transformed one, which it returns as it *)
(* is, be it that of an earlier transformation.                             *)
TransformedVar(v, g) == IF v = 0 THEN g ELSE v

(* The initialisation callback goes through the map.                        *)
InitHandler(g) ==
  IF ~replaces THEN data
  ELSE [k \in DOMAIN data |->
          IF \E a \in DOMAIN consmap : consmap[a] = k
            THEN [data[k] EXCEPT !.vars = TransformedVar(@, g)]
            ELSE data[k]]

(* The problem is transformed: a transformed constraint gets the handler of *)
(* the original one, and the plugins are initialised.                       *)
Transform ==
  /\ stage = "problem" /\ gen < MaxGen
  /\ stage' = "transformed"
  /\ gen' = gen + 1
  /\ transs' = origs
  /\ data' = InitHandler(gen + 1)
  /\ initialized' = TRUE
  /\ UNCHANGED <<use, origs, nconss, consmap, answer>>

(* The propagation of a transformed constraint asks the handler, which      *)
(* looks under the address of the original one.  When it finds nothing it   *)
(* leaves the pointer of its caller alone (used = 0).                       *)
FindActivationData ==
  /\ stage = "transformed" /\ initialized
  /\ \E a \in DOMAIN transs :
       /\ transs[a].handler
       /\ answer' = IF a \in DOMAIN consmap
                      THEN [cons |-> transs[a].id, used |-> consmap[a],
                            vars |-> IF replaces THEN data[consmap[a]].vars
                                     ELSE TransformedVar(data[consmap[a]].vars, gen)]
                      ELSE [cons |-> transs[a].id, used |-> 0, vars |-> 0]
  /\ UNCHANGED <<use, stage, gen, initialized, origs, transs, nconss, consmap, data>>

(* Reoptimisation ends a solve without freeing the transformed problem ...  *)
ExitForReopt ==
  /\ stage = "transformed" /\ initialized
  /\ initialized' = FALSE
  /\ answer' = NoAnswer
  /\ UNCHANGED <<use, stage, gen, origs, transs, nconss, consmap, data>>

(* ... and initialises the plugins again for the next one.                  *)
InitAfterReopt ==
  /\ stage = "transformed" /\ ~initialized
  /\ initialized' = TRUE
  /\ data' = InitHandler(gen)
  /\ UNCHANGED <<use, stage, gen, origs, transs, nconss, consmap, answer>>

(* Slip: an exit callback frees the data and leaves them in the map. *)
FreeTransformWithData ==
  /\ stage = "transformed"
  /\ stage' = "problem"
  /\ initialized' = FALSE
  /\ transs' = Empty
  /\ answer' = NoAnswer
  /\ data' = [k \in DOMAIN data |-> [data[k] EXCEPT !.live = FALSE]]
  /\ UNCHANGED <<use, gen, origs, nconss, consmap>>

(* The transformed problem is freed; the handlers have no exit callback.    *)
FreeTransform ==
  /\ stage = "transformed"
  /\ stage' = "problem"
  /\ initialized' = FALSE
  /\ transs' = Empty
  /\ answer' = NoAnswer
  /\ UNCHANGED <<use, gen, origs, nconss, consmap, data>>

(* The destructor frees the data of every entry. *)
FreeScip ==
  /\ stage = "problem"
  /\ stage' = "freed"
  /\ origs' = Empty
  /\ data' = [k \in DOMAIN data |->
                IF \E a \in DOMAIN consmap : consmap[a] = k
                  THEN [data[k] EXCEPT !.live = FALSE] ELSE data[k]]
  /\ consmap' = Empty
  /\ answer' = NoAnswer
  /\ UNCHANGED <<use, gen, initialized, transs, nconss>>

Next ==
  \/ AddCons \/ DelCons \/ Register \/ SetActivationhdlr
  \/ Transform \/ FindActivationData \/ ExitForReopt \/ InitAfterReopt
  \/ FreeTransform \/ FreeScip

Spec == Init /\ [][Next]_vars

-------------------------------------------------------------------------------
(***************************************************************************)
(* Properties.                                                             *)
(***************************************************************************)

(* The variables have the values their declarations in the code allow.      *)
TypeOK ==
  /\ replaces \in BOOLEAN /\ caller \in {"none", "deletes", "sets"}
  /\ stage \in {"problem", "transformed", "freed"} /\ gen \in 0 .. MaxGen
  /\ initialized \in BOOLEAN /\ (initialized => stage = "transformed")
  /\ nconss \in 0 .. MaxConss
  /\ DOMAIN origs \subseteq Addr /\ DOMAIN transs \subseteq Addr
  /\ \A a \in DOMAIN origs : origs[a] \in [id : 1 .. MaxConss, handler : BOOLEAN]
  /\ \A a \in DOMAIN consmap : a \in Addr /\ consmap[a] \in DOMAIN data
  /\ data \in Seq([live : BOOLEAN, cons : 1 .. MaxConss, vars : 0 .. MaxGen])

(* The map leads to data that have not been freed, as long as no constraint *)
(* is deleted: initialisation, lookup and destructor go through it without  *)
(* a look at what they find.                                                *)
EntriesLive ==
  caller # "deletes" => \A a \in DOMAIN consmap : data[consmap[a]].live

(* A constraint is propagated with data that were registered for it, not    *)
(* with those of another one that was at its address before, nor with data  *)
(* that have been freed.                                                    *)
AnswersOwnData ==
  answer.used > 0 =>
    data[answer.used].live /\ data[answer.used].cons = answer.cons

(* The list the propagator works on has been set by the handler, for a      *)
(* constraint that has been registered.                                     *)
AnswerDefined == answer.cons > 0 /\ Registered(answer.cons) => answer.used > 0

(* The bounds the handler reads are those of the problem being solved; of a *)
(* handler that replaces its variables, only the first time.                *)
ReadsThisProblem == answer.used > 0 /\ (replaces => gen = 1) => answer.vars = gen

(* Nothing the handlers have allocated outlives SCIP, as long as no         *)
(* constraint is deleted.                                                   *)
NothingLeft ==
  caller # "deletes" /\ stage = "freed" => \A k \in DOMAIN data : ~data[k].live
===============================================================================
