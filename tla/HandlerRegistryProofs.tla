------------------------- MODULE HandlerRegistryProofs -------------------------
(***************************************************************************)
(* Proofs about HandlerRegistry, for any addresses, any numbers of         *)
(* constraints and data, and any number of transformations.  The inductive *)
(* invariant says of which constraint the data under an address are, and   *)
(* which of the two copies of a constraint refer to the handler.           *)
(***************************************************************************)
EXTENDS HandlerRegistry, SequenceTheorems, TLAPS

Entry == [live : BOOLEAN, cons : 1 .. MaxConss, vars : 0 .. MaxGen]

(* Constraints are numbered in the order of their creation, so that no two  *)
(* have the same number, and the data carry numbers of constraints.         *)
Numbered ==
  /\ \A a \in DOMAIN origs : origs[a].id <= nconss
  /\ \A a, b \in DOMAIN origs : origs[a].id = origs[b].id => a = b
  /\ \A k \in DOMAIN data : data[k].cons <= nconss

(* Two addresses lead to different data. *)
OneEach == \A a, b \in DOMAIN consmap : consmap[a] = consmap[b] => a = b

(* The transformed constraints are those of the original problem; what is   *)
(* known about a handler was known when the problem was transformed.        *)
Copied ==
  /\ stage = "transformed" =>
       /\ DOMAIN transs = DOMAIN origs
       /\ \A a \in DOMAIN transs : transs[a] \in [id : 1 .. MaxConss, handler : BOOLEAN]
       /\ \A a \in DOMAIN transs : transs[a].id = origs[a].id
       /\ \A a \in DOMAIN transs : transs[a].handler => origs[a].handler
       /\ gen > 0
  /\ stage # "transformed" => transs = Empty /\ answer = NoAnswer
  /\ stage = "freed" => origs = Empty /\ consmap = Empty

(* The data under the address of a constraint that refers to the handler    *)
(* are its own, and they are there if it has ever been registered.          *)
Own ==
  \A a \in DOMAIN origs : origs[a].handler =>
    /\ a \in DOMAIN consmap =>
         data[consmap[a]].live /\ data[consmap[a]].cons = origs[a].id
    /\ Registered(origs[a].id) => a \in DOMAIN consmap

(* Unless constraints are deleted, this holds whether or not a constraint   *)
(* refers to the handler, and there are no data but those in the map.       *)
OwnAlways ==
  caller # "deletes" /\ stage # "freed" =>
    /\ \A a \in DOMAIN consmap :
         /\ a \in DOMAIN origs
         /\ data[consmap[a]].live /\ data[consmap[a]].cons = origs[a].id
    /\ \A k \in DOMAIN data : \E a \in DOMAIN consmap : consmap[a] = k

(* The latest answer was given to a constraint that refers to the handler.  *)
Answered ==
  answer = NoAnswer \/
    /\ answer \in [cons : 1 .. MaxConss, used : Nat, vars : Nat]
    /\ \E a \in DOMAIN transs :
         /\ transs[a].handler /\ transs[a].id = answer.cons
         /\ answer.used > 0 => a \in DOMAIN consmap /\ consmap[a] = answer.used
         /\ a \in DOMAIN consmap => answer.used > 0

(* How far the variables have been transformed: those of a constraint that  *)
(* refers to the handler, when the handler is initialised.                  *)
Transformed ==
  /\ \A k \in DOMAIN data : data[k].vars <= gen /\ (~replaces => data[k].vars = 0)
  /\ replaces /\ gen = 1 =>
       \A a \in DOMAIN transs :
         transs[a].handler /\ a \in DOMAIN consmap => data[consmap[a]].vars = 1

IInv ==
  /\ TypeOK /\ Numbered /\ OneEach /\ Copied /\ Own /\ OwnAlways
  /\ Answered /\ Transformed /\ ReadsThisProblem /\ NothingLeft

-------------------------------------------------------------------------------
(* What the data are after one has been freed and another one appended.     *)
LEMMA DataAppended ==
  ASSUME NEW s \in Seq(Entry), NEW e \in Entry
  PROVE  /\ Append(s, e) \in Seq(Entry)
         /\ DOMAIN Append(s, e) = DOMAIN s \cup {Len(s) + 1}
         /\ Append(s, e)[Len(s) + 1] = e
         /\ \A k \in DOMAIN s : Append(s, e)[k] = s[k]
OBVIOUS

LEMMA DataFreed ==
  ASSUME NEW s \in Seq(Entry), NEW k \in DOMAIN s
  PROVE  /\ [s EXCEPT ![k].live = FALSE] \in Seq(Entry)
         /\ DOMAIN [s EXCEPT ![k].live = FALSE] = DOMAIN s
         /\ Len([s EXCEPT ![k].live = FALSE]) = Len(s)
         /\ \A h \in DOMAIN s :
              /\ [s EXCEPT ![k].live = FALSE][h].cons = s[h].cons
              /\ [s EXCEPT ![k].live = FALSE][h].vars = s[h].vars
              /\ h # k => [s EXCEPT ![k].live = FALSE][h] = s[h]
<1>1. s[k] \in Entry
  OBVIOUS
<1>. DEFINE e == [s[k] EXCEPT !.live = FALSE]
<1>2. e \in Entry /\ e.cons = s[k].cons /\ e.vars = s[k].vars
  BY <1>1 DEF Entry
<1>3. [s EXCEPT ![k].live = FALSE] = [s EXCEPT ![k] = e]
  OBVIOUS
<1>. HIDE DEF e
<1>4. k \in 1 .. Len(s)
  OBVIOUS
<1>. DEFINE t == [s EXCEPT ![k] = e]
<1>5. t \in Seq(Entry) /\ Len(t) = Len(s) /\ \A h \in 1 .. Len(s) : t[h] = IF h = k THEN e ELSE s[h]
  BY <1>2, <1>4, ExceptSeq
<1>6. DOMAIN s = 1 .. Len(s) /\ DOMAIN t = 1 .. Len(t)
  BY <1>5
<1>. HIDE DEF t
<1>7. \A h \in DOMAIN s : t[h].cons = s[h].cons /\ t[h].vars = s[h].vars /\ (h # k => t[h] = s[h])
  BY <1>2, <1>5, <1>6
<1>. QED
  BY <1>3, <1>5, <1>6, <1>7 DEF t

(* A function on the numbers of the data is again a list of data.           *)
LEMMA DataMapped ==
  ASSUME NEW n \in Nat, NEW f \in [1 .. n -> Entry]
  PROVE  f \in Seq(Entry) /\ Len(f) = n
OBVIOUS

(* The initialisation changes nothing but the variables. *)
LEMMA Initialising ==
  ASSUME BoundAssumption, TypeOK, NEW g \in 0 .. MaxGen
  PROVE  /\ InitHandler(g) \in Seq(Entry)
         /\ DOMAIN InitHandler(g) = DOMAIN data
         /\ \A k \in DOMAIN data :
              /\ InitHandler(g)[k].live = data[k].live
              /\ InitHandler(g)[k].cons = data[k].cons
              /\ InitHandler(g)[k].vars =
                   IF replaces /\ \E a \in DOMAIN consmap : consmap[a] = k
                     THEN TransformedVar(data[k].vars, g) ELSE data[k].vars
<1>1. data \in Seq(Entry)
  BY DEF TypeOK, Entry
<1>2. CASE ~replaces
  BY <1>1, <1>2 DEF InitHandler
<1>3. CASE replaces
  <2>. DEFINE mapped(k) == \E a \in DOMAIN consmap : consmap[a] = k
              new(k) == [data[k] EXCEPT !.vars = TransformedVar(@, g)]
  <2>1. ASSUME NEW k \in DOMAIN data
        PROVE  /\ data[k] \in Entry /\ new(k) \in Entry
               /\ new(k).live = data[k].live /\ new(k).cons = data[k].cons
               /\ new(k).vars = TransformedVar(data[k].vars, g)
    <3>1. data[k] \in Entry
      BY <1>1
    <3>2. TransformedVar(data[k].vars, g) \in 0 .. MaxGen
      BY <3>1 DEF TransformedVar, Entry
    <3>. QED
      BY <3>1, <3>2 DEF Entry
  <2>2. InitHandler(g) = [k \in DOMAIN data |-> IF mapped(k) THEN new(k) ELSE data[k]]
    BY <1>3 DEF InitHandler
  <2>3. DOMAIN data = 1 .. Len(data) /\ Len(data) \in Nat
    BY <1>1
  <2>. HIDE DEF mapped, new
  <2>4. InitHandler(g) \in [1 .. Len(data) -> Entry]
    BY <2>1, <2>2, <2>3
  <2>5. \A k \in DOMAIN data : InitHandler(g)[k] = IF mapped(k) THEN new(k) ELSE data[k]
    BY <2>2
  <2>6. InitHandler(g) \in Seq(Entry) /\ DOMAIN InitHandler(g) = DOMAIN data
    BY <2>2, <2>3, <2>4, DataMapped
  <2>7. \A k \in DOMAIN data :
          /\ InitHandler(g)[k].live = data[k].live
          /\ InitHandler(g)[k].cons = data[k].cons
          /\ InitHandler(g)[k].vars =
               IF mapped(k) THEN TransformedVar(data[k].vars, g) ELSE data[k].vars
    BY <2>1, <2>5
  <2>. QED
    BY <1>3, <2>6, <2>7 DEF mapped
<1>. QED
  BY <1>2, <1>3

(* The map that is empty has no address in it. *)
LEMMA EmptyDomain == DOMAIN Empty = {}
BY DEF Empty

(* What the types say of the data and the counters.                         *)
LEMMA Typed ==
  ASSUME BoundAssumption, TypeOK
  PROVE  /\ data \in Seq(Entry) /\ Len(data) \in Nat /\ DOMAIN data = 1 .. Len(data)
         /\ \A k \in DOMAIN data :
              data[k] \in Entry /\ data[k].cons \in Nat /\ data[k].vars \in Nat
         /\ nconss \in Nat /\ gen \in Nat
<1>1. data \in Seq(Entry)
  BY DEF TypeOK, Entry
<1>2. \A k \in DOMAIN data : data[k] \in Entry
  BY <1>1
<1>3. \A e \in Entry : e.cons \in Nat /\ e.vars \in Nat
  BY DEF Entry, BoundAssumption
<1>. QED
  BY <1>1, <1>2, <1>3 DEF TypeOK

-------------------------------------------------------------------------------
(* The invariant holds at first.                                            *)
LEMMA InvariantInit ==
  ASSUME BoundAssumption, Init
  PROVE  IInv
<1>. USE EmptyDomain DEF Init, BoundAssumption, NoAnswer
<1>1. TypeOK
  <2>1. data \in Seq(Entry)
    BY EmptySeq
  <2>2. DOMAIN origs = {} /\ DOMAIN transs = {} /\ DOMAIN consmap = {}
    OBVIOUS
  <2>3. gen \in 0 .. MaxGen /\ nconss \in 0 .. MaxConss
    OBVIOUS
  <2>4. initialized \in BOOLEAN /\ ~initialized
    OBVIOUS
  <2>. QED
    BY <2>1, <2>2, <2>3, <2>4 DEF TypeOK, Entry
<1>2. Numbered
  BY DEF Numbered
<1>3. OneEach
  BY DEF OneEach
<1>4. Copied
  BY DEF Copied
<1>5. Own
  BY DEF Own, Registered
<1>6. OwnAlways
  BY DEF OwnAlways
<1>7. Answered
  BY DEF Answered
<1>8. Transformed
  BY DEF Transformed
<1>9. ReadsThisProblem
  BY DEF ReadsThisProblem
<1>10. NothingLeft
  BY DEF NothingLeft
<1>. QED
  BY <1>1, <1>2, <1>3, <1>4, <1>5, <1>6, <1>7, <1>8, <1>9, <1>10 DEF IInv

(* A new constraint has a new number, and no data.                          *)
LEMMA AddConsStep ==
  ASSUME BoundAssumption, IInv, AddCons
  PROVE  IInv'
<1>. USE DEF AddCons, IInv, BoundAssumption, use, Put
<1>1. TypeOK'
  BY DEF TypeOK
<1>2. Numbered'
  <2>1. PICK a \in Addr \ DOMAIN origs :
          origs' = Put(origs, a, [id |-> nconss + 1, handler |-> FALSE])
    OBVIOUS
  <2>2. /\ DOMAIN origs' = DOMAIN origs \cup {a} /\ origs'[a].id = nconss + 1
        /\ \A b \in DOMAIN origs : origs'[b] = origs[b]
    BY <2>1
  <2>3. \A b \in DOMAIN origs : origs'[b].id <= nconss /\ origs[b].id \in Nat
    BY <2>2 DEF TypeOK, Numbered
  <2>4. nconss' = nconss + 1 /\ nconss \in Nat /\ data' = data
    BY DEF TypeOK
  <2>5. \A k \in DOMAIN data : data[k].cons \in Nat
    BY Typed
  <2>. QED
    BY <2>2, <2>3, <2>4, <2>5 DEF Numbered
<1>3. OneEach'
  BY DEF TypeOK, OneEach
<1>4. Copied'
  BY DEF TypeOK, Copied
<1>5. Own'
  <2>1. PICK a \in Addr \ DOMAIN origs :
          origs' = Put(origs, a, [id |-> nconss + 1, handler |-> FALSE])
    OBVIOUS
  <2>2. /\ DOMAIN origs' = DOMAIN origs \cup {a} /\ ~origs'[a].handler
        /\ \A b \in DOMAIN origs : origs'[b] = origs[b]
    BY <2>1
  <2>. QED
    BY <2>2 DEF Own, Registered
<1>6. OwnAlways'
  BY DEF TypeOK, Numbered, OneEach, Copied, OwnAlways, Registered
<1>7. Answered'
  BY DEF TypeOK, Copied, Answered
<1>8. Transformed'
  BY DEF TypeOK, Copied, Transformed
<1>9. ReadsThisProblem'
  BY DEF Copied, Answered, Transformed, NoAnswer, ReadsThisProblem
<1>10. NothingLeft'
  BY DEF TypeOK, OwnAlways, NothingLeft
<1>. QED
  BY <1>1, <1>2, <1>3, <1>4, <1>5, <1>6, <1>7, <1>8, <1>9, <1>10

(* A deleted constraint leaves its data behind.                             *)
LEMMA DelConsStep ==
  ASSUME BoundAssumption, IInv, DelCons
  PROVE  IInv'
<1>. USE DEF DelCons, IInv, BoundAssumption, use, Drop
<1>1. TypeOK'
  BY DEF TypeOK
<1>2. Numbered'
  BY DEF TypeOK, Numbered
<1>3. OneEach'
  BY DEF TypeOK, OneEach
<1>4. Copied'
  BY DEF TypeOK, Copied
<1>5. Own'
  BY DEF TypeOK, Numbered, OneEach, Copied, Own, OwnAlways, Registered
<1>6. OwnAlways'
  BY DEF TypeOK, Numbered, OneEach, Copied, OwnAlways, Registered
<1>7. Answered'
  BY DEF TypeOK, Copied, Answered
<1>8. Transformed'
  BY DEF TypeOK, Copied, Transformed
<1>9. ReadsThisProblem'
  BY DEF Copied, Answered, Transformed, NoAnswer, ReadsThisProblem
<1>10. NothingLeft'
  BY DEF TypeOK, OwnAlways, NothingLeft
<1>. QED
  BY <1>1, <1>2, <1>3, <1>4, <1>5, <1>6, <1>7, <1>8, <1>9, <1>10

(* What a registration does to the data: one is added, and that under the   *)
(* address of the constraint, if there is one, is freed.                    *)
LEMMA Registering ==
  ASSUME BoundAssumption, IInv, Register
  PROVE  \E a \in DOMAIN origs :
           /\ ~Registered(origs[a].id) /\ ~origs[a].handler
           /\ data' \in Seq(Entry)
           /\ DOMAIN data' = DOMAIN data \cup {Len(data) + 1}
           /\ data'[Len(data) + 1] = Fresh(origs[a].id)
           /\ \A k \in DOMAIN data :
                /\ data'[k].cons = data[k].cons /\ data'[k].vars = data[k].vars
                /\ ~(a \in DOMAIN consmap /\ consmap[a] = k) => data'[k].live = data[k].live
           /\ \/ /\ a \in DOMAIN consmap /\ caller = "deletes"
                 /\ consmap' = consmap /\ origs' = origs
              \/ /\ a \notin DOMAIN consmap
                 /\ data' = Append(data, Fresh(origs[a].id))
                 /\ consmap' = Put(consmap, a, Len(data) + 1)
                 /\ origs' = [origs EXCEPT ![a].handler = TRUE]
<1>1. PICK a \in DOMAIN origs :
        /\ ~Registered(origs[a].id) /\ ~origs[a].handler
        /\ IF a \in DOMAIN consmap
             THEN /\ data' = Append([data EXCEPT ![consmap[a]].live = FALSE], Fresh(origs[a].id))
                  /\ UNCHANGED <<consmap, origs>>
             ELSE /\ data' = Append(data, Fresh(origs[a].id))
                  /\ consmap' = Put(consmap, a, Len(data) + 1)
                  /\ origs' = [origs EXCEPT ![a].handler = TRUE]
  BY DEF Register
<1>. DEFINE e == Fresh(origs[a].id)
<1>2. e \in Entry
  BY DEF IInv, TypeOK, Fresh, Entry, BoundAssumption
<1>3. data \in Seq(Entry)
  BY Typed DEF IInv
<1>. HIDE DEF e
<1>4. CASE a \in DOMAIN consmap
  <2>1. consmap[a] \in DOMAIN data
    BY <1>4 DEF IInv, TypeOK
  <2>. DEFINE freed == [data EXCEPT ![consmap[a]].live = FALSE]
  <2>2. /\ freed \in Seq(Entry) /\ DOMAIN freed = DOMAIN data /\ Len(freed) = Len(data)
        /\ \A k \in DOMAIN data :
             /\ freed[k].cons = data[k].cons /\ freed[k].vars = data[k].vars
             /\ k # consmap[a] => freed[k] = data[k]
    BY <1>3, <2>1, DataFreed
  <2>3. data' = Append(freed, e)
    BY <1>1, <1>4 DEF e
  <2>. HIDE DEF freed
  <2>4. /\ data' \in Seq(Entry)
        /\ DOMAIN data' = DOMAIN data \cup {Len(data) + 1} /\ data'[Len(data) + 1] = e
        /\ \A k \in DOMAIN data : data'[k] = freed[k]
    BY <1>2, <2>2, <2>3, DataAppended
  <2>5. caller = "deletes"
    <3>1. stage # "freed"
      BY DEF Register
    <3>2. caller # "deletes" => data[consmap[a]].cons = origs[a].id
      BY <1>4, <3>1 DEF IInv, OwnAlways
    <3>. QED
      BY <1>1, <2>1, <3>2 DEF Registered
  <2>. QED
    BY <1>1, <1>4, <2>2, <2>4, <2>5 DEF e
<1>5. CASE a \notin DOMAIN consmap
  <2>1. data' = Append(data, e)
    BY <1>1, <1>5 DEF e
  <2>2. /\ data' \in Seq(Entry)
        /\ DOMAIN data' = DOMAIN data \cup {Len(data) + 1} /\ data'[Len(data) + 1] = e
        /\ \A k \in DOMAIN data : data'[k] = data[k]
    BY <1>2, <1>3, <2>1, DataAppended
  <2>. QED
    BY <1>1, <1>5, <2>2 DEF e
<1>. QED
  BY <1>4, <1>5

(* A constraint that is refused has no handler, and its data are in nobody's *)
(* way; otherwise the new data are its own.                                  *)
LEMMA RegisterStep ==
  ASSUME BoundAssumption, IInv, Register
  PROVE  IInv'
<1>. DEFINE n == Len(data) + 1
<1>1. PICK a \in DOMAIN origs :
        /\ ~Registered(origs[a].id) /\ ~origs[a].handler
        /\ data' \in Seq(Entry)
        /\ DOMAIN data' = DOMAIN data \cup {n}
        /\ data'[n] = Fresh(origs[a].id)
        /\ \A k \in DOMAIN data :
             /\ data'[k].cons = data[k].cons /\ data'[k].vars = data[k].vars
             /\ ~(a \in DOMAIN consmap /\ consmap[a] = k) => data'[k].live = data[k].live
        /\ \/ /\ a \in DOMAIN consmap /\ caller = "deletes"
              /\ consmap' = consmap /\ origs' = origs
           \/ /\ a \notin DOMAIN consmap
              /\ data' = Append(data, Fresh(origs[a].id))
              /\ consmap' = Put(consmap, a, n)
              /\ origs' = [origs EXCEPT ![a].handler = TRUE]
  BY Registering
<1>2. /\ n \in Nat \ {0} /\ n \notin DOMAIN data
      /\ \A k \in DOMAIN data : k \in Nat \ {0}
  BY Typed DEF IInv
<1>. HIDE DEF n
<1>3. /\ stage # "freed" /\ caller' = caller /\ stage' = stage /\ gen' = gen
      /\ replaces' = replaces /\ transs' = transs /\ answer' = answer /\ nconss' = nconss
      /\ initialized' = initialized
  BY DEF Register, use
<1>4. /\ DOMAIN origs' = DOMAIN origs
      /\ \A b \in DOMAIN origs : origs'[b].id = origs[b].id
      /\ \A b \in DOMAIN origs : b # a => origs'[b] = origs[b]
      /\ origs'[a].handler = (a \notin DOMAIN consmap)
      /\ \A b \in DOMAIN origs : origs'[b] \in [id : 1 .. MaxConss, handler : BOOLEAN]
  <2>1. origs[a] \in [id : 1 .. MaxConss, handler : BOOLEAN]
    BY DEF IInv, TypeOK
  <2>2. /\ [origs[a] EXCEPT !.handler = TRUE] \in [id : 1 .. MaxConss, handler : BOOLEAN]
        /\ [origs[a] EXCEPT !.handler = TRUE].id = origs[a].id
        /\ [origs[a] EXCEPT !.handler = TRUE].handler
    BY <2>1
  <2>3. CASE a \in DOMAIN consmap
    BY <1>1, <2>3 DEF IInv, TypeOK
  <2>4. CASE a \notin DOMAIN consmap
    <3>1. origs' = [origs EXCEPT ![a] = [origs[a] EXCEPT !.handler = TRUE]]
      BY <1>1, <2>4
    <3>. QED
      BY <2>2, <2>4, <3>1 DEF IInv, TypeOK
  <2>. QED
    BY <2>3, <2>4
<1>5. /\ DOMAIN consmap' = DOMAIN consmap \cup {a}
      /\ \A b \in DOMAIN consmap : consmap'[b] = consmap[b] /\ consmap[b] \in DOMAIN data
      /\ a \notin DOMAIN consmap => consmap'[a] = n
  <2>1. \A b \in DOMAIN consmap : consmap[b] \in DOMAIN data
    BY DEF IInv, TypeOK
  <2>2. CASE a \in DOMAIN consmap
    BY <1>1, <2>1, <2>2
  <2>3. CASE a \notin DOMAIN consmap
    <3>1. consmap' = Put(consmap, a, n)
      BY <1>1, <2>3
    <3>. QED
      BY <2>1, <2>3, <3>1 DEF Put
  <2>. QED
    BY <2>2, <2>3
<1>6. data'[n] \in Entry /\ data'[n].live /\ data'[n].cons = origs[a].id /\ data'[n].vars = 0
  <2>1. origs[a].id \in 1 .. MaxConss /\ 0 \in 0 .. MaxGen
    BY DEF IInv, TypeOK, BoundAssumption
  <2>. QED
    BY <1>1, <2>1 DEF Fresh, Entry
<1>7. \A id : (\E k \in DOMAIN data' : data'[k].cons = id) <=> Registered(id) \/ id = origs[a].id
  BY <1>1, <1>2, <1>6 DEF Registered
<1>8. TypeOK'
  BY <1>1, <1>2, <1>3, <1>4, <1>5 DEF IInv, TypeOK, Entry
<1>9. Numbered'
  BY <1>1, <1>3, <1>4, <1>6 DEF IInv, Numbered
<1>10. OneEach'
  BY <1>1, <1>2, <1>5 DEF IInv, OneEach
<1>11. Copied'
  <2>1. stage = "transformed" =>
          /\ DOMAIN transs = DOMAIN origs /\ gen > 0
          /\ \A b \in DOMAIN transs : /\ transs[b] \in [id : 1 .. MaxConss, handler : BOOLEAN]
                                      /\ transs[b].id = origs[b].id
                                      /\ transs[b].handler => origs[b].handler
    BY DEF IInv, Copied
  <2>2. ~origs[a].handler
    BY <1>1
  <2>3. stage = "transformed" =>
          \A b \in DOMAIN transs : transs[b].id = origs'[b].id
                                  /\ (transs[b].handler => origs'[b].handler)
    BY <1>4, <2>1, <2>2
  <2>4. stage # "transformed" => transs = Empty /\ answer = NoAnswer
    BY DEF IInv, Copied
  <2>. QED
    BY <1>3, <1>4, <2>1, <2>3, <2>4 DEF Copied
<1>12. ASSUME NEW b \in DOMAIN origs, origs'[b].handler
       PROVE  /\ b \in DOMAIN consmap' =>
                   data'[consmap'[b]].live /\ data'[consmap'[b]].cons = origs'[b].id
              /\ (\E k \in DOMAIN data' : data'[k].cons = origs'[b].id) => b \in DOMAIN consmap'
  <2>1. CASE b = a
    BY <1>4, <1>5, <1>6, <1>12, <2>1
  <2>2. CASE b # a
    <3>1. origs[b].handler /\ origs'[b].id = origs[b].id /\ origs[b].id # origs[a].id
      BY <1>4, <1>12, <2>2 DEF IInv, Numbered
    <3>2. (\E k \in DOMAIN data' : data'[k].cons = origs'[b].id) => b \in DOMAIN consmap'
      BY <1>5, <1>7, <3>1 DEF IInv, Own
    <3>3. ASSUME b \in DOMAIN consmap'
          PROVE  data'[consmap'[b]].live /\ data'[consmap'[b]].cons = origs'[b].id
      <4>1. b \in DOMAIN consmap /\ consmap'[b] = consmap[b] /\ consmap[b] \in DOMAIN data
        BY <1>5, <2>2, <3>3
      <4>2. data[consmap[b]].live /\ data[consmap[b]].cons = origs[b].id
        BY <3>1, <4>1 DEF IInv, Own
      <4>3. ~(a \in DOMAIN consmap /\ consmap[a] = consmap[b])
        BY <2>2, <4>1 DEF IInv, OneEach
      <4>. QED
        BY <1>1, <3>1, <4>1, <4>2, <4>3
    <3>. QED
      BY <3>2, <3>3
  <2>. QED
    BY <2>1, <2>2
<1>13. Own'
  BY <1>4, <1>12 DEF Own, Registered
<1>14. OwnAlways'
  <2>1. SUFFICES ASSUME caller # "deletes"
                 PROVE  /\ \A b \in DOMAIN consmap' :
                             /\ b \in DOMAIN origs'
                             /\ data'[consmap'[b]].live
                             /\ data'[consmap'[b]].cons = origs'[b].id
                        /\ \A k \in DOMAIN data' : \E b \in DOMAIN consmap' : consmap'[b] = k
    BY <1>3 DEF OwnAlways
  <2>2. a \notin DOMAIN consmap
    BY <1>1, <2>1
  <2>3. /\ \A b \in DOMAIN consmap :
             b \in DOMAIN origs /\ data[consmap[b]].live /\ data[consmap[b]].cons = origs[b].id
        /\ \A k \in DOMAIN data : \E b \in DOMAIN consmap : consmap[b] = k
    BY <1>3, <2>1 DEF IInv, OwnAlways
  <2>4. /\ DOMAIN data' = DOMAIN data \cup {n}
        /\ \A k \in DOMAIN data : data'[k].cons = data[k].cons /\ data'[k].live = data[k].live
    BY <1>1, <2>2
  <2>5. ASSUME NEW b \in DOMAIN consmap'
        PROVE  b \in DOMAIN origs' /\ data'[consmap'[b]].live
               /\ data'[consmap'[b]].cons = origs'[b].id
    BY <1>4, <1>5, <1>6, <2>2, <2>3, <2>4, <2>5
  <2>6. ASSUME NEW k \in DOMAIN data'
        PROVE  \E b \in DOMAIN consmap' : consmap'[b] = k
    BY <1>5, <2>2, <2>3, <2>4, <2>6
  <2>. QED
    BY <2>5, <2>6
<1>15. Answered'
  <2>1. CASE answer = NoAnswer
    BY <1>3, <2>1 DEF Answered
  <2>2. CASE answer # NoAnswer
    <3>1. stage = "transformed"
      BY <2>2 DEF IInv, Copied
    <3>2. PICK b \in DOMAIN transs :
            /\ transs[b].handler /\ transs[b].id = answer.cons
            /\ answer.used > 0 => b \in DOMAIN consmap /\ consmap[b] = answer.used
            /\ b \in DOMAIN consmap => answer.used > 0
      BY <2>2 DEF IInv, Answered
    <3>3. b # a
      BY <1>1, <3>1, <3>2 DEF IInv, Copied
    <3>4. /\ answer.used > 0 => b \in DOMAIN consmap' /\ consmap'[b] = answer.used
          /\ b \in DOMAIN consmap' => answer.used > 0
      BY <1>5, <3>2, <3>3
    <3>5. answer \in [cons : 1 .. MaxConss, used : Nat, vars : Nat]
      BY <2>2 DEF IInv, Answered
    <3>. QED
      BY <1>3, <3>2, <3>4, <3>5 DEF Answered
  <2>. QED
    BY <2>1, <2>2
<1>16. Transformed'
  <2>1. ASSUME NEW k \in DOMAIN data'
        PROVE  data'[k].vars <= gen' /\ (~replaces' => data'[k].vars = 0)
    BY <1>1, <1>3, <1>6, <2>1, Typed DEF IInv, Transformed
  <2>2. ASSUME replaces, gen = 1, NEW b \in DOMAIN transs, transs[b].handler,
               b \in DOMAIN consmap'
        PROVE  data'[consmap'[b]].vars = 1
    <3>1. stage = "transformed"
      BY <2>2, EmptyDomain DEF IInv, Copied
    <3>2. b # a
      BY <1>1, <2>2, <3>1 DEF IInv, Copied
    <3>3. b \in DOMAIN consmap /\ consmap'[b] = consmap[b] /\ consmap[b] \in DOMAIN data
      BY <1>5, <2>2, <3>2
    <3>4. data[consmap[b]].vars = 1
      BY <2>2, <3>3 DEF IInv, Transformed
    <3>. QED
      BY <1>1, <3>3, <3>4
  <2>. QED
    BY <1>3, <2>1, <2>2 DEF Transformed
<1>17. ReadsThisProblem'
  BY <1>3 DEF IInv, ReadsThisProblem
<1>18. NothingLeft'
  BY <1>3 DEF NothingLeft
<1>. QED
  BY <1>8, <1>9, <1>10, <1>11, <1>13, <1>14, <1>15, <1>16, <1>17, <1>18 DEF IInv

(* Only the flag of a constraint that is in the map already matters.        *)
LEMMA SetActivationhdlrStep ==
  ASSUME BoundAssumption, IInv, SetActivationhdlr
  PROVE  IInv'
<1>. USE DEF SetActivationhdlr, IInv, BoundAssumption, use
<1>1. TypeOK'
  <2>1. PICK a \in DOMAIN origs : origs' = [origs EXCEPT ![a].handler = TRUE]
    OBVIOUS
  <2>2. origs[a] \in [id : 1 .. MaxConss, handler : BOOLEAN]
    BY DEF TypeOK
  <2>3. [origs[a] EXCEPT !.handler = TRUE] \in [id : 1 .. MaxConss, handler : BOOLEAN]
    BY <2>2
  <2>4. DOMAIN origs' = DOMAIN origs
        /\ \A b \in DOMAIN origs : origs'[b] \in [id : 1 .. MaxConss, handler : BOOLEAN]
    BY <2>1, <2>3 DEF TypeOK
  <2>. QED
    BY <2>4 DEF TypeOK
<1>2. Numbered'
  BY DEF TypeOK, Numbered
<1>3. OneEach'
  BY DEF TypeOK, OneEach
<1>4. Copied'
  BY DEF TypeOK, Copied
<1>5. Own'
  BY DEF TypeOK, Numbered, OneEach, Copied, Own, OwnAlways, Registered
<1>6. OwnAlways'
  BY DEF TypeOK, Numbered, OneEach, Copied, OwnAlways, Registered
<1>7. Answered'
  BY DEF TypeOK, Copied, Answered
<1>8. Transformed'
  BY DEF TypeOK, Copied, Transformed
<1>9. ReadsThisProblem'
  BY DEF Copied, Answered, Transformed, NoAnswer, ReadsThisProblem
<1>10. NothingLeft'
  BY DEF TypeOK, OwnAlways, NothingLeft
<1>. QED
  BY <1>1, <1>2, <1>3, <1>4, <1>5, <1>6, <1>7, <1>8, <1>9, <1>10

(* The transformed constraints are copies; the variables of those with data *)
LEMMA TransformStep ==
  ASSUME BoundAssumption, IInv, Transform
  PROVE  IInv'
<1>. USE DEF Transform, IInv, BoundAssumption, use, Entry
<1>a. /\ data' \in Seq(Entry) /\ DOMAIN data' = DOMAIN data
      /\ \A k \in DOMAIN data :
           /\ data'[k].live = data[k].live /\ data'[k].cons = data[k].cons
           /\ data'[k].vars =
                IF replaces /\ \E a \in DOMAIN consmap : consmap[a] = k
                  THEN TransformedVar(data[k].vars, gen') ELSE data[k].vars
  BY Initialising, gen + 1 \in 0 .. MaxGen DEF TypeOK
<1>b. \A a \in DOMAIN consmap : consmap[a] \in DOMAIN data
  BY DEF TypeOK
<1>c. \A k \in DOMAIN data : data[k].vars \in Nat /\ gen \in Nat
  BY Typed
<1>d. \A id : (\E k \in DOMAIN data' : data'[k].cons = id) <=> Registered(id)
  BY <1>a DEF Registered
<1>e. consmap' = consmap /\ replaces' = replaces /\ caller' = caller /\ nconss' = nconss
  OBVIOUS
<1>1. TypeOK'
  <2>1. gen' \in 0 .. MaxGen
    BY DEF TypeOK
  <2>2. initialized' \in BOOLEAN /\ stage' = "transformed"
    OBVIOUS
  <2>3. DOMAIN origs' \subseteq Addr /\ DOMAIN transs' \subseteq Addr
        /\ \A a \in DOMAIN origs' : origs'[a] \in [id : 1 .. MaxConss, handler : BOOLEAN]
    BY DEF TypeOK
  <2>. QED
    BY <1>a, <1>b, <1>e, <2>1, <2>2, <2>3 DEF TypeOK, Entry
<1>2. Numbered'
  BY <1>a, <1>b, <1>c DEF TypeOK, Numbered
<1>3. OneEach'
  BY DEF TypeOK, OneEach
<1>4. Copied'
  BY DEF TypeOK, Copied
<1>5. Own'
  <2>1. \A a \in DOMAIN origs : origs[a].handler /\ a \in DOMAIN consmap =>
          data'[consmap[a]].live /\ data'[consmap[a]].cons = origs[a].id
    BY <1>a, <1>b DEF Own
  <2>2. \A a \in DOMAIN origs :
          origs[a].handler /\ (\E k \in DOMAIN data' : data'[k].cons = origs[a].id)
            => a \in DOMAIN consmap
    BY <1>d DEF Own
  <2>3. origs' = origs
    OBVIOUS
  <2>. QED
    BY <2>1, <2>2, <2>3, <1>e DEF Own, Registered
<1>6. OwnAlways'
  BY <1>a, <1>b, <1>c DEF TypeOK, Numbered, OneEach, Copied, OwnAlways, Registered
<1>7. Answered'
  BY DEF TypeOK, Copied, Answered
<1>8. Transformed'
  <2>1. ASSUME NEW k \in DOMAIN data'
        PROVE  data'[k].vars <= gen' /\ (~replaces' => data'[k].vars = 0)
    <3>1. k \in DOMAIN data /\ data[k].vars \in 0 .. gen /\ gen' = gen + 1 /\ gen \in Nat
      BY <2>1, <1>a, <1>c DEF Transformed
    <3>2. replaces => data'[k].vars \in {data[k].vars, TransformedVar(data[k].vars, gen')}
      BY <3>1, <1>a
    <3>3. ~replaces => data'[k].vars = 0
      BY <3>1, <1>a DEF Transformed
    <3>. QED
      BY <3>1, <3>2, <3>3, <1>e DEF TransformedVar
  <2>2. ASSUME replaces', gen' = 1, NEW a \in DOMAIN transs', a \in DOMAIN consmap'
        PROVE  data'[consmap'[a]].vars = 1
    <3>1. consmap[a] \in DOMAIN data
      BY <2>2, <1>b, <1>e
    <3>2. data'[consmap[a]].vars = TransformedVar(data[consmap[a]].vars, 1)
      BY <3>1, <2>2, <1>a, <1>e
    <3>3. data[consmap[a]].vars \in 0 .. 1
      BY <3>1, <2>2, <1>c DEF Transformed
    <3>. QED
      BY <3>2, <3>3, <1>e DEF TransformedVar
  <2>. QED
    BY <2>1, <2>2 DEF Transformed
<1>9. ReadsThisProblem'
  BY DEF Copied, Answered, Transformed, NoAnswer, ReadsThisProblem
<1>10. NothingLeft'
  BY <1>a, <1>b, <1>c DEF TypeOK, OwnAlways, NothingLeft
<1>. QED
  BY <1>1, <1>2, <1>3, <1>4, <1>5, <1>6, <1>7, <1>8, <1>9, <1>10

(* The answer is that of the constraint asked for.                          *)
LEMMA FindActivationDataStep ==
  ASSUME BoundAssumption, IInv, FindActivationData
  PROVE  IInv'
<1>. USE DEF FindActivationData, IInv, BoundAssumption, use
<1>1. TypeOK'
  BY DEF TypeOK
<1>2. Numbered'
  BY DEF TypeOK, Numbered
<1>3. OneEach'
  BY DEF TypeOK, OneEach
<1>4. Copied'
  BY DEF TypeOK, Copied
<1>5. Own'
  BY DEF TypeOK, Numbered, OneEach, Copied, Own, OwnAlways, Registered
<1>6. OwnAlways'
  BY DEF TypeOK, Numbered, OneEach, Copied, OwnAlways, Registered
<1>7. Answered'
  <2>1. PICK a \in DOMAIN transs : transs[a].handler /\ answer'.cons = transs[a].id
          /\ answer' \in [cons : {transs[a].id}, used : Nat, vars : Nat]
          /\ answer'.used = IF a \in DOMAIN consmap THEN consmap[a] ELSE 0
    <3>1. \A a \in DOMAIN consmap : consmap[a] \in DOMAIN data
      BY DEF TypeOK
    <3>2. \A a \in DOMAIN consmap : /\ consmap[a] \in Nat /\ data[consmap[a]].vars \in Nat
                                    /\ TransformedVar(data[consmap[a]].vars, gen) \in Nat
      BY <3>1, Typed DEF TransformedVar
    <3>. QED
      BY <3>2
  <2>2. transs[a].id \in 1 .. MaxConss
    BY DEF Copied, NoAnswer, Empty
  <2>3. a \in DOMAIN consmap => consmap[a] > 0
    BY Typed DEF TypeOK
  <2>. QED
    BY <2>1, <2>2, <2>3 DEF Answered
<1>8. Transformed'
  BY DEF TypeOK, Copied, Transformed
<1>9. ReadsThisProblem'
  BY DEF TypeOK, Copied, Own, Transformed, TransformedVar, ReadsThisProblem
<1>10. NothingLeft'
  BY DEF TypeOK, OwnAlways, NothingLeft
<1>. QED
  BY <1>1, <1>2, <1>3, <1>4, <1>5, <1>6, <1>7, <1>8, <1>9, <1>10

(* The answer is dropped.                                                   *)
LEMMA ExitForReoptStep ==
  ASSUME BoundAssumption, IInv, ExitForReopt
  PROVE  IInv'
<1>. USE DEF ExitForReopt, IInv, BoundAssumption, use
<1>1. TypeOK'
  BY DEF TypeOK
<1>2. Numbered'
  BY DEF TypeOK, Numbered
<1>3. OneEach'
  BY DEF TypeOK, OneEach
<1>4. Copied'
  BY DEF TypeOK, Copied
<1>5. Own'
  BY DEF TypeOK, Numbered, OneEach, Copied, Own, OwnAlways, Registered
<1>6. OwnAlways'
  BY DEF TypeOK, Numbered, OneEach, Copied, OwnAlways, Registered
<1>7. Answered'
  BY DEF TypeOK, Copied, Answered
<1>8. Transformed'
  BY DEF TypeOK, Copied, Transformed
<1>9. ReadsThisProblem'
  BY DEF Copied, Answered, Transformed, NoAnswer, ReadsThisProblem
<1>10. NothingLeft'
  BY DEF TypeOK, OwnAlways, NothingLeft
<1>. QED
  BY <1>1, <1>2, <1>3, <1>4, <1>5, <1>6, <1>7, <1>8, <1>9, <1>10

(* The variables are transformed again, which changes none of these.        *)
LEMMA InitAfterReoptStep ==
  ASSUME BoundAssumption, IInv, InitAfterReopt
  PROVE  IInv'
<1>. USE DEF InitAfterReopt, IInv, BoundAssumption, use, Entry
<1>a. /\ data' \in Seq(Entry) /\ DOMAIN data' = DOMAIN data
      /\ \A k \in DOMAIN data :
           /\ data'[k].live = data[k].live /\ data'[k].cons = data[k].cons
           /\ data'[k].vars =
                IF replaces /\ \E a \in DOMAIN consmap : consmap[a] = k
                  THEN TransformedVar(data[k].vars, gen') ELSE data[k].vars
  BY Initialising DEF TypeOK
<1>b. \A a \in DOMAIN consmap : consmap[a] \in DOMAIN data
  BY DEF TypeOK
<1>c. \A k \in DOMAIN data : data[k].vars \in Nat /\ gen \in Nat
  BY Typed
<1>d. \A id : (\E k \in DOMAIN data' : data'[k].cons = id) <=> Registered(id)
  BY <1>a DEF Registered
<1>e. consmap' = consmap /\ replaces' = replaces /\ caller' = caller /\ nconss' = nconss
  OBVIOUS
<1>1. TypeOK'
  BY <1>a, <1>b, <1>c DEF TypeOK, Entry
<1>2. Numbered'
  BY <1>a, <1>b, <1>c DEF TypeOK, Numbered
<1>3. OneEach'
  BY DEF TypeOK, OneEach
<1>4. Copied'
  BY DEF TypeOK, Copied
<1>5. Own'
  <2>1. \A a \in DOMAIN origs : origs[a].handler /\ a \in DOMAIN consmap =>
          data'[consmap[a]].live /\ data'[consmap[a]].cons = origs[a].id
    BY <1>a, <1>b DEF Own
  <2>2. \A a \in DOMAIN origs :
          origs[a].handler /\ (\E k \in DOMAIN data' : data'[k].cons = origs[a].id)
            => a \in DOMAIN consmap
    BY <1>d DEF Own
  <2>3. origs' = origs
    OBVIOUS
  <2>. QED
    BY <2>1, <2>2, <2>3, <1>e DEF Own, Registered
<1>6. OwnAlways'
  BY <1>a, <1>b, <1>c DEF TypeOK, Numbered, OneEach, Copied, OwnAlways, Registered
<1>7. Answered'
  BY DEF TypeOK, Copied, Answered
<1>8. Transformed'
  <2>1. ASSUME NEW k \in DOMAIN data'
        PROVE  data'[k].vars <= gen' /\ (~replaces' => data'[k].vars = 0)
    BY <2>1, <1>a, <1>c, <1>e DEF Transformed, TransformedVar
  <2>2. ASSUME replaces', gen' = 1, NEW a \in DOMAIN transs', a \in DOMAIN consmap'
        PROVE  data'[consmap'[a]].vars = 1
    <3>1. consmap[a] \in DOMAIN data
      BY <2>2, <1>b, <1>e
    <3>2. data'[consmap[a]].vars = TransformedVar(data[consmap[a]].vars, 1)
      BY <3>1, <2>2, <1>a, <1>e
    <3>3. data[consmap[a]].vars \in 0 .. 1
      BY <3>1, <2>2, <1>c DEF Transformed
    <3>. QED
      BY <3>2, <3>3, <1>e DEF TransformedVar
  <2>. QED
    BY <2>1, <2>2 DEF Transformed
<1>9. ReadsThisProblem'
  BY DEF Copied, Answered, Transformed, NoAnswer, ReadsThisProblem
<1>10. NothingLeft'
  BY <1>a, <1>b, <1>c DEF TypeOK, OwnAlways, NothingLeft
<1>. QED
  BY <1>1, <1>2, <1>3, <1>4, <1>5, <1>6, <1>7, <1>8, <1>9, <1>10

(* The transformed constraints are gone, and the latest answer.             *)
LEMMA FreeTransformStep ==
  ASSUME BoundAssumption, IInv, FreeTransform
  PROVE  IInv'
<1>. USE EmptyDomain DEF FreeTransform, IInv, BoundAssumption, use
<1>1. TypeOK'
  BY DEF TypeOK
<1>2. Numbered'
  BY DEF TypeOK, Numbered
<1>3. OneEach'
  BY DEF TypeOK, OneEach
<1>4. Copied'
  BY DEF TypeOK, Copied
<1>5. Own'
  BY DEF TypeOK, Numbered, OneEach, Copied, Own, OwnAlways, Registered
<1>6. OwnAlways'
  BY DEF TypeOK, Numbered, OneEach, Copied, OwnAlways, Registered
<1>7. Answered'
  BY DEF TypeOK, Copied, Answered
<1>8. Transformed'
  BY DEF TypeOK, Copied, Transformed
<1>9. ReadsThisProblem'
  BY DEF Copied, Answered, Transformed, NoAnswer, ReadsThisProblem
<1>10. NothingLeft'
  BY DEF TypeOK, OwnAlways, NothingLeft
<1>. QED
  BY <1>1, <1>2, <1>3, <1>4, <1>5, <1>6, <1>7, <1>8, <1>9, <1>10

(* All data are freed, and nothing refers to them.                          *)
LEMMA FreeScipStep ==
  ASSUME BoundAssumption, IInv, FreeScip
  PROVE  IInv'
<1>. USE EmptyDomain DEF FreeScip, IInv, BoundAssumption, use
<1>1. TypeOK'
  <2>1. ASSUME NEW k \in DOMAIN data
        PROVE  data'[k] \in Entry
    <3>1. data[k] \in Entry
      BY Typed
    <3>2. data'[k] = data[k] \/ data'[k] = [data[k] EXCEPT !.live = FALSE]
      OBVIOUS
    <3>. QED
      BY <3>1, <3>2 DEF Entry
  <2>2. data' \in [1 .. Len(data) -> Entry] /\ Len(data) \in Nat
    BY <2>1, Typed
  <2>3. data' \in Seq(Entry)
    BY <2>2, DataMapped
  <2>. QED
    BY <2>3 DEF TypeOK, Entry
<1>2. Numbered'
  BY DEF TypeOK, Numbered
<1>3. OneEach'
  BY DEF TypeOK, OneEach
<1>4. Copied'
  BY DEF TypeOK, Copied
<1>5. Own'
  BY DEF TypeOK, Numbered, OneEach, Copied, Own, OwnAlways, Registered
<1>6. OwnAlways'
  BY DEF TypeOK, Numbered, OneEach, Copied, OwnAlways, Registered
<1>7. Answered'
  BY DEF TypeOK, Copied, Answered
<1>8. Transformed'
  BY DEF TypeOK, Copied, Transformed
<1>9. ReadsThisProblem'
  BY DEF Copied, Answered, Transformed, NoAnswer, ReadsThisProblem
<1>10. NothingLeft'
  BY DEF TypeOK, OwnAlways, NothingLeft
<1>. QED
  BY <1>1, <1>2, <1>3, <1>4, <1>5, <1>6, <1>7, <1>8, <1>9, <1>10

-------------------------------------------------------------------------------
LEMMA InvariantStep ==
  ASSUME BoundAssumption, IInv, [Next]_vars
  PROVE  IInv'
<1>1. CASE UNCHANGED vars
  BY <1>1 DEF vars, use, IInv, TypeOK, Numbered, OneEach, Copied, Own, OwnAlways, Answered,
              Transformed, ReadsThisProblem, NothingLeft, Registered
<1>. QED
  BY <1>1, AddConsStep, DelConsStep, RegisterStep, SetActivationhdlrStep, TransformStep,
     FindActivationDataStep, ExitForReoptStep, InitAfterReoptStep, FreeTransformStep,
     FreeScipStep DEF Next

LEMMA Invariant ==
  ASSUME BoundAssumption
  PROVE  Spec => []IInv
<1>1. Init => IInv
  BY InvariantInit
<1>2. IInv /\ [Next]_vars => IInv'
  BY InvariantStep
<1>. QED
  BY <1>1, <1>2, PTL DEF Spec

(* The registry keeps its types, whatever the caller does and however often *)
(* the problem is transformed.                                              *)
THEOREM TypeCorrect ==
  ASSUME BoundAssumption
  PROVE  Spec => []TypeOK
<1>1. IInv => TypeOK
  BY DEF IInv
<1>. QED
  BY <1>1, Invariant, PTL

(* Initialisation, lookup and destructor find data that have not been       *)
(* freed, over all transformations and reoptimisations, if no constraint of *)
(* the original problem is deleted.                                         *)
THEOREM MapLeadsToLiveData ==
  ASSUME BoundAssumption
  PROVE  Spec => []EntriesLive
<1>1. IInv => EntriesLive
  BY EmptyDomain DEF IInv, EntriesLive, OwnAlways, Copied
<1>. QED
  BY <1>1, Invariant, PTL

(* What the handler answers for a constraint comes from data registered for *)
(* this constraint that have not been freed, even if constraints are        *)
(* deleted and their addresses used again.                                  *)
THEOREM AnswersFromOwnData ==
  ASSUME BoundAssumption
  PROVE  Spec => []AnswersOwnData
<1>1. ASSUME IInv PROVE AnswersOwnData
  <2>1. SUFFICES ASSUME answer.used > 0
                 PROVE  data[answer.used].live /\ data[answer.used].cons = answer.cons
    BY DEF AnswersOwnData
  <2>2. answer # NoAnswer
    BY <2>1 DEF NoAnswer
  <2>3. PICK a \in DOMAIN transs :
          /\ transs[a].handler /\ transs[a].id = answer.cons
          /\ a \in DOMAIN consmap /\ consmap[a] = answer.used
    BY <1>1, <2>1, <2>2 DEF IInv, Answered
  <2>4. a \in DOMAIN origs /\ origs[a].handler /\ origs[a].id = answer.cons
    BY <1>1, <2>2, <2>3 DEF IInv, Copied
  <2>. QED
    BY <1>1, <2>3, <2>4 DEF IInv, Own
<1>. QED
  BY <1>1, Invariant, PTL

(* The pointer of the caller is set whenever it asks for a constraint that  *)
(* has been registered.                                                     *)
THEOREM RegisteredAreAnswered ==
  ASSUME BoundAssumption
  PROVE  Spec => []AnswerDefined
<1>1. ASSUME IInv PROVE AnswerDefined
  <2>1. SUFFICES ASSUME answer.cons > 0, Registered(answer.cons)
                 PROVE  answer.used > 0
    BY DEF AnswerDefined
  <2>2. answer # NoAnswer
    BY <2>1 DEF NoAnswer
  <2>3. PICK a \in DOMAIN transs :
          /\ transs[a].handler /\ transs[a].id = answer.cons
          /\ a \in DOMAIN consmap => answer.used > 0
    BY <1>1, <2>2 DEF IInv, Answered
  <2>4. a \in DOMAIN origs /\ origs[a].handler /\ origs[a].id = answer.cons
    BY <1>1, <2>2, <2>3 DEF IInv, Copied
  <2>. QED
    BY <1>1, <2>1, <2>3, <2>4 DEF IInv, Own
<1>. QED
  BY <1>1, Invariant, PTL

(* A handler reads variables of the problem that is being solved; one that  *)
(* replaces them at initialisation, in the first solve.                     *)
THEOREM VariablesOfThisProblem ==
  ASSUME BoundAssumption
  PROVE  Spec => []ReadsThisProblem
<1>1. IInv => ReadsThisProblem
  BY DEF IInv
<1>. QED
  BY <1>1, Invariant, PTL

(* When SCIP is freed, nothing is left of what the handlers have allocated, *)
(* if no constraint of the original problem is deleted.                     *)
THEOREM NothingOutlivesScip ==
  ASSUME BoundAssumption
  PROVE  Spec => []NothingLeft
<1>1. IInv => NothingLeft
  BY DEF IInv
<1>. QED
  BY <1>1, Invariant, PTL
===============================================================================
