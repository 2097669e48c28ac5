-------------------------------- MODULE HashMap -------------------------------
(***************************************************************************)
(* SCIP's hash map (misc.c): an open-addressing table with robin-hood      *)
(* probing.  An element that is further from its home than the one in its  *)
(* way takes the place of that one; a look-up stops where the searched     *)
(* element would have done so; a removal moves the rest of a chain to the  *)
(* left; a table that is too full is rebuilt with twice the slots.         *)
(*                                                                         *)
(* One step is one iteration of a loop.  Of a hash value the leading Width *)
(* bits are kept, enough for the largest table that occurs: the rest never *)
(* counts towards a position, and elements are told apart by their origin. *)
(***************************************************************************)
EXTENDS Integers, FiniteSets, FiniteSetsExt, Functions

CONSTANTS
  Origins, Images, NoCall, NoAnswer, Okay, KeyExists, Absent,
  Width,      (* bits of a hash value (32 in the code)                     *)
  FirstShift, (* the shift of a new table: 2^(Width - FirstShift) slots    *)
  MaxLoad,    (* the load, in parts of 1024, above which it is rebuilt     *)
  Hashes      (* the hash functions                                        *)

ASSUME SizeAssumption ==
  Width \in Nat /\ FirstShift \in 0 .. Width - 2 /\ MaxLoad \in 0 .. 1023

(* The powers of two, and the number of slots. *)
Pow2[k \in 0 .. Width] == IF k = 0 THEN 1 ELSE 2 * Pow2[k - 1]
NSlots(s) == Pow2[Width - s]

ASSUME HashAssumption == Hashes \subseteq [Origins -> 0 .. Pow2[Width] - 1]

(* With one slot empty, the smallest table counts as too full ...           *)
ASSUME LoadAssumption ==
  ((NSlots(FirstShift) - 1) * 1024) \div NSlots(FirstShift) > MaxLoad

(* ... and the largest one never does. *)
ASSUME OriginAssumption ==
  IsFiniteSet(Origins) /\ (Cardinality(Origins) * 1024) \div NSlots(0) <= MaxLoad

VARIABLES
  hash,       (* hashvalue: the hash value of every origin                 *)
  shift,
  slots,      (* position |-> <<origin, image>>, or << >> when empty       *)
  nelements,
  old, next,  (* CheckLoad: the slots being replaced, and the next of them *)
  call, answer,
  pc,         (* what the call is doing                                    *)
  hand,       (* the element a place is being looked for                   *)
  pos, elemdistance

vars == <<hash, shift, slots, nelements, old, next, call, answer, pc, hand, pos, elemdistance>>

Empty    == << >>
Elements == Origins \X Images

EmptyTable(s) == [p \in 0 .. NSlots(s) - 1 |-> Empty]

Home(k, s) == hash[k] \div Pow2[s]

(* Slip: the distance does not wrap around. *)
ElemDistanceFlat(p) == LET h == Home(slots[p][1], shift) IN IF p >= h THEN p - h ELSE 0

(* ELEM_DISTANCE *)
ElemDistance(p) == (p + NSlots(shift) - Home(slots[p][1], shift)) % NSlots(shift)

NextPos(p) == (p + 1) % NSlots(shift)

Calls ==
  [op : {"Insert", "SetImage"}, origin : Origins, image : Images]
  \cup [op : {"GetImage", "Remove"}, origin : Origins]
  \cup [op : {"RemoveAll"}]

ASSUME AnswerAssumption ==
  /\ NoCall \notin Calls
  /\ NoAnswer \notin Images \cup {Okay, KeyExists, Absent}

-------------------------------------------------------------------------------
(* SCIPhashmapCreate *)
Init ==
  /\ hash \in Hashes
  /\ shift = FirstShift /\ slots = EmptyTable(FirstShift) /\ nelements = 0
  /\ old = << >> /\ next = 0
  /\ call = NoCall /\ answer = NoAnswer /\ pc = "idle"
  /\ hand = Empty /\ pos = 0 /\ elemdistance = 0

ProbeFrom(k, s) == pos' = Home(k, s) /\ elemdistance' = 0

Step == pos' = NextPos(pos)

(* A call of the interface. *)
Call ==
  /\ pc = "idle"
  /\ call' \in Calls
  /\ pc' = CASE call'.op \in {"Insert", "SetImage"} -> "load"
             [] call'.op \in {"GetImage", "Remove"} -> "lookup"
             [] OTHER -> "clear"
  /\ IF pc' = "lookup" THEN ProbeFrom(call'.origin, shift) ELSE UNCHANGED <<pos, elemdistance>>
  /\ UNCHANGED <<hash, shift, slots, nelements, old, next, answer, hand>>

Settle(a) == answer' = a /\ pc' = "return"

Return ==
  /\ pc = "return"
  /\ pc' = "idle" /\ call' = NoCall /\ answer' = NoAnswer
  /\ hand' = Empty /\ pos' = 0 /\ elemdistance' = 0
  /\ UNCHANGED <<hash, shift, slots, nelements, old, next>>

-------------------------------------------------------------------------------
TakeInHand(e, s) == hand' = e /\ ProbeFrom(e[1], s)

TooFull == (nelements * 1024) \div NSlots(shift) > MaxLoad

(* hashmapCheckLoad, when the table is not too full. *)
LoadIsFine ==
  /\ pc = "load" /\ ~TooFull
  /\ TakeInHand(<<call.origin, call.image>>, shift)
  /\ pc' = "insert"
  /\ UNCHANGED <<hash, shift, slots, nelements, old, next, call, answer>>

(* hashmapCheckLoad, when it is: twice the slots. *)
Rebuild ==
  /\ pc = "load" /\ TooFull
  /\ shift' = shift - 1
  /\ slots' = EmptyTable(shift - 1)
  /\ nelements' = 0
  /\ old' = slots /\ next' = 0
  /\ pc' = "rebuild"
  /\ UNCHANGED <<hash, call, answer, hand, pos, elemdistance>>

Left == {i \in DOMAIN old : i >= next /\ old[i] # Empty}

(* The next element of the old table is inserted into the new one. *)
Reinsert ==
  /\ pc = "rebuild" /\ Left # {}
  /\ TakeInHand(old[Min(Left)], shift)
  /\ next' = Min(Left) + 1
  /\ pc' = "reinsert"
  /\ UNCHANGED <<hash, shift, slots, nelements, old, call, answer>>

(* The new element comes last. *)
Rebuilt ==
  /\ pc = "rebuild" /\ Left = {}
  /\ old' = << >> /\ next' = 0
  /\ TakeInHand(<<call.origin, call.image>>, shift)
  /\ pc' = "insert"
  /\ UNCHANGED <<hash, shift, slots, nelements, call, answer>>

-------------------------------------------------------------------------------
Inserting == pc \in {"insert", "reinsert"}
Matches   == slots[pos] # Empty /\ slots[pos][1] = hand[1]

(* hashmapInsert: the slot is empty. *)
Place ==
  /\ Inserting /\ slots[pos] = Empty
  /\ slots' = [slots EXCEPT ![pos] = hand]
  /\ nelements' = nelements + 1
  /\ IF pc = "insert" THEN Settle(Okay) ELSE pc' = "rebuild" /\ answer' = answer
  /\ UNCHANGED <<hash, shift, old, next, call, hand, pos, elemdistance>>

(* hashmapInsert: the origin is there already. *)
Override ==
  /\ Inserting /\ Matches
  /\ IF call.op = "SetImage"
       THEN slots' = [slots EXCEPT ![pos] = hand] /\ Settle(Okay)
       ELSE slots' = slots /\ Settle(KeyExists)
  /\ UNCHANGED <<hash, shift, nelements, old, next, call, hand, pos, elemdistance>>

(* hashmapInsert: the element in the way is at least as far from its home.  *)
GoOn ==
  /\ Inserting /\ slots[pos] # Empty /\ ~Matches
  /\ ElemDistance(pos) >= elemdistance
  /\ Step /\ elemdistance' = elemdistance + 1
  /\ UNCHANGED <<hash, shift, slots, nelements, old, next, call, answer, pc, hand>>

(* hashmapInsert: it is closer and makes room.  With the first one that     *)
(* does, the new element is in the table and the result of the call is set. *)
Swap ==
  /\ Inserting /\ slots[pos] # Empty /\ ~Matches
  /\ ElemDistance(pos) < elemdistance
  /\ slots' = [slots EXCEPT ![pos] = hand] /\ hand' = slots[pos]
  /\ answer' = IF pc = "insert" THEN Okay ELSE answer
  /\ Step /\ elemdistance' = ElemDistance(pos) + 1
  /\ UNCHANGED <<hash, shift, nelements, old, next, call, pc>>

-------------------------------------------------------------------------------
(* An empty slot, or one whose element would have made room.                *)
GivesUp == slots[pos] # Empty => elemdistance > ElemDistance(pos)

(* hashmapLookup *)
NotFound ==
  /\ pc = "lookup" /\ GivesUp
  /\ Settle(IF call.op = "Remove" THEN Okay ELSE Absent)
  /\ UNCHANGED <<hash, shift, slots, nelements, old, next, call, hand, pos, elemdistance>>

LookOn ==
  /\ pc = "lookup"
  /\ ~GivesUp /\ slots[pos][1] # call.origin
  /\ Step /\ elemdistance' = elemdistance + 1
  /\ UNCHANGED <<hash, shift, slots, nelements, old, next, call, answer, pc, hand>>

Found ==
  /\ pc = "lookup"
  /\ ~GivesUp /\ slots[pos][1] = call.origin
  /\ IF call.op = "Remove"
       THEN /\ slots' = [slots EXCEPT ![pos] = Empty]
            /\ nelements' = nelements - 1
            /\ answer' = Okay /\ pc' = "move"
       ELSE Settle(slots[pos][2]) /\ UNCHANGED <<slots, nelements>>
  /\ UNCHANGED <<hash, shift, old, next, call, hand, pos, elemdistance>>

(* Slip: the chain behind a removed element stays where it is. *)
EndsChainAlways(p) == TRUE

(* Slip: only an element at home ends a chain. *)
EndsChainAtHome(p) == slots[p] # Empty /\ Home(slots[p][1], shift) = p

(* No chain goes on at p: the slot is empty, or its element is at home.     *)
EndsChain(p) == slots[p] # Empty => Home(slots[p][1], shift) = p

(* SCIPhashmapRemove: the chain behind the removed element moves up.        *)
MoveUp ==
  /\ pc = "move" /\ ~EndsChain(NextPos(pos))
  /\ slots' = [slots EXCEPT ![pos] = slots[NextPos(pos)], ![NextPos(pos)] = Empty]
  /\ Step
  /\ UNCHANGED <<hash, shift, nelements, old, next, call, answer, pc, hand, elemdistance>>

Moved ==
  /\ pc = "move" /\ EndsChain(NextPos(pos))
  /\ pc' = "return"
  /\ UNCHANGED <<hash, shift, slots, nelements, old, next, call, answer, hand, pos, elemdistance>>

(* SCIPhashmapRemoveAll; the table keeps its size. *)
RemoveAll ==
  /\ pc = "clear"
  /\ slots' = EmptyTable(shift) /\ nelements' = 0
  /\ Settle(Okay)
  /\ UNCHANGED <<hash, shift, old, next, call, hand, pos, elemdistance>>

-------------------------------------------------------------------------------
Internal ==
  \/ LoadIsFine \/ Rebuild \/ Reinsert \/ Rebuilt
  \/ Place \/ Override \/ GoOn \/ Swap
  \/ NotFound \/ LookOn \/ Found \/ MoveUp \/ Moved \/ RemoveAll
  \/ Return

Next == Call \/ Internal

Spec == Init /\ [][Next]_vars

(* The operations are sequential code: one that has begun goes on.          *)
FairSpec == Spec /\ WF_vars(Internal)

-------------------------------------------------------------------------------
Occupied == {p \in DOMAIN slots : slots[p] # Empty}

(* The entries of the table, wherever they are: in a slot, in the old table *)
(* during a rebuild, or in hand when they had to make room.                 *)
Entries ==
  {slots[p] : p \in Occupied}
  \cup {old[i] : i \in Left}
  \cup {e \in {hand} : pc = "reinsert" \/ (pc = "insert" /\ answer = Okay)}

Contents ==
  [k \in {e[1] : e \in Entries} |-> (CHOOSE e \in Entries : e[1] = k)[2]]

Abstract == INSTANCE AssociativeMap WITH map <- Contents

TypeOK ==
  /\ hash \in Hashes
  /\ shift \in 0 .. FirstShift
  /\ slots \in [0 .. NSlots(shift) - 1 -> Elements \cup {Empty}]
  /\ nelements \in 0 .. Cardinality(Origins)
  /\ pos \in DOMAIN slots
  /\ call \in Calls \cup {NoCall}
  /\ answer \in Images \cup {NoAnswer, Okay, KeyExists, Absent}
  /\ pc \in {"idle", "load", "rebuild", "reinsert", "insert", "lookup", "move", "clear", "return"}

(* nelements, by which the load is judged and SCIPhashmapIsEmpty answers,   *)
(* is the number of elements in the slots, and none is there twice.         *)
CountExact ==
  /\ nelements = Cardinality(Occupied)
  /\ \A p, q \in Occupied : slots[p][1] = slots[q][1] => p = q

(* Between two calls every element is reached from its home over elements   *)
(* that are at least as far from theirs, as hashmapLookup presumes when it  *)
(* gives up early.                                                          *)
RobinHood ==
  pc = "idle" =>
    \A p \in Occupied : ElemDistance(p) > 0 =>
      LET before == (p + NSlots(shift) - 1) % NSlots(shift)
      IN  before \in Occupied /\ ElemDistance(p) <= ElemDistance(before) + 1

(* There is always an empty slot to stop at.                                *)
NeverFull == Occupied # DOMAIN slots

(* While an element is being placed, the distance counted along the way is  *)
(* its distance from its home.                                              *)
DistanceExact ==
  Inserting => elemdistance = (pos + NSlots(shift) - Home(hand[1], shift)) % NSlots(shift)

(* The table does what a partial function does, every operation at once.    *)
ImplementsMap == Abstract!AbsSpec

(* Every operation ends: no loop over the slots goes round for ever.        *)
Ends == (call # NoCall) ~> (call = NoCall)
===============================================================================
