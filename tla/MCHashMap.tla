------------------------------- MODULE MCHashMap ------------------------------
(***************************************************************************)
(* Small instances of HashMap: three origins with two images, on which the *)
(* map of AssociativeMap is compared with the table, and four origins in a *)
(* table (T) that is filled further.  A behaviour is that of one of them.  *)
(***************************************************************************)
EXTENDS HashMap

(* The hash functions on the origins 1 .. n, up to their names and to a     *)
(* rotation of the table: an element is at home in its last slot, and none  *)
(* in its first one unless they are in all.  Chains go around the end.      *)
AnyHash(n) ==
  {h \in [1 .. n -> 0 .. 2^Width - 1] :
     LET SlotOf(k) == h[k] \div 2^FirstShift
         last      == 2^(Width - FirstShift) - 1
     IN  /\ \A a, b \in 1 .. n : a < b => h[a] <= h[b]
         /\ SlotOf(n) = last
         /\ SlotOf(1) = 0 => {SlotOf(k) : k \in 1 .. n} = 0 .. last}

Numbers    == 1 .. 3
HashesOf3  == AnyHash(3)

VARIABLES
  size,      (* of which of the two a behaviour is: "small" or "large"     *)
  thash, tshift, tslots, tnelements, told, tnext, tcall, tanswer, tpc, thand, tpos, tdistance

tvars == <<thash, tshift, tslots, tnelements, told, tnext, tcall, tanswer, tpc, thand,
           tpos, tdistance>>

T == INSTANCE HashMap WITH
  Origins <- 1 .. 4, Images <- {"i"}, MaxLoad <- 700, Hashes <- AnyHash(4),
  hash <- thash, shift <- tshift, slots <- tslots, nelements <- tnelements, old <- told,
  next <- tnext, call <- tcall, answer <- tanswer, pc <- tpc, hand <- thand, pos <- tpos,
  elemdistance <- tdistance

(* The instance that is not called. *)
SomeHash(n) == [k \in 1 .. n |-> 2^Width - 1]

InitSizes ==
  \/ size = "small" /\ Init /\ T!Init /\ thash = SomeHash(4)
  \/ size = "large" /\ Init /\ T!Init /\ hash = SomeHash(3)

NextSmall == size = "small" /\ Next /\ UNCHANGED <<size, tvars>>
NextLarge == size = "large" /\ T!Next /\ UNCHANGED <<size, vars>>

SpecSizes ==
  /\ InitSizes /\ [][NextSmall \/ NextLarge]_<<size, vars, tvars>>
  /\ WF_vars(size = "small" /\ Internal)

(* Between two calls every element is found from its home, and there is     *)
(* always an empty slot to stop at: the count, which decides when the table *)
(* is rebuilt, is that of the slots in use, and the distance counted along  *)
(* the way is the one from the home.                                        *)
TableSound ==
  /\ TypeOK /\ CountExact /\ RobinHood /\ NeverFull /\ DistanceExact
  /\ T!TypeOK /\ T!CountExact /\ T!RobinHood /\ T!NeverFull /\ T!DistanceExact
===============================================================================
