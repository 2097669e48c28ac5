---------------------------- MODULE AssociativeMap ----------------------------
(***************************************************************************)
(* What SCIP's hash map promises (pub_misc.h): a partial function from     *)
(* origins to images.  One call is served at a time; it takes effect at    *)
(* once at some moment between its start and its return.                   *)
(***************************************************************************)
EXTENDS Functions

CONSTANTS
  Origins,   (* the keys                                                   *)
  Images,    (* the values                                                 *)
  NoCall, NoAnswer, Okay, KeyExists, Absent

VARIABLES
  map,       (* the function                                               *)
  call,      (* the call being served: operation, origin, image            *)
  answer     (* its result                                                 *)

absvars == <<map, call, answer>>

Calls ==
  [op : {"Insert", "SetImage"}, origin : Origins, image : Images]
  \cup [op : {"GetImage", "Remove"}, origin : Origins]
  \cup [op : {"RemoveAll"}]

Known == call.origin \in DOMAIN map

AbsInit == map = << >> /\ call = NoCall /\ answer = NoAnswer

Start == call = NoCall /\ call' \in Calls /\ UNCHANGED <<map, answer>>

With(k, v) == [o \in DOMAIN map \cup {k} |-> IF o = k THEN v ELSE map[o]]

(* SCIPhashmapInsert, SCIPhashmapInsertInt *)
DoInsert ==
  /\ call.op = "Insert"
  /\ IF Known THEN map' = map /\ answer' = KeyExists
     ELSE map' = With(call.origin, call.image) /\ answer' = Okay

(* SCIPhashmapSetImageInt *)
DoSetImage ==
  /\ call.op = "SetImage"
  /\ map' = With(call.origin, call.image) /\ answer' = Okay

(* SCIPhashmapGetImage, SCIPhashmapGetImageInt, SCIPhashmapExists *)
DoGetImage ==
  /\ call.op = "GetImage"
  /\ answer' = IF Known THEN map[call.origin] ELSE Absent
  /\ map' = map

(* SCIPhashmapRemove *)
DoRemove ==
  /\ call.op = "Remove"
  /\ map' = Restrict(map, DOMAIN map \ {call.origin}) /\ answer' = Okay

(* SCIPhashmapRemoveAll *)
DoRemoveAll == call.op = "RemoveAll" /\ map' = << >> /\ answer' = Okay

Effect ==
  /\ call # NoCall /\ answer = NoAnswer
  /\ DoInsert \/ DoSetImage \/ DoGetImage \/ DoRemove \/ DoRemoveAll
  /\ UNCHANGED call

AbsReturn == answer # NoAnswer /\ call' = NoCall /\ answer' = NoAnswer /\ UNCHANGED map

AbsNext == Start \/ Effect \/ AbsReturn

(* A call that has been started comes back. *)
AbsSpec ==
  AbsInit /\ [][AbsNext]_absvars /\ WF_absvars(Effect) /\ WF_absvars(AbsReturn)
===============================================================================
