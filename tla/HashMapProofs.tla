----------------------------- MODULE HashMapProofs -----------------------------
(***************************************************************************)
(* Proofs about HashMap, for tables, hash functions and sets of elements   *)
(* of any size: the table is in order, and does what a partial function    *)
(* does.                                                                   *)
(***************************************************************************)
EXTENDS HashMap, FiniteSetTheorems, WellFoundedInduction, TLAPS

-------------------------------------------------------------------------------
(***************************************************************************)
(* Least numbers, powers of two, and positions in a table.                 *)
(***************************************************************************)

(* A set of natural numbers that is not empty has a smallest element. *)
LEMMA MinIsLeast ==
  ASSUME NEW S, S \subseteq Nat, S # {}
  PROVE  Min(S) \in S /\ \A y \in S : Min(S) <= y
<1> DEFINE R == {ss \in Nat \X Nat : ss[1] < ss[2]}
<1>1. IsWellFoundedOn(R, Nat)
  BY NatLessThanWellFounded DEF OpToRel
<1>2. PICK x \in S : \A y \in S : ~(<<y, x>> \in R)
  BY <1>1, WFMin
<1>3. ASSUME NEW y \in S PROVE x <= y
  <2>1. ~(<<y, x>> \in R) /\ x \in Nat /\ y \in Nat
    BY <1>2
  <2>2. x > y => <<y, x>> \in R
    BY <2>1
  <2> QED BY <2>1, <2>2
<1>4. \E z \in S : \A y \in S : z <= y
  BY <1>3
<1> QED BY <1>4, Zenon DEF Min

(* f is the sequence of the powers of two as far as m. *)
Powers(f, m) ==
  f = [k \in 0 .. m |-> IF k = 0 THEN 1 ELSE 2 * f[k - 1]]

LEMMA PowersExist ==
  ASSUME NEW m \in Nat PROVE \E f : Powers(f, m)
<1> DEFINE Bad == {k \in Nat : ~\E f : Powers(f, k)}
<1>1. SUFFICES ASSUME Bad # {} PROVE FALSE
  OBVIOUS
<1>2. Bad \subseteq Nat
  OBVIOUS
<1>3. Min(Bad) \in Bad /\ \A h \in Bad : Min(Bad) <= h
  <2> HIDE DEF Bad
  <2> QED BY <1>1, <1>2, MinIsLeast
<1>4. PICK k \in Bad : \A h \in Bad : k <= h
  BY <1>3
<1>5. k \in Nat /\ ~\E f : Powers(f, k)
  BY <1>4
<1>6. CASE k = 0
  <2> DEFINE f == [h \in 0 .. 0 |-> 1]
  <2>1. f = [h \in 0 .. 0 |-> IF h = 0 THEN 1 ELSE 2 * f[h - 1]]
    OBVIOUS
  <2> HIDE DEF f
  <2>2. Powers(f, 0)
    BY <2>1 DEF Powers
  <2> QED BY <1>5, <1>6, <2>2
<1>7. CASE k # 0
  <2>1. k - 1 \in Nat /\ ~(k <= k - 1)
    BY <1>5, <1>7
  <2>2. \E f : Powers(f, k - 1)
    BY <1>4, <2>1
  <2>3. PICK f : Powers(f, k - 1)
    BY <2>2
  <2> DEFINE g == [h \in 0 .. k |-> IF h = k THEN 2 * f[k - 1] ELSE f[h]]
  <2>4. \A h \in 0 .. k - 1 : f[h] = IF h = 0 THEN 1 ELSE 2 * f[h - 1]
    BY <2>3 DEF Powers
  <2>5. ASSUME NEW h \in 0 .. k PROVE g[h] = IF h = 0 THEN 1 ELSE 2 * g[h - 1]
    <3>1. CASE h = k
      <4>1. h # 0 /\ h - 1 \in 0 .. k /\ h - 1 # k
        BY <1>5, <1>7, <3>1
      <4> QED BY <3>1, <4>1
    <3>2. CASE h # k
      <4>1. h \in 0 .. k - 1 /\ (h # 0 => h - 1 \in 0 .. k /\ h - 1 # k)
        BY <1>5, <3>2
      <4> QED BY <2>4, <4>1
    <3> QED BY <3>1, <3>2
  <2>6. g = [h \in 0 .. k |-> g[h]]
    OBVIOUS
  <2> HIDE DEF g
  <2>7. g = [h \in 0 .. k |-> IF h = 0 THEN 1 ELSE 2 * g[h - 1]]
    BY <2>5, <2>6
  <2>8. Powers(g, k)
    BY <2>7 DEF Powers
  <2> QED BY <1>5, <2>8
<1> QED BY <1>6, <1>7

LEMMA PowUnfolds ==
  Pow2[0] = 1 /\ \A k \in 1 .. Width : Pow2[k] = 2 * Pow2[k - 1]
<1> DEFINE F == CHOOSE F : F = [k \in 0 .. Width |-> IF k = 0 THEN 1 ELSE 2 * F[k - 1]]
<1>1. Pow2 = F
  BY Zenon DEF Pow2
<1>2. PICK f : Powers(f, Width)
  BY PowersExist, SizeAssumption
<1>3. f = [k \in 0 .. Width |-> IF k = 0 THEN 1 ELSE 2 * f[k - 1]]
  BY <1>2 DEF Powers
<1>4. F = [k \in 0 .. Width |-> IF k = 0 THEN 1 ELSE 2 * F[k - 1]]
  BY <1>3, Zenon
<1> HIDE DEF F
<1>5. \A k \in 0 .. Width : F[k] = IF k = 0 THEN 1 ELSE 2 * F[k - 1]
  BY <1>4
<1>6. 0 \in 0 .. Width /\ \A k \in 1 .. Width : k \in 0 .. Width /\ k # 0
  BY SizeAssumption
<1> QED BY <1>1, <1>5, <1>6

LEMMA PowTypes ==
  \A k \in 0 .. Width : Pow2[k] \in Nat \ {0}
<1> DEFINE Bad == {k \in 0 .. Width : Pow2[k] \notin Nat \ {0}}
<1>1. SUFFICES ASSUME Bad # {} PROVE FALSE
  OBVIOUS
<1>2. Bad \subseteq Nat
  OBVIOUS
<1>3. Min(Bad) \in Bad /\ \A h \in Bad : Min(Bad) <= h
  <2> HIDE DEF Bad
  <2> QED BY <1>1, <1>2, MinIsLeast
<1>4. PICK k \in Bad : \A h \in Bad : k <= h
  BY <1>3
<1>5. k \in 0 .. Width /\ Pow2[k] \notin Nat \ {0} /\ k # 0
  BY <1>4, PowUnfolds
<1>6. k \in 1 .. Width /\ k - 1 \in 0 .. Width /\ ~(k <= k - 1)
  BY <1>5, SizeAssumption
<1>7. Pow2[k - 1] \in Nat \ {0}
  BY <1>4, <1>6
<1>8. Pow2[k] = 2 * Pow2[k - 1]
  BY <1>6, PowUnfolds
<1> QED BY <1>5, <1>7, <1>8

LEMMA PowProduct ==
  ASSUME NEW k \in 0 .. Width
  PROVE  Pow2[k] * Pow2[Width - k] = Pow2[Width]
<1> DEFINE Bad == {h \in 0 .. Width : Pow2[h] * Pow2[Width - h] # Pow2[Width]}
<1>1. SUFFICES ASSUME Bad # {} PROVE FALSE
  OBVIOUS
<1>2. Bad \subseteq Nat
  OBVIOUS
<1>3. Min(Bad) \in Bad /\ \A h \in Bad : Min(Bad) <= h
  <2> HIDE DEF Bad
  <2> QED BY <1>1, <1>2, MinIsLeast
<1>4. PICK g \in Bad : \A h \in Bad : g <= h
  BY <1>3
<1>5. g \in 0 .. Width /\ Pow2[g] * Pow2[Width - g] # Pow2[Width] /\ Width \in Nat
  BY <1>4, SizeAssumption
<1>6. g # 0
  <2>1. Pow2[0] = 1 /\ Pow2[Width] \in Nat /\ Width - 0 = Width
    BY <1>5, PowUnfolds, PowTypes
  <2> QED BY <1>5, <2>1
<1>7. /\ g \in 1 .. Width /\ g - 1 \in 0 .. Width /\ ~(g <= g - 1)
      /\ Width - g \in 0 .. Width /\ Width - (g - 1) \in 1 .. Width
      /\ (Width - (g - 1)) - 1 = Width - g
  BY <1>5, <1>6
<1>8. Pow2[g - 1] * Pow2[Width - (g - 1)] = Pow2[Width]
  BY <1>4, <1>7
<1>9. Pow2[g] = 2 * Pow2[g - 1] /\ Pow2[Width - (g - 1)] = 2 * Pow2[Width - g]
  BY <1>7, PowUnfolds
<1>10. Pow2[g - 1] \in Nat /\ Pow2[Width - g] \in Nat
  BY <1>7, PowTypes
<1>11. Pow2[g] * Pow2[Width - g] = Pow2[g - 1] * Pow2[Width - (g - 1)]
  <2>1. \A x \in Nat, y \in Nat : (2 * x) * y = x * (2 * y)
    OBVIOUS
  <2> QED BY <1>9, <1>10, <2>1
<1> QED BY <1>5, <1>8, <1>11

LEMMA PowGrows ==
  ASSUME NEW a \in 0 .. Width, NEW b \in a .. Width
  PROVE  Pow2[a] <= Pow2[b]
<1> DEFINE Bad == {h \in a .. Width : ~(Pow2[a] <= Pow2[h])}
<1>1. SUFFICES ASSUME Bad # {} PROVE FALSE
  OBVIOUS
<1>2. Bad \subseteq Nat
  BY SizeAssumption
<1>3. Min(Bad) \in Bad /\ \A h \in Bad : Min(Bad) <= h
  <2> HIDE DEF Bad
  <2> QED BY <1>1, <1>2, MinIsLeast
<1>4. PICK g \in Bad : \A h \in Bad : g <= h
  BY <1>3
<1>5. g \in a .. Width /\ ~(Pow2[a] <= Pow2[g]) /\ Width \in Nat
  BY <1>4, SizeAssumption
<1>6. Pow2[a] \in Nat
  BY PowTypes
<1>7. g # a
  BY <1>5, <1>6
<1>8. g \in 1 .. Width /\ g - 1 \in a .. Width /\ g - 1 \in 0 .. Width /\ ~(g <= g - 1)
  BY <1>5, <1>7
<1>9. Pow2[a] <= Pow2[g - 1] /\ Pow2[g] = 2 * Pow2[g - 1] /\ Pow2[g - 1] \in Nat
  BY <1>4, <1>8, PowUnfolds, PowTypes
<1> QED BY <1>5, <1>6, <1>9

(* The number of slots of a table that is in use. *)
LEMMA TableSizes ==
  ASSUME NEW s \in 0 .. FirstShift
  PROVE  /\ NSlots(s) \in Nat /\ NSlots(s) >= 4
         /\ NSlots(FirstShift) \in Nat \ {0} /\ NSlots(FirstShift) <= NSlots(s)
         /\ s # 0 => s - 1 \in 0 .. FirstShift /\ NSlots(s - 1) = 2 * NSlots(s)
<1>1. /\ Width \in Nat /\ FirstShift \in 0 .. Width - 2
      /\ Width - s \in 2 .. Width /\ Width - s \in 0 .. Width
      /\ Width - FirstShift \in 0 .. Width /\ Width - s \in Width - FirstShift .. Width
  BY SizeAssumption
<1>2. Pow2[Width - s] \in Nat /\ Pow2[Width - FirstShift] \in Nat \ {0}
      /\ Pow2[Width - FirstShift] <= Pow2[Width - s]
  BY <1>1, PowTypes, PowGrows
<1>3. Pow2[2] = 4
  <2>1. 1 \in 1 .. Width /\ 2 \in 1 .. Width
    BY <1>1
  <2>2. Pow2[1] = 2 * Pow2[1 - 1] /\ Pow2[2] = 2 * Pow2[2 - 1] /\ Pow2[0] = 1
    BY <2>1, PowUnfolds
  <2> QED BY <2>2
<1>4. Pow2[2] <= Pow2[Width - s]
  BY <1>1, PowGrows
<1>5. s # 0 => s - 1 \in 0 .. FirstShift /\ Pow2[Width - (s - 1)] = 2 * Pow2[Width - s]
  <2>1. s # 0 => /\ s - 1 \in 0 .. FirstShift
                 /\ Width - (s - 1) \in 1 .. Width /\ (Width - (s - 1)) - 1 = Width - s
    BY <1>1
  <2> QED BY <2>1, PowUnfolds
<1> QED BY <1>2, <1>3, <1>4, <1>5 DEF NSlots

LEMMA HomeInTable ==
  ASSUME hash \in Hashes, NEW s \in 0 .. FirstShift, NEW k \in Origins
  PROVE  Home(k, s) \in 0 .. NSlots(s) - 1
<1>1. hash[k] \in 0 .. Pow2[Width] - 1
  BY HashAssumption
<1>2. s \in 0 .. Width /\ Width - s \in 0 .. Width
  BY SizeAssumption
<1>3. Pow2[s] \in Nat \ {0} /\ Pow2[Width - s] \in Nat \ {0}
      /\ Pow2[s] * Pow2[Width - s] = Pow2[Width]
  BY <1>2, PowTypes, PowProduct
<1>4. \A n \in Nat \ {0}, m \in Nat \ {0} : \A a \in 0 .. n * m - 1 : a \div n \in 0 .. m - 1
  OBVIOUS
<1>5. hash[k] \div Pow2[s] \in 0 .. Pow2[Width - s] - 1
  BY <1>1, <1>3, <1>4
<1> QED BY <1>5 DEF Home, NSlots

-------------------------------------------------------------------------------
(***************************************************************************)
(* The circle of the n slots.                                              *)
(***************************************************************************)
Dist(p, h, n) == (p + n - h) % n
Nxt(p, n) == (p + 1) % n
Prv(p, n) == (p + n - 1) % n

LEMMA DistCases ==
  ASSUME NEW n \in Nat \ {0}, NEW p \in 0 .. n - 1, NEW h \in 0 .. n - 1
  PROVE  Dist(p, h, n) = IF p >= h THEN p - h ELSE p + n - h
<1>1. /\ \A a \in n .. 2 * n - 1 : a % n = a - n
      /\ \A a \in 0 .. n - 1 : a % n = a
  OBVIOUS
<1>2. CASE p >= h
  <2>1. p + n - h \in n .. 2 * n - 1
    BY <1>2
  <2> QED BY <1>1, <1>2, <2>1 DEF Dist
<1>3. CASE p < h
  <2>1. p + n - h \in 0 .. n - 1
    BY <1>3
  <2> QED BY <1>1, <1>3, <2>1 DEF Dist
<1> QED BY <1>2, <1>3

LEMMA NxtCases ==
  ASSUME NEW n \in Nat \ {0}, NEW p \in 0 .. n - 1
  PROVE  /\ Nxt(p, n) = IF p = n - 1 THEN 0 ELSE p + 1
         /\ Prv(p, n) = IF p = 0 THEN n - 1 ELSE p - 1
<1>1. /\ \A a \in n .. 2 * n - 1 : a % n = a - n
      /\ \A a \in 0 .. n - 1 : a % n = a
  OBVIOUS
<1>2. Nxt(p, n) = IF p = n - 1 THEN 0 ELSE p + 1
  <2>1. CASE p = n - 1
    <3>1. p + 1 \in n .. 2 * n - 1
      BY <2>1
    <3> QED BY <1>1, <2>1, <3>1 DEF Nxt
  <2>2. CASE p # n - 1
    <3>1. p + 1 \in 0 .. n - 1
      BY <2>2
    <3> QED BY <1>1, <2>2, <3>1 DEF Nxt
  <2> QED BY <2>1, <2>2
<1>3. Prv(p, n) = IF p = 0 THEN n - 1 ELSE p - 1
  <2>1. CASE p = 0
    <3>1. p + n - 1 \in 0 .. n - 1
      BY <2>1
    <3> QED BY <1>1, <2>1, <3>1 DEF Prv
  <2>2. CASE p # 0
    <3>1. p + n - 1 \in n .. 2 * n - 1
      BY <2>2
    <3> QED BY <1>1, <2>2, <3>1 DEF Prv
  <2> QED BY <2>1, <2>2
<1> QED BY <1>2, <1>3

LEMMA Neighbours ==
  ASSUME NEW n \in Nat, n >= 4, NEW p \in 0 .. n - 1
  PROVE  /\ Nxt(p, n) \in 0 .. n - 1 /\ Prv(p, n) \in 0 .. n - 1
         /\ Prv(Nxt(p, n), n) = p /\ Nxt(Prv(p, n), n) = p
         /\ Nxt(p, n) # p /\ Prv(p, n) # p /\ Nxt(p, n) # Prv(p, n)
         /\ Prv(Prv(p, n), n) # p
         /\ Nxt(Nxt(p, n), n) # p /\ Nxt(Nxt(p, n), n) # Nxt(p, n)
         /\ \A q \in 0 .. n - 1 : Prv(q, n) = p => q = Nxt(p, n)
<1>0. n \in Nat \ {0}
  OBVIOUS
<1>1. \A q \in 0 .. n - 1 : /\ Nxt(q, n) = IF q = n - 1 THEN 0 ELSE q + 1
                            /\ Prv(q, n) = IF q = 0 THEN n - 1 ELSE q - 1
  BY <1>0, NxtCases
<1>2. Nxt(p, n) \in 0 .. n - 1 /\ Prv(p, n) \in 0 .. n - 1
  BY <1>1
<1>3. /\ Nxt(Nxt(p, n), n) = IF Nxt(p, n) = n - 1 THEN 0 ELSE Nxt(p, n) + 1
      /\ Prv(Nxt(p, n), n) = IF Nxt(p, n) = 0 THEN n - 1 ELSE Nxt(p, n) - 1
      /\ Nxt(Prv(p, n), n) = IF Prv(p, n) = n - 1 THEN 0 ELSE Prv(p, n) + 1
      /\ Prv(Prv(p, n), n) = IF Prv(p, n) = 0 THEN n - 1 ELSE Prv(p, n) - 1
  BY <1>1, <1>2
<1>4. \A q \in 0 .. n - 1 : Prv(q, n) = p => q = Nxt(p, n)
  BY <1>1
<1>5. /\ Nxt(p, n) = IF p = n - 1 THEN 0 ELSE p + 1
      /\ Prv(p, n) = IF p = 0 THEN n - 1 ELSE p - 1
  BY <1>1
<1> QED BY <1>2, <1>3, <1>4, <1>5

LEMMA Distances ==
  ASSUME NEW n \in Nat, n >= 4, NEW p \in 0 .. n - 1, NEW h \in 0 .. n - 1
  PROVE  /\ Dist(p, h, n) \in 0 .. n - 1
         /\ Dist(p, h, n) = 0 <=> p = h
         /\ Dist(p, h, n) < n - 1 => Dist(Nxt(p, n), h, n) = Dist(p, h, n) + 1
         /\ Dist(p, h, n) > 0 => Dist(Prv(p, n), h, n) = Dist(p, h, n) - 1
         /\ Dist(p, Dist(p, h, n), n) = h
         /\ \A q \in 0 .. n - 1 : Dist(q, h, n) = Dist(p, h, n) => q = p
<1>0. n \in Nat \ {0}
  OBVIOUS
<1>1. \A q \in 0 .. n - 1, g \in 0 .. n - 1 :
        Dist(q, g, n) = IF q >= g THEN q - g ELSE q + n - g
  BY <1>0, DistCases
<1>2. Dist(p, h, n) \in 0 .. n - 1 /\ (Dist(p, h, n) = 0 <=> p = h)
  BY <1>1
<1>3. /\ Nxt(p, n) = IF p = n - 1 THEN 0 ELSE p + 1
      /\ Prv(p, n) = IF p = 0 THEN n - 1 ELSE p - 1
      /\ Nxt(p, n) \in 0 .. n - 1 /\ Prv(p, n) \in 0 .. n - 1
  BY <1>0, NxtCases, Neighbours
<1>4. Dist(p, h, n) < n - 1 => Dist(Nxt(p, n), h, n) = Dist(p, h, n) + 1
  <2>1. /\ Dist(p, h, n) = IF p >= h THEN p - h ELSE p + n - h
        /\ Dist(Nxt(p, n), h, n) = IF Nxt(p, n) >= h THEN Nxt(p, n) - h ELSE Nxt(p, n) + n - h
    BY <1>1, <1>3
  <2> QED BY <1>3, <2>1
<1>5. Dist(p, h, n) > 0 => Dist(Prv(p, n), h, n) = Dist(p, h, n) - 1
  <2>1. /\ Dist(p, h, n) = IF p >= h THEN p - h ELSE p + n - h
        /\ Dist(Prv(p, n), h, n) = IF Prv(p, n) >= h THEN Prv(p, n) - h ELSE Prv(p, n) + n - h
    BY <1>1, <1>3
  <2> QED BY <1>3, <2>1
<1>6. Dist(p, Dist(p, h, n), n) = h
  BY <1>1, <1>2
<1>7. \A q \in 0 .. n - 1 : Dist(q, h, n) = Dist(p, h, n) => q = p
  BY <1>1
<1> QED BY <1>2, <1>4, <1>5, <1>6, <1>7

(* Slots O are in use, the element in slot p of them at the distance E[p]   *)
(* from its home.  Each is reached over elements that are at least as far.  *)
InOrder(O, E, n, p) == E[p] > 0 => Prv(p, n) \in O /\ E[p] <= E[Prv(p, n)] + 1

Reached(O, E, n) ==
  /\ O \subseteq 0 .. n - 1
  /\ \A p \in O : E[p] \in 0 .. n - 1 /\ InOrder(O, E, n, p)

LEMMA ChainBack ==
  ASSUME NEW n \in Nat, n >= 4, NEW O, NEW E, Reached(O, E, n), NEW q \in O,
         NEW j \in 0 .. E[q]
  PROVE  Dist(q, j, n) \in O /\ E[Dist(q, j, n)] >= E[q] - j
<1> DEFINE Ok(i) == Dist(q, i, n) \in O /\ E[Dist(q, i, n)] >= E[q] - i
           Bad   == {i \in 0 .. E[q] : ~Ok(i)}
<1>0. q \in 0 .. n - 1 /\ E[q] \in 0 .. n - 1
  BY DEF Reached
<1>1. SUFFICES ASSUME Bad # {} PROVE FALSE
  OBVIOUS
<1>2. Bad \subseteq Nat
  BY <1>0
<1>3. Min(Bad) \in Bad /\ \A i \in Bad : Min(Bad) <= i
  <2> HIDE DEF Bad
  <2> QED BY <1>1, <1>2, MinIsLeast
<1>4. PICK k \in Bad : \A i \in Bad : k <= i
  BY <1>3
<1>5. k \in 0 .. E[q] /\ ~Ok(k)
  BY <1>4
<1>6. k # 0
  <2>1. Dist(q, 0, n) = q
    BY <1>0, DistCases
  <2>2. Ok(0)
    BY <1>0, <2>1
  <2> HIDE DEF Ok
  <2> QED BY <1>5, <2>2
<1>7. k - 1 \in 0 .. E[q] /\ ~(k <= k - 1) /\ k \in 0 .. n - 1 /\ k - 1 \in 0 .. n - 1
  BY <1>0, <1>5, <1>6
<1>8. Ok(k - 1)
  <2> HIDE DEF Ok
  <2> QED BY <1>4, <1>7
<1> DEFINE p == Dist(q, k - 1, n)
<1>9. p \in O /\ E[p] >= E[q] - (k - 1)
  BY <1>8
<1>10. p \in 0 .. n - 1 /\ Dist(q, k, n) = Prv(p, n)
  <2>1. n \in Nat \ {0}
    OBVIOUS
  <2>2. /\ p = IF q >= k - 1 THEN q - (k - 1) ELSE q + n - (k - 1)
        /\ Dist(q, k, n) = IF q >= k THEN q - k ELSE q + n - k
    BY <1>0, <1>7, <2>1, DistCases
  <2>3. p \in 0 .. n - 1
    BY <1>0, <1>7, <2>2
  <2> HIDE DEF p
  <2>4. Prv(p, n) = IF p = 0 THEN n - 1 ELSE p - 1
    BY <2>1, <2>3, NxtCases
  <2> QED BY <1>0, <1>7, <2>2, <2>3, <2>4
<1> HIDE DEF p
<1>11. E[p] > 0 /\ E[p] \in Nat /\ InOrder(O, E, n, p)
  BY <1>0, <1>5, <1>7, <1>9 DEF Reached
<1>12. Prv(p, n) \in O /\ E[p] <= E[Prv(p, n)] + 1
  BY <1>11 DEF InOrder
<1>13. E[Prv(p, n)] \in Nat
  <2>1. \A i \in O : E[i] \in 0 .. n - 1
    BY DEF Reached
  <2>2. E[Prv(p, n)] \in 0 .. n - 1
    BY <1>12, <2>1
  <2> QED BY <2>2
<1>14. Ok(k)
  BY <1>0, <1>5, <1>9, <1>10, <1>11, <1>12, <1>13
<1> HIDE DEF Ok
<1> QED BY <1>5, <1>14

(* What lies between the home of an element and the element.                *)
LEMMA Between ==
  ASSUME NEW n \in Nat, n >= 4, NEW O, NEW E, Reached(O, E, n), NEW q \in O,
         NEW h \in 0 .. n - 1, E[q] = Dist(q, h, n),
         NEW p \in 0 .. n - 1, Dist(p, h, n) <= E[q]
  PROVE  p \in O /\ E[p] >= Dist(p, h, n)
<1> DEFINE j == E[q] - Dist(p, h, n)
<1>1. n \in Nat \ {0} /\ q \in 0 .. n - 1
  BY DEF Reached
<1>2. /\ E[q] = IF q >= h THEN q - h ELSE q + n - h
      /\ Dist(p, h, n) = IF p >= h THEN p - h ELSE p + n - h
      /\ E[q] \in 0 .. n - 1 /\ Dist(p, h, n) \in 0 .. n - 1
  BY <1>1, DistCases, Distances
<1>3. j \in 0 .. E[q] /\ j \in 0 .. n - 1
  BY <1>2
<1>4. Dist(q, j, n) = IF q >= j THEN q - j ELSE q + n - j
  BY <1>1, <1>3, DistCases
<1>5. Dist(q, j, n) = p
  BY <1>1, <1>2, <1>3, <1>4
<1>6. Dist(q, j, n) \in O /\ E[Dist(q, j, n)] >= E[q] - j
  BY <1>3, ChainBack
<1> QED BY <1>2, <1>5, <1>6

(* An element cannot be as far from home as the circle is long, unless      *)
(* there is no empty slot.                                                  *)
LEMMA AroundTheCircle ==
  ASSUME NEW n \in Nat, n >= 4, NEW O, NEW E, Reached(O, E, n), NEW q \in O, E[q] >= n - 1
  PROVE  O = 0 .. n - 1
<1>1. q \in 0 .. n - 1 /\ O \subseteq 0 .. n - 1 /\ E[q] \in Nat
  BY DEF Reached
<1>2. ASSUME NEW p \in 0 .. n - 1 PROVE p \in O
  <2>1. Dist(q, p, n) \in 0 .. n - 1 /\ Dist(q, Dist(q, p, n), n) = p
    BY <1>1, Distances
  <2>2. Dist(q, p, n) \in 0 .. E[q]
    BY <1>1, <2>1
  <2>3. Dist(q, Dist(q, p, n), n) \in O
    BY <2>2, ChainBack
  <2> QED BY <2>1, <2>3
<1> QED BY <1>1, <1>2

-------------------------------------------------------------------------------
(***************************************************************************)
(* Tables: T has n slots, and hm gives the homes.                          *)
(***************************************************************************)
Used(T) == {p \in DOMAIN T : T[p] # Empty}
Far(T, hm, n) == [p \in Used(T) |-> Dist(p, hm[T[p][1]], n)]

Table(T, hm, n) ==
  /\ n \in Nat /\ n >= 4
  /\ T \in [0 .. n - 1 -> Elements \cup {Empty}]
  /\ hm \in [Origins -> 0 .. n - 1]

Sorted(T, hm, n) == Reached(Used(T), Far(T, hm, n), n)

(* An element with the origin k, d slots from its home, may be put into p.  *)
Fitting(T, hm, n, p, d) == d = 0 \/ (Prv(p, n) \in Used(T) /\ Far(T, hm, n)[Prv(p, n)] >= d - 1)

LEMMA UsedSlots ==
  ASSUME NEW n, NEW hm, NEW T, Table(T, hm, n)
  PROVE  /\ Used(T) \subseteq 0 .. n - 1 /\ IsFiniteSet(Used(T)) /\ DOMAIN T = 0 .. n - 1
         /\ \A p \in 0 .. n - 1 : p \in Used(T) <=> T[p] # Empty
         /\ \A p \in Used(T) : /\ T[p] \in Elements /\ T[p][1] \in Origins
                               /\ Far(T, hm, n)[p] = Dist(p, hm[T[p][1]], n)
                               /\ hm[T[p][1]] \in 0 .. n - 1
                               /\ Far(T, hm, n)[p] \in 0 .. n - 1
<1>1. DOMAIN T = 0 .. n - 1 /\ Used(T) \subseteq 0 .. n - 1
      /\ \A p \in 0 .. n - 1 : p \in Used(T) <=> T[p] # Empty
  BY DEF Table, Used
<1>2. n - 1 \in Int /\ 0 \in Int
  BY DEF Table
<1>3. IsFiniteSet(Used(T))
  BY <1>1, <1>2, FS_Interval, FS_Subset
<1>4. ASSUME NEW p \in Used(T)
      PROVE  /\ T[p] \in Elements /\ T[p][1] \in Origins
             /\ Far(T, hm, n)[p] = Dist(p, hm[T[p][1]], n)
             /\ hm[T[p][1]] \in 0 .. n - 1
             /\ Far(T, hm, n)[p] \in 0 .. n - 1
  <2>1. T[p] \in Elements
    BY DEF Table, Used
  <2>2. T[p][1] \in Origins
    BY <2>1 DEF Elements
  <2>3. Far(T, hm, n)[p] = Dist(p, hm[T[p][1]], n)
    BY DEF Far
  <2>4. hm[T[p][1]] \in 0 .. n - 1 /\ p \in 0 .. n - 1 /\ n \in Nat /\ n >= 4
    BY <1>1, <2>2 DEF Table
  <2> QED BY <2>1, <2>2, <2>3, <2>4, Distances
<1> QED BY <1>1, <1>3, <1>4

(* A search that gives up has not overlooked the element. *)
LEMMA NotOverlooked ==
  ASSUME NEW n, NEW hm, NEW T, Table(T, hm, n), Sorted(T, hm, n),
         NEW k \in Origins, NEW p \in 0 .. n - 1,
         \A q \in Used(T) : T[q][1] = k => Far(T, hm, n)[q] >= Dist(p, hm[k], n),
         p \in Used(T) => Far(T, hm, n)[p] < Dist(p, hm[k], n),
         NEW q \in Used(T)
  PROVE  T[q][1] # k
<1>1. SUFFICES ASSUME T[q][1] = k PROVE FALSE
  OBVIOUS
<1>2. /\ n \in Nat /\ n >= 4 /\ hm[k] \in 0 .. n - 1
      /\ Far(T, hm, n)[q] = Dist(q, hm[k], n) /\ Far(T, hm, n)[q] >= Dist(p, hm[k], n)
      /\ Far(T, hm, n)[q] \in 0 .. n - 1
  BY <1>1, UsedSlots DEF Table
<1>3. Dist(p, hm[k], n) \in 0 .. n - 1
  BY <1>2, Distances
<1>4. p \in Used(T) /\ Far(T, hm, n)[p] >= Dist(p, hm[k], n)
  <2> DEFINE O == Used(T)
             F == Far(T, hm, n)
             h == hm[k]
  <2>1. Reached(O, F, n) /\ q \in O /\ F[q] = Dist(q, h, n) /\ Dist(p, h, n) <= F[q]
        /\ h \in 0 .. n - 1
    BY <1>2, <1>3 DEF Sorted
  <2> HIDE DEF O, F, h
  <2>2. p \in O /\ F[p] >= Dist(p, h, n)
    BY <1>2, <2>1, Between
  <2> QED BY <2>2 DEF O, F, h
<1>5. Far(T, hm, n)[p] \in 0 .. n - 1
  BY <1>4, UsedSlots
<1> QED BY <1>3, <1>4, <1>5

LEMMA NotAround ==
  ASSUME NEW n, NEW hm, NEW T, Table(T, hm, n), Sorted(T, hm, n), Used(T) # 0 .. n - 1,
         NEW q \in Used(T)
  PROVE  Far(T, hm, n)[q] < n - 1
<1>1. n \in Nat /\ n >= 4 /\ Far(T, hm, n)[q] \in 0 .. n - 1
  BY UsedSlots DEF Table
<1>2. ~(Far(T, hm, n)[q] >= n - 1)
  <2> DEFINE O == Used(T)
             F == Far(T, hm, n)
  <2>1. Reached(O, F, n) /\ q \in O /\ O # 0 .. n - 1
    BY DEF Sorted
  <2> HIDE DEF O, F
  <2>2. ~(F[q] >= n - 1)
    BY <1>1, <2>1, AroundTheCircle
  <2> QED BY <2>2 DEF F
<1> QED BY <1>1, <1>2

Put(T, p, e) == [T EXCEPT ![p] = e]

LEMMA NotEmpty ==
  ASSUME NEW e \in Elements PROVE e # Empty
<1>1. \A S, R : \A a \in S \X R : a # << >>
  OBVIOUS
<1> QED BY <1>1 DEF Elements, Empty

(* What an assignment to a slot changes. *)
LEMMA OneSlot ==
  ASSUME NEW n, NEW hm, NEW T, Table(T, hm, n), NEW p \in 0 .. n - 1, NEW e \in Elements,
         NEW U, U = Put(T, p, e)
  PROVE  /\ Table(U, hm, n) /\ Used(U) = Used(T) \cup {p} /\ U[p] = e
         /\ Far(U, hm, n)[p] = Dist(p, hm[e[1]], n)
         /\ \A q \in 0 .. n - 1 : q # p => U[q] = T[q]
         /\ \A q \in Used(T) : q # p => Far(U, hm, n)[q] = Far(T, hm, n)[q]
<1>1. DOMAIN T = 0 .. n - 1 /\ n \in Nat
  BY DEF Table
<1>2. U \in [0 .. n - 1 -> Elements \cup {Empty}] /\ U[p] = e
      /\ \A q \in 0 .. n - 1 : q # p => U[q] = T[q]
  BY <1>1 DEF Table, Put
<1>3. e # Empty
  BY NotEmpty
<1>4. Used(U) = Used(T) \cup {p}
  BY <1>1, <1>2, <1>3 DEF Used
<1>5. Table(U, hm, n)
  BY <1>2 DEF Table
<1>6. Far(U, hm, n)[p] = Dist(p, hm[e[1]], n)
  BY <1>2, <1>4 DEF Far
<1>7. ASSUME NEW q \in Used(T), q # p PROVE Far(U, hm, n)[q] = Far(T, hm, n)[q]
  <2>1. q \in Used(U) /\ U[q] = T[q]
    BY <1>1, <1>2, <1>4, <1>7 DEF Used
  <2> QED BY <2>1 DEF Far
<1> QED BY <1>2, <1>4, <1>5, <1>6, <1>7

LEMMA PlacedSorted ==
  ASSUME NEW n, NEW hm, NEW T, Table(T, hm, n), Sorted(T, hm, n),
         NEW p \in 0 .. n - 1, NEW e \in Elements, NEW d, d = Dist(p, hm[e[1]], n),
         Fitting(T, hm, n, p, d), p \in Used(T) => Far(T, hm, n)[p] < d,
         NEW U, U = Put(T, p, e)
  PROVE  Sorted(U, hm, n)
<1> DEFINE O == Used(T)
           F == Far(T, hm, n)
           G == Far(U, hm, n)
<1>1. n \in Nat /\ n >= 4 /\ O \subseteq 0 .. n - 1
  BY UsedSlots DEF Table
<1>2. /\ Used(U) = O \cup {p} /\ G[p] = d
      /\ \A q \in O : q # p => G[q] = F[q]
      /\ \A q \in Used(U) : G[q] \in 0 .. n - 1
  <2>1. /\ Table(U, hm, n) /\ Used(U) = Used(T) \cup {p}
        /\ Far(U, hm, n)[p] = Dist(p, hm[e[1]], n)
        /\ \A q \in Used(T) : q # p => Far(U, hm, n)[q] = Far(T, hm, n)[q]
    BY OneSlot
  <2> QED BY <2>1, UsedSlots
<1>3. \A q \in O : F[q] \in 0 .. n - 1 /\ InOrder(O, F, n, q)
  BY DEF Sorted, Reached
<1>4. d = 0 \/ (Prv(p, n) \in O /\ F[Prv(p, n)] >= d - 1)
  BY DEF Fitting
<1>5. d \in 0 .. n - 1
  BY <1>2
<1>6. p \in O => F[p] < d
  OBVIOUS
<1> HIDE DEF O, F, G
<1>7. ASSUME NEW q \in Used(U) PROVE InOrder(Used(U), G, n, q)
  <2>1. SUFFICES ASSUME G[q] > 0
                 PROVE  Prv(q, n) \in Used(U) /\ G[q] <= G[Prv(q, n)] + 1
    BY DEF InOrder
  <2>2. q \in 0 .. n - 1 /\ Prv(q, n) \in 0 .. n - 1 /\ Prv(q, n) # q
    BY <1>1, <1>2, Neighbours
  <2>3. CASE q = p
    <3>1. d > 0 /\ Prv(p, n) \in O /\ F[Prv(p, n)] >= d - 1
      BY <1>2, <1>4, <1>5, <2>1, <2>3
    <3>2. G[Prv(p, n)] = F[Prv(p, n)] /\ Prv(p, n) \in Used(U)
      BY <1>2, <2>2, <2>3, <3>1
    <3>3. F[Prv(p, n)] \in 0 .. n - 1
      BY <1>3, <3>1
    <3> QED BY <1>1, <1>2, <1>5, <2>3, <3>1, <3>2, <3>3
  <2>4. CASE q # p
    <3>1. q \in O /\ G[q] = F[q] /\ InOrder(O, F, n, q)
      BY <1>2, <1>3, <2>4
    <3>2. Prv(q, n) \in O /\ F[q] <= F[Prv(q, n)] + 1
      BY <2>1, <3>1 DEF InOrder
    <3>3. F[q] \in 0 .. n - 1 /\ F[Prv(q, n)] \in 0 .. n - 1
      BY <1>3, <3>1, <3>2
    <3>4. CASE Prv(q, n) = p
      <4>1. p \in O /\ F[p] < d /\ F[q] <= F[p] + 1 /\ F[p] \in Nat /\ F[q] \in Nat /\ d \in Nat
        BY <1>1, <1>5, <1>6, <3>2, <3>3, <3>4
      <4>2. G[q] = F[q] /\ G[p] = d /\ p \in Used(U)
        BY <1>2, <3>1
      <4>3. G[q] <= G[p] + 1
        BY <4>1, <4>2
      <4> QED BY <3>4, <4>2, <4>3
    <3>5. CASE Prv(q, n) # p
      <4>1. G[Prv(q, n)] = F[Prv(q, n)] /\ Prv(q, n) \in Used(U)
        BY <1>2, <3>2, <3>5
      <4> QED BY <3>1, <3>2, <4>1
    <3> QED BY <3>4, <3>5
  <2> QED BY <2>3, <2>4
<1>8. Used(U) \subseteq 0 .. n - 1
  BY <1>1, <1>2
<1> QED BY <1>2, <1>7, <1>8 DEF Sorted, Reached, G

LEMMA EmptySorted ==
  ASSUME NEW n, NEW hm, NEW T, n \in Nat, n >= 4, hm \in [Origins -> 0 .. n - 1],
         T = [p \in 0 .. n - 1 |-> Empty]
  PROVE  Table(T, hm, n) /\ Sorted(T, hm, n) /\ Used(T) = {}
<1>1. T \in [0 .. n - 1 -> Elements \cup {Empty}] /\ DOMAIN T = 0 .. n - 1
      /\ \A p \in 0 .. n - 1 : T[p] = Empty
  OBVIOUS
<1>2. Used(T) = {}
  BY <1>1 DEF Used
<1> QED BY <1>1, <1>2 DEF Table, Sorted, Reached

(* A table in which the element of slot p has just been removed, or moved:  *)
(* only the element behind it may be out of order, and then not against the *)
(* one in front of p.                                                       *)
Holed(T, hm, n, p) ==
  /\ p \notin Used(T)
  /\ \A q \in Used(T) \ {Nxt(p, n)} : InOrder(Used(T), Far(T, hm, n), n, q)
  /\ Nxt(p, n) \in Used(T) /\ Far(T, hm, n)[Nxt(p, n)] >= 2 =>
       Prv(p, n) \in Used(T) /\ Far(T, hm, n)[Nxt(p, n)] - 2 <= Far(T, hm, n)[Prv(p, n)]

Erase(T, p) == [T EXCEPT ![p] = Empty]

LEMMA Erased ==
  ASSUME NEW n, NEW hm, NEW T, Table(T, hm, n), NEW p \in 0 .. n - 1, NEW U, U = Erase(T, p)
  PROVE  /\ Table(U, hm, n) /\ Used(U) = Used(T) \ {p}
         /\ \A q \in 0 .. n - 1 : q # p => U[q] = T[q]
         /\ \A q \in Used(U) : U[q] = T[q] /\ Far(U, hm, n)[q] = Far(T, hm, n)[q]
<1>1. DOMAIN T = 0 .. n - 1 /\ n \in Nat
  BY DEF Table
<1>2. U \in [0 .. n - 1 -> Elements \cup {Empty}] /\ U[p] = Empty
      /\ \A q \in 0 .. n - 1 : q # p => U[q] = T[q]
  BY <1>1 DEF Table, Erase
<1>3. Used(U) = Used(T) \ {p}
  BY <1>1, <1>2 DEF Used
<1>4. Table(U, hm, n)
  BY <1>2 DEF Table
<1>5. ASSUME NEW q \in Used(U) PROVE U[q] = T[q] /\ Far(U, hm, n)[q] = Far(T, hm, n)[q]
  <2>1. q \in Used(T) /\ U[q] = T[q]
    BY <1>1, <1>2, <1>3, <1>5 DEF Used
  <2> QED BY <2>1 DEF Far
<1> QED BY <1>2, <1>3, <1>4, <1>5

LEMMA RemovedHoled ==
  ASSUME NEW n, NEW hm, NEW T, Table(T, hm, n), Sorted(T, hm, n), NEW p \in Used(T),
         NEW U, U = Erase(T, p)
  PROVE  Holed(U, hm, n, p)
<1> DEFINE O == Used(T)
           F == Far(T, hm, n)
           G == Far(U, hm, n)
           x == Nxt(p, n)
           w == Prv(p, n)
<1>1. n \in Nat /\ n >= 4 /\ O \subseteq 0 .. n - 1 /\ p \in 0 .. n - 1
  BY UsedSlots DEF Table
<1>2. Used(U) = O \ {p} /\ \A q \in Used(U) : G[q] = F[q]
  <2>1. Used(U) = Used(T) \ {p} /\ \A q \in Used(U) : Far(U, hm, n)[q] = Far(T, hm, n)[q]
    BY <1>1, Erased
  <2> QED BY <2>1
<1>3. \A q \in O : F[q] \in 0 .. n - 1 /\ InOrder(O, F, n, q)
  BY DEF Sorted, Reached
<1>4. p \in O
  OBVIOUS
<1> HIDE DEF O, F, G
<1>5. ASSUME NEW q \in Used(U) \ {x} PROVE InOrder(Used(U), G, n, q)
  <2>1. q \in O /\ G[q] = F[q] /\ InOrder(O, F, n, q) /\ q \in 0 .. n - 1
    BY <1>1, <1>2, <1>3
  <2>2. Prv(q, n) # p
    BY <1>1, <2>1, Neighbours
  <2>3. Prv(q, n) \in O => Prv(q, n) \in Used(U) /\ G[Prv(q, n)] = F[Prv(q, n)]
    BY <1>2, <2>2
  <2> QED BY <2>1, <2>3 DEF InOrder
<1>6. /\ x \in 0 .. n - 1 /\ w \in 0 .. n - 1 /\ Prv(x, n) = p /\ w # p /\ x # p
  BY <1>1, Neighbours
<1> HIDE DEF x, w
<1>7. ASSUME x \in Used(U), G[x] >= 2
      PROVE  w \in Used(U) /\ G[x] - 2 <= G[w]
  <2>1. x \in O /\ G[x] = F[x] /\ InOrder(O, F, n, x) /\ F[x] \in Nat /\ F[p] \in Nat
    BY <1>1, <1>2, <1>3, <1>4, <1>7
  <2>2. F[x] <= F[p] + 1
    BY <1>6, <1>7, <2>1 DEF InOrder
  <2>3. F[p] >= 1 /\ InOrder(O, F, n, p)
    BY <1>3, <1>4, <1>7, <2>1, <2>2
  <2>4. w \in O /\ F[p] <= F[w] + 1
    BY <2>1, <2>3 DEF InOrder, w
  <2>5. w \in Used(U) /\ G[w] = F[w] /\ F[w] \in Nat
    BY <1>1, <1>2, <1>3, <1>6, <2>4
  <2> QED BY <2>1, <2>2, <2>4, <2>5
<1>8. p \notin Used(U)
  BY <1>2
<1> QED BY <1>5, <1>7, <1>8 DEF Holed, G, x, w

(* The chain ends behind the hole: the table is in order again. *)
LEMMA HoleCloses ==
  ASSUME NEW n, NEW hm, NEW T, Table(T, hm, n), NEW p \in 0 .. n - 1, Holed(T, hm, n, p),
         Nxt(p, n) \in Used(T) => Far(T, hm, n)[Nxt(p, n)] = 0
  PROVE  Sorted(T, hm, n)
<1>1. Used(T) \subseteq 0 .. n - 1 /\ \A q \in Used(T) : Far(T, hm, n)[q] \in 0 .. n - 1
  BY UsedSlots
<1>2. ASSUME NEW q \in Used(T) PROVE InOrder(Used(T), Far(T, hm, n), n, q)
  <2>1. CASE q = Nxt(p, n)
    BY <2>1 DEF InOrder
  <2>2. CASE q # Nxt(p, n)
    BY <2>2 DEF Holed
  <2> QED BY <2>1, <2>2
<1> QED BY <1>1, <1>2 DEF Sorted, Reached

Shift(T, p, q) == [T EXCEPT ![p] = T[q], ![q] = Empty]

(* The element behind the hole moves into it. *)
LEMMA HoleMoves ==
  ASSUME NEW n, NEW hm, NEW T, Table(T, hm, n), NEW p \in 0 .. n - 1, Holed(T, hm, n, p),
         NEW x, x = Nxt(p, n), x \in Used(T), Far(T, hm, n)[x] # 0,
         NEW U, U = Shift(T, p, x)
  PROVE  /\ Table(U, hm, n) /\ Holed(U, hm, n, x)
         /\ Used(U) = (Used(T) \ {x}) \cup {p} /\ U[p] = T[x]
         /\ \A q \in Used(T) \ {x} : U[q] = T[q]
<1> DEFINE O == Used(T)
           F == Far(T, hm, n)
           G == Far(U, hm, n)
           w == Prv(p, n)
           y == Nxt(x, n)
<1>1. /\ n \in Nat /\ n >= 4 /\ O \subseteq 0 .. n - 1 /\ DOMAIN T = 0 .. n - 1
      /\ T[x] \in Elements /\ T[x][1] \in Origins
      /\ F[x] = Dist(x, hm[T[x][1]], n) /\ hm[T[x][1]] \in 0 .. n - 1
      /\ \A q \in O : F[q] \in 0 .. n - 1
  BY UsedSlots DEF Table
<1>2. /\ x \in 0 .. n - 1 /\ w \in 0 .. n - 1 /\ y \in 0 .. n - 1
      /\ Prv(x, n) = p /\ x # p /\ w # p /\ x # w /\ y # p /\ y # x /\ Prv(y, n) = x
      /\ \A q \in 0 .. n - 1 : (Prv(q, n) = p => q = x) /\ (Prv(q, n) = x => q = y)
  BY <1>1, Neighbours
<1>3. /\ U \in [0 .. n - 1 -> Elements \cup {Empty}] /\ U[p] = T[x] /\ U[x] = Empty
      /\ \A q \in 0 .. n - 1 : q # p /\ q # x => U[q] = T[q]
  BY <1>1, <1>2 DEF Table, Shift
<1>4. p \notin O
  BY DEF Holed
<1>5. Used(U) = (O \ {x}) \cup {p}
  <2>1. T[x] # Empty
    BY <1>1, NotEmpty
  <2> QED BY <1>1, <1>2, <1>3, <2>1 DEF Used
<1>6. ASSUME NEW q \in O \ {x} PROVE U[q] = T[q] /\ G[q] = F[q]
  <2>1. q \in Used(U) /\ U[q] = T[q]
    BY <1>1, <1>3, <1>4, <1>5
  <2> QED BY <2>1 DEF Far
<1>7. G[p] = F[x] - 1 /\ F[x] \in 1 .. n - 1
  <2>1. G[p] = Dist(p, hm[T[x][1]], n)
    BY <1>3, <1>5 DEF Far
  <2>2. F[x] \in 0 .. n - 1 /\ F[x] # 0
    BY <1>1
  <2>3. F[x] \in 1 .. n - 1
    BY <1>1, <2>2
  <2> HIDE DEF F, G
  <2>4. Dist(x, hm[T[x][1]], n) > 0
    BY <1>1, <2>3
  <2>5. Dist(Prv(x, n), hm[T[x][1]], n) = Dist(x, hm[T[x][1]], n) - 1
    <3>1. \A h \in 0 .. n - 1 : Dist(x, h, n) > 0 => Dist(Prv(x, n), h, n) = Dist(x, h, n) - 1
      BY <1>1, <1>2, Distances
    <3> QED BY <1>1, <2>4, <3>1
  <2> QED BY <1>1, <1>2, <2>1, <2>3, <2>5
<1>8. \A q \in O \ {x} : InOrder(O, F, n, q)
  BY DEF Holed
<1>9. F[x] >= 2 => w \in O /\ F[x] - 2 <= F[w]
  BY DEF Holed
<1>10. Table(U, hm, n)
  BY <1>3 DEF Table
<1> HIDE DEF O, F, G, w, y
<1>11. ASSUME NEW q \in Used(U) \ {y} PROVE InOrder(Used(U), G, n, q)
  <2>1. SUFFICES ASSUME G[q] > 0
                 PROVE  Prv(q, n) \in Used(U) /\ G[q] <= G[Prv(q, n)] + 1
    BY DEF InOrder
  <2>2. CASE q = p
    <3>1. F[x] >= 2
      BY <1>1, <1>7, <2>1, <2>2
    <3>2. w \in O \ {x} /\ F[x] - 2 <= F[w]
      BY <1>2, <1>9, <3>1
    <3>3. w \in Used(U) /\ G[w] = F[w] /\ F[w] \in 0 .. n - 1
      BY <1>1, <1>5, <1>6, <3>2
    <3>4. G[p] <= G[w] + 1
      BY <1>1, <1>7, <3>2, <3>3
    <3> QED BY <2>2, <3>3, <3>4 DEF w
  <2>3. CASE q # p
    <3>1. q \in O \ {x} /\ q \in 0 .. n - 1
      BY <1>1, <1>5, <2>3
    <3>2. G[q] = F[q] /\ InOrder(O, F, n, q)
      BY <1>6, <1>8, <3>1
    <3>3. Prv(q, n) \in O /\ F[q] <= F[Prv(q, n)] + 1
      BY <2>1, <3>2 DEF InOrder
    <3>4. Prv(q, n) # x
      BY <1>2, <3>1
    <3>5. Prv(q, n) \in Used(U) /\ G[Prv(q, n)] = F[Prv(q, n)]
      BY <1>5, <1>6, <3>3, <3>4
    <3> QED BY <3>2, <3>3, <3>5
  <2> QED BY <2>2, <2>3
<1>12. ASSUME y \in Used(U), G[y] >= 2
       PROVE  p \in Used(U) /\ G[y] - 2 <= G[p]
  <2>1. y \in O \ {x} /\ G[y] = F[y] /\ InOrder(O, F, n, y) /\ F[y] \in 0 .. n - 1
    BY <1>1, <1>2, <1>5, <1>6, <1>8, <1>12
  <2>2. F[y] <= F[x] + 1
    BY <1>1, <1>2, <1>12, <2>1 DEF InOrder
  <2>3. G[y] - 2 <= G[p]
    BY <1>1, <1>7, <2>1, <2>2
  <2> QED BY <1>5, <2>3
<1>13. x \notin Used(U)
  BY <1>2, <1>5
<1>14. Holed(U, hm, n, x)
  BY <1>2, <1>11, <1>12, <1>13 DEF Holed, G, y
<1> QED BY <1>3, <1>5, <1>6, <1>10, <1>14 DEF O

-------------------------------------------------------------------------------
(***************************************************************************)
(* The keys and the number of the elements.                                *)
(***************************************************************************)
Once(T) == \A p \in Used(T), q \in Used(T) : T[p][1] = T[q][1] => p = q

(* A table with every key once has no more elements than there are keys.    *)
LEMMA AsManyAsKeys ==
  ASSUME NEW n, NEW hm, NEW T, Table(T, hm, n), Once(T)
  PROVE  Cardinality(Used(T)) <= Cardinality(Origins)
<1> DEFINE f == [p \in Used(T) |-> T[p][1]]
<1>1. IsFiniteSet(Used(T)) /\ IsFiniteSet(Origins)
  BY UsedSlots, OriginAssumption
<1>2. f \in [Used(T) -> Origins]
  BY UsedSlots
<1>3. Cardinality(Used(T)) \in Nat /\ Cardinality(Origins) \in Nat
  BY <1>1, FS_CardinalityType
<1>4. \A p, q \in Used(T) : f[p] = f[q] => p = q
  BY DEF Once
<1> HIDE DEF f
<1>5. ~(Cardinality(Origins) < Cardinality(Used(T)))
  BY <1>1, <1>2, <1>4, FS_PigeonHole
<1> QED BY <1>3, <1>5

LEMMA CountPut ==
  ASSUME NEW n, NEW hm, NEW T, Table(T, hm, n), NEW p \in 0 .. n - 1, NEW e \in Elements,
         NEW U, U = Put(T, p, e)
  PROVE  Cardinality(Used(U)) =
           IF p \in Used(T) THEN Cardinality(Used(T)) ELSE Cardinality(Used(T)) + 1
<1>1. Used(U) = Used(T) \cup {p} /\ IsFiniteSet(Used(T))
  BY OneSlot, UsedSlots
<1> QED BY <1>1, FS_AddElement

LEMMA CountErase ==
  ASSUME NEW n, NEW hm, NEW T, Table(T, hm, n), NEW p \in Used(T), NEW U, U = Erase(T, p)
  PROVE  Cardinality(Used(U)) = Cardinality(Used(T)) - 1
<1>1. Used(U) = Used(T) \ {p} /\ IsFiniteSet(Used(T))
  BY Erased, UsedSlots
<1> QED BY <1>1, FS_RemoveElement

LEMMA CountMove ==
  ASSUME NEW S, IsFiniteSet(S), NEW x \in S, NEW p, p \notin S
  PROVE  Cardinality((S \ {x}) \cup {p}) = Cardinality(S)
<1>1. IsFiniteSet(S \ {x}) /\ Cardinality(S \ {x}) = Cardinality(S) - 1
  BY FS_RemoveElement
<1>2. Cardinality((S \ {x}) \cup {p}) = Cardinality(S \ {x}) + 1
  BY <1>1, FS_AddElement
<1>3. Cardinality(S) \in Nat
  BY FS_CardinalityType
<1> QED BY <1>1, <1>2, <1>3

(* A table that is not too full leaves two slots empty, and the largest one *)
(* never is.                                                                *)
LEMMA TwoLeft ==
  ASSUME NEW s \in 0 .. FirstShift, NEW c \in 0 .. NSlots(s) - 1,
         (c * 1024) \div NSlots(s) <= MaxLoad
  PROVE  c <= NSlots(s) - 2
<1> DEFINE n == NSlots(FirstShift)
           m == NSlots(s)
<1>1. n \in Nat \ {0} /\ m \in Nat /\ n <= m
  BY TableSizes
<1>2. ((n - 1) * 1024) \div n > MaxLoad /\ MaxLoad \in Nat
  BY LoadAssumption, SizeAssumption
<1>3. c # m - 1
  <2>1. SUFFICES ASSUME ((m - 1) * 1024) \div m <= MaxLoad PROVE FALSE
    OBVIOUS
  <2> HIDE DEF n, m
  <2> DEFINE q == ((n - 1) * 1024) \div n
  <2>2. \A a \in Nat, b \in Nat \ {0} : a \div b \in Nat /\ b * (a \div b) <= a
                                         /\ a < b * (a \div b) + b
    OBVIOUS
  <2>3. q \in Nat /\ n * q <= (n - 1) * 1024 /\ q >= MaxLoad + 1
    BY <1>1, <1>2, <2>2
  <2> HIDE DEF q
  <2>4. n * q = q * n /\ n * (1024 - q) >= 1024
    BY <1>1, <2>3
  <2>5. 1024 - q > 0
    BY <1>1, <2>3, <2>4
  <2>6. m * (1024 - q) >= n * (1024 - q)
    BY <1>1, <2>3, <2>5
  <2>7. m * q <= (m - 1) * 1024
    BY <1>1, <2>3, <2>4, <2>6
  <2> DEFINE r == ((m - 1) * 1024) \div m
  <2>8. r \in Nat /\ (m - 1) * 1024 < m * r + m /\ r <= MaxLoad
    BY <1>1, <2>1, <2>2
  <2> HIDE DEF r
  <2>9. m * q < m * (r + 1) /\ r + 1 <= q
    BY <1>1, <1>2, <2>3, <2>7, <2>8
  <2> QED BY <1>1, <2>3, <2>8, <2>9
<1> QED BY <1>1, <1>3

LEMMA LargestNotTooFull ==
  ASSUME NEW c \in Nat, c <= Cardinality(Origins)
  PROVE  (c * 1024) \div NSlots(0) <= MaxLoad
<1>1. NSlots(0) \in Nat \ {0}
  <2>1. 0 \in 0 .. FirstShift
    BY SizeAssumption
  <2> QED BY <2>1, TableSizes
<1>2. Cardinality(Origins) \in Nat
  BY OriginAssumption, FS_CardinalityType
<1>3. \A a \in Nat, b \in Nat, m \in Nat \ {0} : a <= b => a \div m <= b \div m
  OBVIOUS
<1>4. c * 1024 <= Cardinality(Origins) * 1024
  BY <1>2
<1>5. (c * 1024) \div NSlots(0) <= (Cardinality(Origins) * 1024) \div NSlots(0)
  BY <1>1, <1>2, <1>3, <1>4
<1>6. \A a \in Nat : a \div NSlots(0) \in Nat
  BY <1>1
<1>7. (c * 1024) \div NSlots(0) \in Nat /\ (Cardinality(Origins) * 1024) \div NSlots(0) \in Nat
  BY <1>2, <1>6
<1> QED BY <1>5, <1>7, OriginAssumption, SizeAssumption

-------------------------------------------------------------------------------
(***************************************************************************)
(* The inductive invariant.                                                *)
(***************************************************************************)
N     == NSlots(shift)
Homes == [k \in Origins |-> Home(k, shift)]

(* What is left of the old slots o, from the m-th on. *)
Rest(o, m) == {i \in DOMAIN o : i >= m /\ o[i] # Empty}

(* The element in hand is one of the map; the origin of the call is being   *)
(* searched for.                                                            *)
Holding(c, a)   == c = "reinsert" \/ (c = "insert" /\ a = Okay)
Searching(c, a) == c = "lookup" \/ (c = "insert" /\ a = NoAnswer)

Types ==
  /\ hash \in Hashes /\ shift \in 0 .. FirstShift
  /\ slots \in [0 .. N - 1 -> Elements \cup {Empty}]
  /\ pos \in 0 .. N - 1 /\ elemdistance \in 0 .. N - 1
  /\ hand \in Elements \cup {Empty}
  /\ call \in Calls \cup {NoCall}
  /\ answer \in Images \cup {NoAnswer, Okay, KeyExists, Absent}
  /\ pc \in {"idle", "load", "rebuild", "reinsert", "insert", "lookup", "move", "clear", "return"}
  /\ next \in Nat /\ IsFiniteSet(DOMAIN old) /\ DOMAIN old \subseteq Nat
  /\ \A i \in DOMAIN old : old[i] \in Elements \cup {Empty}

(* What the call is, and what is known of its result, at every place. *)
Control ==
  /\ pc = "idle" <=> call = NoCall
  /\ pc \in {"load", "rebuild", "reinsert", "insert"} => call.op \in {"Insert", "SetImage"}
  /\ pc = "lookup" => call.op \in {"GetImage", "Remove"}
  /\ pc = "clear" => call.op = "RemoveAll"
  /\ pc \in {"idle", "load", "rebuild", "reinsert", "lookup", "clear"} => answer = NoAnswer
  /\ pc = "insert" => answer \in {NoAnswer, Okay}
  /\ pc = "move" => answer = Okay
  /\ pc = "return" => answer # NoAnswer
  /\ pc \in {"insert", "reinsert"} => hand \in Elements
  /\ pc = "insert" /\ answer = NoAnswer => hand = <<call.origin, call.image>>
  /\ pc \notin {"rebuild", "reinsert"} => old = << >>

(* No key is there twice, in whatever place the elements are. *)
Keys ==
  /\ Once(slots)
  /\ \A i, j \in Rest(old, next) : old[i][1] = old[j][1] => i = j
  /\ \A i \in Rest(old, next), p \in Used(slots) : old[i][1] # slots[p][1]
  /\ Holding(pc, answer) => /\ \A p \in Used(slots) : slots[p][1] # hand[1]
                            /\ \A i \in Rest(old, next) : old[i][1] # hand[1]

Order ==
  IF pc = "move" THEN Holed(slots, Homes, N, pos) ELSE Sorted(slots, Homes, N)

(* The distance is that of the position from the home of what is looked     *)
(* for, which has not been passed, and a place is looked for behind         *)
(* elements that are at least as far.                                       *)
Probing ==
  /\ pc \in {"insert", "reinsert"} =>
       /\ elemdistance = Dist(pos, Homes[hand[1]], N)
       /\ Fitting(slots, Homes, N, pos, elemdistance)
  /\ Searching(pc, answer) =>
       /\ elemdistance = Dist(pos, Homes[call.origin], N)
       /\ \A q \in Used(slots) :
            slots[q][1] = call.origin => Far(slots, Homes, N)[q] >= elemdistance

(* The elements that are still to be placed have their slots. *)
Counts ==
  /\ nelements = Cardinality(Used(slots)) /\ nelements <= N - 1
  /\ pc = "insert" => nelements <= N - 2
  /\ pc = "rebuild" => nelements + Cardinality(Rest(old, next)) <= N - 2
  /\ pc = "reinsert" => nelements + Cardinality(Rest(old, next)) <= N - 3

IInv == Types /\ Control /\ Keys /\ Order /\ Probing /\ Counts

LEMMA HomesInTable ==
  ASSUME hash \in Hashes, shift \in 0 .. FirstShift
  PROVE  /\ N \in Nat /\ N >= 4 /\ Homes \in [Origins -> 0 .. N - 1]
         /\ \A k \in Origins : Homes[k] = Home(k, shift)
<1>1. N \in Nat /\ N >= 4
  BY TableSizes DEF N
<1>2. \A k \in Origins : Home(k, shift) \in 0 .. N - 1
  BY HomeInTable DEF N
<1> QED BY <1>1, <1>2 DEF Homes

(* The words of the model in those of the lemmas. *)
LEMMA TableFacts ==
  ASSUME IInv
  PROVE  /\ Table(slots, Homes, N) /\ N \in Nat /\ N >= 4
         /\ Occupied = Used(slots) /\ Left = Rest(old, next) /\ DOMAIN slots = 0 .. N - 1
         /\ \A p \in Used(slots) : /\ p \in 0 .. N - 1 /\ slots[p] \in Elements
                                   /\ slots[p][1] \in Origins
                                   /\ ElemDistance(p) = Far(slots, Homes, N)[p]
         /\ \A p \in 0 .. N - 1 : p \in Used(slots) <=> slots[p] # Empty
         /\ \A p \in 0 .. N - 1 : NextPos(p) = Nxt(p, N) /\ Nxt(p, N) \in 0 .. N - 1
         /\ \A k \in Origins : Homes[k] \in 0 .. N - 1 /\ Homes[k] = Home(k, shift)
         /\ IsFiniteSet(Used(slots)) /\ nelements \in Nat
<1>1. /\ hash \in Hashes /\ shift \in 0 .. FirstShift
      /\ slots \in [0 .. N - 1 -> Elements \cup {Empty}]
  BY DEF IInv, Types
<1>2. /\ N \in Nat /\ N >= 4 /\ Homes \in [Origins -> 0 .. N - 1]
      /\ \A k \in Origins : Homes[k] = Home(k, shift)
  BY <1>1, HomesInTable
<1>3. Table(slots, Homes, N)
  BY <1>1, <1>2 DEF Table
<1>4. Occupied = Used(slots) /\ Left = Rest(old, next)
  BY DEF Occupied, Used, Left, Rest
<1>5. ASSUME NEW p \in Used(slots)
      PROVE  /\ p \in 0 .. N - 1 /\ slots[p] \in Elements /\ slots[p][1] \in Origins
             /\ ElemDistance(p) = Far(slots, Homes, N)[p]
  <2>1. /\ p \in 0 .. N - 1 /\ slots[p] \in Elements /\ slots[p][1] \in Origins
        /\ Far(slots, Homes, N)[p] = Dist(p, Homes[slots[p][1]], N)
    BY <1>3, UsedSlots
  <2>2. Homes[slots[p][1]] = Home(slots[p][1], shift)
    BY <1>2, <2>1
  <2> QED BY <2>1, <2>2 DEF ElemDistance, Dist, N
<1>6. ASSUME NEW p \in 0 .. N - 1 PROVE NextPos(p) = Nxt(p, N) /\ Nxt(p, N) \in 0 .. N - 1
  <2>1. NextPos(p) = Nxt(p, N)
    BY DEF NextPos, Nxt, N
  <2> QED BY <1>2, <2>1, Neighbours
<1>7. IsFiniteSet(Used(slots)) /\ DOMAIN slots = 0 .. N - 1
      /\ \A p \in 0 .. N - 1 : p \in Used(slots) <=> slots[p] # Empty
  BY <1>3, UsedSlots
<1>8. nelements \in Nat
  BY <1>7, FS_CardinalityType DEF IInv, Counts
<1> QED BY <1>2, <1>3, <1>4, <1>5, <1>6, <1>7, <1>8

LEMMA SameTable ==
  ASSUME hash' = hash, shift' = shift
  PROVE  N' = N /\ Homes' = Homes
BY DEF N, Homes, Home

(* What the calls have to say. *)
LEMMA CallParts ==
  ASSUME NEW c \in Calls
  PROVE  /\ c.op \in {"Insert", "SetImage", "GetImage", "Remove", "RemoveAll"}
         /\ c.op # "RemoveAll" => c.origin \in Origins
         /\ c.op \in {"Insert", "SetImage"} =>
              c.image \in Images /\ <<c.origin, c.image>> \in Elements
BY DEF Calls, Elements

LEMMA CallOf ==
  ASSUME IInv, pc # "idle"
  PROVE  /\ call \in Calls
         /\ pc \in {"load", "rebuild", "reinsert", "insert", "lookup"} => call.origin \in Origins
         /\ pc \in {"load", "rebuild", "reinsert", "insert"} =>
              <<call.origin, call.image>> \in Elements
<1>1. call \in Calls
  BY DEF IInv, Types, Control
<1> QED BY <1>1, CallParts DEF IInv, Control

LEMMA Different ==
  Okay # NoAnswer /\ KeyExists # NoAnswer /\ Absent # NoAnswer /\ NoAnswer \notin Images
BY AnswerAssumption

-------------------------------------------------------------------------------
(***************************************************************************)
(* It holds initially, and the steps at the beginning and at the end of a  *)
(* call keep it.                                                           *)
(***************************************************************************)
LEMMA Initially ==
  ASSUME Init PROVE IInv
<1>1. shift \in 0 .. FirstShift /\ hash \in Hashes
  BY SizeAssumption DEF Init
<1>2. N \in Nat /\ N >= 4 /\ Homes \in [Origins -> 0 .. N - 1]
  BY <1>1, HomesInTable
<1>3. slots = [p \in 0 .. N - 1 |-> Empty]
  BY DEF Init, EmptyTable, N
<1>4. Table(slots, Homes, N) /\ Sorted(slots, Homes, N) /\ Used(slots) = {}
  BY <1>2, <1>3, EmptySorted
<1>5. old = << >> /\ DOMAIN old = {}
  BY DEF Init
<1>6. Types
  BY <1>1, <1>2, <1>4, <1>5, FS_EmptySet DEF Types, Init, Table
<1>7. Control
  BY AnswerAssumption DEF Control, Init
<1>8. Keys
  BY <1>4, <1>5 DEF Keys, Init, Once, Rest, Holding
<1>9. Order
  BY <1>4 DEF Order, Init
<1>10. Probing
  BY DEF Probing, Init, Searching
<1>11. Counts
  BY <1>2, <1>4, FS_EmptySet DEF Counts, Init
<1> QED BY <1>6, <1>7, <1>8, <1>9, <1>10, <1>11 DEF IInv

(* A search begins at the home of what is looked for. *)
LEMMA AtHome ==
  ASSUME IInv, NEW k \in Origins
  PROVE  /\ Homes[k] \in 0 .. N - 1 /\ Home(k, shift) = Homes[k]
         /\ Dist(Homes[k], Homes[k], N) = 0
         /\ \A p : Fitting(slots, Homes, N, p, 0)
         /\ \A q \in Used(slots) : Far(slots, Homes, N)[q] >= 0
<1>1. Table(slots, Homes, N) /\ N \in Nat /\ N >= 4
      /\ Homes[k] \in 0 .. N - 1 /\ Homes[k] = Home(k, shift)
  BY TableFacts
<1>2. Dist(Homes[k], Homes[k], N) = 0
  BY <1>1, Distances
<1>3. \A q \in Used(slots) : Far(slots, Homes, N)[q] \in 0 .. N - 1
  BY <1>1, UsedSlots
<1> QED BY <1>1, <1>2, <1>3 DEF Fitting

LEMMA CallKeeps ==
  ASSUME IInv, Call PROVE IInv'
<1>1. /\ pc = "idle" /\ call' \in Calls
      /\ pc' = CASE call'.op \in {"Insert", "SetImage"} -> "load"
                 [] call'.op \in {"GetImage", "Remove"} -> "lookup"
                 [] OTHER -> "clear"
      /\ hash' = hash /\ shift' = shift /\ slots' = slots /\ nelements' = nelements
      /\ old' = old /\ next' = next /\ answer' = answer /\ hand' = hand
  BY DEF Call
<1>2. N' = N /\ Homes' = Homes
  BY <1>1, SameTable
<1>3. call'.op \in {"Insert", "SetImage", "GetImage", "Remove", "RemoveAll"}
      /\ (call'.op # "RemoveAll" => call'.origin \in Origins)
  BY <1>1, CallParts
<1>4. /\ pc' = "load" => call'.op \in {"Insert", "SetImage"}
      /\ pc' = "lookup" => call'.op \in {"GetImage", "Remove"}
      /\ pc' = "clear" => call'.op = "RemoveAll"
      /\ pc' \in {"load", "lookup", "clear"}
  BY <1>1, <1>3
<1>5. pc' = "lookup" => /\ call'.origin \in Origins /\ pos' = Homes[call'.origin]
                        /\ elemdistance' = 0 /\ pos' \in 0 .. N - 1
                        /\ Dist(pos', Homes[call'.origin], N) = 0
                        /\ \A q \in Used(slots) : Far(slots, Homes, N)[q] >= 0
  BY <1>3, <1>4, AtHome DEF Call, ProbeFrom
<1>6. pc' # "lookup" => pos' = pos /\ elemdistance' = elemdistance
  BY DEF Call
<1>7. Types'
  <2>1. N \in Nat /\ N >= 4
    BY TableFacts
  <2> QED BY <1>1, <1>2, <1>4, <1>5, <1>6, <2>1 DEF Types, IInv
<1>8. Control'
  <2>1. call' # NoCall
    BY <1>1, AnswerAssumption
  <2> QED BY <1>1, <1>4, <2>1 DEF Control, IInv
<1>9. Keys'
  BY <1>1, <1>4 DEF Keys, IInv, Holding
<1>10. Order'
  BY <1>1, <1>2, <1>4 DEF Order, IInv
<1>11. Probing'
  <2>1. ~(pc' \in {"insert", "reinsert"}) /\ (Searching(pc', answer') => pc' = "lookup")
    BY <1>4 DEF Searching
  <2> QED BY <1>1, <1>2, <1>5, <2>1 DEF Probing
<1>12. Counts'
  BY <1>1, <1>2, <1>4 DEF Counts, IInv
<1> QED BY <1>7, <1>8, <1>9, <1>10, <1>11, <1>12 DEF IInv

LEMMA ReturnKeeps ==
  ASSUME IInv, Return PROVE IInv'
<1>1. /\ pc = "return" /\ pc' = "idle" /\ call' = NoCall /\ answer' = NoAnswer
      /\ hand' = Empty /\ pos' = 0 /\ elemdistance' = 0
      /\ hash' = hash /\ shift' = shift /\ slots' = slots /\ nelements' = nelements
      /\ old' = old /\ next' = next
  BY DEF Return
<1>2. N' = N /\ Homes' = Homes
  BY <1>1, SameTable
<1>3. Types'
  <2>1. N \in Nat /\ N >= 4
    BY TableFacts
  <2> QED BY <1>1, <1>2, <2>1 DEF Types, IInv
<1>4. Control'
  BY <1>1 DEF Control, IInv
<1>5. Keys'
  BY <1>1 DEF Keys, IInv, Holding
<1>6. Order'
  BY <1>1, <1>2 DEF Order, IInv
<1>7. Probing'
  BY <1>1 DEF Probing, Searching
<1>8. Counts'
  BY <1>1, <1>2 DEF Counts, IInv
<1> QED BY <1>3, <1>4, <1>5, <1>6, <1>7, <1>8 DEF IInv

LEMMA RemoveAllKeeps ==
  ASSUME IInv, RemoveAll PROVE IInv'
<1>1. /\ pc = "clear" /\ slots' = EmptyTable(shift) /\ nelements' = 0
      /\ answer' = Okay /\ pc' = "return"
      /\ hash' = hash /\ shift' = shift /\ old' = old /\ next' = next
      /\ call' = call /\ hand' = hand /\ pos' = pos /\ elemdistance' = elemdistance
  BY DEF RemoveAll, Settle
<1>2. N' = N /\ Homes' = Homes
  BY <1>1, SameTable
<1>3. N \in Nat /\ N >= 4 /\ Homes \in [Origins -> 0 .. N - 1]
  BY HomesInTable DEF IInv, Types
<1>4. slots' = [p \in 0 .. N - 1 |-> Empty]
  BY <1>1 DEF EmptyTable, N
<1>5. Table(slots', Homes, N) /\ Sorted(slots', Homes, N) /\ Used(slots') = {}
  BY <1>3, <1>4, EmptySorted
<1>6. old = << >> /\ DOMAIN old = {}
  BY <1>1 DEF IInv, Control
<1>7. Types'
  BY <1>1, <1>2, <1>5 DEF Types, IInv, Table
<1>8. Control'
  BY <1>1, Different DEF Control, IInv
<1>9. Keys'
  BY <1>1, <1>5, <1>6 DEF Keys, Once, Rest, Holding
<1>10. Order'
  BY <1>1, <1>2, <1>5 DEF Order
<1>11. Probing'
  BY <1>1 DEF Probing, Searching
<1>12. Counts'
  BY <1>1, <1>2, <1>3, <1>5, FS_EmptySet DEF Counts
<1> QED BY <1>7, <1>8, <1>9, <1>10, <1>11, <1>12 DEF IInv

-------------------------------------------------------------------------------
(***************************************************************************)
(* So do the steps of hashmapCheckLoad.                                    *)
(***************************************************************************)
LEMMA LoadIsFineKeeps ==
  ASSUME IInv, LoadIsFine PROVE IInv'
<1> DEFINE e == <<call.origin, call.image>>
<1>1. /\ pc = "load" /\ ~TooFull /\ hand' = e /\ pos' = Home(e[1], shift)
      /\ elemdistance' = 0 /\ pc' = "insert"
      /\ hash' = hash /\ shift' = shift /\ slots' = slots /\ nelements' = nelements
      /\ old' = old /\ next' = next /\ call' = call /\ answer' = answer
  BY DEF LoadIsFine, TakeInHand, ProbeFrom
<1>2. N' = N /\ Homes' = Homes
  BY <1>1, SameTable
<1>3. /\ call \in Calls /\ call.origin \in Origins /\ e \in Elements /\ e[1] = call.origin
      /\ call.op \in {"Insert", "SetImage"} /\ answer = NoAnswer /\ old = << >>
  BY <1>1, CallOf DEF IInv, Control
<1>4. /\ pos' = Homes[call.origin] /\ pos' \in 0 .. N - 1
      /\ Dist(pos', Homes[call.origin], N) = 0
      /\ Fitting(slots, Homes, N, pos', 0)
      /\ \A q \in Used(slots) : Far(slots, Homes, N)[q] >= 0
  BY <1>1, <1>3, AtHome
<1>5. N \in Nat /\ N >= 4 /\ nelements \in Nat
  BY TableFacts
<1>6. nelements <= N - 2
  <2>1. nelements \in 0 .. NSlots(shift) - 1 /\ shift \in 0 .. FirstShift
    BY <1>5 DEF IInv, Counts, Types, N
  <2>2. NSlots(shift) \in Nat /\ NSlots(shift) >= 4
    BY <1>5 DEF N
  <2>3. (nelements * 1024) \div NSlots(shift) <= MaxLoad
    <3>1. (nelements * 1024) \div NSlots(shift) \in Nat /\ MaxLoad \in Nat
      <4>1. \A a \in Nat, m \in Nat \ {0} : a \div m \in Nat
        OBVIOUS
      <4>2. nelements * 1024 \in Nat /\ NSlots(shift) \in Nat \ {0}
        BY <1>5, <2>2
      <4> QED BY <4>1, <4>2, SizeAssumption
    <3> QED BY <1>1, <3>1 DEF TooFull
  <2> QED BY <2>1, <2>3, TwoLeft DEF N
<1> HIDE DEF e
<1>7. Types'
  BY <1>1, <1>2, <1>3, <1>4, <1>5 DEF Types, IInv
<1>8. Control'
  BY <1>1, <1>3 DEF Control, IInv, e
<1>9. Keys'
  BY <1>1, <1>3, Different DEF Keys, IInv, Holding
<1>10. Order'
  BY <1>1, <1>2 DEF Order, IInv
<1>11. Probing'
  BY <1>1, <1>2, <1>3, <1>4 DEF Probing
<1>12. Counts'
  BY <1>1, <1>2, <1>6 DEF Counts, IInv
<1> QED BY <1>7, <1>8, <1>9, <1>10, <1>11, <1>12 DEF IInv

LEMMA RebuildKeeps ==
  ASSUME IInv, Rebuild PROVE IInv'
<1>1. /\ pc = "load" /\ TooFull /\ shift' = shift - 1 /\ slots' = EmptyTable(shift - 1)
      /\ nelements' = 0 /\ old' = slots /\ next' = 0 /\ pc' = "rebuild"
      /\ hash' = hash /\ call' = call /\ answer' = answer /\ hand' = hand /\ pos' = pos
      /\ elemdistance' = elemdistance
  BY DEF Rebuild
<1>2. /\ Table(slots, Homes, N) /\ N \in Nat /\ N >= 4 /\ nelements \in Nat
      /\ DOMAIN slots = 0 .. N - 1 /\ IsFiniteSet(Used(slots))
      /\ hash \in Hashes /\ shift \in 0 .. FirstShift
  BY TableFacts DEF IInv, Types
<1>3. nelements = Cardinality(Used(slots)) /\ nelements <= N - 1 /\ Once(slots)
  BY DEF IInv, Counts, Keys
<1>4. shift # 0
  <2>1. nelements <= Cardinality(Origins)
    BY <1>2, <1>3, AsManyAsKeys
  <2>2. (nelements * 1024) \div NSlots(0) <= MaxLoad
    BY <1>2, <2>1, LargestNotTooFull
  <2>3. 0 \in 0 .. FirstShift
    BY SizeAssumption
  <2>4. NSlots(0) \in Nat \ {0}
    BY <2>3, TableSizes
  <2>5. (nelements * 1024) \div NSlots(0) \in Nat /\ MaxLoad \in Nat
    <3>1. \A a \in Nat, m \in Nat \ {0} : a \div m \in Nat
      OBVIOUS
    <3>2. nelements * 1024 \in Nat
      BY <1>2
    <3> QED BY <2>4, <3>1, <3>2, SizeAssumption
  <2>6. ~((nelements * 1024) \div NSlots(0) > MaxLoad)
    BY <2>2, <2>5
  <2> QED BY <1>1, <2>6 DEF TooFull
<1>5. shift - 1 \in 0 .. FirstShift /\ N' = 2 * N
  BY <1>1, <1>2, <1>4, TableSizes DEF N
<1>6. N' \in Nat /\ N' >= 4 /\ Homes' \in [Origins -> 0 .. N' - 1]
  <2>1. \A k \in Origins : Home(k, shift - 1) \in 0 .. NSlots(shift - 1) - 1
    BY <1>2, <1>5, HomeInTable
  <2>2. Homes' = [k \in Origins |-> Home(k, shift - 1)]
    BY <1>1 DEF Homes, Home
  <2>3. N' = NSlots(shift - 1)
    BY <1>1 DEF N
  <2> QED BY <1>2, <1>5, <2>1, <2>2, <2>3
<1>7. slots' = [p \in 0 .. N' - 1 |-> Empty]
  BY <1>1 DEF EmptyTable, N
<1>8. Table(slots', Homes', N') /\ Sorted(slots', Homes', N') /\ Used(slots') = {}
  BY <1>6, <1>7, EmptySorted
<1>9. Rest(slots, 0) = Used(slots)
  BY <1>2 DEF Rest, Used
<1>10. Types'
  <2>1. slots' \in [0 .. N' - 1 -> Elements \cup {Empty}]
    BY <1>8 DEF Table
  <2>2. pos \in 0 .. N' - 1 /\ elemdistance \in 0 .. N' - 1
    BY <1>2, <1>5 DEF IInv, Types
  <2>3. /\ IsFiniteSet(DOMAIN slots) /\ DOMAIN slots \subseteq Nat
        /\ \A i \in DOMAIN slots : slots[i] \in Elements \cup {Empty}
    BY <1>2, FS_Interval DEF Table
  <2> QED BY <1>1, <1>2, <1>5, <2>1, <2>2, <2>3 DEF Types, IInv
<1>11. Control'
  BY <1>1 DEF Control, IInv
<1>12. Keys'
  BY <1>1, <1>3, <1>8, <1>9 DEF Keys, Once, Holding
<1>13. Order'
  BY <1>1, <1>8 DEF Order
<1>14. Probing'
  BY <1>1 DEF Probing, Searching
<1>15. Counts'
  <2>1. Cardinality(Used(slots')) = 0
    BY <1>8, FS_EmptySet
  <2>2. Rest(old', next') = Used(slots)
    BY <1>1, <1>9
  <2>3. 0 <= N' - 1 /\ 0 + Cardinality(Used(slots)) <= N' - 2
    BY <1>2, <1>3, <1>5
  <2> QED BY <1>1, <2>1, <2>2, <2>3 DEF Counts
<1> QED BY <1>10, <1>11, <1>12, <1>13, <1>14, <1>15 DEF IInv

LEMMA ReinsertKeeps ==
  ASSUME IInv, Reinsert PROVE IInv'
<1> DEFINE i == Min(Left)
<1>1. /\ pc = "rebuild" /\ Left # {} /\ hand' = old[i] /\ pos' = Home(old[i][1], shift)
      /\ elemdistance' = 0 /\ next' = i + 1 /\ pc' = "reinsert"
      /\ hash' = hash /\ shift' = shift /\ slots' = slots /\ nelements' = nelements
      /\ old' = old /\ call' = call /\ answer' = answer
  BY DEF Reinsert, TakeInHand, ProbeFrom
<1>2. N' = N /\ Homes' = Homes
  BY <1>1, SameTable
<1>3. N \in Nat /\ N >= 4 /\ nelements \in Nat /\ Left = Rest(old, next)
  BY TableFacts
<1>4. i \in Rest(old, next) /\ \A j \in Rest(old, next) : i <= j
  <2>1. Left \subseteq Nat
    BY DEF IInv, Types, Left
  <2> QED BY <1>1, <1>3, <2>1, MinIsLeast
<1> HIDE DEF i
<1>5. Rest(old, i + 1) = Rest(old, next) \ {i} /\ i \in Nat
  BY <1>4 DEF Rest, IInv, Types
<1>6. old[i] \in Elements /\ old[i][1] \in Origins
  BY <1>4 DEF Rest, IInv, Types, Elements
<1>7. /\ IsFiniteSet(Rest(old, next)) /\ Cardinality(Rest(old, next)) \in Nat
      /\ Cardinality(Rest(old, i + 1)) = Cardinality(Rest(old, next)) - 1
  <2>1. Rest(old, next) \in SUBSET DOMAIN old /\ IsFiniteSet(DOMAIN old)
    BY DEF Rest, IInv, Types
  <2>2. IsFiniteSet(Rest(old, next))
    BY <2>1, FS_Subset
  <2> QED BY <1>4, <1>5, <2>2, FS_RemoveElement, FS_CardinalityType
<1>8. /\ pos' = Homes[old[i][1]] /\ pos' \in 0 .. N - 1
      /\ Dist(pos', Homes[old[i][1]], N) = 0
      /\ Fitting(slots, Homes, N, pos', 0)
  BY <1>1, <1>6, AtHome
<1>9. Types'
  BY <1>1, <1>2, <1>3, <1>5, <1>6, <1>8 DEF Types, IInv
<1>10. Control'
  BY <1>1, <1>6 DEF Control, IInv
<1>11. Keys'
  BY <1>1, <1>4, <1>5 DEF Keys, IInv, Holding
<1>12. Order'
  BY <1>1, <1>2 DEF Order, IInv
<1>13. Probing'
  BY <1>1, <1>2, <1>8 DEF Probing, Searching
<1>14. Counts'
  BY <1>1, <1>2, <1>3, <1>7 DEF Counts, IInv
<1> QED BY <1>9, <1>10, <1>11, <1>12, <1>13, <1>14 DEF IInv

LEMMA RebuiltKeeps ==
  ASSUME IInv, Rebuilt PROVE IInv'
<1> DEFINE e == <<call.origin, call.image>>
<1>1. /\ pc = "rebuild" /\ Left = {} /\ old' = << >> /\ next' = 0
      /\ hand' = e /\ pos' = Home(e[1], shift) /\ elemdistance' = 0 /\ pc' = "insert"
      /\ hash' = hash /\ shift' = shift /\ slots' = slots /\ nelements' = nelements
      /\ call' = call /\ answer' = answer
  BY DEF Rebuilt, TakeInHand, ProbeFrom
<1>2. N' = N /\ Homes' = Homes
  BY <1>1, SameTable
<1>3. /\ call \in Calls /\ call.origin \in Origins /\ e \in Elements /\ e[1] = call.origin
      /\ call.op \in {"Insert", "SetImage"} /\ answer = NoAnswer
  BY <1>1, CallOf DEF IInv, Control
<1>4. /\ pos' = Homes[call.origin] /\ pos' \in 0 .. N - 1
      /\ Dist(pos', Homes[call.origin], N) = 0
      /\ Fitting(slots, Homes, N, pos', 0)
      /\ \A q \in Used(slots) : Far(slots, Homes, N)[q] >= 0
  BY <1>1, <1>3, AtHome
<1>5. N \in Nat /\ N >= 4 /\ nelements \in Nat /\ Left = Rest(old, next)
  BY TableFacts
<1>6. nelements <= N - 2
  <2>1. Cardinality(Rest(old, next)) = 0
    BY <1>1, <1>5, FS_EmptySet
  <2>2. nelements + Cardinality(Rest(old, next)) <= N - 2
    BY <1>1 DEF IInv, Counts
  <2> QED BY <1>5, <2>1, <2>2
<1>7. DOMAIN old' = {}
  BY <1>1
<1> HIDE DEF e
<1>8. Types'
  BY <1>1, <1>2, <1>3, <1>4, <1>5, <1>7, FS_EmptySet DEF Types, IInv
<1>9. Control'
  BY <1>1, <1>3 DEF Control, IInv, e
<1>10. Keys'
  <2>1. Rest(old', next') = {} /\ ~Holding(pc', answer')
    BY <1>1, <1>3, <1>7, Different DEF Rest, Holding
  <2> QED BY <1>1, <2>1 DEF Keys, IInv
<1>11. Order'
  BY <1>1, <1>2 DEF Order, IInv
<1>12. Probing'
  BY <1>1, <1>2, <1>3, <1>4 DEF Probing
<1>13. Counts'
  BY <1>1, <1>2, <1>5, <1>6 DEF Counts, IInv
<1> QED BY <1>8, <1>9, <1>10, <1>11, <1>12, <1>13 DEF IInv

-------------------------------------------------------------------------------
(***************************************************************************)
(* So do the steps of hashmapInsert.                                       *)
(***************************************************************************)
LEMMA NotFull ==
  ASSUME IInv PROVE Used(slots) # 0 .. N - 1
<1>1. N \in Nat /\ N >= 4 /\ Cardinality(Used(slots)) <= N - 1
  BY TableFacts DEF IInv, Counts
<1>2. Cardinality(0 .. N - 1) = N
  BY <1>1, FS_Interval
<1> QED BY <1>1, <1>2

LEMMA InHand ==
  ASSUME IInv, Inserting
  PROVE  /\ hand \in Elements /\ hand[1] \in Origins /\ pos \in 0 .. N - 1
         /\ elemdistance \in 0 .. N - 1
         /\ elemdistance = Dist(pos, Homes[hand[1]], N)
         /\ Fitting(slots, Homes, N, pos, elemdistance)
         /\ Sorted(slots, Homes, N)
         /\ pc \in {"insert", "reinsert"}
         /\ pc = "insert" => old = << >> /\ Rest(old, next) = {}
         /\ ~Holding(pc, answer) =>
              /\ pc = "insert" /\ answer = NoAnswer /\ call.origin = hand[1]
              /\ \A q \in Used(slots) :
                   slots[q][1] = hand[1] => Far(slots, Homes, N)[q] >= elemdistance
<1>1. pc \in {"insert", "reinsert"}
  BY DEF Inserting
<1>2. hand \in Elements /\ hand[1] \in Origins
  BY <1>1 DEF IInv, Control, Elements
<1>3. /\ pos \in 0 .. N - 1 /\ elemdistance \in 0 .. N - 1
      /\ elemdistance = Dist(pos, Homes[hand[1]], N)
      /\ Fitting(slots, Homes, N, pos, elemdistance)
      /\ Sorted(slots, Homes, N)
  BY <1>1 DEF IInv, Types, Probing, Order
<1>4. pc = "insert" => old = << >> /\ Rest(old, next) = {}
  <2>1. pc = "insert" => old = << >>
    BY DEF IInv, Control
  <2>2. DOMAIN << >> = {}
    OBVIOUS
  <2> QED BY <2>1, <2>2 DEF Rest
<1>5. ASSUME ~Holding(pc, answer)
      PROVE  /\ pc = "insert" /\ answer = NoAnswer /\ call.origin = hand[1]
             /\ \A q \in Used(slots) :
                  slots[q][1] = hand[1] => Far(slots, Homes, N)[q] >= elemdistance
  <2>1. pc = "insert" /\ answer = NoAnswer
    BY <1>1, <1>5 DEF Holding, IInv, Control
  <2>2. hand = <<call.origin, call.image>> /\ call.origin = hand[1]
    BY <2>1 DEF IInv, Control
  <2>3. Searching(pc, answer)
    BY <2>1 DEF Searching
  <2> QED BY <2>1, <2>2, <2>3 DEF IInv, Probing
<1> QED BY <1>1, <1>2, <1>3, <1>4, <1>5

(* Where the element in hand may be put, its origin is not in the table. *)
LEMMA KeyIsNew ==
  ASSUME IInv, Inserting,
         pos \in Used(slots) => Far(slots, Homes, N)[pos] < elemdistance,
         NEW q \in Used(slots)
  PROVE  slots[q][1] # hand[1]
<1>1. CASE Holding(pc, answer)
  BY <1>1 DEF IInv, Keys
<1>2. CASE ~Holding(pc, answer)
  <2>1. /\ Table(slots, Homes, N) /\ Sorted(slots, Homes, N)
        /\ hand[1] \in Origins /\ pos \in 0 .. N - 1
        /\ elemdistance = Dist(pos, Homes[hand[1]], N)
        /\ \A p \in Used(slots) :
             slots[p][1] = hand[1] => Far(slots, Homes, N)[p] >= elemdistance
    BY <1>2, TableFacts, InHand
  <2> QED BY <2>1, NotOverlooked
<1> QED BY <1>1, <1>2

LEMMA OncePut ==
  ASSUME NEW n, NEW hm, NEW T, Table(T, hm, n), Once(T), NEW p \in 0 .. n - 1,
         NEW e \in Elements, \A q \in Used(T) : q # p => T[q][1] # e[1],
         NEW U, U = Put(T, p, e)
  PROVE  Once(U)
<1>1. /\ Used(U) = Used(T) \cup {p} /\ U[p] = e
      /\ \A q \in 0 .. n - 1 : q # p => U[q] = T[q]
  BY OneSlot
<1>2. Used(T) \subseteq 0 .. n - 1
  BY UsedSlots
<1> QED BY <1>1, <1>2 DEF Once

LEMMA PlaceKeeps ==
  ASSUME IInv, Place PROVE IInv'
<1>1. /\ Inserting /\ slots[pos] = Empty /\ slots' = Put(slots, pos, hand)
      /\ nelements' = nelements + 1
      /\ hash' = hash /\ shift' = shift /\ old' = old /\ next' = next /\ call' = call
      /\ hand' = hand /\ pos' = pos /\ elemdistance' = elemdistance
      /\ pc = "insert" => answer' = Okay /\ pc' = "return"
      /\ pc = "reinsert" => answer' = answer /\ pc' = "rebuild"
  BY DEF Place, Put, Settle
<1>2. N' = N /\ Homes' = Homes
  BY <1>1, SameTable
<1>3. /\ Table(slots, Homes, N) /\ N \in Nat /\ nelements \in Nat
      /\ pos \in 0 .. N - 1 /\ pos \notin Used(slots)
      /\ \A p \in Used(slots) : p \in 0 .. N - 1
  BY <1>1, TableFacts, InHand
<1>4. /\ hand \in Elements /\ elemdistance = Dist(pos, Homes[hand[1]], N)
      /\ Fitting(slots, Homes, N, pos, elemdistance) /\ Sorted(slots, Homes, N)
      /\ pc \in {"insert", "reinsert"}
      /\ pc = "insert" => old = << >> /\ Rest(old, next) = {}
  BY <1>1, InHand
<1>5. /\ Table(slots', Homes, N) /\ Used(slots') = Used(slots) \cup {pos}
      /\ slots'[pos] = hand /\ \A q \in 0 .. N - 1 : q # pos => slots'[q] = slots[q]
  BY <1>1, <1>3, <1>4, OneSlot
<1>6. Sorted(slots', Homes, N)
  BY <1>1, <1>3, <1>4, PlacedSorted
<1>7. \A q \in Used(slots) : slots[q][1] # hand[1]
  BY <1>1, <1>3, KeyIsNew
<1>8. Types'
  BY <1>1, <1>2, <1>4, <1>5 DEF Types, IInv, Table
<1>9. Control'
  BY <1>1, <1>4, Different DEF Control, IInv
<1>10. Keys'
  <2>1. Once(slots')
    BY <1>1, <1>3, <1>4, <1>7, OncePut DEF IInv, Keys
  <2>2. ~Holding(pc', answer')
    BY <1>1, <1>4 DEF Holding
  <2>3. ASSUME NEW i \in Rest(old, next), NEW p \in Used(slots')
        PROVE  old[i][1] # slots'[p][1]
    <3>1. pc = "reinsert" /\ Holding(pc, answer)
      BY <1>4, <2>3 DEF Holding
    <3>2. old[i][1] # hand[1] /\ \A q \in Used(slots) : old[i][1] # slots[q][1]
      BY <3>1 DEF IInv, Keys
    <3> QED BY <1>3, <1>5, <3>2
  <2> QED BY <1>1, <2>1, <2>2, <2>3 DEF Keys, IInv
<1>11. Order'
  BY <1>1, <1>2, <1>4, <1>6 DEF Order
<1>12. Probing'
  BY <1>1, <1>4 DEF Probing, Searching
<1>13. Counts'
  <2>1. Cardinality(Used(slots')) = Cardinality(Used(slots)) + 1
    BY <1>1, <1>3, <1>4, CountPut
  <2>2. pc = "reinsert" => Cardinality(Rest(old, next)) \in Nat
    <3>1. Rest(old, next) \in SUBSET DOMAIN old /\ IsFiniteSet(DOMAIN old)
      BY DEF Rest, IInv, Types
    <3> QED BY <3>1, FS_Subset, FS_CardinalityType
  <2> QED BY <1>1, <1>2, <1>3, <1>4, <2>1, <2>2 DEF Counts, IInv
<1> QED BY <1>8, <1>9, <1>10, <1>11, <1>12, <1>13 DEF IInv

LEMMA OverrideKeeps ==
  ASSUME IInv, Override PROVE IInv'
<1>1. /\ Inserting /\ slots[pos] # Empty /\ slots[pos][1] = hand[1]
      /\ hash' = hash /\ shift' = shift /\ nelements' = nelements /\ old' = old
      /\ next' = next /\ call' = call
      /\ hand' = hand /\ pos' = pos /\ elemdistance' = elemdistance /\ pc' = "return"
      /\ \/ slots' = Put(slots, pos, hand) /\ answer' = Okay
         \/ slots' = slots /\ answer' = KeyExists
  BY DEF Override, Matches, Settle, Put
<1>2. N' = N /\ Homes' = Homes
  BY <1>1, SameTable
<1>3. /\ Table(slots, Homes, N) /\ N \in Nat /\ N >= 4 /\ nelements \in Nat
      /\ pos \in 0 .. N - 1 /\ pos \in Used(slots)
      /\ \A p \in Used(slots) : p \in 0 .. N - 1
  BY <1>1, TableFacts, InHand
<1>4. ~Holding(pc, answer) /\ pc = "insert" /\ old = << >> /\ Rest(old, next) = {}
  <2>1. ~Holding(pc, answer)
    BY <1>1, <1>3 DEF IInv, Keys
  <2> QED BY <1>1, <2>1, InHand
<1>5. /\ hand \in Elements /\ hand[1] \in Origins /\ Sorted(slots, Homes, N)
  BY <1>1, InHand
<1>6. Far(slots, Homes, N)[pos] = Dist(pos, Homes[hand[1]], N)
  BY <1>1, <1>3, UsedSlots
<1>7. /\ Table(slots', Homes, N) /\ Sorted(slots', Homes, N) /\ Once(slots')
      /\ Used(slots') = Used(slots)
  <2>1. CASE slots' = slots
    BY <1>3, <1>5, <2>1 DEF IInv, Keys
  <2>2. CASE slots' = Put(slots, pos, hand)
    <3>1. /\ Table(slots', Homes, N) /\ Used(slots') = Used(slots) \cup {pos}
          /\ Far(slots', Homes, N)[pos] = Dist(pos, Homes[hand[1]], N)
          /\ \A q \in Used(slots) : q # pos =>
               Far(slots', Homes, N)[q] = Far(slots, Homes, N)[q]
      BY <1>3, <1>5, <2>2, OneSlot, SMTT(30)
    <3>2. Used(slots') = Used(slots)
      BY <1>3, <3>1
    <3>3. \A q \in Used(slots) : Far(slots', Homes, N)[q] = Far(slots, Homes, N)[q]
      BY <1>6, <3>1
    <3>4. Sorted(slots', Homes, N)
      BY <1>5, <3>2, <3>3 DEF Sorted, Reached, InOrder
    <3>5. Once(slots')
      <4>1. Once(slots)
        BY DEF IInv, Keys
      <4>2. \A q \in Used(slots) : q # pos => slots[q][1] # hand[1]
        BY <1>1, <1>3, <4>1 DEF Once
      <4> QED BY <1>3, <1>5, <2>2, <4>1, <4>2, OncePut
    <3> QED BY <3>1, <3>2, <3>4, <3>5
  <2> QED BY <1>1, <2>1, <2>2
<1>8. Types'
  BY <1>1, <1>2, <1>7 DEF Types, IInv, Table
<1>9. Control'
  BY <1>1, <1>4, Different DEF Control, IInv
<1>10. Keys'
  BY <1>1, <1>4, <1>7 DEF Keys, Holding
<1>11. Order'
  BY <1>1, <1>2, <1>7 DEF Order
<1>12. Probing'
  BY <1>1 DEF Probing, Searching
<1>13. Counts'
  BY <1>1, <1>2, <1>7 DEF Counts, IInv
<1> QED BY <1>8, <1>9, <1>10, <1>11, <1>12, <1>13 DEF IInv

(* No slot with the searched origin is passed. *)
LEMMA SearchGoesOn ==
  ASSUME NEW n, NEW hm, NEW T, Table(T, hm, n), NEW k \in Origins, NEW p \in 0 .. n - 1,
         NEW d, d = Dist(p, hm[k], n), T[p][1] # k,
         NEW q \in Used(T), T[q][1] = k, Far(T, hm, n)[q] >= d
  PROVE  Far(T, hm, n)[q] >= d + 1
<1> DEFINE f == Far(T, hm, n)[q]
           h == hm[k]
<1>1. q \in 0 .. n - 1 /\ f \in 0 .. n - 1 /\ f = Dist(q, h, n) /\ q # p
  <2>1. f \in 0 .. n - 1 /\ f = Dist(q, hm[T[q][1]], n)
    BY UsedSlots
  <2>2. q \in 0 .. n - 1
    BY UsedSlots
  <2> QED BY <2>1, <2>2
<1>2. n \in Nat /\ n >= 4 /\ h \in 0 .. n - 1
  BY DEF Table
<1>3. f >= d /\ d = Dist(p, h, n)
  OBVIOUS
<1> HIDE DEF f, h
<1>4. f # d
  BY <1>1, <1>2, <1>3, Distances
<1>5. d \in 0 .. n - 1
  BY <1>2, <1>3, Distances
<1>6. f >= d + 1
  BY <1>1, <1>2, <1>3, <1>4, <1>5
<1> QED BY <1>6 DEF f

LEMMA GoOnKeeps ==
  ASSUME IInv, GoOn PROVE IInv'
<1> DEFINE n == N
           hm == Homes
           F == Far(slots, hm, n)
           d == elemdistance
<1>1. /\ Inserting /\ slots[pos] # Empty /\ slots[pos][1] # hand[1]
      /\ ElemDistance(pos) >= d /\ pos' = NextPos(pos) /\ elemdistance' = d + 1
      /\ hash' = hash /\ shift' = shift /\ slots' = slots /\ nelements' = nelements
      /\ old' = old /\ next' = next /\ call' = call /\ answer' = answer /\ pc' = pc
      /\ hand' = hand
  BY DEF GoOn, Matches, Step
<1>2. N' = n /\ Homes' = hm
  BY <1>1, SameTable
<1>3. /\ Table(slots, hm, n) /\ n \in Nat /\ n >= 4
      /\ pos \in 0 .. n - 1 /\ pos \in Used(slots) /\ F[pos] >= d
      /\ pos' = Nxt(pos, n) /\ pos' \in 0 .. n - 1 /\ d \in 0 .. n - 1
      /\ hand[1] \in Origins /\ hm[hand[1]] \in 0 .. n - 1
      /\ d = Dist(pos, hm[hand[1]], n) /\ Sorted(slots, hm, n)
      /\ pc \in {"insert", "reinsert"}
  BY <1>1, TableFacts, InHand
<1>4. d < n - 1
  <2>1. Used(slots) # 0 .. n - 1
    BY NotFull
  <2>2. F[pos] < n - 1
    BY <1>3, <2>1, NotAround
  <2>3. F[pos] \in 0 .. n - 1
    BY <1>3, UsedSlots
  <2> QED BY <1>3, <2>2, <2>3
<1>5. d + 1 = Dist(pos', hm[hand[1]], n) /\ d + 1 \in 0 .. n - 1 /\ Prv(pos', n) = pos
  <2>1. Dist(Nxt(pos, n), hm[hand[1]], n) = Dist(pos, hm[hand[1]], n) + 1
    BY <1>3, <1>4, Distances
  <2>2. Prv(Nxt(pos, n), n) = pos
    BY <1>3, Neighbours
  <2> QED BY <1>3, <1>4, <2>1, <2>2
<1>6. Fitting(slots, hm, n, pos', d + 1)
  <2>1. (d + 1) - 1 = d
    BY <1>3
  <2> QED BY <1>3, <1>5, <2>1 DEF Fitting
<1>7. Types'
  BY <1>1, <1>2, <1>3, <1>5 DEF Types, IInv
<1>8. Control'
  BY <1>1 DEF Control, IInv
<1>9. Keys'
  BY <1>1 DEF Keys, IInv
<1>10. Order'
  BY <1>1, <1>2, <1>3 DEF Order
<1>11. Probing'
  <2>1. ASSUME Searching(pc, answer)
        PROVE  /\ d + 1 = Dist(pos', hm[call.origin], n)
               /\ \A q \in Used(slots) : slots[q][1] = call.origin => F[q] >= d + 1
    <3>1. ~Holding(pc, answer)
      BY <1>3, <2>1, Different DEF Searching, Holding
    <3>2. call.origin = hand[1]
          /\ \A q \in Used(slots) : slots[q][1] = hand[1] => F[q] >= d
      BY <1>1, <3>1, InHand
    <3>3. ASSUME NEW q \in Used(slots), slots[q][1] = call.origin PROVE F[q] >= d + 1
      <4>1. F[q] >= d /\ slots[q][1] = hand[1]
        BY <3>2, <3>3
      <4> QED BY <1>1, <1>3, <4>1, SearchGoesOn
    <3> QED BY <1>5, <3>2, <3>3
  <2> QED BY <1>1, <1>2, <1>5, <1>6, <2>1 DEF Probing
<1>12. Counts'
  BY <1>1, <1>2 DEF Counts, IInv
<1> QED BY <1>7, <1>8, <1>9, <1>10, <1>11, <1>12 DEF IInv

LEMMA SwapKeeps ==
  ASSUME IInv, Swap PROVE IInv'
<1> DEFINE n == N
           hm == Homes
           F == Far(slots, hm, n)
           d == elemdistance
           e == slots[pos]
<1>1. /\ Inserting /\ slots[pos] # Empty /\ ElemDistance(pos) < d
      /\ slots' = Put(slots, pos, hand) /\ hand' = e
      /\ answer' = IF pc = "insert" THEN Okay ELSE answer
      /\ pos' = NextPos(pos) /\ elemdistance' = ElemDistance(pos) + 1
      /\ hash' = hash /\ shift' = shift /\ nelements' = nelements
      /\ old' = old /\ next' = next /\ call' = call /\ pc' = pc
  BY DEF Swap, Step, Put
<1>2. N' = n /\ Homes' = hm
  BY <1>1, SameTable
<1>3. /\ Table(slots, hm, n) /\ n \in Nat /\ n >= 4 /\ pos \in 0 .. n - 1 /\ pos \in Used(slots)
      /\ ElemDistance(pos) = F[pos] /\ e \in Elements /\ e[1] \in Origins
      /\ pos' = Nxt(pos, n) /\ pos' \in 0 .. n - 1 /\ nelements \in Nat
      /\ \A p \in Used(slots) : p \in 0 .. n - 1
  BY <1>1, TableFacts, InHand
<1>4. /\ hand \in Elements /\ hand[1] \in Origins /\ d = Dist(pos, hm[hand[1]], n)
      /\ Fitting(slots, hm, n, pos, d) /\ Sorted(slots, hm, n) /\ d \in 0 .. n - 1
      /\ pc \in {"insert", "reinsert"}
      /\ pc = "insert" => Rest(old, next) = {}
  BY <1>1, InHand
<1>5. F[pos] = Dist(pos, hm[e[1]], n) /\ F[pos] \in 0 .. n - 1 /\ hm[e[1]] \in 0 .. n - 1
  BY <1>3, UsedSlots
<1>6. F[pos] < d
  BY <1>1, <1>3
<1>7. /\ Table(slots', hm, n) /\ slots'[pos] = hand
      /\ \A q \in 0 .. n - 1 : q # pos => slots'[q] = slots[q]
  <2>1. /\ Table(slots, hm, n) /\ pos \in 0 .. n - 1 /\ hand \in Elements
        /\ slots' = Put(slots, pos, hand)
    BY <1>1, <1>3, <1>4
  <2> QED BY <2>1, OneSlot
<1>8. Used(slots') = Used(slots) /\ Far(slots', hm, n)[pos] = d
  <2>1. /\ Table(slots, hm, n) /\ pos \in 0 .. n - 1 /\ hand \in Elements
        /\ slots' = Put(slots, pos, hand)
    BY <1>1, <1>3, <1>4
  <2>2. Used(slots') = Used(slots) \cup {pos}
        /\ Far(slots', hm, n)[pos] = Dist(pos, hm[hand[1]], n)
    BY <2>1, OneSlot
  <2> QED BY <1>3, <1>4, <2>2
<1>9. Sorted(slots', hm, n)
  <2>1. pos \in Used(slots) => Far(slots, hm, n)[pos] < d
    BY <1>6
  <2> QED BY <1>1, <1>3, <1>4, <2>1, PlacedSorted
<1>10. \A q \in Used(slots) : slots[q][1] # hand[1]
  BY <1>1, <1>6, KeyIsNew
<1>11. /\ elemdistance' = F[pos] + 1 /\ F[pos] + 1 \in 0 .. n - 1
       /\ F[pos] + 1 = Dist(pos', hm[e[1]], n) /\ Prv(pos', n) = pos
  <2>1. F[pos] < n - 1
    BY <1>3, <1>4, <1>5, <1>6
  <2>2. Dist(Nxt(pos, n), hm[e[1]], n) = Dist(pos, hm[e[1]], n) + 1
    BY <1>3, <1>5, <2>1, Distances
  <2>3. Prv(Nxt(pos, n), n) = pos
    BY <1>3, Neighbours
  <2> QED BY <1>1, <1>3, <1>5, <2>1, <2>2, <2>3
<1>12. Fitting(slots', hm, n, pos', F[pos] + 1)
  <2>1. d >= (F[pos] + 1) - 1
    BY <1>3, <1>4, <1>5, <1>6
  <2> QED BY <1>3, <1>8, <1>11, <2>1 DEF Fitting
<1>13. Types'
  BY <1>1, <1>2, <1>3, <1>7, <1>11 DEF Types, IInv, Table
<1>14. Control'
  BY <1>1, <1>3, <1>4, Different DEF Control, IInv
<1>15. Keys'
  <2>1. Once(slots')
    BY <1>1, <1>3, <1>4, <1>10, OncePut DEF IInv, Keys
  <2>2. ASSUME NEW i \in Rest(old, next)
        PROVE  old[i][1] # e[1] /\ \A p \in Used(slots') : old[i][1] # slots'[p][1]
    <3>1. Holding(pc, answer)
      BY <1>4, <2>2 DEF Holding
    <3>2. old[i][1] # hand[1] /\ \A q \in Used(slots) : old[i][1] # slots[q][1]
      BY <3>1 DEF IInv, Keys
    <3> QED BY <1>3, <1>7, <1>8, <3>2
  <2>3. ASSUME NEW p \in Used(slots') PROVE slots'[p][1] # e[1]
    <3>1. CASE p = pos
      BY <1>3, <1>7, <1>10, <3>1
    <3>2. CASE p # pos
      <4>1. p \in Used(slots) /\ slots'[p] = slots[p]
        BY <1>3, <1>7, <1>8, <3>2
      <4>2. Once(slots)
        BY DEF IInv, Keys
      <4> QED BY <1>3, <3>2, <4>1, <4>2 DEF Once
    <3> QED BY <3>1, <3>2
  <2> QED BY <1>1, <2>1, <2>2, <2>3 DEF Keys, IInv
<1>16. Order'
  BY <1>1, <1>2, <1>4, <1>9 DEF Order
<1>17. Probing'
  <2>1. ~Searching(pc', answer')
    BY <1>1, <1>4, Different DEF Searching
  <2> QED BY <1>1, <1>2, <1>11, <1>12, <2>1 DEF Probing
<1>18. Counts'
  BY <1>1, <1>2, <1>8 DEF Counts, IInv
<1> QED BY <1>13, <1>14, <1>15, <1>16, <1>17, <1>18 DEF IInv

-------------------------------------------------------------------------------
(***************************************************************************)
(* So do the steps of hashmapLookup and of the removal.                    *)
(***************************************************************************)
LEMMA LookingFor ==
  ASSUME IInv, pc = "lookup"
  PROVE  /\ call \in Calls /\ call.origin \in Origins /\ pos \in 0 .. N - 1
         /\ elemdistance \in 0 .. N - 1
         /\ elemdistance = Dist(pos, Homes[call.origin], N)
         /\ Homes[call.origin] \in 0 .. N - 1
         /\ Sorted(slots, Homes, N) /\ old = << >> /\ answer = NoAnswer
         /\ \A q \in Used(slots) :
              slots[q][1] = call.origin => Far(slots, Homes, N)[q] >= elemdistance
         /\ GivesUp <=> (pos \in Used(slots) => Far(slots, Homes, N)[pos] < elemdistance)
<1>1. call \in Calls /\ call.origin \in Origins
  BY CallOf
<1>2. /\ pos \in 0 .. N - 1 /\ elemdistance \in 0 .. N - 1
      /\ elemdistance = Dist(pos, Homes[call.origin], N)
      /\ Sorted(slots, Homes, N) /\ old = << >> /\ answer = NoAnswer
      /\ \A q \in Used(slots) :
           slots[q][1] = call.origin => Far(slots, Homes, N)[q] >= elemdistance
  BY DEF IInv, Types, Control, Order, Probing, Searching
<1>3. Homes[call.origin] \in 0 .. N - 1
  BY <1>1, TableFacts
<1>4. pos \in Used(slots) <=> slots[pos] # Empty
  BY <1>2, TableFacts
<1>5. pos \in Used(slots) =>
        ElemDistance(pos) = Far(slots, Homes, N)[pos] /\ Far(slots, Homes, N)[pos] \in 0 .. N - 1
  BY TableFacts, UsedSlots
<1>6. N \in Nat
  BY TableFacts
<1>7. GivesUp <=> (pos \in Used(slots) => Far(slots, Homes, N)[pos] < elemdistance)
  BY <1>2, <1>4, <1>5, <1>6 DEF GivesUp
<1> QED BY <1>1, <1>2, <1>3, <1>7

LEMMA NotFoundKeeps ==
  ASSUME IInv, NotFound PROVE IInv'
<1>1. /\ pc = "lookup" /\ pc' = "return" /\ answer' \in {Okay, Absent}
      /\ hash' = hash /\ shift' = shift /\ slots' = slots /\ nelements' = nelements
      /\ old' = old /\ next' = next /\ call' = call /\ hand' = hand /\ pos' = pos
      /\ elemdistance' = elemdistance
  BY DEF NotFound, Settle
<1>2. N' = N /\ Homes' = Homes
  BY <1>1, SameTable
<1>3. Types'
  BY <1>1, <1>2 DEF Types, IInv
<1>4. Control'
  BY <1>1, Different DEF Control, IInv
<1>5. Keys'
  BY <1>1 DEF Keys, IInv, Holding
<1>6. Order'
  BY <1>1, <1>2 DEF Order, IInv
<1>7. Probing'
  BY <1>1 DEF Probing, Searching
<1>8. Counts'
  BY <1>1, <1>2 DEF Counts, IInv
<1> QED BY <1>3, <1>4, <1>5, <1>6, <1>7, <1>8 DEF IInv

LEMMA LookOnKeeps ==
  ASSUME IInv, LookOn PROVE IInv'
<1> DEFINE n == N
           hm == Homes
           F == Far(slots, hm, n)
           d == elemdistance
<1>1. /\ pc = "lookup" /\ ~GivesUp /\ slots[pos][1] # call.origin
      /\ pos' = NextPos(pos) /\ elemdistance' = d + 1
      /\ hash' = hash /\ shift' = shift /\ slots' = slots /\ nelements' = nelements
      /\ old' = old /\ next' = next /\ call' = call /\ answer' = answer /\ pc' = pc
      /\ hand' = hand
  BY DEF LookOn, Step
<1>2. N' = n /\ Homes' = hm
  BY <1>1, SameTable
<1>3. /\ call.origin \in Origins /\ pos \in 0 .. n - 1 /\ d \in 0 .. n - 1
      /\ d = Dist(pos, hm[call.origin], n) /\ hm[call.origin] \in 0 .. n - 1
      /\ Sorted(slots, hm, n)
      /\ \A q \in Used(slots) : slots[q][1] = call.origin => F[q] >= d
      /\ pos \in Used(slots) /\ ~(F[pos] < d)
  BY <1>1, LookingFor
<1>4. /\ Table(slots, hm, n) /\ n \in Nat /\ n >= 4
      /\ pos' = Nxt(pos, n) /\ pos' \in 0 .. n - 1
  BY <1>1, <1>3, TableFacts
<1>5. d < n - 1
  <2>1. Used(slots) # 0 .. n - 1
    BY NotFull
  <2>2. F[pos] < n - 1
    BY <1>3, <1>4, <2>1, NotAround
  <2>3. F[pos] \in 0 .. n - 1
    BY <1>3, <1>4, UsedSlots
  <2> QED BY <1>3, <1>4, <2>2, <2>3
<1>6. d + 1 = Dist(pos', hm[call.origin], n) /\ d + 1 \in 0 .. n - 1
  <2>1. Dist(Nxt(pos, n), hm[call.origin], n) = Dist(pos, hm[call.origin], n) + 1
    BY <1>3, <1>4, <1>5, Distances
  <2> QED BY <1>3, <1>4, <1>5, <2>1
<1>7. ASSUME NEW q \in Used(slots), slots[q][1] = call.origin PROVE F[q] >= d + 1
  <2>1. F[q] >= d
    BY <1>3, <1>7
  <2> QED BY <1>1, <1>3, <1>4, <1>7, <2>1, SearchGoesOn
<1>8. Types'
  BY <1>1, <1>2, <1>4, <1>6 DEF Types, IInv
<1>9. Control'
  BY <1>1 DEF Control, IInv
<1>10. Keys'
  BY <1>1 DEF Keys, IInv
<1>11. Order'
  BY <1>1, <1>2 DEF Order, IInv
<1>12. Probing'
  BY <1>1, <1>2, <1>6, <1>7 DEF Probing
<1>13. Counts'
  BY <1>1, <1>2 DEF Counts, IInv
<1> QED BY <1>8, <1>9, <1>10, <1>11, <1>12, <1>13 DEF IInv

LEMMA FoundKeeps ==
  ASSUME IInv, Found PROVE IInv'
<1> DEFINE n == N
           hm == Homes
<1>1. /\ pc = "lookup" /\ ~GivesUp
      /\ hash' = hash /\ shift' = shift
      /\ old' = old /\ next' = next /\ call' = call /\ hand' = hand /\ pos' = pos
      /\ elemdistance' = elemdistance
      /\ \/ /\ slots' = Erase(slots, pos) /\ nelements' = nelements - 1
            /\ answer' = Okay /\ pc' = "move"
         \/ /\ slots' = slots /\ nelements' = nelements
            /\ answer' = slots[pos][2] /\ pc' = "return"
  BY DEF Found, Settle, Erase
<1>2. N' = n /\ Homes' = hm
  BY <1>1, SameTable
<1>3. /\ pos \in 0 .. n - 1 /\ pos \in Used(slots) /\ Sorted(slots, hm, n) /\ old = << >>
  BY <1>1, LookingFor
<1>4. /\ Table(slots, hm, n) /\ n \in Nat /\ n >= 4 /\ nelements \in Nat
      /\ slots[pos] \in Elements
  BY <1>1, <1>3, TableFacts
<1>5. slots[pos][2] \in Images
  BY <1>4 DEF Elements
<1>6. /\ Rest(old, next) = {} /\ Once(slots) /\ nelements = Cardinality(Used(slots))
      /\ nelements <= n - 1
  <2>1. DOMAIN << >> = {}
    OBVIOUS
  <2> QED BY <1>3, <2>1 DEF Rest, IInv, Keys, Counts
<1>7. CASE /\ slots' = slots /\ nelements' = nelements
           /\ answer' = slots[pos][2] /\ pc' = "return"
  <2>1. Types'
    BY <1>1, <1>2, <1>5, <1>7 DEF Types, IInv
  <2>2. Control'
    BY <1>1, <1>5, <1>7, Different DEF Control, IInv
  <2>3. Keys'
    BY <1>1, <1>6, <1>7 DEF Keys, Holding
  <2>4. Order'
    BY <1>2, <1>3, <1>7 DEF Order
  <2>5. Probing'
    BY <1>7 DEF Probing, Searching
  <2>6. Counts'
    BY <1>2, <1>6, <1>7 DEF Counts
  <2> QED BY <2>1, <2>2, <2>3, <2>4, <2>5, <2>6 DEF IInv
<1>8. CASE /\ slots' = Erase(slots, pos) /\ nelements' = nelements - 1
           /\ answer' = Okay /\ pc' = "move"
  <2>1. /\ Table(slots', hm, n) /\ Used(slots') = Used(slots) \ {pos}
        /\ \A q \in Used(slots') : slots'[q] = slots[q]
    BY <1>3, <1>4, <1>8, Erased
  <2>2. Holed(slots', hm, n, pos)
    BY <1>3, <1>4, <1>8, RemovedHoled
  <2>3. Cardinality(Used(slots')) = Cardinality(Used(slots)) - 1
    BY <1>3, <1>4, <1>8, CountErase
  <2>4. Types'
    BY <1>1, <1>2, <1>8, <2>1 DEF Types, IInv, Table
  <2>5. Control'
    BY <1>1, <1>8, Different DEF Control, IInv
  <2>6. Keys'
    BY <1>1, <1>6, <1>8, <2>1 DEF Keys, Holding, Once
  <2>7. Order'
    BY <1>1, <1>2, <1>8, <2>2 DEF Order
  <2>8. Probing'
    BY <1>8 DEF Probing, Searching
  <2>9. Counts'
    BY <1>2, <1>4, <1>6, <1>8, <2>3 DEF Counts
  <2> QED BY <2>4, <2>5, <2>6, <2>7, <2>8, <2>9 DEF IInv
<1> QED BY <1>1, <1>7, <1>8

(* The hole behind a removed element. *)
LEMMA Hole ==
  ASSUME IInv, pc = "move"
  PROVE  /\ Table(slots, Homes, N) /\ N \in Nat /\ N >= 4
         /\ pos \in 0 .. N - 1 /\ Holed(slots, Homes, N, pos) /\ pos \notin Used(slots)
         /\ NextPos(pos) = Nxt(pos, N) /\ Nxt(pos, N) \in 0 .. N - 1
         /\ EndsChain(Nxt(pos, N)) <=>
              (Nxt(pos, N) \in Used(slots) => Far(slots, Homes, N)[Nxt(pos, N)] = 0)
         /\ old = << >> /\ Rest(old, next) = {} /\ answer = Okay
<1> DEFINE x == Nxt(pos, N)
<1>1. /\ Table(slots, Homes, N) /\ N \in Nat /\ N >= 4 /\ pos \in 0 .. N - 1
      /\ NextPos(pos) = x /\ x \in 0 .. N - 1
  BY TableFacts DEF IInv, Types
<1>2. Holed(slots, Homes, N, pos) /\ pos \notin Used(slots)
  BY DEF IInv, Order, Holed
<1>3. old = << >> /\ Rest(old, next) = {} /\ answer = Okay
  <2>1. DOMAIN << >> = {}
    OBVIOUS
  <2> QED BY <2>1 DEF Rest, IInv, Control
<1> HIDE DEF x
<1>4. EndsChain(x) <=> (x \in Used(slots) => Far(slots, Homes, N)[x] = 0)
  <2>1. x \in Used(slots) <=> slots[x] # Empty
    BY <1>1, TableFacts
  <2>2. ASSUME x \in Used(slots)
        PROVE  Home(slots[x][1], shift) = x <=> Far(slots, Homes, N)[x] = 0
    <3>1. /\ Far(slots, Homes, N)[x] = Dist(x, Homes[slots[x][1]], N)
          /\ Homes[slots[x][1]] \in 0 .. N - 1 /\ slots[x][1] \in Origins
      BY <1>1, <2>2, UsedSlots
    <3>2. Homes[slots[x][1]] = Home(slots[x][1], shift)
      BY <3>1, TableFacts
    <3>3. \A h \in 0 .. N - 1 : Dist(x, h, N) = 0 <=> x = h
      BY <1>1, Distances
    <3> QED BY <3>1, <3>2, <3>3
  <2> QED BY <2>1, <2>2 DEF EndsChain
<1> QED BY <1>1, <1>2, <1>3, <1>4 DEF x

LEMMA MoveUpKeeps ==
  ASSUME IInv, MoveUp PROVE IInv'
<1> DEFINE x == Nxt(pos, N)
<1>1. /\ pc = "move" /\ ~EndsChain(NextPos(pos)) /\ slots' = Shift(slots, pos, NextPos(pos))
      /\ pos' = NextPos(pos)
      /\ hash' = hash /\ shift' = shift /\ nelements' = nelements
      /\ old' = old /\ next' = next /\ call' = call /\ answer' = answer /\ pc' = pc
      /\ hand' = hand /\ elemdistance' = elemdistance
  BY DEF MoveUp, Step, Shift
<1>2. N' = N /\ Homes' = Homes
  BY <1>1, SameTable
<1>3. /\ Table(slots, Homes, N) /\ N \in Nat /\ N >= 4
      /\ pos \in 0 .. N - 1 /\ Holed(slots, Homes, N, pos) /\ pos \notin Used(slots)
      /\ x \in 0 .. N - 1 /\ pos' = x /\ slots' = Shift(slots, pos, x)
      /\ x \in Used(slots) /\ Far(slots, Homes, N)[x] # 0
      /\ Rest(old, next) = {}
  BY <1>1, Hole
<1> HIDE DEF x
<1>4. /\ Table(slots', Homes, N) /\ Holed(slots', Homes, N, x)
      /\ Used(slots') = (Used(slots) \ {x}) \cup {pos} /\ slots'[pos] = slots[x]
      /\ \A q \in Used(slots) \ {x} : slots'[q] = slots[q]
  BY <1>3, HoleMoves DEF x
<1>5. Once(slots) /\ IsFiniteSet(Used(slots))
  BY TableFacts DEF IInv, Keys
<1>6. Once(slots')
  BY <1>3, <1>4, <1>5 DEF Once
<1>7. Cardinality(Used(slots')) = Cardinality(Used(slots))
  BY <1>3, <1>4, <1>5, CountMove
<1>8. Types'
  BY <1>1, <1>2, <1>3, <1>4 DEF Types, IInv, Table
<1>9. Control'
  BY <1>1 DEF Control, IInv
<1>10. Keys'
  BY <1>1, <1>3, <1>6 DEF Keys, Holding
<1>11. Order'
  BY <1>1, <1>2, <1>3, <1>4 DEF Order
<1>12. Probing'
  BY <1>1 DEF Probing, Searching
<1>13. Counts'
  BY <1>1, <1>2, <1>7 DEF Counts, IInv
<1> QED BY <1>8, <1>9, <1>10, <1>11, <1>12, <1>13 DEF IInv

LEMMA MovedKeeps ==
  ASSUME IInv, Moved PROVE IInv'
<1>1. /\ pc = "move" /\ EndsChain(NextPos(pos)) /\ pc' = "return"
      /\ hash' = hash /\ shift' = shift /\ slots' = slots /\ nelements' = nelements
      /\ old' = old /\ next' = next /\ call' = call /\ answer' = answer
      /\ hand' = hand /\ pos' = pos /\ elemdistance' = elemdistance
  BY DEF Moved
<1>2. N' = N /\ Homes' = Homes
  BY <1>1, SameTable
<1>3. Sorted(slots, Homes, N)
  <2>1. /\ Table(slots, Homes, N) /\ pos \in 0 .. N - 1 /\ Holed(slots, Homes, N, pos)
        /\ Nxt(pos, N) \in Used(slots) => Far(slots, Homes, N)[Nxt(pos, N)] = 0
    BY <1>1, Hole
  <2> QED BY <2>1, HoleCloses
<1>4. Types'
  BY <1>1, <1>2 DEF Types, IInv
<1>5. Control'
  BY <1>1, Different DEF Control, IInv
<1>6. Keys'
  BY <1>1 DEF Keys, IInv, Holding
<1>7. Order'
  BY <1>1, <1>2, <1>3 DEF Order
<1>8. Probing'
  BY <1>1 DEF Probing, Searching
<1>9. Counts'
  BY <1>1, <1>2 DEF Counts, IInv
<1> QED BY <1>4, <1>5, <1>6, <1>7, <1>8, <1>9 DEF IInv

LEMMA StutterKeeps ==
  ASSUME IInv, UNCHANGED vars PROVE IInv'
<1>1. /\ hash' = hash /\ shift' = shift /\ slots' = slots /\ nelements' = nelements
      /\ old' = old /\ next' = next /\ call' = call /\ answer' = answer /\ pc' = pc
      /\ hand' = hand /\ pos' = pos /\ elemdistance' = elemdistance
  BY DEF vars
<1>2. N' = N /\ Homes' = Homes
  BY <1>1, SameTable
<1>3. Types' /\ Control' /\ Keys'
  BY <1>1, <1>2 DEF Types, Control, Keys, IInv
<1>4. Order' /\ Probing' /\ Counts'
  BY <1>1, <1>2 DEF Order, Probing, Counts, IInv
<1> QED BY <1>3, <1>4 DEF IInv

-------------------------------------------------------------------------------
(* Every step keeps the invariant: from the slots of the table and what is  *)
(* left of the old one to the way to the next place.                        *)
THEOREM Inductive ==
  Spec => []IInv
<1>1. ASSUME IInv, [Next]_vars PROVE IInv'
  <2>1. CASE Internal
    <3>1. CASE LoadIsFine
      BY <1>1, <3>1, LoadIsFineKeeps
    <3>2. CASE Rebuild
      BY <1>1, <3>2, RebuildKeeps
    <3>3. CASE Reinsert
      BY <1>1, <3>3, ReinsertKeeps
    <3>4. CASE Rebuilt
      BY <1>1, <3>4, RebuiltKeeps
    <3>5. CASE Place
      BY <1>1, <3>5, PlaceKeeps
    <3>6. CASE Override
      BY <1>1, <3>6, OverrideKeeps
    <3>7. CASE GoOn
      BY <1>1, <3>7, GoOnKeeps
    <3>8. CASE Swap
      BY <1>1, <3>8, SwapKeeps
    <3>9. CASE NotFound
      BY <1>1, <3>9, NotFoundKeeps
    <3>10. CASE LookOn
      BY <1>1, <3>10, LookOnKeeps
    <3>11. CASE Found
      BY <1>1, <3>11, FoundKeeps
    <3>12. CASE MoveUp
      BY <1>1, <3>12, MoveUpKeeps
    <3>13. CASE Moved
      BY <1>1, <3>13, MovedKeeps
    <3>14. CASE RemoveAll
      BY <1>1, <3>14, RemoveAllKeeps
    <3>15. CASE Return
      BY <1>1, <3>15, ReturnKeeps
    <3> QED BY <2>1, <3>1, <3>2, <3>3, <3>4, <3>5, <3>6, <3>7, <3>8, <3>9, <3>10, <3>11,
               <3>12, <3>13, <3>14, <3>15 DEF Internal
  <2>2. CASE Call
    BY <1>1, <2>2, CallKeeps
  <2>3. CASE UNCHANGED vars
    BY <1>1, <2>3, StutterKeeps
  <2> QED BY <1>1, <2>1, <2>2, <2>3 DEF Next
<1> QED BY <1>1, Initially, PTL DEF Spec

-------------------------------------------------------------------------------
(***************************************************************************)
(* What the runs check of the table, for tables of any size.               *)
(***************************************************************************)
(* nelements is the number of elements, and no origin is in the table twice *)
(* (hashmapInsert, SCIPhashmapRemove).                                      *)
THEOREM TableCount ==
  Spec => []CountExact
<1>1. ASSUME IInv PROVE CountExact
  <2>1. Occupied = Used(slots)
    BY <1>1, TableFacts
  <2> QED BY <1>1, <2>1 DEF CountExact, IInv, Counts, Keys, Once
<1> QED BY <1>1, Inductive, PTL

(* The types, and that there are no more elements than origins.             *)
THEOREM TableTypes ==
  Spec => []TypeOK
<1>1. ASSUME IInv PROVE TypeOK
  <2>1. /\ Table(slots, Homes, N) /\ DOMAIN slots = 0 .. N - 1 /\ nelements \in Nat
        /\ Once(slots) /\ nelements = Cardinality(Used(slots))
    BY <1>1, TableFacts DEF IInv, Keys, Counts
  <2>2. nelements <= Cardinality(Origins)
    BY <2>1, AsManyAsKeys
  <2>3. Cardinality(Origins) \in Nat
    BY OriginAssumption, FS_CardinalityType
  <2>4. nelements \in 0 .. Cardinality(Origins)
    BY <2>1, <2>2, <2>3
  <2> QED BY <1>1, <2>1, <2>4 DEF TypeOK, IInv, Types, N
<1> QED BY <1>1, Inductive, PTL

(* Between two calls the table is in the order that lets hashmapLookup give *)
(* up early, whatever has been inserted and removed before.                 *)
THEOREM TableInOrder ==
  Spec => []RobinHood
<1>1. ASSUME IInv PROVE RobinHood
  <2>1. SUFFICES ASSUME pc = "idle", NEW p \in Occupied, ElemDistance(p) > 0
                 PROVE  /\ Prv(p, N) \in Occupied
                        /\ ElemDistance(p) <= ElemDistance(Prv(p, N)) + 1
    BY DEF RobinHood, Prv, N
  <2>2. /\ Occupied = Used(slots)
        /\ \A q \in Used(slots) : ElemDistance(q) = Far(slots, Homes, N)[q]
    BY <1>1, TableFacts
  <2>3. Sorted(slots, Homes, N)
    BY <1>1, <2>1 DEF IInv, Order
  <2>4. InOrder(Used(slots), Far(slots, Homes, N), N, p)
    BY <2>1, <2>2, <2>3 DEF Sorted, Reached
  <2>5. Far(slots, Homes, N)[p] > 0
    BY <2>1, <2>2
  <2>6. /\ Prv(p, N) \in Used(slots)
        /\ Far(slots, Homes, N)[p] <= Far(slots, Homes, N)[Prv(p, N)] + 1
    BY <2>4, <2>5 DEF InOrder
  <2> QED BY <2>1, <2>2, <2>6
<1> QED BY <1>1, Inductive, PTL

(* An empty slot is left to stop at, in the middle of a call and of a       *)
(* rebuild too: hashmapCheckLoad has seen to it in time.                    *)
THEOREM SlotLeft ==
  Spec => []NeverFull
<1>1. ASSUME IInv PROVE NeverFull
  <2>1. Occupied = Used(slots) /\ DOMAIN slots = 0 .. N - 1 /\ Used(slots) # 0 .. N - 1
    BY <1>1, TableFacts, NotFull
  <2> QED BY <2>1 DEF NeverFull
<1> QED BY <1>1, Inductive, PTL

(* hashmapInsert counts the distance of the element in hand right, however  *)
(* often the elements have changed and wherever the table ends.             *)
THEOREM TableDistance ==
  Spec => []DistanceExact
<1>1. ASSUME IInv PROVE DistanceExact
  <2>1. SUFFICES ASSUME Inserting PROVE elemdistance = Dist(pos, Home(hand[1], shift), N)
    BY DEF DistanceExact, Dist, N
  <2>2. hand[1] \in Origins /\ elemdistance = Dist(pos, Homes[hand[1]], N)
    BY <1>1, <2>1, InHand
  <2>3. Homes[hand[1]] = Home(hand[1], shift)
    BY <1>1, <2>2, TableFacts
  <2> QED BY <2>2, <2>3
<1> QED BY <1>1, Inductive, PTL

-------------------------------------------------------------------------------
(***************************************************************************)
(* The map that the elements make.                                         *)
(***************************************************************************)
Distinct(S) == \A e \in S, f \in S : e[1] = f[1] => e = f

MapOf(S) == [k \in {e[1] : e \in S} |-> (CHOOSE e \in S : e[1] = k)[2]]

Stored(T) == {T[p] : p \in Used(T)}

(* The elements in the slots T, in what is left of the slots o, and e if h. *)
All(T, o, m, h, e) ==
  Stored(T) \cup {o[i] : i \in Rest(o, m)} \cup {f \in {e} : h}

LEMMA MapOfElements ==
  ASSUME NEW S, Distinct(S)
  PROVE  /\ DOMAIN MapOf(S) = {e[1] : e \in S}
         /\ \A e \in S : MapOf(S)[e[1]] = e[2]
         /\ MapOf(S) = [k \in {e[1] : e \in S} |-> MapOf(S)[k]]
<1>1. DOMAIN MapOf(S) = {e[1] : e \in S}
      /\ MapOf(S) = [k \in {e[1] : e \in S} |-> MapOf(S)[k]]
  BY DEF MapOf
<1>2. ASSUME NEW e \in S PROVE MapOf(S)[e[1]] = e[2]
  <2>1. MapOf(S)[e[1]] = (CHOOSE f \in S : f[1] = e[1])[2]
    BY DEF MapOf
  <2> DEFINE c == CHOOSE f \in S : f[1] = e[1]
  <2>2. c \in S /\ c[1] = e[1]
    OBVIOUS
  <2> HIDE DEF c
  <2>3. c = e
    BY <2>2 DEF Distinct
  <2> QED BY <2>1, <2>3 DEF c
<1> QED BY <1>1, <1>2

(* One key is given an image. *)
LEMMA MapWith ==
  ASSUME NEW S, Distinct(S), NEW U, Distinct(U), NEW k, NEW v,
         <<k, v>> \in U,
         \A e \in S : e[1] # k => e \in U, \A e \in U : e[1] # k => e \in S
  PROVE  MapOf(U) = [o \in DOMAIN MapOf(S) \cup {k} |-> IF o = k THEN v ELSE MapOf(S)[o]]
<1> DEFINE ks == {e[1] : e \in S}
           ku == {e[1] : e \in U}
           g  == [o \in ks \cup {k} |-> IF o = k THEN v ELSE MapOf(S)[o]]
<1>1. /\ DOMAIN MapOf(S) = ks /\ \A e \in S : MapOf(S)[e[1]] = e[2]
  BY MapOfElements
<1>2. /\ DOMAIN MapOf(U) = ku /\ \A e \in U : MapOf(U)[e[1]] = e[2]
      /\ MapOf(U) = [o \in ku |-> MapOf(U)[o]]
  BY MapOfElements
<1>3. ku = ks \cup {k}
  <2>1. k \in ku
    <3>1. <<k, v>>[1] = k
      OBVIOUS
    <3> QED BY <3>1
  <2>2. \A o \in ku : o \in ks \cup {k}
    OBVIOUS
  <2>3. \A o \in ks : o \in ku
    BY <2>1
  <2> QED BY <2>1, <2>2, <2>3
<1>4. ASSUME NEW o \in ku PROVE MapOf(U)[o] = IF o = k THEN v ELSE MapOf(S)[o]
  <2>1. CASE o = k
    <3>1. <<k, v>>[1] = k /\ <<k, v>>[2] = v
      OBVIOUS
    <3> QED BY <1>2, <2>1, <3>1
  <2>2. CASE o # k
    <3>1. PICK e \in U : e[1] = o
      OBVIOUS
    <3>2. e \in S
      BY <2>2, <3>1
    <3> QED BY <1>1, <1>2, <2>2, <3>1, <3>2
  <2> QED BY <2>1, <2>2
<1> HIDE DEF ks, ku
<1> QED BY <1>1, <1>2, <1>3, <1>4

(* One key is taken out. *)
LEMMA MapWithout ==
  ASSUME NEW S, Distinct(S), NEW U, NEW k, U = {e \in S : e[1] # k}
  PROVE  Distinct(U) /\ MapOf(U) = Restrict(MapOf(S), DOMAIN MapOf(S) \ {k})
<1> DEFINE ks == {e[1] : e \in S}
           ku == {e[1] : e \in U}
<1>0. Distinct(U)
  BY DEF Distinct
<1>1. /\ DOMAIN MapOf(S) = ks /\ \A e \in S : MapOf(S)[e[1]] = e[2]
  BY MapOfElements
<1>2. /\ DOMAIN MapOf(U) = ku /\ \A e \in U : MapOf(U)[e[1]] = e[2]
      /\ MapOf(U) = [o \in ku |-> MapOf(U)[o]]
  BY <1>0, MapOfElements
<1>3. ku = ks \ {k}
  OBVIOUS
<1>4. ASSUME NEW o \in ku PROVE MapOf(U)[o] = MapOf(S)[o]
  <2>1. PICK e \in U : e[1] = o
    OBVIOUS
  <2>2. e \in S
    BY <2>1
  <2> QED BY <1>1, <1>2, <2>1, <2>2
<1> HIDE DEF ks, ku
<1> QED BY <1>0, <1>1, <1>2, <1>3, <1>4 DEF Restrict

LEMMA MapOfNone ==
  MapOf({}) = << >>
<1>1. {e[1] : e \in {}} = {}
  OBVIOUS
<1> QED BY <1>1 DEF MapOf

(* The elements wherever they are, before and after a step. *)
LEMMA EntriesAre ==
  /\ Entries = All(slots, old, next, Holding(pc, answer), hand)
  /\ Entries' = All(slots', old', next', Holding(pc', answer'), hand')
  /\ Contents = MapOf(Entries) /\ Contents' = MapOf(Entries')
<1>1. Entries = All(slots, old, next, Holding(pc, answer), hand)
  BY DEF Entries, All, Stored, Occupied, Used, Left, Rest, Holding
<1>2. Entries' = All(slots', old', next', Holding(pc', answer'), hand')
  BY DEF Entries, All, Stored, Occupied, Used, Left, Rest, Holding
<1>3. Contents = MapOf(Entries) /\ Contents' = MapOf(Entries')
  BY DEF Contents, MapOf
<1> QED BY <1>1, <1>2, <1>3

LEMMA DistinctElements ==
  ASSUME NEW T, Once(T), NEW o, NEW m, NEW h \in BOOLEAN, NEW e,
         \A i, j \in Rest(o, m) : o[i][1] = o[j][1] => i = j,
         \A i \in Rest(o, m), p \in Used(T) : o[i][1] # T[p][1],
         h => (\A p \in Used(T) : T[p][1] # e[1]) /\ (\A i \in Rest(o, m) : o[i][1] # e[1])
  PROVE  Distinct(All(T, o, m, h, e))
<1> SUFFICES ASSUME NEW a \in All(T, o, m, h, e), NEW b \in All(T, o, m, h, e), a[1] = b[1]
             PROVE  a = b
  BY DEF Distinct
<1> DEFINE In(f) == \/ \E p \in Used(T) : f = T[p]
                    \/ \E i \in Rest(o, m) : f = o[i]
                    \/ h /\ f = e
<1>1. In(a) /\ In(b)
  BY DEF All, Stored
<1>2. CASE \E p \in Used(T) : a = T[p]
  BY <1>1, <1>2 DEF Once
<1>3. CASE \E i \in Rest(o, m) : a = o[i]
  BY <1>1, <1>3
<1>4. CASE h /\ a = e
  BY <1>1, <1>4
<1> QED BY <1>1, <1>2, <1>3, <1>4

LEMMA EntriesDistinct ==
  ASSUME IInv, IInv'
  PROVE  Distinct(Entries) /\ Distinct(Entries')
<1>1. Holding(pc, answer) \in BOOLEAN /\ Holding(pc', answer') \in BOOLEAN
  BY DEF Holding
<1>2. Distinct(Entries)
  <2>1. Keys
    BY DEF IInv
  <2> QED BY <1>1, <2>1, EntriesAre, DistinctElements DEF Keys
<1>3. Distinct(Entries')
  <2>1. Keys'
    BY DEF IInv
  <2> QED BY <1>1, <2>1, EntriesAre, DistinctElements DEF Keys
<1> QED BY <1>2, <1>3

-------------------------------------------------------------------------------
(***************************************************************************)
(* Every step is one of the map, or leaves it as it is.                    *)
(***************************************************************************)
Shows == [Abstract!AbsNext]_(Abstract!absvars)

LEMMA Unseen ==
  ASSUME Entries' = Entries, call' = call, answer' = answer PROVE Shows
<1>1. Contents' = Contents
  BY EntriesAre
<1> QED BY <1>1 DEF Shows, Abstract!absvars

(* Neither what is left of the old table nor what is in hand counts.        *)
LEMMA OnlySlots ==
  ASSUME NEW T, NEW o, NEW m, NEW e, Rest(o, m) = {}
  PROVE  All(T, o, m, FALSE, e) = Stored(T)
BY DEF All

LEMMA NothingLeftOf ==
  \A m : Rest(<< >>, m) = {}
<1>1. DOMAIN << >> = {}
  OBVIOUS
<1> QED BY <1>1 DEF Rest

LEMMA CallShows ==
  ASSUME IInv, IInv', Call PROVE Shows
<1>1. /\ pc = "idle" /\ call' \in Calls /\ pc' \in {"load", "lookup", "clear"}
      /\ slots' = slots /\ old' = old /\ next' = next /\ answer' = answer /\ hand' = hand
  BY DEF Call
<1>2. Holding(pc', answer') = FALSE /\ Holding(pc, answer) = FALSE
  BY <1>1 DEF Holding
<1>3. Entries' = Entries
  BY <1>1, <1>2, EntriesAre
<1>4. Contents' = Contents
  BY <1>3, EntriesAre
<1>5. call = NoCall
  BY <1>1 DEF IInv, Control
<1>6. call' \in Abstract!Calls
  BY <1>1 DEF Calls, Abstract!Calls
<1>7. Abstract!Start
  BY <1>1, <1>4, <1>5, <1>6 DEF Abstract!Start
<1> QED BY <1>7 DEF Shows, Abstract!AbsNext

LEMMA ReturnShows ==
  ASSUME IInv, IInv', Return PROVE Shows
<1>1. /\ pc = "return" /\ pc' = "idle" /\ call' = NoCall /\ answer' = NoAnswer
      /\ slots' = slots /\ old' = old /\ next' = next
  BY DEF Return
<1>2. Holding(pc', answer') = FALSE /\ Holding(pc, answer) = FALSE
  BY <1>1 DEF Holding
<1>3. old = << >> /\ answer # NoAnswer
  BY <1>1 DEF IInv, Control
<1>4. Rest(old, next) = {}
  BY <1>3, NothingLeftOf
<1>5. Entries = Stored(slots) /\ Entries' = Stored(slots)
  BY <1>1, <1>2, <1>4, EntriesAre, OnlySlots
<1>6. Contents' = Contents
  BY <1>5, EntriesAre
<1>7. Abstract!AbsReturn
  BY <1>1, <1>3, <1>6 DEF Abstract!AbsReturn
<1> QED BY <1>7 DEF Shows, Abstract!AbsNext

LEMMA RemoveAllShows ==
  ASSUME IInv, IInv', RemoveAll PROVE Shows
<1>1. /\ pc = "clear" /\ slots' = EmptyTable(shift) /\ answer' = Okay /\ pc' = "return"
      /\ old' = old /\ next' = next /\ call' = call
  BY DEF RemoveAll, Settle
<1>2. Holding(pc', answer') = FALSE
  BY <1>1 DEF Holding
<1>3. old = << >> /\ answer = NoAnswer /\ call.op = "RemoveAll" /\ call # NoCall
  BY <1>1 DEF IInv, Control
<1>4. Rest(old, next) = {}
  BY <1>3, NothingLeftOf
<1>5. Used(slots') = {}
  BY <1>1 DEF EmptyTable, Used
<1>6. Entries' = {}
  <2>1. Entries' = Stored(slots')
    BY <1>1, <1>2, <1>4, EntriesAre, OnlySlots
  <2> QED BY <1>5, <2>1 DEF Stored
<1>7. Contents' = << >>
  BY <1>6, EntriesAre, MapOfNone
<1>8. Abstract!Effect
  BY <1>1, <1>3, <1>7 DEF Abstract!Effect, Abstract!DoRemoveAll
<1> QED BY <1>8 DEF Shows, Abstract!AbsNext

LEMMA LoadIsFineShows ==
  ASSUME IInv, IInv', LoadIsFine PROVE Shows
<1>1. /\ pc = "load" /\ pc' = "insert" /\ slots' = slots /\ old' = old /\ next' = next
      /\ call' = call /\ answer' = answer
  BY DEF LoadIsFine
<1>2. old = << >> /\ answer = NoAnswer
  BY <1>1 DEF IInv, Control
<1>3. Holding(pc', answer') = FALSE /\ Holding(pc, answer) = FALSE
  BY <1>1, <1>2, Different DEF Holding
<1>4. Rest(old, next) = {}
  BY <1>2, NothingLeftOf
<1>5. Entries = Stored(slots) /\ Entries' = Stored(slots)
  BY <1>1, <1>3, <1>4, EntriesAre, OnlySlots
<1> QED BY <1>1, <1>5, Unseen

LEMMA RebuildShows ==
  ASSUME IInv, IInv', Rebuild PROVE Shows
<1>1. /\ pc = "load" /\ pc' = "rebuild" /\ slots' = EmptyTable(shift - 1)
      /\ old' = slots /\ next' = 0 /\ call' = call /\ answer' = answer
  BY DEF Rebuild
<1>2. old = << >>
  BY <1>1 DEF IInv, Control
<1>3. Holding(pc', answer') = FALSE /\ Holding(pc, answer) = FALSE
  BY <1>1 DEF Holding
<1>4. Rest(old, next) = {}
  BY <1>2, NothingLeftOf
<1>5. Entries = Stored(slots)
  BY <1>3, <1>4, EntriesAre, OnlySlots
<1>6. Rest(slots, 0) = Used(slots)
  <2>1. N \in Nat /\ DOMAIN slots = 0 .. N - 1
    BY TableFacts
  <2> QED BY <2>1 DEF Rest, Used
<1>7. Stored(slots') = {}
  BY <1>1 DEF EmptyTable, Used, Stored
<1>8. Entries' = {slots[i] : i \in Rest(slots, 0)}
  <2>1. Entries' = All(slots', slots, 0, FALSE, hand')
    BY <1>1, <1>3, EntriesAre
  <2> QED BY <1>7, <2>1 DEF All
<1>9. Entries' = Entries
  BY <1>5, <1>6, <1>8 DEF Stored
<1> QED BY <1>1, <1>9, Unseen

LEMMA ReinsertShows ==
  ASSUME IInv, IInv', Reinsert PROVE Shows
<1> DEFINE i == Min(Left)
<1>1. /\ pc = "rebuild" /\ pc' = "reinsert" /\ Left # {} /\ hand' = old[i] /\ next' = i + 1
      /\ slots' = slots /\ old' = old /\ call' = call /\ answer' = answer
  BY DEF Reinsert, TakeInHand
<1>2. Left = Rest(old, next) /\ Left \subseteq Nat
  BY TableFacts DEF IInv, Types, Left
<1>3. i \in Rest(old, next) /\ \A j \in Rest(old, next) : i <= j
  BY <1>1, <1>2, MinIsLeast
<1> HIDE DEF i
<1>4. Rest(old, i + 1) = Rest(old, next) \ {i}
  BY <1>3 DEF Rest, IInv, Types
<1>5. Holding(pc', answer') = TRUE /\ Holding(pc, answer) = FALSE
  BY <1>1 DEF Holding
<1>6. /\ Entries = All(slots, old, next, FALSE, hand)
      /\ Entries' = All(slots, old, i + 1, TRUE, old[i])
  BY <1>1, <1>5, EntriesAre
<1>7. Entries' = Entries
  BY <1>3, <1>4, <1>6 DEF All
<1> QED BY <1>1, <1>7, Unseen

LEMMA RebuiltShows ==
  ASSUME IInv, IInv', Rebuilt PROVE Shows
<1>1. /\ pc = "rebuild" /\ pc' = "insert" /\ Left = {} /\ old' = << >> /\ next' = 0
      /\ slots' = slots /\ call' = call /\ answer' = answer
  BY DEF Rebuilt
<1>2. answer = NoAnswer /\ Rest(old, next) = {}
  BY <1>1, TableFacts DEF IInv, Control
<1>3. Holding(pc', answer') = FALSE /\ Holding(pc, answer) = FALSE
  BY <1>1, <1>2, Different DEF Holding
<1>4. Rest(old', next') = {}
  BY <1>1, NothingLeftOf
<1>5. Entries = Stored(slots) /\ Entries' = Stored(slots)
  BY <1>1, <1>2, <1>3, <1>4, EntriesAre, OnlySlots
<1> QED BY <1>1, <1>5, Unseen

LEMMA MovesShow ==
  ASSUME IInv, IInv', GoOn \/ LookOn \/ Moved PROVE Shows
<1>1. /\ slots' = slots /\ old' = old /\ next' = next /\ call' = call /\ answer' = answer
      /\ hand' = hand
  BY DEF GoOn, LookOn, Moved
<1>2. Holding(pc', answer') = Holding(pc, answer)
  BY DEF GoOn, LookOn, Moved, Holding
<1>3. Entries' = Entries
  BY <1>1, <1>2, EntriesAre
<1> QED BY <1>1, <1>3, Unseen

LEMMA MoveUpShows ==
  ASSUME IInv, IInv', MoveUp PROVE Shows
<1> DEFINE x == Nxt(pos, N)
<1>1. /\ pc = "move" /\ ~EndsChain(NextPos(pos)) /\ slots' = Shift(slots, pos, NextPos(pos))
      /\ old' = old /\ next' = next /\ call' = call /\ answer' = answer /\ pc' = pc
  BY DEF MoveUp, Shift
<1>2. /\ Table(slots, Homes, N) /\ pos \in 0 .. N - 1 /\ Holed(slots, Homes, N, pos)
      /\ slots' = Shift(slots, pos, x) /\ pos \notin Used(slots)
      /\ x \in Used(slots) /\ Far(slots, Homes, N)[x] # 0 /\ Rest(old, next) = {}
  BY <1>1, Hole
<1> HIDE DEF x
<1>3. /\ Used(slots') = (Used(slots) \ {x}) \cup {pos} /\ slots'[pos] = slots[x]
      /\ \A q \in Used(slots) \ {x} : slots'[q] = slots[q]
  BY <1>2, HoleMoves DEF x
<1>4. Stored(slots') = Stored(slots)
  <2>1. \A q \in Used(slots') : slots'[q] \in Stored(slots)
    BY <1>2, <1>3 DEF Stored
  <2>2. \A q \in Used(slots) : slots[q] \in Stored(slots')
    BY <1>2, <1>3 DEF Stored
  <2> QED BY <2>1, <2>2 DEF Stored
<1>5. Holding(pc', answer') = FALSE /\ Holding(pc, answer) = FALSE
  BY <1>1 DEF Holding
<1>6. Entries = Stored(slots) /\ Entries' = Stored(slots')
  BY <1>1, <1>2, <1>5, EntriesAre, OnlySlots
<1> QED BY <1>1, <1>4, <1>6, Unseen

(* The element in hand is entered for the first time. *)
LEMMA Entered ==
  ASSUME IInv, IInv', pc = "insert", answer = NoAnswer, answer' = Okay, call' = call,
         hand \in Entries',
         \A e \in Entries : e[1] # hand[1] => e \in Entries',
         \A e \in Entries' : e[1] # hand[1] => e \in Entries,
         call.op = "SetImage" \/ \A e \in Entries : e[1] # hand[1]
  PROVE  Shows
<1>1. /\ hand = <<call.origin, call.image>> /\ call.op \in {"Insert", "SetImage"}
      /\ call # NoCall /\ hand[1] = call.origin
  BY DEF IInv, Control
<1>2. Distinct(Entries) /\ Distinct(Entries')
  BY EntriesDistinct
<1>3. Contents = MapOf(Entries) /\ Contents' = MapOf(Entries')
  BY EntriesAre
<1>4. MapOf(Entries') = [o \in DOMAIN MapOf(Entries) \cup {call.origin} |->
                           IF o = call.origin THEN call.image ELSE MapOf(Entries)[o]]
  <2>1. /\ <<call.origin, call.image>> \in Entries'
        /\ \A e \in Entries : e[1] # call.origin => e \in Entries'
        /\ \A e \in Entries' : e[1] # call.origin => e \in Entries
    BY <1>1
  <2> QED BY <1>2, <2>1, MapWith
<1>5. Contents' = Abstract!With(call.origin, call.image)
  BY <1>3, <1>4 DEF Abstract!With
<1>6. CASE call.op = "SetImage"
  <2>1. Abstract!DoSetImage
    BY <1>5, <1>6 DEF Abstract!DoSetImage
  <2>2. Abstract!Effect
    BY <1>1, <2>1 DEF Abstract!Effect
  <2> QED BY <2>2 DEF Shows, Abstract!AbsNext
<1>7. CASE call.op # "SetImage"
  <2>1. call.op = "Insert" /\ \A e \in Entries : e[1] # call.origin
    BY <1>1, <1>7
  <2>2. DOMAIN MapOf(Entries) = {e[1] : e \in Entries}
    BY <1>2, MapOfElements
  <2>3. call.origin \notin DOMAIN Contents
    BY <1>3, <2>1, <2>2
  <2>4. Abstract!DoInsert
    BY <1>5, <2>1, <2>3 DEF Abstract!DoInsert, Abstract!Known
  <2>5. Abstract!Effect
    BY <1>1, <2>4 DEF Abstract!Effect
  <2> QED BY <2>5 DEF Shows, Abstract!AbsNext
<1> QED BY <1>6, <1>7

(* What stands in the slots when one is assigned. *)
LEMMA StoredPut ==
  ASSUME NEW n, NEW hm, NEW T, Table(T, hm, n), NEW p \in 0 .. n - 1, NEW e \in Elements,
         NEW U, U = Put(T, p, e)
  PROVE  /\ e \in Stored(U) /\ Stored(U) \subseteq Stored(T) \cup {e}
         /\ p \notin Used(T) => Stored(U) = Stored(T) \cup {e}
         /\ p \in Used(T) => T[p] \in Stored(T) /\ Stored(T) \subseteq Stored(U) \cup {T[p]}
<1>1. /\ Used(U) = Used(T) \cup {p} /\ U[p] = e
      /\ \A q \in 0 .. n - 1 : q # p => U[q] = T[q]
  BY OneSlot
<1>2. \A q \in Used(T) : q \in 0 .. n - 1
  BY UsedSlots
<1>3. e \in Stored(U) /\ Stored(U) \subseteq Stored(T) \cup {e}
  BY <1>1, <1>2 DEF Stored
<1>4. \A q \in Used(T) : q # p => T[q] \in Stored(U)
  BY <1>1, <1>2 DEF Stored
<1>5. p \notin Used(T) => Stored(U) = Stored(T) \cup {e}
  BY <1>3, <1>4 DEF Stored
<1>6. p \in Used(T) => T[p] \in Stored(T) /\ Stored(T) \subseteq Stored(U) \cup {T[p]}
  BY <1>4 DEF Stored
<1> QED BY <1>3, <1>5, <1>6

LEMMA PlaceShows ==
  ASSUME IInv, IInv', Place PROVE Shows
<1>1. /\ Inserting /\ slots[pos] = Empty /\ slots' = Put(slots, pos, hand)
      /\ old' = old /\ next' = next /\ call' = call /\ hand' = hand
      /\ pc = "insert" => answer' = Okay /\ pc' = "return"
      /\ pc = "reinsert" => answer' = answer /\ pc' = "rebuild"
  BY DEF Place, Put, Settle
<1>2. /\ Table(slots, Homes, N) /\ pos \in 0 .. N - 1 /\ pos \notin Used(slots)
      /\ hand \in Elements /\ pc \in {"insert", "reinsert"}
      /\ pc = "insert" => Rest(old, next) = {}
  BY <1>1, TableFacts, InHand
<1>3. Stored(slots') = Stored(slots) \cup {hand}
  BY <1>1, <1>2, StoredPut
<1>4. Holding(pc', answer') = FALSE
  BY <1>1, <1>2 DEF Holding
<1>5. Entries' = All(slots', old, next, FALSE, hand)
  BY <1>1, <1>4, EntriesAre
<1>6. CASE Holding(pc, answer)
  <2>1. Holding(pc, answer) = TRUE
    BY <1>6 DEF Holding
  <2>2. Entries = All(slots, old, next, TRUE, hand)
    BY <2>1, EntriesAre
  <2>3. Entries' = Entries
    BY <1>3, <1>5, <2>2 DEF All
  <2>4. answer' = answer
    BY <1>1, <1>2, <1>6 DEF Holding
  <2> QED BY <1>1, <2>3, <2>4, Unseen
<1>7. CASE ~Holding(pc, answer)
  <2>1. pc = "insert" /\ answer = NoAnswer /\ Holding(pc, answer) = FALSE
    BY <1>1, <1>7, InHand DEF Holding
  <2>2. Entries = Stored(slots) /\ Entries' = Stored(slots')
    BY <1>2, <1>5, <2>1, EntriesAre, OnlySlots
  <2>3. \A q \in Used(slots) : slots[q][1] # hand[1]
    BY <1>1, <1>2, KeyIsNew
  <2>4. \A e \in Entries : e[1] # hand[1]
    BY <2>2, <2>3 DEF Stored
  <2>5. /\ hand \in Entries' /\ \A e \in Entries : e \in Entries'
        /\ \A e \in Entries' : e[1] # hand[1] => e \in Entries
    BY <1>3, <2>2
  <2> QED BY <1>1, <2>1, <2>4, <2>5, Entered
<1> QED BY <1>6, <1>7

LEMMA SwapShows ==
  ASSUME IInv, IInv', Swap PROVE Shows
<1>1. /\ Inserting /\ slots[pos] # Empty /\ ElemDistance(pos) < elemdistance
      /\ slots' = Put(slots, pos, hand) /\ hand' = slots[pos]
      /\ answer' = (IF pc = "insert" THEN Okay ELSE answer)
      /\ old' = old /\ next' = next /\ call' = call /\ pc' = pc
  BY DEF Swap, Put
<1>2. /\ Table(slots, Homes, N) /\ pos \in 0 .. N - 1 /\ pos \in Used(slots)
      /\ hand \in Elements /\ pc \in {"insert", "reinsert"}
      /\ pc = "insert" => Rest(old, next) = {}
      /\ Far(slots, Homes, N)[pos] < elemdistance
  BY <1>1, TableFacts, InHand
<1>3. /\ hand \in Stored(slots') /\ Stored(slots') \subseteq Stored(slots) \cup {hand}
      /\ slots[pos] \in Stored(slots)
      /\ Stored(slots) \subseteq Stored(slots') \cup {slots[pos]}
  BY <1>1, <1>2, StoredPut
<1>4. Stored(slots') \cup {slots[pos]} = Stored(slots) \cup {hand}
  BY <1>3
<1>5. Holding(pc', answer') = TRUE
  BY <1>1, <1>2 DEF Holding
<1>6. Entries' = All(slots', old, next, TRUE, slots[pos])
  BY <1>1, <1>5, EntriesAre
<1>7. Entries' = All(slots, old, next, TRUE, hand)
  BY <1>4, <1>6 DEF All
<1>8. CASE Holding(pc, answer)
  <2>1. Holding(pc, answer) = TRUE
    BY <1>8 DEF Holding
  <2>2. Entries = All(slots, old, next, TRUE, hand)
    BY <2>1, EntriesAre
  <2>3. answer' = answer
    BY <1>1, <1>2, <1>8 DEF Holding
  <2> QED BY <1>1, <1>7, <2>2, <2>3, Unseen
<1>9. CASE ~Holding(pc, answer)
  <2>1. pc = "insert" /\ answer = NoAnswer /\ Holding(pc, answer) = FALSE
    BY <1>1, <1>9, InHand DEF Holding
  <2>2. Entries = Stored(slots)
    BY <1>2, <2>1, EntriesAre, OnlySlots
  <2>3. Entries' = Stored(slots) \cup {hand}
    BY <1>2, <1>7, <2>1 DEF All
  <2>4. \A q \in Used(slots) : slots[q][1] # hand[1]
    BY <1>1, <1>2, KeyIsNew
  <2>5. \A e \in Entries : e[1] # hand[1]
    BY <2>2, <2>4 DEF Stored
  <2>6. /\ hand \in Entries' /\ \A e \in Entries : e \in Entries'
        /\ \A e \in Entries' : e[1] # hand[1] => e \in Entries
    BY <2>2, <2>3
  <2> QED BY <1>1, <2>1, <2>5, <2>6, Entered
<1> QED BY <1>8, <1>9

LEMMA OverrideShows ==
  ASSUME IInv, IInv', Override PROVE Shows
<1>1. /\ Inserting /\ slots[pos] # Empty /\ slots[pos][1] = hand[1]
      /\ old' = old /\ next' = next /\ call' = call /\ hand' = hand /\ pc' = "return"
      /\ \/ call.op = "SetImage" /\ slots' = Put(slots, pos, hand) /\ answer' = Okay
         \/ call.op # "SetImage" /\ slots' = slots /\ answer' = KeyExists
  BY DEF Override, Matches, Settle, Put
<1>2. /\ Table(slots, Homes, N) /\ pos \in 0 .. N - 1 /\ pos \in Used(slots)
      /\ hand \in Elements
  BY <1>1, TableFacts, InHand
<1>3. ~Holding(pc, answer)
  BY <1>1, <1>2 DEF IInv, Keys
<1>4. pc = "insert" /\ answer = NoAnswer /\ Rest(old, next) = {} /\ call.origin = hand[1]
  BY <1>1, <1>3, InHand
<1>5. Holding(pc, answer) = FALSE /\ Holding(pc', answer') = FALSE
  BY <1>1, <1>3 DEF Holding
<1>6. Entries = Stored(slots) /\ Entries' = Stored(slots')
  BY <1>1, <1>4, <1>5, EntriesAre, OnlySlots
<1>7. CASE call.op = "SetImage" /\ slots' = Put(slots, pos, hand) /\ answer' = Okay
  <2>1. /\ hand \in Stored(slots') /\ Stored(slots') \subseteq Stored(slots) \cup {hand}
        /\ Stored(slots) \subseteq Stored(slots') \cup {slots[pos]}
    BY <1>2, <1>7, StoredPut
  <2>2. /\ hand \in Entries' /\ \A e \in Entries : e[1] # hand[1] => e \in Entries'
        /\ \A e \in Entries' : e[1] # hand[1] => e \in Entries
    BY <1>1, <1>6, <2>1
  <2> QED BY <1>1, <1>4, <1>7, <2>2, Entered
<1>8. CASE call.op # "SetImage" /\ slots' = slots /\ answer' = KeyExists
  <2>1. call.op = "Insert" /\ call # NoCall
    BY <1>4, <1>8 DEF IInv, Control
  <2>2. slots[pos] \in Entries
    BY <1>2, <1>6 DEF Stored
  <2>3. Contents = MapOf(Entries) /\ Contents' = MapOf(Entries')
    BY EntriesAre
  <2>4. DOMAIN MapOf(Entries) = {e[1] : e \in Entries}
    BY EntriesDistinct, MapOfElements
  <2>5. call.origin \in DOMAIN Contents
    BY <1>1, <1>4, <2>2, <2>3, <2>4
  <2>6. Contents' = Contents
    BY <1>6, <1>8, <2>3
  <2>7. Abstract!DoInsert
    BY <1>8, <2>1, <2>5, <2>6 DEF Abstract!DoInsert, Abstract!Known
  <2>8. Abstract!Effect
    BY <1>1, <1>4, <2>1, <2>7 DEF Abstract!Effect
  <2> QED BY <2>8 DEF Shows, Abstract!AbsNext
<1> QED BY <1>1, <1>7, <1>8

LEMMA NotFoundShows ==
  ASSUME IInv, IInv', NotFound PROVE Shows
<1>1. /\ pc = "lookup" /\ GivesUp /\ pc' = "return" /\ slots' = slots
      /\ answer' = (IF call.op = "Remove" THEN Okay ELSE Absent)
      /\ old' = old /\ next' = next /\ call' = call
  BY DEF NotFound, Settle
<1>2. /\ call.origin \in Origins /\ pos \in 0 .. N - 1
      /\ elemdistance = Dist(pos, Homes[call.origin], N)
      /\ Sorted(slots, Homes, N) /\ old = << >> /\ answer = NoAnswer
      /\ \A q \in Used(slots) :
           slots[q][1] = call.origin => Far(slots, Homes, N)[q] >= elemdistance
      /\ pos \in Used(slots) => Far(slots, Homes, N)[pos] < elemdistance
  BY <1>1, LookingFor
<1>3. Table(slots, Homes, N)
  BY TableFacts
<1>4. \A q \in Used(slots) : slots[q][1] # call.origin
  BY <1>2, <1>3, NotOverlooked
<1>5. call.op \in {"GetImage", "Remove"} /\ call # NoCall
  BY <1>1 DEF IInv, Control
<1>6. Holding(pc, answer) = FALSE /\ Holding(pc', answer') = FALSE
  BY <1>1 DEF Holding
<1>7. Rest(old, next) = {}
  BY <1>2, NothingLeftOf
<1>8. Entries = Stored(slots) /\ Entries' = Entries
  BY <1>1, <1>6, <1>7, EntriesAre, OnlySlots
<1>9. Contents = MapOf(Entries) /\ Contents' = Contents
  BY <1>8, EntriesAre
<1>10. \A e \in Entries : e[1] # call.origin
  BY <1>4, <1>8 DEF Stored
<1>11. DOMAIN MapOf(Entries) = {e[1] : e \in Entries}
  BY EntriesDistinct, MapOfElements
<1>12. call.origin \notin DOMAIN Contents
  BY <1>9, <1>10, <1>11
<1>13. CASE call.op = "GetImage"
  <2>1. Abstract!DoGetImage
    BY <1>1, <1>9, <1>12, <1>13 DEF Abstract!DoGetImage, Abstract!Known
  <2>2. Abstract!Effect
    BY <1>1, <1>2, <1>5, <2>1 DEF Abstract!Effect
  <2> QED BY <2>2 DEF Shows, Abstract!AbsNext
<1>14. CASE call.op = "Remove"
  <2>1. Entries = {e \in Entries : e[1] # call.origin}
    BY <1>10
  <2>2. MapOf(Entries) = Restrict(MapOf(Entries), DOMAIN MapOf(Entries) \ {call.origin})
    BY <2>1, EntriesDistinct, MapWithout
  <2>3. Abstract!DoRemove
    BY <1>1, <1>9, <1>14, <2>2 DEF Restrict, Abstract!DoRemove, Abstract!Restrict
  <2>4. Abstract!Effect
    BY <1>1, <1>2, <1>5, <2>3 DEF Abstract!Effect
  <2> QED BY <2>4 DEF Shows, Abstract!AbsNext
<1> QED BY <1>5, <1>13, <1>14

LEMMA FoundShows ==
  ASSUME IInv, IInv', Found PROVE Shows
<1>1. /\ pc = "lookup" /\ ~GivesUp /\ slots[pos][1] = call.origin
      /\ old' = old /\ next' = next /\ call' = call
      /\ \/ /\ call.op = "Remove" /\ slots' = Erase(slots, pos)
            /\ answer' = Okay /\ pc' = "move"
         \/ /\ call.op # "Remove" /\ slots' = slots
            /\ answer' = slots[pos][2] /\ pc' = "return"
  BY DEF Found, Settle, Erase
<1>2. /\ pos \in 0 .. N - 1 /\ pos \in Used(slots) /\ old = << >> /\ answer = NoAnswer
  BY <1>1, LookingFor
<1>3. Table(slots, Homes, N) /\ Once(slots)
  BY TableFacts DEF IInv, Keys
<1>4. call.op \in {"GetImage", "Remove"} /\ call # NoCall
  BY <1>1 DEF IInv, Control
<1>5. Holding(pc, answer) = FALSE /\ Holding(pc', answer') = FALSE
  BY <1>1 DEF Holding
<1>6. Rest(old, next) = {}
  BY <1>2, NothingLeftOf
<1>7. Entries = Stored(slots) /\ Entries' = Stored(slots')
  BY <1>1, <1>5, <1>6, EntriesAre, OnlySlots
<1>8. Contents = MapOf(Entries) /\ Contents' = MapOf(Entries')
  BY EntriesAre
<1>9. slots[pos] \in Entries
  BY <1>2, <1>7 DEF Stored
<1>10. Distinct(Entries)
  BY EntriesDistinct
<1>11. CASE /\ call.op = "Remove" /\ slots' = Erase(slots, pos) /\ answer' = Okay
  <2>1. /\ Used(slots') = Used(slots) \ {pos}
        /\ \A q \in Used(slots') : slots'[q] = slots[q]
    BY <1>2, <1>3, <1>11, Erased
  <2>2. Stored(slots') = {e \in Stored(slots) : e[1] # call.origin}
    BY <1>1, <1>2, <1>3, <2>1 DEF Stored, Once
  <2>3. MapOf(Entries') = Restrict(MapOf(Entries), DOMAIN MapOf(Entries) \ {call.origin})
    BY <1>7, <1>10, <2>2, MapWithout
  <2>4. Abstract!DoRemove
    BY <1>8, <1>11, <2>3 DEF Restrict, Abstract!DoRemove, Abstract!Restrict
  <2>5. Abstract!Effect
    BY <1>1, <1>2, <1>4, <2>4 DEF Abstract!Effect
  <2> QED BY <2>5 DEF Shows, Abstract!AbsNext
<1>12. CASE call.op # "Remove" /\ slots' = slots /\ answer' = slots[pos][2]
  <2>1. /\ DOMAIN MapOf(Entries) = {e[1] : e \in Entries}
        /\ \A e \in Entries : MapOf(Entries)[e[1]] = e[2]
    BY <1>10, MapOfElements
  <2>2. call.origin \in DOMAIN Contents /\ Contents[call.origin] = slots[pos][2]
    BY <1>1, <1>8, <1>9, <2>1
  <2>3. Contents' = Contents
    BY <1>7, <1>8, <1>12
  <2>4. Abstract!DoGetImage
    BY <1>4, <1>12, <2>2, <2>3 DEF Abstract!DoGetImage, Abstract!Known
  <2>5. Abstract!Effect
    BY <1>1, <1>2, <1>4, <2>4 DEF Abstract!Effect
  <2> QED BY <2>5 DEF Shows, Abstract!AbsNext
<1> QED BY <1>1, <1>11, <1>12

-------------------------------------------------------------------------------
(* The table does what a partial function does: the call is carried out at  *)
(* once in one of the steps, and no other step can be told from the map or  *)
(* the answer.  (That it is carried out at all is left to the run.)         *)
THEOREM TableIsMap ==
  Spec => Abstract!AbsInit /\ [][Abstract!AbsNext]_(Abstract!absvars)
<1>1. ASSUME Init PROVE Abstract!AbsInit
  <2>1. slots = EmptyTable(FirstShift) /\ old = << >> /\ pc = "idle" /\ next = 0
        /\ call = NoCall /\ answer = NoAnswer
    BY <1>1 DEF Init
  <2>2. Stored(slots) = {}
    BY <2>1 DEF EmptyTable, Used, Stored
  <2>3. Rest(old, next) = {} /\ Holding(pc, answer) = FALSE
    BY <2>1, NothingLeftOf DEF Holding
  <2>4. Entries = {}
    BY <2>2, <2>3, EntriesAre, OnlySlots
  <2>5. Contents = << >>
    BY <2>4, EntriesAre, MapOfNone
  <2> QED BY <2>1, <2>5 DEF Abstract!AbsInit
<1>2. ASSUME IInv, IInv', [Next]_vars PROVE Shows
  <2>1. CASE LoadIsFine
    BY <1>2, <2>1, LoadIsFineShows
  <2>2. CASE Rebuild
    BY <1>2, <2>2, RebuildShows
  <2>3. CASE Reinsert
    BY <1>2, <2>3, ReinsertShows
  <2>4. CASE Rebuilt
    BY <1>2, <2>4, RebuiltShows
  <2>5. CASE Place
    BY <1>2, <2>5, PlaceShows
  <2>6. CASE Override
    BY <1>2, <2>6, OverrideShows
  <2>7. CASE GoOn \/ LookOn \/ Moved
    BY <1>2, <2>7, MovesShow
  <2>8. CASE Swap
    BY <1>2, <2>8, SwapShows
  <2>9. CASE NotFound
    BY <1>2, <2>9, NotFoundShows
  <2>10. CASE Found
    BY <1>2, <2>10, FoundShows
  <2>11. CASE MoveUp
    BY <1>2, <2>11, MoveUpShows
  <2>12. CASE RemoveAll
    BY <1>2, <2>12, RemoveAllShows
  <2>13. CASE Return
    BY <1>2, <2>13, ReturnShows
  <2>14. CASE Call
    BY <1>2, <2>14, CallShows
  <2>15. CASE UNCHANGED vars
    <3>1. /\ slots' = slots /\ old' = old /\ next' = next /\ call' = call
          /\ answer' = answer /\ hand' = hand /\ pc' = pc
      BY <2>15 DEF vars
    <3>2. Entries' = Entries
      BY <3>1, EntriesAre
    <3> QED BY <3>1, <3>2, Unseen
  <2> QED BY <1>2, <2>1, <2>2, <2>3, <2>4, <2>5, <2>6, <2>7, <2>8, <2>9, <2>10, <2>11,
             <2>12, <2>13, <2>14, <2>15 DEF Next, Internal
<1> QED BY <1>1, <1>2, Inductive, PTL DEF Spec, Shows
===============================================================================
