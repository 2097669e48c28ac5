-------------------------- MODULE FullOrbitopeProofs --------------------------
(***************************************************************************)
(* Proofs about FullOrbitope, for matrices, trees and lists of any size.   *)
(*                                                                         *)
(* First, the algorithm.  FullFixing finds that there is no sorted matrix  *)
(* within the bounds exactly when there is none, and fixes an entry        *)
(* exactly when all of them have the same value there (FullFixingExact).   *)
(* Columns are compared on one side or the other of each other: the faces  *)
(* that the code computes are least and greatest in the same way, with the *)
(* values 0 and 1 exchanged and the columns in the opposite order.         *)
(*                                                                         *)
(* Then what this says of the matrix the copy is made of (SubmatrixExact), *)
(* and of the tree of nodes: that it remains right while the row order     *)
(* grows and while the bounds change under the list of submatrices.        *)
(***************************************************************************)
EXTENDS FullOrbitope, FiniteSetTheorems, WellFoundedInduction, TLAPS

-------------------------------------------------------------------------------
(***************************************************************************)
(* Least numbers, and functions defined by recursion.                      *)
(***************************************************************************)

(* A set of natural numbers that is not empty has a smallest element. *)
LEMMA MinIsLeast ==
  ASSUME NEW S, S \subseteq Nat, S # {}
  PROVE  Min(S) \in S /\ \A y \in S : Min(S) <= y
<1> DEFINE R == {ss \in Nat \X Nat : ss[1] < ss[2]}
<1>1. IsWellFoundedOn(R, Nat)
  BY NatLessThanWellFounded DEF OpToRel
<1>2. PICK x \in S : \A y \in S : ~(<<y, x>> \in R)
  BY <1>1, WFMin
<1>3. ASSUME NEW y \in S PROVE x <= y
  <2>1. ~(<<y, x>> \in R) /\ x \in Nat /\ y \in Nat
    BY <1>2
  <2>2. x > y => <<y, x>> \in R
    BY <2>1
  <2> QED BY <2>1, <2>2
<1>4. \E z \in S : \A y \in S : z <= y
  BY <1>3
<1> QED BY <1>4, Zenon DEF Min

(* One that is bounded has a greatest. *)
LEMMA MaxIsGreatest ==
  ASSUME NEW k \in Nat, NEW S, S \subseteq 0 .. k, S # {}
  PROVE  Max(S) \in S /\ \A y \in S : Max(S) >= y
<1> DEFINE T == {k - x : x \in S}
<1>0. \A x \in S : k - x \in Nat
  OBVIOUS
<1>1. T \subseteq Nat /\ T # {}
  BY <1>0
<1>2. PICK t \in T : \A u \in T : t <= u
  BY <1>1, MinIsLeast
<1>3. PICK x \in S : t = k - x
  BY <1>2
<1>4. ASSUME NEW y \in S PROVE x >= y
  <2>1. k - y \in T
    OBVIOUS
  <2>2. k - x <= k - y /\ x \in Int /\ y \in Int
    BY <1>2, <1>3, <2>1
  <2> QED BY <2>2
<1>5. \E z \in S : \A y \in S : z >= y
  BY <1>4
<1> QED BY <1>5, Zenon DEF Max

(* A sequence of values, each made from the one before it.                  *)
Recurs(n, S, b, s, f) ==
  f \in [0 .. n -> S] /\ f[0] = b /\ \A k \in 1 .. n : f[k] = s[<<k, f[k - 1]>>]

LEMMA Recursion ==
  ASSUME NEW n \in Nat, NEW S, NEW b \in S, NEW s \in [(0 .. n) \X S -> S]
  PROVE  \E f : Recurs(n, S, b, s, f)
<1> DEFINE Runs(f, k) == /\ f \in [0 .. k -> S] /\ f[0] = b
                         /\ \A h \in 1 .. k : f[h] = s[<<h, f[h - 1]>>]
           Bad == {k \in 0 .. n : ~\E f : Runs(f, k)}
<1>1. SUFFICES ASSUME Bad # {} PROVE FALSE
  <2>1. \E f : Runs(f, n)
    OBVIOUS
  <2> QED BY <2>1 DEF Recurs
<1>2. Bad \subseteq Nat
  OBVIOUS
<1>3. PICK k \in Bad : \A h \in Bad : k <= h
  BY <1>1, <1>2, MinIsLeast
<1>4. k \in 0 .. n /\ ~\E f : Runs(f, k)
  BY <1>3
<1>5. CASE k = 0
  <2> DEFINE f == [h \in 0 .. 0 |-> b]
  <2>1. Runs(f, 0)
    OBVIOUS
  <2> QED BY <1>4, <1>5, <2>1
<1>6. CASE k # 0
  <2>1. k - 1 \in 0 .. n /\ ~(k <= k - 1)
    BY <1>4, <1>6
  <2>2. PICK f : Runs(f, k - 1)
    BY <1>3, <2>1
  <2> DEFINE g == [h \in 0 .. k |-> IF h = k THEN s[<<k, f[k - 1]>>] ELSE f[h]]
  <2>3. f[k - 1] \in S /\ k \in 0 .. n
    BY <1>4, <2>1, <2>2
  <2>4. s[<<k, f[k - 1]>>] \in S
    BY <2>3
  <2>5. \A h \in 0 .. k : h # k => h \in 0 .. k - 1
    BY <1>4
  <2>6. g \in [0 .. k -> S]
    BY <2>2, <2>4, <2>5
  <2>7. g[0] = b
    BY <1>4, <1>6, <2>2
  <2>8. ASSUME NEW h \in 1 .. k PROVE g[h] = s[<<h, g[h - 1]>>]
    <3>1. h - 1 \in 0 .. k /\ h - 1 # k /\ h \in 0 .. k
      BY <1>4
    <3>2. g[h - 1] = f[h - 1]
      BY <3>1
    <3>3. CASE h = k
      BY <3>1, <3>2, <3>3
    <3>4. CASE h # k
      <4>1. h \in 1 .. k - 1
        BY <1>4, <3>4
      <4> QED BY <2>2, <3>1, <3>2, <3>4, <4>1
    <3> QED BY <3>3, <3>4
  <2>9. Runs(g, k)
    BY <2>6, <2>7, <2>8
  <2> QED BY <1>4, <2>9
<1> QED BY <1>5, <1>6

-------------------------------------------------------------------------------
(***************************************************************************)
(* Columns: functions from 0 .. m - 1, the value 2 for an entry that is     *)
(* free.                                                                    *)
(***************************************************************************)
Bits(m) == [0 .. m - 1 -> 0 .. 1]

(* The column z has the entries of a that are not free.                     *)
Agrees(m, z, a) == \A r \in 0 .. m - 1 : a[r] # 2 => z[r] = a[r]

(* The columns a and b are equal, or a has v where they differ first: it is *)
(* not the smaller one for v = 1, and not the greater one for v = 0.        *)
Side(m, v, a, b) ==
  \A r \in 0 .. m - 1 :
    a[r] = 1 - v /\ b[r] = v => \E q \in 0 .. r - 1 : a[q] = v /\ b[q] = 1 - v

LEMMA SideConverse ==
  ASSUME NEW m, NEW v \in 0 .. 1, NEW a, NEW b, Side(m, v, a, b)
  PROVE  Side(m, 1 - v, b, a)
<1>1. 1 - (1 - v) = v
  OBVIOUS
<1> QED BY <1>1 DEF Side

LEMMA SideReflexive ==
  ASSUME NEW m, NEW v \in 0 .. 1, NEW a PROVE Side(m, v, a, a)
<1>1. v # 1 - v
  OBVIOUS
<1> QED BY <1>1 DEF Side

(* Where two columns of which one is on the side v of the other differ      *)
(* first, it has v.                                                         *)
LEMMA FirstDifference ==
  ASSUME NEW m \in Nat, NEW v \in 0 .. 1, NEW a \in Bits(m), NEW b \in Bits(m),
         Side(m, v, a, b),
         NEW r \in 0 .. m - 1, \A q \in 0 .. r - 1 : a[q] = b[q]
  PROVE  a[r] = b[r] \/ (a[r] = v /\ b[r] = 1 - v)
<1>1. a[r] \in 0 .. 1 /\ b[r] \in 0 .. 1 /\ v # 1 - v
  BY DEF Bits
<1>2. ~(a[r] = 1 - v /\ b[r] = v)
  BY <1>1 DEF Side
<1> QED BY <1>1, <1>2

LEMMA SideTransitive ==
  ASSUME NEW m \in Nat, NEW v \in 0 .. 1, NEW a \in Bits(m), NEW b \in Bits(m), NEW c \in Bits(m),
         Side(m, v, a, b), Side(m, v, b, c)
  PROVE  Side(m, v, a, c)
<1>1. SUFFICES ASSUME NEW r \in 0 .. m - 1, a[r] = 1 - v, c[r] = v
               PROVE  \E q \in 0 .. r - 1 : a[q] = v /\ c[q] = 1 - v
  BY DEF Side
<1>0. v # 1 - v
  OBVIOUS
<1> DEFINE T == {t \in 0 .. r : a[t] # b[t] \/ b[t] # c[t]}
<1>2. r \in T /\ T \subseteq Nat
  BY <1>0, <1>1
<1>3. PICK t \in T : \A u \in T : t <= u
  BY <1>2, MinIsLeast
<1>4. ASSUME NEW q \in 0 .. t - 1 PROVE a[q] = b[q] /\ b[q] = c[q]
  <2>1. q \in 0 .. r /\ ~(t <= q)
    BY <1>3
  <2> QED BY <1>3, <2>1
<1>5. t \in 0 .. m - 1 /\ t \in 0 .. r
  BY <1>3
<1>6. a[t] = b[t] \/ (a[t] = v /\ b[t] = 1 - v)
  BY <1>4, <1>5, FirstDifference
<1>7. b[t] = c[t] \/ (b[t] = v /\ c[t] = 1 - v)
  BY <1>4, <1>5, FirstDifference
<1>8. a[t] = v /\ c[t] = 1 - v
  BY <1>0, <1>3, <1>6, <1>7
<1>9. t # r
  BY <1>0, <1>1, <1>8
<1>10. t \in 0 .. r - 1
  BY <1>5, <1>9
<1> QED BY <1>8, <1>10

(* What lies between two columns has what they have in common at the top.   *)
LEMMA Between ==
  ASSUME NEW m \in Nat, NEW a \in Bits(m), NEW b \in Bits(m), NEW x \in Bits(m),
         Side(m, 1, x, a), Side(m, 1, b, x),
         NEW r \in 0 .. m - 1, \A q \in 0 .. r : a[q] = b[q]
  PROVE  x[r] = a[r]
<1> DEFINE T == {t \in 0 .. r : x[t] # a[t]}
<1>1. SUFFICES ASSUME T # {} PROVE FALSE
  <2>1. r \in 0 .. r
    OBVIOUS
  <2> QED BY <2>1
<1>2. PICK t \in T : \A u \in T : t <= u
  <2>1. T \subseteq Nat
    OBVIOUS
  <2> QED BY <1>1, <2>1, MinIsLeast
<1>3. t \in 0 .. m - 1 /\ t \in 0 .. r /\ x[t] # a[t]
  BY <1>2
<1>4. \A q \in 0 .. t - 1 : x[q] = a[q] /\ a[q] = b[q]
  <2>1. \A q \in 0 .. t - 1 : q \in 0 .. r /\ ~(t <= q)
    BY <1>3
  <2> QED BY <1>2, <2>1
<1>5. x[t] = a[t] \/ (x[t] = 1 /\ a[t] = 1 - 1)
  BY <1>3, <1>4, FirstDifference
<1>6. b[t] = x[t] \/ (b[t] = 1 /\ x[t] = 1 - 1)
  BY <1>3, <1>4, FirstDifference
<1>7. a[t] = b[t]
  BY <1>3
<1> QED BY <1>3, <1>5, <1>6, <1>7

-------------------------------------------------------------------------------
(***************************************************************************)
(* The completion of a column.                                              *)
(***************************************************************************)
Faces(m) == [bad : BOOLEAN, col : Bits(m)]

(* A completion is on the side v of b, and all columns on that side are on  *)
(* the side v of it; there is none exactly when the completion is bad.      *)
LEMMA CompletedFirst ==
  ASSUME NEW m \in Nat \ {0}, NEW a \in [0 .. m - 1 -> 0 .. 2], NEW b \in Bits(m),
         NEW v \in 0 .. 1, NEW y, y = Completed(a, b, v)
  PROVE  /\ y \in Faces(m)
         /\ ~y.bad => Agrees(m, y.col, a) /\ Side(m, v, y.col, b)
         /\ \A z \in Bits(m) : Agrees(m, z, a) /\ Side(m, v, z, b) => ~y.bad /\ Side(m, v, z, y.col)
<1> DEFINE rows  == 0 .. m - 1
           fixed == {r \in rows : a[r] # b[r] /\ a[r] # 2}
           mf    == Min(fixed \cup {m})
           D     == Discriminating(a, b, v, IF fixed = {} THEN mf - 1 ELSE mf)
           md    == IF D = {} THEN m ELSE Max(D)
<1>1. DOMAIN a = rows /\ Cardinality(rows) = m
  BY FS_Interval
<1>2. /\ y.bad = (fixed # {} /\ D = {})
      /\ y.col = [r \in rows |-> IF a[r] # 2 THEN a[r]
                                 ELSE IF fixed = {} \/ r < md THEN b[r]
                                 ELSE IF r = md THEN v ELSE 1 - v]
      /\ y = [bad |-> y.bad, col |-> y.col]
  BY <1>1 DEF Completed
<1>3. \A r \in rows : a[r] \in 0 .. 2 /\ b[r] \in 0 .. 1
  BY DEF Bits
<1>4. v \in 0 .. 1 /\ 1 - v \in 0 .. 1 /\ v # 1 - v /\ \A t \in 0 .. 1 : t # v => t = 1 - v
  OBVIOUS
<1>5. mf \in 0 .. m /\ mf \in fixed \cup {m} /\ \A r \in fixed : mf <= r
  <2>1. fixed \cup {m} \subseteq 0 .. m
    OBVIOUS
  <2>2. mf \in fixed \cup {m} /\ \A r \in fixed \cup {m} : mf <= r
    <3>1. fixed \cup {m} \subseteq Nat
      BY <2>1
    <3> HIDE DEF fixed
    <3> QED BY <3>1, MinIsLeast
  <2> HIDE DEF mf
  <2> QED BY <2>1, <2>2
<1> HIDE DEF mf
<1>6. fixed # {} => mf \in fixed /\ mf \in rows
  <2>1. SUFFICES ASSUME NEW r \in fixed PROVE mf \in fixed /\ mf \in rows
    OBVIOUS
  <2>2. mf <= r /\ r <= m - 1
    BY <1>5
  <2>3. mf # m
    BY <1>5, <2>2
  <2> QED BY <1>5, <2>3
<1>7. fixed # {} => D = {r \in 0 .. mf : a[r] # 1 - v /\ b[r] # v}
  BY DEF Discriminating
<1>8. fixed # {} /\ D # {} => md \in D /\ md \in 0 .. mf /\ \A r \in D : r <= md
  <2>1. SUFFICES ASSUME fixed # {}, D # {} PROVE md \in D /\ md \in 0 .. mf /\ \A r \in D : r <= md
    OBVIOUS
  <2>2. D \subseteq 0 .. mf /\ mf \in Nat
    BY <1>5, <1>7, <2>1
  <2>3. md = Max(D)
    BY <2>1
  <2> HIDE DEF D, md
  <2>4. md \in D /\ \A r \in D : md >= r
    BY <2>1, <2>2, <2>3, MaxIsGreatest
  <2> QED BY <2>2, <2>4
<1>9. y \in Faces(m)
  <2>1. \A r \in rows : y.col[r] \in 0 .. 1
    BY <1>2, <1>3, <1>4
  <2>2. y.col \in Bits(m)
    BY <1>2, <2>1 DEF Bits
  <2> QED BY <1>2, <2>2 DEF Faces
<1>10. ASSUME fixed = {}
       PROVE  ~y.bad /\ y.col = b /\ Agrees(m, b, a)
  <2>1. \A r \in rows : a[r] # 2 => a[r] = b[r]
    BY <1>10
  <2>2. y.col = [r \in rows |-> b[r]]
    BY <1>2, <1>10, <2>1
  <2> QED BY <1>2, <1>10, <2>1, <2>2 DEF Agrees, Bits
<1> HIDE DEF D, md
<1>11. ASSUME fixed # {}, D # {}
       PROVE  /\ md \in rows /\ y.col[md] = v /\ b[md] = 1 - v
              /\ \A r \in 0 .. md - 1 : y.col[r] = b[r]
              /\ \A r \in md + 1 .. m - 1 : y.col[r] = IF a[r] # 2 THEN a[r] ELSE 1 - v
  <2>1. md \in D /\ md \in 0 .. mf /\ mf \in rows
    BY <1>6, <1>8, <1>11
  <2>2. md \in rows /\ a[md] # 1 - v /\ b[md] # v
    BY <1>7, <1>11, <2>1
  <2>3. y.col[md] = v /\ b[md] = 1 - v
    <3>1. a[md] # 2 => a[md] = v
      BY <1>3, <1>4, <2>2
    <3> QED BY <1>2, <1>3, <1>4, <1>11, <2>2, <3>1
  <2>4. ASSUME NEW r \in 0 .. md - 1 PROVE y.col[r] = b[r]
    <3>1. r \in rows /\ r < md /\ ~(mf <= r)
      BY <2>1, <2>2
    <3>2. a[r] = b[r] \/ a[r] = 2
      BY <1>5, <3>1
    <3> QED BY <1>2, <3>1, <3>2
  <2>5. ASSUME NEW r \in md + 1 .. m - 1 PROVE y.col[r] = IF a[r] # 2 THEN a[r] ELSE 1 - v
    <3>1. r \in rows /\ ~(r < md) /\ r # md
      BY <2>2
    <3> QED BY <1>2, <1>11, <3>1
  <2> QED BY <2>2, <2>3, <2>4, <2>5
<1>12. ASSUME ~y.bad PROVE Agrees(m, y.col, a) /\ Side(m, v, y.col, b)
  <2>1. CASE fixed = {}
    BY <1>10, <2>1, SideReflexive
  <2>2. CASE fixed # {}
    <3>1. D # {}
      BY <1>2, <1>12, <2>2
    <3>2. Agrees(m, y.col, a)
      BY <1>2 DEF Agrees
    <3>3. ASSUME NEW r \in 0 .. m - 1, y.col[r] = 1 - v, b[r] = v
          PROVE  md \in 0 .. r - 1
      <4>1. r # md /\ ~(r < md)
        BY <1>4, <1>11, <2>2, <3>1, <3>3
      <4> QED BY <1>11, <2>2, <3>1, <4>1
    <3>4. Side(m, v, y.col, b)
      BY <1>11, <2>2, <3>1, <3>3 DEF Side
    <3> QED BY <3>2, <3>4
  <2> QED BY <2>1, <2>2
<1>13. ASSUME NEW z \in Bits(m), Agrees(m, z, a), Side(m, v, z, b)
       PROVE  ~y.bad /\ Side(m, v, z, y.col)
  <2>1. CASE fixed = {}
    BY <1>10, <1>13, <2>1
  <2>2. CASE fixed # {}
    <3> DEFINE T == {t \in rows : z[t] # b[t]}
    <3>1. mf \in T /\ mf \in rows
      BY <1>6, <1>13, <2>2 DEF Agrees
    <3>2. PICK q \in T : \A u \in T : q <= u
      <4>1. T \subseteq Nat /\ T # {}
        BY <3>1
      <4> HIDE DEF T
      <4>2. Min(T) \in T /\ \A u \in T : Min(T) <= u
        BY <4>1, MinIsLeast
      <4> QED BY <4>2
    <3>3. q \in rows /\ z[q] # b[q] /\ q <= mf /\ \A t \in 0 .. q - 1 : z[t] = b[t]
      <4>1. q \in rows /\ q <= mf /\ z[q] # b[q]
        BY <3>1, <3>2
      <4>2. \A t \in 0 .. q - 1 : t \in rows /\ ~(q <= t)
        BY <4>1
      <4> QED BY <3>2, <4>1, <4>2
    <3>4. z[q] = v /\ b[q] = 1 - v
      BY <1>13, <3>3, FirstDifference
    <3>5. a[q] # 1 - v
      <4>1. a[q] # 2 => a[q] = v
        BY <1>13, <3>3, <3>4 DEF Agrees
      <4> QED BY <1>4, <4>1
    <3>6. q \in D
      BY <1>4, <1>5, <1>7, <2>2, <3>3, <3>4, <3>5
    <3>7. md \in rows /\ q <= md
      BY <1>8, <1>11, <2>2, <3>6
    <3>8. ASSUME NEW r \in 0 .. m - 1, z[r] = 1 - v, y.col[r] = v
          PROVE  \E t \in 0 .. r - 1 : z[t] = v /\ y.col[t] = 1 - v
      <4>1. ~(r < q) /\ r # q
        <5>1. r < q => z[r] = b[r] /\ y.col[r] = b[r]
          BY <1>11, <2>2, <3>3, <3>6, <3>7
        <5> QED BY <1>4, <3>4, <3>8, <5>1
      <4>2. CASE q < md
        <5>1. y.col[q] = 1 - v
          BY <1>11, <2>2, <3>3, <3>4, <3>6, <4>2
        <5> QED BY <3>3, <3>4, <4>1, <5>1
      <4>3. CASE q = md
        <5>1. r \in md + 1 .. m - 1
          BY <3>3, <4>1, <4>3
        <5>2. y.col[r] = IF a[r] # 2 THEN a[r] ELSE 1 - v
          BY <1>11, <2>2, <3>6, <5>1
        <5>3. a[r] # 2 => z[r] = a[r]
          BY <1>13 DEF Agrees
        <5> QED BY <1>4, <3>8, <5>2, <5>3
      <4> QED BY <3>3, <3>7, <4>2, <4>3
    <3> QED BY <1>2, <3>6, <3>8 DEF Side
  <2> QED BY <2>1, <2>2
<1> QED BY <1>9, <1>12, <1>13

-------------------------------------------------------------------------------
(***************************************************************************)
(* Columns completed one after the other.                                   *)
(***************************************************************************)

(* The column a with v for its free entries. *)
Filled(m, a, v) == [r \in 0 .. m - 1 |-> IF a[r] = 2 THEN v ELSE a[r]]

(* f[0] is the first column of A with its free entries on the far side, and *)
(* every further f[k] the completion of A[k] beside the one before.         *)
Chain(m, n, v, A, f) ==
  /\ f[0].bad = FALSE
  /\ f[0].col = Filled(m, A[0], 1 - v)
  /\ f[0] = [bad |-> f[0].bad, col |-> f[0].col]
  /\ \A k \in 1 .. n - 1 : f[k] = IF f[k - 1].bad THEN f[k - 1]
                                  ELSE Completed(A[k], f[k - 1].col, v)

LEMMA ChainStarts ==
  ASSUME NEW m \in Nat \ {0}, NEW n \in Nat \ {0}, NEW v \in 0 .. 1,
         NEW A \in [0 .. n - 1 -> [0 .. m - 1 -> 0 .. 2]], NEW f, Chain(m, n, v, A, f)
  PROVE  /\ f[0] \in Faces(m) /\ ~f[0].bad /\ Agrees(m, f[0].col, A[0])
         /\ \A x \in Bits(m) : Agrees(m, x, A[0]) => Side(m, v, x, f[0].col)
<1>1. \A r \in 0 .. m - 1 : A[0][r] \in 0 .. 2
  <2>1. 0 \in 0 .. n - 1
    OBVIOUS
  <2> QED BY <2>1
<1>2. \A r \in 0 .. m - 1 : f[0].col[r] = IF A[0][r] = 2 THEN 1 - v ELSE A[0][r]
  BY DEF Chain, Filled
<1>3. 1 - v \in 0 .. 1 /\ v # 1 - v
  OBVIOUS
<1>4. f[0].col \in Bits(m)
  <2>1. \A r \in 0 .. m - 1 : (IF A[0][r] = 2 THEN 1 - v ELSE A[0][r]) \in 0 .. 1
    BY <1>1, <1>3
  <2>2. f[0].col = [r \in 0 .. m - 1 |-> IF A[0][r] = 2 THEN 1 - v ELSE A[0][r]]
    BY DEF Chain, Filled
  <2> QED BY <2>1, <2>2 DEF Bits
<1>5. f[0] \in Faces(m) /\ ~f[0].bad
  <2>1. f[0] = [bad |-> f[0].bad, col |-> f[0].col] /\ f[0].bad = FALSE
    BY DEF Chain
  <2> QED BY <1>4, <2>1 DEF Faces
<1>6. Agrees(m, f[0].col, A[0])
  BY <1>2 DEF Agrees
<1>7. ASSUME NEW x \in Bits(m), Agrees(m, x, A[0]) PROVE Side(m, v, x, f[0].col)
  <2>1. ASSUME NEW r \in 0 .. m - 1, x[r] = 1 - v, f[0].col[r] = v PROVE FALSE
    <3>1. A[0][r] # 2
      BY <1>2, <1>3, <2>1
    <3> QED BY <1>2, <1>3, <1>7, <2>1, <3>1 DEF Agrees
  <2> QED BY <2>1 DEF Side
<1> QED BY <1>5, <1>6, <1>7

LEMMA ChainTyped ==
  ASSUME NEW m \in Nat \ {0}, NEW n \in Nat \ {0}, NEW v \in 0 .. 1,
         NEW A \in [0 .. n - 1 -> [0 .. m - 1 -> 0 .. 2]], NEW f, Chain(m, n, v, A, f)
  PROVE  \A k \in 0 .. n - 1 : f[k] \in Faces(m)
<1> DEFINE Bad == {k \in 0 .. n - 1 : f[k] \notin Faces(m)}
<1>1. SUFFICES ASSUME Bad # {} PROVE FALSE
  OBVIOUS
<1>2. PICK k \in Bad : \A h \in Bad : k <= h
  <2>1. Bad \subseteq Nat
    OBVIOUS
  <2> HIDE DEF Bad
  <2>2. Min(Bad) \in Bad /\ \A h \in Bad : Min(Bad) <= h
    BY <1>1, <2>1, MinIsLeast
  <2> QED BY <2>2
<1>3. k \in 1 .. n - 1 /\ k - 1 \in 0 .. n - 1 /\ ~(k <= k - 1)
  <2>1. k # 0
    BY <1>2, ChainStarts
  <2> QED BY <1>2, <2>1
<1>4. f[k - 1] \in Faces(m)
  BY <1>2, <1>3
<1>5. f[k] = IF f[k - 1].bad THEN f[k - 1] ELSE Completed(A[k], f[k - 1].col, v)
  BY <1>3 DEF Chain
<1>6. f[k - 1].col \in Bits(m) /\ A[k] \in [0 .. m - 1 -> 0 .. 2]
  BY <1>3, <1>4 DEF Faces
<1>7. Completed(A[k], f[k - 1].col, v) \in Faces(m)
  BY <1>6, CompletedFirst
<1> QED BY <1>2, <1>4, <1>5, <1>7

(* A chain that is not bad at its end is good all along. *)
LEMMA ChainGood ==
  ASSUME NEW m \in Nat \ {0}, NEW n \in Nat \ {0}, NEW v \in 0 .. 1,
         NEW A \in [0 .. n - 1 -> [0 .. m - 1 -> 0 .. 2]], NEW f, Chain(m, n, v, A, f),
         ~f[n - 1].bad
  PROVE  /\ \A k \in 0 .. n - 1 : Agrees(m, f[k].col, A[k])
         /\ \A k \in 1 .. n - 1 : Side(m, v, f[k].col, f[k - 1].col)
<1> DEFINE Good == {j \in 0 .. n - 1 : ~f[n - 1 - j].bad}
           Bad  == {j \in 0 .. n - 1 : f[n - 1 - j].bad}
<1>1. \A k \in 0 .. n - 1 : ~f[k].bad
  <2>1. SUFFICES ASSUME Bad # {} PROVE FALSE
    <3>1. ASSUME NEW k \in 0 .. n - 1, f[k].bad PROVE FALSE
      <4>1. n - 1 - k \in 0 .. n - 1 /\ n - 1 - (n - 1 - k) = k
        OBVIOUS
      <4>2. n - 1 - k \in Bad
        BY <3>1, <4>1
      <4> QED BY <2>1, <4>2
    <3> QED BY <3>1
  <2>2. PICK j \in Bad : \A h \in Bad : j <= h
    <3>1. Bad \subseteq Nat
      OBVIOUS
    <3> HIDE DEF Bad
    <3>2. Min(Bad) \in Bad /\ \A h \in Bad : Min(Bad) <= h
      BY <2>1, <3>1, MinIsLeast
    <3> QED BY <3>2
  <2> DEFINE k == n - 1 - j
  <2>3. j \in 0 .. n - 1 /\ f[k].bad
    BY <2>2
  <2>4. j # 0
    BY <2>3
  <2>5. k \in 0 .. n - 1 /\ k + 1 \in 1 .. n - 1 /\ k + 1 - 1 = k /\ j - 1 \in 0 .. n - 1
        /\ n - 1 - (j - 1) = k + 1 /\ ~(j <= j - 1)
    BY <2>3, <2>4
  <2>6. ~f[k + 1].bad
    <3>1. j - 1 \notin Bad
      BY <2>2, <2>5
    <3> QED BY <2>5, <3>1
  <2>7. f[k + 1] = IF f[k].bad THEN f[k] ELSE Completed(A[k + 1], f[k].col, v)
    <3> HIDE DEF k
    <3>1. f[k + 1] = IF f[k + 1 - 1].bad THEN f[k + 1 - 1] ELSE Completed(A[k + 1], f[k + 1 - 1].col, v)
      BY <2>5 DEF Chain
    <3> QED BY <2>5, <3>1
  <2> QED BY <2>3, <2>6, <2>7
<1>2. ASSUME NEW k \in 1 .. n - 1
      PROVE  Agrees(m, f[k].col, A[k]) /\ Side(m, v, f[k].col, f[k - 1].col)
  <2>1. k \in 0 .. n - 1 /\ k - 1 \in 0 .. n - 1
    OBVIOUS
  <2>2. f[k] = Completed(A[k], f[k - 1].col, v) /\ ~f[k].bad
    BY <1>1, <2>1 DEF Chain
  <2>3. f[k - 1].col \in Bits(m) /\ A[k] \in [0 .. m - 1 -> 0 .. 2]
    BY <2>1, ChainTyped DEF Faces
  <2> QED BY <2>2, <2>3, CompletedFirst
<1>3. ASSUME NEW k \in 0 .. n - 1 PROVE Agrees(m, f[k].col, A[k])
  <2>1. CASE k = 0
    BY <2>1, ChainStarts
  <2>2. CASE k # 0
    <3>1. k \in 1 .. n - 1
      BY <2>2
    <3> QED BY <1>2, <3>1
  <2> QED BY <2>1, <2>2
<1> QED BY <1>2, <1>3

(* All matrices with the fixed entries of A, and columns each on the side v *)
(* of the one before, have their columns on the side v of the chain.        *)
LEMMA ChainFirst ==
  ASSUME NEW m \in Nat \ {0}, NEW n \in Nat \ {0}, NEW v \in 0 .. 1,
         NEW A \in [0 .. n - 1 -> [0 .. m - 1 -> 0 .. 2]], NEW f, Chain(m, n, v, A, f),
         NEW X \in [0 .. n - 1 -> Bits(m)],
         \A k \in 0 .. n - 1 : Agrees(m, X[k], A[k]),
         \A k \in 1 .. n - 1 : Side(m, v, X[k], X[k - 1])
  PROVE  \A k \in 0 .. n - 1 : ~f[k].bad /\ Side(m, v, X[k], f[k].col)
<1> DEFINE Bad == {k \in 0 .. n - 1 : ~(~f[k].bad /\ Side(m, v, X[k], f[k].col))}
<1>1. SUFFICES ASSUME Bad # {} PROVE FALSE
  OBVIOUS
<1>2. PICK k \in Bad : \A h \in Bad : k <= h
  <2>1. Bad \subseteq Nat
    OBVIOUS
  <2> HIDE DEF Bad
  <2>2. Min(Bad) \in Bad /\ \A h \in Bad : Min(Bad) <= h
    BY <1>1, <2>1, MinIsLeast
  <2> QED BY <2>2
<1>3. k \in 1 .. n - 1 /\ k \in 0 .. n - 1 /\ k - 1 \in 0 .. n - 1 /\ ~(k <= k - 1)
  <2>1. k # 0
    <3>1. 0 \in 0 .. n - 1
      OBVIOUS
    <3> QED BY <1>2, <3>1, ChainStarts
  <2> QED BY <1>2, <2>1
<1>4. ~f[k - 1].bad /\ Side(m, v, X[k - 1], f[k - 1].col)
  BY <1>2, <1>3
<1>5. f[k] = Completed(A[k], f[k - 1].col, v)
  BY <1>3, <1>4 DEF Chain
<1>6. f[k - 1].col \in Bits(m) /\ A[k] \in [0 .. m - 1 -> 0 .. 2]
  BY <1>3, ChainTyped DEF Faces
<1>7. X[k] \in Bits(m) /\ X[k - 1] \in Bits(m) /\ Agrees(m, X[k], A[k]) /\ Side(m, v, X[k], X[k - 1])
  BY <1>3
<1>8. Side(m, v, X[k], f[k - 1].col)
  BY <1>4, <1>6, <1>7, SideTransitive
<1>9. ~f[k].bad /\ Side(m, v, X[k], f[k].col)
  BY <1>5, <1>6, <1>7, <1>8, CompletedFirst
<1> QED BY <1>2, <1>9

ChainFrom(m, n, v, A, b, f) ==
  /\ f \in [0 .. n - 1 -> Faces(m)] /\ f[0] = b
  /\ \A k \in 1 .. n - 1 : f[k] = IF f[k - 1].bad THEN f[k - 1]
                                  ELSE Completed(A[k], f[k - 1].col, v)

LEMMA ChainExists ==
  ASSUME NEW m \in Nat \ {0}, NEW n \in Nat \ {0}, NEW v \in 0 .. 1,
         NEW A \in [0 .. n - 1 -> [0 .. m - 1 -> 0 .. 2]], NEW b \in Faces(m)
  PROVE  \E f : ChainFrom(m, n, v, A, b, f)
<1> DEFINE S == Faces(m)
           s == [p \in (0 .. n - 1) \X S |->
                   IF p[2].bad THEN p[2] ELSE Completed(A[p[1]], p[2].col, v)]
<1>1. n - 1 \in Nat /\ b \in S
  OBVIOUS
<1>2. ASSUME NEW k \in 0 .. n - 1, NEW y \in S
      PROVE  (IF y.bad THEN y ELSE Completed(A[k], y.col, v)) \in S
  <2>1. y.col \in Bits(m) /\ A[k] \in [0 .. m - 1 -> 0 .. 2]
    BY <1>2 DEF Faces
  <2>2. Completed(A[k], y.col, v) \in S
    BY <2>1, CompletedFirst
  <2> QED BY <2>2
<1>3. s \in [(0 .. n - 1) \X S -> S]
  <2> HIDE DEF S
  <2>1. \A p \in (0 .. n - 1) \X S :
          (IF p[2].bad THEN p[2] ELSE Completed(A[p[1]], p[2].col, v)) \in S
    BY <1>2
  <2> QED BY <2>1
<1>4. \A k \in 0 .. n - 1, y \in S :
        s[<<k, y>>] = IF y.bad THEN y ELSE Completed(A[k], y.col, v)
  <2> HIDE DEF S
  <2> QED OBVIOUS
<1> HIDE DEF s, S
<1>5. PICK f \in [0 .. n - 1 -> S] : f[0] = b /\ \A k \in 1 .. n - 1 : f[k] = s[<<k, f[k - 1]>>]
  <2> DEFINE N == n - 1
  <2>1. N \in Nat
    BY <1>1
  <2>2. b \in S
    BY <1>1
  <2>3. s \in [(0 .. N) \X S -> S]
    BY <1>3
  <2> HIDE DEF N
  <2>4. \E f : Recurs(N, S, b, s, f)
    BY <2>1, <2>2, <2>3, Recursion
  <2> QED BY <2>4 DEF N, Recurs
<1>6. ASSUME NEW k \in 1 .. n - 1
      PROVE  f[k] = IF f[k - 1].bad THEN f[k - 1] ELSE Completed(A[k], f[k - 1].col, v)
  <2>1. k \in 0 .. n - 1 /\ f[k - 1] \in S
    OBVIOUS
  <2> QED BY <1>4, <1>5, <2>1
<1> QED BY <1>5, <1>6 DEF S, ChainFrom

-------------------------------------------------------------------------------
(***************************************************************************)
(* The faces of a matrix d.                                                 *)
(***************************************************************************)
Matrices(m, n) == [(0 .. m - 1) \X (0 .. n - 1) -> {"free", "zero", "one"}]

(* The columns of a sorted matrix within the bounds d, the greatest first. *)
Solves(m, n, d, X) ==
  /\ X \in [0 .. n - 1 -> Bits(m)]
  /\ \A c \in 0 .. n - 1 : Agrees(m, X[c], Column(d, c, 2))
  /\ \A c \in 1 .. n - 1 : Side(m, 1, X[c - 1], X[c])

LEMMA Size ==
  ASSUME NEW m \in Nat \ {0}, NEW n \in Nat \ {0}, NEW d \in Matrices(m, n)
  PROVE  NR(d) = m /\ NC(d) = n
<1>1. DOMAIN d = (0 .. m - 1) \X (0 .. n - 1)
  BY DEF Matrices
<1>2. Cardinality({e \in DOMAIN d : e[2] = 0}) = m
  <2> DEFINE S == 0 .. m - 1
             T == {e \in DOMAIN d : e[2] = 0}
             f == [r \in S |-> <<r, 0>>]
  <2>1. IsFiniteSet(S) /\ Cardinality(S) = m
    BY FS_Interval
  <2>2. f \in Bijection(S, T)
    <3>1. \A r \in S : <<r, 0>> \in T
      BY <1>1
    <3>2. \A e \in T : \E r \in S : e = <<r, 0>>
      BY <1>1
    <3>3. \A r, q \in S : <<r, 0>> = <<q, 0>> => r = q
      OBVIOUS
    <3> HIDE DEF T
    <3>4. f \in [S -> T]
      BY <3>1
    <3>5. IsInjective(f) /\ \A e \in T : \E r \in S : f[r] = e
      BY <3>2, <3>3 DEF IsInjective
    <3> QED BY <3>4, <3>5 DEF Bijection, Injection, Surjection
  <2> HIDE DEF S, T, f
  <2>3. Cardinality(S) = Cardinality(T)
    BY <2>1, <2>2, FS_Bijection DEF ExistsBijection
  <2> QED BY <2>1, <2>3 DEF T
<1>3. Cardinality({e \in DOMAIN d : e[1] = 0}) = n
  <2> DEFINE S == 0 .. n - 1
             T == {e \in DOMAIN d : e[1] = 0}
             f == [c \in S |-> <<0, c>>]
  <2>1. IsFiniteSet(S) /\ Cardinality(S) = n
    BY FS_Interval
  <2>2. f \in Bijection(S, T)
    <3>1. \A c \in S : <<0, c>> \in T
      BY <1>1
    <3>2. \A e \in T : \E c \in S : e = <<0, c>>
      BY <1>1
    <3>3. \A c, q \in S : <<0, c>> = <<0, q>> => c = q
      OBVIOUS
    <3> HIDE DEF T
    <3>4. f \in [S -> T]
      BY <3>1
    <3>5. IsInjective(f) /\ \A e \in T : \E c \in S : f[c] = e
      BY <3>2, <3>3 DEF IsInjective
    <3> QED BY <3>4, <3>5 DEF Bijection, Injection, Surjection
  <2> HIDE DEF S, T, f
  <2>3. Cardinality(S) = Cardinality(T)
    BY <2>1, <2>2, FS_Bijection DEF ExistsBijection
  <2> QED BY <2>1, <2>3 DEF T
<1> QED BY <1>2, <1>3 DEF NR, NC

LEMMA ColumnFilled ==
  ASSUME NEW m \in Nat \ {0}, NEW n \in Nat \ {0}, NEW d \in Matrices(m, n),
         NEW c \in 0 .. n - 1, NEW v \in 0 .. 1
  PROVE  /\ Column(d, c, v) = Filled(m, Column(d, c, 2), v)
         /\ [bad |-> FALSE, col |-> Column(d, c, v)] \in Faces(m)
<1>1. NR(d) = m
  BY Size
<1>2. Column(d, c, 2) = [r \in 0 .. m - 1 |->
          IF d[<<r, c>>] = "one" THEN 1 ELSE IF d[<<r, c>>] = "zero" THEN 0 ELSE 2]
  BY <1>1 DEF Column
<1>3. Column(d, c, v) = [r \in 0 .. m - 1 |->
         IF d[<<r, c>>] = "one" THEN 1 ELSE IF d[<<r, c>>] = "zero" THEN 0 ELSE v]
  BY <1>1 DEF Column
<1>4. ASSUME NEW r \in 0 .. m - 1
      PROVE  /\ (IF d[<<r, c>>] = "one" THEN 1 ELSE IF d[<<r, c>>] = "zero" THEN 0 ELSE v)
                = IF Column(d, c, 2)[r] = 2 THEN v ELSE Column(d, c, 2)[r]
             /\ (IF d[<<r, c>>] = "one" THEN 1 ELSE IF d[<<r, c>>] = "zero" THEN 0 ELSE v) \in 0 .. 1
  <2>1. Column(d, c, 2)[r] = IF d[<<r, c>>] = "one" THEN 1 ELSE IF d[<<r, c>>] = "zero" THEN 0 ELSE 2
    BY <1>2
  <2> DEFINE w == d[<<r, c>>]
  <2>2. /\ (IF w = "one" THEN 1 ELSE IF w = "zero" THEN 0 ELSE v)
           = IF (IF w = "one" THEN 1 ELSE IF w = "zero" THEN 0 ELSE 2) = 2 THEN v
             ELSE (IF w = "one" THEN 1 ELSE IF w = "zero" THEN 0 ELSE 2)
        /\ (IF w = "one" THEN 1 ELSE IF w = "zero" THEN 0 ELSE v) \in 0 .. 1
    <3> HIDE DEF w
    <3> QED OBVIOUS
  <2> QED BY <2>1, <2>2, Zenon
<1>5. Column(d, c, v) \in Bits(m)
  BY <1>3, <1>4 DEF Bits
<1>6. [bad |-> FALSE, col |-> Column(d, c, v)] \in Faces(m)
  BY <1>5 DEF Faces
<1>7. Column(d, c, v) = Filled(m, Column(d, c, 2), v)
  BY <1>3, <1>4 DEF Filled
<1> QED BY <1>6, <1>7

LEMMA ColumnShape ==
  ASSUME NEW m \in Nat \ {0}, NEW n \in Nat \ {0}, NEW d \in Matrices(m, n),
         NEW c \in 0 .. n - 1
  PROVE  Column(d, c, 2) \in [0 .. m - 1 -> 0 .. 2]
<1>1. Column(d, c, 2) = [r \in 0 .. m - 1 |->
          IF d[<<r, c>>] = "one" THEN 1 ELSE IF d[<<r, c>>] = "zero" THEN 0 ELSE 2]
  BY Size DEF Column
<1>2. \A r \in 0 .. m - 1 :
         (IF d[<<r, c>>] = "one" THEN 1 ELSE IF d[<<r, c>>] = "zero" THEN 0 ELSE 2) \in 0 .. 2
  OBVIOUS
<1> QED BY <1>1, <1>2

LEMMA ColumnEntry ==
  ASSUME NEW m \in Nat \ {0}, NEW n \in Nat \ {0}, NEW d \in Matrices(m, n),
         NEW c \in 0 .. n - 1, NEW r \in 0 .. m - 1
  PROVE  /\ d[<<r, c>>] \in {"free", "zero", "one"}
         /\ Column(d, c, 2)[r] = IF d[<<r, c>>] = "one" THEN 1 ELSE IF d[<<r, c>>] = "zero" THEN 0 ELSE 2
<1>1. Column(d, c, 2) = [t \in 0 .. m - 1 |->
          IF d[<<t, c>>] = "one" THEN 1 ELSE IF d[<<t, c>>] = "zero" THEN 0 ELSE 2]
  BY Size DEF Column
<1>2. d[<<r, c>>] \in {"free", "zero", "one"}
  BY DEF Matrices
<1>3. Column(d, c, 2)[r] = IF d[<<r, c>>] = "one" THEN 1 ELSE IF d[<<r, c>>] = "zero" THEN 0 ELSE 2
  BY <1>1
<1> QED BY <1>2, <1>3

(* The columns from the last to the first, and from the first to the last.  *)
Backwards(d, n) == [k \in 0 .. n - 1 |-> Column(d, n - 1 - k, 2)]
Forwards(d, n)  == [k \in 0 .. n - 1 |-> Column(d, k, 2)]

(* What the recursive functions of the two faces say.                       *)
LEMMA LowUnfolds ==
  ASSUME NEW m \in Nat \ {0}, NEW n \in Nat \ {0}, NEW d \in Matrices(m, n)
  PROVE  \E f : /\ Chain(m, n, 1, Backwards(d, n), f)
                /\ \A k \in 0 .. n - 1 : f[k] = LexMinFace(d)[n - 1 - k]
<1> DEFINE F == CHOOSE F : F = [c \in 0 .. NC(d) - 1 |->
                  IF c = NC(d) - 1 THEN [bad |-> FALSE, col |-> Column(d, c, 0)]
                  ELSE IF F[c + 1].bad THEN F[c + 1]
                  ELSE Completed(Column(d, c, 2), F[c + 1].col, 1)]
           A == [k \in 0 .. n - 1 |-> Column(d, n - 1 - k, 2)]
           b == [bad |-> FALSE, col |-> Column(d, n - 1, 0)]
<1>1. LexMinFace(d) = [c \in 0 .. NC(d) - 1 |-> F[c]]
  BY Zenon DEF LexMinFace
<1>2. NC(d) = n
  BY Size
<1>3. \A k \in 0 .. n - 1 : n - 1 - k \in 0 .. n - 1 /\ n - 1 - (n - 1 - k) = k
  OBVIOUS
<1>4. A \in [0 .. n - 1 -> [0 .. m - 1 -> 0 .. 2]] /\ b \in Faces(m)
  <2>1. \A k \in 0 .. n - 1 : Column(d, n - 1 - k, 2) \in [0 .. m - 1 -> 0 .. 2]
    BY <1>3, ColumnShape
  <2>2. n - 1 \in 0 .. n - 1 /\ 0 \in 0 .. 1
    OBVIOUS
  <2>3. b \in Faces(m)
    BY <2>2, ColumnFilled
  <2> QED BY <2>1, <2>3
<1>5. PICK g : ChainFrom(m, n, 1, A, b, g)
  <2> HIDE DEF A, b
  <2>1. 1 \in 0 .. 1
    OBVIOUS
  <2> QED BY <1>4, <2>1, ChainExists
<1> DEFINE G == [c \in 0 .. NC(d) - 1 |-> g[n - 1 - c]]
<1>6. ASSUME NEW c \in 0 .. NC(d) - 1
      PROVE  G[c] = IF c = NC(d) - 1 THEN [bad |-> FALSE, col |-> Column(d, c, 0)]
                    ELSE IF G[c + 1].bad THEN G[c + 1]
                    ELSE Completed(Column(d, c, 2), G[c + 1].col, 1)
  <2>1. G[c] = g[n - 1 - c] /\ c \in 0 .. n - 1
    BY <1>2
  <2>2. CASE c = NC(d) - 1
    <3>1. n - 1 - c = 0 /\ c = n - 1
      BY <1>2, <2>2
    <3> QED BY <1>5, <2>1, <2>2, <3>1 DEF ChainFrom
  <2>3. CASE c # NC(d) - 1
    <3>1. /\ c + 1 \in 0 .. NC(d) - 1 /\ n - 1 - c \in 1 .. n - 1 /\ n - 1 - c \in 0 .. n - 1
          /\ n - 1 - (c + 1) = (n - 1 - c) - 1 /\ n - 1 - (n - 1 - c) = c
      BY <1>2, <2>3
    <3>2. G[c + 1] = g[(n - 1 - c) - 1] /\ A[n - 1 - c] = Column(d, c, 2)
      BY <3>1
    <3> HIDE DEF G, A, b
    <3> QED BY <1>5, <2>1, <2>3, <3>1, <3>2 DEF ChainFrom
  <2> QED BY <2>2, <2>3
<1>7. \E H : H = [c \in 0 .. NC(d) - 1 |->
                  IF c = NC(d) - 1 THEN [bad |-> FALSE, col |-> Column(d, c, 0)]
                  ELSE IF H[c + 1].bad THEN H[c + 1]
                  ELSE Completed(Column(d, c, 2), H[c + 1].col, 1)]
  <2> DEFINE E(c) == IF c = NC(d) - 1 THEN [bad |-> FALSE, col |-> Column(d, c, 0)]
                     ELSE IF G[c + 1].bad THEN G[c + 1]
                     ELSE Completed(Column(d, c, 2), G[c + 1].col, 1)
  <2>1. G = [c \in 0 .. NC(d) - 1 |-> E(c)]
    <3>1. \A c \in 0 .. NC(d) - 1 : G[c] = E(c)
      BY <1>6
    <3>2. G = [c \in 0 .. NC(d) - 1 |-> G[c]]
      OBVIOUS
    <3> HIDE DEF G, E
    <3> QED BY <3>1, <3>2
  <2> HIDE DEF G
  <2> QED BY <2>1, Zenon
<1>8. F = [c \in 0 .. NC(d) - 1 |->
                  IF c = NC(d) - 1 THEN [bad |-> FALSE, col |-> Column(d, c, 0)]
                  ELSE IF F[c + 1].bad THEN F[c + 1]
                  ELSE Completed(Column(d, c, 2), F[c + 1].col, 1)]
  <2> HIDE DEF F
  <2> QED BY <1>7, Zenon DEF F
<1> HIDE DEF F
<1>9. \A c \in 0 .. n - 1 : LexMinFace(d)[c] = F[c]
  BY <1>1, <1>2
<1> DEFINE f == [k \in 0 .. n - 1 |-> F[n - 1 - k]]
<1>10. f[0] = b
  <2>1. 0 \in 0 .. n - 1 /\ n - 1 - 0 = n - 1 /\ n - 1 \in 0 .. NC(d) - 1 /\ n - 1 = NC(d) - 1
    BY <1>2
  <2> QED BY <1>8, <2>1
<1>11. ASSUME NEW k \in 1 .. n - 1
       PROVE  f[k] = IF f[k - 1].bad THEN f[k - 1] ELSE Completed(A[k], f[k - 1].col, 1)
  <2>1. /\ k \in 0 .. n - 1 /\ k - 1 \in 0 .. n - 1 /\ n - 1 - k \in 0 .. NC(d) - 1
        /\ n - 1 - k # NC(d) - 1 /\ n - 1 - (k - 1) = (n - 1 - k) + 1
    BY <1>2
  <2>2. f[k] = F[n - 1 - k] /\ f[k - 1] = F[(n - 1 - k) + 1] /\ A[k] = Column(d, n - 1 - k, 2)
    BY <2>1
  <2> DEFINE c == n - 1 - k
  <2>3. c \in 0 .. NC(d) - 1 /\ c # NC(d) - 1
    BY <2>1
  <2> HIDE DEF c
  <2>4. F[c] = IF F[c + 1].bad THEN F[c + 1] ELSE Completed(Column(d, c, 2), F[c + 1].col, 1)
    BY <1>8, <2>3
  <2> HIDE DEF f, A
  <2> QED BY <2>2, <2>4 DEF c
<1>12. Chain(m, n, 1, A, f)
  <2>1. f[0] = [bad |-> f[0].bad, col |-> f[0].col] /\ f[0].bad = FALSE
    BY <1>10
  <2>2. f[0].col = Column(d, n - 1, 0)
    BY <1>10
  <2>3. n - 1 \in 0 .. n - 1 /\ 0 \in 0 .. n - 1 /\ n - 1 - 0 = n - 1 /\ 1 - 1 = 0 /\ 0 \in 0 .. 1
    OBVIOUS
  <2>4. A[0] = Column(d, n - 1, 2)
    BY <2>3
  <2>5. Column(d, n - 1, 0) = Filled(m, Column(d, n - 1, 2), 0)
    BY <2>3, ColumnFilled
  <2> HIDE DEF f, A
  <2>6. f[0].col = Filled(m, A[0], 1 - 1)
    BY <2>2, <2>3, <2>4, <2>5
  <2> QED BY <1>11, <2>1, <2>6 DEF Chain
<1>13. \A k \in 0 .. n - 1 : f[k] = LexMinFace(d)[n - 1 - k]
  BY <1>3, <1>9
<1> QED BY <1>12, <1>13 DEF Backwards

LEMMA HighUnfolds ==
  ASSUME NEW m \in Nat \ {0}, NEW n \in Nat \ {0}, NEW d \in Matrices(m, n)
  PROVE  Chain(m, n, 0, Forwards(d, n), LexMaxFace(d))
<1> DEFINE F == CHOOSE F : F = [c \in 0 .. NC(d) - 1 |->
                  IF c = 0 THEN [bad |-> FALSE, col |-> Column(d, c, 1)]
                  ELSE IF F[c - 1].bad THEN F[c - 1]
                  ELSE Completed(Column(d, c, 2), F[c - 1].col, 0)]
           A == [k \in 0 .. n - 1 |-> Column(d, k, 2)]
           b == [bad |-> FALSE, col |-> Column(d, 0, 1)]
<1>1. LexMaxFace(d) = [c \in 0 .. NC(d) - 1 |-> F[c]]
  BY Zenon DEF LexMaxFace
<1>2. NC(d) = n
  BY Size
<1>3. 0 \in 0 .. n - 1 /\ 0 \in 0 .. 1 /\ 1 \in 0 .. 1 /\ 1 - 0 = 1
  OBVIOUS
<1>4. A \in [0 .. n - 1 -> [0 .. m - 1 -> 0 .. 2]] /\ b \in Faces(m)
  <2>1. \A k \in 0 .. n - 1 : Column(d, k, 2) \in [0 .. m - 1 -> 0 .. 2]
    BY ColumnShape
  <2>2. b \in Faces(m)
    BY <1>3, ColumnFilled
  <2> QED BY <2>1, <2>2
<1>5. PICK G : ChainFrom(m, n, 0, A, b, G)
  <2> HIDE DEF A, b
  <2> QED BY <1>3, <1>4, ChainExists
<1> DEFINE E(H, c) == IF c = 0 THEN [bad |-> FALSE, col |-> Column(d, c, 1)]
                      ELSE IF H[c - 1].bad THEN H[c - 1]
                      ELSE Completed(Column(d, c, 2), H[c - 1].col, 0)
<1>6. ASSUME NEW c \in 0 .. NC(d) - 1 PROVE G[c] = E(G, c)
  <2>1. CASE c = 0
    BY <1>5, <2>1 DEF ChainFrom
  <2>2. CASE c # 0
    <3>1. c \in 1 .. n - 1 /\ c \in 0 .. n - 1
      BY <1>2, <2>2
    <3>2. A[c] = Column(d, c, 2)
      BY <3>1
    <3> HIDE DEF A, b
    <3> QED BY <1>5, <2>2, <3>1, <3>2 DEF ChainFrom
  <2> QED BY <2>1, <2>2
<1>7. G = [c \in 0 .. NC(d) - 1 |-> E(G, c)]
  <2>1. G = [c \in 0 .. NC(d) - 1 |-> G[c]]
    BY <1>2, <1>5 DEF ChainFrom
  <2> HIDE DEF E
  <2> QED BY <1>6, <2>1
<1>8. F = [c \in 0 .. NC(d) - 1 |-> E(F, c)]
  <2> HIDE DEF F
  <2> QED BY <1>7, Zenon DEF F
<1> HIDE DEF F
<1> DEFINE f == LexMaxFace(d)
<1>9. \A c \in 0 .. n - 1 : f[c] = F[c]
  BY <1>1, <1>2
<1>10. f[0] = b
  <2>1. F[0] = E(F, 0)
    BY <1>2, <1>3, <1>8
  <2> QED BY <1>3, <1>9, <2>1
<1>11. ASSUME NEW k \in 1 .. n - 1
       PROVE  f[k] = IF f[k - 1].bad THEN f[k - 1] ELSE Completed(A[k], f[k - 1].col, 0)
  <2>1. k \in 0 .. n - 1 /\ k - 1 \in 0 .. n - 1 /\ k # 0
    OBVIOUS
  <2>2. f[k] = F[k] /\ f[k - 1] = F[k - 1] /\ A[k] = Column(d, k, 2)
    BY <1>9, <2>1
  <2>3. F[k] = E(F, k)
    BY <1>2, <1>8, <2>1
  <2>4. F[k] = IF F[k - 1].bad THEN F[k - 1] ELSE Completed(Column(d, k, 2), F[k - 1].col, 0)
    BY <2>1, <2>3
  <2> HIDE DEF f, A
  <2> QED BY <2>2, <2>4
<1> HIDE DEF f
<1>12. Chain(m, n, 0, A, f)
  <2>1. f[0] = [bad |-> f[0].bad, col |-> f[0].col] /\ f[0].bad = FALSE /\ f[0].col = Column(d, 0, 1)
    BY <1>10
  <2>2. A[0] = Column(d, 0, 2)
    BY <1>3
  <2>3. Column(d, 0, 1) = Filled(m, Column(d, 0, 2), 1)
    BY <1>3, ColumnFilled
  <2> HIDE DEF A
  <2>4. f[0].col = Filled(m, A[0], 1 - 0)
    BY <1>3, <2>1, <2>2, <2>3
  <2> QED BY <1>11, <2>1, <2>4 DEF Chain
<1> QED BY <1>12 DEF f, Forwards

(* Two values on opposite sides. *)
LEMMA Opposite ==
  ASSUME NEW m, NEW a, NEW b
  PROVE  Side(m, 1, a, b) <=> Side(m, 0, b, a)
<1>1. 1 \in 0 .. 1 /\ 0 \in 0 .. 1 /\ 1 - 1 = 0 /\ 1 - 0 = 1
  OBVIOUS
<1>2. Side(m, 1, a, b) => Side(m, 0, b, a)
  BY <1>1, SideConverse
<1>3. Side(m, 0, b, a) => Side(m, 1, a, b)
  BY <1>1, SideConverse
<1> QED BY <1>2, <1>3

(* The least face is least, and solves the problem unless it is bad.        *)
LEMMA LowFace ==
  ASSUME NEW m \in Nat \ {0}, NEW n \in Nat \ {0}, NEW d \in Matrices(m, n),
         NEW low, low = LexMinFace(d)
  PROVE  /\ \A c \in 0 .. n - 1 : low[c] \in Faces(m)
         /\ ~low[0].bad => Solves(m, n, d, [c \in 0 .. n - 1 |-> low[c].col])
         /\ \A X : Solves(m, n, d, X) =>
              ~low[0].bad /\ \A c \in 0 .. n - 1 : Side(m, 1, X[c], low[c].col)
<1> DEFINE A == Backwards(d, n)
<1>1. PICK f : Chain(m, n, 1, A, f) /\ \A k \in 0 .. n - 1 : f[k] = low[n - 1 - k]
  BY LowUnfolds
<1>2. \A k \in 0 .. n - 1 : /\ n - 1 - k \in 0 .. n - 1 /\ n - 1 - (n - 1 - k) = k
                            /\ A[k] = Column(d, n - 1 - k, 2)
  BY DEF Backwards
<1>3. A \in [0 .. n - 1 -> [0 .. m - 1 -> 0 .. 2]]
  BY <1>2, ColumnShape DEF Backwards
<1>4. 1 \in 0 .. 1 /\ n - 1 \in 0 .. n - 1 /\ n - 1 - (n - 1) = 0 /\ 0 \in 0 .. n - 1
  OBVIOUS
<1>5. \A c \in 0 .. n - 1 : low[c] = f[n - 1 - c] /\ A[n - 1 - c] = Column(d, c, 2)
  BY <1>1, <1>2
<1> HIDE DEF A
<1>6. \A k \in 0 .. n - 1 : f[k] \in Faces(m)
  BY <1>1, <1>3, <1>4, ChainTyped
<1>7. \A c \in 0 .. n - 1 : low[c] \in Faces(m)
  BY <1>2, <1>5, <1>6
<1>8. f[n - 1] = low[0]
  BY <1>1, <1>4
<1>9. ASSUME ~low[0].bad
      PROVE  Solves(m, n, d, [c \in 0 .. n - 1 |-> low[c].col])
  <2>1. /\ \A k \in 0 .. n - 1 : Agrees(m, f[k].col, A[k])
        /\ \A k \in 1 .. n - 1 : Side(m, 1, f[k].col, f[k - 1].col)
    BY <1>1, <1>3, <1>4, <1>8, <1>9, ChainGood
  <2> DEFINE X == [c \in 0 .. n - 1 |-> low[c].col]
  <2>2. X \in [0 .. n - 1 -> Bits(m)]
    BY <1>7 DEF Faces
  <2>3. ASSUME NEW c \in 0 .. n - 1 PROVE Agrees(m, X[c], Column(d, c, 2))
    BY <1>2, <1>5, <2>1
  <2>4. ASSUME NEW c \in 1 .. n - 1 PROVE Side(m, 1, X[c - 1], X[c])
    <3>1. /\ c \in 0 .. n - 1 /\ c - 1 \in 0 .. n - 1 /\ n - 1 - (c - 1) \in 1 .. n - 1
          /\ n - 1 - (c - 1) - 1 = n - 1 - c
      OBVIOUS
    <3>2. X[c] = f[n - 1 - c].col /\ X[c - 1] = f[n - 1 - (c - 1)].col
      BY <1>5, <3>1
    <3> HIDE DEF X
    <3>3. Side(m, 1, f[n - 1 - (c - 1)].col, f[n - 1 - (c - 1) - 1].col)
      BY <2>1, <3>1
    <3> QED BY <3>1, <3>2, <3>3
  <2> QED BY <2>2, <2>3, <2>4 DEF Solves
<1>10. ASSUME NEW X, Solves(m, n, d, X)
       PROVE  ~low[0].bad /\ \A c \in 0 .. n - 1 : Side(m, 1, X[c], low[c].col)
  <2> DEFINE Y == [k \in 0 .. n - 1 |-> X[n - 1 - k]]
  <2>1. \A k \in 0 .. n - 1 : Y[k] = X[n - 1 - k]
    OBVIOUS
  <2>2. Y \in [0 .. n - 1 -> Bits(m)]
    BY <1>2, <1>10 DEF Solves
  <2> HIDE DEF Y
  <2>3. \A k \in 0 .. n - 1 : Agrees(m, Y[k], A[k])
    <3>1. ASSUME NEW k \in 0 .. n - 1 PROVE Agrees(m, Y[k], A[k])
      <4>1. n - 1 - k \in 0 .. n - 1 /\ A[k] = Column(d, n - 1 - k, 2) /\ Y[k] = X[n - 1 - k]
        BY <1>2, <2>1
      <4> QED BY <1>10, <4>1 DEF Solves
    <3> QED BY <3>1
  <2>4. \A k \in 1 .. n - 1 : Side(m, 1, Y[k], Y[k - 1])
    <3>1. ASSUME NEW k \in 1 .. n - 1 PROVE Side(m, 1, Y[k], Y[k - 1])
      <4>1. /\ k \in 0 .. n - 1 /\ k - 1 \in 0 .. n - 1 /\ n - 1 - (k - 1) \in 1 .. n - 1
            /\ n - 1 - (k - 1) - 1 = n - 1 - k
        OBVIOUS
      <4>2. Y[k] = X[n - 1 - k] /\ Y[k - 1] = X[n - 1 - (k - 1)]
        BY <2>1, <4>1
      <4>3. Side(m, 1, X[n - 1 - (k - 1) - 1], X[n - 1 - (k - 1)])
        BY <1>10, <4>1 DEF Solves
      <4> QED BY <4>1, <4>2, <4>3
    <3> QED BY <3>1
  <2>5. \A k \in 0 .. n - 1 : ~f[k].bad /\ Side(m, 1, Y[k], f[k].col)
    BY <1>1, <1>3, <1>4, <2>2, <2>3, <2>4, ChainFirst
  <2>6. ~low[0].bad
    BY <1>4, <1>8, <2>5
  <2>7. ASSUME NEW c \in 0 .. n - 1 PROVE Side(m, 1, X[c], low[c].col)
    <3>1. n - 1 - c \in 0 .. n - 1 /\ Y[n - 1 - c] = X[c] /\ low[c] = f[n - 1 - c]
      BY <1>2, <1>5, <2>1
    <3> QED BY <2>5, <3>1
  <2> QED BY <2>6, <2>7
<1> QED BY <1>7, <1>9, <1>10

LEMMA HighFace ==
  ASSUME NEW m \in Nat \ {0}, NEW n \in Nat \ {0}, NEW d \in Matrices(m, n),
         NEW high, high = LexMaxFace(d)
  PROVE  /\ \A c \in 0 .. n - 1 : high[c] \in Faces(m)
         /\ ~high[n - 1].bad => Solves(m, n, d, [c \in 0 .. n - 1 |-> high[c].col])
         /\ \A X : Solves(m, n, d, X) =>
              ~high[n - 1].bad /\ \A c \in 0 .. n - 1 : Side(m, 1, high[c].col, X[c])
<1> DEFINE A == Forwards(d, n)
<1>1. Chain(m, n, 0, A, high)
  BY HighUnfolds
<1>2. \A k \in 0 .. n - 1 : A[k] = Column(d, k, 2)
  BY DEF Forwards
<1>3. A \in [0 .. n - 1 -> [0 .. m - 1 -> 0 .. 2]]
  BY <1>2, ColumnShape DEF Forwards
<1>4. 0 \in 0 .. 1 /\ n - 1 \in 0 .. n - 1
  OBVIOUS
<1> HIDE DEF A
<1>5. \A c \in 0 .. n - 1 : high[c] \in Faces(m)
  BY <1>1, <1>3, <1>4, ChainTyped
<1>6. ASSUME ~high[n - 1].bad
      PROVE  Solves(m, n, d, [c \in 0 .. n - 1 |-> high[c].col])
  <2>1. /\ \A k \in 0 .. n - 1 : Agrees(m, high[k].col, A[k])
        /\ \A k \in 1 .. n - 1 : Side(m, 0, high[k].col, high[k - 1].col)
    BY <1>1, <1>3, <1>4, <1>6, ChainGood
  <2> DEFINE X == [c \in 0 .. n - 1 |-> high[c].col]
  <2>2. X \in [0 .. n - 1 -> Bits(m)]
    BY <1>5 DEF Faces
  <2>3. ASSUME NEW c \in 0 .. n - 1 PROVE Agrees(m, X[c], Column(d, c, 2))
    BY <1>2, <2>1
  <2>4. ASSUME NEW c \in 1 .. n - 1 PROVE Side(m, 1, X[c - 1], X[c])
    <3>1. c \in 0 .. n - 1 /\ c - 1 \in 0 .. n - 1
      OBVIOUS
    <3>2. X[c] = high[c].col /\ X[c - 1] = high[c - 1].col
      BY <3>1
    <3> HIDE DEF X
    <3> QED BY <2>1, <3>2, Opposite
  <2> QED BY <2>2, <2>3, <2>4 DEF Solves
<1>7. ASSUME NEW X, Solves(m, n, d, X)
      PROVE  ~high[n - 1].bad /\ \A c \in 0 .. n - 1 : Side(m, 1, high[c].col, X[c])
  <2>1. X \in [0 .. n - 1 -> Bits(m)] /\ \A k \in 0 .. n - 1 : Agrees(m, X[k], A[k])
    BY <1>2, <1>7 DEF Solves
  <2>2. \A k \in 1 .. n - 1 : Side(m, 0, X[k], X[k - 1])
    BY <1>7, Opposite DEF Solves
  <2>3. \A k \in 0 .. n - 1 : ~high[k].bad /\ Side(m, 0, X[k], high[k].col)
    BY <1>1, <1>3, <1>4, <2>1, <2>2, ChainFirst
  <2> QED BY <1>4, <2>3, Opposite
<1> QED BY <1>5, <1>6, <1>7

-------------------------------------------------------------------------------
(***************************************************************************)
(* The fixing.                                                              *)
(***************************************************************************)

(* One column of a solution may be exchanged for one between the faces.     *)
LEMMA Exchange ==
  ASSUME NEW m \in Nat \ {0}, NEW n \in Nat \ {0}, NEW d,
         NEW L, Solves(m, n, d, L), NEW H, Solves(m, n, d, H),
         NEW c \in 0 .. n - 1, NEW y \in Bits(m), Agrees(m, y, Column(d, c, 2)),
         Side(m, 1, y, L[c]), Side(m, 1, H[c], y)
  PROVE  \E X : Solves(m, n, d, X) /\ X[c] = y
<1> DEFINE X == [k \in 0 .. n - 1 |-> IF k < c THEN H[k] ELSE IF k = c THEN y ELSE L[k]]
<1>1. X \in [0 .. n - 1 -> Bits(m)] /\ X[c] = y
  BY DEF Solves
<1>2. ASSUME NEW k \in 0 .. n - 1 PROVE Agrees(m, X[k], Column(d, k, 2))
  BY DEF Solves
<1>3. ASSUME NEW k \in 1 .. n - 1 PROVE Side(m, 1, X[k - 1], X[k])
  <2>1. /\ k \in 0 .. n - 1 /\ k - 1 \in 0 .. n - 1 /\ 1 \in 0 .. 1
        /\ L[k] \in Bits(m) /\ L[k - 1] \in Bits(m) /\ H[k] \in Bits(m) /\ H[k - 1] \in Bits(m)
    BY DEF Solves
  <2>2. Side(m, 1, L[k - 1], L[k]) /\ Side(m, 1, H[k - 1], H[k])
    BY DEF Solves
  <2>3. CASE k < c
    <3>1. X[k] = H[k] /\ X[k - 1] = H[k - 1]
      BY <2>1, <2>3
    <3> QED BY <2>2, <3>1
  <2>4. CASE k = c
    <3>1. X[k] = y /\ X[k - 1] = H[k - 1]
      BY <2>1, <2>4
    <3>2. Side(m, 1, H[k - 1], y)
      BY <2>1, <2>2, <2>4, SideTransitive
    <3> QED BY <3>1, <3>2
  <2>5. CASE k - 1 = c
    <3>1. X[k] = L[k] /\ X[k - 1] = y
      BY <2>1, <2>5
    <3>2. Side(m, 1, y, L[k])
      BY <2>1, <2>2, <2>5, SideTransitive
    <3> QED BY <3>1, <3>2
  <2>6. CASE k - 1 > c
    <3>1. X[k] = L[k] /\ X[k - 1] = L[k - 1]
      BY <2>1, <2>6
    <3> QED BY <2>2, <3>1
  <2>7. k < c \/ k = c \/ k - 1 = c \/ k - 1 > c
    BY <2>1
  <2> QED BY <2>3, <2>4, <2>5, <2>6, <2>7
<1>4. Solves(m, n, d, X)
  BY <1>1, <1>2, <1>3 DEF Solves
<1> QED BY <1>1, <1>4

(* Below their first difference there are columns between two others with   *)
(* either value.                                                            *)
LEMMA BothBelow ==
  ASSUME NEW m \in Nat \ {0}, NEW a \in Bits(m), NEW b \in Bits(m),
         NEW q \in 0 .. m - 1, a[q] = 0, b[q] = 1, \A t \in 0 .. q - 1 : a[t] = b[t],
         NEW r \in q + 1 .. m - 1, NEW w \in 0 .. 1,
         NEW f \in [0 .. m - 1 -> 0 .. 2], f[r] = 2, Agrees(m, a, f), Agrees(m, b, f)
  PROVE  \E y \in Bits(m) : /\ y[r] = w /\ Agrees(m, y, f)
                            /\ Side(m, 1, y, a) /\ Side(m, 1, b, y)
<1>0. r \in 0 .. m - 1 /\ r # q /\ ~(r < q) /\ m \in Nat
  OBVIOUS
<1>1. CASE w = 1
  <2> DEFINE y == [t \in 0 .. m - 1 |-> IF t = r THEN 1 ELSE a[t]]
  <2>1. y \in Bits(m) /\ y[r] = 1 /\ \A t \in 0 .. m - 1 : t # r => y[t] = a[t]
    BY <1>0 DEF Bits
  <2> HIDE DEF y
  <2>2. Side(m, 1, y, a)
    <3>1. \A t \in 0 .. m - 1 : ~(y[t] = 1 - 1 /\ a[t] = 1)
      BY <2>1
    <3> QED BY <3>1 DEF Side
  <2>3. ASSUME NEW t \in 0 .. m - 1, b[t] = 1 - 1, y[t] = 1 PROVE q \in 0 .. t - 1
    <3>1. t # q
      BY <2>3
    <3>2. ~(t < q)
      <4>1. t < q => t \in 0 .. q - 1 /\ t # r
        BY <1>0
      <4> QED BY <2>1, <2>3, <4>1
    <3> QED BY <3>1, <3>2
  <2>4. b[q] = 1 /\ y[q] = 1 - 1
    BY <1>0, <2>1
  <2>5. Side(m, 1, b, y)
    BY <2>3, <2>4 DEF Side
  <2>6. Agrees(m, y, f)
    BY <2>1 DEF Agrees
  <2> QED BY <1>1, <2>1, <2>2, <2>5, <2>6
<1>2. CASE w = 0
  <2> DEFINE y == [t \in 0 .. m - 1 |-> IF t = r THEN 0 ELSE b[t]]
  <2>1. y \in Bits(m) /\ y[r] = 0 /\ \A t \in 0 .. m - 1 : t # r => y[t] = b[t]
    BY <1>0 DEF Bits
  <2> HIDE DEF y
  <2>2. Side(m, 1, b, y)
    <3>1. \A t \in 0 .. m - 1 : ~(b[t] = 1 - 1 /\ y[t] = 1)
      BY <2>1
    <3> QED BY <3>1 DEF Side
  <2>3. ASSUME NEW t \in 0 .. m - 1, y[t] = 1 - 1, a[t] = 1 PROVE q \in 0 .. t - 1
    <3>1. t # q
      BY <2>3
    <3>2. ~(t < q)
      <4>1. t < q => t \in 0 .. q - 1 /\ t # r
        BY <1>0
      <4> QED BY <2>1, <2>3, <4>1
    <3> QED BY <3>1, <3>2
  <2>4. y[q] = 1 /\ a[q] = 1 - 1
    BY <1>0, <2>1
  <2>5. Side(m, 1, y, a)
    BY <2>3, <2>4 DEF Side
  <2>6. Agrees(m, y, f)
    BY <2>1 DEF Agrees
  <2> QED BY <1>2, <2>1, <2>2, <2>5, <2>6
<1>3. w = 1 \/ w = 0
  OBVIOUS
<1> QED BY <1>1, <1>2, <1>3

(* The matrix X has the fixed entries of d. *)
LEMMA AgreesByEntry ==
  ASSUME NEW m \in Nat \ {0}, NEW n \in Nat \ {0}, NEW d \in Matrices(m, n),
         NEW c \in 0 .. n - 1, NEW x
  PROVE  Agrees(m, x, Column(d, c, 2)) <=>
           \A r \in 0 .. m - 1 : (d[<<r, c>>] = "one" => x[r] = 1) /\ (d[<<r, c>>] = "zero" => x[r] = 0)
<1>1. ASSUME NEW r \in 0 .. m - 1
      PROVE  (Column(d, c, 2)[r] # 2 => x[r] = Column(d, c, 2)[r]) <=>
             ((d[<<r, c>>] = "one" => x[r] = 1) /\ (d[<<r, c>>] = "zero" => x[r] = 0))
  <2>1. Column(d, c, 2)[r] = IF d[<<r, c>>] = "one" THEN 1 ELSE IF d[<<r, c>>] = "zero" THEN 0 ELSE 2
    BY ColumnEntry
  <2> DEFINE w == d[<<r, c>>]
             v == Column(d, c, 2)[r]
  <2>2. v = IF w = "one" THEN 1 ELSE IF w = "zero" THEN 0 ELSE 2
    BY <2>1
  <2> HIDE DEF w, v
  <2>3. (v # 2 => x[r] = v) <=> ((w = "one" => x[r] = 1) /\ (w = "zero" => x[r] = 0))
    BY <2>2
  <2> QED BY <2>3 DEF w, v
<1> QED BY <1>1 DEF Agrees

(* In all solutions an entry above the first difference of the faces has    *)
(* their value.                                                             *)
LEMMA CommonValue ==
  ASSUME NEW m \in Nat \ {0}, NEW n \in Nat \ {0}, NEW d \in Matrices(m, n),
         NEW low, low = LexMinFace(d), NEW high, high = LexMaxFace(d),
         NEW X, Solves(m, n, d, X), NEW r \in 0 .. m - 1, NEW c \in 0 .. n - 1,
         \A t \in 0 .. r : low[c].col[t] = high[c].col[t]
  PROVE  X[c][r] = low[c].col[r]
<1>1. low[c].col \in Bits(m) /\ high[c].col \in Bits(m) /\ X[c] \in Bits(m)
  BY LowFace, HighFace DEF Faces, Solves
<1>2. Side(m, 1, X[c], low[c].col) /\ Side(m, 1, high[c].col, X[c])
  BY LowFace, HighFace
<1> QED BY <1>1, <1>2, Between

(* Any other free entry has both values.                                    *)
LEMMA BothValues ==
  ASSUME NEW m \in Nat \ {0}, NEW n \in Nat \ {0}, NEW d \in Matrices(m, n),
         NEW low, low = LexMinFace(d), NEW high, high = LexMaxFace(d),
         ~low[0].bad, ~high[n - 1].bad,
         NEW r \in 0 .. m - 1, NEW c \in 0 .. n - 1, d[<<r, c>>] = "free",
         ~\A t \in 0 .. r : low[c].col[t] = high[c].col[t],
         NEW w \in 0 .. 1
  PROVE  \E X : Solves(m, n, d, X) /\ X[c][r] = w
<1> DEFINE L == [k \in 0 .. n - 1 |-> low[k].col]
           H == [k \in 0 .. n - 1 |-> high[k].col]
<1>1. Solves(m, n, d, L) /\ Solves(m, n, d, H)
  BY LowFace, HighFace
<1>2. L[c] = low[c].col /\ H[c] = high[c].col
  OBVIOUS
<1> HIDE DEF L, H
<1> DEFINE a == L[c]
           b == H[c]
           T == {t \in 0 .. r : a[t] # b[t]}
<1>3. a \in Bits(m) /\ b \in Bits(m) /\ Agrees(m, a, Column(d, c, 2)) /\ Agrees(m, b, Column(d, c, 2))
  BY <1>1 DEF Solves
<1>4. Side(m, 1, b, a)
  BY <1>1, <1>2, LowFace
<1>5. T \subseteq Nat /\ T # {}
  BY <1>2
<1>6. PICK q \in T : \A t \in T : q <= t
  <2> HIDE DEF T
  <2>1. Min(T) \in T /\ \A t \in T : Min(T) <= t
    BY <1>5, MinIsLeast
  <2> QED BY <2>1
<1>7. q \in 0 .. r /\ q \in 0 .. m - 1 /\ a[q] # b[q] /\ \A t \in 0 .. q - 1 : a[t] = b[t]
  <2>1. q \in 0 .. r /\ q \in 0 .. m - 1 /\ a[q] # b[q]
    BY <1>6
  <2>2. \A t \in 0 .. q - 1 : t \in 0 .. r /\ ~(q <= t)
    BY <2>1
  <2> QED BY <1>6, <2>1, <2>2
<1>8. a[q] = 0 /\ b[q] = 1
  <2>1. 1 \in 0 .. 1 /\ 1 - 1 = 0
    OBVIOUS
  <2> HIDE DEF a, b
  <2>2. b[q] = a[q] \/ (b[q] = 1 /\ a[q] = 1 - 1)
    BY <1>3, <1>4, <1>7, <2>1, FirstDifference
  <2> QED BY <1>7, <2>1, <2>2
<1>9. CASE q = r
  <2>1. w = 0 \/ w = 1
    OBVIOUS
  <2> QED BY <1>1, <1>8, <1>9, <2>1
<1>10. CASE q # r
  <2>1. r \in q + 1 .. m - 1
    BY <1>7, <1>10
  <2>2. Column(d, c, 2) \in [0 .. m - 1 -> 0 .. 2] /\ Column(d, c, 2)[r] = 2
    BY ColumnShape, ColumnEntry
  <2> HIDE DEF a, b
  <2>3. PICK y \in Bits(m) : /\ y[r] = w /\ Agrees(m, y, Column(d, c, 2))
                             /\ Side(m, 1, y, a) /\ Side(m, 1, b, y)
    <3> DEFINE g == Column(d, c, 2)
    <3>1. a \in Bits(m) /\ b \in Bits(m) /\ Agrees(m, a, g) /\ Agrees(m, b, g)
      BY <1>3
    <3>2. q \in 0 .. m - 1 /\ a[q] = 0 /\ b[q] = 1
      BY <1>7, <1>8
    <3>3. \A t \in 0 .. q - 1 : a[t] = b[t]
      BY <1>7
    <3>4. g \in [0 .. m - 1 -> 0 .. 2] /\ g[r] = 2
      BY <2>2
    <3> HIDE DEF g
    <3>5. \E y \in Bits(m) : /\ y[r] = w /\ Agrees(m, y, g)
                             /\ Side(m, 1, y, a) /\ Side(m, 1, b, y)
      BY <2>1, <3>1, <3>2, <3>3, <3>4, BothBelow, SMTT(60)
    <3> QED BY <3>5 DEF g
  <2>4. \E X : Solves(m, n, d, X) /\ X[c] = y
    BY <1>1, <2>3, Exchange DEF a, b
  <2> QED BY <2>3, <2>4
<1> QED BY <1>9, <1>10

(* The propagation of a full orbitope is exact: it finds that there is no   *)
(* sorted matrix within the bounds when there is none, and only then; it    *)
(* fixes an entry when all of them have the same value there, and only      *)
(* then; and the caller is told of fixings exactly when there are some.     *)
THEOREM FullFixingExact ==
  ASSUME NEW m \in Nat \ {0}, NEW n \in Nat \ {0}, NEW d \in Matrices(m, n),
         NEW f, f = FullFixing(d)
  PROVE  /\ f.infeasible \in BOOLEAN /\ f.nfixed \in Nat /\ f.dom \in Matrices(m, n)
         /\ f.infeasible <=> ~\E X : Solves(m, n, d, X)
         /\ f.infeasible => f.dom = d
         /\ f.nfixed > 0 <=> f.dom # d
         /\ \A r \in 0 .. m - 1, c \in 0 .. n - 1 :
              /\ f.dom[<<r, c>>] = d[<<r, c>>] \/ d[<<r, c>>] = "free"
              /\ ~f.infeasible =>
                   /\ f.dom[<<r, c>>] = "one"  <=> \A X : Solves(m, n, d, X) => X[c][r] = 1
                   /\ f.dom[<<r, c>>] = "zero" <=> \A X : Solves(m, n, d, X) => X[c][r] = 0
<1> DEFINE low  == LexMinFace(d)
           high == LexMaxFace(d)
           bad  == low[0].bad \/ high[NC(d) - 1].bad
           E    == IF bad THEN {} ELSE Common(d, low, high)
           D    == [e \in DOMAIN d |-> IF e \notin E THEN d[e]
                                       ELSE IF low[e[2]].col[e[1]] = 1 THEN "one" ELSE "zero"]
           L    == [k \in 0 .. n - 1 |-> low[k].col]
           H    == [k \in 0 .. n - 1 |-> high[k].col]
<1>1. f.infeasible = bad /\ f.nfixed = Cardinality(E) /\ f.dom = D
  BY DEF FullFixing
<1>2. NC(d) = n /\ DOMAIN d = (0 .. m - 1) \X (0 .. n - 1)
  BY Size DEF Matrices
<1>3. bad = (low[0].bad \/ high[n - 1].bad)
  BY <1>2
<1>4. low[0].bad \in BOOLEAN /\ high[n - 1].bad \in BOOLEAN
  <2>1. 0 \in 0 .. n - 1 /\ n - 1 \in 0 .. n - 1
    OBVIOUS
  <2> QED BY <2>1, LowFace, HighFace DEF Faces
<1>5. bad <=> ~\E X : Solves(m, n, d, X)
  <2>1. ASSUME ~bad PROVE \E X : Solves(m, n, d, X)
    <3>1. Solves(m, n, d, L)
      BY <1>3, <2>1, LowFace
    <3> QED BY <3>1
  <2>2. ASSUME NEW X, Solves(m, n, d, X) PROVE ~bad
    <3>1. ~low[0].bad
      BY <2>2, LowFace
    <3>2. ~high[n - 1].bad
      BY <2>2, HighFace
    <3> QED BY <1>3, <3>1, <3>2
  <2> QED BY <2>1, <2>2
<1> HIDE DEF low, high
<1>6. E \subseteq DOMAIN d /\ \A e \in E : d[e] = "free"
  BY DEF Common
<1>7. IsFiniteSet(E) /\ Cardinality(E) \in Nat /\ (Cardinality(E) > 0 <=> E # {})
  <2>1. IsFiniteSet(DOMAIN d)
    <3>1. IsFiniteSet(0 .. m - 1) /\ IsFiniteSet(0 .. n - 1)
      BY FS_Interval
    <3> QED BY <1>2, <3>1, FS_Product
  <2> HIDE DEF E
  <2>2. IsFiniteSet(E) /\ Cardinality(E) \in Nat
    BY <1>6, <2>1, FS_Subset, FS_CardinalityType
  <2>3. Cardinality(E) = 0 <=> E = {}
    BY <2>2, FS_EmptySet
  <2> QED BY <2>2, <2>3
<1> HIDE DEF E
<1>8. D \in Matrices(m, n) /\ DOMAIN D = DOMAIN d
  BY <1>2 DEF Matrices
<1>9. \A e \in DOMAIN d : /\ e \notin E => D[e] = d[e]
                          /\ e \in E => D[e] # d[e] /\ D[e] = IF low[e[2]].col[e[1]] = 1 THEN "one" ELSE "zero"
  BY <1>6
<1> HIDE DEF D
<1>10. E # {} <=> D # d
  <2>1. ASSUME E = {} PROVE D = d
    <3>1. \A e \in DOMAIN d : D[e] = d[e]
      BY <1>9, <2>1
    <3> QED BY <1>8, <3>1 DEF Matrices
  <2> QED BY <1>6, <1>9, <2>1
<1>11. bad => E = {}
  BY DEF E
<1>12. ASSUME NEW r \in 0 .. m - 1, NEW c \in 0 .. n - 1
       PROVE  /\ D[<<r, c>>] = d[<<r, c>>] \/ d[<<r, c>>] = "free"
              /\ ~bad => /\ D[<<r, c>>] = "one"  <=> \A X : Solves(m, n, d, X) => X[c][r] = 1
                         /\ D[<<r, c>>] = "zero" <=> \A X : Solves(m, n, d, X) => X[c][r] = 0
  <2>1. <<r, c>> \in DOMAIN d
    BY <1>2
  <2>2. D[<<r, c>>] = d[<<r, c>>] \/ d[<<r, c>>] = "free"
    BY <1>6, <1>9, <2>1
  <2>3. ASSUME ~bad
        PROVE  /\ D[<<r, c>>] = "one"  <=> \A X : Solves(m, n, d, X) => X[c][r] = 1
               /\ D[<<r, c>>] = "zero" <=> \A X : Solves(m, n, d, X) => X[c][r] = 0
    <3>0. Solves(m, n, d, L) /\ ~low[0].bad /\ ~high[n - 1].bad /\ low[c].col \in Bits(m)
      BY <1>3, <2>3, LowFace DEF low, high, Faces
    <3> HIDE DEF L
    <3>1. CASE <<r, c>> \in E
      <4>1. \A t \in 0 .. r : low[c].col[t] = high[c].col[t]
        BY <2>3, <3>1 DEF E, Common
      <4>2. \A X : Solves(m, n, d, X) => X[c][r] = low[c].col[r]
        BY <4>1, CommonValue DEF low, high
      <4>3. low[c].col[r] \in 0 .. 1
        BY <3>0 DEF Bits
      <4>4. D[<<r, c>>] = IF low[c].col[r] = 1 THEN "one" ELSE "zero"
        BY <1>9, <2>1, <3>1
      <4>5. CASE low[c].col[r] = 1
        BY <3>0, <4>2, <4>4, <4>5
      <4>6. CASE low[c].col[r] = 0
        BY <3>0, <4>2, <4>4, <4>6
      <4> QED BY <4>3, <4>5, <4>6
    <3>2. CASE <<r, c>> \notin E /\ d[<<r, c>>] = "free"
      <4>1. ~\A t \in 0 .. r : low[c].col[t] = high[c].col[t]
        BY <2>1, <2>3, <3>2 DEF E, Common
      <4>2. ASSUME NEW w \in 0 .. 1 PROVE \E X : Solves(m, n, d, X) /\ X[c][r] = w
        BY <3>0, <3>2, <4>1, BothValues DEF low, high
      <4>3. (\E X : Solves(m, n, d, X) /\ X[c][r] = 0) /\ \E X : Solves(m, n, d, X) /\ X[c][r] = 1
        BY <4>2
      <4>4. D[<<r, c>>] = "free"
        BY <1>9, <2>1, <3>2
      <4> QED BY <4>3, <4>4
    <3>3. CASE <<r, c>> \notin E /\ d[<<r, c>>] # "free"
      <4>1. D[<<r, c>>] = d[<<r, c>>] /\ d[<<r, c>>] \in {"zero", "one"}
        BY <1>9, <2>1, <3>3, ColumnEntry
      <4>2. \A X : Solves(m, n, d, X) =>
              (d[<<r, c>>] = "one" => X[c][r] = 1) /\ (d[<<r, c>>] = "zero" => X[c][r] = 0)
        BY AgreesByEntry DEF Solves
      <4>3. CASE d[<<r, c>>] = "one"
        BY <3>0, <4>1, <4>2, <4>3
      <4>4. CASE d[<<r, c>>] = "zero"
        BY <3>0, <4>1, <4>2, <4>4
      <4> QED BY <4>1, <4>3, <4>4
    <3> QED BY <3>1, <3>2, <3>3
  <2> QED BY <2>2, <2>3
<1>13. bad \in BOOLEAN
  BY <1>3, <1>4
<1> HIDE DEF bad
<1> QED BY <1>1, <1>5, <1>7, <1>8, <1>10, <1>11, <1>12, <1>13

-------------------------------------------------------------------------------
(***************************************************************************)
(* Submatrices, and matrices restricted to them.                           *)
(***************************************************************************)
Grid == [Rows -> [Cols -> 0 .. 1]]

Proper(s) ==
  /\ s.rows \in Seq(Rows) \ {<<>>} /\ s.cols \in Seq(Cols) \ {<<>>}
  /\ NoneTwice(s.rows) /\ NoneTwice(s.cols)

(* The entry of the matrix at row r and column c of the copy.              *)
At(s, r, c) == <<s.rows[r + 1], s.cols[c + 1]>>

LEMMA Shape ==
  ASSUME NEW s, Proper(s), NEW m, m = Len(s.rows), NEW n, n = Len(s.cols)
  PROVE  /\ m \in Nat \ {0} /\ n \in Nat \ {0}
         /\ DOMAIN s.rows = 1 .. m /\ DOMAIN s.cols = 1 .. n
         /\ \A g \in 1 .. m : s.rows[g] \in Rows
         /\ \A h \in 1 .. n : s.cols[h] \in Cols
         /\ \A r \in 0 .. m - 1 : r + 1 \in 1 .. m /\ s.rows[r + 1] \in Rows
         /\ \A c \in 0 .. n - 1 : c + 1 \in 1 .. n /\ s.cols[c + 1] \in Cols
<1>1. s.rows \in Seq(Rows) /\ s.rows # <<>> /\ s.cols \in Seq(Cols) /\ s.cols # <<>>
  BY DEF Proper
<1>2. m \in Nat /\ n \in Nat /\ DOMAIN s.rows = 1 .. m /\ DOMAIN s.cols = 1 .. n
  BY <1>1
<1>3. m # 0 /\ n # 0
  BY <1>1
<1>4. /\ \A g \in 1 .. m : s.rows[g] \in Rows
      /\ \A h \in 1 .. n : s.cols[h] \in Cols
  BY <1>1, <1>2
<1>5. /\ \A r \in 0 .. m - 1 : r + 1 \in 1 .. m
      /\ \A c \in 0 .. n - 1 : c + 1 \in 1 .. n
  BY <1>2
<1> QED BY <1>2, <1>3, <1>4, <1>5

LEMMA AtEntry ==
  ASSUME NEW s, Proper(s), NEW m, m = Len(s.rows), NEW n, n = Len(s.cols),
         NEW r \in 0 .. m - 1, NEW c \in 0 .. n - 1
  PROVE  /\ At(s, r, c) \in Covered(s) /\ At(s, r, c) \in Rows \X Cols
         /\ s.rows[r + 1] \in Rows /\ s.cols[c + 1] \in Cols
BY Shape DEF At, Covered

LEMMA CoveredAt ==
  ASSUME NEW s, Proper(s), NEW m, m = Len(s.rows), NEW n, n = Len(s.cols), NEW e \in Covered(s)
  PROVE  \E r \in 0 .. m - 1, c \in 0 .. n - 1 : e = At(s, r, c)
<1>1. PICK g \in DOMAIN s.rows, h \in DOMAIN s.cols : e = <<s.rows[g], s.cols[h]>>
  BY DEF Covered
<1>2. g \in 1 .. m /\ h \in 1 .. n /\ m \in Nat /\ n \in Nat
  BY Shape
<1>3. g - 1 \in 0 .. m - 1 /\ h - 1 \in 0 .. n - 1 /\ (g - 1) + 1 = g /\ (h - 1) + 1 = h
  BY <1>2
<1>4. e = At(s, g - 1, h - 1)
  BY <1>1, <1>3 DEF At
<1> QED BY <1>3, <1>4

(* Each entry of the submatrix has one place in the copy.                   *)
LEMMA PlaceFound ==
  ASSUME NEW s, Proper(s), NEW m, m = Len(s.rows), NEW n, n = Len(s.cols),
         NEW r \in 0 .. m - 1, NEW c \in 0 .. n - 1
  PROVE  Place(s, At(s, r, c)) = <<r, c>>
<1>1. ASSUME NEW f \in Copy(s), At(s, r, c) = <<s.rows[f[1] + 1], s.cols[f[2] + 1]>>
      PROVE  f = <<r, c>>
  <2>1. f[1] \in 0 .. m - 1 /\ f[2] \in 0 .. n - 1 /\ f = <<f[1], f[2]>>
    BY DEF Copy
  <2>2. s.rows[r + 1] = s.rows[f[1] + 1] /\ s.cols[c + 1] = s.cols[f[2] + 1]
    BY <1>1 DEF At
  <2>3. /\ r + 1 \in DOMAIN s.rows /\ f[1] + 1 \in DOMAIN s.rows
        /\ c + 1 \in DOMAIN s.cols /\ f[2] + 1 \in DOMAIN s.cols
    BY <2>1, Shape
  <2>4. r + 1 = f[1] + 1 /\ c + 1 = f[2] + 1
    BY <2>2, <2>3 DEF Proper, NoneTwice
  <2>5. r = f[1] /\ c = f[2]
    BY <2>1, <2>4, Shape
  <2> QED BY <2>1, <2>5
<1>2. <<r, c>> \in Copy(s)
  BY DEF Copy
<1>3. At(s, r, c) = <<s.rows[<<r, c>>[1] + 1], s.cols[<<r, c>>[2] + 1]>>
  BY DEF At
<1> QED BY <1>1, <1>2, <1>3 DEF Place

LEMMA CopyEntry ==
  ASSUME NEW s, Proper(s), NEW m, m = Len(s.rows), NEW n, n = Len(s.cols), NEW d \in Bounds,
         NEW r \in 0 .. m - 1, NEW c \in 0 .. n - 1
  PROVE  SubBounds(d, s)[<<r, c>>] = d[At(s, r, c)] /\ d[At(s, r, c)] \in {"free", "zero", "one"}
<1>1. <<r, c>> \in Copy(s)
  BY DEF Copy
<1>2. SubBounds(d, s)[<<r, c>>] = d[At(s, r, c)]
  BY <1>1 DEF SubBounds, At
<1>3. At(s, r, c) \in Rows \X Cols
  BY AtEntry
<1> QED BY <1>2, <1>3 DEF Bounds, Dom

LEMMA CopyIsMatrix ==
  ASSUME NEW s, Proper(s), NEW m, m = Len(s.rows), NEW n, n = Len(s.cols), NEW d \in Bounds
  PROVE  SubBounds(d, s) \in Matrices(m, n)
<1>1. \A r \in 0 .. m - 1, c \in 0 .. n - 1 : d[At(s, r, c)] \in {"free", "zero", "one"}
  BY CopyEntry
<1>2. \A e \in Copy(s) : d[<<s.rows[e[1] + 1], s.cols[e[2] + 1]>>] \in {"free", "zero", "one"}
  BY <1>1 DEF Copy, At
<1>3. Copy(s) = (0 .. m - 1) \X (0 .. n - 1)
  BY DEF Copy
<1> QED BY <1>2, <1>3 DEF SubBounds, Matrices

LEMMA WrittenAt ==
  ASSUME NEW s, Proper(s), NEW m, m = Len(s.rows), NEW n, n = Len(s.cols), NEW d \in Bounds,
         NEW b, NEW r \in 0 .. m - 1, NEW c \in 0 .. n - 1
  PROVE  WriteBack(d, s, b)[At(s, r, c)] = b[<<r, c>>]
<1>1. At(s, r, c) \in Covered(s) /\ At(s, r, c) \in DOMAIN d
  BY AtEntry DEF Bounds
<1>2. Place(s, At(s, r, c)) = <<r, c>>
  BY PlaceFound
<1> QED BY <1>1, <1>2 DEF WriteBack

LEMMA WrittenBack ==
  ASSUME NEW s, Proper(s), NEW m, m = Len(s.rows), NEW n, n = Len(s.cols), NEW d \in Bounds,
         NEW b \in Matrices(m, n), NEW e, e = WriteBack(d, s, b)
  PROVE  e \in Bounds /\ \A p \in Rows \X Cols : p \notin Covered(s) => e[p] = d[p]
<1>1. DOMAIN d = Rows \X Cols /\ \A p \in Rows \X Cols : d[p] \in Dom
  BY DEF Bounds
<1>2. e = [p \in Rows \X Cols |-> IF p \in Covered(s) THEN b[Place(s, p)] ELSE d[p]]
  BY <1>1 DEF WriteBack
<1>3. ASSUME NEW r \in 0 .. m - 1, NEW c \in 0 .. n - 1 PROVE e[At(s, r, c)] = b[<<r, c>>]
  BY WrittenAt
<1>4. \A p \in Rows \X Cols : p \notin Covered(s) => e[p] = d[p]
  BY <1>2
<1>5. ASSUME NEW p \in Rows \X Cols PROVE e[p] \in Dom
  <2>1. CASE p \in Covered(s)
    <3>1. PICK r \in 0 .. m - 1, c \in 0 .. n - 1 : p = At(s, r, c)
      <4>1. \E r \in 0 .. m - 1, c \in 0 .. n - 1 : p = At(s, r, c)
        BY <2>1, CoveredAt
      <4> QED BY <4>1
    <3>2. e[p] = b[<<r, c>>] /\ b[<<r, c>>] \in Dom
      BY <1>3, <3>1 DEF Matrices, Dom
    <3> QED BY <3>2
  <2>2. CASE p \notin Covered(s)
    BY <1>1, <1>4, <2>2
  <2> QED BY <2>1, <2>2
<1>6. e \in Bounds
  <2>1. DOMAIN e = Rows \X Cols /\ e = [p \in Rows \X Cols |-> e[p]]
    BY <1>2
  <2> QED BY <1>5, <2>1 DEF Bounds
<1> QED BY <1>4, <1>6

-------------------------------------------------------------------------------
(***************************************************************************)
(* The sorted matrices within the bounds, and those of the copy.           *)
(***************************************************************************)
Admitted(d, s) == {x \in Grid : Fits(x, d) /\ Sorted(x, s)}

Columns(x, s) ==
  [c \in 0 .. Len(s.cols) - 1 |->
     [r \in 0 .. Len(s.rows) - 1 |-> x[s.rows[r + 1]][s.cols[c + 1]]]]

(* The columns of X are those of the submatrix s of x. *)
Extends(s, x, X) ==
  \A r \in 0 .. Len(s.rows) - 1, c \in 0 .. Len(s.cols) - 1 :
    x[s.rows[r + 1]][s.cols[c + 1]] = X[c][r]

LEMMA ToCopy ==
  ASSUME NEW s, Proper(s), NEW m, m = Len(s.rows), NEW n, n = Len(s.cols), NEW d \in Bounds,
         NEW x \in Admitted(d, s)
  PROVE  \E X : Solves(m, n, SubBounds(d, s), X) /\ Extends(s, x, X)
<1> DEFINE X == Columns(x, s)
<1>1. x \in Grid /\ Fits(x, d) /\ Sorted(x, s)
  BY DEF Admitted
<1>2. \A r \in 0 .. m - 1, c \in 0 .. n - 1 : X[c][r] = x[s.rows[r + 1]][s.cols[c + 1]]
  BY DEF Columns
<1>3. X \in [0 .. n - 1 -> Bits(m)]
  <2>1. \A r \in 0 .. m - 1, c \in 0 .. n - 1 : x[s.rows[r + 1]][s.cols[c + 1]] \in 0 .. 1
    BY <1>1, Shape DEF Grid
  <2> QED BY <2>1 DEF Columns, Bits
<1> HIDE DEF X
<1>4. ASSUME NEW c \in 0 .. n - 1 PROVE Agrees(m, X[c], Column(SubBounds(d, s), c, 2))
  <2>1. ASSUME NEW r \in 0 .. m - 1
        PROVE  /\ SubBounds(d, s)[<<r, c>>] = "one" => X[c][r] = 1
               /\ SubBounds(d, s)[<<r, c>>] = "zero" => X[c][r] = 0
    <3>1. s.rows[r + 1] \in Rows /\ s.cols[c + 1] \in Cols
      BY AtEntry
    <3>2. SubBounds(d, s)[<<r, c>>] = d[<<s.rows[r + 1], s.cols[c + 1]>>]
      BY CopyEntry DEF At
    <3>3. X[c][r] = x[s.rows[r + 1]][s.cols[c + 1]]
      BY <1>2
    <3> QED BY <1>1, <3>1, <3>2, <3>3 DEF Fits
  <2>2. SubBounds(d, s) \in Matrices(m, n) /\ m \in Nat \ {0} /\ n \in Nat \ {0}
    BY CopyIsMatrix, Shape
  <2> QED BY <2>1, <2>2, AgreesByEntry
<1>5. ASSUME NEW c \in 1 .. n - 1 PROVE Side(m, 1, X[c - 1], X[c])
  <2>0. m \in Nat /\ n \in Nat /\ DOMAIN s.rows = 1 .. m
    BY Shape
  <2>1. c \in 0 .. n - 1 /\ c - 1 \in 0 .. n - 1 /\ c + 1 \in 2 .. n /\ (c - 1) + 1 = c /\ (c + 1) - 1 = c
    BY <2>0
  <2>2. ASSUME NEW r \in 0 .. m - 1, X[c - 1][r] = 1 - 1, X[c][r] = 1
        PROVE  \E q \in 0 .. r - 1 : X[c - 1][q] = 1 /\ X[c][q] = 1 - 1
    <3>1. r + 1 \in DOMAIN s.rows /\ (r + 1) - 1 = r
      BY <2>0
    <3>2. x[s.rows[r + 1]][s.cols[c]] < x[s.rows[r + 1]][s.cols[c + 1]]
      BY <1>2, <2>1, <2>2
    <3>3. PICK f \in 1 .. (r + 1) - 1 : x[s.rows[f]][s.cols[(c + 1) - 1]] > x[s.rows[f]][s.cols[c + 1]]
      BY <1>1, <2>1, <3>1, <3>2 DEF Sorted
    <3>4. f - 1 \in 0 .. r - 1 /\ f - 1 \in 0 .. m - 1 /\ (f - 1) + 1 = f
      BY <2>0, <3>3
    <3>5. X[c - 1][f - 1] > X[c][f - 1]
      BY <1>2, <2>1, <3>3, <3>4
    <3>6. X[c - 1][f - 1] \in 0 .. 1 /\ X[c][f - 1] \in 0 .. 1
      BY <1>3, <2>1, <3>4 DEF Bits
    <3>7. X[c - 1][f - 1] = 1 /\ X[c][f - 1] = 0
      BY <3>5, <3>6
    <3> QED BY <3>4, <3>7
  <2> QED BY <2>2 DEF Side
<1>6. Solves(m, n, SubBounds(d, s), X)
  BY <1>3, <1>4, <1>5 DEF Solves
<1>7. Extends(s, x, X)
  BY <1>2 DEF Extends
<1> QED BY <1>6, <1>7

LEMMA FromCopy ==
  ASSUME NEW s, Proper(s), NEW m, m = Len(s.rows), NEW n, n = Len(s.cols), NEW d \in Bounds,
         NEW X, Solves(m, n, SubBounds(d, s), X)
  PROVE  \E x : x \in Admitted(d, s) /\ Extends(s, x, X)
<1> DEFINE Val(r, k) == IF <<r, k>> \in Covered(s)
                        THEN X[Place(s, <<r, k>>)[2]][Place(s, <<r, k>>)[1]]
                        ELSE IF d[<<r, k>>] = "one" THEN 1 ELSE 0
           x == [r \in Rows |-> [k \in Cols |-> Val(r, k)]]
<1>0. /\ m \in Nat \ {0} /\ n \in Nat \ {0} /\ DOMAIN s.rows = 1 .. m /\ DOMAIN s.cols = 1 .. n
      /\ SubBounds(d, s) \in Matrices(m, n)
  BY Shape, CopyIsMatrix
<1>1. ASSUME NEW r \in 0 .. m - 1, NEW c \in 0 .. n - 1
      PROVE  Val(s.rows[r + 1], s.cols[c + 1]) = X[c][r]
  <2>1. At(s, r, c) \in Covered(s) /\ Place(s, At(s, r, c)) = <<r, c>>
    BY AtEntry, PlaceFound
  <2> QED BY <2>1 DEF At
<1>2. \A r \in 0 .. m - 1, c \in 0 .. n - 1 : X[c][r] \in 0 .. 1
  BY DEF Solves, Bits
<1>3. ASSUME NEW e \in Covered(s)
      PROVE  \E r \in 0 .. m - 1, c \in 0 .. n - 1 : e = <<s.rows[r + 1], s.cols[c + 1]>>
  <2>1. \E r \in 0 .. m - 1, c \in 0 .. n - 1 : e = At(s, r, c)
    BY CoveredAt
  <2> QED BY <2>1 DEF At
<1>4. ASSUME NEW r \in Rows, NEW k \in Cols
      PROVE  /\ Val(r, k) \in 0 .. 1
             /\ d[<<r, k>>] = "one" => Val(r, k) = 1
             /\ d[<<r, k>>] = "zero" => Val(r, k) = 0
  <2>1. CASE <<r, k>> \in Covered(s)
    <3>1. PICK g \in 0 .. m - 1, c \in 0 .. n - 1 : <<r, k>> = <<s.rows[g + 1], s.cols[c + 1]>>
      BY <1>3, <2>1
    <3>2. Val(r, k) = X[c][g]
      BY <1>1, <3>1
    <3>3. SubBounds(d, s)[<<g, c>>] = d[<<r, k>>]
      BY <3>1, CopyEntry DEF At
    <3>4. Agrees(m, X[c], Column(SubBounds(d, s), c, 2))
      BY DEF Solves
    <3>5. /\ SubBounds(d, s)[<<g, c>>] = "one" => X[c][g] = 1
          /\ SubBounds(d, s)[<<g, c>>] = "zero" => X[c][g] = 0
      BY <1>0, <3>4, AgreesByEntry
    <3> HIDE DEF Val
    <3> QED BY <1>2, <3>2, <3>3, <3>5
  <2>2. CASE <<r, k>> \notin Covered(s)
    BY <2>2
  <2> QED BY <2>1, <2>2
<1> HIDE DEF Val
<1>5. x \in Grid /\ \A r \in Rows, k \in Cols : x[r][k] = Val(r, k)
  BY <1>4 DEF Grid
<1> HIDE DEF x
<1>6. Fits(x, d)
  BY <1>4, <1>5 DEF Fits
<1>7. ASSUME NEW r \in 0 .. m - 1, NEW c \in 0 .. n - 1
      PROVE  x[s.rows[r + 1]][s.cols[c + 1]] = X[c][r]
  <2>1. s.rows[r + 1] \in Rows /\ s.cols[c + 1] \in Cols
    BY AtEntry
  <2> QED BY <1>1, <1>5, <2>1
<1>8. ASSUME NEW h \in 2 .. Len(s.cols), NEW g \in DOMAIN s.rows,
             x[s.rows[g]][s.cols[h - 1]] < x[s.rows[g]][s.cols[h]]
      PROVE  \E f \in 1 .. g - 1 : x[s.rows[f]][s.cols[h - 1]] > x[s.rows[f]][s.cols[h]]
  <2>1. /\ h - 1 \in 0 .. n - 1 /\ h - 1 \in 1 .. n - 1 /\ (h - 1) + 1 = h
        /\ h - 2 \in 0 .. n - 1 /\ (h - 2) + 1 = h - 1 /\ (h - 1) - 1 = h - 2
        /\ g - 1 \in 0 .. m - 1 /\ (g - 1) + 1 = g
    <3>1. h \in 2 .. n /\ g \in 1 .. m /\ m \in Nat /\ n \in Nat
      BY <1>0
    <3> QED BY <3>1
  <2>2. X[h - 2][g - 1] < X[h - 1][g - 1]
    BY <1>7, <1>8, <2>1
  <2>3. X[h - 2][g - 1] = 0 /\ X[h - 1][g - 1] = 1
    <3>1. X[h - 2][g - 1] \in 0 .. 1 /\ X[h - 1][g - 1] \in 0 .. 1
      BY <1>2, <2>1
    <3> QED BY <2>2, <3>1
  <2>4. Side(m, 1, X[h - 2], X[h - 1])
    <3>1. \A c \in 1 .. n - 1 : Side(m, 1, X[c - 1], X[c])
      BY DEF Solves
    <3> QED BY <2>1, <3>1
  <2>5. PICK q \in 0 .. (g - 1) - 1 : X[h - 2][q] = 1 /\ X[h - 1][q] = 1 - 1
    BY <2>1, <2>3, <2>4 DEF Side
  <2>6. q \in 0 .. m - 1 /\ q + 1 \in 1 .. g - 1
    BY <1>0, <2>1, <2>5
  <2>7. x[s.rows[q + 1]][s.cols[(h - 2) + 1]] = X[h - 2][q]
        /\ x[s.rows[q + 1]][s.cols[(h - 1) + 1]] = X[h - 1][q]
    BY <1>7, <2>1, <2>6
  <2>8. x[s.rows[q + 1]][s.cols[h - 1]] = 1 /\ x[s.rows[q + 1]][s.cols[h]] = 0
    BY <2>1, <2>5, <2>7
  <2>9. x[s.rows[q + 1]][s.cols[h - 1]] > x[s.rows[q + 1]][s.cols[h]]
    BY <2>8
  <2> QED BY <2>6, <2>9
<1>9. x \in Admitted(d, s)
  BY <1>5, <1>6, <1>8 DEF Admitted, Sorted
<1>10. Extends(s, x, X)
  BY <1>7 DEF Extends
<1> QED BY <1>9, <1>10

(* The propagation of a submatrix, or of the whole matrix in the order of   *)
(* its rows.                                                                *)
LEMMA SubmatrixExact ==
  ASSUME NEW s, Proper(s), NEW m, m = Len(s.rows), NEW n, n = Len(s.cols), NEW d \in Bounds,
         NEW f, f = FullFixing(SubBounds(d, s)), NEW e, e = WriteBack(d, s, f.dom)
  PROVE  /\ f.infeasible \in BOOLEAN /\ f.nfixed \in Nat /\ e \in Bounds
         /\ f.nfixed > 0 <=> e # d
         /\ f.infeasible <=> Admitted(d, s) = {}
         /\ f.infeasible => e = d
         /\ \A p \in Rows \X Cols : e[p] = d[p] \/ d[p] = "free"
         /\ \A p \in Rows \X Cols : p \notin Covered(s) => e[p] = d[p]
         /\ ~f.infeasible => \A p \in Covered(s) :
              /\ e[p] = "one"  <=> \A x \in Admitted(d, s) : x[p[1]][p[2]] = 1
              /\ e[p] = "zero" <=> \A x \in Admitted(d, s) : x[p[1]][p[2]] = 0
<1> DEFINE b == SubBounds(d, s)
<1>1. m \in Nat \ {0} /\ n \in Nat \ {0} /\ b \in Matrices(m, n)
  BY Shape, CopyIsMatrix
<1>2. /\ f.infeasible \in BOOLEAN /\ f.nfixed \in Nat /\ f.dom \in Matrices(m, n)
      /\ f.infeasible <=> ~\E X : Solves(m, n, b, X)
      /\ f.infeasible => f.dom = b
      /\ f.nfixed > 0 <=> f.dom # b
      /\ \A r \in 0 .. m - 1, c \in 0 .. n - 1 :
           /\ f.dom[<<r, c>>] = b[<<r, c>>] \/ b[<<r, c>>] = "free"
           /\ ~f.infeasible =>
                /\ f.dom[<<r, c>>] = "one"  <=> \A X : Solves(m, n, b, X) => X[c][r] = 1
                /\ f.dom[<<r, c>>] = "zero" <=> \A X : Solves(m, n, b, X) => X[c][r] = 0
  <2> HIDE DEF b
  <2> QED BY <1>1, FullFixingExact DEF b
<1>3. /\ e \in Bounds
      /\ \A r \in 0 .. m - 1, c \in 0 .. n - 1 : e[At(s, r, c)] = f.dom[<<r, c>>]
      /\ \A p \in Rows \X Cols : p \notin Covered(s) => e[p] = d[p]
  <2>1. f.dom \in Matrices(m, n)
    BY <1>2
  <2>2. ASSUME NEW r \in 0 .. m - 1, NEW c \in 0 .. n - 1
        PROVE  e[At(s, r, c)] = f.dom[<<r, c>>]
    BY WrittenAt
  <2>3. e \in Bounds /\ \A p \in Rows \X Cols : p \notin Covered(s) => e[p] = d[p]
    BY <2>1, WrittenBack
  <2> QED BY <2>2, <2>3
<1>4. ASSUME NEW r \in 0 .. m - 1, NEW c \in 0 .. n - 1 PROVE b[<<r, c>>] = d[At(s, r, c)]
  BY CopyEntry
<1>5. \A p \in Covered(s) : \E r \in 0 .. m - 1, c \in 0 .. n - 1 : p = At(s, r, c)
  BY CoveredAt
<1>6. \A x \in Admitted(d, s) : \E X : Solves(m, n, b, X) /\ Extends(s, x, X)
  BY ToCopy
<1>7. \A X : Solves(m, n, b, X) => \E x : x \in Admitted(d, s) /\ Extends(s, x, X)
  BY FromCopy
<1>8. Covered(s) \subseteq Rows \X Cols
  BY DEF Covered, Proper
<1>9. \A r \in 0 .. m - 1, c \in 0 .. n - 1 : At(s, r, c) \in Covered(s)
  BY AtEntry
<1> HIDE DEF b
<1>10. e # d <=> f.dom # b
  <2>1. ASSUME f.dom = b PROVE e = d
    <3>1. ASSUME NEW p \in Rows \X Cols PROVE e[p] = d[p]
      <4>1. ASSUME p \in Covered(s) PROVE e[p] = d[p]
        <5>1. PICK r \in 0 .. m - 1, c \in 0 .. n - 1 : p = At(s, r, c)
          BY <1>5, <4>1
        <5>2. e[At(s, r, c)] = f.dom[<<r, c>>] /\ b[<<r, c>>] = d[At(s, r, c)]
          BY <1>3, <1>4
        <5> QED BY <2>1, <5>1, <5>2
      <4> QED BY <1>3, <4>1
    <3> QED BY <1>3, <3>1 DEF Bounds
  <2>2. ASSUME e = d PROVE f.dom = b
    <3>1. ASSUME NEW r \in 0 .. m - 1, NEW c \in 0 .. n - 1 PROVE f.dom[<<r, c>>] = b[<<r, c>>]
      BY <1>3, <1>4, <2>2
    <3>2. \A p \in (0 .. m - 1) \X (0 .. n - 1) : f.dom[p] = b[p]
      BY <3>1
    <3> QED BY <1>1, <1>2, <3>2 DEF Matrices
  <2> QED BY <2>1, <2>2
<1>11. f.infeasible <=> Admitted(d, s) = {}
  BY <1>2, <1>6, <1>7
<1>12. ASSUME NEW p \in Rows \X Cols PROVE e[p] = d[p] \/ d[p] = "free"
  <2>1. CASE p \in Covered(s)
    <3>1. PICK r \in 0 .. m - 1, c \in 0 .. n - 1 : p = At(s, r, c)
      BY <1>5, <2>1
    <3>2. e[At(s, r, c)] = f.dom[<<r, c>>] /\ b[<<r, c>>] = d[At(s, r, c)]
      BY <1>3, <1>4
    <3> QED BY <1>2, <3>1, <3>2
  <2> QED BY <1>3, <2>1
<1>13. ASSUME ~f.infeasible, NEW p \in Covered(s)
       PROVE  /\ e[p] = "one"  <=> \A x \in Admitted(d, s) : x[p[1]][p[2]] = 1
              /\ e[p] = "zero" <=> \A x \in Admitted(d, s) : x[p[1]][p[2]] = 0
  <2>1. PICK r \in 0 .. m - 1, c \in 0 .. n - 1 : p = At(s, r, c)
    BY <1>5
  <2>2. p[1] = s.rows[r + 1] /\ p[2] = s.cols[c + 1] /\ e[p] = f.dom[<<r, c>>]
    BY <1>3, <2>1 DEF At
  <2>3. /\ f.dom[<<r, c>>] = "one"  <=> \A X : Solves(m, n, b, X) => X[c][r] = 1
        /\ f.dom[<<r, c>>] = "zero" <=> \A X : Solves(m, n, b, X) => X[c][r] = 0
    BY <1>2, <1>13
  <2>4. ASSUME NEW v
        PROVE  (\A X : Solves(m, n, b, X) => X[c][r] = v)
               <=> (\A x \in Admitted(d, s) : x[p[1]][p[2]] = v)
    <3>1. ASSUME \A X : Solves(m, n, b, X) => X[c][r] = v, NEW x \in Admitted(d, s)
          PROVE  x[p[1]][p[2]] = v
      <4>1. PICK X : Solves(m, n, b, X) /\ Extends(s, x, X)
        BY <1>6
      <4> QED BY <2>2, <3>1, <4>1 DEF Extends
    <3>2. ASSUME \A x \in Admitted(d, s) : x[p[1]][p[2]] = v, NEW X, Solves(m, n, b, X)
          PROVE  X[c][r] = v
      <4>1. PICK x : x \in Admitted(d, s) /\ Extends(s, x, X)
        BY <1>7, <3>2
      <4> QED BY <2>2, <3>2, <4>1 DEF Extends
    <3> QED BY <3>1, <3>2
  <2> QED BY <2>2, <2>3, <2>4
<1>14. f.infeasible => e = d
  BY <1>2, <1>10
<1> QED BY <1>2, <1>3, <1>10, <1>11, <1>12, <1>13, <1>14

-------------------------------------------------------------------------------
(***************************************************************************)
(* The row order.                                                          *)
(***************************************************************************)

(* The order q begins with the order o. *)
Grows(o, q) == Len(o) <= Len(q) /\ \A g \in 1 .. Len(o) : q[g] = o[g]

OneMore(o, r) == IF \E g \in DOMAIN o : o[g] = r THEN o ELSE Append(o, r)

LEMMA OneMoreGrows ==
  ASSUME NEW b \in Seq(Rows), NEW o \in Seq(Rows), NoneTwice(o), Grows(b, o), NEW r \in Rows
  PROVE  /\ OneMore(o, r) \in Seq(Rows) /\ NoneTwice(OneMore(o, r)) /\ Grows(b, OneMore(o, r))
<1>1. CASE \E g \in DOMAIN o : o[g] = r
  BY <1>1 DEF OneMore
<1>2. CASE ~\E g \in DOMAIN o : o[g] = r
  <2> DEFINE q == Append(o, r)
  <2>1. OneMore(o, r) = q
    BY <1>2 DEF OneMore
  <2>2. /\ q \in Seq(Rows) /\ Len(o) \in Nat /\ Len(b) \in Nat /\ Len(q) = Len(o) + 1
        /\ DOMAIN o = 1 .. Len(o) /\ DOMAIN q = 1 .. Len(o) + 1
        /\ q[Len(o) + 1] = r /\ \A g \in 1 .. Len(o) : q[g] = o[g]
    OBVIOUS
  <2> HIDE DEF q
  <2>3. NoneTwice(q)
    <3>1. ASSUME NEW g \in DOMAIN q, NEW h \in DOMAIN q, q[g] = q[h] PROVE g = h
      <4>1. (g \in DOMAIN o \/ g = Len(o) + 1) /\ (h \in DOMAIN o \/ h = Len(o) + 1)
        BY <2>2
      <4>2. CASE g \in DOMAIN o /\ h \in DOMAIN o
        BY <2>2, <3>1, <4>2 DEF NoneTwice
      <4>3. CASE g \in DOMAIN o /\ h = Len(o) + 1
        BY <1>2, <2>2, <3>1, <4>3
      <4>4. CASE g = Len(o) + 1 /\ h \in DOMAIN o
        BY <1>2, <2>2, <3>1, <4>4
      <4> QED BY <4>1, <4>2, <4>3, <4>4
    <3> QED BY <3>1 DEF NoneTwice
  <2>4. Grows(b, q)
    BY <2>2 DEF Grows
  <2> QED BY <2>1, <2>2, <2>3, <2>4
<1> QED BY <1>1, <1>2

LEMMA AppendedOrder ==
  ASSUME NEW order \in Seq(Rows), NoneTwice(order), NEW p \in Seq(Branchings)
  PROVE  /\ Appended(order, p) \in Seq(Rows) /\ NoneTwice(Appended(order, p))
         /\ Grows(order, Appended(order, p))
<1> DEFINE S == {q \in Seq(Rows) : NoneTwice(q) /\ Grows(order, q)}
           n == Len(p)
           E(H, k) == IF k = 0 THEN order
                      ELSE IF \E g \in DOMAIN H[k - 1] : H[k - 1][g] = p[k].row THEN H[k - 1]
                      ELSE Append(H[k - 1], p[k].row)
           F == CHOOSE F : F = [k \in 0 .. Len(p) |->
                                  IF k = 0 THEN order
                                  ELSE IF \E g \in DOMAIN F[k - 1] : F[k - 1][g] = p[k].row THEN F[k - 1]
                                  ELSE Append(F[k - 1], p[k].row)]
           s == [w \in (0 .. n) \X S |-> IF w[1] = 0 THEN w[2] ELSE OneMore(w[2], p[w[1]].row)]
<1>1. Appended(order, p) = F[Len(p)]
  BY Zenon DEF Appended
<1>2. n \in Nat /\ \A k \in 1 .. n : p[k].row \in Rows
  <2>1. n \in Nat /\ \A k \in 1 .. n : p[k] \in Branchings
    OBVIOUS
  <2>2. \A b \in Branchings : b.row \in Rows
    BY DEF Branchings
  <2> QED BY <2>1, <2>2
<1>3. order \in S
  BY DEF Grows
<1>4. ASSUME NEW k \in 0 .. n, NEW o \in S
      PROVE  (IF k = 0 THEN o ELSE OneMore(o, p[k].row)) \in S
  <2>1. CASE k = 0
    BY <2>1
  <2>2. CASE k # 0
    <3>1. p[k].row \in Rows
      BY <1>2, <2>2
    <3>2. OneMore(o, p[k].row) \in S
      BY <3>1, OneMoreGrows
    <3> QED BY <2>2, <3>2
  <2> QED BY <2>1, <2>2
<1> HIDE DEF S, n
<1>5. s \in [(0 .. n) \X S -> S] /\ \A k \in 1 .. n, o \in S : s[<<k, o>>] = OneMore(o, p[k].row)
  <2>1. \A w \in (0 .. n) \X S : (IF w[1] = 0 THEN w[2] ELSE OneMore(w[2], p[w[1]].row)) \in S
    BY <1>4
  <2>2. ASSUME NEW k \in 1 .. n, NEW o \in S PROVE s[<<k, o>>] = OneMore(o, p[k].row)
    <3>1. k \in 0 .. n /\ k # 0
      BY <1>2
    <3> QED BY <3>1
  <2> QED BY <2>1, <2>2
<1> HIDE DEF s
<1>6. \E G : Recurs(n, S, order, s, G)
  BY <1>2, <1>3, <1>5, Recursion
<1>7. PICK G : Recurs(n, S, order, s, G)
  BY <1>6
<1>8. ASSUME NEW k \in 0 .. n PROVE G[k] = E(G, k)
  <2>1. CASE k = 0
    BY <1>7, <2>1 DEF Recurs
  <2>2. CASE k # 0
    <3>1. k \in 1 .. n /\ k - 1 \in 0 .. n
      BY <1>2, <2>2
    <3>2. G[k] = OneMore(G[k - 1], p[k].row)
      BY <1>5, <1>7, <3>1 DEF Recurs
    <3> QED BY <2>2, <3>2 DEF OneMore
  <2> QED BY <2>1, <2>2
<1>9. G = [k \in 0 .. Len(p) |-> E(G, k)]
  <2>1. G = [k \in 0 .. Len(p) |-> G[k]]
    BY <1>7 DEF Recurs, n
  <2>2. \A k \in 0 .. Len(p) : G[k] = E(G, k)
    BY <1>8 DEF n
  <2> HIDE DEF E
  <2> QED BY <2>1, <2>2
<1>10. F = [k \in 0 .. Len(p) |-> E(F, k)]
  <2> HIDE DEF F
  <2> QED BY <1>9, Zenon DEF F
<1> HIDE DEF F
<1>11. ASSUME NEW k \in 0 .. n PROVE F[k] = E(F, k)
  <2>1. \A h \in 0 .. Len(p) : F[h] = E(F, h)
    <3> HIDE DEF E
    <3> QED BY <1>10
  <2> QED BY <2>1 DEF n
<1> DEFINE Bad == {k \in 0 .. n : F[k] \notin S}
<1>12. Bad = {}
  <2>1. SUFFICES ASSUME Bad # {} PROVE FALSE
    OBVIOUS
  <2>2. Bad \subseteq Nat
    BY <1>2
  <2> HIDE DEF Bad
  <2>3. Min(Bad) \in Bad /\ \A h \in Bad : Min(Bad) <= h
    BY <2>1, <2>2, MinIsLeast
  <2>4. PICK k \in Bad : \A h \in Bad : k <= h
    BY <2>3
  <2> USE DEF Bad
  <2>5. k \in 0 .. n /\ F[k] \notin S
    BY <2>4
  <2>6. k # 0
    <3>1. k = 0 => F[k] = order
      BY <1>11, <2>5
    <3> QED BY <1>3, <2>5, <3>1
  <2>7. k - 1 \in 0 .. n /\ ~(k <= k - 1) /\ k \in 1 .. n
    BY <1>2, <2>5, <2>6
  <2>8. F[k - 1] \in S
    BY <2>4, <2>7
  <2>9. F[k] = OneMore(F[k - 1], p[k].row)
    BY <1>11, <2>5, <2>6 DEF OneMore
  <2>10. OneMore(F[k - 1], p[k].row) \in S
    BY <1>4, <2>5, <2>6, <2>8
  <2> QED BY <2>5, <2>9, <2>10
<1>13. F[n] \in S
  BY <1>2, <1>12
<1> QED BY <1>1, <1>13 DEF S, n

-------------------------------------------------------------------------------
(***************************************************************************)
(* The whole matrix in an order o of its rows, and the solutions that are  *)
(* representative under it.                                                *)
(***************************************************************************)
WholeBy(o) == [rows |-> o, cols |-> Natural(NCols)]

Repr(x, o) ==
  Sorted(x, WholeBy(o)) /\ \A s \in Submatrices : Symmetric(Fixed(x), s) => Sorted(x, s)

LEMMA ByOrder ==
  Whole = WholeBy(roworder) /\ \A x : Representative(x) <=> Repr(x, roworder)
BY DEF Whole, WholeBy, Representative, Repr

LEMMA NaturalOrder ==
  ASSUME NEW n \in Nat \ {0}
  PROVE  /\ Natural(n) \in Seq(0 .. n - 1) \ {<<>>} /\ NoneTwice(Natural(n))
         /\ Len(Natural(n)) = n /\ \A k \in 1 .. n : Natural(n)[k] = k - 1
<1> DEFINE q == Natural(n)
<1>1. q \in [1 .. n -> 0 .. n - 1] /\ \A k \in 1 .. n : q[k] = k - 1
  BY DEF Natural
<1> HIDE DEF q
<1>2. q \in Seq(0 .. n - 1) /\ Len(q) = n
  BY <1>1
<1>3. q # <<>>
  BY <1>2
<1>4. DOMAIN q = 1 .. n
  BY <1>1
<1>5. NoneTwice(q)
  BY <1>1, <1>4 DEF NoneTwice
<1> QED BY <1>1, <1>2, <1>3, <1>5 DEF q

LEMMA ProperWhole ==
  ASSUME NEW o \in Seq(Rows), o # <<>>, NoneTwice(o)
  PROVE  Proper(WholeBy(o))
<1>1. WholeBy(o).rows = o /\ WholeBy(o).cols = Natural(NCols)
  BY DEF WholeBy
<1>2. Natural(NCols) \in Seq(Cols) \ {<<>>} /\ NoneTwice(Natural(NCols))
  BY NaturalOrder, SizeAssumption DEF Cols
<1> QED BY <1>1, <1>2 DEF Proper

LEMMA ProperSubmatrix ==
  ASSUME NEW s \in Submatrices PROVE Proper(s)
BY SubmatrixAssumption DEF Proper

(* The longer the order, the fewer solutions are representative.            *)
LEMMA FewerRepresentatives ==
  ASSUME NEW o \in Seq(Rows), NEW q \in Seq(Rows), Grows(o, q), NEW x, Repr(x, q)
  PROVE  Repr(x, o)
<1>1. Sorted(x, WholeBy(q))
  BY DEF Repr
<1>2. /\ WholeBy(q).rows = q /\ WholeBy(o).rows = o
      /\ WholeBy(q).cols = WholeBy(o).cols
  BY DEF WholeBy
<1>3. /\ Len(o) \in Nat /\ Len(q) \in Nat /\ DOMAIN o = 1 .. Len(o) /\ DOMAIN q = 1 .. Len(q)
  OBVIOUS
<1>4. Len(o) <= Len(q) /\ \A g \in 1 .. Len(o) : q[g] = o[g]
  BY DEF Grows
<1>5. ASSUME NEW h \in 2 .. Len(WholeBy(o).cols), NEW g \in DOMAIN o,
             x[o[g]][WholeBy(o).cols[h - 1]] < x[o[g]][WholeBy(o).cols[h]]
      PROVE  \E f \in 1 .. g - 1 : x[o[f]][WholeBy(o).cols[h - 1]] > x[o[f]][WholeBy(o).cols[h]]
  <2> DEFINE c == WholeBy(o).cols
  <2>1. g \in DOMAIN q /\ q[g] = o[g]
    BY <1>3, <1>4
  <2> HIDE DEF c
  <2>2. \E f \in 1 .. g - 1 : x[q[f]][c[h - 1]] > x[q[f]][c[h]]
    BY <1>1, <1>2, <1>5, <2>1 DEF Sorted, c
  <2>3. PICK f \in 1 .. g - 1 : x[q[f]][c[h - 1]] > x[q[f]][c[h]]
    BY <2>2
  <2>4. q[f] = o[f]
    BY <1>3, <1>4, <2>3
  <2> QED BY <2>3, <2>4 DEF c
<1>6. Sorted(x, WholeBy(o))
  BY <1>2, <1>5 DEF Sorted
<1> QED BY <1>6 DEF Repr

-------------------------------------------------------------------------------
(***************************************************************************)
(* One propagation.                                                        *)
(***************************************************************************)

(* What is fixed in d is fixed in e. *)
Tighter(d, e) == \A p \in Rows \X Cols : e[p] = d[p] \/ d[p] = "free"

LEMMA TighterFits ==
  ASSUME NEW d, NEW e, Tighter(d, e), NEW x, Fits(x, e)
  PROVE  Fits(x, d)
<1>1. ASSUME NEW r \in Rows, NEW k \in Cols
      PROVE  /\ d[<<r, k>>] = "one"  => x[r][k] = 1
             /\ d[<<r, k>>] = "zero" => x[r][k] = 0
  <2>1. e[<<r, k>>] = d[<<r, k>>] \/ d[<<r, k>>] = "free"
    BY DEF Tighter
  <2> QED BY <2>1 DEF Fits
<1> QED BY <1>1 DEF Fits

(* A propagation keeps the solutions that are sorted, says whether it has   *)
(* fixed anything, and fixes only what was free.                            *)
LEMMA OnePropagation ==
  ASSUME NEW s, Proper(s), NEW d \in Bounds,
         NEW f, f = FullFixing(SubBounds(d, s)), NEW e, e = WriteBack(d, s, f.dom)
  PROVE  /\ f.infeasible \in BOOLEAN /\ f.nfixed \in Nat /\ e \in Bounds
         /\ f.nfixed > 0 <=> e # d
         /\ Tighter(d, e)
         /\ \A x \in Points : Fits(x, d) /\ Sorted(x, s) => Fits(x, e) /\ ~f.infeasible
<1>0. PICK m, n : m = Len(s.rows) /\ n = Len(s.cols)
  OBVIOUS
<1>1. /\ f.infeasible \in BOOLEAN /\ f.nfixed \in Nat /\ e \in Bounds
      /\ f.nfixed > 0 <=> e # d
      /\ f.infeasible <=> Admitted(d, s) = {}
      /\ \A p \in Rows \X Cols : e[p] = d[p] \/ d[p] = "free"
      /\ \A p \in Rows \X Cols : p \notin Covered(s) => e[p] = d[p]
      /\ ~f.infeasible => \A p \in Covered(s) :
           /\ e[p] = "one"  <=> \A x \in Admitted(d, s) : x[p[1]][p[2]] = 1
           /\ e[p] = "zero" <=> \A x \in Admitted(d, s) : x[p[1]][p[2]] = 0
  BY <1>0, SubmatrixExact
<1>2. Tighter(d, e)
  BY <1>1 DEF Tighter
<1>3. ASSUME NEW x \in Points, Fits(x, d), Sorted(x, s)
      PROVE  Fits(x, e) /\ ~f.infeasible
  <2>1. x \in Admitted(d, s)
    BY <1>3, PointAssumption DEF Admitted, Grid
  <2>2. ~f.infeasible
    BY <1>1, <2>1
  <2>3. ASSUME NEW r \in Rows, NEW k \in Cols
        PROVE  /\ e[<<r, k>>] = "one"  => x[r][k] = 1
               /\ e[<<r, k>>] = "zero" => x[r][k] = 0
    <3>1. <<r, k>> \in Rows \X Cols /\ <<r, k>>[1] = r /\ <<r, k>>[2] = k
      OBVIOUS
    <3>2. CASE <<r, k>> \in Covered(s)
      BY <1>1, <2>1, <2>2, <3>1, <3>2
    <3>3. CASE <<r, k>> \notin Covered(s)
      <4>1. e[<<r, k>>] = d[<<r, k>>]
        BY <1>1, <3>1, <3>3
      <4> QED BY <1>3, <4>1 DEF Fits
    <3> QED BY <3>2, <3>3
  <2> QED BY <2>2, <2>3 DEF Fits
<1> QED BY <1>1, <1>2, <1>3

-------------------------------------------------------------------------------
(***************************************************************************)
(* The inductive invariant.                                                *)
(***************************************************************************)

(* There is an order when the whole matrix is to be propagated, and there   *)
(* always is one when it is not dynamic.                                    *)
Ordered == (pc = "whole" \/ ~Dynamic) => roworder # <<>>

(* There is a list of submatrices only while they are propagated, and all   *)
(* of them are symmetric for all solutions that the node still has.         *)
ListRight ==
  /\ pc # "sub" => list = <<>>
  /\ \A k \in DOMAIN list : \A x \in Points :
       Fits(x, dom) => Symmetric(Fixed(x), list[k])

(* The count says whether a bound has changed since the propagation was     *)
(* called, and the bounds that have changed were free.                      *)
Counted == Tighter(entered, dom) /\ (nfixed > 0 <=> dom # entered)

(* The solutions of the root on the path p that are representative fit d.   *)
Kept(p, d, o) ==
  \A x \in Points : Fits(x, root) /\ Follows(x, p) /\ Repr(x, o) => Fits(x, d)

(* None of them is cut off ...                                              *)
NotCut(p, v, o) ==
  \A x \in Points : Fits(x, root) /\ Follows(x, p) /\ Repr(x, o) => ~v

(* ... nor at any node of the tree or at the one at hand. *)
TreeKept == \A p \in DOMAIN tree : Kept(p, tree[p].dom, roworder) /\ NotCut(p, tree[p].cutoff, roworder)
NodeKept == Kept(path, dom, roworder) /\ NotCut(path, infeasible, roworder)

IInv == TypeOK /\ Ordered /\ ListRight /\ Counted /\ TreeKept /\ NodeKept

LEMMA SameBounds ==
  ASSUME NEW d PROVE Tighter(d, d)
BY DEF Tighter

LEMMA InitHolds == Init => IInv
<1> SUFFICES ASSUME Init PROVE IInv
  OBVIOUS
<1>1. /\ root \in Roots /\ root \in Bounds /\ pc = "idle" /\ path = <<>>
      /\ dom = root /\ entered = root /\ list = <<>> /\ infeasible = FALSE /\ nfixed = 0
      /\ roworder = IF Dynamic THEN <<>> ELSE Natural(NRows)
  BY RootAssumption DEF Init
<1>2. /\ \A p \in DOMAIN tree : p = <<>>
      /\ \A p \in DOMAIN tree : tree[p].dom = root /\ tree[p].cutoff = FALSE
  BY DEF Init, Node
<1>3. /\ roworder \in Seq(Rows) /\ NoneTwice(roworder)
      /\ ~Dynamic => roworder # <<>>
  <2>1. CASE Dynamic
    <3>1. roworder = <<>>
      BY <1>1, <2>1
    <3> QED BY <2>1, <3>1 DEF NoneTwice
  <2>2. CASE ~Dynamic
    BY <1>1, <2>2, NaturalOrder, SizeAssumption DEF Rows
  <2> QED BY <2>1, <2>2
<1>4. TypeOK
  <2>1. <<>> \in Seq(Branchings) /\ <<>> \in Seq(Submatrices) /\ 0 \in Nat
    OBVIOUS
  <2>2. \A p \in DOMAIN tree :
          p \in Seq(Branchings) /\ tree[p].dom \in Bounds /\ tree[p].cutoff \in BOOLEAN
    BY <1>1, <1>2, <2>1
  <2> QED BY <1>1, <1>3, <2>1, <2>2 DEF TypeOK
<1>5. Ordered
  BY <1>1, <1>3 DEF Ordered
<1>6. ListRight
  BY <1>1 DEF ListRight
<1>7. Counted
  BY <1>1, SameBounds DEF Counted
<1>8. TreeKept
  BY <1>2 DEF TreeKept, Kept, NotCut
<1>9. NodeKept
  BY <1>1 DEF NodeKept, Kept, NotCut
<1> QED BY <1>4, <1>5, <1>6, <1>7, <1>8, <1>9 DEF IInv

(* A node is entered with bounds that all its solutions fit.                *)
LEMMA CallHolds ==
  ASSUME IInv, pc = "idle", NEW p \in Seq(Branchings), NEW d \in Bounds, Call(p, d),
         Kept(p, d, roworder)
  PROVE  IInv'
<1>1. /\ path' = p /\ dom' = d /\ entered' = d /\ infeasible' = FALSE /\ nfixed' = 0
      /\ UNCHANGED <<root, tree, roworder, list>>
      /\ pc' \in {"return", "order", "whole"} /\ (pc' = "whole" => ~Dynamic)
  BY DEF Call
<1>2. TypeOK /\ Ordered /\ ListRight /\ TreeKept /\ list = <<>>
  BY DEF IInv, ListRight
<1>3. TypeOK'
  BY <1>1, <1>2 DEF TypeOK
<1>4. Ordered'
  BY <1>1, <1>2 DEF Ordered
<1>5. ListRight'
  BY <1>1, <1>2 DEF ListRight
<1>6. Counted'
  BY <1>1, SameBounds DEF Counted
<1>7. TreeKept'
  BY <1>1, <1>2 DEF TreeKept, Kept, NotCut
<1>8. NodeKept'
  BY <1>1 DEF NodeKept, Kept, NotCut
<1> QED BY <1>3, <1>4, <1>5, <1>6, <1>7, <1>8 DEF IInv

LEMMA RevisitHolds ==
  ASSUME IInv, Revisit PROVE IInv'
<1>1. PICK p \in DOMAIN tree : ~tree[p].cutoff /\ Call(p, tree[p].dom)
  BY DEF Revisit
<1>2. pc = "idle" /\ p \in Seq(Branchings) /\ tree[p].dom \in Bounds
  BY DEF Revisit, IInv, TypeOK
<1>3. Kept(p, tree[p].dom, roworder)
  BY DEF IInv, TreeKept
<1> QED BY <1>1, <1>2, <1>3, CallHolds

LEMMA BranchHolds ==
  ASSUME IInv, Branch PROVE IInv'
<1>1. PICK p \in DOMAIN tree, b \in Branchings :
        Call(Append(p, b), [tree[p].dom EXCEPT ![<<b.row, b.col>>] = b.to])
  BY DEF Branch
<1> DEFINE c == tree[p].dom
           d == [c EXCEPT ![<<b.row, b.col>>] = b.to]
<1>2. /\ pc = "idle" /\ p \in Seq(Branchings) /\ c \in Bounds
      /\ b.row \in Rows /\ b.col \in Cols /\ b.to \in {"zero", "one"}
      /\ Kept(p, c, roworder)
  BY DEF Branch, IInv, TypeOK, TreeKept, Branchings
<1> HIDE DEF c
<1>3. d \in Bounds /\ d[<<b.row, b.col>>] = b.to
      /\ \A r \in Rows, k \in Cols : <<r, k>> # <<b.row, b.col>> => d[<<r, k>>] = c[<<r, k>>]
  BY <1>2 DEF Bounds, Dom
<1> HIDE DEF d
<1>4. Append(p, b) \in Seq(Branchings)
  BY <1>2
<1>5. ASSUME NEW x, Follows(x, Append(p, b))
      PROVE  Follows(x, p) /\ x[b.row][b.col] = (IF b.to = "one" THEN 1 ELSE 0)
  <2> DEFINE q == Append(p, b)
  <2>1. /\ DOMAIN p = 1 .. Len(p) /\ DOMAIN q = 1 .. Len(p) + 1 /\ Len(p) \in Nat
        /\ q[Len(p) + 1] = b /\ \A k \in 1 .. Len(p) : q[k] = p[k]
    BY <1>2
  <2>2. \A k \in DOMAIN q : x[q[k].row][q[k].col] = (IF q[k].to = "one" THEN 1 ELSE 0)
    BY <1>5 DEF Follows
  <2> HIDE DEF q
  <2>3. Len(p) + 1 \in DOMAIN q /\ \A k \in DOMAIN p : k \in DOMAIN q /\ q[k] = p[k]
    BY <2>1
  <2>4. x[b.row][b.col] = (IF b.to = "one" THEN 1 ELSE 0)
    BY <2>1, <2>2, <2>3
  <2>5. \A k \in DOMAIN p : x[p[k].row][p[k].col] = (IF p[k].to = "one" THEN 1 ELSE 0)
    BY <2>2, <2>3
  <2> QED BY <2>4, <2>5 DEF Follows
<1>6. ASSUME NEW x \in Points, Fits(x, root), Follows(x, Append(p, b)), Repr(x, roworder)
      PROVE  Fits(x, d)
  <2>1. Fits(x, c) /\ x[b.row][b.col] = (IF b.to = "one" THEN 1 ELSE 0)
    BY <1>2, <1>5, <1>6 DEF Kept
  <2>2. ASSUME NEW r \in Rows, NEW k \in Cols
        PROVE  /\ d[<<r, k>>] = "one"  => x[r][k] = 1
               /\ d[<<r, k>>] = "zero" => x[r][k] = 0
    <3>1. CASE r = b.row /\ k = b.col
      BY <1>2, <1>3, <2>1, <3>1
    <3>2. CASE ~(r = b.row /\ k = b.col)
      <4>1. d[<<r, k>>] = c[<<r, k>>]
        BY <1>3, <3>2
      <4> QED BY <2>1, <4>1 DEF Fits
    <3> QED BY <3>1, <3>2
  <2> QED BY <2>2 DEF Fits
<1>7. Kept(Append(p, b), d, roworder)
  BY <1>6 DEF Kept
<1>8. Call(Append(p, b), d)
  BY <1>1 DEF c, d
<1> QED BY <1>2, <1>3, <1>4, <1>7, <1>8, CallHolds

(* A longer order leaves fewer solutions to be kept. *)
LEMMA OrderHolds ==
  ASSUME IInv, ComputeDynamicRowOrder PROVE IInv'
<1>1. /\ pc = "order" /\ roworder' = Appended(roworder, path)
      /\ pc' \in {"return", "whole"} /\ (pc' = "whole" => roworder' # <<>>)
      /\ UNCHANGED <<root, tree, path, entered, dom, list, infeasible, nfixed>>
  BY DEF ComputeDynamicRowOrder
<1>2. TypeOK /\ Ordered /\ ListRight /\ Counted /\ TreeKept /\ NodeKept
  BY DEF IInv
<1>3. roworder \in Seq(Rows) /\ NoneTwice(roworder) /\ path \in Seq(Branchings)
  BY <1>2 DEF TypeOK
<1>4. roworder' \in Seq(Rows) /\ NoneTwice(roworder') /\ Grows(roworder, roworder')
  BY <1>1, <1>3, AppendedOrder
<1>5. \A x : Repr(x, roworder') => Repr(x, roworder)
  BY <1>3, <1>4, FewerRepresentatives
<1>6. TypeOK'
  BY <1>1, <1>2, <1>4 DEF TypeOK
<1>7. Ordered'
  <2>1. roworder # <<>> => roworder' # <<>>
    BY <1>3, <1>4 DEF Grows
  <2> QED BY <1>1, <1>2, <2>1 DEF Ordered
<1>8. ListRight'
  BY <1>1, <1>2 DEF ListRight
<1>9. Counted'
  BY <1>1, <1>2 DEF Counted
<1>10. TreeKept'
  BY <1>1, <1>2, <1>5 DEF TreeKept, Kept, NotCut
<1>11. NodeKept'
  BY <1>1, <1>2, <1>5 DEF NodeKept, Kept, NotCut
<1> QED BY <1>6, <1>7, <1>8, <1>9, <1>10, <1>11 DEF IInv

(* What the propagation of the submatrix s does to the count, to the bounds *)
(* and to the solutions that are to be kept, if those have s sorted.        *)
LEMMA PropagationHolds ==
  ASSUME IInv, NEW s, Proper(s),
         NEW f, f = FullFixing(SubBounds(dom, s)),
         dom' = WriteBack(dom, s, f.dom), infeasible' = f.infeasible,
         nfixed' = nfixed + f.nfixed, UNCHANGED <<root, tree, roworder, path, entered>>,
         \A x \in Points : Fits(x, dom) /\ Repr(x, roworder) => Sorted(x, s)
  PROVE  /\ dom' \in Bounds /\ infeasible' \in BOOLEAN /\ nfixed' \in Nat
         /\ Tighter(dom, dom') /\ Counted' /\ TreeKept' /\ NodeKept'
<1>1. dom \in Bounds /\ entered \in Bounds /\ nfixed \in Nat
  BY DEF IInv, TypeOK
<1>2. /\ f.infeasible \in BOOLEAN /\ f.nfixed \in Nat /\ dom' \in Bounds
      /\ f.nfixed > 0 <=> dom' # dom
      /\ Tighter(dom, dom')
      /\ \A x \in Points : Fits(x, dom) /\ Sorted(x, s) => Fits(x, dom') /\ ~f.infeasible
  BY <1>1, OnePropagation
<1>3. Tighter(entered, dom) /\ (nfixed > 0 <=> dom # entered)
  BY DEF IInv, Counted
<1>4. Counted'
  <2>1. Tighter(entered, dom')
    BY <1>2, <1>3 DEF Tighter
  <2>2. ASSUME dom' # dom PROVE dom' # entered
    <3>1. PICK p \in Rows \X Cols : dom'[p] # dom[p]
      BY <1>1, <1>2, <2>2 DEF Bounds
    <3>2. dom[p] = "free" /\ (dom[p] = entered[p] \/ entered[p] = "free")
      BY <1>2, <1>3, <3>1 DEF Tighter
    <3> QED BY <3>1, <3>2
  <2>3. nfixed' > 0 <=> nfixed > 0 \/ f.nfixed > 0
    BY <1>1, <1>2
  <2>4. ASSUME dom # entered PROVE dom' # entered
    BY <1>2, <2>2, <2>4
  <2>5. ASSUME dom' # entered PROVE dom # entered \/ dom' # dom
    BY <2>5
  <2>6. nfixed' > 0 <=> dom' # entered
    BY <1>2, <1>3, <2>2, <2>3, <2>4, <2>5
  <2> QED BY <2>1, <2>6 DEF Counted
<1>5. TreeKept'
  BY DEF IInv, TreeKept, Kept, NotCut
<1>6. NodeKept'
  <2>1. ASSUME NEW x \in Points, Fits(x, root), Follows(x, path), Repr(x, roworder)
        PROVE  Fits(x, dom') /\ ~f.infeasible
    <3>1. Fits(x, dom)
      BY <2>1 DEF IInv, NodeKept, Kept
    <3>2. Sorted(x, s)
      BY <2>1, <3>1
    <3> QED BY <1>2, <3>1, <3>2
  <2> QED BY <2>1 DEF NodeKept, Kept, NotCut
<1>7. nfixed' \in Nat
  BY <1>1, <1>2
<1> QED BY <1>2, <1>4, <1>5, <1>6, <1>7

LEMMA WholeHolds ==
  ASSUME IInv, PropagateWhole PROVE IInv'
<1> DEFINE f == FullFixing(SubBounds(dom, Whole))
<1>1. /\ pc = "whole" /\ dom' = WriteBack(dom, Whole, f.dom) /\ infeasible' = f.infeasible
      /\ nfixed' = nfixed + f.nfixed /\ pc' \in {"return", "find"}
      /\ UNCHANGED <<root, tree, roworder, path, entered, list>>
  BY DEF PropagateWhole
<1>2. Proper(Whole)
  BY <1>1, ByOrder, ProperWhole DEF IInv, TypeOK, Ordered
<1>3. \A x \in Points : Repr(x, roworder) => Sorted(x, Whole)
  BY ByOrder DEF Repr
<1> HIDE DEF f
<1>4. /\ dom' \in Bounds /\ infeasible' \in BOOLEAN /\ nfixed' \in Nat
      /\ Counted' /\ TreeKept' /\ NodeKept'
  BY <1>1, <1>2, <1>3, PropagationHolds DEF f
<1>5. TypeOK'
  BY <1>1, <1>4 DEF IInv, TypeOK
<1>6. Ordered'
  BY <1>1 DEF IInv, Ordered
<1>7. ListRight'
  BY <1>1 DEF IInv, ListRight
<1> QED BY <1>4, <1>5, <1>6, <1>7 DEF IInv

(* A sub-symmetry of the node is one of each of its solutions, and remains  *)
(* one when bounds change in the meantime.                                  *)
LEMMA FindHolds ==
  ASSUME IInv, FindActivationData PROVE IInv'
<1>1. /\ pc = "find" /\ list' \in Lists(dom) /\ pc' = "sub"
      /\ UNCHANGED <<root, tree, roworder, path, entered, dom, infeasible, nfixed>>
  BY DEF FindActivationData
<1>2. dom \in Bounds
  BY DEF IInv, TypeOK
<1>3. PICK n \in 0 .. MaxList : list' \in [1 .. n -> {s \in Submatrices : Symmetric(dom, s)}]
  BY <1>1 DEF Lists
<1>4. n \in Nat /\ list' \in [1 .. n -> Submatrices]
      /\ \A k \in DOMAIN list' : list'[k] \in Submatrices /\ Symmetric(dom, list'[k])
  BY <1>3, SizeAssumption
<1>5. list' \in Seq(Submatrices)
  BY <1>4
<1>6. \A k \in DOMAIN list' : \A x \in Points : Fits(x, dom) => Symmetric(Fixed(x), list'[k])
  BY <1>2, <1>4, SymmetryAssumption
<1>7. TypeOK'
  BY <1>1, <1>5 DEF IInv, TypeOK
<1>8. Ordered'
  BY <1>1 DEF IInv, Ordered
<1>9. ListRight'
  BY <1>1, <1>6 DEF ListRight
<1>10. Counted' /\ TreeKept' /\ NodeKept'
  BY <1>1 DEF IInv, Counted, TreeKept, NodeKept, Kept, NotCut
<1> QED BY <1>7, <1>8, <1>9, <1>10 DEF IInv

LEMMA SubmatrixHolds ==
  ASSUME IInv, PropagateSubmatrix PROVE IInv'
<1> DEFINE s == Head(list)
           f == FullFixing(SubBounds(dom, s))
<1>1. /\ pc = "sub" /\ list # <<>> /\ dom' = WriteBack(dom, s, f.dom)
      /\ infeasible' = f.infeasible /\ nfixed' = nfixed + f.nfixed /\ list' = Tail(list)
      /\ UNCHANGED <<root, tree, roworder, pc, path, entered>>
  BY DEF PropagateSubmatrix
<1>2. list \in Seq(Submatrices)
  BY DEF IInv, TypeOK
<1>3. /\ 1 \in DOMAIN list /\ s = list[1] /\ s \in Submatrices /\ list' \in Seq(Submatrices)
      /\ \A k \in DOMAIN list' : k + 1 \in DOMAIN list /\ list'[k] = list[k + 1]
  BY <1>1, <1>2
<1> HIDE DEF s
<1>4. Proper(s)
  BY <1>3, ProperSubmatrix
<1>5. \A x \in Points : Fits(x, dom) => Symmetric(Fixed(x), s)
  BY <1>3 DEF IInv, ListRight
<1>6. \A x \in Points : Fits(x, dom) /\ Repr(x, roworder) => Sorted(x, s)
  BY <1>3, <1>5 DEF Repr
<1> HIDE DEF f
<1>7. /\ dom' \in Bounds /\ infeasible' \in BOOLEAN /\ nfixed' \in Nat
      /\ Tighter(dom, dom') /\ Counted' /\ TreeKept' /\ NodeKept'
  BY <1>1, <1>4, <1>6, PropagationHolds DEF f
<1>8. TypeOK'
  BY <1>1, <1>3, <1>7 DEF IInv, TypeOK
<1>9. Ordered'
  BY <1>1 DEF IInv, Ordered
<1>10. ListRight'
  <2>1. \A x \in Points : Fits(x, dom') => Fits(x, dom)
    BY <1>7, TighterFits
  <2>2. \A k \in DOMAIN list' : \A x \in Points : Fits(x, dom') => Symmetric(Fixed(x), list'[k])
    BY <1>3, <2>1 DEF IInv, ListRight
  <2> QED BY <1>1, <2>2 DEF ListRight
<1> QED BY <1>7, <1>8, <1>9, <1>10 DEF IInv

LEMMA FreeHolds ==
  ASSUME IInv, FreeSubmatrix PROVE IInv'
<1>1. /\ pc = "sub" /\ list # <<>> /\ list' = Tail(list)
      /\ UNCHANGED <<root, tree, roworder, pc, path, entered, dom, infeasible, nfixed>>
  BY DEF FreeSubmatrix
<1>2. list \in Seq(Submatrices)
  BY DEF IInv, TypeOK
<1>3. /\ list' \in Seq(Submatrices)
      /\ \A k \in DOMAIN list' : k + 1 \in DOMAIN list /\ list'[k] = list[k + 1]
  BY <1>1, <1>2
<1>4. TypeOK'
  BY <1>1, <1>3 DEF IInv, TypeOK
<1>5. Ordered'
  BY <1>1 DEF IInv, Ordered
<1>6. ListRight'
  BY <1>1, <1>3 DEF IInv, ListRight
<1>7. Counted' /\ TreeKept' /\ NodeKept'
  BY <1>1 DEF IInv, Counted, TreeKept, NodeKept, Kept, NotCut
<1> QED BY <1>4, <1>5, <1>6, <1>7 DEF IInv

LEMMA EndHolds ==
  ASSUME IInv, EndList PROVE IInv'
<1>1. /\ pc = "sub" /\ list = <<>> /\ pc' = "return"
      /\ UNCHANGED <<root, tree, roworder, path, entered, dom, list, infeasible, nfixed>>
  BY DEF EndList
<1>2. TypeOK' /\ Ordered' /\ ListRight'
  BY <1>1 DEF IInv, TypeOK, Ordered, ListRight
<1>3. Counted' /\ TreeKept' /\ NodeKept'
  BY <1>1 DEF IInv, Counted, TreeKept, NodeKept, Kept, NotCut
<1> QED BY <1>2, <1>3 DEF IInv

(* What is known of the node at hand becomes known of a node of the tree.   *)
LEMMA ReturnHolds ==
  ASSUME IInv, Return PROVE IInv'
<1>1. /\ pc = "return" /\ pc' = "idle" /\ path' = <<>> /\ dom' = root /\ entered' = root
      /\ infeasible' = FALSE /\ nfixed' = 0 /\ UNCHANGED <<root, roworder, list>>
      /\ DOMAIN tree' = DOMAIN tree \cup {path}
      /\ \A p \in DOMAIN tree' : tree'[p] = IF p = path THEN Node(dom, infeasible) ELSE tree[p]
  BY DEF Return
<1>2. \A p \in DOMAIN tree' :
        \/ p = path /\ tree'[p].dom = dom /\ tree'[p].cutoff = infeasible
        \/ p \in DOMAIN tree /\ tree'[p] = tree[p]
  BY <1>1 DEF Node
<1>3. TypeOK /\ Ordered /\ ListRight /\ TreeKept /\ NodeKept
  BY DEF IInv
<1>4. root \in Bounds /\ list = <<>>
  BY <1>1, <1>3, RootAssumption DEF TypeOK, ListRight
<1>5. \A p \in DOMAIN tree' :
        p \in Seq(Branchings) /\ tree'[p].dom \in Bounds /\ tree'[p].cutoff \in BOOLEAN
  BY <1>2, <1>3 DEF TypeOK
<1>6. TypeOK'
  <2>1. <<>> \in Seq(Branchings) /\ 0 \in Nat
    OBVIOUS
  <2> QED BY <1>1, <1>3, <1>4, <1>5, <2>1 DEF TypeOK
<1>7. Ordered'
  BY <1>1, <1>3 DEF Ordered
<1>8. ListRight'
  BY <1>1, <1>4 DEF ListRight
<1>9. Counted'
  BY <1>1, SameBounds DEF Counted
<1>10. TreeKept'
  BY <1>1, <1>2, <1>3 DEF TreeKept, NodeKept, Kept, NotCut
<1>11. NodeKept'
  BY <1>1 DEF NodeKept, Kept, NotCut
<1> QED BY <1>6, <1>7, <1>8, <1>9, <1>10, <1>11 DEF IInv

LEMMA StutterHolds ==
  ASSUME IInv, UNCHANGED vars PROVE IInv'
<1>1. UNCHANGED <<root, tree, roworder, pc, path, entered, dom, list, infeasible, nfixed>>
  BY DEF vars
<1>2. TypeOK' /\ Ordered' /\ ListRight'
  BY <1>1 DEF IInv, TypeOK, Ordered, ListRight
<1>3. Counted' /\ TreeKept' /\ NodeKept'
  BY <1>1 DEF IInv, Counted, TreeKept, NodeKept, Kept, NotCut
<1> QED BY <1>2, <1>3 DEF IInv

LEMMA NextHolds == IInv /\ [Next]_vars => IInv'
<1> SUFFICES ASSUME IInv, [Next]_vars PROVE IInv'
  OBVIOUS
<1>1. CASE Revisit
  BY <1>1, RevisitHolds
<1>2. CASE Branch
  BY <1>2, BranchHolds
<1>3. CASE ComputeDynamicRowOrder
  BY <1>3, OrderHolds
<1>4. CASE PropagateWhole
  BY <1>4, WholeHolds
<1>5. CASE FindActivationData
  BY <1>5, FindHolds
<1>6. CASE PropagateSubmatrix
  BY <1>6, SubmatrixHolds
<1>7. CASE FreeSubmatrix
  BY <1>7, FreeHolds
<1>8. CASE EndList
  BY <1>8, EndHolds
<1>9. CASE Return
  BY <1>9, ReturnHolds
<1>10. CASE UNCHANGED vars
  BY <1>10, StutterHolds
<1> QED BY <1>1, <1>2, <1>3, <1>4, <1>5, <1>6, <1>7, <1>8, <1>9, <1>10 DEF Next

LEMMA InvariantHolds == Spec => []IInv
BY InitHolds, NextHolds, PTL DEF Spec

-------------------------------------------------------------------------------
(***************************************************************************)
(* Theorems of the specification.                                          *)
(***************************************************************************)

(* The variables have the values their declarations in the code allow; in   *)
(* particular no row comes twice into the row order.                        *)
THEOREM TypeCorrect == Spec => []TypeOK
<1>1. IInv => TypeOK
  BY DEF IInv
<1> QED BY <1>1, InvariantHolds, PTL

(* propagateFullOrbitopeCons never loses a representative solution: at each *)
(* node of the tree those that obey the branchings are still there, in any  *)
(* sequence of visits to the nodes, although the row order grows meanwhile. *)
THEOREM KeepsRepresentatives == Spec => []RepresentativesKept
<1>1. IInv => RepresentativesKept
  <2> SUFFICES ASSUME IInv, NEW p \in DOMAIN tree, NEW x \in Points
               PROVE  \/ Fits(x, tree[p].dom) /\ ~tree[p].cutoff
                      \/ ~Fits(x, root) \/ ~Follows(x, p)
                      \/ ~Representative(x)
    BY DEF RepresentativesKept
  <2>1. Kept(p, tree[p].dom, roworder) /\ NotCut(p, tree[p].cutoff, roworder)
    BY DEF IInv, TreeKept
  <2> QED BY <2>1, ByOrder DEF Kept, NotCut
<1> QED BY <1>1, InvariantHolds, PTL

(* The number of fixed variables with which the propagation returns says    *)
(* whether it has changed a bound, whichever of its matrices it was in.     *)
THEOREM ReductionsReported == Spec => []CountTellsChange
<1>1. IInv => CountTellsChange
  BY DEF IInv, Counted, CountTellsChange
<1> QED BY <1>1, InvariantHolds, PTL

(* The propagation of the whole matrix fixes exactly what can be fixed: the *)
(* bounds become those of the sorted matrices of the node, and the node is  *)
(* cut off exactly when there are none.                                     *)
THEOREM PropagationExact == Spec => FixesExactly
<1>1. ASSUME IInv, PropagateWhole PROVE ExactStep
  <2> DEFINE f == FullFixing(SubBounds(dom, Whole))
             A == Admitted(dom, Whole)
  <2>1. pc = "whole" /\ dom' = WriteBack(dom, Whole, f.dom) /\ infeasible' = f.infeasible
    BY <1>1 DEF PropagateWhole
  <2>2. Proper(Whole) /\ dom \in Bounds
    BY <1>1, <2>1, ByOrder, ProperWhole DEF IInv, TypeOK, Ordered
  <2>3. PICK m, n : m = Len(Whole.rows) /\ n = Len(Whole.cols)
    OBVIOUS
  <2> HIDE DEF f
  <2>4. /\ dom' \in Bounds
        /\ f.infeasible <=> A = {}
        /\ ~f.infeasible => \A p \in Covered(Whole) :
             /\ dom'[p] = "one"  <=> \A x \in A : x[p[1]][p[2]] = 1
             /\ dom'[p] = "zero" <=> \A x \in A : x[p[1]][p[2]] = 0
    BY <2>1, <2>2, <2>3, SubmatrixExact DEF f
  <2>5. A = {x \in [Rows -> [Cols -> 0 .. 1]] : Fits(x, dom) /\ Sorted(x, Whole)}
    BY DEF Admitted, Grid
  <2>6. Covered(Whole) \subseteq Rows \X Cols
    BY <2>2 DEF Covered, Proper
  <2>7. \A p \in Rows \X Cols : \A x \in A : x[p[1]][p[2]] \in 0 .. 1
    BY <2>5
  <2> HIDE DEF A
  <2>8. ASSUME ~f.infeasible, NEW p \in Covered(Whole) PROVE dom'[p] = Hull(A, p)
    <3> DEFINE V == {x[p[1]][p[2]] : x \in A}
    <3>1. dom'[p] \in {"free", "zero", "one"}
      BY <2>4, <2>6 DEF Bounds, Dom
    <3>2. V # {} /\ V \subseteq 0 .. 1
      BY <2>4, <2>6, <2>7, <2>8
    <3>3. dom'[p] = "one" <=> V = {1}
      <4>1. dom'[p] = "one" <=> \A v \in V : v = 1
        BY <2>4, <2>8
      <4> HIDE DEF V
      <4> QED BY <3>2, <4>1
    <3>4. dom'[p] = "zero" <=> V = {0}
      <4>1. dom'[p] = "zero" <=> \A x \in A : x[p[1]][p[2]] = 0
        BY <2>4, <2>8
      <4>2. (\A x \in A : x[p[1]][p[2]] = 0) <=> \A v \in V : v = 0
        OBVIOUS
      <4> HIDE DEF V
      <4>3. (\A v \in V : v = 0) <=> V \subseteq {0}
        OBVIOUS
      <4>4. V \subseteq {0} <=> V = {0}
        BY <3>2
      <4> QED BY <4>1, <4>2, <4>3, <4>4
    <3>5. Hull(A, p) = IF V = {0} THEN "zero" ELSE IF V = {1} THEN "one" ELSE "free"
      BY DEF Hull
    <3> HIDE DEF V
    <3> QED BY <3>1, <3>3, <3>4, <3>5
  <2> QED BY <2>1, <2>4, <2>5, <2>8 DEF ExactStep
<1>2. ASSUME IInv, [Next]_vars PROVE [ExactStep]_vars
  <2>1. CASE PropagateWhole
    BY <1>1, <1>2, <2>1
  <2>2. CASE UNCHANGED vars
    BY <2>2
  <2>3. CASE ~PropagateWhole /\ ~UNCHANGED vars
    <3>1. pc # "whole"
      BY <1>2, <2>3 DEF Next, Revisit, Branch, ComputeDynamicRowOrder, FindActivationData,
         PropagateSubmatrix, FreeSubmatrix, EndList, Return
    <3> QED BY <3>1 DEF ExactStep
  <2> QED BY <2>1, <2>2, <2>3
<1> QED BY <1>2, InvariantHolds, PTL DEF Spec, FixesExactly
===============================================================================
