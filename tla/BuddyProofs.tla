------------------------------ MODULE BuddyProofs ------------------------------
(***************************************************************************)
(* Theorems about Buddy: a client's block stays in use in the tree, the    *)
(* tree and the kernel's heap agree on the nodes, nothing that fits is     *)
(* refused, and the mark of a block stays, for every size of the arena and *)
(* every number of clients, sizes and nodes.                               *)
(***************************************************************************)
EXTENDS Buddy, FiniteSetTheorems, WellFoundedInduction, TLAPS

-----------------------------------------------------------------------------
(* Loops over numbers. *)

LEMMA Upwards ==
    ASSUME NEW n \in Nat, NEW S, 0 \in S, \A i \in 0..n - 1 : i \in S => i + 1 \in S
    PROVE  0..n \subseteq S
<1> SUFFICES ASSUME NEW k \in 0..n, k \notin S PROVE FALSE
  OBVIOUS
<1> DEFINE D == {d \in Nat : d <= n /\ d \notin S}
<1>1. k \in D
  OBVIOUS
<1>2. PICK d \in D : \A e \in D : ~(<<e, d>> \in OpToRel(<, Nat))
  BY <1>1, NatLessThanWellFounded, WFMin
<1>3. d \in Nat /\ d <= n /\ d \notin S /\ d # 0
  BY <1>2
<1>4. d - 1 \in 0..n - 1 /\ d - 1 \in Nat /\ d - 1 < d /\ (d - 1) + 1 = d
  BY <1>3
<1>5. <<d - 1, d>> \in OpToRel(<, Nat)
  BY <1>3, <1>4 DEF OpToRel
<1>6. d - 1 \notin D
  BY <1>2, <1>5
<1>7. d - 1 \in S
  BY <1>3, <1>4, <1>6
<1> QED
  BY <1>3, <1>4, <1>7

LEMMA Least ==
    ASSUME NEW S, S \subseteq Nat, S # {}
    PROVE  \E m \in S : \A y \in S : m <= y
<1>1. PICK m \in S : \A y \in S : ~(<<y, m>> \in OpToRel(<, Nat))
  BY NatLessThanWellFounded, WFMin
<1>2. ASSUME NEW y \in S PROVE m <= y
  <2>1. y \in Nat /\ m \in Nat
    OBVIOUS
  <2>2. ~(y < m)
    BY <1>1, <2>1 DEF OpToRel
  <2> QED
    BY <2>1, <2>2
<1> QED
  BY <1>2

-----------------------------------------------------------------------------
(* The powers of two. *)

LEMMA Constants ==
    /\ MAX_ORDER \in Nat /\ MAX_ORDER > 0 /\ Width \in Nat /\ MAX_ORDER < Width - 1
    /\ MAX_ORDER \in 0..Width - 1 /\ MAX_ORDER <= Width - 2 /\ NodeRoom \in Nat
BY BuddyAssumption

\* Doubling, as far as i.
Doubles(k, f) == f = [i \in 0..k |-> IF i = 0 THEN 1 ELSE 2 * f[i - 1]]

LEMMA DoublesDefined == ASSUME NEW n \in Nat PROVE \E f : Doubles(n, f)
<1> DEFINE S == {k \in 0..n : \E f : Doubles(k, f)}
<1>1. 0 \in S
  <2> DEFINE f == [i \in 0..0 |-> 1]
             g == [i \in 0..0 |-> IF i = 0 THEN 1 ELSE 2 * f[i - 1]]
  <2>1. f = g
    OBVIOUS
  <2> HIDE DEF f
  <2>2. Doubles(0, f)
    BY <2>1 DEF Doubles
  <2> QED
    BY <2>2
<1>2. ASSUME NEW k \in 0..n - 1, k \in S PROVE k + 1 \in S
  <2>1. PICK f : Doubles(k, f)
    BY <1>2
  <2> DEFINE g == [i \in 0..k + 1 |-> IF i = k + 1 THEN 2 * f[k] ELSE f[i]]
             h == [i \in 0..k + 1 |-> IF i = 0 THEN 1 ELSE 2 * g[i - 1]]
  <2>2. k \in Nat /\ k + 1 \in 0..n /\ k + 1 # 0 /\ (k + 1) - 1 = k
    OBVIOUS
  <2>3. \A i \in 0..k : g[i] = f[i]
    BY <2>2
  <2>4. ASSUME NEW i \in 0..k + 1 PROVE g[i] = h[i]
    <3>1. CASE i = k + 1
      <4>1. g[i] = 2 * f[k] /\ h[i] = 2 * g[k] /\ g[k] = f[k]
        BY <2>2, <2>3, <3>1
      <4> QED
        BY <4>1
    <3>2. CASE i # k + 1
      <4>1. i \in 0..k /\ (i # 0 => i - 1 \in 0..k)
        BY <2>2, <3>2
      <4>2. g[i] = f[i] /\ (i # 0 => g[i - 1] = f[i - 1])
        BY <2>3, <4>1
      <4>3. f[i] = IF i = 0 THEN 1 ELSE 2 * f[i - 1]
        BY <2>1, <4>1 DEF Doubles
      <4>4. h[i] = IF i = 0 THEN 1 ELSE 2 * g[i - 1]
        OBVIOUS
      <4> HIDE DEF g, h
      <4> QED
        BY <4>2, <4>3, <4>4
    <3> QED
      BY <3>1, <3>2
  <2>5. g = h
    BY <2>4
  <2> HIDE DEF g
  <2>6. Doubles(k + 1, g)
    BY <2>5 DEF Doubles
  <2> QED
    BY <2>2, <2>6
<1>3. n \in S
  <2> HIDE DEF S
  <2> QED
    BY <1>1, <1>2, Upwards
<1> QED
  BY <1>3

LEMMA ShiftedIs ==
    /\ Shifted[0] = 1
    /\ \A i \in 0..Width - 2 : Shifted[i + 1] = 2 * Shifted[i]
<1> DEFINE n == Width - 1
           f == CHOOSE f : Doubles(n, f)
<1>1. n \in Nat /\ n > 0
  BY Constants
<1>2. Doubles(n, f)
  <2> HIDE DEF n
  <2> QED
    BY <1>1, DoublesDefined
<1>3. Shifted = [i \in 0..n |-> f[i]]
  BY DEF Shifted, Doubles
<1> HIDE DEF f
<1>4. f[0] = 1 /\ 0 \in 0..n
  BY <1>1, <1>2 DEF Doubles
<1>5. ASSUME NEW i \in 0..n - 1 PROVE i \in 0..n /\ i + 1 \in 0..n /\ f[i + 1] = 2 * f[i]
  <2>1. i \in 0..n /\ i + 1 \in 0..n /\ i + 1 # 0 /\ (i + 1) - 1 = i
    BY <1>1
  <2>2. f[i + 1] = 2 * f[(i + 1) - 1]
    BY <1>2, <2>1 DEF Doubles
  <2> QED
    BY <2>1, <2>2
<1>6. Width - 2 = n - 1
  BY Constants
<1> QED
  BY <1>3, <1>4, <1>5, <1>6

LEMMA ShiftedNat == \A i \in 0..Width - 1 : Shifted[i] \in Nat \ {0}
<1> DEFINE n == Width - 1
           S == {i \in 0..n : Shifted[i] \in Nat \ {0}}
<1>1. n \in Nat /\ n - 1 = Width - 2
  BY Constants
<1>2. 0 \in S
  BY <1>1, ShiftedIs
<1>3. ASSUME NEW i \in 0..n - 1, i \in S PROVE i + 1 \in S
  <2>1. Shifted[i] \in Nat \ {0} /\ Shifted[i + 1] = 2 * Shifted[i] /\ i + 1 \in 0..n
    BY <1>1, <1>3, ShiftedIs
  <2>2. Shifted[i + 1] \in Nat \ {0}
    BY <2>1
  <2> QED
    BY <2>1, <2>2
<1>4. 0..n \subseteq S
  <2> HIDE DEF S, n
  <2> QED
    BY <1>1, <1>2, <1>3, Upwards
<1> QED
  BY <1>4

\* A larger order is at least twice as much.
LEMMA ShiftedGrows ==
    ASSUME NEW i \in 0..Width - 1, NEW j \in 0..Width - 1, i < j
    PROVE  2 * Shifted[i] <= Shifted[j] /\ Shifted[i] < Shifted[j]
<1> DEFINE n == j - (i + 1)
           S == {k \in 0..n : 2 * Shifted[i] <= Shifted[(i + 1) + k]}
<1>1. n \in Nat /\ i \in Nat /\ i \in 0..Width - 2 /\ (i + 1) + n = j
  BY Constants
<1>2. Shifted[i] \in Nat \ {0} /\ Shifted[i + 1] = 2 * Shifted[i]
  BY <1>1, ShiftedIs, ShiftedNat
<1>3. 0 \in S
  <2>1. (i + 1) + 0 = i + 1 /\ 0 \in 0..n
    BY <1>1
  <2>2. 2 * Shifted[i] <= Shifted[i + 1]
    BY <1>2
  <2> QED
    BY <2>1, <2>2
<1>4. ASSUME NEW k \in 0..n - 1, k \in S PROVE k + 1 \in S
  <2> DEFINE m == (i + 1) + k
  <2>1. m \in 0..Width - 2 /\ m \in 0..Width - 1 /\ (i + 1) + (k + 1) = m + 1 /\ k + 1 \in 0..n
    BY <1>1, Constants
  <2>2. 2 * Shifted[i] <= Shifted[m]
    BY <1>4
  <2> HIDE DEF m
  <2>3. Shifted[m + 1] = 2 * Shifted[m] /\ Shifted[m] \in Nat
    BY <2>1, ShiftedIs, ShiftedNat
  <2>4. 2 * Shifted[i] <= Shifted[m + 1]
    BY <1>2, <2>2, <2>3
  <2> QED
    BY <2>1, <2>4
<1>5. n \in S
  <2> HIDE DEF S, n
  <2> QED
    BY <1>1, <1>3, <1>4, Upwards
<1>6. 2 * Shifted[i] <= Shifted[j] /\ Shifted[j] \in Nat
  BY <1>1, <1>5, ShiftedNat
<1> QED
  BY <1>2, <1>6

\* The small orders, whose marks may overlap, and the others.
LEMMA SmallOrders ==
    ASSUME NEW i \in 0..Width - 1
    PROVE  /\ i < 3 => Shifted[i] <= 4
           /\ i = 3 => Shifted[i] = 8
           /\ i > 3 => Shifted[i] >= 16
<1>1. i \in Nat /\ Width \in Nat
  BY Constants
<1>2. i >= 1 => Shifted[1] = 2
  <2>1. i >= 1 => 0 \in 0..Width - 2 /\ 0 + 1 = 1
    BY <1>1
  <2>2. i >= 1 => Shifted[1] = 2 * Shifted[0]
    BY <2>1, ShiftedIs
  <2> QED
    BY <2>2, ShiftedIs
<1>3. i >= 2 => Shifted[2] = 4
  <2>1. i >= 2 => 1 \in 0..Width - 2 /\ 1 + 1 = 2 /\ i >= 1
    BY <1>1
  <2>2. i >= 2 => Shifted[2] = 2 * Shifted[1]
    BY <2>1, ShiftedIs
  <2> QED
    BY <1>2, <2>1, <2>2
<1>4. i >= 3 => Shifted[3] = 8
  <2>1. i >= 3 => 2 \in 0..Width - 2 /\ 2 + 1 = 3 /\ i >= 2
    BY <1>1
  <2>2. i >= 3 => Shifted[3] = 2 * Shifted[2]
    BY <2>1, ShiftedIs
  <2> QED
    BY <1>3, <2>1, <2>2
<1>5. i > 3 => Shifted[i] >= 16
  <2>1. i > 3 => 3 \in 0..Width - 1 /\ 3 < i
    BY <1>1
  <2>2. i > 3 => 2 * Shifted[3] <= Shifted[i]
    BY <2>1, ShiftedGrows
  <2>3. i > 3 => 2 * Shifted[3] = 16
    BY <1>1, <1>4
  <2> QED
    BY <1>1, <2>2, <2>3
<1>6. i < 3 => i = 0 \/ i = 1 \/ i = 2
  BY <1>1
<1> QED
  BY <1>2, <1>3, <1>4, <1>5, <1>6, ShiftedIs

\* Order finds an order where the loop ends.
LEMMA OrderIs ==
    ASSUME NEW size \in Nat, size > 0, ~Endless(size)
    PROVE  /\ Order(size) \in 0..Width - 2
           /\ Shifted[Order(size)] >= size
           /\ Order(size) > 0 => Shifted[Order(size) - 1] < size
<1> DEFINE S == {o \in 0..Width - 2 : Shifted[o] >= size}
<1>1. Width - 2 \in 0..Width - 2 /\ Width - 2 \in 0..Width - 1 /\ Width - 2 \in Nat
  BY Constants
<1>2. Width - 2 \in S
  <2>1. Shifted[Width - 2] \in Nat /\ ~(size > Shifted[Width - 2])
    BY <1>1, ShiftedNat DEF Endless
  <2>2. Shifted[Width - 2] >= size
    BY <2>1
  <2> QED
    BY <1>1, <2>2
<1>3. PICK m \in S : \A y \in S : m <= y
  <2>1. S \subseteq Nat
    OBVIOUS
  <2> HIDE DEF S
  <2> QED
    BY <1>2, <2>1, Least
<1>4. m = 0 \/ Shifted[m - 1] < size
  <2> SUFFICES ASSUME m # 0 PROVE Shifted[m - 1] < size
    OBVIOUS
  <2>1. m \in 0..Width - 2 /\ Width \in Nat
    BY <1>3, Constants
  <2>2. m - 1 \in 0..Width - 2 /\ m - 1 \in 0..Width - 1 /\ ~(m <= m - 1)
    BY <2>1
  <2>3. ~(Shifted[m - 1] >= size)
    BY <1>3, <2>2
  <2>4. Shifted[m - 1] \in Nat
    BY <2>2, ShiftedNat
  <2> QED
    BY <2>3, <2>4, <2>1
<1>5. \E o \in 0..Width - 2 : Shifted[o] >= size /\ (o = 0 \/ Shifted[o - 1] < size)
  BY <1>4
<1> QED
  BY <1>5 DEF Order


-----------------------------------------------------------------------------
(* The nodes. *)

LEMMA OrdersShift ==
    ASSUME NEW o \in 0..MAX_ORDER
    PROVE  /\ o \in Nat /\ o \in 0..Width - 1 /\ o \in 0..Width - 2
           /\ Shifted[o] \in Nat \ {0}
           /\ Shifted[o] <= Shifted[MAX_ORDER]
           /\ o < MAX_ORDER =>
                 /\ o + 1 \in 0..MAX_ORDER
                 /\ Shifted[o] < Shifted[MAX_ORDER] /\ Shifted[o + 1] = 2 * Shifted[o]
<1>1. o \in Nat /\ o \in 0..Width - 1 /\ o \in 0..Width - 2 /\ MAX_ORDER \in 0..Width - 1
  BY Constants
<1>2. Shifted[o] \in Nat \ {0} /\ Shifted[MAX_ORDER] \in Nat
  BY <1>1, ShiftedNat
<1>3. o < MAX_ORDER => Shifted[o] < Shifted[MAX_ORDER]
  BY <1>1, ShiftedGrows
<1>4. Shifted[o + 1] = 2 * Shifted[o]
  BY <1>1, ShiftedIs
<1>5. Shifted[o] <= Shifted[MAX_ORDER]
  <2>1. o < MAX_ORDER \/ o = MAX_ORDER
    BY Constants
  <2> QED
    BY <1>2, <1>3, <2>1
<1>6. o < MAX_ORDER => o + 1 \in 0..MAX_ORDER
  BY Constants
<1> QED
  BY <1>1, <1>2, <1>3, <1>4, <1>5, <1>6

\* The halves at the arena's start, and the others.
LEMMA HalvesAreNodes ==
    /\ \A o \in 0..MAX_ORDER : <<o, 0>> \in Node
    /\ \A o \in 0..MAX_ORDER - 1 : <<o, Shifted[o]>> \in Node
<1>1. ASSUME NEW o \in 0..MAX_ORDER PROVE <<o, 0>> \in Node
  <2>1. Shifted[o] \in Nat \ {0} /\ Shifted[MAX_ORDER] \in Nat \ {0}
    BY Constants, OrdersShift
  <2>2. 0 % Shifted[o] = 0 /\ 0 \in 0..Shifted[MAX_ORDER] - 1
    BY <2>1
  <2> QED
    BY <2>2 DEF Node
<1>2. ASSUME NEW o \in 0..MAX_ORDER - 1 PROVE <<o, Shifted[o]>> \in Node
  <2>1. o \in 0..MAX_ORDER /\ o < MAX_ORDER
    BY Constants
  <2>2. Shifted[o] \in Nat \ {0} /\ Shifted[o] < Shifted[MAX_ORDER] /\ Shifted[MAX_ORDER] \in Nat
    BY <2>1, Constants, OrdersShift
  <2>3. Shifted[o] % Shifted[o] = 0 /\ Shifted[o] \in 0..Shifted[MAX_ORDER] - 1
    BY <2>2
  <2> QED
    BY <2>1, <2>3 DEF Node
<1> QED
  BY <1>1, <1>2

LEMMA NodeIs ==
    ASSUME NEW n \in Node
    PROVE  /\ n = <<n[1], n[2]>> /\ n[1] \in 0..MAX_ORDER
           /\ n[2] \in 0..Shifted[MAX_ORDER] - 1 /\ n[2] \in Nat /\ n[2] % Shifted[n[1]] = 0
           /\ Bytes[n] = n[2]..n[2] + Shifted[n[1]] - 1
<1>1. Bytes[n] = n[2]..n[2] + Shifted[n[1]] - 1
  BY DEF Bytes
<1>2. n = <<n[1], n[2]>> /\ n[1] \in 0..MAX_ORDER /\ n[2] \in 0..Shifted[MAX_ORDER] - 1 /\ n[2] % Shifted[n[1]] = 0
  BY DEF Node
<1> QED
  BY <1>1, <1>2

LEMMA SmallMultiple ==
    ASSUME NEW k \in Nat, NEW q \in Nat \ {0}, k % q = 0, k < q
    PROVE  k = 0
OBVIOUS

\* A node that is not longer than a start it holds starts at 0 itself.
LEMMA Start ==
    ASSUME NEW n \in Node, NEW start \in Nat, start < Shifted[n[1]], start \in Bytes[n]
    PROVE  n = <<n[1], 0>>
<1>1. n[1] \in 0..MAX_ORDER /\ n[2] \in Nat /\ n[2] % Shifted[n[1]] = 0 /\ n = <<n[1], n[2]>>
  BY NodeIs
<1>2. Shifted[n[1]] \in Nat \ {0}
  BY <1>1, OrdersShift
<1>3. n[2] <= start
  BY <1>1, <1>2, NodeIs
<1>4. n[2] < Shifted[n[1]]
  BY <1>1, <1>2, <1>3
<1>5. n[2] = 0
  BY <1>1, <1>2, <1>4, SmallMultiple
<1> QED
  BY <1>1, <1>5

LEMMA StartBytes ==
    ASSUME NEW o \in 0..MAX_ORDER
    PROVE  <<o, 0>> \in Node /\ Bytes[<<o, 0>>] = 0..Shifted[o] - 1
<1>1. <<o, 0>> \in Node
  BY HalvesAreNodes
<1>2. Shifted[o] \in Nat
  BY OrdersShift
<1>3. Bytes[<<o, 0>>] = 0..0 + Shifted[o] - 1
  BY <1>1 DEF Bytes
<1> QED
  BY <1>1, <1>2, <1>3

\* The node at the arena's start, as free_buddy's loop finds it.
LEMMA FoundAtStart ==
    ASSUME NEW o \in 0..MAX_ORDER
    PROVE  (CHOOSE n \in Path(0, o) : n[1] = o) = <<o, 0>>
<1>1. Shifted[o] \in Nat \ {0} /\ o \in Nat
  BY OrdersShift
<1>2. <<o, 0>> \in Path(0, o)
  <2>1. 0 \in 0..Shifted[o] - 1
    BY <1>1
  <2> QED
    BY <2>1, <1>1, StartBytes DEF Path
<1>3. ASSUME NEW n \in Path(0, o), n[1] = o PROVE n = <<o, 0>>
  <2>1. n \in Node /\ 0 \in Bytes[n]
    BY DEF Path
  <2>2. 0 < Shifted[n[1]]
    BY <1>1, <1>3
  <2> QED
    BY <1>3, <2>1, <2>2, Start
<1> QED
  BY <1>2, <1>3

LEMMA ParentAtStart ==
    ASSUME NEW o \in 0..MAX_ORDER - 1
    PROVE  Parent(<<o, 0>>) = <<o + 1, 0>> /\ Parent(<<o, Shifted[o]>>) = <<o + 1, 0>>
<1>1. o \in 0..MAX_ORDER /\ o + 1 \in 0..MAX_ORDER /\ o \in Nat /\ o < MAX_ORDER
  BY Constants
<1>2. Shifted[o] \in Nat \ {0} /\ Shifted[o + 1] = 2 * Shifted[o]
  BY <1>1, OrdersShift
<1>3. ASSUME NEW start \in {0, Shifted[o]}
      PROVE  (CHOOSE p \in Path(start, o) : p[1] = o + 1) = <<o + 1, 0>>
  <2>1. start \in 0..Shifted[o + 1] - 1 /\ start \in Nat /\ start < Shifted[o + 1]
    BY <1>2
  <2>2. <<o + 1, 0>> \in Path(start, o)
    <3>1. o + 1 >= o
      BY <1>1
    <3> QED
      BY <1>1, <2>1, <3>1, StartBytes DEF Path
  <2>3. ASSUME NEW p \in Path(start, o), p[1] = o + 1 PROVE p = <<o + 1, 0>>
    <3>1. p \in Node /\ start \in Bytes[p] /\ start < Shifted[p[1]]
      BY <2>1, <2>3 DEF Path
    <3> QED
      BY <2>1, <2>3, <3>1, Start
  <2> QED
    BY <2>2, <2>3
<1> QED
  BY <1>3 DEF Parent

\* The halves of the nodes at the start.
LEMMA HalvesAtStart ==
    ASSUME NEW o \in 0..MAX_ORDER - 1
    PROVE  Left(<<o + 1, 0>>) = <<o, 0>> /\ Right(<<o + 1, 0>>) = <<o, Shifted[o]>>
<1>1. o \in 0..MAX_ORDER /\ o \in Nat /\ (o + 1) - 1 = o
  BY Constants
<1>2. Shifted[o] \in Nat
  BY <1>1, OrdersShift
<1>3. 0 + Shifted[o] = Shifted[o]
  BY <1>2
<1> QED
  BY <1>1, <1>3 DEF Left, Right

-----------------------------------------------------------------------------
(* The search. *)

LEMMA Halved ==
    ASSUME NEW k \in Nat, NEW q \in Nat \ {0}, k % (2 * q) = 0
    PROVE  k % q = 0
<1>1. PICK d \in Int : k = d * (2 * q)
  OBVIOUS
<1>2. d * (2 * q) = (2 * d) * q
  OBVIOUS
<1>3. ((2 * d) * q) % q = 0
  OBVIOUS
<1> QED
  BY <1>1, <1>2, <1>3

\* What starts a node starts smaller nodes as well.
LEMMA Divides ==
    ASSUME NEW n \in Node, NEW o \in 0..n[1]
    PROVE  <<o, n[2]>> \in Node
<1> DEFINE p == n[1]
           S == {d \in 0..p : n[2] % Shifted[p - d] = 0}
<1>1. p \in 0..MAX_ORDER /\ p \in Nat /\ n[2] \in 0..Shifted[MAX_ORDER] - 1 /\ n[2] \in Nat /\ n[2] % Shifted[p] = 0
  BY NodeIs, Constants
<1> HIDE DEF p
<1>2. 0 \in S
  BY <1>1
<1>3. ASSUME NEW d \in 0..p - 1, d \in S PROVE d + 1 \in S
  <2> DEFINE r == p - (d + 1)
  <2>1. r \in 0..MAX_ORDER /\ r < MAX_ORDER /\ p - d = r + 1 /\ d + 1 \in 0..p
    BY <1>1, Constants
  <2>2. n[2] % Shifted[p - d] = 0
    BY <1>3
  <2> HIDE DEF r
  <2>3. Shifted[r] \in Nat \ {0} /\ Shifted[r + 1] = 2 * Shifted[r]
    BY <2>1, OrdersShift
  <2>4. n[2] % (2 * Shifted[r]) = 0
    BY <2>1, <2>2, <2>3
  <2>5. n[2] % Shifted[r] = 0
    BY <1>1, <2>3, <2>4, Halved
  <2> QED
    BY <2>1, <2>5 DEF r
<1>4. p - o \in S
  <2>1. p - o \in 0..p
    BY <1>1 DEF p
  <2> HIDE DEF S
  <2> QED
    BY <1>1, <1>2, <1>3, <2>1, Upwards
<1>5. o \in 0..MAX_ORDER /\ p - (p - o) = o
  BY <1>1, Constants DEF p
<1>6. n[2] % Shifted[o] = 0
  BY <1>4, <1>5
<1> QED
  BY <1>1, <1>5, <1>6 DEF Node

\* What a search's calls return, and one such table.
Calls(order, f) ==
    f = [m \in Node |->
            IF order > m[1] THEN [ret |-> NoBlock, from |-> {}]
            ELSE IF order = m[1] THEN [ret |-> m, from |-> {}]
            ELSE LET left == f[Left(m)]
                     right == f[Right(m)]
                 IN  IF left.ret # NoBlock THEN [left EXCEPT !.from = @ \cup {m}]
                     ELSE [ret |-> right.ret, from |-> left.from \cup right.from \cup {m}]]

Found(order, m) == [ret |-> <<order, m[2]>>, from |-> {<<o, m[2]>> : o \in order + 1..m[1]}]

LEMMA FoundGrows ==
    ASSUME NEW order \in Nat, NEW m \in Node, order < m[1]
    PROVE  /\ Left(m) \in Node /\ Left(m)[1] \in Nat /\ order <= Left(m)[1]
           /\ Found(order, Left(m)).ret # NoBlock
           /\ [Found(order, Left(m)) EXCEPT !.from = @ \cup {m}] = Found(order, m)
<1>1. m[1] \in Nat /\ m[1] \in 0..MAX_ORDER /\ m = <<m[1], m[2]>>
  BY NodeIs, Constants
<1>2. m[1] - 1 \in 0..m[1] /\ m[1] - 1 \in Nat /\ order <= m[1] - 1 /\ order \in 0..m[1]
  BY <1>1
<1>3. Left(m) = <<m[1] - 1, m[2]>>
  BY DEF Left
<1>4. Left(m) \in Node /\ <<order, m[2]>> \in Node
  BY <1>2, <1>3, Divides
<1>5. <<order, m[2]>> # NoBlock
  BY <1>4, BuddyAssumption
<1>6. order + 1..m[1] = (order + 1..m[1] - 1) \cup {m[1]}
  BY <1>1, <1>2
<1>7. {<<o, m[2]>> : o \in order + 1..m[1]} = {<<o, m[2]>> : o \in order + 1..m[1] - 1} \cup {m}
  <2>1. {<<o, m[2]>> : o \in order + 1..m[1]} = {<<o, m[2]>> : o \in order + 1..m[1] - 1} \cup {<<m[1], m[2]>>}
    BY <1>6
  <2> QED
    BY <1>1, <2>1
<1>8. [Found(order, Left(m)) EXCEPT !.from = @ \cup {m}] = Found(order, m)
  <2> DEFINE shorter == {<<o, m[2]>> : o \in order + 1..m[1] - 1}
             longer == {<<o, m[2]>> : o \in order + 1..m[1]}
             node == <<order, m[2]>>
  <2>1. Found(order, Left(m)) = [ret |-> node, from |-> shorter] /\ Found(order, m) = [ret |-> node, from |-> longer]
    BY <1>3 DEF Found
  <2>2. longer = shorter \cup {m}
    BY <1>7
  <2> HIDE DEF shorter, longer, node
  <2> QED
    BY <2>1, <2>2
<1>9. Found(order, Left(m)).ret # NoBlock
  BY <1>3, <1>5 DEF Found
<1> QED
  BY <1>2, <1>3, <1>4, <1>8, <1>9

LEMMA SearchDefined == ASSUME NEW order \in Nat PROVE \E f : Calls(order, f)
<1> DEFINE f == [m \in Node |-> IF order > m[1] THEN [ret |-> NoBlock, from |-> {}] ELSE Found(order, m)]
           g == [m \in Node |->
                    IF order > m[1] THEN [ret |-> NoBlock, from |-> {}]
                    ELSE IF order = m[1] THEN [ret |-> m, from |-> {}]
                    ELSE LET left == f[Left(m)]
                             right == f[Right(m)]
                         IN  IF left.ret # NoBlock THEN [left EXCEPT !.from = @ \cup {m}]
                             ELSE [ret |-> right.ret, from |-> left.from \cup right.from \cup {m}]]
<1>1. ASSUME NEW m \in Node PROVE f[m] = g[m]
  <2>1. m[1] \in Nat /\ m = <<m[1], m[2]>>
    BY NodeIs, Constants
  <2>2. CASE order > m[1]
    BY <2>2
  <2>3. CASE order = m[1]
    <3>1. order + 1..m[1] = {} /\ ~(order > m[1])
      BY <2>1, <2>3
    <3>2. Found(order, m) = [ret |-> m, from |-> {}]
      <4>1. {<<o, m[2]>> : o \in order + 1..m[1]} = {}
        BY <3>1
      <4>2. <<order, m[2]>> = m
        BY <2>1, <2>3
      <4> QED
        BY <4>1, <4>2 DEF Found
    <3>3. f[m] = Found(order, m) /\ g[m] = [ret |-> m, from |-> {}]
      BY <3>1, <2>3
    <3> QED
      BY <3>2, <3>3
  <2>4. CASE order < m[1]
    <3>1. ~(order > m[1]) /\ order # m[1]
      BY <2>1, <2>4
    <3>2. /\ Left(m) \in Node /\ ~(order > Left(m)[1])
          /\ Found(order, Left(m)).ret # NoBlock
          /\ [Found(order, Left(m)) EXCEPT !.from = @ \cup {m}] = Found(order, m)
      BY <2>4, FoundGrows
    <3>3. f[m] = Found(order, m) /\ f[Left(m)] = Found(order, Left(m))
      BY <3>1, <3>2
    <3>4. g[m] = IF f[Left(m)].ret # NoBlock THEN [f[Left(m)] EXCEPT !.from = @ \cup {m}]
                 ELSE [ret |-> f[Right(m)].ret, from |-> f[Left(m)].from \cup f[Right(m)].from \cup {m}]
      BY <3>1
    <3> HIDE DEF f, g
    <3> QED
      BY <3>2, <3>3, <3>4
  <2> QED
    BY <2>1, <2>2, <2>3, <2>4
<1>2. f = g
  <2>1. f = [m \in Node |-> f[m]]
    BY Zenon
  <2>2. g = [m \in Node |-> g[m]]
    BY SMT
  <2> HIDE DEF f, g
  <2>3. [m \in Node |-> f[m]] = [m \in Node |-> g[m]]
    BY <1>1, Zenon
  <2> QED
    BY <2>1, <2>2, <2>3, Zenon
<1> HIDE DEF f
<1>3. Calls(order, f)
  BY <1>2 DEF Calls
<1> QED
  BY <1>3

\* A search finds the node at the arena's start, and fails only for an order
\* that the arena does not have (buddy.c:47-69).
LEMMA SearchFinds ==
    ASSUME NEW order \in Nat
    PROVE  /\ order > MAX_ORDER => Search(Root, order) = [ret |-> NoBlock, from |-> {}]
           /\ order <= MAX_ORDER =>
                 Search(Root, order) =
                     [ret |-> <<order, 0>>, from |-> {<<o, 0>> : o \in order + 1..MAX_ORDER}]
<1> DEFINE f == CHOOSE f : Calls(order, f)
<1>1. Calls(order, f)
  BY SearchDefined
<1>2. Search(Root, order) = f[Root]
  BY DEF Search, Calls
<1> HIDE DEF f
<1>3. Root \in Node /\ Root[1] = MAX_ORDER /\ Root[2] = 0
  BY HalvesAreNodes, Constants DEF Root
<1>4. CASE order > MAX_ORDER
  <2>1. f[Root] = [ret |-> NoBlock, from |-> {}]
    BY <1>1, <1>3, <1>4 DEF Calls
  <2> QED
    BY <1>2, <1>4, <2>1, Constants
<1>5. CASE order <= MAX_ORDER
  <2> DEFINE n == MAX_ORDER - order
             S == {k \in 0..n : f[<<order + k, 0>>] = Found(order, <<order + k, 0>>)}
  <2>1. n \in Nat /\ order + n = MAX_ORDER
    BY <1>5, Constants
  <2>2. 0 \in S
    <3> DEFINE m == <<order, 0>>
    <3>1. m \in Node /\ m[1] = order /\ ~(order > order) /\ order + 0 = order
      BY <1>5, HalvesAreNodes, Constants
    <3>2. f[m] = [ret |-> m, from |-> {}]
      BY <1>1, <3>1 DEF Calls
    <3>3. Found(order, m) = [ret |-> m, from |-> {}]
      <4>1. order + 1..order = {}
        OBVIOUS
      <4>2. {<<o, 0>> : o \in order + 1..order} = {}
        BY <4>1
      <4> QED
        BY <4>2 DEF Found
    <3>4. 0 \in 0..n
      BY <2>1
    <3> QED
      BY <3>1, <3>2, <3>3, <3>4
  <2>3. ASSUME NEW k \in 0..n - 1, k \in S PROVE k + 1 \in S
    <3> DEFINE p == order + (k + 1)
               m == <<p, 0>>
    <3>1. p \in 0..MAX_ORDER /\ order < p /\ p - 1 = order + k /\ k + 1 \in 0..n
      BY <2>1, Constants
    <3>2. m \in Node /\ m[1] = p /\ Left(m) = <<order + k, 0>>
      BY <3>1, HalvesAreNodes DEF Left
    <3>3. f[Left(m)] = Found(order, Left(m))
      BY <2>3, <3>2
    <3>4. /\ Left(m) \in Node
          /\ Found(order, Left(m)).ret # NoBlock
          /\ [Found(order, Left(m)) EXCEPT !.from = @ \cup {m}] = Found(order, m)
      <4>1. m \in Node /\ order < m[1]
        BY <3>1, <3>2
      <4> HIDE DEF m
      <4> QED
        BY <4>1, FoundGrows
    <3>5. ~(order > m[1]) /\ order # m[1]
      BY <3>1
    <3>6. f[m] = IF f[Left(m)].ret # NoBlock THEN [f[Left(m)] EXCEPT !.from = @ \cup {m}]
                 ELSE [ret |-> f[Right(m)].ret, from |-> f[Left(m)].from \cup f[Right(m)].from \cup {m}]
      <4>1. m \in Node
        BY <3>2
      <4> HIDE DEF m
      <4> QED
        BY <1>1, <4>1, <3>5 DEF Calls
    <3>7. f[m] = Found(order, m)
      <4> HIDE DEF m
      <4> QED
        BY <3>3, <3>4, <3>6
    <3> QED
      BY <3>1, <3>7
  <2>4. n \in S
    <3> HIDE DEF S, n
    <3> QED
      BY <2>1, <2>2, <2>3, Upwards
  <2>5. f[<<MAX_ORDER, 0>>] = Found(order, <<MAX_ORDER, 0>>)
    <3>1. f[<<order + n, 0>>] = Found(order, <<order + n, 0>>)
      BY <2>4
    <3> HIDE DEF n
    <3> QED
      BY <2>1, <3>1
  <2>6. Found(order, <<MAX_ORDER, 0>>) = [ret |-> <<order, 0>>, from |-> {<<o, 0>> : o \in order + 1..MAX_ORDER}]
    BY DEF Found
  <2> QED
    BY <1>2, <1>5, <2>5, <2>6, Constants DEF Root
<1> QED
  BY <1>4, <1>5, Constants

-----------------------------------------------------------------------------
(* The orders of the blocks. *)

LEMMA OrderOfBlock ==
    ASSUME NEW size \in 1..Shifted[MAX_ORDER]
    PROVE  Order(size) \in 0..MAX_ORDER /\ size <= Shifted[Order(size)]
<1>1. Shifted[MAX_ORDER] \in Nat /\ MAX_ORDER \in 0..Width - 1 /\ Width - 2 \in 0..Width - 1
  BY Constants, OrdersShift
<1>2. Shifted[MAX_ORDER] <= Shifted[Width - 2] /\ Shifted[Width - 2] \in Nat
  <2>1. MAX_ORDER < Width - 2 \/ MAX_ORDER = Width - 2
    BY Constants
  <2>2. MAX_ORDER < Width - 2 => Shifted[MAX_ORDER] < Shifted[Width - 2]
    BY <1>1, ShiftedGrows
  <2>3. Shifted[Width - 2] \in Nat
    BY <1>1, ShiftedNat
  <2> QED
    BY <1>1, <2>1, <2>2, <2>3
<1>3. size \in Nat /\ size > 0 /\ ~Endless(size)
  BY <1>1, <1>2 DEF Endless
<1> DEFINE o == Order(size)
<1>4. o \in 0..Width - 2 /\ Shifted[o] >= size /\ (o > 0 => Shifted[o - 1] < size)
  BY <1>3, OrderIs
<1> HIDE DEF o
<1>5. o <= MAX_ORDER
  <2> SUFFICES ASSUME o > MAX_ORDER PROVE FALSE
    BY <1>4, Constants
  <2>1. o > 0 /\ o - 1 \in 0..Width - 1 /\ (MAX_ORDER < o - 1 \/ MAX_ORDER = o - 1)
    BY <1>4, Constants
  <2>2. Shifted[o - 1] \in Nat /\ Shifted[o - 1] < size
    BY <1>4, <2>1, ShiftedNat
  <2>3. MAX_ORDER < o - 1 => Shifted[MAX_ORDER] < Shifted[o - 1]
    BY <1>1, <2>1, ShiftedGrows
  <2> QED
    BY <1>1, <2>1, <2>2, <2>3
<1>6. Shifted[o] \in Nat
  BY <1>4, <1>5, OrdersShift, Constants
<1>7. o \in 0..MAX_ORDER
  BY <1>4, <1>5, Constants
<1>8. size <= Shifted[o]
  BY <1>4, <1>6
<1> QED
  BY <1>7, <1>8 DEF o

\* What malloc asks of a size, and what its order then tells.
LEMMA OrderOfSize ==
    ASSUME NEW size \in Int, size > 0, ~Endless(size)
    PROVE  /\ Order(size) \in Nat
           /\ Order(size) <= MAX_ORDER => size \in 1..Shifted[MAX_ORDER] /\ Order(size) \in 0..MAX_ORDER
           /\ Order(size) > MAX_ORDER => size > Shifted[MAX_ORDER]
<1> DEFINE o == Order(size)
<1>1. o \in 0..Width - 2 /\ Shifted[o] >= size /\ (o > 0 => Shifted[o - 1] < size)
  BY OrderIs
<1> HIDE DEF o
<1>2. o \in Nat /\ Shifted[MAX_ORDER] \in Nat
  BY <1>1, Constants, OrdersShift
<1>3. ASSUME o <= MAX_ORDER PROVE size \in 1..Shifted[MAX_ORDER] /\ o \in 0..MAX_ORDER
  <2>1. o \in 0..MAX_ORDER
    BY <1>2, <1>3, Constants
  <2>2. Shifted[o] \in Nat /\ Shifted[o] <= Shifted[MAX_ORDER]
    BY <2>1, OrdersShift
  <2> QED
    BY <1>1, <1>2, <2>1, <2>2
<1>4. ASSUME o > MAX_ORDER PROVE size > Shifted[MAX_ORDER]
  <2>1. o > 0 /\ o - 1 \in 0..Width - 1 /\ (MAX_ORDER < o - 1 \/ MAX_ORDER = o - 1)
    BY <1>1, <1>4, Constants
  <2>2. Shifted[o - 1] \in Nat /\ Shifted[o - 1] < size
    BY <1>1, <2>1, ShiftedNat
  <2>3. MAX_ORDER < o - 1 => Shifted[MAX_ORDER] < Shifted[o - 1]
    BY <2>1, ShiftedGrows, Constants
  <2> QED
    BY <1>2, <2>1, <2>2, <2>3
<1> QED
  BY <1>2, <1>3, <1>4 DEF o

-----------------------------------------------------------------------------
(* The spine. *)

LEMMA OnSpine ==
    ASSUME NEW low \in 0..MAX_ORDER
    PROVE  /\ Root \in Spine(low)
           /\ \A o \in 0..MAX_ORDER : <<o, 0>> \in Spine(low) <=> o >= low
           /\ \A o \in 0..MAX_ORDER - 1 : <<o, Shifted[o]>> \in Spine(low) <=> o >= low
           /\ \A n \in Spine(low) : n = Root \/ \E o \in low..MAX_ORDER - 1 : n = <<o, 0>> \/ n = <<o, Shifted[o]>>
<1>1. Root = <<MAX_ORDER, 0>> /\ MAX_ORDER \in Nat /\ low \in Nat
  BY Constants DEF Root
<1>2. ASSUME NEW o \in 0..MAX_ORDER PROVE <<o, 0>> \in Spine(low) <=> o >= low
  <2>1. Shifted[o] # 0 /\ \A p \in low..MAX_ORDER - 1 : Shifted[p] # 0
    <3>1. \A p \in 0..MAX_ORDER : Shifted[p] # 0
      BY OrdersShift
    <3> QED
      BY <1>1, <3>1
  <2>2. CASE o = MAX_ORDER
    BY <1>1, <2>2 DEF Spine
  <2>3. CASE o # MAX_ORDER
    <3>1. o \in low..MAX_ORDER - 1 <=> o >= low
      BY <1>1, <2>3
    <3> QED
      BY <1>1, <2>1, <2>3, <3>1 DEF Spine
  <2> QED
    BY <2>2, <2>3
<1>3. ASSUME NEW o \in 0..MAX_ORDER - 1 PROVE <<o, Shifted[o]>> \in Spine(low) <=> o >= low
  <2>1. Shifted[o] # 0
    BY <1>1, OrdersShift
  <2>2. o \in low..MAX_ORDER - 1 <=> o >= low
    BY <1>1
  <2>3. <<o, Shifted[o]>> # Root
    BY <1>1, <2>1
  <2> QED
    BY <2>1, <2>2, <2>3 DEF Spine
<1>4. ASSUME NEW n \in Spine(low), n # Root
      PROVE  \E o \in low..MAX_ORDER - 1 : n = <<o, 0>> \/ n = <<o, Shifted[o]>>
  BY <1>4 DEF Spine
<1> QED
  BY <1>1, <1>2, <1>3, <1>4 DEF Spine

LEMMA SpineGrows ==
    ASSUME NEW low \in 0..MAX_ORDER - 1
    PROVE  Spine(low) = Spine(low + 1) \cup {<<low, 0>>} \cup {<<low, Shifted[low]>>}
<1>1. low..MAX_ORDER - 1 = (low + 1..MAX_ORDER - 1) \cup {low}
  BY Constants
<1> QED
  BY <1>1 DEF Spine

LEMMA SpineSize ==
    ASSUME NEW low \in 0..MAX_ORDER
    PROVE  IsFiniteSet(Spine(low)) /\ Cardinality(Spine(low)) = 1 + 2 * (MAX_ORDER - low)
<1> DEFINE Sized(d) == IsFiniteSet(Spine(MAX_ORDER - d)) /\ Cardinality(Spine(MAX_ORDER - d)) = 1 + 2 * d
           S == {d \in 0..MAX_ORDER : Sized(d)}
<1>1. MAX_ORDER \in Nat
  BY Constants
<1>2. 0 \in S
  <2>1. MAX_ORDER - 0 = MAX_ORDER /\ MAX_ORDER..MAX_ORDER - 1 = {} /\ 0 \in 0..MAX_ORDER
    BY <1>1
  <2>2. Spine(MAX_ORDER) = {Root}
    BY <2>1 DEF Spine
  <2>3. IsFiniteSet({Root}) /\ Cardinality({Root}) = 1
    BY FS_Singleton
  <2> QED
    BY <2>1, <2>2, <2>3
<1>3. ASSUME NEW d \in 0..MAX_ORDER - 1, d \in S PROVE d + 1 \in S
  <2> DEFINE p == MAX_ORDER - (d + 1)
             T == Spine(p + 1)
             U == T \cup {<<p, 0>>}
             V == U \cup {<<p, Shifted[p]>>}
  <2>1. p \in 0..MAX_ORDER - 1 /\ p \in 0..MAX_ORDER /\ p + 1 \in 0..MAX_ORDER /\ MAX_ORDER - d = p + 1 /\ p \in Nat
    BY <1>1
  <2>2. IsFiniteSet(T) /\ Cardinality(T) = 1 + 2 * d
    BY <1>3, <2>1
  <2>3. Spine(p) = V
    <3> HIDE DEF p
    <3> QED
      BY <2>1, SpineGrows
  <2>4. <<p, 0>> \notin T /\ <<p, Shifted[p]>> \notin T
    <3> HIDE DEF p
    <3>1. ~(p >= p + 1)
      BY <2>1
    <3> QED
      BY <2>1, <3>1, OnSpine
  <2>5. Shifted[p] # 0
    <3> HIDE DEF p
    <3> QED
      BY <2>1, OrdersShift
  <2>6. <<p, Shifted[p]>> \notin U
    BY <2>4, <2>5
  <2> HIDE DEF T
  <2>7. IsFiniteSet(U) /\ Cardinality(U) = (1 + 2 * d) + 1
    BY <2>2, <2>4, FS_AddElement
  <2> HIDE DEF U
  <2>8. IsFiniteSet(V) /\ Cardinality(V) = ((1 + 2 * d) + 1) + 1
    BY <2>6, <2>7, FS_AddElement
  <2>9. ((1 + 2 * d) + 1) + 1 = 1 + 2 * (d + 1) /\ d + 1 \in 0..MAX_ORDER
    BY <1>1
  <2> HIDE DEF V
  <2> QED
    BY <2>3, <2>8, <2>9
<1>4. 0..MAX_ORDER \subseteq S
  <2> HIDE DEF S
  <2> QED
    BY <1>1, <1>2, <1>3, Upwards
<1>5. MAX_ORDER - low \in 0..MAX_ORDER /\ MAX_ORDER - (MAX_ORDER - low) = low
  BY <1>1
<1> QED
  BY <1>4, <1>5

-----------------------------------------------------------------------------
(* What the calls do to a spine. *)

\* The nodes of a range of orders at the start.
LEMMA Row ==
    ASSUME NEW from \in Nat, NEW to \in Nat, from <= to
    PROVE  /\ IsFiniteSet((from + 1..to) \X {0})
           /\ Cardinality((from + 1..to) \X {0}) = to - from
<1> DEFINE S == {k \in 0..to - from :
                    /\ IsFiniteSet((from + 1..from + k) \X {0})
                    /\ Cardinality((from + 1..from + k) \X {0}) = k}
<1>1. 0 \in S
  <2>1. (from + 1..from + 0) \X {0} = {} /\ 0 \in 0..to - from
    BY DEF S
  <2> QED
    BY <2>1, FS_EmptySet
<1>2. ASSUME NEW k \in 0..(to - from) - 1, k \in S PROVE k + 1 \in S
  <2> DEFINE T == (from + 1..from + k) \X {0}
             p == from + (k + 1)
  <2>1. IsFiniteSet(T) /\ Cardinality(T) = k /\ k \in Nat /\ k + 1 \in 0..to - from
    BY <1>2
  <2>2. <<p, 0>> \notin T
    OBVIOUS
  <2>3. (from + 1..p) \X {0} = T \cup {<<p, 0>>}
    <3>1. from + 1..p = (from + 1..from + k) \cup {p}
      OBVIOUS
    <3> HIDE DEF p
    <3> QED
      BY <3>1
  <2> HIDE DEF T
  <2>4. IsFiniteSet(T \cup {<<p, 0>>}) /\ Cardinality(T \cup {<<p, 0>>}) = k + 1
    BY <2>1, <2>2, FS_AddElement
  <2> QED
    BY <2>1, <2>3, <2>4
<1>3. to - from \in Nat /\ from + (to - from) = to /\ to - from \in 0..to - from
  OBVIOUS
<1>4. to - from \in S
  <2> DEFINE n == to - from
  <2>1. n \in Nat /\ n \in 0..n
    BY <1>3
  <2>2. 0..n \subseteq S
    <3>1. \A k \in 0..n - 1 : k \in S => k + 1 \in S
      BY <1>2
    <3> HIDE DEF S, n
    <3> QED
      BY <1>1, <2>1, <3>1, Upwards
  <2> QED
    BY <2>1, <2>2
<1> QED
  BY <1>3, <1>4

\* A grant at the start: what is missing of the spine is made.
LEMMA AllocEffect ==
    ASSUME NEW low \in 0..MAX_ORDER, DOMAIN tree = Spine(low), taken \in Int,
           NEW order \in 0..MAX_ORDER,
           NEW new, new = IF low < order THEN low ELSE order
    PROVE  \E t :
              /\ alloc_buddy(Now, Root, order) =
                    [tree |-> t, taken |-> taken + 2 * (low - new), ret |-> <<order, 0>>,
                     null |-> (new # low /\ taken + 2 * (low - new) > NodeRoom), cut |-> FALSE]
              /\ DOMAIN t = Spine(new)
              /\ DOMAIN tree \subseteq DOMAIN t
              /\ <<order, 0>> \in DOMAIN t /\ t[<<order, 0>>] = "ALLOCATED"
              /\ \A n \in DOMAIN tree : n # <<order, 0>> => t[n] = tree[n]
<1> DEFINE N == (new + 1..low) \X {0}
           halves == {Left(n) : n \in N} \cup {Right(n) : n \in N}
<1>1. low \in Nat /\ order \in Nat /\ MAX_ORDER \in Nat /\ low <= MAX_ORDER /\ order <= MAX_ORDER
  BY Constants
<1>2. new \in 0..MAX_ORDER /\ new <= low /\ new <= order /\ new \in Nat /\ new \in 0..low
  BY <1>1
<1>3. \A n \in N : \E o \in new..low - 1 : n = <<o + 1, 0>>
  <2> TAKE n \in N
  <2>1. PICK p \in new + 1..low : n = <<p, 0>>
    OBVIOUS
  <2>2. p - 1 \in new..low - 1 /\ (p - 1) + 1 = p
    BY <1>1, <1>2
  <2> WITNESS p - 1 \in new..low - 1
  <2> QED
    BY <2>1, <2>2
<1>4. \A o \in new..low - 1 : <<o + 1, 0>> \in N /\ o \in 0..MAX_ORDER - 1
  BY <1>1, <1>2
<1>5. halves = {<<o, 0>> : o \in new..low - 1} \cup {<<o, Shifted[o]>> : o \in new..low - 1}
  <2>1. \A o \in new..low - 1 : Left(<<o + 1, 0>>) = <<o, 0>> /\ Right(<<o + 1, 0>>) = <<o, Shifted[o]>>
    BY <1>4, HalvesAtStart
  <2>2. \A n \in N : \E o \in new..low - 1 : Left(n) = <<o, 0>> /\ Right(n) = <<o, Shifted[o]>>
    BY <1>3, <2>1
  <2>3. \A o \in new..low - 1 : \E n \in N : Left(n) = <<o, 0>> /\ Right(n) = <<o, Shifted[o]>>
    BY <1>4, <2>1
  <2> HIDE DEF N
  <2>4. {Left(n) : n \in N} = {<<o, 0>> : o \in new..low - 1}
    BY <2>2, <2>3
  <2>5. {Right(n) : n \in N} = {<<o, Shifted[o]>> : o \in new..low - 1}
    BY <2>2, <2>3
  <2> QED
    BY <2>4, <2>5
<1>6. Spine(new) = Spine(low) \cup halves
  <2>1. new..MAX_ORDER - 1 = (low..MAX_ORDER - 1) \cup (new..low - 1)
    BY <1>1, <1>2
  <2>2. ((low..MAX_ORDER - 1) \cup (new..low - 1)) \X {0} = ((low..MAX_ORDER - 1) \X {0}) \cup {<<o, 0>> : o \in new..low - 1}
    OBVIOUS
  <2>3. {<<o, Shifted[o]>> : o \in new..MAX_ORDER - 1} =
            {<<o, Shifted[o]>> : o \in low..MAX_ORDER - 1} \cup {<<o, Shifted[o]>> : o \in new..low - 1}
    BY <2>1
  <2> HIDE DEF halves
  <2> QED
    BY <1>5, <2>1, <2>2, <2>3 DEF Spine
<1>7. {m \in {<<o, 0>> : o \in order + 1..MAX_ORDER} : Leaf(tree, m)} = N
  <2>1. ASSUME NEW o \in order + 1..MAX_ORDER PROVE Leaf(tree, <<o, 0>>) <=> o \in new + 1..low
    <3>1. o # 0 /\ o - 1 \in 0..MAX_ORDER /\ o - 1 \in 0..MAX_ORDER - 1 /\ (o - 1) + 1 = o
      BY <1>1
    <3>2. Left(<<o, 0>>) = <<o - 1, 0>>
      BY <3>1, HalvesAtStart
    <3>3. Leaf(tree, <<o, 0>>) <=> ~(o - 1 >= low)
      BY <3>1, <3>2, OnSpine DEF Leaf
    <3>4. ~(o - 1 >= low) <=> o \in new + 1..low
      BY <1>1, <1>2, <3>1
    <3> QED
      BY <3>3, <3>4
  <2>2. ASSUME NEW o \in new + 1..low PROVE o \in order + 1..MAX_ORDER
    BY <1>1, <1>2
  <2>3. \A n \in N : \E o \in new + 1..low : n = <<o, 0>>
    OBVIOUS
  <2>4. \A o \in new + 1..low : <<o, 0>> \in N
    OBVIOUS
  <2> HIDE DEF N
  <2> QED
    BY <2>1, <2>2, <2>3, <2>4
<1>8. IsFiniteSet(N) /\ Cardinality(N) = low - new
  BY <1>1, <1>2, Row
<1>9. N # {} <=> new # low
  <2>1. ASSUME new # low PROVE <<new + 1, 0>> \in N
    <3>1. new + 1 \in new + 1..low
      BY <1>1, <1>2, <2>1
    <3> QED
      BY <3>1
  <2>2. ASSUME new = low PROVE N = {}
    <3>1. new + 1..low = {}
      BY <1>1, <1>2, <2>2
    <3> QED
      BY <3>1
  <2> QED
    BY <2>1, <2>2
<1> DEFINE found == [ret |-> <<order, 0>>, from |-> {<<o, 0>> : o \in order + 1..MAX_ORDER}]
           grown == [m \in DOMAIN tree \cup halves |-> IF m \in DOMAIN tree THEN tree[m] ELSE "FREE"]
           k == taken + 2 * (low - new)
           null == new # low /\ k > NodeRoom
           split == [tree |-> grown, taken |-> k, ret |-> NoBlock, null |-> null, cut |-> FALSE]
           t == [grown EXCEPT ![<<order, 0>>] = "ALLOCATED"]
<1>10. alloc_buddy(Now, Root, order) = Granting(Now, found)
  BY <1>1, SearchFinds DEF alloc_buddy
<1>11. split_buddy(Now, N) = split
  <2>1. FALSE \/ (N # {} /\ taken + 2 * Cardinality(N) > NodeRoom) <=> null
    BY <1>8, <1>9
  <2>2. (FALSE \/ (N # {} /\ taken + 2 * Cardinality(N) > NodeRoom)) = null
    BY <2>1
  <2> DEFINE sum == taken + 2 * Cardinality(N)
             short == FALSE \/ (N # {} /\ sum > NodeRoom)
  <2>3. Now.tree = tree /\ Now.taken = taken /\ Now.null = FALSE
    BY DEF Now
  <2>4. split_buddy(Now, N) = [Now EXCEPT !.tree = grown, !.taken = sum, !.null = short]
    <3> HIDE DEF N
    <3> QED
      BY <2>3 DEF split_buddy
  <2>5. sum = k /\ short = null
    <3> HIDE DEF N, null
    <3> QED
      BY <1>8, <2>2
  <2> HIDE DEF N, grown, null, sum, short
  <2> QED
    BY <2>4, <2>5 DEF Now
<1>12. <<order, 0>> # NoBlock
  BY HalvesAreNodes, BuddyAssumption
<1>13. Granting(Now, found) = [split EXCEPT !.tree[<<order, 0>>] = "ALLOCATED", !.ret = <<order, 0>>]
  <2>1. Now.tree = tree
    BY DEF Now
  <2>2. found.ret = <<order, 0>> /\ {m \in found.from : Leaf(Now.tree, m)} = N
    BY <1>7, <2>1
  <2> HIDE DEF N, split, found
  <2> QED
    BY <1>11, <1>12, <2>2 DEF Granting
<1>14. alloc_buddy(Now, Root, order) = [tree |-> t, taken |-> k, ret |-> <<order, 0>>, null |-> null, cut |-> FALSE]
  <2> HIDE DEF grown, null, found, k
  <2> QED
    BY <1>10, <1>13
<1>15. DOMAIN grown = Spine(new)
  <2> HIDE DEF halves
  <2> QED
    BY <1>6
<1>16. DOMAIN t = Spine(new)
  <2> HIDE DEF grown
  <2> QED
    BY <1>15
<1>17. <<order, 0>> \in DOMAIN t /\ t[<<order, 0>>] = "ALLOCATED"
  <2>1. <<order, 0>> \in Spine(new)
    BY <1>1, <1>2, OnSpine
  <2> HIDE DEF grown
  <2> QED
    BY <1>15, <1>16, <2>1
<1>18. ASSUME NEW n \in DOMAIN tree, n # <<order, 0>> PROVE t[n] = tree[n]
  <2>1. grown[n] = tree[n] /\ n \in DOMAIN grown
    <3> HIDE DEF halves
    <3> QED
      OBVIOUS
  <2> HIDE DEF grown
  <2> QED
    BY <1>18, <2>1
<1>19. DOMAIN tree \subseteq DOMAIN t
  <2> HIDE DEF t, halves
  <2> QED
    BY <1>6, <1>16
<1> HIDE DEF t
<1> WITNESS t
<1> QED
  BY <1>14, <1>16, <1>17, <1>18, <1>19

\* What is left of a spine when all below one of its nodes is dropped.
LEMMA Cropped ==
    ASSUME NEW low \in 0..MAX_ORDER, NEW r \in low..MAX_ORDER
    PROVE  Spine(low) \ Below(<<r, 0>>) = Spine(r)
<1>1. r \in 0..MAX_ORDER /\ low \in Nat /\ MAX_ORDER \in Nat /\ r \in Nat
  BY Constants
<1>2. Bytes[<<r, 0>>] = 0..Shifted[r] - 1 /\ Shifted[r] \in Nat \ {0}
  BY <1>1, StartBytes, OrdersShift
<1>3. ASSUME NEW o \in low..MAX_ORDER - 1
      PROVE  /\ <<o, 0>> \in Below(<<r, 0>>) <=> o < r
             /\ <<o, Shifted[o]>> \in Below(<<r, 0>>) <=> o < r
  <2>1. o \in 0..MAX_ORDER - 1 /\ o \in 0..MAX_ORDER
    BY <1>1
  <2>2. <<o, 0>> \in Node /\ <<o, Shifted[o]>> \in Node
    BY <2>1, HalvesAreNodes
  <2>3. o < r => Shifted[o] < Shifted[r]
    <3>1. o \in 0..Width - 1 /\ r \in 0..Width - 1
      BY <1>1, <2>1, OrdersShift
    <3> QED
      BY <3>1, ShiftedGrows
  <2>4. 0 \in Bytes[<<r, 0>>] /\ (o < r => Shifted[o] \in Bytes[<<r, 0>>])
    <3>1. Shifted[o] \in Nat
      BY <2>1, OrdersShift
    <3> QED
      BY <1>2, <2>3, <3>1
  <2> QED
    BY <2>2, <2>4 DEF Below
<1>4. Root \notin Below(<<r, 0>>)
  BY <1>1 DEF Below, Root
<1>5. ASSUME NEW n PROVE n \in Spine(low) \ Below(<<r, 0>>) <=> n \in Spine(r)
  <2>1. ASSUME n \in Spine(low), n \notin Below(<<r, 0>>) PROVE n \in Spine(r)
    <3>1. CASE n = Root
      BY <1>1, <3>1, OnSpine
    <3>2. CASE n # Root
      <4>1. PICK o \in low..MAX_ORDER - 1 : n = <<o, 0>> \/ n = <<o, Shifted[o]>>
        BY <2>1, <3>2, OnSpine
      <4>2. ~(o < r)
        BY <1>3, <2>1, <4>1
      <4>3. o >= r /\ o \in 0..MAX_ORDER - 1 /\ o \in 0..MAX_ORDER
        BY <1>1, <4>2
      <4>4. <<o, 0>> \in Spine(r) /\ <<o, Shifted[o]>> \in Spine(r)
        BY <1>1, <4>3, OnSpine
      <4> QED
        BY <4>1, <4>4
    <3> QED
      BY <3>1, <3>2
  <2>2. ASSUME n \in Spine(r) PROVE n \in Spine(low) /\ n \notin Below(<<r, 0>>)
    <3>1. CASE n = Root
      BY <1>4, <3>1, OnSpine
    <3>2. CASE n # Root
      <4>1. PICK o \in r..MAX_ORDER - 1 : n = <<o, 0>> \/ n = <<o, Shifted[o]>>
        BY <1>1, <2>2, <3>2, OnSpine
      <4>2. o \in low..MAX_ORDER - 1 /\ ~(o < r) /\ o >= low /\ o \in 0..MAX_ORDER - 1 /\ o \in 0..MAX_ORDER
        BY <1>1
      <4>3. <<o, 0>> \in Spine(low) /\ <<o, Shifted[o]>> \in Spine(low)
        BY <4>2, OnSpine
      <4> QED
        BY <1>3, <4>1, <4>2, <4>3
    <3> QED
      BY <3>1, <3>2
  <2> QED
    BY <2>1, <2>2
<1> QED
  BY <1>5

\* A free at the start: the node of the order becomes free, and the spine may
\* end above it.  What is of a larger order stays as it was.
FreeTo(low, t, k, ret, null, order, s) ==
    \E low2 \in 0..MAX_ORDER, k2 \in Int, cut \in BOOLEAN : \E u :
        /\ s = [tree |-> u, taken |-> k2, ret |-> ret, null |-> null, cut |-> cut]
        /\ DOMAIN u = Spine(low2)
        /\ ~cut => k2 = k - 2 * (low2 - low)
        /\ \A o \in 0..MAX_ORDER :
              o > order /\ <<o, 0>> \in DOMAIN t => <<o, 0>> \in DOMAIN u /\ u[<<o, 0>>] = t[<<o, 0>>]

LEMMA FreeEffect ==
    ASSUME NEW low \in 0..MAX_ORDER, NEW t, DOMAIN t = Spine(low), NEW k \in Int, NEW ret,
           NEW null, NEW order \in 0..MAX_ORDER
    PROVE  FreeTo(low, t, k, ret, null, order,
                  free_buddy([tree |-> t, taken |-> k, ret |-> ret, null |-> null, cut |-> FALSE], 0, order))
<1> SUFFICES
        \E low2 \in 0..MAX_ORDER, k2 \in Int, cut \in BOOLEAN : \E u :
            /\ free_buddy([tree |-> t, taken |-> k, ret |-> ret, null |-> null, cut |-> FALSE], 0, order) =
                  [tree |-> u, taken |-> k2, ret |-> ret, null |-> null, cut |-> cut]
            /\ DOMAIN u = Spine(low2)
            /\ ~cut => k2 = k - 2 * (low2 - low)
            /\ \A o \in 0..MAX_ORDER :
                  o > order /\ <<o, 0>> \in DOMAIN t => <<o, 0>> \in DOMAIN u /\ u[<<o, 0>>] = t[<<o, 0>>]
  BY Zenon DEF FreeTo
<1> DEFINE no == FALSE
           s == [tree |-> t, taken |-> k, ret |-> ret, null |-> null, cut |-> no]
           r == IF order = MAX_ORDER THEN MAX_ORDER ELSE order + 1
           node == <<order, 0>>
           root == <<r, 0>>
           v == [t EXCEPT ![node] = "FREE"]
           freed == [tree |-> v, taken |-> k, ret |-> ret, null |-> null, cut |-> no]
           Kept(u) == \A o \in 0..MAX_ORDER :
                    o > order /\ <<o, 0>> \in DOMAIN t =>
                        <<o, 0>> \in DOMAIN u /\ u[<<o, 0>>] = t[<<o, 0>>]
<1>1. low \in Nat /\ order \in Nat /\ MAX_ORDER \in Nat /\ order <= MAX_ORDER /\ MAX_ORDER > 0
  BY Constants
<1>2. r \in 0..MAX_ORDER /\ r > 0 /\ r - 1 \in 0..MAX_ORDER - 1 /\ (r - 1) + 1 = r /\ r - 1 \in 0..MAX_ORDER
  BY <1>1
<1>3. \A o \in 0..MAX_ORDER : o > order => o >= r
  BY <1>1
<1>4. k = k - 2 * (low - low)
  BY <1>1
<1>5. s.tree = t /\ free_buddy(s, 0, order) = IF node \notin DOMAIN t THEN s ELSE merge_buddy(freed, root)
  <2>1. (CHOOSE n \in Path(0, order) : n[1] = order) = node
    BY FoundAtStart
  <2>2. (IF node = Root THEN Root ELSE Parent(node)) = root
    <3>1. CASE order = MAX_ORDER
      BY <3>1 DEF Root
    <3>2. CASE order # MAX_ORDER
      <4>1. order \in 0..MAX_ORDER - 1 /\ r = order + 1
        BY <1>1, <3>2
      <4>2. Parent(node) = <<order + 1, 0>> /\ node # Root
        BY <3>2, <4>1, ParentAtStart DEF Root
      <4> HIDE DEF r
      <4> QED
        BY <4>1, <4>2
    <3> QED
      BY <3>1, <3>2
  <2>3. s.tree = t
    OBVIOUS
  <2>4. [s EXCEPT !.tree[node] = "FREE"] = freed
    <3> DEFINE cleared == [s.tree EXCEPT ![node] = "FREE"]
    <3>1. [s EXCEPT !.tree[node] = "FREE"] = [s EXCEPT !.tree = cleared]
      <4> HIDE DEF node, s
      <4> QED
        BY Zenon
    <3>2. cleared = v
      BY <2>3
    <3> HIDE DEF cleared, v
    <3>3. [s EXCEPT !.tree = v] = freed
      <4> HIDE DEF no
      <4> QED
        OBVIOUS
    <3>4. [s EXCEPT !.tree = cleared] = freed
      <4> HIDE DEF s, freed
      <4> QED
        BY <3>2, <3>3, Zenon
    <3> QED
      BY <3>1, <3>4, Zenon
  <2> HIDE DEF node, root, freed, s
  <2>5. free_buddy(s, 0, order) =
            IF node \notin DOMAIN s.tree THEN s ELSE merge_buddy([s EXCEPT !.tree[node] = "FREE"], root)
    <3> DEFINE place == CHOOSE n \in Path(0, order) : n[1] = order
    <3>1. free_buddy(s, 0, order) =
              IF place \notin DOMAIN s.tree THEN s
              ELSE merge_buddy([s EXCEPT !.tree[place] = "FREE"], IF place = Root THEN Root ELSE Parent(place))
      BY Zenon DEF free_buddy
    <3>2. place = node
      BY <2>1
    <3> HIDE DEF place
    <3> QED
      BY <2>2, <3>1, <3>2, Zenon
  <2> QED
    BY <2>3, <2>4, <2>5, Zenon
<1>6. CASE node \notin DOMAIN t
  <2>1. free_buddy(s, 0, order) = [tree |-> t, taken |-> k, ret |-> ret, null |-> null, cut |-> FALSE]
    BY <1>5, <1>6
  <2>2. Kept(t)
    OBVIOUS
  <2> WITNESS low \in 0..MAX_ORDER, k \in Int, FALSE \in BOOLEAN
  <2> WITNESS t
  <2> QED
    BY <1>4, <2>1, <2>2
<1>7. CASE node \in DOMAIN t
  <2>1. free_buddy(s, 0, order) = merge_buddy(freed, root)
    BY <1>5, <1>7
  <2>2. DOMAIN v = Spine(low) /\ \A n \in DOMAIN t : n # node => v[n] = t[n]
    OBVIOUS
  <2>3. \A o \in 0..MAX_ORDER : o > order => <<o, 0>> # node
    BY <1>1
  <2>4. freed.tree = v /\ freed.taken = k /\ freed.cut = FALSE
    OBVIOUS
  <2> DEFINE left == <<r - 1, 0>>
             right == <<r - 1, Shifted[r - 1]>>
             w == [m \in DOMAIN v \ Below(root) |-> v[m]]
             cut == FALSE \/ ~Leaf(v, left) \/ ~Leaf(v, right)
             stays == Leaf(v, root) \/ "ALLOCATED" \in {v[left], v[right]}
  <2> HIDE DEF v
  <2>5. Left(root) = left /\ Right(root) = right
    <3> HIDE DEF r
    <3> QED
      BY <1>2, HalvesAtStart
  <2>6. merge_buddy(freed, root) =
            IF stays THEN freed
            ELSE [tree |-> w, taken |-> k - 2, ret |-> ret, null |-> null, cut |-> cut]
    <3>1. merge_buddy(freed, root) =
              IF stays THEN freed ELSE [freed EXCEPT !.tree = w, !.taken = k - 2, !.cut = cut]
      <4> HIDE DEF freed, root, left, right
      <4> QED
        BY <2>4, <2>5 DEF merge_buddy
    <3> HIDE DEF w, cut, stays
    <3> QED
      BY <3>1
  <2>7. CASE stays
    <3>1. free_buddy(s, 0, order) = [tree |-> v, taken |-> k, ret |-> ret, null |-> null, cut |-> FALSE]
      <4> HIDE DEF stays
      <4> QED
        BY <2>1, <2>6, <2>7
    <3>2. Kept(v)
      BY <2>2, <2>3
    <3> WITNESS low \in 0..MAX_ORDER, k \in Int, FALSE \in BOOLEAN
    <3> WITNESS v
    <3> HIDE DEF stays
    <3> QED
      BY <1>4, <2>2, <3>1, <3>2
  <2>8. CASE ~stays
    <3>1. free_buddy(s, 0, order) = [tree |-> w, taken |-> k - 2, ret |-> ret, null |-> null, cut |-> cut]
      <4> HIDE DEF stays
      <4> QED
        BY <2>1, <2>6, <2>8
    <3>2. left \in Spine(low)
      <4>1. ~Leaf(v, root)
        BY <2>8
      <4> QED
        BY <2>2, <2>5, <4>1 DEF Leaf
    <3>3. r - 1 >= low
      BY <1>2, <3>2, OnSpine
    <3>4. DOMAIN w = Spine(r)
      <4>1. r \in low..MAX_ORDER
        BY <1>1, <1>2, <3>3
      <4>2. Spine(low) \ Below(root) = Spine(r)
        <5> HIDE DEF r
        <5> QED
          BY <4>1, Cropped
      <4> QED
        BY <2>2, <4>2
    <3>5. \A o \in 0..MAX_ORDER : o > order => <<o, 0>> \in Spine(r)
      <4> HIDE DEF r
      <4> QED
        BY <1>2, <1>3, OnSpine
    <3>6. Kept(w)
      <4>1. ASSUME NEW o \in 0..MAX_ORDER, o > order, <<o, 0>> \in DOMAIN t
            PROVE  <<o, 0>> \in DOMAIN w /\ w[<<o, 0>>] = t[<<o, 0>>]
        <5>1. <<o, 0>> \in DOMAIN w
          BY <3>4, <3>5, <4>1
        <5>2. w[<<o, 0>>] = v[<<o, 0>>]
          BY <5>1
        <5> QED
          BY <2>2, <2>3, <4>1, <5>1, <5>2
      <4> QED
        BY <4>1
    <3>7. ~cut => k - 2 = k - 2 * (r - low)
      <4> SUFFICES ASSUME ~cut PROVE k - 2 = k - 2 * (r - low)
        OBVIOUS
      <4>1. Leaf(v, left)
        OBVIOUS
      <4>2. r - 1 = low
        <5>1. CASE r - 1 = 0
          BY <1>1, <3>3, <5>1
        <5>2. CASE r - 1 # 0
          <6>1. Left(left) = <<(r - 1) - 1, 0>> /\ (r - 1) - 1 \in 0..MAX_ORDER
            BY <1>1, <1>2, <5>2 DEF Left
          <6>2. <<(r - 1) - 1, 0>> \notin Spine(low)
            BY <2>2, <4>1, <5>2, <6>1 DEF Leaf
          <6>3. ~((r - 1) - 1 >= low)
            BY <6>1, <6>2, OnSpine
          <6> QED
            BY <1>1, <1>2, <3>3, <6>3
        <5> QED
          BY <5>1, <5>2
      <4>3. r - low = 1
        BY <1>1, <1>2, <4>2
      <4> QED
        BY <4>3
    <3>8. cut \in BOOLEAN /\ k - 2 \in Int
      BY DEF Leaf
    <3> HIDE DEF stays, w, cut, r
    <3>9. r \in 0..MAX_ORDER /\ k - 2 \in Int /\ cut \in BOOLEAN
      BY <1>2, <3>8
    <3> USE <3>9
    <3> WITNESS r \in 0..MAX_ORDER, k - 2 \in Int, cut \in BOOLEAN
    <3> WITNESS w
    <3> QED
      BY <3>1, <3>4, <3>6, <3>7
  <2> QED
    BY <2>7, <2>8
<1> QED
  BY <1>6, <1>7

-----------------------------------------------------------------------------
(* What the calls do to the clients' blocks. *)

Stays(t, b) == ~b.over => <<Order(b.size), 0>> \in DOMAIN t /\ t[<<Order(b.size), 0>>] = "ALLOCATED"
Marks(m, b) ==
    \/ Order(b.size) > 3 /\ b.used
    \/ Order(b.size) < 3 /\ b.overlapped
    \/ Shifted[Order(b.size)] - 13 \in m
Good(t, m, b) == b \in Blocks /\ Stays(t, b) /\ Marks(m, b)

LEMMA BlockIs ==
    ASSUME NEW b \in Blocks
    PROVE  /\ b.start = 0 /\ b.size \in 1..Shifted[MAX_ORDER]
           /\ Order(b.size) \in 0..MAX_ORDER /\ Order(b.size) \in Nat
           /\ Shifted[Order(b.size)] \in Nat \ {0}
<1>1. b.start = 0 /\ b.size \in 1..Shifted[MAX_ORDER]
  BY DEF Blocks
<1>2. Order(b.size) \in 0..MAX_ORDER
  BY <1>1, OrderOfBlock
<1> QED
  BY <1>1, <1>2, OrdersShift

LEMMA Seen ==
    ASSUME NEW b \in Blocks, NEW order \in Int, NEW n \in Int
    PROVE  /\ SeeGrant(b, order) \in Blocks /\ SeeFree(b, order) \in Blocks /\ SeeWrite(b, n) \in Blocks
           /\ SeeGrant(b, order).size = b.size
           /\ SeeFree(b, order).size = b.size
           /\ SeeWrite(b, n).size = b.size
<1> DEFINE overlapped == b.overlapped \/ (order < 3 /\ Order(b.size) < 3 /\ Order(b.size) # order)
           over == b.over \/ order >= Order(b.size)
           used == b.used \/ n > Shifted[Order(b.size)] - 13
<1>1. overlapped \in BOOLEAN /\ over \in BOOLEAN /\ used \in BOOLEAN
  OBVIOUS
<1>2. SeeGrant(b, order) = [b EXCEPT !.overlapped = overlapped]
  BY DEF SeeGrant
<1>3. SeeFree(b, order) = [b EXCEPT !.over = over]
  BY DEF SeeFree
<1>4. SeeWrite(b, n) = [b EXCEPT !.used = used]
  BY DEF SeeWrite
<1> HIDE DEF overlapped, over, used
<1> QED
  BY <1>1, <1>2, <1>3, <1>4 DEF Blocks

LEMMA SeenFields ==
    ASSUME NEW b \in Blocks, NEW order \in Int, NEW n \in Int
    PROVE  /\ SeeGrant(b, order).over <=> b.over
           /\ SeeGrant(b, order).used <=> b.used
           /\ SeeGrant(b, order).overlapped <=>
                 b.overlapped \/ (order < 3 /\ Order(b.size) < 3 /\ Order(b.size) # order)
           /\ SeeFree(b, order).used <=> b.used
           /\ SeeFree(b, order).overlapped <=> b.overlapped
           /\ SeeFree(b, order).over <=> b.over \/ order >= Order(b.size)
           /\ SeeWrite(b, n).over <=> b.over
           /\ SeeWrite(b, n).overlapped <=> b.overlapped
           /\ SeeWrite(b, n).used <=> b.used \/ n > Shifted[Order(b.size)] - 13
<1> DEFINE overlapped == b.overlapped \/ (order < 3 /\ Order(b.size) < 3 /\ Order(b.size) # order)
           over == b.over \/ order >= Order(b.size)
           used == b.used \/ n > Shifted[Order(b.size)] - 13
<1>1. SeeGrant(b, order) = [b EXCEPT !.overlapped = overlapped]
  BY DEF SeeGrant
<1>2. SeeFree(b, order) = [b EXCEPT !.over = over]
  BY DEF SeeFree
<1>3. SeeWrite(b, n) = [b EXCEPT !.used = used]
  BY DEF SeeWrite
<1> HIDE DEF overlapped, over, used
<1>4. /\ SeeGrant(b, order).over = b.over /\ SeeGrant(b, order).used = b.used
      /\ SeeGrant(b, order).overlapped = overlapped
  BY <1>1 DEF Blocks
<1>5. /\ SeeFree(b, order).used = b.used /\ SeeFree(b, order).overlapped = b.overlapped
      /\ SeeFree(b, order).over = over
  BY <1>2 DEF Blocks
<1>6. /\ SeeWrite(b, n).over = b.over /\ SeeWrite(b, n).overlapped = b.overlapped
      /\ SeeWrite(b, n).used = used
  BY <1>3 DEF Blocks
<1> QED
  BY <1>4, <1>5, <1>6 DEF overlapped, over, used

\* The marks of two orders are apart, those of two of the smallest excepted.
LEMMA MarksApart ==
    ASSUME NEW i \in 0..MAX_ORDER, NEW j \in 0..MAX_ORDER, i # j, ~(i < 3 /\ j < 3)
    PROVE  Shifted[i] > Shifted[j] + 3 \/ Shifted[i] + 3 < Shifted[j]
<1>1. /\ i \in Nat /\ j \in Nat /\ i \in 0..Width - 1 /\ j \in 0..Width - 1
      /\ Shifted[i] \in Nat \ {0} /\ Shifted[j] \in Nat \ {0}
  BY OrdersShift
<1>2. /\ i < 3 => Shifted[i] <= 4
      /\ i >= 3 => Shifted[i] >= 8
      /\ j < 3 => Shifted[j] <= 4
      /\ j >= 3 => Shifted[j] >= 8
  BY <1>1, SmallOrders
<1>3. i < j => 2 * Shifted[i] <= Shifted[j]
  BY <1>1, ShiftedGrows
<1>4. j < i => 2 * Shifted[j] <= Shifted[i]
  BY <1>1, ShiftedGrows
<1>5. CASE i < j
  <2>1. j >= 3
    BY <1>1, <1>5
  <2>2. i < 3 \/ i >= 3
    BY <1>1
  <2> QED
    BY <1>1, <1>2, <1>3, <1>5, <2>1, <2>2
<1>6. CASE j < i
  <2>1. i >= 3
    BY <1>1, <1>6
  <2>2. j < 3 \/ j >= 3
    BY <1>1
  <2> QED
    BY <1>1, <1>2, <1>4, <1>6, <2>1, <2>2
<1> QED
  BY <1>1, <1>5, <1>6

LEMMA MarkSet ==
    ASSUME NEW m \in SUBSET Int, NEW order \in 0..MAX_ORDER
    PROVE  /\ set_dead_beef(m, 0, order) \in SUBSET Int
           /\ Shifted[order] - 13 \in set_dead_beef(m, 0, order)
           /\ \A k \in m : k > Shifted[order] - 10 \/ k + 3 < Shifted[order] - 13 => k \in set_dead_beef(m, 0, order)
<1>1. Shifted[order] \in Nat
  BY OrdersShift
<1> DEFINE p == MarkOf(0, order)
<1>2. p = Shifted[order] - 13 /\ p \in Int /\ p + 3 = Shifted[order] - 10
  BY <1>1 DEF MarkOf
<1> HIDE DEF p
<1>3. set_dead_beef(m, 0, order) = {k \in m : k > p + 3 \/ k + 3 < p} \cup {p}
  BY DEF set_dead_beef, Written, p
<1> QED
  BY <1>2, <1>3

LEMMA GoodGrant ==
    ASSUME NEW t, NEW m \in SUBSET Int, NEW b, Good(t, m, b), NEW order \in 0..MAX_ORDER, NEW t2,
           DOMAIN t \subseteq DOMAIN t2,
           t2[<<order, 0>>] = "ALLOCATED",
           \A n \in DOMAIN t : n # <<order, 0>> => t2[n] = t[n]
    PROVE  Good(t2, set_dead_beef(m, 0, order), SeeGrant(b, order))
<1> DEFINE c == SeeGrant(b, order)
           o == Order(b.size)
<1>1. b \in Blocks /\ order \in Int /\ order \in Nat
  BY Constants DEF Good
<1>2. c \in Blocks /\ c.size = b.size
  BY <1>1, Seen
<1>3. /\ c.over <=> b.over
      /\ c.used <=> b.used
      /\ c.overlapped <=> b.overlapped \/ (order < 3 /\ o < 3 /\ o # order)
  BY <1>1, SeenFields
<1>4. o \in 0..MAX_ORDER /\ o \in Nat /\ Shifted[o] \in Nat /\ Shifted[order] \in Nat
  BY <1>1, BlockIs, OrdersShift
<1> HIDE DEF c, o
<1>5. Stays(t2, c)
  BY <1>2, <1>3 DEF Stays, Good
<1>6. Marks(set_dead_beef(m, 0, order), c)
  <2>1. CASE o > 3 /\ b.used
    BY <1>2, <1>3, <2>1 DEF Marks, o
  <2>2. CASE o < 3 /\ b.overlapped
    BY <1>2, <1>3, <2>2 DEF Marks, o
  <2>3. CASE Shifted[o] - 13 \in m
    <3>1. CASE o = order
      <4>1. Shifted[o] - 13 \in set_dead_beef(m, 0, order)
        BY <3>1, MarkSet
      <4> QED
        BY <1>2, <4>1 DEF Marks, o
    <3>2. CASE o # order /\ o < 3 /\ order < 3
      BY <1>2, <1>3, <3>2 DEF Marks, o
    <3>3. CASE o # order /\ ~(o < 3 /\ order < 3)
      <4>1. Shifted[o] > Shifted[order] + 3 \/ Shifted[o] + 3 < Shifted[order]
        BY <1>4, <3>3, MarksApart
      <4>2. Shifted[o] - 13 > Shifted[order] - 10 \/ (Shifted[o] - 13) + 3 < Shifted[order] - 13
        BY <1>4, <4>1
      <4>3. Shifted[o] - 13 \in set_dead_beef(m, 0, order)
        BY <2>3, <4>2, MarkSet
      <4> QED
        BY <1>2, <4>3 DEF Marks, o
    <3> QED
      BY <3>1, <3>2, <3>3
  <2>4. (o > 3 /\ b.used) \/ (o < 3 /\ b.overlapped) \/ Shifted[o] - 13 \in m
    BY DEF Good, Marks, o
  <2> QED
    BY <2>1, <2>2, <2>3, <2>4
<1> QED
  BY <1>2, <1>5, <1>6 DEF Good, c

LEMMA GoodFresh ==
    ASSUME NEW m \in SUBSET Int, NEW size \in 1..Shifted[MAX_ORDER], NEW t,
           <<Order(size), 0>> \in DOMAIN t, t[<<Order(size), 0>>] = "ALLOCATED"
    PROVE  Good(t, set_dead_beef(m, 0, Order(size)), Granted(<<Order(size), 0>>, size))
<1> DEFINE c == Granted(<<Order(size), 0>>, size)
<1>1. c = [start |-> 0, size |-> size, over |-> FALSE, used |-> FALSE, overlapped |-> FALSE]
  BY DEF Granted
<1>2. c \in Blocks /\ c.size = size
  <2> DEFINE no == FALSE
  <2>1. c = [start |-> 0, size |-> size, over |-> no, used |-> no, overlapped |-> no] /\ no \in BOOLEAN
    BY <1>1
  <2> HIDE DEF no, c
  <2> QED
    BY <2>1 DEF Blocks
<1> HIDE DEF c
<1>3. Shifted[Order(size)] - 13 \in set_dead_beef(m, 0, Order(size))
  BY OrderOfBlock, MarkSet
<1> QED
  BY <1>2, <1>3 DEF Good, Stays, Marks, c

LEMMA GoodFree ==
    ASSUME NEW t, NEW m \in SUBSET Int, NEW b, Good(t, m, b), NEW order \in 0..MAX_ORDER, NEW u,
           \A o \in 0..MAX_ORDER :
               o > order /\ <<o, 0>> \in DOMAIN t => <<o, 0>> \in DOMAIN u /\ u[<<o, 0>>] = t[<<o, 0>>]
    PROVE  Good(u, m, SeeFree(b, order))
<1> DEFINE c == SeeFree(b, order)
           o == Order(b.size)
<1>1. b \in Blocks /\ order \in Int /\ order \in Nat
  BY Constants DEF Good
<1>2. c \in Blocks /\ c.size = b.size
  BY <1>1, Seen
<1>3. /\ c.over <=> b.over \/ order >= o
      /\ c.used <=> b.used
      /\ c.overlapped <=> b.overlapped
  BY <1>1, SeenFields
<1>4. o \in 0..MAX_ORDER /\ o \in Nat
  BY <1>1, BlockIs
<1> HIDE DEF c, o
<1>5. Stays(u, c)
  <2> SUFFICES ASSUME ~c.over PROVE <<o, 0>> \in DOMAIN u /\ u[<<o, 0>>] = "ALLOCATED"
    BY <1>2 DEF Stays, o
  <2>1. ~b.over /\ ~(order >= o)
    BY <1>3
  <2>2. <<o, 0>> \in DOMAIN t /\ t[<<o, 0>>] = "ALLOCATED"
    BY <2>1 DEF Good, Stays, o
  <2>3. o > order
    BY <1>1, <1>4, <2>1
  <2> QED
    BY <1>4, <2>2, <2>3
<1>6. Marks(m, c)
  BY <1>2, <1>3 DEF Good, Marks, o
<1> QED
  BY <1>2, <1>5, <1>6 DEF Good, c

LEMMA GoodWrite ==
    ASSUME NEW t, NEW m \in SUBSET Int, NEW b, Good(t, m, b), NEW n \in Nat \ {0}
    PROVE  Good(t, Written(m, 0, n - 1), SeeWrite(b, n))
<1> DEFINE c == SeeWrite(b, n)
           o == Order(b.size)
<1>1. b \in Blocks /\ n \in Int
  BY DEF Good
<1>2. c \in Blocks /\ c.size = b.size
  BY <1>1, Seen
<1>3. /\ c.over <=> b.over
      /\ c.used <=> b.used \/ n > Shifted[o] - 13
      /\ c.overlapped <=> b.overlapped
  BY <1>1, SeenFields
<1>4. o \in 0..MAX_ORDER /\ o \in Nat /\ o \in 0..Width - 1 /\ Shifted[o] \in Nat
  BY <1>1, BlockIs, OrdersShift
<1>5. (o < 3 => Shifted[o] <= 4) /\ (o = 3 => Shifted[o] = 8)
  BY <1>4, SmallOrders
<1> HIDE DEF c, o
<1>6. Stays(t, c)
  BY <1>2, <1>3 DEF Good, Stays
<1>7. Marks(Written(m, 0, n - 1), c)
  <2>1. CASE o > 3 /\ b.used
    BY <1>2, <1>3, <2>1 DEF Marks, o
  <2>2. CASE o < 3 /\ b.overlapped
    BY <1>2, <1>3, <2>2 DEF Marks, o
  <2>3. CASE Shifted[o] - 13 \in m
    <3>1. CASE o > 3 /\ n > Shifted[o] - 13
      BY <1>2, <1>3, <3>1 DEF Marks, o
    <3>2. CASE ~(o > 3 /\ n > Shifted[o] - 13)
      <4>1. Shifted[o] - 13 > n - 1 \/ (Shifted[o] - 13) + 3 < 0
        <5>1. CASE o > 3
          BY <1>4, <3>2, <5>1
        <5>2. CASE ~(o > 3)
          <6>1. Shifted[o] <= 8
            BY <1>4, <1>5, <5>2
          <6> QED
            BY <1>4, <6>1
        <5> QED
          BY <5>1, <5>2
      <4>2. Shifted[o] - 13 \in Written(m, 0, n - 1)
        BY <2>3, <4>1 DEF Written
      <4> QED
        BY <1>2, <4>2 DEF Marks, o
    <3> QED
      BY <3>1, <3>2
  <2>4. (o > 3 /\ b.used) \/ (o < 3 /\ b.overlapped) \/ Shifted[o] - 13 \in m
    BY DEF Good, Marks, o
  <2> QED
    BY <2>1, <2>2, <2>3, <2>4
<1> QED
  BY <1>2, <1>6, <1>7 DEF Good, c

-----------------------------------------------------------------------------
(* The steps. *)

LEMMA ClientsGood ==
    ASSUME TypeOK, NodeStays, MarkKept, NEW i \in Handle, Held(i)
    PROVE  block[i] \in Blocks /\ Good(tree, marked, block[i])
<1>1. block[i] \in Blocks
  BY DEF TypeOK, Held
<1>2. block[i].start = 0 /\ Shifted[Order(block[i].size)] \in Nat
  BY <1>1, BlockIs
<1>3. Stays(tree, block[i])
  BY <1>2 DEF NodeStays, Stays
<1>4. Marks(marked, block[i])
  <2>1. (0 + Shifted[Order(block[i].size)]) - 13 = Shifted[Order(block[i].size)] - 13
    BY <1>2
  <2> QED
    BY <1>2, <2>1 DEF MarkKept, Marks
<1> QED
  BY <1>1, <1>3, <1>4 DEF Good

LEMMA GoodClients ==
    ASSUME \A i \in Handle : Held(i)' => Good(tree', marked', block'[i])
    PROVE  NodeStays' /\ MarkKept'
<1>1. ASSUME NEW i \in Handle, Held(i)'
      PROVE  /\ block'[i].start = 0 /\ Shifted[Order(block'[i].size)] \in Nat
             /\ Stays(tree', block'[i]) /\ Marks(marked', block'[i])
  BY <1>1, BlockIs DEF Good
<1>2. NodeStays'
  BY <1>1 DEF NodeStays, Stays
<1>3. MarkKept'
  <2>1. ASSUME NEW i \in Handle, Held(i)'
        PROVE  (0 + Shifted[Order(block'[i].size)]) - 13 = Shifted[Order(block'[i].size)] - 13
    BY <1>1, <2>1
  <2> QED
    BY <1>1, <2>1 DEF MarkKept, Marks
<1> QED
  BY <1>2, <1>3

LEMMA Became ==
    ASSUME NEW t, NEW k, NEW ret, NEW null \in BOOLEAN, NEW cut \in BOOLEAN,
           Become([tree |-> t, taken |-> k, ret |-> ret, null |-> null, cut |-> cut])
    PROVE  /\ tree' = t /\ taken' = k
           /\ "null" \in mishap' <=> "null" \in mishap \/ null
           /\ "cut" \in mishap' <=> "cut" \in mishap \/ cut
BY DEF Become

\* A search for an order that the arena does not have returns nothing.
LEMMA Refused ==
    ASSUME NEW order \in Nat, order > MAX_ORDER
    PROVE  alloc_buddy(Now, Root, order).ret = NoBlock
<1>1. Search(Root, order) = [ret |-> NoBlock, from |-> {}]
  BY SearchFinds
<1> DEFINE split == split_buddy(Now, {m \in {} : Leaf(Now.tree, m)})
<1>2. alloc_buddy(Now, Root, order) = [split EXCEPT !.ret = NoBlock]
  BY <1>1 DEF alloc_buddy, Granting
<1>3. DOMAIN split = DOMAIN Now
  BY DEF split_buddy
<1>4. "ret" \in DOMAIN Now
  BY DEF Now
<1> HIDE DEF split
<1> QED
  BY <1>2, <1>3, <1>4

LEMMA GrantFits ==
    ASSUME NEW order \in Nat, alloc_buddy(Now, Root, order).ret # NoBlock
    PROVE  order \in 0..MAX_ORDER
BY Refused, Constants

\* The nodes that a grant takes, as long as no node with children was lost.
LEMMA GrantAccounts ==
    ASSUME NEW low \in 0..MAX_ORDER, NEW order \in 0..MAX_ORDER, taken \in Int,
           "cut" \notin mishap => taken = 2 * (MAX_ORDER - low),
           NEW new, new = IF low < order THEN low ELSE order
    PROVE  /\ new \in 0..MAX_ORDER /\ new <= low
           /\ taken + 2 * (low - new) \in Int
           /\ "cut" \notin mishap => taken + 2 * (low - new) = 2 * (MAX_ORDER - new)
           /\ taken + 2 * (low - new) > NodeRoom /\ NodeRoom >= 2 * MAX_ORDER => "cut" \in mishap
<1>1. low \in Nat /\ MAX_ORDER \in Nat /\ NodeRoom \in Nat /\ order \in Nat
  BY Constants
<1>2. new \in 0..MAX_ORDER /\ new <= low /\ new \in Nat
  BY <1>1
<1>3. taken + 2 * (low - new) \in Int
  BY <1>1, <1>2
<1>4. ASSUME "cut" \notin mishap PROVE taken + 2 * (low - new) = 2 * (MAX_ORDER - new)
  <2>1. taken = 2 * (MAX_ORDER - low)
    BY <1>4
  <2> QED
    BY <1>1, <1>2, <2>1
<1>5. ASSUME taken + 2 * (low - new) > NodeRoom, NodeRoom >= 2 * MAX_ORDER PROVE "cut" \in mishap
  <2> SUFFICES ASSUME "cut" \notin mishap PROVE FALSE
    OBVIOUS
  <2>1. taken + 2 * (low - new) = 2 * (MAX_ORDER - new)
    BY <1>4
  <2> QED
    BY <1>1, <1>2, <1>5, <2>1
<1> QED
  BY <1>2, <1>3, <1>4, <1>5

LEMMA MallocStep ==
    ASSUME IInv, NEW h \in Handle, NEW size \in Sizes, NEW clear \in BOOLEAN, Malloc(h, size, clear)
    PROVE  IInv'
<1> DEFINE order == Order(size)
           got == alloc_buddy(Now, Root, order)
<1>1. size \in Int /\ size > 0 /\ ~Endless(size) /\ got.ret # NoBlock /\ Become(got)
  BY BuddyAssumption DEF Malloc
<1>2. TypeOK /\ NodeStays /\ MarkKept /\ NullOK
  BY DEF IInv
<1>3. taken \in Int /\ marked \in SUBSET Int /\ block \in [Handle -> Blocks \cup {NoBlock}]
  BY <1>2 DEF TypeOK
<1>4. order \in 0..MAX_ORDER /\ order \in Nat /\ order \in Int /\ size \in 1..Shifted[MAX_ORDER] /\ size \in Nat \ {0}
  <2>1. order \in Nat
    BY <1>1, OrderOfSize
  <2>2. order \in 0..MAX_ORDER
    BY <1>1, <2>1, GrantFits
  <2>3. order <= MAX_ORDER
    BY <2>2, Constants
  <2>4. size \in 1..Shifted[MAX_ORDER]
    BY <1>1, <2>3, OrderOfSize
  <2> QED
    BY <1>1, <2>1, <2>2, <2>4
<1>5. PICK low \in 0..MAX_ORDER :
          DOMAIN tree = Spine(low) /\ ("cut" \notin mishap => taken = 2 * (MAX_ORDER - low))
  BY DEF IInv, SpineOK
<1> DEFINE new == IF low < order THEN low ELSE order
           k == taken + 2 * (low - new)
           null == new # low /\ k > NodeRoom
<1>6. PICK t :
          /\ got = [tree |-> t, taken |-> k, ret |-> <<order, 0>>, null |-> null, cut |-> FALSE]
          /\ DOMAIN t = Spine(new)
          /\ DOMAIN tree \subseteq DOMAIN t
          /\ <<order, 0>> \in DOMAIN t /\ t[<<order, 0>>] = "ALLOCATED"
          /\ \A n \in DOMAIN tree : n # <<order, 0>> => t[n] = tree[n]
  <2> HIDE DEF order
  <2> QED
    BY <1>3, <1>4, <1>5, AllocEffect
<1>7. /\ new \in 0..MAX_ORDER /\ k \in Int
      /\ "cut" \notin mishap => k = 2 * (MAX_ORDER - new)
      /\ k > NodeRoom /\ NodeRoom >= 2 * MAX_ORDER => "cut" \in mishap
  <2> HIDE DEF order
  <2> QED
    BY <1>3, <1>4, <1>5, GrantAccounts
<1>8. null \in BOOLEAN /\ got.ret = <<order, 0>> /\ got.ret[2] = 0
  <2> HIDE DEF order, got, null, k, new
  <2>1. got.ret = <<order, 0>>
    BY <1>6
  <2> QED
    BY <2>1 DEF null
<1>9. /\ tree' = t /\ taken' = k
      /\ "null" \in mishap' <=> "null" \in mishap \/ null
      /\ "cut" \in mishap' <=> "cut" \in mishap
  <2> DEFINE no == FALSE
  <2>1. Become([tree |-> t, taken |-> k, ret |-> <<order, 0>>, null |-> null, cut |-> no]) /\ no \in BOOLEAN
    <3> HIDE DEF got, null, k, order
    <3> QED
      BY <1>1, <1>6
  <2> HIDE DEF no, null, k, order
  <2>2. /\ tree' = t /\ taken' = k
        /\ "null" \in mishap' <=> "null" \in mishap \/ null
        /\ "cut" \in mishap' <=> "cut" \in mishap \/ no
    BY <1>8, <2>1, Became
  <2> QED
    BY <2>2 DEF no
<1> DEFINE marks == set_dead_beef(marked, 0, order)
           fresh == Granted(<<order, 0>>, size)
           Seen_(b) == IF clear THEN SeeWrite(SeeGrant(b, order), size) ELSE SeeGrant(b, order)
<1>10. /\ marked' = IF clear THEN Written(marks, 0, size - 1) ELSE marks
       /\ block' = [i \in Handle |->
                       IF i = h THEN (IF clear THEN SeeWrite(fresh, size) ELSE fresh)
                       ELSE IF ~Held(i) THEN block[i] ELSE Seen_(block[i])]
  <2>1. marked' = IF clear THEN Written(set_dead_beef(marked, got.ret[2], order), got.ret[2], got.ret[2] + size - 1)
                  ELSE set_dead_beef(marked, got.ret[2], order)
    BY DEF Malloc
  <2>2. block' = [[i \in Handle |-> IF i = h \/ ~Held(i) THEN block[i] ELSE Seen_(block[i])]
                     EXCEPT ![h] = IF clear THEN SeeWrite(Granted(got.ret, size), size) ELSE Granted(got.ret, size)]
    BY DEF Malloc, Others
  <2>3. 0 + size - 1 = size - 1
    BY <1>1
  <2> HIDE DEF got, order, Seen_
  <2> QED
    BY <1>8, <2>1, <2>2, <2>3
<1> HIDE DEF got
<1>11. marks \in SUBSET Int /\ marked' \in SUBSET Int
  <2>1. marks \in SUBSET Int
    BY <1>3, <1>4, MarkSet
  <2> HIDE DEF marks
  <2> QED
    BY <1>10, <2>1 DEF Written
<1>12. Good(t, marked', block'[h])
  <2>1. Good(t, marks, fresh)
    BY <1>3, <1>4, <1>6, GoodFresh
  <2>2. Good(t, Written(marks, 0, size - 1), SeeWrite(fresh, size))
    <3> HIDE DEF marks, fresh
    <3> QED
      BY <1>4, <1>11, <2>1, GoodWrite
  <2> HIDE DEF marks, fresh
  <2> QED
    BY <1>10, <2>1, <2>2
<1>13. ASSUME NEW i \in Handle, i # h, Held(i) PROVE Good(t, marked', block'[i])
  <2>1. Good(tree, marked, block[i])
    BY <1>2, <1>13, ClientsGood
  <2>2. Good(t, marks, SeeGrant(block[i], order))
    <3> HIDE DEF order
    <3> QED
      BY <1>3, <1>4, <1>6, <2>1, GoodGrant
  <2> DEFINE b == SeeGrant(block[i], order)
  <2>3. Good(t, Written(marks, 0, size - 1), SeeWrite(b, size))
    <3> HIDE DEF marks, b
    <3> QED
      BY <1>4, <1>11, <2>2, GoodWrite DEF b
  <2> HIDE DEF marks
  <2> QED
    BY <1>10, <1>13, <2>2, <2>3
<1>14. \A i \in Handle : Held(i)' => Good(tree', marked', block'[i])
  <2>1. ASSUME NEW i \in Handle, i # h, ~Held(i) PROVE ~Held(i)'
    BY <1>10, <2>1 DEF Held
  <2> QED
    BY <1>9, <1>12, <1>13, <2>1
<1>15. block' \in [Handle -> Blocks \cup {NoBlock}]
  <2>1. \A i \in Handle : block'[i] \in Blocks \cup {NoBlock}
    BY <1>14 DEF Held, Good
  <2> HIDE DEF Seen_, fresh
  <2> QED
    BY <1>10, <2>1
<1>16. TypeOK'
  BY <1>1, <1>2, <1>7, <1>9, <1>11, <1>15 DEF TypeOK
<1>17. SpineOK'
  <2> HIDE DEF new, k
  <2>1. DOMAIN tree' = Spine(new) /\ ("cut" \notin mishap' => taken' = 2 * (MAX_ORDER - new))
    BY <1>6, <1>7, <1>9
  <2> QED
    BY <1>7, <2>1 DEF SpineOK
<1>18. NullOK'
  <2>1. null => k > NodeRoom
    OBVIOUS
  <2> HIDE DEF null, k
  <2> QED
    BY <1>2, <1>7, <1>9, <2>1 DEF NullOK
<1> QED
  BY <1>14, <1>16, <1>17, <1>18, GoodClients DEF IInv

LEMMA FreeStep ==
    ASSUME IInv, NEW h \in Handle, Free(h)
    PROVE  IInv'
<1> DEFINE order == Order(block[h].size)
           Seen_(b) == SeeFree(b, order)
<1>1. Held(h) /\ Become(free_buddy(Now, block[h].start, order)) /\ marked' = marked
  BY DEF Free
<1>2. TypeOK /\ NodeStays /\ MarkKept /\ NullOK
  BY DEF IInv
<1>3. taken \in Int /\ marked \in SUBSET Int /\ block \in [Handle -> Blocks \cup {NoBlock}]
  BY <1>2 DEF TypeOK
<1>4. block[h].start = 0 /\ order \in 0..MAX_ORDER
  <2>1. block[h] \in Blocks
    BY <1>1, <1>2, ClientsGood
  <2> QED
    BY <2>1, BlockIs
<1>5. PICK low \in 0..MAX_ORDER :
          DOMAIN tree = Spine(low) /\ ("cut" \notin mishap => taken = 2 * (MAX_ORDER - low))
  BY DEF IInv, SpineOK
<1> HIDE DEF order
<1>6. FreeTo(low, tree, taken, NoBlock, FALSE, order, free_buddy(Now, 0, order))
  <2> DEFINE no == FALSE
             now == [tree |-> tree, taken |-> taken, ret |-> NoBlock, null |-> no, cut |-> FALSE]
  <2>1. Now = now
    BY DEF Now
  <2> HIDE DEF no
  <2>2. FreeTo(low, tree, taken, NoBlock, no, order, free_buddy(now, 0, order))
    BY <1>3, <1>4, <1>5, FreeEffect
  <2> HIDE DEF now
  <2> QED
    BY <2>1, <2>2 DEF no
<1>7. PICK low2 \in 0..MAX_ORDER, k2 \in Int, cut \in BOOLEAN : \E u :
          /\ free_buddy(Now, 0, order) = [tree |-> u, taken |-> k2, ret |-> NoBlock, null |-> FALSE, cut |-> cut]
          /\ DOMAIN u = Spine(low2)
          /\ ~cut => k2 = taken - 2 * (low2 - low)
          /\ \A o \in 0..MAX_ORDER :
                o > order /\ <<o, 0>> \in DOMAIN tree =>
                    <<o, 0>> \in DOMAIN u /\ u[<<o, 0>>] = tree[<<o, 0>>]
  BY <1>6, Zenon DEF FreeTo
<1>8. PICK u :
          /\ free_buddy(Now, 0, order) = [tree |-> u, taken |-> k2, ret |-> NoBlock, null |-> FALSE, cut |-> cut]
          /\ DOMAIN u = Spine(low2)
          /\ ~cut => k2 = taken - 2 * (low2 - low)
          /\ \A o \in 0..MAX_ORDER :
                o > order /\ <<o, 0>> \in DOMAIN tree =>
                    <<o, 0>> \in DOMAIN u /\ u[<<o, 0>>] = tree[<<o, 0>>]
  BY <1>7
<1>9. /\ tree' = u /\ taken' = k2
      /\ "null" \in mishap' <=> "null" \in mishap
      /\ "cut" \in mishap' <=> "cut" \in mishap \/ cut
  <2> DEFINE no == FALSE
  <2>1. Become([tree |-> u, taken |-> k2, ret |-> NoBlock, null |-> no, cut |-> cut]) /\ no \in BOOLEAN
    BY <1>1, <1>4, <1>8
  <2> HIDE DEF no
  <2>2. /\ tree' = u /\ taken' = k2
        /\ "null" \in mishap' <=> "null" \in mishap \/ no
        /\ "cut" \in mishap' <=> "cut" \in mishap \/ cut
    BY <2>1, Became
  <2> QED
    BY <2>2 DEF no
<1>10. block' = [i \in Handle |-> IF i = h THEN NoBlock ELSE IF ~Held(i) THEN block[i] ELSE Seen_(block[i])]
  <2>1. block' = [[i \in Handle |-> IF i = h \/ ~Held(i) THEN block[i] ELSE Seen_(block[i])] EXCEPT ![h] = NoBlock]
    BY DEF Free, Others, order
  <2> HIDE DEF Seen_
  <2> QED
    BY <2>1
<1>11. ASSUME NEW i \in Handle, i # h, Held(i) PROVE Good(u, marked, block'[i])
  <2>1. Good(tree, marked, block[i])
    BY <1>2, <1>11, ClientsGood
  <2>2. Good(u, marked, SeeFree(block[i], order))
    BY <1>3, <1>4, <1>8, <2>1, GoodFree
  <2> QED
    BY <1>10, <1>11, <2>2
<1>12. \A i \in Handle : Held(i)' => Good(tree', marked', block'[i])
  <2>1. ASSUME NEW i \in Handle, i # h, ~Held(i) PROVE ~Held(i)'
    BY <1>10, <2>1 DEF Held
  <2>2. ~Held(h)'
    BY <1>10 DEF Held
  <2> QED
    BY <1>1, <1>9, <1>11, <2>1, <2>2
<1>13. block' \in [Handle -> Blocks \cup {NoBlock}]
  <2>1. \A i \in Handle : block'[i] \in Blocks \cup {NoBlock}
    BY <1>12 DEF Held, Good
  <2> HIDE DEF Seen_
  <2> QED
    BY <1>10, <2>1
<1>14. TypeOK'
  BY <1>1, <1>2, <1>9, <1>13 DEF TypeOK
<1>15. SpineOK'
  <2>1. "cut" \notin mishap' => taken' = 2 * (MAX_ORDER - low2)
    <3> SUFFICES ASSUME "cut" \notin mishap' PROVE taken' = 2 * (MAX_ORDER - low2)
      OBVIOUS
    <3>1. ~cut /\ "cut" \notin mishap
      BY <1>9
    <3>2. k2 = taken - 2 * (low2 - low) /\ taken = 2 * (MAX_ORDER - low)
      BY <1>5, <1>8, <3>1
    <3>3. low \in Nat /\ low2 \in Nat /\ MAX_ORDER \in Nat
      BY Constants
    <3>4. k2 = 2 * (MAX_ORDER - low2)
      BY <3>2, <3>3
    <3> QED
      BY <1>9, <3>4
  <2>2. DOMAIN tree' = Spine(low2)
    BY <1>8, <1>9
  <2> QED
    BY <2>1, <2>2 DEF SpineOK
<1>16. NullOK'
  BY <1>2, <1>9 DEF NullOK
<1> QED
  BY <1>12, <1>14, <1>15, <1>16, GoodClients DEF IInv

LEMMA FillStep ==
    ASSUME IInv, NEW h \in Handle, Fill(h)
    PROVE  IInv'
<1> DEFINE n == block[h].size
           marks == Written(marked, 0, n - 1)
           Seen_(b) == SeeWrite(b, n)
<1>1. Held(h) /\ UNCHANGED <<tree, taken, mishap>>
  BY DEF Fill
<1>2. TypeOK /\ NodeStays /\ MarkKept /\ NullOK /\ SpineOK
  BY DEF IInv
<1>3. marked \in SUBSET Int /\ block \in [Handle -> Blocks \cup {NoBlock}]
  BY <1>2 DEF TypeOK
<1>4. block[h].start = 0 /\ n \in Nat \ {0}
  <2>1. block[h] \in Blocks
    BY <1>1, <1>2, ClientsGood
  <2>2. n \in 1..Shifted[MAX_ORDER] /\ Shifted[MAX_ORDER] \in Nat
    BY <2>1, BlockIs, Constants, OrdersShift
  <2> QED
    BY <2>1, <2>2, BlockIs
<1>5. marked' = marks /\ marks \in SUBSET Int
  <2>1. marked' = Written(marked, block[h].start, block[h].start + n - 1)
    BY DEF Fill
  <2>2. 0 + n - 1 = n - 1
    BY <1>4
  <2> HIDE DEF n
  <2>3. marked' = Written(marked, 0, n - 1)
    BY <1>4, <2>1, <2>2
  <2> QED
    BY <1>3, <2>3 DEF Written
<1>6. block' = [i \in Handle |-> IF i = h \/ Held(i) THEN Seen_(block[i]) ELSE block[i]]
  <2>1. block' = [[i \in Handle |-> IF i = h \/ ~Held(i) THEN block[i] ELSE Seen_(block[i])]
                     EXCEPT ![h] = Seen_(block[h])]
    BY DEF Fill, Others
  <2> HIDE DEF Seen_
  <2> QED
    BY <2>1
<1>7. ASSUME NEW i \in Handle, Held(i) PROVE Good(tree, marks, block'[i])
  <2>1. Good(tree, marked, block[i])
    BY <1>2, <1>7, ClientsGood
  <2>2. Good(tree, marks, SeeWrite(block[i], n))
    <3> HIDE DEF n
    <3> QED
      BY <1>3, <1>4, <2>1, GoodWrite
  <2> HIDE DEF n, marks
  <2> QED
    BY <1>6, <1>7, <2>2
<1> HIDE DEF marks
<1>8. \A i \in Handle : Held(i)' => Good(tree', marked', block'[i])
  <2>1. ASSUME NEW i \in Handle, ~Held(i) PROVE ~Held(i)'
    BY <1>1, <1>6, <2>1 DEF Held
  <2> QED
    BY <1>1, <1>5, <1>7, <2>1
<1>9. block' \in [Handle -> Blocks \cup {NoBlock}]
  <2>1. \A i \in Handle : block'[i] \in Blocks \cup {NoBlock}
    BY <1>8 DEF Held, Good
  <2> HIDE DEF Seen_
  <2> QED
    BY <1>6, <2>1
<1>10. TypeOK'
  BY <1>1, <1>2, <1>5, <1>9 DEF TypeOK
<1>11. SpineOK' /\ NullOK'
  BY <1>1, <1>2 DEF SpineOK, NullOK
<1> QED
  BY <1>8, <1>10, <1>11, GoodClients DEF IInv

\* A new block, and the old one's free: the new one starts where the old one
\* does, so that the copy is left out.
LEMMA ReallocStep ==
    ASSUME IInv, NEW h \in Handle, NEW size \in Sizes, Realloc(h, size)
    PROVE  IInv'
<1> DEFINE old == Order(block[h].size)
           order == Order(size)
           got == alloc_buddy(Now, Root, order)
<1>1. /\ Held(h) /\ size \in Int /\ size > 0 /\ ~Endless(size) /\ got.ret # NoBlock
      /\ Become(free_buddy(got, block[h].start, old))
  BY BuddyAssumption DEF Realloc
<1>2. TypeOK /\ NodeStays /\ MarkKept /\ NullOK
  BY DEF IInv
<1>3. taken \in Int /\ marked \in SUBSET Int /\ block \in [Handle -> Blocks \cup {NoBlock}]
  BY <1>2 DEF TypeOK
<1>4. order \in 0..MAX_ORDER /\ order \in Nat /\ order \in Int /\ size \in 1..Shifted[MAX_ORDER]
  <2>1. order \in Nat
    BY <1>1, OrderOfSize
  <2>2. order \in 0..MAX_ORDER
    BY <1>1, <2>1, GrantFits
  <2>3. order <= MAX_ORDER
    BY <2>2, Constants
  <2>4. size \in 1..Shifted[MAX_ORDER]
    BY <1>1, <2>3, OrderOfSize
  <2> QED
    BY <1>1, <2>1, <2>2, <2>4
<1>5. block[h].start = 0 /\ old \in 0..MAX_ORDER
  <2>1. block[h] \in Blocks
    BY <1>1, <1>2, ClientsGood
  <2> QED
    BY <2>1, BlockIs
<1>6. PICK low \in 0..MAX_ORDER :
          DOMAIN tree = Spine(low) /\ ("cut" \notin mishap => taken = 2 * (MAX_ORDER - low))
  BY DEF IInv, SpineOK
<1> DEFINE new == IF low < order THEN low ELSE order
           k == taken + 2 * (low - new)
           null == new # low /\ k > NodeRoom
<1>7. PICK t :
          /\ got = [tree |-> t, taken |-> k, ret |-> <<order, 0>>, null |-> null, cut |-> FALSE]
          /\ DOMAIN t = Spine(new)
          /\ DOMAIN tree \subseteq DOMAIN t
          /\ <<order, 0>> \in DOMAIN t /\ t[<<order, 0>>] = "ALLOCATED"
          /\ \A n \in DOMAIN tree : n # <<order, 0>> => t[n] = tree[n]
  <2> HIDE DEF order
  <2> QED
    BY <1>3, <1>4, <1>6, AllocEffect
<1>8. /\ new \in 0..MAX_ORDER /\ k \in Int
      /\ "cut" \notin mishap => k = 2 * (MAX_ORDER - new)
      /\ k > NodeRoom /\ NodeRoom >= 2 * MAX_ORDER => "cut" \in mishap
  <2> HIDE DEF order
  <2> QED
    BY <1>3, <1>4, <1>6, GrantAccounts
<1>9. null \in BOOLEAN /\ got.ret = <<order, 0>> /\ got.ret[2] = 0
  <2> HIDE DEF order, got, null, k, new
  <2>1. got.ret = <<order, 0>>
    BY <1>7
  <2> QED
    BY <2>1 DEF null
<1> HIDE DEF old
<1>10. FreeTo(new, t, k, <<order, 0>>, null, old, free_buddy(got, 0, old))
  <2> DEFINE given == [tree |-> t, taken |-> k, ret |-> <<order, 0>>, null |-> null, cut |-> FALSE]
             ret == <<order, 0>>
  <2>1. got = given
    BY <1>7
  <2> HIDE DEF order, got, null, k, new, ret
  <2>2. FreeTo(new, t, k, ret, null, old, free_buddy(given, 0, old))
    BY <1>5, <1>7, <1>8, FreeEffect DEF ret
  <2> HIDE DEF given
  <2> QED
    BY <2>1, <2>2 DEF ret
<1>11. PICK low2 \in 0..MAX_ORDER, k2 \in Int, cut \in BOOLEAN : \E u :
          /\ free_buddy(got, 0, old) = [tree |-> u, taken |-> k2, ret |-> <<order, 0>>, null |-> null, cut |-> cut]
          /\ DOMAIN u = Spine(low2)
          /\ ~cut => k2 = k - 2 * (low2 - new)
          /\ \A o \in 0..MAX_ORDER :
                o > old /\ <<o, 0>> \in DOMAIN t =>
                    <<o, 0>> \in DOMAIN u /\ u[<<o, 0>>] = t[<<o, 0>>]
  <2> HIDE DEF order, got, null, k, new
  <2> QED
    BY <1>10, Zenon DEF FreeTo
<1>12. PICK u :
          /\ free_buddy(got, 0, old) = [tree |-> u, taken |-> k2, ret |-> <<order, 0>>, null |-> null, cut |-> cut]
          /\ DOMAIN u = Spine(low2)
          /\ ~cut => k2 = k - 2 * (low2 - new)
          /\ \A o \in 0..MAX_ORDER :
                o > old /\ <<o, 0>> \in DOMAIN t =>
                    <<o, 0>> \in DOMAIN u /\ u[<<o, 0>>] = t[<<o, 0>>]
  BY <1>11
<1>13. /\ tree' = u /\ taken' = k2
       /\ "null" \in mishap' <=> "null" \in mishap \/ null
       /\ "cut" \in mishap' <=> "cut" \in mishap \/ cut
  <2> HIDE DEF order, got, null, k, new
  <2>1. Become([tree |-> u, taken |-> k2, ret |-> <<order, 0>>, null |-> null, cut |-> cut])
    BY <1>1, <1>5, <1>12
  <2> QED
    BY <1>9, <2>1, Became
<1> DEFINE marks == set_dead_beef(marked, 0, order)
           fresh == Granted(<<order, 0>>, size)
           Seen_(b) == SeeFree(SeeGrant(b, order), old)
<1>14. /\ marked' = marks
       /\ block' = [i \in Handle |->
                       IF i = h THEN SeeFree(fresh, old)
                       ELSE IF ~Held(i) THEN block[i] ELSE Seen_(block[i])]
  <2>1. marked' = IF got.ret[2] # block[h].start
                  THEN Written(set_dead_beef(marked, got.ret[2], order), got.ret[2], got.ret[2] + block[h].size - 1)
                  ELSE set_dead_beef(marked, got.ret[2], order)
    BY DEF Realloc
  <2>2. block' = [[i \in Handle |-> IF i = h \/ ~Held(i) THEN block[i] ELSE Seen_(block[i])]
                     EXCEPT ![h] = SeeFree(Granted(got.ret, size), old)]
    BY DEF Realloc, Others, old
  <2> HIDE DEF got, order, Seen_
  <2> QED
    BY <1>5, <1>9, <2>1, <2>2
<1> HIDE DEF got
<1>15. marks \in SUBSET Int /\ marked' \in SUBSET Int
  <2>1. marks \in SUBSET Int
    BY <1>3, <1>4, MarkSet
  <2> QED
    BY <1>14, <2>1
<1>16. Good(u, marked', block'[h])
  <2>1. Good(t, marks, fresh)
    BY <1>3, <1>4, <1>7, GoodFresh
  <2> HIDE DEF marks, fresh
  <2>2. Good(u, marks, SeeFree(fresh, old))
    BY <1>5, <1>12, <1>15, <2>1, GoodFree
  <2> QED
    BY <1>14, <2>2
<1>17. ASSUME NEW i \in Handle, i # h, Held(i) PROVE Good(u, marked', block'[i])
  <2>1. Good(tree, marked, block[i])
    BY <1>2, <1>17, ClientsGood
  <2>2. Good(t, marks, SeeGrant(block[i], order))
    <3> HIDE DEF order
    <3> QED
      BY <1>3, <1>4, <1>7, <2>1, GoodGrant
  <2> DEFINE b == SeeGrant(block[i], order)
  <2>3. Good(u, marks, SeeFree(b, old))
    <3> HIDE DEF marks, b
    <3> QED
      BY <1>5, <1>12, <1>15, <2>2, GoodFree DEF b
  <2> HIDE DEF marks
  <2> QED
    BY <1>14, <1>17, <2>3
<1>18. \A i \in Handle : Held(i)' => Good(tree', marked', block'[i])
  <2>1. ASSUME NEW i \in Handle, i # h, ~Held(i) PROVE ~Held(i)'
    BY <1>14, <2>1 DEF Held
  <2> QED
    BY <1>13, <1>16, <1>17, <2>1
<1>19. block' \in [Handle -> Blocks \cup {NoBlock}]
  <2>1. \A i \in Handle : block'[i] \in Blocks \cup {NoBlock}
    BY <1>18 DEF Held, Good
  <2> HIDE DEF Seen_, fresh
  <2> QED
    BY <1>14, <2>1
<1>20. TypeOK'
  BY <1>1, <1>2, <1>13, <1>15, <1>19 DEF TypeOK
<1>21. SpineOK'
  <2>1. "cut" \notin mishap' => taken' = 2 * (MAX_ORDER - low2)
    <3> SUFFICES ASSUME "cut" \notin mishap' PROVE taken' = 2 * (MAX_ORDER - low2)
      OBVIOUS
    <3>1. ~cut /\ "cut" \notin mishap
      BY <1>13
    <3> HIDE DEF new, k
    <3>2. k2 = k - 2 * (low2 - new) /\ k = 2 * (MAX_ORDER - new)
      BY <1>8, <1>12, <3>1
    <3>3. new \in Nat /\ low2 \in Nat /\ MAX_ORDER \in Nat
      BY <1>8, Constants
    <3>4. k2 = 2 * (MAX_ORDER - low2)
      BY <3>2, <3>3
    <3> QED
      BY <1>13, <3>4
  <2>2. DOMAIN tree' = Spine(low2)
    BY <1>12, <1>13
  <2> QED
    BY <2>1, <2>2 DEF SpineOK
<1>22. NullOK'
  <2>1. null => k > NodeRoom
    OBVIOUS
  <2> HIDE DEF null, k
  <2> QED
    BY <1>2, <1>8, <1>13, <2>1 DEF NullOK
<1> QED
  BY <1>18, <1>20, <1>21, <1>22, GoodClients DEF IInv

LEMMA HangStep ==
    ASSUME IInv, NEW size \in Sizes, Hang(size)
    PROVE  IInv'
BY DEF Hang, IInv, TypeOK, SpineOK, NullOK, NodeStays, MarkKept, Held

LEMMA InitOK == Init => IInv
<1> SUFFICES ASSUME Init PROVE IInv
  OBVIOUS
<1>1. /\ tree = [n \in {Root} |-> "FREE"] /\ taken = 0 /\ marked = {} /\ mishap = {}
      /\ block = [h \in Handle |-> NoBlock]
  BY DEF Init
<1>2. SpineOK
  <2>1. MAX_ORDER \in 0..MAX_ORDER /\ MAX_ORDER..MAX_ORDER - 1 = {} /\ 0 = 2 * (MAX_ORDER - MAX_ORDER)
    BY Constants
  <2>2. Spine(MAX_ORDER) = {Root}
    BY <2>1 DEF Spine
  <2> QED
    BY <1>1, <2>1, <2>2 DEF SpineOK
<1>3. TypeOK
  BY <1>1 DEF TypeOK
<1>4. NullOK /\ NodeStays /\ MarkKept
  BY <1>1 DEF NullOK, NodeStays, MarkKept, Held
<1> QED
  BY <1>2, <1>3, <1>4 DEF IInv

LEMMA NextOK == IInv /\ [Next]_vars => IInv'
<1> SUFFICES ASSUME IInv, [Next]_vars PROVE IInv'
  OBVIOUS
<1>1. ASSUME NEW size \in Sizes, Hang(size) PROVE IInv'
  BY <1>1, HangStep
<1>2. ASSUME NEW h \in Handle, NEW size \in Sizes, Realloc(h, size) PROVE IInv'
  BY <1>2, ReallocStep
<1>3. ASSUME NEW h \in Handle, NEW size \in Sizes, NEW clear \in BOOLEAN, Malloc(h, size, clear) PROVE IInv'
  BY <1>3, MallocStep
<1>4. ASSUME NEW h \in Handle, Free(h) PROVE IInv'
  BY <1>4, FreeStep
<1>5. ASSUME NEW h \in Handle, Fill(h) PROVE IInv'
  BY <1>5, FillStep
<1>6. CASE UNCHANGED vars \/ (\E h \in Handle : Ignore(h)) \/ \E size \in Sizes : Refuse(size)
  BY <1>6 DEF Ignore, Refuse, vars, IInv, TypeOK, SpineOK, NullOK, NodeStays, MarkKept, Held
<1> QED
  BY <1>1, <1>2, <1>3, <1>4, <1>5, <1>6 DEF Next

-----------------------------------------------------------------------------
(* The theorems. *)

\* The inductive invariant: the tree is the spine of the arena's start, its
\* nodes are counted as long as none was lost with children, and every block
\* that is held has its node and its mark.
THEOREM Invariant == Spec => []IInv
<1> QED
  BY InitOK, NextOK, PTL DEF Spec

\* A held block's node stays in use until a block at least as large is freed
\* (buddy.c:71-91).
THEOREM BlockStays == Spec => []NodeStays
<1>1. IInv => NodeStays
  BY DEF IInv
<1> QED
  BY <1>1, Invariant, PTL

\* Nodes come in pairs of halves, and the kernel's heap holds exactly those of
\* the tree until merge_buddy drops a node with children (buddy.c:14-45).
THEOREM NodesBalance == Spec => []NodesAccounted
<1>1. IInv => NodesAccounted
  <2> SUFFICES ASSUME IInv PROVE NodesAccounted
    OBVIOUS
  <2>1. PICK low \in 0..MAX_ORDER :
            DOMAIN tree = Spine(low) /\ ("cut" \notin mishap => taken = 2 * (MAX_ORDER - low))
    BY DEF IInv, SpineOK
  <2>2. ASSUME NEW n \in DOMAIN tree \ {Root}
        PROVE  {Parent(n), Left(Parent(n)), Right(Parent(n))} \subseteq DOMAIN tree
    <3>1. PICK o \in low..MAX_ORDER - 1 : n = <<o, 0>> \/ n = <<o, Shifted[o]>>
      BY <2>1, OnSpine
    <3>2. /\ o \in 0..MAX_ORDER - 1 /\ o \in 0..MAX_ORDER /\ o + 1 \in 0..MAX_ORDER
          /\ o >= low /\ o + 1 >= low
      BY Constants
    <3>3. Parent(n) = <<o + 1, 0>>
      BY <3>1, <3>2, ParentAtStart
    <3>4. Left(<<o + 1, 0>>) = <<o, 0>> /\ Right(<<o + 1, 0>>) = <<o, Shifted[o]>>
      BY <3>2, HalvesAtStart
    <3>5. <<o + 1, 0>> \in Spine(low) /\ <<o, 0>> \in Spine(low) /\ <<o, Shifted[o]>> \in Spine(low)
      BY <3>2, OnSpine
    <3> QED
      BY <2>1, <3>3, <3>4, <3>5
  <2>3. "cut" \notin mishap => taken = Cardinality(DOMAIN tree) - 1
    <3>1. Cardinality(DOMAIN tree) = 1 + 2 * (MAX_ORDER - low) /\ MAX_ORDER \in Nat /\ low \in Nat
      BY <2>1, SpineSize, Constants
    <3>2. Cardinality(DOMAIN tree) - 1 = 2 * (MAX_ORDER - low)
      BY <3>1
    <3> QED
      BY <2>1, <3>2
  <2>4. "null" \in mishap /\ NodeRoom >= 2 * MAX_ORDER => "cut" \in mishap
    BY DEF IInv, NullOK
  <2> QED
    BY <2>2, <2>3, <2>4 DEF NodesAccounted
<1> QED
  BY <1>1, Invariant, PTL

\* The mark of a held block is there until some client uses its bytes up to
\* the mark, or the mark of another of the three smallest orders goes over it
\* (mm.c:31-41).
THEOREM MarkStays == Spec => []MarkKept
<1>1. IInv => MarkKept
  BY DEF IInv
<1> QED
  BY <1>1, Invariant, PTL

\* What every client holds starts at the arena's first byte and ends within the
\* arena, so that any two blocks that are held at a time share it, whatever is
\* allocated and freed before (buddy.c:47-69).
AllAtStart ==
    \A h \in Handle : Held(h) => block[h].start = 0 /\ 0 < block[h].size /\ block[h].size <= Shifted[MAX_ORDER]

THEOREM BlocksShareStart == Spec => []AllAtStart
<1>1. IInv => AllAtStart
  <2> SUFFICES ASSUME IInv, NEW h \in Handle, Held(h)
               PROVE  block[h].start = 0 /\ 0 < block[h].size /\ block[h].size <= Shifted[MAX_ORDER]
    BY DEF AllAtStart
  <2>1. block[h] \in Blocks
    BY DEF IInv, TypeOK, Held
  <2> QED
    BY <2>1, Constants DEF Blocks
<1> QED
  BY <1>1, Invariant, PTL
=============================================================================
