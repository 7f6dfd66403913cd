---------------------------- MODULE ConsoleProofs ---------------------------
(***************************************************************************)
(* The two rings of the console: the input ring of console.c implements the  *)
(* line editor of LineBuffer, and the transmit ring of uart.c the FIFO of    *)
(* Channel, for any number of processes, any ring sizes and any width of     *)
(* the counters of the input ring, which wrap.                               *)
(***************************************************************************)
EXTENDS Console, Uart, TLAPS

\* How far counter b is ahead of counter a, modulo u.
Ahead(a, b, u) == (b + u - a) % u
\* What is between them in the ring d of s slots, oldest first.
Cells(d, a, b, s, u) == [k \in 1..Ahead(a, b, u) |-> d[(a + (k - 1)) % s]]

-----------------------------------------------------------------------------
(* Counting modulo the size of a ring. *)

LEMMA ModDef ==
  ASSUME NEW m \in Nat \ {0}, NEW x \in Nat
  PROVE  \E q \in Nat, z \in 0..(m - 1) : x = q * m + z /\ (x % m) = z
<1>1. x % m \in 0..(m - 1) /\ x \div m \in Nat /\ x = (x \div m) * m + (x % m)
  OBVIOUS
<1> QED
  BY <1>1, Zenon

LEMMA ModUnique ==
  ASSUME NEW m \in Nat \ {0}, NEW q \in Nat, NEW z \in 0..(m - 1)
  PROVE  (q * m + z) % m = z
OBVIOUS

LEMMA ModRange ==
  ASSUME NEW m \in Nat \ {0}, NEW x \in Nat
  PROVE  x % m \in 0..(m - 1)
OBVIOUS

LEMMA ModSmall ==
  ASSUME NEW m \in Nat \ {0}, NEW x \in 0..(m - 1)
  PROVE  x % m = x
OBVIOUS

LEMMA ModOver ==
  ASSUME NEW m \in Nat \ {0}, NEW x \in m..(2 * m - 1)
  PROVE  x % m = x - m
OBVIOUS

\* A multiple of m adds nothing.
LEMMA ModAdd ==
  ASSUME NEW m \in Nat \ {0}, NEW u \in Nat, u % m = 0, NEW x \in Nat
  PROVE  (u + x) % m = x % m
<1>1. PICK a \in Nat, z \in 0..(m - 1) : u = a * m + z /\ u % m = z
  BY Zenon, ModDef
<1>2. PICK b \in Nat, y \in 0..(m - 1) : x = b * m + y /\ x % m = y
  BY Zenon, ModDef
<1>3. a + b \in Nat /\ (a + b) * m + y = u + x
  BY <1>1, <1>2
<1>4. ((a + b) * m + y) % m = y
  BY Zenon, <1>2, <1>3, ModUnique
<1> QED
  BY Zenon, <1>2, <1>3, <1>4

LEMMA AtLeastOnce ==
  ASSUME NEW m \in Nat, NEW d \in Int, d >= 1
  PROVE  d * m >= m
OBVIOUS

\* Fewer than m slots from each other are different slots.
LEMMA ModApart ==
  ASSUME NEW m \in Nat \ {0}, NEW x \in Nat, NEW k \in 0..(m - 1), NEW j \in 0..(m - 1), k < j
  PROVE  (x + k) % m # (x + j) % m
<1> SUFFICES ASSUME (x + k) % m = (x + j) % m PROVE FALSE
  BY Zenon
<1>1. x + k \in Nat /\ x + j \in Nat
  OBVIOUS
<1>2. PICK a \in Nat, y \in 0..(m - 1) : x + k = a * m + y /\ (x + k) % m = y
  BY <1>1, ModDef, Zenon
<1>3. PICK b \in Nat, z \in 0..(m - 1) : x + j = b * m + z /\ (x + j) % m = z
  BY <1>1, ModDef, Zenon
<1>4. (b - a) * m = j - k
  BY <1>2, <1>3
<1>5. b - a < 1
  BY <1>4, AtLeastOnce
<1>6. b - a > 0
  BY <1>4
<1> QED
  BY <1>5, <1>6

\* How far b is ahead of a, and that nothing else is.
LEMMA AheadIs ==
  ASSUME NEW u \in Nat \ {0}, NEW a \in 0..(u - 1), NEW b \in 0..(u - 1)
  PROVE  /\ Ahead(a, b, u) \in 0..(u - 1)
         /\ a + Ahead(a, b, u) = b \/ a + Ahead(a, b, u) = b + u
<1>1. CASE b >= a
  <2>1. b + u - a \in u..(2 * u - 1)
    BY <1>1
  <2>2. Ahead(a, b, u) = (b + u - a) - u
    BY Zenon, <2>1, ModOver DEF Ahead
  <2> QED
    BY <1>1, <2>2
<1>2. CASE b < a
  <2>1. b + u - a \in 0..(u - 1)
    BY <1>2
  <2>2. Ahead(a, b, u) = b + u - a
    BY Zenon, <2>1, ModSmall DEF Ahead
  <2> QED
    BY <1>2, <2>2
<1> QED
  BY <1>1, <1>2

LEMMA AheadUnique ==
  ASSUME NEW u \in Nat \ {0}, NEW a \in 0..(u - 1), NEW b \in 0..(u - 1),
         NEW c \in 0..(u - 1), a + c = b \/ a + c = b + u
  PROVE  Ahead(a, b, u) = c
<1>1. CASE a + c = b
  BY <1>1, ModOver DEF Ahead
<1>2. CASE a + c = b + u
  BY <1>2, ModSmall DEF Ahead
<1> QED
  BY Zenon, <1>1, <1>2

\* Counting on by k, and back.
LEMMA AheadPlus ==
  ASSUME NEW u \in Nat \ {0}, NEW a \in 0..(u - 1), NEW k \in 0..(u - 1)
  PROVE  (a + k) % u \in 0..(u - 1) /\ Ahead(a, (a + k) % u, u) = k
<1>1. CASE a + k < u
  <2>1. (a + k) % u = a + k
    BY <1>1, ModSmall
  <2> QED
    BY <1>1, <2>1, AheadUnique
<1>2. CASE a + k >= u
  <2>1. (a + k) % u = a + k - u
    BY <1>2, ModOver
  <2>2. a + k - u \in 0..(u - 1) /\ a + k = (a + k - u) + u
    BY <1>2
  <2> QED
    BY Zenon, <2>1, <2>2, AheadUnique
<1> QED
  BY <1>1, <1>2

\* A counter is told by how far it is ahead.
LEMMA AheadSame ==
  ASSUME NEW u \in Nat \ {0}, NEW a \in 0..(u - 1), NEW b \in 0..(u - 1), NEW c \in 0..(u - 1),
         Ahead(a, b, u) = Ahead(a, c, u)
  PROVE  b = c
<1>1. PICK z \in 0..(u - 1) : z = Ahead(a, b, u) /\ (a + z = b \/ a + z = b + u)
  BY Zenon, AheadIs
<1>2. a + Ahead(a, c, u) = c \/ a + Ahead(a, c, u) = c + u
  BY Zenon, AheadIs
<1>3. a + z = c \/ a + z = c + u
  BY Zenon, <1>1, <1>2
<1> QED
  BY <1>1, <1>3

LEMMA AheadSum ==
  ASSUME NEW u \in Nat \ {0}, NEW a \in 0..(u - 1), NEW b \in 0..(u - 1), NEW k \in Nat,
         Ahead(a, b, u) + k < u
  PROVE  (b + k) % u \in 0..(u - 1) /\ Ahead(a, (b + k) % u, u) = Ahead(a, b, u) + k
<1>1. PICK z \in 0..(u - 1) : /\ z = Ahead(a, b, u) /\ z + k < u
                              /\ a + z = b \/ a + z = b + u
  BY Zenon, AheadIs
<1>2. z + k \in 0..(u - 1)
  BY <1>1
<1>3. PICK y \in 0..(u - 1) : y = (b + k) % u /\ (a + (z + k) = y \/ a + (z + k) = y + u)
  <2>1. CASE b + k < u
    <3>1. (b + k) % u = b + k /\ b + k \in 0..(u - 1)
      BY <2>1, ModSmall
    <3>2. a + (z + k) = b + k \/ a + (z + k) = (b + k) + u
      BY <1>1
    <3> QED
      BY Zenon, <3>1, <3>2
  <2>2. CASE b + k >= u
    <3>1. b + k \in u..(2 * u - 1) /\ (b + k) - u \in 0..(u - 1)
      BY <1>2, <2>2
    <3>2. (b + k) % u = (b + k) - u
      BY Zenon, <3>1, ModOver
    <3>3. a + (z + k) = (b + k) - u \/ a + (z + k) = ((b + k) - u) + u
      BY <1>1, <1>2, <2>2
    <3> QED
      BY Zenon, <3>1, <3>2, <3>3
  <2> QED
    BY <2>1, <2>2
<1>4. Ahead(a, y, u) = z + k
  BY Zenon, <1>2, <1>3, AheadUnique
<1> QED
  BY Zenon, <1>1, <1>3, <1>4

LEMMA AheadBack ==
  ASSUME NEW u \in Nat \ {0}, NEW a \in 0..(u - 1), NEW b \in 0..(u - 1),
         NEW k \in 0..Ahead(a, b, u)
  PROVE  (b + u - k) % u \in 0..(u - 1) /\ Ahead(a, (b + u - k) % u, u) = Ahead(a, b, u) - k
<1>1. PICK z \in 0..(u - 1) : /\ z = Ahead(a, b, u) /\ k \in 0..z
                              /\ a + z = b \/ a + z = b + u
  BY Zenon, AheadIs
<1>2. z - k \in 0..(u - 1) /\ k \in 0..(u - 1)
  BY <1>1
<1>3. PICK y \in 0..(u - 1) : y = (b + u - k) % u /\ (a + (z - k) = y \/ a + (z - k) = y + u)
  <2>1. CASE b >= k
    <3>1. b + u - k \in u..(2 * u - 1) /\ (b + u - k) - u \in 0..(u - 1)
      BY <1>2, <2>1
    <3>2. (b + u - k) % u = (b + u - k) - u
      BY Zenon, <3>1, ModOver
    <3>3. a + (z - k) = (b + u - k) - u \/ a + (z - k) = ((b + u - k) - u) + u
      BY <1>1, <1>2
    <3> QED
      BY Zenon, <3>1, <3>2, <3>3
  <2>2. CASE b < k
    <3>1. b + u - k \in 0..(u - 1)
      BY <1>2, <2>2
    <3>2. (b + u - k) % u = b + u - k
      BY Zenon, <3>1, ModSmall
    <3>3. a + z = b + u
      BY <1>1, <2>2
    <3>4. a + (z - k) = b + u - k
      BY <1>2, <3>3
    <3> QED
      BY Zenon, <3>1, <3>2, <3>4
  <2> QED
    BY <1>2, <2>1, <2>2
<1>4. Ahead(a, y, u) = z - k
  BY Zenon, <1>2, <1>3, AheadUnique
<1> QED
  BY Zenon, <1>1, <1>3, <1>4

-----------------------------------------------------------------------------
(* What a ring holds between two counters. *)

Ring(d, a, b, s, u, S) ==
  /\ s \in Nat \ {0} /\ u \in Nat \ {0} /\ u % s = 0
  /\ d \in [0..(s - 1) -> S] /\ a \in 0..(u - 1) /\ b \in 0..(u - 1)

\* A slot is written.
Store(d, j, x) == [d EXCEPT ![j] = x]

LEMMA RingAhead ==
  ASSUME NEW d, NEW a, NEW b, NEW s, NEW u, NEW S, Ring(d, a, b, s, u, S)
  PROVE  /\ s \in Nat \ {0} /\ u \in Nat \ {0} /\ u \in Nat /\ u % s = 0
         /\ d \in [0..(s - 1) -> S] /\ a \in 0..(u - 1) /\ b \in 0..(u - 1)
         /\ a \in Nat /\ b \in Nat
         /\ Ahead(a, b, u) \in 0..(u - 1) /\ Ahead(a, b, u) \in Nat
         /\ a + Ahead(a, b, u) = b \/ a + Ahead(a, b, u) = b + u
<1>1. /\ s \in Nat \ {0} /\ u \in Nat \ {0} /\ u \in Nat /\ u % s = 0
      /\ d \in [0..(s - 1) -> S] /\ a \in 0..(u - 1) /\ b \in 0..(u - 1)
  BY Zenon DEF Ring
<1>2. /\ Ahead(a, b, u) \in 0..(u - 1)
      /\ a + Ahead(a, b, u) = b \/ a + Ahead(a, b, u) = b + u
  BY <1>1, AheadIs
<1>3. a \in Nat /\ b \in Nat /\ Ahead(a, b, u) \in Nat
  BY <1>1, <1>2
<1> QED
  BY Zenon, <1>1, <1>2, <1>3

LEMMA SeqAsFcn ==
  ASSUME NEW S, NEW q \in Seq(S), NEW m, m = Len(q)
  PROVE  q = [k \in 1..m |-> q[k]]
OBVIOUS

\* Sequences of the same length with the same elements are the same.
LEMMA SeqEqual ==
  ASSUME NEW S, NEW q \in Seq(S), NEW z \in Seq(S), NEW m \in Nat,
         Len(q) = m, Len(z) = m, \A k \in 1..m : q[k] = z[k]
  PROVE  q = z
<1>1. q = [k \in 1..m |-> q[k]] /\ z = [k \in 1..m |-> z[k]]
  BY SeqAsFcn, Zenon
<1>2. [k \in 1..m |-> q[k]] = [k \in 1..m |-> z[k]]
  BY Zenon
<1> QED
  BY Zenon, <1>1, <1>2

LEMMA SlotRange ==
  ASSUME NEW s \in Nat \ {0}, NEW a \in Nat, NEW k \in Nat
  PROVE  (a + k) % s \in 0..(s - 1)
<1>1. a + k \in Nat
  OBVIOUS
<1> QED
  BY Zenon, <1>1, ModRange

\* What is between two counters is a sequence of cells.
LEMMA CellsSeq ==
  ASSUME NEW d, NEW a, NEW b, NEW s, NEW u, NEW S, Ring(d, a, b, s, u, S)
  PROVE  /\ Cells(d, a, b, s, u) \in Seq(S) /\ Len(Cells(d, a, b, s, u)) = Ahead(a, b, u)
         /\ \A k \in 1..Ahead(a, b, u) : Cells(d, a, b, s, u)[k] = d[(a + (k - 1)) % s]
<1>0. /\ s \in Nat \ {0} /\ d \in [0..(s - 1) -> S] /\ a \in Nat
      /\ u \in Nat \ {0} /\ a \in 0..(u - 1) /\ b \in 0..(u - 1)
  BY DEF Ring
<1>1. PICK m \in Nat : m = Ahead(a, b, u)
  BY <1>0, AheadIs
<1>2. \A k \in 1..m : k - 1 \in Nat
  OBVIOUS
<1>3. \A k \in 1..m : (a + (k - 1)) % s \in 0..(s - 1)
  BY Zenon, <1>0, <1>2, SlotRange
<1>4. Cells(d, a, b, s, u) = [k \in 1..m |-> d[(a + (k - 1)) % s]]
  BY Zenon, <1>1 DEF Cells
<1>5. [k \in 1..m |-> d[(a + (k - 1)) % s]] \in [1..m -> S]
  BY Zenon, <1>0, <1>3
<1>6. Cells(d, a, b, s, u) \in [1..m -> S]
  BY Zenon, <1>4, <1>5
<1>7. Cells(d, a, b, s, u) \in Seq(S) /\ Len(Cells(d, a, b, s, u)) = m
  BY <1>6
<1> QED
  BY Zenon, <1>1, <1>4, <1>7

\* Where a counter's slot is, seen from another counter.
LEMMA AheadSlot ==
  ASSUME NEW d, NEW a, NEW b, NEW s, NEW u, NEW S, Ring(d, a, b, s, u, S)
  PROVE  (a + Ahead(a, b, u)) % s = b % s
<1>0. /\ s \in Nat \ {0} /\ u \in Nat \ {0} /\ u % s = 0 /\ a \in 0..(u - 1) /\ b \in 0..(u - 1)
      /\ u \in Nat
  BY Zenon DEF Ring
<1>1. CASE a + Ahead(a, b, u) = b
  BY Zenon, <1>1
<1>2. CASE a + Ahead(a, b, u) = b + u
  <2>1. b \in Nat /\ b + u = u + b
    BY <1>0
  <2>2. (u + b) % s = b % s
    BY Zenon, <1>0, <2>1, ModAdd
  <2> QED
    BY Zenon, <1>2, <2>1, <2>2
<1>3. a + Ahead(a, b, u) = b \/ a + Ahead(a, b, u) = b + u
  BY <1>0, AheadIs
<1> QED
  BY Zenon, <1>1, <1>2, <1>3

\* The slot at counter b, less than a ring ahead of a, is none of those between.
LEMMA OtherSlot ==
  ASSUME NEW d, NEW a, NEW b, NEW s, NEW u, NEW S, Ring(d, a, b, s, u, S),
         Ahead(a, b, u) < s, NEW k \in 0..(Ahead(a, b, u) - 1)
  PROVE  (a + k) % s # b % s
<1>0. /\ s \in Nat \ {0} /\ u \in Nat \ {0} /\ a \in 0..(u - 1) /\ b \in 0..(u - 1)
  BY Zenon DEF Ring
<1>1. PICK m \in 0..(u - 1) : m = Ahead(a, b, u)
  BY Zenon, <1>0, AheadIs
<1>2. k \in 0..(m - 1) /\ m < s
  BY Zenon, <1>1
<1>3. a \in Nat /\ k \in 0..(s - 1) /\ m \in 0..(s - 1) /\ k < m
  BY <1>0, <1>2
<1>4. (a + k) % s # (a + m) % s
  BY Zenon, <1>0, <1>3, ModApart
<1>5. (a + Ahead(a, b, u)) % s = b % s
  BY AheadSlot
<1> QED
  BY Zenon, <1>1, <1>4, <1>5

\* A write to the slot at e leaves what is between a and b alone, if b is not
\* beyond e.
LEMMA KeepCells ==
  ASSUME NEW d, NEW a, NEW b, NEW c, NEW s, NEW u, NEW S, Ring(d, a, b, s, u, S),
         Ring(d, a, c, s, u, S), Ahead(a, b, u) <= Ahead(a, c, u), Ahead(a, c, u) < s, NEW x \in S,
         NEW f, f = Store(d, c % s, x)
  PROVE  /\ f \in [0..(s - 1) -> S]
         /\ Cells(f, a, b, s, u) = Cells(d, a, b, s, u)
<1>0. /\ s \in Nat \ {0} /\ u \in Nat \ {0} /\ a \in 0..(u - 1) /\ b \in 0..(u - 1)
      /\ c \in 0..(u - 1) /\ d \in [0..(s - 1) -> S] /\ c \in Nat /\ a \in Nat
  BY DEF Ring
<1>1. PICK m \in Nat : m = Ahead(a, b, u)
  BY <1>0, AheadIs
<1>2. PICK z \in Nat : z = Ahead(a, c, u)
  BY <1>0, AheadIs
<1>3. m <= z
  BY Zenon, <1>1, <1>2
<1>4. \A k \in 1..m : k - 1 \in Nat /\ k - 1 \in 0..(z - 1)
  BY <1>3
<1>5. c % s \in 0..(s - 1) /\ \A k \in 1..m : (a + (k - 1)) % s \in 0..(s - 1)
  BY Zenon, <1>0, <1>4, ModRange, SlotRange
<1>6. \A k \in 1..m : (a + (k - 1)) % s # c % s
  BY Zenon, <1>2, <1>4, OtherSlot
<1>7. \A k \in 1..m : f[(a + (k - 1)) % s] = d[(a + (k - 1)) % s]
  BY Zenon, <1>0, <1>5, <1>6 DEF Store
<1>8. f \in [0..(s - 1) -> S]
  BY Zenon, <1>0, <1>5 DEF Store
<1>9. [k \in 1..m |-> f[(a + (k - 1)) % s]] = [k \in 1..m |-> d[(a + (k - 1)) % s]]
  BY Zenon, <1>7
<1>10. Cells(f, a, b, s, u) = Cells(d, a, b, s, u)
  BY Zenon, <1>1, <1>9 DEF Cells
<1> QED
  BY Zenon, <1>8, <1>10

LEMMA AppendProps ==
  ASSUME NEW S, NEW q \in Seq(S), NEW x \in S, NEW m \in Nat, m = Len(q)
  PROVE  /\ Append(q, x) \in Seq(S) /\ Len(Append(q, x)) = m + 1
         /\ \A k \in 1..m : Append(q, x)[k] = q[k]
         /\ Append(q, x)[m + 1] = x
<1>1. Append(q, x) \in Seq(S) /\ Len(Append(q, x)) = m + 1
  OBVIOUS
<1>2. \A k \in 1..m : Append(q, x)[k] = q[k]
  OBVIOUS
<1>3. Append(q, x)[Len(q) + 1] = x
  OBVIOUS
<1> QED
  BY Zenon, <1>1, <1>2, <1>3

\* Writing the slot at b and counting b up appends to what is between a and b ...
LEMMA PutCells ==
  ASSUME NEW d, NEW a, NEW b, NEW s, NEW u, NEW S, Ring(d, a, b, s, u, S),
         Ahead(a, b, u) < s, Ahead(a, b, u) + 1 < u, NEW x \in S,
         NEW f, f = Store(d, b % s, x), NEW c, c = (b + 1) % u
  PROVE  /\ Ring(f, a, c, s, u, S) /\ Ahead(a, c, u) = Ahead(a, b, u) + 1
         /\ Cells(f, a, c, s, u) = Append(Cells(d, a, b, s, u), x)
<1>0. /\ s \in Nat \ {0} /\ u \in Nat \ {0} /\ a \in 0..(u - 1) /\ b \in 0..(u - 1)
      /\ d \in [0..(s - 1) -> S] /\ u % s = 0
  BY Zenon DEF Ring
<1>1. PICK m \in Nat : m = Ahead(a, b, u)
  BY <1>0, AheadIs
<1>2. c \in 0..(u - 1) /\ Ahead(a, c, u) = m + 1
  BY <1>0, <1>1, AheadSum
<1>4. f \in [0..(s - 1) -> S] /\ Cells(f, a, b, s, u) = Cells(d, a, b, s, u)
  <2>1. Ahead(a, b, u) <= Ahead(a, b, u)
    BY <1>1
  <2> QED
    BY <2>1, KeepCells
<1>5. Ring(f, a, c, s, u, S) /\ Ring(f, a, b, s, u, S)
  BY Zenon, <1>0, <1>2, <1>4 DEF Ring
<1>6. /\ Cells(f, a, c, s, u) \in Seq(S) /\ Len(Cells(f, a, c, s, u)) = m + 1
      /\ \A k \in 1..(m + 1) : Cells(f, a, c, s, u)[k] = f[(a + (k - 1)) % s]
  <2>1. /\ Cells(f, a, c, s, u) \in Seq(S) /\ Len(Cells(f, a, c, s, u)) = Ahead(a, c, u)
        /\ \A k \in 1..Ahead(a, c, u) : Cells(f, a, c, s, u)[k] = f[(a + (k - 1)) % s]
    BY <1>5, CellsSeq
  <2> QED
    BY Zenon, <1>2, <2>1
<1>7. /\ Cells(f, a, b, s, u) \in Seq(S) /\ Len(Cells(f, a, b, s, u)) = m
      /\ \A k \in 1..m : Cells(f, a, b, s, u)[k] = f[(a + (k - 1)) % s]
  <2>1. /\ Cells(f, a, b, s, u) \in Seq(S) /\ Len(Cells(f, a, b, s, u)) = Ahead(a, b, u)
        /\ \A k \in 1..Ahead(a, b, u) : Cells(f, a, b, s, u)[k] = f[(a + (k - 1)) % s]
    BY <1>5, CellsSeq
  <2> QED
    BY Zenon, <1>1, <2>1
<1>8. f[(a + m) % s] = x
  <2>1. b \in Nat
    BY <1>0
  <2>2. b % s \in 0..(s - 1)
    BY Zenon, <1>0, <2>1, ModRange
  <2>3. (a + Ahead(a, b, u)) % s = b % s
    BY AheadSlot
  <2> QED
    BY Zenon, <1>0, <1>1, <2>2, <2>3 DEF Store
<1>9. PICK q : q = Cells(f, a, b, s, u)
  BY Zenon
<1>10. /\ Append(q, x) \in Seq(S) /\ Len(Append(q, x)) = m + 1
       /\ \A k \in 1..m : Append(q, x)[k] = q[k]
       /\ Append(q, x)[m + 1] = x
  BY <1>7, <1>9, AppendProps
<1>11. \A k \in 1..(m + 1) : Cells(f, a, c, s, u)[k] = Append(q, x)[k]
  <2> SUFFICES ASSUME NEW k \in 1..(m + 1)
               PROVE  Cells(f, a, c, s, u)[k] = Append(q, x)[k]
    BY Zenon
  <2>1. CASE k = m + 1
    <3>1. k - 1 = m
      BY <2>1
    <3> QED
      BY Zenon, <1>6, <1>8, <1>10, <2>1, <3>1
  <2>2. CASE k # m + 1
    <3>1. k \in 1..m
      BY <2>2
    <3> QED
      BY Zenon, <1>6, <1>7, <1>9, <1>10, <3>1
  <2> QED
    BY Zenon, <2>1, <2>2
<1>12. m + 1 \in Nat
  OBVIOUS
<1>13. Cells(f, a, c, s, u) = Append(q, x)
  BY Zenon, <1>6, <1>10, <1>11, <1>12, SeqEqual
<1> QED
  BY Zenon, <1>1, <1>2, <1>4, <1>5, <1>9, <1>13

LEMMA TailProps ==
  ASSUME NEW S, NEW q \in Seq(S), NEW m \in Nat, Len(q) = m + 1
  PROVE  /\ Tail(q) \in Seq(S) /\ Len(Tail(q)) = m /\ q # <<>> /\ Head(q) = q[1]
         /\ \A k \in 1..m : Tail(q)[k] = q[k + 1]
<1>1. q # <<>>
  OBVIOUS
<1>2. Tail(q) \in Seq(S) /\ Len(Tail(q)) = m /\ Head(q) = q[1]
  BY <1>1
<1>3. \A k \in 1..m : Tail(q)[k] = q[k + 1]
  BY <1>1
<1> QED
  BY Zenon, <1>1, <1>2, <1>3

\* Three counters, one after the other.
LEMMA AheadRest ==
  ASSUME NEW u \in Nat \ {0}, NEW a \in 0..(u - 1), NEW b \in 0..(u - 1), NEW c \in 0..(u - 1),
         Ahead(a, b, u) <= Ahead(a, c, u)
  PROVE  Ahead(b, c, u) = Ahead(a, c, u) - Ahead(a, b, u)
<1>1. PICK y \in 0..(u - 1) : y = Ahead(a, b, u) /\ (a + y = b \/ a + y = b + u)
  BY Zenon, AheadIs
<1>2. PICK z \in 0..(u - 1) : z = Ahead(a, c, u) /\ (a + z = c \/ a + z = c + u)
  BY Zenon, AheadIs
<1>3. y <= z
  BY Zenon, <1>1, <1>2
<1>4. z - y \in 0..(u - 1) /\ (b + (z - y) = c \/ b + (z - y) = c + u)
  BY <1>1, <1>2, <1>3
<1>5. Ahead(b, c, u) = z - y
  BY Zenon, <1>4, AheadUnique
<1> QED
  BY Zenon, <1>1, <1>2, <1>5

\* The slots after b, counted from a.
LEMMA ShiftSlot ==
  ASSUME NEW d, NEW a, NEW b, NEW s, NEW u, NEW S, Ring(d, a, b, s, u, S), NEW k \in Nat
  PROVE  (b + k) % s = (a + (Ahead(a, b, u) + k)) % s
<1>0. /\ s \in Nat \ {0} /\ u \in Nat /\ u % s = 0 /\ a \in Nat /\ b \in Nat
      /\ Ahead(a, b, u) \in Nat
      /\ a + Ahead(a, b, u) = b \/ a + Ahead(a, b, u) = b + u
  BY RingAhead
<1>1. PICK y \in Nat : y = Ahead(a, b, u) /\ (a + y = b \/ a + y = b + u)
  BY Zenon, <1>0
<1>2. CASE a + y = b
  <2>1. a + (y + k) = b + k
    BY <1>0, <1>2
  <2> QED
    BY Zenon, <1>1, <2>1
<1>3. CASE a + y = b + u
  <2>1. a + (y + k) = u + (b + k) /\ b + k \in Nat
    BY <1>0, <1>3
  <2>2. (u + (b + k)) % s = (b + k) % s
    BY Zenon, <1>0, <2>1, ModAdd
  <2> QED
    BY Zenon, <1>1, <2>1, <2>2
<1> QED
  BY Zenon, <1>1, <1>2, <1>3

\* ... and counting a up takes the first.
LEMMA GetCells ==
  ASSUME NEW d, NEW a, NEW b, NEW s, NEW u, NEW S, Ring(d, a, b, s, u, S), a # b
  PROVE  /\ (a + 1) % u \in 0..(u - 1) /\ (a + 1) % u # a
         /\ Ahead(a, (a + 1) % u, u) = 1 /\ Ahead((a + 1) % u, b, u) = Ahead(a, b, u) - 1
         /\ Cells(d, a, b, s, u) # <<>> /\ Head(Cells(d, a, b, s, u)) = d[a % s]
         /\ Cells(d, (a + 1) % u, b, s, u) = Tail(Cells(d, a, b, s, u))
<1>0. /\ s \in Nat \ {0} /\ u \in Nat \ {0} /\ u % s = 0
      /\ d \in [0..(s - 1) -> S] /\ a \in 0..(u - 1) /\ b \in 0..(u - 1)
      /\ Ahead(a, b, u) \in 0..(u - 1)
      /\ a + Ahead(a, b, u) = b \/ a + Ahead(a, b, u) = b + u
  BY RingAhead
<1>1. PICK z \in 0..(u - 1) : z = Ahead(a, b, u) /\ (a + z = b \/ a + z = b + u)
  BY Zenon, <1>0
<1>2. PICK m \in Nat : m = z - 1
  BY <1>0, <1>1
<1>3. 1 \in 0..(u - 1) /\ z = m + 1
  BY <1>0, <1>2
<1>4. PICK y \in 0..(u - 1) : y = (a + 1) % u /\ Ahead(a, y, u) = 1
  <2>1. (a + 1) % u \in 0..(u - 1) /\ Ahead(a, (a + 1) % u, u) = 1
    <3>1. u \in Nat \ {0} /\ a \in 0..(u - 1) /\ 1 \in 0..(u - 1)
      BY Zenon, <1>0, <1>3
    <3> QED
      BY Zenon, <3>1, AheadPlus
  <2> QED
    BY Zenon, <2>1
<1>5. Ahead(y, b, u) = m
  <2>1. Ahead(a, y, u) <= Ahead(a, b, u)
    BY <1>1, <1>3, <1>4
  <2>2. Ahead(y, b, u) = Ahead(a, b, u) - Ahead(a, y, u)
    BY <1>0, <2>1, AheadRest
  <2> QED
    BY Zenon, <1>1, <1>2, <1>4, <2>2
<1>6. Ring(d, a, y, s, u, S) /\ Ring(d, y, b, s, u, S)
  BY Zenon, <1>0 DEF Ring
<1>7. /\ Cells(d, a, b, s, u) \in Seq(S) /\ Len(Cells(d, a, b, s, u)) = m + 1
      /\ \A k \in 1..(m + 1) : Cells(d, a, b, s, u)[k] = d[(a + (k - 1)) % s]
  <2>1. /\ Cells(d, a, b, s, u) \in Seq(S) /\ Len(Cells(d, a, b, s, u)) = Ahead(a, b, u)
        /\ \A k \in 1..Ahead(a, b, u) : Cells(d, a, b, s, u)[k] = d[(a + (k - 1)) % s]
    BY CellsSeq
  <2> QED
    BY Zenon, <1>1, <1>3, <2>1
<1>8. /\ Cells(d, y, b, s, u) \in Seq(S) /\ Len(Cells(d, y, b, s, u)) = m
      /\ \A k \in 1..m : Cells(d, y, b, s, u)[k] = d[(y + (k - 1)) % s]
  <2>1. /\ Cells(d, y, b, s, u) \in Seq(S) /\ Len(Cells(d, y, b, s, u)) = Ahead(y, b, u)
        /\ \A k \in 1..Ahead(y, b, u) : Cells(d, y, b, s, u)[k] = d[(y + (k - 1)) % s]
    BY <1>6, CellsSeq
  <2> QED
    BY Zenon, <1>5, <2>1
<1>9. PICK q : q = Cells(d, a, b, s, u)
  BY Zenon
<1>10. /\ Tail(q) \in Seq(S) /\ Len(Tail(q)) = m /\ q # <<>> /\ Head(q) = q[1]
       /\ \A k \in 1..m : Tail(q)[k] = q[k + 1]
  BY <1>7, <1>9, TailProps
<1>11. \A k \in 1..m : Cells(d, y, b, s, u)[k] = Tail(q)[k]
  <2> SUFFICES ASSUME NEW k \in 1..m
               PROVE  Cells(d, y, b, s, u)[k] = Tail(q)[k]
    BY Zenon
  <2>1. k - 1 \in Nat /\ k + 1 \in 1..(m + 1) /\ 1 + (k - 1) = k /\ (k + 1) - 1 = k
    OBVIOUS
  <2>2. (y + (k - 1)) % s = (a + (Ahead(a, y, u) + (k - 1))) % s
    BY <1>6, <2>1, ShiftSlot
  <2>3. Cells(d, y, b, s, u)[k] = d[(a + k) % s]
    BY Zenon, <1>4, <1>8, <2>1, <2>2
  <2>4. q[k + 1] = d[(a + k) % s]
    BY Zenon, <1>7, <1>9, <2>1
  <2> QED
    BY Zenon, <1>10, <2>3, <2>4
<1>12. Cells(d, y, b, s, u) = Tail(q)
  BY Zenon, <1>8, <1>10, <1>11, SeqEqual
<1>13. q[1] = d[a % s]
  <2>1. 1 \in 1..(m + 1) /\ a + (1 - 1) = a
    BY <1>0
  <2> QED
    BY Zenon, <1>7, <1>9, <2>1
<1>14. y # a
  <2>1. a + 1 = y \/ a + 1 = y + u
    <3>1. a + Ahead(a, y, u) = y \/ a + Ahead(a, y, u) = y + u
      BY <1>6, RingAhead
    <3> QED
      BY Zenon, <1>4, <3>1
  <2> QED
    BY <1>0, <1>3, <2>1
<1>15. m = Ahead(a, b, u) - 1
  BY Zenon, <1>1, <1>2
<1> QED
  BY Zenon, <1>4, <1>5, <1>9, <1>10, <1>12, <1>13, <1>14, <1>15

LEMMA ConcatProps ==
  ASSUME NEW S, NEW q \in Seq(S), NEW z \in Seq(S), NEW m \in Nat, NEW j \in Nat,
         Len(q) = m, Len(z) = j
  PROVE  /\ q \o z \in Seq(S) /\ Len(q \o z) = m + j
         /\ \A k \in 1..m : (q \o z)[k] = q[k]
         /\ \A k \in 1..j : (q \o z)[m + k] = z[k]
<1>1. q \o z \in Seq(S) /\ Len(q \o z) = m + j
  OBVIOUS
<1>2. \A k \in 1..m : (q \o z)[k] = q[k]
  OBVIOUS
<1>3. \A k \in 1..j : (q \o z)[m + k] = z[k]
  OBVIOUS
<1> QED
  BY Zenon, <1>1, <1>2, <1>3

\* What is between a and c is what is between a and b and what is between b and c.
LEMMA JoinCells ==
  ASSUME NEW d, NEW a, NEW b, NEW c, NEW s, NEW u, NEW S, Ring(d, a, b, s, u, S),
         Ring(d, a, c, s, u, S), Ahead(a, b, u) <= Ahead(a, c, u)
  PROVE  Cells(d, a, c, s, u) = Cells(d, a, b, s, u) \o Cells(d, b, c, s, u)
<1>0. /\ u \in Nat \ {0} /\ a \in 0..(u - 1) /\ b \in 0..(u - 1) /\ c \in 0..(u - 1)
      /\ Ahead(a, b, u) \in Nat /\ Ahead(a, c, u) \in Nat
  BY RingAhead
<1>1. PICK m \in Nat : m = Ahead(a, b, u)
  BY Zenon, <1>0
<1>2. PICK j \in Nat : j = Ahead(a, c, u) - Ahead(a, b, u)
  BY <1>0
<1>3. Ahead(a, c, u) = m + j /\ m + j \in Nat
  BY <1>0, <1>1, <1>2
<1>4. Ahead(b, c, u) = j
  BY Zenon, <1>0, <1>2, AheadRest
<1>5. Ring(d, b, c, s, u, S)
  BY Zenon DEF Ring
<1>6. /\ Cells(d, a, c, s, u) \in Seq(S) /\ Len(Cells(d, a, c, s, u)) = Ahead(a, c, u)
      /\ \A k \in 1..Ahead(a, c, u) : Cells(d, a, c, s, u)[k] = d[(a + (k - 1)) % s]
  BY CellsSeq
<1>7. /\ Cells(d, a, b, s, u) \in Seq(S) /\ Len(Cells(d, a, b, s, u)) = Ahead(a, b, u)
      /\ \A k \in 1..Ahead(a, b, u) : Cells(d, a, b, s, u)[k] = d[(a + (k - 1)) % s]
  BY CellsSeq
<1>8. /\ Cells(d, b, c, s, u) \in Seq(S) /\ Len(Cells(d, b, c, s, u)) = Ahead(b, c, u)
      /\ \A k \in 1..Ahead(b, c, u) : Cells(d, b, c, s, u)[k] = d[(b + (k - 1)) % s]
  BY <1>5, CellsSeq
<1>9. PICK q \in Seq(S) : q = Cells(d, a, b, s, u) /\ Len(q) = m
  BY Zenon, <1>1, <1>7
<1>10. PICK z \in Seq(S) : z = Cells(d, b, c, s, u) /\ Len(z) = j
  BY Zenon, <1>4, <1>8
<1>11. /\ q \o z \in Seq(S) /\ Len(q \o z) = m + j
       /\ \A k \in 1..m : (q \o z)[k] = q[k]
       /\ \A k \in 1..j : (q \o z)[m + k] = z[k]
  BY <1>9, <1>10, ConcatProps
<1>12. \A k \in 1..(m + j) : Cells(d, a, c, s, u)[k] = (q \o z)[k]
  <2> SUFFICES ASSUME NEW k \in 1..(m + j)
               PROVE  Cells(d, a, c, s, u)[k] = (q \o z)[k]
    BY Zenon
  <2>0. Cells(d, a, c, s, u)[k] = d[(a + (k - 1)) % s]
    BY Zenon, <1>3, <1>6
  <2>1. CASE k \in 1..m
    BY Zenon, <1>1, <1>7, <1>9, <1>11, <2>0, <2>1
  <2>2. CASE k \notin 1..m
    <3>1. PICK i \in 1..j : k = m + i
      <4>1. k - m \in 1..j /\ k = m + (k - m)
        BY <2>2
      <4> QED
        BY Zenon, <4>1
    <3>2. i - 1 \in Nat /\ m + (i - 1) = k - 1
      BY <3>1
    <3>3. (b + (i - 1)) % s = (a + (Ahead(a, b, u) + (i - 1))) % s
      BY <3>2, ShiftSlot
    <3>4. (b + (i - 1)) % s = (a + (k - 1)) % s
      BY Zenon, <1>1, <3>2, <3>3
    <3>5. z[i] = d[(b + (i - 1)) % s]
      BY Zenon, <1>4, <1>8, <1>10
    <3> QED
      BY Zenon, <1>11, <2>0, <3>1, <3>4, <3>5
  <2> QED
    BY Zenon, <2>1, <2>2
<1>13. Cells(d, a, c, s, u) = q \o z
  BY Zenon, <1>3, <1>6, <1>11, <1>12, SeqEqual
<1> QED
  BY Zenon, <1>9, <1>10, <1>13

\* Counting back drops the last ones.
LEMMA PrefixCells ==
  ASSUME NEW d, NEW a, NEW b, NEW c, NEW s, NEW u, NEW S, Ring(d, a, b, s, u, S),
         Ring(d, a, c, s, u, S), Ahead(a, b, u) <= Ahead(a, c, u)
  PROVE  Cells(d, a, b, s, u) = SubSeq(Cells(d, a, c, s, u), 1, Ahead(a, b, u))
<1>0. Ahead(a, b, u) \in Nat /\ Ahead(a, c, u) \in Nat
  BY RingAhead
<1>1. PICK m \in Nat : m = Ahead(a, b, u)
  BY Zenon, <1>0
<1>2. PICK j \in Nat : j = Ahead(a, c, u)
  BY Zenon, <1>0
<1>3. m <= j
  BY Zenon, <1>1, <1>2
<1>4. /\ Cells(d, a, c, s, u) \in Seq(S) /\ Len(Cells(d, a, c, s, u)) = Ahead(a, c, u)
      /\ \A k \in 1..Ahead(a, c, u) : Cells(d, a, c, s, u)[k] = d[(a + (k - 1)) % s]
  BY CellsSeq
<1>5. /\ Cells(d, a, b, s, u) \in Seq(S) /\ Len(Cells(d, a, b, s, u)) = Ahead(a, b, u)
      /\ \A k \in 1..Ahead(a, b, u) : Cells(d, a, b, s, u)[k] = d[(a + (k - 1)) % s]
  BY CellsSeq
<1>6. PICK q \in Seq(S) : q = Cells(d, a, c, s, u) /\ Len(q) = j
  BY Zenon, <1>2, <1>4
<1>7. /\ SubSeq(q, 1, m) \in Seq(S) /\ Len(SubSeq(q, 1, m)) = m
      /\ \A k \in 1..m : SubSeq(q, 1, m)[k] = q[k]
  BY <1>3, <1>6
<1>8. \A k \in 1..m : k \in 1..j
  BY <1>3
<1>9. \A k \in 1..m : Cells(d, a, b, s, u)[k] = SubSeq(q, 1, m)[k]
  BY Zenon, <1>1, <1>2, <1>4, <1>5, <1>6, <1>7, <1>8
<1>10. Cells(d, a, b, s, u) = SubSeq(q, 1, m)
  BY Zenon, <1>1, <1>5, <1>7, <1>9, SeqEqual
<1> QED
  BY Zenon, <1>1, <1>6, <1>10

\* Nothing is between a counter and itself, and only then.
LEMMA NoCells ==
  ASSUME NEW d, NEW a, NEW b, NEW s, NEW u, NEW S, Ring(d, a, b, s, u, S)
  PROVE  /\ Cells(d, a, b, s, u) = <<>> <=> a = b
         /\ Ahead(a, b, u) = 0 <=> a = b
<1>0. /\ u \in Nat \ {0} /\ a \in 0..(u - 1) /\ b \in 0..(u - 1)
      /\ Ahead(a, b, u) \in 0..(u - 1)
      /\ a + Ahead(a, b, u) = b \/ a + Ahead(a, b, u) = b + u
  BY RingAhead
<1>1. PICK z \in 0..(u - 1) : z = Ahead(a, b, u) /\ (a + z = b \/ a + z = b + u)
  BY Zenon, <1>0
<1>2. z = 0 <=> a = b
  BY <1>0, <1>1
<1>3. Cells(d, a, b, s, u) \in Seq(S) /\ Len(Cells(d, a, b, s, u)) = Ahead(a, b, u)
  BY CellsSeq
<1>4. Cells(d, a, b, s, u) = <<>> <=> Len(Cells(d, a, b, s, u)) = 0
  BY <1>3
<1> QED
  BY Zenon, <1>1, <1>2, <1>3, <1>4

-----------------------------------------------------------------------------
(* The transmit ring. *)

TxInv == Ring(txbuf, txr, txw, TxSize, TxSize, Char)

LEMMA TxWidth ==
  TxSize \in Nat \ {0} /\ TxSize > 1 /\ TxSize % TxSize = 0
<1>1. TxSize \in Nat \ {0} /\ TxSize > 1
  BY UartConstants
<1>2. TxSize % TxSize = TxSize - TxSize
  BY <1>1, ModOver
<1> QED
  BY <1>1, <1>2

\* The refinement mapping of TxFifo in terms of Cells.
LEMMA TxContents ==
  InRing = Cells(txbuf, txr, txw, TxSize, TxSize)
BY Zenon DEF InRing, Cells, Ahead

\* uartputc's byte goes behind the others, and finds room.
LEMMA TxPut ==
  ASSUME TxInv, NEW p, uartputc(p)
  PROVE  TxInv' /\ \E x \in Char : TX!Put(x)
<1>1. PICK x \in Char : txbuf' = [txbuf EXCEPT ![txw] = x]
  BY Zenon DEF uartputc
<1>2. /\ (txw + 1) % TxSize # txr /\ txw' = (txw + 1) % TxSize
      /\ UNCHANGED <<txr, sent>>
  BY Zenon DEF uartputc, Full, NextIdx
<1>3. /\ txr \in 0..(TxSize - 1) /\ txw \in 0..(TxSize - 1) /\ Ahead(txr, txw, TxSize) \in Nat
      /\ Ahead(txr, txw, TxSize) \in 0..(TxSize - 1)
      /\ txr + Ahead(txr, txw, TxSize) = txw \/ txr + Ahead(txr, txw, TxSize) = txw + TxSize
  BY RingAhead DEF TxInv
<1>4. PICK z \in Nat : /\ z = Ahead(txr, txw, TxSize) /\ z \in 0..(TxSize - 1)
                       /\ txr + z = txw \/ txr + z = txw + TxSize
  BY Zenon, <1>3
<1>5. z + 1 < TxSize
  <2> SUFFICES ASSUME z = TxSize - 1 PROVE FALSE
    BY <1>4, TxWidth
  <2>1. CASE txw + 1 = TxSize
    <3>1. (txw + 1) % TxSize = 0
      BY <2>1, TxWidth
    <3> QED
      BY <1>2, <1>3, <1>4, <2>1, <3>1, TxWidth
  <2>2. CASE txw + 1 # TxSize
    <3>1. txw + 1 \in 0..(TxSize - 1)
      BY <1>3, <2>2, TxWidth
    <3>2. (txw + 1) % TxSize = txw + 1
      BY Zenon, <3>1, TxWidth, ModSmall
    <3> QED
      BY <1>2, <1>3, <1>4, <3>1, <3>2, TxWidth
  <2> QED
    BY Zenon, <2>1, <2>2
<1>6. txw % TxSize = txw /\ Ahead(txr, txw, TxSize) < TxSize /\ Ahead(txr, txw, TxSize) + 1 < TxSize
  BY <1>3, <1>4, <1>5, TxWidth, ModSmall
<1>7. /\ Ring(txbuf', txr, txw', TxSize, TxSize, Char)
      /\ Cells(txbuf', txr, txw', TxSize, TxSize) = Append(Cells(txbuf, txr, txw, TxSize, TxSize), x)
  <2>1. /\ Ring(txbuf, txr, txw, TxSize, TxSize, Char)
        /\ Ahead(txr, txw, TxSize) < TxSize /\ Ahead(txr, txw, TxSize) + 1 < TxSize
        /\ txbuf' = Store(txbuf, txw % TxSize, x) /\ txw' = (txw + 1) % TxSize
    BY Zenon, <1>1, <1>2, <1>6 DEF TxInv, Store
  <2> QED
    BY <2>1, PutCells
<1>8. TxInv'
  BY Zenon, <1>1, <1>2, <1>6, <1>7 DEF TxInv
<1>9. InRing' = Append(InRing, x)
  <2>1. InRing' = Cells(txbuf', txr', txw', TxSize, TxSize)
    BY Zenon DEF InRing, Cells, Ahead
  <2> QED
    BY Zenon, <1>1, <1>2, <1>6, <1>7, <2>1, TxContents
<1>10. Len(InRing) < TxSize - 1
  <2>1. Len(Cells(txbuf, txr, txw, TxSize, TxSize)) = Ahead(txr, txw, TxSize)
    BY CellsSeq DEF TxInv
  <2>2. Len(InRing) = z
    BY Zenon, <1>4, <2>1, TxContents
  <2> QED
    BY <1>5, <2>2, TxWidth
<1> QED
  BY Zenon, <1>2, <1>8, <1>9, <1>10 DEF TX!Put

\* uartstart takes the first byte, whoever calls it.
LEMMA TxGet ==
  ASSUME TxInv, uartstart_send
  PROVE  TxInv' /\ TX!Get
<1>1. /\ txr # txw /\ sent' = txbuf[txr] /\ txr' = (txr + 1) % TxSize
      /\ UNCHANGED <<txbuf, txw>>
  BY Zenon DEF uartstart_send, Empty, NextIdx
<1>2. /\ (txr + 1) % TxSize \in 0..(TxSize - 1)
      /\ Cells(txbuf, txr, txw, TxSize, TxSize) # <<>>
      /\ Head(Cells(txbuf, txr, txw, TxSize, TxSize)) = txbuf[txr % TxSize]
      /\ Cells(txbuf, (txr + 1) % TxSize, txw, TxSize, TxSize) =
           Tail(Cells(txbuf, txr, txw, TxSize, TxSize))
  BY <1>1, GetCells DEF TxInv
<1>3. txr % TxSize = txr
  BY Zenon, TxWidth, ModSmall DEF TxInv, Ring
<1>4. InRing' = Cells(txbuf', txr', txw', TxSize, TxSize)
  BY Zenon DEF InRing, Cells, Ahead
<1>5. TxInv'
  BY Zenon, <1>1, <1>2 DEF TxInv, Ring
<1> QED
  BY Zenon, <1>1, <1>2, <1>3, <1>4, <1>5, TxContents DEF TX!Get

\* Every step of the UART and its driver puts a byte in, takes one out or leaves the ring alone.
LEMMA TxStep ==
  ASSUME TxInv, [UartNext]_uartVars
  PROVE  TxInv' /\ [TX!ChNext]_TX!chVars
<1>1. ASSUME UNCHANGED <<txring, sent>>
      PROVE  TxInv' /\ UNCHANGED TX!chVars
  BY Zenon, <1>1 DEF txring, TxInv, InRing, TX!chVars
<1>2. ASSUME uartstart_send
      PROVE  TxInv' /\ TX!ChNext
  BY Zenon, <1>2, TxGet DEF TX!ChNext
<1>3. ASSUME NEW p, uartputc(p)
      PROVE  TxInv' /\ TX!ChNext
  BY Zenon, <1>3, TxPut DEF TX!ChNext
<1>4. ASSUME NEW p, consolewrite(p) \/ uartputc_full(p) \/ write_done(p)
      PROVE  UNCHANGED <<txring, sent>>
  BY Zenon, <1>4 DEF consolewrite, uartputc_full, write_done
<1>5. ASSUME NEW p, putc_start(p)
      PROVE  uartstart_send \/ UNCHANGED <<txring, sent>>
  BY Zenon, <1>5 DEF putc_start
<1>6. ASSUME intr_start_tx
      PROVE  uartstart_send \/ UNCHANGED <<txring, sent>>
  BY Zenon, <1>6 DEF intr_start_tx
<1>7. ASSUME intr_start \/ intr_getc \/ uartputc_sync \/ intr_acquire \/ dev_sent \/ dev_receive
      PROVE  UNCHANGED <<txring, sent>>
  BY Zenon, <1>7 DEF intr_start, intr_getc, uartputc_sync, intr_acquire, dev_sent, dev_receive
<1>8. ASSUME UNCHANGED uartVars
      PROVE  UNCHANGED <<txring, sent>>
  BY Zenon, <1>8 DEF uartVars
<1> QED
  BY Zenon, <1>1, <1>2, <1>3, <1>4, <1>5, <1>6, <1>7, <1>8 DEF UartNext, WriterStep, uartintr

\* uartinit: the ring is empty.
LEMMA TxStart ==
  UartInit => TxInv /\ TX!ChInit
<1> SUFFICES ASSUME UartInit PROVE TxInv /\ TX!ChInit
  BY Zenon
<1>1. PICK x \in Char : txbuf = [i \in 0..(TxSize - 1) |-> x] /\ sent = x
  BY Zenon DEF UartInit
<1>2. txr = 0 /\ txw = 0 /\ 0 \in 0..(TxSize - 1)
  BY TxWidth DEF UartInit
<1>3. TxInv
  BY Zenon, <1>1, <1>2, TxWidth DEF TxInv, Ring
<1>4. Cells(txbuf, txr, txw, TxSize, TxSize) = <<>>
  BY <1>2, <1>3, NoCells DEF TxInv
<1> QED
  BY Zenon, <1>1, <1>3, <1>4, TxContents DEF TX!ChInit

\* uart.c: the transmit ring is a FIFO, for every size of the ring, whichever of
\* uartputc and uartintr moves the bytes to the UART.
THEOREM TxRingIsFifo == UartSpec => TxFifo
<1>1. UartInit => TxInv /\ TX!ChInit
  BY TxStart
<1>2. TxInv /\ [UartNext]_uartVars => TxInv' /\ [TX!ChNext]_TX!chVars
  BY TxStep
<1> QED
  BY <1>1, <1>2, PTL DEF UartSpec, TxFifo, TX!ChSpec

-----------------------------------------------------------------------------
(* The input ring: between r and w what was entered, between w and e the line. *)

Cell == Byte \cup {"nul"}
Gap(a, b) == Ahead(a, b, UMod)
Part(d, a, b) == Cells(d, a, b, InputBuf, UMod)
InputRing(d, a, b) == Ring(d, a, b, InputBuf, UMod, Cell)

\* The counters come in their order, the ring is not overfull, and the line being
\* typed has no newline, so that ^U stops only at w.
Lines(d, a, b, c) ==
  /\ InputRing(d, a, b) /\ InputRing(d, a, c) /\ InputRing(d, b, c)
  /\ Gap(a, b) <= Gap(a, c) /\ Gap(a, c) <= InputBuf
  /\ \A k \in 1..Gap(b, c) : Part(d, b, c)[k] # "nl"

LEMMA InputWidth ==
  InputBuf \in Nat \ {0} /\ UMod \in Nat \ {0} /\ UMod > InputBuf /\ UMod % InputBuf = 0
BY ConsoleConstants

LEMMA Gaps ==
  ASSUME NEW d, NEW a, NEW b, NEW c, Lines(d, a, b, c)
  PROVE  /\ Gap(a, b) \in Nat /\ Gap(a, c) \in Nat /\ Gap(b, c) \in Nat
         /\ Gap(b, c) = Gap(a, c) - Gap(a, b)
         /\ a \in 0..(UMod - 1) /\ b \in 0..(UMod - 1) /\ c \in 0..(UMod - 1)
<1>1. InputRing(d, a, b) /\ InputRing(d, a, c) /\ InputRing(d, b, c)
  BY Zenon DEF Lines
<1>2. Gap(a, b) \in Nat /\ a \in 0..(UMod - 1) /\ b \in 0..(UMod - 1)
  BY <1>1, RingAhead DEF InputRing, Gap
<1>3. Gap(a, c) \in Nat /\ c \in 0..(UMod - 1)
  BY <1>1, RingAhead DEF InputRing, Gap
<1>4. Gap(b, c) \in Nat
  BY <1>1, RingAhead DEF InputRing, Gap
<1>5. Gap(b, c) = Gap(a, c) - Gap(a, b)
  <2>1. /\ UMod \in Nat \ {0} /\ a \in 0..(UMod - 1) /\ b \in 0..(UMod - 1) /\ c \in 0..(UMod - 1)
        /\ Ahead(a, b, UMod) <= Ahead(a, c, UMod)
    BY Zenon, <1>2, <1>3, InputWidth DEF Gap, Lines
  <2> QED
    BY <2>1, AheadRest DEF Gap
<1> QED
  BY Zenon, <1>2, <1>3, <1>4, <1>5

\* A key is typed into a ring with room.
LEMMA Typed ==
  ASSUME NEW d, NEW a, NEW b, NEW c, Lines(d, a, b, c), Gap(a, c) < InputBuf, NEW x \in Cell,
         NEW f, f = Store(d, c % InputBuf, x), NEW y, y = (c + 1) % UMod
  PROVE  /\ InputRing(f, a, b) /\ InputRing(f, a, y) /\ InputRing(f, b, y)
         /\ Gap(a, y) = Gap(a, c) + 1 /\ Gap(b, y) = Gap(b, c) + 1
         /\ Part(f, a, b) = Part(d, a, b)
         /\ Part(f, b, y) = Append(Part(d, b, c), x)
         /\ Part(f, a, y) = Part(d, a, b) \o Append(Part(d, b, c), x)
<1>0. /\ Gap(a, b) \in Nat /\ Gap(a, c) \in Nat /\ Gap(b, c) \in Nat
      /\ Gap(b, c) = Gap(a, c) - Gap(a, b)
  BY Gaps
<1>1. /\ InputRing(d, a, b) /\ InputRing(d, a, c) /\ InputRing(d, b, c)
      /\ Gap(a, b) <= Gap(a, c)
  BY Zenon DEF Lines
<1>2. Gap(a, c) + 1 < UMod /\ Gap(b, c) + 1 < UMod /\ Gap(b, c) < InputBuf
  BY <1>0, <1>1, InputWidth
<1>3. InputRing(f, a, y) /\ Gap(a, y) = Gap(a, c) + 1
  BY <1>1, <1>2, PutCells DEF InputRing, Gap
<1>4. /\ InputRing(f, b, y) /\ Gap(b, y) = Gap(b, c) + 1
      /\ Part(f, b, y) = Append(Part(d, b, c), x)
  BY <1>1, <1>2, PutCells DEF InputRing, Gap, Part
<1>5. Part(f, a, b) = Part(d, a, b)
  BY <1>1, KeepCells DEF InputRing, Gap, Part
<1>6. InputRing(f, a, b)
  BY Zenon, <1>1, <1>3 DEF InputRing, Ring
<1>7. Gap(a, b) <= Gap(a, y)
  BY <1>0, <1>1, <1>3
<1>8. Part(f, a, y) = Part(f, a, b) \o Part(f, b, y)
  <2>1. /\ Ring(f, a, b, InputBuf, UMod, Cell) /\ Ring(f, a, y, InputBuf, UMod, Cell)
        /\ Ahead(a, b, UMod) <= Ahead(a, y, UMod)
    BY Zenon, <1>3, <1>6, <1>7 DEF InputRing, Gap
  <2> QED
    BY <2>1, JoinCells DEF Part
<1> QED
  BY Zenon, <1>3, <1>4, <1>5, <1>6, <1>8

\* Unless it is a newline the line is longer by it; and it can be entered.
LEMMA TypedLines ==
  ASSUME NEW d, NEW a, NEW b, NEW c, Lines(d, a, b, c), Gap(a, c) < InputBuf, NEW x \in Cell,
         NEW f, f = Store(d, c % InputBuf, x), NEW y, y = (c + 1) % UMod
  PROVE  /\ x # "nl" => Lines(f, a, b, y)
         /\ Lines(f, a, y, y)
         /\ Part(f, y, y) = <<>>
<1>0. /\ Gap(a, b) \in Nat /\ Gap(a, c) \in Nat /\ Gap(b, c) \in Nat
      /\ Gap(b, c) = Gap(a, c) - Gap(a, b)
  BY Gaps
<1>1. /\ InputRing(f, a, b) /\ InputRing(f, a, y) /\ InputRing(f, b, y)
      /\ Gap(a, y) = Gap(a, c) + 1 /\ Gap(b, y) = Gap(b, c) + 1
      /\ Part(f, b, y) = Append(Part(d, b, c), x)
  BY Typed
<1>2. Gap(a, b) <= Gap(a, c)
  BY Zenon DEF Lines
<1>3. Gap(a, b) <= Gap(a, y) /\ Gap(a, y) <= InputBuf /\ Gap(a, y) <= Gap(a, y)
  BY <1>0, <1>1, <1>2, InputWidth
<1>4. InputRing(f, y, y)
  BY Zenon, <1>1 DEF InputRing, Ring
<1>5. Gap(y, y) = 0 /\ Part(f, y, y) = <<>>
  BY <1>4, NoCells DEF InputRing, Gap, Part
<1>6. Lines(f, a, y, y)
  <2>1. \A k \in 1..Gap(y, y) : FALSE
    BY <1>5
  <2> QED
    BY Zenon, <1>1, <1>3, <1>4, <2>1 DEF Lines
<1>7. ASSUME x # "nl"
      PROVE  Lines(f, a, b, y)
  <2>1. PICK m \in Nat : m = Gap(b, c)
    BY Zenon, <1>0
  <2>2. PICK q \in Seq(Cell) : q = Part(d, b, c) /\ Len(q) = m
    <3>1. Part(d, b, c) \in Seq(Cell) /\ Len(Part(d, b, c)) = Gap(b, c)
      BY CellsSeq DEF InputRing, Gap, Part, Lines
    <3> QED
      BY Zenon, <2>1, <3>1
  <2>3. \A k \in 1..m : q[k] # "nl"
    BY Zenon, <2>1, <2>2 DEF Lines
  <2>4. \A k \in 1..(m + 1) : Append(q, x)[k] # "nl"
    BY <1>7, <2>2, <2>3
  <2>5. \A k \in 1..Gap(b, y) : Part(f, b, y)[k] # "nl"
    BY Zenon, <1>1, <2>1, <2>2, <2>4
  <2> QED
    BY Zenon, <1>1, <1>3, <2>5 DEF Lines
<1> QED
  BY Zenon, <1>5, <1>6, <1>7

\* The last k bytes of the line are erased.
LEMMA Erased ==
  ASSUME NEW d, NEW a, NEW b, NEW c, Lines(d, a, b, c), NEW k \in 0..Gap(b, c),
         NEW y, y = (c + UMod - k) % UMod
  PROVE  /\ Lines(d, a, b, y) /\ Gap(b, y) = Gap(b, c) - k
         /\ Part(d, b, y) = SubSeq(Part(d, b, c), 1, Gap(b, c) - k)
<1>0. /\ Gap(a, b) \in Nat /\ Gap(a, c) \in Nat /\ Gap(b, c) \in Nat
      /\ Gap(b, c) = Gap(a, c) - Gap(a, b)
      /\ a \in 0..(UMod - 1) /\ b \in 0..(UMod - 1) /\ c \in 0..(UMod - 1)
  BY Gaps
<1>1. /\ InputRing(d, a, b) /\ InputRing(d, a, c) /\ InputRing(d, b, c)
      /\ Gap(a, b) <= Gap(a, c) /\ Gap(a, c) <= InputBuf
      /\ \A j \in 1..Gap(b, c) : Part(d, b, c)[j] # "nl"
  BY Zenon DEF Lines
<1>2. y \in 0..(UMod - 1) /\ Gap(b, y) = Gap(b, c) - k
  BY <1>0, InputWidth, AheadBack DEF Gap
<1>3. y \in 0..(UMod - 1) /\ Gap(a, y) = Gap(a, c) - k
  <2>1. k \in 0..Gap(a, c)
    BY <1>0
  <2> QED
    BY <1>0, <2>1, InputWidth, AheadBack DEF Gap
<1>4. InputRing(d, a, y) /\ InputRing(d, b, y)
  BY Zenon, <1>1, <1>2 DEF InputRing, Ring
<1>5. Gap(b, y) <= Gap(b, c) /\ Gap(a, b) <= Gap(a, y) /\ Gap(a, y) <= InputBuf
  BY <1>0, <1>1, <1>2, <1>3, InputWidth
<1>6. Part(d, b, y) = SubSeq(Part(d, b, c), 1, Gap(b, y))
  BY <1>1, <1>4, <1>5, PrefixCells DEF InputRing, Gap, Part
<1>7. \A j \in 1..Gap(b, y) : Part(d, b, y)[j] # "nl"
  <2> SUFFICES ASSUME NEW j \in 1..Gap(b, y) PROVE Part(d, b, y)[j] # "nl"
    BY Zenon
  <2>1. j \in 1..Gap(b, c)
    BY <1>0, <1>2
  <2>2. Part(d, b, y)[j] = d[(b + (j - 1)) % InputBuf]
    BY <1>4, CellsSeq DEF InputRing, Gap, Part
  <2>3. Part(d, b, c)[j] = d[(b + (j - 1)) % InputBuf]
    BY <1>1, <2>1, CellsSeq DEF InputRing, Gap, Part
  <2> QED
    BY Zenon, <1>1, <2>1, <2>2, <2>3
<1> QED
  BY Zenon, <1>1, <1>2, <1>4, <1>5, <1>6, <1>7 DEF Lines

\* A reader takes the first byte of what was entered.
LEMMA Taken ==
  ASSUME NEW d, NEW a, NEW b, NEW c, Lines(d, a, b, c), a # b, NEW y, y = (a + 1) % UMod
  PROVE  /\ Lines(d, y, b, c) /\ y # a
         /\ Part(d, a, b) # <<>> /\ Part(d, y, b) = Tail(Part(d, a, b))
<1>0. /\ Gap(a, b) \in Nat /\ Gap(a, c) \in Nat /\ Gap(b, c) \in Nat
      /\ Gap(b, c) = Gap(a, c) - Gap(a, b)
  BY Gaps
<1>1. /\ InputRing(d, a, b) /\ InputRing(d, a, c) /\ InputRing(d, b, c)
      /\ Gap(a, b) <= Gap(a, c) /\ Gap(a, c) <= InputBuf
      /\ \A j \in 1..Gap(b, c) : Part(d, b, c)[j] # "nl"
  BY Zenon DEF Lines
<1>2. /\ y \in 0..(UMod - 1) /\ y # a /\ Gap(y, b) = Gap(a, b) - 1
      /\ Part(d, a, b) # <<>> /\ Part(d, y, b) = Tail(Part(d, a, b))
  BY <1>1, GetCells DEF InputRing, Gap, Part
<1>3. a # c
  <2>1. Gap(a, b) # 0
    BY <1>1, NoCells DEF InputRing, Gap
  <2>2. Gap(a, c) # 0
    BY <1>0, <1>1, <2>1
  <2> QED
    BY <1>1, <2>2, NoCells DEF InputRing, Gap
<1>4. Gap(y, c) = Gap(a, c) - 1
  BY <1>1, <1>3, GetCells DEF InputRing, Gap
<1>5. InputRing(d, y, b) /\ InputRing(d, y, c)
  BY Zenon, <1>1, <1>2 DEF InputRing, Ring
<1>6. Gap(y, b) <= Gap(y, c) /\ Gap(y, c) <= InputBuf
  BY <1>0, <1>1, <1>2, <1>4, InputWidth
<1> QED
  BY Zenon, <1>1, <1>2, <1>5, <1>6 DEF Lines

\* Slice is Part: the counters wrap where the ring does.
SliceOf(d, a, b) == [k \in 1..Minus(b, a) |-> d[Plus(a, k - 1) % InputBuf]]

LEMMA SliceIsPart ==
  ASSUME NEW d, NEW a, NEW b, InputRing(d, a, b)
  PROVE  SliceOf(d, a, b) = Part(d, a, b)
<1>0. /\ a \in 0..(UMod - 1) /\ Ahead(a, b, UMod) \in 0..(UMod - 1) /\ UMod \in Nat \ {0}
  BY RingAhead DEF InputRing
<1>1. ASSUME NEW k \in 1..Ahead(a, b, UMod)
      PROVE  d[Plus(a, k - 1) % InputBuf] = d[(a + (k - 1)) % InputBuf]
  <2>1. k - 1 \in 0..(UMod - 1)
    BY <1>0, <1>1
  <2>2. PICK y : y = (a + (k - 1)) % UMod
    BY Zenon
  <2>3. y \in 0..(UMod - 1) /\ Ahead(a, y, UMod) = k - 1
    BY Zenon, <1>0, <2>1, <2>2, AheadPlus
  <2>4. Ring(d, a, y, InputBuf, UMod, Cell)
    BY Zenon, <2>3 DEF InputRing, Ring
  <2>5. (a + Ahead(a, y, UMod)) % InputBuf = y % InputBuf
    BY <2>4, AheadSlot
  <2> QED
    BY Zenon, <2>2, <2>3, <2>5 DEF Plus
<1>2. Minus(b, a) = Ahead(a, b, UMod)
  BY Zenon DEF Minus, Ahead
<1> QED
  BY Zenon, <1>1, <1>2 DEF SliceOf, Part, Cells

-----------------------------------------------------------------------------
(* The steps of the console. *)

Where == {"idle", "lock", "loop", "sleep"}

\* A reader still wants at most what it asked for.
Wants ==
  /\ pc \in [Reader -> Where] /\ n \in [Reader -> Nat] /\ target \in [Reader -> Nat]
  /\ ret \in [Reader -> Int]
  /\ \A p \in Reader : n[p] <= target[p]

CInv == Lines(buf, r, w, e) /\ Wants

\* What the line editor sees.
LEMMA Seen ==
  ASSUME Lines(buf, r, w, e)
  PROVE  /\ Slice(w, e) = Part(buf, w, e) /\ Slice(r, w) = Part(buf, r, w)
         /\ Slice(w, e) \in Seq(Cell) /\ Len(Slice(w, e)) = Gap(w, e)
         /\ Slice(r, w) \in Seq(Cell) /\ Len(Slice(r, w)) = Gap(r, w)
<1>1. InputRing(buf, r, w) /\ InputRing(buf, w, e)
  BY Zenon DEF Lines
<1>2. SliceOf(buf, w, e) = Part(buf, w, e) /\ SliceOf(buf, r, w) = Part(buf, r, w)
  BY <1>1, SliceIsPart
<1>3. Slice(w, e) = SliceOf(buf, w, e) /\ Slice(r, w) = SliceOf(buf, r, w)
  BY Zenon DEF Slice, SliceOf, At
<1>4. Part(buf, w, e) \in Seq(Cell) /\ Len(Part(buf, w, e)) = Gap(w, e)
  BY <1>1, CellsSeq DEF InputRing, Gap, Part
<1>5. Part(buf, r, w) \in Seq(Cell) /\ Len(Part(buf, r, w)) = Gap(r, w)
  BY <1>1, CellsSeq DEF InputRing, Gap, Part
<1> QED
  BY Zenon, <1>2, <1>3, <1>4, <1>5

LEMMA SeenNext ==
  ASSUME Lines(buf', r', w', e')
  PROVE  Slice(w, e)' = Part(buf', w', e') /\ Slice(r, w)' = Part(buf', r', w')
<1>1. InputRing(buf', r', w') /\ InputRing(buf', w', e')
  BY Zenon DEF Lines
<1>2. SliceOf(buf', w', e') = Part(buf', w', e') /\ SliceOf(buf', r', w') = Part(buf', r', w')
  BY <1>1, SliceIsPart
<1>3. Slice(w, e)' = SliceOf(buf', w', e') /\ Slice(r, w)' = SliceOf(buf', r', w')
  BY Zenon DEF Slice, SliceOf, At, Minus, Plus
<1> QED
  BY Zenon, <1>2, <1>3

\* consoleintr adds a byte, and enters the line if LineBuffer does.
LEMMA TypeStep ==
  ASSUME Lines(buf, r, w, e), NEW key \in Byte \cup {"cr"}, type(key)
  PROVE  Lines(buf', r', w', e') /\ LB!LbNext
<1> DEFINE c == IF key = "cr" THEN "nl" ELSE key
<1>1. c \in Byte /\ c \in Cell
  BY Zenon DEF Byte, Cell
<1>2. /\ Gap(r, e) < InputBuf /\ buf' = Store(buf, e % InputBuf, c) /\ e' = (e + 1) % UMod
      /\ r' = r
      /\ IF Enters(c) THEN w' = e' ELSE w' = w
  BY Zenon DEF type, Room, Minus, Gap, Ahead, Store, Plus
<1> HIDE DEF c
<1>3. /\ InputRing(buf', r, w) /\ InputRing(buf', r, e') /\ InputRing(buf', w, e')
      /\ Gap(r, e') = Gap(r, e) + 1 /\ Gap(w, e') = Gap(w, e) + 1
      /\ Part(buf', r, w) = Part(buf, r, w)
      /\ Part(buf', w, e') = Append(Part(buf, w, e), c)
      /\ Part(buf', r, e') = Part(buf, r, w) \o Append(Part(buf, w, e), c)
  <2>1. Gap(r, e) < InputBuf /\ buf' = Store(buf, e % InputBuf, c) /\ e' = (e + 1) % UMod
    BY Zenon, <1>2
  <2>2. PICK f : f = buf'
    BY Zenon
  <2>3. PICK y : y = e'
    BY Zenon
  <2>4. /\ InputRing(f, r, w) /\ InputRing(f, r, y) /\ InputRing(f, w, y)
        /\ Gap(r, y) = Gap(r, e) + 1 /\ Gap(w, y) = Gap(w, e) + 1
        /\ Part(f, r, w) = Part(buf, r, w)
        /\ Part(f, w, y) = Append(Part(buf, w, e), c)
        /\ Part(f, r, y) = Part(buf, r, w) \o Append(Part(buf, w, e), c)
    BY <1>1, <2>1, <2>2, <2>3, Typed
  <2> QED
    BY Zenon, <2>2, <2>3, <2>4
<1>4. /\ c # "nl" => Lines(buf', r, w, e')
      /\ Lines(buf', r, e', e') /\ Part(buf', e', e') = <<>>
  BY <1>1, <1>2, TypedLines
<1>5. /\ Gap(r, w) \in Nat /\ Gap(r, e) \in Nat /\ Gap(w, e) \in Nat
      /\ Gap(w, e) = Gap(r, e) - Gap(r, w) /\ r \in 0..(UMod - 1)
  BY Gaps
<1>6. /\ Slice(w, e) = Part(buf, w, e) /\ Slice(r, w) = Part(buf, r, w)
      /\ Slice(w, e) \in Seq(Cell) /\ Len(Slice(w, e)) = Gap(w, e)
      /\ Slice(r, w) \in Seq(Cell) /\ Len(Slice(r, w)) = Gap(r, w)
  BY Seen
<1>7. Len(Slice(w, e)) + Len(Slice(r, w)) < InputBuf
  BY <1>2, <1>5, <1>6
<1>8. Len(Append(Slice(w, e), c)) = Len(Slice(w, e)) + 1
  BY <1>1, <1>6
<1>9. Enters(c) <=> c \in {"nl", "eof"} \/ Len(Append(Slice(w, e), c)) + Len(Slice(r, w)) = InputBuf
  <2>1. e' \in 0..(UMod - 1)
    BY <1>3, RingAhead DEF InputRing
  <2>2. InputBuf \in 0..(UMod - 1)
    BY InputWidth
  <2>3. PICK y : y = (r + InputBuf) % UMod
    BY Zenon
  <2>4. y \in 0..(UMod - 1) /\ Ahead(r, y, UMod) = InputBuf
    <3>1. UMod \in Nat \ {0} /\ r \in 0..(UMod - 1)
      BY Zenon, <1>5, InputWidth
    <3>2. /\ (r + InputBuf) % UMod \in 0..(UMod - 1)
          /\ Ahead(r, (r + InputBuf) % UMod, UMod) = InputBuf
      BY Zenon, <2>2, <3>1, AheadPlus
    <3> QED
      BY Zenon, <2>3, <3>2
  <2>5. e' = y <=> Gap(r, e') = InputBuf
    <3>1. e' = y => Gap(r, e') = InputBuf
      BY Zenon, <2>4 DEF Gap
    <3>2. Gap(r, e') = InputBuf => e' = y
      BY Zenon, <1>5, <2>1, <2>4, InputWidth, AheadSame DEF Gap
    <3> QED
      BY Zenon, <3>1, <3>2
  <2>6. Len(Append(Slice(w, e), c)) + Len(Slice(r, w)) = Gap(r, e')
    BY <1>3, <1>5, <1>6, <1>8
  <2> QED
    BY Zenon, <1>2, <2>3, <2>5, <2>6 DEF Enters, Plus
<1>10. CASE Enters(c)
  <2>1. w' = e' /\ Lines(buf', r', w', e')
    BY Zenon, <1>2, <1>4, <1>10
  <2>2. Slice(w, e)' = <<>> /\ Slice(r, w)' = Slice(r, w) \o Append(Slice(w, e), c)
    BY Zenon, <1>2, <1>3, <1>4, <1>6, <2>1, SeenNext
  <2>3. LB!Type(c)
    BY Zenon, <1>7, <1>9, <1>10, <2>2 DEF LB!Type
  <2> QED
    BY Zenon, <1>1, <2>1, <2>3 DEF LB!LbNext
<1>11. CASE ~Enters(c)
  <2>1. w' = w /\ c # "nl" /\ Lines(buf', r', w', e')
    BY Zenon, <1>2, <1>4, <1>9, <1>11
  <2>2. Slice(w, e)' = Append(Slice(w, e), c) /\ Slice(r, w)' = Slice(r, w)
    BY Zenon, <1>2, <1>3, <1>6, <2>1, SeenNext
  <2>3. LB!Type(c)
    BY Zenon, <1>7, <1>9, <1>11, <2>2 DEF LB!Type
  <2> QED
    BY Zenon, <1>1, <2>1, <2>3 DEF LB!LbNext
<1> QED
  BY Zenon, <1>10, <1>11

\* Backspace takes the last byte of the line.
LEMMA BackspaceStep ==
  ASSUME Lines(buf, r, w, e), backspace
  PROVE  Lines(buf', r', w', e') /\ LB!LbNext
<1>1. e # w /\ e' = (e + UMod - 1) % UMod /\ UNCHANGED <<buf, r, w>>
  BY Zenon DEF backspace, MayErase, Minus
<1>2. Gap(w, e) \in Nat /\ Gap(w, e) # 0
  <2>1. InputRing(buf, w, e)
    BY Zenon DEF Lines
  <2>2. Gap(w, e) # 0
    BY <1>1, <2>1, NoCells DEF InputRing, Gap
  <2> QED
    BY <2>2, Gaps
<1>3. 1 \in 0..Gap(w, e)
  BY <1>2
<1>4. /\ Lines(buf, r, w, e')
      /\ Part(buf, w, e') = SubSeq(Part(buf, w, e), 1, Gap(w, e) - 1)
  BY <1>1, <1>3, Erased
<1>5. /\ Slice(w, e) = Part(buf, w, e) /\ Slice(r, w) = Part(buf, r, w)
      /\ Slice(w, e) \in Seq(Cell) /\ Len(Slice(w, e)) = Gap(w, e)
  BY Seen
<1>6. Slice(w, e) # <<>>
  BY <1>2, <1>5
<1>7. Lines(buf', r', w', e')
  BY Zenon, <1>1, <1>4
<1>8. Slice(w, e)' = SubSeq(Slice(w, e), 1, Len(Slice(w, e)) - 1) /\ Slice(r, w)' = Slice(r, w)
  BY Zenon, <1>1, <1>4, <1>5, <1>7, SeenNext
<1>9. LB!Rubout
  BY Zenon, <1>6, <1>8 DEF LB!Rubout
<1> QED
  BY Zenon, <1>7, <1>9 DEF LB!LbNext

\* ^U erases the whole line: nothing in it stops the loop.
LEMMA KillLineStep ==
  ASSUME Lines(buf, r, w, e), kill_line
  PROVE  Lines(buf', r', w', e') /\ [LB!LbNext]_LB!lbVars
<1>0. /\ Gap(w, e) \in Nat /\ w \in 0..(UMod - 1) /\ e \in 0..(UMod - 1)
      /\ InputRing(buf, w, e) /\ \A k \in 1..Gap(w, e) : Part(buf, w, e)[k] # "nl"
  <2>1. Gap(w, e) \in Nat /\ w \in 0..(UMod - 1) /\ e \in 0..(UMod - 1)
    BY Gaps
  <2> QED
    BY Zenon, <2>1 DEF Lines
<1>1. Minus(e, w) = Gap(w, e)
  BY Zenon DEF Minus, Gap, Ahead
<1>2. Gap(w, e) \in Erasable
  <2>1. ASSUME NEW j \in 1..Gap(w, e)
        PROVE  At(Minus(e, j)) # "nl"
    <3>1. PICK m \in Nat : m = Gap(w, e) /\ j \in 1..m
      BY Zenon, <1>0, <2>1
    <3>2. PICK k \in 1..m : k = (m - j) + 1 /\ k - 1 = m - j
      <4>1. (m - j) + 1 \in 1..m /\ ((m - j) + 1) - 1 = m - j
        BY <3>1
      <4> QED
        BY Zenon, <4>1
    <3>3. PICK y : y = (e + UMod - j) % UMod
      BY Zenon
    <3>4. y \in 0..(UMod - 1) /\ Ahead(w, y, UMod) = m - j
      <4>1. j \in 0..Ahead(w, e, UMod) /\ Ahead(w, e, UMod) = m
        BY <3>1 DEF Gap
      <4>2. UMod \in Nat \ {0}
        BY Zenon, InputWidth
      <4>3. /\ (e + UMod - j) % UMod \in 0..(UMod - 1)
            /\ Ahead(w, (e + UMod - j) % UMod, UMod) = Ahead(w, e, UMod) - j
        BY Zenon, <1>0, <4>1, <4>2, AheadBack
      <4> QED
        BY Zenon, <3>3, <4>1, <4>3
    <3>5. Ring(buf, w, y, InputBuf, UMod, Cell)
      BY Zenon, <1>0, <3>4 DEF InputRing, Ring
    <3>6. (w + Ahead(w, y, UMod)) % InputBuf = y % InputBuf
      BY <3>5, AheadSlot
    <3>7. Part(buf, w, e)[k] = buf[(w + (k - 1)) % InputBuf]
      BY <1>0, <3>1, CellsSeq DEF InputRing, Gap, Part
    <3>8. At(Minus(e, j)) = buf[y % InputBuf]
      BY Zenon, <3>3 DEF At, Minus
    <3> QED
      BY Zenon, <1>0, <3>1, <3>2, <3>4, <3>6, <3>7, <3>8
  <2>2. Gap(w, e) \in 0..Gap(w, e)
    BY <1>0
  <2> QED
    BY Zenon, <1>1, <2>1, <2>2 DEF Erasable
<1>3. PICK k \in Erasable : (\A j \in Erasable : j <= k) /\ e' = Minus(e, k)
  BY Zenon DEF kill_line
<1>4. k \in 0..Gap(w, e) /\ Gap(w, e) <= k
  BY Zenon, <1>1, <1>2, <1>3 DEF Erasable
<1>5. UNCHANGED <<buf, r, w>> /\ e' = (e + UMod - k) % UMod
  BY Zenon, <1>3 DEF kill_line, Minus
<1>6. /\ Lines(buf, r, w, e') /\ Gap(w, e') = Gap(w, e) - k
  BY <1>4, <1>5, Erased
<1>7. Gap(w, e') = 0
  BY <1>0, <1>4, <1>6
<1>8. Lines(buf', r', w', e')
  BY Zenon, <1>5, <1>6
<1>9. Part(buf, w, e') = <<>>
  <2>1. InputRing(buf, w, e')
    BY Zenon, <1>6 DEF Lines
  <2> QED
    BY <1>7, <2>1, NoCells DEF InputRing, Gap, Part
<1>10. Slice(w, e)' = <<>> /\ Slice(r, w)' = Slice(r, w)
  BY Zenon, <1>5, <1>8, <1>9, Seen, SeenNext
<1>11. CASE Slice(w, e) = <<>>
  BY Zenon, <1>8, <1>10, <1>11 DEF LB!lbVars
<1>12. CASE Slice(w, e) # <<>>
  BY Zenon, <1>8, <1>10, <1>12 DEF LB!LbNext, LB!Clear
<1> QED
  BY Zenon, <1>11, <1>12

LEMMA TakenNow ==
  ASSUME Lines(buf, r, w, e), r # w, NEW y, y = (r + 1) % UMod
  PROVE  /\ Lines(buf, y, w, e) /\ y # r
         /\ Part(buf, r, w) # <<>> /\ Part(buf, y, w) = Tail(Part(buf, r, w))
<1>1. \A b, c : Lines(buf, r, b, c) /\ r # b =>
        /\ Lines(buf, y, b, c) /\ y # r
        /\ Part(buf, r, b) # <<>> /\ Part(buf, y, b) = Tail(Part(buf, r, b))
  BY Taken
<1> QED
  BY Zenon, <1>1

\* consoleread takes one byte: the oldest one that was entered.
LEMMA TakeStep ==
  ASSUME Lines(buf, r, w, e), r # w, r' = Plus(r, 1), UNCHANGED <<buf, w, e>>
  PROVE  Lines(buf', r', w', e') /\ LB!Take /\ r' # r
<1>1. r' = (r + 1) % UMod
  BY Zenon DEF Plus
<1>2. /\ Lines(buf, r', w, e) /\ r' # r
      /\ Part(buf, r, w) # <<>> /\ Part(buf, r', w) = Tail(Part(buf, r, w))
  BY Zenon, <1>1, TakenNow
<1>3. Lines(buf', r', w', e')
  BY Zenon, <1>2
<1>4. Slice(w, e)' = Part(buf', w', e') /\ Slice(r, w)' = Part(buf', r', w')
  BY Zenon, <1>3, SeenNext
<1>5. Slice(w, e) = Part(buf, w, e) /\ Slice(r, w) = Part(buf, r, w)
  BY Zenon, Seen
<1> QED
  BY Zenon, <1>2, <1>3, <1>4, <1>5 DEF LB!Take

\* A step that leaves the ring alone.
LEMMA QuietStep ==
  ASSUME Lines(buf, r, w, e), UNCHANGED <<buf, r, w, e>>
  PROVE  Lines(buf', r', w', e') /\ UNCHANGED LB!lbVars
<1>1. Lines(buf', r', w', e')
  BY Zenon
<1>2. Slice(w, e)' = Slice(w, e) /\ Slice(r, w)' = Slice(r, w)
  BY Zenon, <1>1, Seen, SeenNext
<1> QED
  BY Zenon, <1>1, <1>2 DEF LB!lbVars

\* Nobody returns in this step.
Stays == \A q \in Reader : pc[q] = "loop" => pc'[q] # "idle"

\* A step in which no read returns.
LEMMA StaysReadsNothing ==
  ASSUME Stays
  PROVE  EofReadsZero
BY Zenon DEF Stays, EofReadsZero

\* The interrupt handler wakes readers.
LEMMA HandlerWants ==
  ASSUME Wants, Handler
  PROVE  Wants' /\ Stays
<1>1. UNCHANGED <<n, target, ret>> /\ (pc' = pc \/ pc' = WakeReaders(pc))
  BY Zenon DEF Handler, type, backspace, kill_line
<1>2. /\ WakeReaders(pc) \in [Reader -> Where]
      /\ \A q \in Reader : pc[q] = "loop" => WakeReaders(pc)[q] = "loop"
  BY Zenon DEF Wants, WakeReaders, Where
<1> QED
  BY Zenon, <1>1, <1>2 DEF Wants, Stays

LEMMA OthersWants ==
  ASSUME Wants, NEW p \in Reader, read(p) \/ acquire(p) \/ read_sleep(p) \/ kill(p)
  PROVE  Wants' /\ Stays
<1>1. PICK l \in Where : (pc' = [pc EXCEPT ![p] = l] /\ l # "idle") \/ pc' = pc
  <2>1. pc[p] \in Where /\ "lock" \in Where /\ "loop" \in Where /\ "sleep" \in Where
    BY Zenon DEF Wants, Where
  <2>2. CASE kill(p)
    <3>1. CASE pc[p] = "sleep"
      BY Zenon, <2>1, <2>2, <3>1 DEF kill
    <3>2. CASE pc[p] # "sleep"
      <4>1. pc' = [pc EXCEPT ![p] = pc[p]]
        BY Zenon, <2>2, <3>2 DEF kill
      <4>2. pc' = pc
        BY Zenon, <4>1 DEF Wants
      <4> QED
        BY Zenon, <2>1, <4>2
    <3> QED
      BY Zenon, <3>1, <3>2
  <2> QED
    BY Zenon, <2>1, <2>2 DEF read, acquire, read_sleep
<1>2. pc' \in [Reader -> Where] /\ Stays
  BY Zenon, <1>1 DEF Wants, Stays
<1>3. /\ n' \in [Reader -> Nat] /\ target' \in [Reader -> Nat]
      /\ \A q \in Reader : n'[q] <= target'[q]
  <2>1. CASE read(p)
    <3>1. PICK k \in 1..MaxN : n' = [n EXCEPT ![p] = k] /\ target' = [target EXCEPT ![p] = k]
      BY Zenon, <2>1 DEF read
    <3>2. k \in Nat /\ k <= k
      BY <3>1, ConsoleConstants
    <3> QED
      BY Zenon, <3>1, <3>2 DEF Wants
  <2>2. CASE ~read(p)
    <3>1. UNCHANGED <<n, target>>
      BY Zenon, <2>2 DEF acquire, read_sleep, kill
    <3> QED
      BY Zenon, <3>1 DEF Wants
  <2> QED
    BY Zenon, <2>1, <2>2
<1>4. ret' = ret
  BY Zenon DEF read, acquire, read_sleep, kill
<1> QED
  BY Zenon, <1>2, <1>3, <1>4 DEF Wants

\* A read that returns leaves the other readers where they are.
LEMMA ReturnWants ==
  ASSUME Wants, NEW p \in Reader, NEW v \in Int, Return(p, v)
  PROVE  Wants' /\ ret'[p] = v /\ \A q \in Reader \ {p} : pc'[q] = pc[q]
<1>1. 0 \in Nat /\ 0 <= 0 /\ "idle" \in Where
  BY DEF Where
<1>2. n' \in [Reader -> Nat] /\ target' \in [Reader -> Nat] /\ ret' \in [Reader -> Int]
      /\ pc' \in [Reader -> Where]
  BY Zenon, <1>1 DEF Wants, Return
<1>3. \A q \in Reader : n'[q] <= target'[q]
  BY Zenon, <1>1 DEF Wants, Return
<1> QED
  BY Zenon, <1>2, <1>3 DEF Wants, Return

\* What a read that takes bytes does to the ring and returns.
LEMMA ReadStep ==
  ASSUME CInv, NEW p \in Reader,
         read_killed(p) \/ read_eof(p) \/ read_byte(p) \/ read_copyout_fails(p)
  PROVE  CInv' /\ [LB!LbNext]_LB!lbVars /\ EofReadsZero
<1>0. Lines(buf, r, w, e) /\ Wants
  BY Zenon DEF CInv
<1>1. PICK x \in Nat : x = n[p]
  BY Zenon, <1>0 DEF Wants
<1>2. PICK y \in Nat : y = target[p] /\ x <= y
  BY Zenon, <1>0, <1>1 DEF Wants
<1>3. /\ -1 \in Int /\ -1 # 0 /\ y - x \in Int /\ (y - x) + 1 \in Int /\ (y - x) + 1 # 0
      /\ x < y => y - x # 0
      /\ ~(x < y) => y - x = 0
  BY <1>2
<1>4. target[p] - n[p] + 1 = (y - x) + 1 /\ target[p] - n[p] = y - x
  BY Zenon, <1>1, <1>2
\* With the bytes the step takes and the value it returns.
<1>5. ASSUME NEW v \in Int, Return(p, v), UNCHANGED <<buf, w, e>>,
             r' = r \/ (r # w /\ r' = Plus(r, 1)),
             (r' # r /\ At(r) = "eof") => v = 0, v = 0 => r' # r
      PROVE  CInv' /\ [LB!LbNext]_LB!lbVars /\ EofReadsZero
  <2>1. Wants' /\ ret'[p] = v /\ \A q \in Reader \ {p} : pc'[q] = pc[q]
    BY Zenon, <1>0, <1>5, ReturnWants
  <2>2. EofReadsZero
    BY Zenon, <1>5, <2>1 DEF EofReadsZero
  <2>3. CASE r' = r
    BY Zenon, <1>0, <1>5, <2>1, <2>2, <2>3, QuietStep DEF CInv
  <2>4. CASE r # w /\ r' = Plus(r, 1)
    BY Zenon, <1>0, <1>5, <2>1, <2>2, <2>4, TakeStep DEF CInv, LB!LbNext
  <2> QED
    BY Zenon, <1>5, <2>3, <2>4
<1>6. CASE read_killed(p)
  <2>1. Return(p, -1) /\ UNCHANGED <<buf, r, w, e>>
    BY Zenon, <1>6 DEF read_killed, ring
  <2> QED
    BY Zenon, <1>3, <1>5, <2>1
<1>7. CASE read_eof(p)
  <2>1. /\ Return(p, y - x) /\ UNCHANGED <<buf, w, e>> /\ r # w
        /\ IF x < y THEN r' = r ELSE r' = Plus(r, 1)
    BY Zenon, <1>1, <1>2, <1>7 DEF read_eof, PutBack
  <2>2. CASE x < y
    BY Zenon, <1>3, <1>5, <2>1, <2>2
  <2>3. CASE ~(x < y)
    <3>1. r' # r
      BY Zenon, <1>0, <2>1, <2>3, TakeStep
    <3> QED
      BY Zenon, <1>3, <1>5, <2>1, <2>3, <3>1
  <2> QED
    BY Zenon, <2>2, <2>3
<1>8. CASE read_copyout_fails(p)
  <2>1. /\ Return(p, y - x) /\ UNCHANGED <<buf, w, e>> /\ r # w /\ r' = Plus(r, 1)
        /\ At(r) # "eof"
    BY Zenon, <1>1, <1>2, <1>8 DEF read_copyout_fails
  <2>2. r' # r
    BY Zenon, <1>0, <2>1, TakeStep
  <2> QED
    BY Zenon, <1>3, <1>5, <2>1, <2>2
<1>9. CASE read_byte(p)
  <2>1. /\ UNCHANGED <<buf, w, e>> /\ r # w /\ r' = Plus(r, 1) /\ At(r) # "eof" /\ x > 0
        /\ \/ Return(p, (y - x) + 1)
           \/ n' = [n EXCEPT ![p] = x - 1] /\ UNCHANGED <<ret, pc, target>>
    BY Zenon, <1>1, <1>4, <1>9 DEF read_byte
  <2>2. Lines(buf', r', w', e') /\ LB!LbNext /\ r' # r
    BY Zenon, <1>0, <2>1, TakeStep DEF LB!LbNext
  <2>3. CASE Return(p, (y - x) + 1)
    BY Zenon, <1>3, <1>5, <2>1, <2>2, <2>3
  <2>4. CASE n' = [n EXCEPT ![p] = x - 1] /\ UNCHANGED <<ret, pc, target>>
    <3>1. x - 1 \in Nat /\ x - 1 <= y
      BY <1>2, <2>1
    <3>2. Wants'
      BY Zenon, <1>0, <1>2, <2>4, <3>1 DEF Wants
    <3>3. EofReadsZero
      BY Zenon, <2>4 DEF EofReadsZero
    <3> QED
      BY Zenon, <2>2, <3>2, <3>3 DEF CInv
  <2> QED
    BY Zenon, <2>1, <2>3, <2>4
<1> QED
  BY Zenon, <1>6, <1>7, <1>8, <1>9

\* Every step keeps the invariant, is a step of the line editor or none, and treats ^D right.
LEMMA ConsoleStep ==
  ASSUME CInv, [Next]_vars
  PROVE  CInv' /\ [LB!LbNext]_LB!lbVars /\ [EofReadsZero]_vars
<1>0. Lines(buf, r, w, e) /\ Wants
  BY Zenon DEF CInv
<1>1. CASE Handler
  <2>1. Wants' /\ EofReadsZero
    BY Zenon, <1>0, <1>1, HandlerWants, StaysReadsNothing
  <2>2. Lines(buf', r', w', e') /\ [LB!LbNext]_LB!lbVars
    BY Zenon, <1>0, <1>1, TypeStep, BackspaceStep, KillLineStep DEF Handler
  <2> QED
    BY Zenon, <2>1, <2>2 DEF CInv
<1>2. ASSUME NEW p \in Reader, read(p) \/ acquire(p) \/ read_sleep(p) \/ kill(p)
      PROVE  CInv' /\ [LB!LbNext]_LB!lbVars /\ EofReadsZero
  <2>1. Wants' /\ EofReadsZero
    BY Zenon, <1>0, <1>2, OthersWants, StaysReadsNothing
  <2>2. UNCHANGED <<buf, r, w, e>>
    BY Zenon, <1>2 DEF read, acquire, read_sleep, kill, ring
  <2> QED
    BY Zenon, <1>0, <2>1, <2>2, QuietStep DEF CInv
<1>3. CASE UNCHANGED vars
  <2>1. UNCHANGED <<buf, r, w, e>> /\ UNCHANGED <<pc, n, target, ret>>
    BY Zenon, <1>3 DEF vars, ring
  <2>2. Wants'
    BY Zenon, <1>0, <2>1 DEF Wants
  <2> QED
    BY Zenon, <1>0, <1>3, <2>1, <2>2, QuietStep DEF CInv
<1>4. ASSUME NEW p \in Reader, Step(p)
      PROVE  CInv' /\ [LB!LbNext]_LB!lbVars /\ EofReadsZero
  BY Zenon, <1>2, <1>4, ReadStep DEF Step
<1> QED
  BY Zenon, <1>1, <1>2, <1>3, <1>4 DEF Next

\* consoleinit: both parts of the ring are empty.
LEMMA ConsoleStart ==
  Init => CInv /\ LB!LbInit
<1> SUFFICES ASSUME Init PROVE CInv /\ LB!LbInit
  BY Zenon
<1>1. buf = [i \in 0..(InputBuf - 1) |-> "nul"] /\ r = 0 /\ w = 0 /\ e = 0
  BY Zenon DEF Init
<1>2. 0 \in 0..(UMod - 1) /\ 0 \in Nat /\ 0 \in Int /\ 0 <= 0 /\ 0 <= InputBuf
      /\ "nul" \in Cell /\ "idle" \in Where
  BY InputWidth DEF Cell, Where
<1>3. InputRing(buf, r, w) /\ InputRing(buf, r, e) /\ InputRing(buf, w, e)
  BY Zenon, <1>1, <1>2, InputWidth DEF InputRing, Ring
<1>4. Gap(0, 0) = 0 /\ Part(buf, 0, 0) = <<>>
  BY <1>1, <1>3, NoCells DEF InputRing, Gap, Part
<1>5. \A k \in 1..Gap(0, 0) : FALSE
  BY <1>4
<1>6. Lines(buf, r, w, e)
  BY Zenon, <1>1, <1>2, <1>3, <1>4, <1>5 DEF Lines
<1>7. Wants
  BY Zenon, <1>2 DEF Init, Wants
<1>8. Slice(w, e) = Part(buf, w, e) /\ Slice(r, w) = Part(buf, r, w)
  BY Zenon, <1>6, Seen
<1> QED
  BY Zenon, <1>1, <1>4, <1>6, <1>7, <1>8 DEF CInv, LB!LbInit

\* console.c: the input ring implements the line editor, for every ring size and
\* width of the counters, and ^D is kept for a read that returns 0.
THEOREM InputRingIsLineEditor == Spec => LineDiscipline
<1>1. Init => CInv /\ LB!LbInit
  BY ConsoleStart
<1>2. CInv /\ [Next]_vars => CInv' /\ [LB!LbNext]_LB!lbVars /\ [EofReadsZero]_vars
  BY ConsoleStep
<1> QED
  BY <1>1, <1>2, PTL DEF Spec, LineDiscipline, LB!LbSpec
=============================================================================
