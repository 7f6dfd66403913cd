---------------------------- MODULE VirtioProofs ----------------------------
(***************************************************************************)
(* Proofs about the disk driver: the queue of descriptors and its two rings *)
(* stay sound, and a request returns only when the device has carried it    *)
(* out, for any number of descriptors and processes.                        *)
(***************************************************************************)
EXTENDS Virtio, FiniteSetTheorems, TLAPS

-----------------------------------------------------------------------------
(* The inductive invariant. *)

\* The slots of a ring from x up to y, and the slot after i.
Between(x, y) == {i \in Desc : IF x <= y THEN x <= i /\ i < y ELSE x <= i \/ i < y}
Succ(i) == IF i = NUM - 1 THEN 0 ELSE i + 1

Typed ==
  /\ free \in SUBSET Desc /\ next \in [Desc -> Desc \cup {None}]
  /\ info \in [Desc -> Caller \cup {None}]
  /\ avail \in [Desc -> Desc] /\ used \in [Desc -> Desc]
  /\ busy \in [Caller -> BOOLEAN] /\ pc \in [Caller -> Labels]
  /\ head \in [Caller -> Desc \cup {None}] /\ taken \in SUBSET Desc

\* The counters of the avail ring are close enough together to be told apart
\* by their slots.
Distance(x, y) == IF x <= y THEN y - x ELSE y + UMod - x
Ahead(i, n) == IF i + n < NUM THEN i + n ELSE i + n - NUM
Lag == Distance(devIdx, availIdx)
Counters ==
  /\ availIdx \in 0..(UMod - 1) /\ devIdx \in 0..(UMod - 1)
  /\ usedId \in 0..(UMod - 1) /\ usedIdx \in Desc
  /\ Lag < NUM /\ availIdx % NUM = Ahead(devIdx % NUM, Lag)

\* A request in progress has three descriptors, and the first leads back to it.
Second(p) == next[head[p]]
Third(p) == next[next[head[p]]]
Chained == \A p \in Submitted :
  /\ head[p] \in Desc /\ Second(p) \in Desc /\ Third(p) \in Desc
  /\ head[p] # Second(p) /\ head[p] # Third(p) /\ Second(p) # Third(p)
  /\ next[Third(p)] = None /\ info[head[p]] = p

\* The free descriptors and the chains make up the queue.
Owned(p) == {head[p], Second(p), Third(p)}
Divided ==
  /\ free = Desc \ UNION {Owned(p) : p \in Submitted}
  /\ \A p, q \in Submitted : p # q => Owned(p) \cap Owned(q) = {}

\* Where the requests are: given to the device, in its hands, or carried out.
Busy(p) == p \in Submitted /\ busy[p]
Waiting == Between(devIdx % NUM, availIdx % NUM)
Reported == Between(usedIdx, usedId % NUM)
InDevice(d) == \E p \in Caller : Busy(p) /\ p \notin done /\ head[p] = d
Located ==
  /\ \A i \in Waiting : InDevice(avail[i]) /\ avail[i] \notin taken
  /\ \A i, j \in Waiting : avail[i] = avail[j] => i = j
  /\ \A d \in taken : InDevice(d)
  /\ \A i \in Reported : \E p \in done : Busy(p) /\ head[p] = used[i]
  /\ \A i, j \in Reported : used[i] = used[j] => i = j
  /\ \A p \in done : Busy(p) => \E i \in Reported : used[i] = head[p]

\* A process without a request is not busy; one whose request is over has it done.
Settled ==
  /\ \A p \in Caller : p \notin Submitted => head[p] = None /\ ~busy[p]
  /\ \A p \in Submitted : busy[p] \/ p \in done
  /\ done \subseteq Caller /\ ~panicked

Ind == Typed /\ Counters /\ Chained /\ Divided /\ Located /\ Settled

-----------------------------------------------------------------------------
(* Counters and slots. *)

LEMMA Division ==
  ASSUME NEW n \in Nat, n > 2, NEW x \in Nat
  PROVE  /\ x % n \in 0..(n - 1) /\ x \div n \in Nat
         /\ x = n * (x \div n) + (x % n)
  OBVIOUS

LEMMA Remainder ==
  ASSUME NEW n \in Nat, n > 2, NEW q \in Nat, NEW r \in 0..(n - 1)
  PROVE  (n * q + r) % n = r
  OBVIOUS

\* A 16 bit counter and its slot go on together, across the wrap of both.
LEMMA NextSlot ==
  ASSUME VirtioConstants, NEW x \in 0..(UMod - 1)
  PROVE  /\ x % NUM \in Desc
         /\ (x + 1) % UMod = IF x = UMod - 1 THEN 0 ELSE x + 1
         /\ (x + 1) % UMod \in 0..(UMod - 1)
         /\ ((x + 1) % UMod) % NUM = Succ(x % NUM)
<1>1. NUM \in Nat /\ NUM > 2 /\ UMod \in Nat /\ UMod > NUM /\ UMod % NUM = 0 /\ x \in Nat
  BY DEF VirtioConstants
<1> DEFINE q == x \div NUM
           r == x % NUM
<1>2. r \in 0..(NUM - 1) /\ q \in Nat /\ x = NUM * q + r
  BY Zenon, <1>1, Division
<1> HIDE DEF q, r
<1>3. (x + 1) % UMod = IF x = UMod - 1 THEN 0 ELSE x + 1
  BY <1>1
<1>4. (x + 1) % UMod \in 0..(UMod - 1)
  BY <1>1, <1>3
<1>5. (x + 1) % NUM = Succ(r)
  <2>1. CASE r = NUM - 1
    <3>1. x + 1 = NUM * (q + 1) + 0
      BY <1>1, <1>2, <2>1
    <3>2. q + 1 \in Nat /\ 0 \in 0..(NUM - 1)
      BY <1>1, <1>2
    <3>3. (NUM * (q + 1) + 0) % NUM = 0
      BY Zenon, <1>1, <3>2, Remainder
    <3> QED
      BY Zenon, <3>1, <3>3, <2>1 DEF Succ
  <2>2. CASE r # NUM - 1
    <3>1. x + 1 = NUM * q + (r + 1) /\ r + 1 \in 0..(NUM - 1)
      BY <1>1, <1>2, <2>2
    <3>2. (NUM * q + (r + 1)) % NUM = r + 1
      BY Zenon, <1>1, <1>2, <3>1, Remainder
    <3> QED
      BY Zenon, <3>1, <3>2, <2>2 DEF Succ
  <2> QED
    BY Zenon, <2>1, <2>2
<1>6. ASSUME x = UMod - 1 PROVE 0 % NUM = Succ(r)
  <2>1. 0 % NUM = 0 /\ x + 1 = UMod
    BY <1>1, <1>6
  <2> QED
    BY Zenon, <2>1, <1>1, <1>5
<1> QED
  BY Zenon, <1>2, <1>3, <1>4, <1>5, <1>6 DEF r, Desc

LEMMA SlotFacts ==
  ASSUME VirtioConstants, NEW x \in Desc, NEW y \in Desc
  PROVE  /\ Succ(x) \in Desc /\ x % NUM = x /\ NextUsed(x) = Succ(x) /\ None \notin Desc
         /\ x # y => x \in Between(x, y)
         /\ Between(x, x) = {}
         /\ y \notin Between(x, y)
         /\ Between(x, y) \subseteq Desc
<1>1. NUM \in Nat /\ NUM > 2
  BY Zenon DEF VirtioConstants
<1>2. Succ(x) \in Desc /\ x % NUM = x /\ None \notin Desc
  BY <1>1 DEF Desc, Succ, None
<1>3. NextUsed(x) = Succ(x)
  BY <1>1 DEF Desc, Succ, NextUsed
<1>4. x # y => x \in Between(x, y)
  BY <1>1 DEF Desc, Between
<1>5. Between(x, x) = {} /\ y \notin Between(x, y)
  BY <1>1 DEF Desc, Between
<1>6. Between(x, y) \subseteq Desc
  BY Zenon DEF Between
<1> QED
  BY Zenon, <1>2, <1>3, <1>4, <1>5, <1>6

\* A ring takes one more entry at its end, and loses one at its start.
LEMMA RingGrows ==
  ASSUME VirtioConstants, NEW x \in Desc, NEW y \in Desc, Succ(y) # x, NEW i \in Desc
  PROVE  i \in Between(x, Succ(y)) <=> i \in Between(x, y) \/ i = y
<1>1. NUM \in Nat /\ NUM > 2
  BY Zenon DEF VirtioConstants
<1> QED
  BY <1>1 DEF Desc, Between, Succ

LEMMA RingShrinks ==
  ASSUME VirtioConstants, NEW x \in Desc, NEW y \in Desc, x # y, NEW i \in Desc
  PROVE  i \in Between(Succ(x), y) <=> i \in Between(x, y) /\ i # x
<1>1. NUM \in Nat /\ NUM > 2
  BY Zenon DEF VirtioConstants
<1> QED
  BY <1>1 DEF Desc, Between, Succ

LEMMA RingFull ==
  ASSUME VirtioConstants, NEW x \in Desc, NEW y \in Desc, Succ(y) = x, NEW i \in Desc, i # y
  PROVE  i \in Between(x, y)
<1>1. NUM \in Nat /\ NUM > 2
  BY Zenon DEF VirtioConstants
<1> QED
  BY <1>1 DEF Desc, Between, Succ

\* A ring of different entries is not full while two descriptors are not in it.
LEMMA RingRoom ==
  ASSUME VirtioConstants, NEW x \in Desc, NEW y \in Desc, NEW ring \in [Desc -> Desc],
         NEW a \in Desc, NEW b \in Desc, a # b,
         \A i \in Between(x, y) : ring[i] # a /\ ring[i] # b,
         \A i, j \in Between(x, y) : ring[i] = ring[j] => i = j
  PROVE  Succ(y) # x
<1> SUFFICES ASSUME Succ(y) = x PROVE FALSE
  OBVIOUS
<1> DEFINE S == Desc \ {y}
           T == (Desc \ {a}) \ {b}
           f == [i \in S |-> ring[i]]
<1>1. \A i \in S : i \in Between(x, y)
  BY Zenon, RingFull
<1>2. f \in [S -> T]
  BY Zenon, <1>1
<1>3. NUM \in Nat /\ NUM > 2
  BY Zenon DEF VirtioConstants
<1>4. IsFiniteSet(Desc) /\ Cardinality(Desc) = NUM
  <2>1. 0 \in Int /\ NUM - 1 \in Int /\ (IF 0 > NUM - 1 THEN 0 ELSE (NUM - 1) - 0 + 1) = NUM
    BY <1>3
  <2> QED
    BY Zenon, <2>1, FS_Interval DEF Desc
<1>5. IsFiniteSet(S) /\ Cardinality(S) = NUM - 1
  BY Zenon, <1>4, FS_RemoveElement
<1>6. IsFiniteSet(Desc \ {a}) /\ Cardinality(Desc \ {a}) = NUM - 1
  BY Zenon, <1>4, FS_RemoveElement
<1>7. IsFiniteSet(T) /\ Cardinality(T) = Cardinality(Desc \ {a}) - 1
  BY Zenon, <1>6, FS_RemoveElement
<1>8. Cardinality(T) < Cardinality(S)
  BY <1>3, <1>5, <1>6, <1>7
<1> HIDE DEF S, T, f
<1>9. \E i, j \in S : i # j /\ f[i] = f[j]
  BY <1>2, <1>5, <1>7, <1>8, FS_PigeonHole
<1> QED
  BY Zenon, <1>1, <1>9 DEF f

-----------------------------------------------------------------------------
(* The three descriptors of a request. *)

INSTANCE WellFoundedInduction

LEMMA Least ==
  ASSUME NEW T, T \subseteq Nat, T # {}
  PROVE  \E x \in T : \A y \in T : x <= y
<1> DEFINE R == {ss \in Nat \X Nat : ss[1] < ss[2]}
<1>1. IsWellFoundedOn(R, Nat)
  BY NatLessThanWellFounded, Zenon DEF OpToRel
<1> HIDE DEF R
<1>2. PICK x \in T : \A y \in T : ~(<<y, x>> \in R)
  BY <1>1, WFMin, Zenon
<1>3. \A y \in T : ~(y < x)
  BY <1>2, Zenon DEF R
<1> QED
  BY <1>3

LEMMA Extremes ==
  ASSUME VirtioConstants, NEW S \in SUBSET Desc, S # {}
  PROVE  /\ Min(S) \in S /\ \A d \in S : Min(S) <= d
         /\ Max(S) \in S /\ \A d \in S : Max(S) >= d
<1> DEFINE T == {NUM - i : i \in S}
<1>1. \A i \in S : i \in Nat /\ NUM - i \in Nat
  BY DEF VirtioConstants, Desc
<1>2. \E x \in S : \A y \in S : x <= y
  BY Zenon, <1>1, Least
<1>3. \E x \in T : \A y \in T : x <= y
  <2>1. T \subseteq Nat /\ T # {}
    BY Zenon, <1>1
  <2> HIDE DEF T
  <2> QED
    BY Zenon, <2>1, Least
<1>4. PICK i \in S : \A j \in S : NUM - i <= NUM - j
  BY Zenon, <1>3
<1>5. \A j \in S : i >= j
  BY <1>4 DEF VirtioConstants, Desc
<1>6. Min(S) \in S /\ \A d \in S : Min(S) <= d
  BY Zenon, <1>2 DEF Min
<1>7. Max(S) \in S /\ \A d \in S : Max(S) >= d
  BY Zenon, <1>5 DEF Max
<1> QED
  BY Zenon, <1>6, <1>7

LEMMA FiniteDesc ==
  ASSUME VirtioConstants, NEW S \in SUBSET Desc
  PROVE  IsFiniteSet(S) /\ Cardinality(S) \in Nat /\ S \subseteq Nat
<1>1. 0 \in Int /\ NUM - 1 \in Int /\ Desc \subseteq Nat
  BY DEF VirtioConstants, Desc
<1>2. IsFiniteSet(Desc)
  BY Zenon, <1>1, FS_Interval DEF Desc
<1>3. IsFiniteSet(S)
  BY Zenon, <1>2, FS_Subset
<1> QED
  BY Zenon, <1>1, <1>3, FS_CardinalityType

\* One element less.
LEMMA Rest ==
  ASSUME VirtioConstants, NEW S \in SUBSET Desc, NEW n \in Nat, Cardinality(S) >= n + 1
  PROVE  /\ S # {}
         /\ \A d \in S : /\ S \ {d} \in SUBSET Desc
                         /\ Cardinality(S \ {d}) = Cardinality(S) - 1
                         /\ Cardinality(S \ {d}) >= n
<1>1. IsFiniteSet(S) /\ Cardinality(S) \in Nat
  BY Zenon, FiniteDesc
<1>2. S # {}
  <2>1. Cardinality(S) # 0
    BY <1>1
  <2> QED
    BY Zenon, <1>1, <2>1, FS_EmptySet
<1>3. ASSUME NEW d \in S PROVE Cardinality(S \ {d}) = Cardinality(S) - 1
  BY Zenon, <1>1, FS_RemoveElement
<1>4. \A d \in S : Cardinality(S \ {d}) >= n
  BY <1>1, <1>3
<1> QED
  BY Zenon, <1>2, <1>3, <1>4

\* The three lowest free descriptors exist when three are free.
LEMMA LowestExist ==
  ASSUME VirtioConstants, free \in SUBSET Desc, Cardinality(free) >= 3
  PROVE  Lowest(3) \in SUBSET free /\ Cardinality(Lowest(3)) = 3
<1>1. free # {} /\ \A d \in free : free \ {d} \in SUBSET Desc /\ Cardinality(free \ {d}) >= 2
  <2>1. 2 \in Nat /\ Cardinality(free) >= 2 + 1
    OBVIOUS
  <2> QED
    BY Zenon, <2>1, Rest
<1>2. free \subseteq Nat
  BY Zenon, FiniteDesc
<1>3. PICK a \in free : \A e \in free : a <= e
  BY Zenon, <1>1, <1>2, Least
<1> DEFINE F == free \ {a}
<1>4. F \in SUBSET Desc /\ Cardinality(F) >= 1 + 1 /\ F \subseteq Nat
  <2>1. F \in SUBSET Desc /\ Cardinality(F) >= 2 /\ F \subseteq Nat
    BY Zenon, <1>1, <1>2
  <2> QED
    BY <2>1
<1>5. F # {} /\ \A d \in F : F \ {d} \in SUBSET Desc /\ Cardinality(F \ {d}) >= 1
  <2>1. 1 \in Nat
    OBVIOUS
  <2> QED
    BY Zenon, <2>1, <1>4, Rest
<1>6. PICK b \in F : \A e \in F : b <= e
  BY Zenon, <1>4, <1>5, Least
<1> DEFINE G == F \ {b}
<1>7. G \in SUBSET Desc /\ Cardinality(G) >= 0 + 1 /\ G \subseteq Nat
  <2>1. G \in SUBSET Desc /\ Cardinality(G) >= 1 /\ G \subseteq Nat
    BY Zenon, <1>4, <1>5
  <2> QED
    BY <2>1
<1>8. G # {}
  <2>1. 0 \in Nat
    OBVIOUS
  <2> QED
    BY Zenon, <2>1, <1>7, Rest
<1>9. PICK c \in G : \A e \in G : c <= e
  BY Zenon, <1>7, <1>8, Least
<1> DEFINE T == ({a} \cup {b}) \cup {c}
<1>10. a # b /\ a # c /\ b # c /\ a \in Nat /\ b \in Nat /\ c \in Nat /\ T \in SUBSET free
  BY Zenon, <1>2
<1>11. Cardinality(T) = 3
  <2>1. IsFiniteSet({a}) /\ Cardinality({a}) = 1
    BY Zenon, FS_Singleton
  <2>2. IsFiniteSet({a} \cup {b}) /\ Cardinality({a} \cup {b}) = 1 + 1
    BY Zenon, <1>10, <2>1, FS_AddElement
  <2>3. c \notin {a} \cup {b}
    BY Zenon, <1>10
  <2>4. Cardinality(T) = (1 + 1) + 1
    BY Zenon, <2>2, <2>3, FS_AddElement
  <2> QED
    BY <2>4
<1>12. ASSUME NEW d \in T, NEW e \in free \ T PROVE d < e
  <2>1. e \in Nat /\ e # a /\ e # b /\ e # c /\ e \in F /\ e \in G
    BY Zenon, <1>2
  <2>2. a <= e /\ b <= e /\ c <= e
    BY Zenon, <2>1, <1>3, <1>6, <1>9
  <2>3. d = a \/ d = b \/ d = c
    BY Zenon
  <2> QED
    BY <2>1, <2>2, <2>3, <1>10
<1> HIDE DEF T
<1> QED
  BY Zenon, <1>10, <1>11, <1>12 DEF Lowest

\* d0, d1 and d2 of rw_submit.
LEMMA ThreeOf ==
  ASSUME VirtioConstants, NEW S \in SUBSET Desc, Cardinality(S) = 3
  PROVE  LET d0 == Min(S)
             d2 == Max(S)
             d1 == CHOOSE d \in S : d # d0 /\ d # d2
         IN  /\ d0 \in S /\ d1 \in S /\ d2 \in S
             /\ d0 # d1 /\ d1 # d2 /\ d0 # d2 /\ S = {d0, d1, d2}
<1> DEFINE d0 == Min(S)
           d2 == Max(S)
           d1 == CHOOSE d \in S : d # d0 /\ d # d2
<1>1. S # {} /\ \A d \in S : S \ {d} \in SUBSET Desc /\ Cardinality(S \ {d}) = 2
  <2>1. 2 \in Nat /\ Cardinality(S) >= 2 + 1 /\ 3 - 1 = 2
    OBVIOUS
  <2> QED
    BY Zenon, <2>1, Rest
<1>2. d0 \in S /\ d2 \in S /\ \A d \in S : d0 <= d /\ d2 >= d
  BY Zenon, <1>1, Extremes
<1> HIDE DEF d0, d2
<1>3. d0 # d2
  <2> SUFFICES ASSUME d0 = d2 PROVE FALSE
    OBVIOUS
  <2>1. S \subseteq Nat
    BY Zenon, FiniteDesc
  <2>2. \A d \in S : d = d0
    BY <1>2, <2>1
  <2>3. S \ {d0} = {} /\ Cardinality(S \ {d0}) = 2
    BY Zenon, <2>2, <1>1, <1>2
  <2>4. Cardinality({}) = 0
    BY Zenon, FS_EmptySet
  <2> QED
    BY <2>3, <2>4
<1> DEFINE R == (S \ {d0}) \ {d2}
<1>4. IsFiniteSet(R) /\ Cardinality(R) = 1
  <2>1. S \ {d0} \in SUBSET Desc /\ Cardinality(S \ {d0}) = 2 /\ d2 \in S \ {d0}
    BY Zenon, <1>1, <1>2, <1>3
  <2>2. 1 \in Nat /\ Cardinality(S \ {d0}) >= 1 + 1 /\ 2 - 1 = 1
    BY <2>1
  <2>3. Cardinality(R) = 1 /\ R \in SUBSET Desc
    BY Zenon, <2>1, <2>2, Rest
  <2> QED
    BY Zenon, <2>3, FiniteDesc
<1>5. PICK x : R = {x}
  BY Zenon, <1>4, FS_Singleton
<1>6. x \in S /\ x # d0 /\ x # d2
  BY Zenon, <1>5
<1>7. d1 \in S /\ d1 # d0 /\ d1 # d2
  BY Zenon, <1>6
<1> HIDE DEF d1
<1>8. d1 \in R
  BY Zenon, <1>7
<1>9. S = {d0, d1, d2}
  <2>1. \A e : e \in R => e = d1
    BY Zenon, <1>5, <1>8
  <2>2. \A e \in S : e = d0 \/ e = d1 \/ e = d2
    BY Zenon, <2>1
  <2> HIDE DEF R
  <2> QED
    BY Zenon, <2>2, <1>2, <1>7
<1> QED
  BY Zenon, <1>2, <1>3, <1>7, <1>9 DEF d0, d1, d2


-----------------------------------------------------------------------------
(* What each step preserves. *)

\* Chains of different requests have nothing in common, and nothing free.
LEMMA Apart ==
  ASSUME Divided, NEW p \in Submitted
  PROVE  /\ \A x \in Owned(p) : x \notin free
         /\ \A q \in Submitted : q # p =>
              /\ head[q] # head[p] /\ head[q] # Second(p)
              /\ \A x \in Owned(q) : x \notin Owned(p)
<1>1. \A x \in Owned(p) : x \notin free
  BY Zenon DEF Divided
<1>2. \A q \in Submitted : q # p => \A x \in Owned(q) : x \notin Owned(p)
  BY Zenon DEF Divided
<1>3. \A q \in Submitted : q # p => head[q] # head[p] /\ head[q] # Second(p)
  BY Zenon, <1>2 DEF Owned
<1> QED
  BY Zenon, <1>1, <1>2, <1>3

LEMMA FreeIff ==
  ASSUME Divided, NEW x
  PROVE  x \in free <=> x \in Desc /\ \A q \in Submitted : x \notin Owned(q)
  BY Zenon DEF Divided

\* free_chain frees exactly the three.
LEMMA ChainIsOwned ==
  ASSUME VirtioConstants, Chained, NEW p \in Submitted
  PROVE  Chain(head[p]) = Owned(p)
<1>1. None \notin Desc
  BY DEF VirtioConstants, Desc, None
<1>2. head[p] # None /\ Second(p) # None /\ Third(p) # None
  BY Zenon, <1>1 DEF Chained
<1>3. Chain(head[p]) = {head[p], Second(p), Third(p)} \ {None}
  BY Zenon, <1>2 DEF Chain, Second, Third
<1> QED
  BY Zenon, <1>2, <1>3 DEF Owned

\* The steps that leave the rings, and the requests in them, alone.
LEMMA LocatedKept ==
  ASSUME Located, Waiting' = Waiting, Reported' = Reported,
         avail' = avail, used' = used, taken' = taken, done' = done,
         \A q : (Busy(q)' <=> Busy(q)) /\ (Busy(q) => head'[q] = head[q])
  PROVE  Located'
<1>1. \A d : InDevice(d) => InDevice(d)'
  BY Zenon DEF InDevice
<1>2. \A d \in taken' : InDevice(d)'
  BY Zenon, <1>1 DEF Located
<1>3. ASSUME NEW i \in Waiting'
      PROVE  /\ \E q \in Caller : Busy(q)' /\ q \notin done' /\ head'[q] = avail'[i]
             /\ avail'[i] \notin taken'
  <2>1. PICK q \in Caller : Busy(q) /\ q \notin done /\ head[q] = avail[i]
    BY Zenon DEF Located, InDevice
  <2>2. avail[i] \notin taken
    BY Zenon DEF Located
  <2>3. Busy(q)' /\ q \notin done' /\ head'[q] = avail'[i]
    BY Zenon, <2>1
  <2> QED
    BY Zenon, <2>2, <2>3
<1>4. ASSUME NEW i \in Reported' PROVE \E q \in done' : Busy(q)' /\ head'[q] = used'[i]
  <2>1. PICK q \in done : Busy(q) /\ head[q] = used[i]
    BY Zenon DEF Located
  <2>2. q \in done' /\ Busy(q)' /\ head'[q] = used'[i]
    BY Zenon, <2>1
  <2> QED
    BY Zenon, <2>2
<1>5. ASSUME NEW q \in done', Busy(q)' PROVE \E i \in Reported' : used'[i] = head'[q]
  <2>1. q \in done /\ Busy(q) /\ head'[q] = head[q]
    BY Zenon, <1>5
  <2>2. \E i \in Reported : used[i] = head[q]
    BY Zenon, <2>1 DEF Located
  <2> QED
    BY Zenon, <2>1, <2>2
<1>6. /\ \A i, j \in Waiting' : avail'[i] = avail'[j] => i = j
      /\ \A i, j \in Reported' : used'[i] = used'[j] => i = j
  BY Zenon DEF Located
<1> QED
  BY Zenon, <1>2, <1>3, <1>4, <1>5, <1>6 DEF Located, InDevice

\* The steps that leave the descriptors alone.
LEMMA QueueKept ==
  ASSUME Chained, Divided, Submitted' = Submitted, UNCHANGED <<free, next, info, head>>
  PROVE  Chained' /\ Divided'
<1>1. free' = free /\ next' = next /\ info' = info /\ head' = head
  OBVIOUS
<1>2. Chained'
  BY Zenon, <1>1 DEF Chained, Second, Third
<1>3. \A p : Owned(p)' = Owned(p)
  BY Zenon, <1>1 DEF Owned, Second, Third
<1>4. Divided'
  BY Zenon, <1>1, <1>3 DEF Divided
<1> QED
  BY Zenon, <1>2, <1>4

\* The steps that only move processes between places of the same kind, and those
\* of the handler that only change its own place.
LEMMA CalmStep ==
  ASSUME Ind, pc' \in [Caller -> Labels],
         \A p \in Caller : pc'[p] \in {"io", "awake"} <=> pc[p] \in {"io", "awake"},
         UNCHANGED <<driver, used, usedId, devIdx, taken, head, done, panicked>>
  PROVE  Ind'
<1>1. /\ free' = free /\ next' = next /\ info' = info /\ avail' = avail
      /\ availIdx' = availIdx /\ usedIdx' = usedIdx /\ busy' = busy /\ used' = used
      /\ usedId' = usedId /\ devIdx' = devIdx /\ taken' = taken /\ head' = head
      /\ done' = done /\ panicked' = panicked
  BY Zenon DEF driver
<1>2. Submitted' = Submitted
  BY Zenon DEF Submitted
<1>3. Typed' /\ Counters'
  BY Zenon, <1>1 DEF Ind, Typed, Counters, Lag, Distance
<1>4. Chained' /\ Divided'
  BY Zenon, <1>1, <1>2, QueueKept DEF Ind
<1>5. /\ Waiting' = Waiting /\ Reported' = Reported
      /\ \A p : Busy(p)' <=> Busy(p)
  BY Zenon, <1>1, <1>2 DEF Waiting, Reported, Busy
<1>6. \A d : InDevice(d)' <=> InDevice(d)
  BY Zenon, <1>1, <1>5 DEF InDevice
<1>7. Located'
  BY <1>1, <1>5, <1>6 DEF Ind, Located
<1>8. Settled'
  BY <1>1, <1>2 DEF Ind, Settled
<1> QED
  BY Zenon, <1>3, <1>4, <1>7, <1>8 DEF Ind

LEMMA CallStep ==
  ASSUME Ind, NEW p \in Caller, call(p)
  PROVE  Ind'
<1>1. pc \in [Caller -> Labels] /\ pc[p] = "idle" /\ pc' = [pc EXCEPT ![p] = "alloc"]
  BY Zenon DEF Ind, Typed, call
<1>2. pc' \in [Caller -> Labels] /\ pc'[p] = "alloc" /\ \A q \in Caller : q # p => pc'[q] = pc[q]
  BY Zenon, <1>1 DEF Labels
<1>3. ASSUME NEW q \in Caller
      PROVE  pc'[q] \in {"io", "awake"} <=> pc[q] \in {"io", "awake"}
  BY Zenon, <1>1, <1>2
<1> QED
  BY Zenon, <1>2, <1>3, CalmStep DEF call, device

LEMMA NodescStep ==
  ASSUME Ind, NEW p \in Caller, rw_nodesc(p)
  PROVE  Ind'
<1>1. pc \in [Caller -> Labels] /\ pc[p] = "alloc"
  BY Zenon DEF Ind, Typed, rw_nodesc
<1> DEFINE g == IF free = {} THEN pc ELSE WakeDesc(pc)
<1>2. g \in [Caller -> Labels]
  BY Zenon, <1>1 DEF WakeDesc, Labels
<1>3. \A q \in Caller : g[q] = pc[q] \/ (pc[q] = "nodesc" /\ g[q] = "alloc")
  BY Zenon DEF WakeDesc
<1>4. pc' = [g EXCEPT ![p] = "nodesc"]
  BY Zenon DEF rw_nodesc
<1> HIDE DEF g
<1>5. pc' \in [Caller -> Labels] /\ pc'[p] = "nodesc" /\ \A q \in Caller : q # p => pc'[q] = g[q]
  BY Zenon, <1>2, <1>4 DEF Labels
<1>6. ASSUME NEW q \in Caller
      PROVE  pc'[q] \in {"io", "awake"} <=> pc[q] \in {"io", "awake"}
  BY Zenon, <1>1, <1>3, <1>5
<1> QED
  BY Zenon, <1>5, <1>6, CalmStep DEF rw_nodesc, device

LEMMA AgainStep ==
  ASSUME Ind, NEW p \in Caller, rw_again(p)
  PROVE  Ind'
<1>1. pc' \in [Caller -> Labels] /\ pc[p] = "awake" /\ pc'[p] = "io"
      /\ \A q \in Caller : q # p => pc'[q] = pc[q]
  BY Zenon DEF Ind, Typed, rw_again, Labels
<1>2. ASSUME NEW q \in Caller
      PROVE  pc'[q] \in {"io", "awake"} <=> pc[q] \in {"io", "awake"}
  BY Zenon, <1>1
<1> QED
  BY Zenon, <1>1, <1>2, CalmStep DEF rw_again, device

LEMMA KillStep ==
  ASSUME Ind, NEW p \in Caller, kill(p)
  PROVE  Ind'
<1>1. pc \in [Caller -> Labels] /\ (pc[p] = "nodesc" \/ pc[p] = "io")
      /\ pc' = [pc EXCEPT ![p] = IF pc[p] = "io" THEN "awake" ELSE "alloc"]
  BY Zenon DEF Ind, Typed, kill
<1>2. pc' \in [Caller -> Labels] /\ \A q \in Caller : q # p => pc'[q] = pc[q]
  BY Zenon, <1>1 DEF Labels
<1>3. pc'[p] = IF pc[p] = "io" THEN "awake" ELSE "alloc"
  BY Zenon, <1>1
<1>4. ASSUME NEW q \in Caller
      PROVE  pc'[q] \in {"io", "awake"} <=> pc[q] \in {"io", "awake"}
  BY Zenon, <1>1, <1>2, <1>3
<1> QED
  BY Zenon, <1>2, <1>4, CalmStep DEF kill, device

LEMMA HandlerCalm ==
  ASSUME Ind, intr_start \/ intr_exit \/ intr_ack
  PROVE  Ind'
<1>1. pc' = pc /\ pc \in [Caller -> Labels]
  BY Zenon DEF Ind, Typed, intr_start, intr_exit, intr_ack
<1>2. UNCHANGED <<driver, used, usedId, devIdx, taken, head, done, panicked>>
  BY Zenon DEF intr_start, intr_exit, intr_ack, device
<1> QED
  BY Zenon, <1>1, <1>2, CalmStep

LEMMA StutterStep ==
  ASSUME Ind, UNCHANGED vars
  PROVE  Ind'
<1>1. pc' = pc /\ pc \in [Caller -> Labels]
  BY Zenon DEF Ind, Typed, vars
<1>2. UNCHANGED <<driver, used, usedId, devIdx, taken, head, done, panicked>>
  BY Zenon DEF vars, device
<1> QED
  BY Zenon, <1>1, <1>2, CalmStep


LEMMA SubmitEffect ==
  ASSUME VirtioConstants, Ind, NEW p \in Caller, rw_submit(p)
  PROVE  \E S \in SUBSET free : \E d0, d1, d2 \in S :
           /\ d0 # d1 /\ d1 # d2 /\ d0 # d2 /\ S = {d0, d1, d2}
           /\ free' = free \ S
           /\ next' = [next EXCEPT ![d0] = d1, ![d1] = d2, ![d2] = None]
           /\ info' = [info EXCEPT ![d0] = p]
           /\ avail' = [avail EXCEPT ![availIdx % NUM] = d0]
           /\ head' = [head EXCEPT ![p] = d0]
<1> DEFINE S == Lowest(3)
           d0 == Min(S)
           d2 == Max(S)
           d1 == CHOOSE d \in S : d # d0 /\ d # d2
<1>1. Cardinality(free) >= 3 /\ free \in SUBSET Desc
  BY Zenon DEF Ind, Typed, rw_submit
<1>2. S \in SUBSET free /\ Cardinality(S) = 3
  BY Zenon, <1>1, LowestExist
<1>3. S \in SUBSET Desc
  BY Zenon, <1>1, <1>2
<1>4. /\ d0 \in S /\ d1 \in S /\ d2 \in S
      /\ d0 # d1 /\ d1 # d2 /\ d0 # d2 /\ S = {d0, d1, d2}
  BY Zenon, <1>2, <1>3, ThreeOf
<1>5. /\ free' = free \ S
      /\ next' = [next EXCEPT ![d0] = d1, ![d1] = d2, ![d2] = None]
      /\ info' = [info EXCEPT ![d0] = p]
      /\ avail' = [avail EXCEPT ![availIdx % NUM] = d0]
      /\ head' = [head EXCEPT ![p] = d0]
  BY Zenon DEF rw_submit
<1> HIDE DEF S, d0, d1, d2
<1> QED
  BY Zenon, <1>2, <1>4, <1>5

\* Given to the device: the ring has room, because its entries are the heads of
\* other requests and three descriptors were free.
LEMMA SubmitStep ==
  ASSUME VirtioConstants, Ind, NEW p \in Caller, rw_submit(p)
  PROVE  Ind'
<1> DEFINE av == availIdx % NUM
           dv == devIdx % NUM
<1> Typed /\ Counters /\ Chained /\ Divided /\ Located /\ Settled
  BY Zenon DEF Ind
<1>2. PICK S \in SUBSET free : \E d0, d1, d2 \in S :
        /\ d0 # d1 /\ d1 # d2 /\ d0 # d2 /\ S = {d0, d1, d2}
        /\ free' = free \ S
        /\ next' = [next EXCEPT ![d0] = d1, ![d1] = d2, ![d2] = None]
        /\ info' = [info EXCEPT ![d0] = p]
        /\ avail' = [avail EXCEPT ![av] = d0]
        /\ head' = [head EXCEPT ![p] = d0]
  BY Zenon, SubmitEffect
<1>3. PICK d0 \in S, d1 \in S, d2 \in S :
        /\ d0 # d1 /\ d1 # d2 /\ d0 # d2 /\ S = {d0, d1, d2}
        /\ free' = free \ S
        /\ next' = [next EXCEPT ![d0] = d1, ![d1] = d2, ![d2] = None]
        /\ info' = [info EXCEPT ![d0] = p]
        /\ avail' = [avail EXCEPT ![av] = d0]
        /\ head' = [head EXCEPT ![p] = d0]
  BY Zenon, <1>2
<1>1. /\ pc[p] = "alloc" /\ availIdx' = (availIdx + 1) % UMod
      /\ busy' = [busy EXCEPT ![p] = TRUE] /\ pc' = [pc EXCEPT ![p] = "io"]
      /\ done' = done \ {p} /\ usedIdx' = usedIdx /\ used' = used /\ usedId' = usedId
      /\ devIdx' = devIdx /\ taken' = taken /\ panicked' = panicked
      /\ free' = free \ S /\ next' = [next EXCEPT ![d0] = d1, ![d1] = d2, ![d2] = None]
      /\ info' = [info EXCEPT ![d0] = p] /\ avail' = [avail EXCEPT ![av] = d0]
      /\ head' = [head EXCEPT ![p] = d0]
  BY Zenon, <1>3 DEF rw_submit, device
<1>4. /\ d0 \in free /\ d1 \in free /\ d2 \in free
      /\ d0 \in Desc /\ d1 \in Desc /\ d2 \in Desc
  BY Zenon, <1>2, <1>3 DEF Typed
<1>5. /\ av \in Desc /\ dv \in Desc /\ availIdx' % NUM = Succ(av) /\ Succ(av) \in Desc
      /\ availIdx' = (IF availIdx = UMod - 1 THEN 0 ELSE availIdx + 1)
      /\ availIdx' \in 0..(UMod - 1) /\ None \notin Desc
  BY Zenon, <1>1, NextSlot, SlotFacts DEF Counters
<1>6. /\ p \notin Submitted /\ head[p] = None /\ ~busy[p]
      /\ \A q : q \in Submitted' <=> q \in Submitted \/ q = p
  <2>1. pc'[p] = "io" /\ \A q \in Caller : q # p => pc'[q] = pc[q]
    BY Zenon, <1>1 DEF Typed
  <2>2. p \notin Submitted
    BY Zenon, <1>1 DEF Submitted
  <2>3. ASSUME NEW q \in Caller PROVE q \in Submitted' <=> q \in Submitted \/ q = p
    BY Zenon, <2>1 DEF Submitted
  <2>4. \A q : q \in Submitted' \/ q \in Submitted => q \in Caller
    BY Zenon DEF Submitted
  <2> QED
    BY Zenon, <2>2, <2>3, <2>4 DEF Settled
<1>7. \A i \in Waiting : avail[i] \notin free
  <2> SUFFICES ASSUME NEW i \in Waiting PROVE avail[i] \notin free
    OBVIOUS
  <2>1. PICK q \in Submitted : head[q] = avail[i]
    BY Zenon DEF Located, InDevice, Busy
  <2> QED
    BY Zenon, <2>1, Apart DEF Owned
<1>8. Succ(av) # dv
  <2>1. Waiting = Between(dv, av)
    BY Zenon DEF Waiting
  <2>2. \A i \in Between(dv, av) : avail[i] # d0 /\ avail[i] # d1
    BY Zenon, <2>1, <1>4, <1>7
  <2>3. \A i, j \in Between(dv, av) : avail[i] = avail[j] => i = j
    BY Zenon, <2>1 DEF Located
  <2>4. avail \in [Desc -> Desc] /\ av \in Desc /\ dv \in Desc
    BY Zenon, <1>5 DEF Typed
  <2>5. d0 # d1 /\ d0 \in Desc /\ d1 \in Desc
    BY Zenon, <1>3, <1>4
  <2> HIDE DEF av, dv
  <2>6. ASSUME NEW ring \in [Desc -> Desc],
               \A i \in Between(dv, av) : ring[i] # d0 /\ ring[i] # d1,
               \A i, j \in Between(dv, av) : ring[i] = ring[j] => i = j
        PROVE  Succ(av) # dv
    BY Zenon, <2>4, <2>5, <2>6, RingRoom
  <2> QED
    BY Zenon, <2>2, <2>3, <2>4, <2>6
<1>9. \A i \in Desc : i \in Waiting' <=> i \in Waiting \/ i = av
  <2>1. Waiting' = Between(dv, Succ(av)) /\ Waiting = Between(dv, av)
    BY Zenon, <1>1, <1>5 DEF Waiting
  <2> QED
    BY Zenon, <2>1, <1>5, <1>8, RingGrows
<1>10. Waiting \subseteq Desc /\ Waiting' \subseteq Desc /\ av \notin Waiting
  <2>1. av \notin Waiting
    BY Zenon, <1>5, SlotFacts DEF Waiting
  <2> QED
    BY Zenon, <2>1 DEF Waiting, Between
<1>11. /\ head'[p] = d0 /\ \A q \in Caller : q # p => head'[q] = head[q]
       /\ busy'[p] = TRUE /\ \A q \in Caller : q # p => busy'[q] = busy[q]
  BY Zenon, <1>1 DEF Typed
<1>12. /\ next'[d0] = d1 /\ next'[d1] = d2 /\ next'[d2] = None
       /\ \A x \in Desc : x \notin free => next'[x] = next[x]
  BY Zenon, <1>1, <1>3, <1>4 DEF Typed
<1>13. info'[d0] = p /\ \A x \in Desc : x \notin free => info'[x] = info[x]
  BY Zenon, <1>1, <1>4 DEF Typed
<1>14. avail'[av] = d0 /\ \A i \in Waiting : avail'[i] = avail[i]
  BY Zenon, <1>1, <1>5, <1>10 DEF Typed
<1>15. Typed'
  <2>1. next' \in [Desc -> Desc \cup {None}]
    BY Zenon, <1>1, <1>4 DEF Typed
  <2>2. free' \in SUBSET Desc /\ info' \in [Desc -> Caller \cup {None}]
    BY Zenon, <1>1 DEF Typed
  <2>3. avail' \in [Desc -> Desc] /\ used' \in [Desc -> Desc]
    BY Zenon, <1>1, <1>4 DEF Typed
  <2>4. busy' \in [Caller -> BOOLEAN] /\ pc' \in [Caller -> Labels]
    BY Zenon, <1>1 DEF Typed, Labels
  <2>5. head' \in [Caller -> Desc \cup {None}] /\ taken' \in SUBSET Desc
    BY Zenon, <1>1, <1>4 DEF Typed
  <2> QED
    BY Zenon, <2>1, <2>2, <2>3, <2>4, <2>5 DEF Typed
<1>16. Counters'
  <2>1. /\ NUM \in Nat /\ NUM > 2 /\ UMod \in Nat /\ UMod > NUM /\ av \in 0..(NUM - 1)
        /\ dv \in 0..(NUM - 1) /\ availIdx \in 0..(UMod - 1) /\ devIdx \in 0..(UMod - 1)
    BY Zenon, <1>5 DEF Counters, VirtioConstants, Desc
  <2>2. Lag < NUM /\ av = Ahead(dv, Lag)
    BY Zenon DEF Counters
  <2>3. Lag \in Nat
    BY <2>1 DEF Lag, Distance
  <2>4. Lag + 1 < NUM
    <3>1. Lag # NUM - 1
      BY <2>1, <2>2, <2>3, <1>8 DEF Succ, Ahead
    <3> QED
      BY <2>1, <2>2, <2>3, <3>1
  <2>5. Lag' = Lag + 1
    <3>1. Lag' = Distance(devIdx, availIdx')
      BY Zenon, <1>1 DEF Lag, Distance
    <3>2. Distance(devIdx, availIdx) + 1 < NUM
      BY Zenon, <2>4 DEF Lag
    <3>3. Distance(devIdx, availIdx') = Distance(devIdx, availIdx) + 1
      BY <2>1, <3>2, <1>5 DEF Distance
    <3> QED
      BY Zenon, <3>1, <3>3 DEF Lag
  <2>6. Succ(av) = Ahead(dv, Lag + 1)
    BY <2>1, <2>2, <2>3, <2>4 DEF Succ, Ahead
  <2> QED
    BY Zenon, <1>1, <1>5, <2>4, <2>5, <2>6 DEF Counters
<1>17. ASSUME NEW q \in Submitted
       PROVE  /\ q # p /\ q \in Caller /\ head'[q] = head[q]
              /\ Second(q)' = Second(q) /\ Third(q)' = Third(q)
              /\ next'[Third(q)] = next[Third(q)] /\ info'[head[q]] = info[head[q]]
  <2>1. q # p /\ q \in Caller /\ head'[q] = head[q]
    BY Zenon, <1>6, <1>11 DEF Submitted
  <2>2. /\ head[q] \in Desc /\ Second(q) \in Desc /\ Third(q) \in Desc
        /\ head[q] \notin free /\ Second(q) \notin free /\ Third(q) \notin free
    BY Zenon, Apart DEF Chained, Owned
  <2>3. /\ next'[head[q]] = next[head[q]] /\ next'[Second(q)] = next[Second(q)]
        /\ next'[Third(q)] = next[Third(q)] /\ info'[head[q]] = info[head[q]]
    BY Zenon, <2>2, <1>12, <1>13
  <2>4. Second(q)' = Second(q)
    BY Zenon, <2>1, <2>3 DEF Second
  <2>5. Third(q)' = Third(q)
    <3>1. Third(q)' = next'[Second(q)'] /\ Third(q) = next[Second(q)]
      BY Zenon DEF Second, Third
    <3> QED
      BY Zenon, <2>3, <2>4, <3>1
  <2> QED
    BY Zenon, <2>1, <2>3, <2>4, <2>5
<1>18. head'[p] = d0 /\ Second(p)' = d1 /\ Third(p)' = d2
  BY Zenon, <1>11, <1>12 DEF Second, Third
<1>19. Chained'
  <2> SUFFICES ASSUME NEW q \in Submitted'
               PROVE  /\ head'[q] \in Desc /\ Second(q)' \in Desc /\ Third(q)' \in Desc
                      /\ head'[q] # Second(q)' /\ head'[q] # Third(q)' /\ Second(q)' # Third(q)'
                      /\ next'[Third(q)'] = None /\ info'[head'[q]] = q
    BY Zenon DEF Chained
  <2>1. CASE q = p
    BY Zenon, <2>1, <1>3, <1>4, <1>12, <1>13, <1>18
  <2>2. CASE q # p
    <3>1. q \in Submitted
      BY Zenon, <2>2, <1>6
    <3>2. /\ head[q] \in Desc /\ Second(q) \in Desc /\ Third(q) \in Desc
          /\ head[q] # Second(q) /\ head[q] # Third(q) /\ Second(q) # Third(q)
          /\ next[Third(q)] = None /\ info[head[q]] = q
      BY Zenon, <3>1 DEF Chained
    <3>3. /\ head'[q] = head[q] /\ Second(q)' = Second(q) /\ Third(q)' = Third(q)
          /\ next'[Third(q)'] = None /\ info'[head'[q]] = q
      BY Zenon, <3>1, <3>2, <1>17
    <3> QED
      BY Zenon, <3>2, <3>3
  <2> QED
    BY Zenon, <2>1, <2>2
<1>20. Owned(p)' = S /\ \A q \in Submitted : Owned(q)' = Owned(q)
  <2>1. Owned(p)' = S
    BY Zenon, <1>3, <1>18 DEF Owned
  <2>2. \A q \in Submitted : Owned(q)' = Owned(q)
    BY Zenon, <1>17 DEF Owned
  <2> QED
    BY Zenon, <2>1, <2>2
<1>21. Divided'
  <2>1. ASSUME NEW x
        PROVE  x \in free' <=> x \in Desc /\ \A q \in Submitted' : x \notin Owned(q)'
    <3>1. x \in free <=> x \in Desc /\ \A q \in Submitted : x \notin Owned(q)
      BY Zenon, FreeIff
    <3>2. x \in free' <=> x \in free /\ x \notin S
      BY Zenon, <1>1
    <3>3. (\A q \in Submitted' : x \notin Owned(q)') <=>
          x \notin S /\ \A q \in Submitted : x \notin Owned(q)
      BY Zenon, <1>6, <1>20
    <3> QED
      BY Zenon, <3>1, <3>2, <3>3
  <2>2. free' = Desc \ UNION {Owned(q)' : q \in Submitted'}
    BY Zenon, <2>1
  <2>3. \A q \in Submitted : \A x \in Owned(q) : x \notin S
    BY Zenon, <1>2, Apart
  <2>4. ASSUME NEW q \in Submitted', NEW r \in Submitted', q # r,
               NEW x \in Owned(q)', x \in Owned(r)'
        PROVE  FALSE
    <3>1. CASE q = p
      <4>1. r \in Submitted /\ x \in S /\ x \in Owned(r)
        BY Zenon, <3>1, <2>4, <1>6, <1>20
      <4> QED
        BY Zenon, <4>1, <2>3
    <3>2. CASE r = p
      <4>1. q \in Submitted /\ x \in S /\ x \in Owned(q)
        BY Zenon, <3>2, <2>4, <1>6, <1>20
      <4> QED
        BY Zenon, <4>1, <2>3
    <3>3. CASE q # p /\ r # p
      <4>1. q \in Submitted /\ r \in Submitted /\ x \in Owned(q) /\ x \in Owned(r)
        BY Zenon, <3>3, <2>4, <1>6, <1>20
      <4> QED
        BY Zenon, <4>1, <2>4 DEF Divided
    <3> QED
      BY Zenon, <3>1, <3>2, <3>3
  <2>5. \A q, r \in Submitted' : q # r => Owned(q)' \cap Owned(r)' = {}
    BY Zenon, <2>4
  <2> QED
    BY Zenon, <2>2, <2>5 DEF Divided
<1>22. ASSUME NEW q, Busy(q)
       PROVE  q # p /\ Busy(q)' /\ head'[q] = head[q] /\ (q \in done' <=> q \in done)
  <2>1. q \in Submitted /\ busy[q]
    BY Zenon, <1>22 DEF Busy
  <2>2. q # p /\ q \in Caller /\ head'[q] = head[q]
    BY Zenon, <2>1, <1>17
  <2>3. q \in Submitted' /\ busy'[q] = busy[q]
    BY Zenon, <2>1, <2>2, <1>6, <1>11
  <2>4. q \in done' <=> q \in done
    BY Zenon, <2>2, <1>1
  <2> QED
    BY Zenon, <2>1, <2>2, <2>3, <2>4 DEF Busy
<1>23. \A q : Busy(q)' /\ q # p => Busy(q)
  <2>1. ASSUME NEW q, Busy(q)', q # p PROVE Busy(q)
    <3>1. q \in Submitted /\ busy'[q]
      BY Zenon, <2>1, <1>6 DEF Busy
    <3>2. busy'[q] = busy[q]
      BY Zenon, <3>1, <1>6, <1>11 DEF Submitted
    <3> QED
      BY Zenon, <3>1, <3>2 DEF Busy
  <2> QED
    BY Zenon, <2>1
<1>24. \A d : InDevice(d) => InDevice(d)'
  BY Zenon, <1>22 DEF InDevice
<1>25. Busy(p)' /\ p \notin done' /\ head'[p] = d0 /\ d0 \notin taken
  <2>1. Busy(p)' /\ p \notin done' /\ head'[p] = d0
    BY Zenon, <1>1, <1>6, <1>11 DEF Busy
  <2>2. ASSUME d0 \in taken PROVE FALSE
    <3>1. PICK q \in Submitted : head[q] = d0
      BY Zenon, <2>2 DEF Located, InDevice, Busy
    <3> QED
      BY Zenon, <3>1, <1>4, Apart DEF Owned
  <2> QED
    BY Zenon, <2>1, <2>2
<1>26. \A i \in Waiting : avail[i] # d0
  BY Zenon, <1>4, <1>7
<1>27. Located'
  <2>1. ASSUME NEW i \in Waiting'
        PROVE  /\ \E q \in Caller : Busy(q)' /\ q \notin done' /\ head'[q] = avail'[i]
               /\ avail'[i] \notin taken'
    <3>1. CASE i \in Waiting
      <4>1. PICK q \in Caller : Busy(q) /\ q \notin done /\ head[q] = avail[i]
        BY Zenon, <3>1 DEF Located, InDevice
      <4> avail[i] \notin taken /\ taken' = taken
        BY Zenon, <3>1, <1>1 DEF Located
      <4>2. avail'[i] = avail[i] /\ avail'[i] \notin taken'
        BY Zenon, <3>1, <1>14
      <4>3. Busy(q)' /\ q \notin done' /\ head'[q] = avail'[i]
        BY Zenon, <4>1, <4>2, <1>22
      <4> QED
        BY Zenon, <4>2, <4>3
    <3>2. CASE i = av
      <4>1. avail'[i] = d0 /\ taken' = taken
        BY Zenon, <3>2, <1>1, <1>14
      <4> QED
        BY Zenon, <4>1, <1>25
    <3> QED
      BY Zenon, <3>1, <3>2, <1>9, <1>10
  <2>2. ASSUME NEW i \in Waiting', NEW j \in Waiting', avail'[i] = avail'[j] PROVE i = j
    <3>1. (i \in Waiting \/ i = av) /\ (j \in Waiting \/ j = av)
      BY Zenon, <1>9, <1>10
    <3>2. CASE i \in Waiting /\ j \in Waiting
      BY Zenon, <3>2, <2>2, <1>14 DEF Located
    <3>3. CASE i = av
      BY Zenon, <3>1, <3>3, <2>2, <1>14, <1>26
    <3>4. CASE j = av
      BY Zenon, <3>1, <3>4, <2>2, <1>14, <1>26
    <3> QED
      BY Zenon, <3>1, <3>2, <3>3, <3>4
  <2>3. \A d \in taken' : InDevice(d)'
    BY Zenon, <1>1, <1>24 DEF Located
  <2>4. Reported' = Reported /\ used' = used
    BY Zenon, <1>1 DEF Reported
  <2>5. ASSUME NEW i \in Reported' PROVE \E q \in done' : Busy(q)' /\ head'[q] = used'[i]
    <3>1. PICK q \in done : Busy(q) /\ head[q] = used[i]
      BY Zenon, <2>4 DEF Located
    <3> QED
      BY Zenon, <2>4, <3>1, <1>22
  <2>6. \A i, j \in Reported' : used'[i] = used'[j] => i = j
    BY Zenon, <2>4 DEF Located
  <2>7. ASSUME NEW q \in done', Busy(q)' PROVE \E i \in Reported' : used'[i] = head'[q]
    <3>1. q \in done /\ q # p
      BY Zenon, <1>1
    <3>2. Busy(q)
      BY Zenon, <2>7, <3>1, <1>23
    <3>3. head'[q] = head[q]
      BY Zenon, <3>2, <1>22
    <3> QED
      BY Zenon, <3>1, <3>2, <3>3, <2>4 DEF Located
  <2> QED
    BY Zenon, <2>1, <2>2, <2>3, <2>5, <2>6, <2>7 DEF Located, InDevice
<1>28. Settled'
  <2>1. ASSUME NEW q \in Caller, q \notin Submitted' PROVE head'[q] = None /\ ~busy'[q]
    BY Zenon, <2>1, <1>6, <1>11 DEF Settled
  <2>2. ASSUME NEW q \in Submitted' PROVE busy'[q] \/ q \in done'
    <3>1. CASE q = p
      BY Zenon, <3>1, <1>11
    <3>2. CASE q # p
      <4>1. q \in Submitted /\ q \in Caller
        BY Zenon, <3>2, <1>6 DEF Submitted
      <4>2. busy[q] \/ q \in done
        BY Zenon, <4>1 DEF Settled
      <4>3. busy'[q] = busy[q] /\ (q \in done => q \in done')
        BY Zenon, <3>2, <4>1, <1>1, <1>11
      <4> QED
        BY Zenon, <4>2, <4>3
    <3> QED
      BY Zenon, <3>1, <3>2
  <2>3. done' \subseteq Caller /\ ~panicked'
    BY Zenon, <1>1 DEF Settled
  <2> QED
    BY Zenon, <2>1, <2>2, <2>3 DEF Settled
<1> QED
  BY Zenon, <1>15, <1>16, <1>19, <1>21, <1>27, <1>28 DEF Ind


\* Over: the chain goes back to the queue, and it was not free.
LEMMA FinishStep ==
  ASSUME VirtioConstants, Ind, NEW p \in Caller, rw_finish(p)
  PROVE  Ind'
<1> Typed /\ Counters /\ Chained /\ Divided /\ Located /\ Settled
  BY Zenon DEF Ind
<1>1. p \in Submitted /\ ~busy[p]
  BY Zenon DEF rw_finish, Finished, Submitted
<1>2. Chain(head[p]) = Owned(p)
  BY Zenon, <1>1, ChainIsOwned
<1>3. \A x \in Owned(p) : x \notin free
  BY Zenon, <1>1, Apart
<1>4. /\ free' = free \cup Owned(p) /\ info' = [info EXCEPT ![head[p]] = None]
      /\ pc' = WakeDesc([pc EXCEPT ![p] = "idle"]) /\ head' = [head EXCEPT ![p] = None]
      /\ panicked' = panicked
  BY Zenon, <1>2, <1>3 DEF rw_finish
<1>5. /\ next' = next /\ avail' = avail /\ availIdx' = availIdx /\ usedIdx' = usedIdx
      /\ busy' = busy /\ used' = used /\ usedId' = usedId /\ devIdx' = devIdx
      /\ taken' = taken /\ done' = done
  BY Zenon DEF rw_finish, device
<1> DEFINE g == [pc EXCEPT ![p] = "idle"]
<1>6. /\ g \in [Caller -> Labels] /\ g[p] = "idle"
      /\ \A q \in Caller : q # p => g[q] = pc[q]
  BY Zenon DEF Typed, Labels
<1>7. pc' = WakeDesc(g)
  BY Zenon, <1>4
<1> HIDE DEF g
<1>8. /\ pc' \in [Caller -> Labels]
      /\ \A q \in Caller : pc'[q] = g[q] \/ (g[q] = "nodesc" /\ pc'[q] = "alloc")
  BY Zenon, <1>6, <1>7 DEF WakeDesc, Labels
<1>9. \A q : q \in Submitted' <=> q \in Submitted /\ q # p
  <2>1. ASSUME NEW q \in Caller PROVE q \in Submitted' <=> q \in Submitted /\ q # p
    <3>1. pc'[q] \in {"io", "awake"} <=> g[q] \in {"io", "awake"}
      BY Zenon, <1>8
    <3>2. g[q] \in {"io", "awake"} <=> pc[q] \in {"io", "awake"} /\ q # p
      BY Zenon, <1>6
    <3> QED
      BY Zenon, <3>1, <3>2 DEF Submitted
  <2>2. \A q : q \in Submitted' \/ q \in Submitted => q \in Caller
    BY Zenon DEF Submitted
  <2> QED
    BY Zenon, <2>1, <2>2
<1>10. head'[p] = None /\ \A q \in Caller : q # p => head'[q] = head[q]
  BY Zenon, <1>4 DEF Typed
<1>11. Typed'
  <2>1. Owned(p) \in SUBSET Desc
    BY Zenon, <1>1 DEF Chained, Owned
  <2>2. free' \in SUBSET Desc /\ info' \in [Desc -> Caller \cup {None}]
    BY Zenon, <2>1, <1>4 DEF Typed
  <2>3. head' \in [Caller -> Desc \cup {None}]
    BY Zenon, <1>4 DEF Typed
  <2> QED
    BY Zenon, <2>2, <2>3, <1>5, <1>8 DEF Typed
<1>12. Counters'
  BY Zenon, <1>5 DEF Counters, Lag, Distance
<1>13. ASSUME NEW q \in Submitted'
       PROVE  /\ q \in Submitted /\ q # p /\ head'[q] = head[q]
              /\ Second(q)' = Second(q) /\ Third(q)' = Third(q)
              /\ Owned(q)' = Owned(q) /\ info'[head[q]] = info[head[q]]
  <2>1. q \in Submitted /\ q # p /\ head'[q] = head[q]
    BY Zenon, <1>9, <1>10 DEF Submitted
  <2>2. Second(q)' = Second(q) /\ Third(q)' = Third(q)
    BY Zenon, <2>1, <1>5 DEF Second, Third
  <2>3. head[q] # head[p] /\ head[q] \in Desc
    BY Zenon, <2>1, <1>1, Apart DEF Chained
  <2>4. info'[head[q]] = info[head[q]]
    BY Zenon, <2>3, <1>4 DEF Typed
  <2>5. Owned(q)' = Owned(q)
    BY Zenon, <2>1, <2>2 DEF Owned
  <2> QED
    BY Zenon, <2>1, <2>2, <2>4, <2>5
<1>14. Chained'
  <2> SUFFICES ASSUME NEW q \in Submitted'
               PROVE  /\ head'[q] \in Desc /\ Second(q)' \in Desc /\ Third(q)' \in Desc
                      /\ head'[q] # Second(q)' /\ head'[q] # Third(q)' /\ Second(q)' # Third(q)'
                      /\ next'[Third(q)'] = None /\ info'[head'[q]] = q
    BY Zenon DEF Chained
  <2>1. /\ head[q] \in Desc /\ Second(q) \in Desc /\ Third(q) \in Desc
        /\ head[q] # Second(q) /\ head[q] # Third(q) /\ Second(q) # Third(q)
        /\ next[Third(q)] = None /\ info[head[q]] = q
    BY Zenon, <1>13 DEF Chained
  <2>2. /\ head'[q] = head[q] /\ Second(q)' = Second(q) /\ Third(q)' = Third(q)
        /\ next'[Third(q)'] = None /\ info'[head'[q]] = q
    BY Zenon, <2>1, <1>5, <1>13
  <2> QED
    BY Zenon, <2>1, <2>2
<1>15. Divided'
  <2>1. ASSUME NEW x
        PROVE  x \in free' <=> x \in Desc /\ \A q \in Submitted' : x \notin Owned(q)'
    <3>1. x \in free <=> x \in Desc /\ \A q \in Submitted : x \notin Owned(q)
      BY Zenon, FreeIff
    <3>2. x \in free' <=> x \in free \/ x \in Owned(p)
      BY Zenon, <1>4
    <3>3. x \in Owned(p) => x \in Desc /\ \A q \in Submitted : q # p => x \notin Owned(q)
      <4>1. x \in Owned(p) => x \in Desc
        BY Zenon, <1>1 DEF Chained, Owned
      <4>2. x \in Owned(p) => \A q \in Submitted : q # p => x \notin Owned(q)
        BY Zenon, <1>1, Apart
      <4> QED
        BY Zenon, <4>1, <4>2
    <3>4. (\A q \in Submitted' : x \notin Owned(q)') <=>
          \A q \in Submitted : q # p => x \notin Owned(q)
      BY Zenon, <1>9, <1>13
    <3> QED
      BY Zenon, <3>1, <3>2, <3>3, <3>4, <1>1
  <2>2. free' = Desc \ UNION {Owned(q)' : q \in Submitted'}
    BY Zenon, <2>1
  <2>3. \A q, r \in Submitted : q # r => Owned(q) \cap Owned(r) = {}
    BY Zenon DEF Divided
  <2>4. \A q, r \in Submitted' : q # r => Owned(q)' \cap Owned(r)' = {}
    BY Zenon, <2>3, <1>13
  <2> QED
    BY Zenon, <2>2, <2>4 DEF Divided
<1>16. ASSUME NEW q PROVE (Busy(q)' <=> Busy(q)) /\ (Busy(q) => head'[q] = head[q])
  <2>1. Busy(q)' <=> Busy(q)
    BY Zenon, <1>1, <1>5, <1>9 DEF Busy
  <2>2. Busy(q) => q \in Submitted'
    BY Zenon, <2>1 DEF Busy
  <2> QED
    BY Zenon, <2>1, <2>2, <1>13
<1>17. Located'
  BY Zenon, <1>5, <1>16, LocatedKept DEF Waiting, Reported
<1>18. Settled'
  <2>1. ASSUME NEW q \in Caller, q \notin Submitted' PROVE head'[q] = None /\ ~busy'[q]
    BY Zenon, <2>1, <1>1, <1>5, <1>9, <1>10 DEF Settled
  <2>2. ASSUME NEW q \in Submitted' PROVE busy'[q] \/ q \in done'
    BY Zenon, <1>5, <1>13 DEF Settled
  <2>3. done' \subseteq Caller /\ ~panicked'
    BY Zenon, <1>4, <1>5 DEF Settled
  <2> QED
    BY Zenon, <2>1, <2>2, <2>3 DEF Settled
<1> QED
  BY Zenon, <1>11, <1>12, <1>14, <1>15, <1>17, <1>18 DEF Ind


\* The device takes the oldest chain of the avail ring.
LEMMA TakeStep ==
  ASSUME VirtioConstants, Ind, dev_take
  PROVE  Ind'
<1> DEFINE av == availIdx % NUM
           dv == devIdx % NUM
<1> Typed /\ Counters /\ Chained /\ Divided /\ Located /\ Settled
  BY Zenon DEF Ind
<1>1. /\ devIdx # availIdx /\ taken' = taken \cup {avail[dv]}
      /\ devIdx' = (devIdx + 1) % UMod
      /\ free' = free /\ next' = next /\ info' = info /\ avail' = avail
      /\ availIdx' = availIdx /\ usedIdx' = usedIdx /\ busy' = busy /\ used' = used
      /\ usedId' = usedId /\ pc' = pc /\ head' = head /\ done' = done /\ panicked' = panicked
  BY Zenon DEF dev_take, driver
<1>2. Submitted' = Submitted
  BY Zenon, <1>1 DEF Submitted
<1>3. /\ av \in Desc /\ dv \in Desc /\ devIdx' % NUM = Succ(dv)
      /\ devIdx' = (IF devIdx = UMod - 1 THEN 0 ELSE devIdx + 1)
      /\ devIdx' \in 0..(UMod - 1)
  BY Zenon, <1>1, NextSlot DEF Counters
<1>4. /\ NUM \in Nat /\ NUM > 2 /\ UMod \in Nat /\ UMod > NUM /\ av \in 0..(NUM - 1)
      /\ dv \in 0..(NUM - 1) /\ availIdx \in 0..(UMod - 1) /\ devIdx \in 0..(UMod - 1)
  BY Zenon, <1>3 DEF Counters, VirtioConstants, Desc
<1>5. Lag \in Nat /\ Lag > 0
  BY <1>1, <1>4 DEF Lag, Distance
<1>6. Lag < NUM /\ av = Ahead(dv, Lag)
  BY Zenon DEF Counters
<1>7. av # dv
  BY <1>4, <1>5, <1>6 DEF Ahead
<1>8. Typed'
  <2>1. taken' \in SUBSET Desc
    BY Zenon, <1>1, <1>3 DEF Typed
  <2> QED
    BY Zenon, <2>1, <1>1 DEF Typed
<1>9. Counters'
  <2>1. Lag' = Lag - 1
    <3>1. Lag' = Distance(devIdx', availIdx)
      BY Zenon, <1>1 DEF Lag, Distance
    <3>2. Distance(devIdx', availIdx) = Distance(devIdx, availIdx) - 1
      BY <1>1, <1>3, <1>4 DEF Distance
    <3> QED
      BY Zenon, <3>1, <3>2 DEF Lag
  <2>2. av = Ahead(Succ(dv), Lag - 1) /\ Lag - 1 < NUM
    BY <1>4, <1>5, <1>6 DEF Succ, Ahead
  <2>3. Lag' < NUM /\ availIdx' % NUM = Ahead(devIdx' % NUM, Lag')
    BY Zenon, <2>1, <2>2, <1>1, <1>3
  <2> QED
    BY Zenon, <2>3, <1>1, <1>3 DEF Counters, Ahead
<1>10. Chained' /\ Divided'
  BY Zenon, <1>1, <1>2, QueueKept
<1>11. /\ dv \in Waiting /\ Waiting' \subseteq Desc
       /\ \A i \in Desc : i \in Waiting' <=> i \in Waiting /\ i # dv
  <2>1. Waiting' = Between(Succ(dv), av) /\ Waiting = Between(dv, av)
    BY Zenon, <1>1, <1>3 DEF Waiting
  <2> HIDE DEF dv, av
  <2>2. dv \in Waiting
    BY Zenon, <2>1, <1>3, <1>7, SlotFacts
  <2>3. \A i \in Desc : i \in Waiting' <=> i \in Waiting /\ i # dv
    BY Zenon, <2>1, <1>3, <1>7, RingShrinks
  <2> QED
    BY Zenon, <2>2, <2>3 DEF Waiting, Between
<1>12. Reported' = Reported /\ \A q : Busy(q)' <=> Busy(q)
  BY Zenon, <1>1, <1>2 DEF Reported, Busy
<1>13. \A d : InDevice(d)' <=> InDevice(d)
  BY Zenon, <1>1, <1>12 DEF InDevice
<1>14. Located'
  <2>1. \A i \in Waiting' : i \in Waiting /\ i # dv
    BY Zenon, <1>11
  <2>2. \A i \in Waiting' : avail[i] \notin taken /\ avail[i] # avail[dv]
    BY Zenon, <2>1, <1>11 DEF Located
  <2>3. \A i \in Waiting' : avail'[i] \notin taken'
    BY Zenon, <2>2, <1>1
  <2>4. ASSUME NEW i \in Waiting'
        PROVE  \E q \in Caller : Busy(q)' /\ q \notin done' /\ head'[q] = avail'[i]
    <3>1. PICK q \in Caller : Busy(q) /\ q \notin done /\ head[q] = avail[i]
      BY Zenon, <2>1 DEF Located, InDevice
    <3> QED
      BY Zenon, <3>1, <1>1, <1>12
  <2>5. \A i, j \in Waiting' : avail'[i] = avail'[j] => i = j
    BY Zenon, <2>1, <1>1 DEF Located
  <2>6. InDevice(avail[dv]) /\ \A d \in taken : InDevice(d)
    BY Zenon, <1>11 DEF Located
  <2>7. ASSUME NEW d \in taken' PROVE InDevice(d)'
    <3>1. InDevice(d)
      BY Zenon, <2>6, <1>1
    <3> QED
      BY Zenon, <3>1, <1>13
  <2>8. /\ \A i \in Reported' : \E q \in done' : Busy(q)' /\ head'[q] = used'[i]
        /\ \A i, j \in Reported' : used'[i] = used'[j] => i = j
        /\ \A q \in done' : Busy(q)' => \E i \in Reported' : used'[i] = head'[q]
    BY <1>1, <1>12 DEF Located
  <2> QED
    BY Zenon, <2>3, <2>4, <2>5, <2>7, <2>8 DEF Located, InDevice
<1>15. Settled'
  BY <1>1, <1>2 DEF Settled
<1> QED
  BY Zenon, <1>8, <1>9, <1>10, <1>14, <1>15 DEF Ind


\* The device reports a chain it has carried out: the used ring has room, because
\* its entries are the heads of other requests.
LEMMA CompleteStep ==
  ASSUME VirtioConstants, Ind, NEW d \in Desc, dev_complete(d)
  PROVE  Ind'
<1> DEFINE uv == usedId % NUM
<1> Typed /\ Counters /\ Chained /\ Divided /\ Located /\ Settled
  BY Zenon DEF Ind
<1>1. /\ d \in taken /\ taken' = taken \ {d} /\ used' = [used EXCEPT ![uv] = d]
      /\ usedId' = (usedId + 1) % UMod /\ done' = done \cup {q \in Caller : head[q] = d}
  BY Zenon DEF dev_complete
<1>2. /\ free' = free /\ next' = next /\ info' = info /\ avail' = avail
      /\ availIdx' = availIdx /\ usedIdx' = usedIdx /\ busy' = busy
      /\ devIdx' = devIdx /\ pc' = pc /\ head' = head /\ panicked' = panicked
  BY Zenon DEF dev_complete, driver
<1>3. Submitted' = Submitted
  BY Zenon, <1>2 DEF Submitted
<1>4. PICK p \in Caller : Busy(p) /\ p \notin done /\ head[p] = d
  BY Zenon, <1>1 DEF Located, InDevice
<1>5. p \in Submitted /\ busy[p]
  BY Zenon, <1>4 DEF Busy
<1>6. ASSUME NEW q \in Caller, head[q] = d PROVE q = p
  <2>1. q \in Submitted
    <3>1. None \notin Desc
      BY Zenon, SlotFacts
    <3> QED
      BY Zenon, <3>1, <1>6 DEF Settled
  <2> QED
    BY Zenon, <2>1, <1>4, <1>5, <1>6, Apart
<1>7. \A q : q \in done' <=> q \in done \/ q = p
  BY Zenon, <1>1, <1>4, <1>6
<1>8. uv \in Desc /\ usedId' % NUM = Succ(uv) /\ usedId' \in 0..(UMod - 1) /\ usedIdx \in Desc
  BY Zenon, <1>1, NextSlot DEF Counters
<1>9. d # Second(p) /\ Second(p) \in Desc
  BY Zenon, <1>4, <1>5 DEF Chained
<1>10. ASSUME NEW i \in Reported PROVE used[i] # d /\ used[i] # Second(p)
  <2>1. PICK q \in done : Busy(q) /\ head[q] = used[i]
    BY Zenon DEF Located
  <2>2. q \in Submitted /\ q # p
    BY Zenon, <2>1, <1>4 DEF Busy
  <2>3. head[q] # head[p] /\ head[q] # Second(p)
    BY Zenon, <2>2, <1>5, Apart
  <2> QED
    BY Zenon, <2>1, <2>3, <1>4
<1>11. Reported = Between(usedIdx, uv) /\ Reported' = Between(usedIdx, usedId' % NUM)
  BY Zenon, <1>2 DEF Reported
<1> HIDE DEF uv
<1>12. Succ(uv) # usedIdx
  <2>1. used \in [Desc -> Desc]
    BY Zenon DEF Typed
  <2>2. \A i, j \in Between(usedIdx, uv) : used[i] = used[j] => i = j
    BY Zenon, <1>11 DEF Located
  <2>3. \A i \in Between(usedIdx, uv) : used[i] # d /\ used[i] # Second(p)
    BY Zenon, <1>10, <1>11
  <2>4. uv \in Desc /\ usedIdx \in Desc
    BY Zenon, <1>8
  <2> QED
    BY Zenon, <2>1, <2>2, <2>3, <2>4, <1>9, RingRoom
<1>13. \A i \in Desc : i \in Reported' <=> i \in Reported \/ i = uv
  BY Zenon, <1>8, <1>11, <1>12, RingGrows
<1>14. Reported \subseteq Desc /\ Reported' \subseteq Desc /\ uv \notin Reported
  <2>1. uv \notin Reported
    BY Zenon, <1>8, <1>11, SlotFacts
  <2> QED
    BY Zenon, <2>1 DEF Reported, Between
<1>15. used'[uv] = d /\ \A i \in Reported : used'[i] = used[i]
  BY Zenon, <1>1, <1>8, <1>14 DEF Typed
<1>16. Typed'
  <2>1. used' \in [Desc -> Desc] /\ taken' \in SUBSET Desc
    BY Zenon, <1>1 DEF Typed
  <2> QED
    BY Zenon, <2>1, <1>2 DEF Typed
<1>17. Counters'
  <2>1. Lag' = Lag
    BY Zenon, <1>2 DEF Lag, Distance
  <2> QED
    BY Zenon, <2>1, <1>2, <1>8 DEF Counters, Ahead
<1>18. Chained' /\ Divided'
  BY Zenon, <1>2, <1>3, QueueKept
<1>19. Waiting' = Waiting /\ \A q : Busy(q)' <=> Busy(q)
  BY Zenon, <1>2, <1>3 DEF Waiting, Busy
<1>20. Located'
  <2>1. ASSUME NEW i \in Waiting'
        PROVE  /\ \E q \in Caller : Busy(q)' /\ q \notin done' /\ head'[q] = avail'[i]
               /\ avail'[i] \notin taken'
    <3>1. PICK q \in Caller : Busy(q) /\ q \notin done /\ head[q] = avail[i]
      BY Zenon, <1>19 DEF Located, InDevice
    <3>2. avail[i] \notin taken
      BY Zenon, <1>19 DEF Located
    <3>3. q # p
      BY Zenon, <3>1, <3>2, <1>1, <1>4
    <3>4. Busy(q)' /\ q \notin done' /\ head'[q] = avail'[i] /\ avail'[i] \notin taken'
      BY Zenon, <3>1, <3>2, <3>3, <1>1, <1>2, <1>7, <1>19
    <3> QED
      BY Zenon, <3>4
  <2>2. \A i, j \in Waiting' : avail'[i] = avail'[j] => i = j
    BY Zenon, <1>2, <1>19 DEF Located
  <2>3. ASSUME NEW e \in taken' PROVE InDevice(e)'
    <3>1. e \in taken /\ e # d
      BY Zenon, <1>1
    <3>2. PICK q \in Caller : Busy(q) /\ q \notin done /\ head[q] = e
      BY Zenon, <3>1 DEF Located, InDevice
    <3>3. q # p
      BY Zenon, <3>1, <3>2, <1>4
    <3>4. Busy(q)' /\ q \notin done' /\ head'[q] = e
      BY Zenon, <3>2, <3>3, <1>2, <1>7, <1>19
    <3> QED
      BY Zenon, <3>4 DEF InDevice
  <2>4. ASSUME NEW i \in Reported' PROVE \E q \in done' : Busy(q)' /\ head'[q] = used'[i]
    <3>1. CASE i \in Reported
      <4>1. PICK q \in done : Busy(q) /\ head[q] = used[i]
        BY Zenon, <3>1 DEF Located
      <4>2. q \in done' /\ Busy(q)' /\ head'[q] = used'[i]
        BY Zenon, <4>1, <3>1, <1>2, <1>7, <1>15, <1>19
      <4> QED
        BY Zenon, <4>2
    <3>2. CASE i = uv
      <4>1. p \in done' /\ Busy(p)' /\ head'[p] = used'[i]
        BY Zenon, <3>2, <1>2, <1>4, <1>7, <1>15, <1>19
      <4> QED
        BY Zenon, <4>1
    <3> QED
      BY Zenon, <3>1, <3>2, <1>13, <1>14
  <2>5. ASSUME NEW i \in Reported', NEW j \in Reported', used'[i] = used'[j] PROVE i = j
    <3>1. (i \in Reported \/ i = uv) /\ (j \in Reported \/ j = uv)
      BY Zenon, <1>13, <1>14
    <3>2. CASE i \in Reported /\ j \in Reported
      <4>1. used[i] = used[j]
        BY Zenon, <3>2, <2>5, <1>15
      <4> QED
        BY Zenon, <3>2, <4>1 DEF Located
    <3>3. CASE i = uv
      BY Zenon, <3>1, <3>3, <2>5, <1>10, <1>15
    <3>4. CASE j = uv
      BY Zenon, <3>1, <3>4, <2>5, <1>10, <1>15
    <3> QED
      BY Zenon, <3>1, <3>2, <3>3, <3>4
  <2>6. ASSUME NEW q \in done', Busy(q)' PROVE \E i \in Reported' : used'[i] = head'[q]
    <3>1. CASE q = p
      <4>1. uv \in Reported' /\ used'[uv] = head'[q]
        BY Zenon, <3>1, <1>2, <1>4, <1>8, <1>13, <1>15
      <4> QED
        BY Zenon, <4>1
    <3>2. CASE q # p
      <4>1. q \in done /\ Busy(q)
        BY Zenon, <3>2, <2>6, <1>7, <1>19
      <4>2. PICK i \in Reported : used[i] = head[q]
        BY Zenon, <4>1 DEF Located
      <4>3. i \in Reported' /\ used'[i] = head'[q]
        BY Zenon, <4>2, <1>2, <1>13, <1>14, <1>15
      <4> QED
        BY Zenon, <4>3
    <3> QED
      BY Zenon, <3>1, <3>2
  <2> QED
    BY Zenon, <2>1, <2>2, <2>3, <2>4, <2>5, <2>6 DEF Located, InDevice
<1>21. Settled'
  <2>1. done' \subseteq Caller /\ \A q \in done : q \in done'
    BY Zenon, <1>7 DEF Settled
  <2> QED
    BY <2>1, <1>2, <1>3 DEF Settled
<1> QED
  BY Zenon, <1>16, <1>17, <1>18, <1>20, <1>21 DEF Ind


\* The handler passes one report on to the process it is about.
LEMMA LoopStep ==
  ASSUME VirtioConstants, Ind, intr_loop
  PROVE  Ind'
<1> DEFINE uv == usedId % NUM
<1> Typed /\ Counters /\ Chained /\ Divided /\ Located /\ Settled
  BY Zenon DEF Ind
<1>1. /\ MoreUsed /\ busy' = [busy EXCEPT ![info[used[usedIdx]]] = FALSE]
      /\ pc' = WakeBuf(pc, info[used[usedIdx]]) /\ usedIdx' = NextUsed(usedIdx)
  BY Zenon DEF intr_loop
<1>2. /\ free' = free /\ next' = next /\ info' = info /\ avail' = avail
      /\ availIdx' = availIdx /\ used' = used /\ usedId' = usedId /\ taken' = taken
      /\ devIdx' = devIdx /\ head' = head /\ done' = done /\ panicked' = panicked
  BY Zenon DEF intr_loop, device
<1>3. uv \in Desc /\ usedIdx \in Desc
  BY Zenon, NextSlot DEF Counters
<1>4. usedIdx' = Succ(usedIdx) /\ usedIdx' \in Desc /\ usedIdx # uv
  BY Zenon, <1>1, <1>3, SlotFacts DEF MoreUsed
<1>5. Reported = Between(usedIdx, uv) /\ Reported' = Between(Succ(usedIdx), uv)
  BY Zenon, <1>2, <1>4 DEF Reported
<1> HIDE DEF uv
<1>6. usedIdx \in Reported
  BY Zenon, <1>3, <1>4, <1>5, SlotFacts
<1>7. \A i \in Reported' : i \in Reported /\ i # usedIdx
  <2>1. \A i \in Desc : i \in Reported' <=> i \in Reported /\ i # usedIdx
    BY Zenon, <1>3, <1>4, <1>5, RingShrinks
  <2> QED
    BY Zenon, <2>1 DEF Reported, Between
<1>8. \A i \in Reported : i # usedIdx => i \in Reported'
  <2>1. \A i \in Desc : i \in Reported' <=> i \in Reported /\ i # usedIdx
    BY Zenon, <1>3, <1>4, <1>5, RingShrinks
  <2> QED
    BY Zenon, <2>1 DEF Reported, Between
<1>9. PICK p \in done : Busy(p) /\ head[p] = used[usedIdx]
  BY Zenon, <1>6 DEF Located
<1>10. p \in Submitted /\ p \in Caller /\ info[used[usedIdx]] = p
  BY Zenon, <1>9 DEF Busy, Submitted, Chained
<1>11. /\ busy' = [busy EXCEPT ![p] = FALSE]
       /\ pc' = [pc EXCEPT ![p] = IF pc[p] = "io" THEN "awake" ELSE pc[p]]
  BY Zenon, <1>1, <1>10 DEF WakeBuf
<1>12. /\ busy' \in [Caller -> BOOLEAN] /\ pc' \in [Caller -> Labels] /\ ~busy'[p]
       /\ \A q \in Caller : q # p => busy'[q] = busy[q] /\ pc'[q] = pc[q]
  <2> DEFINE v == IF pc[p] = "io" THEN "awake" ELSE pc[p]
  <2>1. pc \in [Caller -> Labels] /\ v \in Labels
    BY Zenon, <1>10 DEF Typed, Labels
  <2>2. pc' = [pc EXCEPT ![p] = v]
    BY Zenon, <1>11
  <2> HIDE DEF v
  <2>3. pc' \in [Caller -> Labels] /\ \A q \in Caller : q # p => pc'[q] = pc[q]
    BY Zenon, <2>1, <2>2
  <2>4. busy' \in [Caller -> BOOLEAN] /\ ~busy'[p] /\ \A q \in Caller : q # p => busy'[q] = busy[q]
    BY Zenon, <1>10, <1>11 DEF Typed
  <2> QED
    BY Zenon, <2>3, <2>4
<1>13. Submitted' = Submitted
  <2>1. pc'[p] \in {"io", "awake"}
    <3>1. pc'[p] = IF pc[p] = "io" THEN "awake" ELSE pc[p]
      BY Zenon, <1>10, <1>11 DEF Typed
    <3> QED
      BY Zenon, <3>1, <1>10 DEF Submitted
  <2>2. \A q \in Caller : pc'[q] \in {"io", "awake"} <=> pc[q] \in {"io", "awake"}
    BY Zenon, <2>1, <1>10, <1>12 DEF Submitted
  <2> QED
    BY Zenon, <2>2 DEF Submitted
<1>14. Typed'
  BY Zenon, <1>2, <1>12 DEF Typed
<1>15. Counters'
  <2>1. Lag' = Lag
    BY Zenon, <1>2 DEF Lag, Distance
  <2> QED
    BY Zenon, <2>1, <1>2, <1>4 DEF Counters, Ahead
<1>16. Chained' /\ Divided'
  BY Zenon, <1>2, <1>13, QueueKept
<1>17. ASSUME NEW q PROVE Busy(q)' <=> Busy(q) /\ q # p
  <2>1. CASE q = p
    BY Zenon, <2>1, <1>12 DEF Busy
  <2>2. CASE q # p
    BY Zenon, <2>2, <1>12, <1>13 DEF Busy, Submitted
  <2> QED
    BY Zenon, <2>1, <2>2
<1>18. Waiting' = Waiting
  BY Zenon, <1>2 DEF Waiting
<1>19. \A e : InDevice(e) => InDevice(e)'
  <2>1. ASSUME NEW e, NEW q \in Caller, Busy(q), q \notin done, head[q] = e
        PROVE  Busy(q)' /\ q \notin done' /\ head'[q] = e
    BY Zenon, <2>1, <1>2, <1>9, <1>17
  <2> QED
    BY Zenon, <2>1 DEF InDevice
<1>20. Located'
  <2>1. ASSUME NEW i \in Waiting'
        PROVE  /\ \E q \in Caller : Busy(q)' /\ q \notin done' /\ head'[q] = avail'[i]
               /\ avail'[i] \notin taken'
    <3>1. PICK q \in Caller : Busy(q) /\ q \notin done /\ head[q] = avail[i]
      BY Zenon, <1>18 DEF Located, InDevice
    <3>2. avail[i] \notin taken
      BY Zenon, <1>18 DEF Located
    <3>3. Busy(q)' /\ q \notin done' /\ head'[q] = avail'[i] /\ avail'[i] \notin taken'
      BY Zenon, <3>1, <3>2, <1>2, <1>9, <1>17
    <3> QED
      BY Zenon, <3>3
  <2>2. \A i, j \in Waiting' : avail'[i] = avail'[j] => i = j
    BY Zenon, <1>2, <1>18 DEF Located
  <2>3. \A e \in taken' : InDevice(e)'
    BY Zenon, <1>2, <1>19 DEF Located
  <2>4. ASSUME NEW i \in Reported' PROVE \E q \in done' : Busy(q)' /\ head'[q] = used'[i]
    <3>1. PICK q \in done : Busy(q) /\ head[q] = used[i]
      BY Zenon, <1>7 DEF Located
    <3>2. used[i] # used[usedIdx]
      BY Zenon, <1>6, <1>7 DEF Located
    <3>3. q # p
      BY Zenon, <3>1, <3>2, <1>9
    <3>4. q \in done' /\ Busy(q)' /\ head'[q] = used'[i]
      BY Zenon, <3>1, <3>3, <1>2, <1>17
    <3> QED
      BY Zenon, <3>4
  <2>5. \A i, j \in Reported' : used'[i] = used'[j] => i = j
    BY Zenon, <1>2, <1>7 DEF Located
  <2>6. ASSUME NEW q \in done', Busy(q)' PROVE \E i \in Reported' : used'[i] = head'[q]
    <3>1. q \in done /\ Busy(q) /\ q # p
      BY Zenon, <2>6, <1>2, <1>17
    <3>2. PICK i \in Reported : used[i] = head[q]
      BY Zenon, <3>1 DEF Located
    <3>3. head[q] # head[p]
      BY Zenon, <3>1, <1>10, Apart DEF Busy
    <3>4. i \in Reported'
      BY Zenon, <3>2, <3>3, <1>8, <1>9
    <3> QED
      BY Zenon, <3>2, <3>4, <1>2
  <2> QED
    BY Zenon, <2>1, <2>2, <2>3, <2>4, <2>5, <2>6 DEF Located, InDevice
<1>21. Settled'
  <2>1. ASSUME NEW q \in Caller, q \notin Submitted' PROVE head'[q] = None /\ ~busy'[q]
    BY Zenon, <2>1, <1>2, <1>10, <1>12, <1>13 DEF Settled
  <2>2. ASSUME NEW q \in Submitted' PROVE busy'[q] \/ q \in done'
    <3>1. q \in Submitted /\ q \in Caller /\ (busy[q] \/ q \in done)
      BY Zenon, <1>13 DEF Settled, Submitted
    <3> QED
      BY Zenon, <3>1, <1>2, <1>9, <1>12
  <2>3. done' \subseteq Caller /\ ~panicked'
    BY Zenon, <1>2 DEF Settled
  <2> QED
    BY Zenon, <2>1, <2>2, <2>3 DEF Settled
<1> QED
  BY Zenon, <1>14, <1>15, <1>16, <1>20, <1>21 DEF Ind


-----------------------------------------------------------------------------
(* The theorems. *)

LEMMA InitInd ==
  ASSUME VirtioConstants, Init
  PROVE  Ind
<1>1. /\ NUM \in Nat /\ NUM > 2 /\ UMod \in Nat /\ UMod > NUM
      /\ 0 \in Desc /\ 0 \in 0..(UMod - 1) /\ 0 % NUM = 0
  BY DEF VirtioConstants, Desc
<1>2. Submitted = {}
  BY Zenon DEF Init, Submitted
<1>3. Typed
  BY Zenon, <1>1 DEF Init, Typed, Labels
<1>4. Counters
  <2>1. Lag = 0 /\ Ahead(0, 0) = 0
    BY <1>1 DEF Init, Lag, Distance, Ahead
  <2>2. Lag < NUM /\ availIdx % NUM = Ahead(devIdx % NUM, Lag)
    BY <2>1, <1>1 DEF Init
  <2> QED
    BY Zenon, <2>2, <1>1 DEF Init, Counters
<1>5. Chained /\ Divided
  BY Zenon, <1>2 DEF Chained, Divided, Init
<1>6. Waiting = {} /\ Reported = {}
  <2>1. Between(0, 0) = {}
    BY Zenon, <1>1, SlotFacts
  <2> QED
    BY Zenon, <2>1, <1>1 DEF Waiting, Reported, Init
<1>7. Located
  BY Zenon, <1>6 DEF Located, Init
<1>8. Settled
  BY Zenon, <1>2 DEF Settled, Init
<1> QED
  BY Zenon, <1>3, <1>4, <1>5, <1>7, <1>8 DEF Ind

LEMMA NextInd ==
  ASSUME VirtioConstants, Ind, [Next]_vars
  PROVE  Ind'
<1>1. ASSUME NEW p \in Caller, call(p) \/ ProcStep(p) \/ kill(p) PROVE Ind'
  BY Zenon, <1>1, CallStep, SubmitStep, NodescStep, AgainStep, FinishStep, KillStep DEF ProcStep
<1>2. CASE Device
  BY Zenon, <1>2, TakeStep, CompleteStep DEF Device
<1>3. CASE Handler
  BY Zenon, <1>3, HandlerCalm, LoopStep DEF Handler
<1>4. CASE UNCHANGED vars
  BY Zenon, <1>4, StutterStep
<1> QED
  BY Zenon, <1>1, <1>2, <1>3, <1>4 DEF Next

LEMMA QueueFromInd ==
  ASSUME VirtioConstants, Ind
  PROVE  QueueSound
<1> Typed /\ Counters /\ Chained /\ Divided /\ Located /\ Settled
  BY Zenon DEF Ind
<1>1. \A p \in Submitted : Chain(head[p]) = Owned(p)
  BY Zenon, ChainIsOwned
<1>2. free = Desc \ UNION {Chain(head[p]) : p \in Submitted}
  <2>1. \A x : x \in free <=> x \in Desc /\ \A p \in Submitted : x \notin Chain(head[p])
    BY Zenon, <1>1, FreeIff
  <2> QED
    BY Zenon, <2>1
<1>3. \A p, q \in Submitted : p # q => Chain(head[p]) \cap Chain(head[q]) = {}
  <2>1. \A p, q \in Submitted : p # q => Owned(p) \cap Owned(q) = {}
    BY Zenon DEF Divided
  <2> QED
    BY Zenon, <2>1, <1>1
<1>4. usedIdx \in Desc /\ usedId % NUM \in Desc /\ usedIdx % NUM = usedIdx
  BY Zenon, NextSlot, SlotFacts DEF Counters
<1>5. ASSUME MoreUsed PROVE \E p \in Submitted : busy[p] /\ p \in done
  <2>1. usedIdx \in Reported
    BY Zenon, <1>4, <1>5, SlotFacts DEF MoreUsed, Reported
  <2> QED
    BY Zenon, <2>1 DEF Located, Busy
<1>6. ASSUME NEW p \in Submitted, busy[p], p \in done PROVE MoreUsed
  <2>1. Reported # {}
    BY Zenon, <1>6 DEF Located, Busy
  <2>2. Between(usedIdx, usedIdx) = {}
    BY Zenon, <1>4, SlotFacts
  <2> QED
    BY Zenon, <2>1, <2>2, <1>4 DEF MoreUsed, Reported
<1> QED
  BY Zenon, <1>2, <1>3, <1>5, <1>6 DEF QueueSound, Settled

\* For any number of descriptors (at least the three of one request) and of
\* processes, and any width of the ring counters the number of descriptors
\* divides, virtio_disk.c neither leaks a descriptor nor hands one out twice,
\* free_desc never panics, and the handler's test of used_idx against used->id
\* sees a completion exactly when one is unreported.
THEOREM QueueStaysSound ==
  ASSUME VirtioConstants
  PROVE  Spec => []QueueSound
<1>1. Init => Ind
  BY Zenon, InitInd
<1>2. Ind /\ [Next]_vars => Ind'
  BY Zenon, NextInd
<1>3. Ind => QueueSound
  BY Zenon, QueueFromInd
<1> QED
  BY <1>1, <1>2, <1>3, PTL DEF Spec

\* Only rw_finish makes a woken process return.
LEMMA ReturnNotBusy ==
  ASSUME Ind, [Next]_vars, NEW p \in Caller, pc[p] = "awake", pc'[p] = "idle"
  PROVE  ~busy[p]
<1>1. pc \in [Caller -> Labels]
  BY Zenon DEF Ind, Typed
<1>2. ASSUME pc' = pc PROVE FALSE
  BY Zenon, <1>2
<1>3. ASSUME NEW q \in Caller, NEW v, v # "idle", pc' = [pc EXCEPT ![q] = v] PROVE FALSE
  BY Zenon, <1>1, <1>3
<1>4. ASSUME NEW q \in Caller, call(q) \/ rw_submit(q) \/ rw_again(q) PROVE FALSE
  BY Zenon, <1>4, <1>3 DEF call, rw_submit, rw_again
<1>5. ASSUME NEW q \in Caller, kill(q) PROVE FALSE
  <2>1. pc[q] # "awake" /\ pc' = [pc EXCEPT ![q] = IF pc[q] = "io" THEN "awake" ELSE "alloc"]
    BY Zenon, <1>5 DEF kill
  <2> QED
    BY Zenon, <2>1, <1>1
<1>6. ASSUME NEW q \in Caller, rw_nodesc(q) PROVE FALSE
  <2>1. pc[q] = "alloc" /\ pc' = [(IF free = {} THEN pc ELSE WakeDesc(pc)) EXCEPT ![q] = "nodesc"]
    BY Zenon, <1>6 DEF rw_nodesc
  <2>2. q # p
    BY Zenon, <2>1
  <2>3. pc'[p] = pc[p]
    BY Zenon, <2>1, <2>2, <1>1 DEF WakeDesc
  <2> QED
    BY Zenon, <2>3
<1>7. ASSUME NEW q \in Caller, rw_finish(q) PROVE ~busy[p]
  <2>1. CASE q = p
    BY Zenon, <2>1, <1>7 DEF rw_finish, Finished
  <2>2. CASE q # p
    <3>1. pc' = WakeDesc([pc EXCEPT ![q] = "idle"])
      BY Zenon, <1>2, <1>7 DEF rw_finish
    <3>2. pc'[p] = pc[p]
      BY Zenon, <3>1, <2>2, <1>1 DEF WakeDesc
    <3> QED
      BY Zenon, <3>2
  <2> QED
    BY Zenon, <2>1, <2>2
<1>8. ASSUME Device \/ intr_start \/ intr_exit \/ intr_ack \/ UNCHANGED vars PROVE FALSE
  BY Zenon, <1>2, <1>8
  DEF Device, dev_take, dev_complete, intr_start, intr_exit, intr_ack, vars
<1>9. ASSUME intr_loop PROVE FALSE
  <2> DEFINE q == info[used[usedIdx]]
  <2>1. pc' = [pc EXCEPT ![q] = IF pc[q] = "io" THEN "awake" ELSE pc[q]]
    BY Zenon, <1>9 DEF intr_loop, WakeBuf
  <2> HIDE DEF q
  <2>2. CASE q = p
    BY Zenon, <2>1, <2>2, <1>1
  <2>3. CASE q # p
    BY Zenon, <2>1, <2>3, <1>1
  <2> QED
    BY Zenon, <2>2, <2>3
<1> QED
  BY Zenon, <1>4, <1>5, <1>6, <1>7, <1>8, <1>9 DEF Next, ProcStep, Handler

\* virtio_disk_rw returns to bread or bwrite only when the device has carried out
\* the caller's own request: no wakeup, kill or completion of another's request
\* lets it return earlier.
THEOREM ReturnsWhenDone ==
  ASSUME VirtioConstants
  PROVE  Spec => FinishAfterDone
<1>1. Init => Ind
  BY Zenon, InitInd
<1>2. Ind /\ [Next]_vars => Ind'
  BY Zenon, NextInd
<1>3. ASSUME Ind, [Next]_vars
      PROVE  [\A p \in Caller : pc[p] = "awake" /\ pc'[p] = "idle" => p \in done]_vars
  <2> SUFFICES ASSUME NEW p \in Caller, pc[p] = "awake", pc'[p] = "idle" PROVE p \in done
    OBVIOUS
  <2>1. ~busy[p] => p \in done
    BY Zenon, <1>3 DEF Ind, Settled, Submitted
  <2>2. ~busy[p]
    BY <1>3, ReturnNotBusy
  <2> QED
    BY Zenon, <2>1, <2>2
<1> QED
  BY <1>1, <1>2, <1>3, PTL DEF Spec, FinishAfterDone

=============================================================================
