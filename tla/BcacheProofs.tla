---------------------------- MODULE BcacheProofs ----------------------------
(***************************************************************************)
(* Proofs about the buffer cache: a block has one buffer and a buffer one   *)
(* user, and a reader sees what was written last, for any number of         *)
(* processes, buffers and blocks.                                           *)
(***************************************************************************)
EXTENDS Bcache, FiniteSetTheorems, TLAPS

-----------------------------------------------------------------------------
(* The inductive invariant. *)

Typed ==
  /\ blockno \in [Buf -> DiskBlock \cup {Nil}] /\ valid \in [Buf -> BOOLEAN]
  /\ refcnt \in [Buf -> Nat] /\ holder \in [Buf -> Proc \cup {Nil}]
  /\ data \in [Buf -> Val] /\ disk \in [DiskBlock -> Val] /\ last \in [DiskBlock -> Val]
  /\ bpc \in [Proc -> BLabels]
  /\ want \in [Proc -> DiskBlock \cup {Nil}] /\ has \in [Proc -> Buf \cup {NoBuf}]
  /\ pins \in SUBSET DiskBlock

\* Every buffer is in the list.
Listed == /\ lru \in [Place -> Buf]
          /\ \A b \in Buf : \E i \in Place : lru[i] = b

OneBuffer ==
  \A a, b \in Buf : blockno[a] # Nil /\ blockno[a] = blockno[b] => a = b

\* From bget to brelse a process has the buffer of the block it asked for.
Asked == \A p \in Proc :
  IF bpc[p] = "idle" THEN has[p] = NoBuf
  ELSE has[p] \in Buf /\ want[p] \in DiskBlock /\ blockno[has[p]] = want[p]

\* The count of a buffer: its users, and the log while the block is pinned.
Users(b) == {p \in Proc : has[p] = b}
Pinned(b) == IF blockno[b] \in pins THEN 1 ELSE 0
Counted == \A b \in Buf : refcnt[b] = Cardinality(Users(b)) + Pinned(b)

Locked ==
  /\ \A p \in Proc : Holding(p) => holder[has[p]] = p
  /\ \A b \in Buf : holder[b] # Nil => Holding(holder[b]) /\ has[holder[b]] = b

\* What a valid buffer holds, and what the disk holds while no pin says that
\* the buffer is newer.
Fresh ==
  /\ \A b \in Buf : blockno[b] # Nil /\ valid[b] => data[b] = last[blockno[b]]
  /\ \A p \in Proc : bpc[p] \in {"use", "used"} => valid[has[p]]
  /\ \A k \in pins : \E b \in Buf : blockno[b] = k /\ valid[b]
  /\ \A k \in DiskBlock \ pins : disk[k] = last[k]

Ind == Typed /\ Listed /\ OneBuffer /\ Asked /\ Counted /\ Locked /\ Fresh

-----------------------------------------------------------------------------
(* The list. *)

INSTANCE WellFoundedInduction

\* A nonempty set of numbers has a least one, and up to a bound a greatest one.
LEMMA Least ==
  ASSUME NEW T, T \subseteq Nat, T # {}
  PROVE  \E x \in T : \A y \in T : x <= y
<1> DEFINE R == {ss \in Nat \X Nat : ss[1] < ss[2]}
<1>1. IsWellFoundedOn(R, Nat)
  BY NatLessThanWellFounded, Zenon DEF OpToRel
<1> HIDE DEF R
<1>2. PICK x \in T : \A y \in T : ~(<<y, x>> \in R)
  BY <1>1, WFMin, Zenon
<1>3. \A y \in T : ~(y < x)
  BY <1>2, Zenon DEF R
<1> QED
  BY <1>3

LEMMA Extremes ==
  ASSUME BcacheConstants, NEW S \in SUBSET Place, S # {}
  PROVE  Min(S) \in S /\ Max(S) \in S
<1> DEFINE T == {NBuf - i : i \in S}
<1>1. \A i \in S : i \in Nat /\ NBuf - i \in Nat
  BY DEF BcacheConstants, Place
<1>2. \E x \in S : \A y \in S : x <= y
  BY Zenon, <1>1, Least
<1>3. \E x \in T : \A y \in T : x <= y
  <2>1. T \subseteq Nat /\ T # {}
    BY Zenon, <1>1
  <2> HIDE DEF T
  <2> QED
    BY Zenon, <2>1, Least
<1>4. PICK i \in S : \A j \in S : NBuf - i <= NBuf - j
  BY Zenon, <1>3
<1>5. \A j \in S : i >= j
  BY <1>4 DEF BcacheConstants, Place
<1> QED
  BY Zenon, <1>2, <1>5 DEF Min, Max

\* bget's first loop finds a buffer with the block, the second an unused one.
LEMMA HitFound ==
  ASSUME BcacheConstants, Listed, NEW k, Cached(k) # {}
  PROVE  lru[Min({i \in Place : lru[i] \in Cached(k)})] \in Cached(k)
<1> DEFINE S == {i \in Place : lru[i] \in Cached(k)}
<1>1. S \in SUBSET Place /\ S # {}
  BY Zenon DEF Listed, Cached
<1> QED
  BY Zenon, <1>1, Extremes

LEMMA VictimFound ==
  ASSUME BcacheConstants, Listed, Unused # {}
  PROVE  Victim \in Unused
<1> DEFINE S == {i \in Place : lru[i] \in Unused}
<1>1. S \in SUBSET Place /\ S # {}
  BY Zenon DEF Listed, Unused
<1> QED
  BY Zenon, <1>1, Extremes DEF Victim

\* Moving a buffer to the front loses none.
LEMMA FrontListed ==
  ASSUME BcacheConstants, Listed, NEW b \in Buf, lru' = ToFront(b)
  PROVE  Listed'
<1> DEFINE i == CHOOSE j \in Place : lru[j] = b
<1>1. i \in Place /\ lru[i] = b
  BY Zenon DEF Listed
<1> HIDE DEF i
<1>2. lru' = [j \in Place |-> IF j = 1 THEN b ELSE IF j <= i THEN lru[j - 1] ELSE lru[j]]
  BY Zenon DEF ToFront, i
<1>3. \A j \in Place : j = 1 \/ j - 1 \in Place
  BY DEF Place, BcacheConstants
<1>4. lru' \in [Place -> Buf]
  BY <1>2, <1>3 DEF Listed
<1>5. ASSUME NEW c \in Buf PROVE \E j \in Place : lru'[j] = c
  <2>1. PICK j \in Place : lru[j] = c
    BY Zenon DEF Listed
  <2>2. 1 \in Place /\ lru'[1] = b
    BY <1>2 DEF Place, BcacheConstants
  <2>3. CASE j = i
    BY Zenon, <2>1, <2>2, <2>3, <1>1
  <2>4. CASE j < i
    <3>1. j + 1 \in Place /\ j + 1 # 1 /\ j + 1 <= i /\ (j + 1) - 1 = j
      BY <2>4, <1>1 DEF Place, BcacheConstants
    <3> QED
      BY Zenon, <3>1, <2>1, <1>2
  <2>5. CASE j > i
    <3>1. j # 1 /\ ~(j <= i)
      BY <2>5, <1>1 DEF Place, BcacheConstants
    <3> QED
      BY Zenon, <3>1, <2>1, <1>2
  <2> QED
    BY <2>3, <2>4, <2>5, <1>1 DEF Place
<1> QED
  BY Zenon, <1>4, <1>5 DEF Listed, Place, Buf

-----------------------------------------------------------------------------
(* The counts. *)

LEMMA CountRange ==
  ASSUME BcacheConstants, NEW b
  PROVE  /\ IsFiniteSet(Users(b)) /\ Cardinality(Users(b)) \in Nat
         /\ Cardinality(Users(b)) <= Cardinality(Proc) /\ Cardinality(Proc) \in Nat
<1>1. IsFiniteSet(Proc) /\ Users(b) \in SUBSET Proc
  BY Zenon DEF BcacheConstants, Users
<1>2. IsFiniteSet(Users(b)) /\ Cardinality(Users(b)) <= Cardinality(Proc)
  BY Zenon, <1>1, FS_Subset
<1> QED
  BY Zenon, <1>1, <1>2, FS_CardinalityType

\* A process that comes to have a buffer, or gives it up, changes one count.
LEMMA UserComes ==
  ASSUME BcacheConstants, Typed, NEW p \in Proc, NEW b \in Buf, has[p] = NoBuf,
         has' = [has EXCEPT ![p] = b], NoBuf \notin Buf
  PROVE  /\ Cardinality(Users(b)') = Cardinality(Users(b)) + 1
         /\ Cardinality(Users(b)) < Cardinality(Proc)
         /\ \A c \in Buf : c # b => Users(c)' = Users(c)
<1>1. \A q \in Proc : has'[q] = IF q = p THEN b ELSE has[q]
  BY Zenon DEF Typed
<1>2. Users(b)' = Users(b) \cup {p} /\ p \notin Users(b)
  BY Zenon, <1>1 DEF Users
<1>3. IsFiniteSet(Users(b)) /\ Cardinality(Users(b)) \in Nat
  BY Zenon, CountRange
<1>4. /\ IsFiniteSet(Users(b) \cup {p})
      /\ Cardinality(Users(b) \cup {p}) = Cardinality(Users(b)) + 1
  BY Zenon, <1>2, <1>3, FS_AddElement
<1>5. IsFiniteSet(Proc) /\ Users(b) \cup {p} \in SUBSET Proc
  BY Zenon DEF BcacheConstants, Users
<1>6. Cardinality(Users(b) \cup {p}) <= Cardinality(Proc) /\ Cardinality(Proc) \in Nat
  BY Zenon, <1>5, FS_Subset, FS_CardinalityType
<1>7. Cardinality(Users(b)) < Cardinality(Proc)
  BY <1>3, <1>4, <1>6
<1>8. ASSUME NEW c \in Buf, c # b PROVE Users(c)' = Users(c)
  BY Zenon, <1>1, <1>8 DEF Users
<1> QED
  BY Zenon, <1>2, <1>4, <1>7, <1>8

LEMMA UserGoes ==
  ASSUME BcacheConstants, Typed, NEW p \in Proc, NEW b \in Buf, has[p] = b,
         has' = [has EXCEPT ![p] = NoBuf], NoBuf \notin Buf
  PROVE  /\ Cardinality(Users(b)') = Cardinality(Users(b)) - 1
         /\ Cardinality(Users(b)) > 0
         /\ \A c \in Buf : c # b => Users(c)' = Users(c)
<1>1. \A q \in Proc : has'[q] = IF q = p THEN NoBuf ELSE has[q]
  BY Zenon DEF Typed
<1>2. Users(b)' = Users(b) \ {p} /\ p \in Users(b)
  BY Zenon, <1>1 DEF Users
<1>3. IsFiniteSet(Users(b)) /\ Cardinality(Users(b)) \in Nat
  BY Zenon, CountRange
<1>4. /\ IsFiniteSet(Users(b) \ {p})
      /\ Cardinality(Users(b) \ {p}) = Cardinality(Users(b)) - 1
  BY Zenon, <1>2, <1>3, FS_RemoveElement
<1>5. Cardinality(Users(b) \ {p}) \in Nat
  BY Zenon, <1>4, FS_CardinalityType
<1>6. ASSUME NEW c \in Buf, c # b PROVE Users(c)' = Users(c)
  BY Zenon, <1>1, <1>6 DEF Users
<1>7. Cardinality(Users(b)) > 0
  BY <1>3, <1>4, <1>5
<1> QED
  BY Zenon, <1>2, <1>4, <1>6, <1>7

\* Below the bound of the counts, unsigned arithmetic is arithmetic.
LEMMA NoWrap ==
  ASSUME BcacheConstants, NEW x \in Nat, x <= Cardinality(Proc) + 1, Cardinality(Proc) \in Nat
  PROVE  /\ x <= Cardinality(Proc) => (x + 1) % RefMod = x + 1
         /\ x > 0 => (x + RefMod - 1) % RefMod = x - 1
<1>1. RefMod \in Nat /\ RefMod > Cardinality(Proc) + 1
  BY Zenon DEF BcacheConstants
<1>2. x <= Cardinality(Proc) => (x + 1) % RefMod = x + 1
  BY <1>1
<1>3. ASSUME x > 0 PROVE (x + RefMod - 1) % RefMod = x - 1
  <2> DEFINE y == x - 1
  <2>1. y \in 0..(RefMod - 1) /\ x + RefMod - 1 = y + RefMod
    BY <1>1, <1>3
  <2> HIDE DEF y
  <2>2. (y + RefMod) % RefMod = y
    BY <1>1, <2>1
  <2> QED
    BY <2>1, <2>2 DEF y
<1> QED
  BY Zenon, <1>2, <1>3


-----------------------------------------------------------------------------
(* The steps. *)

LEMMA Constant ==
  ASSUME BcacheConstants
  PROVE  /\ NoBuf \notin Buf /\ Nil \notin DiskBlock /\ Nil \notin Proc /\ 1 \in Nat
         /\ \A x \in Nat : (x + 1) % RefMod \in Nat /\ (x + RefMod - 1) % RefMod \in Nat
<1>1. NoBuf \notin Buf /\ Nil \notin DiskBlock /\ Nil \notin Proc /\ 1 \in Nat
  BY DEF BcacheConstants, NoBuf, Buf
<1>2. Cardinality(Proc) \in Nat
  BY Zenon, FS_CardinalityType DEF BcacheConstants
<1>3. RefMod \in Nat /\ RefMod > 0
  BY <1>2 DEF BcacheConstants
<1>4. \A x \in Nat : (x + 1) % RefMod \in Nat /\ (x + RefMod - 1) % RefMod \in Nat
  BY <1>3
<1> QED
  BY Zenon, <1>1, <1>4

\* The counts follow when a process comes to have a buffer, or gives it up.
LEMMA ComesCounted ==
  ASSUME BcacheConstants, Typed, Counted, NEW p \in Proc, NEW b \in Buf, has[p] = NoBuf,
         has' = [has EXCEPT ![p] = b],
         \A c \in Buf : Pinned(c)' = Pinned(c),
         \A c \in Buf : c # b => refcnt'[c] = refcnt[c],
         refcnt'[b] = (refcnt[b] + 1) % RefMod \/ (refcnt[b] = 0 /\ refcnt'[b] = 1)
  PROVE  Counted'
<1>1. /\ Cardinality(Users(b)') = Cardinality(Users(b)) + 1
      /\ Cardinality(Users(b)) < Cardinality(Proc)
      /\ \A c \in Buf : c # b => Users(c)' = Users(c)
  BY Zenon, UserComes, Constant
<1>2. Cardinality(Users(b)) \in Nat /\ Cardinality(Proc) \in Nat
  BY Zenon, CountRange
<1>3. Pinned(b) \in {0, 1} /\ Pinned(b)' = Pinned(b)
  BY Zenon DEF Pinned
<1>4. refcnt[b] = Cardinality(Users(b)) + Pinned(b)
  BY Zenon DEF Counted
<1>5. refcnt[b] \in Nat /\ refcnt[b] <= Cardinality(Proc)
  BY <1>1, <1>2, <1>3, <1>4
<1>6. refcnt'[b] = refcnt[b] + 1
  <2>1. refcnt[b] <= Cardinality(Proc) + 1
    BY <1>2, <1>5
  <2>2. (refcnt[b] + 1) % RefMod = refcnt[b] + 1
    BY Zenon, <2>1, <1>2, <1>5, NoWrap
  <2> QED
    BY <2>2
<1>7. refcnt'[b] = Cardinality(Users(b)') + Pinned(b)'
  BY <1>1, <1>2, <1>3, <1>4, <1>6
<1>8. ASSUME NEW c \in Buf, c # b
      PROVE  refcnt'[c] = Cardinality(Users(c)') + Pinned(c)'
  BY Zenon, <1>1, <1>8 DEF Counted
<1> QED
  BY Zenon, <1>7, <1>8 DEF Counted

LEMMA GoesCounted ==
  ASSUME BcacheConstants, Typed, Counted, NEW p \in Proc, NEW b \in Buf, has[p] = b,
         has' = [has EXCEPT ![p] = NoBuf],
         \A c \in Buf : Pinned(c)' = Pinned(c),
         \A c \in Buf : c # b => refcnt'[c] = refcnt[c],
         refcnt'[b] = (refcnt[b] + RefMod - 1) % RefMod
  PROVE  Counted'
<1>1. /\ Cardinality(Users(b)') = Cardinality(Users(b)) - 1
      /\ Cardinality(Users(b)) > 0
      /\ \A c \in Buf : c # b => Users(c)' = Users(c)
  BY Zenon, UserGoes, Constant
<1>2. /\ Cardinality(Users(b)) \in Nat /\ Cardinality(Proc) \in Nat
      /\ Cardinality(Users(b)) <= Cardinality(Proc)
  BY Zenon, CountRange
<1>3. Pinned(b) \in {0, 1} /\ Pinned(b)' = Pinned(b)
  BY Zenon DEF Pinned
<1>4. refcnt[b] = Cardinality(Users(b)) + Pinned(b)
  BY Zenon DEF Counted
<1>5. refcnt[b] \in Nat /\ refcnt[b] <= Cardinality(Proc) + 1 /\ refcnt[b] > 0
  BY <1>1, <1>2, <1>3, <1>4
<1>6. refcnt'[b] = refcnt[b] - 1
  BY Zenon, <1>2, <1>5, NoWrap
<1>7. refcnt'[b] = Cardinality(Users(b)') + Pinned(b)'
  BY <1>1, <1>2, <1>3, <1>4, <1>6
<1>8. ASSUME NEW c \in Buf, c # b
      PROVE  refcnt'[c] = Cardinality(Users(c)') + Pinned(c)'
  BY Zenon, <1>1, <1>8 DEF Counted
<1> QED
  BY Zenon, <1>7, <1>8 DEF Counted

LEMMA HitStep ==
  ASSUME BcacheConstants, Ind, NEW p \in Proc, NEW k \in DiskBlock, bget_hit(p, k)
  PROVE  Ind'
<1> Typed /\ Listed /\ OneBuffer /\ Asked /\ Counted /\ Locked /\ Fresh
  BY Zenon DEF Ind
<1> DEFINE b == lru[Min({i \in Place : lru[i] \in Cached(k)})]
<1>1. b \in Buf /\ blockno[b] = k
  BY Zenon, HitFound DEF bget_hit, Cached
<1> HIDE DEF b
<1>2. /\ refcnt' = [refcnt EXCEPT ![b] = (refcnt[b] + 1) % RefMod]
      /\ has' = [has EXCEPT ![p] = b] /\ want' = [want EXCEPT ![p] = k]
      /\ bpc' = [bpc EXCEPT ![p] = "lock"] /\ bpc[p] = "idle"
      /\ UNCHANGED <<blockno, valid, holder, data, lru, disk, pins, last>>
  BY Zenon DEF bget_hit, MayStart, Incr, b
<1>3. \A c \in Buf : refcnt'[c] = IF c = b THEN (refcnt[b] + 1) % RefMod ELSE refcnt[c]
  BY Zenon, <1>2 DEF Typed
<1>4. \A q \in Proc : /\ has'[q] = IF q = p THEN b ELSE has[q]
                      /\ want'[q] = IF q = p THEN k ELSE want[q]
                      /\ bpc'[q] = IF q = p THEN "lock" ELSE bpc[q]
  BY Zenon, <1>2 DEF Typed
<1>5. Typed'
  <2>1. (refcnt[b] + 1) % RefMod \in Nat
    BY Zenon, <1>1, Constant DEF Typed
  <2>2. refcnt' \in [Buf -> Nat]
    BY Zenon, <1>2, <2>1 DEF Typed
  <2> QED
    BY Zenon, <1>1, <1>2, <2>2 DEF Typed, BLabels
<1>6. Listed' /\ OneBuffer'
  BY Zenon, <1>2 DEF Listed, OneBuffer
<1>7. Asked'
  BY <1>1, <1>2, <1>4 DEF Asked
<1>8. Counted'
  <2>1. has[p] = NoBuf /\ \A c \in Buf : Pinned(c)' = Pinned(c)
    BY Zenon, <1>2 DEF Asked, Pinned
  <2> QED
    BY Zenon, <1>1, <1>2, <1>3, <2>1, ComesCounted
<1>9. Locked'
  BY <1>2, <1>4, Constant DEF Locked, Holding, Typed
<1>10. Fresh'
  BY <1>2, <1>4 DEF Fresh
<1> QED
  BY Zenon, <1>5, <1>6, <1>7, <1>8, <1>9, <1>10 DEF Ind

LEMMA RecycleStep ==
  ASSUME BcacheConstants, Ind, NEW p \in Proc, NEW k \in DiskBlock, bget_recycle(p, k)
  PROVE  Ind'
<1> Typed /\ Listed /\ OneBuffer /\ Asked /\ Counted /\ Locked /\ Fresh
  BY Zenon DEF Ind
<1> DEFINE b == Victim
<1>1. b \in Buf /\ refcnt[b] = 0
  BY Zenon, VictimFound DEF bget_recycle, Unused
<1> HIDE DEF b
<1>2. /\ blockno' = [blockno EXCEPT ![b] = k] /\ valid' = [valid EXCEPT ![b] = FALSE]
      /\ refcnt' = [refcnt EXCEPT ![b] = 1]
      /\ has' = [has EXCEPT ![p] = b] /\ want' = [want EXCEPT ![p] = k]
      /\ bpc' = [bpc EXCEPT ![p] = "lock"] /\ bpc[p] = "idle"
      /\ UNCHANGED <<holder, data, lru, disk, pins, last>>
  BY Zenon DEF bget_recycle, MayStart, b
<1>3. \A c \in Buf : /\ refcnt'[c] = IF c = b THEN 1 ELSE refcnt[c]
                     /\ blockno'[c] = IF c = b THEN k ELSE blockno[c]
                     /\ valid'[c] = IF c = b THEN FALSE ELSE valid[c]
  BY Zenon, <1>2 DEF Typed
<1>4. \A q \in Proc : /\ has'[q] = IF q = p THEN b ELSE has[q]
                      /\ want'[q] = IF q = p THEN k ELSE want[q]
                      /\ bpc'[q] = IF q = p THEN "lock" ELSE bpc[q]
  BY Zenon, <1>2 DEF Typed
<1>5. \A c \in Buf : blockno[c] # k
  BY Zenon DEF bget_recycle, Cached
\* The victim has no users and is not pinned.
<1>6. (\A q \in Proc : has[q] # b) /\ blockno[b] \notin pins
  <2>1. /\ IsFiniteSet(Users(b)) /\ Cardinality(Users(b)) \in Nat
        /\ 0 = Cardinality(Users(b)) + Pinned(b)
    BY Zenon, <1>1, CountRange DEF Counted
  <2>2. Pinned(b) \in {0, 1}
    BY Zenon DEF Pinned
  <2>3. Cardinality(Users(b)) = 0 /\ Pinned(b) # 1
    BY <2>1, <2>2
  <2>4. Users(b) = {}
    BY Zenon, <2>1, <2>3, FS_EmptySet
  <2> QED
    BY Zenon, <2>3, <2>4 DEF Users, Pinned
<1>7. k \notin pins
  BY Zenon, <1>5 DEF Fresh
<1>8. Typed'
  <2>1. refcnt' \in [Buf -> Nat]
    BY Zenon, <1>2, Constant DEF Typed
  <2> QED
    BY Zenon, <1>1, <1>2, <2>1 DEF Typed, BLabels
<1>9. Listed' /\ OneBuffer'
  <2>1. Listed'
    BY Zenon, <1>2 DEF Listed
  <2>2. ASSUME NEW c \in Buf, NEW d \in Buf, c # d, blockno'[c] # Nil
        PROVE  blockno'[c] # blockno'[d]
    BY Zenon, <2>2, <1>3, <1>5 DEF OneBuffer
  <2> QED
    BY Zenon, <2>1, <2>2 DEF OneBuffer
<1>10. Asked'
  <2>1. ASSUME NEW q \in Proc, q # p, bpc[q] # "idle"
        PROVE  has[q] \in Buf /\ want[q] \in DiskBlock /\ blockno'[has[q]] = want[q]
    BY Zenon, <2>1, <1>3, <1>6 DEF Asked
  <2>2. blockno'[b] = k
    BY Zenon, <1>1, <1>3
  <2> QED
    BY Zenon, <1>1, <1>4, <2>1, <2>2 DEF Asked
<1>11. Counted'
  <2>1. has[p] = NoBuf /\ \A c \in Buf : Pinned(c)' = Pinned(c)
    BY <1>2, <1>3, <1>6, <1>7 DEF Asked, Pinned
  <2>2. refcnt'[b] = 1 /\ \A c \in Buf : c # b => refcnt'[c] = refcnt[c]
    BY Zenon, <1>1, <1>3
  <2> QED
    BY Zenon, <1>1, <1>2, <2>1, <2>2, ComesCounted
<1>12. Locked'
  BY <1>2, <1>4, Constant DEF Locked, Holding, Typed
<1>13. Fresh'
  <2>1. ASSUME NEW c \in Buf, blockno'[c] # Nil, valid'[c]
        PROVE  data'[c] = last'[blockno'[c]]
    <3>1. c # b /\ blockno'[c] = blockno[c] /\ valid[c]
      BY Zenon, <2>1, <1>3
    <3> QED
      BY Zenon, <3>1, <2>1, <1>2 DEF Fresh
  <2>3. ASSUME NEW q \in Proc, bpc'[q] \in {"use", "used"} PROVE valid'[has'[q]]
    <3>1. has[q] \in Buf /\ has'[q] = has[q] /\ has[q] # b /\ bpc[q] \in {"use", "used"}
      BY Zenon, <2>3, <1>4, <1>6 DEF Asked
    <3> QED
      BY Zenon, <3>1, <1>3 DEF Fresh
  <2>4. ASSUME NEW l \in pins PROVE \E c \in Buf : blockno'[c] = l /\ valid'[c]
    <3>1. PICK c \in Buf : blockno[c] = l /\ valid[c]
      BY Zenon DEF Fresh
    <3>2. c # b
      BY Zenon, <3>1, <1>6
    <3> QED
      BY Zenon, <3>1, <3>2, <1>3
  <2> QED
    BY Zenon, <1>2, <2>1, <2>3, <2>4 DEF Fresh
<1> QED
  BY Zenon, <1>8, <1>9, <1>10, <1>11, <1>12, <1>13 DEF Ind


\* The steps between bget and brelse leave alone which buffers the processes have.
LEMMA Kept ==
  ASSUME Ind, NEW p \in Proc, NEW l \in BLabels, bpc[p] # "idle", l # "idle",
         bpc' = [bpc EXCEPT ![p] = l], UNCHANGED <<blockno, lru, want, has>>
  PROVE  /\ Listed' /\ OneBuffer' /\ Asked'
         /\ has[p] \in Buf /\ want[p] \in DiskBlock /\ blockno[has[p]] = want[p]
         /\ bpc' \in [Proc -> BLabels]
         /\ \A q \in Proc : bpc'[q] = IF q = p THEN l ELSE bpc[q]
<1> Typed /\ Listed /\ OneBuffer /\ Asked
  BY Zenon DEF Ind
<1>1. \A q \in Proc : bpc'[q] = IF q = p THEN l ELSE bpc[q]
  BY Zenon DEF Typed
<1>2. bpc' \in [Proc -> BLabels]
  BY Zenon DEF Typed
<1>3. Listed' /\ OneBuffer'
  BY Zenon DEF Listed, OneBuffer
<1>4. has[p] \in Buf /\ want[p] \in DiskBlock /\ blockno[has[p]] = want[p]
  BY Zenon DEF Asked
<1>5. ASSUME NEW q \in Proc
      PROVE  IF bpc'[q] = "idle" THEN has'[q] = NoBuf
             ELSE has'[q] \in Buf /\ want'[q] \in DiskBlock /\ blockno'[has'[q]] = want'[q]
  <2>1. CASE q = p
    BY Zenon, <2>1, <1>1, <1>4
  <2>2. CASE q # p
    BY Zenon, <2>2, <1>1 DEF Asked
  <2> QED
    BY Zenon, <2>1, <2>2
<1> QED
  BY Zenon, <1>1, <1>2, <1>3, <1>4, <1>5 DEF Asked

LEMMA AcquireStep ==
  ASSUME BcacheConstants, Ind, NEW p \in Proc, acquiresleep(p)
  PROVE  Ind'
<1> Typed /\ Asked /\ Counted /\ Locked /\ Fresh
  BY Zenon DEF Ind
<1>1. /\ bpc[p] = "lock" /\ holder[has[p]] = Nil
      /\ holder' = [holder EXCEPT ![has[p]] = p] /\ bpc' = [bpc EXCEPT ![p] = "fill"]
      /\ UNCHANGED <<blockno, valid, refcnt, data, lru, disk, want, has, pins, last>>
  BY Zenon DEF acquiresleep
<1>2. /\ Listed' /\ OneBuffer' /\ Asked' /\ has[p] \in Buf /\ bpc' \in [Proc -> BLabels]
      /\ \A q \in Proc : bpc'[q] = IF q = p THEN "fill" ELSE bpc[q]
  BY Zenon, <1>1, Kept DEF BLabels
<1>3. \A b \in Buf : holder'[b] = IF b = has[p] THEN p ELSE holder[b]
  BY Zenon, <1>1 DEF Typed
<1>4. Typed'
  BY Zenon, <1>1, <1>2 DEF Typed
<1>5. Counted'
  BY Zenon, <1>1 DEF Counted, Users, Pinned
<1>6. Locked'
  <2>1. ASSUME NEW q \in Proc, Holding(q)' PROVE holder'[has'[q]] = q
    <3>1. CASE q = p
      BY Zenon, <3>1, <1>1, <1>2, <1>3
    <3>2. CASE q # p
      <4>1. Holding(q) /\ has[q] \in Buf
        BY Zenon, <2>1, <3>2, <1>2 DEF Holding, Asked
      <4>2. holder[has[q]] = q /\ q # Nil
        BY Zenon, <4>1, Constant DEF Locked
      <4> QED
        BY Zenon, <4>1, <4>2, <1>1, <1>3
    <3> QED
      BY Zenon, <3>1, <3>2
  <2>2. ASSUME NEW b \in Buf, holder'[b] # Nil
        PROVE  Holding(holder[b])' /\ has'[holder'[b]] = b
    <3>1. CASE b = has[p]
      BY Zenon, <3>1, <1>1, <1>2, <1>3 DEF Holding
    <3>2. CASE b # has[p]
      <4>1. /\ holder'[b] = holder[b] /\ holder[b] \in Proc
            /\ Holding(holder[b]) /\ has[holder[b]] = b
        <5>1. holder'[b] = holder[b]
          BY Zenon, <3>2, <1>3
        <5>2. holder[b] \in Proc
          BY Zenon, <5>1, <2>2 DEF Typed
        <5> QED
          BY Zenon, <5>1, <5>2, <2>2 DEF Locked
      <4>2. holder[b] # p
        BY Zenon, <4>1, <3>2
      <4> QED
        BY Zenon, <4>1, <4>2, <1>1, <1>2 DEF Holding
    <3> QED
      BY Zenon, <3>1, <3>2
  <2> QED
    BY Zenon, <2>1, <2>2 DEF Locked
<1>7. Fresh'
  <2>1. ASSUME NEW q \in Proc, bpc'[q] \in {"use", "used"} PROVE valid[has[q]]
    BY Zenon, <2>1, <1>2 DEF Fresh
  <2> QED
    BY Zenon, <1>1, <2>1 DEF Fresh
<1> QED
  BY Zenon, <1>2, <1>4, <1>5, <1>6, <1>7 DEF Ind

LEMMA ReleaseSleepStep ==
  ASSUME BcacheConstants, Ind, NEW p \in Proc, releasesleep(p)
  PROVE  Ind'
<1> Typed /\ Asked /\ Counted /\ Locked /\ Fresh
  BY Zenon DEF Ind
<1>1. /\ bpc[p] \in {"use", "used"}
      /\ holder' = [holder EXCEPT ![has[p]] = Nil] /\ bpc' = [bpc EXCEPT ![p] = "release"]
      /\ UNCHANGED <<blockno, valid, refcnt, data, lru, disk, want, has, pins, last>>
  BY Zenon DEF releasesleep
<1>2. /\ Listed' /\ OneBuffer' /\ Asked' /\ has[p] \in Buf /\ bpc' \in [Proc -> BLabels]
      /\ \A q \in Proc : bpc'[q] = IF q = p THEN "release" ELSE bpc[q]
  BY Zenon, <1>1, Kept DEF BLabels
<1>3. \A b \in Buf : holder'[b] = IF b = has[p] THEN Nil ELSE holder[b]
  BY Zenon, <1>1 DEF Typed
<1>4. Typed'
  BY Zenon, <1>1, <1>2 DEF Typed
<1>5. Counted'
  BY Zenon, <1>1 DEF Counted, Users, Pinned
<1>6. Locked'
  <2>1. ASSUME NEW q \in Proc, Holding(q)' PROVE holder'[has'[q]] = q
    <3>1. q # p /\ Holding(q) /\ has[q] \in Buf
      BY Zenon, <2>1, <1>2 DEF Holding, Asked
    <3>2. holder[has[q]] = q /\ holder[has[p]] = p
      BY Zenon, <3>1, <1>1 DEF Locked, Holding
    <3> QED
      BY Zenon, <3>1, <3>2, <1>1, <1>3
  <2>2. ASSUME NEW b \in Buf, holder'[b] # Nil
        PROVE  Holding(holder[b])' /\ has'[holder'[b]] = b
    <3>1. /\ b # has[p] /\ holder'[b] = holder[b] /\ holder[b] \in Proc
          /\ Holding(holder[b]) /\ has[holder[b]] = b
      <4>1. b # has[p] /\ holder'[b] = holder[b]
        BY Zenon, <2>2, <1>3
      <4>2. holder[b] \in Proc
        BY Zenon, <4>1, <2>2 DEF Typed
      <4> QED
        BY Zenon, <4>1, <4>2, <2>2 DEF Locked
    <3>2. holder[b] # p
      BY Zenon, <3>1
    <3> QED
      BY Zenon, <3>1, <3>2, <1>1, <1>2 DEF Holding
  <2> QED
    BY Zenon, <2>1, <2>2 DEF Locked
<1>7. Fresh'
  <2>1. ASSUME NEW q \in Proc, bpc'[q] \in {"use", "used"} PROVE valid[has[q]]
    BY Zenon, <2>1, <1>2 DEF Fresh
  <2> QED
    BY Zenon, <1>1, <2>1 DEF Fresh
<1> QED
  BY Zenon, <1>2, <1>4, <1>5, <1>6, <1>7 DEF Ind


\* bread and the uses of a buffer: the lock stays where it is.
LEMMA LockedKept ==
  ASSUME Ind, NEW p \in Proc, Holding(p), NEW l \in {"use", "used"},
         bpc' = [bpc EXCEPT ![p] = l], UNCHANGED <<holder, has>>
  PROVE  Locked'
<1> Typed /\ Locked
  BY Zenon DEF Ind
<1>1. \A q \in Proc : bpc'[q] = IF q = p THEN l ELSE bpc[q]
  BY Zenon DEF Typed
<1>2. \A q \in Proc : Holding(q)' <=> Holding(q)
  BY Zenon, <1>1 DEF Holding
<1>3. \A b \in Buf : holder[b] # Nil => holder[b] \in Proc
  BY Zenon DEF Typed
<1> QED
  BY Zenon, <1>2, <1>3 DEF Locked

LEMMA BreadStep ==
  ASSUME BcacheConstants, Ind, NEW p \in Proc, bread(p)
  PROVE  Ind'
<1> Typed /\ OneBuffer /\ Asked /\ Counted /\ Locked /\ Fresh
  BY Zenon DEF Ind
<1> DEFINE b == has[p]
<1>1. /\ bpc[p] = "fill" /\ bpc' = [bpc EXCEPT ![p] = "use"]
      /\ data' = IF valid[b] THEN data ELSE [data EXCEPT ![b] = disk[blockno[b]]]
      /\ valid' = [valid EXCEPT ![b] = TRUE]
      /\ UNCHANGED <<blockno, refcnt, holder, lru, disk, want, has, pins, last>>
  BY Zenon DEF bread
<1>2. /\ Listed' /\ OneBuffer' /\ Asked' /\ bpc' \in [Proc -> BLabels]
      /\ b \in Buf /\ want[p] \in DiskBlock /\ blockno[b] = want[p]
      /\ \A q \in Proc : bpc'[q] = IF q = p THEN "use" ELSE bpc[q]
  BY Zenon, <1>1, Kept DEF BLabels
<1> HIDE DEF b
<1>3. \A c \in Buf : valid'[c] <=> (c = b \/ valid[c])
  BY Zenon, <1>1 DEF Typed
<1>4. Typed'
  <2>1. data' \in [Buf -> Val]
    BY Zenon, <1>1, <1>2 DEF Typed
  <2> QED
    BY Zenon, <1>1, <1>2, <2>1 DEF Typed
<1>5. Counted'
  BY Zenon, <1>1 DEF Counted, Users, Pinned
<1>6. Locked'
  BY Zenon, <1>1, LockedKept DEF Holding
<1>7. ASSUME NEW c \in Buf, blockno[c] # Nil, valid'[c]
      PROVE  data'[c] = last[blockno[c]]
  <2>1. CASE valid[b]
    <3>1. data' = data /\ valid[c]
      BY Zenon, <2>1, <1>7, <1>1, <1>3
    <3> QED
      BY Zenon, <3>1, <1>7 DEF Fresh
  <2>2. CASE ~valid[b] /\ c # b
    <3>1. data'[c] = data[c] /\ valid[c]
      BY Zenon, <2>2, <1>7, <1>1, <1>3 DEF Typed
    <3> QED
      BY Zenon, <3>1, <1>7 DEF Fresh
  <2>3. CASE ~valid[b] /\ c = b
    <3>1. blockno[b] \notin pins
      BY Zenon, <2>3, <1>2, <1>7 DEF Fresh, OneBuffer
    <3>2. disk[blockno[b]] = last[blockno[b]]
      BY Zenon, <3>1, <1>2 DEF Fresh
    <3> QED
      BY Zenon, <2>3, <3>2, <1>1, <1>2 DEF Typed
  <2> QED
    BY Zenon, <2>1, <2>2, <2>3
<1>8. ASSUME NEW q \in Proc, bpc'[q] \in {"use", "used"} PROVE valid'[has[q]]
  <2>1. CASE q = p
    BY Zenon, <2>1, <1>2, <1>3 DEF b
  <2>2. CASE q # p
    <3>1. bpc[q] \in {"use", "used"} /\ has[q] \in Buf
      BY Zenon, <2>2, <1>2, <1>8 DEF Asked
    <3> QED
      BY Zenon, <3>1, <1>3 DEF Fresh
  <2> QED
    BY Zenon, <2>1, <2>2
<1>9. \A k \in pins : \E c \in Buf : blockno[c] = k /\ valid'[c]
  BY Zenon, <1>3 DEF Fresh
<1>10. Fresh'
  BY Zenon, <1>1, <1>7, <1>8, <1>9 DEF Fresh
<1> QED
  BY Zenon, <1>2, <1>4, <1>5, <1>6, <1>10 DEF Ind


\* A use of a buffer: what it writes, in the buffer or home, is the last value.
LEMMA UsedStep ==
  ASSUME BcacheConstants, Ind, NEW p \in Proc, Used(p),
         UNCHANGED <<blockno, valid, holder, lru, want, has>>
  PROVE  /\ Listed' /\ OneBuffer' /\ Asked' /\ Locked' /\ bpc' \in [Proc -> BLabels]
         /\ has[p] \in Buf /\ want[p] \in DiskBlock /\ blockno[has[p]] = want[p]
         /\ valid[has[p]] /\ data[has[p]] = last[want[p]] /\ want[p] # Nil
         /\ \A c \in Buf : blockno[c] = want[p] => c = has[p]
         /\ \A q \in Proc : bpc'[q] \in {"use", "used"} => valid'[has'[q]]
<1> Typed /\ OneBuffer /\ Locked /\ Fresh
  BY Zenon DEF Ind
<1>1. bpc[p] = "use" /\ bpc' = [bpc EXCEPT ![p] = "used"]
  BY Zenon DEF Used
<1>2. /\ Listed' /\ OneBuffer' /\ Asked' /\ bpc' \in [Proc -> BLabels]
      /\ has[p] \in Buf /\ want[p] \in DiskBlock /\ blockno[has[p]] = want[p]
      /\ \A q \in Proc : bpc'[q] = IF q = p THEN "used" ELSE bpc[q]
  BY Zenon, <1>1, Kept DEF BLabels
<1>3. Locked'
  BY Zenon, <1>1, LockedKept DEF Holding
<1>4. want[p] # Nil /\ valid[has[p]]
  BY Zenon, <1>1, <1>2, Constant DEF Fresh
<1>5. data[has[p]] = last[want[p]]
  <2>1. \A c \in Buf : blockno[c] # Nil /\ valid[c] => data[c] = last[blockno[c]]
    BY Zenon DEF Fresh
  <2> QED
    BY Zenon, <2>1, <1>2, <1>4
<1>6. \A c \in Buf : blockno[c] = want[p] => c = has[p]
  <2>1. blockno[has[p]] = want[p] /\ has[p] \in Buf /\ want[p] # Nil
    BY Zenon, <1>2, <1>4
  <2> QED
    BY Zenon, <2>1 DEF OneBuffer
<1>7. ASSUME NEW q \in Proc, bpc'[q] \in {"use", "used"} PROVE valid'[has'[q]]
  <2>1. bpc[q] \in {"use", "used"}
    BY Zenon, <1>1, <1>2, <1>7
  <2> QED
    BY Zenon, <2>1 DEF Fresh
<1> QED
  BY Zenon, <1>2, <1>3, <1>4, <1>5, <1>6, <1>7

LEMMA WriteData ==
  ASSUME BcacheConstants, Ind, NEW p \in Proc, NEW v \in Val, Used(p),
         data' = [data EXCEPT ![has[p]] = v], last' = [last EXCEPT ![want[p]] = v],
         UNCHANGED <<blockno, valid, holder, lru, want, has>>
  PROVE  /\ data' \in [Buf -> Val] /\ last' \in [DiskBlock -> Val]
         /\ \A k \in DiskBlock : last'[k] = IF k = want[p] THEN v ELSE last[k]
         /\ \A c \in Buf : blockno'[c] # Nil /\ valid'[c] => data'[c] = last'[blockno'[c]]
<1> Typed /\ Fresh
  BY Zenon DEF Ind
<1>1. /\ has[p] \in Buf /\ want[p] \in DiskBlock /\ blockno[has[p]] = want[p]
      /\ \A c \in Buf : blockno[c] = want[p] => c = has[p]
  BY Zenon, UsedStep
<1>2. data' \in [Buf -> Val] /\ last' \in [DiskBlock -> Val]
  BY Zenon DEF Typed
<1>3. \A k \in DiskBlock : last'[k] = IF k = want[p] THEN v ELSE last[k]
  BY Zenon DEF Typed
<1>4. \A c \in Buf : data'[c] = IF c = has[p] THEN v ELSE data[c]
  BY Zenon DEF Typed
<1>5. ASSUME NEW c \in Buf, blockno[c] # Nil, valid[c]
      PROVE  data'[c] = last'[blockno[c]]
  <2>1. CASE c = has[p]
    BY Zenon, <2>1, <1>1, <1>3, <1>4
  <2>2. CASE c # has[p]
    <3>1. blockno[c] # want[p] /\ data[c] = last[blockno[c]]
      BY Zenon, <2>2, <1>1, <1>5 DEF Fresh
    <3>2. blockno[c] \in DiskBlock
      BY Zenon, <1>5 DEF Typed
    <3> QED
      BY Zenon, <3>1, <3>2, <2>2, <1>3, <1>4
  <2> QED
    BY Zenon, <2>1, <2>2
<1> QED
  BY Zenon, <1>2, <1>3, <1>5

LEMMA BwriteStep ==
  ASSUME BcacheConstants, Ind, NEW p \in Proc, NEW v \in Val, bwrite(p, v)
  PROVE  Ind'
<1> Typed /\ Counted /\ Fresh
  BY Zenon DEF Ind
<1>1. /\ Used(p) /\ data' = [data EXCEPT ![has[p]] = v]
      /\ disk' = [disk EXCEPT ![blockno[has[p]]] = v] /\ last' = [last EXCEPT ![want[p]] = v]
      /\ UNCHANGED <<blockno, valid, refcnt, holder, lru, want, has, pins>>
  BY Zenon DEF bwrite
<1>2. /\ Listed' /\ OneBuffer' /\ Asked' /\ Locked' /\ bpc' \in [Proc -> BLabels]
      /\ blockno[has[p]] = want[p] /\ want[p] \in DiskBlock
      /\ \A q \in Proc : bpc'[q] \in {"use", "used"} => valid'[has'[q]]
  BY Zenon, <1>1, UsedStep
<1>3. /\ data' \in [Buf -> Val] /\ last' \in [DiskBlock -> Val]
      /\ \A k \in DiskBlock : last'[k] = IF k = want[p] THEN v ELSE last[k]
      /\ \A c \in Buf : blockno'[c] # Nil /\ valid'[c] => data'[c] = last'[blockno'[c]]
  BY Zenon, <1>1, WriteData
<1>4. \A k \in DiskBlock : disk'[k] = IF k = want[p] THEN v ELSE disk[k]
  BY Zenon, <1>1, <1>2 DEF Typed
<1>5. Typed'
  <2>1. disk' \in [DiskBlock -> Val]
    BY Zenon, <1>1 DEF Typed
  <2> QED
    BY Zenon, <1>1, <1>2, <1>3, <2>1 DEF Typed
<1>6. Counted'
  BY Zenon, <1>1 DEF Counted, Users, Pinned
<1>7. \A k \in DiskBlock \ pins : disk'[k] = last'[k]
  BY Zenon, <1>3, <1>4 DEF Fresh
<1>8. Fresh'
  BY Zenon, <1>1, <1>2, <1>3, <1>7 DEF Fresh
<1> QED
  BY Zenon, <1>2, <1>5, <1>6, <1>8 DEF Ind


\* The counts follow a pin, and its end.
LEMMA PinCounted ==
  ASSUME BcacheConstants, Typed, Counted, NEW b \in Buf, NEW x \in {0, 1}, has' = has,
         Pinned(b) = 1 - x, Pinned(b)' = x, \A c \in Buf : c # b => Pinned(c)' = Pinned(c),
         \A c \in Buf : c # b => refcnt'[c] = refcnt[c],
         refcnt'[b] = (IF x = 1 THEN refcnt[b] + 1 ELSE refcnt[b] + RefMod - 1) % RefMod
  PROVE  Counted'
<1>1. \A c : Users(c)' = Users(c)
  BY Zenon DEF Users
<1>2. /\ Cardinality(Users(b)) \in Nat /\ Cardinality(Proc) \in Nat
      /\ Cardinality(Users(b)) <= Cardinality(Proc)
  BY Zenon, CountRange
<1>3. refcnt[b] = Cardinality(Users(b)) + Pinned(b)
  BY Zenon DEF Counted
<1>4. /\ refcnt[b] \in Nat /\ refcnt[b] <= Cardinality(Proc) + 1
      /\ x = 1 => refcnt[b] <= Cardinality(Proc)
      /\ x = 0 => refcnt[b] > 0
  BY <1>2, <1>3
<1>5. /\ refcnt[b] <= Cardinality(Proc) => (refcnt[b] + 1) % RefMod = refcnt[b] + 1
      /\ refcnt[b] > 0 => (refcnt[b] + RefMod - 1) % RefMod = refcnt[b] - 1
  BY Zenon, <1>2, <1>4, NoWrap
<1>6. refcnt'[b] = IF x = 1 THEN refcnt[b] + 1 ELSE refcnt[b] - 1
  BY Zenon, <1>4, <1>5
<1>7. refcnt'[b] = Cardinality(Users(b)) + Pinned(b)'
  BY <1>2, <1>3, <1>6
<1>8. ASSUME NEW c \in Buf, c # b
      PROVE  refcnt'[c] = Cardinality(Users(c)) + Pinned(c)'
  BY Zenon, <1>8 DEF Counted
<1> QED
  BY Zenon, <1>1, <1>7, <1>8 DEF Counted

LEMMA LogWriteStep ==
  ASSUME BcacheConstants, Ind, NEW p \in Proc, NEW v \in Val, log_write(p, v),
         NEW b \in Buf, b = has[p]
  PROVE  Ind'
<1> Typed /\ OneBuffer /\ Counted /\ Fresh
  BY Zenon DEF Ind
<1>1. /\ Used(p) /\ data' = [data EXCEPT ![b] = v] /\ last' = [last EXCEPT ![want[p]] = v]
      /\ refcnt' = IF blockno[b] \in pins THEN refcnt
                   ELSE [refcnt EXCEPT ![b] = (refcnt[b] + 1) % RefMod]
      /\ pins' = pins \cup {blockno[b]}
      /\ UNCHANGED <<blockno, valid, holder, lru, disk, want, has>>
  BY Zenon DEF log_write, bpin, Incr
<1>2. /\ Listed' /\ OneBuffer' /\ Asked' /\ Locked' /\ bpc' \in [Proc -> BLabels]
      /\ want[p] \in DiskBlock /\ blockno[b] = want[p] /\ valid[b]
      /\ \A c \in Buf : blockno[c] = want[p] => c = b
      /\ \A q \in Proc : bpc'[q] \in {"use", "used"} => valid'[has'[q]]
  BY Zenon, <1>1, UsedStep
<1>3. /\ data' \in [Buf -> Val] /\ last' \in [DiskBlock -> Val]
      /\ \A k \in DiskBlock : last'[k] = IF k = want[p] THEN v ELSE last[k]
      /\ \A c \in Buf : blockno'[c] # Nil /\ valid'[c] => data'[c] = last'[blockno'[c]]
  BY Zenon, <1>1, WriteData
<1>4. Typed'
  <2>1. refcnt' \in [Buf -> Nat]
    <3>1. (refcnt[b] + 1) % RefMod \in Nat
      BY Zenon, <1>2, Constant DEF Typed
    <3> QED
      BY Zenon, <1>1, <3>1 DEF Typed
  <2>2. pins' \in SUBSET DiskBlock
    BY Zenon, <1>1, <1>2 DEF Typed
  <2> QED
    BY Zenon, <1>1, <1>2, <1>3, <2>1, <2>2 DEF Typed
<1>5. Counted'
  <2>1. CASE blockno[b] \in pins
    <3>1. refcnt' = refcnt /\ \A c \in Buf : Pinned(c)' = Pinned(c)
      BY Zenon, <2>1, <1>1 DEF Pinned
    <3> QED
      BY Zenon, <3>1, <1>1 DEF Counted, Users
  <2>2. CASE blockno[b] \notin pins
    <3>1. Pinned(b) = 1 - 1 /\ Pinned(b)' = 1
      <4>1. Pinned(b) = 0 /\ Pinned(b)' = 1
        BY Zenon, <2>2, <1>1 DEF Pinned
      <4> QED
        BY <4>1
    <3>2. \A c \in Buf : c # b => Pinned(c)' = Pinned(c)
      BY Zenon, <1>1, <1>2 DEF Pinned
    <3>3. /\ refcnt'[b] = (IF 1 = 1 THEN refcnt[b] + 1 ELSE refcnt[b] + RefMod - 1) % RefMod
          /\ \A c \in Buf : c # b => refcnt'[c] = refcnt[c]
      BY Zenon, <2>2, <1>1, <1>2 DEF Typed
    <3> QED
      BY Zenon, <1>1, <1>2, <3>1, <3>2, <3>3, PinCounted
  <2> QED
    BY Zenon, <2>1, <2>2
<1>6. \A k \in pins' : \E c \in Buf : blockno[c] = k /\ valid[c]
  BY Zenon, <1>1, <1>2 DEF Fresh
<1>7. \A k \in DiskBlock \ pins' : disk[k] = last'[k]
  BY Zenon, <1>1, <1>2, <1>3 DEF Fresh
<1>8. Fresh'
  BY Zenon, <1>1, <1>2, <1>3, <1>6, <1>7 DEF Fresh
<1> QED
  BY Zenon, <1>2, <1>4, <1>5, <1>8 DEF Ind

LEMMA InstallStep ==
  ASSUME BcacheConstants, Ind, NEW p \in Proc, install(p), NEW b \in Buf, b = has[p]
  PROVE  Ind'
<1> Typed /\ OneBuffer /\ Counted /\ Fresh
  BY Zenon DEF Ind
<1>1. /\ Used(p) /\ blockno[b] \in pins /\ disk' = [disk EXCEPT ![blockno[b]] = data[b]]
      /\ refcnt' = [refcnt EXCEPT ![b] = (refcnt[b] + RefMod - 1) % RefMod]
      /\ pins' = pins \ {blockno[b]}
      /\ UNCHANGED <<blockno, valid, holder, data, lru, want, has, last>>
  BY Zenon DEF install, Decr
<1>2. /\ Listed' /\ OneBuffer' /\ Asked' /\ Locked' /\ bpc' \in [Proc -> BLabels]
      /\ want[p] \in DiskBlock /\ blockno[b] = want[p]
      /\ data[b] = last[want[p]]
      /\ \A c \in Buf : blockno[c] = want[p] => c = b
      /\ \A q \in Proc : bpc'[q] \in {"use", "used"} => valid'[has'[q]]
  BY Zenon, <1>1, UsedStep
<1>3. \A k \in DiskBlock : disk'[k] = IF k = want[p] THEN data[b] ELSE disk[k]
  BY Zenon, <1>1, <1>2 DEF Typed
<1>4. Typed'
  <2>1. (refcnt[b] + RefMod - 1) % RefMod \in Nat
    BY Zenon, <1>2, Constant DEF Typed
  <2>2. refcnt' \in [Buf -> Nat] /\ disk' \in [DiskBlock -> Val] /\ pins' \in SUBSET DiskBlock
    BY Zenon, <1>1, <1>2, <2>1 DEF Typed
  <2> QED
    BY Zenon, <1>1, <1>2, <2>2 DEF Typed
<1>5. Counted'
  <2>1. Pinned(b) = 1 - 0 /\ Pinned(b)' = 0
    <3>1. Pinned(b) = 1 /\ Pinned(b)' = 0
      BY Zenon, <1>1 DEF Pinned
    <3> QED
      BY <3>1
  <2>2. \A c \in Buf : c # b => Pinned(c)' = Pinned(c)
    BY Zenon, <1>1, <1>2 DEF Pinned
  <2>3. /\ refcnt'[b] = (refcnt[b] + RefMod - 1) % RefMod
        /\ \A c \in Buf : c # b => refcnt'[c] = refcnt[c]
    BY Zenon, <1>1, <1>2 DEF Typed
  <2>4. refcnt'[b] = (IF 0 = 1 THEN refcnt[b] + 1 ELSE refcnt[b] + RefMod - 1) % RefMod
    BY <2>3
  <2> QED
    BY Zenon, <1>1, <1>2, <2>1, <2>2, <2>3, <2>4, PinCounted
<1>6. ASSUME NEW k \in pins' PROVE \E c \in Buf : blockno[c] = k /\ valid[c]
  BY Zenon, <1>6, <1>1 DEF Fresh
<1>7. ASSUME NEW k \in DiskBlock, k \notin pins' PROVE disk'[k] = last[k]
  <2>1. CASE k = want[p]
    BY Zenon, <2>1, <1>2, <1>3
  <2>2. CASE k # want[p]
    BY Zenon, <2>2, <1>1, <1>2, <1>3, <1>7 DEF Fresh
  <2> QED
    BY Zenon, <2>1, <2>2
<1>8. \A c \in Buf : blockno'[c] # Nil /\ valid'[c] => data'[c] = last'[blockno'[c]]
  BY Zenon, <1>1 DEF Fresh
<1>9. blockno' = blockno /\ valid' = valid /\ last' = last
  BY Zenon, <1>1
<1>10. Fresh'
  BY Zenon, <1>2, <1>6, <1>7, <1>8, <1>9 DEF Fresh
<1> QED
  BY Zenon, <1>2, <1>4, <1>5, <1>10 DEF Ind


LEMMA BrelseStep ==
  ASSUME BcacheConstants, Ind, NEW p \in Proc, brelse(p), NEW b \in Buf, b = has[p]
  PROVE  Ind'
<1> Typed /\ Listed /\ OneBuffer /\ Asked /\ Counted /\ Locked /\ Fresh
  BY Zenon DEF Ind
<1>1. /\ bpc[p] = "release" /\ bpc' = [bpc EXCEPT ![p] = "idle"]
      /\ refcnt' = [refcnt EXCEPT ![b] = (refcnt[b] + RefMod - 1) % RefMod]
      /\ lru' = ToFront(b) \/ lru' = lru
      /\ want' = [want EXCEPT ![p] = Nil] /\ has' = [has EXCEPT ![p] = NoBuf]
      /\ UNCHANGED <<blockno, valid, holder, data, disk, pins, last>>
  BY Zenon DEF brelse, Decr
<1>2. \A q \in Proc : /\ bpc'[q] = IF q = p THEN "idle" ELSE bpc[q]
                      /\ want'[q] = IF q = p THEN Nil ELSE want[q]
                      /\ has'[q] = IF q = p THEN NoBuf ELSE has[q]
  BY Zenon, <1>1 DEF Typed
<1>3. Typed'
  <2>1. (refcnt[b] + RefMod - 1) % RefMod \in Nat
    BY Zenon, Constant DEF Typed
  <2>2. refcnt' \in [Buf -> Nat]
    BY Zenon, <1>1, <2>1 DEF Typed
  <2>3. /\ bpc' \in [Proc -> BLabels] /\ want' \in [Proc -> DiskBlock \cup {Nil}]
        /\ has' \in [Proc -> Buf \cup {NoBuf}]
    BY Zenon, <1>1 DEF Typed, BLabels
  <2> QED
    BY Zenon, <1>1, <2>2, <2>3 DEF Typed
<1>4. Listed' /\ OneBuffer'
  <2>1. Listed'
    BY Zenon, <1>1, FrontListed DEF Listed
  <2> QED
    BY Zenon, <2>1, <1>1 DEF OneBuffer
<1>5. ASSUME NEW q \in Proc
      PROVE  IF bpc'[q] = "idle" THEN has'[q] = NoBuf
             ELSE has'[q] \in Buf /\ want'[q] \in DiskBlock /\ blockno'[has'[q]] = want'[q]
  <2>1. CASE q = p
    BY Zenon, <2>1, <1>2
  <2>2. CASE q # p
    <3>1. bpc'[q] = bpc[q] /\ want'[q] = want[q] /\ has'[q] = has[q] /\ blockno' = blockno
      BY Zenon, <2>2, <1>1, <1>2
    <3> QED
      BY Zenon, <3>1 DEF Asked
  <2> QED
    BY Zenon, <2>1, <2>2
<1>6. Counted'
  <2>1. \A c \in Buf : Pinned(c)' = Pinned(c)
    BY Zenon, <1>1 DEF Pinned
  <2>2. /\ refcnt'[b] = (refcnt[b] + RefMod - 1) % RefMod
        /\ \A c \in Buf : c # b => refcnt'[c] = refcnt[c]
    BY Zenon, <1>1 DEF Typed
  <2> QED
    BY Zenon, <1>1, <2>1, <2>2, GoesCounted
<1>7. Locked'
  <2>1. ASSUME NEW q \in Proc, Holding(q)' PROVE holder'[has'[q]] = q
    <3>1. q # p
      BY Zenon, <2>1, <1>2 DEF Holding
    <3>2. Holding(q) /\ has'[q] = has[q]
      BY Zenon, <3>1, <2>1, <1>2 DEF Holding
    <3> QED
      BY Zenon, <3>2, <1>1 DEF Locked
  <2>2. ASSUME NEW c \in Buf, holder'[c] # Nil
        PROVE  Holding(holder[c])' /\ has'[holder'[c]] = c
    <3>1. holder'[c] = holder[c] /\ holder[c] \in Proc
      BY Zenon, <2>2, <1>1 DEF Typed
    <3>2. Holding(holder[c]) /\ has[holder[c]] = c
      BY Zenon, <3>1, <2>2 DEF Locked
    <3>3. holder[c] # p
      BY Zenon, <3>2, <1>1 DEF Holding
    <3> QED
      BY Zenon, <3>1, <3>2, <3>3, <1>1, <1>2 DEF Holding
  <2> QED
    BY Zenon, <2>1, <2>2 DEF Locked
<1>8. Fresh'
  <2>1. ASSUME NEW q \in Proc, bpc'[q] \in {"use", "used"} PROVE valid'[has'[q]]
    <3>1. q # p /\ bpc[q] \in {"use", "used"}
      BY Zenon, <2>1, <1>2
    <3> QED
      BY Zenon, <3>1, <1>1, <1>2 DEF Fresh
  <2> QED
    BY Zenon, <1>1, <2>1 DEF Fresh
<1> QED
  BY Zenon, <1>3, <1>4, <1>5, <1>6, <1>7, <1>8 DEF Ind, Asked

-----------------------------------------------------------------------------
(* The theorems. *)

LEMMA InitInd == ASSUME BcacheConstants, BInit PROVE Ind
<1>1. PICK v \in Val : data = [b \in Buf |-> v] /\ disk = [k \in DiskBlock |-> v]
  BY Zenon DEF BInit
<1>2. Typed
  <2>1. 0 \in Nat
    OBVIOUS
  <2> QED
    BY Zenon, <1>1, <2>1 DEF BInit, Typed, BLabels
<1>3. Listed
  <2>1. \A i \in Place : NBuf + 1 - i \in Buf /\ NBuf + 1 - (NBuf + 1 - i) = i
    BY DEF BcacheConstants, Place, Buf
  <2>2. lru = [i \in Place |-> NBuf + 1 - i] /\ Place = Buf
    BY Zenon DEF BInit, Place, Buf
  <2> QED
    BY Zenon, <2>1, <2>2 DEF Listed
<1>4. OneBuffer /\ Asked /\ Locked /\ Fresh
  BY Zenon DEF BInit, OneBuffer, Asked, Locked, Holding, Fresh
<1>5. Counted
  <2>1. \A b \in Buf : Users(b) = {} /\ Pinned(b) = 0 /\ refcnt[b] = 0
    BY Zenon, Constant DEF BInit, Users, Pinned
  <2>2. Cardinality({}) = 0
    BY Zenon, FS_EmptySet
  <2> QED
    BY <2>1, <2>2 DEF Counted
<1> QED
  BY Zenon, <1>2, <1>3, <1>4, <1>5 DEF Ind

LEMMA Still == ASSUME Ind, UNCHANGED <<cache, bpc, want, has, pins, last>> PROVE Ind'
<1>1. /\ blockno' = blockno /\ valid' = valid /\ refcnt' = refcnt /\ holder' = holder
      /\ data' = data /\ lru' = lru /\ disk' = disk
  BY Zenon DEF cache
<1>2. Typed' /\ Listed' /\ OneBuffer'
  BY Zenon, <1>1 DEF Ind, Typed, Listed, OneBuffer
<1>3. Asked' /\ Locked'
  BY Zenon, <1>1 DEF Ind, Asked, Locked, Holding
<1>4. Counted'
  BY Zenon, <1>1 DEF Ind, Counted, Users, Pinned
<1>5. Fresh'
  BY Zenon, <1>1 DEF Ind, Fresh
<1> QED
  BY Zenon, <1>2, <1>3, <1>4, <1>5 DEF Ind

LEMMA NextInd == ASSUME BcacheConstants, Ind, [BNext]_bvars PROVE Ind'
<1>1. CASE UNCHANGED bvars
  BY Zenon, <1>1, Still DEF bvars
<1>2. ASSUME NEW p \in Proc, bpc[p] # "idle" PROVE has[p] \in Buf
  BY Zenon, <1>2 DEF Ind, Asked
<1>3. ASSUME NEW p \in Proc, NEW k \in DiskBlock, bget_panic(p, k) PROVE Ind'
  BY Zenon, <1>3, Still DEF bget_panic
<1>4. ASSUME NEW p \in Proc, NEW v \in Val, bwrite(p, v) \/ log_write(p, v) \/ install(p)
      PROVE  Ind'
  <2>1. has[p] \in Buf
    BY Zenon, <1>2, <1>4 DEF bwrite, log_write, install, Used
  <2> QED
    BY Zenon, <2>1, <1>4, BwriteStep, LogWriteStep, InstallStep
<1>5. ASSUME NEW p \in Proc, install(p) PROVE Ind'
  <2>1. has[p] \in Buf
    BY Zenon, <1>2, <1>5 DEF install, Used
  <2> QED
    BY Zenon, <2>1, <1>5, InstallStep
<1>6. ASSUME NEW p \in Proc, BStep(p) PROVE Ind'
  <2>1. brelse(p) => has[p] \in Buf
    BY Zenon, <1>2 DEF brelse
  <2> QED
    BY Zenon, <2>1, <1>6, AcquireStep, BreadStep, ReleaseSleepStep, BrelseStep DEF BStep
<1> QED
  BY Zenon, <1>1, <1>3, <1>4, <1>5, <1>6, HitStep, RecycleStep DEF BNext

LEMMA Invariance == ASSUME BcacheConstants PROVE BSpec => []Ind
<1>1. BInit => Ind
  BY Zenon, InitInd
<1>2. Ind /\ [BNext]_bvars => Ind'
  BY Zenon, NextInd
<1> QED
  BY <1>1, <1>2, PTL DEF BSpec

\* bget and the sleep locks (kernel/bio.c): for any number of processes, buffers and blocks,
\* a block has at most one buffer, whoever holds a buffer's lock has the block it asked for,
\* and nobody else has it.
THEOREM OneUserPerBuffer == ASSUME BcacheConstants PROVE BSpec => []Exclusive
<1>1. Ind => Exclusive
  <2> SUFFICES ASSUME Ind PROVE Exclusive
    OBVIOUS
  <2> OneBuffer /\ Asked /\ Locked
    BY Zenon DEF Ind
  <2>1. ASSUME NEW p \in Proc, Holding(p)
        PROVE  /\ has[p] \in Buf /\ want[p] \in DiskBlock
               /\ blockno[has[p]] = want[p] /\ holder[has[p]] = p
    BY Zenon, <2>1 DEF Asked, Locked, Holding
  <2>2. ASSUME NEW p \in Proc, Holding(p), NEW q \in Proc, Holding(q), q # p
        PROVE  want[q] # want[p]
    <3>1. /\ has[p] \in Buf /\ want[p] \in DiskBlock
          /\ blockno[has[p]] = want[p] /\ holder[has[p]] = p
      BY Zenon, <2>1, <2>2
    <3>2. has[q] \in Buf /\ blockno[has[q]] = want[q] /\ holder[has[q]] = q
      BY Zenon, <2>1, <2>2
    <3>3. has[p] # has[q] /\ want[p] # Nil
      BY Zenon, <3>1, <3>2, <2>2, Constant
    <3> QED
      BY Zenon, <3>1, <3>2, <3>3 DEF OneBuffer
  <2> QED
    BY Zenon, <2>1, <2>2 DEF Exclusive, OneBuffer, Locked
<1> QED
  BY <1>1, Invariance, PTL

\* bread (kernel/bio.c): a process that has read a block sees the last value anyone wrote to
\* it, whether bwrite took it to the disk or log_write left it in a pinned buffer.
THEOREM ReadersSeeLastWrite == ASSUME BcacheConstants PROVE BSpec => []Coherent
<1>1. Ind => Coherent
  <2> SUFFICES ASSUME Ind, NEW p \in Proc, bpc[p] \in {"use", "used"}
               PROVE  data[has[p]] = last[want[p]]
    BY Zenon DEF Coherent
  <2>1. has[p] \in Buf /\ want[p] # Nil /\ blockno[has[p]] = want[p]
    BY Zenon, Constant DEF Ind, Asked
  <2> QED
    BY Zenon, <2>1 DEF Ind, Fresh
<1> QED
  BY <1>1, Invariance, PTL

=============================================================================
