----------------------------- MODULE PipeProofs -----------------------------
(***************************************************************************)
(* The pipe implements the bounded FIFO of Channel, loses no wakeup and is   *)
(* freed when nobody uses it: for any number of readers and writers, any     *)
(* ring size and any width of the counters it divides.                       *)
(***************************************************************************)
EXTENDS Pipe, TLAPS

\* How many bytes are in the pipe.
Count == (nwrite + UMod - nread) % UMod

TypeOK ==
  /\ data \in [0..(Size - 1) -> Byte] /\ nread \in 0..(UMod - 1) /\ nwrite \in 0..(UMod - 1)
  /\ readopen \in BOOLEAN /\ writeopen \in BOOLEAN /\ freed \in BOOLEAN
  /\ lock \in Procs \cup {None} /\ pc \in [Procs -> Labels]
  /\ n \in [Procs -> Nat] /\ i \in [Procs -> Nat]
  /\ ch \in Byte \cup {None} /\ killed \in [Procs -> BOOLEAN]

\* The process between acquire and release is the one that holds the lock.
LockInv ==
  \A p \in Procs : /\ lock = p <=> pc[p] \in {"loop", "failed"}
                   /\ pc[p] = "failed" => p \in Readers

\* An end is open while a process has not closed it; the last one to do so is
\* alone with it.
EndInv ==
  /\ \A p \in Writers : pc[p] # "closed" => writeopen
  /\ \A p \in Readers : pc[p] # "closed" => readopen
  /\ \A p \in Procs : pc[p] = "closing" => \A o \in SameEnd(p) \ {p} : pc[o] = "closed"
  /\ freed => ~readopen /\ ~writeopen

\* A writer sleeps on a full pipe, or on one from which the reader that holds the
\* lock has taken a byte; likewise for readers.
WriterInv ==
  \A p \in Writers : pc[p] = "sleep" =>
    /\ readopen
    /\ \/ Full
       \/ \E r \in Readers : pc[r] = "failed" \/ (pc[r] = "loop" /\ i[r] > 0)
ReaderInv ==
  \A p \in Readers : pc[p] = "sleep" =>
    \/ \E w \in Writers : killed[w]
    \/ Empty /\ writeopen
    \/ \E w \in Writers : pc[w] = "loop" /\ i[w] > 0

PInv == TypeOK /\ Count <= Size /\ LockInv /\ EndInv /\ WriterInv /\ ReaderInv

-----------------------------------------------------------------------------
(* Counting modulo the size of the ring. *)

LEMMA ModDef ==
  ASSUME NEW m \in Nat \ {0}, NEW x \in Nat
  PROVE  \E q \in Nat, r \in 0..(m - 1) : x = q * m + r /\ (x % m) = r
<1>1. x % m \in 0..(m - 1) /\ x \div m \in Nat /\ x = (x \div m) * m + (x % m)
  OBVIOUS
<1> QED
  BY <1>1, Zenon

LEMMA ModUnique ==
  ASSUME NEW m \in Nat \ {0}, NEW q \in Nat, NEW r \in 0..(m - 1)
  PROVE  (q * m + r) % m = r
OBVIOUS

LEMMA ModRange ==
  ASSUME NEW m \in Nat \ {0}, NEW x \in Nat
  PROVE  x % m \in 0..(m - 1)
OBVIOUS

LEMMA ModSmall ==
  ASSUME NEW m \in Nat \ {0}, NEW x \in 0..(m - 1)
  PROVE  x % m = x
OBVIOUS

LEMMA ModOver ==
  ASSUME NEW m \in Nat \ {0}, NEW x \in m..(2 * m - 1)
  PROVE  x % m = x - m
OBVIOUS

\* A multiple of m adds nothing.
LEMMA ModAdd ==
  ASSUME NEW m \in Nat \ {0}, NEW u \in Nat, u % m = 0, NEW x \in Nat
  PROVE  (u + x) % m = x % m
<1>1. PICK a \in Nat, z \in 0..(m - 1) : u = a * m + z /\ u % m = z
  BY Zenon, ModDef
<1>2. PICK b \in Nat, r \in 0..(m - 1) : x = b * m + r /\ x % m = r
  BY Zenon, ModDef
<1>3. a + b \in Nat /\ (a + b) * m + r = u + x
  BY <1>1, <1>2
<1> QED
  BY <1>2, <1>3, ModUnique, Zenon

LEMMA AtLeastOnce ==
  ASSUME NEW m \in Nat, NEW d \in Int, d >= 1
  PROVE  d * m >= m
OBVIOUS

\* Fewer than m slots from each other are different slots.
LEMMA ModApart ==
  ASSUME NEW m \in Nat \ {0}, NEW x \in Nat, NEW k \in 0..(m - 1), NEW j \in 0..(m - 1), k < j
  PROVE  (x + k) % m # (x + j) % m
<1> SUFFICES ASSUME (x + k) % m = (x + j) % m PROVE FALSE
  BY Zenon
<1>1. x + k \in Nat /\ x + j \in Nat
  OBVIOUS
<1>2. PICK a \in Nat, r \in 0..(m - 1) : x + k = a * m + r /\ (x + k) % m = r
  BY <1>1, ModDef, Zenon
<1>3. PICK b \in Nat, s \in 0..(m - 1) : x + j = b * m + s /\ (x + j) % m = s
  BY <1>1, ModDef, Zenon
<1>4. (b - a) * m = j - k
  BY <1>2, <1>3
<1>5. b - a < 1
  BY <1>4, AtLeastOnce
<1>6. b - a > 0
  BY <1>4
<1> QED
  BY <1>5, <1>6

-----------------------------------------------------------------------------
(* The counters. *)

LEMMA Widths ==
  /\ Size \in Nat \ {0} /\ UMod \in Nat \ {0} /\ UMod > Size /\ UMod % Size = 0
BY PipeConstants

\* How far nwrite is ahead of nread, and what the tests for full and empty see.
LEMMA Counts ==
  ASSUME TypeOK
  PROVE  /\ Count \in 0..(UMod - 1)
         /\ nread + Count = nwrite \/ nread + Count = nwrite + UMod
         /\ Empty <=> Count = 0
         /\ Full <=> Count = Size
<1>0. nread \in 0..(UMod - 1) /\ nwrite \in 0..(UMod - 1)
  BY Zenon DEF TypeOK
<1>1. CASE nwrite >= nread
  <2>1. Count = nwrite - nread
    BY <1>0, <1>1, Widths, ModOver DEF Count
  <2>2. CASE nread + Size < UMod
    <3>1. (nread + Size) % UMod = nread + Size
      BY <1>0, <2>2, Widths, ModSmall
    <3> QED
      BY <1>0, <1>1, <2>1, <3>1, Widths DEF Empty, Full
  <2>3. CASE nread + Size >= UMod
    <3>1. (nread + Size) % UMod = nread + Size - UMod
      BY <1>0, <2>3, Widths, ModOver
    <3> QED
      BY <1>0, <1>1, <2>1, <2>3, <3>1, Widths DEF Empty, Full
  <2> QED
    BY <1>0, <2>2, <2>3, Widths
<1>2. CASE nwrite < nread
  <2>1. Count = nwrite + UMod - nread
    BY <1>0, <1>2, Widths, ModSmall DEF Count
  <2>2. CASE nread + Size < UMod
    <3>1. (nread + Size) % UMod = nread + Size
      BY <1>0, <2>2, Widths, ModSmall
    <3> QED
      BY <1>0, <1>2, <2>1, <2>2, <3>1, Widths DEF Empty, Full
  <2>3. CASE nread + Size >= UMod
    <3>1. (nread + Size) % UMod = nread + Size - UMod
      BY <1>0, <2>3, Widths, ModOver
    <3> QED
      BY <1>0, <1>2, <2>1, <2>3, <3>1, Widths DEF Empty, Full
  <2> QED
    BY <1>0, <2>2, <2>3, Widths
<1> QED
  BY <1>0, <1>1, <1>2

LEMMA Incremented ==
  ASSUME NEW x \in 0..(UMod - 1)
  PROVE  Inc(x) \in 0..(UMod - 1) /\ (Inc(x) = x + 1 \/ (Inc(x) = 0 /\ x + 1 = UMod))
<1>1. CASE x + 1 < UMod
  BY <1>1, Widths, ModSmall DEF Inc
<1>2. CASE x + 1 = UMod
  BY <1>2, Widths, ModOver DEF Inc
<1> QED
  BY <1>1, <1>2, Widths

LEMMA CountIs ==
  ASSUME NEW w \in 0..(UMod - 1), NEW r \in 0..(UMod - 1), NEW c \in 0..(UMod - 1),
         r + c = w \/ r + c = w + UMod
  PROVE  (w + UMod - r) % UMod = c
<1>1. CASE r + c = w
  BY <1>1, Widths, ModOver
<1>2. CASE r + c = w + UMod
  BY <1>2, Widths, ModSmall
<1> QED
  BY Zenon, <1>1, <1>2

LEMMA PutCount ==
  ASSUME TypeOK, Count < Size, nwrite' = Inc(nwrite), nread' = nread
  PROVE  nwrite' \in 0..(UMod - 1) /\ Count' = Count + 1
<1>0. nread \in 0..(UMod - 1) /\ nwrite \in 0..(UMod - 1)
  BY Zenon DEF TypeOK
<1>1. nwrite' \in 0..(UMod - 1) /\ (nwrite' = nwrite + 1 \/ (nwrite' = 0 /\ nwrite + 1 = UMod))
  BY Zenon, <1>0, Incremented
<1>2. Count + 1 \in 0..(UMod - 1)
  BY Counts, Widths
<1>3. nread + (Count + 1) = nwrite' \/ nread + (Count + 1) = nwrite' + UMod
  BY <1>0, <1>1, <1>2, Counts, Widths
<1>4. (nwrite' + UMod - nread) % UMod = Count + 1
  BY Zenon, <1>0, <1>1, <1>2, <1>3, CountIs
<1> QED
  BY Zenon, <1>1, <1>4 DEF Count

LEMMA GetCount ==
  ASSUME TypeOK, Count > 0, nread' = Inc(nread), nwrite' = nwrite
  PROVE  nread' \in 0..(UMod - 1) /\ Count' = Count - 1
<1>0. nread \in 0..(UMod - 1) /\ nwrite \in 0..(UMod - 1)
  BY Zenon DEF TypeOK
<1>1. nread' \in 0..(UMod - 1) /\ (nread' = nread + 1 \/ (nread' = 0 /\ nread + 1 = UMod))
  BY Zenon, <1>0, Incremented
<1>2. Count - 1 \in 0..(UMod - 1)
  BY Counts, Widths
<1>3. nread' + (Count - 1) = nwrite \/ nread' + (Count - 1) = nwrite + UMod
  BY <1>0, <1>1, <1>2, Counts, Widths
<1>4. (nwrite + UMod - nread') % UMod = Count - 1
  BY <1>0, <1>1, <1>2, <1>3, CountIs, Zenon
<1> QED
  BY Zenon, <1>1, <1>4 DEF Count

-----------------------------------------------------------------------------
(* The ring. *)

\* The slot after x's, also where the counter wraps.
LEMMA NextSlot ==
  ASSUME NEW x \in 0..(UMod - 1), NEW k \in Nat
  PROVE  (Inc(x) + k) % Size = (x + 1 + k) % Size
<1>1. CASE Inc(x) = x + 1
  BY Zenon, <1>1
<1>2. CASE Inc(x) = 0 /\ x + 1 = UMod
  <2>1. (UMod + k) % Size = k % Size
    BY ModAdd, Widths, Zenon
  <2>2. Inc(x) + k = k /\ x + 1 + k = UMod + k
    BY <1>2, Widths
  <2> QED
    BY Zenon, <2>1, <2>2
<1> QED
  BY Zenon, <1>1, <1>2, Incremented

\* The slot written is the one after the last byte.
LEMMA WriteSlot ==
  ASSUME TypeOK
  PROVE  (nread + Count) % Size = nwrite % Size
<1>0. nread \in 0..(UMod - 1) /\ nwrite \in 0..(UMod - 1) /\ nwrite \in Nat
  BY Widths DEF TypeOK
<1>1. CASE nread + Count = nwrite
  BY Zenon, <1>1
<1>2. CASE nread + Count = nwrite + UMod
  <2>1. nread + Count = UMod + nwrite
    BY <1>0, <1>2, Widths
  <2>2. (UMod + nwrite) % Size = nwrite % Size
    BY <1>0, ModAdd, Widths, Zenon
  <2> QED
    BY Zenon, <2>1, <2>2
<1> QED
  BY Zenon, <1>1, <1>2, Counts

LEMMA ContentsSeq ==
  ASSUME TypeOK
  PROVE  /\ Contents \in Seq(Byte) /\ Len(Contents) = Count
         /\ \A k \in 1..Count : /\ Contents[k] = data[(nread + k - 1) % Size]
                                /\ (nread + k - 1) % Size \in 0..(Size - 1)
<1>0. nread \in 0..(UMod - 1) /\ data \in [0..(Size - 1) -> Byte] /\ Count \in Nat
  BY Counts, Widths DEF TypeOK
<1>1. \A k \in 1..Count : (nread + k - 1) % Size \in 0..(Size - 1)
  BY <1>0, ModRange, Widths
<1>2. Contents = [k \in 1..Count |-> data[(nread + k - 1) % Size]]
  BY Zenon DEF Contents, Count
<1>3. Contents \in [1..Count -> Byte]
  BY <1>0, <1>1, <1>2, Zenon
<1>4. Contents \in Seq(Byte) /\ Len(Contents) = Count
  BY <1>0, <1>3
<1> QED
  BY <1>1, <1>2, <1>4, Zenon

LEMMA SeqAsFcn ==
  ASSUME NEW S, NEW s \in Seq(S), NEW m, m = Len(s)
  PROVE  s = [k \in 1..m |-> s[k]]
OBVIOUS

LEMMA Appended ==
  ASSUME NEW S, NEW s \in Seq(S), NEW b \in S, NEW m \in Nat, m = Len(s) + 1
  PROVE  Append(s, b)[m] = b
OBVIOUS

LEMMA AppendProps ==
  ASSUME NEW S, NEW s \in Seq(S), NEW b \in S, NEW m \in Nat, m = Len(s)
  PROVE  /\ Append(s, b) \in Seq(S) /\ Len(Append(s, b)) = m + 1
         /\ \A k \in 1..m : Append(s, b)[k] = s[k]
         /\ Append(s, b)[m + 1] = b
<1>1. Append(s, b) \in Seq(S) /\ Len(Append(s, b)) = m + 1
  OBVIOUS
<1>2. \A k \in 1..m : Append(s, b)[k] = s[k]
  OBVIOUS
<1>3. m + 1 \in Nat /\ m + 1 = Len(s) + 1
  OBVIOUS
<1>4. Append(s, b)[m + 1] = b
  BY <1>3, Appended
<1> QED
  BY Zenon, <1>1, <1>2, <1>4

LEMMA TailProps ==
  ASSUME NEW S, NEW s \in Seq(S), s # <<>>
  PROVE  /\ Tail(s) \in Seq(S) /\ Len(Tail(s)) = Len(s) - 1
         /\ \A k \in 1..(Len(s) - 1) : Tail(s)[k] = s[k + 1]
OBVIOUS

\* What pipewrite does to the ring appends a byte to the contents ...
LEMMA PutRing ==
  ASSUME TypeOK, Count < Size, NEW b \in Byte,
         data' = [data EXCEPT ![nwrite % Size] = b], nwrite' = Inc(nwrite), nread' = nread
  PROVE  /\ data' \in [0..(Size - 1) -> Byte] /\ nwrite' \in 0..(UMod - 1)
         /\ Count' = Count + 1 /\ Contents' = Append(Contents, b)
<1>0. /\ nread \in 0..(UMod - 1) /\ nwrite \in 0..(UMod - 1) /\ nread \in Nat
      /\ data \in [0..(Size - 1) -> Byte] /\ Count \in Nat
  BY Counts, Widths DEF TypeOK
<1>1. nwrite' \in 0..(UMod - 1) /\ Count' = Count + 1
  BY Zenon, PutCount
<1>2. nwrite % Size \in 0..(Size - 1)
  BY <1>0, ModRange, Widths
<1>3. data' \in [0..(Size - 1) -> Byte]
  BY Zenon, <1>0, <1>2
<1>4. Contents' = [k \in 1..(Count + 1) |-> data'[(nread + k - 1) % Size]]
  BY <1>1 DEF Contents, Count
<1>5. \A k \in 1..Count : data'[(nread + k - 1) % Size] = Contents[k]
  <2> SUFFICES ASSUME NEW k \in 1..Count
               PROVE  data'[(nread + k - 1) % Size] = Contents[k]
    BY Zenon
  <2>1. k - 1 \in 0..(Size - 1) /\ Count \in 0..(Size - 1) /\ k - 1 < Count
    BY <1>0, Widths
  <2>2. (nread + (k - 1)) % Size # (nread + Count) % Size
    BY <1>0, <2>1, ModApart, Widths, Zenon
  <2>3. nread + (k - 1) = nread + k - 1
    BY Zenon, <1>0
  <2>4. (nread + k - 1) % Size # nwrite % Size
    BY Zenon, <2>2, <2>3, WriteSlot
  <2> QED
    BY Zenon, <1>0, <1>2, <2>4, ContentsSeq
<1>6. data'[(nread + (Count + 1) - 1) % Size] = b
  <2>1. nread + (Count + 1) - 1 = nread + Count
    BY <1>0
  <2> QED
    BY Zenon, <1>0, <1>2, <2>1, WriteSlot
<1>7. /\ Contents \in Seq(Byte) /\ Len(Contents) = Count
      /\ Append(Contents, b) \in Seq(Byte) /\ Len(Append(Contents, b)) = Count + 1
      /\ \A k \in 1..Count : Append(Contents, b)[k] = Contents[k]
      /\ Append(Contents, b)[Count + 1] = b
  BY ContentsSeq, AppendProps
<1>8. Append(Contents, b) = [k \in 1..(Count + 1) |-> Append(Contents, b)[k]]
  BY <1>7, SeqAsFcn, Zenon
<1>9. \A k \in 1..(Count + 1) : data'[(nread + k - 1) % Size] = Append(Contents, b)[k]
  <2> SUFFICES ASSUME NEW k \in 1..(Count + 1)
               PROVE  data'[(nread + k - 1) % Size] = Append(Contents, b)[k]
    BY Zenon
  <2>1. CASE k = Count + 1
    BY Zenon, <1>6, <1>7, <2>1
  <2>2. CASE k # Count + 1
    BY <1>0, <1>5, <1>7, <2>2
  <2> QED
    BY <2>1, <2>2, Zenon
<1> QED
  BY Zenon, <1>1, <1>3, <1>4, <1>8, <1>9

\* ... and what piperead does takes the first one.
LEMMA GetRing ==
  ASSUME TypeOK, Count > 0, data' = data, nwrite' = nwrite, nread' = Inc(nread)
  PROVE  /\ data[nread % Size] \in Byte /\ nread' \in 0..(UMod - 1) /\ Count' = Count - 1
         /\ Contents # <<>> /\ Head(Contents) = data[nread % Size]
         /\ Contents' = Tail(Contents)
<1>0. /\ nread \in 0..(UMod - 1) /\ nread \in Nat
      /\ data \in [0..(Size - 1) -> Byte] /\ Count \in Nat
  BY Counts, Widths DEF TypeOK
<1>1. nread' \in 0..(UMod - 1) /\ Count' = Count - 1
  BY Zenon, GetCount
<1>2. nread % Size \in 0..(Size - 1) /\ nread + 1 - 1 = nread
  BY <1>0, ModRange, Widths
<1>3. Contents \in Seq(Byte) /\ Len(Contents) = Count /\ Contents # <<>>
  BY <1>0, ContentsSeq
<1>4. Head(Contents) = data[nread % Size]
  <2>1. Contents[1] = data[(nread + 1 - 1) % Size]
    BY <1>0, ContentsSeq
  <2> QED
    BY <1>2, <1>3, <2>1
<1>5. Contents' = [k \in 1..(Count - 1) |-> data[(Inc(nread) + k - 1) % Size]]
  BY Zenon, <1>1 DEF Contents, Count
<1>6. \A k \in 1..(Count - 1) : data[(Inc(nread) + k - 1) % Size] = Contents[k + 1]
  <2> SUFFICES ASSUME NEW k \in 1..(Count - 1)
               PROVE  data[(Inc(nread) + k - 1) % Size] = Contents[k + 1]
    BY Zenon
  <2>1. k - 1 \in Nat /\ k + 1 \in 1..Count
    BY <1>0
  <2>2. (Inc(nread) + (k - 1)) % Size = (nread + 1 + (k - 1)) % Size
    BY Zenon, <1>0, <2>1, NextSlot
  <2>3. Inc(nread) + (k - 1) = Inc(nread) + k - 1 /\ nread + 1 + (k - 1) = nread + (k + 1) - 1
    BY <1>0, <2>1, Incremented, Widths
  <2>4. Contents[k + 1] = data[(nread + (k + 1) - 1) % Size]
    BY Zenon, <2>1, ContentsSeq
  <2> QED
    BY Zenon, <2>2, <2>3, <2>4
<1>7. Tail(Contents) = [k \in 1..(Count - 1) |-> Contents[k + 1]]
  <2>1. /\ Tail(Contents) \in Seq(Byte) /\ Len(Tail(Contents)) = Count - 1
        /\ \A k \in 1..(Count - 1) : Tail(Contents)[k] = Contents[k + 1]
    BY Zenon, <1>3, TailProps
  <2>2. Tail(Contents) = [k \in 1..(Count - 1) |-> Tail(Contents)[k]]
    BY <2>1, SeqAsFcn, Zenon
  <2> QED
    BY Zenon, <2>1, <2>2
<1> QED
  BY Zenon, <1>0, <1>1, <1>2, <1>3, <1>4, <1>5, <1>6, <1>7

-----------------------------------------------------------------------------
(* The steps keep the invariant. *)

Inside == {"loop", "failed"}

\* Process p moves to l; a process that sleeps may be woken.
Moves(p, l) ==
  /\ pc' \in [Procs -> Labels] /\ pc'[p] = l
  /\ \A q \in Procs \ {p} : pc'[q] = pc[q] \/ (pc[q] = "sleep" /\ pc'[q] = "acquire")

LEMMA Moved ==
  ASSUME TypeOK, NEW p \in Procs, NEW l \in Labels
  PROVE  /\ pc' = [pc EXCEPT ![p] = l] => Moves(p, l) /\ \A q \in Procs \ {p} : pc'[q] = pc[q]
         /\ l # "sleep" /\ pc' = [WakeReaders(pc) EXCEPT ![p] = l] =>
              Moves(p, l) /\ \A q \in Readers : pc'[q] # "sleep"
         /\ l # "sleep" /\ pc' = [WakeWriters(pc) EXCEPT ![p] = l] =>
              Moves(p, l) /\ \A q \in Writers : pc'[q] # "sleep"
         /\ p \in Writers /\ pc' = WakeReaders([pc EXCEPT ![p] = l]) =>
              Moves(p, l) /\ \A q \in Readers : pc'[q] # "sleep"
         /\ l # "sleep" /\ pc' = WakeWriters([pc EXCEPT ![p] = l]) =>
              Moves(p, l) /\ \A q \in Writers : pc'[q] # "sleep"
<1>0. pc \in [Procs -> Labels] /\ "acquire" \in Labels /\ Writers \cap Readers = {}
      /\ Readers \subseteq Procs /\ Writers \subseteq Procs
  BY Zenon, PipeConstants DEF TypeOK, Labels, Procs
<1>1. pc' = [pc EXCEPT ![p] = l] => Moves(p, l) /\ \A q \in Procs \ {p} : pc'[q] = pc[q]
  BY Zenon, <1>0 DEF Moves
<1>2. l # "sleep" /\ pc' = [WakeReaders(pc) EXCEPT ![p] = l] =>
        Moves(p, l) /\ \A q \in Readers : pc'[q] # "sleep"
  BY Zenon, <1>0 DEF Moves, WakeReaders
<1>3. l # "sleep" /\ pc' = [WakeWriters(pc) EXCEPT ![p] = l] =>
        Moves(p, l) /\ \A q \in Writers : pc'[q] # "sleep"
  BY Zenon, <1>0 DEF Moves, WakeWriters
<1>4. p \in Writers /\ pc' = WakeReaders([pc EXCEPT ![p] = l]) =>
        Moves(p, l) /\ \A q \in Readers : pc'[q] # "sleep"
  BY Zenon, <1>0 DEF Moves, WakeReaders
<1>5. l # "sleep" /\ pc' = WakeWriters([pc EXCEPT ![p] = l]) =>
        Moves(p, l) /\ \A q \in Writers : pc'[q] # "sleep"
  BY Zenon, <1>0 DEF Moves, WakeWriters
<1> QED
  BY Zenon, <1>1, <1>2, <1>3, <1>4, <1>5

\* The lock is taken at the entry to the loop and given up where it is left.
LEMMA LockStep ==
  ASSUME PInv, NEW p \in Procs, NEW l, Moves(p, l), l = "failed" => p \in Readers,
         \/ lock' = lock /\ (l \in Inside <=> pc[p] \in Inside)
         \/ lock = None /\ lock' = p /\ l \in Inside
         \/ lock = p /\ lock' = None /\ l \notin Inside
  PROVE  LockInv' /\ lock' \in Procs \cup {None}
<1>1. None \notin Procs /\ lock \in Procs \cup {None}
  BY Zenon, PipeConstants DEF None, PInv, TypeOK
<1>2. \A q \in Procs : /\ lock = q <=> pc[q] \in Inside
                       /\ pc[q] = "failed" => q \in Readers
  BY Zenon DEF PInv, LockInv, Inside
<1>3. \A q \in Procs \ {p} : /\ pc'[q] \in Inside <=> pc[q] \in Inside
                             /\ pc'[q] = "failed" <=> pc[q] = "failed"
  BY Zenon DEF Moves, Inside
<1>4. pc'[p] = l
  BY Zenon DEF Moves
<1>5. \A q \in Procs : /\ lock' = q <=> pc'[q] \in Inside
                       /\ pc'[q] = "failed" => q \in Readers
  BY Zenon, <1>1, <1>2, <1>3, <1>4
<1> QED
  BY Zenon, <1>1, <1>5 DEF LockInv, Inside

LEMMA EndSame ==
  ASSUME PInv, NEW p \in Procs, NEW l, Moves(p, l),
         UNCHANGED <<readopen, writeopen, freed>>,
         l \notin {"closing", "closed"}, pc[p] \notin {"closing", "closed"}
  PROVE  EndInv'
<1>1. Readers \subseteq Procs /\ Writers \subseteq Procs
  BY Zenon DEF Procs
<1>2. \A q \in Procs : /\ pc'[q] = "closed" <=> pc[q] = "closed"
                       /\ pc'[q] = "closing" <=> pc[q] = "closing"
  BY Zenon DEF Moves
<1>3. \A q \in Procs : SameEnd(q) \subseteq Procs
  BY Zenon, <1>1 DEF SameEnd
<1>4. EndInv
  BY Zenon DEF PInv
<1> QED
  BY Zenon, <1>1, <1>2, <1>3, <1>4 DEF EndInv

LEMMA Ring ==
  ASSUME UNCHANGED <<data, nread, nwrite>>
  PROVE  Count' = Count /\ (Full' <=> Full) /\ (Empty' <=> Empty) /\ Contents' = Contents
BY Zenon DEF Count, Full, Empty, Contents

\* A writer that sleeps keeps its reason to, or the reader that takes it away
\* holds the lock and will wake it.
Owes(r) == pc[r] = "failed" \/ (pc[r] = "loop" /\ i[r] > 0)

LEMMA WriterStep ==
  ASSUME PInv, NEW p \in Procs, NEW l, Moves(p, l), readopen' = readopen,
         \A q \in Procs \ {p} : i'[q] = i[q],
         p \in Writers /\ l = "sleep" => Full' /\ readopen,
         \/ \A q \in Writers : pc'[q] # "sleep"
         \/ p \in Readers /\ Owes(p)'
         \/ (Full => Full') /\ ~(p \in Readers /\ Owes(p))
  PROVE  WriterInv'
<1>1. Readers \subseteq Procs /\ Writers \subseteq Procs /\ Writers \cap Readers = {}
  BY Zenon, PipeConstants DEF Procs
<1> SUFFICES ASSUME NEW q \in Writers, pc'[q] = "sleep"
             PROVE  readopen' /\ (Full' \/ \E r \in Readers : Owes(r)')
  BY Zenon DEF WriterInv, Owes
<1>2. CASE q = p
  BY Zenon, <1>2 DEF Moves
<1>3. CASE q # p
  <2>1. pc[q] = "sleep"
    BY Zenon, <1>1, <1>3 DEF Moves
  <2>2. readopen /\ (Full \/ \E r \in Readers : Owes(r))
    BY Zenon, <2>1 DEF PInv, WriterInv, Owes
  <2>3. ASSUME NEW r \in Readers, Owes(r), r # p
        PROVE  Owes(r)'
    <3>1. pc'[r] = pc[r] /\ i'[r] = i[r]
      BY Zenon, <1>1, <2>3 DEF Moves, Owes
    <3> QED
      BY Zenon, <2>3, <3>1 DEF Owes
  <2> QED
    BY Zenon, <2>2, <2>3
<1> QED
  BY Zenon, <1>2, <1>3

\* The same for a reader that sleeps.
Wrote(w) == pc[w] = "loop" /\ i[w] > 0

LEMMA ReaderStep ==
  ASSUME PInv, NEW p \in Procs, NEW l, Moves(p, l),
         \A q \in Procs \ {p} : i'[q] = i[q],
         \A q \in Procs : killed[q] => killed'[q],
         p \in Readers /\ l = "sleep" => Empty' /\ writeopen',
         \/ \A q \in Readers : pc'[q] # "sleep"
         \/ p \in Writers /\ (Wrote(p)' \/ killed'[p])
         \/ (Empty => Empty') /\ writeopen' = writeopen /\ ~(p \in Writers /\ Wrote(p))
  PROVE  ReaderInv'
<1>1. Readers \subseteq Procs /\ Writers \subseteq Procs /\ Writers \cap Readers = {}
  BY Zenon, PipeConstants DEF Procs
<1> SUFFICES ASSUME NEW q \in Readers, pc'[q] = "sleep"
             PROVE  \/ \E w \in Writers : killed'[w]
                    \/ Empty' /\ writeopen'
                    \/ \E w \in Writers : Wrote(w)'
  BY Zenon DEF ReaderInv, Wrote
<1>2. CASE q = p
  BY Zenon, <1>2 DEF Moves
<1>3. CASE q # p
  <2>1. pc[q] = "sleep"
    BY Zenon, <1>1, <1>3 DEF Moves
  <2>2. \/ \E w \in Writers : killed[w]
        \/ Empty /\ writeopen
        \/ \E w \in Writers : Wrote(w)
    BY Zenon, <2>1 DEF PInv, ReaderInv, Wrote
  <2>3. ASSUME NEW w \in Writers, Wrote(w), w # p
        PROVE  Wrote(w)'
    <3>1. pc'[w] = pc[w] /\ i'[w] = i[w]
      BY Zenon, <1>1, <2>3 DEF Moves, Wrote
    <3> QED
      BY Zenon, <2>3, <3>1 DEF Wrote
  <2> QED
    BY <1>1, <2>2, <2>3
<1> QED
  BY Zenon, <1>2, <1>3

LEMMA Words ==
  /\ {"idle", "acquire", "loop", "failed", "sleep", "closing", "closed"} \subseteq Labels
  /\ "acquire" \notin Inside /\ "idle" \notin Inside /\ "sleep" \notin Inside
  /\ "closing" \notin Inside /\ "closed" \notin Inside
  /\ "loop" \in Inside /\ "failed" \in Inside
BY Zenon DEF Labels, Inside

\* A step of p that leaves the pipe itself alone.
LEMMA Quiet ==
  ASSUME PInv, NEW p \in Procs, NEW l, Moves(p, l), UNCHANGED shared,
         n' \in [Procs -> Nat], i' \in [Procs -> Nat], ch' \in Byte \cup {None},
         killed' \in [Procs -> BOOLEAN],
         \A q \in Procs \ {p} : i'[q] = i[q],
         \A q \in Procs : killed[q] => killed'[q],
         l = "failed" => pc[p] = "failed",
         l \notin {"closing", "closed"} \/ l = pc[p],
         pc[p] \notin {"closing", "closed"} \/ l = pc[p],
         \/ lock' = lock /\ (l \in Inside <=> pc[p] \in Inside)
         \/ lock = None /\ lock' = p /\ l \in Inside
         \/ lock = p /\ lock' = None /\ l \notin Inside,
         l = "sleep" => /\ p \in Writers => Full /\ readopen
                        /\ p \in Readers => Empty /\ writeopen,
         \/ \A q \in Writers : pc'[q] # "sleep"
         \/ p \in Readers /\ Owes(p)'
         \/ ~(p \in Readers /\ Owes(p)),
         \/ \A q \in Readers : pc'[q] # "sleep"
         \/ p \in Writers /\ (Wrote(p)' \/ killed'[p])
         \/ ~(p \in Writers /\ Wrote(p))
  PROVE  PInv'
<1>1. /\ data' = data /\ nread' = nread /\ nwrite' = nwrite
      /\ readopen' = readopen /\ writeopen' = writeopen /\ freed' = freed
  BY Zenon DEF shared
<1>2. Count' = Count /\ (Full' <=> Full) /\ (Empty' <=> Empty)
  BY Zenon, <1>1, Ring
<1>3. LockInv' /\ lock' \in Procs \cup {None}
  <2>1. l = "failed" => p \in Readers
    BY Zenon DEF PInv, LockInv
  <2> QED
    BY Zenon, <2>1, LockStep
<1>4. EndInv'
  <2>1. CASE l = pc[p]
    <3>1. \A q \in Procs : /\ pc'[q] = "closed" <=> pc[q] = "closed"
                           /\ pc'[q] = "closing" <=> pc[q] = "closing"
      BY Zenon, <2>1 DEF Moves
    <3>2. \A q \in Procs : SameEnd(q) \subseteq Procs
      BY Zenon DEF SameEnd, Procs
    <3> QED
      BY Zenon, <1>1, <3>1, <3>2 DEF EndInv, PInv, Procs
  <2>2. CASE l # pc[p]
    BY Zenon, <1>1, <2>2, EndSame
  <2> QED
    BY Zenon, <2>1, <2>2
<1>5. WriterInv'
  BY Zenon, <1>1, <1>2, WriterStep
<1>6. ReaderInv'
  BY Zenon, <1>1, <1>2, ReaderStep
<1>7. TypeOK'
  BY Zenon, <1>1, <1>3 DEF PInv, TypeOK, Moves
<1> QED
  BY Zenon, <1>2, <1>3, <1>4, <1>5, <1>6, <1>7 DEF PInv

LEMMA Call ==
  ASSUME PInv, NEW p \in Procs, NEW k \in Sizes, call(p, k)
  PROVE  PInv'
<1>1. /\ pc[p] = "idle" /\ n' = [n EXCEPT ![p] = k] /\ i' = [i EXCEPT ![p] = 0]
      /\ pc' = [pc EXCEPT ![p] = "acquire"] /\ UNCHANGED <<shared, lock, ch, killed>>
  BY Zenon DEF call
<1>2. Moves(p, "acquire")
  BY <1>1, Moved, Words, Zenon DEF PInv
<1>3. n' \in [Procs -> Nat] /\ i' \in [Procs -> Nat] /\ \A q \in Procs \ {p} : i'[q] = i[q]
  BY Zenon, <1>1, PipeConstants DEF PInv, TypeOK
<1>4. ~Owes(p) /\ ~Wrote(p) /\ ch' \in Byte \cup {None} /\ killed' \in [Procs -> BOOLEAN]
  BY Zenon, <1>1 DEF Owes, Wrote, PInv, TypeOK
<1> QED
  BY Zenon, <1>1, <1>2, <1>3, <1>4, Quiet, Words

LEMMA Acquire ==
  ASSUME PInv, NEW p \in Procs, acquire(p)
  PROVE  PInv'
<1>1. /\ pc[p] = "acquire" /\ lock = None /\ lock' = p
      /\ pc' = [pc EXCEPT ![p] = "loop"] /\ UNCHANGED <<shared, n, i, ch, killed>>
  BY Zenon DEF acquire
<1>2. Moves(p, "loop")
  BY <1>1, Moved, Words, Zenon DEF PInv
<1>3. /\ ~Owes(p) /\ ~Wrote(p) /\ ch' \in Byte \cup {None} /\ killed' \in [Procs -> BOOLEAN]
      /\ n' \in [Procs -> Nat] /\ i' \in [Procs -> Nat]
  BY Zenon, <1>1 DEF Owes, Wrote, PInv, TypeOK
<1> QED
  BY Zenon, <1>1, <1>2, <1>3, Quiet, Words

\* What Return does besides moving the process.
LEMMA Returned ==
  ASSUME PInv, NEW p \in Procs, NEW f, Return(p, f), pc[p] \in Inside
  PROVE  /\ lock = p /\ lock' = None /\ pc' = [f EXCEPT ![p] = "idle"]
         /\ n' \in [Procs -> Nat] /\ i' \in [Procs -> Nat] /\ \A q \in Procs \ {p} : i'[q] = i[q]
BY Zenon DEF PInv, TypeOK, LockInv, Inside, Return

LEMMA WriteFail ==
  ASSUME PInv, NEW p \in Procs, write_fail(p)
  PROVE  PInv'
<1>1. /\ p \in Writers /\ pc[p] = "loop" /\ (~readopen \/ killed[p]) /\ Return(p, pc)
      /\ UNCHANGED <<shared, ch, killed>>
  BY Zenon DEF write_fail, Writing
<1>2. /\ lock = p /\ lock' = None /\ pc' = [pc EXCEPT ![p] = "idle"]
      /\ n' \in [Procs -> Nat] /\ i' \in [Procs -> Nat] /\ \A q \in Procs \ {p} : i'[q] = i[q]
  BY Zenon, <1>1, Returned, Words
<1>3. Moves(p, "idle") /\ \A q \in Procs \ {p} : pc'[q] = pc[q]
  BY <1>2, Moved, Words, Zenon DEF PInv
<1>4. ch' \in Byte \cup {None} /\ killed' \in [Procs -> BOOLEAN] /\ killed' = killed /\ p \notin Readers
  BY Zenon, <1>1, PipeConstants DEF PInv, TypeOK
<1>5. killed[p] \/ \A q \in Readers : pc'[q] # "sleep"
  BY Zenon, <1>1, <1>3, <1>4 DEF PInv, EndInv, Procs
<1> QED
  BY Zenon, <1>1, <1>2, <1>3, <1>4, <1>5, Quiet, Words

LEMMA WriteSleep ==
  ASSUME PInv, NEW p \in Procs, write_sleep(p)
  PROVE  PInv'
<1>1. /\ p \in Writers /\ pc[p] = "loop" /\ Full /\ readopen
      /\ pc' = WakeReaders([pc EXCEPT ![p] = "sleep"]) /\ lock' = None
      /\ UNCHANGED <<shared, n, i, ch, killed>>
  BY Zenon DEF write_sleep, Writing
<1>2. Moves(p, "sleep") /\ \A q \in Readers : pc'[q] # "sleep"
  BY <1>1, Moved, Words, Zenon DEF PInv
<1>3. /\ ch' \in Byte \cup {None} /\ killed' \in [Procs -> BOOLEAN] /\ p \notin Readers
      /\ n' \in [Procs -> Nat] /\ i' \in [Procs -> Nat] /\ lock = p
  BY Zenon, <1>1, PipeConstants DEF PInv, TypeOK, LockInv
<1> QED
  BY <1>1, <1>2, <1>3, Quiet, Words, Zenon

LEMMA WriteDone ==
  ASSUME PInv, NEW p \in Procs, write_done(p)
  PROVE  PInv'
<1>1. /\ p \in Writers /\ pc[p] = "loop" /\ Return(p, WakeReaders(pc))
      /\ UNCHANGED <<shared, ch, killed>>
  BY Zenon DEF write_done, Writing
<1>2. /\ lock = p /\ lock' = None /\ pc' = [WakeReaders(pc) EXCEPT ![p] = "idle"]
      /\ n' \in [Procs -> Nat] /\ i' \in [Procs -> Nat] /\ \A q \in Procs \ {p} : i'[q] = i[q]
  BY Zenon, <1>1, Returned, Words
<1>3. Moves(p, "idle") /\ \A q \in Readers : pc'[q] # "sleep"
  BY <1>2, Moved, Words, Zenon DEF PInv
<1>4. ch' \in Byte \cup {None} /\ killed' \in [Procs -> BOOLEAN] /\ killed' = killed /\ p \notin Readers
  BY Zenon, <1>1, PipeConstants DEF PInv, TypeOK
<1> QED
  BY Zenon, <1>1, <1>2, <1>3, <1>4, Quiet, Words

LEMMA ReadFail ==
  ASSUME PInv, NEW p \in Procs, read_fail(p)
  PROVE  PInv'
<1>1. /\ p \in Readers /\ pc[p] = "loop" /\ i[p] = 0 /\ Return(p, pc)
      /\ UNCHANGED <<shared, ch, killed>>
  BY Zenon DEF read_fail, Reading, MustWait
<1>2. /\ lock = p /\ lock' = None /\ pc' = [pc EXCEPT ![p] = "idle"]
      /\ n' \in [Procs -> Nat] /\ i' \in [Procs -> Nat] /\ \A q \in Procs \ {p} : i'[q] = i[q]
  BY Zenon, <1>1, Returned, Words
<1>3. Moves(p, "idle")
  BY <1>2, Moved, Words, Zenon DEF PInv
<1>4. ch' \in Byte \cup {None} /\ killed' \in [Procs -> BOOLEAN] /\ killed' = killed /\ p \notin Writers
  BY Zenon, <1>1, PipeConstants DEF PInv, TypeOK
<1>5. ~Owes(p)
  BY <1>1 DEF Owes
<1> QED
  BY Zenon, <1>1, <1>2, <1>3, <1>4, <1>5, Quiet, Words

LEMMA ReadSleep ==
  ASSUME PInv, NEW p \in Procs, read_sleep(p)
  PROVE  PInv'
<1>1. /\ p \in Readers /\ pc[p] = "loop" /\ i[p] = 0 /\ Empty /\ writeopen
      /\ pc' = [pc EXCEPT ![p] = "sleep"] /\ lock' = None
      /\ UNCHANGED <<shared, n, i, ch, killed>>
  BY Zenon DEF read_sleep, Reading, MustWait
<1>2. Moves(p, "sleep")
  BY <1>1, Moved, Words, Zenon DEF PInv
<1>3. /\ ch' \in Byte \cup {None} /\ killed' \in [Procs -> BOOLEAN] /\ p \notin Writers
      /\ n' \in [Procs -> Nat] /\ i' \in [Procs -> Nat] /\ lock = p
  BY Zenon, <1>1, PipeConstants DEF PInv, TypeOK, LockInv
<1>4. ~Owes(p)
  BY <1>1 DEF Owes
<1> QED
  BY Zenon, <1>1, <1>2, <1>3, <1>4, Quiet, Words

LEMMA ReadDone ==
  ASSUME PInv, NEW p \in Procs, read_done(p)
  PROVE  PInv'
<1>1. /\ p \in Readers /\ pc[p] \in Inside /\ Return(p, WakeWriters(pc)) /\ ch' = None
      /\ UNCHANGED <<shared, killed>>
  BY Zenon DEF read_done, Reading, PInv, LockInv, Inside
<1>2. /\ lock = p /\ lock' = None /\ pc' = [WakeWriters(pc) EXCEPT ![p] = "idle"]
      /\ n' \in [Procs -> Nat] /\ i' \in [Procs -> Nat] /\ \A q \in Procs \ {p} : i'[q] = i[q]
  BY Zenon, <1>1, Returned
<1>3. Moves(p, "idle") /\ \A q \in Writers : pc'[q] # "sleep"
  BY <1>2, Moved, Words, Zenon DEF PInv
<1>4. ch' \in Byte \cup {None} /\ killed' \in [Procs -> BOOLEAN] /\ killed' = killed /\ p \notin Writers
  BY Zenon, <1>1, PipeConstants DEF PInv, TypeOK
<1>5. pc[p] \notin {"closing", "closed"}
  BY Zenon, <1>1 DEF Inside
<1> QED
  BY Zenon, <1>1, <1>2, <1>3, <1>4, <1>5, Quiet, Words

LEMMA Kill ==
  ASSUME PInv, NEW p \in Procs, kill(p)
  PROVE  PInv'
<1> DEFINE l == IF pc[p] = "sleep" THEN "acquire" ELSE pc[p]
<1>1. /\ killed' = [killed EXCEPT ![p] = TRUE] /\ pc' = [pc EXCEPT ![p] = l]
      /\ UNCHANGED <<shared, lock, n, i, ch>>
  BY Zenon DEF kill
<1>2. l \in Labels /\ l # "sleep" /\ (l = pc[p] \/ (pc[p] = "sleep" /\ l = "acquire"))
  BY Zenon, Words DEF PInv, TypeOK
<1> HIDE DEF l
<1>3. Moves(p, l) /\ \A q \in Procs \ {p} : pc'[q] = pc[q]
  BY <1>1, <1>2, Moved, Zenon DEF PInv
<1>4. /\ ch' \in Byte \cup {None} /\ killed' \in [Procs -> BOOLEAN] /\ killed'[p]
      /\ \A q \in Procs : killed[q] => killed'[q]
      /\ n' \in [Procs -> Nat] /\ i' \in [Procs -> Nat]
  BY Zenon, <1>1 DEF PInv, TypeOK
<1>5. pc'[p] = l /\ i' = i
  BY Zenon, <1>1, <1>3 DEF Moves
<1>6. Owes(p) => Owes(p)'
  BY Zenon, <1>2, <1>5 DEF Owes
<1>7. l \in Inside <=> pc[p] \in Inside
  BY Zenon, <1>2, Words
<1> QED
  BY Zenon, <1>1, <1>2, <1>3, <1>4, <1>5, <1>6, <1>7, Quiet, Words

LEMMA WriteByte ==
  ASSUME PInv, NEW p \in Procs, NEW b \in Byte, write_byte(p, b)
  PROVE  PInv' /\ Count < Size /\ writeopen /\ Contents' = Append(Contents, b)
<1>1. /\ p \in Writers /\ pc[p] = "loop" /\ ~Full
      /\ data' = [data EXCEPT ![nwrite % Size] = b] /\ nwrite' = Inc(nwrite)
      /\ i' = [i EXCEPT ![p] = i[p] + 1]
      /\ UNCHANGED <<nread, readopen, writeopen, freed, lock, pc, n, ch, killed>>
  BY Zenon DEF write_byte, Writing
<1>2. TypeOK /\ Count < Size
  BY <1>1, Counts, Widths DEF PInv
<1>3. /\ data' \in [0..(Size - 1) -> Byte] /\ nwrite' \in 0..(UMod - 1)
      /\ Count' = Count + 1 /\ Contents' = Append(Contents, b)
  BY <1>1, <1>2, PutRing, Zenon
<1>4. Moves(p, "loop") /\ pc' = pc
  BY Zenon, <1>1, <1>2 DEF Moves, TypeOK
<1>5. LockInv' /\ EndInv' /\ writeopen
  BY Zenon, <1>1 DEF PInv, LockInv, EndInv
<1>6. /\ i' \in [Procs -> Nat] /\ i'[p] > 0 /\ p \notin Readers
      /\ \A q \in Procs \ {p} : i'[q] = i[q]
  BY <1>1, <1>2, PipeConstants DEF TypeOK
<1>7. Wrote(p)'
  BY Zenon, <1>1, <1>6 DEF Wrote
<1>8. WriterInv'
  BY Zenon, <1>1, <1>4, <1>6, WriterStep
<1>9. ReaderInv'
  BY Zenon, <1>1, <1>4, <1>6, <1>7, ReaderStep
<1>10. TypeOK' /\ Count' <= Size
  <2>1. Count' <= Size
    BY <1>2, <1>3, Counts, Widths
  <2> QED
    BY Zenon, <1>1, <1>2, <1>3, <1>6, <2>1 DEF TypeOK
<1> QED
  BY Zenon, <1>2, <1>3, <1>5, <1>8, <1>9, <1>10 DEF PInv

\* A reader takes a byte and stays in the loop, or leaves it as copyout fails.
LEMMA TakesByte ==
  ASSUME PInv, NEW p \in Readers, pc[p] = "loop", ~Empty, TakeByte,
         NEW l \in Inside, Moves(p, l),
         i' \in [Procs -> Nat], \A q \in Procs \ {p} : i'[q] = i[q],
         l = "failed" \/ i'[p] > 0,
         UNCHANGED <<lock, n, killed>>
  PROVE  /\ PInv' /\ readopen /\ ch' \in Byte
         /\ Contents # <<>> /\ ch' = Head(Contents) /\ Contents' = Tail(Contents)
<1>1. /\ ch' = data[nread % Size] /\ nread' = Inc(nread)
      /\ UNCHANGED <<data, nwrite, readopen, writeopen, freed>>
  BY Zenon DEF TakeByte
<1>2. TypeOK /\ Count > 0 /\ p \in Procs /\ p \notin Writers
  BY Counts, Widths, PipeConstants DEF PInv, Procs
<1>3. /\ data[nread % Size] \in Byte /\ nread' \in 0..(UMod - 1) /\ Count' = Count - 1
      /\ Contents # <<>> /\ Head(Contents) = data[nread % Size]
      /\ Contents' = Tail(Contents)
  BY <1>1, <1>2, GetRing, Zenon
<1>4. LockInv'
  BY Zenon, <1>2, LockStep, Words
<1>5. EndInv'
  BY <1>1, <1>2, EndSame, Zenon DEF Inside
<1>6. readopen
  BY Zenon, <1>2 DEF PInv, EndInv
<1>7. Owes(p)'
  BY Zenon DEF Owes, Moves, Inside
<1>8. l # "sleep"
  BY Zenon, Words
<1>9. WriterInv'
  BY Zenon, <1>1, <1>2, <1>7, <1>8, WriterStep
<1>10. ReaderInv'
  BY Zenon, <1>1, <1>2, <1>8, ReaderStep
<1>11. TypeOK' /\ Count' <= Size
  <2>1. Count' <= Size
    BY <1>2, <1>3, Counts, Widths DEF PInv
  <2> QED
    BY Zenon, <1>1, <1>2, <1>3, <2>1 DEF TypeOK, Moves
<1> QED
  BY <1>1, <1>3, <1>4, <1>5, <1>6, <1>9, <1>10, <1>11, Zenon DEF PInv

LEMMA ReadByte ==
  ASSUME PInv, NEW p \in Procs, read_byte(p) \/ read_copyout_fails(p)
  PROVE  /\ PInv' /\ readopen /\ ch' \in Byte
         /\ Contents # <<>> /\ ch' = Head(Contents) /\ Contents' = Tail(Contents)
<1>1. p \in Readers /\ pc[p] = "loop" /\ ~Empty /\ TakeByte /\ UNCHANGED <<lock, n, killed>>
  BY Zenon DEF read_byte, read_copyout_fails, Reading
<1>2. TypeOK
  BY Zenon DEF PInv
<1>3. CASE read_byte(p)
  <2>1. pc' = pc /\ i' = [i EXCEPT ![p] = i[p] + 1]
    BY Zenon, <1>3 DEF read_byte
  <2>2. Moves(p, "loop")
    BY Zenon, <1>1, <1>2, <2>1 DEF Moves, TypeOK
  <2>3. i' \in [Procs -> Nat] /\ i'[p] > 0 /\ \A q \in Procs \ {p} : i'[q] = i[q]
    BY <1>2, <2>1 DEF TypeOK
  <2> QED
    BY Zenon, <1>1, <2>2, <2>3, TakesByte, Words
<1>4. CASE read_copyout_fails(p)
  <2>1. pc' = [pc EXCEPT ![p] = "failed"] /\ i' = i
    BY Zenon, <1>4 DEF read_copyout_fails
  <2>2. Moves(p, "failed")
    BY <1>2, <2>1, Moved, Words, Zenon
  <2>3. i' \in [Procs -> Nat]
    BY Zenon, <1>2, <2>1 DEF TypeOK
  <2> QED
    BY Zenon, <1>1, <2>1, <2>2, <2>3, TakesByte, Words
<1> QED
  BY Zenon, <1>3, <1>4

LEMMA Close ==
  ASSUME PInv, NEW p \in Procs, close(p)
  PROVE  PInv'
<1> DEFINE l == IF \A o \in SameEnd(p) \ {p} : pc[o] \in {"closing", "closed"}
                THEN "closing" ELSE "closed"
<1>1. /\ pc[p] = "idle" /\ pc' = [pc EXCEPT ![p] = l]
      /\ UNCHANGED <<shared, lock, n, i, ch, killed>>
  BY Zenon DEF close
<1>2. l \in Labels /\ l \notin Inside /\ l # "sleep"
  BY Zenon, Words
<1>3. Moves(p, l) /\ \A q \in Procs \ {p} : pc'[q] = pc[q]
  BY <1>1, <1>2, Moved, Zenon DEF PInv
<1>4. pc'[p] = l /\ Writers \cap Readers = {} /\ \A q \in Procs : SameEnd(q) \subseteq Procs /\ q \in SameEnd(q)
  BY Zenon, <1>3, PipeConstants DEF Moves, SameEnd, Procs
<1>5. /\ readopen' = readopen /\ writeopen' = writeopen /\ freed' = freed
      /\ UNCHANGED <<data, nread, nwrite>>
  BY Zenon, <1>1 DEF shared
<1>6. EndInv'
  <2>1. \A q \in Procs : pc[q] = "closing" => \A o \in SameEnd(q) \ {q} : pc[o] = "closed"
    BY Zenon DEF PInv, EndInv
  <2>2. \A q \in SameEnd(p) : pc[q] # "closing"
    BY Zenon, <1>1, <1>4, <2>1 DEF SameEnd
  <2>3. l = "closing" => \A o \in SameEnd(p) \ {p} : pc[o] = "closed"
    BY Zenon, <2>2
  <2>4. \A q \in Procs : pc'[q] = "closing" => \A o \in SameEnd(q) \ {q} : pc'[o] = "closed"
    <3> SUFFICES ASSUME NEW q \in Procs, pc'[q] = "closing", NEW o \in SameEnd(q) \ {q}
                 PROVE  pc'[o] = "closed"
      BY Zenon
    <3>1. CASE q = p
      BY Zenon, <1>3, <1>4, <2>3, <3>1
    <3>2. CASE q # p
      <4>1. pc[q] = "closing"
        BY Zenon, <1>3, <3>2
      <4>2. pc[o] = "closed" /\ o \in Procs
        BY Zenon, <1>4, <2>1, <4>1
      <4> QED
        BY Zenon, <1>1, <1>3, <4>2
    <3> QED
      BY Zenon, <3>1, <3>2
  <2>5. \A q \in Procs : pc'[q] # "closed" => pc[q] # "closed"
    BY Zenon, <1>1, <1>3
  <2> QED
    BY Zenon, <1>5, <2>4, <2>5 DEF PInv, EndInv, Procs
<1> HIDE DEF l
<1>7. LockInv'
  <2>1. l # "failed" /\ pc[p] \notin Inside
    BY Zenon, <1>1, <1>2, Words DEF l
  <2> QED
    BY Zenon, <1>1, <1>2, <1>3, <2>1, LockStep
<1>8. Count' = Count /\ (Full' <=> Full) /\ (Empty' <=> Empty)
  BY Zenon, <1>5, Ring
<1>9. ~Owes(p) /\ ~Wrote(p) /\ i' = i /\ killed' = killed
  BY Zenon, <1>1 DEF Owes, Wrote
<1>10. WriterInv'
  BY Zenon, <1>2, <1>3, <1>5, <1>8, <1>9, WriterStep
<1>11. ReaderInv'
  BY Zenon, <1>2, <1>3, <1>5, <1>8, <1>9, ReaderStep
<1>12. TypeOK'
  BY Zenon, <1>1, <1>3, <1>5 DEF PInv, TypeOK, Moves
<1> QED
  BY Zenon, <1>6, <1>7, <1>8, <1>10, <1>11, <1>12 DEF PInv

LEMMA Pipeclose ==
  ASSUME PInv, NEW p \in Procs, pipeclose(p)
  PROVE  /\ PInv' /\ Contents' = Contents /\ ch' = ch
         /\ \/ writeopen /\ writeopen' = FALSE /\ readopen' = readopen
            \/ readopen /\ readopen' = FALSE /\ writeopen' = writeopen
<1>1. /\ pc[p] = "closing" /\ freed' = (~readopen' /\ ~writeopen')
      /\ UNCHANGED <<data, nread, nwrite, lock, n, i, ch, killed>>
  BY Zenon DEF pipeclose
<1>2. Writers \cap Readers = {} /\ Readers \subseteq Procs /\ Writers \subseteq Procs
  BY Zenon, PipeConstants DEF Procs
<1>3. CASE p \in Writers
  <2>1. writeopen' = FALSE /\ readopen' = readopen /\ pc' = WakeReaders([pc EXCEPT ![p] = "closed"])
    BY Zenon, <1>3 DEF pipeclose
  <2>2. Moves(p, "closed") /\ \A q \in Readers : pc'[q] # "sleep"
    BY <1>3, <2>1, Moved, Words, Zenon DEF PInv
  <2>3. /\ writeopen
        /\ \A q \in Writers \ {p} : pc[q] = "closed"
    BY Zenon, <1>1, <1>3 DEF PInv, EndInv, SameEnd
  <2>4. \A q \in Writers : pc'[q] = "closed"
    BY Zenon, <1>2, <2>2, <2>3 DEF Moves
  <2>5. EndInv'
    <3>1. \A q \in Procs : /\ pc'[q] = "closing" => pc[q] = "closing"
                           /\ pc[q] = "closed" => pc'[q] = "closed"
      BY Zenon, <2>2 DEF Moves
    <3>2. \A q \in Procs : SameEnd(q) \subseteq Procs
      BY Zenon, <1>2 DEF SameEnd
    <3> QED
      BY <1>1, <1>2, <2>1, <2>4, <3>1, <3>2, Zenon DEF PInv, EndInv
  <2>6. WriterInv'
    BY Zenon, <2>4 DEF WriterInv
  <2>7. ReaderInv'
    BY Zenon, <2>2 DEF ReaderInv
  <2>8. Count' = Count /\ Contents' = Contents
    BY Zenon, <1>1, Ring
  <2>9. LockInv'
    BY Zenon, <1>1, <2>2, LockStep, Words
  <2>10. TypeOK'
    BY <1>1, <2>1, <2>2, Zenon DEF PInv, TypeOK, Moves
  <2> QED
    BY <1>1, <2>1, <2>3, <2>5, <2>6, <2>7, <2>8, <2>9, <2>10, Zenon DEF PInv
<1>4. CASE p \in Readers
  <2>1. readopen' = FALSE /\ writeopen' = writeopen /\ pc' = WakeWriters([pc EXCEPT ![p] = "closed"])
    BY Zenon, <1>2, <1>4 DEF pipeclose
  <2>2. Moves(p, "closed") /\ \A q \in Writers : pc'[q] # "sleep"
    BY <2>1, Moved, Words, Zenon DEF PInv
  <2>3. /\ readopen
        /\ \A q \in Readers \ {p} : pc[q] = "closed"
    BY Zenon, <1>1, <1>2, <1>4 DEF PInv, EndInv, SameEnd
  <2>4. \A q \in Readers : pc'[q] = "closed"
    BY Zenon, <1>2, <2>2, <2>3 DEF Moves
  <2>5. EndInv'
    <3>1. \A q \in Procs : /\ pc'[q] = "closing" => pc[q] = "closing"
                           /\ pc[q] = "closed" => pc'[q] = "closed"
      BY Zenon, <2>2 DEF Moves
    <3>2. \A q \in Procs : SameEnd(q) \subseteq Procs
      BY Zenon, <1>2 DEF SameEnd
    <3> QED
      BY <1>1, <1>2, <2>1, <2>4, <3>1, <3>2, Zenon DEF PInv, EndInv
  <2>6. WriterInv'
    BY Zenon, <2>2 DEF WriterInv
  <2>7. ReaderInv'
    BY Zenon, <2>4 DEF ReaderInv
  <2>8. Count' = Count /\ Contents' = Contents
    BY Zenon, <1>1, Ring
  <2>9. LockInv'
    BY Zenon, <1>1, <2>2, LockStep, Words
  <2>10. TypeOK'
    BY <1>1, <2>1, <2>2, Zenon DEF PInv, TypeOK, Moves
  <2> QED
    BY <1>1, <2>1, <2>3, <2>5, <2>6, <2>7, <2>8, <2>9, <2>10, Zenon DEF PInv
<1> QED
  BY <1>3, <1>4, Zenon DEF Procs

LEMMA InitPInv ==
  Init => PInv
<1> SUFFICES ASSUME Init PROVE PInv
  BY Zenon
<1>1. (CHOOSE b \in Byte : TRUE) \in Byte
  BY Zenon, PipeConstants
<1>2. TypeOK
  <2> DEFINE junk == CHOOSE b \in Byte : TRUE
  <2>1. junk \in Byte /\ data = [k \in 0..(Size - 1) |-> junk]
    BY Zenon, <1>1 DEF Init
  <2> HIDE DEF junk
  <2>2. data \in [0..(Size - 1) -> Byte]
    BY Zenon, <2>1
  <2>3. nread \in 0..(UMod - 1) /\ nwrite \in 0..(UMod - 1)
    BY Widths DEF Init
  <2>4. /\ readopen \in BOOLEAN /\ writeopen \in BOOLEAN /\ freed \in BOOLEAN
        /\ lock \in Procs \cup {None} /\ ch \in Byte \cup {None}
    BY Zenon DEF Init
  <2>5. /\ pc \in [Procs -> Labels] /\ n \in [Procs -> Nat] /\ i \in [Procs -> Nat]
        /\ killed \in [Procs -> BOOLEAN]
    BY Zenon, Words DEF Init
  <2> QED
    BY Zenon, <2>2, <2>3, <2>4, <2>5 DEF TypeOK
<1>3. Empty
  BY Zenon DEF Init, Empty
<1>4. Count <= Size
  BY <1>2, <1>3, Counts, Widths
<1>5. LockInv
  BY Zenon, PipeConstants DEF Init, LockInv, None
<1>6. EndInv /\ WriterInv /\ ReaderInv
  BY Zenon DEF Init, EndInv, WriterInv, ReaderInv, Procs, SameEnd
<1> QED
  BY Zenon, <1>2, <1>4, <1>5, <1>6 DEF PInv

LEMMA NextPInv ==
  ASSUME PInv, [Next]_vars
  PROVE  PInv'
<1>1. CASE UNCHANGED vars
  BY Zenon, <1>1 DEF vars, shared, PInv, TypeOK, Count, LockInv, EndInv, WriterInv, ReaderInv,
              Full, Empty
<1>2. ASSUME NEW p \in Procs, NEW k \in Sizes, call(p, k)
      PROVE  PInv'
  BY Zenon, <1>2, Call
<1>3. ASSUME NEW p \in Procs, Step(p)
      PROVE  PInv'
  BY <1>3, Acquire, WriteByte, WriteFail, WriteSleep, WriteDone, ReadFail, ReadSleep,
     ReadByte, ReadDone, Pipeclose, Zenon
  DEF Step
<1>4. ASSUME NEW p \in Procs, close(p) \/ kill(p)
      PROVE  PInv'
  BY Zenon, <1>4, Close, Kill
<1> QED
  BY Zenon, <1>1, <1>2, <1>3, <1>4 DEF Next

\* The lock, the ends and the counters agree in every reachable state.
THEOREM PipeInvariant == Spec => []PInv
BY InitPInv, NextPInv, PTL DEF Spec

\* No wakeup of pipewrite, piperead or pipeclose is lost.
THEOREM NoLostPipeWakeupTheorem == Spec => []NoLostPipeWakeup
<1>1. PInv => NoLostPipeWakeup
  <2> SUFFICES ASSUME PInv, lock = None
               PROVE  /\ \A p \in Writers : pc[p] = "sleep" => Full /\ readopen
                      /\ (\A p \in Writers : ~killed[p]) =>
                           \A p \in Readers : pc[p] = "sleep" => Empty /\ writeopen
    BY Zenon DEF NoLostPipeWakeup
  <2>1. \A p \in Procs : pc[p] # "loop" /\ pc[p] # "failed"
    BY Zenon, PipeConstants DEF PInv, LockInv, None
  <2> QED
    BY Zenon, <2>1 DEF PInv, WriterInv, ReaderInv, Procs
<1> QED
  BY <1>1, PipeInvariant, PTL

\* pipeclose frees the page only when every process has closed its end.
THEOREM NoUseAfterFreeTheorem == Spec => []NoUseAfterFree
<1>1. PInv => NoUseAfterFree
  BY Zenon DEF PInv, EndInv, TypeOK, NoUseAfterFree, Procs
<1> QED
  BY <1>1, PipeInvariant, PTL

\* Each step of the pipe is a step of the channel or leaves it alone: a byte
\* written is appended, a byte read is the first, whatever nread and nwrite are.
LEMMA StepRefines ==
  ASSUME PInv, [Next]_vars
  PROVE  [C!ChNext]_C!chVars
<1>1. CASE UNCHANGED vars
  BY Zenon, <1>1 DEF vars, shared, Contents, C!chVars
<1>2. ASSUME UNCHANGED <<shared, ch>>
      PROVE  UNCHANGED C!chVars
  BY Zenon, <1>2 DEF shared, Contents, C!chVars
<1>3. ASSUME NEW p \in Procs, NEW b \in Byte, write_byte(p, b)
      PROVE  C!ChNext
  <2>1. Count < Size /\ writeopen /\ Contents' = Append(Contents, b)
    BY Zenon, <1>3, WriteByte
  <2>2. Len(Contents) = Count
    BY Zenon, ContentsSeq DEF PInv
  <2>3. UNCHANGED <<ch, readopen, writeopen>>
    BY Zenon, <1>3 DEF write_byte
  <2>4. C!Put(b)
    BY Zenon, <2>1, <2>2, <2>3 DEF C!Put
  <2> QED
    BY Zenon, <2>4 DEF C!ChNext
<1>4. ASSUME NEW p \in Procs, read_byte(p) \/ read_copyout_fails(p)
      PROVE  C!ChNext
  <2>1. /\ readopen /\ ch' \in Byte /\ Contents # <<>>
        /\ ch' = Head(Contents) /\ Contents' = Tail(Contents)
    BY Zenon, <1>4, ReadByte
  <2>2. UNCHANGED <<readopen, writeopen>>
    BY Zenon, <1>4 DEF read_byte, read_copyout_fails, TakeByte
  <2>3. ch' # None
    BY Zenon, <2>1, PipeConstants DEF None
  <2>4. C!Get
    BY Zenon, <2>1, <2>2, <2>3 DEF C!Get
  <2> QED
    BY Zenon, <2>4 DEF C!ChNext
<1>5. ASSUME NEW p \in Procs, read_done(p)
      PROVE  C!ChNext
  <2>1. ch' = None /\ UNCHANGED shared
    BY Zenon, <1>5 DEF read_done
  <2>2. C!Use
    BY Zenon, <2>1 DEF C!Use, C!Nothing, shared, Contents
  <2> QED
    BY Zenon, <2>2 DEF C!ChNext
<1>6. ASSUME NEW p \in Procs, pipeclose(p)
      PROVE  C!ChNext
  BY <1>6, Pipeclose, Zenon DEF C!ChNext, C!CloseRead, C!CloseWrite
<1>7. ASSUME NEW p \in Procs, NEW k \in Sizes, call(p, k)
      PROVE  UNCHANGED <<shared, ch>>
  BY Zenon, <1>7 DEF call
<1>8. ASSUME NEW p \in Procs,
             acquire(p) \/ write_fail(p) \/ write_sleep(p) \/ write_done(p)
               \/ read_fail(p) \/ read_sleep(p) \/ close(p) \/ kill(p)
      PROVE  UNCHANGED <<shared, ch>>
  BY Zenon, <1>8 DEF acquire, write_fail, write_sleep, write_done, read_fail, read_sleep, close, kill
<1> QED
  BY Zenon, <1>1, <1>2, <1>3, <1>4, <1>5, <1>6, <1>7, <1>8 DEF Next, Step

LEMMA InitRefines ==
  Init => C!ChInit
<1> SUFFICES ASSUME Init PROVE C!ChInit
  BY Zenon
<1>1. TypeOK /\ Empty
  BY Zenon, InitPInv DEF PInv, Init, Empty
<1>2. Contents \in Seq(Byte) /\ Len(Contents) = 0
  BY Zenon, <1>1, Counts, ContentsSeq
<1>3. Contents = <<>>
  BY <1>2
<1> QED
  BY Zenon, <1>3 DEF Init, C!ChInit, C!Nothing

\* pipe.c implements the bounded FIFO, for every ring size and width of the
\* counters.
THEOREM PipeIsFifo == Spec => Fifo
<1>1. Init => C!ChInit
  BY Zenon, InitRefines
<1>2. PInv /\ [Next]_vars => [C!ChNext]_C!chVars
  BY Zenon, StepRefines
<1> QED
  BY <1>1, <1>2, PipeInvariant, PTL DEF Spec, Fifo, C!ChSpec
=============================================================================
