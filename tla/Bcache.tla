------------------------------- MODULE Bcache -------------------------------
(***************************************************************************)
(* The buffer cache of kernel/bio.c with the sleep lock of each buffer      *)
(* (kernel/sleeplock.c): which buffer bget hands out, LRU recycling,        *)
(* reference counts and pins, for processes that read a block, change and   *)
(* write it (bwrite), or change and pin it until a later write (log_write   *)
(* and install_trans).  A critical section under bcache.lock is one action; *)
(* a process waits for a sleep lock outside it.                             *)
(***************************************************************************)
EXTENDS Naturals, FiniteSets, FiniteSetsExt

CONSTANTS
  Proc, DiskBlock, Val,
  NBuf,        \* NBUF
  RefMod       \* refcnt is an unsigned int: modulo RefMod

Buf == 1..NBuf
Nil == "none"
NoBuf == 0
Place == 1..NBuf     \* in the list

\* NPROC processes and one pin do not wrap a count of 32 bits.
BcacheConstants ==
  /\ NBuf \in Nat \ {0}
  /\ Nil \notin Proc /\ Nil \notin DiskBlock
  /\ IsFiniteSet(Proc)
  /\ RefMod \in Nat /\ RefMod > Cardinality(Proc) + 1

VARIABLES
  blockno,     \* [Buf -> DiskBlock or Nil]
  valid,       \* [Buf -> BOOLEAN]
  refcnt,      \* [Buf -> 0..RefMod-1]
  holder,      \* [Buf -> Proc or Nil]: the sleep lock
  data,        \* [Buf -> Val]
  lru,         \* [Place -> Buf]: the list, head.next (most recently used) first
  disk,        \* [DiskBlock -> Val]
  bpc, want, has,  \* a process's place (BLabels), the block it asked for, its buffer
  pins,        \* blocks pinned by log_write and not yet installed
  last,        \* history: the last value written to each block
  bpanicked    \* bget has panicked, and keeps bcache.lock

cache == <<blockno, valid, refcnt, holder, data, lru, disk>>
bvars == <<cache, bpc, want, has, pins, last, bpanicked>>

BLabels == {"idle", "lock", "fill", "use", "used", "release"}

BInit ==
  /\ blockno = [b \in Buf |-> Nil] /\ valid = [b \in Buf |-> FALSE]
  /\ refcnt = [b \in Buf |-> 0] /\ holder = [b \in Buf |-> Nil]
  /\ \E v \in Val : /\ data = [b \in Buf |-> v]
                    /\ disk = [k \in DiskBlock |-> v]
  /\ lru = [i \in Place |-> NBuf + 1 - i]     \* binit pushes each in front
  /\ bpc = [p \in Proc |-> "idle"]
  /\ want = [p \in Proc |-> Nil] /\ has = [p \in Proc |-> NoBuf]
  /\ pins = {}
  /\ last = disk /\ bpanicked = FALSE

\* The counts are unsigned.  (NotLocked and NoPin are mutants.)
Incr(r, b) == [r EXCEPT ![b] = (@ + 1) % RefMod]
Decr(r, b) == [r EXCEPT ![b] = (@ + RefMod - 1) % RefMod]

\* bget's two loops over the list: the buffer that has block k, and the free
\* buffers, of which the least recently used one is taken.
Cached(k) == {b \in Buf : blockno[b] = k}
NotLocked == {b \in Buf : holder[b] = Nil}
Unused == {b \in Buf : refcnt[b] = 0}
Victim == lru[Max({i \in Place : lru[i] \in Unused})]

\* Unlink b and put it at the head of the list.
ToFront(b) == LET i == CHOOSE j \in Place : lru[j] = b IN
  [j \in Place |-> IF j = 1 THEN b ELSE IF j <= i THEN lru[j - 1] ELSE lru[j]]

MayStart(p) == bpc[p] = "idle" /\ ~bpanicked

bget_hit(p, k) ==
  /\ MayStart(p) /\ Cached(k) # {}
  /\ LET b == lru[Min({i \in Place : lru[i] \in Cached(k)})] IN
       /\ refcnt' = Incr(refcnt, b)
       /\ has' = [has EXCEPT ![p] = b]
  /\ want' = [want EXCEPT ![p] = k]
  /\ bpc' = [bpc EXCEPT ![p] = "lock"]
  /\ UNCHANGED <<blockno, valid, holder, data, lru, disk, pins, last, bpanicked>>

bget_recycle(p, k) ==
  /\ MayStart(p) /\ Cached(k) = {} /\ Unused # {}
  /\ LET b == Victim IN
       /\ blockno' = [blockno EXCEPT ![b] = k]
       /\ valid' = [valid EXCEPT ![b] = FALSE]
       /\ refcnt' = [refcnt EXCEPT ![b] = 1]
       /\ has' = [has EXCEPT ![p] = b]
  /\ want' = [want EXCEPT ![p] = k]
  /\ bpc' = [bpc EXCEPT ![p] = "lock"]
  /\ UNCHANGED <<holder, data, lru, disk, pins, last, bpanicked>>

bget_panic(p, k) ==
  /\ MayStart(p) /\ Cached(k) = {} /\ Unused = {}
  /\ bpanicked' = TRUE
  /\ UNCHANGED <<cache, bpc, want, has, pins, last>>

acquiresleep(p) ==
  /\ bpc[p] = "lock" /\ holder[has[p]] = Nil
  /\ holder' = [holder EXCEPT ![has[p]] = p]
  /\ bpc' = [bpc EXCEPT ![p] = "fill"]
  /\ UNCHANGED <<blockno, valid, refcnt, data, lru, disk, want, has, pins,
                 last, bpanicked>>

\* bread: the disk is read only into a buffer that is not valid.
bread(p) ==
  LET b == has[p] IN
  /\ bpc[p] = "fill"
  /\ data' = IF valid[b] THEN data ELSE [data EXCEPT ![b] = disk[blockno[b]]]
  /\ valid' = [valid EXCEPT ![b] = TRUE]
  /\ bpc' = [bpc EXCEPT ![p] = "use"]
  /\ UNCHANGED <<blockno, refcnt, holder, lru, disk, want, has, pins, last,
                 bpanicked>>

-----------------------------------------------------------------------------
(* What the callers do with the locked buffer. *)

Used(p) == bpc[p] = "use" /\ bpc' = [bpc EXCEPT ![p] = "used"]

\* Change the data and bwrite it.
bwrite(p, v) ==
  LET b == has[p] IN
  /\ Used(p)
  /\ data' = [data EXCEPT ![b] = v]
  /\ disk' = [disk EXCEPT ![blockno[b]] = v]
  /\ last' = [last EXCEPT ![want[p]] = v]
  /\ UNCHANGED <<blockno, valid, refcnt, holder, lru, want, has, pins, bpanicked>>

\* Change the data and log_write it: the first time, bpin.
NoPin(b) == refcnt
bpin(b) == Incr(refcnt, b)
log_write(p, v) ==
  LET b == has[p] IN
  /\ Used(p) /\ ~bpanicked
  /\ data' = [data EXCEPT ![b] = v]
  /\ refcnt' = IF blockno[b] \in pins THEN refcnt ELSE bpin(b)
  /\ pins' = pins \cup {blockno[b]}
  /\ last' = [last EXCEPT ![want[p]] = v]
  /\ UNCHANGED <<blockno, valid, holder, lru, disk, want, has, bpanicked>>

\* install_trans: write the pinned block home, bunpin.
install(p) ==
  LET b == has[p] IN
  /\ Used(p) /\ ~bpanicked /\ blockno[b] \in pins
  /\ disk' = [disk EXCEPT ![blockno[b]] = data[b]]
  /\ refcnt' = Decr(refcnt, b)
  /\ pins' = pins \ {blockno[b]}
  /\ UNCHANGED <<blockno, valid, holder, data, lru, want, has, last, bpanicked>>

\* brelse: first the sleep lock, then the count under bcache.lock.
releasesleep(p) ==
  /\ bpc[p] \in {"use", "used"}
  /\ holder' = [holder EXCEPT ![has[p]] = Nil]
  /\ bpc' = [bpc EXCEPT ![p] = "release"]
  /\ UNCHANGED <<blockno, valid, refcnt, data, lru, disk, want, has, pins,
                 last, bpanicked>>

brelse(p) ==
  LET b == has[p]
      r == Decr(refcnt, b)
  IN
  /\ bpc[p] = "release" /\ ~bpanicked
  /\ refcnt' = r
  /\ lru' = IF r[b] = 0 THEN ToFront(b) ELSE lru
  /\ bpc' = [bpc EXCEPT ![p] = "idle"]
  /\ want' = [want EXCEPT ![p] = Nil] /\ has' = [has EXCEPT ![p] = NoBuf]
  /\ UNCHANGED <<blockno, valid, holder, data, disk, pins, last, bpanicked>>

-----------------------------------------------------------------------------
BStep(p) ==
  acquiresleep(p) \/ bread(p) \/ releasesleep(p) \/ brelse(p)

BNext == \E p \in Proc :
  \/ \E k \in DiskBlock : bget_hit(p, k) \/ bget_recycle(p, k) \/ bget_panic(p, k)
  \/ \E v \in Val : bwrite(p, v) \/ log_write(p, v)
  \/ install(p)
  \/ BStep(p)

BSpec == BInit /\ [][BNext]_bvars

-----------------------------------------------------------------------------
Holding(p) == bpc[p] \in {"fill", "use", "used"}

\* "Only one process at a time can use a buffer": whoever holds a buffer's lock
\* has the block it asked for, and nobody else has that block; a lock is held by
\* a process that will give it back, so nobody waits for it for ever.  A block has
\* at most one buffer, "a synchronization point for disk blocks".
Exclusive ==
  /\ \A a, b \in Buf : blockno[a] # Nil /\ blockno[a] = blockno[b] => a = b
  /\ \A p \in Proc : Holding(p) =>
       /\ blockno[has[p]] = want[p] /\ holder[has[p]] = p
       /\ \A q \in Proc \ {p} : Holding(q) => want[q] # want[p]
  /\ \A b \in Buf : holder[b] # Nil => Holding(holder[b]) /\ has[holder[b]] = b

\* "Return a locked buf with the contents of the indicated block": a process
\* sees the last value anyone wrote to its block, whether it is on the disk
\* already or only in a pinned buffer.
Coherent ==
  \A p \in Proc : bpc[p] \in {"use", "used"} => data[has[p]] = last[want[p]]

=============================================================================
