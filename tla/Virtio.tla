------------------------------- MODULE Virtio -------------------------------
(***************************************************************************)
(* The disk driver kernel/virtio_disk.c and the device it talks to:         *)
(* descriptor allocation, the avail and used rings, completion by           *)
(* interrupt, and the two sleeps of virtio_disk_rw.  The driver's critical  *)
(* sections under vdisk_lock are actions; the device runs between any two   *)
(* of the interrupt handler's steps.  The device is external: it takes      *)
(* chains from the avail ring in order, completes them in any order, and    *)
(* raises its interrupt line until the driver acknowledges.  Each process   *)
(* has one buffer, which the cache keeps locked during the request.         *)
(***************************************************************************)
EXTENDS Naturals, FiniteSets, FiniteSetsExt

CONSTANTS
  Caller,    \* processes that call virtio_disk_rw
  NUM,       \* descriptors in the queue
  UMod       \* avail[1] and used->id are 16 bit counters: modulo UMod

VirtioConstants ==
  /\ NUM \in Nat /\ NUM > 2
  /\ UMod \in Nat /\ UMod > NUM /\ UMod % NUM = 0

Desc == 0..(NUM - 1)
None == NUM

VARIABLES
  free,       \* disk.free, as the set of free descriptors
  next,       \* [Desc -> Desc or None]: next, None without VRING_DESC_F_NEXT
  info,       \* [Desc -> Caller or None]: info[i].b
  avail, availIdx,    \* the avail ring and avail[1]
  used, usedId,       \* the used ring's elems and used->id
  usedIdx,    \* disk.used_idx
  busy,       \* [Caller -> BOOLEAN]: b->disk
  pc, head,   \* a process's place (Labels) and idx[0]
  devIdx,     \* device: how far it has looked in avail
  taken,      \* device: heads of chains it works on
  status,     \* device: the interrupt status bit, which drives the line
  intr,       \* the handler: "off", "loop", "ack"
  done,       \* history: processes whose request the device has carried out
  panicked

driver == <<free, next, info, avail, availIdx, usedIdx, busy>>
device == <<used, usedId, devIdx, taken, status>>
vars == <<driver, device, pc, head, intr, done, panicked>>

Labels == {"idle", "alloc", "nodesc", "io", "awake"}

Init ==
  /\ free = Desc
  /\ next = [d \in Desc |-> None] /\ info = [d \in Desc |-> None]
  /\ avail = [d \in Desc |-> 0] /\ availIdx = 0
  /\ used = [d \in Desc |-> 0] /\ usedId = 0 /\ usedIdx = 0
  /\ busy = [p \in Caller |-> FALSE]
  /\ pc = [p \in Caller |-> "idle"] /\ head = [p \in Caller |-> None]
  /\ devIdx = 0 /\ taken = {} /\ status = FALSE
  /\ intr = "off"
  /\ done = {} /\ panicked = FALSE

\* vdisk_lock is free between the sections below.
Unlocked == intr = "off" /\ ~panicked

\* wakeup(&disk.free[0]) and wakeup(b).
WakeDesc(f) == [p \in Caller |-> IF f[p] = "nodesc" THEN "alloc" ELSE f[p]]
WakeBuf(f, q) == [f EXCEPT ![q] = IF @ = "io" THEN "awake" ELSE @]

-----------------------------------------------------------------------------
(* virtio_disk_rw *)

call(p) ==
  /\ pc[p] = "idle" /\ ~panicked
  /\ pc' = [pc EXCEPT ![p] = "alloc"]
  /\ UNCHANGED <<driver, device, head, intr, done, panicked>>

\* alloc3_desc takes the three lowest free descriptors.
\* (The mutant hands out the lowest descriptors, free or not.)
LowestAny(k) == 0..(k - 1)
Lowest(k) == CHOOSE S \in SUBSET free :
  /\ Cardinality(S) = k
  /\ \A d \in S, e \in free \ S : d < e

rw_submit(p) ==
  /\ Unlocked /\ pc[p] = "alloc" /\ Cardinality(free) >= 3
  /\ LET S  == Lowest(3)
         d0 == Min(S)
         d2 == Max(S)
         d1 == CHOOSE d \in S : d # d0 /\ d # d2
     IN /\ free' = free \ S
        /\ next' = [next EXCEPT ![d0] = d1, ![d1] = d2, ![d2] = None]
        /\ info' = [info EXCEPT ![d0] = p]
        /\ avail' = [avail EXCEPT ![availIdx % NUM] = d0]
        /\ head' = [head EXCEPT ![p] = d0]
  /\ availIdx' = (availIdx + 1) % UMod
  /\ busy' = [busy EXCEPT ![p] = TRUE]
  /\ pc' = [pc EXCEPT ![p] = "io"]
  /\ done' = done \ {p}
  /\ UNCHANGED <<usedIdx, device, intr, panicked>>

\* Too few: what was taken is given back by free_desc, which wakes the others
\* that wait for descriptors; then this process sleeps.
rw_nodesc(p) ==
  /\ Unlocked /\ pc[p] = "alloc" /\ Cardinality(free) < 3
  /\ pc' = [(IF free = {} THEN pc ELSE WakeDesc(pc)) EXCEPT ![p] = "nodesc"]
  /\ UNCHANGED <<driver, device, head, intr, done, panicked>>

\* free_chain(i) and the descriptors it frees: i, and on while there is a next.
Chain(i) == LET c1 == next[i]
                c2 == IF c1 = None THEN None ELSE next[c1]
            IN {i, c1, c2} \ {None}

\* while(b->disk == 1), tested again after every wakeup.  (AssumeFinished: mutant.)
AssumeFinished(p) == TRUE
Finished(p) == ~busy[p]

\* Woken: if the request has finished, free its chain; else sleep again.
rw_again(p) ==
  /\ Unlocked /\ pc[p] = "awake" /\ ~Finished(p)
  /\ pc' = [pc EXCEPT ![p] = "io"]
  /\ UNCHANGED <<driver, device, head, intr, done, panicked>>

rw_finish(p) ==
  /\ Unlocked /\ pc[p] = "awake" /\ Finished(p)
  /\ IF Chain(head[p]) \cap free # {}
     THEN panicked' = TRUE /\ UNCHANGED <<free, info, pc, head>>
     ELSE /\ free' = free \cup Chain(head[p])
          /\ info' = [info EXCEPT ![head[p]] = None]
          /\ pc' = WakeDesc([pc EXCEPT ![p] = "idle"])
          /\ head' = [head EXCEPT ![p] = None]
          /\ UNCHANGED panicked
  /\ UNCHANGED <<next, avail, availIdx, usedIdx, busy, device, intr, done>>

\* kill() makes a process run again whatever it sleeps on.
kill(p) ==
  /\ pc[p] \in {"nodesc", "io"}
  /\ pc' = [pc EXCEPT ![p] = IF @ = "io" THEN "awake" ELSE "alloc"]
  /\ UNCHANGED <<driver, device, head, intr, done, panicked>>

-----------------------------------------------------------------------------
(* The device (external). *)

dev_take ==
  /\ devIdx # availIdx
  /\ taken' = taken \cup {avail[devIdx % NUM]}
  /\ devIdx' = (devIdx + 1) % UMod
  /\ UNCHANGED <<driver, used, usedId, status, pc, head, intr, done, panicked>>

dev_complete(d) ==
  /\ d \in taken
  /\ taken' = taken \ {d}
  /\ used' = [used EXCEPT ![usedId % NUM] = d]
  /\ usedId' = (usedId + 1) % UMod
  /\ status' = TRUE
  /\ done' = done \cup {p \in Caller : head[p] = d}
  /\ UNCHANGED <<driver, devIdx, pc, head, intr, panicked>>

-----------------------------------------------------------------------------
(* virtio_disk_intr *)

intr_start ==
  /\ Unlocked /\ status
  /\ intr' = "loop"
  /\ UNCHANGED <<driver, device, pc, head, done, panicked>>

MoreUsed == usedIdx % NUM # usedId % NUM

\* used_idx stays below NUM.  
NextUsed(i) == (i + 1) % NUM

\* One turn of the loop over the used ring.
intr_loop ==
  LET id == used[usedIdx]
      p  == info[id]
  IN
  /\ intr = "loop" /\ MoreUsed
  /\ busy' = [busy EXCEPT ![p] = FALSE]
  /\ pc' = WakeBuf(pc, p)
  /\ usedIdx' = NextUsed(usedIdx)
  /\ UNCHANGED <<free, next, info, avail, availIdx, device, head, intr, done, panicked>>

intr_exit ==
  /\ intr = "loop" /\ ~MoreUsed
  /\ intr' = "ack"
  /\ UNCHANGED <<driver, device, pc, head, done, panicked>>

\* The acknowledgement, after the loop.
intr_ack ==
  /\ intr = "ack"
  /\ status' = FALSE
  /\ intr' = "off"
  /\ UNCHANGED <<driver, used, usedId, devIdx, taken, pc, head, done, panicked>>

-----------------------------------------------------------------------------
ProcStep(p) == rw_submit(p) \/ rw_nodesc(p) \/ rw_again(p) \/ rw_finish(p)
Device == dev_take \/ \E d \in Desc : dev_complete(d)
Handler == intr_start \/ intr_loop \/ intr_exit \/ intr_ack

Next ==
  \/ \E p \in Caller : call(p) \/ ProcStep(p) \/ kill(p)
  \/ Device
  \/ Handler

Spec == Init /\ [][Next]_vars

-----------------------------------------------------------------------------
Submitted == {p \in Caller : pc[p] \in {"io", "awake"}}

\* The queue is sound.  Every descriptor is free or in the chain of exactly one
\* request in progress: none leaks, none is handed out twice, and free_desc's
\* panics are unreachable.  And the test (used_idx % NUM) != (used->id % NUM)
\* neither hides nor invents a completion, across the wrap of both counters.
QueueSound ==
  /\ free = Desc \ UNION {Chain(head[p]) : p \in Submitted}
  /\ \A p, q \in Submitted : p # q => Chain(head[p]) \cap Chain(head[q]) = {}
  /\ ~panicked
  /\ MoreUsed <=> \E p \in Submitted : busy[p] /\ p \in done

\* virtio_disk_rw returns only after the device has carried out this process's
\* own request, whatever order the device completes requests in and whatever
\* else wakes the process.
FinishAfterDone ==
  [][\A p \in Caller : pc[p] = "awake" /\ pc'[p] = "idle" => p \in done]_vars

=============================================================================
