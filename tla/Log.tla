-------------------------------- MODULE Log --------------------------------
(***************************************************************************)
(* The redo log of kernel/log.c, with crashes between any two disk writes  *)
(* and the recovery of the next boot.                                      *)
(*                                                                         *)
(* Every critical section under log.lock is one action; log_write's test   *)
(* for space, which the code makes before it takes the lock, is an action  *)
(* of its own.  Each disk write (bwrite of one block) is one action.  The  *)
(* buffer cache is seen through its interface: cache[b] is what bread(b)   *)
(* returns, refcnt[b] the reference count of the buffer that holds b, and  *)
(* Evict(b) the recycling of a buffer whose count is zero, after which     *)
(* bread fetches the disk's copy again.                                    *)
(***************************************************************************)
EXTENDS Naturals, Sequences, FiniteSets

CONSTANTS
  Proc,         \* processes that make file system calls
  Block,        \* home blocks of the file system
  Val,          \* block contents
  MaxOpBlocks,  \* MAXOPBLOCKS: blocks reserved for one operation
  OpBlocks,     \* the most blocks an operation of fs.c really logs
  LogSize,      \* LOGSIZE: entries of the in-memory header
  NLog,         \* sb.nlog, log.size: blocks of the log, header included
  RefMod,       \* refcnt is an unsigned int: arithmetic modulo RefMod
  MaxOps,       \* bound: operations begun in a behaviour
  MaxCrashes,   \* bound: crashes in a behaviour
  EvictLogged   \* whether after a crash a logged block may lose its buffer, too

ASSUME LogConstants ==
  /\ MaxOpBlocks \in Nat \ {0}
  /\ OpBlocks \in 0..MaxOpBlocks
  /\ LogSize \in Nat /\ MaxOpBlocks <= LogSize
  /\ NLog \in Nat \ {0}
  /\ RefMod \in Nat /\ RefMod > 2
  /\ MaxOps \in Nat
  /\ MaxCrashes \in Nat
  /\ EvictLogged \in BOOLEAN

VARIABLES
  disk,         \* [Block -> Val]: home locations
  logd,         \* [1..LogSize -> Val]: log blocks log.start+1, ...
  hdr,          \* Seq(Block): the header block on disk
  cache,        \* [Block -> Val]
  refcnt,       \* [Block -> 0..RefMod-1]
  lh,           \* Seq(Block): log.lh
  outstanding,  \* log.outstanding
  committing,   \* log.committing
  pc,           \* [Proc -> PcValues]: where a process is in its call
  buf,          \* [Proc -> Block]: the buffer a process holds locked
  wrote,        \* [Proc -> SUBSET Block]: blocks logged by the operation
  boot,         \* where the boot is: recovery runs before any process
  tail,         \* loop variable of write_log and install_trans
  panicked,     \* panic() was called
  ops, crashes  \* how much of the bounds is used up

store == <<disk, logd, hdr>>
mem == <<cache, refcnt, lh, outstanding, committing, pc, buf, wrote, tail>>
vars == <<store, mem, boot, panicked, ops, crashes>>

InOp == {"op", "log_write", "append"}
Committing == {"write_log", "write_head", "install", "erase", "done"}
PcValues == {"idle", "begin", "sleep"} \cup InOp \cup Committing

Logged == {lh[i] : i \in 1..Len(lh)}
Running == boot = "up" /\ ~panicked
Holds(p) == pc[p] \in {"log_write", "append"}
Held(b) == \E p \in Proc : Holds(p) /\ buf[p] = b

\* The contents a restart would find: what the header names comes from the log.
Recovered ==
  [b \in Block |-> IF \E i \in 1..Len(hdr) : hdr[i] = b
                   THEN logd[CHOOSE i \in 1..Len(hdr) : hdr[i] = b]
                   ELSE disk[b]]

-----------------------------------------------------------------------------
\* A disk as mkfs leaves it: one value stands for what its blocks hold.
Init ==
  /\ \E v \in Val : disk = [b \in Block |-> v] /\ logd = [i \in 1..LogSize |-> v]
  /\ hdr = <<>>
  /\ cache = disk /\ refcnt = [b \in Block |-> 0]
  /\ lh = <<>> /\ outstanding = 0 /\ committing = FALSE
  /\ pc = [p \in Proc |-> "idle"] /\ buf = [p \in Proc |-> "none"]
  /\ wrote = [p \in Proc |-> {}]
  /\ boot = "read_head" /\ tail = 0
  /\ panicked = FALSE /\ ops = 0 /\ crashes = 0

Goto(p, l) == pc' = [pc EXCEPT ![p] = l]

\* The reference counts, unsigned: bpin and bget add one, bunpin and brelse
\* take one.  (NoPin: mutant.)
NoPin(r, b) == r
bpin(r, b) == [r EXCEPT ![b] = (@ + 1) % RefMod]
bunpin(r, b) == [r EXCEPT ![b] = (@ + RefMod - 1) % RefMod]

\* wakeup(&log): every process asleep on the log looks again.  (WakeNone: mutant.)
WakeNone(f) == f
WakeLog(f) == [q \in Proc |-> IF f[q] = "sleep" THEN "begin" ELSE f[q]]

Panic == panicked' = TRUE /\ UNCHANGED <<store, mem, boot, ops, crashes>>

\* A system call that updates the file system reaches begin_op.
Call(p) ==
  /\ Running /\ pc[p] = "idle" /\ ops < MaxOps
  /\ ops' = ops + 1
  /\ Goto(p, "begin")
  /\ UNCHANGED <<store, cache, refcnt, lh, outstanding, committing, buf, wrote,
                 tail, boot, panicked, crashes>>

\* begin_op waits while a commit runs or while the log might fill up.
MustWait ==
  \/ committing
  \/ Len(lh) + (outstanding + 1) * MaxOpBlocks > LogSize

begin_op(p) ==
  /\ Running /\ pc[p] = "begin"
  /\ IF MustWait
     THEN Goto(p, "sleep") /\ UNCHANGED outstanding
     ELSE Goto(p, "op") /\ outstanding' = outstanding + 1
  /\ UNCHANGED <<store, cache, refcnt, lh, committing, buf, wrote, tail,
                 boot, panicked, ops, crashes>>

\* bread, then a change of the buffer's data; the buffer stays locked.  The
\* callers in fs.c keep to OpBlocks different blocks per operation.
Modify(p, b, v) ==
  /\ Running /\ pc[p] = "op" /\ ~Held(b)
  /\ Cardinality(wrote[p] \cup {b}) <= OpBlocks
  /\ cache' = [cache EXCEPT ![b] = v]
  /\ refcnt' = [refcnt EXCEPT ![b] = (@ + 1) % RefMod]   \* bget
  /\ buf' = [buf EXCEPT ![p] = b]
  /\ wrote' = [wrote EXCEPT ![p] = @ \cup {b}]
  /\ Goto(p, "log_write")
  /\ UNCHANGED <<store, lh, outstanding, committing, tail, boot, panicked, ops,
                 crashes>>

\* log_write's tests, made without log.lock.
TooBig == Len(lh) >= LogSize \/ Len(lh) >= NLog - 1

log_write_check(p) ==
  /\ Running /\ pc[p] = "log_write"
  /\ IF TooBig \/ outstanding < 1
     THEN Panic
     ELSE /\ Goto(p, "append")
          /\ UNCHANGED <<store, cache, refcnt, lh, outstanding, committing, buf,
                         wrote, tail, boot, panicked, ops, crashes>>

\* log_write under log.lock: absorb, or append and pin; the caller's brelse.
log_write(p) ==
  /\ Running /\ pc[p] = "append"
  /\ LET b == buf[p] IN
       IF b \in Logged
       THEN UNCHANGED lh /\ refcnt' = bunpin(refcnt, b)
       ELSE lh' = Append(lh, b) /\ refcnt' = bunpin(bpin(refcnt, b), b)
  /\ buf' = [buf EXCEPT ![p] = "none"]
  /\ Goto(p, "op")
  /\ UNCHANGED <<store, cache, outstanding, committing, wrote, tail, boot,
                 panicked, ops, crashes>>

\* end_op: the last operation out starts the commit, any other makes room.
end_op(p) ==
  /\ Running /\ pc[p] = "op"
  /\ IF committing
     THEN Panic
     ELSE /\ outstanding' = outstanding - 1
          /\ committing' = (outstanding = 1)
          /\ pc' = IF outstanding = 1
                   THEN [pc EXCEPT ![p] = IF lh = <<>> THEN "done" ELSE "write_log"]
                   ELSE WakeLog([pc EXCEPT ![p] = "idle"])
          /\ wrote' = [wrote EXCEPT ![p] = {}]
          /\ UNCHANGED <<store, cache, refcnt, lh, buf, tail, boot, panicked, ops,
                         crashes>>

-----------------------------------------------------------------------------
(* commit(), run by the process whose end_op set log.committing.           *)

\* The loops over tail: is this the last turn?  (StopsShort: mutant.)
StopsShort == tail + 2 >= Len(lh)
LastTurn == tail + 1 >= Len(lh)
AdvanceTail == tail' = IF LastTurn THEN 0 ELSE tail + 1

\* One turn of write_log's loop: cache block to log block.
write_log(p) ==
  /\ Running /\ pc[p] = "write_log"
  /\ logd' = [logd EXCEPT ![tail + 1] = cache[lh[tail + 1]]]
  /\ AdvanceTail
  /\ Goto(p, IF LastTurn THEN "write_head" ELSE "write_log")
  /\ UNCHANGED <<disk, hdr, cache, refcnt, lh, outstanding, committing, buf,
                 wrote, boot, panicked, ops, crashes>>

\* The header reaches the disk: the transaction commits.
write_head(p) ==
  /\ Running /\ pc[p] = "write_head"
  /\ hdr' = lh
  /\ Goto(p, "install")
  /\ UNCHANGED <<disk, logd, cache, refcnt, lh, outstanding, committing, buf,
                 wrote, tail, boot, panicked, ops, crashes>>

\* One turn of install_trans's loop: log block to home block, through the
\* cache, with the bunpin that the loop makes whoever called it.
InstallBlock ==
  LET b == lh[tail + 1] IN
    /\ cache' = [cache EXCEPT ![b] = logd[tail + 1]]
    /\ disk' = [disk EXCEPT ![b] = logd[tail + 1]]
    /\ refcnt' = bunpin(refcnt, b)
    /\ AdvanceTail

install_trans(p) ==
  /\ Running /\ pc[p] = "install"
  /\ InstallBlock
  /\ Goto(p, IF LastTurn THEN "erase" ELSE "install")
  /\ UNCHANGED <<logd, hdr, lh, outstanding, committing, buf, wrote, boot,
                 panicked, ops, crashes>>

\* log.lh.n = 0, and the empty header reaches the disk.
erase_head(p) ==
  /\ Running /\ pc[p] = "erase"
  /\ lh' = <<>> /\ hdr' = <<>>
  /\ Goto(p, "done")
  /\ UNCHANGED <<disk, logd, cache, refcnt, outstanding, committing, buf, wrote,
                 tail, boot, panicked, ops, crashes>>

\* The second critical section of end_op.
end_commit(p) ==
  /\ Running /\ pc[p] = "done"
  /\ committing' = FALSE
  /\ pc' = WakeLog([pc EXCEPT ![p] = "idle"])
  /\ UNCHANGED <<store, cache, refcnt, lh, outstanding, buf, wrote, tail, boot,
                 panicked, ops, crashes>>

-----------------------------------------------------------------------------
(* recover_from_log(), run at boot before any other file system activity.  *)

read_head ==
  /\ boot = "read_head"
  /\ lh' = hdr
  /\ boot' = IF hdr = <<>> THEN "erase" ELSE "install"
  /\ UNCHANGED <<store, cache, refcnt, outstanding, committing, pc, buf, wrote,
                 tail, panicked, ops, crashes>>

recover_install ==
  /\ boot = "install"
  /\ InstallBlock
  /\ boot' = IF LastTurn THEN "erase" ELSE "install"
  /\ UNCHANGED <<logd, hdr, lh, outstanding, committing, pc, buf, wrote,
                 panicked, ops, crashes>>

recover_erase ==
  /\ boot = "erase"
  /\ lh' = <<>> /\ hdr' = <<>>
  /\ boot' = "up"
  /\ UNCHANGED <<disk, logd, cache, refcnt, outstanding, committing, pc, buf,
                 wrote, tail, panicked, ops, crashes>>

-----------------------------------------------------------------------------
\* Power is lost: the disk stays, memory starts afresh.
Crash ==
  /\ ~panicked /\ crashes < MaxCrashes
  /\ crashes' = crashes + 1
  /\ cache' = disk /\ refcnt' = [b \in Block |-> 0]
  /\ lh' = <<>> /\ outstanding' = 0 /\ committing' = FALSE
  /\ pc' = [p \in Proc |-> "idle"] /\ buf' = [p \in Proc |-> "none"]
  /\ wrote' = [p \in Proc |-> {}]
  /\ boot' = "read_head" /\ tail' = 0
  /\ UNCHANGED <<store, panicked, ops>>

\* bget gives the buffer of b to another block; b is next read from the disk.
Evict(b) ==
  /\ Running /\ (crashes = 0 \/ b \notin Logged \/ EvictLogged)
  /\ refcnt[b] = 0 /\ ~Held(b)
  /\ cache' = [cache EXCEPT ![b] = disk[b]]
  /\ UNCHANGED <<store, refcnt, lh, outstanding, committing, pc, buf, wrote,
                 tail, boot, panicked, ops, crashes>>

CommitStep(p) ==
  write_log(p) \/ write_head(p) \/ install_trans(p) \/ erase_head(p) \/ end_commit(p)

OpStep(p) ==
  \/ begin_op(p)
  \/ \E b \in Block, v \in Val : Modify(p, b, v)
  \/ log_write_check(p)
  \/ log_write(p)
  \/ end_op(p)

Recover == read_head \/ recover_install \/ recover_erase

Next ==
  \/ \E p \in Proc : Call(p) \/ OpStep(p) \/ CommitStep(p)
  \/ Recover
  \/ Crash
  \/ \E b \in Block : Evict(b)

Spec == Init /\ [][Next]_vars

\* A process inside a system call keeps running, and an operation makes
\* finitely many changes, so it reaches end_op; the boot completes.
Fairness ==
  /\ WF_vars(Recover)
  /\ \A p \in Proc : /\ WF_vars(begin_op(p) \/ log_write_check(p) \/ log_write(p))
                     /\ WF_vars(CommitStep(p))
                     /\ SF_vars(end_op(p))

FairSpec == Spec /\ Fairness

-----------------------------------------------------------------------------
\* The log implements a disk on which groups of whole operations become
\* durable in one step (log.c: "there is never any reasoning required about
\* whether a commit might write an uncommitted system call's updates"): what a
\* restart would find changes only at a commit with no operation in progress,
\* and what running operations read changes only by their own writes.
AD == INSTANCE AtomicDisk WITH
        cur <- IF boot = "up" THEN cache ELSE Recovered,
        durable <- Recovered,
        active <- {p \in Proc : pc[p] \in InOp}
CrashAtomic == AD!AdSpec

\* When the end_op that committed returns, a crash loses nothing: the disk
\* would recover to exactly what the cache holds.
DurableOnReturn ==
  \A p \in Proc : Running /\ pc[p] = "done" => Recovered = cache

\* A block that waits in the log to be written is pinned: its buffer's count is
\* not zero, so bget cannot recycle the only copy of the change (log_write:
\* "pin in the cache by increasing refcnt").
LoggedPinned ==
  LET installed(i) == \E p \in Proc : \/ pc[p] = "erase"
                                      \/ pc[p] = "install" /\ i <= tail
  IN Running => \A i \in 1..Len(lh) : installed(i) \/ refcnt[lh[i]] # 0

\* Every system call that enters begin_op finishes (unless power is lost).
OpsComplete ==
  \A p \in Proc : pc[p] = "begin" ~> pc[p] = "idle"

=============================================================================
