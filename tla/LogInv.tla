------------------------------- MODULE LogInv -------------------------------
(***************************************************************************)
(* The inductive invariant of Log, for any number of processes and blocks,  *)
(* any sizes of the log and of an operation, and any number of crashes; that *)
(* the commit and the recovery preserve it; and that with it every step is a *)
(* step of AtomicDisk.  The operations, which need counting, and the         *)
(* theorems are in LogProofs.                                                *)
(***************************************************************************)
EXTENDS Log, TLAPS

Active == {p \in Proc : pc[p] \in InOp}

TypeOK ==
  /\ disk \in [Block -> Val] /\ logd \in [1..LogSize -> Val] /\ hdr \in Seq(Block)
  /\ cache \in [Block -> Val] /\ refcnt \in [Block -> 0..(RefMod - 1)]
  /\ lh \in Seq(Block) /\ outstanding \in Nat /\ committing \in BOOLEAN
  /\ pc \in [Proc -> PcValues] /\ buf \in [Proc -> Block \cup {"none"}]
  /\ wrote \in [Proc -> SUBSET Block]
  /\ boot \in {"read_head", "install", "erase", "up"} /\ tail \in Nat
  /\ panicked \in BOOLEAN /\ ops \in Nat /\ crashes \in Nat

\* A block is in the log once, and the log fits on the disk.
Distinct(s) == \A i, j \in 1..Len(s) : s[i] = s[j] => i = j
ListInv == /\ Distinct(lh) /\ Len(lh) <= LogSize
           /\ Distinct(hdr) /\ Len(hdr) <= LogSize

\* Recovery runs alone, and installs what the header names.
BootInv ==
  boot # "up" =>
    /\ pc = [p \in Proc |-> "idle"] /\ outstanding = 0 /\ committing = FALSE /\ ~panicked
    /\ cache = disk
    /\ boot = "read_head" => lh = <<>> /\ tail = 0
    /\ boot = "install" => lh = hdr /\ tail < Len(lh) /\ \A i \in 1..tail : disk[lh[i]] = logd[i]
    /\ boot = "erase" => lh = hdr /\ tail = 0 /\ \A i \in 1..Len(lh) : disk[lh[i]] = logd[i]

\* outstanding counts the operations; a commit runs alone.
OpInv ==
  /\ IsFiniteSet(Active) /\ outstanding = Cardinality(Active)
  /\ outstanding = 0 <=> Active = {}
  /\ \A p \in Proc : pc[p] \in Committing => committing
  /\ committing => /\ outstanding = 0
                   /\ \E p \in Proc : pc[p] \in Committing
  /\ \A p, q \in Proc : pc[p] \in Committing /\ pc[q] \in Committing => p = q

\* A buffer is locked by one process, which has it in its operation.
BufInv ==
  /\ \A p \in Proc : /\ Holds(p) => buf[p] \in wrote[p]
                     /\ pc[p] \notin InOp => wrote[p] = {}
                     /\ IsFiniteSet(wrote[p]) /\ Cardinality(wrote[p]) <= OpBlocks
  /\ \A p, q \in Proc : Holds(p) /\ Holds(q) /\ buf[p] = buf[q] => p = q

\* Only a block that is logged or locked differs from its home location.
CacheInv == \A b \in Block : b \notin Logged /\ ~Held(b) => cache[b] = disk[b]

\* How far a commit has come.  Blocks in the log keep their buffers before the
\* first crash, and after it if EvictLogged does not say otherwise.
Kept == ~EvictLogged \/ crashes = 0
LogState(l) ==
  /\ l \in {"none", "write_log", "write_head", "done"} => hdr = <<>>
  /\ l \in {"install", "erase"} => hdr = lh
  /\ l \in {"write_log", "write_head", "install"} => lh # <<>>
  /\ l = "done" => lh = <<>>
  /\ l \in {"write_log", "install"} => tail < Len(lh)
  /\ l \notin {"write_log", "install"} => tail = 0
  /\ Kept /\ l = "write_log" => \A i \in 1..tail : logd[i] = cache[lh[i]]
  /\ Kept /\ l \in {"write_head", "install"} => \A i \in 1..Len(lh) : logd[i] = cache[lh[i]]
  /\ l = "install" => \A i \in 1..tail : disk[lh[i]] = logd[i] /\ cache[lh[i]] = logd[i]
  /\ l = "erase" => \A i \in 1..Len(lh) : disk[lh[i]] = logd[i] /\ cache[lh[i]] = logd[i]
PhaseInv ==
  /\ boot = "up" /\ ~committing => LogState("none")
  /\ \A p \in Proc : pc[p] \in Committing => LogState(pc[p])

\* Before the first crash a buffer's count is one for its place in the log and
\* one for the process that holds it.
Installed(i) == \E p \in Proc : pc[p] = "erase" \/ (pc[p] = "install" /\ i <= tail)
Pinned(b) == \E i \in 1..Len(lh) : lh[i] = b /\ ~Installed(i)
One(x) == IF x THEN 1 ELSE 0
PinInv ==
  crashes = 0 =>
    /\ boot # "up" => hdr = <<>> /\ lh = <<>>
    /\ \A b \in Block : refcnt[b] = (One(Pinned(b)) + One(Held(b))) % RefMod

\* What begin_op reserves is enough: each operation has MaxOpBlocks entries, of
\* which it has used those of its blocks that are logged.
Used == {x \in Active \X Block : x[2] \in wrote[x[1]] /\ x[2] \in Logged}
SpaceInv ==
  outstanding # 0 => Len(lh) + outstanding * MaxOpBlocks <= LogSize + Cardinality(Used)

LInv == /\ TypeOK /\ ListInv /\ BootInv /\ OpInv /\ BufInv /\ CacheInv
        /\ PhaseInv /\ PinInv /\ SpaceInv

-----------------------------------------------------------------------------
(* Steps outside the log. *)

LEMMA NobodyActive ==
  ASSUME OpInv
  PROVE  outstanding = 0 <=> \A p \in Proc : pc[p] \notin InOp
BY Zenon DEF OpInv, Active

\* Steps that leave every process on its side of the interface; those that change
\* the cache have to account for it.
Outside == {"idle", "begin", "sleep"}
SameSide(p) == \/ pc'[p] = pc[p]
               \/ pc[p] \in Outside /\ pc'[p] \in Outside
               \/ pc[p] \in {"log_write", "append"} /\ pc'[p] \in {"log_write", "append"}

LEMMA SameSideStep ==
  ASSUME LInv, pc' \in [Proc -> PcValues], \A p \in Proc : SameSide(p),
         UNCHANGED <<store, refcnt, lh, outstanding, committing, buf, wrote, tail,
                     boot, crashes>>,
         cache' = cache \/ (cache' \in [Block -> Val] /\ CacheInv' /\ PhaseInv'),
         boot = "up" \/ UNCHANGED <<cache, pc, panicked>>, panicked' \in BOOLEAN, ops' \in Nat
  PROVE  LInv'
<1>1. \A p \in Proc : /\ pc'[p] \in InOp <=> pc[p] \in InOp
                      /\ pc'[p] \in Committing <=> pc[p] \in Committing
                      /\ pc[p] \in Committing => pc'[p] = pc[p]
                      /\ Holds(p)' <=> Holds(p)
                      /\ \A l \in {"erase", "install"} : pc'[p] = l <=> pc[p] = l
  BY Zenon DEF SameSide, Outside, InOp, Committing, Holds
<1>2. Active' = Active /\ Logged' = Logged /\ \A b \in Block : Held(b)' <=> Held(b)
  BY Zenon, <1>1 DEF Active, Logged, Held
<1>3. TypeOK'
  BY Zenon DEF LInv, TypeOK, store
<1>4. ListInv'
  BY Zenon DEF LInv, ListInv, Distinct, store
<1>5. BootInv'
  BY Zenon DEF LInv, BootInv, store
<1>6. OpInv'
  BY Zenon, <1>1, <1>2 DEF LInv, OpInv
<1>7. BufInv'
  BY Zenon, <1>1 DEF LInv, BufInv
<1>8. CacheInv'
  BY Zenon, <1>2 DEF LInv, CacheInv, store
<1>9. PhaseInv'
  <2>1. cache' = cache => \A l : LogState(l)' <=> LogState(l)
    BY DEF LogState, Kept, store
  <2> QED
    BY <1>1, <2>1, Zenon DEF LInv, PhaseInv
<1>10. PinInv'
  <2>1. \A b \in Block : Pinned(b)' <=> Pinned(b)
    BY Zenon, <1>1 DEF Pinned, Installed
  <2> QED
    BY Zenon, <1>2, <2>1 DEF LInv, PinInv, One, store
<1>11. SpaceInv'
  BY Zenon, <1>2 DEF LInv, SpaceInv, Used
<1> QED
  BY Zenon, <1>3, <1>4, <1>5, <1>6, <1>7, <1>8, <1>9, <1>10, <1>11 DEF LInv

LEMMA CallStep == ASSUME LInv, NEW p \in Proc, Call(p) PROVE LInv'
<1>1. pc' = [pc EXCEPT ![p] = "begin"] /\ pc[p] = "idle" /\ boot = "up"
  BY Zenon DEF Call, Goto, Running
<1>2. pc' \in [Proc -> PcValues] /\ \A q \in Proc : SameSide(q)
  BY Zenon, <1>1 DEF LInv, TypeOK, PcValues, SameSide, Outside
<1> QED
  BY <1>1, <1>2, SameSideStep DEF Call, LInv, TypeOK

LEMMA PanicStep == ASSUME LInv, Running, Panic PROVE LInv'
<1>1. pc' \in [Proc -> PcValues] /\ \A q \in Proc : SameSide(q)
  BY Zenon DEF Panic, mem, LInv, TypeOK, SameSide
<1> QED
  BY Zenon, <1>1, SameSideStep DEF Panic, mem, LInv, TypeOK, Running

LEMMA CheckStep == ASSUME LInv, NEW p \in Proc, log_write_check(p) PROVE LInv'
<1>1. CASE Panic
  BY Zenon, <1>1, PanicStep DEF log_write_check
<1>2. CASE ~Panic
  <2>1. /\ pc' = [pc EXCEPT ![p] = "append"] /\ pc[p] = "log_write" /\ boot = "up"
        /\ UNCHANGED <<store, cache, refcnt, lh, outstanding, committing, buf,
                       wrote, tail, boot, panicked, ops, crashes>>
    BY <1>2, Zenon DEF log_write_check, Goto, Running
  <2>2. pc' \in [Proc -> PcValues] /\ \A q \in Proc : SameSide(q)
    BY Zenon, <2>1 DEF LInv, TypeOK, PcValues, InOp, SameSide
  <2> QED
    BY Zenon, <2>1, <2>2, SameSideStep DEF LInv, TypeOK
<1> QED
  BY Zenon, <1>1, <1>2

\* While an operation is in progress nobody commits and the log is in memory.
LEMMA OpFacts ==
  ASSUME LInv, boot = "up", NEW p \in Proc, pc[p] \in InOp
  PROVE  /\ ~committing /\ \A q \in Proc : pc[q] \notin Committing
         /\ hdr = <<>> /\ tail = 0
<1>1. outstanding # 0
  BY NobodyActive, Zenon DEF LInv
<1>2. ~committing /\ \A q \in Proc : pc[q] \notin Committing
  BY <1>1, Zenon DEF LInv, OpInv
<1>3. LogState("none")
  BY <1>2, Zenon DEF LInv, PhaseInv
<1> QED
  BY Zenon, <1>2, <1>3 DEF LogState

-----------------------------------------------------------------------------
(* The commit. *)

LEMMA PinUp ==
  ASSUME NEW m \in Nat, m > 1, NEW x \in 0..1
  PROVE  ((x % m) + 1) % m = (x + 1) % m
<1>1. x % m = x
  OBVIOUS
<1> QED
  BY Zenon, <1>1

LEMMA PinDown ==
  ASSUME NEW m \in Nat, m > 1, NEW x \in 1..2
  PROVE  ((x % m) + m - 1) % m = (x - 1) % m
<1>1. x % m = IF x = m THEN 0 ELSE x
  OBVIOUS
<1>2. CASE x = m
  BY <1>1, <1>2
<1>3. CASE x # m
  <2>1. (x % m) + m - 1 = (x - 1) + m /\ x - 1 \in 0..(m - 1)
    BY <1>1, <1>3
  <2>2. ((x - 1) + m) % m = x - 1 /\ (x - 1) % m = x - 1
    BY <2>1
  <2> QED
    BY Zenon, <2>1, <2>2
<1> QED
  BY Zenon, <1>2, <1>3

\* A process that commits is alone with the log.
LEMMA CommitFacts ==
  ASSUME LInv, NEW p \in Proc, pc[p] \in Committing
  PROVE  /\ committing /\ outstanding = 0 /\ LogState(pc[p]) /\ boot = "up"
         /\ \A q \in Proc : /\ pc[q] \notin InOp /\ ~Holds(q)
                            /\ q # p => pc[q] \notin Committing
         /\ \A b \in Block : ~Held(b)
<1>1. committing /\ outstanding = 0 /\ LogState(pc[p])
  BY Zenon DEF LInv, OpInv, PhaseInv
<1>2. \A q \in Proc : pc[q] \notin InOp
  BY <1>1, NobodyActive, Zenon DEF LInv
<1>3. \A q \in Proc : ~Holds(q)
  BY Zenon, <1>2 DEF Holds, InOp
<1>4. \A q \in Proc : q # p => pc[q] \notin Committing
  BY Zenon DEF LInv, OpInv
<1>5. boot = "up"
  BY Zenon DEF LInv, BootInv, Committing
<1> QED
  BY <1>1, <1>2, <1>3, <1>4, <1>5, Zenon DEF Held

\* What a step of the commit has to preserve beyond the place it goes to.
LEMMA CommitControl ==
  ASSUME LInv, NEW p \in Proc, pc[p] \in Committing, NEW l \in Committing,
         pc' = [pc EXCEPT ![p] = l],
         UNCHANGED <<outstanding, committing, buf, wrote, boot, panicked, ops, crashes>>,
         lh' \in Seq(Block), Distinct(lh'), Len(lh') <= LogSize,
         hdr' \in Seq(Block), Distinct(hdr'), Len(hdr') <= LogSize,
         disk' \in [Block -> Val], logd' \in [1..LogSize -> Val], cache' \in [Block -> Val],
         refcnt' \in [Block -> 0..(RefMod - 1)], tail' \in Nat,
         LogState(pc[p])', CacheInv',
         crashes = 0 => \A b \in Block : refcnt'[b] = One(Pinned(b)') % RefMod
  PROVE  LInv'
<1>1. /\ committing /\ outstanding = 0 /\ boot = "up"
      /\ \A q \in Proc : /\ pc[q] \notin InOp /\ ~Holds(q)
                         /\ q # p => pc[q] \notin Committing
  BY Zenon, CommitFacts
<1>2. pc'[p] = l /\ \A q \in Proc \ {p} : pc'[q] = pc[q]
  BY Zenon DEF LInv, TypeOK
<1>3. \A q \in Proc : /\ pc'[q] \notin InOp /\ ~Holds(q)'
                      /\ pc'[q] \in Committing <=> q = p
  BY Zenon, <1>1, <1>2 DEF InOp, Committing, Holds
<1>4. Active = {} /\ Active' = {} /\ \A b \in Block : ~Held(b)'
  BY Zenon, <1>1, <1>3 DEF Active, Held
<1>5. TypeOK'
  BY Zenon DEF LInv, TypeOK, PcValues
<1>6. ListInv'
  BY Zenon DEF ListInv, Distinct
<1>7. BootInv'
  BY Zenon, <1>1 DEF BootInv
<1>8. OpInv'
  BY <1>1, <1>3, <1>4, Zenon DEF LInv, OpInv
<1>9. BufInv'
  BY Zenon, <1>1, <1>3 DEF LInv, BufInv
<1>10. PhaseInv'
  BY <1>1, <1>3, Zenon DEF PhaseInv
<1>11. PinInv'
  BY <1>1, <1>4 DEF PinInv, One
<1>12. SpaceInv'
  BY Zenon, <1>1 DEF SpaceInv
<1> QED
  BY Zenon, <1>5, <1>6, <1>7, <1>8, <1>9, <1>10, <1>11, <1>12 DEF LInv

\* While the commit has not reached install_trans every logged block is pinned.
LEMMA NotInstalled ==
  ASSUME LInv, NEW p \in Proc, pc[p] \in {"write_log", "write_head"},
         NEW l \in {"write_log", "write_head"} \cup {"install"}, pc' = [pc EXCEPT ![p] = l],
         lh' = lh, refcnt' = refcnt, l = "install" => tail' = 0, tail' \in Nat
  PROVE  crashes = 0 => \A b \in Block : refcnt'[b] = One(Pinned(b)') % RefMod
<1>1. pc[p] \in Committing
  BY Zenon DEF Committing
<1>2. \A q \in Proc : (q # p => pc[q] \notin Committing) /\ \A b \in Block : ~Held(b)
  BY Zenon, <1>1, CommitFacts
<1>3. pc'[p] = l /\ \A q \in Proc \ {p} : pc'[q] = pc[q]
  BY Zenon DEF LInv, TypeOK
<1>4. \A i \in 1..Len(lh) : ~Installed(i) /\ ~Installed(i)'
  BY <1>2, <1>3 DEF Installed, Committing
<1>5. \A b \in Block : Pinned(b)' <=> Pinned(b)
  BY Zenon, <1>4 DEF Pinned
<1> QED
  BY <1>2, <1>5 DEF LInv, PinInv, One

LEMMA WriteLogStep == ASSUME LInv, NEW p \in Proc, write_log(p) PROVE LInv'
<1> DEFINE l == IF LastTurn THEN "write_head" ELSE "write_log"
<1>1. /\ pc[p] = "write_log" /\ pc' = [pc EXCEPT ![p] = l]
      /\ logd' = [logd EXCEPT ![tail + 1] = cache[lh[tail + 1]]]
      /\ tail' = IF tail + 1 >= Len(lh) THEN 0 ELSE tail + 1
  BY Zenon DEF write_log, Goto, AdvanceTail, LastTurn
<1>2. UNCHANGED <<disk, hdr, cache, refcnt, lh, outstanding, committing, buf,
                  wrote, boot, panicked, ops, crashes>>
  BY Zenon DEF write_log
<1>3. pc[p] \in Committing /\ l \in Committing /\ l \in {"write_log", "write_head"}
  BY Zenon, <1>1 DEF Committing
<1>4. LogState("write_log") /\ \A b \in Block : ~Held(b)
  BY <1>1, <1>3, CommitFacts, Zenon
<1>5. /\ tail \in Nat /\ Len(lh) \in Nat /\ tail < Len(lh) /\ Len(lh) <= LogSize
      /\ lh # <<>> /\ hdr = <<>> /\ lh \in Seq(Block) /\ tail' \in Nat
  BY <1>1, <1>4 DEF LInv, TypeOK, ListInv, LogState
<1>6. pc'[p] = l
  BY Zenon, <1>1 DEF LInv, TypeOK
<1>7. logd' \in [1..LogSize -> Val]
  <2>1. cache[lh[tail + 1]] \in Val
    BY <1>5 DEF LInv, TypeOK
  <2> QED
    BY <1>1, <2>1, Zenon DEF LInv, TypeOK
<1>8. Kept' => \A i \in 1..(tail + 1) : logd'[i] = cache[lh[i]]
  <2>1. \A i \in 1..LogSize : logd'[i] = IF i = tail + 1 THEN cache[lh[tail + 1]] ELSE logd[i]
    BY Zenon, <1>1 DEF LInv, TypeOK
  <2>2. Kept => \A i \in 1..tail : logd[i] = cache[lh[i]]
    BY Zenon, <1>4 DEF LogState
  <2> QED
    BY <1>2, <1>5, <2>1, <2>2, LogConstants DEF Kept
<1>9. LogState(pc[p])'
  BY <1>1, <1>2, <1>5, <1>6, <1>8 DEF LogState, LastTurn
<1>10. CacheInv'
  BY Zenon, <1>2, <1>4 DEF LInv, CacheInv, Logged
<1>11. crashes = 0 => \A b \in Block : refcnt'[b] = One(Pinned(b)') % RefMod
  BY <1>1, <1>2, <1>3, <1>5, NotInstalled, Zenon
<1> HIDE DEF l
<1>12. /\ disk' \in [Block -> Val] /\ cache' \in [Block -> Val] /\ refcnt' \in [Block -> 0..(RefMod - 1)]
       /\ lh' \in Seq(Block) /\ Distinct(lh') /\ Len(lh') <= LogSize
       /\ hdr' \in Seq(Block) /\ Distinct(hdr') /\ Len(hdr') <= LogSize
  BY Zenon, <1>2 DEF LInv, TypeOK, ListInv, Distinct
<1> QED
  BY <1>1, <1>2, <1>3, <1>5, <1>7, <1>9, <1>10, <1>11, <1>12, CommitControl, Zenon

LEMMA WriteHeadStep == ASSUME LInv, NEW p \in Proc, write_head(p) PROVE LInv'
<1>1. /\ pc[p] = "write_head" /\ pc' = [pc EXCEPT ![p] = "install"] /\ hdr' = lh
      /\ UNCHANGED <<disk, logd, cache, refcnt, lh, outstanding, committing, buf,
                     wrote, tail, boot, panicked, ops, crashes>>
  BY Zenon DEF write_head, Goto
<1>2. pc[p] \in Committing /\ "install" \in Committing
  BY Zenon, <1>1 DEF Committing
<1>3. LogState("write_head") /\ \A b \in Block : ~Held(b)
  BY <1>1, <1>2, CommitFacts, Zenon
<1>4. tail = 0 /\ lh # <<>> /\ lh \in Seq(Block) /\ pc'[p] = "install"
  BY Zenon, <1>1, <1>3 DEF LInv, TypeOK, LogState
<1>5. LogState(pc[p])'
  BY <1>1, <1>3, <1>4 DEF LogState, Kept
<1>6. CacheInv'
  BY Zenon, <1>1, <1>3 DEF LInv, CacheInv, Logged
<1>7. crashes = 0 => \A b \in Block : refcnt'[b] = One(Pinned(b)') % RefMod
  BY <1>1, <1>4, NotInstalled, Zenon
<1>8. /\ disk' \in [Block -> Val] /\ cache' \in [Block -> Val] /\ refcnt' \in [Block -> 0..(RefMod - 1)]
      /\ lh' \in Seq(Block) /\ Distinct(lh') /\ Len(lh') <= LogSize
      /\ hdr' \in Seq(Block) /\ Distinct(hdr') /\ Len(hdr') <= LogSize
      /\ logd' \in [1..LogSize -> Val] /\ tail' \in Nat
  BY Zenon, <1>1 DEF LInv, TypeOK, ListInv, Distinct
<1> QED
  BY <1>1, <1>2, <1>5, <1>6, <1>7, <1>8, CommitControl, Zenon

\* One block comes home: InstallBlock for the commit and for the recovery.
LEMMA BlockComesHome ==
  ASSUME TypeOK, ListInv, tail < Len(lh), InstallBlock
  PROVE  /\ lh[tail + 1] \in Block /\ logd[tail + 1] \in Val
         /\ tail' \in Nat /\ tail' = IF tail + 1 >= Len(lh) THEN 0 ELSE tail + 1
         /\ disk' \in [Block -> Val] /\ cache' \in [Block -> Val]
         /\ refcnt' \in [Block -> 0..(RefMod - 1)]
         /\ \A c \in Block \ {lh[tail + 1]} : disk'[c] = disk[c] /\ cache'[c] = cache[c] /\ refcnt'[c] = refcnt[c]
         /\ disk'[lh[tail + 1]] = logd[tail + 1] /\ cache'[lh[tail + 1]] = logd[tail + 1]
         /\ refcnt'[lh[tail + 1]] = (refcnt[lh[tail + 1]] + RefMod - 1) % RefMod
<1> DEFINE b == lh[tail + 1]
<1>1. /\ tail \in Nat /\ Len(lh) \in Nat /\ tail + 1 \in 1..Len(lh) /\ tail + 1 \in 1..LogSize
      /\ b \in Block /\ logd[tail + 1] \in Val
  BY LogConstants DEF TypeOK, ListInv
<1>2. (refcnt[b] + RefMod - 1) % RefMod \in 0..(RefMod - 1)
  BY <1>1, LogConstants DEF TypeOK
<1> QED
  BY <1>1, <1>2 DEF InstallBlock, AdvanceTail, LastTurn, bunpin, TypeOK

LEMMA InstallStep == ASSUME LInv, NEW p \in Proc, install_trans(p) PROVE LInv'
<1> DEFINE l == IF LastTurn THEN "erase" ELSE "install"
<1>1. pc[p] = "install" /\ pc' = [pc EXCEPT ![p] = l] /\ InstallBlock
  BY Zenon DEF install_trans, Goto
<1>2. UNCHANGED <<logd, hdr, lh, outstanding, committing, buf, wrote, boot, panicked, ops, crashes>>
  BY Zenon DEF install_trans
<1>3. pc[p] \in Committing /\ l \in Committing
  BY Zenon, <1>1 DEF Committing
<1>4. /\ LogState("install") /\ \A c \in Block : ~Held(c)
      /\ \A q \in Proc : q # p => pc[q] \notin Committing
  BY <1>1, <1>3, CommitFacts, Zenon
<1>5. /\ tail \in Nat /\ Len(lh) \in Nat /\ tail < Len(lh) /\ Len(lh) <= LogSize
      /\ lh # <<>> /\ hdr = lh /\ lh \in Seq(Block)
  BY <1>4 DEF LInv, TypeOK, ListInv, LogState
<1>6. PICK b \in Block, k \in Nat :
      /\ k = tail + 1 /\ b = lh[k] /\ tail' \in Nat /\ tail' = IF tail + 1 >= Len(lh) THEN 0 ELSE tail + 1
      /\ disk' \in [Block -> Val] /\ cache' \in [Block -> Val]
      /\ refcnt' \in [Block -> 0..(RefMod - 1)]
      /\ \A c \in Block \ {b} : disk'[c] = disk[c] /\ cache'[c] = cache[c] /\ refcnt'[c] = refcnt[c]
      /\ disk'[b] = logd[tail + 1] /\ cache'[b] = logd[tail + 1]
      /\ refcnt'[b] = (refcnt[b] + RefMod - 1) % RefMod
  <2>1. tail + 1 \in Nat /\ lh[tail + 1] \in Block
    BY <1>5
  <2> QED
    BY Zenon, <1>1, <1>5, <2>1, BlockComesHome DEF LInv
<1>7. /\ pc'[p] = l /\ \A q \in Proc \ {p} : pc'[q] = pc[q]
      /\ l = IF tail + 1 >= Len(lh) THEN "erase" ELSE "install"
  BY Zenon, <1>1 DEF LInv, TypeOK, LastTurn
<1>8. \A i \in 1..Len(lh) : lh[i] \in Block /\ (lh[i] = b <=> i = tail + 1)
  BY <1>5, <1>6 DEF LInv, ListInv, Distinct
<1> HIDE DEF l
<1>9. \A i \in 1..(tail + 1) : disk'[lh[i]] = logd[i] /\ cache'[lh[i]] = logd[i]
  <2>1. \A i \in 1..tail : disk[lh[i]] = logd[i] /\ cache[lh[i]] = logd[i]
    BY Zenon, <1>4 DEF LogState
  <2>2. \A i \in 1..tail : disk'[lh[i]] = logd[i] /\ cache'[lh[i]] = logd[i]
    <3>1. \A i \in 1..tail : lh[i] \in Block \ {b}
      BY <1>5, <1>8
    <3> QED
      BY <1>6, <2>1, <3>1
  <2>3. lh[tail + 1] = b
    BY Zenon, <1>6
  <2>4. \A i \in 1..(tail + 1) : i \in 1..tail \/ i = tail + 1
    BY <1>5
  <2> QED
    BY <1>6, <2>2, <2>3, <2>4, Zenon
<1>10. Kept' => \A i \in 1..Len(lh) : logd[i] = cache'[lh[i]]
  <2>1. Kept => \A i \in 1..Len(lh) : logd[i] = cache[lh[i]]
    BY Zenon, <1>4 DEF LogState
  <2> QED
    BY <1>2, <1>6, <1>8, <2>1, Zenon DEF Kept
<1>11. LogState(pc[p])'
  BY <1>2, <1>5, <1>6, <1>7, <1>9, <1>10 DEF LogState
<1>12. CacheInv'
  <2>1. b \in Logged
    <3>1. k \in 1..Len(lh)
      BY <1>5, <1>6
    <3> QED
      BY <1>6, <3>1, Zenon DEF Logged
  <2>2. \A c \in Block : c \notin Logged => cache[c] = disk[c]
    BY Zenon, <1>4 DEF LInv, CacheInv
  <2>3. Logged' = Logged
    BY Zenon, <1>2 DEF Logged
  <2> QED
    BY <1>6, <2>1, <2>2, <2>3, Zenon DEF CacheInv
<1>13. crashes = 0 => \A c \in Block : refcnt'[c] = One(Pinned(c)') % RefMod
  <2>1. \A i \in 1..Len(lh) : Installed(i) <=> i <= tail
    BY Zenon, <1>1, <1>4 DEF Installed, Committing
  <2>2. \A i \in 1..Len(lh) : Installed(i)' <=> i <= tail + 1
    <3>1. CASE tail + 1 >= Len(lh)
      BY <1>5, <1>7, <3>1 DEF Installed
    <3>2. CASE tail + 1 < Len(lh)
      <4>1. pc'[p] = "install" /\ tail' = tail + 1
        BY <1>5, <1>6, <1>7, <3>2
      <4>2. \A q \in Proc \ {p} : pc'[q] \notin {"install", "erase"}
        BY Zenon, <1>4, <1>7 DEF Committing
      <4> QED
        BY Zenon, <4>1, <4>2 DEF Installed
    <3> QED
      BY <1>5, <3>1, <3>2
  <2>3. Pinned(b) /\ ~Pinned(b)'
    <3>1. k \in 1..Len(lh) /\ ~Installed(k) /\ Installed(k)' /\ \A i \in 1..Len(lh) : lh[i] = b => i = k
      BY <1>5, <1>6, <1>8, <2>1, <2>2
    <3> QED
      BY Zenon, <1>2, <1>6, <3>1 DEF Pinned
  <2>4. \A c \in Block \ {b} : Pinned(c)' <=> Pinned(c)
    BY <1>2, <1>5, <1>8, <2>1, <2>2 DEF Pinned
  <2>5. crashes = 0 => \A c \in Block : refcnt[c] = One(Pinned(c)) % RefMod
    BY <1>4 DEF LInv, PinInv, One
  <2>6. crashes = 0 => refcnt'[b] = One(Pinned(b)') % RefMod
    <3>1. crashes = 0 => refcnt[b] = 1 % RefMod
      BY Zenon, <1>6, <2>3, <2>5 DEF One
    <3>2. ((1 % RefMod) + RefMod - 1) % RefMod = 0 % RefMod
      <4>1. 1 \in 1..2 /\ 1 - 1 = 0
        OBVIOUS
      <4> QED
        BY <4>1, PinDown, LogConstants
    <3> QED
      BY Zenon, <1>6, <2>3, <3>1, <3>2 DEF One
  <2>7. \A c \in Block \ {b} : One(Pinned(c)') = One(Pinned(c))
    BY Zenon, <2>4 DEF One
  <2>8. crashes = 0 => \A c \in Block \ {b} : refcnt'[c] = One(Pinned(c)') % RefMod
    BY <1>6, <2>5, <2>7
  <2> QED
    BY <2>6, <2>8, Zenon
<1>14. /\ lh' \in Seq(Block) /\ Distinct(lh') /\ Len(lh') <= LogSize
       /\ hdr' \in Seq(Block) /\ Distinct(hdr') /\ Len(hdr') <= LogSize
       /\ logd' \in [1..LogSize -> Val]
  BY Zenon, <1>2 DEF LInv, TypeOK, ListInv, Distinct
<1> QED
  BY <1>1, <1>2, <1>3, <1>6, <1>11, <1>12, <1>13, <1>14, CommitControl, Zenon

LEMMA EraseStep == ASSUME LInv, NEW p \in Proc, erase_head(p) PROVE LInv'
<1>1. /\ pc[p] = "erase" /\ pc' = [pc EXCEPT ![p] = "done"] /\ hdr' = <<>> /\ lh' = <<>>
      /\ UNCHANGED <<disk, logd, cache, refcnt, outstanding, committing, buf, wrote,
                     tail, boot, panicked, ops, crashes>>
  BY Zenon DEF erase_head, Goto
<1>2. pc[p] \in Committing /\ "done" \in Committing
  BY Zenon, <1>1 DEF Committing
<1>3. LogState("erase") /\ \A b \in Block : ~Held(b)
  BY <1>1, <1>2, CommitFacts, Zenon
<1>4. pc'[p] = "done" /\ tail = 0
  BY Zenon, <1>1, <1>3 DEF LInv, TypeOK, LogState
<1>5. LogState(pc[p])'
  BY Zenon, <1>1, <1>4 DEF LogState
<1>6. CacheInv'
  <2>1. \A b \in Logged : cache[b] = disk[b]
    BY <1>3 DEF LogState, Logged
  <2> QED
    BY Zenon, <1>1, <1>3, <2>1 DEF LInv, CacheInv
<1>7. crashes = 0 => \A b \in Block : refcnt'[b] = One(Pinned(b)') % RefMod
  <2>1. \A b \in Block : ~Pinned(b) /\ ~Pinned(b)'
    BY <1>1 DEF Pinned, Installed
  <2> QED
    BY <1>1, <1>3, <2>1 DEF LInv, PinInv, One
<1>8. /\ disk' \in [Block -> Val] /\ cache' \in [Block -> Val] /\ refcnt' \in [Block -> 0..(RefMod - 1)]
      /\ lh' \in Seq(Block) /\ Distinct(lh') /\ Len(lh') <= LogSize
      /\ hdr' \in Seq(Block) /\ Distinct(hdr') /\ Len(hdr') <= LogSize
      /\ logd' \in [1..LogSize -> Val] /\ tail' \in Nat
  BY <1>1, LogConstants DEF LInv, TypeOK, Distinct
<1> QED
  BY <1>1, <1>2, <1>5, <1>6, <1>7, <1>8, CommitControl, Zenon

LEMMA EndCommitStep == ASSUME LInv, NEW p \in Proc, end_commit(p) PROVE LInv'
<1>1. /\ pc[p] = "done" /\ committing' = FALSE /\ pc' = WakeLog([pc EXCEPT ![p] = "idle"])
      /\ UNCHANGED <<disk, logd, hdr, cache, refcnt, lh, outstanding, buf, wrote, tail, boot,
                     panicked, ops, crashes>>
  BY Zenon DEF end_commit, store
<1>2. pc[p] \in Committing
  BY Zenon, <1>1 DEF Committing
<1>3. /\ outstanding = 0 /\ boot = "up" /\ LogState("done")
      /\ \A q \in Proc : pc[q] \notin InOp /\ ~Holds(q) /\ (q # p => pc[q] \notin Committing)
  BY <1>1, <1>2, CommitFacts, Zenon
<1>4. /\ pc' \in [Proc -> PcValues] /\ pc'[p] = "idle"
      /\ \A q \in Proc \ {p} : pc'[q] = pc[q] \/ (pc[q] = "sleep" /\ pc'[q] = "begin")
  BY Zenon, <1>1 DEF LInv, TypeOK, PcValues, WakeLog
<1>5. \A q \in Proc : pc'[q] \notin InOp /\ pc'[q] \notin Committing /\ ~Holds(q)'
  BY Zenon, <1>3, <1>4 DEF InOp, Committing, Holds
<1>6. /\ Active' = Active /\ Active = {} /\ Logged' = Logged
      /\ \A b \in Block : ~Held(b) /\ ~Held(b)'
  BY <1>1, <1>3, <1>5, Zenon DEF Active, Logged, Held
<1>7. hdr = <<>> /\ lh = <<>> /\ tail = 0
  BY Zenon, <1>3 DEF LogState
<1>8. TypeOK'
  BY <1>1, <1>4, Zenon DEF LInv, TypeOK
<1>9. ListInv'
  BY Zenon, <1>1 DEF LInv, ListInv, Distinct
<1>10. BootInv'
  BY Zenon, <1>1, <1>3 DEF BootInv
<1>11. OpInv'
  BY <1>1, <1>5, <1>6, Zenon DEF LInv, OpInv
<1>12. BufInv'
  BY Zenon, <1>1, <1>3, <1>5 DEF LInv, BufInv
<1>13. CacheInv'
  BY <1>1, <1>6, Zenon DEF LInv, CacheInv
<1>14. PhaseInv'
  <2>1. LogState("none")'
    BY Zenon, <1>1, <1>7 DEF LogState
  <2> QED
    BY <1>5, <2>1, Zenon DEF PhaseInv
<1>15. PinInv'
  <2>1. \A b \in Block : ~Pinned(b) /\ ~Pinned(b)'
    BY <1>1, <1>7 DEF Pinned
  <2> QED
    BY Zenon, <1>1, <1>3, <1>6, <2>1 DEF LInv, PinInv, One
<1>16. SpaceInv'
  <2>1. Used' = Used
    BY Zenon, <1>6 DEF Used
  <2> QED
    BY Zenon, <1>1, <2>1 DEF LInv, SpaceInv
<1> QED
  BY Zenon, <1>8, <1>9, <1>10, <1>11, <1>12, <1>13, <1>14, <1>15, <1>16 DEF LInv

-----------------------------------------------------------------------------
(* The recovery, and the buffer cache. *)

\* The boot: nobody is in an operation.
Alone == /\ pc = [p \in Proc |-> "idle"] /\ outstanding = 0 /\ committing = FALSE
         /\ wrote = [p \in Proc |-> {}]

AloneShape ==
  /\ \A p \in Proc : pc[p] \notin InOp /\ pc[p] \notin Committing /\ ~Holds(p)
  /\ \A b \in Block : ~Held(b)
  /\ \A i \in 1..Len(lh) : ~Installed(i)

LEMMA AloneFacts == Alone => AloneShape
BY Zenon DEF Alone, AloneShape, InOp, Committing, Holds, Held, Installed

LEMMA Booting == ASSUME LInv, boot # "up" PROVE Alone /\ cache = disk
<1>1. pc = [p \in Proc |-> "idle"] /\ outstanding = 0 /\ committing = FALSE /\ cache = disk
  BY Zenon DEF LInv, BootInv
<1>2. \A p \in Proc : wrote[p] = {}
  BY Zenon, <1>1 DEF LInv, BufInv, InOp
<1>3. wrote = [p \in Proc |-> {}]
  BY Zenon, <1>2 DEF LInv, TypeOK
<1> QED
  BY Zenon, <1>1, <1>3 DEF Alone

LEMMA OpUnchanged ==
  ASSUME LInv, UNCHANGED <<pc, buf, wrote, outstanding, committing>>
  PROVE  OpInv' /\ BufInv'
BY Zenon DEF LInv, OpInv, BufInv, Active, Holds

\* A state of the boot, or the first one after it.
LEMMA BootControl ==
  ASSUME TypeOK', ListInv', BootInv', Alone', OpInv', BufInv', CacheInv', boot' = "up" => LogState("none")',
         crashes' = 0 => /\ boot' # "up" => hdr' = <<>>
                         /\ lh' = <<>> /\ \A b \in Block : refcnt'[b] = 0
  PROVE  LInv'
<1>1. AloneShape'
  BY AloneFacts, PTL
<1>2. PhaseInv'
  BY <1>1, Zenon DEF PhaseInv, AloneShape
<1>3. PinInv'
  <2>1. crashes' = 0 => \A b \in Block : ~Pinned(b)' /\ ~Held(b)'
    BY <1>1 DEF Pinned, AloneShape
  <2>2. 0 % RefMod = 0
    BY LogConstants
  <2> QED
    BY <2>1, <2>2 DEF PinInv, One
<1>4. SpaceInv'
  BY Zenon DEF SpaceInv, Alone
<1> QED
  BY Zenon, <1>2, <1>3, <1>4 DEF LInv

LEMMA ReadHeadStep == ASSUME LInv, read_head PROVE LInv'
<1>1. /\ boot = "read_head" /\ lh' = hdr /\ boot' = IF hdr = <<>> THEN "erase" ELSE "install"
      /\ UNCHANGED <<disk, logd, hdr, cache, refcnt, outstanding, committing, pc, buf, wrote,
                     tail, panicked, ops, crashes>>
  BY Zenon DEF read_head, store
<1>2. Alone /\ cache = disk /\ lh = <<>> /\ tail = 0 /\ ~panicked
  BY <1>1, Booting, Zenon DEF LInv, BootInv
<1>3. TypeOK'
  BY Zenon, <1>1 DEF LInv, TypeOK
<1>4. ListInv'
  BY Zenon, <1>1 DEF LInv, ListInv, Distinct
<1>5. Alone'
  BY Zenon, <1>1, <1>2 DEF Alone
<1>6. BootInv'
  <2>1. hdr # <<>> => Len(hdr) > 0
    BY DEF LInv, TypeOK
  <2> QED
    BY <1>1, <1>2, <2>1 DEF BootInv, Alone
<1>7. CacheInv'
  BY Zenon, <1>1, <1>2 DEF CacheInv
<1>8. crashes = 0 => hdr = <<>> /\ \A b \in Block : refcnt[b] = 0
  <2>1. AloneShape
    BY Zenon, <1>2, AloneFacts
  <2>2. \A b \in Block : ~Held(b) /\ ~Pinned(b)
    BY <1>2, <2>1 DEF AloneShape, Pinned
  <2> QED
    BY <1>1, <2>2, LogConstants DEF LInv, PinInv, One
<1>9. OpInv' /\ BufInv'
  BY Zenon, <1>1, OpUnchanged
<1> QED
  BY Zenon, <1>1, <1>3, <1>4, <1>5, <1>6, <1>7, <1>8, <1>9, BootControl

LEMMA RecoverInstallStep == ASSUME LInv, recover_install PROVE LInv'
<1>1. /\ boot = "install" /\ InstallBlock /\ boot' = IF LastTurn THEN "erase" ELSE "install"
      /\ UNCHANGED <<logd, hdr, lh, outstanding, committing, pc, buf, wrote, panicked, ops, crashes>>
  BY Zenon DEF recover_install
<1>2. /\ Alone /\ cache = disk /\ lh = hdr /\ tail < Len(lh) /\ ~panicked
      /\ \A i \in 1..tail : disk[lh[i]] = logd[i]
  BY <1>1, Booting, Zenon DEF LInv, BootInv
<1>3. tail \in Nat /\ lh \in Seq(Block) /\ Len(lh) \in Nat /\ crashes # 0
  BY <1>1, <1>2 DEF LInv, TypeOK, PinInv
<1>4. PICK b \in Block, k \in Nat :
      /\ k = tail + 1 /\ b = lh[k] /\ tail' \in Nat /\ tail' = IF tail + 1 >= Len(lh) THEN 0 ELSE tail + 1
      /\ disk' \in [Block -> Val] /\ cache' \in [Block -> Val]
      /\ refcnt' \in [Block -> 0..(RefMod - 1)]
      /\ \A c \in Block \ {b} : disk'[c] = disk[c] /\ cache'[c] = cache[c]
      /\ disk'[b] = logd[k] /\ cache'[b] = logd[k]
  <2>1. tail + 1 \in Nat /\ lh[tail + 1] \in Block
    BY <1>2, <1>3
  <2> QED
    BY Zenon, <1>1, <1>2, <2>1, BlockComesHome DEF LInv
<1>5. \A i \in 1..k : disk'[lh[i]] = logd[i]
  <2>1. \A i \in 1..tail : lh[i] \in Block \ {b}
    BY <1>2, <1>3, <1>4 DEF LInv, ListInv, Distinct
  <2>2. \A i \in 1..k : i \in 1..tail \/ i = k
    BY <1>3, <1>4
  <2>3. ASSUME NEW i \in 1..tail PROVE disk'[lh[i]] = logd[i]
    BY Zenon, <1>2, <1>4, <2>1
  <2> QED
    BY Zenon, <1>4, <2>2, <2>3
<1>6. cache' = disk'
  BY <1>2, <1>4
<1>7. TypeOK'
  BY Zenon, <1>1, <1>4 DEF LInv, TypeOK
<1>8. ListInv'
  BY Zenon, <1>1 DEF LInv, ListInv, Distinct
<1>9. Alone'
  BY <1>1, <1>2, Zenon DEF Alone
<1>10. BootInv'
  <2>1. CASE tail + 1 >= Len(lh)
    <3>1. boot' = "erase" /\ tail' = 0 /\ k = Len(lh)
      BY <1>1, <1>2, <1>3, <1>4, <2>1 DEF LastTurn
    <3> QED
      BY Zenon, <1>1, <1>2, <1>5, <1>6, <3>1 DEF BootInv, Alone
  <2>2. CASE tail + 1 < Len(lh)
    <3>1. boot' = "install" /\ tail' = k /\ k < Len(lh)
      BY <1>1, <1>3, <1>4, <2>2 DEF LastTurn
    <3> QED
      BY Zenon, <1>1, <1>2, <1>5, <1>6, <3>1 DEF BootInv, Alone
  <2> QED
    BY <1>3, <2>1, <2>2
<1>11. CacheInv'
  BY Zenon, <1>6 DEF CacheInv
<1>12. OpInv' /\ BufInv'
  BY Zenon, <1>1, OpUnchanged
<1> QED
  BY Zenon, <1>1, <1>3, <1>7, <1>8, <1>9, <1>10, <1>11, <1>12, BootControl

LEMMA RecoverEraseStep == ASSUME LInv, recover_erase PROVE LInv'
<1>1. /\ boot = "erase" /\ lh' = <<>> /\ hdr' = <<>> /\ boot' = "up"
      /\ UNCHANGED <<disk, logd, cache, refcnt, outstanding, committing, pc, buf,
                     wrote, tail, panicked, ops, crashes>>
  BY Zenon DEF recover_erase
<1>2. Alone /\ cache = disk /\ tail = 0
  BY <1>1, Booting, Zenon DEF LInv, BootInv
<1>3. TypeOK'
  BY <1>1 DEF LInv, TypeOK
<1>4. ListInv'
  BY <1>1, LogConstants DEF ListInv, Distinct
<1>5. Alone'
  BY Zenon, <1>1, <1>2 DEF Alone
<1>6. BootInv'
  BY Zenon, <1>1 DEF BootInv
<1>7. CacheInv'
  BY Zenon, <1>1, <1>2 DEF CacheInv
<1>8. crashes = 0 => \A b \in Block : refcnt[b] = 0
  <2>1. AloneShape
    BY Zenon, <1>2, AloneFacts
  <2>2. crashes = 0 => \A b \in Block : ~Held(b) /\ ~Pinned(b)
    BY <1>1, <2>1 DEF AloneShape, Pinned, LInv, PinInv
  <2> QED
    BY <1>1, <2>2, LogConstants DEF LInv, PinInv, One
<1>9. LogState("none")'
  BY Zenon, <1>1, <1>2 DEF LogState
<1>10. OpInv' /\ BufInv'
  BY Zenon, <1>1, OpUnchanged
<1> QED
  BY Zenon, <1>1, <1>3, <1>4, <1>5, <1>6, <1>7, <1>8, <1>9, <1>10, BootControl

\* A buffer that is recycled holds what the disk holds, as long as the pins count.
LEMMA EvictKeeps == ASSUME LInv, Kept, NEW b \in Block, Evict(b) PROVE cache' = cache
<1>1. /\ boot = "up" /\ (crashes = 0 \/ b \notin Logged \/ EvictLogged) /\ refcnt[b] = 0 /\ ~Held(b)
      /\ cache' = [cache EXCEPT ![b] = disk[b]]
  BY Zenon DEF Evict, Running
<1>2. CASE b \notin Logged
  BY Zenon, <1>1, <1>2 DEF LInv, CacheInv, TypeOK
<1>3. CASE b \in Logged
  <2>1. crashes = 0
    BY Zenon, <1>1, <1>3 DEF Kept
  <2>2. ~Pinned(b)
    <3>1. refcnt[b] = One(Pinned(b)) % RefMod
      BY <1>1, <2>1 DEF LInv, PinInv, One
    <3>2. 1 % RefMod = 1
      BY LogConstants
    <3> QED
      BY <1>1, <3>1, <3>2 DEF One
  <2>3. PICK i \in 1..Len(lh) : lh[i] = b
    BY Zenon, <1>3 DEF Logged
  <2>4. PICK p \in Proc : pc[p] = "erase" \/ (pc[p] = "install" /\ i <= tail)
    BY <2>2, <2>3, Zenon DEF Pinned, Installed
  <2>5. LogState(pc[p])
    BY Zenon, <2>4 DEF LInv, PhaseInv, Committing
  <2>6. disk[b] = logd[i] /\ cache[b] = logd[i]
    <3>1. CASE pc[p] = "erase"
      BY Zenon, <2>3, <2>5, <3>1 DEF LogState
    <3>2. CASE pc[p] = "install" /\ i <= tail
      <4>1. i \in 1..tail
        BY <3>2 DEF LInv, TypeOK
      <4> QED
        BY Zenon, <2>3, <2>5, <3>2, <4>1 DEF LogState
    <3> QED
      BY Zenon, <2>4, <3>1, <3>2
  <2> QED
    BY Zenon, <1>1, <2>6 DEF LInv, TypeOK
<1> QED
  BY Zenon, <1>2, <1>3

LEMMA EvictStep == ASSUME LInv, NEW b \in Block, Evict(b) PROVE LInv'
<1>1. /\ boot = "up" /\ (crashes = 0 \/ b \notin Logged \/ EvictLogged) /\ refcnt[b] = 0 /\ ~Held(b)
      /\ cache' = [cache EXCEPT ![b] = disk[b]]
      /\ UNCHANGED <<disk, logd, hdr, refcnt, lh, outstanding, committing, pc, buf, wrote,
                     tail, boot, panicked, ops, crashes>>
  BY Zenon DEF Evict, Running, store
<1>2. pc' \in [Proc -> PcValues] /\ \A q \in Proc : SameSide(q)
  BY Zenon, <1>1 DEF LInv, TypeOK, SameSide
<1>3. CASE Kept
  <2>1. cache' = cache
    BY Zenon, <1>3, EvictKeeps
  <2> QED
    BY Zenon, <1>1, <1>2, <2>1, SameSideStep DEF store, LInv, TypeOK
<1>4. CASE ~Kept
  <2>1. Logged' = Logged /\ \A c \in Block : Held(c)' <=> Held(c)
    BY Zenon, <1>1 DEF Logged, Held, Holds
  <2>2. cache' \in [Block -> Val] /\ cache'[b] = disk[b] /\ \A c \in Block \ {b} : cache'[c] = cache[c]
    BY Zenon, <1>1 DEF LInv, TypeOK
  <2>3. CacheInv'
    BY Zenon, <1>1, <2>1, <2>2 DEF LInv, CacheInv
  <2>4. PhaseInv'
    <3>1. \A i \in 1..Len(lh) : lh[i] \in Block
      BY DEF LInv, TypeOK
    <3>2. ~Kept'
      BY Zenon, <1>1, <1>4 DEF Kept
    <3>3. ASSUME NEW l, LogState(l) PROVE LogState(l)'
      <4>1. l = "erase" => \A i \in 1..Len(lh) : disk[lh[i]] = logd[i] /\ cache'[lh[i]] = logd[i]
        BY Zenon, <2>2, <3>1, <3>3 DEF LogState
      <4>2. l = "install" => \A i \in 1..tail : disk[lh[i]] = logd[i] /\ cache'[lh[i]] = logd[i]
        <5>1. l = "install" => \A i \in 1..tail : i \in 1..Len(lh)
          BY <3>3 DEF LogState, LInv, TypeOK
        <5> QED
          BY Zenon, <2>2, <3>1, <3>3, <5>1 DEF LogState
      <4>3. UNCHANGED <<disk, logd, hdr, lh, tail>>
        BY <1>1, Zenon
      <4> QED
        BY <3>2, <3>3, <4>1, <4>2, <4>3, Zenon DEF LogState
    <3> QED
      BY <1>1, <3>3, Zenon DEF LInv, PhaseInv
  <2> QED
    BY Zenon, <1>1, <1>2, <2>2, <2>3, <2>4, SameSideStep DEF store, LInv, TypeOK
<1> QED
  BY Zenon, <1>3, <1>4

-----------------------------------------------------------------------------
(* The refinement: each step is one of AtomicDisk's, or changes nothing there. *)

Cur == IF boot = "up" THEN cache ELSE Recovered
Refines == [AD!AdNext]_(AD!adVars)

LEMMA AdStutter == ASSUME Cur' = Cur, Recovered' = Recovered, Active' = Active PROVE Refines
BY Zenon DEF Refines, AD!adVars, Cur, Active

\* Nothing of this concerns the disk.
LEMMA AdQuiet ==
  ASSUME UNCHANGED <<disk, logd, hdr, cache, boot>>
  PROVE  Cur' = Cur /\ Recovered' = Recovered
BY Zenon DEF Cur, Recovered

\* What the header names comes from the log, the rest from its home location.
FromLogOrHome ==
  /\ Recovered \in [Block -> Val]
  /\ \A i \in 1..Len(hdr) : hdr[i] \in Block /\ Recovered[hdr[i]] = logd[i]
  /\ \A b \in Block : (\A i \in 1..Len(hdr) : hdr[i] # b) => Recovered[b] = disk[b]
LEMMA RecoveredIs == TypeOK /\ ListInv => FromLogOrHome
<1> SUFFICES ASSUME TypeOK, ListInv PROVE FromLogOrHome
  BY Zenon
<1> DEFINE at(b) == CHOOSE i \in 1..Len(hdr) : hdr[i] = b
<1>1. \A b \in Block : Recovered[b] = IF \E i \in 1..Len(hdr) : hdr[i] = b THEN logd[at(b)] ELSE disk[b]
  BY Zenon DEF Recovered
<1>2. \A b \in Block : (\E i \in 1..Len(hdr) : hdr[i] = b) => at(b) \in 1..Len(hdr) /\ hdr[at(b)] = b
  BY Zenon
<1> HIDE DEF at
<1>3. \A i \in 1..Len(hdr) : hdr[i] \in Block /\ i \in 1..LogSize
  BY LogConstants DEF TypeOK, ListInv
<1>4. ASSUME NEW i \in 1..Len(hdr) PROVE at(hdr[i]) = i
  <2>1. at(hdr[i]) \in 1..Len(hdr) /\ hdr[at(hdr[i])] = hdr[i]
    BY Zenon, <1>2, <1>3
  <2> QED
    BY Zenon, <2>1 DEF ListInv, Distinct
<1>5. \A i \in 1..Len(hdr) : Recovered[hdr[i]] = logd[i]
  BY <1>1, <1>3, <1>4, Zenon
<1>6. \A b \in Block : (\A i \in 1..Len(hdr) : hdr[i] # b) => Recovered[b] = disk[b]
  BY <1>1, Zenon
<1>7. \A b \in Block : Recovered[b] \in Val
  <2>1. \A b \in Block : disk[b] \in Val
    BY Zenon DEF TypeOK
  <2>2. \A i \in 1..LogSize : logd[i] \in Val
    BY Zenon DEF TypeOK
  <2> QED
    BY <1>1, <1>2, <1>3, <2>1, <2>2, Zenon
<1>8. Recovered = [b \in Block |-> Recovered[b]]
  BY Zenon DEF Recovered
<1>9. Recovered \in [Block -> Val]
  BY <1>7, <1>8, Zenon
<1> QED
  BY <1>3, <1>5, <1>6, <1>9, Zenon DEF FromLogOrHome

\* With an empty header a restart finds the disk as it is.
EmptyHeader == hdr = <<>> => Recovered = disk
LEMMA EmptyRecovers == TypeOK => EmptyHeader
BY DEF EmptyHeader, Recovered, TypeOK

\* Once every block of the header is home the header adds nothing.
LEMMA AllHome ==
  ASSUME TypeOK, ListInv, \A i \in 1..Len(hdr) : disk[hdr[i]] = logd[i]
  PROVE  Recovered = disk
<1>1. /\ Recovered \in [Block -> Val]
      /\ \A i \in 1..Len(hdr) : hdr[i] \in Block /\ Recovered[hdr[i]] = logd[i]
      /\ \A b \in Block : (\A i \in 1..Len(hdr) : hdr[i] # b) => Recovered[b] = disk[b]
  BY Zenon, RecoveredIs DEF FromLogOrHome
<1>2. \A b \in Block : Recovered[b] = disk[b]
  BY <1>1
<1> QED
  BY <1>1, <1>2 DEF TypeOK

\* Nor does installing a block the header names change what a restart finds.
LEMMA InstallKeeps ==
  ASSUME TypeOK, ListInv, hdr = lh, tail < Len(lh), InstallBlock, UNCHANGED <<logd, hdr>>
  PROVE  Recovered' = Recovered
<1>1. /\ lh[tail + 1] \in Block
      /\ \A c \in Block \ {lh[tail + 1]} : disk'[c] = disk[c]
  BY Zenon, BlockComesHome
<1>2. \A c \in Block : disk'[c] = disk[c] \/ \E i \in 1..Len(hdr) : hdr[i] = c
  <2>1. tail + 1 \in 1..Len(hdr)
    BY DEF TypeOK
  <2> QED
    BY <1>1, <2>1, Zenon
<1>3. Recovered' = [b \in Block |-> IF \E i \in 1..Len(hdr) : hdr[i] = b
                                    THEN logd[CHOOSE i \in 1..Len(hdr) : hdr[i] = b]
                                    ELSE disk'[b]]
  BY Zenon DEF Recovered
<1> QED
  BY <1>2, <1>3, Zenon DEF Recovered

LEMMA OpRefines ==
  ASSUME LInv, NEW p \in Proc, Call(p) \/ OpStep(p) PROVE Refines
<1>1. CASE Call(p)
  <2>1. Active' = Active
    BY Zenon, <1>1 DEF Call, Goto, Active, InOp, LInv, TypeOK
  <2> QED
    BY Zenon, <1>1, <2>1, AdQuiet, AdStutter DEF Call, store
<1>2. CASE begin_op(p)
  <2>1. Cur' = Cur /\ Recovered' = Recovered
    BY Zenon, <1>2, AdQuiet DEF begin_op, store
  <2>2. CASE MustWait
    <3>1. Active' = Active
      BY Zenon, <1>2, <2>2 DEF begin_op, Goto, Active, InOp, LInv, TypeOK
    <3> QED
      BY Zenon, <2>1, <3>1, AdStutter
  <2>3. CASE ~MustWait
    <3>1. Active' = Active \cup {p} /\ p \notin Active
      BY Zenon, <1>2, <2>3 DEF begin_op, Goto, Active, InOp, LInv, TypeOK
    <3>2. AD!Begin(p)
      BY Zenon, <2>1, <3>1 DEF AD!Begin, Cur, Active
    <3> QED
      BY Zenon, <3>2 DEF Refines, AD!AdNext
  <2> QED
    BY Zenon, <2>2, <2>3
<1>3. ASSUME NEW b \in Block, NEW v \in Val, Modify(p, b, v) PROVE Refines
  <2>1. boot = "up" /\ boot' = boot /\ cache' = [cache EXCEPT ![b] = v] /\ UNCHANGED <<disk, logd, hdr>>
    BY Zenon, <1>3 DEF Modify, Running, store
  <2>2. Active' = Active /\ p \in Active
    BY Zenon, <1>3 DEF Modify, Goto, Active, InOp, LInv, TypeOK
  <2>3. Recovered' = Recovered
    BY Zenon, <2>1 DEF Recovered
  <2>4. AD!Write(p, b, v)
    BY <2>1, <2>2, <2>3, Zenon DEF AD!Write, Active
  <2> QED
    BY Zenon, <2>4 DEF Refines, AD!AdNext
<1>4. ASSUME Running, Panic PROVE Refines
  <2>1. Active' = Active
    BY Zenon, <1>4 DEF Panic, mem, Active
  <2> QED
    BY Zenon, <1>4, <2>1, AdQuiet, AdStutter DEF Panic, mem, store
<1>5. CASE log_write_check(p)
  <2>1. CASE ~Panic
    <3>1. UNCHANGED <<disk, logd, hdr, cache, boot>> /\ Goto(p, "append") /\ pc[p] = "log_write"
      BY Zenon, <1>5, <2>1 DEF log_write_check, store
    <3>2. Active' = Active
      BY Zenon, <3>1 DEF Goto, Active, InOp, LInv, TypeOK
    <3> QED
      BY Zenon, <3>1, <3>2, AdQuiet, AdStutter
  <2> QED
    BY Zenon, <1>4, <1>5, <2>1 DEF log_write_check
<1>6. CASE log_write(p)
  <2>1. UNCHANGED <<disk, logd, hdr, cache, boot>> /\ Goto(p, "op") /\ pc[p] = "append"
    BY Zenon, <1>6 DEF log_write, store
  <2>2. Active' = Active
    BY Zenon, <2>1 DEF Goto, Active, InOp, LInv, TypeOK
  <2> QED
    BY Zenon, <2>1, <2>2, AdQuiet, AdStutter
<1>7. CASE end_op(p)
  <2>1. ~committing /\ pc[p] = "op"
    BY Zenon, <1>7, OpFacts DEF end_op, Running, InOp
  <2>2. /\ UNCHANGED <<disk, logd, hdr, cache, boot>>
        /\ pc' = IF outstanding = 1
                 THEN [pc EXCEPT ![p] = IF lh = <<>> THEN "done" ELSE "write_log"]
                 ELSE WakeLog([pc EXCEPT ![p] = "idle"])
    BY Zenon, <1>7, <2>1 DEF end_op, store
  <2>3. Active' = Active \ {p} /\ p \in Active
    <3>1. CASE outstanding = 1
      BY Zenon, <2>1, <2>2, <3>1 DEF Active, InOp, LInv, TypeOK
    <3>2. CASE outstanding # 1
      BY Zenon, <2>1, <2>2, <3>2 DEF Active, InOp, LInv, TypeOK, WakeLog
    <3> QED
      BY Zenon, <3>1, <3>2
  <2>4. Cur' = Cur /\ Recovered' = Recovered
    BY Zenon, <2>2, AdQuiet
  <2>5. AD!End(p)
    BY Zenon, <2>3, <2>4 DEF AD!End, Cur, Active
  <2> QED
    BY Zenon, <2>5 DEF Refines, AD!AdNext
<1> QED
  BY <1>1, <1>2, <1>3, <1>5, <1>6, <1>7, Zenon DEF OpStep

LEMMA CommitRefines ==
  ASSUME LInv, LInv', Kept, NEW p \in Proc, CommitStep(p) PROVE Refines
<1>1. pc[p] \in Committing
  BY Zenon DEF CommitStep, write_log, write_head, install_trans, erase_head, end_commit, Committing
<1>2. /\ LogState(pc[p]) /\ boot = "up" /\ \A b \in Block : ~Held(b)
      /\ \A q \in Proc : pc[q] \notin InOp
  BY Zenon, <1>1, CommitFacts
<1>3. Active = {}
  BY Zenon, <1>2 DEF Active
<1>4. Active' = {}
  <2>1. ASSUME NEW l \in Committing, Goto(p, l) PROVE Active' = {}
    BY Zenon, <1>2, <2>1 DEF Goto, Active, InOp, Committing, LInv, TypeOK
  <2>2. CASE end_commit(p)
    BY Zenon, <1>2, <2>2 DEF end_commit, WakeLog, Active, InOp, LInv, TypeOK
  <2> QED
    BY Zenon, <2>1, <2>2 DEF CommitStep, write_log, write_head, install_trans, erase_head, Committing
<1>5. EmptyHeader /\ EmptyHeader'
  BY EmptyRecovers, PTL DEF LInv
<1>6. CASE write_log(p)
  <2>1. hdr = <<>> /\ hdr' = <<>> /\ UNCHANGED <<disk, cache, boot>>
    BY Zenon, <1>2, <1>6 DEF write_log, LogState
  <2>2. Recovered' = Recovered /\ Cur' = Cur
    BY Zenon, <1>2, <1>5, <2>1 DEF EmptyHeader, Cur
  <2> QED
    BY Zenon, <1>3, <1>4, <2>2, AdStutter
<1>7. CASE write_head(p)
  <2>1. hdr' = lh /\ UNCHANGED <<disk, logd, cache, lh, boot>> /\ LogState("write_head")
    BY Zenon, <1>2, <1>7 DEF write_head
  <2>2. /\ Recovered' \in [Block -> Val]
        /\ \A i \in 1..Len(hdr') : hdr'[i] \in Block /\ Recovered'[hdr'[i]] = logd'[i]
        /\ \A b \in Block : (\A i \in 1..Len(hdr') : hdr'[i] # b) => Recovered'[b] = disk'[b]
    <3>1. FromLogOrHome'
      BY RecoveredIs, PTL DEF LInv
    <3> QED
      BY Zenon, <3>1 DEF FromLogOrHome
  <2>3. \A i \in 1..Len(lh) : logd[i] = cache[lh[i]]
    BY Zenon, <2>1 DEF LogState
  <2>4. \A b \in Block : b \notin Logged => cache[b] = disk[b]
    BY <1>2, Zenon DEF LInv, CacheInv
  <2>5. \A b \in Block : Recovered'[b] = cache[b]
    BY <2>1, <2>2, <2>3, <2>4 DEF Logged
  <2>6. Recovered' = cache
    BY <2>2, <2>5 DEF LInv, TypeOK
  <2>7. AD!Commit
    BY <1>2, <1>3, <1>4, <2>1, <2>6, Zenon DEF AD!Commit, Active
  <2> QED
    BY Zenon, <2>7 DEF Refines, AD!AdNext
<1>8. CASE install_trans(p)
  <2>1. /\ InstallBlock /\ UNCHANGED <<logd, hdr, boot>> /\ LogState("install")
    BY Zenon, <1>2, <1>8 DEF install_trans
  <2>2. hdr = lh /\ tail < Len(lh) /\ tail + 1 \in 1..Len(lh)
    BY <2>1 DEF LogState, LInv, TypeOK
  <2>3. Recovered' = Recovered
    BY Zenon, <2>1, <2>2, InstallKeeps DEF LInv
  <2>4. cache' = [cache EXCEPT ![lh[tail + 1]] = logd[tail + 1]]
    BY Zenon, <2>1 DEF InstallBlock
  <2>5. logd[tail + 1] = cache[lh[tail + 1]]
    BY Zenon, <2>1, <2>2 DEF LogState
  <2>6. cache' = cache
    BY Zenon, <2>4, <2>5 DEF LInv, TypeOK
  <2> QED
    BY Zenon, <1>3, <1>4, <2>1, <2>3, <2>6, AdStutter DEF Cur
<1>9. CASE erase_head(p)
  <2>1. hdr' = <<>> /\ UNCHANGED <<disk, cache, boot>> /\ LogState("erase")
    BY Zenon, <1>2, <1>9 DEF erase_head
  <2>2. Recovered = disk
    BY Zenon, <2>1, AllHome DEF LogState, LInv
  <2> QED
    BY Zenon, <1>2, <1>3, <1>4, <1>5, <2>1, <2>2, AdStutter DEF EmptyHeader, Cur
<1>10. CASE end_commit(p)
  BY Zenon, <1>3, <1>4, <1>10, AdQuiet, AdStutter DEF end_commit, store
<1> QED
  BY Zenon, <1>6, <1>7, <1>8, <1>9, <1>10 DEF CommitStep

LEMMA RecoverRefines == ASSUME LInv, LInv', Recover PROVE Refines
<1>1. boot # "up"
  BY Zenon DEF Recover, read_head, recover_install, recover_erase
<1>2. Alone /\ cache = disk
  BY Zenon, <1>1, Booting
<1>3. Active' = Active
  BY Zenon DEF Recover, read_head, recover_install, recover_erase, Active
<1>4. CASE read_head
  <2>1. UNCHANGED <<disk, logd, hdr>> /\ boot' # "up"
    BY Zenon, <1>4 DEF read_head, store
  <2>2. Recovered' = Recovered
    BY Zenon, <2>1 DEF Recovered
  <2> QED
    BY Zenon, <1>1, <1>3, <2>1, <2>2, AdStutter DEF Cur
<1>5. CASE recover_install
  <2>1. boot = "install" /\ InstallBlock /\ boot' # "up" /\ UNCHANGED <<logd, hdr>>
    BY Zenon, <1>5 DEF recover_install
  <2>2. hdr = lh /\ tail < Len(lh)
    BY Zenon, <2>1 DEF LInv, BootInv
  <2>3. Recovered' = Recovered
    BY Zenon, <2>1, <2>2, InstallKeeps DEF LInv
  <2> QED
    BY Zenon, <1>1, <1>3, <2>1, <2>3, AdStutter DEF Cur
<1>6. CASE recover_erase
  <2>1. boot = "erase" /\ boot' = "up" /\ hdr' = <<>> /\ UNCHANGED <<disk, cache>>
    BY Zenon, <1>6 DEF recover_erase
  <2>2. Recovered = disk
    BY Zenon, <2>1, AllHome DEF LInv, BootInv
  <2>3. Recovered' = disk
    <3>1. EmptyHeader'
      BY EmptyRecovers, PTL DEF LInv
    <3> QED
      BY Zenon, <2>1, <3>1 DEF EmptyHeader
  <2> QED
    BY Zenon, <1>1, <1>2, <1>3, <2>1, <2>2, <2>3, AdStutter DEF Cur
<1> QED
  BY Zenon, <1>4, <1>5, <1>6 DEF Recover
=============================================================================
