-------------------------------- MODULE MCFs --------------------------------
(* Instances for TLC of four layers of the file system that share no state:
   names, inodes, the buffer cache and the disk driver.  A behaviour runs one of them, `part'.
   The variables of the others keep their initial values, or stay Unset. *)
EXTENDS Bcache, Virtio, Sequences, TLC

CONSTANTS n1, n2, MaxCrash,
          NBlocks, NCache, NDirect, NIndirect, BSize, Counts   \* Inode

VARIABLES part,
  cur, durable, active, th, calls, crashes,     \* Inode and Names
  ic, dirlock, file, gen, orphans,              \* Inode
  ref, lock, cwd, lost, stale                   \* Names

\* mkfs was given one file, of two blocks.
I == INSTANCE Inode WITH
       Name <- {n1}, NInodes <- 3, MaxCalls <- 4, Images <- {<<[name |-> n1, size |-> 6]>>}
N == INSTANCE Names WITH
       Name <- {n1, n2}, NInodes <- 4, MaxCalls <- 3, Dirs <- <<n1, n2>>,
       Paths <- {[abs |-> TRUE, elems |-> q] : q \in {<<n1>>, <<n1, n2>>, <<n1, n2, "..", n1>>}}
                  \cup {[abs |-> FALSE, elems |-> <<x>>] : x \in {n2, ".."}}

ASSUME FsConstants ==
  /\ I!MkfsConstants /\ I!InodeConstants /\ N!NamesConstants
  /\ BcacheConstants /\ VirtioConstants

calling == <<cur, durable, active, th, calls, crashes>>
inode == <<ic, dirlock, file, gen, orphans>>
names == <<ref, lock, cwd, lost, stale>>
fsVars == <<part, calling, inode, names, bvars, vars>>

Unset == 0
NoCalls == /\ cur = Unset /\ durable = Unset /\ active = Unset
           /\ th = Unset /\ calls = Unset /\ crashes = Unset
NoInode == ic = Unset /\ dirlock = Unset /\ file = Unset /\ gen = Unset /\ orphans = Unset
NoNames == ref = Unset /\ lock = Unset /\ cwd = Unset /\ lost = Unset /\ stale = Unset
OneDisk == disk = [k \in DiskBlock |-> CHOOSE v \in Val : TRUE]

FsInit ==
  /\ BInit /\ Init
  /\ \/ part = "inode" /\ I!Init /\ NoNames /\ OneDisk
     \/ part = "names" /\ N!Init /\ NoInode /\ OneDisk
     \/ part = "bcache" /\ NoCalls /\ NoInode /\ NoNames
     \/ part = "virtio" /\ NoCalls /\ NoInode /\ NoNames /\ OneDisk

FsNext ==
  \/ part = "inode" /\ I!Next /\ UNCHANGED <<part, names, bvars, vars>>
  \/ part = "names" /\ N!Next /\ UNCHANGED <<part, inode, bvars, vars>>
  \/ part = "bcache" /\ BNext /\ UNCHANGED <<part, calling, inode, names, vars>>
  \/ part = "virtio" /\ Next /\ UNCHANGED <<part, calling, inode, names, bvars>>

FsSpec == FsInit /\ [][FsNext]_fsVars

Symmetry == Permutations(Proc)

\* Ring slots of the disk outside the window between consumer and producer are
\* written before they are read again: states that differ only there are the same.
Window(ring, from, to) ==
  [k \in 0..(NUM - 1) |-> IF k < (to + UMod - from) % UMod
                          THEN ring[(from + k) % NUM] ELSE None]
View ==
  <<part, calling, inode, names, bvars,
    free, next, info, Window(avail, devIdx, availIdx), availIdx, devIdx,
    Window(used, usedIdx, usedIdx + ((usedId + UMod - usedIdx) % NUM)),
    usedId, usedIdx, busy, taken, status, pc, head, intr, done, panicked>>

-----------------------------------------------------------------------------
(* The properties of Inode and Names; those of Bcache and Virtio are theirs. *)

\* Block map and bitmap agree (Inode).
BlocksExact == part = "inode" => I!BlocksExact
\* An open file keeps its inode (Inode).
OpenFileLives == part = "inode" => I!OpenFileLives
\* The inode cache agrees with the disk (Inode).
CacheCoherent == part = "inode" => I!CacheCoherent
\* No file has a hole below its size (Inode).
NoHoles == part = "inode" => I!NoHoles
\* Inodes leak only in two ways (Inode).
LeaksOnlyOrphans == part = "inode" => I!LeaksOnlyOrphans
\* The last iput frees an inode without links (Inode).
FreedWithLastReference == part = "inode" => I!FreedWithLastReference

\* The links on the disk form a tree and are counted (Names).
TreeExact == part = "names" => N!TreeExact
\* A lookup ends in an allocated inode (Names).
LookupsLand == part = "names" => N!LookupsLand
\* No two calls wait for each other's inode locks (Names).
NoLockCycle == part = "names" => N!NoLockCycle

=============================================================================
