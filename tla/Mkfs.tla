-------------------------------- MODULE Mkfs --------------------------------
(***************************************************************************)
(* What is on a file system disk (kernel/fs.h), and mkfs/mkfs.c, which      *)
(* writes the first one.  A disk is a record: inode, the dinodes; used, the *)
(* data blocks whose bit is set; ind, what each block holds when it is read *)
(* as an indirect block; dir, the entries of the root directory.            *)
(* Block b stands for block nmeta + b - 1: number 0 means no block.         *)
(***************************************************************************)
EXTENDS Naturals, Sequences, FiniteSets, FiniteSetsExt, SequencesExt

CONSTANTS
  Name,                       \* file names
  NInodes, NBlocks,           \* inodes are 1..NInodes, data blocks 1..NBlocks
  NDirect, NIndirect, BSize,  \* BSize counts directory entries
  Images                      \* for each first disk, the files given to mkfs

MkfsConstants ==
  /\ {NDirect, NIndirect, BSize} \subseteq Nat \ {0}
  /\ \A files \in Images : files \in Seq([name : Name, size : Nat])

Inum == 1..NInodes
Block == 1..NBlocks
MaxFile == NDirect + NIndirect
ROOTINO == 1

NoAddrs == [k \in 0..NDirect |-> 0]
NoPtrs == [k \in 1..NIndirect |-> 0]
Free == [type |-> FALSE, nlink |-> 0, size |-> 0, addrs |-> NoAddrs]
Zeroes == [inode |-> [i \in Inum |-> Free], used |-> {},
           ind |-> [b \in Block |-> NoPtrs], dir |-> [x \in Name |-> 0]]

\* Whether file block k of d has a block, and all the places in d's block map
\* (the indirect block's included) with the block number each one holds.
Mapped(D, d, k) ==
  IF k < NDirect THEN d.addrs[k] # 0
  ELSE d.addrs[NDirect] # 0 /\ D.ind[d.addrs[NDirect]][k - NDirect + 1] # 0
Refs(D, d) ==
  {<<k, d.addrs[k]>> : k \in 0..NDirect}
    \union IF d.addrs[NDirect] = 0 THEN {}
           ELSE {<<NDirect + k, D.ind[d.addrs[NDirect]][k]>> : k \in 1..NIndirect}
Owned(D, d) == {r[2] : r \in Refs(D, d)} \ {0}

\* Give file block k of inode i a block, if it has none, and before that an
\* indirect block if it needs one; take(D, b) makes block b used and next(D)
\* is the block to take.
place(D, d, k, next(_), take(_, _)) ==
  LET addr(a) ==   \* addrs[a] gets a block
        IF d.addrs[a] # 0 THEN <<D, d>>
        ELSE <<take(D, next(D)), [d EXCEPT !.addrs[a] = next(D)]>>
      one == addr(NDirect)
      tab == one[2].addrs[NDirect]
      j == k - NDirect + 1
      b == next(one[1])
  IN  IF k < NDirect THEN addr(k)
      ELSE IF one[1].ind[tab][j] # 0 THEN one
      ELSE <<[take(one[1], b) EXCEPT !.ind[tab][j] = b], one[2]>>

-----------------------------------------------------------------------------
(* mkfs.  freeblock is the lowest unused block: mkfs never frees one.       *)

ialloc_mkfs(D, i) ==
  [D EXCEPT !.inode[i] = [Free EXCEPT !.type = TRUE, !.nlink = 1]]

\* iappend: n more units at the end of inode i.
iappend(D, i, n) ==
  LET off == D.inode[i].size
      blocks == IF n = 0 THEN {} ELSE (off \div BSize)..((off + n - 1) \div BSize)
      put(E, k) ==
        LET r == place(E, E.inode[i], k, LAMBDA F : Min(Block \ F.used),
                       LAMBDA F, b : [F EXCEPT !.used = @ \union {b}])
        IN  [r[1] EXCEPT !.inode[i] = r[2]]
  IN  [FoldLeft(put, D, SetToSortSeq(blocks, <)) EXCEPT !.inode[i].size = off + n]

\* One file: its inode, its entry in the root directory, its content.
addfile(D, f) ==
  LET i == Min({k \in Inum : ~D.inode[k].type})
      entry == iappend(ialloc_mkfs(D, i), ROOTINO, 1)
  IN  iappend([entry EXCEPT !.dir[f.name] = i], i, f.size)

\* The root directory with "." and "..", the files, and the root's size
\* rounded up to the next block.
main(files) ==
  LET root == iappend(iappend(ialloc_mkfs(Zeroes, ROOTINO), ROOTINO, 1), ROOTINO, 1)
      all == FoldLeft(addfile, root, files)
  IN  [all EXCEPT !.inode[ROOTINO].size = ((@ \div BSize) + 1) * BSize]

=============================================================================
