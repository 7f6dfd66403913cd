------------------------------- MODULE Inode --------------------------------
(***************************************************************************)
(* The inode layer of kernel/fs.c: inode and block allocation, the inode    *)
(* cache (iget, ilock, iput), bmap, itrunc, readi and writei, driven by     *)
(* open, unlink, read, write and close on the files of one directory        *)
(* (kernel/sysfile.c, kernel/file.c), with crashes.                         *)
(*                                                                          *)
(* The disk is the one AtomicDisk specifies and Log implements: cur is what *)
(* the threads see through the buffer cache, durable what a restart finds.  *)
(* A step ends wherever another thread or a crash can come in between and   *)
(* tell the difference.  panic() stops its thread: that thread then has no  *)
(* step any more.  A write is one turn of filewrite's loop.                 *)
(***************************************************************************)
EXTENDS Mkfs

CONSTANTS
  Proc,
  NCache,                  \* NINODE
  Counts,                  \* the n of read and write
  MaxCalls, MaxCrash       \* bounds: system calls in all, crashes

InodeConstants == Counts \subseteq Nat

Slot == 1..NCache
None == "none"

VARIABLES
  cur, durable, active,  \* the disk and the open transactions (AtomicDisk)
  ic,         \* [Slot -> Empty-like records]: icache.inode
  dirlock,    \* Proc or None: the sleep lock of the directory
  th,         \* [Proc -> Idle-like records]: where a thread is, its locals
  file,       \* [Proc -> NoFile-like records]: the process's open file
  gen,        \* history: [Inum -> Nat], how often ialloc gave the inode out
  orphans,    \* history: the inodes without links that were leaked
  calls, crashes   \* how many system calls and crashes there were

vars == <<cur, durable, active, ic, dirlock, th, file, gen, orphans, calls, crashes>>

Empty == [inum |-> 0, ref |-> 0, valid |-> FALSE, lock |-> None, d |-> Free]
NoFile == [ip |-> 0, off |-> 0, gen |-> 0]
Idle == [pc |-> "user", op |-> None, name |-> None, trunc |-> FALSE,
         inum |-> 0, ip |-> 0, off |-> 0, n |-> 0]

Init ==
  /\ \E files \in Images : cur = main(files)
  /\ durable = cur /\ active = {}
  /\ ic = [s \in Slot |-> Empty] /\ dirlock = None
  /\ th = [p \in Proc |-> Idle] /\ file = [p \in Proc |-> NoFile]
  /\ gen = [i \in Inum |-> 0] /\ orphans = {} /\ calls = 0 /\ crashes = 0

At(p, l) == th[p].pc = l
Goto(p, l) == th' = [th EXCEPT ![p].pc = l]
Ip(p) == ic[th[p].ip]
Disk == <<cur, durable, active>>
History == <<gen, orphans, calls, crashes>>

-----------------------------------------------------------------------------
(* Blocks.  balloc takes the lowest free block and zeroes it.              *)

ballocs(D) == Block \ D.used

balloc_dirty(D, b) == [D EXCEPT !.used = @ \union {b}]
balloc(D, b) == [D EXCEPT !.used = @ \union {b}, !.ind[b] = NoPtrs]

\* bmap for file block k: the disk and the inode afterwards.
bmap(D, d, k) == place(D, d, k, LAMBDA E : Min(ballocs(E)), balloc)

Missing(D, d, k) ==   \* how many blocks bmap allocates
  IF Mapped(D, d, k) THEN 0
  ELSE IF k < NDirect \/ d.addrs[NDirect] # 0 THEN 1 ELSE 2

-----------------------------------------------------------------------------
(* The system calls, up to the first lock.  begin_op opens a transaction;   *)
(* read needs none.                                                         *)

enter(p) == At(p, "user") /\ calls < MaxCalls /\ calls' = calls + 1
begin_op(p) == active' = active \union {p} /\ UNCHANGED <<cur, durable>>

sys_open(p) ==
  /\ enter(p) /\ file[p] = NoFile
  /\ \E x \in Name, o \in {"open", "create"}, t \in BOOLEAN :
       th' = [th EXCEPT ![p] = [Idle EXCEPT !.pc = "dir", !.op = o,
                                            !.name = x, !.trunc = t]]
  /\ begin_op(p)
  /\ UNCHANGED <<ic, dirlock, file, gen, orphans, crashes>>

sys_unlink(p) ==
  /\ enter(p)
  /\ \E x \in Name :
       th' = [th EXCEPT ![p] = [Idle EXCEPT !.pc = "dir", !.op = "unlink",
                                            !.name = x]]
  /\ begin_op(p)
  /\ UNCHANGED <<ic, dirlock, file, gen, orphans, crashes>>

fileread_write(p) ==
  /\ enter(p) /\ file[p] # NoFile
  /\ \E o \in {"read", "write"}, c \in Counts :
       /\ th' = [th EXCEPT ![p] = [Idle EXCEPT !.pc = "ilock", !.op = o, !.n = c,
                                       !.ip = file[p].ip, !.off = file[p].off]]
       /\ IF o = "write" THEN begin_op(p) ELSE UNCHANGED Disk
  /\ UNCHANGED <<ic, dirlock, file, gen, orphans, crashes>>

fileclose(p) ==
  /\ enter(p) /\ file[p] # NoFile
  /\ th' = [th EXCEPT ![p] = [Idle EXCEPT !.pc = "iput", !.ip = file[p].ip]]
  /\ file' = [file EXCEPT ![p] = NoFile]
  /\ begin_op(p)
  /\ UNCHANGED <<ic, dirlock, gen, orphans, crashes>>

\* The last operation to end commits the whole group.
end_op(p) ==
  /\ At(p, "end") /\ th' = [th EXCEPT ![p] = Idle]
  /\ active' = active \ {p}
  /\ durable' = IF active = {p} THEN cur ELSE durable
  /\ UNCHANGED <<cur, ic, dirlock, file, History>>

-----------------------------------------------------------------------------
(* The directory: lock it and look the name up.  A name that is not there   *)
(* is created (create) or ends the call; both unlock the directory again.   *)

dirlookup(p) ==
  /\ At(p, "dir") /\ dirlock = None
  /\ LET i == cur.dir[th[p].name]
     IN  \/ /\ i # 0 /\ dirlock' = p
            /\ th' = [th EXCEPT ![p].pc = "iget", ![p].inum = i]
         \/ /\ i = 0 /\ th[p].op = "create" /\ dirlock' = p
            /\ Goto(p, "ialloc")
         \/ /\ i = 0 /\ th[p].op # "create" /\ UNCHANGED dirlock
            /\ Goto(p, "end")
  /\ UNCHANGED <<Disk, ic, file, History>>

\* The lowest inode of type 0; memset clears the rest of the dinode.
ialloc(p) ==
  /\ At(p, "ialloc")
  /\ LET frees == {i \in Inum : ~cur.inode[i].type}
         i == Min(frees)
     IN  /\ frees # {}
         /\ cur' = [cur EXCEPT !.inode[i] = [Free EXCEPT !.type = TRUE]]
         /\ gen' = [gen EXCEPT ![i] = @ + 1]
         /\ th' = [th EXCEPT ![p].pc = "iget", ![p].inum = i, ![p].op = "new"]
  /\ UNCHANGED <<durable, active, ic, dirlock, file, orphans, calls, crashes>>

\* open of an existing file unlocks the directory (iunlockput(dp)) before it
\* locks the file; creating and unlinking go on holding it.
iget(p) ==
  /\ At(p, "iget")
  /\ LET hit == {s \in Slot : ic[s].ref > 0 /\ ic[s].inum = th[p].inum}
         free == {s \in Slot : ic[s].ref = 0}
     IN  \E s \in Slot :
           /\ \/ s \in hit /\ ic' = [ic EXCEPT ![s].ref = @ + 1]
              \/ /\ hit = {} /\ free # {} /\ s = Min(free)
                 /\ ic' = [ic EXCEPT ![s] = [Empty EXCEPT !.inum = th[p].inum,
                                                          !.ref = 1]]
           /\ th' = [th EXCEPT ![p].pc = "ilock", ![p].ip = s]
  /\ dirlock' = IF th[p].op \in {"open", "create"} THEN None ELSE dirlock
  /\ UNCHANGED <<Disk, file, History>>

\* acquiresleep, then load the inode if the entry is fresh; panics on type 0.
ilock(p) ==
  /\ At(p, "ilock") /\ Ip(p).lock = None
  /\ LET d == IF Ip(p).valid THEN Ip(p).d ELSE cur.inode[Ip(p).inum]
     IN  /\ Ip(p).valid \/ d.type
         /\ ic' = [ic EXCEPT ![th[p].ip].lock = p, ![th[p].ip].valid = TRUE,
                             ![th[p].ip].d = d]
  /\ Goto(p, CASE th[p].op = "new" -> "dirlink"
               [] th[p].op \in {"open", "create"} -> "filealloc"
               [] OTHER -> th[p].op)
  /\ UNCHANGED <<Disk, dirlock, file, History>>

\* iupdate: the in-memory inode d of p becomes the on-disk one.
iupdate(p, d) ==
  /\ ic' = [ic EXCEPT ![th[p].ip].d = d]
  /\ cur' = [cur EXCEPT !.inode[Ip(p).inum] = d]

iunlock(p) ==
  /\ At(p, "iunlock")
  /\ ic' = [ic EXCEPT ![th[p].ip].lock = None]
  /\ th' = [th EXCEPT ![p] = IF @.op = "read" THEN Idle
                             ELSE [Idle EXCEPT !.pc = "end"]]
  /\ UNCHANGED <<Disk, dirlock, file, History>>

-----------------------------------------------------------------------------
(* create and unlink, holding the directory's and the file's lock.          *)

create(p) ==
  /\ At(p, "dirlink")
  /\ LET d == [Ip(p).d EXCEPT !.nlink = 1]
     IN  /\ ic' = [ic EXCEPT ![th[p].ip].d = d]
         /\ cur' = [cur EXCEPT !.inode[Ip(p).inum] = d,
                               !.dir[th[p].name] = Ip(p).inum]
  /\ dirlock' = None /\ Goto(p, "filealloc")
  /\ UNCHANGED <<durable, active, file, History>>

\* The entry goes first and the directory is unlocked, then the link count.
unlink_entry(p) ==
  /\ At(p, "unlink") /\ Ip(p).d.nlink > 0
  /\ cur' = [cur EXCEPT !.dir[th[p].name] = 0]
  /\ dirlock' = None /\ Goto(p, "nlink")
  /\ UNCHANGED <<durable, active, ic, file, History>>

unlink_count(p) ==
  /\ At(p, "nlink")
  /\ iupdate(p, [Ip(p).d EXCEPT !.nlink = @ - 1])
  /\ Goto(p, "iunlockput")
  /\ UNCHANGED <<durable, active, dirlock, file, History>>

iunlockput(p) ==
  /\ At(p, "iunlockput")
  /\ ic' = [ic EXCEPT ![th[p].ip].lock = None]
  /\ Goto(p, "iput")
  /\ UNCHANGED <<Disk, dirlock, file, History>>

\* The end of sys_open: filealloc or fdalloc may fail.
open_file(p) ==
  /\ At(p, "filealloc")
  /\ \/ /\ file' = [file EXCEPT ![p] = [ip |-> th[p].ip, off |-> 0,
                                        gen |-> gen[Ip(p).inum]]]
        /\ Goto(p, IF th[p].trunc THEN "itrunc" ELSE "iunlock")
     \/ UNCHANGED file /\ Goto(p, "iunlockput")
  /\ UNCHANGED <<Disk, ic, dirlock, History>>

-----------------------------------------------------------------------------
(* Content.                                                                 *)

\* One readi call; it stops at a block it cannot copy to the user's address.
\* bmap finds every block it asks for: on a hole it would allocate one without
\* a transaction, and log_write panic.
readi(p) ==
  /\ At(p, "read")
  /\ LET d == Ip(p).d
         tot == IF th[p].off > d.size THEN 0
                ELSE Min({th[p].n, d.size - th[p].off})
     IN  /\ \A k \in 0..(MaxFile - 1) :
              k * BSize < th[p].off + tot /\ th[p].off < (k + 1) * BSize
                => Mapped(cur, d, k)
         /\ \E t \in 0..tot : /\ t \in {0, tot} \/ (th[p].off + t) % BSize = 0
                              /\ file' = [file EXCEPT ![p].off = @ + t]
  /\ Goto(p, "iunlock")
  /\ UNCHANGED <<Disk, ic, dirlock, History>>

\* Early returns of writei: filewrite sees -1 and leaves f->off alone.
writei_refuses(p) ==
  /\ At(p, "write")
  /\ \/ th[p].off > Ip(p).d.size
     \/ th[p].off + th[p].n > MaxFile * BSize
  /\ Goto(p, "iunlock")
  /\ UNCHANGED <<Disk, ic, dirlock, file, History>>

writei_starts(p) ==
  /\ At(p, "write")
  /\ th[p].off <= Ip(p).d.size /\ th[p].off + th[p].n <= MaxFile * BSize
  /\ Goto(p, IF th[p].n > 0 THEN "writei" ELSE "iunlock")
  /\ UNCHANGED <<Disk, ic, dirlock, file, History>>

\* One turn of the loop: bmap (balloc panics when the disk is full), then
\* copy up to the end of the block or fail to copy from the user's address.
writei(p) ==
  /\ At(p, "writei")
  /\ LET end == file[p].off + th[p].n
         k == th[p].off \div BSize
         m == Min({end - th[p].off, BSize - (th[p].off % BSize)})
         b == bmap(cur, Ip(p).d, k)
     IN  /\ Missing(cur, Ip(p).d, k) <= Cardinality(ballocs(cur))
         /\ cur' = b[1] /\ ic' = [ic EXCEPT ![th[p].ip].d = b[2]]
         /\ \/ th' = [th EXCEPT ![p].off = @ + m,
                                ![p].pc = IF th[p].off + m = end THEN "wrote" ELSE @]
            \/ Goto(p, "wrote")
  /\ UNCHANGED <<durable, active, dirlock, file, History>>

\* The size covers what was copied; the call returns n all the same, and
\* filewrite adds that to f->off.
NewSize_n(p) == Max({Ip(p).d.size, file[p].off + th[p].n})
NewSize(p) == Max({Ip(p).d.size, th[p].off})
wrote(p) ==
  /\ At(p, "wrote")
  /\ iupdate(p, [Ip(p).d EXCEPT !.size = NewSize(p)])
  /\ file' = [file EXCEPT ![p].off = @ + th[p].n]
  /\ Goto(p, "iunlock")
  /\ UNCHANGED <<durable, active, dirlock, History>>

\* itrunc frees the blocks (bfree panics on one that is free), then writes
\* the empty inode; the blocks may be taken by another thread in between.
itrunc(p) ==
  /\ th[p].pc \in {"itrunc", "iput_trunc"}
  /\ LET own == Owned(cur, Ip(p).d)
     IN  /\ own \subseteq cur.used
         /\ cur' = [cur EXCEPT !.used = @ \ own]
  /\ ic' = [ic EXCEPT ![th[p].ip].d.addrs = NoAddrs, ![th[p].ip].d.size = 0]
  /\ Goto(p, IF At(p, "itrunc") THEN "truncated" ELSE "iput_free")
  /\ UNCHANGED <<durable, active, dirlock, file, History>>

truncated(p) ==
  /\ At(p, "truncated")
  /\ iupdate(p, Ip(p).d) /\ Goto(p, "iunlock")
  /\ UNCHANGED <<durable, active, dirlock, file, History>>

-----------------------------------------------------------------------------
(* iput.  The test and acquiresleep happen under icache.lock; freeing does  *)
(* not, and the reference goes last.                                        *)

\* ip->ref--; nobody reads the fields of an entry whose ref is 0.
drop(p) ==
  /\ ic' = [ic EXCEPT ![th[p].ip] = IF @.ref = 1 THEN Empty
                                    ELSE [@ EXCEPT !.ref = @ - 1]]
  /\ th' = [th EXCEPT ![p] = [Idle EXCEPT !.pc = "end"]]

\* (FreesReferenced, NeverFrees: mutants of the test; iput_kept of the invalidation.)
FreesReferenced(e) == e.valid /\ e.d.nlink = 0
NeverFrees(e) == FALSE
Frees(e) == e.ref = 1 /\ e.valid /\ e.d.nlink = 0

iput(p) ==
  /\ At(p, "iput")
  /\ \/ /\ Frees(Ip(p)) /\ Ip(p).lock = None
        /\ ic' = [ic EXCEPT ![th[p].ip].lock = p]
        /\ Goto(p, "iput_trunc")
     \/ /\ ~Frees(Ip(p))
        /\ drop(p)
  /\ UNCHANGED <<Disk, dirlock, file, History>>

\* From here ialloc can give the inode out again.
iput_free(p) ==
  /\ At(p, "iput_free")
  /\ iupdate(p, [Ip(p).d EXCEPT !.type = FALSE])
  /\ Goto(p, "iput_invalid")
  /\ UNCHANGED <<durable, active, dirlock, file, History>>

iput_kept(p) ==
  /\ At(p, "iput_invalid")
  /\ ic' = [ic EXCEPT ![th[p].ip].lock = None]
  /\ Goto(p, "iput_drop")
  /\ UNCHANGED <<Disk, dirlock, file, History>>
iput_invalid(p) ==
  /\ At(p, "iput_invalid")
  /\ ic' = [ic EXCEPT ![th[p].ip].valid = FALSE, ![th[p].ip].lock = None]
  /\ Goto(p, "iput_drop")
  /\ UNCHANGED <<Disk, dirlock, file, History>>

\* The entry may have got a new life since: ialloc gave the inode out, and
\* its new users may have unlinked it and found this reference still there.
iput_drop(p) ==
  /\ At(p, "iput_drop")
  /\ drop(p)
  /\ orphans' = IF Frees(Ip(p)) THEN orphans \union {Ip(p).inum} ELSE orphans
  /\ UNCHANGED <<Disk, dirlock, file, gen, calls, crashes>>

-----------------------------------------------------------------------------
\* Power fails; the log recovers the last commit, memory starts afresh.
Crash ==
  /\ crashes < MaxCrash /\ crashes' = crashes + 1
  /\ cur' = durable /\ active' = {}
  /\ ic' = [s \in Slot |-> Empty] /\ dirlock' = None
  /\ th' = [p \in Proc |-> Idle] /\ file' = [p \in Proc |-> NoFile]
  /\ orphans' = {i \in Inum : durable.inode[i].type /\ durable.inode[i].nlink = 0}
  /\ UNCHANGED <<durable, gen, calls>>

Steps(p) ==
  \/ end_op(p) \/ dirlookup(p) \/ ialloc(p) \/ iget(p) \/ ilock(p) \/ iunlock(p)
  \/ create(p) \/ unlink_entry(p) \/ unlink_count(p) \/ iunlockput(p)
  \/ open_file(p) \/ readi(p) \/ writei_refuses(p) \/ writei_starts(p)
  \/ writei(p) \/ wrote(p) \/ itrunc(p) \/ truncated(p)
  \/ iput(p) \/ iput_free(p) \/ iput_invalid(p) \/ iput_drop(p)
Calls(p) == sys_open(p) \/ sys_unlink(p) \/ fileread_write(p) \/ fileclose(p)

Next == (\E p \in Proc : Steps(p) \/ Calls(p)) \/ Crash
Spec == Init /\ [][Next]_vars

-----------------------------------------------------------------------------
(* Properties.                                                              *)

\* The block map and the bitmap a restart finds agree exactly: every used
\* block is named once, by one inode or one indirect block, and every other
\* block by none; a free inode names none.  (balloc, bfree, bmap and iupdate
\* write different blocks, and bfree lets others have the block before the
\* inode that named it is written.)
BlocksExact ==
  LET refs == UNION {{i} \X Refs(durable, durable.inode[i]) : i \in Inum}
      named(b) == {x \in refs : x[2][2] = b}
  IN  /\ \A b \in Block :
           Cardinality(named(b)) = IF b \in durable.used THEN 1 ELSE 0
      /\ \A i \in Inum : ~durable.inode[i].type => durable.inode[i] = Free

\* An open file keeps its inode: the inode is neither freed nor given out
\* again while a struct file refers to it, whoever unlinks it meanwhile
\* (iput's test of ref, fs.c:337).
OpenFileLives ==
  \A p \in Proc : file[p] # NoFile =>
    LET e == ic[file[p].ip]
    IN  e.ref > 0 /\ cur.inode[e.inum].type /\ gen[e.inum] = file[p].gen

\* The cache is write-through and has one entry per inode: whoever takes the
\* lock of a valid entry finds what the disk has, even when the inode was
\* freed and allocated anew between iput's iupdate and its last line.
CacheCoherent ==
  /\ \A s \in Slot : ic[s].ref > 0 /\ ic[s].valid /\ ic[s].lock = None
       => ic[s].d = cur.inode[ic[s].inum]
  /\ \A s, t \in Slot : ic[s].ref > 0 /\ ic[t].ref > 0 /\ ic[s].inum = ic[t].inum
       => s = t

\* No hole: every file block below the size has a block, on the disk and for
\* whoever reads, although a write that fails half way leaves blocks allocated
\* beyond the size.  In a hole readi's bmap would allocate, and log_write
\* without a transaction.  (It takes mkfs's root directory not to end at the
\* end of a block: mkfs.c:169 then makes it one block too long.)
Filled(D, d) == \A k \in 0..(MaxFile - 1) : k * BSize < d.size => Mapped(D, d, k)
NoHoles ==
  /\ \A i \in Inum : Filled(durable, durable.inode[i])
  /\ \A p \in Proc : At(p, "read") => Filled(cur, Ip(p).d)

Unlinked(i) == cur.inode[i].type /\ cur.inode[i].nlink = 0
InUse(i) ==
  \/ \E s \in Slot : ic[s].ref > 0 /\ ic[s].inum = i
  \/ \E p \in Proc : At(p, "iget") /\ th[p].inum = i

\* "If that was the last reference and the inode has no links to it, free the
\* inode (and its content) on disk" (fs.c:328).
FreedWithLastReference == \A i \in Inum : Unlinked(i) => InUse(i)

\* That holds but for two ways to leak an inode: a crash while an unlinked
\* file is open (no code looks for such inodes at boot), and iput's window,
\* in which the inode is reused and unlinked before iput drops its reference.
LeaksOnlyOrphans == \A i \in Inum \ orphans : Unlinked(i) => InUse(i)

=============================================================================
