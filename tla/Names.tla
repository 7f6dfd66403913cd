------------------------------- MODULE Names --------------------------------
(***************************************************************************)
(* Directories and path names: namex, dirlookup and dirlink (kernel/fs.c),  *)
(* and the system calls that change the tree: open with O_CREATE, mkdir,    *)
(* mknod, link, unlink and chdir (kernel/sysfile.c), with crashes.          *)
(*                                                                          *)
(* The disk is AtomicDisk's, the inode cache is reduced to a reference      *)
(* count and a lock per inode (Inode has the rest; its iput is one step     *)
(* here).  A step goes from one point where the thread may have to wait for *)
(* an inode's lock to the next.                                             *)
(***************************************************************************)
EXTENDS Naturals, Sequences, FiniteSets, FiniteSetsExt

CONSTANTS
  Proc, Name,
  NInodes,
  Dirs,               \* the directories of the first disk, one in the other
  Paths,              \* the paths tried: [abs : BOOLEAN, elems : Seq(Elem)]
  MaxCalls, MaxCrash  \* bounds: system calls in all, crashes

DotDot == ".."
Elem == Name \union {DotDot}

NamesConstants ==
  /\ DotDot \notin Name /\ Dirs \in Seq(Name) /\ Len(Dirs) < NInodes
  /\ \A q \in Paths : q.abs \in BOOLEAN /\ q.elems \in Seq(Elem) /\ q.elems # <<>>

Inum == 1..NInodes
ROOTINO == 1
None == "none"

VARIABLES
  cur, durable, active,  \* the disk and the open transactions (AtomicDisk)
  ref, lock,  \* the inode cache: [Inum -> Nat], [Inum -> Proc or None]
  cwd,        \* [Proc -> Inum]
  th,         \* [Proc -> Idle-like records]: where a thread is, its locals
  lost,       \* history: inodes entered into a directory already removed
  stale,      \* history: [Proc -> BOOLEAN], it took ".." of a removed directory
  calls, crashes

vars == <<cur, durable, active, ref, lock, cwd, th, lost, stale, calls, crashes>>

NoEntries == [x \in Elem |-> 0]
Free == [type |-> "free", nlink |-> 0, ent |-> NoEntries]
\* Inode 1 is the root, inode k + 1 the directory Dirs[k] in inode k.
Tree0(i) ==
  IF i > Len(Dirs) + 1 THEN Free
  ELSE [type |-> "dir", nlink |-> IF i <= Len(Dirs) THEN 2 ELSE 1,
        ent |-> [x \in Elem |->
                   IF x = DotDot THEN (IF i = ROOTINO THEN ROOTINO ELSE i - 1)
                   ELSE IF i <= Len(Dirs) /\ x = Dirs[i] THEN i + 1 ELSE 0]]
Idle == [pc |-> "user", op |-> None, path |-> <<>>, parent |-> FALSE,
         ip |-> 0, held |-> 0, new |-> <<>>]

Init ==
  /\ cur = [i \in Inum |-> Tree0(i)]
  /\ durable = cur /\ active = {}
  /\ ref = [i \in Inum |-> IF i = ROOTINO THEN Cardinality(Proc) ELSE 0]
  /\ lock = [i \in Inum |-> None] /\ cwd = [p \in Proc |-> ROOTINO]
  /\ th = [p \in Proc |-> Idle] /\ lost = {} /\ stale = [p \in Proc |-> FALSE]
  /\ calls = 0 /\ crashes = 0

At(p, l) == th[p].pc = l
Disk == <<cur, durable, active>>
Bounds == <<calls, crashes>>

\* iput on the disk and the counts S; an inode freed takes its entries along.
\* (iput_any is a mutant.)
iput_any(S, i) ==
  [d |-> IF S.d[i].nlink = 0 THEN [S.d EXCEPT ![i] = Free] ELSE S.d,
   r |-> [S.r EXCEPT ![i] = @ - 1]]
iput(S, i) ==
  [d |-> IF S.r[i] = 1 /\ S.d[i].nlink = 0 THEN [S.d EXCEPT ![i] = Free] ELSE S.d,
   r |-> [S.r EXCEPT ![i] = @ - 1]]
iget(S, i) == [S EXCEPT !.r[i] = @ + 1]
Now == [d |-> cur, r |-> ref]
Becomes(S) ==
  /\ cur' = S.d /\ ref' = S.r
  /\ lost' = {i \in lost : S.d[i].type # "free"}

-----------------------------------------------------------------------------
(* A call starts its transaction and its first walk.                        *)

from(p, q) == IF q.abs THEN ROOTINO ELSE cwd[p]

call(p) ==
  /\ At(p, "user") /\ calls < MaxCalls /\ calls' = calls + 1
  /\ \E o \in {"creat", "mkdir", "unlink", "chdir", "link"}, q \in Paths :
       \E r \in IF o = "link" THEN Paths ELSE {q} :
         /\ th' = [th EXCEPT ![p] = [Idle EXCEPT !.pc = "walk", !.op = o,
                     !.path = q.elems, !.ip = from(p, q),
                     !.new = IF o = "link" THEN r ELSE <<>>,
                     !.parent = o \in {"creat", "mkdir", "unlink"}]]
         /\ ref' = iget(Now, from(p, q)).r
  /\ active' = active \union {p}
  /\ UNCHANGED <<cur, durable, lock, cwd, lost, stale, crashes>>

end_op(p) ==
  /\ At(p, "end") /\ th' = [th EXCEPT ![p] = Idle]
  /\ stale' = [stale EXCEPT ![p] = FALSE]
  /\ active' = active \ {p}
  /\ durable' = IF active = {p} THEN cur ELSE durable
  /\ UNCHANGED <<cur, ref, lock, cwd, lost, Bounds>>

\* Where a walk leads: with an inode, referenced and unlocked, or without.
found(p) ==
  CASE th[p].op \in {"creat", "mkdir"} -> "create"
    [] th[p].op = "link" /\ th[p].held # 0 -> "link_dp"
    [] OTHER -> th[p].op
failed(p) == IF th[p].op = "link" /\ th[p].held # 0 THEN "link_bad" ELSE "end"

\* ilock panics on a free inode, and keeps the lock.
ilock_panics(p) ==
  /\ th[p].pc \in {"walk", "chdir", "link", "exists"}
  /\ lock[th[p].ip] = None /\ cur[th[p].ip].type = "free"
  /\ lock' = [lock EXCEPT ![th[p].ip] = p]
  /\ th' = [th EXCEPT ![p].pc = "panic"]
  /\ UNCHANGED <<Disk, ref, cwd, lost, stale, Bounds>>
ilock(i) == lock[i] = None /\ cur[i].type # "free"

Gone(d, x) == x = DotDot /\ cur[d].nlink = 0   \* ".." of a removed directory

\* One turn of namex's loop: ilock, look, iunlockput.
namex(p) ==
  LET ip == th[p].ip
      d == cur[ip]
      x == Head(th[p].path)
      last == Tail(th[p].path) = <<>>
      early == last /\ th[p].parent
      next == d.ent[x]
  IN  /\ At(p, "walk") /\ ilock(ip)
      /\ \/ /\ d.type # "dir" \/ (next = 0 /\ ~early)
            /\ Becomes(iput(Now, ip))
            /\ th' = [th EXCEPT ![p].pc = failed(p)] /\ UNCHANGED stale
         \/ /\ d.type = "dir" /\ early
            /\ th' = [th EXCEPT ![p].pc = found(p)]
            /\ UNCHANGED <<cur, ref, lost, stale>>
         \/ /\ d.type = "dir" /\ next # 0 /\ ~early
            /\ Becomes(iput(iget(Now, next), ip))
            /\ th' = [th EXCEPT ![p].ip = next,
                                ![p].path = IF last THEN @ ELSE Tail(@),
                                ![p].pc = IF last THEN found(p) ELSE @]
            /\ stale' = [stale EXCEPT ![p] = @ \/ Gone(ip, x)]
      /\ UNCHANGED <<durable, active, lock, cwd, Bounds>>

-----------------------------------------------------------------------------
(* What each call does at the end of its walk.                              *)

name(p) == Head(th[p].path)
ip(p) == th[p].ip
Finish(p, S) ==
  /\ Becomes(S) /\ th' = [th EXCEPT ![p] = [Idle EXCEPT !.pc = "end"]]
Lost(p, i) ==   \* history, after Becomes: i was entered into the directory ip(p)
  IF cur[ip(p)].nlink = 0 \/ ip(p) \in lost THEN {i, ip(p)} ELSE {}

\* create: the name is there (its inode is locked, looked at, and put), or it
\* is new; a new inode and the directory are locked throughout.
create_exists(p) ==
  LET i == cur[ip(p)].ent[name(p)]
  IN  /\ At(p, "create") /\ lock[ip(p)] = None /\ i # 0
      /\ Becomes(iput(iget(Now, i), ip(p)))
      /\ th' = [th EXCEPT ![p].pc = "exists", ![p].ip = i]
      /\ stale' = [stale EXCEPT ![p] = @ \/ Gone(ip(p), name(p))]
      /\ UNCHANGED <<durable, active, lock, cwd, Bounds>>
exists(p) ==
  /\ At(p, "exists") /\ ilock(ip(p))
  /\ Finish(p, iput(Now, ip(p)))
  /\ UNCHANGED <<durable, active, lock, cwd, stale, Bounds>>
create(p) ==
  LET frees == {i \in Inum : cur[i].type = "free"}
      i == Min(frees)
      dir == th[p].op = "mkdir"
      node == [type |-> IF dir THEN "dir" ELSE "file", nlink |-> 1,
               ent |-> IF dir THEN [NoEntries EXCEPT ![DotDot] = ip(p)] ELSE NoEntries]
      D == [cur EXCEPT ![i] = node, ![ip(p)].ent[name(p)] = i,
                       ![ip(p)].nlink = IF dir THEN @ + 1 ELSE @]
      S == iput([d |-> D, r |-> ref], ip(p))
  IN  /\ At(p, "create") /\ lock[ip(p)] = None
      /\ cur[ip(p)].ent[name(p)] = 0 /\ frees # {}
      /\ cur' = S.d /\ ref' = S.r
      /\ lost' = {k \in lost \union Lost(p, i) : S.d[k].type # "free"}
      /\ th' = [th EXCEPT ![p] = [Idle EXCEPT !.pc = "end"]]
      /\ UNCHANGED <<durable, active, lock, cwd, stale, Bounds>>

\* unlink locks the directory, then, still holding it, the inode.
\* (NotDots is a mutant.)
NotDots(x) == FALSE
Dots(x) == x = DotDot
unlink_dp(p) ==
  LET i == cur[ip(p)].ent[name(p)]
  IN  /\ At(p, "unlink") /\ lock[ip(p)] = None
      /\ \/ /\ Dots(name(p)) \/ i = 0
            /\ Finish(p, iput(Now, ip(p))) /\ UNCHANGED lock
         \/ /\ ~Dots(name(p)) /\ i # 0
            /\ Becomes(iget(Now, i))
            /\ lock' = [lock EXCEPT ![ip(p)] = p]
            /\ th' = [th EXCEPT ![p].pc = "unlink_ip", ![p].held = i]
      /\ UNCHANGED <<durable, active, cwd, stale, Bounds>>

\* isdirempty, and a mutant.
anyempty(d) == TRUE
isdirempty(d) == \A x \in Name : d.ent[x] = 0
unlink_ip(p) ==
  LET i == th[p].held
      dir == cur[i].type = "dir"
      D == [cur EXCEPT ![ip(p)].ent[name(p)] = 0,
                       ![ip(p)].nlink = IF dir THEN @ - 1 ELSE @,
                       ![i].nlink = @ - 1]
      puts(E) == iput(iput([d |-> E, r |-> ref], ip(p)), i)
  IN  /\ At(p, "unlink_ip") /\ lock[i] = None /\ cur[i].nlink > 0
      /\ Finish(p, puts(IF dir /\ ~isdirempty(cur[i]) THEN cur ELSE D))
      /\ lock' = [lock EXCEPT ![ip(p)] = None]
      /\ UNCHANGED <<durable, active, cwd, stale, Bounds>>

\* link counts the new entry first, walks to the new name's directory, and
\* takes the count back when it cannot enter the name.
link_ip(p) ==
  /\ At(p, "link") /\ ilock(ip(p))
  /\ \/ /\ cur[ip(p)].type = "dir" /\ Finish(p, iput(Now, ip(p)))
     \/ /\ cur[ip(p)].type # "dir"
        /\ LET q == th[p].new
           IN  /\ Becomes(iget([Now EXCEPT !.d[ip(p)].nlink = @ + 1], from(p, q)))
               /\ th' = [th EXCEPT ![p].pc = "walk", ![p].parent = TRUE, ![p].new = <<>>,
                                   ![p].held = ip(p), ![p].ip = from(p, q),
                                   ![p].path = q.elems]
  /\ UNCHANGED <<durable, active, lock, cwd, stale, Bounds>>
link_dp(p) ==
  LET i == th[p].held
      S == iput(iput([Now EXCEPT !.d[ip(p)].ent[name(p)] = i], ip(p)), i)
  IN  /\ At(p, "link_dp") /\ lock[ip(p)] = None
      /\ \/ /\ cur[ip(p)].ent[name(p)] # 0
            /\ Becomes(iput(Now, ip(p)))
            /\ th' = [th EXCEPT ![p].pc = "link_bad"]
         \/ /\ cur[ip(p)].ent[name(p)] = 0
            /\ cur' = S.d /\ ref' = S.r
            /\ lost' = {k \in lost \union Lost(p, i) : S.d[k].type # "free"}
            /\ th' = [th EXCEPT ![p] = [Idle EXCEPT !.pc = "end"]]
      /\ UNCHANGED <<durable, active, lock, cwd, stale, Bounds>>
link_bad(p) ==
  /\ At(p, "link_bad") /\ lock[th[p].held] = None
  /\ Finish(p, iput([Now EXCEPT !.d[th[p].held].nlink = @ - 1], th[p].held))
  /\ UNCHANGED <<durable, active, lock, cwd, stale, Bounds>>

chdir(p) ==
  /\ At(p, "chdir") /\ ilock(ip(p))
  /\ \/ /\ cur[ip(p)].type # "dir" /\ Finish(p, iput(Now, ip(p))) /\ UNCHANGED cwd
     \/ /\ cur[ip(p)].type = "dir" /\ Finish(p, iput(Now, cwd[p]))
        /\ cwd' = [cwd EXCEPT ![p] = ip(p)]
  /\ UNCHANGED <<durable, active, lock, stale, Bounds>>

-----------------------------------------------------------------------------
Crash ==
  /\ crashes < MaxCrash /\ crashes' = crashes + 1
  /\ cur' = durable /\ active' = {}
  /\ ref' = [i \in Inum |-> IF i = ROOTINO THEN Cardinality(Proc) ELSE 0]
  /\ lock' = [i \in Inum |-> None] /\ cwd' = [p \in Proc |-> ROOTINO]
  /\ th' = [p \in Proc |-> Idle] /\ stale' = [p \in Proc |-> FALSE]
  /\ lost' = {i \in lost : durable[i].type # "free"}
  /\ UNCHANGED <<durable, calls>>

Steps(p) ==
  \/ end_op(p) \/ ilock_panics(p) \/ namex(p)
  \/ create_exists(p) \/ exists(p) \/ create(p) \/ unlink_dp(p) \/ unlink_ip(p)
  \/ link_ip(p) \/ link_dp(p) \/ link_bad(p) \/ chdir(p)

Next == (\E p \in Proc : Steps(p) \/ call(p)) \/ Crash
Spec == Init /\ [][Next]_vars

-----------------------------------------------------------------------------
(* Properties.                                                              *)

\* What is reachable from the root on the disk, and the entries there.
Reach[n \in 0..NInodes] ==
  IF n = 0 THEN {ROOTINO}
  ELSE LET near == Reach[n - 1]
       IN  near \union ({durable[d].ent[x] : d \in near, x \in Name} \ {0})
\* "Number of links to inode in file system" (fs.h:36): whenever power fails,
\* the count of every inode is the number of directory entries that name it in
\* the tree below the root.  The exceptions are the inodes put into a directory
\* that had been removed between nameiparent and ilock, or as someone's cwd.
TreeExact ==
  LET there == Reach[NInodes]
      entries(i) == {<<d, x>> \in there \X Elem : durable[d].ent[x] = i}
  IN  \A i \in Inum \ lost : durable[i].type # "free" =>
        durable[i].nlink = Cardinality(entries(i))

\* A path leads to inodes that are allocated, whoever removes directories
\* meanwhile: ilock does not panic.  The exception is ".." of a removed
\* directory, which names an inode nothing keeps.
LookupsLand == \A p \in Proc : At(p, "panic") => stale[p]

\* No group of unlinks waits in a circle, each holding the directory another
\* one wants: unlink's second lock is the only one taken while holding one,
\* and it is further down the tree (sysfile.c:209).
NoLockCycle ==
  \A S \in (SUBSET Proc) \ {{}} :
    ~ \A p \in S : At(p, "unlink_ip") /\ lock[th[p].held] \in S

=============================================================================
