--------------------------------- MODULE Vm ---------------------------------
(***************************************************************************)
(* Physical pages and user page tables: kernel/kalloc.c, kernel/vm.c, the   *)
(* parts of kernel/proc.c and kernel/exec.c that allocate and free them.    *)
(* Processes fork, exec, grow, shrink and exit at the same time; memory may *)
(* run out at every page.                                                   *)
(*                                                                          *)
(* A page table is a record: root, its top page; dirs, the lower page-table *)
(* pages by <<level, index>>; maps, the leaf PTEs by virtual page number.   *)
(* Which free page kalloc takes is nothing anyone can tell: the lowest.     *)
(* Page tables belong to one thread, so a step is one turn of a loop.       *)
(***************************************************************************)
EXTENDS Integers, Sequences, FiniteSets, FiniteSetsExt, Functions, TLC

CONSTANTS
  Proc, Init1,    \* the proc table; the process userinit makes
  NPages,         \* pages from end[] to PHYSTOP
  PGSIZE, Fan,    \* units in a page, PTEs in a page-table page
  UMod,           \* growproc's uint sz: modulo UMod
  Grow,           \* what sbrk is asked for
  Programs,       \* each program: the ends (vaddr + memsz) of its segments
  MAXARG,         \* arguments of exec, one page each while it runs
  CopyLens        \* lengths tried with copyout and copyin

Page == 1..NPages
Top == Fan * Fan * Fan         \* MAXVA in pages: three levels
TRAMPOLINE == Top - 1
TRAPFRAME == Top - 2
Pages(sz) == (sz + PGSIZE - 1) \div PGSIZE      \* PGROUNDUP(sz) / PGSIZE

ASSUME VmConstants ==
  /\ Init1 \in Proc /\ PGSIZE \in Nat \ {0} /\ Fan \in Nat \ {0, 1}
  /\ Grow \subseteq Int /\ CopyLens \subseteq Nat
  /\ \A prog \in Programs : prog \in Seq(Nat \ {0})
  /\ UMod \in Nat /\ MAXARG \in Nat /\ NPages < TRAPFRAME

VARIABLES
  free,       \* kmem.freelist
  proc,       \* [Proc -> Unused-like records]
  th,         \* [Proc -> Idle-like records]: the system call it is in
  panicked,   \* whether a panic() of vm.c was reached
  sbrk        \* history: what growproc did, in the state in which it returns 0

vars == <<free, proc, th, panicked, sbrk>>

Nothing == [x \in {} |-> x]
NoPt == [root |-> 0, dirs |-> Nothing, maps |-> Nothing]
Unused == [live |-> FALSE, tf |-> 0, pt |-> NoPt, sz |-> 0]
Idle == [pc |-> "user", pt |-> NoPt, sz |-> 0, a |-> 0, to |-> 0, n |-> 0,
         segs |-> <<>>, args |-> {}, child |-> Init1]
NoSbrk == [old |-> 0, n |-> 0, new |-> 0]

-----------------------------------------------------------------------------
(* Operators on a memory M: a free list, a page table and whether all went  *)
(* well (ok) and without a panic.                                           *)

Mem(f, t) == [free |-> f, pt |-> t, ok |-> TRUE, panic |-> FALSE]

\* walk with alloc: the page-table pages on the way to va, from the top.
\* A failure leaves those it got in place.
node(M, n) ==
  IF ~M.ok \/ n \in DOMAIN M.pt.dirs THEN M
  ELSE IF M.free = {} THEN [M EXCEPT !.ok = FALSE]
  ELSE [M EXCEPT !.free = @ \ {Min(@)}, !.pt.dirs = (n :> Min(M.free)) @@ @]
walk(M, va) == node(node(M, <<1, va \div (Fan * Fan)>>), <<0, va \div Fan>>)

\* mappages, for the one page its callers here map.
mappages(M, va, pa, user) ==
  LET W == walk(M, va)
  IN  IF ~W.ok THEN W
      ELSE [W EXCEPT !.pt.maps = (va :> [pa |-> pa, user |-> user]) @@ @,
                     !.panic = @ \/ va \in DOMAIN W.pt.maps]

uvmunmap(M, vas, do_free) ==
  [M EXCEPT !.panic = @ \/ ~(vas \subseteq DOMAIN M.pt.maps),
            !.free = IF do_free
                     THEN @ \union {M.pt.maps[v].pa : v \in vas \intersect DOMAIN M.pt.maps}
                     ELSE @,
            !.pt.maps = Restrict(@, DOMAIN @ \ vas)]

uvmdealloc(M, oldsz, newsz) ==
  IF newsz >= oldsz THEN M ELSE uvmunmap(M, Pages(newsz)..(Pages(oldsz) - 1), TRUE)

freewalk(M) ==
  [M EXCEPT !.panic = @ \/ DOMAIN M.pt.maps # {},
            !.free = @ \union {M.pt.root} \union {M.pt.dirs[n] : n \in DOMAIN M.pt.dirs},
            !.pt = NoPt]
uvmfree(M, sz) == freewalk(uvmunmap(M, 0..(Pages(sz) - 1), TRUE))
proc_freepagetable(M, sz) ==
  uvmfree(uvmunmap(uvmunmap(M, {TRAMPOLINE}, FALSE), {TRAPFRAME}, FALSE), sz)

\* proc_pagetable: uvmcreate, then the two pages at the top; a failure gives
\* everything back.
proc_pagetable(f, tf) ==
  IF f = {} THEN [Mem(f, NoPt) EXCEPT !.ok = FALSE]
  ELSE LET M0 == Mem(f \ {Min(f)}, [NoPt EXCEPT !.root = Min(f)])
           M1 == mappages(M0, TRAMPOLINE, 0, FALSE)
           M2 == mappages(M1, TRAPFRAME, tf, FALSE)
       IN  IF ~M1.ok THEN uvmfree(M1, 0)
           ELSE IF ~M2.ok THEN uvmfree(uvmunmap(M2, {TRAMPOLINE}, FALSE), 0)
           ELSE M2

\* One turn of the loops of uvmalloc and uvmcopy: a page for va.  kfree(mem)
\* when mappages fails.
onepage(M, va, user) ==
  IF M.free = {} THEN [M EXCEPT !.ok = FALSE]
  ELSE LET pa == Min(M.free)
           N == mappages([M EXCEPT !.free = @ \ {pa}], va, pa, user)
       IN  IF N.ok THEN N ELSE [N EXCEPT !.free = @ \union {pa}]

\* freeproc: the trapframe, then the page table with p->sz bytes of memory.
freeproc(f, q) == proc_freepagetable(Mem(f \union {q.tf}, q.pt), q.sz)

-----------------------------------------------------------------------------
Init ==   \* userinit: a trapframe, a page table, one page of memory
  LET M == onepage(proc_pagetable(Page \ {1}, 1), 0, TRUE)
  IN  /\ free = M.free
      /\ proc = [p \in Proc |-> IF p = Init1
                                THEN [live |-> TRUE, tf |-> 1, pt |-> M.pt, sz |-> PGSIZE]
                                ELSE Unused]
      /\ th = [p \in Proc |-> Idle] /\ panicked = M.panic /\ sbrk = NoSbrk

InUser(p) == proc[p].live /\ th[p].pc = "user"
Memory(M) == free' = M.free /\ panicked' = (panicked \/ M.panic)
Return(p) == th' = [th EXCEPT ![p] = Idle]

shrunk(sz, new) == IF new >= sz THEN sz ELSE new
growproc(p) ==
  /\ InUser(p)
  /\ \E n \in Grow :
       LET sz == proc[p].sz % UMod
           new == (sz + n) % UMod
           M == IF n < 0 THEN uvmdealloc(Mem(free, proc[p].pt), sz, new)
                ELSE Mem(free, proc[p].pt)
           got == IF n < 0 THEN shrunk(sz, new) ELSE sz
       IN  /\ Memory(M)
           /\ \/ /\ n > 0 /\ new >= sz
                 /\ th' = [th EXCEPT ![p] = [Idle EXCEPT !.pc = "grow", !.sz = sz, !.n = n,
                                                 !.a = Pages(sz), !.to = new]]
                 /\ UNCHANGED proc /\ sbrk' = NoSbrk
              \/ /\ n <= 0 \/ new < sz
                 /\ proc' = [proc EXCEPT ![p].pt = M.pt, ![p].sz = got]
                 /\ sbrk' = [old |-> sz, n |-> n, new |-> got]
                 /\ UNCHANGED th

\* The loop of uvmalloc, from size th[p].sz to th[p].to, for growproc on the
\* process's page table and for exec on the new one.
Growing(p) == th[p].pc = "grow"
Table(p) == IF Growing(p) THEN proc[p].pt ELSE th[p].pt
Store(p, t) ==
  IF Growing(p) THEN proc' = [proc EXCEPT ![p].pt = t]
  ELSE UNCHANGED proc
Turn(p) == onepage(Mem(free, Table(p)), th[p].a, TRUE)
InLoop(p) == th[p].pc \in {"grow", "seg", "stack"} /\ th[p].a * PGSIZE < th[p].to

\* exec returns: the page table M.pt goes (the new one when exec fails, the old
\* one when it succeeds), and sys_exec frees the pages with the arguments.
exec_end(p, M, sz) ==
  proc_freepagetable([M EXCEPT !.free = @ \union th[p].args], sz)

uvmalloc(p) ==
  /\ InLoop(p) /\ Turn(p).ok
  /\ Memory(Turn(p)) /\ Store(p, Turn(p).pt)
  /\ th' = [th EXCEPT ![p].a = @ + 1, ![p].pt = IF Growing(p) THEN @ ELSE Turn(p).pt]
  /\ sbrk' = NoSbrk

uvmalloc_fails(p) ==
  /\ InLoop(p) /\ ~Turn(p).ok
  /\ LET M == uvmdealloc([Turn(p) EXCEPT !.ok = TRUE], th[p].a * PGSIZE,
                         Pages(th[p].sz) * PGSIZE)
     IN  IF Growing(p) THEN Memory(M) /\ Store(p, M.pt)
         ELSE Memory(exec_end(p, M, th[p].sz)) /\ UNCHANGED proc
  /\ Return(p) /\ sbrk' = NoSbrk

Done(p, l) == th[p].pc = l /\ th[p].a * PGSIZE >= th[p].to

growproc_done(p) ==
  /\ Done(p, "grow")
  /\ proc' = [proc EXCEPT ![p].sz = th[p].to]
  /\ sbrk' = [old |-> th[p].sz, n |-> th[p].n, new |-> th[p].to]
  /\ Return(p) /\ UNCHANGED <<free, panicked>>

-----------------------------------------------------------------------------
(* exec builds a new page table beside the old one.  sys_exec has brought   *)
(* the arguments into the kernel before, a page for each.                   *)

sys_exec(p) ==
  /\ InUser(p)
  /\ \E prog \in Programs :
       th' = [th EXCEPT ![p] = [Idle EXCEPT !.pc = "argv", !.segs = prog]]
  /\ UNCHANGED <<free, proc, panicked>> /\ sbrk' = NoSbrk
sys_exec_arg(p) ==
  /\ th[p].pc = "argv" /\ Cardinality(th[p].args) < MAXARG /\ free # {}
  /\ th' = [th EXCEPT ![p].args = @ \union {Min(free)}]
  /\ free' = free \ {Min(free)}
  /\ UNCHANGED <<proc, panicked>> /\ sbrk' = NoSbrk
sys_exec_bad(p) ==   \* no page, a bad address, too many arguments, no such file
  /\ th[p].pc = "argv"
  /\ free' = free \union th[p].args
  /\ Return(p) /\ UNCHANGED <<proc, panicked>> /\ sbrk' = NoSbrk

exec(p) ==
  /\ th[p].pc = "argv"
  /\ LET M == proc_pagetable(free, proc[p].tf)
     IN  IF M.ok THEN /\ Memory(M)
                      /\ th' = [th EXCEPT ![p].pc = "seg", ![p].pt = M.pt,
                            ![p].to = Head(th[p].segs), ![p].segs = Tail(@)]
         ELSE Memory([M EXCEPT !.free = @ \union th[p].args]) /\ Return(p)
  /\ UNCHANGED proc /\ sbrk' = NoSbrk

\* A segment is in memory: the next one, or the guard page and the stack.
exec_next(p) ==
  /\ Done(p, "seg")
  /\ LET sz == Max({th[p].sz, th[p].to})
     IN  th' = [th EXCEPT ![p] =
           IF @.segs # <<>>
           THEN [@ EXCEPT !.sz = sz, !.a = Pages(sz), !.to = Head(th[p].segs),
                          !.segs = Tail(@)]
           ELSE [@ EXCEPT !.pc = "stack", !.sz = Pages(sz) * PGSIZE, !.a = Pages(sz),
                          !.to = Pages(sz) * PGSIZE + 2 * PGSIZE]]
  /\ UNCHANGED <<free, proc, panicked>> /\ sbrk' = NoSbrk

\* The goto bad of a wrong program header (before uvmalloc), of a short file
\* and of arguments too long (after it).
exec_bad_header(p) ==
  /\ th[p].pc = "seg" /\ th[p].a = Pages(th[p].sz)
  /\ Memory(exec_end(p, Mem(free, th[p].pt), th[p].sz))
  /\ Return(p) /\ UNCHANGED proc /\ sbrk' = NoSbrk
exec_bad(p) ==
  /\ Done(p, "seg") \/ Done(p, "stack")
  /\ Memory(exec_end(p, Mem(free, th[p].pt), Max({th[p].sz, th[p].to})))
  /\ Return(p) /\ UNCHANGED proc /\ sbrk' = NoSbrk

\* uvmclear on the guard page, then the new image replaces the old one.
exec_commit(p) ==
  /\ Done(p, "stack")
  /\ Memory(exec_end(p, Mem(free, proc[p].pt), proc[p].sz))
  /\ proc' = [proc EXCEPT ![p].sz = th[p].to,
                ![p].pt = [th[p].pt EXCEPT !.maps[Pages(th[p].sz)].user = FALSE]]
  /\ Return(p) /\ sbrk' = NoSbrk

-----------------------------------------------------------------------------
(* fork and exit.  allocproc keeps the slot's lock until fork is done.      *)

Slots == {c \in Proc : proc[c] = Unused}
fork(p) ==
  /\ InUser(p) /\ Slots # {} /\ free # {}
  /\ LET c == CHOOSE q \in Slots : TRUE
         tf == Min(free)
         M == proc_pagetable(free \ {tf}, tf)
     IN  IF M.ok
         THEN /\ Memory(M)
              /\ proc' = [proc EXCEPT ![c].tf = tf, ![c].pt = M.pt]
              /\ th' = [th EXCEPT ![p] = [Idle EXCEPT !.pc = "copy", !.child = c]]
         ELSE /\ Memory([M EXCEPT !.free = @ \union {tf}])
              /\ UNCHANGED <<proc, th>>
  /\ sbrk' = NoSbrk

\* One turn of uvmcopy; on failure fork frees what the child has.
\* (uvmcopy_keeps is a mutant.)
uvmcopy_keeps(M, i) == M
uvmcopy_err(M, i) == uvmunmap(M, 0..(i - 1), TRUE)
uvmcopy(p) ==
  LET c == th[p].child
      i == th[p].a
      there == i \in DOMAIN proc[p].pt.maps     \* panic("uvmcopy: page not present")
      M == onepage([Mem(free, proc[c].pt) EXCEPT !.panic = ~there], i,
                   there /\ proc[p].pt.maps[i].user)
      E == uvmcopy_err([M EXCEPT !.ok = TRUE], i)
  IN  /\ th[p].pc = "copy" /\ i * PGSIZE < proc[p].sz
      /\ IF M.ok
         THEN /\ Memory(M) /\ proc' = [proc EXCEPT ![c].pt = M.pt]
              /\ th' = [th EXCEPT ![p].a = @ + 1]
         ELSE /\ Memory([freeproc(E.free, [proc[c] EXCEPT !.pt = E.pt]) EXCEPT
                           !.panic = @ \/ E.panic])
              /\ proc' = [proc EXCEPT ![c] = Unused]
              /\ Return(p)
      /\ sbrk' = NoSbrk

fork_done(p) ==
  /\ th[p].pc = "copy" /\ th[p].a * PGSIZE >= proc[p].sz
  /\ proc' = [proc EXCEPT ![th[p].child].live = TRUE, ![th[p].child].sz = proc[p].sz]
  /\ Return(p) /\ UNCHANGED <<free, panicked>> /\ sbrk' = NoSbrk

\* The parent's wait frees a process that has exited.
exit_wait(p) ==
  /\ InUser(p) /\ p # Init1
  /\ Memory(freeproc(free, proc[p]))
  /\ proc' = [proc EXCEPT ![p] = Unused]
  /\ UNCHANGED th /\ sbrk' = NoSbrk

Next == \E p \in Proc :
  \/ growproc(p) \/ uvmalloc(p) \/ uvmalloc_fails(p) \/ growproc_done(p)
  \/ sys_exec(p) \/ sys_exec_arg(p) \/ sys_exec_bad(p) \/ exec(p) \/ exec_next(p)
  \/ exec_bad_header(p) \/ exec_bad(p) \/ exec_commit(p)
  \/ fork(p) \/ uvmcopy(p) \/ fork_done(p) \/ exit_wait(p)
Spec == Init /\ [][Next]_vars

-----------------------------------------------------------------------------
(* copyout, copyin: the pieces <<page, offset, length>> they move, or Fault. *)

Fault == <<"fault">>
walkaddr(t, v) ==
  IF v \in DOMAIN t.maps /\ t.maps[v].user THEN t.maps[v].pa ELSE 0
\* (copy_page is a mutant: n is not cut at the end of the page.)
copy_page(va, len) == len
copy_n(va, len) == Min({PGSIZE - (va % PGSIZE), len})
copyout(t, start, all) ==
  LET from[len \in 0..all] ==
        IF len = 0 THEN <<>>
        ELSE LET va == start + all - len
                 pa == walkaddr(t, va \div PGSIZE)
                 n == copy_n(va, len)
                 rest == from[len - n]
             IN  IF pa = 0 \/ rest = Fault THEN Fault
                 ELSE <<<<pa, va % PGSIZE, n>>>> \o rest
  IN  from[all]

-----------------------------------------------------------------------------
(* Properties.                                                              *)

\* The places that hold a page: trapframes, page-table pages, user memory, of
\* every process and of every page table exec is still building; arguments.
Holds(t) ==    \* as pairs <<place, page>>; the root is at level 2
  {<<<<2, 0>>, t.root>>} \union {<<n, t.dirs[n]>> : n \in DOMAIN t.dirs}
    \union {<<<<-1, v>>, t.maps[v].pa>> : v \in DOMAIN t.maps \ {TRAMPOLINE, TRAPFRAME}}
Places ==
  UNION {{<<p, "proc">>} \X (Holds(proc[p].pt) \union {<<<<3, 0>>, proc[p].tf>>})
           \union {<<p, "exec">>} \X
                    (Holds(th[p].pt) \union {<<<<4, pg>>, pg>> : pg \in th[p].args}) : p \in Proc}

\* No page is lost, shared or free while in use: every page is on the free
\* list or in exactly one place, at every step of calls that run out of memory
\* half way; and p->sz, or exec's sz, always says what is mapped, so that none of
\* vm.c's panics ("remap", "uvmunmap: not mapped", "freewalk: leaf") is reached.
PagesConserved ==
  LET held == {x \in Places : x[2][2] # 0}
      inuse == {x[2][2] : x \in held}
  IN  /\ Cardinality(inuse) = Cardinality(held)
      /\ inuse \intersect free = {}
      /\ inuse \union free = Page
      /\ ~panicked


\* copyout and copyin move byte k of the buffer to the byte of physical memory
\* that the page table maps va + k to, and fail exactly when one of them is
\* not the user's (the guard page, the pages at the top, beyond the size).
CopyExact ==
  \A p \in Proc : InUser(p) =>
    \A va \in 0..(proc[p].sz + PGSIZE), len \in CopyLens :
      LET c == copyout(proc[p].pt, va, len)
          target(k) == walkaddr(proc[p].pt, (va + k) \div PGSIZE)
          sum[j \in 0..Len(c)] == IF j = 0 THEN 0 ELSE sum[j - 1] + c[j][3]
      IN  IF \E k \in 0..(len - 1) : target(k) = 0 THEN c = Fault
          ELSE /\ c # Fault /\ sum[Len(c)] = len
               /\ \A j \in 1..Len(c), k \in 0..(len - 1) :
                    sum[j - 1] <= k /\ k < sum[j] =>
                      /\ c[j][1] = target(k)
                      /\ c[j][2] + k - sum[j - 1] = (va + k) % PGSIZE

=============================================================================
