-------------------------------- MODULE Proc --------------------------------
(***************************************************************************)
(* The process table of kernel/proc.c: fork, exit, wait, reparent and kill, *)
(* run by the kernel threads of the processes themselves, interleaved at    *)
(* every acquire of a process lock.                                         *)
(*                                                                          *)
(* A step that finds the lock it needs taken is not enabled: the thread     *)
(* spins.  A critical section that takes one lock, and releases it before   *)
(* it needs another, is one action.  A thread that takes no step is also    *)
(* what a preempted one looks like; the scheduler's own locking, yield and  *)
(* sleep on other channels are in Sched.                                    *)
(***************************************************************************)
EXTENDS Naturals, FiniteSets

CONSTANTS
  NProc,     \* NPROC
  MaxPid,    \* bound: no fork starts once nextpid is past it
  KillPids,  \* the pids programs pass to kill()
  MemFails   \* whether kalloc may find no page

ASSUME ProcConstants ==
  /\ NProc \in Nat /\ NProc > 1
  /\ MaxPid \in Nat
  /\ KillPids \subseteq Nat
  /\ MemFails \in BOOLEAN

Slot == 0..(NProc - 1)
init == 0
None == NProc

\* The loops over the table pass slot 0 without effect: init is in use, and
\* nobody's child.  They start here.
FirstSlot == 1
\* (Every *_none, *_held, *_nowake, *Live and *Unlocked variant
\* below is a mutant of the definition after it.)
LastSlot(s) == s + 1 = NProc

VARIABLES
  state,    \* [Slot -> States]: p->state
  parent,   \* [Slot -> Slot or None]: p->parent
  killed,   \* [Slot -> BOOLEAN]: p->killed
  pid,      \* [Slot -> Nat]: p->pid
  lk,       \* [Slot -> Slot or None]: who holds p->lock
  pc,       \* [Slot -> Labels]: where the slot's kernel thread is
  idx,      \* [Slot -> 0..NProc]: loop variable of its scan of the table
  tgt,      \* [Slot -> Slot or None]: np in fork, original_parent in exit
  kids,     \* [Slot -> BOOLEAN]: havekids in wait
  nextpid

table == <<state, parent, killed, pid>>
locals == <<idx, tgt, kids>>
vars == <<table, lk, pc, locals, nextpid>>

States == {"UNUSED", "SLEEPING", "RUNNABLE", "RUNNING", "ZOMBIE"}
Labels == {"none", "new", "user", "alloc", "fork", "exit_parent", "lock_parent",
           "lock_self", "reparent", "exit", "sched", "dead", "scan", "asleep"}

Free(s) == lk[s] = None
Goto(p, l) == pc' = [pc EXCEPT ![p] = l]

\* The table as userinit leaves it, once init runs.
Init ==
  /\ state = [s \in Slot |-> IF s = init THEN "RUNNING" ELSE "UNUSED"]
  /\ parent = [s \in Slot |-> None]
  /\ killed = [s \in Slot |-> FALSE]
  /\ pid = [s \in Slot |-> IF s = init THEN 1 ELSE 0]
  /\ lk = [s \in Slot |-> None]
  /\ pc = [s \in Slot |-> IF s = init THEN "user" ELSE "none"]
  /\ idx = [s \in Slot |-> 0] /\ tgt = [s \in Slot |-> None]
  /\ kids = [s \in Slot |-> FALSE]
  /\ nextpid = 2

\* A process enters the kernel only if usertrap did not find it killed.
InUser(p) == state[p] = "RUNNING" /\ pc[p] = "user" /\ ~killed[p]

-----------------------------------------------------------------------------
(* fork *)

fork(p) ==
  /\ InUser(p) /\ nextpid <= MaxPid
  /\ idx' = [idx EXCEPT ![p] = FirstSlot]
  /\ Goto(p, "alloc")
  /\ UNCHANGED <<table, lk, tgt, kids, nextpid>>

allocpid == nextpid' = nextpid + 1

\* One turn of allocproc's loop: a slot in use is passed, ...
allocproc_pass(p) ==
  LET s == idx[p] IN
  /\ pc[p] = "alloc" /\ Free(s) /\ state[s] # "UNUSED"
  /\ Goto(p, IF LastSlot(s) THEN "user" ELSE "alloc")
  /\ idx' = [idx EXCEPT ![p] = IF LastSlot(s) THEN 0 ELSE s + 1]
  /\ UNCHANGED <<table, lk, tgt, kids, nextpid>>

\* ... a free one is kept locked.
allocproc(p) ==
  LET s == idx[p] IN
  /\ pc[p] = "alloc" /\ Free(s) /\ state[s] = "UNUSED"
  /\ lk' = [lk EXCEPT ![s] = p]
  /\ pid' = [pid EXCEPT ![s] = nextpid]
  /\ allocpid
  /\ tgt' = [tgt EXCEPT ![p] = s]
  /\ Goto(p, "fork")
  /\ UNCHANGED <<state, parent, killed, idx, kids>>

Release(s) == lk' = [lk EXCEPT ![s] = None]

\* A thread's local variables are gone when its system call is over.
Forget(p) ==
  /\ idx' = [idx EXCEPT ![p] = 0]
  /\ tgt' = [tgt EXCEPT ![p] = None]
  /\ kids' = [kids EXCEPT ![p] = FALSE]

\* No page for the trapframe: allocproc returns with the new pid still in place.
fork_no_trapframe(p) ==
  /\ pc[p] = "fork" /\ MemFails
  /\ Release(tgt[p]) /\ Goto(p, "user") /\ Forget(p)
  /\ UNCHANGED <<table, nextpid>>

freeproc(s) ==
  /\ state' = [state EXCEPT ![s] = "UNUSED"]
  /\ parent' = [parent EXCEPT ![s] = None]
  /\ killed' = [killed EXCEPT ![s] = FALSE]
  /\ pid' = [pid EXCEPT ![s] = 0]

\* proc_pagetable or uvmcopy runs out of pages.
fork_no_memory(p) ==
  /\ pc[p] = "fork" /\ MemFails
  /\ freeproc(tgt[p])
  /\ Release(tgt[p]) /\ Goto(p, "user") /\ Forget(p)
  /\ UNCHANGED nextpid

fork_done(p) ==
  LET np == tgt[p] IN
  /\ pc[p] = "fork"
  /\ parent' = [parent EXCEPT ![np] = p]
  /\ state' = [state EXCEPT ![np] = "RUNNABLE"]
  /\ Release(np) /\ Forget(p)
  /\ pc' = [pc EXCEPT ![p] = "user", ![np] = "new"]
  /\ UNCHANGED <<killed, pid, nextpid>>

-----------------------------------------------------------------------------
(* exit, called by the process or by usertrap when it finds it killed *)

\* wakeup1(s) on the states st: only a process asleep in wait sleeps on its own
\* address, and that is the only sleep of this module.
wakeup1_none(st, s) == st
wakeup1(st, s) ==
  IF st[s] = "SLEEPING" THEN [st EXCEPT ![s] = "RUNNABLE"] ELSE st

\* The files are closed; init is woken "whether that's necessary or not".
exit_wake_init(p) ==
  /\ state[p] = "RUNNING" /\ pc[p] = "user" /\ p # init
  /\ Free(init)
  /\ state' = wakeup1(state, init)
  /\ Goto(p, "exit_parent")
  /\ UNCHANGED <<parent, killed, pid, lk, locals, nextpid>>

\* Mutant: p->lock is not released before the parent's is taken.
exit_parent_held(p) ==
  /\ pc[p] = "exit_parent" /\ Free(p)
  /\ tgt' = [tgt EXCEPT ![p] = parent[p]]
  /\ lk' = [lk EXCEPT ![p] = p]
  /\ Goto(p, "lock_parent")
  /\ UNCHANGED <<table, idx, kids, nextpid>>

\* original_parent is read under p->lock, which is then released.
exit_parent(p) ==
  /\ pc[p] = "exit_parent" /\ Free(p)
  /\ tgt' = [tgt EXCEPT ![p] = parent[p]]
  /\ Goto(p, "lock_parent")
  /\ UNCHANGED <<table, lk, idx, kids, nextpid>>

exit_lock_parent(p) ==
  /\ pc[p] = "lock_parent" /\ Free(tgt[p])
  /\ lk' = [lk EXCEPT ![tgt[p]] = p]
  /\ Goto(p, "lock_self")
  /\ UNCHANGED <<table, locals, nextpid>>

exit_lock_self(p) ==
  /\ pc[p] = "lock_self" /\ Free(p)
  /\ lk' = [lk EXCEPT ![p] = p]
  /\ idx' = [idx EXCEPT ![p] = FirstSlot]
  /\ Goto(p, "reparent")
  /\ UNCHANGED <<table, tgt, kids, nextpid>>

AbandonedLive(p, s) == parent[s] = p /\ state[s] # "ZOMBIE"
Abandoned(p, s) == parent[s] = p

\* One turn of reparent's loop: parent is read before the lock is taken.
reparent(p) ==
  LET s == idx[p] IN
  /\ pc[p] = "reparent"
  /\ \/ Abandoned(p, s) /\ Free(s) /\ parent' = [parent EXCEPT ![s] = init]
     \/ ~Abandoned(p, s) /\ UNCHANGED parent
  /\ idx' = [idx EXCEPT ![p] = IF LastSlot(s) THEN 0 ELSE s + 1]
  /\ Goto(p, IF LastSlot(s) THEN "exit" ELSE "reparent")
  /\ UNCHANGED <<state, killed, pid, lk, tgt, kids, nextpid>>

\* Wake the parent, become a zombie, release the parent's lock.
exit(p) ==
  LET q == tgt[p] IN
  /\ pc[p] = "exit"
  /\ state' = [wakeup1(state, q) EXCEPT ![p] = "ZOMBIE"]
  /\ Release(q)
  /\ Goto(p, "sched")
  /\ UNCHANGED <<parent, killed, pid, locals, nextpid>>

\* The switch to the scheduler is over: the CPU has left p's kernel stack, and
\* the scheduler releases p->lock.
exit_sched(p) ==
  /\ pc[p] = "sched"
  /\ Release(p) /\ Goto(p, "dead") /\ Forget(p)
  /\ UNCHANGED <<table, nextpid>>

-----------------------------------------------------------------------------
(* wait: p->lock is held from here until the return or the sleep *)

StartScan(p) ==
  /\ lk' = [lk EXCEPT ![p] = p]
  /\ idx' = [idx EXCEPT ![p] = FirstSlot]
  /\ kids' = [kids EXCEPT ![p] = FALSE]
  /\ UNCHANGED tgt

wait(p) ==
  /\ InUser(p) /\ Free(p)
  /\ StartScan(p)
  /\ Goto(p, "scan")
  /\ UNCHANGED <<table, nextpid>>

Scanning(p) == pc[p] = "scan" /\ idx[p] < NProc

\* The scan passes a slot: not a child, or a child that has not exited.
wait_pass(p) ==
  LET s == idx[p] IN
  /\ Scanning(p)
  /\ parent[s] = p => Free(s) /\ state[s] # "ZOMBIE"
  /\ idx' = [idx EXCEPT ![p] = s + 1]
  /\ kids' = [kids EXCEPT ![p] = @ \/ parent[s] = p]
  /\ UNCHANGED <<table, lk, pc, tgt, nextpid>>

FoundZombieUnlocked(p) ==
  Scanning(p) /\ parent[idx[p]] = p /\ state[idx[p]] = "ZOMBIE"
FoundZombie(p) ==
  /\ Scanning(p)
  /\ parent[idx[p]] = p /\ Free(idx[p]) /\ state[idx[p]] = "ZOMBIE"

wait_reap(p) ==
  /\ FoundZombie(p)
  /\ freeproc(idx[p])
  /\ Release(p) /\ Forget(p)
  /\ pc' = [pc EXCEPT ![p] = "user", ![idx[p]] = "none"]
  /\ UNCHANGED nextpid

\* copyout of the status fails: -1, and the child stays a zombie.
wait_copyout_fails(p) ==
  /\ FoundZombie(p)
  /\ Release(p) /\ Forget(p) /\ Goto(p, "user")
  /\ UNCHANGED <<table, nextpid>>

ScanDone(p) == pc[p] = "scan" /\ idx[p] = NProc

wait_none(p) ==
  /\ ScanDone(p) /\ (~kids[p] \/ killed[p])
  /\ Release(p) /\ Forget(p) /\ Goto(p, "user")
  /\ UNCHANGED <<table, nextpid>>

\* sleep(p, &p->lock): the scheduler releases p->lock after the switch.
wait_sleep(p) ==
  /\ ScanDone(p) /\ kids[p] /\ ~killed[p]
  /\ state' = [state EXCEPT ![p] = "SLEEPING"]
  /\ Release(p) /\ Forget(p) /\ Goto(p, "asleep")
  /\ UNCHANGED <<parent, killed, pid, nextpid>>

-----------------------------------------------------------------------------
(* The scheduler picks a RUNNABLE process: a new one returns to user space   *)
(* through forkret, a waiting one scans again, still holding p->lock.        *)
run_new(p) ==
  /\ state[p] = "RUNNABLE" /\ pc[p] = "new" /\ Free(p)
  /\ state' = [state EXCEPT ![p] = "RUNNING"]
  /\ Goto(p, "user")
  /\ UNCHANGED <<parent, killed, pid, lk, locals, nextpid>>

run_waiter(p) ==
  /\ state[p] = "RUNNABLE" /\ pc[p] = "asleep" /\ Free(p)
  /\ state' = [state EXCEPT ![p] = "RUNNING"]
  /\ StartScan(p)
  /\ Goto(p, "scan")
  /\ UNCHANGED <<parent, killed, pid, nextpid>>

\* Mutant: kill leaves a sleeping victim asleep.
kill_nowake(p, t) ==
  /\ InUser(p) /\ Free(t) /\ pid[t] \in KillPids
  /\ killed' = [killed EXCEPT ![t] = TRUE]
  /\ UNCHANGED <<state, parent, pid, lk, pc, locals, nextpid>>

\* kill(pid[t]) by p, at the turn of its loop that finds the pid.
kill(p, t) ==
  /\ InUser(p) /\ Free(t) /\ pid[t] \in KillPids
  /\ killed' = [killed EXCEPT ![t] = TRUE]
  /\ state' = wakeup1(state, t)
  /\ UNCHANGED <<parent, pid, lk, pc, locals, nextpid>>

-----------------------------------------------------------------------------
Fork(p) == fork(p) \/ allocproc_pass(p) \/ allocproc(p) \/ fork_no_trapframe(p) \/ fork_no_memory(p) \/ fork_done(p)
Exit(p) == exit_parent(p) \/ exit_lock_parent(p) \/ exit_lock_self(p) \/ reparent(p) \/ exit(p) \/ exit_sched(p)
Wait(p) == wait_pass(p) \/ wait_reap(p) \/ wait_none(p) \/ wait_sleep(p)
Run(p) == run_new(p) \/ run_waiter(p)

Next == \E p \in Slot :
  \/ Fork(p)
  \/ exit_wake_init(p) \/ Exit(p)
  \/ wait(p) \/ Wait(p) \/ wait_copyout_fails(p)
  \/ Run(p)
  \/ \E t \in Slot : kill(p, t)

Spec == Init /\ [][Next]_vars

\* A thread inside the kernel keeps going, and a lock that is free again and
\* again is got in the end; a killed process that reaches usertrap exits; init
\* calls wait() for ever (user/init.c).
KernelStep(p) ==
  \/ allocproc_pass(p) \/ allocproc(p) \/ fork_done(p) \/ Exit(p) \/ Wait(p) \/ Run(p)
  \/ killed[p] /\ exit_wake_init(p)
  \/ p = init /\ wait(p)
Fairness == \A p \in Slot : SF_vars(KernelStep(p))

FairSpec == Spec /\ Fairness

-----------------------------------------------------------------------------
\* Every variable stays in its range.
TypeOK ==
  /\ state \in [Slot -> States]
  /\ parent \in [Slot -> Slot \cup {None}]
  /\ killed \in [Slot -> BOOLEAN]
  /\ pid \in [Slot -> Nat] /\ nextpid \in Nat
  /\ lk \in [Slot -> Slot \cup {None}]
  /\ pc \in [Slot -> Labels]
  /\ idx \in [Slot -> 0..NProc] /\ tgt \in [Slot -> Slot \cup {None}]
  /\ kids \in [Slot -> BOOLEAN]

\* exit gives every child away before it makes the process a zombie: each
\* process has a parent that can still call wait().
ParentAlive ==
  \A s \in Slot \ {init} : state[s] # "UNUSED" =>
    parent[s] # None /\ state[parent[s]] \notin {"UNUSED", "ZOMBIE"}

\* allocpid's numbers identify processes: no two slots in use share a pid.
PidUnique ==
  \A s, t \in Slot : state[s] # "UNUSED" /\ state[t] # "UNUSED" /\ s # t =>
    pid[s] # pid[t]

\* wait frees a process only when no CPU is on its kernel stack any more: a
\* zombie keeps its lock until the scheduler has switched away from it.
FreedOffStack ==
  [][\A s \in Slot : state[s] = "ZOMBIE" /\ state'[s] = "UNUSED"
       => pc[s] = "dead"]_vars

\* No lost wakeup between exit and wait ("hold p->lock for the whole time to
\* avoid lost wakeups from a child's exit()"): a process other than init never
\* sleeps in wait while it has a zombie child.
NoLostExit ==
  \A p, c \in Slot : p # init /\ state[p] = "SLEEPING" /\ parent[c] = p
                     => state[c] # "ZOMBIE"

\* The process lock a thread spins for.
Wants(p) ==
  CASE pc[p] = "alloc" -> idx[p]
    [] pc[p] \in {"exit_parent", "lock_self"} -> p
    [] pc[p] = "lock_parent" -> tgt[p]
    [] pc[p] = "reparent" /\ parent[idx[p]] = p -> idx[p]
    [] Scanning(p) /\ parent[idx[p]] = p -> idx[p]
    [] OTHER -> None

Spinning == {p \in Slot : Wants(p) # None /\ lk[Wants(p)] # None}

\* No set of threads spins for locks that the set itself holds.
NoDeadlock ==
  \A D \in (SUBSET Spinning) \ {{}} : \E p \in D : lk[Wants(p)] \notin D

\* p holds the lock of a slot that was its parent when exit looked.
StaleParent(p) ==
  pc[p] \in {"lock_self", "reparent", "exit"} /\ parent[p] # tgt[p]

\* The parent-then-child lock order of exit, wait and reparent is free of
\* deadlock while every exiting process has locked its present parent.
NoDeadlockUnlessStale == NoDeadlock \/ \E p \in Slot : StaleParent(p)

\* A process that calls exit, or is killed, becomes a zombie.
ExitCompletes ==
  \A p \in Slot \ {init} :
    pc[p] = "exit_parent" \/ (killed[p] /\ state[p] # "UNUSED")
      ~> state[p] \in {"ZOMBIE", "UNUSED"}

=============================================================================
