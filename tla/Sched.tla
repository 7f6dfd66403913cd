------------------------------- MODULE Sched --------------------------------
(***************************************************************************)
(* CPUs, kernel threads and interrupts: the scheduler, sched/swtch, yield,  *)
(* sleep, wakeup and kill of kernel/proc.c, over the spin locks and         *)
(* push_off/pop_off of kernel/spinlock.c, and the traps of kernel/trap.c.   *)
(*                                                                          *)
(* A timer interrupt may come wherever interrupts are on: in user space, in *)
(* a system call, in the scheduler.  It pushes a frame on the thread's      *)
(* kernel stack; its handler may yield, so that the thread goes on later,   *)
(* on another CPU, inside the handler.  sys_sleep and clockintr are the     *)
(* users of sleep and wakeup: ticks is tested and changed under tickslock.  *)
(***************************************************************************)
EXTENDS Integers, Sequences, FiniteSets

CONSTANTS
  Proc, Cpu,
  Boot,      \* the CPU whose cpuid() is 0
  TickMod,   \* ticks is a uint: modulo TickMod
  Naps,      \* what sys_sleep is asked for, compared as a uint
  MayKill    \* processes that can be killed

ASSUME SchedConstants ==
  /\ Boot \in Cpu /\ TickMod \in Nat \ {0} /\ Naps \subseteq 0..(TickMod - 1)
  /\ MayKill \subseteq Proc
  /\ Proc \intersect Cpu = {} /\ "none" \notin Cpu /\ "tickslock" \notin Proc

None == "none"
tickslock == "tickslock"

VARIABLES
  state, killed,  \* p->state, p->killed
  chan,           \* [Proc -> BOOLEAN]: p->chan is &ticks
  lock,           \* [Proc and tickslock -> Cpu or None]: who holds p->lock, tickslock
  ticks,
  on,             \* [Cpu -> Proc or Cpu]: whose stack the CPU is on; c for its scheduler
  cpu,            \* [Cpu -> record]: struct cpu and the control registers
  stack,          \* [Proc and Cpu -> frames]: what runs there, innermost last
  hartid,         \* [Proc -> Cpu or None]: p->trapframe->kernel_hartid
  nap             \* [Proc -> [n, t0, past]]: sys_sleep's n and ticks0; ticks gone by

vars == <<state, killed, chan, lock, ticks, on, cpu, stack, hartid, nap>>

Frame(l) == [pc |-> l, next |-> "", sepc |-> <<>>, left |-> {}, intena |-> FALSE]
NoNap == [n |-> 0, t0 |-> 0, past |-> 0]

Init ==
  /\ state = [p \in Proc |-> "RUNNABLE"]
  /\ killed = [p \in Proc |-> FALSE] /\ chan = [p \in Proc |-> FALSE]
  /\ lock = [l \in Proc \union {tickslock} |-> None]
  /\ ticks = 0
  /\ on = [c \in Cpu |-> c]
  /\ cpu = [c \in Cpu |-> [intr |-> FALSE, noff |-> 0, intena |-> FALSE,
                           sepc |-> <<>>, tp |-> c, stvec |-> "kernelvec"]]
  /\ stack = [k \in Proc \union Cpu |->
                <<Frame(IF k \in Proc THEN "forkret" ELSE "loop")>>]
  /\ hartid = [p \in Proc |-> None]
  /\ nap = [p \in Proc |-> NoNap]

Top(k) == stack[k][Len(stack[k])]
At(c, l) == Top(on[c]).pc = l
WithTop(k, f) == [stack EXCEPT ![k][Len(stack[k])] = f]
Goto(c, l) == stack' = WithTop(on[c], [Top(on[c]) EXCEPT !.pc = l, !.intena = FALSE])
Base(c) == Len(stack[on[c]]) = 1     \* not in an interrupt of kernel code
SetCpu(c, r) == cpu' = [cpu EXCEPT ![c] = r]

-----------------------------------------------------------------------------
(* Spin locks.  acquire and release, with what they do to interrupts.       *)

push_off(r) == [r EXCEPT !.intr = FALSE, !.noff = @ + 1,
                         !.intena = IF r.noff = 0 THEN r.intr ELSE @]
\* (pop_off_on is a mutant: every release turns interrupts on.)
pop_off_on(r) == [r EXCEPT !.noff = @ - 1, !.intr = TRUE]
pop_off(r) == [r EXCEPT !.noff = @ - 1, !.intr = @ \/ (r.noff = 1 /\ r.intena),
                        !.intena = r.noff > 1 /\ @]    \* not read while noff is 0

acquire(c, l) ==
  /\ lock[l] = None
  /\ lock' = [lock EXCEPT ![l] = c] /\ SetCpu(c, push_off(cpu[c]))
release(c, l) ==
  /\ lock' = [lock EXCEPT ![l] = None] /\ SetCpu(c, pop_off(cpu[c]))

-----------------------------------------------------------------------------
(* The scheduler.  Which slot its loop reaches next is left open.            *)

scheduler(c) ==     \* the top of its loop: intr_on
  /\ on[c] = c /\ At(c, "loop") /\ ~cpu[c].intr
  /\ SetCpu(c, [cpu[c] EXCEPT !.intr = TRUE])
  /\ UNCHANGED <<state, killed, chan, lock, ticks, on, stack, hartid, nap>>

\* The end of p's sched(): "intena is a property of this kernel thread, not
\* this CPU".
resumed(r, f) == IF f.pc = "forkret" THEN r ELSE [r EXCEPT !.intena = f.intena]

pick(c, p) ==
  /\ on[c] = c /\ At(c, "loop") /\ lock[p] = None /\ state[p] = "RUNNABLE"
  /\ lock' = [lock EXCEPT ![p] = c]
  /\ SetCpu(c, resumed(push_off(cpu[c]), Top(p)))
  /\ state' = [state EXCEPT ![p] = "RUNNING"]
  /\ on' = [on EXCEPT ![c] = p]
  /\ UNCHANGED <<killed, chan, ticks, stack, hartid, nap>>

\* sched() with the new state already set, up to swtch; p continues at l.
\* p->lock stays with the CPU (the mutant releases it).
SchedUnlocked(c, s, l, locks) ==
  /\ state' = [state EXCEPT ![on[c]] = s]
  /\ stack' = WithTop(on[c], [Top(on[c]) EXCEPT !.pc = "sched", !.next = l,
                                                !.intena = cpu'[c].intena])
  /\ lock' = [locks EXCEPT ![on[c]] = None]
Sched(c, s, l, locks) ==
  /\ state' = [state EXCEPT ![on[c]] = s]
  /\ stack' = WithTop(on[c], [Top(on[c]) EXCEPT !.pc = "sched", !.next = l,
                                                !.intena = cpu'[c].intena])
  /\ lock' = [locks EXCEPT ![on[c]] = c]

\* swtch is complete: c->proc = 0, and the scheduler releases p->lock.
swtch(c) ==
  /\ At(c, "sched")
  /\ lock' = [lock EXCEPT ![on[c]] = None]
  /\ SetCpu(c, [pop_off(cpu[c]) EXCEPT !.sepc = <<>>])
  /\ stack' = WithTop(on[c], [Top(on[c]) EXCEPT !.pc = Top(on[c]).next, !.next = ""])
  /\ on' = [on EXCEPT ![c] = c]
  /\ UNCHANGED <<state, killed, chan, ticks, hartid, nap>>

-----------------------------------------------------------------------------
(* Traps. *)

InUser(c) == At(c, "user")

\* uservec and usertrap, up to what the trap is: tp comes from the trapframe.
usertrap(c) == [cpu[c] EXCEPT !.tp = hartid[on[c]], !.stvec = "kernelvec", !.sepc = <<>>]

\* devintr: cpuid() is tp.
devintr(r) == IF r.tp = Boot THEN "clock" ELSE "after"

timer_user(c) ==
  /\ InUser(c)
  /\ SetCpu(c, [usertrap(c) EXCEPT !.intr = FALSE])
  /\ Goto(c, devintr(usertrap(c)))
  /\ UNCHANGED <<state, killed, chan, lock, ticks, on, hartid, nap>>

\* kernelvec and kerneltrap: the frame keeps sepc.
kerneltrap(c) ==
  /\ ~InUser(c) /\ cpu[c].intr
  /\ LET here == <<on[c], Len(stack[on[c]])>>
     IN  /\ SetCpu(c, [cpu[c] EXCEPT !.intr = FALSE, !.sepc = here])
         /\ stack' = [stack EXCEPT ![on[c]] =
                        Append(@, [Frame(devintr(cpu[c])) EXCEPT !.sepc = here])]
  /\ UNCHANGED <<state, killed, chan, lock, ticks, on, hartid, nap>>

\* clockintr: acquire(&tickslock), ticks++, then wakeup.
clockintr(c) ==
  /\ At(c, "clock") /\ acquire(c, tickslock)
  /\ ticks' = (ticks + 1) % TickMod
  /\ nap' = [p \in Proc |-> [nap[p] EXCEPT !.past = IF @ < nap[p].n THEN @ + 1 ELSE @]]
  /\ stack' = WithTop(on[c], [Top(on[c]) EXCEPT !.pc = "wakeup", !.left = Proc])
  /\ UNCHANGED <<state, killed, chan, on, hartid>>

\* Does q sleep on the channel?
Waken(q) == state[q] = "SLEEPING" /\ chan[q]

\* wakeup visits one slot (the code in table order, here in any order).
wakeup(c, q) ==
  /\ At(c, "wakeup") /\ q \in Top(on[c]).left /\ lock[q] = None
  /\ state' = IF Waken(q) THEN [state EXCEPT ![q] = "RUNNABLE"] ELSE state
  /\ stack' = WithTop(on[c], [Top(on[c]) EXCEPT !.left = @ \ {q}])
  /\ UNCHANGED <<killed, chan, lock, ticks, on, cpu, hartid, nap>>

clockintr_end(c) ==
  /\ At(c, "wakeup") /\ Top(on[c]).left = {} /\ release(c, tickslock)
  /\ Goto(c, "after")
  /\ UNCHANGED <<state, killed, chan, ticks, on, hartid, nap>>

\* After the device's handler: a killed process exits (usertrap only), a
\* process is made to yield, the scheduler is not.
exit(c) ==
  /\ on[c] \in Proc /\ Base(c) /\ (At(c, "after") \/ At(c, "sysret"))
  /\ killed[on[c]] /\ lock[on[c]] = None
  /\ SetCpu(c, push_off(cpu[c])) /\ Sched(c, "ZOMBIE", "zombie", lock)
  /\ UNCHANGED <<killed, chan, ticks, on, hartid, nap>>

yield(c) ==
  /\ on[c] \in Proc /\ At(c, "after") /\ lock[on[c]] = None
  /\ IF Base(c) THEN ~killed[on[c]] ELSE state[on[c]] = "RUNNING"
  /\ SetCpu(c, push_off(cpu[c])) /\ Sched(c, "RUNNABLE", "yielded", lock)
  /\ UNCHANGED <<killed, chan, ticks, on, hartid, nap>>

\* kerneltrap ends by w_sepc: "restore trap registers for use by kernelvec.S".
\* (kept is a mutant of w_sepc.)
kept(r, f) == r
w_sepc(r, f) == [r EXCEPT !.sepc = f.sepc]

yield_return(c) ==
  /\ At(c, "yielded")
  /\ lock' = [lock EXCEPT ![on[c]] = None]
  /\ IF Base(c) THEN SetCpu(c, pop_off(cpu[c])) /\ Goto(c, "ret")
     ELSE SetCpu(c, w_sepc(pop_off(cpu[c]), Top(on[c]))) /\ Goto(c, "sret")
  /\ UNCHANGED <<state, killed, chan, ticks, on, hartid, nap>>

kerneltrap_end(c) ==
  /\ At(c, "after") /\ ~Base(c) /\ (on[c] \in Proc => state[on[c]] # "RUNNING")
  /\ SetCpu(c, w_sepc(cpu[c], Top(on[c])))
  /\ Goto(c, "sret")
  /\ UNCHANGED <<state, killed, chan, lock, ticks, on, hartid, nap>>

\* sret of kernelvec: tp is not restored, "in case we moved CPUs".
sret(c) ==
  /\ At(c, "sret")
  /\ SetCpu(c, [cpu[c] EXCEPT !.intr = TRUE, !.sepc = <<>>])
  /\ stack' = [stack EXCEPT ![on[c]] = SubSeq(@, 1, Len(@) - 1)]
  /\ UNCHANGED <<state, killed, chan, lock, ticks, on, hartid, nap>>

forkret(c) ==
  /\ At(c, "forkret") /\ release(c, on[c])
  /\ Goto(c, "ret")
  /\ UNCHANGED <<state, killed, chan, ticks, on, hartid, nap>>

\* usertrapret, up to sret.  (no_intr_off is a mutant.)
no_intr_off(r) == r
intr_off(r) == [r EXCEPT !.intr = FALSE]
usertrapret(c) ==
  /\ At(c, "ret") \/ (At(c, "sysret") /\ ~killed[on[c]])
  /\ SetCpu(c, [intr_off(cpu[c]) EXCEPT !.stvec = "uservec", !.sepc = <<on[c], 0>>])
  /\ hartid' = [hartid EXCEPT ![on[c]] = cpu[c].tp]
  /\ Goto(c, "userret")
  /\ UNCHANGED <<state, killed, chan, lock, ticks, on, nap>>

userret(c) ==
  /\ At(c, "userret")
  /\ SetCpu(c, [cpu[c] EXCEPT !.intr = TRUE, !.tp = None])    \* tp is the user's
  /\ Goto(c, "user")
  /\ UNCHANGED <<state, killed, chan, lock, ticks, on, hartid, nap>>

-----------------------------------------------------------------------------
(* sys_sleep. *)

syscall(c) ==
  /\ InUser(c)
  /\ SetCpu(c, [usertrap(c) EXCEPT !.intr = ~killed[on[c]]])
  /\ IF killed[on[c]] THEN Goto(c, "sysret") /\ UNCHANGED nap
     ELSE /\ Goto(c, "sys_sleep")
          /\ \E n \in Naps : nap' = [nap EXCEPT ![on[c]] = [NoNap EXCEPT !.n = n]]
  /\ UNCHANGED <<state, killed, chan, lock, ticks, on, hartid>>

sys_sleep(c) ==
  /\ At(c, "sys_sleep") /\ acquire(c, tickslock)
  /\ nap' = [nap EXCEPT ![on[c]].t0 = ticks, ![on[c]].past = 0]
  /\ Goto(c, "test")
  /\ UNCHANGED <<state, killed, chan, ticks, on, hartid>>

\* while(ticks - ticks0 < n), as uints.  (Due_sum is a mutant.)
Due_sum(p) == ticks >= (nap[p].t0 + nap[p].n) % TickMod
Due(p) == (ticks - nap[p].t0) % TickMod >= nap[p].n

\* It returns: 0, or -1 when killed.
sys_sleep_done(c) ==
  /\ At(c, "test") /\ Due(on[c]) /\ release(c, tickslock)
  /\ nap' = [nap EXCEPT ![on[c]] = NoNap]
  /\ Goto(c, "sysret")
  /\ UNCHANGED <<state, killed, chan, ticks, on, hartid>>
sys_sleep_killed(c) ==
  /\ At(c, "test") /\ ~Due(on[c]) /\ killed[on[c]] /\ release(c, tickslock)
  /\ nap' = [nap EXCEPT ![on[c]] = NoNap]
  /\ Goto(c, "sysret")
  /\ UNCHANGED <<state, killed, chan, ticks, on, hartid>>

\* The test of p->killed fails; p->lock is not held.
sys_sleep_waits(c) ==
  /\ At(c, "test") /\ ~Due(on[c]) /\ ~killed[on[c]]
  /\ Goto(c, "sleep")
  /\ UNCHANGED <<state, killed, chan, lock, ticks, on, cpu, hartid, nap>>

\* sleep(): p->lock first (the mutant gives up lk first), then lk is given up
\* and the state changes.
sleep_lock_early(c) ==
  /\ At(c, "sleep") /\ lock[on[c]] = None
  /\ lock' = [lock EXCEPT ![tickslock] = None] /\ SetCpu(c, push_off(cpu[c]))
  /\ Goto(c, "release")
  /\ UNCHANGED <<state, killed, chan, ticks, on, hartid, nap>>
sleep_lock(c) ==
  /\ At(c, "sleep") /\ acquire(c, on[c])
  /\ Goto(c, "release")
  /\ UNCHANGED <<state, killed, chan, ticks, on, hartid, nap>>

sleep_switch(c) ==
  /\ At(c, "release")
  /\ chan' = [chan EXCEPT ![on[c]] = TRUE]
  /\ SetCpu(c, pop_off(cpu[c]))
  /\ Sched(c, "SLEEPING", "woken", [lock EXCEPT ![tickslock] = None])
  /\ UNCHANGED <<killed, ticks, on, hartid, nap>>

sleep_return(c) ==
  /\ At(c, "woken") /\ release(c, on[c])
  /\ chan' = [chan EXCEPT ![on[c]] = FALSE]
  /\ Goto(c, "reacquire")
  /\ UNCHANGED <<state, killed, ticks, on, hartid, nap>>
sleep_reacquire(c) ==
  /\ At(c, "reacquire") /\ acquire(c, tickslock)
  /\ Goto(c, "test")
  /\ UNCHANGED <<state, killed, chan, ticks, on, hartid, nap>>

\* kill() finds its victim q; who calls it is left open.
kill(q) ==
  /\ q \in MayKill /\ ~killed[q] /\ lock[q] = None
  /\ killed' = [killed EXCEPT ![q] = TRUE]
  /\ state' = IF state[q] = "SLEEPING" THEN [state EXCEPT ![q] = "RUNNABLE"] ELSE state
  /\ UNCHANGED <<chan, lock, ticks, on, cpu, stack, hartid, nap>>

-----------------------------------------------------------------------------
Step(c) ==
  \/ clockintr(c) \/ (\E q \in Proc : wakeup(c, q)) \/ clockintr_end(c)
  \/ exit(c) \/ yield(c) \/ yield_return(c) \/ kerneltrap_end(c) \/ sret(c)
  \/ forkret(c) \/ usertrapret(c) \/ userret(c)
  \/ sys_sleep(c) \/ sys_sleep_done(c) \/ sys_sleep_killed(c) \/ sys_sleep_waits(c)
  \/ sleep_lock(c) \/ sleep_switch(c) \/ sleep_return(c)
  \/ sleep_reacquire(c) \/ swtch(c)

Next ==
  \/ \E c \in Cpu : \/ scheduler(c) \/ timer_user(c) \/ kerneltrap(c) \/ syscall(c)
                    \/ Step(c)
  \/ \E c \in Cpu, p \in Proc : pick(c, p)
  \/ \E q \in Proc : kill(q)

Spec == Init /\ [][Next]_vars

-----------------------------------------------------------------------------
\* Two CPUs are never on the same kernel stack: a process that has set its
\* state to RUNNABLE or SLEEPING keeps p->lock until its CPU has left the stack.
\* So whoever takes p->lock sees a state that tells the truth: while the lock is
\* free, p is RUNNING exactly when some CPU executes it.
OneStack ==
  /\ \A c, d \in Cpu : on[c] = on[d] => c = d
  /\ \A p \in Proc : lock[p] = None =>
       (state[p] = "RUNNING" <=> \E c \in Cpu : on[c] = p)

\* sched(), pop_off and acquire cannot panic or spin for ever on their own
\* CPU: a CPU that holds a lock has interrupts off and noff counts its locks;
\* one that switches away holds p->lock and nothing else; the interrupt
\* handler never wants a lock that the code it interrupted holds.
LocksMaskInterrupts ==
  \A c \in Cpu :
    LET held == {l \in DOMAIN lock : lock[l] = c}
    IN  /\ held # {} => ~cpu[c].intr
        /\ cpu[c].noff = Cardinality(held)
        /\ At(c, "sched") => held = {on[c]} /\ state[on[c]] # "RUNNING"
        /\ (At(c, "clock") \/ At(c, "after")) => held = {}

\* A trap, whenever it comes, goes where it should: in user space stvec is
\* uservec and the trapframe names this CPU; in the kernel tp names it, and
\* stvec is kernelvec while interrupts are on, however often the thread was
\* interrupted and moved from CPU to CPU.
TrapsLand ==
  \A c \in Cpu :
    IF InUser(c) THEN cpu[c].stvec = "uservec" /\ hartid[on[c]] = c
    ELSE cpu[c].tp = c /\ (cpu[c].intr => cpu[c].stvec = "kernelvec")

\* sret returns to the code that was interrupted: sepc was restored after the
\* handler's yield, on the CPU the thread is on now, and no interrupt can come
\* between.
SretReturnsHome ==
  \A c \in Cpu :
    /\ At(c, "sret") => cpu[c].sepc = <<on[c], Len(stack[on[c]]) - 1>> /\ ~cpu[c].intr
    /\ At(c, "userret") => cpu[c].sepc = <<on[c], 0>> /\ ~cpu[c].intr

\* "Once we hold p->lock, we can be guaranteed that we won't miss any wakeup":
\* a process asleep whose time has come is one that the loop of clockintr's
\* wakeup has still to visit.
NoLostWakeup ==
  \A p \in Proc : state[p] = "SLEEPING" /\ Due(p) =>
    \E c \in Cpu : At(c, "wakeup") /\ p \in Top(on[c]).left

\* sys_sleep returns 0 only when n ticks have gone by, also when ticks wraps
\* around in between.
SleepNotShort ==
  [][\A c \in Cpu : sys_sleep_done(c) => nap[on[c]].past >= nap[on[c]].n]_vars

=============================================================================
