---------------------------- MODULE SchedProofs -----------------------------
(***************************************************************************)
(* Sched, for every number of processes and CPUs.  First an inductive        *)
(* invariant: what a CPU holds, how its registers are set and what the       *)
(* stacks look like are functions of where its thread is.  Then one lemma    *)
(* for each step that keeps it: those in which a thread stays on its CPU,    *)
(* and those that change what a CPU runs or what a process waits for.  On    *)
(* top of it a second inductive invariant, of sys_sleep, clockintr and the   *)
(* ticks; and the properties.                                                *)
(***************************************************************************)
EXTENDS Sched, TLAPS

Stacks == Proc \union Cpu
Locks == Proc \union {tickslock}

\* Where a thread can be with interrupts on, and in the handler of a timer
\* interrupt.
Interruptible == {"loop", "sys_sleep", "sysret", "ret", "reacquire"}
Handler == {"clock", "wakeup", "after", "sched", "yielded", "sret"}
\* Where its CPU holds tickslock, and where the process's own lock.
HoldsTicks == {"wakeup", "test", "sleep", "release"}
HoldsOwn == {"release", "sched", "yielded", "forkret", "woken"}
Places == Interruptible \union Handler \union HoldsTicks \union HoldsOwn
            \union {"user", "userret", "zombie"}

Sepc == {<<>>} \union (Stacks \X Nat)
Frames == [pc : Places, next : {"", "yielded", "woken", "zombie"}, sepc : Sepc,
           left : SUBSET Proc, intena : BOOLEAN]

\* A thread's stack has one frame, or two in a timer interrupt.  The innermost
\* frame, the outermost one, and how many there are.
StackType == stack \in [Stacks -> Seq(Frames)] /\ \A k \in Stacks : Len(stack[k]) \in {1, 2}
top == [k \in Stacks |-> stack[k][Len(stack[k])]]
bot == [k \in Stacks |-> stack[k][1]]
depth == [k \in Stacks |-> Len(stack[k])]

\* A step that touches only stack k.
OnlyStack(k) ==
  \A j \in Stacks \ {k} : top'[j] = top[j] /\ bot'[j] = bot[j] /\ depth'[j] = depth[j]

\* What the functions above say of the stacks.
LEMMA StackView ==
  ASSUME StackType
  PROVE  /\ top \in [Stacks -> Frames] /\ bot \in [Stacks -> Frames]
         /\ depth \in [Stacks -> {1, 2}]
         /\ \A k \in Stacks : Top(k) = top[k] /\ Len(stack[k]) = depth[k]
         /\ \A k \in Stacks : depth[k] = 1 => bot[k] = top[k]
<1>1. \A k \in Stacks : /\ stack[k] \in Seq(Frames) /\ Len(stack[k]) \in {1, 2}
                         /\ stack[k][1] \in Frames /\ stack[k][Len(stack[k])] \in Frames
  BY DEF StackType
<1> QED
  BY Zenon, <1>1 DEF top, bot, depth, Top

\* Sequences of one or two elements: another last element, one less, one more.
LEMMA OtherLast ==
  ASSUME NEW S, NEW s \in Seq(S), NEW f \in S, Len(s) \in {1, 2}
  PROVE  /\ [s EXCEPT ![Len(s)] = f] \in Seq(S) /\ Len([s EXCEPT ![Len(s)] = f]) = Len(s)
         /\ [s EXCEPT ![Len(s)] = f][Len(s)] = f
         /\ Len(s) = 2 => [s EXCEPT ![Len(s)] = f][1] = s[1]
OBVIOUS

LEMMA OneLess ==
  ASSUME NEW S, NEW s \in Seq(S), Len(s) = 2
  PROVE  /\ SubSeq(s, 1, Len(s) - 1) \in Seq(S) /\ Len(SubSeq(s, 1, Len(s) - 1)) = 1
         /\ SubSeq(s, 1, Len(s) - 1)[1] = s[1]
OBVIOUS

LEMMA Appended ==
  ASSUME NEW S, NEW s \in Seq(S), NEW f \in S, NEW n \in Nat, n = Len(s) + 1
  PROVE  Append(s, f)[n] = f
OBVIOUS

LEMMA OneMore ==
  ASSUME NEW S, NEW s \in Seq(S), NEW f \in S, Len(s) = 1
  PROVE  /\ Append(s, f) \in Seq(S) /\ Len(Append(s, f)) = 2
         /\ Append(s, f)[1] = s[1] /\ Append(s, f)[2] = f
<1>1. Append(s, f) \in Seq(S)
  OBVIOUS
<1>2. Len(Append(s, f)) = 2
  OBVIOUS
<1>3. Append(s, f)[1] = s[1]
  OBVIOUS
<1>4. 2 \in Nat /\ 2 = Len(s) + 1
  OBVIOUS
<1>5. \A n \in Nat : n = Len(s) + 1 => Append(s, f)[n] = f
  BY Appended, Zenon
<1>6. Append(s, f)[2] = f
  BY <1>4, <1>5, Zenon
<1> QED
  BY <1>1, <1>2, <1>3, <1>6, Zenon

\* Replacing the innermost frame.
LEMMA ReplaceTop ==
  ASSUME StackType, NEW k \in Stacks, NEW f \in Frames, stack' = WithTop(k, f)
  PROVE  /\ StackType' /\ OnlyStack(k) /\ top'[k] = f /\ depth'[k] = depth[k]
         /\ bot'[k] = IF depth[k] = 1 THEN f ELSE bot[k]
<1> DEFINE t == [stack[k] EXCEPT ![Len(stack[k])] = f]
<1>1. stack[k] \in Seq(Frames) /\ Len(stack[k]) \in {1, 2} /\ f \in Frames
  BY Zenon DEF StackType
<1>2. /\ t \in Seq(Frames) /\ Len(t) = Len(stack[k]) /\ t[Len(stack[k])] = f
      /\ Len(stack[k]) = 2 => t[1] = stack[k][1]
  BY ONLY <1>1, OtherLast
<1>3. stack' = [stack EXCEPT ![k] = t]
  BY Zenon DEF WithTop, StackType
<1> HIDE DEF t
<1> QED
  BY <1>1, <1>2, <1>3, Zenon DEF StackType, OnlyStack, top, bot, depth

\* A timer interrupt pushes a frame.
LEMMA Push ==
  ASSUME StackType, NEW k \in Stacks, NEW f \in Frames, depth[k] = 1,
         stack' = [stack EXCEPT ![k] = Append(@, f)]
  PROVE  /\ StackType' /\ OnlyStack(k) /\ top'[k] = f /\ depth'[k] = 2
         /\ bot'[k] = bot[k]
<1> DEFINE t == Append(stack[k], f)
<1>1. stack[k] \in Seq(Frames) /\ Len(stack[k]) = 1 /\ f \in Frames
  BY Zenon DEF StackType, depth
<1>2. t \in Seq(Frames) /\ Len(t) = 2 /\ t[1] = stack[k][1] /\ t[2] = f
  BY ONLY <1>1, OneMore
<1> HIDE DEF t
<1> QED
  BY Zenon, <1>1, <1>2 DEF StackType, OnlyStack, top, bot, depth, t

\* sret pops it.
LEMMA Pop ==
  ASSUME StackType, NEW k \in Stacks, depth[k] = 2,
         stack' = [stack EXCEPT ![k] = SubSeq(@, 1, Len(@) - 1)]
  PROVE  /\ StackType' /\ OnlyStack(k) /\ top'[k] = bot[k] /\ depth'[k] = 1
         /\ bot'[k] = bot[k]
<1> DEFINE t == SubSeq(stack[k], 1, Len(stack[k]) - 1)
<1>1. stack[k] \in Seq(Frames) /\ Len(stack[k]) = 2
  BY Zenon DEF StackType, depth
<1>2. t \in Seq(Frames) /\ Len(t) = 1 /\ t[1] = stack[k][1]
  BY ONLY <1>1, OneLess, Zenon
<1> HIDE DEF t
<1> QED
  BY Zenon, <1>1, <1>2 DEF StackType, OnlyStack, top, bot, depth, t

\* A step that leaves the stacks alone.
LEMMA SameStacks ==
  ASSUME StackType, stack' = stack
  PROVE  StackType' /\ depth' = depth /\ top' = top /\ bot' = bot
BY Zenon DEF StackType, top, bot, depth

-----------------------------------------------------------------------------
(* The inductive invariant. *)

CpuType == [intr : BOOLEAN, noff : Nat, intena : BOOLEAN, sepc : Sepc,
            tp : Cpu \union {None}, stvec : {"kernelvec", "uservec"}]
NapType == [n : 0..(TickMod - 1), t0 : 0..(TickMod - 1), past : Nat]

TypeInv ==
  /\ StackType
  /\ state \in [Proc -> {"RUNNABLE", "RUNNING", "SLEEPING", "ZOMBIE"}]
  /\ killed \in [Proc -> BOOLEAN] /\ chan \in [Proc -> BOOLEAN]
  /\ lock \in [Locks -> Cpu \union {None}]
  /\ ticks \in 0..(TickMod - 1)
  /\ on \in [Cpu -> Stacks]
  /\ cpu \in [Cpu -> CpuType]
  /\ hartid \in [Proc -> Cpu \union {None}]
  /\ nap \in [Proc -> NapType]

\* What is on stack k: its depth, innermost and outermost frame.  The scheduler
\* only ever waits or handles the timer; a handler that yields returns to
\* interruptible code, with interrupts still off.
StackOK(k, d, t, b) ==
  /\ d = 1 => t.pc # "sret" /\ b = t
  /\ d = 2 => /\ b.pc \in Interruptible /\ t.pc \in Handler /\ t.sepc = <<k, 1>>
              /\ t.pc = "sched" => t.next = "yielded"
  /\ k \in Cpu => b.pc = "loop" /\ t.pc \in {"loop", "clock", "wakeup", "after", "sret"}
  /\ k \in Proc => b.pc # "loop"
  /\ t.pc = "sched" => t.next # ""
  /\ (t.pc = "yielded" \/ (t.pc = "sched" /\ t.next = "yielded")) => t.intena = FALSE
StackInv == \A k \in Stacks : StackOK(k, depth[k], top[k], bot[k])

Waits == {"forkret", "yielded", "woken", "zombie"}

\* Who runs where, and what p->state says of it.
RunInv ==
  /\ \A c \in Cpu : on[c] \in Proc \/ on[c] = c
  /\ \A c, d \in Cpu : on[c] = on[d] => c = d
  /\ \A c \in Cpu : on[c] # c => top[c].pc = "loop"
  /\ \A c \in Cpu : on[c] \in Proc =>
       /\ state[on[c]] = "RUNNING" <=> top[on[c]].pc # "sched"
       /\ top[on[c]].pc # "zombie"
  /\ \A p \in Proc : (\A c \in Cpu : on[c] # p) =>
       state[p] # "RUNNING" /\ top[p].pc \in Waits
  /\ \A p \in Proc : state[p] = "ZOMBIE" <=>
       top[p].pc = "zombie" \/ (top[p].pc = "sched" /\ top[p].next = "zombie")
  /\ \A p \in Proc : state[p] = "SLEEPING" => chan[p] = TRUE

\* The locks that CPU c holds are those of the place l where it is on stack k.
LockOK(c, k, l, lk) ==
  /\ lk[tickslock] = c <=> l \in HoldsTicks
  /\ \A p \in Proc : lk[p] = c <=> k = p /\ l \in HoldsOwn
LockInv == \A c \in Cpu : LockOK(c, on[c], top[on[c]].pc, lock)

\* So is what its registers hold.
Masked == HoldsTicks \union HoldsOwn \union {"clock", "after", "sret", "userret"}
Noff(l) == IF l = "release" THEN 2 ELSE IF l \in HoldsTicks \union HoldsOwn THEN 1 ELSE 0
CpuOK(c, k, l, r, hart) ==
  /\ r.noff = Noff(l)
  /\ l \in Masked => r.intr = FALSE
  /\ l \in {"wakeup", "yielded"} => r.intena = FALSE
  /\ r.stvec = IF l \in {"user", "userret"} THEN "uservec" ELSE "kernelvec"
  /\ l # "user" => r.tp = c
  /\ l \in {"user", "userret"} => hart[k] = c
  /\ l = "sret" => r.sepc = <<k, 1>>
  /\ l = "userret" => r.sepc = <<k, 0>>
CpuInv == \A c \in Cpu : CpuOK(c, on[c], top[on[c]].pc, cpu[c], hartid)

Inv == TypeInv /\ StackInv /\ RunInv /\ LockInv /\ CpuInv

-----------------------------------------------------------------------------
(* Lemmas about what the steps do. *)

\* acquire's push_off and release's pop_off on the registers.
LEMMA PushOff ==
  ASSUME NEW r \in CpuType
  PROVE  /\ push_off(r) \in CpuType
         /\ push_off(r).intr = FALSE
         /\ r.noff = 0 => push_off(r).noff = 1
         /\ r.noff = 1 => push_off(r).noff = 2
         /\ r.noff = 0 => push_off(r).intena = r.intr
         /\ push_off(r).sepc = r.sepc /\ push_off(r).tp = r.tp
         /\ push_off(r).stvec = r.stvec
<1> DEFINE b == IF r.noff = 0 THEN r.intr ELSE r.intena
<1>1. b \in BOOLEAN /\ r.noff + 1 \in Nat
  BY DEF CpuType
<1>2. push_off(r) = [r EXCEPT !.intr = FALSE, !.noff = r.noff + 1, !.intena = b]
  BY Zenon DEF push_off
<1>3. r.noff = 0 => b = r.intr
  BY Zenon
<1> HIDE DEF b
<1>4. /\ push_off(r) \in CpuType
      /\ push_off(r).intr = FALSE /\ push_off(r).noff = r.noff + 1
      /\ r.noff = 0 => push_off(r).intena = r.intr
      /\ push_off(r).sepc = r.sepc /\ push_off(r).tp = r.tp
      /\ push_off(r).stvec = r.stvec
  BY <1>1, <1>2, <1>3, Zenon DEF CpuType
<1>5. (r.noff = 0 => r.noff + 1 = 1) /\ (r.noff = 1 => r.noff + 1 = 2)
  OBVIOUS
<1> QED
  BY <1>4, <1>5, Zenon

LEMMA PopOff ==
  ASSUME NEW r \in CpuType, r.noff = 1 \/ r.noff = 2, r.intr = FALSE
  PROVE  /\ pop_off(r) \in CpuType
         /\ r.noff = 1 => pop_off(r).noff = 0
         /\ r.noff = 2 => pop_off(r).noff = 1 /\ pop_off(r).intr = FALSE
         /\ r.intena = FALSE => pop_off(r).intr = FALSE
         /\ pop_off(r).sepc = r.sepc /\ pop_off(r).tp = r.tp
         /\ pop_off(r).stvec = r.stvec
<1> DEFINE a == r.intr \/ (r.noff = 1 /\ r.intena)
           b == r.noff > 1 /\ r.intena
<1>1. a \in BOOLEAN /\ b \in BOOLEAN /\ r.noff - 1 \in Nat
  BY DEF CpuType
<1>2. pop_off(r) = [r EXCEPT !.noff = r.noff - 1, !.intr = a, !.intena = b]
  BY Zenon DEF pop_off
<1>3. r.noff = 2 \/ r.intena = FALSE => a = FALSE
  OBVIOUS
<1> HIDE DEF a, b
<1>4. /\ pop_off(r) \in CpuType
      /\ pop_off(r).noff = r.noff - 1
      /\ r.noff = 2 \/ r.intena = FALSE => pop_off(r).intr = FALSE
      /\ pop_off(r).sepc = r.sepc /\ pop_off(r).tp = r.tp
      /\ pop_off(r).stvec = r.stvec
  BY <1>1, <1>2, <1>3, Zenon DEF CpuType
<1>5. (r.noff = 1 => r.noff - 1 = 0) /\ (r.noff = 2 => r.noff - 1 = 1)
  OBVIOUS
<1> QED
  BY <1>4, <1>5, Zenon

\* What the invariant says of the CPU that makes a step: its thread k.
LEMMA Here ==
  ASSUME Inv, NEW c \in Cpu
  PROVE  /\ on[c] \in Stacks /\ top[on[c]] \in Frames /\ bot[on[c]] \in Frames
         /\ Top(on[c]) = top[on[c]] /\ Len(stack[on[c]]) = depth[on[c]]
         /\ depth[on[c]] \in {1, 2} /\ cpu[c] \in CpuType
BY Zenon, StackView DEF Inv, TypeInv

LEMMA GotoFrame ==
  ASSUME Inv, NEW c \in Cpu, NEW l \in Places, Goto(c, l)
  PROVE  LET k == on[c]
             f == [top[k] EXCEPT !.pc = l, !.intena = FALSE]
         IN  /\ f \in Frames /\ StackType' /\ OnlyStack(k) /\ top'[k] = f
             /\ depth'[k] = depth[k] /\ bot'[k] = IF depth[k] = 1 THEN f ELSE bot[k]
<1> DEFINE f == [top[on[c]] EXCEPT !.pc = l, !.intena = FALSE]
<1>1. f \in Frames /\ on[c] \in Stacks /\ Top(on[c]) = top[on[c]]
  BY Here, Zenon DEF Frames
<1>2. stack' = WithTop(on[c], f)
  BY Zenon, <1>1 DEF Goto
<1> HIDE DEF f
<1>3. /\ StackType' /\ OnlyStack(on[c]) /\ top'[on[c]] = f
      /\ depth'[on[c]] = depth[on[c]]
      /\ bot'[on[c]] = IF depth[on[c]] = 1 THEN f ELSE bot[on[c]]
  BY Zenon, <1>1, <1>2, ReplaceTop DEF Inv, TypeInv
<1> QED
  BY Zenon, <1>1, <1>3 DEF f

\* A step of CPU c leaves the registers and the locks of the others alone.
OnlyCpu(c) ==
  /\ \A d \in Cpu \ {c} : cpu'[d] = cpu[d]
  /\ \A l \in Locks : lock'[l] = lock[l]
                      \/ (lock[l] \in {c, None} /\ lock'[l] \in {c, None})

LEMMA StackStep ==
  ASSUME StackInv, NEW k \in Stacks, OnlyStack(k),
         StackOK(k, depth'[k], top'[k], bot'[k])
  PROVE  StackInv'
BY Zenon DEF StackInv, OnlyStack

LEMMA OtherCpus ==
  ASSUME Inv, NEW c \in Cpu, OnlyCpu(c),
         \A d \in Cpu \ {c} : /\ on'[d] = on[d] /\ top'[on[d]] = top[on[d]]
                              /\ on[d] \in Proc => hartid'[on[d]] = hartid[on[d]]
  PROVE  \A d \in Cpu \ {c} : /\ LockOK(d, on'[d], top'[on'[d]].pc, lock')
                              /\ CpuOK(d, on'[d], top'[on'[d]].pc, cpu'[d], hartid')
<1> SUFFICES ASSUME NEW d \in Cpu \ {c}
             PROVE  /\ LockOK(d, on[d], top[on[d]].pc, lock')
                    /\ CpuOK(d, on[d], top[on[d]].pc, cpu[d], hartid')
  BY Zenon DEF OnlyCpu
<1>1. LockOK(d, on[d], top[on[d]].pc, lock) /\ CpuOK(d, on[d], top[on[d]].pc, cpu[d], hartid)
  BY Zenon DEF Inv, LockInv, CpuInv
<1>2. \A l \in Locks : lock'[l] = d <=> lock[l] = d
  BY SchedConstants DEF OnlyCpu, None
<1>3. LockOK(d, on[d], top[on[d]].pc, lock')
  BY Zenon, <1>1, <1>2 DEF LockOK, Locks
<1>4. CASE on[d] \in Proc
  BY Zenon, <1>1, <1>3, <1>4 DEF CpuOK
<1>5. CASE on[d] \notin Proc
  <2>1. top[on[d]].pc \notin {"user", "userret"}
    BY <1>5, Zenon DEF Inv, TypeInv, StackInv, StackOK, Stacks
  <2> QED
    BY Zenon, <1>1, <1>3, <2>1 DEF CpuOK
<1> QED
  BY Zenon, <1>4, <1>5

\* What it leaves alone besides.
Aside(c) ==
  /\ on' = on /\ state' = state /\ killed' = killed
  /\ chan' \in [Proc -> BOOLEAN]
  /\ \A p \in Proc : state[p] = "SLEEPING" => chan'[p] = chan[p]
  /\ hartid' \in [Proc -> Cpu \union {None}]
  /\ \A p \in Proc \ {on[c]} : hartid'[p] = hartid[p]
  /\ ticks' \in 0..(TickMod - 1) /\ nap' \in [Proc -> NapType]

LEMMA AsideSame ==
  ASSUME Inv, NEW c \in Cpu, UNCHANGED <<state, killed, chan, ticks, on, hartid, nap>>
  PROVE  Aside(c)
BY Zenon DEF Inv, TypeInv, Aside

\* A step of CPU c on its stack, from one place where the process is RUNNING to
\* another.
LEMMA LocalStep ==
  ASSUME Inv, NEW c \in Cpu, NEW r \in CpuType, NEW f \in Frames,
         StackType', OnlyStack(on[c]), top'[on[c]] = f,
         StackOK(on[c], depth'[on[c]], f, bot'[on[c]]),
         cpu' = [cpu EXCEPT ![c] = r], OnlyCpu(c), lock' \in [Locks -> Cpu \union {None}],
         Aside(c),
         top[on[c]].pc # "sched", f.pc \notin {"sched", "zombie"},
         LockOK(c, on[c], f.pc, lock'), CpuOK(c, on[c], f.pc, r, hartid')
  PROVE  Inv'
<1>1. TypeInv'
  BY Zenon DEF Inv, TypeInv, Aside
<1>2. on[c] \in Stacks
  BY Zenon, Here
<1>3. StackInv'
  BY Zenon, <1>2, StackStep DEF Inv
<1>4. \A d \in Cpu \ {c} : on[d] # on[c] /\ on[d] \in Stacks
  BY Here, Zenon DEF Inv, RunInv
<1>5. \A d \in Cpu \ {c} : /\ LockOK(d, on'[d], top'[on'[d]].pc, lock')
                           /\ CpuOK(d, on'[d], top'[on'[d]].pc, cpu'[d], hartid')
  BY Zenon, <1>4, OtherCpus DEF OnlyStack, Aside, Stacks
<1>6. LockInv'
  BY Zenon, <1>5 DEF LockInv, Aside
<1>7. cpu'[c] = r
  BY Zenon DEF Inv, TypeInv
<1>8. CpuInv'
  BY Zenon, <1>5, <1>7 DEF CpuInv, Aside
<1>9. RunInv'
  <2>1. \A j \in Stacks \ {on[c]} : top'[j] = top[j]
    BY Zenon DEF OnlyStack
  <2>2. on[c] \in Proc => state[on[c]] = "RUNNING"
    BY Zenon DEF Inv, RunInv
  <2>3. RunInv /\ on' = on /\ state' = state /\ top'[on[c]] = f
    BY Zenon DEF Inv, Aside
  <2>4. \A d \in Cpu : on[d] # d => top'[d].pc = "loop"
    BY <1>2, <2>1, <2>3, SchedConstants DEF RunInv, Stacks
  <2>5. \A d \in Cpu : on[d] \in Proc =>
          /\ state[on[d]] = "RUNNING" <=> top'[on[d]].pc # "sched"
          /\ top'[on[d]].pc # "zombie"
    BY <1>4, <2>1, <2>2, <2>3 DEF RunInv
  <2>6. \A p \in Proc : (\A d \in Cpu : on[d] # p) =>
          state[p] # "RUNNING" /\ top'[p].pc \in Waits
    BY Zenon, <2>1, <2>3 DEF RunInv, Stacks
  <2>7. \A p \in Proc : state[p] = "ZOMBIE" <=>
          top'[p].pc = "zombie" \/ (top'[p].pc = "sched" /\ top'[p].next = "zombie")
    BY <2>1, <2>2, <2>3 DEF RunInv, Stacks
  <2>8. \A p \in Proc : state[p] = "SLEEPING" => chan'[p] = TRUE
    BY Zenon, <2>3 DEF RunInv, Aside
  <2> QED
    BY <2>3, <2>4, <2>5, <2>6, <2>7, <2>8 DEF RunInv
<1> QED
  BY Zenon, <1>1, <1>3, <1>6, <1>8, <1>9 DEF Inv

\* What its place says of the thread that a CPU runs.
LEMMA Place ==
  ASSUME Inv, NEW c \in Cpu
  PROVE  LET k == on[c]
             l == top[k].pc
         IN  /\ StackOK(k, depth[k], top[k], bot[k])
             /\ LockOK(c, k, l, lock) /\ CpuOK(c, k, l, cpu[c], hartid)
             /\ l \notin Handler => depth[k] = 1
             /\ depth[k] = 1 /\ l # "loop" => k \in Proc
             /\ l \notin {"loop", "clock", "wakeup", "after", "sret"} => k \in Proc
             /\ l # "zombie" /\ l \in Places
<1>1. on[c] \in Stacks /\ depth[on[c]] \in {1, 2} /\ top[on[c]] \in Frames
  BY Zenon, Here
<1>2. /\ StackOK(on[c], depth[on[c]], top[on[c]], bot[on[c]])
      /\ LockOK(c, on[c], top[on[c]].pc, lock)
      /\ CpuOK(c, on[c], top[on[c]].pc, cpu[c], hartid)
  BY Zenon, <1>1 DEF Inv, StackInv, LockInv, CpuInv
<1>3. top[on[c]].pc # "zombie"
  BY <1>1, <1>2, Zenon DEF Inv, RunInv, StackOK, Stacks
<1>4. top[on[c]].pc \notin Handler => depth[on[c]] = 1
  BY <1>1, <1>2, Zenon DEF StackOK
<1>5. on[c] \in Cpu => top[on[c]].pc \in {"loop", "clock", "wakeup", "after", "sret"}
  BY <1>1, <1>2, Zenon DEF StackOK
<1>6. on[c] \in Cpu /\ depth[on[c]] = 1 => top[on[c]].pc = "loop"
  BY <1>1, <1>2, Zenon DEF StackOK
<1>7. top[on[c]].pc \in Places
  BY <1>1, Zenon DEF Frames
<1> QED
  BY Zenon, <1>1, <1>2, <1>3, <1>4, <1>5, <1>6, <1>7 DEF Stacks

\* Moving the innermost frame to another place.
LEMMA FrameMoves ==
  ASSUME NEW k \in Stacks, NEW d \in {1, 2}, NEW t, NEW b, NEW f,
         StackOK(k, d, t, b), f.sepc = t.sepc,
         f.pc \notin {"loop", "sched", "yielded"},
         d = 1 => f.pc # "sret" /\ k \in Proc, d = 2 => f.pc \in Handler,
         k \in Cpu => f.pc \in {"clock", "wakeup", "after", "sret"}
  PROVE  StackOK(k, d, f, IF d = 1 THEN f ELSE b)
<1>1. CASE d = 1
  <2>1. k \notin Cpu
    BY Zenon, <1>1, SchedConstants
  <2>2. d # 2 /\ f.pc # "sret" /\ f.pc # "loop" /\ f.pc # "sched" /\ f.pc # "yielded"
    BY <1>1
  <2>3. StackOK(k, d, f, f)
    BY <2>1, <2>2, Zenon DEF StackOK
  <2> QED
    BY Zenon, <1>1, <2>3
<1>2. CASE d = 2
  <2>1. d # 1 /\ f.pc # "loop" /\ f.pc # "sched" /\ f.pc # "yielded"
    BY <1>2
  <2>2. /\ b.pc \in Interruptible /\ t.sepc = <<k, 1>>
        /\ k \in Cpu => b.pc = "loop"
        /\ k \in Proc => b.pc # "loop"
    BY <1>2, Zenon DEF StackOK
  <2>3. k \in Cpu => f.pc \in {"loop", "clock", "wakeup", "after", "sret"}
    BY Zenon
  <2>4. StackOK(k, d, f, b)
    BY <1>2, <2>1, <2>2, <2>3, Zenon DEF StackOK
  <2> QED
    BY Zenon, <2>1, <2>4
<1> QED
  BY Zenon, <1>1, <1>2

\* The same for a step that only moves the thread to place l, one where stack k
\* of depth d may be.
MayBe(k, d, l) ==
  /\ l \in Places \ {"loop", "sched", "zombie", "yielded"}
  /\ d = 1 => l # "sret" /\ k \in Proc
  /\ d = 2 => l \in Handler
  /\ k \in Cpu => l \in {"clock", "wakeup", "after", "sret"}

LEMMA GotoStep ==
  ASSUME Inv, NEW c \in Cpu, NEW r \in CpuType,
         NEW l, Goto(c, l), MayBe(on[c], depth[on[c]], l),
         cpu' = [cpu EXCEPT ![c] = r], OnlyCpu(c), lock' \in [Locks -> Cpu \union {None}],
         Aside(c), top[on[c]].pc # "sched",
         LockOK(c, on[c], l, lock'), CpuOK(c, on[c], l, r, hartid')
  PROVE  Inv'
<1> DEFINE k == on[c]
           f == [top[k] EXCEPT !.pc = l, !.intena = FALSE]
<1>1. /\ f \in Frames /\ StackType' /\ OnlyStack(k) /\ top'[k] = f
      /\ depth'[k] = depth[k] /\ bot'[k] = IF depth[k] = 1 THEN f ELSE bot[k]
  BY GotoFrame, Zenon DEF MayBe
<1>2. /\ k \in Stacks /\ depth[k] \in {1, 2} /\ top[k] \in Frames
      /\ StackOK(k, depth[k], top[k], bot[k])
  BY Zenon, Here, Place
<1>3. f.pc = l /\ f.sepc = top[k].sepc
  BY <1>2, Zenon DEF Frames
<1> HIDE DEF f
<1>4. StackOK(k, depth'[k], f, bot'[k])
  BY <1>1, <1>2, <1>3, FrameMoves DEF MayBe
<1>5. f.pc \notin {"sched", "zombie"} /\ LockOK(c, k, f.pc, lock')
      /\ CpuOK(c, k, f.pc, r, hartid')
  BY Zenon, <1>3 DEF MayBe
<1> QED
  BY <1>1, <1>4, <1>5, LocalStep, Zenon

\* Locks: unchanged, or one taken or given up by c.
LEMMA SameLocks ==
  ASSUME Inv, NEW c \in Cpu, NEW r, lock' = lock, cpu' = [cpu EXCEPT ![c] = r]
  PROVE  OnlyCpu(c) /\ lock' \in [Locks -> Cpu \union {None}]
BY Zenon DEF Inv, TypeInv, OnlyCpu

LEMMA OneLock ==
  ASSUME Inv, NEW c \in Cpu, NEW r, NEW l \in Locks, NEW v \in {c, None},
         lock[l] \in {c, None}, lock' = [lock EXCEPT ![l] = v],
         cpu' = [cpu EXCEPT ![c] = r]
  PROVE  /\ OnlyCpu(c) /\ lock' \in [Locks -> Cpu \union {None}]
         /\ \A m \in Locks : lock'[m] = IF m = l THEN v ELSE lock[m]
BY Zenon DEF Inv, TypeInv, OnlyCpu

-----------------------------------------------------------------------------
(* The steps. *)

LEMMA Scheduler ==
  ASSUME Inv, NEW c \in Cpu, scheduler(c)
  PROVE  Inv'
<1> DEFINE r == [cpu[c] EXCEPT !.intr = TRUE]
<1>1. on[c] = c /\ top[on[c]].pc = "loop" /\ top[on[c]] \in Frames /\ cpu[c] \in CpuType
  BY Zenon, Here DEF scheduler, At
<1>2. /\ StackOK(on[c], depth[on[c]], top[on[c]], bot[on[c]])
      /\ LockOK(c, on[c], "loop", lock) /\ CpuOK(c, on[c], "loop", cpu[c], hartid)
  BY Zenon, <1>1, Place
<1>3. /\ r \in CpuType /\ r.noff = cpu[c].noff /\ r.tp = cpu[c].tp
      /\ r.stvec = cpu[c].stvec
  BY <1>1, Zenon DEF CpuType
<1>4. cpu' = [cpu EXCEPT ![c] = r] /\ lock' = lock /\ hartid' = hartid /\ Aside(c)
  BY Zenon, AsideSame DEF scheduler, SetCpu
<1>5. StackType' /\ depth' = depth /\ top' = top /\ bot' = bot /\ OnlyStack(on[c])
  BY Zenon, SameStacks DEF scheduler, Inv, TypeInv, OnlyStack
<1> HIDE DEF r
<1>6. OnlyCpu(c) /\ lock' \in [Locks -> Cpu \union {None}]
  BY <1>4, SameLocks, Zenon
<1>7. CpuOK(c, on[c], "loop", r, hartid')
  BY Zenon, <1>2, <1>3, <1>4 DEF CpuOK, Masked, HoldsTicks, HoldsOwn
<1> QED
  BY <1>1, <1>2, <1>3, <1>4, <1>5, <1>6, <1>7, LocalStep, Zenon

LEMMA ClockintrEnd ==
  ASSUME Inv, NEW c \in Cpu, clockintr_end(c)
  PROVE  Inv'
<1> DEFINE r == pop_off(cpu[c])
<1>1. top[on[c]].pc = "wakeup" /\ on[c] \in Stacks /\ cpu[c] \in CpuType
  BY Zenon, Here DEF clockintr_end, At
<1>2. /\ StackOK(on[c], depth[on[c]], top[on[c]], bot[on[c]])
      /\ LockOK(c, on[c], "wakeup", lock) /\ CpuOK(c, on[c], "wakeup", cpu[c], hartid)
      /\ depth[on[c]] = 1 => on[c] \in Proc
  BY Zenon, <1>1, Place
<1>3. /\ cpu[c].noff = 1 /\ cpu[c].intr = FALSE /\ cpu[c].intena = FALSE
      /\ cpu[c].stvec = "kernelvec" /\ cpu[c].tp = c
  BY Zenon, <1>2 DEF CpuOK, Noff, Masked, HoldsTicks, HoldsOwn
<1>4. /\ r \in CpuType /\ r.noff = 0 /\ r.intr = FALSE /\ r.tp = c
      /\ r.stvec = "kernelvec"
  BY <1>1, <1>3, PopOff, Zenon
<1>5. /\ cpu' = [cpu EXCEPT ![c] = r] /\ lock' = [lock EXCEPT ![tickslock] = None]
      /\ Aside(c) /\ Goto(c, "after")
  BY Zenon, AsideSame DEF clockintr_end, release, SetCpu
<1> HIDE DEF r
<1>6. lock[tickslock] = c /\ tickslock \in Locks
  BY Zenon, <1>2 DEF LockOK, HoldsTicks, Locks
<1>7. /\ OnlyCpu(c) /\ lock' \in [Locks -> Cpu \union {None}]
      /\ \A m \in Locks : lock'[m] = IF m = tickslock THEN None ELSE lock[m]
  BY <1>5, <1>6, OneLock, Zenon
<1>8. LockOK(c, on[c], "after", lock')
  BY Zenon, <1>2, <1>7, SchedConstants DEF LockOK, HoldsTicks, HoldsOwn, Locks, None, tickslock
<1>9. CpuOK(c, on[c], "after", r, hartid')
  BY Zenon, <1>4 DEF CpuOK, Noff, HoldsTicks, HoldsOwn
<1>10. MayBe(on[c], depth[on[c]], "after") /\ top[on[c]].pc # "sched"
  BY Zenon, <1>1, <1>2 DEF MayBe, Places, Handler
<1> QED
  BY <1>4, <1>5, <1>7, <1>8, <1>9, <1>10, GotoStep, Zenon

LEMMA TimerUser ==
  ASSUME Inv, NEW c \in Cpu, timer_user(c)
  PROVE  Inv'
<1> DEFINE u == usertrap(c)
           r == [u EXCEPT !.intr = FALSE]
<1>1. top[on[c]].pc = "user" /\ on[c] \in Stacks /\ cpu[c] \in CpuType
  BY Zenon, Here DEF timer_user, InUser, At
<1>2. /\ LockOK(c, on[c], "user", lock) /\ CpuOK(c, on[c], "user", cpu[c], hartid)
      /\ depth[on[c]] = 1 /\ on[c] \in Proc
  BY Zenon, <1>1, Place DEF Handler
<1>3. cpu[c].noff = 0 /\ hartid[on[c]] = c
  BY Zenon, <1>2 DEF CpuOK, Noff, HoldsTicks, HoldsOwn
<1>4. u = [cpu[c] EXCEPT !.tp = c, !.stvec = "kernelvec", !.sepc = <<>>]
  BY Zenon, <1>3 DEF usertrap
<1>5. /\ r \in CpuType /\ r.noff = 0 /\ r.intr = FALSE /\ r.tp = c
      /\ r.stvec = "kernelvec"
  BY <1>1, <1>3, <1>4, Zenon DEF CpuType, Sepc
<1>6. \E l \in {"clock", "after"} : Goto(c, l)
  BY Zenon DEF timer_user, devintr
<1>7. cpu' = [cpu EXCEPT ![c] = r] /\ lock' = lock /\ Aside(c)
  BY Zenon, AsideSame DEF timer_user, SetCpu
<1> HIDE DEF u, r
<1>8. OnlyCpu(c) /\ lock' \in [Locks -> Cpu \union {None}]
  BY <1>7, SameLocks, Zenon
<1>9. PICK l \in {"clock", "after"} : Goto(c, l)
  BY Zenon, <1>6
<1>10. LockOK(c, on[c], l, lock') /\ CpuOK(c, on[c], l, r, hartid')
  BY Zenon, <1>2, <1>5, <1>7 DEF LockOK, CpuOK, Noff, HoldsTicks, HoldsOwn
<1>11. MayBe(on[c], depth[on[c]], l) /\ top[on[c]].pc # "sched"
  BY Zenon, <1>1, <1>2 DEF MayBe, Places, Handler
<1> QED
  BY <1>5, <1>7, <1>8, <1>9, <1>10, <1>11, GotoStep, Zenon

LEMMA KerneltrapEnd ==
  ASSUME Inv, NEW c \in Cpu, kerneltrap_end(c)
  PROVE  Inv'
<1> DEFINE r == w_sepc(cpu[c], Top(on[c]))
<1>1. /\ top[on[c]].pc = "after" /\ on[c] \in Stacks /\ cpu[c] \in CpuType
      /\ top[on[c]] \in Frames /\ Top(on[c]) = top[on[c]] /\ depth[on[c]] = 2
  BY Here, Zenon DEF kerneltrap_end, At, Base
<1>2. /\ LockOK(c, on[c], "after", lock) /\ CpuOK(c, on[c], "after", cpu[c], hartid)
      /\ StackOK(on[c], depth[on[c]], top[on[c]], bot[on[c]])
  BY Zenon, <1>1, Place
<1>3. /\ cpu[c].noff = 0 /\ cpu[c].intr = FALSE /\ cpu[c].tp = c
      /\ cpu[c].stvec = "kernelvec"
  BY Zenon, <1>2 DEF CpuOK, Noff, Masked, HoldsTicks, HoldsOwn
<1>4. top[on[c]].sepc = <<on[c], 1>> /\ top[on[c]].sepc \in Sepc
  BY <1>1, <1>2, Zenon DEF StackOK, Frames
<1>5. /\ r \in CpuType /\ r.noff = 0 /\ r.intr = FALSE /\ r.tp = c
      /\ r.stvec = "kernelvec" /\ r.sepc = <<on[c], 1>>
  BY Zenon, <1>1, <1>3, <1>4 DEF CpuType, w_sepc
<1>6. cpu' = [cpu EXCEPT ![c] = r] /\ lock' = lock /\ Aside(c) /\ Goto(c, "sret")
  BY Zenon, AsideSame DEF kerneltrap_end, SetCpu
<1> HIDE DEF r
<1>7. OnlyCpu(c) /\ lock' \in [Locks -> Cpu \union {None}]
  BY <1>6, SameLocks, Zenon
<1>8. LockOK(c, on[c], "sret", lock') /\ CpuOK(c, on[c], "sret", r, hartid')
  BY Zenon, <1>2, <1>5, <1>6 DEF LockOK, CpuOK, Noff, HoldsTicks, HoldsOwn
<1>9. MayBe(on[c], depth[on[c]], "sret") /\ top[on[c]].pc # "sched"
  BY <1>1 DEF MayBe, Places, Handler
<1> QED
  BY <1>5, <1>6, <1>7, <1>8, <1>9, GotoStep, Zenon

LEMMA Forkret ==
  ASSUME Inv, NEW c \in Cpu, forkret(c)
  PROVE  Inv'
<1> DEFINE r == pop_off(cpu[c])
<1>1. top[on[c]].pc = "forkret" /\ on[c] \in Stacks /\ cpu[c] \in CpuType
  BY Zenon, Here DEF forkret, At
<1>2. /\ LockOK(c, on[c], "forkret", lock) /\ CpuOK(c, on[c], "forkret", cpu[c], hartid)
      /\ depth[on[c]] = 1 /\ on[c] \in Proc
  BY Zenon, <1>1, Place DEF Handler
<1>3. /\ cpu[c].noff = 1 /\ cpu[c].intr = FALSE
      /\ cpu[c].stvec = "kernelvec" /\ cpu[c].tp = c
  BY Zenon, <1>2 DEF CpuOK, Noff, Masked, HoldsTicks, HoldsOwn
<1>4. r \in CpuType /\ r.noff = 0 /\ r.tp = c /\ r.stvec = "kernelvec"
  BY <1>1, <1>3, PopOff, Zenon
<1>5. /\ cpu' = [cpu EXCEPT ![c] = r] /\ lock' = [lock EXCEPT ![on[c]] = None]
      /\ Aside(c) /\ Goto(c, "ret")
  BY Zenon, AsideSame DEF forkret, release, SetCpu
<1> HIDE DEF r
<1>6. lock[on[c]] = c /\ on[c] \in Locks
  BY Zenon, <1>2 DEF LockOK, HoldsOwn, Locks
<1>7. /\ OnlyCpu(c) /\ lock' \in [Locks -> Cpu \union {None}]
      /\ \A m \in Locks : lock'[m] = IF m = on[c] THEN None ELSE lock[m]
  BY <1>5, <1>6, OneLock, Zenon
<1>8. LockOK(c, on[c], "ret", lock')
  BY <1>2, <1>7, SchedConstants DEF LockOK, HoldsTicks, HoldsOwn, Locks, None, tickslock
<1>9. CpuOK(c, on[c], "ret", r, hartid')
  BY Zenon, <1>4 DEF CpuOK, Noff, Masked, HoldsTicks, HoldsOwn
<1>10. MayBe(on[c], depth[on[c]], "ret") /\ top[on[c]].pc # "sched"
  BY <1>1, <1>2, SchedConstants DEF MayBe, Places, Interruptible
<1> QED
  BY <1>4, <1>5, <1>7, <1>8, <1>9, <1>10, GotoStep, Zenon

LEMMA Usertrapret ==
  ASSUME Inv, NEW c \in Cpu, usertrapret(c)
  PROVE  Inv'
<1> DEFINE r == [intr_off(cpu[c]) EXCEPT !.stvec = "uservec", !.sepc = <<on[c], 0>>]
<1>1. top[on[c]].pc \in {"ret", "sysret"} /\ on[c] \in Stacks /\ cpu[c] \in CpuType
  BY Zenon, Here DEF usertrapret, At
<1>2. /\ LockOK(c, on[c], top[on[c]].pc, lock)
      /\ CpuOK(c, on[c], top[on[c]].pc, cpu[c], hartid)
      /\ depth[on[c]] = 1 /\ on[c] \in Proc
  BY Zenon, <1>1, Place DEF Handler
<1>3. cpu[c].noff = 0 /\ cpu[c].tp = c
  BY Zenon, <1>1, <1>2 DEF CpuOK, Noff, HoldsTicks, HoldsOwn
<1>4. /\ r \in CpuType /\ r.noff = 0 /\ r.intr = FALSE /\ r.tp = c
      /\ r.stvec = "uservec" /\ r.sepc = <<on[c], 0>>
  BY <1>1, <1>3, Zenon DEF CpuType, Sepc, intr_off
<1>5. cpu' = [cpu EXCEPT ![c] = r] /\ lock' = lock /\ Goto(c, "userret")
  BY Zenon DEF usertrapret, SetCpu
<1>6. hartid' = [hartid EXCEPT ![on[c]] = c]
  BY Zenon, <1>3 DEF usertrapret
<1>7. Aside(c) /\ hartid'[on[c]] = c
  BY <1>2, <1>6 DEF usertrapret, Inv, TypeInv, Aside
<1> HIDE DEF r
<1>8. OnlyCpu(c) /\ lock' \in [Locks -> Cpu \union {None}]
  BY <1>5, SameLocks, Zenon
<1>9. LockOK(c, on[c], "userret", lock') /\ CpuOK(c, on[c], "userret", r, hartid')
  BY Zenon, <1>1, <1>2, <1>4, <1>5, <1>7 DEF LockOK, CpuOK, Noff, HoldsTicks, HoldsOwn
<1>10. MayBe(on[c], depth[on[c]], "userret") /\ top[on[c]].pc # "sched"
  BY <1>1, <1>2, SchedConstants DEF MayBe, Places
<1> QED
  BY <1>4, <1>5, <1>7, <1>8, <1>9, <1>10, GotoStep, Zenon

LEMMA Userret ==
  ASSUME Inv, NEW c \in Cpu, userret(c)
  PROVE  Inv'
<1> DEFINE r == [cpu[c] EXCEPT !.intr = TRUE, !.tp = None]
<1>1. top[on[c]].pc = "userret" /\ on[c] \in Stacks /\ cpu[c] \in CpuType
  BY Zenon, Here DEF userret, At
<1>2. /\ LockOK(c, on[c], "userret", lock)
      /\ CpuOK(c, on[c], "userret", cpu[c], hartid)
      /\ depth[on[c]] = 1 /\ on[c] \in Proc
  BY Zenon, <1>1, Place DEF Handler
<1>3. cpu[c].noff = 0 /\ cpu[c].stvec = "uservec" /\ hartid[on[c]] = c
  BY Zenon, <1>1, <1>2 DEF CpuOK, Noff, HoldsTicks, HoldsOwn
<1>4. r \in CpuType /\ r.noff = 0 /\ r.stvec = "uservec"
  BY <1>1, <1>3, Zenon DEF CpuType
<1>5. /\ cpu' = [cpu EXCEPT ![c] = r] /\ lock' = lock /\ Goto(c, "user")
      /\ hartid' = hartid /\ Aside(c)
  BY Zenon, AsideSame DEF userret, SetCpu
<1> HIDE DEF r
<1>6. OnlyCpu(c) /\ lock' \in [Locks -> Cpu \union {None}]
  BY <1>5, SameLocks, Zenon
<1>7. LockOK(c, on[c], "user", lock') /\ CpuOK(c, on[c], "user", r, hartid')
  BY Zenon, <1>2, <1>3, <1>4, <1>5 DEF LockOK, CpuOK, Noff, Masked, HoldsTicks, HoldsOwn
<1>8. MayBe(on[c], depth[on[c]], "user") /\ top[on[c]].pc # "sched"
  BY <1>1, <1>2, SchedConstants DEF MayBe, Places
<1> QED
  BY <1>4, <1>5, <1>6, <1>7, <1>8, GotoStep, Zenon

LEMMA InitInv ==
  Init => Inv
<1> SUFFICES ASSUME Init PROVE Inv
  BY Zenon
<1> DEFINE l(k) == IF k \in Proc THEN "forkret" ELSE "loop"
<1>1. \A k \in Stacks : Frame(l(k)) \in Frames /\ Frame(l(k)).pc = l(k)
  BY Zenon DEF Frame, Frames, Places, Interruptible, HoldsOwn, Sepc
<1>2. \A k \in Stacks : stack[k] = <<Frame(l(k))>>
  BY Zenon DEF Init, Stacks
<1>3. StackType
  <2>1. ASSUME NEW k \in Stacks
        PROVE  <<Frame(l(k))>> \in Seq(Frames) /\ Len(<<Frame(l(k))>>) = 1
    BY <1>1
  <2>2. stack = [k \in Stacks |-> <<Frame(l(k))>>]
    BY Zenon DEF Init, Stacks
  <2> HIDE DEF l
  <2> QED
    BY Zenon, <2>1, <2>2 DEF StackType
<1>4. \A k \in Stacks : depth[k] = 1 /\ top[k] = Frame(l(k)) /\ bot[k] = Frame(l(k))
  <2>1. \A f : Len(<<f>>) = 1 /\ <<f>>[1] = f
    BY Zenon
  <2>2. \A k \in Stacks : Len(stack[k]) = 1 /\ stack[k][1] = Frame(l(k))
    BY Zenon, <1>2, <2>1
  <2> HIDE DEF l
  <2> QED
    BY Zenon, <2>2 DEF depth, top, bot
<1>5. TypeInv
  <2>1. ASSUME NEW c \in Cpu
        PROVE  [intr |-> FALSE, noff |-> 0, intena |-> FALSE, sepc |-> <<>>, tp |-> c,
                stvec |-> "kernelvec"] \in CpuType
    BY Zenon DEF CpuType, Sepc
  <2>2. cpu \in [Cpu -> CpuType]
    BY Zenon, <2>1 DEF Init
  <2>3. NoNap \in NapType /\ 0 \in 0..(TickMod - 1)
    BY SchedConstants DEF NoNap, NapType
  <2> QED
    BY Zenon, <1>3, <2>2, <2>3 DEF Init, TypeInv, Locks, Stacks
<1>6. StackInv
  <2> SUFFICES ASSUME NEW k \in Stacks PROVE StackOK(k, depth[k], top[k], bot[k])
    BY Zenon DEF StackInv
  <2>1. depth[k] = 1 /\ bot[k] = top[k] /\ top[k].pc = l(k)
    BY Zenon, <1>1, <1>4
  <2> QED
    BY <2>1, SchedConstants DEF StackOK, Stacks
<1>7. \A p \in Proc : top[p].pc = "forkret"
  BY Zenon, <1>1, <1>4 DEF Stacks
<1>8. \A c \in Cpu : on[c] = c /\ top[c].pc = "loop" /\ c \notin Proc
  BY Zenon, <1>1, <1>4, SchedConstants DEF Stacks, Init
<1>9. RunInv
  BY Zenon, <1>7, <1>8 DEF Init, RunInv, Waits
<1>10. LockInv
  BY Zenon, <1>8, SchedConstants DEF Init, LockInv, LockOK, HoldsTicks, HoldsOwn, None
<1>11. CpuInv
  <2> SUFFICES ASSUME NEW c \in Cpu PROVE CpuOK(c, c, "loop", cpu[c], hartid)
    BY Zenon, <1>8 DEF CpuInv
  <2> QED
    BY Zenon DEF Init, CpuOK, Noff, Masked, HoldsTicks, HoldsOwn
<1> QED
  BY Zenon, <1>5, <1>6, <1>9, <1>10, <1>11 DEF Inv

LEMMA StutterInv ==
  ASSUME Inv, UNCHANGED vars
  PROVE  Inv'
<1>1. StackType' /\ depth' = depth /\ top' = top /\ bot' = bot
  BY Zenon, SameStacks DEF vars, Inv, TypeInv
<1>2. TypeInv' /\ RunInv'
  BY <1>1, Zenon DEF vars, Inv, TypeInv, RunInv
<1>3. StackInv' /\ LockInv' /\ CpuInv'
  BY <1>1, Zenon DEF vars, Inv, StackInv, LockInv, CpuInv
<1> QED
  BY Zenon, <1>2, <1>3 DEF Inv

-----------------------------------------------------------------------------
(* The steps in which a thread stays on its CPU and takes or gives up locks,
   or is interrupted. *)

LEMMA Syscall ==
  ASSUME Inv, NEW c \in Cpu, syscall(c)
  PROVE  Inv'
<1> DEFINE u == usertrap(c)
           i == ~killed[on[c]]
           r == [u EXCEPT !.intr = i]
<1>1. top[on[c]].pc = "user" /\ on[c] \in Stacks /\ cpu[c] \in CpuType
  BY Zenon, Here DEF syscall, InUser, At
<1>2. /\ LockOK(c, on[c], "user", lock) /\ CpuOK(c, on[c], "user", cpu[c], hartid)
      /\ depth[on[c]] = 1 /\ on[c] \in Proc
  BY Zenon, <1>1, Place DEF Handler
<1>3. cpu[c].noff = 0 /\ hartid[on[c]] = c
  BY Zenon, <1>2 DEF CpuOK, Noff, HoldsTicks, HoldsOwn
<1>4. u = [cpu[c] EXCEPT !.tp = c, !.stvec = "kernelvec", !.sepc = <<>>]
  BY Zenon, <1>3 DEF usertrap
<1>5. cpu' = [cpu EXCEPT ![c] = r] /\ lock' = lock
  BY Zenon DEF syscall, SetCpu
<1>6. i \in BOOLEAN
  BY Zenon, <1>2 DEF Inv, TypeInv
<1> HIDE DEF i
<1>7. r \in CpuType /\ r.noff = 0 /\ r.tp = c /\ r.stvec = "kernelvec"
  BY <1>1, <1>3, <1>4, <1>6, Zenon DEF CpuType, Sepc
<1>8. PICK l \in {"sysret", "sys_sleep"} : Goto(c, l)
  BY Zenon DEF syscall
<1>9. nap' \in [Proc -> NapType]
  BY <1>2, SchedConstants DEF syscall, Inv, TypeInv, NapType, NoNap
<1>10. Aside(c)
  BY Zenon, <1>9 DEF syscall, Inv, TypeInv, Aside
<1> HIDE DEF u, r
<1>11. OnlyCpu(c) /\ lock' \in [Locks -> Cpu \union {None}]
  BY <1>5, SameLocks, Zenon
<1>12. LockOK(c, on[c], l, lock') /\ CpuOK(c, on[c], l, r, hartid')
  BY Zenon, <1>2, <1>5, <1>7 DEF LockOK, CpuOK, Noff, Masked, HoldsTicks, HoldsOwn
<1>13. MayBe(on[c], depth[on[c]], l) /\ top[on[c]].pc # "sched"
  BY <1>1, <1>2, SchedConstants DEF MayBe, Places, Interruptible
<1> QED
  BY <1>5, <1>7, <1>8, <1>10, <1>11, <1>12, <1>13, GotoStep, Zenon

\* sys_sleep's acquire(&tickslock), the first one and sleep's.
LEMMA TakeTicks ==
  ASSUME Inv, NEW c \in Cpu, top[on[c]].pc \in {"sys_sleep", "reacquire"},
         acquire(c, tickslock), Goto(c, "test"), Aside(c)
  PROVE  Inv'
<1> DEFINE r == push_off(cpu[c])
<1>1. on[c] \in Stacks /\ cpu[c] \in CpuType
  BY Zenon, Here
<1>2. /\ LockOK(c, on[c], top[on[c]].pc, lock)
      /\ CpuOK(c, on[c], top[on[c]].pc, cpu[c], hartid)
      /\ depth[on[c]] = 1 /\ on[c] \in Proc
  BY Zenon, Place DEF Handler
<1>3. cpu[c].noff = 0 /\ cpu[c].stvec = "kernelvec" /\ cpu[c].tp = c
  BY Zenon, <1>2 DEF CpuOK, Noff, HoldsTicks, HoldsOwn
<1>4. r \in CpuType /\ r.noff = 1 /\ r.intr = FALSE /\ r.tp = c /\ r.stvec = "kernelvec"
  BY <1>1, <1>3, PushOff, Zenon
<1>5. /\ cpu' = [cpu EXCEPT ![c] = r] /\ lock' = [lock EXCEPT ![tickslock] = c]
      /\ lock[tickslock] = None /\ tickslock \in Locks
  BY Zenon DEF acquire, SetCpu, Locks
<1> HIDE DEF r
<1>6. /\ OnlyCpu(c) /\ lock' \in [Locks -> Cpu \union {None}]
      /\ \A m \in Locks : lock'[m] = IF m = tickslock THEN c ELSE lock[m]
  BY <1>5, OneLock, Zenon
<1>7. LockOK(c, on[c], "test", lock')
  BY Zenon, <1>2, <1>6, SchedConstants DEF LockOK, HoldsTicks, HoldsOwn, Locks, tickslock
<1>8. CpuOK(c, on[c], "test", r, hartid')
  BY Zenon, <1>4 DEF CpuOK, Noff, Masked, HoldsTicks, HoldsOwn
<1>9. MayBe(on[c], depth[on[c]], "test") /\ top[on[c]].pc # "sched"
  BY <1>1, <1>2, SchedConstants DEF MayBe, Places, HoldsTicks
<1> QED
  BY <1>4, <1>5, <1>6, <1>7, <1>8, <1>9, GotoStep, Zenon

LEMMA SysSleep ==
  ASSUME Inv, NEW c \in Cpu, sys_sleep(c)
  PROVE  Inv'
<1>1. /\ top[on[c]].pc = "sys_sleep" /\ top[on[c]].pc \in {"sys_sleep", "reacquire"}
      /\ acquire(c, tickslock) /\ Goto(c, "test")
  BY Zenon, Here DEF sys_sleep, At
<1>2. on[c] \in Proc
  BY Zenon, <1>1, Place
<1>3. nap' \in [Proc -> NapType]
  <2> DEFINE v == [nap[on[c]] EXCEPT !.t0 = ticks, !.past = 0]
  <2>1. nap \in [Proc -> NapType] /\ nap' = [nap EXCEPT ![on[c]] = v]
    BY <1>2, Zenon DEF sys_sleep, Inv, TypeInv
  <2>2. v \in NapType
    BY <1>2, <2>1, Zenon DEF Inv, TypeInv, NapType
  <2> HIDE DEF v
  <2> QED
    BY <2>1, <2>2, Zenon
<1>4. Aside(c)
  BY Zenon, <1>3 DEF sys_sleep, Inv, TypeInv, Aside
<1> QED
  BY <1>1, <1>4, TakeTicks, Zenon

LEMMA SleepReacquire ==
  ASSUME Inv, NEW c \in Cpu, sleep_reacquire(c)
  PROVE  Inv'
<1>1. /\ top[on[c]].pc \in {"sys_sleep", "reacquire"} /\ acquire(c, tickslock)
      /\ Goto(c, "test") /\ Aside(c)
  BY Zenon, Here, AsideSame DEF sleep_reacquire, At
<1> QED
  BY <1>1, TakeTicks, Zenon

\* sys_sleep gives tickslock up as it returns.
LEMMA GiveTicks ==
  ASSUME Inv, NEW c \in Cpu, top[on[c]].pc = "test",
         release(c, tickslock), Goto(c, "sysret"), Aside(c)
  PROVE  Inv'
<1> DEFINE r == pop_off(cpu[c])
<1>1. on[c] \in Stacks /\ cpu[c] \in CpuType
  BY Zenon, Here
<1>2. /\ LockOK(c, on[c], "test", lock) /\ CpuOK(c, on[c], "test", cpu[c], hartid)
      /\ depth[on[c]] = 1 /\ on[c] \in Proc
  BY Zenon, Place DEF Handler
<1>3. /\ cpu[c].noff = 1 /\ cpu[c].intr = FALSE
      /\ cpu[c].stvec = "kernelvec" /\ cpu[c].tp = c
  BY Zenon, <1>2 DEF CpuOK, Noff, Masked, HoldsTicks, HoldsOwn
<1>4. r \in CpuType /\ r.noff = 0 /\ r.tp = c /\ r.stvec = "kernelvec"
  BY <1>1, <1>3, PopOff, Zenon
<1>5. /\ cpu' = [cpu EXCEPT ![c] = r] /\ lock' = [lock EXCEPT ![tickslock] = None]
  BY Zenon DEF release, SetCpu
<1> HIDE DEF r
<1>6. lock[tickslock] = c /\ tickslock \in Locks
  BY Zenon, <1>2 DEF LockOK, HoldsTicks, Locks
<1>7. /\ OnlyCpu(c) /\ lock' \in [Locks -> Cpu \union {None}]
      /\ \A m \in Locks : lock'[m] = IF m = tickslock THEN None ELSE lock[m]
  BY <1>5, <1>6, OneLock, Zenon
<1>8. LockOK(c, on[c], "sysret", lock')
  BY <1>2, <1>7, SchedConstants DEF LockOK, HoldsTicks, HoldsOwn, Locks, None, tickslock
<1>9. CpuOK(c, on[c], "sysret", r, hartid')
  BY Zenon, <1>4 DEF CpuOK, Noff, Masked, HoldsTicks, HoldsOwn
<1>10. MayBe(on[c], depth[on[c]], "sysret") /\ top[on[c]].pc # "sched"
  BY <1>1, <1>2, SchedConstants DEF MayBe, Places, Interruptible
<1> QED
  BY <1>4, <1>5, <1>7, <1>8, <1>9, <1>10, GotoStep, Zenon

LEMMA SysSleepReturns ==
  ASSUME Inv, NEW c \in Cpu, sys_sleep_done(c) \/ sys_sleep_killed(c)
  PROVE  Inv'
<1>1. top[on[c]].pc = "test" /\ release(c, tickslock) /\ Goto(c, "sysret")
  BY Zenon, Here DEF sys_sleep_done, sys_sleep_killed, At
<1>2. on[c] \in Proc
  BY Zenon, <1>1, Place
<1>3. nap' \in [Proc -> NapType]
  <2>1. NoNap \in NapType
    BY SchedConstants DEF NapType, NoNap
  <2> QED
    BY Zenon, <2>1 DEF sys_sleep_done, sys_sleep_killed, Inv, TypeInv
<1>4. Aside(c)
  BY Zenon, <1>3 DEF sys_sleep_done, sys_sleep_killed, Inv, TypeInv, Aside
<1> QED
  BY <1>1, <1>4, GiveTicks, Zenon

LEMMA SysSleepWaits ==
  ASSUME Inv, NEW c \in Cpu, sys_sleep_waits(c)
  PROVE  Inv'
<1>1. top[on[c]].pc = "test" /\ on[c] \in Stacks /\ cpu[c] \in CpuType
  BY Zenon, Here DEF sys_sleep_waits, At
<1>2. /\ LockOK(c, on[c], "test", lock) /\ CpuOK(c, on[c], "test", cpu[c], hartid)
      /\ depth[on[c]] = 1 /\ on[c] \in Proc
  BY Zenon, <1>1, Place DEF Handler
<1>3. /\ cpu' = [cpu EXCEPT ![c] = cpu[c]] /\ lock' = lock /\ Goto(c, "sleep")
      /\ hartid' = hartid /\ Aside(c)
  BY Zenon, AsideSame DEF sys_sleep_waits, Inv, TypeInv
<1>4. OnlyCpu(c) /\ lock' \in [Locks -> Cpu \union {None}]
  BY <1>3, SameLocks, Zenon
<1>5. LockOK(c, on[c], "sleep", lock') /\ CpuOK(c, on[c], "sleep", cpu[c], hartid')
  BY Zenon, <1>2, <1>3 DEF LockOK, CpuOK, Noff, Masked, HoldsTicks, HoldsOwn
<1>6. MayBe(on[c], depth[on[c]], "sleep") /\ top[on[c]].pc # "sched"
  BY <1>1, <1>2, SchedConstants DEF MayBe, Places, HoldsTicks
<1> QED
  BY <1>1, <1>3, <1>4, <1>5, <1>6, GotoStep, Zenon

LEMMA SleepLock ==
  ASSUME Inv, NEW c \in Cpu, sleep_lock(c)
  PROVE  Inv'
<1> DEFINE r == push_off(cpu[c])
<1>1. top[on[c]].pc = "sleep" /\ on[c] \in Stacks /\ cpu[c] \in CpuType
  BY Zenon, Here DEF sleep_lock, At
<1>2. /\ LockOK(c, on[c], "sleep", lock) /\ CpuOK(c, on[c], "sleep", cpu[c], hartid)
      /\ depth[on[c]] = 1 /\ on[c] \in Proc
  BY Zenon, <1>1, Place DEF Handler
<1>3. cpu[c].noff = 1 /\ cpu[c].stvec = "kernelvec" /\ cpu[c].tp = c
  BY Zenon, <1>2 DEF CpuOK, Noff, HoldsTicks, HoldsOwn
<1>4. r \in CpuType /\ r.noff = 2 /\ r.intr = FALSE /\ r.tp = c /\ r.stvec = "kernelvec"
  BY <1>1, <1>3, PushOff, Zenon
<1>5. /\ cpu' = [cpu EXCEPT ![c] = r] /\ lock' = [lock EXCEPT ![on[c]] = c]
      /\ lock[on[c]] = None /\ on[c] \in Locks /\ Goto(c, "release") /\ Aside(c)
  BY Zenon, <1>2, AsideSame DEF sleep_lock, acquire, SetCpu, Locks
<1> HIDE DEF r
<1>6. /\ OnlyCpu(c) /\ lock' \in [Locks -> Cpu \union {None}]
      /\ \A m \in Locks : lock'[m] = IF m = on[c] THEN c ELSE lock[m]
  BY <1>5, OneLock, Zenon
<1>7. LockOK(c, on[c], "release", lock')
  BY Zenon, <1>2, <1>6, SchedConstants DEF LockOK, HoldsTicks, HoldsOwn, Locks, tickslock
<1>8. CpuOK(c, on[c], "release", r, hartid')
  BY Zenon, <1>4 DEF CpuOK, Noff, Masked, HoldsTicks, HoldsOwn
<1>9. MayBe(on[c], depth[on[c]], "release") /\ top[on[c]].pc # "sched"
  BY <1>1, <1>2, SchedConstants DEF MayBe, Places, HoldsTicks
<1> QED
  BY <1>4, <1>5, <1>6, <1>7, <1>8, <1>9, GotoStep, Zenon

LEMMA SleepReturn ==
  ASSUME Inv, NEW c \in Cpu, sleep_return(c)
  PROVE  Inv'
<1> DEFINE r == pop_off(cpu[c])
<1>1. top[on[c]].pc = "woken" /\ on[c] \in Stacks /\ cpu[c] \in CpuType
  BY Zenon, Here DEF sleep_return, At
<1>2. /\ LockOK(c, on[c], "woken", lock) /\ CpuOK(c, on[c], "woken", cpu[c], hartid)
      /\ depth[on[c]] = 1 /\ on[c] \in Proc
  BY Zenon, <1>1, Place DEF Handler
<1>3. /\ cpu[c].noff = 1 /\ cpu[c].intr = FALSE
      /\ cpu[c].stvec = "kernelvec" /\ cpu[c].tp = c
  BY Zenon, <1>2 DEF CpuOK, Noff, Masked, HoldsTicks, HoldsOwn
<1>4. r \in CpuType /\ r.noff = 0 /\ r.tp = c /\ r.stvec = "kernelvec"
  BY <1>1, <1>3, PopOff, Zenon
<1>5. /\ cpu' = [cpu EXCEPT ![c] = r] /\ lock' = [lock EXCEPT ![on[c]] = None]
      /\ Goto(c, "reacquire")
  BY Zenon DEF sleep_return, release, SetCpu
<1>6. state[on[c]] = "RUNNING"
  BY Zenon, <1>1, <1>2 DEF Inv, RunInv
<1>7. Aside(c)
  BY <1>6, Zenon DEF sleep_return, Inv, TypeInv, Aside
<1> HIDE DEF r
<1>8. lock[on[c]] = c /\ on[c] \in Locks
  BY Zenon, <1>2 DEF LockOK, HoldsOwn, Locks
<1>9. /\ OnlyCpu(c) /\ lock' \in [Locks -> Cpu \union {None}]
      /\ \A m \in Locks : lock'[m] = IF m = on[c] THEN None ELSE lock[m]
  BY <1>5, <1>8, OneLock, Zenon
<1>10. LockOK(c, on[c], "reacquire", lock')
  BY <1>2, <1>9, SchedConstants DEF LockOK, HoldsTicks, HoldsOwn, Locks, None, tickslock
<1>11. CpuOK(c, on[c], "reacquire", r, hartid')
  BY Zenon, <1>4 DEF CpuOK, Noff, Masked, HoldsTicks, HoldsOwn
<1>12. MayBe(on[c], depth[on[c]], "reacquire") /\ top[on[c]].pc # "sched"
  BY <1>1, <1>2, SchedConstants DEF MayBe, Places, Interruptible
<1> QED
  BY <1>4, <1>5, <1>7, <1>9, <1>10, <1>11, <1>12, GotoStep, Zenon

LEMMA YieldReturn ==
  ASSUME Inv, NEW c \in Cpu, yield_return(c)
  PROVE  Inv'
<1> DEFINE q == pop_off(cpu[c])
<1>1. /\ top[on[c]].pc = "yielded" /\ on[c] \in Stacks /\ cpu[c] \in CpuType
      /\ top[on[c]] \in Frames /\ Top(on[c]) = top[on[c]] /\ depth[on[c]] \in {1, 2}
      /\ Base(c) <=> depth[on[c]] = 1
  BY Here, Zenon DEF yield_return, At, Base
<1>2. /\ LockOK(c, on[c], "yielded", lock) /\ CpuOK(c, on[c], "yielded", cpu[c], hartid)
      /\ StackOK(on[c], depth[on[c]], top[on[c]], bot[on[c]]) /\ on[c] \in Proc
  BY Zenon, <1>1, Place
<1>3. /\ cpu[c].noff = 1 /\ cpu[c].intr = FALSE /\ cpu[c].intena = FALSE
      /\ cpu[c].stvec = "kernelvec" /\ cpu[c].tp = c
  BY Zenon, <1>2 DEF CpuOK, Noff, Masked, HoldsTicks, HoldsOwn
<1>4. /\ q \in CpuType /\ q.noff = 0 /\ q.tp = c /\ q.stvec = "kernelvec"
      /\ q.intr = FALSE
  BY <1>1, <1>3, PopOff, Zenon
<1>5. lock' = [lock EXCEPT ![on[c]] = None] /\ Aside(c)
  BY Zenon, AsideSame DEF yield_return
<1>6. lock[on[c]] = c /\ on[c] \in Locks
  BY Zenon, <1>2 DEF LockOK, HoldsOwn, Locks
<1>7. ASSUME NEW r \in CpuType, cpu' = [cpu EXCEPT ![c] = r]
      PROVE  /\ OnlyCpu(c) /\ lock' \in [Locks -> Cpu \union {None}]
             /\ \A m \in Locks : lock'[m] = IF m = on[c] THEN None ELSE lock[m]
  BY <1>5, <1>6, <1>7, OneLock, Zenon
<1>8. CASE depth[on[c]] = 1
  <2>1. cpu' = [cpu EXCEPT ![c] = q] /\ Goto(c, "ret")
    BY Zenon, <1>1, <1>8 DEF yield_return, SetCpu
  <2> HIDE DEF q
  <2>2. /\ OnlyCpu(c) /\ lock' \in [Locks -> Cpu \union {None}]
        /\ \A m \in Locks : lock'[m] = IF m = on[c] THEN None ELSE lock[m]
    BY <1>4, <1>7, <2>1, Zenon
  <2>3. LockOK(c, on[c], "ret", lock')
    BY <1>2, <2>2, SchedConstants DEF LockOK, HoldsTicks, HoldsOwn, Locks, None, tickslock
  <2>4. CpuOK(c, on[c], "ret", q, hartid')
    BY Zenon, <1>4 DEF CpuOK, Noff, Masked, HoldsTicks, HoldsOwn
  <2>5. MayBe(on[c], depth[on[c]], "ret") /\ top[on[c]].pc # "sched"
    BY <1>1, <1>2, <1>8, SchedConstants DEF MayBe, Places, Interruptible
  <2> QED
    BY <1>4, <1>5, <2>1, <2>2, <2>3, <2>4, <2>5, GotoStep, Zenon
<1>9. CASE depth[on[c]] = 2
  <2> DEFINE r == w_sepc(q, Top(on[c]))
  <2>1. cpu' = [cpu EXCEPT ![c] = r] /\ Goto(c, "sret")
    BY <1>1, <1>9 DEF yield_return, SetCpu
  <2> HIDE DEF q
  <2>2. top[on[c]].sepc = <<on[c], 1>> /\ top[on[c]].sepc \in Sepc
    BY <1>1, <1>2, <1>9, Zenon DEF StackOK, Frames
  <2>3. /\ r \in CpuType /\ r.noff = 0 /\ r.intr = FALSE /\ r.tp = c
        /\ r.stvec = "kernelvec" /\ r.sepc = <<on[c], 1>>
    BY Zenon, <1>1, <1>4, <2>2 DEF CpuType, w_sepc
  <2> HIDE DEF r
  <2>4. /\ OnlyCpu(c) /\ lock' \in [Locks -> Cpu \union {None}]
        /\ \A m \in Locks : lock'[m] = IF m = on[c] THEN None ELSE lock[m]
    BY <1>7, <2>1, <2>3, Zenon
  <2>5. LockOK(c, on[c], "sret", lock')
    BY <1>2, <2>4, SchedConstants DEF LockOK, HoldsTicks, HoldsOwn, Locks, None, tickslock
  <2>6. CpuOK(c, on[c], "sret", r, hartid')
    BY Zenon, <2>3 DEF CpuOK, Noff, Masked, HoldsTicks, HoldsOwn
  <2>7. MayBe(on[c], depth[on[c]], "sret") /\ top[on[c]].pc # "sched"
    BY <1>1, <1>2, <1>9, SchedConstants DEF MayBe, Places, Handler
  <2> QED
    BY <1>5, <2>1, <2>3, <2>4, <2>5, <2>6, <2>7, GotoStep, Zenon
<1> QED
  BY Zenon, <1>1, <1>8, <1>9

LEMMA Kerneltrap ==
  ASSUME Inv, NEW c \in Cpu, kerneltrap(c)
  PROVE  Inv'
<1> DEFINE h == <<on[c], 1>>
           r == [cpu[c] EXCEPT !.intr = FALSE, !.sepc = h]
           l == devintr(cpu[c])
           f == [Frame(l) EXCEPT !.sepc = h]
<1>1. /\ top[on[c]].pc # "user" /\ on[c] \in Stacks /\ cpu[c] \in CpuType
      /\ top[on[c]] \in Frames /\ bot[on[c]] \in Frames /\ cpu[c].intr = TRUE
      /\ Len(stack[on[c]]) = depth[on[c]]
  BY Zenon, Here DEF kerneltrap, InUser, At, CpuType
<1>2. /\ StackOK(on[c], depth[on[c]], top[on[c]], bot[on[c]])
      /\ LockOK(c, on[c], top[on[c]].pc, lock)
      /\ CpuOK(c, on[c], top[on[c]].pc, cpu[c], hartid)
      /\ top[on[c]].pc \notin Handler => depth[on[c]] = 1
      /\ top[on[c]].pc # "zombie" /\ top[on[c]].pc \in Places
  BY Zenon, Place
<1>3. top[on[c]].pc \notin Masked
  BY Zenon, <1>1, <1>2 DEF CpuOK
<1>4. top[on[c]].pc \in Interruptible
  BY Zenon, <1>1, <1>2, <1>3 DEF Places, Masked, HoldsTicks, HoldsOwn, Handler
<1>5. depth[on[c]] = 1 /\ bot[on[c]] = top[on[c]]
  BY <1>2, <1>4, Zenon DEF Interruptible, Handler, StackOK
<1>6. h \in Sepc /\ l \in {"clock", "after"}
  BY Zenon, <1>1 DEF Sepc, devintr
<1>7. /\ cpu' = [cpu EXCEPT ![c] = r] /\ lock' = lock /\ hartid' = hartid /\ Aside(c)
      /\ stack' = [stack EXCEPT ![on[c]] = Append(@, f)]
  BY Zenon, <1>1, <1>5, AsideSame DEF kerneltrap, SetCpu
<1>8. /\ cpu[c].noff = 0 /\ cpu[c].stvec = "kernelvec" /\ cpu[c].tp = c
  BY Zenon, <1>1, <1>2, <1>4 DEF CpuOK, Noff, HoldsTicks, HoldsOwn, Interruptible
<1> HIDE DEF l
<1>9. f \in Frames /\ f.pc = l /\ f.sepc = h
  BY <1>6, Zenon DEF Frames, Frame, Places, Handler
<1>10. /\ r \in CpuType /\ r.intr = FALSE /\ r.noff = 0 /\ r.stvec = "kernelvec"
       /\ r.tp = c
  BY <1>1, <1>6, <1>8, Zenon DEF CpuType
<1> HIDE DEF r, f
<1>11. /\ StackType' /\ OnlyStack(on[c]) /\ top'[on[c]] = f /\ depth'[on[c]] = 2
       /\ bot'[on[c]] = bot[on[c]]
  BY <1>1, <1>5, <1>7, <1>9, Push, Zenon DEF Inv, TypeInv
<1>12. StackOK(on[c], 2, f, bot[on[c]])
  <2>1. f.pc \in Handler /\ f.pc # "sched" /\ f.pc # "yielded"
    BY Zenon, <1>6, <1>9 DEF Handler
  <2>2. /\ on[c] \in Cpu => bot[on[c]].pc = "loop"
        /\ on[c] \in Proc => bot[on[c]].pc # "loop"
    BY <1>2, Zenon DEF StackOK
  <2>3. bot[on[c]].pc \in Interruptible
    BY Zenon, <1>4, <1>5
  <2>4. f.pc \in {"loop", "clock", "wakeup", "after", "sret"} /\ f.sepc = <<on[c], 1>>
    BY Zenon, <1>6, <1>9
  <2>5. 2 # 1
    OBVIOUS
  <2> QED
    BY <2>1, <2>2, <2>3, <2>4, <2>5, Zenon DEF StackOK
<1>13. OnlyCpu(c) /\ lock' \in [Locks -> Cpu \union {None}]
  BY <1>7, SameLocks, Zenon
<1>14. LockOK(c, on[c], f.pc, lock')
  BY Zenon, <1>2, <1>4, <1>6, <1>7, <1>9 DEF LockOK, HoldsTicks, HoldsOwn, Interruptible
<1>15. CpuOK(c, on[c], f.pc, r, hartid')
  BY Zenon, <1>6, <1>9, <1>10 DEF CpuOK, Noff, HoldsTicks, HoldsOwn
<1>16. top[on[c]].pc # "sched" /\ f.pc \notin {"sched", "zombie"}
  BY Zenon, <1>4, <1>6, <1>9 DEF Interruptible
<1>17. StackOK(on[c], depth'[on[c]], f, bot'[on[c]])
  BY Zenon, <1>11, <1>12
<1> QED
  BY <1>7, <1>9, <1>10, <1>11, <1>13, <1>14, <1>15, <1>16, <1>17, LocalStep, Zenon

LEMMA Sret ==
  ASSUME Inv, NEW c \in Cpu, sret(c)
  PROVE  Inv'
<1> DEFINE r == [cpu[c] EXCEPT !.intr = TRUE, !.sepc = <<>>]
           f == bot[on[c]]
<1>1. /\ top[on[c]].pc = "sret" /\ on[c] \in Stacks /\ cpu[c] \in CpuType
      /\ f \in Frames /\ depth[on[c]] \in {1, 2}
  BY Zenon, Here DEF sret, At
<1>2. /\ StackOK(on[c], depth[on[c]], top[on[c]], bot[on[c]])
      /\ LockOK(c, on[c], "sret", lock) /\ CpuOK(c, on[c], "sret", cpu[c], hartid)
  BY Zenon, <1>1, Place
<1>3. depth[on[c]] = 2 /\ f.pc \in Interruptible
  BY Zenon, <1>1, <1>2 DEF StackOK
<1>4. /\ cpu' = [cpu EXCEPT ![c] = r] /\ lock' = lock /\ hartid' = hartid /\ Aside(c)
      /\ stack' = [stack EXCEPT ![on[c]] = SubSeq(@, 1, Len(@) - 1)]
  BY Zenon, AsideSame DEF sret, SetCpu
<1>5. /\ cpu[c].noff = 0 /\ cpu[c].stvec = "kernelvec" /\ cpu[c].tp = c
  BY Zenon, <1>2 DEF CpuOK, Noff, HoldsTicks, HoldsOwn
<1>6. r \in CpuType /\ r.noff = 0 /\ r.stvec = "kernelvec" /\ r.tp = c
  BY <1>1, <1>5, Zenon DEF CpuType, Sepc
<1>7. /\ StackType' /\ OnlyStack(on[c]) /\ top'[on[c]] = f /\ depth'[on[c]] = 1
      /\ bot'[on[c]] = f
  BY <1>1, <1>3, <1>4, Pop, Zenon DEF Inv, TypeInv
<1>8. /\ on[c] \in Cpu => f.pc = "loop"
      /\ on[c] \in Proc => f.pc # "loop"
  BY <1>2, Zenon DEF StackOK
<1> HIDE DEF r, f
<1>9. StackOK(on[c], 1, f, f)
  <2>1. f.pc # "sret" /\ f.pc # "sched" /\ f.pc # "yielded" /\ 1 # 2
    BY <1>3 DEF Interruptible
  <2>2. on[c] \in Cpu => f.pc \in {"loop", "clock", "wakeup", "after", "sret"}
    BY Zenon, <1>8
  <2> QED
    BY <1>8, <2>1, <2>2, Zenon DEF StackOK
<1>10. OnlyCpu(c) /\ lock' \in [Locks -> Cpu \union {None}]
  BY <1>4, SameLocks, Zenon
<1>11. LockOK(c, on[c], f.pc, lock')
  BY Zenon, <1>2, <1>3, <1>4 DEF LockOK, HoldsTicks, HoldsOwn, Interruptible
<1>12. CpuOK(c, on[c], f.pc, r, hartid')
  BY Zenon, <1>3, <1>6 DEF CpuOK, Noff, Masked, HoldsTicks, HoldsOwn, Interruptible
<1>13. top[on[c]].pc # "sched" /\ f.pc \notin {"sched", "zombie"}
  BY Zenon, <1>1, <1>3 DEF Interruptible
<1>14. StackOK(on[c], depth'[on[c]], f, bot'[on[c]]) /\ f \in Frames
  BY Zenon, <1>1, <1>7, <1>9 DEF f
<1> QED
  BY <1>4, <1>6, <1>7, <1>10, <1>11, <1>12, <1>13, <1>14, LocalStep, Zenon

LEMMA Clockintr ==
  ASSUME Inv, NEW c \in Cpu, clockintr(c)
  PROVE  Inv'
<1> DEFINE r == push_off(cpu[c])
           f == [top[on[c]] EXCEPT !.pc = "wakeup", !.left = Proc]
<1>1. /\ top[on[c]].pc = "clock" /\ on[c] \in Stacks /\ cpu[c] \in CpuType
      /\ top[on[c]] \in Frames /\ depth[on[c]] \in {1, 2} /\ Top(on[c]) = top[on[c]]
  BY Zenon, Here DEF clockintr, At
<1>2. /\ StackOK(on[c], depth[on[c]], top[on[c]], bot[on[c]])
      /\ LockOK(c, on[c], "clock", lock) /\ CpuOK(c, on[c], "clock", cpu[c], hartid)
      /\ depth[on[c]] = 1 => on[c] \in Proc
  BY Zenon, <1>1, Place
<1>3. /\ cpu[c].noff = 0 /\ cpu[c].intr = FALSE
      /\ cpu[c].stvec = "kernelvec" /\ cpu[c].tp = c
  BY Zenon, <1>2 DEF CpuOK, Noff, Masked, HoldsTicks, HoldsOwn
<1>4. /\ r \in CpuType /\ r.noff = 1 /\ r.intr = FALSE /\ r.tp = c
      /\ r.stvec = "kernelvec" /\ r.intena = FALSE
  BY <1>1, <1>3, PushOff, Zenon
<1>5. /\ cpu' = [cpu EXCEPT ![c] = r] /\ lock' = [lock EXCEPT ![tickslock] = c]
      /\ lock[tickslock] = None /\ tickslock \in Locks /\ hartid' = hartid
      /\ stack' = WithTop(on[c], f)
  BY Zenon, <1>1 DEF clockintr, acquire, SetCpu, Locks
<1>6. f \in Frames /\ f.pc = "wakeup" /\ f.sepc = top[on[c]].sepc
  BY <1>1, Zenon DEF Frames, Places, Handler
<1>7. nap' \in [Proc -> NapType] /\ ticks' \in 0..(TickMod - 1)
  <2>1. ASSUME NEW v \in NapType
        PROVE  [v EXCEPT !.past = IF v.past < v.n THEN v.past + 1 ELSE v.past] \in NapType
    BY DEF NapType
  <2>2. nap' \in [Proc -> NapType]
    BY Zenon, <2>1 DEF clockintr, Inv, TypeInv
  <2>3. ticks' \in 0..(TickMod - 1)
    BY SchedConstants DEF clockintr, Inv, TypeInv
  <2> QED
    BY Zenon, <2>2, <2>3
<1>8. Aside(c)
  BY Zenon, <1>7 DEF clockintr, Inv, TypeInv, Aside
<1> HIDE DEF r, f
<1>9. /\ StackType' /\ OnlyStack(on[c]) /\ top'[on[c]] = f
      /\ depth'[on[c]] = depth[on[c]]
      /\ bot'[on[c]] = IF depth[on[c]] = 1 THEN f ELSE bot[on[c]]
  BY <1>1, <1>5, <1>6, ReplaceTop DEF Inv, TypeInv
<1>10. StackOK(on[c], depth[on[c]], f, IF depth[on[c]] = 1 THEN f ELSE bot[on[c]])
  <2>1. /\ f.pc \notin {"loop", "sched", "yielded"} /\ f.pc # "sret" /\ f.pc \in Handler
        /\ f.pc \in {"clock", "wakeup", "after", "sret"}
    BY Zenon, <1>6 DEF Handler
  <2> QED
    BY <1>1, <1>2, <1>6, <2>1, FrameMoves
<1>11. StackOK(on[c], depth'[on[c]], f, bot'[on[c]])
  BY Zenon, <1>9, <1>10
<1>12. /\ OnlyCpu(c) /\ lock' \in [Locks -> Cpu \union {None}]
       /\ \A m \in Locks : lock'[m] = IF m = tickslock THEN c ELSE lock[m]
  BY <1>5, OneLock, Zenon
<1>13. LockOK(c, on[c], f.pc, lock')
  BY Zenon, <1>2, <1>6, <1>12, SchedConstants DEF LockOK, HoldsTicks, HoldsOwn, Locks, tickslock
<1>14. CpuOK(c, on[c], f.pc, r, hartid')
  BY Zenon, <1>4, <1>6 DEF CpuOK, Noff, HoldsTicks, HoldsOwn
<1>15. top[on[c]].pc # "sched" /\ f.pc \notin {"sched", "zombie"}
  BY Zenon, <1>1, <1>6
<1> QED
  BY <1>4, <1>5, <1>6, <1>8, <1>9, <1>11, <1>12, <1>13, <1>14, <1>15, LocalStep, Zenon


-----------------------------------------------------------------------------
(* The steps: sched, scheduler, wakeup, kill. *)

\* sched() of the process on CPU c, which holds its lock.
LEMMA SchedStep ==
  ASSUME Inv, NEW c \in Cpu, NEW r \in CpuType, on[c] \in Proc,
         cpu' = [cpu EXCEPT ![c] = r], OnlyCpu(c), lock' \in [Locks -> Cpu \union {None}],
         NEW s \in {"RUNNABLE", "SLEEPING", "ZOMBIE"},
         NEW l \in {"yielded", "woken", "zombie"}, NEW locks, Sched(c, s, l, locks),
         s = "ZOMBIE" <=> l = "zombie",
         s = "SLEEPING" => chan'[on[c]] = TRUE,
         \A p \in Proc \ {on[c]} : chan'[p] = chan[p], chan' \in [Proc -> BOOLEAN],
         UNCHANGED <<killed, ticks, on, hartid, nap>>,
         depth[on[c]] = 2 => l = "yielded" /\ top[on[c]].pc \in Handler,
         l = "yielded" => r.intena = FALSE,
         LockOK(c, on[c], "sched", lock'), CpuOK(c, on[c], "sched", r, hartid)
  PROVE  Inv'
<1> DEFINE k == on[c]
           f == [top[k] EXCEPT !.pc = "sched", !.next = l, !.intena = r.intena]
<1>1. /\ k \in Stacks /\ top[k] \in Frames /\ depth[k] \in {1, 2} /\ Top(k) = top[k]
      /\ r.intena \in BOOLEAN /\ k \notin Cpu
  BY Zenon, Here, SchedConstants DEF CpuType
<1>2. StackOK(k, depth[k], top[k], bot[k])
  BY Zenon, Place
<1>3. cpu'[c] = r
  BY Zenon DEF Inv, TypeInv
<1>4. f \in Frames /\ f.pc = "sched" /\ f.next = l /\ f.intena = r.intena /\ f.sepc = top[k].sepc
  <2> DEFINE i == r.intena
  <2>1. i \in BOOLEAN
    BY Zenon, <1>1
  <2> HIDE DEF i
  <2>2. LET g == [top[k] EXCEPT !.pc = "sched", !.next = l, !.intena = i]
        IN  g \in Frames /\ g.pc = "sched" /\ g.next = l /\ g.intena = i /\ g.sepc = top[k].sepc
    BY <1>1, <2>1, Zenon DEF Frames, Places, Handler
  <2> QED
    BY Zenon, <2>2 DEF i
<1>5. stack' = WithTop(k, f) /\ state' = [state EXCEPT ![k] = s]
  BY <1>1, <1>3, Zenon DEF Sched
<1> HIDE DEF f
<1>6. /\ StackType' /\ OnlyStack(k) /\ top'[k] = f /\ depth'[k] = depth[k]
      /\ bot'[k] = IF depth[k] = 1 THEN f ELSE bot[k]
  BY Zenon, <1>1, <1>4, <1>5, ReplaceTop DEF Inv, TypeInv
<1>7. StackOK(k, depth'[k], f, bot'[k])
  <2>1. /\ f.pc # "sret" /\ f.pc # "loop" /\ f.pc # "yielded" /\ f.next # ""
        /\ f.pc \in Handler
    BY <1>4, Zenon DEF Handler
  <2> 1 # 2
    OBVIOUS
  <2>2. f.next = "yielded" => f.intena = FALSE
    BY Zenon, <1>4
  <2>3. CASE depth[k] = 1
    <3>1. StackOK(k, 1, f, f)
      BY <1>1, <2>1, <2>2, Zenon DEF StackOK
    <3> QED
      BY Zenon, <1>6, <2>3, <3>1
  <2>4. CASE depth[k] = 2
    <3>1. /\ bot[k].pc \in Interruptible /\ f.sepc = <<k, 1>> /\ f.next = "yielded"
          /\ k \in Proc => bot[k].pc # "loop"
      BY <1>2, <1>4, <2>4, Zenon DEF StackOK
    <3>2. StackOK(k, 2, f, bot[k])
      BY <1>1, <2>1, <2>2, <3>1, Zenon DEF StackOK
    <3> QED
      BY Zenon, <1>6, <2>4, <3>2
  <2> QED
    BY Zenon, <1>1, <2>3, <2>4
<1>8. StackInv'
  BY Zenon, <1>1, <1>6, <1>7, StackStep DEF Inv
<1>9. TypeInv'
  BY Zenon, <1>5, <1>6 DEF Inv, TypeInv
<1>10. \A d \in Cpu \ {c} : on[d] # k /\ on[d] \in Stacks
  BY Here, Zenon DEF Inv, RunInv
<1>11. \A d \in Cpu \ {c} : /\ LockOK(d, on'[d], top'[on'[d]].pc, lock')
                            /\ CpuOK(d, on'[d], top'[on'[d]].pc, cpu'[d], hartid')
  BY Zenon, <1>6, <1>10, OtherCpus DEF OnlyStack
<1>12. LockInv'
  BY <1>4, <1>6, <1>11 DEF LockInv
<1>13. CpuInv'
  BY <1>3, <1>4, <1>6, <1>11 DEF CpuInv
<1>14. RunInv'
  <2>1. \A j \in Stacks \ {k} : top'[j] = top[j]
    BY Zenon, <1>6 DEF OnlyStack
  <2>2. \A p \in Proc : p # k => state'[p] = state[p]
    BY Zenon, <1>5 DEF Inv, TypeInv
  <2>3. state'[k] = s
    BY Zenon, <1>5 DEF Inv, TypeInv
  <2>4. RunInv /\ on' = on /\ top'[k] = f
    BY Zenon, <1>6 DEF Inv
  <2>5. \A d \in Cpu : on[d] # d => top'[d].pc = "loop"
    BY <1>1, <2>1, <2>4 DEF RunInv, Stacks
  <2>6. \A d \in Cpu : on[d] \in Proc =>
          /\ state'[on[d]] = "RUNNING" <=> top'[on[d]].pc # "sched"
          /\ top'[on[d]].pc # "zombie"
    BY <1>4, <1>10, <2>1, <2>2, <2>3, <2>4 DEF RunInv
  <2>7. \A p \in Proc : (\A d \in Cpu : on[d] # p) =>
          state'[p] # "RUNNING" /\ top'[p].pc \in Waits
    BY <2>1, <2>2, <2>4 DEF RunInv, Stacks
  <2>8. \A p \in Proc : state'[p] = "ZOMBIE" <=>
          top'[p].pc = "zombie" \/ (top'[p].pc = "sched" /\ top'[p].next = "zombie")
    BY <1>4, <2>1, <2>2, <2>3, <2>4 DEF RunInv, Stacks
  <2>9. \A p \in Proc : state'[p] = "SLEEPING" => chan'[p] = TRUE
    BY <2>2, <2>3, <2>4 DEF RunInv
  <2> QED
    BY <2>4, <2>5, <2>6, <2>7, <2>8, <2>9 DEF RunInv
<1> QED
  BY Zenon, <1>8, <1>9, <1>12, <1>13, <1>14 DEF Inv

LEMMA Yield ==
  ASSUME Inv, NEW c \in Cpu, yield(c) \/ exit(c)
  PROVE  Inv'
<1> DEFINE r == push_off(cpu[c])
<1>1. /\ top[on[c]].pc \in {"after", "sysret"} /\ on[c] \in Proc /\ cpu[c] \in CpuType
      /\ top[on[c]].pc \notin {"after"} => exit(c)
      /\ lock[on[c]] = None /\ cpu' = [cpu EXCEPT ![c] = r]
  BY Zenon, Here DEF yield, exit, At, SetCpu
<1>2. /\ LockOK(c, on[c], top[on[c]].pc, lock)
      /\ CpuOK(c, on[c], top[on[c]].pc, cpu[c], hartid)
      /\ StackOK(on[c], depth[on[c]], top[on[c]], bot[on[c]])
  BY Zenon, Place
<1>3. /\ cpu[c].noff = 0 /\ cpu[c].stvec = "kernelvec" /\ cpu[c].tp = c
      /\ top[on[c]].pc = "after" => cpu[c].intr = FALSE
  BY Zenon, <1>1, <1>2 DEF CpuOK, Noff, Masked, HoldsTicks, HoldsOwn
<1>4. /\ r \in CpuType /\ r.noff = 1 /\ r.intr = FALSE /\ r.tp = c
      /\ r.stvec = "kernelvec" /\ (top[on[c]].pc = "after" => r.intena = FALSE)
  BY <1>1, <1>3, PushOff, Zenon
<1>5. /\ chan' = chan /\ UNCHANGED <<killed, ticks, on, hartid, nap>>
      /\ chan' \in [Proc -> BOOLEAN]
  BY Zenon DEF yield, exit, Inv, TypeInv
<1>6. /\ lock' = [lock EXCEPT ![on[c]] = c] /\ on[c] \in Locks
  BY Zenon, <1>1 DEF yield, exit, Sched, Locks
<1> HIDE DEF r
<1>7. /\ OnlyCpu(c) /\ lock' \in [Locks -> Cpu \union {None}]
      /\ \A m \in Locks : lock'[m] = IF m = on[c] THEN c ELSE lock[m]
  BY <1>1, <1>6, OneLock, Zenon
<1>8. LockOK(c, on[c], "sched", lock')
  BY Zenon, <1>1, <1>2, <1>7, SchedConstants DEF LockOK, HoldsTicks, HoldsOwn, Locks, tickslock
<1>9. CpuOK(c, on[c], "sched", r, hartid)
  BY Zenon, <1>4 DEF CpuOK, Noff, HoldsTicks, HoldsOwn
<1>10. CASE yield(c)
  <2>1. Sched(c, "RUNNABLE", "yielded", lock) /\ top[on[c]].pc = "after"
    BY Zenon, <1>10, Here DEF yield, At
  <2>2. depth[on[c]] = 2 => top[on[c]].pc \in Handler
    BY Zenon, <2>1 DEF Handler
  <2> QED
    BY <1>1, <1>4, <1>5, <1>7, <1>8, <1>9, <2>1, <2>2, SchedStep, Zenon
<1>11. CASE exit(c)
  <2>1. Sched(c, "ZOMBIE", "zombie", lock) /\ depth[on[c]] = 1
    BY <1>11, Here, Zenon DEF exit, Base
  <2>2. depth[on[c]] # 2 /\ \A p \in Proc \ {on[c]} : chan'[p] = chan[p]
    BY <1>5, <2>1
  <2> QED
    BY <1>1, <1>4, <1>5, <1>7, <1>8, <1>9, <2>1, <2>2, SchedStep, Zenon
<1> QED
  BY Zenon, <1>10, <1>11

LEMMA SleepSwitch ==
  ASSUME Inv, NEW c \in Cpu, sleep_switch(c)
  PROVE  Inv'
<1> DEFINE r == pop_off(cpu[c])
           locks == [lock EXCEPT ![tickslock] = None]
<1>1. /\ top[on[c]].pc = "release" /\ cpu[c] \in CpuType /\ cpu' = [cpu EXCEPT ![c] = r]
      /\ Sched(c, "SLEEPING", "woken", locks)
  BY Zenon, Here DEF sleep_switch, At, SetCpu
<1>2. /\ LockOK(c, on[c], "release", lock) /\ CpuOK(c, on[c], "release", cpu[c], hartid)
      /\ depth[on[c]] = 1 /\ on[c] \in Proc
  BY Zenon, <1>1, Place DEF Handler
<1>3. /\ cpu[c].noff = 2 /\ cpu[c].intr = FALSE
      /\ cpu[c].stvec = "kernelvec" /\ cpu[c].tp = c
  BY Zenon, <1>2 DEF CpuOK, Noff, Masked, HoldsTicks, HoldsOwn
<1>4. /\ r \in CpuType /\ r.noff = 1 /\ r.intr = FALSE /\ r.tp = c
      /\ r.stvec = "kernelvec"
  BY <1>1, <1>3, PopOff, Zenon
<1>5. /\ chan' \in [Proc -> BOOLEAN] /\ chan'[on[c]] = TRUE
      /\ \A p \in Proc \ {on[c]} : chan'[p] = chan[p]
      /\ UNCHANGED <<killed, ticks, on, hartid, nap>>
  BY Zenon, <1>2 DEF sleep_switch, Inv, TypeInv
<1>6. /\ lock[on[c]] = c /\ lock[tickslock] = c /\ tickslock \in Locks /\ on[c] \in Locks
      /\ on[c] # tickslock
  BY Zenon, <1>2, SchedConstants DEF LockOK, HoldsTicks, HoldsOwn, Locks, tickslock
<1>7. lock' = [lock EXCEPT ![tickslock] = None]
  BY <1>1, <1>6, Zenon DEF Sched, Inv, TypeInv
<1> HIDE DEF r, locks
<1>8. /\ OnlyCpu(c) /\ lock' \in [Locks -> Cpu \union {None}]
      /\ \A m \in Locks : lock'[m] = IF m = tickslock THEN None ELSE lock[m]
  BY <1>1, <1>6, <1>7, OneLock, Zenon
<1>9. LockOK(c, on[c], "sched", lock')
  BY <1>1, <1>2, <1>8, SchedConstants DEF LockOK, HoldsTicks, HoldsOwn, Locks, None, tickslock
<1>10. CpuOK(c, on[c], "sched", r, hartid)
  BY Zenon, <1>4 DEF CpuOK, Noff, HoldsTicks, HoldsOwn
<1>11. depth[on[c]] # 2
  BY <1>2
<1> QED
  BY <1>1, <1>2, <1>4, <1>5, <1>8, <1>9, <1>10, <1>11, SchedStep, Zenon

\* The scheduler takes p and runs it.
LEMMA Pick ==
  ASSUME Inv, NEW c \in Cpu, NEW p \in Proc, pick(c, p)
  PROVE  Inv'
<1> DEFINE r == resumed(push_off(cpu[c]), top[p])
           l == top[p].pc
<1>1. /\ on[c] = c /\ top[c].pc = "loop" /\ cpu[c] \in CpuType /\ p \in Stacks
      /\ lock[p] = None /\ state[p] = "RUNNABLE"
      /\ top[p] \in Frames /\ Top(p) = top[p]
  BY Here, StackView, Zenon DEF pick, At, Inv, TypeInv, Stacks
<1>2. LockOK(c, c, "loop", lock) /\ CpuOK(c, c, "loop", cpu[c], hartid)
  BY Zenon, <1>1, Place
<1>3. cpu[c].noff = 0 /\ cpu[c].stvec = "kernelvec" /\ cpu[c].tp = c
  BY Zenon, <1>2 DEF CpuOK, Noff, HoldsTicks, HoldsOwn
<1>4. \A d \in Cpu : on[d] # p
  <2> SUFFICES ASSUME NEW d \in Cpu, on[d] = p PROVE FALSE
    BY Zenon
  <2>1. top[p].pc = "sched"
    BY Zenon, <1>1 DEF Inv, RunInv
  <2>2. LockOK(d, p, "sched", lock)
    BY Zenon, <2>1, Place
  <2>3. lock[p] = d
    BY Zenon, <2>2 DEF LockOK, HoldsOwn
  <2> QED
    BY Zenon, <1>1, <2>3, SchedConstants DEF None
<1>5. l \in Waits /\ l # "zombie"
  BY Zenon, <1>1, <1>4 DEF Inv, RunInv
<1>6. l = "yielded" => top[p].intena = FALSE
  BY <1>1, Zenon DEF Inv, StackInv, StackOK
<1>7. /\ r \in CpuType /\ r.noff = 1 /\ r.intr = FALSE /\ r.tp = c
      /\ r.stvec = "kernelvec" /\ (l = "yielded" => r.intena = FALSE)
  <2> DEFINE q == push_off(cpu[c])
             i == top[p].intena
  <2>1. /\ q \in CpuType /\ q.noff = 1 /\ q.intr = FALSE /\ q.tp = c
        /\ q.stvec = "kernelvec"
    BY <1>1, <1>3, PushOff, Zenon
  <2>2. i \in BOOLEAN
    BY <1>1, Zenon DEF Frames
  <2> HIDE DEF q, i
  <2>3. CASE l = "forkret"
    BY Zenon, <2>1, <2>3 DEF resumed, q
  <2>4. CASE l # "forkret"
    <3>1. r = [q EXCEPT !.intena = i]
      BY Zenon, <2>4 DEF resumed, q, i
    <3>2. LET t == [q EXCEPT !.intena = i]
          IN  /\ t \in CpuType /\ t.noff = 1 /\ t.intr = FALSE /\ t.tp = c
              /\ t.stvec = "kernelvec" /\ t.intena = i
      BY Zenon, <2>1, <2>2 DEF CpuType
    <3> QED
      BY Zenon, <1>6, <3>1, <3>2 DEF i
  <2> QED
    BY <2>3, <2>4, Zenon
<1>8. /\ lock' = [lock EXCEPT ![p] = c] /\ cpu' = [cpu EXCEPT ![c] = r] /\ p \in Locks
      /\ state' = [state EXCEPT ![p] = "RUNNING"] /\ on' = [on EXCEPT ![c] = p]
      /\ UNCHANGED <<killed, chan, ticks, stack, hartid, nap>>
  BY Zenon, <1>1 DEF pick, SetCpu, Locks
<1> HIDE DEF r
<1>9. StackType' /\ depth' = depth /\ top' = top /\ bot' = bot
  BY Zenon, <1>8, SameStacks DEF Inv, TypeInv
<1>10. TypeInv'
  BY Zenon, <1>7, <1>8, <1>9 DEF Inv, TypeInv, Stacks, Locks
<1>11. StackInv'
  BY Zenon, <1>9 DEF Inv, StackInv
<1>12. on'[c] = p /\ cpu'[c] = r /\ \A d \in Cpu \ {c} : on'[d] = on[d]
  BY Zenon, <1>8 DEF Inv, TypeInv
<1>13. /\ OnlyCpu(c) /\ \A m \in Locks : lock'[m] = IF m = p THEN c ELSE lock[m]
  BY <1>1, <1>8, OneLock, Zenon
<1>14. \A d \in Cpu \ {c} : /\ LockOK(d, on'[d], top'[on'[d]].pc, lock')
                            /\ CpuOK(d, on'[d], top'[on'[d]].pc, cpu'[d], hartid')
  BY <1>8, <1>9, <1>12, <1>13, OtherCpus, Zenon
<1>15. LockOK(c, p, l, lock')
  BY Zenon, <1>2, <1>5, <1>13, SchedConstants
  DEF LockOK, HoldsTicks, HoldsOwn, Locks, Waits, tickslock
<1>16. CpuOK(c, p, l, r, hartid')
  BY Zenon, <1>5, <1>7 DEF CpuOK, Noff, HoldsTicks, HoldsOwn, Waits
<1>17. LockInv' /\ CpuInv'
  BY Zenon, <1>9, <1>12, <1>14, <1>15, <1>16 DEF LockInv, CpuInv
<1>18. RunInv'
  <2>1. \A q \in Proc : state'[q] = IF q = p THEN "RUNNING" ELSE state[q]
    BY Zenon, <1>8 DEF Inv, TypeInv
  <2>2. \A d \in Cpu : on'[d] = IF d = c THEN p ELSE on[d]
    BY Zenon, <1>12
  <2>3. c \notin Proc /\ p \notin Cpu /\ l # "sched"
    BY Zenon, <1>5, SchedConstants DEF Waits
  <2>4. \A d \in Cpu : on'[d] \in Proc \/ on'[d] = d
    BY <2>2 DEF Inv, RunInv
  <2>5. \A d, e \in Cpu : on'[d] = on'[e] => d = e
    BY <1>4, <2>2 DEF Inv, RunInv
  <2>6. \A d \in Cpu : on'[d] # d => top[d].pc = "loop"
    BY <1>1, <2>2 DEF Inv, RunInv
  <2>7. \A d \in Cpu : on'[d] \in Proc =>
          /\ state'[on'[d]] = "RUNNING" <=> top[on'[d]].pc # "sched"
          /\ top[on'[d]].pc # "zombie"
    BY <1>4, <1>5, <2>1, <2>2, <2>3 DEF Inv, RunInv
  <2>8. \A q \in Proc : (\A d \in Cpu : on'[d] # q) =>
          state'[q] # "RUNNING" /\ top[q].pc \in Waits
    BY <1>1, <2>1, <2>2, <2>3 DEF Inv, RunInv
  <2>9. \A q \in Proc : state'[q] = "ZOMBIE" <=>
          top[q].pc = "zombie" \/ (top[q].pc = "sched" /\ top[q].next = "zombie")
    BY <1>5, <2>1, <2>3 DEF Inv, RunInv
  <2>10. \A q \in Proc : state'[q] = "SLEEPING" => chan[q] = TRUE
    BY <2>1 DEF Inv, RunInv
  <2> QED
    BY <1>8, <1>9, <2>4, <2>5, <2>6, <2>7, <2>8, <2>9, <2>10 DEF RunInv
<1> QED
  BY Zenon, <1>10, <1>11, <1>17, <1>18 DEF Inv

\* The CPU leaves the stack of its process, and its scheduler gives up p->lock.
LEMMA Swtch ==
  ASSUME Inv, NEW c \in Cpu, swtch(c)
  PROVE  Inv'
<1> DEFINE k == on[c]
           q == pop_off(cpu[c])
           r == [q EXCEPT !.sepc = <<>>]
           f == [top[k] EXCEPT !.pc = top[k].next, !.next = ""]
<1>1. /\ top[k].pc = "sched" /\ k \in Stacks /\ cpu[c] \in CpuType /\ top[k] \in Frames
      /\ depth[k] \in {1, 2} /\ Top(k) = top[k]
  BY Zenon, Here DEF swtch, At
<1>2. /\ LockOK(c, k, "sched", lock) /\ CpuOK(c, k, "sched", cpu[c], hartid)
      /\ StackOK(k, depth[k], top[k], bot[k]) /\ k \in Proc
  BY Zenon, <1>1, Place
<1>3. /\ cpu[c].noff = 1 /\ cpu[c].intr = FALSE
      /\ cpu[c].stvec = "kernelvec" /\ cpu[c].tp = c
  BY Zenon, <1>2 DEF CpuOK, Noff, Masked, HoldsTicks, HoldsOwn
<1>4. q \in CpuType /\ q.noff = 0 /\ q.tp = c /\ q.stvec = "kernelvec"
  BY <1>1, <1>3, PopOff, Zenon
<1>5. /\ lock' = [lock EXCEPT ![k] = None] /\ cpu' = [cpu EXCEPT ![c] = r]
      /\ stack' = WithTop(k, f) /\ on' = [on EXCEPT ![c] = c]
      /\ UNCHANGED <<state, killed, chan, ticks, hartid, nap>>
  BY Zenon, <1>1 DEF swtch, SetCpu
<1> HIDE DEF q
<1>6. r \in CpuType /\ r.noff = 0 /\ r.tp = c /\ r.stvec = "kernelvec"
  BY Zenon, <1>4 DEF CpuType, Sepc
<1>7. top[k].next \in {"yielded", "woken", "zombie"}
  BY <1>1, <1>2, Zenon DEF StackOK, Frames
<1>8. /\ f \in Frames /\ f.pc = top[k].next /\ f.sepc = top[k].sepc
      /\ f.intena = top[k].intena
  BY <1>1, <1>7, Zenon DEF Frames, Places, Handler, HoldsOwn
<1> HIDE DEF r, f
<1>9. /\ StackType' /\ OnlyStack(k) /\ top'[k] = f /\ depth'[k] = depth[k]
      /\ bot'[k] = IF depth[k] = 1 THEN f ELSE bot[k]
  BY Zenon, <1>1, <1>5, <1>8, ReplaceTop DEF Inv, TypeInv
<1>10. k \notin Cpu /\ k # c /\ c \notin Proc /\ c \in Stacks
  BY Zenon, <1>2, SchedConstants DEF Stacks
<1>11. StackOK(k, depth'[k], f, bot'[k])
  <2>1. f.pc # "sret" /\ f.pc # "loop" /\ f.pc # "sched"
    BY Zenon, <1>7, <1>8
  <2>2. f.pc = "yielded" => f.intena = FALSE
    BY Zenon, <1>1, <1>2, <1>8 DEF StackOK
  <2> 1 # 2
    OBVIOUS
  <2>3. CASE depth[k] = 1
    <3>1. StackOK(k, 1, f, f)
      BY <1>10, <2>1, <2>2, Zenon DEF StackOK
    <3> QED
      BY Zenon, <1>9, <2>3, <3>1
  <2>4. CASE depth[k] = 2
    <3>1. /\ bot[k].pc \in Interruptible /\ f.sepc = <<k, 1>> /\ f.pc = "yielded"
          /\ k \in Proc => bot[k].pc # "loop"
      BY <1>1, <1>2, <1>8, <2>4, Zenon DEF StackOK
    <3>2. f.pc \in Handler
      BY Zenon, <3>1 DEF Handler
    <3>3. StackOK(k, 2, f, bot[k])
      BY <1>10, <2>1, <2>2, <3>1, <3>2, Zenon DEF StackOK
    <3> QED
      BY Zenon, <1>9, <2>4, <3>3
  <2> QED
    BY Zenon, <1>1, <2>3, <2>4
<1>12. StackInv'
  BY Zenon, <1>1, <1>9, <1>11, StackStep DEF Inv
<1>13. lock[k] = c /\ k \in Locks
  BY Zenon, <1>2 DEF LockOK, HoldsOwn, Locks
<1>14. /\ OnlyCpu(c) /\ lock' \in [Locks -> Cpu \union {None}]
       /\ \A m \in Locks : lock'[m] = IF m = k THEN None ELSE lock[m]
  BY <1>5, <1>13, OneLock, Zenon
<1>15. TypeInv'
  BY Zenon, <1>5, <1>6, <1>9, <1>10, <1>14 DEF Inv, TypeInv
<1>16. on'[c] = c /\ cpu'[c] = r /\ \A d \in Cpu \ {c} : on'[d] = on[d]
  BY Zenon, <1>5 DEF Inv, TypeInv
<1>17. \A d \in Cpu \ {c} : on[d] # k /\ on[d] \in Stacks /\ top'[on[d]] = top[on[d]]
  <2>1. \A d \in Cpu \ {c} : on[d] # k
    BY Zenon DEF Inv, RunInv
  <2>2. \A d \in Cpu : on[d] \in Stacks
    BY Zenon, Here
  <2> QED
    BY Zenon, <1>9, <2>1, <2>2 DEF OnlyStack
<1>18. \A d \in Cpu \ {c} : /\ LockOK(d, on'[d], top'[on'[d]].pc, lock')
                            /\ CpuOK(d, on'[d], top'[on'[d]].pc, cpu'[d], hartid')
  BY <1>5, <1>14, <1>16, <1>17, OtherCpus, Zenon
<1>19. top'[c].pc = "loop"
  BY <1>9, <1>10 DEF Inv, RunInv, OnlyStack
<1>20. LockOK(c, c, "loop", lock')
  BY <1>2, <1>10, <1>14, SchedConstants
  DEF LockOK, HoldsTicks, HoldsOwn, Locks, None, tickslock
<1>21. CpuOK(c, c, "loop", r, hartid')
  BY Zenon, <1>6 DEF CpuOK, Noff, Masked, HoldsTicks, HoldsOwn
<1>22. LockInv' /\ CpuInv'
  BY Zenon, <1>16, <1>18, <1>19, <1>20, <1>21 DEF LockInv, CpuInv
<1>23. RunInv'
  <2>1. state' = state /\ chan' = chan /\ f.pc # "sched" /\ f.pc \in Waits
    BY Zenon, <1>5, <1>7, <1>8 DEF Waits
  <2>2. \A d \in Cpu : on'[d] = IF d = c THEN c ELSE on[d]
    BY Zenon, <1>16
  <2>3. \A j \in Stacks \ {k} : top'[j] = top[j]
    BY Zenon, <1>9 DEF OnlyStack
  <2>4. \A d \in Cpu : on'[d] \in Proc \/ on'[d] = d
    BY <2>2 DEF Inv, RunInv
  <2>5. \A d, e \in Cpu : on'[d] = on'[e] => d = e
    <3>1. \A d \in Cpu \ {c} : on[d] # c
      BY <1>10 DEF Inv, RunInv
    <3> QED
      BY <2>2, <3>1 DEF Inv, RunInv
  <2>6. \A d \in Cpu : on'[d] # d => top'[d].pc = "loop"
    BY <1>10, <2>2, <2>3, SchedConstants DEF Inv, RunInv, Stacks
  <2>7. \A d \in Cpu : on'[d] \in Proc =>
          /\ state'[on'[d]] = "RUNNING" <=> top'[on'[d]].pc # "sched"
          /\ top'[on'[d]].pc # "zombie"
    BY <1>10, <1>17, <2>1, <2>2 DEF Inv, RunInv
  <2>8. state[k] # "RUNNING"
    BY Zenon, <1>1, <1>2 DEF Inv, RunInv
  <2>9. \A p \in Proc : (\A d \in Cpu : on'[d] # p) =>
          state'[p] # "RUNNING" /\ top'[p].pc \in Waits
    <3> SUFFICES ASSUME NEW p \in Proc, \A d \in Cpu : on'[d] # p
                 PROVE  state'[p] # "RUNNING" /\ top'[p].pc \in Waits
      BY Zenon
    <3>1. CASE p = k
      BY Zenon, <1>9, <2>1, <2>8, <3>1
    <3>2. CASE p # k
      BY <2>1, <2>2, <2>3, <3>2 DEF Inv, RunInv, Stacks
    <3> QED
      BY Zenon, <3>1, <3>2
  <2>10. \A p \in Proc : state'[p] = "ZOMBIE" <=>
           top'[p].pc = "zombie" \/ (top'[p].pc = "sched" /\ top'[p].next = "zombie")
    <3>1. state[k] = "ZOMBIE" <=> f.pc = "zombie"
      BY <1>1, <1>2, <1>8 DEF Inv, RunInv
    <3>2. \A p \in Proc : state[p] = "ZOMBIE" <=>
            top[p].pc = "zombie" \/ (top[p].pc = "sched" /\ top[p].next = "zombie")
      BY Zenon DEF Inv, RunInv
    <3>3. top'[k].pc = f.pc /\ f.pc # "sched" /\ \A p \in Proc \ {k} : top'[p] = top[p]
      BY Zenon, <1>9, <2>1, <2>3 DEF Stacks
    <3> QED
      BY Zenon, <2>1, <3>1, <3>2, <3>3
  <2>11. \A p \in Proc : state'[p] = "SLEEPING" => chan'[p] = TRUE
    BY Zenon, <2>1 DEF Inv, RunInv
  <2> QED
    BY Zenon, <2>4, <2>5, <2>6, <2>7, <2>9, <2>10, <2>11 DEF RunInv
<1> QED
  BY Zenon, <1>12, <1>15, <1>22, <1>23 DEF Inv

\* Making a sleeping process runnable, as wakeup and kill do.
LEMMA MakeRunnable ==
  ASSUME Inv, NEW q \in Proc,
         \/ state' = state
         \/ state[q] = "SLEEPING" /\ state' = [state EXCEPT ![q] = "RUNNABLE"],
         on' = on, chan' = chan,
         \A j \in Stacks : top'[j].pc = top[j].pc /\ top'[j].next = top[j].next
  PROVE  RunInv' /\ state' \in [Proc -> {"RUNNABLE", "RUNNING", "SLEEPING", "ZOMBIE"}]
<1>1. /\ \A p \in Proc : state'[p] = "RUNNING" <=> state[p] = "RUNNING"
      /\ \A p \in Proc : state'[p] = "ZOMBIE" <=> state[p] = "ZOMBIE"
      /\ \A p \in Proc : state'[p] = "SLEEPING" => state[p] = "SLEEPING"
      /\ state' \in [Proc -> {"RUNNABLE", "RUNNING", "SLEEPING", "ZOMBIE"}]
  BY Zenon DEF Inv, TypeInv
<1>2. \A c \in Cpu : on[c] \in Stacks /\ c \in Stacks
  BY Zenon, Here DEF Stacks
<1>3. \A p \in Proc : p \in Stacks
  BY Zenon DEF Stacks
<1> QED
  BY <1>1, <1>2, <1>3 DEF Inv, RunInv

LEMMA Kill ==
  ASSUME Inv, NEW q \in Proc, kill(q)
  PROVE  Inv'
<1>1. StackType' /\ depth' = depth /\ top' = top /\ bot' = bot
  BY Zenon, SameStacks DEF kill, Inv, TypeInv
<1>2. RunInv' /\ state' \in [Proc -> {"RUNNABLE", "RUNNING", "SLEEPING", "ZOMBIE"}]
  BY Zenon, <1>1, MakeRunnable DEF kill
<1>3. TypeInv'
  BY Zenon, <1>1, <1>2 DEF kill, Inv, TypeInv
<1>4. StackInv' /\ LockInv' /\ CpuInv'
  BY Zenon, <1>1 DEF kill, Inv, StackInv, LockInv, CpuInv
<1> QED
  BY Zenon, <1>2, <1>3, <1>4 DEF Inv

LEMMA Wakeup ==
  ASSUME Inv, NEW c \in Cpu, NEW q \in Proc, wakeup(c, q)
  PROVE  Inv'
<1> DEFINE k == on[c]
           f == [top[k] EXCEPT !.left = top[k].left \ {q}]
<1>1. /\ top[k].pc = "wakeup" /\ k \in Stacks /\ top[k] \in Frames
      /\ depth[k] \in {1, 2} /\ Top(k) = top[k]
  BY Zenon, Here DEF wakeup, At
<1>2. StackOK(k, depth[k], top[k], bot[k]) /\ (depth[k] = 1 => k \in Proc)
  BY Zenon, <1>1, Place
<1>3. stack' = WithTop(k, f) /\ UNCHANGED <<killed, chan, lock, ticks, on, cpu, hartid, nap>>
  BY Zenon, <1>1 DEF wakeup
<1>4. /\ f \in Frames /\ f.pc = "wakeup" /\ f.next = top[k].next /\ f.sepc = top[k].sepc
  BY <1>1, Zenon DEF Frames
<1> HIDE DEF f
<1>5. /\ StackType' /\ OnlyStack(k) /\ top'[k] = f /\ depth'[k] = depth[k]
      /\ bot'[k] = IF depth[k] = 1 THEN f ELSE bot[k]
  BY Zenon, <1>1, <1>3, <1>4, ReplaceTop DEF Inv, TypeInv
<1>6. StackOK(k, depth[k], f, IF depth[k] = 1 THEN f ELSE bot[k])
  <2>1. /\ f.pc \notin {"loop", "sched", "yielded"} /\ f.pc # "sret" /\ f.pc \in Handler
        /\ f.pc \in {"clock", "wakeup", "after", "sret"}
    BY Zenon, <1>4 DEF Handler
  <2> QED
    BY Zenon, <1>1, <1>2, <1>4, <2>1, FrameMoves
<1>7. StackInv'
  BY <1>1, <1>5, <1>6, StackStep, Zenon DEF Inv
<1>8. \A j \in Stacks : top'[j].pc = top[j].pc /\ top'[j].next = top[j].next
  BY Zenon, <1>1, <1>4, <1>5 DEF OnlyStack
<1>9. RunInv' /\ state' \in [Proc -> {"RUNNABLE", "RUNNING", "SLEEPING", "ZOMBIE"}]
  BY Zenon, <1>3, <1>8, MakeRunnable DEF wakeup, Waken
<1>10. TypeInv'
  BY <1>3, <1>5, <1>9, Zenon DEF Inv, TypeInv
<1>11. LockInv' /\ CpuInv'
  BY <1>3, <1>8, Here, Zenon DEF Inv, LockInv, CpuInv
<1> QED
  BY Zenon, <1>7, <1>9, <1>10, <1>11 DEF Inv

-----------------------------------------------------------------------------
(* The invariants. *)

LEMMA NextInv ==
  ASSUME Inv, [Next]_vars
  PROVE  Inv'
<1>1. CASE UNCHANGED vars
  BY Zenon, <1>1, StutterInv
<1>2. ASSUME NEW c \in Cpu, scheduler(c) \/ timer_user(c) \/ kerneltrap(c) \/ syscall(c)
      PROVE  Inv'
  BY Zenon, <1>2, Scheduler, TimerUser, Kerneltrap, Syscall
<1>3. ASSUME NEW c \in Cpu, Step(c)
      PROVE  Inv'
  BY <1>3, Clockintr, Wakeup, ClockintrEnd, Yield, YieldReturn, KerneltrapEnd, Sret,
     Forkret, Usertrapret, Userret, SysSleep, SysSleepReturns, SysSleepWaits,
     SleepLock, SleepSwitch, SleepReturn, SleepReacquire, Swtch
  DEF Step
<1>4. ASSUME NEW c \in Cpu, NEW p \in Proc, pick(c, p)
      PROVE  Inv'
  BY Zenon, <1>4, Pick
<1>5. ASSUME NEW q \in Proc, kill(q)
      PROVE  Inv'
  BY Zenon, <1>5, Kill
<1> QED
  BY Zenon, <1>1, <1>2, <1>3, <1>4, <1>5 DEF Next

\* The invariant holds in every reachable state.
THEOREM Invariant == Spec => []Inv
BY InitInv, NextInv, PTL DEF Spec

-----------------------------------------------------------------------------
\* What a process has found out about ticks while it holds tickslock, and how
\* the ticks that have gone by show in the difference of the counters while it
\* is in the loop of sys_sleep.
Ago(t, v) == (t - v.t0) % TickMod
Looping(pc, next) ==
  pc \in {"test", "sleep", "release", "woken", "reacquire"} \/ (pc = "sched" /\ next = "woken")
NapOK(pc, next, t, v) ==
  /\ pc \in {"sleep", "release"} => Ago(t, v) < v.n
  /\ v.past <= v.n
  /\ Looping(pc, next) /\ v.past < v.n => Ago(t, v) = v.past
NapInv == \A p \in Proc : NapOK(bot[p].pc, bot[p].next, ticks, nap[p])

\* NoLostWakeup, in the terms of this module.
WakeInv ==
  \A p \in Proc : state[p] = "SLEEPING" /\ Ago(ticks, nap[p]) >= nap[p].n =>
    \E c \in Cpu : top[on[c]].pc = "wakeup" /\ p \in top[on[c]].left

LEMMA NapStep ==
  ASSUME NapInv, NEW k \in Stacks, OnlyStack(k), ticks' = ticks,
         \A p \in Proc \ {k} : nap'[p] = nap[p],
         k \in Proc => NapOK(bot'[k].pc, bot'[k].next, ticks, nap'[k])
  PROVE  NapInv'
BY Zenon DEF NapInv, OnlyStack, Stacks

\* A step of CPU c, which has no slot left to visit, on process on[c] or from
\* one stack to another.
LEMMA WakeStep ==
  ASSUME Inv, WakeInv, NEW c \in Cpu, OnlyStack(on[c]), ticks' = ticks,
         \A d \in Cpu \ {c} : on'[d] = on[d],
         top[on[c]].pc = "wakeup" => top[on[c]].left = {},
         \A p \in Proc : state'[p] = "SLEEPING" =>
           (state[p] = "SLEEPING" /\ nap'[p] = nap[p]) \/ Ago(ticks, nap'[p]) < nap'[p].n,
         nap' \in [Proc -> NapType]
  PROVE  WakeInv'
<1> SUFFICES ASSUME NEW p \in Proc, state'[p] = "SLEEPING", Ago(ticks, nap'[p]) >= nap'[p].n
             PROVE  \E d \in Cpu : top'[on'[d]].pc = "wakeup" /\ p \in top'[on'[d]].left
  BY Zenon DEF WakeInv
<1>1. Ago(ticks, nap'[p]) \in Int /\ nap'[p].n \in Int
  BY SchedConstants DEF Inv, TypeInv, NapType, Ago
<1>2. state[p] = "SLEEPING" /\ nap'[p] = nap[p]
  BY <1>1
<1>3. PICK d \in Cpu : top[on[d]].pc = "wakeup" /\ p \in top[on[d]].left
  BY Zenon, <1>2 DEF WakeInv
<1>4. d # c
  BY Zenon, <1>3
<1>5. on[d] # on[c] /\ on[d] \in Stacks
  BY <1>4, Here, Zenon DEF Inv, RunInv
<1> QED
  BY <1>3, <1>4, <1>5 DEF OnlyStack

\* The process that a CPU runs is not asleep, but for the moment in sched().
LEMMA Awake ==
  ASSUME Inv, NEW c \in Cpu, top[on[c]].pc # "sched", NEW p \in Proc, state[p] = "SLEEPING"
  PROVE  p # on[c]
BY DEF Inv, RunInv

\* The process moves to place l.
LEMMA NapGoto ==
  ASSUME Inv, NapInv, WakeInv, NEW c \in Cpu, NEW l \in Places, Goto(c, l),
         on' = on, state' = state, ticks' = ticks,
         \A p \in Proc \ {on[c]} : nap'[p] = nap[p], nap' \in [Proc -> NapType],
         top[on[c]].pc # "sched", top[on[c]].pc = "wakeup" => top[on[c]].left = {},
         depth[on[c]] = 1 /\ on[c] \in Proc => NapOK(l, top[on[c]].next, ticks, nap'[on[c]]),
         depth[on[c]] = 2 => nap' = nap
  PROVE  NapInv' /\ WakeInv'
<1> DEFINE k == on[c]
           f == [top[k] EXCEPT !.pc = l, !.intena = FALSE]
<1>1. /\ OnlyStack(k) /\ bot'[k] = IF depth[k] = 1 THEN f ELSE bot[k]
  BY GotoFrame, Zenon
<1>2. k \in Stacks /\ depth[k] \in {1, 2} /\ top[k] \in Frames
  BY Zenon, Here
<1>3. f.pc = l /\ f.next = top[k].next
  BY <1>2, Zenon DEF Frames
<1> HIDE DEF f
<1>4. k \in Proc => NapOK(bot'[k].pc, bot'[k].next, ticks, nap'[k])
  <2>1. CASE depth[k] = 1
    BY Zenon, <1>1, <1>3, <2>1
  <2>2. CASE depth[k] = 2
    BY <1>1, <2>2 DEF NapInv
  <2> QED
    BY Zenon, <1>2, <2>1, <2>2
<1>5. NapInv'
  BY Zenon, <1>1, <1>2, <1>4, NapStep
<1>6. \A p \in Proc : state'[p] = "SLEEPING" => state[p] = "SLEEPING" /\ nap'[p] = nap[p]
  BY Zenon, Awake
<1>7. WakeInv'
  BY Zenon, <1>1, <1>6, WakeStep
<1> QED
  BY Zenon, <1>5, <1>7

\* The same for a step that leaves the counters alone, to a place outside the
\* loop of sys_sleep.
LEMMA NapLeaves ==
  ASSUME Inv, NapInv, WakeInv, NEW c \in Cpu,
         NEW l \in Places \ {"test", "sleep", "release", "woken", "reacquire", "sched"},
         Goto(c, l), UNCHANGED <<on, state, ticks, nap>>,
         top[on[c]].pc # "sched", top[on[c]].pc = "wakeup" => top[on[c]].left = {}
  PROVE  NapInv' /\ WakeInv'
<1>1. on[c] \in Proc => NapOK(l, top[on[c]].next, ticks, nap'[on[c]])
  BY Zenon DEF NapInv, NapOK, Looping
<1>2. nap' \in [Proc -> NapType]
  BY Zenon DEF Inv, TypeInv
<1> QED
  BY Zenon, <1>1, <1>2, NapGoto

LEMMA NapOutside ==
  ASSUME Inv, NapInv, WakeInv, NEW c \in Cpu,
         \/ timer_user(c) \/ clockintr_end(c) \/ yield_return(c) \/ kerneltrap_end(c)
         \/ forkret(c) \/ usertrapret(c) \/ userret(c)
  PROVE  NapInv' /\ WakeInv'
<1>1. Top(on[c]) = top[on[c]]
  BY Zenon, Here
<1>2. UNCHANGED <<on, state, ticks, nap>>
  BY Zenon DEF timer_user, clockintr_end, yield_return, kerneltrap_end, forkret, usertrapret, userret
<1>3. top[on[c]].pc # "sched" /\ (top[on[c]].pc = "wakeup" => top[on[c]].left = {})
  BY Zenon, <1>1 DEF timer_user, InUser, clockintr_end, yield_return, kerneltrap_end, forkret,
     usertrapret, userret, At
<1>4. \E l \in {"clock", "after", "ret", "sret", "userret", "user"} : Goto(c, l)
  BY Zenon DEF timer_user, clockintr_end, yield_return, kerneltrap_end, forkret, usertrapret,
     userret, devintr
<1>5. PICK l \in {"clock", "after", "ret", "sret", "userret", "user"} : Goto(c, l)
  BY Zenon, <1>4
<1>6. l \in Places \ {"test", "sleep", "release", "woken", "reacquire", "sched"}
  BY Zenon DEF Places, Handler, Interruptible
<1> QED
  BY <1>2, <1>3, <1>5, <1>6, NapLeaves, Zenon

\* Steps inside the loop of sys_sleep.
LEMMA NapInside ==
  ASSUME Inv, NapInv, WakeInv, NEW c \in Cpu,
         sys_sleep_waits(c) \/ sleep_lock(c) \/ sleep_return(c) \/ sleep_reacquire(c)
  PROVE  NapInv' /\ WakeInv'
<1>1. Top(on[c]) = top[on[c]] /\ on[c] \in Stacks /\ depth[on[c]] \in {1, 2}
  BY Zenon, Here
<1>2. UNCHANGED <<on, state, ticks, nap>>
  BY Zenon DEF sys_sleep_waits, sleep_lock, sleep_return, sleep_reacquire
<1>3. top[on[c]].pc \in {"test", "sleep", "woken", "reacquire"}
  BY Zenon, <1>1 DEF sys_sleep_waits, sleep_lock, sleep_return, sleep_reacquire, At
<1>4. depth[on[c]] = 1 /\ on[c] \in Proc /\ StackOK(on[c], depth[on[c]], top[on[c]], bot[on[c]])
  BY Zenon, <1>3, Place DEF Handler
<1>5. NapOK(top[on[c]].pc, top[on[c]].next, ticks, nap[on[c]])
  BY <1>4, Zenon DEF NapInv, StackOK
<1>6. nap' \in [Proc -> NapType] /\ nap[on[c]] \in NapType /\ ticks \in 0..(TickMod - 1)
  BY Zenon, <1>2, <1>4 DEF Inv, TypeInv
<1>7. PICK l \in {"sleep", "release", "reacquire", "test"} :
        /\ Goto(c, l)
        /\ l = "sleep" => ~Due(on[c])
        /\ l = "release" => top[on[c]].pc = "sleep"
  BY Zenon, <1>1 DEF sys_sleep_waits, sleep_lock, sleep_return, sleep_reacquire, At
<1>8. l \in {"sleep", "release"} => Ago(ticks, nap[on[c]]) < nap[on[c]].n
  <2>1. Ago(ticks, nap[on[c]]) \in Int /\ nap[on[c]].n \in Int
    BY <1>6, SchedConstants DEF NapType, Ago
  <2>2. l = "sleep" => ~(Ago(ticks, nap[on[c]]) >= nap[on[c]].n)
    BY Zenon, <1>7 DEF Due, Ago
  <2> QED
    BY <1>5, <1>7, <2>1, <2>2 DEF NapOK
<1>9. NapOK(l, top[on[c]].next, ticks, nap[on[c]])
  BY Zenon, <1>3, <1>5, <1>8 DEF NapOK, Looping
<1>10. l \in Places /\ top[on[c]].pc # "sched" /\ top[on[c]].pc # "wakeup" /\ depth[on[c]] # 2
  BY <1>3, <1>4 DEF Places, HoldsTicks, Interruptible
<1> QED
  BY <1>2, <1>6, <1>7, <1>9, <1>10, NapGoto, Zenon

\* Steps that set sys_sleep's variables.
LEMMA NapSet ==
  ASSUME Inv, NapInv, WakeInv, NEW c \in Cpu,
         syscall(c) \/ sys_sleep(c) \/ sys_sleep_done(c) \/ sys_sleep_killed(c)
  PROVE  NapInv' /\ WakeInv'
<1>1. Top(on[c]) = top[on[c]] /\ on[c] \in Stacks /\ depth[on[c]] \in {1, 2}
  BY Zenon, Here
<1>2. UNCHANGED <<on, state, ticks>>
  BY Zenon DEF syscall, sys_sleep, sys_sleep_done, sys_sleep_killed
<1>3. top[on[c]].pc \in {"user", "sys_sleep", "test"}
  BY Zenon, <1>1 DEF syscall, sys_sleep, sys_sleep_done, sys_sleep_killed, InUser, At
<1>4. depth[on[c]] = 1 /\ on[c] \in Proc
  BY Zenon, <1>3, Place DEF Handler
<1>5. /\ nap \in [Proc -> NapType] /\ nap[on[c]] \in NapType /\ ticks \in 0..(TickMod - 1)
      /\ NapOK(bot[on[c]].pc, bot[on[c]].next, ticks, nap[on[c]])
  BY Zenon, <1>4 DEF Inv, TypeInv, NapInv
<1>6. \E l \in {"sysret", "sys_sleep", "test"}, v \in NapType :
        /\ Goto(c, l) /\ nap' = [nap EXCEPT ![on[c]] = v] /\ v.past <= v.n
        /\ l = "test" => v.t0 = ticks /\ v.past = 0
  <2>1. CASE syscall(c)
    <3>1. CASE killed[on[c]]
      <4>1. Goto(c, "sysret") /\ nap' = [nap EXCEPT ![on[c]] = nap[on[c]]]
        BY Zenon, <1>5, <2>1, <3>1 DEF syscall
      <4> QED
        BY <1>5, <4>1, Zenon DEF NapOK
    <3>2. CASE ~killed[on[c]]
      <4>1. PICK n \in Naps : nap' = [nap EXCEPT ![on[c]] = [NoNap EXCEPT !.n = n]]
        BY Zenon, <2>1, <3>2 DEF syscall
      <4>2. LET v == [NoNap EXCEPT !.n = n] IN v \in NapType /\ v.past <= v.n
        BY SchedConstants DEF NapType, NoNap
      <4>3. Goto(c, "sys_sleep")
        BY Zenon, <2>1, <3>2 DEF syscall
      <4> QED
        BY <4>1, <4>2, <4>3, Zenon
    <3> QED
      BY Zenon, <3>1, <3>2
  <2>2. CASE sys_sleep(c)
    <3> DEFINE v == [nap[on[c]] EXCEPT !.t0 = ticks, !.past = 0]
    <3>1. Goto(c, "test") /\ nap' = [nap EXCEPT ![on[c]] = v]
      BY <1>4, <1>5, <2>2, Zenon DEF sys_sleep
    <3>2. v \in NapType /\ v.past = 0 /\ v.t0 = ticks
      BY <1>5, Zenon DEF NapType
    <3> HIDE DEF v
    <3>3. v.past <= v.n
      BY <3>2 DEF NapType
    <3> QED
      BY <3>1, <3>2, <3>3, Zenon
  <2>3. CASE sys_sleep_done(c) \/ sys_sleep_killed(c)
    <3>1. Goto(c, "sysret") /\ nap' = [nap EXCEPT ![on[c]] = NoNap]
      BY Zenon, <2>3 DEF sys_sleep_done, sys_sleep_killed
    <3>2. NoNap \in NapType /\ NoNap.past <= NoNap.n
      BY SchedConstants DEF NapType, NoNap
    <3> QED
      BY <3>1, <3>2, Zenon
  <2> QED
    BY Zenon, <2>1, <2>2, <2>3
<1>7. PICK l \in {"sysret", "sys_sleep", "test"}, v \in NapType :
        /\ Goto(c, l) /\ nap' = [nap EXCEPT ![on[c]] = v] /\ v.past <= v.n
        /\ l = "test" => v.t0 = ticks /\ v.past = 0
  BY <1>6, Zenon
<1>8. /\ nap' \in [Proc -> NapType] /\ nap'[on[c]] = v
      /\ \A p \in Proc \ {on[c]} : nap'[p] = nap[p]
  BY Zenon, <1>4, <1>5, <1>7
<1>9. NapOK(l, top[on[c]].next, ticks, v)
  <2>1. l = "test" => Ago(ticks, v) = 0
    BY <1>5, <1>7, SchedConstants DEF Ago
  <2> QED
    BY Zenon, <1>7, <2>1 DEF NapOK, Looping
<1>10. l \in Places /\ top[on[c]].pc # "sched" /\ top[on[c]].pc # "wakeup" /\ depth[on[c]] # 2
  BY <1>3, <1>4 DEF Places, HoldsTicks, Interruptible
<1> QED
  BY <1>2, <1>7, <1>8, <1>9, <1>10, NapGoto, Zenon

\* Steps that leave the outermost frames alone: the scheduler's, a trap from
\* kernel code and the return from it.
LEMMA NapTrap ==
  ASSUME Inv, NapInv, WakeInv, NEW c \in Cpu, scheduler(c) \/ kerneltrap(c) \/ sret(c)
  PROVE  NapInv' /\ WakeInv'
<1> DEFINE k == on[c]
<1>1. /\ k \in Stacks /\ Top(k) = top[k] /\ depth[k] \in {1, 2} /\ cpu[c] \in CpuType
      /\ Len(stack[k]) = depth[k] /\ top[k] \in Frames
  BY Zenon, Here
<1>2. /\ StackOK(k, depth[k], top[k], bot[k]) /\ CpuOK(c, k, top[k].pc, cpu[c], hartid)
      /\ top[k].pc \notin Handler => depth[k] = 1
      /\ top[k].pc # "zombie" /\ top[k].pc \in Places
  BY Zenon, Place
<1>3. UNCHANGED <<on, state, ticks, nap>> /\ nap' \in [Proc -> NapType]
  BY Zenon DEF scheduler, kerneltrap, sret, Inv, TypeInv
<1>4. OnlyStack(k) /\ bot'[k] = bot[k] /\ top[k].pc # "wakeup"
  <2>1. CASE scheduler(c)
    <3>1. top[k].pc = "loop" /\ stack' = stack
      BY Zenon, <1>1, <2>1 DEF scheduler, At
    <3> QED
      BY Zenon, <3>1, SameStacks DEF Inv, TypeInv, OnlyStack
  <2>2. CASE sret(c)
    <3>1. top[k].pc = "sret" /\ stack' = [stack EXCEPT ![k] = SubSeq(@, 1, Len(@) - 1)]
      BY Zenon, <1>1, <2>2 DEF sret, At
    <3>2. depth[k] = 2
      BY Zenon, <1>1, <1>2, <3>1 DEF StackOK
    <3> QED
      BY <1>1, <3>1, <3>2, Pop, Zenon DEF Inv, TypeInv
  <2>3. CASE kerneltrap(c)
    <3> DEFINE h == <<k, Len(stack[k])>>
               l == devintr(cpu[c])
               f == [Frame(l) EXCEPT !.sepc = h]
    <3>1. /\ top[k].pc # "user" /\ cpu[c].intr = TRUE
          /\ stack' = [stack EXCEPT ![k] = Append(@, f)]
      BY Zenon, <1>1, <2>3 DEF kerneltrap, InUser, At, CpuType
    <3>2. top[k].pc \notin Masked
      BY Zenon, <1>2, <3>1 DEF CpuOK
    <3>3. depth[k] = 1 /\ top[k].pc # "wakeup"
      BY Zenon, <1>1, <1>2, <3>1, <3>2 DEF Masked, HoldsTicks, HoldsOwn, Handler
    <3>4. h \in Sepc /\ l \in {"clock", "after"}
      BY <1>1 DEF Sepc, devintr
    <3> HIDE DEF h, l
    <3>5. f \in Frames
      BY <3>4, Zenon DEF Frames, Frame, Places, Handler
    <3> HIDE DEF f
    <3> QED
      BY <1>1, <3>1, <3>3, <3>5, Push, Zenon DEF Inv, TypeInv
  <2> QED
    BY Zenon, <2>1, <2>2, <2>3
<1>5. NapInv'
  BY Zenon, <1>1, <1>3, <1>4, NapStep DEF NapInv
<1>6. WakeInv'
  BY Zenon, <1>3, <1>4, WakeStep
<1> QED
  BY Zenon, <1>5, <1>6

\* sched() leaves the loop of sys_sleep unless it is sleep's.
LEMMA NapSched ==
  ASSUME Inv, NapInv, WakeInv, NEW c \in Cpu, yield(c) \/ exit(c) \/ sleep_switch(c)
  PROVE  NapInv' /\ WakeInv'
<1> DEFINE k == on[c]
           i == cpu'[c].intena
<1>1. /\ k \in Stacks /\ Top(k) = top[k] /\ depth[k] \in {1, 2} /\ cpu[c] \in CpuType
      /\ Len(stack[k]) = depth[k] /\ top[k] \in Frames
  BY Zenon, Here
<1>2. /\ top[k].pc \in {"after", "sysret", "release"}
      /\ sleep_switch(c) => top[k].pc = "release"
      /\ exit(c) => k \in Proc /\ depth[k] = 1
      /\ yield(c) => k \in Proc
  BY Zenon, <1>1 DEF yield, exit, sleep_switch, At, Base
<1>3. /\ StackOK(k, depth[k], top[k], bot[k]) /\ k \in Proc
      /\ top[k].pc = "release" => depth[k] = 1
  BY Zenon, <1>2, Place DEF Handler
<1>4. cpu'[c] \in CpuType
  <2>1. Inv'
    BY Zenon, Yield, SleepSwitch
  <2> QED
    BY Zenon, <2>1 DEF Inv, TypeInv
<1>5. i \in BOOLEAN
  BY Zenon, <1>4 DEF CpuType
<1>6. UNCHANGED <<on, ticks, nap>> /\ nap' \in [Proc -> NapType] /\ nap[k] \in NapType
  BY Zenon, <1>3 DEF yield, exit, sleep_switch, Inv, TypeInv
<1> HIDE DEF i
<1>7. PICK s \in {"RUNNABLE", "SLEEPING", "ZOMBIE"}, l \in {"yielded", "woken", "zombie"} :
        /\ stack' = WithTop(k, [top[k] EXCEPT !.pc = "sched", !.next = l, !.intena = i])
        /\ state' = [state EXCEPT ![k] = s]
        /\ l = "woken" => top[k].pc = "release"
        /\ s = "SLEEPING" => top[k].pc = "release"
  BY Zenon, <1>1, <1>2 DEF yield, exit, sleep_switch, Sched, i
<1> DEFINE f == [top[k] EXCEPT !.pc = "sched", !.next = l, !.intena = i]
<1>8. f \in Frames /\ f.pc = "sched" /\ f.next = l
  BY <1>1, <1>5, Zenon DEF Frames, Places, Handler
<1>9. stack' = WithTop(k, f)
  BY Zenon, <1>7
<1> HIDE DEF f
<1>10. OnlyStack(k) /\ bot'[k] = IF depth[k] = 1 THEN f ELSE bot[k]
  BY Zenon, <1>1, <1>8, <1>9, ReplaceTop DEF Inv, TypeInv
<1>11. NapOK(bot[k].pc, bot[k].next, ticks, nap[k])
  BY Zenon, <1>3 DEF NapInv
<1>12. top[k].pc = "release" => bot[k] = top[k] /\ depth[k] = 1
  BY Zenon, <1>3 DEF StackOK
<1>13. NapOK(bot'[k].pc, bot'[k].next, ticks, nap[k])
  <2>1. CASE depth[k] = 1
    <3>1. bot'[k].pc = "sched" /\ bot'[k].next = l
      BY Zenon, <1>8, <1>10, <2>1
    <3>2. l = "woken" => Looping(bot[k].pc, bot[k].next)
      BY Zenon, <1>7, <1>12 DEF Looping
    <3> QED
      BY Zenon, <1>11, <3>1, <3>2 DEF NapOK, Looping
  <2>2. CASE depth[k] = 2
    BY <1>10, <1>11, <2>2
  <2> QED
    BY Zenon, <1>1, <2>1, <2>2
<1>14. NapInv'
  BY Zenon, <1>1, <1>6, <1>10, <1>13, NapStep
<1>15. top[k].pc = "release" => Ago(ticks, nap[k]) < nap[k].n
  BY Zenon, <1>11, <1>12 DEF NapOK
<1>16. \A p \in Proc : state'[p] = "SLEEPING" =>
         (state[p] = "SLEEPING" /\ nap'[p] = nap[p]) \/ Ago(ticks, nap'[p]) < nap'[p].n
  <2>1. \A p \in Proc : state'[p] = IF p = k THEN s ELSE state[p]
    BY Zenon, <1>3, <1>7 DEF Inv, TypeInv
  <2> QED
    BY Zenon, <1>6, <1>7, <1>15, <2>1
<1>17. WakeInv'
  BY Zenon, <1>2, <1>6, <1>10, <1>16, WakeStep
<1> QED
  BY Zenon, <1>14, <1>17

LEMMA NapSwtch ==
  ASSUME Inv, NapInv, WakeInv, NEW c \in Cpu, swtch(c)
  PROVE  NapInv' /\ WakeInv'
<1> DEFINE k == on[c]
           f == [top[k] EXCEPT !.pc = top[k].next, !.next = ""]
<1>1. /\ top[k].pc = "sched" /\ k \in Stacks /\ top[k] \in Frames
      /\ depth[k] \in {1, 2} /\ Top(k) = top[k]
  BY Zenon, Here DEF swtch, At
<1>2. StackOK(k, depth[k], top[k], bot[k]) /\ k \in Proc
  BY Zenon, <1>1, Place
<1>3. top[k].next \in {"yielded", "woken", "zombie"}
  BY <1>1, <1>2, Zenon DEF StackOK, Frames
<1>4. f \in Frames /\ f.pc = top[k].next /\ f.next = ""
  BY <1>1, <1>3, Zenon DEF Frames, Places, Handler, HoldsOwn
<1>5. /\ stack' = WithTop(k, f) /\ UNCHANGED <<state, ticks, nap>>
      /\ \A d \in Cpu \ {c} : on'[d] = on[d]
      /\ nap' \in [Proc -> NapType]
  BY Zenon, <1>1 DEF swtch, Inv, TypeInv
<1> HIDE DEF f
<1>6. OnlyStack(k) /\ bot'[k] = IF depth[k] = 1 THEN f ELSE bot[k]
  BY <1>1, <1>4, <1>5, ReplaceTop, Zenon DEF Inv, TypeInv
<1>7. NapOK(bot[k].pc, bot[k].next, ticks, nap[k])
  BY Zenon, <1>2 DEF NapInv
<1>8. NapOK(bot'[k].pc, bot'[k].next, ticks, nap'[k])
  <2>1. CASE depth[k] = 1
    <3>1. bot[k] = top[k] /\ bot'[k] = f
      BY <1>2, <1>6, <2>1, Zenon DEF StackOK
    <3> QED
      BY <1>1, <1>3, <1>4, <1>5, <1>7, <3>1, Zenon DEF NapOK, Looping
  <2>2. CASE depth[k] = 2
    BY <1>5, <1>6, <1>7, <2>2
  <2> QED
    BY Zenon, <1>1, <2>1, <2>2
<1>9. NapInv'
  BY Zenon, <1>1, <1>5, <1>6, <1>8, NapStep
<1>10. WakeInv'
  BY Zenon, <1>1, <1>5, <1>6, WakeStep
<1> QED
  BY Zenon, <1>9, <1>10

LEMMA NapPick ==
  ASSUME Inv, NapInv, WakeInv, NEW c \in Cpu, NEW p \in Proc, pick(c, p)
  PROVE  NapInv' /\ WakeInv'
<1>1. StackType' /\ depth' = depth /\ top' = top /\ bot' = bot
  BY Zenon, SameStacks DEF pick, Inv, TypeInv
<1>2. on[c] \in Stacks /\ top[on[c]].pc = "loop"
  BY Zenon, Here DEF pick, At
<1>3. /\ UNCHANGED <<ticks, nap>> /\ nap' \in [Proc -> NapType]
      /\ \A d \in Cpu \ {c} : on'[d] = on[d]
      /\ \A q \in Proc : state'[q] = "SLEEPING" => state[q] = "SLEEPING"
  BY Zenon DEF pick, Inv, TypeInv
<1>4. OnlyStack(on[c])
  BY Zenon, <1>1 DEF OnlyStack
<1>5. NapInv'
  BY Zenon, <1>1, <1>3 DEF NapInv
<1>6. WakeInv'
  BY Zenon, <1>2, <1>3, <1>4, WakeStep
<1> QED
  BY Zenon, <1>5, <1>6

LEMMA NapKill ==
  ASSUME Inv, NapInv, WakeInv, NEW q \in Proc, kill(q)
  PROVE  NapInv' /\ WakeInv'
<1>1. StackType' /\ depth' = depth /\ top' = top /\ bot' = bot
  BY Zenon, SameStacks DEF kill, Inv, TypeInv
<1>2. /\ UNCHANGED <<ticks, nap, on>>
      /\ \A p \in Proc : state'[p] = "SLEEPING" => state[p] = "SLEEPING"
  BY Zenon DEF kill, Inv, TypeInv
<1> QED
  BY Zenon, <1>1, <1>2 DEF NapInv, WakeInv

\* wakeup crosses the slot off its list, and the process there is awake.
LEMMA NapWakeup ==
  ASSUME Inv, NapInv, WakeInv, NEW c \in Cpu, NEW q \in Proc, wakeup(c, q)
  PROVE  NapInv' /\ WakeInv'
<1> DEFINE k == on[c]
           f == [top[k] EXCEPT !.left = top[k].left \ {q}]
<1>1. /\ top[k].pc = "wakeup" /\ k \in Stacks /\ top[k] \in Frames
      /\ depth[k] \in {1, 2} /\ Top(k) = top[k]
  BY Zenon, Here DEF wakeup, At
<1>2. StackOK(k, depth[k], top[k], bot[k])
  BY <1>1, Place
<1>3. stack' = WithTop(k, f) /\ UNCHANGED <<ticks, on, nap>> /\ nap' \in [Proc -> NapType]
  BY Zenon, <1>1 DEF wakeup, Inv, TypeInv
<1>4. f \in Frames /\ f.pc = "wakeup" /\ f.left = top[k].left \ {q}
  BY <1>1, Zenon DEF Frames
<1> HIDE DEF f
<1>5. OnlyStack(k) /\ top'[k] = f /\ bot'[k] = IF depth[k] = 1 THEN f ELSE bot[k]
  BY <1>1, <1>3, <1>4, ReplaceTop DEF Inv, TypeInv
<1>6. k \in Proc => NapOK(bot'[k].pc, bot'[k].next, ticks, nap'[k])
  <2>1. CASE depth[k] = 1
    <3>1. bot'[k].pc = "wakeup"
      BY Zenon, <1>4, <1>5, <2>1
    <3> QED
      BY Zenon, <1>3, <3>1 DEF NapInv, NapOK, Looping
  <2>2. CASE depth[k] = 2
    BY <1>3, <1>5, <2>2 DEF NapInv
  <2> QED
    BY Zenon, <1>1, <2>1, <2>2
<1>7. NapInv'
  BY Zenon, <1>1, <1>3, <1>5, <1>6, NapStep
<1>8. \A p \in Proc : state'[p] = "SLEEPING" => state[p] = "SLEEPING" /\ p # q
  BY DEF wakeup, Waken, Inv, TypeInv, RunInv
<1>9. \A d \in Cpu : on[d] \in Stacks
  BY Zenon, Here
<1>10. WakeInv'
  <2> SUFFICES ASSUME NEW p \in Proc, state[p] = "SLEEPING", p # q,
                      Ago(ticks, nap[p]) >= nap[p].n
               PROVE  \E d \in Cpu : top'[on[d]].pc = "wakeup" /\ p \in top'[on[d]].left
    BY Zenon, <1>3, <1>8 DEF WakeInv
  <2>1. PICK d \in Cpu : top[on[d]].pc = "wakeup" /\ p \in top[on[d]].left
    BY Zenon DEF WakeInv
  <2>2. CASE on[d] = k
    BY Zenon, <1>4, <1>5, <2>1, <2>2
  <2>3. CASE on[d] # k
    BY Zenon, <1>5, <1>9, <2>1, <2>3 DEF OnlyStack
  <2> QED
    BY Zenon, <2>2, <2>3
<1> QED
  BY Zenon, <1>7, <1>10

\* One tick more, while the difference is below TickMod.
LEMMA Tick ==
  ASSUME NEW t \in 0..(TickMod - 1), NEW z \in 0..(TickMod - 1), NEW m \in Nat,
         (t - z) % TickMod = m, m + 1 < TickMod
  PROVE  (((t + 1) % TickMod) - z) % TickMod = m + 1
BY SchedConstants

\* clockintr needs tickslock: no process is between its test of ticks and the
\* change of its state.
LEMMA NapClockintr ==
  ASSUME Inv, NapInv, NEW c \in Cpu, clockintr(c)
  PROVE  NapInv' /\ WakeInv'
<1> DEFINE k == on[c]
           f == [top[k] EXCEPT !.pc = "wakeup", !.left = Proc]
           w(v) == [v EXCEPT !.past = IF v.past < v.n THEN v.past + 1 ELSE v.past]
<1>1. /\ top[k].pc = "clock" /\ k \in Stacks /\ top[k] \in Frames
      /\ depth[k] \in {1, 2} /\ Top(k) = top[k]
  BY Zenon, Here DEF clockintr, At
<1>2. /\ lock[tickslock] = None /\ ticks' = (ticks + 1) % TickMod /\ on' = on
      /\ stack' = WithTop(k, f) /\ \A p \in Proc : nap'[p] = w(nap[p])
  BY Zenon, <1>1 DEF clockintr, acquire
<1>3. f \in Frames /\ f.pc = "wakeup" /\ f.left = Proc
  BY <1>1, Zenon DEF Frames, Places, Handler
<1> HIDE DEF f, w
<1>4. OnlyStack(k) /\ top'[k] = f /\ bot'[k] = IF depth[k] = 1 THEN f ELSE bot[k]
  BY <1>1, <1>2, <1>3, ReplaceTop DEF Inv, TypeInv
<1>5. WakeInv'
  BY Zenon, <1>2, <1>3, <1>4 DEF WakeInv
<1>6. \A p \in Proc : bot[p].pc \notin {"sleep", "release"}
  <2> SUFFICES ASSUME NEW p \in Proc, bot[p].pc \in {"sleep", "release"} PROVE FALSE
    BY Zenon
  <2>1. depth[p] \in {1, 2} /\ p \in Stacks /\ StackOK(p, depth[p], top[p], bot[p])
    BY Zenon, StackView DEF Inv, TypeInv, StackInv, Stacks
  <2>2. top[p].pc \in {"sleep", "release"}
    BY <2>1, Zenon DEF StackOK, Interruptible
  <2>3. PICK d \in Cpu : on[d] = p
    BY <2>2 DEF Inv, RunInv, Waits
  <2>4. LockOK(d, p, top[p].pc, lock)
    BY Zenon, <2>3, Place
  <2>5. lock[tickslock] = d
    BY Zenon, <2>2, <2>4 DEF LockOK, HoldsTicks
  <2> QED
    BY Zenon, <1>2, <2>5, SchedConstants DEF None
<1>7. ASSUME NEW p \in Proc
      PROVE  /\ nap[p] \in NapType /\ ticks \in 0..(TickMod - 1)
             /\ NapOK(bot[p].pc, bot[p].next, ticks, nap[p])
  BY Zenon DEF Inv, TypeInv, NapInv
<1>8. ASSUME NEW v \in NapType, v.past <= v.n
      PROVE  /\ w(v).past <= w(v).n /\ w(v).n = v.n /\ w(v).t0 = v.t0
             /\ w(v).past < w(v).n => w(v).past = v.past + 1 /\ v.past + 1 < v.n
  BY <1>8 DEF NapType, w
<1>9. ASSUME NEW p \in Proc
      PROVE  /\ nap'[p].past <= nap'[p].n
             /\ Looping(bot[p].pc, bot[p].next) /\ nap'[p].past < nap'[p].n =>
                  Ago(ticks', nap'[p]) = nap'[p].past
  <2>1. nap[p] \in NapType /\ nap[p].past <= nap[p].n /\ nap'[p] = w(nap[p])
    BY Zenon, <1>2, <1>7 DEF NapOK
  <2>2. /\ nap'[p].past <= nap'[p].n /\ nap'[p].n = nap[p].n /\ nap'[p].t0 = nap[p].t0
        /\ nap'[p].past < nap'[p].n =>
             nap'[p].past = nap[p].past + 1 /\ nap[p].past + 1 < nap[p].n
    BY Zenon, <1>8, <2>1
  <2>3. ASSUME Looping(bot[p].pc, bot[p].next), nap'[p].past < nap'[p].n
        PROVE  Ago(ticks', nap'[p]) = nap'[p].past
    <3>1. /\ nap[p].t0 \in 0..(TickMod - 1) /\ nap[p].n \in 0..(TickMod - 1)
          /\ nap[p].past \in Nat
      BY Zenon, <2>1 DEF NapType
    <3>2. (ticks - nap[p].t0) % TickMod = nap[p].past
      BY <1>7, <2>2, <2>3, <3>1 DEF NapOK, Ago
    <3>3. nap[p].past + 1 < TickMod
      BY <2>2, <2>3, <3>1, SchedConstants
    <3>4. (((ticks + 1) % TickMod) - nap[p].t0) % TickMod = nap[p].past + 1
      BY <1>7, <3>1, <3>2, <3>3, Tick
    <3> QED
      BY Zenon, <1>2, <2>2, <2>3, <3>4 DEF Ago
  <2> QED
    BY Zenon, <2>2, <2>3
<1>10. NapInv'
  <2> SUFFICES ASSUME NEW p \in Proc
               PROVE  NapOK(bot'[p].pc, bot'[p].next, ticks', nap'[p])
    BY Zenon DEF NapInv
  <2>1. CASE bot'[p] = bot[p]
    BY Zenon, <1>6, <1>9, <2>1 DEF NapOK
  <2>2. CASE bot'[p] = f
    BY Zenon, <1>3, <1>9, <2>2 DEF NapOK, Looping
  <2> QED
    BY Zenon, <1>4, <2>1, <2>2 DEF OnlyStack, Stacks
<1> QED
  BY Zenon, <1>5, <1>10

LEMMA InitNap ==
  Init => NapInv /\ WakeInv
<1> SUFFICES ASSUME Init PROVE NapInv /\ WakeInv
  BY Zenon
<1>1. Inv
  BY Zenon, InitInv
<1>2. ASSUME NEW p \in Proc
      PROVE  bot[p].pc \notin {"sleep", "release"}
  <2>1. top[p].pc \in Waits
    <3>1. \A c \in Cpu : on[c] # p
      BY Zenon, SchedConstants DEF Init
    <3> QED
      BY Zenon, <1>1, <3>1 DEF Inv, RunInv
  <2>2. StackOK(p, depth[p], top[p], bot[p]) /\ depth[p] \in {1, 2}
    BY Zenon, <1>1, StackView DEF Inv, TypeInv, StackInv, Stacks
  <2> QED
    BY <2>1, <2>2, Zenon DEF StackOK, Waits, Interruptible
<1>3. NapInv
  BY <1>2 DEF Init, NapInv, NapOK, NoNap
<1>4. WakeInv
  BY Zenon DEF Init, WakeInv
<1> QED
  BY Zenon, <1>3, <1>4

LEMMA NextNap ==
  ASSUME Inv, NapInv, WakeInv, [Next]_vars
  PROVE  NapInv' /\ WakeInv'
<1>1. CASE UNCHANGED vars
  <2>1. StackType' /\ depth' = depth /\ top' = top /\ bot' = bot
    BY Zenon, <1>1, SameStacks DEF vars, Inv, TypeInv
  <2> QED
    BY Zenon, <1>1, <2>1 DEF vars, NapInv, WakeInv
<1>2. ASSUME NEW c \in Cpu, scheduler(c) \/ timer_user(c) \/ kerneltrap(c) \/ syscall(c)
      PROVE  NapInv' /\ WakeInv'
  BY Zenon, <1>2, NapTrap, NapOutside, NapSet
<1>3. ASSUME NEW c \in Cpu, Step(c)
      PROVE  NapInv' /\ WakeInv'
  BY Zenon, <1>3, NapClockintr, NapWakeup, NapOutside, NapInside, NapSet, NapTrap, NapSched, NapSwtch
  DEF Step
<1>4. ASSUME NEW c \in Cpu, NEW p \in Proc, pick(c, p)
      PROVE  NapInv' /\ WakeInv'
  BY Zenon, <1>4, NapPick
<1>5. ASSUME NEW q \in Proc, kill(q)
      PROVE  NapInv' /\ WakeInv'
  BY Zenon, <1>5, NapKill
<1> QED
  BY Zenon, <1>1, <1>2, <1>3, <1>4, <1>5 DEF Next

\* sys_sleep's counters and the slots that wakeup has still to visit agree with
\* ticks in every reachable state.
THEOREM NapInvariant == Spec => [](NapInv /\ WakeInv)
<1>1. Init => Inv /\ NapInv /\ WakeInv
  BY Zenon, InitInv, InitNap
<1>2. Inv /\ NapInv /\ WakeInv /\ [Next]_vars => Inv' /\ NapInv' /\ WakeInv'
  BY Zenon, NextInv, NextNap
<1> QED
  BY <1>1, <1>2, PTL DEF Spec

-----------------------------------------------------------------------------
(* The properties. *)

\* Two CPUs are never on one kernel stack, and while p->lock is free p->state
\* says whether p is executed: scheduler, sched and the lock that swtch hands over.
THEOREM OneStackTheorem == Spec => []OneStack
<1>1. Inv => OneStack
  <2> SUFFICES ASSUME Inv, NEW p \in Proc, lock[p] = None
               PROVE  state[p] = "RUNNING" <=> \E c \in Cpu : on[c] = p
    BY Zenon DEF OneStack, Inv, RunInv
  <2>1. ASSUME NEW c \in Cpu, on[c] = p
        PROVE  state[p] = "RUNNING"
    <3>1. LockOK(c, p, top[p].pc, lock)
      BY Zenon, <2>1, Place
    <3>2. top[p].pc # "sched"
      BY Zenon, <3>1, SchedConstants DEF LockOK, HoldsOwn, None
    <3> QED
      BY Zenon, <2>1, <3>2 DEF Inv, RunInv
  <2> QED
    BY <2>1 DEF Inv, RunInv
<1> QED
  BY <1>1, Invariant, PTL

\* A trap finds stvec, tp and the trapframe's hartid as its vector needs them.
THEOREM TrapsLandTheorem == Spec => []TrapsLand
<1>1. Inv => TrapsLand
  <2> SUFFICES ASSUME Inv, NEW c \in Cpu
               PROVE  IF InUser(c) THEN cpu[c].stvec = "uservec" /\ hartid[on[c]] = c
                      ELSE cpu[c].tp = c /\ (cpu[c].intr => cpu[c].stvec = "kernelvec")
    BY Zenon DEF TrapsLand
  <2>1. CpuOK(c, on[c], top[on[c]].pc, cpu[c], hartid)
    BY Zenon, Place
  <2>2. InUser(c) <=> top[on[c]].pc = "user"
    BY Zenon, Here DEF InUser, At
  <2> QED
    BY Zenon, <2>1, <2>2 DEF CpuOK, Masked
<1> QED
  BY <1>1, Invariant, PTL

\* sret returns to the code that was interrupted, with interrupts off till then.
THEOREM SretReturnsHomeTheorem == Spec => []SretReturnsHome
<1>1. Inv => SretReturnsHome
  <2> SUFFICES ASSUME Inv, NEW c \in Cpu
               PROVE  /\ At(c, "sret") => cpu[c].sepc = <<on[c], Len(stack[on[c]]) - 1>>
                                          /\ ~cpu[c].intr
                      /\ At(c, "userret") => cpu[c].sepc = <<on[c], 0>> /\ ~cpu[c].intr
    BY Zenon DEF SretReturnsHome
  <2>1. /\ CpuOK(c, on[c], top[on[c]].pc, cpu[c], hartid)
        /\ StackOK(on[c], depth[on[c]], top[on[c]], bot[on[c]])
    BY Zenon, Place
  <2>2. Top(on[c]) = top[on[c]] /\ Len(stack[on[c]]) = depth[on[c]] /\ depth[on[c]] \in {1, 2}
    BY Zenon, Here
  <2>3. ASSUME At(c, "sret")
        PROVE  cpu[c].sepc = <<on[c], Len(stack[on[c]]) - 1>> /\ ~cpu[c].intr
    <3>1. top[on[c]].pc = "sret" /\ depth[on[c]] = 2
      BY <2>1, <2>2, <2>3 DEF At, StackOK
    <3>2. cpu[c].sepc = <<on[c], 1>> /\ ~cpu[c].intr
      BY Zenon, <2>1, <3>1 DEF CpuOK, Masked
    <3> QED
      BY <2>2, <3>1, <3>2
  <2>4. ASSUME At(c, "userret")
        PROVE  cpu[c].sepc = <<on[c], 0>> /\ ~cpu[c].intr
    BY Zenon, <2>1, <2>2, <2>4 DEF At, CpuOK, Masked
  <2> QED
    BY Zenon, <2>3, <2>4
<1> QED
  BY <1>1, Invariant, PTL

\* A sleeper whose time has come is one that clockintr's wakeup has still to visit:
\* sleep() takes p->lock before it gives up tickslock.
THEOREM NoLostWakeupTheorem == Spec => []NoLostWakeup
<1>1. Inv /\ WakeInv => NoLostWakeup
  <2> SUFFICES ASSUME Inv, WakeInv, NEW p \in Proc, state[p] = "SLEEPING", Due(p)
               PROVE  \E c \in Cpu : At(c, "wakeup") /\ p \in Top(on[c]).left
    BY Zenon DEF NoLostWakeup
  <2>1. PICK c \in Cpu : top[on[c]].pc = "wakeup" /\ p \in top[on[c]].left
    BY Zenon DEF WakeInv, Due, Ago
  <2>2. Top(on[c]) = top[on[c]]
    BY Zenon, Here
  <2> QED
    BY Zenon, <2>1, <2>2 DEF At
<1> QED
  BY <1>1, Invariant, NapInvariant, PTL

\* sys_sleep returns 0 only when n ticks have gone by, also when ticks wraps.
THEOREM SleepNotShortTheorem == Spec => SleepNotShort
<1>1. ASSUME Inv, NapInv, NEW c \in Cpu, sys_sleep_done(c)
      PROVE  nap[on[c]].past >= nap[on[c]].n
  <2>1. top[on[c]].pc = "test" /\ Due(on[c])
    BY Zenon, <1>1, Here DEF sys_sleep_done, At
  <2>2. /\ on[c] \in Proc /\ depth[on[c]] = 1
        /\ StackOK(on[c], depth[on[c]], top[on[c]], bot[on[c]])
    BY <1>1, <2>1, Place, Zenon DEF Handler
  <2>3. nap[on[c]] \in NapType /\ NapOK("test", bot[on[c]].next, ticks, nap[on[c]])
    BY <1>1, <2>1, <2>2, Zenon DEF Inv, TypeInv, NapInv, StackOK
  <2> QED
    BY <2>1, <2>3 DEF NapOK, Looping, NapType, Due, Ago
<1>2. Inv /\ NapInv => [\A c \in Cpu : sys_sleep_done(c) => nap[on[c]].past >= nap[on[c]].n]_vars
  BY Zenon, <1>1
<1> QED
  BY <1>2, Invariant, NapInvariant, PTL DEF SleepNotShort

\* Only the last theorem counts locks.
INSTANCE FiniteSetTheorems

\* A CPU that holds a lock has interrupts off and noff counts its locks; it
\* enters swtch with p->lock only and the clock's handler with none.
THEOREM LocksMaskInterruptsTheorem == Spec => []LocksMaskInterrupts
<1>1. Inv => LocksMaskInterrupts
  <2> SUFFICES ASSUME Inv, NEW c \in Cpu
               PROVE  LET held == {l \in DOMAIN lock : lock[l] = c}
                      IN  /\ held # {} => ~cpu[c].intr
                          /\ cpu[c].noff = Cardinality(held)
                          /\ At(c, "sched") => held = {on[c]} /\ state[on[c]] # "RUNNING"
                          /\ (At(c, "clock") \/ At(c, "after")) => held = {}
    BY Zenon DEF LocksMaskInterrupts
  <2> DEFINE held == {l \in DOMAIN lock : lock[l] = c}
             m == top[on[c]].pc
  <2>1. /\ LockOK(c, on[c], m, lock) /\ CpuOK(c, on[c], m, cpu[c], hartid)
        /\ m \in HoldsOwn => on[c] \in Proc
    BY Zenon, Place DEF HoldsOwn
  <2>2. \A l : At(c, l) <=> m = l
    BY Zenon, Here DEF At
  <2>3. \A l : l \in held <=> (l = tickslock /\ m \in HoldsTicks) \/ (l = on[c] /\ m \in HoldsOwn)
    <3>1. DOMAIN lock = Proc \union {tickslock}
      BY Zenon DEF Inv, TypeInv, Locks
    <3> QED
      BY <2>1, <3>1, SchedConstants DEF LockOK, tickslock
  <2>4. held # {} => m \in HoldsTicks \union HoldsOwn
    BY Zenon, <2>3
  <2>5. held # {} => ~cpu[c].intr
    BY Zenon, <2>1, <2>4 DEF CpuOK, Masked
  <2>6. m = "sched" => held = {on[c]} /\ state[on[c]] # "RUNNING"
    BY <2>1, <2>3 DEF HoldsTicks, HoldsOwn, Inv, RunInv
  <2>7. m \in {"clock", "after"} => held = {}
    BY Zenon, <2>3 DEF HoldsTicks, HoldsOwn
  <2>8. cpu[c].noff = Cardinality(held)
    <3>1. CASE m = "release"
      <4>1. held = {tickslock} \union {on[c]} /\ on[c] \notin {tickslock}
        BY <2>1, <2>3, <3>1, SchedConstants DEF HoldsTicks, HoldsOwn, tickslock
      <4>2. IsFiniteSet({tickslock}) /\ Cardinality({tickslock}) = 1
        BY FS_Singleton, Zenon
      <4>3. Cardinality({tickslock} \union {on[c]}) = Cardinality({tickslock}) + 1
        BY <4>1, <4>2, FS_AddElement, Zenon
      <4>4. cpu[c].noff = 2
        BY Zenon, <2>1, <3>1 DEF CpuOK, Noff
      <4>5. 1 + 1 = 2
        OBVIOUS
      <4> HIDE DEF held
      <4> QED
        BY Zenon, <4>1, <4>2, <4>3, <4>4, <4>5
    <3>2. CASE m \in (HoldsTicks \union HoldsOwn) \ {"release"}
      <4>1. \E x : held = {x}
        BY <2>3, <3>2 DEF HoldsTicks, HoldsOwn
      <4>2. cpu[c].noff = 1
        BY Zenon, <2>1, <3>2 DEF CpuOK, Noff
      <4> HIDE DEF held
      <4> QED
        BY Zenon, <4>1, <4>2, FS_Singleton
    <3>3. CASE m \notin HoldsTicks \union HoldsOwn
      <4>1. held = {}
        BY Zenon, <2>3, <3>3
      <4>2. cpu[c].noff = 0
        BY Zenon, <2>1, <3>3 DEF CpuOK, Noff, HoldsTicks
      <4> HIDE DEF held
      <4> QED
        BY Zenon, <4>1, <4>2, FS_EmptySet
    <3> QED
      BY Zenon, <3>1, <3>2, <3>3 DEF HoldsTicks
  <2> HIDE DEF held
  <2> QED
    BY Zenon, <2>2, <2>5, <2>6, <2>7, <2>8 DEF held
<1> QED
  BY <1>1, Invariant, PTL

=============================================================================
