----------------------------- MODULE ProcProofs -----------------------------
(***************************************************************************)
(* Proofs about Proc, for every number of process slots.                    *)
(***************************************************************************)
EXTENDS Proc, TLAPS

Exiting == {"exit_parent", "lock_parent", "lock_self", "reparent", "exit"}

\* p->state and the thread's place agree; init never exits.
StateOK ==
  /\ \A s \in Slot : state[s] = "UNUSED" <=> pc[s] = "none"
  /\ \A s \in Slot : state[s] = "ZOMBIE" <=> pc[s] \in {"sched", "dead"}
  /\ \A s \in Slot : state[s] = "SLEEPING" => pc[s] = "asleep"
  /\ pc[init] \notin Exiting \cup {"none", "sched", "dead"}

\* Loop variables are inside the table while they are used as an index.
IndexOK == \A p \in Slot : pc[p] \in {"alloc", "reparent"} => idx[p] \in Slot

\* Which locks a thread holds.
LocksOK ==
  \A p \in Slot :
    /\ pc[p] \in {"scan", "reparent", "exit", "sched"} => lk[p] = p
    /\ pc[p] = "lock_parent" => tgt[p] \in Slot
    /\ pc[p] \in {"fork", "lock_self", "reparent", "exit"} =>
         tgt[p] \in Slot /\ lk[tgt[p]] = p
    /\ pc[p] \in {"reparent", "exit"} => tgt[p] # p
    /\ pc[p] = "fork" => pc[tgt[p]] = "none"

\* reparent has given away the children it has passed; afterwards, and in a
\* free slot, there is none.
ChildrenGone ==
  /\ \A p \in Slot : pc[p] = "reparent" =>
       \A s \in Slot : s < idx[p] => parent[s] # p
  /\ \A p \in Slot : pc[p] \in {"exit", "sched", "dead", "none"} =>
       \A s \in Slot : parent[s] # p

\* Every process but init has a parent.
HasParent ==
  /\ parent[init] = None
  /\ \A s \in Slot \ {init} : pc[s] # "none" => parent[s] \in Slot

\* A pid is given out once: the slots in use, and those that a fork has locked,
\* have different ones.
Taken(s) == pc[s] # "none" \/ \E p \in Slot : pc[p] = "fork" /\ tgt[p] = s
PidsOK ==
  /\ \A s \in Slot : pid[s] < nextpid
  /\ \A s, t \in Slot : Taken(s) /\ Taken(t) /\ s # t => pid[s] # pid[t]

\* A process that exits has locked its parent, or was given to init meanwhile; a
\* process that waits has seen no zombie among the children it has passed.
WaitersOK ==
  /\ \A c \in Slot : pc[c] \in Exiting \ {"exit_parent"} => parent[c] \in {tgt[c], init}
  /\ \A p \in Slot \ {init} : pc[p] = "scan" =>
       \A c \in Slot : c < idx[p] /\ parent[c] = p => pc[c] \notin {"sched", "dead"}
  /\ NoLostExit

Ind == /\ TypeOK /\ StateOK /\ IndexOK /\ LocksOK /\ ChildrenGone /\ HasParent
       /\ PidsOK /\ WaitersOK

\* The strengthening implies that every process has a parent that can wait.
LEMMA IndParentAlive == Ind => ParentAlive
<1> SUFFICES ASSUME Ind, NEW s \in Slot \ {init}, state[s] # "UNUSED"
             PROVE  parent[s] # None /\ state[parent[s]] \notin {"UNUSED", "ZOMBIE"}
    BY Zenon DEF ParentAlive
<1>1. pc[s] # "none" /\ s \in Slot
    BY Zenon DEF Ind, StateOK
<1>2. parent[s] \in Slot
    BY Zenon, <1>1 DEF Ind, HasParent
<1>3. pc[parent[s]] \notin {"exit", "sched", "dead", "none"}
    BY Zenon, <1>1, <1>2 DEF Ind, ChildrenGone
<1> QED
    BY <1>2, <1>3, ProcConstants DEF Ind, StateOK, Slot, None

\* fork keeps the invariant.
LEMMA ForkStep == ASSUME Ind, NEW p \in Slot, fork(p) PROVE Ind'
<1> TypeOK /\ StateOK /\ IndexOK /\ LocksOK /\ ChildrenGone /\ HasParent /\ PidsOK /\ WaitersOK
  BY Zenon DEF Ind
<1>1. TypeOK'
    BY ProcConstants DEF fork, Goto, FirstSlot, table, TypeOK, Labels
<1>2. StateOK' /\ HasParent' /\ IndexOK'
  <2>1. StateOK' /\ HasParent'
    BY DEF fork, InUser, Goto, table, StateOK, Exiting, TypeOK, HasParent
  <2>2. FirstSlot \in Slot
    BY ProcConstants DEF FirstSlot, Slot
  <2>3. IndexOK'
    BY Zenon, <2>2 DEF fork, Goto, TypeOK, IndexOK
  <2> QED
    BY Zenon, <2>1, <2>3
<1>3. LocksOK' /\ ChildrenGone'
    BY DEF fork, InUser, Goto, LocksOK, TypeOK, table, ChildrenGone
<1>4. PidsOK'
    BY DEF fork, InUser, Goto, table, PidsOK, Taken, TypeOK
<1>5. WaitersOK'
    BY Zenon DEF fork, Goto, table, TypeOK, WaitersOK, NoLostExit, Exiting
<1> QED
    BY Zenon, <1>1, <1>2, <1>3, <1>4, <1>5 DEF Ind

\* allocproc_pass keeps the invariant.
LEMMA AllocprocPassStep == ASSUME Ind, NEW p \in Slot, allocproc_pass(p) PROVE Ind'
<1> TypeOK /\ StateOK /\ IndexOK /\ LocksOK /\ ChildrenGone /\ HasParent /\ PidsOK /\ WaitersOK
  BY Zenon DEF Ind
<1>1. TypeOK'
  <2>1. idx[p] \in Slot /\ 0 \in 0..NProc /\ idx[p] + 1 \in 0..NProc
    BY ProcConstants DEF IndexOK, allocproc_pass, Slot
  <2> QED
    BY Zenon, <2>1 DEF TypeOK, allocproc_pass, Goto, Labels, table
<1>2. StateOK' /\ HasParent' /\ PidsOK'
    BY DEF allocproc_pass, Goto, table, StateOK, Exiting, TypeOK, HasParent,
           PidsOK, Taken
<1>3. IndexOK'
  <2>1. pc'[p] \in {"alloc", "reparent"} => idx'[p] \in Slot
    <3>1. idx[p] \in Slot
      BY Zenon DEF IndexOK, allocproc_pass
    <3>2. ~LastSlot(idx[p]) => idx[p] + 1 \in Slot
      BY <3>1, ProcConstants DEF Slot, LastSlot
    <3> QED
      BY <3>2 DEF TypeOK, allocproc_pass, Goto
  <2> QED
    BY Zenon, <2>1 DEF TypeOK, IndexOK, allocproc_pass, Goto
<1>4. LocksOK' /\ ChildrenGone' /\ WaitersOK'
    BY DEF allocproc_pass, Goto, LocksOK, TypeOK, table, ChildrenGone, WaitersOK,
           NoLostExit, Exiting
<1> QED
    BY Zenon, <1>1, <1>2, <1>3, <1>4 DEF Ind

\* allocproc keeps the invariant.
LEMMA AllocprocStep == ASSUME Ind, NEW p \in Slot, allocproc(p) PROVE Ind'
<1> TypeOK /\ StateOK /\ IndexOK /\ LocksOK /\ ChildrenGone /\ HasParent /\ PidsOK /\ WaitersOK
  BY Zenon DEF Ind
<1>1. TypeOK'
    BY DEF allocproc, Goto, allocpid, TypeOK, IndexOK, Labels
<1>2. StateOK' /\ HasParent' /\ IndexOK' /\ PidsOK'
    BY DEF allocproc, Goto, StateOK, Exiting, TypeOK, HasParent, IndexOK, allocpid,
           PidsOK, Taken
<1>3. LocksOK' /\ ChildrenGone' /\ WaitersOK'
    BY DEF allocproc, Free, Goto, TypeOK, IndexOK, StateOK, LocksOK, Slot, None,
           ChildrenGone, WaitersOK, NoLostExit, Exiting
<1> QED
    BY Zenon, <1>1, <1>2, <1>3 DEF Ind

\* fork_no_trapframe keeps the invariant.
LEMMA NoTrapframeStep == ASSUME Ind, NEW p \in Slot, fork_no_trapframe(p) PROVE Ind'
<1> TypeOK /\ StateOK /\ IndexOK /\ LocksOK /\ ChildrenGone /\ HasParent /\ PidsOK /\ WaitersOK
  BY Zenon DEF Ind
<1>1. TypeOK'
    BY ProcConstants DEF fork_no_trapframe, Release, Goto, Forget, table, TypeOK,
           LocksOK, Labels
<1>2. StateOK' /\ HasParent' /\ IndexOK' /\ PidsOK'
    BY DEF fork_no_trapframe, Goto, table, StateOK, Exiting, TypeOK, HasParent,
           Forget, IndexOK, PidsOK, Taken
<1>3. LocksOK' /\ ChildrenGone' /\ WaitersOK'
    BY DEF fork_no_trapframe, Release, Goto, Forget, TypeOK, LocksOK, table,
           ChildrenGone, WaitersOK, NoLostExit, Exiting
<1> QED
    BY Zenon, <1>1, <1>2, <1>3 DEF Ind

\* The slot that fork gives back no longer counts as having a pid.
LEMMA NoMemoryPids == ASSUME Ind, NEW p \in Slot, fork_no_memory(p) PROVE PidsOK'
<1> TypeOK /\ StateOK /\ IndexOK /\ LocksOK /\ ChildrenGone /\ HasParent /\ PidsOK /\ WaitersOK
  BY Zenon DEF Ind
<1> DEFINE np == tgt[p]
<1>1. np \in Slot /\ pc[np] = "none" /\ np # p
    BY Zenon DEF LocksOK, fork_no_memory
<1>2. \A t \in Slot : Taken(t)' => Taken(t) /\ t # np
    BY <1>1 DEF TypeOK, LocksOK, Taken, fork_no_memory, Goto, Forget
<1>3. /\ \A t \in Slot : pid'[t] = IF t = np THEN 0 ELSE pid[t]
      /\ nextpid' = nextpid
    BY Zenon, <1>1 DEF TypeOK, fork_no_memory, freeproc
<1> QED
    BY <1>2, <1>3 DEF Ind, TypeOK, PidsOK

\* fork_no_memory keeps the invariant.
LEMMA NoMemoryStep == ASSUME Ind, NEW p \in Slot, fork_no_memory(p) PROVE Ind'
<1> TypeOK /\ StateOK /\ IndexOK /\ LocksOK /\ ChildrenGone /\ HasParent /\ PidsOK /\ WaitersOK
  BY Zenon DEF Ind
<1>1. TypeOK'
    BY ProcConstants DEF fork_no_memory, freeproc, Release, Goto, Forget, TypeOK,
           LocksOK, States, Labels
<1>2. StateOK' /\ HasParent' /\ IndexOK'
    BY DEF fork_no_memory, freeproc, Goto, StateOK, Exiting, LocksOK, TypeOK,
           HasParent, Forget, IndexOK
<1>3. LocksOK' /\ WaitersOK'
    BY DEF fork_no_memory, Release, Goto, Forget, TypeOK, LocksOK, freeproc,
           WaitersOK, NoLostExit, Exiting
<1>4. ChildrenGone'
  <2>1. tgt[p] \in Slot /\ None \notin Slot
    BY ProcConstants DEF LocksOK, fork_no_memory, None, Slot
  <2>2. \A s \in Slot : parent'[s] \in Slot => parent'[s] = parent[s]
    BY Zenon, <2>1 DEF TypeOK, fork_no_memory, freeproc
  <2>3. \A q \in Slot : pc'[q] # pc[q] => pc'[q] = "user"
    BY Zenon DEF TypeOK, fork_no_memory, Goto
  <2>4. \A q \in Slot : pc[q] = "reparent" => idx'[q] = idx[q]
    BY Zenon DEF TypeOK, fork_no_memory, Forget
  <2> QED
    BY <2>2, <2>3, <2>4 DEF ChildrenGone
<1>5. PidsOK'
    BY Zenon, NoMemoryPids
<1> QED
    BY Zenon, <1>1, <1>2, <1>3, <1>4, <1>5 DEF Ind

\* The child keeps the pid that allocproc gave it.
LEMMA ForkDonePids == ASSUME Ind, NEW p \in Slot, fork_done(p) PROVE PidsOK'
<1> TypeOK /\ StateOK /\ IndexOK /\ LocksOK /\ ChildrenGone /\ HasParent /\ PidsOK /\ WaitersOK
  BY Zenon DEF Ind
<1>1. \A t \in Slot : Taken(t)' => Taken(t)
    BY DEF TypeOK, LocksOK, Taken, fork_done, Forget
<1> QED
    BY Zenon, <1>1 DEF Ind, PidsOK, fork_done

\* fork_done keeps the invariant.
LEMMA ForkDoneStep == ASSUME Ind, NEW p \in Slot, fork_done(p) PROVE Ind'
<1> TypeOK /\ StateOK /\ IndexOK /\ LocksOK /\ ChildrenGone /\ HasParent /\ PidsOK /\ WaitersOK
  BY Zenon DEF Ind
<1>1. TypeOK'
    BY ProcConstants DEF fork_done, Release, Forget, TypeOK, LocksOK, States,
           Labels
<1>2. StateOK'
  <2>1. tgt[p] \in Slot /\ pc[tgt[p]] = "none" /\ pc[p] = "fork"
    BY Zenon DEF LocksOK, fork_done
  <2>2. \A s \in Slot : state'[s] = IF s = tgt[p] THEN "RUNNABLE" ELSE state[s]
    BY Zenon, <2>1 DEF TypeOK, fork_done
  <2>3. \A s \in Slot : pc'[s] = IF s = tgt[p] THEN "new" ELSE IF s = p THEN "user" ELSE pc[s]
    BY Zenon, <2>1 DEF TypeOK, fork_done
  <2>4. init \in Slot
    BY ProcConstants DEF Slot, init
  <2> QED
    BY <2>1, <2>2, <2>3, <2>4 DEF StateOK, Exiting
<1>3. LocksOK' /\ ChildrenGone' /\ WaitersOK'
    BY DEF fork_done, Release, Forget, TypeOK, LocksOK, ChildrenGone, WaitersOK,
           NoLostExit, Exiting
<1>4. HasParent' /\ IndexOK'
    BY DEF fork_done, TypeOK, HasParent, StateOK, LocksOK, Forget, IndexOK
<1>5. PidsOK'
    BY Zenon, ForkDonePids
<1> QED
    BY Zenon, <1>1, <1>2, <1>3, <1>4, <1>5 DEF Ind

\* exit_wake_init keeps the invariant.
LEMMA WakeInitStep == ASSUME Ind, NEW p \in Slot, exit_wake_init(p) PROVE Ind'
<1> TypeOK /\ StateOK /\ IndexOK /\ LocksOK /\ ChildrenGone /\ HasParent /\ PidsOK /\ WaitersOK
  BY Zenon DEF Ind
<1>1. TypeOK'
    BY Zenon, ProcConstants DEF exit_wake_init, wakeup1, Goto, locals, TypeOK, States,
           Labels, Slot, init
<1>2. StateOK' /\ HasParent' /\ IndexOK' /\ PidsOK'
    BY DEF exit_wake_init, wakeup1, Goto, StateOK, TypeOK, HasParent, locals,
           IndexOK, PidsOK, Taken
<1>3. LocksOK' /\ ChildrenGone' /\ WaitersOK'
    BY DEF exit_wake_init, Goto, locals, LocksOK, TypeOK, ChildrenGone, wakeup1,
           WaitersOK, NoLostExit
<1> QED
    BY Zenon, <1>1, <1>2, <1>3 DEF Ind

\* exit_parent keeps the invariant.
LEMMA ExitParentStep == ASSUME Ind, NEW p \in Slot, exit_parent(p) PROVE Ind'
<1> TypeOK /\ StateOK /\ IndexOK /\ LocksOK /\ ChildrenGone /\ HasParent /\ PidsOK /\ WaitersOK
  BY Zenon DEF Ind
<1>1. TypeOK'
    BY Zenon DEF exit_parent, Goto, table, TypeOK, Labels
<1>2. StateOK' /\ HasParent' /\ IndexOK' /\ PidsOK'
    BY DEF exit_parent, Goto, table, StateOK, Exiting, TypeOK, HasParent, IndexOK,
           PidsOK, Taken
<1>3. LocksOK' /\ ChildrenGone' /\ WaitersOK'
    BY DEF exit_parent, Goto, TypeOK, StateOK, LocksOK, HasParent, Exiting, table,
           ChildrenGone, WaitersOK, NoLostExit
<1> QED
    BY Zenon, <1>1, <1>2, <1>3 DEF Ind

\* exit_lock_parent keeps the invariant.
LEMMA LockParentStep == ASSUME Ind, NEW p \in Slot, exit_lock_parent(p) PROVE Ind'
<1> TypeOK /\ StateOK /\ IndexOK /\ LocksOK /\ ChildrenGone /\ HasParent /\ PidsOK /\ WaitersOK
  BY Zenon DEF Ind
<1>1. TypeOK'
    BY Zenon DEF exit_lock_parent, Goto, table, locals, TypeOK, Labels, LocksOK
<1>2. StateOK' /\ HasParent' /\ IndexOK' /\ PidsOK'
    BY DEF exit_lock_parent, Goto, table, StateOK, Exiting, TypeOK, HasParent,
           locals, IndexOK, PidsOK, Taken
<1>3. LocksOK' /\ ChildrenGone' /\ WaitersOK'
    BY DEF exit_lock_parent, Free, Goto, locals, TypeOK, LocksOK, Slot, None,
           table, ChildrenGone, WaitersOK, NoLostExit, Exiting
<1> QED
    BY Zenon, <1>1, <1>2, <1>3 DEF Ind

\* exit_lock_self keeps the invariant.
LEMMA LockSelfStep == ASSUME Ind, NEW p \in Slot, exit_lock_self(p) PROVE Ind'
<1> TypeOK /\ StateOK /\ IndexOK /\ LocksOK /\ ChildrenGone /\ HasParent /\ PidsOK /\ WaitersOK
  BY Zenon DEF Ind
<1>1. TypeOK'
    BY ProcConstants DEF exit_lock_self, Goto, FirstSlot, table, TypeOK, Labels
<1>2. StateOK'
    BY DEF exit_lock_self, Goto, table, StateOK, Exiting, TypeOK
<1>3. IndexOK'
    BY ProcConstants DEF exit_lock_self, Goto, FirstSlot, TypeOK, IndexOK, Slot
<1>4. LocksOK'
    BY DEF exit_lock_self, Free, Goto, TypeOK, LocksOK, Slot, None
<1>5. ChildrenGone'
    BY DEF exit_lock_self, Goto, FirstSlot, table, TypeOK, ChildrenGone, HasParent,
           Slot, None, init
<1>6. HasParent'
    BY Zenon DEF exit_lock_self, Goto, table, HasParent, TypeOK
<1>7. PidsOK'
    BY DEF exit_lock_self, Goto, table, PidsOK, Taken, TypeOK
<1>8. WaitersOK'
    BY Zenon DEF exit_lock_self, Goto, table, WaitersOK, NoLostExit, Exiting, TypeOK
<1> QED
    BY Zenon, <1>1, <1>2, <1>3, <1>4, <1>5, <1>6, <1>7, <1>8 DEF Ind

\* reparent's turn for one slot gives the child there, if it is one, to init.
LEMMA ReparentStep == ASSUME Ind, NEW p \in Slot, reparent(p) PROVE Ind'
<1> TypeOK /\ StateOK /\ IndexOK /\ LocksOK /\ ChildrenGone /\ HasParent /\ PidsOK /\ WaitersOK
  BY Zenon DEF Ind
<1> DEFINE s == idx[p]
           next == IF LastSlot(s) THEN "exit" ELSE "reparent"
<1>1. s \in Slot /\ pc[p] = "reparent" /\ p # init
    BY Zenon DEF IndexOK, StateOK, Exiting, reparent
<1>2. /\ pc' = [pc EXCEPT ![p] = next]
      /\ idx' = [idx EXCEPT ![p] = IF LastSlot(s) THEN 0 ELSE s + 1]
      /\ UNCHANGED <<state, killed, pid, lk, tgt, kids, nextpid>>
    BY Zenon DEF reparent, Goto
<1>3. /\ parent' \in [Slot -> Slot \cup {None}]
      /\ \A c \in Slot : parent'[c] = IF c = s /\ parent[c] = p THEN init ELSE parent[c]
  <2>1. init \in Slot
    BY ProcConstants DEF Slot, init
  <2>2. CASE Abandoned(p, s)
    <3>1. parent' = [parent EXCEPT ![s] = init]
      BY Zenon, <2>2 DEF reparent
    <3> QED
      BY Zenon, <1>1, <2>1, <2>2, <3>1 DEF TypeOK, Abandoned
  <2>3. CASE ~Abandoned(p, s)
    <3>1. parent' = parent
      BY Zenon, <2>3 DEF reparent
    <3> QED
      BY Zenon, <1>1, <2>3, <3>1 DEF TypeOK, Abandoned
  <2> QED
    BY Zenon, <2>2, <2>3
<1>4. 0 \in 0..NProc /\ s + 1 \in 0..NProc /\ (~LastSlot(s) => s + 1 \in Slot)
    BY <1>1, ProcConstants DEF LastSlot, Slot
<1>5. TypeOK'
  <2>1. idx' \in [Slot -> 0..NProc] /\ pc' \in [Slot -> Labels]
    BY Zenon, <1>2, <1>4 DEF TypeOK, Labels
  <2> QED
    BY Zenon, <1>2, <1>3, <2>1 DEF TypeOK
<1>6. StateOK' /\ IndexOK' /\ LocksOK'
  <2>1. StateOK'
    BY <1>1, <1>2 DEF TypeOK, StateOK, Exiting
  <2>2. IndexOK'
    BY Zenon, <1>1, <1>2, <1>4 DEF TypeOK, IndexOK
  <2>3. LocksOK'
    BY <1>1, <1>2 DEF TypeOK, LocksOK
  <2> QED
    BY Zenon, <2>1, <2>2, <2>3
<1>7. HasParent'
  <2>1. init \in Slot /\ None \notin Slot
    BY ProcConstants DEF Slot, init, None
  <2> QED
    BY Zenon, <1>1, <1>2, <1>3, <2>1 DEF TypeOK, HasParent
<1>8. ChildrenGone'
  <2>1. ASSUME NEW q \in Slot, pc'[q] = "reparent", NEW c \in Slot, c < idx'[q]
        PROVE  parent'[c] # q
    <3>1. pc[q] = "reparent"
      BY Zenon, <1>1, <1>2, <2>1 DEF TypeOK
    <3>2. q # init
      BY Zenon, <3>1 DEF StateOK, Exiting
    <3>3. CASE q # p
      <4>1. idx'[q] = idx[q]
        BY Zenon, <1>2, <3>3 DEF TypeOK
      <4>2. parent[c] # q
        BY Zenon, <2>1, <3>1, <4>1 DEF ChildrenGone
      <4> QED
        BY Zenon, <1>3, <3>2, <4>2
    <3>4. CASE q = p
      <4>1. idx'[q] = IF LastSlot(s) THEN 0 ELSE s + 1
        BY Zenon, <1>2, <3>4 DEF TypeOK
      <4>2. c = s \/ c < s
        BY <1>1, <2>1, <4>1, ProcConstants DEF Slot
      <4> QED
        BY Zenon, <1>1, <1>3, <3>2, <3>4, <4>2 DEF ChildrenGone
    <3> QED
      BY Zenon, <3>3, <3>4
  <2>2. ASSUME NEW q \in Slot, pc'[q] \in {"exit", "sched", "dead", "none"}, NEW c \in Slot
        PROVE  parent'[c] # q
    <3>1. q # init
      BY Zenon, <1>1, <1>2, <2>2 DEF TypeOK, StateOK, Exiting
    <3>2. CASE q # p
      BY Zenon, <1>2, <1>3, <2>2, <3>1, <3>2 DEF TypeOK, ChildrenGone
    <3>3. CASE q = p
      <4>1. LastSlot(s)
        BY Zenon, <1>1, <1>2, <2>2, <3>3 DEF TypeOK
      <4>2. c = s \/ c < s
        BY <1>1, <4>1, ProcConstants DEF LastSlot, Slot
      <4> QED
        BY Zenon, <1>1, <1>3, <3>1, <3>3, <4>2 DEF ChildrenGone
    <3> QED
      BY Zenon, <3>2, <3>3
  <2> QED
    BY Zenon, <2>1, <2>2 DEF ChildrenGone
<1>9. PidsOK'
  <2>1. \A t \in Slot : Taken(t)' <=> Taken(t)
    BY Zenon, <1>1, <1>2 DEF TypeOK, Taken
  <2> QED
    BY Zenon, <1>2, <2>1 DEF PidsOK
<1>10. WaitersOK'
  <2>1. \A c \in Slot : pc'[c] \in Exiting \ {"exit_parent"} => parent'[c] \in {tgt'[c], init}
    BY Zenon, <1>1, <1>2, <1>3 DEF TypeOK, WaitersOK, Exiting
  <2>2. \A c, r \in Slot : r # init /\ parent'[c] = r => parent[c] = r
    BY Zenon, <1>3
  <2>3. \A r \in Slot : pc'[r] = "scan" => pc[r] = "scan" /\ idx'[r] = idx[r]
    BY Zenon, <1>1, <1>2 DEF TypeOK
  <2>4. \A c \in Slot : pc'[c] \in {"sched", "dead"} => pc[c] = pc'[c]
    BY Zenon, <1>1, <1>2 DEF TypeOK
  <2>5. \A r \in Slot \ {init} : pc'[r] = "scan" =>
          \A c \in Slot : c < idx'[r] /\ parent'[c] = r => pc'[c] \notin {"sched", "dead"}
    BY Zenon, <2>2, <2>3, <2>4 DEF WaitersOK
  <2>6. NoLostExit'
    BY Zenon, <1>2, <2>2 DEF WaitersOK, NoLostExit
  <2> QED
    BY Zenon, <2>1, <2>5, <2>6 DEF WaitersOK
<1> QED
    BY Zenon, <1>5, <1>6, <1>7, <1>8, <1>9, <1>10 DEF Ind

\* exit holds its parent's lock when it becomes a zombie, so that the parent is not
\* in the middle of a scan, and wakes it if it sleeps.
LEMMA ExitTypeWaiters == ASSUME Ind, NEW p \in Slot, exit(p) PROVE TypeOK' /\ WaitersOK'
<1> TypeOK /\ StateOK /\ IndexOK /\ LocksOK /\ ChildrenGone /\ HasParent /\ PidsOK /\ WaitersOK
  BY Zenon DEF Ind
<1> DEFINE q == tgt[p]
<1>1. q \in Slot /\ q # p /\ lk[q] = p /\ pc[p] = "exit" /\ p # init
    BY Zenon DEF LocksOK, StateOK, Exiting, exit
<1>2. /\ state' \in [Slot -> States]
      /\ \A s \in Slot : state'[s] = IF s = p THEN "ZOMBIE"
           ELSE IF s = q /\ state[s] = "SLEEPING" THEN "RUNNABLE" ELSE state[s]
    BY Zenon, <1>1 DEF TypeOK, exit, wakeup1, States
<1>3. /\ pc' = [pc EXCEPT ![p] = "sched"] /\ lk' = [lk EXCEPT ![q] = None]
      /\ UNCHANGED <<parent, killed, pid, idx, tgt, kids, nextpid>>
    BY Zenon DEF exit, Release, Goto, locals
<1>4. TypeOK'
    BY Zenon, <1>2, <1>3 DEF TypeOK, Labels
<1>5. parent[p] \in {q, init}
    BY Zenon, <1>1 DEF WaitersOK, Exiting
<1>6. pc[q] # "scan"
    BY Zenon, <1>1 DEF LocksOK
<1>7. NoLostExit'
    BY <1>1, <1>2, <1>3, <1>5 DEF WaitersOK, NoLostExit
<1>8. \A r \in Slot \ {init} : pc'[r] = "scan" =>
        \A c \in Slot : c < idx'[r] /\ parent'[c] = r => pc'[c] \notin {"sched", "dead"}
    BY Zenon, <1>1, <1>3, <1>5, <1>6 DEF TypeOK, WaitersOK
<1> QED
    BY <1>1, <1>3, <1>4, <1>7, <1>8 DEF Ind, TypeOK, WaitersOK, Exiting

\* exit keeps the invariant.
LEMMA ExitStep == ASSUME Ind, NEW p \in Slot, exit(p) PROVE Ind'
<1> TypeOK /\ StateOK /\ IndexOK /\ LocksOK /\ ChildrenGone /\ HasParent /\ PidsOK /\ WaitersOK
  BY Zenon DEF Ind
<1>1. TypeOK'
    BY Zenon, ExitTypeWaiters
<1>2. StateOK' /\ HasParent' /\ IndexOK' /\ PidsOK'
    BY DEF exit, wakeup1, Goto, TypeOK, StateOK, Exiting, HasParent, locals,
           IndexOK, PidsOK, Taken
<1>3. LocksOK' /\ ChildrenGone'
    BY DEF exit, Release, Goto, locals, TypeOK, LocksOK, ChildrenGone
<1>4. WaitersOK'
    BY Zenon, ExitTypeWaiters
<1> QED
    BY Zenon, <1>1, <1>2, <1>3, <1>4 DEF Ind

\* exit_sched keeps the invariant.
LEMMA ExitSchedStep == ASSUME Ind, NEW p \in Slot, exit_sched(p) PROVE Ind'
<1> TypeOK /\ StateOK /\ IndexOK /\ LocksOK /\ ChildrenGone /\ HasParent /\ PidsOK /\ WaitersOK
  BY Zenon DEF Ind
<1>1. TypeOK'
    BY ProcConstants DEF exit_sched, Release, Goto, Forget, table, TypeOK, Labels
<1>2. StateOK' /\ HasParent' /\ IndexOK'
    BY DEF exit_sched, Goto, table, StateOK, TypeOK, HasParent, Forget, IndexOK
<1>3. LocksOK' /\ ChildrenGone'
    BY DEF exit_sched, Release, Goto, Forget, TypeOK, LocksOK, table, ChildrenGone
<1>4. PidsOK'
    BY DEF exit_sched, Goto, Forget, table, PidsOK, Taken, TypeOK
<1>5. WaitersOK'
    BY Zenon DEF exit_sched, Goto, Forget, table, WaitersOK, NoLostExit, Exiting, TypeOK
<1> QED
    BY Zenon, <1>1, <1>2, <1>3, <1>4, <1>5 DEF Ind

\* wait keeps the invariant.
LEMMA WaitStep == ASSUME Ind, NEW p \in Slot, wait(p) PROVE Ind'
<1> TypeOK /\ StateOK /\ IndexOK /\ LocksOK /\ ChildrenGone /\ HasParent /\ PidsOK /\ WaitersOK
  BY Zenon DEF Ind
<1>1. TypeOK'
    BY ProcConstants DEF wait, StartScan, FirstSlot, Goto, table, TypeOK, Labels
<1>2. StateOK' /\ HasParent' /\ IndexOK' /\ PidsOK'
    BY DEF wait, InUser, Goto, table, StateOK, Exiting, TypeOK, HasParent,
           StartScan, IndexOK, PidsOK, Taken
<1>3. LocksOK' /\ ChildrenGone' /\ WaitersOK'
    BY DEF wait, Free, StartScan, Goto, TypeOK, LocksOK, Slot, None, table,
           ChildrenGone, FirstSlot, StateOK, WaitersOK, NoLostExit, Exiting, init
<1> QED
    BY Zenon, <1>1, <1>2, <1>3 DEF Ind

\* wait_pass keeps the invariant.
LEMMA WaitPassStep == ASSUME Ind, NEW p \in Slot, wait_pass(p) PROVE Ind'
<1> TypeOK /\ StateOK /\ IndexOK /\ LocksOK /\ ChildrenGone /\ HasParent /\ PidsOK /\ WaitersOK
  BY Zenon DEF Ind
<1>1. TypeOK'
    BY ProcConstants DEF wait_pass, Scanning, table, TypeOK
<1>2. StateOK' /\ HasParent' /\ IndexOK' /\ PidsOK'
    BY DEF wait_pass, table, StateOK, TypeOK, HasParent, Scanning, IndexOK, PidsOK,
           Taken
<1>3. LocksOK' /\ ChildrenGone'
    BY DEF wait_pass, LocksOK, TypeOK, Scanning, table, ChildrenGone
<1>4. WaitersOK'
  <2>1. \A c \in Slot : c < idx'[p] => c < idx[p] \/ c = idx[p]
    BY DEF TypeOK, wait_pass, Slot
  <2>2. idx[p] \in Slot /\ parent[idx[p]] = p => pc[idx[p]] \notin {"sched", "dead"}
    BY Zenon DEF StateOK, wait_pass
  <2>3. \A q \in Slot : q # p => idx'[q] = idx[q]
    BY Zenon DEF TypeOK, wait_pass
  <2>4. UNCHANGED <<state, parent, pc, tgt>>
    BY Zenon DEF wait_pass, table
  <2>5. \A q \in Slot \ {init} : pc'[q] = "scan" =>
          \A c \in Slot : c < idx'[q] /\ parent'[c] = q => pc'[c] \notin {"sched", "dead"}
    BY Zenon, <2>1, <2>2, <2>3, <2>4 DEF WaitersOK
  <2> QED
    BY Zenon, <2>4, <2>5 DEF WaitersOK, NoLostExit
<1> QED
    BY Zenon, <1>1, <1>2, <1>3, <1>4 DEF Ind

\* The reaped slot is free, and its pid with it; the other slots keep theirs.
LEMMA WaitReapTypePids == ASSUME Ind, NEW p \in Slot, wait_reap(p) PROVE TypeOK' /\ PidsOK'
<1> TypeOK /\ StateOK /\ IndexOK /\ LocksOK /\ ChildrenGone /\ HasParent /\ PidsOK /\ WaitersOK
  BY Zenon DEF Ind
<1> DEFINE c == idx[p]
<1>1. c \in Slot /\ pc[c] \in {"sched", "dead"} /\ pc[p] = "scan"
  <2>1. c \in Slot /\ state[c] = "ZOMBIE" /\ pc[p] = "scan"
    BY ProcConstants DEF TypeOK, wait_reap, FoundZombie, Scanning, Slot
  <2> QED
    BY Zenon, <2>1 DEF StateOK
<1>2. \A t \in Slot : Taken(t)' => Taken(t) /\ t # c
    BY <1>1 DEF TypeOK, LocksOK, Taken, wait_reap, Forget
<1>3. /\ \A t \in Slot : pid'[t] = IF t = c THEN 0 ELSE pid[t]
      /\ nextpid' = nextpid
    BY Zenon, <1>1 DEF TypeOK, wait_reap, freeproc
<1>4. TypeOK'
  <2>1. /\ state' \in [Slot -> States] /\ parent' \in [Slot -> Slot \cup {None}]
        /\ killed' \in [Slot -> BOOLEAN] /\ pid' \in [Slot -> Nat]
    BY Zenon, <1>1 DEF TypeOK, wait_reap, freeproc, States
  <2>2. pc' \in [Slot -> Labels] /\ lk' \in [Slot -> Slot \cup {None}]
    BY ZenonT(30) DEF TypeOK, wait_reap, Release, Labels
  <2>3. /\ idx' \in [Slot -> 0..NProc] /\ tgt' \in [Slot -> Slot \cup {None}]
        /\ kids' \in [Slot -> BOOLEAN] /\ nextpid' \in Nat
    BY ProcConstants DEF TypeOK, wait_reap, Forget
  <2> QED
    BY Zenon, <2>1, <2>2, <2>3 DEF TypeOK
<1> QED
    BY <1>2, <1>3, <1>4 DEF Ind, TypeOK, PidsOK

\* wait_reap keeps the invariant.
LEMMA WaitReapStep == ASSUME Ind, NEW p \in Slot, wait_reap(p) PROVE Ind'
<1> TypeOK /\ StateOK /\ IndexOK /\ LocksOK /\ ChildrenGone /\ HasParent /\ PidsOK /\ WaitersOK
  BY Zenon DEF Ind
<1>1. TypeOK'
    BY Zenon, WaitReapTypePids
<1>2. StateOK'
  <2>1. pc[p] = "scan" /\ state[idx[p]] = "ZOMBIE" /\ idx[p] \in Slot
    BY ProcConstants DEF wait_reap, FoundZombie, Scanning, TypeOK, Slot
  <2>2. /\ idx[p] # init /\ idx[p] # p /\ init \in Slot
        /\ state[p] \notin {"UNUSED", "ZOMBIE", "SLEEPING"}
    BY <2>1, ProcConstants DEF StateOK, Exiting, Slot, init
  <2>3. \A q \in Slot : pc'[q] = IF q = idx[p] THEN "none" ELSE IF q = p THEN "user" ELSE pc[q]
    BY Zenon, <2>1 DEF wait_reap, TypeOK
  <2>4. \A q \in Slot : state'[q] = IF q = idx[p] THEN "UNUSED" ELSE state[q]
    BY Zenon, <2>1 DEF wait_reap, freeproc, TypeOK
  <2> QED
    BY <2>1, <2>2, <2>3, <2>4 DEF StateOK, Exiting
<1>3. IndexOK'
    BY Zenon DEF wait_reap, Forget, TypeOK, IndexOK
<1>4. LocksOK'
  <2>1. pc[p] = "scan" /\ idx[p] \in 0..NProc
    BY Zenon DEF wait_reap, FoundZombie, Scanning, TypeOK
  <2>2. \A q \in Slot : pc'[q] \notin {"user", "none"} =>
          q # p /\ q # idx[p] /\ pc'[q] = pc[q] /\ tgt'[q] = tgt[q] /\ lk'[q] = lk[q]
    BY Zenon, <2>1 DEF wait_reap, Release, Forget, TypeOK
  <2>3. \A q \in Slot : pc[q] = "none" => pc'[q] = "none"
    BY Zenon, <2>1 DEF wait_reap, TypeOK
  <2>4. \A q \in Slot : q # p => lk'[q] = lk[q]
    BY Zenon DEF wait_reap, Release, TypeOK
  <2>5. lk[p] = p
    BY Zenon, <2>1 DEF LocksOK
  <2> QED
    BY <2>2, <2>3, <2>4, <2>5 DEF LocksOK
<1>5. ChildrenGone'
  <2>1. idx[p] \in Slot /\ pc[idx[p]] \in {"sched", "dead"} /\ None \notin Slot
    BY ProcConstants DEF TypeOK, StateOK, wait_reap, FoundZombie, Scanning, Slot, None
  <2>2. \A s \in Slot : parent'[s] \in Slot => parent'[s] = parent[s]
    BY Zenon, <2>1 DEF TypeOK, wait_reap, freeproc
  <2>3. \A q \in Slot : pc'[q] # pc[q] => pc'[q] = "user" \/ q = idx[p]
    BY Zenon, <2>1 DEF TypeOK, wait_reap
  <2>4. \A q \in Slot : pc[q] = "reparent" => idx'[q] = idx[q]
    BY Zenon DEF TypeOK, wait_reap, FoundZombie, Scanning, Forget
  <2> QED
    BY <2>1, <2>2, <2>3, <2>4 DEF ChildrenGone
<1>6. HasParent'
    BY DEF wait_reap, FoundZombie, Scanning, freeproc, TypeOK, HasParent
<1>7. PidsOK'
    BY Zenon, WaitReapTypePids
<1>8. WaitersOK'
    BY Zenon DEF wait_reap, freeproc, Forget, TypeOK, WaitersOK, NoLostExit, Exiting
<1> QED
    BY Zenon, <1>1, <1>2, <1>3, <1>4, <1>5, <1>6, <1>7, <1>8 DEF Ind

\* A thread that lets go of its own lock leaves the others theirs.
LEMMA ReleaseOwn ==
  ASSUME LocksOK, NEW p \in Slot, lk[p] = p, pc'[p] \in {"user", "asleep", "dead"},
         \A q \in Slot \ {p} : pc'[q] = pc[q] /\ tgt'[q] = tgt[q] /\ lk'[q] = lk[q]
  PROVE  LocksOK'
<1> SUFFICES ASSUME NEW q \in Slot
             PROVE  /\ pc'[q] \in {"scan", "reparent", "exit", "sched"} => lk'[q] = q
                    /\ pc'[q] = "lock_parent" => tgt'[q] \in Slot
                    /\ pc'[q] \in {"fork", "lock_self", "reparent", "exit"} =>
                         tgt'[q] \in Slot /\ lk'[tgt'[q]] = q
                    /\ pc'[q] \in {"reparent", "exit"} => tgt'[q] # q
                    /\ pc'[q] = "fork" => pc'[tgt'[q]] = "none"
  BY Zenon DEF LocksOK
<1>1. CASE q = p
  BY <1>1
<1>2. CASE q # p
  <2>1. pc'[q] = pc[q] /\ tgt'[q] = tgt[q] /\ lk'[q] = lk[q]
    BY Zenon, <1>2
  <2>2. pc[q] \in {"fork", "lock_self", "reparent", "exit"} => tgt[q] \in Slot /\ tgt[q] # p
    BY <1>2 DEF LocksOK
  <2> QED
    BY <2>1, <2>2 DEF LocksOK
<1> QED
  BY <1>1, <1>2

\* wait_copyout_fails keeps the invariant.
LEMMA CopyoutFailsStep == ASSUME Ind, NEW p \in Slot, wait_copyout_fails(p) PROVE Ind'
<1> TypeOK /\ StateOK /\ IndexOK /\ LocksOK /\ ChildrenGone /\ HasParent /\ PidsOK /\ WaitersOK
  BY Zenon DEF Ind
<1>1. TypeOK'
    BY ProcConstants DEF wait_copyout_fails, Release, Forget, Goto, table, TypeOK,
           Labels
<1>2. StateOK' /\ HasParent' /\ IndexOK'
    BY DEF wait_copyout_fails, FoundZombie, Scanning, Goto, table, StateOK,
           Exiting, TypeOK, HasParent, Forget, IndexOK
<1>3. LocksOK' /\ ChildrenGone'
  <2>1. /\ pc[p] = "scan" /\ pc'[p] \in {"user", "asleep"}
        /\ \A q \in Slot \ {p} : pc'[q] = pc[q] /\ tgt'[q] = tgt[q] /\ lk'[q] = lk[q]
        /\ \A q \in Slot \ {p} : idx'[q] = idx[q]
    BY Zenon DEF wait_copyout_fails, FoundZombie, Scanning, Release, Forget, Goto, TypeOK
  <2>2. LocksOK'
    <3>1. lk[p] = p
      BY Zenon, <2>1 DEF LocksOK
    <3> QED
      BY Zenon, <2>1, <3>1, ReleaseOwn
  <2>3. ChildrenGone'
    BY <2>1 DEF wait_copyout_fails, table, ChildrenGone
  <2> QED
    BY <2>2, <2>3
<1>4. PidsOK'
    BY DEF wait_copyout_fails, FoundZombie, Scanning, Forget, Goto, table, PidsOK,
           Taken, TypeOK
<1>5. WaitersOK'
    BY Zenon DEF wait_copyout_fails, Forget, Goto, table, TypeOK, WaitersOK, NoLostExit,
           Exiting
<1> QED
    BY Zenon, <1>1, <1>2, <1>3, <1>4, <1>5 DEF Ind

\* wait_none keeps the invariant.
LEMMA WaitNoneStep == ASSUME Ind, NEW p \in Slot, wait_none(p) PROVE Ind'
<1> TypeOK /\ StateOK /\ IndexOK /\ LocksOK /\ ChildrenGone /\ HasParent /\ PidsOK /\ WaitersOK
  BY Zenon DEF Ind
<1>1. TypeOK'
    BY DEF wait_none, ScanDone, Release, Forget, Goto, table, TypeOK, Labels
<1>2. StateOK' /\ HasParent' /\ IndexOK'
    BY DEF wait_none, ScanDone, Goto, table, StateOK, Exiting, TypeOK, HasParent,
           Forget, IndexOK
<1>3. LocksOK' /\ ChildrenGone'
  <2>1. /\ pc[p] = "scan" /\ pc'[p] \in {"user", "asleep"}
        /\ \A q \in Slot \ {p} : pc'[q] = pc[q] /\ tgt'[q] = tgt[q] /\ lk'[q] = lk[q]
        /\ \A q \in Slot \ {p} : idx'[q] = idx[q]
    BY Zenon DEF wait_none, ScanDone, Release, Forget, Goto, TypeOK
  <2>2. LocksOK'
    <3>1. lk[p] = p
      BY Zenon, <2>1 DEF LocksOK
    <3> QED
      BY Zenon, <2>1, <3>1, ReleaseOwn
  <2>3. ChildrenGone'
    BY <2>1 DEF wait_none, table, ChildrenGone
  <2> QED
    BY <2>2, <2>3
<1>4. PidsOK'
    BY DEF wait_none, ScanDone, Forget, Goto, table, PidsOK, Taken, TypeOK
<1>5. WaitersOK'
    BY Zenon DEF wait_none, Forget, Goto, table, TypeOK, WaitersOK, NoLostExit, Exiting
<1> QED
    BY Zenon, <1>1, <1>2, <1>3, <1>4, <1>5 DEF Ind

\* wait_sleep keeps the invariant.
LEMMA WaitSleepStep == ASSUME Ind, NEW p \in Slot, wait_sleep(p) PROVE Ind'
<1> TypeOK /\ StateOK /\ IndexOK /\ LocksOK /\ ChildrenGone /\ HasParent /\ PidsOK /\ WaitersOK
  BY Zenon DEF Ind
<1>1. TypeOK'
    BY DEF wait_sleep, ScanDone, Release, Forget, Goto, TypeOK, States, Labels
<1>2. StateOK' /\ HasParent' /\ IndexOK' /\ PidsOK'
    BY DEF wait_sleep, Goto, TypeOK, StateOK, Exiting, ScanDone, HasParent, Forget,
           IndexOK, PidsOK, Taken
<1>3. LocksOK' /\ ChildrenGone'
  <2>1. /\ pc[p] = "scan" /\ pc'[p] \in {"user", "asleep"}
        /\ \A q \in Slot \ {p} : pc'[q] = pc[q] /\ tgt'[q] = tgt[q] /\ lk'[q] = lk[q]
        /\ \A q \in Slot \ {p} : idx'[q] = idx[q]
    BY Zenon DEF wait_sleep, ScanDone, Release, Forget, Goto, TypeOK
  <2>2. LocksOK'
    <3>1. lk[p] = p
      BY Zenon, <2>1 DEF LocksOK
    <3> QED
      BY Zenon, <2>1, <3>1, ReleaseOwn
  <2>3. ChildrenGone'
    BY <2>1 DEF wait_sleep, table, ChildrenGone
  <2> QED
    BY <2>2, <2>3
<1>4. WaitersOK'
    BY DEF wait_sleep, ScanDone, Forget, Goto, TypeOK, StateOK, WaitersOK, NoLostExit,
           Exiting, Slot
<1> QED
    BY Zenon, <1>1, <1>2, <1>3, <1>4 DEF Ind

\* run_new keeps the invariant.
LEMMA RunNewStep == ASSUME Ind, NEW p \in Slot, run_new(p) PROVE Ind'
<1> TypeOK /\ StateOK /\ IndexOK /\ LocksOK /\ ChildrenGone /\ HasParent /\ PidsOK /\ WaitersOK
  BY Zenon DEF Ind
<1>1. TypeOK'
    BY Zenon DEF run_new, Goto, locals, TypeOK, States, Labels
<1>2. StateOK' /\ HasParent' /\ IndexOK' /\ PidsOK'
    BY DEF run_new, Goto, StateOK, Exiting, TypeOK, HasParent, locals, IndexOK,
           PidsOK, Taken
<1>3. LocksOK' /\ ChildrenGone' /\ WaitersOK'
    BY DEF run_new, Goto, locals, LocksOK, TypeOK, ChildrenGone, WaitersOK,
           NoLostExit, Exiting
<1> QED
    BY Zenon, <1>1, <1>2, <1>3 DEF Ind

\* run_waiter keeps the invariant.
LEMMA RunWaiterStep == ASSUME Ind, NEW p \in Slot, run_waiter(p) PROVE Ind'
<1> TypeOK /\ StateOK /\ IndexOK /\ LocksOK /\ ChildrenGone /\ HasParent /\ PidsOK /\ WaitersOK
  BY Zenon DEF Ind
<1>1. TypeOK'
    BY ProcConstants DEF run_waiter, StartScan, FirstSlot, Goto, TypeOK, States,
           Labels
<1>2. StateOK' /\ HasParent' /\ IndexOK' /\ PidsOK'
    BY DEF run_waiter, Goto, StateOK, Exiting, TypeOK, HasParent, StartScan,
           IndexOK, PidsOK, Taken
<1>3. LocksOK' /\ ChildrenGone' /\ WaitersOK'
    BY DEF run_waiter, Free, StartScan, Goto, TypeOK, LocksOK, Slot, None,
           ChildrenGone, FirstSlot, StateOK, WaitersOK, NoLostExit, Exiting, init
<1> QED
    BY Zenon, <1>1, <1>2, <1>3 DEF Ind

\* kill marks its victim and, if it sleeps in wait, makes it RUNNABLE.
LEMMA KillStep == ASSUME Ind, NEW p \in Slot, NEW t \in Slot, kill(p, t) PROVE Ind'
<1> TypeOK /\ StateOK /\ IndexOK /\ LocksOK /\ ChildrenGone /\ HasParent /\ PidsOK /\ WaitersOK
  BY Zenon DEF Ind
<1>1. /\ state' \in [Slot -> States]
      /\ \A s \in Slot : state'[s] =
           IF s = t /\ state[s] = "SLEEPING" THEN "RUNNABLE" ELSE state[s]
    BY Zenon DEF TypeOK, kill, wakeup1, States
<1>2. /\ killed' \in [Slot -> BOOLEAN]
      /\ UNCHANGED <<parent, pid, lk, pc, idx, tgt, kids, nextpid>>
    BY Zenon DEF TypeOK, kill, locals
<1>3. TypeOK'
    BY Zenon, <1>1, <1>2 DEF TypeOK
<1>4. StateOK'
    BY Zenon, <1>1, <1>2 DEF StateOK
<1>5. IndexOK' /\ LocksOK' /\ ChildrenGone' /\ HasParent'
    BY Zenon, <1>2 DEF IndexOK, LocksOK, ChildrenGone, HasParent
<1>6. PidsOK'
    BY Zenon, <1>2 DEF PidsOK, Taken
<1>7. WaitersOK'
    BY Zenon, <1>1, <1>2 DEF WaitersOK, NoLostExit
<1> QED
    BY Zenon, <1>3, <1>4, <1>5, <1>6, <1>7 DEF Ind

\* The table that userinit leaves satisfies the invariant.
LEMMA InitInd == Init => Ind
<1> SUFFICES ASSUME Init PROVE Ind
    BY Zenon
<1>1. TypeOK
    BY ProcConstants DEF Init, TypeOK, States, Labels, Slot, None, init
<1>2. StateOK /\ IndexOK /\ LocksOK
    BY ProcConstants DEF Init, StateOK, IndexOK, LocksOK, Exiting, Slot, init
<1>3. ChildrenGone /\ HasParent
    BY ProcConstants DEF Init, ChildrenGone, HasParent, Slot, None, init
<1>4. PidsOK
    BY DEF Init, PidsOK, Taken
<1>5. WaitersOK
    BY Zenon DEF Init, WaitersOK, NoLostExit, Exiting
<1> QED
    BY Zenon, <1>1, <1>2, <1>3, <1>4, <1>5 DEF Ind

\* Every step of the process table keeps the invariant.
LEMMA NextInd == Ind /\ [Next]_vars => Ind'
<1> SUFFICES ASSUME Ind, [Next]_vars PROVE Ind'
    BY Zenon
<1>1. CASE UNCHANGED vars
    BY <1>1 DEF vars, table, locals, Ind, TypeOK, StateOK, IndexOK, LocksOK, ChildrenGone,
                HasParent, PidsOK, Taken, WaitersOK, NoLostExit
<1>2. CASE Next
  <2> PICK p \in Slot :
        \/ Fork(p) \/ exit_wake_init(p) \/ Exit(p)
        \/ wait(p) \/ Wait(p) \/ wait_copyout_fails(p) \/ Run(p)
        \/ \E t \in Slot : kill(p, t)
    BY Zenon, <1>2 DEF Next
  <2>1. CASE Fork(p)
    BY Zenon, <2>1, ForkStep, AllocprocPassStep, AllocprocStep, NoTrapframeStep, NoMemoryStep,
       ForkDoneStep DEF Fork
  <2>2. CASE exit_wake_init(p) \/ Exit(p)
    BY Zenon, <2>2, WakeInitStep, ExitParentStep, LockParentStep, LockSelfStep, ReparentStep,
       ExitStep, ExitSchedStep DEF Exit
  <2>3. CASE wait(p) \/ Wait(p) \/ wait_copyout_fails(p)
    BY Zenon, <2>3, WaitStep, WaitPassStep, WaitReapStep, CopyoutFailsStep, WaitNoneStep,
       WaitSleepStep DEF Wait
  <2>4. CASE Run(p)
    BY Zenon, <2>4, RunNewStep, RunWaiterStep DEF Run
  <2>5. CASE \E t \in Slot : kill(p, t)
    BY Zenon, <2>5, KillStep
  <2> QED
    BY Zenon, <2>1, <2>2, <2>3, <2>4, <2>5
<1> QED
    BY Zenon, <1>1, <1>2

\* The invariant holds in every reachable state of the table.
LEMMA Invariance == Spec => []Ind
    BY InitInd, NextInd, PTL DEF Spec

\* Every variable of the process table stays in its range.
THEOREM TypeCorrect == Spec => []TypeOK
<1>1. Ind => TypeOK
    BY Zenon DEF Ind
<1> QED
    BY <1>1, Invariance, PTL

\* exit gives away every child, those forked and reparented meanwhile included,
\* before the process becomes a zombie: each process always has a parent that can
\* still wait for it.
THEOREM OrphansAdopted == Spec => []ParentAlive
    BY IndParentAlive, Invariance, PTL

\* allocproc gives no two processes the same pid.
THEOREM PidsUnique == Spec => []PidUnique
<1>1. Ind => PidUnique
    BY Zenon DEF Ind, StateOK, PidsOK, Taken, PidUnique
<1> QED
    BY <1>1, Invariance, PTL

\* A process other than init never sleeps in wait while it has a zombie child,
\* however exit, reparent, kill and wait interleave.
THEOREM ExitNeverLost == Spec => []NoLostExit
<1>1. Ind => NoLostExit
    BY Zenon DEF Ind, WaitersOK
<1> QED
    BY <1>1, Invariance, PTL

\* wait frees a slot only after the scheduler has left its kernel stack: a zombie
\* that is still being switched away from holds its own lock, which wait needs.
THEOREM ReapedOffStack == Spec => FreedOffStack
<1> DEFINE Freed == \A s \in Slot : state[s] = "ZOMBIE" /\ state'[s] = "UNUSED"
                                      => pc[s] = "dead"
<1>1. Ind /\ [Next]_vars => [Freed]_vars
  <2> SUFFICES ASSUME Ind, Next, NEW s \in Slot, state[s] = "ZOMBIE", state'[s] = "UNUSED"
               PROVE  pc[s] = "dead"
    BY Zenon
  <2>1. pc[s] \in {"sched", "dead"} /\ (pc[s] = "sched" => lk[s] = s)
    BY Zenon DEF Ind, StateOK, LocksOK
  <2> PICK p \in Slot :
        \/ Fork(p) \/ exit_wake_init(p) \/ Exit(p)
        \/ wait(p) \/ Wait(p) \/ wait_copyout_fails(p) \/ Run(p)
        \/ \E t \in Slot : kill(p, t)
    BY Zenon DEF Next
  <2>2. CASE Fork(p)
    <3>1. CASE fork_no_memory(p)
      <4>1. tgt[p] # s
        BY Zenon, <2>1, <3>1 DEF Ind, LocksOK, fork_no_memory
      <4> QED
        BY Zenon, <3>1, <4>1 DEF Ind, TypeOK, fork_no_memory, freeproc
    <3>2. CASE fork_done(p)
      BY Zenon, <3>2 DEF Ind, TypeOK, fork_done
    <3> QED
      BY Zenon, <2>2, <3>1, <3>2
         DEF Fork, fork, allocproc_pass, allocproc, fork_no_trapframe, table
  <2>3. CASE exit_wake_init(p) \/ Exit(p)
    BY Zenon, <2>3 DEF Ind, TypeOK, exit_wake_init, Exit, exit_parent, exit_lock_parent, exit_lock_self,
                reparent, exit, exit_sched, wakeup1, table
  <2>4. CASE wait(p) \/ Wait(p) \/ wait_copyout_fails(p)
    <3>1. CASE wait_reap(p)
      <4>1. idx[p] = s => lk[s] = None
        BY Zenon, <3>1 DEF wait_reap, FoundZombie, Free
      <4>2. s # None
        BY ProcConstants DEF Slot, None
      <4>3. idx[p] # s => state'[s] = state[s]
        BY Zenon, <3>1 DEF Ind, TypeOK, wait_reap, freeproc
      <4> QED
        BY Zenon, <2>1, <4>1, <4>2, <4>3
    <3>2. CASE wait_sleep(p)
      BY Zenon, <3>2 DEF Ind, TypeOK, wait_sleep
    <3> QED
      BY Zenon, <2>4, <3>1, <3>2 DEF Wait, wait, wait_pass, wait_none, wait_copyout_fails, table
  <2>5. CASE Run(p)
    BY Zenon, <2>5 DEF Ind, TypeOK, Run, run_new, run_waiter
  <2>6. CASE \E t \in Slot : kill(p, t)
    BY Zenon, <2>6 DEF Ind, TypeOK, kill, wakeup1
  <2> QED
    BY Zenon, <2>2, <2>3, <2>4, <2>5, <2>6
<1> QED
    BY <1>1, Invariance, PTL DEF Spec, FreedOffStack

-----------------------------------------------------------------------------
(* The order of the locks. *)

\* Who holds a lock: a process its own, or a fork the slot it fills and an exit
\* its parent's.
HeldOK ==
  \A s \in Slot : lk[s] # None =>
    \/ lk[s] = s /\ pc[s] \in {"scan", "reparent", "exit", "sched"}
    \/ tgt[lk[s]] = s /\ pc[lk[s]] \in {"fork", "lock_self", "reparent", "exit"}

\* A process is younger than its parent.
AgeOK ==
  /\ pid[init] = 1
  /\ \A s \in Slot \ {init} : pc[s] # "none" => pid[s] > 1 /\ pid[parent[s]] < pid[s]
  /\ \A p \in Slot : pc[p] = "fork" => pid[tgt[p]] > 1 /\ pid[p] < pid[tgt[p]]

LEMMA NoneIsNoSlot == None \notin Slot
BY ProcConstants DEF None, Slot

\* What the lemmas below use of the invariant.
LEMMA IndTypes ==
  ASSUME Ind
  PROVE  /\ pc \in [Slot -> Labels] /\ tgt \in [Slot -> Slot \cup {None}]
         /\ lk \in [Slot -> Slot \cup {None}] /\ parent \in [Slot -> Slot \cup {None}]
         /\ pid \in [Slot -> Nat] /\ nextpid \in Nat /\ init \in Slot
BY ProcConstants DEF Ind, TypeOK, Slot, init

LEMMA Forking ==
  ASSUME Ind, NEW p \in Slot, pc[p] = "fork"
  PROVE  /\ tgt[p] \in Slot /\ pc[tgt[p]] = "none" /\ tgt[p] # init /\ lk[tgt[p]] = p
         /\ \A s \in Slot : parent[s] # tgt[p]
<1> TypeOK /\ StateOK /\ IndexOK /\ LocksOK /\ ChildrenGone /\ HasParent /\ PidsOK /\ WaitersOK
  BY Zenon DEF Ind
<1>1. tgt[p] \in Slot /\ pc[tgt[p]] = "none" /\ lk[tgt[p]] = p
  BY Zenon DEF LocksOK
<1> QED
  BY Zenon, <1>1 DEF Ind, StateOK, ChildrenGone

\* Steps that give no pid and no parent.
LEMMA SameAge ==
  ASSUME Ind, AgeOK, UNCHANGED <<pid, parent>>,
         \A s \in Slot : pc'[s] = "none" <=> pc[s] = "none",
         \A p \in Slot : pc'[p] = "fork" => pc[p] = "fork" /\ tgt'[p] = tgt[p]
  PROVE  AgeOK'
BY Zenon DEF AgeOK

\* freeproc of a slot n without children, which nobody forks into any more.
LEMMA FreedAge ==
  ASSUME Ind, AgeOK, NEW n \in Slot, n # init, freeproc(n), pc'[n] = "none",
         \A s \in Slot : parent[s] # n,
         \A s \in Slot : pc'[s] # "none" => pc[s] # "none",
         \A q \in Slot : pc'[q] = "fork" =>
           pc[q] = "fork" /\ tgt'[q] = tgt[q] /\ tgt[q] # n /\ tgt[q] \in Slot
  PROVE  AgeOK'
<1> TypeOK /\ StateOK /\ IndexOK /\ LocksOK /\ ChildrenGone /\ HasParent /\ PidsOK /\ WaitersOK
  BY Zenon DEF Ind
<1>1. \A s \in Slot \ {n} : pid'[s] = pid[s] /\ parent'[s] = parent[s]
  BY Zenon, IndTypes DEF freeproc
<1>2. pid'[init] = 1
  BY Zenon, <1>1, IndTypes DEF AgeOK
<1>3. ASSUME NEW s \in Slot \ {init}, pc'[s] # "none"
      PROVE  pid'[s] > 1 /\ pid'[parent'[s]] < pid'[s]
  <2>1. s # n /\ pc[s] # "none"
    BY Zenon, <1>3
  <2>2. parent[s] \in Slot \ {n}
    BY Zenon, <2>1 DEF HasParent
  <2> QED
    BY <1>1, <2>1, <2>2 DEF AgeOK
<1>4. ASSUME NEW q \in Slot, pc'[q] = "fork"
      PROVE  pid'[tgt'[q]] > 1 /\ pid'[q] < pid'[tgt'[q]]
  <2>1. q # n
    BY Zenon, <1>4
  <2> QED
    BY <1>1, <1>4, <2>1 DEF AgeOK
<1> QED
  BY Zenon, <1>2, <1>3, <1>4 DEF AgeOK

\* The child that wait has found is off its stack.
LEMMA ZombieFound ==
  ASSUME Ind, NEW p \in Slot, FoundZombie(p)
  PROVE  idx[p] \in Slot /\ pc[idx[p]] = "dead" /\ pc[p] = "scan" /\ idx[p] # init
<1> TypeOK /\ StateOK /\ IndexOK /\ LocksOK /\ ChildrenGone /\ HasParent /\ PidsOK /\ WaitersOK
  BY Zenon DEF Ind
<1>1. idx[p] \in Slot
  BY ProcConstants DEF TypeOK, FoundZombie, Scanning, Slot
<1>2. pc[idx[p]] \in {"sched", "dead"} /\ lk[idx[p]] = None /\ pc[p] = "scan"
  BY Zenon, <1>1 DEF StateOK, FoundZombie, Scanning, Free
<1>3. pc[idx[p]] # "sched"
  BY Zenon, <1>1, <1>2, NoneIsNoSlot DEF LocksOK
<1> QED
  BY Zenon, <1>1, <1>2, <1>3 DEF Ind, StateOK

\* Steps after which p and r, which holds no lock, hold none.
LEMMA ReleaseAll ==
  ASSUME Ind, HeldOK, NEW p \in Slot, NEW l \in Slot, NEW r \in Slot,
         lk' = [lk EXCEPT ![l] = None],
         \A s \in Slot : (lk[s] = p => s = l) /\ lk[s] # r,
         \A q \in Slot \ {p, r} : pc'[q] = pc[q] /\ tgt'[q] = tgt[q]
  PROVE  HeldOK'
<1> SUFFICES ASSUME NEW s \in Slot, lk'[s] # None
             PROVE  \/ lk'[s] = s /\ pc'[s] \in {"scan", "reparent", "exit", "sched"}
                    \/ tgt'[lk'[s]] = s /\ pc'[lk'[s]] \in {"fork", "lock_self", "reparent", "exit"}
  BY Zenon DEF HeldOK
<1>1. lk'[s] = lk[s] /\ lk[s] \in Slot \ {p, r}
  BY Zenon, IndTypes
<1> QED
  BY <1>1 DEF HeldOK

\* A step of p's thread.
Step(p) == \/ Fork(p) \/ exit_wake_init(p) \/ Exit(p) \/ wait(p) \/ Wait(p)
           \/ wait_copyout_fails(p) \/ Run(p)

\* Each step keeps track of who holds what.
LEMMA HeldStep ==
  ASSUME Ind, HeldOK, NEW p \in Slot, Step(p)
  PROVE  HeldOK'
<1> TypeOK /\ StateOK /\ IndexOK /\ LocksOK /\ ChildrenGone /\ HasParent /\ PidsOK /\ WaitersOK
  BY Zenon DEF Ind
<1>t. /\ pc \in [Slot -> Labels] /\ tgt \in [Slot -> Slot \cup {None}]
      /\ lk \in [Slot -> Slot \cup {None}] /\ None \notin Slot
  BY Zenon, IndTypes, NoneIsNoSlot
<1>1. CASE fork(p) \/ allocproc_pass(p) \/ exit_wake_init(p) \/ exit_parent(p) \/ run_new(p)
  <2>1. /\ lk' = lk /\ pc[p] \in {"user", "alloc", "exit_parent", "new"}
        /\ \A q \in Slot \ {p} : pc'[q] = pc[q] /\ tgt'[q] = tgt[q]
    BY Zenon, <1>t, <1>1 DEF fork, allocproc_pass, exit_wake_init, exit_parent, run_new,
       InUser, Goto, table, locals
  <2>2. \A s \in Slot : lk[s] # p
    BY <1>t, <2>1 DEF HeldOK
  <2> QED
    BY <1>t, <2>1, <2>2 DEF HeldOK
<1>2. CASE allocproc(p)
  <2>1. idx[p] \in Slot /\ pc[idx[p]] = "none" /\ pc[p] = "alloc"
    BY Zenon, <1>2 DEF IndexOK, StateOK, allocproc
  <2> QED
    BY <1>t, <1>2, <2>1 DEF HeldOK, allocproc, Goto, Free
<1>3. CASE fork_no_trapframe(p) \/ fork_no_memory(p) \/ fork_done(p)
  <2>1. tgt[p] \in Slot /\ pc[tgt[p]] = "none" /\ pc[p] = "fork"
    BY Zenon, <1>3, Forking DEF fork_no_trapframe, fork_no_memory, fork_done
  <2>2. \A s \in Slot : (lk[s] = p => s = tgt[p]) /\ lk[s] # tgt[p]
    BY <1>t, <2>1 DEF HeldOK
  <2>3. /\ \A q \in Slot \ {p, tgt[p]} : pc'[q] = pc[q] /\ tgt'[q] = tgt[q]
        /\ lk' = [lk EXCEPT ![tgt[p]] = None]
    BY Zenon, <1>t, <1>3 DEF fork_no_trapframe, fork_no_memory, fork_done, Goto, Release, Forget
  <2> QED
    BY <2>1, <2>2, <2>3, ReleaseAll, Zenon
<1>4. CASE exit_lock_parent(p)
  <2>1. tgt[p] \in Slot /\ pc[p] = "lock_parent"
    BY Zenon, <1>4 DEF LocksOK, exit_lock_parent
  <2> QED
    BY <1>t, <1>4, <2>1 DEF HeldOK, exit_lock_parent, Goto, locals
<1>5. CASE exit_lock_self(p)
  BY <1>t, <1>5 DEF HeldOK, exit_lock_self, Goto
<1>6. CASE reparent(p) \/ exit(p)
  BY <1>t, <1>6 DEF HeldOK, reparent, exit, Goto, Release, locals
<1>7. CASE wait(p) \/ run_waiter(p) \/ wait_pass(p)
  BY <1>t, <1>7 DEF HeldOK, wait, run_waiter, wait_pass, InUser, StartScan, Goto
<1>8. CASE exit_sched(p) \/ wait_copyout_fails(p) \/ wait_none(p) \/ wait_sleep(p)
  <2>1. pc[p] \in {"sched", "scan"}
    BY Zenon, <1>8 DEF exit_sched, wait_copyout_fails, wait_none, wait_sleep, FoundZombie, Scanning,
       ScanDone
  <2>2. \A s \in Slot : lk[s] = p => s = p
    BY Zenon, <1>t, <2>1 DEF HeldOK
  <2>3. /\ \A q \in Slot \ {p} : pc'[q] = pc[q] /\ tgt'[q] = tgt[q]
        /\ lk' = [lk EXCEPT ![p] = None]
    BY Zenon, <1>t, <1>8 DEF exit_sched, wait_copyout_fails, wait_none, wait_sleep, Release, Forget, Goto
  <2> QED
    BY <1>t, <2>2, <2>3 DEF HeldOK
<1>9. CASE wait_reap(p)
  <2>1. idx[p] \in Slot /\ pc[idx[p]] = "dead" /\ pc[p] = "scan"
    BY Zenon, <1>9, ZombieFound DEF wait_reap
  <2>2. \A s \in Slot : (lk[s] = p => s = p) /\ lk[s] # idx[p]
    BY <1>t, <2>1 DEF HeldOK
  <2>3. /\ \A q \in Slot \ {p, idx[p]} : pc'[q] = pc[q] /\ tgt'[q] = tgt[q]
        /\ lk' = [lk EXCEPT ![p] = None]
    BY Zenon, <1>t, <1>9 DEF wait_reap, Release, Forget
  <2> QED
    BY <2>1, <2>2, <2>3, ReleaseAll, Zenon
<1> QED
  BY Zenon, <1>1, <1>2, <1>3, <1>4, <1>5, <1>6, <1>7, <1>8, <1>9 DEF Step, Fork, Exit, Wait, Run

\* Each step leaves parents older than their children.
LEMMA AgeStep ==
  ASSUME Ind, AgeOK, NEW p \in Slot, Step(p)
  PROVE  AgeOK'
<1> TypeOK /\ StateOK /\ IndexOK /\ LocksOK /\ ChildrenGone /\ HasParent /\ PidsOK /\ WaitersOK
  BY Zenon DEF Ind
<1>t. /\ pc \in [Slot -> Labels] /\ tgt \in [Slot -> Slot \cup {None}]
      /\ parent \in [Slot -> Slot \cup {None}] /\ pid \in [Slot -> Nat]
      /\ nextpid \in Nat /\ init \in Slot /\ None \notin Slot
  BY Zenon, IndTypes, NoneIsNoSlot
<1>1. CASE fork(p) \/ allocproc_pass(p) \/ fork_no_trapframe(p)
  BY Zenon, <1>t, <1>1, SameAge DEF fork, allocproc_pass, fork_no_trapframe,
     InUser, Goto, Forget, table
<1>2. CASE exit_wake_init(p) \/ exit_parent(p) \/ exit_lock_parent(p)
        \/ exit_lock_self(p)
  BY Zenon, <1>t, <1>2, SameAge DEF exit_wake_init, exit_parent, exit_lock_parent,
     exit_lock_self, Goto, table, locals
<1>3. CASE exit(p) \/ exit_sched(p)
  BY Zenon, <1>t, <1>3, SameAge DEF exit, exit_sched, Goto, Forget, table, locals
<1>4. CASE wait(p) \/ wait_pass(p) \/ wait_copyout_fails(p)
        \/ wait_none(p) \/ wait_sleep(p)
  BY Zenon, <1>t, <1>4, SameAge DEF wait, wait_pass, wait_copyout_fails, wait_none,
     wait_sleep, InUser, StartScan, FoundZombie, Scanning, ScanDone, Forget, Goto, table
<1>5. CASE run_new(p) \/ run_waiter(p)
  BY Zenon, <1>t, <1>5, SameAge DEF run_new, run_waiter, StartScan, Goto, locals
<1>6. CASE allocproc(p)
  <2> DEFINE n == idx[p]
  <2>1. n \in Slot /\ pc[n] = "none" /\ pc[p] = "alloc" /\ p # n /\ n # init
    BY Zenon, <1>6 DEF IndexOK, StateOK, allocproc
  <2>2. /\ pid' = [pid EXCEPT ![n] = nextpid] /\ tgt' = [tgt EXCEPT ![p] = n]
        /\ pc' = [pc EXCEPT ![p] = "fork"] /\ parent' = parent
    BY Zenon, <1>6 DEF allocproc, Goto
  <2>3. nextpid > 1 /\ pid[p] < nextpid
    BY Zenon, <1>t DEF PidsOK, AgeOK
  <2>4. \A s \in Slot : parent[s] # n
    BY Zenon, <2>1 DEF ChildrenGone
  <2>5. \A q \in Slot : pc[q] = "fork" => tgt[q] # n
    BY <1>t, <1>6, <2>1, Forking DEF allocproc, Free
  <2>6. \A s \in Slot : /\ pid'[s] = IF s = n THEN nextpid ELSE pid[s]
                        /\ pc'[s] = IF s = p THEN "fork" ELSE pc[s]
                        /\ tgt'[s] = IF s = p THEN n ELSE tgt[s]
    BY Zenon, <1>t, <2>1, <2>2
  <2>7. pid'[init] = 1
    BY Zenon, <1>t, <2>1, <2>6 DEF AgeOK
  <2>8. ASSUME NEW s \in Slot \ {init}, pc'[s] # "none"
        PROVE  pid'[s] > 1 /\ pid'[parent'[s]] < pid'[s]
    <3>1. s # n /\ pc[s] # "none"
      BY Zenon, <2>1, <2>6, <2>8
    <3>2. parent[s] \in Slot /\ parent[s] # n
      BY Zenon, <2>4, <3>1 DEF HasParent
    <3> QED
      BY <2>2, <2>6, <3>1, <3>2 DEF AgeOK
  <2>9. ASSUME NEW q \in Slot, pc'[q] = "fork"
        PROVE  pid'[tgt'[q]] > 1 /\ pid'[q] < pid'[tgt'[q]]
    <3>1. CASE q = p
      BY Zenon, <2>1, <2>3, <2>6, <3>1
    <3>2. CASE q # p
      <4>1. pc[q] = "fork" /\ tgt'[q] = tgt[q] /\ tgt[q] \in Slot /\ tgt[q] # n /\ q # n
        BY <2>1, <2>5, <2>6, <2>9, <3>2, Forking
      <4> QED
        BY Zenon, <2>6, <4>1 DEF AgeOK
    <3> QED
      BY Zenon, <3>1, <3>2
  <2> QED
    BY Zenon, <2>7, <2>8, <2>9 DEF AgeOK
<1>7. CASE fork_no_memory(p)
  <2>1. tgt[p] \in Slot /\ pc[tgt[p]] = "none" /\ pc[p] = "fork" /\ tgt[p] # init
    BY Zenon, <1>7, Forking DEF fork_no_memory
  <2>2. \A q \in Slot : pc'[q] = IF q = p THEN "user" ELSE pc[q]
    BY Zenon, <1>t, <1>7 DEF fork_no_memory, Goto
  <2>3. \A q \in Slot : pc'[q] = "fork" =>
          pc[q] = "fork" /\ tgt'[q] = tgt[q] /\ tgt[q] # tgt[p] /\ tgt[q] \in Slot
    BY <1>t, <1>7, <2>1, <2>2, Forking DEF fork_no_memory, Forget
  <2>4. \A s \in Slot : parent[s] # tgt[p]
    BY Zenon, <2>1, Forking
  <2>5. freeproc(tgt[p]) /\ pc'[tgt[p]] = "none"
    BY <1>7, <2>1, <2>2, Zenon DEF fork_no_memory
  <2>6. \A s \in Slot : pc'[s] # "none" => pc[s] # "none"
    BY <2>1, <2>2
  <2> QED
    BY <2>1, <2>3, <2>4, <2>5, <2>6, FreedAge, Zenon
<1>8. CASE fork_done(p)
  <2> DEFINE n == tgt[p]
  <2>1. n \in Slot /\ pc[n] = "none" /\ pc[p] = "fork" /\ n # p
    BY Zenon, <1>8, Forking DEF fork_done
  <2>2. /\ \A s \in Slot : /\ parent'[s] = IF s = n THEN p ELSE parent[s]
                           /\ pc'[s] = IF s = n THEN "new" ELSE IF s = p THEN "user" ELSE pc[s]
                           /\ pc'[s] = "fork" => tgt'[s] = tgt[s]
        /\ pid' = pid
    BY Zenon, <1>t, <1>8, <2>1 DEF fork_done, Forget
  <2> QED
    BY Zenon, <2>1, <2>2 DEF AgeOK
<1>9. CASE reparent(p)
  <2>1. \A s \in Slot : parent'[s] \in {parent[s], init}
    BY Zenon, <1>t, <1>9 DEF reparent
  <2>2. /\ pid' = pid /\ tgt' = tgt
        /\ \A s \in Slot : pc'[s] = IF s = p THEN pc'[p] ELSE pc[s]
        /\ pc[p] = "reparent" /\ pc'[p] \in {"exit", "reparent"}
    BY Zenon, <1>t, <1>9 DEF reparent, Goto
  <2> QED
    BY Zenon, <2>1, <2>2 DEF AgeOK
<1>10. CASE wait_reap(p)
  <2>1. idx[p] \in Slot /\ pc[idx[p]] = "dead" /\ pc[p] = "scan" /\ idx[p] # init
    BY Zenon, <1>10, ZombieFound DEF wait_reap
  <2>2. \A q \in Slot : pc'[q] = IF q = idx[p] THEN "none" ELSE IF q = p THEN "user" ELSE pc[q]
    BY Zenon, <1>t, <1>10, <2>1 DEF wait_reap
  <2>3. \A q \in Slot : pc'[q] = "fork" =>
          pc[q] = "fork" /\ tgt'[q] = tgt[q] /\ tgt[q] # idx[p] /\ tgt[q] \in Slot
    BY <1>t, <1>10, <2>1, <2>2, Forking DEF wait_reap, Forget
  <2>4. \A s \in Slot : parent[s] # idx[p]
    BY Zenon, <2>1 DEF ChildrenGone
  <2>5. freeproc(idx[p]) /\ pc'[idx[p]] = "none"
    BY <1>10, <2>1, <2>2, Zenon DEF wait_reap
  <2>6. \A s \in Slot : pc'[s] # "none" => pc[s] # "none"
    BY <2>1, <2>2
  <2> QED
    BY <2>1, <2>3, <2>4, <2>5, <2>6, FreedAge, Zenon
<1> QED
  BY Zenon, <1>1, <1>2, <1>3, <1>4, <1>5, <1>6, <1>7, <1>8, <1>9, <1>10 DEF Step, Fork, Exit, Wait, Run

\* A kill moves nobody.
LEMMA KillOrder ==
  ASSUME Ind, HeldOK, AgeOK, NEW p \in Slot, NEW t \in Slot, kill(p, t)
  PROVE  HeldOK' /\ AgeOK'
BY Zenon DEF HeldOK, AgeOK, kill, locals

\* Every step keeps the order.
LEMMA NextOrder == Ind /\ HeldOK /\ AgeOK /\ [Next]_vars => HeldOK' /\ AgeOK'
<1> SUFFICES ASSUME Ind, HeldOK, AgeOK, [Next]_vars PROVE HeldOK' /\ AgeOK'
  BY Zenon
<1>1. CASE UNCHANGED vars
  BY Zenon, <1>1 DEF vars, table, locals, HeldOK, AgeOK
<1>2. CASE Next
  <2>1. PICK p \in Slot : Step(p) \/ \E t \in Slot : kill(p, t)
    BY Zenon, <1>2 DEF Next, Step
  <2> QED
    BY Zenon, <2>1, HeldStep, AgeStep, KillOrder
<1> QED
  BY Zenon, <1>1, <1>2

LEMMA InitOrder == Init => HeldOK /\ AgeOK
BY ProcConstants DEF Init, HeldOK, AgeOK, Slot, None, init

\* A thread spins for a lock of the table.
LEMMA WantsSlot == ASSUME Ind, NEW p \in Slot, Wants(p) # None PROVE Wants(p) \in Slot
<1> TypeOK /\ StateOK /\ IndexOK /\ LocksOK /\ ChildrenGone /\ HasParent /\ PidsOK /\ WaitersOK
  BY Zenon DEF Ind
<1>1. pc[p] \in {"alloc", "reparent"} \/ Scanning(p) => idx[p] \in Slot
  BY ProcConstants DEF TypeOK, IndexOK, Scanning, Slot
<1>2. pc[p] = "lock_parent" => tgt[p] \in Slot
  BY Zenon DEF LocksOK
<1> QED
  BY Zenon, <1>1, <1>2 DEF Wants

\* Where a thread can be that spins for one lock and holds another.
LEMMA SpinsAndHolds ==
  ASSUME Ind, HeldOK, NEW p \in Slot, Wants(p) # None, NEW s \in Slot, lk[s] = p
  PROVE  /\ Wants(p) \in Slot
         /\ \/ pc[p] = "lock_self" /\ Wants(p) = p
            \/ pc[p] \in {"scan", "reparent"} /\ parent[Wants(p)] = p
         /\ \/ pc[p] \in {"scan", "reparent"} /\ s = p
            \/ pc[p] \in {"lock_self", "reparent"} /\ s = tgt[p]
<1>1. lk[s] # None
  BY Zenon, NoneIsNoSlot
<1>2. \/ s = p /\ pc[p] \in {"scan", "reparent", "exit", "sched"}
      \/ s = tgt[p] /\ pc[p] \in {"fork", "lock_self", "reparent", "exit"}
  BY <1>1, Zenon DEF HeldOK
<1>3. /\ pc[p] \in {"exit", "sched", "fork"} => Wants(p) = None
      /\ pc[p] = "lock_self" => Wants(p) = p
      /\ pc[p] = "reparent" => Wants(p) = None \/ (Wants(p) = idx[p] /\ parent[idx[p]] = p)
      /\ pc[p] = "scan" => Wants(p) = None \/ (Wants(p) = idx[p] /\ parent[idx[p]] = p /\ Scanning(p))
  BY Zenon DEF Wants, Scanning
<1>4. Wants(p) \in Slot
  BY Zenon, WantsSlot
<1> QED
  BY Zenon, <1>2, <1>3, <1>4

\* In a set of threads that spin for each other, a thread that is waited for waits
\* for a younger one: its child, or a child of that which has locked it.
LEMMA WaitsForYounger ==
  ASSUME Ind, HeldOK, AgeOK, \A q \in Slot : ~StaleParent(q),
         NEW p \in Slot, Wants(p) # None, NEW s \in Slot, lk[s] = p,
         NEW q \in Slot, Wants(q) # None, lk[Wants(p)] = q
  PROVE  pid[p] < pid[q]
<1> TypeOK /\ StateOK /\ IndexOK /\ LocksOK /\ ChildrenGone /\ HasParent /\ PidsOK /\ WaitersOK
  BY Zenon DEF Ind
<1> DEFINE w == Wants(p)
<1>1. /\ w \in Slot
      /\ \/ pc[p] = "lock_self" /\ w = p
         \/ pc[p] \in {"scan", "reparent"} /\ parent[w] = p
  BY Zenon, SpinsAndHolds
<1>2. \/ pc[q] \in {"scan", "reparent"} /\ w = q
      \/ pc[q] \in {"lock_self", "reparent"} /\ w = tgt[q]
  BY <1>1, SpinsAndHolds
<1>3. pc[q] \in {"lock_self", "reparent"} => parent[q] = tgt[q] /\ q # init
  BY Zenon DEF StaleParent, StateOK, Exiting
<1>4. pc[q] \in {"lock_self", "reparent"} /\ w = tgt[q] => pc[w] # "none" /\ pid[w] < pid[q]
  BY Zenon, <1>1, <1>3 DEF ChildrenGone, AgeOK
<1>5. parent[w] = p => w # init
  BY Zenon, NoneIsNoSlot DEF HasParent
<1>6. pc[w] # "none"
  BY Zenon, <1>2, <1>4
<1>7. parent[w] = p => pid[p] < pid[w]
  BY Zenon, <1>1, <1>5, <1>6 DEF AgeOK
<1>8. pid[p] \in Nat /\ pid[q] \in Nat /\ pid[w] \in Nat
  BY Zenon, <1>1, IndTypes
<1>9. CASE w = q
  BY Zenon, <1>1, <1>2, <1>4, <1>7, <1>9
<1>10. CASE w # q
  BY <1>1, <1>2, <1>4, <1>7, <1>8, <1>10
<1> QED
  BY Zenon, <1>9, <1>10

INSTANCE WellFoundedInduction

\* A set of numbers has a least one.
LEMMA Least ==
  ASSUME NEW T, T \subseteq Nat, T # {}
  PROVE  \E x \in T : \A y \in T : x <= y
<1> DEFINE R == {ss \in Nat \X Nat : ss[1] < ss[2]}
<1>1. IsWellFoundedOn(R, Nat)
  BY NatLessThanWellFounded, Zenon DEF OpToRel
<1> HIDE DEF R
<1>2. PICK x \in T : \A y \in T : ~(<<y, x>> \in R)
  BY <1>1, WFMin, Zenon
<1>3. \A y \in T : ~(y < x)
  BY <1>2, Zenon DEF R
<1> QED
  BY <1>3

\* Hence no set of threads waits for itself.
LEMMA NoCycle == Ind /\ HeldOK /\ AgeOK => NoDeadlockUnlessStale
<1> SUFFICES ASSUME Ind, HeldOK, AgeOK, \A p \in Slot : ~StaleParent(p),
                    NEW D \in SUBSET Spinning, D # {}, \A p \in D : lk[Wants(p)] \in D
             PROVE  FALSE
  BY Zenon DEF NoDeadlockUnlessStale, NoDeadlock
<1> DEFINE Blocker == {lk[Wants(p)] : p \in D}
           T == {nextpid - pid[q] : q \in Blocker}
<1>1. \A p \in D : p \in Slot /\ Wants(p) # None /\ lk[Wants(p)] \in D
  BY Zenon DEF Spinning
<1>2. Blocker \subseteq D /\ Blocker # {}
  BY Zenon, <1>1
<1>3. \A q \in Slot : nextpid - pid[q] \in Nat
  BY IndTypes DEF Ind, PidsOK
<1>4. T \subseteq Nat /\ T # {}
  BY Zenon, <1>1, <1>2, <1>3
<1>5. PICK x \in T : \A y \in T : x <= y
  BY <1>4, Least, Zenon
<1>6. PICK p \in Blocker : x = nextpid - pid[p]
  BY Zenon, <1>5
<1>7. PICK o \in D : p = lk[Wants(o)]
  BY Zenon, <1>6
<1> DEFINE q == lk[Wants(p)]
<1>8. q \in Blocker /\ nextpid - pid[p] <= nextpid - pid[q]
  BY Zenon, <1>2, <1>5, <1>6
<1>9. p \in D /\ q \in D
  BY Zenon, <1>1, <1>2, <1>6
<1>10. Wants(o) \in Slot
  BY Zenon, <1>1, WantsSlot
<1>11. pid[p] < pid[q]
  BY Zenon, <1>1, <1>7, <1>9, <1>10, WaitsForYounger
<1>12. pid[p] \in Nat /\ pid[q] \in Nat /\ nextpid \in Nat
  BY Zenon, <1>1, <1>9, IndTypes
<1> QED
  BY <1>8, <1>11, <1>12

\* exit, wait and reparent take the locks of a parent and a child in this order:
\* as long as no exiting process has locked a parent it no longer has, threads
\* never spin for each other, however many there are.
THEOREM DeadlockNeedsStaleParent == Spec => []NoDeadlockUnlessStale
<1>1. Init => HeldOK /\ AgeOK
  BY Zenon, InitOrder
<1>2. Ind /\ HeldOK /\ AgeOK /\ [Next]_vars => HeldOK' /\ AgeOK'
  BY Zenon, NextOrder
<1> QED
  BY <1>1, <1>2, NoCycle, Invariance, PTL DEF Spec

=============================================================================
