-------------------------------- MODULE Pipe --------------------------------
(***************************************************************************)
(* The pipe of kernel/pipe.c after pipealloc: writers and readers that      *)
(* share its two ends, one action per turn of the copy loops, with the      *)
(* lock, the two sleep channels, closing, and being killed.  Each process   *)
(* holds its own reference to its end; the last one to close an end calls   *)
(* pipeclose.                                                               *)
(***************************************************************************)
EXTENDS Integers, Sequences, FiniteSets

CONSTANTS
  Writers, Readers, Byte,
  Size,       \* PIPESIZE
  UMod,       \* nread and nwrite are unsigned int: modulo UMod
  Sizes,      \* how many bytes a call asks for
  MayKill,    \* processes that can be killed
  CopyFails   \* whether copyin and copyout may find a bad address

Procs == Writers \cup Readers

ASSUME PipeConstants ==
  /\ Size \in Nat \ {0} /\ UMod \in Nat
  /\ UMod % Size = 0 /\ UMod > Size
  /\ Sizes \subseteq Nat
  /\ Writers \cap Readers = {} /\ MayKill \subseteq Procs
  /\ CopyFails \in BOOLEAN
  /\ Byte # {} /\ "none" \notin Byte \cup Procs

None == "none"

VARIABLES
  data,                  \* [0..Size-1 -> Byte]
  nread, nwrite,         \* 0..UMod-1
  readopen, writeopen,
  freed,                 \* the page went back to kalloc
  lock,                  \* pi->lock: the process that holds it, or None
  pc,                    \* [Procs -> Labels]
  n, i,                  \* [Procs -> Nat]: the loop's n and i
  ch,                    \* the byte piperead took last, None before and after
  killed

Labels == {"idle", "acquire", "loop", "failed", "sleep", "closing", "closed"}
shared == <<data, nread, nwrite, readopen, writeopen, freed>>
vars == <<shared, lock, pc, n, i, ch, killed>>

Init ==
  /\ data = [k \in 0..(Size - 1) |-> CHOOSE b \in Byte : TRUE]   \* kalloc's junk
  /\ ch = None
  /\ nread = 0 /\ nwrite = 0
  /\ readopen = TRUE /\ writeopen = TRUE /\ freed = FALSE
  /\ lock = None
  /\ pc = [p \in Procs |-> "idle"]
  /\ n = [p \in Procs |-> 0] /\ i = [p \in Procs |-> 0]
  /\ killed = [p \in Procs |-> FALSE]

\* The two conditions of the loops, in unsigned arithmetic.  (FullSigned,
\* WakeNobody, WaitIfEmpty and JustThis are mutants.)
FullSigned == nwrite = nread + Size
Full == nwrite = (nread + Size) % UMod
Empty == nread = nwrite

\* pi->nread++ and pi->nwrite++.
Inc(x) == (x + 1) % UMod

\* wakeup(&pi->nread) and wakeup(&pi->nwrite).
WakeNobody(f) == f
WakeReaders(f) == [p \in Procs |-> IF p \in Readers /\ f[p] = "sleep" THEN "acquire" ELSE f[p]]
WakeWriters(f) == [p \in Procs |-> IF p \in Writers /\ f[p] = "sleep" THEN "acquire" ELSE f[p]]

call(p, k) ==
  /\ pc[p] = "idle" /\ ~killed[p]
  /\ n' = [n EXCEPT ![p] = k] /\ i' = [i EXCEPT ![p] = 0]
  /\ pc' = [pc EXCEPT ![p] = "acquire"]
  /\ UNCHANGED <<shared, lock, ch, killed>>

\* The first acquire, and the one at the end of sleep.
acquire(p) ==
  /\ pc[p] = "acquire" /\ lock = None
  /\ lock' = p
  /\ pc' = [pc EXCEPT ![p] = "loop"]
  /\ UNCHANGED <<shared, n, i, ch, killed>>

\* release and return; f is pc after the wakeups.  The value returned is i, or
\* -1 from write_fail and read_fail.
Return(p, f) ==
  /\ lock' = None
  /\ pc' = [f EXCEPT ![p] = "idle"]
  /\ n' = [n EXCEPT ![p] = 0] /\ i' = [i EXCEPT ![p] = 0]

-----------------------------------------------------------------------------
(* pipewrite, holding the lock *)

Writing(p) == p \in Writers /\ pc[p] = "loop"

write_byte(p, b) ==
  /\ Writing(p) /\ i[p] < n[p] /\ ~Full
  /\ data' = [data EXCEPT ![nwrite % Size] = b]
  /\ nwrite' = Inc(nwrite)
  /\ i' = [i EXCEPT ![p] = @ + 1]
  /\ UNCHANGED <<nread, readopen, writeopen, freed, lock, pc, n, ch, killed>>

\* The pipe is full and nobody will read, or the writer was killed.
write_fail(p) ==
  /\ Writing(p) /\ i[p] < n[p] /\ Full /\ (~readopen \/ killed[p])
  /\ Return(p, pc)
  /\ UNCHANGED <<shared, ch, killed>>

write_sleep(p) ==
  /\ Writing(p) /\ i[p] < n[p] /\ Full /\ readopen /\ ~killed[p]
  /\ pc' = WakeReaders([pc EXCEPT ![p] = "sleep"])
  /\ lock' = None
  /\ UNCHANGED <<shared, n, i, ch, killed>>

\* All copied, or copyin failed.
write_done(p) ==
  /\ Writing(p) /\ (i[p] = n[p] \/ (CopyFails /\ ~Full))
  /\ Return(p, WakeReaders(pc))
  /\ UNCHANGED <<shared, ch, killed>>

-----------------------------------------------------------------------------
(* piperead, holding the lock *)

Reading(p) == p \in Readers /\ pc[p] = "loop"

\* Must the reader wait?  Tested before the first byte only.
WaitIfEmpty(p) == i[p] = 0 /\ Empty
MustWait(p) == i[p] = 0 /\ Empty /\ writeopen

read_fail(p) ==
  /\ Reading(p) /\ MustWait(p) /\ killed[p]
  /\ Return(p, pc)
  /\ UNCHANGED <<shared, ch, killed>>

read_sleep(p) ==
  /\ Reading(p) /\ MustWait(p) /\ ~killed[p]
  /\ pc' = [pc EXCEPT ![p] = "sleep"]
  /\ lock' = None
  /\ UNCHANGED <<shared, n, i, ch, killed>>

TakeByte ==
  /\ ch' = data[nread % Size]
  /\ nread' = Inc(nread)
  /\ UNCHANGED <<data, nwrite, readopen, writeopen, freed>>

read_byte(p) ==
  /\ Reading(p) /\ i[p] < n[p] /\ ~Empty
  /\ TakeByte
  /\ i' = [i EXCEPT ![p] = @ + 1]
  /\ UNCHANGED <<lock, pc, n, killed>>

\* copyout fails: the byte is gone from the pipe and not counted.
read_copyout_fails(p) ==
  /\ CopyFails
  /\ Reading(p) /\ i[p] < n[p] /\ ~Empty
  /\ TakeByte
  /\ pc' = [pc EXCEPT ![p] = "failed"]
  /\ UNCHANGED <<lock, n, i, killed>>

read_done(p) ==
  /\ \/ Reading(p) /\ ~MustWait(p) /\ (i[p] = n[p] \/ Empty)
     \/ pc[p] = "failed"
  /\ Return(p, WakeWriters(pc))
  /\ ch' = None
  /\ UNCHANGED <<shared, killed>>

-----------------------------------------------------------------------------
(* fileclose drops the process's reference; pipeclose follows for the last.  *)

JustThis(p) == {p}
SameEnd(p) == IF p \in Writers THEN Writers ELSE Readers

close(p) ==
  /\ pc[p] = "idle"
  /\ pc' = [pc EXCEPT ![p] =
       IF \A o \in SameEnd(p) \ {p} : pc[o] \in {"closing", "closed"}
       THEN "closing" ELSE "closed"]
  /\ UNCHANGED <<shared, lock, n, i, ch, killed>>

pipeclose(p) ==
  /\ pc[p] = "closing" /\ lock = None
  /\ IF p \in Writers
     THEN /\ writeopen' = FALSE /\ UNCHANGED readopen
          /\ pc' = WakeReaders([pc EXCEPT ![p] = "closed"])
     ELSE /\ readopen' = FALSE /\ UNCHANGED writeopen
          /\ pc' = WakeWriters([pc EXCEPT ![p] = "closed"])
  /\ freed' = (~readopen' /\ ~writeopen')
  /\ UNCHANGED <<data, nread, nwrite, lock, n, i, ch, killed>>

kill(p) ==
  /\ p \in MayKill /\ ~killed[p]
  /\ killed' = [killed EXCEPT ![p] = TRUE]
  /\ pc' = [pc EXCEPT ![p] = IF @ = "sleep" THEN "acquire" ELSE @]
  /\ UNCHANGED <<shared, lock, n, i, ch>>

Step(p) ==
  \/ acquire(p)
  \/ \E b \in Byte : write_byte(p, b)
  \/ write_fail(p) \/ write_sleep(p) \/ write_done(p)
  \/ read_fail(p) \/ read_sleep(p) \/ read_byte(p) \/ read_copyout_fails(p) \/ read_done(p)
  \/ pipeclose(p)

Next == \E p \in Procs :
  \/ \E k \in Sizes : call(p, k)
  \/ Step(p)
  \/ close(p)
  \/ kill(p)

Spec == Init /\ [][Next]_vars

\* A process inside a pipe call keeps running and gets a lock that is free
\* again and again.
FairSpec == Spec /\ \A p \in Procs : SF_vars(Step(p))

-----------------------------------------------------------------------------
\* The bytes in the pipe, oldest first.
Contents == [k \in 1..((nwrite + UMod - nread) % UMod) |-> data[(nread + k - 1) % Size]]

\* The pipe implements the bounded FIFO, across the wrap of the counters and of
\* the ring: no byte is lost, duplicated, overtaken or overwritten.
C == INSTANCE Channel WITH q <- Contents,
       out <- IF ch = None THEN "nothing" ELSE ch, ropen <- readopen, wopen <- writeopen
Fifo == C!ChSpec

\* No wakeup is lost: when the lock is free, a writer sleeps only on a full pipe
\* that can still be read ("DOC: pipewrite-full"), and a reader only on an empty
\* one that can still be written ("DOC: pipe-empty"), unless a writer was killed
\* (in a full pipe it returns without waking the readers).
NoLostPipeWakeup ==
  lock = None =>
    /\ \A p \in Writers : pc[p] = "sleep" => Full /\ readopen
    /\ (\A p \in Writers : ~killed[p]) =>
         \A p \in Readers : pc[p] = "sleep" => Empty /\ writeopen

\* The page is freed only when nobody can touch the pipe again.
NoUseAfterFree == freed => \A p \in Procs : pc[p] = "closed"

\* When the last writer has closed, every read in progress returns; when the last
\* reader has closed, no writer stays blocked.
ClosedEndReleases ==
  \A p \in Procs :
    (pc[p] # "closed" /\ ~(IF p \in Readers THEN writeopen ELSE readopen))
      ~> (pc[p] \in {"idle", "closing", "closed"})

=============================================================================
