------------------------------ MODULE Console -------------------------------
(***************************************************************************)
(* Console input, kernel/console.c: the interrupt handler consoleintr edits *)
(* the line being typed in the ring cons.buf, consoleread takes entered     *)
(* lines out of it.  The handler runs under cons.lock, so each of its cases *)
(* is one action; a reader holds the lock from one sleep to the next and    *)
(* takes one byte per step.  ^P, a NUL and a byte that finds the ring full  *)
(* change nothing.  Output is in Uart.                                      *)
(***************************************************************************)
EXTENDS Integers, Sequences

CONSTANTS
  Reader,     \* processes that read the console
  Letter,     \* the ordinary bytes
  InputBuf,   \* INPUT_BUF
  UMod,       \* r, w and e are unsigned ints: modulo UMod
  MaxN,       \* bound: the largest n a reader asks for
  CopyFails   \* TRUE if either_copyout may fail

ASSUME ConsoleConstants ==
  /\ InputBuf \in Nat \ {0} /\ UMod \in Nat /\ MaxN \in Nat /\ CopyFails \in BOOLEAN
  /\ UMod > InputBuf /\ UMod % InputBuf = 0
  /\ Letter \cap {"nl", "cr", "eof", "nul"} = {}

Byte == Letter \cup {"nl", "eof"}
Nobody == "nobody"

VARIABLES
  buf, r, w, e,   \* cons
  lock,           \* holder of cons.lock
  pc, n, target,  \* per reader: label, bytes still wanted, bytes asked for
  killed,
  ret             \* per reader: what its last consoleread returned

ring == <<buf, r, w, e>>
vars == <<ring, lock, pc, n, target, killed, ret>>

\* Unsigned subtraction and addition.  (WakeOne, RoomForOneMore and
\* NeverPutBack are mutants of what follows them.)
Minus(a, b) == (a + UMod - b) % UMod
Plus(a, b) == (a + b) % UMod
At(i) == buf[i % InputBuf]

Init ==
  /\ buf = [i \in 0..(InputBuf - 1) |-> "nul"] /\ r = 0 /\ w = 0 /\ e = 0
  /\ lock = Nobody
  /\ pc = [p \in Reader |-> "idle"]
  /\ n = [p \in Reader |-> 0] /\ target = [p \in Reader |-> 0]
  /\ killed = [p \in Reader |-> FALSE]
  /\ ret = [p \in Reader |-> 0]

-----------------------------------------------------------------------------
(* consoleintr *)

\* wakeup(&cons.r).
WakeOne(f) == [p \in Reader |-> IF p = CHOOSE q \in Reader : TRUE THEN f[p]
                                ELSE IF f[p] = "sleep" THEN "lock" ELSE f[p]]
WakeReaders(f) == [p \in Reader |-> IF f[p] = "sleep" THEN "lock" ELSE f[p]]

\* cons.e - cons.r < INPUT_BUF.
RoomForOneMore == Minus(e, r) <= InputBuf
Room == Minus(e, r) < InputBuf

\* Where the loop of ^U stops: at w, or behind a newline.
Erasable == {k \in 0..Minus(e, w) :
               \A j \in 1..k : At(Minus(e, j)) # "nl"}

Enters(c) == c \in {"nl", "eof"} \/ Plus(e, 1) = Plus(r, InputBuf)

type(key) ==
  LET c == IF key = "cr" THEN "nl" ELSE key IN
  /\ lock = Nobody /\ Room
  /\ buf' = [buf EXCEPT ![e % InputBuf] = c]
  /\ e' = Plus(e, 1)
  /\ IF Enters(c) THEN w' = e' /\ pc' = WakeReaders(pc) ELSE UNCHANGED <<w, pc>>
  /\ UNCHANGED <<r, lock, n, target, killed, ret>>

MayErase == e # w

backspace ==
  /\ lock = Nobody /\ MayErase
  /\ e' = Minus(e, 1)
  /\ UNCHANGED <<buf, r, w, lock, pc, n, target, killed, ret>>

kill_line ==
  /\ lock = Nobody
  /\ \E k \in Erasable : /\ \A j \in Erasable : j <= k
                         /\ e' = Minus(e, k)
  /\ UNCHANGED <<buf, r, w, lock, pc, n, target, killed, ret>>

-----------------------------------------------------------------------------
(* consoleread *)

read(p) ==
  /\ pc[p] = "idle" /\ ~killed[p]
  /\ \E k \in 1..MaxN : /\ n' = [n EXCEPT ![p] = k]
                        /\ target' = [target EXCEPT ![p] = k]
  /\ pc' = [pc EXCEPT ![p] = "lock"]
  /\ UNCHANGED <<ring, lock, killed, ret>>

acquire(p) ==
  /\ pc[p] = "lock" /\ lock = Nobody
  /\ lock' = p
  /\ pc' = [pc EXCEPT ![p] = "loop"]
  /\ UNCHANGED <<ring, n, target, killed, ret>>

\* The locals n and target die with the call.
Return(p, v) ==
  /\ ret' = [ret EXCEPT ![p] = v]
  /\ pc' = [pc EXCEPT ![p] = "idle"]
  /\ lock' = Nobody
  /\ n' = [n EXCEPT ![p] = 0] /\ target' = [target EXCEPT ![p] = 0]

read_killed(p) ==
  /\ pc[p] = "loop" /\ n[p] > 0 /\ r = w /\ killed[p]
  /\ Return(p, -1)
  /\ UNCHANGED <<ring, killed>>

read_sleep(p) ==
  /\ pc[p] = "loop" /\ n[p] > 0 /\ r = w /\ ~killed[p]
  /\ pc' = [pc EXCEPT ![p] = "sleep"]
  /\ lock' = Nobody
  /\ UNCHANGED <<ring, n, target, killed, ret>>

NeverPutBack(p) == FALSE
PutBack(p) == n[p] < target[p]

\* ^D: left for the next read if this one has bytes to return.
read_eof(p) ==
  /\ pc[p] = "loop" /\ n[p] > 0 /\ r # w /\ At(r) = "eof"
  /\ IF PutBack(p) THEN UNCHANGED r ELSE r' = Plus(r, 1)
  /\ Return(p, target[p] - n[p])
  /\ UNCHANGED <<buf, w, e, killed>>

read_byte(p) ==
  /\ pc[p] = "loop" /\ n[p] > 0 /\ r # w /\ At(r) # "eof"
  /\ r' = Plus(r, 1)
  /\ IF At(r) = "nl" \/ n[p] = 1
     THEN Return(p, target[p] - n[p] + 1)
     ELSE n' = [n EXCEPT ![p] = @ - 1] /\ UNCHANGED <<ret, pc, lock, target>>
  /\ UNCHANGED <<buf, w, e, killed>>

\* The byte is gone from the ring, and the read does not count it.
read_copyout_fails(p) ==
  /\ CopyFails /\ pc[p] = "loop" /\ n[p] > 0 /\ r # w /\ At(r) # "eof"
  /\ r' = Plus(r, 1)
  /\ Return(p, target[p] - n[p])
  /\ UNCHANGED <<buf, w, e, killed>>

kill(p) ==
  /\ ~killed[p]
  /\ killed' = [killed EXCEPT ![p] = TRUE]
  /\ pc' = [pc EXCEPT ![p] = IF @ = "sleep" THEN "lock" ELSE @]
  /\ UNCHANGED <<ring, lock, n, target, ret>>

-----------------------------------------------------------------------------
Handler == (\E key \in Byte \cup {"cr"} : type(key)) \/ backspace \/ kill_line

Step(p) ==
  \/ acquire(p) \/ read_killed(p) \/ read_sleep(p) \/ read_eof(p)
  \/ read_byte(p) \/ read_copyout_fails(p)

Next == Handler \/ \E p \in Reader : read(p) \/ Step(p) \/ kill(p)

Spec == Init /\ [][Next]_vars

\* A reader that can run does, and gets the lock if it is free again and again.
FairSpec == Spec /\ \A p \in Reader : SF_vars(Step(p))

-----------------------------------------------------------------------------
Slice(i, j) == [k \in 1..Minus(j, i) |-> At(Plus(i, k - 1))]
LB == INSTANCE LineBuffer WITH
        Char <- Byte, Enter <- {"nl", "eof"}, Size <- InputBuf,
        line <- Slice(w, e), entered <- Slice(r, w)

\* A ^D leaves the ring only with a read that returns 0, and a read that returns
\* 0 has taken a ^D (or a byte that copyout could not deliver).
EofReadsZero ==
  \A p \in Reader : pc[p] = "loop" /\ pc'[p] = "idle" =>
    /\ r' # r /\ At(r) = "eof" => ret'[p] = 0
    /\ ret'[p] = 0 => r' # r

\* The ring implements the line editor: whatever the order of keys, erasures
\* and reads, readers get the entered lines, each byte once and in order; and
\* "Save ^D for next time, to make sure caller gets a 0-byte result".
LineDiscipline == LB!LbSpec /\ [][EofReadsZero]_vars

\* Entered input reaches a reader that waits for it: it returns, or another
\* reader took the input.
InputDelivered ==
  \A p \in Reader : (pc[p] \in {"lock", "sleep"} /\ r # w) ~> (pc[p] = "idle" \/ r = w)

=============================================================================
