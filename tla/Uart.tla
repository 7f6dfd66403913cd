-------------------------------- MODULE Uart --------------------------------
(***************************************************************************)
(* Console output, kernel/uart.c under consolewrite of kernel/console.c:    *)
(* write() puts bytes into the transmit ring, uartstart moves them to the   *)
(* UART whenever its holding register is idle, called from uartputc and     *)
(* from the interrupt the UART raises when it has sent its byte.  The echo  *)
(* of an input byte bypasses the ring.  consolewrite holds cons.lock over   *)
(* the whole write, and so does the handler while it echoes.  The UART and  *)
(* the interrupt controller are external.                                   *)
(***************************************************************************)
EXTENDS Naturals, Sequences

CONSTANTS
  Writer,    \* processes that write the console
  Char,
  TxSize,    \* UART_TX_BUF_SIZE
  MaxWrite   \* bound: bytes in one write

ASSUME UartConstants ==
  TxSize \in Nat /\ TxSize > 1 /\ MaxWrite \in Nat /\ Char # {}

Free == "nobody"
Intr == "intr"     \* the interrupt handler, as a holder of locks

VARIABLES
  txbuf, txr, txw,    \* uart_tx_buf, uart_tx_r, uart_tx_w
  cons, tx,           \* holders of cons.lock and uart_tx_lock
  at, left,           \* per writer: label, bytes still to write
  handler,            \* uartintr: "off", "rx", "echo", "tx"
  idle,               \* UART: LSR_TX_IDLE
  rx,                 \* UART: a received byte waits
  irq,                \* the UART's interrupt is pending
  sent,               \* history: the last ring byte given to the UART
  panicked

txring == <<txbuf, txr, txw>>
uartVars == <<txring, cons, tx, at, left, handler, idle, rx, irq, sent, panicked>>

\* (FullLate and StartsNothing are mutants.)
NextIdx(i) == (i + 1) % TxSize
FullLate == FALSE
Full == NextIdx(txw) = txr
Empty == txw = txr

UartInit ==
  /\ \E b \in Char : txbuf = [i \in 0..(TxSize - 1) |-> b] /\ sent = b
  /\ txr = 0 /\ txw = 0
  /\ cons = Free /\ tx = Free
  /\ at = [p \in Writer |-> "user"] /\ left = [p \in Writer |-> 0]
  /\ handler = "off"
  /\ idle = TRUE /\ rx = FALSE /\ irq = FALSE
  /\ panicked = FALSE

-----------------------------------------------------------------------------
(* uartstart, by whoever holds uart_tx_lock *)

\* One turn of the loop.
uartstart_send ==
  /\ ~Empty /\ idle
  /\ sent' = txbuf[txr]
  /\ txr' = NextIdx(txr)
  /\ idle' = FALSE
  /\ UNCHANGED <<txbuf, txw>>

\* It returns, and its caller releases the lock.
GivesUp == Empty \/ ~idle
uartstart_return == GivesUp /\ tx' = Free

-----------------------------------------------------------------------------
(* consolewrite and uartputc *)

consolewrite(p) ==
  /\ ~panicked /\ at[p] = "user" /\ cons = Free
  /\ cons' = p
  /\ \E k \in 1..MaxWrite : left' = [left EXCEPT ![p] = k]
  /\ at' = [at EXCEPT ![p] = "loop"]
  /\ UNCHANGED <<txring, tx, handler, idle, rx, irq, sent, panicked>>

ThenStart(p) == tx' = p /\ at' = [at EXCEPT ![p] = "start"]

uartputc(p) ==
  /\ ~panicked /\ at[p] = "loop" /\ left[p] > 0 /\ tx = Free /\ ~Full
  /\ \E c \in Char : txbuf' = [txbuf EXCEPT ![txw] = c]
  /\ txw' = NextIdx(txw)
  /\ left' = [left EXCEPT ![p] = @ - 1]
  /\ ThenStart(p)
  /\ UNCHANGED <<txr, cons, handler, idle, rx, irq, sent, panicked>>

\* The ring is full: sleep() calls sched(), which finds cons.lock still held
\* and panics with "sched locks".
uartputc_full(p) ==
  /\ ~panicked /\ at[p] = "loop" /\ left[p] > 0 /\ tx = Free /\ Full
  /\ panicked' = TRUE
  /\ UNCHANGED <<txring, cons, tx, at, left, handler, idle, rx, irq, sent>>

putc_start(p) ==
  /\ at[p] = "start" /\ ~panicked
  /\ \/ uartstart_send /\ UNCHANGED <<tx, at>>
     \/ /\ uartstart_return
        /\ at' = [at EXCEPT ![p] = "loop"]
        /\ UNCHANGED <<txring, idle, sent>>
  /\ UNCHANGED <<cons, left, handler, rx, irq, panicked>>

\* All bytes are in the ring, or either_copyin failed.
write_done(p) ==
  /\ ~panicked /\ at[p] = "loop"
  /\ left' = [left EXCEPT ![p] = 0]
  /\ cons' = Free
  /\ at' = [at EXCEPT ![p] = "user"]
  /\ UNCHANGED <<txring, tx, handler, idle, rx, irq, sent, panicked>>

-----------------------------------------------------------------------------
(* uartintr *)

intr_start ==
  /\ ~panicked /\ irq /\ handler = "off"
  /\ irq' = FALSE
  /\ handler' = "rx"
  /\ UNCHANGED <<txring, cons, tx, at, left, idle, rx, sent, panicked>>

\* uartgetc gives a byte: consoleintr takes cons.lock and echoes.
intr_getc ==
  /\ ~panicked /\ handler = "rx" /\ rx /\ cons = Free
  /\ rx' = FALSE
  /\ cons' = Intr
  /\ handler' = "echo"
  /\ UNCHANGED <<txring, tx, at, left, idle, irq, sent, panicked>>

\* uartputc_sync: spin until the UART is idle, then write to it.
uartputc_sync ==
  /\ ~panicked /\ handler = "echo" /\ idle
  /\ idle' = FALSE
  /\ cons' = Free
  /\ handler' = "rx"
  /\ UNCHANGED <<txring, tx, at, left, rx, irq, sent, panicked>>

intr_acquire ==
  /\ ~panicked /\ handler = "rx" /\ ~rx /\ tx = Free
  /\ tx' = Intr
  /\ handler' = "tx"
  /\ UNCHANGED <<txring, cons, at, left, idle, rx, irq, sent, panicked>>

intr_start_tx ==
  /\ ~panicked /\ handler = "tx"
  /\ \/ uartstart_send /\ UNCHANGED <<tx, handler>>
     \/ uartstart_return /\ handler' = "off" /\ UNCHANGED <<txring, idle, sent>>
  /\ UNCHANGED <<cons, at, left, rx, irq, panicked>>

-----------------------------------------------------------------------------
(* The UART (external). *)

dev_sent ==
  /\ ~idle
  /\ idle' = TRUE /\ irq' = TRUE
  /\ UNCHANGED <<txring, cons, tx, at, left, handler, rx, sent, panicked>>

dev_receive ==
  /\ ~rx
  /\ rx' = TRUE /\ irq' = TRUE
  /\ UNCHANGED <<txring, cons, tx, at, left, handler, idle, sent, panicked>>

-----------------------------------------------------------------------------
WriterStep(p) == uartputc(p) \/ uartputc_full(p) \/ putc_start(p) \/ write_done(p)
uartintr == intr_start \/ intr_getc \/ uartputc_sync \/ intr_acquire \/ intr_start_tx

UartNext ==
  \/ \E p \in Writer : consolewrite(p) \/ WriterStep(p)
  \/ uartintr \/ dev_sent \/ dev_receive

UartSpec == UartInit /\ [][UartNext]_uartVars

\* The UART sends what it is given; the handler and a process in the kernel
\* go on, and get a lock that is free again and again.
FairUart == /\ UartSpec /\ WF_uartVars(dev_sent) /\ SF_uartVars(uartintr)
            /\ \A p \in Writer : WF_uartVars(WriterStep(p))

-----------------------------------------------------------------------------
InRing == [k \in 1..((txw + TxSize - txr) % TxSize) |-> txbuf[(txr + k - 1) % TxSize]]
TX == INSTANCE Channel WITH Byte <- Char, Size <- TxSize - 1, q <- InRing, out <- sent,
                            ropen <- TRUE, wopen <- TRUE

\* The transmit ring is a FIFO of UART_TX_BUF_SIZE - 1 bytes: every byte written
\* is given to the UART once, in order, whichever side calls uartstart.
TxFifo == TX!ChSpec


=============================================================================
