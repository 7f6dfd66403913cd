------------------------------ MODULE Channel -------------------------------
(***************************************************************************)
(* What a pipe promises: a bounded FIFO of bytes between whoever has the    *)
(* write end open and whoever has the read end open.                        *)
(***************************************************************************)
EXTENDS Naturals, Sequences

CONSTANTS Byte, Size

VARIABLES
  q,             \* the bytes in transit, oldest first
  out,           \* the byte taken out last, until it is used
  ropen, wopen

Nothing == "nothing"

chVars == <<q, out, ropen, wopen>>

ChInit == q = <<>> /\ out \in Byte \cup {Nothing} /\ ropen = TRUE /\ wopen = TRUE

Put(b) == /\ wopen /\ Len(q) < Size
          /\ q' = Append(q, b)
          /\ UNCHANGED <<out, ropen, wopen>>

Get == /\ ropen /\ q # <<>>
       /\ out' = Head(q) /\ q' = Tail(q)
       /\ UNCHANGED <<ropen, wopen>>

Use == out' = Nothing /\ UNCHANGED <<q, ropen, wopen>>

CloseRead == ropen /\ ropen' = FALSE /\ UNCHANGED <<q, out, wopen>>
CloseWrite == wopen /\ wopen' = FALSE /\ UNCHANGED <<q, out, ropen>>

ChNext == (\E b \in Byte : Put(b)) \/ Get \/ Use \/ CloseRead \/ CloseWrite

ChSpec == ChInit /\ [][ChNext]_chVars

=============================================================================
