----------------------------- MODULE AtomicDisk -----------------------------
(***************************************************************************)
(* What the logging layer (kernel/log.c) promises to the file system: a    *)
(* disk whose contents survive a crash only at points where no operation   *)
(* was in progress.  cur is what running operations see, durable what a    *)
(* restart would find, active the operations between begin_op and end_op.  *)
(***************************************************************************)
CONSTANTS Proc, Block, Val

VARIABLES cur, durable, active

adVars == <<cur, durable, active>>

AdInit == /\ durable \in [Block -> Val]
          /\ cur = durable
          /\ active = {}

Begin(p) == /\ p \notin active
            /\ active' = active \cup {p}
            /\ UNCHANGED <<cur, durable>>

Write(p, b, v) == /\ p \in active
                  /\ cur' = [cur EXCEPT ![b] = v]
                  /\ UNCHANGED <<durable, active>>

End(p) == /\ p \in active
          /\ active' = active \ {p}
          /\ UNCHANGED <<cur, durable>>

\* All finished operations become durable in one step, and only when no
\* operation is half done.
Commit == /\ active = {}
          /\ durable' = cur
          /\ UNCHANGED <<cur, active>>

Crash == /\ cur' = durable
         /\ active' = {}
         /\ UNCHANGED durable

AdNext == \/ \E p \in Proc : \/ Begin(p)
                             \/ End(p)
                             \/ \E b \in Block, v \in Val : Write(p, b, v)
          \/ Commit
          \/ Crash

AdSpec == AdInit /\ [][AdNext]_adVars

=============================================================================
