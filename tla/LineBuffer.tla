----------------------------- MODULE LineBuffer -----------------------------
(***************************************************************************)
(* What the console's input side promises its readers: a line that is being *)
(* typed can be edited, a line that was entered cannot, and readers take    *)
(* what was entered in order, without loss and without repetition.          *)
(***************************************************************************)
EXTENDS Naturals, Sequences

CONSTANTS Char, Enter, Size

VARIABLES line, entered

lbVars == <<line, entered>>

LbInit == line = <<>> /\ entered = <<>>

\* A line is entered by one of the Enter characters, or because there is no
\* room for more.
Type(c) ==
  /\ Len(line) + Len(entered) < Size
  /\ LET l == Append(line, c)
     IN IF c \in Enter \/ Len(l) + Len(entered) = Size
        THEN line' = <<>> /\ entered' = entered \o l
        ELSE line' = l /\ UNCHANGED entered

Rubout == /\ line # <<>>
          /\ line' = SubSeq(line, 1, Len(line) - 1)
          /\ UNCHANGED entered

Clear == line # <<>> /\ line' = <<>> /\ UNCHANGED entered

Take == /\ entered # <<>>
        /\ entered' = Tail(entered)
        /\ UNCHANGED line

LbNext == (\E c \in Char : Type(c)) \/ Rubout \/ Clear \/ Take

LbSpec == LbInit /\ [][LbNext]_lbVars

=============================================================================
