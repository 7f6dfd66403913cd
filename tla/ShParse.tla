------------------------------ MODULE ShParse -------------------------------
(***************************************************************************)
(* The shell's parser: parsecmd and what it calls in user/sh.c, on a line   *)
(* that gettoken has cut into tokens: the symbols < > + (for >>) | & ; ( )  *)
(* and words.  A result is the tree and the tokens left, or Panic, which    *)
(* ends the child that parses.                                              *)
(***************************************************************************)
EXTENDS Integers, Sequences, SequencesExt

CONSTANT MAXARGS

Symbols == {"<", ">", "+", "|", "&", ";", "(", ")"}
Panic == [ok |-> FALSE]
Parsed(c, s) == [ok |-> TRUE, cmd |-> c, s |-> s]

\* F of the result r, which is evaluated once; a Panic stays one.
Then(r, F(_)) == CHOOSE x \in {IF y.ok THEN F(y) ELSE Panic : y \in {r}} : TRUE

execcmd(argv) == [type |-> "EXEC", argv |-> argv]
redircmd(c, r) ==
  [type |-> "REDIR", cmd |-> c, file |-> r.file, mode |-> r.tok,
   fd |-> IF r.tok = "<" THEN 0 ELSE 1]
pipecmd(l, r) == [type |-> "PIPE", left |-> l, right |-> r]
listcmd(l, r) == [type |-> "LIST", left |-> l, right |-> r]
backcmd(c) == [type |-> "BACK", cmd |-> c]

peek(s, toks) == s # <<>> /\ Head(s) \in toks

\* The redirections at the head of s, and what follows them.  The command is
\* wrapped in the first of them first.
RECURSIVE parseredirs(_)
parseredirs(s) ==
  IF ~peek(s, {"<", ">", "+"}) THEN [ok |-> TRUE, redirs |-> <<>>, s |-> s]
  ELSE IF Len(s) = 1 \/ s[2] \in Symbols THEN Panic
  ELSE Then(parseredirs(Tail(Tail(s))), LAMBDA R :
         [R EXCEPT !.redirs = <<[tok |-> s[1], file |-> s[2]]>> \o @])
wrap(c, redirs) == FoldLeft(redircmd, c, redirs)

\* The loop of parseexec: redirections may stand between the words.
RECURSIVE parseargs(_, _, _)
parseargs(s, argv, redirs) ==
  IF s = <<>> \/ peek(s, {"|", ")", "&", ";"}) THEN Parsed(wrap(execcmd(argv), redirs), s)
  ELSE IF Head(s) \in Symbols \/ Len(argv) + 1 >= MAXARGS THEN Panic
  ELSE Then(parseredirs(Tail(s)), LAMBDA R :
         parseargs(R.s, Append(argv, Head(s)), redirs \o R.redirs))

RECURSIVE backs(_, _)
backs(c, s) == IF peek(s, {"&"}) THEN backs(backcmd(c), Tail(s)) ELSE Parsed(c, s)

RECURSIVE parseline(_)

parseblock(s) ==
  Then(parseline(Tail(s)), LAMBDA L :
    IF ~peek(L.s, {")"}) THEN Panic
    ELSE Then(parseredirs(Tail(L.s)), LAMBDA R : Parsed(wrap(L.cmd, R.redirs), R.s)))

parseexec(s) ==
  IF peek(s, {"("}) THEN parseblock(s)
  ELSE Then(parseredirs(s), LAMBDA R : parseargs(R.s, <<>>, R.redirs))

RECURSIVE parsepipe(_)
parsepipe(s) ==
  Then(parseexec(s), LAMBDA L :
    IF ~peek(L.s, {"|"}) THEN L
    ELSE Then(parsepipe(Tail(L.s)), LAMBDA R : Parsed(pipecmd(L.cmd, R.cmd), R.s)))

\* (list_first is a mutant: the ; is looked for before the &.)
list_first(P) ==
  IF ~peek(P.s, {";"}) THEN backs(P.cmd, P.s)
  ELSE Then(parseline(Tail(P.s)), LAMBDA R : backs(listcmd(P.cmd, R.cmd), R.s))
back_list(P) ==
  Then(backs(P.cmd, P.s), LAMBDA L :
    IF ~peek(L.s, {";"}) THEN L
    ELSE Then(parseline(Tail(L.s)), LAMBDA R : Parsed(listcmd(L.cmd, R.cmd), R.s)))
parseline(s) == Then(parsepipe(s), back_list)

parsecmd(s) == Then(parseline(s), LAMBDA L : IF L.s = <<>> THEN L ELSE Panic)

-----------------------------------------------------------------------------
\* How a tree is written: ( ) around what binds more weakly than its place.
RECURSIVE Written(_)
Written(c) ==
  LET In(d, types) == IF d.type \in types THEN Written(d)
                      ELSE <<"(">> \o Written(d) \o <<")">>
  IN  CASE c.type = "EXEC" -> c.argv
        [] c.type = "REDIR" -> In(c.cmd, {"EXEC", "REDIR"}) \o <<c.mode, c.file>>
        [] c.type = "PIPE" -> In(c.left, {"EXEC", "REDIR"}) \o <<"|">>
                                \o In(c.right, {"EXEC", "REDIR", "PIPE"})
        [] c.type = "BACK" -> In(c.cmd, {"EXEC", "REDIR", "PIPE", "BACK"}) \o <<"&">>
        [] c.type = "LIST" -> In(c.left, {"EXEC", "REDIR", "PIPE", "BACK"}) \o <<";">>
                                \o Written(c.right)

=============================================================================
