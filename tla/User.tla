-------------------------------- MODULE User --------------------------------
(***************************************************************************)
(* The programs of user/ that make processes and pipes, over the system     *)
(* calls as they see them: the shell (sh.c) with the programs it runs       *)
(* (echo.c, cat.c, wc.c), init.c, and the lab's primes.c, pingpong.c and    *)
(* xargs.c.                                                                 *)
(*                                                                          *)
(* A process's code is the sequence of system calls it has still to make;   *)
(* a fork holds the child's, a read becomes what the program does with what *)
(* it got.  So a translation reads like the C: runcmd(cmd) is a sequence.   *)
(* A process's file descriptors hold ends: <<"r", i>> and <<"w", i>> of pipe *)
(* i, <<"console", 0>>, or <<f, 0>> for a file.  The system calls are those *)
(* of the kernel modules, each one step.                                    *)
(***************************************************************************)
EXTENDS ShParse, FiniteSets, FiniteSetsExt, TLC

CONSTANTS
  NOFILE, NPipe,   \* descriptors of a process; pipes
  PIPESIZE,        \* items a pipe holds
  Slots,           \* numbers of processes the proc table may have room for
  Roots,           \* what init starts: <<"sh">> or the argv of a program
  Commands,        \* what may be typed at the shell: trees, written out,
  BadLines,        \* and lines that are no command
  Files,           \* the files there are, and what is in them
  LastPrime,       \* primes.c goes up to LastPrime
  Big              \* sizeof(buf) of cat, wc and xargs

VARIABLES
  proc,            \* [1..n -> records]; process 1 is init
  pipe,            \* [1..NPipe -> sequences]
  file, off,       \* contents of the files; how far each has been read
  console,         \* what was written to the console
  root,            \* what init started
  line, want,      \* the line typed at the shell, and the command meant
  typed,           \* whether the shell has read it
  failed           \* history: some fork has failed

vars == <<proc, pipe, file, off, console, root, line, want, typed, failed>>

Closed == <<"closed", 0>>
Console == <<"console", 0>>
Std == [d \in 0..(NOFILE - 1) |-> IF d < 3 THEN Console ELSE Closed]
Nobody == [st |-> "unused", parent |-> 0, fd |-> [d \in 0..(NOFILE - 1) |-> Closed],
           code |-> <<>>, p |-> [v \in {} |-> 0], bg |-> FALSE, image |-> ""]

-----------------------------------------------------------------------------
(* System calls, as instructions.  A descriptor is <<"", d>>, or <<v, i>> for *)
(* element i of the int v[2] that pipe(v) filled in.                        *)

Fd(d) == <<"", d>>
Close(d) == [op |-> "close", fd |-> d]
Dup(d) == [op |-> "dup", fd |-> d]
Open(f, mode) == [op |-> "open", file |-> f, mode |-> mode]
PipeTo(v) == [op |-> "pipe", v |-> v]
Fork(child) == [op |-> "fork", child |-> child, bg |-> FALSE]
Wait == [op |-> "wait"]
Exec(argv) == [op |-> "exec", argv |-> argv]
Exit == [op |-> "exit"]
Read(d, max, who, n) == [op |-> "read", fd |-> d, max |-> max, who |-> who, n |-> n]
Write(d, items) == [op |-> "write", fd |-> d, items |-> items, must |-> FALSE]

\* mapping(n, v) of primes.c; sh.c does the same in both children of a pipe.
\* (mapping_leaks is a mutant.)
mapping_leaks(n, v) == <<Close(Fd(n)), Dup(<<v, n>>), Close(<<v, 0>>)>>
mapping(n, v) == <<Close(Fd(n)), Dup(<<v, n>>), Close(<<v, 0>>), Close(<<v, 1>>)>>

\* What runcmd does in the parent of a pipe.  (pipe_waits_once is a mutant.)
pipe_waits_once == <<Close(<<"p", 0>>), Close(<<"p", 1>>), Wait, Exit>>
pipe_parent == <<Close(<<"p", 0>>), Close(<<"p", 1>>), Wait, Wait, Exit>>

RECURSIVE runcmd(_)
runcmd(c) ==
  CASE c.type = "EXEC" -> IF c.argv = <<>> THEN <<Exit>> ELSE <<Exec(c.argv), Exit>>
    [] c.type = "REDIR" -> <<Close(Fd(c.fd)), Open(c.file, c.mode)>> \o runcmd(c.cmd)
    [] c.type = "LIST" -> <<Fork(runcmd(c.left)), Wait>> \o runcmd(c.right)
    [] c.type = "PIPE" -> <<PipeTo("p"), Fork(mapping(1, "p") \o runcmd(c.left)),
                            Fork(mapping(0, "p") \o runcmd(c.right))>> \o pipe_parent
    [] c.type = "BACK" -> <<[Fork(runcmd(c.cmd)) EXCEPT !.bg = TRUE], Exit>>

\* The child of the shell's main loop parses the line and runs it.
sh_child(R) == IF R.ok THEN runcmd(R.cmd) ELSE <<Exit>>
sh == <<[op |-> "getcmd"]>>

primes == <<PipeTo("fd"), Read(Fd(0), 1, "primes", 0)>>
primes_main ==
  <<PipeTo("fd"),
    Fork(mapping(1, "fd") \o [i \in 1..(LastPrime - 1) |-> Write(Fd(1), <<i + 1>>)] \o <<Exit>>)>>
  \o mapping(0, "fd") \o primes \o <<Exit>>
pingpong ==
  <<PipeTo("fp"), PipeTo("sp"),
    Fork(<<Close(<<"fp", 1>>), Read(<<"fp", 0>>, Big, "print", 0), Close(<<"fp", 0>>),
           Close(<<"sp", 0>>), Write(<<"sp", 1>>, <<"pong">>), Close(<<"sp", 1>>), Exit>>),
    Close(<<"fp", 0>>), Write(<<"fp", 1>>, <<"ping">>), Close(<<"fp", 1>>),
    Close(<<"sp", 1>>), Read(<<"sp", 0>>, Big, "print", 0), Close(<<"sp", 0>>), Exit>>

\* Each argument, then "\n", is a write of its own.
echo(args) ==
  IF args = <<>> THEN <<>>
  ELSE [i \in 1..(Len(args) + 1) |-> Write(Fd(1), <<Append(args, "\n")[i]>>)]

cat == <<Read(Fd(0), Big, "cat", 0), Exit>>
cat_loop(i, d) == <<[Write(Fd(1), d) EXCEPT !.must = TRUE], i>>

wc == <<Read(Fd(0), Big, "wc", 0), Exit>>      \* counts items
wc_loop(i, d) == <<[i EXCEPT !.n = @ + Len(d)]>>
wc_end(i) == <<Write(Fd(1), <<ToString(i.n)>>)>>

\* primes when it has a prime, and the loop of the child that filters.
primes_loop(d) ==
  <<Write(Fd(1), d), Fork(mapping(1, "fd") \o <<Read(Fd(0), 1, "filter", d[1]), Exit>>), Wait>>
    \o mapping(0, "fd") \o primes
filter(i, d) == IF d[1] % i.n # 0 THEN <<Write(Fd(1), d), i>> ELSE <<i>>

\* One turn of the loop of xargs: the read overwrites the head of buf, and
\* the command is run for every line then in buf.  Lines end in "\n".
xargs(argv) == <<Read(Fd(0), Big, "xargs", [cmd |-> Tail(argv), buf |-> <<>>]), Exit>>
xargs_loop(i, d) ==
  LET buf == d \o SubSeq(i.n.buf, Len(d) + 1, Len(i.n.buf))
      ends == {k \in 1..Len(buf) : buf[k] = "\n"}
      start(k) == Max({0} \union {j \in ends : j < k}) + 1
      one(k) == <<Fork(<<Exec(i.n.cmd \o SubSeq(buf, start(k), k - 1))>>), Wait>>
  IN  FlattenSeq([k \in 1..Cardinality(ends) |-> one(SetToSortSeq(ends, <)[k])])
        \o <<[i EXCEPT !.n.buf = buf]>>

\* main of the program argv[1].
Main(argv) ==
  CASE argv[1] = "echo" -> echo(Tail(argv)) \o <<Exit>>
    [] argv[1] = "cat" -> cat
    [] argv[1] = "wc" -> wc
    [] argv[1] = "xargs" -> xargs(argv)
    [] argv[1] = "primes" -> primes_main
    [] argv[1] = "pingpong" -> pingpong
    [] argv[1] = "sh" -> sh

\* What the program does with the items a read returned, and at end of file.
Got(i, d) ==
  CASE i.who = "cat" -> cat_loop(i, d)
    [] i.who = "wc" -> wc_loop(i, d)
    [] i.who = "print" -> <<Write(Fd(1), d)>>
    [] i.who = "primes" -> primes_loop(d)
    [] i.who = "filter" -> filter(i, d)
    [] i.who = "xargs" -> xargs_loop(i, d)
Eof(i) == IF i.who = "wc" THEN wc_end(i) ELSE <<>>

-----------------------------------------------------------------------------
Pid == DOMAIN proc
Ends(e) == {<<q, d>> \in Pid \X (0..(NOFILE - 1)) : proc[q].fd[d] = e}
Lowest(q) == Min({d \in 0..(NOFILE - 1) : proc[q].fd[d] = Closed})

Started(argv) == [Nobody EXCEPT !.st = "run", !.parent = 1, !.fd = Std,
                                !.code = Main(argv), !.image = argv[1]]
Nothing == execcmd(<<>>)

Init ==
  /\ root \in Roots
  /\ \E n \in Slots :
       proc = [q \in 1..n |-> CASE q = 1 -> [Nobody EXCEPT !.st = "run", !.fd = Std]
                                [] q = 2 -> Started(root)
                                [] OTHER -> Nobody]
  /\ \/ root[1] = "sh" /\ want \in Commands /\ line = Written(want)
     \/ root[1] = "sh" /\ want = Nothing /\ line \in BadLines
     \/ root[1] # "sh" /\ want = Nothing /\ line = <<>>
  /\ pipe = [i \in 1..NPipe |-> <<>>]
  /\ file = Files /\ off = [f \in DOMAIN Files |-> 0]
  /\ console = <<>> /\ typed = FALSE /\ failed = FALSE

At(q, op) == proc[q].st = "run" /\ proc[q].code # <<>> /\ Head(proc[q].code).op = op
Ins(q) == Head(proc[q].code)
Desc(q) == IF Ins(q).fd[1] = "" THEN Ins(q).fd[2]
           ELSE proc[q].p[Ins(q).fd[1]][Ins(q).fd[2] + 1]
End(q) == proc[q].fd[Desc(q)]
After(q) == [proc[q] EXCEPT !.code = Tail(@)]
Set(q, r) == proc' = [proc EXCEPT ![q] = r]

getcmd(q) ==      \* and main's fork1, wait
  /\ At(q, "getcmd") /\ ~typed /\ typed' = TRUE
  /\ Set(q, [proc[q] EXCEPT !.code = <<Fork(sh_child(parsecmd(line))), Wait>> \o sh])
  /\ UNCHANGED <<pipe, file, off, console, root, line, want, failed>>

close(q) ==
  /\ At(q, "close")
  /\ Set(q, [After(q) EXCEPT !.fd[Desc(q)] = Closed])
  /\ UNCHANGED <<pipe, file, off, console, root, line, want, typed, failed>>

dup(q) ==
  /\ At(q, "dup")
  /\ Set(q, [After(q) EXCEPT !.fd[Lowest(q)] = End(q)])
  /\ UNCHANGED <<pipe, file, off, console, root, line, want, typed, failed>>

open(q) ==
  /\ At(q, "open")
  /\ LET f == Ins(q).file
     IN  IF f \in DOMAIN file
         THEN /\ Set(q, [After(q) EXCEPT !.fd[Lowest(q)] = <<f, 0>>])
              /\ off' = [off EXCEPT ![f] = 0]
              /\ file' = IF Ins(q).mode = ">" THEN [file EXCEPT ![f] = <<>>] ELSE file
         ELSE Set(q, [proc[q] EXCEPT !.code = <<Exit>>]) /\ UNCHANGED <<off, file>>
  /\ UNCHANGED <<pipe, console, root, line, want, typed, failed>>

sys_pipe(q) ==
  /\ At(q, "pipe")
  /\ LET i == Min({j \in 1..NPipe : Ends(<<"r", j>>) \union Ends(<<"w", j>>) = {}})
         r == Lowest(q)
         w == Min({d \in 0..(NOFILE - 1) : proc[q].fd[d] = Closed /\ d # r})
     IN  /\ pipe' = [pipe EXCEPT ![i] = <<>>]
         /\ Set(q, [After(q) EXCEPT !.fd[r] = <<"r", i>>, !.fd[w] = <<"w", i>>,
                                    !.p = (Ins(q).v :> <<r, w>>) @@ @])
  /\ UNCHANGED <<file, off, console, root, line, want, typed, failed>>

\* Without a free slot fork1 panics in the shell; the other programs take -1
\* for a child's pid and go on.
fork(q) ==
  /\ At(q, "fork")
  /\ LET room == {c \in Pid : proc[c].st = "unused"}
         c == Min(room)
     IN  IF room # {}
         THEN /\ proc' = [proc EXCEPT ![q] = After(q),
                   ![c] = [proc[q] EXCEPT !.code = Ins(q).child, !.parent = q,
                                          !.bg = @ \/ Ins(q).bg]]
              /\ UNCHANGED failed
         ELSE /\ Set(q, IF proc[q].image = "sh" THEN [proc[q] EXCEPT !.code = <<Exit>>]
                        ELSE After(q))
              /\ failed' = TRUE
  /\ UNCHANGED <<pipe, file, off, console, root, line, want, typed>>

wait(q) ==
  /\ At(q, "wait")
  /\ LET kids == {c \in Pid : proc[c].st # "unused" /\ proc[c].parent = q}
     IN  \/ kids = {} /\ Set(q, After(q))
         \/ \E c \in kids : /\ proc[c].st = "zombie"
                            /\ proc' = [proc EXCEPT ![q] = After(q), ![c] = Nobody]
  /\ UNCHANGED <<pipe, file, off, console, root, line, want, typed, failed>>

exec(q) ==
  /\ At(q, "exec")
  /\ Set(q, [proc[q] EXCEPT !.code = Main(Ins(q).argv), !.p = [v \in {} |-> 0],
                            !.image = Ins(q).argv[1]])
  /\ UNCHANGED <<pipe, file, off, console, root, line, want, typed, failed>>

\* exit: children go to init, descriptors are closed.
exit(q) ==
  /\ At(q, "exit")
  /\ proc' = [c \in Pid |->
       IF c = q THEN [Nobody EXCEPT !.st = "zombie", !.parent = proc[q].parent]
       ELSE IF proc[c].parent = q THEN [proc[c] EXCEPT !.parent = 1] ELSE proc[c]]
  /\ UNCHANGED <<pipe, file, off, console, root, line, want, typed, failed>>

\* init's loop: it waits for whoever exits, and starts the shell again.
init_wait(c) ==
  /\ proc[c].st = "zombie" /\ proc[c].parent = 1
  /\ proc' = [proc EXCEPT ![c] = IF c = 2 /\ root[1] = "sh" THEN Started(root) ELSE Nobody]
  /\ UNCHANGED <<pipe, file, off, console, root, line, want, typed, failed>>

Becomes(q, code) == [proc[q] EXCEPT !.code = code \o Tail(@)]

\* read: what there is, at most max; end of file once no one can write.
read_pipe(q) ==
  /\ At(q, "read") /\ End(q)[1] = "r"
  /\ LET i == End(q)[2]
         n == Min({Ins(q).max, Len(pipe[i])})
     IN  \/ /\ n > 0
            /\ Set(q, Becomes(q, Got(Ins(q), SubSeq(pipe[i], 1, n))))
            /\ pipe' = [pipe EXCEPT ![i] = SubSeq(@, n + 1, Len(@))]
         \/ /\ n = 0 /\ Ends(<<"w", i>>) = {}
            /\ Set(q, Becomes(q, Eof(Ins(q)))) /\ UNCHANGED pipe
  /\ UNCHANGED <<file, off, console, root, line, want, typed, failed>>

read_file(q) ==
  /\ At(q, "read") /\ End(q)[1] \in DOMAIN file
  /\ LET f == End(q)[1]
         n == Min({Ins(q).max, Len(file[f]) - off[f]})
     IN  /\ off' = [off EXCEPT ![f] = @ + n]
         /\ Set(q, Becomes(q, IF n = 0 THEN Eof(Ins(q))
                           ELSE Got(Ins(q), SubSeq(file[f], off[f] + 1, off[f] + n))))
  /\ UNCHANGED <<pipe, file, console, root, line, want, typed, failed>>

\* write, one item at a time; -1 once no one can read.
Written1(q) ==
  IF Len(Ins(q).items) = 1 THEN After(q)
  ELSE [proc[q] EXCEPT !.code[1].items = Tail(@)]
write_pipe(q) ==
  /\ At(q, "write") /\ End(q)[1] = "w"
  /\ LET i == End(q)[2]
     IN  \/ /\ Ends(<<"r", i>>) = {}
            /\ Set(q, IF Ins(q).must THEN [proc[q] EXCEPT !.code = <<Exit>>] ELSE After(q))
            /\ UNCHANGED pipe
         \/ /\ Ends(<<"r", i>>) # {} /\ Len(pipe[i]) < PIPESIZE
            /\ pipe' = [pipe EXCEPT ![i] = Append(@, Head(Ins(q).items))]
            /\ Set(q, Written1(q))
  /\ UNCHANGED <<file, off, console, root, line, want, typed, failed>>

write(q) ==
  /\ At(q, "write") /\ End(q)[1] # "w"
  /\ LET f == End(q)[1]
     IN  IF f = "console"
         THEN console' = Append(console, Head(Ins(q).items)) /\ UNCHANGED file
         ELSE file' = [file EXCEPT ![f] = Append(@, Head(Ins(q).items))] /\ UNCHANGED console
  /\ Set(q, Written1(q))
  /\ UNCHANGED <<pipe, off, root, line, want, typed, failed>>

Step(q) ==
  \/ getcmd(q) \/ close(q) \/ dup(q) \/ open(q) \/ sys_pipe(q) \/ fork(q) \/ wait(q)
  \/ exec(q) \/ exit(q) \/ init_wait(q) \/ read_pipe(q) \/ read_file(q)
  \/ write_pipe(q) \/ write(q)
Next == \E q \in Pid : Step(q)
Spec == Init /\ [][Next]_vars

\* Some process that can make its next system call makes it.
FairSpec == Spec /\ WF_vars(Next)

-----------------------------------------------------------------------------
(* What a command does, by its tree: D.out is what it writes to its standard *)
(* output, D.files what the files it writes hold, D.rest its input unread.  *)

RECURSIVE Does(_, _)
Does(c, in) ==
  CASE c.type = "EXEC" ->
         [out |-> CASE c.argv = <<>> -> <<>>
                    [] c.argv # <<>> /\ c.argv[1] = "echo" -> Append(Tail(c.argv), "\n")
                    [] c.argv # <<>> /\ c.argv[1] \in {"cat", "xargs"} -> in
                    [] c.argv # <<>> /\ c.argv[1] = "wc" -> <<ToString(Len(in))>>,
          files |-> Files,
          rest |-> IF c.argv # <<>> /\ c.argv[1] = "echo" THEN in ELSE <<>>]
    [] c.type = "REDIR" ->
         IF c.file \notin DOMAIN Files THEN Does(execcmd(<<>>), in)
         ELSE IF c.fd = 0 THEN [Does(c.cmd, Files[c.file]) EXCEPT !.rest = in]
         ELSE LET D == Does(c.cmd, in)
              IN  [D EXCEPT !.out = <<>>, !.files[c.file] = D.out]
    [] c.type = "BACK" -> Does(c.cmd, in)
    [] OTHER ->
         LET L == Does(c.left, in)
             R == Does(c.right, IF c.type = "PIPE" THEN L.out ELSE L.rest)
         IN  [out |-> IF c.type = "PIPE" THEN R.out ELSE L.out \o R.out,
              files |-> [f \in DOMAIN Files |->
                           IF R.files[f] = Files[f] THEN L.files[f] ELSE R.files[f]],
              rest |-> IF c.type = "PIPE" THEN L.rest ELSE R.rest]

Counts(s) == [x \in ToSet(s) |-> Cardinality({i \in DOMAIN s : s[i] = x})]
AtPrompt == root[1] = "sh" /\ typed /\ At(2, "getcmd")
Over == \A q \in Pid \ {1} : proc[q].st = "unused" \/ (q = 2 /\ AtPrompt)

RECURSIVE Concurrent(_)
Concurrent(c) ==
  CASE c.type = "EXEC" -> FALSE
    [] c.type = "REDIR" -> Concurrent(c.cmd)
    [] c.type = "BACK" -> TRUE
    [] OTHER -> Concurrent(c.left) \/ Concurrent(c.right)

Primes == SelectSeq([i \in 1..(LastPrime - 1) |-> i + 1],
                    LAMBDA n : \A d \in 2..(n - 1) : n % d # 0)

-----------------------------------------------------------------------------
\* Parsing a written command gives that command back: & ; | and redirections
\* bind the way the trees say, whatever is nested in what.
ParseExact == ~typed /\ want # Nothing => parsecmd(line) = Parsed(want, <<>>)

\* The prompt comes back only when every foreground process of the line has
\* exited, unless a fork failed half way.  When everything is over, console and
\* files hold what the command means: the pipes were plumbed to the right
\* neighbours, lists ran in order, no item was lost; primes printed the primes,
\* pingpong first ping, then pong.
OutputsExact ==
  ~failed =>
    /\ AtPrompt => \A q \in Pid \ {1, 2} : proc[q].st = "run" => proc[q].bg
    /\ Over => CASE root[1] = "primes" -> console = Primes
                 [] root[1] = "pingpong" -> console = <<"ping", "pong">>
                 [] root[1] = "sh" /\ typed ->
                      LET D == Does(want, <<>>)
                      IN  /\ file = D.files
                          /\ IF Concurrent(want) THEN Counts(console) = Counts(D.out)
                             ELSE console = D.out
                 [] OTHER -> TRUE

\* Every program ends and the prompt comes back: end of file reaches every
\* reader, every child that is waited for exits, also after a failed fork.
PromptReturns == <>[]Over

=============================================================================
