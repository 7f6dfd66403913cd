------------------------------- MODULE MCUser -------------------------------
(* Instances of User for TLC: command lines of every shape. *)
EXTENDS User
EchoA == execcmd(<<"echo", "a">>)
EchoB == execcmd(<<"echo", "b">>)
Cat == execcmd(<<"cat">>)
Wc == execcmd(<<"wc">>)
Xargs == execcmd(<<"xargs", "echo">>)
From(c, f) == redircmd(c, [tok |-> "<", file |-> f])
To(c, f) == redircmd(c, [tok |-> ">", file |-> f])
Typed ==
  {listcmd(EchoA, EchoB),
   To(pipecmd(listcmd(EchoA, EchoB), Cat), "f"),
   pipecmd(EchoA, pipecmd(Cat, To(Wc, "f"))),
   listcmd(backcmd(EchoA), pipecmd(EchoB, Wc)),
   pipecmd(From(Cat, "in"), listcmd(Wc, EchoB)),
   backcmd(pipecmd(EchoA, EchoB)),
   pipecmd(listcmd(backcmd(EchoA), EchoB), Cat),
   backcmd(listcmd(EchoA, To(pipecmd(EchoB, Cat), "f"))),
   listcmd(pipecmd(EchoA, Cat), listcmd(EchoB, Nothing)),
   From(To(To(Cat, "f"), "g"), "in"),
   From(Cat, "none"),
   From(Xargs, "in")}
Wrong == {<<"echo", "a", "|", ")">>, <<"echo", "a", "&", "echo", "b">>, <<"echo", "a", ">">>,
          <<"(", "echo", "a">>, <<"echo", "a", "b", "c">>}
Stored == [f \in {"in", "f", "g"} |-> IF f = "in" THEN <<"x", "\n", "y", "\n">> ELSE <<>>]
Started1 == {<<"sh">>, <<"primes">>, <<"pingpong">>}
=============================================================================
