-------------------------------- MODULE MCVm --------------------------------
(* Instances of Vm for TLC.  The view forgets which page is where: states     *)
(* that differ in nothing else behave alike.  It keeps whether the pages are  *)
(* conserved, so that no state in which they are not is taken for another.    *)
EXTENDS Vm
CONSTANT p1
Asked == {-3, 1, 3}
Binaries == {<<1, 3>>, <<5>>}
Shape(t) == <<DOMAIN t.dirs, [v \in DOMAIN t.maps |-> t.maps[v].user]>>
View ==
  <<Cardinality(free), PagesConserved, panicked, sbrk,
    [p \in Proc |-> <<proc[p].live, proc[p].sz, Shape(proc[p].pt), Shape(th[p].pt),
                      [th[p] EXCEPT !.pt = NoPt, !.args = Cardinality(@)]>>]>>
=============================================================================
