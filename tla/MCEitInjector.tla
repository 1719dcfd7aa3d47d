--------------------------- MODULE MCEitInjector ---------------------------
(* Instances of multicat-eit playing a file, for TLC: three packets to a    *)
(* chunk and eight to packetTab stand for the program's seven and twenty.   *)
EXTENDS EitInjector

Case(loops, sizes, packets) ==
  {[loop |-> l, lengths |-> sizes, kinds |-> packets] : l \in loops}

Growing == Case({FALSE}, {100, 300, 500}, {"av", "eit", "bad"})
Single == Case({TRUE, FALSE}, {100, 183}, {"av", "eit", "bad"})
Files == Growing \union Single
Long == Case({FALSE}, {300}, {"av", "eit"})
LongAgain == Case({TRUE}, {300}, {"av", "eit"})
Edge == Case({TRUE}, {185}, {"av", "eit"})
=============================================================================
