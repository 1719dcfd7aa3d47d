-------------------------- MODULE MCMulticatScript --------------------------
(* Instances of multicat.sh for TLC; provider 12 begins with the 1 of 1. *)
EXTENDS MulticatScript, TLC

NoPrefix == {}
OneTwelve == {<<1, 12>>}
AllVisible == {}
OnlyOne == {1}
Symmetry == Permutations(Pid)
=============================================================================
