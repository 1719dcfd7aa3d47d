---------------------------- MODULE MCEitClients ----------------------------
(* Instances of the programs around the shared memory for TLC. *)
EXTENDS EitClients, TLC

CONSTANTS sup, m1, v1, s1, s2

NoFaults == {}
Signals == {"unlinked", "interrupted"}
None == {}
Never == {FALSE}
Sometimes == BOOLEAN
TwoEditions == 0..2
OneEdition == 0..1
Viewing == v1 :> s1
StreamAndViewer == m1 :> s1 @@ v1 :> s2
OneStream == m1 :> s1
=============================================================================
