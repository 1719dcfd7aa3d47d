--------------------------- MODULE MCSupervisor ---------------------------
(* Instances of the supervisor for TLC. *)
EXTENDS Supervisor, TLC

NoPrefix == {}
AllVisible == {}
Symmetry == Permutations(Pid) \cup Permutations(Shell)

WithFaults(p, k, f) == [playable |-> p, kinds |-> k, faults |-> f]
Sound == {WithFaults({1, 2}, {"whole"}, {})}
BadRows == {WithFaults({1, 2}, {"whole", "parsing"}, {})}
ShortRows == {WithFaults({1, 2}, {"whole", "short"}, {})}
LostDatabase == {WithFaults({1, 2}, {"whole"}, {"database"})}
Streams == {WithFaults({1, 2}, {"whole"}, {"multicat", "killed"}),
            WithFaults({1}, {"whole", "parsing"}, {"slow", "database"})}
=============================================================================
