------------------------------- MODULE MCRtpLink -------------------------------
(* Constants of RtpLink for TLC. *)
EXTENDS RtpLink

Shares == {<<1, 2>>, <<0, 1>>}
Options(x, url, tcp) == [x |-> x, url |-> url, tcp |-> tcp]
Peers == {Options(TRUE, FALSE, FALSE)}
Service == {Options(TRUE, TRUE, TRUE)}
Several == Peers \union Service \union {Options(FALSE, FALSE, FALSE)}
All == [loss |-> 2, dup |-> 1, stray |-> 1, restart |-> 1]
None == [loss |-> 0, dup |-> 0, stray |-> 0, restart |-> 0]
================================================================================
