------------------------------ MODULE MCRecording ------------------------------
(* Constants of Recording for TLC. *)
EXTENDS Recording

Case(m, r, f, t) == [mode |-> m, reader |-> r, faults |-> f, until |-> t, slow |-> FALSE]
Several == {
    [Case("dir", "player", {}, 7) EXCEPT !.slow = TRUE], Case("dir", "player", {}, 10),
    Case("dir", "player", {"killed"}, 7),
    Case("dir", "validate", {}, 9), Case("dir", "validate", {"killed"}, 8),
    [Case("append", "player", {"stop"}, 6) EXCEPT !.slow = TRUE],
    Case("append", "player", {"full"}, 6), Case("truncate", "player", {"stop"}, 6),
    Case("dir", "none", {"killed", "full"}, 7), Case("dir", "none", {"power"}, 6),
    Case("append", "none", {"full", "power"}, 5), Case("append", "none", {"stop", "killed"}, 6),
    Case("dir", "none", {"stop"}, 9)}
Seeks == {-5, 0, 2}
================================================================================
