------------------------------- MODULE AuxFile -------------------------------
(***************************************************************************)
(* A recording (util.c) is a file of chunks and an auxiliary file with the *)
(* date of each chunk.  As a record: ts, the numbers of its whole chunks;  *)
(* aux, its whole stamps; tsTorn and auxTorn, part of one more follows;    *)
(* linked, it has its name in the directory; mtime, the last change of its *)
(* file of chunks.                                                         *)
(***************************************************************************)
EXTENDS Integers, SequencesExt

CONSTANT Rotate     \* i_rotate_size

ASSUME RotateAssumption == Rotate \in Nat \ {0}

NoChunks == [ts |-> <<>>, aux |-> <<>>, tsTorn |-> FALSE, auxTorn |-> FALSE,
             linked |-> TRUE, mtime |-> 0]

Least(a, b) == IF a <= b THEN a ELSE b
First(s, n) == SubSeq(s, 1, n)

(***************************************************************************)
(* CheckFileSizes: both files are cut to the whole chunks that have a      *)
(* whole stamp.                                                            *)
(***************************************************************************)

\* Faulty variant: only whole files are compared.
CheckFileSizes_KeepsFile(f) ==
    [f EXCEPT !.aux = First(f.aux, Least(Len(f.ts), Len(f.aux))),
              !.tsTorn = FALSE, !.auxTorn = FALSE]

CheckFileSizes(f) ==
    LET n == Least(Len(f.ts), Len(f.aux)) IN
    [f EXCEPT !.ts = First(f.ts, n), !.aux = First(f.aux, n),
              !.tsTorn = FALSE, !.auxTorn = FALSE]

(***************************************************************************)
(* GetDirFile: the file of a directory that has this date.                 *)
(***************************************************************************)
GetDirFile(i_wanted, date) ==
    LET wanted == IF i_wanted <= 0 THEN i_wanted + date ELSE i_wanted
    IN  IF wanted <= 0 THEN 0 ELSE wanted \div Rotate

(***************************************************************************)
(* LookupAuxFile: how many chunks come before the wanted date.  A negative *)
(* one counts from the last stamp, another from the first unless it is     *)
(* absolute.  The search never looks at the first stamp: the result is 0   *)
(* for no date.  NotFound is an error.                                     *)
(***************************************************************************)
NotFound == -1

\* Faulty variant: a stamp that is the wanted date is passed.
Bisect_Beyond(aux, wanted) ==
    LET search[i \in (0..Len(aux)) \X (0..Len(aux))] ==
            LET mid == (i[1] + i[2]) \div 2 IN
            IF mid <= i[1] THEN i[2]
            ELSE search[IF aux[mid + 1] > wanted THEN <<i[1], mid>> ELSE <<mid, i[2]>>]
    IN  search[<<0, Len(aux)>>]

\* i is the two offsets; the second is never the smaller one.
Bisect(aux, wanted) ==
    LET search[i \in (0..Len(aux)) \X (0..Len(aux))] ==
            LET mid == (i[1] + i[2]) \div 2 IN
            IF mid <= i[1] THEN i[2]
            ELSE search[IF aux[mid + 1] >= wanted THEN <<i[1], mid>> ELSE <<mid, i[2]>>]
    IN  search[<<0, Len(aux)>>]

LookupAuxFile(aux, i_wanted, b_absolute) ==
    IF aux = <<>> THEN NotFound
    ELSE LET wanted == i_wanted + (CASE i_wanted < 0 -> Last(aux)
                                     [] i_wanted >= 0 /\ ~b_absolute -> Head(aux)
                                     [] OTHER -> 0)
         IN  IF wanted < 0 THEN NotFound ELSE Bisect(aux, wanted)

(***************************************************************************)
(* The tools offsets and lasts, on an auxiliary file that is not empty.    *)
(***************************************************************************)

offsets(aux, i_wanted) == IF i_wanted = 0 THEN 0 ELSE LookupAuxFile(aux, i_wanted, FALSE)
lasts(aux) == Last(aux) - Head(aux)
===============================================================================
