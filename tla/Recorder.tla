------------------------------- MODULE Recorder -------------------------------
(***************************************************************************)
(* multicat recording a stream (multicat.c): file_Write puts a chunk in    *)
(* the file at once, and its stamp in the buffer of the auxiliary file,    *)
(* which is flushed every now and then.  In a directory a new pair of      *)
(* files is begun every Rotate.  A recorder that is killed, or stopped by  *)
(* a full disk or a power cut, leaves the files at different lengths; the  *)
(* next one repairs those it goes on with.                                 *)
(***************************************************************************)
EXTENDS AuxFile

CONSTANTS
    Cases,      \* [mode, reader, slow, faults, until]: "dir" for a directory, "append" or
                \* "truncate" for a file; who reads it, and if it may be late; and two
                \* bounds, the FaultKinds that happen, each of them once, and the date
                \* of the last step
    FileFlush   \* FILE_FLUSH

FaultKinds == {"stop", "killed", "full", "power"}

ASSUME RecorderAssumption ==
    /\ FileFlush \in Nat
    /\ \A c \in Cases : c.mode \in {"dir", "append", "truncate"} /\ c.faults \subseteq FaultKinds /\ c.until \in Nat

VARIABLES
    now,        \* real_Date()
    given,      \* which of the cases it is
    disk,       \* the files by their number; a recording to a file is number 0
    dates,      \* history: the date of each chunk received
    rec,        \* "down", "idle", or "stamp" between the two writes of a chunk
    recFile,    \* the number of the open file, NoFile if there is none
    held,       \* the stamps in the buffer of p_output_aux
    nextFlush,  \* i_file_next_flush
    faults      \* the faults that have happened

recVars == <<given, disk, dates, rec, recFile, held, nextFlush, faults>>

mode == given.mode
NoFile == -1
Here(n) == n \in DOMAIN disk /\ disk[n].linked
Chunk == Len(dates)

RecInit ==
    /\ given \in Cases
    /\ disk = <<>>
    /\ dates = <<>>
    /\ rec = "down" /\ recFile = NoFile
    /\ held = <<>> /\ nextFlush = 0
    /\ faults = {}

(* The file number n as it is once it is open for writing.                 *)
OpenForWriting(n) ==
    IF Here(n) /\ mode # "truncate" THEN CheckFileSizes(disk[n]) ELSE NoChunks

(* The file number n becomes f.  What only changes the stamps leaves the   *)
(* date of the chunks.                                                     *)
ChangedAt(d, n, f) ==
    IF n \in DOMAIN d /\ d[n].ts = f.ts /\ d[n].tsTorn = f.tsTorn THEN d[n].mtime ELSE now
With(d, n, f) == [k \in DOMAIN d \union {n} |->
                     IF k = n THEN [f EXCEPT !.mtime = ChangedAt(d, n, f)] ELSE d[k]]

(* What the file has once the buffer is written.                           *)
Flushed(f, stamps) == [f EXCEPT !.aux = @ \o stamps]

(* file_InitWrite opens the file, dir_InitWrite nothing.                   *)
RecStart ==
    /\ rec = "down"
    /\ rec' = "idle"
    /\ IF mode = "dir"
       THEN UNCHANGED <<disk, recFile>>
       ELSE disk' = With(disk, 0, OpenForWriting(0)) /\ recFile' = 0
    /\ nextFlush' = 0 /\ held' = <<>>
    /\ UNCHANGED <<now, given, dates, faults>>

(***************************************************************************)
(* dir_Write and the first half of file_Write: a chunk is received, the    *)
(* file is changed if it is time to, and the chunk written.                *)
(***************************************************************************)

\* Faulty variant: the files of the directory are overwritten.
Target_Truncates(n) == IF n = recFile THEN disk[n] ELSE NoChunks

Target(n) == IF n = recFile THEN disk[n] ELSE OpenForWriting(n)
Closed(n) == IF recFile \in {n, NoFile} THEN disk
             ELSE With(disk, recFile, Flushed(disk[recFile], held))

(* What follows part of a chunk is garbled.                                *)
Garbled == 0
NewChunk == Chunk > 0 => dates[Chunk] < now

NumberNow == IF mode = "dir" THEN GetDirFile(now, now) ELSE recFile

WriteChunk ==
    /\ rec = "idle"
    /\ NewChunk
    /\ dates' = Append(dates, now)
    /\ LET n == NumberNow
           f == Target(n)
           c == IF f.tsTorn THEN Garbled ELSE Chunk + 1
       IN  /\ disk' = With(Closed(n), n, [f EXCEPT !.ts = Append(@, c)])
           /\ recFile' = n
           /\ held' = IF n = recFile THEN held ELSE <<>>
    /\ rec' = "stamp"
    /\ UNCHANGED <<now, given, nextFlush, faults>>

(* The second half: the stamp.                                             *)
WriteStamp ==
    /\ rec = "stamp"
    /\ LET stamps == Append(held, dates[Chunk])
           flush == nextFlush # 0 /\ nextFlush <= dates[Chunk]
       IN  /\ held' = IF flush THEN <<>> ELSE stamps
           /\ disk' = IF flush THEN With(disk, recFile, Flushed(disk[recFile], stamps)) ELSE disk
           /\ nextFlush' = IF flush \/ nextFlush = 0 THEN dates[Chunk] + FileFlush ELSE nextFlush
    /\ rec' = "idle"
    /\ UNCHANGED <<now, given, dates, recFile, faults>>

Happens(f) == f \in given.faults \ faults /\ faults' = faults \union {f}
Down ==
    /\ rec' = "down" /\ recFile' = NoFile
    /\ held' = <<>> /\ nextFlush' = 0
    /\ UNCHANGED <<now, given>>

(* A signal: the loop ends, and the files are closed.                      *)
RecStop ==
    /\ rec = "idle"
    /\ disk' = IF recFile = NoFile THEN disk
               ELSE With(disk, recFile, Flushed(disk[recFile], held))
    /\ Happens("stop")
    /\ Down
    /\ UNCHANGED dates

(***************************************************************************)
(* Killed, the recorder loses its buffer.  On a full disk the last chunk   *)
(* is written in part, which has a stamp, and of the buffer what there is  *)
(* room for.                                                               *)
(* After a power cut each of the two files may lack any part of its end.   *)
(***************************************************************************)
Killed ==
    /\ rec # "down"
    /\ Happens("killed")
    /\ Down
    /\ UNCHANGED <<disk, dates>>

DiskFull ==
    /\ rec = "idle" /\ recFile # NoFile
    /\ Happens("full")
    /\ \E torn, auxTorn \in BOOLEAN :
          LET stamps == IF torn THEN Append(held, now) ELSE held IN
          /\ torn => NewChunk /\ NumberNow = recFile
          /\ dates' = IF torn THEN Append(dates, now) ELSE dates
          /\ \E n \in 0..Len(stamps) :
                disk' = With(disk, recFile, [Flushed(disk[recFile], First(stamps, n))
                                                EXCEPT !.tsTorn = torn, !.auxTorn = auxTorn])
    /\ Down

PowerCut ==
    /\ rec # "down" /\ recFile # NoFile
    /\ Happens("power")
    /\ LET f == disk[recFile] IN
       \E n \in 0..Len(f.ts), k \in 0..Len(f.aux), torn, auxTorn \in BOOLEAN :
          disk' = With(disk, recFile,
                       [f EXCEPT !.ts = First(@, n), !.aux = First(@, k), !.tsTorn = torn, !.auxTorn = auxTorn])
    /\ Down
    /\ UNCHANGED dates

RecorderStep == RecStart \/ WriteChunk \/ WriteStamp \/ RecStop
RecorderFault == Killed \/ DiskFull \/ PowerCut

(***************************************************************************)
(* multicat_expire.sh: the files changed last are kept.                    *)
(***************************************************************************)
Names == {n \in DOMAIN disk : disk[n].linked}
Older(n) == {k \in Names : disk[k].mtime < disk[n].mtime \/ (disk[k].mtime = disk[n].mtime /\ k > n)}

Expired(wanted) == {n \in Names : Cardinality(Older(n)) < Cardinality(Names) - wanted}
Expire(wanted) ==
    /\ Expired(wanted) # {}
    /\ disk' = [n \in DOMAIN disk |-> [disk[n] EXCEPT !.linked = @ /\ n \notin Expired(wanted)]]
    /\ UNCHANGED <<now, given, dates, rec, recFile, held, nextFlush, faults>>
===============================================================================
