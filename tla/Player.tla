-------------------------------- MODULE Player --------------------------------
(***************************************************************************)
(* multicat playing a recording that may be still being made (multicat.c): *)
(* dir_Read and dir_Delay follow a directory at a fixed distance, and      *)
(* file_Read and file_Delay play one file from a date on.                  *)
(***************************************************************************)
EXTENDS Recorder

CONSTANTS
    Positions,      \* i_seek, without the directory's "minus" the distance in time
    MaxLateness     \* MAX_LATENESS

ASSUME PlayerAssumption == Positions \subseteq Int /\ MaxLateness \in Nat

VARIABLES
    play,       \* "off", "test", "read", "delay", "sleep" (in it), "send" (after it);
                \* "refused" at the start, "ended"
    fd,         \* [file, ts, aux]: i_input_dir_file, and where the two files are read
    chunk,      \* p_read_buffer: the chunk read last
    stc,        \* i_stc
    first,      \* i_first_stc
    delay,      \* i_input_dir_delay
    base,       \* [stc, wall]: i_file_first_stc and i_file_first_wall, or Unset
    wake,       \* when the delay of the chunk is over: at once, or after pf_Sleep
    b_die,
    told,       \* SIGTERM was received
    sent        \* history: the chunks sent, [chunk, due, at]

playVars == <<play, fd, chunk, stc, first, delay, base, wake, b_die, told, sent>>

Unset == [stc |-> 0, wall |-> 0]

PlayInit ==
    /\ play = "off" /\ fd = [file |-> 0, ts |-> 0, aux |-> 0]
    /\ chunk = 0 /\ stc = 0 /\ first = 0 /\ delay = 0 /\ base = Unset /\ wake = 0
    /\ b_die = FALSE /\ told = FALSE /\ sent = <<>>

(***************************************************************************)
(* Where to start in a directory: in the file with the date, or the next.  *)
(***************************************************************************)
LookupDirAuxFile(n, wanted) ==
    IF Here(n) THEN LookupAuxFile(disk[n].aux, wanted, TRUE) ELSE NotFound

Place(n, k) == [file |-> n, ts |-> k, aux |-> k]

DirPlace(wanted) ==
    LET n == GetDirFile(wanted, now)
        k == LookupDirAuxFile(n, wanted)
    IN  IF k # NotFound THEN Place(n, k) ELSE Place(n + 1, LookupDirAuxFile(n + 1, wanted))

StartAt(place, date, late) ==
    /\ play' = IF place.ts = NotFound THEN "refused" ELSE "test"
    /\ fd' = place
    /\ stc' = date /\ first' = date /\ delay' = late
    /\ UNCHANGED <<chunk, base, wake, b_die, told, sent>>

dir_InitRead(i_pos) ==
    LET wanted == IF i_pos <= 0 THEN i_pos + now ELSE i_pos IN
    /\ play = "off" /\ mode = "dir"
    /\ StartAt(IF wanted <= 0 THEN Place(0, NotFound) ELSE DirPlace(wanted), wanted, now - wanted)

file_InitRead(i_pos) ==
    /\ play = "off" /\ mode # "dir" /\ Here(0)
    /\ StartAt(Place(0, IF i_pos = 0 THEN 0 ELSE LookupAuxFile(disk[0].aux, i_pos, FALSE)), 0, 0)

(* The test of the main loop.                                              *)
Loop ==
    /\ play = "test"
    /\ play' = IF b_die THEN "ended" ELSE "read"
    /\ UNCHANGED <<fd, chunk, stc, first, delay, base, wake, b_die, told, sent>>

(***************************************************************************)
(* file_Read: a chunk and its stamp.  Where there is no chunk, or no stamp *)
(* for it yet, a file ends; dir_Read goes on with the next one, and        *)
(* OpenFile exits when there is none.  The chunk is looked for and then    *)
(* the stamp: one step here, for while both only grow what was found is    *)
(* still to be found.                                                      *)
(***************************************************************************)
Opened == disk[fd.file]
HasChunk == fd.ts < Len(Opened.ts) \/ (fd.ts = Len(Opened.ts) /\ Opened.tsTorn)
HasStamp == fd.aux < Len(Opened.aux)

ReadChunk ==
    /\ play = "read" /\ HasChunk /\ HasStamp
    /\ chunk' = IF fd.ts < Len(Opened.ts) THEN Opened.ts[fd.ts + 1] ELSE Garbled
    /\ stc' = Opened.aux[fd.aux + 1]
    /\ first' = IF first = 0 THEN stc' ELSE first
    /\ fd' = [fd EXCEPT !.ts = @ + 1, !.aux = @ + 1]
    /\ play' = "delay"
    /\ UNCHANGED <<delay, base, wake, b_die, told, sent>>

FileEnds ==
    /\ play = "read" /\ mode # "dir" /\ ~(HasChunk /\ HasStamp)
    /\ b_die' = TRUE
    /\ play' = "test"
    /\ UNCHANGED <<fd, chunk, stc, first, delay, base, wake, told, sent>>

\* Faulty variant: the new file is read from where the old one ended.
NextFile_KeepsPlace ==
    /\ play = "read" /\ mode = "dir" /\ ~(HasChunk /\ HasStamp)
    /\ b_die' = FALSE
    /\ play' = IF Here(fd.file + 1) THEN "read" ELSE "ended"
    /\ fd' = [fd EXCEPT !.file = @ + 1]
    /\ UNCHANGED <<chunk, stc, first, delay, base, wake, told, sent>>

NextFile ==
    /\ play = "read" /\ mode = "dir" /\ ~(HasChunk /\ HasStamp)
    /\ b_die' = FALSE
    /\ IF Here(fd.file + 1)
       THEN fd' = Place(fd.file + 1, 0) /\ UNCHANGED play
       ELSE play' = "ended" /\ UNCHANGED fd
    /\ UNCHANGED <<chunk, stc, first, delay, base, wake, told, sent>>

(***************************************************************************)
(* dir_Delay and file_Delay look once, when the chunk has been read, how   *)
(* far it is from its date.  One that is early is slept for and then sent, *)
(* however long the sleep was; a signal does not end it.  What is too late *)
(* the first drops; the second sends it, and counts from it.               *)
(***************************************************************************)
Early == IF mode = "dir" THEN stc - (now - delay)
         ELSE IF base = Unset THEN 0
         ELSE (stc - base.stc) - (now - base.wall)
TooLate == Early < -MaxLateness

Sleep ==
    /\ play = "delay" /\ Early > 0
    /\ wake' = now + Early
    /\ play' = "sleep"
    /\ UNCHANGED <<fd, chunk, stc, first, delay, base, b_die, told, sent>>

Awake ==
    /\ play = "sleep" /\ wake <= now
    /\ play' = "send"
    /\ UNCHANGED <<fd, chunk, stc, first, delay, base, wake, b_die, told, sent>>

NoSleep ==
    /\ play = "delay" /\ Early <= 0
    /\ mode = "dir" => ~TooLate
    /\ base' = IF mode # "dir" /\ (base = Unset \/ TooLate) THEN [stc |-> stc, wall |-> now] ELSE base
    /\ wake' = now
    /\ play' = "send"
    /\ UNCHANGED <<fd, chunk, stc, first, delay, b_die, told, sent>>

Drop ==
    /\ play = "delay" /\ mode = "dir" /\ TooLate
    /\ play' = "test"
    /\ UNCHANGED <<fd, chunk, stc, first, delay, base, wake, b_die, told, sent>>

(* After the delay: add_eit, which waits for the memory of the events, and *)
(* the write.                                                              *)
Send ==
    /\ play = "send"
    /\ sent' = Append(sent, [chunk |-> chunk, due |-> wake, at |-> now])
    /\ play' = "test"
    /\ UNCHANGED <<fd, chunk, stc, first, delay, base, wake, b_die, told>>

Playing == play \in {"test", "read", "delay", "sleep", "send"}

Signal ==
    /\ Playing /\ ~told
    /\ told' = TRUE /\ b_die' = TRUE
    /\ UNCHANGED <<play, fd, chunk, stc, first, delay, base, wake, sent>>

PlayerStep == Loop \/ ReadChunk \/ FileEnds \/ NextFile \/ Sleep \/ Awake \/ NoSleep \/ Drop \/ Send
PlayerStart == \E i_pos \in Positions : dir_InitRead(i_pos) \/ file_InitRead(i_pos)
Busy == play \in {"test", "read", "delay", "send"} \/ (play = "sleep" /\ wake <= now)
===============================================================================
