------------------------------ MODULE Recording ------------------------------
(***************************************************************************)
(* A recording being made, with one program that reads it: a player or the *)
(* validator.  But for a slow reader, time passes when nobody has work to  *)
(* do; a running recorder receives a chunk at least every Gap.             *)
(***************************************************************************)
EXTENDS Validate

CONSTANTS
    Gap,        \* the longest time between two chunks
    Wanted      \* files that multicat_expire.sh keeps

ASSUME RecordingAssumption ==
    Gap \in Nat \ {0} /\ Wanted \in Nat

vars == <<now, recVars, playVars, valVars>>

Init ==
    /\ now = 1
    /\ RecInit /\ PlayInit /\ ValInit

Tick ==
    /\ now < given.until
    /\ rec # "stamp" /\ (given.slow \/ ~(Busy \/ ValBusy))
    /\ rec = "idle" => (Chunk > 0 => now < dates[Chunk] + Gap)
    /\ now' = now + 1
    /\ UNCHANGED <<recVars, playVars, valVars>>

Record == (RecorderStep \/ RecorderFault) /\ UNCHANGED <<playVars, valVars>>
Clean == mode = "dir" /\ Expire(Wanted) /\ UNCHANGED <<playVars, valVars>>
Play ==
    /\ \/ given.reader = "player" /\ PlayerStart
       \/ PlayerStep
       \/ Signal
    /\ UNCHANGED <<now, recVars, valVars>>
Watch ==
    /\ \/ given.reader = "validate" /\ ValidateStart
       \/ ValidateStep
    /\ UNCHANGED <<now, recVars, playVars>>

Next == Tick \/ Record \/ Clean \/ Play \/ Watch

Spec == Init /\ [][Next]_vars

-----------------------------------------------------------------------------
(* Chunk and stamp at the same place of the two files belong together,     *)
(* whatever happened to earlier recorders; those in the buffer follow.     *)
(* While the recorder runs no chunk lacks its stamp.  The stamps of a file *)
(* grow, and in a directory they are those of its period: what             *)
(* LookupAuxFile and GetDirFile rely on.                                   *)
Stamps(n) == disk[n].aux \o (IF n = recFile THEN held ELSE <<>>)
Paired ==
    /\ \A n \in DOMAIN disk :
          /\ \A k \in 1..Least(Len(disk[n].ts), Len(Stamps(n))) :
                disk[n].ts[k] # Garbled /\ Stamps(n)[k] = dates[disk[n].ts[k]]
          /\ \A j, k \in DOMAIN disk[n].aux : j < k => disk[n].aux[j] < disk[n].aux[k]
          /\ mode = "dir" => \A k \in DOMAIN disk[n].aux : disk[n].aux[k] \div Rotate = n
    /\ recFile # NoFile =>
          Len(disk[recFile].ts) = Len(Stamps(recFile)) + (IF rec = "stamp" THEN 1 ELSE 0)

(* LookupAuxFile finds the first chunk that is not before the date, except *)
(* for a file's first one; and what lasts prints leads offsets to the last *)
(* chunk.                                                                  *)
LookupFinds ==
    \A n \in DOMAIN disk : LET aux == disk[n].aux IN aux # <<>> =>
        /\ \A date \in 1..now :
              LookupAuxFile(aux, date, TRUE)
                  = Max({1, Cardinality({k \in DOMAIN aux : aux[k] < date})})
        /\ Len(aux) > 1 => offsets(aux, lasts(aux)) = Len(aux) - 1

(* No program takes from a file what has its stamp on disk; but a power    *)
(* cut may, and a recorder that is to overwrite the file does.  Cleaning   *)
(* takes files only while more than Wanted are left, and never one that    *)
(* was changed later than one it keeps.                                    *)
Safe(f) == First(f.ts, Least(Len(f.ts), Len(f.aux)))
StampedStays ==
    mode # "truncate" /\ faults' = faults =>
        \A n \in DOMAIN disk : Here(n) => IsPrefix(Safe(disk[n]), Safe(disk'[n]))
NewestStay ==
    Names' # Names /\ Names' \subseteq Names =>
        /\ Cardinality(Names') = Wanted
        /\ \A n \in Names \ Names', k \in Names' : disk[n].mtime <= disk[k].mtime
Kept == [][StampedStays]_vars /\ [][NewestStay]_vars

(* No chunk leaves before its delay is over, and but for a slow program    *)
(* each leaves then.  The delay is over when the player is due, or not     *)
(* much later: by the directory's dates, or by those of the other chunks   *)
(* of a file; how long a slow program sleeps for one chunk and how long it *)
(* takes to write it changes that for none.  A player far enough behind an *)
(* undisturbed recorder, but not behind all that is wanted, sends every    *)
(* chunk and does not end by itself, if each file of the directory has     *)
(* room for two.                                                           *)
Following ==
    /\ ~given.slow /\ dates # <<>> /\ mode = "dir" /\ faults = {}
    /\ first >= dates[1] /\ delay >= FileFlush + 2 * Gap
    /\ 2 * Gap <= Rotate /\ Wanted >= 2 /\ delay <= Wanted * Rotate
Slack == IF given.slow THEN MaxLateness ELSE 0
Follows ==
    /\ \A k \in DOMAIN sent : LET s == sent[k] date == dates[s.chunk] IN
          /\ s.due <= s.at /\ (~given.slow => s.at = s.due)
          /\ s.chunk # Garbled =>
                IF mode = "dir" THEN s.due - delay - date \in 0..MaxLateness
                ELSE \A j \in 1..k-1 : sent[j].chunk # Garbled =>
                        s.due - sent[j].due + Slack >= date - dates[sent[j].chunk]
    /\ Following =>
          /\ play = "ended" => told
          /\ \A k \in 1..Len(sent) - 1 : sent[k + 1].chunk = sent[k].chunk + 1

(* While the validator says 1 the chunk it waits for is near; while it     *)
(* says 0 the recording has none in the time tolerated.                    *)
Truthful ==
    check \in {"check", "sleep"} /\ ~ValBusy /\ stamp # Uninitialised =>
        LET at == now - vdelay IN
        IF b_status
        THEN vstc - at \in 1..Tolerance
        ELSE \A k \in DOMAIN dates : dates[k] > stamp => dates[k] - at > Tolerance
=============================================================================
