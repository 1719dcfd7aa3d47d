------------------------------- MODULE Validate -------------------------------
(***************************************************************************)
(* multicat_validate.c: reads the stamps of a directory as a player at the *)
(* same distance would read the chunks, and prints 1 when a chunk is there *)
(* in time and 0 when the next one is further away than is tolerated.      *)
(***************************************************************************)
EXTENDS Player

CONSTANT Tolerance  \* i_tolerance

ASSUME ValidateAssumption == Tolerance \in Nat

VARIABLES
    check,      \* "off", "read", "check", "sleep"; "refused", "ended"
    vfd,        \* i_dir_file and where its stamps are read
    vstc,       \* i_stc
    vdelay,     \* i_delay
    stamp,      \* p_aux: what the last fread left there
    b_status

valVars == <<check, vfd, vstc, vdelay, stamp, b_status>>

(* Not read yet, p_aux may hold anything.                                  *)
Uninitialised == -1

ValInit ==
    /\ check = "off" /\ vfd = Place(0, 0)
    /\ vstc = 0 /\ vdelay = 0
    /\ stamp = Uninitialised /\ b_status = FALSE

Validate(i_pos) ==
    LET wanted == IF i_pos <= 0 THEN now + i_pos ELSE i_pos IN
    /\ check = "off" /\ mode = "dir"
    /\ vfd' = DirPlace(wanted)
    /\ check' = IF vfd'.ts = NotFound THEN "refused" ELSE "read"
    /\ vdelay' = now - wanted
    /\ UNCHANGED <<vstc, stamp, b_status>>

(* At the end of a file the next is opened, but no stamp read from it: the *)
(* one handled is what p_aux has.                                          *)
Stamp ==
    /\ check = "read"
    /\ IF vfd.aux < Len(disk[vfd.file].aux)
       THEN /\ stamp' = disk[vfd.file].aux[vfd.aux + 1]
            /\ vfd' = [vfd EXCEPT !.aux = @ + 1]
            /\ vstc' = stamp' /\ check' = "check"
       ELSE IF Here(vfd.file + 1)
       THEN /\ vfd' = Place(vfd.file + 1, 0)
            /\ vstc' \in IF stamp = Uninitialised THEN {0, now, now + Rotate} ELSE {stamp}
            /\ check' = "check"
            /\ UNCHANGED stamp
       ELSE check' = "ended" /\ UNCHANGED <<vfd, vstc, stamp>>
    /\ UNCHANGED <<vdelay, b_status>>

(***************************************************************************)
(* HandleSTC: sleeps until the stamp is near enough, then until it is due. *)
(***************************************************************************)
Ahead == vstc - (now - vdelay)

\* Faulty variant: a late stamp is a missing one.
Near_Early == Ahead \in 0..Tolerance

Near == Ahead <= Tolerance

HandleSTC ==
    /\ check = "check"
    /\ b_status' = Near
    /\ check' = IF Near THEN "sleep" ELSE "check"
    /\ Near \/ b_status
    /\ UNCHANGED <<vfd, vstc, vdelay, stamp>>

Slept ==
    /\ check = "sleep" /\ Ahead <= 0
    /\ check' = "read"
    /\ UNCHANGED <<vfd, vstc, vdelay, stamp, b_status>>

ValidateStep == Stamp \/ HandleSTC \/ Slept
ValidateStart == \E i_pos \in Positions : Validate(i_pos)
ValBusy == \/ check = "read"
           \/ check = "check" /\ (Near \/ b_status)
           \/ check = "sleep" /\ Ahead <= 0
===============================================================================
