----------------------------- MODULE EitGenerate -----------------------------
(***************************************************************************)
(* generate_eit of eit.c: the EIT section that stands for section 0 or 1   *)
(* of an entry.  The present event is dated now unless the entry has a     *)
(* date, and the following one begins when the present one ends.           *)
(***************************************************************************)
EXTENDS EitSection

CONSTANTS
    ShownSize,       \* the texts are cut at 20
    event_id,        \* 30000, of the present event
    DefaultDuration  \* 6300

ASSUME GenerateAssumption == {ShownSize, event_id, DefaultDuration} \subseteq Nat \ {0}

Cut(length) == Lesser(length, ShownSize)

(* An array up to its first empty value.                                   *)
UpTo(s, empty) == SelectInSeq(s, LAMBDA x : x = empty)
Used(s, empty) == IF UpTo(s, empty) = 0 THEN s ELSE SubSeq(s, 1, UpTo(s, empty) - 1)

(* The descriptors; numbers are cut to their fields.                       *)
build_desc4d(s) == Cut(s.short)
build_desc4e(s) == Cut(s.ext)
\* The audio description and the subtitles are in section 0 only.
build_desc50(s, section) == IF section = 0 THEN s.component ELSE SubSeq(s.component, 1, 1)
build_desc53(s) == [k \in DOMAIN Used(s.ca, 0) |-> s.ca[k] % 65536]
build_desc54(s) ==
    LET used == Used(s.content, Content(0))
    IN  [k \in DOMAIN used |-> [level_1 |-> used[k].level_1 % 16, level_2 |-> used[k].level_2 % 16,
                                user |-> used[k].user % 256]]
build_desc55(s) == s.rating
build_desc61(s) == s.leak % 64

Duration(s) == IF s.duration # 0 THEN s.duration ELSE DefaultDuration
\* Faulty variant: each event has its own date.
Start_Own(s, section, clock) == IF s.starttime # 0 THEN s.starttime ELSE clock.now

Start(s, section, clock) ==
    CASE section = 1 -> clock.ts_0 + clock.duration_0
      [] section # 1 /\ s.starttime # 0 -> s.starttime
      [] OTHER -> clock.now

generate_eit(s, section, clock) ==
    [event_id |-> event_id + section,
     starttime |-> Start(s, section, clock), duration |-> Duration(s),
     short |-> build_desc4d(s), ext |-> build_desc4e(s), components |-> build_desc50(s, section),
     ca |-> build_desc53(s), contents |-> build_desc54(s),
     rating |-> build_desc55(s), leak |-> build_desc61(s)]

(* ts_0 and duration_0, which section 0 sets for section 1.                *)
Times_0(s, section, clock) ==
    IF section = 0 THEN [clock EXCEPT !.ts_0 = Start(s, 0, clock), !.duration_0 = Duration(s)] ELSE clock
===============================================================================
