------------------------------ MODULE EitSources ------------------------------
(***************************************************************************)
(* Where an entry of the shared table comes from and what becomes of it.   *)
(* A program starts with its ini file.  The supervisor then turns rows of  *)
(* the database into entries: a row with to_inject = 0 stands for the      *)
(* events of its video, others hold the sections as JSON.  multicat and    *)
(* the viewer make an entry of the ini file when there is none.  What is   *)
(* in the table, the injector puts on air, sections 0 and 1 in turn.       *)
(***************************************************************************)
EXTENDS EitXml, EitJson, EitGenerate, IniEit

CONSTANTS
    Cases,      \* the cases, each with the program (who), the lines of its ini
                \* file, whether dvb_print_si can be started (popen), which rows
                \* the database may hold (rows) and how often it is changed (edits)
    Rows,       \* the sets of rows: [to_inject, section0, section1, sound, doc]
    MaxNow      \* bound: the clock

ASSUME SourcesAssumption ==
    /\ \A c \in Cases :
          /\ c.who \in {"supervisor", "multicat", "viewer"} /\ c.rows \in DOMAIN Rows /\ c.edits \in Nat
          /\ Len(c.lines) \in Nat /\ DOMAIN c.lines = 1..Len(c.lines)
          /\ \A k \in DOMAIN c.lines : LineOK(c.lines[k])
    /\ \A rows \in DOMAIN Rows : \A r \in Rows[rows] :
          r.to_inject \in {0, 1} /\ r.doc \in Document /\ JsonOK(r.section0) /\ JsonOK(r.section1)
    /\ ShownSize <= TextSize
    /\ MaxNow \in Nat \ {0}

VARIABLES
    given,      \* which of the cases it is
    at,         \* "load", "idle", "reading", "convert", "section0", "section1",
                \* "publish", "served", "exited" or "crashed"
    position,   \* lines of the ini file that were read
    ini,        \* what is in memory of it
    row,        \* <<>>, or the row that is or was converted last
    status,     \* the status of the row, or ""
    edits,
    xml,        \* eitXml and its allocated size
    eit_info,   \* the struct EitInfo of the conversion
    entry,      \* the entry of the table: <<>>, or the sections and the row they
                \* are made from, <<>> for the ini file
    clock,      \* now, ts_0 and duration_0
    section,    \* the number of the section to generate
    shown       \* the last section 0 and the last section 1 that were generated

vars == <<given, at, position, ini, row, status, edits, xml, eit_info, entry,
          clock, section, shown>>
starting == <<given, position, ini>>
conversion == <<row, status, edits, xml, eit_info>>
injection == <<clock, section, shown>>

Both(x) == [section0 |-> x, section1 |-> x]

SourcesInit ==
    /\ given \in Cases
    /\ at = "load" /\ position = 0 /\ ini = NewIni
    /\ row = <<>> /\ status = "" /\ edits = 0
    /\ xml = NoText /\ eit_info = Both(Uninitialised)
    /\ entry = <<>>
    /\ clock = [now |-> 1, ts_0 |-> 1, duration_0 |-> 0]
    /\ section = 0 /\ shown = [s \in {0, 1} |-> <<>>]

(***************************************************************************)
(* The ini file.                                                           *)
(***************************************************************************)
LoadLine ==
    /\ at = "load" /\ position < Len(given.lines)
    /\ ini' = extraireParamsValeurs(ini, given.lines[position + 1])
    /\ position' = position + 1
    /\ UNCHANGED <<given, at, entry, conversion, injection>>

(* INI_OPEN_FAILED                                                         *)
CannotOpen ==
    /\ at = "load" /\ position = 0
    /\ at' = "exited"
    /\ UNCHANGED <<starting, entry, conversion, injection>>

(* main up to the shared memory; then the entry is made of the file: the   *)
(* viewer is told to (-l), and multicat finds none.                        *)
Configure ==
    /\ at = "load" /\ position = Len(given.lines)
    /\ \/ /\ Lacks(ini, Configuration(given.who))
          /\ at' = "crashed" /\ UNCHANGED entry
       \/ /\ ~Lacks(ini, Configuration(given.who))
          /\ given.who = "supervisor"
          /\ at' = "idle" /\ UNCHANGED entry
       \/ /\ ~Lacks(ini, Configuration(given.who))
          /\ given.who # "supervisor"
          /\ IF Lacks(ini, Needed) THEN at' = "crashed" /\ UNCHANGED entry
             ELSE at' = "served" /\ entry' = <<[eit |-> load_eit(ini), row |-> <<>>]>>
    /\ UNCHANGED <<starting, conversion, injection>>

(***************************************************************************)
(* convertStringsToEitStruct, for a new row or one with a new timestamp.   *)
(***************************************************************************)
Edit ==
    /\ at = "idle" /\ edits < given.edits
    /\ \E r \in Rows[given.rows] :
          /\ row' = <<r>>
          /\ at' = IF r.to_inject = 0 THEN "reading" ELSE "section0"
    /\ status' = "" /\ edits' = edits + 1
    /\ xml' = NoText /\ eit_info' = Both(Uninitialised)
    /\ UNCHANGED <<starting, entry, injection>>

(* What the supervisor does of a result other than 0.                      *)
Fail(result) ==
    /\ at' = "idle"
    /\ status' = CASE result = -1 -> "DATABASE FAILURE"
                   [] result = -2 -> "PARSING FAILURE"
                   [] result = -3 -> "EIT FAILURE"
    /\ UNCHANGED <<row, edits, xml, eit_info>>

popen ==
    /\ at = "reading" /\ xml = NoText /\ ~given.popen
    /\ Fail(-3)

(* fread returns less than it was asked for at the end only.               *)
fread ==
    LET chread == Lesser(ReadSize, row[1].doc.size - xml.size) IN
    /\ at = "reading" /\ given.popen
    /\ IF chread > 0 THEN xml' = Read(xml, chread) /\ UNCHANGED at
                     ELSE at' = "convert" /\ UNCHANGED xml
    /\ UNCHANGED <<row, status, edits, eit_info>>

Convert ==
    /\ at = "convert"
    /\ LET converted == convert_xml_to_eit_struct(eit_info, row[1].doc) IN
       IF converted = Failed THEN Fail(-3)
       ELSE /\ eit_info' = converted.eit
            /\ at' = "section0"
            /\ UNCHANGED <<row, status, edits, xml>>

Json(s) == IF row[1].to_inject = 1 THEN row[1][s] ELSE convert_eit_struct_to_json(eit_info[s])

ParseSection(s, next) ==
    LET parsed == json_parse(Json(s)) IN
    IF parsed = Malformed THEN Fail(-2)
    ELSE /\ eit_info' = [eit_info EXCEPT ![s] = parsed.section]
         /\ at' = next
         /\ UNCHANGED <<row, status, edits, xml>>

Section0 ==
    /\ at = "section0"
    /\ IF row[1].section0 = None THEN Fail(-1) ELSE ParseSection("section0", "section1")

(* The second section may be empty: it is then left as it is.              *)
Section1 ==
    /\ at = "section1"
    /\ IF row[1].section1 = None
       THEN at' = "publish" /\ UNCHANGED conversion
       ELSE ParseSection("section1", "publish")

convertStringsToEitStruct ==
    /\ popen \/ fread \/ Convert \/ Section0 \/ Section1
    /\ UNCHANGED <<starting, entry, injection>>

(* sharedMemory_set                                                        *)
Publish ==
    /\ at = "publish"
    /\ entry' = <<[eit |-> eit_info, row |-> row]>>
    /\ at' = "idle"
    /\ UNCHANGED <<starting, conversion, injection>>

(***************************************************************************)
(* add_eit, on a chunk with one EIT packet or two; the entry is copied     *)
(* first when it is new.                                                   *)
(***************************************************************************)
SectionName(s) == IF s = 0 THEN "section0" ELSE "section1"

Generate(state, eit, of) ==
    LET s == eit[SectionName(state.section)] IN
    [section |-> 1 - state.section,
     clock |-> Times_0(s, state.section, state.clock),
     shown |-> [state.shown EXCEPT ![state.section] =
                    <<[eit |-> generate_eit(s, state.section, state.clock), row |-> of]>>]]

add_eit ==
    /\ entry # <<>> /\ given.who # "viewer"
    /\ \E packets \in {1, 2} :
          LET Next1(state) == Generate(state, entry[1].eit, entry[1].row)
              once == Next1([section |-> section, clock |-> clock, shown |-> shown])
              state == IF packets = 1 THEN once ELSE Next1(once) IN
          /\ section' = state.section /\ clock' = state.clock /\ shown' = state.shown
    /\ UNCHANGED <<starting, at, entry, conversion>>

Tick ==
    /\ clock.now < MaxNow
    /\ clock' = [clock EXCEPT !.now = @ + 1]
    /\ UNCHANGED <<starting, at, entry, conversion, section, shown>>

SourcesNext ==
    \/ LoadLine \/ CannotOpen \/ Configure
    \/ Edit \/ convertStringsToEitStruct \/ Publish
    \/ add_eit \/ Tick

SourcesSpec == SourcesInit /\ [][SourcesNext]_vars

-------------------------------------------------------------------------------
(* Properties                                                              *)

Sections == {"section0", "section1"}
ValueOK == Nat \union {Garbage}
SectionOK(s) ==
    /\ DOMAIN s = DOMAIN Zeroed
    /\ {s.starttime, s.duration, s.event_id, s.short, s.ext, s.leak} \subseteq ValueOK
    /\ s.items \in [1..ItemSize -> ValueOK] /\ s.ca \in [1..CaSize -> ValueOK]
    /\ DOMAIN s.component = 1..ComponentSize /\ DOMAIN s.content = 1..ContentSize
    /\ \A k \in 1..ComponentSize : {s.component[k].stream, s.component[k].tag} \subseteq -1..255

\* Every variable has its type: sections keep their arrays' lengths, the
\* numbers of components fit in a byte, the pool is not exceeded, and the
\* document fits in the memory it is read into, whatever its size, with a byte
\* to spare (extract_eti_xml_from_ts).
SourcesTypeOK ==
    /\ at \in {"load", "idle", "reading", "convert", "section0", "section1", "publish",
               "served", "exited", "crashed"}
    /\ position \in 0..Len(given.lines) /\ ini.size \in 2..PoolSize
    /\ row = <<>> \/ row[1].to_inject \in {0, 1}
    /\ status \in {"", "DATABASE FAILURE", "PARSING FAILURE", "EIT FAILURE"} /\ edits \in 0..given.edits
    /\ \A s \in Sections : SectionOK(eit_info[s]) /\ (entry # <<>> => SectionOK(entry[1].eit[s]))
    /\ clock.now \in 1..MaxNow /\ section \in {0, 1}
    /\ xml.size < xml.comalloc

\* What the video's events say by themselves: those of its first program, of
\* which an event with number 0 does not count if it comes first (behind others
\* it makes the code forget them).
Listed(doc) == Events(doc, build_program_number(doc))
Program(doc) == {e \in Range(Listed(doc)) : e.id # 0}
Numbers(doc) == {e.id : e \in Program(doc)}
Present(doc) == CHOOSE n \in Numbers(doc) : \A m \in Numbers(doc) : n <= m
Ascending(doc) == \A j, k \in DOMAIN Listed(doc) : j < k => Listed(doc)[j].id < Listed(doc)[k].id
EventWith(doc, n) == CHOOSE e \in Program(doc) : e.id = n
Following(doc) == IF Present(doc) + 1 \in Numbers(doc) THEN Present(doc) + 1 ELSE Present(doc)
Wanted(doc, s) == EventWith(doc, IF s = 0 THEN Present(doc) ELSE Following(doc))
OfVideo(of) == of # <<>> /\ of[1].to_inject = 0
Ordered(of) == OfVideo(of) /\ Ascending(of[1].doc) /\ of[1].section1 # None

\* On air, a video has the event with the least number as present event, and
\* as following event the one with the next number, whatever other programs'
\* events lie between; a video without it announces its present event twice.
\* (build_sections_event_id; events in ascending order, each once.)
PresentAndFollowing ==
    \A s \in {0, 1} : shown[s] # <<>> /\ Ordered(shown[s][1].row) =>
        LET e == Wanted(shown[s][1].row[1].doc, s) IN
        /\ shown[s][1].eit.duration = e.duration
        /\ shown[s][1].eit.short = Lesser(FirstOf(e.SHORT_EVENT_DESC, 0), ShownSize)

\* From the video through JSON to the EIT, an event keeps its components with
\* a tag in their order, its rating if it has an age, and its first content.
Carried ==
    \A s \in {0, 1} : shown[s] # <<>> /\ Ordered(shown[s][1].row) =>
        LET e == Wanted(shown[s][1].row[1].doc, s)
            eit == shown[s][1].eit
            parts == UpToSize(e.COMPONENT_DESC, ComponentSize)
            tagged == Chosen(parts, {k \in DOMAIN parts : parts[k].tag # 0})
            first == FirstOf(e.CONTENT_DESC, Content(0)) IN
        /\ \A k \in DOMAIN eit.components :
              eit.components[k] = IF k \in DOMAIN tagged
                                  THEN [tagged[k] EXCEPT !.text = Lesser(@, TextSize)] ELSE Component(0)
        /\ LET r == FirstOf(e.PARENTAL_RATING_DESC, Rating(0)) IN
           eit.rating = IF r.age = 0 THEN Rating(0) ELSE r
        /\ eit.contents = IF first.level_1 = 0 THEN <<>> ELSE <<[first EXCEPT !.user = 0]>>

\* Nothing is published of memory that was never set, if the row has both its
\* sections: the struct EitInfo of the conversion is an automatic variable.
Garbled(s) ==
    \/ Garbage \in {s.starttime, s.duration, s.event_id, s.short, s.ext, s.leak, s.rating.age}
    \/ Garbage \in Range(s.items) \union Range(s.ca)
    \/ Component(Garbage) \in Range(s.component) \/ Content(Garbage) \in Range(s.content)

NothingUnset ==
    entry # <<>> /\ (entry[1].row = <<>> \/ entry[1].row[1].section1 # None) =>
        \A s \in Sections : ~Garbled(entry[1].eit[s])

\* Each row that was converted is either published or has the status that
\* names its first fault: no events in the video, no section 0, a value of
\* the wrong type; a video whose events are out of order may be refused, too.
\* What is published was never a row with a fault, and holds nothing that was
\* not set.
Faultless(doc) ==
    /\ ~doc.malformed /\ doc.programs # <<>> /\ Head(doc.programs) # 0
    /\ Program(doc) # {}
    /\ Ascending(doc) => \A s \in {0, 1} : Wanted(doc, s).starttime # 0 /\ Wanted(doc, s).duration # 0
Cause(r) ==
    LET unread == r.to_inject = 0 /\ ~(given.popen /\ Faultless(r.doc))
        absent == r.section0 = None
        spoilt == r.to_inject = 1 /\ ~r.sound
    IN  CASE unread -> "EIT FAILURE"
          [] ~unread /\ absent -> "DATABASE FAILURE"
          [] ~unread /\ ~absent /\ spoilt -> "PARSING FAILURE"
          [] OTHER -> ""
Outcome ==
    /\ at = "idle" /\ row # <<>> =>
          /\ \/ status = Cause(row[1])
             \/ row[1].to_inject = 0 /\ ~Ascending(row[1].doc) /\ status = "EIT FAILURE"
          /\ status = "" => entry # <<>> /\ entry[1].row = row
    /\ entry # <<>> /\ entry[1].row # <<>> => Cause(entry[1].row[1]) = ""
    /\ NothingUnset

\* The following event begins when the present one ends, whatever dates the
\* entry has and however often it changes: what is on air has no gap.
Contiguous ==
    section = 0 /\ shown[0] # <<>> =>
        shown[1][1].eit.starttime = shown[0][1].eit.starttime + shown[0][1].eit.duration

\* What a line means, by its place in the file alone.
IsParam(line) == ~line.comment /\ line.equals
IsSection(line) == ~line.comment /\ ~line.equals /\ line.name # NoName
Headers(lines, k) == {j \in 1..k : IsSection(lines[j])}
SectionAt(lines, k) ==
    IF Headers(lines, k) = {} THEN NoName
    ELSE lines[CHOOSE j \in Headers(lines, k) : \A i \in Headers(lines, k) : i <= j].name
Written(lines, name, key) == {k \in DOMAIN lines : IsParam(lines[k]) /\ lines[k].key = key /\ SectionAt(lines, k) = name}
FirstValue(lines, places) ==
    IF places = {} THEN NoValue ELSE lines[CHOOSE k \in places : \A j \in places : k <= j].value
Allocations(lines) ==
    2 + 3 * Cardinality({k \in DOMAIN lines : IsParam(lines[k])})
      + 2 * Cardinality({k \in DOMAIN lines : IsSection(lines[k])})

\* A parameter has the value of its first line in the file, in whichever of
\* the sections with the name it is, unless memory ran out.
IniFound ==
    at = "load" /\ position = Len(given.lines) /\ Allocations(given.lines) <= PoolSize =>
        \A name \in {given.lines[k].name : k \in DOMAIN given.lines} :
        \A key \in {given.lines[k].key : k \in DOMAIN given.lines} :
            rechercherValeur(ini, name, key) = FirstValue(given.lines, Written(given.lines, name, key))

\* A program only crashes over its ini file if the file lacks a parameter, or
\* there was no memory for the whole of it.
Robust ==
    at = "crashed" /\ Allocations(given.lines) <= PoolSize =>
        \E q \in Configuration(given.who) \union Needed : Written(given.lines, q[1], <<q[2], Plain>>) = {}

\* The program understands its ini file.  The components of the entry are
\* those of the file from the first to the last before a gap: none is skipped,
\* none is taken from behind a gap.  A part that is written twice counts as it
\* is written first, even if that is empty.
Described(k) ==
    \A p \in {"stream_content", "set_component_tag", "text"} :
        FirstValue(given.lines, Written(given.lines, Components, <<p, k>>)).length > 0
EntryFromFile ==
    /\ IniFound /\ Robust
    /\ entry # <<>> /\ entry[1].row = <<>> /\ Allocations(given.lines) <= PoolSize =>
          \A s \in Sections : \A k \in 1..ComponentSize :
              entry[1].eit[s].component[k] # Component(0) <=> \A j \in 1..k : Described(j)
===============================================================================
