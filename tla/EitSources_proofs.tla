-------------------------- MODULE EitSources_proofs --------------------------
(***************************************************************************)
(* Proofs about the sources of an entry and what is put on air, for every  *)
(* row, video, ini file and sequence of edits.                             *)
(*   - What is on air: no gap between the two events (NoGapOnAir), no row  *)
(*     without failure forgotten (NoRowForgotten, PublishedIsSound), the   *)
(*     document of a video in the memory it is read into (TextFits).       *)
(*   - A video with its events in order: the present and the following     *)
(*     event are announced (AnnouncedInOrder), with what the XML says of   *)
(*     them (NothingLostOnTheWay).  The numbers are followed through the   *)
(*     recursive function over the events, the fields through the JSON.    *)
(*   - The type (SourcesTyped), with what is set at each stage of the      *)
(*     conversion: no field nobody set is on air (NothingUnsetOnAir).      *)
(*   - The status of a row names its first fault (FirstFaultIsNamed).      *)
(*   - The ini file: after each line, what has been read is found with its *)
(*     first value (FileUnderstood).                                       *)
(***************************************************************************)
EXTENDS EitSources, WellFoundedInduction, SequenceTheorems, FiniteSetTheorems, TLAPS

-----------------------------------------------------------------------------
(* What is on air.                                                         *)

(* Sections 0 and 1 are generated in turn, out of whatever entry the table *)
(* has then; the clock keeps the start and the duration of the last        *)
(* section 0 that was generated.                                           *)

(* The clock has what was last shown as section 0; section 1, once shown   *)
(* after it, begins where that ends.                                       *)
OnAir ==
    /\ section \in {0, 1}
    /\ DOMAIN shown = {0, 1} /\ shown = [s \in {0, 1} |-> shown[s]]
    /\ clock = [now |-> clock.now, ts_0 |-> clock.ts_0, duration_0 |-> clock.duration_0]
    /\ shown[0] # <<>> =>
          /\ shown[0][1].eit.starttime = clock.ts_0
          /\ shown[0][1].eit.duration = clock.duration_0
          /\ section = 0 =>
                /\ shown[1] # <<>>
                /\ shown[1][1].eit.starttime = clock.ts_0 + clock.duration_0

(* The same of a state that Generate makes.                                *)
StateOK(state) ==
    /\ state.section \in {0, 1}
    /\ DOMAIN state.shown = {0, 1} /\ state.shown = [s \in {0, 1} |-> state.shown[s]]
    /\ state.clock = [now |-> state.clock.now, ts_0 |-> state.clock.ts_0,
                      duration_0 |-> state.clock.duration_0]
    /\ state.shown[0] # <<>> =>
          /\ state.shown[0][1].eit.starttime = state.clock.ts_0
          /\ state.shown[0][1].eit.duration = state.clock.duration_0
          /\ state.section = 0 =>
                /\ state.shown[1] # <<>>
                /\ state.shown[1][1].eit.starttime = state.clock.ts_0 + state.clock.duration_0

(* One section more.                                                       *)
LEMMA GenerateKeeps ==
    ASSUME NEW state, StateOK(state), NEW eit, NEW of
    PROVE  StateOK(Generate(state, eit, of))
<1> DEFINE s == eit[SectionName(state.section)]
           made == generate_eit(s, state.section, state.clock)
           new == Generate(state, eit, of)
<1>1. /\ new.section = 1 - state.section
      /\ new.clock = Times_0(s, state.section, state.clock)
      /\ new.shown = [state.shown EXCEPT ![state.section] = <<[eit |-> made, row |-> of]>>]
  BY DEF Generate
<1>2. /\ made.starttime = Start(s, state.section, state.clock)
      /\ made.duration = Duration(s)
  BY DEF generate_eit
<1>3. PICK shown0, shown1 : shown0 = state.shown[0] /\ shown1 = state.shown[1]
  OBVIOUS
<1> HIDE DEF s, made, new
<1>4. CASE state.section = 0
  <2>1. /\ new.section = 1
        /\ new.clock = [state.clock EXCEPT !.ts_0 = Start(s, 0, state.clock), !.duration_0 = Duration(s)]
        /\ new.shown = [state.shown EXCEPT ![0] = <<[eit |-> made, row |-> of]>>]
    BY <1>1, <1>4 DEF Times_0
  <2>2. /\ new.clock = [now |-> new.clock.now, ts_0 |-> new.clock.ts_0,
                        duration_0 |-> new.clock.duration_0]
        /\ new.clock.ts_0 = Start(s, 0, state.clock) /\ new.clock.duration_0 = Duration(s)
    BY <2>1 DEF StateOK
  <2>3. /\ DOMAIN new.shown = {0, 1} /\ new.shown = [x \in {0, 1} |-> new.shown[x]]
        /\ new.shown[0] = <<[eit |-> made, row |-> of]>>
    BY <2>1 DEF StateOK
  <2>4. new.shown[0][1].eit = made
    BY <2>3
  <2> QED
    BY <1>2, <1>4, <2>1, <2>2, <2>3, <2>4 DEF StateOK, new
<1>5. CASE state.section = 1
  <2>1. /\ new.section = 0 /\ new.clock = state.clock
        /\ new.shown = [state.shown EXCEPT ![1] = <<[eit |-> made, row |-> of]>>]
    BY <1>1, <1>5 DEF Times_0
  <2>2. /\ DOMAIN new.shown = {0, 1} /\ new.shown = [x \in {0, 1} |-> new.shown[x]]
        /\ new.shown[0] = state.shown[0]
        /\ new.shown[1] = <<[eit |-> made, row |-> of]>>
    BY <2>1 DEF StateOK
  <2>3. new.shown[1][1].eit = made /\ new.shown[1] # <<>>
    BY <2>2
  <2>4. made.starttime = state.clock.ts_0 + state.clock.duration_0
    BY <1>2, <1>5 DEF Start
  <2> QED
    BY <1>5, <2>1, <2>2, <2>3, <2>4 DEF StateOK, new
<1> QED
  BY <1>4, <1>5 DEF StateOK

(* The entry may have become another one, before or between two packets.   *)
LEMMA OnAirStep == OnAir /\ [SourcesNext]_vars => OnAir'
<1> SUFFICES ASSUME OnAir, [SourcesNext]_vars PROVE OnAir'
  OBVIOUS
<1>1. CASE UNCHANGED injection
  BY <1>1 DEF OnAir, injection
<1>2. CASE add_eit
  <2> DEFINE before == [section |-> section, clock |-> clock, shown |-> shown]
             once == Generate(before, entry[1].eit, entry[1].row)
             twice == Generate(once, entry[1].eit, entry[1].row)
  <2>1. StateOK(before)
    BY DEF OnAir, StateOK
  <2> HIDE DEF before
  <2>2. StateOK(once)
    BY <2>1, GenerateKeeps
  <2> HIDE DEF once
  <2>3. StateOK(twice)
    BY <2>2, GenerateKeeps
  <2> HIDE DEF twice
  <2>4. \/ section' = once.section /\ clock' = once.clock /\ shown' = once.shown
        \/ section' = twice.section /\ clock' = twice.clock /\ shown' = twice.shown
    BY <1>2 DEF add_eit, before, once, twice
  <2> QED
    BY <2>2, <2>3, <2>4 DEF StateOK, OnAir
<1>3. CASE Tick
  <2>1. /\ clock'.ts_0 = clock.ts_0 /\ clock'.duration_0 = clock.duration_0
        /\ clock' = [now |-> clock'.now, ts_0 |-> clock'.ts_0, duration_0 |-> clock'.duration_0]
        /\ section' = section /\ shown' = shown
    BY <1>3 DEF Tick, OnAir
  <2> QED
    BY <2>1 DEF OnAir
<1>4. CASE LoadLine \/ CannotOpen \/ Configure \/ Edit \/ convertStringsToEitStruct \/ Publish
  BY <1>1, <1>4 DEF LoadLine, CannotOpen, Configure, Edit, convertStringsToEitStruct, Publish
<1> QED
  BY <1>1, <1>2, <1>3, <1>4 DEF SourcesNext, vars, injection

(***************************************************************************)
(* Whenever both sections have been put on air the following event begins  *)
(* when the present one ends, whatever dates the entries have, however     *)
(* often they change and between whichever two packets (generate_eit keeps *)
(* ts_0 and duration_0 from section 0 to section 1).                       *)
(***************************************************************************)
THEOREM NoGapOnAir == SourcesSpec => []Contiguous
<1>1. SourcesInit => OnAir
  BY DEF SourcesInit, OnAir
<1>2. OnAir /\ [SourcesNext]_vars => OnAir'
  BY OnAirStep
<1>3. OnAir => Contiguous
  BY DEF OnAir, Contiguous
<1> QED
  BY <1>1, <1>2, <1>3, PTL DEF SourcesSpec

-----------------------------------------------------------------------------
(* What becomes of a row.                                                  *)

(* A row that was converted without failure is what the table has.         *)
PublishedOrFailed ==
    at = "idle" /\ row # <<>> /\ status = "" => entry # <<>> /\ entry[1].row = row

(* While a row is converted it has no status.                              *)
Converting ==
    /\ at \in {"reading", "convert", "section0", "section1", "publish"} => status = ""
    /\ at = "load" => row = <<>>

(* Every failure has a name.                                               *)
LEMMA FailureNamed == ASSUME NEW n \in {-1, -2, -3}, Fail(n) PROVE status' # "" /\ at' = "idle"
BY DEF Fail

(***************************************************************************)
(* Each row is published or gets a status that is not empty: with none,    *)
(* the table has what was made of this row (convertStringsToEitStruct and  *)
(* its returns -1, -2 and -3).                                             *)
(***************************************************************************)
THEOREM NoRowForgotten == SourcesSpec => []PublishedOrFailed
<1> DEFINE Inv == PublishedOrFailed /\ Converting
<1>1. SourcesInit => Inv
  BY DEF SourcesInit, PublishedOrFailed, Converting
<1>2. Inv /\ [SourcesNext]_vars => Inv'
  <2> SUFFICES ASSUME Inv, [SourcesNext]_vars PROVE Inv'
    OBVIOUS
  <2> USE DEF PublishedOrFailed, Converting
  <2>1. CASE UNCHANGED <<at, row, status, entry>>
    BY <2>1
  <2>2. CASE LoadLine
    BY <2>2 DEF LoadLine, conversion
  <2>3. CASE CannotOpen
    BY <2>3 DEF CannotOpen, conversion
  <2>4. CASE Configure
    BY <2>4 DEF Configure, conversion
  <2>5. CASE Edit
    BY <2>5 DEF Edit
  <2>6. CASE convertStringsToEitStruct
    <3>1. entry' = entry /\ at \in {"reading", "convert", "section0", "section1"} /\ status = ""
      BY <2>6 DEF convertStringsToEitStruct, popen, fread, Convert, Section0, Section1
    <3>2. \/ at' = "idle" /\ status' # ""
          \/ at' \in {"reading", "convert", "section0", "section1", "publish"} /\ status' = ""
      <4>1. CASE popen
        BY <4>1, FailureNamed DEF popen
      <4>2. CASE fread
        BY <3>1, <4>2 DEF fread
      <4>3. CASE Convert
        BY <3>1, <4>3, FailureNamed DEF Convert
      <4>4. CASE Section0
        BY <3>1, <4>4, FailureNamed DEF Section0, ParseSection
      <4>5. CASE Section1
        BY <3>1, <4>5, FailureNamed DEF Section1, ParseSection, conversion
      <4> QED
        BY <2>6, <4>1, <4>2, <4>3, <4>4, <4>5 DEF convertStringsToEitStruct
    <3> QED
      BY <3>1, <3>2
  <2>7. CASE Publish
    BY <2>7 DEF Publish, conversion
  <2>8. CASE add_eit
    BY <2>1, <2>8 DEF add_eit, conversion
  <2>9. CASE Tick
    BY <2>1, <2>9 DEF Tick, conversion
  <2>10. CASE UNCHANGED vars
    BY <2>1, <2>10 DEF vars
  <2> QED
    BY <2>2, <2>3, <2>4, <2>5, <2>6, <2>7, <2>8, <2>9, <2>10 DEF SourcesNext
<1>3. Inv => PublishedOrFailed
  OBVIOUS
<1> HIDE DEF Inv
<1> QED
  BY <1>1, <1>2, <1>3, PTL DEF SourcesSpec

(* A row that can be made an entry: it has its section 0, its JSON is      *)
(* accepted, and the events of its video are found.                        *)
Converts(doc) == \E eit : convert_xml_to_eit_struct(eit, doc) # Failed
Sound(r) ==
    /\ r.section0 # None
    /\ r.to_inject = 1 => Accepted(r.section0) /\ (r.section1 # None => Accepted(r.section1))
    /\ r.to_inject = 0 => given.popen /\ Converts(r.doc)

(* No other row is made an entry.                                          *)
OnlySoundRows == entry # <<>> /\ entry[1].row # <<>> => Sound(entry[1].row[1])

(* What is known of the row at each stage of its conversion.               *)
Checked ==
    /\ at \in {"reading", "convert"} => row[1].to_inject = 0
    /\ at = "convert" => given.popen
    /\ at \in {"section0", "section1", "publish"} =>
          (row[1].to_inject = 0 => given.popen /\ Converts(row[1].doc))
    /\ at \in {"section1", "publish"} =>
          /\ row[1].section0 # None
          /\ row[1].to_inject = 1 => Accepted(row[1].section0)
    /\ at = "publish" => (row[1].to_inject = 1 /\ row[1].section1 # None => Accepted(row[1].section1))

(* The parser returns NULL for a value that it does not accept.            *)
LEMMA OnlyAccepted == ASSUME NEW o, json_parse(o) # Malformed PROVE Accepted(o)
BY DEF json_parse

(* A section from the database is accepted, if the conversion goes on.     *)
LEMMA ParsedIsAccepted ==
    ASSUME NEW s, NEW next, next # "idle", ParseSection(s, next), at' = next
    PROVE  row' = row /\ (row[1].to_inject = 1 => Accepted(row[1][s]))
BY OnlyAccepted DEF ParseSection, Fail, Json

(***************************************************************************)
(* What is on air is never made of a row without section 0, of JSON that   *)
(* has a value of a wrong type, or of a video in which no present and      *)
(* following event were found; such a row leaves the entry before it.      *)
(***************************************************************************)
THEOREM PublishedIsSound == SourcesSpec => []OnlySoundRows
<1> DEFINE Inv == OnlySoundRows /\ Checked
<1>1. SourcesInit => Inv
  BY DEF SourcesInit, OnlySoundRows, Checked
<1>2. Inv /\ [SourcesNext]_vars => Inv'
  <2> SUFFICES ASSUME Inv, [SourcesNext]_vars PROVE Inv'
    OBVIOUS
  <2>1. given' = given
    BY DEF SourcesNext, LoadLine, CannotOpen, Configure, Edit, convertStringsToEitStruct, Publish,
           add_eit, Tick, starting, vars
  <2>2. \A r : Sound(r) => Sound(r)'
    BY <2>1 DEF Sound
  <2>3. CASE entry' = entry /\ row' = row /\ at' = at
    BY <2>1, <2>2, <2>3 DEF OnlySoundRows, Checked
  <2>4. ASSUME entry' = entry, at' \in {"load", "idle", "served", "exited", "crashed"} PROVE Inv'
    BY <2>2, <2>4 DEF OnlySoundRows, Checked
  <2>5. CASE LoadLine
    BY <2>3, <2>5 DEF LoadLine, conversion
  <2>6. CASE CannotOpen
    BY <2>4, <2>6 DEF CannotOpen
  <2>7. CASE Configure
    BY <2>4, <2>7 DEF Configure, OnlySoundRows, Checked
  <2>8. CASE Edit
    <3>1. PICK r : row' = <<r>> /\ at' = IF r.to_inject = 0 THEN "reading" ELSE "section0"
      BY <2>8 DEF Edit
    <3>2. row'[1] = r /\ entry' = entry
      BY <2>8, <3>1 DEF Edit
    <3> QED
      BY <2>2, <3>1, <3>2 DEF OnlySoundRows, Checked
  <2>9. CASE convertStringsToEitStruct
    <3>1. entry' = entry /\ row' = row
      BY <2>9 DEF convertStringsToEitStruct, popen, fread, Convert, Section0, Section1, ParseSection, Fail, conversion
    <3>2. OnlySoundRows'
      BY <2>2, <3>1 DEF OnlySoundRows
    <3>3. Checked'
      <4>1. CASE popen
        BY <4>1 DEF popen, Fail, Checked
      <4>2. CASE fread
        BY <2>1, <3>1, <4>2 DEF fread, Checked
      <4>3. CASE Convert
        <5>1. at = "convert" /\ given.popen /\ row[1].to_inject = 0
          BY <4>3 DEF Convert, Checked
        <5>2. at' = "idle" \/ (at' = "section0" /\ Converts(row[1].doc))
          BY <4>3 DEF Convert, Fail, Converts
        <5> QED
          BY <2>1, <3>1, <5>1, <5>2 DEF Checked
      <4>4. CASE Section0
        <5>1. at' = "idle" \/ (at' = "section1" /\ row[1].section0 # None
                                /\ (row[1].to_inject = 1 => Accepted(row[1].section0)))
          BY <4>4, ParsedIsAccepted DEF Section0, Fail, ParseSection
        <5>2. at = "section0"
          BY <4>4 DEF Section0
        <5> QED
          BY <2>1, <3>1, <5>1, <5>2 DEF Checked
      <4>5. CASE Section1
        <5>1. at' = "idle" \/ (at' = "publish" /\ (row[1].to_inject = 1 /\ row[1].section1 # None
                                                   => Accepted(row[1].section1)))
          BY <4>5, ParsedIsAccepted DEF Section1, Fail, ParseSection
        <5>2. at = "section1"
          BY <4>5 DEF Section1
        <5> QED
          BY <2>1, <3>1, <5>1, <5>2 DEF Checked
      <4> QED
        BY <2>9, <4>1, <4>2, <4>3, <4>4, <4>5 DEF convertStringsToEitStruct
    <3> QED
      BY <3>2, <3>3
  <2>10. CASE Publish
    <3>1. at = "publish" /\ entry' = <<[eit |-> eit_info, row |-> row]>> /\ at' = "idle" /\ row' = row
      BY <2>10 DEF Publish, conversion
    <3>2. entry'[1].row = row
      BY <3>1
    <3>3. Sound(row[1])'
      BY <2>1, <3>1 DEF Sound, Checked
    <3> QED
      BY <3>1, <3>2, <3>3 DEF OnlySoundRows, Checked
  <2>11. CASE add_eit \/ Tick \/ UNCHANGED vars
    BY <2>3, <2>11 DEF add_eit, Tick, conversion, vars
  <2> QED
    BY <2>5, <2>6, <2>7, <2>8, <2>9, <2>10, <2>11 DEF SourcesNext
<1>3. Inv => OnlySoundRows
  OBVIOUS
<1> HIDE DEF Inv
<1> QED
  BY <1>1, <1>2, <1>3, PTL DEF SourcesSpec

-----------------------------------------------------------------------------
(* The document of a video.                                                *)

DocumentFits == xml.size < xml.comalloc

(* What was read is not more than there is, and what is doubled was enough *)
(* for a whole buffer.                                                     *)
Memory ==
    /\ given \in Cases
    /\ xml.size \in Nat /\ xml.comalloc \in Nat
    /\ ReadSize <= xml.comalloc /\ xml.size < xml.comalloc
    /\ at = "reading" => row # <<>> /\ row[1].doc.size \in Nat /\ xml.size <= row[1].doc.size

(***************************************************************************)
(* The document of a video fits in the memory that it is read into, with   *)
(* room for the byte that ends it, whatever its size: the memory is        *)
(* doubled in time (extract_eti_xml_from_ts).                              *)
(***************************************************************************)
THEOREM TextFits == SourcesSpec => []DocumentFits
<1>1. SourcesInit => Memory
  <2> SUFFICES ASSUME SourcesInit PROVE Memory
    OBVIOUS
  <2>1. given \in Cases /\ at = "load" /\ xml = NoText
    BY Zenon DEF SourcesInit
  <2>2. xml.size = 0 /\ xml.comalloc = ReadSize
    BY <2>1 DEF NoText
  <2> QED
    BY <2>1, <2>2, XmlAssumption DEF XmlAssumption, Memory
<1>2. Memory /\ [SourcesNext]_vars => Memory'
  <2> SUFFICES ASSUME Memory, [SourcesNext]_vars PROVE Memory'
    OBVIOUS
  <2>1. given' = given
    BY DEF SourcesNext, LoadLine, CannotOpen, Configure, Edit, convertStringsToEitStruct, Publish,
           add_eit, Tick, starting, vars
  <2>2. CASE fread
    <3> DEFINE chread == Lesser(ReadSize, row[1].doc.size - xml.size)
    <3>1. at = "reading" /\ row' = row
      BY <2>2 DEF fread
    <3>2. PICK size, text, mem \in Nat : size = row[1].doc.size /\ text = xml.size /\ mem = xml.comalloc
                                        /\ text <= size /\ ReadSize <= mem /\ text < mem
      BY <3>1 DEF Memory
    <3>3. PICK n \in Nat : n = ReadSize /\ n > 0
      BY XmlAssumption DEF XmlAssumption
    <3>4. chread \in Int /\ chread <= n /\ chread <= size - text
      BY <3>2, <3>3 DEF Lesser
    <3> HIDE DEF chread
    <3>5. CASE chread > 0
      <4>1. xml' = Read(xml, chread) /\ at' = at
        BY <2>2, <3>5 DEF fread, chread
      <4>2. xml'.size = text + chread
            /\ xml'.comalloc = IF text + chread >= mem THEN 2 * mem ELSE mem
        BY <3>2, <4>1 DEF Read
      <4>3. /\ text + chread \in Nat /\ text + chread <= size
            /\ text + chread < 2 * mem /\ n <= 2 * mem /\ 2 * mem \in Nat
        BY <3>2, <3>3, <3>4, <3>5
      <4> QED
        BY <2>1, <3>1, <3>2, <3>3, <4>1, <4>2, <4>3 DEF Memory
    <3>6. CASE ~(chread > 0)
      <4>1. xml' = xml /\ at' = "convert"
        BY <2>2, <3>6 DEF fread, chread
      <4> QED
        BY <2>1, <3>1, <4>1 DEF Memory
    <3> QED
      BY <3>5, <3>6
  <2>3. CASE Edit
    <3>1. PICK r \in Rows[given.rows] : row' = <<r>>
      BY <2>3 DEF Edit
    <3>2. r.doc.size \in Nat
      BY SourcesAssumption DEF Memory, SourcesAssumption, Document
    <3>3. row'[1] = r /\ row' # <<>> /\ xml' = NoText
      BY <2>3, <3>1 DEF Edit
    <3> QED
      BY <2>1, <3>2, <3>3, XmlAssumption DEF Memory, NoText, XmlAssumption
  <2>4. ASSUME xml' = xml, at' = at, row' = row PROVE Memory'
    BY <2>1, <2>4 DEF Memory
  <2>5. ASSUME xml' = xml, at' # "reading" PROVE Memory'
    BY <2>1, <2>5 DEF Memory
  <2>6. CASE popen \/ Convert \/ Section0 \/ Section1
    BY <2>5, <2>6 DEF popen, Convert, Section0, Section1, ParseSection, Fail, conversion
  <2>7. CASE CannotOpen \/ Configure \/ Publish
    BY <2>5, <2>7 DEF CannotOpen, Configure, Publish, conversion
  <2>8. CASE LoadLine \/ add_eit \/ Tick \/ UNCHANGED vars
    BY <2>4, <2>8 DEF LoadLine, add_eit, Tick, conversion, vars
  <2> QED
    BY <2>2, <2>3, <2>6, <2>7, <2>8 DEF SourcesNext, convertStringsToEitStruct
<1>3. Memory => DocumentFits
  BY DEF Memory, DocumentFits
<1> QED
  BY <1>1, <1>2, <1>3, PTL DEF SourcesSpec

-----------------------------------------------------------------------------
(* Sequences, element by element.                                          *)

(* A set of naturals that has 0 and, with any number, the next has them    *)
(* all.                                                                    *)
LEMMA Counting ==
    ASSUME NEW S, 0 \in S, \A m \in Nat : m \in S => m + 1 \in S
    PROVE  \A m \in Nat : m \in S
<1> DEFINE Less == OpToRel(<, Nat)
           R == Nat \ S
<1>1. \A x, y \in Nat : <<y, x>> \in Less <=> y < x
  BY DEF OpToRel
<1>2. IsWellFoundedOn(Less, Nat)
  BY NatLessThanWellFounded
<1> HIDE DEF Less
<1>3. SUFFICES ASSUME R # {} PROVE FALSE
  OBVIOUS
<1>4. PICK m \in R : \A n \in R : ~ (<<n, m>> \in Less)
  BY <1>2, <1>3, WFMin
<1>5. m \in Nat /\ m \notin S /\ \A n \in Nat : n < m => n \in S
  BY <1>1, <1>4
<1>6. m # 0 /\ m - 1 \in Nat /\ m - 1 < m
  BY <1>5
<1>7. m - 1 \in S
  BY <1>5, <1>6
<1>8. (m - 1) + 1 \in S
  BY <1>6, <1>7
<1> QED
  BY <1>5, <1>8

(* The values after each of n steps.                                       *)
Unfolds(g, A, base, n, next) ==
    g \in [0..n -> A] /\ g[0] = base /\ \A k \in 1..n : g[k] = next[k][g[k-1]]

(* Taking a step for each of n items, from an initial value on, gives a    *)
(* value after each.                                                       *)
LEMMA Steps ==
    ASSUME NEW A, NEW base \in A, NEW n \in Nat, NEW next \in [1..n -> [A -> A]]
    PROVE  \E g : Unfolds(g, A, base, n, next)
<1> DEFINE Done(m) == \E g \in [0..m -> A] :
                        g[0] = base /\ \A k \in 1..m : g[k] = next[k][g[k-1]]
           S == {m \in Nat : m <= n => Done(m)}
<1>1. 0 \in S
  <2> DEFINE g == [k \in 0..0 |-> base]
  <2>1. g \in [0..0 -> A] /\ g[0] = base
    OBVIOUS
  <2>2. \A k \in 1..0 : g[k] = next[k][g[k-1]]
    OBVIOUS
  <2> QED
    BY <2>1, <2>2
<1>2. ASSUME NEW m \in Nat, m \in S PROVE m + 1 \in S
  <2>1. CASE m + 1 <= n
    <3>1. PICK g \in [0..m -> A] : g[0] = base /\ \A k \in 1..m : g[k] = next[k][g[k-1]]
      BY <1>2, <2>1
    <3> DEFINE v == next[m+1][g[m]]
               h == [k \in 0..m+1 |-> IF k = m + 1 THEN v ELSE g[k]]
    <3>2. v \in A
      BY <2>1, <3>1
    <3> HIDE DEF v
    <3>3. h \in [0..m+1 -> A] /\ \A k \in 0..m : h[k] = g[k]
      BY <3>1, <3>2
    <3>4. h[0] = base /\ h[m+1] = v
      BY <3>1
    <3> HIDE DEF h
    <3>5. ASSUME NEW k \in 1..m+1 PROVE h[k] = next[k][h[k-1]]
      <4>1. CASE k = m + 1
        BY <3>3, <3>4, <4>1 DEF v
      <4>2. CASE k # m + 1
        <5>1. k \in 1..m /\ k \in 0..m /\ k - 1 \in 0..m
          BY <4>2
        <5> QED
          BY <3>1, <3>3, <5>1
      <4> QED
        BY <4>1, <4>2
    <3> QED
      BY <3>3, <3>4, <3>5
  <2>2. CASE ~(m + 1 <= n)
    BY <2>2
  <2> QED
    BY <2>1, <2>2
<1> HIDE DEF S
<1>3. n \in S
  BY <1>1, <1>2, Counting
<1> QED
  BY <1>3 DEF S, Unfolds

(* What Chosen has after each of the first n elements.                     *)
Gathers(g, A, s, places, n) ==
    /\ g \in [0..n -> Seq(A)]
    /\ g[0] = <<>>
    /\ \A k \in 1..n : g[k] = IF k \in places THEN Append(g[k-1], s[k]) ELSE g[k-1]
    /\ Chosen(s, places) = g[n]

(* There are such values, and the last of them is what Chosen is.          *)
LEMMA ChosenIs ==
    ASSUME NEW A, NEW s \in Seq(A), NEW places, NEW n, n = Len(s)
    PROVE  \E g : Gathers(g, A, s, places, n)
<1>1. n \in Nat
  OBVIOUS
<1>2. PICK B : B = Seq(A)
  OBVIOUS
<1>3. <<>> \in B /\ \A k \in 1..n, a \in B : Append(a, s[k]) \in B
  BY <1>1, <1>2
<1>4. PICK next : next = [k \in 1..n |-> [a \in B |-> IF k \in places THEN Append(a, s[k]) ELSE a]]
  OBVIOUS
<1>5. next \in [1..n -> [B -> B]]
  BY <1>3, <1>4
<1>6. PICK g \in [0..n -> B] : g[0] = <<>> /\ \A k \in 1..n : g[k] = next[k][g[k-1]]
  <2>1. PICK base \in B : base = <<>>
    BY <1>3
  <2>2. \E g : Unfolds(g, B, base, n, next)
    BY <1>1, <1>5, Steps
  <2> QED
    BY <2>1, <2>2 DEF Unfolds
<1>7. ASSUME NEW k \in 1..n
      PROVE  g[k] = IF k \in places THEN Append(g[k-1], s[k]) ELSE g[k-1]
  <2>1. k - 1 \in 0..n /\ g[k-1] \in B /\ g[k] = next[k][g[k-1]]
    BY <1>6
  <2> QED
    BY <1>4, <2>1
<1> DEFINE Body(f) == [k \in 0..n |-> IF k = 0 THEN <<>>
                         ELSE IF k \in places THEN Append(f[k-1], s[k]) ELSE f[k-1]]
<1>8. \A f : f = Body(f) => f = g
  <2>1. SUFFICES ASSUME NEW f, f = Body(f) PROVE f = g
    OBVIOUS
  <2> DEFINE S == {m \in Nat : m <= n => f[m] = g[m]}
  <2>2. \A k \in 0..n : f[k] = IF k = 0 THEN <<>>
                         ELSE IF k \in places THEN Append(f[k-1], s[k]) ELSE f[k-1]
    BY <2>1
  <2>3. 0 \in S
    BY <1>6, <2>2
  <2>4. ASSUME NEW m \in Nat, m \in S PROVE m + 1 \in S
    <3>1. CASE m + 1 <= n
      <4>1. f[m] = g[m] /\ m + 1 \in 1..n /\ m + 1 \in 0..n /\ (m + 1) - 1 = m
        BY <2>4, <3>1
      <4>2. g[m+1] = IF m + 1 \in places THEN Append(g[m], s[m+1]) ELSE g[m]
        BY <1>7, <4>1
      <4>3. f[m+1] = IF m + 1 \in places THEN Append(f[m], s[m+1]) ELSE f[m]
        BY <2>2, <4>1
      <4> QED
        BY <4>1, <4>2, <4>3
    <3>2. CASE ~(m + 1 <= n)
      BY <3>2
    <3> QED
      BY <3>1, <3>2
  <2> HIDE DEF S
  <2>5. \A m \in Nat : m \in S
    BY <2>3, <2>4, Counting
  <2>6. \A k \in 0..n : f[k] = g[k]
    BY <2>5 DEF S
  <2>7. f = [k \in 0..n |-> f[k]]
    BY <2>1
  <2>8. g = [k \in 0..n |-> g[k]]
    OBVIOUS
  <2> QED
    BY <2>6, <2>7, <2>8
<1>9. g = Body(g)
  <2>1. \A k \in 0..n : g[k] = IF k = 0 THEN <<>>
                         ELSE IF k \in places THEN Append(g[k-1], s[k]) ELSE g[k-1]
    <3>1. SUFFICES ASSUME NEW k \in 0..n
                   PROVE  g[k] = IF k = 0 THEN <<>>
                         ELSE IF k \in places THEN Append(g[k-1], s[k]) ELSE g[k-1]
      OBVIOUS
    <3>2. CASE k = 0
      BY <1>6, <3>2
    <3>3. CASE k # 0
      <4>1. k \in 1..n
        BY <3>3
      <4> QED
        BY <1>7, <3>3, <4>1
    <3> QED
      BY <3>2, <3>3
  <2>2. g = [k \in 0..n |-> g[k]]
    OBVIOUS
  <2> QED
    BY <2>1, <2>2
<1>10. (CHOOSE f : f = Body(f)) = g
  <2> HIDE DEF Body
  <2> QED
    BY <1>8, <1>9
<1>11. Chosen(s, places) = g[n]
  BY <1>1, <1>10 DEF Chosen
<1> QED
  BY <1>2, <1>6, <1>7, <1>11 DEF Gathers

(* What is chosen are elements of the sequence, no more than it has.       *)
LEMMA ChosenTyped ==
    ASSUME NEW A, NEW s \in Seq(A), NEW places
    PROVE  Chosen(s, places) \in Seq(A) /\ Len(Chosen(s, places)) <= Len(s)
<1>1. PICK n \in Nat : n = Len(s)
  OBVIOUS
<1>2. PICK g : Gathers(g, A, s, places, n)
  BY <1>1, ChosenIs
<1> DEFINE S == {m \in Nat : m <= n => Len(g[m]) <= m}
<1>3. 0 \in S
  BY <1>2 DEF Gathers
<1>4. ASSUME NEW m \in Nat, m \in S PROVE m + 1 \in S
  <2>1. CASE m + 1 <= n
    <3>1. m + 1 \in 1..n /\ m \in 0..n /\ (m + 1) - 1 = m /\ Len(g[m]) <= m
      BY <1>4, <2>1
    <3>2. PICK a \in Seq(A) : a = g[m]
      BY <1>2, <3>1 DEF Gathers
    <3>3. PICK e \in A : e = s[m+1]
      BY <1>1, <3>1
    <3>4. g[m+1] = IF m + 1 \in places THEN Append(a, e) ELSE a
      BY <1>2, <3>1, <3>2, <3>3 DEF Gathers
    <3>5. Len(Append(a, e)) = Len(a) + 1 /\ Len(a) \in Nat
      BY <3>2, <3>3
    <3>6. Len(g[m+1]) <= m + 1
      BY <3>1, <3>2, <3>4, <3>5
    <3> QED
      BY <3>6
  <2>2. CASE ~(m + 1 <= n)
    BY <2>2
  <2> QED
    BY <2>1, <2>2
<1> HIDE DEF S
<1>5. n \in S
  BY <1>3, <1>4, Counting
<1> QED
  BY <1>1, <1>2, <1>5 DEF S, Gathers

(* Of a sequence that begins like another, the same places of that         *)
(* beginning are the same elements.                                        *)
LEMMA ChosenBeginning ==
    ASSUME NEW A, NEW s \in Seq(A), NEW t \in Seq(A), NEW places,
           Len(s) <= Len(t), \A k \in 1..Len(s) : s[k] = t[k],
           places \subseteq 1..Len(s)
    PROVE  Chosen(s, places) = Chosen(t, places)
<1>1. PICK m, n \in Nat : m = Len(s) /\ n = Len(t) /\ m <= n
  OBVIOUS
<1>2. PICK g : Gathers(g, A, s, places, m)
  BY <1>1, ChosenIs
<1>3. PICK h : Gathers(h, A, t, places, n)
  BY <1>1, ChosenIs
<1> DEFINE S == {k \in Nat : k <= n => h[k] = g[IF k <= m THEN k ELSE m]}
<1>4. 0 \in S
  BY <1>1, <1>2, <1>3 DEF Gathers
<1>5. ASSUME NEW k \in Nat, k \in S PROVE k + 1 \in S
  <2>1. CASE k + 1 <= m
    <3>1. k + 1 \in 1..m /\ k + 1 \in 1..n /\ (k + 1) - 1 = k /\ h[k] = g[k]
      BY <1>1, <1>5, <2>1
    <3>2. h[k+1] = IF k + 1 \in places THEN Append(h[k], t[k+1]) ELSE h[k]
      BY <1>3, <3>1 DEF Gathers
    <3>3. g[k+1] = IF k + 1 \in places THEN Append(g[k], s[k+1]) ELSE g[k]
      BY <1>2, <3>1 DEF Gathers
    <3>4. s[k+1] = t[k+1]
      BY <1>1, <3>1
    <3> QED
      BY <2>1, <3>1, <3>2, <3>3, <3>4
  <2>2. CASE k + 1 > m /\ k + 1 <= n
    <3>1. k + 1 \in 1..n /\ (k + 1) - 1 = k /\ k + 1 \notin places /\ h[k] = g[m] /\ ~(k + 1 <= m)
      BY <1>1, <1>5, <2>2
    <3>2. h[k+1] = h[k]
      BY <1>3, <3>1 DEF Gathers
    <3> QED
      BY <3>1, <3>2
  <2>3. CASE ~(k + 1 <= n)
    BY <2>3
  <2> QED
    BY <2>1, <2>2, <2>3, <1>1
<1> HIDE DEF S
<1>6. n \in S
  BY <1>4, <1>5, Counting
<1>7. h[n] = g[m]
  BY <1>1, <1>6 DEF S
<1> QED
  BY <1>2, <1>3, <1>7 DEF Gathers

(* One place is one element.                                               *)
LEMMA ChosenOne ==
    ASSUME NEW A, NEW s \in Seq(A), NEW p \in 1..Len(s)
    PROVE  Chosen(s, {p}) = <<s[p]>>
<1>1. PICK n \in Nat : n = Len(s) /\ p \in 1..n
  OBVIOUS
<1>2. PICK g : Gathers(g, A, s, {p}, n)
  BY <1>1, ChosenIs
<1>3. PICK e \in A : e = s[p]
  BY <1>1
<1> DEFINE S == {k \in Nat : k <= n => g[k] = IF k < p THEN <<>> ELSE <<e>>}
<1>4. 0 \in S
  BY <1>1, <1>2 DEF Gathers
<1>5. ASSUME NEW k \in Nat, k \in S PROVE k + 1 \in S
  <2>1. CASE k + 1 <= n
    <3>1. k + 1 \in 1..n /\ (k + 1) - 1 = k /\ g[k] = IF k < p THEN <<>> ELSE <<e>>
      BY <1>5, <2>1
    <3>2. g[k+1] = IF k + 1 = p THEN Append(g[k], s[p]) ELSE g[k]
      BY <1>2, <3>1 DEF Gathers
    <3>3. Append(<<>>, e) = <<e>>
      BY <1>3
    <3>4. g[k+1] = IF k + 1 < p THEN <<>> ELSE <<e>>
      <4>1. CASE k + 1 = p
        BY <1>1, <1>3, <3>1, <3>2, <3>3, <4>1
      <4>2. CASE k + 1 # p
        <5>1. g[k+1] = g[k] /\ (k + 1 < p <=> k < p)
          BY <1>1, <3>2, <4>2
        <5> QED
          BY <3>1, <5>1
      <4> QED
        BY <4>1, <4>2
    <3> QED
      BY <3>4
  <2>2. CASE ~(k + 1 <= n)
    BY <2>2
  <2> QED
    BY <2>1, <2>2
<1> HIDE DEF S
<1>6. n \in S
  BY <1>4, <1>5, Counting
<1>7. g[n] = <<e>>
  BY <1>1, <1>6 DEF S
<1> QED
  BY <1>2, <1>3, <1>7 DEF Gathers

-----------------------------------------------------------------------------
(* Which events of a video are announced.                                  *)

(* The numbers of the present and of the following event.                  *)
Ids == [section0 : Nat, section1 : Nat]

(* The numbers after each of the first n events.                           *)
IdsSoFar(g, es, n) ==
    /\ g \in [0..n -> Ids]
    /\ g[0] = [section0 |-> Invalid, section1 |-> Invalid]
    /\ \A k \in 1..n : g[k] = Nearer(g[k-1], es[k])
    /\ build_sections_event_id(es) = g[n]

(* There are such numbers, and the last of them are what is found.         *)
LEMMA IdsAre ==
    ASSUME NEW es \in Seq(EventElement), NEW n, n = Len(es)
    PROVE  \E g : IdsSoFar(g, es, n)
<1>1. n \in Nat
  OBVIOUS
<1>2. PICK base \in Ids : base = [section0 |-> Invalid, section1 |-> Invalid]
  BY DEF Ids, Invalid
<1>3. \A k \in 1..n, a \in Ids : Nearer(a, es[k]) \in Ids
  <2> SUFFICES ASSUME NEW k \in 1..n, NEW a \in Ids PROVE Nearer(a, es[k]) \in Ids
    OBVIOUS
  <2>1. PICK e \in EventElement : e = es[k]
    BY <1>1
  <2>2. e.id \in Nat
    BY <2>1 DEF EventElement
  <2> QED
    BY <2>1, <2>2 DEF Ids, Nearer, Invalid, Lesser
<1>4. PICK next : next = [k \in 1..n |-> [a \in Ids |-> Nearer(a, es[k])]]
  OBVIOUS
<1>5. next \in [1..n -> [Ids -> Ids]]
  BY <1>3, <1>4
<1>6. PICK g \in [0..n -> Ids] : g[0] = base /\ \A k \in 1..n : g[k] = next[k][g[k-1]]
  <2>1. \E g : Unfolds(g, Ids, base, n, next)
    BY <1>1, <1>5, Steps
  <2> QED
    BY <2>1 DEF Unfolds
<1>7. ASSUME NEW k \in 1..n PROVE g[k] = Nearer(g[k-1], es[k])
  <2>1. k - 1 \in 0..n /\ g[k-1] \in Ids /\ g[k] = next[k][g[k-1]]
    BY <1>6
  <2> QED
    BY <1>4, <2>1
<1> DEFINE Body(f) == [k \in 0..n |-> IF k = 0 THEN [section0 |-> Invalid, section1 |-> Invalid]
                                      ELSE Nearer(f[k-1], es[k])]
<1>8. \A f : f = Body(f) => f = g
  <2>1. SUFFICES ASSUME NEW f, f = Body(f) PROVE f = g
    OBVIOUS
  <2> DEFINE S == {m \in Nat : m <= n => f[m] = g[m]}
  <2>2. \A k \in 0..n : f[k] = IF k = 0 THEN base ELSE Nearer(f[k-1], es[k])
    BY <1>2, <2>1
  <2>3. 0 \in S
    BY <1>1, <1>6, <2>2
  <2>4. ASSUME NEW m \in Nat, m \in S PROVE m + 1 \in S
    <3>1. CASE m + 1 <= n
      <4>1. f[m] = g[m] /\ m + 1 \in 1..n /\ m + 1 \in 0..n /\ (m + 1) - 1 = m
        BY <2>4, <3>1
      <4>2. g[m+1] = Nearer(g[m], es[m+1])
        BY <1>7, <4>1
      <4>3. f[m+1] = Nearer(f[m], es[m+1])
        BY <2>2, <4>1
      <4> QED
        BY <4>1, <4>2, <4>3
    <3>2. CASE ~(m + 1 <= n)
      BY <3>2
    <3> QED
      BY <3>1, <3>2
  <2> HIDE DEF S
  <2>5. \A m \in Nat : m \in S
    BY <2>3, <2>4, Counting
  <2>6. \A k \in 0..n : f[k] = g[k]
    BY <2>5 DEF S
  <2>7. f = [k \in 0..n |-> f[k]]
    BY <2>1
  <2>8. g = [k \in 0..n |-> g[k]]
    OBVIOUS
  <2> QED
    BY <2>6, <2>7, <2>8
<1>9. g = Body(g)
  <2>1. \A k \in 0..n : g[k] = IF k = 0 THEN base ELSE Nearer(g[k-1], es[k])
    <3>1. SUFFICES ASSUME NEW k \in 0..n
                   PROVE  g[k] = IF k = 0 THEN base ELSE Nearer(g[k-1], es[k])
      OBVIOUS
    <3>2. CASE k = 0
      BY <1>6, <3>2
    <3>3. CASE k # 0
      <4>1. k \in 1..n
        BY <3>3
      <4> QED
        BY <1>7, <3>3, <4>1
    <3> QED
      BY <3>2, <3>3
  <2>2. g = [k \in 0..n |-> g[k]]
    OBVIOUS
  <2> QED
    BY <1>2, <2>1, <2>2
<1>10. (CHOOSE f : f = Body(f)) = g
  <2> HIDE DEF Body
  <2> QED
    BY <1>8, <1>9
<1>11. build_sections_event_id(es) = g[n]
  BY <1>1, <1>10 DEF build_sections_event_id
<1> QED
  BY <1>2, <1>6, <1>7, <1>11 DEF IdsSoFar

(* Of numbers N without 0: none, or the least of them and, if it is one of *)
(* them, the next.                                                         *)
NearestOf(N, ids) ==
    \/ N = {} /\ ids.section0 = Invalid /\ ids.section1 = Invalid
    \/ /\ ids.section0 \in N /\ \A m \in N : ids.section0 <= m
       /\ ids.section1 = IF ids.section0 + 1 \in N THEN ids.section0 + 1 ELSE ids.section0

(* A number above all the others so far keeps that so.                     *)
LEMMA NearerKeeps ==
    ASSUME NEW N \in SUBSET (Nat \ {0}), NEW ids \in Ids, NEW e, e.id \in Nat, NearestOf(N, ids),
           \A m \in N : m < e.id
    PROVE  NearestOf((N \union {e.id}) \ {0}, Nearer(ids, e))
<1>1. PICK i \in Nat : i = e.id
  OBVIOUS
<1>2. PICK a, b \in Nat : a = ids.section0 /\ b = ids.section1
  BY DEF Ids
<1> DEFINE least == IF a = 0 THEN i ELSE Lesser(i, a)
           second == IF b = 0 \/ i <= least + 1 THEN i ELSE b
<1>3. Nearer(ids, e).section0 = least /\ Nearer(ids, e).section1 = second
  BY <1>1, <1>2 DEF Nearer, Invalid
<1>4. CASE N = {}
  <2>1. a = 0 /\ b = 0
    BY <1>2, <1>4 DEF NearestOf, Invalid
  <2>2. least = i /\ second = i
    BY <2>1
  <2>3. CASE i = 0
    BY <1>1, <1>3, <1>4, <2>2, <2>3 DEF NearestOf, Invalid
  <2>4. CASE i # 0
    <3>1. (N \union {e.id}) \ {0} = {i} /\ i + 1 \notin {i} /\ \A m \in {i} : i <= m
      BY <1>1, <1>4, <2>4
    <3> QED
      BY <1>3, <2>2, <3>1 DEF NearestOf
  <2> QED
    BY <2>3, <2>4
<1>5. CASE N # {}
  <2>1. /\ a \in N /\ \A m \in N : a <= m
        /\ b = IF a + 1 \in N THEN a + 1 ELSE a
    BY <1>2, <1>5 DEF NearestOf
  <2>2. a # 0 /\ a < i /\ b # 0 /\ i # 0
    BY <1>1, <2>1
  <2>3. least = a
    BY <2>2 DEF Lesser
  <2> HIDE DEF least
  <2>4. PICK M : M = N \union {i}
    OBVIOUS
  <2>5. (N \union {e.id}) \ {0} = M /\ a \in M /\ \A m \in M : a <= m
    BY <1>1, <2>1, <2>2, <2>4
  <2>6. second = IF a + 1 \in M THEN a + 1 ELSE a
    <3>1. CASE i = a + 1
      <4>1. second = i /\ a + 1 \in M
        BY <2>3, <2>4, <3>1
      <4> QED
        BY <3>1, <4>1
    <3>2. CASE i # a + 1
      <4>1. second = b
        BY <2>2, <2>3, <3>2
      <4>2. a + 1 \in M <=> a + 1 \in N
        BY <2>4, <3>2
      <4> QED
        BY <2>1, <4>1, <4>2
    <3> QED
      BY <3>1, <3>2
  <2> HIDE DEF second
  <2> QED
    BY <1>3, <2>3, <2>5, <2>6 DEF NearestOf
<1> QED
  BY <1>4, <1>5

(* The numbers there are among the first n events.                         *)
IdsOf(es, n) == {es[k].id : k \in 1..n} \ {0}

(* Of events in ascending order the least number is found and, if there is *)
(* an event with it, the next.                                             *)
LEMMA NearestFound ==
    ASSUME NEW es \in Seq(EventElement), NEW n, n = Len(es),
           \A j, k \in 1..n : j < k => es[j].id < es[k].id
    PROVE  build_sections_event_id(es) \in Ids /\ NearestOf(IdsOf(es, n), build_sections_event_id(es))
<1>1. n \in Nat /\ \A k \in 1..n : es[k].id \in Nat
  <2> SUFFICES ASSUME NEW k \in 1..n PROVE es[k].id \in Nat
    OBVIOUS
  <2>1. PICK e \in EventElement : e = es[k]
    OBVIOUS
  <2> QED
    BY <2>1 DEF EventElement
<1>2. PICK g : IdsSoFar(g, es, n)
  BY IdsAre
<1> DEFINE S == {m \in Nat : m <= n => NearestOf(IdsOf(es, m), g[m])}
<1>3. 0 \in S
  <2>1. IdsOf(es, 0) = {}
    BY DEF IdsOf
  <2> QED
    BY <1>2, <2>1 DEF IdsSoFar, NearestOf
<1>4. ASSUME NEW m \in Nat, m \in S PROVE m + 1 \in S
  <2>1. CASE m + 1 <= n
    <3>1. m + 1 \in 1..n /\ m \in 0..n /\ (m + 1) - 1 = m /\ NearestOf(IdsOf(es, m), g[m])
      BY <1>1, <1>4, <2>1
    <3>2. g[m] \in Ids /\ g[m+1] = Nearer(g[m], es[m+1])
      BY <1>2, <3>1 DEF IdsSoFar
    <3>3. IdsOf(es, m) \in SUBSET (Nat \ {0}) /\ \A l \in IdsOf(es, m) : l < es[m+1].id
      BY <1>1, <3>1 DEF IdsOf
    <3>4. IdsOf(es, m + 1) = (IdsOf(es, m) \union {es[m+1].id}) \ {0}
      BY <1>1, <3>1 DEF IdsOf
    <3> HIDE DEF IdsOf
    <3>5. NearestOf((IdsOf(es, m) \union {es[m+1].id}) \ {0}, Nearer(g[m], es[m+1]))
      BY <1>1, <3>1, <3>2, <3>3, NearerKeeps
    <3>6. NearestOf(IdsOf(es, m + 1), g[m+1])
      BY <3>2, <3>4, <3>5
    <3> QED
      BY <3>6
  <2>2. CASE ~(m + 1 <= n)
    BY <2>2
  <2> QED
    BY <2>1, <2>2
<1> HIDE DEF S
<1>5. n \in S
  BY <1>1, <1>3, <1>4, Counting
<1> QED
  BY <1>1, <1>2, <1>5 DEF S, IdsSoFar

(* The elements of a kind in one event are those of the event.             *)
LEMMA OfOneEvent ==
    ASSUME NEW e, NEW kind
    PROVE  get_xml_node_set(<<e>>, kind) = e[kind]
<1>1. PICK x : x = e[kind]
  OBVIOUS
<1>2. PICK q : q = [k \in DOMAIN <<e>> |-> <<e>>[k][kind]]
  OBVIOUS
<1>3. DOMAIN <<e>> = 1..1 /\ Len(q) = 1 /\ q[1] = x
  BY <1>1, <1>2
<1> DEFINE Body(f) == [i \in 1..Len(q) |-> IF i = 1 THEN q[i] ELSE f[i-1] \o q[i]]
<1>4. \A f : Body(f) = [i \in 1..1 |-> x]
  <2> TAKE f
  <2>1. \A i \in 1..1 : (IF i = 1 THEN q[i] ELSE f[i-1] \o q[i]) = x
    BY <1>3
  <2> QED
    BY <1>3, <2>1
<1>5. (CHOOSE f : f = Body(f)) = [i \in 1..1 |-> x]
  <2> HIDE DEF Body
  <2> QED
    BY <1>4
<1>6. FlattenSeq(q) = x
  <2>1. FlattenSeq(q) = (CHOOSE f : f = Body(f))[Len(q)]
    BY <1>3 DEF FlattenSeq
  <2> QED
    BY <1>3, <1>5, <2>1
<1> QED
  BY <1>1, <1>2, <1>6 DEF get_xml_node_set

(* The events of the program are elements of the document.                 *)
LEMMA ListedTyped ==
    ASSUME NEW doc \in Document
    PROVE  Listed(doc) \in Seq(EventElement)
<1>1. PICK s \in Seq(EventElement) : s = doc.events
  BY DEF Document
<1> QED
  BY <1>1, ChosenTyped DEF Listed, Events

(* The event with a number that is one of the program's.                   *)
LEMMA EventFound ==
    ASSUME NEW doc \in Document, Ascending(doc), NEW id \in Numbers(doc)
    PROVE  /\ EventWith(doc, id) \in EventElement /\ EventWith(doc, id).id = id /\ id \in Nat \ {0}
           /\ Of(Listed(doc), id) = <<EventWith(doc, id)>>
<1>1. PICK es \in Seq(EventElement) : es = Listed(doc)
  BY ListedTyped
<1>2. PICK n \in Nat : n = Len(es) /\ DOMAIN es = 1..n
  OBVIOUS
<1>3. \A k \in 1..n : es[k] \in EventElement /\ es[k].id \in Nat
  <2> SUFFICES ASSUME NEW k \in 1..n PROVE es[k] \in EventElement /\ es[k].id \in Nat
    OBVIOUS
  <2>1. PICK e \in EventElement : e = es[k]
    BY <1>2
  <2> QED
    BY <2>1 DEF EventElement
<1>4. \A j, k \in 1..n : j < k => es[j].id < es[k].id
  BY <1>1, <1>2 DEF Ascending
<1>5. Program(doc) = {es[k] : k \in {j \in 1..n : es[j].id # 0}}
  BY <1>1, <1>2 DEF Program, Range
<1>6. PICK p \in 1..n : es[p].id = id /\ id # 0
  BY <1>5 DEF Numbers
<1>7. PICK e : e = es[p]
  OBVIOUS
<1>8. \A k \in 1..n : es[k].id = id <=> k = p
  <2> SUFFICES ASSUME NEW k \in 1..n, es[k].id = id, k # p PROVE FALSE
    BY <1>6
  <2>1. es[k].id \in Nat /\ es[p].id \in Nat /\ (k < p \/ p < k)
    BY <1>3
  <2> QED
    BY <1>4, <1>6, <2>1
<1>9. e \in Program(doc) /\ e.id = id
  BY <1>5, <1>6, <1>7
<1>10. \A x \in Program(doc) : x.id = id => x = e
  BY <1>5, <1>7, <1>8
<1>11. EventWith(doc, id) = e
  BY <1>9, <1>10 DEF EventWith
<1>12. {k \in DOMAIN es : es[k].id = id} = {p}
  BY <1>2, <1>8
<1>13. Of(es, id) = <<e>>
  BY <1>2, <1>7, <1>12, ChosenOne DEF Of
<1> QED
  BY <1>1, <1>3, <1>6, <1>7, <1>11, <1>13

(* Of events in ascending order, the present and the following one are     *)
(* found as the video has them.                                            *)
LEMMA WantedFound ==
    ASSUME NEW doc \in Document, Ascending(doc), NEW ids, ids = build_sections_event_id(Listed(doc))
    PROVE  /\ ids \in Ids
           /\ Program(doc) = {} => ids.section0 = Invalid
           /\ Program(doc) # {} =>
                 \A s \in {0, 1} :
                    /\ ids[SectionName(s)] # Invalid
                    /\ Wanted(doc, s) \in EventElement /\ Wanted(doc, s).id = ids[SectionName(s)]
                    /\ Of(Listed(doc), ids[SectionName(s)]) = <<Wanted(doc, s)>>
<1>1. PICK es \in Seq(EventElement) : es = Listed(doc)
  BY ListedTyped
<1>2. PICK n \in Nat : n = Len(es) /\ DOMAIN es = 1..n
  OBVIOUS
<1>3. \A j, k \in 1..n : j < k => es[j].id < es[k].id
  BY <1>1, <1>2 DEF Ascending
<1>4. ids \in Ids /\ NearestOf(IdsOf(es, n), ids)
  BY <1>1, <1>2, <1>3, NearestFound
<1>5. Program(doc) = {es[k] : k \in {j \in 1..n : es[j].id # 0}}
  BY <1>1, <1>2 DEF Program, Range
<1>6. Numbers(doc) = IdsOf(es, n)
  BY <1>5 DEF Numbers, IdsOf
<1>7. Program(doc) = {} <=> Numbers(doc) = {}
  BY DEF Numbers
<1>8. Program(doc) = {} => ids.section0 = Invalid
  BY <1>4, <1>6, <1>7 DEF NearestOf
<1>9. ASSUME Program(doc) # {}, NEW s \in {0, 1}
      PROVE  /\ ids[SectionName(s)] # Invalid
             /\ Wanted(doc, s) \in EventElement /\ Wanted(doc, s).id = ids[SectionName(s)]
             /\ Of(Listed(doc), ids[SectionName(s)]) = <<Wanted(doc, s)>>
  <2>1. PICK N : N = Numbers(doc)
    OBVIOUS
  <2>2. PICK a \in Nat : a = ids.section0 /\ a \in N /\ \A m \in N : a <= m
    BY <1>4, <1>6, <1>7, <1>9, <2>1 DEF NearestOf, Ids
  <2>3. ids.section1 = IF a + 1 \in N THEN a + 1 ELSE a
    BY <1>4, <1>6, <1>7, <1>9, <2>1, <2>2 DEF NearestOf
  <2>4. \A m \in N : m \in Nat
    BY <2>1, EventFound
  <2>5. Present(doc) = a
    <3>1. \A x \in N : (\A m \in N : x <= m) => x = a
      BY <2>2, <2>4
    <3>2. Present(doc) = CHOOSE x \in N : \A m \in N : x <= m
      BY <2>1 DEF Present
    <3> QED
      BY <2>2, <3>1, <3>2
  <2>6. Following(doc) = ids.section1
    BY <2>1, <2>3, <2>5 DEF Following
  <2>7. PICK i : i = IF s = 0 THEN Present(doc) ELSE Following(doc)
    OBVIOUS
  <2>8. Wanted(doc, s) = EventWith(doc, i)
    BY <2>7 DEF Wanted
  <2>9. i = ids[SectionName(s)] /\ i \in Numbers(doc)
    BY <2>1, <2>2, <2>3, <2>5, <2>6, <2>7 DEF SectionName
  <2>10. /\ EventWith(doc, i) \in EventElement /\ EventWith(doc, i).id = i /\ i \in Nat \ {0}
         /\ Of(Listed(doc), i) = <<EventWith(doc, i)>>
    BY <2>9, EventFound
  <2> QED
    BY <2>8, <2>9, <2>10 DEF Invalid
<1> QED
  BY <1>4, <1>8, <1>9

(* What of an event the section has after the conversion.                  *)
Printed(e) == build_eit_section(Uninitialised, e.id, <<e>>)
(* The same when its JSON has been read again.                             *)
Announced(e) == json_parse(convert_eit_struct_to_json(Printed(e))).section

(* A video with its events in ascending order is converted if it has       *)
(* events, and they have dates; the sections are then those of its present *)
(* and of its following event.                                             *)
LEMMA VideoConverted ==
    ASSUME NEW doc \in Document, Ascending(doc),
           NEW converted, converted = convert_xml_to_eit_struct(Both(Uninitialised), doc)
    PROVE  /\ converted # Failed <=> Faultless(doc)
           /\ converted # Failed =>
                 /\ DOMAIN converted.eit = Sections
                 /\ \A s \in {0, 1} :
                       /\ Wanted(doc, s) \in EventElement /\ Wanted(doc, s).duration # 0
                       /\ converted.eit[SectionName(s)] = Printed(Wanted(doc, s))
<1>1. PICK program : program = build_program_number(doc)
  OBVIOUS
<1>2. PICK es : es = Listed(doc) /\ es = Events(doc, program)
  BY <1>1 DEF Listed
<1>3. PICK ids : ids = build_sections_event_id(es)
  OBVIOUS
<1>4. /\ ids \in Ids
      /\ Program(doc) = {} => ids.section0 = Invalid
      /\ Program(doc) # {} =>
            \A s \in {0, 1} :
               /\ ids[SectionName(s)] # Invalid
               /\ Wanted(doc, s) \in EventElement /\ Wanted(doc, s).id = ids[SectionName(s)]
               /\ Of(es, ids[SectionName(s)]) = <<Wanted(doc, s)>>
  BY <1>2, <1>3, WantedFound
<1>5. DOMAIN ids = Sections /\ Sections = {SectionName(s) : s \in {0, 1}}
      /\ SectionName(0) = "section0" /\ SectionName(1) = "section1"
  BY <1>4 DEF Ids, Sections, SectionName
<1>6. program = Invalid <=> doc.programs = <<>> \/ Head(doc.programs) = 0
  BY <1>1 DEF build_program_number, Invalid
<1> DEFINE Wrong == \/ doc.malformed
                    \/ program = Invalid
                    \/ Invalid \in {ids.section0, ids.section1}
                    \/ \E s \in DOMAIN ids : ~build_starttime_duration(Of(es, ids[s]))
           Made == [result |-> "done",
                    eit |-> [s \in DOMAIN ids |-> build_eit_section(Both(Uninitialised)[s], ids[s], Of(es, ids[s]))]]
<1>7. converted = IF Wrong THEN Failed ELSE Made
  BY <1>1, <1>2, <1>3 DEF convert_xml_to_eit_struct
<1>8. Made # Failed
  BY DEF Failed
<1>9. converted # Failed <=> ~Wrong
  BY <1>7, <1>8
<1>10. Invalid \in {ids.section0, ids.section1} <=> Program(doc) = {}
  BY <1>4, <1>5
<1>11. ASSUME Program(doc) # {}, NEW s \in {0, 1}
       PROVE  build_starttime_duration(Of(es, ids[SectionName(s)]))
                <=> Wanted(doc, s).starttime # 0 /\ Wanted(doc, s).duration # 0
  <2>1. PICK e : e = Wanted(doc, s)
    OBVIOUS
  <2>2. Of(es, ids[SectionName(s)]) = <<e>> /\ Head(<<e>>) = e
    BY <1>4, <1>11, <2>1
  <2> QED
    BY <2>1, <2>2 DEF build_starttime_duration
<1>12. ~Wrong <=> Faultless(doc)
  <2>1. CASE Program(doc) = {}
    BY <1>10, <2>1 DEF Faultless
  <2>2. CASE Program(doc) # {}
    <3>1. (\E s \in DOMAIN ids : ~build_starttime_duration(Of(es, ids[s])))
            <=> ~(\A s \in {0, 1} : Wanted(doc, s).starttime # 0 /\ Wanted(doc, s).duration # 0)
      BY <1>5, <1>11, <2>2
    <3> QED
      BY <1>6, <1>10, <2>2, <3>1 DEF Faultless
  <2> QED
    BY <2>1, <2>2
<1> HIDE DEF Wrong
<1>13. ASSUME ~Wrong, NEW s \in {0, 1}
       PROVE  /\ Wanted(doc, s) \in EventElement /\ Wanted(doc, s).duration # 0
              /\ Made.eit[SectionName(s)] = Printed(Wanted(doc, s))
  <2>1. Program(doc) # {}
    BY <1>10, <1>13 DEF Wrong
  <2>2. Wanted(doc, s) \in EventElement /\ ids[SectionName(s)] = Wanted(doc, s).id
        /\ Of(es, ids[SectionName(s)]) = <<Wanted(doc, s)>>
    BY <1>4, <2>1
  <2>3. Wanted(doc, s).duration # 0
    BY <1>12, <1>13 DEF Faultless
  <2>4. SectionName(s) \in DOMAIN ids /\ Both(Uninitialised)[SectionName(s)] = Uninitialised
    BY <1>5 DEF Both, SectionName
  <2>5. Made.eit[SectionName(s)] = build_eit_section(Uninitialised, ids[SectionName(s)], Of(es, ids[SectionName(s)]))
    BY <2>4
  <2> QED
    BY <2>2, <2>3, <2>5 DEF Printed
<1>14. DOMAIN Made.eit = Sections
  BY <1>5
<1> QED
  BY <1>7, <1>9, <1>12, <1>13, <1>14

-----------------------------------------------------------------------------
(* What of an event is announced.                                          *)

(* What of an event the section takes: the first rating, the first content,*)
(* the components there is room for, and of those the ones with a tag.     *)
RatingOf(e) == FirstOf(e.PARENTAL_RATING_DESC, Rating(0))
FirstContent(e) == FirstOf(e.CONTENT_DESC, Content(0))
PartsOf(e) == UpToSize(e.COMPONENT_DESC, ComponentSize)
TaggedParts(e) == Chosen(PartsOf(e), {k \in DOMAIN PartsOf(e) : PartsOf(e)[k].tag # 0})

(* The elements of events that fit in the memory of a section.             *)
ComponentElement == [stream : 0..255, tag : 0..255, text : Nat]
ContentElement == [level_1 : 0..15, level_2 : 0..15, user : 0..255]
RatingElement == [age : 0..255, country_code : 0..TextSize]

(* The sizes are numbers, and none is zero.                                *)
LEMMA SizesTyped == /\ TextSize \in Nat \ {0} /\ ComponentSize \in Nat \ {0} /\ ContentSize \in Nat \ {0}
                    /\ ItemSize \in Nat \ {0} /\ CaSize \in Nat \ {0} /\ ReadSize \in Nat \ {0}
                    /\ ShownSize \in Nat \ {0} /\ event_id \in Nat \ {0} /\ DefaultDuration \in Nat \ {0}
                    /\ ShownSize <= TextSize /\ PoolSize \in Nat /\ PoolSize >= 2 /\ MaxNow \in Nat
BY SectionAssumption, XmlAssumption, GenerateAssumption, IniAssumption, SourcesAssumption
   DEF SectionAssumption, XmlAssumption, GenerateAssumption, IniAssumption, SourcesAssumption

(* What is cut off is behind what is kept.                                 *)
LEMMA UpToSizeIs ==
    ASSUME NEW A, NEW s \in Seq(A), NEW n \in Nat
    PROVE  /\ UpToSize(s, n) \in Seq(A) /\ Len(UpToSize(s, n)) = Lesser(n, Len(s))
           /\ \A k \in 1..Lesser(n, Len(s)) : UpToSize(s, n)[k] = s[k]
<1>1. PICK m \in Nat : m = Lesser(n, Len(s)) /\ m <= Len(s)
  BY DEF Lesser
<1>2. UpToSize(s, n) = SubSeq(s, 1, m)
  BY <1>1 DEF UpToSize
<1> QED
  BY <1>1, <1>2

(* The elements of an event are typed.                                     *)
LEMMA EventTyped ==
    ASSUME NEW e \in EventElement
    PROVE  /\ e.id \in Nat /\ e.starttime \in Nat /\ e.duration \in Nat
           /\ FirstOf(e.SHORT_EVENT_DESC, 0) \in Nat
           /\ RatingOf(e) \in RatingElement
           /\ FirstContent(e) \in ContentElement
           /\ e.CONTENT_DESC \in Seq(ContentElement)
           /\ e.COMPONENT_DESC \in Seq(ComponentElement)
<1>1. /\ e.id \in Nat /\ e.starttime \in Nat /\ e.duration \in Nat
      /\ e.SHORT_EVENT_DESC \in Seq(Nat) /\ e.PARENTAL_RATING_DESC \in Seq(RatingElement)
      /\ e.CONTENT_DESC \in Seq(ContentElement) /\ e.COMPONENT_DESC \in Seq(ComponentElement)
  BY DEF EventElement, RatingElement, ContentElement, ComponentElement
<1>2. FirstOf(e.SHORT_EVENT_DESC, 0) \in Nat
  BY <1>1 DEF FirstOf
<1>3. RatingOf(e) \in RatingElement
  <2>1. Rating(0) \in RatingElement
    BY SizesTyped DEF Rating, RatingElement
  <2> HIDE DEF RatingElement
  <2> QED
    BY <1>1, <2>1 DEF RatingOf, FirstOf
<1>4. FirstContent(e) \in ContentElement
  <2>1. Content(0) \in ContentElement
    BY DEF Content, ContentElement
  <2> HIDE DEF ContentElement
  <2> QED
    BY <1>1, <2>1 DEF FirstContent, FirstOf
<1> QED
  BY <1>1, <1>2, <1>3, <1>4

(* What the section has after the conversion from XML.                     *)
LEMMA PrintedIs ==
    ASSUME NEW e \in EventElement
    PROVE  /\ Printed(e).duration = e.duration
           /\ Printed(e).short = Lesser(FirstOf(e.SHORT_EVENT_DESC, 0), TextSize + 1)
           /\ Printed(e).rating = RatingOf(e)
           /\ Printed(e).content[1] = [FirstContent(e) EXCEPT !.user = 0]
           /\ Printed(e).component = Filled(Times(ComponentSize, Component(0)), e.COMPONENT_DESC)
<1> DEFINE es == <<e>>
<1>1. /\ Head(es) = e
      /\ get_xml_node_set(es, "SHORT_EVENT_DESC") = e.SHORT_EVENT_DESC
      /\ get_xml_node_set(es, "PARENTAL_RATING_DESC") = e.PARENTAL_RATING_DESC
      /\ get_xml_node_set(es, "CONTENT_DESC") = e.CONTENT_DESC
      /\ get_xml_node_set(es, "COMPONENT_DESC") = e.COMPONENT_DESC
  BY OfOneEvent
<1>2. /\ Printed(e).duration = Head(es).duration
      /\ Printed(e).short = build_short_event(es)
      /\ Printed(e).rating = build_parental_rating(es)
      /\ Printed(e).content = build_content_desc(es)
      /\ Printed(e).component = build_component_desc(es)
  BY DEF Printed, build_eit_section, Uninitialised, SectionOf
<1> HIDE DEF es
<1>3. build_content_desc(es)[1] = [FirstContent(e) EXCEPT !.user = 0]
  <2>1. PICK s \in Seq(ContentElement) : s = e.CONTENT_DESC
    BY EventTyped
  <2>2. PICK c \in Seq(ContentElement) :
           /\ c = UpToSize(s, ComponentSize) /\ Len(c) = Lesser(ComponentSize, Len(s))
           /\ \A k \in 1..Lesser(ComponentSize, Len(s)) : c[k] = s[k]
    <3>1. ComponentSize \in Nat
      BY SizesTyped
    <3>2. /\ UpToSize(s, ComponentSize) \in Seq(ContentElement)
          /\ Len(UpToSize(s, ComponentSize)) = Lesser(ComponentSize, Len(s))
          /\ \A k \in 1..Lesser(ComponentSize, Len(s)) : UpToSize(s, ComponentSize)[k] = s[k]
      BY <3>1, UpToSizeIs
    <3> QED
      BY <3>2
  <2> DEFINE d == [k \in DOMAIN c |-> [c[k] EXCEPT !.user = 0]]
             t == Times(ContentSize, Content(0))
  <2>3. build_content_desc(es) = Filled(t, d)
    BY <1>1, <2>1, <2>2 DEF build_content_desc
  <2>4. 1 \in DOMAIN t /\ t[1] = Content(0)
    BY SizesTyped DEF Times
  <2>5. Filled(t, d)[1] = IF 1 \in DOMAIN d THEN d[1] ELSE Content(0)
    BY <2>4 DEF Filled
  <2>6. CASE s = <<>>
    <3>1. 1 \notin DOMAIN c
      BY <2>2, <2>6, SizesTyped DEF Lesser
    <3>2. FirstContent(e) = Content(0)
      BY <2>1, <2>6 DEF FirstContent, FirstOf
    <3> QED
      BY <2>3, <2>5, <3>1, <3>2 DEF Content
  <2>7. CASE s # <<>>
    <3>1. 1 \in 1..Lesser(ComponentSize, Len(s)) /\ 1 \in DOMAIN c
      BY <2>1, <2>2, <2>7, SizesTyped DEF Lesser
    <3>2. c[1] = s[1] /\ FirstContent(e) = s[1]
      BY <2>1, <2>2, <2>7, <3>1 DEF FirstContent, FirstOf
    <3> QED
      BY <2>3, <2>5, <3>1, <3>2
  <2> QED
    BY <2>6, <2>7
<1> QED
  BY <1>1, <1>2, <1>3 DEF build_short_event, build_parental_rating, build_component_desc, RatingOf, strncpy

(* The components with a tag in the section are those that the event has.  *)
LEMMA TaggedIs ==
    ASSUME NEW e \in EventElement
    PROVE  /\ Tagged(Filled(Times(ComponentSize, Component(0)), e.COMPONENT_DESC)) = TaggedParts(e)
           /\ TaggedParts(e) \in Seq(ComponentElement) /\ Len(TaggedParts(e)) <= ComponentSize
<1>1. PICK s \in Seq(ComponentElement) : s = e.COMPONENT_DESC
  BY EventTyped
<1>2. PICK n \in Nat : n = ComponentSize
  BY SizesTyped
<1>3. PICK p \in Seq(ComponentElement) :
         /\ p = PartsOf(e) /\ Len(p) = Lesser(n, Len(s)) /\ \A k \in 1..Lesser(n, Len(s)) : p[k] = s[k]
  <2>1. /\ UpToSize(s, n) \in Seq(ComponentElement) /\ Len(UpToSize(s, n)) = Lesser(n, Len(s))
        /\ \A k \in 1..Lesser(n, Len(s)) : UpToSize(s, n)[k] = s[k]
    BY UpToSizeIs
  <2>2. PartsOf(e) = UpToSize(s, n)
    BY <1>1, <1>2 DEF PartsOf
  <2> QED
    BY <2>1, <2>2
<1>4. PICK m \in Nat : m = Len(p) /\ m <= n /\ DOMAIN p = 1..m
                       /\ (\A k \in 1..n : k \in DOMAIN s <=> k <= m)
  BY <1>1, <1>2, <1>3 DEF Lesser
<1> DEFINE t == Filled(Times(n, Component(0)), s)
<1>5. Component(0) \in ComponentElement
  BY DEF Component, ComponentElement
<1>6. t = [k \in 1..n |-> IF k \in DOMAIN s THEN s[k] ELSE Component(0)]
  BY DEF Filled, Times
<1>7. t \in Seq(ComponentElement) /\ Len(t) = n /\ DOMAIN t = 1..n
  <2>1. \A k \in 1..n : (IF k \in DOMAIN s THEN s[k] ELSE Component(0)) \in ComponentElement
    BY <1>5
  <2> HIDE DEF ComponentElement
  <2> QED
    BY <1>2, <1>6, <2>1
<1>8. \A k \in 1..m : t[k] = p[k]
  BY <1>3, <1>4, <1>6
<1>9. \A k \in 1..n : k > m => t[k].tag = 0
  <2> SUFFICES ASSUME NEW k \in 1..n, k > m PROVE t[k].tag = 0
    OBVIOUS
  <2>1. t[k] = Component(0)
    BY <1>4, <1>6
  <2> QED
    BY <2>1 DEF Component
<1> HIDE DEF t
<1>10. {k \in DOMAIN t : t[k].tag # 0} = {k \in DOMAIN p : p[k].tag # 0}
  BY <1>4, <1>7, <1>8, <1>9
<1>11. PICK places : places = {k \in DOMAIN p : p[k].tag # 0}
  OBVIOUS
<1>12. places \subseteq 1..Len(p) /\ Len(p) <= Len(t) /\ \A k \in 1..Len(p) : p[k] = t[k]
  BY <1>4, <1>7, <1>8, <1>11
<1>13. Chosen(p, places) = Chosen(t, places)
  BY <1>7, <1>12, ChosenBeginning
<1>14. Tagged(t) = Chosen(t, places) /\ TaggedParts(e) = Chosen(p, places)
  BY <1>3, <1>10, <1>11 DEF Tagged, TaggedParts
<1>15. Chosen(p, places) \in Seq(ComponentElement) /\ Len(Chosen(p, places)) <= m
  BY <1>4, ChosenTyped
<1>16. Len(Chosen(p, places)) <= n
  <2>1. PICK l \in Nat : l = Len(Chosen(p, places))
    BY <1>15
  <2> QED
    BY <1>4, <1>15, <2>1
<1> QED
  BY <1>1, <1>2, <1>13, <1>14, <1>15, <1>16 DEF t

(* The section as JSON, field by field.                                    *)
LEMMA WrittenIs ==
    ASSUME NEW s, NEW o, o = convert_eit_struct_to_json(s)
    PROVE  /\ o.type = "object" /\ o.duration = JsonInt(s.duration) /\ o.starttime = None
           /\ o.SHORT_EVENT_DESCRIPTOR = [type |-> "object", text |-> JsonText(Word(s.short))]
           /\ o.PARENTAL_RATING_DESCRIPTOR =
                 IF s.rating.age = 0 THEN [type |-> "object", age |-> None, country_code |-> None]
                 ELSE rating_to_json(s.rating)
           /\ o.CONTENT_DESCRIPTOR =
                 JsonArray(IF s.content[1].level_1 = 0 THEN <<>> ELSE <<content_to_json(s.content[1])>>)
           /\ o.COMPONENT_DESCRIPTOR =
                 JsonArray([k \in DOMAIN Tagged(s.component) |-> component_to_json(Tagged(s.component)[k])])
           /\ o.EXTENDED_EVENT_DESCRIPTOR = None /\ o.CA_IDENTIFIER_DESCRIPTOR = None
           /\ o.SHORT_SMOOTHING_BUFFER_DESCRIPTOR = None
BY DEF convert_eit_struct_to_json

(* What the parser reads of it.                                            *)
LEMMA ReadIs ==
    ASSUME NEW o, Accepted(o)
    PROVE  /\ json_parse(o) # Malformed
           /\ json_parse(o).section.duration = IntOf(o.duration, 0)
           /\ json_parse(o).section.short =
                 StringOf(IF o.SHORT_EVENT_DESCRIPTOR.type = "none" THEN None ELSE o.SHORT_EVENT_DESCRIPTOR.text, 0)
           /\ json_parse(o).section.rating =
                 [age |-> IntOf(IF o.PARENTAL_RATING_DESCRIPTOR.type = "none" THEN None
                                ELSE o.PARENTAL_RATING_DESCRIPTOR.age, 0) % 256,
                  country_code |-> StringOf(IF o.PARENTAL_RATING_DESCRIPTOR.type = "none" THEN None
                                            ELSE o.PARENTAL_RATING_DESCRIPTOR.country_code, 0)]
           /\ json_parse(o).section.component =
                 [k \in 1..ComponentSize |-> IF k \in DOMAIN Fits(o.COMPONENT_DESCRIPTOR, ComponentSize)
                                             THEN component_of(o.COMPONENT_DESCRIPTOR.items[k], Component(0))
                                             ELSE Component(0)]
           /\ json_parse(o).section.content =
                 [k \in 1..ContentSize |-> IF k \in DOMAIN Fits(o.CONTENT_DESCRIPTOR, ContentSize)
                                           THEN content_of(o.CONTENT_DESCRIPTOR.items[k], Content(0))
                                           ELSE Content(0)]
<1> DEFINE Z == Zeroed
<1>1. /\ Z.duration = 0 /\ Z.short = 0 /\ Z.rating = Rating(0)
      /\ Z.component = Times(ComponentSize, Component(0)) /\ Z.content = Times(ContentSize, Content(0))
      /\ DOMAIN Z = {"starttime", "duration", "event_id", "short", "ext", "items", "component", "rating",
                     "content", "ca", "leak"}
  BY DEF Zeroed, SectionOf
<1> HIDE DEF Z
<1>2. Rating(0).age = 0 /\ Rating(0).country_code = 0
  BY DEF Rating
<1>3. json_parse(o).type = "section" /\ json_parse(o) # Malformed
  BY DEF json_parse, Malformed
<1>4. json_parse(o).section.duration = IntOf(o.duration, Z.duration)
  BY <1>1 DEF json_parse, Allocated, Z
<1>5. json_parse(o).section.short =
        StringOf(IF o.SHORT_EVENT_DESCRIPTOR.type = "none" THEN None ELSE o.SHORT_EVENT_DESCRIPTOR.text, Z.short)
  BY <1>1 DEF json_parse, Allocated, Z
<1>6. json_parse(o).section.rating =
         [age |-> IntOf(IF o.PARENTAL_RATING_DESCRIPTOR.type = "none" THEN None
                        ELSE o.PARENTAL_RATING_DESCRIPTOR.age, Z.rating.age) % 256,
          country_code |-> StringOf(IF o.PARENTAL_RATING_DESCRIPTOR.type = "none" THEN None
                                    ELSE o.PARENTAL_RATING_DESCRIPTOR.country_code, Z.rating.country_code)]
  BY <1>1 DEF json_parse, Allocated, Z
<1>7. DOMAIN Z.component = 1..ComponentSize /\ Len(Z.component) = ComponentSize
      /\ \A k \in 1..ComponentSize : Z.component[k] = Component(0)
  BY <1>1, SizesTyped DEF Times
<1>8. DOMAIN Z.content = 1..ContentSize /\ Len(Z.content) = ContentSize
      /\ \A k \in 1..ContentSize : Z.content[k] = Content(0)
  BY <1>1, SizesTyped DEF Times
<1>9. json_parse(o).section.component =
        [k \in 1..ComponentSize |-> IF k \in DOMAIN Fits(o.COMPONENT_DESCRIPTOR, ComponentSize)
                                     THEN component_of(o.COMPONENT_DESCRIPTOR.items[k], Component(0))
                                     ELSE Component(0)]
  <2>1. json_parse(o).section.component =
          [k \in DOMAIN Z.component |->
             IF k \in DOMAIN Fits(o.COMPONENT_DESCRIPTOR, Len(Z.component))
             THEN component_of(o.COMPONENT_DESCRIPTOR.items[k], Z.component[k]) ELSE Z.component[k]]
    BY <1>1 DEF json_parse, Allocated, Z, Parsed
  <2> QED
    BY <1>7, <2>1
<1>10. json_parse(o).section.content =
        [k \in 1..ContentSize |-> IF k \in DOMAIN Fits(o.CONTENT_DESCRIPTOR, ContentSize)
                                   THEN content_of(o.CONTENT_DESCRIPTOR.items[k], Content(0))
                                   ELSE Content(0)]
  <2>1. json_parse(o).section.content =
          [k \in DOMAIN Z.content |->
             IF k \in DOMAIN Fits(o.CONTENT_DESCRIPTOR, Len(Z.content))
             THEN content_of(o.CONTENT_DESCRIPTOR.items[k], Z.content[k]) ELSE Z.content[k]]
    BY <1>1 DEF json_parse, Allocated, Z, Parsed
  <2> QED
    BY <1>8, <2>1
<1> QED
  BY <1>1, <1>2, <1>3, <1>4, <1>5, <1>6, <1>9, <1>10

(* What the conversion to JSON writes, the parser accepts.                 *)
LEMMA WrittenIsAccepted ==
    ASSUME NEW s, NEW A, Tagged(s.component) \in Seq(A)
    PROVE  Accepted(convert_eit_struct_to_json(s))
<1>1. PICK o : o = convert_eit_struct_to_json(s)
  OBVIOUS
<1>2. /\ o.type = "object" /\ o.duration = JsonInt(s.duration) /\ o.starttime = None
      /\ o.SHORT_EVENT_DESCRIPTOR = [type |-> "object", text |-> JsonText(Word(s.short))]
      /\ o.PARENTAL_RATING_DESCRIPTOR =
            IF s.rating.age = 0 THEN [type |-> "object", age |-> None, country_code |-> None]
            ELSE rating_to_json(s.rating)
      /\ o.CONTENT_DESCRIPTOR =
            JsonArray(IF s.content[1].level_1 = 0 THEN <<>> ELSE <<content_to_json(s.content[1])>>)
      /\ o.COMPONENT_DESCRIPTOR =
            JsonArray([k \in DOMAIN Tagged(s.component) |-> component_to_json(Tagged(s.component)[k])])
      /\ o.EXTENDED_EVENT_DESCRIPTOR = None /\ o.CA_IDENTIFIER_DESCRIPTOR = None
      /\ o.SHORT_SMOOTHING_BUFFER_DESCRIPTOR = None
  BY <1>1, WrittenIs
<1>3. Good(o.SHORT_EVENT_DESCRIPTOR, "object", GoodShort)
  BY <1>2 DEF Good, Has, GoodShort, IsString, JsonText
<1>4. Good(o.EXTENDED_EVENT_DESCRIPTOR, "object", GoodExtended)
  BY <1>2 DEF Good, Has, None
<1>5. Good(o.PARENTAL_RATING_DESCRIPTOR, "object", GoodRating)
  BY <1>2 DEF Good, Has, GoodRating, IsInt, IsString, JsonInt, JsonText, None, rating_to_json
<1>6. Good(o.SHORT_SMOOTHING_BUFFER_DESCRIPTOR, "object", GoodLeak) /\ AllGood(o.CA_IDENTIFIER_DESCRIPTOR, CaSize, GoodCa)
  BY <1>2 DEF Good, Has, None, AllGood
<1>7. IsInt(o.starttime) /\ IsInt(o.duration)
  BY <1>2 DEF IsInt, Has, None, JsonInt
<1>8. AllGood(o.COMPONENT_DESCRIPTOR, ComponentSize, GoodComponent)
  <2>1. PICK t \in Seq(A) : t = Tagged(s.component)
    OBVIOUS
  <2>2. PICK n \in Nat : n = ComponentSize
    BY SizesTyped
  <2>3. PICK q : q = [k \in DOMAIN t |-> component_to_json(t[k])]
    OBVIOUS
  <2>4. PICK m \in Nat : m = Len(t) /\ DOMAIN t = 1..m
    OBVIOUS
  <2>5. Len(q) = m /\ \A k \in 1..m : q[k] = component_to_json(t[k])
    BY <2>3, <2>4
  <2>6. o.COMPONENT_DESCRIPTOR.items = q /\ o.COMPONENT_DESCRIPTOR.type = "array"
    BY <1>2, <2>1, <2>3 DEF JsonArray
  <2>7. \A c : GoodComponent(component_to_json(c))
    BY DEF GoodComponent, component_to_json, IsNumber, IsInt, IsString, Has, JsonInt, JsonText
  <2>8. DOMAIN Fits(o.COMPONENT_DESCRIPTOR, n) \subseteq 1..m
    BY <2>2, <2>4, <2>5, <2>6 DEF Fits, UpToSize, Lesser
  <2>9. \A k \in DOMAIN Fits(o.COMPONENT_DESCRIPTOR, n) : GoodComponent(o.COMPONENT_DESCRIPTOR.items[k])
    BY <2>5, <2>6, <2>7, <2>8
  <2> QED
    BY <2>2, <2>6, <2>9 DEF AllGood, Good, Has
<1>9. AllGood(o.CONTENT_DESCRIPTOR, ContentSize, GoodContent)
  <2>1. PICK n \in Nat : n = ContentSize
    BY SizesTyped
  <2>2. PICK q : q = IF s.content[1].level_1 = 0 THEN <<>> ELSE <<content_to_json(s.content[1])>>
    OBVIOUS
  <2>3. o.CONTENT_DESCRIPTOR.items = q /\ o.CONTENT_DESCRIPTOR.type = "array"
    BY <1>2, <2>2 DEF JsonArray
  <2>4. \A c : GoodContent(content_to_json(c))
    BY DEF GoodContent, content_to_json, IsNumber, Has, JsonInt, None
  <2>5. DOMAIN Fits(o.CONTENT_DESCRIPTOR, n) \subseteq DOMAIN q
    BY <2>1, <2>2, <2>3 DEF Fits, UpToSize, Lesser
  <2>6. \A k \in DOMAIN q : GoodContent(q[k])
    BY <2>2, <2>4
  <2> QED
    BY <2>1, <2>3, <2>5, <2>6 DEF AllGood, Good, Has
<1> QED
  BY <1>1, <1>2, <1>3, <1>4, <1>5, <1>6, <1>7, <1>8, <1>9 DEF Accepted

(* A section has what the event has.                                       *)
Carries(s, e) ==
    /\ s.duration = e.duration
    /\ s.short = Lesser(FirstOf(e.SHORT_EVENT_DESC, 0), TextSize)
    /\ s.rating = IF RatingOf(e).age = 0 THEN Rating(0) ELSE RatingOf(e)
    /\ s.component = [k \in 1..ComponentSize |->
                        IF k \in DOMAIN TaggedParts(e)
                        THEN [TaggedParts(e)[k] EXCEPT !.text = Lesser(@, TextSize)] ELSE Component(0)]
    /\ s.content = [k \in 1..ContentSize |->
                      IF k = 1 /\ FirstContent(e).level_1 # 0 THEN [FirstContent(e) EXCEPT !.user = 0]
                      ELSE Content(0)]

(* What is announced of an event is what it has.                           *)
LEMMA AnnouncedIs ==
    ASSUME NEW e \in EventElement
    PROVE  /\ json_parse(convert_eit_struct_to_json(Printed(e))) # Malformed
           /\ Carries(Announced(e), e)
<1>1. PICK p : p = Printed(e)
  OBVIOUS
<1>2. PICK o : o = convert_eit_struct_to_json(p)
  OBVIOUS
<1>3. PICK t \in Seq(ComponentElement) : t = TaggedParts(e)
  BY TaggedIs
<1>4. PICK n \in Nat \ {0}, m \in Nat : n = ComponentSize /\ m = Len(t) /\ m <= n /\ DOMAIN t = 1..m
  <2>1. Len(t) <= ComponentSize
    BY <1>3, TaggedIs
  <2>2. ComponentSize \in Nat \ {0} /\ Len(t) \in Nat /\ DOMAIN t = 1..Len(t)
    BY <1>3, SizesTyped
  <2> QED
    BY <2>1, <2>2
<1>5. /\ p.duration = e.duration
      /\ p.short = Lesser(FirstOf(e.SHORT_EVENT_DESC, 0), TextSize + 1)
      /\ p.rating = RatingOf(e)
      /\ p.content[1] = [FirstContent(e) EXCEPT !.user = 0]
      /\ Tagged(p.component) = t
  BY <1>1, <1>3, PrintedIs, TaggedIs
<1>6. Accepted(o)
  <2>1. Tagged(p.component) \in Seq(ComponentElement)
    BY <1>5
  <2> QED
    BY <1>2, <2>1, WrittenIsAccepted
<1>7. json_parse(o) # Malformed /\ Announced(e) = json_parse(o).section
  BY <1>1, <1>2, <1>6, ReadIs DEF Announced
<1>8. PICK s : s = json_parse(o).section
  OBVIOUS
<1>9. /\ s.duration = IntOf(o.duration, 0)
      /\ s.short = StringOf(IF o.SHORT_EVENT_DESCRIPTOR.type = "none" THEN None ELSE o.SHORT_EVENT_DESCRIPTOR.text, 0)
      /\ s.rating = [age |-> IntOf(IF o.PARENTAL_RATING_DESCRIPTOR.type = "none" THEN None
                                   ELSE o.PARENTAL_RATING_DESCRIPTOR.age, 0) % 256,
                     country_code |-> StringOf(IF o.PARENTAL_RATING_DESCRIPTOR.type = "none" THEN None
                                               ELSE o.PARENTAL_RATING_DESCRIPTOR.country_code, 0)]
      /\ s.component = [k \in 1..ComponentSize |-> IF k \in DOMAIN Fits(o.COMPONENT_DESCRIPTOR, ComponentSize)
                                                   THEN component_of(o.COMPONENT_DESCRIPTOR.items[k], Component(0))
                                                   ELSE Component(0)]
      /\ s.content = [k \in 1..ContentSize |-> IF k \in DOMAIN Fits(o.CONTENT_DESCRIPTOR, ContentSize)
                                               THEN content_of(o.CONTENT_DESCRIPTOR.items[k], Content(0))
                                               ELSE Content(0)]
  BY <1>6, <1>8, ReadIs
<1>10. /\ o.duration = JsonInt(p.duration)
       /\ o.SHORT_EVENT_DESCRIPTOR = [type |-> "object", text |-> JsonText(Word(p.short))]
       /\ o.PARENTAL_RATING_DESCRIPTOR =
             IF p.rating.age = 0 THEN [type |-> "object", age |-> None, country_code |-> None]
             ELSE rating_to_json(p.rating)
       /\ o.CONTENT_DESCRIPTOR =
             JsonArray(IF p.content[1].level_1 = 0 THEN <<>> ELSE <<content_to_json(p.content[1])>>)
       /\ o.COMPONENT_DESCRIPTOR =
             JsonArray([k \in DOMAIN Tagged(p.component) |-> component_to_json(Tagged(p.component)[k])])
  BY <1>2, WrittenIs
<1>11. s.duration = e.duration
  BY <1>5, <1>9, <1>10 DEF IntOf, JsonInt
<1>12. s.short = Lesser(FirstOf(e.SHORT_EVENT_DESC, 0), TextSize)
  <2>1. PICK l, z \in Nat : l = FirstOf(e.SHORT_EVENT_DESC, 0) /\ z = TextSize
    BY EventTyped, SizesTyped
  <2>2. s.short = Lesser(p.short, z)
    BY <1>9, <1>10, <2>1 DEF StringOf, JsonText, Word, Text, strncpy
  <2>3. p.short = Lesser(l, z + 1)
    BY <1>5, <2>1
  <2> QED
    BY <2>1, <2>2, <2>3 DEF Lesser
<1>13. s.rating = IF RatingOf(e).age = 0 THEN Rating(0) ELSE RatingOf(e)
  <2>1. PICK r \in RatingElement : r = RatingOf(e)
    BY EventTyped
  <2>2. PICK a \in 0..255, c \in 0..TextSize : r = [age |-> a, country_code |-> c]
    BY <2>1 DEF RatingElement
  <2>3. p.rating = [age |-> a, country_code |-> c]
    BY <1>5, <2>1, <2>2
  <2>4. CASE a = 0
    <3>1. s.rating = [age |-> 0 % 256, country_code |-> 0]
      BY <1>9, <1>10, <2>3, <2>4 DEF IntOf, StringOf, None
    <3> QED
      BY <2>1, <2>2, <2>4, <3>1 DEF Rating
  <2>5. CASE a # 0
    <3>1. o.PARENTAL_RATING_DESCRIPTOR = [type |-> "object", age |-> JsonInt(a), country_code |-> JsonText(Word(c))]
      BY <1>10, <2>3, <2>5 DEF rating_to_json
    <3>2. s.rating = [age |-> a % 256, country_code |-> Lesser(c, TextSize)]
      BY <1>9, <3>1 DEF IntOf, StringOf, JsonInt, JsonText, Word, Text, strncpy
    <3>3. a % 256 = a /\ Lesser(c, TextSize) = c
      BY SizesTyped DEF Lesser
    <3> QED
      BY <2>1, <2>2, <2>5, <3>2, <3>3
  <2> QED
    BY <2>4, <2>5
<1>14. s.component = [k \in 1..ComponentSize |-> IF k \in DOMAIN t THEN [t[k] EXCEPT !.text = Lesser(@, TextSize)]
                                                 ELSE Component(0)]
  <2>1. PICK q : q = [k \in DOMAIN t |-> component_to_json(t[k])]
    OBVIOUS
  <2>2. o.COMPONENT_DESCRIPTOR.items = q /\ o.COMPONENT_DESCRIPTOR.type = "array"
    BY <1>5, <1>10, <2>1 DEF JsonArray
  <2>3. Len(q) = m /\ \A k \in 1..m : q[k] = component_to_json(t[k])
    BY <1>4, <2>1
  <2>4. DOMAIN Fits(o.COMPONENT_DESCRIPTOR, ComponentSize) = 1..m
    <3>1. Fits(o.COMPONENT_DESCRIPTOR, ComponentSize) = SubSeq(q, 1, m)
      BY <1>4, <2>2, <2>3 DEF Fits, UpToSize, Lesser
    <3>2. q \in Seq({q[k] : k \in 1..m})
      BY <1>4, <2>1, <2>3
    <3> QED
      BY <1>4, <2>3, <3>1, <3>2
  <2>5. ASSUME NEW k \in 1..m
        PROVE  component_of(q[k], Component(0)) = [t[k] EXCEPT !.text = Lesser(@, TextSize)]
    <3>1. PICK x \in 0..255, y \in 0..255, z \in Nat : t[k] = [stream |-> x, tag |-> y, text |-> z]
      <4>1. t[k] \in ComponentElement
        BY <1>4
      <4> QED
        BY <4>1 DEF ComponentElement
    <3>2. q[k] = [type |-> "object", stream |-> JsonInt(x), tag |-> JsonInt(y), text |-> JsonText(Word(z))]
      BY <2>3, <3>1 DEF component_to_json
    <3>3. component_of(q[k], Component(0)) = [stream |-> x % 256, tag |-> y % 256, text |-> Lesser(z, TextSize)]
      BY <3>2 DEF component_of, Byte, IntOf, StringOf, JsonInt, JsonText, Word, Text, strncpy
    <3>4. x % 256 = x /\ y % 256 = y
      OBVIOUS
    <3> QED
      BY <3>1, <3>3, <3>4
  <2> QED
    BY <1>4, <1>9, <2>2, <2>4, <2>5
<1>15. s.content = [k \in 1..ContentSize |-> IF k = 1 /\ FirstContent(e).level_1 # 0
                                             THEN [FirstContent(e) EXCEPT !.user = 0] ELSE Content(0)]
  <2>1. PICK x \in 0..15, y \in 0..15, z \in 0..255 : FirstContent(e) = [level_1 |-> x, level_2 |-> y, user |-> z]
    <3>1. FirstContent(e) \in ContentElement
      BY EventTyped
    <3> QED
      BY <3>1 DEF ContentElement
  <2>2. p.content[1] = [level_1 |-> x, level_2 |-> y, user |-> 0]
    BY <1>5, <2>1
  <2>3. PICK c \in Nat \ {0} : c = ContentSize
    BY SizesTyped
  <2>4. CASE x = 0
    <3>1. o.CONTENT_DESCRIPTOR.items = <<>> /\ o.CONTENT_DESCRIPTOR.type = "array"
      BY <1>10, <2>2, <2>4 DEF JsonArray
    <3>2. DOMAIN Fits(o.CONTENT_DESCRIPTOR, ContentSize) = {}
      BY <2>3, <3>1 DEF Fits, UpToSize, Lesser
    <3> QED
      BY <1>9, <2>1, <2>4, <3>2
  <2>5. CASE x # 0
    <3>1. o.CONTENT_DESCRIPTOR.items = <<content_to_json(p.content[1])>> /\ o.CONTENT_DESCRIPTOR.type = "array"
      BY <1>10, <2>2, <2>5 DEF JsonArray
    <3>2. DOMAIN Fits(o.CONTENT_DESCRIPTOR, ContentSize) = {1}
      BY <2>3, <3>1 DEF Fits, UpToSize, Lesser
    <3>3. o.CONTENT_DESCRIPTOR.items[1] = [type |-> "object", level_1 |-> JsonInt(x), level_2 |-> JsonInt(y), user |-> None]
      BY <2>2, <3>1 DEF content_to_json
    <3>4. content_of(o.CONTENT_DESCRIPTOR.items[1], Content(0)) = [level_1 |-> x, level_2 |-> y, user |-> 0]
      BY <3>3 DEF content_of, Hex, IntOf, JsonInt, None, Content
    <3>5. [FirstContent(e) EXCEPT !.user = 0] = [level_1 |-> x, level_2 |-> y, user |-> 0] /\ FirstContent(e).level_1 = x
      BY <2>1
    <3> QED
      BY <1>9, <2>5, <3>2, <3>4, <3>5
  <2> QED
    BY <2>4, <2>5
<1> QED
  BY <1>1, <1>2, <1>3, <1>7, <1>8, <1>11, <1>12, <1>13, <1>14, <1>15 DEF Carries

-----------------------------------------------------------------------------
(* What is put on air of an event.                                         *)
Airs(eit, e) ==
    /\ eit.duration = e.duration
    /\ eit.short = Lesser(FirstOf(e.SHORT_EVENT_DESC, 0), ShownSize)
    /\ \A k \in DOMAIN eit.components :
          eit.components[k] = IF k \in DOMAIN TaggedParts(e)
                              THEN [TaggedParts(e)[k] EXCEPT !.text = Lesser(@, TextSize)] ELSE Component(0)
    /\ eit.rating = IF RatingOf(e).age = 0 THEN Rating(0) ELSE RatingOf(e)
    /\ eit.contents = IF FirstContent(e).level_1 = 0 THEN <<>> ELSE <<[FirstContent(e) EXCEPT !.user = 0]>>

(* The EIT of a section that has what an event has.                        *)
LEMMA CarriedOnAir ==
    ASSUME NEW e \in EventElement, e.duration # 0, NEW s, Carries(s, e), NEW n, NEW time
    PROVE  Airs(generate_eit(s, n, time), e)
<1>1. PICK eit : eit = generate_eit(s, n, time)
  OBVIOUS
<1>2. /\ eit.duration = Duration(s) /\ eit.short = build_desc4d(s) /\ eit.components = build_desc50(s, n)
      /\ eit.contents = build_desc54(s) /\ eit.rating = s.rating
  BY <1>1 DEF generate_eit, build_desc55
<1>3. eit.duration = e.duration
  BY <1>2 DEF Carries, Duration
<1>4. eit.short = Lesser(FirstOf(e.SHORT_EVENT_DESC, 0), ShownSize)
  <2>1. PICK l, y, z \in Nat : l = FirstOf(e.SHORT_EVENT_DESC, 0) /\ y = TextSize /\ z = ShownSize /\ z <= y
    BY EventTyped, SizesTyped
  <2> QED
    BY <1>2, <2>1 DEF Carries, build_desc4d, Cut, Lesser
<1>5. ASSUME NEW k \in DOMAIN eit.components
      PROVE  eit.components[k] = IF k \in DOMAIN TaggedParts(e)
                                 THEN [TaggedParts(e)[k] EXCEPT !.text = Lesser(@, TextSize)] ELSE Component(0)
  <2>1. PICK c : c = s.component
    OBVIOUS
  <2>2. PICK m \in Nat \ {0} : m = ComponentSize /\ DOMAIN c = 1..m
    BY <2>1, SizesTyped DEF Carries
  <2>3. k \in 1..m /\ eit.components[k] = c[k]
    <3>1. CASE n = 0
      BY <1>2, <1>5, <2>1, <2>2, <3>1 DEF build_desc50
    <3>2. CASE n # 0
      <4>1. eit.components = SubSeq(c, 1, 1)
        BY <1>2, <2>1, <3>2 DEF build_desc50
      <4>2. c \in Seq({c[j] : j \in 1..m}) /\ Len(c) = m
        BY <2>1, <2>2 DEF Carries
      <4>3. DOMAIN SubSeq(c, 1, 1) = {1} /\ SubSeq(c, 1, 1)[1] = c[1]
        <5>1. PICK B : B = {c[j] : j \in 1..m}
          OBVIOUS
        <5>2. c \in Seq(B) /\ Len(c) = m /\ 1 <= m
          BY <2>2, <4>2, <5>1
        <5>3. Len(SubSeq(c, 1, 1)) = 1 /\ SubSeq(c, 1, 1) \in Seq(B)
          BY <5>2
        <5>4. SubSeq(c, 1, 1)[1] = c[1]
          BY <5>2
        <5> QED
          BY <5>3, <5>4
      <4>4. k = 1
        BY <1>5, <4>1, <4>3
      <4> QED
        BY <2>2, <4>1, <4>3, <4>4
    <3> QED
      BY <3>1, <3>2
  <2> QED
    BY <2>1, <2>2, <2>3 DEF Carries
<1>6. eit.contents = IF FirstContent(e).level_1 = 0 THEN <<>> ELSE <<[FirstContent(e) EXCEPT !.user = 0]>>
  <2>1. PICK x \in 0..15, y \in 0..15, z \in 0..255 : FirstContent(e) = [level_1 |-> x, level_2 |-> y, user |-> z]
    <3>1. FirstContent(e) \in ContentElement
      BY EventTyped
    <3> QED
      BY <3>1 DEF ContentElement
  <2>2. PICK f : f = [level_1 |-> x, level_2 |-> y, user |-> 0]
    OBVIOUS
  <2>3. PICK c : c = s.content
    OBVIOUS
  <2>4. PICK m \in Nat \ {0} : m = ContentSize
    BY SizesTyped
  <2>5. c = [k \in 1..m |-> IF k = 1 /\ x # 0 THEN f ELSE Content(0)]
    BY <2>1, <2>2, <2>3, <2>4 DEF Carries
  <2>6. Len(c) = m /\ c \in Seq({f, Content(0)}) /\ (x # 0 => f # Content(0) /\ c[1] = f) /\ (x = 0 => c[1] = Content(0))
    <3>1. Len(c) = m /\ c \in Seq({f, Content(0)})
      BY <2>5
    <3>2. x # 0 => f # Content(0)
      BY <2>2 DEF Content
    <3> QED
      BY <2>5, <3>1, <3>2
  <2> DEFINE I == {i \in 1..m : c[i] = Content(0)}
  <2>7. UpTo(c, Content(0)) = IF I # {} THEN Min(I) ELSE 0
    BY <2>6 DEF UpTo, SelectInSeq
  <2>8. CASE x = 0
    <3>1. 1 \in I /\ \A i \in I : i \in Nat /\ 1 <= i
      BY <2>6, <2>8
    <3>2. \A i \in I : (\A j \in I : i <= j) => i = 1
      BY <3>1
    <3> HIDE DEF I
    <3>3. Min(I) = 1
      BY <3>1, <3>2 DEF Min
    <3>4. Used(c, Content(0)) = <<>>
      BY <2>6, <2>7, <3>1, <3>3 DEF Used
    <3>5. build_desc54(s) = <<>>
      BY <2>3, <3>4 DEF build_desc54
    <3> QED
      BY <1>2, <2>1, <2>8, <3>5
  <2>9. CASE x # 0
    <3>1. Used(c, Content(0)) = <<f>>
      <4>1. CASE m = 1
        <5>1. I = {}
          BY <2>6, <2>9, <4>1
        <5>2. Used(c, Content(0)) = c
          BY <2>7, <5>1 DEF Used
        <5> QED
          BY <2>6, <2>9, <4>1, <5>2
      <4>2. CASE m # 1
        <5>1. 2 \in I /\ \A i \in I : i \in Nat /\ 2 <= i
          BY <2>5, <2>6, <2>9, <4>2
        <5>2. \A i \in I : (\A j \in I : i <= j) => i = 2
          BY <5>1
        <5> HIDE DEF I
        <5>3. Min(I) = 2
          BY <5>1, <5>2 DEF Min
        <5>4. Used(c, Content(0)) = SubSeq(c, 1, 1)
          BY <2>7, <5>1, <5>3 DEF Used
        <5> QED
          BY <2>6, <2>9, <5>4
      <4> QED
        BY <4>1, <4>2
    <3>2. build_desc54(s) = [k \in DOMAIN <<f>> |-> [level_1 |-> <<f>>[k].level_1 % 16, level_2 |-> <<f>>[k].level_2 % 16,
                                                      user |-> <<f>>[k].user % 256]]
      BY <2>3, <3>1 DEF build_desc54
    <3>3. x % 16 = x /\ y % 16 = y /\ 0 % 256 = 0
      OBVIOUS
    <3>4. build_desc54(s) = <<f>>
      BY <2>2, <3>2, <3>3
    <3> QED
      BY <1>2, <2>1, <2>2, <2>9, <3>4
  <2> QED
    BY <2>8, <2>9
<1>7. eit.rating = IF RatingOf(e).age = 0 THEN Rating(0) ELSE RatingOf(e)
  BY <1>2 DEF Carries
<1> QED
  BY <1>1, <1>3, <1>4, <1>5, <1>6, <1>7 DEF Airs

(* A video with its events in ascending order.                             *)
Tidy(r) == r.to_inject = 0 /\ Ascending(r.doc)
\* It is announced with its events, which have a duration.
Dated(doc) == \A s \in {0, 1} : Wanted(doc, s) \in EventElement /\ Wanted(doc, s).duration # 0

(* What is on the way from a video to the table.                           *)
OnTheWay ==
    /\ given \in Cases
    /\ at \in {"reading", "convert", "section0", "section1", "publish"} =>
          row # <<>> /\ row[1].doc \in Document
    /\ at \in {"reading", "convert"} => row[1].to_inject = 0 /\ eit_info = Both(Uninitialised)
    /\ at \in {"section0", "section1", "publish"} /\ Tidy(row[1]) =>
          /\ Dated(row[1].doc) /\ DOMAIN eit_info = Sections
          /\ at = "section0" => eit_info.section0 = Printed(Wanted(row[1].doc, 0))
          /\ at # "section0" => eit_info.section0 = Announced(Wanted(row[1].doc, 0))
          /\ at # "publish" => eit_info.section1 = Printed(Wanted(row[1].doc, 1))
          /\ at = "publish" /\ row[1].section1 # None => eit_info.section1 = Announced(Wanted(row[1].doc, 1))

(* What is in the table of a video, and on air.                            *)
InTable(eit, of) ==
    Ordered(of) => /\ Dated(of[1].doc)
                   /\ \A s \in {0, 1} : eit[SectionName(s)] = Announced(Wanted(of[1].doc, s))

(* What is on air is of the event that was to be announced there.          *)
AirOK(shows) ==
    /\ DOMAIN shows = {0, 1}
    /\ \A s \in {0, 1} : shows[s] # <<>> /\ Ordered(shows[s][1].row) =>
                            Airs(shows[s][1].eit, Wanted(shows[s][1].row[1].doc, s))

(* Of a video: what is on the way, in the table and on air.                *)
VideoInv ==
    /\ OnTheWay
    /\ entry # <<>> => InTable(entry[1].eit, entry[1].row)
    /\ section \in {0, 1} /\ AirOK(shown)

(* One more section of what is in the table.                               *)
LEMMA GenerateAirs ==
    ASSUME NEW state, state.section \in {0, 1}, AirOK(state.shown), NEW eit, NEW of, InTable(eit, of)
    PROVE  Generate(state, eit, of).section \in {0, 1} /\ AirOK(Generate(state, eit, of).shown)
<1> DEFINE n == state.section
           made == generate_eit(eit[SectionName(n)], n, state.clock)
           new == Generate(state, eit, of)
<1>1. new.section = 1 - n /\ new.shown = [state.shown EXCEPT ![n] = <<[eit |-> made, row |-> of]>>]
  BY DEF Generate
<1>2. Ordered(of) => Airs(made, Wanted(of[1].doc, n))
  <2> SUFFICES ASSUME Ordered(of) PROVE Airs(made, Wanted(of[1].doc, n))
    OBVIOUS
  <2>1. PICK e : e = Wanted(of[1].doc, n)
    OBVIOUS
  <2>2. e \in EventElement /\ e.duration # 0 /\ eit[SectionName(n)] = Announced(e)
    BY <2>1 DEF InTable, Dated
  <2>3. Carries(eit[SectionName(n)], e)
    BY <2>2, AnnouncedIs
  <2> QED
    BY <2>1, <2>2, <2>3, CarriedOnAir
<1> HIDE DEF made, new
<1>3. DOMAIN new.shown = {0, 1} /\ new.shown[n] = <<[eit |-> made, row |-> of]>>
      /\ \A s \in {0, 1} : s # n => new.shown[s] = state.shown[s]
  BY <1>1 DEF AirOK
<1>4. new.shown[n][1].eit = made /\ new.shown[n][1].row = of
  BY <1>3
<1>5. AirOK(new.shown)
  BY <1>2, <1>3, <1>4 DEF AirOK
<1> QED
  BY <1>1, <1>5 DEF new

(* The conversion keeps to the events of the video.                        *)
LEMMA ConversionKeeps == ASSUME OnTheWay, convertStringsToEitStruct PROVE OnTheWay'
<1>1. given' = given /\ row' = row
  BY DEF convertStringsToEitStruct, popen, fread, Convert, Section0, Section1, ParseSection, Fail, starting, conversion
<1>2. ASSUME at' = "idle" PROVE OnTheWay'
  BY <1>1, <1>2 DEF OnTheWay
<1>3. CASE popen
  BY <1>2, <1>3 DEF popen, Fail
<1>4. CASE fread
  <2>1. at = "reading" /\ at' \in {"reading", "convert"} /\ eit_info' = eit_info
    BY <1>4 DEF fread
  <2> QED
    BY <1>1, <2>1 DEF OnTheWay
<1>5. CASE Convert
  <2>1. PICK converted : converted = convert_xml_to_eit_struct(eit_info, row[1].doc)
    OBVIOUS
  <2>2. CASE converted = Failed
    BY <1>2, <1>5, <2>1, <2>2 DEF Convert, Fail
  <2>3. CASE converted # Failed
    <3>1. at' = "section0" /\ eit_info' = converted.eit
      BY <1>5, <2>1, <2>3 DEF Convert
    <3>2. row # <<>> /\ row[1].doc \in Document /\ row[1].to_inject = 0 /\ eit_info = Both(Uninitialised) /\ given \in Cases
      BY <1>5 DEF Convert, OnTheWay
    <3>3. PICK doc \in Document : doc = row[1].doc
      BY <3>2
    <3>4. ASSUME Ascending(doc)
          PROVE  Dated(doc) /\ DOMAIN eit_info' = Sections /\ eit_info'.section0 = Printed(Wanted(doc, 0))
                 /\ eit_info'.section1 = Printed(Wanted(doc, 1))
      <4>1. converted = convert_xml_to_eit_struct(Both(Uninitialised), doc)
        BY <2>1, <3>2, <3>3
      <4>2. /\ DOMAIN converted.eit = Sections
            /\ \A s \in {0, 1} :
                  /\ Wanted(doc, s) \in EventElement /\ Wanted(doc, s).duration # 0
                  /\ converted.eit[SectionName(s)] = Printed(Wanted(doc, s))
        BY <2>3, <3>4, <4>1, VideoConverted
      <4> QED
        BY <3>1, <4>2 DEF Dated, SectionName
    <3> QED
      BY <1>1, <3>1, <3>2, <3>3, <3>4 DEF OnTheWay, Tidy
  <2> QED
    BY <2>2, <2>3
<1>6. ASSUME NEW s \in Sections, NEW next, next # "idle", ParseSection(s, next), at' = next, Tidy(row[1]),
             NEW e \in EventElement, eit_info[s] = Printed(e), DOMAIN eit_info = Sections
      PROVE  eit_info' = [eit_info EXCEPT ![s] = Announced(e)]
  <2>1. Json(s) = convert_eit_struct_to_json(Printed(e))
    BY <1>6 DEF Json, Tidy
  <2> QED
    BY <1>6, <2>1 DEF ParseSection, Fail, Announced
<1>7. CASE Section0
  <2>1. at = "section0" /\ (at' = "idle" \/ (at' = "section1" /\ ParseSection("section0", "section1")))
    BY <1>7 DEF Section0, ParseSection, Fail
  <2>2. row # <<>> /\ row[1].doc \in Document /\ given \in Cases
    BY <2>1 DEF OnTheWay
  <2>3. ASSUME at' = "section1", ParseSection("section0", "section1"), Tidy(row[1])
        PROVE  Dated(row[1].doc) /\ DOMAIN eit_info' = Sections
               /\ eit_info'.section0 = Announced(Wanted(row[1].doc, 0))
               /\ eit_info'.section1 = Printed(Wanted(row[1].doc, 1))
    <3>1. PICK e, f \in EventElement : e = Wanted(row[1].doc, 0) /\ f = Wanted(row[1].doc, 1)
      BY <2>1, <2>3 DEF OnTheWay, Dated
    <3>2. Dated(row[1].doc) /\ DOMAIN eit_info = Sections /\ eit_info.section0 = Printed(e) /\ eit_info.section1 = Printed(f)
      BY <2>1, <2>3, <3>1 DEF OnTheWay
    <3>3. eit_info' = [eit_info EXCEPT !["section0"] = Announced(e)]
      BY <1>6, <2>3, <3>2 DEF Sections
    <3> QED
      BY <3>1, <3>2, <3>3 DEF Sections
  <2> QED
    BY <1>1, <1>2, <2>1, <2>2, <2>3 DEF OnTheWay
<1>8. CASE Section1
  <2>1. at = "section1" /\ (at' = "idle" \/ at' = "publish")
        /\ (at' = "publish" => IF row[1].section1 = None THEN eit_info' = eit_info
                               ELSE ParseSection("section1", "publish"))
    BY <1>8 DEF Section1, ParseSection, Fail, conversion
  <2>2. row # <<>> /\ row[1].doc \in Document /\ given \in Cases
    BY <2>1 DEF OnTheWay
  <2>3. ASSUME at' = "publish", Tidy(row[1])
        PROVE  Dated(row[1].doc) /\ DOMAIN eit_info' = Sections
               /\ eit_info'.section0 = Announced(Wanted(row[1].doc, 0))
               /\ (row[1].section1 # None => eit_info'.section1 = Announced(Wanted(row[1].doc, 1)))
    <3>1. PICK e, f \in EventElement : e = Wanted(row[1].doc, 0) /\ f = Wanted(row[1].doc, 1)
      BY <2>1, <2>3 DEF OnTheWay, Dated
    <3>2. Dated(row[1].doc) /\ DOMAIN eit_info = Sections /\ eit_info.section0 = Announced(e) /\ eit_info.section1 = Printed(f)
      BY <2>1, <2>3, <3>1 DEF OnTheWay
    <3>3. CASE row[1].section1 = None
      BY <2>1, <2>3, <3>1, <3>2, <3>3
    <3>4. CASE row[1].section1 # None
      <4>1. eit_info' = [eit_info EXCEPT !["section1"] = Announced(f)]
        BY <1>6, <2>1, <2>3, <3>2, <3>4 DEF Sections
      <4> QED
        BY <3>1, <3>2, <4>1 DEF Sections
    <3> QED
      BY <3>3, <3>4
  <2> QED
    BY <1>1, <1>2, <2>1, <2>2, <2>3 DEF OnTheWay
<1> QED
  BY <1>3, <1>4, <1>5, <1>7, <1>8 DEF convertStringsToEitStruct

(* Nothing is on the way at first.                                         *)
LEMMA VideoInit == SourcesInit => VideoInv
<1> SUFFICES ASSUME SourcesInit PROVE VideoInv
  OBVIOUS
<1>1. at = "load" /\ entry = <<>> /\ section = 0 /\ given \in Cases /\ shown = [s \in {0, 1} |-> <<>>]
  BY DEF SourcesInit
<1> QED
  BY <1>1 DEF VideoInv, OnTheWay, AirOK

(* Whichever row comes next, and whenever a packet is due.                 *)
LEMMA VideoStep == VideoInv /\ [SourcesNext]_vars => VideoInv'
<1> SUFFICES ASSUME VideoInv, [SourcesNext]_vars PROVE VideoInv'
  OBVIOUS
<1>1. OnTheWay /\ (entry # <<>> => InTable(entry[1].eit, entry[1].row)) /\ section \in {0, 1} /\ AirOK(shown)
  BY DEF VideoInv
<1>2. ASSUME given' = given, at' \in {"load", "idle", "served", "exited", "crashed"} PROVE OnTheWay'
  BY <1>1, <1>2 DEF OnTheWay
<1>3. CASE LoadLine \/ CannotOpen
  <2>1. given' = given /\ at' \in {"load", "exited"} /\ entry' = entry /\ section' = section /\ shown' = shown
    BY <1>3 DEF LoadLine, CannotOpen, starting, injection
  <2> QED
    BY <1>1, <1>2, <2>1 DEF VideoInv
<1>4. CASE Configure
  <2>1. /\ given' = given /\ at' \in {"idle", "served", "crashed"} /\ section' = section /\ shown' = shown
        /\ entry' = entry \/ entry' = <<[eit |-> load_eit(ini), row |-> <<>>]>>
    BY <1>4 DEF Configure, starting, injection
  <2>2. InTable(load_eit(ini), <<>>)
    BY DEF InTable, Ordered, OfVideo
  <2>3. entry' # <<>> => InTable(entry'[1].eit, entry'[1].row)
    BY <1>1, <2>1, <2>2
  <2> QED
    BY <1>1, <1>2, <2>1, <2>3 DEF VideoInv
<1>5. CASE Edit
  <2>1. /\ given' = given /\ entry' = entry /\ section' = section /\ shown' = shown
        /\ eit_info' = Both(Uninitialised)
    BY <1>5 DEF Edit, starting, injection
  <2>2. PICK r \in Rows[given.rows] : row' = <<r>> /\ at' = IF r.to_inject = 0 THEN "reading" ELSE "section0"
    BY <1>5 DEF Edit
  <2>3. row'[1] = r /\ row' # <<>> /\ r.doc \in Document /\ r.to_inject \in {0, 1}
    BY <1>1, <2>2, SourcesAssumption DEF SourcesAssumption, OnTheWay
  <2>4. OnTheWay'
    <3>1. CASE r.to_inject = 0
      BY <1>1, <2>1, <2>2, <2>3, <3>1 DEF OnTheWay
    <3>2. CASE r.to_inject # 0
      BY <1>1, <2>1, <2>2, <2>3, <3>2 DEF OnTheWay, Tidy
    <3> QED
      BY <3>1, <3>2
  <2> QED
    BY <1>1, <2>1, <2>4 DEF VideoInv
<1>6. CASE convertStringsToEitStruct
  <2>1. entry' = entry /\ section' = section /\ shown' = shown
    BY <1>6 DEF convertStringsToEitStruct, injection
  <2> QED
    BY <1>1, <1>6, <2>1, ConversionKeeps DEF VideoInv
<1>7. CASE Publish
  <2>1. /\ at = "publish" /\ at' = "idle" /\ given' = given /\ section' = section /\ shown' = shown
        /\ entry' = <<[eit |-> eit_info, row |-> row]>>
    BY <1>7 DEF Publish, starting, injection
  <2>2. entry'[1].eit = eit_info /\ entry'[1].row = row
    BY <2>1
  <2>3. InTable(eit_info, row)
    BY <1>1, <2>1 DEF OnTheWay, InTable, Ordered, OfVideo, Tidy, SectionName
  <2> QED
    BY <1>1, <1>2, <2>1, <2>2, <2>3 DEF VideoInv
<1>8. CASE add_eit
  <2> DEFINE before == [section |-> section, clock |-> clock, shown |-> shown]
             once == Generate(before, entry[1].eit, entry[1].row)
             twice == Generate(once, entry[1].eit, entry[1].row)
  <2>1. before.section \in {0, 1} /\ AirOK(before.shown) /\ InTable(entry[1].eit, entry[1].row)
    BY <1>1, <1>8 DEF add_eit
  <2> HIDE DEF before
  <2>2. once.section \in {0, 1} /\ AirOK(once.shown)
    BY <2>1, GenerateAirs
  <2> HIDE DEF once
  <2>3. twice.section \in {0, 1} /\ AirOK(twice.shown)
    BY <2>1, <2>2, GenerateAirs
  <2> HIDE DEF twice
  <2>4. \/ section' = once.section /\ shown' = once.shown
        \/ section' = twice.section /\ shown' = twice.shown
    BY <1>8 DEF add_eit, before, once, twice
  <2>5. entry' = entry /\ at' = at /\ row' = row /\ eit_info' = eit_info /\ given' = given
    BY <1>8 DEF add_eit, starting, conversion
  <2>6. OnTheWay'
    BY <1>1, <2>5 DEF OnTheWay
  <2> QED
    BY <1>1, <2>2, <2>3, <2>4, <2>5, <2>6 DEF VideoInv
<1>9. CASE Tick \/ UNCHANGED vars
  <2>1. /\ entry' = entry /\ at' = at /\ row' = row /\ eit_info' = eit_info /\ given' = given
        /\ section' = section /\ shown' = shown
    BY <1>9 DEF Tick, starting, conversion, vars
  <2>2. OnTheWay'
    BY <1>1, <2>1 DEF OnTheWay
  <2> QED
    BY <1>1, <2>1, <2>2 DEF VideoInv
<1> QED
  BY <1>3, <1>4, <1>5, <1>6, <1>7, <1>8, <1>9 DEF SourcesNext

(***************************************************************************)
(* Whatever videos there are, however long, and whatever is edited between *)
(* two packets: a video whose events are in ascending order has on air its *)
(* event with the least number as present event and the one with the next  *)
(* number as following event (build_sections_event_id).                    *)
(***************************************************************************)
THEOREM AnnouncedInOrder == SourcesSpec => []PresentAndFollowing
<1>1. VideoInv => PresentAndFollowing
  BY DEF VideoInv, AirOK, Airs, PresentAndFollowing
<1> QED
  BY <1>1, VideoInit, VideoStep, PTL DEF SourcesSpec

(***************************************************************************)
(* From the video through JSON to the EIT such an event keeps all its      *)
(* components with a tag that there is room for, in their order, its       *)
(* rating and its first content (component_desc, json_parsing, eit.c).     *)
(***************************************************************************)
THEOREM NothingLostOnTheWay == SourcesSpec => []Carried
<1>1. VideoInv => Carried
  BY DEF VideoInv, AirOK, Airs, Carried, TaggedParts, PartsOf, RatingOf, FirstContent
<1> QED
  BY <1>1, VideoInit, VideoStep, PTL DEF SourcesSpec

-----------------------------------------------------------------------------
(* Sequences of sequences.                                                 *)

(* What FlattenSeq has after each of the first n sequences.                *)
Joins(g, A, q, n) ==
    /\ g \in [0..n -> Seq(A)]
    /\ g[0] = <<>>
    /\ \A k \in 1..n : g[k] = g[k-1] \o q[k]
    /\ FlattenSeq(q) = g[n]

(* There are such values, and the last of them is the whole.               *)
LEMMA JoinsIs ==
    ASSUME NEW A, NEW q \in Seq(Seq(A)), NEW n, n = Len(q)
    PROVE  \E g : Joins(g, A, q, n)
<1>1. n \in Nat
  OBVIOUS
<1>2. PICK B : B = Seq(A)
  OBVIOUS
<1>3. <<>> \in B /\ \A k \in 1..n, a \in B : a \o q[k] \in B
  <2> SUFFICES ASSUME NEW k \in 1..n, NEW a \in B PROVE a \o q[k] \in B
    BY <1>2
  <2>1. q[k] \in Seq(A) /\ a \in Seq(A)
    BY <1>1, <1>2
  <2> QED
    BY <1>2, <2>1, ConcatProperties
<1>4. PICK next : next = [k \in 1..n |-> [a \in B |-> a \o q[k]]]
  OBVIOUS
<1>5. next \in [1..n -> [B -> B]]
  BY <1>3, <1>4
<1>6. PICK g \in [0..n -> B] : g[0] = <<>> /\ \A k \in 1..n : g[k] = next[k][g[k-1]]
  <2>1. PICK base \in B : base = <<>>
    BY <1>3
  <2>2. \E g : Unfolds(g, B, base, n, next)
    BY <1>1, <1>5, Steps
  <2> QED
    BY <2>1, <2>2 DEF Unfolds
<1>7. ASSUME NEW k \in 1..n PROVE g[k] = g[k-1] \o q[k]
  <2>1. k - 1 \in 0..n /\ g[k] = next[k][g[k-1]]
    BY <1>1, <1>6
  <2>2. g[k-1] \in B
    BY <1>6, <2>1
  <2> QED
    BY <1>4, <2>1, <2>2
<1>8. CASE n = 0
  <2>1. q = <<>>
    <3>1. q \in Seq(B) /\ Len(q) = 0
      BY <1>2, <1>8
    <3> QED
      BY <3>1, EmptySeq
  <2>2. FlattenSeq(q) = q
    BY <1>8 DEF FlattenSeq
  <2> QED
    BY <1>2, <1>6, <1>7, <1>8, <2>1, <2>2 DEF Joins
<1>9. CASE n # 0
  <2>1. g[1] = q[1]
    <3>1. PICK x \in Seq(A) : x = q[1]
      BY <1>1, <1>9
    <3>2. <<>> \o x = x
      BY <3>1
    <3>3. 1 \in 1..n /\ 1 - 1 = 0
      BY <1>1, <1>9
    <3>4. g[1] = g[0] \o q[1]
      BY <1>7, <3>3
    <3> QED
      BY <1>6, <3>1, <3>2, <3>4
  <2> DEFINE Body(f) == [i \in 1..n |-> IF i = 1 THEN q[i] ELSE f[i-1] \o q[i]]
             h == [i \in 1..n |-> g[i]]
  <2>2. \A f : f = Body(f) => f = h
    <3>1. SUFFICES ASSUME NEW f, f = Body(f) PROVE f = h
      OBVIOUS
    <3> DEFINE S == {m \in Nat : m + 1 <= n => f[m+1] = g[m+1]}
    <3>2. \A k \in 1..n : f[k] = IF k = 1 THEN q[k] ELSE f[k-1] \o q[k]
      BY <3>1
    <3>3. 0 \in S
      BY <1>1, <1>9, <2>1, <3>2
    <3>4. ASSUME NEW m \in Nat, m \in S PROVE m + 1 \in S
      <4>1. CASE m + 2 <= n
        <5>1. PICK j \in 1..n : j = (m + 1) + 1 /\ j - 1 = m + 1 /\ j # 1
          BY <1>1, <4>1
        <5>2. f[j-1] = g[j-1]
          <6>1. m + 1 <= n
            BY <1>1, <4>1
          <6> QED
            BY <3>4, <5>1, <6>1
        <5>3. g[j] = g[j-1] \o q[j] /\ f[j] = f[j-1] \o q[j]
          BY <1>7, <3>2, <5>1
        <5>4. f[j] = g[j]
          BY <5>2, <5>3
        <5> QED
          BY <5>1, <5>4
      <4>2. CASE ~(m + 2 <= n)
        BY <1>1, <4>2
      <4> QED
        BY <4>1, <4>2
    <3> HIDE DEF S
    <3>5. \A m \in Nat : m \in S
      BY <3>3, <3>4, Counting
    <3>6. \A k \in 1..n : f[k] = g[k]
      <4> SUFFICES ASSUME NEW k \in 1..n PROVE f[k] = g[k]
        OBVIOUS
      <4>1. k - 1 \in Nat /\ (k - 1) + 1 = k /\ k <= n
        BY <1>1
      <4>2. k - 1 \in S
        BY <3>5, <4>1
      <4> QED
        BY <4>1, <4>2 DEF S
    <3>7. f = [k \in 1..n |-> f[k]]
      BY <3>1
    <3> QED
      BY <3>6, <3>7
  <2>3. h = Body(h)
    <3>1. ASSUME NEW k \in 1..n PROVE h[k] = IF k = 1 THEN q[k] ELSE h[k-1] \o q[k]
      <4>1. CASE k = 1
        BY <2>1, <4>1
      <4>2. CASE k # 1
        <5>1. k - 1 \in 1..n
          BY <1>1, <4>2
        <5> QED
          BY <1>7, <4>2, <5>1
      <4> QED
        BY <4>1, <4>2
    <3> HIDE DEF h
    <3>2. h = [k \in 1..n |-> h[k]]
      BY DEF h
    <3> QED
      BY <3>1, <3>2
  <2>4. (CHOOSE f : f = Body(f)) = h
    <3> HIDE DEF Body, h
    <3> QED
      BY <2>2, <2>3
  <2>5. FlattenSeq(q) = h[n]
    BY <1>1, <1>9, <2>4 DEF FlattenSeq
  <2>6. h[n] = g[n]
    BY <1>1, <1>9
  <2> QED
    BY <1>2, <1>6, <1>7, <2>5, <2>6 DEF Joins
<1> QED
  BY <1>8, <1>9

(* The elements are those of the sequences.                                *)
LEMMA FlattenTyped ==
    ASSUME NEW A, NEW q \in Seq(Seq(A))
    PROVE  FlattenSeq(q) \in Seq(A)
<1>1. PICK n \in Nat : n = Len(q)
  OBVIOUS
<1>2. PICK g : Joins(g, A, q, n)
  BY <1>1, JoinsIs
<1> QED
  BY <1>1, <1>2 DEF Joins

(* If there is a place, something is chosen.                               *)
LEMMA ChosenSome ==
    ASSUME NEW A, NEW s \in Seq(A), NEW places, NEW p \in 1..Len(s), p \in places
    PROVE  Chosen(s, places) # <<>>
<1>1. PICK n \in Nat : n = Len(s) /\ p \in 1..n
  OBVIOUS
<1>2. PICK g : Gathers(g, A, s, places, n)
  BY <1>1, ChosenIs
<1> DEFINE S == {k \in Nat : k <= n /\ p <= k => g[k] # <<>>}
<1>3. 0 \in S
  BY <1>1
<1>4. ASSUME NEW k \in Nat, k \in S PROVE k + 1 \in S
  <2>1. CASE k + 1 <= n /\ p <= k + 1
    <3>1. k + 1 \in 1..n /\ k \in 0..n /\ (k + 1) - 1 = k
      BY <1>1, <2>1
    <3>2. PICK a \in Seq(A), e \in A : a = g[k] /\ e = s[k+1]
      BY <1>1, <1>2, <3>1 DEF Gathers
    <3>3. g[k+1] = IF k + 1 \in places THEN Append(a, e) ELSE a
      BY <1>2, <3>1, <3>2 DEF Gathers
    <3>4. Append(a, e) # <<>>
      <4>1. Len(Append(a, e)) = Len(a) + 1 /\ Len(a) \in Nat
        BY <3>2
      <4>2. Len(Append(a, e)) # 0
        BY <4>1
      <4> QED
        BY <4>2
    <3>5. k + 1 \in places \/ a # <<>>
      <4>1. CASE p = k + 1
        BY <4>1
      <4>2. CASE p # k + 1
        <5>1. p <= k
          BY <1>1, <2>1, <4>2
        <5> QED
          BY <1>4, <2>1, <3>2, <5>1
      <4> QED
        BY <4>1, <4>2
    <3>6. g[k+1] # <<>>
      BY <3>3, <3>4, <3>5
    <3> QED
      BY <3>6
  <2>2. CASE ~(k + 1 <= n /\ p <= k + 1)
    BY <2>2
  <2> QED
    BY <2>1, <2>2
<1> HIDE DEF S
<1>5. n \in S
  BY <1>1, <1>3, <1>4, Counting
<1> QED
  BY <1>1, <1>2, <1>5 DEF S, Gathers

(* What is found, if valid, is the number of an event, in whatever order   *)
(* they are.                                                               *)
LEMMA FoundAreNumbers ==
    ASSUME NEW es \in Seq(EventElement), NEW n, n = Len(es), NEW ids, ids = build_sections_event_id(es)
    PROVE  ids \in Ids /\ {ids.section0, ids.section1} \subseteq {Invalid} \union {es[k].id : k \in 1..n}
<1>1. n \in Nat
  OBVIOUS
<1>2. PICK g : IdsSoFar(g, es, n)
  BY IdsAre
<1> DEFINE N == {0} \union {es[k].id : k \in 1..n}
           S == {m \in Nat : m <= n => g[m].section0 \in N /\ g[m].section1 \in N}
<1>3. 0 \in S
  BY <1>2 DEF IdsSoFar, Invalid
<1>4. ASSUME NEW m \in Nat, m \in S PROVE m + 1 \in S
  <2>1. CASE m + 1 <= n
    <3>1. m + 1 \in 1..n /\ m \in 0..n /\ (m + 1) - 1 = m /\ g[m].section0 \in N /\ g[m].section1 \in N
      BY <1>1, <1>4, <2>1
    <3>2. g[m+1] = Nearer(g[m], es[m+1]) /\ es[m+1].id \in N
      BY <1>2, <3>1 DEF IdsSoFar
    <3> HIDE DEF N
    <3>3. g[m+1].section0 \in N /\ g[m+1].section1 \in N
      BY <3>1, <3>2 DEF Nearer, Lesser
    <3> QED
      BY <3>3
  <2>2. CASE ~(m + 1 <= n)
    BY <2>2
  <2> QED
    BY <2>1, <2>2
<1> HIDE DEF S
<1>5. n \in S
  BY <1>1, <1>3, <1>4, Counting
<1>6. ids = g[n] /\ g[n] \in Ids
  BY <1>1, <1>2 DEF IdsSoFar
<1> QED
  BY <1>1, <1>5, <1>6 DEF S, Invalid

-----------------------------------------------------------------------------
(* Which sections are set throughout.                                      *)

(* A section all of whose fields are numbers.                              *)
LevelElement == [level_1 : Nat, level_2 : Nat, user : Nat]
SetSection(s) ==
    /\ DOMAIN s = DOMAIN Zeroed
    /\ {s.starttime, s.duration, s.event_id, s.short, s.ext, s.leak, s.rating.age} \subseteq Nat
    /\ s.items \in [1..ItemSize -> Nat] /\ s.ca \in [1..CaSize -> Nat]
    /\ s.component \in [1..ComponentSize -> ComponentElement]
    /\ s.content \in [1..ContentSize -> LevelElement]

(* Such a section has its type and nothing in it that was not set.         *)
LEMMA SetIsClean == ASSUME NEW s, SetSection(s) PROVE SectionOK(s) /\ ~Garbled(s)
<1>1. /\ DOMAIN s = DOMAIN Zeroed
      /\ {s.starttime, s.duration, s.event_id, s.short, s.ext, s.leak, s.rating.age} \subseteq Nat
      /\ s.items \in [1..ItemSize -> Nat] /\ s.ca \in [1..CaSize -> Nat]
      /\ s.component \in [1..ComponentSize -> ComponentElement]
      /\ s.content \in [1..ContentSize -> LevelElement]
  BY DEF SetSection
<1>2. Garbage \notin Nat
  BY DEF Garbage
<1>3. SectionOK(s)
  <2>1. \A k \in 1..ComponentSize : {s.component[k].stream, s.component[k].tag} \subseteq -1..255
    <3> SUFFICES ASSUME NEW k \in 1..ComponentSize PROVE {s.component[k].stream, s.component[k].tag} \subseteq -1..255
      OBVIOUS
    <3>1. s.component[k].stream \in 0..255 /\ s.component[k].tag \in 0..255
      BY <1>1 DEF ComponentElement
    <3> QED
      BY <3>1
  <2>2. s.items \in [1..ItemSize -> ValueOK] /\ s.ca \in [1..CaSize -> ValueOK]
    BY <1>1 DEF ValueOK
  <2>3. {s.starttime, s.duration, s.event_id, s.short, s.ext, s.leak} \subseteq ValueOK
    BY <1>1 DEF ValueOK
  <2>4. DOMAIN s.component = 1..ComponentSize /\ DOMAIN s.content = 1..ContentSize
    BY <1>1
  <2>5. DOMAIN s = DOMAIN Zeroed
    BY <1>1
  <2> QED
    BY <2>1, <2>2, <2>3, <2>4, <2>5 DEF SectionOK
<1>4. Garbage \notin Range(s.items) \union Range(s.ca)
  BY <1>1, <1>2 DEF Range
<1>5. Component(Garbage) \notin Range(s.component)
  <2>1. Component(Garbage).tag = Garbage
    BY DEF Component
  <2>2. ASSUME NEW k \in 1..ComponentSize PROVE s.component[k].tag \in Nat
    <3>1. s.component[k].tag \in 0..255
      BY <1>1 DEF ComponentElement
    <3> QED
      BY <3>1
  <2> QED
    BY <1>1, <1>2, <2>1, <2>2 DEF Range
<1>6. Content(Garbage) \notin Range(s.content)
  <2>1. Content(Garbage).user = Garbage
    BY DEF Content
  <2>2. \A k \in 1..ContentSize : s.content[k].user \in Nat
    BY <1>1 DEF LevelElement
  <2> QED
    BY <1>1, <1>2, <2>1, <2>2 DEF Range
<1> QED
  BY <1>1, <1>2, <1>3, <1>4, <1>5, <1>6 DEF Garbled

(* A number or text of JSON as the parser takes it.                        *)
LEMMA ScalarRead ==
    ASSUME NEW x, ScalarOK(x), NEW old \in Nat
    PROVE  /\ IntOf(x, old) \in Nat /\ StringOf(x, old) \in Nat /\ Hex(x, old) \in Nat
           /\ Byte(x, old) \in 0..255 /\ IntOf(x, old) % 256 \in 0..255 /\ atoi(x, old) \in Nat
<1>1. IntOf(x, old) \in Nat
  BY DEF ScalarOK, IntOf
<1>2. x.type = "string" => x.text.dec \in Nat /\ x.text.hex \in Nat /\ x.text.length \in Nat
  BY DEF ScalarOK, TextElement
<1>3. \A n \in Nat : n % 256 \in 0..255
  OBVIOUS
<1>4. x.type = "string" => convertStrToInt(x.text) \in 0..255
  <2>1. x.type = "string" => strtol(x.text) \in Nat
    BY <1>2 DEF strtol
  <2> QED
    BY <1>3, <2>1 DEF convertStrToInt
<1>5. StringOf(x, old) \in Nat
  BY <1>2, SizesTyped DEF StringOf, strncpy, Lesser
<1> QED
  BY <1>1, <1>2, <1>3, <1>4, <1>5 DEF Hex, Byte, atoi

(* An item that there is room for is one of the array.                     *)
LEMMA FitsAre ==
    ASSUME NEW x, x.type = "array" => x.items \in Seq(Range(x.items)), Has(x, {"array"}), NEW n \in Nat
    PROVE  \A k \in DOMAIN Fits(x, n) : x.type = "array" /\ k \in DOMAIN x.items
<1>1. CASE x.type = "none"
  BY <1>1 DEF Fits
<1>2. CASE x.type = "array"
  <2>1. PICK A : A = Range(x.items)
    OBVIOUS
  <2>2. PICK q \in Seq(A) : q = x.items
    BY <1>2, <2>1
  <2>3. Fits(x, n) = UpToSize(q, n)
    BY <1>2, <2>2 DEF Fits
  <2>4. UpToSize(q, n) \in Seq(A) /\ Len(UpToSize(q, n)) = Lesser(n, Len(q))
    BY UpToSizeIs
  <2>5. DOMAIN UpToSize(q, n) \subseteq DOMAIN q
    BY <2>4 DEF Lesser
  <2> QED
    BY <1>2, <2>2, <2>3, <2>5
<1> QED
  BY <1>1, <1>2 DEF Has

(* What else the parser reads.                                             *)
LEMMA ReadRest ==
    ASSUME NEW o, Accepted(o)
    PROVE  /\ DOMAIN json_parse(o).section = DOMAIN Zeroed
           /\ json_parse(o).section.event_id = 0
           /\ json_parse(o).section.starttime = IntOf(o.starttime, 0)
           /\ json_parse(o).section.ext =
                 StringOf(IF o.EXTENDED_EVENT_DESCRIPTOR.type = "none" THEN None ELSE o.EXTENDED_EVENT_DESCRIPTOR.text, 0)
           /\ json_parse(o).section.leak =
                 atoi(IF o.SHORT_SMOOTHING_BUFFER_DESCRIPTOR.type = "none" THEN None
                      ELSE o.SHORT_SMOOTHING_BUFFER_DESCRIPTOR.rate, 0)
           /\ json_parse(o).section.ca =
                 [k \in 1..CaSize |-> IF k \in DOMAIN Fits(o.CA_IDENTIFIER_DESCRIPTOR, CaSize)
                                      THEN Hex(o.CA_IDENTIFIER_DESCRIPTOR.items[k], 0) ELSE 0]
<1> DEFINE Z == Zeroed
<1>1. /\ Z.starttime = 0 /\ Z.event_id = 0 /\ Z.ext = 0 /\ Z.leak = 0
      /\ Z.items = Times(ItemSize, 0) /\ Z.ca = Times(CaSize, 0)
      /\ DOMAIN Z = {"starttime", "duration", "event_id", "short", "ext", "items", "component", "rating",
                     "content", "ca", "leak"}
  BY DEF Zeroed, SectionOf
<1> HIDE DEF Z
<1>2. /\ json_parse(o).section.starttime = IntOf(o.starttime, Z.starttime)
      /\ json_parse(o).section.event_id = Z.event_id
      /\ DOMAIN json_parse(o).section = DOMAIN Z
  BY <1>1 DEF json_parse, Allocated, Z
<1>3. json_parse(o).section.ext =
         StringOf(IF o.EXTENDED_EVENT_DESCRIPTOR.type = "none" THEN None ELSE o.EXTENDED_EVENT_DESCRIPTOR.text, Z.ext)
  BY <1>1 DEF json_parse, Allocated, Z
<1>4. json_parse(o).section.leak =
         atoi(IF o.SHORT_SMOOTHING_BUFFER_DESCRIPTOR.type = "none" THEN None
              ELSE o.SHORT_SMOOTHING_BUFFER_DESCRIPTOR.rate, Z.leak)
  BY <1>1 DEF json_parse, Allocated, Z
<1>6. DOMAIN Z.ca = 1..CaSize /\ Len(Z.ca) = CaSize /\ \A k \in 1..CaSize : Z.ca[k] = 0
  BY <1>1, SizesTyped DEF Times
<1>8. json_parse(o).section.ca =
        [k \in 1..CaSize |-> IF k \in DOMAIN Fits(o.CA_IDENTIFIER_DESCRIPTOR, CaSize)
                             THEN Hex(o.CA_IDENTIFIER_DESCRIPTOR.items[k], 0) ELSE 0]
  <2>1. json_parse(o).section.ca =
          [k \in DOMAIN Z.ca |->
             IF k \in DOMAIN Fits(o.CA_IDENTIFIER_DESCRIPTOR, Len(Z.ca))
             THEN Hex(o.CA_IDENTIFIER_DESCRIPTOR.items[k], Z.ca[k]) ELSE Z.ca[k]]
    BY <1>1 DEF json_parse, Allocated, Z, Parsed
  <2> QED
    BY <1>6, <2>1
<1> QED
  BY <1>1, <1>2, <1>3, <1>4, <1>8 DEF Z

(* The items that it reads.                                                *)
LEMMA ItemsRead ==
    ASSUME NEW o, Accepted(o),
           NEW x, x = IF o.EXTENDED_EVENT_DESCRIPTOR.type = "none" THEN None ELSE o.EXTENDED_EVENT_DESCRIPTOR.items
    PROVE  json_parse(o).section.items =
              [k \in 1..ItemSize |-> IF k \in DOMAIN Fits(x, ItemSize) THEN item_of(x.items[k], 0) ELSE 0]
<1> DEFINE Z == Zeroed
<1>1. /\ Z.items = Times(ItemSize, 0)
      /\ DOMAIN Z = {"starttime", "duration", "event_id", "short", "ext", "items", "component", "rating",
                     "content", "ca", "leak"}
  BY DEF Zeroed, SectionOf
<1> HIDE DEF Z
<1>2. DOMAIN Z.items = 1..ItemSize /\ Len(Z.items) = ItemSize /\ \A k \in 1..ItemSize : Z.items[k] = 0
  BY <1>1, SizesTyped DEF Times
<1>3. json_parse(o).section.items =
        [k \in DOMAIN Z.items |->
           IF k \in DOMAIN Fits(x, Len(Z.items)) THEN item_of(x.items[k], Z.items[k]) ELSE Z.items[k]]
  BY <1>1 DEF json_parse, Allocated, Z, Parsed
<1> QED
  BY <1>2, <1>3

(* None is neither a number nor a text.                                    *)
LEMMA NoneTyped == ScalarOK(None) /\ None.type = "none"
BY DEF ScalarOK, None

(* A component and a content as the parser takes them.                     *)
LEMMA ElementsRead ==
    /\ \A c : ComponentOK(c) /\ GoodComponent(c) => component_of(c, Component(0)) \in ComponentElement
    /\ \A c : ContentOK(c) /\ GoodContent(c) => content_of(c, Content(0)) \in LevelElement
    /\ \A i : ItemOK(i) /\ GoodItem(i) => item_of(i, 0) \in Nat
<1>0. 0 \in Nat
  OBVIOUS
<1>1. ASSUME NEW c, ComponentOK(c), GoodComponent(c) PROVE component_of(c, Component(0)) \in ComponentElement
  <2>1. ScalarOK(c.stream) /\ ScalarOK(c.tag) /\ ScalarOK(c.text)
    BY <1>1 DEF ComponentOK, GoodComponent, ObjectOK
  <2>2. Byte(c.stream, 0) \in 0..255 /\ IntOf(c.tag, 0) % 256 \in 0..255 /\ StringOf(c.text, 0) \in Nat
    BY <1>0, <2>1, ScalarRead
  <2>3. component_of(c, Component(0)) =
          [stream |-> Byte(c.stream, 0), tag |-> IntOf(c.tag, 0) % 256, text |-> StringOf(c.text, 0)]
    BY DEF component_of, Component
  <2> QED
    BY <2>2, <2>3 DEF ComponentElement
<1>2. ASSUME NEW c, ContentOK(c), GoodContent(c) PROVE content_of(c, Content(0)) \in LevelElement
  <2>1. ScalarOK(c.level_1) /\ ScalarOK(c.level_2) /\ ScalarOK(c.user)
    BY <1>2 DEF ContentOK, GoodContent, ObjectOK
  <2>2. Hex(c.level_1, 0) \in Nat /\ Hex(c.level_2, 0) \in Nat /\ Hex(c.user, 0) \in Nat
    BY <1>0, <2>1, ScalarRead
  <2>3. content_of(c, Content(0)) =
          [level_1 |-> Hex(c.level_1, 0), level_2 |-> Hex(c.level_2, 0), user |-> Hex(c.user, 0)]
    BY DEF content_of, Content
  <2> QED
    BY <2>2, <2>3 DEF LevelElement
<1>3. ASSUME NEW i, ItemOK(i), GoodItem(i) PROVE item_of(i, 0) \in Nat
  <2>1. ScalarOK(i.text)
    BY <1>3 DEF ItemOK, GoodItem, ObjectOK
  <2> QED
    BY <1>0, <2>1, ScalarRead DEF item_of
<1> QED
  BY <1>1, <1>2, <1>3

(* What the parser accepts, it makes a section that is set throughout.     *)
LEMMA ParsedTyped ==
    ASSUME NEW o, JsonOK(o), Accepted(o)
    PROVE  SetSection(json_parse(o).section)
<1>0. 0 \in Nat
  OBVIOUS
<1>1. PICK s : s = json_parse(o).section
  OBVIOUS
<1>2. o.type = "object"
  BY DEF Accepted
<1>3. s.duration \in Nat /\ s.starttime \in Nat /\ s.event_id \in Nat /\ DOMAIN s = DOMAIN Zeroed
  <2>1. ScalarOK(o.duration) /\ ScalarOK(o.starttime)
    BY <1>2 DEF JsonOK
  <2>2. IntOf(o.duration, 0) \in Nat /\ IntOf(o.starttime, 0) \in Nat
    BY <1>0, <2>1, ScalarRead
  <2> QED
    BY <1>0, <1>1, <2>2, ReadIs, ReadRest
<1>4. s.short \in Nat
  <2>1. PICK x : x = IF o.SHORT_EVENT_DESCRIPTOR.type = "none" THEN None ELSE o.SHORT_EVENT_DESCRIPTOR.text
    OBVIOUS
  <2>2. o.SHORT_EVENT_DESCRIPTOR.type \in {"none", "object"}
    BY DEF Accepted, Good, Has
  <2>3. ScalarOK(x)
    BY <1>2, <2>1, <2>2, NoneTyped DEF JsonOK, ObjectOK
  <2>4. s.short = StringOf(IF o.SHORT_EVENT_DESCRIPTOR.type = "none" THEN None ELSE o.SHORT_EVENT_DESCRIPTOR.text, 0)
    BY <1>1, ReadIs
  <2>5. s.short = StringOf(x, 0)
    BY <2>1, <2>4
  <2> QED
    BY <1>0, <2>3, <2>5, ScalarRead
<1>5. s.ext \in Nat
  <2>1. PICK x : x = IF o.EXTENDED_EVENT_DESCRIPTOR.type = "none" THEN None ELSE o.EXTENDED_EVENT_DESCRIPTOR.text
    OBVIOUS
  <2>2. o.EXTENDED_EVENT_DESCRIPTOR.type \in {"none", "object"}
    BY DEF Accepted, Good, Has
  <2>3. ScalarOK(x)
    BY <1>2, <2>1, <2>2, NoneTyped DEF JsonOK, ObjectOK
  <2>4. s.ext = StringOf(IF o.EXTENDED_EVENT_DESCRIPTOR.type = "none" THEN None ELSE o.EXTENDED_EVENT_DESCRIPTOR.text, 0)
    BY <1>1, ReadRest
  <2>5. s.ext = StringOf(x, 0)
    BY <2>1, <2>4
  <2> QED
    BY <1>0, <2>3, <2>5, ScalarRead
<1>6. s.leak \in Nat
  <2>1. PICK x : x = IF o.SHORT_SMOOTHING_BUFFER_DESCRIPTOR.type = "none" THEN None
                     ELSE o.SHORT_SMOOTHING_BUFFER_DESCRIPTOR.rate
    OBVIOUS
  <2>2. o.SHORT_SMOOTHING_BUFFER_DESCRIPTOR.type \in {"none", "object"}
    BY DEF Accepted, Good, Has
  <2>3. ScalarOK(x)
    BY <1>2, <2>1, <2>2, NoneTyped DEF JsonOK, ObjectOK
  <2>4. s.leak = atoi(IF o.SHORT_SMOOTHING_BUFFER_DESCRIPTOR.type = "none" THEN None ELSE o.SHORT_SMOOTHING_BUFFER_DESCRIPTOR.rate, 0)
    BY <1>1, ReadRest
  <2>5. s.leak = atoi(x, 0)
    BY <2>1, <2>4
  <2> QED
    BY <1>0, <2>3, <2>5, ScalarRead
<1>7. s.rating.age \in Nat
  <2>1. PICK x : x = IF o.PARENTAL_RATING_DESCRIPTOR.type = "none" THEN None ELSE o.PARENTAL_RATING_DESCRIPTOR.age
    OBVIOUS
  <2>2. o.PARENTAL_RATING_DESCRIPTOR.type \in {"none", "object"}
    BY DEF Accepted, Good, Has
  <2>3. ScalarOK(x)
    BY <1>2, <2>1, <2>2, NoneTyped DEF JsonOK, ObjectOK
  <2>4. IntOf(x, 0) % 256 \in Nat
    BY <1>0, <2>3, ScalarRead
  <2>5. s.rating.age = IntOf(IF o.PARENTAL_RATING_DESCRIPTOR.type = "none" THEN None
                             ELSE o.PARENTAL_RATING_DESCRIPTOR.age, 0) % 256
    <3>1. s.rating =
            [age |-> IntOf(IF o.PARENTAL_RATING_DESCRIPTOR.type = "none" THEN None
                           ELSE o.PARENTAL_RATING_DESCRIPTOR.age, 0) % 256,
             country_code |-> StringOf(IF o.PARENTAL_RATING_DESCRIPTOR.type = "none" THEN None
                                       ELSE o.PARENTAL_RATING_DESCRIPTOR.country_code, 0)]
      BY <1>1, ReadIs
    <3> QED
      BY <3>1
  <2>6. s.rating.age = IntOf(x, 0) % 256
    BY <2>1, <2>5
  <2> QED
    BY <2>4, <2>6
<1>8. s.items \in [1..ItemSize -> Nat]
  <2>1. PICK e, x : e = o.EXTENDED_EVENT_DESCRIPTOR /\ x = IF e.type = "none" THEN None ELSE e.items
    OBVIOUS
  <2>2. e.type = "none" \/ (e.type = "object" /\ AllGood(x, ItemSize, GoodItem) /\ ArrayOK(x, ItemOK))
    <3>1. Good(e, "object", GoodExtended)
      BY <2>1 DEF Accepted
    <3>2. e.type = "none" \/ (e.type = "object" /\ GoodExtended(e))
      BY <3>1 DEF Good, Has
    <3>3. e.type = "object" => ArrayOK(e.items, ItemOK)
      BY <1>2, <2>1 DEF JsonOK
    <3> QED
      BY <2>1, <3>2, <3>3 DEF GoodExtended
  <2>3. ASSUME NEW k \in DOMAIN Fits(x, ItemSize) PROVE item_of(x.items[k], 0) \in Nat
    <3>1. e.type # "none"
      BY <2>1, <2>3, NoneTyped DEF Fits
    <3>2. Has(x, {"array"}) /\ (x.type = "array" => GoodItem(x.items[k]))
      BY <2>2, <2>3, <3>1 DEF AllGood, Good
    <3>3. x.type = "array" => x.items \in Seq(Range(x.items)) /\ \A j \in DOMAIN x.items : ItemOK(x.items[j])
      BY <2>2, <3>1 DEF ArrayOK
    <3>4. x.type = "array" /\ k \in DOMAIN x.items
      BY <2>3, <3>2, <3>3, FitsAre, SizesTyped
    <3> QED
      BY <3>2, <3>3, <3>4, ElementsRead
  <2>4. s.items = [k \in 1..ItemSize |-> IF k \in DOMAIN Fits(x, ItemSize) THEN item_of(x.items[k], 0) ELSE 0]
    <3>1. x = IF o.EXTENDED_EVENT_DESCRIPTOR.type = "none" THEN None ELSE o.EXTENDED_EVENT_DESCRIPTOR.items
      BY <2>1
    <3> QED
      BY <1>1, <3>1, ItemsRead
  <2> QED
    BY <2>3, <2>4
<1>9. s.ca \in [1..CaSize -> Nat]
  <2>1. PICK x : x = o.CA_IDENTIFIER_DESCRIPTOR
    OBVIOUS
  <2>2. Has(x, {"array"})
    BY <2>1 DEF Accepted, AllGood, Good
  <2>3. x.type = "array" => x.items \in Seq(Range(x.items)) /\ \A j \in DOMAIN x.items : ScalarOK(x.items[j])
    BY <1>2, <2>1 DEF JsonOK, ArrayOK
  <2>4. \A k \in DOMAIN Fits(x, CaSize) : Hex(x.items[k], 0) \in Nat
    BY <1>0, <2>2, <2>3, FitsAre, SizesTyped, ScalarRead
  <2>5. s.ca = [k \in 1..CaSize |-> IF k \in DOMAIN Fits(x, CaSize) THEN Hex(x.items[k], 0) ELSE 0]
    BY <1>1, <2>1, ReadRest
  <2> QED
    BY <2>4, <2>5
<1>10. s.component \in [1..ComponentSize -> ComponentElement]
  <2>1. PICK x : x = o.COMPONENT_DESCRIPTOR
    OBVIOUS
  <2>2. Has(x, {"array"}) /\ \A k \in DOMAIN Fits(x, ComponentSize) : x.type = "array" => GoodComponent(x.items[k])
    BY <2>1 DEF Accepted, AllGood, Good
  <2>3. x.type = "array" => x.items \in Seq(Range(x.items)) /\ \A j \in DOMAIN x.items : ComponentOK(x.items[j])
    BY <1>2, <2>1 DEF JsonOK, ArrayOK
  <2>4. \A k \in DOMAIN Fits(x, ComponentSize) : component_of(x.items[k], Component(0)) \in ComponentElement
    BY <2>2, <2>3, FitsAre, SizesTyped, ElementsRead
  <2>5. s.component = [k \in 1..ComponentSize |-> IF k \in DOMAIN Fits(x, ComponentSize)
                      THEN component_of(x.items[k], Component(0)) ELSE Component(0)]
    <3>1. s.component = [k \in 1..ComponentSize |-> IF k \in DOMAIN Fits(o.COMPONENT_DESCRIPTOR, ComponentSize)
                        THEN component_of(o.COMPONENT_DESCRIPTOR.items[k], Component(0)) ELSE Component(0)]
      BY <1>1, ReadIs
    <3> QED
      BY <2>1, <3>1
  <2>6. Component(0) \in ComponentElement
    BY DEF Component, ComponentElement
  <2> QED
    BY <2>4, <2>5, <2>6
<1>11. s.content \in [1..ContentSize -> LevelElement]
  <2>1. PICK x : x = o.CONTENT_DESCRIPTOR
    OBVIOUS
  <2>2. Has(x, {"array"}) /\ \A k \in DOMAIN Fits(x, ContentSize) : x.type = "array" => GoodContent(x.items[k])
    BY <2>1 DEF Accepted, AllGood, Good
  <2>3. x.type = "array" => x.items \in Seq(Range(x.items)) /\ \A j \in DOMAIN x.items : ContentOK(x.items[j])
    BY <1>2, <2>1 DEF JsonOK, ArrayOK
  <2>4. \A k \in DOMAIN Fits(x, ContentSize) : content_of(x.items[k], Content(0)) \in LevelElement
    BY <2>2, <2>3, FitsAre, SizesTyped, ElementsRead
  <2>5. s.content = [k \in 1..ContentSize |-> IF k \in DOMAIN Fits(x, ContentSize)
                      THEN content_of(x.items[k], Content(0)) ELSE Content(0)]
    <3>1. s.content = [k \in 1..ContentSize |-> IF k \in DOMAIN Fits(o.CONTENT_DESCRIPTOR, ContentSize)
                        THEN content_of(o.CONTENT_DESCRIPTOR.items[k], Content(0)) ELSE Content(0)]
      BY <1>1, ReadIs
    <3> QED
      BY <2>1, <3>1
  <2>6. Content(0) \in LevelElement
    BY DEF Content, LevelElement
  <2> QED
    BY <2>4, <2>5, <2>6
<1> QED
  BY <1>1, <1>3, <1>4, <1>5, <1>6, <1>7, <1>8, <1>9, <1>10, <1>11 DEF SetSection

-----------------------------------------------------------------------------
(* What the conversion from XML sets.                                      *)

(* What the conversion makes a number and what it may leave.               *)
Built(s) ==
    /\ DOMAIN s = DOMAIN Zeroed
    /\ {s.starttime, s.duration, s.event_id, s.short, s.rating.age, s.rating.country_code} \subseteq Nat
    /\ {s.ext, s.leak} \subseteq ValueOK
    /\ s.items \in [1..ItemSize -> ValueOK] /\ s.ca \in [1..CaSize -> ValueOK]
    /\ s.component \in [1..ComponentSize -> ComponentElement]
    /\ s.content \in [1..ContentSize -> LevelElement]

(* What is not set at all has the type of a section.                       *)
LEMMA UninitialisedTyped == SectionOK(Uninitialised)
<1>1. PICK s : s = Uninitialised
  OBVIOUS
<1>2. /\ s.starttime = Garbage /\ s.duration = Garbage /\ s.event_id = Garbage /\ s.short = Garbage
      /\ s.ext = Garbage /\ s.leak = Garbage
      /\ s.items = Times(ItemSize, Garbage) /\ s.ca = Times(CaSize, Garbage)
      /\ s.component = Times(ComponentSize, Component(Garbage)) /\ s.content = Times(ContentSize, Content(Garbage))
      /\ DOMAIN s = DOMAIN Zeroed
  BY <1>1 DEF Uninitialised, Zeroed, SectionOf
<1>3. \A k \in 1..ComponentSize : {s.component[k].stream, s.component[k].tag} \subseteq -1..255
  BY <1>2 DEF Times, Component, Garbage
<1>4. s.items \in [1..ItemSize -> ValueOK] /\ s.ca \in [1..CaSize -> ValueOK]
  BY <1>2 DEF Times, ValueOK
<1>5. DOMAIN s.component = 1..ComponentSize /\ DOMAIN s.content = 1..ContentSize
  BY <1>2 DEF Times
<1> QED
  BY <1>1, <1>2, <1>3, <1>4, <1>5 DEF SectionOK, ValueOK

(* A section that was built has its type.                                  *)
LEMMA BuiltIsTyped == ASSUME NEW s, Built(s) PROVE SectionOK(s)
<1>1. \A k \in 1..ComponentSize : {s.component[k].stream, s.component[k].tag} \subseteq -1..255
  <2> SUFFICES ASSUME NEW k \in 1..ComponentSize PROVE {s.component[k].stream, s.component[k].tag} \subseteq -1..255
    OBVIOUS
  <2>1. s.component[k].stream \in 0..255 /\ s.component[k].tag \in 0..255
    BY DEF Built, ComponentElement
  <2> QED
    BY <2>1
<1> QED
  BY <1>1 DEF Built, SectionOK, ValueOK

(* The elements of a kind, of all the events.                              *)
LEMMA NodeSetTyped ==
    ASSUME NEW A, NEW kind, NEW es, NEW n \in Nat, DOMAIN es = 1..n, \A k \in 1..n : es[k][kind] \in Seq(A)
    PROVE  get_xml_node_set(es, kind) \in Seq(A)
<1>1. PICK B : B = Seq(A)
  OBVIOUS
<1>2. PICK q : q = [k \in DOMAIN es |-> es[k][kind]]
  OBVIOUS
<1>3. q \in Seq(B)
  BY <1>1, <1>2
<1> QED
  BY <1>1, <1>2, <1>3, FlattenTyped DEF get_xml_node_set

(* Whatever events are found, the section is built.                        *)
LEMMA SectionBuilt ==
    ASSUME NEW id \in Nat, NEW es \in Seq(EventElement), es # <<>>
    PROVE  Built(build_eit_section(Uninitialised, id, es))
<1>1. PICK n \in Nat : n = Len(es) /\ DOMAIN es = 1..n /\ n > 0
  <2>1. Len(es) # 0
    BY EmptySeq
  <2> QED
    BY <2>1
<1>2. ASSUME NEW k \in 1..n
      PROVE  /\ es[k].SHORT_EVENT_DESC \in Seq(Nat) /\ es[k].PARENTAL_RATING_DESC \in Seq(RatingElement)
             /\ es[k].CONTENT_DESC \in Seq(ContentElement) /\ es[k].COMPONENT_DESC \in Seq(ComponentElement)
  <2>1. PICK e \in EventElement : e = es[k]
    BY <1>1
  <2> QED
    BY <2>1 DEF EventElement, RatingElement, ContentElement, ComponentElement
<1>3. /\ get_xml_node_set(es, "SHORT_EVENT_DESC") \in Seq(Nat)
      /\ get_xml_node_set(es, "PARENTAL_RATING_DESC") \in Seq(RatingElement)
      /\ get_xml_node_set(es, "CONTENT_DESC") \in Seq(ContentElement)
      /\ get_xml_node_set(es, "COMPONENT_DESC") \in Seq(ComponentElement)
  BY <1>1, <1>2, NodeSetTyped
<1>4. Head(es).starttime \in Nat /\ Head(es).duration \in Nat
  <2>1. PICK e \in EventElement : e = Head(es)
    BY <1>1
  <2> QED
    BY <2>1 DEF EventElement
<1>5. build_short_event(es) \in Nat
  <2>1. FirstOf(get_xml_node_set(es, "SHORT_EVENT_DESC"), 0) \in Nat
    BY <1>3 DEF FirstOf
  <2> QED
    BY <2>1, SizesTyped DEF build_short_event, strncpy, Lesser
<1>6. build_parental_rating(es).age \in Nat /\ build_parental_rating(es).country_code \in Nat
  <2>1. Rating(0) \in RatingElement
    BY SizesTyped DEF Rating, RatingElement
  <2>2. build_parental_rating(es) \in RatingElement
    <3> HIDE DEF RatingElement
    <3> QED
      BY <1>3, <2>1 DEF build_parental_rating, FirstOf
  <2>3. PICK r \in RatingElement : r = build_parental_rating(es)
    BY <2>2
  <2>4. r.age \in 0..255 /\ r.country_code \in 0..TextSize
    BY DEF RatingElement
  <2>5. (\A x \in 0..255 : x \in Nat) /\ (\A x \in 0..TextSize : x \in Nat)
    OBVIOUS
  <2> QED
    BY <2>3, <2>4, <2>5
<1>7. build_component_desc(es) \in [1..ComponentSize -> ComponentElement]
  <2>1. PICK q \in Seq(ComponentElement) : q = get_xml_node_set(es, "COMPONENT_DESC")
    BY <1>3
  <2>2. Component(0) \in ComponentElement
    BY DEF Component, ComponentElement
  <2>3. build_component_desc(es) = [k \in 1..ComponentSize |-> IF k \in DOMAIN q THEN q[k] ELSE Component(0)]
    BY <2>1 DEF build_component_desc, Filled, Times
  <2> HIDE DEF ComponentElement
  <2> QED
    BY <2>2, <2>3
<1>8. build_content_desc(es) \in [1..ContentSize -> LevelElement]
  <2>1. PICK q \in Seq(ContentElement) : q = get_xml_node_set(es, "CONTENT_DESC")
    BY <1>3
  <2>2. UpToSize(q, ComponentSize) \in Seq(ContentElement)
    BY SizesTyped, UpToSizeIs
  <2>3. PICK c \in Seq(ContentElement) : c = UpToSize(q, ComponentSize)
    BY <2>2
  <2>4. PICK d : d = [k \in DOMAIN c |-> [c[k] EXCEPT !.user = 0]]
    OBVIOUS
  <2>5. ASSUME NEW k \in DOMAIN c PROVE d[k] \in LevelElement
    <3>1. PICK x \in ContentElement : x = c[k]
      BY <2>5
    <3>2. d[k] = [x EXCEPT !.user = 0]
      BY <2>4, <3>1
    <3>3. x.level_1 \in 0..15 /\ x.level_2 \in 0..15 /\ [x EXCEPT !.user = 0] = [level_1 |-> x.level_1, level_2 |-> x.level_2, user |-> 0]
      BY DEF ContentElement
    <3> QED
      BY <3>2, <3>3 DEF LevelElement
  <2>6. Content(0) \in LevelElement
    BY DEF Content, LevelElement
  <2>7. build_content_desc(es) = [k \in 1..ContentSize |-> IF k \in DOMAIN d THEN d[k] ELSE Content(0)]
    BY <2>1, <2>3, <2>4 DEF build_content_desc, Filled, Times
  <2>8. DOMAIN d = DOMAIN c
    BY <2>4
  <2> HIDE DEF LevelElement
  <2> QED
    BY <2>5, <2>6, <2>7, <2>8
<1>9. PICK s : s = build_eit_section(Uninitialised, id, es)
  OBVIOUS
<1>10. /\ s.starttime = Head(es).starttime /\ s.duration = Head(es).duration /\ s.event_id = id
       /\ s.short = build_short_event(es) /\ s.rating = build_parental_rating(es)
       /\ s.component = build_component_desc(es) /\ s.content = build_content_desc(es)
       /\ s.ext = Garbage /\ s.leak = Garbage
       /\ s.items = Times(ItemSize, Garbage) /\ s.ca = Times(CaSize, Garbage)
       /\ DOMAIN s = DOMAIN Zeroed
  BY <1>9 DEF build_eit_section, Uninitialised, Zeroed, SectionOf
<1>11. s.items \in [1..ItemSize -> ValueOK] /\ s.ca \in [1..CaSize -> ValueOK]
  BY <1>10 DEF Times, ValueOK
<1> QED
  BY <1>4, <1>5, <1>6, <1>7, <1>8, <1>9, <1>10, <1>11 DEF Built, ValueOK

(* What is written of it is accepted, and made a section set throughout.   *)
LEMMA WrittenTyped ==
    ASSUME NEW s, Built(s)
    PROVE  JsonOK(convert_eit_struct_to_json(s)) /\ Accepted(convert_eit_struct_to_json(s))
<1>1. PICK n \in Nat : n = ComponentSize
  BY SizesTyped
<1>2. Tagged(s.component) \in Seq(ComponentElement)
  <2>1. s.component \in Seq(ComponentElement)
    BY <1>1 DEF Built
  <2> QED
    BY <2>1, ChosenTyped DEF Tagged
<1>3. Accepted(convert_eit_struct_to_json(s))
  BY <1>2, WrittenIsAccepted
<1>4. PICK o : o = convert_eit_struct_to_json(s)
  OBVIOUS
<1>5. /\ o.type = "object" /\ o.duration = JsonInt(s.duration) /\ o.starttime = None
      /\ o.SHORT_EVENT_DESCRIPTOR = [type |-> "object", text |-> JsonText(Word(s.short))]
      /\ o.PARENTAL_RATING_DESCRIPTOR =
            IF s.rating.age = 0 THEN [type |-> "object", age |-> None, country_code |-> None]
            ELSE rating_to_json(s.rating)
      /\ o.CONTENT_DESCRIPTOR =
            JsonArray(IF s.content[1].level_1 = 0 THEN <<>> ELSE <<content_to_json(s.content[1])>>)
      /\ o.COMPONENT_DESCRIPTOR =
            JsonArray([k \in DOMAIN Tagged(s.component) |-> component_to_json(Tagged(s.component)[k])])
      /\ o.EXTENDED_EVENT_DESCRIPTOR = None /\ o.CA_IDENTIFIER_DESCRIPTOR = None
      /\ o.SHORT_SMOOTHING_BUFFER_DESCRIPTOR = None
  BY <1>4, WrittenIs
<1>6. (\A m \in Nat : ScalarOK(JsonInt(m)) /\ ScalarOK(JsonText(Word(m)))) /\ ScalarOK(None)
  BY DEF ScalarOK, JsonInt, JsonText, Word, Text, TextElement, None
<1>7. ScalarOK(o.starttime) /\ ScalarOK(o.duration)
  BY <1>5, <1>6 DEF Built
<1>8. ObjectOK(o.SHORT_EVENT_DESCRIPTOR, {"text"})
  BY <1>5, <1>6 DEF Built, ObjectOK
<1>9. ObjectOK(o.PARENTAL_RATING_DESCRIPTOR, {"age", "country_code"})
  <2>1. s.rating.age \in Nat /\ s.rating.country_code \in Nat
    BY DEF Built
  <2>2. PICK r : r = o.PARENTAL_RATING_DESCRIPTOR
    OBVIOUS
  <2>3. r.age \in {None, JsonInt(s.rating.age)} /\ r.country_code \in {None, JsonText(Word(s.rating.country_code))}
    BY <1>5, <2>2 DEF rating_to_json
  <2>4. ScalarOK(r.age) /\ ScalarOK(r.country_code)
    BY <1>6, <2>1, <2>3
  <2> QED
    BY <2>2, <2>4 DEF ObjectOK
<1>10. ArrayOK(o.COMPONENT_DESCRIPTOR, ComponentOK)
  <2>1. PICK t \in Seq(ComponentElement) : t = Tagged(s.component)
    BY <1>2
  <2>2. PICK q : q = [k \in DOMAIN t |-> component_to_json(t[k])]
    OBVIOUS
  <2>3. q \in Seq(Range(q)) /\ DOMAIN q = DOMAIN t
    BY <2>2 DEF Range
  <2>4. ASSUME NEW k \in DOMAIN q PROVE ComponentOK(q[k])
    <3>1. PICK c \in ComponentElement : c = t[k]
      BY <2>3, <2>4
    <3>2. c.stream \in Nat /\ c.tag \in Nat /\ c.text \in Nat
      <4>1. c.stream \in 0..255 /\ c.tag \in 0..255 /\ c.text \in Nat
        BY DEF ComponentElement
      <4>2. \A x \in 0..255 : x \in Nat
        OBVIOUS
      <4> QED
        BY <4>1, <4>2
    <3>3. q[k].stream = JsonInt(c.stream) /\ q[k].tag = JsonInt(c.tag) /\ q[k].text = JsonText(Word(c.text))
      BY <2>2, <2>3, <2>4, <3>1 DEF component_to_json
    <3> QED
      BY <1>6, <3>2, <3>3 DEF ComponentOK, ObjectOK
  <2>5. o.COMPONENT_DESCRIPTOR.items = q
    BY <1>5, <2>1, <2>2 DEF JsonArray
  <2> QED
    BY <2>3, <2>4, <2>5 DEF ArrayOK
<1>11. ArrayOK(o.CONTENT_DESCRIPTOR, ContentOK)
  <2>1. PICK f : f = s.content[1]
    OBVIOUS
  <2>2. f.level_1 \in Nat /\ f.level_2 \in Nat
    <3>1. 1 \in 1..ContentSize
      BY SizesTyped
    <3>2. f \in LevelElement
      BY <2>1, <3>1 DEF Built
    <3> QED
      BY <3>2 DEF LevelElement
  <2>3. PICK q : q = IF f.level_1 = 0 THEN <<>> ELSE <<content_to_json(f)>>
    OBVIOUS
  <2>4. q \in Seq(Range(q))
    <3>1. PICK c : c = content_to_json(f)
      OBVIOUS
    <3>2. <<c>> \in Seq({c}) /\ Range(<<c>>) = {c}
      BY DEF Range
    <3>3. q = <<c>> => q \in Seq(Range(q))
      BY <3>2
    <3>4. q = <<>> => q \in Seq(Range(q))
      OBVIOUS
    <3> QED
      BY <2>3, <3>1, <3>3, <3>4
  <2>5. ContentOK(content_to_json(f))
    BY <1>6, <2>2 DEF ContentOK, ObjectOK, content_to_json
  <2>6. \A k \in DOMAIN q : ContentOK(q[k])
    BY <2>3, <2>5
  <2>7. o.CONTENT_DESCRIPTOR.items = q
    BY <1>5, <2>1, <2>3 DEF JsonArray
  <2> QED
    BY <2>4, <2>6, <2>7 DEF ArrayOK
<1>12. /\ ObjectOK(o.EXTENDED_EVENT_DESCRIPTOR, {"text"}) /\ o.EXTENDED_EVENT_DESCRIPTOR.type # "object"
       /\ ObjectOK(o.SHORT_SMOOTHING_BUFFER_DESCRIPTOR, {"rate"})
       /\ ArrayOK(o.CA_IDENTIFIER_DESCRIPTOR, ScalarOK)
  BY <1>5 DEF None, ObjectOK, ArrayOK
<1> QED
  BY <1>3, <1>4, <1>7, <1>8, <1>9, <1>10, <1>11, <1>12 DEF JsonOK

(* What is made of a video, in whatever order its events are.              *)
LEMMA ConvertedTyped ==
    ASSUME NEW doc \in Document, NEW converted, converted = convert_xml_to_eit_struct(Both(Uninitialised), doc),
           converted # Failed
    PROVE  /\ DOMAIN converted.eit = Sections /\ \A s \in Sections : Built(converted.eit[s])
           /\ ~doc.malformed /\ doc.programs # <<>> /\ Head(doc.programs) # 0 /\ Program(doc) # {}
<1>1. PICK program : program = build_program_number(doc)
  OBVIOUS
<1>2. PICK es \in Seq(EventElement) : es = Listed(doc) /\ es = Events(doc, program)
  BY <1>1, ListedTyped DEF Listed
<1>3. PICK ids : ids = build_sections_event_id(es)
  OBVIOUS
<1>4. PICK n \in Nat : n = Len(es) /\ DOMAIN es = 1..n
  OBVIOUS
<1>5. ids \in Ids /\ {ids.section0, ids.section1} \subseteq {Invalid} \union {es[k].id : k \in 1..n}
  BY <1>3, <1>4, FoundAreNumbers
<1>6. DOMAIN ids = Sections /\ \A s \in Sections : ids[s] \in Nat /\ ids[s] \in {ids.section0, ids.section1}
  BY <1>5 DEF Ids, Sections
<1> DEFINE Wrong == \/ doc.malformed
                    \/ program = Invalid
                    \/ Invalid \in {ids.section0, ids.section1}
                    \/ \E s \in DOMAIN ids : ~build_starttime_duration(Of(es, ids[s]))
           Made == [result |-> "done",
                    eit |-> [s \in DOMAIN ids |-> build_eit_section(Both(Uninitialised)[s], ids[s], Of(es, ids[s]))]]
<1>7. converted = IF Wrong THEN Failed ELSE Made
  BY <1>1, <1>2, <1>3 DEF convert_xml_to_eit_struct
<1>8. ~Wrong /\ converted = Made
  BY <1>7
<1>9. ASSUME NEW s \in Sections PROVE Built(converted.eit[s])
  <2>1. ids[s] # Invalid
    BY <1>6, <1>8, <1>9
  <2>2. PICK p \in 1..n : es[p].id = ids[s]
    BY <1>5, <1>6, <1>9, <2>1
  <2>3. PICK places : places = {k \in DOMAIN es : es[k].id = ids[s]}
    OBVIOUS
  <2>4. Chosen(es, places) # <<>> /\ Chosen(es, places) \in Seq(EventElement)
    <3>1. p \in 1..Len(es) /\ p \in places
      BY <1>4, <2>2, <2>3
    <3> QED
      BY <3>1, ChosenSome, ChosenTyped
  <2>5. Of(es, ids[s]) = Chosen(es, places)
    BY <2>3 DEF Of
  <2>6. Both(Uninitialised)[s] = Uninitialised
    BY DEF Both, Sections
  <2>7. converted.eit[s] = build_eit_section(Uninitialised, ids[s], Of(es, ids[s]))
    BY <1>6, <1>8, <2>6
  <2> QED
    BY <1>6, <2>4, <2>5, <2>7, SectionBuilt
<1>10. Program(doc) # {}
  <2>1. ids.section0 # Invalid
    BY <1>8
  <2>2. PICK p \in 1..n : es[p].id = ids.section0
    BY <1>5, <2>1
  <2>3. es[p] \in Program(doc)
    BY <1>2, <1>4, <2>1, <2>2 DEF Program, Range, Invalid
  <2> QED
    BY <2>3
<1>11. ~doc.malformed /\ doc.programs # <<>> /\ Head(doc.programs) # 0
  BY <1>1, <1>8 DEF build_program_number, Invalid
<1>12. DOMAIN converted.eit = Sections
  BY <1>6, <1>8
<1> QED
  BY <1>9, <1>10, <1>11, <1>12

-----------------------------------------------------------------------------
(* The ini file in memory.                                                 *)

(* The names, keys and values there can be in memory.                      *)
NamesOf(lines) == {lines[k].name : k \in DOMAIN lines} \union {NoName}
KeysOf(lines) == {lines[k].key : k \in DOMAIN lines} \union {NoKey}
ValueElement == TextElement \union {NoValue}
ParamElement(lines) == [key : KeysOf(lines), value : ValueElement]
SectionElement(lines) == [name : NamesOf(lines), params : Seq(ParamElement(lines))]

(* What is in memory of the file has a section, and fits.                  *)
IniOK(file, lines) ==
    /\ file \in [sections : Seq(SectionElement(lines)), size : 2..PoolSize]
    /\ file.sections # <<>>

(* So it is before the first line.                                         *)
LEMMA NewIniTyped == ASSUME NEW lines PROVE IniOK(NewIni, lines)
<1>1. PICK E : E = SectionElement(lines)
  OBVIOUS
<1>2. Section(NoName) \in E
  BY <1>1 DEF Section, SectionElement, NamesOf
<1>3. <<Section(NoName)>> \in Seq(E) /\ <<Section(NoName)>> # <<>>
  BY <1>2
<1>4. 2 \in 2..PoolSize
  BY SizesTyped
<1> QED
  BY <1>1, <1>3, <1>4 DEF IniOK, NewIni

(* A line keeps it so.                                                     *)
LEMMA LineKeeps ==
    ASSUME NEW lines, NEW p \in DOMAIN lines, LineOK(lines[p]), NEW file, IniOK(file, lines)
    PROVE  IniOK(extraireParamsValeurs(file, lines[p]), lines)
<1>1. PICK E, P : E = SectionElement(lines) /\ P = ParamElement(lines)
  OBVIOUS
<1>2. PICK secs \in Seq(E), n \in 2..PoolSize : file = [sections |-> secs, size |-> n] /\ secs # <<>>
  BY <1>1 DEF IniOK
<1>3. PICK line : line = lines[p]
  OBVIOUS
<1>4. PICK m \in Nat : m = Len(secs) /\ m \in 1..m /\ DOMAIN secs = 1..m
  BY <1>2, EmptySeq
<1>5. ASSUME NEW s \in Seq(E), s # <<>>, NEW k \in 2..PoolSize, NEW f, f = [sections |-> s, size |-> k]
      PROVE  IniOK(f, lines)
  BY <1>1, <1>5 DEF IniOK
<1>6. PICK l \in Nat : l = PoolSize /\ l >= 2
  BY SizesTyped
<1>7. Lesser(n + 3, PoolSize) \in 2..PoolSize /\ Lesser(n + 2, PoolSize) \in 2..PoolSize
  BY <1>2, <1>6 DEF Lesser
<1>8. ASSUME line.key # NoKey, line.value \in TextElement
      PROVE  IniOK(ajouterUnParamValue(file, line), lines)
  <2>1. CASE ~apr_palloc(file)
    BY <2>1 DEF ajouterUnParamValue
  <2>2. CASE apr_palloc(file)
    <3>1. PICK param : param = [key |-> apr_pstrdup(file, 1, line.key, NoKey),
                                value |-> apr_pstrdup(file, 2, line.value, NoValue)]
      OBVIOUS
    <3>2. param \in P
      <4>1. apr_pstrdup(file, 1, line.key, NoKey) \in KeysOf(lines)
        BY <1>3 DEF apr_pstrdup, KeysOf
      <4>2. apr_pstrdup(file, 2, line.value, NoValue) \in ValueElement
        BY <1>8 DEF apr_pstrdup, ValueElement
      <4> QED
        BY <1>1, <3>1, <4>1, <4>2 DEF ParamElement
    <3>3. PICK old : old = secs[m]
      OBVIOUS
    <3>4. PICK name \in NamesOf(lines), params \in Seq(P) : old = [name |-> name, params |-> params]
      <4>1. old \in SectionElement(lines)
        BY <1>1, <1>4, <3>3
      <4> QED
        BY <1>1, <4>1 DEF SectionElement
    <3>5. PICK new : new = [name |-> name, params |-> Append(params, param)]
      OBVIOUS
    <3>6. new \in E
      BY <1>1, <3>2, <3>5 DEF SectionElement
    <3>7. PICK secs1 : secs1 = [secs EXCEPT ![m] = new]
      OBVIOUS
    <3>8. secs1 \in Seq(E) /\ secs1 # <<>>
      <4>1. secs1 \in Seq(E) /\ Len(secs1) = m
        BY <1>4, <3>6, <3>7
      <4> QED
        BY <1>4, <4>1
    <3>9. ajouterUnParamValue(file, line) = [sections |-> secs1, size |-> Lesser(n + 3, PoolSize)]
      <4>1. ajouterUnParamValue(file, line) =
              [file EXCEPT !.sections[Len(file.sections)].params = Append(@, param),
                           !.size = Lesser(@ + 3, PoolSize)]
        BY <2>2, <3>1 DEF ajouterUnParamValue
      <4>2. [secs[m] EXCEPT !.params = Append(@, param)] = new
        <5>1. old.params = params /\ [old EXCEPT !.params = Append(params, param)] = new
          <6>1. PICK q : q = Append(params, param)
            OBVIOUS
          <6>2. old = [name |-> name, params |-> params] /\ new = [name |-> name, params |-> q]
            BY <3>4, <3>5, <6>1
          <6>3. [old EXCEPT !.params = q] = new /\ old.params = params
            BY <6>2
          <6> QED
            BY <6>1, <6>3
        <5>2. [secs[m] EXCEPT !.params = Append(secs[m].params, param)] = new
          BY <3>3, <5>1
        <5> QED
          BY <5>2
      <4>3. Len(file.sections) = m /\ file.sections = secs /\ file.size = n
        BY <1>2, <1>4
      <4> QED
        BY <1>2, <3>7, <4>1, <4>2, <4>3
    <3> QED
      BY <1>5, <1>7, <3>8, <3>9
  <2> QED
    BY <2>1, <2>2
<1>9. IniOK(ajouterUneSection(file, line.name), lines)
  <2>1. CASE ~apr_palloc(file)
    BY <2>1 DEF ajouterUneSection
  <2>2. CASE apr_palloc(file)
    <3>1. PICK new : new = Section(apr_pstrdup(file, 1, line.name, NoName))
      OBVIOUS
    <3>2. new \in E
      <4>1. apr_pstrdup(file, 1, line.name, NoName) \in NamesOf(lines)
        BY <1>3 DEF apr_pstrdup, NamesOf
      <4> QED
        BY <1>1, <3>1, <4>1 DEF Section, SectionElement
    <3>3. Append(secs, new) \in Seq(E) /\ Append(secs, new) # <<>>
      <4>1. Append(secs, new) \in Seq(E) /\ Len(Append(secs, new)) = m + 1
        BY <1>4, <3>2
      <4>2. Len(Append(secs, new)) # 0
        BY <4>1
      <4> QED
        BY <4>1, <4>2
    <3>4. ajouterUneSection(file, line.name) = [sections |-> Append(secs, new), size |-> Lesser(n + 2, PoolSize)]
      BY <1>2, <2>2, <3>1 DEF ajouterUneSection
    <3> QED
      BY <1>5, <1>7, <3>3, <3>4
  <2> QED
    BY <2>1, <2>2
<1>10. line.comment \in BOOLEAN /\ line.equals \in BOOLEAN
       /\ (~line.comment /\ line.equals => line.key # NoKey /\ line.value \in TextElement)
  BY <1>3 DEF LineOK
<1>11. extraireParamsValeurs(file, line) \in {file, ajouterUnParamValue(file, line), ajouterUneSection(file, line.name)}
       /\ (extraireParamsValeurs(file, line) = ajouterUnParamValue(file, line) /\ ~(~line.comment /\ line.equals)
             => extraireParamsValeurs(file, line) \in {file, ajouterUneSection(file, line.name)})
  BY <1>10 DEF extraireParamsValeurs
<1> QED
  BY <1>3, <1>8, <1>9, <1>10, <1>11

(* A set of naturals has a least element, unless it is empty.              *)
LEMMA Least ==
    ASSUME NEW S, S \subseteq Nat, S # {}
    PROVE  \E x \in S : \A y \in S : x <= y
<1> DEFINE Less == OpToRel(<, Nat)
<1>1. \A x, y \in Nat : <<y, x>> \in Less <=> y < x
  BY DEF OpToRel
<1>2. IsWellFoundedOn(Less, Nat)
  BY NatLessThanWellFounded
<1> HIDE DEF Less
<1>3. PICK x \in S : \A y \in S : ~ (<<y, x>> \in Less)
  BY <1>2, WFMin
<1>4. ASSUME NEW y \in S PROVE x <= y
  <2>1. x \in Nat /\ y \in Nat /\ ~(y < x)
    BY <1>1, <1>3, <1>4
  <2> QED
    BY <2>1
<1> QED
  BY <1>4

(* The parameters of the sections with a name.                             *)
LEMMA ParamsTyped ==
    ASSUME NEW lines, NEW file, IniOK(file, lines), NEW name
    PROVE  Params(file, name) \in Seq(ParamElement(lines))
<1>1. PICK P, B : P = ParamElement(lines) /\ B = Seq(P)
  OBVIOUS
<1>2. PICK secs \in Seq(SectionElement(lines)) : secs = file.sections
  BY DEF IniOK
<1>3. PICK q : q = [k \in DOMAIN secs |-> IF secs[k].name = name THEN secs[k].params ELSE <<>>]
  OBVIOUS
<1>4. ASSUME NEW k \in DOMAIN secs PROVE secs[k].params \in B
  <2>1. secs[k] \in SectionElement(lines)
    BY <1>2, <1>4
  <2> QED
    BY <1>1, <2>1 DEF SectionElement
<1>5. <<>> \in B
  BY <1>1
<1>6. q \in Seq(B)
  <2>1. \A k \in DOMAIN secs : (IF secs[k].name = name THEN secs[k].params ELSE <<>>) \in B
    BY <1>4, <1>5
  <2>2. PICK n \in Nat : DOMAIN secs = 1..n
    BY <1>2
  <2> QED
    BY <1>3, <2>1, <2>2
<1>7. Params(file, name) = FlattenSeq(q)
  BY <1>2, <1>3 DEF Params
<1> QED
  BY <1>1, <1>6, <1>7, FlattenTyped

(* The place of the first of them with a key and a value.                  *)
LEMMA PositionIs ==
    ASSUME NEW P, NEW params \in Seq(P), NEW key, NEW at0, at0 = Position(params, key)
    PROVE  /\ at0 \in 0..Len(params)
           /\ at0 # 0 => params[at0].key = key /\ params[at0].value # NoValue
           /\ \A k \in 1..Len(params) :
                 params[k].key = key /\ params[k].value # NoValue => at0 # 0 /\ at0 <= k
<1>1. PICK n \in Nat : n = Len(params)
  OBVIOUS
<1> DEFINE I == {i \in 1..n : params[i].key = key /\ params[i].value # NoValue}
<1>2. at0 = IF I # {} THEN Min(I) ELSE 0
  BY <1>1 DEF Position, SelectInSeq
<1>3. I \subseteq 1..n /\ \A k \in 1..n : k \in I <=> params[k].key = key /\ params[k].value # NoValue
  OBVIOUS
<1> HIDE DEF I
<1>4. I # {} => Min(I) \in I /\ \A i \in I : Min(I) <= i
  <2> SUFFICES ASSUME I # {} PROVE Min(I) \in I /\ \A i \in I : Min(I) <= i
    OBVIOUS
  <2>1. \E x \in I : \A y \in I : x <= y
    <3>1. I \subseteq Nat
      BY <1>3
    <3> QED
      BY <3>1, Least
  <2> QED
    BY <2>1 DEF Min
<1>5. CASE I = {}
  BY <1>1, <1>2, <1>3, <1>5
<1>6. CASE I # {}
  <2>1. PICK i \in I : i = at0 /\ \A j \in I : i <= j
    BY <1>2, <1>4, <1>6
  <2>2. i \in 1..n /\ params[i].key = key /\ params[i].value # NoValue /\ i # 0
    BY <1>3, <2>1
  <2> QED
    BY <1>1, <1>3, <2>1, <2>2
<1> QED
  BY <1>5, <1>6

(* What is found in the file.                                              *)
LEMMA SearchTyped ==
    ASSUME NEW lines, NEW file, IniOK(file, lines), NEW name, NEW key
    PROVE  rechercherValeur(file, name, key) \in ValueElement
<1>1. PICK P, params : P = ParamElement(lines) /\ params = Params(file, name)
  OBVIOUS
<1>2. params \in Seq(P)
  BY <1>1, ParamsTyped
<1>3. PICK p : p = Position(params, key)
  OBVIOUS
<1>4. p \in 0..Len(params)
  BY <1>2, <1>3, PositionIs
<1>5. CASE p = 0
  BY <1>1, <1>3, <1>5 DEF rechercherValeur, ValueElement
<1>6. CASE p # 0
  <2>1. params[p] \in P
    BY <1>2, <1>4, <1>6
  <2>2. params[p].value \in ValueElement
    BY <1>1, <2>1 DEF ParamElement
  <2> QED
    BY <1>1, <1>3, <1>6, <2>2 DEF rechercherValeur
<1> QED
  BY <1>5, <1>6

(* A value that is there is a text.                                        *)
LEMMA ValueThere ==
    /\ \A v \in ValueElement : v # NoValue \/ v.length > 0 => v \in TextElement
    /\ \A v \in TextElement : v # NoValue
    /\ \A v \in TextElement : v.length \in Nat /\ v.dec \in Nat /\ convertStrToInt(v) \in 0..255
                              /\ strncpy(v.length, TextSize) \in Nat
<1>1. NoValue.length = -1
  BY DEF NoValue, Word, Text
<1>2. \A v \in TextElement : v.length \in Nat /\ v.dec \in Nat /\ v.hex \in Nat
  BY DEF TextElement
<1>3. ASSUME NEW v \in TextElement PROVE convertStrToInt(v) \in 0..255 /\ strncpy(v.length, TextSize) \in Nat
  <2>1. PICK n \in Nat : n = strtol(v)
    BY <1>2 DEF strtol
  <2>2. convertStrToInt(v) = n % 256
    BY <2>1 DEF convertStrToInt
  <2>3. PICK l, t \in Nat : l = v.length /\ t = TextSize
    BY <1>2, SizesTyped
  <2> QED
    BY <2>2, <2>3 DEF strncpy, Lesser
<1> QED
  BY <1>1, <1>2, <1>3 DEF ValueElement

(* The indexes that are read are complete.                                 *)
LEMMA RunIsComplete ==
    ASSUME NEW first \in Nat, NEW size, NEW complete, NEW k \in Run(first, size, complete)
    PROVE  k \in complete /\ k \in first .. first + size - 1
<1>1. k \in first .. first + size - 1 /\ first .. k \subseteq complete
  BY DEF Run
<1>2. k \in first .. k
  BY <1>1
<1> QED
  BY <1>1, <1>2

(* The arrays of the entry.                                                *)
LEMMA ArraysLoaded ==
    ASSUME NEW lines, NEW file, IniOK(file, lines)
    PROVE  /\ load_items(file) \in [1..ItemSize -> Nat]
           /\ load_components(file) \in [1..ComponentSize -> ComponentElement]
           /\ load_contents(file) \in [1..ContentSize -> LevelElement]
           /\ load_ca(file) \in [1..CaSize -> Nat]
<1>1. \A name, key : rechercherValeur(file, name, key) \in ValueElement
  BY SearchTyped
<1>2. ASSUME NEW name, NEW prefixes, NEW k, Given(file, name, prefixes, k), NEW p \in prefixes
      PROVE  rechercherValeur(file, name, <<p, k>>) \in TextElement
  <2>1. rechercherValeur(file, name, <<p, k>>).length > 0
    BY <1>2 DEF Given
  <2> QED
    BY <1>1, <2>1, ValueThere
<1>3. 0 \in Nat /\ 1 \in Nat
  OBVIOUS
<1>4. load_items(file) \in [1..ItemSize -> Nat]
  <2> DEFINE Found(k) == rechercherValeur(file, Items, <<"text", k>>)
             complete == {k \in 0..ItemSize : Found(k) # NoValue}
             read == Run(0, ItemSize, complete)
  <2>1. ASSUME NEW k \in 1..ItemSize, k - 1 \in read PROVE strncpy(Found(k - 1).length, TextSize) \in Nat
    <3>1. PICK j : j = k - 1 /\ j \in read
      BY <2>1
    <3>2. j \in complete
      BY <1>3, <3>1, RunIsComplete
    <3>3. Found(j) \in ValueElement /\ Found(j) # NoValue
      BY <1>1, <3>2
    <3>4. strncpy(Found(j).length, TextSize) \in Nat
      BY <3>3, ValueThere
    <3> QED
      BY <3>1, <3>4
  <2>2. load_items(file) = [k \in 1..ItemSize |-> IF k - 1 \in read THEN strncpy(Found(k - 1).length, TextSize) ELSE 0]
    BY DEF load_items
  <2> HIDE DEF Found, read
  <2> QED
    BY <2>1, <2>2
<1>5. load_components(file) \in [1..ComponentSize -> ComponentElement]
  <2> DEFINE Found(p, k) == rechercherValeur(file, Components, <<p, k>>)
             complete == {k \in 1..ComponentSize : Given(file, Components, {"stream_content", "set_component_tag", "text"}, k)}
             read == Run(1, ComponentSize, complete)
             new(k) == [stream |-> convertStrToInt(Found("stream_content", k)), tag |-> Found("set_component_tag", k).dec % 256,
                        text |-> strncpy(Found("text", k).length, TextSize)]
  <2>1. ASSUME NEW k \in read PROVE new(k) \in ComponentElement
    <3>1. k \in complete
      BY <1>3, <2>1, RunIsComplete
    <3>2. PICK x, y, z \in TextElement : x = Found("stream_content", k) /\ y = Found("set_component_tag", k) /\ z = Found("text", k)
      BY <1>2, <3>1
    <3>3. convertStrToInt(x) \in 0..255 /\ y.dec \in Nat /\ strncpy(z.length, TextSize) \in Nat
      BY ValueThere
    <3>4. y.dec % 256 \in 0..255
      BY <3>3
    <3> QED
      BY <3>2, <3>3, <3>4 DEF ComponentElement
  <2>2. load_components(file) = [k \in 1..ComponentSize |-> IF k \in read THEN new(k) ELSE Component(0)]
    BY DEF load_components
  <2>3. Component(0) \in ComponentElement
    BY DEF Component, ComponentElement
  <2> HIDE DEF read, new
  <2> QED
    BY <2>1, <2>2, <2>3
<1>6. load_contents(file) \in [1..ContentSize -> LevelElement]
  <2> DEFINE Found(p, k) == convertStrToInt(rechercherValeur(file, Contents, <<p, k>>))
             complete == {k \in 1..ContentSize : Given(file, Contents, {"level_1", "level_2", "user"}, k)}
             read == Run(1, ContentSize, complete)
             new(k) == [level_1 |-> Found("level_1", k), level_2 |-> Found("level_2", k), user |-> Found("user", k)]
  <2>1. ASSUME NEW k \in read PROVE new(k) \in LevelElement
    <3>1. k \in complete
      BY <1>3, <2>1, RunIsComplete
    <3>2. ASSUME NEW p \in {"level_1", "level_2", "user"} PROVE Found(p, k) \in Nat
      <4>1. PICK x \in TextElement : x = rechercherValeur(file, Contents, <<p, k>>)
        BY <1>2, <3>1, <3>2
      <4>2. convertStrToInt(x) \in 0..255
        BY ValueThere
      <4> QED
        BY <4>1, <4>2
    <3> QED
      BY <3>2 DEF LevelElement
  <2>2. load_contents(file) = [k \in 1..ContentSize |-> IF k \in read THEN new(k) ELSE Content(0)]
    BY DEF load_contents
  <2>3. Content(0) \in LevelElement
    BY DEF Content, LevelElement
  <2> HIDE DEF read, new
  <2> QED
    BY <2>1, <2>2, <2>3
<1>7. load_ca(file) \in [1..CaSize -> Nat]
  <2> DEFINE Found(k) == convertStrToInt(rechercherValeur(file, Cas, <<"CA_system_id", k>>))
             complete == {k \in 1..CaSize : Given(file, Cas, {"CA_system_id"}, k)}
             read == Run(1, CaSize, complete)
  <2>1. ASSUME NEW k \in read PROVE Found(k) \in Nat
    <3>1. k \in complete
      BY <1>3, <2>1, RunIsComplete
    <3>2. PICK x \in TextElement : x = rechercherValeur(file, Cas, <<"CA_system_id", k>>)
      BY <1>2, <3>1
    <3>3. convertStrToInt(x) \in 0..255
      BY ValueThere
    <3> QED
      BY <3>2, <3>3
  <2>2. load_ca(file) = [k \in 1..CaSize |-> IF k \in read THEN Found(k) ELSE 0]
    BY DEF load_ca
  <2> HIDE DEF read, Found
  <2> QED
    BY <2>1, <2>2
<1> QED
  BY <1>4, <1>5, <1>6, <1>7

(* A section of the entry, if what is asked for is there.                  *)
LEMMA SectionLoaded ==
    ASSUME NEW lines, NEW file, IniOK(file, lines), ~Lacks(file, Needed),
           NEW short \in {"SHORT_EVENT_DESCRIPTOR", "SHORT_EVENT_FOLLOWING_DESCRIPTOR"}
    PROVE  SetSection(load_section(file, short))
<1>1. \A name, key : rechercherValeur(file, name, key) \in ValueElement
  BY SearchTyped
<1>2. ASSUME NEW q \in Needed PROVE Value(file, q[1], q[2]) \in TextElement
  <2>1. rechercherValeur(file, q[1], <<q[2], Plain>>) # NoValue
    BY <1>2 DEF Lacks
  <2> QED
    BY <1>1, <2>1, ValueThere DEF Value
<1>3. /\ Value(file, short, "event") \in TextElement
      /\ Value(file, "EXTENDED_EVENT_DESCRIPTOR", "text") \in TextElement
      /\ Value(file, "PARENTAL_RATING_DESCRIPTOR", "age") \in TextElement
      /\ Value(file, "PARENTAL_RATING_DESCRIPTOR", "country_code") \in TextElement
  <2>1. <<short, "event">> \in Needed
    BY DEF Needed
  <2>2. /\ <<"EXTENDED_EVENT_DESCRIPTOR", "text">> \in Needed
        /\ <<"PARENTAL_RATING_DESCRIPTOR", "age">> \in Needed
        /\ <<"PARENTAL_RATING_DESCRIPTOR", "country_code">> \in Needed
    BY DEF Needed
  <2>3. \A a, b : <<a, b>> \in Needed => Value(file, a, b) \in TextElement
    <3> SUFFICES ASSUME NEW a, NEW b, <<a, b>> \in Needed PROVE Value(file, a, b) \in TextElement
      OBVIOUS
    <3>1. PICK q \in Needed : q = <<a, b>>
      OBVIOUS
    <3>2. q[1] = a /\ q[2] = b
      BY <3>1
    <3> QED
      BY <1>2, <3>2
  <2> QED
    BY <2>1, <2>2, <2>3
<1>4. Number(Value(file, "SHORT_SMOOTHING_BUFFER_DESCRIPTOR", "sb_leak_rate")) \in Nat
  <2>1. PICK v \in ValueElement : v = Value(file, "SHORT_SMOOTHING_BUFFER_DESCRIPTOR", "sb_leak_rate")
    BY <1>1 DEF Value
  <2>2. v # NoValue => convertStrToInt(v) \in 0..255
    BY ValueThere
  <2> QED
    BY <2>1, <2>2 DEF Number
<1>5. PICK s : s = load_section(file, short)
  OBVIOUS
<1>6. /\ s.starttime = 0 /\ s.duration = 0 /\ s.event_id = 0
      /\ s.short = strncpy(Value(file, short, "event").length, TextSize)
      /\ s.ext = strncpy(Value(file, "EXTENDED_EVENT_DESCRIPTOR", "text").length, TextSize)
      /\ s.items = load_items(file) /\ s.component = load_components(file) /\ s.content = load_contents(file)
      /\ s.leak = Number(Value(file, "SHORT_SMOOTHING_BUFFER_DESCRIPTOR", "sb_leak_rate"))
      /\ s.rating.age = Value(file, "PARENTAL_RATING_DESCRIPTOR", "age").dec % 256
      /\ s.ca = Times(CaSize, 0) /\ DOMAIN s = DOMAIN Zeroed
  BY <1>5 DEF load_section, Zeroed, SectionOf
<1>7. s.ca \in [1..CaSize -> Nat]
  BY <1>6 DEF Times
<1>8. s.short \in Nat /\ s.ext \in Nat /\ s.leak \in Nat
  BY <1>3, <1>4, <1>6, ValueThere
<1>9. s.rating.age \in Nat
  <2>1. PICK n \in Nat : n = Value(file, "PARENTAL_RATING_DESCRIPTOR", "age").dec
    BY <1>3, ValueThere
  <2> QED
    BY <1>6, <2>1
<1>10. /\ s.items \in [1..ItemSize -> Nat] /\ s.component \in [1..ComponentSize -> ComponentElement]
       /\ s.content \in [1..ContentSize -> LevelElement]
  BY <1>6, ArraysLoaded
<1>11. s.starttime \in Nat /\ s.duration \in Nat /\ s.event_id \in Nat
  BY <1>6
<1> QED
  BY <1>5, <1>6, <1>7, <1>8, <1>9, <1>10, <1>11 DEF SetSection

(* The entry that a program makes of its file is set throughout.           *)
LEMMA EntryLoaded ==
    ASSUME NEW lines, NEW file, IniOK(file, lines), ~Lacks(file, Needed)
    PROVE  DOMAIN load_eit(file) = Sections /\ \A s \in Sections : SetSection(load_eit(file)[s])
<1>1. PICK a, b : a = load_section(file, "SHORT_EVENT_DESCRIPTOR") /\ b = load_section(file, "SHORT_EVENT_FOLLOWING_DESCRIPTOR")
  OBVIOUS
<1>2. SetSection(a) /\ SetSection(b)
  BY <1>1, SectionLoaded
<1>3. PICK c : c = [a EXCEPT !.ca = load_ca(file)]
  OBVIOUS
<1>4. SetSection(c)
  <2>1. DOMAIN a = {"starttime", "duration", "event_id", "short", "ext", "items", "component", "rating",
                    "content", "ca", "leak"}
    BY <1>2 DEF SetSection, Zeroed, SectionOf
  <2>2. /\ DOMAIN c = DOMAIN a /\ c.ca = load_ca(file)
        /\ c.starttime = a.starttime /\ c.duration = a.duration /\ c.event_id = a.event_id /\ c.short = a.short
        /\ c.ext = a.ext /\ c.items = a.items /\ c.component = a.component /\ c.rating = a.rating
        /\ c.content = a.content /\ c.leak = a.leak
    BY <1>3, <2>1
  <2>3. load_ca(file) \in [1..CaSize -> Nat]
    BY ArraysLoaded
  <2> QED
    BY <1>2, <2>2, <2>3 DEF SetSection
<1>5. load_eit(file) = [section0 |-> c, section1 |-> b]
  BY <1>1, <1>3 DEF load_eit
<1> QED
  BY <1>2, <1>4, <1>5 DEF Sections

-----------------------------------------------------------------------------
(* The type of everything.                                                 *)

(* Nothing unset is in the table, unless a row has no second section.      *)
EntryOK(e) ==
    \A s \in Sections :
        /\ SectionOK(e.eit[s])
        /\ e.row = <<>> \/ e.row[1].section1 # None => SetSection(e.eit[s])

(* What is set at each stage of the conversion.                            *)
ConversionOK ==
    /\ DOMAIN eit_info = Sections /\ \A s \in Sections : SectionOK(eit_info[s])
    /\ at = "section0" /\ row[1].to_inject = 0 => \A s \in Sections : Built(eit_info[s])
    /\ at = "section1" => /\ SetSection(eit_info.section0)
                          /\ row[1].to_inject = 0 => Built(eit_info.section1)
    /\ at = "publish" => /\ SetSection(eit_info.section0)
                         /\ row[1].section1 # None => SetSection(eit_info.section1)

(* Where there is a row, and what it is.                                   *)
RowOK ==
    /\ row # <<>> => row[1] \in Rows[given.rows]
    /\ at \in {"reading", "convert", "section0", "section1", "publish"} => row # <<>>
    /\ at \in {"reading", "convert"} => row[1].to_inject = 0 /\ eit_info = Both(Uninitialised)
    /\ status \in {"", "DATABASE FAILURE", "PARSING FAILURE", "EIT FAILURE"} /\ edits \in 0..given.edits

(* The program is somewhere in its file, or past it.                       *)
Loaded ==
    /\ given \in Cases
    /\ at \in {"load", "idle", "reading", "convert", "section0", "section1", "publish",
               "served", "exited", "crashed"}
    /\ position \in 0..Len(given.lines) /\ IniOK(ini, given.lines)

(* The clock runs from one.                                                *)
Timed(time, n) ==
    /\ time.now \in 1..MaxNow /\ n \in {0, 1}
    /\ time = [now |-> time.now, ts_0 |-> time.ts_0, duration_0 |-> time.duration_0]

(* The type, with what is set at each stage.                               *)
TypeInv ==
    /\ Loaded /\ RowOK /\ ConversionOK
    /\ entry # <<>> => EntryOK(entry[1])
    /\ Timed(clock, section)

(* The two sections of an entry nobody has set.                            *)
LEMMA BothAre == DOMAIN Both(Uninitialised) = Sections /\ \A s \in Sections : Both(Uninitialised)[s] = Uninitialised
<1>1. PICK u : u = Uninitialised
  OBVIOUS
<1>2. Both(u) = [section0 |-> u, section1 |-> u]
  BY DEF Both
<1>3. DOMAIN Both(u) = Sections
  BY <1>2 DEF Sections
<1>4. ASSUME NEW s \in Sections PROVE Both(u)[s] = u
  <2>1. s = "section0" \/ s = "section1"
    BY <1>4 DEF Sections
  <2> QED
    BY <1>2, <2>1
<1> QED
  BY <1>1, <1>3, <1>4

(* A section put on air leaves the time as it is.                          *)
LEMMA GenerateTimed ==
    ASSUME NEW state, Timed(state.clock, state.section), NEW eit, NEW of
    PROVE  Timed(Generate(state, eit, of).clock, Generate(state, eit, of).section)
<1>1. PICK s : s = eit[SectionName(state.section)]
  OBVIOUS
<1>2. PICK t, d, u, l : t = state.clock.ts_0 /\ d = state.clock.duration_0 /\ u = Start(s, 0, state.clock) /\ l = Duration(s)
  OBVIOUS
<1>3. PICK n \in 1..MaxNow : state.clock = [now |-> n, ts_0 |-> t, duration_0 |-> d]
  BY <1>2 DEF Timed
<1>4. Generate(state, eit, of).clock = Times_0(s, state.section, state.clock)
      /\ Generate(state, eit, of).section = 1 - state.section
  BY <1>1 DEF Generate
<1>5. Times_0(s, state.section, state.clock) \in
         {[now |-> n, ts_0 |-> t, duration_0 |-> d], [now |-> n, ts_0 |-> u, duration_0 |-> l]}
  <2>1. PICK c : c = state.clock
    OBVIOUS
  <2>2. [c EXCEPT !.ts_0 = u, !.duration_0 = l] = [now |-> n, ts_0 |-> u, duration_0 |-> l]
    <3>1. c = [now |-> n, ts_0 |-> t, duration_0 |-> d]
      BY <1>3, <2>1
    <3>2. PICK b : b = [c EXCEPT !.ts_0 = u]
      OBVIOUS
    <3>3. b = [now |-> n, ts_0 |-> u, duration_0 |-> d]
      BY <3>1, <3>2
    <3>4. [c EXCEPT !.ts_0 = u, !.duration_0 = l] = [b EXCEPT !.duration_0 = l]
      BY <3>2
    <3> QED
      BY <3>3, <3>4
  <2>3. Times_0(s, state.section, c) \in {c, [c EXCEPT !.ts_0 = u, !.duration_0 = l]}
    BY <1>2, <2>1 DEF Times_0
  <2> QED
    BY <1>3, <2>1, <2>2, <2>3
<1>6. 1 - state.section \in {0, 1}
  BY DEF Timed
<1> QED
  BY <1>4, <1>5, <1>6 DEF Timed

(* The type at first.                                                      *)
LEMMA TypeInit == SourcesInit => TypeInv
<1> SUFFICES ASSUME SourcesInit PROVE TypeInv
  OBVIOUS
<1>1. /\ given \in Cases /\ at = "load" /\ position = 0 /\ ini = NewIni
      /\ row = <<>> /\ status = "" /\ edits = 0 /\ eit_info = Both(Uninitialised) /\ entry = <<>>
      /\ clock = [now |-> 1, ts_0 |-> 1, duration_0 |-> 0] /\ section = 0
  BY DEF SourcesInit
<1>2. Len(given.lines) \in Nat /\ given.edits \in Nat /\ MaxNow \in Nat \ {0}
  BY <1>1, SourcesAssumption DEF SourcesAssumption
<1>3. Loaded
  <2>1. \A n \in Nat : 0 \in 0..n
    OBVIOUS
  <2>2. position \in 0..Len(given.lines)
    BY <1>1, <1>2, <2>1
  <2>3. IniOK(ini, given.lines)
    BY <1>1, NewIniTyped
  <2> QED
    BY <1>1, <2>2, <2>3 DEF Loaded
<1>4. RowOK
  <2>1. \A n \in Nat : 0 \in 0..n
    OBVIOUS
  <2>2. edits \in 0..given.edits
    BY <1>1, <1>2, <2>1
  <2> QED
    BY <1>1, <2>2 DEF RowOK
<1>5. ConversionOK
  <2>1. DOMAIN eit_info = Sections /\ \A s \in Sections : eit_info[s] = Uninitialised
    BY <1>1, BothAre
  <2> QED
    BY <1>1, <2>1, UninitialisedTyped DEF ConversionOK
<1>6. Timed(clock, section)
  <2>1. \A n \in Nat \ {0} : 1 \in 1..n
    OBVIOUS
  <2>2. clock.now = 1 /\ clock = [now |-> clock.now, ts_0 |-> clock.ts_0, duration_0 |-> clock.duration_0]
    BY <1>1
  <2>3. clock.now \in 1..MaxNow
    BY <1>2, <2>1, <2>2
  <2> QED
    BY <1>1, <2>2, <2>3 DEF Timed
<1> QED
  BY <1>1, <1>3, <1>4, <1>5, <1>6 DEF TypeInv

(* What is read of the file.                                               *)
LEMMA LoadTyped == ASSUME Loaded, LoadLine PROVE Loaded'
<1>1. given' = given /\ at' = at
  BY DEF LoadLine
<1>2. PICK lines : lines = given.lines
  OBVIOUS
<1>3. /\ Len(lines) \in Nat /\ DOMAIN lines = 1..Len(lines) /\ \A k \in DOMAIN lines : LineOK(lines[k])
  BY <1>2, SourcesAssumption DEF Loaded, SourcesAssumption
<1>4. PICK n, p \in Nat : n = Len(lines) /\ p = position /\ p < n /\ p + 1 \in 1..n
  BY <1>2, <1>3 DEF Loaded, LoadLine
<1>5. position' = p + 1 /\ ini' = extraireParamsValeurs(ini, lines[p + 1])
  BY <1>2, <1>4 DEF LoadLine
<1>6. IniOK(extraireParamsValeurs(ini, lines[p + 1]), lines)
  <2>1. PICK k \in DOMAIN lines : k = p + 1
    BY <1>3, <1>4
  <2>2. LineOK(lines[k]) /\ IniOK(ini, lines)
    BY <1>2, <1>3 DEF Loaded
  <2> QED
    BY <2>1, <2>2, LineKeeps
<1>7. position' \in 0..n
  BY <1>4, <1>5
<1> QED
  BY <1>1, <1>2, <1>4, <1>5, <1>6, <1>7 DEF Loaded

(* The conversion sets what it passes on.                                  *)
LEMMA ConversionTyped ==
    ASSUME TypeInv, convertStringsToEitStruct
    PROVE  Loaded' /\ RowOK' /\ ConversionOK'
<1>1. given' = given /\ position' = position /\ ini' = ini /\ row' = row /\ edits' = edits
  BY DEF convertStringsToEitStruct, popen, fread, Convert, Section0, Section1, ParseSection, Fail, starting, conversion
<1>2. Loaded /\ RowOK /\ ConversionOK
  BY DEF TypeInv
<1>3. ASSUME at' = "idle", eit_info' = eit_info,
             status' \in {"DATABASE FAILURE", "PARSING FAILURE", "EIT FAILURE"}
      PROVE  Loaded' /\ RowOK' /\ ConversionOK'
  BY <1>1, <1>2, <1>3 DEF Loaded, RowOK, ConversionOK
<1>4. ASSUME NEW n \in {-1, -2, -3}, Fail(n) PROVE Loaded' /\ RowOK' /\ ConversionOK'
  <2>1. status' \in {"DATABASE FAILURE", "PARSING FAILURE", "EIT FAILURE"} /\ at' = "idle" /\ eit_info' = eit_info
    BY <1>4 DEF Fail
  <2> QED
    BY <1>3, <2>1
<1>5. ASSUME at' \in {"reading", "convert", "section0", "section1", "publish"}, status' = status,
             at \in {"reading", "convert", "section0", "section1"},
             at' \in {"reading", "convert"} => row[1].to_inject = 0 /\ eit_info' = Both(Uninitialised)
      PROVE  Loaded' /\ RowOK'
  BY <1>1, <1>2, <1>5 DEF Loaded, RowOK
<1>6. CASE popen
  BY <1>4, <1>6 DEF popen
<1>7. CASE fread
  <2>1. at = "reading" /\ at' \in {"reading", "convert"} /\ eit_info' = eit_info /\ status' = status
    BY <1>7 DEF fread
  <2>2. row[1].to_inject = 0 /\ eit_info' = Both(Uninitialised)
    BY <1>2, <2>1 DEF RowOK
  <2> QED
    BY <1>1, <1>2, <1>5, <2>1, <2>2 DEF ConversionOK
<1>8. CASE Convert
  <2>1. PICK converted : converted = convert_xml_to_eit_struct(eit_info, row[1].doc)
    OBVIOUS
  <2>2. CASE converted = Failed
    BY <1>4, <1>8, <2>1, <2>2 DEF Convert
  <2>3. CASE converted # Failed
    <3>1. at = "convert" /\ at' = "section0" /\ eit_info' = converted.eit /\ status' = status
      BY <1>8, <2>1, <2>3 DEF Convert
    <3>2. eit_info = Both(Uninitialised) /\ row[1] \in Rows[given.rows]
      BY <1>2, <3>1 DEF RowOK
    <3>3. row[1].doc \in Document
      BY <1>2, <3>2, SourcesAssumption DEF SourcesAssumption, Loaded
    <3>4. DOMAIN converted.eit = Sections /\ \A s \in Sections : Built(converted.eit[s])
      BY <2>1, <2>3, <3>2, <3>3, ConvertedTyped
    <3> QED
      BY <1>1, <1>5, <3>1, <3>4, BuiltIsTyped DEF ConversionOK
  <2> QED
    BY <2>2, <2>3
<1>9. ASSUME NEW s \in Sections, NEW next, next \in {"section1", "publish"}, ParseSection(s, next),
             row[1].to_inject = 0 => Built(eit_info[s]), at \in {"section0", "section1"}
      PROVE  \/ Loaded' /\ RowOK' /\ ConversionOK'
             \/ /\ at' = next /\ status' = status
                /\ \E new : SetSection(new) /\ SectionOK(new) /\ eit_info' = [eit_info EXCEPT ![s] = new]
  <2>1. PICK o : o = Json(s)
    OBVIOUS
  <2>2. CASE json_parse(o) = Malformed
    BY <1>4, <1>9, <2>1, <2>2 DEF ParseSection
  <2>3. CASE json_parse(o) # Malformed
    <3>1. Accepted(o)
      BY <2>3, OnlyAccepted
    <3>2. JsonOK(o)
      <4>1. row # <<>> /\ row[1] \in Rows[given.rows]
        BY <1>2, <1>9 DEF RowOK
      <4>2. row[1].to_inject \in {0, 1} /\ JsonOK(row[1].section0) /\ JsonOK(row[1].section1)
        BY <1>2, <4>1, SourcesAssumption DEF SourcesAssumption, Loaded
      <4>3. CASE row[1].to_inject = 1
        BY <1>9, <2>1, <4>2, <4>3 DEF Json, Sections
      <4>4. CASE row[1].to_inject = 0
        BY <1>9, <2>1, <4>4, WrittenTyped DEF Json
      <4> QED
        BY <4>2, <4>3, <4>4
    <3>3. SetSection(json_parse(o).section)
      BY <3>1, <3>2, ParsedTyped
    <3>4. at' = next /\ status' = status /\ eit_info' = [eit_info EXCEPT ![s] = json_parse(o).section]
      BY <1>9, <2>1, <2>3 DEF ParseSection
    <3> QED
      BY <3>3, <3>4, SetIsClean
  <2> QED
    BY <2>2, <2>3
<1>10. CASE Section0
  <2>1. at = "section0"
    BY <1>10 DEF Section0
  <2>2. CASE row[1].section0 = None
    BY <1>4, <1>10, <2>2 DEF Section0
  <2>3. CASE row[1].section0 # None
    <3>1. ParseSection("section0", "section1")
      BY <1>10, <2>3 DEF Section0
    <3>2. row[1].to_inject = 0 => Built(eit_info["section0"]) /\ Built(eit_info["section1"])
      BY <1>2, <2>1 DEF ConversionOK, Sections
    <3>3. \/ Loaded' /\ RowOK' /\ ConversionOK'
          \/ /\ at' = "section1" /\ status' = status
             /\ \E new : SetSection(new) /\ SectionOK(new) /\ eit_info' = [eit_info EXCEPT !["section0"] = new]
      BY <1>9, <2>1, <3>1, <3>2 DEF Sections
    <3>4. ASSUME NEW new, SetSection(new), SectionOK(new), eit_info' = [eit_info EXCEPT !["section0"] = new],
                 at' = "section1", status' = status
          PROVE  Loaded' /\ RowOK' /\ ConversionOK'
      <4>1. /\ DOMAIN eit_info' = Sections /\ eit_info'["section0"] = new
            /\ eit_info'["section1"] = eit_info["section1"]
        BY <1>2, <3>4 DEF ConversionOK, Sections
      <4>2. ConversionOK'
        BY <1>1, <1>2, <3>2, <3>4, <4>1 DEF ConversionOK, Sections
      <4> QED
        BY <1>5, <2>1, <3>4, <4>2
    <3> QED
      BY <3>3, <3>4
  <2> QED
    BY <2>2, <2>3
<1>11. CASE Section1
  <2>1. at = "section1"
    BY <1>11 DEF Section1
  <2>2. CASE row[1].section1 = None
    <3>1. at' = "publish" /\ eit_info' = eit_info /\ status' = status
      BY <1>11, <2>2 DEF Section1, conversion
    <3>2. ConversionOK'
      BY <1>1, <1>2, <2>1, <2>2, <3>1 DEF ConversionOK
    <3> QED
      BY <1>5, <2>1, <3>1, <3>2
  <2>3. CASE row[1].section1 # None
    <3>1. ParseSection("section1", "publish")
      BY <1>11, <2>3 DEF Section1
    <3>2. row[1].to_inject = 0 => Built(eit_info["section1"])
      BY <1>2, <2>1 DEF ConversionOK
    <3>3. \/ Loaded' /\ RowOK' /\ ConversionOK'
          \/ /\ at' = "publish" /\ status' = status
             /\ \E new : SetSection(new) /\ SectionOK(new) /\ eit_info' = [eit_info EXCEPT !["section1"] = new]
      BY <1>9, <2>1, <3>1, <3>2 DEF Sections
    <3>4. ASSUME NEW new, SetSection(new), SectionOK(new), eit_info' = [eit_info EXCEPT !["section1"] = new],
                 at' = "publish", status' = status
          PROVE  Loaded' /\ RowOK' /\ ConversionOK'
      <4>1. /\ DOMAIN eit_info' = Sections /\ eit_info'["section1"] = new
            /\ eit_info'["section0"] = eit_info["section0"]
        BY <1>2, <3>4 DEF ConversionOK, Sections
      <4>2. SetSection(eit_info["section0"]) /\ SectionOK(eit_info["section0"])
        BY <1>2, <2>1 DEF ConversionOK, Sections
      <4>3. ConversionOK'
        BY <3>4, <4>1, <4>2 DEF ConversionOK, Sections
      <4> QED
        BY <1>5, <2>1, <3>4, <4>3
    <3> QED
      BY <3>3, <3>4
  <2> QED
    BY <2>2, <2>3
<1> QED
  BY <1>6, <1>7, <1>8, <1>10, <1>11 DEF convertStringsToEitStruct

(* The type after each step.                                               *)
LEMMA TypeStep == TypeInv /\ [SourcesNext]_vars => TypeInv'
<1> SUFFICES ASSUME TypeInv, [SourcesNext]_vars PROVE TypeInv'
  OBVIOUS
<1>1. /\ Loaded /\ RowOK /\ ConversionOK
      /\ entry # <<>> => EntryOK(entry[1])
      /\ Timed(clock, section)
  BY DEF TypeInv
<1>2. ASSUME entry' = entry, clock' = clock, section' = section, Loaded', RowOK', ConversionOK' PROVE TypeInv'
  BY <1>1, <1>2 DEF TypeInv
<1>3. ASSUME given' = given, row' = row, status' = status, edits' = edits, eit_info' = eit_info,
             at' = at \/ at' \in {"load", "idle", "served", "exited", "crashed"}
      PROVE  RowOK' /\ ConversionOK'
  BY <1>1, <1>3 DEF RowOK, ConversionOK
<1>4. CASE LoadLine
  <2>1. Loaded'
    BY <1>1, <1>4, LoadTyped
  <2>2. /\ given' = given /\ row' = row /\ status' = status /\ edits' = edits /\ eit_info' = eit_info /\ at' = at
        /\ entry' = entry /\ clock' = clock /\ section' = section
    BY <1>4 DEF LoadLine, conversion, injection
  <2> QED
    BY <1>2, <1>3, <2>1, <2>2
<1>5. CASE CannotOpen
  <2>1. /\ given' = given /\ row' = row /\ status' = status /\ edits' = edits /\ eit_info' = eit_info
        /\ at' = "exited" /\ position' = position /\ ini' = ini
        /\ entry' = entry /\ clock' = clock /\ section' = section
    BY <1>5 DEF CannotOpen, conversion, injection, starting
  <2>2. Loaded'
    BY <1>1, <2>1 DEF Loaded
  <2> QED
    BY <1>2, <1>3, <2>1, <2>2
<1>6. CASE Configure
  <2>1. /\ given' = given /\ row' = row /\ status' = status /\ edits' = edits /\ eit_info' = eit_info
        /\ at' \in {"idle", "served", "crashed"} /\ position' = position /\ ini' = ini
        /\ clock' = clock /\ section' = section
        /\ entry' = entry \/ (~Lacks(ini, Needed) /\ entry' = <<[eit |-> load_eit(ini), row |-> <<>>]>>)
    BY <1>6 DEF Configure, conversion, injection, starting
  <2>2. Loaded'
    BY <1>1, <2>1 DEF Loaded
  <2>3. RowOK' /\ ConversionOK'
    BY <1>3, <2>1
  <2>4. CASE entry' = entry
    BY <1>2, <2>1, <2>2, <2>3, <2>4
  <2>5. CASE ~Lacks(ini, Needed) /\ entry' = <<[eit |-> load_eit(ini), row |-> <<>>]>>
    <3>1. \A s \in Sections : SetSection(load_eit(ini)[s]) /\ SectionOK(load_eit(ini)[s])
      BY <1>1, <2>5, EntryLoaded, SetIsClean DEF Loaded
    <3>2. entry'[1].eit = load_eit(ini)
      BY <2>5
    <3>3. EntryOK(entry'[1])
      BY <3>1, <3>2 DEF EntryOK
    <3> QED
      BY <1>1, <2>1, <2>2, <2>3, <3>3 DEF TypeInv
  <2> QED
    BY <2>1, <2>4, <2>5
<1>7. CASE Edit
  <2>1. PICK r \in Rows[given.rows] : row' = <<r>> /\ at' = IF r.to_inject = 0 THEN "reading" ELSE "section0"
    BY <1>7 DEF Edit
  <2>2. /\ status' = "" /\ edits' = edits + 1 /\ edits < given.edits /\ eit_info' = Both(Uninitialised)
        /\ given' = given /\ position' = position /\ ini' = ini
        /\ entry' = entry /\ clock' = clock /\ section' = section
    BY <1>7 DEF Edit, starting, injection
  <2>3. row'[1] = r /\ row' # <<>>
    BY <2>1
  <2>4. given.edits \in Nat
    BY <1>1, SourcesAssumption DEF SourcesAssumption, Loaded
  <2>5. edits' \in 0..given.edits
    <3>1. PICK m \in Nat : m = given.edits
      BY <2>4
    <3>2. edits \in 0..m /\ edits < m
      BY <1>1, <2>2, <3>1 DEF RowOK
    <3>3. PICK n \in Nat : n = edits /\ n < m
      BY <3>2
    <3>4. n + 1 \in 0..m
      BY <3>3
    <3> QED
      BY <2>2, <3>1, <3>3, <3>4
  <2>6. RowOK'
    BY <2>1, <2>2, <2>3, <2>5 DEF RowOK
  <2>7. DOMAIN eit_info' = Sections /\ \A s \in Sections : eit_info'[s] = Uninitialised
    BY <2>2, BothAre
  <2>8. ConversionOK'
    BY <2>1, <2>3, <2>7, UninitialisedTyped DEF ConversionOK
  <2>9. Loaded'
    BY <1>1, <2>1, <2>2 DEF Loaded
  <2> QED
    BY <1>2, <2>2, <2>6, <2>8, <2>9
<1>8. CASE convertStringsToEitStruct
  <2>1. entry' = entry /\ clock' = clock /\ section' = section
    BY <1>8 DEF convertStringsToEitStruct, injection
  <2> QED
    BY <1>2, <1>8, <2>1, ConversionTyped
<1>9. CASE Publish
  <2>1. /\ at = "publish" /\ at' = "idle" /\ entry' = <<[eit |-> eit_info, row |-> row]>>
        /\ given' = given /\ row' = row /\ status' = status /\ edits' = edits /\ eit_info' = eit_info
        /\ position' = position /\ ini' = ini /\ clock' = clock /\ section' = section
    BY <1>9 DEF Publish, starting, conversion, injection
  <2>2. RowOK' /\ ConversionOK' /\ Loaded'
    BY <1>1, <1>3, <2>1 DEF Loaded
  <2>3. entry'[1].eit = eit_info /\ entry'[1].row = row /\ row # <<>>
    BY <1>1, <2>1 DEF RowOK
  <2>4. EntryOK(entry'[1])
    BY <1>1, <2>1, <2>3 DEF EntryOK, ConversionOK, Sections
  <2> QED
    BY <1>1, <2>1, <2>2, <2>4 DEF TypeInv
<1>10. CASE add_eit
  <2> DEFINE before == [section |-> section, clock |-> clock, shown |-> shown]
             once == Generate(before, entry[1].eit, entry[1].row)
             twice == Generate(once, entry[1].eit, entry[1].row)
  <2>1. Timed(before.clock, before.section)
    BY <1>1
  <2> HIDE DEF before
  <2>2. Timed(once.clock, once.section)
    BY <2>1, GenerateTimed
  <2> HIDE DEF once
  <2>3. Timed(twice.clock, twice.section)
    BY <2>2, GenerateTimed
  <2> HIDE DEF twice
  <2>4. \/ section' = once.section /\ clock' = once.clock
        \/ section' = twice.section /\ clock' = twice.clock
    BY <1>10 DEF add_eit, before, once, twice
  <2>5. /\ given' = given /\ row' = row /\ status' = status /\ edits' = edits /\ eit_info' = eit_info /\ at' = at
        /\ position' = position /\ ini' = ini /\ entry' = entry
    BY <1>10 DEF add_eit, starting, conversion
  <2>6. RowOK' /\ ConversionOK' /\ Loaded'
    BY <1>1, <1>3, <2>5 DEF Loaded
  <2>7. Timed(clock', section')
    BY <2>2, <2>3, <2>4
  <2> QED
    BY <1>1, <2>5, <2>6, <2>7 DEF TypeInv
<1>11. CASE Tick
  <2>1. /\ given' = given /\ row' = row /\ status' = status /\ edits' = edits /\ eit_info' = eit_info /\ at' = at
        /\ position' = position /\ ini' = ini /\ entry' = entry /\ section' = section
    BY <1>11 DEF Tick, starting, conversion
  <2>2. RowOK' /\ ConversionOK' /\ Loaded'
    BY <1>1, <1>3, <2>1 DEF Loaded
  <2>3. PICK n, t, d : n \in 1..MaxNow /\ clock = [now |-> n, ts_0 |-> t, duration_0 |-> d]
    BY <1>1 DEF Timed
  <2>4. clock' = [now |-> n + 1, ts_0 |-> t, duration_0 |-> d] /\ n < MaxNow
    BY <1>11, <2>3 DEF Tick
  <2>5. n + 1 \in 1..MaxNow
    BY <2>3, <2>4, SizesTyped
  <2>6. Timed(clock', section')
    BY <1>1, <2>1, <2>4, <2>5 DEF Timed
  <2> QED
    BY <1>1, <2>1, <2>2, <2>6 DEF TypeInv
<1>12. CASE UNCHANGED vars
  <2>1. /\ given' = given /\ row' = row /\ status' = status /\ edits' = edits /\ eit_info' = eit_info /\ at' = at
        /\ position' = position /\ ini' = ini /\ entry' = entry /\ section' = section /\ clock' = clock
    BY <1>12 DEF vars
  <2>2. Loaded'
    BY <1>1, <2>1 DEF Loaded
  <2> QED
    BY <1>2, <1>3, <2>1, <2>2
<1> QED
  BY <1>4, <1>5, <1>6, <1>7, <1>8, <1>9, <1>10, <1>11, <1>12 DEF SourcesNext

(***************************************************************************)
(* Everything has its type, whatever rows, videos and ini files there are: *)
(* above all no section is ever of another shape, and the numbers of       *)
(* components fit in a byte (json_parse, load_eit, build_eit_section).     *)
(***************************************************************************)
THEOREM SourcesTyped == SourcesSpec => []SourcesTypeOK
<1>1. TypeInv /\ DocumentFits => SourcesTypeOK
  <2> SUFFICES ASSUME TypeInv, DocumentFits PROVE SourcesTypeOK
    OBVIOUS
  <2>1. ini.size \in 2..PoolSize
    BY DEF TypeInv, Loaded, IniOK
  <2>2. row = <<>> \/ row[1].to_inject \in {0, 1}
    BY SourcesAssumption DEF TypeInv, Loaded, RowOK, SourcesAssumption
  <2> QED
    BY <2>1, <2>2 DEF TypeInv, Loaded, RowOK, ConversionOK, EntryOK, Timed, DocumentFits, SourcesTypeOK
<1> QED
  BY <1>1, TypeInit, TypeStep, TextFits, PTL DEF SourcesSpec

(***************************************************************************)
(* Nothing is published of memory that was never set, if a row has both    *)
(* its sections, though the struct that is filled in is an automatic       *)
(* variable (convertStringsToEitStruct).                                   *)
(***************************************************************************)
THEOREM NothingUnsetOnAir == SourcesSpec => []NothingUnset
<1>1. TypeInv => NothingUnset
  BY SetIsClean DEF TypeInv, EntryOK, NothingUnset
<1> QED
  BY <1>1, TypeInit, TypeStep, PTL DEF SourcesSpec

-----------------------------------------------------------------------------
(* The status of a row.                                                    *)

(* What is called sound of the database is what the parser accepts.        *)
SoundIsAccepted ==
    \A rows \in DOMAIN Rows : \A r \in Rows[rows] :
        r.to_inject = 1 /\ r.section0 # None =>
            (r.sound <=> Accepted(r.section0) /\ (r.section1 # None => Accepted(r.section1)))

(* The conversion of a video that cannot be run or has a fault.            *)
Unread(r) == r.to_inject = 0 /\ ~(given.popen /\ Faultless(r.doc))

(* The four causes.                                                        *)
LEMMA CauseIs ==
    ASSUME NEW r
    PROVE  /\ Unread(r) => Cause(r) = "EIT FAILURE"
           /\ ~Unread(r) /\ r.section0 = None => Cause(r) = "DATABASE FAILURE"
           /\ ~Unread(r) /\ r.section0 # None /\ r.to_inject = 1 /\ ~r.sound => Cause(r) = "PARSING FAILURE"
           /\ ~Unread(r) /\ r.section0 # None /\ ~(r.to_inject = 1 /\ ~r.sound) => Cause(r) = ""
BY DEF Cause, Unread

(* The result of a conversion names its status.                            *)
LEMMA FailIs ==
    /\ Fail(-1) => status' = "DATABASE FAILURE" /\ at' = "idle"
    /\ Fail(-2) => status' = "PARSING FAILURE" /\ at' = "idle"
    /\ Fail(-3) => status' = "EIT FAILURE" /\ at' = "idle"
<1>1. -1 # -2 /\ -1 # -3 /\ -2 # -3
  OBVIOUS
<1>2. Fail(-1) => status' = "DATABASE FAILURE" /\ at' = "idle"
  BY <1>1 DEF Fail
<1>3. Fail(-2) => status' = "PARSING FAILURE" /\ at' = "idle"
  BY <1>1 DEF Fail
<1>4. Fail(-3) => status' = "EIT FAILURE" /\ at' = "idle"
  BY <1>1 DEF Fail
<1> QED
  BY <1>2, <1>3, <1>4

(* The status of the row that was converted last.                          *)
StatusOK ==
    \/ status = Cause(row[1])
    \/ row[1].to_inject = 0 /\ ~Ascending(row[1].doc) /\ status = "EIT FAILURE"

(* The entry was made of the ini file, or of a row without a fault.        *)
EntryNamed == entry # <<>> /\ entry[1].row # <<>> => Cause(entry[1].row[1]) = ""

(* What has been looked at, at each stage of the conversion.               *)
Verdict ==
    /\ at = "load" => row = <<>>
    /\ at \in {"reading", "convert", "section0", "section1", "publish"} => status = ""
    /\ at = "convert" => given.popen
    /\ at \in {"section0", "section1", "publish"} => ~Unread(row[1])
    /\ at \in {"section1", "publish"} =>
          row[1].section0 # None /\ (row[1].to_inject = 1 => Accepted(row[1].section0))
    /\ at = "publish" => (row[1].to_inject = 1 /\ row[1].section1 # None => Accepted(row[1].section1))
    /\ at = "idle" /\ row # <<>> => StatusOK
    /\ EntryNamed

(* What the parser refuses was not accepted.                               *)
LEMMA RefusedIs == ASSUME NEW o, json_parse(o) = Malformed PROVE ~Accepted(o)
BY ReadIs

(* The conversion fails for its cause, and without one it does not fail.   *)
LEMMA VerdictReached ==
    ASSUME SoundIsAccepted, TypeInv, Verdict, convertStringsToEitStruct
    PROVE  Verdict'
<1>1. given' = given /\ row' = row /\ entry' = entry
  BY DEF convertStringsToEitStruct, popen, fread, Convert, Section0, Section1, ParseSection, Fail, starting, conversion
<1>2. Loaded /\ RowOK /\ ConversionOK
  BY DEF TypeInv
<1>3. \A r : Cause(r)' = Cause(r) /\ (Unread(r)' <=> Unread(r))
  BY <1>1 DEF Cause, Unread
<1>4. EntryNamed'
  BY <1>1, <1>3 DEF Verdict, EntryNamed
<1>5. PICK r : r = row[1]
  OBVIOUS
<1>6. at \in {"reading", "convert", "section0", "section1"}
  BY DEF convertStringsToEitStruct, popen, fread, Convert, Section0, Section1
<1>7. row # <<>> /\ r \in Rows[given.rows] /\ given.rows \in DOMAIN Rows
  BY <1>2, <1>5, <1>6, SourcesAssumption DEF RowOK, Loaded, SourcesAssumption
<1>8. r.to_inject \in {0, 1} /\ r.doc \in Document
  BY <1>7, SourcesAssumption DEF SourcesAssumption
<1>9. r.to_inject = 1 /\ r.section0 # None =>
         (r.sound <=> Accepted(r.section0) /\ (r.section1 # None => Accepted(r.section1)))
  BY <1>7 DEF SoundIsAccepted
<1>10. ASSUME at' = "idle",
              status' = Cause(r) \/ (r.to_inject = 0 /\ ~Ascending(r.doc) /\ status' = "EIT FAILURE")
       PROVE  Verdict'
  <2>1. StatusOK'
    BY <1>1, <1>3, <1>5, <1>10 DEF StatusOK
  <2> QED
    BY <1>1, <1>4, <1>10, <2>1 DEF Verdict
<1>11. status = ""
  BY <1>6 DEF Verdict
<1>12. CASE popen
  <2>1. Unread(r)
    BY <1>2, <1>5, <1>12 DEF popen, RowOK, Unread
  <2>2. Cause(r) = "EIT FAILURE"
    BY <2>1, CauseIs
  <2>3. at' = "idle" /\ status' = "EIT FAILURE"
    BY <1>12, FailIs DEF popen
  <2> QED
    BY <1>10, <2>2, <2>3
<1>13. CASE fread
  <2>1. at' \in {"reading", "convert"} /\ status' = "" /\ given.popen
    BY <1>11, <1>13 DEF fread
  <2> QED
    BY <1>1, <1>4, <2>1 DEF Verdict
<1>14. CASE Convert
  <2>1. PICK converted : converted = convert_xml_to_eit_struct(eit_info, r.doc)
    OBVIOUS
  <2>2. at = "convert" /\ given.popen
    BY <1>14 DEF Convert, Verdict
  <2>3. r.to_inject = 0 /\ converted = convert_xml_to_eit_struct(Both(Uninitialised), r.doc)
    BY <1>2, <1>5, <2>1, <2>2 DEF RowOK
  <2>4. Ascending(r.doc) => (converted # Failed <=> Faultless(r.doc))
    BY <1>8, <2>3, VideoConverted
  <2>5. CASE converted = Failed
    <3>1. at' = "idle" /\ status' = "EIT FAILURE"
      BY <1>5, <1>14, <2>1, <2>5, FailIs DEF Convert
    <3>2. Ascending(r.doc) => Cause(r) = "EIT FAILURE"
      BY <2>3, <2>4, <2>5, CauseIs DEF Unread
    <3> QED
      BY <1>10, <2>3, <3>1, <3>2
  <2>6. CASE converted # Failed
    <3>1. at' = "section0" /\ status' = ""
      BY <1>5, <1>11, <1>14, <2>1, <2>6 DEF Convert
    <3>2. Faultless(r.doc)
      BY <1>8, <2>3, <2>4, <2>6, ConvertedTyped DEF Faultless
    <3>3. ~Unread(r)
      BY <2>2, <3>2 DEF Unread
    <3> QED
      BY <1>1, <1>3, <1>4, <1>5, <3>1, <3>3 DEF Verdict
  <2> QED
    BY <2>5, <2>6
<1>15. ASSUME NEW s \in Sections, NEW next, next \in {"section1", "publish"}, ParseSection(s, next),
              at \in {"section0", "section1"}, r[s] # None, r.section0 # None,
              r.to_inject = 0 => Built(eit_info[s])
       PROVE  \/ Verdict'
              \/ at' = next /\ status' = "" /\ (r.to_inject = 1 => Accepted(r[s]))
  <2>1. PICK o : o = Json(s)
    OBVIOUS
  <2>2. ~Unread(r)
    BY <1>5, <1>15 DEF Verdict
  <2>3. CASE json_parse(o) = Malformed
    <3>1. at' = "idle" /\ status' = "PARSING FAILURE"
      BY <1>15, <2>1, <2>3, FailIs DEF ParseSection
    <3>2. ~Accepted(o)
      BY <2>3, RefusedIs
    <3>3. r.to_inject # 0
      BY <1>5, <1>15, <2>1, <3>2, WrittenTyped DEF Json
    <3>4. o = r[s] /\ r.to_inject = 1
      BY <1>5, <1>8, <2>1, <3>3 DEF Json
    <3>5. ~r.sound
      <4>1. CASE s = "section0"
        BY <1>9, <1>15, <3>2, <3>4, <4>1
      <4>2. CASE s = "section1"
        BY <1>9, <1>15, <3>2, <3>4, <4>2
      <4> QED
        BY <1>15, <4>1, <4>2 DEF Sections
    <3>6. Cause(r) = "PARSING FAILURE"
      BY <1>15, <2>2, <3>4, <3>5, CauseIs
    <3> QED
      BY <1>10, <3>1, <3>6
  <2>4. CASE json_parse(o) # Malformed
    <3>1. at' = next /\ status' = ""
      BY <1>11, <1>15, <2>1, <2>4 DEF ParseSection
    <3>2. r.to_inject = 1 => Accepted(r[s])
      BY <1>5, <2>1, <2>4, OnlyAccepted DEF Json
    <3> QED
      BY <3>1, <3>2
  <2> QED
    BY <2>3, <2>4
<1>16. CASE Section0
  <2>1. at = "section0" /\ ~Unread(r)
    BY <1>5, <1>16 DEF Section0, Verdict
  <2>2. CASE r.section0 = None
    <3>1. at' = "idle" /\ status' = "DATABASE FAILURE"
      BY <1>5, <1>16, <2>2, FailIs DEF Section0
    <3>2. Cause(r) = "DATABASE FAILURE"
      BY <2>1, <2>2, CauseIs
    <3> QED
      BY <1>10, <3>1, <3>2
  <2>3. CASE r.section0 # None
    <3>1. ParseSection("section0", "section1")
      BY <1>5, <1>16, <2>3 DEF Section0
    <3>2. r.to_inject = 0 => Built(eit_info["section0"])
      BY <1>2, <1>5, <2>1 DEF ConversionOK, Sections
    <3>3. Verdict' \/ (at' = "section1" /\ status' = "" /\ (r.to_inject = 1 => Accepted(r["section0"])))
      BY <1>15, <2>1, <2>3, <3>1, <3>2 DEF Sections
    <3> QED
      BY <1>1, <1>3, <1>4, <1>5, <2>1, <2>3, <3>3 DEF Verdict
  <2> QED
    BY <2>2, <2>3
<1>17. CASE Section1
  <2>1. /\ at = "section1" /\ ~Unread(r) /\ r.section0 # None /\ (r.to_inject = 1 => Accepted(r.section0))
    BY <1>5, <1>17 DEF Section1, Verdict
  <2>2. CASE r.section1 = None
    <3>1. at' = "publish" /\ status' = ""
      BY <1>5, <1>11, <1>17, <2>2 DEF Section1, conversion
    <3> QED
      BY <1>1, <1>3, <1>4, <1>5, <2>1, <2>2, <3>1 DEF Verdict
  <2>3. CASE r.section1 # None
    <3>1. ParseSection("section1", "publish")
      BY <1>5, <1>17, <2>3 DEF Section1
    <3>2. r.to_inject = 0 => Built(eit_info["section1"])
      BY <1>2, <1>5, <2>1 DEF ConversionOK
    <3>3. Verdict' \/ (at' = "publish" /\ status' = "" /\ (r.to_inject = 1 => Accepted(r["section1"])))
      BY <1>15, <2>1, <2>3, <3>1, <3>2 DEF Sections
    <3> QED
      BY <1>1, <1>3, <1>4, <1>5, <2>1, <2>3, <3>3 DEF Verdict
  <2> QED
    BY <2>2, <2>3
<1> QED
  BY <1>12, <1>13, <1>14, <1>16, <1>17 DEF convertStringsToEitStruct

(* The verdict of each row, until the next row.                            *)
LEMMA VerdictStep == SoundIsAccepted /\ TypeInv /\ Verdict /\ [SourcesNext]_vars => Verdict'
<1> SUFFICES ASSUME SoundIsAccepted, TypeInv, Verdict, [SourcesNext]_vars PROVE Verdict'
  OBVIOUS
<1>1. given' = given
  BY DEF SourcesNext, LoadLine, CannotOpen, Configure, Edit, convertStringsToEitStruct, Publish,
         add_eit, Tick, starting, vars
<1>2. \A r : Cause(r)' = Cause(r) /\ (Unread(r)' <=> Unread(r))
  BY <1>1 DEF Cause, Unread
<1>3. entry' = entry => EntryNamed'
  BY <1>2 DEF Verdict, EntryNamed
<1>4. ASSUME entry' = entry, at' = at, row' = row, status' = status PROVE Verdict'
  <2>1. StatusOK => StatusOK'
    BY <1>2, <1>4 DEF StatusOK
  <2> QED
    BY <1>1, <1>2, <1>3, <1>4, <2>1 DEF Verdict
<1>5. CASE LoadLine \/ add_eit \/ Tick \/ UNCHANGED vars
  BY <1>4, <1>5 DEF LoadLine, add_eit, Tick, conversion, vars
<1>6. CASE CannotOpen
  BY <1>3, <1>6 DEF CannotOpen, Verdict
<1>7. CASE Configure
  <2>1. at = "load" /\ at' \in {"idle", "served", "crashed"} /\ row' = row /\ row = <<>>
    BY <1>7 DEF Configure, conversion, Verdict
  <2>2. entry' = entry \/ entry' = <<[eit |-> load_eit(ini), row |-> <<>>]>>
    BY <1>7 DEF Configure
  <2>3. ASSUME entry' = <<[eit |-> load_eit(ini), row |-> <<>>]>> PROVE EntryNamed'
    <3>1. entry'[1].row = <<>>
      BY <2>3
    <3> QED
      BY <3>1 DEF EntryNamed
  <2>4. EntryNamed'
    BY <1>3, <2>2, <2>3
  <2> QED
    BY <2>1, <2>4 DEF Verdict
<1>8. CASE Edit
  <2>1. PICK r \in Rows[given.rows] : row' = <<r>> /\ at' = IF r.to_inject = 0 THEN "reading" ELSE "section0"
    BY <1>8 DEF Edit
  <2>2. row'[1] = r /\ status' = "" /\ entry' = entry
    BY <1>8, <2>1 DEF Edit
  <2>3. r.to_inject # 0 => ~Unread(r)
    BY DEF Unread
  <2> QED
    BY <1>2, <1>3, <2>1, <2>2, <2>3 DEF Verdict
<1>9. CASE convertStringsToEitStruct
  BY <1>9, VerdictReached
<1>10. CASE Publish
  <2>1. at = "publish" /\ at' = "idle" /\ row' = row /\ status' = status /\ entry' = <<[eit |-> eit_info, row |-> row]>>
    BY <1>10 DEF Publish, conversion
  <2>2. PICK r : r = row[1]
    OBVIOUS
  <2>3. row # <<>> /\ r \in Rows[given.rows] /\ given.rows \in DOMAIN Rows
    BY <2>1, <2>2, SourcesAssumption DEF TypeInv, RowOK, Loaded, SourcesAssumption
  <2>4. r.to_inject = 1 /\ r.section0 # None =>
           (r.sound <=> Accepted(r.section0) /\ (r.section1 # None => Accepted(r.section1)))
    BY <2>3 DEF SoundIsAccepted
  <2>5. /\ ~Unread(r) /\ r.section0 # None /\ (r.to_inject = 1 => Accepted(r.section0))
        /\ (r.to_inject = 1 /\ r.section1 # None => Accepted(r.section1)) /\ status = ""
    BY <2>1, <2>2 DEF Verdict
  <2>6. Cause(r) = ""
    BY <2>4, <2>5, CauseIs
  <2>7. EntryNamed'
    BY <1>2, <2>1, <2>2, <2>6 DEF EntryNamed
  <2>8. StatusOK'
    BY <1>2, <2>1, <2>2, <2>5, <2>6 DEF StatusOK
  <2> QED
    BY <1>2, <2>1, <2>2, <2>6, <2>7, <2>8 DEF Verdict
<1> QED
  BY <1>5, <1>6, <1>7, <1>8, <1>9, <1>10 DEF SourcesNext

(***************************************************************************)
(* Each row that is converted is published, or has the status that names   *)
(* its first fault, whatever the rows, the videos and the order of edits   *)
(* are; a video whose events are out of order may be refused, too.  What   *)
(* is in the table was never a row with a fault, and nothing in it is      *)
(* unset (convertStringsToEitStruct and its returns -1, -2 and -3).        *)
(***************************************************************************)
THEOREM FirstFaultIsNamed ==
    ASSUME SoundIsAccepted
    PROVE  SourcesSpec => []Outcome
<1>1. SourcesInit => Verdict
  BY DEF SourcesInit, Verdict, EntryNamed
<1>2. TypeInv /\ Verdict /\ [SourcesNext]_vars => Verdict'
  BY SoundIsAccepted, VerdictStep
<1>3. Verdict /\ PublishedOrFailed /\ NothingUnset => Outcome
  BY DEF Verdict, EntryNamed, StatusOK, PublishedOrFailed, Outcome
<1> QED
  BY <1>1, <1>2, <1>3, TypeInit, TypeStep, NoRowForgotten, NothingUnsetOnAir, PTL DEF SourcesSpec

-----------------------------------------------------------------------------
(* The parameters of the sections with a name, as lines are added.         *)

(* What Append does.                                                       *)
LEMMA Longer ==
    ASSUME NEW T, NEW s \in Seq(T), NEW x \in T, NEW n, n = Len(s)
    PROVE  /\ n \in Nat /\ Append(s, x) \in Seq(T) /\ Len(Append(s, x)) = n + 1
           /\ Append(s, x)[n+1] = x /\ \A k \in 1..n : Append(s, x)[k] = s[k]
BY AppendProperties

(* One sequence more is joined at the end.                                 *)
LEMMA FlattenAppend ==
    ASSUME NEW A, NEW q \in Seq(Seq(A)), NEW x \in Seq(A)
    PROVE  FlattenSeq(Append(q, x)) = FlattenSeq(q) \o x
<1>1. PICK B : B = Seq(A)
  OBVIOUS
<1>2. PICK n \in Nat : n = Len(q)
  OBVIOUS
<1>3. PICK r : r = Append(q, x) /\ r \in Seq(B) /\ Len(r) = n + 1 /\ r[n+1] = x /\ \A k \in 1..n : r[k] = q[k]
  <2>1. q \in Seq(B) /\ x \in B
    BY <1>1
  <2>2. /\ Append(q, x) \in Seq(B) /\ Len(Append(q, x)) = n + 1
        /\ Append(q, x)[n+1] = x /\ \A k \in 1..n : Append(q, x)[k] = q[k]
    BY <1>2, <2>1, Longer
  <2> QED
    BY <2>2
<1>4. PICK g : Joins(g, A, q, n)
  BY <1>2, JoinsIs
<1>5. PICK h : Joins(h, A, r, n + 1)
  BY <1>1, <1>3, JoinsIs
<1> DEFINE S == {m \in Nat : m <= n => h[m] = g[m]}
<1>6. 0 \in S
  BY <1>4, <1>5 DEF Joins
<1>7. ASSUME NEW m \in Nat, m \in S PROVE m + 1 \in S
  <2>1. CASE m + 1 <= n
    <3>1. m + 1 \in 1..n /\ m + 1 \in 1..n+1 /\ (m + 1) - 1 = m /\ h[m] = g[m]
      BY <1>2, <1>7, <2>1
    <3>2. h[m+1] = h[m] \o r[m+1] /\ g[m+1] = g[m] \o q[m+1]
      BY <1>4, <1>5, <3>1 DEF Joins
    <3>3. r[m+1] = q[m+1]
      BY <1>3, <3>1
    <3>4. h[m+1] = g[m+1]
      BY <3>1, <3>2, <3>3, Zenon
    <3> QED
      BY <3>4
  <2>2. CASE ~(m + 1 <= n)
    BY <2>2
  <2> QED
    BY <2>1, <2>2
<1> HIDE DEF S
<1>8. n \in S
  BY <1>2, <1>6, <1>7, Counting
<1>9. h[n] = g[n]
  BY <1>2, <1>8 DEF S
<1>10. h[n+1] = h[n] \o r[n+1]
  <2>1. n + 1 \in 1..n+1 /\ (n + 1) - 1 = n
    BY <1>2
  <2> QED
    BY <1>5, <2>1 DEF Joins
<1> QED
  BY <1>3, <1>4, <1>5, <1>9, <1>10 DEF Joins

(* Of each section, the parameters if it has the name.                     *)
Parts(secs, name) == [k \in DOMAIN secs |-> IF secs[k].name = name THEN secs[k].params ELSE <<>>]

(* A section with a name of N and parameters of P.                         *)
SecType(N, P) == [name : N, params : Seq(P)]

(* The parts are sequences of parameters.                                  *)
LEMMA PartsTyped ==
    ASSUME NEW N, NEW P, NEW secs \in Seq(SecType(N, P)), NEW name
    PROVE  Parts(secs, name) \in Seq(Seq(P)) /\ Len(Parts(secs, name)) = Len(secs)
<1>1. PICK B : B = Seq(P)
  OBVIOUS
<1>2. PICK n \in Nat : n = Len(secs) /\ DOMAIN secs = 1..n
  OBVIOUS
<1>3. ASSUME NEW k \in 1..n PROVE (IF secs[k].name = name THEN secs[k].params ELSE <<>>) \in B
  <2>1. PICK s \in SecType(N, P) : s = secs[k]
    BY <1>2, <1>3
  <2>2. s.params \in B
    BY <1>1, <2>1 DEF SecType
  <2>3. <<>> \in B
    BY <1>1
  <2> QED
    BY <2>1, <2>2, <2>3
<1>4. Parts(secs, name) = [k \in 1..n |-> IF secs[k].name = name THEN secs[k].params ELSE <<>>]
  BY <1>2 DEF Parts
<1>5. Parts(secs, name) \in [1..n -> B]
  BY <1>3, <1>4
<1>6. Parts(secs, name) \in Seq(B) /\ Len(Parts(secs, name)) = n
  BY <1>2, <1>5, IsASeq
<1> QED
  BY <1>1, <1>2, <1>6

(* An empty section at the end changes nothing.                            *)
LEMMA SectionAdded ==
    ASSUME NEW N, NEW P, NEW secs \in Seq(SecType(N, P)), NEW name, NEW other \in N
    PROVE  FlattenSeq(Parts(Append(secs, Section(other)), name)) = FlattenSeq(Parts(secs, name))
<1>1. PICK n \in Nat : n = Len(secs) /\ DOMAIN secs = 1..n
  OBVIOUS
<1>2. PICK new : new = Section(other) /\ new \in SecType(N, P) /\ new.params = <<>>
  <2>1. <<>> \in Seq(P)
    OBVIOUS
  <2>2. Section(other) \in SecType(N, P) /\ Section(other).params = <<>>
    BY <2>1 DEF Section, SecType
  <2> QED
    BY <2>2
<1>3. PICK more : more = Append(secs, new) /\ more \in Seq(SecType(N, P)) /\ Len(more) = n + 1 /\ more[n+1] = new
                  /\ \A k \in 1..n : more[k] = secs[k]
  <2>1. /\ Append(secs, new) \in Seq(SecType(N, P)) /\ Len(Append(secs, new)) = n + 1
        /\ Append(secs, new)[n+1] = new /\ \A k \in 1..n : Append(secs, new)[k] = secs[k]
    BY <1>1, <1>2, Longer
  <2> QED
    BY <2>1
<1>4. PICK B : B = Seq(P)
  OBVIOUS
<1>5. PICK a, b \in Seq(B) : a = Parts(secs, name) /\ b = Parts(more, name) /\ Len(a) = n /\ Len(b) = n + 1
  <2>1. Parts(secs, name) \in Seq(B) /\ Len(Parts(secs, name)) = n
    BY <1>1, <1>4, PartsTyped
  <2>2. Parts(more, name) \in Seq(B) /\ Len(Parts(more, name)) = n + 1
    BY <1>3, <1>4, PartsTyped
  <2> QED
    BY <2>1, <2>2
<1>6. \A k \in 1..n : b[k] = a[k]
  BY <1>1, <1>3, <1>5 DEF Parts
<1>7. b[n+1] = <<>>
  BY <1>1, <1>2, <1>3, <1>5 DEF Parts
<1>8. b = Append(a, <<>>)
  <2>1. PICK c : c = Append(a, <<>>) /\ c \in Seq(B) /\ Len(c) = n + 1 /\ c[n+1] = <<>> /\ \A k \in 1..n : c[k] = a[k]
    <3>1. <<>> \in B
      BY <1>4
    <3>2. /\ Append(a, <<>>) \in Seq(B) /\ Len(Append(a, <<>>)) = n + 1
          /\ Append(a, <<>>)[n+1] = <<>> /\ \A k \in 1..n : Append(a, <<>>)[k] = a[k]
      BY <1>5, <3>1, Longer
    <3> QED
      BY <3>2
  <2>2. \A k \in 1..n+1 : b[k] = c[k]
    BY <1>1, <1>6, <1>7, <2>1
  <2> QED
    BY <1>5, <2>1, <2>2, SeqEqual
<1>9. FlattenSeq(b) = FlattenSeq(a) \o <<>>
  <2>1. a \in Seq(Seq(P)) /\ <<>> \in Seq(P)
    BY <1>4, <1>5
  <2>2. FlattenSeq(Append(a, <<>>)) = FlattenSeq(a) \o <<>>
    BY <2>1, FlattenAppend
  <2> QED
    BY <1>8, <2>2
<1>10. FlattenSeq(a) \in Seq(P)
  BY <1>4, <1>5, FlattenTyped
<1>11. \A s \in Seq(P) : s \o <<>> = s
  BY ConcatEmptySeq
<1> QED
  BY <1>2, <1>3, <1>5, <1>9, <1>10, <1>11

(* The parameter x at the end of the last section, number m + 1.           *)
LastGrows(N, P, secs, more, m, x) ==
    /\ secs \in Seq(SecType(N, P)) /\ more \in Seq(SecType(N, P)) /\ x \in P
    /\ m \in Nat /\ Len(secs) = m + 1 /\ Len(more) = m + 1 /\ \A k \in 1..m : more[k] = secs[k]
    /\ more[m+1].name = secs[m+1].name /\ more[m+1].params = Append(secs[m+1].params, x)

(* It is then the last of those in the sections with that name.            *)
LEMMA ParamAdded ==
    ASSUME NEW N, NEW P, NEW secs, NEW more, NEW name, NEW x, NEW m, LastGrows(N, P, secs, more, m, x)
    PROVE  /\ secs[m+1].name = name => FlattenSeq(Parts(more, name)) = Append(FlattenSeq(Parts(secs, name)), x)
           /\ secs[m+1].name # name => FlattenSeq(Parts(more, name)) = FlattenSeq(Parts(secs, name))
<1> USE DEF LastGrows
<1>1. PICK B, T : B = Seq(P) /\ T = SecType(N, P)
  OBVIOUS
<1>2. PICK old : old = secs[m+1] /\ old \in T /\ old.params \in B /\ old.name \in N
  <2>1. m + 1 \in 1..Len(secs)
    OBVIOUS
  <2>2. secs[m+1] \in SecType(N, P)
    BY <2>1
  <2>3. secs[m+1].params \in Seq(P) /\ secs[m+1].name \in N
    BY <2>2 DEF SecType
  <2> QED
    BY <1>1, <2>2, <2>3
<1>3. PICK new : new = more[m+1] /\ new.name = old.name /\ new.params = Append(old.params, x)
  BY <1>2
<1>4. more \in Seq(T) /\ Len(more) = m + 1 /\ more[m+1] = new /\ \A k \in 1..m : more[k] = secs[k]
  BY <1>1, <1>3
<1>5. PICK a, b \in Seq(B) : a = Parts(secs, name) /\ b = Parts(more, name) /\ Len(a) = m + 1 /\ Len(b) = m + 1
  <2>1. Parts(secs, name) \in Seq(B) /\ Len(Parts(secs, name)) = m + 1
    BY <1>1, PartsTyped
  <2>2. more \in Seq(SecType(N, P)) /\ Len(more) = m + 1
    BY <1>1, <1>4
  <2>3. Parts(more, name) \in Seq(B) /\ Len(Parts(more, name)) = m + 1
    BY <1>1, <2>2, PartsTyped
  <2> QED
    BY <2>1, <2>3
<1>6. \A k \in 1..m : b[k] = a[k]
  BY <1>1, <1>4, <1>5 DEF Parts
<1>7. PICK y, z \in B : y = a[m+1] /\ z = b[m+1]
  BY <1>5
<1>8. y = (IF old.name = name THEN old.params ELSE <<>>) /\ z = (IF old.name = name THEN Append(old.params, x) ELSE <<>>)
  <2>1. m + 1 \in DOMAIN secs /\ m + 1 \in DOMAIN more
    BY <1>4
  <2>2. a[m+1] = IF secs[m+1].name = name THEN secs[m+1].params ELSE <<>>
    BY <1>5, <2>1 DEF Parts
  <2>3. b[m+1] = IF more[m+1].name = name THEN more[m+1].params ELSE <<>>
    BY <1>5, <2>1 DEF Parts
  <2> QED
    BY <1>2, <1>3, <1>7, <2>2, <2>3
<1>9. PICK f : f = [k \in 1..m |-> a[k]] /\ f \in Seq(B) /\ Len(f) = m /\ \A k \in 1..m : f[k] = a[k]
  <2>1. \A k \in 1..m : a[k] \in B
    BY <1>5
  <2>2. [k \in 1..m |-> a[k]] \in [1..m -> B]
    BY <2>1
  <2>3. PICK f : f = [k \in 1..m |-> a[k]]
    OBVIOUS
  <2>4. f \in [1..m -> B] /\ \A k \in 1..m : f[k] = a[k]
    BY <2>2, <2>3
  <2>5. DOMAIN f = 1..m /\ m \in Nat
    BY <2>4
  <2>6. f \in Seq(B)
    BY <2>4, <2>5
  <2>7. Len(f) = m
    BY <2>5
  <2> QED
    BY <2>3, <2>4, <2>6, <2>7
<1>10. a = Append(f, y) /\ b = Append(f, z)
  <2>1. ASSUME NEW w \in B PROVE /\ Append(f, w) \in Seq(B) /\ Len(Append(f, w)) = m + 1 /\ Append(f, w)[m+1] = w
                                 /\ \A k \in 1..m : Append(f, w)[k] = a[k]
    BY <1>9, <2>1, Longer
  <2>2. \A k \in 1..m+1 : a[k] = Append(f, y)[k] /\ b[k] = Append(f, z)[k]
    BY <1>6, <1>7, <2>1
  <2> QED
    BY <1>5, <2>1, <2>2, SeqEqual
<1>11. PICK e \in B : e = FlattenSeq(f)
  <2>1. f \in Seq(Seq(P))
    BY <1>1, <1>9
  <2>2. FlattenSeq(f) \in Seq(P)
    BY <2>1, FlattenTyped
  <2> QED
    BY <1>1, <2>2
<1>12. FlattenSeq(a) = e \o y /\ FlattenSeq(b) = e \o z
  <2>1. f \in Seq(Seq(P)) /\ y \in Seq(P) /\ z \in Seq(P)
    BY <1>1, <1>7, <1>9
  <2>2. FlattenSeq(Append(f, y)) = FlattenSeq(f) \o y /\ FlattenSeq(Append(f, z)) = FlattenSeq(f) \o z
    BY <2>1, FlattenAppend
  <2> QED
    BY <1>10, <1>11, <2>2
<1>13. CASE old.name = name
  <2>1. y = old.params /\ z = Append(y, x)
    BY <1>8, <1>13
  <2>2. e \o Append(y, x) = Append(e \o y, x)
    <3>1. PICK c \in Seq(P) : c = e \o y
      BY <1>1, <1>7, <1>11, ConcatProperties
    <3>2. PICK l, n \in Nat : l = Len(e) /\ n = Len(y) /\ Len(c) = l + n
      BY <1>1, <1>7, <1>11, <3>1, ConcatProperties
    <3>3. e \in Seq(P) /\ y \in Seq(P) /\ Append(y, x) \in Seq(P) /\ Append(c, x) \in Seq(P)
      BY <1>1, <1>7, <1>11, <3>1
    <3> QED
      BY <3>1, <3>2, <3>3, AppendIsConcat, ConcatAssociative
  <2> QED
    BY <1>2, <1>4, <1>5, <1>12, <1>13, <2>1, <2>2
<1>14. CASE old.name # name
  BY <1>2, <1>4, <1>5, <1>8, <1>12, <1>14
<1> QED
  BY <1>13, <1>14

-----------------------------------------------------------------------------
(* What is in memory of the lines read so far.                             *)

(* What is written in the first p lines, and the memory they take.         *)
WrittenSoFar(lines, name, key, p) == Written(lines, name, key) \intersect 1..p
Taken(lines, p) == 2 + 3 * Cardinality({k \in 1..p : IsParam(lines[k])})
                     + 2 * Cardinality({k \in 1..p : IsSection(lines[k])})

(* After p lines the section they end in is the last one in memory, and a  *)
(* parameter is found with the value of its first line among them.         *)
InMemory(file, lines, p) ==
    /\ file.size = Taken(lines, p)
    /\ file.sections[Len(file.sections)].name = SectionAt(lines, p)
    /\ \A name : \A k \in DOMAIN Params(file, name) : Params(file, name)[k].key # NoKey
    /\ \A name, key : rechercherValeur(file, name, key) = FirstValue(lines, WrittenSoFar(lines, name, key, p))

(* The search among the parameters of a section name.                      *)
FoundIn(params, key) == IF Position(params, key) = 0 THEN NoValue ELSE params[Position(params, key)].value

(* A parameter behind others is found if none of them is.                  *)
LEMMA FoundFirst ==
    ASSUME NEW P, NEW params \in Seq(P), NEW x \in P, NEW key
    PROVE  FoundIn(Append(params, x), key) =
              IF FoundIn(params, key) = NoValue /\ x.key = key THEN x.value ELSE FoundIn(params, key)
<1>1. PICK n \in Nat : n = Len(params)
  OBVIOUS
<1>2. PICK more : more = Append(params, x) /\ more \in Seq(P) /\ Len(more) = n + 1 /\ more[n+1] = x
                  /\ \A k \in 1..n : more[k] = params[k]
  <2>1. /\ Append(params, x) \in Seq(P) /\ Len(Append(params, x)) = n + 1 /\ Append(params, x)[n+1] = x
        /\ \A k \in 1..n : Append(params, x)[k] = params[k]
    BY <1>1, Longer
  <2> QED
    BY <2>1
<1>3. PICK i : i = Position(params, key)
  OBVIOUS
<1>4. PICK j : j = Position(more, key)
  OBVIOUS
<1>5. /\ i \in 0..n
      /\ i # 0 => params[i].key = key /\ params[i].value # NoValue
      /\ \A k \in 1..n : params[k].key = key /\ params[k].value # NoValue => i # 0 /\ i <= k
  BY <1>1, <1>3, PositionIs
<1>6. /\ j \in 0..n+1
      /\ j # 0 => more[j].key = key /\ more[j].value # NoValue
      /\ \A k \in 1..n+1 : more[k].key = key /\ more[k].value # NoValue => j # 0 /\ j <= k
  <2>1. /\ j \in 0..Len(more)
        /\ j # 0 => more[j].key = key /\ more[j].value # NoValue
        /\ \A k \in 1..Len(more) : more[k].key = key /\ more[k].value # NoValue => j # 0 /\ j <= k
    <3>1. more \in Seq(P)
      BY <1>2
    <3> QED
      BY <1>4, <3>1, PositionIs
  <2> QED
    BY <1>2, <2>1
<1>7. CASE i # 0
  <2>1. i \in 1..n /\ i \in 1..n+1
    BY <1>1, <1>5, <1>7
  <2>2. more[i] = params[i] /\ j # 0 /\ j <= i
    BY <1>2, <1>5, <1>6, <1>7, <2>1
  <2>3. j \in 1..n
    BY <1>1, <1>6, <2>1, <2>2
  <2>4. params[j].key = key /\ params[j].value # NoValue
    BY <1>2, <1>6, <2>2, <2>3
  <2>5. j = i
    BY <1>1, <1>5, <2>1, <2>2, <2>3, <2>4
  <2>6. FoundIn(params, key) # NoValue /\ FoundIn(more, key) = FoundIn(params, key)
    BY <1>3, <1>4, <1>5, <1>7, <2>2, <2>5 DEF FoundIn
  <2> QED
    BY <1>2, <2>6
<1>8. CASE i = 0
  <2>1. FoundIn(params, key) = NoValue
    BY <1>3, <1>8 DEF FoundIn
  <2>2. j = 0 \/ j = n + 1
    <3>1. ASSUME j \in 1..n PROVE FALSE
      <4>1. params[j].key = key /\ params[j].value # NoValue
        BY <1>2, <1>6, <3>1
      <4> QED
        BY <1>5, <1>8, <3>1, <4>1
    <3> QED
      BY <1>1, <1>6, <3>1
  <2>3. j = n + 1 <=> x.key = key /\ x.value # NoValue
    <3>1. n + 1 \in 1..n+1 /\ n + 1 # 0
      BY <1>1
    <3> QED
      BY <1>2, <1>6, <2>2, <3>1
  <2>4. FoundIn(more, key) = IF j = 0 THEN NoValue ELSE x.value
    BY <1>2, <1>4, <2>2 DEF FoundIn
  <2>5. n + 1 # 0
    BY <1>1
  <2> QED
    BY <1>2, <2>1, <2>2, <2>3, <2>4, <2>5
<1> QED
  BY <1>7, <1>8

(* A later line counts if there is no earlier one.                         *)
LEMMA FirstAdded ==
    ASSUME NEW lines, NEW p \in Nat, NEW q \in Nat, q = p + 1, NEW W \in SUBSET (1..p)
    PROVE  FirstValue(lines, W \union {q}) = IF W = {} THEN lines[q].value ELSE FirstValue(lines, W)
<1> DEFINE First(S) == CHOOSE k \in S : \A j \in S : k <= j
<1>1. ASSUME NEW S \in SUBSET Nat, NEW k \in S, \A j \in S : k <= j PROVE First(S) = k
  <2>1. First(S) \in S /\ \A j \in S : First(S) <= j
    BY <1>1
  <2> HIDE DEF First
  <2>2. First(S) <= k /\ k <= First(S) /\ k \in Nat /\ First(S) \in Nat
    BY <1>1, <2>1
  <2> QED
    BY <2>2
<1>2. \A S : S # {} => FirstValue(lines, S) = lines[First(S)].value
  BY DEF FirstValue
<1> HIDE DEF First
<1>3. W \union {q} # {} /\ W \union {q} \in SUBSET Nat /\ W \in SUBSET Nat
  OBVIOUS
<1>4. CASE W = {}
  <2>1. q \in W \union {q} /\ \A j \in W \union {q} : q <= j
    BY <1>4
  <2>2. First(W \union {q}) = q
    BY <1>1, <1>3, <2>1
  <2> QED
    BY <1>2, <1>3, <1>4, <2>2
<1>5. CASE W # {}
  <2>1. PICK k \in W : \A j \in W : k <= j
    BY <1>3, <1>5, Least
  <2>2. k \in 1..p /\ k <= q
    BY <2>1
  <2>3. k \in W \union {q} /\ \A j \in W \union {q} : k <= j
    BY <2>1, <2>2
  <2>4. First(W \union {q}) = k /\ First(W) = k
    BY <1>1, <1>3, <2>1, <2>3
  <2> QED
    BY <1>2, <1>3, <1>5, <2>4
<1> QED
  BY <1>4, <1>5

(* A line that counts has a value.                                         *)
LEMMA WrittenHasValue ==
    ASSUME NEW lines, NEW n \in Nat, DOMAIN lines = 1..n, \A k \in DOMAIN lines : LineOK(lines[k]),
           NEW name, NEW key, NEW W \in SUBSET Written(lines, name, key)
    PROVE  W = {} <=> FirstValue(lines, W) = NoValue
<1>1. W = {} => FirstValue(lines, W) = NoValue
  BY DEF FirstValue
<1>2. ASSUME W # {} PROVE FirstValue(lines, W) # NoValue
  <2>1. W \in SUBSET Nat
    BY DEF Written
  <2>2. PICK k \in W : \A j \in W : k <= j
    BY <1>2, <2>1, Least
  <2>3. PICK c : c = CHOOSE j \in W : \A i \in W : j <= i
    OBVIOUS
  <2>4. c \in W
    BY <2>2, <2>3
  <2>5. c \in DOMAIN lines /\ IsParam(lines[c])
    BY <2>4 DEF Written
  <2>6. lines[c].value \in TextElement
    BY <2>5 DEF LineOK, IsParam
  <2>7. FirstValue(lines, W) = lines[c].value
    BY <1>2, <2>3 DEF FirstValue
  <2> QED
    BY <2>6, <2>7, ValueThere
<1> QED
  BY <1>1, <1>2

(* The section that a line is in.                                          *)
LEMMA SectionAtNext ==
    ASSUME NEW lines, NEW p \in Nat
    PROVE  /\ SectionAt(lines, 0) = NoName
           /\ SectionAt(lines, p + 1) = IF IsSection(lines[p+1]) THEN lines[p+1].name ELSE SectionAt(lines, p)
<1>1. Headers(lines, 0) = {}
  BY DEF Headers
<1>2. Headers(lines, p + 1) = IF IsSection(lines[p+1]) THEN Headers(lines, p) \union {p + 1} ELSE Headers(lines, p)
  BY DEF Headers
<1>3. Headers(lines, p) \subseteq 1..p
  BY DEF Headers
<1> DEFINE Latest(H) == CHOOSE j \in H : \A i \in H : i <= j
<1>4. \A n : SectionAt(lines, n) = IF Headers(lines, n) = {} THEN NoName ELSE lines[Latest(Headers(lines, n))].name
  BY DEF SectionAt
<1>5. CASE IsSection(lines[p+1])
  <2>1. PICK H : H = Headers(lines, p) \union {p + 1}
    OBVIOUS
  <2>2. p + 1 \in H /\ \A i \in H : i <= p + 1 /\ i \in Nat
    BY <1>3, <2>1
  <2>3. Latest(H) = p + 1
    <3>1. Latest(H) \in H /\ \A i \in H : i <= Latest(H)
      BY <2>2
    <3> HIDE DEF Latest
    <3> QED
      BY <2>2, <3>1
  <2>4. Headers(lines, p + 1) = H /\ H # {}
    BY <1>2, <1>5, <2>1
  <2> HIDE DEF Latest
  <2> QED
    BY <1>1, <1>5, <1>4, <2>3, <2>4
<1>6. CASE ~IsSection(lines[p+1])
  <2> HIDE DEF Latest
  <2>1. Headers(lines, p + 1) = Headers(lines, p)
    BY <1>2, <1>6
  <2> QED
    BY <1>1, <1>6, <1>4, <2>1
<1> QED
  BY <1>5, <1>6

(* The lines that matter for a parameter, with one more.                   *)
LEMMA WrittenNext ==
    ASSUME NEW lines, NEW p \in Nat, NEW q \in Nat, NEW name, NEW key, q = p + 1, q \in DOMAIN lines
    PROVE  /\ WrittenSoFar(lines, name, key, 0) = {}
           /\ WrittenSoFar(lines, name, key, p) \in SUBSET (1..p)
           /\ WrittenSoFar(lines, name, key, q) =
                 IF IsParam(lines[q]) /\ lines[q].key = key /\ SectionAt(lines, q) = name
                 THEN WrittenSoFar(lines, name, key, p) \union {q} ELSE WrittenSoFar(lines, name, key, p)
<1>1. 1..q = (1..p) \union {q} /\ 1..0 = {}
  OBVIOUS
<1>2. PICK W : W = Written(lines, name, key)
  OBVIOUS
<1>3. q \in W <=> IsParam(lines[q]) /\ lines[q].key = key /\ SectionAt(lines, q) = name
  BY <1>2 DEF Written
<1>4. \A n : WrittenSoFar(lines, name, key, n) = W \intersect 1..n
  BY <1>2 DEF WrittenSoFar
<1>5. W \intersect 1..q = IF q \in W THEN (W \intersect 1..p) \union {q} ELSE W \intersect 1..p
  BY <1>1
<1> QED
  BY <1>1, <1>3, <1>4, <1>5

(* The memory that is taken.                                               *)
LEMMA TakenNext ==
    ASSUME NEW lines, NEW p \in Nat
    PROVE  /\ Taken(lines, 0) = 2
           /\ Taken(lines, p) \in Nat
           /\ Taken(lines, p + 1) = Taken(lines, p) + (IF IsParam(lines[p+1]) THEN 3 ELSE 0)
                                                    + (IF IsSection(lines[p+1]) THEN 2 ELSE 0)
<1> DEFINE Pa(n) == {k \in 1..n : IsParam(lines[k])}
           Se(n) == {k \in 1..n : IsSection(lines[k])}
<1>1. Pa(0) = {} /\ Se(0) = {} /\ Cardinality({}) = 0
  BY FS_EmptySet
<1>2. IsFiniteSet(Pa(p)) /\ IsFiniteSet(Se(p))
  <2>1. IsFiniteSet(1..p)
    BY FS_Interval
  <2>2. Pa(p) \in SUBSET (1..p) /\ Se(p) \in SUBSET (1..p)
    OBVIOUS
  <2> HIDE DEF Pa, Se
  <2> QED
    BY <2>1, <2>2, FS_Subset
<1>3. p + 1 \notin Pa(p) /\ p + 1 \notin Se(p)
  OBVIOUS
<1>4. Pa(p + 1) = IF IsParam(lines[p+1]) THEN Pa(p) \union {p + 1} ELSE Pa(p)
  OBVIOUS
<1>5. Se(p + 1) = IF IsSection(lines[p+1]) THEN Se(p) \union {p + 1} ELSE Se(p)
  OBVIOUS
<1>6. \A n : Taken(lines, n) = 2 + 3 * Cardinality(Pa(n)) + 2 * Cardinality(Se(n))
  BY DEF Taken
<1> HIDE DEF Pa, Se
<1>7. PICK a, b \in Nat : a = Cardinality(Pa(p)) /\ b = Cardinality(Se(p))
  <2>1. Cardinality(Pa(p)) \in Nat /\ Cardinality(Se(p)) \in Nat
    BY <1>2, FS_CardinalityType
  <2> QED
    BY <2>1
<1>8. Cardinality(Pa(p + 1)) = IF IsParam(lines[p+1]) THEN a + 1 ELSE a
  BY <1>2, <1>3, <1>4, <1>7, FS_AddElement
<1>9. Cardinality(Se(p + 1)) = IF IsSection(lines[p+1]) THEN b + 1 ELSE b
  BY <1>2, <1>3, <1>5, <1>7, FS_AddElement
<1>10. Taken(lines, p) = 2 + 3 * a + 2 * b
  BY <1>6, <1>7
<1>11. Taken(lines, 0) = 2
  BY <1>1, <1>6
<1>12. Taken(lines, p + 1) = 2 + 3 * (IF IsParam(lines[p+1]) THEN a + 1 ELSE a) + 2 * (IF IsSection(lines[p+1]) THEN b + 1 ELSE b)
  BY <1>6, <1>8, <1>9
<1> QED
  BY <1>7, <1>10, <1>11, <1>12

(* It is never more than what the whole file takes.                        *)
LEMMA TakenBound ==
    ASSUME NEW lines, NEW n \in Nat, DOMAIN lines = 1..n, NEW p \in 0..n
    PROVE  Taken(lines, p) <= Allocations(lines) /\ Taken(lines, n) = Allocations(lines)
<1> DEFINE Pa(m) == {k \in 1..m : IsParam(lines[k])}
           Se(m) == {k \in 1..m : IsSection(lines[k])}
<1>1. \A m : Taken(lines, m) = 2 + 3 * Cardinality(Pa(m)) + 2 * Cardinality(Se(m))
  BY DEF Taken
<1>2. Allocations(lines) = 2 + 3 * Cardinality(Pa(n)) + 2 * Cardinality(Se(n))
  BY DEF Allocations
<1>3. Pa(p) \in SUBSET Pa(n) /\ Se(p) \in SUBSET Se(n) /\ Pa(n) \in SUBSET (1..n) /\ Se(n) \in SUBSET (1..n)
  OBVIOUS
<1> HIDE DEF Pa, Se
<1>4. IsFiniteSet(Pa(n)) /\ IsFiniteSet(Se(n))
  BY <1>3, FS_Interval, FS_Subset
<1>5. /\ IsFiniteSet(Pa(p)) /\ Cardinality(Pa(p)) <= Cardinality(Pa(n))
      /\ IsFiniteSet(Se(p)) /\ Cardinality(Se(p)) <= Cardinality(Se(n))
  BY <1>3, <1>4, FS_Subset
<1>6. PICK a, b, c, d \in Nat : a = Cardinality(Pa(p)) /\ b = Cardinality(Pa(n)) /\ c = Cardinality(Se(p)) /\ d = Cardinality(Se(n))
  <2>1. /\ Cardinality(Pa(p)) \in Nat /\ Cardinality(Pa(n)) \in Nat
        /\ Cardinality(Se(p)) \in Nat /\ Cardinality(Se(n)) \in Nat
    BY <1>4, <1>5, FS_CardinalityType
  <2> QED
    BY <2>1
<1>7. Taken(lines, p) = 2 + 3 * a + 2 * c /\ Taken(lines, n) = 2 + 3 * b + 2 * d /\ Allocations(lines) = 2 + 3 * b + 2 * d
  BY <1>1, <1>2, <1>6
<1>8. a <= b /\ c <= d
  BY <1>5, <1>6
<1> QED
  BY <1>7, <1>8

(* A line of a file that there is memory for is remembered.                *)
LEMMA LineRemembered ==
    ASSUME NEW lines, NEW n \in Nat, DOMAIN lines = 1..n, \A k \in DOMAIN lines : LineOK(lines[k]),
           Allocations(lines) <= PoolSize, NEW p \in Nat, NEW next \in Nat, next = p + 1, next \in 1..n,
           NEW file, IniOK(file, lines), InMemory(file, lines, p)
    PROVE  InMemory(extraireParamsValeurs(file, lines[next]), lines, next)
<1>1. PICK line : line = lines[next]
  OBVIOUS
<1>2. PICK N, P : N = NamesOf(lines) /\ P = ParamElement(lines)
  OBVIOUS
<1>3. PICK secs, z : secs \in Seq(SecType(N, P)) /\ secs # <<>> /\ z \in Nat /\ file = [sections |-> secs, size |-> z]
  <2>1. \A k \in 2..PoolSize : k \in Nat
    BY SizesTyped
  <2>2. SectionElement(lines) = SecType(N, P)
    BY <1>2 DEF SectionElement, SecType
  <2>3. /\ file \in [sections : Seq(SecType(N, P)), size : 2..PoolSize] /\ file.sections # <<>>
    BY <2>2 DEF IniOK
  <2> QED
    BY <2>1, <2>3
<1>4. PICK m, last \in Nat : last = m + 1 /\ Len(secs) = last /\ DOMAIN secs = 1..last /\ last \in 1..last
  <2>1. PICK l \in Nat : l = Len(secs) /\ l # 0 /\ DOMAIN secs = 1..l
    BY <1>3, EmptySeq
  <2>2. l - 1 \in Nat /\ l = (l - 1) + 1 /\ l \in 1..l
    BY <2>1
  <2> QED
    BY <2>1, <2>2
<1>5. /\ z = Taken(lines, p) /\ secs[last].name = SectionAt(lines, p)
      /\ \A name : \A k \in DOMAIN Params(file, name) : Params(file, name)[k].key # NoKey
      /\ \A name, key : rechercherValeur(file, name, key) = FirstValue(lines, WrittenSoFar(lines, name, key, p))
  BY <1>3, <1>4 DEF InMemory
<1>6. PICK l, taken \in Nat : l = PoolSize /\ taken = Taken(lines, next) /\ taken <= l
  <2>1. next \in 0..n
    OBVIOUS
  <2>2. PICK t \in Nat : t = Allocations(lines)
    <3>1. n \in 0..n
      OBVIOUS
    <3> QED
      BY <3>1, TakenBound, TakenNext
  <2>3. Taken(lines, next) <= t
    BY <2>1, <2>2, TakenBound
  <2>4. Taken(lines, next) \in Nat /\ PoolSize \in Nat
    BY TakenNext, SizesTyped
  <2>5. t <= PoolSize
    BY <2>2
  <2> QED
    BY <2>3, <2>4, <2>5
<1>7. taken = z + (IF IsParam(line) THEN 3 ELSE 0) + (IF IsSection(line) THEN 2 ELSE 0)
  BY <1>1, <1>5, <1>6, TakenNext
<1>8. SectionAt(lines, next) = IF IsSection(line) THEN line.name ELSE secs[last].name
  BY <1>1, <1>5, SectionAtNext
<1>9. next \in DOMAIN lines
  OBVIOUS
<1>10. ASSUME NEW name, NEW key
      PROVE  WrittenSoFar(lines, name, key, next) =
                IF IsParam(line) /\ line.key = key /\ SectionAt(lines, next) = name
                THEN WrittenSoFar(lines, name, key, p) \union {next} ELSE WrittenSoFar(lines, name, key, p)
  <2>1. WrittenSoFar(lines, name, key, next) =
           IF IsParam(lines[next]) /\ lines[next].key = key /\ SectionAt(lines, next) = name
           THEN WrittenSoFar(lines, name, key, p) \union {next} ELSE WrittenSoFar(lines, name, key, p)
    BY <1>9, WrittenNext
  <2> QED
    BY <1>1, <2>1
<1>11. line.comment \in BOOLEAN /\ line.equals \in BOOLEAN
       /\ (IsParam(line) => line.key # NoKey /\ line.value \in TextElement)
  BY <1>1, <1>9 DEF LineOK, IsParam
<1>12. \A f, name : Params(f, name) = FlattenSeq(Parts(f.sections, name))
  BY DEF Params, Parts
<1>13. \A f, name, key : rechercherValeur(f, name, key) = FoundIn(Params(f, name), key)
  BY DEF rechercherValeur, FoundIn
<1>14. CASE ~IsParam(line) /\ ~IsSection(line)
  <2>1. extraireParamsValeurs(file, line) = file
    BY <1>11, <1>14 DEF extraireParamsValeurs, IsParam, IsSection
  <2>2. file.size = taken
    BY <1>3, <1>7, <1>14
  <2>3. file.sections[Len(file.sections)].name = SectionAt(lines, next)
    BY <1>3, <1>4, <1>8, <1>14
  <2>4. \A name, key : rechercherValeur(file, name, key) = FirstValue(lines, WrittenSoFar(lines, name, key, next))
    BY <1>5, <1>10, <1>14
  <2> QED
    BY <1>1, <1>5, <1>6, <2>1, <2>2, <2>3, <2>4 DEF InMemory
<1>15. CASE IsSection(line)
  <2>1. ~IsParam(line) /\ extraireParamsValeurs(file, line) = ajouterUneSection(file, line.name)
    BY <1>11, <1>15 DEF extraireParamsValeurs, IsParam, IsSection
  <2>2. taken = z + 2 /\ z + 2 <= l
    BY <1>3, <1>6, <1>7, <1>15, <2>1
  <2>3. apr_palloc(file) /\ apr_pstrdup(file, 1, line.name, NoName) = line.name /\ Lesser(z + 2, PoolSize) = z + 2
    BY <1>3, <1>6, <2>2 DEF apr_palloc, apr_pstrdup, Lesser
  <2>4. PICK new : new = [sections |-> Append(secs, Section(line.name)), size |-> z + 2]
    OBVIOUS
  <2>5. extraireParamsValeurs(file, line) = new
    BY <1>3, <2>1, <2>3, <2>4 DEF ajouterUneSection
  <2>6. line.name \in N /\ Section(line.name) \in SecType(N, P) /\ Section(line.name).name = line.name
    BY <1>1, <1>2, <1>9 DEF NamesOf, Section, SecType
  <2>7. new.sections[Len(new.sections)].name = SectionAt(lines, next)
    <3>1. Len(Append(secs, Section(line.name))) = (last) + 1
          /\ Append(secs, Section(line.name))[(last) + 1] = Section(line.name)
      BY <1>3, <1>4, <2>6, Longer
    <3> QED
      BY <1>8, <1>15, <2>4, <2>6, <3>1
  <2>8. \A name : Params(new, name) = Params(file, name)
    <3> SUFFICES ASSUME NEW name PROVE Params(new, name) = Params(file, name)
      OBVIOUS
    <3>1. FlattenSeq(Parts(Append(secs, Section(line.name)), name)) = FlattenSeq(Parts(secs, name))
      BY <1>3, <2>6, SectionAdded
    <3> QED
      BY <1>3, <1>12, <2>4, <3>1
  <2>9. \A name, key : rechercherValeur(new, name, key) = FirstValue(lines, WrittenSoFar(lines, name, key, next))
    <3> SUFFICES ASSUME NEW name, NEW key
                 PROVE  rechercherValeur(new, name, key) = FirstValue(lines, WrittenSoFar(lines, name, key, next))
      OBVIOUS
    <3>1. rechercherValeur(new, name, key) = rechercherValeur(file, name, key)
      BY <1>13, <2>8
    <3>2. WrittenSoFar(lines, name, key, next) = WrittenSoFar(lines, name, key, p)
      BY <1>10, <2>1
    <3> QED
      BY <1>5, <3>1, <3>2
  <2>10. new.size = Taken(lines, next)
    BY <1>6, <2>2, <2>4
  <2> QED
    BY <1>1, <1>5, <2>5, <2>7, <2>8, <2>9, <2>10 DEF InMemory
<1>16. CASE IsParam(line)
  <2>1. ~IsSection(line) /\ extraireParamsValeurs(file, line) = ajouterUnParamValue(file, line)
    BY <1>11, <1>16 DEF extraireParamsValeurs, IsParam, IsSection
  <2>2. taken = z + 3 /\ z + 3 <= l
    BY <1>3, <1>6, <1>7, <1>16, <2>1
  <2>3. PICK x : x = [key |-> line.key, value |-> line.value]
    OBVIOUS
  <2>4. x \in P /\ x.key = line.key /\ x.value = line.value /\ x.key # NoKey /\ x.value # NoValue
    <3>1. line.key \in KeysOf(lines)
      BY <1>1, <1>9 DEF KeysOf
    <3>2. line.key # NoKey /\ line.value \in TextElement /\ line.value # NoValue
      BY <1>11, <1>16, ValueThere
    <3>3. line.value \in ValueElement
      BY <3>2 DEF ValueElement
    <3> QED
      BY <1>2, <2>3, <3>1, <3>2, <3>3 DEF ParamElement
  <2>5. PICK longer : longer = [name |-> secs[last].name, params |-> Append(secs[last].params, x)]
    OBVIOUS
  <2>6. PICK more : more = [secs EXCEPT ![last] = longer]
    OBVIOUS
  <2>7. PICK new : new = [sections |-> more, size |-> z + 3]
    OBVIOUS
  <2>8. extraireParamsValeurs(file, line) = new
    <3>1. file.size = z /\ file.sections = secs /\ Len(file.sections) = last
      BY <1>3, <1>4
    <3>2. apr_palloc(file) /\ apr_pstrdup(file, 1, line.key, NoKey) = line.key
          /\ apr_pstrdup(file, 2, line.value, NoValue) = line.value
      BY <1>3, <1>6, <2>2, <3>1 DEF apr_palloc, apr_pstrdup
    <3>3. Lesser(z + 3, PoolSize) = z + 3
      BY <1>6, <2>2 DEF Lesser
    <3>4. ajouterUnParamValue(file, line) =
             [file EXCEPT !.sections[Len(file.sections)].params = Append(@, x), !.size = Lesser(@ + 3, PoolSize)]
      BY <2>3, <3>2 DEF ajouterUnParamValue
    <3>5. [secs[last] EXCEPT !.params = Append(secs[last].params, x)] = longer
      <4>1. PICK old : old = secs[last]
        OBVIOUS
      <4>2. PICK name, params : old = [name |-> name, params |-> params]
        <5>1. secs[last] \in SecType(N, P)
          BY <1>3, <1>4
        <5> QED
          BY <4>1, <5>1 DEF SecType
      <4>3. PICK all : all = Append(params, x)
        OBVIOUS
      <4>4. old.name = name /\ old.params = params /\ [old EXCEPT !.params = all] = [name |-> name, params |-> all]
        BY <4>2
      <4> QED
        BY <2>5, <4>1, <4>3, <4>4
    <3> QED
      BY <1>3, <2>1, <2>6, <2>7, <3>1, <3>3, <3>4, <3>5
  <2>9. new.sections[Len(new.sections)].name = SectionAt(lines, next)
    <3>1. DOMAIN more = 1..last /\ more[last] = longer
      BY <1>4, <2>6
    <3>2. Len(more) = last
      BY <3>1
    <3> QED
      BY <1>8, <2>1, <2>5, <2>7, <3>1, <3>2
  <2>10. ASSUME NEW name
         PROVE  Params(new, name) = IF secs[last].name = name THEN Append(Params(file, name), x) ELSE Params(file, name)
    <3>1. secs[last] \in SecType(N, P) /\ longer \in SecType(N, P) /\ longer.name = secs[last].name
          /\ longer.params = Append(secs[last].params, x)
      <4>1. secs[last] \in SecType(N, P)
        BY <1>3, <1>4
      <4>2. secs[last].name \in N /\ Append(secs[last].params, x) \in Seq(P)
        BY <2>4, <4>1 DEF SecType
      <4> QED
        BY <2>5, <4>1, <4>2 DEF SecType
    <3>2. /\ more \in Seq(SecType(N, P)) /\ Len(more) = last
          /\ \A j \in 1..Len(secs) : more[j] = IF j = last THEN longer ELSE secs[j]
      BY <1>3, <1>4, <2>6, <3>1, ExceptSeq
    <3>3. LastGrows(N, P, secs, more, m, x)
      BY <1>3, <1>4, <2>4, <3>1, <3>2 DEF LastGrows
    <3>4. /\ secs[m+1].name = name => FlattenSeq(Parts(more, name)) = Append(FlattenSeq(Parts(secs, name)), x)
          /\ secs[m+1].name # name => FlattenSeq(Parts(more, name)) = FlattenSeq(Parts(secs, name))
      BY <3>3, ParamAdded
    <3> QED
      BY <1>3, <1>4, <1>12, <2>7, <3>4
  <2>11. \A name : Params(file, name) \in Seq(P)
    BY <1>2, ParamsTyped
  <2>12. ASSUME NEW name, NEW k \in DOMAIN Params(new, name) PROVE Params(new, name)[k].key # NoKey
    <3>1. CASE secs[last].name = name
      <4>1. PICK params \in Seq(P) : params = Params(file, name)
        BY <2>11
      <4>2. PICK c \in Nat : c = Len(params) /\ DOMAIN params = 1..c
        OBVIOUS
      <4>3. /\ Append(params, x) \in Seq(P) /\ Len(Append(params, x)) = c + 1 /\ Append(params, x)[c+1] = x
            /\ \A j \in 1..c : Append(params, x)[j] = params[j]
        BY <2>4, <4>2, Longer
      <4>4. DOMAIN Append(params, x) = 1..c+1
        BY <4>3
      <4>5. k \in 1..c+1 /\ Params(new, name)[k] = Append(params, x)[k]
        BY <2>10, <2>12, <3>1, <4>1, <4>4
      <4>6. CASE k = c + 1
        BY <2>4, <4>3, <4>5, <4>6
      <4>7. CASE k # c + 1
        <5>1. k \in 1..c
          BY <4>2, <4>5, <4>7
        <5> QED
          BY <1>5, <4>1, <4>2, <4>3, <4>5, <5>1
      <4> QED
        BY <4>6, <4>7
    <3>2. CASE secs[last].name # name
      BY <1>5, <2>10, <2>12, <3>2
    <3> QED
      BY <3>1, <3>2
  <2>13. ASSUME NEW name, NEW key
         PROVE  rechercherValeur(new, name, key) = FirstValue(lines, WrittenSoFar(lines, name, key, next))
    <3>1. PICK W : W = WrittenSoFar(lines, name, key, p)
      OBVIOUS
    <3>2. W \in SUBSET (1..p)
      BY <1>9, <3>1, WrittenNext
    <3>3. rechercherValeur(file, name, key) = FirstValue(lines, W)
      BY <1>5, <3>1
    <3>4. CASE secs[last].name = name /\ line.key = key
      <4>1. rechercherValeur(new, name, key) = FoundIn(Append(Params(file, name), x), key)
        BY <1>13, <2>10, <3>4
      <4>2. FoundIn(Append(Params(file, name), x), key) =
               IF FoundIn(Params(file, name), key) = NoValue THEN line.value ELSE FoundIn(Params(file, name), key)
        BY <2>4, <2>11, <3>4, FoundFirst
      <4>3. WrittenSoFar(lines, name, key, next) = W \union {next}
        BY <1>8, <1>10, <1>16, <2>1, <3>1, <3>4
      <4>4. FirstValue(lines, W \union {next}) = IF W = {} THEN line.value ELSE FirstValue(lines, W)
        BY <1>1, <3>2, FirstAdded
      <4>5. W = {} <=> FirstValue(lines, W) = NoValue
        <5>1. W \in SUBSET Written(lines, name, key)
          BY <3>1 DEF WrittenSoFar
        <5> QED
          BY <5>1, WrittenHasValue
      <4> QED
        BY <1>13, <3>3, <4>1, <4>2, <4>3, <4>4, <4>5
    <3>5. CASE secs[last].name = name /\ line.key # key
      <4>1. rechercherValeur(new, name, key) = FoundIn(Append(Params(file, name), x), key)
        BY <1>13, <2>10, <3>5
      <4>2. FoundIn(Append(Params(file, name), x), key) = FoundIn(Params(file, name), key)
        BY <2>4, <2>11, <3>5, FoundFirst
      <4>3. WrittenSoFar(lines, name, key, next) = W
        BY <1>10, <3>1, <3>5
      <4> QED
        BY <1>13, <3>3, <4>1, <4>2, <4>3
    <3>6. CASE secs[last].name # name
      <4>1. rechercherValeur(new, name, key) = rechercherValeur(file, name, key)
        BY <1>13, <2>10, <3>6
      <4>2. WrittenSoFar(lines, name, key, next) = W
        BY <1>8, <1>10, <2>1, <3>1, <3>6
      <4> QED
        BY <3>3, <4>1, <4>2
    <3> QED
      BY <3>4, <3>5, <3>6
  <2>14. new.size = Taken(lines, next)
    BY <1>6, <2>2, <2>7
  <2> QED
    BY <1>1, <2>8, <2>9, <2>12, <2>13, <2>14 DEF InMemory
<1> QED
  BY <1>14, <1>15, <1>16

-----------------------------------------------------------------------------
(* The ini file and what is made of it.                                    *)

(* There is memory for all of the file.                                    *)
Ample == Allocations(given.lines) <= PoolSize

(* The file in memory is the lines read so far, and the entry is of it.    *)
FileInv ==
    /\ Ample => InMemory(ini, given.lines, position)
    /\ Robust
    /\ entry # <<>> /\ entry[1].row = <<>> => entry[1].eit = load_eit(ini) /\ position = Len(given.lines)

(* Nothing is found before the first line.                                 *)
LEMMA NothingRead == ASSUME NEW lines PROVE InMemory(NewIni, lines, 0)
<1>1. PICK N, P : N = {NoName} /\ P = ParamElement(lines)
  OBVIOUS
<1>2. PICK secs : secs = <<Section(NoName)>>
  OBVIOUS
<1>3. NewIni.size = 2 /\ NewIni.sections = secs /\ Len(secs) = 1 /\ secs[1] = Section(NoName)
  BY <1>2 DEF NewIni
<1>4. PICK none : none = <<>>
  OBVIOUS
<1>5. none \in Seq(SecType(N, P)) /\ NoName \in N /\ Append(none, Section(NoName)) = secs
  BY <1>1, <1>2, <1>4
<1>6. \A name : Params(NewIni, name) = <<>>
  <2> SUFFICES ASSUME NEW name PROVE Params(NewIni, name) = <<>>
    OBVIOUS
  <2>1. FlattenSeq(Parts(secs, name)) = FlattenSeq(Parts(none, name))
    <3>1. none \in Seq(SecType(N, P)) /\ NoName \in N
      BY <1>5
    <3>2. FlattenSeq(Parts(Append(none, Section(NoName)), name)) = FlattenSeq(Parts(none, name))
      BY <3>1, SectionAdded
    <3>3. Append(none, Section(NoName)) = secs
      BY <1>5
    <3> QED
      BY <3>2, <3>3, Zenon
  <2>2. Parts(none, name) = <<>>
    <3>1. DOMAIN none = {}
      BY <1>4
    <3>2. Parts(none, name) = [k \in {} |-> IF none[k].name = name THEN none[k].params ELSE <<>>]
      BY <3>1 DEF Parts
    <3>3. <<>> = [k \in {} |-> IF none[k].name = name THEN none[k].params ELSE <<>>]
      OBVIOUS
    <3> QED
      BY <3>2, <3>3
  <2>3. FlattenSeq(<<>>) = <<>>
    BY DEF FlattenSeq
  <2>4. Params(NewIni, name) = FlattenSeq(Parts(secs, name))
    BY <1>3 DEF Params, Parts
  <2> QED
    BY <2>1, <2>2, <2>3, <2>4
<1>7. \A key : Position(<<>>, key) = 0
  <2> SUFFICES ASSUME NEW key PROVE Position(<<>>, key) = 0
    OBVIOUS
  <2>1. PICK empty : empty = <<>>
    OBVIOUS
  <2>2. PICK i : i = Position(empty, key)
    OBVIOUS
  <2>3. empty \in Seq(P) /\ Len(empty) = 0
    BY <2>1
  <2>4. i \in 0..Len(empty)
    BY <2>2, <2>3, PositionIs
  <2> QED
    BY <2>1, <2>2, <2>3, <2>4
<1>8. \A name, key : rechercherValeur(NewIni, name, key) = NoValue
  BY <1>6, <1>7 DEF rechercherValeur
<1>9. \A name, key : FirstValue(lines, WrittenSoFar(lines, name, key, 0)) = NoValue
  <2> SUFFICES ASSUME NEW name, NEW key PROVE FirstValue(lines, WrittenSoFar(lines, name, key, 0)) = NoValue
    OBVIOUS
  <2>1. WrittenSoFar(lines, name, key, 0) = {}
    BY DEF WrittenSoFar
  <2> QED
    BY <2>1 DEF FirstValue
<1>10. Taken(lines, 0) = 2
  BY TakenNext
<1>11. SectionAt(lines, 0) = NoName
  BY SectionAtNext
<1>12. \A name : \A k \in DOMAIN Params(NewIni, name) : Params(NewIni, name)[k].key # NoKey
  BY <1>6
<1>13. NewIni.sections[Len(NewIni.sections)].name = NoName
  BY <1>3 DEF Section
<1> QED
  BY <1>3, <1>8, <1>9, <1>10, <1>11, <1>12, <1>13 DEF InMemory

(* When the whole file is read, each value is the first in the file.       *)
LEMMA WholeFile ==
    ASSUME NEW lines, NEW n \in Nat, DOMAIN lines = 1..n, NEW file, InMemory(file, lines, n)
    PROVE  \A name, key : rechercherValeur(file, name, key) = FirstValue(lines, Written(lines, name, key))
<1> SUFFICES ASSUME NEW name, NEW key
             PROVE  rechercherValeur(file, name, key) = FirstValue(lines, Written(lines, name, key))
  OBVIOUS
<1>1. WrittenSoFar(lines, name, key, n) = Written(lines, name, key)
  BY DEF WrittenSoFar, Written
<1> QED
  BY <1>1 DEF InMemory

(* What is lacking is not in the file.                                     *)
LEMMA NotWritten ==
    ASSUME NEW lines, NEW n \in Nat, DOMAIN lines = 1..n, \A k \in DOMAIN lines : LineOK(lines[k]),
           NEW file, InMemory(file, lines, n), NEW asked, Lacks(file, asked)
    PROVE  \E q \in asked : Written(lines, q[1], <<q[2], Plain>>) = {}
<1>1. PICK q \in asked : \/ Crashes(file, q[1], <<q[2], Plain>>)
                         \/ rechercherValeur(file, q[1], <<q[2], Plain>>) = NoValue
  BY DEF Lacks
<1>2. ~Crashes(file, q[1], <<q[2], Plain>>)
  BY DEF Crashes, InMemory
<1>3. FirstValue(lines, Written(lines, q[1], <<q[2], Plain>>)) = NoValue
  BY <1>1, <1>2, WholeFile
<1>4. PICK W : W = Written(lines, q[1], <<q[2], Plain>>)
  OBVIOUS
<1>5. W = {} <=> FirstValue(lines, W) = NoValue
  BY <1>4, WrittenHasValue
<1> QED
  BY <1>3, <1>4, <1>5

(* The components up to a gap.                                             *)
LEMMA ComponentsAre ==
    ASSUME NEW file, NEW s \in Sections, NEW k \in 1..ComponentSize
    PROVE  load_eit(file)[s].component[k] # Component(0) <=>
              \A j \in 1..k : \A p \in {"stream_content", "set_component_tag", "text"} :
                  rechercherValeur(file, Components, <<p, j>>).length > 0
<1> DEFINE Found(p, j) == rechercherValeur(file, Components, <<p, j>>)
           three == {"stream_content", "set_component_tag", "text"}
           complete == {j \in 1..ComponentSize : Given(file, Components, three, j)}
           read == Run(1, ComponentSize, complete)
           new(j) == [stream |-> convertStrToInt(Found("stream_content", j)), tag |-> Found("set_component_tag", j).dec % 256,
                      text |-> strncpy(Found("text", j).length, TextSize)]
<1>1. load_components(file) = [j \in 1..ComponentSize |-> IF j \in read THEN new(j) ELSE Component(0)]
  BY DEF load_components
<1>2. load_eit(file)[s].component = load_components(file)
  <2>1. \A short : load_section(file, short).component = load_components(file)
    BY DEF load_section, Zeroed, SectionOf
  <2>2. PICK a, b : a = load_section(file, "SHORT_EVENT_DESCRIPTOR") /\ b = load_section(file, "SHORT_EVENT_FOLLOWING_DESCRIPTOR")
    OBVIOUS
  <2>3. load_eit(file) = [section0 |-> [a EXCEPT !.ca = load_ca(file)], section1 |-> b]
    BY <2>2 DEF load_eit
  <2>4. a.component = load_components(file) /\ b.component = load_components(file)
    BY <2>1, <2>2
  <2>5. [a EXCEPT !.ca = load_ca(file)].component = a.component
    <3>1. "component" \in DOMAIN a
      BY <2>2 DEF load_section, Zeroed, SectionOf
    <3> QED
      BY <3>1
  <2>6. s = "section0" \/ s = "section1"
    BY DEF Sections
  <2>7. PICK c : c = [a EXCEPT !.ca = load_ca(file)]
    OBVIOUS
  <2>8. load_eit(file) = [section0 |-> c, section1 |-> b]
    BY <2>3, <2>7
  <2>9. load_eit(file)["section0"] = c /\ load_eit(file)["section1"] = b
    BY <2>8
  <2>10. c.component = load_components(file)
    BY <2>4, <2>5, <2>7
  <2> QED
    BY <2>4, <2>6, <2>9, <2>10
<1>3. k \in read <=> \A j \in 1..k : \A p \in three : Found(p, j).length > 0
  <2>1. PICK n \in Nat : n = ComponentSize /\ k \in 1..n
    BY SizesTyped
  <2>2. 1 .. 1 + n - 1 = 1..n /\ 1..k \subseteq 1..n
    BY <2>1
  <2>3. \A j : Given(file, Components, three, j) <=> \A p \in three : Found(p, j).length > 0
    BY DEF Given
  <2>4. k \in read <=> 1..k \subseteq complete
    BY <2>1, <2>2 DEF Run
  <2>5. 1..k \subseteq complete <=> \A j \in 1..k : Given(file, Components, three, j)
    BY <2>1, <2>2
  <2> QED
    BY <2>3, <2>4, <2>5
<1>4. ASSUME k \in read PROVE new(k) # Component(0)
  <2>1. k \in 1..k
    BY SizesTyped
  <2>2. Found("text", k).length > 0
    BY <1>3, <1>4, <2>1
  <2>3. PICK v : v = Found("text", k).length
    OBVIOUS
  <2>4. strncpy(v, TextSize) # 0
    <3>1. v > 0 /\ v # 0
      BY <2>2, <2>3
    <3>2. TextSize # 0
      BY SizesTyped
    <3> QED
      BY <3>1, <3>2 DEF strncpy, Lesser
  <2>5. new(k).text # 0 /\ Component(0).text = 0
    BY <2>3, <2>4 DEF Component
  <2> QED
    BY <2>5
<1> HIDE DEF read, new
<1>5. load_components(file)[k] = IF k \in read THEN new(k) ELSE Component(0)
  BY <1>1
<1> QED
  BY <1>2, <1>3, <1>4, <1>5

(* Nothing is read at first.                                               *)
LEMMA FileInit == SourcesInit => FileInv
<1> SUFFICES ASSUME SourcesInit PROVE FileInv
  OBVIOUS
<1>1. ini = NewIni /\ position = 0 /\ entry = <<>> /\ at = "load"
  BY DEF SourcesInit
<1>2. InMemory(ini, given.lines, position)
  BY <1>1, NothingRead
<1> QED
  BY <1>1, <1>2 DEF FileInv, Robust

(* A line more, and the entry made when there is none left.                *)
LEMMA FileStep == TypeInv /\ FileInv /\ [SourcesNext]_vars => FileInv'
<1> SUFFICES ASSUME TypeInv, FileInv, [SourcesNext]_vars PROVE FileInv'
  OBVIOUS
<1>1. PICK lines, n : lines = given.lines /\ n = Len(lines) /\ n \in Nat /\ DOMAIN lines = 1..n
                      /\ \A k \in DOMAIN lines : LineOK(lines[k])
  BY SourcesAssumption DEF TypeInv, Loaded, SourcesAssumption
<1>2. position \in 0..n /\ IniOK(ini, lines)
  BY <1>1 DEF TypeInv, Loaded
<1>3. given' = given /\ (Ample' <=> Ample) /\ (~Ample => Robust')
  <2>1. given' = given
    BY DEF SourcesNext, LoadLine, CannotOpen, Configure, Edit, convertStringsToEitStruct, Publish,
           add_eit, Tick, starting, vars
  <2>2. Ample' <=> Ample
    BY <2>1 DEF Ample
  <2>3. ~Ample' => Robust'
    BY <2>1, <2>2 DEF Robust, Ample
  <2> QED
    BY <2>1, <2>2, <2>3
<1>4. ASSUME ini' = ini, position' = position,
             at' = "crashed" => at = "crashed",
             entry' = entry \/ (entry' # <<>> /\ entry'[1].row # <<>>)
      PROVE  FileInv'
  <2>1. Ample' => InMemory(ini, given.lines, position)'
    BY <1>3, <1>4 DEF FileInv
  <2>2. Robust'
    BY <1>3, <1>4 DEF FileInv, Robust
  <2> QED
    BY <1>3, <1>4, <2>1, <2>2 DEF FileInv
<1>5. CASE LoadLine
  <2>1. /\ position < n /\ position' = position + 1 /\ ini' = extraireParamsValeurs(ini, lines[position + 1])
        /\ at = "load" /\ at' = at /\ entry' = entry
    BY <1>1, <1>5 DEF LoadLine
  <2>2. PICK next \in Nat : next = position + 1 /\ next \in 1..n /\ position \in Nat
    BY <1>1, <1>2, <2>1
  <2>3. Ample => InMemory(ini', lines, next)
    <3> SUFFICES ASSUME Ample PROVE InMemory(ini', lines, next)
      OBVIOUS
    <3>1. Allocations(lines) <= PoolSize /\ InMemory(ini, lines, position)
      BY <1>1 DEF Ample, FileInv
    <3>2. PICK file, p : file = ini /\ p = position
      OBVIOUS
    <3>3. p \in Nat /\ next = p + 1 /\ InMemory(file, lines, p) /\ IniOK(file, lines)
      BY <1>2, <2>2, <3>1, <3>2
    <3>4. InMemory(extraireParamsValeurs(file, lines[next]), lines, next)
      BY <1>1, <2>2, <3>1, <3>3, LineRemembered
    <3> QED
      BY <2>1, <2>2, <3>2, <3>4
  <2>4. Ample' => InMemory(ini, given.lines, position)'
    BY <1>1, <1>3, <2>1, <2>2, <2>3
  <2>5. Robust'
    BY <2>1 DEF Robust
  <2>6. entry # <<>> => entry[1].row # <<>>
    BY <1>1, <2>1 DEF FileInv
  <2> QED
    BY <2>1, <2>4, <2>5, <2>6 DEF FileInv
<1>6. CASE CannotOpen \/ Edit \/ convertStringsToEitStruct \/ add_eit \/ Tick \/ UNCHANGED vars
  <2>1. ini' = ini /\ position' = position /\ entry' = entry
    BY <1>6 DEF CannotOpen, Edit, convertStringsToEitStruct, add_eit, Tick, starting, vars
  <2>2. at' = "crashed" => at = "crashed"
    <3>1. CASE convertStringsToEitStruct
      BY <3>1, FailIs DEF convertStringsToEitStruct, popen, fread, Convert, Section0, Section1, ParseSection, Fail
    <3>2. CASE CannotOpen \/ Edit \/ add_eit \/ Tick \/ UNCHANGED vars
      BY <3>2 DEF CannotOpen, Edit, add_eit, Tick, vars
    <3> QED
      BY <1>6, <3>1, <3>2
  <2> QED
    BY <1>4, <2>1, <2>2
<1>7. CASE Configure
  <2>1. /\ at = "load" /\ position = n /\ ini' = ini /\ position' = position
        /\ at' = "crashed" => Lacks(ini, Configuration(given.who)) \/ Lacks(ini, Needed)
        /\ entry' = entry \/ entry' = <<[eit |-> load_eit(ini), row |-> <<>>]>>
    BY <1>1, <1>7 DEF Configure, starting
  <2>2. Ample' => InMemory(ini, given.lines, position)'
    BY <1>3, <2>1 DEF FileInv
  <2>3. ASSUME at' = "crashed", Ample
        PROVE  \E q \in Configuration(given.who) \union Needed : Written(lines, q[1], <<q[2], Plain>>) = {}
    <3>1. InMemory(ini, lines, n)
      BY <1>1, <2>1, <2>3 DEF FileInv
    <3>2. PICK asked \in {Configuration(given.who), Needed} : Lacks(ini, asked)
      BY <2>1, <2>3
    <3>3. \E q \in asked : Written(lines, q[1], <<q[2], Plain>>) = {}
      BY <1>1, <3>1, <3>2, NotWritten
    <3> QED
      BY <3>2, <3>3
  <2>4. Robust'
    BY <1>1, <1>3, <2>3 DEF Robust, Ample
  <2>5. (entry # <<>> /\ entry[1].row = <<>> => entry[1].eit = load_eit(ini) /\ position = Len(given.lines))'
    <3>1. ASSUME entry' = <<[eit |-> load_eit(ini), row |-> <<>>]>>
          PROVE  entry'[1].eit = load_eit(ini')
      <4>1. entry'[1].eit = load_eit(ini)
        BY <3>1
      <4> QED
        BY <2>1, <4>1
    <3> QED
      BY <1>1, <1>3, <2>1, <3>1 DEF FileInv
  <2> QED
    BY <2>2, <2>4, <2>5 DEF FileInv
<1>8. CASE Publish
  <2>1. /\ ini' = ini /\ position' = position /\ at = "publish" /\ at' = "idle"
        /\ entry' = <<[eit |-> eit_info, row |-> row]>>
    BY <1>8 DEF Publish, starting
  <2>2. row # <<>>
    BY <2>1 DEF TypeInv, RowOK
  <2>3. entry' # <<>> /\ entry'[1].row = row
    BY <2>1
  <2> QED
    BY <1>4, <2>1, <2>2, <2>3
<1> QED
  BY <1>5, <1>6, <1>7, <1>8 DEF SourcesNext

(***************************************************************************)
(* The program understands its ini file, whatever its lines are and in     *)
(* whatever order: unless memory runs out, each parameter has the value of *)
(* its first line in a section with the name, the program crashes only     *)
(* over a parameter that is in no line, and the entry has the components   *)
(* of the file up to the first gap (extraireParamsValeurs,                 *)
(* rechercherValeur, load_eit).                                            *)
(***************************************************************************)
THEOREM FileUnderstood == SourcesSpec => []EntryFromFile
<1>1. ASSUME TypeInv, FileInv PROVE EntryFromFile
  <2>1. PICK lines, n : lines = given.lines /\ n = Len(lines) /\ n \in Nat /\ DOMAIN lines = 1..n
    BY <1>1, SourcesAssumption DEF TypeInv, Loaded, SourcesAssumption
  <2>2. ASSUME Ample, position = n
        PROVE  \A name, key : rechercherValeur(ini, name, key) = FirstValue(lines, Written(lines, name, key))
    <3>1. InMemory(ini, lines, n)
      BY <1>1, <2>1, <2>2 DEF FileInv
    <3> QED
      BY <2>1, <3>1, WholeFile
  <2>3. IniFound
    BY <2>1, <2>2 DEF IniFound, Ample
  <2>4. ASSUME entry # <<>>, entry[1].row = <<>>, Ample, NEW s \in Sections, NEW k \in 1..ComponentSize
        PROVE  entry[1].eit[s].component[k] # Component(0) <=> \A j \in 1..k : Described(j)
    <3>1. entry[1].eit = load_eit(ini) /\ position = n
      BY <1>1, <2>1, <2>4 DEF FileInv
    <3>2. \A j : Described(j) <=> \A p \in {"stream_content", "set_component_tag", "text"} :
                                      rechercherValeur(ini, Components, <<p, j>>).length > 0
      BY <2>1, <2>2, <2>4, <3>1 DEF Described
    <3>3. load_eit(ini)[s].component[k] # Component(0) <=>
             \A j \in 1..k : \A p \in {"stream_content", "set_component_tag", "text"} :
                 rechercherValeur(ini, Components, <<p, j>>).length > 0
      BY ComponentsAre
    <3> QED
      BY <3>1, <3>2, <3>3
  <2>5. Robust
    BY <1>1 DEF FileInv
  <2> QED
    BY <2>3, <2>4, <2>5 DEF EntryFromFile, Ample
<1> QED
  BY <1>1, TypeInit, TypeStep, FileInit, FileStep, PTL DEF SourcesSpec
===============================================================================
