-------------------------------- MODULE EitXml --------------------------------
(***************************************************************************)
(* eit_xml.c: the events of a video, as dvb_print_si prints them, become   *)
(* the present (section 0) and the following (section 1) event.            *)
(*                                                                         *)
(* A document has the program numbers of the PAT, and the EVENT elements   *)
(* in order, each with the service of its EIT element and, for each kind   *)
(* of descriptor, those that it has.  A number that is not there is 0.     *)
(***************************************************************************)
EXTENDS EitSection

CONSTANT ReadSize   \* size of the buffer that the document is read with

ASSUME XmlAssumption == ReadSize \in Nat \ {0}

(* What dvb_print_si prints: the numbers of descriptors fit in their bits,  *)
(* and a country code in its field.                                        *)
EventElement ==
    [service : Nat, id : Nat, starttime : Nat, duration : Nat,
     SHORT_EVENT_DESC : Seq(Nat),
     PARENTAL_RATING_DESC : Seq([age : 0..255, country_code : 0..TextSize]),
     CONTENT_DESC : Seq([level_1 : 0..15, level_2 : 0..15, user : 0..255]),
     COMPONENT_DESC : Seq([stream : 0..255, tag : 0..255, text : Nat])]
Document == [size : Nat, malformed : BOOLEAN, programs : Seq(Nat), events : Seq(EventElement)]

(***************************************************************************)
(* extract_eti_xml_from_ts: the document is read in pieces into memory     *)
(* that is doubled in time.                                                *)
(***************************************************************************)
NoText == [size |-> 0, comalloc |-> ReadSize]

\* Faulty variant: the new piece is not counted.
Read_Late(text, chread) ==
    [size |-> text.size + chread,
     comalloc |-> IF text.size >= text.comalloc THEN 2 * text.comalloc ELSE text.comalloc]

Read(text, chread) ==
    [size |-> text.size + chread,
     comalloc |-> IF text.size + chread >= text.comalloc THEN 2 * text.comalloc ELSE text.comalloc]

(***************************************************************************)
(* convert_xml_to_eit_struct                                               *)
(***************************************************************************)
Invalid == 0
build_program_number(doc) == IF doc.programs = <<>> THEN Invalid ELSE Head(doc.programs)

Events(doc, program) == Chosen(doc.events, {k \in DOMAIN doc.events : doc.events[k].service = program})

\* Faulty variant: the following event is the last one that is near.
Nearer_Far(ids, e) ==
    LET least == IF ids.section0 = Invalid THEN e.id ELSE Lesser(e.id, ids.section0)
    IN  [section0 |-> least,
         section1 |-> IF ids.section1 = Invalid \/ e.id <= least + 2 THEN e.id ELSE ids.section1]

(* The least number, and the last one that is at most one more than the    *)
(* least so far.                                                           *)
Nearer(ids, e) ==
    LET least == IF ids.section0 = Invalid THEN e.id ELSE Lesser(e.id, ids.section0)
    IN  [section0 |-> least,
         section1 |-> IF ids.section1 = Invalid \/ e.id <= least + 1 THEN e.id ELSE ids.section1]

build_sections_event_id(es) ==
    LET ids[k \in 0..Len(es)] ==
          IF k = 0 THEN [section0 |-> Invalid, section1 |-> Invalid] ELSE Nearer(ids[k-1], es[k])
    IN ids[Len(es)]

(* The elements of a kind in all the events with the number: an event that *)
(* the video repeats is there several times.  Times are those of the first.*)
Of(es, id) == Chosen(es, {k \in DOMAIN es : es[k].id = id})
get_xml_node_set(es, kind) == FlattenSeq([k \in DOMAIN es |-> es[k][kind]])
FirstOf(s, default) == IF s = <<>> THEN default ELSE Head(s)

build_starttime_duration(es) == Head(es).starttime # 0 /\ Head(es).duration # 0
build_short_event(es) == strncpy(FirstOf(get_xml_node_set(es, "SHORT_EVENT_DESC"), 0), TextSize + 1)
build_parental_rating(es) == FirstOf(get_xml_node_set(es, "PARENTAL_RATING_DESC"), Rating(0))

(* Contents are counted with the size of the other array.                  *)
build_content_desc(es) ==
    LET contents == UpToSize(get_xml_node_set(es, "CONTENT_DESC"), ComponentSize)
    IN  Filled(Times(ContentSize, Content(0)), [k \in DOMAIN contents |-> [contents[k] EXCEPT !.user = 0]])
build_component_desc(es) ==
    Filled(Times(ComponentSize, Component(0)), get_xml_node_set(es, "COMPONENT_DESC"))

(* Of the rest of the section nothing is set.                              *)
build_eit_section(section, id, es) ==
    [section EXCEPT !.event_id = id, !.starttime = Head(es).starttime, !.duration = Head(es).duration,
                    !.short = build_short_event(es), !.rating = build_parental_rating(es),
                    !.content = build_content_desc(es), !.component = build_component_desc(es)]

Failed == [result |-> "failed"]
convert_xml_to_eit_struct(eit, doc) ==
    LET program == build_program_number(doc)
        es == Events(doc, program)
        ids == build_sections_event_id(es)
    IN  IF \/ doc.malformed
           \/ program = Invalid
           \/ Invalid \in {ids.section0, ids.section1}
           \/ \E s \in DOMAIN ids : ~build_starttime_duration(Of(es, ids[s]))
        THEN Failed
        ELSE [result |-> "done",
              eit |-> [s \in DOMAIN ids |-> build_eit_section(eit[s], ids[s], Of(es, ids[s]))]]
===============================================================================
