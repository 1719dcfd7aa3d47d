----------------------------- MODULE MCEitSources -----------------------------
(* Instances of the sources of an entry, for TLC: two components, three     *)
(* contents and two conditional access systems stand for the program's      *)
(* three, ten and ten.                                                      *)
EXTENDS EitSources

(* Events of a video: some without what others have.                       *)
Event(service, id, start, components, contents, age) ==
    [service |-> service, id |-> id, starttime |-> start, duration |-> id + 3,
     SHORT_EVENT_DESC |-> IF id = 3 THEN <<>> ELSE <<id, 9>>,
     PARENTAL_RATING_DESC |-> IF age = 0 THEN <<>> ELSE <<[age |-> age - 1, country_code |-> 3]>>,
     CONTENT_DESC |-> contents, COMPONENT_DESC |-> components]
Part(tag) == [stream |-> tag + 5, tag |-> tag, text |-> tag + 2]
Parts == {<<>>, <<Part(1)>>, <<Part(0), Part(2)>>, <<Part(2), Part(1), Part(3)>>}
Kinds == {<<>>, <<[level_1 |-> 2, level_2 |-> 1, user |-> 0], Content(1)>>, <<Content(0), Content(1)>>}

Doc(size, programs, events) == [size |-> size, malformed |-> FALSE, programs |-> programs, events |-> events]
Plainly(service, id) == Event(service, id, id, <<Part(id)>>, <<>>, id)
Lists == {<<1>>, <<1, 2>>, <<1, 3>>, <<2, 3>>, <<1, 2, 3>>, <<0, 1>>, <<2, 1>>, <<1, 0>>, <<1, 0, 2>>}
Shaped == {[parts |-> p, kinds |-> <<>>, age |-> 4] : p \in Parts}
          \union {[parts |-> <<Part(1)>>, kinds |-> k, age |-> a] : k \in Kinds, a \in {0, 1}}
Docs ==
    {Doc(1, programs, [k \in DOMAIN ids |-> Plainly(1 + (k % 2) * other, ids[k])]) :
        programs \in {<<1>>, <<2, 1>>}, ids \in Lists, other \in {0, 1}}
    \union {Doc(1, programs, <<Plainly(1, 1)>>) : programs \in {<<>>, <<0>>}}
    \union {Doc(size, <<1>>, <<Plainly(1, 1), Plainly(1, 2)>>) : size \in {0, 4, 7, 8, 17}}
    \union {[Doc(1, <<1>>, <<>>) EXCEPT !.malformed = TRUE]}
    \union {Doc(1, <<1>>, <<Event(1, 1, 7, x.parts, x.kinds, x.age), Event(1, 2, 4, x.parts, x.kinds, x.age)>>) :
               x \in Shaped}
    \union {Doc(1, <<1>>, <<Plainly(1, 1), Event(1, 2, start, <<Part(3)>>, <<Content(1)>>, 0)>>) : start \in {0, 4}}
    \union {Doc(1, <<1>>, <<Plainly(1, 1), Event(1, 1, 5, <<Part(3)>>, <<Content(1)>>, 0), Plainly(1, 2)>>)}
Text0 == JsonText(Word(1))
Video(doc, section0, section1) ==
    [to_inject |-> 0, section0 |-> section0, section1 |-> section1, sound |-> TRUE, doc |-> doc]

(* JSON as an operator writes it, and the same with one value spoilt.      *)
Hexa == JsonText(Text(4, 0, 171, TRUE))
Object == convert_eit_struct_to_json(Zeroed)
Full ==
    [Object EXCEPT
        !.starttime = JsonInt(3),
        !.SHORT_EVENT_DESCRIPTOR.text = JsonText(Word(5)),
        !.EXTENDED_EVENT_DESCRIPTOR =
            [type |-> "object", text |-> Text0, items |-> JsonArray(<<[type |-> "object", text |-> Text0]>>)],
        !.PARENTAL_RATING_DESCRIPTOR.age = JsonInt(300),
        !.COMPONENT_DESCRIPTOR =
            JsonArray(<<[type |-> "object", stream |-> Hexa, tag |-> JsonInt(257), text |-> Text0],
                        [type |-> "object", stream |-> JsonInt(5), tag |-> None, text |-> None], None>>),
        !.CONTENT_DESCRIPTOR =
            JsonArray(<<[type |-> "object", level_1 |-> JsonInt(17), level_2 |-> JsonText(Decimal(2)), user |-> None]>>),
        !.CA_IDENTIFIER_DESCRIPTOR = JsonArray(<<Hexa, JsonInt(70000), None>>),
        !.SHORT_SMOOTHING_BUFFER_DESCRIPTOR = [type |-> "object", rate |-> JsonText(Decimal(4))]]
True == [type |-> "boolean"]
Spoilt ==
    {True, Malformed, JsonInt(1), JsonArray(<<>>),
     [Full EXCEPT !.duration = Text0],
     [Full EXCEPT !.starttime = Text0],
     [Full EXCEPT !.SHORT_EVENT_DESCRIPTOR = Text0],
     [Full EXCEPT !.SHORT_EVENT_DESCRIPTOR.text = JsonInt(1)],
     [Full EXCEPT !.EXTENDED_EVENT_DESCRIPTOR.text = True],
     [Full EXCEPT !.EXTENDED_EVENT_DESCRIPTOR.items = True],
     [Full EXCEPT !.EXTENDED_EVENT_DESCRIPTOR.items.items[1] = True],
     [Full EXCEPT !.PARENTAL_RATING_DESCRIPTOR.age = Text0],
     [Full EXCEPT !.PARENTAL_RATING_DESCRIPTOR.country_code = JsonInt(1)],
     [Full EXCEPT !.COMPONENT_DESCRIPTOR = True],
     [Full EXCEPT !.COMPONENT_DESCRIPTOR.items[1].tag = Text0],
     [Full EXCEPT !.COMPONENT_DESCRIPTOR.items[2].stream = True],
     [Full EXCEPT !.CONTENT_DESCRIPTOR.items[1].level_1 = True],
     [Full EXCEPT !.CONTENT_DESCRIPTOR.items[1].user = True],
     [Full EXCEPT !.CA_IDENTIFIER_DESCRIPTOR.items[2] = True],
     [Full EXCEPT !.SHORT_SMOOTHING_BUFFER_DESCRIPTOR.rate = Hexa],
     [Full EXCEPT !.SHORT_SMOOTHING_BUFFER_DESCRIPTOR.rate = JsonInt(2)]}
Written0 == {None, Object, Full, [Full EXCEPT !.duration = JsonInt(2)]} \union Spoilt
Database(section0, section1) ==
    [to_inject |-> 1, section0 |-> section0, section1 |-> section1,
     sound |-> {section0, section1} \intersect Spoilt = {}, doc |-> Doc(0, <<>>, <<>>)]

AllRows ==
    {Video(doc, Text0, Text0) : doc \in Docs}
    \union {Video(Doc(1, <<1>>, <<Plainly(1, 1), Plainly(1, 2)>>), s, t) : s \in {None, Text0}, t \in {None, Text0}}
    \union {Database(s, Object) : s \in Written0} \union {Database(Full, s) : s \in Written0}
FewRows ==
    {Database(Full, Object), Database(Object, Full), Database(True, Object), Database(None, Object),
     Video(Doc(9, <<1>>, <<Plainly(1, 1), Plainly(1, 2)>>), Text0, Text0), Video(Doc(9, <<>>, <<>>), Text0, Text0)}

(* Ini files: one with all that is asked for, and what may happen to it.   *)
Given1(prefix, value) == ParamLine(<<prefix, Plain>>, value)
Indexed(prefix, k, value) == ParamLine(<<prefix, k>>, value)
CompLines(k, text) ==
    <<Indexed("stream_content", k, Text(4, 0, 5, TRUE)), Indexed("set_component_tag", k, Decimal(46)),
      Indexed("text", k, text)>>
Start0 == <<SectionLine("SHARED_MEMORY"), Given1("streamingProvider", Decimal(100)),
            SectionLine("MULTICAT_LOGS"), Given1("file", Word(2))>>
Eit0 ==
    <<SectionLine("SHORT_EVENT_DESCRIPTOR"), Given1("event", Word(4)),
      SectionLine("SHORT_EVENT_FOLLOWING_DESCRIPTOR"), Given1("event", Word(2)),
      SectionLine("EXTENDED_EVENT_DESCRIPTOR"), Given1("text", Word(1)), Indexed("text", 0, Word(1)),
      SectionLine("PARENTAL_RATING_DESCRIPTOR"), Given1("country_code", Word(3)), Given1("age", Decimal(10))>>
Parts0 == <<SectionLine(Components)>>
Rest0 ==
    <<SectionLine(Contents), Indexed("level_1", 1, Decimal(1)), Indexed("level_2", 1, Decimal(2)),
      Indexed("user", 1, Decimal(78)),
      SectionLine(Cas), Indexed("CA_system_id", 1, Text(6, 0, 43707, TRUE))>>
File(parts) == Start0 \o Eit0 \o Parts0 \o parts \o Rest0
Good0 == File(CompLines(1, Word(2)) \o CompLines(2, Word(1)))
Ends0 == {CompLines(2, Word(1)), CompLines(1, Word(0)) \o CompLines(2, Word(1)),
           CompLines(1, Word(1)) \o CompLines(3, Word(1)), CompLines(1, Word(0)) \o CompLines(1, Word(1)),
           SubSeq(CompLines(1, Word(1)), 1, 2)}
Again(line) == IF line.equals THEN [line EXCEPT !.value = Word(3)] ELSE line
Files ==
    {Good0, Good0 \o Eit0, Eit0 \o Good0, Good0 \o [k \in DOMAIN Eit0 |-> Again(Eit0[k])],
     SubSeq(Eit0, 3, 10) \o File(<<>>) \o SubSeq(Eit0, 1, 2), RemoveAt(Good0, 6) \o SubSeq(Eit0, 1, 2)}
    \union {File(end) : end \in Ends0}
    \union {RemoveAt(Good0, k) : k \in DOMAIN Good0}
    \union {[Good0 EXCEPT ![k] = CommentLine(@)] : k \in DOMAIN Good0}
    \union {[Good0 EXCEPT ![k].name = "x"] : k \in DOMAIN Good0}
    \union {Good0 \o SubSeq(Good0, 1, k) : k \in {12, 13, 14}}

Supervisors == <<SectionLine("SHARED_MEMORY"), Given1("streamingProvider", Decimal(100)),
                 SectionLine("SUPERVISOR_LOGS"), Given1("file", Word(2)),
                 SectionLine("SUPERVISOR"), Given1("sleep", Decimal(10)), Given1("port", Decimal(0)),
                 SectionLine("NETWORK"), Given1("ttl", Decimal(0))>>
SomeRows == [none |-> {}, all |-> AllRows, few |-> FewRows]
Case0(w, l, p, r, e) == [who |-> w, lines |-> l, popen |-> p, rows |-> r, edits |-> e]
SomeCases ==
    {Case0("supervisor", Supervisors, TRUE, "all", 1), Case0("supervisor", Supervisors, TRUE, "few", 3),
     Case0("supervisor", Supervisors, FALSE, "few", 1)}
    \union {Case0("supervisor", RemoveAt(Supervisors, k), TRUE, "none", 0) : k \in {2, 4, 6, 9}}
    \union {Case0(who, f, TRUE, "none", 0) : who \in {"multicat", "viewer"}, f \in Files}
===============================================================================
