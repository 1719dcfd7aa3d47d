------------------------------- MODULE EitJson -------------------------------
(***************************************************************************)
(* json_parsing.c: sections from JSON, and JSON from sections.             *)
(*                                                                         *)
(* A value is a record with its type: an "int" has val and a "string" text; *)
(* an "array" has items; an "object" has the fields that the parser knows. *)
(* A field that is not there is None.                                      *)
(***************************************************************************)
EXTENDS EitSection

None == [type |-> "none"]
JsonInt(n) == [type |-> "int", val |-> n]
JsonText(t) == [type |-> "string", text |-> t]
JsonArray(s) == [type |-> "array", items |-> s]
Malformed == [type |-> "NULL"]

(* What json-c may make of a text; that no number is negative is left to   *)
(* those who write the database.                                           *)
ScalarOK(x) ==
    (x.type = "int" => x.val \in Nat) /\ (x.type = "string" => x.text \in TextElement)
ObjectOK(x, fields) == x.type = "object" => \A f \in fields : ScalarOK(x[f])
ArrayOK(x, Test(_)) ==
    x.type = "array" => x.items \in Seq(Range(x.items)) /\ \A k \in DOMAIN x.items : Test(x.items[k])
ItemOK(i) == ObjectOK(i, {"text"})
ComponentOK(c) == ObjectOK(c, {"stream", "tag", "text"})
ContentOK(c) == ObjectOK(c, {"level_1", "level_2", "user"})
JsonOK(o) ==
    o.type = "object" =>
        /\ ScalarOK(o.starttime) /\ ScalarOK(o.duration)
        /\ ObjectOK(o.SHORT_EVENT_DESCRIPTOR, {"text"})
        /\ ObjectOK(o.EXTENDED_EVENT_DESCRIPTOR, {"text"})
        /\ o.EXTENDED_EVENT_DESCRIPTOR.type = "object" => ArrayOK(o.EXTENDED_EVENT_DESCRIPTOR.items, ItemOK)
        /\ ObjectOK(o.PARENTAL_RATING_DESCRIPTOR, {"age", "country_code"})
        /\ ObjectOK(o.SHORT_SMOOTHING_BUFFER_DESCRIPTOR, {"rate"})
        /\ ArrayOK(o.COMPONENT_DESCRIPTOR, ComponentOK)
        /\ ArrayOK(o.CONTENT_DESCRIPTOR, ContentOK)
        /\ ArrayOK(o.CA_IDENTIFIER_DESCRIPTOR, ScalarOK)

(***************************************************************************)
(* convert_eit_struct_to_json: a section without its number, its start,    *)
(* and what only JSON can set; one content, and the components with a tag. *)
(***************************************************************************)
content_to_json(c) ==
    [type |-> "object", level_1 |-> JsonInt(c.level_1), level_2 |-> JsonInt(c.level_2), user |-> None]

component_to_json(c) ==
    [type |-> "object", stream |-> JsonInt(c.stream), tag |-> JsonInt(c.tag), text |-> JsonText(Word(c.text))]

\* Faulty variant: the array ends at the first component without a tag.
Tagged_Until(components) ==
    SubSeq(components, 1, Cardinality({k \in DOMAIN components : \A j \in 1..k : components[j].tag # 0}))

Tagged(components) == Chosen(components, {k \in DOMAIN components : components[k].tag # 0})

rating_to_json(r) ==
    [type |-> "object", age |-> JsonInt(r.age), country_code |-> JsonText(Word(r.country_code))]

convert_eit_struct_to_json(s) ==
    LET first == s.content[1]
        tagged == Tagged(s.component) IN
    [type |-> "object",
     duration |-> JsonInt(s.duration),
     SHORT_EVENT_DESCRIPTOR |-> [type |-> "object", text |-> JsonText(Word(s.short))],
     PARENTAL_RATING_DESCRIPTOR |->
        IF s.rating.age = 0 THEN [type |-> "object", age |-> None, country_code |-> None]
        ELSE rating_to_json(s.rating),
     CONTENT_DESCRIPTOR |->
        JsonArray(IF first.level_1 = 0 THEN <<>> ELSE <<content_to_json(first)>>),
     COMPONENT_DESCRIPTOR |-> JsonArray([k \in DOMAIN tagged |-> component_to_json(tagged[k])]),
     starttime |-> None, EXTENDED_EVENT_DESCRIPTOR |-> None,
     CA_IDENTIFIER_DESCRIPTOR |-> None, SHORT_SMOOTHING_BUFFER_DESCRIPTOR |-> None]

(***************************************************************************)
(* json_parse: which values are refused ...                                *)
(***************************************************************************)
Has(x, types) == x.type \in types \union {"none"}
IsInt(x) == Has(x, {"int"})
IsString(x) == Has(x, {"string"})
IsNumber(x) == Has(x, {"int", "string"})

Good(x, type, Test(_)) == Has(x, {type}) /\ (x.type = type => Test(x))
\* Items that there is no room for are not looked at.
Fits(x, n) == IF x.type = "none" THEN <<>> ELSE UpToSize(x.items, n)
AllGood(x, n, Test(_)) == LET TestAll(y) == \A k \in DOMAIN Fits(y, n) : Test(y.items[k])
                          IN  Good(x, "array", TestAll)

GoodComponent(c) == c.type = "object" /\ IsNumber(c.stream) /\ IsInt(c.tag) /\ IsString(c.text)
GoodContent(c) == c.type = "object" /\ \A x \in {c.level_1, c.level_2, c.user} : IsNumber(x)
GoodItem(i) == i.type = "object" /\ IsString(i.text)
GoodCa(x) == x.type \in {"int", "string"}
GoodShort(x) == IsString(x.text)
GoodExtended(x) == IsString(x.text) /\ AllGood(x.items, ItemSize, GoodItem)
GoodRating(x) == IsInt(x.age) /\ IsString(x.country_code)
isNumber(text) == ~text.prefixed
GoodLeak(x) == IsString(x.rate) /\ (x.rate.type = "string" => isNumber(x.rate.text))

\* Faulty variant: the numbers of contents are not looked at.
Accepted_AnyContent(o) ==
    /\ o.type = "object"
    /\ Good(o.SHORT_EVENT_DESCRIPTOR, "object", GoodShort)
    /\ Good(o.EXTENDED_EVENT_DESCRIPTOR, "object", GoodExtended)
    /\ AllGood(o.COMPONENT_DESCRIPTOR, ComponentSize, GoodComponent)
    /\ Good(o.PARENTAL_RATING_DESCRIPTOR, "object", GoodRating)
    /\ Has(o.CONTENT_DESCRIPTOR, {"array"})
    /\ AllGood(o.CA_IDENTIFIER_DESCRIPTOR, CaSize, GoodCa)
    /\ Good(o.SHORT_SMOOTHING_BUFFER_DESCRIPTOR, "object", GoodLeak)
    /\ IsInt(o.starttime) /\ IsInt(o.duration)

Accepted(o) ==
    /\ o.type = "object"
    /\ Good(o.SHORT_EVENT_DESCRIPTOR, "object", GoodShort)
    /\ Good(o.EXTENDED_EVENT_DESCRIPTOR, "object", GoodExtended)
    /\ AllGood(o.COMPONENT_DESCRIPTOR, ComponentSize, GoodComponent)
    /\ Good(o.PARENTAL_RATING_DESCRIPTOR, "object", GoodRating)
    /\ AllGood(o.CONTENT_DESCRIPTOR, ContentSize, GoodContent)
    /\ AllGood(o.CA_IDENTIFIER_DESCRIPTOR, CaSize, GoodCa)
    /\ Good(o.SHORT_SMOOTHING_BUFFER_DESCRIPTOR, "object", GoodLeak)
    /\ IsInt(o.starttime) /\ IsInt(o.duration)

(***************************************************************************)
(* ... and what is taken from the others.  Numbers of contents and of      *)
(* conditional access are read as hexadecimal text, those of components in *)
(* decimal unless there is a 0x.                                           *)
(***************************************************************************)
IntOf(x, old) == IF x.type = "int" THEN x.val ELSE old
StringOf(x, old) == IF x.type = "string" THEN strncpy(x.text.length, TextSize) ELSE old
Hex(x, old) == IF x.type = "string" THEN x.text.hex ELSE IntOf(x, old)
Byte(x, old) == IF x.type = "string" THEN convertStrToInt(x.text) ELSE IntOf(x, old) % 256
atoi(x, old) == IF x.type = "string" THEN x.text.dec ELSE old

Parsed(x, old, Parse(_, _)) ==
    [k \in DOMAIN old |-> IF k \in DOMAIN Fits(x, Len(old)) THEN Parse(x.items[k], old[k]) ELSE old[k]]

component_of(c, old) ==
    [stream |-> Byte(c.stream, old.stream), tag |-> IntOf(c.tag, old.tag) % 256, text |-> StringOf(c.text, old.text)]
content_of(c, old) ==
    [level_1 |-> Hex(c.level_1, old.level_1), level_2 |-> Hex(c.level_2, old.level_2),
     user |-> Hex(c.user, old.user)]
item_of(i, old) == StringOf(i.text, old)

(* The memory of the section, once allocated.                              *)
Allocated == Zeroed

(* The section, or NULL.                                                   *)
json_parse(o) ==
    IF ~Accepted(o) THEN Malformed
    ELSE LET Field(x, field) == IF x.type = "none" THEN None ELSE x[field]
             old == Allocated IN
         [type |-> "section",
          section |->
            [old EXCEPT
                !.starttime = IntOf(o.starttime, @), !.duration = IntOf(o.duration, @),
                !.short = StringOf(Field(o.SHORT_EVENT_DESCRIPTOR, "text"), @),
                !.ext = StringOf(Field(o.EXTENDED_EVENT_DESCRIPTOR, "text"), @),
                !.items = Parsed(Field(o.EXTENDED_EVENT_DESCRIPTOR, "items"), @, item_of),
                !.rating = [age |-> IntOf(Field(o.PARENTAL_RATING_DESCRIPTOR, "age"), @.age) % 256,
                            country_code |-> StringOf(Field(o.PARENTAL_RATING_DESCRIPTOR, "country_code"),
                                                    @.country_code)],
                !.component = Parsed(o.COMPONENT_DESCRIPTOR, @, component_of),
                !.content = Parsed(o.CONTENT_DESCRIPTOR, @, content_of),
                !.ca = Parsed(o.CA_IDENTIFIER_DESCRIPTOR, @, Hex),
                !.leak = atoi(Field(o.SHORT_SMOOTHING_BUFFER_DESCRIPTOR, "rate"), @)]]
===============================================================================
