------------------------------ MODULE EitSection ------------------------------
(***************************************************************************)
(* struct EitInfoSection of eit.h, the event information that the sources  *)
(* of an entry fill in.  A text is known by its length, or is 0 when it is *)
(* empty; the texts of a descriptor that are always copied together count  *)
(* as one.  Of the numbers of a component that are copied together there   *)
(* is one, stream.  The value Garbage stands for memory nobody has set.    *)
(***************************************************************************)
EXTENDS Integers, SequencesExt

CONSTANTS
    TextSize,       \* SHORTEVENTDESC_TEXT_LENGTH and the other lengths
    ComponentSize,  \* COMPONENTDESC_SIZE
    ContentSize,    \* CONTENT_DESC_SIZE
    ItemSize,       \* EXTEVENTDESC_ITEM_SIZE
    CaSize          \* CA_SYSTEM_ID_SIZE

ASSUME SectionAssumption ==
    {TextSize, ComponentSize, ContentSize, ItemSize, CaSize} \subseteq Nat \ {0}

Garbage == -1
Times(n, x) == [k \in 1..n |-> x]

Component(x) == [stream |-> x, tag |-> x, text |-> x]
Content(x) == [level_1 |-> x, level_2 |-> x, user |-> x]
Rating(x) == [age |-> x, country_code |-> x]

(* A section with x everywhere.                                            *)
SectionOf(x) ==
    [starttime |-> x, duration |-> x, event_id |-> x,
     short |-> x,                            \* short_event_desc
     ext |-> x, items |-> Times(ItemSize, x),    \* ext_event_desc
     component |-> Times(ComponentSize, Component(x)),
     rating |-> Rating(x),                   \* parent_rating_desc
     content |-> Times(ContentSize, Content(x)),
     ca |-> Times(CaSize, x),
     leak |-> x]                             \* sbLeakRate

Uninitialised == SectionOf(Garbage)
Zeroed == SectionOf(0)                       \* memset

Lesser(a, b) == IF a <= b THEN a ELSE b

UpToSize(s, n) == SubSeq(s, 1, Lesser(n, Len(s)))

\* The elements of s at these places, in their order.
Chosen(s, places) ==
    LET upTo[k \in 0..Len(s)] ==
          IF k = 0 THEN <<>>
          ELSE IF k \in places THEN Append(upTo[k-1], s[k]) ELSE upTo[k-1]
    IN upTo[Len(s)]

(* strncpy, of a text to a field of the section.                           *)
strncpy(length, size) == Lesser(length, size)

(* A text that may be read as a number: its length, its value in decimal   *)
(* and in hexadecimal, and whether there is a "0x" in it.                  *)
Text(length, dec, hex, prefixed) == [length |-> length, dec |-> dec, hex |-> hex, prefixed |-> prefixed]
TextElement == [length : Nat, dec : Nat, hex : Nat, prefixed : BOOLEAN]
Word(length) == Text(length, 0, 0, FALSE)
Decimal(n) == Text(1, n, n, FALSE)

(* convertStrToInt, which returns an uint8_t.                              *)
strtol(text) == IF text.prefixed THEN text.hex ELSE text.dec
convertStrToInt(text) == strtol(text) % 256

(* An array whose first values are those of s, as far as there is room.    *)
Filled(array, s) == [k \in DOMAIN array |-> IF k \in DOMAIN s THEN s[k] ELSE array[k]]
===============================================================================
