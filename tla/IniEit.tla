-------------------------------- MODULE IniEit --------------------------------
(***************************************************************************)
(* load_eit of util.c: the entry that a program makes from its ini file    *)
(* when the shared table has none; and the values that the programs ask    *)
(* for when they start.                                                    *)
(***************************************************************************)
EXTENDS IniFile

(* Text and desc of an item are one value, as are name, text and lang of a *)
(* descriptor, and stream_content and component_type of a component.       *)
Items == "EXTENDED_EVENT_DESCRIPTOR"
Components == "COMPONENT_DESCRIPTOR"
Contents == "CONTENT_DESCRIPTOR"
Cas == "CA_IDENTIFIER_DESCRIPTOR"

(* A pointer that is used without being tested.                            *)
Needed ==
    {<<"SHORT_EVENT_DESCRIPTOR", "event">>, <<"SHORT_EVENT_FOLLOWING_DESCRIPTOR", "event">>,
     <<"EXTENDED_EVENT_DESCRIPTOR", "text">>, <<"PARENTAL_RATING_DESCRIPTOR", "country_code">>,
     <<"PARENTAL_RATING_DESCRIPTOR", "age">>}

(* What main asks for; file and level of the logs are one value.  A name   *)
(* of the mapping file that is not there is an error of sharedMemory_init. *)
Configuration(program) ==
    {<<"SHARED_MEMORY", "streamingProvider">>} \union
    CASE program = "multicat" -> {<<"MULTICAT_LOGS", "file">>}
      [] program = "supervisor" -> {<<"SUPERVISOR_LOGS", "file">>, <<"SUPERVISOR", "sleep">>,
                                    <<"SUPERVISOR", "port">>, <<"NETWORK", "ttl">>}
      [] OTHER -> {}

Lacks(ini, asked) ==
    \E q \in asked : \/ Crashes(ini, q[1], <<q[2], Plain>>)
                     \/ rechercherValeur(ini, q[1], <<q[2], Plain>>) = NoValue

Value(ini, name, prefix) == rechercherValeur(ini, name, <<prefix, Plain>>)
Number(text) == IF text = NoValue THEN 0 ELSE convertStrToInt(text)

(* getValueFromIni gives "" for what is not there.                         *)
Given(ini, name, prefixes, k) == \A p \in prefixes : rechercherValeur(ini, name, <<p, k>>).length > 0

\* The indexes from the first on, until one is not complete.
Run(first, size, complete) == {k \in first .. first + size - 1 : first .. k \subseteq complete}

load_items(ini) ==
    LET Of(k) == rechercherValeur(ini, Items, <<"text", k>>)
        read == Run(0, ItemSize, {k \in 0..ItemSize : Of(k) # NoValue}) IN
    [k \in 1..ItemSize |-> IF k - 1 \in read THEN strncpy(Of(k - 1).length, TextSize) ELSE 0]

load_components(ini) ==
    LET Of(p, k) == rechercherValeur(ini, Components, <<p, k>>)
        read == Run(1, ComponentSize,
                    {k \in 1..ComponentSize : Given(ini, Components, {"stream_content", "set_component_tag", "text"}, k)}) IN
    [k \in 1..ComponentSize |->
        IF k \in read
        THEN [stream |-> convertStrToInt(Of("stream_content", k)), tag |-> Of("set_component_tag", k).dec % 256,
              text |-> strncpy(Of("text", k).length, TextSize)]
        ELSE Component(0)]

load_contents(ini) ==
    LET Of(p, k) == convertStrToInt(rechercherValeur(ini, Contents, <<p, k>>))
        read == Run(1, ContentSize, {k \in 1..ContentSize : Given(ini, Contents, {"level_1", "level_2", "user"}, k)}) IN
    [k \in 1..ContentSize |->
        IF k \in read THEN [level_1 |-> Of("level_1", k), level_2 |-> Of("level_2", k), user |-> Of("user", k)]
        ELSE Content(0)]

(* Identifiers have 16 bits, and are read with the function for eight.     *)
load_ca(ini) ==
    LET read == Run(1, CaSize, {k \in 1..CaSize : Given(ini, Cas, {"CA_system_id"}, k)}) IN
    [k \in 1..CaSize |->
        IF k \in read THEN convertStrToInt(rechercherValeur(ini, Cas, <<"CA_system_id", k>>)) ELSE 0]

load_section(ini, short) ==
    [Zeroed EXCEPT
        !.short = strncpy(Value(ini, short, "event").length, TextSize),
        !.ext = strncpy(Value(ini, "EXTENDED_EVENT_DESCRIPTOR", "text").length, TextSize),
        !.items = load_items(ini), !.component = load_components(ini), !.content = load_contents(ini),
        !.leak = Number(Value(ini, "SHORT_SMOOTHING_BUFFER_DESCRIPTOR", "sb_leak_rate")),
        !.rating = [age |-> Value(ini, "PARENTAL_RATING_DESCRIPTOR", "age").dec % 256,
                    country_code |-> strncpy(Value(ini, "PARENTAL_RATING_DESCRIPTOR", "country_code").length,
                                             TextSize)]]

(* Conditional access is for section 0 only.                               *)
load_eit(ini) ==
    [section0 |-> [load_section(ini, "SHORT_EVENT_DESCRIPTOR") EXCEPT !.ca = load_ca(ini)],
     section1 |-> load_section(ini, "SHORT_EVENT_FOLLOWING_DESCRIPTOR")]
===============================================================================
