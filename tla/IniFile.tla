------------------------------- MODULE IniFile -------------------------------
(***************************************************************************)
(* lib_ini.c: an ini file in memory.  Each allocation takes one of so many *)
(* places of a pool, and none is given back: not even for the few values   *)
(* that load_eit frees.                                                    *)
(*                                                                         *)
(* A line may be a comment, may have an equals sign with a key before and  *)
(* a value behind it, and may have a name in brackets.  A key is a prefix  *)
(* and an index, or Plain: "text_1" is <<"text", 1>>.                      *)
(***************************************************************************)
EXTENDS EitSection

CONSTANT PoolSize   \* size_max of the pool, 1024

ASSUME IniAssumption == PoolSize \in Nat /\ PoolSize >= 2

Plain == -1
NoName == ""                 \* szSection of what comes before the first section
NoKey == <<"", Plain>>       \* a name for which there was no memory
NoValue == Word(-1)

ParamLine(key, value) == [comment |-> FALSE, equals |-> TRUE, key |-> key, value |-> value, name |-> NoName]
SectionLine(name) == [comment |-> FALSE, equals |-> FALSE, key |-> NoKey, value |-> NoValue, name |-> name]
CommentLine(line) == [line EXCEPT !.comment = TRUE]

(* Something is before the equals sign of a line that has one.             *)
LineOK(line) ==
    /\ line.comment \in BOOLEAN /\ line.equals \in BOOLEAN
    /\ ~line.comment /\ line.equals => line.key # NoKey /\ line.value \in TextElement

Section(name) == [name |-> name, params |-> <<>>]

(* After the allocation of the context and of the section without a name.  *)
NewIni == [sections |-> <<Section(NoName)>>, size |-> 2]

apr_palloc(ini) == ini.size < PoolSize
\* The k-th string from here, or NULL.
apr_pstrdup(ini, k, string, null) == IF ini.size + k < PoolSize THEN string ELSE null

ajouterUnParamValue(ini, line) ==
    IF ~apr_palloc(ini) THEN ini
    ELSE LET param == [key |-> apr_pstrdup(ini, 1, line.key, NoKey),
                       value |-> apr_pstrdup(ini, 2, line.value, NoValue)]
         IN  [ini EXCEPT !.sections[Len(ini.sections)].params = Append(@, param),
                         !.size = Lesser(@ + 3, PoolSize)]

ajouterUneSection(ini, name) ==
    IF ~apr_palloc(ini) THEN ini
    ELSE [ini EXCEPT !.sections = Append(@, Section(apr_pstrdup(ini, 1, name, NoName))),
                     !.size = Lesser(@ + 2, PoolSize)]

(* A line that there is no memory for is left out: the loop tests for -1,  *)
(* and INI_PROBLEM_MEMORY is -2.                                           *)
extraireParamsValeurs(ini, line) ==
    CASE line.comment -> ini
      [] ~line.comment /\ line.equals -> ajouterUnParamValue(ini, line)
      [] ~line.comment /\ ~line.equals /\ line.name # NoName -> ajouterUneSection(ini, line.name)
      [] OTHER -> ini

(* The parameters of all sections with the name, and the first of them     *)
(* with the key and a value.                                               *)
\* Faulty variant: of the first section with the name only.
Params_First(ini, name) ==
    LET k == SelectInSeq(ini.sections, LAMBDA s : s.name = name)
    IN  IF k = 0 THEN <<>> ELSE ini.sections[k].params

Params(ini, name) ==
    FlattenSeq([k \in DOMAIN ini.sections |->
                IF ini.sections[k].name = name THEN ini.sections[k].params ELSE <<>>])

Position(params, key) == SelectInSeq(params, LAMBDA p : p.key = key /\ p.value # NoValue)

rechercherValeur(ini, name, key) ==
    LET params == Params(ini, name)
    IN  IF Position(params, key) = 0 THEN NoValue ELSE params[Position(params, key)].value

(* A name that is NULL is compared.                                        *)
Crashes(ini, name, key) ==
    LET params == Params(ini, name)
    IN  \E k \in DOMAIN params : params[k].key = NoKey /\ Position(params, key) \notin 1..k-1
===============================================================================
