------------------------------- MODULE Filters -------------------------------
(***************************************************************************)
(* Metadata filters.  They are evaluated twice: in Python over the chunks  *)
(* of the lexical index, and by the database over a JSONB column.  Both    *)
(* compare what the chunker wrote with what normalize made of a request.   *)
(*                                                                         *)
(* A value is its JSON type and the way JSON spells it.  A request maps    *)
(* keys to the values it would accept: a scalar is a list of one.          *)
(***************************************************************************)
EXTENDS TLC

CONSTANTS
    Docs,               \* the indexed documents, numbered
    Columns,            \* type, service, id and path of each
    FrontMatter         \* the other keys of its front matter

Null == <<"null", "null">>

Nested(value) == value[1] \in {"object", "array"}

(* as_text: also a boolean is written the way JSON spells it.              *)
AsText(value) == <<"text", value[2]>>

Inherited(d) == FrontMatter[d] @@ Columns[d]

(* What every chunk of a document carries: no nulls, all text.             *)
ChunkMetadata(d) ==
    [key \in {k \in DOMAIN Inherited(d) : Inherited(d)[k] # Null} |-> AsText(Inherited(d)[key])]

Given(values) == values \ {Null}

(* What normalize raises a FilterError for.                                *)
Refused(raw) ==
    \E key \in DOMAIN raw :
        \/ key = ""
        \/ Given(raw[key]) = {}
        \/ \E v \in Given(raw[key]) : Nested(v)

(* Bug: values stay as the request typed them.                             *)
NormalizeTyped(raw) == [key \in DOMAIN raw |-> Given(raw[key])]

Normalize(raw) == [key \in DOMAIN raw |-> {AsText(v) : v \in Given(raw[key])}]

(* The lexical half.                                                       *)
Matches(metadata, filters) ==
    \A key \in DOMAIN filters :
        key \in DOMAIN metadata /\ AsText(metadata[key]) \in filters[key]

(* The dense half: one containment for each accepted value.                *)
MetadataCondition(metadata, filters) ==
    \A key \in DOMAIN filters : \E value \in filters[key] :
        key \in DOMAIN metadata /\ metadata[key] = value

(* What a request asks of a document: under every key it says what one of  *)
(* the values says, and a document that does not say is not meant.         *)
Meant(d, raw) ==
    \A key \in DOMAIN raw : \E value \in raw[key] :
        /\ key \in DOMAIN Inherited(d)
        /\ Null \notin {value, Inherited(d)[key]}
        /\ value[2] = Inherited(d)[key][2]
=============================================================================
