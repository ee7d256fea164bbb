------------------------------- MODULE GoValues -------------------------------
(***************************************************************************)
(* Go values as the converters of conversion.go, event_conversion.go and  *)
(* metadata_conversion.go see them, and the conversions of single fields   *)
(* that these share.  ADK compares events exactly, so a nil slice, map or  *)
(* pointer is another value than an empty one, and a state value of the Go *)
(* type int another than a float64.                                        *)
(***************************************************************************)
EXTENDS Integers, Sequences, SequencesExt

(* A pointer, and an optional field of a proto message, is the set of what *)
(* it points to.  So is a slice, of the list it holds; a proto message,    *)
(* where an unset list and an empty one are the same, has plain lists.     *)

Nil == {}
Pointer(S) == {p \in SUBSET S : \A x, y \in p : x = y}
Slice(S) == Pointer(Seq(S))

EmptySlice == {<<>>}

Deref(p) == CHOOSE x \in p : TRUE
New(x) == {x}
Or(p, zero) == IF p = Nil THEN zero ELSE Deref(p)

(* A range over a slice, and the proto list that it is copied to. *)
Items(s) == Or(s, <<>>)
Each(op(_), list) == [i \in DOMAIN list |-> op(list[i])]

(* Also bytesOrNil, and what appending a list's items to a nil slice       *)
(* leaves.                                                                 *)
cloneOrNil(list) == IF list = <<>> THEN Nil ELSE {list}

(* A switch over the fields of a struct that stands for a oneof: the first *)
(* populated one, and nil for all others.                                  *)
OneOf(order, data) ==
    [f \in Range(order) |->
        IF \E i \in DOMAIN order : /\ order[i] = f
                                   /\ \A j \in 1..(i - 1) : data[order[j]] = Nil
        THEN data[f] ELSE Nil]

-----------------------------------------------------------------------------
(* A value of the type any is the set of its nodes: what is at each path   *)
(* of keys and indices into it.  A "struct" is any type of which only      *)
(* encoding/json makes an object, a "chan" one that nothing can encode,    *)
(* and a "call" and a "confirmation" are the types of genai and ADK that   *)
(* sanitizeValue knows; where it does not go they are structs like others. *)

Object == {"map", "nil map", "struct", "call", "confirmation"}
Kind == Object \cup {"nil", "string", "int", "float", "list", "chan"}
Node == [path : Seq(STRING), kind : Kind]

Root(v) == {n \in v : n.path = <<>>}
Only(kind) == {[path |-> <<>>, kind |-> kind]}
Value == {v \in SUBSET Node : \E k \in Kind : Root(v) = Only(k)}
GoMap == {m \in Value : \E k \in {"map", "nil map"} : Root(m) = Only(k)}

NilValue == Only("nil")
NilMap == Only("nil map")
EmptyMap == Only("map")

HasChild(v, n) == \E c \in v : IsStrictPrefix(n.path, c.path)
WithinStruct(v, n) == \E s \in v : s.kind = "struct" /\ IsStrictPrefix(s.path, n.path)

(* Values that NewStruct, and that json.Marshal, accepts. *)
StructFits(v) == \A n \in v : n.kind \notin {"struct", "call", "confirmation", "chan"}
JSONFits(v) == \A n \in v : n.kind # "chan"

(* What a value reads back as: numbers are float64, objects are maps, and  *)
(* a nil map is what its encoder makes of it.                              *)
EncodedKind(k, nilMap) ==
    CASE k = "int" -> "float"
      [] k = "nil map" -> nilMap
      [] k \in Object \ {"nil map"} -> "map"
      [] OTHER -> k
Encoded(v, nilMap) == {[path |-> n.path, kind |-> EncodedKind(n.kind, nilMap)] : n \in v}

(* Also sanitizeMap.  Calls and confirmations become maps, and a map with  *)
(* no entry a nil one, except in a struct, which is left as it is.         *)
SanitizedKind(v, n) ==
    CASE WithinStruct(v, n) -> n.kind
      [] ~WithinStruct(v, n) /\ n.kind \in {"call", "confirmation"} -> "map"
      [] ~WithinStruct(v, n) /\ n.kind = "map" /\ ~HasChild(v, n) -> "nil map"
      [] OTHER -> n.kind
sanitizeValue(v) == {[path |-> n.path, kind |-> SanitizedKind(v, n)] : n \in v}

structOrNil(m) == IF m = Root(m) THEN Nil ELSE {Encoded(m, "map")}
structMap(p) == Or(p, NilMap)

jsonValue(v) == IF v = NilValue THEN Nil ELSE {Encoded(v, "nil")}
valueToAny(p) == Or(p, NilValue)

-----------------------------------------------------------------------------
(* The conversions of instants and names. *)

(* Also dateToProto and durationToProto. *)
timestampOrNil(t) == IF t = 0 THEN Nil ELSE {t}

(* A plausible defect: the instant is read in the zone of the server. *)
timeFromProtoLocal(p) == IF p = Nil THEN 0 ELSE Deref(p) + 3600

(* Also dateFromProto and AsDuration. *)
timeFromProto(p) == Or(p, 0)

(* A name may have the prefix of its enum or not; a proto's number is      *)
(* stood for by the rest of its name.                                      *)
FinishReason == [prefix |-> "FINISH_REASON_", zero |-> "UNSPECIFIED", others |-> {"STOP"}]
Language == [prefix |-> "", zero |-> "LANGUAGE_UNSPECIFIED", others |-> {"PYTHON"}]
MediaModality == [prefix |-> "MEDIA_MODALITY_", zero |-> "UNSPECIFIED", others |-> {"TEXT"}]

NoName == [prefix |-> "", rest |-> ""]

(* The names that callers may use: those that the proto knows, and none.   *)
NamesOf(enum) ==
    {NoName} \cup [prefix : {"", enum.prefix}, rest : enum.others \cup {enum.zero}]

(* A plausible defect: names are looked up as they are only. *)
enumToProtoPlain(enum, name) ==
    IF name.prefix = enum.prefix /\ name.rest \in enum.others THEN name.rest ELSE enum.zero

(* Looked up as it is, and then with the prefix before it. *)
enumToProto(enum, name) ==
    IF name.prefix \in {enum.prefix, ""} /\ name.rest \in enum.others THEN name.rest
    ELSE enum.zero

enumFromProto(enum, value) ==
    IF value = enum.zero THEN NoName ELSE [prefix |-> "", rest |-> value]

-----------------------------------------------------------------------------
(* What a value says, whatever its Go shape: a number is a number, and a   *)
(* map, nil or not, a map.                                                 *)
MeaningOfKind(k) ==
    IF k = "int" THEN "float" ELSE IF k \in Object THEN "map" ELSE k
Meaning(v) == {[path |-> n.path, kind |-> MeaningOfKind(n.kind)] : n \in v}

(* A name says the same with its prefix and without, an unspecified one    *)
(* what none does.                                                         *)
MeaningOfEnum(enum, name) == IF name.rest = enum.zero THEN "" ELSE name.rest
===============================================================================
