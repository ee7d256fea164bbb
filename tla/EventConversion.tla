--------------------------- MODULE EventConversion ---------------------------
(***************************************************************************)
(* eventToProto and protoToEvent (event_conversion.go): what an ADK event  *)
(* is stored as and reads back as, with its content and metadata.          *)
(*                                                                         *)
(* One field stands for all that are converted the same way: toolIDs for   *)
(* Routes and OutputFor, an event's finishReason and a part's language for *)
(* the enums with and without a prefix, the customMetadata for every map   *)
(* that is stored as a Struct.  Strings, numbers and flags are copied and  *)
(* are left out.                                                           *)
(***************************************************************************)
EXTENDS GenaiContent, GenaiMetadata

CONSTANTS Absent,   \* no event
          TempKey,  \* the state keys with the prefix "temp:"
          Events    \* the events callers append

VARIABLES given,   \* the event last appended
          answer,  \* what AppendEvent made of it
          stored,  \* the proto in its row, if it was accepted
          read     \* what Get returned for that row

vars == <<given, answer, stored, read>>

-----------------------------------------------------------------------------
(* Events.  A map that is not a value is the set of its entries.           *)

Confirmations == Pointer(SUBSET [id : STRING, payload : Value])
Compaction == Pointer([start : Nat, content : Content, excluded : Slice(Nat)])

(* "anything" is a schema whose JSON is not an object but a boolean. *)
RequestInput == Pointer([schema : Pointer({"object", "anything"}), payload : Value])

Event == [timestamp : Nat, delta : GoMap, artifacts : Pointer(SUBSET (STRING \X Nat)),
          confirmations : Confirmations, compaction : Compaction, content : Content,
          grounding : Grounding, usage : Usage, citation : Citations,
          logprobs : Logprobs, customMetadata : GoMap,
          finishReason : NamesOf(FinishReason), toolIDs : Slice(STRING),
          requestedInput : RequestInput, output : Value]

ASSUME EventsAssumption == Events \subseteq Event

(* The node is not in the value of a "temp:" key. *)
Durable(n) == n.path = <<>> \/ Head(n.path) \notin TempKey

trimTempKeys(delta) == {n \in delta : Durable(n)}

(* A plausible defect: "temp:" keys are left to whoever stores the delta. *)
StateDeltaUntrimmed(e) == sanitizeValue(e.delta)

StateDelta(e) == sanitizeValue(trimTempKeys(e.delta))

compactionToProto(compaction) ==
    {[start |-> timestampOrNil(c.start), content |-> contentToProto(c.content),
      excluded |-> Each(timestampOrNil, Items(c.excluded))] : c \in compaction}

compactionFromProto(compaction) ==
    {[start |-> timeFromProto(p.start), content |-> contentFromProto(p.content),
      excluded |-> cloneOrNil(Each(timeFromProto, p.excluded))] : p \in compaction}

(* A range over a map, nil or not. *)
Entries(m) == Or(m, {})
mapOrNil(entries) == IF entries = {} THEN Nil ELSE {entries}

confirmationsToProto(confirmations) ==
    {[id |-> c.id, payload |-> jsonValue(sanitizeValue(c.payload))] :
        c \in Entries(confirmations)}

ConfirmationRead(p) == [id |-> p.id, payload |-> valueToAny(p.payload)]

(* A plausible defect: the map is made before anything is put into it. *)
confirmationsFromProtoMade(entries) == New({ConfirmationRead(p) : p \in entries})

confirmationsFromProto(entries) == mapOrNil({ConfirmationRead(p) : p \in entries})

(* The schema of a requested input is stored as its JSON object, so that   *)
(* one whose JSON is a boolean, which says that anything will do, is       *)
(* refused.                                                                *)
RequestFits(input) == \A in \in input : "anything" \notin in.schema /\ JSONFits(in.payload)

requestInputToProto(input) ==
    {[schema |-> in.schema, payload |-> jsonValue(in.payload)] : in \in input}
requestInputFromProto(input) ==
    {[schema |-> p.schema, payload |-> valueToAny(p.payload)] : p \in input}

(* The conversion meets no value that it cannot encode. *)
Converts(e) ==
    /\ StructFits(StateDelta(e))
    /\ \A c \in Entries(e.confirmations) : JSONFits(sanitizeValue(c.payload))
    /\ \A c \in e.compaction : ContentFits(c.content)
    /\ ContentFits(e.content)
    /\ StructFits(sanitizeValue(e.customMetadata))
    /\ RequestFits(e.requestedInput)
    /\ JSONFits(e.output)

eventToProto(e) ==
    [timestamp |-> timestampOrNil(e.timestamp),
     delta |-> structOrNil(StateDelta(e)),
     artifacts |-> Entries(e.artifacts),
     confirmations |-> confirmationsToProto(e.confirmations),
     compaction |-> compactionToProto(e.compaction),
     content |-> contentToProto(e.content),
     grounding |-> groundingMetadataToProto(e.grounding),
     usage |-> usageMetadataToProto(e.usage),
     citation |-> citationMetadataToProto(e.citation),
     logprobs |-> logprobsResultToProto(e.logprobs),
     customMetadata |-> structOrNil(sanitizeValue(e.customMetadata)),
     finishReason |-> enumToProto(FinishReason, e.finishReason),
     toolIDs |-> Items(e.toolIDs),
     requestedInput |-> requestInputToProto(e.requestedInput),
     output |-> jsonValue(e.output)]

protoToEvent(p) ==
    [timestamp |-> timeFromProto(p.timestamp),
     delta |-> structMap(p.delta),
     artifacts |-> mapOrNil(p.artifacts),
     confirmations |-> confirmationsFromProto(p.confirmations),
     compaction |-> compactionFromProto(p.compaction),
     content |-> contentFromProto(p.content),
     grounding |-> groundingMetadataFromProto(p.grounding),
     usage |-> usageMetadataFromProto(p.usage),
     citation |-> citationMetadataFromProto(p.citation),
     logprobs |-> logprobsResultFromProto(p.logprobs),
     customMetadata |-> structMap(p.customMetadata),
     finishReason |-> enumFromProto(FinishReason, p.finishReason),
     toolIDs |-> cloneOrNil(p.toolIDs),
     requestedInput |-> requestInputFromProto(p.requestedInput),
     output |-> valueToAny(p.output)]

Init == given = Absent /\ answer = "none" /\ stored = Absent /\ read = Absent

Store(e) ==
    /\ given' = e
    /\ CASE ~Converts(e) -> answer' = "InvalidArgument" /\ stored' = Absent
         [] Converts(e) /\ GroundingPanics(e.grounding) ->
               answer' = "panic" /\ stored' = Absent
         [] OTHER -> answer' = "OK" /\ stored' = eventToProto(e)
    /\ read' = Absent

AppendEvent(e) == given = Absent /\ Store(e)

Get ==
    /\ stored # Absent /\ read = Absent
    /\ read' = protoToEvent(stored)
    /\ UNCHANGED <<given, answer, stored>>

(* A caller appends what it read, to another session. *)
AppendRead == read # Absent /\ Store(read)

(* The caller, which recovers from a panic, lets go of the event and goes  *)
(* on to another.                                                          *)
Discard ==
    /\ answer \in {"InvalidArgument", "panic"}
    /\ given' = Absent /\ answer' = "none"
    /\ UNCHANGED <<stored, read>>

Next == (\E e \in Events : AppendEvent(e)) \/ Get \/ AppendRead \/ Discard

Spec == Init /\ [][Next]_vars

-----------------------------------------------------------------------------
(* What an event says, whatever its Go shape: the meaning of its values,   *)
(* and of its other fields what they contain.                              *)

MeaningOfCompaction(compaction) ==
    {[start |-> c.start, content |-> MeaningOfContent(c.content),
      excluded |-> Items(c.excluded)] : c \in compaction}

Says(e) ==
    [timestamp |-> e.timestamp,
     delta |-> Meaning(e.delta),
     artifacts |-> Entries(e.artifacts),
     confirmations |-> {<<c.id, Meaning(c.payload)>> : c \in Entries(e.confirmations)},
     compaction |-> MeaningOfCompaction(e.compaction),
     content |-> MeaningOfContent(e.content),
     grounding |-> MeaningOfGrounding(e.grounding),
     usage |-> MeaningOfUsage(e.usage),
     citation |-> MeaningOfCitations(e.citation),
     logprobs |-> MeaningOfLogprobs(e.logprobs),
     customMetadata |-> Meaning(e.customMetadata),
     finishReason |-> MeaningOfEnum(FinishReason, e.finishReason),
     toolIDs |-> Items(e.toolIDs),
     requestedInput |-> {<<in.schema, Meaning(in.payload)>> : in \in e.requestedInput},
     output |-> Meaning(e.output)]

(* What of that is to be kept: all but the "temp:" keys of the delta.      *)
ToBeKept(e) == [Says(e) EXCEPT !.delta = Meaning({n \in e.delta : Durable(n)})]

(* Stored as JSON a nil map becomes null, and sanitizeValue makes a nil    *)
(* map of an empty one: whether an event has neither there, nor an empty   *)
(* struct, which reads back as an empty map.                               *)
Inhabited(v) == \A n \in v : n.kind \in Object => n.kind # "nil map" /\ HasChild(v, n)
NoNilMap(v) == \A n \in v : n.kind # "nil map"
NoNullObjects(e) ==
    /\ \A c \in Entries(e.confirmations) : Inhabited(c.payload)
    /\ \A in \in e.requestedInput : NoNilMap(in.payload)
    /\ NoNilMap(e.output)

(* Whether it has no empty struct there, nor an empty map within one.      *)
NoEmptyStruct(v) ==
    \A n \in v : n.kind \in Object \ {"nil map"} /\ ~HasChild(v, n)
                   => n.kind = "map" /\ ~WithinStruct(v, n)
NoEmptyStructs(e) == \A c \in Entries(e.confirmations) : NoEmptyStruct(c.payload)

(* An event reads back with everything it said and nothing else, but none  *)
(* of its "temp:" keys is in the row; numbers are float64 and typed        *)
(* objects are maps then.                                                  *)
RoundTripsLosslessly == read # Absent => Says(read) = ToBeKept(given)

(* The exact Go shape of what is read: nil for what is absent, never an    *)
(* empty slice or map outside of a value.                                  *)
ReadsNilForAbsent ==
    read # Absent =>
        /\ EmptyMap \notin {read.delta, read.customMetadata}
        /\ {} \notin read.artifacts /\ {} \notin read.confirmations
        /\ read.toolIDs # EmptySlice
        /\ ContentReadsNil(read.content)
        /\ \A c \in read.compaction : c.excluded # EmptySlice /\ ContentReadsNil(c.content)
        /\ GroundingReadsNil(read.grounding) /\ LogprobsReadNil(read.logprobs)
        /\ EmptySlice \notin read.usage /\ EmptySlice \notin read.citation

(* What was read once is stable: appended again it is accepted and reads   *)
(* back as the very same event, nil and empty and all.  (given is an event *)
(* of Events or one that was read.)                                        *)
ReadAgainTheSame ==
    [][AppendRead => answer' = "OK" /\ protoToEvent(stored') = read]_vars

(* An event is refused only for something that would be stored: a value in *)
(* a "temp:" key may be of any type.                                       *)
ToBeStored(e) ==
    {{n \in e.delta : Durable(n)}, e.customMetadata, e.output}
    \cup {c.payload : c \in Entries(e.confirmations)}
    \cup {in.payload : in \in e.requestedInput}
    \cup ContentStructs(e.content) \cup UNION {ContentStructs(c.content) : c \in e.compaction}

RefusedForWhatIsStored ==
    answer = "InvalidArgument" =>
        \/ \E n \in UNION ToBeStored(given) : n.kind \in {"struct", "chan"}
        \/ \E in \in given.requestedInput : "anything" \in in.schema

(* An append always answers: a nil pointer in one of the event's lists,    *)
(* which the converters take for an empty message, makes none of them      *)
(* panic.                                                                  *)
EveryAppendAnswers == given # Absent => answer \in {"OK", "InvalidArgument"}
===============================================================================
