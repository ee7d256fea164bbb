----------------------------- MODULE GenaiContent -----------------------------
(***************************************************************************)
(* The content of a model response (conversion.go): contentToProto,        *)
(* contentFromProto and the converters of parts under them.                *)
(*                                                                         *)
(* A content is its parts, and a part what it holds of data, with a        *)
(* signature and its video's start offset.  Of the data fields of a genai  *)
(* part the proto has the first populated one; "toolCall" stands for those *)
(* that it has no counterpart of.                                          *)
(***************************************************************************)
EXTENDS GoValues

ResponsePart == [inlineData : Pointer(Slice(Nat)), fileData : Pointer(STRING)]
FunctionResponse == [response : GoMap, parts : Slice(Pointer(ResponsePart))]
Part == [text : Pointer(STRING \ {""}), inlineData : Pointer(Slice(Nat)),
         fileData : Pointer(STRING), functionCall : Pointer(GoMap),
         functionResponse : Pointer(FunctionResponse),
         executableCode : Pointer(NamesOf(Language)), toolCall : Pointer(STRING),
         signature : Slice(Nat), video : Pointer(Nat)]
Content == Pointer(Slice(Pointer(Part)))

BareResponsePart == [inlineData |-> Nil, fileData |-> Nil]
BarePart == [text |-> Nil, inlineData |-> Nil, fileData |-> Nil, functionCall |-> Nil,
             functionResponse |-> Nil, executableCode |-> Nil, toolCall |-> Nil,
             signature |-> Nil, video |-> Nil]

DataOrder == <<"text", "inlineData", "fileData", "functionCall", "functionResponse",
               "executableCode">>
ResponsePartOrder == <<"inlineData", "fileData">>

functionResponsePartToProto(part) ==
    LET data == OneOf(ResponsePartOrder, Or(part, BareResponsePart))
    IN [inlineData |-> {Items(bytes) : bytes \in data.inlineData}, fileData |-> data.fileData]

functionResponsePartFromProto(p) ==
    New([inlineData |-> {cloneOrNil(bytes) : bytes \in p.inlineData}, fileData |-> p.fileData])

functionResponseToProto(r) ==
    [response |-> structOrNil(sanitizeValue(r.response)),
     parts |-> Each(functionResponsePartToProto, Items(r.parts))]

functionResponseFromProto(p) ==
    [response |-> structMap(p.response),
     parts |-> cloneOrNil(Each(functionResponsePartFromProto, p.parts))]

partToProto(given) ==
    LET part == Or(given, BarePart)
        data == OneOf(DataOrder, part)
    IN [text |-> data.text,
        inlineData |-> {Items(bytes) : bytes \in data.inlineData},
        fileData |-> data.fileData,
        functionCall |-> {structOrNil(sanitizeValue(args)) : args \in data.functionCall},
        functionResponse |-> {functionResponseToProto(r) : r \in data.functionResponse},
        executableCode |-> {enumToProto(Language, name) : name \in data.executableCode},
        signature |-> Items(part.signature),
        video |-> {timestampOrNil(start) : start \in part.video}]

partFromProto(p) ==
    New([text |-> p.text,
         inlineData |-> {cloneOrNil(bytes) : bytes \in p.inlineData},
         fileData |-> p.fileData,
         functionCall |-> {structMap(args) : args \in p.functionCall},
         functionResponse |-> {functionResponseFromProto(r) : r \in p.functionResponse},
         executableCode |-> {enumFromProto(Language, value) : value \in p.executableCode},
         toolCall |-> Nil,
         signature |-> cloneOrNil(p.signature),
         video |-> {timeFromProto(start) : start \in p.video}])

contentToProto(c) == {Each(partToProto, Items(parts)) : parts \in c}
contentFromProto(p) == {cloneOrNil(Each(partFromProto, parts)) : parts \in p}

(* The values of a part, and of a content, that are stored as a Struct. *)
PartStructs(part) ==
    LET data == OneOf(DataOrder, Or(part, BarePart))
    IN data.functionCall \cup {r.response : r \in data.functionResponse}
ContentStructs(c) == UNION {UNION {PartStructs(part) : part \in Range(Items(parts))} : parts \in c}

ContentFits(c) == \A m \in ContentStructs(c) : StructFits(sanitizeValue(m))

-----------------------------------------------------------------------------
(* What a content says: of each part its first populated field, without    *)
(* those that the proto has no counterpart of.                             *)

MeaningOfResponsePart(part) ==
    LET data == OneOf(ResponsePartOrder, Or(part, BareResponsePart))
    IN <<{Items(bytes) : bytes \in data.inlineData}, data.fileData>>

MeaningOfResponse(r) ==
    <<Meaning(r.response), Each(MeaningOfResponsePart, Items(r.parts))>>

MeaningOfPart(given) ==
    LET part == Or(given, BarePart)
        data == OneOf(DataOrder, part)
    IN [text |-> data.text,
        inlineData |-> {Items(bytes) : bytes \in data.inlineData},
        fileData |-> data.fileData,
        functionCall |-> {Meaning(args) : args \in data.functionCall},
        functionResponse |-> {MeaningOfResponse(r) : r \in data.functionResponse},
        executableCode |-> {MeaningOfEnum(Language, name) : name \in data.executableCode},
        signature |-> Items(part.signature),
        video |-> part.video]

MeaningOfContent(c) == {Each(MeaningOfPart, Items(parts)) : parts \in c}

(* Nil for what is absent, in everything that is read. *)
ResponsePartReadsNil(part) == part # Nil /\ \A x \in part : EmptySlice \notin x.inlineData

PartReadsNil(part) ==
    /\ part # Nil
    /\ \A x \in part :
          /\ x.signature # EmptySlice /\ EmptySlice \notin x.inlineData
          /\ EmptyMap \notin x.functionCall
          /\ \A r \in x.functionResponse :
                /\ r.response # EmptyMap /\ r.parts # EmptySlice
                /\ \A y \in Range(Items(r.parts)) : ResponsePartReadsNil(y)

ContentReadsNil(c) ==
    \A parts \in c : parts # EmptySlice /\ \A part \in Range(Items(parts)) : PartReadsNil(part)
===============================================================================
