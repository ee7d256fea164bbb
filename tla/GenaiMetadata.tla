---------------------------- MODULE GenaiMetadata ----------------------------
(***************************************************************************)
(* The metadata of a model response (metadata_conversion.go): grounding,   *)
(* usage, citations and log probabilities.                                 *)
(*                                                                         *)
(* Lists of pointers may have nil elements: the converters make an empty   *)
(* message of one, but for source flagging URIs and review snippets, which *)
(* they dereference.  A struct that has one field here is what is in it:   *)
(* a search entry point its blob, a maps chunk its place answer sources,   *)
(* these their review snippets, a RAG chunk its page span, and so on.      *)
(* "image" stands for the fields of a chunk that the proto has no          *)
(* counterpart of.                                                         *)
(***************************************************************************)
EXTENDS GoValues

PlaceAnswerSources == Pointer(Slice(Pointer(STRING)))
GroundingChunk == [web : Pointer(STRING), retrievedContext : Pointer(Pointer(Pointer(STRING))),
                   maps : Pointer(PlaceAnswerSources), image : Pointer(STRING)]
GroundingSupport == [indices : Slice(Nat), segment : Pointer(STRING)]
Grounding ==
    Pointer([queries : Slice(STRING), entry : Pointer(Slice(Nat)),
             chunks : Slice(Pointer(GroundingChunk)), supports : Slice(Pointer(GroundingSupport)),
             uris : Slice(Pointer(STRING))])
Usage == Pointer(Slice(Pointer(NamesOf(MediaModality))))
Citations == Pointer(Slice(Pointer(Nat)))
Candidates == Slice(Pointer(STRING))
Logprobs == Pointer([chosen : Candidates, top : Slice(Pointer(Candidates))])

-----------------------------------------------------------------------------
(* Grounding. *)

ChunkOrder == <<"web", "retrievedContext", "maps">>
BareChunk == [web |-> Nil, retrievedContext |-> Nil, maps |-> Nil, image |-> Nil]
BareSupport == [indices |-> Nil, segment |-> Nil]

placeAnswerSourcesToProto(s) == {Each(Deref, Items(snippets)) : snippets \in s}
placeAnswerSourcesFromProto(p) == {cloneOrNil(Each(New, snippets)) : snippets \in p}

groundingChunkToProto(chunk) ==
    LET data == OneOf(ChunkOrder, Or(chunk, BareChunk))
    IN [web |-> data.web, retrievedContext |-> data.retrievedContext,
        maps |-> {placeAnswerSourcesToProto(sources) : sources \in data.maps}]

groundingChunkFromProto(p) ==
    New([web |-> p.web, retrievedContext |-> p.retrievedContext,
         maps |-> {placeAnswerSourcesFromProto(sources) : sources \in p.maps}, image |-> Nil])

groundingSupportToProto(given) ==
    LET support == Or(given, BareSupport)
    IN [indices |-> Items(support.indices), segment |-> support.segment]
groundingSupportFromProto(p) == New([indices |-> cloneOrNil(p.indices), segment |-> p.segment])

searchEntryPointToProto(s) == {Items(blob) : blob \in s}
searchEntryPointFromProto(p) == {cloneOrNil(blob) : blob \in p}

groundingMetadataToProto(grounding) ==
    {[queries |-> Items(g.queries),
      entry |-> searchEntryPointToProto(g.entry),
      chunks |-> Each(groundingChunkToProto, Items(g.chunks)),
      supports |-> Each(groundingSupportToProto, Items(g.supports)),
      uris |-> Each(Deref, Items(g.uris))] : g \in grounding}

groundingMetadataFromProto(grounding) ==
    {[queries |-> cloneOrNil(p.queries),
      entry |-> searchEntryPointFromProto(p.entry),
      chunks |-> cloneOrNil(Each(groundingChunkFromProto, p.chunks)),
      supports |-> cloneOrNil(Each(groundingSupportFromProto, p.supports)),
      uris |-> cloneOrNil(Each(New, p.uris))] : p \in grounding}

(* The conversion dereferences a nil element. *)
ChunkPanics(chunk) ==
    \E sources \in OneOf(ChunkOrder, Or(chunk, BareChunk)).maps :
        \E snippets \in sources : Nil \in Range(Items(snippets))

GroundingPanics(grounding) ==
    \E g \in grounding :
        \/ Nil \in Range(Items(g.uris))
        \/ \E chunk \in Range(Items(g.chunks)) : ChunkPanics(chunk)

-----------------------------------------------------------------------------
(* Usage, citations and log probabilities: a count is its modality, a      *)
(* citation its publication date, with 0 for none, a candidate its token.  *)

modalityTokenCountToProto(count) == enumToProto(MediaModality, Or(count, NoName))
modalityTokenCountFromProto(p) == New(enumFromProto(MediaModality, p))

usageMetadataToProto(u) == {Each(modalityTokenCountToProto, Items(counts)) : counts \in u}
usageMetadataFromProto(p) ==
    {cloneOrNil(Each(modalityTokenCountFromProto, counts)) : counts \in p}

citationToProto(citation) == timestampOrNil(Or(citation, 0))
citationFromProto(p) == New(timeFromProto(p))

citationMetadataToProto(c) == {Each(citationToProto, Items(citations)) : citations \in c}
citationMetadataFromProto(p) ==
    {cloneOrNil(Each(citationFromProto, citations)) : citations \in p}

logprobsCandidateToProto(candidate) == Or(candidate, "")
logprobsCandidatesToProto(s) == Each(logprobsCandidateToProto, Items(s))
logprobsCandidatesFromProto(p) == cloneOrNil(Each(New, p))

topToProto(top) == logprobsCandidatesToProto(Or(top, Nil))
topFromProto(p) == New(logprobsCandidatesFromProto(p))

logprobsResultToProto(result) ==
    {[chosen |-> logprobsCandidatesToProto(l.chosen), top |-> Each(topToProto, Items(l.top))] :
        l \in result}
logprobsResultFromProto(result) ==
    {[chosen |-> logprobsCandidatesFromProto(p.chosen),
      top |-> cloneOrNil(Each(topFromProto, p.top))] : p \in result}

-----------------------------------------------------------------------------
(* What the metadata say; a nil element says what an empty one does.       *)

MeaningOfChunk(chunk) ==
    LET data == OneOf(ChunkOrder, Or(chunk, BareChunk))
    IN <<data.web, data.retrievedContext,
         {{Items(snippets) : snippets \in sources} : sources \in data.maps}>>

MeaningOfSupport(given) ==
    LET support == Or(given, BareSupport)
    IN <<Items(support.indices), support.segment>>

MeaningOfGrounding(grounding) ==
    {[queries |-> Items(g.queries),
      entry |-> {Items(blob) : blob \in g.entry},
      chunks |-> Each(MeaningOfChunk, Items(g.chunks)),
      supports |-> Each(MeaningOfSupport, Items(g.supports)),
      uris |-> Items(g.uris)] : g \in grounding}

MeaningOfModality(count) == MeaningOfEnum(MediaModality, Or(count, NoName))
MeaningOfUsage(u) == {Each(MeaningOfModality, Items(counts)) : counts \in u}

MeaningOfCitation(citation) == Or(citation, 0)
MeaningOfCitations(c) == {Each(MeaningOfCitation, Items(citations)) : citations \in c}

MeaningOfCandidate(candidate) == Or(candidate, "")
MeaningOfTop(top) == Each(MeaningOfCandidate, Items(Or(top, Nil)))
MeaningOfLogprobs(result) ==
    {<<Each(MeaningOfCandidate, Items(l.chosen)), Each(MeaningOfTop, Items(l.top))>> :
        l \in result}

(* Nil for what is absent, in everything that is read. *)
ChunkReadsNil(chunk) ==
    chunk # Nil /\ \A x \in chunk : \A sources \in x.maps : EmptySlice \notin sources

GroundingReadsNil(grounding) ==
    \A g \in grounding :
        /\ g.queries # EmptySlice /\ g.chunks # EmptySlice
        /\ g.supports # EmptySlice /\ g.uris # EmptySlice /\ EmptySlice \notin g.entry
        /\ \A chunk \in Range(Items(g.chunks)) : ChunkReadsNil(chunk)
        /\ \A support \in Range(Items(g.supports)) :
              support # Nil /\ \A x \in support : x.indices # EmptySlice

LogprobsReadNil(result) ==
    \A l \in result :
        /\ l.chosen # EmptySlice /\ l.top # EmptySlice
        /\ \A top \in Range(Items(l.top)) : top # Nil /\ EmptySlice \notin top
===============================================================================
