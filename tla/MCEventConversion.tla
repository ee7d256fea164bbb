-------------------------- MODULE MCEventConversion --------------------------
(***************************************************************************)
(* Small instances of EventConversion: events that differ in one field     *)
(* from an event with nothing in it, or from one with something in every   *)
(* field.                                                                  *)
(***************************************************************************)
EXTENDS EventConversion, TLC

MCTempKey == {"temp:x"}

(* The value that is v where it is at the key or index k. *)
At(k, v) == {[n EXCEPT !.path = <<k>> \o @] : n \in v}
Holding(kind, f) == Only(kind) \cup UNION {At(k, f[k]) : k \in DOMAIN f}

String == Only("string")
IntValue == Only("int")
Float == Only("float")
Chan == Only("chan")
MapOf(f) == Holding("map", f)
Struct(f) == Holding("struct", f)
List(v) == Holding("list", "0" :> v)
Pair(v, w) == Holding("list", "0" :> v @@ "1" :> w)
Call(args) == Holding("call", [name |-> String, args |-> args])
Confirmation(v) == Holding("confirmation", [hint |-> String, payload |-> v])

Bare == [timestamp |-> 0, delta |-> NilMap, artifacts |-> Nil, confirmations |-> Nil,
         compaction |-> Nil, content |-> Nil, grounding |-> Nil, usage |-> Nil,
         citation |-> Nil, logprobs |-> Nil, customMetadata |-> NilMap, finishReason |-> NoName,
         toolIDs |-> Nil, requestedInput |-> Nil, output |-> NilValue]

Maps == {NilMap, EmptyMap} \cup {MapOf([x |-> v]) :
            v \in {NilValue, EmptyMap, Call(NilMap), List(Call(MapOf([x |-> IntValue]))),
                   Confirmation(MapOf([x |-> Float])), Struct([x |-> IntValue]), Chan}}
        \cup {MapOf([x |-> IntValue, y |-> Pair(IntValue, NilMap)])}

Deltas == Maps \cup {MapOf("temp:x" :> v) : v \in {String, Chan}}
               \cup {m \cup At("temp:x", Chan) : m \in Maps \ {NilMap}}

Payloads == {NilValue, String, IntValue, Chan, Pair(IntValue, String), MapOf([x |-> IntValue]),
             Struct([x |-> Struct([y |-> IntValue])])}
Outputs == Payloads \cup {EmptyMap, MapOf([x |-> EmptyMap])}
Confirmed == Payloads \cup {Call(MapOf([x |-> IntValue])), Confirmation(MapOf([x |-> IntValue]))}
EmptyObject == {MapOf([x |-> EmptyMap])}

(* The nil slice, and those of some lists. *)
Slices(lists) == {Nil} \cup {New(list) : list \in lists}

(* Lists of none, one or two of some elements, one of which may be nil. *)
Lists(elements) ==
    Slices({<<>>, <<Nil>>} \cup {<<New(x)>> : x \in elements}
             \cup {<<New(x), Nil>> : x \in elements})

Bytes == Slices({<<>>, <<7>>})

ResponseParts ==
    Slices({<<>>, <<Nil>>, <<New(BareResponsePart)>>,
              <<New([inlineData |-> New(New(<<>>)), fileData |-> Nil])>>,
              <<New([inlineData |-> New(New(<<7>>)), fileData |-> Nil]),
                New([inlineData |-> Nil, fileData |-> New("f")])>>})
Hi == [BarePart EXCEPT !.text = New("hi")]
CallWithChan == New(MapOf([x |-> Chan]))
Parts ==
    {[BarePart EXCEPT !.inlineData = New(b)] : b \in Bytes}
    \cup {[BarePart EXCEPT !.functionCall = New(args)] :
             args \in {NilMap, EmptyMap, MapOf([x |-> Call(NilMap)]), MapOf([x |-> Chan])}}
    \cup {[BarePart EXCEPT !.executableCode = New(name), !.fileData = f] :
             name \in NamesOf(Language), f \in {Nil, New("f")}}
    \cup {[BarePart EXCEPT !.functionResponse = New([response |-> r, parts |-> ps])] :
             r \in {EmptyMap, MapOf([x |-> IntValue]), MapOf([x |-> Chan])}, ps \in ResponseParts}
    \cup {[part EXCEPT !.signature = s, !.video = v] :
             part \in {BarePart, Hi}, s \in Bytes, v \in {Nil, New(0), New(5)}}
    \cup {[Hi EXCEPT !.functionCall = CallWithChan], [BarePart EXCEPT !.toolCall = New("t")]}
Contents == {Nil} \cup {New(s) : s \in Slices({<<>>, <<Nil>>} \cup {<<New(part)>> : part \in Parts})}

BareGrounding == [queries |-> Nil, entry |-> Nil, chunks |-> Nil, supports |-> Nil, uris |-> Nil]
Chunks ==
    {[BareChunk EXCEPT !.image = New("i")], [BareChunk EXCEPT !.web = New("u")],
     [BareChunk EXCEPT !.retrievedContext = New(Nil), !.maps = New(Nil)]}
    \cup {[BareChunk EXCEPT !.retrievedContext = New(c)] : c \in {Nil, New(Nil), New(New("1-2"))}}
    \cup {[BareChunk EXCEPT !.maps = New(New(s))] : s \in Slices({<<>>, <<New("s")>>})}
Supports == [indices : Slices({<<>>, <<0>>}), segment : {Nil, New("s")}]
Groundings ==
    {New(g) : g \in
        {[BareGrounding EXCEPT !.queries = q, !.entry = n] :
            q \in Slices({<<>>, <<"q">>}), n \in {Nil} \cup {New(b) : b \in Bytes}}
        \cup {[BareGrounding EXCEPT !.chunks = s] : s \in Lists(Chunks)}
        \cup {[BareGrounding EXCEPT !.supports = s, !.uris = u] :
                 s \in Lists(Supports), u \in Slices({<<>>, <<New("u")>>})}}

(* A nil element in each of the lists of pointers. *)
Snippets == New(New(New(<<New("s"), Nil>>)))
WithNil ==
    {[BareGrounding EXCEPT !.chunks = New(<<Nil>>)], [BareGrounding EXCEPT !.supports = New(<<Nil>>)],
     [BareGrounding EXCEPT !.chunks = New(<<New([BareChunk EXCEPT !.maps = Snippets])>>)],
     [BareGrounding EXCEPT !.uris = New(<<New("u"), Nil>>)]}
NilElementEvents ==
    {[Bare EXCEPT !.grounding = New(g), !.usage = u, !.citation = c] :
        g \in WithNil, u \in {Nil, New(New(<<Nil>>))}, c \in {Nil, New(New(<<Nil>>))}}

Tokens == Lists({"t"})

Options(field) ==
    CASE field = "timestamp" -> {0, 1, 1001}
      [] field = "delta" -> Deltas
      [] field = "artifacts" -> {Nil, New({}), New({<<"f", 3>>})}
      [] field = "confirmations" ->
            {Nil, New({})} \cup {New({[id |-> "c1", payload |-> v]}) : v \in Confirmed}
      [] field = "compaction" ->
            {Nil} \cup {New(c) : c \in [start : {0, 1001}, content : Contents,
                                       excluded : Slices({<<>>, <<1, 1001>>})]}
      [] field = "content" -> Contents
      [] field = "grounding" -> {Nil} \cup Groundings
      [] field = "usage" -> {Nil} \cup {New(s) : s \in Lists(NamesOf(MediaModality))}
      [] field = "citation" -> {Nil} \cup {New(s) : s \in Lists({0, 1001})}
      [] field = "logprobs" ->
            {Nil} \cup {New(l) : l \in [chosen : Tokens, top : Lists(Tokens)]}
      [] field = "customMetadata" -> Maps
      [] field = "finishReason" -> NamesOf(FinishReason)
      [] field = "toolIDs" -> Slices({<<>>, <<"t">>})
      [] field = "requestedInput" ->
            {Nil} \cup {New(in) : in \in [schema : {Nil, New("object"), New("anything")},
                                         payload : Outputs]}
      [] field = "output" -> Outputs

Stop == [prefix |-> "", rest |-> "STOP"]
Text == [prefix |-> "", rest |-> "TEXT"]
Full == [timestamp |-> 1001, delta |-> MapOf([x |-> IntValue]), artifacts |-> New({<<"f", 3>>}),
         confirmations |-> New({[id |-> "c1", payload |-> String]}),
         compaction |-> New([start |-> 1001, content |-> New(New(<<Nil>>)), excluded |-> New(<<1001>>)]),
         content |-> New(New(<<New(Hi)>>)),
         grounding |-> New([BareGrounding EXCEPT
                               !.chunks = New(<<Nil, New([BareChunk EXCEPT !.web = New("u")])>>)]),
         usage |-> New(New(<<New(Text)>>)), citation |-> New(New(<<New(1001)>>)),
         logprobs |-> New([chosen |-> New(<<New("t")>>), top |-> New(<<Nil>>)]),
         customMetadata |-> MapOf([x |-> IntValue]), finishReason |-> Stop,
         toolIDs |-> New(<<"t">>),
         requestedInput |-> New([schema |-> New("object"), payload |-> String]),
         output |-> IntValue]

MCEvents ==
    UNION {{[base EXCEPT ![f] = x] : base \in {Bare, Full}, x \in Options(f)} : f \in DOMAIN Bare}

(* The hypothesis of the proofs about what reads back holds of them. *)
ASSUME MCEventsAssumption == \A e \in MCEvents : NoNullObjects(e)

EmptyObjectEvents ==
    {[Bare EXCEPT !.confirmations = New({[id |-> "c1", payload |-> v]})] :
        v \in Confirmed \cup EmptyObject}
=============================================================================
