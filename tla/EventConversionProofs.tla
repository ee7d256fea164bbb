------------------------ MODULE EventConversionProofs ------------------------
(***************************************************************************)
(* Proofs about EventConversion: what an event reads back as.              *)
(*                                                                         *)
(* For every converter to the proto and its inverse, "...Back" is the one  *)
(* after the other, and up to three lemmas say what it does:               *)
(*   ...RoundTrip  what is read back says the same,                        *)
(*   ...ReadsNil   it has nil where there was nothing,                     *)
(*   ...Stable     going through again changes nothing, and all fits again.*)
(* They rest on the lemmas on values, where sanitizeValue and the encoders *)
(* change the kind of a node but never its path.  EventBack puts them      *)
(* together.  Two invariants make the theorems of it: an append answers by *)
(* what was given to it (Answered), and what is given is an event of       *)
(* Events, or was read back from the row of an earlier one (Origin).       *)
(***************************************************************************)
EXTENDS EventConversion, TLAPS

-----------------------------------------------------------------------------
(* Pointers, lists and oneofs. *)

LEMMA PointerCases ==
    ASSUME NEW S, NEW p \in Pointer(S)
    PROVE  p = Nil \/ \E x \in S : p = {x}
<1>1. p \in SUBSET S /\ \A x, y \in p : x = y
  BY DEF Pointer
<1>2. CASE p = {}
  BY <1>2 DEF Nil
<1>3. ASSUME NEW x \in p
      PROVE  x \in S /\ p = {x}
  <2>1. \A y \in p : y = x
    BY <1>1
  <2> QED BY <1>1, <2>1
<1> QED BY <1>2, <1>3

(* What a pointer that is not nil points to. *)
LEMMA DerefNew ==
    ASSUME NEW x
    PROVE  /\ Deref({x}) = x /\ {x} # Nil
           /\ \A zero : Or({x}, zero) = x /\ Or(Nil, zero) = zero
BY DEF Deref, Or, Nil

(* A list comes back out of the slice made of it. *)
LEMMA ItemsOfClone ==
    ASSUME NEW list
    PROVE  /\ Items(cloneOrNil(list)) = list
           /\ cloneOrNil(list) # EmptySlice
<1>1. CASE list = <<>>
  BY <1>1 DEF cloneOrNil, Items, Or, Nil, EmptySlice
<1>2. CASE list # <<>>
  <2>1. cloneOrNil(list) = {list}
    BY <1>2 DEF cloneOrNil
  <2> QED BY <1>2, <2>1, DerefNew DEF Items, EmptySlice
<1> QED BY <1>1, <1>2

(* The items of a slice, as a list of its type. *)
LEMMA ItemsTyped ==
    ASSUME NEW S, NEW slice \in Slice(S)
    PROVE  /\ \A i \in DOMAIN Items(slice) : Items(slice)[i] \in S
           /\ Items(slice) = [i \in DOMAIN Items(slice) |-> Items(slice)[i]]
<1>1. slice = Nil \/ \E list \in Seq(S) : slice = {list}
  BY PointerCases DEF Slice
<1> DEFINE list == Items(slice)
<1>2. list = <<>> \/ list \in Seq(S)
  BY <1>1, DerefNew DEF Items
<1> HIDE DEF list
<1>3. CASE list = <<>>
  <2>1. DOMAIN list = {} /\ list = [i \in DOMAIN list |-> list[i]]
    BY <1>3
  <2> QED BY <2>1 DEF list
<1>4. CASE list \in Seq(S)
  <2>1. list \in [1..Len(list) -> S]
    BY <1>4
  <2> QED BY <2>1 DEF list
<1> QED BY <1>2, <1>3, <1>4

(* Of the fields of a oneof at most one is not nil: a struct whose fields  *)
(* are nil where a oneof's are is a oneof itself.                          *)
LEMMA OneOfAgain ==
    ASSUME NEW order, NEW data, NEW again,
           \A i \in DOMAIN order : 1..(i - 1) \subseteq DOMAIN order,
           \A f \in Range(order) : again[f] = Nil <=> OneOf(order, data)[f] = Nil
    PROVE  \A f \in Range(order) : OneOf(order, again)[f] = again[f]
<1> TAKE f \in Range(order)
<1>1. CASE again[f] = Nil
  BY <1>1 DEF OneOf
<1>2. CASE again[f] # Nil
  <2>1. OneOf(order, data)[f] # Nil
    BY <1>2
  <2>2. PICK i \in DOMAIN order : order[i] = f /\ \A j \in 1..(i - 1) : data[order[j]] = Nil
    BY <2>1 DEF OneOf
  <2>3. \A j \in 1..(i - 1) : again[order[j]] = Nil
    <3> SUFFICES ASSUME NEW j \in 1..(i - 1)
                 PROVE  again[order[j]] = Nil
      OBVIOUS
    <3>1. j \in DOMAIN order
      OBVIOUS
    <3>2. order[j] \in Range(order)
      BY <3>1 DEF Range
    <3>3. OneOf(order, data)[order[j]] = Nil
      BY <2>2, <3>2 DEF OneOf
    <3> QED BY <3>2, <3>3
  <2> QED BY <2>2, <2>3 DEF OneOf
<1> QED BY <1>1, <1>2

-----------------------------------------------------------------------------
(* Values. *)

LEMMA OnlyNode ==
    ASSUME NEW k
    PROVE  /\ [path |-> <<>>, kind |-> k] \in Only(k)
           /\ \A n \in Only(k) : n.path = <<>> /\ n.kind = k
<1>1. ASSUME NEW n \in Only(k)
      PROVE  n.path = <<>> /\ n.kind = k
  BY DEF Only
<1> QED BY <1>1 DEF Only

(* How one node fares when it is sanitized and encoded. *)
LEMMA KindEncoded ==
    ASSUME NEW v, NEW n
    PROVE  /\ MeaningOfKind(EncodedKind(SanitizedKind(v, n), "map")) = MeaningOfKind(n.kind)
           /\ n.kind \notin Object => SanitizedKind(v, n) = n.kind
           /\ SanitizedKind(v, n) \in Object => n.kind \in Object
           /\ n.kind \in Object => SanitizedKind(v, n) \in Object
           /\ SanitizedKind(v, n) = "chan" => n.kind = "chan"
           /\ n.kind # "nil map" /\ HasChild(v, n) => SanitizedKind(v, n) # "nil map"
<1>1. SanitizedKind(v, n) \in {n.kind} \cup {"map", "nil map"}
  BY DEF SanitizedKind
<1>2. n.kind \notin Object => SanitizedKind(v, n) = n.kind
  BY DEF SanitizedKind, Object
<1>3. n.kind # "nil map" /\ HasChild(v, n) => SanitizedKind(v, n) # "nil map"
  BY DEF SanitizedKind
<1> QED
  BY <1>1, <1>2, <1>3 DEF EncodedKind, MeaningOfKind, Object

(* The nodes of what is sanitized, and of what is encoded, are those of    *)
(* the value, each of another kind.                                        *)
LEMMA NodesSanitized ==
    ASSUME NEW v
    PROVE  \A x : x \in sanitizeValue(v)
                  <=> \E n \in v : x = [path |-> n.path, kind |-> SanitizedKind(v, n)]
BY DEF sanitizeValue

LEMMA NodesEncoded ==
    ASSUME NEW v, NEW nilMap
    PROVE  \A x : x \in Encoded(v, nilMap)
                  <=> \E n \in v : x = [path |-> n.path, kind |-> EncodedKind(n.kind, nilMap)]
BY DEF Encoded

LEMMA NodesStored ==
    ASSUME NEW v, NEW nilMap
    PROVE  \A e : e \in Encoded(sanitizeValue(v), nilMap)
                  <=> \E n \in v : e = [path |-> n.path,
                                        kind |-> EncodedKind(SanitizedKind(v, n), nilMap)]
<1> SUFFICES ASSUME NEW e
             PROVE  e \in Encoded(sanitizeValue(v), nilMap)
                    <=> \E n \in v : e = [path |-> n.path,
                                          kind |-> EncodedKind(SanitizedKind(v, n), nilMap)]
  OBVIOUS
<1>1. ASSUME e \in Encoded(sanitizeValue(v), nilMap)
      PROVE  \E n \in v : e = [path |-> n.path,
                               kind |-> EncodedKind(SanitizedKind(v, n), nilMap)]
  <2>1. PICK x \in sanitizeValue(v) :
                e = [path |-> x.path, kind |-> EncodedKind(x.kind, nilMap)]
    BY <1>1, NodesEncoded
  <2>2. PICK n \in v : x = [path |-> n.path, kind |-> SanitizedKind(v, n)]
    BY <2>1, NodesSanitized
  <2> QED BY <2>1, <2>2
<1>2. ASSUME NEW n \in v,
             e = [path |-> n.path, kind |-> EncodedKind(SanitizedKind(v, n), nilMap)]
      PROVE  e \in Encoded(sanitizeValue(v), nilMap)
  <2> DEFINE x == [path |-> n.path, kind |-> SanitizedKind(v, n)]
  <2>1. x \in sanitizeValue(v)
    BY NodesSanitized
  <2>2. e = [path |-> x.path, kind |-> EncodedKind(x.kind, nilMap)]
    BY <1>2
  <2> HIDE DEF x
  <2> QED BY <2>1, <2>2, NodesEncoded
<1> QED BY <1>1, <1>2

LEMMA NodesOfMeaning ==
    ASSUME NEW v
    PROVE  \A x : x \in Meaning(v)
                  <=> \E n \in v : x = [path |-> n.path, kind |-> MeaningOfKind(n.kind)]
BY DEF Meaning

LEMMA MeaningOfEncoded ==
    ASSUME NEW v
    PROVE  Meaning(Encoded(sanitizeValue(v), "map")) = Meaning(v)
<1>1. ASSUME NEW m \in Meaning(Encoded(sanitizeValue(v), "map"))
      PROVE  m \in Meaning(v)
  <2>1. PICK e \in Encoded(sanitizeValue(v), "map") :
                m = [path |-> e.path, kind |-> MeaningOfKind(e.kind)]
    BY <1>1, NodesOfMeaning
  <2>2. PICK n \in v :
                e = [path |-> n.path, kind |-> EncodedKind(SanitizedKind(v, n), "map")]
    BY <2>1, NodesStored
  <2>3. m = [path |-> n.path, kind |-> MeaningOfKind(n.kind)]
    BY <2>1, <2>2, KindEncoded
  <2> QED BY <2>3, NodesOfMeaning
<1>2. ASSUME NEW m \in Meaning(v)
      PROVE  m \in Meaning(Encoded(sanitizeValue(v), "map"))
  <2>1. PICK n \in v : m = [path |-> n.path, kind |-> MeaningOfKind(n.kind)]
    BY <1>2, NodesOfMeaning
  <2> DEFINE e == [path |-> n.path, kind |-> EncodedKind(SanitizedKind(v, n), "map")]
  <2>2. e \in Encoded(sanitizeValue(v), "map")
    BY NodesStored
  <2>3. m = [path |-> e.path, kind |-> MeaningOfKind(e.kind)]
    BY <2>1, KindEncoded
  <2> HIDE DEF e
  <2> QED BY <2>2, <2>3, NodesOfMeaning
<1> QED BY <1>1, <1>2

(* What a map that is stored as a Struct reads back as. *)
StructBack(m) == structMap(structOrNil(sanitizeValue(m)))

LEMMA StructBackCases ==
    ASSUME NEW m
    PROVE  /\ m = Root(m) => StructBack(m) = NilMap
           /\ m # Root(m) => StructBack(m) = Encoded(sanitizeValue(m), "map")
<1>1. m = Root(m) <=> \A n \in m : n.path = <<>>
  BY DEF Root
<1>2. sanitizeValue(m) = Root(sanitizeValue(m)) <=> \A x \in sanitizeValue(m) : x.path = <<>>
  BY DEF Root
<1>3. (\A x \in sanitizeValue(m) : x.path = <<>>) <=> (\A n \in m : n.path = <<>>)
  <2>1. ASSUME \A n \in m : n.path = <<>>
        PROVE  \A x \in sanitizeValue(m) : x.path = <<>>
    BY <2>1, NodesSanitized
  <2>2. ASSUME \A x \in sanitizeValue(m) : x.path = <<>>, NEW n \in m
        PROVE  n.path = <<>>
    <3> DEFINE x == [path |-> n.path, kind |-> SanitizedKind(m, n)]
    <3>1. x \in sanitizeValue(m)
      BY NodesSanitized
    <3> QED BY <2>2, <3>1
  <2> QED BY <2>1, <2>2
<1>4. sanitizeValue(m) = Root(sanitizeValue(m)) <=> m = Root(m)
  BY <1>1, <1>2, <1>3
<1> QED BY <1>4, DerefNew DEF StructBack, structMap, structOrNil

LEMMA StructRoundTrip ==
    ASSUME NEW m \in GoMap
    PROVE  Meaning(StructBack(m)) = Meaning(m)
<1>1. PICK k \in {"map", "nil map"} : Root(m) = Only(k)
  BY DEF GoMap
<1>2. ASSUME NEW j \in {"map", "nil map"}
      PROVE  Meaning(Only(j)) = Only("map")
  <2>1. MeaningOfKind(j) = "map"
    BY DEF MeaningOfKind, Object
  <2>2. \A n \in Only(j) : n.path = <<>> /\ n.kind = j
    BY OnlyNode
  <2>3. [path |-> <<>>, kind |-> j] \in Only(j)
    BY OnlyNode
  <2>4. ASSUME NEW x \in Meaning(Only(j))
        PROVE  x = [path |-> <<>>, kind |-> "map"]
    <3>1. PICK n \in Only(j) : x = [path |-> n.path, kind |-> MeaningOfKind(n.kind)]
      BY <2>4, NodesOfMeaning
    <3> QED BY <2>1, <2>2, <3>1
  <2>5. [path |-> <<>>, kind |-> "map"] \in Meaning(Only(j))
    <3> DEFINE n == [path |-> <<>>, kind |-> j]
    <3>1. [path |-> <<>>, kind |-> "map"] = [path |-> n.path, kind |-> MeaningOfKind(n.kind)]
      BY <2>1
    <3> HIDE DEF n
    <3> QED BY <2>3, <3>1, NodesOfMeaning DEF n
  <2> QED BY <2>4, <2>5 DEF Only
<1> QED BY <1>1, <1>2, StructBackCases, MeaningOfEncoded DEF NilMap

(* What was read is plain: no number is an int, no object anything but a   *)
(* map.                                                                    *)
Plain(v) == \A n \in v : n.kind \notin {"int", "nil map", "struct", "call", "confirmation"}

LEMMA PlainStable ==
    ASSUME NEW v, Plain(v), \A n \in v : n = [path |-> n.path, kind |-> n.kind]
    PROVE  /\ Encoded(sanitizeValue(v), "map") = v
           /\ Encoded(v, "nil") = v
           /\ (\A n \in v : n.kind = "map" => HasChild(v, n)) => sanitizeValue(v) = v
<1>1. \A n \in v : ~WithinStruct(v, n)
  BY DEF WithinStruct, Plain
<1>2. \A n \in v : /\ EncodedKind(SanitizedKind(v, n), "map") = n.kind
                   /\ EncodedKind(n.kind, "nil") = n.kind
                   /\ (n.kind = "map" => HasChild(v, n)) => SanitizedKind(v, n) = n.kind
  BY <1>1 DEF EncodedKind, SanitizedKind, Object, Plain
<1>3. Encoded(sanitizeValue(v), "map") = v
  <2>1. \A n \in v : n = [path |-> n.path, kind |-> EncodedKind(SanitizedKind(v, n), "map")]
    BY <1>2
  <2>2. \A x : x \in Encoded(sanitizeValue(v), "map") <=> x \in v
    BY <2>1, NodesStored
  <2> QED BY <2>2
<1>4. Encoded(v, "nil") = v
  <2>1. \A n \in v : n = [path |-> n.path, kind |-> EncodedKind(n.kind, "nil")]
    BY <1>2
  <2>2. \A x : x \in Encoded(v, "nil") <=> x \in v
    BY <2>1, NodesEncoded
  <2> QED BY <2>2
<1>5. ASSUME \A n \in v : n.kind = "map" => HasChild(v, n)
      PROVE  sanitizeValue(v) = v
  <2>1. \A n \in v : n = [path |-> n.path, kind |-> SanitizedKind(v, n)]
    BY <1>2, <1>5
  <2>2. \A x : x \in sanitizeValue(v) <=> x \in v
    BY <2>1, NodesSanitized
  <2> QED BY <2>2
<1> QED BY <1>3, <1>4, <1>5

LEMMA EncodedPlain ==
    ASSUME NEW v, NEW nilMap \in {"map", "nil"}
    PROVE  /\ Plain(Encoded(v, nilMap))
           /\ \A n \in Encoded(v, nilMap) : n = [path |-> n.path, kind |-> n.kind]
<1> SUFFICES ASSUME NEW x \in Encoded(v, nilMap)
             PROVE  /\ x.kind \notin {"int", "nil map", "struct", "call", "confirmation"}
                    /\ x = [path |-> x.path, kind |-> x.kind]
  BY DEF Plain
<1>1. PICK n \in v : x = [path |-> n.path, kind |-> EncodedKind(n.kind, nilMap)]
  BY NodesEncoded
<1>2. EncodedKind(n.kind, nilMap)
        \notin {"int", "nil map", "struct", "call", "confirmation"}
  BY DEF EncodedKind, Object
<1> QED BY <1>1, <1>2

(* What a map read back as reads back as itself, and still fits. *)
LEMMA StructStable ==
    ASSUME NEW m
    PROVE  /\ StructBack(StructBack(m)) = StructBack(m)
           /\ StructBack(m) # EmptyMap
           /\ StructFits(sanitizeValue(m)) => StructFits(sanitizeValue(StructBack(m)))
<1>1. CASE m = Root(m)
  <2>1. StructBack(m) = NilMap
    BY <1>1, StructBackCases
  <2>2. NilMap = Root(NilMap) /\ NilMap # EmptyMap
    <3>1. \A n \in NilMap : n.path = <<>> /\ n.kind = "nil map"
      BY OnlyNode DEF NilMap
    <3>2. \A n \in EmptyMap : n.kind = "map"
      BY OnlyNode DEF EmptyMap
    <3>3. EmptyMap # {}
      BY OnlyNode DEF EmptyMap
    <3>4. \A n : n \in Root(NilMap) <=> n \in NilMap
      BY <3>1 DEF Root
    <3>5. NilMap = Root(NilMap)
      BY <3>4
    <3> QED BY <3>1, <3>2, <3>3, <3>5
  <2>3. StructFits(sanitizeValue(NilMap))
    <3>1. \A n \in NilMap : n.path = <<>> /\ n.kind = "nil map"
      BY OnlyNode DEF NilMap
    <3>2. \A n \in NilMap : SanitizedKind(NilMap, n) = "nil map"
      BY <3>1 DEF SanitizedKind
    <3>3. ASSUME NEW x \in sanitizeValue(NilMap)
          PROVE  x.kind = "nil map"
      <4>1. PICK n \in NilMap : x = [path |-> n.path, kind |-> SanitizedKind(NilMap, n)]
        BY NodesSanitized
      <4> QED BY <3>2, <4>1
    <3> QED BY <3>3 DEF StructFits
  <2> QED BY <2>1, <2>2, <2>3, StructBackCases
<1>2. CASE m # Root(m)
  <2> DEFINE b == Encoded(sanitizeValue(m), "map")
  <2>1. StructBack(m) = b
    BY <1>2, StructBackCases
  <2>2. Plain(b) /\ \A n \in b : n = [path |-> n.path, kind |-> n.kind]
    BY EncodedPlain
  <2>3. \A n \in m : \E x \in b : x.path = n.path
    <3> SUFFICES ASSUME NEW n \in m
                 PROVE  \E x \in b : x.path = n.path
      OBVIOUS
    <3> DEFINE x == [path |-> n.path, kind |-> EncodedKind(SanitizedKind(m, n), "map")]
    <3>1. x \in b
      BY NodesStored
    <3> QED BY <3>1
  <2>4. \E n \in m : n.path # <<>>
    BY <1>2 DEF Root
  <2>5. \E x \in b : x.path # <<>>
    BY <2>3, <2>4
  <2>6. b # Root(b) /\ b # EmptyMap
    BY <2>5 DEF Root, EmptyMap, Only
  <2>7. ASSUME StructFits(sanitizeValue(m)), NEW y \in sanitizeValue(b)
        PROVE  y.kind \notin {"struct", "call", "confirmation", "chan"}
    <3>1. PICK x \in b : y = [path |-> x.path, kind |-> SanitizedKind(b, x)]
      BY <2>7, NodesSanitized
    <3>2. PICK n \in sanitizeValue(m) :
                  x = [path |-> n.path, kind |-> EncodedKind(n.kind, "map")]
      BY <3>1, NodesEncoded
    <3>3. n.kind # "chan"
      BY <2>7, <3>2 DEF StructFits
    <3>4. x.kind # "chan"
      BY <3>2, <3>3 DEF EncodedKind, Object
    <3>5. x.kind \notin {"struct", "call", "confirmation"}
      BY <2>2, <3>1 DEF Plain
    <3> QED BY <3>1, <3>4, <3>5 DEF SanitizedKind
  <2> HIDE DEF b
  <2>8. StructFits(sanitizeValue(m)) => StructFits(sanitizeValue(b))
    BY <2>7 DEF StructFits
  <2>9. StructBack(b) = b
    BY <2>2, <2>6, StructBackCases, PlainStable
  <2> QED BY <2>1, <2>6, <2>8, <2>9
<1> QED BY <1>1, <1>2

(* What a value that is stored as JSON reads back as. *)
JSONBack(v) == valueToAny(jsonValue(v))

LEMMA JSONBackIs ==
    ASSUME NEW v
    PROVE  JSONBack(v) = Encoded(v, "nil")
<1>1. CASE v = NilValue
  <2>1. EncodedKind("nil", "nil") = "nil"
    BY DEF EncodedKind, Object
  <2>2. \A n \in NilValue : n.path = <<>> /\ n.kind = "nil"
    BY DEF NilValue, Only
  <2>3. [path |-> <<>>, kind |-> "nil"] \in NilValue
    BY DEF NilValue, Only
  <2>4. \A x : x \in Encoded(NilValue, "nil") <=> x = [path |-> <<>>, kind |-> "nil"]
    BY <2>1, <2>2, <2>3, NodesEncoded
  <2>5. Encoded(NilValue, "nil") = NilValue
    BY <2>4 DEF NilValue, Only
  <2> QED BY <1>1, <2>5, DerefNew DEF JSONBack, valueToAny, jsonValue
<1>2. CASE v # NilValue
  BY <1>2, DerefNew DEF JSONBack, valueToAny, jsonValue
<1> QED BY <1>1, <1>2

LEMMA JSONRoundTrip ==
    ASSUME NEW v, NoNilMap(v)
    PROVE  Meaning(JSONBack(v)) = Meaning(v)
<1>1. \A n \in v : MeaningOfKind(EncodedKind(n.kind, "nil")) = MeaningOfKind(n.kind)
  BY DEF NoNilMap, MeaningOfKind, EncodedKind, Object
<1>2. ASSUME NEW m \in Meaning(Encoded(v, "nil"))
      PROVE  m \in Meaning(v)
  <2>1. PICK e \in Encoded(v, "nil") : m = [path |-> e.path, kind |-> MeaningOfKind(e.kind)]
    BY <1>2, NodesOfMeaning
  <2>2. PICK n \in v : e = [path |-> n.path, kind |-> EncodedKind(n.kind, "nil")]
    BY <2>1, NodesEncoded
  <2>3. m = [path |-> n.path, kind |-> MeaningOfKind(n.kind)]
    BY <1>1, <2>1, <2>2
  <2> QED BY <2>3, NodesOfMeaning
<1>3. ASSUME NEW m \in Meaning(v)
      PROVE  m \in Meaning(Encoded(v, "nil"))
  <2>1. PICK n \in v : m = [path |-> n.path, kind |-> MeaningOfKind(n.kind)]
    BY <1>3, NodesOfMeaning
  <2> DEFINE e == [path |-> n.path, kind |-> EncodedKind(n.kind, "nil")]
  <2>2. e \in Encoded(v, "nil")
    BY NodesEncoded
  <2>3. m = [path |-> e.path, kind |-> MeaningOfKind(e.kind)]
    BY <1>1, <2>1
  <2> HIDE DEF e
  <2> QED BY <2>2, <2>3, NodesOfMeaning
<1> QED BY <1>2, <1>3, JSONBackIs

LEMMA JSONStable ==
    ASSUME NEW v
    PROVE  /\ JSONBack(JSONBack(v)) = JSONBack(v)
           /\ JSONFits(v) => JSONFits(JSONBack(v))
<1> DEFINE b == Encoded(v, "nil")
<1>1. Encoded(b, "nil") = b
  BY EncodedPlain, PlainStable
<1>2. ASSUME JSONFits(v), NEW x \in b
      PROVE  x.kind # "chan"
  <2>1. PICK n \in v : x = [path |-> n.path, kind |-> EncodedKind(n.kind, "nil")]
    BY <1>2, NodesEncoded
  <2>2. n.kind # "chan"
    BY <1>2, <2>1 DEF JSONFits
  <2> QED BY <2>1, <2>2 DEF EncodedKind, Object
<1> HIDE DEF b
<1> QED BY <1>1, <1>2, JSONBackIs DEF JSONFits, b

(* What the payload of a confirmation reads back as, which is sanitized    *)
(* before it is stored as JSON.                                            *)
PayloadBack(v) == JSONBack(sanitizeValue(v))

LEMMA PayloadRoundTrip ==
    ASSUME NEW v, Inhabited(v)
    PROVE  Meaning(PayloadBack(v)) = Meaning(v)
<1>1. \A n \in v : MeaningOfKind(EncodedKind(SanitizedKind(v, n), "nil"))
                     = MeaningOfKind(n.kind)
  <2> SUFFICES ASSUME NEW n \in v
               PROVE  MeaningOfKind(EncodedKind(SanitizedKind(v, n), "nil"))
                        = MeaningOfKind(n.kind)
    OBVIOUS
  <2>1. SanitizedKind(v, n) # "nil map"
    <3>1. n.kind \in Object => n.kind # "nil map" /\ HasChild(v, n)
      BY DEF Inhabited
    <3> QED BY <3>1, KindEncoded DEF Object
  <2>2. EncodedKind(SanitizedKind(v, n), "nil") = EncodedKind(SanitizedKind(v, n), "map")
    <3> DEFINE k == SanitizedKind(v, n)
    <3> HIDE DEF k
    <3>1. k # "nil map" => EncodedKind(k, "nil") = EncodedKind(k, "map")
      BY DEF EncodedKind, Object
    <3> QED BY <2>1, <3>1 DEF k
  <2> QED BY <2>2, KindEncoded
<1>2. ASSUME NEW m \in Meaning(Encoded(sanitizeValue(v), "nil"))
      PROVE  m \in Meaning(v)
  <2>1. PICK e \in Encoded(sanitizeValue(v), "nil") :
                m = [path |-> e.path, kind |-> MeaningOfKind(e.kind)]
    BY <1>2, NodesOfMeaning
  <2>2. PICK n \in v : e = [path |-> n.path, kind |-> EncodedKind(SanitizedKind(v, n), "nil")]
    BY <2>1, NodesStored
  <2>3. m = [path |-> n.path, kind |-> MeaningOfKind(n.kind)]
    BY <1>1, <2>1, <2>2
  <2> QED BY <2>3, NodesOfMeaning
<1>3. ASSUME NEW m \in Meaning(v)
      PROVE  m \in Meaning(Encoded(sanitizeValue(v), "nil"))
  <2>1. PICK n \in v : m = [path |-> n.path, kind |-> MeaningOfKind(n.kind)]
    BY <1>3, NodesOfMeaning
  <2> DEFINE e == [path |-> n.path, kind |-> EncodedKind(SanitizedKind(v, n), "nil")]
  <2>2. e \in Encoded(sanitizeValue(v), "nil")
    BY NodesStored
  <2>3. m = [path |-> e.path, kind |-> MeaningOfKind(e.kind)]
    BY <1>1, <2>1
  <2> HIDE DEF e
  <2> QED BY <2>2, <2>3, NodesOfMeaning
<1> QED BY <1>2, <1>3, JSONBackIs DEF PayloadBack

LEMMA PayloadStable ==
    ASSUME NEW v, NoEmptyStruct(v)
    PROVE  /\ PayloadBack(PayloadBack(v)) = PayloadBack(v)
           /\ JSONFits(sanitizeValue(v)) => JSONFits(sanitizeValue(PayloadBack(v)))
<1> DEFINE b == Encoded(sanitizeValue(v), "nil")
<1>1. ASSUME NEW x \in b, x.kind = "map"
      PROVE  HasChild(b, x)
  <2>1. PICK n \in v : x = [path |-> n.path, kind |-> EncodedKind(SanitizedKind(v, n), "nil")]
    BY <1>1, NodesStored
  <2>2. HasChild(v, n)
    <3>1. SanitizedKind(v, n) \in Object \ {"nil map"}
      BY <1>1, <2>1 DEF EncodedKind, Object
    <3>2. n.kind \in Object
      BY <3>1, KindEncoded
    <3>3. CASE n.kind = "nil map"
      BY <3>1, <3>3 DEF SanitizedKind
    <3>4. CASE n.kind = "map" /\ ~WithinStruct(v, n)
      BY <3>1, <3>4 DEF SanitizedKind
    <3> QED BY <3>2, <3>3, <3>4 DEF NoEmptyStruct
  <2>3. PICK c \in v : IsStrictPrefix(n.path, c.path)
    BY <2>2 DEF HasChild
  <2> DEFINE y == [path |-> c.path, kind |-> EncodedKind(SanitizedKind(v, c), "nil")]
  <2>4. y \in b /\ y.path = c.path
    BY NodesStored
  <2>5. x.path = n.path
    BY <2>1
  <2> HIDE DEF y, b
  <2> QED BY <2>3, <2>4, <2>5 DEF HasChild
<1>2. Plain(b) /\ \A n \in b : n = [path |-> n.path, kind |-> n.kind]
  BY EncodedPlain
<1>3. PayloadBack(v) = b
  BY JSONBackIs DEF PayloadBack
<1> HIDE DEF b
<1>4. sanitizeValue(b) = b
  BY <1>1, <1>2, PlainStable
<1>5. PayloadBack(b) = b
  BY <1>2, <1>4, PlainStable, JSONBackIs DEF PayloadBack
<1>6. JSONFits(sanitizeValue(v)) => JSONFits(sanitizeValue(b))
  BY <1>3, <1>4, JSONStable DEF PayloadBack
<1> QED BY <1>3, <1>5, <1>6

(* What a state delta reads back as. *)
DeltaBack(m) == StructBack(trimTempKeys(m))

LEMMA DurableRead ==
    ASSUME NEW m
    PROVE  trimTempKeys(DeltaBack(m)) = DeltaBack(m)
<1> DEFINE t == trimTempKeys(m)
<1>1. ASSUME NEW x \in StructBack(t)
      PROVE  Durable(x)
  <2>1. CASE StructBack(t) = NilMap
    <3>1. \A n \in NilMap : n.path = <<>>
      BY OnlyNode DEF NilMap
    <3> QED BY <1>1, <2>1, <3>1 DEF Durable
  <2>2. CASE StructBack(t) = Encoded(sanitizeValue(t), "map")
    <3>1. PICK n \in t : x = [path |-> n.path, kind |-> EncodedKind(SanitizedKind(t, n), "map")]
      BY <1>1, <2>2, NodesStored
    <3>2. Durable(n) /\ x.path = n.path
      BY <3>1 DEF trimTempKeys
    <3> QED BY <3>2 DEF Durable
  <2> QED BY <2>1, <2>2, StructBackCases
<1> QED BY <1>1 DEF DeltaBack, trimTempKeys

LEMMA TrimmedIsMap ==
    ASSUME NEW m \in GoMap
    PROVE  trimTempKeys(m) \in GoMap
<1>1. Root(trimTempKeys(m)) = Root(m)
  BY DEF Root, trimTempKeys, Durable
<1>2. trimTempKeys(m) \in SUBSET Node
  BY DEF trimTempKeys, GoMap, Value
<1>3. trimTempKeys(m) \in Value
  BY <1>1, <1>2 DEF GoMap, Value
<1> QED BY <1>1, <1>3 DEF GoMap

LEMMA DeltaRoundTrip ==
    ASSUME NEW m \in GoMap
    PROVE  Meaning(DeltaBack(m)) = Meaning({n \in m : Durable(n)})
BY TrimmedIsMap, StructRoundTrip DEF trimTempKeys, DeltaBack

LEMMA DeltaStable ==
    ASSUME NEW m
    PROVE  /\ DeltaBack(DeltaBack(m)) = DeltaBack(m)
           /\ DeltaBack(m) # EmptyMap
           /\ StructFits(sanitizeValue(trimTempKeys(m)))
                => StructFits(sanitizeValue(trimTempKeys(DeltaBack(m))))
BY DurableRead, StructStable DEF DeltaBack

-----------------------------------------------------------------------------
(* Names. *)

(* What a name reads back as. *)
NameBack(enum, name) == enumFromProto(enum, enumToProto(enum, name))

LEMMA Enums ==
    ASSUME NEW enum \in {FinishReason, Language, MediaModality}
    PROVE  enum.zero \notin enum.others /\ "" \notin enum.others \cup {enum.zero}
<1>1. CASE enum = FinishReason
  BY <1>1 DEF FinishReason
<1>2. CASE enum = Language
  BY <1>2 DEF Language
<1>3. CASE enum = MediaModality
  BY <1>3 DEF MediaModality
<1> QED BY <1>1, <1>2, <1>3

LEMMA NamesStable ==
    ASSUME NEW enum \in {FinishReason, Language, MediaModality}, NEW name
    PROVE  NameBack(enum, NameBack(enum, name)) = NameBack(enum, name)
<1> DEFINE value == enumToProto(enum, name)
           back == [prefix |-> "", rest |-> value]
<1>1. value \in enum.others \cup {enum.zero}
  BY DEF enumToProto
<1>2. NoName.rest = "" /\ back.prefix = "" /\ back.rest = value
  BY DEF NoName
<1> HIDE DEF value, back
<1>3. CASE value \in enum.others
  <2>1. NameBack(enum, name) = back
    BY <1>3, Enums DEF NameBack, enumFromProto, value, back
  <2>2. NameBack(enum, back) = back
    BY <1>2, <1>3, Enums DEF NameBack, enumToProto, enumFromProto, back
  <2> QED BY <2>1, <2>2
<1>4. CASE value = enum.zero
  <2>1. NameBack(enum, name) = NoName
    BY <1>4 DEF NameBack, enumFromProto, value
  <2>2. NameBack(enum, NoName) = NoName
    BY <1>2, Enums DEF NameBack, enumToProto, enumFromProto
  <2> QED BY <2>1, <2>2
<1> QED BY <1>1, <1>3, <1>4

LEMMA NamesRoundTrip ==
    ASSUME NEW enum \in {FinishReason, Language, MediaModality}, NEW name \in NamesOf(enum)
    PROVE  MeaningOfEnum(enum, NameBack(enum, name)) = MeaningOfEnum(enum, name)
<1>1. NoName.rest = ""
  BY DEF NoName
<1>2. \/ name = NoName
      \/ name.prefix \in {"", enum.prefix} /\ name.rest \in enum.others \cup {enum.zero}
  BY DEF NamesOf
<1>3. CASE name.rest \in enum.others
  <2>1. name.prefix \in {"", enum.prefix}
    BY <1>1, <1>2, <1>3, Enums
  <2> DEFINE back == [prefix |-> "", rest |-> name.rest]
  <2>2. NameBack(enum, name) = back
    BY <1>3, <2>1, Enums DEF NameBack, enumToProto, enumFromProto
  <2>3. back.rest = name.rest
    OBVIOUS
  <2> HIDE DEF back
  <2> QED BY <2>2, <2>3 DEF MeaningOfEnum
<1>4. CASE name.rest \notin enum.others
  <2>1. name.rest \in {"", enum.zero}
    BY <1>1, <1>2, <1>4
  <2>2. NameBack(enum, name) = NoName
    BY <1>4 DEF NameBack, enumToProto, enumFromProto
  <2> QED BY <1>1, <2>1, <2>2 DEF MeaningOfEnum
<1> QED BY <1>3, <1>4

-----------------------------------------------------------------------------
(* Contents. *)

(* What the byte slices of a set read back as. *)
Blobs(S) == {cloneOrNil(bytes) : bytes \in {Items(b) : b \in S}}

LEMMA BlobsStable ==
    ASSUME NEW S
    PROVE  /\ {Items(b) : b \in Blobs(S)} = {Items(b) : b \in S}
           /\ Blobs(Blobs(S)) = Blobs(S)
           /\ EmptySlice \notin Blobs(S)
           /\ Blobs(S) = Nil <=> S = Nil
<1>1. {Items(b) : b \in Blobs(S)} = {Items(b) : b \in S}
  BY ItemsOfClone DEF Blobs
<1>2. Blobs(Blobs(S)) = Blobs(S)
  BY <1>1 DEF Blobs
<1>3. EmptySlice \notin Blobs(S)
  BY ItemsOfClone DEF Blobs
<1>4. Blobs(S) = Nil <=> S = Nil
  BY DEF Blobs, Nil
<1> QED BY <1>1, <1>2, <1>3, <1>4

LEMMA Orders ==
    /\ \A order \in {DataOrder, ResponsePartOrder, ChunkOrder} :
          \A i \in DOMAIN order : 1..(i - 1) \subseteq DOMAIN order
    /\ Range(DataOrder) = {"text", "inlineData", "fileData", "functionCall",
                           "functionResponse", "executableCode"}
    /\ Range(ResponsePartOrder) = {"inlineData", "fileData"}
    /\ Range(ChunkOrder) = {"web", "retrievedContext", "maps"}
<1>1. /\ DOMAIN DataOrder = 1..6 /\ DOMAIN ResponsePartOrder = 1..2
      /\ DOMAIN ChunkOrder = 1..3
  BY DEF DataOrder, ResponsePartOrder, ChunkOrder
<1>2. Range(DataOrder) = {"text", "inlineData", "fileData", "functionCall",
                          "functionResponse", "executableCode"}
  BY DEF DataOrder, Range
<1>3. Range(ResponsePartOrder) = {"inlineData", "fileData"}
  BY DEF ResponsePartOrder, Range
<1>4. Range(ChunkOrder) = {"web", "retrievedContext", "maps"}
  BY DEF ChunkOrder, Range
<1> QED BY <1>1, <1>2, <1>3, <1>4

(* What a part of a function response reads back as. *)
ResponsePartBack(part) == functionResponsePartFromProto(functionResponsePartToProto(part))

LEMMA ResponsePartStable ==
    ASSUME NEW part
    PROVE  /\ MeaningOfResponsePart(ResponsePartBack(part)) = MeaningOfResponsePart(part)
           /\ ResponsePartBack(ResponsePartBack(part)) = ResponsePartBack(part)
           /\ ResponsePartReadsNil(ResponsePartBack(part))
<1> DEFINE y == Or(part, BareResponsePart)
           d == OneOf(ResponsePartOrder, y)
           x == [inlineData |-> Blobs(d.inlineData), fileData |-> d.fileData]
           e == OneOf(ResponsePartOrder, x)
<1>1. ResponsePartBack(part) = {x}
  BY DEF ResponsePartBack, functionResponsePartFromProto, functionResponsePartToProto, New, Blobs
<1>2. x.inlineData = Blobs(d.inlineData) /\ x.fileData = d.fileData
  OBVIOUS
<1> HIDE DEF x, d, y
<1>3. Or(ResponsePartBack(part), BareResponsePart) = x
  BY <1>1, DerefNew
<1>4. \A f \in Range(ResponsePartOrder) : x[f] = Nil <=> d[f] = Nil
  BY <1>2, Orders, BlobsStable
<1>5. e.inlineData = x.inlineData /\ e.fileData = x.fileData
  BY <1>4, Orders, OneOfAgain DEF d
<1> HIDE DEF e
<1>6. MeaningOfResponsePart(ResponsePartBack(part)) = MeaningOfResponsePart(part)
  BY <1>2, <1>3, <1>5, BlobsStable DEF MeaningOfResponsePart, e, d, y
<1>7. ResponsePartBack({x}) = {[inlineData |-> Blobs(e.inlineData), fileData |-> e.fileData]}
  BY <1>1, <1>3
     DEF ResponsePartBack, functionResponsePartFromProto, functionResponsePartToProto, New, Blobs, e
<1>8. [inlineData |-> Blobs(e.inlineData), fileData |-> e.fileData] = x
  BY <1>2, <1>5, BlobsStable DEF x
<1>9. ResponsePartReadsNil({x})
  BY <1>2, BlobsStable DEF ResponsePartReadsNil, Nil
<1> QED BY <1>1, <1>6, <1>7, <1>8, <1>9

(* What a function response reads back as. *)
ResponsePartsBack(list) == [i \in DOMAIN list |-> ResponsePartBack(list[i])]
ResponseBack(r) ==
    [response |-> StructBack(r.response),
     parts |-> cloneOrNil(ResponsePartsBack(Items(r.parts)))]

LEMMA ResponseBackIs ==
    ASSUME NEW r
    PROVE  functionResponseFromProto(functionResponseToProto(r)) = ResponseBack(r)
<1> DEFINE list == Items(r.parts)
           p == functionResponseToProto(r)
<1>1. /\ p.response = structOrNil(sanitizeValue(r.response))
      /\ p.parts = [i \in DOMAIN list |-> functionResponsePartToProto(list[i])]
  BY DEF functionResponseToProto, Each
<1> HIDE DEF p
<1>2. Each(functionResponsePartFromProto, p.parts)
        = [i \in DOMAIN list |-> ResponsePartBack(list[i])]
  BY <1>1 DEF Each, ResponsePartBack
<1>3. functionResponseFromProto(p)
        = [response |-> StructBack(r.response),
           parts |-> cloneOrNil([i \in DOMAIN list |-> ResponsePartBack(list[i])])]
  BY <1>1, <1>2 DEF functionResponseFromProto, StructBack
<1> QED BY <1>3 DEF ResponseBack, ResponsePartsBack, p

LEMMA ResponseStable ==
    ASSUME NEW r
    PROVE  /\ ResponseBack(ResponseBack(r)) = ResponseBack(r)
           /\ r.response \in GoMap => MeaningOfResponse(ResponseBack(r)) = MeaningOfResponse(r)
           /\ ResponseBack(r).response # EmptyMap /\ ResponseBack(r).parts # EmptySlice
           /\ \A y \in Range(Items(ResponseBack(r).parts)) : ResponsePartReadsNil(y)
           /\ StructFits(sanitizeValue(r.response))
                => StructFits(sanitizeValue(ResponseBack(r).response))
<1> DEFINE b == ResponseBack(r)
           list == Items(r.parts)
<1>1. b.response = StructBack(r.response) /\ b.parts = cloneOrNil(ResponsePartsBack(list))
  BY DEF ResponseBack
<1> HIDE DEF b
<1>2. Items(b.parts) = [i \in DOMAIN list |-> ResponsePartBack(list[i])] /\ b.parts # EmptySlice
  BY <1>1, ItemsOfClone DEF ResponsePartsBack
<1> HIDE DEF list
<1>3. ResponsePartsBack(Items(b.parts)) = ResponsePartsBack(list)
  BY <1>2, ResponsePartStable DEF ResponsePartsBack
<1>4. ResponseBack(b) = b
  BY <1>1, <1>3, StructStable DEF ResponseBack, b, list
<1>5. [i \in DOMAIN Items(b.parts) |-> MeaningOfResponsePart(Items(b.parts)[i])]
        = [i \in DOMAIN list |-> MeaningOfResponsePart(list[i])]
  BY <1>2, ResponsePartStable
<1>6. r.response \in GoMap => MeaningOfResponse(b) = MeaningOfResponse(r)
  BY <1>1, <1>5, StructRoundTrip DEF MeaningOfResponse, Each, list
<1>7. \A y \in Range(Items(b.parts)) : ResponsePartReadsNil(y)
  BY <1>2, ResponsePartStable DEF Range
<1> QED BY <1>1, <1>2, <1>4, <1>6, <1>7, StructStable DEF b


(* What a part reads back as: d is the first populated field of its data.  *)
PartData(part) == OneOf(DataOrder, Or(part, BarePart))
PartRead(d, signature, video) ==
    [text |-> d.text, inlineData |-> Blobs(d.inlineData), fileData |-> d.fileData,
     functionCall |-> {StructBack(args) : args \in d.functionCall},
     functionResponse |-> {ResponseBack(r) : r \in d.functionResponse},
     executableCode |-> {NameBack(Language, name) : name \in d.executableCode},
     toolCall |-> Nil, signature |-> cloneOrNil(Items(signature)), video |-> video]
PartBack(part) == {PartRead(PartData(part), Or(part, BarePart).signature, Or(part, BarePart).video)}

LEMMA TimesRoundTrip ==
    ASSUME NEW t
    PROVE  timeFromProto(timestampOrNil(t)) = t
BY DerefNew DEF timeFromProto, timestampOrNil

LEMMA PartBackIs ==
    ASSUME NEW part
    PROVE  partFromProto(partToProto(part)) = PartBack(part)
<1> DEFINE x == Or(part, BarePart)
           d == PartData(part)
           p == partToProto(part)
<1>1. /\ p.text = d.text /\ p.fileData = d.fileData
      /\ p.inlineData = {Items(bytes) : bytes \in d.inlineData}
      /\ p.functionCall = {structOrNil(sanitizeValue(args)) : args \in d.functionCall}
      /\ p.functionResponse = {functionResponseToProto(r) : r \in d.functionResponse}
      /\ p.executableCode = {enumToProto(Language, name) : name \in d.executableCode}
      /\ p.signature = Items(x.signature)
      /\ p.video = {timestampOrNil(start) : start \in x.video}
  BY DEF partToProto, PartData
<1> HIDE DEF p, d, x
<1>2. {cloneOrNil(bytes) : bytes \in p.inlineData} = Blobs(d.inlineData)
  BY <1>1 DEF Blobs
<1>3. {structMap(args) : args \in p.functionCall} = {StructBack(args) : args \in d.functionCall}
  BY <1>1 DEF StructBack
<1>4. {functionResponseFromProto(r) : r \in p.functionResponse}
        = {ResponseBack(r) : r \in d.functionResponse}
  BY <1>1, ResponseBackIs
<1>5. {enumFromProto(Language, value) : value \in p.executableCode}
        = {NameBack(Language, name) : name \in d.executableCode}
  BY <1>1 DEF NameBack
<1>6. {timeFromProto(start) : start \in p.video} = x.video
  BY <1>1, TimesRoundTrip
<1>7. partFromProto(p) = {PartRead(d, x.signature, x.video)}
  BY <1>1, <1>2, <1>3, <1>4, <1>5, <1>6 DEF partFromProto, New, PartRead
<1> QED BY <1>7 DEF PartBack, p, d, x

(* The fields of a part that was read. *)
LEMMA PartReadIs ==
    ASSUME NEW d, NEW signature, NEW video
    PROVE  LET x == PartRead(d, signature, video)
           IN /\ x.text = d.text /\ x.fileData = d.fileData
              /\ x.inlineData = Blobs(d.inlineData)
              /\ x.functionCall = {StructBack(args) : args \in d.functionCall}
              /\ x.functionResponse = {ResponseBack(r) : r \in d.functionResponse}
              /\ x.executableCode = {NameBack(Language, name) : name \in d.executableCode}
              /\ x.toolCall = Nil /\ x.signature = cloneOrNil(Items(signature))
              /\ x.video = video
BY DEF PartRead

(* It is its own first populated field. *)
LEMMA PartDataAgain ==
    ASSUME NEW part
    PROVE  LET x == PartRead(PartData(part), Or(part, BarePart).signature,
                             Or(part, BarePart).video)
               e == PartData(PartBack(part))
           IN /\ Or(PartBack(part), BarePart) = x
              /\ e.text = x.text /\ e.fileData = x.fileData /\ e.inlineData = x.inlineData
              /\ e.functionCall = x.functionCall /\ e.functionResponse = x.functionResponse
              /\ e.executableCode = x.executableCode
<1> DEFINE d == PartData(part)
           signature == Or(part, BarePart).signature
           video == Or(part, BarePart).video
           x == PartRead(d, signature, video)
<1>1. Or(PartBack(part), BarePart) = x
  BY DerefNew DEF PartBack
<1> HIDE DEF d, signature, video
<1>2. /\ x.text = d.text /\ x.fileData = d.fileData
      /\ x.inlineData = Blobs(d.inlineData)
      /\ x.functionCall = {StructBack(args) : args \in d.functionCall}
      /\ x.functionResponse = {ResponseBack(r) : r \in d.functionResponse}
      /\ x.executableCode = {NameBack(Language, name) : name \in d.executableCode}
  BY PartReadIs
<1> HIDE DEF x
<1>3. /\ x.functionCall = Nil <=> d.functionCall = Nil
      /\ x.functionResponse = Nil <=> d.functionResponse = Nil
      /\ x.executableCode = Nil <=> d.executableCode = Nil
      /\ x.inlineData = Nil <=> d.inlineData = Nil
  BY <1>2, BlobsStable DEF Nil
<1>4. \A f \in Range(DataOrder) : x[f] = Nil <=> d[f] = Nil
  BY <1>2, <1>3, Orders
<1>5. \A f \in Range(DataOrder) : OneOf(DataOrder, x)[f] = x[f]
  BY <1>4, Orders, OneOfAgain DEF d, PartData
<1> QED BY <1>1, <1>5, Orders DEF PartData, x, d, signature, video


LEMMA PartTyped ==
    ASSUME NEW part \in Pointer(Part)
    PROVE  LET d == PartData(part)
           IN /\ \A args \in d.functionCall : args \in GoMap
              /\ \A r \in d.functionResponse : r.response \in GoMap
              /\ \A name \in d.executableCode : name \in NamesOf(Language)
<1> DEFINE x == Or(part, BarePart)
           d == PartData(part)
<1>1. x = BarePart \/ x \in Part
  <2>1. part = Nil \/ \E z \in Part : part = {z}
    BY PointerCases
  <2> QED BY <2>1, DerefNew
<1>2. /\ x.functionCall = Nil \/ x.functionCall \in Pointer(GoMap)
      /\ x.functionResponse = Nil \/ x.functionResponse \in Pointer(FunctionResponse)
      /\ x.executableCode = Nil \/ x.executableCode \in Pointer(NamesOf(Language))
  <2>1. CASE x = BarePart
    BY <2>1 DEF BarePart
  <2>2. CASE x \in Part
    BY <2>2 DEF Part
  <2> QED BY <1>1, <2>1, <2>2
<1>3. \A f \in Range(DataOrder) : d[f] = x[f] \/ d[f] = Nil
  BY DEF PartData, OneOf
<1>4. /\ d.functionCall \subseteq x.functionCall
      /\ d.functionResponse \subseteq x.functionResponse
      /\ d.executableCode \subseteq x.executableCode
  BY <1>3, Orders DEF Nil
<1>5. /\ x.functionCall \subseteq GoMap /\ x.functionResponse \subseteq FunctionResponse
      /\ x.executableCode \subseteq NamesOf(Language)
  BY <1>2 DEF Pointer, Nil
<1>6. \A r \in FunctionResponse : r.response \in GoMap
  BY DEF FunctionResponse
<1> QED BY <1>4, <1>5, <1>6

LEMMA PartRoundTrip ==
    ASSUME NEW part \in Pointer(Part)
    PROVE  MeaningOfPart(PartBack(part)) = MeaningOfPart(part)
<1> DEFINE y == Or(part, BarePart)
           d == PartData(part)
           x == PartRead(d, y.signature, y.video)
           e == PartData(PartBack(part))
<1>1. /\ \A args \in d.functionCall : args \in GoMap
      /\ \A r \in d.functionResponse : r.response \in GoMap
      /\ \A name \in d.executableCode : name \in NamesOf(Language)
  BY PartTyped
<1>2. /\ Or(PartBack(part), BarePart) = x
      /\ e.text = x.text /\ e.fileData = x.fileData /\ e.inlineData = x.inlineData
      /\ e.functionCall = x.functionCall /\ e.functionResponse = x.functionResponse
      /\ e.executableCode = x.executableCode
  BY PartDataAgain
<1> HIDE DEF d, e, y
<1>3. /\ x.text = d.text /\ x.fileData = d.fileData
      /\ x.inlineData = Blobs(d.inlineData)
      /\ x.functionCall = {StructBack(args) : args \in d.functionCall}
      /\ x.functionResponse = {ResponseBack(r) : r \in d.functionResponse}
      /\ x.executableCode = {NameBack(Language, name) : name \in d.executableCode}
      /\ x.signature = cloneOrNil(Items(y.signature)) /\ x.video = y.video
  BY PartReadIs
<1> HIDE DEF x
<1>4. {Items(bytes) : bytes \in e.inlineData} = {Items(bytes) : bytes \in d.inlineData}
  BY <1>2, <1>3, BlobsStable
<1>5. {Meaning(args) : args \in e.functionCall} = {Meaning(args) : args \in d.functionCall}
  BY <1>1, <1>2, <1>3, StructRoundTrip
<1>6. {MeaningOfResponse(r) : r \in e.functionResponse}
        = {MeaningOfResponse(r) : r \in d.functionResponse}
  BY <1>1, <1>2, <1>3, ResponseStable
<1>7. {MeaningOfEnum(Language, name) : name \in e.executableCode}
        = {MeaningOfEnum(Language, name) : name \in d.executableCode}
  BY <1>1, <1>2, <1>3, NamesRoundTrip
<1>8. Items(x.signature) = Items(y.signature) /\ x.video = y.video
  BY <1>3, ItemsOfClone
<1>9. MeaningOfPart(PartBack(part)) =
        [text |-> e.text, inlineData |-> {Items(bytes) : bytes \in e.inlineData},
         fileData |-> e.fileData,
         functionCall |-> {Meaning(args) : args \in e.functionCall},
         functionResponse |-> {MeaningOfResponse(r) : r \in e.functionResponse},
         executableCode |-> {MeaningOfEnum(Language, name) : name \in e.executableCode},
         signature |-> Items(x.signature), video |-> x.video]
  BY <1>2 DEF MeaningOfPart, PartData, e
<1>10. MeaningOfPart(part) =
        [text |-> d.text, inlineData |-> {Items(bytes) : bytes \in d.inlineData},
         fileData |-> d.fileData,
         functionCall |-> {Meaning(args) : args \in d.functionCall},
         functionResponse |-> {MeaningOfResponse(r) : r \in d.functionResponse},
         executableCode |-> {MeaningOfEnum(Language, name) : name \in d.executableCode},
         signature |-> Items(y.signature), video |-> y.video]
  BY DEF MeaningOfPart, PartData, d, y
<1> QED BY <1>2, <1>3, <1>4, <1>5, <1>6, <1>7, <1>8, <1>9, <1>10

LEMMA PartStable ==
    ASSUME NEW part
    PROVE  /\ PartBack(PartBack(part)) = PartBack(part)
           /\ PartReadsNil(PartBack(part))
           /\ (\A m \in PartStructs(part) : StructFits(sanitizeValue(m)))
                => \A m \in PartStructs(PartBack(part)) : StructFits(sanitizeValue(m))
<1> DEFINE y == Or(part, BarePart)
           d == PartData(part)
           x == PartRead(d, y.signature, y.video)
           e == PartData(PartBack(part))
<1>1. PartBack(part) = {x}
  BY DEF PartBack
<1>2. /\ Or(PartBack(part), BarePart) = x
      /\ e.text = x.text /\ e.fileData = x.fileData /\ e.inlineData = x.inlineData
      /\ e.functionCall = x.functionCall /\ e.functionResponse = x.functionResponse
      /\ e.executableCode = x.executableCode
  BY PartDataAgain
<1>3. PartBack(PartBack(part)) = {PartRead(e, x.signature, x.video)}
  BY <1>2 DEF PartBack
<1>4. PartStructs(PartBack(part)) = e.functionCall \cup {r.response : r \in e.functionResponse}
  BY DEF PartStructs, PartData
<1>5. PartStructs(part) = d.functionCall \cup {r.response : r \in d.functionResponse}
  BY DEF PartStructs, PartData
<1> HIDE DEF d, e, y
<1>6. /\ x.text = d.text /\ x.fileData = d.fileData
      /\ x.inlineData = Blobs(d.inlineData)
      /\ x.functionCall = {StructBack(args) : args \in d.functionCall}
      /\ x.functionResponse = {ResponseBack(r) : r \in d.functionResponse}
      /\ x.executableCode = {NameBack(Language, name) : name \in d.executableCode}
      /\ x.signature = cloneOrNil(Items(y.signature)) /\ x.video = y.video
  BY PartReadIs
<1> HIDE DEF x
<1>7. PartRead(e, x.signature, x.video) = x
  <2>1. Blobs(e.inlineData) = Blobs(d.inlineData)
    BY <1>2, <1>6, BlobsStable
  <2>2. {StructBack(args) : args \in e.functionCall} = {StructBack(args) : args \in d.functionCall}
    BY <1>2, <1>6, StructStable
  <2>3. {ResponseBack(r) : r \in e.functionResponse} = {ResponseBack(r) : r \in d.functionResponse}
    BY <1>2, <1>6, ResponseStable
  <2>4. {NameBack(Language, name) : name \in e.executableCode}
          = {NameBack(Language, name) : name \in d.executableCode}
    BY <1>2, <1>6, NamesStable
  <2>5. Items(x.signature) = Items(y.signature)
    BY <1>6, ItemsOfClone
  <2> QED BY <1>2, <1>6, <2>1, <2>2, <2>3, <2>4, <2>5 DEF PartRead, x
<1>8. PartReadsNil({x})
  <2>1. x.signature # EmptySlice /\ EmptySlice \notin x.inlineData
    BY <1>6, ItemsOfClone, BlobsStable
  <2>2. EmptyMap \notin x.functionCall
    BY <1>6, StructStable
  <2>3. \A r \in x.functionResponse :
           /\ r.response # EmptyMap /\ r.parts # EmptySlice
           /\ \A z \in Range(Items(r.parts)) : ResponsePartReadsNil(z)
    BY <1>6, ResponseStable
  <2> QED BY <2>1, <2>2, <2>3 DEF PartReadsNil, Nil
<1>9. ASSUME \A m \in PartStructs(part) : StructFits(sanitizeValue(m)),
             NEW m \in PartStructs(PartBack(part))
      PROVE  StructFits(sanitizeValue(m))
  <2>1. CASE m \in e.functionCall
    <3>1. PICK args \in d.functionCall : m = StructBack(args)
      BY <1>2, <1>6, <2>1
    <3> QED BY <1>5, <1>9, <3>1, StructStable
  <2>2. CASE m \in {r.response : r \in e.functionResponse}
    <3>1. PICK r \in d.functionResponse : m = ResponseBack(r).response
      BY <1>2, <1>6, <2>2
    <3>2. StructFits(sanitizeValue(r.response))
      BY <1>5, <1>9
    <3> QED BY <3>1, <3>2, ResponseStable
  <2> QED BY <1>4, <1>9, <2>1, <2>2
<1> QED BY <1>1, <1>3, <1>7, <1>8, <1>9


(* What a content reads back as. *)
PartsBack(list) == [i \in DOMAIN list |-> PartBack(list[i])]
ContentBack(c) == {cloneOrNil(PartsBack(Items(parts))) : parts \in c}

LEMMA ContentBackIs ==
    ASSUME NEW c
    PROVE  contentFromProto(contentToProto(c)) = ContentBack(c)
<1>1. \A list : Each(partFromProto, Each(partToProto, list)) = PartsBack(list)
  <2> TAKE list
  <2> DEFINE p == Each(partToProto, list)
  <2>1. p = [i \in DOMAIN list |-> partToProto(list[i])]
    BY DEF Each
  <2> HIDE DEF p
  <2>2. Each(partFromProto, p) = [i \in DOMAIN p |-> partFromProto(p[i])]
    BY DEF Each
  <2>3. Each(partFromProto, p) = [i \in DOMAIN list |-> PartBack(list[i])]
    BY <2>1, <2>2, PartBackIs
  <2> QED BY <2>3 DEF PartsBack, p
<1>2. contentFromProto(contentToProto(c))
        = {cloneOrNil(Each(partFromProto, Each(partToProto, Items(parts)))) : parts \in c}
  BY DEF contentFromProto, contentToProto
<1> QED BY <1>1, <1>2 DEF ContentBack

(* The parts that were read. *)
LEMMA PartsRead ==
    ASSUME NEW c
    PROVE  /\ \A parts \in ContentBack(c) :
                 \E before \in c : /\ Items(parts) = PartsBack(Items(before))
                                   /\ parts # EmptySlice
           /\ {Items(parts) : parts \in ContentBack(c)}
                = {PartsBack(Items(parts)) : parts \in c}
BY ItemsOfClone DEF ContentBack

LEMMA ContentRoundTrip ==
    ASSUME NEW c \in Content
    PROVE  MeaningOfContent(ContentBack(c)) = MeaningOfContent(c)
<1>1. \A parts \in c : \A i \in DOMAIN Items(parts) : Items(parts)[i] \in Pointer(Part)
  BY ItemsTyped DEF Content, Pointer
<1>2. \A parts \in c :
         Each(MeaningOfPart, PartsBack(Items(parts))) = Each(MeaningOfPart, Items(parts))
  BY <1>1, PartRoundTrip DEF Each, PartsBack
<1>3. MeaningOfContent(ContentBack(c))
        = {Each(MeaningOfPart, PartsBack(Items(parts))) : parts \in c}
  BY ItemsOfClone DEF MeaningOfContent, ContentBack
<1> QED BY <1>2, <1>3 DEF MeaningOfContent

LEMMA ContentStable ==
    ASSUME NEW c
    PROVE  /\ ContentBack(ContentBack(c)) = ContentBack(c)
           /\ ContentReadsNil(ContentBack(c))
           /\ ContentFits(c) => ContentFits(ContentBack(c))
<1>1. \A list : PartsBack(PartsBack(list)) = PartsBack(list)
  BY PartStable DEF PartsBack
<1>2. ContentBack(ContentBack(c)) = ContentBack(c)
  <2>1. ContentBack(ContentBack(c)) = {cloneOrNil(PartsBack(PartsBack(Items(parts)))) : parts \in c}
    BY ItemsOfClone DEF ContentBack
  <2> QED BY <1>1, <2>1 DEF ContentBack
<1>3. ContentReadsNil(ContentBack(c))
  <2> SUFFICES ASSUME NEW parts \in ContentBack(c)
               PROVE  /\ parts # EmptySlice
                      /\ \A part \in Range(Items(parts)) : PartReadsNil(part)
    BY DEF ContentReadsNil
  <2>1. PICK before \in c : Items(parts) = PartsBack(Items(before)) /\ parts # EmptySlice
    BY PartsRead
  <2>2. \A part \in Range(PartsBack(Items(before))) : PartReadsNil(part)
    BY PartStable DEF PartsBack, Range
  <2> QED BY <2>1, <2>2
<1>4. ASSUME ContentFits(c), NEW m \in ContentStructs(ContentBack(c))
      PROVE  StructFits(sanitizeValue(m))
  <2>1. PICK parts \in ContentBack(c) :
               m \in UNION {PartStructs(part) : part \in Range(Items(parts))}
    BY <1>4 DEF ContentStructs
  <2>2. PICK part \in Range(Items(parts)) : m \in PartStructs(part)
    BY <2>1
  <2>3. PICK before \in c : Items(parts) = PartsBack(Items(before))
    BY PartsRead
  <2>4. PICK i \in DOMAIN Items(before) : part = PartBack(Items(before)[i])
    BY <2>2, <2>3 DEF PartsBack, Range
  <2>5. Items(before)[i] \in Range(Items(before))
    BY DEF Range
  <2>6. \A s \in PartStructs(Items(before)[i]) : s \in ContentStructs(c)
    BY <2>5 DEF ContentStructs
  <2>7. \A s \in PartStructs(Items(before)[i]) : StructFits(sanitizeValue(s))
    BY <1>4, <2>6 DEF ContentFits
  <2> QED BY <2>2, <2>4, <2>7, PartStable
<1> QED BY <1>2, <1>3, <1>4 DEF ContentFits


-----------------------------------------------------------------------------
(* Grounding. *)

(* What a list of pointers, none of them nil, reads back as. *)
PointersBack(list) == [i \in DOMAIN list |-> New(Deref(list[i]))]

LEMMA PointersStable ==
    ASSUME NEW list
    PROVE  /\ PointersBack(PointersBack(list)) = PointersBack(list)
           /\ Nil \notin Range(PointersBack(list))
           /\ \A S : list = [i \in DOMAIN list |-> list[i]]
                     /\ (\A i \in DOMAIN list : list[i] \in Pointer(S)) /\ Nil \notin Range(list)
                       => PointersBack(list) = list
<1>1. PointersBack(PointersBack(list)) = PointersBack(list)
  BY DerefNew DEF PointersBack, New
<1>2. Nil \notin Range(PointersBack(list))
  BY DEF PointersBack, New, Range, Nil
<1>3. ASSUME NEW S, list = [i \in DOMAIN list |-> list[i]],
             \A i \in DOMAIN list : list[i] \in Pointer(S), Nil \notin Range(list)
      PROVE  PointersBack(list) = list
  <2>1. ASSUME NEW i \in DOMAIN list
        PROVE  New(Deref(list[i])) = list[i]
    <3>1. list[i] \in Pointer(S) /\ list[i] # Nil
      BY <1>3 DEF Range
    <3>2. \E x \in S : list[i] = {x}
      BY <3>1, PointerCases
    <3> QED BY <3>2, DerefNew DEF New
  <2> QED BY <1>3, <2>1 DEF PointersBack
<1> QED BY <1>1, <1>2, <1>3

(* What the place answer sources of a maps chunk read back as. *)
SnippetsBack(snippets) == cloneOrNil(PointersBack(Items(snippets)))
SourcesBack(sources) == {SnippetsBack(snippets) : snippets \in sources}

LEMMA SnippetsStable ==
    ASSUME NEW snippets
    PROVE  /\ SnippetsBack(SnippetsBack(snippets)) = SnippetsBack(snippets)
           /\ SnippetsBack(snippets) # EmptySlice
           /\ Nil \notin Range(Items(SnippetsBack(snippets)))
           /\ snippets \in Slice(Pointer(STRING)) /\ Nil \notin Range(Items(snippets))
                => Items(SnippetsBack(snippets)) = Items(snippets)
BY ItemsOfClone, PointersStable, ItemsTyped DEF SnippetsBack

LEMMA SourcesBackIs ==
    ASSUME NEW sources
    PROVE  placeAnswerSourcesFromProto(placeAnswerSourcesToProto(sources)) = SourcesBack(sources)
<1>1. \A list : Each(New, Each(Deref, list)) = PointersBack(list)
  BY DEF Each, PointersBack
<1>2. placeAnswerSourcesFromProto(placeAnswerSourcesToProto(sources))
        = {cloneOrNil(Each(New, Each(Deref, Items(snippets)))) : snippets \in sources}
  BY DEF placeAnswerSourcesFromProto, placeAnswerSourcesToProto
<1> QED BY <1>1, <1>2 DEF SourcesBack, SnippetsBack

LEMMA SourcesStable ==
    ASSUME NEW sources
    PROVE  /\ SourcesBack(SourcesBack(sources)) = SourcesBack(sources)
           /\ EmptySlice \notin SourcesBack(sources)
           /\ \A snippets \in SourcesBack(sources) : Nil \notin Range(Items(snippets))
BY SnippetsStable DEF SourcesBack

(* What a chunk reads back as: d is the first populated of its fields. *)
ChunkData(chunk) == OneOf(ChunkOrder, Or(chunk, BareChunk))
ChunkRead(d) ==
    [web |-> d.web, retrievedContext |-> d.retrievedContext,
     maps |-> {SourcesBack(sources) : sources \in d.maps}, image |-> Nil]
ChunkBack(chunk) == {ChunkRead(ChunkData(chunk))}

LEMMA ChunkBackIs ==
    ASSUME NEW chunk
    PROVE  groundingChunkFromProto(groundingChunkToProto(chunk)) = ChunkBack(chunk)
<1> DEFINE d == ChunkData(chunk)
           p == groundingChunkToProto(chunk)
<1>1. /\ p.web = d.web /\ p.retrievedContext = d.retrievedContext
      /\ p.maps = {placeAnswerSourcesToProto(sources) : sources \in d.maps}
  BY DEF groundingChunkToProto, ChunkData
<1> HIDE DEF p, d
<1>2. {placeAnswerSourcesFromProto(sources) : sources \in p.maps}
        = {SourcesBack(sources) : sources \in d.maps}
  BY <1>1, SourcesBackIs
<1> QED BY <1>1, <1>2 DEF groundingChunkFromProto, ChunkBack, ChunkRead, New, p, d

LEMMA ChunkStable ==
    ASSUME NEW chunk
    PROVE  /\ ChunkBack(ChunkBack(chunk)) = ChunkBack(chunk)
           /\ ChunkReadsNil(ChunkBack(chunk)) /\ ~ChunkPanics(ChunkBack(chunk))
           /\ chunk \in Pointer(GroundingChunk) /\ ~ChunkPanics(chunk)
                => MeaningOfChunk(ChunkBack(chunk)) = MeaningOfChunk(chunk)
<1> DEFINE d == ChunkData(chunk)
           x == ChunkRead(d)
           e == ChunkData(ChunkBack(chunk))
<1>1. ChunkBack(chunk) = {x} /\ Or(ChunkBack(chunk), BareChunk) = x
  BY DerefNew DEF ChunkBack
<1>2. ChunkBack(ChunkBack(chunk)) = {ChunkRead(e)}
  BY DEF ChunkBack
<1>3. OneOf(ChunkOrder, x) = e
  BY <1>1 DEF ChunkData
<1>4. /\ MeaningOfChunk(ChunkBack(chunk))
           = <<e.web, e.retrievedContext,
               {{Items(snippets) : snippets \in sources} : sources \in e.maps}>>
      /\ MeaningOfChunk(chunk)
           = <<d.web, d.retrievedContext,
               {{Items(snippets) : snippets \in sources} : sources \in d.maps}>>
  BY <1>3 DEF MeaningOfChunk, ChunkData
<1>5. /\ ChunkPanics(ChunkBack(chunk)) => \E sources \in e.maps :
               \E snippets \in sources : Nil \in Range(Items(snippets))
      /\ ~ChunkPanics(chunk) => \A sources \in d.maps :
               \A snippets \in sources : Nil \notin Range(Items(snippets))
  BY <1>3 DEF ChunkPanics, ChunkData
<1>6. \A f \in Range(ChunkOrder) : d[f] = Or(chunk, BareChunk)[f] \/ d[f] = Nil
  BY DEF ChunkData, OneOf
<1>7. x.web = d.web /\ x.retrievedContext = d.retrievedContext
      /\ x.maps = {SourcesBack(sources) : sources \in d.maps}
  BY DEF ChunkRead
<1> HIDE DEF x, e
<1>8. \A f \in Range(ChunkOrder) : OneOf(ChunkOrder, x)[f] = x[f]
  <2>1. x.maps = Nil <=> d.maps = Nil
    BY <1>7 DEF Nil
  <2>2. \A f \in Range(ChunkOrder) : x[f] = Nil <=> d[f] = Nil
    BY <1>7, <2>1, Orders
  <2> QED BY <2>2, Orders, OneOfAgain DEF ChunkData
<1>9. e.web = x.web /\ e.retrievedContext = x.retrievedContext /\ e.maps = x.maps
  BY <1>3, <1>8, Orders
<1>10. ChunkRead(e) = x
  <2>1. {SourcesBack(sources) : sources \in e.maps} = {SourcesBack(sources) : sources \in d.maps}
    BY <1>7, <1>9, SourcesStable
  <2> QED BY <1>7, <1>9, <2>1 DEF ChunkRead, x
<1>11. ChunkReadsNil({x}) /\ ~ChunkPanics(ChunkBack(chunk))
  BY <1>5, <1>7, <1>9, SourcesStable DEF ChunkReadsNil, Nil
<1>12. ASSUME chunk \in Pointer(GroundingChunk), ~ChunkPanics(chunk)
       PROVE  {{Items(snippets) : snippets \in sources} : sources \in e.maps}
                = {{Items(snippets) : snippets \in sources} : sources \in d.maps}
  <2>1. d.maps \subseteq PlaceAnswerSources
    <3>1. chunk = Nil \/ \E z \in GroundingChunk : chunk = {z}
      BY <1>12, PointerCases
    <3>2. Or(chunk, BareChunk) = BareChunk \/ Or(chunk, BareChunk) \in GroundingChunk
      BY <3>1, DerefNew
    <3>3. BareChunk.maps = Nil /\ \A z \in GroundingChunk : z.maps \in Pointer(PlaceAnswerSources)
      BY DEF BareChunk, GroundingChunk
    <3>4. d.maps = Nil \/ d.maps \in Pointer(PlaceAnswerSources)
      BY <1>6, <3>2, <3>3, Orders
    <3> QED BY <3>4 DEF Pointer, Nil
  <2>2. \A sources \in d.maps : \A snippets \in sources :
           Items(SnippetsBack(snippets)) = Items(snippets)
    <3>1. \A sources \in d.maps : \A snippets \in sources : snippets \in Slice(Pointer(STRING))
      BY <2>1 DEF PlaceAnswerSources, Pointer
    <3> QED BY <1>5, <1>12, <3>1, SnippetsStable
  <2>3. \A sources \in d.maps : {Items(snippets) : snippets \in SourcesBack(sources)}
           = {Items(snippets) : snippets \in sources}
    BY <2>2 DEF SourcesBack
  <2> DEFINE Lists(sources) == {Items(snippets) : snippets \in sources}
  <2>4. \A sources \in d.maps : Lists(SourcesBack(sources)) = Lists(sources)
    BY <2>3
  <2> HIDE DEF Lists
  <2>5. {Lists(sources) : sources \in e.maps} = {Lists(sources) : sources \in d.maps}
    BY <1>7, <1>9, <2>4
  <2> QED BY <2>5 DEF Lists
<1>13. chunk \in Pointer(GroundingChunk) /\ ~ChunkPanics(chunk)
         => MeaningOfChunk(ChunkBack(chunk)) = MeaningOfChunk(chunk)
  BY <1>4, <1>7, <1>9, <1>12
<1> QED BY <1>1, <1>2, <1>10, <1>11, <1>13


(* What a support reads back as. *)
SupportBack(support) ==
    LET x == Or(support, BareSupport)
    IN {[indices |-> cloneOrNil(Items(x.indices)), segment |-> x.segment]}

LEMMA SupportStable ==
    ASSUME NEW support
    PROVE  /\ groundingSupportFromProto(groundingSupportToProto(support)) = SupportBack(support)
           /\ SupportBack(SupportBack(support)) = SupportBack(support)
           /\ SupportBack(support) # Nil
           /\ \A x \in SupportBack(support) : x.indices # EmptySlice
           /\ MeaningOfSupport(SupportBack(support)) = MeaningOfSupport(support)
<1> DEFINE y == Or(support, BareSupport)
           x == [indices |-> cloneOrNil(Items(y.indices)), segment |-> y.segment]
<1>1. SupportBack(support) = {x} /\ Or(SupportBack(support), BareSupport) = x
  BY DerefNew DEF SupportBack
<1>2. x.indices = cloneOrNil(Items(y.indices)) /\ x.segment = y.segment
  OBVIOUS
<1>3. groundingSupportFromProto(groundingSupportToProto(support)) = {x}
  <2> DEFINE p == groundingSupportToProto(support)
  <2>1. p.indices = Items(y.indices) /\ p.segment = y.segment
    BY DEF groundingSupportToProto
  <2> HIDE DEF p
  <2> QED BY <2>1 DEF groundingSupportFromProto, New, p
<1>4. SupportBack(SupportBack(support))
        = {[indices |-> cloneOrNil(Items(x.indices)), segment |-> x.segment]}
  BY <1>1 DEF SupportBack
<1>5. /\ MeaningOfSupport(SupportBack(support)) = <<Items(x.indices), x.segment>>
      /\ MeaningOfSupport(support) = <<Items(y.indices), y.segment>>
  BY <1>1 DEF MeaningOfSupport
<1> HIDE DEF y
<1>6. [indices |-> cloneOrNil(Items(x.indices)), segment |-> x.segment] = x
  BY <1>2, ItemsOfClone
<1> HIDE DEF x
<1> QED BY <1>1, <1>2, <1>3, <1>4, <1>5, <1>6, ItemsOfClone DEF Nil

(* What grounding metadata read back as. *)
ChunksBack(list) == [i \in DOMAIN list |-> ChunkBack(list[i])]
SupportsBack(list) == [i \in DOMAIN list |-> SupportBack(list[i])]
GroundingRead(g) ==
    [queries |-> cloneOrNil(Items(g.queries)), entry |-> Blobs(g.entry),
     chunks |-> cloneOrNil(ChunksBack(Items(g.chunks))),
     supports |-> cloneOrNil(SupportsBack(Items(g.supports))), uris |-> SnippetsBack(g.uris)]
GroundingBack(grounding) == {GroundingRead(g) : g \in grounding}

LEMMA GroundingBackIs ==
    ASSUME NEW grounding
    PROVE  groundingMetadataFromProto(groundingMetadataToProto(grounding))
             = GroundingBack(grounding)
<1> DEFINE proto(g) == [queries |-> Items(g.queries), entry |-> searchEntryPointToProto(g.entry),
                        chunks |-> Each(groundingChunkToProto, Items(g.chunks)),
                        supports |-> Each(groundingSupportToProto, Items(g.supports)),
                        uris |-> Each(Deref, Items(g.uris))]
           made(p) == [queries |-> cloneOrNil(p.queries),
                       entry |-> searchEntryPointFromProto(p.entry),
                       chunks |-> cloneOrNil(Each(groundingChunkFromProto, p.chunks)),
                       supports |-> cloneOrNil(Each(groundingSupportFromProto, p.supports)),
                       uris |-> cloneOrNil(Each(New, p.uris))]
<1>1. ASSUME NEW g
      PROVE  made(proto(g)) = GroundingRead(g)
  <2> DEFINE p == proto(g)
  <2>1. /\ p.queries = Items(g.queries) /\ p.entry = searchEntryPointToProto(g.entry)
        /\ p.chunks = [i \in DOMAIN Items(g.chunks) |-> groundingChunkToProto(Items(g.chunks)[i])]
        /\ p.supports
             = [i \in DOMAIN Items(g.supports) |-> groundingSupportToProto(Items(g.supports)[i])]
        /\ p.uris = [i \in DOMAIN Items(g.uris) |-> Deref(Items(g.uris)[i])]
    BY DEF Each
  <2> HIDE DEF p, proto
  <2>2. searchEntryPointFromProto(p.entry) = Blobs(g.entry)
    BY <2>1 DEF searchEntryPointFromProto, searchEntryPointToProto, Blobs
  <2>3. Each(groundingChunkFromProto, p.chunks) = ChunksBack(Items(g.chunks))
    BY <2>1, ChunkBackIs DEF Each, ChunksBack
  <2>4. Each(groundingSupportFromProto, p.supports) = SupportsBack(Items(g.supports))
    BY <2>1, SupportStable DEF Each, SupportsBack
  <2>5. Each(New, p.uris) = PointersBack(Items(g.uris))
    BY <2>1 DEF Each, PointersBack
  <2>6. made(p) = GroundingRead(g)
    BY <2>1, <2>2, <2>3, <2>4, <2>5 DEF GroundingRead, SnippetsBack
  <2> QED BY <2>6 DEF p
<1>2. groundingMetadataToProto(grounding) = {proto(g) : g \in grounding}
  BY DEF groundingMetadataToProto
<1>3. \A S : groundingMetadataFromProto(S) = {made(p) : p \in S}
  BY DEF groundingMetadataFromProto
<1> HIDE DEF proto, made
<1> QED BY <1>1, <1>2, <1>3 DEF GroundingBack

LEMMA GroundingReadIs ==
    ASSUME NEW g
    PROVE  /\ GroundingRead(g).queries = cloneOrNil(Items(g.queries))
           /\ GroundingRead(g).entry = Blobs(g.entry)
           /\ GroundingRead(g).chunks = cloneOrNil(ChunksBack(Items(g.chunks)))
           /\ GroundingRead(g).supports = cloneOrNil(SupportsBack(Items(g.supports)))
           /\ GroundingRead(g).uris = SnippetsBack(g.uris)
BY DEF GroundingRead

LEMMA GroundingStable ==
    ASSUME NEW grounding
    PROVE  /\ GroundingBack(GroundingBack(grounding)) = GroundingBack(grounding)
           /\ GroundingReadsNil(GroundingBack(grounding))
           /\ ~GroundingPanics(GroundingBack(grounding))
<1>1. ASSUME NEW g
      PROVE  /\ GroundingRead(GroundingRead(g)) = GroundingRead(g)
             /\ Nil \notin Range(Items(GroundingRead(g).uris))
             /\ \A chunk \in Range(Items(GroundingRead(g).chunks)) :
                   ~ChunkPanics(chunk) /\ ChunkReadsNil(chunk)
             /\ \A support \in Range(Items(GroundingRead(g).supports)) :
                   support # Nil /\ \A x \in support : x.indices # EmptySlice
             /\ GroundingRead(g).queries # EmptySlice /\ GroundingRead(g).chunks # EmptySlice
             /\ GroundingRead(g).supports # EmptySlice /\ GroundingRead(g).uris # EmptySlice
             /\ EmptySlice \notin GroundingRead(g).entry
  <2> DEFINE x == GroundingRead(g)
  <2>1. /\ x.queries = cloneOrNil(Items(g.queries)) /\ x.entry = Blobs(g.entry)
        /\ x.chunks = cloneOrNil(ChunksBack(Items(g.chunks)))
        /\ x.supports = cloneOrNil(SupportsBack(Items(g.supports)))
        /\ x.uris = SnippetsBack(g.uris)
    BY GroundingReadIs
  <2> HIDE DEF x
  <2>2. \A list : ChunksBack(ChunksBack(list)) = ChunksBack(list)
    BY ChunkStable DEF ChunksBack
  <2>3. \A list : SupportsBack(SupportsBack(list)) = SupportsBack(list)
    BY SupportStable DEF SupportsBack
  <2>4. /\ cloneOrNil(Items(x.queries)) = x.queries /\ Blobs(x.entry) = x.entry
        /\ cloneOrNil(ChunksBack(Items(x.chunks))) = x.chunks
        /\ cloneOrNil(SupportsBack(Items(x.supports))) = x.supports
        /\ SnippetsBack(x.uris) = x.uris
    BY <2>1, <2>2, <2>3, ItemsOfClone, BlobsStable, SnippetsStable
  <2>5. GroundingRead(x) = x
    BY <2>1, <2>4 DEF GroundingRead, x
  <2>6. \A chunk \in Range(Items(x.chunks)) : ~ChunkPanics(chunk) /\ ChunkReadsNil(chunk)
    <3>1. \A chunk \in Range(ChunksBack(Items(g.chunks))) :
             ~ChunkPanics(chunk) /\ ChunkReadsNil(chunk)
      BY ChunkStable DEF ChunksBack, Range
    <3> QED BY <2>1, <3>1, ItemsOfClone
  <2>7. \A support \in Range(Items(x.supports)) :
           support # Nil /\ \A s \in support : s.indices # EmptySlice
    <3>1. \A support \in Range(SupportsBack(Items(g.supports))) :
             support # Nil /\ \A s \in support : s.indices # EmptySlice
      BY SupportStable DEF SupportsBack, Range
    <3> QED BY <2>1, <3>1, ItemsOfClone
  <2>8. /\ x.queries # EmptySlice /\ x.chunks # EmptySlice /\ x.supports # EmptySlice
        /\ x.uris # EmptySlice /\ EmptySlice \notin x.entry
        /\ Nil \notin Range(Items(x.uris))
    BY <2>1, ItemsOfClone, BlobsStable, SnippetsStable
  <2> QED BY <2>5, <2>6, <2>7, <2>8 DEF x
<1>2. GroundingBack(GroundingBack(grounding)) = GroundingBack(grounding)
  BY <1>1 DEF GroundingBack
<1>3. GroundingReadsNil(GroundingBack(grounding))
  BY <1>1 DEF GroundingBack, GroundingReadsNil
<1>4. ~GroundingPanics(GroundingBack(grounding))
  BY <1>1 DEF GroundingBack, GroundingPanics
<1> QED BY <1>2, <1>3, <1>4

LEMMA GroundingRoundTrip ==
    ASSUME NEW grounding \in Grounding, ~GroundingPanics(grounding)
    PROVE  MeaningOfGrounding(GroundingBack(grounding)) = MeaningOfGrounding(grounding)
<1> DEFINE says(g) == [queries |-> Items(g.queries), entry |-> {Items(blob) : blob \in g.entry},
                       chunks |-> Each(MeaningOfChunk, Items(g.chunks)),
                       supports |-> Each(MeaningOfSupport, Items(g.supports)),
                       uris |-> Items(g.uris)]
<1>1. ASSUME NEW g \in grounding
      PROVE  says(GroundingRead(g)) = says(g)
  <2> DEFINE x == GroundingRead(g)
  <2>1. /\ x.queries = cloneOrNil(Items(g.queries)) /\ x.entry = Blobs(g.entry)
        /\ x.chunks = cloneOrNil(ChunksBack(Items(g.chunks)))
        /\ x.supports = cloneOrNil(SupportsBack(Items(g.supports)))
        /\ x.uris = SnippetsBack(g.uris)
    BY GroundingReadIs
  <2> HIDE DEF x
  <2>2. /\ g.chunks \in Slice(Pointer(GroundingChunk))
        /\ g.supports \in Slice(Pointer(GroundingSupport))
        /\ g.uris \in Slice(Pointer(STRING))
    BY DEF Grounding, Pointer
  <2>3. /\ Nil \notin Range(Items(g.uris))
        /\ \A i \in DOMAIN Items(g.chunks) : ~ChunkPanics(Items(g.chunks)[i])
    BY DEF GroundingPanics, Range
  <2>4. Each(MeaningOfChunk, ChunksBack(Items(g.chunks))) = Each(MeaningOfChunk, Items(g.chunks))
    <3>1. \A i \in DOMAIN Items(g.chunks) : Items(g.chunks)[i] \in Pointer(GroundingChunk)
      BY <2>2, ItemsTyped
    <3> QED BY <2>3, <3>1, ChunkStable DEF Each, ChunksBack
  <2>5. Each(MeaningOfSupport, SupportsBack(Items(g.supports)))
          = Each(MeaningOfSupport, Items(g.supports))
    BY SupportStable DEF Each, SupportsBack
  <2>6. /\ Items(x.queries) = Items(g.queries)
        /\ {Items(blob) : blob \in x.entry} = {Items(blob) : blob \in g.entry}
        /\ Items(x.uris) = Items(g.uris)
    BY <2>1, <2>2, <2>3, ItemsOfClone, BlobsStable, SnippetsStable
  <2>7. /\ Each(MeaningOfChunk, Items(x.chunks)) = Each(MeaningOfChunk, Items(g.chunks))
        /\ Each(MeaningOfSupport, Items(x.supports)) = Each(MeaningOfSupport, Items(g.supports))
    BY <2>1, <2>4, <2>5, ItemsOfClone
  <2> QED BY <2>6, <2>7 DEF x
<1>2. \A S : MeaningOfGrounding(S) = {says(g) : g \in S}
  BY DEF MeaningOfGrounding
<1> HIDE DEF says
<1> QED BY <1>1, <1>2 DEF GroundingBack


-----------------------------------------------------------------------------
(* Usage, citations and log probabilities. *)

(* What the token counts of a usage read back as. *)
CountsBack(list) == [i \in DOMAIN list |-> {NameBack(MediaModality, Or(list[i], NoName))}]
UsageBack(usage) == {cloneOrNil(CountsBack(Items(counts))) : counts \in usage}

LEMMA UsageStable ==
    ASSUME NEW usage
    PROVE  /\ usageMetadataFromProto(usageMetadataToProto(usage)) = UsageBack(usage)
           /\ UsageBack(UsageBack(usage)) = UsageBack(usage)
           /\ EmptySlice \notin UsageBack(usage)
           /\ usage \in Usage => MeaningOfUsage(UsageBack(usage)) = MeaningOfUsage(usage)
<1>1. \A list : Each(modalityTokenCountFromProto, Each(modalityTokenCountToProto, list))
                  = CountsBack(list)
  BY DEF Each, modalityTokenCountFromProto, modalityTokenCountToProto, CountsBack, New, NameBack
<1>2. usageMetadataFromProto(usageMetadataToProto(usage))
        = {cloneOrNil(Each(modalityTokenCountFromProto,
                           Each(modalityTokenCountToProto, Items(counts)))) : counts \in usage}
  BY DEF usageMetadataFromProto, usageMetadataToProto
<1>3. \A list : CountsBack(CountsBack(list)) = CountsBack(list)
  <2>1. \A name : NameBack(MediaModality, NameBack(MediaModality, name))
                     = NameBack(MediaModality, name)
    BY NamesStable
  <2>2. \A name : Or({name}, NoName) = name
    BY DerefNew
  <2> QED BY <2>1, <2>2 DEF CountsBack
<1>4. UsageBack(UsageBack(usage)) = UsageBack(usage)
  BY <1>3, ItemsOfClone DEF UsageBack
<1>5. ASSUME usage \in Usage
      PROVE  MeaningOfUsage(UsageBack(usage)) = MeaningOfUsage(usage)
  <2>1. ASSUME NEW counts \in usage
        PROVE  Each(MeaningOfModality, CountsBack(Items(counts)))
                 = Each(MeaningOfModality, Items(counts))
    <3>1. counts \in Slice(Pointer(NamesOf(MediaModality)))
      BY <1>5 DEF Usage, Pointer
    <3>2. ASSUME NEW i \in DOMAIN Items(counts)
          PROVE  Or(Items(counts)[i], NoName) \in NamesOf(MediaModality)
      <4>1. Items(counts)[i] \in Pointer(NamesOf(MediaModality))
        BY <3>1, ItemsTyped
      <4>2. \/ Items(counts)[i] = Nil
            \/ \E z \in NamesOf(MediaModality) : Items(counts)[i] = {z}
        BY <4>1, PointerCases
      <4> QED BY <4>2, DerefNew DEF NamesOf
    <3>3. \A i \in DOMAIN Items(counts) :
             MeaningOfModality(CountsBack(Items(counts))[i])
               = MeaningOfModality(Items(counts)[i])
      <4>1. \A name \in NamesOf(MediaModality) :
               MeaningOfEnum(MediaModality, NameBack(MediaModality, name))
                 = MeaningOfEnum(MediaModality, name)
        BY NamesRoundTrip
      <4>2. \A name : Or({name}, NoName) = name
        BY DerefNew
      <4> QED BY <3>2, <4>1, <4>2 DEF MeaningOfModality, CountsBack
    <3> QED BY <3>3 DEF Each, CountsBack
  <2>2. MeaningOfUsage(UsageBack(usage))
          = {Each(MeaningOfModality, CountsBack(Items(counts))) : counts \in usage}
    BY ItemsOfClone DEF MeaningOfUsage, UsageBack
  <2> QED BY <2>1, <2>2 DEF MeaningOfUsage
<1>6. usageMetadataFromProto(usageMetadataToProto(usage)) = UsageBack(usage)
  BY <1>1, <1>2 DEF UsageBack
<1>7. EmptySlice \notin UsageBack(usage)
  BY ItemsOfClone DEF UsageBack
<1> QED BY <1>4, <1>5, <1>6, <1>7

(* What citations read back as. *)
DatesBack(list) == [i \in DOMAIN list |-> {Or(list[i], 0)}]
CitationsBack(citations) == {cloneOrNil(DatesBack(Items(list))) : list \in citations}

LEMMA CitationsStable ==
    ASSUME NEW citations
    PROVE  /\ citationMetadataFromProto(citationMetadataToProto(citations))
                = CitationsBack(citations)
           /\ CitationsBack(CitationsBack(citations)) = CitationsBack(citations)
           /\ EmptySlice \notin CitationsBack(citations)
           /\ MeaningOfCitations(CitationsBack(citations)) = MeaningOfCitations(citations)
<1>1. \A list : Each(citationFromProto, Each(citationToProto, list)) = DatesBack(list)
  BY TimesRoundTrip DEF Each, citationFromProto, citationToProto, DatesBack, New
<1>2. citationMetadataFromProto(citationMetadataToProto(citations))
        = {cloneOrNil(Each(citationFromProto, Each(citationToProto, Items(list)))) :
             list \in citations}
  BY DEF citationMetadataFromProto, citationMetadataToProto
<1>3. \A list : DatesBack(DatesBack(list)) = DatesBack(list)
  BY DerefNew DEF DatesBack
<1>4. CitationsBack(CitationsBack(citations)) = CitationsBack(citations)
  BY <1>3, ItemsOfClone DEF CitationsBack
<1>5. \A list : Each(MeaningOfCitation, DatesBack(list)) = Each(MeaningOfCitation, list)
  BY DerefNew DEF Each, MeaningOfCitation, DatesBack
<1>6. MeaningOfCitations(CitationsBack(citations)) = MeaningOfCitations(citations)
  BY <1>5, ItemsOfClone DEF MeaningOfCitations, CitationsBack
<1>7. citationMetadataFromProto(citationMetadataToProto(citations)) = CitationsBack(citations)
  BY <1>1, <1>2 DEF CitationsBack
<1>8. EmptySlice \notin CitationsBack(citations)
  BY ItemsOfClone DEF CitationsBack
<1> QED BY <1>4, <1>6, <1>7, <1>8

(* What log probabilities read back as. *)
TokensBack(list) == [i \in DOMAIN list |-> {Or(list[i], "")}]
CandidatesBack(candidates) == cloneOrNil(TokensBack(Items(candidates)))
TopBack(list) == [i \in DOMAIN list |-> {CandidatesBack(Or(list[i], Nil))}]
LogprobsRead(l) ==
    [chosen |-> CandidatesBack(l.chosen), top |-> cloneOrNil(TopBack(Items(l.top)))]
LogprobsBack(result) == {LogprobsRead(l) : l \in result}

LEMMA CandidatesStable ==
    ASSUME NEW candidates
    PROVE  /\ logprobsCandidatesFromProto(logprobsCandidatesToProto(candidates))
                = CandidatesBack(candidates)
           /\ CandidatesBack(CandidatesBack(candidates)) = CandidatesBack(candidates)
           /\ CandidatesBack(candidates) # EmptySlice
           /\ Each(MeaningOfCandidate, Items(CandidatesBack(candidates)))
                = Each(MeaningOfCandidate, Items(candidates))
<1>1. \A list : Each(New, Each(logprobsCandidateToProto, list)) = TokensBack(list)
  BY DEF Each, logprobsCandidateToProto, TokensBack, New
<1>2. \A list : /\ TokensBack(TokensBack(list)) = TokensBack(list)
                /\ Each(MeaningOfCandidate, TokensBack(list)) = Each(MeaningOfCandidate, list)
  BY DerefNew DEF Each, MeaningOfCandidate, TokensBack
<1>3. logprobsCandidatesFromProto(logprobsCandidatesToProto(candidates))
        = CandidatesBack(candidates)
  BY <1>1 DEF logprobsCandidatesFromProto, logprobsCandidatesToProto, CandidatesBack
<1> QED BY <1>2, <1>3, ItemsOfClone DEF CandidatesBack

LEMMA TopStable ==
    ASSUME NEW list
    PROVE  /\ Each(topFromProto, Each(topToProto, list)) = TopBack(list)
           /\ TopBack(TopBack(list)) = TopBack(list)
           /\ \A top \in Range(TopBack(list)) : top # Nil /\ EmptySlice \notin top
           /\ Each(MeaningOfTop, TopBack(list)) = Each(MeaningOfTop, list)
<1>1. Each(topFromProto, Each(topToProto, list)) = TopBack(list)
  <2>1. \A top : topFromProto(topToProto(top)) = {CandidatesBack(Or(top, Nil))}
    BY CandidatesStable DEF topFromProto, topToProto, New
  <2> QED BY <2>1 DEF Each, TopBack
<1>2. TopBack(TopBack(list)) = TopBack(list)
  BY DerefNew, CandidatesStable DEF TopBack
<1>3. \A top \in Range(TopBack(list)) : top # Nil /\ EmptySlice \notin top
  BY CandidatesStable DEF TopBack, Range, Nil
<1>4. \A top : MeaningOfTop({CandidatesBack(Or(top, Nil))}) = MeaningOfTop(top)
  BY DerefNew, CandidatesStable DEF MeaningOfTop
<1>5. Each(MeaningOfTop, TopBack(list)) = Each(MeaningOfTop, list)
  BY <1>4 DEF Each, TopBack
<1> QED BY <1>1, <1>2, <1>3, <1>5

LEMMA LogprobsStable ==
    ASSUME NEW result
    PROVE  /\ logprobsResultFromProto(logprobsResultToProto(result)) = LogprobsBack(result)
           /\ LogprobsBack(LogprobsBack(result)) = LogprobsBack(result)
           /\ LogprobsReadNil(LogprobsBack(result))
           /\ MeaningOfLogprobs(LogprobsBack(result)) = MeaningOfLogprobs(result)
<1> DEFINE proto(l) == [chosen |-> logprobsCandidatesToProto(l.chosen),
                        top |-> Each(topToProto, Items(l.top))]
           made(p) == [chosen |-> logprobsCandidatesFromProto(p.chosen),
                       top |-> cloneOrNil(Each(topFromProto, p.top))]
           says(l) == <<Each(MeaningOfCandidate, Items(l.chosen)),
                        Each(MeaningOfTop, Items(l.top))>>
<1>1. \A l : made(proto(l)) = LogprobsRead(l)
  BY CandidatesStable, TopStable DEF LogprobsRead
<1>2. ASSUME NEW l
      PROVE  /\ LogprobsRead(LogprobsRead(l)) = LogprobsRead(l)
             /\ says(LogprobsRead(l)) = says(l)
             /\ LogprobsRead(l).chosen # EmptySlice /\ LogprobsRead(l).top # EmptySlice
             /\ \A top \in Range(Items(LogprobsRead(l).top)) : top # Nil /\ EmptySlice \notin top
  <2> DEFINE x == LogprobsRead(l)
  <2>1. x.chosen = CandidatesBack(l.chosen) /\ x.top = cloneOrNil(TopBack(Items(l.top)))
    BY DEF LogprobsRead
  <2> HIDE DEF x
  <2>2. CandidatesBack(x.chosen) = x.chosen /\ cloneOrNil(TopBack(Items(x.top))) = x.top
    BY <2>1, CandidatesStable, TopStable, ItemsOfClone
  <2>3. LogprobsRead(x) = x
    BY <2>1, <2>2 DEF LogprobsRead, x
  <2>4. says(x) = says(l)
    BY <2>1, CandidatesStable, TopStable, ItemsOfClone
  <2>5. /\ x.chosen # EmptySlice /\ x.top # EmptySlice
        /\ \A top \in Range(Items(x.top)) : top # Nil /\ EmptySlice \notin top
    BY <2>1, CandidatesStable, TopStable, ItemsOfClone
  <2> QED BY <2>3, <2>4, <2>5 DEF x
<1>3. logprobsResultToProto(result) = {proto(l) : l \in result}
  BY DEF logprobsResultToProto
<1>4. /\ \A S : logprobsResultFromProto(S) = {made(p) : p \in S}
      /\ \A S : MeaningOfLogprobs(S) = {says(l) : l \in S}
  BY DEF logprobsResultFromProto, MeaningOfLogprobs
<1> HIDE DEF proto, made, says
<1>5. logprobsResultFromProto(logprobsResultToProto(result)) = LogprobsBack(result)
  BY <1>1, <1>3, <1>4 DEF LogprobsBack
<1>6. MeaningOfLogprobs(LogprobsBack(result)) = MeaningOfLogprobs(result)
  BY <1>2, <1>4 DEF LogprobsBack
<1>7. LogprobsBack(LogprobsBack(result)) = LogprobsBack(result)
  BY <1>2 DEF LogprobsBack
<1>8. LogprobsReadNil(LogprobsBack(result))
  BY <1>2 DEF LogprobsBack, LogprobsReadNil
<1> QED BY <1>5, <1>6, <1>7, <1>8


-----------------------------------------------------------------------------
(* Compactions, confirmations and requested inputs. *)

(* What a compaction reads back as. *)
ListAgain(list) == [i \in DOMAIN list |-> list[i]]
CompactionRead(c) ==
    [start |-> c.start, content |-> ContentBack(c.content),
     excluded |-> cloneOrNil(ListAgain(Items(c.excluded)))]
CompactionBack(compaction) == {CompactionRead(c) : c \in compaction}

LEMMA CompactionBackIs ==
    ASSUME NEW compaction
    PROVE  compactionFromProto(compactionToProto(compaction)) = CompactionBack(compaction)
<1> DEFINE proto(c) == [start |-> timestampOrNil(c.start), content |-> contentToProto(c.content),
                        excluded |-> Each(timestampOrNil, Items(c.excluded))]
           made(p) == [start |-> timeFromProto(p.start), content |-> contentFromProto(p.content),
                       excluded |-> cloneOrNil(Each(timeFromProto, p.excluded))]
<1>1. \A list : Each(timeFromProto, Each(timestampOrNil, list)) = ListAgain(list)
  BY TimesRoundTrip DEF Each, ListAgain
<1>2. \A c : made(proto(c)) = CompactionRead(c)
  BY <1>1, TimesRoundTrip, ContentBackIs DEF CompactionRead
<1>3. compactionToProto(compaction) = {proto(c) : c \in compaction}
  BY DEF compactionToProto
<1>4. \A S : compactionFromProto(S) = {made(p) : p \in S}
  BY DEF compactionFromProto
<1> HIDE DEF proto, made
<1> QED BY <1>2, <1>3, <1>4 DEF CompactionBack

LEMMA CompactionReadIs ==
    ASSUME NEW c
    PROVE  /\ CompactionRead(c).start = c.start
           /\ CompactionRead(c).content = ContentBack(c.content)
           /\ CompactionRead(c).excluded = cloneOrNil(ListAgain(Items(c.excluded)))
BY DEF CompactionRead

LEMMA CompactionStable ==
    ASSUME NEW compaction
    PROVE  /\ CompactionBack(CompactionBack(compaction)) = CompactionBack(compaction)
           /\ \A c \in CompactionBack(compaction) :
                 c.excluded # EmptySlice /\ ContentReadsNil(c.content)
           /\ (\A c \in compaction : ContentFits(c.content))
                => \A c \in CompactionBack(compaction) : ContentFits(c.content)
           /\ compaction \in Compaction
                => MeaningOfCompaction(CompactionBack(compaction)) = MeaningOfCompaction(compaction)
<1>1. \A list : ListAgain(ListAgain(list)) = ListAgain(list)
  BY DEF ListAgain
<1>2. \A c : CompactionRead(CompactionRead(c)) = CompactionRead(c)
  <2> TAKE c
  <2> DEFINE x == CompactionRead(c)
  <2>1. /\ x.start = c.start /\ x.content = ContentBack(c.content)
        /\ x.excluded = cloneOrNil(ListAgain(Items(c.excluded)))
    BY CompactionReadIs
  <2> HIDE DEF x
  <2>2. /\ ContentBack(x.content) = x.content
        /\ cloneOrNil(ListAgain(Items(x.excluded))) = x.excluded
    BY <1>1, <2>1, ItemsOfClone, ContentStable
  <2>3. CompactionRead(x) = x
    BY <2>1, <2>2 DEF CompactionRead, x
  <2> QED BY <2>3 DEF x
<1>3. CompactionBack(CompactionBack(compaction)) = CompactionBack(compaction)
  BY <1>2 DEF CompactionBack
<1>4. \A c \in CompactionBack(compaction) : c.excluded # EmptySlice /\ ContentReadsNil(c.content)
  BY CompactionReadIs, ItemsOfClone, ContentStable DEF CompactionBack
<1>5. (\A c \in compaction : ContentFits(c.content))
        => \A c \in CompactionBack(compaction) : ContentFits(c.content)
  BY CompactionReadIs, ContentStable DEF CompactionBack
<1>6. ASSUME compaction \in Compaction
      PROVE  MeaningOfCompaction(CompactionBack(compaction)) = MeaningOfCompaction(compaction)
  <2> DEFINE says(c) == [start |-> c.start, content |-> MeaningOfContent(c.content),
                         excluded |-> Items(c.excluded)]
  <2>1. ASSUME NEW c \in compaction
        PROVE  says(CompactionRead(c)) = says(c)
    <3>1. c.content \in Content /\ c.excluded \in Slice(Nat)
      BY <1>6 DEF Compaction, Pointer
    <3>2. Items(CompactionRead(c).excluded) = Items(c.excluded)
      <4>1. ListAgain(Items(c.excluded)) = Items(c.excluded)
        BY <3>1, ItemsTyped DEF ListAgain
      <4> QED BY <4>1, CompactionReadIs, ItemsOfClone
    <3>3. MeaningOfContent(CompactionRead(c).content) = MeaningOfContent(c.content)
      BY <3>1, CompactionReadIs, ContentRoundTrip
    <3> QED BY <3>2, <3>3, CompactionReadIs
  <2>2. \A S : MeaningOfCompaction(S) = {says(c) : c \in S}
    BY DEF MeaningOfCompaction
  <2> HIDE DEF says
  <2> QED BY <2>1, <2>2 DEF CompactionBack
<1> QED BY <1>3, <1>4, <1>5, <1>6

(* The entries of a map come back out of the map made of them. *)
LEMMA EntriesOfMap ==
    ASSUME NEW entries
    PROVE  Entries(mapOrNil(entries)) = entries /\ {} \notin mapOrNil(entries)
<1>1. CASE entries = {}
  BY <1>1, DerefNew DEF mapOrNil, Entries, Nil
<1>2. CASE entries # {}
  <2>1. mapOrNil(entries) = {entries}
    BY <1>2 DEF mapOrNil
  <2> QED BY <1>2, <2>1, DerefNew DEF Entries
<1> QED BY <1>1, <1>2

(* What a map of confirmations reads back as. *)
ConfirmationBack(c) == [id |-> c.id, payload |-> PayloadBack(c.payload)]
ConfirmationsBack(confirmations) == mapOrNil({ConfirmationBack(c) : c \in Entries(confirmations)})

LEMMA ConfirmationsStable ==
    ASSUME NEW confirmations
    PROVE  LET back == ConfirmationsBack(confirmations)
               fit(S) == \A c \in Entries(S) : JSONFits(sanitizeValue(c.payload))
               says(S) == {<<c.id, Meaning(c.payload)>> : c \in Entries(S)}
           IN /\ confirmationsFromProto(confirmationsToProto(confirmations)) = back
              /\ {} \notin back
              /\ (\A c \in Entries(confirmations) : Inhabited(c.payload))
                   => says(back) = says(confirmations)
              /\ (\A c \in Entries(confirmations) : NoEmptyStruct(c.payload))
                   => /\ ConfirmationsBack(back) = back
                      /\ fit(confirmations) => fit(back)
<1> DEFINE entries == Entries(confirmations)
           back == ConfirmationsBack(confirmations)
           fit(S) == \A c \in Entries(S) : JSONFits(sanitizeValue(c.payload))
           says(S) == {<<c.id, Meaning(c.payload)>> : c \in Entries(S)}
<1>1. \A c : ConfirmationBack(c).id = c.id /\ ConfirmationBack(c).payload = PayloadBack(c.payload)
  BY DEF ConfirmationBack
<1>2. confirmationsFromProto(confirmationsToProto(confirmations)) = back
  <2> DEFINE proto(c) == [id |-> c.id, payload |-> jsonValue(sanitizeValue(c.payload))]
  <2>1. \A c : ConfirmationRead(proto(c)) = ConfirmationBack(c)
    BY DEF ConfirmationRead, ConfirmationBack, PayloadBack, JSONBack
  <2>2. confirmationsToProto(confirmations) = {proto(c) : c \in entries}
    BY DEF confirmationsToProto
  <2> HIDE DEF proto, entries
  <2>3. {ConfirmationRead(p) : p \in confirmationsToProto(confirmations)}
          = {ConfirmationBack(c) : c \in entries}
    BY <2>1, <2>2
  <2> QED BY <2>3 DEF confirmationsFromProto, ConfirmationsBack, entries
<1>3. Entries(back) = {ConfirmationBack(c) : c \in entries} /\ {} \notin back
  BY EntriesOfMap DEF ConfirmationsBack
<1> HIDE DEF back, entries
<1>4. (\A c \in entries : Inhabited(c.payload)) => says(back) = says(confirmations)
  BY <1>1, <1>3, PayloadRoundTrip DEF entries
<1>5. ASSUME \A c \in entries : NoEmptyStruct(c.payload)
      PROVE  ConfirmationsBack(back) = back
  <2>1. \A c \in entries : ConfirmationBack(ConfirmationBack(c)) = ConfirmationBack(c)
    <3> SUFFICES ASSUME NEW c \in entries
                 PROVE  ConfirmationBack(ConfirmationBack(c)) = ConfirmationBack(c)
      OBVIOUS
    <3>1. PayloadBack(ConfirmationBack(c).payload) = PayloadBack(c.payload)
      BY <1>1, <1>5, PayloadStable
    <3> QED BY <1>1, <3>1 DEF ConfirmationBack
  <2>2. {ConfirmationBack(c) : c \in Entries(back)} = {ConfirmationBack(c) : c \in entries}
    BY <1>3, <2>1
  <2> QED BY <2>2 DEF ConfirmationsBack, back, entries
<1>6. (\A c \in entries : NoEmptyStruct(c.payload)) /\ fit(confirmations) => fit(back)
  BY <1>1, <1>3, PayloadStable DEF entries
<1> QED BY <1>2, <1>3, <1>4, <1>5, <1>6 DEF back, entries

(* What a requested input reads back as. *)
RequestRead(in) == [schema |-> in.schema, payload |-> JSONBack(in.payload)]
RequestBack(input) == {RequestRead(in) : in \in input}

LEMMA RequestStable ==
    ASSUME NEW input
    PROVE  /\ requestInputFromProto(requestInputToProto(input)) = RequestBack(input)
           /\ RequestBack(RequestBack(input)) = RequestBack(input)
           /\ RequestFits(input) => RequestFits(RequestBack(input))
           /\ (\A in \in input : NoNilMap(in.payload))
                => {<<in.schema, Meaning(in.payload)>> : in \in RequestBack(input)}
                     = {<<in.schema, Meaning(in.payload)>> : in \in input}
<1>1. \A in : RequestRead(in).schema = in.schema /\ RequestRead(in).payload = JSONBack(in.payload)
  BY DEF RequestRead
<1>2. requestInputFromProto(requestInputToProto(input)) = RequestBack(input)
  <2> DEFINE proto(in) == [schema |-> in.schema, payload |-> jsonValue(in.payload)]
             made(p) == [schema |-> p.schema, payload |-> valueToAny(p.payload)]
  <2>1. \A in : made(proto(in)) = RequestRead(in)
    BY DEF RequestRead, JSONBack
  <2>2. requestInputToProto(input) = {proto(in) : in \in input}
    BY DEF requestInputToProto
  <2>3. \A S : requestInputFromProto(S) = {made(p) : p \in S}
    BY DEF requestInputFromProto
  <2> HIDE DEF proto, made
  <2> QED BY <2>1, <2>2, <2>3 DEF RequestBack
<1>3. \A in : RequestRead(RequestRead(in)) = RequestRead(in)
  <2> TAKE in
  <2>1. JSONBack(RequestRead(in).payload) = JSONBack(in.payload)
    BY <1>1, JSONStable
  <2> QED BY <1>1, <2>1 DEF RequestRead
<1>4. RequestBack(RequestBack(input)) = RequestBack(input)
  BY <1>3 DEF RequestBack
<1>5. RequestFits(input) => RequestFits(RequestBack(input))
  BY <1>1, JSONStable DEF RequestFits, RequestBack
<1>6. (\A in \in input : NoNilMap(in.payload))
        => {<<in.schema, Meaning(in.payload)>> : in \in RequestBack(input)}
             = {<<in.schema, Meaning(in.payload)>> : in \in input}
  BY <1>1, JSONRoundTrip DEF RequestBack
<1> QED BY <1>2, <1>4, <1>5, <1>6


-----------------------------------------------------------------------------
(* Events. *)

(* What an event reads back as. *)
EventBack(e) ==
    [timestamp |-> e.timestamp, delta |-> DeltaBack(e.delta),
     artifacts |-> mapOrNil(Entries(e.artifacts)),
     confirmations |-> ConfirmationsBack(e.confirmations),
     compaction |-> CompactionBack(e.compaction), content |-> ContentBack(e.content),
     grounding |-> GroundingBack(e.grounding), usage |-> UsageBack(e.usage),
     citation |-> CitationsBack(e.citation), logprobs |-> LogprobsBack(e.logprobs),
     customMetadata |-> StructBack(e.customMetadata),
     finishReason |-> NameBack(FinishReason, e.finishReason),
     toolIDs |-> cloneOrNil(Items(e.toolIDs)),
     requestedInput |-> RequestBack(e.requestedInput), output |-> JSONBack(e.output)]

LEMMA EventBackIs ==
    ASSUME NEW e
    PROVE  protoToEvent(eventToProto(e)) = EventBack(e)
<1> DEFINE p == eventToProto(e)
<1>1. /\ p.timestamp = timestampOrNil(e.timestamp)
      /\ p.delta = structOrNil(StateDelta(e))
      /\ p.artifacts = Entries(e.artifacts)
      /\ p.confirmations = confirmationsToProto(e.confirmations)
      /\ p.compaction = compactionToProto(e.compaction)
      /\ p.content = contentToProto(e.content)
      /\ p.grounding = groundingMetadataToProto(e.grounding)
      /\ p.usage = usageMetadataToProto(e.usage)
      /\ p.citation = citationMetadataToProto(e.citation)
      /\ p.logprobs = logprobsResultToProto(e.logprobs)
      /\ p.customMetadata = structOrNil(sanitizeValue(e.customMetadata))
      /\ p.finishReason = enumToProto(FinishReason, e.finishReason)
      /\ p.toolIDs = Items(e.toolIDs)
      /\ p.requestedInput = requestInputToProto(e.requestedInput)
      /\ p.output = jsonValue(e.output)
  BY DEF eventToProto
<1> HIDE DEF p
<1>2. /\ timeFromProto(p.timestamp) = e.timestamp
      /\ structMap(p.delta) = DeltaBack(e.delta)
      /\ mapOrNil(p.artifacts) = mapOrNil(Entries(e.artifacts))
      /\ confirmationsFromProto(p.confirmations) = ConfirmationsBack(e.confirmations)
  BY <1>1, TimesRoundTrip, ConfirmationsStable DEF DeltaBack, StructBack, StateDelta
<1>3. /\ compactionFromProto(p.compaction) = CompactionBack(e.compaction)
      /\ contentFromProto(p.content) = ContentBack(e.content)
      /\ groundingMetadataFromProto(p.grounding) = GroundingBack(e.grounding)
  BY <1>1, CompactionBackIs, ContentBackIs, GroundingBackIs
<1>4. /\ usageMetadataFromProto(p.usage) = UsageBack(e.usage)
      /\ citationMetadataFromProto(p.citation) = CitationsBack(e.citation)
      /\ logprobsResultFromProto(p.logprobs) = LogprobsBack(e.logprobs)
  BY <1>1, UsageStable, CitationsStable, LogprobsStable
<1>5. /\ structMap(p.customMetadata) = StructBack(e.customMetadata)
      /\ enumFromProto(FinishReason, p.finishReason) = NameBack(FinishReason, e.finishReason)
      /\ cloneOrNil(p.toolIDs) = cloneOrNil(Items(e.toolIDs))
      /\ requestInputFromProto(p.requestedInput) = RequestBack(e.requestedInput)
      /\ valueToAny(p.output) = JSONBack(e.output)
  BY <1>1, RequestStable DEF StructBack, NameBack, JSONBack
<1>6. protoToEvent(p) = EventBack(e)
  BY <1>2, <1>3, <1>4, <1>5 DEF protoToEvent, EventBack
<1> QED BY <1>6 DEF p

LEMMA EventBackFields ==
    ASSUME NEW e
    PROVE  /\ EventBack(e).timestamp = e.timestamp
           /\ EventBack(e).delta = DeltaBack(e.delta)
           /\ EventBack(e).artifacts = mapOrNil(Entries(e.artifacts))
           /\ EventBack(e).confirmations = ConfirmationsBack(e.confirmations)
           /\ EventBack(e).compaction = CompactionBack(e.compaction)
           /\ EventBack(e).content = ContentBack(e.content)
           /\ EventBack(e).grounding = GroundingBack(e.grounding)
           /\ EventBack(e).usage = UsageBack(e.usage)
           /\ EventBack(e).citation = CitationsBack(e.citation)
           /\ EventBack(e).logprobs = LogprobsBack(e.logprobs)
           /\ EventBack(e).customMetadata = StructBack(e.customMetadata)
           /\ EventBack(e).finishReason = NameBack(FinishReason, e.finishReason)
           /\ EventBack(e).toolIDs = cloneOrNil(Items(e.toolIDs))
           /\ EventBack(e).requestedInput = RequestBack(e.requestedInput)
           /\ EventBack(e).output = JSONBack(e.output)
BY DEF EventBack

(* What is to be kept, field by field. *)
LEMMA ToBeKeptIs ==
    ASSUME NEW e
    PROVE  ToBeKept(e) =
              [timestamp |-> Says(e).timestamp, delta |-> Meaning({n \in e.delta : Durable(n)}),
               artifacts |-> Says(e).artifacts, confirmations |-> Says(e).confirmations,
               compaction |-> Says(e).compaction, content |-> Says(e).content,
               grounding |-> Says(e).grounding, usage |-> Says(e).usage,
               citation |-> Says(e).citation, logprobs |-> Says(e).logprobs,
               customMetadata |-> Says(e).customMetadata, finishReason |-> Says(e).finishReason,
               toolIDs |-> Says(e).toolIDs, requestedInput |-> Says(e).requestedInput,
               output |-> Says(e).output]
<1> DEFINE s == Says(e)
<1>1. s = [timestamp |-> s.timestamp, delta |-> s.delta, artifacts |-> s.artifacts,
           confirmations |-> s.confirmations, compaction |-> s.compaction,
           content |-> s.content, grounding |-> s.grounding, usage |-> s.usage,
           citation |-> s.citation, logprobs |-> s.logprobs,
           customMetadata |-> s.customMetadata, finishReason |-> s.finishReason,
           toolIDs |-> s.toolIDs, requestedInput |-> s.requestedInput, output |-> s.output]
  BY DEF Says
<1> DEFINE kept == Meaning({n \in e.delta : Durable(n)})
<1>2. ToBeKept(e) = [s EXCEPT !.delta = kept]
  BY DEF ToBeKept
<1> HIDE DEF s, kept
<1>3. [s EXCEPT !.delta = kept] =
          [timestamp |-> s.timestamp, delta |-> kept, artifacts |-> s.artifacts,
           confirmations |-> s.confirmations, compaction |-> s.compaction,
           content |-> s.content, grounding |-> s.grounding, usage |-> s.usage,
           citation |-> s.citation, logprobs |-> s.logprobs,
           customMetadata |-> s.customMetadata, finishReason |-> s.finishReason,
           toolIDs |-> s.toolIDs, requestedInput |-> s.requestedInput, output |-> s.output]
  BY <1>1
<1> QED BY <1>2, <1>3 DEF s, kept

(* An event that was accepted and has no null object reads back with       *)
(* everything of it that is to be kept.                                    *)
LEMMA EventRoundTrip ==
    ASSUME NEW e \in Event, ~GroundingPanics(e.grounding), NoNullObjects(e)
    PROVE  Says(EventBack(e)) = ToBeKept(e)
<1> DEFINE b == EventBack(e)
<1>1. /\ e.delta \in GoMap /\ e.compaction \in Compaction /\ e.content \in Content
      /\ e.grounding \in Grounding /\ e.usage \in Usage /\ e.customMetadata \in GoMap
      /\ e.finishReason \in NamesOf(FinishReason)
  BY DEF Event
<1>2. /\ \A c \in Entries(e.confirmations) : Inhabited(c.payload)
      /\ \A in \in e.requestedInput : NoNilMap(in.payload)
      /\ NoNilMap(e.output)
  BY DEF NoNullObjects
<1> HIDE DEF b
<1>3. /\ b.timestamp = e.timestamp
      /\ Meaning(b.delta) = Meaning({n \in e.delta : Durable(n)})
      /\ Entries(b.artifacts) = Entries(e.artifacts)
      /\ {<<c.id, Meaning(c.payload)>> : c \in Entries(b.confirmations)}
           = {<<c.id, Meaning(c.payload)>> : c \in Entries(e.confirmations)}
  BY <1>1, <1>2, EventBackFields, DeltaRoundTrip, EntriesOfMap, ConfirmationsStable DEF b
<1>4. /\ MeaningOfCompaction(b.compaction) = MeaningOfCompaction(e.compaction)
      /\ MeaningOfContent(b.content) = MeaningOfContent(e.content)
      /\ MeaningOfGrounding(b.grounding) = MeaningOfGrounding(e.grounding)
  BY <1>1, EventBackFields, CompactionStable, ContentRoundTrip, GroundingRoundTrip DEF b
<1>5. /\ MeaningOfUsage(b.usage) = MeaningOfUsage(e.usage)
      /\ MeaningOfCitations(b.citation) = MeaningOfCitations(e.citation)
      /\ MeaningOfLogprobs(b.logprobs) = MeaningOfLogprobs(e.logprobs)
  BY <1>1, EventBackFields, UsageStable, CitationsStable, LogprobsStable DEF b
<1>6. /\ Meaning(b.customMetadata) = Meaning(e.customMetadata)
      /\ MeaningOfEnum(FinishReason, b.finishReason) = MeaningOfEnum(FinishReason, e.finishReason)
      /\ Items(b.toolIDs) = Items(e.toolIDs)
      /\ {<<in.schema, Meaning(in.payload)>> : in \in b.requestedInput}
           = {<<in.schema, Meaning(in.payload)>> : in \in e.requestedInput}
      /\ Meaning(b.output) = Meaning(e.output)
  <2>1. MeaningOfEnum(FinishReason, b.finishReason) = MeaningOfEnum(FinishReason, e.finishReason)
    BY <1>1, EventBackFields, NamesRoundTrip DEF b
  <2> QED BY <1>1, <1>2, <2>1, EventBackFields, StructRoundTrip, ItemsOfClone, RequestStable,
             JSONRoundTrip DEF b
<1>7. Says(b) = ToBeKept(e)
  BY <1>3, <1>4, <1>5, <1>6, ToBeKeptIs DEF Says
<1> QED BY <1>7 DEF b

(* What was read is to be kept whole. *)
LEMMA ReadIsKept ==
    ASSUME NEW e
    PROVE  ToBeKept(EventBack(e)) = Says(EventBack(e))
<1> DEFINE b == EventBack(e)
<1> HIDE DEF b
<1>1. {n \in b.delta : Durable(n)} = b.delta
  BY EventBackFields, DurableRead DEF trimTempKeys, b
<1>2. ToBeKept(b) = Says(b)
  BY <1>1, ToBeKeptIs DEF Says
<1> QED BY <1>2 DEF b

(* What was read has nil for what is absent, and no nil pointer that the   *)
(* converters dereference.                                                 *)
LEMMA EventReadsNil ==
    ASSUME NEW e
    PROVE  LET b == EventBack(e)
           IN /\ EmptyMap \notin {b.delta, b.customMetadata}
              /\ {} \notin b.artifacts /\ {} \notin b.confirmations
              /\ b.toolIDs # EmptySlice
              /\ ContentReadsNil(b.content)
              /\ \A c \in b.compaction : c.excluded # EmptySlice /\ ContentReadsNil(c.content)
              /\ GroundingReadsNil(b.grounding) /\ LogprobsReadNil(b.logprobs)
              /\ EmptySlice \notin b.usage /\ EmptySlice \notin b.citation
              /\ ~GroundingPanics(b.grounding)
<1> DEFINE b == EventBack(e)
<1> HIDE DEF b
<1>1. /\ b.delta # EmptyMap /\ b.customMetadata # EmptyMap
      /\ {} \notin b.artifacts /\ {} \notin b.confirmations
  BY EventBackFields, DeltaStable, StructStable, EntriesOfMap, ConfirmationsStable DEF b
<1>2. /\ b.toolIDs # EmptySlice /\ ContentReadsNil(b.content)
      /\ \A c \in b.compaction : c.excluded # EmptySlice /\ ContentReadsNil(c.content)
  BY EventBackFields, ItemsOfClone, ContentStable, CompactionStable DEF b
<1>3. /\ GroundingReadsNil(b.grounding) /\ LogprobsReadNil(b.logprobs)
      /\ EmptySlice \notin b.usage /\ EmptySlice \notin b.citation
      /\ ~GroundingPanics(b.grounding)
  BY EventBackFields, GroundingStable, LogprobsStable, UsageStable, CitationsStable DEF b
<1> QED BY <1>1, <1>2, <1>3 DEF b

(* What was read reads back as itself, and is accepted. *)
LEMMA EventStable ==
    ASSUME NEW e, NoEmptyStructs(e)
    PROVE  /\ EventBack(EventBack(e)) = EventBack(e)
           /\ Converts(e) => Converts(EventBack(e))
<1> DEFINE b == EventBack(e)
<1>1. \A c \in Entries(e.confirmations) : NoEmptyStruct(c.payload)
  BY DEF NoEmptyStructs
<1> HIDE DEF b
<1>2. /\ DeltaBack(b.delta) = b.delta
      /\ mapOrNil(Entries(b.artifacts)) = b.artifacts
      /\ ConfirmationsBack(b.confirmations) = b.confirmations
      /\ CompactionBack(b.compaction) = b.compaction
      /\ ContentBack(b.content) = b.content
  BY <1>1, EventBackFields, DeltaStable, EntriesOfMap, ConfirmationsStable, CompactionStable,
     ContentStable DEF b
<1>3. /\ GroundingBack(b.grounding) = b.grounding
      /\ UsageBack(b.usage) = b.usage
      /\ CitationsBack(b.citation) = b.citation
      /\ LogprobsBack(b.logprobs) = b.logprobs
  BY EventBackFields, GroundingStable, UsageStable, CitationsStable, LogprobsStable DEF b
<1>4. /\ StructBack(b.customMetadata) = b.customMetadata
      /\ NameBack(FinishReason, b.finishReason) = b.finishReason
      /\ cloneOrNil(Items(b.toolIDs)) = b.toolIDs
      /\ RequestBack(b.requestedInput) = b.requestedInput
      /\ JSONBack(b.output) = b.output
  <2>1. NameBack(FinishReason, b.finishReason) = b.finishReason
    BY EventBackFields, NamesStable DEF b
  <2> QED BY <2>1, EventBackFields, StructStable, ItemsOfClone, RequestStable, JSONStable DEF b
<1>5. EventBack(b) =
        [timestamp |-> b.timestamp, delta |-> b.delta, artifacts |-> b.artifacts,
         confirmations |-> b.confirmations, compaction |-> b.compaction,
         content |-> b.content, grounding |-> b.grounding, usage |-> b.usage,
         citation |-> b.citation, logprobs |-> b.logprobs,
         customMetadata |-> b.customMetadata, finishReason |-> b.finishReason,
         toolIDs |-> b.toolIDs, requestedInput |-> b.requestedInput, output |-> b.output]
  BY <1>2, <1>3, <1>4 DEF EventBack
<1>6. EventBack(b) = b
  BY <1>5, EventBackFields DEF EventBack, b
<1>7. ASSUME Converts(e)
      PROVE  Converts(b)
  <2>1. /\ StructFits(sanitizeValue(trimTempKeys(e.delta)))
        /\ \A c \in Entries(e.confirmations) : JSONFits(sanitizeValue(c.payload))
        /\ \A c \in e.compaction : ContentFits(c.content)
        /\ ContentFits(e.content) /\ StructFits(sanitizeValue(e.customMetadata))
        /\ RequestFits(e.requestedInput) /\ JSONFits(e.output)
    BY <1>7 DEF Converts, StateDelta
  <2>2. /\ StructFits(sanitizeValue(trimTempKeys(b.delta)))
        /\ \A c \in Entries(b.confirmations) : JSONFits(sanitizeValue(c.payload))
        /\ \A c \in b.compaction : ContentFits(c.content)
    BY <1>1, <2>1, EventBackFields, DeltaStable, ConfirmationsStable, CompactionStable DEF b
  <2>3. /\ ContentFits(b.content) /\ StructFits(sanitizeValue(b.customMetadata))
        /\ RequestFits(b.requestedInput) /\ JSONFits(b.output)
    BY <2>1, EventBackFields, ContentStable, StructStable, RequestStable, JSONStable DEF b
  <2> QED BY <2>2, <2>3 DEF Converts, StateDelta
<1> QED BY <1>6, <1>7 DEF b


(* A value that its encoder refuses has a struct or a channel in it: a     *)
(* call or a confirmation is only left as it is inside of a struct.        *)
LEMMA BadNode ==
    ASSUME NEW v
    PROVE  /\ ~StructFits(sanitizeValue(v)) => \E n \in v : n.kind \in {"struct", "chan"}
           /\ ~JSONFits(sanitizeValue(v)) => \E n \in v : n.kind \in {"struct", "chan"}
           /\ ~JSONFits(v) => \E n \in v : n.kind \in {"struct", "chan"}
<1>1. ASSUME NEW x \in sanitizeValue(v), x.kind \in {"struct", "call", "confirmation", "chan"}
      PROVE  \E n \in v : n.kind \in {"struct", "chan"}
  <2>1. PICK n \in v : x = [path |-> n.path, kind |-> SanitizedKind(v, n)]
    BY <1>1, NodesSanitized
  <2>2. x.kind = SanitizedKind(v, n)
    BY <2>1
  <2>3. CASE WithinStruct(v, n)
    BY <2>3 DEF WithinStruct
  <2>4. CASE ~WithinStruct(v, n)
    BY <1>1, <2>2, <2>4 DEF SanitizedKind
  <2> QED BY <2>3, <2>4
<1> QED BY <1>1 DEF StructFits, JSONFits

LEMMA RefusedForANode ==
    ASSUME NEW e, ~Converts(e)
    PROVE  \/ \E n \in UNION ToBeStored(e) : n.kind \in {"struct", "chan"}
           \/ \E in \in e.requestedInput : "anything" \in in.schema
<1> DEFINE Bad(v) == \E n \in v : n.kind \in {"struct", "chan"}
<1>1. SUFFICES ASSUME NEW v, Bad(v), v \in ToBeStored(e)
               PROVE  \E n \in UNION ToBeStored(e) : n.kind \in {"struct", "chan"}
  <2>1. SUFFICES \/ \E v \in ToBeStored(e) : Bad(v)
                 \/ \E in \in e.requestedInput : "anything" \in in.schema
    BY <1>1
  <2>2. \A v : ~StructFits(sanitizeValue(v)) \/ ~JSONFits(sanitizeValue(v)) \/ ~JSONFits(v)
               => Bad(v)
    BY BadNode
  <2> HIDE DEF Bad
  <2>3. CASE ~StructFits(StateDelta(e))
    <3>1. trimTempKeys(e.delta) \in ToBeStored(e)
      BY DEF ToBeStored, trimTempKeys
    <3> QED BY <2>2, <2>3, <3>1 DEF StateDelta
  <2>4. ASSUME NEW c \in Entries(e.confirmations), ~JSONFits(sanitizeValue(c.payload))
        PROVE  \E v \in ToBeStored(e) : Bad(v)
    <3>1. c.payload \in ToBeStored(e)
      BY DEF ToBeStored
    <3> QED BY <2>2, <2>4, <3>1
  <2>5. \A c : ~ContentFits(c) => \E m \in ContentStructs(c) : Bad(m)
    BY <2>2 DEF ContentFits
  <2>6. ASSUME NEW c \in e.compaction, ~ContentFits(c.content)
        PROVE  \E v \in ToBeStored(e) : Bad(v)
    <3>1. \A m \in ContentStructs(c.content) : m \in ToBeStored(e)
      BY DEF ToBeStored
    <3> QED BY <2>5, <2>6, <3>1
  <2>7. CASE ~ContentFits(e.content)
    <3>1. \A m \in ContentStructs(e.content) : m \in ToBeStored(e)
      BY DEF ToBeStored
    <3> QED BY <2>5, <2>7, <3>1
  <2>8. CASE ~StructFits(sanitizeValue(e.customMetadata)) \/ ~JSONFits(e.output)
    <3>1. e.customMetadata \in ToBeStored(e) /\ e.output \in ToBeStored(e)
      BY DEF ToBeStored
    <3> QED BY <2>2, <2>8, <3>1
  <2>9. CASE ~RequestFits(e.requestedInput)
    <3>1. PICK in \in e.requestedInput : "anything" \in in.schema \/ ~JSONFits(in.payload)
      BY <2>9 DEF RequestFits
    <3>2. in.payload \in ToBeStored(e)
      BY DEF ToBeStored
    <3> QED BY <2>2, <3>1, <3>2
  <2> QED BY <2>3, <2>4, <2>6, <2>7, <2>8, <2>9 DEF Converts
<1> QED BY <1>1

-----------------------------------------------------------------------------
(* The theorems. *)

(* What is in the row and what was read are those of the event given, and  *)
(* an answer is what the event deserves.                                   *)
Answered ==
    /\ answer = "OK" =>
          /\ Converts(given) /\ ~GroundingPanics(given.grounding)
          /\ stored = eventToProto(given)
    /\ answer = "InvalidArgument" => ~Converts(given)
    /\ stored # Absent => answer = "OK"
    /\ read # Absent => answer = "OK" /\ read = EventBack(given)

LEMMA StoreAnswers ==
    ASSUME NEW e, Store(e)
    PROVE  /\ given' = e /\ read' = Absent
           /\ answer' = "OK" => /\ Converts(e) /\ ~GroundingPanics(e.grounding)
                                /\ stored' = eventToProto(e)
           /\ answer' = "InvalidArgument" => ~Converts(e)
           /\ answer' # "OK" => stored' = Absent
           /\ Converts(e) /\ ~GroundingPanics(e.grounding) => answer' = "OK"
           /\ answer' # "none"
<1>1. CASE ~Converts(e)
  BY <1>1 DEF Store
<1>2. CASE Converts(e) /\ GroundingPanics(e.grounding)
  BY <1>2 DEF Store
<1>3. CASE Converts(e) /\ ~GroundingPanics(e.grounding)
  BY <1>3 DEF Store
<1> QED BY <1>1, <1>2, <1>3

LEMMA AnsweredInvariant == Spec => []Answered
<1>1. Init => Answered
  BY DEF Init, Answered
<1>2. ASSUME Answered, [Next]_vars
      PROVE  Answered'
  <2>1. ASSUME NEW e, Store(e)
        PROVE  Answered'
    BY <2>1, StoreAnswers DEF Answered
  <2>2. CASE Get
    <3>1. read' = EventBack(given)
      BY <1>2, <2>2, EventBackIs DEF Answered, Get
    <3> QED BY <1>2, <2>2, <3>1 DEF Answered, Get
  <2>3. CASE Discard
    BY <1>2, <2>3 DEF Answered, Discard
  <2>4. CASE UNCHANGED vars
    BY <1>2, <2>4 DEF Answered, vars
  <2> QED BY <1>2, <2>1, <2>2, <2>3, <2>4 DEF Next, AppendEvent, AppendRead
<1> QED BY <1>1, <1>2, PTL DEF Spec

(* Whatever is appended, the exact Go shape of what is read back: nil for  *)
(* what is absent.                                                         *)
THEOREM ReadsNil == Spec => []ReadsNilForAbsent
<1>1. Answered => ReadsNilForAbsent
  BY EventReadsNil DEF Answered, ReadsNilForAbsent
<1> QED BY <1>1, AnsweredInvariant, PTL

(* Whatever is appended, an event is refused only for something in it that *)
(* would have been stored.                                                 *)
THEOREM Refused == Spec => []RefusedForWhatIsStored
<1>1. Answered => RefusedForWhatIsStored
  BY RefusedForANode DEF Answered, RefusedForWhatIsStored
<1> QED BY <1>1, AnsweredInvariant, PTL

(* The event given is a caller's or what one of those reads back as.       *)
Origin ==
    answer # "none" => given \in Events \/ \E e \in Events : given = EventBack(e)

LEMMA OriginInvariant ==
    ASSUME \A e \in Events : NoEmptyStructs(e)
    PROVE  Spec => []Origin
<1>1. Init => Origin
  BY DEF Init, Origin
<1>2. ASSUME Answered, Origin, [Next]_vars
      PROVE  Origin'
  <2>1. ASSUME NEW e \in Events, AppendEvent(e)
        PROVE  Origin'
    BY <2>1, StoreAnswers DEF Origin, AppendEvent
  <2>2. CASE AppendRead
    <3>1. given' = EventBack(given) /\ answer = "OK"
      BY <1>2, <2>2, StoreAnswers DEF Answered, AppendRead
    <3>2. \E e \in Events : given' = EventBack(e)
      BY <1>2, <3>1, EventStable DEF Origin
    <3> QED BY <3>2 DEF Origin
  <2>3. CASE Get
    BY <1>2, <2>3 DEF Origin, Get
  <2>4. CASE Discard
    BY <2>4 DEF Origin, Discard
  <2>5. CASE UNCHANGED vars
    BY <1>2, <2>5 DEF Origin, vars
  <2> QED BY <1>2, <2>1, <2>2, <2>3, <2>4, <2>5 DEF Next
<1> QED BY <1>1, <1>2, AnsweredInvariant, PTL DEF Spec

(* An event that has no null object where the code says "JSON" for a value *)
(* reads back with everything it said but its "temp:" keys.                *)
THEOREM RoundTrips ==
    ASSUME \A e \in Events : NoNullObjects(e)
    PROVE  Spec => []RoundTripsLosslessly
<1> \A e \in Events : NoEmptyStructs(e)
  BY DEF NoNullObjects, NoEmptyStructs, Inhabited, NoEmptyStruct
<1>1. ASSUME Answered, Origin
      PROVE  RoundTripsLosslessly
  <2> SUFFICES ASSUME read # Absent
               PROVE  Says(read) = ToBeKept(given)
    BY DEF RoundTripsLosslessly
  <2>1. read = EventBack(given) /\ answer = "OK" /\ ~GroundingPanics(given.grounding)
    BY <1>1 DEF Answered
  <2>2. CASE given \in Events
    BY <2>1, <2>2, EventsAssumption, EventRoundTrip
  <2>3. ASSUME NEW e \in Events, given = EventBack(e)
        PROVE  Says(read) = ToBeKept(given)
    BY <2>1, <2>3, EventStable, ReadIsKept
  <2> QED BY <1>1, <2>1, <2>2, <2>3 DEF Origin
<1> QED BY <1>1, AnsweredInvariant, OriginInvariant, PTL

(* What an event without empty structs in its confirmations reads back as  *)
(* is stable: appended again it is accepted, and reads back as the very    *)
(* same event.                                                             *)
THEOREM ReadAgain ==
    ASSUME \A e \in Events : NoEmptyStructs(e)
    PROVE  Spec => ReadAgainTheSame
<1>1. ASSUME Answered, Origin, AppendRead
      PROVE  answer' = "OK" /\ protoToEvent(stored') = read
  <2>1. /\ read = EventBack(given) /\ answer = "OK" /\ Converts(given)
        /\ Store(read)
    BY <1>1 DEF Answered, AppendRead
  <2>2. EventBack(read) = read /\ Converts(read)
    <3>1. CASE given \in Events
      BY <2>1, <3>1, EventStable
    <3>2. ASSUME NEW e \in Events, given = EventBack(e)
          PROVE  EventBack(read) = read /\ Converts(read)
      BY <2>1, <3>2, EventStable
    <3> QED BY <1>1, <2>1, <3>1, <3>2 DEF Origin
  <2>3. ~GroundingPanics(read.grounding)
    BY <2>1, EventReadsNil
  <2> QED BY <2>1, <2>2, <2>3, StoreAnswers, EventBackIs
<1>2. Answered /\ Origin => [AppendRead => answer' = "OK" /\ protoToEvent(stored') = read]_vars
  BY <1>1
<1> QED BY <1>2, AnsweredInvariant, OriginInvariant, PTL DEF ReadAgainTheSame
===============================================================================
