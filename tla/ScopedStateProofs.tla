-------------------------- MODULE ScopedStateProofs --------------------------
(***************************************************************************)
(* What splitting a state map into its scopes and merging the scopes back  *)
(* computes, for every set of keys and values.                             *)
(***************************************************************************)
EXTENDS ScopedState, TLAPS

(* Cutting a prefix off a key and putting it back gives the key. *)
LEMMA PrefixRestored ==
    ASSUME NEW k \in StateKey
    PROVE  /\ Tail(k) \in Seq(STRING)
           /\ <<Head(k)>> \o Tail(k) = k
<1>1. k \in Seq(STRING) /\ k # <<>>
    BY StateKeyAssumption
<1>2. QED
    BY <1>1

(* A trimmed key of a shared row names the prefixed key it came from. *)
LEMMA TrimmedKeys ==
    /\ \A n \in AppVar : <<KeyPrefixApp>> \o n \in StateKey
    /\ \A n \in UserVar : <<KeyPrefixUser>> \o n \in StateKey
    /\ SessionVar \subseteq StateKey
<1>1. ASSUME NEW n \in AppVar PROVE <<KeyPrefixApp>> \o n \in StateKey
    BY PrefixRestored DEF AppVar, HasPrefix
<1>2. ASSUME NEW n \in UserVar PROVE <<KeyPrefixUser>> \o n \in StateKey
    BY PrefixRestored DEF UserVar, HasPrefix
<1>3. QED
    BY <1>1, <1>2 DEF SessionVar

(* splitScopedState returns a map for each of the three rows. *)
LEMMA SplitTyping ==
    ASSUME NEW d \in Maps(StateKey)
    PROVE  /\ AppPart(d) \in Maps(AppVar)
           /\ UserPart(d) \in Maps(UserVar)
           /\ SessionPart(d) \in Maps(SessionVar)
           /\ trimTempKeys(d) \in Maps(StateKey)
BY TrimmedKeys DEF Maps, AppPart, UserPart, SessionPart, trimTempKeys

LEMMA MergeTyping ==
    ASSUME NEW S, NEW existing \in Maps(S), NEW d \in Maps(S)
    PROVE  mergedState(existing, d) \in Maps(S)
BY DEF Maps, mergedState

(* The scopes do not overlap: what is trimmed to a row comes back under    *)
(* the key it was trimmed from.                                            *)
LEMMA PartsAtKey ==
    ASSUME NEW d \in Maps(StateKey), NEW k \in StateKey
    PROVE  /\ HasPrefix(k, KeyPrefixApp) =>
                 Tail(k) \in AppVar /\ AppPart(d)[Tail(k)] = d[k]
           /\ HasPrefix(k, KeyPrefixUser) =>
                 Tail(k) \in UserVar /\ UserPart(d)[Tail(k)] = d[k]
           /\ k \in SessionVar => SessionPart(d)[k] = d[k]
BY PrefixRestored DEF AppVar, UserVar, AppPart, UserPart, SessionPart, HasPrefix

(* A key is of exactly one scope. *)
LEMMA ScopesPartition ==
    ASSUME NEW k \in StateKey
    PROVE  /\ k \in SessionVar <=> /\ ~HasPrefix(k, KeyPrefixApp)
                                   /\ ~HasPrefix(k, KeyPrefixUser)
                                   /\ ~HasPrefix(k, KeyPrefixTemp)
           /\ HasPrefix(k, KeyPrefixTemp) =>
                 ~HasPrefix(k, KeyPrefixApp) /\ ~HasPrefix(k, KeyPrefixUser)
BY DEF SessionVar, HasPrefix, KeyPrefixApp, KeyPrefixUser, KeyPrefixTemp

(* Splitting a map and merging the parts gives back the map without its    *)
(* "temp:" keys: splitScopedState and mergeStateMaps are inverse to each   *)
(* other on every set of keys, those with nested prefixes included.        *)
THEOREM SplitThenMerge ==
    ASSUME NEW d \in Maps(StateKey)
    PROVE  mergeStateMaps(AppPart(d), UserPart(d), SessionPart(d)) = trimTempKeys(d)
<1>1. ASSUME NEW k \in StateKey
      PROVE  mergeStateMaps(AppPart(d), UserPart(d), SessionPart(d))[k] = trimTempKeys(d)[k]
    BY PartsAtKey, ScopesPartition DEF mergeStateMaps, trimTempKeys
<1>2. QED
    BY <1>1 DEF mergeStateMaps, trimTempKeys

(* Merging a delta into the three rows, part by part, does to the merged   *)
(* view what the delta without its "temp:" keys says and nothing more.     *)
THEOREM MergeThenView ==
    ASSUME NEW app \in Maps(AppVar), NEW user \in Maps(UserVar),
           NEW session \in Maps(SessionVar), NEW d \in Maps(StateKey)
    PROVE  mergeStateMaps(mergedState(app, AppPart(d)), mergedState(user, UserPart(d)),
                          mergedState(session, SessionPart(d)))
               = mergedState(mergeStateMaps(app, user, session), trimTempKeys(d))
<1> DEFINE after == mergeStateMaps(mergedState(app, AppPart(d)),
                                   mergedState(user, UserPart(d)),
                                   mergedState(session, SessionPart(d)))
           before == mergeStateMaps(app, user, session)
<1>1. ASSUME NEW k \in StateKey
      PROVE  after[k] = mergedState(before, trimTempKeys(d))[k]
    <2>1. CASE HasPrefix(k, KeyPrefixApp)
        BY <2>1, PartsAtKey, ScopesPartition
        DEF mergeStateMaps, mergedState, trimTempKeys, Maps
    <2>2. CASE HasPrefix(k, KeyPrefixUser)
        BY <2>2, PartsAtKey, ScopesPartition
        DEF mergeStateMaps, mergedState, trimTempKeys, Maps,
            HasPrefix, KeyPrefixApp, KeyPrefixUser
    <2>3. CASE k \in SessionVar
        BY <2>3, PartsAtKey, ScopesPartition
        DEF mergeStateMaps, mergedState, trimTempKeys, Maps
    <2>4. CASE HasPrefix(k, KeyPrefixTemp)
        BY <2>4, ScopesPartition DEF mergeStateMaps, mergedState, trimTempKeys
    <2>5. QED
        BY <2>1, <2>2, <2>3, <2>4, ScopesPartition
<1>2. QED
    BY <1>1 DEF mergeStateMaps, mergedState
=============================================================================
