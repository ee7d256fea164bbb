------------------------- MODULE SessionTablesProofs -------------------------
(***************************************************************************)
(* Lemmas about the rows of SessionTables: the types of what the row-level *)
(* helpers return, and what of the state they keep.                        *)
(***************************************************************************)
EXTENDS SessionTables, ScopedStateProofs

LEMMA KeyParts ==
    ASSUME NEW k \in Key
    PROVE  AppOf(k) \in App /\ UserOf(k) \in App \X User
BY DEF Key, AppOf, UserOf

LEMMA EmptyMapTyping ==
    ASSUME NEW S
    PROVE  EmptyMap(S) \in Maps(S)
BY DEF EmptyMap, Maps

(* scopedStateMutations skips a row its delta has no keys for; merging     *)
(* nothing into it would have left it as it was.                           *)
LEMMA MergeNothing ==
    ASSUME NEW S, NEW state \in Maps(S)
    PROVE  mergedState(state, EmptyMap(S)) = state
BY DEF mergedState, EmptyMap, Maps

LEMMA AppendedRowTyping ==
    ASSUME NEW row \in Session, NEW event \in Event
    PROVE  AppendedRow(row, event) \in Session
<1>1. SessionPart(event.delta) \in Maps(SessionVar)
    BY SplitTyping DEF Event
<1>2. mergedState(row.state, SessionPart(event.delta)) \in Maps(SessionVar)
    BY <1>1, MergeTyping DEF Session
<1>3. QED
    BY <1>2 DEF AppendedRow, Session, Event

LEMMA WriteScopedTyping ==
    ASSUME NEW k \in Key, NEW d \in Maps(StateKey),
           NEW app \in Maps(AppVar), NEW user \in Maps(UserVar),
           NEW apps \in [App -> Maps(AppVar)], NEW users \in [App \X User -> Maps(UserVar)]
    PROVE  /\ PutAppState(apps, k, app, d) \in [App -> Maps(AppVar)]
           /\ PutUserState(users, k, user, d) \in [App \X User -> Maps(UserVar)]
<1>1. /\ mergedState(app, AppPart(d)) \in Maps(AppVar)
      /\ mergedState(user, UserPart(d)) \in Maps(UserVar)
    BY SplitTyping, MergeTyping
<1>2. QED
    BY <1>1, KeyParts DEF PutAppState, PutUserState

(* The merged state that a session is read with. *)
LEMMA ViewTyping ==
    ASSUME NEW app \in Maps(AppVar), NEW user \in Maps(UserVar), NEW session \in Maps(SessionVar)
    PROVE  mergeStateMaps(app, user, session) \in Maps(StateKey)
<1>1. \A k \in StateKey : /\ HasPrefix(k, KeyPrefixApp) => Tail(k) \in AppVar
                          /\ HasPrefix(k, KeyPrefixUser) => Tail(k) \in UserVar
    BY DEF AppVar, UserVar
<1>2. QED
    BY <1>1 DEF mergeStateMaps, Maps
===============================================================================
