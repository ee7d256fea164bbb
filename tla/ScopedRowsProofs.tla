--------------------------- MODULE ScopedRowsProofs ---------------------------
(***************************************************************************)
(* The properties of ScopedRows, for every set of keys and values.         *)
(***************************************************************************)
EXTENDS ScopedRows, ScopedStateProofs

RowsOK ==
    /\ appState \in Maps(AppVar)
    /\ userState \in Maps(UserVar)
    /\ sessionState \in Maps(SessionVar)
    /\ view \in Maps(StateKey)
    /\ delta \in Maps(StateKey)

LEMMA ViewTyping ==
    ASSUME NEW app \in Maps(AppVar), NEW user \in Maps(UserVar),
           NEW session \in Maps(SessionVar)
    PROVE  mergeStateMaps(app, user, session) \in Maps(StateKey)
<1>1. \A k \in StateKey : /\ HasPrefix(k, KeyPrefixApp) => Tail(k) \in AppVar
                          /\ HasPrefix(k, KeyPrefixUser) => Tail(k) \in UserVar
    BY DEF AppVar, UserVar
<1>2. QED
    BY <1>1 DEF mergeStateMaps, Maps

LEMMA RowsTyped == Spec => []RowsOK
<1>1. Init => RowsOK
    BY ViewTyping DEF Init, RowsOK, MergedView, EmptyMap, Maps
<1>2. RowsOK /\ [Next]_vars => RowsOK'
    <2> SUFFICES ASSUME RowsOK, [Next]_vars
                 PROVE  RowsOK'
        OBVIOUS
    <2>1. ASSUME NEW d \in Maps(StateKey), ApplyDelta(d)
          PROVE  RowsOK'
        BY <2>1, SplitTyping, MergeTyping, ViewTyping DEF ApplyDelta, RowsOK, MergedView
    <2>2. QED
        BY <2>1 DEF Next, RowsOK, vars
<1>3. QED
    BY <1>1, <1>2, PTL DEF Spec

(* No key of a delta is lost, moved to another scope or merged with        *)
(* another on its way through the three rows.                              *)
THEOREM SplitCorrect == Spec => []SplitLosesNothing
<1>1. RowsOK => SplitLosesNothing
    BY SplitThenMerge DEF RowsOK, SplitLosesNothing
<1>2. QED
    BY <1>1, RowsTyped, PTL

(* What is read back after a delta is what was read before it, overwritten *)
(* by the keys of the delta that are persisted.                            *)
THEOREM ViewCorrect == Spec => []ViewAppliesDelta
<1>1. Init => ViewAppliesDelta
    BY ViewTyping DEF Init, ViewAppliesDelta, MergedView, trimTempKeys, EmptyMap
<1>2. RowsOK /\ ViewAppliesDelta /\ [Next]_vars => ViewAppliesDelta'
    <2> SUFFICES ASSUME RowsOK, ViewAppliesDelta, [Next]_vars
                 PROVE  ViewAppliesDelta'
        OBVIOUS
    <2>1. ASSUME NEW d \in Maps(StateKey), ApplyDelta(d)
          PROVE  ViewAppliesDelta'
        <3>1. MergedView' = mergedState(MergedView, trimTempKeys(d))
            BY <2>1, MergeThenView DEF ApplyDelta, MergedView, RowsOK
        <3>2. MergedView \in Maps(StateKey)
            BY ViewTyping DEF MergedView, RowsOK
        <3>3. QED
            BY <2>1, <3>1, <3>2 DEF ApplyDelta, ViewAppliesDelta, mergedState, Maps
    <2>2. CASE UNCHANGED vars
        BY <2>2 DEF vars, ViewAppliesDelta, MergedView
    <2>3. QED
        BY <2>1, <2>2 DEF Next
<1>3. QED
    BY <1>1, <1>2, RowsTyped, PTL DEF Spec
===============================================================================
