------------------------------ MODULE ScopedRows ------------------------------
(***************************************************************************)
(* The three rows one session's state is spread over (its app's, its       *)
(* user's and its own), from any contents, under deltas merged one after   *)
(* the other: that splitting a delta into the rows and merging the rows    *)
(* into one map lose nothing, mix nothing and add nothing.                 *)
(***************************************************************************)
EXTENDS ScopedState

VARIABLES appState, userState, sessionState,  \* the rows
          view,   \* the merged map before the last delta
          delta   \* the last delta

vars == <<appState, userState, sessionState, view, delta>>

MergedView == mergeStateMaps(appState, userState, sessionState)

Init ==
    /\ appState \in Maps(AppVar)
    /\ userState \in Maps(UserVar)
    /\ sessionState \in Maps(SessionVar)
    /\ view = MergedView
    /\ delta = EmptyMap(StateKey)

(* The data of appendEvent: each part of the delta goes to its row. *)
ApplyDelta(d) ==
    /\ delta' = d
    /\ view' = MergedView
    /\ appState' = mergedState(appState, AppPart(d))
    /\ userState' = mergedState(userState, UserPart(d))
    /\ sessionState' = mergedState(sessionState, SessionPart(d))

Next == \E d \in Maps(StateKey) : ApplyDelta(d)

Spec == Init /\ [][Next]_vars

(* Splitting a delta and merging the parts gives back the delta without    *)
(* its "temp:" keys: no key changes scope, collides with another or is     *)
(* lost on the way through the three rows.                                 *)
SplitLosesNothing ==
    mergeStateMaps(AppPart(delta), UserPart(delta), SessionPart(delta))
        = trimTempKeys(delta)

(* The state read back after a delta was merged into the three rows is the *)
(* state read before, overwritten by the delta without its "temp:" keys.   *)
ViewAppliesDelta ==
    \A k \in StateKey :
        LET change == trimTempKeys(delta)[k]
        IN MergedView[k] = IF change # NoValue THEN change ELSE view[k]
===============================================================================
