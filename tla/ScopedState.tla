----------------------------- MODULE ScopedState -----------------------------
(***************************************************************************)
(* The scopes of ADK state (helpers.go, event_conversion.go).  An ADK key  *)
(* carries its scope as a prefix: "app:", "user:" or "temp:", or none for  *)
(* a session key.  A key is a non-empty sequence of segments cut after     *)
(* each prefix, so "app:user:x" is <<"app:", "user:", "x">>; testing and   *)
(* trimming a prefix look at the first segment only, as strings.HasPrefix  *)
(* and strings.TrimPrefix do.                                              *)
(*                                                                         *)
(* A state map is a total function whose value is NoValue at the keys the  *)
(* Go map does not hold, over the set of keys the map may hold.  A map     *)
(* that is NoValue everywhere stands for nil, for an empty map and for a   *)
(* missing AppStates or UserStates row, which the code reads alike.        *)
(***************************************************************************)
EXTENDS Sequences

CONSTANTS StateKey,  \* the ADK keys in play, prefix included
          Value,     \* the values a key may have, JSON null among them
          NoValue    \* the key is not in the map

ASSUME StateKeyAssumption == StateKey \subseteq Seq(STRING) \ {<<>>}
ASSUME NoValueAssumption == NoValue \notin Value

KeyPrefixApp == "app:"
KeyPrefixUser == "user:"
KeyPrefixTemp == "temp:"

HasPrefix(key, prefix) == Head(key) = prefix

(* The keys as each row stores them: trimmed in the shared rows, untouched *)
(* in the session row.                                                     *)
AppVar == {Tail(k) : k \in {k \in StateKey : HasPrefix(k, KeyPrefixApp)}}
UserVar == {Tail(k) : k \in {k \in StateKey : HasPrefix(k, KeyPrefixUser)}}
SessionVar ==
    {k \in StateKey : Head(k) \notin {KeyPrefixApp, KeyPrefixUser, KeyPrefixTemp}}

Maps(S) == [S -> Value \cup {NoValue}]

EmptyMap(S) == [n \in S |-> NoValue]

(***************************************************************************)
(* splitScopedState: the app, user and session parts of a prefixed map.    *)
(* "temp:" keys go to none of them.                                        *)
(***************************************************************************)
AppPart(state) == [n \in AppVar |-> state[<<KeyPrefixApp>> \o n]]
UserPart(state) == [n \in UserVar |-> state[<<KeyPrefixUser>> \o n]]
SessionPart(state) == [n \in SessionVar |-> state[n]]

(* trimTempKeys: the map without its "temp:" keys. *)
trimTempKeys(delta) ==
    [k \in StateKey |-> IF HasPrefix(k, KeyPrefixTemp) THEN NoValue ELSE delta[k]]

(* A plausible defect of mergedState: what was already there wins. *)
mergedStateKeepsOld(existing, delta) ==
    [n \in DOMAIN existing |-> IF existing[n] # NoValue THEN existing[n] ELSE delta[n]]

(* mergedState and mergeDelta: a copy of existing overwritten by delta. *)
mergedState(existing, delta) ==
    [n \in DOMAIN existing |-> IF delta[n] # NoValue THEN delta[n] ELSE existing[n]]

(* A plausible defect of mergeStateMaps: the user prefix is forgotten, so  *)
(* only app state and session state reach the view.                        *)
mergeStateMapsNoUser(appState, userState, sessionState) ==
    [k \in StateKey |->
        IF HasPrefix(k, KeyPrefixApp) THEN appState[Tail(k)]
        ELSE IF k \in SessionVar THEN sessionState[k] ELSE NoValue]

(* mergeStateMaps: the session map, then the app and the user map over it  *)
(* under their prefixes.                                                   *)
mergeStateMaps(appState, userState, sessionState) ==
    [k \in StateKey |->
        IF HasPrefix(k, KeyPrefixApp) THEN appState[Tail(k)]
        ELSE IF HasPrefix(k, KeyPrefixUser) THEN userState[Tail(k)]
        ELSE IF k \in SessionVar THEN sessionState[k] ELSE NoValue]
=============================================================================
