--------------------------- MODULE MCSessionStore ---------------------------
(***************************************************************************)
(* Small instances of SessionStore.                                        *)
(***************************************************************************)
EXTENDS SessionStore, TLC

CONSTANTS v, w

MCStateKey == {<<"x">>, <<"app:", "x">>, <<"user:", "x">>, <<"temp:", "x">>}

(* Two keys of one app row, so that a delta on one can lose the other. *)
SharedStateKey == {<<"x">>, <<"app:", "x">>, <<"app:", "y">>, <<"user:", "x">>}

SetTo(keys, value) == [k \in StateKey |-> IF k \in keys THEN value ELSE NoValue]

NoExpire == [kind |-> "none", at |-> 0]

MkInput(state, expiration) ==
    [displayName |-> "n", state |-> state, expiration |-> expiration]

Update(state, expiration, mask) ==
    [session |-> MkInput(state, expiration), mask |-> mask]

(* Two deltas that set the same shared keys to different values. *)
EveryKeyV == SetTo(StateKey, v)
SharedW == SetTo({<<"app:", "x">>, <<"user:", "x">>}, w)
RaceDeltas == {EveryKeyV, SharedW}
OneDelta == {EveryKeyV}

(* Deltas on different keys of the app row. *)
DisjointDeltas == {SetTo(StateKey \ {<<"app:", "y">>}, v), SetTo({<<"app:", "y">>}, w)}

EmptyInput == {MkInput(EmptyMap(StateKey), NoExpire)}
StatefulInput == {MkInput(SetTo(StateKey, w), NoExpire)}

NoUpdates == {}

Renames == {Update(EmptyMap(StateKey), NoExpire, <<"display_name">>)}

(* Every path of the mask, an unsupported one, and the default mask; a ttl *)
(* and an absolute time.                                                   *)
MixedUpdates ==
    {Update(SetTo({<<"x">>, <<"app:", "x">>}, w), [kind |-> "ttl", at |-> 1], <<>>),
     Update(EmptyMap(StateKey), [kind |-> "expire_time", at |-> 2],
            <<"ttl", "expire_time">>),
     Update(EmptyMap(StateKey), NoExpire, <<"display_name", "other">>)}

Symmetry == Permutations(Proc) \cup Permutations(EventID)
=============================================================================
