---------------------------- MODULE MCLiveSession ----------------------------
(***************************************************************************)
(* Small instances of LiveSession.                                         *)
(***************************************************************************)
EXTENDS LiveSession

CONSTANTS v, w

MCStateKey == {<<"x">>, <<"app:", "x">>, <<"temp:", "x">>}

SetTo(keys, value) == [k \in StateKey |-> IF k \in keys THEN value ELSE NoValue]

EveryKeyV == SetTo(StateKey, v)
AppW == SetTo({<<"app:", "x">>}, w)

NoState == {EmptyMap(StateKey)}
OneDelta == {EveryKeyV}

MkEvent(e, d, t) == [id |-> e, delta |-> d, timestamp |-> t]
UnnamedEvents == {MkEvent(0, EveryKeyV, 0)}
NamedOrNot == {MkEvent(e, EveryKeyV, 0) : e \in {0, 1}}
TwoDeltas == {MkEvent(0, EveryKeyV, 0), MkEvent(0, AppW, 3)}
Overwrites == {MkEvent(0, SetTo({<<"x">>}, x), 0) : x \in {v, w}}

WholeSession == {[after |-> 0, numRecent |-> 0]}
EveryRequest == [after : 0 .. 4, numRecent : 0 .. 2]

NoKeys == {}
AllSessions == Key

Symmetry == Permutations(Handle) \cup Permutations(Runner) \cup Permutations(Object)
=============================================================================
