------------------------------ MODULE EventQuery ------------------------------
(***************************************************************************)
(* listSessionEvents (spanner.go): which events of a session Get returns,  *)
(* and in which order.  Times are in nanoseconds, as the stored protos     *)
(* keep them; the generated timestamp column, which the query filters and  *)
(* orders by, has whole microseconds.  0 is the zero time.Time.            *)
(***************************************************************************)
EXTENDS SessionTables, SequencesExt

CONSTANT Micro  \* nanoseconds in a microsecond

ASSUME MicroAssumption == Micro \in Nat \ {0}

(* Event IDs are compared as strings; a number stands for an ID's rank.    *)
(* A table has finitely many rows.                                         *)
ASSUME EventIDOrder == EventID \subseteq Nat /\ IsFiniteSet(EventID)

(* The generated column, and time.Truncate(time.Microsecond) of a bound.   *)
Truncate(t) == t - (t % Micro)

(* The events stored in a session's rows, with their IDs. *)
EventsIn(rows) ==
    {[id |-> e, delta |-> rows[e].delta, timestamp |-> rows[e].timestamp] :
        e \in {e \in EventID : rows[e] # NoRow}}

(* ORDER BY timestamp ASC, event_id ASC. *)
Precedes(a, b) ==
    \/ Truncate(a.timestamp) < Truncate(b.timestamp)
    \/ Truncate(a.timestamp) = Truncate(b.timestamp) /\ a.id < b.id

(* A plausible defect: DESC is given for the timestamp only. *)
NewestFirstTiesAscending(a, b) ==
    \/ Truncate(b.timestamp) < Truncate(a.timestamp)
    \/ Truncate(b.timestamp) = Truncate(a.timestamp) /\ a.id < b.id

(* ORDER BY timestamp DESC, event_id DESC. *)
NewestFirst(a, b) == Precedes(b, a)

(* A plausible defect: after is compared with the column as it was given. *)
MatchesUntruncated(event, after) ==
    after # 0 => Truncate(event.timestamp) >= after

(* The WHERE clause on the timestamp; a zero after is no filter. *)
Matches(event, after) ==
    after # 0 => Truncate(event.timestamp) >= Truncate(after)

(* The rows of a query in the order it asks for. *)
Sorted(found, precedes(_, _)) ==
    {s \in [1 .. Cardinality(found) -> found] :
        \A i, j \in DOMAIN s : i < j => precedes(s[i], s[j])}

(* With numRecent the query runs newest first under LIMIT, and its result  *)
(* is reversed.  (The order leaves one result; these are all of them.)     *)
listSessionEvents(rows, after, numRecent) ==
    LET found == {event \in EventsIn(rows) : Matches(event, after)}
        limit == IF numRecent < Cardinality(found) THEN numRecent ELSE Cardinality(found)
    IN IF numRecent > 0
       THEN {Reverse(SubSeq(newestFirst, 1, limit)) :
                newestFirst \in Sorted(found, NewestFirst)}
       ELSE Sorted(found, Precedes)
===============================================================================
