------------------------------- MODULE MCPaging -------------------------------
(***************************************************************************)
(* Small instances of Paging.                                              *)
(***************************************************************************)
EXTENDS Paging, TLC

CONSTANTS n1, n2

Ask(of, orderBy, filter, pageSize) ==
    [of |-> of, orderBy |-> orderBy, filter |-> filter, pageSize |-> pageSize]

At(op, time) == [op |-> op, at |-> time]

Requests ==
    {Ask("sessions", "", n1, 1), Ask("sessions", "update_time", NoFilter, 0),
     Ask("sessions", "create_time desc", NoFilter, 1),
     Ask("events", "", NoFilter, 1), Ask("events", "timestamp desc", NoFilter, -1),
     Ask("events", "other", NoFilter, 9)}
    \cup {Ask("events", "", At(op, 3), 9) : op \in {"<=", ">=", "=", "<", ">"}}
    \cup {Ask("events", "", At(op, 2), 1) : op \in {"<=", ">=", "="}}

Symmetry == Permutations(Row)
===============================================================================
