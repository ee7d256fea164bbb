----------------------------- MODULE AtomicCalls -----------------------------
(***************************************************************************)
(* What the session store promises concurrent callers.  A call asks,       *)
(* takes effect on the tables as they are at one moment, or not at all,    *)
(* and answers; once it took effect it is over, so it has no second one.   *)
(* What an update will write is settled when it asks, from the row stored  *)
(* at that moment: the code reads it before its transaction.  SessionStore *)
(* implements this module.                                                 *)
(***************************************************************************)
EXTENDS AtomicStore

CONSTANT Caller

VARIABLES asked,    \* what a caller asked for and has no answer to
          answered  \* the code of its last answer

vars == <<tables, asked, answered>>

Nothing == [op |-> "none"]

Request == [op : {"create", "append", "update", "delete"}, key : Key,
            event : EventID \cup {NoRow}, time : Nat, delta : Maps(StateKey),
            row : Session \cup {NoRow}]

(* An update keeps the state that it finds, or replaces it, with its       *)
(* scoped keys split off.                                                  *)
Updates(row, c) ==
    /\ row # NoRow /\ c.row \in Session
    /\ \/ c.row.state = SessionPart(c.delta)
       \/ c.row.state = row.state /\ c.delta = EmptyMap(StateKey)

Sensible(c) ==
    /\ c \in Request
    /\ c.op = "create" => c.row \in Session /\ c.row.state = SessionPart(c.delta)
    /\ c.op = "append" => c.event \in EventID /\ c.delta = trimTempKeys(c.delta)
    /\ c.op = "update" => Updates(sessions[c.key], c)

Ask(p) ==
    /\ asked[p] = Nothing
    /\ Sensible(asked'[p])
    /\ asked' = [asked EXCEPT ![p] = asked'[p]]
    /\ answered' = [answered EXCEPT ![p] = "none"]
    /\ UNCHANGED tables

TakeEffect(c) ==
    \/ c.op = "create" /\ Create(c.key, c.row, c.delta)
    \/ c.op = "append" /\ AppendEvent(c.key, c.event, [delta |-> c.delta, timestamp |-> c.time])
    \/ c.op = "update" /\ Put(c.key, c.row, c.delta)
    \/ c.op = "delete" /\ Delete(c.key)

Answer(p, codes) ==
    /\ asked' = [asked EXCEPT ![p] = Nothing]
    /\ \E code \in codes : answered' = [answered EXCEPT ![p] = code]

(* The reply of a call that took effect may be lost. *)
Succeed(p) ==
    /\ asked[p] # Nothing
    /\ TakeEffect(asked[p])
    /\ Answer(p, {"OK", "DeadlineExceeded"})

(* The codes that a call without effect may answer now. *)
Refusals(c) ==
    {"DeadlineExceeded"}
    \cup {code \in {"AlreadyExists"} : \/ c.op = "create" /\ sessions[c.key] # NoRow
                                       \/ c.op = "append" /\ events[c.key][c.event] # NoRow}
    \cup {code \in {"NotFound"} : c.op = "append" /\ sessions[c.key] = NoRow}

Refuse(p) ==
    /\ asked[p] # Nothing
    /\ Answer(p, Refusals(asked[p]))
    /\ UNCHANGED tables

(* Answered at once: the arguments are wrong or the session is not found.  *)
Reject(p) ==
    /\ asked[p] = Nothing
    /\ Answer(p, {"NotFound", "InvalidArgument", "FailedPrecondition"})
    /\ UNCHANGED tables

CallsInit ==
    /\ Init
    /\ asked = [p \in Caller |-> Nothing]
    /\ answered = [p \in Caller |-> "none"]

CallsNext == \E p \in Caller : Ask(p) \/ Succeed(p) \/ Refuse(p) \/ Reject(p)

CallsSpec == CallsInit /\ [][CallsNext]_vars
==============================================================================
