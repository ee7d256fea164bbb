----------------------------- MODULE AtomicStore -----------------------------
(***************************************************************************)
(* What the operations of the session store do to the four tables, each in *)
(* one step.  Creating and appending need what they name to be absent,     *)
(* appending needs its session, every scoped delta is merged into the      *)
(* current shared rows, and deleting takes the session and all of its      *)
(* events.  This is the store that the ADK surface has; the gRPC surface   *)
(* adds Put (AtomicCalls).                                                 *)
(***************************************************************************)
EXTENDS SessionTables

VARIABLES sessions, events, appStates, userStates

tables == <<sessions, events, appStates, userStates>>

Init ==
    /\ sessions = [k \in Key |-> NoRow]
    /\ events = [k \in Key |-> NoEvents]
    /\ appStates = [a \in App |-> EmptyMap(AppVar)]
    /\ userStates = [u \in App \X User |-> EmptyMap(UserVar)]

(* The shared rows of k's app and user take their parts of d. *)
MergeScoped(k, d) ==
    /\ appStates' = PutAppState(appStates, k, appStates[AppOf(k)], d)
    /\ userStates' = PutUserState(userStates, k, userStates[UserOf(k)], d)

(* A new session, whose state is the session part of d. *)
Create(k, row, d) ==
    /\ sessions[k] = NoRow
    /\ row \in Session /\ row.state = SessionPart(d)
    /\ sessions' = [sessions EXCEPT ![k] = row]
    /\ MergeScoped(k, d)
    /\ UNCHANGED events

(* A new event, without "temp:" keys; its delta reaches the session row    *)
(* and the shared rows.                                                    *)
AppendEvent(k, e, event) ==
    /\ sessions[k] # NoRow
    /\ events[k][e] = NoRow
    /\ event.delta = trimTempKeys(event.delta)
    /\ events' = [events EXCEPT ![k][e] = event]
    /\ sessions' = [sessions EXCEPT ![k] = AppendedRow(sessions[k], event)]
    /\ MergeScoped(k, event.delta)

(* A row is stored, whatever was there before. *)
Put(k, row, d) ==
    /\ row \in Session
    /\ sessions' = [sessions EXCEPT ![k] = row]
    /\ MergeScoped(k, d)
    /\ UNCHANGED events

Delete(k) ==
    /\ sessions' = [sessions EXCEPT ![k] = NoRow]
    /\ events' = [events EXCEPT ![k] = NoEvents]
    /\ UNCHANGED <<appStates, userStates>>

(* What is stored is what the step left, so that evaluating the relation   *)
(* on a given step needs no search for it.                                 *)
Next ==
    \E k \in Key :
        \/ \E d \in Maps(StateKey) : Create(k, sessions'[k], d)
        \/ \E e \in EventID : /\ events'[k][e] \in Event
                              /\ AppendEvent(k, e, events'[k][e])
        \/ Delete(k)

Spec == Init /\ [][Next]_tables
=============================================================================
