----------------------------- MODULE LiveSession -----------------------------
(***************************************************************************)
(* DatabaseSession (adk_service.go): the in-memory sessions that ADK       *)
(* runners hold while they work, next to the store they were read from.    *)
(*                                                                         *)
(* The store is taken at its word: its operations are the one-step ones of *)
(* AtomicStore, which SessionStore implements.  What is in steps here is   *)
(* what happens around them: Get reads four tables one after the other in  *)
(* one read-only transaction, and AppendEvent first stores an event and    *)
(* then applies it to the live session, under the session's mutex.         *)
(*                                                                         *)
(* The callers own the event objects they append: AppendEvent fills in the *)
(* ID and the time of the object it is given, so that a runner that gets   *)
(* no answer can pass the same object again.                               *)
(*                                                                         *)
(* A partial event, an event that cannot be converted and a missing        *)
(* argument return before either, so they are no step.  UpdateSession,     *)
(* which no ADK runner calls, is left to SessionStore.                     *)
(***************************************************************************)
EXTENDS EventQuery

CONSTANTS Handle,       \* live sessions (*DatabaseSession)
          Runner,       \* goroutines that call the ADK service
          CreateState,  \* the initial states of created sessions
          GetRequest,   \* the options of Get
          Object,       \* the event objects (*Event) of the callers
          NewEvent,     \* what callers build events of
          SetValue,     \* values that State.Set is given
          DeletedKey,   \* the sessions that callers delete
          RepliesLost,  \* whether a reply of the store may be lost
          NotOpen,      \* a live session that does not exist yet
          MaxTime       \* bound on the clock

VARIABLES sessions, events, appStates, userStates,  \* the tables
          now,   \* the wall clock
          live,  \* the live sessions
          pc,    \* where a runner's call is
          call,  \* what it holds in its local variables
          object,  \* the event objects
          kept     \* the rows that an object was stored in

tables == <<sessions, events, appStates, userStates>>
objects == <<object, kept>>
vars == <<sessions, events, appStates, userStates, now, live, pc, call, object, kept>>

Store == INSTANCE AtomicStore WITH sessions <- sessions, events <- events,
                                   appStates <- appStates, userStates <- userStates

ASSUME LiveInputAssumption ==
    /\ CreateState \subseteq Maps(StateKey)
    /\ NewEvent \subseteq [id : EventID \cup {0}, delta : Maps(StateKey), timestamp : Nat]
    /\ GetRequest \subseteq [after : Nat, numRecent : Nat]
    /\ 0 \notin EventID /\ MaxTime \in Nat /\ SetValue \subseteq Value
    /\ DeletedKey \subseteq Key /\ RepliesLost \in BOOLEAN /\ "" \in DisplayName

(* An event; ID 0 is the empty one, which only an object may have.         *)
ListedEvent == [id : EventID, delta : Maps(StateKey), timestamp : Nat]

LiveRecord == [key        : Key,
               state      : Maps(StateKey),
               events     : Seq(ListedEvent),
               updateTime : Nat]

ASSUME NotOpenAssumption == NotOpen \notin LiveRecord

(* A runner in Get holds the key, the options, the rows read so far and    *)
(* the snapshot its transaction reads from; in AppendEvent the event.      *)
Snapshot == [app : Maps(AppVar), user : Maps(UserVar), rows : [EventID -> Event \cup {NoRow}]]

GetCall == [key : Key, request : [after : Nat, numRecent : Nat],
            row : Session, snapshot : Snapshot, app : Maps(AppVar), user : Maps(UserVar)]

AppendCall == [handle : Handle, object : Object, event : ListedEvent]

NoCall == [op |-> "none"]

LiveTypeOK ==
    /\ sessions \in [Key -> Session \cup {NoRow}]
    /\ events \in [Key -> [EventID -> Event \cup {NoRow}]]
    /\ appStates \in [App -> Maps(AppVar)]
    /\ userStates \in [App \X User -> Maps(UserVar)]
    /\ now \in Nat
    /\ live \in [Handle -> LiveRecord \cup {NotOpen}]
    /\ pc \in [Runner -> {"idle", "scoped", "events", "store", "apply"}]
    /\ call \in [Runner -> GetCall \cup AppendCall \cup {NoCall}]
    /\ \A r \in Runner :
          /\ pc[r] = "idle" => call[r] = NoCall
          /\ pc[r] \in {"scoped", "events"} => call[r] \in GetCall
          /\ pc[r] \in {"store", "apply"} =>
                call[r] \in AppendCall /\ live[call[r].handle] # NotOpen
    /\ object \in [Object -> ListedEvent \cup NewEvent]
    /\ kept \in [Object -> SUBSET (Key \X EventID)]

Init ==
    /\ Store!Init
    /\ now = 1
    /\ live = [h \in Handle |-> NotOpen]
    /\ pc = [r \in Runner |-> "idle"]
    /\ call = [r \in Runner |-> NoCall]
    /\ object \in [Object -> NewEvent]
    /\ kept = [o \in Object |-> {}]

-----------------------------------------------------------------------------
(* Live sessions.                                                          *)

(* A plausible defect: the view is the session's row alone. *)
newDatabaseSessionUnmerged(k, row, listed, appState, userState) ==
    [key |-> k, state |-> row.state, events |-> listed, updateTime |-> row.updateTime]

newDatabaseSession(k, row, listed, appState, userState) ==
    [key |-> k, state |-> mergeStateMaps(appState, userState, row.state),
     events |-> listed, updateTime |-> row.updateTime]

(* A plausible defect: the update time stays that of the read. *)
appendEventUndated(session, event) ==
    [session EXCEPT !.events = Append(@, event),
                    !.state = mergedState(session.state, event.delta)]

(* The whole delta, "temp:" keys included, reaches the live state. *)
appendEvent(session, event) ==
    [session EXCEPT !.events = Append(@, event),
                    !.updateTime = event.timestamp,
                    !.state = mergedState(session.state, event.delta)]

(* State.Set changes the live map only. *)
Set(h, n, value) ==
    /\ live[h] # NotOpen
    /\ live' = [live EXCEPT ![h].state[n] = value]
    /\ UNCHANGED <<tables, now, pc, call, objects>>

-----------------------------------------------------------------------------
(* Create.  The new live session exists only once its call returned, so    *)
(* the commit and the return are one step.                                 *)
Create(r, h, k, d) ==
    /\ pc[r] = "idle"
    /\ live[h] = NotOpen
    /\ sessions[k] = NoRow
    /\ sessions' = [sessions EXCEPT ![k] =
            [state |-> SessionPart(d), displayName |-> "",
             expiration |-> NoExpiration, updateTime |-> now]]
    /\ Store!MergeScoped(k, d)
    /\ \/ live' = [live EXCEPT ![h] =
                newDatabaseSession(k, sessions'[k], <<>>, appStates'[AppOf(k)],
                                   userStates'[UserOf(k)])]
       \/ RepliesLost /\ UNCHANGED live
    /\ UNCHANGED <<events, now, pc, call, objects>>

-----------------------------------------------------------------------------
(* Get: the session's row, then the app and user rows, then the events.    *)

(* What a read-only transaction that starts now reads later on. *)
SnapshotOf(k) ==
    [app |-> appStates[AppOf(k)], user |-> userStates[UserOf(k)], rows |-> events[k]]

(* A plausible defect: every read is a transaction of its own. *)
ReadFromLatest(r) == SnapshotOf(call[r].key)

ReadFrom(r) == call[r].snapshot

Get(r, k, request) ==
    /\ pc[r] = "idle"
    /\ sessions[k] # NoRow
    /\ pc' = [pc EXCEPT ![r] = "scoped"]
    /\ call' = [call EXCEPT ![r] =
            [key |-> k, request |-> request, row |-> sessions[k], snapshot |-> SnapshotOf(k),
             app |-> EmptyMap(AppVar), user |-> EmptyMap(UserVar)]]
    /\ UNCHANGED <<tables, now, live, objects>>

GetScoped(r) ==
    /\ pc[r] = "scoped"
    /\ pc' = [pc EXCEPT ![r] = "events"]
    /\ call' = [call EXCEPT ![r].app = ReadFrom(r).app, ![r].user = ReadFrom(r).user]
    /\ UNCHANGED <<tables, now, live, objects>>

GetEvents(r, h) ==
    /\ pc[r] = "events"
    /\ live[h] = NotOpen
    /\ LET c == call[r]
       IN \E listed \in listSessionEvents(ReadFrom(r).rows, c.request.after, c.request.numRecent) :
            live' = [live EXCEPT ![h] =
                newDatabaseSession(c.key, c.row, listed, c.app, c.user)]
    /\ pc' = [pc EXCEPT ![r] = "idle"]
    /\ call' = [call EXCEPT ![r] = NoCall]
    /\ UNCHANGED <<tables, now, objects>>

-----------------------------------------------------------------------------
(* AppendEvent: ID and timestamp are fixed, the trimmed event is stored,   *)
(* and after an answer OK the event is applied to the live session.        *)

(* A call works with the object (no two at once: that would be a data      *)
(* race of the callers).                                                   *)
InUse(o) == \E r \in Runner : pc[r] \in {"store", "apply"} /\ call[r].object = o

(* A new UUID is that of no event. *)
NewUUID == {e \in EventID : /\ \A k \in Key : events[k][e] = NoRow
                            /\ \A o \in Object : object[o].id # e}

(* A plausible defect: the ID and the time are given to a copy. *)
InPlaceNot(o, event) == object[o]

(* They are assigned in place. *)
InPlace(o, event) == event

AppendEvent(r, h, o) ==
    /\ pc[r] = "idle"
    /\ live[h] # NotOpen
    /\ ~InUse(o)
    /\ \E e \in IF object[o].id = 0 THEN NewUUID ELSE {object[o].id} :
          LET event == [object[o] EXCEPT !.id = e, !.timestamp = IF @ = 0 THEN now ELSE @]
          IN /\ object' = [object EXCEPT ![o] = InPlace(o, event)]
             /\ call' = [call EXCEPT ![r] = [handle |-> h, object |-> o, event |-> event]]
    /\ pc' = [pc EXCEPT ![r] = "store"]
    /\ UNCHANGED <<tables, now, live, kept>>

(* A plausible defect: "temp:" keys are stored. *)
eventToProtoUntrimmed(event) == [delta |-> event.delta, timestamp |-> event.timestamp]

(* What eventToProto keeps of an event. *)
eventToProto(event) == [delta |-> trimTempKeys(event.delta), timestamp |-> event.timestamp]

(* A plausible defect: the event is written with InsertOrUpdate. *)
EventExistsNever(k, e) == FALSE

(* The Insert of an event whose key is taken fails. *)
EventExists(k, e) == events[k][e] # NoRow

StoreEvent(r) ==
    /\ pc[r] = "store"
    /\ LET c == call[r]
           k == live[c.handle].key
       IN /\ sessions[k] # NoRow
          /\ ~EventExists(k, c.event.id)
          /\ events' = [events EXCEPT ![k][c.event.id] = eventToProto(c.event)]
          /\ sessions' = [sessions EXCEPT ![k] = AppendedRow(@, eventToProto(c.event))]
          /\ Store!MergeScoped(k, eventToProto(c.event).delta)
          /\ kept' = [kept EXCEPT ![c.object] = @ \cup {<<k, c.event.id>>}]
    /\ \/ pc' = [pc EXCEPT ![r] = "apply"] /\ UNCHANGED call
       \/ /\ RepliesLost
          /\ pc' = [pc EXCEPT ![r] = "idle"]
          /\ call' = [call EXCEPT ![r] = NoCall]
    /\ UNCHANGED <<now, live, object>>

ApplyEvent(r) ==
    /\ pc[r] = "apply"
    /\ live' = [live EXCEPT ![call[r].handle] = appendEvent(@, call[r].event)]
    /\ pc' = [pc EXCEPT ![r] = "idle"]
    /\ call' = [call EXCEPT ![r] = NoCall]
    /\ UNCHANGED <<tables, now, objects>>

(* A plausible defect: the store's error is dropped. *)
CallFailsUnnoticed(r) ==
    /\ pc[r] = "store"
    /\ pc' = [pc EXCEPT ![r] = "apply"]
    /\ UNCHANGED <<tables, now, live, call, objects>>

(* The store answers an error (the session is gone, the event exists, the  *)
(* context ended) or a read of Get fails; the call returns it.             *)
CallFails(r) ==
    /\ pc[r] \in {"scoped", "events", "store"}
    /\ pc' = [pc EXCEPT ![r] = "idle"]
    /\ call' = [call EXCEPT ![r] = NoCall]
    /\ UNCHANGED <<tables, now, live, objects>>

-----------------------------------------------------------------------------
(* A runner lets go of a live session that no call of it is using. *)
Close(h) ==
    /\ live[h] # NotOpen
    /\ \A r \in Runner : pc[r] \in {"store", "apply"} => call[r].handle # h
    /\ live' = [live EXCEPT ![h] = NotOpen]
    /\ UNCHANGED <<tables, now, pc, call, objects>>

(* Another caller deletes a session. *)
Delete(k) == Store!Delete(k) /\ sessions[k] # NoRow /\ UNCHANGED <<now, live, pc, call, objects>>

Tick == now < MaxTime /\ now' = now + 1 /\ UNCHANGED <<tables, live, pc, call, objects>>

Next ==
    \/ \E r \in Runner, h \in Handle :
          \/ \E k \in Key, d \in CreateState : Create(r, h, k, d)
          \/ GetEvents(r, h)
          \/ \E o \in Object : AppendEvent(r, h, o)
    \/ \E r \in Runner :
          \/ \E k \in Key, request \in GetRequest : Get(r, k, request)
          \/ GetScoped(r) \/ StoreEvent(r) \/ ApplyEvent(r) \/ CallFails(r)
    \/ \E h \in Handle, n \in StateKey, value \in SetValue : Set(h, n, value)
    \/ \E h \in Handle : Close(h)
    \/ \E k \in DeletedKey : Delete(k)
    \/ Tick

Spec == Init /\ [][Next]_vars

-----------------------------------------------------------------------------
(* The calls of ADK runners ask of the store only what AtomicStore offers: *)
(* in particular, an event reaches it without its "temp:" keys.            *)
StoreSpec == Store!Spec

Open == {h \in Handle : live[h] # NotOpen}

Stored(event) == [event EXCEPT !.delta = trimTempKeys(@)]

(* An event is shown by a live session only if it is stored, with the same *)
(* persisted delta and the same timestamp: a call whose append failed, or  *)
(* was refused because the event exists, leaves no trace in the view.      *)
(* (For sessions that nobody deletes.)                                     *)
ShownEventsStored ==
    \A h \in Open : \A i \in DOMAIN live[h].events :
        live[h].key \notin DeletedKey =>
            Stored(live[h].events[i]) \in EventsIn(events[live[h].key])

(* No event is shown twice by a live session, although a runner that got   *)
(* no reply appends it again and another runner may use the same ID.  (For *)
(* sessions that nobody deletes: the ID of a deleted event is free again.) *)
ShownOnce ==
    \A h \in Open : \A i, j \in DOMAIN live[h].events :
        live[h].key \notin DeletedKey /\ live[h].events[i].id = live[h].events[j].id => i = j

(* An event is stored at most once in a session, however often its caller  *)
(* appends it again: after an error, after a reply that was lost, and      *)
(* after an answer OK; the first append gave it its ID.                    *)
StoredAtMostOnce ==
    \A o \in Object : \A a, b \in kept[o] : a[1] = b[1] => a = b

(* Every key that the delta of a shown event sets is in the shown state:   *)
(* Get does not return an event without its state, or the events of one    *)
(* moment with the state of another.                                       *)
ShownEventsApplied ==
    \A h \in Open : \A i \in DOMAIN live[h].events, n \in StateKey :
        live[h].events[i].delta[n] # NoValue => live[h].state[n] # NoValue

(* A live session is up to date with the store, apart from its "temp:"     *)
(* keys, whenever no append to it is between its two halves and its stored *)
(* session has not been deleted: the merged state and the update time are  *)
(* those that Get would read.  One runner with one live session relies on  *)
(* it to see its own writes.                                               *)
UpToDate ==
    \A h \in Open :
        LET s == live[h]
            k == s.key
        IN (\A r \in Runner : pc[r] = "apply" => call[r].handle # h) /\ sessions[k] # NoRow =>
              /\ trimTempKeys(s.state) = mergeStateMaps(appStates[AppOf(k)],
                                             userStates[UserOf(k)], sessions[k].state)
              /\ s.updateTime = sessions[k].updateTime

(* Get returns what its options ask for, judged by the nanosecond times of *)
(* the snapshot's events: an event at or after `after' is left out only if *)
(* numRecent others that are not older are returned, and an event that is  *)
(* a microsecond or more before `after' is never returned.                 *)
AnswersRequest(r, h) ==
    LET c == call[r]
        given == EventsIn(c.snapshot.rows)
        listed == ToSet(live'[h].events)
    IN /\ listed \subseteq given
       /\ \A event \in listed : event.timestamp > c.request.after - Micro
       /\ c.request.numRecent > 0 => Cardinality(listed) <= c.request.numRecent
       /\ \A event \in given \ listed :
             event.timestamp >= c.request.after =>
                /\ c.request.numRecent > 0
                /\ Cardinality(listed) = c.request.numRecent
                /\ \A other \in listed : Truncate(other.timestamp) >= Truncate(event.timestamp)

GetReturns(r, h) == pc[r] = "events" /\ pc'[r] = "idle" /\ live'[h] # live[h]

GetReturnsWhatWasAsked ==
    [][\A r \in Runner, h \in Handle : GetReturns(r, h) => AnswersRequest(r, h)]_vars

(* What Get lists is in the order of the events' times, up to a            *)
(* microsecond, and with numRecent it is the end of what the same call     *)
(* lists without: the two directions of the query put events of one        *)
(* microsecond in the same order, so a limit never shows one of them where *)
(* the whole session shows another.                                        *)
ListsInOrder(r, h) ==
    LET c == call[r]
        listed == live'[h].events
    IN /\ \A i, j \in DOMAIN listed :
             i < j => listed[j].timestamp > listed[i].timestamp - Micro
       /\ \E whole \in listSessionEvents(c.snapshot.rows, c.request.after, 0) :
             IsSuffix(listed, whole)

GetListsInOrder ==
    [][\A r \in Runner, h \in Handle : GetReturns(r, h) => ListsInOrder(r, h)]_vars
==============================================================================
