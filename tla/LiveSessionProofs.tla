-------------------------- MODULE LiveSessionProofs --------------------------
(***************************************************************************)
(* Theorems about LiveSession, for any number of runners, live sessions,   *)
(* event objects, sessions and keys.                                       *)
(***************************************************************************)
EXTENDS LiveSession, SessionTablesProofs, FunctionTheorems, FiniteSetTheorems, SequenceTheorems

-----------------------------------------------------------------------------
(* The query of Get. *)

LEMMA EventsInTyping ==
    ASSUME NEW rows \in [EventID -> Event \cup {NoRow}]
    PROVE  /\ IsFiniteSet(EventsIn(rows))
           /\ EventsIn(rows) \subseteq ListedEvent
           /\ \A a, b \in EventsIn(rows) : a.id = b.id => a = b
<1> DEFINE ids == {e \in EventID : rows[e] # NoRow}
           row == [e \in ids |-> [id |-> e, delta |-> rows[e].delta,
                                  timestamp |-> rows[e].timestamp]]
<1>1. IsFiniteSet(ids)
    BY EventIDOrder, FS_Subset
<1>2. \A e \in ids : rows[e] \in Event /\ row[e] \in ListedEvent
    BY DEF Event, ListedEvent
<1>3. EventsIn(rows) = {row[e] : e \in ids}
    BY DEF EventsIn
<1>4. row \in Surjection(ids, EventsIn(rows))
    BY <1>3, Fun_IsSurj
<1>5. IsFiniteSet(EventsIn(rows))
    BY <1>1, <1>4, FS_Surjection
<1>6. \A e \in ids : row[e].id = e
    OBVIOUS
<1>7. EventsIn(rows) \subseteq ListedEvent
    BY <1>2, <1>3
<1> HIDE DEF row, ids
<1>8. QED
    BY <1>3, <1>5, <1>6, <1>7

LEMMA PrecedesStrictly ==
    ASSUME NEW a \in ListedEvent
    PROVE  ~Precedes(a, a)
<1>1. a.timestamp \in Nat /\ a.id \in Nat
    BY EventIDOrder DEF ListedEvent
<1>2. Truncate(a.timestamp) \in Int
    BY <1>1, MicroAssumption DEF Truncate
<1>3. QED
    BY <1>1, <1>2 DEF Precedes

(* What Get lists are events of its rows, each once. *)
LEMMA ListedTyping ==
    ASSUME NEW rows \in [EventID -> Event \cup {NoRow}], NEW after \in Nat, NEW numRecent \in Nat,
           NEW listed \in listSessionEvents(rows, after, numRecent)
    PROVE  /\ listed \in Seq(ListedEvent)
           /\ \A i \in DOMAIN listed : listed[i] \in EventsIn(rows)
           /\ \A i, j \in DOMAIN listed : listed[i].id = listed[j].id => i = j
<1> DEFINE found == {event \in EventsIn(rows) : Matches(event, after)}
           size == Cardinality(found)
           limit == IF numRecent < size THEN numRecent ELSE size
<1>1. /\ found \subseteq EventsIn(rows) /\ found \subseteq ListedEvent
      /\ size \in Nat
      /\ \A a, b \in found : a.id = b.id => a = b
    BY EventsInTyping, FS_Subset, FS_CardinalityType
<1>2. limit \in Nat /\ limit <= size
    BY <1>1
<1> HIDE DEF found, size, limit
<1>3. CASE ~(numRecent > 0)
    <2>1. /\ listed \in [1 .. size -> found]
          /\ \A i, j \in 1 .. size : i < j => Precedes(listed[i], listed[j])
        BY <1>3 DEF listSessionEvents, Sorted, found, size
    <2>2. \A i, j \in 1 .. size : listed[i].id = listed[j].id => i = j
        <3> SUFFICES ASSUME NEW i \in 1 .. size, NEW j \in 1 .. size,
                            listed[i].id = listed[j].id, i # j
                     PROVE  FALSE
            OBVIOUS
        <3>1. listed[i] = listed[j] /\ ~Precedes(listed[i], listed[i])
            BY <1>1, <2>1, PrecedesStrictly
        <3>2. i < j \/ j < i
            BY <1>1
        <3>3. QED
            BY <2>1, <3>1, <3>2
    <2>3. listed \in Seq(ListedEvent)
        BY <1>1, <2>1
    <2>4. QED
        BY <1>1, <2>1, <2>2, <2>3
<1>4. CASE numRecent > 0
    <2>1. PICK newest \in [1 .. size -> found] :
              /\ \A i, j \in 1 .. size : i < j => Precedes(newest[j], newest[i])
              /\ listed = Reverse(SubSeq(newest, 1, limit))
        BY <1>4 DEF listSessionEvents, Sorted, NewestFirst, found, size, limit
    <2>2. \A i, j \in 1 .. size : newest[i].id = newest[j].id => i = j
        <3> SUFFICES ASSUME NEW i \in 1 .. size, NEW j \in 1 .. size,
                            newest[i].id = newest[j].id, i # j
                     PROVE  FALSE
            OBVIOUS
        <3>1. newest[i] = newest[j] /\ ~Precedes(newest[i], newest[i])
            BY <1>1, <2>1, PrecedesStrictly
        <3>2. i < j \/ j < i
            BY <1>1
        <3>3. QED
            BY <2>1, <3>1, <3>2
    <2>3. newest \in Seq(ListedEvent) /\ Len(newest) = size
        BY <1>1
    <2> DEFINE taken == SubSeq(newest, 1, limit)
    <2>4. /\ taken \in Seq(ListedEvent) /\ Len(taken) = limit
          /\ \A i \in 1 .. limit : taken[i] = newest[i]
        BY <1>1, <1>2, <2>3, SubSeqProperties
    <2> HIDE DEF taken
    <2>5. listed = [i \in 1 .. limit |-> taken[(limit - i) + 1]]
        BY <2>1, <2>4 DEF Reverse, taken
    <2>6. \A i \in 1 .. limit : (limit - i) + 1 \in 1 .. limit /\ (limit - i) + 1 \in 1 .. size
        BY <1>1, <1>2
    <2>7. \A i \in 1 .. limit : listed[i] = newest[(limit - i) + 1]
        BY <2>4, <2>5, <2>6
    <2>8. \A i \in 1 .. limit : listed[i] \in found
        BY <2>6, <2>7
    <2>9. listed \in Seq(ListedEvent) /\ DOMAIN listed = 1 .. limit
        BY <1>1, <1>2, <2>5, <2>8
    <2>10. \A i, j \in 1 .. limit : listed[i].id = listed[j].id => i = j
        <3> SUFFICES ASSUME NEW i \in 1 .. limit, NEW j \in 1 .. limit,
                            listed[i].id = listed[j].id
                     PROVE  i = j
            OBVIOUS
        <3>1. (limit - i) + 1 = (limit - j) + 1
            BY <2>2, <2>6, <2>7
        <3>2. QED
            BY <1>2, <3>1
    <2>11. QED
        BY <1>1, <2>8, <2>9, <2>10
<1>5. QED
    BY <1>3, <1>4

-----------------------------------------------------------------------------
(* Types of what the actions compute. *)

LEMMA NewSessionTyping ==
    ASSUME NEW k \in Key, NEW row \in Session, NEW listed \in Seq(ListedEvent),
           NEW app \in Maps(AppVar), NEW user \in Maps(UserVar)
    PROVE  newDatabaseSession(k, row, listed, app, user) \in LiveRecord
BY ViewTyping DEF newDatabaseSession, LiveRecord, Session

LEMMA AppendedSessionTyping ==
    ASSUME NEW session \in LiveRecord, NEW event \in ListedEvent
    PROVE  /\ appendEvent(session, event) \in LiveRecord
           /\ appendEvent(session, event).key = session.key
           /\ appendEvent(session, event).state = mergedState(session.state, event.delta)
           /\ appendEvent(session, event).events = Append(session.events, event)
<1>1. mergedState(session.state, event.delta) \in Maps(StateKey)
    BY MergeTyping DEF LiveRecord, ListedEvent
<1>2. Append(session.events, event) \in Seq(ListedEvent)
    BY DEF LiveRecord
<1>3. QED
    BY <1>1, <1>2 DEF appendEvent, LiveRecord, ListedEvent

LEMMA StoredEventTyping ==
    ASSUME NEW event \in ListedEvent
    PROVE  eventToProto(event) \in Event /\ eventToProto(event).delta = trimTempKeys(event.delta)
BY SplitTyping DEF eventToProto, Event, ListedEvent

-----------------------------------------------------------------------------
(* The instance of AtomicStore has operators of its own; they are the same *)
(* as the ones of this specification.                                      *)
LEMMA SameTables ==
    /\ Store!Key = Key
    /\ Store!NoEvents = NoEvents
    /\ \A S : Store!EmptyMap(S) = EmptyMap(S)
    /\ \A S : Store!Maps(S) = Maps(S)
    /\ Store!AppVar = AppVar /\ Store!UserVar = UserVar /\ Store!SessionVar = SessionVar
    /\ Store!Session = Session /\ Store!Event = Event
    /\ \A k : Store!AppOf(k) = AppOf(k) /\ Store!UserOf(k) = UserOf(k)
<1>1. /\ Store!AppVar = AppVar /\ Store!UserVar = UserVar
      /\ Store!SessionVar = SessionVar
    BY DEF Store!AppVar, AppVar, Store!UserVar, UserVar, Store!SessionVar, SessionVar,
           Store!HasPrefix, HasPrefix, Store!KeyPrefixApp, KeyPrefixApp,
           Store!KeyPrefixUser, KeyPrefixUser, Store!KeyPrefixTemp, KeyPrefixTemp
<1>2. \A S : Store!Maps(S) = Maps(S)
    BY DEF Store!Maps, Maps
<1>3. Store!Session = Session /\ Store!Event = Event
    BY <1>1, <1>2 DEF Store!Session, Session, Store!Event, Event
<1>4. QED
    BY <1>1, <1>2, <1>3 DEF Store!Key, Key, Store!NoEvents, NoEvents, Store!EmptyMap, EmptyMap,
           Store!AppOf, AppOf, Store!UserOf, UserOf

LEMMA SameSplit ==
    \A d : /\ Store!AppPart(d) = AppPart(d)
           /\ Store!UserPart(d) = UserPart(d)
           /\ Store!SessionPart(d) = SessionPart(d)
           /\ Store!trimTempKeys(d) = trimTempKeys(d)
BY SameTables
DEF Store!AppPart, AppPart, Store!UserPart, UserPart, Store!SessionPart, SessionPart,
    Store!trimTempKeys, trimTempKeys, Store!HasPrefix, HasPrefix,
    Store!KeyPrefixApp, KeyPrefixApp, Store!KeyPrefixUser, KeyPrefixUser,
    Store!KeyPrefixTemp, KeyPrefixTemp

LEMMA SameWrites ==
    /\ \A k, d : Store!MergeScoped(k, d) <=>
           /\ appStates' = PutAppState(appStates, k, appStates[AppOf(k)], d)
           /\ userStates' = PutUserState(userStates, k, userStates[UserOf(k)], d)
    /\ \A row, event : Store!AppendedRow(row, event) = AppendedRow(row, event)
<1>1. \A existing, d : Store!mergedState(existing, d) = mergedState(existing, d)
    BY DEF Store!mergedState, mergedState
<1>2. QED
    BY <1>1, SameTables, SameSplit
    DEF Store!MergeScoped, Store!PutAppState, PutAppState, Store!PutUserState, PutUserState,
        Store!AppendedRow, AppendedRow

-----------------------------------------------------------------------------
(* Type correctness.                                                       *)

TablesOK ==
    /\ sessions \in [Key -> Session \cup {NoRow}]
    /\ events \in [Key -> [EventID -> Event \cup {NoRow}]]
    /\ appStates \in [App -> Maps(AppVar)]
    /\ userStates \in [App \X User -> Maps(UserVar)]

CallOK(r) ==
    /\ pc[r] = "idle" => call[r] = NoCall
    /\ pc[r] \in {"scoped", "events"} => call[r] \in GetCall
    /\ pc[r] \in {"store", "apply"} =>
          call[r] \in AppendCall /\ live[call[r].handle] # NotOpen

LEMMA RowsPresent ==
    ASSUME TablesOK, NEW k \in Key
    PROVE  /\ sessions[k] # NoRow => sessions[k] \in Session
           /\ events[k] \in [EventID -> Event \cup {NoRow}]
           /\ appStates[AppOf(k)] \in Maps(AppVar)
           /\ userStates[UserOf(k)] \in Maps(UserVar)
BY KeyParts DEF TablesOK

LEMMA MergeScopedTyping ==
    ASSUME TablesOK, NEW k \in Key, NEW d \in Maps(StateKey), Store!MergeScoped(k, d)
    PROVE  /\ appStates' \in [App -> Maps(AppVar)]
           /\ userStates' \in [App \X User -> Maps(UserVar)]
<1>1. /\ appStates' = PutAppState(appStates, k, appStates[AppOf(k)], d)
      /\ userStates' = PutUserState(userStates, k, userStates[UserOf(k)], d)
    BY SameWrites
<1>2. appStates[AppOf(k)] \in Maps(AppVar) /\ userStates[UserOf(k)] \in Maps(UserVar)
    BY RowsPresent
<1>3. QED
    BY <1>1, <1>2, WriteScopedTyping DEF TablesOK

(* The tables keep their types whatever is written to them. *)
LEMMA TablesStep ==
    ASSUME LiveTypeOK, [Next]_vars
    PROVE  TablesOK'
<1>1. TablesOK
    BY DEF LiveTypeOK, TablesOK
<1>2. CASE UNCHANGED tables
    BY <1>1, <1>2 DEF TablesOK, tables
<1>3. ASSUME NEW r \in Runner, NEW h \in Handle, NEW k \in Key, NEW d \in CreateState,
             Create(r, h, k, d)
      PROVE  TablesOK'
    <2>1. d \in Maps(StateKey) /\ now \in Nat /\ "" \in DisplayName
        BY LiveInputAssumption DEF LiveTypeOK
    <2>2. [state |-> SessionPart(d), displayName |-> "",
           expiration |-> NoExpiration, updateTime |-> now] \in Session
        BY <2>1, SplitTyping DEF Session
    <2>3. Store!MergeScoped(k, d) /\ events' = events
        BY <1>3 DEF Create
    <2>4. sessions' \in [Key -> Session \cup {NoRow}]
        BY <1>1, <1>3, <2>2 DEF Create, TablesOK
    <2>5. QED
        BY <1>1, <2>1, <2>3, <2>4, MergeScopedTyping DEF TablesOK
<1>4. ASSUME NEW r \in Runner, StoreEvent(r)
      PROVE  TablesOK'
    <2> DEFINE c == call[r]
               k == live[c.handle].key
               stored == eventToProto(c.event)
    <2>1. c \in AppendCall /\ live[c.handle] # NotOpen
        BY <1>4 DEF StoreEvent, LiveTypeOK
    <2>2. k \in Key /\ c.event \in ListedEvent /\ c.event.id \in EventID
        BY <2>1 DEF AppendCall, ListedEvent, LiveRecord, LiveTypeOK
    <2>3. /\ sessions[k] # NoRow
          /\ events' = [events EXCEPT ![k][c.event.id] = stored]
          /\ sessions' = [sessions EXCEPT ![k] = AppendedRow(@, stored)]
          /\ Store!MergeScoped(k, stored.delta)
        BY <1>4 DEF StoreEvent
    <2>4. stored \in Event /\ stored.delta \in Maps(StateKey)
        BY <2>2, StoredEventTyping DEF Event
    <2> HIDE DEF c, k, stored
    <2>5. sessions' \in [Key -> Session \cup {NoRow}]
        BY <1>1, <2>2, <2>3, <2>4, AppendedRowTyping DEF TablesOK
    <2>6. events' \in [Key -> [EventID -> Event \cup {NoRow}]]
        BY <1>1, <2>2, <2>3, <2>4 DEF TablesOK
    <2>7. QED
        BY <1>1, <2>2, <2>3, <2>4, <2>5, <2>6, MergeScopedTyping DEF TablesOK
<1>5. ASSUME NEW k \in DeletedKey, Delete(k)
      PROVE  TablesOK'
    <2>1. k \in Key /\ NoEvents \in [EventID -> Event \cup {NoRow}]
        BY LiveInputAssumption DEF NoEvents
    <2>2. QED
        BY <1>1, <1>5, <2>1, SameTables DEF Delete, Store!Delete, TablesOK
<1>6. QED
    BY <1>2, <1>3, <1>4, <1>5
    DEF Next, vars, tables, GetEvents, AppendEvent, Get, GetScoped, ApplyEvent, CallFails,
        Set, Close, Tick

RunnersOK ==
    /\ now \in Nat
    /\ live \in [Handle -> LiveRecord \cup {NotOpen}]
    /\ pc \in [Runner -> {"idle", "scoped", "events", "store", "apply"}]
    /\ call \in [Runner -> GetCall \cup AppendCall \cup {NoCall}]
    /\ \A r \in Runner : CallOK(r)
    /\ object \in [Object -> ListedEvent \cup NewEvent]
    /\ kept \in [Object -> SUBSET (Key \X EventID)]

LEMMA TypeParts == LiveTypeOK <=> TablesOK /\ RunnersOK
BY DEF LiveTypeOK, TablesOK, RunnersOK, CallOK

LEMMA CreateTyping ==
    ASSUME LiveTypeOK, TablesOK', NEW r \in Runner, NEW h \in Handle, NEW k \in Key,
           NEW d \in CreateState, Create(r, h, k, d)
    PROVE  RunnersOK'
<1> DEFINE opened == newDatabaseSession(k, sessions'[k], <<>>, appStates'[AppOf(k)],
                                        userStates'[UserOf(k)])
<1>1. sessions'[k] \in Session
    <2>1. sessions'[k].displayName = "" /\ sessions'[k] # NoRow
        <3>1. [state |-> SessionPart(d), displayName |-> "",
               expiration |-> NoExpiration, updateTime |-> now] \in Session
            BY SplitTyping, LiveInputAssumption DEF Session, LiveTypeOK
        <3>2. QED
            BY <3>1, NoRowAssumption DEF Create, LiveTypeOK
    <2>2. QED
        BY <2>1 DEF TablesOK
<1>2. appStates'[AppOf(k)] \in Maps(AppVar) /\ userStates'[UserOf(k)] \in Maps(UserVar)
    BY KeyParts DEF TablesOK
<1>3. opened \in LiveRecord
    <2>1. <<>> \in Seq(ListedEvent)
        OBVIOUS
    <2>2. QED
        BY <1>1, <1>2, <2>1, NewSessionTyping
<1>4. live' = [live EXCEPT ![h] = opened] \/ live' = live
    BY DEF Create
<1> HIDE DEF opened
<1>5. live' \in [Handle -> LiveRecord \cup {NotOpen}]
    BY <1>3, <1>4 DEF LiveTypeOK
<1>6. \A g \in Handle : live[g] # NotOpen => live'[g] # NotOpen
    BY <1>3, <1>4, NotOpenAssumption DEF LiveTypeOK
<1>7. QED
    BY <1>5, <1>6, TypeParts DEF RunnersOK, CallOK, Create, objects, AppendCall

LEMMA GetTyping ==
    ASSUME LiveTypeOK, NEW r \in Runner, NEW k \in Key, NEW request \in GetRequest,
           Get(r, k, request)
    PROVE  RunnersOK'
<1> DEFINE given == [key |-> k, request |-> request, row |-> sessions[k],
                     snapshot |-> SnapshotOf(k),
                     app |-> EmptyMap(AppVar), user |-> EmptyMap(UserVar)]
<1>1. SnapshotOf(k) \in Snapshot
    BY TypeParts, RowsPresent DEF SnapshotOf, Snapshot
<1>2. sessions[k] \in Session
    BY TypeParts, RowsPresent DEF Get
<1>3. given \in GetCall
    BY <1>1, <1>2, LiveInputAssumption, EmptyMapTyping DEF GetCall
<1>4. call' = [call EXCEPT ![r] = given] /\ pc' = [pc EXCEPT ![r] = "scoped"]
    BY DEF Get
<1> HIDE DEF given
<1>5. QED
    BY <1>3, <1>4, TypeParts DEF RunnersOK, CallOK, Get, objects

LEMMA GetScopedTyping ==
    ASSUME LiveTypeOK, NEW r \in Runner, GetScoped(r)
    PROVE  /\ RunnersOK'
           /\ call'[r] = [call[r] EXCEPT !.app = call[r].snapshot.app,
                                         !.user = call[r].snapshot.user]
<1> DEFINE given == [call[r] EXCEPT !.app = call[r].snapshot.app, !.user = call[r].snapshot.user]
<1>1. call[r] \in GetCall
    BY DEF GetScoped, LiveTypeOK
<1>2. given \in GetCall
    BY <1>1 DEF GetCall, Snapshot
<1>3. call' = [call EXCEPT ![r] = given] /\ pc' = [pc EXCEPT ![r] = "events"]
    BY DEF GetScoped, ReadFrom, LiveTypeOK
<1>4. call'[r] = given
    BY <1>3 DEF LiveTypeOK
<1> HIDE DEF given
<1>5. RunnersOK'
    <2>1. RunnersOK /\ UNCHANGED <<now, live, object, kept>>
        BY TypeParts DEF GetScoped, objects
    <2>2. QED
        BY <1>2, <1>3, <2>1 DEF RunnersOK, CallOK
<1>6. QED
    BY <1>4, <1>5 DEF given

LEMMA GetEventsTyping ==
    ASSUME LiveTypeOK, NEW r \in Runner, NEW h \in Handle, GetEvents(r, h)
    PROVE  RunnersOK'
<1>1. call[r] \in GetCall
    BY DEF GetEvents, LiveTypeOK
<1>2. PICK listed \in listSessionEvents(call[r].snapshot.rows, call[r].request.after,
                                        call[r].request.numRecent) :
          live' = [live EXCEPT ![h] = newDatabaseSession(call[r].key, call[r].row, listed,
                                                         call[r].app, call[r].user)]
    BY DEF GetEvents, ReadFrom
<1>3. listed \in Seq(ListedEvent)
    BY <1>1, ListedTyping DEF GetCall, Snapshot
<1> DEFINE opened == newDatabaseSession(call[r].key, call[r].row, listed,
                                        call[r].app, call[r].user)
<1>4. opened \in LiveRecord
    BY <1>1, <1>3, NewSessionTyping DEF GetCall
<1> HIDE DEF opened
<1>5. live' = [live EXCEPT ![h] = opened]
    BY <1>2 DEF opened
<1>6. live' \in [Handle -> LiveRecord \cup {NotOpen}]
    BY <1>4, <1>5 DEF LiveTypeOK
<1>7. \A g \in Handle : live[g] # NotOpen => live'[g] # NotOpen
    BY <1>4, <1>5, NotOpenAssumption DEF LiveTypeOK
<1>8. QED
    BY <1>6, <1>7, TypeParts DEF RunnersOK, CallOK, GetEvents, objects, AppendCall

(* The event that a call stores and applies is the object as it was given  *)
(* its ID and its time, and so is what the caller holds from then on.      *)
LEMMA AppendEventTyping ==
    ASSUME LiveTypeOK, NEW r \in Runner, NEW h \in Handle, NEW o \in Object, AppendEvent(r, h, o)
    PROVE  /\ RunnersOK'
           /\ \E event \in ListedEvent :
                 /\ object' = [object EXCEPT ![o] = event]
                 /\ call' = [call EXCEPT ![r] = [handle |-> h, object |-> o, event |-> event]]
                 /\ IF object[o].id = 0 THEN event.id \in NewUUID ELSE event.id = object[o].id
<1>1. PICK e \in IF object[o].id = 0 THEN NewUUID ELSE {object[o].id} :
          LET event == [object[o] EXCEPT !.id = e, !.timestamp = IF @ = 0 THEN now ELSE @]
          IN /\ object' = [object EXCEPT ![o] = event]
             /\ call' = [call EXCEPT ![r] = [handle |-> h, object |-> o, event |-> event]]
    BY DEF AppendEvent, InPlace
<1>2. object[o] \in [id : EventID \cup {0}, delta : Maps(StateKey), timestamp : Nat]
    BY LiveInputAssumption DEF LiveTypeOK, ListedEvent
<1>3. e \in EventID
    BY <1>1, <1>2 DEF NewUUID
<1> DEFINE t == IF object[o].timestamp = 0 THEN now ELSE object[o].timestamp
           event == [object[o] EXCEPT !.id = e, !.timestamp = t]
           given == [handle |-> h, object |-> o, event |-> event]
<1>4. t \in Nat
    BY <1>2 DEF LiveTypeOK
<1> HIDE DEF t
<1>5. event \in ListedEvent /\ event.id = e
    BY <1>2, <1>3, <1>4 DEF ListedEvent
<1>6. object' = [object EXCEPT ![o] = event] /\ call' = [call EXCEPT ![r] = given]
    BY <1>1 DEF t
<1> HIDE DEF event
<1>7. given \in AppendCall /\ given.handle = h
    BY <1>5 DEF AppendCall
<1>8. IF object[o].id = 0 THEN event.id \in NewUUID ELSE event.id = object[o].id
    BY <1>1, <1>5
<1>9. /\ live[h] # NotOpen /\ pc' = [pc EXCEPT ![r] = "store"]
      /\ now' = now /\ live' = live /\ kept' = kept
    BY DEF AppendEvent
<1>10. object' \in [Object -> ListedEvent \cup NewEvent]
    BY <1>5, <1>6 DEF LiveTypeOK
<1>11. ASSUME NEW q \in Runner PROVE CallOK(q)'
    <2> HIDE DEF given
    <2>1. CASE q = r
        BY <1>6, <1>7, <1>9, <2>1 DEF CallOK, LiveTypeOK
    <2>2. CASE q # r
        BY <1>6, <1>9, <2>2, TypeParts DEF RunnersOK, CallOK
    <2>3. QED
        BY <2>1, <2>2
<1>12. RunnersOK'
    <2> HIDE DEF given
    <2>1. call' \in [Runner -> GetCall \cup AppendCall \cup {NoCall}]
        BY <1>6, <1>7 DEF LiveTypeOK
    <2>2. QED
        BY <1>9, <1>10, <1>11, <2>1 DEF RunnersOK, LiveTypeOK
<1>13. QED
    BY <1>5, <1>6, <1>8, <1>12

LEMMA StoreEventTyping ==
    ASSUME LiveTypeOK, NEW r \in Runner, StoreEvent(r)
    PROVE  RunnersOK'
<1> DEFINE c == call[r]
           k == live[c.handle].key
<1>1. c \in AppendCall /\ live[c.handle] # NotOpen
    BY DEF StoreEvent, LiveTypeOK
<1>2. k \in Key /\ c.event.id \in EventID /\ c.object \in Object
    BY <1>1 DEF AppendCall, ListedEvent, LiveRecord, LiveTypeOK
<1>3. kept' = [kept EXCEPT ![c.object] = @ \cup {<<k, c.event.id>>}]
    BY DEF StoreEvent
<1> HIDE DEF c, k
<1>4. kept' \in [Object -> SUBSET (Key \X EventID)]
    BY <1>2, <1>3 DEF LiveTypeOK
<1>5. \/ pc' = [pc EXCEPT ![r] = "apply"] /\ call' = call
      \/ pc' = [pc EXCEPT ![r] = "idle"] /\ call' = [call EXCEPT ![r] = NoCall]
    BY DEF StoreEvent
<1>6. pc[r] = "store" /\ now' = now /\ live' = live /\ object' = object
    BY DEF StoreEvent
<1>7. QED
    BY <1>4, <1>5, <1>6, TypeParts DEF RunnersOK, CallOK

LEMMA ApplyEventTyping ==
    ASSUME LiveTypeOK, NEW r \in Runner, ApplyEvent(r)
    PROVE  /\ RunnersOK'
           /\ call[r] \in AppendCall
           /\ live[call[r].handle] \in LiveRecord
           /\ live' = [live EXCEPT ![call[r].handle] =
                          appendEvent(live[call[r].handle], call[r].event)]
<1> DEFINE h == call[r].handle
           event == call[r].event
<1>1. call[r] \in AppendCall /\ live[h] \in LiveRecord
    BY DEF ApplyEvent, LiveTypeOK, AppendCall
<1>2. h \in Handle /\ event \in ListedEvent
    BY <1>1 DEF AppendCall
<1>3. appendEvent(live[h], event) \in LiveRecord
    BY <1>1, <1>2, AppendedSessionTyping
<1>4. live' = [live EXCEPT ![h] = appendEvent(live[h], event)]
    BY DEF ApplyEvent
<1> HIDE DEF h, event
<1>5. live' \in [Handle -> LiveRecord \cup {NotOpen}]
    BY <1>2, <1>3, <1>4 DEF LiveTypeOK
<1>6. \A g \in Handle : live[g] # NotOpen => live'[g] # NotOpen
    BY <1>3, <1>4, NotOpenAssumption DEF LiveTypeOK
<1>7. RunnersOK'
    BY <1>5, <1>6, TypeParts DEF RunnersOK, CallOK, ApplyEvent, objects, AppendCall
<1>8. QED
    BY <1>1, <1>4, <1>7 DEF h, event

LEMMA SetTyping ==
    ASSUME LiveTypeOK, NEW h \in Handle, NEW n \in StateKey, NEW value \in SetValue,
           Set(h, n, value)
    PROVE  RunnersOK'
<1> DEFINE changed == [live[h] EXCEPT !.state[n] = value]
<1>1. live[h] \in LiveRecord
    BY DEF Set, LiveTypeOK
<1>2. [live[h].state EXCEPT ![n] = value] \in Maps(StateKey)
    BY <1>1, LiveInputAssumption DEF LiveRecord, Maps
<1>3. changed \in LiveRecord
    BY <1>1, <1>2 DEF LiveRecord
<1>4. live' = [live EXCEPT ![h] = changed]
    BY DEF Set, LiveTypeOK
<1> HIDE DEF changed
<1>5. live' \in [Handle -> LiveRecord \cup {NotOpen}]
    BY <1>3, <1>4 DEF LiveTypeOK
<1>6. \A g \in Handle : live[g] # NotOpen => live'[g] # NotOpen
    BY <1>3, <1>4, NotOpenAssumption DEF LiveTypeOK
<1>7. QED
    BY <1>5, <1>6, TypeParts DEF RunnersOK, CallOK, Set, objects, AppendCall

LEMMA CloseTyping ==
    ASSUME LiveTypeOK, NEW h \in Handle, Close(h)
    PROVE  RunnersOK'
<1>1. live' \in [Handle -> LiveRecord \cup {NotOpen}]
    BY DEF Close, LiveTypeOK
<1>2. \A g \in Handle : g # h => live'[g] = live[g]
    BY DEF Close, LiveTypeOK
<1>3. QED
    BY <1>1, <1>2, TypeParts DEF RunnersOK, CallOK, Close, objects, AppendCall

LEMMA LiveTypeStep == LiveTypeOK /\ [Next]_vars => LiveTypeOK'
<1> SUFFICES ASSUME LiveTypeOK, [Next]_vars
             PROVE  RunnersOK'
    BY TablesStep DEF LiveTypeOK, TablesOK, RunnersOK, CallOK
<1>1. TablesOK' /\ RunnersOK
    BY TablesStep, TypeParts
<1>2. ASSUME NEW r \in Runner, CallFails(r)
      PROVE  RunnersOK'
    BY <1>1, <1>2 DEF RunnersOK, CallOK, CallFails, objects
<1>3. ASSUME NEW k \in DeletedKey, Delete(k)
      PROVE  RunnersOK'
    BY <1>1, <1>3 DEF RunnersOK, CallOK, Delete, objects
<1>4. CASE Tick
    BY <1>1, <1>4 DEF RunnersOK, CallOK, Tick, objects
<1>5. CASE UNCHANGED vars
    BY <1>1, <1>5 DEF RunnersOK, CallOK, vars
<1>6. QED
    BY <1>1, <1>2, <1>3, <1>4, <1>5, CreateTyping, GetTyping, GetScopedTyping, GetEventsTyping,
       AppendEventTyping, StoreEventTyping, ApplyEventTyping, SetTyping, CloseTyping DEF Next

LEMMA LiveTypeInit == Init => LiveTypeOK
<1> SUFFICES ASSUME Init PROVE LiveTypeOK
    OBVIOUS
<1>1. TablesOK
    BY SameTables, EmptyMapTyping DEF Init, Store!Init, TablesOK, NoEvents
<1>2. RunnersOK
    BY DEF Init, RunnersOK, CallOK
<1>3. QED
    BY <1>1, <1>2, TypeParts

(* The tables, the live sessions, the calls and the event objects have     *)
(* their declared types in every state.                                    *)
THEOREM LiveTypeCorrect == Spec => []LiveTypeOK
BY LiveTypeInit, LiveTypeStep, PTL DEF Spec

-----------------------------------------------------------------------------
(* The store.                                                              *)

(* What a StoreEvent of runner r writes, with names for its parts. *)
LEMMA StoreEffect ==
    ASSUME LiveTypeOK, NEW r \in Runner, StoreEvent(r)
    PROVE  \E k \in Key, event \in ListedEvent :
              /\ pc[r] = "store" /\ call[r] \in AppendCall
              /\ k = live[call[r].handle].key /\ event = call[r].event
              /\ live[call[r].handle] \in LiveRecord
              /\ sessions[k] # NoRow /\ events[k][event.id] = NoRow
              /\ events' = [events EXCEPT ![k][event.id] = eventToProto(event)]
              /\ sessions' = [sessions EXCEPT ![k] = AppendedRow(@, eventToProto(event))]
              /\ Store!MergeScoped(k, eventToProto(event).delta)
              /\ kept' = [kept EXCEPT ![call[r].object] = @ \cup {<<k, event.id>>}]
              /\ \/ pc' = [pc EXCEPT ![r] = "apply"] /\ call' = call
                 \/ pc' = [pc EXCEPT ![r] = "idle"] /\ call' = [call EXCEPT ![r] = NoCall]
              /\ live' = live /\ object' = object
<1> DEFINE k == live[call[r].handle].key
           event == call[r].event
<1>1. call[r] \in AppendCall /\ live[call[r].handle] # NotOpen
    BY DEF StoreEvent, LiveTypeOK
<1>2. live[call[r].handle] \in LiveRecord
    BY <1>1 DEF AppendCall, LiveTypeOK
<1>3. k \in Key /\ event \in ListedEvent
    BY <1>1, <1>2 DEF AppendCall, LiveRecord
<1>4. /\ pc[r] = "store"
      /\ sessions[k] # NoRow /\ events[k][event.id] = NoRow
      /\ events' = [events EXCEPT ![k][event.id] = eventToProto(event)]
      /\ sessions' = [sessions EXCEPT ![k] = AppendedRow(@, eventToProto(event))]
      /\ Store!MergeScoped(k, eventToProto(event).delta)
      /\ kept' = [kept EXCEPT ![call[r].object] = @ \cup {<<k, event.id>>}]
      /\ \/ pc' = [pc EXCEPT ![r] = "apply"] /\ call' = call
         \/ pc' = [pc EXCEPT ![r] = "idle"] /\ call' = [call EXCEPT ![r] = NoCall]
      /\ live' = live /\ object' = object
    BY DEF StoreEvent, EventExists
<1> HIDE DEF k, event
<1>5. QED
    BY <1>1, <1>2, <1>3, <1>4 DEF k, event

(* Trimming "temp:" keys twice is trimming them once. *)
LEMMA TrimOnce ==
    ASSUME NEW d \in Maps(StateKey)
    PROVE  trimTempKeys(trimTempKeys(d)) = trimTempKeys(d)
BY DEF trimTempKeys

(* ADK runners ask of the store only what AtomicStore offers, so what is   *)
(* known of the atomic store holds of it under their calls; the events     *)
(* reach it without their "temp:" keys.                                    *)
THEOREM LiveRefinement == Spec => StoreSpec
<1>1. Init => Store!Init
    BY DEF Init
<1>2. LiveTypeOK /\ [Next]_vars => [Store!Next]_(Store!tables)
    <2> SUFFICES ASSUME LiveTypeOK, [Next]_vars
                 PROVE  Store!Next \/ UNCHANGED tables
        BY DEF tables, Store!tables
    <2>1. TablesOK /\ TablesOK'
        BY TablesStep, TypeParts
    <2>2. ASSUME NEW r \in Runner, NEW h \in Handle, NEW k \in Key, NEW d \in CreateState,
                 Create(r, h, k, d)
          PROVE  Store!Next
        <3>1. d \in Maps(StateKey)
            BY LiveInputAssumption
        <3> DEFINE row == [state |-> SessionPart(d), displayName |-> "",
                           expiration |-> NoExpiration, updateTime |-> now]
        <3>2. row \in Session /\ row.state = SessionPart(d)
            BY <3>1, SplitTyping, LiveInputAssumption DEF Session, LiveTypeOK
        <3>3. /\ sessions[k] = NoRow /\ sessions' = [sessions EXCEPT ![k] = row]
              /\ Store!MergeScoped(k, d) /\ events' = events
            BY <2>2 DEF Create
        <3> HIDE DEF row
        <3>4. sessions'[k] = row /\ row # NoRow
            BY <3>2, <3>3, NoRowAssumption, <2>1 DEF TablesOK
        <3>5. Store!Create(k, row, d)
            BY <3>2, <3>3, SameTables, SameSplit DEF Store!Create
        <3>6. Store!Create(k, sessions'[k], d)
            BY <3>4, <3>5
        <3>7. QED
            BY <3>1, <3>6, SameTables DEF Store!Next
    <2>3. ASSUME NEW r \in Runner, StoreEvent(r)
          PROVE  Store!Next
        <3>1. PICK k \in Key, event \in ListedEvent :
                  /\ sessions[k] # NoRow /\ events[k][event.id] = NoRow
                  /\ events' = [events EXCEPT ![k][event.id] = eventToProto(event)]
                  /\ sessions' = [sessions EXCEPT ![k] = AppendedRow(@, eventToProto(event))]
                  /\ Store!MergeScoped(k, eventToProto(event).delta)
            BY <2>3, StoreEffect
        <3> DEFINE stored == eventToProto(event)
        <3>2. /\ stored \in Event /\ event.id \in EventID
              /\ stored.delta = trimTempKeys(stored.delta)
            BY StoredEventTyping, TrimOnce DEF ListedEvent
        <3> HIDE DEF stored
        <3>3. events'[k][event.id] = stored
            BY <2>1, <3>1, <3>2 DEF TablesOK, stored
        <3>4. Store!AppendEvent(k, event.id, stored)
            BY <3>1, <3>2, SameSplit, SameWrites DEF Store!AppendEvent, stored
        <3>5. QED
            BY <3>2, <3>3, <3>4, SameTables DEF Store!Next
    <2>4. ASSUME NEW k \in DeletedKey, Delete(k)
          PROVE  Store!Next
        BY <2>4, LiveInputAssumption, SameTables DEF Delete, Store!Next
    <2>5. QED
        BY <2>2, <2>3, <2>4
        DEF Next, vars, tables, GetEvents, AppendEvent, Get, GetScoped, ApplyEvent, CallFails,
            Set, Close, Tick
<1>3. QED
    BY <1>1, <1>2, LiveTypeCorrect, PTL DEF Spec, StoreSpec, Store!Spec

-----------------------------------------------------------------------------
(* Event objects.                                                          *)

(* An object has the ID of every row it was stored in, and so has the      *)
(* event of a call under way, which is the object as AppendEvent left it.  *)
ObjectsNamed ==
    /\ \A o \in Object : \A row \in kept[o] : row[2] = object[o].id /\ row[2] \in EventID
    /\ \A r \in Runner : pc[r] \in {"store", "apply"} => call[r].event = object[call[r].object]

LEMMA ObjectsStep ==
    ASSUME LiveTypeOK, ObjectsNamed, [Next]_vars
    PROVE  ObjectsNamed'
<1>1. ASSUME NEW r \in Runner, NEW h \in Handle, NEW o \in Object, AppendEvent(r, h, o)
      PROVE  ObjectsNamed'
    <2>1. PICK event \in ListedEvent :
              /\ object' = [object EXCEPT ![o] = event]
              /\ call' = [call EXCEPT ![r] = [handle |-> h, object |-> o, event |-> event]]
              /\ IF object[o].id = 0 THEN event.id \in NewUUID ELSE event.id = object[o].id
        BY <1>1, AppendEventTyping
    <2>2. /\ ~InUse(o) /\ pc' = [pc EXCEPT ![r] = "store"] /\ kept' = kept
        BY <1>1 DEF AppendEvent
    <2>3. \A p \in Object : \A row \in kept'[p] : row[2] = object'[p].id /\ row[2] \in EventID
        BY <2>1, <2>2, LiveInputAssumption DEF ObjectsNamed, LiveTypeOK
    <2>4. ASSUME NEW q \in Runner, pc'[q] \in {"store", "apply"}
          PROVE  call'[q].event = object'[call'[q].object]
        <3>1. CASE q = r
            BY <2>1, <3>1 DEF LiveTypeOK
        <3>2. CASE q # r
            BY <2>1, <2>2, <2>4, <3>2 DEF ObjectsNamed, InUse, LiveTypeOK
        <3>3. QED
            BY <3>1, <3>2
    <2>5. QED
        BY <2>3, <2>4 DEF ObjectsNamed
<1>2. ASSUME NEW r \in Runner, StoreEvent(r)
      PROVE  ObjectsNamed'
    <2>1. PICK k \in Key, event \in ListedEvent :
              /\ pc[r] = "store" /\ call[r] \in AppendCall /\ event = call[r].event
              /\ kept' = [kept EXCEPT ![call[r].object] = @ \cup {<<k, event.id>>}]
              /\ \/ pc' = [pc EXCEPT ![r] = "apply"] /\ call' = call
                 \/ pc' = [pc EXCEPT ![r] = "idle"] /\ call' = [call EXCEPT ![r] = NoCall]
              /\ object' = object
        BY <1>2, StoreEffect
    <2>2. event = object[call[r].object] /\ call[r].object \in Object /\ event.id \in EventID
        BY <2>1 DEF ObjectsNamed, AppendCall, ListedEvent
    <2>3. \A o \in Object : \A row \in kept'[o] : row[2] = object'[o].id /\ row[2] \in EventID
        BY <2>1, <2>2 DEF ObjectsNamed, LiveTypeOK
    <2>4. \A q \in Runner : pc'[q] \in {"store", "apply"} =>
                                pc[q] \in {"store", "apply"} /\ call'[q] = call[q]
        BY <2>1 DEF LiveTypeOK
    <2>5. QED
        BY <2>1, <2>3, <2>4 DEF ObjectsNamed
<1>3. CASE /\ object' = object /\ kept' = kept
           /\ \A q \in Runner : pc'[q] \in {"store", "apply"} =>
                                    pc[q] \in {"store", "apply"} /\ call'[q] = call[q]
    BY <1>3 DEF ObjectsNamed
<1>4. ASSUME NEW r \in Runner,
             \/ \E k \in Key, request \in GetRequest : Get(r, k, request)
             \/ GetScoped(r)
             \/ \E h \in Handle : GetEvents(r, h)
             \/ ApplyEvent(r)
             \/ CallFails(r)
      PROVE  ObjectsNamed'
    <2>1. \/ pc' = [pc EXCEPT ![r] = "scoped"]
          \/ pc' = [pc EXCEPT ![r] = "events"]
          \/ pc' = [pc EXCEPT ![r] = "idle"]
        BY <1>4 DEF Get, GetScoped, GetEvents, ApplyEvent, CallFails
    <2>2. object' = object /\ kept' = kept
        BY <1>4 DEF Get, GetScoped, GetEvents, ApplyEvent, CallFails, objects
    <2>3. \A q \in Runner : q # r => call'[q] = call[q]
        BY <1>4 DEF Get, GetScoped, GetEvents, ApplyEvent, CallFails, LiveTypeOK
    <2>4. QED
        BY <1>3, <2>1, <2>2, <2>3 DEF LiveTypeOK
<1>5. CASE UNCHANGED <<pc, call, object, kept>>
    BY <1>3, <1>5
<1>6. QED
    BY <1>1, <1>2, <1>4, <1>5 DEF Next, vars, Create, Set, Close, Delete, Tick, objects

(* An event is stored at most once in a session, however often its caller  *)
(* appends the same object again and whatever the answers were: from the   *)
(* first append on the object has an ID, and the ID is the row's key.      *)
THEOREM StoredOnce == Spec => []StoredAtMostOnce
<1>1. Init => ObjectsNamed
    BY DEF Init, ObjectsNamed
<1>2. LiveTypeOK /\ ObjectsNamed => StoredAtMostOnce
    <2> SUFFICES ASSUME LiveTypeOK, ObjectsNamed, NEW o \in Object,
                        NEW a \in kept[o], NEW b \in kept[o], a[1] = b[1]
                 PROVE  a = b
        BY DEF StoredAtMostOnce
    <2>1. a \in Key \X EventID /\ b \in Key \X EventID
        BY DEF LiveTypeOK
    <2>2. a[2] = b[2]
        BY DEF ObjectsNamed
    <2>3. QED
        BY <2>1, <2>2
<1>3. QED
    BY <1>1, <1>2, LiveTypeCorrect, ObjectsStep, PTL DEF Spec

-----------------------------------------------------------------------------
(* Shown events.  In a session that nobody deletes, stored events stay,    *)
(* so what was read or stored once is there when it is shown.              *)

IsStored(k, event) == events[k][event.id] = eventToProto(event)

StoredTrimmed ==
    \A k \in Key, e \in EventID :
        events[k][e] # NoRow => events[k][e].delta = trimTempKeys(events[k][e].delta)

(* What a Get will read is still stored. *)
SnapshotOK(r) ==
    pc[r] \in {"scoped", "events"} /\ call[r].key \notin DeletedKey =>
        \A e \in EventID : call[r].snapshot.rows[e] # NoRow =>
                               events[call[r].key][e] = call[r].snapshot.rows[e]

ShownOK(h) ==
    live[h] # NotOpen /\ live[h].key \notin DeletedKey =>
        /\ \A i \in DOMAIN live[h].events : IsStored(live[h].key, live[h].events[i])
        /\ \A i, j \in DOMAIN live[h].events :
              live[h].events[i].id = live[h].events[j].id => i = j

Pending(r) == pc[r] = "apply" /\ live[call[r].handle].key \notin DeletedKey

(* An event on its way from the store to the live session is stored and    *)
(* not shown there yet.                                                    *)
PendingOK(r) ==
    Pending(r) =>
        /\ IsStored(live[call[r].handle].key, call[r].event)
        /\ \A i \in DOMAIN live[call[r].handle].events :
              live[call[r].handle].events[i].id # call[r].event.id

(* Two such events of one session have different IDs. *)
ApartOK(q, r) ==
    Pending(q) /\ Pending(r) /\ live[call[q].handle].key = live[call[r].handle].key
        => call[q].event.id # call[r].event.id

ViewInv ==
    /\ StoredTrimmed
    /\ \A r \in Runner : SnapshotOK(r) /\ PendingOK(r)
    /\ \A h \in Handle : ShownOK(h)
    /\ \A q, r \in Runner : q # r => ApartOK(q, r)

EventsGrow ==
    \A k \in Key \ DeletedKey, e \in EventID : events[k][e] # NoRow => events'[k][e] = events[k][e]

LEMMA GrowStep ==
    ASSUME LiveTypeOK, [Next]_vars
    PROVE  EventsGrow
<1>1. ASSUME NEW r \in Runner, StoreEvent(r)
      PROVE  EventsGrow
    <2>1. PICK k \in Key, event \in ListedEvent :
              /\ k = live[call[r].handle].key /\ event = call[r].event
              /\ events[k][event.id] = NoRow
              /\ events' = [events EXCEPT ![k][event.id] = eventToProto(event)]
        BY <1>1, StoreEffect
    <2>2. QED
        BY <2>1 DEF EventsGrow, LiveTypeOK
<1>2. ASSUME NEW k \in DeletedKey, Delete(k)
      PROVE  EventsGrow
    BY <1>2, LiveInputAssumption DEF EventsGrow, LiveTypeOK, Delete, Store!Delete
<1>3. CASE events' = events
    BY <1>3 DEF EventsGrow
<1>4. QED
    BY <1>1, <1>2, <1>3
    DEF Next, vars, tables, Create, GetEvents, AppendEvent, Get, GetScoped, ApplyEvent, CallFails,
        Set, Close, Tick

LEMMA TrimmedStep ==
    ASSUME LiveTypeOK, StoredTrimmed, [Next]_vars
    PROVE  StoredTrimmed'
<1>1. ASSUME NEW r \in Runner, StoreEvent(r)
      PROVE  StoredTrimmed'
    <2>1. PICK k \in Key, event \in ListedEvent :
              /\ k = live[call[r].handle].key /\ event = call[r].event
              /\ events[k][event.id] = NoRow
              /\ events' = [events EXCEPT ![k][event.id] = eventToProto(event)]
        BY <1>1, StoreEffect
    <2> DEFINE stored == eventToProto(event)
    <2>2. stored.delta = trimTempKeys(stored.delta)
        BY StoredEventTyping, TrimOnce DEF ListedEvent
    <2> HIDE DEF stored
    <2>3. events' = [events EXCEPT ![k][event.id] = stored]
        BY <2>1 DEF stored
    <2>4. QED
        BY <2>2, <2>3 DEF StoredTrimmed, LiveTypeOK
<1>2. ASSUME NEW k \in DeletedKey, Delete(k)
      PROVE  StoredTrimmed'
    <2>1. events' = [events EXCEPT ![k] = NoEvents]
        BY <1>2, SameTables DEF Delete, Store!Delete
    <2>2. QED
        BY <2>1 DEF StoredTrimmed, LiveTypeOK, NoEvents
<1>3. CASE events' = events
    BY <1>3 DEF StoredTrimmed
<1>4. QED
    BY <1>1, <1>2, <1>3
    DEF Next, vars, tables, Create, GetEvents, AppendEvent, Get, GetScoped, ApplyEvent, CallFails,
        Set, Close, Tick

LEMMA StoredStays ==
    ASSUME EventsGrow, NEW k \in Key \ DeletedKey, NEW event \in ListedEvent, IsStored(k, event)
    PROVE  IsStored(k, event)'
BY StoredEventTyping, NoRowAssumption DEF EventsGrow, IsStored, ListedEvent

(* The pending calls name open live sessions. *)
LEMMA PendingTyping ==
    ASSUME LiveTypeOK, NEW r \in Runner, pc[r] \in {"store", "apply"}
    PROVE  /\ call[r] \in AppendCall
           /\ call[r].handle \in Handle /\ call[r].event \in ListedEvent
           /\ live[call[r].handle] # NotOpen
           /\ live[call[r].handle] \in LiveRecord
           /\ live[call[r].handle].key \in Key
           /\ live[call[r].handle].events \in Seq(ListedEvent)
<1>1. call[r] \in AppendCall /\ live[call[r].handle] # NotOpen
    BY DEF LiveTypeOK
<1>2. call[r].handle \in Handle /\ call[r].event \in ListedEvent
    BY <1>1 DEF AppendCall
<1>3. live[call[r].handle] \in LiveRecord
    BY <1>1, <1>2 DEF LiveTypeOK
<1>4. QED
    BY <1>1, <1>2, <1>3 DEF LiveRecord

(* What is left alone keeps its part of the invariant. *)
LEMMA SnapshotFrame ==
    ASSUME LiveTypeOK, EventsGrow, NEW r \in Runner, SnapshotOK(r),
           pc'[r] \in {"scoped", "events"} =>
               /\ pc[r] \in {"scoped", "events"}
               /\ call'[r].key = call[r].key /\ call'[r].snapshot = call[r].snapshot
    PROVE  SnapshotOK(r)'
<1> SUFFICES ASSUME pc'[r] \in {"scoped", "events"}, call'[r].key \notin DeletedKey,
                    NEW e \in EventID, call'[r].snapshot.rows[e] # NoRow
             PROVE  events'[call'[r].key][e] = call'[r].snapshot.rows[e]
    BY DEF SnapshotOK
<1>1. /\ call'[r].key = call[r].key /\ call'[r].snapshot = call[r].snapshot
      /\ call[r].key \in Key /\ call[r].snapshot.rows[e] \in Event \cup {NoRow}
    BY DEF LiveTypeOK, GetCall, Snapshot
<1>2. events[call[r].key][e] = call[r].snapshot.rows[e]
    BY <1>1 DEF SnapshotOK
<1>3. QED
    BY <1>1, <1>2 DEF EventsGrow

LEMMA ShownFrame ==
    ASSUME LiveTypeOK, EventsGrow, NEW h \in Handle, ShownOK(h),
           live'[h] # NotOpen =>
               live[h] # NotOpen /\ live'[h].key = live[h].key /\ live'[h].events = live[h].events
    PROVE  ShownOK(h)'
<1> SUFFICES ASSUME live'[h] # NotOpen, live'[h].key \notin DeletedKey
             PROVE  ShownOK(h)'
    BY DEF ShownOK
<1>1. live[h] # NotOpen /\ live'[h].key = live[h].key /\ live'[h].events = live[h].events
    OBVIOUS
<1>2. live[h].key \in Key \ DeletedKey /\ live[h].events \in Seq(ListedEvent)
    BY <1>1 DEF LiveTypeOK, LiveRecord
<1>3. \A i \in DOMAIN live[h].events : IsStored(live[h].key, live[h].events[i])'
    <2> TAKE i \in DOMAIN live[h].events
    <2>1. live[h].events[i] \in ListedEvent /\ IsStored(live[h].key, live[h].events[i])
        BY <1>1, <1>2 DEF ShownOK
    <2>2. QED
        BY <1>1, <1>2, <2>1, StoredEventTyping, NoRowAssumption
        DEF EventsGrow, IsStored, ListedEvent
<1>4. QED
    BY <1>1, <1>2, <1>3 DEF ShownOK, IsStored

LEMMA PendingFrame ==
    ASSUME LiveTypeOK, EventsGrow, NEW r \in Runner, PendingOK(r),
           pc'[r] = "apply" =>
               /\ pc[r] = "apply" /\ call'[r] = call[r]
               /\ live'[call[r].handle].key = live[call[r].handle].key
               /\ live'[call[r].handle].events = live[call[r].handle].events
    PROVE  PendingOK(r)'
<1> SUFFICES ASSUME Pending(r)'
             PROVE  PendingOK(r)'
    BY DEF PendingOK
<1>1. /\ Pending(r) /\ call'[r] = call[r]
      /\ live'[call[r].handle].key = live[call[r].handle].key
      /\ live'[call[r].handle].events = live[call[r].handle].events
    BY DEF Pending
<1>2. call[r].event \in ListedEvent /\ live[call[r].handle].key \in Key \ DeletedKey
    BY <1>1, PendingTyping DEF Pending
<1>3. IsStored(live[call[r].handle].key, call[r].event)
    BY <1>1 DEF PendingOK
<1>4. events'[live[call[r].handle].key][call[r].event.id] = eventToProto(call[r].event)
    BY <1>2, <1>3, StoredEventTyping, NoRowAssumption DEF EventsGrow, IsStored, ListedEvent
<1>5. QED
    BY <1>1, <1>4 DEF PendingOK, IsStored

(* One lemma per action that changes what is shown or on its way. *)
LEMMA GetView ==
    ASSUME LiveTypeOK, ViewInv, EventsGrow, NEW r \in Runner, NEW k \in Key,
           NEW request \in GetRequest, Get(r, k, request)
    PROVE  /\ \A q \in Runner : SnapshotOK(q)'
           /\ call'[r].key = k /\ call'[r].row = sessions[k]
           /\ call'[r].snapshot = SnapshotOf(k)
<1>1. /\ call'[r].key = k /\ call'[r].snapshot = SnapshotOf(k) /\ call'[r].row = sessions[k]
      /\ events' = events
    BY DEF Get, LiveTypeOK, tables
<1>2. SnapshotOK(r)'
    BY <1>1 DEF SnapshotOK, SnapshotOf
<1>3. ASSUME NEW q \in Runner, q # r
      PROVE  SnapshotOK(q)'
    <2>1. pc'[q] = pc[q] /\ call'[q] = call[q]
        BY <1>3 DEF Get, LiveTypeOK
    <2>2. QED
        BY <2>1, SnapshotFrame DEF ViewInv
<1>4. QED
    BY <1>1, <1>2, <1>3

(* What Get shows is what it read, in the snapshot's rows. *)
LEMMA GetEventsView ==
    ASSUME LiveTypeOK, ViewInv, EventsGrow, NEW r \in Runner, NEW h \in Handle, GetEvents(r, h)
    PROVE  \A g \in Handle : ShownOK(g)'
<1>1. call[r] \in GetCall /\ live[h] = NotOpen /\ pc[r] = "events" /\ events' = events
    BY DEF GetEvents, LiveTypeOK, tables
<1>2. PICK listed \in listSessionEvents(call[r].snapshot.rows, call[r].request.after,
                                        call[r].request.numRecent) :
          live' = [live EXCEPT ![h] = newDatabaseSession(call[r].key, call[r].row, listed,
                                                         call[r].app, call[r].user)]
    BY DEF GetEvents, ReadFrom
<1> DEFINE rows == call[r].snapshot.rows
           k == call[r].key
<1>3. rows \in [EventID -> Event \cup {NoRow}] /\ k \in Key
    BY <1>1 DEF GetCall, Snapshot
<1>4. /\ listed \in Seq(ListedEvent)
      /\ \A i \in DOMAIN listed : listed[i] \in EventsIn(rows)
      /\ \A i, j \in DOMAIN listed : listed[i].id = listed[j].id => i = j
    BY <1>1, <1>3, ListedTyping DEF GetCall
<1>5. live'[h].key = k /\ live'[h].events = listed
    BY <1>2 DEF newDatabaseSession, LiveTypeOK
<1>6. ASSUME k \notin DeletedKey, NEW i \in DOMAIN listed
      PROVE  IsStored(k, listed[i])
    <2>1. PICK e \in EventID : /\ rows[e] # NoRow
                               /\ listed[i] = [id |-> e, delta |-> rows[e].delta,
                                               timestamp |-> rows[e].timestamp]
        BY <1>4 DEF EventsIn
    <2>2. events[k][e] = rows[e]
        BY <1>1, <1>6, <2>1 DEF ViewInv, SnapshotOK
    <2>3. rows[e].delta = trimTempKeys(rows[e].delta)
        BY <1>3, <2>1, <2>2 DEF ViewInv, StoredTrimmed
    <2>4. rows[e] = [delta |-> rows[e].delta, timestamp |-> rows[e].timestamp]
        BY <1>3, <2>1 DEF Event
    <2> HIDE DEF rows, k
    <2>5. QED
        BY <2>1, <2>2, <2>3, <2>4 DEF IsStored, eventToProto
<1> HIDE DEF rows, k
<1>7. ShownOK(h)'
    BY <1>1, <1>4, <1>5, <1>6 DEF ShownOK, IsStored
<1>8. ASSUME NEW g \in Handle, g # h
      PROVE  ShownOK(g)'
    <2>1. live'[g] = live[g]
        BY <1>2, <1>8 DEF LiveTypeOK
    <2>2. QED
        BY <2>1, ShownFrame DEF ViewInv
<1>9. QED
    BY <1>7, <1>8

LEMMA StoreView ==
    ASSUME LiveTypeOK, ViewInv, EventsGrow, NEW r \in Runner, StoreEvent(r)
    PROVE  /\ \A q \in Runner : PendingOK(q)'
           /\ \A p, q \in Runner : p # q => ApartOK(p, q)'
<1>1. PICK k \in Key, event \in ListedEvent :
          /\ pc[r] = "store" /\ call[r] \in AppendCall
          /\ k = live[call[r].handle].key /\ event = call[r].event
          /\ live[call[r].handle] \in LiveRecord
          /\ events[k][event.id] = NoRow
          /\ events' = [events EXCEPT ![k][event.id] = eventToProto(event)]
          /\ \/ pc' = [pc EXCEPT ![r] = "apply"] /\ call' = call
             \/ pc' = [pc EXCEPT ![r] = "idle"] /\ call' = [call EXCEPT ![r] = NoCall]
          /\ live' = live
    BY StoreEffect
<1> DEFINE h == call[r].handle
<1>2. event.id \in EventID /\ eventToProto(event) \in Event /\ h \in Handle
    BY <1>1, StoredEventTyping DEF ListedEvent, AppendCall
<1>3. events'[k][event.id] = eventToProto(event)
    BY <1>1, <1>2 DEF LiveTypeOK
<1>4. ASSUME k \notin DeletedKey, NEW i \in DOMAIN live[h].events
      PROVE  live[h].events[i].id # event.id
    <2>1. IsStored(k, live[h].events[i]) /\ live[h].events[i] \in ListedEvent
        BY <1>1, <1>2, <1>4, NotOpenAssumption DEF ViewInv, ShownOK, LiveRecord
    <2>2. events[k][live[h].events[i].id] # NoRow
        BY <2>1, StoredEventTyping, NoRowAssumption DEF IsStored
    <2>3. QED
        BY <1>1, <2>2
<1>5. ASSUME NEW q \in Runner, q # r, Pending(q)', live[call[q].handle].key = k
      PROVE  Pending(q) /\ call[q].event.id # event.id
    <2>1. Pending(q)
        BY <1>1, <1>5 DEF Pending, LiveTypeOK
    <2>2. IsStored(k, call[q].event) /\ call[q].event \in ListedEvent
        BY <1>5, <2>1, PendingTyping DEF ViewInv, PendingOK, Pending
    <2>3. events[k][call[q].event.id] # NoRow
        BY <2>2, StoredEventTyping, NoRowAssumption DEF IsStored
    <2>4. QED
        BY <1>1, <2>1, <2>3
<1>6. ASSUME NEW q \in Runner
      PROVE  PendingOK(q)'
    <2>1. CASE q # r
        <3>1. pc'[q] = pc[q] /\ call'[q] = call[q] /\ live' = live
            BY <1>1, <2>1 DEF LiveTypeOK
        <3>2. QED
            BY <3>1, PendingFrame DEF ViewInv
    <2>2. CASE q = r /\ Pending(r)'
        <3>1. call' = call
            BY <1>1, <2>2 DEF Pending, LiveTypeOK
        <3>2. QED
            BY <1>1, <1>3, <1>4, <2>2, <3>1 DEF PendingOK, Pending, IsStored
    <2>3. QED
        BY <2>1, <2>2 DEF PendingOK
<1>7. ASSUME NEW p \in Runner, NEW q \in Runner, p # q
      PROVE  ApartOK(p, q)'
    <2> SUFFICES ASSUME Pending(p)', Pending(q)',
                        live'[call'[p].handle].key = live'[call'[q].handle].key
                 PROVE  call'[p].event.id # call'[q].event.id
        BY DEF ApartOK
    <2>1. CASE p # r /\ q # r
        <3>1. /\ Pending(p) /\ Pending(q) /\ live' = live
              /\ call'[p] = call[p] /\ call'[q] = call[q]
            BY <1>1, <2>1 DEF Pending, LiveTypeOK
        <3>2. QED
            BY <1>7, <3>1 DEF ViewInv, ApartOK
    <2>2. CASE p = r \/ q = r
        <3>1. call' = call /\ live' = live
            BY <1>1, <2>2 DEF Pending, LiveTypeOK
        <3>2. QED
            BY <1>1, <1>5, <1>7, <2>2, <3>1
    <2>3. QED
        BY <2>1, <2>2
<1>8. QED
    BY <1>6, <1>7

LEMMA ApplyView ==
    ASSUME LiveTypeOK, ViewInv, EventsGrow, NEW r \in Runner, ApplyEvent(r)
    PROVE  /\ \A h \in Handle : ShownOK(h)'
           /\ \A q \in Runner : PendingOK(q)'
           /\ \A p, q \in Runner : p # q => ApartOK(p, q)'
<1>1. PICK h \in Handle, event \in ListedEvent, k \in Key :
          /\ h = call[r].handle /\ event = call[r].event /\ k = live[h].key
          /\ live[h] \in LiveRecord /\ live[h] # NotOpen
          /\ live[h].events \in Seq(ListedEvent)
    BY PendingTyping DEF ApplyEvent
<1>2. /\ pc[r] = "apply" /\ pc' = [pc EXCEPT ![r] = "idle"]
      /\ call' = [call EXCEPT ![r] = NoCall] /\ events' = events
    BY DEF ApplyEvent, tables
<1>3. live' = [live EXCEPT ![h] = appendEvent(live[h], event)]
    BY <1>1, ApplyEventTyping
<1>4. live'[h].key = k /\ live'[h].events = Append(live[h].events, event)
    BY <1>1, <1>3, AppendedSessionTyping DEF LiveTypeOK
<1>5. \A g \in Handle : g # h => live'[g] = live[g]
    BY <1>3 DEF LiveTypeOK
<1>6. \A g \in Handle : live'[g].key = live[g].key
    BY <1>1, <1>4, <1>5
<1>7. k \notin DeletedKey => /\ IsStored(k, event)
                             /\ \A i \in DOMAIN live[h].events : live[h].events[i].id # event.id
    BY <1>1, <1>2 DEF ViewInv, PendingOK, Pending
<1>8. k \notin DeletedKey => /\ \A i \in DOMAIN live[h].events : IsStored(k, live[h].events[i])
                             /\ \A i, j \in DOMAIN live[h].events :
                                   live[h].events[i].id = live[h].events[j].id => i = j
    BY <1>1 DEF ViewInv, ShownOK
<1>9. ASSUME NEW q \in Runner, q # r
      PROVE  pc'[q] = pc[q] /\ call'[q] = call[q]
    BY <1>2, <1>9 DEF LiveTypeOK
<1>10. ~Pending(r)'
    BY <1>2 DEF Pending, LiveTypeOK
<1> DEFINE before == live[h].events
           after == live'[h].events
<1>11. /\ DOMAIN before = 1 .. Len(before) /\ Len(before) \in Nat
       /\ DOMAIN after = 1 .. Len(before) + 1
       /\ after[Len(before) + 1] = event
       /\ \A i \in DOMAIN before : after[i] = before[i]
    <2> DEFINE old == live[h].events
    <2>1. old \in Seq(ListedEvent) /\ live'[h].events = Append(old, event)
        BY <1>1, <1>4
    <2> HIDE DEF old
    <2>2. /\ DOMAIN old = 1 .. Len(old) /\ Len(old) \in Nat
          /\ DOMAIN Append(old, event) = 1 .. Len(old) + 1
          /\ Append(old, event)[Len(old) + 1] = event
          /\ \A i \in DOMAIN old : Append(old, event)[i] = old[i]
        BY <2>1
    <2>3. QED
        BY <2>1, <2>2 DEF old
<1>12. \A i \in DOMAIN after : i \in DOMAIN before \/ i = Len(before) + 1
    BY <1>11
<1>13. ShownOK(h)'
    <2> HIDE DEF before, after
    <2> SUFFICES ASSUME k \notin DeletedKey
                 PROVE  ShownOK(h)'
        BY <1>4 DEF ShownOK
    <2>1. \A i \in DOMAIN after : IsStored(k, after[i])
        BY <1>7, <1>8, <1>11, <1>12 DEF before
    <2>2. ASSUME NEW i \in DOMAIN after, NEW j \in DOMAIN after, after[i].id = after[j].id
          PROVE  i = j
        <3>1. CASE i \in DOMAIN before /\ j \in DOMAIN before
            BY <1>8, <1>11, <2>2, <3>1 DEF before
        <3>2. CASE i = Len(before) + 1 /\ j = Len(before) + 1
            BY <3>2
        <3>3. CASE i \in DOMAIN before /\ j = Len(before) + 1
            BY <1>7, <1>11, <2>2, <3>3 DEF before
        <3>4. CASE i = Len(before) + 1 /\ j \in DOMAIN before
            BY <1>7, <1>11, <2>2, <3>4 DEF before
        <3>5. QED
            BY <1>12, <3>1, <3>2, <3>3, <3>4
    <2>3. \A i \in DOMAIN after : events'[k][after[i].id] = eventToProto(after[i])
        BY <1>2, <2>1 DEF IsStored
    <2>4. QED
        BY <1>4, <2>2, <2>3 DEF ShownOK, IsStored, after
<1>14. ASSUME NEW g \in Handle, g # h
       PROVE  ShownOK(g)'
    BY <1>5, <1>14, ShownFrame DEF ViewInv
<1>15. ASSUME NEW q \in Runner, Pending(q)', q # r
       PROVE  PendingOK(q)'
    <2>1. /\ Pending(q) /\ call'[q] = call[q]
          /\ call[q].handle \in Handle /\ call[q].event \in ListedEvent
        BY <1>6, <1>9, <1>15, PendingTyping DEF Pending
    <2>2. CASE call[q].handle # h
        BY <1>5, <1>9, <1>15, <2>1, <2>2, PendingFrame DEF ViewInv
    <2>3. CASE call[q].handle = h
        <3>1. k \notin DeletedKey /\ IsStored(k, call[q].event)
              /\ \A i \in DOMAIN before : before[i].id # call[q].event.id
            BY <1>1, <2>1, <2>3 DEF ViewInv, PendingOK, Pending
        <3>2. event.id # call[q].event.id
            BY <1>1, <1>2, <1>15, <2>1, <2>3, <3>1 DEF ViewInv, ApartOK, Pending
        <3>3. \A i \in DOMAIN after : after[i].id # call[q].event.id
            <4> HIDE DEF before, after
            <4>1. QED
                BY <1>11, <1>12, <3>1, <3>2
        <3>4. QED
            BY <1>2, <1>4, <2>1, <2>3, <3>1, <3>3 DEF PendingOK, IsStored
    <2>4. QED
        BY <2>2, <2>3
<1>16. ASSUME NEW p \in Runner, NEW q \in Runner, p # q
       PROVE  ApartOK(p, q)'
    <2> SUFFICES ASSUME Pending(p)', Pending(q)',
                        live'[call'[p].handle].key = live'[call'[q].handle].key
                 PROVE  call'[p].event.id # call'[q].event.id
        BY DEF ApartOK
    <2>1. p # r /\ q # r
        BY <1>10
    <2>2. /\ call'[p] = call[p] /\ call'[q] = call[q] /\ pc[p] = "apply" /\ pc[q] = "apply"
        BY <1>9, <2>1 DEF Pending
    <2>3. call[p].handle \in Handle /\ call[q].handle \in Handle
        BY <2>2, PendingTyping
    <2>4. QED
        BY <1>6, <1>16, <2>2, <2>3 DEF ViewInv, ApartOK, Pending
<1>17. PendingOK(r)'
    BY <1>10 DEF PendingOK
<1>18. \A q \in Runner : PendingOK(q)'
    <2> TAKE q \in Runner
    <2>1. CASE Pending(q)'
        BY <1>15, <1>17, <2>1
    <2>2. CASE ~Pending(q)'
        BY <2>2 DEF PendingOK
    <2>3. QED
        BY <2>1, <2>2
<1>19. QED
    BY <1>13, <1>14, <1>16, <1>18

(* The steps that change no event, nothing shown and nothing on its way.   *)
LEMMA ViewFrame ==
    ASSUME LiveTypeOK, ViewInv, EventsGrow,
           \A r \in Runner :
               /\ pc'[r] \in {"scoped", "events"} =>
                      /\ pc[r] \in {"scoped", "events"}
                      /\ call'[r].key = call[r].key /\ call'[r].snapshot = call[r].snapshot
               /\ pc'[r] = "apply" => pc[r] = "apply" /\ call'[r] = call[r]
    PROVE  /\ \A r \in Runner : SnapshotOK(r)'
           /\ (\A h \in Handle : live'[h] # NotOpen =>
                  /\ live[h] # NotOpen
                  /\ live'[h].key = live[h].key /\ live'[h].events = live[h].events)
              => \A h \in Handle : ShownOK(h)'
           /\ (\A r \in Runner : pc'[r] = "apply" =>
                  /\ live'[call[r].handle].key = live[call[r].handle].key
                  /\ live'[call[r].handle].events = live[call[r].handle].events)
              => /\ \A r \in Runner : PendingOK(r)'
                 /\ \A q, r \in Runner : q # r => ApartOK(q, r)'
<1>1. \A r \in Runner : SnapshotOK(r)'
    BY SnapshotFrame DEF ViewInv
<1>2. ASSUME \A h \in Handle : live'[h] # NotOpen =>
                 /\ live[h] # NotOpen
                 /\ live'[h].key = live[h].key /\ live'[h].events = live[h].events
      PROVE  \A h \in Handle : ShownOK(h)'
    BY <1>2, ShownFrame DEF ViewInv
<1>3. ASSUME \A r \in Runner : pc'[r] = "apply" =>
                 /\ live'[call[r].handle].key = live[call[r].handle].key
                 /\ live'[call[r].handle].events = live[call[r].handle].events
      PROVE  /\ \A r \in Runner : PendingOK(r)'
             /\ \A q, r \in Runner : q # r => ApartOK(q, r)'
    <2>1. \A r \in Runner : PendingOK(r)'
        BY <1>3, PendingFrame DEF ViewInv
    <2>2. ASSUME NEW q \in Runner, NEW r \in Runner, q # r
          PROVE  ApartOK(q, r)'
        BY <1>3, <2>2 DEF ViewInv, ApartOK, Pending
    <2>3. QED
        BY <2>1, <2>2
<1>4. QED
    BY <1>1, <1>2, <1>3

LEMMA ViewStep == LiveTypeOK /\ ViewInv /\ [Next]_vars => ViewInv'
<1> SUFFICES ASSUME LiveTypeOK, ViewInv, [Next]_vars
             PROVE  ViewInv'
    OBVIOUS
<1>1. EventsGrow /\ StoredTrimmed'
    BY GrowStep, TrimmedStep DEF ViewInv
<1> DEFINE CallsKept ==
               \A r \in Runner :
                   /\ pc'[r] \in {"scoped", "events"} =>
                          /\ pc[r] \in {"scoped", "events"}
                          /\ call'[r].key = call[r].key /\ call'[r].snapshot = call[r].snapshot
                   /\ pc'[r] = "apply" => pc[r] = "apply" /\ call'[r] = call[r]
           ViewsKept ==
               \A h \in Handle : live'[h] # NotOpen =>
                   /\ live[h] # NotOpen
                   /\ live'[h].key = live[h].key /\ live'[h].events = live[h].events
           PendingKept ==
               \A r \in Runner : pc'[r] = "apply" =>
                   /\ live'[call[r].handle].key = live[call[r].handle].key
                   /\ live'[call[r].handle].events = live[call[r].handle].events
<1>2. CASE CallsKept /\ ViewsKept /\ PendingKept
    BY <1>1, <1>2, ViewFrame DEF ViewInv
<1>3. ASSUME NEW r \in Runner, NEW h \in Handle, NEW k \in Key, NEW d \in CreateState,
             Create(r, h, k, d)
      PROVE  ViewInv'
    <2>1. /\ pc' = pc /\ call' = call /\ live[h] = NotOpen
          /\ \/ live' = [live EXCEPT ![h] = newDatabaseSession(k, sessions'[k], <<>>,
                                         appStates'[AppOf(k)], userStates'[UserOf(k)])]
             \/ live' = live
        BY <1>3 DEF Create
    <2>2. CallsKept
        BY <2>1
    <2>3. \A g \in Handle : live[g] # NotOpen => live'[g] = live[g]
        BY <2>1 DEF LiveTypeOK
    <2>4. PendingKept
        BY <2>1, <2>3, PendingTyping
    <2>5. ASSUME NEW g \in Handle
          PROVE  ShownOK(g)'
        <3>1. CASE live'[g] = live[g]
            BY <1>1, <3>1, ShownFrame DEF ViewInv
        <3>2. CASE live'[g] # live[g]
            <4>1. live'[g].events = <<>>
                BY <2>1, <3>2 DEF LiveTypeOK, newDatabaseSession
            <4>2. QED
                BY <4>1 DEF ShownOK
        <3>3. QED
            BY <3>1, <3>2
    <2>6. QED
        BY <1>1, <2>2, <2>4, <2>5, ViewFrame DEF ViewInv
<1>4. ASSUME NEW r \in Runner, NEW k \in Key, NEW request \in GetRequest, Get(r, k, request)
      PROVE  ViewInv'
    <2>1. /\ pc' = [pc EXCEPT ![r] = "scoped"] /\ live' = live
          /\ \A q \in Runner : q # r => call'[q] = call[q]
        BY <1>4 DEF Get, LiveTypeOK
    <2>2. \A q \in Runner : pc'[q] = "apply" => pc[q] = "apply" /\ call'[q] = call[q]
        BY <2>1 DEF LiveTypeOK
    <2>3. \A q \in Runner : SnapshotOK(q)'
        BY <1>1, <1>4, GetView
    <2>4. \A h \in Handle : ShownOK(h)'
        BY <1>1, <2>1, ShownFrame DEF ViewInv
    <2>5. \A q \in Runner : PendingOK(q)'
        BY <1>1, <2>1, <2>2, PendingFrame DEF ViewInv
    <2>6. ASSUME NEW p \in Runner, NEW q \in Runner, p # q
          PROVE  ApartOK(p, q)'
        BY <2>1, <2>2, <2>6 DEF ViewInv, ApartOK, Pending
    <2>7. QED
        BY <1>1, <2>3, <2>4, <2>5, <2>6 DEF ViewInv
<1>5. ASSUME NEW r \in Runner, GetScoped(r)
      PROVE  ViewInv'
    <2>1. call[r] \in GetCall /\ pc[r] = "scoped" /\ pc' = [pc EXCEPT ![r] = "events"]
        BY <1>5 DEF GetScoped, LiveTypeOK
    <2>2. call'[r].key = call[r].key /\ call'[r].snapshot = call[r].snapshot
        BY <1>5, <2>1, GetScopedTyping DEF GetCall
    <2>3. live' = live /\ \A q \in Runner : q # r => call'[q] = call[q]
        BY <1>5 DEF GetScoped, LiveTypeOK
    <2>4. CallsKept
        BY <2>1, <2>2, <2>3 DEF LiveTypeOK
    <2>5. QED
        BY <1>2, <2>3, <2>4
<1>6. ASSUME NEW r \in Runner, NEW h \in Handle, GetEvents(r, h)
      PROVE  ViewInv'
    <2>1. /\ live[h] = NotOpen
          /\ pc' = [pc EXCEPT ![r] = "idle"] /\ call' = [call EXCEPT ![r] = NoCall]
        BY <1>6 DEF GetEvents
    <2>2. CallsKept
        BY <2>1 DEF LiveTypeOK
    <2>3. \A g \in Handle : g # h => live'[g] = live[g]
        BY <1>6 DEF GetEvents, LiveTypeOK
    <2>4. PendingKept
        BY <2>1, <2>2, <2>3, PendingTyping
    <2>5. QED
        BY <1>1, <1>6, <2>2, <2>4, GetEventsView, ViewFrame DEF ViewInv
<1>7. ASSUME NEW r \in Runner, NEW h \in Handle, NEW o \in Object, AppendEvent(r, h, o)
      PROVE  ViewInv'
    <2>1. /\ pc' = [pc EXCEPT ![r] = "store"] /\ live' = live
          /\ \A q \in Runner : q # r => call'[q] = call[q]
        BY <1>7 DEF AppendEvent, LiveTypeOK
    <2>2. CallsKept
        BY <2>1 DEF LiveTypeOK
    <2>3. QED
        BY <1>2, <2>1, <2>2
<1>8. ASSUME NEW r \in Runner, StoreEvent(r)
      PROVE  ViewInv'
    <2>1. /\ live' = live /\ pc[r] = "store"
          /\ \/ pc' = [pc EXCEPT ![r] = "apply"] /\ call' = call
             \/ pc' = [pc EXCEPT ![r] = "idle"] /\ call' = [call EXCEPT ![r] = NoCall]
        BY <1>8 DEF StoreEvent
    <2>2. \A q \in Runner : SnapshotOK(q)'
        BY <1>1, <2>1, SnapshotFrame DEF ViewInv, LiveTypeOK
    <2>3. \A h \in Handle : ShownOK(h)'
        BY <1>1, <2>1, ShownFrame DEF ViewInv
    <2>4. QED
        BY <1>1, <1>8, <2>2, <2>3, StoreView DEF ViewInv
<1>9. ASSUME NEW r \in Runner, ApplyEvent(r)
      PROVE  ViewInv'
    <2>1. pc' = [pc EXCEPT ![r] = "idle"] /\ call' = [call EXCEPT ![r] = NoCall]
        BY <1>9 DEF ApplyEvent
    <2>2. \A q \in Runner : SnapshotOK(q)'
        BY <1>1, <2>1, SnapshotFrame DEF ViewInv, LiveTypeOK
    <2>3. QED
        BY <1>1, <1>9, <2>2, ApplyView DEF ViewInv
<1>10. ASSUME NEW r \in Runner, CallFails(r)
       PROVE  ViewInv'
    BY <1>2, <1>10 DEF CallFails, LiveTypeOK
<1>11. ASSUME NEW h \in Handle, NEW n \in StateKey, NEW value \in SetValue, Set(h, n, value)
       PROVE  ViewInv'
    <2>1. /\ pc' = pc /\ call' = call /\ live[h] # NotOpen
          /\ live' = [live EXCEPT ![h] = [live[h] EXCEPT !.state[n] = value]]
        BY <1>11 DEF Set, LiveTypeOK
    <2>2. live[h] \in LiveRecord
        BY <2>1 DEF LiveTypeOK
    <2>3. \A g \in Handle : live'[g].key = live[g].key /\ live'[g].events = live[g].events
        BY <2>1, <2>2 DEF LiveTypeOK, LiveRecord
    <2>4. \A g \in Handle : live'[g] # NotOpen => live[g] # NotOpen
        BY <2>1 DEF LiveTypeOK
    <2>5. PendingKept
        BY <2>1, <2>3, PendingTyping
    <2>6. QED
        BY <1>2, <2>1, <2>3, <2>4, <2>5
<1>12. ASSUME NEW h \in Handle, Close(h)
       PROVE  ViewInv'
    <2>1. /\ pc' = pc /\ call' = call /\ live' = [live EXCEPT ![h] = NotOpen]
          /\ \A r \in Runner : pc[r] = "apply" => call[r].handle # h
        BY <1>12 DEF Close
    <2>2. ViewsKept /\ PendingKept
        BY <2>1 DEF LiveTypeOK
    <2>3. QED
        BY <1>2, <2>1, <2>2
<1>13. CASE UNCHANGED <<live, pc, call>>
    BY <1>2, <1>13
<1>14. QED
    BY <1>3, <1>4, <1>5, <1>6, <1>7, <1>8, <1>9, <1>10, <1>11, <1>12, <1>13
    DEF Next, vars, Delete, Tick

LEMMA ViewInit == Init => ViewInv
BY SameTables
DEF Init, Store!Init, ViewInv, StoredTrimmed, SnapshotOK, PendingOK, Pending, ShownOK, ApartOK,
    NoEvents

LEMMA ViewInvariant == Spec => []ViewInv
BY LiveTypeCorrect, ViewInit, ViewStep, PTL DEF Spec

(* A live session shows only what is stored: an append that failed, or was *)
(* refused because the event exists, left no trace in the view, and what   *)
(* was read or applied stays stored while nobody deletes the session.      *)
THEOREM ShownAreStored == Spec => []ShownEventsStored
<1>1. LiveTypeOK /\ ViewInv => ShownEventsStored
    <2> SUFFICES ASSUME LiveTypeOK, ViewInv, NEW h \in Open, NEW i \in DOMAIN live[h].events,
                        live[h].key \notin DeletedKey
                 PROVE  Stored(live[h].events[i]) \in EventsIn(events[live[h].key])
        BY DEF ShownEventsStored
    <2> DEFINE event == live[h].events[i]
               row == events[live[h].key][event.id]
    <2>1. h \in Handle /\ live[h] \in LiveRecord /\ live[h] # NotOpen
        BY DEF Open, LiveTypeOK
    <2>2. event \in ListedEvent
        BY <2>1 DEF LiveRecord
    <2>3. row = eventToProto(event)
        BY <2>1 DEF ViewInv, ShownOK, IsStored
    <2>4. row \in Event /\ row # NoRow
        BY <2>2, <2>3, StoredEventTyping, NoRowAssumption
    <2>5. row.delta = trimTempKeys(event.delta) /\ row.timestamp = event.timestamp
        BY <2>3 DEF eventToProto
    <2> HIDE DEF event, row
    <2>6. Stored(event) = [id |-> event.id, delta |-> row.delta, timestamp |-> row.timestamp]
        BY <2>2, <2>5 DEF Stored, ListedEvent
    <2>7. event.id \in {e \in EventID : events[live[h].key][e] # NoRow}
        BY <2>2, <2>4 DEF ListedEvent, row
    <2>8. Stored(event) \in EventsIn(events[live[h].key])
        BY <2>6, <2>7 DEF EventsIn, row
    <2>9. QED
        BY <2>8 DEF event
<1>2. QED
    BY <1>1, LiveTypeCorrect, ViewInvariant, PTL

(* No event is shown twice by a live session, although a caller that got   *)
(* no reply appends the event again.                                       *)
THEOREM ShownAtMostOnce == Spec => []ShownOnce
<1>1. ViewInv => ShownOnce
    BY DEF ViewInv, ShownOK, ShownOnce, Open
<1>2. QED
    BY <1>1, ViewInvariant, PTL

-----------------------------------------------------------------------------
(* Shown state.  A key that a stored event sets stays set in the merged    *)
(* view of its session as long as the session is stored: nothing that the  *)
(* runners do takes a key away.                                            *)

Grows(old, new) == \A n \in DOMAIN old : old[n] # NoValue => new[n] # NoValue

Covers(state, delta) == \A n \in StateKey : delta[n] # NoValue => state[n] # NoValue

View(k) == mergeStateMaps(appStates[AppOf(k)], userStates[UserOf(k)], sessions[k].state)

RowsApplied ==
    \A k \in Key :
        /\ sessions[k] = NoRow => events[k] = NoEvents
        /\ \A e \in EventID : events[k][e] # NoRow => Covers(View(k), events[k][e].delta)

(* So is what a Get holds. *)
SnapshotApplied(r) ==
    LET c == call[r]
    IN /\ pc[r] \in {"scoped", "events"} =>
              \A e \in EventID : c.snapshot.rows[e] # NoRow =>
                  Covers(mergeStateMaps(c.snapshot.app, c.snapshot.user, c.row.state),
                         c.snapshot.rows[e].delta)
       /\ pc[r] = "events" => c.app = c.snapshot.app /\ c.user = c.snapshot.user

ViewApplied(h) ==
    live[h] # NotOpen =>
        \A i \in DOMAIN live[h].events : Covers(live[h].state, live[h].events[i].delta)

AppliedInv ==
    /\ RowsApplied
    /\ \A r \in Runner : SnapshotApplied(r)
    /\ \A h \in Handle : ViewApplied(h)

LEMMA ViewGrows ==
    ASSUME NEW app \in Maps(AppVar), NEW user \in Maps(UserVar), NEW session \in Maps(SessionVar),
           NEW app2, NEW user2, NEW session2,
           Grows(app, app2), Grows(user, user2), Grows(session, session2)
    PROVE  \A n \in StateKey : mergeStateMaps(app, user, session)[n] # NoValue =>
                                   mergeStateMaps(app2, user2, session2)[n] # NoValue
<1>1. \A n \in StateKey : /\ HasPrefix(n, KeyPrefixApp) => Tail(n) \in AppVar
                          /\ HasPrefix(n, KeyPrefixUser) => Tail(n) \in UserVar
    BY DEF AppVar, UserVar
<1>2. QED
    BY <1>1 DEF mergeStateMaps, Grows, Maps

LEMMA MergeGrows ==
    ASSUME NEW S, NEW old \in Maps(S), NEW d
    PROVE  Grows(old, mergedState(old, d))
BY DEF Grows, mergedState, Maps

(* The shared rows after a scoped merge: those of k have taken their parts *)
(* of d, and no row has lost a key.                                        *)
LEMMA ScopedMerge ==
    ASSUME TablesOK, NEW k \in Key, NEW d \in Maps(StateKey), Store!MergeScoped(k, d)
    PROVE  /\ appStates'[AppOf(k)] = mergedState(appStates[AppOf(k)], AppPart(d))
           /\ userStates'[UserOf(k)] = mergedState(userStates[UserOf(k)], UserPart(d))
           /\ \A j \in Key : /\ Grows(appStates[AppOf(j)], appStates'[AppOf(j)])
                             /\ Grows(userStates[UserOf(j)], userStates'[UserOf(j)])
<1>1. /\ appStates' = PutAppState(appStates, k, appStates[AppOf(k)], d)
      /\ userStates' = PutUserState(userStates, k, userStates[UserOf(k)], d)
    BY SameWrites
<1>2. \A j \in Key : appStates[AppOf(j)] \in Maps(AppVar) /\ userStates[UserOf(j)] \in Maps(UserVar)
    BY RowsPresent
<1>3. appStates'[AppOf(k)] = mergedState(appStates[AppOf(k)], AppPart(d))
    BY <1>1, <1>2, KeyParts, MergeNothing DEF PutAppState, TablesOK
<1>4. userStates'[UserOf(k)] = mergedState(userStates[UserOf(k)], UserPart(d))
    BY <1>1, <1>2, KeyParts, MergeNothing DEF PutUserState, TablesOK
<1>5. ASSUME NEW j \in Key
      PROVE  Grows(appStates[AppOf(j)], appStates'[AppOf(j)])
    <2>1. CASE AppOf(j) = AppOf(k)
        BY <1>2, <1>3, <2>1, MergeGrows
    <2>2. CASE AppOf(j) # AppOf(k)
        BY <1>1, <2>2, KeyParts DEF PutAppState, TablesOK, Grows
    <2>3. QED
        BY <2>1, <2>2
<1>6. ASSUME NEW j \in Key
      PROVE  Grows(userStates[UserOf(j)], userStates'[UserOf(j)])
    <2>1. CASE UserOf(j) = UserOf(k)
        BY <1>2, <1>4, <2>1, MergeGrows
    <2>2. CASE UserOf(j) # UserOf(k)
        BY <1>1, <2>2, KeyParts DEF PutUserState, TablesOK, Grows
    <2>3. QED
        BY <2>1, <2>2
<1>7. QED
    BY <1>3, <1>4, <1>5, <1>6

(* Storing an event applies its delta to the merged view of its session.   *)
LEMMA StoredView ==
    ASSUME LiveTypeOK, NEW k \in Key, NEW stored \in Event,
           sessions[k] # NoRow, trimTempKeys(stored.delta) = stored.delta,
           sessions' = [sessions EXCEPT ![k] = AppendedRow(@, stored)],
           Store!MergeScoped(k, stored.delta)
    PROVE  /\ View(k) \in Maps(StateKey)
           /\ View(k)' = mergedState(View(k), stored.delta)
           /\ sessions'[k] # NoRow
           /\ sessions'[k].updateTime = stored.timestamp
<1> DEFINE d == stored.delta
<1>1. TablesOK /\ d \in Maps(StateKey)
    BY TypeParts DEF Event
<1>2. sessions[k] \in Session /\ sessions[k].state \in Maps(SessionVar)
    BY <1>1 DEF TablesOK, Session
<1>3. appStates[AppOf(k)] \in Maps(AppVar) /\ userStates[UserOf(k)] \in Maps(UserVar)
    BY <1>1, RowsPresent
<1>4. sessions'[k] = AppendedRow(sessions[k], stored)
    BY <1>1 DEF TablesOK
<1>5. /\ sessions'[k].state = mergedState(sessions[k].state, SessionPart(d))
      /\ sessions'[k].updateTime = stored.timestamp
    BY <1>2, <1>4 DEF AppendedRow, Session
<1>6. sessions'[k] # NoRow
    BY <1>2, <1>4, AppendedRowTyping, NoRowAssumption
<1> HIDE DEF d
<1>7. Store!MergeScoped(k, d)
    BY DEF d
<1>8. /\ appStates'[AppOf(k)] = mergedState(appStates[AppOf(k)], AppPart(d))
      /\ userStates'[UserOf(k)] = mergedState(userStates[UserOf(k)], UserPart(d))
    BY <1>1, <1>7, ScopedMerge
<1>9. View(k)' = mergedState(View(k), trimTempKeys(d))
    BY <1>1, <1>2, <1>3, <1>5, <1>8, MergeThenView DEF View
<1>10. QED
    BY <1>2, <1>3, <1>5, <1>6, <1>9, ViewTyping DEF View, d

LEMMA RowsAppliedFrame ==
    ASSUME TablesOK, RowsApplied, NEW j \in Key,
           sessions'[j] = sessions[j], events'[j] = events[j],
           Grows(appStates[AppOf(j)], appStates'[AppOf(j)]),
           Grows(userStates[UserOf(j)], userStates'[UserOf(j)])
    PROVE  /\ sessions'[j] = NoRow => events'[j] = NoEvents
           /\ \A e \in EventID : events'[j][e] # NoRow => Covers(View(j)', events'[j][e].delta)
<1>1. sessions'[j] = NoRow => events'[j] = NoEvents
    BY DEF RowsApplied
<1>2. ASSUME NEW e \in EventID, events'[j][e] # NoRow
      PROVE  Covers(View(j)', events'[j][e].delta)
    <2>1. sessions[j] \in Session /\ sessions[j].state \in Maps(SessionVar)
        BY <1>2 DEF RowsApplied, NoEvents, TablesOK, Session
    <2>2. appStates[AppOf(j)] \in Maps(AppVar) /\ userStates[UserOf(j)] \in Maps(UserVar)
        BY RowsPresent
    <2>3. Grows(sessions[j].state, sessions'[j].state)
        BY DEF Grows
    <2>4. \A n \in StateKey : View(j)[n] # NoValue => View(j)'[n] # NoValue
        BY <2>1, <2>2, <2>3, ViewGrows DEF View
    <2>5. QED
        BY <1>2, <2>4 DEF RowsApplied, Covers
<1>3. QED
    BY <1>1, <1>2

LEMMA RowsAppliedStep ==
    ASSUME LiveTypeOK, RowsApplied, [Next]_vars
    PROVE  RowsApplied'
<1>1. TablesOK
    BY TypeParts
<1>2. ASSUME NEW r \in Runner, NEW h \in Handle, NEW k \in Key, NEW d \in CreateState,
             Create(r, h, k, d)
      PROVE  RowsApplied'
    <2>1. d \in Maps(StateKey)
        BY LiveInputAssumption
    <2>2. /\ sessions[k] = NoRow /\ events' = events /\ Store!MergeScoped(k, d)
          /\ \A j \in Key : j # k => sessions'[j] = sessions[j]
        BY <1>2 DEF Create, LiveTypeOK
    <2>3. events'[k] = NoEvents
        BY <2>2 DEF RowsApplied
    <2>4. \A j \in Key : /\ Grows(appStates[AppOf(j)], appStates'[AppOf(j)])
                         /\ Grows(userStates[UserOf(j)], userStates'[UserOf(j)])
        BY <1>1, <2>1, <2>2, ScopedMerge
    <2>5. ASSUME NEW j \in Key
          PROVE  /\ sessions'[j] = NoRow => events'[j] = NoEvents
                 /\ \A e \in EventID : events'[j][e] # NoRow =>
                                           Covers(View(j)', events'[j][e].delta)
        <3>1. CASE j = k
            BY <2>3, <3>1 DEF NoEvents
        <3>2. CASE j # k
            BY <1>1, <2>2, <2>4, <3>2, RowsAppliedFrame
        <3>3. QED
            BY <3>1, <3>2
    <2>6. QED
        BY <2>5 DEF RowsApplied
<1>3. ASSUME NEW r \in Runner, StoreEvent(r)
      PROVE  RowsApplied'
    <2>1. PICK k \in Key, event \in ListedEvent :
              /\ k = live[call[r].handle].key /\ event = call[r].event
              /\ sessions[k] # NoRow /\ events[k][event.id] = NoRow
              /\ events' = [events EXCEPT ![k][event.id] = eventToProto(event)]
              /\ sessions' = [sessions EXCEPT ![k] = AppendedRow(@, eventToProto(event))]
              /\ Store!MergeScoped(k, eventToProto(event).delta)
        BY <1>3, StoreEffect
    <2> DEFINE stored == eventToProto(event)
               d == stored.delta
    <2>2. /\ stored \in Event /\ event.id \in EventID
          /\ d \in Maps(StateKey) /\ trimTempKeys(d) = d
        BY StoredEventTyping, SplitTyping, TrimOnce DEF ListedEvent
    <2>3. /\ sessions' = [sessions EXCEPT ![k] = AppendedRow(@, stored)]
          /\ events' = [events EXCEPT ![k][event.id] = stored]
          /\ Store!MergeScoped(k, d)
        BY <2>1
    <2> HIDE DEF stored
    <2>4. /\ View(k) \in Maps(StateKey) /\ View(k)' = mergedState(View(k), d)
          /\ sessions'[k] # NoRow
        BY <2>1, <2>2, <2>3, StoredView
    <2> HIDE DEF d
    <2>5. \A j \in Key : /\ Grows(appStates[AppOf(j)], appStates'[AppOf(j)])
                         /\ Grows(userStates[UserOf(j)], userStates'[UserOf(j)])
        BY <1>1, <2>2, <2>3, ScopedMerge
    <2>6. ASSUME NEW e \in EventID, events'[k][e] # NoRow
          PROVE  Covers(View(k)', events'[k][e].delta)
        <3>1. CASE e = event.id
            <4>1. events'[k][e] = stored
                BY <1>1, <2>2, <2>3, <3>1 DEF TablesOK
            <4>2. QED
                BY <2>4, <4>1 DEF Covers, mergedState, Maps, d
        <3>2. CASE e # event.id
            <4>1. events'[k][e] = events[k][e]
                BY <1>1, <2>2, <2>3, <3>2 DEF TablesOK
            <4>2. Covers(View(k), events[k][e].delta)
                BY <2>6, <4>1 DEF RowsApplied
            <4>3. QED
                BY <2>4, <4>1, <4>2 DEF Covers, mergedState, Maps
        <3>3. QED
            BY <3>1, <3>2
    <2>7. ASSUME NEW j \in Key
          PROVE  /\ sessions'[j] = NoRow => events'[j] = NoEvents
                 /\ \A e \in EventID : events'[j][e] # NoRow =>
                                           Covers(View(j)', events'[j][e].delta)
        <3>1. CASE j = k
            BY <2>4, <2>6, <3>1
        <3>2. CASE j # k
            <4>1. sessions'[j] = sessions[j] /\ events'[j] = events[j]
                BY <1>1, <2>3, <3>2 DEF TablesOK
            <4>2. QED
                BY <1>1, <2>5, <4>1, RowsAppliedFrame
        <3>3. QED
            BY <3>1, <3>2
    <2>8. QED
        BY <2>7 DEF RowsApplied
<1>4. ASSUME NEW k \in DeletedKey, Delete(k)
      PROVE  RowsApplied'
    <2>1. /\ events' = [events EXCEPT ![k] = NoEvents]
          /\ sessions' = [sessions EXCEPT ![k] = NoRow]
          /\ UNCHANGED <<appStates, userStates>>
        BY <1>4, SameTables DEF Delete, Store!Delete
    <2>2. ASSUME NEW j \in Key
          PROVE  /\ sessions'[j] = NoRow => events'[j] = NoEvents
                 /\ \A e \in EventID : events'[j][e] # NoRow =>
                                           Covers(View(j)', events'[j][e].delta)
        <3>1. CASE j = k
            BY <1>1, <2>1, <3>1 DEF NoEvents, TablesOK
        <3>2. CASE j # k
            <4>1. sessions'[j] = sessions[j] /\ events'[j] = events[j]
                BY <1>1, <2>1, <3>2 DEF TablesOK
            <4>2. QED
                BY <2>1, <4>1 DEF RowsApplied, View
        <3>3. QED
            BY <3>1, <3>2
    <2>3. QED
        BY <2>2 DEF RowsApplied
<1>5. CASE UNCHANGED tables
    BY <1>5 DEF RowsApplied, View, tables
<1>6. QED
    BY <1>2, <1>3, <1>4, <1>5
    DEF Next, vars, tables, GetEvents, AppendEvent, Get, GetScoped, ApplyEvent, CallFails, Set,
        Close, Tick

(* Applying an event and setting a key take no key away. *)
LEMMA ViewAppliedStep ==
    ASSUME LiveTypeOK, AppliedInv, [Next]_vars, NEW h \in Handle
    PROVE  ViewApplied(h)'
<1>1. ASSUME NEW r \in Runner, NEW g \in Handle, NEW k \in Key, NEW d \in CreateState,
             Create(r, g, k, d)
      PROVE  ViewApplied(h)'
    <2>1. CASE live'[h] = live[h]
        BY <2>1 DEF AppliedInv, ViewApplied
    <2>2. CASE live'[h] # live[h]
        <3>1. live' = [live EXCEPT ![g] = newDatabaseSession(k, sessions'[k], <<>>,
                                         appStates'[AppOf(k)], userStates'[UserOf(k)])]
            BY <1>1, <2>2 DEF Create
        <3>2. live'[h].events = <<>>
            BY <2>2, <3>1 DEF LiveTypeOK, newDatabaseSession
        <3>3. QED
            BY <3>2 DEF ViewApplied
    <2>3. QED
        BY <2>1, <2>2
<1>2. ASSUME NEW r \in Runner, GetEvents(r, h)
      PROVE  ViewApplied(h)'
    <2>1. call[r] \in GetCall /\ pc[r] = "events"
        BY <1>2 DEF GetEvents, LiveTypeOK
    <2> DEFINE c == call[r]
    <2>2. PICK listed \in listSessionEvents(c.snapshot.rows, c.request.after, c.request.numRecent) :
              live' = [live EXCEPT ![h] = newDatabaseSession(c.key, c.row, listed, c.app, c.user)]
        BY <1>2 DEF GetEvents, ReadFrom
    <2>3. /\ c.snapshot.rows \in [EventID -> Event \cup {NoRow}]
          /\ c.request.after \in Nat /\ c.request.numRecent \in Nat
        BY <2>1 DEF GetCall, Snapshot
    <2>4. \A i \in DOMAIN listed : listed[i] \in EventsIn(c.snapshot.rows)
        BY <2>3, ListedTyping
    <2>5. /\ live'[h].events = listed
          /\ live'[h].state = mergeStateMaps(c.snapshot.app, c.snapshot.user, c.row.state)
        BY <2>1, <2>2 DEF newDatabaseSession, LiveTypeOK, AppliedInv, SnapshotApplied
    <2>6. ASSUME NEW i \in DOMAIN listed
          PROVE  Covers(live'[h].state, listed[i].delta)
        <3>1. PICK e \in EventID : /\ c.snapshot.rows[e] # NoRow
                                   /\ listed[i].delta = c.snapshot.rows[e].delta
            BY <2>4 DEF EventsIn
        <3>2. QED
            BY <2>1, <2>5, <3>1 DEF AppliedInv, SnapshotApplied
    <2>7. QED
        BY <2>5, <2>6 DEF ViewApplied
<1>3. ASSUME NEW r \in Runner, ApplyEvent(r)
      PROVE  ViewApplied(h)'
    <2>1. PICK g \in Handle, event \in ListedEvent :
              /\ g = call[r].handle /\ event = call[r].event
              /\ live[g] \in LiveRecord /\ live[g] # NotOpen
        BY <1>3, PendingTyping DEF ApplyEvent
    <2>2. live' = [live EXCEPT ![g] = appendEvent(live[g], event)]
        BY <1>3, <2>1, ApplyEventTyping
    <2>3. CASE h # g
        BY <2>2, <2>3 DEF LiveTypeOK, AppliedInv, ViewApplied
    <2>4. CASE h = g
        <3> DEFINE old == live[g].events
                   state == live[g].state
        <3>1. /\ live'[h].events = Append(old, event)
              /\ live'[h].state = mergedState(state, event.delta)
            BY <2>1, <2>2, <2>4, AppendedSessionTyping DEF LiveTypeOK
        <3>2. /\ old \in Seq(ListedEvent) /\ state \in Maps(StateKey)
              /\ event.delta \in Maps(StateKey)
            BY <2>1 DEF LiveRecord, ListedEvent
        <3>3. \A i \in DOMAIN old : Covers(state, old[i].delta)
            BY <2>1 DEF AppliedInv, ViewApplied
        <3> HIDE DEF old, state
        <3>4. \A i \in DOMAIN Append(old, event) :
                  (i \in DOMAIN old /\ Append(old, event)[i] = old[i])
                  \/ Append(old, event)[i] = event
            BY <3>2
        <3>5. Covers(mergedState(state, event.delta), event.delta)
            BY <3>2 DEF Covers, mergedState, Maps
        <3>6. \A i \in DOMAIN old : Covers(mergedState(state, event.delta), old[i].delta)
            BY <3>2, <3>3 DEF Covers, mergedState, Maps
        <3>7. QED
            BY <3>1, <3>4, <3>5, <3>6 DEF ViewApplied
    <2>5. QED
        BY <2>3, <2>4
<1>4. ASSUME NEW g \in Handle, NEW n \in StateKey, NEW value \in SetValue, Set(g, n, value)
      PROVE  ViewApplied(h)'
    <2>1. /\ live[g] # NotOpen /\ live[g] \in LiveRecord
          /\ live' = [live EXCEPT ![g] = [live[g] EXCEPT !.state[n] = value]]
        BY <1>4 DEF Set, LiveTypeOK
    <2>2. CASE h # g
        BY <2>1, <2>2 DEF LiveTypeOK, AppliedInv, ViewApplied
    <2>3. CASE h = g
        <3>1. /\ live'[h].events = live[h].events
              /\ live'[h].state = [live[h].state EXCEPT ![n] = value]
              /\ live[h].state \in Maps(StateKey) /\ value # NoValue
            BY <2>1, <2>3, LiveInputAssumption, NoValueAssumption DEF LiveTypeOK, LiveRecord
        <3>2. \A m \in StateKey : live[h].state[m] # NoValue => live'[h].state[m] # NoValue
            BY <3>1 DEF Maps
        <3>3. QED
            BY <2>1, <2>3, <3>1, <3>2 DEF AppliedInv, ViewApplied, Covers
    <2>4. QED
        BY <2>2, <2>3
<1>5. ASSUME NEW g \in Handle, Close(g)
      PROVE  ViewApplied(h)'
    BY <1>5 DEF Close, LiveTypeOK, AppliedInv, ViewApplied
<1>6. CASE live'[h] = live[h]
    BY <1>6 DEF AppliedInv, ViewApplied
<1>7. ASSUME NEW r \in Runner, NEW g \in Handle, GetEvents(r, g), g # h
      PROVE  ViewApplied(h)'
    BY <1>6, <1>7 DEF GetEvents, LiveTypeOK
<1>8. QED
    BY <1>1, <1>2, <1>3, <1>4, <1>5, <1>6, <1>7
    DEF Next, vars, AppendEvent, Get, GetScoped, StoreEvent, CallFails, Delete, Tick

LEMMA SnapshotAppliedStep ==
    ASSUME LiveTypeOK, AppliedInv, [Next]_vars, NEW q \in Runner
    PROVE  SnapshotApplied(q)'
<1>1. CASE pc'[q] \in {"scoped", "events"} => pc'[q] = pc[q] /\ call'[q] = call[q]
    BY <1>1 DEF AppliedInv, SnapshotApplied
<1>2. ASSUME NEW k \in Key, NEW request \in GetRequest, Get(q, k, request)
      PROVE  SnapshotApplied(q)'
    <2>1. /\ call'[q].snapshot = SnapshotOf(k) /\ call'[q].row = sessions[k]
          /\ pc'[q] = "scoped"
        BY <1>2 DEF Get, LiveTypeOK
    <2>2. QED
        BY <2>1 DEF SnapshotApplied, SnapshotOf, AppliedInv, RowsApplied, View
<1>3. ASSUME GetScoped(q)
      PROVE  SnapshotApplied(q)'
    <2>1. call[q] \in GetCall /\ pc[q] = "scoped" /\ pc'[q] = "events"
        BY <1>3 DEF GetScoped, LiveTypeOK
    <2>2. /\ call'[q].row = call[q].row /\ call'[q].snapshot = call[q].snapshot
          /\ call'[q].app = call[q].snapshot.app /\ call'[q].user = call[q].snapshot.user
        BY <1>3, <2>1, GetScopedTyping DEF GetCall
    <2>3. QED
        BY <2>1, <2>2 DEF AppliedInv, SnapshotApplied
<1>4. ASSUME NEW r \in Runner, r # q,
             \/ \E k \in Key, request \in GetRequest : Get(r, k, request)
             \/ GetScoped(r)
             \/ \E h \in Handle : GetEvents(r, h)
             \/ \E h \in Handle, o \in Object : AppendEvent(r, h, o)
             \/ StoreEvent(r)
             \/ ApplyEvent(r)
             \/ CallFails(r)
      PROVE  SnapshotApplied(q)'
    <2>1. pc'[q] = pc[q] /\ call'[q] = call[q]
        BY <1>4
        DEF Get, GetScoped, GetEvents, AppendEvent, StoreEvent, ApplyEvent, CallFails, LiveTypeOK
    <2>2. QED
        BY <1>1, <2>1
<1>5. ASSUME \/ \E h \in Handle : GetEvents(q, h)
             \/ \E h \in Handle, o \in Object : AppendEvent(q, h, o)
             \/ StoreEvent(q)
             \/ ApplyEvent(q)
             \/ CallFails(q)
      PROVE  SnapshotApplied(q)'
    <2>1. pc'[q] \in {"idle", "store", "apply"}
        BY <1>5 DEF GetEvents, AppendEvent, StoreEvent, ApplyEvent, CallFails, LiveTypeOK
    <2>2. QED
        BY <1>1, <2>1
<1>6. CASE UNCHANGED <<pc, call>>
    BY <1>1, <1>6
<1>7. QED
    BY <1>2, <1>3, <1>4, <1>5, <1>6 DEF Next, vars, Create, Set, Close, Delete, Tick

(* Every key that a shown event sets is in the shown state: Get reads the  *)
(* rows of one moment, and an event is shown and applied in one step.      *)
THEOREM ShownAreApplied == Spec => []ShownEventsApplied
<1>1. Init => AppliedInv
    BY SameTables
    DEF Init, Store!Init, AppliedInv, RowsApplied, SnapshotApplied, ViewApplied, NoEvents
<1>2. LiveTypeOK /\ AppliedInv /\ [Next]_vars => AppliedInv'
    BY RowsAppliedStep, SnapshotAppliedStep, ViewAppliedStep DEF AppliedInv
<1>3. AppliedInv => ShownEventsApplied
    BY DEF AppliedInv, ViewApplied, Covers, ShownEventsApplied, Open
<1>4. QED
    BY <1>1, <1>2, <1>3, LiveTypeCorrect, PTL DEF Spec

-----------------------------------------------------------------------------
(* One runner with one live session.                                       *)

Alone == /\ \E r \in Runner : Runner = {r}
         /\ \E h \in Handle : Handle = {h}
         /\ SetValue = {} /\ ~RepliesLost

(* The state is what a read of k would return now, apart from "temp:" keys. *)
Shows(state, k) == trimTempKeys(state) = View(k)

UpToDateOK(h) ==
    LET s == live[h]
        k == s.key
    IN s # NotOpen /\ sessions[k] # NoRow /\ (\A r \in Runner : pc[r] # "apply") =>
          Shows(s.state, k) /\ s.updateTime = sessions[k].updateTime

(* What is on its way brings the live session up to date. *)
ArrivingOK(r) ==
    LET s == live[call[r].handle]
        event == call[r].event
    IN pc[r] = "apply" /\ sessions[s.key] # NoRow =>
          /\ Shows(mergedState(s.state, event.delta), s.key)
          /\ event.timestamp = sessions[s.key].updateTime

(* A Get that found its session reads what is stored now. *)
ReadOK(r) ==
    LET c == call[r]
    IN pc[r] \in {"scoped", "events"} /\ sessions[c.key] # NoRow =>
          /\ c.row = sessions[c.key]
          /\ c.snapshot.app = appStates[AppOf(c.key)]
          /\ c.snapshot.user = userStates[UserOf(c.key)]
          /\ pc[r] = "events" => c.app = c.snapshot.app /\ c.user = c.snapshot.user

AloneInv ==
    /\ \A h \in Handle : UpToDateOK(h)
    /\ \A r \in Runner : ArrivingOK(r) /\ ReadOK(r)

LEMMA TrimView ==
    ASSUME NEW app \in Maps(AppVar), NEW user \in Maps(UserVar), NEW session \in Maps(SessionVar)
    PROVE  trimTempKeys(mergeStateMaps(app, user, session)) = mergeStateMaps(app, user, session)
<1> DEFINE view == mergeStateMaps(app, user, session)
<1>1. \A n \in StateKey : HasPrefix(n, KeyPrefixTemp) => view[n] = NoValue
    BY ScopesPartition DEF mergeStateMaps
<1>2. \A n \in StateKey : trimTempKeys(view)[n] = view[n]
    BY <1>1 DEF trimTempKeys
<1>3. QED
    BY <1>2 DEF trimTempKeys, mergeStateMaps

LEMMA TrimMerged ==
    ASSUME NEW state \in Maps(StateKey), NEW d \in Maps(StateKey)
    PROVE  trimTempKeys(mergedState(state, d)) = mergedState(trimTempKeys(state), trimTempKeys(d))
BY DEF trimTempKeys, mergedState, Maps

LEMMA AloneOpens ==
    ASSUME LiveTypeOK, Alone, NEW r \in Runner, NEW h \in Handle, NEW k \in Key,
           NEW d \in CreateState, Create(r, h, k, d), TablesOK'
    PROVE  UpToDateOK(h)'
<1> DEFINE row == [state |-> SessionPart(d), displayName |-> "",
                   expiration |-> NoExpiration, updateTime |-> now]
<1>1. row \in Session
    BY SplitTyping, LiveInputAssumption DEF Session, LiveTypeOK
<1>2. sessions' = [sessions EXCEPT ![k] = row]
    BY DEF Create
<1>3. live' = [live EXCEPT ![h] = newDatabaseSession(k, sessions'[k], <<>>,
                                     appStates'[AppOf(k)], userStates'[UserOf(k)])]
    BY DEF Create, Alone
<1> HIDE DEF row
<1>4. sessions'[k] \in Session /\ sessions'[k].state \in Maps(SessionVar)
    BY <1>1, <1>2 DEF LiveTypeOK, Session
<1>5. appStates'[AppOf(k)] \in Maps(AppVar) /\ userStates'[UserOf(k)] \in Maps(UserVar)
    BY KeyParts DEF TablesOK
<1>6. /\ live'[h].key = k /\ live'[h].state = View(k)'
      /\ live'[h].updateTime = sessions'[k].updateTime
    BY <1>3 DEF newDatabaseSession, LiveTypeOK, View
<1>7. trimTempKeys(View(k)') = View(k)'
    BY <1>4, <1>5, TrimView DEF View
<1>8. QED
    BY <1>6, <1>7 DEF UpToDateOK, Shows

LEMMA AloneReads ==
    ASSUME LiveTypeOK, AloneInv, NEW r \in Runner, NEW h \in Handle, GetEvents(r, h)
    PROVE  UpToDateOK(h)'
<1>1. call[r] \in GetCall /\ pc[r] = "events" /\ UNCHANGED tables
    BY DEF GetEvents, LiveTypeOK
<1>2. PICK k \in Key : k = call[r].key
    BY <1>1 DEF GetCall
<1>3. PICK listed : live' = [live EXCEPT ![h] = newDatabaseSession(call[r].key, call[r].row,
                                                    listed, call[r].app, call[r].user)]
    BY DEF GetEvents
<1>4. /\ live'[h].key = k
      /\ live'[h].state = mergeStateMaps(call[r].app, call[r].user, call[r].row.state)
      /\ live'[h].updateTime = call[r].row.updateTime
    BY <1>2, <1>3 DEF newDatabaseSession, LiveTypeOK
<1>5. ASSUME sessions'[k] # NoRow
      PROVE  /\ trimTempKeys(live'[h].state) = View(k)'
             /\ live'[h].updateTime = sessions'[k].updateTime
    <2>1. /\ call[r].row = sessions[k]
          /\ call[r].app = appStates[AppOf(k)] /\ call[r].user = userStates[UserOf(k)]
        BY <1>1, <1>2, <1>5 DEF AloneInv, ReadOK, tables
    <2>2. /\ sessions[k].state \in Maps(SessionVar)
          /\ appStates[AppOf(k)] \in Maps(AppVar) /\ userStates[UserOf(k)] \in Maps(UserVar)
        BY <1>1, <1>5, TypeParts, RowsPresent DEF Session, tables
    <2>3. live'[h].state = View(k) /\ View(k)' = View(k)
        BY <1>1, <1>4, <2>1 DEF View, tables
    <2>4. trimTempKeys(View(k)) = View(k)
        BY <2>2, TrimView DEF View
    <2>5. QED
        BY <1>1, <1>4, <2>1, <2>3, <2>4 DEF tables
<1>6. QED
    BY <1>4, <1>5 DEF UpToDateOK, Shows

LEMMA AloneStores ==
    ASSUME LiveTypeOK, Alone, AloneInv, NEW r \in Runner, StoreEvent(r)
    PROVE  pc'[r] = "apply" /\ ArrivingOK(r)'
<1>1. PICK k \in Key, event \in ListedEvent :
          /\ pc[r] = "store" /\ call[r] \in AppendCall
          /\ k = live[call[r].handle].key /\ event = call[r].event
          /\ live[call[r].handle] \in LiveRecord
          /\ sessions[k] # NoRow
          /\ sessions' = [sessions EXCEPT ![k] = AppendedRow(@, eventToProto(event))]
          /\ Store!MergeScoped(k, eventToProto(event).delta)
          /\ live' = live
    BY StoreEffect
<1>2. pc' = [pc EXCEPT ![r] = "apply"] /\ call' = call
    BY DEF StoreEvent, Alone
<1>3. PICK h \in Handle : h = call[r].handle
    BY <1>1 DEF AppendCall
<1> DEFINE stored == eventToProto(event)
           state == live[h].state
<1>4. /\ stored \in Event /\ stored.delta = trimTempKeys(event.delta)
      /\ stored.timestamp = event.timestamp
      /\ event.delta \in Maps(StateKey)
    BY StoredEventTyping DEF ListedEvent, eventToProto
<1>5. trimTempKeys(stored.delta) = stored.delta
    BY <1>4, TrimOnce
<1>6. state \in Maps(StateKey)
    BY <1>1, <1>3 DEF LiveRecord
<1>7. \A q \in Runner : pc[q] # "apply"
    BY <1>1 DEF Alone
<1>8. Shows(state, k)
    BY <1>1, <1>3, <1>7, NotOpenAssumption DEF AloneInv, UpToDateOK
<1> HIDE DEF stored
<1>9. /\ View(k)' = mergedState(View(k), stored.delta)
      /\ sessions'[k].updateTime = event.timestamp
    BY <1>1, <1>4, <1>5, StoredView DEF stored
<1>10. trimTempKeys(mergedState(state, event.delta)) = mergedState(View(k), stored.delta)
    BY <1>4, <1>6, <1>8, TrimMerged DEF Shows
<1>11. pc'[r] = "apply"
    BY <1>2 DEF LiveTypeOK
<1>12. QED
    BY <1>1, <1>2, <1>3, <1>9, <1>10, <1>11 DEF ArrivingOK, Shows

LEMMA AloneApplies ==
    ASSUME LiveTypeOK, AloneInv, NEW r \in Runner, ApplyEvent(r), NEW h \in Handle,
           h = call[r].handle
    PROVE  UpToDateOK(h)'
<1>1. /\ live[h] \in LiveRecord /\ pc[r] = "apply" /\ UNCHANGED tables
      /\ call[r].event \in ListedEvent
    BY PendingTyping DEF ApplyEvent
<1>2. PICK k \in Key, event \in ListedEvent : k = live[h].key /\ event = call[r].event
    BY <1>1 DEF LiveRecord
<1>3. live' = [live EXCEPT ![h] = appendEvent(live[h], event)]
    BY <1>2, ApplyEventTyping
<1>4. /\ live'[h].key = k
      /\ live'[h].state = mergedState(live[h].state, event.delta)
    BY <1>1, <1>2, <1>3, AppendedSessionTyping DEF LiveTypeOK
<1>5. live'[h].updateTime = event.timestamp
    BY <1>1, <1>3 DEF appendEvent, LiveTypeOK, LiveRecord
<1>6. sessions[k] # NoRow => /\ Shows(mergedState(live[h].state, event.delta), k)
                             /\ event.timestamp = sessions[k].updateTime
    BY <1>1, <1>2 DEF AloneInv, ArrivingOK
<1>7. View(k)' = View(k) /\ sessions'[k] = sessions[k]
    BY <1>1 DEF View, tables
<1>8. QED
    BY <1>4, <1>5, <1>6, <1>7 DEF UpToDateOK, Shows

(* A step that keeps the rows of a session that is still there. *)
LEMMA AloneFrame ==
    ASSUME LiveTypeOK, AloneInv,
           \A k \in Key : sessions'[k] # NoRow => sessions'[k] = sessions[k],
           UNCHANGED <<appStates, userStates>>
    PROVE  /\ \A h \in Handle : /\ live'[h] # NotOpen => live'[h] = live[h]
                                /\ \A r \in Runner : pc[r] = "apply" <=> pc'[r] = "apply"
                                => UpToDateOK(h)'
           /\ \A r \in Runner : /\ pc'[r] = "apply" =>
                                       /\ pc[r] = "apply" /\ call'[r] = call[r]
                                       /\ live'[call[r].handle] = live[call[r].handle]
                                => ArrivingOK(r)'
           /\ \A r \in Runner : /\ pc'[r] \in {"scoped", "events"} =>
                                       pc'[r] = pc[r] /\ call'[r] = call[r]
                                => ReadOK(r)'
<1>1. ASSUME NEW k \in Key, sessions'[k] # NoRow
      PROVE  View(k)' = View(k) /\ sessions'[k] = sessions[k]
    BY <1>1 DEF View
<1>2. ASSUME NEW h \in Handle, live'[h] # NotOpen => live'[h] = live[h],
             \A r \in Runner : pc[r] = "apply" <=> pc'[r] = "apply"
      PROVE  UpToDateOK(h)'
    <2>1. live[h] # NotOpen => live[h].key \in Key
        BY DEF LiveTypeOK, LiveRecord
    <2>2. QED
        BY <1>1, <1>2, <2>1 DEF AloneInv, UpToDateOK, Shows
<1>3. ASSUME NEW r \in Runner,
             pc'[r] = "apply" => /\ pc[r] = "apply" /\ call'[r] = call[r]
                                 /\ live'[call[r].handle] = live[call[r].handle]
      PROVE  ArrivingOK(r)'
    BY <1>1, <1>3, PendingTyping DEF AloneInv, ArrivingOK, Shows
<1>4. ASSUME NEW r \in Runner,
             pc'[r] \in {"scoped", "events"} => pc'[r] = pc[r] /\ call'[r] = call[r]
      PROVE  ReadOK(r)'
    <2>1. pc[r] \in {"scoped", "events"} => call[r].key \in Key
        BY DEF LiveTypeOK, GetCall
    <2>2. QED
        BY <1>1, <1>4, <2>1 DEF AloneInv, ReadOK
<1>5. QED
    BY <1>2, <1>3, <1>4

LEMMA AloneStep == Alone /\ LiveTypeOK /\ AloneInv /\ [Next]_vars => AloneInv'
<1> SUFFICES ASSUME Alone, LiveTypeOK, AloneInv, [Next]_vars
             PROVE  AloneInv'
    OBVIOUS
<1>1. TablesOK'
    BY TablesStep
<1>2. PICK me \in Runner, mine \in Handle : Runner = {me} /\ Handle = {mine}
    BY DEF Alone
<1>3. ASSUME UpToDateOK(mine)', ArrivingOK(me)', ReadOK(me)'
      PROVE  AloneInv'
    BY <1>2, <1>3 DEF AloneInv
<1> DEFINE RowsKept == /\ \A k \in Key : sessions'[k] # NoRow => sessions'[k] = sessions[k]
                       /\ UNCHANGED <<appStates, userStates>>
<1>4. ASSUME NEW k \in Key, NEW d \in CreateState, Create(me, mine, k, d)
      PROVE  AloneInv'
    <2>1. UpToDateOK(mine)'
        BY <1>1, <1>4, AloneOpens
    <2>2. pc'[me] = "idle"
        BY <1>4 DEF Create
    <2>3. QED
        BY <1>3, <2>1, <2>2 DEF ArrivingOK, ReadOK
<1>5. ASSUME NEW k \in Key, NEW request \in GetRequest, Get(me, k, request)
      PROVE  AloneInv'
    <2>1. /\ pc[me] = "idle" /\ pc'[me] = "scoped" /\ live' = live /\ UNCHANGED tables
          /\ call'[me].row = sessions[k] /\ call'[me].key = k
          /\ call'[me].snapshot = SnapshotOf(k)
        BY <1>5 DEF Get, LiveTypeOK
    <2>2. ReadOK(me)'
        BY <2>1 DEF ReadOK, SnapshotOf, tables
    <2>3. RowsKept
        BY <2>1 DEF tables
    <2>4. UpToDateOK(mine)' /\ ArrivingOK(me)'
        BY <1>2, <2>1, <2>3, AloneFrame
    <2>5. QED
        BY <1>3, <2>2, <2>4
<1>6. ASSUME GetScoped(me)
      PROVE  AloneInv'
    <2>1. /\ call[me] \in GetCall /\ pc[me] = "scoped" /\ pc'[me] = "events"
          /\ live' = live /\ UNCHANGED tables
        BY <1>6 DEF GetScoped, LiveTypeOK
    <2>2. /\ call'[me].key = call[me].key /\ call'[me].row = call[me].row
          /\ call'[me].snapshot = call[me].snapshot
          /\ call'[me].app = call[me].snapshot.app /\ call'[me].user = call[me].snapshot.user
        BY <1>6, <2>1, GetScopedTyping DEF GetCall
    <2>3. ReadOK(me)'
        BY <2>1, <2>2 DEF AloneInv, ReadOK, tables
    <2>4. RowsKept
        BY <2>1 DEF tables
    <2>5. UpToDateOK(mine)' /\ ArrivingOK(me)'
        BY <1>2, <2>1, <2>4, AloneFrame
    <2>6. QED
        BY <1>3, <2>3, <2>5
<1>7. ASSUME GetEvents(me, mine)
      PROVE  AloneInv'
    <2>1. UpToDateOK(mine)'
        BY <1>7, AloneReads
    <2>2. pc'[me] = "idle"
        BY <1>7 DEF GetEvents, LiveTypeOK
    <2>3. QED
        BY <1>3, <2>1, <2>2 DEF ArrivingOK, ReadOK
<1>8. ASSUME StoreEvent(me)
      PROVE  AloneInv'
    <2>1. pc'[me] = "apply" /\ ArrivingOK(me)'
        BY <1>8, AloneStores
    <2>2. QED
        BY <1>3, <2>1 DEF UpToDateOK, ReadOK
<1>9. ASSUME ApplyEvent(me)
      PROVE  AloneInv'
    <2>1. call[me].handle = mine
        BY <1>2, <1>9, PendingTyping DEF ApplyEvent
    <2>2. UpToDateOK(mine)'
        BY <1>9, <2>1, AloneApplies
    <2>3. pc'[me] = "idle"
        BY <1>9 DEF ApplyEvent, LiveTypeOK
    <2>4. QED
        BY <1>3, <2>2, <2>3 DEF ArrivingOK, ReadOK
<1>10. ASSUME (\E o \in Object : AppendEvent(me, mine, o)) \/ CallFails(me)
       PROVE  AloneInv'
    <2>1. /\ pc[me] # "apply" /\ pc'[me] \in {"store", "idle"}
          /\ live' = live /\ UNCHANGED tables
        BY <1>10 DEF AppendEvent, CallFails, LiveTypeOK
    <2>2. RowsKept
        BY <2>1 DEF tables
    <2>3. UpToDateOK(mine)' /\ ArrivingOK(me)' /\ ReadOK(me)'
        BY <1>2, <2>1, <2>2, AloneFrame
    <2>4. QED
        BY <1>3, <2>3
<1>11. ASSUME Close(mine)
       PROVE  AloneInv'
    <2>1. /\ UNCHANGED tables /\ pc' = pc /\ call' = call /\ live'[mine] = NotOpen
          /\ pc[me] = "apply" => call[me].handle # mine
        BY <1>11 DEF Close, LiveTypeOK
    <2>2. pc[me] # "apply"
        BY <1>2, <2>1, PendingTyping
    <2>3. RowsKept
        BY <2>1 DEF tables
    <2>4. UpToDateOK(mine)' /\ ArrivingOK(me)' /\ ReadOK(me)'
        BY <1>2, <2>1, <2>2, <2>3, AloneFrame
    <2>5. QED
        BY <1>3, <2>4
<1>12. CASE RowsKept /\ UNCHANGED <<live, pc, call>>
    <2>1. UpToDateOK(mine)' /\ ArrivingOK(me)' /\ ReadOK(me)'
        BY <1>2, <1>12, AloneFrame
    <2>2. QED
        BY <1>3, <2>1
<1>13. ASSUME NEW k \in DeletedKey, Delete(k)
       PROVE  AloneInv'
    <2>1. /\ sessions' = [sessions EXCEPT ![k] = NoRow]
          /\ UNCHANGED <<appStates, userStates, live, pc, call>>
        BY <1>13 DEF Delete, Store!Delete
    <2>2. RowsKept
        BY <2>1 DEF LiveTypeOK
    <2>3. QED
        BY <1>12, <2>1, <2>2
<1>14. CASE Tick \/ UNCHANGED vars
    <2>1. UNCHANGED <<sessions, appStates, userStates, live, pc, call>>
        BY <1>14 DEF Tick, vars, tables
    <2>2. QED
        BY <1>12, <2>1
<1>15. ~\E h \in Handle, n \in StateKey, value \in SetValue : Set(h, n, value)
    BY DEF Alone
<1>16. QED
    BY <1>2, <1>4, <1>5, <1>6, <1>7, <1>8, <1>9, <1>10, <1>11, <1>13, <1>14, <1>15 DEF Next

(* A single runner with a single live session sees its own writes: between *)
(* its calls, the view is what Get would read, as long as every answer of  *)
(* the store arrives.                                                      *)
THEOREM AloneIsUpToDate ==
    ASSUME Alone
    PROVE  Spec => []UpToDate
<1>1. Init => AloneInv
    BY DEF Init, AloneInv, UpToDateOK, ArrivingOK, ReadOK
<1>2. LiveTypeOK /\ AloneInv => UpToDate
    <2> SUFFICES ASSUME LiveTypeOK, AloneInv, NEW h \in Open,
                        \A r \in Runner : pc[r] = "apply" => call[r].handle # h,
                        sessions[live[h].key] # NoRow
                 PROVE  /\ Shows(live[h].state, live[h].key)
                        /\ live[h].updateTime = sessions[live[h].key].updateTime
        BY DEF UpToDate, Shows, View
    <2>1. h \in Handle /\ live[h] # NotOpen
        BY DEF Open
    <2>2. \A r \in Runner : pc[r] # "apply"
        BY <2>1, PendingTyping DEF Alone
    <2>3. QED
        BY <2>1, <2>2 DEF AloneInv, UpToDateOK
<1>3. LiveTypeOK /\ AloneInv /\ [Next]_vars => AloneInv'
    BY AloneStep
<1>4. QED
    BY <1>1, <1>2, <1>3, LiveTypeCorrect, PTL DEF Spec

-----------------------------------------------------------------------------
(* The options of Get. *)

(* Truncation takes off less than a microsecond and keeps the order. *)
LEMMA TruncateOrder ==
    ASSUME NEW t \in Nat
    PROVE  /\ Truncate(t) \in Int /\ Truncate(t) <= t /\ t < Truncate(t) + Micro
           /\ \A a \in Nat : a <= t => Truncate(a) <= Truncate(t)
<1>1. t % Micro \in 0 .. Micro - 1
    BY MicroAssumption
<1>2. \A a \in Nat : a <= t => a - (a % Micro) <= t - (t % Micro)
    BY MicroAssumption
<1>3. QED
    BY <1>1, <1>2, MicroAssumption DEF Truncate

(* The events of the rows that the query finds. *)
Found(rows, after) == {event \in EventsIn(rows) : Matches(event, after)}

(* An event at or after `after' is found, and none that is a microsecond   *)
(* or more before it.                                                      *)
LEMMA FoundTimes ==
    ASSUME NEW rows \in [EventID -> Event \cup {NoRow}], NEW after \in Nat,
           NEW event \in EventsIn(rows)
    PROVE  /\ event.timestamp >= after => event \in Found(rows, after)
           /\ event \in Found(rows, after) => event.timestamp > after - Micro
<1>1. event.timestamp \in Nat
    BY EventsInTyping DEF ListedEvent
<1>2. event.timestamp >= after => Truncate(event.timestamp) >= Truncate(after)
    BY <1>1, TruncateOrder
<1>3. Matches(event, after) => event.timestamp > after - Micro
    BY <1>1, TruncateOrder, MicroAssumption DEF Matches
<1>4. QED
    BY <1>2, <1>3 DEF Found, Matches

(* A sorted result has each row that was found, once. *)
LEMMA SortedComplete ==
    ASSUME NEW found, IsFiniteSet(found), NEW s \in [1 .. Cardinality(found) -> found],
           \A i, j \in 1 .. Cardinality(found) : s[i] = s[j] => i = j
    PROVE  \A x \in found : \E i \in 1 .. Cardinality(found) : s[i] = x
<1> DEFINE n == Cardinality(found)
<1>1. n \in Nat
    BY FS_CardinalityType
<1>2. s \in Injection(1 .. n, found)
    BY DEF Injection, IsInjective
<1>3. Cardinality(1 .. n) = n
    BY <1>1, FS_Interval
<1>4. s \in Surjection(1 .. n, found)
    BY <1>1, <1>2, <1>3, FS_Injection
<1>5. QED
    BY <1>4 DEF Surjection

(* With numRecent the query lists so many of the found events, as far as   *)
(* there are, and none is newer than one of these; else it lists all.      *)
LEMMA ListedFound ==
    ASSUME NEW rows \in [EventID -> Event \cup {NoRow}], NEW after \in Nat, NEW numRecent \in Nat,
           NEW listed \in listSessionEvents(rows, after, numRecent)
    PROVE  LET set == ToSet(listed)
               found == Found(rows, after)
           IN /\ set \subseteq found
              /\ numRecent > 0 => Cardinality(set) \in Nat /\ Cardinality(set) <= numRecent
              /\ \A event \in found \ set :
                    /\ numRecent > 0 /\ Cardinality(set) = numRecent
                    /\ \A other \in set : Truncate(other.timestamp) >= Truncate(event.timestamp)
<1> DEFINE found == Found(rows, after)
           size == Cardinality(found)
           limit == IF numRecent < size THEN numRecent ELSE size
           set == ToSet(listed)
<1>1. /\ IsFiniteSet(found) /\ found \subseteq ListedEvent /\ size \in Nat
      /\ \A a, b \in found : a.id = b.id => a = b
    BY EventsInTyping, FS_Subset, FS_CardinalityType DEF Found
<1>2. limit \in Nat /\ limit <= size
    BY <1>1
<1>3. \A a \in found : a.timestamp \in Nat /\ Truncate(a.timestamp) \in Int
    BY <1>1, TruncateOrder DEF ListedEvent
<1>4. set = {listed[i] : i \in DOMAIN listed}
    BY DEF ToSet
<1> HIDE DEF found, size, limit, set
<1>5. CASE ~(numRecent > 0)
    <2>1. /\ listed \in [1 .. size -> found]
          /\ \A i, j \in 1 .. size : i < j => Precedes(listed[i], listed[j])
        BY <1>5 DEF listSessionEvents, Sorted, Found, found, size
    <2>2. \A i, j \in 1 .. size : listed[i] = listed[j] => i = j
        <3>1. \A i \in 1 .. size : ~Precedes(listed[i], listed[i])
            BY <1>1, <2>1, PrecedesStrictly
        <3>2. \A i, j \in 1 .. size : i < j \/ j < i \/ i = j
            BY <1>1
        <3>3. QED
            BY <2>1, <3>1, <3>2
    <2>3. set = found
        <3>1. \A x \in found : \E i \in 1 .. size : listed[i] = x
            BY <1>1, <2>1, <2>2, SortedComplete DEF size
        <3>2. QED
            BY <1>4, <2>1, <3>1
    <2>4. QED
        BY <1>5, <2>3 DEF found, set
<1>6. CASE numRecent > 0
    <2>1. PICK newest \in [1 .. size -> found] :
              /\ \A i, j \in 1 .. size : i < j => Precedes(newest[j], newest[i])
              /\ listed = Reverse(SubSeq(newest, 1, limit))
        BY <1>6 DEF listSessionEvents, Sorted, NewestFirst, Found, found, size, limit
    <2>2. \A i, j \in 1 .. size : newest[i] = newest[j] => i = j
        <3>1. \A i \in 1 .. size : ~Precedes(newest[i], newest[i])
            BY <1>1, <2>1, PrecedesStrictly
        <3>2. \A i, j \in 1 .. size : i < j \/ j < i \/ i = j
            BY <1>1
        <3>3. QED
            BY <2>1, <3>1, <3>2
    <2>3. newest \in Seq(ListedEvent) /\ Len(newest) = size
        BY <1>1
    <2> DEFINE taken == SubSeq(newest, 1, limit)
               place(i) == (limit - i) + 1
    <2>4. /\ Len(taken) = limit
          /\ \A i \in 1 .. limit : taken[i] = newest[i]
        BY <1>1, <1>2, <2>3, SubSeqProperties
    <2> HIDE DEF taken
    <2>5. listed = [i \in 1 .. limit |-> taken[place(i)]]
        BY <2>1, <2>4 DEF Reverse, taken
    <2>6. \A i \in 1 .. limit : /\ place(i) \in 1 .. limit /\ place(i) \in 1 .. size
                                /\ place(place(i)) = i
        BY <1>1, <1>2
    <2> HIDE DEF place
    <2>7. DOMAIN listed = 1 .. limit /\ \A i \in 1 .. limit : listed[i] = newest[place(i)]
        BY <2>4, <2>5, <2>6
    <2>8. set = {newest[i] : i \in 1 .. limit}
        BY <1>4, <2>6, <2>7
    <2>9. Cardinality(set) = limit
        <3> DEFINE f == [i \in 1 .. limit |-> newest[i]]
        <3>1. \A i \in 1 .. limit : i \in 1 .. size
            BY <1>1, <1>2
        <3>2. f \in Bijection(1 .. limit, set)
            BY <2>2, <2>8, <3>1, Fun_IsBij
        <3>3. ExistsBijection(1 .. limit, set)
            BY <3>2, Fun_ExistsBij
        <3>4. IsFiniteSet(1 .. limit) /\ Cardinality(1 .. limit) = limit
            BY <1>2, FS_Interval
        <3>5. QED
            BY <3>3, <3>4, FS_Bijection
    <2>10. set \subseteq found
        BY <1>1, <1>2, <2>8
    <2>11. ASSUME NEW event \in found, event \notin set
           PROVE  /\ limit = numRecent
                  /\ \A other \in set : Truncate(other.timestamp) >= Truncate(event.timestamp)
        <3>1. PICK i \in 1 .. size : newest[i] = event
            BY <1>1, <2>1, <2>2, SortedComplete DEF size
        <3>2. limit < i
            BY <1>1, <1>2, <2>8, <2>11, <3>1
        <3>3. limit = numRecent
            BY <1>1, <1>2, <3>2 DEF limit
        <3>4. ASSUME NEW j \in 1 .. limit
              PROVE  Truncate(newest[j].timestamp) >= Truncate(event.timestamp)
            <4>1. j \in 1 .. size /\ j < i
                BY <1>1, <1>2, <3>2
            <4>2. Precedes(event, newest[j]) /\ newest[j] \in found
                BY <2>1, <3>1, <4>1
            <4>3. QED
                BY <1>3, <2>11, <4>2 DEF Precedes
        <3>5. QED
            BY <2>8, <3>3, <3>4
    <2>12. limit <= numRecent
        BY <1>1 DEF limit
    <2>13. QED
        BY <1>2, <1>6, <2>9, <2>10, <2>11, <2>12 DEF found, set
<1>7. QED
    BY <1>5, <1>6

(* The only step that returns a live session from Get is its last one. *)
LEMMA GetReturnsLast ==
    ASSUME LiveTypeOK, [Next]_vars, NEW r \in Runner, NEW h \in Handle, GetReturns(r, h)
    PROVE  GetEvents(r, h)
<1>1. /\ pc[r] = "events" /\ pc'[r] = "idle" /\ live'[h] # live[h]
      /\ pc = [x \in Runner |-> pc[x]]
    BY DEF GetReturns, LiveTypeOK
<1>2. ASSUME NEW x \in Runner, NEW g \in Handle, GetEvents(x, g)
      PROVE  GetEvents(r, h)
    <2>1. x = r
        BY <1>1, <1>2 DEF GetEvents
    <2>2. g = h
        BY <1>1, <1>2 DEF GetEvents, LiveTypeOK
    <2>3. QED
        BY <1>2, <2>1, <2>2
<1>3. ASSUME NEW x \in Runner, NEW g \in Handle, NEW o \in Object, AppendEvent(x, g, o)
      PROVE  FALSE
    <2>1. pc[x] = "idle" /\ pc' = [pc EXCEPT ![x] = "store"]
        BY <1>3, Zenon DEF AppendEvent
    <2>2. QED
        BY <1>1, <2>1
<1>4. \A x \in Runner, k \in Key, request \in GetRequest : ~Get(x, k, request)
    BY <1>1 DEF Get
<1>5. \A x \in Runner : ~GetScoped(x) /\ ~StoreEvent(x) /\ ~ApplyEvent(x)
    BY <1>1 DEF GetScoped, StoreEvent, ApplyEvent
<1>6. \A x \in Runner : ~CallFails(x)
    BY <1>1 DEF CallFails
<1>7. ~(UNCHANGED pc)
    BY <1>1
<1>8. /\ \A x \in Runner, g \in Handle, k \in Key, d \in CreateState : ~Create(x, g, k, d)
      /\ \A g \in Handle, n \in StateKey, value \in SetValue : ~Set(g, n, value)
      /\ \A g \in Handle : ~Close(g)
      /\ \A k \in DeletedKey : ~Delete(k)
      /\ ~Tick /\ ~UNCHANGED vars
    BY <1>7, Zenon DEF Create, Set, Close, Delete, Tick, vars
<1>9. QED
    BY <1>2, <1>3, <1>4, <1>5, <1>6, <1>8 DEF Next

(* Get returns what its options ask for, from any rows, whatever the other *)
(* runners do meanwhile and however long a microsecond is.                 *)
THEOREM GetAnswersItsRequest == Spec => GetReturnsWhatWasAsked
<1>1. ASSUME LiveTypeOK, [Next]_vars, NEW r \in Runner, NEW h \in Handle, GetReturns(r, h)
      PROVE  AnswersRequest(r, h)
    <2> DEFINE c == call[r]
               rows == c.snapshot.rows
    <2>1. GetEvents(r, h)
        BY <1>1, GetReturnsLast
    <2>2. c \in GetCall
        BY <1>1, <2>1 DEF GetEvents, LiveTypeOK
    <2>3. /\ rows \in [EventID -> Event \cup {NoRow}]
          /\ c.request.after \in Nat /\ c.request.numRecent \in Nat
        BY <2>2 DEF GetCall, Snapshot
    <2>4. PICK listed \in listSessionEvents(rows, c.request.after, c.request.numRecent) :
              live' = [live EXCEPT ![h] = newDatabaseSession(c.key, c.row, listed, c.app, c.user)]
        BY <2>1 DEF GetEvents, ReadFrom
    <2>5. live'[h].events = listed
        BY <1>1, <2>4 DEF newDatabaseSession, LiveTypeOK
    <2> DEFINE set == ToSet(listed)
               found == Found(rows, c.request.after)
    <2>6. /\ set \subseteq found
          /\ c.request.numRecent > 0 =>
                Cardinality(set) \in Nat /\ Cardinality(set) <= c.request.numRecent
          /\ \A event \in found \ set :
                /\ c.request.numRecent > 0 /\ Cardinality(set) = c.request.numRecent
                /\ \A other \in set : Truncate(other.timestamp) >= Truncate(event.timestamp)
        BY <2>3, <2>4, ListedFound
    <2>7. found \subseteq EventsIn(rows)
        BY DEF Found
    <2>8. \A event \in EventsIn(rows) :
             /\ event.timestamp >= c.request.after => event \in found
             /\ event \in found => event.timestamp > c.request.after - Micro
        BY <2>3, FoundTimes
    <2> HIDE DEF found
    <2>9. QED
        BY <2>5, <2>6, <2>7, <2>8 DEF AnswersRequest
<1>2. LiveTypeOK /\ [Next]_vars =>
          [\A r \in Runner, h \in Handle : GetReturns(r, h) => AnswersRequest(r, h)]_vars
    BY <1>1
<1>3. QED
    BY <1>2, LiveTypeCorrect, PTL DEF Spec, GetReturnsWhatWasAsked

(* Of two events in the query's order, the second is later or less than a  *)
(* microsecond earlier.                                                    *)
LEMMA PrecedesTimes ==
    ASSUME NEW a \in ListedEvent, NEW b \in ListedEvent, Precedes(a, b)
    PROVE  b.timestamp > a.timestamp - Micro
<1>1. a.timestamp \in Nat /\ b.timestamp \in Nat
    BY DEF ListedEvent
<1>2. Truncate(a.timestamp) <= Truncate(b.timestamp)
    BY <1>1, TruncateOrder DEF Precedes
<1>3. QED
    BY <1>1, <1>2, TruncateOrder, MicroAssumption

LEMMA ListedOrder ==
    ASSUME NEW rows \in [EventID -> Event \cup {NoRow}], NEW after \in Nat, NEW numRecent \in Nat,
           NEW listed \in listSessionEvents(rows, after, numRecent)
    PROVE  /\ \A i, j \in DOMAIN listed :
                 i < j => listed[j].timestamp > listed[i].timestamp - Micro
           /\ \E whole \in listSessionEvents(rows, after, 0) : IsSuffix(listed, whole)
<1> DEFINE found == {event \in EventsIn(rows) : Matches(event, after)}
           size == Cardinality(found)
           limit == IF numRecent < size THEN numRecent ELSE size
<1>1. found \subseteq ListedEvent /\ size \in Nat
    BY EventsInTyping, FS_Subset, FS_CardinalityType
<1>2. limit \in Nat /\ limit <= size
    BY <1>1
<1>3. listSessionEvents(rows, after, 0) =
          {s \in [1 .. size -> found] : \A i, j \in DOMAIN s : i < j => Precedes(s[i], s[j])}
    BY DEF listSessionEvents, Sorted
<1> HIDE DEF found, size, limit
<1>4. CASE ~(numRecent > 0)
    <2>1. /\ listed \in listSessionEvents(rows, after, 0)
          /\ listed \in [1 .. size -> found]
          /\ \A i, j \in DOMAIN listed : i < j => Precedes(listed[i], listed[j])
        BY <1>3, <1>4 DEF listSessionEvents, Sorted, found, size
    <2>2. \A i, j \in DOMAIN listed :
              i < j => listed[j].timestamp > listed[i].timestamp - Micro
        BY <1>1, <2>1, PrecedesTimes
    <2>3. IsSuffix(listed, listed)
        BY <1>1, <2>1 DEF IsSuffix, IsPrefix, Reverse
    <2>4. QED
        BY <2>1, <2>2, <2>3
<1>5. CASE numRecent > 0
    <2>1. PICK newest \in [1 .. size -> found] :
              /\ \A i, j \in 1 .. size : i < j => Precedes(newest[j], newest[i])
              /\ listed = Reverse(SubSeq(newest, 1, limit))
        BY <1>5 DEF listSessionEvents, Sorted, NewestFirst, found, size, limit
    <2> DEFINE taken == SubSeq(newest, 1, limit)
               place(i) == (limit - i) + 1
               from(i) == (size - i) + 1
               whole == [i \in 1 .. size |-> newest[from(i)]]
    <2>2. newest \in Seq(found) /\ Len(newest) = size
        BY <1>1
    <2>3. /\ taken \in Seq(found) /\ Len(taken) = limit
          /\ \A i \in 1 .. limit : taken[i] = newest[i]
        BY <1>1, <1>2, <2>2, SubSeqProperties
    <2> HIDE DEF taken
    <2>4. listed = [i \in 1 .. limit |-> taken[place(i)]]
        BY <2>1, <2>3 DEF Reverse, taken
    <2>5. \A i \in 1 .. limit : place(i) \in 1 .. limit /\ place(place(i)) = i
        BY <1>2
    <2>6. \A i \in 1 .. size : from(i) \in 1 .. size /\ from(from(i)) = i
        BY <1>1
    <2>7. \A i, j \in 1 .. size : i < j => from(j) < from(i)
        BY <1>1
    <2>8. \A i, j \in 1 .. limit : /\ i < j => place(j) < place(i)
                                   /\ place(i) \in 1 .. size
        BY <1>1, <1>2
    <2> HIDE DEF place, from
    <2>9. \A i \in 1 .. limit : listed[i] = newest[place(i)]
        BY <2>3, <2>4, <2>5
    <2>10. DOMAIN listed = 1 .. limit
        BY <2>4
    <2>11. \A i, j \in DOMAIN listed :
              i < j => listed[j].timestamp > listed[i].timestamp - Micro
        <3> SUFFICES ASSUME NEW i \in 1 .. limit, NEW j \in 1 .. limit, i < j
                     PROVE  listed[j].timestamp > listed[i].timestamp - Micro
            BY <2>10
        <3>1. Precedes(newest[place(i)], newest[place(j)])
            BY <2>1, <2>8
        <3>2. newest[place(i)] \in ListedEvent /\ newest[place(j)] \in ListedEvent
            BY <1>1, <2>1, <2>8
        <3>3. QED
            BY <2>9, <3>1, <3>2, PrecedesTimes
    <2>12. whole \in listSessionEvents(rows, after, 0)
        <3>1. whole \in [1 .. size -> found]
            BY <2>1, <2>6
        <3>2. \A i, j \in 1 .. size : i < j => Precedes(whole[i], whole[j])
            BY <2>1, <2>6, <2>7
        <3> HIDE DEF whole
        <3>3. QED
            BY <1>3, <3>1, <3>2
    <2>13. Reverse(whole) = newest
        <3>1. Len(whole) = size
            BY <1>1
        <3>2. \A i \in 1 .. size : whole[from(i)] = newest[i]
            BY <2>6
        <3> HIDE DEF whole
        <3>3. Reverse(whole) = [i \in 1 .. size |-> whole[from(i)]]
            BY <3>1 DEF Reverse, from
        <3>4. QED
            BY <2>1, <3>2, <3>3
    <2>14. Reverse(listed) = taken
        <3>1. Len(listed) = limit
            BY <1>2, <2>10, <2>4
        <3>2. Reverse(listed) = [i \in 1 .. limit |-> listed[place(i)]]
            BY <3>1 DEF Reverse, place
        <3>3. \A i \in 1 .. limit : listed[place(i)] = taken[i]
            BY <2>4, <2>5
        <3>4. taken = [i \in 1 .. limit |-> taken[i]]
            BY <2>3
        <3>5. QED
            BY <3>2, <3>3, <3>4
    <2>15. IsSuffix(listed, whole)
        <3>1. SubSeq(taken, 1, Len(taken)) = taken
            BY <1>2, <2>3
        <3>2. QED
            BY <1>2, <2>2, <2>3, <2>13, <2>14, <3>1 DEF IsSuffix, IsPrefix, taken
    <2>16. QED
        BY <2>11, <2>12, <2>15
<1>6. QED
    BY <1>4, <1>5

(* Get lists its events in the order of their times, and a limited list is *)
(* the end of the unlimited one, whatever times and IDs the events have.   *)
THEOREM GetKeepsOrder == Spec => GetListsInOrder
<1>1. ASSUME LiveTypeOK, [Next]_vars, NEW r \in Runner, NEW h \in Handle, GetReturns(r, h)
      PROVE  ListsInOrder(r, h)
    <2> DEFINE c == call[r]
               rows == c.snapshot.rows
    <2>1. GetEvents(r, h)
        BY <1>1, GetReturnsLast
    <2>2. c \in GetCall
        BY <1>1, <2>1 DEF GetEvents, LiveTypeOK
    <2>3. /\ rows \in [EventID -> Event \cup {NoRow}]
          /\ c.request.after \in Nat /\ c.request.numRecent \in Nat
        BY <2>2 DEF GetCall, Snapshot
    <2>4. PICK listed \in listSessionEvents(rows, c.request.after, c.request.numRecent) :
              live' = [live EXCEPT ![h] = newDatabaseSession(c.key, c.row, listed, c.app, c.user)]
        BY <2>1 DEF GetEvents, ReadFrom
    <2>5. live'[h].events = listed
        BY <1>1, <2>4 DEF newDatabaseSession, LiveTypeOK
    <2>6. QED
        BY <2>3, <2>4, <2>5, ListedOrder DEF ListsInOrder
<1>2. LiveTypeOK /\ [Next]_vars =>
          [\A r \in Runner, h \in Handle : GetReturns(r, h) => ListsInOrder(r, h)]_vars
    BY <1>1
<1>3. QED
    BY <1>2, LiveTypeCorrect, PTL DEF Spec, GetListsInOrder
=============================================================================
