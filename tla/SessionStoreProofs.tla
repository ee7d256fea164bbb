-------------------------- MODULE SessionStoreProofs --------------------------
(***************************************************************************)
(* Theorems about SessionStore, for any number of concurrent calls and any *)
(* sets of sessions, users, keys and values.                               *)
(***************************************************************************)
EXTENDS SessionStore, SessionTablesProofs

-----------------------------------------------------------------------------
(* Types of what the actions compute. *)

LEMMA ExpireTimeTyping ==
    ASSUME NEW expiration \in Expiration, now \in Nat
    PROVE  ExpireTime(expiration) \in Nat \cup {NoExpiration}
BY DEF Expiration, ExpireTime

LEMMA NewRowTyping ==
    ASSUME NEW in \in Input, now \in Nat
    PROVE  normalizeSession(in) \in Session
<1>1. ExpireTime(in.expiration) \in Nat \cup {NoExpiration}
    BY ExpireTimeTyping DEF Input
<1>2. SessionPart(in.state) \in Maps(SessionVar)
    BY SplitTyping DEF Input
<1>3. QED
    BY <1>1, <1>2 DEF normalizeSession, Session, Input

LEMMA MaskedRowTyping ==
    ASSUME NEW req \in UpdateInput, NEW row \in Session, now \in Nat
    PROVE  /\ MaskedRow(req, row) \in Session
           /\ MaskedDelta(req) \in Maps(StateKey)
<1>1. req.session \in Input
    BY UpdateInputAssumption
<1>2. ExpireTime(req.session.expiration) \in Nat \cup {NoExpiration}
    BY <1>1, ExpireTimeTyping DEF Input
<1>3. MaskedExpiration(req, row) \in Nat \cup {NoExpiration}
    BY <1>2 DEF MaskedExpiration, Session
<1>4. SessionPart(req.session.state) \in Maps(SessionVar)
    BY <1>1, SplitTyping DEF Input
<1>5. MaskedRow(req, row) \in Session
    BY <1>1, <1>3, <1>4 DEF MaskedRow, Session, Input
<1>6. QED
    BY <1>1, <1>5, EmptyMapTyping DEF MaskedDelta, Input

LEMMA NewCallTyping ==
    ASSUME NEW op \in {"create", "append", "update", "delete"}, NEW k \in Key,
           NEW e \in EventID \cup {NoRow}, NEW t \in Nat, NEW d \in Maps(StateKey),
           NEW row \in Session \cup {NoRow}
    PROVE  NewCall(op, k, e, t, d, row) \in Call
BY EmptyMapTyping DEF NewCall, Call

-----------------------------------------------------------------------------
(* Type correctness. *)

LEMMA InitTypeOK == Init => TypeOK
<1>1. \A S : EmptyMap(S) \in Maps(S)
    BY EmptyMapTyping
<1>2. QED
    BY <1>1 DEF Init, TypeOK, NoEvents, Code

(* Starting a call keeps the types if its local variables are what its     *)
(* position requires.                                                      *)
LEMMA StartTypeOK ==
    ASSUME TypeOK, NEW p \in Proc, NEW c, NEW at \in {"txn", "apply"},
           Start(p, c, at), Ready(c, at)
    PROVE  TypeOK'
BY DEF TypeOK, Start, tables, Ready, Code

LEMMA AnswerTypeOK ==
    ASSUME TypeOK, NEW p \in Proc, NEW codes \in SUBSET Code, Answer(p, codes),
           sessions' \in [Key -> Session \cup {NoRow}],
           events' \in [Key -> [EventID -> Event \cup {NoRow}]],
           appStates' \in [App -> Maps(AppVar)],
           userStates' \in [App \X User -> Maps(UserVar)]
    PROVE  TypeOK'
BY DEF TypeOK, Answer, Ready

LEMMA FailTypeOK ==
    ASSUME TypeOK, NEW p \in Proc, NEW code \in Code, Fail(p, code)
    PROVE  TypeOK'
<1>1. {code} \in SUBSET Code
    OBVIOUS
<1>2. Answer(p, {code}) /\ UNCHANGED tables
    BY DEF Fail
<1>3. QED
    BY <1>1, <1>2, AnswerTypeOK DEF tables, TypeOK

LEMMA AppendCallReady ==
    ASSUME NEW k \in Key, NEW e \in EventID, NEW t \in Nat, NEW d \in AppendDelta
    PROVE  Ready(AppendCall(k, e, t, d), "txn")
<1>1. trimTempKeys(d) \in Maps(StateKey)
    BY AppendDeltaAssumption, SplitTyping
<1>2. trimTempKeys(trimTempKeys(d)) = trimTempKeys(d)
    BY DEF trimTempKeys
<1>3. AppendCall(k, e, t, d) \in Call
    BY <1>1, NewCallTyping DEF AppendCall
<1>4. QED
    BY <1>2, <1>3 DEF Ready, AppendCall, NewCall

LEMMA DeleteCallReady ==
    ASSUME NEW k \in Key, now \in Nat
    PROVE  Ready(DeleteCall(k), "apply")
<1>1. DeleteCall(k) \in Call
    BY NewCallTyping, EmptyMapTyping DEF DeleteCall
<1>2. QED
    BY <1>1 DEF Ready, DeleteCall, NewCall

LEMMA KeysWithIDAreKeys == \A sid : KeysWithID(sid) \subseteq Key
BY DEF KeysWithID

LEMMA HandlerTypeOK ==
    ASSUME TypeOK, NEW p \in Proc, Handler(p)
    PROVE  TypeOK'
<1> now \in Nat
    BY DEF TypeOK
<1>1. ASSUME NEW k \in Key, NEW in \in CreateInput, CreateSession(p, k, in)
      PROVE  TypeOK'
    <2> DEFINE c == NewCall("create", k, NoRow, now, in.state, normalizeSession(in))
    <2>1. in \in Input /\ in.state \in Maps(StateKey)
        BY CreateInputAssumption DEF Input
    <2>2. normalizeSession(in) \in Session
        BY <2>1, NewRowTyping
    <2>3. c \in Call
        BY <2>1, <2>2, NewCallTyping
    <2>4. Ready(c, "txn")
        BY <2>2, <2>3 DEF Ready, NewCall, normalizeSession
    <2>5. Start(p, c, "txn")
        BY <1>1 DEF CreateSession
    <2> HIDE DEF c
    <2>6. QED
        BY <2>4, <2>5, StartTypeOK
<1>2. ASSUME NEW k \in Key, NEW req \in UpdateInput, UpdateSession(p, k, req)
      PROVE  TypeOK'
    <2> DEFINE c == NewCall("update", k, NoRow, now, MaskedDelta(req),
                            MaskedRow(req, sessions[k]))
    <2>1. CASE sessions[k] # NoRow /\ SupportedMask(req)
        <3>1. sessions[k] \in Session
            BY <2>1 DEF TypeOK
        <3>2. MaskedRow(req, sessions[k]) \in Session /\ MaskedDelta(req) \in Maps(StateKey)
            BY <3>1, MaskedRowTyping
        <3>3. c \in Call
            BY <3>2, NewCallTyping
        <3>4. Ready(c, "txn")
            BY <3>2, <3>3 DEF Ready, NewCall
        <3>5. Start(p, c, "txn")
            BY <1>2, <2>1 DEF UpdateSession
        <3> HIDE DEF c
        <3>6. QED
            BY <3>4, <3>5, StartTypeOK
    <2>2. CASE ~(sessions[k] # NoRow /\ SupportedMask(req))
        <3>1. PICK code \in Code : Fail(p, code)
            BY <1>2, <2>2 DEF UpdateSession, Code
        <3>2. QED
            BY <3>1, FailTypeOK
    <2>3. QED
        BY <2>1, <2>2
<1>3. ASSUME NEW e \in EventID, NEW t \in SuppliedTime \cup {now}, NEW d \in AppendDelta,
             NEW sid \in SessionID, GrpcAppendEvent(p, sid, e, t, d)
      PROVE  TypeOK'
    <2>1. PICK k \in Key : Start(p, AppendCall(k, e, t, d), "txn")
        BY <1>3, KeysWithIDAreKeys DEF GrpcAppendEvent
    <2>2. Ready(AppendCall(k, e, t, d), "txn")
        BY AppendCallReady, TimeAssumption
    <2>3. QED
        BY <2>1, <2>2, StartTypeOK
<1>4. ASSUME NEW e \in EventID, NEW t \in SuppliedTime \cup {now}, NEW d \in AppendDelta,
             NEW k \in Key, AdkAppendEvent(p, k, e, t, d)
      PROVE  TypeOK'
    <2>1. Ready(AppendCall(k, e, t, d), "txn")
        BY AppendCallReady, TimeAssumption
    <2>2. QED
        BY <1>4, <2>1, StartTypeOK DEF AdkAppendEvent
<1>5. ASSUME NEW sid \in SessionID, DeleteSession(p, sid)
      PROVE  TypeOK'
    <2>1. PICK k \in Key : Start(p, DeleteCall(k), "apply")
        BY <1>5, KeysWithIDAreKeys DEF DeleteSession
    <2>2. QED
        BY <2>1, DeleteCallReady, StartTypeOK
<1>6. ASSUME NEW sid \in SessionID, NameNotResolved(p, sid)
      PROVE  TypeOK'
    <2>1. PICK code \in Code : Fail(p, code)
        BY <1>6 DEF NameNotResolved, Code
    <2>2. QED
        BY <2>1, FailTypeOK
<1>7. ASSUME NEW k \in Key, AdkDelete(p, k)
      PROVE  TypeOK'
    BY <1>7, DeleteCallReady, StartTypeOK DEF AdkDelete
<1>8. ASSUME RejectArguments(p)
      PROVE  TypeOK'
    BY <1>8, FailTypeOK DEF RejectArguments, Code
<1>9. QED
    BY <1>1, <1>2, <1>3, <1>4, <1>5, <1>6, <1>7, <1>8 DEF Handler

LEMMA RunClosureTypeOK ==
    ASSUME TypeOK, NEW p \in Proc, RunClosure(p)
    PROVE  TypeOK'
<1>1. CASE SessionMissing(p)
    BY <1>1, FailTypeOK DEF RunClosure, Code
<1>2. CASE ~SessionMissing(p)
    <2> DEFINE k == call[p].key
               row == IF call[p].op = "append" THEN sessions[k] ELSE call[p].row
               c == [call[p] EXCEPT !.app = appStates[AppOf(k)],
                                    !.user = userStates[UserOf(k)], !.row = row]
    <2>1. Ready(call[p], pc[p]) /\ pc[p] \in {"txn", "commit"}
        BY <1>2 DEF TypeOK, RunClosure
    <2>2. call[p] \in Call /\ call[p].op \in {"create", "append", "update"} /\ k \in Key
        BY <2>1 DEF Ready, Call
    <2>3. row \in Session
        <3>1. sessions[k] \in Session \cup {NoRow}
            BY <2>2 DEF TypeOK
        <3>2. CASE call[p].op = "append"
            BY <1>2, <3>1, <3>2 DEF SessionMissing
        <3>3. CASE call[p].op # "append"
            BY <2>1, <2>2, <3>3 DEF Ready
        <3>4. QED
            BY <3>2, <3>3
    <2>4. appStates[AppOf(k)] \in Maps(AppVar) /\ userStates[UserOf(k)] \in Maps(UserVar)
        BY <2>2, KeyParts DEF TypeOK
    <2>5. /\ c \in Call
          /\ c.op = call[p].op /\ c.event = call[p].event /\ c.delta = call[p].delta
          /\ c.row = row
        <3> HIDE DEF row, k
        <3>1. QED
            BY <2>2, <2>3, <2>4 DEF Call
    <2>6. Ready(c, "commit")
        BY <2>1, <2>2, <2>3, <2>5 DEF Ready
    <2>7. /\ pc' = [pc EXCEPT ![p] = "commit"]
          /\ call' = [call EXCEPT ![p] = c]
          /\ UNCHANGED <<tables, now, ret>>
        BY <1>2 DEF RunClosure, ReadRows
    <2> HIDE DEF c
    <2>8. QED
        BY <2>6, <2>7 DEF TypeOK, tables, Ready
<1>3. QED
    BY <1>1, <1>2

-----------------------------------------------------------------------------
(* What a commit does to the tables, stated over the tables alone: each of *)
(* the three read-write transactions acts on the rows as they are stored   *)
(* at its commit, because ReadsCurrent lets it commit only then.           *)

CreateEffect(k, d, row) ==
    /\ sessions[k] = NoRow
    /\ sessions' = [sessions EXCEPT ![k] = row]
    /\ events' = events
    /\ appStates' = PutAppState(appStates, k, appStates[AppOf(k)], d)
    /\ userStates' = PutUserState(userStates, k, userStates[UserOf(k)], d)

AppendEffect(k, e, event) ==
    /\ sessions[k] \in Session
    /\ events[k][e] = NoRow
    /\ sessions' = [sessions EXCEPT ![k] = AppendedRow(sessions[k], event)]
    /\ events' = [events EXCEPT ![k][e] = event]
    /\ appStates' = PutAppState(appStates, k, appStates[AppOf(k)], event.delta)
    /\ userStates' = PutUserState(userStates, k, userStates[UserOf(k)], event.delta)

UpdateEffect(k, d, row) ==
    /\ sessions' = [sessions EXCEPT ![k] = row]
    /\ events' = events
    /\ appStates' = PutAppState(appStates, k, appStates[AppOf(k)], d)
    /\ userStates' = PutUserState(userStates, k, userStates[UserOf(k)], d)

DeleteEffect(k) ==
    /\ sessions' = [sessions EXCEPT ![k] = NoRow]
    /\ events' = [events EXCEPT ![k] = NoEvents]
    /\ UNCHANGED <<appStates, userStates>>

(* Call p commits delta d for key k in this step and returns. *)
Effect(p) ==
    \E k \in Key, d \in Maps(StateKey) :
        \/ /\ Commits(p, k, d)
           /\ \/ \E row \in Session :
                    /\ \/ /\ CreateEffect(k, d, row) /\ row.state = SessionPart(d)
                          /\ call[p].op = "create"
                       \/ UpdateEffect(k, d, row) /\ call[p].op = "update"
              \/ \E e \in EventID, t \in Nat :
                    /\ d = trimTempKeys(d)
                    /\ AppendEffect(k, e, [delta |-> d, timestamp |-> t])
        \/ DeleteEffect(k)

(* The four things a step can do to the tables, without who did it. *)
LEMMA EffectCases ==
    ASSUME NEW p \in Proc, Effect(p)
    PROVE  \E k \in Key, d \in Maps(StateKey) :
             \/ \E row \in Session : CreateEffect(k, d, row) /\ row.state = SessionPart(d)
             \/ \E row \in Session : UpdateEffect(k, d, row) /\ call[p].op = "update"
             \/ \E e \in EventID, t \in Nat :
                   /\ d = trimTempKeys(d)
                   /\ AppendEffect(k, e, [delta |-> d, timestamp |-> t])
             \/ DeleteEffect(k)
BY DEF Effect

(* Where events change. *)
LEMMA EventsChange ==
    ASSUME TypeOK, NEW p \in Proc, Effect(p)
    PROVE  \/ events' = events
           \/ \E k \in Key : DeleteEffect(k)
           \/ \E k \in Key, e \in EventID, d \in Maps(StateKey), t \in Nat :
                 /\ d = trimTempKeys(d)
                 /\ AppendEffect(k, e, [delta |-> d, timestamp |-> t])
BY EffectCases DEF CreateEffect, UpdateEffect

LEMMA CommitCreateEffect ==
    ASSUME TypeOK, NEW p \in Proc, CommitCreate(p)
    PROVE  LET c == call[p]
           IN \/ SessionExists(c.key) /\ Fail(p, "AlreadyExists")
              \/ CreateEffect(c.key, c.delta, c.row) /\ Reply(p) /\ Effect(p)
<1> DEFINE k == call[p].key
           d == call[p].delta
           row == call[p].row
<1>1. pc[p] = "commit" /\ Ready(call[p], "commit") /\ call[p].op = "create"
    BY DEF CommitCreate, CanCommit, TypeOK
<1>2. k \in Key /\ d \in Maps(StateKey) /\ row \in Session /\ row.state = SessionPart(d)
    BY <1>1 DEF Ready, Call
<1>3. call[p].app = appStates[AppOf(k)] /\ call[p].user = userStates[UserOf(k)]
    BY <1>1 DEF CommitCreate, CanCommit, ReadsCurrent, ReadThroughTxn
<1>4. CASE SessionExists(k)
    BY <1>4 DEF CommitCreate
<1>5. CASE ~SessionExists(k)
    <2>1. CreateEffect(k, d, row)
        BY <1>3, <1>5 DEF CommitCreate, CreateEffect, WriteScoped, SessionExists
    <2>2. Commits(p, k, d)
        BY <1>1, <1>5 DEF CommitCreate, Reply, Answer, Commits, TypeOK
    <2> HIDE DEF k, d, row
    <2>3. Effect(p)
        BY <1>1, <1>2, <2>1, <2>2 DEF Effect
    <2>4. QED
        BY <1>5, <2>1, <2>3 DEF CommitCreate, k, d, row
<1>6. QED
    BY <1>4, <1>5

LEMMA CommitAppendEffect ==
    ASSUME TypeOK, NEW p \in Proc, CommitAppend(p)
    PROVE  LET c == call[p]
               event == [delta |-> c.delta, timestamp |-> c.time]
           IN \/ EventExists(c.key, c.event) /\ Fail(p, "AlreadyExists")
              \/ AppendEffect(c.key, c.event, event) /\ Reply(p) /\ Effect(p)
<1> DEFINE k == call[p].key
           e == call[p].event
           d == call[p].delta
           event == [delta |-> d, timestamp |-> call[p].time]
<1>1. pc[p] = "commit" /\ Ready(call[p], "commit") /\ call[p].op = "append"
    BY DEF CommitAppend, CanCommit, TypeOK
<1>2. /\ k \in Key /\ e \in EventID /\ d \in Maps(StateKey) /\ call[p].time \in Nat
      /\ d = trimTempKeys(d) /\ call[p].row \in Session
    BY <1>1 DEF Ready, Call
<1>3. /\ call[p].app = appStates[AppOf(k)] /\ call[p].user = userStates[UserOf(k)]
      /\ call[p].row = sessions[k]
    BY <1>1 DEF CommitAppend, CanCommit, ReadsCurrent, ReadThroughTxn
<1>4. CASE EventExists(k, e)
    BY <1>4 DEF CommitAppend
<1>5. CASE ~EventExists(k, e)
    <2>1. AppendEffect(k, e, event)
        BY <1>2, <1>3, <1>5 DEF CommitAppend, AppendEffect, WriteScoped, EventExists
    <2>2. Commits(p, k, d)
        BY <1>1, <1>5 DEF CommitAppend, Reply, Answer, Commits, TypeOK
    <2> HIDE DEF k, e, d
    <2>3. Effect(p)
        BY <1>2, <2>1, <2>2 DEF Effect
    <2>4. QED
        BY <1>5, <2>1, <2>3 DEF CommitAppend, k, e, d
<1>6. QED
    BY <1>4, <1>5

LEMMA CommitUpdateEffect ==
    ASSUME TypeOK, NEW p \in Proc, CommitUpdate(p)
    PROVE  /\ UpdateEffect(call[p].key, call[p].delta, call[p].row)
           /\ Reply(p) /\ Effect(p)
<1> DEFINE k == call[p].key
           d == call[p].delta
           row == call[p].row
<1>1. pc[p] = "commit" /\ Ready(call[p], "commit") /\ call[p].op = "update"
    BY DEF CommitUpdate, CanCommit, TypeOK
<1>2. k \in Key /\ d \in Maps(StateKey) /\ row \in Session
    BY <1>1 DEF Ready, Call
<1>3. call[p].app = appStates[AppOf(k)] /\ call[p].user = userStates[UserOf(k)]
    BY <1>1 DEF CommitUpdate, CanCommit, ReadsCurrent, ReadThroughTxn
<1>4. UpdateEffect(k, d, row)
    BY <1>3 DEF CommitUpdate, UpdateEffect, WriteScoped
<1>5. Commits(p, k, d)
    BY <1>1 DEF CommitUpdate, Reply, Answer, Commits, TypeOK
<1> HIDE DEF k, d, row
<1>6. Effect(p)
    BY <1>1, <1>2, <1>4, <1>5 DEF Effect
<1>7. QED
    BY <1>4, <1>6 DEF CommitUpdate, k, d, row

LEMMA ApplyDeleteEffect ==
    ASSUME TypeOK, NEW p \in Proc, ApplyDelete(p)
    PROVE  DeleteEffect(call[p].key) /\ Reply(p) /\ Effect(p)
<1>1. call[p].key \in Key
    BY DEF ApplyDelete, TypeOK, Ready, Call
<1>2. DeleteEffect(call[p].key)
    BY DEF ApplyDelete, DeleteEffect
<1>3. \E d \in Maps(StateKey) : TRUE
    BY EmptyMapTyping
<1>4. QED
    BY <1>1, <1>2, <1>3 DEF Effect, ApplyDelete

(* No other step touches a table. *)
LEMMA StepEffect ==
    ASSUME TypeOK, [Next]_vars
    PROVE  UNCHANGED tables \/ \E p \in Proc : Effect(p)
<1>1. CASE UNCHANGED vars \/ Tick
    BY <1>1 DEF vars, tables, Tick
<1>2. ASSUME NEW p \in Proc, Handler(p)
      PROVE  UNCHANGED tables
    BY <1>2 DEF Handler, CreateSession, UpdateSession, GrpcAppendEvent, AdkAppendEvent,
                DeleteSession, NameNotResolved, AdkDelete, RejectArguments, Start, Fail
<1>3. ASSUME NEW p \in Proc, RunClosure(p) \/ GiveUp(p)
      PROVE  UNCHANGED tables
    BY <1>3 DEF RunClosure, ReadRows, GiveUp, Fail
<1>4. ASSUME NEW p \in Proc, Transaction(p)
      PROVE  UNCHANGED tables \/ Effect(p)
    BY <1>3, <1>4, CommitCreateEffect, CommitAppendEffect, CommitUpdateEffect,
       ApplyDeleteEffect DEF Transaction, Fail
<1>5. QED
    BY <1>1, <1>2, <1>3, <1>4 DEF Next

LEMMA EffectTypes ==
    ASSUME TypeOK, NEW p \in Proc, Effect(p)
    PROVE  /\ sessions' \in [Key -> Session \cup {NoRow}]
           /\ events' \in [Key -> [EventID -> Event \cup {NoRow}]]
           /\ appStates' \in [App -> Maps(AppVar)]
           /\ userStates' \in [App \X User -> Maps(UserVar)]
<1>1. PICK k \in Key, d \in Maps(StateKey) :
          \/ \E row \in Session : CreateEffect(k, d, row) \/ UpdateEffect(k, d, row)
          \/ \E e \in EventID, t \in Nat : AppendEffect(k, e, [delta |-> d, timestamp |-> t])
          \/ DeleteEffect(k)
    BY EffectCases
<1>2. appStates[AppOf(k)] \in Maps(AppVar) /\ userStates[UserOf(k)] \in Maps(UserVar)
    BY KeyParts DEF TypeOK
<1>3. /\ PutAppState(appStates, k, appStates[AppOf(k)], d) \in [App -> Maps(AppVar)]
      /\ PutUserState(userStates, k, userStates[UserOf(k)], d)
             \in [App \X User -> Maps(UserVar)]
    BY <1>2, WriteScopedTyping DEF TypeOK
<1>4. CASE \E row \in Session : CreateEffect(k, d, row) \/ UpdateEffect(k, d, row)
    BY <1>3, <1>4 DEF CreateEffect, UpdateEffect, TypeOK
<1>5. ASSUME NEW e \in EventID, NEW t \in Nat,
             AppendEffect(k, e, [delta |-> d, timestamp |-> t])
      PROVE  /\ sessions' \in [Key -> Session \cup {NoRow}]
             /\ events' \in [Key -> [EventID -> Event \cup {NoRow}]]
             /\ appStates' \in [App -> Maps(AppVar)]
             /\ userStates' \in [App \X User -> Maps(UserVar)]
    <2> DEFINE event == [delta |-> d, timestamp |-> t]
    <2>1. event \in Event /\ event.delta = d
        BY DEF Event
    <2>2. AppendedRow(sessions[k], event) \in Session
        BY <1>5, <2>1, AppendedRowTyping DEF AppendEffect
    <2> HIDE DEF event
    <2>3. QED
        BY <1>3, <1>5, <2>1, <2>2 DEF AppendEffect, TypeOK, event
<1>6. CASE DeleteEffect(k)
    BY <1>6 DEF DeleteEffect, TypeOK, NoEvents
<1>7. QED
    BY <1>1, <1>4, <1>5, <1>6

LEMMA TransactionTypeOK ==
    ASSUME TypeOK, NEW p \in Proc, Transaction(p)
    PROVE  TypeOK'
<1>1. CASE RunClosure(p)
    BY <1>1, RunClosureTypeOK
<1>2. ASSUME CommitCreate(p) \/ CommitAppend(p) \/ CommitUpdate(p) \/ ApplyDelete(p)
      PROVE  TypeOK'
    <2>1. UNCHANGED tables \/ Effect(p)
        BY <1>2, CommitCreateEffect, CommitAppendEffect, CommitUpdateEffect, ApplyDeleteEffect
        DEF Fail
    <2>2. PICK codes \in SUBSET Code : Answer(p, codes)
        BY <1>2 DEF CommitCreate, CommitAppend, CommitUpdate, ApplyDelete, Reply, Fail, Code
    <2>3. QED
        BY <2>1, <2>2, EffectTypes, AnswerTypeOK DEF tables, TypeOK
<1>3. QED
    BY <1>1, <1>2 DEF Transaction

LEMMA NextTypeOK == TypeOK /\ [Next]_vars => TypeOK'
<1> SUFFICES ASSUME TypeOK, [Next]_vars
             PROVE  TypeOK'
    OBVIOUS
<1>1. CASE Tick
    BY <1>1 DEF Tick, tables, TypeOK
<1>2. ASSUME NEW p \in Proc, Handler(p)
      PROVE  TypeOK'
    BY <1>2, HandlerTypeOK
<1>3. ASSUME NEW p \in Proc, Transaction(p)
      PROVE  TypeOK'
    BY <1>3, TransactionTypeOK
<1>4. ASSUME NEW p \in Proc, GiveUp(p)
      PROVE  TypeOK'
    BY <1>4, FailTypeOK DEF GiveUp, Code
<1>5. CASE UNCHANGED vars
    BY <1>5 DEF vars, tables, TypeOK
<1>6. QED
    BY <1>1, <1>2, <1>3, <1>4, <1>5 DEF Next

(* Every variable has its type in every reachable state, and a call in     *)
(* flight holds what its position requires: an append a trimmed delta and  *)
(* an event ID, a closure about to commit the session row it read or made. *)
THEOREM TypeCorrect == Spec => []TypeOK
<1>1. QED
    BY InitTypeOK, NextTypeOK, PTL DEF Spec

-----------------------------------------------------------------------------
(* Safety. *)

(* No event outlives its session, and none is stored without one, under    *)
(* any interleaving of appends, deletes, creates and updates: the append   *)
(* transaction re-reads its session, and a delete takes the event prefix.  *)
THEOREM NoOrphans == Spec => []NoOrphanEvents
<1>1. Init => NoOrphanEvents
    BY DEF Init, NoOrphanEvents, NoEvents
<1>2. TypeOK /\ NoOrphanEvents /\ [Next]_vars => NoOrphanEvents'
    <2> SUFFICES ASSUME TypeOK, NoOrphanEvents, [Next]_vars
                 PROVE  NoOrphanEvents'
        OBVIOUS
    <2>1. CASE UNCHANGED tables
        BY <2>1 DEF tables, NoOrphanEvents
    <2>2. ASSUME NEW p \in Proc, Effect(p)
          PROVE  NoOrphanEvents'
        <3>1. PICK k \in Key, d \in Maps(StateKey) :
                  \/ \E row \in Session : CreateEffect(k, d, row) \/ UpdateEffect(k, d, row)
                  \/ \E e \in EventID, t \in Nat :
                        AppendEffect(k, e, [delta |-> d, timestamp |-> t])
                  \/ DeleteEffect(k)
            BY <2>2, EffectCases
        <3>2. ASSUME NEW row \in Session, CreateEffect(k, d, row) \/ UpdateEffect(k, d, row)
              PROVE  NoOrphanEvents'
            BY <3>2, NoRowAssumption DEF CreateEffect, UpdateEffect, NoOrphanEvents, TypeOK
        <3>3. ASSUME NEW e \in EventID, NEW t \in Nat,
                     AppendEffect(k, e, [delta |-> d, timestamp |-> t])
              PROVE  NoOrphanEvents'
            <4> DEFINE event == [delta |-> d, timestamp |-> t]
            <4>1. AppendedRow(sessions[k], event) # NoRow
                BY <3>3, AppendedRowTyping, NoRowAssumption DEF AppendEffect, Event
            <4> HIDE DEF event
            <4>2. QED
                BY <3>3, <4>1 DEF AppendEffect, NoOrphanEvents, TypeOK, event
        <3>4. CASE DeleteEffect(k)
            BY <3>4 DEF DeleteEffect, NoOrphanEvents, NoEvents, TypeOK
        <3>5. QED
            BY <3>1, <3>2, <3>3, <3>4
    <2>3. QED
        BY <2>1, <2>2, StepEffect
<1>3. QED
    BY <1>1, <1>2, TypeCorrect, PTL DEF Spec

(* Where no caller uses UpdateSession, no call in flight is an update. *)
NoUpdate == \A p \in Proc : pc[p] # "idle" => call[p].op # "update"

LEMMA NoUpdateInvariant ==
    ASSUME UpdateInput = {}
    PROVE  Spec => []NoUpdate
<1>1. Init => NoUpdate
    BY DEF Init, NoUpdate
<1>2. TypeOK /\ NoUpdate /\ [Next]_vars => NoUpdate'
    <2> SUFFICES ASSUME TypeOK, NoUpdate, [Next]_vars
                 PROVE  NoUpdate'
        OBVIOUS
    <2>1. ASSUME NEW p \in Proc, NEW c, NEW at, Start(p, c, at), c.op # "update"
          PROVE  NoUpdate'
        BY <2>1 DEF Start, TypeOK, NoUpdate
    <2>2. ASSUME NEW p \in Proc, NEW codes, Answer(p, codes)
          PROVE  NoUpdate'
        BY <2>2 DEF Answer, TypeOK, NoUpdate
    <2>3. ASSUME NEW p \in Proc, pc[p] # "idle", ReadRows(p)
          PROVE  NoUpdate'
        <3>1. call[p] \in Call
            BY <2>3 DEF TypeOK, Ready
        <3>2. call'[p].op = call[p].op /\ \A q \in Proc \ {p} : call'[q] = call[q]
            BY <2>3, <3>1 DEF ReadRows, TypeOK, Call
        <3>3. \A q \in Proc \ {p} : pc'[q] = pc[q]
            BY <2>3 DEF ReadRows, TypeOK
        <3>4. QED
            BY <2>3, <3>2, <3>3 DEF NoUpdate
    <2>4. ASSUME NEW p \in Proc, Handler(p)
          PROVE  NoUpdate'
        BY <2>1, <2>2, <2>4
        DEF Handler, CreateSession, GrpcAppendEvent, AdkAppendEvent, DeleteSession,
            NameNotResolved, AdkDelete, RejectArguments, Fail, AppendCall, DeleteCall, NewCall
    <2>5. ASSUME NEW p \in Proc, Transaction(p) \/ GiveUp(p)
          PROVE  NoUpdate'
        BY <2>2, <2>3, <2>5
        DEF Transaction, RunClosure, CommitCreate, CommitAppend, CommitUpdate, ApplyDelete,
            GiveUp, Fail, Reply
    <2>6. QED
        BY <2>4, <2>5 DEF Next, Tick, vars, NoUpdate
<1>3. QED
    BY <1>1, <1>2, TypeCorrect, PTL DEF Spec

(* Where no caller uses UpdateSession, a session keeps every key that an   *)
(* event of it ever set: an append merges its delta into the row as it is  *)
(* stored at the commit.  The hypothesis is needed, for an update writes   *)
(* the row it read before its transaction.                                 *)
THEOREM AppendsKeepState == UpdateInput = {} /\ Spec => []AppendedStateSurvives
<1> SUFFICES ASSUME UpdateInput = {}
             PROVE  Spec => []AppendedStateSurvives
    OBVIOUS
<1>1. Init => AppendedStateSurvives
    BY DEF Init, AppendedStateSurvives
<1>2. TypeOK /\ NoOrphanEvents /\ NoUpdate /\ AppendedStateSurvives /\ [Next]_vars
        => AppendedStateSurvives'
    <2> SUFFICES ASSUME TypeOK, NoOrphanEvents, NoUpdate, AppendedStateSurvives, [Next]_vars,
                        NEW k \in Key, NEW e \in EventID, NEW n \in SessionVar,
                        sessions'[k] # NoRow, events'[k][e] # NoRow,
                        SessionPart(events'[k][e].delta)[n] # NoValue
                 PROVE  sessions'[k].state[n] # NoValue
        BY DEF AppendedStateSurvives
    <2>1. CASE UNCHANGED tables
        BY <2>1 DEF tables, AppendedStateSurvives
    <2>2. ASSUME NEW p \in Proc, Effect(p)
          PROVE  sessions'[k].state[n] # NoValue
        <3>1. PICK j \in Key, d \in Maps(StateKey) :
                  \/ \E row \in Session : CreateEffect(j, d, row)
                  \/ \E f \in EventID, t \in Nat :
                        AppendEffect(j, f, [delta |-> d, timestamp |-> t])
                  \/ DeleteEffect(j)
            <4>1. pc[p] = "commit" => call[p].op # "update"
                BY DEF NoUpdate
            <4>2. QED
                BY <2>2, <4>1 DEF Effect, Commits
        <3>2. ASSUME NEW row \in Session, CreateEffect(j, d, row)
              PROVE  sessions'[k].state[n] # NoValue
            <4>1. sessions[k] # NoRow /\ events'[k][e] = events[k][e]
                BY <3>2 DEF CreateEffect, NoOrphanEvents, TypeOK
            <4>2. sessions'[k] = sessions[k]
                BY <3>2, <4>1 DEF CreateEffect, TypeOK
            <4>3. QED
                BY <4>1, <4>2 DEF AppendedStateSurvives
        <3>3. ASSUME NEW f \in EventID, NEW t \in Nat,
                     AppendEffect(j, f, [delta |-> d, timestamp |-> t])
              PROVE  sessions'[k].state[n] # NoValue
            <4> DEFINE event == [delta |-> d, timestamp |-> t]
            <4>1. CASE k # j
                BY <3>3, <4>1 DEF AppendEffect, AppendedStateSurvives, TypeOK
            <4>2. CASE k = j
                <5>1. sessions'[k].state = mergedState(sessions[k].state, SessionPart(d))
                    BY <3>3, <4>2 DEF AppendEffect, AppendedRow, Session, TypeOK
                <5>2. sessions[k].state \in Maps(SessionVar)
                    BY <3>3, <4>2 DEF AppendEffect, Session
                <5>3. CASE e = f
                    <6>1. events'[k][e].delta = d
                        BY <3>3, <4>2, <5>3 DEF AppendEffect, TypeOK
                    <6>2. QED
                        BY <5>1, <5>2, <6>1 DEF mergedState, Maps
                <5>4. CASE e # f
                    <6>1. events'[k][e] = events[k][e]
                        BY <3>3, <4>2, <5>4 DEF AppendEffect, TypeOK
                    <6>2. sessions[k].state[n] # NoValue
                        BY <3>3, <4>2, <6>1, NoRowAssumption
                        DEF AppendEffect, AppendedStateSurvives
                    <6>3. QED
                        BY <5>1, <5>2, <6>2 DEF mergedState, Maps
                <5>5. QED
                    BY <5>3, <5>4
            <4>3. QED
                BY <4>1, <4>2
        <3>4. ASSUME DeleteEffect(j)
              PROVE  sessions'[k].state[n] # NoValue
            BY <3>4 DEF DeleteEffect, AppendedStateSurvives, TypeOK
        <3>5. QED
            BY <3>1, <3>2, <3>3, <3>4
    <2>3. QED
        BY <2>1, <2>2, StepEffect
<1>3. QED
    BY <1>1, <1>2, TypeCorrect, NoOrphans, NoUpdateInvariant, PTL DEF Spec

(* Without UpdateSession, only a create brings a session back: the append  *)
(* that a delete overtook fails, since its transaction read the row.       *)
THEOREM RevivalNeedsCreate == UpdateInput = {} /\ Spec => DeletedStaysDeleted
<1> SUFFICES ASSUME UpdateInput = {}
             PROVE  Spec => DeletedStaysDeleted
    OBVIOUS
<1>1. TypeOK /\ NoUpdate /\ [Next]_vars => RevivedByCreate
    <2> SUFFICES ASSUME TypeOK, NoUpdate, [Next]_vars, NEW k \in Key,
                        sessions[k] = NoRow, sessions'[k] # NoRow
                 PROVE  \E p \in Proc : /\ pc[p] = "commit" /\ pc'[p] = "idle"
                                       /\ call[p].op = "create" /\ call[p].key = k
        BY DEF RevivedByCreate
    <2>1. PICK p \in Proc : Effect(p)
        BY StepEffect DEF tables
    <2>2. PICK j \in Key, d \in Maps(StateKey) :
              \/ /\ Commits(p, j, d)
                 /\ \/ \E row \in Session :
                          \/ CreateEffect(j, d, row) /\ call[p].op = "create"
                          \/ UpdateEffect(j, d, row) /\ call[p].op = "update"
                    \/ \E e \in EventID, event \in [delta : {d}, timestamp : Nat] :
                          AppendEffect(j, e, event)
              \/ DeleteEffect(j)
        BY <2>1, Zenon DEF Effect
    <2>3. ~DeleteEffect(j)
        BY DEF DeleteEffect, TypeOK
    <2>4. j = k
        BY <2>2, <2>3 DEF CreateEffect, UpdateEffect, AppendEffect, TypeOK
    <2>5. ~\E e \in EventID, event \in [delta : {d}, timestamp : Nat] :
               AppendEffect(j, e, event)
        BY <2>4, NoRowAssumption DEF AppendEffect
    <2>6. Commits(p, j, d) => call[p].op # "update"
        BY DEF NoUpdate, Commits
    <2>7. QED
        BY <2>2, <2>3, <2>4, <2>5, <2>6 DEF Commits
<1>2. QED
    BY <1>1, TypeCorrect, NoUpdateInvariant, PTL DEF Spec, DeletedStaysDeleted

(* A stored event is immutable and leaves only with its whole session, so  *)
(* repeating an append under the same event ID after a lost reply neither  *)
(* rewrites the event nor applies its delta again.                         *)
THEOREM EventsWrittenOnce == Spec => EventsWriteOnce
<1>1. TypeOK /\ [Next]_vars => KeepsEvents
    <2> SUFFICES ASSUME TypeOK, [Next]_vars
                 PROVE  KeepsEvents
        OBVIOUS
    <2>1. CASE UNCHANGED tables
        BY <2>1 DEF tables, KeepsEvents
    <2>2. ASSUME NEW p \in Proc, Effect(p)
          PROVE  KeepsEvents
        <3>1. CASE events' = events
            BY <3>1 DEF KeepsEvents
        <3>2. ASSUME NEW k \in Key, DeleteEffect(k)
              PROVE  KeepsEvents
            BY <3>2 DEF DeleteEffect, KeepsEvents, TypeOK
        <3>3. ASSUME NEW k \in Key, NEW e \in EventID, NEW event, AppendEffect(k, e, event)
              PROVE  KeepsEvents
            BY <3>3 DEF AppendEffect, KeepsEvents, TypeOK
        <3>4. QED
            BY <2>2, <3>1, <3>2, <3>3, EventsChange
    <2>3. QED
        BY <2>1, <2>2, StepEffect
<1>2. QED
    BY <1>1, TypeCorrect, PTL DEF Spec, EventsWriteOnce

(* A stored event's delta reaches the view of its session whole and at     *)
(* once: the app, user and session rows change with the insertion of the   *)
(* event and as the delta says, whatever committed in between.             *)
THEOREM EventsFullyApplied == Spec => StoredEventFullyApplied
<1>1. TypeOK /\ [Next]_vars => AppliesStoredEvent
    <2> SUFFICES ASSUME TypeOK, [Next]_vars, NEW k \in Key, NEW e \in EventID,
                        events[k][e] = NoRow, events'[k][e] # NoRow
                 PROVE  View(k)' = mergedState(View(k), events'[k][e].delta)
        BY DEF AppliesStoredEvent
    <2>1. PICK p \in Proc : Effect(p)
        BY StepEffect DEF tables
    <2>2. PICK d \in Maps(StateKey), t \in Nat :
              /\ d = trimTempKeys(d)
              /\ AppendEffect(k, e, [delta |-> d, timestamp |-> t])
        <3>1. ASSUME NEW j \in Key
              PROVE  ~DeleteEffect(j)
            BY DEF DeleteEffect, NoEvents, TypeOK
        <3>2. ASSUME NEW j \in Key, NEW f \in EventID, NEW event, AppendEffect(j, f, event)
              PROVE  j = k /\ f = e
            BY <3>2 DEF AppendEffect, TypeOK
        <3>3. QED
            BY <2>1, <3>1, <3>2, EventsChange
    <2> DEFINE event == [delta |-> d, timestamp |-> t]
               app == appStates[AppOf(k)]
               user == userStates[UserOf(k)]
               state == sessions[k].state
    <2>3. app \in Maps(AppVar) /\ user \in Maps(UserVar) /\ state \in Maps(SessionVar)
        BY <2>2, KeyParts DEF AppendEffect, Session, TypeOK
    <2>4. events'[k][e].delta = d
        BY <2>2 DEF AppendEffect, TypeOK
    <2>5. sessions'[k].state = mergedState(state, SessionPart(d))
        BY <2>2 DEF AppendEffect, AppendedRow, Session, TypeOK
    <2>6. appStates'[AppOf(k)] = mergedState(app, AppPart(d))
        BY <2>2, <2>3, KeyParts, MergeNothing DEF AppendEffect, PutAppState, TypeOK
    <2>7. userStates'[UserOf(k)] = mergedState(user, UserPart(d))
        BY <2>2, <2>3, KeyParts, MergeNothing DEF AppendEffect, PutUserState, TypeOK
    <2>8. View(k)' = mergeStateMaps(mergedState(app, AppPart(d)),
                                    mergedState(user, UserPart(d)),
                                    mergedState(state, SessionPart(d)))
        BY <2>5, <2>6, <2>7 DEF View
    <2> HIDE DEF app, user, state
    <2>9. View(k)' = mergedState(mergeStateMaps(app, user, state), trimTempKeys(d))
        BY <2>3, <2>8, MergeThenView
    <2>10. QED
        BY <2>2, <2>4, <2>9 DEF View, app, user, state
<1>2. QED
    BY <1>1, TypeCorrect, PTL DEF Spec, StoredEventFullyApplied

(* A shared row takes a new value at a key only from the delta of the call *)
(* that commits in that step: no concurrent delta is overwritten with what *)
(* another call had read, and no key is ever lost.                         *)
THEOREM ScopedStateMonotone == Spec => ScopedStateNeverReverts
<1>1. TypeOK /\ [Next]_vars => AppStateFromDelta /\ UserStateFromDelta
    <2> SUFFICES ASSUME TypeOK, [Next]_vars
                 PROVE  AppStateFromDelta /\ UserStateFromDelta
        OBVIOUS
    <2>1. CASE UNCHANGED <<appStates, userStates>>
        BY <2>1 DEF AppStateFromDelta, UserStateFromDelta
    <2>2. ASSUME NEW p \in Proc, NEW k \in Key, NEW d \in Maps(StateKey),
                 Commits(p, k, d),
                 appStates' = PutAppState(appStates, k, appStates[AppOf(k)], d),
                 userStates' = PutUserState(userStates, k, userStates[UserOf(k)], d)
          PROVE  AppStateFromDelta /\ UserStateFromDelta
        <3>1. ASSUME NEW a \in App, NEW n \in AppVar, appStates'[a][n] # appStates[a][n]
              PROVE  /\ appStates'[a][n] # NoValue
                     /\ AppOf(k) = a /\ AppPart(d)[n] = appStates'[a][n]
            <4>1. appStates[a] \in Maps(AppVar)
                BY DEF TypeOK
            <4>2. appStates' = [appStates EXCEPT ![AppOf(k)] =
                                    mergedState(appStates[AppOf(k)], AppPart(d))]
                BY <2>2, <3>1 DEF PutAppState
            <4>3. AppOf(k) = a
                BY <3>1, <4>2 DEF TypeOK
            <4>4. appStates'[a][n] = mergedState(appStates[a], AppPart(d))[n]
                BY <4>2, <4>3 DEF TypeOK
            <4>5. QED
                BY <3>1, <4>1, <4>3, <4>4 DEF mergedState, Maps
        <3>2. ASSUME NEW u \in App \X User, NEW n \in UserVar,
                     userStates'[u][n] # userStates[u][n]
              PROVE  /\ userStates'[u][n] # NoValue
                     /\ UserOf(k) = u /\ UserPart(d)[n] = userStates'[u][n]
            <4>1. userStates[u] \in Maps(UserVar)
                BY DEF TypeOK
            <4>2. userStates' = [userStates EXCEPT ![UserOf(k)] =
                                     mergedState(userStates[UserOf(k)], UserPart(d))]
                BY <2>2, <3>2 DEF PutUserState
            <4>3. UserOf(k) = u
                BY <3>2, <4>2 DEF TypeOK
            <4>4. userStates'[u][n] = mergedState(userStates[u], UserPart(d))[n]
                BY <4>2, <4>3 DEF TypeOK
            <4>5. QED
                BY <3>2, <4>1, <4>3, <4>4 DEF mergedState, Maps
        <3>3. QED
            BY <2>2, <3>1, <3>2 DEF AppStateFromDelta, UserStateFromDelta
    <2>3. ASSUME NEW p \in Proc, Effect(p)
          PROVE  AppStateFromDelta /\ UserStateFromDelta
        BY <2>1, <2>2, <2>3 DEF Effect, CreateEffect, UpdateEffect, AppendEffect, DeleteEffect
    <2>4. QED
        BY <2>1, <2>3, StepEffect DEF tables
<1>2. QED
    BY <1>1, TypeCorrect, PTL DEF Spec, ScopedStateNeverReverts

(* The instance of AtomicStore has operators of its own; they are the same *)
(* as the ones the store is defined with.                                  *)
LEMMA SameTables ==
    /\ Atomic!Key = Key
    /\ Atomic!NoEvents = NoEvents
    /\ \A S : Atomic!EmptyMap(S) = EmptyMap(S)
    /\ \A S : Atomic!Maps(S) = Maps(S)
    /\ Atomic!AppVar = AppVar /\ Atomic!UserVar = UserVar /\ Atomic!SessionVar = SessionVar
    /\ Atomic!Session = Session /\ Atomic!Event = Event
    /\ \A k : Atomic!AppOf(k) = AppOf(k) /\ Atomic!UserOf(k) = UserOf(k)
<1>1. /\ Atomic!AppVar = AppVar /\ Atomic!UserVar = UserVar
      /\ Atomic!SessionVar = SessionVar
    BY DEF Atomic!AppVar, AppVar, Atomic!UserVar, UserVar, Atomic!SessionVar, SessionVar,
           Atomic!HasPrefix, HasPrefix, Atomic!KeyPrefixApp, KeyPrefixApp,
           Atomic!KeyPrefixUser, KeyPrefixUser, Atomic!KeyPrefixTemp, KeyPrefixTemp
<1>2. \A S : Atomic!Maps(S) = Maps(S)
    BY DEF Atomic!Maps, Maps
<1>3. Atomic!Session = Session /\ Atomic!Event = Event
    BY <1>1, <1>2 DEF Atomic!Session, Session, Atomic!Event, Event
<1>4. QED
    BY <1>1, <1>2, <1>3 DEF Atomic!Key, Key, Atomic!NoEvents, NoEvents, Atomic!EmptyMap, EmptyMap,
           Atomic!AppOf, AppOf, Atomic!UserOf, UserOf

LEMMA SameSplit ==
    \A d : /\ Atomic!AppPart(d) = AppPart(d)
           /\ Atomic!UserPart(d) = UserPart(d)
           /\ Atomic!SessionPart(d) = SessionPart(d)
           /\ Atomic!trimTempKeys(d) = trimTempKeys(d)
BY SameTables
DEF Atomic!AppPart, AppPart, Atomic!UserPart, UserPart, Atomic!SessionPart, SessionPart,
    Atomic!trimTempKeys, trimTempKeys, Atomic!HasPrefix, HasPrefix,
    Atomic!KeyPrefixApp, KeyPrefixApp, Atomic!KeyPrefixUser, KeyPrefixUser,
    Atomic!KeyPrefixTemp, KeyPrefixTemp

LEMMA SameWrites ==
    /\ \A k, d : Atomic!MergeScoped(k, d) <=>
           /\ appStates' = PutAppState(appStates, k, appStates[AppOf(k)], d)
           /\ userStates' = PutUserState(userStates, k, userStates[UserOf(k)], d)
    /\ \A row, event : Atomic!AppendedRow(row, event) = AppendedRow(row, event)
<1>1. \A existing, d : Atomic!mergedState(existing, d) = mergedState(existing, d)
    BY DEF Atomic!mergedState, mergedState
<1>2. QED
    BY <1>1, SameTables, SameSplit
    DEF Atomic!MergeScoped, Atomic!PutAppState, PutAppState, Atomic!PutUserState, PutUserState,
        Atomic!AppendedRow, AppendedRow

-----------------------------------------------------------------------------
(* The detailed store implements AtomicCalls.                              *)

(* What the callers asked for, as the refinement mapping reads it off the  *)
(* calls in flight.                                                        *)
Asking == [p \in Proc |-> IF pc[p] = "idle" THEN NoCall ELSE Asked(call[p])]

LEMMA StartAsks ==
    ASSUME TypeOK, NEW p \in Proc, NEW c, NEW at \in {"txn", "apply"}, Start(p, c, at)
    PROVE  Asking[p] = NoCall /\ Asking' = [Asking EXCEPT ![p] = Asked(c)]
BY DEF TypeOK, Start, Asking

LEMMA AnswerForgets ==
    ASSUME TypeOK, NEW p \in Proc, NEW codes, Answer(p, codes)
    PROVE  Asking' = [Asking EXCEPT ![p] = NoCall]
BY DEF TypeOK, Answer, Asking

(* The rows a closure reads are no part of what the call was asked to do.  *)
LEMMA ReadKeepsAsking ==
    ASSUME TypeOK, NEW p \in Proc, pc[p] \in {"txn", "commit"}, ReadRows(p)
    PROVE  Asking' = Asking
<1>1. call[p] \in Call /\ call[p].op # "delete"
    BY DEF TypeOK, Ready
<1>2. Asked(call'[p]) = Asked(call[p])
    BY <1>1 DEF ReadRows, Asked, TypeOK, Call
<1>3. QED
    BY <1>2 DEF ReadRows, Asking, TypeOK

LEMMA AskedTyping ==
    ASSUME NEW c \in Call
    PROVE  Asked(c) \in Atomic!Request /\ Asked(c) # NoCall
<1>1. c.row \in Session \cup {NoRow}
    BY DEF Call
<1>2. Asked(c) \in Atomic!Request
    BY <1>1, SameTables DEF Asked, Call, Atomic!Request
<1>3. Asked(c).op # "none"
    BY DEF Asked, Call
<1>4. QED
    BY <1>2, <1>3 DEF NoCall

(* A call that starts asks, for what its arguments make sensible. *)
LEMMA StartIsAsk ==
    ASSUME TypeOK, NEW p \in Proc, NEW c, NEW at \in {"txn", "apply"},
           Start(p, c, at), Ready(c, at),
           c.op = "update" => Atomic!Updates(sessions[c.key], Asked(c))
    PROVE  Atomic!Ask(p)
<1>1. c \in Call
    BY DEF Ready
<1>2. Asking[p] = NoCall /\ Asking' = [Asking EXCEPT ![p] = Asked(c)]
    BY StartAsks
<1>3. Asking'[p] = Asked(c)
    BY <1>2 DEF Asking
<1>4. Atomic!Sensible(Asked(c))
    BY <1>1, AskedTyping, SameSplit, SameTables DEF Atomic!Sensible, Ready, Asked
<1>5. QED
    BY <1>2, <1>3, <1>4
    DEF Atomic!Ask, Asking, Atomic!Nothing, NoCall, Start, tables, Atomic!tables

(* A call that answers before its transaction is rejected. *)
LEMMA FailAtOnce ==
    ASSUME TypeOK, NEW p \in Proc, pc[p] = "idle",
           NEW code \in {"NotFound", "InvalidArgument", "FailedPrecondition"}, Fail(p, code)
    PROVE  Atomic!Reject(p)
<1>1. Asking' = [Asking EXCEPT ![p] = NoCall]
    BY AnswerForgets DEF Fail
<1>2. Asking[p] = NoCall
    BY DEF Asking
<1>3. QED
    BY <1>1, <1>2
    DEF Atomic!Reject, Atomic!Answer, Asking, Atomic!Nothing, NoCall, Fail, Answer,
        tables, Atomic!tables

(* A call that answers later without an effect is refused. *)
LEMMA FailLater ==
    ASSUME TypeOK, NEW p \in Proc, pc[p] # "idle",
           NEW code \in Atomic!Refusals(Asked(call[p])), Fail(p, code)
    PROVE  Atomic!Refuse(p)
<1>1. Asking' = [Asking EXCEPT ![p] = NoCall]
    BY AnswerForgets DEF Fail
<1>2. Asking[p] = Asked(call[p])
    BY DEF Asking
<1>3. Asked(call[p]) # NoCall
    BY AskedTyping DEF TypeOK, Ready
<1>4. QED
    BY <1>1, <1>2, <1>3
    DEF Atomic!Refuse, Atomic!Answer, Asking, Atomic!Nothing, NoCall, Fail, Answer,
        tables, Atomic!tables

(* A call whose commit takes effect succeeds. *)
LEMMA ReplyIsSucceed ==
    ASSUME TypeOK, NEW p \in Proc, pc[p] # "idle", Reply(p),
           Atomic!TakeEffect(Asked(call[p]))
    PROVE  Atomic!Succeed(p)
<1>1. Asking' = [Asking EXCEPT ![p] = NoCall]
    BY AnswerForgets DEF Reply
<1>2. Asking[p] = Asked(call[p])
    BY DEF Asking
<1>3. Asked(call[p]) # NoCall
    BY AskedTyping DEF TypeOK, Ready
<1>4. QED
    BY <1>1, <1>2, <1>3
    DEF Atomic!Succeed, Atomic!Answer, Asking, Atomic!Nothing, NoCall, Reply, Answer

(* What an update is about to write is the stored row with the masked      *)
(* fields replaced.                                                        *)
LEMMA UpdateSensible ==
    ASSUME TypeOK, NEW k \in Key, NEW req \in UpdateInput, sessions[k] # NoRow
    PROVE  LET c == NewCall("update", k, NoRow, now, MaskedDelta(req),
                            MaskedRow(req, sessions[k]))
           IN Atomic!Updates(sessions[c.key], Asked(c))
<1> DEFINE row == MaskedRow(req, sessions[k])
           d == MaskedDelta(req)
<1>1. row \in Session
    BY MaskedRowTyping DEF TypeOK
<1>2. \/ row.state = SessionPart(d)
      \/ row.state = sessions[k].state /\ d = EmptyMap(StateKey)
    BY DEF MaskedRow, MaskedDelta
<1> HIDE DEF row, d
<1>3. QED
    BY <1>1, <1>2, SameTables, SameSplit DEF Atomic!Updates, Asked, NewCall, row, d

LEMMA HandlerAsks ==
    ASSUME TypeOK, NEW p \in Proc, Handler(p)
    PROVE  Atomic!Ask(p) \/ Atomic!Reject(p)
<1> now \in Nat
    BY DEF TypeOK
<1>1. ASSUME NEW k \in Key, NEW in \in CreateInput, CreateSession(p, k, in)
      PROVE  Atomic!Ask(p)
    <2> DEFINE c == NewCall("create", k, NoRow, now, in.state, normalizeSession(in))
    <2>1. in \in Input /\ in.state \in Maps(StateKey)
        BY CreateInputAssumption DEF Input
    <2>2. normalizeSession(in) \in Session
        BY <2>1, NewRowTyping
    <2>3. c \in Call
        BY <2>1, <2>2, NewCallTyping
    <2>4. Ready(c, "txn") /\ c.op = "create"
        BY <2>2, <2>3 DEF Ready, NewCall, normalizeSession
    <2>5. Start(p, c, "txn")
        BY <1>1 DEF CreateSession
    <2> HIDE DEF c
    <2>6. QED
        BY <2>4, <2>5, StartIsAsk
<1>2. ASSUME NEW k \in Key, NEW req \in UpdateInput, UpdateSession(p, k, req)
      PROVE  Atomic!Ask(p) \/ Atomic!Reject(p)
    <2> DEFINE c == NewCall("update", k, NoRow, now, MaskedDelta(req),
                            MaskedRow(req, sessions[k]))
    <2>1. CASE sessions[k] # NoRow /\ SupportedMask(req)
        <3>1. MaskedRow(req, sessions[k]) \in Session /\ MaskedDelta(req) \in Maps(StateKey)
            BY <2>1, MaskedRowTyping DEF TypeOK
        <3>2. c \in Call
            BY <3>1, NewCallTyping
        <3>3. Ready(c, "txn")
            BY <3>1, <3>2 DEF Ready, NewCall
        <3>4. Start(p, c, "txn")
            BY <1>2, <2>1 DEF UpdateSession
        <3>5. Atomic!Updates(sessions[c.key], Asked(c))
            BY <2>1, UpdateSensible
        <3> HIDE DEF c
        <3>6. QED
            BY <3>3, <3>4, <3>5, StartIsAsk
    <2>2. CASE ~(sessions[k] # NoRow /\ SupportedMask(req))
        BY <1>2, <2>2, FailAtOnce DEF UpdateSession
    <2>3. QED
        BY <2>1, <2>2
<1>3. ASSUME NEW e \in EventID, NEW t \in SuppliedTime \cup {now}, NEW d \in AppendDelta,
             NEW k \in Key, Start(p, AppendCall(k, e, t, d), "txn")
      PROVE  Atomic!Ask(p)
    <2>1. Ready(AppendCall(k, e, t, d), "txn")
        BY AppendCallReady, TimeAssumption
    <2>2. AppendCall(k, e, t, d).op = "append"
        BY DEF AppendCall, NewCall
    <2>3. QED
        BY <1>3, <2>1, <2>2, StartIsAsk
<1>4. ASSUME NEW k \in Key, Start(p, DeleteCall(k), "apply")
      PROVE  Atomic!Ask(p)
    <2>1. DeleteCall(k).op = "delete"
        BY DEF DeleteCall, NewCall
    <2>2. QED
        BY <1>4, <2>1, DeleteCallReady, StartIsAsk
<1>5. ASSUME NEW sid \in SessionID, NameNotResolved(p, sid)
      PROVE  Atomic!Reject(p)
    BY <1>5, FailAtOnce DEF NameNotResolved
<1>6. ASSUME RejectArguments(p)
      PROVE  Atomic!Reject(p)
    BY <1>6, FailAtOnce DEF RejectArguments
<1>7. QED
    BY <1>1, <1>2, <1>3, <1>4, <1>5, <1>6, KeysWithIDAreKeys
    DEF Handler, GrpcAppendEvent, AdkAppendEvent, DeleteSession, AdkDelete

LEMMA RunClosureRefuses ==
    ASSUME TypeOK, NEW p \in Proc, RunClosure(p)
    PROVE  Atomic!Refuse(p) \/ UNCHANGED Atomic!vars
<1>1. pc[p] \in {"txn", "commit"}
    BY DEF RunClosure
<1>2. CASE SessionMissing(p)
    <2>1. "NotFound" \in Atomic!Refusals(Asked(call[p]))
        BY <1>2 DEF SessionMissing, Atomic!Refusals, Asked
    <2>2. QED
        BY <1>1, <1>2, <2>1, FailLater DEF RunClosure
<1>3. CASE ~SessionMissing(p)
    <2>1. ReadRows(p)
        BY <1>3 DEF RunClosure
    <2>2. Asking' = Asking
        BY <1>1, <2>1, ReadKeepsAsking
    <2>3. QED
        BY <2>1, <2>2 DEF ReadRows, Asking, Atomic!vars, Atomic!tables, tables
<1>4. QED
    BY <1>2, <1>3

LEMMA CommitCreateAnswers ==
    ASSUME TypeOK, NEW p \in Proc, CommitCreate(p)
    PROVE  Atomic!Succeed(p) \/ Atomic!Refuse(p)
<1> DEFINE c == call[p]
<1>1. pc[p] = "commit" /\ c.op = "create" /\ Ready(c, "commit")
    BY DEF CommitCreate, CanCommit, TypeOK
<1>2. CASE SessionExists(c.key) /\ Fail(p, "AlreadyExists")
    <2>1. "AlreadyExists" \in Atomic!Refusals(Asked(c))
        BY <1>1, <1>2 DEF SessionExists, Atomic!Refusals, Asked
    <2>2. QED
        BY <1>1, <1>2, <2>1, FailLater
<1>3. CASE CreateEffect(c.key, c.delta, c.row) /\ Reply(p)
    <2>1. c.row \in Session /\ c.row.state = SessionPart(c.delta)
        BY <1>1 DEF Ready
    <2>2. Atomic!Create(c.key, c.row, c.delta)
        BY <1>3, <2>1, SameTables, SameSplit, SameWrites DEF CreateEffect, Atomic!Create
    <2>3. Atomic!TakeEffect(Asked(c))
        BY <1>1, <2>2 DEF Atomic!TakeEffect, Asked
    <2>4. QED
        BY <1>1, <1>3, <2>3, ReplyIsSucceed
<1>4. QED
    BY <1>2, <1>3, CommitCreateEffect

LEMMA CommitAppendAnswers ==
    ASSUME TypeOK, NEW p \in Proc, CommitAppend(p)
    PROVE  Atomic!Succeed(p) \/ Atomic!Refuse(p)
<1> DEFINE c == call[p]
           event == [delta |-> c.delta, timestamp |-> c.time]
<1>1. pc[p] = "commit" /\ c.op = "append" /\ Ready(c, "commit")
    BY DEF CommitAppend, CanCommit, TypeOK
<1>2. CASE EventExists(c.key, c.event) /\ Fail(p, "AlreadyExists")
    <2>1. "AlreadyExists" \in Atomic!Refusals(Asked(c))
        BY <1>1, <1>2 DEF EventExists, Atomic!Refusals, Asked
    <2>2. QED
        BY <1>1, <1>2, <2>1, FailLater
<1>3. CASE AppendEffect(c.key, c.event, event) /\ Reply(p)
    <2>1. c.delta = trimTempKeys(c.delta)
        BY <1>1 DEF Ready
    <2>2. Atomic!AppendEvent(c.key, c.event, event)
        BY <1>3, <2>1, NoRowAssumption, SameSplit, SameWrites
        DEF AppendEffect, Atomic!AppendEvent
    <2>3. Atomic!TakeEffect(Asked(c))
        BY <1>1, <2>2 DEF Atomic!TakeEffect, Asked
    <2>4. QED
        BY <1>1, <1>3, <2>3, ReplyIsSucceed
<1>4. QED
    BY <1>2, <1>3, CommitAppendEffect

LEMMA CommitUpdateAnswers ==
    ASSUME TypeOK, NEW p \in Proc, CommitUpdate(p)
    PROVE  Atomic!Succeed(p)
<1> DEFINE c == call[p]
<1>1. pc[p] = "commit" /\ c.op = "update" /\ Ready(c, "commit")
    BY DEF CommitUpdate, CanCommit, TypeOK
<1>2. UpdateEffect(c.key, c.delta, c.row) /\ Reply(p)
    BY CommitUpdateEffect
<1>3. Atomic!Put(c.key, c.row, c.delta)
    BY <1>1, <1>2, SameTables, SameWrites DEF UpdateEffect, Atomic!Put, Ready
<1>4. Atomic!TakeEffect(Asked(c))
    BY <1>1, <1>3 DEF Atomic!TakeEffect, Asked
<1>5. QED
    BY <1>1, <1>2, <1>4, ReplyIsSucceed

LEMMA ApplyDeleteAnswers ==
    ASSUME TypeOK, NEW p \in Proc, ApplyDelete(p)
    PROVE  Atomic!Succeed(p)
<1> DEFINE c == call[p]
<1>1. pc[p] = "apply" /\ c.op = "delete"
    BY DEF ApplyDelete, TypeOK, Ready
<1>2. DeleteEffect(c.key) /\ Reply(p)
    BY ApplyDeleteEffect
<1>3. Atomic!TakeEffect(Asked(c))
    BY <1>1, <1>2, SameTables DEF DeleteEffect, Atomic!Delete, Atomic!TakeEffect, Asked
<1>4. QED
    BY <1>1, <1>2, <1>3, ReplyIsSucceed

(* The detailed store implements AtomicCalls: whatever the calls do        *)
(* between their steps, each takes effect at one moment or not at all, on  *)
(* the tables as they are then, at most once, and answers accordingly.  A  *)
(* create or an append of what is stored already therefore has no effect,  *)
(* its delta included.                                                     *)
THEOREM Refinement == Spec => AtomicSpec
<1>1. Init => Atomic!CallsInit
    BY SameTables DEF Init, Atomic!CallsInit, Atomic!Init, Atomic!Nothing, NoCall
<1>2. TypeOK /\ [Next]_vars => [Atomic!CallsNext]_(Atomic!vars)
    <2> SUFFICES ASSUME TypeOK, [Next]_vars
                 PROVE  Atomic!CallsNext \/ UNCHANGED Atomic!vars
        OBVIOUS
    <2>1. CASE UNCHANGED vars \/ Tick
        BY <2>1 DEF vars, Tick, tables, Atomic!vars, Atomic!tables
    <2>2. ASSUME NEW p \in Proc, Handler(p)
          PROVE  Atomic!CallsNext
        BY <2>2, HandlerAsks DEF Atomic!CallsNext
    <2>3. ASSUME NEW p \in Proc, Transaction(p)
          PROVE  Atomic!CallsNext \/ UNCHANGED Atomic!vars
        BY <2>3, RunClosureRefuses, CommitCreateAnswers, CommitAppendAnswers,
           CommitUpdateAnswers, ApplyDeleteAnswers DEF Transaction, Atomic!CallsNext
    <2>4. ASSUME NEW p \in Proc, GiveUp(p)
          PROVE  Atomic!CallsNext
        <3>1. "DeadlineExceeded" \in Atomic!Refusals(Asked(call[p]))
            BY DEF Atomic!Refusals
        <3>2. QED
            BY <2>4, <3>1, FailLater DEF GiveUp, Atomic!CallsNext
    <2>5. QED
        BY <2>1, <2>2, <2>3, <2>4 DEF Next
<1>3. QED
    BY <1>1, <1>2, TypeCorrect, PTL DEF Spec, AtomicSpec, Atomic!CallsSpec

(* Where no caller uses UpdateSession, the tables change only as           *)
(* AtomicStore, the store under the live sessions, lets them: no row is    *)
(* written over another except by an append, which merges into it.         *)
THEOREM AdkStore == UpdateInput = {} /\ Spec => Atomic!Spec
<1> SUFFICES ASSUME UpdateInput = {}
             PROVE  Spec => Atomic!Spec
    OBVIOUS
<1>1. Init => Atomic!Init
    BY SameTables DEF Init, Atomic!Init
<1>2. TypeOK /\ NoUpdate /\ [Next]_vars => [Atomic!Next]_(Atomic!tables)
    <2> SUFFICES ASSUME TypeOK, NoUpdate, [Next]_vars
                 PROVE  Atomic!Next \/ UNCHANGED tables
        BY DEF tables, Atomic!tables
    <2>1. ASSUME NEW p \in Proc, Effect(p)
          PROVE  Atomic!Next
        <3>1. PICK k \in Key, d \in Maps(StateKey) :
                  \/ \E row \in Session : /\ CreateEffect(k, d, row)
                                          /\ row.state = SessionPart(d)
                  \/ \E e \in EventID, t \in Nat :
                        /\ d = trimTempKeys(d)
                        /\ AppendEffect(k, e, [delta |-> d, timestamp |-> t])
                  \/ DeleteEffect(k)
            <4>1. pc[p] = "commit" => call[p].op # "update"
                BY DEF NoUpdate
            <4>2. QED
                BY <2>1, <4>1 DEF Effect, Commits
        <3>2. ASSUME NEW row \in Session, CreateEffect(k, d, row), row.state = SessionPart(d)
              PROVE  Atomic!Create(k, sessions'[k], d)
            <4>1. sessions'[k] = row
                BY <3>2 DEF CreateEffect, TypeOK
            <4>2. Atomic!Create(k, row, d)
                BY <3>2, SameTables, SameSplit, SameWrites DEF CreateEffect, Atomic!Create
            <4>3. QED
                BY <4>1, <4>2
        <3>3. ASSUME NEW e \in EventID, NEW t \in Nat, d = trimTempKeys(d),
                     AppendEffect(k, e, [delta |-> d, timestamp |-> t])
              PROVE  events'[k][e] \in Event /\ Atomic!AppendEvent(k, e, events'[k][e])
            <4> DEFINE event == [delta |-> d, timestamp |-> t]
            <4>1. event \in Event /\ event.delta = d
                BY DEF Event
            <4> HIDE DEF event
            <4>2. AppendEffect(k, e, event)
                BY <3>3 DEF event
            <4>3. events'[k][e] = event
                BY <4>2 DEF AppendEffect, TypeOK
            <4>4. QED
                BY <3>3, <4>1, <4>2, <4>3, NoRowAssumption, SameSplit, SameWrites
                DEF AppendEffect, Atomic!AppendEvent
        <3>4. ASSUME DeleteEffect(k)
              PROVE  Atomic!Delete(k)
            BY <3>4, SameTables DEF DeleteEffect, Atomic!Delete
        <3>5. QED
            BY <3>1, <3>2, <3>3, <3>4, SameTables DEF Atomic!Next
    <2>2. QED
        BY <2>1, StepEffect
<1>3. QED
    BY <1>1, <1>2, TypeCorrect, NoUpdateInvariant, PTL DEF Spec, Atomic!Spec
==============================================================================
