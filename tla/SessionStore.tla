---------------------------- MODULE SessionStore ----------------------------
(***************************************************************************)
(* SpannerService (spanner.go) and the storing half of ADKService          *)
(* (adk_service.go): concurrent gRPC and ADK calls over one database.      *)
(*                                                                         *)
(* A call starts with what its handler does before its transaction: it     *)
(* validates its arguments, fixes the clock readings it will store, and in *)
(* the by-ID operations and UpdateSession reads a row outside of any       *)
(* transaction.  Then the transaction's closure reads (RunClosure) and the *)
(* buffered mutations commit (CommitCreate, ...), which Spanner allows     *)
(* only while every row the closure read through the transaction still     *)
(* holds what was read; otherwise the closure runs again.  A delete is one *)
(* blind Apply.  The reply of a commit may be lost, and a caller may run   *)
(* out of time before the commit.                                          *)
(***************************************************************************)
EXTENDS SessionTables, FiniteSets

CONSTANTS Proc,          \* concurrent calls
          CreateInput,   \* the sessions that creates are given
          UpdateInput,   \* the session and mask that updates are given
          AppendDelta,   \* the state deltas of appended events
          SuppliedTime,  \* the timestamps of events that already have one
          MaxTime        \* bound on the clock

VARIABLES sessions,    \* table Sessions: [Key -> Session or NoRow]
          events,      \* table SessionEvents: [Key -> [EventID -> Event or NoRow]]
          appStates,   \* table AppStates
          userStates,  \* table UserStates
          now,         \* the wall clock of the service
          pc,          \* where a call is: "idle", "txn", "commit", "apply"
          call,        \* what a call in flight holds in its local variables
          ret          \* the code a call last answered

tables == <<sessions, events, appStates, userStates>>
vars == <<sessions, events, appStates, userStates, now, pc, call, ret>>

MaskPath == {"display_name", "state", "expire_time", "ttl"}

(* The expiration oneof of a request: absent, or one of its two cases. *)
Expiration == [kind : {"none", "expire_time", "ttl"}, at : Nat]

Input == [displayName : DisplayName, state : Maps(StateKey), expiration : Expiration]

ASSUME CreateInputAssumption == CreateInput \subseteq Input
ASSUME UpdateInputAssumption ==
    UpdateInput \subseteq [session : Input, mask : Seq(STRING)]
ASSUME AppendDeltaAssumption == AppendDelta \subseteq Maps(StateKey)
ASSUME TimeAssumption == SuppliedTime \subseteq Nat /\ MaxTime \in Nat

(* The local variables of a call: the operation, the composite key it      *)
(* works on, the event it inserts, its delta, the session row it read or   *)
(* will write, and the app and user rows its closure read.                 *)
Call == [op    : {"create", "append", "update", "delete"},
         key   : Key,
         event : EventID \cup {NoRow},
         time  : Nat,
         delta : Maps(StateKey),
         row   : Session \cup {NoRow},
         app   : Maps(AppVar),
         user  : Maps(UserVar)]

NoCall == [op |-> "none"]

Code == {"none", "OK", "InvalidArgument", "NotFound", "AlreadyExists",
         "FailedPrecondition", "DeadlineExceeded"}

NewCall(op, k, e, t, d, row) ==
    [op |-> op, key |-> k, event |-> e, time |-> t, delta |-> d, row |-> row,
     app |-> EmptyMap(AppVar), user |-> EmptyMap(UserVar)]

(* What the local variables hold at each point of a call: an append names  *)
(* its event and its delta is trimmed, a new session has the session part  *)
(* of its initial state, and the row of a closure about to commit is one   *)
(* that was read or made.                                                  *)
Ready(c, at) ==
    /\ c \in Call
    /\ at = "apply" => c.op = "delete"
    /\ at \in {"txn", "commit"} => c.op # "delete"
    /\ c.op = "append" => c.event \in EventID /\ c.delta = trimTempKeys(c.delta)
    /\ c.op = "create" => c.row.state = SessionPart(c.delta)
    /\ c.op \in {"create", "update"} \/ at = "commit" => c.row \in Session

TypeOK ==
    /\ sessions \in [Key -> Session \cup {NoRow}]
    /\ events \in [Key -> [EventID -> Event \cup {NoRow}]]
    /\ appStates \in [App -> Maps(AppVar)]
    /\ userStates \in [App \X User -> Maps(UserVar)]
    /\ now \in Nat
    /\ pc \in [Proc -> {"idle", "txn", "commit", "apply"}]
    /\ call \in [Proc -> Call \cup {NoCall}]
    /\ \A p \in Proc : pc[p] # "idle" => Ready(call[p], pc[p])
    /\ ret \in [Proc -> Code]

Init ==
    /\ sessions = [k \in Key |-> NoRow]
    /\ events = [k \in Key |-> NoEvents]
    /\ appStates = [a \in App |-> EmptyMap(AppVar)]
    /\ userStates = [u \in App \X User |-> EmptyMap(UserVar)]
    /\ now = 0
    /\ pc = [p \in Proc |-> "idle"]
    /\ call = [p \in Proc |-> NoCall]
    /\ ret = [p \in Proc |-> "none"]

-----------------------------------------------------------------------------
(* Control: a call starts, returns without touching a table, or returns at *)
(* the step that committed.                                                *)

Start(p, c, at) ==
    /\ pc[p] = "idle"
    /\ pc' = [pc EXCEPT ![p] = at]
    /\ call' = [call EXCEPT ![p] = c]
    /\ ret' = [ret EXCEPT ![p] = "none"]
    /\ UNCHANGED <<tables, now>>

Answer(p, codes) ==
    /\ pc' = [pc EXCEPT ![p] = "idle"]
    /\ call' = [call EXCEPT ![p] = NoCall]
    /\ \E code \in codes : ret' = [ret EXCEPT ![p] = code]
    /\ UNCHANGED now

Fail(p, code) == Answer(p, {code}) /\ UNCHANGED tables

(* The mutations took effect; the reply reaches the caller or is lost. *)
Reply(p) == Answer(p, {"OK", "DeadlineExceeded"})

-----------------------------------------------------------------------------
(* The steps a handler takes before its transaction.                       *)

(* normalizeSession and the ttl case of UpdateSession: a ttl is turned     *)
(* into the absolute time it ends.                                         *)
ExpireTime(expiration) ==
    CASE expiration.kind = "expire_time" -> expiration.at
      [] expiration.kind = "ttl" -> now + expiration.at
      [] OTHER -> NoExpiration

(* A plausible defect of normalizeSession: the scoped keys are folded into *)
(* the shared rows but also left on the session.                           *)
normalizeSessionUnsplit(in) ==
    [state |-> in.state, displayName |-> in.displayName,
     expiration |-> ExpireTime(in.expiration), updateTime |-> now]

(* normalizeSession and the clock reading of createSession. *)
normalizeSession(in) ==
    [state |-> SessionPart(in.state), displayName |-> in.displayName,
     expiration |-> ExpireTime(in.expiration), updateTime |-> now]

(* CreateSession and ADK Create, which share createSession.  An ID the     *)
(* service generates is one more ID of SessionID.                          *)
CreateSession(p, k, in) ==
    Start(p, NewCall("create", k, NoRow, now, in.state, normalizeSession(in)), "txn")

(* readSessionByID: the session rows stored under an ID alone. *)
KeysWithID(sid) == {k \in Key : IDOf(k) = sid /\ sessions[k] # NoRow}

(* The failures of readSessionByID, and its single match. *)
NameNotResolved(p, sid) ==
    /\ pc[p] = "idle"
    /\ \/ KeysWithID(sid) = {} /\ Fail(p, "NotFound")
       \/ Cardinality(KeysWithID(sid)) > 1 /\ Fail(p, "FailedPrecondition")

AppendCall(k, e, t, d) == NewCall("append", k, e, t, trimTempKeys(d), NoRow)

(* AppendEvent of the gRPC surface: the event goes under the session its   *)
(* name resolved to.                                                       *)
GrpcAppendEvent(p, sid, e, t, d) ==
    \E k \in KeysWithID(sid) :
        KeysWithID(sid) = {k} /\ Start(p, AppendCall(k, e, t, d), "txn")

(* AppendEvent of the ADK surface: the live session supplies the key.      *)
AdkAppendEvent(p, k, e, t, d) == Start(p, AppendCall(k, e, t, d), "txn")

(* The paths UpdateSession applies: all four when the mask has none. *)
Mask(req) ==
    IF req.mask = <<>> THEN <<"display_name", "state", "expire_time", "ttl">>
                       ELSE req.mask

Masked(req, path) == \E i \in DOMAIN Mask(req) : Mask(req)[i] = path

(* The loop of UpdateSession over the mask.  "expire_time" and "ttl" both  *)
(* overwrite the expiration, with nothing when the request carries the     *)
(* other case, so the last of them in the mask decides.                    *)
MaskedExpiration(req, row) ==
    LET paths == SelectSeq(Mask(req), LAMBDA path : path \in {"expire_time", "ttl"})
        expiration == req.session.expiration
    IN IF paths = <<>> THEN row.expiration
       ELSE IF paths[Len(paths)] = expiration.kind THEN ExpireTime(expiration)
       ELSE NoExpiration

MaskedRow(req, row) ==
    [state       |-> IF Masked(req, "state") THEN SessionPart(req.session.state)
                                             ELSE row.state,
     displayName |-> IF Masked(req, "display_name") THEN req.session.displayName
                                                    ELSE row.displayName,
     expiration  |-> MaskedExpiration(req, row),
     updateTime  |-> now]

MaskedDelta(req) ==
    IF Masked(req, "state") THEN req.session.state ELSE EmptyMap(StateKey)

SupportedMask(req) == \A i \in DOMAIN Mask(req) : Mask(req)[i] \in MaskPath

(* UpdateSession up to its transaction: the row it will write is computed  *)
(* here, from the row stored at this moment.                               *)
UpdateSession(p, k, req) ==
    IF sessions[k] # NoRow /\ SupportedMask(req)
    THEN Start(p, NewCall("update", k, NoRow, now, MaskedDelta(req),
                          MaskedRow(req, sessions[k])), "txn")
    ELSE /\ pc[p] = "idle"
         /\ Fail(p, IF sessions[k] = NoRow THEN "NotFound" ELSE "InvalidArgument")

DeleteCall(k) == NewCall("delete", k, NoRow, now, EmptyMap(StateKey), NoRow)

(* DeleteSession of the gRPC surface and Delete of the ADK surface. *)
DeleteSession(p, sid) ==
    \E k \in KeysWithID(sid) :
        KeysWithID(sid) = {k} /\ Start(p, DeleteCall(k), "apply")

AdkDelete(p, k) == Start(p, DeleteCall(k), "apply")

(* Any operation given a malformed name, page token, filter or session, or *)
(* no event: it answers before it reads a row.                             *)
RejectArguments(p) == pc[p] = "idle" /\ Fail(p, "InvalidArgument")

-----------------------------------------------------------------------------
(* The transaction.                                                        *)

(* A plausible defect: the closure of appendEvent uses a session row read  *)
(* before the transaction.                                                 *)
ReadThroughTxnNotSession(op) == {"app", "user"}

(* A plausible defect: scopedStateMutations reads outside the transaction. *)
ReadThroughTxnNotScoped(op) == IF op = "append" THEN {"session"} ELSE {}

(* The rows a closure reads through its transaction. *)
ReadThroughTxn(op) ==
    IF op = "append" THEN {"session", "app", "user"} ELSE {"app", "user"}

(* The rows the closure works from, as they are stored when it reads them. *)
ReadRows(p) ==
    LET k == call[p].key
        row == IF call[p].op = "append" THEN sessions[k] ELSE call[p].row
    IN /\ pc' = [pc EXCEPT ![p] = "commit"]
       /\ call' = [call EXCEPT ![p] =
             [@ EXCEPT !.app = appStates[AppOf(k)], !.user = userStates[UserOf(k)],
                       !.row = row]]
       /\ UNCHANGED <<tables, now, ret>>

SessionMissing(p) == call[p].op = "append" /\ sessions[call[p].key] = NoRow

(* A plausible defect: a missing session is an attempt to be repeated. *)
RunClosureRetriesMissing(p) ==
    pc[p] \in {"txn", "commit"} /\ ~SessionMissing(p) /\ ReadRows(p)

(* The closure runs, for the first time or again after an abort; an append *)
(* fails if its session is gone.                                           *)
RunClosure(p) ==
    /\ pc[p] \in {"txn", "commit"}
    /\ IF SessionMissing(p) THEN Fail(p, "NotFound") ELSE ReadRows(p)

(* Spanner commits a read-write transaction only if it is as if every read *)
(* through it happened at the commit.                                      *)
ReadsCurrent(p) ==
    LET k == call[p].key
        reads == ReadThroughTxn(call[p].op)
    IN /\ "app" \in reads => call[p].app = appStates[AppOf(k)]
       /\ "user" \in reads => call[p].user = userStates[UserOf(k)]
       /\ "session" \in reads => call[p].row = sessions[k]

CanCommit(p, op) == pc[p] = "commit" /\ call[p].op = op /\ ReadsCurrent(p)

(* The mutations of scopedStateMutations, from the rows the closure read. *)
WriteScoped(p) ==
    LET c == call[p]
    IN /\ appStates' = PutAppState(appStates, c.key, c.app, c.delta)
       /\ userStates' = PutUserState(userStates, c.key, c.user, c.delta)

(* Insert fails on a row that exists. *)
SessionExists(k) == sessions[k] # NoRow

CommitCreate(p) ==
    LET c == call[p]
    IN /\ CanCommit(p, "create")
       /\ IF SessionExists(c.key)
          THEN Fail(p, "AlreadyExists")
          ELSE /\ sessions' = [sessions EXCEPT ![c.key] = c.row]
               /\ WriteScoped(p)
               /\ Reply(p)
               /\ UNCHANGED events

(* A plausible defect: an event is written with InsertOrUpdate. *)
EventExistsNever(k, e) == FALSE

EventExists(k, e) == events[k][e] # NoRow

CommitAppend(p) ==
    LET c == call[p]
        event == [delta |-> c.delta, timestamp |-> c.time]
    IN /\ CanCommit(p, "append")
       /\ IF EventExists(c.key, c.event)
          THEN Fail(p, "AlreadyExists")
          ELSE /\ sessions' = [sessions EXCEPT ![c.key] = AppendedRow(c.row, event)]
               /\ events' = [events EXCEPT ![c.key][c.event] = event]
               /\ WriteScoped(p)
               /\ Reply(p)

(* The session row is written blindly: the transaction never read it. *)
CommitUpdate(p) ==
    LET c == call[p]
    IN /\ CanCommit(p, "update")
       /\ sessions' = [sessions EXCEPT ![c.key] = c.row]
       /\ WriteScoped(p)
       /\ Reply(p)
       /\ UNCHANGED events

(* A plausible defect: the event prefix is left out of the Apply. *)
ApplyDeleteRowOnly(p) ==
    /\ pc[p] = "apply"
    /\ sessions' = [sessions EXCEPT ![call[p].key] = NoRow]
    /\ Reply(p)
    /\ UNCHANGED <<events, appStates, userStates>>

(* deleteSession: the row and the whole event prefix in one Apply. *)
ApplyDelete(p) ==
    LET k == call[p].key
    IN /\ pc[p] = "apply"
       /\ sessions' = [sessions EXCEPT ![k] = NoRow]
       /\ events' = [events EXCEPT ![k] = NoEvents]
       /\ Reply(p)
       /\ UNCHANGED <<appStates, userStates>>

(* The context of a call ends, or Spanner fails it, before its commit. *)
GiveUp(p) == pc[p] # "idle" /\ Fail(p, "DeadlineExceeded")

Tick ==
    /\ now < MaxTime
    /\ now' = now + 1
    /\ UNCHANGED <<tables, pc, call, ret>>

-----------------------------------------------------------------------------
Handler(p) ==
    \/ \E k \in Key, in \in CreateInput : CreateSession(p, k, in)
    \/ \E k \in Key, req \in UpdateInput : UpdateSession(p, k, req)
    \/ \E e \in EventID, t \in SuppliedTime \cup {now}, d \in AppendDelta :
          \/ \E sid \in SessionID : GrpcAppendEvent(p, sid, e, t, d)
          \/ \E k \in Key : AdkAppendEvent(p, k, e, t, d)
    \/ \E sid \in SessionID : DeleteSession(p, sid) \/ NameNotResolved(p, sid)
    \/ \E k \in Key : AdkDelete(p, k)
    \/ RejectArguments(p)

Transaction(p) ==
    RunClosure(p) \/ CommitCreate(p) \/ CommitAppend(p) \/ CommitUpdate(p) \/ ApplyDelete(p)

Next == Tick \/ \E p \in Proc : Handler(p) \/ Transaction(p) \/ GiveUp(p)

Spec == Init /\ [][Next]_vars

(* A closure that Spanner aborts runs again, and the client keeps the      *)
(* transaction's priority over its attempts, so a commit that is possible  *)
(* again and again is not refused for ever.                                *)
Fairness ==
    \A p \in Proc :
        /\ WF_vars(RunClosure(p))
        /\ WF_vars(ApplyDelete(p))
        /\ SF_vars(CommitCreate(p) \/ CommitAppend(p) \/ CommitUpdate(p))

FairSpec == Spec /\ Fairness

-----------------------------------------------------------------------------
(* Properties. *)

(* What a call in flight was asked to do: the row of an append is not part *)
(* of it, for its closure reads that.                                      *)
Asked(c) ==
    [op |-> c.op, key |-> c.key, event |-> c.event, time |-> c.time, delta |-> c.delta,
     row |-> IF c.op \in {"create", "update"} THEN c.row ELSE NoRow]

(* Every call behaves as if it took effect on the four tables in one step  *)
(* between its start and its answer, at most once, and answers accordingly *)
(* (AtomicCalls), however the calls interleave, abort, retry, give up or   *)
(* lose their replies.                                                     *)
Atomic == INSTANCE AtomicCalls
    WITH Caller <- Proc, answered <- ret,
         asked <- [p \in Proc |-> IF pc[p] = "idle" THEN NoCall ELSE Asked(call[p])]

AtomicSpec == Atomic!CallsSpec

(* No event is stored under a session that is not: appendEvent re-reads    *)
(* the session in the transaction that inserts the event, and              *)
(* deleteSession removes the row and its events together.                  *)
NoOrphanEvents ==
    \A k \in Key, e \in EventID : events[k][e] # NoRow => sessions[k] # NoRow

(* A stored event never changes, and it disappears only together with its  *)
(* session and all the other events of it: a call that repeats an append   *)
(* whose reply was lost, with the same event ID, changes nothing.          *)
KeepsEvents ==
    \A k \in Key, e \in EventID :
        events[k][e] # NoRow =>
            \/ events'[k][e] = events[k][e]
            \/ sessions'[k] = NoRow /\ events'[k] = NoEvents

EventsWriteOnce == [][KeepsEvents]_vars

(* The merged state an ADK session shows: mergeStateMaps of the three rows.*)
View(k) ==
    mergeStateMaps(appStates[AppOf(k)], userStates[UserOf(k)], sessions[k].state)

(* The step that stores an event applies its whole delta, and nothing      *)
(* else, to the state its session shows at that moment, whatever other     *)
(* calls committed between the reads of the append and its commit: app     *)
(* and user keys reach the shared rows in the step that inserts the event. *)
AppliesStoredEvent ==
    \A k \in Key, e \in EventID :
        events[k][e] = NoRow /\ events'[k][e] # NoRow =>
            View(k)' = mergedState(View(k), events'[k][e].delta)

StoredEventFullyApplied == [][AppliesStoredEvent]_vars

(* A call commits in this step with delta d for session key k. *)
Commits(p, k, d) ==
    pc[p] = "commit" /\ pc'[p] = "idle" /\ call[p].key = k /\ call[p].delta = d

(* A key of a shared row changes only to the value that a call committing  *)
(* in that very step was given for it: concurrent deltas do not overwrite  *)
(* each other, so no row goes back to an older value or loses a key.       *)
AppStateFromDelta ==
    \A a \in App, n \in AppVar :
        appStates'[a][n] # appStates[a][n] =>
            /\ appStates'[a][n] # NoValue
            /\ \E p \in Proc, k \in Key, d \in Maps(StateKey) :
                  Commits(p, k, d) /\ AppOf(k) = a /\ AppPart(d)[n] = appStates'[a][n]

UserStateFromDelta ==
    \A u \in App \X User, n \in UserVar :
        userStates'[u][n] # userStates[u][n] =>
            /\ userStates'[u][n] # NoValue
            /\ \E p \in Proc, k \in Key, d \in Maps(StateKey) :
                  Commits(p, k, d) /\ UserOf(k) = u /\ UserPart(d)[n] = userStates'[u][n]

ScopedStateNeverReverts == [][AppStateFromDelta /\ UserStateFromDelta]_vars

(* Every session key that a stored event's delta set is in the state of    *)
(* its session.  It holds among appends, creates and deletes; an update    *)
(* whose mask leaves out "state" breaks it, for it writes back the row it  *)
(* read before its transaction.                                            *)
AppendedStateSurvives ==
    \A k \in Key, e \in EventID :
        sessions[k] # NoRow /\ events[k][e] # NoRow =>
            \A n \in SessionVar :
                SessionPart(events[k][e].delta)[n] # NoValue => sessions[k].state[n] # NoValue

(* A session that is gone comes back only through a create: an append whose*)
(* session a delete took away does not store it again.  An update may (run *)
(* revived), for its transaction does not read the row it writes.          *)
RevivedByCreate ==
    \A k \in Key :
        sessions[k] = NoRow /\ sessions'[k] # NoRow =>
            \E p \in Proc : /\ pc[p] = "commit" /\ pc'[p] = "idle"
                           /\ call[p].op = "create" /\ call[p].key = k

DeletedStaysDeleted == [][RevivedByCreate]_vars

(* Every call returns. *)
EveryCallReturns == \A p \in Proc : pc[p] # "idle" ~> pc[p] = "idle"
=============================================================================
