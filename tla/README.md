# A TLA+ model of adk-sessions-go

The Go package `sessions` stores agent sessions in Cloud Spanner and serves them through two
surfaces: the generated gRPC `SessionService` (`spanner.go`) and ADK's `session.Service`
(`adk_service.go`). This directory holds a TLA+ model of it, the TLC configurations that check the
model on small instances, and theorems about it that TLAPS checks for every value of the constants.

## The system

### State

| Where | What | Key |
|---|---|---|
| `Sessions` | one row per session: session-scoped state, display name, expiration, update time | `(session_id, app_name, user_id)` |
| `SessionEvents` | one row per event: state delta, timestamp, content | `(session_id, app_name, user_id, event_id)` |
| `AppStates` | the `app:` keys, shared by all sessions of an app | `app_name` |
| `UserStates` | the `user:` keys, shared by the sessions of a user within an app | `(app_name, user_id)` |
| `DatabaseSession` | in memory, one per running invocation: merged state and event list, behind a mutex | - |

### Components

| Component | Source | Operations | What makes it correct |
|---|---|---|---|
| State scopes | `helpers.go`, `spanner.go`, `event_conversion.go` | split by prefix, trim `temp:`, merge a delta, merge the three scopes into one view | splitting and merging are inverse; no key changes scope |
| Session store, writes | `spanner.go` | `CreateSession`, `UpdateSession`, `AppendEvent`, `DeleteSession` | each operation is atomic over the four tables; nothing a call committed is taken back by another; events have a session; a repeated append applies once |
| ADK service, writes | `adk_service.go` | `Create`, `AppendEvent`, `Delete` | same store, composite key instead of an ID |
| Live session | `adk_service.go` | `DatabaseSession`, `State`, `Events` | shows stored events only, each once, with their state; own writes visible; an event object appended again is stored once |
| ADK reads | `adk_service.go`, `spanner.go` | `Get` (one read-only snapshot), `List` | `Get` is one moment of the store; `List` puts the last updated first |
| gRPC reads, paging | `spanner.go`, `helpers.go` | `GetSession`, `ListSessions`, `GetEvent`, `ListEvents` | pages neither skip nor repeat what did not change |
| Event queries | `spanner.go`, `helpers.go` | `listSessionEvents`, the `timestamp` filter | `after`, `numRecent` and the filter return the right events at microsecond precision |
| Event conversion | `event_conversion.go` | ADK event to proto and back | nil and empty values survive the round trip as documented |
| genai conversion | `conversion.go`, `metadata_conversion.go` | content, parts, grounding, usage, citations, log probabilities | as for events; a nil list element is an empty message |
| Names, tokens, filters | `helpers.go` | parsing | malformed input changes nothing |
| Set-up, test harness | `spanner.go`, `internal/spannertest` | connect, DDL | - |

Both surfaces call the same `createSession`, `appendEvent` and `deleteSession`; they differ in how
they find the session. The gRPC names carry only a session ID, so a handler first resolves it with
a query outside any transaction (`readSessionByID`), while ADK supplies app, user and ID. Calls
share no memory except a `DatabaseSession` used by several goroutines; everything else meets in
Spanner.

### What is hard here

- Concurrency: every handler is a read phase, a transaction and an answer, and other calls commit
  between these. What is read inside the transaction is protected by Spanner; what is read before
  it (the row of `UpdateSession`, the key of a by-ID operation, the clock) is not.
- Failure: Spanner aborts a transaction and the client runs the closure again; a commit may be
  applied and its reply lost; a context may end at any point before the commit.
- Several rows per operation: an append writes up to four rows of four tables.
- Order: `update_time` is the event's timestamp and is read before the commit; timestamps are kept
  in nanoseconds and compared in microseconds.
- Two copies: a live session is updated after the store, in a step of its own, by each goroutine for
  itself.
- Time between calls: a page token is an offset into a query that each call runs anew.
- Shapes: ADK tells a nil map from an empty one, and the encoders treat nil maps differently.

The complete list, with the lines, is `hazards` in `PROJECT.json`.

## Modules

| Module | Role |
|---|---|
| `ScopedState` | keys with prefixes, state maps, `splitScopedState`, `trimTempKeys`, `mergedState`, `mergeStateMaps` as operators |
| `ScopedRows` | the three rows under a sequence of deltas; properties of split and merge |
| `SessionTables` | keys and rows of the four tables, row-level writes |
| `AtomicStore` | abstract specification: what creating, appending and deleting do to the tables, each in one step |
| `AtomicCalls` | abstract specification of concurrent calls: each asks, takes effect at one moment, once or not at all, and answers; adds the update, which writes over whatever is stored (`Put`) |
| `SessionStore` | detailed specification: concurrent gRPC and ADK calls, step by step; the properties |
| `EventQuery` | `listSessionEvents`: the microsecond column, `after`, `numRecent`, the order |
| `LiveSession` | live sessions next to a store of one-step operations; `Get` read by read, `AppendEvent` in two halves |
| `Paging` | a caller walks through `ListSessions` or `ListEvents` while others write |
| `GoValues` | pointers, slices and values of the type `any` as sets; the conversions of single fields: `sanitizeValue`, `structOrNil`, `jsonValue`, `cloneOrNil`, enums, times |
| `GenaiContent` | `contentToProto`, `contentFromProto`, parts and function responses |
| `GenaiMetadata` | grounding, usage, citations, log probabilities |
| `EventConversion` | `eventToProto` and `protoToEvent` over the three above; an event is appended, read, and appended again |
| `ScopedStateProofs`, `ScopedRowsProofs` | split and merge |
| `SessionTablesProofs` | lemmas on keys and rows that the next two share |
| `SessionStoreProofs`, `LiveSessionProofs`, `PagingProofs` | the theorems of the three state machines |
| `EventConversionProofs` | what each conversion keeps, and the theorems of `EventConversion` |
| `MCScopedRows`, `MCSessionStore`, `MCLiveSession`, `MCPaging`, `MCEventConversion` | instances for TLC |

`SessionStore` extends `SessionTables` (which extends `ScopedState`) and instantiates `AtomicCalls`,
which extends `AtomicStore`, with its own tables as `Atomic`. `LiveSession` extends `EventQuery`, which
extends `SessionTables`, and instantiates `AtomicStore` as `Store`: it relies on what `SessionStore`
without `UpdateSession` is shown to implement (the theorem `AdkStore`), and `StoreSpec` checks that it
asks for nothing else. `EventConversion` extends
`GenaiContent` and `GenaiMetadata`, which extend `GoValues`. `Paging` and `EventConversion` stand
alone, with the rows and values their questions are about.

### How `SessionStore` corresponds to the code

State: the four tables are total functions with `NoRow` (or the empty map) for a missing row; `now`
is the wall clock; each `p \in Proc` is one call in flight with a position `pc[p]`, its local
variables `call[p]` and its last answer `ret[p]`. `pc` is `"idle"` (no call), `"txn"` (about to run
the transaction closure), `"commit"` (closure done, mutations buffered) or `"apply"` (about to run
the blind `Apply` of a delete).

| Action | Code |
|---|---|
| `CreateSession` | `normalizeSession` and the clock reading of `createSession` |
| `GrpcAppendEvent`, `AdkAppendEvent` | resolve the key (gRPC) or take it (ADK), fix ID and timestamp, `trimTempKeys` |
| `UpdateSession` | read the row outside the transaction, apply the mask, compute the row to write |
| `DeleteSession`, `AdkDelete` | resolve or take the key |
| `NameNotResolved` | `NotFound` or `FailedPrecondition` of `readSessionByID` |
| `RejectArguments` | every `InvalidArgument` before the first read |
| `RunClosure` | the transaction closure up to `BufferWrite`, first attempt or re-run; `NotFound` if an append's session is gone |
| `CommitCreate`, `CommitAppend`, `CommitUpdate` | the commit: `AlreadyExists` of an `Insert`, or all mutations at once |
| `ApplyDelete` | `deleteSession` |
| `GiveUp` | the context ends or a read fails, before the commit |
| `Tick` | time passes |

A commit answers `OK` or, the reply lost, `DeadlineExceeded`; both answers follow the same effect.

Spanner is external and modelled by what it guarantees to a read-write transaction: it commits only
if every row read through the transaction still holds what was read (`ReadsCurrent`), otherwise the
closure runs again. The reads of one closure are one step: a closure that saw rows of different
moments cannot commit unless all of them are current at the commit, and its only other outcome that
is visible, `NotFound`, depends on one row. Which reads go through the transaction is taken from the
code (`ReadThroughTxn`): app and user rows always, the session row in `appendEvent`, and no session
row in `UpdateSession` and `createSession`.

Data: a state key is a sequence of the prefixes and the rest (`<<"app:", "user:", "x">>`), so a
nested prefix is cut once, as the code cuts it. A map that is `NoValue` everywhere stands for a nil
map, an empty one and a missing row, which the code treats alike. Event content, JSON encoding,
create times and the update times of the shared rows are left out: no write depends on them. A
generated session or event ID is one more member of `SessionID` or `EventID`.

`MaskedExpiration` states the mask loop in closed form: `expire_time` and `ttl` both assign the
expiration, so the last of them in the mask decides, and with the default mask that is `ttl`, which
clears the expiration of a request that carries an `expire_time`.

### What `AtomicCalls` promises

`asked[p]` is what caller `p` wants and has no answer to, `answered[p]` the code of its last answer. Under
the refinement mapping they are what `call[p]` holds while the call is in flight (`Asked`) and `ret[p]`. A
call that took effect forgets what it asked for in the same step, so it cannot take effect again: a
repeated closure or a second `Insert` of a stored event may not merge the delta once more. `Create` needs
a free key and `AppendEvent` a session and a free event ID; `Refusals` says which code a call without
effect may answer in which state of the tables. Only an update is free to write over a row, since the
code does (`lost_state`, `revived`): what it writes is settled when it asks, from the row stored at that
moment (`Updates`).

### How `LiveSession` corresponds to the code

`live[h]` is a `*DatabaseSession` (key, merged state, events, update time) or `NotOpen`; `pc[r]` and
`call[r]` are the position and the local variables of a goroutine in `ADKService`.

| Action | Code |
|---|---|
| `Create` | `Create`: commit and return are one step, for nobody holds the new live session before; a lost reply leaves the row without one |
| `Get`, `GetScoped`, `GetEvents` | the reads of `Get` in one read-only transaction: session row, app and user rows, events |
| `AppendEvent` | ID and timestamp are fixed, in the caller's object, and the event converted |
| `StoreEvent` | `store.appendEvent` as the one step of `AtomicStore`, answered or the reply lost |
| `ApplyEvent` | `DatabaseSession.appendEvent`, under the mutex |
| `CallFails` | an error of the store or of a read ends the call |
| `Set` | `State.Set` |
| `Close` | a runner lets go of its live session |
| `Delete` | another caller's `Delete` |

Since the snapshot is one moment of the store, `call` holds it from the first read on and the later
reads take from it (`ReadFrom`); reading the current rows instead is the mutant that breaks
`ShownEventsApplied`. Event IDs are numbers that stand for the rank of the string, because ties in the
timestamp column are broken by ID. An event with `Partial` set returns before any effect.

`object[o]` is an event object (`*session.Event`) of a caller. `AppendEvent` assigns a missing ID and
time in place, before anything can fail, and the object is free again when the call returned, however
it returned: a caller may append it again, to the same or to another live session. `kept[o]` is a
history variable, the rows that the object was stored in, for `StoredAtMostOnce`. No two calls use one
object at the same time, which would be a data race of the callers (`InUse`). `NewUUID` takes an ID
that no object and no row has.

### How `Paging` corresponds to the code

`table` holds sessions (create time, update time, the display name to filter by) or events
(timestamp). `List` is one call: `Results` are all sequences of matching rows that the `ORDER BY`
allows, because it does not separate equal times and each call is a new query; `Limited` is
`LIMIT`/`OFFSET`, `Page` cuts the extra row, `NextOffset` is what the token carries. `FirstPage` and
`NextPage` are the calls without and with a token. The writers are those of `spanner.go`, reduced to
what they do to a row's order and filter columns. `UpdateSession` makes the row to write from the one it
reads, `CommitUpdate` writes it later, blindly, also where the session was deleted since; `updating` holds
the updates in between. A create's time was read at any moment before its commit. `listed`, `steady`,
`came` and `left` are history variables: the pages so far; which rows were there at the start, were never
level with another and were not written since; and whether a write moved some row to an earlier or a
later place. The history of a walk that is over is dropped at the next write (`Forget`). Malformed tokens
and filters are refused before the query.

An event's timestamp is in nanoseconds, `Micro` of them to a microsecond. `Column` is what the query
orders and filters by, the generated column of whole microseconds (`Truncate`), as the schema in the
repository's `README.md` defines it; the schema that the tests create in the emulator keeps whole seconds. `buildEventFilter` compares it with the time in the filter as that was given,
nanoseconds and all, which `FilterWithinAMicrosecond` shows to be off by less than a microsecond.
Sessions are ordered by their columns only, so their times are in microseconds from the start.

### How `EventConversion` corresponds to the code

A pointer is the set of what it points to, so nil is `{}` (`Nil`) and dereferencing nil is a `CHOOSE`
from the empty set, of which nothing is known. A slice is a pointer to a list: `Nil` is the nil slice,
`{<<>>}` the empty one, and ADK tells them apart. A proto message has plain lists, for unset and empty
are the same there, and its optional fields are pointers again. `Or(p, zero)` is a getter of the
generated code or a nil check, `Items` a `range` over a slice, `cloneOrNil` the way back.

A value of the type `any` is the set of its nodes, each with its path of keys and indices and a kind:
nil, string, int, float, map, nil map, list, one of the typed genai objects that `sanitizeValue` knows
(`"call"`, `"confirmation"`), another type that only JSON encodes (`"struct"`), or one that nothing
encodes (`"chan"`). Every conversion of a value leaves the paths as they are and changes kinds: an int
becomes a float, a call a map, a map without entries a nil map. So the recursive functions of
`conversion.go` are set comprehensions here, without a recursive operator, and can be reasoned about. What
`sanitizeValue` leaves alone is a node below a struct (`WithinStruct`).

An event has one field for each way of converting. `structpb`, `encoding/json` and `protojson` are
external: `StructFits`, `JSONFits` and `Encoded` state which values they accept and what is read back, in
particular that `NewStruct` makes a nil map an empty object and JSON makes it `null`. `Store` is a
conversion with its three outcomes, `Get` the way back, `AppendRead` the append of an event that was
read, `Discard` the caller going on to another event. `Says` is the reference: what an event means,
whatever its shape; `ToBeKept` is that without the `temp:` keys of the delta, none of which may be in what
is read back. An enum name is its prefix and the rest; the number in the proto is stood for by the
rest.

A part and a grounding chunk are Go structs of which the converter takes the first populated field
(`OneOf`); the proto has one field, or none. Fields without a counterpart in the proto (`doc.go`,
"Fidelity") are stood for by one of a part (`toolCall`) and one of a chunk (`image`). Lists of pointers
may have nil elements. All converters but two make an empty message of one; the review snippets and the
source flagging URIs are dereferenced (`ChunkPanics`, `GroundingPanics`). The schema of a requested input
is an object, or the boolean that says that anything will do, which has no object form and is refused:
`jsonschema` is external, and that it writes such a schema as a boolean is JSON Schema's own convention.

## Runs

| Run | Instance | Shows |
|---|---|---|
| `scopes` | 5 keys with nested prefixes, 2 values, all rows, all deltas | `SplitLosesNothing`, `ViewAppliesDelta` |
| `atomic` | 2 calls, 1 session key, 1 event ID, all mask shapes, clock to 1, fairness | `TypeOK`, `NoOrphanEvents`, `EventsWriteOnce`, refinement of `AtomicCalls` (`AtomicSpec`), `EveryCallReturns` |
| `shared` | 2 calls, 2 users with the same session ID, 2 event IDs, deltas on different keys of the app row, no `UpdateSession` | `AppendedStateSurvives`, `StoredEventFullyApplied`, `ScopedStateNeverReverts`, `DeletedStaysDeleted` |
| `lost_state` | an update that only renames, and an append | `AppendedStateSurvives` is violated |
| `revived` | an update and a delete | `DeletedStaysDeleted` is violated |
| `live` | 2 live sessions, 2 runners, 2 event objects with and without an ID, 2 event IDs, lost replies, `State.Set` | `LiveTypeOK`, `ShownEventsStored`, `ShownOnce`, `StoredAtMostOnce`, `ShownEventsApplied` |
| `alone` | 1 live session at a time, 1 runner, 3 event objects, a "microsecond" of 2 ns, every `after` in 0..4 and `numRecent` in 0..2, deletes | `UpToDate`, `GetReturnsWhatWasAsked`, `GetListsInOrder`, `StoreSpec` |
| `diverges` | 1 live session, 2 runners | `UpToDate` is violated |
| `pages` | 3 sessions or events, 14 requests, 2 names, one update under way at a time, clock to 1, a "microsecond" of 2 ns, event times in 0..4, all five comparisons, page sizes 1 and the maximum 2 | `PagingTypeOK`, `NothingSkipped`, `NothingRepeated`, `FilterWithinAMicrosecond` |
| `round_trip` | an empty and a full event, each with every option of one field | `RoundTripsLosslessly`, `ReadsNilForAbsent`, `RefusedForWhatIsStored`, `ReadAgainTheSame` |
| `empty_object` | a tool confirmation with an empty object in its payload | `RoundTripsLosslessly` is violated |
| `nil_element` | nil elements in the lists of grounding, usage and citations | `EveryAppendAnswers` is violated |

### What the violations show

- `lost_state`: `UpdateSession` reads the row at `spanner.go:171`, outside its transaction, and
  writes it back whole at line 215. An append that commits in between has its event stored and its
  session keys taken away, even though the mask named only `display_name`.
- `revived`: the same blind write stores a session again that a delete, answered `OK`, had removed.
  The revived session has no events.
- `diverges`: two goroutines append to one live session. Each stores its event and then applies it; if
  the applications happen in the other order, the live session ends with the older value while the store
  has the newer one. `alone` shows the same property to hold for one goroutine.
- `empty_object`: `sanitizeMap` makes an empty map nil, which JSON writes as `null`. An empty object in
  the payload of a tool confirmation reads back as nil; elsewhere it is kept. The run `round_trip`
  leaves this value out, and with it nil maps where values are stored as JSON (they are `null` there) and
  empty typed objects (`NoNullObjects`, see Proofs).
- `nil_element`: a nil pointer among the review snippets of a place (`metadata_conversion.go:139`) or
  the source flagging URIs of a grounding (line 35) makes `AppendEvent` panic, where the converters of
  chunks, supports, token counts, citations and candidates store an empty message. `round_trip` has nil
  elements in all the other lists and leaves these two out.

### Orders that are not checked

Two orders differ from what a comment says without being the subject of a run. An append sets
`update_time` to the event's timestamp, fixed before the transaction or supplied by the caller, so the
session written last can carry the older date and `List` ("most recently updated first",
`adk_service.go:90`) puts it second. And `listSessionEvents` ("in timestamp order", `spanner.go:542`)
orders by the microsecond column and then by event ID, so two events of one microsecond can be listed
against their timestamps.

### Bounds

`Proc`, `EventID`, `User`, `SessionID` and the value sets are the cfg's; `MaxTime` bounds the clock,
and the input sets `CreateInput`, `UpdateInput`, `AppendDelta`, `SuppliedTime` bound what callers
send. Calls are unbounded in number: an answered call makes room for the next. Two calls are enough
for the races in question, each of which is one call's read and commit around another's commit;
the theorems are for any number. Two values and two deltas on the same keys make an overwritten or reverted
value visible. Two users under one app, with the same session ID, make the app row shared, the user
rows distinct and the ID ambiguous. `atomic` has one event ID only;
its repetition under the same ID is the retry. `Proc` is symmetric and reduced, except in `atomic`,
whose liveness property makes symmetry unsound.

In `LiveSession`, two live sessions of one stored session let one be read while the other is appended
to, two event objects let one be appended again while the other is under way, and an object that
brings an ID lets two objects claim the same one; three objects in `alone` make a `numRecent` of 2
leave something out. The clock and its bound `MaxTime` matter only where update times are compared.
`DeletedKey` is empty in `live`: the ID of an event deleted with its session is free again, and the
live session of a deleted session rightly shows events that are gone. Event IDs are ranks, so they are
not symmetric; handles, runners and objects are. In `Paging`, three rows and page size 1 give walks of
up to three pages, with a write between any two; a microsecond of two nanoseconds gives a filter both a
time within one (3) and one on its boundary (2), with events before, at and after each. One update under way (`MaxUpdates`)
is enough for it to be overtaken by a delete, a create or an append, and an append to a listed session has
one date, past all that the clock shows (`AppendTime`); the theorems are for any number. `DefaultPageSize` and `MaxPageSize` are small so that both are reached. A walk that is fed new rows for
ever need not end, so nothing is claimed about its end: the rows of the instance are finite, those of
a database are not. In `EventConversion` no conversion looks at another field of the event, so one
field is varied at a time, on an event without anything else and on one with something everywhere.

### Fairness

`FairSpec` assumes that a call in progress runs its closure and its delete (weak fairness; nothing
in the code waits for anything else) and strong fairness of the commit: the Spanner client keeps a
transaction's priority across its attempts, so one whose reads are current again and again commits.
Weak fairness would not do, for another commit disables it each time. Handlers, `GiveUp` and `Tick`
have no fairness: nobody has to call, time out or wait.

## Proofs

`tlapm` on each of the seven `...Proofs` modules checks every proof. They hold for any number of
concurrent calls, runners and live sessions, and any sets of keys, values, users, sessions, requests and inputs, under the named assumptions of the
modules: keys are non-empty sequences, the sentinels `NoValue`, `NoRow`, `NoExpiration`, `NotOpen` are
not values, rows, times or live sessions, event IDs are a finite set of ranks, rows of a listing are
finitely many, and inputs and events are typed (`Events \subseteq Event`).

| Theorem | States |
|---|---|
| `SplitCorrect`, `ViewCorrect` | `SplitLosesNothing` and `ViewAppliesDelta` of `ScopedRows` |
| `TypeCorrect` | `Spec => []TypeOK` |
| `NoOrphans` | `Spec => []NoOrphanEvents` |
| `AppendsKeepState` | `UpdateInput = {} /\ Spec => []AppendedStateSurvives` |
| `EventsWrittenOnce` | `Spec => EventsWriteOnce` |
| `EventsFullyApplied` | `Spec => StoredEventFullyApplied` |
| `ScopedStateMonotone` | `Spec => ScopedStateNeverReverts` |
| `RevivalNeedsCreate` | `UpdateInput = {} /\ Spec => DeletedStaysDeleted` |
| `Refinement` | `Spec => AtomicSpec` |
| `AdkStore` | `UpdateInput = {} /\ Spec => Atomic!Spec`: without updates the tables are an `AtomicStore` |
| `LiveTypeCorrect` | `Spec => []LiveTypeOK` |
| `LiveRefinement` | `Spec => StoreSpec` |
| `StoredOnce` | `Spec => []StoredAtMostOnce` |
| `ShownAreStored`, `ShownAtMostOnce` | `Spec => []ShownEventsStored`, `Spec => []ShownOnce` |
| `ShownAreApplied` | `Spec => []ShownEventsApplied` |
| `GetAnswersItsRequest` | `Spec => GetReturnsWhatWasAsked` |
| `GetKeepsOrder` | `Spec => GetListsInOrder` |
| `AloneIsUpToDate` | `Alone`, that is one runner, one live session, no `State.Set` and no lost reply, implies `Spec => []UpToDate` |
| `PagingTypeCorrect` | `Spec => []PagingTypeOK` |
| `SteadyRowsListed`, `SteadyRowsListedOnce` | `Spec => []NothingSkipped`, `Spec => []NothingRepeated` |
| `FilterOffByLessThanAMicrosecond` | `Spec => FilterWithinAMicrosecond` |
| `ReadsNil`, `Refused` | `Spec => []ReadsNilForAbsent`, `Spec => []RefusedForWhatIsStored` |
| `RoundTrips` | `Spec => []RoundTripsLosslessly`, if `NoNullObjects` holds of every event |
| `ReadAgain` | `Spec => ReadAgainTheSame`, if `NoEmptyStructs` holds of every event |

**`SessionStore`.** `TypeOK` is inductive because it says, through `Ready`, what the local variables of a
call hold at each position: an append in flight has an event ID and a trimmed delta, a create's row
has the session part of its delta, and at `"commit"` the row is one that was read or made. Types
alone would not do: the row written by a commit comes from `call`. From there, the commit lemmas
(`CommitCreateEffect`, ...) turn `ReadsCurrent` into statements about the tables only: a commit acts
on the rows as they are stored at that moment (`CreateEffect`, `AppendEffect`, `UpdateEffect`,
`DeleteEffect`), and `StepEffect` says that every other step leaves the tables alone. Each safety
theorem is then a case analysis over four effects. `Refinement` follows a call: its handler asks
(`HandlerAsks`) or is rejected at once (`FailAtOnce`), a read keeps what it asked for
(`ReadKeepsAsking`), and a commit takes the asked effect and answers, or refuses with a code that the
tables deserve (`CommitCreateAnswers`, ...). `AdkStore` is the same analysis without updates. `EventsFullyApplied` rests on
`MergeThenView`, the theorem on split and merge. `AppendsKeepState` uses `NoOrphans`: a new session
has no events yet, so it owes them no state; its hypothesis is the absence of the operation that
`lost_state` shows to break it.

**`LiveSession`.** `LiveTypeOK` is inductive: what a runner's call holds depends on its position, and a
live session that a call appends to stays open. Four invariants build on it.

- `ObjectsNamed` (for `StoredOnce`): every row in `kept[o]` has the ID that the object has now, so two
  rows of one session are the same row. It holds because the ID is assigned in place and never changed.
- `ViewInv` (for `ShownAreStored` and `ShownAtMostOnce`). What is shown was read from a snapshot or
  stored by a call, so the invariant follows an event on its way: a snapshot's events are still stored
  (`SnapshotOK`), shown events are stored and have distinct IDs (`ShownOK`), an event between the two
  halves of its append is stored and not yet shown (`PendingOK`), and two such events of one session
  have different IDs (`ApartOK`), because the second `Insert` would have failed. All of it is about
  sessions that nobody deletes, whose events only grow.
- `AppliedInv` (for `ShownAreApplied`): the rows cover the deltas of their events (`RowsApplied`), so a
  snapshot does (`SnapshotApplied`), and so does a live session (`ViewApplied`). A merge only adds keys.
- `AloneInv` (for `AloneIsUpToDate`): the live session agrees with the rows (`UpToDateOK`), or its call is
  between its halves and will agree once the event is applied (`ArrivingOK`), or a `Get` holds rows that
  are still current (`ReadOK`). With a second runner the middle case fails, as `diverges` shows.

**`Paging`.** A row's `Rank` is the number of matching rows before it. In every result the `ORDER BY`
allows, a row that is level with none stands at its rank (`PlaceIsRank`), so a page lists
it exactly if the rank lies within the page (`ListEffect`). `WalkInv` adds, for each steady row, that
the offset of the token cuts the walk (`Cut`): a steady row of lower rank was listed unless some row
left, and one that was listed has a lower rank unless some row came. A write that
brings nothing to an earlier place leaves no other row's rank higher, and one that takes nothing away
or to a later place leaves none lower (`WriteKeepsRank`).

**One query.** `GetReturnsWhatWasAsked`, `GetListsInOrder` and `FilterWithinAMicrosecond` are about a
single step, so the type invariant is all that `GetAnswersItsRequest`, `GetKeepsOrder` and
`FilterOffByLessThanAMicrosecond` need of the state.
The rest is about the results a query may have: a sorted result has each matching row once
(`SortedComplete`, `ResultComplete`: as many places as rows, and no row in two), `Get` takes the newest
`numRecent` of it (`ListedFound`), which in the ascending order are its last ones (`ListedOrder`), a page is a window of it (`PageIsWindow`), and truncation takes off
less than a microsecond and keeps the order (`TruncateOrder`, `TruncateLoses`).

**`EventConversion`.** The theorems are for values of any depth and width, with lists of any length. Each
converter is composed with its inverse (`StructBack`, `JSONBack`, `PartBack`, `ContentBack`,
`GroundingBack`, ... up to `EventBack`) and three things are shown of the composition: what comes back
says the same (`...RoundTrip`), has nil where there was nothing (`...ReadsNil`, or with `...Stable`), and
goes through again unchanged, with all its values accepted (`...Stable`). Values come first: a node of
what comes back has the path of one that went in, and its kind says the same, so meanings agree; what
comes back has no int, typed object or nil map (`Plain`), and of those nothing is changed again
(`PlainStable`). Two
invariants do the rest: `Answered`, an answer is what the event given deserves and the row and what was
read are made of it; and `Origin`, the event given is a caller's or is `EventBack` of one. The second
is what makes a caller who appends what it read, over and over, a case already covered.

`ReadsNil` and `Refused` have no hypothesis on the events. The other two have one that the code needs.

- `NoNullObjects`: no confirmation payload, output or requested input's payload has a nil map, which JSON
  writes as `null`; nor has a confirmation payload an empty map, of which `sanitizeValue` makes a nil one,
  which is the violation of `empty_object`; nor an empty typed object.
- `NoEmptyStructs` is weaker and about confirmations only: an empty typed object of a payload reads back
  as `{}`, and that, appended again, as nil, so the event is not stable at once; the same holds of an
  empty map within a typed object that `sanitizeValue` leaves alone. Other nil and empty maps are nil
  after one reading, and stay so.

The run `round_trip` has TLC evaluate `NoNullObjects` on its events (`MCEventsAssumption`), which implies
`NoEmptyStructs`, so the hypotheses hold of an instance with every other option of every field.

Only model-checked: `EveryCallReturns`, as liveness is out of this prover's reach. Violated, hence not
theorems: the properties of the violation runs.

## Plan

All that the plan named is modelled. What could be added:

1. `ListEvents` of an ambiguous session ID, if the documentation comes to promise something for it.
2. Aliasing between the live session and the caller's event (`copyEvent`), which needs objects within
   events.

## Not modelled

- `GetSession`, `GetEvent` and the filter of `List`: single queries with nothing concurrent about them.
- Strings, numbers, flags and structs of these in events and metadata: they are copied.
- What `copyEvent` shares with the caller's event: an applied event is a value in the model.
- Typed nil pointers within maps (`sanitizeValue` dereferences them).
- Regular expressions, formatting, the encoding of page tokens: their only effect on the store is
  `RejectArguments`, and a listing that is refused.
- Connection set-up, table prefixes, gRPC registration, the emulator harness.
- `Policy` columns: no code reads or writes them.
