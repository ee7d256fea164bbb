-------------------------------- MODULE Paging --------------------------------
(***************************************************************************)
(* ListSessions and ListEvents (spanner.go, helpers.go): a caller walks    *)
(* through a listing page by page while other callers write.  A page token *)
(* is an offset into a query that each call runs anew, on the rows of that *)
(* moment, so what a walk returns depends on where the writes in between   *)
(* put the rows.                                                           *)
(*                                                                         *)
(* The rows are sessions, or the events with one session ID.  A session    *)
(* has a create time, an update time that every write renews, and a        *)
(* display name that an update may change; an event has its timestamp, in  *)
(* nanoseconds, of which the generated column that the query orders and    *)
(* filters by keeps whole microseconds.  (No query looks at more of a      *)
(* session's times than the column, so they are in microseconds.)  Times   *)
(* may be equal, and rows that the ORDER BY does not separate come in any  *)
(* order, in each query anew.                                              *)
(***************************************************************************)
EXTENDS Integers, Sequences, FiniteSets

CONSTANTS Row,              \* the keys of the table
          NoRow,            \* nothing is stored under a key
          DisplayName,      \* the names that sessions are given
          NoFilter,         \* an empty filter
          Micro,            \* nanoseconds in a microsecond
          Request,          \* the listing requests callers make
          EventTime,        \* the timestamps of the events that are listed
          AppendTime,       \* those of the events appended to the sessions listed
          DefaultPageSize,  \* 100 in the code
          MaxPageSize,      \* 1000 in the code
          MaxUpdates,       \* bound on the updates under way
          MaxTime           \* bound on the clock

Session == [createTime : Nat, updateTime : Nat, displayName : DisplayName]
Event == [timestamp : Nat]

(* A filter on sessions names a display name, one on events compares their *)
(* timestamp.                                                              *)
EventFilter == [op : {"<=", ">=", "=", "<", ">"}, at : Nat]

ASSUME RequestAssumption ==
    /\ Request \subseteq [of : {"sessions", "events"}, orderBy : STRING,
                          filter : DisplayName \cup EventFilter \cup {NoFilter}, pageSize : Int]
    /\ \A req \in Request :
          req.filter \in {NoFilter} \cup (IF req.of = "events" THEN EventFilter ELSE DisplayName)
ASSUME SentinelAssumption ==
    NoRow \notin Session \cup Event /\ NoFilter \notin DisplayName \cup EventFilter
ASSUME MicroAssumption == Micro \in Nat \ {0}
ASSUME PageSizeAssumption == MaxPageSize \in Nat /\ DefaultPageSize \in 1 .. MaxPageSize
ASSUME BoundAssumption ==
    /\ IsFiniteSet(Row) /\ EventTime \subseteq Nat /\ AppendTime \subseteq Nat
    /\ MaxTime \in Nat /\ MaxUpdates \in Nat

VARIABLES table,    \* the rows
          updating, \* the updates under way: the key and the row to be written
          now,      \* the clock
          request,  \* what the walk asks for
          status,   \* "open" while the last page came with a token, else "idle"
          offset,   \* what that token holds
          listed,   \* the rows of the walk's pages so far
          steady,   \* the rows there when the walk began, not written since
                    \* and never level with another row in its order
          came,     \* since the walk began a row came to an earlier place
          left      \* since the walk began a row went, or to a later place

walk == <<request, status, offset>>
history == <<listed, steady, came, left>>
vars == <<table, updating, now, request, status, offset, listed, steady, came, left>>

-----------------------------------------------------------------------------
(* The query of a listing.                                                 *)

(* Case and white space aside; anything unknown is the default. *)
applySessionOrderBy(orderBy) ==
    CASE orderBy \in {"create_time", "create_time asc"} ->
            [column |-> "createTime", descending |-> FALSE]
      [] orderBy = "create_time desc" -> [column |-> "createTime", descending |-> TRUE]
      [] orderBy \in {"update_time", "update_time asc"} ->
            [column |-> "updateTime", descending |-> FALSE]
      [] OTHER -> [column |-> "updateTime", descending |-> TRUE]

applyEventOrderBy(orderBy) ==
    [column |-> "timestamp", descending |-> orderBy = "timestamp desc"]

(* The walk calls ListEvents, or else ListSessions. *)
ListsEvents == request.of = "events"

OrderBy ==
    IF ListsEvents THEN applyEventOrderBy(request.orderBy)
                   ELSE applySessionOrderBy(request.orderBy)

(* A plausible defect: the column is coarser, as in the tests' schema.     *)
TruncateMore(t) == t - (t % (2 * Micro))

(* The generated column of a timestamp.  (That of the tests' own schema    *)
(* has whole seconds.)                                                     *)
Truncate(t) == t - (t % Micro)

(* The ORDER BY column of a row. *)
Column(row) ==
    IF ListsEvents THEN Truncate(row.timestamp) ELSE row[OrderBy.column]

(* A row with contents a is listed before one with contents b. *)
Before(a, b) ==
    IF OrderBy.descending THEN Column(a) > Column(b) ELSE Column(a) < Column(b)

(* The comparison a op b. *)
Compare(op, a, b) ==
    CASE op = "<=" -> a <= b
      [] op = ">=" -> a >= b
      [] op = "="  -> a = b
      [] op = "<"  -> a < b
      [] op = ">"  -> a > b

(* buildSessionFilter, on the one field of a session that may change. *)
buildSessionFilter(row) == row.displayName = request.filter

(* buildEventFilter: the column is compared with the time as it was given. *)
buildEventFilter(row) ==
    Compare(request.filter.op, Truncate(row.timestamp), request.filter.at)

Matches(row) ==
    /\ row # NoRow
    /\ request.filter # NoFilter =>
          IF ListsEvents THEN buildEventFilter(row) ELSE buildSessionFilter(row)

Matching(rows) == {r \in Row : Matches(rows[r])}

(* Every sequence of the matching rows that the ORDER BY allows. *)
Results ==
    LET size == Cardinality(Matching(table))
    IN {s \in [1 .. size -> Matching(table)] :
           \A i, j \in 1 .. size :
              i < j => s[i] # s[j] /\ ~Before(table[s[j]], table[s[i]])}

-----------------------------------------------------------------------------
(* A page.                                                                 *)

normalizePageSize(size) ==
    IF size <= 0 THEN DefaultPageSize ELSE IF size > MaxPageSize THEN MaxPageSize ELSE size

(* LIMIT and OFFSET of a query. *)
Limited(result, limit, from) ==
    SubSeq(result, from + 1, IF from + limit < Len(result) THEN from + limit ELSE Len(result))

(* A plausible defect: the extra row stays on the page. *)
PageUncut(rows, size) == rows

(* The query asks for one row more than the page holds, to learn whether   *)
(* there are more.                                                         *)
Page(rows, size) == IF Len(rows) > size THEN SubSeq(rows, 1, size) ELSE rows

(* Two plausible defects: the token leads past the extra row, which no     *)
(* page has then; the token is that of the page it comes with.             *)
NextOffsetPastExtra(from, size) == from + size + 1
NextOffsetStuck(from, size) == from

NextOffset(from, size) == from + size

(* One call: the page, and a token if there is more. *)
List(from, before) ==
    LET size == normalizePageSize(request.pageSize)
    IN \E result \in Results :
          LET rows == Limited(result, size + 1, from)
          IN /\ listed' = before \o Page(rows, size)
             /\ IF Len(rows) > size
                THEN status' = "open" /\ offset' = NextOffset(from, size)
                ELSE status' = "idle" /\ offset' = 0

(* The rows that no other matching row is level with. *)
Separate(rows) ==
    {r \in Matching(rows) : \A other \in Matching(rows) \ {r} :
        Column(rows[r]) # Column(rows[other])}

(* A walk begins. *)
FirstPage ==
    /\ status = "idle"
    /\ List(0, <<>>)
    /\ steady' = Separate(table)
    /\ came' = FALSE /\ left' = FALSE
    /\ UNCHANGED <<table, updating, now, request>>

NextPage ==
    /\ status = "open"
    /\ List(offset, listed)
    /\ UNCHANGED <<table, updating, now, request, steady, came, left>>

-----------------------------------------------------------------------------
(* Writers, and what a write does to the listing of an open walk.  A walk  *)
(* that is over is forgotten at the next step.                             *)

Forget == listed' = <<>> /\ steady' = {} /\ came' = FALSE /\ left' = FALSE

Note(r, was, is) ==
    IF status = "open"
    THEN /\ steady' = (steady \ {r}) \cap Separate(table')
         /\ came' = (came \/ (Matches(is) /\ (Matches(was) => Before(is, was))))
         /\ left' = (left \/ (Matches(was) /\ (Matches(is) => Before(was, is))))
         /\ UNCHANGED listed
    ELSE Forget

NothingToNote == IF status = "open" THEN UNCHANGED history ELSE Forget

Write(r, row) ==
    /\ table' = [table EXCEPT ![r] = row]
    /\ Note(r, table[r], row)
    /\ UNCHANGED <<now, walk>>

(* Only a key without a row takes it; the clock was read before the commit.*)
CreateSession(r, name) ==
    /\ ~ListsEvents /\ table[r] = NoRow
    /\ \E t \in 0 .. now :
          Write(r, [createTime |-> t, updateTime |-> t, displayName |-> name])
    /\ UNCHANGED updating

(* An update up to its transaction: the row that it will write is made of  *)
(* the one stored at this moment.                                          *)
UpdateSession(r, name) ==
    /\ ~ListsEvents /\ table[r] # NoRow
    /\ Cardinality(updating) < MaxUpdates
    /\ updating' = updating \cup
          {[key |-> r, row |-> [table[r] EXCEPT !.updateTime = now, !.displayName = name]]}
    /\ NothingToNote
    /\ UNCHANGED <<table, now, walk>>

(* The row is written blindly, over whatever is stored by then.  (An       *)
(* update that fails before its commit remains under way.)                 *)
CommitUpdate(update) ==
    /\ Write(update.key, update.row)
    /\ updating' = updating \ {update}

(* An append dates its session with the timestamp t of the event. *)
AppendToSession(r, t) ==
    /\ ~ListsEvents /\ table[r] # NoRow
    /\ Write(r, [table[r] EXCEPT !.updateTime = t \div Micro])
    /\ UNCHANGED updating

DeleteSession(r) ==
    /\ ~ListsEvents /\ table[r] # NoRow
    /\ Write(r, NoRow)
    /\ UNCHANGED updating

AppendEvent(r, t) ==
    /\ ListsEvents /\ table[r] = NoRow
    /\ Write(r, [timestamp |-> t])
    /\ UNCHANGED updating

(* Deleting the session takes all of its events at once. *)
DeleteEvents ==
    /\ ListsEvents
    /\ table' = [r \in Row |-> NoRow]
    /\ IF status = "open" THEN steady' = {} /\ left' = TRUE /\ UNCHANGED <<listed, came>>
                          ELSE Forget
    /\ UNCHANGED <<updating, now, walk>>

Tick ==
    /\ ~ListsEvents /\ now < MaxTime
    /\ now' = now + 1
    /\ NothingToNote
    /\ UNCHANGED <<table, updating, walk>>

-----------------------------------------------------------------------------
Init ==
    /\ table = [r \in Row |-> NoRow]
    /\ updating = {}
    /\ now = 0
    /\ request \in Request
    /\ status = "idle" /\ offset = 0 /\ listed = <<>>
    /\ steady = {} /\ came = FALSE /\ left = FALSE

Next ==
    \/ FirstPage
    \/ NextPage
    \/ \E r \in Row, name \in DisplayName : CreateSession(r, name) \/ UpdateSession(r, name)
    \/ \E r \in Row, t \in AppendTime : AppendToSession(r, t)
    \/ \E r \in Row, t \in EventTime : AppendEvent(r, t)
    \/ \E update \in updating : CommitUpdate(update)
    \/ \E r \in Row : DeleteSession(r)
    \/ DeleteEvents
    \/ Tick

Spec == Init /\ [][Next]_vars

-----------------------------------------------------------------------------
PagingTypeOK ==
    /\ table \in [Row -> (IF ListsEvents THEN Event ELSE Session) \cup {NoRow}]
    /\ updating \subseteq [key : Row, row : Session] /\ (ListsEvents => updating = {})
    /\ now \in 0 .. MaxTime
    /\ request \in Request
    /\ status \in {"idle", "open"}
    /\ offset \in Nat /\ (status = "open" <=> offset > 0)
    /\ listed \in Seq(Row)
    /\ steady \subseteq Row /\ came \in BOOLEAN /\ left \in BOOLEAN

(* A walk that no row escaped by going, or by moving to a later place,     *)
(* returns every steady row: rows that are created, or updated to the      *)
(* front, while the caller walks make none of them go missing.             *)
NothingSkipped ==
    status = "idle" /\ ~left => \A r \in steady : \E i \in DOMAIN listed : listed[i] = r

(* As long as no row came to an earlier place, no steady row is returned   *)
(* twice: deletes, and updates that move rows to the back, repeat none.    *)
NothingRepeated ==
    ~came => \A i, j \in DOMAIN listed :
                listed[i] = listed[j] /\ listed[i] \in steady => i = j

(* A filter on the timestamp is right to the microsecond: an event that is *)
(* listed would satisfy it at some time less than a microsecond before     *)
(* its own, and an event that satisfies it at every such time is listed.   *)
(* (The second half for an answer of one page, which is the whole one.)    *)
Satisfies(r, ago) ==
    Compare(request.filter.op, table[r].timestamp - ago, request.filter.at)

FilterRespected ==
    /\ \A i \in DOMAIN listed' : (FirstPage \/ i > Len(listed)) =>
          \E ago \in 0 .. Micro - 1 : Satisfies(listed'[i], ago)
    /\ FirstPage /\ status' = "idle" =>
          \A r \in Row : table[r] # NoRow /\ (\A ago \in 0 .. Micro - 1 : Satisfies(r, ago)) =>
              \E i \in DOMAIN listed' : listed'[i] = r

FilterWithinAMicrosecond ==
    [][ListsEvents /\ request.filter # NoFilter /\ (FirstPage \/ NextPage) =>
          FilterRespected]_vars
===============================================================================
