---------------------------- MODULE SessionTables ----------------------------
(***************************************************************************)
(* The four Spanner tables of the package (doc.go, spannertest.go): their  *)
(* primary keys, their rows, and the row-level helpers of spanner.go that  *)
(* both the abstract and the detailed specification use.                   *)
(***************************************************************************)
EXTENDS ScopedState, Naturals

CONSTANTS SessionID, App, User, EventID,
          DisplayName,   \* values of Session.display_name
          NoExpiration,  \* Session.expiration is not set
          NoRow          \* no row is stored under a key

ASSUME NoExpirationAssumption == NoExpiration \notin Nat
ASSUME EventIDAssumption == EventID # {}

(* PRIMARY KEY (session_id, app_name, user_id) of Sessions, and the prefix *)
(* of the key of SessionEvents.                                            *)
Key == SessionID \X App \X User
IDOf(k) == k[1]
AppOf(k) == k[2]
UserOf(k) == <<k[2], k[3]>>

(* The fields of a session row the operations tell apart.  A row's create  *)
(* time is written once and never consulted by a write, so it is left out. *)
Session == [state       : Maps(SessionVar),
            displayName : DisplayName,
            expiration  : Nat \cup {NoExpiration},
            updateTime  : Nat]

(* A stored event: the state delta it keeps and its timestamp. *)
Event == [delta : Maps(StateKey), timestamp : Nat]

NoEvents == [e \in EventID |-> NoRow]

ASSUME NoRowAssumption == NoRow \notin Session \cup Event \cup Key \cup EventID

(* The AppStates and UserStates tables after scopedStateMutations merged   *)
(* the scoped parts of delta, for the app and the user of session key k,   *)
(* into the rows appState and userState it read; a part without keys       *)
(* writes no mutation.                                                     *)
PutAppState(appStates, k, appState, delta) ==
    IF AppPart(delta) = EmptyMap(AppVar)
    THEN appStates
    ELSE [appStates EXCEPT ![AppOf(k)] = mergedState(appState, AppPart(delta))]

PutUserState(userStates, k, userState, delta) ==
    IF UserPart(delta) = EmptyMap(UserVar)
    THEN userStates
    ELSE [userStates EXCEPT ![UserOf(k)] = mergedState(userState, UserPart(delta))]

(* A plausible defect: the delta replaces the session's state. *)
AppendedRowReplaced(row, event) ==
    [row EXCEPT !.state = SessionPart(event.delta), !.updateTime = event.timestamp]

(* The session row an append writes over the row it read. *)
AppendedRow(row, event) ==
    [row EXCEPT !.state = mergedState(row.state, SessionPart(event.delta)),
                !.updateTime = event.timestamp]
=============================================================================
