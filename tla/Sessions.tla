------------------------------ MODULE Sessions ------------------------------
(***************************************************************************)
(* Sessions and their attendance in one center, as edited by the endpoints  *)
(* whose writes are conditional UPDATEs (routers/sessions.py: create,       *)
(* update, confirm, reopen, archive, recover; routers/attendance.py: batch).*)
(*                                                                         *)
(* A handler awaits the database at every statement, so handlers            *)
(* interleave. Each SELECT before a handler's first write sees the database *)
(* as of that statement; from its first write to its commit a handler holds *)
(* SQLite's only write lock, so that part is one action here. A request is   *)
(* therefore a few reading steps, each kept in the request's ORM identity    *)
(* map, then one writing step.                                               *)
(***************************************************************************)
EXTENDS Integers, FiniteSets

CONSTANTS
    Requests,          \* slots for requests in flight at the same time
    SessionIds,        \* primary keys; bounds how many sessions can exist
    Students,          \* students of the center
    Assigned,          \* the students who have a sheikh
    Dates,             \* calendar days
    Statuses,          \* attendance statuses the center uses
    AutoStatus,        \* what automatic_attendance gives on a day, per student
    Keys,              \* Idempotency-Key headers
    MultipleSessions,  \* the center's multiple_sessions_per_day_enabled
    Endpoints,         \* the endpoints this workload calls
    MaxVersion,        \* no request is sent for a session at this version
    None               \* an absent row, key, view or call

ASSUME IdsAssumption == SessionIds \subseteq Nat
ASSUME AssignedAssumption == Assigned \subseteq Students
ASSUME AutoStatusAssumption == AutoStatus \in [Dates -> [Students -> Statuses]]
ASSUME MultipleAssumption == MultipleSessions \in BOOLEAN

VARIABLES
    session,      \* the sessions table: id -> row, or None
    attendance,   \* the attendance table: session -> student -> row, or None
    receipt,      \* attendance_batch_operations: key -> receipt, or None
    active,       \* students whose status is an active one
    request,      \* what each request in flight has read so far
    applied       \* history: how many batches each key has written

tables == <<session, attendance, receipt>>
vars == <<session, attendance, receipt, active, request, applied>>

-----------------------------------------------------------------------------
SessionRow == [date : Dates, sequence : Nat, confirmed : BOOLEAN,
               archived : BOOLEAN, explicit : BOOLEAN, tracked : BOOLEAN,
               version : Nat]
AttendanceRow == [status : Statuses, revision : Nat]
Rows == [Students -> AttendanceRow \cup {None}]
NoRows == [st \in Students |-> None]

Receipt == [session : SessionIds, version : Nat]

\* What a client that opened a session last saw of it.
View == [session : SessionIds, row : SessionRow, rows : Rows]

Updates == UNION {[S -> Statuses] : S \in (SUBSET Students) \ {{}}}
BatchCall == [endpoint : {"batch"}, session : SessionIds, key : Keys,
              updates : Updates]
UpdateCall == [endpoint : {"update"}, session : SessionIds, date : Dates]
StatusCall == [endpoint : {"confirm", "reopen", "archive", "recover"},
               session : SessionIds]
CreateCall == [endpoint : {"create"}, date : Dates, members : SUBSET Students]
Call == BatchCall \cup UpdateCall \cup StatusCall \cup CreateCall

\* idle, opening, open: the client; the others: the handler, between awaits.
Phases == {"idle", "opening", "open", "called", "loaded", "dated", "numbered"}
Request == [phase : Phases, view : View \cup {None}, call : Call \cup {None},
            row : SessionRow \cup {None}, sequence : Nat]
Idle == [phase |-> "idle", view |-> None, call |-> None, row |-> None,
         sequence |-> 0]

ASSUME NoneAssumption == /\ None \notin SessionRow
                         /\ None \notin AttendanceRow
                         /\ None \notin View
                         /\ None \notin Call
                         /\ None \notin Receipt

TypeOK == /\ session \in [SessionIds -> SessionRow \cup {None}]
          /\ attendance \in [SessionIds -> Rows]
          /\ receipt \in [Keys -> Receipt \cup {None}]
          /\ active \subseteq Students
          /\ request \in [Requests -> Request]
          /\ applied \in [Keys -> Nat]

Init == /\ session = [s \in SessionIds |-> None]
        /\ attendance = [s \in SessionIds |-> NoRows]
        /\ receipt = [k \in Keys |-> None]
        /\ active \in SUBSET Students
        /\ request = [r \in Requests |-> Idle]
        /\ applied = [k \in Keys |-> 0]

-----------------------------------------------------------------------------
Open(row) == ~row.confirmed /\ ~row.archived
Members(s) == {st \in Students : attendance[s][st] # None}
OnDate(d) == {s \in SessionIds : session[s] # None /\ session[s].date = d}

\* expected_version is the version the client's view shows; it is omitted by
\* a request that did not open the session first.
MatchesAny(view, row) == TRUE
Matches(view, row) == view = None \/ view.row.version = row.version

\* Every accepted change of a session is one more version of it.
Unversioned(row) == row
Bumped(row) == [row EXCEPT !.version = @ + 1]

\* UNIQUE (tahfiz_id, idempotency_key).
AnyKey(k) == TRUE
KeyFree(k) == receipt[k] = None

\* Writes rows for the students in S, as automatic_attendance decides on day d.
WithAutoRows(rows, S, d) ==
    [st \in Students |->
        IF rows[st] = None /\ st \in S
        THEN [status |-> AutoStatus[d][st], revision |-> 1]
        ELSE rows[st]]

\* INSERT ... ON CONFLICT DO UPDATE SET status = ..., revision = revision + 1.
Upserted(rows, updates) ==
    [st \in Students |->
        IF st \notin DOMAIN updates
        THEN rows[st]
        ELSE [status |-> updates[st],
              revision |-> IF rows[st] = None THEN 1 ELSE rows[st].revision + 1]]

\* The handler of r returns or raises: the slot is free for another request.
Reply(r) == request' = [request EXCEPT ![r] = Idle]

\* A request for s can be sent: unconditionally, or by the client that opened s.
Sends(r, endpoint, s) ==
    /\ endpoint \in Endpoints
    /\ \/ request[r].phase = "idle" /\ session[s] # None
       \/ request[r].phase = "open" /\ request[r].view.session = s
    /\ session[s] # None => session[s].version < MaxVersion

\* { COALESCE(MAX(...), 0) + 1 } over the positive numbers in T.
NextAfter(T) == {n \in {1} \cup {m + 1 : m \in T} : \A m \in T : m < n}

-----------------------------------------------------------------------------
(* Clients. GET /sessions/{id}/attendance reads the session before its rows. *)

OpenSession(r, s) ==
    /\ request[r].phase = "idle"
    /\ session[s] # None
    /\ request' = [request EXCEPT
          ![r].phase = "opening",
          ![r].view = [session |-> s, row |-> session[s], rows |-> NoRows]]
    /\ UNCHANGED <<tables, active, applied>>

OpenRows(r) ==
    /\ request[r].phase = "opening"
    /\ request' = [request EXCEPT
          ![r].phase = "open",
          ![r].view.rows = attendance[request[r].view.session]]
    /\ UNCHANGED <<tables, active, applied>>

\* Management changes a student's status.
SetActive(st) ==
    /\ active' = IF st \in active THEN active \ {st} ELSE active \cup {st}
    /\ UNCHANGED <<tables, request, applied>>

-----------------------------------------------------------------------------
(* The reading steps of the handlers.                                        *)

\* batch_attendance first looks for the receipt of its key: a replay (or a key
\* used for another session) is answered at once.
CallBatch(r, s, k, u) ==
    /\ Sends(r, "batch", s)
    /\ IF KeyFree(k)
       THEN request' = [request EXCEPT
               ![r].phase = "called",
               ![r].call = [endpoint |-> "batch", session |-> s, key |-> k,
                            updates |-> u]]
       ELSE Reply(r)
    /\ UNCHANGED <<tables, active, applied>>

\* The checks each handler makes on the session row it has read.
Accepts(c, view, row) ==
    /\ row # None
    /\ \/ c.endpoint = "update" /\ Open(row) /\ Matches(view, row)
       \/ c.endpoint = "confirm" /\ Open(row)
       \/ c.endpoint = "reopen" /\ row.confirmed /\ ~row.archived
       \/ c.endpoint = "archive" /\ Matches(view, row) /\ ~row.archived
       \/ c.endpoint = "recover" /\ Matches(view, row) /\ row.archived

Load(r, c) ==
    IF Accepts(c, request[r].view, session[c.session])
    THEN request' = [request EXCEPT ![r].phase = "loaded", ![r].call = c,
                                    ![r].row = session[c.session]]
    ELSE Reply(r)

\* The second read of batch_attendance: the session, then, for an explicit
\* roster, the members among the students it updates. (The write repeats every
\* check made on the session, so the two SELECTs are one step here.)
LoadBatch(r) ==
    /\ request[r].phase = "called"
    /\ LET c == request[r].call
           row == session[c.session]
       IN IF /\ row # None
             /\ Open(row)
             /\ Matches(request[r].view, row)
             /\ row.explicit => DOMAIN c.updates \subseteq Members(c.session)
          THEN request' = [request EXCEPT ![r].phase = "loaded",
                                          ![r].row = row]
          ELSE Reply(r)
    /\ UNCHANGED <<tables, active, applied>>

LoadUpdate(r, s, d) ==
    /\ Sends(r, "update", s)
    /\ Load(r, [endpoint |-> "update", session |-> s, date |-> d])
    /\ UNCHANGED <<tables, active, applied>>

LoadStatus(r, s, e) ==
    /\ Sends(r, e, s)
    /\ e \in {"archive", "recover"} => request[r].phase = "open"
    /\ Load(r, [endpoint |-> e, session |-> s])
    /\ UNCHANGED <<tables, active, applied>>

\* update_session with another date: is the day taken?
CheckDate(r) ==
    /\ request[r].phase = "loaded"
    /\ request[r].call.endpoint = "update"
    /\ request[r].call.date # request[r].row.date
    /\ IF \/ MultipleSessions
          \/ request[r].row.explicit
          \/ OnDate(request[r].call.date) \subseteq {request[r].call.session}
       THEN request' = [request EXCEPT ![r].phase = "dated"]
       ELSE Reply(r)
    /\ UNCHANGED <<tables, active, applied>>

\* create_session_record starts with the same question. The request names the
\* members of the session if, and only if, the center has several a day.
CallCreate(r, d, members) ==
    /\ "create" \in Endpoints
    /\ request[r].phase = "idle"
    /\ (members # {}) = MultipleSessions
    /\ IF MultipleSessions \/ OnDate(d) = {}
       THEN request' = [request EXCEPT
               ![r].phase = "dated",
               ![r].call = [endpoint |-> "create", date |-> d,
                            members |-> members]]
       ELSE Reply(r)
    /\ UNCHANGED <<tables, active, applied>>

\* Both then read the day's highest daily_sequence, in a statement of its own.
ReadSequence(r) ==
    /\ request[r].phase = "dated"
    /\ LET c == request[r].call
           own == IF c.endpoint = "update" THEN {c.session} ELSE {}
       IN \E n \in NextAfter({session[t].sequence : t \in OnDate(c.date) \ own}) :
             request' = [request EXCEPT ![r].phase = "numbered",
                                        ![r].sequence = n]
    /\ UNCHANGED <<tables, active, applied>>

-----------------------------------------------------------------------------
(* The writing steps: from the first write to the commit, or to a rollback.  *)

\* UNIQUE (tahfiz_id, date, daily_sequence).
SlotFree(d, n, own) == \A t \in OnDate(d) \ own : session[t].sequence # n

Roster(c) == IF MultipleSessions THEN active \cap c.members ELSE active

WriteCreate(r) ==
    /\ request[r].phase = "numbered"
    /\ request[r].call.endpoint = "create"
    /\ LET c == request[r].call
       IN IF /\ SlotFree(c.date, request[r].sequence, {})
             /\ MultipleSessions => c.members \subseteq active
          THEN \E s \in SessionIds \cap
                        NextAfter({t \in SessionIds : session[t] # None}) :
                  /\ session' = [session EXCEPT ![s] =
                        [date |-> c.date, sequence |-> request[r].sequence,
                         confirmed |-> FALSE, archived |-> FALSE,
                         explicit |-> MultipleSessions, tracked |-> TRUE,
                         version |-> 0]]
                  /\ attendance' = [attendance EXCEPT ![s] =
                        WithAutoRows(NoRows, Roster(c), c.date)]
          ELSE UNCHANGED <<session, attendance>>
    /\ Reply(r)
    /\ UNCHANGED <<receipt, active, applied>>

WriteUpdate(r) ==
    /\ request[r].phase \in {"loaded", "numbered"}
    /\ request[r].call.endpoint = "update"
    /\ \/ request[r].phase = "numbered"
       \/ request[r].call.date = request[r].row.date
    /\ LET c == request[r].call
           read == request[r].row
           now == session[c.session]
           n == IF request[r].phase = "numbered" THEN request[r].sequence
                                                 ELSE read.sequence
       IN IF /\ now # None
             /\ Open(now)
             /\ now.version = read.version
             /\ SlotFree(c.date, n, {c.session})
          THEN session' = [session EXCEPT ![c.session] =
                  Bumped([@ EXCEPT !.date = c.date, !.sequence = n])]
          ELSE UNCHANGED session
    /\ Reply(r)
    /\ UNCHANGED <<attendance, receipt, active, applied>>

\* The students a confirmation completes the roster with.
MissingAnyway(row) == active \cap Assigned
Missing(row) == IF row.explicit THEN {} ELSE active \cap Assigned

\* The day of the automatic rows is that of the row read before the UPDATE.
WriteConfirm(r) ==
    /\ request[r].phase = "loaded"
    /\ request[r].call.endpoint = "confirm"
    /\ LET s == request[r].call.session
           now == session[s]
       IN IF now # None /\ Open(now) /\ Matches(request[r].view, now)
          THEN /\ session' = [session EXCEPT ![s] =
                     Bumped([@ EXCEPT !.confirmed = TRUE])]
               /\ attendance' = [attendance EXCEPT ![s] =
                     WithAutoRows(@, Missing(now), request[r].row.date)]
          ELSE UNCHANGED <<session, attendance>>
    /\ Reply(r)
    /\ UNCHANGED <<receipt, active, applied>>

WriteReopen(r) ==
    /\ request[r].phase = "loaded"
    /\ request[r].call.endpoint = "reopen"
    /\ LET s == request[r].call.session
           now == session[s]
       IN IF /\ now # None
             /\ now.confirmed /\ ~now.archived
             /\ Matches(request[r].view, now)
          THEN session' = [session EXCEPT ![s] =
                  Bumped([@ EXCEPT !.confirmed = FALSE])]
          ELSE UNCHANGED session
    /\ Reply(r)
    /\ UNCHANGED <<attendance, receipt, active, applied>>

\* set_archived, for both directions.
WriteArchived(r) ==
    /\ request[r].phase = "loaded"
    /\ request[r].call.endpoint \in {"archive", "recover"}
    /\ LET s == request[r].call.session
           now == session[s]
       IN IF now # None /\ Matches(request[r].view, now)
          THEN session' = [session EXCEPT ![s] = Bumped(
                  [@ EXCEPT !.archived = (request[r].call.endpoint = "archive")])]
          ELSE UNCHANGED session
    /\ Reply(r)
    /\ UNCHANGED <<attendance, receipt, active, applied>>

\* The version, the rows and the receipt are committed together; the receipt's
\* UNIQUE (tahfiz_id, idempotency_key) rolls a second batch of a key back.
WriteBatch(r) ==
    /\ request[r].phase = "loaded"
    /\ request[r].call.endpoint = "batch"
    /\ LET c == request[r].call
           s == c.session
           now == session[s]
       IN IF /\ now # None /\ Open(now) /\ Matches(request[r].view, now)
             /\ KeyFree(c.key)
          THEN /\ session' = [session EXCEPT ![s] = Bumped(@)]
               /\ attendance' = [attendance EXCEPT ![s] =
                                    Upserted(@, c.updates)]
               /\ receipt' = [receipt EXCEPT ![c.key] =
                     [session |-> s, version |-> now.version + 1]]
               /\ applied' = [applied EXCEPT ![c.key] = @ + 1]
          ELSE UNCHANGED <<tables, applied>>
    /\ Reply(r)
    /\ UNCHANGED active

-----------------------------------------------------------------------------
ClientStep(r) == \/ \E s \in SessionIds : OpenSession(r, s)
                 \/ OpenRows(r)

ReadStep(r) ==
    \/ \E s \in SessionIds, k \in Keys, u \in Updates : CallBatch(r, s, k, u)
    \/ LoadBatch(r)
    \/ \E s \in SessionIds, d \in Dates : LoadUpdate(r, s, d)
    \/ \E s \in SessionIds, e \in {"confirm", "reopen", "archive", "recover"} :
          LoadStatus(r, s, e)
    \/ CheckDate(r)
    \/ \E d \in Dates, m \in SUBSET Students : CallCreate(r, d, m)
    \/ ReadSequence(r)

WriteStep(r) ==
    \/ WriteCreate(r)
    \/ WriteUpdate(r)
    \/ WriteConfirm(r)
    \/ WriteReopen(r)
    \/ WriteArchived(r)
    \/ WriteBatch(r)

Next == \/ \E r \in Requests : ClientStep(r) \/ ReadStep(r) \/ WriteStep(r)
        \/ \E st \in Students : SetActive(st)

Spec == Init /\ [][Next]_vars

-----------------------------------------------------------------------------
(* Properties.                                                               *)

\* A client's copy of a session is never ahead of the table, and as long as
\* its version is still the current one the copy is the session as it is now,
\* rows included: no edit of a session hides behind an unchanged version.
FreshViews ==
    \A r \in Requests :
        LET view == request[r].view IN
        view # None =>
            /\ session[view.session] # None
            /\ view.row.version <= session[view.session].version
            /\ view.row.version = session[view.session].version =>
                  /\ view.row = session[view.session]
                  /\ request[r].phase # "opening" =>
                        view.rows = attendance[view.session]

\* A save that carries an expected_version never overwrites what its client
\* has not seen: in the step that changes a session, the session and its rows
\* are still those the client opened.
NoLostUpdate ==
    [][\A r \in Requests :
          LET view == request[r].view IN
          /\ view # None
          /\ request'[r] # request[r]
          /\ session'[view.session] # session[view.session]
          => view.row = session[view.session]
             /\ view.rows = attendance[view.session]]_vars

\* A confirmed or archived session is locked: no request still in flight
\* writes to its attendance or moves it to another date.
LockedSessionsStay ==
    [][\A s \in SessionIds :
          session[s] # None /\ (session[s].confirmed \/ session[s].archived)
          => /\ attendance'[s] = attendance[s]
             /\ session'[s] # None => session'[s].date = session[s].date]_vars

\* The roster chosen for an explicit session stays the one chosen: neither a
\* batch nor a confirmation lets another student in.
SelectedRosterKept ==
    [][\A s \in SessionIds :
          session[s] # None /\ session[s].explicit
          => \A st \in Students :
                (attendance'[s][st] # None) <=> (attendance[s][st] # None)]_vars

\* However often a batch is retried, and however many of the retries run at
\* the same time, its updates are written once, and the receipt a replay is
\* answered from names a version the session has reached.
BatchOnce ==
    \A k \in Keys :
        /\ applied[k] = IF receipt[k] = None THEN 0 ELSE 1
        /\ receipt[k] # None =>
              /\ session[receipt[k].session] # None
              /\ receipt[k].version <= session[receipt[k].session].version

Lifecycle == INSTANCE SessionLifecycle WITH RowSets <- Rows
\* Forgetting the requests, the endpoints implement the session lifecycle.
ImplementsLifecycle == Lifecycle!Spec
=============================================================================
