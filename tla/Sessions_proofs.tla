--------------------------- MODULE Sessions_proofs ---------------------------
(***************************************************************************)
(* Proofs about Sessions, for every number of requests, sessions, students, *)
(* dates and keys.                                                          *)
(*                                                                         *)
(* The inductive invariant is TypeOK /\ InFlight /\ FreshViews /\ BatchOnce. *)
(* InFlight says what the identity map of a handler holds in each phase;    *)
(* FreshViews is what makes the version test of a write mean something.     *)
(* SelectedUpdates adds what an update in flight has read of a chosen       *)
(* roster.  The second half is about SessionEdits: EditsInvariant says what *)
(* each of its requests holds, and ProgressInvariant what its check of the  *)
(* recorded progress still means when it writes.                            *)
(***************************************************************************)
EXTENDS SessionEdits, TLAPS

Reading == {"called", "loaded", "dated", "numbered"}

\* What the handler of request q holds at each of its awaits.
Consistent(q) ==
    /\ q.phase = "idle" => q.view = None
    /\ q.phase \in {"opening", "open"} => q.view # None
    /\ q.phase \in Reading => q.call # None
    /\ q.phase = "called" => q.call \in BatchCall
    /\ q.phase = "loaded" => q.row # None /\ q.call \notin CreateCall
    /\ q.phase \in {"dated", "numbered"} =>
          \/ q.call \in CreateCall
          \/ q.call \in UpdateCall /\ q.row # None
    /\ q.phase \in Reading /\ q.call \in CreateCall => q.view = None
    /\ q.phase \in Reading /\ q.call \notin CreateCall /\ q.view # None
          => q.call.session = q.view.session
    /\ q.phase \in Reading /\ q.call \in UpdateCall => Matches(q.view, q.row)

InFlight == \A r \in Requests : Consistent(request[r])

-----------------------------------------------------------------------------
(* The operators of the tables.                                              *)

\* Every write of a session leaves a row with the version one higher.
LEMMA BumpedRow ==
    ASSUME NEW row \in SessionRow
    PROVE  /\ Bumped(row) \in SessionRow
           /\ Bumped(row).version = row.version + 1
           /\ Bumped(row) # row
BY DEF Bumped, SessionRow

\* automatic_attendance fills absent rows and leaves the others as they are.
LEMMA AutoRows ==
    ASSUME NEW rows \in Rows, NEW S \in SUBSET Students, NEW d \in Dates
    PROVE  /\ WithAutoRows(rows, S, d) \in Rows
           /\ \A st \in Students :
                 rows[st] # None => WithAutoRows(rows, S, d)[st] = rows[st]
           /\ \A st \in Students :
                 rows[st] = None /\ st \notin S => WithAutoRows(rows, S, d)[st] = None
<1>1. ASSUME NEW st \in Students
      PROVE  [status |-> AutoStatus[d][st], revision |-> 1] \in AttendanceRow
  BY AutoStatusAssumption DEF AttendanceRow
<1>2. QED
  BY <1>1 DEF WithAutoRows, Rows

LEMMA UpsertedRows ==
    ASSUME NEW rows \in Rows, NEW u \in Updates
    PROVE  Upserted(rows, u) \in Rows
<1>1. DOMAIN u \subseteq Students /\ \A st \in DOMAIN u : u[st] \in Statuses
  BY DEF Updates
<1>2. ASSUME NEW st \in DOMAIN u
      PROVE  [status |-> u[st],
              revision |-> IF rows[st] = None THEN 1 ELSE rows[st].revision + 1]
                 \in AttendanceRow
  <2>1. rows[st] # None => rows[st].revision \in Nat
    BY <1>1 DEF Rows, AttendanceRow
  <2>2. QED
    BY <1>1, <2>1 DEF AttendanceRow
<1>3. QED
  BY <1>1, <1>2 DEF Upserted, Rows

\* The next number is a number, and no number in use.
LEMMA NextNumber ==
    ASSUME NEW T \in SUBSET Nat, NEW n \in NextAfter(T)
    PROVE  n \in Nat /\ n \notin T
<1>1. n \in {1} \cup {m + 1 : m \in T}
  BY DEF NextAfter
<1>2. \A m \in T : m < n
  BY DEF NextAfter
<1>3. n \in Nat
  BY <1>1
<1>4. QED
  BY <1>2, <1>3

\* A session is created under an id that is free.
LEMMA FreshId ==
    ASSUME NEW s \in SessionIds \cap
                      NextAfter({t \in SessionIds : session[t] # None})
    PROVE  session[s] = None
BY NextNumber, IdsAssumption

LEMMA CallsApart ==
    ASSUME NEW c \in Call
    PROVE  /\ c.endpoint = "batch" => c \in BatchCall
           /\ c.endpoint = "create" => c \in CreateCall
           /\ c.endpoint = "update" => c \in UpdateCall
           /\ c.endpoint \in {"confirm", "reopen", "archive", "recover"}
                 => c \in StatusCall
           /\ c \in CreateCall => c.endpoint = "create" /\ c.date \in Dates
           /\ c \notin CreateCall => c.session \in SessionIds
BY DEF Call, BatchCall, CreateCall, UpdateCall, StatusCall

-----------------------------------------------------------------------------
(* Type correctness.                                                         *)

IInv == TypeOK /\ InFlight

\* A step that sets the record of one request keeps what holds of all of them.
LEMMA OneRequest ==
    ASSUME TypeOK, InFlight,
           NEW r \in Requests, NEW q \in Request, Consistent(q),
           request' = [request EXCEPT ![r] = q]
    PROVE  request' \in [Requests -> Request] /\ InFlight'
BY DEF TypeOK, InFlight, Consistent, Matches

LEMMA ReplyStep ==
    ASSUME TypeOK, InFlight, NEW r \in Requests, Reply(r)
    PROVE  request' \in [Requests -> Request] /\ InFlight'
<1>1. Idle \in Request /\ Consistent(Idle)
  BY DEF Idle, Request, Phases, Consistent, Reading
<1>2. QED
  BY <1>1, OneRequest DEF Reply

\* What Sends gives a handler: an existing id, and the view it was opened with.
LEMMA SendsOK ==
    ASSUME TypeOK, InFlight, NEW r \in Requests, NEW s \in SessionIds, NEW e,
           Sends(r, e, s)
    PROVE  request[r].view # None => s = request[r].view.session
BY DEF Sends, InFlight, Consistent

LEMMA ClientTypes ==
    ASSUME IInv, NEW r \in Requests, ClientStep(r)
    PROVE  IInv'
<1>1. ASSUME NEW s \in SessionIds, OpenSession(r, s)
      PROVE  IInv'
  <2> DEFINE v == [session |-> s, row |-> session[s], rows |-> NoRows]
             q == [request[r] EXCEPT !.phase = "opening", !.view = v]
  <2>1. v \in View
    BY <1>1 DEF OpenSession, View, IInv, TypeOK, NoRows, Rows
  <2>2. request[r] \in Request /\ request[r].phase = "idle"
    BY <1>1 DEF OpenSession, IInv, TypeOK
  <2>3. q \in Request /\ q.phase = "opening" /\ q.view = v
    BY <2>1, <2>2 DEF Request, Phases
  <2>4. Consistent(q)
    BY <2>1, <2>3, NoneAssumption DEF Consistent, Reading
  <2>5. request' = [request EXCEPT ![r] = q]
    BY <1>1 DEF OpenSession
  <2>6. QED
    BY <1>1, <2>3, <2>4, <2>5, OneRequest
    DEF OpenSession, IInv, TypeOK, tables
<1>2. ASSUME OpenRows(r)
      PROVE  IInv'
  <2> DEFINE v == [request[r].view EXCEPT
                      !.rows = attendance[request[r].view.session]]
             q == [request[r] EXCEPT !.phase = "open", !.view = v]
  <2>1. request[r] \in Request /\ request[r].phase = "opening"
    BY <1>2 DEF OpenRows, IInv, TypeOK
  <2>2. request[r].view \in View
    BY <2>1 DEF IInv, InFlight, Consistent, Request
  <2>3. v \in View
    BY <2>2 DEF View, IInv, TypeOK
  <2>4. q \in Request /\ q.phase = "open" /\ q.view = v
    BY <2>1, <2>3 DEF Request, Phases
  <2>5. Consistent(q)
    BY <2>3, <2>4, NoneAssumption DEF Consistent, Reading
  <2>6. request' = [request EXCEPT ![r] = q]
    BY <1>2 DEF OpenRows
  <2>7. QED
    BY <1>2, <2>4, <2>5, <2>6, OneRequest DEF OpenRows, IInv, TypeOK, tables
<1>3. QED
  BY <1>1, <1>2 DEF ClientStep

\* Load keeps the row and the call of an endpoint whose checks pass.
LEMMA LoadTypes ==
    ASSUME IInv, NEW r \in Requests, NEW c \in UpdateCall \cup StatusCall,
           request[r].view # None => c.session = request[r].view.session,
           Load(r, c)
    PROVE  request' \in [Requests -> Request] /\ InFlight'
<1> DEFINE q == [request[r] EXCEPT !.phase = "loaded", !.call = c,
                                   !.row = session[c.session]]
<1>1. c \in Call /\ c \notin CreateCall /\ c.session \in SessionIds
  BY DEF Call, UpdateCall, StatusCall, CreateCall
<1>2. CASE Accepts(c, request[r].view, session[c.session])
  <2>1. session[c.session] \in SessionRow
    BY <1>1, <1>2 DEF Accepts, IInv, TypeOK
  <2>2. q \in Request /\ q.phase = "loaded" /\ q.call = c
        /\ q.row = session[c.session] /\ q.view = request[r].view
    BY <1>1, <2>1 DEF IInv, TypeOK, Request, Phases
  <2>3. c \in UpdateCall => Matches(q.view, q.row)
    BY <1>2, <2>2 DEF Accepts, UpdateCall
  <2>4. Consistent(q)
    BY <1>1, <2>1, <2>2, <2>3, NoneAssumption
    DEF Consistent, Reading, UpdateCall, StatusCall, BatchCall
  <2>5. request' = [request EXCEPT ![r] = q]
    BY <1>2 DEF Load
  <2>6. QED
    BY <2>2, <2>4, <2>5, OneRequest DEF IInv
<1>3. CASE ~Accepts(c, request[r].view, session[c.session])
  BY <1>3, ReplyStep DEF Load, IInv
<1>4. QED
  BY <1>2, <1>3

LEMMA ReadTypes ==
    ASSUME IInv, NEW r \in Requests, ReadStep(r)
    PROVE  IInv'
<1> USE DEF IInv
<1>0. request[r] \in Request
  BY DEF TypeOK
<1>1. ASSUME NEW s \in SessionIds, NEW k \in Keys, NEW u \in Updates,
             CallBatch(r, s, k, u)
      PROVE  IInv'
  <2> DEFINE c == [endpoint |-> "batch", session |-> s, key |-> k,
                   updates |-> u]
             q == [request[r] EXCEPT !.phase = "called", !.call = c]
  <2>1. c \in BatchCall /\ c \in Call /\ c \notin CreateCall
        /\ c \notin UpdateCall /\ c.session = s
    BY DEF BatchCall, Call, CreateCall, UpdateCall
  <2>2. q \in Request /\ q.phase = "called" /\ q.call = c
        /\ q.view = request[r].view
    BY <1>0, <2>1 DEF Request, Phases
  <2>3. q.view # None => q.call.session = q.view.session
    BY <1>1, <2>1, <2>2, SendsOK DEF CallBatch
  <2>4. Consistent(q)
    BY <2>1, <2>2, <2>3, NoneAssumption DEF Consistent, Reading
  <2>5. CASE KeyFree(k)
    <3>1. request' = [request EXCEPT ![r] = q]
      BY <1>1, <2>5 DEF CallBatch
    <3>2. QED
      BY <1>1, <2>2, <2>4, <3>1, OneRequest DEF CallBatch, TypeOK, tables
  <2>6. CASE ~KeyFree(k)
    BY <1>1, <2>6, ReplyStep DEF CallBatch, TypeOK, tables
  <2>7. QED
    BY <2>5, <2>6
<1>2. ASSUME LoadBatch(r)
      PROVE  IInv'
  <2> DEFINE s == request[r].call.session
             q == [request[r] EXCEPT !.phase = "loaded", !.row = session[s]]
  <2>1. request[r].phase = "called" /\ request[r].call \in BatchCall
    BY <1>2 DEF LoadBatch, InFlight, Consistent
  <2>2. s \in SessionIds /\ request[r].call \notin CreateCall
        /\ request[r].call \notin UpdateCall
    BY <2>1 DEF BatchCall, CreateCall, UpdateCall
  <2>3. ASSUME session[s] # None, request' = [request EXCEPT ![r] = q]
        PROVE  request' \in [Requests -> Request] /\ InFlight'
    <3>1. session[s] \in SessionRow
      BY <2>2, <2>3 DEF TypeOK
    <3>2. q \in Request /\ q.phase = "loaded" /\ q.call = request[r].call
          /\ q.view = request[r].view /\ q.row = session[s]
      BY <1>0, <3>1 DEF Request, Phases
    <3>3. q.view # None => q.call.session = q.view.session
      BY <2>1, <2>2, <3>2 DEF InFlight, Consistent, Reading
    <3>4. Consistent(q)
      BY <2>1, <2>2, <2>3, <3>2, <3>3, NoneAssumption
      DEF Consistent, Reading, BatchCall, Call
    <3>5. QED
      BY <2>3, <3>2, <3>4, OneRequest
  <2>4. \/ session[s] # None /\ request' = [request EXCEPT ![r] = q]
        \/ Reply(r)
    BY <1>2 DEF LoadBatch
  <2>5. request' \in [Requests -> Request] /\ InFlight'
    BY <2>3, <2>4, ReplyStep
  <2>6. QED
    BY <1>2, <2>5 DEF LoadBatch, TypeOK, tables
<1>3. ASSUME NEW s \in SessionIds, NEW d \in Dates, LoadUpdate(r, s, d)
      PROVE  IInv'
  <2> DEFINE c == [endpoint |-> "update", session |-> s, date |-> d]
  <2>1. c \in UpdateCall /\ c.session = s
    BY DEF UpdateCall
  <2>2. request[r].view # None => c.session = request[r].view.session
    BY <1>3, <2>1, SendsOK DEF LoadUpdate
  <2>3. request' \in [Requests -> Request] /\ InFlight'
    BY <1>3, <2>1, <2>2, LoadTypes DEF LoadUpdate
  <2>4. QED
    BY <1>3, <2>3 DEF LoadUpdate, TypeOK, tables
<1>4. ASSUME NEW s \in SessionIds,
             NEW e \in {"confirm", "reopen", "archive", "recover"},
             LoadStatus(r, s, e)
      PROVE  IInv'
  <2> DEFINE c == [endpoint |-> e, session |-> s]
  <2>1. c \in StatusCall /\ c.session = s
    BY DEF StatusCall
  <2>2. request[r].view # None => c.session = request[r].view.session
    BY <1>4, <2>1, SendsOK DEF LoadStatus
  <2>3. request' \in [Requests -> Request] /\ InFlight'
    BY <1>4, <2>1, <2>2, LoadTypes DEF LoadStatus
  <2>4. QED
    BY <1>4, <2>3 DEF LoadStatus, TypeOK, tables
<1>5. ASSUME CheckDate(r)
      PROVE  IInv'
  <2> DEFINE q == [request[r] EXCEPT !.phase = "dated"]
  <2>1. request[r].phase = "loaded" /\ request[r].call \in UpdateCall
    BY <1>5, CallsApart
    DEF CheckDate, InFlight, Consistent, Reading, Request, TypeOK
  <2>2. q \in Request /\ q.phase = "dated" /\ q.call = request[r].call
        /\ q.view = request[r].view /\ q.row = request[r].row
    BY <1>0 DEF Request, Phases
  <2>3. Consistent(request[r])
    BY DEF InFlight
  <2>4. Consistent(q)
    BY <2>1, <2>2, <2>3 DEF Consistent, Reading
  <2>5. request' = [request EXCEPT ![r] = q] \/ Reply(r)
    BY <1>5 DEF CheckDate
  <2>6. request' \in [Requests -> Request] /\ InFlight'
    BY <2>2, <2>4, <2>5, OneRequest, ReplyStep
  <2>7. QED
    BY <1>5, <2>6 DEF CheckDate, TypeOK, tables
<1>6. ASSUME NEW d \in Dates, NEW m \in SUBSET Students, CallCreate(r, d, m)
      PROVE  IInv'
  <2> DEFINE c == [endpoint |-> "create", date |-> d, members |-> m]
             q == [request[r] EXCEPT !.phase = "dated", !.call = c]
  <2>1. c \in CreateCall /\ c \in Call /\ c \notin UpdateCall
    BY DEF CreateCall, Call, UpdateCall
  <2>2. q \in Request /\ q.phase = "dated" /\ q.call = c
        /\ q.view = request[r].view
    BY <1>0, <2>1 DEF Request, Phases
  <2>3. request[r].view = None
    BY <1>6 DEF CallCreate, InFlight, Consistent
  <2>4. Consistent(q)
    BY <2>1, <2>2, <2>3, NoneAssumption DEF Consistent, Reading
  <2>5. request' = [request EXCEPT ![r] = q] \/ Reply(r)
    BY <1>6 DEF CallCreate
  <2>6. request' \in [Requests -> Request] /\ InFlight'
    BY <2>2, <2>4, <2>5, OneRequest, ReplyStep
  <2>7. QED
    BY <1>6, <2>6 DEF CallCreate, TypeOK, tables
<1>7. ASSUME ReadSequence(r)
      PROVE  IInv'
  <2> DEFINE c == request[r].call
             own == IF c.endpoint = "update" THEN {c.session} ELSE {}
             T == {session[t].sequence : t \in OnDate(c.date) \ own}
  <2>1. T \subseteq Nat
    BY DEF OnDate, TypeOK, SessionRow
  <2>2. PICK n \in NextAfter(T) :
           request' = [request EXCEPT ![r].phase = "numbered", ![r].sequence = n]
    BY <1>7 DEF ReadSequence
  <2> DEFINE q == [request[r] EXCEPT !.phase = "numbered", !.sequence = n]
  <2>3. n \in Nat
    BY <2>1, NextNumber
  <2>4. request[r].phase = "dated"
    BY <1>7 DEF ReadSequence
  <2>5. q \in Request /\ q.phase = "numbered" /\ q.call = request[r].call
        /\ q.view = request[r].view /\ q.row = request[r].row
    BY <1>0, <2>3 DEF Request, Phases
  <2>6. Consistent(request[r])
    BY DEF InFlight
  <2>7. Consistent(q)
    BY <2>4, <2>5, <2>6 DEF Consistent, Reading
  <2>8. request' = [request EXCEPT ![r] = q]
    BY <1>0, <2>2 DEF Request
  <2>9. QED
    BY <1>7, <2>5, <2>7, <2>8, OneRequest DEF ReadSequence, TypeOK, tables
<1>8. QED
  BY <1>1, <1>2, <1>3, <1>4, <1>5, <1>6, <1>7 DEF ReadStep

\* Replaces the row and the attendance of one session.
LEMMA OneSession ==
    ASSUME TypeOK, NEW s \in SessionIds, NEW row \in SessionRow,
           NEW rows \in Rows,
           session' = [session EXCEPT ![s] = row],
           attendance' = [attendance EXCEPT ![s] = rows]
    PROVE  /\ session' \in [SessionIds -> SessionRow \cup {None}]
           /\ attendance' \in [SessionIds -> Rows]
BY DEF TypeOK

\* The calls and rows of the writing steps.
LEMMA Written ==
    ASSUME IInv, NEW r \in Requests
    PROVE  /\ request[r].phase \in Reading
                 => request[r].call \in Call /\ Consistent(request[r])
           /\ request[r].phase = "loaded"
                 => /\ request[r].row \in SessionRow
                    /\ request[r].call.session \in SessionIds
           /\ request[r].phase = "numbered" => request[r].sequence \in Nat
           /\ request[r].phase = "numbered" /\ request[r].call \in UpdateCall
                 => /\ request[r].row \in SessionRow
                    /\ request[r].call.session \in SessionIds
<1>1. request[r] \in Request /\ Consistent(request[r])
  BY DEF IInv, TypeOK, InFlight
<1>2. request[r].phase \in Reading => request[r].call \in Call
  BY <1>1 DEF Consistent, Request
<1>3. request[r].phase = "loaded"
         => /\ request[r].row \in SessionRow
            /\ request[r].call.session \in SessionIds
  BY <1>1, <1>2, CallsApart DEF Consistent, Request, Reading
<1>4. request[r].phase = "numbered" /\ request[r].call \in UpdateCall
         => /\ request[r].row \in SessionRow
            /\ request[r].call.session \in SessionIds
  BY <1>1, <1>2, CallsApart DEF Consistent, Request, Reading, UpdateCall, CreateCall
<1>5. QED
  BY <1>1, <1>2, <1>3, <1>4 DEF Request

LEMMA CreateTypes ==
    ASSUME IInv, NEW r \in Requests, WriteCreate(r)
    PROVE  IInv'
<1> USE DEF IInv
<1> DEFINE c == request[r].call
<1>1. c \in CreateCall /\ c.date \in Dates /\ request[r].sequence \in Nat
  BY Written, CallsApart DEF WriteCreate, Reading
<1>2. ASSUME NEW s \in SessionIds,
             session' = [session EXCEPT ![s] =
                        [date |-> c.date, sequence |-> request[r].sequence,
                         confirmed |-> FALSE, archived |-> FALSE,
                         explicit |-> MultipleSessions, tracked |-> TRUE,
                         version |-> 0]],
             attendance' = [attendance EXCEPT ![s] =
                        WithAutoRows(NoRows, Roster(c), c.date)]
      PROVE  /\ session' \in [SessionIds -> SessionRow \cup {None}]
             /\ attendance' \in [SessionIds -> Rows]
  <2> DEFINE row == [date |-> c.date, sequence |-> request[r].sequence,
                     confirmed |-> FALSE, archived |-> FALSE,
                     explicit |-> MultipleSessions, tracked |-> TRUE,
                     version |-> 0]
             rows == WithAutoRows(NoRows, Roster(c), c.date)
  <2>1. row \in SessionRow
    BY <1>1, MultipleAssumption DEF SessionRow
  <2>2. NoRows \in Rows /\ Roster(c) \subseteq Students
    BY DEF NoRows, Rows, Roster, TypeOK
  <2>3. rows \in Rows
    BY <1>1, <2>2, AutoRows
  <2>4. QED
    BY <1>2, <2>1, <2>3, OneSession
<1>3. /\ session' \in [SessionIds -> SessionRow \cup {None}]
      /\ attendance' \in [SessionIds -> Rows]
  BY <1>2 DEF WriteCreate, TypeOK
<1>4. request' \in [Requests -> Request] /\ InFlight'
  BY ReplyStep DEF WriteCreate
<1>5. QED
  BY <1>3, <1>4 DEF WriteCreate, TypeOK

\* The other writes reply, and change at most the session they were called for,
\* whose row they leave one version higher.
WritesOne(s) ==
    \/ UNCHANGED <<session, attendance>>
    \/ /\ session[s] # None
       /\ \E row \in SessionRow, rows \in Rows :
             /\ row.version = session[s].version + 1
             /\ session' = [session EXCEPT ![s] = row]
             /\ attendance' = [attendance EXCEPT ![s] = rows]

LEMMA SameRows ==
    ASSUME TypeOK, NEW s \in SessionIds, UNCHANGED attendance
    PROVE  /\ attendance' = [attendance EXCEPT ![s] = attendance[s]]
           /\ attendance[s] \in Rows
BY DEF TypeOK

LEMMA UpdateOne ==
    ASSUME IInv, NEW r \in Requests, WriteUpdate(r)
    PROVE  request[r].call.session \in SessionIds
           /\ WritesOne(request[r].call.session)
<1> USE DEF IInv
<1> DEFINE c == request[r].call
           s == c.session
           n == IF request[r].phase = "numbered" THEN request[r].sequence
                                                 ELSE request[r].row.sequence
           moved == [session[s] EXCEPT !.date = c.date, !.sequence = n]
<1>1. c \in UpdateCall
  BY Written, CallsApart DEF WriteUpdate, Reading
<1>2. s \in SessionIds /\ c.date \in Dates /\ n \in Nat
  BY <1>1, Written DEF WriteUpdate, UpdateCall, SessionRow
<1>3. CASE session[s] # None /\ session' = [session EXCEPT ![s] = Bumped(moved)]
  <2>1. session[s] \in SessionRow
    BY <1>2, <1>3 DEF TypeOK
  <2>2. moved \in SessionRow /\ moved.version = session[s].version
    BY <1>2, <2>1 DEF SessionRow
  <2> HIDE DEF moved
  <2>3. Bumped(moved) \in SessionRow /\ Bumped(moved).version = session[s].version + 1
    BY <2>2, BumpedRow
  <2>4. QED
    BY <1>2, <1>3, <2>3, SameRows DEF WriteUpdate, WritesOne
<1>4. CASE UNCHANGED session
  BY <1>2, <1>4 DEF WriteUpdate, WritesOne
<1>5. QED
  BY <1>3, <1>4 DEF WriteUpdate

LEMMA ConfirmOne ==
    ASSUME IInv, NEW r \in Requests, WriteConfirm(r)
    PROVE  request[r].call.session \in SessionIds
           /\ WritesOne(request[r].call.session)
<1> USE DEF IInv
<1> DEFINE s == request[r].call.session
           now == session[s]
           day == request[r].row.date
           locked == [now EXCEPT !.confirmed = TRUE]
           rows == WithAutoRows(attendance[s], Missing(now), day)
<1>1. s \in SessionIds /\ day \in Dates
  BY Written DEF WriteConfirm, SessionRow
<1>2. CASE /\ now # None
           /\ session' = [session EXCEPT ![s] = Bumped(locked)]
           /\ attendance' = [attendance EXCEPT ![s] = rows]
  <2>1. now \in SessionRow
    BY <1>1, <1>2 DEF TypeOK
  <2>2. locked \in SessionRow /\ locked.version = now.version
    BY <2>1 DEF SessionRow
  <2>3. Bumped(locked) \in SessionRow /\ Bumped(locked).version = now.version + 1
    BY <2>2, BumpedRow
  <2>4. Missing(now) \subseteq Students
    BY DEF Missing, TypeOK
  <2>5. attendance[s] \in Rows
    BY <1>1 DEF TypeOK
  <2>6. rows \in Rows
    BY <1>1, <2>4, <2>5, AutoRows
  <2>7. QED
    BY <1>1, <1>2, <2>3, <2>6 DEF WritesOne
<1>3. CASE UNCHANGED <<session, attendance>>
  BY <1>1, <1>3 DEF WritesOne
<1>4. QED
  BY <1>1, <1>2, <1>3 DEF WriteConfirm

LEMMA ReopenOne ==
    ASSUME IInv, NEW r \in Requests, WriteReopen(r)
    PROVE  request[r].call.session \in SessionIds
           /\ WritesOne(request[r].call.session)
<1> USE DEF IInv
<1> DEFINE s == request[r].call.session
           unlocked == [session[s] EXCEPT !.confirmed = FALSE]
<1>1. s \in SessionIds
  BY Written DEF WriteReopen
<1>2. CASE session[s] # None /\ session' = [session EXCEPT ![s] = Bumped(unlocked)]
  <2>1. session[s] \in SessionRow
    BY <1>1, <1>2 DEF TypeOK
  <2>2. unlocked \in SessionRow /\ unlocked.version = session[s].version
    BY <2>1 DEF SessionRow
  <2>3. Bumped(unlocked) \in SessionRow
        /\ Bumped(unlocked).version = session[s].version + 1
    BY <2>2, BumpedRow
  <2>4. QED
    BY <1>1, <1>2, <2>3, SameRows DEF WriteReopen, WritesOne
<1>3. CASE UNCHANGED session
  BY <1>1, <1>3 DEF WriteReopen, WritesOne
<1>4. QED
  BY <1>1, <1>2, <1>3 DEF WriteReopen

LEMMA ArchivedOne ==
    ASSUME IInv, NEW r \in Requests, WriteArchived(r)
    PROVE  request[r].call.session \in SessionIds
           /\ WritesOne(request[r].call.session)
<1> USE DEF IInv
<1> DEFINE s == request[r].call.session
           kept == [session[s] EXCEPT
                       !.archived = (request[r].call.endpoint = "archive")]
<1>1. s \in SessionIds
  BY Written DEF WriteArchived
<1>2. CASE session[s] # None /\ session' = [session EXCEPT ![s] = Bumped(kept)]
  <2>1. session[s] \in SessionRow
    BY <1>1, <1>2 DEF TypeOK
  <2>2. kept \in SessionRow /\ kept.version = session[s].version
    BY <2>1 DEF SessionRow
  <2>3. Bumped(kept) \in SessionRow /\ Bumped(kept).version = session[s].version + 1
    BY <2>2, BumpedRow
  <2>4. QED
    BY <1>1, <1>2, <2>3, SameRows DEF WriteArchived, WritesOne
<1>3. CASE UNCHANGED session
  BY <1>1, <1>3 DEF WriteArchived, WritesOne
<1>4. QED
  BY <1>1, <1>2, <1>3 DEF WriteArchived

\* A batch writes the receipt of its key with the version it gives the session.
WritesReceipt(s, k) ==
    \/ UNCHANGED <<session, attendance, receipt, applied>>
    \/ /\ receipt[k] = None
       /\ session[s] # None
       /\ session' = [session EXCEPT ![s] = Bumped(@)]
       /\ receipt' = [receipt EXCEPT ![k] =
             [session |-> s, version |-> session[s].version + 1]]
       /\ applied' = [applied EXCEPT ![k] = @ + 1]

LEMMA BatchOne ==
    ASSUME IInv, NEW r \in Requests, WriteBatch(r)
    PROVE  /\ request[r].call \in BatchCall
           /\ request[r].call.session \in SessionIds
           /\ request[r].call.key \in Keys
           /\ WritesOne(request[r].call.session)
           /\ WritesReceipt(request[r].call.session, request[r].call.key)
<1> USE DEF IInv
<1> DEFINE c == request[r].call
           s == c.session
           rows == Upserted(attendance[s], c.updates)
<1>1. c \in BatchCall
  BY Written, CallsApart DEF WriteBatch, Reading
<1>2. s \in SessionIds /\ c.key \in Keys /\ c.updates \in Updates
  BY <1>1 DEF BatchCall
<1>3. CASE /\ session[s] # None /\ KeyFree(c.key)
           /\ session' = [session EXCEPT ![s] = Bumped(@)]
           /\ attendance' = [attendance EXCEPT ![s] = Upserted(@, c.updates)]
           /\ receipt' = [receipt EXCEPT ![c.key] =
                 [session |-> s, version |-> session[s].version + 1]]
           /\ applied' = [applied EXCEPT ![c.key] = @ + 1]
  <2>1. session[s] \in SessionRow
    BY <1>2, <1>3 DEF TypeOK
  <2>2. Bumped(session[s]) \in SessionRow
        /\ Bumped(session[s]).version = session[s].version + 1
    BY <2>1, BumpedRow
  <2>3. attendance[s] \in Rows
    BY <1>2 DEF TypeOK
  <2>4. rows \in Rows
    BY <1>2, <2>3, UpsertedRows
  <2>5. session' = [session EXCEPT ![s] = Bumped(session[s])]
        /\ attendance' = [attendance EXCEPT ![s] = rows]
    BY <1>3
  <2>6. WritesOne(s)
    BY <1>3, <2>2, <2>4, <2>5 DEF WritesOne
  <2>7. WritesReceipt(s, c.key)
    BY <1>3 DEF WritesReceipt, KeyFree
  <2>8. QED
    BY <1>1, <1>2, <2>6, <2>7
<1>4. CASE UNCHANGED <<tables, applied>>
  BY <1>1, <1>2, <1>4 DEF tables, WritesOne, WritesReceipt
<1>5. QED
  BY <1>3, <1>4 DEF WriteBatch

LEMMA WritesOneTypes ==
    ASSUME IInv, NEW s \in SessionIds, WritesOne(s)
    PROVE  /\ session' \in [SessionIds -> SessionRow \cup {None}]
           /\ attendance' \in [SessionIds -> Rows]
BY OneSession DEF IInv, WritesOne, TypeOK

\* update, confirm, reopen, archive and recover, told apart no further.
LEMMA PlainWrite ==
    ASSUME IInv, NEW r \in Requests,
           WriteUpdate(r) \/ WriteConfirm(r) \/ WriteReopen(r) \/ WriteArchived(r)
    PROVE  /\ request[r].call.session \in SessionIds
           /\ WritesOne(request[r].call.session)
           /\ Reply(r)
           /\ UNCHANGED <<receipt, active, applied>>
<1>1. CASE WriteUpdate(r)
  BY <1>1, UpdateOne DEF WriteUpdate
<1>2. CASE WriteConfirm(r)
  BY <1>2, ConfirmOne DEF WriteConfirm
<1>3. CASE WriteReopen(r)
  BY <1>3, ReopenOne DEF WriteReopen
<1>4. CASE WriteArchived(r)
  BY <1>4, ArchivedOne DEF WriteArchived
<1>5. QED
  BY <1>1, <1>2, <1>3, <1>4

LEMMA WriteTypes ==
    ASSUME IInv, NEW r \in Requests, WriteStep(r)
    PROVE  IInv'
<1> DEFINE s == request[r].call.session
<1>1. CASE WriteCreate(r)
  BY <1>1, CreateTypes
<1>2. CASE WriteUpdate(r) \/ WriteConfirm(r) \/ WriteReopen(r) \/ WriteArchived(r)
  <2>1. s \in SessionIds /\ WritesOne(s) /\ Reply(r)
        /\ UNCHANGED <<receipt, active, applied>>
    BY <1>2, PlainWrite
  <2>2. QED
    BY <2>1, WritesOneTypes, ReplyStep DEF IInv, TypeOK
<1>3. CASE WriteBatch(r)
  <2> DEFINE k == request[r].call.key
  <2>1. s \in SessionIds /\ k \in Keys /\ WritesOne(s) /\ WritesReceipt(s, k)
    BY <1>3, BatchOne
  <2>2. /\ receipt' \in [Keys -> Receipt \cup {None}]
        /\ applied' \in [Keys -> Nat]
    BY <2>1 DEF WritesReceipt, IInv, TypeOK, Receipt, SessionRow
  <2>3. QED
    BY <1>3, <2>1, <2>2, WritesOneTypes, ReplyStep DEF WriteBatch, IInv, TypeOK
<1>4. QED
  BY <1>1, <1>2, <1>3 DEF WriteStep

LEMMA SessionsTypes == Spec => []IInv
<1>1. Init => IInv
  BY DEF Init, IInv, TypeOK, InFlight, Consistent, Reading, Idle, Request, Phases,
         NoRows, Rows
<1>2. IInv /\ [Next]_vars => IInv'
  <2> SUFFICES ASSUME IInv, [Next]_vars
               PROVE  IInv'
    OBVIOUS
  <2>1. ASSUME NEW r \in Requests, ClientStep(r) \/ ReadStep(r) \/ WriteStep(r)
        PROVE  IInv'
    BY <2>1, ClientTypes, ReadTypes, WriteTypes
  <2>2. ASSUME NEW st \in Students, SetActive(st)
        PROVE  IInv'
    BY <2>2 DEF SetActive, IInv, TypeOK, InFlight, tables
  <2>3. CASE UNCHANGED vars
    BY <2>3 DEF vars, IInv, TypeOK, InFlight
  <2>4. QED
    BY <2>1, <2>2, <2>3 DEF Next
<1>3. QED
  BY <1>1, <1>2, PTL DEF Spec

\* In every reachable state the tables and the requests in flight have the
\* shapes TypeOK declares, whatever the constants are.
THEOREM TypeCorrect == Spec => []TypeOK
BY SessionsTypes, PTL DEF IInv

-----------------------------------------------------------------------------
(* Versions.                                                                 *)

\* A session that changes, in its row or in its attendance, is one version on.
Versioned ==
    \A s \in SessionIds :
        \/ session'[s] = session[s] /\ attendance'[s] = attendance[s]
        \/ /\ session'[s] # None
           /\ session[s] # None => session'[s].version = session[s].version + 1

LEMMA WriteVersioned ==
    ASSUME IInv, NEW r \in Requests, WriteStep(r)
    PROVE  Versioned
<1> DEFINE c == request[r].call
<1>1. CASE WriteCreate(r)
  <2> DEFINE row == [date |-> c.date, sequence |-> request[r].sequence,
                     confirmed |-> FALSE, archived |-> FALSE,
                     explicit |-> MultipleSessions, tracked |-> TRUE,
                     version |-> 0]
  <2>1. c \in CreateCall /\ c.date \in Dates /\ request[r].sequence \in Nat
    BY <1>1, Written, CallsApart DEF WriteCreate, Reading
  <2>2. row \in SessionRow
    BY <2>1, MultipleAssumption DEF SessionRow
  <2>3. \/ UNCHANGED <<session, attendance>>
        \/ \E s \in SessionIds \cap NextAfter({t \in SessionIds : session[t] # None}) :
           \E rows :
              /\ session' = [session EXCEPT ![s] = row]
              /\ attendance' = [attendance EXCEPT ![s] = rows]
    BY <1>1 DEF WriteCreate
  <2>4. QED
    BY <2>2, <2>3, FreshId, NoneAssumption DEF Versioned, IInv, TypeOK
<1>2. CASE WriteUpdate(r) \/ WriteConfirm(r) \/ WriteReopen(r) \/ WriteArchived(r)
  BY <1>2, PlainWrite, NoneAssumption DEF WritesOne, Versioned, IInv, TypeOK
<1>3. CASE WriteBatch(r)
  BY <1>3, BatchOne, NoneAssumption DEF WritesOne, Versioned, IInv, TypeOK
<1>4. QED
  BY <1>1, <1>2, <1>3 DEF WriteStep

LEMMA WriteReplies ==
    ASSUME NEW r \in Requests, WriteStep(r)
    PROVE  Reply(r)
BY DEF WriteStep, WriteCreate, WriteUpdate, WriteConfirm, WriteReopen,
       WriteArchived, WriteBatch

\* No handler takes a view of its own; a view ends with the request.
KeepsViews ==
    \A x \in Requests :
        request'[x].view # None =>
            /\ request'[x].view = request[x].view
            /\ request[x].phase = "opening" => request'[x].phase = "opening"

LEMMA SetsOne ==
    ASSUME IInv, NEW r \in Requests, NEW q,
           request' = [request EXCEPT ![r] = q],
           q.view # None => q.view = request[r].view /\ request[r].phase # "opening"
    PROVE  KeepsViews
BY DEF KeepsViews, IInv, TypeOK

LEMMA ReplyKeeps ==
    ASSUME IInv, NEW r \in Requests, Reply(r)
    PROVE  KeepsViews
BY SetsOne DEF Reply, Idle

LEMMA LoadKeeps ==
    ASSUME IInv, NEW r \in Requests, NEW c, Load(r, c),
           request[r].phase # "opening"
    PROVE  KeepsViews
<1>1. request[r] \in Request
  BY DEF IInv, TypeOK
<1> DEFINE q == [request[r] EXCEPT !.phase = "loaded", !.call = c,
                                   !.row = session[c.session]]
<1>2. q.view = request[r].view
  BY <1>1 DEF Request
<1>3. request' = [request EXCEPT ![r] = q] \/ Reply(r)
  BY DEF Load
<1>4. QED
  BY <1>2, <1>3, SetsOne, ReplyKeeps

LEMMA ReadKeeps ==
    ASSUME IInv, NEW r \in Requests, ReadStep(r)
    PROVE  KeepsViews /\ UNCHANGED <<tables, active, applied>>
<1>0. request[r] \in Request
  BY DEF IInv, TypeOK
<1>1. ASSUME NEW s, NEW e, Sends(r, e, s)
      PROVE  request[r].phase # "opening"
  BY <1>1 DEF Sends
<1>2. ASSUME NEW s \in SessionIds, NEW k \in Keys, NEW u \in Updates,
             CallBatch(r, s, k, u)
      PROVE  KeepsViews
  <2> DEFINE c == [endpoint |-> "batch", session |-> s, key |-> k,
                   updates |-> u]
             q == [request[r] EXCEPT !.phase = "called", !.call = c]
  <2>1. q.view = request[r].view
    BY <1>0 DEF Request
  <2>2. request' = [request EXCEPT ![r] = q] \/ Reply(r)
    BY <1>2 DEF CallBatch
  <2>3. request[r].phase # "opening"
    BY <1>1, <1>2 DEF CallBatch
  <2>4. QED
    BY <2>1, <2>2, <2>3, SetsOne, ReplyKeeps
<1>3. ASSUME LoadBatch(r)
      PROVE  KeepsViews
  <2> DEFINE q == [request[r] EXCEPT !.phase = "loaded",
                                     !.row = session[request[r].call.session]]
  <2>1. q.view = request[r].view
    BY <1>0 DEF Request
  <2>2. request' = [request EXCEPT ![r] = q] \/ Reply(r)
    BY <1>3 DEF LoadBatch
  <2>3. QED
    BY <1>3, <2>1, <2>2, SetsOne, ReplyKeeps DEF LoadBatch
<1>4. ASSUME CheckDate(r)
      PROVE  KeepsViews
  <2> DEFINE q == [request[r] EXCEPT !.phase = "dated"]
  <2>1. q.view = request[r].view
    BY <1>0 DEF Request
  <2>2. request' = [request EXCEPT ![r] = q] \/ Reply(r)
    BY <1>4 DEF CheckDate
  <2>3. QED
    BY <1>4, <2>1, <2>2, SetsOne, ReplyKeeps DEF CheckDate
<1>5. ASSUME NEW d \in Dates, NEW m \in SUBSET Students, CallCreate(r, d, m)
      PROVE  KeepsViews
  <2> DEFINE c == [endpoint |-> "create", date |-> d, members |-> m]
             q == [request[r] EXCEPT !.phase = "dated", !.call = c]
  <2>1. q.view = request[r].view
    BY <1>0 DEF Request
  <2>2. request' = [request EXCEPT ![r] = q] \/ Reply(r)
    BY <1>5 DEF CallCreate
  <2>3. QED
    BY <1>5, <2>1, <2>2, SetsOne, ReplyKeeps DEF CallCreate
<1>6. ASSUME ReadSequence(r)
      PROVE  KeepsViews
  <2>1. PICK n : request' = [request EXCEPT ![r].phase = "numbered",
                                            ![r].sequence = n]
    BY <1>6 DEF ReadSequence
  <2> DEFINE q == [request[r] EXCEPT !.phase = "numbered", !.sequence = n]
  <2>2. q.view = request[r].view
    BY <1>0 DEF Request
  <2>3. request' = [request EXCEPT ![r] = q]
    BY <2>1 DEF IInv, TypeOK
  <2>4. QED
    BY <1>6, <2>2, <2>3, SetsOne DEF ReadSequence
<1>7. ASSUME NEW s \in SessionIds, NEW d \in Dates, LoadUpdate(r, s, d)
      PROVE  KeepsViews
  BY <1>1, <1>7, LoadKeeps DEF LoadUpdate
<1>8. ASSUME NEW s \in SessionIds,
             NEW e \in {"confirm", "reopen", "archive", "recover"},
             LoadStatus(r, s, e)
      PROVE  KeepsViews
  BY <1>1, <1>8, LoadKeeps DEF LoadStatus
<1>9. UNCHANGED <<tables, active, applied>>
  BY DEF ReadStep, CallBatch, LoadBatch, CheckDate, CallCreate, ReadSequence,
         LoadUpdate, LoadStatus
<1>10. QED
  BY <1>2, <1>3, <1>4, <1>5, <1>6, <1>7, <1>8, <1>9 DEF ReadStep

\* Views stay fresh as long as every change of a session shows in its version.
LEMMA FreshStep ==
    ASSUME IInv, FreshViews, Versioned, KeepsViews
    PROVE  FreshViews'
<1> SUFFICES ASSUME NEW x \in Requests, request'[x].view # None
             PROVE  LET view == request'[x].view IN
                    /\ session'[view.session] # None
                    /\ view.row.version <= session'[view.session].version
                    /\ view.row.version = session'[view.session].version =>
                          /\ view.row = session'[view.session]
                          /\ request'[x].phase # "opening" =>
                                view.rows = attendance'[view.session]
  BY DEF FreshViews
<1> DEFINE view == request[x].view
           s == view.session
<1>1. request'[x].view = view /\ view # None
      /\ (request[x].phase = "opening" => request'[x].phase = "opening")
  BY DEF KeepsViews
<1>2. view \in View /\ s \in SessionIds /\ view.row.version \in Nat
  BY <1>1 DEF IInv, TypeOK, Request, View, SessionRow
<1>3. /\ session[s] # None
      /\ view.row.version <= session[s].version
      /\ view.row.version = session[s].version =>
            /\ view.row = session[s]
            /\ request[x].phase # "opening" => view.rows = attendance[s]
  BY <1>1 DEF FreshViews
<1>4. session[s].version \in Nat
  BY <1>2, <1>3 DEF IInv, TypeOK, SessionRow
<1>5. CASE session'[s] = session[s] /\ attendance'[s] = attendance[s]
  BY <1>1, <1>3, <1>5
<1>6. CASE session'[s] # None /\ session'[s].version = session[s].version + 1
  BY <1>1, <1>2, <1>3, <1>4, <1>6
<1>7. QED
  BY <1>2, <1>3, <1>5, <1>6 DEF Versioned

LEMMA FreshNext ==
    ASSUME IInv, FreshViews, [Next]_vars
    PROVE  FreshViews'
<1>1. ASSUME NEW r \in Requests, NEW s \in SessionIds, OpenSession(r, s)
      PROVE  FreshViews'
  <2> DEFINE v == [session |-> s, row |-> session[s], rows |-> NoRows]
             q == [request[r] EXCEPT !.phase = "opening", !.view = v]
  <2>1. request[r] \in Request /\ session[s] \in SessionRow
    BY <1>1 DEF OpenSession, IInv, TypeOK
  <2>2. q.phase = "opening" /\ q.view = v
    BY <2>1 DEF Request
  <2>3. request' = [request EXCEPT ![r] = q]
        /\ UNCHANGED <<session, attendance>> /\ session[s] # None
    BY <1>1 DEF OpenSession, tables
  <2>4. \A x \in Requests : request'[x] = IF x = r THEN q ELSE request[x]
    BY <2>3 DEF IInv, TypeOK
  <2>5. v.row.version \in Nat /\ v.row = session[v.session]
        /\ session[v.session] # None
    BY <2>1, <2>3 DEF SessionRow
  <2>6. v.row.version <= session[v.session].version
    BY <2>5
  <2>7. QED
    BY <2>2, <2>3, <2>4, <2>5, <2>6 DEF FreshViews
<1>2. ASSUME NEW r \in Requests, OpenRows(r)
      PROVE  FreshViews'
  <2> DEFINE v == [request[r].view EXCEPT
                      !.rows = attendance[request[r].view.session]]
             q == [request[r] EXCEPT !.phase = "open", !.view = v]
  <2>1. request[r] \in Request /\ request[r].view \in View
    BY <1>2 DEF OpenRows, IInv, TypeOK, InFlight, Consistent, Request
  <2>2. /\ q.phase = "open" /\ q.view = v
        /\ v.session = request[r].view.session /\ v.row = request[r].view.row
        /\ v.rows = attendance[v.session]
    BY <2>1 DEF Request, View
  <2>3. request' = [request EXCEPT ![r] = q] /\ UNCHANGED <<session, attendance>>
    BY <1>2 DEF OpenRows, tables
  <2>4. \A x \in Requests : request'[x] = IF x = r THEN q ELSE request[x]
    BY <2>3 DEF IInv, TypeOK
  <2>5. request[r].view # None
    BY <2>1, NoneAssumption
  <2>6. QED
    BY <2>2, <2>3, <2>4, <2>5 DEF FreshViews
<1>3. ASSUME NEW r \in Requests, ReadStep(r)
      PROVE  FreshViews'
  <2>1. Versioned /\ KeepsViews
    BY <1>3, ReadKeeps DEF Versioned, tables
  <2>2. QED
    BY <2>1, FreshStep
<1>4. ASSUME NEW r \in Requests, WriteStep(r)
      PROVE  FreshViews'
  BY <1>4, WriteVersioned, WriteReplies, ReplyKeeps, FreshStep
<1>5. ASSUME NEW st \in Students, SetActive(st)
      PROVE  FreshViews'
  BY <1>5 DEF SetActive, tables, FreshViews
<1>6. CASE UNCHANGED vars
  BY <1>6 DEF vars, FreshViews
<1>7. QED
  BY <1>1, <1>2, <1>3, <1>4, <1>5, <1>6 DEF Next, ClientStep

\* A client whose version is current has the session as it is, rows included:
\* every write that changes a session or its attendance raises the version.
THEOREM ViewsAreFresh == Spec => []FreshViews
<1>1. Init => FreshViews
  BY DEF Init, FreshViews, Idle
<1>2. IInv /\ FreshViews /\ [Next]_vars => FreshViews'
  BY FreshNext
<1>3. QED
  BY <1>1, <1>2, SessionsTypes, PTL DEF Spec

-----------------------------------------------------------------------------
(* What a write may change.                                                  *)

\* The writes of a handler whose client sent an expected_version pass only if
\* it is the current one.
LEMMA WriteMatches ==
    ASSUME IInv, NEW r \in Requests, WriteStep(r), request[r].view # None,
           session' # session
    PROVE  /\ request[r].phase # "opening"
           /\ request[r].view.session \in SessionIds
           /\ Matches(request[r].view, session[request[r].view.session])
<1> DEFINE q == request[r]
<1>0. q \in Request /\ Consistent(q)
  BY DEF IInv, TypeOK, InFlight
<1>1. CASE WriteCreate(r)
  BY <1>1, Written, CallsApart DEF WriteCreate, Consistent, Reading
<1>2. CASE WriteUpdate(r)
  <2>1. q.phase \in Reading /\ q.call \in UpdateCall
    BY <1>2, Written, CallsApart DEF WriteUpdate, Reading
  <2>2. q.call \notin CreateCall
    BY <2>1 DEF UpdateCall, CreateCall
  <2>3. q.call.session = q.view.session /\ Matches(q.view, q.row)
    BY <1>0, <2>1, <2>2 DEF Consistent
  <2>4. session[q.call.session].version = q.row.version
    BY <1>2 DEF WriteUpdate
  <2>5. QED
    BY <1>2, <2>3, <2>4, UpdateOne DEF WriteUpdate, Matches
<1>3. ASSUME q.phase = "loaded"
      PROVE  q.call.session = q.view.session
  BY <1>0, <1>3, Written DEF Consistent, Reading
<1>4. CASE WriteConfirm(r)
  BY <1>3, <1>4, ConfirmOne DEF WriteConfirm
<1>5. CASE WriteReopen(r)
  BY <1>3, <1>5, ReopenOne DEF WriteReopen
<1>6. CASE WriteArchived(r)
  BY <1>3, <1>6, ArchivedOne DEF WriteArchived
<1>7. CASE WriteBatch(r)
  BY <1>3, <1>7, BatchOne DEF WriteBatch, tables
<1>8. QED
  BY <1>1, <1>2, <1>4, <1>5, <1>6, <1>7 DEF WriteStep

\* Of a session only a WriteStep changes anything.
LEMMA OnlyWrites ==
    ASSUME IInv, [Next]_vars, ~UNCHANGED <<session, attendance>>
    PROVE  \E r \in Requests : WriteStep(r)
<1>1. ASSUME NEW r \in Requests, ClientStep(r) \/ ReadStep(r)
      PROVE  UNCHANGED tables
  BY <1>1, ReadKeeps DEF ClientStep, OpenSession, OpenRows
<1>2. QED
  BY <1>1 DEF Next, vars, tables, SetActive

\* A save that carries an expected_version never overwrites what its client
\* has not seen: with FreshViews, the version test of the conditional UPDATE is
\* a test that the whole session is still the one the client opened.
THEOREM LostUpdatesExcluded == Spec => NoLostUpdate
<1> DEFINE Safe == \A r \in Requests :
          LET view == request[r].view IN
          /\ view # None
          /\ request'[r] # request[r]
          /\ session'[view.session] # session[view.session]
          => view.row = session[view.session]
             /\ view.rows = attendance[view.session]
<1>1. IInv /\ FreshViews /\ [Next]_vars => [Safe]_vars
  <2> SUFFICES ASSUME IInv, FreshViews, [Next]_vars, NEW x \in Requests,
                      request[x].view # None,
                      request'[x] # request[x],
                      session'[request[x].view.session]
                         # session[request[x].view.session]
               PROVE  /\ request[x].view.row = session[request[x].view.session]
                      /\ request[x].view.rows = attendance[request[x].view.session]
    OBVIOUS
  <2>1. PICK r \in Requests : WriteStep(r)
    BY OnlyWrites
  <2>2. r = x
    BY <2>1, WriteReplies DEF Reply, IInv, TypeOK
  <2>3. /\ request[x].phase # "opening"
        /\ Matches(request[x].view, session[request[x].view.session])
    BY <2>1, <2>2, WriteMatches
  <2>4. QED
    BY <2>3 DEF FreshViews, Matches
<1>2. QED
  BY <1>1, SessionsTypes, ViewsAreFresh, PTL DEF Spec, NoLostUpdate

\* A confirmed or archived session is locked against every request in flight.
THEOREM LockedSessionsAreSafe == Spec => LockedSessionsStay
<1> DEFINE Safe == \A s \in SessionIds :
          session[s] # None /\ (session[s].confirmed \/ session[s].archived)
          => /\ attendance'[s] = attendance[s]
             /\ session'[s] # None => session'[s].date = session[s].date
<1>1. IInv /\ [Next]_vars => [Safe]_vars
  <2> SUFFICES ASSUME IInv, [Next]_vars, NEW s \in SessionIds,
                      session[s] # None, ~Open(session[s])
               PROVE  /\ attendance'[s] = attendance[s]
                      /\ session'[s].date = session[s].date
    BY DEF Open
  <2>0. session[s] \in SessionRow
    BY DEF IInv, TypeOK
  <2>1. CASE UNCHANGED <<session, attendance>>
    BY <2>1
  <2>2. ASSUME NEW r \in Requests, WriteCreate(r)
        PROVE  /\ attendance'[s] = attendance[s]
               /\ session'[s].date = session[s].date
    BY <2>2, FreshId DEF WriteCreate, IInv, TypeOK
  <2>3. ASSUME NEW r \in Requests, WriteUpdate(r)
        PROVE  /\ attendance'[s] = attendance[s]
               /\ session'[s].date = session[s].date
    BY <2>3 DEF WriteUpdate, IInv, TypeOK
  <2>4. ASSUME NEW r \in Requests, WriteConfirm(r)
        PROVE  /\ attendance'[s] = attendance[s]
               /\ session'[s].date = session[s].date
    BY <2>4 DEF WriteConfirm, IInv, TypeOK
  <2>5. ASSUME NEW r \in Requests, WriteReopen(r)
        PROVE  /\ attendance'[s] = attendance[s]
               /\ session'[s].date = session[s].date
    <3>1. session'[s] = session[s]
          \/ session'[s] = Bumped([session[s] EXCEPT !.confirmed = FALSE])
      BY <2>5 DEF WriteReopen, IInv, TypeOK
    <3>2. Bumped([session[s] EXCEPT !.confirmed = FALSE]).date = session[s].date
      BY <2>0 DEF Bumped, SessionRow
    <3>3. QED
      BY <2>5, <3>1, <3>2 DEF WriteReopen
  <2>6. ASSUME NEW r \in Requests, WriteArchived(r)
        PROVE  /\ attendance'[s] = attendance[s]
               /\ session'[s].date = session[s].date
    <3> DEFINE kept == [session[s] EXCEPT
                           !.archived = (request[r].call.endpoint = "archive")]
    <3>1. session'[s] = session[s] \/ session'[s] = Bumped(kept)
      BY <2>6 DEF WriteArchived, IInv, TypeOK
    <3>2. Bumped(kept).date = session[s].date
      BY <2>0 DEF Bumped, SessionRow
    <3>3. QED
      BY <2>6, <3>1, <3>2 DEF WriteArchived
  <2>7. ASSUME NEW r \in Requests, WriteBatch(r)
        PROVE  /\ attendance'[s] = attendance[s]
               /\ session'[s].date = session[s].date
    BY <2>7 DEF WriteBatch, tables, IInv, TypeOK
  <2>8. QED
    BY <2>1, <2>2, <2>3, <2>4, <2>5, <2>6, <2>7, OnlyWrites DEF WriteStep
<1>2. QED
  BY <1>1, SessionsTypes, PTL DEF Spec, LockedSessionsStay

\* A batch is written once however often it is retried, and its receipt names a
\* version that its session has reached.
THEOREM BatchesApplyOnce == Spec => []BatchOnce
<1>1. Init => BatchOnce
  BY DEF Init, BatchOnce
<1>2. ASSUME IInv, BatchOnce, Versioned, UNCHANGED <<receipt, applied>>
      PROVE  BatchOnce'
  <2>1. ASSUME NEW k \in Keys, receipt[k] # None
        PROVE  /\ session'[receipt[k].session] # None
               /\ receipt[k].version <= session'[receipt[k].session].version
    <3> DEFINE s == receipt[k].session
    <3>1. s \in SessionIds /\ receipt[k].version \in Nat
      BY <1>2, <2>1 DEF IInv, TypeOK, Receipt
    <3>2. session[s] # None /\ receipt[k].version <= session[s].version
      BY <1>2, <2>1 DEF BatchOnce
    <3>3. session[s].version \in Nat
      BY <1>2, <3>1, <3>2 DEF IInv, TypeOK, SessionRow
    <3>4. CASE session'[s] = session[s]
      BY <3>2, <3>4
    <3>5. CASE session'[s] # None /\ session'[s].version = session[s].version + 1
      BY <3>1, <3>2, <3>3, <3>5
    <3>6. QED
      BY <1>2, <3>1, <3>2, <3>4, <3>5 DEF Versioned
  <2>2. QED
    BY <1>2, <2>1 DEF BatchOnce
<1>3. ASSUME IInv, BatchOnce, NEW r \in Requests, WriteBatch(r)
      PROVE  BatchOnce'
  <2> DEFINE s == request[r].call.session
             b == request[r].call.key
  <2>1. s \in SessionIds /\ b \in Keys /\ WritesReceipt(s, b)
    BY <1>3, BatchOne
  <2>2. Versioned
    BY <1>3, WriteVersioned DEF WriteStep
  <2>3. CASE UNCHANGED <<session, attendance, receipt, applied>>
    BY <1>2, <1>3, <2>2, <2>3
  <2>4. CASE /\ receipt[b] = None
             /\ session[s] # None
             /\ session' = [session EXCEPT ![s] = Bumped(@)]
             /\ receipt' = [receipt EXCEPT ![b] =
                   [session |-> s, version |-> session[s].version + 1]]
             /\ applied' = [applied EXCEPT ![b] = @ + 1]
    <3>1. session[s] \in SessionRow
      BY <1>3, <2>1, <2>4 DEF IInv, TypeOK
    <3>2. Bumped(session[s]) \in SessionRow
          /\ Bumped(session[s]).version = session[s].version + 1
      BY <3>1, BumpedRow
    <3> DEFINE new == [session |-> s, version |-> session[s].version + 1]
    <3>3. new \in Receipt /\ new.session = s /\ new.version = session[s].version + 1
          /\ session[s].version \in Nat
      BY <2>1, <3>1 DEF Receipt, SessionRow
    <3>4. ASSUME NEW k \in Keys, k # b, receipt[k] # None
          PROVE  /\ session'[receipt[k].session] # None
                 /\ receipt[k].version <= session'[receipt[k].session].version
      <4>1. receipt[k] \in Receipt
        BY <3>4, <1>3 DEF IInv, TypeOK
      <4>2. /\ session[receipt[k].session] # None
            /\ receipt[k].version <= session[receipt[k].session].version
        BY <3>4, <1>3 DEF BatchOnce
      <4>3. receipt[k].session \in SessionIds /\ receipt[k].version \in Nat
        BY <4>1 DEF Receipt
      <4>4. CASE receipt[k].session = s
        <5>1. session'[s] = Bumped(session[s])
          BY <1>3, <2>1, <2>4 DEF IInv, TypeOK
        <5>2. receipt[k].version <= session[s].version + 1
          BY <3>3, <4>2, <4>3, <4>4
        <5>3. QED
          BY <3>2, <4>4, <5>1, <5>2, NoneAssumption
      <4>5. CASE receipt[k].session # s
        BY <1>3, <2>4, <4>2, <4>3, <4>5 DEF IInv, TypeOK
      <4>6. QED
        BY <4>4, <4>5
    <3>5. /\ receipt'[b] = new /\ receipt'[b] # None
          /\ session'[s] = Bumped(session[s]) /\ session'[s] # None
      BY <1>3, <2>1, <2>4, <3>2, <3>3, NoneAssumption DEF IInv, TypeOK
    <3>6. new.version <= session'[s].version
      BY <3>2, <3>3, <3>5
    <3>7. ASSUME NEW k \in Keys
          PROVE  applied'[k] = IF receipt'[k] = None THEN 0 ELSE 1
      BY <1>3, <2>1, <2>4, <3>5 DEF BatchOnce, IInv, TypeOK
    <3>8. ASSUME NEW k \in Keys, receipt'[k] # None
          PROVE  /\ session'[receipt'[k].session] # None
                 /\ receipt'[k].version <= session'[receipt'[k].session].version
      <4>1. CASE k = b
        BY <3>3, <3>5, <3>6, <4>1
      <4>2. CASE k # b
        <5>1. receipt'[k] = receipt[k]
          BY <1>3, <2>1, <2>4, <4>2 DEF IInv, TypeOK
        <5>2. QED
          BY <3>4, <3>8, <4>2, <5>1
      <4>3. QED
        BY <4>1, <4>2
    <3>9. QED
      BY <3>7, <3>8 DEF BatchOnce
  <2>5. QED
    BY <2>1, <2>3, <2>4 DEF WritesReceipt
<1>4. IInv /\ BatchOnce /\ [Next]_vars => BatchOnce'
  <2> SUFFICES ASSUME IInv, BatchOnce, [Next]_vars
               PROVE  BatchOnce'
    OBVIOUS
  <2>1. ASSUME NEW r \in Requests, ClientStep(r) \/ ReadStep(r)
        PROVE  BatchOnce'
    BY <2>1, ReadKeeps DEF ClientStep, OpenSession, OpenRows, tables, BatchOnce
  <2>2. ASSUME NEW r \in Requests, WriteStep(r), ~WriteBatch(r)
        PROVE  BatchOnce'
    <3>1. UNCHANGED <<receipt, applied>>
      BY <2>2 DEF WriteStep, WriteCreate, WriteUpdate, WriteConfirm, WriteReopen,
                  WriteArchived
    <3>2. QED
      BY <1>2, <2>2, <3>1, WriteVersioned
  <2>3. ASSUME NEW st \in Students, SetActive(st)
        PROVE  BatchOnce'
    BY <2>3 DEF SetActive, tables, BatchOnce
  <2>4. CASE UNCHANGED vars
    BY <2>4 DEF vars, BatchOnce
  <2>5. QED
    BY <1>3, <2>1, <2>2, <2>3, <2>4 DEF Next
<1>5. QED
  BY <1>1, <1>4, SessionsTypes, PTL DEF Spec

-----------------------------------------------------------------------------
(* The chosen roster of a selective session.                                  *)

\* batch_attendance has checked that the students it will write are members, if the session
\* is selective.
SelectedUpdates ==
    \A r \in Requests :
        LET c == request[r].call
        IN request[r].phase = "loaded" /\ c.endpoint = "batch" =>
              /\ session[c.session] # None
              /\ session[c.session].explicit => DOMAIN c.updates \subseteq Members(c.session)

\* A session stays, selective or not as it was made, and a selective one with its members.
RostersStay ==
    \A s \in SessionIds : session[s] # None =>
        /\ session'[s] # None /\ session'[s].explicit = session[s].explicit
        /\ session[s].explicit =>
              \A st \in Students : (attendance'[s][st] # None) <=> (attendance[s][st] # None)

LEMMA RosterStep ==
    ASSUME IInv, SelectedUpdates, [Next]_vars
    PROVE  RostersStay
<1> SUFFICES ASSUME NEW s \in SessionIds, session[s] # None
             PROVE  /\ session'[s] # None /\ session'[s].explicit = session[s].explicit
                    /\ session[s].explicit =>
                          \A st \in Students :
                              (attendance'[s][st] # None) <=> (attendance[s][st] # None)
    BY DEF RostersStay
<1>0. session[s] \in SessionRow /\ attendance[s] \in Rows
  BY DEF IInv, TypeOK
<1>1. ASSUME NEW f, f \in SessionRow, f.explicit = session[s].explicit
      PROVE  Bumped(f) # None /\ Bumped(f).explicit = session[s].explicit
  BY <1>1, BumpedRow, NoneAssumption DEF Bumped, SessionRow
<1>2. CASE UNCHANGED <<session, attendance>>
  BY <1>2
<1>3. ASSUME NEW r \in Requests, WriteCreate(r)
      PROVE  session'[s] = session[s] /\ attendance'[s] = attendance[s]
  BY <1>3, FreshId DEF WriteCreate, IInv, TypeOK
<1>4. ASSUME NEW r \in Requests, WriteUpdate(r)
      PROVE  /\ session'[s] # None /\ session'[s].explicit = session[s].explicit
             /\ attendance'[s] = attendance[s]
  <2> DEFINE n == IF request[r].phase = "numbered" THEN request[r].sequence
                                                 ELSE request[r].row.sequence
             moved == [session[s] EXCEPT !.date = request[r].call.date, !.sequence = n]
  <2>1. session'[s] = session[s] \/ session'[s] = Bumped(moved)
    BY <1>4 DEF WriteUpdate, IInv, TypeOK
  <2>2. session'[s] \in SessionRow \cup {None} /\ session'[s] # None
    BY <1>0, <1>4, <2>1, WriteVersioned, WriteTypes, NoneAssumption
    DEF WriteStep, Versioned, IInv, TypeOK
  <2>3. Bumped(moved).explicit = session[s].explicit
    BY <1>0 DEF Bumped, SessionRow
  <2>4. QED
    BY <1>4, <2>1, <2>2, <2>3 DEF WriteUpdate
<1>5. ASSUME NEW r \in Requests, WriteConfirm(r)
      PROVE  /\ session'[s] # None /\ session'[s].explicit = session[s].explicit
             /\ session[s].explicit => attendance'[s] = attendance[s]
  <2> DEFINE f == [session[s] EXCEPT !.confirmed = TRUE]
             day == request[r].row.date
  <2>1. f \in SessionRow /\ f.explicit = session[s].explicit
    BY <1>0 DEF SessionRow
  <2>2. session'[s] = session[s] \/ session'[s] = Bumped(f)
    BY <1>5 DEF WriteConfirm, IInv, TypeOK
  <2>3. \/ attendance'[s] = attendance[s]
        \/ attendance'[s] = WithAutoRows(attendance[s], Missing(session[s]), day)
    BY <1>5 DEF WriteConfirm, IInv, TypeOK
  <2>4. WithAutoRows(attendance[s], {}, day) = attendance[s]
    BY <1>0 DEF WithAutoRows, Rows
  <2>5. session[s].explicit => Missing(session[s]) = {}
    BY DEF Missing
  <2> HIDE DEF f
  <2>6. QED
    BY <1>1, <2>1, <2>2, <2>3, <2>4, <2>5
<1>6. ASSUME NEW r \in Requests, WriteReopen(r)
      PROVE  /\ session'[s] # None /\ session'[s].explicit = session[s].explicit
             /\ attendance'[s] = attendance[s]
  <2> DEFINE f == [session[s] EXCEPT !.confirmed = FALSE]
  <2>1. f \in SessionRow /\ f.explicit = session[s].explicit
    BY <1>0 DEF SessionRow
  <2>2. session'[s] = session[s] \/ session'[s] = Bumped(f)
    BY <1>6 DEF WriteReopen, IInv, TypeOK
  <2> HIDE DEF f
  <2>3. QED
    BY <1>1, <1>6, <2>1, <2>2 DEF WriteReopen
<1>7. ASSUME NEW r \in Requests, WriteArchived(r)
      PROVE  /\ session'[s] # None /\ session'[s].explicit = session[s].explicit
             /\ attendance'[s] = attendance[s]
  <2> DEFINE f == [session[s] EXCEPT !.archived = (request[r].call.endpoint = "archive")]
  <2>1. f \in SessionRow /\ f.explicit = session[s].explicit
    BY <1>0 DEF SessionRow
  <2>2. session'[s] = session[s] \/ session'[s] = Bumped(f)
    BY <1>7 DEF WriteArchived, IInv, TypeOK
  <2> HIDE DEF f
  <2>3. QED
    BY <1>1, <1>7, <2>1, <2>2 DEF WriteArchived
<1>8. ASSUME NEW r \in Requests, WriteBatch(r)
      PROVE  /\ session'[s] # None /\ session'[s].explicit = session[s].explicit
             /\ session[s].explicit =>
                   \A st \in Students : (attendance'[s][st] # None) <=> (attendance[s][st] # None)
  <2> DEFINE c == request[r].call
  <2>1. session'[s] = session[s] \/ session'[s] = Bumped(session[s])
    BY <1>8 DEF WriteBatch, tables, IInv, TypeOK
  <2>2. session'[s] # None /\ session'[s].explicit = session[s].explicit
    BY <1>0, <1>1, <2>1
  <2>3. \/ attendance'[s] = attendance[s]
        \/ c.session = s /\ attendance'[s] = Upserted(attendance[s], c.updates)
    BY <1>8 DEF WriteBatch, tables, IInv, TypeOK
  <2>4. c.session = s /\ session[s].explicit => DOMAIN c.updates \subseteq Members(s)
    BY <1>8 DEF WriteBatch, SelectedUpdates
  <2>5. ASSUME c.session = s, session[s].explicit, NEW st \in Students,
               attendance'[s] = Upserted(attendance[s], c.updates)
        PROVE  (attendance'[s][st] # None) <=> (attendance[s][st] # None)
    <3>1. CASE st \in DOMAIN c.updates
      <4>1. attendance[s][st] # None
        BY <2>4, <2>5, <3>1 DEF Members
      <4>2. attendance[s] \in Rows /\ c.updates \in Updates
        BY <1>0, <1>8, BatchOne DEF BatchCall
      <4>3. Upserted(attendance[s], c.updates)[st] \in AttendanceRow
        <5>1. c.updates[st] \in Statuses
          BY <3>1, <4>2 DEF Updates
        <5>2. attendance[s][st].revision \in Nat
          BY <4>1, <4>2 DEF Rows, AttendanceRow
        <5>3. QED
          BY <3>1, <4>1, <5>1, <5>2 DEF Upserted, AttendanceRow
      <4>4. QED
        BY <2>5, <4>1, <4>3, NoneAssumption
    <3>2. CASE st \notin DOMAIN c.updates
      BY <2>5, <3>2 DEF Upserted
    <3>3. QED
      BY <3>1, <3>2
  <2>6. QED
    BY <2>2, <2>3, <2>5
<1>9. QED
  BY <1>2, <1>3, <1>4, <1>5, <1>6, <1>7, <1>8, OnlyWrites DEF WriteStep

LEMMA SelectedOne ==
    ASSUME IInv, SelectedUpdates, RostersStay, NEW r \in Requests, NEW q,
           request' = [request EXCEPT ![r] = q],
           q.phase = "loaded" /\ q.call.endpoint = "batch" =>
              /\ session[q.call.session] # None /\ q.call.session \in SessionIds
              /\ session[q.call.session].explicit =>
                    DOMAIN q.call.updates \subseteq Members(q.call.session)
    PROVE  SelectedUpdates'
<1> SUFFICES ASSUME NEW x \in Requests, request'[x].phase = "loaded",
                    request'[x].call.endpoint = "batch"
             PROVE  LET c == request'[x].call
                    IN /\ session'[c.session] # None
                       /\ session'[c.session].explicit =>
                             \A st \in DOMAIN c.updates :
                                 st \in Students /\ attendance'[c.session][st] # None
    BY DEF SelectedUpdates, Members
<1> DEFINE c == request'[x].call
<1>1. /\ session[c.session] # None /\ c.session \in SessionIds
      /\ session[c.session].explicit => DOMAIN c.updates \subseteq Members(c.session)
  <2>1. CASE x = r
    BY <2>1 DEF IInv, TypeOK
  <2>2. CASE x # r
    BY <2>2, Written DEF SelectedUpdates, IInv, TypeOK
  <2>3. QED
    BY <2>1, <2>2
<1> HIDE DEF c
<1>2. QED
  BY <1>1 DEF RostersStay, Members, c

LEMMA SelectedStep ==
    ASSUME IInv, SelectedUpdates, [Next]_vars
    PROVE  SelectedUpdates'
<1> DEFINE Harmless(q) == ~(q.phase = "loaded" /\ q.call.endpoint = "batch")
<1>0. RostersStay
  BY RosterStep
<1>1. ASSUME NEW r \in Requests, Reply(r)
      PROVE  SelectedUpdates'
  BY <1>0, <1>1, SelectedOne DEF Reply, Idle
<1>2. ASSUME NEW r \in Requests, ClientStep(r)
      PROVE  SelectedUpdates'
  <2>1. PICK q : request' = [request EXCEPT ![r] = q] /\ q.phase \in {"opening", "open"}
    BY <1>2 DEF ClientStep, OpenSession, OpenRows, IInv, TypeOK, Request
  <2>2. QED
    BY <1>0, <2>1, SelectedOne
<1>3. ASSUME NEW r \in Requests, LoadBatch(r)
      PROVE  SelectedUpdates'
  <2> DEFINE s == request[r].call.session
             q == [request[r] EXCEPT !.phase = "loaded", !.row = session[s]]
  <2>1. CASE Reply(r)
    BY <1>1, <2>1
  <2>2. CASE ~Reply(r)
    <3>1. q.call = request[r].call
      BY DEF IInv, TypeOK, Request
    <3>2. request[r].call.session \in SessionIds
      BY <1>3, Written DEF LoadBatch, Reading, Consistent, BatchCall
    <3>3. /\ request' = [request EXCEPT ![r] = q]
          /\ session[s] # None
          /\ session[s].explicit => DOMAIN request[r].call.updates \subseteq Members(s)
      BY <1>3, <2>2 DEF LoadBatch
    <3> HIDE DEF q
    <3>4. QED
      BY <1>0, <3>1, <3>2, <3>3, SelectedOne
  <2>3. QED
    BY <2>1, <2>2
<1>4. ASSUME NEW r \in Requests, NEW c, Load(r, c), c.endpoint # "batch"
      PROVE  SelectedUpdates'
  <2>1. CASE Reply(r)
    BY <1>1, <2>1
  <2>2. CASE ~Reply(r)
    <3> DEFINE q == [request[r] EXCEPT !.phase = "loaded", !.call = c,
                                       !.row = session[c.session]]
    <3>1. q.call = c
      BY DEF IInv, TypeOK, Request
    <3>2. request' = [request EXCEPT ![r] = q]
      BY <1>4, <2>2 DEF Load
    <3> HIDE DEF q
    <3>3. QED
      BY <1>0, <1>4, <3>1, <3>2, SelectedOne
  <2>3. QED
    BY <2>1, <2>2
<1>5. ASSUME NEW r \in Requests, ReadStep(r)
      PROVE  SelectedUpdates'
  <2>1. CASE LoadBatch(r)
    BY <1>3, <2>1
  <2>2. ASSUME NEW s \in SessionIds, NEW d \in Dates, LoadUpdate(r, s, d)
        PROVE  SelectedUpdates'
    BY <1>4, <2>2 DEF LoadUpdate
  <2>3. ASSUME NEW s \in SessionIds,
               NEW e \in {"confirm", "reopen", "archive", "recover"}, LoadStatus(r, s, e)
        PROVE  SelectedUpdates'
    BY <1>4, <2>3 DEF LoadStatus
  <2>4. CASE \/ \E s \in SessionIds, k \in Keys, u \in Updates : CallBatch(r, s, k, u)
             \/ CheckDate(r)
             \/ \E d \in Dates, m \in SUBSET Students : CallCreate(r, d, m)
             \/ ReadSequence(r)
    <3>0. request[r] \in Request
      BY DEF IInv, TypeOK
    <3>1. ASSUME NEW p \in {"called", "dated", "numbered"}, NEW c, NEW n,
                 request' = [request EXCEPT ![r] = [@ EXCEPT !.phase = p, !.call = c,
                                                            !.sequence = n]]
          PROVE  SelectedUpdates'
      <4> DEFINE q == [request[r] EXCEPT !.phase = p, !.call = c, !.sequence = n]
      <4>1. q.phase # "loaded" /\ request' = [request EXCEPT ![r] = q]
        BY <3>0, <3>1 DEF Request
      <4> HIDE DEF q
      <4>2. QED
        BY <1>0, <4>1, SelectedOne
    <3>2. ASSUME NEW s \in SessionIds, NEW k \in Keys, NEW u \in Updates,
                 CallBatch(r, s, k, u), ~Reply(r)
          PROVE  SelectedUpdates'
      <4> DEFINE c == [endpoint |-> "batch", session |-> s, key |-> k, updates |-> u]
      <4>1. request' = [request EXCEPT ![r] = [@ EXCEPT !.phase = "called", !.call = c]]
        BY <3>2 DEF CallBatch
      <4> HIDE DEF c
      <4>2. request' = [request EXCEPT ![r] = [@ EXCEPT !.phase = "called", !.call = c,
                                                      !.sequence = request[r].sequence]]
        BY <3>0, <4>1 DEF Request
      <4>3. QED
        BY <3>1, <4>2
    <3>3. ASSUME CheckDate(r), ~Reply(r)
          PROVE  SelectedUpdates'
      <4>1. request' = [request EXCEPT ![r] = [@ EXCEPT !.phase = "dated"]]
        BY <3>3 DEF CheckDate
      <4>2. request' = [request EXCEPT ![r] = [@ EXCEPT !.phase = "dated",
                                                      !.call = request[r].call,
                                                      !.sequence = request[r].sequence]]
        BY <3>0, <4>1 DEF Request
      <4>3. QED
        BY <3>1, <4>2
    <3>4. ASSUME NEW d \in Dates, NEW m \in SUBSET Students, CallCreate(r, d, m), ~Reply(r)
          PROVE  SelectedUpdates'
      <4> DEFINE c == [endpoint |-> "create", date |-> d, members |-> m]
      <4>1. request' = [request EXCEPT ![r] = [@ EXCEPT !.phase = "dated", !.call = c]]
        BY <3>4 DEF CallCreate
      <4> HIDE DEF c
      <4>2. request' = [request EXCEPT ![r] = [@ EXCEPT !.phase = "dated", !.call = c,
                                                      !.sequence = request[r].sequence]]
        BY <3>0, <4>1 DEF Request
      <4>3. QED
        BY <3>1, <4>2
    <3>5. ASSUME ReadSequence(r)
          PROVE  SelectedUpdates'
      <4>1. PICK n : request' = [request EXCEPT ![r].phase = "numbered", ![r].sequence = n]
        BY <3>5 DEF ReadSequence
      <4>2. request' = [request EXCEPT ![r] = [@ EXCEPT !.phase = "numbered",
                                                      !.call = request[r].call,
                                                      !.sequence = n]]
        BY <3>0, <4>1 DEF Request
      <4>3. QED
        BY <3>1, <4>2
    <3>6. QED
      BY <1>1, <2>4, <3>2, <3>3, <3>4, <3>5
  <2>5. QED
    BY <1>5, <2>1, <2>2, <2>3, <2>4 DEF ReadStep
<1>6. ASSUME NEW st \in Students, SetActive(st)
      PROVE  SelectedUpdates'
  BY <1>6 DEF SetActive, tables, SelectedUpdates, Members
<1>7. CASE UNCHANGED vars
  BY <1>7 DEF vars, SelectedUpdates, Members
<1>8. QED
  BY <1>1, <1>2, <1>5, <1>6, <1>7, WriteReplies DEF Next

\* Neither a batch nor a confirmation lets another student into a selective session: the
\* members batch_attendance checked its updates against are still the members when it writes.
THEOREM ChosenRosterIsKept == Spec => SelectedRosterKept
<1> DEFINE Kept == \A s \in SessionIds :
          session[s] # None /\ session[s].explicit
          => \A st \in Students :
                (attendance'[s][st] # None) <=> (attendance[s][st] # None)
<1>1. Init => SelectedUpdates
  BY DEF Init, Idle, SelectedUpdates
<1>2. IInv /\ SelectedUpdates /\ [Next]_vars => SelectedUpdates'
  BY SelectedStep
<1>3. IInv /\ SelectedUpdates /\ [Next]_vars => [Kept]_vars
  BY RosterStep DEF RostersStay
<1>4. QED
  BY <1>1, <1>2, <1>3, SessionsTypes, PTL DEF Spec, SelectedRosterKept

-----------------------------------------------------------------------------
(* SessionEdits: the edits that write without a condition, beside the others. *)

\* What the handler of request q holds at each of its awaits.
EditHolds(q) ==
    /\ q.phase = "opening" => q.view \in View
    /\ q.phase = "called" => q.call \in BatchCall
    /\ q.phase = "fetched" => q.call \in RowCall
    /\ q.phase \in {"loaded", "checked"} =>
          /\ q.row \in SessionRow
          /\ q.call \in BatchCall \cup UpdateCall \cup StatusCall \cup EditCall
    /\ q.phase \in {"dated", "numbered"} =>
          \/ q.call \in CreateCall
          \/ q.call \in UpdateCall /\ q.row \in SessionRow

RequestsHold == \A r \in Requests : EditHolds(request[r])

\* The tables and what has been recorded, with their types, and no orphan among them.
TablesSound ==
    /\ session \in [SessionIds -> SessionRow \cup {None}]
    /\ attendance \in [SessionIds -> Rows]
    /\ receipt \in [Keys -> Receipt \cup {None}]
    /\ applied \in [Keys -> Nat]
    /\ progress \in [SessionIds -> SUBSET Students]
    /\ NoOrphans

EditsInvariant == EditsTypeOK /\ RequestsHold /\ NoOrphans

\* The endpoint of a call says which fields it has.
LEMMA EditCallsApart ==
    ASSUME NEW c \in Call \cup EditCall
    PROVE  /\ c.endpoint = "batch" => c \in BatchCall
           /\ c.endpoint = "create" => c \in CreateCall
           /\ c.endpoint = "update" => c \in UpdateCall
           /\ c.endpoint \in {"confirm", "reopen", "archive", "recover"} => c \in StatusCall
           /\ c.endpoint \in {"patch", "upsert"} => c \in RowCall
           /\ c.endpoint = "membership" => c \in MembersCall
           /\ c.endpoint = "tracking" => c \in TrackingCall
           /\ c.endpoint = "progress" => c \in ProgressCall
           /\ c.endpoint = "delete" => c \in DeleteCall
           /\ c \in CreateCall => c.endpoint = "create" /\ c.date \in Dates
           /\ c \notin CreateCall => c.session \in SessionIds
<1>1. CASE c \in Call
  BY <1>1 DEF Call, BatchCall, CreateCall, UpdateCall, StatusCall
<1>2. CASE c \in EditCall
  BY <1>2 DEF EditCall, RowCall, MembersCall, TrackingCall, ProgressCall, DeleteCall, CreateCall
<1>3. QED
  BY <1>1, <1>2

LEMMA HeldCalls ==
    ASSUME EditsInvariant, NEW r \in Requests
    PROVE  /\ request[r] \in EditRequest
           /\ request[r].phase \in {"loaded", "checked"} =>
                 /\ request[r].call \in Call \cup EditCall
                 /\ request[r].call.session \in SessionIds
                 /\ request[r].row \in SessionRow
           /\ request[r].phase \in {"dated", "numbered"} =>
                 /\ request[r].call \in CreateCall \cup UpdateCall
                 /\ request[r].call.date \in Dates
                 /\ request[r].call \in UpdateCall =>
                       request[r].row \in SessionRow /\ request[r].call.session \in SessionIds
           /\ request[r].phase = "called" =>
                 request[r].call \in BatchCall /\ request[r].call.session \in SessionIds
<1>1. request[r] \in EditRequest /\ EditHolds(request[r])
  BY DEF EditsInvariant, EditsTypeOK, RequestsHold
<1>2. ASSUME request[r].phase \in {"loaded", "checked"}
      PROVE  /\ request[r].call \in Call \cup EditCall
             /\ request[r].call.session \in SessionIds
  <2>1. request[r].call \in BatchCall \cup UpdateCall \cup StatusCall \cup EditCall
    BY <1>1, <1>2 DEF EditHolds
  <2>2. request[r].call.session \in SessionIds
    BY <2>1 DEF BatchCall, UpdateCall, StatusCall, EditCall, RowCall, MembersCall,
                TrackingCall, ProgressCall, DeleteCall
  <2>3. QED
    BY <2>1, <2>2 DEF Call
<1>3. QED
  BY <1>1, <1>2 DEF EditHolds, BatchCall, CreateCall, UpdateCall

-----------------------------------------------------------------------------
(* The steps of a request that read.                                          *)

LEMMA OneEdit ==
    ASSUME EditsInvariant, NEW r \in Requests, NEW q \in EditRequest, EditHolds(q),
           request' = [request EXCEPT ![r] = q]
    PROVE  request' \in [Requests -> EditRequest] /\ RequestsHold'
BY DEF EditsInvariant, EditsTypeOK, RequestsHold, EditHolds

LEMMA EditReplies ==
    ASSUME EditsInvariant, NEW r \in Requests, Reply(r)
    PROVE  request' \in [Requests -> EditRequest] /\ RequestsHold'
<1>1. Idle \in EditRequest /\ EditHolds(Idle)
  BY DEF Idle, EditRequest, Phases, EditHolds
<1>2. QED
  BY <1>1, OneEdit DEF Reply

LEMMA TablesUntouched ==
    ASSUME EditsInvariant, UNCHANGED <<tables, applied, progress>>
    PROVE  TablesSound'
BY DEF EditsInvariant, EditsTypeOK, TablesSound, NoOrphans, tables

\* Load keeps the row and the call of an endpoint whose checks pass.
LEMMA EditLoads ==
    ASSUME EditsInvariant, NEW r \in Requests, NEW c \in UpdateCall \cup StatusCall,
           Load(r, c)
    PROVE  request' \in [Requests -> EditRequest] /\ RequestsHold'
<1> DEFINE q == [request[r] EXCEPT !.phase = "loaded", !.call = c,
                                   !.row = session[c.session]]
<1>1. c \in Call /\ c.session \in SessionIds
  BY DEF Call, UpdateCall, StatusCall
<1>2. CASE Accepts(c, request[r].view, session[c.session])
  <2>1. session[c.session] \in SessionRow
    BY <1>1, <1>2 DEF Accepts, EditsInvariant, EditsTypeOK
  <2>2. q \in EditRequest /\ q.phase = "loaded" /\ q.call = c /\ q.row = session[c.session]
    BY <1>1, <2>1, HeldCalls DEF EditRequest, Phases
  <2>3. request' = [request EXCEPT ![r] = q]
    BY <1>2 DEF Load
  <2> HIDE DEF q
  <2>4. EditHolds(q)
    BY <2>1, <2>2 DEF EditHolds
  <2>5. QED
    BY <2>2, <2>3, <2>4, OneEdit
<1>3. CASE ~Accepts(c, request[r].view, session[c.session])
  BY <1>3, EditReplies DEF Load
<1>4. QED
  BY <1>2, <1>3

LEMMA ReadsHold ==
    ASSUME EditsInvariant, NEW r \in Requests, ClientStep(r) \/ ReadStep(r)
    PROVE  request' \in [Requests -> EditRequest] /\ RequestsHold'
<1>0. request[r] \in EditRequest
  BY HeldCalls
<1>1. ASSUME NEW s \in SessionIds, OpenSession(r, s)
      PROVE  request' \in [Requests -> EditRequest] /\ RequestsHold'
  <2> DEFINE v == [session |-> s, row |-> session[s], rows |-> NoRows]
             q == [request[r] EXCEPT !.phase = "opening", !.view = v]
  <2>1. v \in View
    BY <1>1 DEF OpenSession, View, EditsInvariant, EditsTypeOK, NoRows, Rows
  <2> HIDE DEF v
  <2>2. q \in EditRequest /\ q.phase = "opening" /\ q.view = v
    BY <1>0, <2>1 DEF EditRequest, Phases
  <2>3. request' = [request EXCEPT ![r] = q]
    BY <1>1 DEF OpenSession, v
  <2> HIDE DEF q
  <2>4. QED
    BY <2>1, <2>2, <2>3, OneEdit DEF EditHolds
<1>2. ASSUME OpenRows(r)
      PROVE  request' \in [Requests -> EditRequest] /\ RequestsHold'
  <2> DEFINE v == [request[r].view EXCEPT !.rows = attendance[request[r].view.session]]
             q == [request[r] EXCEPT !.phase = "open", !.view = v]
  <2>1. request[r].view \in View
    BY <1>2 DEF OpenRows, EditsInvariant, RequestsHold, EditHolds
  <2>2. v \in View
    BY <2>1 DEF View, EditsInvariant, EditsTypeOK
  <2>3. request' = [request EXCEPT ![r] = q]
    BY <1>2 DEF OpenRows
  <2> HIDE DEF v
  <2>4. q \in EditRequest /\ q.phase = "open"
    BY <1>0, <2>2 DEF EditRequest, Phases
  <2> HIDE DEF q
  <2>5. QED
    BY <2>3, <2>4, OneEdit DEF EditHolds
<1>3. ASSUME NEW s \in SessionIds, NEW k \in Keys, NEW u \in Updates, CallBatch(r, s, k, u)
      PROVE  request' \in [Requests -> EditRequest] /\ RequestsHold'
  <2> DEFINE c == [endpoint |-> "batch", session |-> s, key |-> k, updates |-> u]
             q == [request[r] EXCEPT !.phase = "called", !.call = c]
  <2>1. c \in BatchCall /\ c \in Call
    BY DEF BatchCall, Call
  <2>2. request' = [request EXCEPT ![r] = q] \/ Reply(r)
    BY <1>3 DEF CallBatch
  <2> HIDE DEF c
  <2>3. q \in EditRequest /\ q.phase = "called" /\ q.call = c
    BY <1>0, <2>1 DEF EditRequest, Phases
  <2> HIDE DEF q
  <2>4. QED
    BY <2>1, <2>2, <2>3, OneEdit, EditReplies DEF EditHolds
<1>4. ASSUME LoadBatch(r)
      PROVE  request' \in [Requests -> EditRequest] /\ RequestsHold'
  <2> DEFINE s == request[r].call.session
             q == [request[r] EXCEPT !.phase = "loaded", !.row = session[s]]
  <2>1. request[r].call \in BatchCall /\ s \in SessionIds
    BY <1>4, HeldCalls DEF LoadBatch
  <2>2. (session[s] # None /\ request' = [request EXCEPT ![r] = q]) \/ Reply(r)
    BY <1>4 DEF LoadBatch
  <2>3. ASSUME session[s] # None, request' = [request EXCEPT ![r] = q]
        PROVE  request' \in [Requests -> EditRequest] /\ RequestsHold'
    <3>1. session[s] \in SessionRow
      BY <2>1, <2>3 DEF EditsInvariant, EditsTypeOK
    <3>2. q \in EditRequest /\ q.phase = "loaded" /\ q.call = request[r].call
          /\ q.row = session[s]
      BY <1>0, <3>1 DEF EditRequest, Phases
    <3> HIDE DEF q
    <3>3. QED
      BY <2>1, <2>3, <3>1, <3>2, OneEdit DEF EditHolds
  <2>4. QED
    BY <2>2, <2>3, EditReplies
<1>5. ASSUME NEW s \in SessionIds, NEW d \in Dates, LoadUpdate(r, s, d)
      PROVE  request' \in [Requests -> EditRequest] /\ RequestsHold'
  BY <1>5, EditLoads DEF LoadUpdate, UpdateCall
<1>6. ASSUME NEW s \in SessionIds,
             NEW e \in {"confirm", "reopen", "archive", "recover"}, LoadStatus(r, s, e)
      PROVE  request' \in [Requests -> EditRequest] /\ RequestsHold'
  BY <1>6, EditLoads DEF LoadStatus, StatusCall
<1>7. ASSUME CheckDate(r)
      PROVE  request' \in [Requests -> EditRequest] /\ RequestsHold'
  <2> DEFINE q == [request[r] EXCEPT !.phase = "dated"]
  <2>1. request[r].call \in UpdateCall /\ request[r].row \in SessionRow
    BY <1>7, HeldCalls, EditCallsApart DEF CheckDate
  <2>2. request' = [request EXCEPT ![r] = q] \/ Reply(r)
    BY <1>7 DEF CheckDate
  <2>3. q \in EditRequest /\ q.phase = "dated" /\ q.call = request[r].call
        /\ q.row = request[r].row
    BY <1>0 DEF EditRequest, Phases
  <2> HIDE DEF q
  <2>4. QED
    BY <2>1, <2>2, <2>3, OneEdit, EditReplies DEF EditHolds
<1>8. ASSUME NEW d \in Dates, NEW m \in SUBSET Students, CallCreate(r, d, m)
      PROVE  request' \in [Requests -> EditRequest] /\ RequestsHold'
  <2> DEFINE c == [endpoint |-> "create", date |-> d, members |-> m]
             q == [request[r] EXCEPT !.phase = "dated", !.call = c]
  <2>1. c \in CreateCall /\ c \in Call
    BY DEF CreateCall, Call
  <2>2. request' = [request EXCEPT ![r] = q] \/ Reply(r)
    BY <1>8 DEF CallCreate
  <2> HIDE DEF c
  <2>3. q \in EditRequest /\ q.phase = "dated" /\ q.call = c
    BY <1>0, <2>1 DEF EditRequest, Phases
  <2> HIDE DEF q
  <2>4. QED
    BY <2>1, <2>2, <2>3, OneEdit, EditReplies DEF EditHolds
<1>9. ASSUME ReadSequence(r)
      PROVE  request' \in [Requests -> EditRequest] /\ RequestsHold'
  <2> DEFINE c == request[r].call
             own == IF c.endpoint = "update" THEN {c.session} ELSE {}
             T == {session[x].sequence : x \in OnDate(c.date) \ own}
  <2>1. T \subseteq Nat
    BY DEF OnDate, EditsInvariant, EditsTypeOK, SessionRow
  <2>2. PICK n \in NextAfter(T) :
           request' = [request EXCEPT ![r].phase = "numbered", ![r].sequence = n]
    BY <1>9 DEF ReadSequence
  <2> DEFINE q == [request[r] EXCEPT !.phase = "numbered", !.sequence = n]
  <2>3. n \in Nat
    BY <2>1, NextNumber
  <2>4. q \in EditRequest /\ q.phase = "numbered" /\ q.call = request[r].call
        /\ q.row = request[r].row
    BY <1>0, <2>3 DEF EditRequest, Phases
  <2>5. request' = [request EXCEPT ![r] = q]
    BY <1>0, <2>2 DEF EditRequest
  <2>6. request[r].phase = "dated" /\ EditHolds(request[r])
    BY <1>9 DEF ReadSequence, EditsInvariant, RequestsHold
  <2> HIDE DEF q
  <2>7. EditHolds(q)
    BY <2>4, <2>6 DEF EditHolds
  <2>8. QED
    BY <2>4, <2>5, <2>7, OneEdit
<1>10. QED
  BY <1>1, <1>2, <1>3, <1>4, <1>5, <1>6, <1>7, <1>8, <1>9 DEF ClientStep, ReadStep

\* The reads of the edits keep the attendance rows and entries they saw.
LEMMA EditReadsHold ==
    ASSUME EditsInvariant, NEW r \in Requests,
           \/ \E c \in RowCall : CallPatch(r, c)
           \/ LoadPatch(r)
           \/ \E c \in EditCall : LoadEdit(r, c)
           \/ CheckEdit(r)
    PROVE  /\ request' \in [Requests -> EditRequest] /\ RequestsHold'
           /\ seen' \in [Requests -> Seen]
<1>0. request[r] \in EditRequest /\ seen \in [Requests -> Seen]
  BY HeldCalls DEF EditsInvariant, EditsTypeOK
<1>1. ASSUME Done(r)
      PROVE  /\ request' \in [Requests -> EditRequest] /\ RequestsHold'
             /\ seen' \in [Requests -> Seen]
  <2>1. NothingSeen \in Seen
    BY DEF NothingSeen, Seen, NoRows, Rows
  <2>2. QED
    BY <1>0, <1>1, <2>1, EditReplies DEF Done
<1>2. ASSUME NEW c \in EditCall, Loaded(r, c), session[c.session] # None, UNCHANGED seen,
             c.session \in SessionIds
      PROVE  /\ request' \in [Requests -> EditRequest] /\ RequestsHold'
             /\ seen' \in [Requests -> Seen]
  <2> DEFINE q == [request[r] EXCEPT !.phase = "loaded", !.call = c,
                                     !.row = session[c.session]]
  <2>1. session[c.session] \in SessionRow
    BY <1>2 DEF EditsInvariant, EditsTypeOK
  <2>2. q \in EditRequest /\ q.phase = "loaded" /\ q.call = c /\ q.row = session[c.session]
    BY <1>0, <2>1 DEF EditRequest, Phases
  <2>3. request' = [request EXCEPT ![r] = q]
    BY <1>2 DEF Loaded
  <2> HIDE DEF q
  <2>4. QED
    BY <1>0, <1>2, <2>1, <2>2, <2>3, OneEdit DEF EditHolds
<1>3. ASSUME NEW c \in RowCall, CallPatch(r, c)
      PROVE  /\ request' \in [Requests -> EditRequest] /\ RequestsHold'
             /\ seen' \in [Requests -> Seen]
  <2> DEFINE q == [request[r] EXCEPT !.phase = "fetched", !.call = c]
             rows == attendance[c.session]
  <2>1. CASE Done(r)
    BY <1>1, <2>1
  <2>2. CASE ~Done(r)
    <3>1. /\ request' = [request EXCEPT ![r] = q]
          /\ seen' = [seen EXCEPT ![r].rows = rows]
      BY <1>3, <2>2 DEF CallPatch
    <3>2. rows \in Rows /\ c \in EditCall
      BY DEF EditsInvariant, EditsTypeOK, RowCall, EditCall
    <3>3. q \in EditRequest /\ q.phase = "fetched" /\ q.call = c
      BY <1>0, <3>2 DEF EditRequest, Phases
    <3> HIDE DEF q, rows
    <3>4. seen' \in [Requests -> Seen]
      BY <1>0, <3>1, <3>2 DEF Seen
    <3>5. QED
      BY <3>1, <3>3, <3>4, OneEdit DEF EditHolds
  <2>3. QED
    BY <2>1, <2>2
<1>4. ASSUME LoadPatch(r)
      PROVE  /\ request' \in [Requests -> EditRequest] /\ RequestsHold'
             /\ seen' \in [Requests -> Seen]
  <2>1. request[r].call \in RowCall
    BY <1>4 DEF LoadPatch, EditsInvariant, RequestsHold, EditHolds
  <2>2. request[r].call \in EditCall /\ request[r].call.session \in SessionIds
    BY <2>1 DEF EditCall, RowCall
  <2>3. QED
    BY <1>1, <1>2, <1>4, <2>2 DEF LoadPatch, EditAccepts
<1>5. ASSUME NEW c \in EditCall, LoadEdit(r, c)
      PROVE  /\ request' \in [Requests -> EditRequest] /\ RequestsHold'
             /\ seen' \in [Requests -> Seen]
  <2>1. c.session \in SessionIds
    BY DEF EditCall, RowCall, MembersCall, TrackingCall, ProgressCall, DeleteCall
  <2>2. QED
    BY <1>1, <1>2, <1>5, <2>1 DEF LoadEdit, EditAccepts
<1>6. ASSUME CheckEdit(r)
      PROVE  /\ request' \in [Requests -> EditRequest] /\ RequestsHold'
             /\ seen' \in [Requests -> Seen]
  <2> DEFINE s == request[r].call.session
             q == [request[r] EXCEPT !.phase = "checked"]
             read == [rows |-> attendance[s], entries |-> progress[s]]
  <2>1. CASE Done(r)
    BY <1>1, <2>1
  <2>2. CASE ~Done(r)
    <3>1. /\ request' = [request EXCEPT ![r] = q]
          /\ seen' = [seen EXCEPT ![r] = read]
      BY <1>6, <2>2 DEF CheckEdit, Checked
    <3>2. request[r].phase = "loaded" /\ s \in SessionIds /\ EditHolds(request[r])
      BY <1>6, HeldCalls DEF CheckEdit, EditsInvariant, RequestsHold
    <3>3. read \in Seen
      BY <3>2 DEF Seen, EditsInvariant, EditsTypeOK
    <3>4. q \in EditRequest /\ q.phase = "checked" /\ q.call = request[r].call
          /\ q.row = request[r].row
      BY <1>0 DEF EditRequest, Phases
    <3> HIDE DEF q, read
    <3>5. EditHolds(q)
      BY <3>2, <3>4 DEF EditHolds
    <3>6. QED
      BY <1>0, <3>1, <3>3, <3>4, <3>5, OneEdit
  <2>3. QED
    BY <2>1, <2>2
<1>7. QED
  BY <1>3, <1>4, <1>5, <1>6

-----------------------------------------------------------------------------
(* The steps that write.                                                      *)

LEMMA OneWritten ==
    ASSUME EditsInvariant, NEW s \in SessionIds, NEW row \in SessionRow, NEW rows \in Rows,
           session' = [session EXCEPT ![s] = row],
           attendance' = [attendance EXCEPT ![s] = rows],
           UNCHANGED <<receipt, applied, progress>>
    PROVE  TablesSound'
<1>1. /\ session' \in [SessionIds -> SessionRow \cup {None}]
      /\ attendance' \in [SessionIds -> Rows]
  BY DEF EditsInvariant, EditsTypeOK
<1>2. \A x \in SessionIds : session'[x] = None =>
         session[x] = None /\ attendance'[x] = attendance[x]
  BY NoneAssumption DEF EditsInvariant, EditsTypeOK
<1>3. QED
  BY <1>1, <1>2 DEF EditsInvariant, EditsTypeOK, TablesSound, NoOrphans

\* A row of the table with one version more, and the attendance as it was.
LEMMA RowWritten ==
    ASSUME EditsInvariant, NEW s \in SessionIds, NEW f \in SessionRow,
           session' = [session EXCEPT ![s] = Bumped(f)],
           UNCHANGED <<attendance, receipt, applied, progress>>
    PROVE  TablesSound'
<1>1. Bumped(f) \in SessionRow
  BY BumpedRow
<1>2. attendance[s] \in Rows /\ attendance' = [attendance EXCEPT ![s] = attendance[s]]
  BY DEF EditsInvariant, EditsTypeOK
<1>3. QED
  BY <1>1, <1>2, OneWritten

LEMMA WritesSound ==
    ASSUME EditsInvariant, NEW r \in Requests, WriteStep(r), UNCHANGED progress
    PROVE  TablesSound'
<1> DEFINE c == request[r].call
           s == c.session
<1>0. request[r] \in EditRequest
  BY HeldCalls
<1>1. CASE WriteCreate(r)
  <2> DEFINE row == [date |-> c.date, sequence |-> request[r].sequence,
                     confirmed |-> FALSE, archived |-> FALSE,
                     explicit |-> MultipleSessions, tracked |-> TRUE,
                     version |-> 0]
             rows == WithAutoRows(NoRows, Roster(c), c.date)
  <2>1. c.date \in Dates /\ request[r].sequence \in Nat
    BY <1>0, <1>1, HeldCalls DEF WriteCreate, EditRequest
  <2>2. row \in SessionRow
    BY <2>1, MultipleAssumption DEF SessionRow
  <2>3. NoRows \in Rows /\ Roster(c) \subseteq Students
    BY DEF NoRows, Rows, Roster, EditsInvariant, EditsTypeOK
  <2>4. rows \in Rows
    BY <2>1, <2>3, AutoRows
  <2>5. /\ \/ UNCHANGED <<session, attendance>>
           \/ \E x \in SessionIds : /\ session' = [session EXCEPT ![x] = row]
                                    /\ attendance' = [attendance EXCEPT ![x] = rows]
        /\ UNCHANGED <<receipt, applied>>
    BY <1>1 DEF WriteCreate
  <2> HIDE DEF row, rows
  <2>6. QED
    BY <2>2, <2>4, <2>5, OneWritten, TablesUntouched DEF tables
<1>2. CASE WriteUpdate(r)
  <2> DEFINE n == IF request[r].phase = "numbered" THEN request[r].sequence
                                                 ELSE request[r].row.sequence
             f == [session[s] EXCEPT !.date = c.date, !.sequence = n]
  <2>1. s \in SessionIds /\ c \in UpdateCall
    BY <1>2, HeldCalls, EditCallsApart DEF WriteUpdate, Call
  <2>2. c.date \in Dates /\ n \in Nat
    BY <1>0, <1>2, <2>1, HeldCalls DEF WriteUpdate, UpdateCall, EditRequest, SessionRow
  <2>3. /\ \/ UNCHANGED session
           \/ session[s] # None /\ session' = [session EXCEPT ![s] = Bumped(f)]
        /\ UNCHANGED <<attendance, receipt, applied>>
    BY <1>2 DEF WriteUpdate
  <2>4. ASSUME session[s] # None
        PROVE  f \in SessionRow
    <3>1. session[s] \in SessionRow
      BY <2>1, <2>4 DEF EditsInvariant, EditsTypeOK
    <3> HIDE DEF n
    <3>2. QED
      BY <2>2, <3>1 DEF SessionRow
  <2> HIDE DEF f
  <2>5. QED
    BY <2>1, <2>3, <2>4, RowWritten, TablesUntouched DEF tables
<1>3. CASE WriteConfirm(r)
  <2> DEFINE f == [session[s] EXCEPT !.confirmed = TRUE]
             rows == WithAutoRows(attendance[s], Missing(session[s]), request[r].row.date)
  <2>1. s \in SessionIds /\ request[r].row.date \in Dates
    BY <1>3, HeldCalls DEF WriteConfirm, SessionRow
  <2>2. attendance[s] \in Rows /\ Missing(session[s]) \subseteq Students
    BY <2>1 DEF EditsInvariant, EditsTypeOK, Missing
  <2>3. rows \in Rows
    <3> DEFINE was == attendance[s]
               added == Missing(session[s])
               day == request[r].row.date
    <3>1. was \in Rows /\ added \in SUBSET Students /\ day \in Dates
      BY <2>1, <2>2
    <3> HIDE DEF was, added, day
    <3>2. WithAutoRows(was, added, day) \in Rows
      BY <3>1, AutoRows
    <3>3. QED
      BY <3>2 DEF was, added, day
  <2>4. ASSUME session[s] # None
        PROVE  f \in SessionRow /\ Bumped(f) \in SessionRow
    <3>1. session[s] \in SessionRow
      BY <2>1, <2>4 DEF EditsInvariant, EditsTypeOK
    <3>2. f \in SessionRow
      BY <3>1 DEF SessionRow
    <3> HIDE DEF f
    <3>3. QED
      BY <3>2, BumpedRow
  <2>5. /\ \/ UNCHANGED <<session, attendance>>
           \/ /\ session[s] # None
              /\ session' = [session EXCEPT ![s] = Bumped(f)]
              /\ attendance' = [attendance EXCEPT ![s] = rows]
        /\ UNCHANGED <<receipt, applied>>
    BY <1>3 DEF WriteConfirm
  <2> HIDE DEF f, rows
  <2>6. QED
    BY <2>1, <2>3, <2>4, <2>5, OneWritten, TablesUntouched DEF tables
<1>4. CASE WriteReopen(r)
  <2> DEFINE f == [session[s] EXCEPT !.confirmed = FALSE]
  <2>1. s \in SessionIds
    BY <1>4, HeldCalls DEF WriteReopen
  <2>2. session[s] # None => f \in SessionRow
    BY <2>1 DEF EditsInvariant, EditsTypeOK, SessionRow
  <2>3. /\ \/ UNCHANGED session
           \/ session[s] # None /\ session' = [session EXCEPT ![s] = Bumped(f)]
        /\ UNCHANGED <<attendance, receipt, applied>>
    BY <1>4 DEF WriteReopen
  <2> HIDE DEF f
  <2>4. QED
    BY <2>1, <2>2, <2>3, RowWritten, TablesUntouched DEF tables
<1>5. CASE WriteArchived(r)
  <2> DEFINE f == [session[s] EXCEPT !.archived = (c.endpoint = "archive")]
  <2>1. s \in SessionIds
    BY <1>5, HeldCalls DEF WriteArchived
  <2>2. session[s] # None => f \in SessionRow
    BY <2>1 DEF EditsInvariant, EditsTypeOK, SessionRow
  <2>3. /\ \/ UNCHANGED session
           \/ session[s] # None /\ session' = [session EXCEPT ![s] = Bumped(f)]
        /\ UNCHANGED <<attendance, receipt, applied>>
    BY <1>5 DEF WriteArchived
  <2> HIDE DEF f
  <2>4. QED
    BY <2>1, <2>2, <2>3, RowWritten, TablesUntouched DEF tables
<1>6. CASE WriteBatch(r)
  <2> DEFINE new == [session |-> s, version |-> session[s].version + 1]
             rows == Upserted(attendance[s], c.updates)
  <2>1. s \in SessionIds /\ c \in BatchCall
    BY <1>6, HeldCalls, EditCallsApart DEF WriteBatch
  <2>2. attendance[s] \in Rows /\ c.updates \in Updates /\ c.key \in Keys
    BY <2>1 DEF EditsInvariant, EditsTypeOK, BatchCall
  <2>3. rows \in Rows
    BY <2>2, UpsertedRows
  <2>4. CASE UNCHANGED <<tables, applied>>
    BY <2>4, TablesUntouched
  <2>5. CASE ~UNCHANGED <<tables, applied>>
    <3>1. /\ session[s] # None
          /\ session' = [session EXCEPT ![s] = Bumped(session[s])]
          /\ attendance' = [attendance EXCEPT ![s] = rows]
          /\ receipt' = [receipt EXCEPT ![c.key] = new]
          /\ applied' = [applied EXCEPT ![c.key] = @ + 1]
      BY <1>6, <2>5 DEF WriteBatch
    <3>2. session[s] \in SessionRow /\ Bumped(session[s]) \in SessionRow
          /\ session[s].version \in Nat
      BY <2>1, <3>1, BumpedRow DEF EditsInvariant, EditsTypeOK, SessionRow
    <3>3. new \in Receipt /\ new.session = s
      BY <2>1, <3>2 DEF Receipt
    <3> HIDE DEF rows, new
    <3>4. /\ session' \in [SessionIds -> SessionRow \cup {None}]
          /\ attendance' \in [SessionIds -> Rows]
          /\ receipt' \in [Keys -> Receipt \cup {None}]
          /\ applied' \in [Keys -> Nat]
      <4>1. /\ session \in [SessionIds -> SessionRow \cup {None}]
            /\ attendance \in [SessionIds -> Rows]
            /\ receipt \in [Keys -> Receipt \cup {None}]
            /\ applied \in [Keys -> Nat]
        BY DEF EditsInvariant, EditsTypeOK
      <4>2. /\ session' \in [SessionIds -> SessionRow \cup {None}]
            /\ attendance' \in [SessionIds -> Rows]
        BY <2>3, <3>1, <3>2, <4>1
      <4>3. receipt' \in [Keys -> Receipt \cup {None}]
        BY <3>1, <3>3, <4>1
      <4>4. applied' \in [Keys -> Nat]
        BY <2>2, <3>1, <4>1
      <4>5. QED
        BY <4>2, <4>3, <4>4
    <3>5. \A x \in SessionIds : session'[x] = None =>
             x # s /\ session[x] = None /\ attendance'[x] = attendance[x]
      BY <2>1, <3>1, <3>2, NoneAssumption DEF EditsInvariant, EditsTypeOK
    <3>6. \A k \in Keys : receipt'[k] # None => receipt'[k] = receipt[k] \/ receipt'[k].session = s
      BY <2>2, <3>1, <3>3 DEF EditsInvariant, EditsTypeOK
    <3>7. NoOrphans'
      BY <3>5, <3>6 DEF EditsInvariant, NoOrphans
    <3>8. QED
      BY <3>4, <3>7 DEF TablesSound, EditsInvariant, EditsTypeOK
  <2>6. QED
    BY <2>4, <2>5
<1>7. QED
  BY <1>1, <1>2, <1>3, <1>4, <1>5, <1>6 DEF WriteStep

LEMMA EditWritesSound ==
    ASSUME EditsInvariant, NEW r \in Requests,
           WriteRow(r) \/ WriteMembership(r) \/ WriteTracking(r) \/ WriteProgress(r)
             \/ WriteDelete(r)
    PROVE  TablesSound'
<1> DEFINE c == request[r].call
           s == c.session
           next == [session[s] EXCEPT !.version = NextOf(request[r].row)]
<1>1. c \in Call \cup EditCall /\ s \in SessionIds /\ request[r].row \in SessionRow
  BY HeldCalls DEF WriteRow, WriteMembership, WriteTracking, WriteProgress, WriteDelete
<1>2. session[s] # None => next \in SessionRow /\ session[s] \in SessionRow
  BY <1>1 DEF EditsInvariant, EditsTypeOK, SessionRow, NextOf
<1>3. attendance[s] \in Rows /\ seen[r].rows \in Rows /\ seen[r].entries \subseteq Students
  BY <1>1 DEF EditsInvariant, EditsTypeOK, Seen
<1>4. CASE WriteRow(r)
  <2> DEFINE old == seen[r].rows[c.student]
             now == attendance[s][c.student]
             new == IF old = None
                    THEN [status |-> c.status, revision |-> 1]
                    ELSE [status |-> IF c.status = old.status THEN now.status
                                                              ELSE c.status,
                          revision |-> old.revision + 1]
             rows == [attendance[s] EXCEPT ![c.student] = new]
  <2>1. c.student \in Students /\ c.status \in Statuses
    BY <1>1, <1>4, EditCallsApart DEF WriteRow, RowCall
  <2>2. CASE session[s] # None /\ (old = None <=> now = None)
    <3>1. old \in AttendanceRow \cup {None} /\ now \in AttendanceRow \cup {None}
      BY <1>3, <2>1 DEF Rows
    <3>2. new \in AttendanceRow
      BY <2>1, <2>2, <3>1 DEF AttendanceRow
    <3>3. /\ session' = [session EXCEPT ![s] = next]
          /\ attendance' = [attendance EXCEPT ![s] = rows]
          /\ UNCHANGED <<receipt, applied, progress>>
      BY <1>4, <2>2 DEF WriteRow
    <3> HIDE DEF new
    <3>4. rows \in Rows
      BY <1>3, <3>2 DEF Rows
    <3> HIDE DEF rows, next
    <3>5. QED
      BY <1>1, <1>2, <2>2, <3>3, <3>4, OneWritten
  <2>3. CASE ~(session[s] # None /\ (old = None <=> now = None))
    BY <1>4, <2>3, TablesUntouched DEF WriteRow, tables
  <2>4. QED
    BY <2>2, <2>3
<1>5. CASE WriteMembership(r)
  <2> DEFINE were == {st \in Students : seen[r].rows[st] # None}
             rest == [st \in Students |->
                         IF st \in were \ c.members THEN None ELSE attendance[s][st]]
             rows == WithAutoRows(rest, c.members \ were, request[r].row.date)
  <2>1. c.members \subseteq Students /\ request[r].row.date \in Dates
    BY <1>1, <1>5, EditCallsApart DEF WriteMembership, MembersCall, SessionRow
  <2>2. rest \in Rows /\ c.members \ were \in SUBSET Students
    BY <1>3, <2>1 DEF Rows
  <2>3. rows \in Rows
    <3> HIDE DEF rest, were
    <3>1. QED
      BY <2>1, <2>2, AutoRows
  <2>4. /\ \/ UNCHANGED <<session, attendance>>
           \/ /\ session[s] # None
              /\ session' = [session EXCEPT ![s] = next]
              /\ attendance' = [attendance EXCEPT ![s] = rows]
        /\ UNCHANGED <<receipt, applied, progress>>
    BY <1>5 DEF WriteMembership
  <2> HIDE DEF rows, next
  <2>5. QED
    BY <1>1, <1>2, <2>3, <2>4, OneWritten, TablesUntouched DEF tables
<1>6. CASE WriteTracking(r)
  <2> DEFINE f == [session[s] EXCEPT !.tracked = c.enabled,
                                     !.version = NextOf(request[r].row)]
  <2>1. c.enabled \in BOOLEAN
    BY <1>1, <1>6, EditCallsApart DEF WriteTracking, TrackingCall
  <2>2. session[s] # None => f \in SessionRow
    BY <1>1, <1>2, <2>1 DEF SessionRow, NextOf
  <2>3. /\ \/ UNCHANGED session
           \/ session[s] # None /\ session' = [session EXCEPT ![s] = f]
        /\ UNCHANGED <<attendance, receipt, applied, progress>>
    <3>1. [session EXCEPT ![s].tracked = c.enabled, ![s].version = NextOf(request[r].row)]
             = [session EXCEPT ![s] = f]
      BY <1>1 DEF EditsInvariant, EditsTypeOK
    <3>2. QED
      BY <1>6, <3>1 DEF WriteTracking
  <2>4. attendance' = [attendance EXCEPT ![s] = attendance[s]]
    BY <2>3 DEF EditsInvariant, EditsTypeOK
  <2> HIDE DEF f
  <2>5. CASE UNCHANGED session
    BY <2>3, <2>5, TablesUntouched DEF tables
  <2>6. CASE ~UNCHANGED session
    <3>1. f \in SessionRow /\ session' = [session EXCEPT ![s] = f]
          /\ UNCHANGED <<receipt, applied, progress>>
      BY <2>2, <2>3, <2>6
    <3>2. s \in SessionIds /\ attendance[s] \in Rows
      BY <1>1, <1>3
    <3>3. QED
      BY <2>4, <3>1, <3>2, OneWritten
  <2>7. QED
    BY <2>5, <2>6
<1>7. CASE WriteProgress(r)
  <2> DEFINE entries == (progress[s] \cup c.saved) \ (c.cleared \cap seen[r].entries)
  <2>1. entries \subseteq Students
    BY <1>1, <1>7, EditCallsApart
    DEF WriteProgress, ProgressCall, EditsInvariant, EditsTypeOK
  <2>2. /\ \/ UNCHANGED progress
           \/ session[s] # None /\ progress' = [progress EXCEPT ![s] = entries]
        /\ UNCHANGED <<tables, applied>>
    BY <1>7 DEF WriteProgress
  <2> HIDE DEF entries
  <2>3. progress' \in [SessionIds -> SUBSET Students]
    BY <2>1, <2>2 DEF EditsInvariant, EditsTypeOK
  <2>4. \A x \in SessionIds : session[x] = None => progress'[x] = progress[x]
    BY <2>2 DEF EditsInvariant, EditsTypeOK
  <2>5. QED
    BY <2>2, <2>3, <2>4 DEF TablesSound, EditsInvariant, EditsTypeOK, NoOrphans, tables
<1>8. CASE WriteDelete(r)
  <2>1. /\ session' = [session EXCEPT ![s] = None]
        /\ attendance' = [attendance EXCEPT ![s] = NoRows]
        /\ progress' = [progress EXCEPT ![s] = {}]
        /\ receipt' = [k \in Keys |-> IF k \in ReceiptsOf(s) THEN None ELSE receipt[k]]
        /\ applied' = [k \in Keys |-> IF k \in ReceiptsOf(s) THEN 0 ELSE applied[k]]
    BY <1>8 DEF WriteDelete
  <2>2. /\ session' \in [SessionIds -> SessionRow \cup {None}]
        /\ attendance' \in [SessionIds -> Rows]
        /\ progress' \in [SessionIds -> SUBSET Students]
    BY <2>1 DEF EditsInvariant, EditsTypeOK, NoRows, Rows
  <2>3. receipt' \in [Keys -> Receipt \cup {None}] /\ applied' \in [Keys -> Nat]
    BY <2>1 DEF EditsInvariant, EditsTypeOK
  <2>4. /\ \A st \in Students : attendance'[s][st] = None
        /\ progress'[s] = {}
        /\ \A k \in Keys : receipt'[k] # None => receipt'[k] = receipt[k] /\ receipt[k].session # s
    BY <1>1, <2>1 DEF EditsInvariant, EditsTypeOK, NoRows, ReceiptsOf
  <2>5. \A x \in SessionIds : x # s =>
           session'[x] = session[x] /\ attendance'[x] = attendance[x] /\ progress'[x] = progress[x]
    BY <2>1 DEF EditsInvariant, EditsTypeOK
  <2>6. NoOrphans'
    BY <2>4, <2>5 DEF EditsInvariant, NoOrphans
  <2>7. QED
    BY <2>2, <2>3, <2>6 DEF TablesSound
<1>9. QED
  BY <1>4, <1>5, <1>6, <1>7, <1>8

LEMMA EditsStep ==
    ASSUME EditsInvariant, [EditsNext]_editVars
    PROVE  EditsInvariant'
<1>0. seen \in [Requests -> Seen] /\ active \subseteq Students
  BY DEF EditsInvariant, EditsTypeOK
<1>1. ASSUME TablesSound', request' \in [Requests -> EditRequest], RequestsHold',
             seen' \in [Requests -> Seen], active' \subseteq Students
      PROVE  EditsInvariant'
  BY <1>1 DEF EditsInvariant, EditsTypeOK, TablesSound
<1>2. ASSUME NEW r \in Requests, ClientStep(r) \/ ReadStep(r), UNCHANGED <<progress, seen>>
      PROVE  EditsInvariant'
  <2>1. UNCHANGED <<tables, active, applied>>
    BY <1>2 DEF ClientStep, OpenSession, OpenRows, ReadStep, CallBatch, LoadBatch, LoadUpdate,
                LoadStatus, CheckDate, CallCreate, ReadSequence
  <2>2. QED
    BY <1>0, <1>1, <1>2, <2>1, ReadsHold, TablesUntouched
<1>3. ASSUME NEW r \in Requests, WriteStep(r), UNCHANGED <<progress, seen>>
      PROVE  EditsInvariant'
  <2>1. UNCHANGED active /\ Reply(r)
    BY <1>3 DEF WriteStep, WriteCreate, WriteUpdate, WriteConfirm, WriteReopen,
                WriteArchived, WriteBatch
  <2>2. QED
    BY <1>0, <1>1, <1>3, <2>1, EditReplies, WritesSound
<1>4. ASSUME NEW st \in Students, SetActive(st), UNCHANGED <<progress, seen>>
      PROVE  EditsInvariant'
  BY <1>0, <1>1, <1>4, TablesUntouched
  DEF SetActive, EditsInvariant, EditsTypeOK, RequestsHold
<1>5. ASSUME NEW r \in Requests, EditStep(r)
      PROVE  EditsInvariant'
  <2>1. CASE \/ \E c \in RowCall : CallPatch(r, c)
             \/ LoadPatch(r)
             \/ \E c \in EditCall : LoadEdit(r, c)
             \/ CheckEdit(r)
    <3>1. UNCHANGED <<tables, active, applied, progress>>
      BY <2>1 DEF CallPatch, LoadPatch, LoadEdit, CheckEdit
    <3>2. QED
      BY <1>0, <1>1, <2>1, <3>1, EditReadsHold, TablesUntouched
  <2>2. CASE WriteRow(r) \/ WriteMembership(r) \/ WriteTracking(r) \/ WriteProgress(r)
               \/ WriteDelete(r)
    <3>1. UNCHANGED active /\ Done(r)
      BY <2>2 DEF WriteRow, WriteMembership, WriteTracking, WriteProgress, WriteDelete
    <3>2. NothingSeen \in Seen
      BY DEF NothingSeen, Seen, NoRows, Rows
    <3>3. Reply(r) /\ seen' \in [Requests -> Seen]
      BY <1>0, <3>1, <3>2 DEF Done
    <3>4. QED
      BY <1>0, <1>1, <2>2, <3>1, <3>3, EditReplies, EditWritesSound
  <2>3. QED
    BY <1>5, <2>1, <2>2 DEF EditStep
<1>6. CASE UNCHANGED editVars
  <2>1. UNCHANGED <<tables, active, applied, progress, request, seen>>
    BY <1>6 DEF editVars, vars, tables
  <2>2. QED
    BY <1>0, <1>1, <2>1, TablesUntouched DEF EditsInvariant, EditsTypeOK, RequestsHold
<1>7. QED
  BY <1>2, <1>3, <1>4, <1>5, <1>6 DEF EditsNext, Next

LEMMA EditsStart == EditsInit => EditsInvariant
<1>1. Idle \in EditRequest /\ EditHolds(Idle) /\ NothingSeen \in Seen /\ NoRows \in Rows
  BY DEF Idle, EditRequest, Phases, EditHolds, NothingSeen, Seen, NoRows, Rows
<1>2. QED
  BY <1>1 DEF EditsInit, Init, EditsInvariant, EditsTypeOK, RequestsHold, NoOrphans, NoRows

LEMMA EditsAlways == EditsSpec => []EditsInvariant
<1>1. EditsInvariant /\ [EditsNext]_editVars => EditsInvariant'
  BY EditsStep
<1>2. QED
  BY <1>1, EditsStart, PTL DEF EditsSpec

\* The tables, what the handlers hold and what they have seen keep their types when the
\* endpoints that write without a condition run beside the others.
THEOREM EditsCorrectlyTyped == EditsSpec => []EditsTypeOK
BY EditsAlways, PTL DEF EditsInvariant

\* A deletion leaves no attendance, progress or receipt behind, and no save in flight brings
\* one back: each write looks again at whether its session is there.
THEOREM DeletionsLeaveNothing == EditsSpec => []NoOrphans
BY EditsAlways, PTL DEF EditsInvariant

-----------------------------------------------------------------------------
(* SessionEdits, one request after the other: progress and its session agree.   *)

\* What the handler of a request has read is what the tables hold, and its checks have
\* been made on that.
ChecksStand(r) ==
    LET q == request[r]
        c == q.call
        s == c.session
    IN /\ q.phase \in {"loaded", "checked"} /\ c.endpoint \in {"membership", "tracking", "progress"}
          => /\ session[s] # None /\ q.row = session[s]
             /\ c.endpoint = "progress" => session[s].tracked
       /\ q.phase = "checked" /\ c.endpoint = "membership"
          => /\ \A st \in Students : (seen[r].rows[st] # None) <=> (attendance[s][st] # None)
             /\ \A st \in progress[s] : attendance[s][st] # None => st \in c.members
       /\ q.phase = "checked" /\ c.endpoint = "tracking" => c.enabled \/ progress[s] = {}
       /\ q.phase = "checked" /\ c.endpoint = "progress"
          => (session[s].explicit => c.saved \subseteq Members(s))

ProgressInvariant ==
    /\ ProgressOfMembers /\ UntrackedHasNoProgress
    /\ \A r \in Requests : ChecksStand(r)

\* What the others hold is theirs.
OthersWait(r) ==
    \A q \in Requests \ {r} : request'[q] = request[q] /\ seen'[q] = seen[q]

LEMMA StepsLeaveOthers ==
    ASSUME EditsInvariant, NEW r \in Requests,
           \/ (ClientStep(r) \/ ReadStep(r) \/ WriteStep(r)) /\ UNCHANGED seen
           \/ EditStep(r)
    PROVE  OthersWait(r)
<1>0. request \in [Requests -> EditRequest] /\ seen \in [Requests -> Seen]
  BY DEF EditsInvariant, EditsTypeOK
<1>1. CASE ClientStep(r) /\ UNCHANGED seen
  BY <1>0, <1>1 DEF ClientStep, OpenSession, OpenRows, OthersWait
<1>2. CASE ReadStep(r) /\ UNCHANGED seen
  BY <1>0, <1>2 DEF ReadStep, CallBatch, LoadBatch, LoadUpdate, LoadStatus, Load, CheckDate,
     CallCreate, ReadSequence, Reply, OthersWait
<1>3. CASE WriteStep(r) /\ UNCHANGED seen
  BY <1>0, <1>3, WriteReplies DEF Reply, OthersWait
<1>4. ASSUME Done(r) PROVE OthersWait(r)
  BY <1>0, <1>4 DEF Done, Reply, OthersWait
<1>5. CASE (\E c \in RowCall : CallPatch(r, c)) \/ LoadPatch(r) \/ (\E c \in EditCall : LoadEdit(r, c))
              \/ CheckEdit(r)
  BY <1>0, <1>4, <1>5 DEF CallPatch, LoadPatch, LoadEdit, CheckEdit, Loaded, Checked, OthersWait
<1>6. CASE WriteRow(r) \/ WriteMembership(r) \/ WriteTracking(r) \/ WriteProgress(r)
              \/ WriteDelete(r)
  BY <1>4, <1>6 DEF WriteRow, WriteMembership, WriteTracking, WriteProgress, WriteDelete
<1>7. QED
  BY <1>1, <1>2, <1>3, <1>5, <1>6 DEF EditStep

\* A step that leaves the tables alone and leaves no check behind.
LEMMA NothingChecked ==
    ASSUME EditsInvariant, ProgressInvariant, NEW r \in Requests, OthersWait(r),
           UNCHANGED <<tables, progress>>,
           request'[r].phase \in {"loaded", "checked"}
              => request'[r].call.endpoint \notin {"membership", "tracking", "progress"}
    PROVE  ProgressInvariant'
<1>1. ProgressOfMembers' /\ UntrackedHasNoProgress'
  BY DEF ProgressInvariant, ProgressOfMembers, UntrackedHasNoProgress, Members, tables
<1>2. ChecksStand(r)'
  BY DEF ChecksStand
<1>3. ASSUME NEW q \in Requests \ {r} PROVE ChecksStand(q)'
  <2>1. ChecksStand(q) /\ request'[q] = request[q] /\ seen'[q] = seen[q]
    BY <1>3 DEF ProgressInvariant, OthersWait
  <2>2. QED
    BY <2>1 DEF ChecksStand, Members, tables
<1>4. QED
  BY <1>1, <1>2, <1>3 DEF ProgressInvariant

\* The one request at which the server works leaves no check behind with its reply.
LEMMA ReplyChecks ==
    ASSUME EditsInvariant, OneRequestAtATime, NEW r \in Requests, Working(r), OthersWait(r),
           Reply(r)
    PROVE  \A q \in Requests : ChecksStand(q)'
<1>1. request'[r].phase = "idle"
  BY DEF Reply, Idle, EditsInvariant, EditsTypeOK
<1>2. \A q \in Requests \ {r} : request'[q].phase \notin {"loaded", "checked"}
  BY DEF OneRequestAtATime, Working, OthersWait
<1>3. QED
  BY <1>1, <1>2 DEF ChecksStand

LEMMA ReadsCheckNothing ==
    ASSUME EditsInvariant, NEW r \in Requests, ClientStep(r) \/ ReadStep(r)
    PROVE  request'[r].phase \in {"loaded", "checked"}
              => request'[r].call.endpoint \notin
                    {"patch", "upsert", "membership", "tracking", "progress", "delete"}
<1>0. request[r] \in EditRequest /\ request \in [Requests -> EditRequest]
  BY HeldCalls DEF EditsInvariant, EditsTypeOK
<1>1. ASSUME Reply(r)
      PROVE  request'[r].phase = "idle"
  BY <1>0, <1>1 DEF Reply, Idle
<1>2. ASSUME ClientStep(r)
      PROVE  request'[r].phase \in {"opening", "open"}
  BY <1>0, <1>2 DEF ClientStep, OpenSession, OpenRows, EditRequest
<1>3. ASSUME NEW c, Load(r, c)
      PROVE  request'[r].phase = "idle" \/ request'[r].call = c
  BY <1>0, <1>1, <1>3 DEF Load, EditRequest
<1>4. ASSUME LoadBatch(r)
      PROVE  request'[r].phase = "idle" \/ request'[r].call.endpoint = "batch"
  <2>1. request[r].call.endpoint = "batch"
    BY <1>4, HeldCalls DEF LoadBatch, BatchCall
  <2>2. QED
    BY <1>0, <1>1, <1>4, <2>1 DEF LoadBatch, EditRequest
<1>5. ASSUME NEW s \in SessionIds, NEW k \in Keys, NEW u \in Updates, CallBatch(r, s, k, u)
      PROVE  request'[r].phase \in {"idle", "called"}
  BY <1>0, <1>1, <1>5 DEF CallBatch, EditRequest
<1>6. ASSUME CheckDate(r)
      PROVE  request'[r].phase \in {"idle", "dated"}
  BY <1>0, <1>1, <1>6 DEF CheckDate, EditRequest
<1>7. ASSUME NEW d \in Dates, NEW m \in SUBSET Students, CallCreate(r, d, m)
      PROVE  request'[r].phase \in {"idle", "dated"}
  BY <1>0, <1>1, <1>7 DEF CallCreate, EditRequest
<1>8. ASSUME ReadSequence(r)
      PROVE  request'[r].phase = "numbered"
  BY <1>0, <1>8 DEF ReadSequence, EditRequest
<1>9. ASSUME NEW s \in SessionIds, NEW d \in Dates, LoadUpdate(r, s, d)
      PROVE  request'[r].phase = "idle" \/ request'[r].call.endpoint = "update"
  BY <1>3, <1>9 DEF LoadUpdate
<1>10. ASSUME NEW s \in SessionIds, NEW e \in {"confirm", "reopen", "archive", "recover"},
              LoadStatus(r, s, e)
       PROVE  request'[r].phase = "idle" \/ request'[r].call.endpoint = e
  BY <1>3, <1>10 DEF LoadStatus
<1>11. CASE ClientStep(r)
  BY <1>2, <1>11
<1>12. CASE ReadStep(r)
  BY <1>4, <1>5, <1>6, <1>7, <1>8, <1>9, <1>10, <1>12 DEF ReadStep
<1>13. QED
  BY <1>11, <1>12

\* A session that a step leaves is as it was in what progress depends on, with its members
\* and perhaps more; one that it makes has no progress yet.
Grown ==
    \A s \in SessionIds : session'[s] # None /\ session[s] # None =>
        /\ session'[s].explicit = session[s].explicit
        /\ session'[s].tracked = session[s].tracked
        /\ \A st \in Students : attendance[s][st] # None => attendance'[s][st] # None

LEMMA GrownKeeps ==
    ASSUME EditsInvariant, ProgressInvariant, NEW r \in Requests, OneRequestAtATime, Working(r),
           OthersWait(r), Reply(r), Grown, UNCHANGED progress
    PROVE  ProgressInvariant'
<1>2. \A q \in Requests : ChecksStand(q)'
  BY ReplyChecks
<1>3. \A s \in SessionIds : session[s] = None => progress[s] = {}
  BY DEF EditsInvariant, NoOrphans
<1>4. ProgressOfMembers' /\ UntrackedHasNoProgress'
  BY <1>3 DEF Grown, ProgressInvariant, ProgressOfMembers, UntrackedHasNoProgress, Members
<1>5. QED
  BY <1>2, <1>4 DEF ProgressInvariant

\* Grown, when one row is replaced.
LEMMA OneGrown ==
    ASSUME EditsInvariant, NEW s \in SessionIds, NEW row, NEW rows \in Rows,
           session[s] # None =>
              /\ row.explicit = session[s].explicit /\ row.tracked = session[s].tracked
              /\ \A st \in Students : attendance[s][st] # None => rows[st] # None,
           session' = [session EXCEPT ![s] = row],
           attendance' = [attendance EXCEPT ![s] = rows]
    PROVE  Grown
BY DEF Grown, EditsInvariant, EditsTypeOK

LEMMA NotGrown ==
    ASSUME UNCHANGED <<session, attendance>>
    PROVE  Grown
BY DEF Grown

LEMMA WritesGrow ==
    ASSUME EditsInvariant, NEW r \in Requests, WriteStep(r)
    PROVE  Grown
<1> DEFINE c == request[r].call
           s == c.session
<1>1. \A x \in SessionIds : session[x] # None => session[x] \in SessionRow
  BY DEF EditsInvariant, EditsTypeOK
<1>2. \A x \in SessionIds :
         attendance[x] \in Rows /\ attendance' = attendance
            => attendance' = [attendance EXCEPT ![x] = attendance[x]]
  BY DEF EditsInvariant, EditsTypeOK
<1>3. \A x \in SessionIds : attendance[x] \in Rows
  BY DEF EditsInvariant, EditsTypeOK
<1>4. CASE WriteCreate(r)
  <2> DEFINE row == [date |-> c.date, sequence |-> request[r].sequence,
                     confirmed |-> FALSE, archived |-> FALSE,
                     explicit |-> MultipleSessions, tracked |-> TRUE,
                     version |-> 0]
             rows == WithAutoRows(NoRows, Roster(c), c.date)
  <2>1. c.date \in Dates
    BY <1>4, HeldCalls DEF WriteCreate
  <2>2. NoRows \in Rows /\ Roster(c) \subseteq Students
    BY DEF NoRows, Rows, Roster, EditsInvariant, EditsTypeOK
  <2>3. rows \in Rows
    BY <2>1, <2>2, AutoRows
  <2>4. \/ UNCHANGED <<session, attendance>>
        \/ \E x \in SessionIds \cap NextAfter({t \in SessionIds : session[t] # None}) :
              /\ session' = [session EXCEPT ![x] = row]
              /\ attendance' = [attendance EXCEPT ![x] = rows]
    BY <1>4 DEF WriteCreate
  <2> HIDE DEF row, rows
  <2>5. QED
    BY <2>3, <2>4, FreshId, OneGrown, NotGrown
<1>5. CASE WriteUpdate(r)
  <2> DEFINE n == IF request[r].phase = "numbered" THEN request[r].sequence
                                                 ELSE request[r].row.sequence
             f == [session[s] EXCEPT !.date = c.date, !.sequence = n]
             row == Bumped(f)
  <2>1. s \in SessionIds
    BY <1>5, HeldCalls, EditCallsApart DEF WriteUpdate, Call
  <2>2. /\ \/ UNCHANGED session
           \/ session[s] # None /\ session' = [session EXCEPT ![s] = row]
        /\ UNCHANGED attendance
    BY <1>5 DEF WriteUpdate
  <2>3. session[s] # None =>
           row.explicit = session[s].explicit /\ row.tracked = session[s].tracked
    BY <1>1, <2>1 DEF Bumped, SessionRow
  <2> HIDE DEF row
  <2>4. QED
    BY <1>2, <1>3, <2>1, <2>2, <2>3, OneGrown, NotGrown
<1>6. CASE WriteConfirm(r)
  <2> DEFINE row == Bumped([session[s] EXCEPT !.confirmed = TRUE])
             was == attendance[s]
             added == Missing(session[s])
             day == request[r].row.date
             rows == WithAutoRows(was, added, day)
  <2>1. s \in SessionIds /\ day \in Dates
    BY <1>6, HeldCalls DEF WriteConfirm, SessionRow
  <2>2. was \in Rows /\ added \in SUBSET Students
    BY <2>1 DEF EditsInvariant, EditsTypeOK, Missing
  <2>3. /\ \/ UNCHANGED <<session, attendance>>
           \/ /\ session' = [session EXCEPT ![s] = row]
              /\ attendance' = [attendance EXCEPT ![s] = rows]
    BY <1>6 DEF WriteConfirm
  <2>4. session[s] # None =>
           row.explicit = session[s].explicit /\ row.tracked = session[s].tracked
    BY <1>1, <2>1 DEF Bumped, SessionRow
  <2>5. rows \in Rows /\ \A st \in Students : was[st] # None => rows[st] # None
    <3> HIDE DEF was, added, day
    <3>1. QED
      BY <2>1, <2>2, AutoRows
  <2> HIDE DEF row, rows
  <2>6. QED
    BY <2>1, <2>3, <2>4, <2>5, OneGrown, NotGrown
<1>7. CASE WriteReopen(r)
  <2> DEFINE row == Bumped([session[s] EXCEPT !.confirmed = FALSE])
  <2>1. s \in SessionIds
    BY <1>7, HeldCalls DEF WriteReopen
  <2>2. /\ session' = session \/ session' = [session EXCEPT ![s] = row]
        /\ UNCHANGED attendance
    BY <1>7 DEF WriteReopen
  <2>3. session[s] # None =>
           row.explicit = session[s].explicit /\ row.tracked = session[s].tracked
    BY <1>1, <2>1 DEF Bumped, SessionRow
  <2> HIDE DEF row
  <2>4. QED
    BY <1>2, <1>3, <2>1, <2>2, <2>3, OneGrown, NotGrown
<1>8. CASE WriteArchived(r)
  <2> DEFINE row == Bumped([session[s] EXCEPT !.archived = (c.endpoint = "archive")])
  <2>1. s \in SessionIds
    BY <1>8, HeldCalls DEF WriteArchived
  <2>2. /\ session' = session \/ session' = [session EXCEPT ![s] = row]
        /\ UNCHANGED attendance
    BY <1>8 DEF WriteArchived
  <2>3. session[s] # None =>
           row.explicit = session[s].explicit /\ row.tracked = session[s].tracked
    BY <1>1, <2>1 DEF Bumped, SessionRow
  <2> HIDE DEF row
  <2>4. QED
    BY <1>2, <1>3, <2>1, <2>2, <2>3, OneGrown, NotGrown
<1>9. CASE WriteBatch(r)
  <2> DEFINE row == Bumped(session[s])
             rows == Upserted(attendance[s], c.updates)
  <2>1. s \in SessionIds /\ c.updates \in Updates
    BY <1>9, HeldCalls, EditCallsApart DEF WriteBatch, BatchCall
  <2>2. \/ UNCHANGED <<session, attendance>>
        \/ /\ session' = [session EXCEPT ![s] = row]
           /\ attendance' = [attendance EXCEPT ![s] = rows]
    BY <1>9 DEF WriteBatch, tables
  <2>3. session[s] # None =>
           row.explicit = session[s].explicit /\ row.tracked = session[s].tracked
    BY <1>1, <2>1 DEF Bumped, SessionRow
  <2>4. rows \in Rows
    BY <1>3, <2>1, UpsertedRows
  <2>5. ASSUME NEW st \in Students, attendance[s][st] # None
        PROVE  rows[st] # None
    <3>1. CASE st \in DOMAIN c.updates
      <4>1. c.updates[st] \in Statuses
        BY <2>1, <3>1 DEF Updates
      <4>2. attendance[s][st].revision \in Nat
        BY <1>3, <2>1, <2>5 DEF Rows, AttendanceRow
      <4>3. rows[st] \in AttendanceRow
        BY <2>5, <3>1, <4>1, <4>2 DEF Upserted, AttendanceRow
      <4>4. QED
        BY <4>3, NoneAssumption
    <3>2. CASE st \notin DOMAIN c.updates
      BY <2>5, <3>2 DEF Upserted
    <3>3. QED
      BY <3>1, <3>2
  <2> HIDE DEF row, rows
  <2>6. QED
    BY <2>1, <2>2, <2>3, <2>4, <2>5, OneGrown, NotGrown
<1>10. QED
  BY <1>4, <1>5, <1>6, <1>7, <1>8, <1>9 DEF WriteStep

\* What the edits have read stands.
LEMMA EditReadsStand ==
    ASSUME EditsInvariant, ProgressInvariant, NEW r \in Requests, OthersWait(r),
           \/ \E c \in RowCall : CallPatch(r, c)
           \/ LoadPatch(r)
           \/ \E c \in EditCall : LoadEdit(r, c)
           \/ CheckEdit(r)
    PROVE  ProgressInvariant'
<1>0. request[r] \in EditRequest /\ request \in [Requests -> EditRequest]
      /\ seen \in [Requests -> Seen]
  BY HeldCalls DEF EditsInvariant, EditsTypeOK
<1>1. UNCHANGED <<tables, progress>>
  BY DEF CallPatch, LoadPatch, LoadEdit, CheckEdit
<1>2. ProgressOfMembers' /\ UntrackedHasNoProgress'
  BY <1>1 DEF ProgressInvariant, ProgressOfMembers, UntrackedHasNoProgress, Members, tables
<1>3. ASSUME Done(r)
      PROVE  ProgressInvariant'
  <2>1. request'[r].phase = "idle"
    BY <1>0, <1>3 DEF Done, Reply, Idle
  <2>2. QED
    BY <1>1, <2>1, NothingChecked
<1>31. ASSUME ChecksStand(r)' PROVE ProgressInvariant'
  <2>1. ASSUME NEW q \in Requests \ {r} PROVE ChecksStand(q)'
    <3>1. ChecksStand(q) /\ request'[q] = request[q] /\ seen'[q] = seen[q]
      BY <2>1 DEF ProgressInvariant, OthersWait
    <3>2. QED
      BY <1>1, <3>1 DEF ChecksStand, Members, tables
  <2>2. QED
    BY <1>2, <1>31, <2>1 DEF ProgressInvariant
<1>4. ASSUME NEW c \in RowCall, CallPatch(r, c), ~Done(r)
      PROVE  ProgressInvariant'
  <2>1. request'[r].phase = "fetched"
    BY <1>0, <1>4 DEF CallPatch, EditRequest
  <2>2. QED
    BY <1>1, <2>1, NothingChecked
<1>5. ASSUME LoadPatch(r), ~Done(r)
      PROVE  ProgressInvariant'
  <2>1. request'[r].call = request[r].call
    BY <1>0, <1>5 DEF LoadPatch, Loaded, EditRequest
  <2>2. QED
    BY <1>1, <1>5, <2>1, NothingChecked DEF LoadPatch
<1>6. ASSUME NEW c \in EditCall, LoadEdit(r, c), ~Done(r)
      PROVE  ProgressInvariant'
  <2>1. Loaded(r, c) /\ EditAccepts(c, request[r].view, session[c.session])
    BY <1>6 DEF LoadEdit
  <2>2. /\ request'[r].phase = "loaded" /\ request'[r].call = c
        /\ request'[r].row = session[c.session]
    BY <1>0, <2>1 DEF Loaded, EditRequest
  <2>3. /\ session[c.session] # None
        /\ c.endpoint = "progress" => session[c.session].tracked
    BY <2>1 DEF EditAccepts, Tracked
  <2>4. ChecksStand(r)'
    BY <1>1, <2>2, <2>3 DEF ChecksStand, tables
  <2>5. QED
    BY <1>31, <2>4
<1>7. ASSUME CheckEdit(r), ~Done(r)
      PROVE  ProgressInvariant'
  <2> DEFINE c == request[r].call
             s == c.session
             read == [rows |-> attendance[s], entries |-> progress[s]]
  <2>1. /\ request'[r].phase = "checked" /\ request'[r].call = c
        /\ request'[r].row = request[r].row
    BY <1>0, <1>7 DEF CheckEdit, Checked, EditRequest
  <2>2. seen'[r] = read
    BY <1>0, <1>7 DEF CheckEdit
  <2>3. /\ c.endpoint \in {"membership", "tracking", "progress"} =>
              session[s] # None /\ request[r].row = session[s]
        /\ c.endpoint = "progress" => session[s].tracked
    BY <1>7 DEF CheckEdit, ProgressInvariant, ChecksStand
  <2>4. /\ c.endpoint = "membership" => (Members(s) \ c.members) \cap progress[s] = {}
        /\ c.endpoint = "tracking" => c.enabled \/ progress[s] = {}
        /\ c.endpoint = "progress" => OnRoster(request[r].row, s, c.saved \cup c.cleared)
    BY <1>7 DEF CheckEdit
  <2>5. c.endpoint = "membership" =>
           \A st \in progress[s] : attendance[s][st] # None => st \in c.members
    <3>1. progress[s] \subseteq Students
      BY <1>7, HeldCalls DEF CheckEdit, EditsInvariant, EditsTypeOK
    <3>2. QED
      BY <2>4, <3>1 DEF Members
  <2>6. c.endpoint = "progress" => (session[s].explicit => c.saved \subseteq Members(s))
    BY <2>3, <2>4 DEF OnRoster
  <2>7. seen'[r].rows = attendance[s]
    BY <2>2
  <2> HIDE DEF c, s
  <2>8. ChecksStand(r)'
    BY <1>1, <2>1, <2>3, <2>4, <2>5, <2>6, <2>7 DEF ChecksStand, tables, Members, c, s
  <2>9. QED
    BY <1>31, <2>8
<1>8. QED
  BY <1>3, <1>4, <1>5, <1>6, <1>7

LEMMA EditWritesStand ==
    ASSUME EditsInvariant, ProgressInvariant, OneRequestAtATime, NEW r \in Requests, OthersWait(r),
           WriteRow(r) \/ WriteMembership(r) \/ WriteTracking(r) \/ WriteProgress(r)
             \/ WriteDelete(r)
    PROVE  ProgressInvariant'
<1> DEFINE c == request[r].call
           s == c.session
<1>0. Working(r) /\ Reply(r) /\ \A q \in Requests : ChecksStand(q)'
  <2>1. Working(r) /\ Reply(r)
    BY DEF WriteRow, WriteMembership, WriteTracking, WriteProgress, WriteDelete, Done, Working
  <2>2. QED
    BY <2>1, ReplyChecks
<1>1. c \in Call \cup EditCall /\ s \in SessionIds
  BY HeldCalls DEF WriteRow, WriteMembership, WriteTracking, WriteProgress, WriteDelete
<1>2. /\ session \in [SessionIds -> SessionRow \cup {None}]
      /\ attendance \in [SessionIds -> Rows]
      /\ progress \in [SessionIds -> SUBSET Students]
      /\ seen[r].rows \in Rows
  BY DEF EditsInvariant, EditsTypeOK, Seen
<1>3. ChecksStand(r) /\ ProgressOfMembers /\ UntrackedHasNoProgress
  BY DEF ProgressInvariant
<1>4. CASE UNCHANGED <<tables, progress>>
  <2>1. request'[r].phase = "idle"
    BY <1>0 DEF Reply, Idle, EditsInvariant, EditsTypeOK
  <2>2. QED
    BY <1>4, <2>1, NothingChecked
<1>5. CASE WriteRow(r) /\ ~UNCHANGED <<tables, progress>>
  <2> DEFINE old == seen[r].rows[c.student]
             now == attendance[s][c.student]
             new == IF old = None
                    THEN [status |-> c.status, revision |-> 1]
                    ELSE [status |-> IF c.status = old.status THEN now.status
                                                              ELSE c.status,
                          revision |-> old.revision + 1]
             next == [session[s] EXCEPT !.version = NextOf(request[r].row)]
             rows == [attendance[s] EXCEPT ![c.student] = new]
  <2>1. c.student \in Students /\ c.status \in Statuses
    BY <1>1, <1>5, EditCallsApart DEF WriteRow, RowCall
  <2>2. /\ session[s] # None /\ (old = None <=> now = None)
        /\ session' = [session EXCEPT ![s] = next]
        /\ attendance' = [attendance EXCEPT ![s] = rows]
        /\ UNCHANGED progress
    BY <1>5 DEF WriteRow, tables
  <2>3. new \in AttendanceRow
    <3>1. old \in AttendanceRow \cup {None} /\ now \in AttendanceRow \cup {None}
      BY <1>1, <1>2, <2>1 DEF Rows
    <3>2. (old = None <=> now = None) /\ c.status \in Statuses
      BY <2>1, <2>2
    <3> HIDE DEF old, now, c
    <3>3. CASE old = None
      BY <3>2, <3>3 DEF AttendanceRow
    <3>4. CASE old # None
      BY <3>1, <3>2, <3>4 DEF AttendanceRow
    <3>5. QED
      BY <3>3, <3>4
  <2>4. next.explicit = session[s].explicit /\ next.tracked = session[s].tracked
    BY <1>1, <1>2, <2>2 DEF SessionRow
  <2> HIDE DEF new, next
  <2>5. rows \in Rows /\ \A st \in Students : attendance[s][st] # None => rows[st] # None
    BY <1>1, <1>2, <2>1, <2>3, NoneAssumption DEF Rows
  <2> HIDE DEF rows
  <2>6. Grown
    BY <1>1, <2>2, <2>4, <2>5, OneGrown
  <2>7. QED
    BY <1>0, <2>2, <2>6, GrownKeeps
<1>6. CASE WriteMembership(r) /\ ~UNCHANGED <<tables, progress>>
  <2> DEFINE were == {st \in Students : seen[r].rows[st] # None}
             rest == [st \in Students |->
                         IF st \in were \ c.members THEN None ELSE attendance[s][st]]
             next == [session[s] EXCEPT !.version = NextOf(request[r].row)]
             rows == WithAutoRows(rest, c.members \ were, request[r].row.date)
  <2>1. /\ session[s] # None
        /\ session' = [session EXCEPT ![s] = next]
        /\ attendance' = [attendance EXCEPT ![s] = rows]
        /\ UNCHANGED progress
    BY <1>6 DEF WriteMembership, tables
  <2>2. next.explicit = session[s].explicit /\ next.tracked = session[s].tracked
    BY <1>1, <1>2, <2>1 DEF SessionRow
  <2>3. \A st \in progress[s] : attendance[s][st] # None => st \in c.members
    BY <1>3, <1>6 DEF WriteMembership, ChecksStand
  <2>4. ASSUME NEW st \in progress[s], attendance[s][st] # None
        PROVE  rows[st] # None
    <3>1. st \in Students /\ st \in c.members
      BY <1>1, <1>2, <2>3, <2>4
    <3>2. rest[st] = attendance[s][st]
      BY <3>1
    <3> HIDE DEF rest, were
    <3>3. rows[st] = rest[st]
      BY <2>4, <3>1, <3>2 DEF WithAutoRows
    <3>4. QED
      BY <2>4, <3>2, <3>3
  <2> HIDE DEF rows, next
  <2>5. \A x \in SessionIds : x # s =>
           session'[x] = session[x] /\ attendance'[x] = attendance[x]
    BY <1>2, <2>1
  <2>6. session'[s] = next /\ attendance'[s] = rows
    BY <1>1, <1>2, <2>1
  <2>7. ProgressOfMembers' /\ UntrackedHasNoProgress'
    BY <1>1, <1>3, <2>1, <2>2, <2>4, <2>5, <2>6
    DEF ProgressOfMembers, UntrackedHasNoProgress, Members
  <2>8. QED
    BY <1>0, <2>7 DEF ProgressInvariant
<1>7. CASE WriteTracking(r) /\ ~UNCHANGED <<tables, progress>>
  <2> DEFINE next == [session[s] EXCEPT !.tracked = c.enabled,
                                        !.version = NextOf(request[r].row)]
  <2>1. /\ session[s] # None
        /\ session' = [session EXCEPT ![s].tracked = c.enabled,
                                      ![s].version = NextOf(request[r].row)]
        /\ UNCHANGED <<attendance, progress>>
    BY <1>7 DEF WriteTracking, tables
  <2>2. session'[s] = next /\ \A x \in SessionIds : x # s => session'[x] = session[x]
    BY <1>1, <1>2, <2>1
  <2>3. next.explicit = session[s].explicit /\ next.tracked = c.enabled
    BY <1>1, <1>2, <2>1 DEF SessionRow
  <2>4. c.enabled \/ progress[s] = {}
    BY <1>3, <1>7 DEF WriteTracking, ChecksStand
  <2> HIDE DEF next
  <2>5. ProgressOfMembers' /\ UntrackedHasNoProgress'
    BY <1>1, <1>3, <2>1, <2>2, <2>3, <2>4
    DEF ProgressOfMembers, UntrackedHasNoProgress, Members
  <2>6. QED
    BY <1>0, <2>5 DEF ProgressInvariant
<1>8. CASE WriteProgress(r) /\ ~UNCHANGED <<tables, progress>>
  <2> DEFINE entries == (progress[s] \cup c.saved) \ (c.cleared \cap seen[r].entries)
  <2>1. /\ session[s] # None
        /\ progress' = [progress EXCEPT ![s] = entries]
        /\ UNCHANGED <<session, attendance>>
    BY <1>8 DEF WriteProgress, tables
  <2>2. session[s].tracked /\ (session[s].explicit => c.saved \subseteq Members(s))
    BY <1>3, <1>8 DEF WriteProgress, ChecksStand
  <2>3. session[s].explicit => entries \subseteq Members(s)
    BY <1>1, <1>3, <2>1, <2>2 DEF ProgressOfMembers
  <2> HIDE DEF entries
  <2>4. progress'[s] = entries /\ \A x \in SessionIds : x # s => progress'[x] = progress[x]
    BY <1>1, <1>2, <2>1
  <2>5. ProgressOfMembers' /\ UntrackedHasNoProgress'
    BY <1>1, <1>3, <2>1, <2>2, <2>3, <2>4
    DEF ProgressOfMembers, UntrackedHasNoProgress, Members
  <2>6. QED
    BY <1>0, <2>5 DEF ProgressInvariant
<1>9. CASE WriteDelete(r)
  <2>1. /\ session'[s] = None
        /\ \A x \in SessionIds : x # s =>
              /\ session'[x] = session[x] /\ attendance'[x] = attendance[x]
              /\ progress'[x] = progress[x]
    BY <1>1, <1>2, <1>9 DEF WriteDelete
  <2>2. ProgressOfMembers' /\ UntrackedHasNoProgress'
    BY <1>3, <2>1 DEF ProgressOfMembers, UntrackedHasNoProgress, Members
  <2>3. QED
    BY <1>0, <2>2 DEF ProgressInvariant
<1>10. QED
  BY <1>4, <1>5, <1>6, <1>7, <1>8, <1>9

\* Of requests that do not overlap, membership refuses to drop a student with progress,
\* progress refuses a student who is no member and an untracked session, and tracking is not
\* turned off in a session with progress, whatever the clients have open meanwhile.
\* (Requests that overlap break both.)
THEOREM ProgressFitsItsSession == EditsSpec /\ []OneRequestAtATime => []ProgressFits
<1>1. EditsInit => ProgressInvariant
  BY DEF EditsInit, Init, Idle, ProgressInvariant, ProgressOfMembers, UntrackedHasNoProgress,
         ChecksStand
<1>2. EditsInvariant /\ ProgressInvariant /\ OneRequestAtATime /\ [EditsNext]_editVars
        => ProgressInvariant'
  <2> SUFFICES ASSUME EditsInvariant, ProgressInvariant, OneRequestAtATime, [EditsNext]_editVars
               PROVE  ProgressInvariant'
    OBVIOUS
  <2>1. ASSUME NEW r \in Requests, ClientStep(r) \/ ReadStep(r), UNCHANGED <<progress, seen>>
        PROVE  ProgressInvariant'
    <3>1. UNCHANGED tables
      BY <2>1 DEF ClientStep, OpenSession, OpenRows, ReadStep, CallBatch, LoadBatch,
                  LoadUpdate, LoadStatus, CheckDate, CallCreate, ReadSequence
    <3>2. OthersWait(r)
      BY <2>1, StepsLeaveOthers
    <3>3. QED
      BY <2>1, <3>1, <3>2, ReadsCheckNothing, NothingChecked
  <2>2. ASSUME NEW r \in Requests, WriteStep(r), UNCHANGED <<progress, seen>>
        PROVE  ProgressInvariant'
    <3>1. Working(r)
      BY <2>2 DEF WriteStep, WriteCreate, WriteUpdate, WriteConfirm, WriteReopen, WriteArchived,
         WriteBatch, Working
    <3>2. OthersWait(r)
      BY <2>2, StepsLeaveOthers
    <3>3. QED
      BY <2>2, <3>1, <3>2, WriteReplies, WritesGrow, GrownKeeps
  <2>3. ASSUME NEW st \in Students, SetActive(st), UNCHANGED <<progress, seen>>
        PROVE  ProgressInvariant'
    BY <2>3 DEF SetActive, tables, ProgressInvariant, ProgressOfMembers,
                UntrackedHasNoProgress, ChecksStand, Members
  <2>4. ASSUME NEW r \in Requests, EditStep(r)
        PROVE  ProgressInvariant'
    <3>1. OthersWait(r)
      BY <2>4, StepsLeaveOthers
    <3>2. QED
      BY <2>4, <3>1, EditReadsStand, EditWritesStand DEF EditStep
  <2>5. CASE UNCHANGED editVars
    BY <2>5 DEF editVars, vars, ProgressInvariant, ProgressOfMembers,
                UntrackedHasNoProgress, ChecksStand, Members
  <2>6. QED
    BY <2>1, <2>2, <2>3, <2>4, <2>5 DEF EditsNext, Next
<1>3. ProgressInvariant => ProgressFits
  BY DEF ProgressInvariant, ProgressFits
<1>4. QED
  BY <1>1, <1>2, <1>3, EditsAlways, PTL DEF EditsSpec

-----------------------------------------------------------------------------
(* The lock and the versions of a session, under edits one at a time.         *)

\* Every change of a session, or of its attendance, is exactly one more version of it, so
\* that no two contents of it share a version.
EditedInOrder ==
    [][\A s \in SessionIds :
          /\ session[s] # None /\ session'[s] # None
          /\ session'[s] # session[s] \/ attendance'[s] # attendance[s]
          => session'[s].version = session[s].version + 1]_editVars

EditEndpoints == {"patch", "upsert", "membership", "tracking", "progress", "delete"}

\* What an edit has read of its session, and found open, is how the session is.
StillOpen(r) ==
    LET q == request[r]
        s == q.call.session
    IN q.phase \in {"loaded", "checked"} /\ q.call.endpoint \in EditEndpoints
       => session[s] # None /\ Open(session[s]) /\ q.row = session[s]

\* The step leaves the session s alone if it is locked, and counts what it does to it.
Counted(s) ==
    session[s] # None =>
        /\ /\ session'[s] # None
           /\ session'[s] # session[s] \/ attendance'[s] # attendance[s]
           => session'[s].version = session[s].version + 1
        /\ ~Open(session[s]) =>
           /\ attendance'[s] = attendance[s]
           /\ session'[s] # None => session'[s].date = session[s].date

\* Counted, when one row is replaced.
LEMMA OneCounted ==
    ASSUME EditsInvariant, NEW s \in SessionIds, NEW row, NEW rows \in Rows,
           session[s] # None =>
              /\ row.version = session[s].version + 1
              /\ ~Open(session[s]) => rows = attendance[s] /\ row.date = session[s].date,
           session' = [session EXCEPT ![s] = row],
           attendance' = [attendance EXCEPT ![s] = rows]
    PROVE  \A x \in SessionIds : Counted(x)
BY DEF Counted, EditsInvariant, EditsTypeOK

LEMMA NoneCounted ==
    ASSUME UNCHANGED <<session, attendance>>
    PROVE  \A x \in SessionIds : Counted(x)
BY DEF Counted

LEMMA WritesCounted ==
    ASSUME EditsInvariant, NEW r \in Requests, WriteStep(r)
    PROVE  \A x \in SessionIds : Counted(x)
<1> DEFINE c == request[r].call
           s == c.session
<1>1. \A x \in SessionIds : session[x] # None => session[x] \in SessionRow
  BY DEF EditsInvariant, EditsTypeOK
<1>2. \A x \in SessionIds :
         attendance' = attendance => attendance' = [attendance EXCEPT ![x] = attendance[x]]
  BY DEF EditsInvariant, EditsTypeOK
<1>3. \A x \in SessionIds : attendance[x] \in Rows
  BY DEF EditsInvariant, EditsTypeOK
<1>4. CASE WriteCreate(r)
  <2> DEFINE row == [date |-> c.date, sequence |-> request[r].sequence,
                     confirmed |-> FALSE, archived |-> FALSE,
                     explicit |-> MultipleSessions, tracked |-> TRUE,
                     version |-> 0]
             rows == WithAutoRows(NoRows, Roster(c), c.date)
  <2>1. c.date \in Dates
    BY <1>4, HeldCalls DEF WriteCreate
  <2>2. NoRows \in Rows /\ Roster(c) \subseteq Students
    BY DEF NoRows, Rows, Roster, EditsInvariant, EditsTypeOK
  <2>3. rows \in Rows
    BY <2>1, <2>2, AutoRows
  <2>4. \/ UNCHANGED <<session, attendance>>
        \/ \E x \in SessionIds \cap NextAfter({t \in SessionIds : session[t] # None}) :
              /\ session' = [session EXCEPT ![x] = row]
              /\ attendance' = [attendance EXCEPT ![x] = rows]
    BY <1>4 DEF WriteCreate
  <2> HIDE DEF row, rows
  <2>5. QED
    BY <2>3, <2>4, FreshId, OneCounted, NoneCounted
<1>5. CASE WriteUpdate(r)
  <2> DEFINE n == IF request[r].phase = "numbered" THEN request[r].sequence
                                                 ELSE request[r].row.sequence
             f == [session[s] EXCEPT !.date = c.date, !.sequence = n]
             row == Bumped(f)
  <2>1. s \in SessionIds
    BY <1>5, HeldCalls, EditCallsApart DEF WriteUpdate, Call
  <2>2. /\ \/ UNCHANGED session
           \/ /\ session[s] # None /\ Open(session[s])
              /\ session' = [session EXCEPT ![s] = row]
        /\ UNCHANGED attendance
    BY <1>5 DEF WriteUpdate
  <2>3. session[s] # None => row.version = session[s].version + 1
    BY <1>1, <2>1 DEF Bumped, SessionRow
  <2> HIDE DEF row
  <2>4. QED
    BY <1>2, <1>3, <2>1, <2>2, <2>3, OneCounted, NoneCounted
<1>6. CASE WriteConfirm(r)
  <2> DEFINE row == Bumped([session[s] EXCEPT !.confirmed = TRUE])
             was == attendance[s]
             added == Missing(session[s])
             day == request[r].row.date
             rows == WithAutoRows(was, added, day)
  <2>1. s \in SessionIds /\ day \in Dates
    BY <1>6, HeldCalls DEF WriteConfirm, SessionRow
  <2>2. was \in Rows /\ added \in SUBSET Students
    BY <2>1 DEF EditsInvariant, EditsTypeOK, Missing
  <2>3. /\ \/ UNCHANGED <<session, attendance>>
           \/ /\ Open(session[s])
              /\ session' = [session EXCEPT ![s] = row]
              /\ attendance' = [attendance EXCEPT ![s] = rows]
    BY <1>6 DEF WriteConfirm
  <2>4. session[s] # None => row.version = session[s].version + 1
    BY <1>1, <2>1 DEF Bumped, SessionRow
  <2>5. rows \in Rows
    <3> HIDE DEF was, added, day
    <3>1. QED
      BY <2>1, <2>2, AutoRows
  <2> HIDE DEF row, rows
  <2>6. QED
    BY <2>1, <2>3, <2>4, <2>5, OneCounted, NoneCounted
<1>7. CASE WriteReopen(r)
  <2> DEFINE row == Bumped([session[s] EXCEPT !.confirmed = FALSE])
  <2>1. s \in SessionIds
    BY <1>7, HeldCalls DEF WriteReopen
  <2>2. /\ session' = session \/ session' = [session EXCEPT ![s] = row]
        /\ UNCHANGED attendance
    BY <1>7 DEF WriteReopen
  <2>3. session[s] # None => row.version = session[s].version + 1 /\ row.date = session[s].date
    BY <1>1, <2>1 DEF Bumped, SessionRow
  <2> HIDE DEF row
  <2>4. QED
    BY <1>2, <1>3, <2>1, <2>2, <2>3, OneCounted, NoneCounted
<1>8. CASE WriteArchived(r)
  <2> DEFINE row == Bumped([session[s] EXCEPT !.archived = (c.endpoint = "archive")])
  <2>1. s \in SessionIds
    BY <1>8, HeldCalls DEF WriteArchived
  <2>2. /\ session' = session \/ session' = [session EXCEPT ![s] = row]
        /\ UNCHANGED attendance
    BY <1>8 DEF WriteArchived
  <2>3. session[s] # None => row.version = session[s].version + 1 /\ row.date = session[s].date
    BY <1>1, <2>1 DEF Bumped, SessionRow
  <2> HIDE DEF row
  <2>4. QED
    BY <1>2, <1>3, <2>1, <2>2, <2>3, OneCounted, NoneCounted
<1>9. CASE WriteBatch(r)
  <2> DEFINE row == Bumped(session[s])
             rows == Upserted(attendance[s], c.updates)
  <2>1. s \in SessionIds /\ c.updates \in Updates
    BY <1>9, HeldCalls, EditCallsApart DEF WriteBatch, BatchCall
  <2>2. \/ UNCHANGED <<session, attendance>>
        \/ /\ Open(session[s])
           /\ session' = [session EXCEPT ![s] = row]
           /\ attendance' = [attendance EXCEPT ![s] = rows]
    BY <1>9 DEF WriteBatch, tables
  <2>3. session[s] # None => row.version = session[s].version + 1
    BY <1>1, <2>1 DEF Bumped, SessionRow
  <2>4. rows \in Rows
    BY <1>3, <2>1, UpsertedRows
  <2> HIDE DEF row, rows
  <2>5. QED
    BY <2>1, <2>2, <2>3, <2>4, OneCounted, NoneCounted
<1>10. QED
  BY <1>4, <1>5, <1>6, <1>7, <1>8, <1>9 DEF WriteStep

\* An edit that writes while its session is as it was read: open.
LEMMA EditWritesCounted ==
    ASSUME EditsInvariant, NEW r \in Requests, StillOpen(r),
           WriteRow(r) \/ WriteMembership(r) \/ WriteTracking(r) \/ WriteProgress(r)
             \/ WriteDelete(r)
    PROVE  \A x \in SessionIds : Counted(x)
<1> DEFINE c == request[r].call
           s == c.session
<1>1. c \in Call \cup EditCall /\ s \in SessionIds
  BY HeldCalls DEF WriteRow, WriteMembership, WriteTracking, WriteProgress, WriteDelete
<1>2. /\ session \in [SessionIds -> SessionRow \cup {None}]
      /\ attendance \in [SessionIds -> Rows]
  BY DEF EditsInvariant, EditsTypeOK
<1>3. session[s] # None /\ Open(session[s]) /\ request[r].row = session[s]
  BY DEF WriteRow, WriteMembership, WriteTracking, WriteProgress, WriteDelete, StillOpen,
         EditEndpoints
<1>4. session[s] \in SessionRow
  BY <1>1, <1>2, <1>3
<1>5. ASSUME NEW row, row.version = session[s].version + 1, session' = [session EXCEPT ![s] = row],
             \A x \in SessionIds \ {s} : attendance'[x] = attendance[x]
      PROVE  \A x \in SessionIds : Counted(x)
  BY <1>1, <1>2, <1>3, <1>5 DEF Counted
<1>6. CASE UNCHANGED <<session, attendance>>
  BY <1>6, NoneCounted
<1>7. CASE (WriteRow(r) \/ WriteMembership(r)) /\ ~UNCHANGED <<session, attendance>>
  <2> DEFINE row == [session[s] EXCEPT !.version = NextOf(request[r].row)]
  <2>1. session' = [session EXCEPT ![s] = row]
    BY <1>7 DEF WriteRow, WriteMembership
  <2>2. row.version = session[s].version + 1
    BY <1>3, <1>4 DEF SessionRow, NextOf
  <2>3. \A x \in SessionIds \ {s} : attendance'[x] = attendance[x]
    BY <1>1, <1>2, <1>7 DEF WriteRow, WriteMembership
  <2> HIDE DEF row
  <2>4. QED
    BY <1>5, <2>1, <2>2, <2>3
<1>8. CASE WriteTracking(r) /\ ~UNCHANGED <<session, attendance>>
  <2> DEFINE row == [session[s] EXCEPT !.tracked = c.enabled,
                                       !.version = NextOf(request[r].row)]
  <2>1. session' = [session EXCEPT ![s] = row] /\ UNCHANGED attendance
    <3>1. /\ session' = [session EXCEPT ![s].tracked = c.enabled,
                                        ![s].version = NextOf(request[r].row)]
          /\ UNCHANGED attendance
      BY <1>8 DEF WriteTracking
    <3>2. QED
      BY <1>1, <1>2, <3>1
  <2>2. row.version = session[s].version + 1
    BY <1>3, <1>4 DEF SessionRow, NextOf
  <2> HIDE DEF row
  <2>3. QED
    BY <1>5, <2>1, <2>2
<1>9. CASE WriteProgress(r)
  BY <1>6, <1>9 DEF WriteProgress, tables
<1>10. CASE WriteDelete(r)
  <2>1. /\ session'[s] = None
        /\ \A x \in SessionIds : x # s => session'[x] = session[x] /\ attendance'[x] = attendance[x]
    BY <1>1, <1>2, <1>10 DEF WriteDelete
  <2>2. QED
    BY <1>3, <2>1 DEF Counted
<1>11. QED
  BY <1>6, <1>7, <1>8, <1>9, <1>10

\* A step that writes nothing leaves the others their sessions.
LEMMA StaysOpen ==
    ASSUME EditsInvariant, \A q \in Requests : StillOpen(q), NEW r \in Requests, OthersWait(r),
           UNCHANGED session, StillOpen(r)'
    PROVE  \A q \in Requests : StillOpen(q)'
<1>1. ASSUME NEW q \in Requests \ {r} PROVE StillOpen(q)'
  BY <1>1 DEF StillOpen, OthersWait
<1>2. QED
  BY <1>1

LEMMA EditReadsOpen ==
    ASSUME EditsInvariant, \A q \in Requests : StillOpen(q), NEW r \in Requests, OthersWait(r),
           \/ \E c \in RowCall : CallPatch(r, c)
           \/ LoadPatch(r)
           \/ \E c \in EditCall : LoadEdit(r, c)
           \/ CheckEdit(r)
    PROVE  \A q \in Requests : StillOpen(q)'
<1>0. request[r] \in EditRequest /\ request \in [Requests -> EditRequest]
  BY HeldCalls DEF EditsInvariant, EditsTypeOK
<1>1. UNCHANGED session
  BY DEF CallPatch, LoadPatch, LoadEdit, CheckEdit, tables
<1>2. ASSUME request'[r].phase \notin {"loaded", "checked"}
      PROVE  \A q \in Requests : StillOpen(q)'
  BY <1>1, <1>2, StaysOpen DEF StillOpen
<1>3. ASSUME Done(r)
      PROVE  \A q \in Requests : StillOpen(q)'
  BY <1>0, <1>2, <1>3 DEF Done, Reply, Idle
<1>4. ASSUME NEW c \in RowCall, CallPatch(r, c), ~Done(r)
      PROVE  \A q \in Requests : StillOpen(q)'
  BY <1>0, <1>2, <1>4 DEF CallPatch, EditRequest
<1>5. ASSUME NEW c, Loaded(r, c), EditAccepts(c, None, session[c.session])
                 \/ EditAccepts(c, request[r].view, session[c.session])
      PROVE  \A q \in Requests : StillOpen(q)'
  <2>1. /\ request'[r].call = c /\ request'[r].row = session[c.session]
    BY <1>0, <1>5 DEF Loaded, EditRequest
  <2>2. session[c.session] # None /\ Open(session[c.session])
    BY <1>5 DEF EditAccepts
  <2>3. StillOpen(r)'
    BY <1>1, <2>1, <2>2 DEF StillOpen
  <2>4. QED
    BY <1>1, <2>3, StaysOpen
<1>6. ASSUME LoadPatch(r), ~Done(r)
      PROVE  \A q \in Requests : StillOpen(q)'
  BY <1>5, <1>6 DEF LoadPatch
<1>7. ASSUME NEW c \in EditCall, LoadEdit(r, c), ~Done(r)
      PROVE  \A q \in Requests : StillOpen(q)'
  BY <1>5, <1>7 DEF LoadEdit
<1>8. ASSUME CheckEdit(r), ~Done(r)
      PROVE  \A q \in Requests : StillOpen(q)'
  <2>1. /\ request[r].phase = "loaded"
        /\ request'[r].call = request[r].call /\ request'[r].row = request[r].row
    BY <1>0, <1>8 DEF CheckEdit, Checked, EditRequest
  <2>2. StillOpen(r)'
    BY <1>1, <2>1 DEF StillOpen
  <2>3. QED
    BY <1>1, <2>2, StaysOpen
<1>9. QED
  BY <1>3, <1>4, <1>6, <1>7, <1>8

\* Of requests that do not overlap, the edits that compare no version in their write are as
\* safe as those that do: none writes to a confirmed or archived session, and each change is
\* one more version. (A confirmation or another edit between the read and the write breaks
\* both.)
THEOREM EditsKeepTheLock ==
    EditsSpec /\ []OneRequestAtATime => LockedSessionsStay /\ EditedInOrder
<1> DEFINE OpenStill == \A r \in Requests : StillOpen(r)
           Safe == \A s \in SessionIds : Counted(s)
<1>1. EditsInit => OpenStill
  BY DEF EditsInit, Init, Idle, StillOpen
<1>2. EditsInvariant /\ OpenStill /\ OneRequestAtATime /\ [EditsNext]_editVars
         => OpenStill' /\ Safe
  <2> SUFFICES ASSUME EditsInvariant, OpenStill, OneRequestAtATime, [EditsNext]_editVars
               PROVE  OpenStill' /\ Safe
    OBVIOUS
  <2>1. ASSUME NEW r \in Requests, Working(r), OthersWait(r), Reply(r)
        PROVE  OpenStill'
    <3>1. request'[r].phase = "idle"
      BY <2>1 DEF Reply, Idle, EditsInvariant, EditsTypeOK
    <3>2. \A q \in Requests \ {r} : request'[q].phase \notin {"loaded", "checked"}
      BY <2>1 DEF OneRequestAtATime, Working, OthersWait
    <3>3. QED
      BY <3>1, <3>2 DEF StillOpen
  <2>2. ASSUME NEW r \in Requests, ClientStep(r) \/ ReadStep(r), UNCHANGED <<progress, seen>>
        PROVE  OpenStill' /\ Safe
    <3>1. UNCHANGED tables
      BY <2>2 DEF ClientStep, OpenSession, OpenRows, ReadStep, CallBatch, LoadBatch,
                  LoadUpdate, LoadStatus, CheckDate, CallCreate, ReadSequence
    <3>2. StillOpen(r)'
      BY <2>2, ReadsCheckNothing DEF StillOpen, EditEndpoints
    <3>3. QED
      BY <2>2, <3>1, <3>2, StepsLeaveOthers, StaysOpen, NoneCounted DEF tables
  <2>3. ASSUME NEW r \in Requests, WriteStep(r), UNCHANGED <<progress, seen>>
        PROVE  OpenStill' /\ Safe
    <3>1. Working(r)
      BY <2>3 DEF WriteStep, WriteCreate, WriteUpdate, WriteConfirm, WriteReopen, WriteArchived,
         WriteBatch, Working
    <3>2. QED
      BY <2>1, <2>3, <3>1, StepsLeaveOthers, WriteReplies, WritesCounted
  <2>4. ASSUME NEW st \in Students, SetActive(st), UNCHANGED <<progress, seen>>
        PROVE  OpenStill' /\ Safe
    BY <2>4, NoneCounted DEF SetActive, tables, StillOpen
  <2>5. ASSUME NEW r \in Requests, EditStep(r)
        PROVE  OpenStill' /\ Safe
    <3>1. OthersWait(r)
      BY <2>5, StepsLeaveOthers
    <3>2. CASE \/ \E c \in RowCall : CallPatch(r, c)
               \/ LoadPatch(r)
               \/ \E c \in EditCall : LoadEdit(r, c)
               \/ CheckEdit(r)
      <4>1. UNCHANGED <<session, attendance>>
        BY <3>2 DEF CallPatch, LoadPatch, LoadEdit, CheckEdit, tables
      <4>2. QED
        BY <3>1, <3>2, <4>1, EditReadsOpen, NoneCounted
    <3>3. CASE WriteRow(r) \/ WriteMembership(r) \/ WriteTracking(r) \/ WriteProgress(r)
                 \/ WriteDelete(r)
      <4>1. Working(r) /\ Reply(r)
        BY <3>3 DEF WriteRow, WriteMembership, WriteTracking, WriteProgress, WriteDelete, Done,
                    Working
      <4>2. QED
        BY <2>1, <3>1, <3>3, <4>1, EditWritesCounted
    <3>4. QED
      BY <2>5, <3>2, <3>3 DEF EditStep
  <2>6. CASE UNCHANGED editVars
    BY <2>6, NoneCounted DEF editVars, vars, StillOpen
  <2>7. QED
    BY <2>2, <2>3, <2>4, <2>5, <2>6 DEF EditsNext, Next
<1>3. Safe => [\A s \in SessionIds :
          session[s] # None /\ (session[s].confirmed \/ session[s].archived)
          => /\ attendance'[s] = attendance[s]
             /\ session'[s] # None => session'[s].date = session[s].date]_vars
  BY DEF Counted, Open
<1>4. Safe => [\A s \in SessionIds :
          /\ session[s] # None /\ session'[s] # None
          /\ session'[s] # session[s] \/ attendance'[s] # attendance[s]
          => session'[s].version = session[s].version + 1]_editVars
  BY DEF Counted
<1>5. QED
  BY <1>1, <1>2, <1>3, <1>4, EditsAlways, PTL DEF EditsSpec, LockedSessionsStay, EditedInOrder

-----------------------------------------------------------------------------
(* Refinement: each step of the endpoints is a step of the lifecycle, or none. *)

LEMMA CreateRefines ==
    ASSUME IInv, NEW r \in Requests, WriteCreate(r)
    PROVE  Lifecycle!Next \/ UNCHANGED <<session, attendance>>
<1> DEFINE c == request[r].call
           row == [date |-> c.date, sequence |-> request[r].sequence,
                   confirmed |-> FALSE, archived |-> FALSE,
                   explicit |-> MultipleSessions, tracked |-> TRUE,
                   version |-> 0]
           rows == WithAutoRows(NoRows, Roster(c), c.date)
<1>1. c \in CreateCall /\ c.date \in Dates /\ request[r].sequence \in Nat
  BY Written, CallsApart DEF WriteCreate, Reading
<1>2. row \in Lifecycle!NewRow
  BY <1>1, MultipleAssumption DEF Lifecycle!NewRow
<1>3. NoRows \in Rows /\ Roster(c) \subseteq Students
  BY DEF NoRows, Rows, Roster, IInv, TypeOK
<1>4. rows \in Rows
  BY <1>1, <1>3, AutoRows
<1>5. ASSUME NEW s \in SessionIds \cap
                       NextAfter({t \in SessionIds : session[t] # None}),
             session' = [session EXCEPT ![s] = row],
             attendance' = [attendance EXCEPT ![s] = rows]
      PROVE  Lifecycle!Next
  <2>1. session[s] = None
    BY FreshId
  <2>2. session'[s] = row /\ attendance'[s] = rows
    BY <1>5 DEF IInv, TypeOK
  <2>3. Lifecycle!Create(s)
    BY <1>2, <1>4, <1>5, <2>1, <2>2 DEF Lifecycle!Create, Lifecycle!Rerecord
  <2>4. QED
    BY <2>3 DEF Lifecycle!Next
<1>6. QED
  BY <1>5 DEF WriteCreate

LEMMA UpdateRefines ==
    ASSUME IInv, NEW r \in Requests, WriteUpdate(r)
    PROVE  Lifecycle!Next \/ UNCHANGED <<session, attendance>>
<1> DEFINE c == request[r].call
           s == c.session
           n == IF request[r].phase = "numbered" THEN request[r].sequence
                                                 ELSE request[r].row.sequence
           moved == [session[s] EXCEPT !.date = c.date, !.sequence = n]
<1>1. s \in SessionIds /\ c \in UpdateCall /\ c.date \in Dates
  BY UpdateOne, Written, CallsApart DEF WriteUpdate, Reading, UpdateCall
<1>2. CASE /\ session[s] # None /\ Open(session[s])
           /\ session' = [session EXCEPT ![s] = Bumped(moved)]
  <2>1. session[s] \in SessionRow
    BY <1>1, <1>2 DEF IInv, TypeOK
  <2>2. session'[s] = Bumped(moved) /\ UNCHANGED attendance
    BY <1>1, <1>2 DEF IInv, TypeOK, WriteUpdate
  <2>3. Bumped(moved).date = c.date /\ Bumped(moved).sequence = n
        /\ Bumped(moved) = [session[s] EXCEPT !.date = c.date, !.sequence = n,
                                              !.version = @ + 1]
    BY <2>1 DEF Bumped, SessionRow
  <2>4. Lifecycle!Rerecord(s)
    BY <1>1, <2>2, SameRows DEF Lifecycle!Rerecord, IInv
  <2>5. Lifecycle!Edit(s)
    BY <1>1, <1>2, <2>2, <2>3, <2>4 DEF Lifecycle!Edit, Lifecycle!Open, Open
  <2>6. QED
    BY <1>1, <2>5 DEF Lifecycle!Next
<1>3. QED
  BY <1>2 DEF WriteUpdate

LEMMA ConfirmRefines ==
    ASSUME IInv, NEW r \in Requests, WriteConfirm(r)
    PROVE  Lifecycle!Next \/ UNCHANGED <<session, attendance>>
<1> DEFINE s == request[r].call.session
           now == session[s]
           day == request[r].row.date
           rows == WithAutoRows(attendance[s], Missing(now), day)
<1>1. s \in SessionIds /\ day \in Dates
  BY Written DEF WriteConfirm, SessionRow
<1>2. CASE /\ now # None /\ Open(now)
           /\ session' = [session EXCEPT ![s] =
                             Bumped([now EXCEPT !.confirmed = TRUE])]
           /\ attendance' = [attendance EXCEPT ![s] = rows]
  <2>1. now \in SessionRow /\ attendance[s] \in Rows /\ Missing(now) \subseteq Students
    BY <1>1, <1>2 DEF IInv, TypeOK, Missing
  <2>2. /\ rows \in Rows
        /\ \A st \in Students :
              attendance[s][st] # None => rows[st] = attendance[s][st]
    <3> DEFINE was == attendance[s]
               added == Missing(now)
    <3>1. was \in Rows /\ added \in SUBSET Students /\ day \in Dates
      BY <1>1, <2>1
    <3> HIDE DEF was, added, day
    <3>2. /\ WithAutoRows(was, added, day) \in Rows
          /\ \A st \in Students :
                was[st] # None => WithAutoRows(was, added, day)[st] = was[st]
      BY <3>1, AutoRows
    <3>3. QED
      BY <3>2 DEF was, added, day
  <2>3. Bumped([now EXCEPT !.confirmed = TRUE])
           = [now EXCEPT !.confirmed = TRUE, !.version = @ + 1]
    BY <2>1 DEF Bumped, SessionRow
  <2>4. attendance'[s] = rows
    BY <1>1, <1>2 DEF IInv, TypeOK
  <2>5. Lifecycle!Confirm(s)
    BY <1>2, <2>2, <2>3, <2>4
    DEF Lifecycle!Confirm, Lifecycle!Rerecord, Lifecycle!Open, Open
  <2>6. QED
    BY <1>1, <2>5 DEF Lifecycle!Next
<1>3. QED
  BY <1>2 DEF WriteConfirm

LEMMA ReopenRefines ==
    ASSUME IInv, NEW r \in Requests, WriteReopen(r)
    PROVE  Lifecycle!Next \/ UNCHANGED <<session, attendance>>
<1> DEFINE s == request[r].call.session
           now == session[s]
<1>1. s \in SessionIds
  BY Written DEF WriteReopen
<1>2. CASE /\ now # None /\ now.confirmed /\ ~now.archived
           /\ session' = [session EXCEPT ![s] =
                             Bumped([now EXCEPT !.confirmed = FALSE])]
  <2>1. now \in SessionRow
    BY <1>1, <1>2 DEF IInv, TypeOK
  <2>2. Bumped([now EXCEPT !.confirmed = FALSE])
           = [now EXCEPT !.confirmed = FALSE, !.version = @ + 1]
    BY <2>1 DEF Bumped, SessionRow
  <2>3. Lifecycle!Reopen(s)
    BY <1>2, <2>2 DEF WriteReopen, Lifecycle!Reopen
  <2>4. QED
    BY <1>1, <2>3 DEF Lifecycle!Next
<1>3. QED
  BY <1>2 DEF WriteReopen

\* The one write that trusts its first read: set_archived does not repeat the
\* test of archived_at in its UPDATE. The expected_version repeats it.
DirectionSeen ==
    \A r \in Requests :
        LET q == request[r] IN
        q.phase = "loaded" /\ q.call.endpoint \in {"archive", "recover"} =>
            /\ q.view # None
            /\ q.view.row.archived = (q.call.endpoint = "recover")

LEMMA DirectionNext ==
    ASSUME IInv, FreshViews, DirectionSeen, [Next]_vars
    PROVE  DirectionSeen'
<1> DEFINE Right(q) ==
        q.phase = "loaded" /\ q.call.endpoint \in {"archive", "recover"} =>
            /\ q.view # None
            /\ q.view.row.archived = (q.call.endpoint = "recover")
<1>1. ASSUME NEW r \in Requests, NEW q, Right(q),
             request' = [request EXCEPT ![r] = q]
      PROVE  DirectionSeen'
  BY <1>1 DEF DirectionSeen, IInv, TypeOK
<1>2. ASSUME NEW r \in Requests, Reply(r)
      PROVE  DirectionSeen'
  BY <1>1, <1>2 DEF Reply, Idle
<1>3. ASSUME NEW r \in Requests, NEW q,
             request' = [request EXCEPT ![r] = q], q.phase # "loaded"
      PROVE  DirectionSeen'
  BY <1>1, <1>3
<1>4. ASSUME NEW r \in Requests, ClientStep(r)
      PROVE  DirectionSeen'
  <2>1. request[r] \in Request
    BY DEF IInv, TypeOK
  <2>2. PICK v : \/ request' = [request EXCEPT ![r] =
                      [request[r] EXCEPT !.phase = "opening", !.view = v]]
               \/ request' = [request EXCEPT ![r] =
                      [request[r] EXCEPT !.phase = "open", !.view = v]]
    BY <1>4 DEF ClientStep, OpenSession, OpenRows
  <2> DEFINE q1 == [request[r] EXCEPT !.phase = "opening", !.view = v]
             q2 == [request[r] EXCEPT !.phase = "open", !.view = v]
  <2>3. q1.phase # "loaded" /\ q2.phase # "loaded"
    BY <2>1 DEF Request
  <2> HIDE DEF q1, q2
  <2>4. request' = [request EXCEPT ![r] = q1] \/ request' = [request EXCEPT ![r] = q2]
    BY <2>2 DEF q1, q2
  <2>5. QED
    BY <1>3, <2>3, <2>4
<1>5. ASSUME NEW r \in Requests, NEW c, Load(r, c),
             c.endpoint \in {"archive", "recover"} =>
                 /\ request[r].view # None /\ request[r].phase = "open"
                 /\ c.session = request[r].view.session
      PROVE  DirectionSeen'
  <2> DEFINE q == [request[r] EXCEPT !.phase = "loaded", !.call = c,
                                     !.row = session[c.session]]
             view == request[r].view
  <2>1. CASE Accepts(c, view, session[c.session]) /\ request' = [request EXCEPT ![r] = q]
    <3>1. q.phase = "loaded" /\ q.call = c /\ q.view = view
      BY DEF IInv, TypeOK, Request
    <3>2. ASSUME c.endpoint \in {"archive", "recover"}
          PROVE  view.row.archived = (c.endpoint = "recover")
      <4> DEFINE row == session[c.session]
      <4>1. view # None /\ view \in View /\ request[r].phase = "open"
            /\ c.session = view.session
        BY <1>5, <3>2 DEF IInv, TypeOK, Request
      <4>2. row \in SessionRow
        BY <2>1, <4>1 DEF Accepts, IInv, TypeOK, View
      <4>3. Matches(view, row)
            /\ (row.archived <=> c.endpoint = "recover")
        BY <2>1, <3>2 DEF Accepts
      <4>4. row.archived = (c.endpoint = "recover")
        BY <4>2, <4>3 DEF SessionRow
      <4>5. view.row.version = row.version
        BY <4>1, <4>3 DEF Matches
      <4>6. view.row = row
        BY <4>1, <4>5 DEF FreshViews
      <4>7. QED
        BY <4>4, <4>6
    <3>3. QED
      BY <1>1, <1>5, <2>1, <3>1, <3>2
  <2>2. QED
    BY <1>2, <1>5, <2>1 DEF Load
<1>6. ASSUME NEW r \in Requests, ReadStep(r)
      PROVE  DirectionSeen'
  <2>0. request[r] \in Request /\ Right(request[r])
    BY DEF IInv, TypeOK, DirectionSeen
  <2>1. ASSUME NEW c, NEW s, request' = [request EXCEPT ![r] =
                  [request[r] EXCEPT !.phase = s, !.call = c]], s # "loaded"
        PROVE  DirectionSeen'
    <3> DEFINE q == [request[r] EXCEPT !.phase = s, !.call = c]
    <3>1. q.phase # "loaded"
      BY <2>0, <2>1 DEF Request
    <3> HIDE DEF q
    <3>2. request' = [request EXCEPT ![r] = q]
      BY <2>1 DEF q
    <3>3. QED
      BY <1>3, <3>1, <3>2
  <2>2. ASSUME NEW s \in SessionIds, NEW k \in Keys, NEW u \in Updates,
               CallBatch(r, s, k, u)
        PROVE  DirectionSeen'
    <3> DEFINE c == [endpoint |-> "batch", session |-> s, key |-> k,
                     updates |-> u]
    <3>1. \/ request' = [request EXCEPT ![r] =
                [request[r] EXCEPT !.phase = "called", !.call = c]]
          \/ Reply(r)
      BY <2>2 DEF CallBatch
    <3> HIDE DEF c
    <3>2. QED
      BY <1>2, <2>1, <3>1
  <2>3. ASSUME NEW d \in Dates, NEW m \in SUBSET Students, CallCreate(r, d, m)
        PROVE  DirectionSeen'
    <3> DEFINE c == [endpoint |-> "create", date |-> d, members |-> m]
    <3>1. \/ request' = [request EXCEPT ![r] =
                [request[r] EXCEPT !.phase = "dated", !.call = c]]
          \/ Reply(r)
      BY <2>3 DEF CallCreate
    <3> HIDE DEF c
    <3>2. QED
      BY <1>2, <2>1, <3>1
  <2>4. ASSUME CheckDate(r)
        PROVE  DirectionSeen'
    <3> DEFINE q == [request[r] EXCEPT !.phase = "dated"]
    <3>1. q.phase # "loaded"
      BY <2>0 DEF Request
    <3> HIDE DEF q
    <3>2. request' = [request EXCEPT ![r] = q] \/ Reply(r)
      BY <2>4 DEF q, CheckDate
    <3>3. QED
      BY <1>2, <1>3, <3>1, <3>2
  <2>5. ASSUME ReadSequence(r)
        PROVE  DirectionSeen'
    <3>1. PICK n : request' = [request EXCEPT ![r].phase = "numbered",
                                              ![r].sequence = n]
      BY <2>5 DEF ReadSequence
    <3> DEFINE q == [request[r] EXCEPT !.phase = "numbered", !.sequence = n]
    <3>2. q.phase # "loaded" /\ request' = [request EXCEPT ![r] = q]
      BY <2>0, <3>1 DEF Request, IInv, TypeOK
    <3> HIDE DEF q
    <3>3. QED
      BY <1>3, <3>2
  <2>6. ASSUME LoadBatch(r)
        PROVE  DirectionSeen'
    <3> DEFINE q == [request[r] EXCEPT !.phase = "loaded",
                                       !.row = session[request[r].call.session]]
    <3>1. request[r].call \in BatchCall
      BY <2>6 DEF LoadBatch, IInv, InFlight, Consistent
    <3>2. q.call = request[r].call
      BY <2>0 DEF Request
    <3>3. Right(q)
      BY <3>1, <3>2 DEF BatchCall
    <3> HIDE DEF q
    <3>4. request' = [request EXCEPT ![r] = q] \/ Reply(r)
      BY <2>6 DEF q, LoadBatch
    <3>5. QED
      BY <1>1, <1>2, <3>3, <3>4
  <2>7. ASSUME NEW s \in SessionIds, NEW d \in Dates, LoadUpdate(r, s, d)
        PROVE  DirectionSeen'
    BY <1>5, <2>7 DEF LoadUpdate
  <2>8. ASSUME NEW s \in SessionIds,
               NEW e \in {"confirm", "reopen", "archive", "recover"},
               LoadStatus(r, s, e)
        PROVE  DirectionSeen'
    <3> DEFINE c == [endpoint |-> e, session |-> s]
    <3>1. e \in {"archive", "recover"} =>
             /\ request[r].view # None /\ request[r].phase = "open"
             /\ c.session = request[r].view.session
      BY <2>8 DEF LoadStatus, Sends, IInv, InFlight, Consistent
    <3>2. Load(r, c) /\ c.endpoint = e
      BY <2>8 DEF LoadStatus
    <3>3. QED
      BY <1>5, <3>1, <3>2
  <2>9. QED
    BY <1>6, <2>2, <2>3, <2>4, <2>5, <2>6, <2>7, <2>8 DEF ReadStep
<1>7. QED
  BY <1>2, <1>4, <1>6, WriteReplies
  DEF Next, SetActive, vars, DirectionSeen

LEMMA ArchivedRefines ==
    ASSUME IInv, FreshViews, DirectionSeen, NEW r \in Requests, WriteArchived(r)
    PROVE  Lifecycle!Next \/ UNCHANGED <<session, attendance>>
<1> DEFINE q == request[r]
           s == q.call.session
           now == session[s]
           kept == [now EXCEPT !.archived = (q.call.endpoint = "archive")]
<1>1. s \in SessionIds /\ q.view # None /\ s = q.view.session
  BY ArchivedOne, Written, CallsApart
  DEF WriteArchived, DirectionSeen, Consistent, Reading
<1>2. CASE /\ now # None /\ Matches(q.view, now)
           /\ session' = [session EXCEPT ![s] = Bumped(kept)]
  <2>1. now \in SessionRow
    BY <1>1, <1>2 DEF IInv, TypeOK
  <2>2. q.view.row = now
    BY <1>1, <1>2 DEF Matches, FreshViews
  <2>3. now.archived = (q.call.endpoint = "recover")
        /\ q.call.endpoint \in {"archive", "recover"}
    BY <2>2 DEF DirectionSeen, WriteArchived
  <2>4. (q.call.endpoint = "archive") = ~now.archived
    BY <2>3
  <2>5. Bumped(kept) = [now EXCEPT !.archived = ~@, !.version = @ + 1]
    BY <2>1, <2>4 DEF Bumped, SessionRow
  <2>6. Lifecycle!ArchiveOrRecover(s)
    BY <1>2, <2>5 DEF WriteArchived, Lifecycle!ArchiveOrRecover
  <2>7. QED
    BY <1>1, <2>6 DEF Lifecycle!Next
<1>3. QED
  BY <1>2 DEF WriteArchived

LEMMA BatchRefines ==
    ASSUME IInv, NEW r \in Requests, WriteBatch(r)
    PROVE  Lifecycle!Next \/ UNCHANGED <<session, attendance>>
<1> DEFINE c == request[r].call
           s == c.session
           now == session[s]
           rows == Upserted(attendance[s], c.updates)
<1>1. s \in SessionIds /\ c.updates \in Updates
  BY BatchOne DEF BatchCall
<1>2. CASE /\ now # None /\ Open(now)
           /\ session' = [session EXCEPT ![s] = Bumped(now)]
           /\ attendance' = [attendance EXCEPT ![s] = rows]
  <2>1. now \in SessionRow /\ attendance[s] \in Rows
    BY <1>1, <1>2 DEF IInv, TypeOK
  <2>2. rows \in Rows
    BY <1>1, <2>1, UpsertedRows
  <2>3. session'[s] = Bumped(now) /\ attendance'[s] = rows
    BY <1>1, <1>2 DEF IInv, TypeOK
  <2>4. Bumped(now).date = now.date /\ Bumped(now).date \in Dates
        /\ Bumped(now) = [now EXCEPT !.date = Bumped(now).date,
                                     !.sequence = Bumped(now).sequence,
                                     !.version = @ + 1]
    BY <2>1 DEF Bumped, SessionRow
  <2>5. Lifecycle!Edit(s)
    BY <1>2, <2>2, <2>3, <2>4
    DEF Lifecycle!Edit, Lifecycle!Open, Lifecycle!Rerecord, Open
  <2>6. QED
    BY <1>1, <2>5 DEF Lifecycle!Next
<1>3. QED
  BY <1>2 DEF WriteBatch, tables

\* With the requests forgotten, the endpoints are the abstract lifecycle: one
\* version per change, content editable only while open, confirmation adds rows
\* and changes none, reopening and archiving touch nothing else.
THEOREM LifecycleImplemented == Spec => ImplementsLifecycle
<1>1. Init => Lifecycle!Init
  BY DEF Init, Lifecycle!Init, NoRows
<1>2. IInv /\ FreshViews /\ DirectionSeen /\ [Next]_vars
         => [Lifecycle!Next]_(Lifecycle!lifecycleVars)
  <2> SUFFICES ASSUME IInv, FreshViews, DirectionSeen, [Next]_vars
               PROVE  Lifecycle!Next \/ UNCHANGED <<session, attendance>>
    BY DEF Lifecycle!lifecycleVars
  <2>1. ASSUME NEW r \in Requests, WriteStep(r)
        PROVE  Lifecycle!Next \/ UNCHANGED <<session, attendance>>
    BY <2>1, CreateRefines, UpdateRefines, ConfirmRefines, ReopenRefines,
       ArchivedRefines, BatchRefines DEF WriteStep
  <2>2. QED
    BY <2>1, OnlyWrites
<1>3. Init => DirectionSeen
  BY DEF Init, DirectionSeen, Idle
<1>4. IInv /\ FreshViews /\ DirectionSeen /\ [Next]_vars => DirectionSeen'
  BY DirectionNext
<1>5. QED
  BY <1>1, <1>2, <1>3, <1>4, SessionsTypes, ViewsAreFresh, PTL
  DEF Spec, ImplementsLifecycle, Lifecycle!Spec
=============================================================================
