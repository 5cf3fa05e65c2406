------------------------------ MODULE Schedules ------------------------------
(***************************************************************************)
(* Weekly schedules (session_scheduler.py, routers/session_schedules.py):    *)
(* server tasks prepare the sessions of the days ahead, while administrators  *)
(* edit schedules, skip single days and work with the sessions themselves.   *)
(*                                                                         *)
(* lock_schedule is an UPDATE and takes SQLite's only write lock, so from     *)
(* there to the commit a handler, or the generation of one schedule, is one   *)
(* step. What is read before it is a step of its own: the center's settings,  *)
(* which the request's authentication reads, and the list of schedules that   *)
(* a tick of the server task works through.                                  *)
(***************************************************************************)
EXTENDS Integers, FiniteSets, Functions

CONSTANTS
    Workers,     \* server tasks: one per machine that runs the API
    Admins,
    Schedules,   \* primary keys, in the order a tick takes them
    SessionIds,  \* primary keys of the sessions; they bound how many there are
    Students,
    Dates,       \* days, counted from a Sunday
    DaysPerWeek, \* 7
    Horizon,     \* how many days ahead sessions are prepared (7)
    Bodies,      \* the schedules the administrators choose from
    Failing,     \* schedules whose generation raises whenever a tick tries it
    Endpoints,   \* what else this workload calls
    MaxManual,   \* no session is created by hand when there are so many
    MaxVersion,  \* no schedule is edited at this version
    MaxRestarts, \* how often the server tasks are stopped, all in all
    None         \* an absent row, session, date or page

Body == [weekdays : SUBSET (0 .. DaysPerWeek - 1), start : Dates,
         end : Dates \cup {None}, mode : {"all", "categories", "students"},
         members : SUBSET Students, active : BOOLEAN]

ASSUME DatesAssumption == Dates \subseteq Nat
ASSUME SchedulesAssumption == Schedules \subseteq Nat
ASSUME BodiesAssumption == Bodies \subseteq Body
ASSUME CalendarAssumption == DaysPerWeek \in Nat \ {0} /\ Horizon \in Nat

VARIABLES
    today,     \* the date in the center's time zone
    multiple,  \* multiple_sessions_per_day_enabled
    enrolled,  \* students with an active status
    category,  \* the students in the category that schedules choose
    sched,     \* session_schedules: id -> row, or None
    receipt,   \* session_occurrences: schedule -> date -> row, or None
    session,   \* sessions: id -> row, or None
    made,      \* history: schedule -> date -> how many sessions were made for it
    tick,      \* the schedules each worker's tick has still to go through
    page,      \* the schedule each administrator looks at
    setting,   \* multiple, as the authentication of his request has read it
    restarts   \* how often a worker was stopped

center == <<today, multiple, enrolled, category>>
tables == <<sched, receipt, session, made>>
clients == <<page, setting>>
vars == <<center, tables, clients, tick, restarts>>

-----------------------------------------------------------------------------
Row == [weekdays : SUBSET (0 .. DaysPerWeek - 1), start : Dates,
        end : Dates \cup {None}, mode : {"all", "categories", "students"},
        members : SUBSET Students, active : BOOLEAN, version : Nat]
Receipt == [status : {"created", "conflict", "skipped"},
            session : SessionIds \cup {None}]

\* A session: of its version all that is read here is whether it is still 0;
\* marked and progress say whether attendance was edited and Quran progress
\* saved; maker is history: the occurrence it was generated for, if it was.
SessionRow == [date : Dates, roster : SUBSET Students, versioned : BOOLEAN,
               confirmed : BOOLEAN, archived : BOOLEAN, marked : BOOLEAN,
               progress : BOOLEAN, maker : (Schedules \X Dates) \cup {None}]
Page == [schedule : Schedules, row : Row]

ASSUME NoneAssumption == /\ None \notin Row /\ None \notin Receipt
                         /\ None \notin SessionRow /\ None \notin SessionIds
                         /\ None \notin Page /\ None \notin BOOLEAN
                         /\ None \notin Dates /\ None \notin Schedules \X Dates

TypeOK == /\ today \in Dates
          /\ multiple \in BOOLEAN
          /\ enrolled \subseteq Students
          /\ category \subseteq Students
          /\ sched \in [Schedules -> Row \cup {None}]
          /\ receipt \in [Schedules -> [Dates -> Receipt \cup {None}]]
          /\ session \in [SessionIds -> SessionRow \cup {None}]
          /\ made \in [Schedules -> [Dates -> Nat]]
          /\ tick \in [Workers -> SUBSET Schedules]
          /\ page \in [Admins -> Page \cup {None}]
          /\ setting \in [Admins -> BOOLEAN \cup {None}]
          /\ restarts \in Nat

Init == /\ today \in {d \in Dates : \A e \in Dates : d <= e}
        /\ multiple \in BOOLEAN
        /\ enrolled \in SUBSET Students
        /\ category \in SUBSET Students
        /\ sched = [k \in Schedules |-> None]
        /\ receipt = [k \in Schedules |-> [d \in Dates |-> None]]
        /\ session = [s \in SessionIds |-> None]
        /\ made = [k \in Schedules |-> [d \in Dates |-> 0]]
        /\ tick = [w \in Workers |-> {}]
        /\ page = [a \in Admins |-> None]
        /\ setting = [a \in Admins |-> None]
        /\ restarts = 0

-----------------------------------------------------------------------------
Existing == {s \in SessionIds : session[s] # None}
NewSession(d, S, maker) ==
    [date |-> d, roster |-> S, versioned |-> FALSE, confirmed |-> FALSE,
     archived |-> FALSE, marked |-> FALSE, progress |-> FALSE, maker |-> maker]

OccurrenceDates(row) ==
    {d \in Dates : /\ row.start <= d /\ today <= d
                   /\ d <= today + Horizon
                   /\ row.end # None => d <= row.end
                   /\ d % DaysPerWeek \in row.weekdays}

\* The students a schedule chooses, and those of them a new session has.
Chosen(row) == CASE row.mode = "all"        -> Students
                 [] row.mode = "students"   -> row.members
                 [] row.mode = "categories" -> category
RosterFor(row, several) == IF several THEN enrolled \cap Chosen(row) ELSE enrolled

\* A center without several sessions a day has no selected rosters.
NeverSuspended(row, several) == FALSE
Suspended(row, several) == row.mode # "all" /\ ~several

\* The receipt of an occurrence, and that of one whose session is still there.
LiveReceipt(k, d) == IF receipt[k][d] # None /\ receipt[k][d].session = None
                     THEN None ELSE receipt[k][d]
ReceiptOf(k, d) == receipt[k][d]

\* The dates generate_schedule has to decide on, and what it decides, where
\* several is the setting as it sees it.
Undecided(k, row, several) ==
    IF ~row.active \/ Suspended(row, several) THEN {}
    ELSE {d \in OccurrenceDates(row) : ReceiptOf(k, d) = None}
Taken(d, several) == ~several /\ \E s \in Existing : session[s].date = d
Conflicts(k, row, several) ==
    {d \in Undecided(k, row, several) : Taken(d, several)}
Creates(k, row, several) ==
    {d \in Undecided(k, row, several) :
        ~Taken(d, several) /\ (several => RosterFor(row, several) # {})}

Generate(k, row, several) ==
    LET days == Creates(k, row, several)
        conflicts == Conflicts(k, row, several)
    IN \E id \in Injection(days, SessionIds \ Existing) :
        /\ session' = [s \in SessionIds |->
               IF \E d \in days : id[d] = s
               THEN LET d == CHOOSE d \in days : id[d] = s
                    IN NewSession(d, RosterFor(row, several), <<k, d>>)
               ELSE session[s]]
        /\ receipt' = [receipt EXCEPT ![k] = [d \in Dates |->
               IF d \in days THEN [status |-> "created", session |-> id[d]]
               ELSE IF d \in conflicts THEN [status |-> "conflict", session |-> None]
               ELSE receipt[k][d]]]
        /\ made' = [made EXCEPT ![k] = [d \in Dates |->
               IF d \in days THEN made[k][d] + 1 ELSE made[k][d]]]

-----------------------------------------------------------------------------
(* The server task.                                                          *)

\* scheduler_tick lists the active schedules.
StartTick(w) ==
    /\ tick[w] = {}
    /\ tick' = [tick EXCEPT ![w] =
           {k \in Schedules : sched[k] # None /\ sched[k].active}]
    /\ UNCHANGED <<center, tables, clients, restarts>>

IsNext(w, k) == /\ k \in tick[w]
                /\ \A j \in tick[w] : k <= j

GenerateNext(w, k) ==
    /\ IsNext(w, k)
    /\ k \notin Failing
    /\ Generate(k, sched[k], multiple)
    /\ tick' = [tick EXCEPT ![w] = @ \ {k}]
    /\ UNCHANGED <<center, sched, clients, restarts>>

\* Generating a schedule raises: it is rolled back, and the tick goes on.
AbandonTick(w, k) == {}
RestOfTick(w, k) == tick[w] \ {k}
FailNext(w, k) ==
    /\ IsNext(w, k)
    /\ tick' = [tick EXCEPT ![w] = RestOfTick(w, k)]
    /\ UNCHANGED <<center, tables, clients, restarts>>

\* The machine stops and starts again.
Restart(w) ==
    /\ tick[w] # {}
    /\ restarts < MaxRestarts
    /\ tick' = [tick EXCEPT ![w] = {}]
    /\ restarts' = restarts + 1
    /\ UNCHANGED <<center, tables, clients>>

-----------------------------------------------------------------------------
(* The administrators.                                                       *)

ListSchedules(a, k) ==
    /\ sched[k] # None
    /\ page' = [page EXCEPT ![a] = [schedule |-> k, row |-> sched[k]]]
    /\ UNCHANGED <<center, tables, setting, tick, restarts>>

\* get_tenant_context reads the center; the session keeps what it has read.
Authenticate(a) ==
    /\ setting' = [setting EXCEPT ![a] = multiple]
    /\ UNCHANGED <<center, tables, page, tick, restarts>>

Done(a) == /\ page' = [page EXCEPT ![a] = None]
           /\ setting' = [setting EXCEPT ![a] = None]

ValidMembers(body, several) == body.active => ~Suspended(body, several)
WithVersion(body, v) ==
    [weekdays |-> body.weekdays, start |-> body.start, end |-> body.end,
     mode |-> body.mode, members |-> body.members, active |-> body.active,
     version |-> v]

CreateSchedule(a, k, body) ==
    /\ setting[a] # None
    /\ sched[k] = None
    /\ ValidMembers(body, setting[a])
    /\ sched' = [sched EXCEPT ![k] = WithVersion(body, 1)]
    /\ Generate(k, WithVersion(body, 1), setting[a])
    /\ Done(a)
    /\ UNCHANGED <<center, tick, restarts>>

Sees(a, k) == /\ page[a] # None
              /\ page[a].schedule = k
              /\ page[a].row.version = sched[k].version

UpdateSchedule(a, k, body) ==
    LET row == WithVersion(body, sched[k].version + 1)
    IN /\ "update" \in Endpoints
       /\ setting[a] # None
       /\ sched[k] # None
       /\ Sees(a, k)
       /\ sched[k].version < MaxVersion
       /\ ValidMembers(body, setting[a])
       /\ sched' = [sched EXCEPT ![k] = row]
       /\ Generate(k, row, setting[a])
       /\ Done(a)
       /\ UNCHANGED <<center, tick, restarts>>

\* Nobody has worked in the session yet. (Quran progress leaves the version.)
Unrecorded(row) == ~row.confirmed /\ ~row.versioned /\ ~row.archived /\ ~row.marked
Untouched(row) == /\ ~row.confirmed /\ ~row.versioned /\ ~row.archived
                  /\ ~row.marked /\ ~row.progress

SkipOccurrence(a, k, d) ==
    LET r == receipt[k][d]
        live == r # None /\ r.status = "created" /\ r.session # None
    IN /\ "skip" \in Endpoints
       /\ sched[k] # None
       /\ Sees(a, k)
       /\ sched[k].version < MaxVersion
       /\ d \in OccurrenceDates(sched[k])
       /\ live => Untouched(session[r.session])
       /\ session' = IF live
                     THEN [session EXCEPT ![r.session].archived = TRUE,
                                          ![r.session].versioned = TRUE]
                     ELSE session
       /\ receipt' = [receipt EXCEPT ![k][d] =
              [status |-> "skipped", session |-> IF r = None THEN None ELSE r.session]]
       /\ sched' = [sched EXCEPT ![k].version = @ + 1]
       /\ Done(a)
       /\ UNCHANGED <<center, made, tick, restarts>>

-----------------------------------------------------------------------------
(* The rest of the application: the sessions and the students' pages.        *)

CreateByHand(s, d) ==
    /\ "create" \in Endpoints
    /\ session[s] = None
    /\ Cardinality(Existing) < MaxManual
    /\ session' = [session EXCEPT ![s] = NewSession(d, enrolled, None)]
    /\ UNCHANGED <<center, sched, receipt, made, clients, tick, restarts>>

\* The endpoints of Sessions and SessionEdits that change the row of a session.
Open(row) == ~row.confirmed /\ ~row.archived
Stores(s, endpoint, row) ==
    /\ endpoint \in Endpoints
    /\ session' = [session EXCEPT ![s] = row]
    /\ UNCHANGED <<center, sched, receipt, made, clients, tick, restarts>>

SaveAttendance(s) ==
    /\ Open(session[s])
    /\ Stores(s, "batch", [session[s] EXCEPT !.marked = TRUE, !.versioned = TRUE])
SaveProgress(s) ==
    /\ Open(session[s])
    /\ Stores(s, "progress", [session[s] EXCEPT !.progress = TRUE])
ChangeDate(s, d) ==
    /\ Open(session[s])
    /\ Stores(s, "move", [session[s] EXCEPT !.date = d, !.versioned = TRUE])
SetConfirmed(s) ==
    /\ ~session[s].archived
    /\ Stores(s, "confirm", [session[s] EXCEPT !.confirmed = ~@, !.versioned = TRUE])
SetArchived(s) ==
    Stores(s, "archive", [session[s] EXCEPT !.archived = ~@, !.versioned = TRUE])

\* ON DELETE SET NULL.
StillLinked(s) == receipt
Unlinked(s) == [k \in Schedules |-> [d \in Dates |->
                   IF receipt[k][d] # None /\ receipt[k][d].session = s
                   THEN [receipt[k][d] EXCEPT !.session = None]
                   ELSE receipt[k][d]]]
DeleteSession(s) ==
    /\ "delete" \in Endpoints
    /\ Open(session[s])
    /\ session' = [session EXCEPT ![s] = None]
    /\ receipt' = Unlinked(s)
    /\ UNCHANGED <<center, sched, made, clients, tick, restarts>>

SetMultiple ==
    /\ "settings" \in Endpoints
    /\ multiple' = ~multiple
    /\ UNCHANGED <<today, enrolled, category, tables, clients, tick, restarts>>

\* A student comes or leaves, or joins or leaves the category.
ChangeStudent(s) ==
    /\ "students" \in Endpoints
    /\ \/ /\ enrolled' \in {enrolled \cup {s}, enrolled \ {s}}
          /\ enrolled' # enrolled
          /\ UNCHANGED category
       \/ /\ category' \in {category \cup {s}, category \ {s}}
          /\ category' # category
          /\ UNCHANGED enrolled
    /\ UNCHANGED <<today, multiple, tables, clients, tick, restarts>>

NextDay ==
    /\ today + 1 \in Dates
    /\ today' = today + 1
    /\ UNCHANGED <<multiple, enrolled, category, tables, clients, tick, restarts>>

-----------------------------------------------------------------------------
Work(w) == \/ StartTick(w)
           \/ \E k \in Schedules : GenerateNext(w, k) \/ FailNext(w, k)

Administer(a) ==
    \/ \E k \in Schedules : ListSchedules(a, k)
    \/ Authenticate(a)
    \/ \E k \in Schedules, body \in Bodies :
          CreateSchedule(a, k, body) \/ UpdateSchedule(a, k, body)
    \/ \E k \in Schedules, d \in Dates : SkipOccurrence(a, k, d)

Next == \/ \E w \in Workers : Work(w) \/ Restart(w)
        \/ \E a \in Admins : Administer(a)
        \/ \E s \in SessionIds, d \in Dates : CreateByHand(s, d)
        \/ \E s \in Existing : \/ SaveAttendance(s)
                               \/ SaveProgress(s)
                               \/ \E d \in Dates : ChangeDate(s, d)
                               \/ SetConfirmed(s)
                               \/ SetArchived(s)
                               \/ DeleteSession(s)
        \/ SetMultiple
        \/ \E s \in Students : ChangeStudent(s)
        \/ NextDay

Spec == Init /\ [][Next]_vars

\* The loop of schedule_loop never ends, and what a tick can generate it
\* generates sooner or later, however often it fails; nobody else has to act.
Fairness == \A w \in Workers :
                /\ WF_vars(Work(w))
                /\ \A k \in Schedules \ Failing : SF_vars(GenerateNext(w, k))
FairSpec == Spec /\ Fairness

-----------------------------------------------------------------------------
(* Properties.                                                               *)

\* However many workers and requests generate a schedule, and whether or not
\* its sessions are deleted, skipped or moved: a date gets one session at most.
OccurrenceOnce ==
    \A k \in Schedules, d \in Dates :
        /\ made[k][d] <= 1
        /\ made[k][d] = 1 =>
              receipt[k][d] # None /\ receipt[k][d].status # "conflict"

\* A receipt names the session that was generated for it, never one that took
\* over the key of a deleted session, and each such session has its receipt.
OwnSessions ==
    /\ \A k \in Schedules, d \in Dates :
          receipt[k][d] # None /\ receipt[k][d].session # None =>
              /\ session[receipt[k][d].session] # None
              /\ session[receipt[k][d].session].maker = <<k, d>>
    /\ \A s \in SessionIds :
          session[s] # None /\ session[s].maker # None =>
              LET k == session[s].maker[1]
                  d == session[s].maker[2]
              IN receipt[k][d] # None /\ receipt[k][d].session = s

\* Skipping a day never archives a session in which somebody has recorded
\* anything, and touches no session but the one of that day.
SkipsSpareWork ==
    [][\A k \in Schedules, d \in Dates :
          (receipt[k][d] = None \/ receipt[k][d].status # "skipped")
          /\ receipt'[k][d] # None /\ receipt'[k][d].status = "skipped"
          => \A s \in SessionIds :
                session'[s] # session[s] =>
                    /\ session[s].maker = <<k, d>>
                    /\ ~session[s].confirmed /\ ~session[s].archived
                    /\ ~session[s].marked /\ ~session[s].progress]_vars

\* Whatever the setting was when it was read: a session generated for a
\* schedule has no student the schedule does not choose.
RostersNeverBroaden ==
    [][\A k \in Schedules, d \in Dates :
          made'[k][d] # made[k][d] =>
              \A s \in SessionIds :
                  session[s] = None /\ session'[s] # None
                  /\ session'[s].maker = <<k, d>> =>
                      /\ sched'[k].mode = "students" =>
                            session'[s].roster \subseteq sched'[k].members
                      /\ sched'[k].mode = "categories" =>
                            session'[s].roster \subseteq category]_vars

\* A schedule is only changed by an administrator whose page shows it as it is.
SchedulesAsSeen ==
    [][\A k \in Schedules :
          sched[k] # None /\ sched'[k] # sched[k] =>
              \E a \in Admins :
                  /\ page[a] = [schedule |-> k, row |-> sched[k]]
                  /\ page'[a] = None]_vars

\* An occurrence the server task can decide on.
Due(k, d) == /\ sched[k] # None
             /\ d \in Creates(k, sched[k], multiple) \cup Conflicts(k, sched[k], multiple)

\* Other schedules may fail for ever and the tasks be restarted: what is due
\* is decided, or is no longer due.
DueIsDecided ==
    \A k \in Schedules \ Failing, d \in Dates : Due(k, d) ~> ~Due(k, d)
=============================================================================
