------------------------------- MODULE Students -------------------------------
(***************************************************************************)
(* Students and sheikhs, applications for a place, excused periods and        *)
(* warnings (routers/management.py, student_registration.py).                 *)
(*                                                                         *)
(* As in Billing a request reads without a lock, then writes in one           *)
(* transaction; sending a warning comes between the two. An application is    *)
(* decided by a request whose first statement is a write: one step.           *)
(*                                                                         *)
(* What belongs to a student is one attendance row, his periods and his        *)
(* warnings; names, telephones, categories, custom fields and the order of a  *)
(* sheikh's students are left out. An id that is free is given again, as       *)
(* SQLite does with the largest one.                                         *)
(***************************************************************************)
EXTENDS Rows, Integers, FiniteSets

CONSTANTS Learners, Sheikhs, Applications, Periods, Warnings,
          Clerks,   \* slots for requests in progress at the same time
          MaxDay    \* bound on the days

Days == 1 .. MaxDay

ASSUME StudentsAssumption == /\ None \notin Sheikhs /\ None \notin Learners /\ MaxDay \in Nat
                             /\ IsFiniteSet(Warnings)

VARIABLES
    sheikh,       \* sheikhs: the rows there are
    learner,      \* students: the sheikh of each
    recorded,     \* the students with an attendance row
    application,  \* student_registration_requests
    period,       \* student_excused_periods
    warning,      \* student_warnings
    errand,       \* the requests in progress: what each has read
    made          \* history: the students made from each application

studentRows == <<sheikh, learner, recorded, application, period, warning>>
studentsVars == <<studentRows, errand, made>>

-----------------------------------------------------------------------------
Learner == [sheikh : Sheikhs \cup {None}]
Application == [status : {"pending", "approved", "rejected"}, student : Learners \cup {None}]
Period == [student : Learners, from : Days, to : Days, cancelled : BOOLEAN]
Warning == [student : Learners, number : 1 .. Cardinality(Warnings) + 1, sent : BOOLEAN]
Resolution == Sheikhs \cup {"delete", None}

ASSUME StudentRowsAreThere == None \notin Learner \cup Application \cup Period \cup Warning

\* expected: the sheikh the caller believes the student has; plan: what is to
\* become of each student of a deleted sheikh, None of those it does not name.
Errand == [op : {"create", "move", "assign", "delete", "deleteSheikh", "excuse",
                 "change", "cancel", "return", "warn", "warnAndSend", "send"},
           student : Learners, sheikh : Sheikhs \cup {None}, expected : Sheikhs \cup {None},
           plan : [Learners -> Resolution], period : Periods, from : Days, to : Days,
           warning : Warnings]
\* accepted: the provider has taken the message.
Loaded == [sheikh : Sheikhs \cup {None}, period : Period \cup {None}, number : Nat,
           roster : SUBSET Learners,
           rows : [Learners -> SUBSET (Periods \cup Warnings \cup {"attendance"})]]

StudentsTypeOK ==
    /\ sheikh \subseteq Sheikhs
    /\ learner \in [Learners -> Learner \cup {None}]
    /\ recorded \subseteq Learners
    /\ application \in [Applications -> Application \cup {None}]
    /\ period \in [Periods -> Period \cup {None}]
    /\ warning \in [Warnings -> Warning \cup {None}]
    /\ errand \in [Clerks -> [request : Errand, loaded : Loaded, accepted : BOOLEAN]
                             \cup {None}]
    /\ made \in [Applications -> SUBSET Learners]

StudentsInit ==
    /\ sheikh = {}
    /\ learner = [s \in Learners |-> None]
    /\ recorded = {}
    /\ application = [a \in Applications |-> None]
    /\ period = [p \in Periods |-> None]
    /\ warning = [w \in Warnings |-> None]
    /\ errand = [k \in Clerks |-> None]
    /\ made = [a \in Applications |-> {}]

-----------------------------------------------------------------------------
Roster(t) == {s \in Learners : learner[s] # None /\ learner[s].sheikh = t}
PeriodsOf(s) == {p \in Periods : period[p] # None /\ period[p].student = s}
WarningsOf(s) == {w \in Warnings : warning[w] # None /\ warning[w].student = s}
Attached(s) == PeriodsOf(s) \cup (IF s \in recorded THEN {"attendance"} ELSE {})

\* ensure_no_excused_period_overlap.
MeetsInside(p, from, to) == period[p].from < to /\ period[p].to > from
Meets(p, from, to) == period[p].from <= to /\ period[p].to >= from
Free(s, from, to, except) ==
    \A p \in PeriodsOf(s) \ except : period[p].cancelled \/ ~Meets(p, from, to)

\* validate_sheikh_deletion_plan.
Named(plan) == {s \in Learners : plan[s] # None}
Targets(plan) == {plan[s] : s \in Named(plan)} \ {"delete"}
PlanFitsNamed(t, plan) == Named(plan) \subseteq Roster(t)
PlanFits(t, plan) == Named(plan) = Roster(t)

-----------------------------------------------------------------------------
(* The checks on what a request reads.                                       *)

MayHave(t) == t = None \/ t \in sheikh
Present(r) == learner[r.student] # None
MayMove(r) == /\ Present(r) /\ r.sheikh \in sheikh
              /\ learner[r.student].sheikh = r.expected /\ r.expected # r.sheikh
MayAssign(r) == Present(r) /\ r.sheikh \in sheikh
MayDeleteSheikh(r) == /\ r.sheikh \in sheikh
                      /\ PlanFits(r.sheikh, r.plan)
                      /\ Targets(r.plan) \subseteq sheikh \ {r.sheikh}
MayExcuse(r) == Present(r) /\ r.from <= r.to /\ Free(r.student, r.from, r.to, {})
Standing(r) == period[r.period] # None /\ ~period[r.period].cancelled
MayChange(r) == /\ Standing(r) /\ r.from <= r.to
                /\ Free(period[r.period].student, r.from, r.to, {r.period})
MayReturn(r) == /\ Standing(r)
                /\ period[r.period].from <= r.to /\ r.to < period[r.period].to
MaySend(r) == /\ warning[r.warning] # None /\ ~warning[r.warning].sent
              /\ learner[warning[r.warning].student].sheikh # None

Possible(r) ==
    CASE r.op = "create" -> MayHave(r.sheikh)
      [] r.op = "move" -> MayMove(r)
      [] r.op = "assign" -> MayAssign(r)
      [] r.op \in {"delete", "warn"} -> Present(r)
      [] r.op = "deleteSheikh" -> MayDeleteSheikh(r)
      [] r.op = "excuse" -> MayExcuse(r)
      [] r.op = "change" -> MayChange(r)
      [] r.op = "cancel" -> Standing(r)
      [] r.op = "return" -> MayReturn(r)
      [] r.op = "warnAndSend" -> Present(r) /\ learner[r.student].sheikh # None
      [] r.op = "send" -> MaySend(r)

\* The rows of a student are loaded with him, those that are deleted with him.
RowsLoaded(r, s) ==
    CASE r.op = "delete" /\ s = r.student -> Attached(s)
      [] r.op = "deleteSheikh" /\ r.plan[s] = "delete" -> Attached(s) \cup WarningsOf(s)
      [] OTHER -> {}

Fetch(k, r) ==
    /\ errand[k] = None
    /\ Possible(r)
    /\ errand' = [errand EXCEPT ![k] =
           [request |-> r, accepted |-> FALSE,
            loaded |->
              [sheikh |-> IF r.op \in {"move", "assign"} THEN learner[r.student].sheikh
                          ELSE None,
               period |-> IF r.op \in {"change", "return"} THEN period[r.period] ELSE None,
               number |-> IF r.op \in {"warn", "warnAndSend"}
                          THEN Cardinality(WarningsOf(r.student)) + 1 ELSE 0,
               roster |-> IF r.op = "deleteSheikh" THEN Roster(r.sheikh) ELSE {},
               rows |-> [s \in Learners |-> RowsLoaded(r, s)]]]]
    /\ UNCHANGED <<studentRows, made>>

-----------------------------------------------------------------------------
(* What it writes. A statement that fails undoes the transaction: a foreign   *)
(* key to a row that is gone, or the UPDATE of one.                           *)

Done(k) == errand' = [errand EXCEPT ![k] = None]
Undone(k) == Done(k) /\ UNCHANGED <<studentRows, made>>

CreateStudent(k, s) ==
    LET t == errand[k].request.sheikh
    IN /\ errand[k].request.op = "create"
       /\ learner[s] = None
       /\ IF MayHave(t)
          THEN /\ learner' = [learner EXCEPT ![s] = [sheikh |-> t]]
               /\ Done(k)
               /\ UNCHANGED <<sheikh, recorded, application, period, warning, made>>
          ELSE Undone(k)

\* move_student_sheikh and update_student; SQLite ignores FOR UPDATE.
Move(k) ==
    LET r == errand[k].request
        changes == r.sheikh # errand[k].loaded.sheikh
    IN /\ r.op \in {"move", "assign"}
       /\ IF changes /\ learner[r.student] # None /\ r.sheikh \in sheikh
          THEN /\ learner' = [learner EXCEPT ![r.student].sheikh = r.sheikh]
               /\ Done(k)
               /\ UNCHANGED <<sheikh, recorded, application, period, warning, made>>
          ELSE Undone(k)

\* The students in `gone` are deleted with the rows that belong to them.
Without(gone) ==
    /\ recorded' = recorded \ gone
    /\ period' = [p \in Periods |-> IF \E s \in gone : p \in PeriodsOf(s) THEN None ELSE period[p]]
    /\ warning' = [w \in Warnings |->
                      IF \E s \in gone : w \in WarningsOf(s) THEN None ELSE warning[w]]
    /\ application' = [a \in Applications |->
                          IF application[a] # None /\ application[a].student \in gone
                          THEN [application[a] EXCEPT !.student = None] ELSE application[a]]
    /\ made' = [a \in Applications |-> made[a] \ gone]

\* delete_student: a row of the student that came after they were loaded keeps
\* him; his warnings are loaded with the deletion.
DeleteStudent(k) ==
    LET s == errand[k].request.student
    IN /\ errand[k].request.op = "delete"
       /\ IF Attached(s) \subseteq errand[k].loaded.rows[s]
          THEN /\ learner' = [learner EXCEPT ![s] = None]
               /\ Without({s})
               /\ Done(k) /\ UNCHANGED sheikh
          ELSE Undone(k)

\* finalize_sheikh_deletion. The students that the sheikh has by now, and that
\* the plan does not name, lose him without a word.
DeleteSheikh(k) ==
    LET r == errand[k].request
        moved == {s \in Named(r.plan) : r.plan[s] # "delete"}
        gone == Named(r.plan) \ moved
        ok == /\ \A s \in moved : learner[s] # None
              /\ Targets(r.plan) \subseteq sheikh
              /\ \A s \in gone : Attached(s) \cup WarningsOf(s) \subseteq errand[k].loaded.rows[s]
    IN /\ r.op = "deleteSheikh"
       /\ IF ok
          THEN /\ sheikh' = sheikh \ {r.sheikh}
               /\ learner' = [s \in Learners |->
                      CASE s \in moved -> [sheikh |-> r.plan[s]]
                        [] s \in gone -> None
                        [] s \in Roster(r.sheikh) \ (moved \cup gone) -> [sheikh |-> None]
                        [] OTHER -> learner[s]]
               /\ Without(gone)
               /\ Done(k)
          ELSE Undone(k)

-----------------------------------------------------------------------------
(* Excused periods.                                                          *)

KeepsAllButPeriods ==
    UNCHANGED <<sheikh, learner, recorded, application, warning, made>>

CreatePeriod(k, p) ==
    LET r == errand[k].request
    IN /\ r.op = "excuse"
       /\ period[p] = None
       /\ IF learner[r.student] # None
          THEN /\ period' = [period EXCEPT ![p] = [student |-> r.student, from |-> r.from,
                                                   to |-> r.to, cancelled |-> FALSE]]
               /\ Done(k) /\ KeepsAllButPeriods
          ELSE Undone(k)

\* A date set to the one loaded is not written; an early return writes the end.
Dated(r, was, now) ==
    [now EXCEPT !.from = IF r.op = "return" \/ r.from = was.from THEN @ ELSE r.from,
                !.to = IF r.to = was.to THEN @ ELSE r.to]
UpdatePeriod(k) ==
    LET r == errand[k].request
    IN /\ r.op \in {"change", "return"}
       /\ IF period[r.period] # None
          THEN /\ period' = [period EXCEPT ![r.period] = Dated(r, errand[k].loaded.period, @)]
               /\ Done(k) /\ KeepsAllButPeriods
          ELSE Undone(k)

CancelPeriod(k) ==
    LET r == errand[k].request
    IN /\ r.op = "cancel"
       /\ IF period[r.period] # None
          THEN /\ period' = [period EXCEPT ![r.period].cancelled = TRUE]
               /\ Done(k) /\ KeepsAllButPeriods
          ELSE Undone(k)

-----------------------------------------------------------------------------
(* Warnings.                                                                 *)

KeepsAllButWarnings ==
    UNCHANGED <<sheikh, learner, recorded, application, period, made>>

\* The message is accepted. A refusal ends add_and_send_warning, and passes
\* over the warning in send_warnings.
Deliver(k) ==
    /\ errand[k].request.op \in {"warnAndSend", "send"} /\ ~errand[k].accepted
    /\ errand' = [errand EXCEPT ![k].accepted = TRUE]
    /\ UNCHANGED <<studentRows, made>>
Refused(k) ==
    /\ errand[k].request.op \in {"warnAndSend", "send"} /\ ~errand[k].accepted
    /\ Undone(k)

AddWarning(k, w) ==
    LET r == errand[k].request
    IN /\ r.op = "warn" \/ (r.op = "warnAndSend" /\ errand[k].accepted)
       /\ warning[w] = None
       /\ IF learner[r.student] # None
          THEN /\ warning' = [warning EXCEPT ![w] =
                      [student |-> r.student, number |-> errand[k].loaded.number,
                       sent |-> errand[k].accepted]]
               /\ Done(k) /\ KeepsAllButWarnings
          ELSE Undone(k)

MarkSent(k) ==
    LET w == errand[k].request.warning
    IN /\ errand[k].request.op = "send" /\ errand[k].accepted
       /\ IF warning[w] # None
          THEN /\ warning' = [warning EXCEPT ![w].sent = TRUE]
               /\ Done(k) /\ KeepsAllButWarnings
          ELSE Undone(k)

DeleteWarning(w) ==
    /\ warning[w] # None
    /\ warning' = [warning EXCEPT ![w] = None]
    /\ KeepsAllButWarnings /\ UNCHANGED errand

-----------------------------------------------------------------------------
(* Requests that decide nothing on what they read.                           *)

CreateSheikh(t) ==
    /\ t \notin sheikh
    /\ sheikh' = sheikh \cup {t}
    /\ UNCHANGED <<learner, recorded, application, period, warning, errand, made>>

\* The first attendance row of a student.
Record(s) ==
    /\ learner[s] # None /\ s \notin recorded
    /\ recorded' = recorded \cup {s}
    /\ UNCHANGED <<sheikh, learner, application, period, warning, errand, made>>

Submit(a) ==
    /\ application[a] = None
    /\ application' = [application EXCEPT ![a] = [status |-> "pending", student |-> None]]
    /\ UNCHANGED <<sheikh, learner, recorded, period, warning, errand, made>>

\* claim: the administrators' pages may show what is decided already.
ClaimableOnce(a) == application[a].status # "rejected"
Claimable(a) == application[a].status = "pending"

Reject(a) ==
    /\ application[a] # None
    /\ Claimable(a)
    /\ application' = [application EXCEPT ![a].status = "rejected"]
    /\ UNCHANGED <<sheikh, learner, recorded, period, warning, errand, made>>

\* The chosen sheikh may be gone: that undoes the claim, too.
Approve(a, s, t) ==
    /\ application[a] # None /\ learner[s] = None
    /\ Claimable(a) /\ MayHave(t)
    /\ application' = [application EXCEPT ![a] = [status |-> "approved", student |-> s]]
    /\ learner' = [learner EXCEPT ![s] = [sheikh |-> t]]
    /\ made' = [made EXCEPT ![a] = @ \cup {s}]
    /\ UNCHANGED <<sheikh, recorded, period, warning, errand>>

-----------------------------------------------------------------------------
Settle(k) ==
    /\ errand[k] # None
    /\ \/ \E s \in Learners : CreateStudent(k, s)
       \/ Move(k)
       \/ DeleteStudent(k)
       \/ DeleteSheikh(k)
       \/ \E p \in Periods : CreatePeriod(k, p)
       \/ UpdatePeriod(k)
       \/ CancelPeriod(k)
       \/ Deliver(k)
       \/ Refused(k)
       \/ \E w \in Warnings : AddWarning(k, w)
       \/ MarkSent(k)

StudentsNext ==
    \/ \E k \in Clerks, r \in Errand : Fetch(k, r)
    \/ \E k \in Clerks : Settle(k)
    \/ \E t \in Sheikhs : CreateSheikh(t)
    \/ \E s \in Learners : Record(s)
    \/ \E a \in Applications : Submit(a) \/ Reject(a)
    \/ \E a \in Applications, s \in Learners, t \in Sheikhs \cup {None} : Approve(a, s, t)
    \/ \E w \in Warnings : DeleteWarning(w)

StudentsSpec == StudentsInit /\ [][StudentsNext]_studentsVars

-----------------------------------------------------------------------------
\* However many administrators decide an application, at most one student comes
\* of it, the one it names, and none of an application that was not approved
\* (claim, approve, reject).
OneStudentPerApplication ==
    \A a \in Applications :
        made[a] = IF application[a] = None \/ application[a].student = None THEN {}
                  ELSE {application[a].student}

\* Whatever overlaps, a student who has a sheikh goes to another or leaves; only one
\* who came to a sheikh after the students of a deletion had been read is left
\* without any (sheikh_deletion_students before finalize_sheikh_deletion, against
\* move_student_sheikh, update_student, create_student and approve).
CameTooLate(s) ==
    \E k \in Clerks :
        /\ errand[k] # None /\ errand[k].request.op = "deleteSheikh"
        /\ errand[k].request.sheikh = learner[s].sheikh
        /\ s \notin errand[k].loaded.roster
        /\ errand'[k] = None
KeepsSheikh ==
    \A s \in Learners : learner[s] # None /\ learner[s].sheikh # None =>
        \/ learner'[s] = None \/ learner'[s].sheikh \in sheikh'
        \/ learner'[s].sheikh = None /\ CameTooLate(s)
NobodyLosesSheikh == [][KeepsSheikh]_studentsVars

\* A student's periods that were not cancelled have no day in common, so that a
\* session's day has one excuse: true of requests that come one at a time
\* (ensure_no_excused_period_overlap, early return).
PeriodsApart ==
    \A p, q \in Periods :
        (/\ p # q /\ period[p] # None /\ period[q] # None
         /\ period[p].student = period[q].student
         /\ ~period[p].cancelled /\ ~period[q].cancelled)
        => period[p].to < period[q].from \/ period[q].to < period[p].from

\* ... which holds of requests that come one at a time.
OneClerk == \A k, l \in Clerks : errand[k] # None /\ errand[l] # None => k = l
ApartOneByOne == []OneClerk => []PeriodsApart
===============================================================================
