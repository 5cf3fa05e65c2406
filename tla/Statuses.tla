------------------------------- MODULE Statuses -------------------------------
(***************************************************************************)
(* The attendance statuses of a center, their renaming, and the streaks of    *)
(* one student with their alerts (models.py, update_tahfiz_settings of        *)
(* routers/management.py, attendance_streaks.py, excused_periods.py,           *)
(* routers/attendance.py).                                                   *)
(*                                                                         *)
(* A request reads its center with its authentication and the rest before it   *)
(* writes, without a lock; its writes are one transaction.                     *)
(*                                                                         *)
(* Sessions are numbered by their dates, and none is confirmed or archived.    *)
(* Notes, sheikhs, revisions and the other settings are left out.              *)
(***************************************************************************)
EXTENDS Rows, Integers, FiniteSets, Sequences

CONSTANTS Names,        \* what a status may be called
          MaxSessions,  \* bound on the sessions
          Limits,       \* the limits of a streak that are tried
          Calls         \* slots for requests in progress at the same time

\* AttendanceStatus: the names a new center has.
Defaults == <<"present", "absent", "excused", "not_applicable">>
Numbers == 1 .. MaxSessions

\* Lists are no longer than there are names.
Lists(S) == UNION {[1..n -> S] : n \in 0..Cardinality(Names)}

ASSUME StatusesAssumption == /\ \A i \in DOMAIN Defaults : Defaults[i] \in Names
                             /\ IsFiniteSet(Names)
                             /\ None \notin Names /\ None \notin Lists(Names)
                             /\ \A S \in SUBSET Names : S # None
                             /\ MaxSessions \in Nat /\ Limits \subseteq Nat \ {0}

VARIABLES tahfiz,   \* the settings of the center that are about statuses
          mark,     \* the student's attendance by session: its status
          call,     \* the requests in progress: what each has read
          noticed   \* history: the streak is beyond the limit since an alert, or by no mark's doing

statusVars == <<tahfiz, mark, call, noticed>>

Colors == {"green", "slate", "amber", "sky", "violet", "rose"}
DefaultColor(s) == CASE s = "present" -> "green" [] s = "absent" -> "slate"
                     [] s = "excused" -> "amber" [] s = "not_applicable" -> "sky"
                     [] OTHER -> "violet"

-----------------------------------------------------------------------------
(* What the settings mean: a status that is not among the center's is replaced. *)

Known(c) == {c.statuses[i] : i \in DOMAIN c.statuses}
FirstOf(c, wanted, fallback) ==
    LET places == {i \in DOMAIN c.statuses : c.statuses[i] \in wanted}
    IN IF places = {} THEN fallback
       ELSE c.statuses[CHOOSE i \in places : \A j \in places : i <= j]

\* attendance_streak_status_option
StreakStatus(c) == CASE c.tracked \in Known(c) -> c.tracked
                [] c.tracked \notin Known(c) /\ "excused" \in Known(c) -> "excused"
                [] OTHER -> Head(c.statuses)

\* attendance_status_color_options
Color(c, s) == IF c.colors[s] # None THEN c.colors[s] ELSE DefaultColor(s)

\* present_status_option
PresentStatus(c) ==
    LET green == {s \in Known(c) : Color(c, s) = "green"}
    IN CASE c.present \in Known(c) -> c.present
         [] c.present \notin Known(c) /\ "present" \in Known(c) -> "present"
         [] OTHER -> FirstOf(c, green, Head(c.statuses))

\* absent_status_option
AbsentStatus(c) ==
    LET slate == {s \in Known(c) : Color(c, s) = "slate"}
        other == Known(c) \ {PresentStatus(c)}
    IN CASE c.absent \in Known(c) -> c.absent
         [] c.absent \notin Known(c) /\ "absent" \in Known(c) -> "absent"
         [] OTHER -> FirstOf(c, slate, FirstOf(c, other, Head(c.statuses)))

\* excused_absence_reset_status_options
Resetting(c) == c.resets \ {StreakStatus(c)}

\* calculate_attendance_status_streak: the tracked marks since the last that resets.
Streak(c, m) ==
    Cardinality({n \in Numbers : /\ m[n] = StreakStatus(c)
                                 /\ \A k \in Numbers : k > n => m[k] \notin Resetting(c)})
Passed(c, m) == Streak(c, m) > c.limit

\* automatic_attendance: what a new session says of the student.
Excuses == {"unregistered", "period", "weekday", "none"}
Automatic(c, excuse) == CASE excuse \in {"unregistered", "weekday"} -> "not_applicable"
                          [] excuse = "period" -> StreakStatus(c)
                          [] excuse = "none" -> AbsentStatus(c)

-----------------------------------------------------------------------------
Tahfiz == [statuses : Lists(Names) \ {<<>>},
           tracked : Names, present : Names, absent : Names, resets : SUBSET Names,
           colors : [Names -> Colors \cup {None}], limit : Limits, alerts : BOOLEAN]

\* None: the field is not in the body. A rename: from one name to another.
Body(statuses, renames, resets) ==
    [statuses |-> statuses, renames |-> renames, resets |-> resets, tracked |-> None,
     present |-> None, absent |-> None, colors |-> None, limit |-> None, alerts |-> None]

StatusesInit ==
    /\ tahfiz = [statuses |-> Defaults, tracked |-> "excused", present |-> "present",
                 absent |-> "absent", resets |-> {"present"},
                 colors |-> [s \in Names |-> None], limit |-> 1, alerts |-> TRUE]
    /\ 1 \in Limits
    /\ mark = [n \in Numbers |-> None]
    /\ call = [q \in Calls |-> None]
    /\ noticed = FALSE

-----------------------------------------------------------------------------
(* update_tahfiz_settings                                                    *)

Given(new, old) == IF new = None THEN old ELSE new

\* The renames one after the other, each on what the ones before it left.
Follow(s, renames) ==
    LET After[i \in 0..Len(renames)] ==
            IF i = 0 THEN s
            ELSE IF After[i - 1] = renames[i].from THEN renames[i].to ELSE After[i - 1]
    IN After[Len(renames)]

Listed(c, b) == [c EXCEPT !.statuses = Given(b.statuses, @)]
RenamedPresent(c, b) == [c EXCEPT !.present = Follow(@, b.renames)]
Renamed(c, b) == [c EXCEPT !.present = Follow(@, b.renames), !.absent = Follow(@, b.renames)]
Chosen(c, b) ==
    [c EXCEPT !.alerts = Given(b.alerts, @), !.tracked = Given(b.tracked, @),
              !.present = Given(b.present, @), !.absent = Given(b.absent, @),
              !.limit = Given(b.limit, @),
              !.colors = [s \in Names |->
                  IF s \notin Known(c) THEN None
                  ELSE IF b.colors = None THEN Color(c, s)
                  ELSE Given(b.colors[s], Color(c, s))]]
Reset(c, b) == [c EXCEPT !.resets = (Given(b.resets, Resetting(c)) \cap Known(c))
                                    \ {StreakStatus(c)}]

Updated(c, b) ==
    LET listed == Listed(c, b)
        named == IF b.renames = <<>> THEN listed ELSE Renamed(listed, b)
    IN Reset(Chosen(named, b), b)

\* The renames are from the statuses as read; what is chosen must be configured.
Acceptable(c, b) ==
    LET final == Known(Listed(c, b))
    IN /\ b.statuses # <<>>
       /\ \A i \in DOMAIN b.renames : /\ b.renames[i].from \in Known(c)
                                      /\ b.renames[i].to \in final
       /\ {b.tracked, b.present, b.absent} \subseteq final \cup {None}

\* What the request changed of the row it had loaded is written.
Columns(read, new) == [f \in DOMAIN new |-> IF new[f] # read[f] THEN new[f] ELSE tahfiz[f]]

-----------------------------------------------------------------------------
(* Requests. The body of a mark is checked against the statuses as read. The    *)
(* row and the streak are read at one moment here.                             *)

MayMark(r) == r.status \in Known(tahfiz) \cup {mark[r.session]}
Admitted(r) == CASE r.op \in {"mark", "batch"} -> MayMark(r)
              [] r.op = "create" -> mark[r.session] = None
              [] r.op = "update" -> Acceptable(tahfiz, r.body)

Ask(q, r) ==
    /\ call[q] = None
    /\ Admitted(r)
    /\ call' = [call EXCEPT ![q] = [request |-> r, tahfiz |-> tahfiz,
                                    streak |-> Streak(tahfiz, mark),
                                    row |-> IF r.op = "update" THEN None
                                            ELSE mark[r.session]]]
    /\ UNCHANGED <<tahfiz, mark, noticed>>

\* threshold_alert_after_change
AlertsFarBeyond(c, before, m) == c.alerts /\ before <= c.limit /\ c.limit + 1 < Streak(c, m)
Alerts(c, before, m) == c.alerts /\ before <= c.limit /\ c.limit < Streak(c, m)

Answered(q) == call' = [call EXCEPT ![q] = None]
Marked(q, status, before) ==
    /\ mark' = [mark EXCEPT ![call[q].request.session] = status]
    /\ noticed' = /\ Passed(tahfiz, mark')
                  /\ noticed \/ Alerts(call[q].tahfiz, before, mark')
    /\ UNCHANGED tahfiz

\* update_attendance and upsert_attendance: a new row must still be new, and a
\* status that was loaded already is not written.
Mark(q) ==
    /\ call[q] # None /\ call[q].request.op = "mark"
    /\ LET r == call[q].request
           status == IF r.status = call[q].row THEN mark[r.session] ELSE r.status
       IN IF call[q].row = None /\ mark[r.session] # None
          THEN UNCHANGED <<tahfiz, mark, noticed>>
          ELSE Marked(q, status, call[q].streak)
    /\ Answered(q)

\* batch_attendance: it has the lock before it reads the row and the streak.
Batch(q) ==
    /\ call[q] # None /\ call[q].request.op = "batch"
    /\ LET r == call[q].request
       IN IF r.status \in Known(call[q].tahfiz) \cup {mark[r.session]}
          THEN Marked(q, r.status, Streak(call[q].tahfiz, mark))
          ELSE UNCHANGED <<tahfiz, mark, noticed>>
    /\ Answered(q)

\* A session is made: the first of two for one day.
CreateSession(q) ==
    /\ call[q] # None /\ call[q].request.op = "create"
    /\ LET r == call[q].request
       IN IF mark[r.session] = None
          THEN /\ mark' = [mark EXCEPT ![r.session] = Automatic(call[q].tahfiz, r.excuse)]
               /\ noticed' = Passed(tahfiz, mark')
          ELSE UNCHANGED <<mark, noticed>>
    /\ Answered(q)
    /\ UNCHANGED tahfiz

\* update_tahfiz_settings renames the marks as they are now.
Update(q) ==
    /\ call[q] # None /\ call[q].request.op = "update"
    /\ LET b == call[q].request.body
           read == call[q].tahfiz
       IN /\ tahfiz' = Columns(read, Updated(read, b))
          /\ mark' = [n \in Numbers |-> Follow(mark[n], b.renames)]
          /\ noticed' = Passed(tahfiz', mark')
    /\ Answered(q)

Bodies ==
    [statuses : Lists(Names) \cup {None},
     renames : Lists([from : Names, to : Names]),
     resets : SUBSET Names \cup {None}, tracked : Names \cup {None},
     present : Names \cup {None}, absent : Names \cup {None},
     colors : [Names -> Colors \cup {None}] \cup {None}, limit : Limits \cup {None},
     alerts : BOOLEAN \cup {None}]
Requests ==
    [op : {"mark", "batch"}, session : Numbers, status : Names]
    \cup [op : {"create"}, session : Numbers, excuse : Excuses]
    \cup [op : {"update"}, body : Bodies]

StatusesNext ==
    \E q \in Calls :
        \/ \E r \in Requests : Ask(q, r)
        \/ Mark(q) \/ Batch(q) \/ CreateSession(q) \/ Update(q)

StatusesSpec == StatusesInit /\ [][StatusesNext]_statusVars

-----------------------------------------------------------------------------
\* Types of the settings, the marks and the requests' readings.
StatusesTypeOK ==
    /\ tahfiz \in Tahfiz
    /\ mark \in [Numbers -> Names \cup {None}]
    /\ \A q \in Calls : call[q] # None => /\ call[q].tahfiz \in Tahfiz
                                          /\ call[q].streak \in 0 .. MaxSessions
    /\ noticed \in BOOLEAN

\* Each time a student's streak passes the limit again, it is by a mark that was alerted, or
\* by a session's creation or new settings ...
PassingNoticed == tahfiz.alerts /\ Passed(tahfiz, mark) => noticed

\* ... however many batches and creations overlap, as long as the settings and marks of
\* one session come alone: a single mark compares with the streak it has read before others
\* wrote (attendance_streaks.py:67, batch_attendance).
SettingsStill == \A q \in Calls : call[q] # None => call[q].tahfiz = tahfiz
MarksAlone == \A p, q \in Calls :
    call[p] # None /\ call[q] # None /\ p # q => call[p].request.op # "mark"
NoticedUnlessMixed == []SettingsStill /\ []MarksAlone => []PassingNoticed

\* Statuses get new names, each of its own, that no status and no mark had; tracked and
\* resetting statuses are sent along, present and absent are not, and are configured.
OnlyRenames(c, m, b) ==
    LET renamed(s) == Follow(s, b.renames)
    IN /\ \A i \in DOMAIN b.renames :
             /\ b.renames[i].to \notin Known(c) /\ \A n \in Numbers : m[n] # b.renames[i].to
             /\ \A j \in DOMAIN b.renames : b.renames[i].to = b.renames[j].to => i = j
       /\ b.statuses = [i \in DOMAIN c.statuses |-> renamed(c.statuses[i])]
       /\ b.tracked = renamed(StreakStatus(c))
       /\ b.resets = {renamed(s) : s \in Resetting(c)}
       /\ b.present = None /\ b.absent = None /\ b.limit = None
       /\ {c.present, c.absent} \cup c.resets \subseteq Known(c)

\* Renaming statuses changes what no mark means, present and absent, nor the streak, if
\* the settings are still what the request has read, however many names are given at
\* once and whatever marks are written meanwhile (management.py:2093).
MarksKeepMeaning ==
    \A q \in Calls :
        /\ call[q] # None /\ Update(q)
        /\ call[q].tahfiz = tahfiz
        /\ OnlyRenames(tahfiz, mark, call[q].request.body)
        => /\ Streak(tahfiz', mark') = Streak(tahfiz, mark)
           /\ \A n \in Numbers :
                 mark[n] # None =>
                     /\ mark'[n] = PresentStatus(tahfiz') <=> mark[n] = PresentStatus(tahfiz)
                     /\ mark'[n] = AbsentStatus(tahfiz') <=> mark[n] = AbsentStatus(tahfiz)
RenamesFollow == [][MarksKeepMeaning]_statusVars
===============================================================================
