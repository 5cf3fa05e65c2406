------------------------------ MODULE Migrations ------------------------------
(***************************************************************************)
(* "alembic upgrade head", which the container runs each time it starts,      *)
(* before the application: the revisions from the one the database is at, one  *)
(* after the other, with a crash possible between any two statements.          *)
(*                                                                         *)
(* On SQLite a statement that changes the schema is committed at once, unless  *)
(* a statement that changes rows has begun a transaction; from there to the    *)
(* end of the revision, where its number is stored, all is committed as one.   *)
(* A revision looks at the schema when it begins and leaves out what is there. *)
(* The objects of a schema are tables <<t>>, columns <<t, c>>, and the indexes  *)
(* and triggers of a table.                                                   *)
(***************************************************************************)
EXTENDS Integers, Sequences, FiniteSets

CONSTANT MaxCrashes
ASSUME CrashesAssumption == MaxCrashes \in Nat

Table(t) == <<t>>
Column(t, c) == <<t, c>>
Indexes(t) == <<t, "indexes">>
Triggers(t) == <<t, "triggers">>
Copy(t) == <<t, "copy">>             \* _alembic_tmp_t
UniqueDay == <<"sessions", "uq_sessions_tenant_date_sequence">>

-----------------------------------------------------------------------------
(* Statements. "unless": the objects that, found when the revision began, make  *)
(* it leave the statement out.                                                *)

Statement(kind, object, unless) ==
    <<[kind |-> kind, object |-> object, unless |-> unless]>>

Add(t, c) == Statement("add", Column(t, c), {Column(t, c)})
AddIndex(i) == Statement("add", i, {i})
Create(t) == Statement("add", Table(t), {Table(t)})
             \o Statement("add", Indexes(t), {Table(t)})
Fill(object, unless) == Statement("fill", object, unless)
LogChanges(t) == Statement("ensure", Triggers(t), {})

\* batch_alter_table, of an altered column or of new ones whose default is an
\* expression: the table is copied, with its rows and its indexes, and the copy
\* takes its name; its triggers go with the old table.
Recreate(t, new) == Statement("add", Copy(t), new) \o Statement("swap", Table(t), new)

-----------------------------------------------------------------------------
(* The revisions.                                                             *)

R02 ==
    LET updated == Column("attendance", "updated_at")
    IN Add("attendance", "revision") \o Add("attendance", "updated_at")
       \o Fill(updated, {updated})
       \o Add("quran_progress_entries", "revision")
       \o Create("device_sessions") \o Create("sync_changes")
       \o Create("sync_mutation_receipts")
       \o LogChanges("attendance") \o LogChanges("quran_progress_entries")
       \o LogChanges("sessions") \o LogChanges("students") \o LogChanges("sheikhs")
R03 == Create("feedback_reports")
R04 == Add("tahfiz", "excused_absence_streak_limit")
       \o Add("tahfiz", "excused_absence_reset_statuses")
       \o Add("tahfiz", "attendance_status_colors")
R05 == Add("tahfiz", "attendance_streak_alert_enabled")
       \o Add("tahfiz", "attendance_streak_status") \o Add("tahfiz", "whatsend_enabled")
R06 == Add("tahfiz", "attendance_sheikh_selection_enabled")
R07 == Add("tahfiz", "excel_export_templates")
R08 == Add("users", "auth_version") \o Create("auth_rate_limits")
R09 == Recreate("tahfiz", {Column("tahfiz", "restrict_sheikh_student_access")})
R10 == Create("student_excused_periods")
R11 == Recreate("tahfiz", {Column("tahfiz", "subscriptions_enabled"),
                           Column("tahfiz", "subscription_default_fee_minor"),
                           Column("tahfiz", "subscription_currency")})
       \o Add("students", "subscription_fee_override_minor")
       \o Create("student_subscriptions")
R12 == AddIndex(<<"audit_logs", "ix_audit_logs_tahfiz_created">>)
R13 == Add("tahfiz", "expense_categories") \o Create("expenses")
R14 == Add("tahfiz", "present_status")
R15 == Fill(<<"student_subscriptions", "unowed">>, {})
R16 == Create("student_quran_plans")
R18 == Add("sessions", "quran_progress_enabled")
R19 == Add("tahfiz", "absent_status")

\* The index is looked for at its own place, after the sequences are numbered.
NumberDays(unless) == Fill(Column("sessions", "daily_sequence"), unless)
NumberDaysOnce == NumberDays({Column("sessions", "daily_sequence")})
NumberDaysAlways == NumberDays({})
R20 == Add("tahfiz", "multiple_sessions_per_day_enabled")
       \o Create("student_categories") \o Create("student_category_memberships")
       \o Add("sessions", "name") \o Add("sessions", "daily_sequence")
       \o Add("sessions", "explicit_membership")
       \o NumberDaysAlways \o AddIndex(UniqueDay)
       \o Add("student_quran_plans", "last_advanced_on")
       \o Fill(Column("student_quran_plans", "last_advanced_on"), {})
R21 == Add("tahfiz", "session_name_options")
R22 == Add("tahfiz", "sheikh_custom_fields_enabled")
       \o Create("student_custom_fields") \o Create("student_custom_field_values")
R23 == Recreate("student_quran_plans", {})
R24 == Add("sheikhs", "attendance_all_students_access")
R25 == Add("tahfiz", "progress_categories") \o Add("students", "quran_progress_enabled")
       \o Add("student_quran_plans", "completed_at")
       \o Fill(Column("students", "quran_progress_enabled"), {})
       \o Fill(Column("tahfiz", "progress_categories"), {})
R26 == Recreate("quran_progress_entries", {}) \o Recreate("student_quran_plans", {})
       \o Recreate("quran_progress_revisions", {})
       \o Fill(Column("tahfiz", "progress_categories"), {})
R28 == Add("tahfiz", "progress_quality_options")
R29 == Create("personal_plans")
R30 == Add("personal_plans", "assignment_ids") \o Add("personal_plans", "completed_items")
R31 == Add("student_quran_plans", "direction") \o Add("quran_progress_entries", "direction")
R32 == Create("trips") \o Create("trip_groups") \o Create("trip_participants")
       \o Create("trip_rounds") \o Create("trip_checks")
R33 == Add("sessions", "archived_at")
R34 == Create("student_registration_forms") \o Create("student_registration_requests")
R35 == Create("session_schedules") \o Create("session_occurrences")
R36 == Add("student_registration_forms", "student_fields")
       \o Add("student_registration_forms", "required_student_fields")
       \o Add("student_registration_requests", "student_data")

\* Revisions 16 and 17 of 2026-08-08 and 27 of 2026-09-23 do nothing on SQLite.
Later == <<R02, R03, R04, R05, R06, R07, R08, R09, R10, R11, R12, R13, R14, R15, <<>>,
           <<>>, R16, R18, R19, R20, R21, R22, R23, R24, R25, R26, <<>>, R28, R29, R30,
           R31, R32, R33, R34, R35, R36>>

Tables == <<"users", "tahfiz", "sheikhs", "user_tahfiz_memberships", "tahfiz_invitations",
    "students", "excused_weekdays", "student_warnings", "parent_phones", "sessions",
    "attendance", "saved_filters", "attendance_batch_operations",
    "quran_progress_entries", "quran_progress_revisions", "student_goals", "audit_logs",
    "feedback_reports", "device_sessions", "auth_rate_limits", "sync_changes",
    "sync_mutation_receipts", "student_excused_periods", "student_subscriptions",
    "expenses", "student_quran_plans", "student_categories",
    "student_category_memberships", "student_custom_fields",
    "student_custom_field_values", "personal_plans", "trips", "trip_groups",
    "trip_participants", "trip_rounds", "trip_checks", "student_registration_forms",
    "student_registration_requests", "session_schedules", "session_occurrences">>

StatementsOf(revisions) ==
    UNION {{revisions[i][j] : j \in DOMAIN revisions[i]} : i \in DOMAIN revisions}
TablesLater == {t \in {Tables[i] : i \in DOMAIN Tables} :
                   Create(t)[1] \in StatementsOf(Later)}
Core == {Tables[i] : i \in DOMAIN Tables} \ TablesLater

\* What today's metadata declares of a table: its revisions' columns included.
AddedTo(t) ==
    UNION {IF s.kind = "swap" THEN s.unless ELSE {s.object} :
              s \in {x \in StatementsOf(Later) : x.kind \in {"add", "swap"}
                                                /\ x.object[1] = t}} \ {Copy(t)}
Shape(t) == AddedTo(t) \cup {Table(t), Indexes(t)}

\* Base.metadata.create_all: each missing table as it is declared today, then its
\* indexes.
Whole(t) == Statement("create", Table(t), {Table(t)})
            \o Statement("add", Indexes(t), {Table(t)})
R01 ==
    LET CreateFrom[i \in 1..Len(Tables) + 1] ==
            IF i > Len(Tables) THEN <<>> ELSE Whole(Tables[i]) \o CreateFrom[i + 1]
    IN CreateFrom[1]

Revisions == <<R01>> \o Later
Newest == Len(Revisions)

-----------------------------------------------------------------------------
VARIABLES
    schema,      \* the objects the running upgrade sees
    unfilled,    \* columns whose old rows still wait for their values
    disk,        \* what a crash leaves: schema, unfilled and alembic_version
    within,      \* a transaction is open
    position,    \* the revision in progress and its next statement
    found,       \* the schema as it was when this attempt at the revision began
    stopped,     \* a statement has failed: the container does not start
    crashes

migrationVars == <<schema, unfilled, disk, within, position, found, stopped, crashes>>

Backfilled == {s.object : s \in {x \in StatementsOf(Later) : x.kind = "fill"}}

\* Old installations hold rows: one that predates the revisions, and one that was
\* deployed with the first. A new one has nothing.
CoreSchema == {Table(t) : t \in Core} \cup {Indexes(t) : t \in Core}
Installation(s, r) == [schema |-> s, unfilled |-> {}, revision |-> r]
Installations == {Installation({}, 0), Installation(CoreSchema, 0),
                  Installation(CoreSchema, 1)}

StartFrom(d) ==
    /\ schema' = d.schema
    /\ unfilled' = d.unfilled
    /\ within' = FALSE
    /\ position' = [revision |-> d.revision + 1, statement |-> 1]
    /\ found' = d.schema

MigrationsInit ==
    /\ disk \in Installations
    /\ schema = disk.schema
    /\ unfilled = {}
    /\ within = FALSE
    /\ position = [revision |-> disk.revision + 1, statement |-> 1]
    /\ found = disk.schema
    /\ stopped = FALSE
    /\ crashes = 0

AtHead == disk.revision = Newest
Running == ~AtHead /\ ~stopped
Script == Revisions[position.revision]
Current == Script[position.statement]
HasRows(t) == Table(t) \in found

\* A statement on the schema is on the disk at once, or with the transaction.
Wrote(s, u) ==
    /\ schema' = s
    /\ unfilled' = u
    /\ disk' = IF within THEN disk ELSE [disk EXCEPT !.schema = s, !.unfilled = u]
    /\ position' = [position EXCEPT !.statement = @ + 1]

StatementNext == Running /\ position.statement <= Len(Script)

Skip ==
    /\ StatementNext
    /\ Current.unless \cap found # {}
    /\ position' = [position EXCEPT !.statement = @ + 1]
    /\ UNCHANGED <<schema, unfilled, disk, within, found, stopped, crashes>>

\* A column added to a table with rows gives them a constant.
AddObject ==
    /\ StatementNext
    /\ Current.unless \cap found = {}
    /\ Current.kind = "add"
    /\ Current.object \notin schema
    /\ Wrote(schema \cup {Current.object},
             unfilled \cup IF Current.object \in Backfilled /\ HasRows(Current.object[1])
                           THEN {Current.object} ELSE {})
    /\ UNCHANGED <<within, found, stopped, crashes>>

CreateWhole ==
    /\ StatementNext
    /\ Current.unless \cap found = {}
    /\ Current.kind = "create"
    /\ Wrote(schema \cup (Shape(Current.object[1]) \ {Indexes(Current.object[1])}), unfilled)
    /\ UNCHANGED <<within, found, stopped, crashes>>

EnsureTriggers ==
    /\ StatementNext
    /\ Current.kind = "ensure"
    /\ Wrote(schema \cup {Current.object}, unfilled)
    /\ UNCHANGED <<within, found, stopped, crashes>>

\* Rows are changed: the transaction begins here, if none is open.
FillRows ==
    /\ StatementNext
    /\ Current.unless \cap found = {}
    /\ Current.kind = "fill"
    /\ within' = TRUE
    /\ unfilled' = unfilled \ {Current.object}
    /\ position' = [position EXCEPT !.statement = @ + 1]
    /\ UNCHANGED <<schema, disk, found, stopped, crashes>>

Lost(t) == {Copy(t), Triggers(t)}
SwapTable ==
    /\ StatementNext
    /\ Current.unless \cap found = {}
    /\ Current.kind = "swap"
    /\ within' = TRUE
    /\ schema' = (schema \ Lost(Current.object[1])) \cup Current.unless
    /\ position' = [position EXCEPT !.statement = @ + 1]
    /\ UNCHANGED <<unfilled, disk, found, stopped, crashes>>

\* "table ... already exists".
Fail ==
    /\ StatementNext
    /\ Current.unless \cap found = {}
    /\ Current.kind = "add"
    /\ Current.object \in schema
    /\ stopped' = TRUE
    /\ UNCHANGED <<schema, unfilled, disk, within, position, found, crashes>>

\* The revision's number is stored in its transaction.
EndRevision ==
    /\ Running
    /\ position.statement > Len(Script)
    /\ disk' = [schema |-> schema, unfilled |-> unfilled, revision |-> position.revision]
    /\ within' = FALSE
    /\ position' = [revision |-> position.revision + 1, statement |-> 1]
    /\ found' = schema
    /\ UNCHANGED <<schema, unfilled, stopped, crashes>>

\* The process dies; the container starts again and with it the upgrade.
CrashUpgrade ==
    /\ Running
    /\ crashes < MaxCrashes
    /\ crashes' = crashes + 1
    /\ StartFrom(disk)
    /\ UNCHANGED <<disk, stopped>>

MigrationsNext ==
    \/ Skip \/ AddObject \/ CreateWhole \/ EnsureTriggers \/ FillRows \/ SwapTable
    \/ Fail \/ EndRevision \/ CrashUpgrade

MigrationsSpec == MigrationsInit /\ [][MigrationsNext]_migrationVars

-----------------------------------------------------------------------------
(* What the revisions have in common, which an upgrade that is interrupted      *)
(* again and again depends on. There is no parameter in it: TLC decides it when *)
(* it starts, and a revision that broke it would be told there.                *)

Statements == StatementsOf(Revisions)
Swaps == {s \in Statements : s.kind = "swap"}
Copies == {Copy(Tables[i]) : i \in DOMAIN Tables}

\* What a statement adds, and what is there when it was run or left out.
Adds(s) ==
    CASE s.kind \in {"add", "ensure"} -> {s.object}
      [] s.kind = "create" -> Shape(s.object[1]) \ {Indexes(s.object[1])}
      [] s.kind = "swap" -> s.unless
      [] s.kind = "fill" -> {}
Leaves(s) ==
    IF s.kind = "swap" \/ (s.kind \in {"add", "create"} /\ s.unless = {s.object})
    THEN s.unless ELSE {}
Brings(r) == IF r = 1 THEN {Table(t) : t \in Core}
             ELSE UNION {Leaves(Revisions[r][k]) : k \in DOMAIN Revisions[r]}

\* The columns that come with a copy of a table come together.
ColumnsWhole(S) == \A w \in Swaps : w.unless \subseteq S \/ w.unless \cap S = {}

\* What is added without looking for it is not there without what is looked for instead.
Accounted(S) ==
    \A s \in Statements : s.kind = "add" /\ s.object \in S \ Copies => s.unless \cap S # {}

\* In one revision nothing is added twice, indexes come after their table, each copy is
\* taken for its table, and sessions are numbered after they get their column.
InOrder(script) ==
    \A k \in DOMAIN script :
        /\ script[k].kind = "add" => \A j \in 1..k - 1 : script[k].object \notin Adds(script[j])
        /\ \A s \in Statements :
              s.kind = "add" /\ s.object \in Adds(script[k]) \ Copies =>
                  \/ s.object \in s.unless
                  \/ \E j \in 1..k - 1 : s.unless \cap Leaves(script[j]) # {}
        /\ \A c \in Copies \cap Adds(script[k]) :
              \E j \in k + 1..Len(script) :
                  /\ script[j].kind = "swap" /\ c \in Lost(script[j].object[1])
                  /\ script[j].unless = script[k].unless
        /\ script[k].kind = "add" /\ script[k].object = Column("sessions", "daily_sequence")
           => \E j \in k + 1..Len(script) : <<script[j]>> = NumberDaysAlways

\* The revisions are scripts in order (migrations/versions).
ASSUME RevisionsInOrder ==
    /\ Revisions \in Seq(Seq(Statements)) \ {<<>>}
    /\ \A r \in DOMAIN Revisions : InOrder(Revisions[r])
\* A statement leaves what it looked for, columns that come together stay together, a swap
\* takes nothing that others look for, and together they bring all that is declared.
ASSUME StatementsFit ==
    /\ \A s \in Statements : /\ Leaves(s) \subseteq Adds(s) /\ ColumnsWhole(Adds(s))
                             /\ s.kind = "ensure" => s.unless = {}
    /\ \A s \in Statements, w \in Swaps : s.unless \cap Lost(w.object[1]) = {}
    /\ \A t \in Core : \E k \in DOMAIN Revisions[1] : Table(t) \in Leaves(Revisions[1][k])
    /\ \A i \in DOMAIN Tables :
          Shape(Tables[i]) \ {Indexes(Tables[i])} \subseteq UNION {Brings(r) : r \in 1..Newest}
\* An old installation has none of what comes with copies, and each index with its table.
ASSUME CoreIsOld ==
    /\ CoreSchema \cap Copies = {} /\ Accounted(CoreSchema)
    /\ \A w \in Swaps : w.unless \cap CoreSchema = {}

-----------------------------------------------------------------------------
(* Properties.                                                                *)

\* Wherever an upgrade is interrupted, and however often, the database that
\* reaches the head has every table and column the application declares and the
\* unique index that tells the sessions of a day apart, and its sessions are
\* numbered; a new installation runs through the revisions that add what it
\* was created with. What does stop an upgrade is the copy of a table that a
\* crash left behind.
UpgradesSurviveCrashes ==
    /\ AtHead =>
          /\ \A i \in DOMAIN Tables :
                Shape(Tables[i]) \ disk.schema
                \subseteq {Indexes(Tables[i])}
          /\ Column("sessions", "daily_sequence") \notin disk.unfilled
    /\ stopped => crashes > 0 /\ \E i \in DOMAIN Tables : Copy(Tables[i]) \in disk.schema

\* "These triggers make every later web, API, or mobile change visible to
\* incremental clients": a database at the head still has them.
ChangesStayLogged ==
    AtHead => \A s \in {x \in StatementsOf(Later) : x.kind = "ensure"} :
                  s.object \in disk.schema
=============================================================================
