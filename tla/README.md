# TLA+ verification of zamzam-api

zamzam-api is the FastAPI/SQLAlchemy server of Zamzam, an application for
Quran-memorization centers (*tahfiz*). It keeps its data in SQLite. This
directory holds TLA+ models of its core, the TLC configurations that check
them, and TLAPS proofs about them.

## How the program runs, and what that means for a model

Every handler is a coroutine with a database session of its own, and awaits the
database at every statement, so handlers of different requests interleave there.
`app/database.py` opens SQLite in its usual mode:

* a SELECT outside a write transaction sees the database as of that statement;
* the first write of a transaction takes the database's only write lock, and
  keeps it until the commit or the rollback;
* SQLAlchemy's identity map keeps the first row a request has read: a later
  SELECT of the same row does not refresh it.

So a handler is modelled as a few *reading* steps, one per SELECT whose result
it uses later, and one *writing* step, from its first write to its commit. What
it read is kept per request, and may be stale when it is used. A handler whose
first statement is a write (`lock_trip`, `lock_schedule`) is one step. A handler
that raises rolls back, so a refusal changes nothing but the request.

Clients are modelled where it matters what they have seen: a client opens a page
(which may take several SELECTs), keeps it as long as it likes, and sends the
version on it with its edit, any number of times.

## Inventory

| component | state | operations | what makes it correct |
|---|---|---|---|
| Sessions and attendance (`routers/sessions.py`, `routers/attendance.py`) | `sessions`, `attendance`, `attendance_batch_operations` | create, edit, batch attendance, confirm, reopen, archive, recover; one-row edits, membership, tracking, delete | no lost update between pages of one version; a confirmed or archived session is not written; a batch applies once; a chosen roster survives |
| Weekly schedules (`session_scheduler.py`, `routers/session_schedules.py`) | `session_schedules`, `session_occurrences` | the server task's tick; create, edit, skip | one session per occurrence whatever happens to it; skipping spares recorded work; no roster broadens; each due day is decided |
| Trips (`routers/trips.py`) | `trips`, groups, participants, rounds, checks | prepare, assign, start a round, mark, complete | a round counts exactly who takes part; dependents stay with an adult; no unseen overwriting |
| Mobile synchronization (`routers/sync.py`) | `sync_changes`, `sync_mutation_receipts`, the devices' copies | bootstrap, changes, batches of mutations | a copy is as new as its cursor; a mutation applies once and is answered truthfully; a device catches up |
| Authentication and tenant context (`routers/auth.py`, `dependencies.py`) | `users`, `device_sessions`, `auth_rate_limits` | sign up, log in, refresh, revoke, log out; default center | one live session per device, of the current account; an account opens where it is served |
| Invitations (`routers/invitations.py`) | `tahfiz_invitations` | invite, register, accept, revoke, resend | a link lets one user in |
| Platform administration, feedback (`routers/platform.py`) | `tahfiz.status`, `user_tahfiz_memberships` | approve and suspend centers, grant and revoke memberships | an account is shut out exactly when no membership is left |
| Subscriptions (`routers/subscriptions.py`) | `student_subscriptions`, the center's fee and currency | bills made by a page view, pay, undo, correct, bulk operations | one bill per student and month; what was paid stays; a payment is whole, a page view leaves nobody out |
| Finance (`routers/finance.py`) | `expenses` | spend, delete, overview | one currency |
| Students, sheikhs, settings (`routers/management.py`, `excused_periods.py`) | `students`, `sheikhs`, `student_excused_periods`, `student_warnings` | make, move, delete; excuse; warn and send | nobody is left with a sheikh who is gone; periods stay apart |
| Self-registration (`routers/student_registration.py`) | forms, requests | submit, approve, reject | one application becomes one student |
| Attendance statuses and streaks (`attendance_streaks.py`, `models.py`) | the settings about statuses, the marks | rename, choose, mark, alert | a renamed status keeps its meaning; a passed limit is noticed |
| Custom fields and categories (`routers/management.py`) | fields, values, categories, memberships | make and change fields, save values, approve answers | a value fits its field; required values are there |
| Quran progress and plan cursors (`routers/progress.py`, `quran_data.py`) | entries, revisions, plans with a cursor | save, delete, plan, suggest | the cursor skips nothing; the history leads to the present; a portion is as long as it should be |
| Personal plans (`routers/personal_plans.py`) | plans with a version and a link | save, share, mark, archive, delete | no mark is lost; the share mode is respected |
| Backup (`backup.py`, `backup_scheduler.py`) and media | archives, the database file and its log | the loop, manual backups, pruning, restore | there is always a backup that can be restored |
| Database and migrations (`migrations/`) | the schema and its revision | upgrade | an interrupted upgrade ends with the declared schema |
| Reports, saved filters, audit pages; Quran tables | | read-only; generated data | not modelled: see the end |

The components meet in the database. Schedules create sessions through the same
`create_session_record` as requests do; progress, membership and deletion meet
attendance on a session's rows; billing follows students; marks follow statuses;
applications become students with values of custom fields; the center's settings
are read by every request at its authentication and used later. The hard
behaviours are all of that kind: something read by one statement and used by a
later one, with another request, the scheduler's task or a second machine in
between; retries of a request whose answer was lost; a task or an upgrade that is
stopped and started; a counter or a role kept in step by hand in several handlers.
`PROJECT.json` lists each such place under "hazards", with the properties that
cover it.

## Modules

| module | models | role |
|---|---|---|
| `SessionLifecycle` | a session as a versioned document | abstract specification |
| `Sessions` | the requests that compare the version | component; implements `SessionLifecycle` |
| `SessionEdits` | the requests that do not compare it, beside those of `Sessions`, and progress entries | composition, EXTENDS `Sessions` |
| `Trips` | trips, their rounds and the organizers' pages | component |
| `Schedules` | schedules, the tasks that work them off, sessions as far as schedules see them | component |
| `MobileSync` | the change log, the devices that follow it and the mutations they send | component |
| `Accounts` | accounts, centers, memberships, invitations | component |
| `Billing` | bills and expenses of one center, and what students and settings do to them | component |
| `Students` | students, sheikhs, applications, excused periods, warnings | component |
| `Statuses` | the statuses of a center, one student's marks, streaks and alerts | component |
| `CustomFields` | fields, values, categories, the public form and its answers | component |
| `Mushaf` | where a portion of the Quran ends | pure functions |
| `Progress` | one student's entries of one ward, their history, the plan's cursor | component, EXTENDS `Mushaf` |
| `PersonalPlans` | one shared plan, its owner and the visitors with its link | component |
| `Devices` | signing in, device sessions, failed attempts | component |
| `Backups` | archives, the loop that makes them, restore | component |
| `Migrations` | the revisions of the upgrade, statement by statement | component |
| `Rows` | NULL, and the row that is not there | shared |
| `MCSessions`, `MCSessionEdits`, `MCEditWork`, `MCTrips`, `MCSchedules`, `MCScheduleWork`, `MCMobileSync`, `MCOffice`, `MCStudy` | small sets, workloads, symmetry | instances for TLC |
| `Sessions_proofs`, `Trips_proofs`, `Schedules_proofs`, `MobileSync_proofs`, `Billing_proofs`, `PersonalPlans_proofs`, `Office_proofs`, `Study_proofs` | the first three and the next three: the module they are named after (`Sessions_proofs` also `SessionEdits`); `Office_proofs`: `Accounts`, `Students`, `Statuses`, `CustomFields`; `Study_proofs`: `Progress`, `Devices`, `Backups` | theorems and their proofs |

### Sessions

The variables `session`, `attendance` and `receipt` are the tables, `active` the
students of an active status, and `request[r]` what the request in slot `r` has
read. A session's row keeps its date, number of the day, flags and version. A
request of one of the seven endpoints goes through the phases of its handler:
"called", "loaded" (the session was read), "dated" (the other sessions of the
day were), "numbered". The writing steps `WriteBatch`, `WriteConfirm`, ... each
hold the whole rest of the handler: the conditional UPDATE (`Matches`), the rows
that go with it, the receipt, the commit, and the refusal when it matches
nothing.

A client may send again what it sent (the request slot keeps its page), so
a batch can be repeated with its Idempotency-Key while the first is in flight.

`SessionLifecycle` says the same without requests: sessions are created, edited
while open, completed when confirmed, and each change adds one to the version.
`Lifecycle` in `Sessions` is its instance over the same two tables, so the
refinement mapping is the identity on them, and all requests are hidden.

### SessionEdits

Adds the endpoints that write through the ORM: what they write is computed from
the rows they read, "version += 1" included. `progress` holds which students
have progress entries in a session, and `seen` the attendance rows and entries a
request has read. A membership edit reads the progress of removed students
before it writes, a deletion reads the session before it deletes, and so on.

### Trips

`lock_trip` makes every change one step. The variables are the five tables;
`check` is the present and past rounds' rows, each with the version of its mark.
`view[o]` is the page of organizer `o`, read by the four SELECTs of
`trip_detail` one at a time. Guests and students of the center are participants;
the limits 1000, 100 and 100 are `MaxPeople`, `MaxGroups` and `MaxRounds`.

### Schedules

`Workers` are the server tasks: a tick reads the list of active schedules, then
takes them one by one; each is locked, generated and committed in one step, or
fails (schedules in `Failing` always do) and is passed over. `Restart` stops a
task anywhere. An administrator's request authenticates (and reads the center's
setting), then runs. Sessions are created by hand, recorded, confirmed,
archived, moved and deleted around the schedules; the receipt of an occurrence
loses its session by ON DELETE SET NULL (`Unlinked`).

### MobileSync

`log` is `sync_changes` as the triggers of revision 02 write it: one entry for each
change of an attendance row, a progress entry, a session or a student (a student's
change of sheikh is one of the student). A device's bootstrap reads table by table
and the cursor last; a page of changes reads its entries and then each entry's row
as it is by then. A batch of queued mutations loads the receipts and the rows,
compares the revisions, and writes; it may be sent again while an earlier attempt
runs, its answer may be lost, or it may die half-way. `missed` is history: the
items that a bootstrap's late cursor, or a change of sheikh, made a device miss.

### Accounts, Billing, Students

A request is two steps: what it reads (`Arrive`, `Queue`, `Fetch`) and what it
makes of it (`Depart`, `Finish`, `Settle`), with a disjunct for each endpoint. The
writing step holds every conditional UPDATE of the handler with its row count, and
the rollback where it is zero. `admitted` in `Accounts` and `made` in `Students`
are history: whom each invitation let in, and which students came of an
application. In `Billing` a page view makes the bills that its month lacks, as
`ensure_subscription_records` does for whoever looks. Each bill has a savepoint; where
the request has written nothing before, the SQLite driver has begun no transaction,
so the savepoint is one and its release commits the bill and gives the lock away:
`View` takes one step for each bill, and a bill may be paid or removed before the
view ends. When a bill meets another's, its savepoint is rolled back and the
transaction stays open, so the rest is one step (`Together`). Requests that have
written something first (a new student, a changed status, changed settings) make
the bills in their own transaction (`Ensured`). In `Students` a warning that is
sent has a step of its own for the provider (`Deliver`, `Refused`).

### Statuses, CustomFields

`Statuses` has one student and a row of sessions in the order of their dates. The
settings are a record `tahfiz`; `StreakStatus`, `PresentStatus`, `AbsentStatus` and
`Color` say what the code takes for a status that is no longer in the list. `noticed` is
history: when the streak last passed its limit an alert was given, or the passing was
not a mark's doing; it is reset when the streak falls back. A request of `CustomFields`
is one action; the values of a field are a word, a number, a date and a truth value in
the form in which they are kept, so that whether a value fits a field is decided, and
not its text.

### Mushaf and Progress

An ayah is its number in the whole book. `ReverseToEnd` is `reverse_to_end` as a
function that is recursive over what remains of the amount; `LinesToEnd` and
`AyahsToEnd` go forward. The revisions of the entries are a set of rows, whose ids, like
those of the entries, are given again when the last ones have been deleted. A batch of
`Progress` reads the session's entry and the plan, and then writes the entry, the
revision and the cursor; a request that sets or drops the plan reads it first, too. The
cursor is kept as it is in the row, a page, or a surah and an ayah, and `Changed` is
what the ORM writes: the columns that differ from what was read. So two batches that
overlap can leave a surah of the one with an ayah of the other. `start` and `covered`
are history: where the plan was set to, and what has been recorded since then.

### PersonalPlans, Devices, Backups, Migrations

A request of `PersonalPlans` decides on the row it has read and writes by an
UPDATE that compares the version of its page; the page may be of any version so
far. `Devices` has an account's `auth_version`, its device sessions and the
counter of failed attempts, which `record_rate_limit` reads once more
(`CountAttempt`) before it writes it (`RecordAttempt`). In `Backups` an archive is opened, filled and closed in
steps of its own, between which the process may die; commits go to the write-ahead
log and a checkpoint brings them into the file. `Migrations` runs the list of
revisions of `migrations/versions`: each statement is left out if its object was
there when the revision began, DDL is kept when the process dies, and a table that
is rebuilt by `batch_alter_table` loses its triggers.

## What the runs check

| run | instance | shows |
|---|---|---|
| `sessions` | one session with a chosen roster, two students, two days, two overlapping requests of seven endpoints, versions to 3; the session is moved to the second day first, if at all | `FreshViews`, `BatchOnce`, `NoLostUpdate`, `SelectedRosterKept`, `ImplementsLifecycle` |
| `edits` | all thirteen endpoints one request at a time; and two overlapping requests that create, move, save and delete | `ProgressFits` and `NoOrphans`: progress is of members and of tracked sessions, and a deletion takes everything along |
| `patch_lock_race` | two requests, one session | that `LockedSessionsStay` does **not** hold with the one-row edits (see Findings) |
| `headcounts` | two of three people, two rounds, limits of two people | `HeadcountIsRoster`, `DependentsAccompanied`, `PastRoundsFrozen` |
| `two_organizers` | two organizers with pages, a student, fees and payments | `PagesAreFresh`, `EditsAsSeen` |
| `mark_race` | two organizers | that a mark may be overwritten unseen (see Findings) |
| `schedules` | two tasks, an administrator and everything that touches a generated session; and two administrators who edit one schedule while the setting changes | `OwnSessions`, `OccurrenceOnce`, `SkipsSpareWork`, `RostersNeverBroaden` |
| `ticks` | two schedules that are made and edited while the setting changes, the first always failing, a restart | `DueIsDecided`, under fairness |
| `mobile` | one device of a sheikh, a log of three entries in pages of two, two bootstraps, one lost answer; or two mutations in two overlapping attempts | `AsNewAsCursor`, `MutationOnce`, `ToldTheTruth`, and `ReplicaCatchesUp` under fairness |
| `office` | `Accounts`, `Billing`, `Students`, `Statuses`, `CustomFields`, a workload at a time | `InvitationOnce`, `HomeOneByOne`, `PaidBillsStay`, `BatchesWhole`, `CurrencyOneByOne`, `OneStudentPerApplication`, `NobodyLosesSheikh`, `ApartOneByOne`, `NoticedUnlessMixed`, `RenamesFollow`, `ValuesInOrder` |
| `study` | `Progress`, `PersonalPlans`, `Devices`, `Backups`, `Migrations`, a workload at a time | `CursorSkipsNothing`, `HistoryOneByOne`, `PortionsWhole`, `DaysFollowItems`, `PlanAsSeen`, `DeviceSessionsCurrent`, `WholeBackupKept`, `UpgradesSurviveCrashes` |
| `triggers_lost` | the upgrade without a crash | that `ChangesStayLogged` does **not** hold (see Findings) |

**Workloads.** `edits`, `schedules`, `mobile`, `office` and `study` begin by
choosing a workload, a part of the instance that is explored by itself: the
components of `office` and `study` share no variables here, and a product of their
states would show nothing more. A property with "OneByOne" in its name speaks of
behaviours in which at most one request is in progress at any time, because it is
*false* when they overlap: the handlers check by a SELECT and write without repeating
the check. What these properties say is that several handlers, each with a check of
its own, keep something true together over any sequence of calls. Four of them are
implications of the form `[]OneVisit => []AccountsAtHome`, so the workloads with
overlapping requests satisfy them trivially; it is the workloads with one request slot
(accounts, bills, periods, students, history) that test them. `ProgressFits` is about one
request at a time where `edits` runs all endpoints, and holds of overlapping ones in
its other workload, which has no change of tracking or membership beside the saves of
progress. Two more properties are implications whose premise lets much overlap, and
their workloads have pairs that meet it and pairs that do not. `CursorSkipsNothing`
is about batches that overlap where the plan goes by pages and is not set meanwhile
(`pages`), and about all plans where requests come one at a time (`ayahs` and `plans`
have both, the latter setting and dropping the plan under a batch).
`NoticedUnlessMixed` is about batches and new sessions however they overlap, while the
settings stay (`SettingsStill`) and a mark of one session comes alone (`MarksAlone`);
`marks` has all pairs. The other properties hold of overlapping requests, and are
checked there.

The workloads of `office`: accounts (two users, two centers, one request at a
time); links (three users, two invitations, two overlapping visits); bills and
billsInPairs (two students, two months, four bills); students, periods and
studentsInPairs (two students, two sheikhs, two periods, three days, one
application, one warning); marks and statuses (three sessions, six names); fields,
categories and forms (two fields, two students, two categories, one applicant). The
workloads of `study`: pages and ayahs (two lessons, two overlapping batches); plans
(the plan set, set anew and dropped, two such requests or one and a batch at a time,
two ids of plans);
history and suggested (one batch at a time, the latter with every unit and amount);
plan (two days, two requests at a time, versions
to 4, two links); devices (one person, two devices, three sessions, one request at a
time; the counter of failed attempts goes to `MaxAttempts`, past the limit); backups (an
interval of 2, a retention of 3, one commit); upgrade (from an empty
database and from the two older states the revisions look for, one crash). The small
book has three surahs, nine ayahs, three pages and six quarters; its fifth ayah is
printed on three lines.

Every state space is exhausted. Deadlock is checked but in `mobile`, `office`,
`study` and `triggers_lost`: there a log, the ids or the revisions of a small
instance are used up and the system really stops.

**Bounds.** Versions are bounded in the guards (no request is sent to a session at
`MaxVersion`; likewise for trips, schedules and plans), so the tables stay finite.
A lost update, a stale check or an ABA needs two actors, one row and at most three
changes of it: a read, a change by another, a change back, and a write. Two
requests, versions up to 3 (Sessions) and 4 or 7 (Trips) cover that. Two students
are enough to tell the rows of a batch from the others. Of three people two can
take part in a trip: a guardian and his dependent, in either role, with a third who
finds it full. `Schedules` has a week of two days and a horizon of one day, so that
today and tomorrow are in the window and the window moves past a day while it is
in it. A log of three entries in pages of two has a page that is cut, one that is
not full, and a change while a page is read. The tables of the small book have what
the rules of a portion depend on: a surah that ends in the middle of a quarter, a
line with the end of one surah, an ayah over several lines, and a last quarter.

**Symmetry** is used on requests, people, groups, organizers and workers where a
module treats them alike, and never in a run with a liveness property. There
(`ticks`) a new session takes the first free id instead: nothing refers to a free
id, so this leaves out only renamed behaviours.

**Fairness.** `ticks` assumes it of the server task (`schedule_loop` runs as long
as the process, sleeps a minute between ticks and catches every exception): weak
fairness of a task's next step, and strong fairness of generating each schedule
that does not raise by itself, as a tick reaches it again and again although edits,
restarts and full tables may come in between. `mobile` assumes that a device that
has begun to read goes on (weak fairness of its next request and of the reads of
the handler that serves it). Administrators, clients who write, restarts and the
calendar are never fair; the restarts are bounded.

## Findings

Three disagreements between the code and what its own messages and documents
say; each is a run that TLC finds violated, and a finding in `PROJECT.json`:

* a one-row edit of attendance checks the session it read and writes without a
  condition, so it can land in a session confirmed meanwhile;
* a participant cancelled and reactivated gets a new headcount mark of version
  1, so a mark from a page that shows the old one is accepted;
* revision 26 rebuilds `quran_progress_entries` and drops with the old table the
  triggers of revision 02, so that from then on changes of progress do not reach
  the devices. `MobileSync` models the log as revision 02 sets it up.

The models also have behaviours that no document rules out but that a maintainer
should know, which is why some properties are about requests one at a time:

* two requests can create a center's only session of a day twice, and two
  refreshes of one token give two device sessions;
* a request that read the multiple-sessions setting before it was switched off
  still generates a selective roster's sessions;
* deleting a session, switching tracking off and removing a member act on what
  they read; progress saved in between loses its row's session, or its member;
* renames that chain (a to b, b to c) merge statuses, as each is an UPDATE over
  what the one before it left;
* a custom field's type may change, a currency be switched, or a period be made,
  between another request's check and its write;
* an invitation can be both used and revoked; the member stays;
* a user who is deleted while making a further center stays a member of it and
  cannot sign in;
* a student who comes to a sheikh while the sheikh is being deleted is left without
  one: the plan was checked before he was among the sheikh's students
  (`NobodyLosesSheikh` says that nobody else can be);
* a platform administrator's grant can turn the last administrator of a center
  into a sheikh, which revoking refuses;
* a bootstrap's cursor is read after its rows, so a change in between stays out
  of the device's copy until the row changes again;
* a restore beside a left-over write-ahead log mixes the archive's state with the
  log's;
* the backup loop sleeps a whole interval after each check, also when the next
  backup is due before, and a half-written archive counts as the latest one;
* an upgrade that dies while a table is being copied leaves `_alembic_tmp_...`
  behind, and the next one stops at it;
* a portion read backward and counted in lines or half pages may count as more than
  its amount: an ayah printed over several lines that the portion goes on behind is
  counted as one line (`PortionsWhole` bounds such a portion from below alone);
* two batches that overlap on a plan by ayahs each write the cursor's columns they
  have changed: from (2, 10) one writes the surah and ayah (3, 1) and the other, which
  has read (2, 10), the ayah 20 alone, which leaves (3, 20): the cursor has passed
  ayahs nobody recited, or names an ayah its surah does not have, so that
  `plan_suggestion` raises. A plan set anew, or dropped and made again, under a batch
  can be left with such a cursor, too;
* a mark of one session compares the streak it read before it waited for the lock
  with the one after its write, so where another change comes in between the limit
  can be passed without an alert (`attendance_streaks.py:67`);
* sign-ins that overlap all find the counter of failed attempts below its limit and
  are then counted one after the other, past it, or fail on the counter's row;
* a page view of a month commits its bills one by one, so a page may show fewer than
  it has made, as some are removed before it ends.

## What is proved

Eight modules, checked by TLAPS for all values of the constants that satisfy the
modules' assumptions (any number of requests, sessions, students, people,
schedules, server tasks, devices, mutations, invitations, bills, fields, ...).

* **Sessions**: `TypeCorrect`, `ViewsAreFresh`, `LostUpdatesExcluded`,
  `LockedSessionsAreSafe`, `BatchesApplyOnce`, `ChosenRosterIsKept` and
  `LifecycleImplemented`. The inductive invariant is `TypeOK /\ InFlight`:
  `InFlight` says that what a request has read agrees with its phase and its call.
  On top of it: `Versioned` (every write to a session's row or attendance adds one
  to its version), from which `FreshViews` follows, because a page of the present
  version can only have been read since the last write; `LostUpdatesExcluded`
  because a write matches the version of the page; `SelectedUpdates` (a batch that
  has been checked writes to members only, if its session is selective), which
  stays true because no other endpoint of `Sessions` changes that roster; and
  `DirectionSeen` (what a reopen or recover has seen is what its call requires),
  which the step simulation of the lifecycle needs for reopening.
* **SessionEdits** (also in `Sessions_proofs`): `EditsCorrectlyTyped` and
  `DeletionsLeaveNothing`, from `EditsInvariant`, which joins the types,
  `NoOrphans` and `RequestsHold` (what a handler holds at each of its awaits).
  Nothing in it says that a held row is still there, as it need not be: the proof
  uses that each write looks again. `ProgressFitsItsSession` is `ProgressFits` where at
  most one request is in progress; its invariant adds that the checks of that request
  still stand (`ChecksStand`). `EditsKeepTheLock` complements the finding about the
  one-row edits: of requests that do not overlap, none writes to a locked session
  (`LockedSessionsStay`, which the run `patch_lock_race` refutes for those that do), and
  every change of a session is exactly one more version of it (`EditedInOrder`, stated
  with the proof), because the row an edit holds is the row of its session, and open,
  until it replies (`StillOpen`).
* **Trips**: `TypeCorrect`, the properties of the runs but `MarksAsSeen`, which
  fails, and three that no run repeats: at most one open round
  (`CurrentRoundIsUnique`), the limits (`LimitsHold`) and that a round starts from
  what its organizer saw (`RoundsStartAsSeen`). The inductive invariant `IInv`
  joins the type invariant, the five state properties and `PagesSound`, which says
  of a page in the middle of its four SELECTs that, if its version is the present
  one, then what it has read so far is present too.
* **Schedules**: `TypeCorrect`, the four safety properties of its run, and
  `ChangesAsSeen`. `GenerateEffect` says once what generating a schedule does,
  `Steps` sums up what any step can do to sessions, receipts and counts, and
  `SchedSteps`, `PageSteps` and `TickSteps` do the same for the other tables.
  The inductive invariant `IInv` is `TypeOK`, `OwnSessions` and
  `OccurrenceOnce` with `TicksExist` (a tick holds only schedules that exist)
  and `PagesSound` (a page of the present version shows the present row).
  `OccurrenceOnce` rests on `OwnSessions`, as skipping follows a receipt to its
  session, and `OwnSessions` is shown as the equality of two relations: the
  session that a receipt names and the session that was made for it.
* **MobileSync**: `TypeCorrect`, `MutationsApplyOnce`, `DevicesAreToldTheTruth`,
  `CopiesAreAsNewAsCursors` and, what no run states, `CopiesAreCurrentAtTheEnd`: a
  device at the end of the log has every row as it may see it, but for what it
  missed. `SyncInvariant` has two halves. `AttemptsOK` says what an attempt has
  read of the receipts, from which the receipts' uniqueness gives the first two.
  `LogOK` says that the log has every change of every item once, in order, up to
  the present state; `DevicesOK` says of a device where it stands (`PlaceOK`), and
  that its copy covers its cursor (`CopyOK`) and the page being read covers that
  page's end (`PageOK`). `Covers` is the part that pages need: the row read for an
  entry of the log may be newer than the entry, never older.
* **Accounts** (in `Office_proofs`): `InvitationsAdmitOne`, with requests that overlap.
  The invariant `LinksInv` adds to `InvitationOnce` the types of the invitations and of
  what a request has seen of them, and `VisitsKnow` (an invitation that a request has
  seen is still there). `ConsumeOnce` is the heart of it: the UPDATE that consumes one
  changes a row whose `used_by` was empty. `AccountsStayAtHome` is `HomeOneByOne`; it is
  carried by `Housed`, which is simpler than the property: an active account has a
  default center and is an active member of it, an inactive one has neither.
* **Students** (in `Office_proofs`): `ApplicationsMakeOneStudent`, with requests
  that overlap, as the claim of an application is a conditional UPDATE; `SheikhsAreKept`,
  with requests that overlap: a plan that has been checked (`PlanStands`) names exactly
  the students that were read and never the sheikh who leaves, so only who joined him
  since can be left behind; and `PeriodsStayApart` one request at a time: what the
  request in progress has found free (`PeriodsHeld`) is still free when it writes.
  `StudentsCorrectlyTyped` and, what no run states, `NothingIsLeftBehind` rest on
  `RowsInvariant`, which joins those invariants with the types of all rows and with
  `RowsOfStudents`: no attendance, period, warning or application is left of a student
  who is gone, as a foreign key refuses what a request that overlaps with his deletion
  would leave (`NobodyLeaves`, `SomeLeave`); nor has any student a sheikh who is gone.
* **Statuses** (in `Office_proofs`): `PassingIsNoticed` is `NoticedUnlessMixed`, of every
  passing and not the first alone. A batch reads the streak when it has the lock, and a
  mark that comes alone has read the streak there is (`CallsRead`), so each compares
  what was with what it makes. It is stated of behaviours in which the settings change
  only between requests (`SettingsStill`) and no other request is in progress beside
  a mark of one session (`MarksAlone`); without the latter it is false.
  `RenamesKeepMeaning` needs no such hypothesis: renames are followed along their list
  (`PathIs`, `PathEnds`) with `Climbing`, induction as a fact about a set, and names that
  are given once, and that no status or mark has, keep statuses apart
  (`RenamesKeepApart`); `RenamedSettings` says what the settings become, so that a mark,
  renamed along, means what it meant. `StatusesCorrectlyTyped` is the type invariant,
  and `ResetsAreConfigured`, which no run states, says under `SettingsStill` that the
  statuses that end a streak are among the center's and never the one that is counted.
* **CustomFields** (in `Office_proofs`): `FieldsTyped` and `ValuesStayInOrder`, where
  the latter is inductive together with the types; `SetValuesInOrder` is the common
  part of the four requests that write values.
* **Billing**: `BillingTyped`, `WhatWasPaidStays`, `BatchesAreWhole` and
  `OneCurrencyAtATime`. New bills are added in the order of their students, a
  function that is recursive over a rank; `LargestId` and `Ranks` show that there
  are a largest id and ranks to add them by, and `AppendedBills` that adding leaves
  the other bills alone. Then one lemma for each request shows `Safe`: the rows stay
  typed and paid bills stay; `ViewGoesOn` and `ViewSafe` that the students a view has
  come to in a transaction are billed by then or gone. `CurrencyInvariant` says that all there is is in the
  center's currency, and that a request about to change it has found nothing.
* **Progress** (in `Study_proofs`): `PlansSkipNothing` is `CursorSkipsNothing`,
  for every book, forward and backward: with batches that overlap where the plan goes
  by pages and is not set meanwhile, and one request at a time where it goes by ayahs
  or is set. `CursorInvariant` says of the plan, and
  of the plan as each batch has read it (`RequestRead`), that all before its cursor is
  recorded. A batch may write a page older than the present one, which is safe, never
  one that skips; by ayahs, what the one request has read is the plan there is, so that the
  columns it writes make a whole cursor (`ChangedIs`, `MovedOnIs`). The surahs of the
  book are counted up with `Climbing`, induction as a fact
  about a set, which the prover can use where the library's rule is out of its reach.
  `ProgressCorrectlyTyped` adds the types of entries and revisions. `HistoriesLeadToNow`
  is `HistoryOneByOne`; its invariant `HistoryInvariant` adds that no number is of two
  entries and that the batch in progress has read the entry there is.
  `SuggestionsAreWhole` is `PortionsWhole` for a book of any surahs, lines and
  quarters: no portion is cut short, in any unit, and in ayahs, quarters, hizbs and juzs
  none counts as more than its amount (it is false of lines and half pages, see
  above, and not claimed). `RecursionHasValue` shows that the recursion over what remains of an amount
  defines a function; a portion is then followed surah by surah: where a segment ends
  and what it uses up (`SegmentIs`, `CostIs`), that the last one is as long as it may be
  (`LastSegmentIsWhole`), and that one before it leaves to the rest what remains
  (`SegmentsAreWhole`, put together by `Climbing` over the amount).
* **PersonalPlans**: `PlansCorrectlyTyped`, `DaysKeepFollowingItems` and
  `PlansChangeAsSeen`. The invariant `PlansInvariant` says of each request in progress
  (`Pending`) that, if the plan is still at the version it has read, then what it is
  about to write fits the plan (`Fits`): a consistent row, and from a visitor a mark on
  an open plan.
* **Devices** (in `Study_proofs`): `DevicesCorrectlyTyped`, the types of rows, versions,
  counters and requests, which says nothing of the limit on failed attempts, and
  `DeviceSessionsStayCurrent`, one request at a time.
* **Backups** (in `Study_proofs`): `BackupsAreKept`, from types, `WholeBackupKept` and
  `PruneAfterBackup` (archives are pruned only when there is a fresh whole one, and
  pruning takes only those older than the retention). It assumes a retention
  longer than the interval, as the defaults of `config.py` (14 days, 24 hours) are.
* **Migrations** (in `Study_proofs`): `UpgradesAreComplete` is `UpgradesSurviveCrashes` for
  any number of crashes, each at any statement. The scripts themselves are concrete, so
  what the proof uses of them is decided by TLC: `RevisionsInOrder` (nothing is added
  twice in a revision, indexes come after their table, a copy is swapped later in the
  same revision, sessions are numbered after they get their column), `StatementsFit`
  and `CoreIsOld`. A revision that broke one of them would be told when TLC starts.
  `UpgradeInvariant` says of a running attempt that
  what it has run or left out is there (`Brought`), also what was found when it began;
  that what it has not found it has made itself (`MadeHere`), so that a
  statement fails only on what an earlier attempt left; and that copies in the making
  are swapped in this attempt (`CopiesGo`), so that only a crash leaves one.

### One request at a time

Eight theorems are about behaviours in which at most one request is in progress at any
time, whichever of the request slots it is in and however many pages clients have
open: `OneRequestAtATime` (twice), `OneVisit`, `OneClerk` (twice), `OneDesk`,
`OneBatch` and `OneCall` say so of a state, and the theorems assume them always. What they conclude is false
of requests that overlap (see the list under "Findings"), because the code reads,
decides and writes without a condition; the theorems say that no sequence of whole
requests breaks it.

| theorem | assumes | concludes |
|---|---|---|
| `ProgressFitsItsSession` | `[]OneRequestAtATime` | `[]ProgressFits` |
| `EditsKeepTheLock` | `[]OneRequestAtATime` | `LockedSessionsStay` and `EditedInOrder` |
| `AccountsStayAtHome` | (in the property) `[]OneVisit` | `HomeOneByOne` |
| `OneCurrencyAtATime` | (in the property) `[]OneDesk` | `CurrencyOneByOne` |
| `PeriodsStayApart` | (in the property) `[]OneClerk` | `ApartOneByOne` |
| `HistoriesLeadToNow` | (in the property) `[]OneBatch` | `HistoryOneByOne` |
| `NobodyComesTooLate` | `[]OneClerk`, `[][ApprovalsWait]_studentsVars` | `[][GoesToAnother]_studentsVars` |
| `DeviceSessionsStayCurrent` | `[]OneCall` | `[]DeviceSessionsCurrent` |

Two theorems assume less than that, and allow much overlap: `PlansSkipNothing`
(`PagesOrOneByOne`) and `PassingIsNoticed` (`SettingsStill` and `MarksAlone`).
`NobodyComesTooLate` also has to say that an application is approved between requests
(`ApprovalsWait`), since approving is one step without a slot. `SheikhsAreKept` and
`DeletionsLeaveNothing` need no such hypothesis.

### Assumptions

The constants' assumptions are named in the modules that declare them and evaluated by
TLC in every run. Most only say that NULL (`None`) is not a student, a row, a role, a
status or a place, that a bound is a number, that the versions of a plan start at 1, or
that a set is finite where the model counts it. Four say something of the code (those of
`Migrations`, see above, have no parameter): backups are kept for longer than the
interval between them; the book is a sequence of one or more surahs of one or more
ayahs; its tables of lines and quarters are sorted, where lines end at the last ayah and
quarters start at the first, no two at the same; and a mutation is queued on one device,
for one row, which its id stands for. Besides, the lists of statuses and of renames in
one request are no longer than there are names (`Lists`).

### Only model-checked

* `DueIsDecided` and `ReplicaCatchesUp`: liveness under fairness.
* `OneSessionPerOccurrence` and all other theorems are of the modules' own
  specifications. The compositions for TLC (`MCOffice`, `MCStudy`, `MCEditWork`,
  `MCScheduleWork`) only choose one of them by a workload.

## Plan

Done: every component with a state of its own has a module, and every safety
property of a run that this prover can reach is a theorem, as above. What would add
most from here:

1. The refinement of `SessionEdits` to a weaker lifecycle, in which an edit without a
   version may land after the confirmation: what remains true of it.
2. The parts of `routers/management.py` that are edits of single rows, should
   they come to depend on one another.

## Not modelled

Reports, saved filters and audit pages (read-only queries, and a user's own list of
filters); the Quran tables (generated data, replaced by a small book); media and
uploads; the contents of tokens and hashing; feedback reports; the seed; the
`migrate()` of `database.py`, which nothing calls; downgrades, which the container
never runs; PostgreSQL. Within the modelled components: names, telephones, notes,
audit entries, images and the wording of refusals; the order in which rows are
listed; time zones other than one; the limit of 200 personal plans, which is
counted before the insert; amounts beyond a few fees; the check of the amount that
a payment repeats. The "note" of each component in `PROJECT.json` says what is left
out of it.
