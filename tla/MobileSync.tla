----------------------------- MODULE MobileSync -----------------------------
(***************************************************************************)
(* Mobile synchronization of one center (routers/sync.py, and the triggers   *)
(* of migrations/versions/20260724_02_mobile_sync.py): every write appends   *)
(* to a change log; devices take a bootstrap, then pages of the log, and     *)
(* send batches of mutations that were queued offline.                       *)
(*                                                                         *)
(* bootstrap is one SELECT per table and then one for the cursor; changes is  *)
(* one SELECT for the entries and then one per entry; a batch reads until its *)
(* first write, from where it holds the write lock to the commit. Each of     *)
(* these is a step. Answers may be lost, and a batch may be sent again while  *)
(* its first attempt still runs.                                            *)
(***************************************************************************)
EXTENDS Integers, Sequences, FiniteSets, SequencesExt

CONSTANTS
    Devices,
    Scope,      \* device -> the sheikh it is restricted to, or None
    Sheikhs,
    Students,
    Mutations,  \* mutation ids
    Owner,      \* mutation -> the device it was queued on
    Target,     \* mutation -> the item it writes
    Attempts,   \* slots for batches in progress at the same time
    PageSize,   \* limit
    Writes,     \* what else this workload does to the tables
    MaxLog,     \* nothing is written when the log has so many entries
    MaxResets,  \* how often a device takes a bootstrap
    MaxLosses,  \* how many answers are lost
    None        \* an absent sheikh, answer, call or queued mutation

\* The rows of one session: itself, the students, and what they do in it. The
\* order is the one in which bootstrap reads the tables.
Kinds == <<"session", "student", "attendance", "progress">>
TheSession == [kind |-> "session", student |-> None]
Items == {TheSession} \cup [kind : {"student", "attendance", "progress"},
                            student : Students]
StudentOf(i) == [kind |-> "student", student |-> i.student]

ASSUME StudentsAssumption == IsFiniteSet(Students)
ASSUME ScopeAssumption == Scope \in [Devices -> Sheikhs \cup {None}]
ASSUME OwnerAssumption == Owner \in [Mutations -> Devices]
ASSUME TargetAssumption ==
    Target \in [Mutations -> [kind : {"attendance", "progress"}, student : Students]]
ASSUME PageSizeAssumption == PageSize \in Nat /\ PageSize > 0

VARIABLES
    row,       \* the tables: item -> whether it is there, revision, history
    open,      \* the session is neither confirmed nor archived
    tracked,   \* the session keeps Quran progress
    assigned,  \* student -> sheikh
    log,       \* sync_changes, in the order of their ids
    receipt,   \* sync_mutation_receipts: mutation -> result, or None
    device,    \* what each device is doing, its cursor and its copy
    queued,    \* mutation -> base_revision, once it is queued; None before
    answer,    \* mutation -> what its device was told, or None
    attempt,   \* the batches in progress
    applied,   \* history: how often each mutation was applied
    missed,    \* history: the items whose changes a device was not told of
    losses     \* how many answers were lost

tables == <<row, open, tracked, assigned, log, receipt>>
vars == <<tables, device, queued, answer, attempt, applied, missed, losses>>

-----------------------------------------------------------------------------
\* A row; stamp is history, the number of changes of the item so far: it tells
\* the states of an item apart, in place of its columns.
Row == [there : BOOLEAN, revision : Nat, stamp : Nat]
Gone(n) == [there |-> FALSE, revision |-> 0, stamp |-> n]
Entry == [item : Items, there : BOOLEAN, stamp : Nat]

\* What a page or a bootstrap that is being built has read so far.
NoCopies == [i \in Items |-> None]
Copies == [Items -> Row \cup {None}]

\* new, idle: the device. reading: bootstrap has read the first `next` tables;
\* paging: the page of the entries up to `upto` is being built.
Device == [phase : {"new", "reading", "paging", "idle"}, cursor : Nat,
           copy : [Items -> Row], next : 0 .. 4, upto : Nat, got : Copies,
           resets : Nat]

Results == {"applied", "conflict", "rejected"}
\* called: nothing read; loaded: the receipts and the session; compared: the
\* row of the first mutation that has no receipt; answered: committed.
Attempt == [phase : {"called", "loaded", "compared", "answered"},
            batch : SUBSET Mutations, first : Mutations \cup {None},
            known : BOOLEAN, open : BOOLEAN, tracked : BOOLEAN, row : Row,
            result : [Mutations -> Results \cup {None}]]
NoResults == [m \in Mutations |-> None]
Rerun(m) == IF row[Target[m]].revision # queued[m] THEN "conflict" ELSE receipt[m]
Replay(m) == receipt[m]

ASSUME NoneAssumption == /\ None \notin Attempt /\ None \notin Results
                         /\ None \notin Nat /\ None \notin Mutations
                         /\ None \notin Sheikhs /\ None \notin Row

TypeOK == /\ row \in [Items -> Row]
          /\ open \in BOOLEAN /\ tracked \in BOOLEAN
          /\ assigned \in [Students -> Sheikhs]
          /\ log \in Seq(Entry)
          /\ receipt \in [Mutations -> Results \cup {None}]
          /\ device \in [Devices -> Device]
          /\ queued \in [Mutations -> Nat \cup {None}]
          /\ answer \in [Mutations -> Results \cup {None}]
          /\ attempt \in [Attempts -> Attempt \cup {None}]
          /\ applied \in [Mutations -> Nat]
          /\ missed \in [Devices -> SUBSET Items]
          /\ losses \in Nat

\* The session and the students are there before the first device.
Init == /\ row = [i \in Items |-> [there |-> i.kind \in {"session", "student"},
                                   revision |-> 0, stamp |-> 0]]
        /\ open = TRUE /\ tracked = TRUE
        /\ assigned \in [Students -> Sheikhs]
        /\ log = <<>>
        /\ receipt = [m \in Mutations |-> None]
        /\ device = [d \in Devices |->
               [phase |-> "new", cursor |-> 0,
                copy |-> [i \in Items |-> Gone(0)],
                next |-> 0, upto |-> 0, got |-> NoCopies, resets |-> 0]]
        /\ queued = [m \in Mutations |-> None]
        /\ answer = [m \in Mutations |-> None]
        /\ attempt = [a \in Attempts |-> None]
        /\ applied = [m \in Mutations |-> 0]
        /\ missed = [d \in Devices |-> {}]
        /\ losses = 0

-----------------------------------------------------------------------------
(* The tables and the log.                                                   *)

\* The triggers AFTER INSERT, UPDATE and DELETE: one entry per changed row.
Logged(order, new) ==
    log \o [n \in DOMAIN order |->
               [item |-> order[n], there |-> new[order[n]].there,
                stamp |-> new[order[n]].stamp]]

Revised(i) == i.kind \in {"attendance", "progress"}
Upserted(i) == [there |-> TRUE, stamp |-> row[i].stamp + 1,
                revision |-> IF Revised(i) THEN row[i].revision + 1 ELSE 0]
Deleted(i) == Gone(row[i].stamp + 1)

\* Sets the rows of `new`, a function on some items, in one transaction.
Commit(new) ==
    /\ Len(log) + Cardinality(DOMAIN new) <= MaxLog
    /\ row' = [i \in Items |-> IF i \in DOMAIN new THEN new[i] ELSE row[i]]
    /\ log' = Logged(SetToSeq(DOMAIN new), new)

\* student_scope_clause: a restricted sheikh sees his students.
Sees(d, st, of) == Scope[d] = None \/ of[st] = Scope[d]
Visible(d, i) == i.kind = "session" \/ Sees(d, i.student, assigned)
Shown(d, i) == IF Visible(d, i) THEN row[i] ELSE Gone(row[i].stamp)

-----------------------------------------------------------------------------
(* What the rest of the application does to the tables.                      *)

Unchanged == UNCHANGED <<receipt, device, queued, answer, attempt, applied, losses>>

\* A row is inserted or updated; rows of a session and of a student need both.
Write(i) ==
    /\ i.kind \in Writes
    /\ Revised(i) =>
          row[TheSession].there /\ row[StudentOf(i)].there
    /\ Commit([j \in {i} |-> Upserted(j)])
    /\ UNCHANGED <<open, tracked, assigned, missed>> /\ Unchanged

\* Deleting a session or a student takes its rows along.
Below(i) == {j \in Items : /\ row[j].there
                           /\ \/ j = i
                              \/ Revised(j) /\ (i = TheSession \/ i = StudentOf(j))}
Delete(i) ==
    /\ "delete" \in Writes
    /\ row[i].there
    /\ Commit([j \in Below(i) |-> Deleted(j)])
    /\ UNCHANGED <<open, tracked, assigned, missed>> /\ Unchanged

\* Confirming, archiving and recovering, and switching tracking.
SwitchSession ==
    /\ "switch" \in Writes
    /\ row[TheSession].there
    /\ \/ open' = ~open /\ UNCHANGED tracked
       \/ tracked' = ~tracked /\ UNCHANGED open
    /\ Commit([j \in {TheSession} |-> Upserted(j)])
    /\ UNCHANGED <<assigned, missed>> /\ Unchanged

\* A student gets another sheikh: only the student's row changes, so a device
\* is not told of the other rows it now sees, or no longer sees.
Assign(st, sh) ==
    LET i == [kind |-> "student", student |-> st]
        turns == {d \in Devices : Sees(d, st, assigned)
                                     # Sees(d, st, [assigned EXCEPT ![st] = sh])}
    IN /\ "assign" \in Writes
       /\ row[i].there
       /\ assigned[st] # sh
       /\ assigned' = [assigned EXCEPT ![st] = sh]
       /\ Commit([j \in {i} |-> Upserted(j)])
       /\ missed' = [d \in Devices |->
              IF d \in turns
              THEN missed[d] \cup {j \in Items : j.student = st /\ j # i}
              ELSE missed[d]]
       /\ UNCHANGED <<open, tracked>> /\ Unchanged

-----------------------------------------------------------------------------
(* bootstrap.                                                                *)

StartBootstrap(d) ==
    /\ device[d].phase \in {"new", "idle"}
    /\ device[d].resets < MaxResets
    /\ device' = [device EXCEPT ![d].phase = "reading", ![d].next = 0,
                                ![d].got = NoCopies, ![d].resets = @ + 1]
    /\ UNCHANGED <<tables, queued, answer, attempt, applied, missed, losses>>

\* Rows of a session or a student that an earlier SELECT did not return are
\* left out.
Returned(d, i) ==
    LET got == device[d].got
    IN /\ row[i].there
       /\ Visible(d, i)
       /\ Revised(i) =>
             got[TheSession].there /\ got[StudentOf(i)].there

ReadTable(d) ==
    LET kind == Kinds[device[d].next + 1]
        read == [i \in {j \in Items : j.kind = kind} |->
                    IF Returned(d, i) THEN row[i] ELSE Gone(row[i].stamp)]
    IN /\ device[d].phase = "reading"
       /\ device[d].next < Len(Kinds)
       /\ device' = [device EXCEPT ![d].next = @ + 1, ![d].got = [j \in Items |-> IF j \in DOMAIN read THEN read[j] ELSE @[j]]]
       /\ UNCHANGED <<tables, queued, answer, attempt, applied, missed, losses>>

\* current_cursor is read last: what was committed since a table was read is
\* neither in the rows nor after the cursor.
CursorAfterRows == Len(log)
FinishBootstrap(d) ==
    LET got == device[d].got
    IN /\ device[d].phase = "reading"
       /\ device[d].next = Len(Kinds)
       /\ device' = [device EXCEPT ![d].phase = "idle", ![d].cursor = CursorAfterRows,
                                   ![d].copy = got, ![d].got = NoCopies,
                                   ![d].next = 0]
       /\ missed' = [missed EXCEPT ![d] =
              {i \in Items : got[i] # Shown(d, i)}]
       /\ UNCHANGED <<tables, queued, answer, attempt, applied, losses>>

\* The answer to bootstrap or changes is lost: the device goes on as before.
LoseAnswer(d) ==
    /\ device[d].phase \in {"reading", "paging"}
    /\ losses < MaxLosses
    /\ losses' = losses + 1
    /\ device' = [device EXCEPT
           ![d].phase = IF device[d].phase = "reading" /\ device[d].resets = 1
                        THEN "new" ELSE "idle",
           ![d].resets = IF device[d].phase = "reading" THEN @ - 1 ELSE @,
           ![d].next = 0, ![d].upto = 0, ![d].got = NoCopies]
    /\ UNCHANGED <<tables, queued, answer, attempt, applied, missed>>

-----------------------------------------------------------------------------
(* changes.                                                                  *)

\* The entries after the cursor, at most PageSize of them.
PageShort(cursor) == IF Len(log) - cursor > PageSize THEN cursor + PageSize ELSE cursor
PageEnd(cursor) == IF cursor + PageSize < Len(log) THEN cursor + PageSize ELSE Len(log)
Page(d) == device[d].cursor + 1 .. device[d].upto
InPage(d) == {log[n].item : n \in Page(d)}
LastIn(d, i) == CHOOSE n \in Page(d) :
                    log[n].item = i /\ \A m \in Page(d) : log[m].item = i => m <= n

\* The rows the page needs: a deletion has no payload.
Wanted(d) == {log[n].item : n \in {m \in Page(d) : log[m].there}}

StartPage(d) ==
    /\ device[d].phase = "idle"
    /\ device[d].cursor < Len(log)
    /\ device' = [device EXCEPT ![d].phase = "paging", ![d].upto = PageEnd(device[d].cursor)]
    /\ UNCHANGED <<tables, queued, answer, attempt, applied, missed, losses>>

\* change_payload reads the row as it is now; one that is gone, or that the
\* device's user does not see, is sent as a deletion.
ReadPayload(d, i) ==
    LET read == [j \in {i} |-> Shown(d, j)]
    IN /\ device[d].phase = "paging"
       /\ i \in Wanted(d) /\ device[d].got[i] = None
       /\ device' = [device EXCEPT ![d].got = [j \in Items |-> IF j \in DOMAIN read THEN read[j] ELSE @[j]]]
       /\ UNCHANGED <<tables, queued, answer, attempt, applied, missed, losses>>

\* The device takes the page over, entry by entry: the last one of an item
\* decides. next_cursor is the last entry's id.
Received(d, i) == IF log[LastIn(d, i)].there
                  THEN device[d].got[i]
                  ELSE Gone(log[LastIn(d, i)].stamp)
ToTheEnd(d) == Len(log)
NextCursor(d) == device[d].upto
FinishPage(d) ==
    /\ device[d].phase = "paging"
    /\ \A i \in Wanted(d) : device[d].got[i] # None
    /\ device' = [device EXCEPT
           ![d].phase = "idle", ![d].cursor = NextCursor(d),
           ![d].copy = [i \in Items |->
               IF i \in InPage(d) THEN Received(d, i) ELSE @[i]],
           ![d].upto = 0, ![d].got = NoCopies]
    /\ missed' = [missed EXCEPT ![d] =
           {i \in @ : i \in InPage(d) => Received(d, i) # Shown(d, i)}]
    /\ UNCHANGED <<tables, queued, answer, attempt, applied, losses>>

-----------------------------------------------------------------------------
(* mutations.                                                                *)

\* An edit made on the device, against what it has of the row.
Queue(m) ==
    LET d == Owner[m]
    IN /\ queued[m] = None
       /\ device[d].phase = "idle"
       /\ device[d].copy[TheSession].there
       /\ queued' = [queued EXCEPT ![m] = device[d].copy[Target[m]].revision]
       /\ UNCHANGED <<tables, device, attempt, answer, applied, missed, losses>>

\* The device sends mutations that it has no answer for, for the first time or
\* again, each for another row.
Send(a, B) ==
    /\ attempt[a] = None
    /\ \E d \in Devices : \A m \in B :
           Owner[m] = d /\ queued[m] # None /\ answer[m] = None
    /\ \A m, n \in B : Target[m] = Target[n] => m = n
    /\ attempt' = [attempt EXCEPT ![a] =
           [phase |-> "called", batch |-> B, first |-> None, known |-> FALSE,
            open |-> FALSE, tracked |-> FALSE, row |-> Gone(0), result |-> NoResults]]
    /\ UNCHANGED <<tables, device, queued, answer, applied, missed, losses>>

Known(m) == /\ row[TheSession].there
            /\ row[StudentOf(Target[m])].there
            /\ Sees(Owner[m], Target[m].student, assigned)

\* The mutations before the first one without a receipt are replayed; of that
\* one the receipt, the session and the student are read.
Load(a) ==
    LET B == attempt[a].batch
    IN /\ attempt[a] # None /\ attempt[a].phase = "called"
       /\ \/ \E m \in B :
                /\ receipt[m] = None
                /\ attempt' = [attempt EXCEPT
                       ![a].phase = "loaded", ![a].first = m, ![a].known = Known(m),
                       ![a].open = open, ![a].tracked = tracked]
          \/ /\ \A m \in B : receipt[m] # None
             /\ attempt' = [attempt EXCEPT
                    ![a].phase = "answered", ![a].result = [m \in Mutations |-> IF m \in B THEN Replay(m) ELSE None]]
       /\ UNCHANGED <<tables, device, queued, answer, applied, missed, losses>>

\* The row is read, to compare its revision with base_revision.
Compare(a) ==
    /\ attempt[a] # None /\ attempt[a].phase = "loaded"
    /\ attempt' = [attempt EXCEPT ![a].phase = "compared",
                                  ![a].row = row[Target[attempt[a].first]]]
    /\ UNCHANGED <<tables, device, queued, answer, applied, missed, losses>>

\* apply_attendance and apply_progress, on what the handler has read. The
\* session is read once, then the ORM returns the same object again.
Result(a, m) ==
    LET early == m = attempt[a].first
        known == IF early THEN attempt[a].known ELSE Known(m)
        seen  == IF early THEN attempt[a].row ELSE row[Target[m]]
    IN CASE ~known                       -> "rejected"
         [] ~attempt[a].open             -> "rejected"
         [] Target[m].kind = "progress" /\ ~attempt[a].tracked -> "rejected"
         [] seen.revision # queued[m]    -> "conflict"
         [] OTHER                        -> "applied"

\* UNIQUE (tahfiz_id, mutation_id), and the rows the handler has read are still
\* there or still missing: otherwise the batch is rolled back as a whole.
NoUniqueIndex(m) == TRUE
ReceiptFree(m) == receipt[m] = None
Applicable(a) ==
    LET m == attempt[a].first
        i == Target[m]
    IN /\ ReceiptFree(m)
       /\ Result(a, m) = "applied" =>
             /\ row[i].there = attempt[a].row.there
             /\ row[TheSession].there /\ row[StudentOf(i)].there

\* The first mutation is computed from the rows read before the write lock, the
\* others from the present ones.
Overwritten(a, m) ==
    LET seen == IF m = attempt[a].first THEN attempt[a].row ELSE row[Target[m]]
    IN [there |-> TRUE, revision |-> seen.revision + 1, stamp |-> row[Target[m]].stamp + 1]

WriteBatch(a) ==
    LET at   == attempt[a]
        B    == at.batch
        runs == {m \in B : receipt[m] = None \/ m = at.first}
        done == {m \in runs : Result(a, m) = "applied"}
        versioned == IF \E m \in done : Target[m].kind = "attendance"
                     THEN {TheSession} ELSE {}
        new  == [i \in {Target[m] : m \in done} \cup versioned |->
                    IF i = TheSession THEN Upserted(i)
                    ELSE Overwritten(a, CHOOSE m \in done : Target[m] = i)]
        result == [m \in Mutations |-> IF m \in runs THEN Result(a, m)
                                    ELSE IF m \in B THEN Replay(m) ELSE None]
    IN /\ at # None /\ at.phase = "compared"
       /\ Applicable(a)
       /\ Commit(new)
       /\ receipt' = [m \in Mutations |-> IF m \in runs THEN result[m] ELSE receipt[m]]
       /\ applied' = [m \in Mutations |-> applied[m] + IF m \in done THEN 1 ELSE 0]
       /\ attempt' = [attempt EXCEPT ![a].phase = "answered", ![a].result = result]
       /\ UNCHANGED <<open, tracked, assigned, device, queued, answer, missed, losses>>

\* The handler raises, and is rolled back.
RollBack(a) ==
    /\ attempt[a] # None /\ attempt[a].phase = "compared"
    /\ ~Applicable(a)
    /\ attempt' = [attempt EXCEPT ![a] = None]
    /\ UNCHANGED <<tables, device, queued, answer, applied, missed, losses>>

Deliver(a) ==
    /\ attempt[a] # None /\ attempt[a].phase = "answered"
    /\ answer' = [m \in Mutations |-> IF m \in attempt[a].batch
                                      THEN attempt[a].result[m] ELSE answer[m]]
    /\ attempt' = [attempt EXCEPT ![a] = None]
    /\ UNCHANGED <<tables, device, queued, applied, missed, losses>>

\* The machine stops in the middle, or the answer is lost.
Lose(a) ==
    /\ attempt[a] # None
    /\ losses < MaxLosses
    /\ losses' = losses + 1
    /\ attempt' = [attempt EXCEPT ![a] = None]
    /\ UNCHANGED <<tables, device, queued, answer, applied, missed>>

-----------------------------------------------------------------------------
Poll(d) == \/ ReadTable(d) \/ FinishBootstrap(d)
           \/ StartPage(d) \/ FinishPage(d)
           \/ \E i \in Items : ReadPayload(d, i)

Synchronize == \E d \in Devices : StartBootstrap(d) \/ Poll(d) \/ LoseAnswer(d)
Application == \/ \E i \in Items : Write(i) \/ Delete(i)
               \/ SwitchSession
               \/ \E st \in Students, sh \in Sheikhs : Assign(st, sh)
Mutate == \/ \E m \in Mutations : Queue(m)
          \/ \E a \in Attempts, B \in (SUBSET Mutations) \ {{}} : Send(a, B)
          \/ \E a \in Attempts : \/ Load(a) \/ Compare(a) \/ WriteBatch(a)
                                 \/ RollBack(a) \/ Deliver(a) \/ Lose(a)
Next == Synchronize \/ Application \/ Mutate

Spec == Init /\ [][Next]_vars

\* A device that has begun keeps asking; nobody else has to act.
FairSpec == Spec /\ \A d \in Devices : WF_vars(Poll(d))

-----------------------------------------------------------------------------
(* Properties.                                                               *)

\* However often a mutation is sent, while earlier attempts run or after their
\* answers were lost: it is applied once if its receipt says so, never otherwise.
MutationOnce ==
    \A m \in Mutations : applied[m] = IF receipt[m] = "applied" THEN 1 ELSE 0

\* What a device was told of a mutation is what happened to it.
ToldTheTruth ==
    \A m \in Mutations : answer[m] # None => answer[m] = receipt[m]

\* The last state of an item that the log has up to an entry.
LastStamp(i, n) ==
    LET stamps == {log[k].stamp : k \in {j \in 1 .. n : log[j].item = i}}
    IN IF stamps = {} THEN 0 ELSE Max(stamps)

\* A device has of every item a state at least as new as its cursor, and what
\* it has is what the item was then; but for what a bootstrap or a change of
\* sheikh made it miss. Pages are cut anywhere and their rows read one by one.
AsNewAsCursor ==
    \A d \in Devices : device[d].phase \in {"idle", "paging"} =>
        \A i \in Items \ missed[d] :
            LET copy == device[d].copy[i]
            IN /\ LastStamp(i, device[d].cursor) <= copy.stamp
               /\ copy.stamp = row[i].stamp => copy = Shown(d, i)

\* A device that has begun gets to the end of the log again and again: MaxLog
\* makes the writers pause at last.
CatchesUp ==
    \A d \in Devices :
        []<>(device[d].phase = "new" \/ device[d].cursor = Len(log))
=============================================================================
