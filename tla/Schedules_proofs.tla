--------------------------- MODULE Schedules_proofs ---------------------------
(***************************************************************************)
(* Proofs about Schedules: its type invariant, and that an occurrence gets   *)
(* one session, receipts and sessions belong together, skipping spares       *)
(* recorded work, no roster broadens and nobody edits a schedule unseen.     *)
(***************************************************************************)
EXTENDS Schedules, TLAPS

-----------------------------------------------------------------------------
(* What the operators return.                                                *)

\* A schedule as an administrator sends it is a row of the table.
LEMMA BodyRow ==
    ASSUME NEW body \in Bodies, NEW v \in Nat
    PROVE  /\ WithVersion(body, v) \in Row
           /\ WithVersion(body, v).version = v
<1>1. body \in Body
  BY BodiesAssumption
<1>2. QED
  BY <1>1 DEF Body, Row, WithVersion

\* A generated session has students of the center.
LEMMA RosterTyped ==
    ASSUME TypeOK, NEW row \in Row, NEW several \in BOOLEAN
    PROVE  RosterFor(row, several) \in SUBSET Students
BY DEF TypeOK, RosterFor, Chosen, Row

\* A new session is a row of the sessions table.
LEMMA SessionTyped ==
    ASSUME NEW d \in Dates, NEW S \in SUBSET Students,
           NEW maker \in (Schedules \X Dates) \cup {None}
    PROVE  /\ NewSession(d, S, maker) \in SessionRow
           /\ NewSession(d, S, maker) # None
           /\ NewSession(d, S, maker).maker = maker
           /\ NewSession(d, S, maker).roster = S
<1>1. NewSession(d, S, maker) \in SessionRow
  BY DEF NewSession, SessionRow
<1>2. QED
  BY <1>1, NoneAssumption DEF NewSession

\* What generating a schedule does: each of the days gets a session of its own
\* under a free key, and a receipt; other days may become conflicts.
Effect(k, row, several, days, id) ==
    /\ days \subseteq Dates
    /\ days = Creates(k, row, several)
    /\ id \in [days -> SessionIds \ Existing]
    /\ \A c, d \in days : id[c] = id[d] => c = d
    /\ \A d \in days : receipt[k][d] = None
    /\ session' \in [SessionIds -> SessionRow \cup {None}]
    /\ \A s \in SessionIds : (\A d \in days : id[d] # s) => session'[s] = session[s]
    /\ \A d \in days :
          session'[id[d]] = NewSession(d, RosterFor(row, several), <<k, d>>)
    /\ receipt' \in [Schedules -> [Dates -> Receipt \cup {None}]]
    /\ \A d \in days : receipt'[k][d] = [status |-> "created", session |-> id[d]]
    /\ \A d \in Dates \ days :
          \/ receipt'[k][d] = receipt[k][d]
          \/ /\ receipt[k][d] = None
             /\ receipt'[k][d] = [status |-> "conflict", session |-> None]
    /\ \A j \in Schedules \ {k} : receipt'[j] = receipt[j]
    /\ made' \in [Schedules -> [Dates -> Nat]]
    /\ \A d \in days : made'[k][d] = made[k][d] + 1
    /\ \A d \in Dates \ days : made'[k][d] = made[k][d]
    /\ \A j \in Schedules \ {k} : made'[j] = made[j]

LEMMA GenerateEffect ==
    ASSUME TypeOK, NEW k \in Schedules, NEW row \in Row, NEW several \in BOOLEAN,
           Generate(k, row, several)
    PROVE  \E days, id : Effect(k, row, several, days, id)
<1> DEFINE days == Creates(k, row, several)
           conflicts == Conflicts(k, row, several)
<1>1. PICK id \in Injection(days, SessionIds \ Existing) :
        /\ session' = [s \in SessionIds |->
               IF \E d \in days : id[d] = s
               THEN LET d == CHOOSE d \in days : id[d] = s
                    IN NewSession(d, RosterFor(row, several), <<k, d>>)
               ELSE session[s]]
        /\ receipt' = [receipt EXCEPT ![k] = [d \in Dates |->
               IF d \in days THEN [status |-> "created", session |-> id[d]]
               ELSE IF d \in conflicts THEN [status |-> "conflict", session |-> None]
               ELSE receipt[k][d]]]
        /\ made' = [made EXCEPT ![k] = [d \in Dates |->
               IF d \in days THEN made[k][d] + 1 ELSE made[k][d]]]
  BY DEF Generate
<1>2. /\ id \in [days -> SessionIds \ Existing]
      /\ \A c, d \in days : id[c] = id[d] => c = d
  BY DEF Injection, IsInjective
<1>3. /\ days \subseteq Dates /\ conflicts \subseteq Dates
      /\ \A d \in days \cup conflicts : receipt[k][d] = None
      /\ \A d \in days : d \notin conflicts
  BY DEF Creates, Conflicts, Undecided, OccurrenceDates, ReceiptOf
<1> DEFINE new(d) == NewSession(d, RosterFor(row, several), <<k, d>>)
<1>4. \A d \in days : new(d) \in SessionRow
  BY <1>3, RosterTyped, SessionTyped
<1> HIDE DEF days, conflicts, new
<1>5. /\ \A s \in SessionIds : (\A d \in days : id[d] # s) => session'[s] = session[s]
      /\ \A d \in days : session'[id[d]] = new(d)
      /\ session' \in [SessionIds -> SessionRow \cup {None}]
  <2>1. session' = [s \in SessionIds |-> IF \E d \in days : id[d] = s
                       THEN new(CHOOSE d \in days : id[d] = s) ELSE session[s]]
    BY <1>1 DEF new
  <2>2. \A d \in days : (CHOOSE c \in days : id[c] = id[d]) = d
    BY <1>2
  <2>3. \A d \in days : session'[id[d]] = new(d)
    BY <1>2, <2>1, <2>2
  <2>4. \A s \in SessionIds : (\A d \in days : id[d] # s) => session'[s] = session[s]
    BY <2>1
  <2>5. \A s \in SessionIds : session'[s] \in SessionRow \cup {None}
    BY <1>4, <2>3, <2>4 DEF TypeOK
  <2>6. QED
    BY <2>1, <2>3, <2>4, <2>5
<1>6. /\ receipt' \in [Schedules -> [Dates -> Receipt \cup {None}]]
      /\ \A d \in days : receipt'[k][d] = [status |-> "created", session |-> id[d]]
      /\ \A d \in Dates \ days :
            \/ receipt'[k][d] = receipt[k][d]
            \/ /\ receipt[k][d] = None
               /\ receipt'[k][d] = [status |-> "conflict", session |-> None]
      /\ \A j \in Schedules \ {k} : receipt'[j] = receipt[j]
  <2> DEFINE f == [d \in Dates |->
               IF d \in days THEN [status |-> "created", session |-> id[d]]
               ELSE IF d \in conflicts THEN [status |-> "conflict", session |-> None]
               ELSE receipt[k][d]]
  <2>1. \A d \in days : [status |-> "created", session |-> id[d]] \in Receipt
    BY <1>2 DEF Receipt
  <2>2. [status |-> "conflict", session |-> None] \in Receipt
    BY DEF Receipt
  <2>3. f \in [Dates -> Receipt \cup {None}]
    BY <2>1, <2>2 DEF TypeOK
  <2>4. /\ \A d \in days : f[d] = [status |-> "created", session |-> id[d]]
        /\ \A d \in Dates \ days :
              \/ f[d] = receipt[k][d]
              \/ /\ receipt[k][d] = None
                 /\ f[d] = [status |-> "conflict", session |-> None]
    BY <1>3
  <2>5. receipt' = [receipt EXCEPT ![k] = f]
    BY <1>1
  <2> HIDE DEF f
  <2>6. QED
    BY <2>3, <2>4, <2>5 DEF TypeOK
<1>7. /\ made' \in [Schedules -> [Dates -> Nat]]
      /\ \A d \in days : made'[k][d] = made[k][d] + 1
      /\ \A d \in Dates \ days : made'[k][d] = made[k][d]
      /\ \A j \in Schedules \ {k} : made'[j] = made[j]
  <2> DEFINE f == [d \in Dates |->
                      IF d \in days THEN made[k][d] + 1 ELSE made[k][d]]
  <2>1. f \in [Dates -> Nat]
    BY DEF TypeOK
  <2>2. /\ \A d \in days : f[d] = made[k][d] + 1
        /\ \A d \in Dates \ days : f[d] = made[k][d]
    BY <1>3
  <2>3. made' = [made EXCEPT ![k] = f]
    BY <1>1
  <2> HIDE DEF f
  <2>4. QED
    BY <1>3, <2>1, <2>2, <2>3 DEF TypeOK
<1>8. Effect(k, row, several, days, id)
  BY <1>2, <1>3, <1>5, <1>6, <1>7 DEF Effect, days, new
<1>9. QED
  BY <1>8

-----------------------------------------------------------------------------
(* What the steps do to the tables, and the type invariant.                  *)

\* A tick only holds schedules that exist: schedules are never deleted.
TicksExist == \A w \in Workers : \A k \in tick[w] : sched[k] # None

\* A page shows its schedule at some version, and at the present version it
\* shows the present row.
PageSound(p) == LET now == sched[p.schedule] IN
                /\ now # None
                /\ p.row.version <= now.version
                /\ p.row.version = now.version => p.row = now
PagesSound == \A a \in Admins : page[a] # None => PageSound(page[a])

\* The ways in which a step can change the sessions, receipts and counts.
EditOne(s) == /\ session[s] # None
              /\ \E row \in SessionRow : /\ row.maker = session[s].maker
                                         /\ session' = [session EXCEPT ![s] = row]
              /\ UNCHANGED <<receipt, made, sched>>

LEMMA EditsOne ==
    ASSUME TypeOK, NEW s \in Existing,
           \/ SaveAttendance(s) \/ SaveProgress(s)
           \/ \E d \in Dates : ChangeDate(s, d)
           \/ SetConfirmed(s) \/ SetArchived(s)
    PROVE  /\ s \in SessionIds /\ EditOne(s)
           /\ UNCHANGED <<center, sched, receipt, made, clients, tick, restarts>>
<1>1. s \in SessionIds /\ session[s] \in SessionRow /\ session[s] # None
  BY DEF Existing, TypeOK
<1> DEFINE row == session[s]
<1>2. CASE SaveAttendance(s)
  <2> DEFINE new == [row EXCEPT !.marked = TRUE, !.versioned = TRUE]
  <2>1. new \in SessionRow /\ new.maker = row.maker
    BY <1>1 DEF SessionRow
  <2>2. session' = [session EXCEPT ![s] = new]
    BY <1>2 DEF SaveAttendance, Stores
  <2> HIDE DEF new
  <2>3. QED
    BY <1>1, <1>2, <2>1, <2>2 DEF EditOne, SaveAttendance, Stores
<1>3. CASE SaveProgress(s)
  <2> DEFINE new == [row EXCEPT !.progress = TRUE]
  <2>1. new \in SessionRow /\ new.maker = row.maker
    BY <1>1 DEF SessionRow
  <2>2. session' = [session EXCEPT ![s] = new]
    BY <1>3 DEF SaveProgress, Stores
  <2> HIDE DEF new
  <2>3. QED
    BY <1>1, <1>3, <2>1, <2>2 DEF EditOne, SaveProgress, Stores
<1>4. ASSUME NEW d \in Dates, ChangeDate(s, d)
      PROVE  /\ EditOne(s)
             /\ UNCHANGED <<center, sched, receipt, made, clients, tick, restarts>>
  <2> DEFINE new == [row EXCEPT !.date = d, !.versioned = TRUE]
  <2>1. new \in SessionRow /\ new.maker = row.maker
    BY <1>1 DEF SessionRow
  <2>2. session' = [session EXCEPT ![s] = new]
    BY <1>4 DEF ChangeDate, Stores
  <2> HIDE DEF new
  <2>3. QED
    BY <1>1, <1>4, <2>1, <2>2 DEF EditOne, ChangeDate, Stores
<1>5. CASE SetConfirmed(s)
  <2> DEFINE new == [row EXCEPT !.confirmed = ~@, !.versioned = TRUE]
  <2>1. new \in SessionRow /\ new.maker = row.maker
    BY <1>1 DEF SessionRow
  <2>2. session' = [session EXCEPT ![s] = new]
    BY <1>5 DEF SetConfirmed, Stores
  <2> HIDE DEF new
  <2>3. QED
    BY <1>1, <1>5, <2>1, <2>2 DEF EditOne, SetConfirmed, Stores
<1>6. CASE SetArchived(s)
  <2> DEFINE new == [row EXCEPT !.archived = ~@, !.versioned = TRUE]
  <2>1. new \in SessionRow /\ new.maker = row.maker
    BY <1>1 DEF SessionRow
  <2>2. session' = [session EXCEPT ![s] = new]
    BY <1>6 DEF SetArchived, Stores
  <2> HIDE DEF new
  <2>3. QED
    BY <1>1, <1>6, <2>1, <2>2 DEF EditOne, SetArchived, Stores
<1>7. QED
  BY <1>1, <1>2, <1>3, <1>4, <1>5, <1>6

\* A deletion leaves every receipt's status, and unlinks those of the session.
LEMMA UnlinkedTyped ==
    ASSUME TypeOK, NEW s \in SessionIds
    PROVE  /\ Unlinked(s) \in [Schedules -> [Dates -> Receipt \cup {None}]]
           /\ \A k \in Schedules, d \in Dates :
                 LET now == receipt[k][d]
                     new == Unlinked(s)[k][d]
                 IN IF now # None /\ now.session = s
                    THEN /\ new # None /\ new.status = now.status
                         /\ new.session = None
                    ELSE new = now
<1> DEFINE new(k, d) == IF receipt[k][d] # None /\ receipt[k][d].session = s
                        THEN [receipt[k][d] EXCEPT !.session = None]
                        ELSE receipt[k][d]
<1>1. ASSUME NEW k \in Schedules, NEW d \in Dates
      PROVE  /\ new(k, d) \in Receipt \cup {None}
             /\ receipt[k][d] # None /\ receipt[k][d].session = s =>
                   /\ new(k, d) # None
                   /\ new(k, d).status = receipt[k][d].status
                   /\ new(k, d).session = None
  <2>1. receipt[k][d] \in Receipt \cup {None}
    BY DEF TypeOK
  <2>2. QED
    BY <2>1, NoneAssumption DEF Receipt
<1>2. \A k \in Schedules, d \in Dates : Unlinked(s)[k][d] = new(k, d)
  BY DEF Unlinked
<1>3. Unlinked(s) \in [Schedules -> [Dates -> Receipt \cup {None}]]
  BY <1>1 DEF Unlinked
<1>4. \A k \in Schedules, d \in Dates :
         ~(receipt[k][d] # None /\ receipt[k][d].session = s)
            => new(k, d) = receipt[k][d]
  OBVIOUS
<1> HIDE DEF new
<1>5. QED
  BY <1>1, <1>2, <1>3, <1>4

\* Skipping a day archives its session, if there is one and it is untouched,
\* and marks the day's receipt.
SkipEffect(k, d) ==
    LET r == receipt[k][d] IN
    /\ receipt' \in [Schedules -> [Dates -> Receipt \cup {None}]]
    /\ receipt'[k][d] # None /\ receipt'[k][d].status = "skipped"
    /\ receipt'[k][d].session = IF r = None THEN None ELSE r.session
    /\ \A j \in Schedules, e \in Dates : j # k \/ e # d => receipt'[j][e] = receipt[j][e]
    /\ \/ UNCHANGED session
       \/ /\ r # None /\ r.session \in SessionIds
          /\ session[r.session] # None
          /\ Untouched(session[r.session])
          /\ \E row \in SessionRow :
                /\ row.maker = session[r.session].maker
                /\ session' = [session EXCEPT ![r.session] = row]
    /\ made' = made

LEMMA SkipsOne ==
    ASSUME TypeOK, OwnSessions, NEW a \in Admins, NEW k \in Schedules,
           NEW d \in Dates, SkipOccurrence(a, k, d)
    PROVE  SkipEffect(k, d)
<1> DEFINE r == receipt[k][d]
           live == r # None /\ r.status = "created" /\ r.session # None
           new == [status |-> "skipped", session |-> IF r = None THEN None ELSE r.session]
<1>1. r \in Receipt \cup {None}
  BY DEF TypeOK
<1>2. new \in Receipt /\ new.status = "skipped"
      /\ new.session = IF r = None THEN None ELSE r.session
  BY <1>1, NoneAssumption DEF Receipt
<1>3. receipt' = [receipt EXCEPT ![k][d] = new]
  BY DEF SkipOccurrence
<1> HIDE DEF new
<1>4. /\ receipt' \in [Schedules -> [Dates -> Receipt \cup {None}]]
      /\ receipt'[k][d] = new
      /\ \A j \in Schedules, e \in Dates : j # k \/ e # d => receipt'[j][e] = receipt[j][e]
  BY <1>2, <1>3 DEF TypeOK
<1>5. new # None
  BY <1>2, NoneAssumption
<1>6. CASE ~live
  BY <1>2, <1>4, <1>5, <1>6 DEF SkipEffect, SkipOccurrence
<1>7. CASE live
  <2> DEFINE s == r.session
             old == session[s]
             row == [old EXCEPT !.archived = TRUE, !.versioned = TRUE]
  <2>1. s \in SessionIds /\ old # None /\ old \in SessionRow
    BY <1>1, <1>7 DEF Receipt, OwnSessions, TypeOK
  <2>2. row \in SessionRow /\ row.maker = old.maker
    BY <2>1 DEF SessionRow
  <2>3. session' = [session EXCEPT ![s] = row] /\ Untouched(old)
    BY <1>7, <2>1 DEF SkipOccurrence, TypeOK
  <2> HIDE DEF row
  <2>4. QED
    BY <1>2, <1>4, <1>5, <1>7, <2>1, <2>2, <2>3 DEF SkipEffect, SkipOccurrence
<1>8. QED
  BY <1>6, <1>7

\* The ways in which a step can change the schedules: somebody whose page shows
\* the schedule as it is replaces the row by one of the next version.
Changes(a, k) ==
    /\ sched[k] # None
    /\ Sees(a, k)
    /\ \E row \in Row : /\ row.version = sched[k].version + 1
                        /\ sched' = [sched EXCEPT ![k] = row]
    /\ page' = [page EXCEPT ![a] = None]
Adds(a, k) ==
    /\ sched[k] = None
    /\ \E row \in Row : sched' = [sched EXCEPT ![k] = row]
    /\ page' = [page EXCEPT ![a] = None]

LEMMA Administers ==
    ASSUME TypeOK, NEW a \in Admins, NEW k \in Schedules
    PROVE  /\ \A body \in Bodies : CreateSchedule(a, k, body) =>
                  /\ Adds(a, k)
                  /\ \E row \in Row, several \in BOOLEAN :
                        sched'[k] = row /\ Generate(k, row, several)
           /\ \A body \in Bodies : UpdateSchedule(a, k, body) =>
                  /\ Changes(a, k)
                  /\ \E row \in Row, several \in BOOLEAN :
                        sched'[k] = row /\ Generate(k, row, several)
           /\ \A d \in Dates : SkipOccurrence(a, k, d) => Changes(a, k)
<1>1. setting[a] # None => setting[a] \in BOOLEAN
  BY DEF TypeOK
<1>2. ASSUME NEW body \in Bodies, CreateSchedule(a, k, body)
      PROVE  /\ Adds(a, k)
             /\ \E row \in Row, several \in BOOLEAN :
                   sched'[k] = row /\ Generate(k, row, several)
  <2> DEFINE row == WithVersion(body, 1)
  <2>1. row \in Row
    BY BodyRow
  <2>2. sched' = [sched EXCEPT ![k] = row] /\ Generate(k, row, setting[a])
        /\ sched[k] = None /\ setting[a] # None
        /\ page' = [page EXCEPT ![a] = None]
    BY <1>2 DEF CreateSchedule, Done
  <2> HIDE DEF row
  <2>3. sched'[k] = row
    BY <2>2 DEF TypeOK
  <2>4. QED
    BY <1>1, <2>1, <2>2, <2>3 DEF Adds
<1>3. ASSUME NEW body \in Bodies, UpdateSchedule(a, k, body)
      PROVE  /\ Changes(a, k)
             /\ \E row \in Row, several \in BOOLEAN :
                   sched'[k] = row /\ Generate(k, row, several)
  <2> DEFINE v == sched[k].version + 1
             row == WithVersion(body, v)
  <2>1. sched[k] # None /\ sched' = [sched EXCEPT ![k] = row]
        /\ Generate(k, row, setting[a]) /\ setting[a] # None
        /\ Sees(a, k) /\ page' = [page EXCEPT ![a] = None]
    BY <1>3 DEF UpdateSchedule, Done
  <2>2. v \in Nat
    BY <2>1 DEF TypeOK, Row
  <2>3. row \in Row /\ row.version = v
    BY <2>2, BodyRow
  <2> HIDE DEF row
  <2>4. sched'[k] = row
    BY <2>1 DEF TypeOK
  <2>5. QED
    BY <1>1, <2>1, <2>3, <2>4 DEF Changes
<1>4. ASSUME NEW d \in Dates, SkipOccurrence(a, k, d)
      PROVE  Changes(a, k)
  <2> DEFINE row == [sched[k] EXCEPT !.version = sched[k].version + 1]
  <2>1. sched[k] # None /\ Sees(a, k) /\ page' = [page EXCEPT ![a] = None]
    BY <1>4 DEF SkipOccurrence, Done
  <2>2. sched[k] \in Row
    BY <2>1 DEF TypeOK
  <2>3. row \in Row /\ row.version = sched[k].version + 1
    BY <2>2 DEF Row
  <2>4. sched' = [sched EXCEPT ![k] = row]
    BY <1>4, <2>2 DEF SkipOccurrence, Row, TypeOK
  <2> HIDE DEF row
  <2>5. QED
    BY <2>1, <2>3, <2>4 DEF Changes
<1>5. QED
  BY <1>2, <1>3, <1>4

\* Every step in terms of the above.
LEMMA Steps ==
    ASSUME TypeOK, TicksExist, OwnSessions, [Next]_vars
    PROVE  \/ \E k \in Schedules, row \in Row, several \in BOOLEAN :
                 sched'[k] = row /\ Generate(k, row, several)
           \/ \E k \in Schedules, d \in Dates : SkipEffect(k, d)
           \/ \E s \in SessionIds : EditOne(s)
           \/ \E s \in SessionIds, d \in Dates : CreateByHand(s, d)
           \/ \E s \in Existing : DeleteSession(s)
           \/ UNCHANGED <<receipt, session, made>>
<1>1. ASSUME NEW w \in Workers, Work(w)
      PROVE  \/ \E k \in Schedules, row \in Row, several \in BOOLEAN :
                   sched'[k] = row /\ Generate(k, row, several)
             \/ UNCHANGED tables
  <2>1. ASSUME NEW k \in Schedules, GenerateNext(w, k)
        PROVE  \E row \in Row, several \in BOOLEAN :
                   sched'[k] = row /\ Generate(k, row, several)
    <3>1. sched[k] \in Row /\ multiple \in BOOLEAN
      BY <2>1 DEF GenerateNext, IsNext, TicksExist, TypeOK
    <3>2. sched'[k] = sched[k] /\ Generate(k, sched[k], multiple)
      BY <2>1 DEF GenerateNext
    <3>3. QED
      BY <3>1, <3>2
  <2>2. QED
    BY <1>1, <2>1 DEF Work, StartTick, FailNext
<1>2. ASSUME NEW w \in Workers, Restart(w)
      PROVE  UNCHANGED tables
  BY <1>2 DEF Restart
<1>3. ASSUME NEW a \in Admins, Administer(a)
      PROVE  \/ \E k \in Schedules, row \in Row, several \in BOOLEAN :
                   sched'[k] = row /\ Generate(k, row, several)
             \/ \E k \in Schedules, d \in Dates : SkipEffect(k, d)
             \/ UNCHANGED tables
  BY <1>3, Administers, SkipsOne DEF Administer, ListSchedules, Authenticate
<1>4. ASSUME NEW s \in Existing,
             \/ SaveAttendance(s) \/ SaveProgress(s)
             \/ \E d \in Dates : ChangeDate(s, d)
             \/ SetConfirmed(s) \/ SetArchived(s)
      PROVE  \E t \in SessionIds : EditOne(t)
  BY <1>4, EditsOne
<1>5. CASE SetMultiple \/ (\E s \in Students : ChangeStudent(s)) \/ NextDay \/ UNCHANGED vars
  BY <1>5 DEF SetMultiple, ChangeStudent, NextDay, vars, tables
<1>6. QED
  BY <1>1, <1>2, <1>3, <1>4, <1>5 DEF Next, tables

LEMMA SchedSteps ==
    ASSUME TypeOK, [Next]_vars
    PROVE  \/ UNCHANGED sched
           \/ \E a \in Admins, k \in Schedules : Adds(a, k) \/ Changes(a, k)
<1>1. ASSUME NEW a \in Admins, Administer(a)
      PROVE  \/ UNCHANGED sched
             \/ \E k \in Schedules : Adds(a, k) \/ Changes(a, k)
  BY <1>1, Administers DEF Administer, ListSchedules, Authenticate, tables
<1>2. ASSUME NEW s \in Existing,
             \/ SaveAttendance(s) \/ SaveProgress(s)
             \/ \E d \in Dates : ChangeDate(s, d)
             \/ SetConfirmed(s) \/ SetArchived(s)
      PROVE  UNCHANGED sched
  BY <1>2, EditsOne
<1>3. CASE (\E w \in Workers : Work(w) \/ Restart(w))
  BY <1>3 DEF Work, Restart, StartTick, GenerateNext, FailNext, tables
<1>4. CASE \/ \E s \in SessionIds, d \in Dates : CreateByHand(s, d)
           \/ \E s \in Existing : DeleteSession(s)
           \/ SetMultiple \/ (\E s \in Students : ChangeStudent(s)) \/ NextDay
           \/ UNCHANGED vars
  BY <1>4 DEF CreateByHand, DeleteSession, SetMultiple, ChangeStudent, NextDay,
              vars, tables
<1>5. QED
  BY <1>1, <1>2, <1>3, <1>4 DEF Next

LEMMA RowsTyped ==
    ASSUME TypeOK, TicksExist, OwnSessions, [Next]_vars
    PROVE  /\ session' \in [SessionIds -> SessionRow \cup {None}]
           /\ receipt' \in [Schedules -> [Dates -> Receipt \cup {None}]]
           /\ made' \in [Schedules -> [Dates -> Nat]]
<1> DEFINE Goal == /\ session' \in [SessionIds -> SessionRow \cup {None}]
                   /\ receipt' \in [Schedules -> [Dates -> Receipt \cup {None}]]
                   /\ made' \in [Schedules -> [Dates -> Nat]]
<1>1. ASSUME NEW k \in Schedules, NEW row \in Row, NEW several \in BOOLEAN,
             Generate(k, row, several)
      PROVE  Goal
  BY <1>1, GenerateEffect DEF Effect
<1>2. ASSUME NEW k \in Schedules, NEW d \in Dates, SkipEffect(k, d)
      PROVE  Goal
  <2>1. session' \in [SessionIds -> SessionRow \cup {None}]
    <3>1. CASE UNCHANGED session
      BY <3>1 DEF TypeOK
    <3>2. ASSUME NEW s \in SessionIds, NEW row \in SessionRow,
                 session' = [session EXCEPT ![s] = row]
          PROVE  session' \in [SessionIds -> SessionRow \cup {None}]
      BY <3>2 DEF TypeOK
    <3>3. QED
      BY <1>2, <3>1, <3>2 DEF SkipEffect
  <2>2. QED
    BY <1>2, <2>1 DEF SkipEffect, TypeOK
<1>3. ASSUME NEW s \in SessionIds, EditOne(s)
      PROVE  Goal
  BY <1>3 DEF EditOne, TypeOK
<1>4. ASSUME NEW s \in SessionIds, NEW d \in Dates, CreateByHand(s, d)
      PROVE  Goal
  <2>1. NewSession(d, enrolled, None) \in SessionRow
    BY SessionTyped DEF TypeOK
  <2>2. QED
    BY <1>4, <2>1 DEF CreateByHand, TypeOK
<1>5. ASSUME NEW s \in Existing, DeleteSession(s)
      PROVE  Goal
  <2>1. s \in SessionIds
    BY DEF Existing
  <2>2. QED
    BY <1>5, <2>1, UnlinkedTyped DEF DeleteSession, TypeOK
<1>6. CASE UNCHANGED <<receipt, session, made>>
  BY <1>6 DEF TypeOK
<1>7. QED
  BY <1>1, <1>2, <1>3, <1>4, <1>5, <1>6, Steps

LEMMA SchedTyped ==
    ASSUME TypeOK, [Next]_vars
    PROVE  /\ sched' \in [Schedules -> Row \cup {None}]
           /\ \A k \in Schedules : sched[k] # None =>
                 /\ sched'[k] # None
                 /\ sched'[k].version >= sched[k].version
                 /\ sched'[k].version = sched[k].version => sched'[k] = sched[k]
<1>1. CASE UNCHANGED sched
  BY <1>1 DEF TypeOK, Row
<1>2. ASSUME NEW a \in Admins, NEW k \in Schedules, NEW row \in Row,
             sched' = [sched EXCEPT ![k] = row],
             sched[k] = None \/ row.version = sched[k].version + 1
      PROVE  /\ sched' \in [Schedules -> Row \cup {None}]
             /\ \A j \in Schedules : sched[j] # None =>
                   /\ sched'[j] # None
                   /\ sched'[j].version >= sched[j].version
                   /\ sched'[j].version = sched[j].version => sched'[j] = sched[j]
  <2>1. sched' \in [Schedules -> Row \cup {None}] /\ sched'[k] = row
        /\ \A j \in Schedules \ {k} : sched'[j] = sched[j]
    BY <1>2 DEF TypeOK
  <2>2. \A j \in Schedules : sched[j] # None => sched[j] \in Row /\ sched[j].version \in Nat
    BY DEF TypeOK, Row
  <2>3. QED
    BY <1>2, <2>1, <2>2, NoneAssumption
<1>3. QED
  BY <1>1, <1>2, SchedSteps DEF Adds, Changes

\* Which pages and ticks there are after a step.
LEMMA PageSteps ==
    ASSUME TypeOK, [Next]_vars
    PROVE  /\ page' \in [Admins -> Page \cup {None}]
           /\ \A a \in Admins :
                 \/ page'[a] = None
                 \/ page'[a] = page[a]
                 \/ \E k \in Schedules :
                       /\ sched[k] # None
                       /\ page'[a] = [schedule |-> k, row |-> sched[k]]
                       /\ UNCHANGED sched
<1> DEFINE Goal == /\ page' \in [Admins -> Page \cup {None}]
                   /\ \A a \in Admins :
                         \/ page'[a] = None
                         \/ page'[a] = page[a]
                         \/ \E k \in Schedules :
                               /\ sched[k] # None
                               /\ page'[a] = [schedule |-> k, row |-> sched[k]]
                               /\ UNCHANGED sched
<1> SUFFICES Goal
  OBVIOUS
<1>1. ASSUME NEW a \in Admins, page' = [page EXCEPT ![a] = None]
      PROVE  Goal
  BY <1>1 DEF TypeOK
<1>2. ASSUME NEW a \in Admins, NEW k \in Schedules, ListSchedules(a, k)
      PROVE  Goal
  <2> DEFINE new == [schedule |-> k, row |-> sched[k]]
  <2>1. new \in Page /\ sched[k] # None
    BY <1>2 DEF ListSchedules, TypeOK, Page
  <2>2. page' = [page EXCEPT ![a] = new] /\ UNCHANGED sched
    BY <1>2 DEF ListSchedules, tables
  <2> HIDE DEF new
  <2>3. page' \in [Admins -> Page \cup {None}] /\ page'[a] = new
        /\ \A b \in Admins \ {a} : page'[b] = page[b]
    BY <2>1, <2>2 DEF TypeOK
  <2>4. QED
    BY <2>1, <2>2, <2>3 DEF new
<1>3. ASSUME UNCHANGED page
      PROVE  Goal
  BY <1>3 DEF TypeOK
<1>4. ASSUME NEW a \in Admins, Administer(a)
      PROVE  Goal
  <2>1. ASSUME NEW k \in Schedules, NEW d \in Dates, SkipOccurrence(a, k, d)
        PROVE  page' = [page EXCEPT ![a] = None]
    BY <2>1 DEF SkipOccurrence, Done
  <2>2. ASSUME NEW k \in Schedules, NEW body \in Bodies,
               CreateSchedule(a, k, body) \/ UpdateSchedule(a, k, body)
        PROVE  page' = [page EXCEPT ![a] = None]
    BY <2>2 DEF CreateSchedule, UpdateSchedule, Done
  <2>3. CASE Authenticate(a)
    BY <1>3, <2>3 DEF Authenticate
  <2> HIDE DEF Goal
  <2>4. QED
    BY <1>1, <1>2, <1>4, <2>1, <2>2, <2>3 DEF Administer
<1>5. ASSUME NEW s \in Existing,
             \/ SaveAttendance(s) \/ SaveProgress(s)
             \/ \E d \in Dates : ChangeDate(s, d)
             \/ SetConfirmed(s) \/ SetArchived(s)
      PROVE  Goal
  <2>1. UNCHANGED page
    BY <1>5, EditsOne DEF clients
  <2>2. QED
    BY <1>3, <2>1
<1>6. CASE (\E w \in Workers : Work(w) \/ Restart(w))
  <2>1. UNCHANGED page
    BY <1>6 DEF Work, Restart, StartTick, GenerateNext, FailNext, clients
  <2>2. QED
    BY <1>3, <2>1
<1>7. CASE \/ \E s \in SessionIds, d \in Dates : CreateByHand(s, d)
           \/ \E s \in Existing : DeleteSession(s)
           \/ SetMultiple \/ (\E s \in Students : ChangeStudent(s)) \/ NextDay
           \/ UNCHANGED vars
  <2>1. UNCHANGED page
    BY <1>7 DEF CreateByHand, DeleteSession, SetMultiple, ChangeStudent, NextDay,
                vars, clients
  <2>2. QED
    BY <1>3, <2>1
<1> HIDE DEF Goal
<1>8. QED
  <2>1. CASE Next
    BY <1>4, <1>5, <1>6, <1>7, <2>1 DEF Next
  <2>2. CASE UNCHANGED vars
    BY <1>7, <2>2
  <2>3. QED
    BY <2>1, <2>2

LEMMA TickSteps ==
    ASSUME TypeOK, [Next]_vars
    PROVE  /\ tick' \in [Workers -> SUBSET Schedules]
           /\ \A w \in Workers :
                 \/ tick'[w] \subseteq tick[w]
                 \/ tick'[w] \subseteq {k \in Schedules : sched[k] # None}
<1> DEFINE Goal == /\ tick' \in [Workers -> SUBSET Schedules]
                   /\ \A w \in Workers :
                         \/ tick'[w] \subseteq tick[w]
                         \/ tick'[w] \subseteq {k \in Schedules : sched[k] # None}
<1> SUFFICES Goal
  OBVIOUS
<1>1. ASSUME NEW w \in Workers, NEW S \in SUBSET Schedules,
             tick' = [tick EXCEPT ![w] = S],
             S \subseteq tick[w] \/ S \subseteq {k \in Schedules : sched[k] # None}
      PROVE  Goal
  BY <1>1 DEF TypeOK
<1>2. ASSUME NEW w \in Workers, Work(w) \/ Restart(w)
      PROVE  Goal
  <2>1. CASE StartTick(w)
    BY <1>1, <2>1 DEF StartTick
  <2>2. ASSUME NEW k \in Schedules, GenerateNext(w, k) \/ FailNext(w, k)
        PROVE  Goal
    <3>1. tick' = [tick EXCEPT ![w] = tick[w] \ {k}]
      BY <2>2 DEF GenerateNext, FailNext, RestOfTick
    <3>2. tick[w] \ {k} \in SUBSET Schedules
      BY DEF TypeOK
    <3>3. QED
      BY <1>1, <3>1, <3>2
  <2>3. CASE Restart(w)
    BY <1>1, <2>3 DEF Restart
  <2> HIDE DEF Goal
  <2>4. QED
    BY <1>2, <2>1, <2>2, <2>3 DEF Work
<1>3. ASSUME UNCHANGED tick
      PROVE  Goal
  BY <1>3 DEF TypeOK
<1>4. CASE (\E a \in Admins : Administer(a))
  <2>1. ASSUME NEW a \in Admins, NEW k \in Schedules,
               \/ ListSchedules(a, k) \/ Authenticate(a)
               \/ \E d \in Dates : SkipOccurrence(a, k, d)
        PROVE  UNCHANGED tick
    BY <2>1 DEF ListSchedules, Authenticate, SkipOccurrence
  <2>2. ASSUME NEW a \in Admins, NEW k \in Schedules, NEW body \in Bodies,
               CreateSchedule(a, k, body) \/ UpdateSchedule(a, k, body)
        PROVE  UNCHANGED tick
    BY <2>2 DEF CreateSchedule, UpdateSchedule
  <2>3. UNCHANGED tick
    <3>1. PICK a \in Admins : Administer(a)
      BY <1>4
    <3>2. CASE Authenticate(a)
      BY <3>2 DEF Authenticate
    <3>3. QED
      BY <2>1, <2>2, <3>1, <3>2 DEF Administer
  <2>4. QED
    BY <1>3, <2>3
<1>5. ASSUME NEW s \in Existing,
             \/ SaveAttendance(s) \/ SaveProgress(s)
             \/ \E d \in Dates : ChangeDate(s, d)
             \/ SetConfirmed(s) \/ SetArchived(s)
      PROVE  Goal
  <2>1. UNCHANGED tick
    BY <1>5, EditsOne
  <2>2. QED
    BY <1>3, <2>1
<1>6. CASE \/ \E s \in SessionIds, d \in Dates : CreateByHand(s, d)
           \/ \E s \in Existing : DeleteSession(s)
           \/ SetMultiple \/ (\E s \in Students : ChangeStudent(s)) \/ NextDay
           \/ UNCHANGED vars
  <2>1. UNCHANGED tick
    BY <1>6 DEF CreateByHand, DeleteSession, SetMultiple, ChangeStudent, NextDay, vars
  <2>2. QED
    BY <1>3, <2>1
<1> HIDE DEF Goal
<1>7. QED
  <2>1. CASE Next
    BY <1>2, <1>4, <1>5, <1>6, <2>1 DEF Next
  <2>2. CASE UNCHANGED vars
    BY <1>6, <2>2
  <2>3. QED
    BY <2>1, <2>2

\* The rest of the state has its type.
LEMMA RestTyped ==
    ASSUME TypeOK, [Next]_vars
    PROVE  /\ today' \in Dates /\ multiple' \in BOOLEAN
           /\ enrolled' \subseteq Students /\ category' \subseteq Students
           /\ setting' \in [Admins -> BOOLEAN \cup {None}]
           /\ restarts' \in Nat
<1> DEFINE Goal == /\ today' \in Dates /\ multiple' \in BOOLEAN
                   /\ enrolled' \subseteq Students /\ category' \subseteq Students
                   /\ setting' \in [Admins -> BOOLEAN \cup {None}]
                   /\ restarts' \in Nat
<1> SUFFICES Goal
  OBVIOUS
<1>1. CASE UNCHANGED <<center, setting, restarts>>
  BY <1>1 DEF TypeOK, center
<1>2. ASSUME NEW a \in Admins, NEW b \in BOOLEAN \cup {None},
             setting' = [setting EXCEPT ![a] = b], UNCHANGED <<center, restarts>>
      PROVE  Goal
  BY <1>2 DEF TypeOK, center
<1>3. ASSUME NEW w \in Workers, Work(w) \/ Restart(w)
      PROVE  Goal
  <2>1. CASE Work(w)
    BY <1>1, <2>1 DEF Work, StartTick, GenerateNext, FailNext, clients
  <2>2. CASE Restart(w)
    BY <2>2 DEF Restart, TypeOK, clients, center
  <2>3. QED
    BY <1>3, <2>1, <2>2
<1>4. ASSUME NEW a \in Admins, Administer(a)
      PROVE  Goal
  <2>1. ASSUME NEW k \in Schedules, ListSchedules(a, k)
        PROVE  Goal
    BY <1>1, <2>1 DEF ListSchedules
  <2>2. CASE Authenticate(a)
    BY <1>2, <2>2 DEF Authenticate, TypeOK
  <2>3. CASE Done(a) /\ UNCHANGED <<center, restarts>>
    BY <1>2, <2>3 DEF Done
  <2>4. ASSUME NEW k \in Schedules, NEW body \in Bodies,
               CreateSchedule(a, k, body) \/ UpdateSchedule(a, k, body)
        PROVE  Goal
    BY <2>3, <2>4 DEF CreateSchedule, UpdateSchedule
  <2>5. ASSUME NEW k \in Schedules, NEW d \in Dates, SkipOccurrence(a, k, d)
        PROVE  Goal
    BY <2>3, <2>5 DEF SkipOccurrence
  <2> HIDE DEF Goal
  <2>6. QED
    BY <1>4, <2>1, <2>2, <2>4, <2>5 DEF Administer
<1>5. ASSUME NEW s \in Existing,
             \/ SaveAttendance(s) \/ SaveProgress(s)
             \/ \E d \in Dates : ChangeDate(s, d)
             \/ SetConfirmed(s) \/ SetArchived(s)
      PROVE  Goal
  <2>1. UNCHANGED <<center, setting, restarts>>
    BY <1>5, EditsOne DEF clients
  <2>2. QED
    BY <1>1, <2>1
<1>6. CASE \/ \E s \in SessionIds, d \in Dates : CreateByHand(s, d)
           \/ \E s \in Existing : DeleteSession(s)
           \/ UNCHANGED vars
  <2>1. UNCHANGED <<center, setting, restarts>>
    BY <1>6 DEF CreateByHand, DeleteSession, vars, clients
  <2>2. QED
    BY <1>1, <2>1
<1>7. CASE SetMultiple \/ NextDay
  BY <1>7 DEF SetMultiple, NextDay, TypeOK, clients
<1>8. ASSUME NEW s \in Students, ChangeStudent(s)
      PROVE  Goal
  BY <1>8 DEF ChangeStudent, TypeOK, clients
<1> HIDE DEF Goal
<1>9. QED
  <2>1. CASE Next
    BY <1>3, <1>4, <1>5, <1>6, <1>7, <1>8, <2>1 DEF Next
  <2>2. CASE UNCHANGED vars
    BY <1>6, <2>2
  <2>3. QED
    BY <2>1, <2>2

LEMMA TypeStep ==
    ASSUME TypeOK, TicksExist, OwnSessions, [Next]_vars
    PROVE  TypeOK'
BY RowsTyped, SchedTyped, PageSteps, TickSteps, RestTyped DEF TypeOK

-----------------------------------------------------------------------------
(* The inductive invariant.                                                  *)

LEMMA TicksStep ==
    ASSUME TypeOK, TicksExist, [Next]_vars
    PROVE  TicksExist'
<1>1. \A k \in Schedules : sched[k] # None => sched'[k] # None
  BY SchedTyped
<1>2. \A w \in Workers : tick[w] \subseteq Schedules
  BY DEF TypeOK
<1>3. QED
  BY <1>1, <1>2, TickSteps DEF TicksExist

LEMMA PagesStep ==
    ASSUME TypeOK, PagesSound, [Next]_vars
    PROVE  PagesSound'
<1> SUFFICES ASSUME NEW a \in Admins, page'[a] # None
             PROVE  /\ sched'[page'[a].schedule] # None
                    /\ page'[a].row.version <= sched'[page'[a].schedule].version
                    /\ page'[a].row.version = sched'[page'[a].schedule].version
                          => page'[a].row = sched'[page'[a].schedule]
  BY DEF PagesSound, PageSound
<1>1. CASE page'[a] = page[a]
  <2> DEFINE p == page[a]
             k == p.schedule
  <2>1. p \in Page /\ k \in Schedules /\ p.row.version \in Nat
    BY <1>1 DEF TypeOK, Page, Row
  <2>2. /\ sched[k] # None /\ p.row.version <= sched[k].version
        /\ p.row.version = sched[k].version => p.row = sched[k]
    BY <1>1 DEF PagesSound, PageSound
  <2>3. /\ sched'[k] # None /\ sched'[k].version >= sched[k].version
        /\ sched'[k].version = sched[k].version => sched'[k] = sched[k]
    BY <2>1, <2>2, SchedTyped
  <2>4. sched[k] \in Row /\ sched'[k] \in Row
    BY <2>1, <2>2, <2>3, SchedTyped DEF TypeOK
  <2>5. sched[k].version \in Nat /\ sched'[k].version \in Nat
    BY <2>4 DEF Row
  <2>6. /\ p.row.version <= sched'[k].version
        /\ p.row.version = sched'[k].version => p.row = sched'[k]
    <3> DEFINE u == p.row.version
               v == sched[k].version
               z == sched'[k].version
    <3>1. u \in Nat /\ v \in Nat /\ z \in Nat /\ u <= v /\ v <= z
      BY <2>1, <2>2, <2>3, <2>5
    <3>2. u = v => p.row = sched[k]
      BY <2>2
    <3>3. z = v => sched'[k] = sched[k]
      BY <2>3
    <3> HIDE DEF u, v, z
    <3>4. u <= z /\ (u = z => u = v /\ z = v)
      BY <3>1
    <3>5. u <= z /\ (u = z => p.row = sched'[k])
      BY <3>2, <3>3, <3>4
    <3>6. QED
      BY <3>5 DEF u, z
  <2>7. QED
    BY <1>1, <2>3, <2>6
<1>2. ASSUME NEW k \in Schedules, sched[k] # None, UNCHANGED sched,
             page'[a] = [schedule |-> k, row |-> sched[k]]
      PROVE  /\ sched'[page'[a].schedule] # None
             /\ page'[a].row.version <= sched'[page'[a].schedule].version
             /\ page'[a].row = sched'[page'[a].schedule]
  <2>1. page'[a].schedule = k /\ page'[a].row = sched[k]
    BY <1>2
  <2>2. sched[k] \in Row
    BY <1>2 DEF TypeOK
  <2>3. sched[k].version \in Nat
    BY <2>2 DEF Row
  <2>4. QED
    BY <1>2, <2>1, <2>3
<1>3. QED
  BY <1>1, <1>2, PageSteps

\* The occurrence whose receipt names a session, and the one it was made for.
Names(k, d, s) == receipt[k][d] # None /\ receipt[k][d].session = s
MadeFor(k, d, s) == session[s] # None /\ session[s].maker = <<k, d>>

\* Receipts and sessions belong together: the two relations are the same one.
LEMMA OwnMeans ==
    ASSUME TypeOK
    PROVE  OwnSessions => \A k \in Schedules, d \in Dates, s \in SessionIds :
                              Names(k, d, s) <=> MadeFor(k, d, s)
<1> SUFFICES ASSUME OwnSessions, NEW k \in Schedules, NEW d \in Dates,
                    NEW s \in SessionIds
             PROVE  Names(k, d, s) <=> MadeFor(k, d, s)
  OBVIOUS
<1>1. Names(k, d, s) => MadeFor(k, d, s)
  BY NoneAssumption DEF OwnSessions, Names, MadeFor
<1>2. ASSUME MadeFor(k, d, s)
      PROVE  Names(k, d, s)
  <2>1. session[s].maker # None /\ session[s].maker[1] = k /\ session[s].maker[2] = d
    BY <1>2, NoneAssumption DEF MadeFor
  <2>2. QED
    BY <1>2, <2>1 DEF OwnSessions, Names, MadeFor
<1>3. QED
  BY <1>1, <1>2

LEMMA MeansOwn ==
    ASSUME TypeOK',
           \A k \in Schedules, d \in Dates, s \in SessionIds :
               Names(k, d, s)' <=> MadeFor(k, d, s)'
    PROVE  OwnSessions'
<1>1. ASSUME NEW k \in Schedules, NEW d \in Dates,
             receipt'[k][d] # None, receipt'[k][d].session # None
      PROVE  /\ session'[receipt'[k][d].session] # None
             /\ session'[receipt'[k][d].session].maker = <<k, d>>
  <2>1. receipt'[k][d].session \in SessionIds
    BY <1>1 DEF TypeOK, Receipt
  <2>2. QED
    BY <1>1, <2>1 DEF Names, MadeFor
<1>2. ASSUME NEW s \in SessionIds, session'[s] # None, session'[s].maker # None
      PROVE  LET k == session'[s].maker[1]
                 d == session'[s].maker[2]
             IN receipt'[k][d] # None /\ receipt'[k][d].session = s
  <2>1. session'[s].maker \in Schedules \X Dates
    BY <1>2 DEF TypeOK, SessionRow
  <2>2. PICK k \in Schedules, d \in Dates : session'[s].maker = <<k, d>>
    BY <2>1
  <2>3. session'[s].maker[1] = k /\ session'[s].maker[2] = d
    BY <2>2
  <2>4. receipt'[k][d] # None /\ receipt'[k][d].session = s
    BY <1>2, <2>2 DEF Names, MadeFor
  <2>5. QED
    BY <2>3, <2>4
<1>3. QED
  BY <1>1, <1>2 DEF OwnSessions

LEMMA OwnStep ==
    ASSUME TypeOK, TypeOK', TicksExist, OwnSessions, [Next]_vars
    PROVE  OwnSessions'
<1> SUFFICES ASSUME NEW k \in Schedules, NEW d \in Dates, NEW s \in SessionIds
             PROVE  Names(k, d, s)' <=> MadeFor(k, d, s)'
  BY MeansOwn
<1> DEFINE Goal == Names(k, d, s)' <=> MadeFor(k, d, s)'
<1> SUFFICES Goal
  OBVIOUS
<1>own. \A j \in Schedules, e \in Dates, i \in SessionIds :
          Names(j, e, i) <=> MadeFor(j, e, i)
  BY OwnMeans
<1>1. ASSUME NEW j \in Schedules, NEW row \in Row, NEW several \in BOOLEAN,
             Generate(j, row, several)
      PROVE  Goal
  <2>1. PICK days, id : Effect(j, row, several, days, id)
    BY <1>1, GenerateEffect
  <2>2. RosterFor(row, several) \in SUBSET Students
    BY RosterTyped
  <2>3. \A e \in days : /\ id[e] \in SessionIds /\ e \in Dates
                        /\ session[id[e]] = None
                        /\ session'[id[e]] # None
                        /\ session'[id[e]].maker = <<j, e>>
    <3>1. ASSUME NEW e \in days
          PROVE  /\ id[e] \in SessionIds \ Existing /\ e \in Dates
                 /\ session'[id[e]] = NewSession(e, RosterFor(row, several), <<j, e>>)
      BY <2>1 DEF Effect
    <3>2. ASSUME NEW e \in days
          PROVE  session'[id[e]] # None /\ session'[id[e]].maker = <<j, e>>
      <4>1. e \in Dates /\ <<j, e>> \in (Schedules \X Dates) \cup {None}
        BY <3>1
      <4>2. LET new == NewSession(e, RosterFor(row, several), <<j, e>>)
            IN new # None /\ new.maker = <<j, e>>
        BY <2>2, <4>1, SessionTyped
      <4>3. QED
        BY <3>1, <4>2
    <3>3. QED
      BY <3>1, <3>2 DEF Existing
  <2>4. CASE \E e \in days : id[e] = s
    <3>1. PICK e \in days : id[e] = s
      BY <2>4
    <3>2. MadeFor(k, d, s)' <=> (k = j /\ d = e)
      BY <2>3, <3>1 DEF MadeFor
    <3>3. receipt'[j][e] = [status |-> "created", session |-> s]
      BY <2>1, <3>1 DEF Effect
    <3>4. receipt'[j][e] # None /\ receipt'[j][e].session = s
      BY <2>3, <3>1, <3>3, NoneAssumption DEF Receipt
    <3>5. ~Names(k, d, s)
      BY <1>own, <2>3, <3>1 DEF MadeFor
    <3>6. CASE k = j /\ d \in days
      <4>1. receipt'[j][d] = [status |-> "created", session |-> id[d]]
        BY <2>1, <3>6 DEF Effect
      <4>2. receipt'[j][d] \in Receipt /\ receipt'[j][d].session = id[d]
        BY <2>3, <3>6, <4>1 DEF Receipt
      <4>3. receipt'[j][d] # None
        BY <4>2, NoneAssumption
      <4>4. id[d] = s <=> d = e
        BY <2>1, <3>1, <3>6 DEF Effect
      <4>5. QED
        BY <3>2, <3>6, <4>2, <4>3, <4>4 DEF Names
    <3>7. CASE k # j
      BY <2>1, <3>2, <3>5, <3>7 DEF Effect, Names
    <3>8. CASE k = j /\ d \notin days
      <4>1. d # e
        BY <3>8
      <4>2. \/ receipt'[k][d] = receipt[k][d]
            \/ receipt'[k][d] = [status |-> "conflict", session |-> None]
        BY <2>1, <3>8 DEF Effect
      <4>3. ~Names(k, d, s)'
        BY <3>5, <4>2, NoneAssumption DEF Names
      <4>4. QED
        BY <3>2, <4>1, <4>3
    <3>9. QED
      BY <3>6, <3>7, <3>8
  <2>5. CASE \A e \in days : id[e] # s
    <3>1. session'[s] = session[s]
      BY <2>1, <2>5 DEF Effect
    <3>2. MadeFor(k, d, s)' <=> MadeFor(k, d, s)
      BY <3>1 DEF MadeFor
    <3>3. Names(k, d, s)' <=> Names(k, d, s)
      <4>1. CASE k # j
        BY <2>1, <4>1 DEF Effect, Names
      <4>2. CASE k = j /\ d \in days
        <5>1. receipt[k][d] = None
              /\ receipt'[k][d] = [status |-> "created", session |-> id[d]]
          BY <2>1, <4>2 DEF Effect
        <5>2. receipt'[k][d].session # s
          BY <2>5, <4>2, <5>1
        <5>3. QED
          BY <5>1, <5>2 DEF Names
      <4>3. CASE k = j /\ d \notin days
        <5>1. \/ receipt'[k][d] = receipt[k][d]
              \/ /\ receipt[k][d] = None
                 /\ receipt'[k][d] = [status |-> "conflict", session |-> None]
          BY <2>1, <4>3 DEF Effect
        <5>2. QED
          BY <5>1, NoneAssumption DEF Names
      <4>4. QED
        BY <4>1, <4>2, <4>3
    <3>4. QED
      BY <1>own, <3>2, <3>3
  <2>6. QED
    BY <2>4, <2>5
<1>2. ASSUME NEW j \in Schedules, NEW e \in Dates, SkipEffect(j, e)
      PROVE  Goal
  <2>1. Names(k, d, s)' <=> Names(k, d, s)
    <3>1. CASE k = j /\ d = e
      BY <1>2, <3>1, NoneAssumption DEF SkipEffect, Names
    <3>2. CASE k # j \/ d # e
      BY <1>2, <3>2 DEF SkipEffect, Names
    <3>3. QED
      BY <3>1, <3>2
  <2>2. MadeFor(k, d, s)' <=> MadeFor(k, d, s)
    <3>1. CASE UNCHANGED session
      BY <3>1 DEF MadeFor
    <3>2. ASSUME NEW i \in SessionIds, NEW row \in SessionRow, session[i] # None,
                 row.maker = session[i].maker, session' = [session EXCEPT ![i] = row]
          PROVE  MadeFor(k, d, s)' <=> MadeFor(k, d, s)
      <4>1. row # None /\ session'[i] = row /\ (s # i => session'[s] = session[s])
        BY <3>2, NoneAssumption DEF TypeOK
      <4>2. QED
        BY <3>2, <4>1 DEF MadeFor
    <3>3. QED
      BY <1>2, <3>1, <3>2 DEF SkipEffect
  <2>3. QED
    BY <1>own, <2>1, <2>2
<1>3. ASSUME NEW i \in SessionIds, EditOne(i)
      PROVE  Goal
  <2>1. PICK row \in SessionRow : /\ row.maker = session[i].maker
                                  /\ session' = [session EXCEPT ![i] = row]
    BY <1>3 DEF EditOne
  <2>2. row # None /\ session'[i] = row /\ (s # i => session'[s] = session[s])
    BY <2>1, NoneAssumption DEF TypeOK
  <2>3. session[i] # None /\ receipt' = receipt
    BY <1>3 DEF EditOne
  <2>4. MadeFor(k, d, s)' <=> MadeFor(k, d, s)
    BY <2>1, <2>2, <2>3 DEF MadeFor
  <2>5. QED
    BY <1>own, <2>3, <2>4 DEF Names
<1>4. ASSUME NEW i \in SessionIds, NEW e \in Dates, CreateByHand(i, e)
      PROVE  Goal
  <2> DEFINE new == NewSession(e, enrolled, None)
  <2>1. new # None /\ new.maker = None
    BY SessionTyped DEF TypeOK
  <2>2. session[i] = None /\ session' = [session EXCEPT ![i] = new] /\ receipt' = receipt
    BY <1>4 DEF CreateByHand
  <2> HIDE DEF new
  <2>3. session'[i] = new /\ (s # i => session'[s] = session[s])
    BY <2>2 DEF TypeOK
  <2>4. MadeFor(k, d, s)' <=> MadeFor(k, d, s)
    BY <2>1, <2>2, <2>3, NoneAssumption DEF MadeFor
  <2>5. QED
    BY <1>own, <2>2, <2>4 DEF Names
<1>5. ASSUME NEW i \in Existing, DeleteSession(i)
      PROVE  Goal
  <2>1. i \in SessionIds
    BY DEF Existing
  <2>2. receipt' = Unlinked(i) /\ session' = [session EXCEPT ![i] = None]
    BY <1>5 DEF DeleteSession
  <2>3. session'[i] = None /\ (s # i => session'[s] = session[s])
    BY <2>1, <2>2 DEF TypeOK
  <2>4. MadeFor(k, d, s)' <=> MadeFor(k, d, s) /\ s # i
    BY <2>3 DEF MadeFor
  <2>5. LET now == receipt[k][d]
            new == receipt'[k][d]
        IN IF now # None /\ now.session = i
           THEN new # None /\ new.status = now.status /\ new.session = None
           ELSE new = now
    BY <2>1, <2>2, UnlinkedTyped
  <2>6. Names(k, d, s)' <=> Names(k, d, s) /\ s # i
    BY <2>5, NoneAssumption DEF Names
  <2>7. QED
    BY <1>own, <2>4, <2>6
<1>6. CASE UNCHANGED <<receipt, session, made>>
  BY <1>own, <1>6 DEF Names, MadeFor
<1> HIDE DEF Goal
<1>7. QED
  BY <1>1, <1>2, <1>3, <1>4, <1>5, <1>6, Steps

\* The history of an occurrence: what its count and its receipt can be.
LEMMA OnceStep ==
    ASSUME TypeOK, TicksExist, OwnSessions, OccurrenceOnce, [Next]_vars
    PROVE  OccurrenceOnce'
<1> DEFINE Once(n, r) == n <= 1 /\ (n = 1 => r # None /\ r.status # "conflict")
<1> SUFFICES ASSUME NEW k \in Schedules, NEW d \in Dates
             PROVE  Once(made'[k][d], receipt'[k][d])
  BY DEF OccurrenceOnce
<1> DEFINE Goal == Once(made'[k][d], receipt'[k][d])
<1> SUFFICES Goal
  OBVIOUS
<1>now. Once(made[k][d], receipt[k][d]) /\ made[k][d] \in Nat
  BY DEF OccurrenceOnce, TypeOK
<1>1. ASSUME NEW j \in Schedules, NEW row \in Row, NEW several \in BOOLEAN,
             Generate(j, row, several)
      PROVE  Goal
  <2>1. PICK days, id : Effect(j, row, several, days, id)
    BY <1>1, GenerateEffect
  <2>2. CASE k # j
    BY <1>now, <2>1, <2>2 DEF Effect
  <2>3. CASE k = j /\ d \in days
    <3>1. /\ receipt[k][d] = None /\ made'[k][d] = made[k][d] + 1
          /\ receipt'[k][d] = [status |-> "created", session |-> id[d]]
          /\ id[d] \in SessionIds
      BY <2>1, <2>3 DEF Effect
    <3>2. made[k][d] = 0
      BY <1>now, <3>1
    <3>3. receipt'[k][d] \in Receipt /\ receipt'[k][d].status = "created"
      BY <3>1 DEF Receipt
    <3>4. QED
      BY <3>1, <3>2, <3>3, NoneAssumption
  <2>4. CASE k = j /\ d \notin days
    <3>1. /\ made'[k][d] = made[k][d]
          /\ receipt[k][d] # None => receipt'[k][d] = receipt[k][d]
      BY <2>1, <2>4 DEF Effect
    <3>2. QED
      BY <1>now, <3>1
  <2>5. QED
    BY <2>2, <2>3, <2>4
<1>2. ASSUME NEW j \in Schedules, NEW e \in Dates, SkipEffect(j, e)
      PROVE  Goal
  <2>1. CASE k = j /\ d = e
    BY <1>2, <1>now, <2>1 DEF SkipEffect
  <2>2. CASE k # j \/ d # e
    BY <1>2, <1>now, <2>2 DEF SkipEffect
  <2>3. QED
    BY <2>1, <2>2
<1>3. ASSUME NEW s \in Existing, DeleteSession(s)
      PROVE  Goal
  <2>1. s \in SessionIds /\ receipt' = Unlinked(s) /\ made' = made
    BY <1>3 DEF DeleteSession, Existing
  <2>2. LET now == receipt[k][d]
            new == receipt'[k][d]
        IN IF now # None /\ now.session = s
           THEN new # None /\ new.status = now.status /\ new.session = None
           ELSE new = now
    BY <2>1, UnlinkedTyped
  <2>3. QED
    BY <1>now, <2>1, <2>2
<1>4. CASE UNCHANGED <<receipt, made>>
  BY <1>4, <1>now
<1> HIDE DEF Goal
<1>5. QED
  BY <1>1, <1>2, <1>3, <1>4, Steps DEF EditOne, CreateByHand

\* The invariant: rows of the right type, ticks and pages that are not beyond
\* the tables, one session per occurrence, and links that agree both ways.
IInv == /\ TypeOK
        /\ TicksExist
        /\ PagesSound
        /\ OwnSessions
        /\ OccurrenceOnce

LEMMA InitIInv ==
    Init => IInv
<1> SUFFICES ASSUME Init
             PROVE  IInv
  OBVIOUS
<1>1. TypeOK
  BY DEF Init, TypeOK
<1>2. TicksExist /\ PagesSound
  BY DEF Init, TicksExist, PagesSound
<1>3. OwnSessions
  BY DEF Init, OwnSessions
<1>4. OccurrenceOnce
  BY DEF Init, OccurrenceOnce
<1>5. QED
  BY <1>1, <1>2, <1>3, <1>4 DEF IInv

LEMMA StepIInv ==
    IInv /\ [Next]_vars => IInv'
<1> SUFFICES ASSUME IInv, [Next]_vars
             PROVE  IInv'
  OBVIOUS
<1>1. TypeOK'
  BY TypeStep DEF IInv
<1>2. TicksExist' /\ PagesSound'
  BY TicksStep, PagesStep DEF IInv
<1>3. OwnSessions'
  BY <1>1, OwnStep DEF IInv
<1>4. OccurrenceOnce'
  BY OnceStep DEF IInv
<1>5. QED
  BY <1>1, <1>2, <1>3, <1>4 DEF IInv

\* The invariant holds in every reachable state of the specification.
THEOREM Invariance == Spec => []IInv
BY InitIInv, StepIInv, PTL DEF Spec

-----------------------------------------------------------------------------
(* The theorems.                                                             *)

\* Type correctness, for any number of workers, schedules, days and sessions.
THEOREM TypeCorrect == Spec => []TypeOK
<1>1. IInv => TypeOK
  BY DEF IInv
<1>2. QED
  BY <1>1, Invariance, PTL

\* Whatever the workers and requests that generate a schedule, and whatever
\* happens to its sessions: a date gets one generated session at most.
THEOREM OneSessionPerOccurrence == Spec => []OccurrenceOnce
<1>1. IInv => OccurrenceOnce
  BY DEF IInv
<1>2. QED
  BY <1>1, Invariance, PTL

\* A receipt names the session generated for it and no other, and a generated
\* session that is still there has its receipt (ON DELETE SET NULL).
THEOREM ReceiptsNameOwnSessions == Spec => []OwnSessions
<1>1. IInv => OwnSessions
  BY DEF IInv
<1>2. QED
  BY <1>1, Invariance, PTL

\* skip_occurrence archives nothing but the session of that day, and only when
\* nobody has recorded anything in it.
THEOREM SkippingSparesWork == Spec => SkipsSpareWork
<1> DEFINE Spares(k, d) ==
        (receipt[k][d] = None \/ receipt[k][d].status # "skipped")
        /\ receipt'[k][d] # None /\ receipt'[k][d].status = "skipped"
        => \A s \in SessionIds :
              session'[s] # session[s] =>
                  /\ session[s].maker = <<k, d>>
                  /\ ~session[s].confirmed /\ ~session[s].archived
                  /\ ~session[s].marked /\ ~session[s].progress
<1>1. ASSUME IInv, [Next]_vars, NEW k \in Schedules, NEW d \in Dates
      PROVE  Spares(k, d)
  <2> USE <1>1 DEF IInv
  <2> SUFFICES Spares(k, d)
    OBVIOUS
  <2>1. ASSUME NEW j \in Schedules, NEW row \in Row, NEW several \in BOOLEAN,
               Generate(j, row, several)
        PROVE  Spares(k, d)
    <3>1. PICK days, id : Effect(j, row, several, days, id)
      BY <2>1, GenerateEffect
    <3>2. CASE k # j
      BY <3>1, <3>2 DEF Effect
    <3>3. CASE k = j /\ d \in days
      <4>1. receipt'[k][d] = [status |-> "created", session |-> id[d]]
        BY <3>1, <3>3 DEF Effect
      <4>2. QED
        BY <4>1
    <3>4. CASE k = j /\ d \notin days
      <4>1. \/ receipt'[k][d] = receipt[k][d]
            \/ receipt'[k][d] = [status |-> "conflict", session |-> None]
        BY <3>1, <3>4 DEF Effect
      <4>2. QED
        BY <4>1
    <3>5. QED
      BY <3>2, <3>3, <3>4
  <2>2. ASSUME NEW j \in Schedules, NEW e \in Dates, SkipEffect(j, e)
        PROVE  Spares(k, d)
    <3>1. CASE k # j \/ d # e
      BY <2>2, <3>1 DEF SkipEffect
    <3>2. CASE k = j /\ d = e
      <4>1. SUFFICES ASSUME NEW s \in SessionIds, session'[s] # session[s]
                     PROVE  session[s].maker = <<k, d>> /\ Untouched(session[s])
        BY DEF Untouched
      <4>2. LET r == receipt[k][d]
            IN /\ r # None /\ r.session = s
               /\ session[s] # None /\ Untouched(session[s])
        BY <2>2, <3>2, <4>1 DEF SkipEffect, TypeOK
      <4>3. session[s].maker = <<k, d>>
        BY <4>1, <4>2, NoneAssumption DEF OwnSessions
      <4>4. QED
        BY <4>2, <4>3
    <3>3. QED
      BY <3>1, <3>2
  <2>3. ASSUME NEW i \in Existing, DeleteSession(i)
        PROVE  Spares(k, d)
    <3>1. i \in SessionIds /\ receipt' = Unlinked(i)
      BY <2>3 DEF DeleteSession, Existing
    <3>2. receipt'[k][d] # None =>
              receipt[k][d] # None /\ receipt'[k][d].status = receipt[k][d].status
      BY <3>1, UnlinkedTyped
    <3>3. QED
      BY <3>2
  <2>4. CASE UNCHANGED receipt
    BY <2>4
  <2> HIDE DEF Spares
  <2>5. QED
    BY <2>1, <2>2, <2>3, <2>4, Steps DEF EditOne, CreateByHand
<1>2. IInv /\ [Next]_vars => \A k \in Schedules, d \in Dates : Spares(k, d)
  BY <1>1
<1>3. QED
  BY <1>2, Invariance, PTL DEF Spec, SkipsSpareWork

\* While the setting changes under a generation, a schedule that chooses its
\* students never makes a session with anybody else in it.
THEOREM NoRosterBroadens == Spec => RostersNeverBroaden
<1> DEFINE Within(k, d) ==
        made'[k][d] # made[k][d] =>
            \A s \in SessionIds :
                session[s] = None /\ session'[s] # None
                /\ session'[s].maker = <<k, d>> =>
                    /\ sched'[k].mode = "students" =>
                          session'[s].roster \subseteq sched'[k].members
                    /\ sched'[k].mode = "categories" =>
                          session'[s].roster \subseteq category
<1>1. ASSUME IInv, [Next]_vars, NEW k \in Schedules, NEW d \in Dates
      PROVE  Within(k, d)
  <2> USE <1>1 DEF IInv
  <2>1. ASSUME NEW j \in Schedules, NEW row \in Row, NEW several \in BOOLEAN,
               sched'[j] = row, Generate(j, row, several)
        PROVE  Within(k, d)
    <3>1. PICK days, id : Effect(j, row, several, days, id)
      BY <2>1, GenerateEffect
    <3> SUFFICES ASSUME made'[k][d] # made[k][d], NEW s \in SessionIds,
                        session[s] = None, session'[s] # None,
                        session'[s].maker = <<k, d>>
                 PROVE  /\ sched'[k].mode = "students" =>
                              session'[s].roster \subseteq sched'[k].members
                        /\ sched'[k].mode = "categories" =>
                              session'[s].roster \subseteq category
      OBVIOUS
    <3>2. k = j /\ d \in days
      BY <3>1 DEF Effect
    <3>3. PICK e \in days : id[e] = s
      BY <3>1 DEF Effect
    <3>4. e \in Dates /\ session'[s] = NewSession(e, RosterFor(row, several), <<k, e>>)
      BY <3>1, <3>2, <3>3 DEF Effect
    <3>5. session'[s].roster = RosterFor(row, several)
      <4>1. RosterFor(row, several) \in SUBSET Students
        BY RosterTyped
      <4>2. <<k, e>> \in (Schedules \X Dates) \cup {None}
        BY <3>4
      <4>3. NewSession(e, RosterFor(row, several), <<k, e>>).roster
                = RosterFor(row, several)
        BY <3>4, <4>1, <4>2, SessionTyped
      <4>4. QED
        BY <3>4, <4>3
    <3>6. several \/ row.mode = "all"
      BY <3>1, <3>2 DEF Effect, Creates, Undecided, Suspended
    <3>7. QED
      BY <2>1, <3>2, <3>5, <3>6 DEF RosterFor, Chosen
  <2>2. CASE UNCHANGED made
    BY <2>2
  <2> HIDE DEF Within
  <2>3. QED
    BY <2>1, <2>2, Steps DEF EditOne, CreateByHand, DeleteSession, SkipEffect
<1>2. IInv /\ [Next]_vars => \A k \in Schedules, d \in Dates : Within(k, d)
  BY <1>1
<1>3. QED
  BY <1>2, Invariance, PTL DEF Spec, RostersNeverBroaden

\* The versions keep two administrators apart: whoever changes a schedule has
\* the row as it is on the page, and reads it again before the next change.
THEOREM ChangesAsSeen == Spec => SchedulesAsSeen
<1> DEFINE Seen(k) == sched[k] # None /\ sched'[k] # sched[k] =>
                          \E a \in Admins :
                              /\ page[a] = [schedule |-> k, row |-> sched[k]]
                              /\ page'[a] = None
<1>1. ASSUME IInv, [Next]_vars, NEW k \in Schedules
      PROVE  Seen(k)
  <2> USE <1>1 DEF IInv
  <2>1. ASSUME sched[k] # None, sched'[k] # sched[k]
        PROVE  \E a \in Admins : /\ page[a] = [schedule |-> k, row |-> sched[k]]
                                 /\ page'[a] = None
    <3>1. PICK a \in Admins, j \in Schedules : Adds(a, j) \/ Changes(a, j)
      BY <2>1, SchedSteps
    <3>2. j = k /\ Changes(a, k)
      BY <2>1, <3>1 DEF Adds, Changes, TypeOK
    <3>3. page'[a] = None
      BY <3>2 DEF Changes, TypeOK
    <3>4. page[a] # None /\ page[a].schedule = k /\ page[a].row.version = sched[k].version
      BY <3>2 DEF Changes, Sees
    <3>5. page[a] \in Page /\ page[a].row = sched[k]
      BY <3>4 DEF TypeOK, PagesSound, PageSound
    <3>6. page[a] = [schedule |-> k, row |-> sched[k]]
      BY <3>4, <3>5 DEF Page
    <3>7. QED
      BY <3>3, <3>6
  <2>2. QED
    BY <2>1
<1>2. IInv /\ [Next]_vars => \A k \in Schedules : Seen(k)
  BY <1>1
<1>3. QED
  BY <1>2, Invariance, PTL DEF Spec, SchedulesAsSeen

=============================================================================
