----------------------------- MODULE Trips_proofs -----------------------------
(***************************************************************************)
(* Proofs about Trips, for any number of organizers, trips, participants,    *)
(* groups and rounds.                                                       *)
(*                                                                         *)
(* The inductive invariant is that of the open rounds: there is one at most   *)
(* (so current_round has no choice), it is the roster, and every dependent    *)
(* is accompanied. What the pages show is then compared with it: a version    *)
(* never goes back, and nothing changes without one.                        *)
(***************************************************************************)
EXTENDS Trips, FiniteSetTheorems, TLAPS

\* A row that moves to another group, or is marked, is still a row.
LEMMA MovedTyped ==
    ASSUME NEW q \in Person, NEW g \in Groups \cup {None}
    PROVE  [q EXCEPT !.group = g, !.version = @ + 1] \in Person
<1>1. [q EXCEPT !.group = g] \in Person
  BY DEF Person
<1>2. q.version + 1 \in Nat
  BY DEF Person
<1>3. \A x \in Person, n \in Nat : [x EXCEPT !.version = n] \in Person
  BY DEF Person
<1>4. QED
  BY <1>1, <1>2, <1>3

LEMMA MarkedTyped ==
    ASSUME NEW c \in Check, NEW status \in {"pending", "present", "absent"}
    PROVE  [c EXCEPT !.status = status, !.version = @ + 1] \in Check
<1>1. [c EXCEPT !.status = status] \in Check
  BY DEF Check
<1>2. c.version + 1 \in Nat
  BY DEF Check
<1>3. \A x \in Check, n \in Nat : [x EXCEPT !.version = n] \in Check
  BY DEF Check
<1>4. QED
  BY <1>1, <1>2, <1>3

\* The change of one row of the check table that most handlers end with.
LEMMA CheckRowTyped ==
    ASSUME TypeOK, NEW r \in Rounds, NEW rows \in Checks
    PROVE  [check EXCEPT ![r] = rows] \in [Rounds -> Checks]
BY DEF TypeOK

\* The checks that CheckedIn and Regrouped give are checks.
LEMMA CheckedInTyped ==
    ASSUME NEW rows \in Checks, NEW P \in SUBSET People, NEW Q \in Roster,
           \A p \in P : Q[p] # None
    PROVE  CheckedIn(rows, P, Q) \in Checks
<1>1. ASSUME NEW p \in P PROVE Pending(Q[p].group) \in Check
  BY DEF Pending, Check, Roster, Person
<1>2. QED
  BY <1>1 DEF CheckedIn, Checks

LEMMA RegroupedTyped ==
    ASSUME NEW rows \in Checks, NEW P \in SUBSET People,
           NEW g \in Groups \cup {None}
    PROVE  Regrouped(rows, P, g) \in Checks
<1>1. ASSUME NEW p \in People, rows[p] # None
      PROVE  [rows[p] EXCEPT !.group = g] \in Check
  <2>1. rows[p] \in Check
    BY <1>1 DEF Checks
  <2>2. QED
    BY <2>1 DEF Check
<1>2. QED
  BY <1>1 DEF Regrouped, Checks

LEMMA CheckOfTyped ==
    ASSUME TypeOK, NEW rows \in Checks, NEW p \in People, person[p] # None,
           NEW q \in Person, NEW regroup \in BOOLEAN
    PROVE  CheckOf(rows, p, q, regroup) \in Checks
<1>1. Pending(q.group) \in Check
  BY DEF Pending, Check, Person
<1>2. Regrouped(rows, {p}, q.group) \in Checks
  BY RegroupedTyped DEF Person
<1>3. \A c \in Check \cup {None} : [rows EXCEPT ![p] = c] \in Checks
  BY DEF Checks
<1>4. QED
  BY <1>1, <1>2, <1>3 DEF CheckOf

\* A trip has one current round at most, so current_round finds it.
LEMMA HeadcountIsOpen ==
    ASSUME TypeOK, OneHeadcount, NEW t \in Trips
    PROVE  /\ Headcount(t) # None => /\ Headcount(t) \in Rounds
                                     /\ Headcount(t) \in OpenRounds(t)
           /\ \A r \in OpenRounds(t) : r = Headcount(t)
<1>1. CASE OpenRounds(t) = {}
  BY <1>1 DEF Headcount
<1>2. CASE OpenRounds(t) # {}
  <2>1. PICK r \in OpenRounds(t) : TRUE
    BY <1>2
  <2>2. r \in Rounds /\ r \in Nat
    BY <2>1, RoundsAssumption DEF OpenRounds, RoundsOf
  <2>3. \A q \in OpenRounds(t) : q = r
    BY <2>1, <2>2 DEF OneHeadcount, OpenRounds, RoundsOf
  <2>4. IsLatest(r, OpenRounds(t))
    BY <2>1, <2>2, <2>3 DEF IsLatest
  <2>5. Latest(OpenRounds(t)) = r
    BY <2>1, <2>3, <2>4 DEF Latest
  <2>6. QED
    BY <1>2, <2>2, <2>3, <2>5 DEF Headcount
<1>3. QED
  BY <1>1, <1>2

\* What an update may make of a participant is a participant.
LEMMA EditsTyped ==
    ASSUME TypeOK, NEW p \in People, person[p] # None, NEW q \in Edits(p)
    PROVE  /\ q \in Person
           /\ q.trip = person[p].trip
           /\ q.version = person[p].version + 1
<1>1. person[p] \in Person
  BY DEF TypeOK, Roster
<1>2. QED
  BY <1>1 DEF Person, Edits

-----------------------------------------------------------------------------
(* Types.                                                                    *)

\* A handler's lock keeps the type of the trips; so does reading a page.
LEMMA BumpedTyped ==
    ASSUME TypeOK, NEW t \in Trips, trip[t] # None
    PROVE  /\ Bumped(t) \in [Trips -> TripRow \cup {None}]
           /\ Bumped(t)[t].status = trip[t].status
           /\ Bumped(t)[t].version = trip[t].version + 1
           /\ Bumped(t)[t] # None
           /\ \A u \in Trips : u # t => Bumped(t)[u] = trip[u]
<1>1. trip[t] \in TripRow
  BY DEF TypeOK
<1>2. QED
  BY <1>1, NoneAssumption DEF TypeOK, Bumped, TripRow

LEMMA ViewTyped ==
    ASSUME TypeOK, NEW o \in Organizers, NEW v \in View \cup {None}
    PROVE  [view EXCEPT ![o] = v] \in [Organizers -> View \cup {None}]
BY DEF TypeOK

LEMMA ReadsTyped ==
    ASSUME TypeOK, NEW o \in Organizers,
           \/ \E t \in Trips : ReadTrip(o, t)
           \/ ReadPeople(o)
           \/ \E r \in Rounds \cup {None} : ReadRounds(o, r)
           \/ ReadChecks(o)
    PROVE  TypeOK'
<1> USE DEF TypeOK
<1>0. NoPeople \in Roster /\ NoChecks \in Checks
  BY DEF NoPeople, NoChecks, Roster, Checks
<1>1. ASSUME NEW t \in Trips, ReadTrip(o, t) PROVE TypeOK'
  <2>1. trip[t].version \in Nat
    BY <1>1 DEF ReadTrip, TripRow
  <2>2. [step |-> "trip", trip |-> t, version |-> trip[t].version,
         people |-> NoPeople, round |-> None, checks |-> NoChecks] \in View
    BY <1>0, <2>1 DEF View
  <2>3. QED
    BY <1>1, <2>2 DEF ReadTrip, tables
<1>2. ASSUME ReadPeople(o) PROVE TypeOK'
  <2>1. view[o] \in View
    BY <1>2 DEF ReadPeople
  <2>2. RosterOf(view[o].trip) \in Roster
    BY DEF RosterOf, Roster
  <2>3. [view[o] EXCEPT !.step = "people",
                        !.people = RosterOf(view[o].trip)] \in View
    BY <2>1, <2>2 DEF View
  <2>4. view' \in [Organizers -> View \cup {None}]
    BY <1>2, <2>3 DEF ReadPeople
  <2>5. QED
    BY <1>2, <2>4 DEF ReadPeople, tables
<1>3. ASSUME NEW r \in Rounds \cup {None}, ReadRounds(o, r) PROVE TypeOK'
  <2>1. view[o] \in View
    BY <1>3 DEF ReadRounds
  <2>2. [view[o] EXCEPT !.step = "round", !.round = r] \in View
    BY <2>1 DEF View
  <2>3. view' \in [Organizers -> View \cup {None}]
    BY <1>3, <2>2 DEF ReadRounds
  <2>4. QED
    BY <1>3, <2>3 DEF ReadRounds, tables
<1>4. ASSUME ReadChecks(o) PROVE TypeOK'
  <2>1. view[o] \in View
    BY <1>4 DEF ReadChecks
  <2> DEFINE rows == IF view[o].round = None THEN NoChecks
                     ELSE check[view[o].round]
  <2>2. rows \in Checks
    BY <1>0, <2>1 DEF View
  <2>3. [view[o] EXCEPT !.step = "open", !.checks = rows] \in View
    BY <2>1, <2>2 DEF View
  <2>4. view' \in [Organizers -> View \cup {None}]
    BY <1>4, <2>3 DEF ReadChecks
  <2>5. QED
    BY <1>4, <2>4 DEF ReadChecks, tables
<1>5. QED
  BY <1>1, <1>2, <1>3, <1>4

\* Every step keeps the types, given that the current round is no choice.
LEMMA TypeStep ==
    ASSUME TypeOK, OneHeadcount, [Next]_vars
    PROVE  TypeOK'
<1> USE DEF TypeOK
<1>1. ASSUME NEW t \in Trips, NEW fee \in Amounts, CreateTrip(t, fee)
      PROVE  TypeOK'
  <2>1. [status |-> "planned", fee |-> fee, version |-> 1] \in TripRow
    BY DEF TripRow
  <2>2. QED
    BY <1>1, <2>1 DEF CreateTrip
<1>2. ASSUME NEW t \in Trips, NEW g \in Groups, AddGroup(t, g)
      PROVE  TypeOK'
  BY <1>2, BumpedTyped DEF AddGroup, Lock
<1>3. ASSUME NEW t \in Trips, NEW P \in SUBSET People,
             NEW adults \in SUBSET People, NEW g \in Groups \cup {None},
             NEW guardian \in People \cup {None},
             NEW studentOf \in [P -> Students \cup {None}],
             AddParticipants(t, P, studentOf, adults, g, guardian)
      PROVE  TypeOK'
  <2>1. trip' \in [Trips -> TripRow \cup {None}]
    BY <1>3, BumpedTyped DEF AddParticipants, Lock
  <2>2. trip[t].fee \in Amounts
    BY <1>3 DEF AddParticipants, Lock, TripRow
  <2>3. ASSUME NEW p \in P
        PROVE  [trip |-> t, adult |-> p \in adults,
                guardian |-> IF p \in adults THEN None ELSE guardian,
                group |-> g, active |-> TRUE,
                fee |-> trip[t].fee, paid |-> 0, version |-> 1] \in Person
    BY <2>2, AmountsAssumption DEF Person
  <2>4. person' \in Roster
    BY <1>3, <2>3 DEF AddParticipants, Roster
  <2>5. \A p \in P : person'[p] # None
    BY <1>3, <2>3, NoneAssumption DEF AddParticipants
  <2>6. check' \in [Rounds -> Checks]
    BY <1>3, <2>4, <2>5, CheckedInTyped, CheckRowTyped, HeadcountIsOpen
       DEF AddParticipants
  <2>7. student' \in [People -> Students \cup {None}]
    BY <1>3 DEF AddParticipants
  <2>8. QED
    BY <1>3, <2>1, <2>4, <2>6, <2>7 DEF AddParticipants
<1>4. ASSUME NEW o \in Organizers, NEW p \in People, person[p] # None,
             NEW q \in Edits(p), NEW regroup \in BOOLEAN,
             UpdateParticipant(o, p, q, regroup)
      PROVE  TypeOK'
  <2>1. q \in Person /\ person[p].trip \in Trips
    BY <1>4, EditsTyped DEF Roster, Person
  <2>2. trip' \in [Trips -> TripRow \cup {None}]
    BY <1>4, <2>1, BumpedTyped DEF UpdateParticipant, Lock
  <2>3. person' \in Roster
    BY <1>4, <2>1 DEF UpdateParticipant, Roster
  <2>4. check' \in [Rounds -> Checks]
    BY <1>4, <2>1, CheckOfTyped, CheckRowTyped, HeadcountIsOpen
       DEF UpdateParticipant
  <2>5. QED
    BY <1>4, <2>2, <2>3, <2>4, ViewTyped DEF UpdateParticipant, Used
<1>5. ASSUME NEW o \in Organizers, NEW t \in Trips, NEW P \in SUBSET People,
             NEW g \in Groups \cup {None}, AssignGroup(o, t, P, g)
      PROVE  TypeOK'
  <2>1. trip' \in [Trips -> TripRow \cup {None}]
    BY <1>5, BumpedTyped DEF AssignGroup, Lock
  <2>2. ASSUME NEW p \in P
        PROVE  [person[p] EXCEPT !.group = g, !.version = @ + 1] \in Person
    <3>1. p \in Active(t)
      BY <1>5 DEF AssignGroup
    <3>2. person[p] \in Person
      BY <3>1 DEF Active, Participants, Roster
    <3>3. QED
      BY <3>2, MovedTyped
  <2>3. person' \in Roster
    BY <1>5, <2>2 DEF AssignGroup, Roster
  <2>4. check' \in [Rounds -> Checks]
    BY <1>5, RegroupedTyped, CheckRowTyped, HeadcountIsOpen DEF AssignGroup
  <2>5. QED
    BY <1>5, <2>1, <2>3, <2>4, ViewTyped DEF AssignGroup, Used
<1>6. ASSUME NEW o \in Organizers, NEW t \in Trips, NEW r \in Rounds,
             StartRound(o, t, r)
      PROVE  TypeOK'
  <2>1. trip' \in [Trips -> TripRow \cup {None}]
    BY <1>6, BumpedTyped DEF StartRound, Lock
  <2>2. Closed(t) \in [Rounds -> Round \cup {None}]
    BY DEF Closed, Round, OpenRounds, RoundsOf
  <2>3. round' \in [Rounds -> Round \cup {None}]
    BY <1>6, <2>2 DEF StartRound, Round
  <2>4. NoChecks \in Checks /\ Active(t) \in SUBSET People
        /\ \A p \in Active(t) : person[p] # None
    BY DEF NoChecks, Checks, Active, Participants
  <2>5. check' \in [Rounds -> Checks]
    BY <1>6, <2>4, CheckedInTyped, CheckRowTyped DEF StartRound
  <2>6. QED
    BY <1>6, <2>1, <2>3, <2>5, ViewTyped DEF StartRound, Used
<1>7. ASSUME NEW o \in Organizers, NEW r \in Rounds, NEW p \in People,
             NEW status \in {"pending", "present", "absent"},
             MarkCheck(o, r, p, status)
      PROVE  TypeOK'
  <2>1. round[r].trip \in Trips
    BY <1>7 DEF MarkCheck, Round
  <2>2. trip' \in [Trips -> TripRow \cup {None}]
    BY <1>7, <2>1, BumpedTyped DEF MarkCheck, Lock
  <2>3. check[r][p] \in Check
    BY <1>7 DEF MarkCheck, Checks
  <2>4. [check[r][p] EXCEPT !.status = status, !.version = @ + 1] \in Check
    BY <2>3, MarkedTyped
  <2>5. check' = [check EXCEPT ![r] = [check[r] EXCEPT
                     ![p] = [check[r][p] EXCEPT !.status = status,
                                                !.version = @ + 1]]]
    BY <1>7 DEF MarkCheck, Checks
  <2>6. check' \in [Rounds -> Checks]
    BY <2>4, <2>5 DEF Checks
  <2>7. QED
    BY <1>7, <2>2, <2>6, ViewTyped DEF MarkCheck, Used
<1>8. ASSUME NEW o \in Organizers, NEW t \in Trips,
             NEW status \in {"planned", "completed"}, SetTripStatus(o, t, status)
      PROVE  TypeOK'
  <2>1. trip' \in [Trips -> TripRow \cup {None}]
    BY <1>8, BumpedTyped, NoneAssumption DEF SetTripStatus, TripRow
  <2>2. Closed(t) \in [Rounds -> Round \cup {None}]
    BY DEF Closed, Round, OpenRounds, RoundsOf
  <2>3. QED
    BY <1>8, <2>1, <2>2, ViewTyped DEF SetTripStatus, Used
<1>9. ASSUME NEW o \in Organizers,
             \/ \E t \in Trips : ReadTrip(o, t)
             \/ ReadPeople(o)
             \/ \E r \in Rounds \cup {None} : ReadRounds(o, r)
             \/ ReadChecks(o)
      PROVE  TypeOK'
  BY <1>9, ReadsTyped
<1>10. ASSUME NEW s \in Students, EnrollStudent(s) \/ DeleteStudent(s)
       PROVE  TypeOK'
  BY <1>10 DEF EnrollStudent, DeleteStudent
<1>11. CASE UNCHANGED vars
  BY <1>11 DEF vars
<1>12. QED
  BY <1>1, <1>2, <1>3, <1>4, <1>5, <1>6, <1>7, <1>8, <1>9, <1>10, <1>11
     DEF Next, Organize, Register

-----------------------------------------------------------------------------
(* One open round at most.                                                   *)

\* As long as the rounds stay and no trip is completed.
LEMMA SameRounds ==
    ASSUME TypeOK, OneHeadcount, UNCHANGED round,
           \A t \in Trips : \/ trip'[t].status = trip[t].status
                           \/ trip'[t].status = "planned"
    PROVE  OneHeadcount'
BY DEF OneHeadcount, Planned, TypeOK, Round

LEMMA LockKeepsStatus ==
    ASSUME TypeOK, NEW t \in Trips, Lock(t)
    PROVE  /\ trip[t] # None
           /\ trip' = Bumped(t)
           /\ trip'[t] # None
           /\ trip'[t].version = trip[t].version + 1
           /\ \A u \in Trips : u # t => trip'[u] = trip[u]
           /\ \A u \in Trips : trip'[u].status = trip[u].status
BY BumpedTyped DEF Lock

\* Of the rounds of t none is open in Closed(t); the others are as they were.
LEMMA ClosedRounds ==
    ASSUME TypeOK, NEW t \in Trips, NEW r \in Rounds
    PROVE  /\ Closed(t)[r] = None <=> round[r] = None
           /\ round[r] # None => Closed(t)[r].trip = round[r].trip
           /\ round[r] # None =>
                 (Closed(t)[r].open <=> round[r].open /\ round[r].trip # t)
           /\ round[r] # None /\ (round[r].trip # t \/ ~round[r].open)
              => Closed(t)[r] = round[r]
<1>1. CASE r \in OpenRounds(t)
  <2>1. round[r] \in Round /\ round[r].open /\ round[r].trip = t
    BY <1>1 DEF OpenRounds, RoundsOf, TypeOK
  <2>2. Closed(t)[r] = [round[r] EXCEPT !.open = FALSE]
    BY <1>1 DEF Closed
  <2>3. Closed(t)[r] \in Round /\ ~Closed(t)[r].open /\ Closed(t)[r].trip = t
    BY <2>1, <2>2 DEF Round
  <2>4. QED
    BY <2>1, <2>3, NoneAssumption
<1>2. CASE r \notin OpenRounds(t)
  <2>1. Closed(t)[r] = round[r]
    BY <1>2 DEF Closed
  <2>2. QED
    BY <1>2, <2>1 DEF OpenRounds, RoundsOf
<1>3. QED
  BY <1>1, <1>2

LEMMA OneHeadcountStep ==
    ASSUME TypeOK, OneHeadcount, [Next]_vars
    PROVE  OneHeadcount'
<1>1. ASSUME NEW t \in Trips, NEW fee \in Amounts, CreateTrip(t, fee)
      PROVE  OneHeadcount'
  <2>1. \A u \in Trips : trip'[u] = trip[u] \/ trip'[u].status = "planned"
    BY <1>1 DEF CreateTrip, TypeOK
  <2>2. QED
    BY <1>1, <2>1, SameRounds DEF CreateTrip
<1>2. ASSUME NEW t \in Trips, Lock(t), UNCHANGED round
      PROVE  OneHeadcount'
  BY <1>2, LockKeepsStatus, SameRounds
<1>3. ASSUME NEW o \in Organizers, NEW t \in Trips, NEW r \in Rounds,
             StartRound(o, t, r)
      PROVE  OneHeadcount'
  <2>1. round[r] = None /\ trip[t].status = "planned"
    BY <1>3, RoundsAssumption DEF StartRound, Planned
  <2>2. round' = [Closed(t) EXCEPT ![r] = [trip |-> t, open |-> TRUE]]
    BY <1>3 DEF StartRound
  <2>3. /\ round'[r] = [trip |-> t, open |-> TRUE]
        /\ \A q \in Rounds : q # r => round'[q] = Closed(t)[q]
    BY <2>2 DEF Closed
  <2>4. \A q \in Rounds :
           q # r /\ round'[q] # None /\ round'[q].open =>
              /\ round[q] # None /\ round[q].open
              /\ round[q].trip = round'[q].trip /\ round[q].trip # t
    BY <2>3, ClosedRounds
  <2>5. \A u \in Trips : trip'[u].status = trip[u].status
    BY <1>3, LockKeepsStatus DEF StartRound
  <2>6. \A q \in Rounds : round[q] # None => round[q].trip \in Trips
    BY DEF TypeOK, Round
  <2>7. QED
    BY <2>1, <2>3, <2>4, <2>5, <2>6 DEF OneHeadcount, Planned
<1>4. ASSUME NEW o \in Organizers, NEW t \in Trips,
             NEW status \in {"planned", "completed"}, SetTripStatus(o, t, status)
      PROVE  OneHeadcount'
  <2>1. /\ trip'[t].status = status
        /\ \A u \in Trips : u # t => trip'[u] = trip[u]
    <3>1. trip' = [Bumped(t) EXCEPT ![t].status = status] /\ trip[t] # None
      BY <1>4 DEF SetTripStatus
    <3>2. trip[t] \in TripRow
      BY <3>1 DEF TypeOK
    <3>3. Bumped(t)[t] = [trip[t] EXCEPT !.version = @ + 1]
      BY DEF Bumped, TypeOK
    <3>4. Bumped(t)[t] \in [status : {"planned", "completed"},
                            fee : Amounts, version : Nat]
      BY <3>2, <3>3 DEF TripRow
    <3>5. Bumped(t) \in [Trips -> TripRow \cup {None}]
      BY <3>1, BumpedTyped
    <3>6. trip'[t] = [Bumped(t)[t] EXCEPT !.status = status]
      BY <3>1, <3>5
    <3>7. QED
      BY <3>1, <3>4, <3>5, <3>6, BumpedTyped
  <2>2. CASE status = "planned"
    BY <1>4, <2>1, <2>2, SameRounds DEF SetTripStatus
  <2>3. CASE status = "completed"
    <3>1. round' = Closed(t)
      BY <1>4, <2>3 DEF SetTripStatus
    <3>2. \A q \in Rounds :
             round'[q] # None /\ round'[q].open =>
                /\ round[q] # None /\ round[q].open
                /\ round[q].trip = round'[q].trip /\ round[q].trip # t
      BY <3>1, ClosedRounds
    <3>3. \A q \in Rounds : round[q] # None => round[q].trip \in Trips
      BY DEF TypeOK, Round
    <3>4. QED
      BY <2>1, <3>2, <3>3 DEF OneHeadcount, Planned
  <2>4. QED
    BY <2>2, <2>3
<1>5. CASE UNCHANGED <<trip, round>>
  BY <1>5, SameRounds
<1>6. ASSUME NEW o \in Organizers, NEW p \in People, person[p] # None,
             NEW q \in Edits(p), NEW regroup \in BOOLEAN,
             UpdateParticipant(o, p, q, regroup)
      PROVE  OneHeadcount'
  <2>1. person[p].trip \in Trips
    BY <1>6 DEF TypeOK, Roster, Person
  <2>2. QED
    BY <1>2, <1>6, <2>1 DEF UpdateParticipant
<1>7. ASSUME NEW o \in Organizers, NEW r \in Rounds, NEW p \in People,
             NEW status \in {"pending", "present", "absent"},
             MarkCheck(o, r, p, status)
      PROVE  OneHeadcount'
  <2>1. round[r].trip \in Trips
    BY <1>7 DEF MarkCheck, TypeOK, Round
  <2>2. QED
    BY <1>2, <1>7, <2>1 DEF MarkCheck
<1>8. ASSUME NEW o \in Organizers, Organize(o) PROVE OneHeadcount'
  BY <1>2, <1>3, <1>4, <1>5, <1>6, <1>7, <1>8
     DEF Organize, AssignGroup, ReadTrip, ReadPeople, ReadRounds, ReadChecks,
         tables
<1>9. ASSUME Register PROVE OneHeadcount'
  BY <1>1, <1>2, <1>9 DEF Register, AddGroup, AddParticipants
<1>10. QED
  BY <1>5, <1>8, <1>9 DEF Next, EnrollStudent, DeleteStudent, vars

-----------------------------------------------------------------------------
(* The open round is the roster.                                             *)

\* What HeadcountIsRoster says of one round and one participant.
Counts(r, p) == IF p \in Active(round[r].trip)
                THEN /\ check[r][p] # None
                     /\ check[r][p].group = person[p].group
                ELSE check[r][p] = None

LEMMA WhichRound ==
    ASSUME TypeOK, OneHeadcount, NEW t \in Trips,
           NEW r \in Rounds, round[r] # None, round[r].open
    PROVE  /\ Headcount(t) # None => Headcount(t) \in Rounds
           /\ round[r].trip = t => Headcount(t) # None /\ Headcount(t) = r
           /\ round[r].trip # t => Headcount(t) # r
<1>1. CASE round[r].trip = t
  <2>1. r \in OpenRounds(t)
    BY <1>1 DEF OpenRounds, RoundsOf
  <2>2. QED
    BY <1>1, <2>1, HeadcountIsOpen, NoneAssumption
<1>2. CASE round[r].trip # t
  <2>1. r \notin OpenRounds(t)
    BY <1>2 DEF OpenRounds, RoundsOf
  <2>2. QED
    BY <1>2, <2>1, HeadcountIsOpen, NoneAssumption
<1>3. QED
  BY <1>1, <1>2

\* New participants are pending in the round that is open.
LEMMA AddCounts ==
    ASSUME TypeOK, OneHeadcount, HeadcountIsRoster,
           NEW t \in Trips, NEW P \in SUBSET People,
           NEW adults \in SUBSET People, NEW g \in Groups \cup {None},
           NEW guardian \in People \cup {None},
           NEW studentOf \in [P -> Students \cup {None}],
           AddParticipants(t, P, studentOf, adults, g, guardian)
    PROVE  HeadcountIsRoster'
<1> SUFFICES ASSUME NEW r \in Rounds, round[r] # None, round[r].open,
                    NEW p \in People
             PROVE  Counts(r, p)'
  BY DEF AddParticipants, HeadcountIsRoster, Counts
<1>1. Counts(r, p)
  BY DEF HeadcountIsRoster, Counts
<1>2. /\ round' = round
      /\ p \in P => /\ person[p] = None /\ person'[p].trip = t
                    /\ person'[p].active /\ person'[p].group = g
                    /\ person'[p] # None
      /\ p \notin P => person'[p] = person[p]
  <2>1. p \in P => /\ person[p] = None
                   /\ person'[p] = [trip |-> t, adult |-> p \in adults,
                           guardian |-> IF p \in adults THEN None ELSE guardian,
                           group |-> g, active |-> TRUE,
                           fee |-> trip[t].fee, paid |-> 0, version |-> 1]
    BY DEF AddParticipants
  <2>2. trip[t].fee \in Amounts
    BY DEF AddParticipants, Lock, TypeOK, TripRow
  <2>3. [trip |-> t, adult |-> p \in adults,
         guardian |-> IF p \in adults THEN None ELSE guardian,
         group |-> g, active |-> TRUE,
         fee |-> trip[t].fee, paid |-> 0, version |-> 1] \in Person
    BY <2>2, AmountsAssumption DEF Person
  <2>4. QED
    BY <2>1, <2>3, NoneAssumption DEF AddParticipants
<1>3. CASE round[r].trip # t
  <2>1. check'[r] = check[r]
    BY <1>3, WhichRound DEF AddParticipants, TypeOK
  <2>2. QED
    BY <1>1, <1>2, <1>3, <2>1 DEF Counts, Active, Participants
<1>4. CASE round[r].trip = t
  <2>1. check'[r] = CheckedIn(check[r], P, person')
    BY <1>4, WhichRound DEF AddParticipants, TypeOK
  <2>2. check'[r][p] = IF p \in P THEN Pending(person'[p].group)
                                  ELSE check[r][p]
    BY <2>1 DEF CheckedIn
  <2>3. p \in P => Pending(g) \in Check /\ Pending(g).group = g
    BY DEF Pending, Check
  <2>4. QED
    BY <1>1, <1>2, <1>4, <2>2, <2>3, NoneAssumption
       DEF Counts, Active, Participants
<1>5. QED
  BY <1>3, <1>4

\* A participant who leaves, returns or moves does so in the open round, too.
LEMMA UpdateCounts ==
    ASSUME TypeOK, OneHeadcount, HeadcountIsRoster,
           NEW o \in Organizers, NEW p \in People, person[p] # None,
           NEW q \in Edits(p), NEW regroup \in BOOLEAN,
           UpdateParticipant(o, p, q, regroup)
    PROVE  HeadcountIsRoster'
<1> DEFINE t == person[p].trip
<1> SUFFICES ASSUME NEW r \in Rounds, round[r] # None, round[r].open,
                    NEW x \in People
             PROVE  Counts(r, x)'
  BY DEF UpdateParticipant, HeadcountIsRoster, Counts
<1>1. Counts(r, x)
  BY DEF HeadcountIsRoster, Counts
<1>2. /\ t \in Trips /\ q \in Person /\ q # None /\ q.trip = t
      /\ round' = round
      /\ person'[p] = q
      /\ x # p => person'[x] = person[x]
  BY EditsTyped, NoneAssumption DEF UpdateParticipant, TypeOK, Roster, Person
<1>3. CASE round[r].trip # t
  <2>1. check'[r] = check[r]
    BY <1>2, <1>3, WhichRound DEF UpdateParticipant, TypeOK
  <2>2. QED
    BY <1>1, <1>2, <1>3, <2>1 DEF Counts, Active, Participants
<1>4. CASE round[r].trip = t
  <2>1. check'[r] = CheckOf(check[r], p, q, regroup)
    BY <1>2, <1>4, WhichRound DEF UpdateParticipant, TypeOK
  <2>2. check[r] \in Checks
    BY DEF TypeOK
  <2>3. CASE q.active # person[p].active
    <3>1. check'[r] = [check[r] EXCEPT
                          ![p] = IF q.active THEN Pending(q.group) ELSE None]
      BY <2>1, <2>3 DEF CheckOf
    <3>2. /\ check'[r][p] = IF q.active THEN Pending(q.group) ELSE None
          /\ x # p => check'[r][x] = check[r][x]
      BY <2>2, <3>1 DEF Checks
    <3>3. Pending(q.group) \in Check /\ Pending(q.group).group = q.group
      BY <1>2 DEF Pending, Check, Person
    <3>4. QED
      BY <1>1, <1>2, <1>4, <3>2, <3>3, NoneAssumption
         DEF Counts, Active, Participants
  <2>4. CASE q.active = person[p].active /\ regroup
    <3>1. check'[r] = Regrouped(check[r], {p}, q.group)
      BY <2>1, <2>4 DEF CheckOf
    <3>2. /\ check'[r][p] = IF check[r][p] # None
                            THEN [check[r][p] EXCEPT !.group = q.group] ELSE None
          /\ x # p => check'[r][x] = check[r][x]
      BY <3>1 DEF Regrouped
    <3>3. check[r][p] # None =>
             /\ check'[r][p] \in Check
             /\ check'[r][p].group = q.group
      BY <1>2, <2>2, <3>2 DEF Checks, Check, Person
    <3>4. QED
      BY <1>1, <1>2, <1>4, <2>4, <3>2, <3>3, NoneAssumption
         DEF Counts, Active, Participants
  <2>5. CASE q.active = person[p].active /\ ~regroup
    <3>1. check'[r] = check[r]
      BY <2>1, <2>5 DEF CheckOf
    <3>2. q.group = person[p].group
      BY <2>5 DEF UpdateParticipant, AcceptsUpdate
    <3>3. QED
      BY <1>1, <1>2, <1>4, <2>5, <3>1, <3>2 DEF Counts, Active, Participants
  <2>6. QED
    BY <2>3, <2>4, <2>5
<1>5. QED
  BY <1>3, <1>4

LEMMA AssignCounts ==
    ASSUME TypeOK, OneHeadcount, HeadcountIsRoster,
           NEW o \in Organizers, NEW t \in Trips, NEW P \in SUBSET People,
           NEW g \in Groups \cup {None}, AssignGroup(o, t, P, g)
    PROVE  HeadcountIsRoster'
<1> SUFFICES ASSUME NEW r \in Rounds, round[r] # None, round[r].open,
                    NEW p \in People
             PROVE  Counts(r, p)'
  BY DEF AssignGroup, HeadcountIsRoster, Counts
<1>1. Counts(r, p)
  BY DEF HeadcountIsRoster, Counts
<1>2. /\ round' = round
      /\ p \in P => /\ p \in Active(t)
                    /\ person'[p] \in Person /\ person'[p] # None
                    /\ person'[p].trip = t /\ person'[p].active
                    /\ person'[p].group = g
      /\ p \notin P => person'[p] = person[p]
  <2>1. p \in P => p \in Active(t) /\ person[p] \in Person
    BY DEF AssignGroup, Active, Participants, TypeOK, Roster
  <2>2. p \in P => person'[p] = [person[p] EXCEPT !.group = g, !.version = @ + 1]
    BY DEF AssignGroup
  <2>3. ASSUME NEW x \in Person
        PROVE  LET y == [x EXCEPT !.group = g, !.version = @ + 1]
               IN /\ y \in Person
                  /\ y.trip = x.trip /\ y.active = x.active /\ y.group = g
    BY MovedTyped DEF Person
  <2>4. p \in P => /\ person[p].trip = t /\ person[p].active
                   /\ person'[p] \in Person
                   /\ person'[p].trip = person[p].trip
                   /\ person'[p].active = person[p].active
                   /\ person'[p].group = g
    BY <2>1, <2>2, <2>3 DEF Active, Participants
  <2>5. QED
    BY <2>1, <2>4, NoneAssumption DEF AssignGroup
<1>3. CASE round[r].trip # t
  <2>1. check'[r] = check[r]
    BY <1>3, WhichRound DEF AssignGroup, TypeOK
  <2>2. QED
    BY <1>1, <1>2, <1>3, <2>1 DEF Counts, Active, Participants
<1>4. CASE round[r].trip = t
  <2>1. check'[r] = Regrouped(check[r], P, g)
    BY <1>4, WhichRound DEF AssignGroup, TypeOK
  <2>2. check'[r][p] = IF p \in P /\ check[r][p] # None
                       THEN [check[r][p] EXCEPT !.group = g] ELSE check[r][p]
    BY <2>1 DEF Regrouped
  <2>3. p \in P => check[r][p] # None
    BY <1>1, <1>2, <1>4 DEF Counts
  <2>4. p \in P => check'[r][p] \in Check /\ check'[r][p].group = g
    <3>1. \A c \in Check : LET d == [c EXCEPT !.group = g]
                           IN d \in Check /\ d.group = g
      BY DEF Check
    <3>2. p \in P => check[r][p] \in Check
      BY <2>3 DEF TypeOK, Checks
    <3>3. QED
      BY <2>2, <2>3, <3>1, <3>2
  <2>5. QED
    BY <1>1, <1>2, <1>4, <2>2, <2>4, NoneAssumption
       DEF Counts, Active, Participants
<1>5. QED
  BY <1>3, <1>4

LEMMA StartCounts ==
    ASSUME TypeOK, OneHeadcount, HeadcountIsRoster,
           NEW o \in Organizers, NEW t \in Trips, NEW r \in Rounds,
           StartRound(o, t, r)
    PROVE  HeadcountIsRoster'
<1>1. /\ round[r] = None
      /\ round'[r] = [trip |-> t, open |-> TRUE]
      /\ \A q \in Rounds : q # r => round'[q] = Closed(t)[q]
      /\ person' = person
  <2>1. round[r] = None
    BY RoundsAssumption DEF StartRound
  <2>2. Closed(t) \in [Rounds -> {Closed(t)[q] : q \in Rounds}]
    BY DEF Closed
  <2>3. round' = [Closed(t) EXCEPT ![r] = [trip |-> t, open |-> TRUE]]
    BY DEF StartRound
  <2>4. QED
    BY <2>1, <2>2, <2>3 DEF StartRound
<1>2. ASSUME NEW p \in People PROVE Counts(r, p)'
  <2>1. check'[r] = CheckedIn(NoChecks, Active(t), person)
    BY DEF StartRound, TypeOK
  <2>2. check'[r][p] = IF p \in Active(t) THEN Pending(person[p].group) ELSE None
    BY <2>1 DEF CheckedIn, NoChecks
  <2>3. p \in Active(t) => /\ Pending(person[p].group) # None
                           /\ Pending(person[p].group).group = person[p].group
    <3>1. ASSUME p \in Active(t)
          PROVE  Pending(person[p].group) \in Check
      <4>1. person[p] \in Person
        BY <3>1 DEF Active, Participants, TypeOK, Roster
      <4>2. QED
        BY <4>1 DEF Pending, Check, Person
    <3>2. QED
      BY <3>1, NoneAssumption DEF Pending
  <2>4. Active(t)' = Active(t)
    BY <1>1 DEF Active, Participants
  <2>5. QED
    BY <1>1, <2>2, <2>3, <2>4 DEF Counts
<1>3. ASSUME NEW q \in Rounds, q # r, round'[q] # None, round'[q].open,
             NEW p \in People
      PROVE  Counts(q, p)'
  <2>1. /\ round[q] # None /\ round[q].open
        /\ round'[q].trip = round[q].trip
    BY <1>1, <1>3, ClosedRounds
  <2>2. check'[q] = check[q]
    BY <1>3 DEF StartRound
  <2>3. Counts(q, p)
    BY <2>1 DEF HeadcountIsRoster, Counts
  <2>4. QED
    BY <1>1, <2>1, <2>2, <2>3 DEF Counts, Active, Participants
<1>4. QED
  BY <1>2, <1>3 DEF HeadcountIsRoster, Counts

LEMMA MarkCounts ==
    ASSUME TypeOK, OneHeadcount, HeadcountIsRoster,
           NEW o \in Organizers, NEW r \in Rounds, NEW p \in People,
           NEW status \in {"pending", "present", "absent"},
           MarkCheck(o, r, p, status)
    PROVE  HeadcountIsRoster'
<1>1. check[r][p] # None /\ check[r][p] \in Check
  BY DEF MarkCheck, TypeOK, Checks
<1>2. check'[r][p] = [check[r][p] EXCEPT !.status = status, !.version = @ + 1]
  BY DEF MarkCheck, TypeOK, Checks
<1>3. \A c \in Check : LET d == [c EXCEPT !.status = status, !.version = @ + 1]
                       IN d \in Check /\ d.group = c.group
  <2>1. \A c \in Check : [c EXCEPT !.status = status, !.version = @ + 1].group
                         = c.group
    BY DEF Check
  <2>2. QED
    BY <2>1, MarkedTyped
<1>4. check'[r][p] # None /\ check'[r][p].group = check[r][p].group
  BY <1>1, <1>2, <1>3, NoneAssumption
<1>5. \A q \in Rounds, x \in People :
         <<q, x>> # <<r, p>> => check'[q][x] = check[q][x]
  BY DEF MarkCheck, TypeOK, Checks
<1>6. UNCHANGED <<person, round>>
  BY DEF MarkCheck
<1>7. ASSUME NEW q \in Rounds, round[q] # None, round[q].open, NEW x \in People
      PROVE  Counts(q, x)'
  <2>1. Counts(q, x)
    BY <1>7 DEF HeadcountIsRoster, Counts
  <2>2. CASE <<q, x>> = <<r, p>>
    BY <1>1, <1>4, <1>6, <2>1, <2>2 DEF Counts, Active, Participants
  <2>3. CASE <<q, x>> # <<r, p>>
    BY <1>5, <1>6, <2>1, <2>3 DEF Counts, Active, Participants
  <2>4. QED
    BY <2>2, <2>3
<1>8. QED
  BY <1>6, <1>7 DEF HeadcountIsRoster, Counts

LEMMA StatusCounts ==
    ASSUME TypeOK, HeadcountIsRoster,
           NEW o \in Organizers, NEW t \in Trips,
           NEW status \in {"planned", "completed"}, SetTripStatus(o, t, status)
    PROVE  HeadcountIsRoster'
<1>1. \A r \in Rounds :
         round'[r] # None /\ round'[r].open =>
            /\ round[r] # None /\ round[r].open
            /\ round'[r].trip = round[r].trip
  BY ClosedRounds DEF SetTripStatus
<1>2. UNCHANGED <<person, check>>
  BY DEF SetTripStatus
<1>3. QED
  BY <1>1, <1>2 DEF HeadcountIsRoster, Active, Participants

LEMMA HeadcountStep ==
    ASSUME TypeOK, OneHeadcount, HeadcountIsRoster, [Next]_vars
    PROVE  HeadcountIsRoster'
<1>1. CASE UNCHANGED <<person, round, check>>
  BY <1>1 DEF HeadcountIsRoster, Active, Participants
<1>2. ASSUME NEW o \in Organizers, Organize(o) PROVE HeadcountIsRoster'
  BY <1>1, <1>2, UpdateCounts, AssignCounts, StartCounts, MarkCounts,
     StatusCounts
     DEF Organize, ReadTrip, ReadPeople, ReadRounds, ReadChecks, tables
<1>3. ASSUME Register PROVE HeadcountIsRoster'
  BY <1>1, <1>3, AddCounts DEF Register, CreateTrip, AddGroup
<1>4. QED
  BY <1>1, <1>2, <1>3 DEF Next, EnrollStudent, DeleteStudent, vars

-----------------------------------------------------------------------------
(* Every dependent is accompanied.                                           *)

\* What DependentsAccompanied says of one participant.
Accompanied(p) ==
    person[p] # None /\ person[p].active /\ person[p].guardian # None =>
        LET g == person[p].guardian
        IN /\ g \in People /\ person[g] # None
           /\ person[g].trip = person[p].trip /\ person[g].active
           /\ person[g].adult /\ person[g].guardian = None

LEMMA AccompaniedEach ==
    ASSUME TypeOK
    PROVE  DependentsAccompanied <=> \A p \in People : Accompanied(p)
<1>1. \A p \in People : person[p] # None => person[p].trip \in Trips
  BY DEF TypeOK, Roster, Person
<1>2. QED
  BY <1>1 DEF DependentsAccompanied, Accompanied, Active, Participants

LEMMA AddAccompanies ==
    ASSUME TypeOK, \A p \in People : Accompanied(p),
           NEW t \in Trips, NEW P \in SUBSET People,
           NEW adults \in SUBSET People, NEW g \in Groups \cup {None},
           NEW guardian \in People \cup {None},
           NEW studentOf \in [P -> Students \cup {None}],
           AddParticipants(t, P, studentOf, adults, g, guardian)
    PROVE  \A p \in People : Accompanied(p)'
<1>1. \A p \in P : /\ person[p] = None
                   /\ person'[p].trip = t
                   /\ person'[p].guardian = IF p \in adults THEN None ELSE guardian
  BY DEF AddParticipants
<1>2. \A p \in People \ P : person'[p] = person[p]
  BY DEF AddParticipants
<1>3. guardian # None => /\ guardian \in People /\ person[guardian] # None
                         /\ person[guardian].trip = t
                         /\ person[guardian].active /\ person[guardian].adult
                         /\ person[guardian].guardian = None
  BY DEF AddParticipants, ValidGuardian, Active, Participants
<1>4. QED
  BY <1>1, <1>2, <1>3 DEF Accompanied

LEMMA UpdateAccompanies ==
    ASSUME TypeOK, \A p \in People : Accompanied(p),
           NEW o \in Organizers, NEW p \in People, person[p] # None,
           NEW q \in Edits(p), NEW regroup \in BOOLEAN,
           UpdateParticipant(o, p, q, regroup)
    PROVE  \A x \in People : Accompanied(x)'
<1>1. /\ person[p].trip \in Trips
      /\ q \in Person /\ q # None /\ q.trip = person[p].trip
      /\ person'[p] = q
      /\ \A x \in People : x # p => person'[x] = person[x]
  BY EditsTyped, NoneAssumption DEF UpdateParticipant, TypeOK, Roster, Person
<1>2. AcceptsUpdate(person[p].trip, p, q, regroup)
  BY DEF UpdateParticipant
<1>3. Accompanied(p)'
  <2>1. q.active /\ q.guardian # None =>
           /\ q.guardian \in People /\ q.guardian # p
           /\ person[q.guardian] # None
           /\ person[q.guardian].trip = person[p].trip
           /\ person[q.guardian].active /\ person[q.guardian].adult
           /\ person[q.guardian].guardian = None
    BY <1>1, <1>2 DEF AcceptsUpdate, ValidGuardian, Active, Participants, Person
  <2>2. QED
    BY <1>1, <2>1 DEF Accompanied
<1>4. ASSUME NEW x \in People, x # p PROVE Accompanied(x)'
  <2>1. CASE person[x].guardian # p
    BY <1>1, <1>4, <2>1 DEF Accompanied
  <2>2. CASE person[x].guardian = p /\ person[x] # None /\ person[x].active
    <3>1. person[x].trip = person[p].trip
      BY <2>2, NoneAssumption DEF Accompanied
    <3>2. x \in Dependents(person[p].trip, p)
      BY <2>2, <3>1 DEF Dependents, Active, Participants
    <3>3. q.adult /\ q.active
      BY <1>1, <1>2, <3>2 DEF AcceptsUpdate, DependentsFollow, Person
    <3>4. q.guardian = None
      BY <1>2, <3>3 DEF AcceptsUpdate
    <3>5. QED
      BY <1>1, <1>4, <2>2, <3>1, <3>3, <3>4 DEF Accompanied
  <2>3. CASE person[x] = None \/ ~person[x].active
    BY <1>1, <1>4, <2>3 DEF Accompanied
  <2>4. QED
    BY <2>1, <2>2, <2>3
<1>5. QED
  BY <1>3, <1>4

LEMMA AssignAccompanies ==
    ASSUME TypeOK, \A p \in People : Accompanied(p),
           NEW o \in Organizers, NEW t \in Trips, NEW P \in SUBSET People,
           NEW g \in Groups \cup {None}, AssignGroup(o, t, P, g)
    PROVE  \A p \in People : Accompanied(p)'
<1>1. \A p \in P : person[p] # None /\ person[p] \in Person
  BY DEF AssignGroup, Active, Participants, TypeOK, Roster
<1>2. \A x \in Person :
         LET y == [x EXCEPT !.group = g, !.version = @ + 1]
         IN /\ y \in Person /\ y.trip = x.trip /\ y.active = x.active
            /\ y.adult = x.adult /\ y.guardian = x.guardian
  BY MovedTyped DEF Person
<1>3. \A p \in People :
         /\ person'[p] # None <=> person[p] # None
         /\ person[p] # None => /\ person'[p].trip = person[p].trip
                                /\ person'[p].active = person[p].active
                                /\ person'[p].adult = person[p].adult
                                /\ person'[p].guardian = person[p].guardian
  BY <1>1, <1>2, NoneAssumption DEF AssignGroup
<1>4. QED
  BY <1>3 DEF Accompanied

LEMMA AccompaniedStep ==
    ASSUME TypeOK, OneHeadcount, DependentsAccompanied, [Next]_vars
    PROVE  DependentsAccompanied'
<1>0. /\ \A p \in People : Accompanied(p)
      /\ (\A p \in People : Accompanied(p)') => DependentsAccompanied'
  <2>1. TypeOK'
    BY TypeStep
  <2>2. \A p \in People : person'[p] # None => person'[p].trip \in Trips
    BY <2>1 DEF TypeOK, Roster, Person
  <2>3. QED
    BY <2>2, AccompaniedEach
       DEF DependentsAccompanied, Accompanied, Active, Participants
<1>1. CASE UNCHANGED person
  BY <1>0, <1>1 DEF Accompanied
<1>2. ASSUME NEW o \in Organizers, Organize(o) PROVE DependentsAccompanied'
  BY <1>0, <1>1, <1>2, UpdateAccompanies, AssignAccompanies
     DEF Organize, ReadTrip, ReadPeople, ReadRounds, ReadChecks, tables,
         StartRound, MarkCheck, SetTripStatus
<1>3. ASSUME Register PROVE DependentsAccompanied'
  BY <1>0, <1>1, <1>3, AddAccompanies DEF Register, CreateTrip, AddGroup
<1>4. QED
  BY <1>1, <1>2, <1>3 DEF Next, EnrollStudent, DeleteStudent, vars

-----------------------------------------------------------------------------
(* A step belongs to one trip, and is one version of it.                      *)

\* A step that is a new version of u changes nothing of another trip.
Touches(u) ==
    /\ trip[u] # None /\ trip'[u] # None
    /\ trip'[u].version = trip[u].version + 1
    /\ \A t \in Trips : t # u => trip'[t] = trip[t]
    /\ \A p \in People : person'[p] # person[p] =>
          /\ person'[p] # None /\ person'[p].trip = u
          /\ person[p] # None => person[p].trip = u
    /\ \A r \in Rounds : check'[r] # check[r] =>
          round[r] = None \/ round[r].trip = u
    /\ \A r \in Rounds : round[r] # None =>
          round'[r] # None /\ round'[r].trip = round[r].trip

LEMMA HeadcountChange ==
    ASSUME TypeOK, OneHeadcount, NEW t \in Trips, NEW rows,
           check' = IF Headcount(t) = None THEN check
                    ELSE [check EXCEPT ![Headcount(t)] = rows],
           NEW r \in Rounds, check'[r] # check[r]
    PROVE  round[r].trip = t /\ round[r].open
<1>1. r = Headcount(t) /\ Headcount(t) # None
  BY DEF TypeOK
<1>2. QED
  BY <1>1, HeadcountIsOpen DEF OpenRounds, RoundsOf

LEMMA AddTouches ==
    ASSUME TypeOK, OneHeadcount,
           NEW t \in Trips, NEW P \in SUBSET People,
           NEW adults \in SUBSET People, NEW g \in Groups \cup {None},
           NEW guardian \in People \cup {None},
           NEW studentOf \in [P -> Students \cup {None}],
           AddParticipants(t, P, studentOf, adults, g, guardian)
    PROVE  Touches(t)
<1>1. /\ trip[t] # None /\ trip'[t] # None
      /\ trip'[t].version = trip[t].version + 1
      /\ \A u \in Trips : u # t => trip'[u] = trip[u]
  BY LockKeepsStatus DEF AddParticipants
<1>2. ASSUME NEW p \in People, person'[p] # person[p]
      PROVE  person'[p] # None /\ person'[p].trip = t /\ person[p] = None
  BY <1>2 DEF AddParticipants
<1>3. ASSUME NEW r \in Rounds, check'[r] # check[r] PROVE round[r].trip = t
  BY <1>3, HeadcountChange DEF AddParticipants
<1>4. QED
  BY <1>1, <1>2, <1>3 DEF Touches, AddParticipants

LEMMA UpdateTouches ==
    ASSUME TypeOK, OneHeadcount,
           NEW o \in Organizers, NEW p \in People, person[p] # None,
           NEW q \in Edits(p), NEW regroup \in BOOLEAN,
           UpdateParticipant(o, p, q, regroup)
    PROVE  Touches(person[p].trip)
<1> DEFINE t == person[p].trip
<1>0. t \in Trips /\ q # None /\ q.trip = t
  BY EditsTyped, NoneAssumption DEF TypeOK, Roster, Person
<1>1. /\ trip[t] # None /\ trip'[t] # None
      /\ trip'[t].version = trip[t].version + 1
      /\ \A u \in Trips : u # t => trip'[u] = trip[u]
  BY <1>0, LockKeepsStatus DEF UpdateParticipant
<1>2. ASSUME NEW x \in People, person'[x] # person[x]
      PROVE  person'[x] # None /\ person'[x].trip = t /\ person[x].trip = t
  BY <1>0, <1>2 DEF UpdateParticipant, TypeOK, Roster
<1>3. ASSUME NEW r \in Rounds, check'[r] # check[r] PROVE round[r].trip = t
  BY <1>0, <1>3, HeadcountChange DEF UpdateParticipant
<1>4. QED
  BY <1>1, <1>2, <1>3 DEF Touches, UpdateParticipant

LEMMA AssignTouches ==
    ASSUME TypeOK, OneHeadcount,
           NEW o \in Organizers, NEW t \in Trips, NEW P \in SUBSET People,
           NEW g \in Groups \cup {None}, AssignGroup(o, t, P, g)
    PROVE  Touches(t)
<1>1. /\ trip[t] # None /\ trip'[t] # None
      /\ trip'[t].version = trip[t].version + 1
      /\ \A u \in Trips : u # t => trip'[u] = trip[u]
  BY LockKeepsStatus DEF AssignGroup
<1>2. ASSUME NEW p \in People, person'[p] # person[p]
      PROVE  person'[p] # None /\ person'[p].trip = t /\ person[p].trip = t
  <2>1. /\ p \in P
        /\ person'[p] = [person[p] EXCEPT !.group = g, !.version = @ + 1]
    BY <1>2 DEF AssignGroup
  <2>2. person[p] \in Person /\ person[p].trip = t
    BY <2>1 DEF AssignGroup, Active, Participants, TypeOK, Roster
  <2>3. person'[p] \in Person
    BY <2>1, <2>2, MovedTyped
  <2>4. person'[p].trip = person[p].trip
    BY <2>1, <2>2 DEF Person
  <2>5. QED
    BY <2>2, <2>3, <2>4, NoneAssumption
<1>3. ASSUME NEW r \in Rounds, check'[r] # check[r] PROVE round[r].trip = t
  BY <1>3, HeadcountChange DEF AssignGroup
<1>4. QED
  BY <1>1, <1>2, <1>3 DEF Touches, AssignGroup

LEMMA RoundsTouch ==
    ASSUME TypeOK, OneHeadcount, NEW o \in Organizers,
           NEW t \in Trips,
           \/ \E r \in Rounds : StartRound(o, t, r)
           \/ \E r \in Rounds, p \in People,
                  status \in {"pending", "present", "absent"} :
                 MarkCheck(o, r, p, status) /\ round[r].trip = t
           \/ \E status \in {"planned", "completed"} : SetTripStatus(o, t, status)
    PROVE  Touches(t)
<1>1. ASSUME NEW r \in Rounds, StartRound(o, t, r) PROVE Touches(t)
  <2>1. /\ trip[t] # None /\ trip'[t] # None
        /\ trip'[t].version = trip[t].version + 1
        /\ \A u \in Trips : u # t => trip'[u] = trip[u]
    BY <1>1, LockKeepsStatus DEF StartRound
  <2>2. round[r] = None
    BY <1>1, RoundsAssumption DEF StartRound
  <2>3. \A q \in Rounds : q # r => round'[q] = Closed(t)[q] /\ check'[q] = check[q]
    <3>1. Closed(t) \in [Rounds -> {Closed(t)[q] : q \in Rounds}]
      BY DEF Closed
    <3>2. QED
      BY <1>1, <3>1 DEF StartRound, TypeOK
  <2>4. QED
    BY <1>1, <2>1, <2>2, <2>3, ClosedRounds DEF Touches, StartRound
<1>2. ASSUME NEW r \in Rounds, NEW p \in People,
             NEW status \in {"pending", "present", "absent"},
             MarkCheck(o, r, p, status), round[r].trip = t
      PROVE  Touches(t)
  <2>1. /\ trip[t] # None /\ trip'[t] # None
        /\ trip'[t].version = trip[t].version + 1
        /\ \A u \in Trips : u # t => trip'[u] = trip[u]
    BY <1>2, LockKeepsStatus DEF MarkCheck
  <2>2. \A q \in Rounds : q # r => check'[q] = check[q]
    BY <1>2 DEF MarkCheck, TypeOK
  <2>3. QED
    BY <1>2, <2>1, <2>2 DEF Touches, MarkCheck
<1>3. ASSUME NEW status \in {"planned", "completed"}, SetTripStatus(o, t, status)
      PROVE  Touches(t)
  <2>1. /\ trip[t] # None
        /\ trip' = [Bumped(t) EXCEPT ![t].status = status]
        /\ UNCHANGED <<person, check>>
    BY <1>3 DEF SetTripStatus
  <2>2. Bumped(t) \in [Trips -> TripRow \cup {None}]
    BY <2>1, BumpedTyped
  <2>3. Bumped(t)[t] \in TripRow
    BY <2>1, <2>2, BumpedTyped
  <2>4. trip'[t] = [Bumped(t)[t] EXCEPT !.status = status]
    BY <2>1, <2>2
  <2>5. trip'[t] \in TripRow /\ trip'[t].version = Bumped(t)[t].version
    BY <2>3, <2>4 DEF TripRow
  <2>6. \A u \in Trips : u # t => trip'[u] = trip[u]
    BY <2>1, <2>2, BumpedTyped
  <2>7. \A r \in Rounds : round[r] # None =>
           round'[r] # None /\ round'[r].trip = round[r].trip
    BY <1>3, ClosedRounds DEF SetTripStatus
  <2>8. QED
    BY <2>1, <2>5, <2>6, <2>7, BumpedTyped, NoneAssumption DEF Touches
<1>4. QED
  BY <1>1, <1>2, <1>3

LEMMA StepsTouch ==
    ASSUME TypeOK, OneHeadcount, [Next]_vars
    PROVE  \/ \E u \in Trips : Touches(u)
           \/ \E u \in Trips, fee \in Amounts : CreateTrip(u, fee)
           \/ UNCHANGED <<trip, person, round, check>>
<1> DEFINE Goal == \/ \E u \in Trips : Touches(u)
                   \/ \E u \in Trips, fee \in Amounts : CreateTrip(u, fee)
                   \/ UNCHANGED <<trip, person, round, check>>
<1>1. ASSUME NEW t \in Trips, NEW g \in Groups, AddGroup(t, g) PROVE Goal
  BY <1>1, LockKeepsStatus DEF AddGroup, Touches
<1>2. ASSUME NEW o \in Organizers, NEW p \in People, person[p] # None,
             NEW q \in Edits(p), NEW regroup \in BOOLEAN,
             UpdateParticipant(o, p, q, regroup)
      PROVE  Goal
  BY <1>2, UpdateTouches DEF TypeOK, Roster, Person
<1>3. ASSUME NEW o \in Organizers, NEW r \in Rounds, NEW p \in People,
             NEW status \in {"pending", "present", "absent"},
             MarkCheck(o, r, p, status)
      PROVE  Goal
  <2>1. round[r].trip \in Trips
    BY <1>3 DEF MarkCheck, TypeOK, Round
  <2>2. QED
    BY <1>3, <2>1, RoundsTouch
<1>4. ASSUME NEW o \in Organizers, Organize(o) PROVE Goal
  BY <1>2, <1>3, <1>4, AssignTouches, RoundsTouch
     DEF Organize, ReadTrip, ReadPeople, ReadRounds, ReadChecks, tables
<1>5. ASSUME Register PROVE Goal
  BY <1>1, <1>5, AddTouches DEF Register
<1>6. QED
  BY <1>4, <1>5 DEF Next, EnrollStudent, DeleteStudent, vars

\* What the pages of t show stays current until its version moves on.
ScopeOf(t) ==
    /\ trip'[t] # None
    /\ trip[t].version \in Nat /\ trip'[t].version \in Nat
    /\ trip[t].version <= trip'[t].version
    /\ \A r \in RoundsOf(t) : round'[r] # None /\ round'[r].trip = t
    /\ trip'[t].version = trip[t].version =>
          /\ RosterOf(t)' = RosterOf(t)
          /\ \A r \in RoundsOf(t) : check'[r] = check[r]

LEMMA Scope ==
    ASSUME TypeOK, OneHeadcount, [Next]_vars, NEW t \in Trips, trip[t] # None
    PROVE  ScopeOf(t)
<1>0. trip[t].version \in Nat
  BY DEF TypeOK, TripRow
<1>1. ASSUME NEW u \in Trips, Touches(u), u = t PROVE ScopeOf(t)
  BY <1>0, <1>1 DEF Touches, RoundsOf, ScopeOf
<1>2. ASSUME NEW u \in Trips, Touches(u), u # t PROVE ScopeOf(t)
  BY <1>0, <1>2 DEF Touches, RoundsOf, RosterOf, Participants, ScopeOf
<1>3. ASSUME NEW u \in Trips, NEW fee \in Amounts, CreateTrip(u, fee)
      PROVE  ScopeOf(t)
  BY <1>0, <1>3 DEF CreateTrip, RoundsOf, RosterOf, Participants, ScopeOf
<1>4. CASE UNCHANGED <<trip, person, round, check>>
  BY <1>0, <1>4 DEF RoundsOf, RosterOf, Participants, ScopeOf
<1>5. QED
  BY <1>1, <1>2, <1>3, <1>4, StepsTouch

-----------------------------------------------------------------------------
(* A participant's row changes only with his version, and from a page.        *)

RowChanged(p) ==
    /\ person'[p] # None
    /\ person'[p].trip = person[p].trip
    /\ person'[p].version = person[p].version + 1
    /\ \E o \in Organizers : SeesPerson(o, p) /\ view'[o] = None

LEMMA RowStep ==
    ASSUME TypeOK, [Next]_vars, NEW p \in People, person[p] # None,
           person'[p] # person[p]
    PROVE  RowChanged(p)
<1>1. ASSUME NEW o \in Organizers, NEW x \in People, person[x] # None,
             NEW q \in Edits(x), NEW regroup \in BOOLEAN,
             UpdateParticipant(o, x, q, regroup)
      PROVE  RowChanged(p)
  <2>1. p = x /\ person'[p] = q
    BY <1>1 DEF UpdateParticipant, TypeOK, Roster
  <2>2. view'[o] = None
    BY <1>1 DEF UpdateParticipant, Used, TypeOK
  <2>3. QED
    BY <1>1, <2>1, <2>2, EditsTyped, NoneAssumption
       DEF UpdateParticipant, RowChanged
<1>2. ASSUME NEW o \in Organizers, NEW t \in Trips, NEW P \in SUBSET People,
             NEW g \in Groups \cup {None}, AssignGroup(o, t, P, g)
      PROVE  RowChanged(p)
  <2>1. /\ p \in P
        /\ person'[p] = [person[p] EXCEPT !.group = g, !.version = @ + 1]
    BY <1>2 DEF AssignGroup
  <2>2. person[p] \in Person
    BY DEF TypeOK, Roster
  <2>3. person'[p] \in Person
    BY <2>1, <2>2, MovedTyped
  <2>4. /\ person'[p].trip = person[p].trip
        /\ person'[p].version = person[p].version + 1
    BY <2>1, <2>2 DEF Person
  <2>5. SeesPerson(o, p) /\ view'[o] = None
    BY <1>2, <2>1 DEF AssignGroup, Used, TypeOK
  <2>6. QED
    BY <2>3, <2>4, <2>5, NoneAssumption DEF RowChanged
<1>3. ASSUME NEW o \in Organizers, Organize(o) PROVE RowChanged(p)
  BY <1>1, <1>2, <1>3
     DEF Organize, ReadTrip, ReadPeople, ReadRounds, ReadChecks, tables,
         StartRound, MarkCheck, SetTripStatus
<1>4. ASSUME Register PROVE RowChanged(p)
  BY <1>4 DEF Register, AddGroup, CreateTrip, AddParticipants
<1>5. QED
  BY <1>3, <1>4 DEF Next, EnrollStudent, DeleteStudent, vars

-----------------------------------------------------------------------------
(* The pages.                                                                *)

\* A page shows nothing newer than the tables, and the row of a participant
\* whose version is current.
PageSound(o) ==
    view[o] # None =>
        /\ trip[view[o].trip] # None
        /\ view[o].version <= trip[view[o].trip].version
        /\ view[o].round # None => view[o].round \in RoundsOf(view[o].trip)
        /\ \A p \in People :
              view[o].people[p] # None =>
                 /\ person[p] # None
                 /\ person[p].trip = view[o].trip
                 /\ view[o].people[p].version <= person[p].version
                 /\ view[o].people[p].version = person[p].version
                    => view[o].people[p] = person[p]

PageFresh(o) ==
    view[o] # None /\ view[o].version = trip[view[o].trip].version =>
        /\ view[o].step # "trip" => view[o].people = RosterOf(view[o].trip)
        /\ view[o].step = "open" /\ view[o].round # None =>
              view[o].checks = check[view[o].round]

PagesSound == \A o \in Organizers : PageSound(o)

\* A page that no one touches stays sound and fresh.
LEMMA PageStays ==
    ASSUME TypeOK, OneHeadcount, [Next]_vars, NEW o \in Organizers,
           PageSound(o), PageFresh(o), view'[o] = view[o] \/ view'[o] = None
    PROVE  PageSound(o)' /\ PageFresh(o)'
<1> SUFFICES ASSUME view'[o] = view[o], view[o] # None
             PROVE  PageSound(o)' /\ PageFresh(o)'
  BY DEF PageSound, PageFresh
<1> DEFINE t == view[o].trip
<1>1. /\ view[o] \in View /\ t \in Trips /\ view[o].version \in Nat
      /\ view[o].people \in Roster
  BY DEF TypeOK, View
<1>2. ScopeOf(t)
  BY <1>1, Scope DEF PageSound
<1>3. ASSUME NEW p \in People, view[o].people[p] # None
      PROVE  /\ person'[p] # None
             /\ person'[p].trip = t
             /\ view[o].people[p].version <= person'[p].version
             /\ view[o].people[p].version = person'[p].version
                => view[o].people[p] = person'[p]
  <2>1. /\ person[p] # None /\ person[p].trip = t
        /\ view[o].people[p].version <= person[p].version
        /\ view[o].people[p].version = person[p].version
           => view[o].people[p] = person[p]
    BY <1>3 DEF PageSound
  <2>2. view[o].people[p].version \in Nat /\ person[p].version \in Nat
    BY <1>1, <1>3, <2>1 DEF TypeOK, Roster, Person
  <2>3. QED
    BY <2>1, <2>2, RowStep DEF RowChanged
<1>4. PageSound(o)'
  BY <1>1, <1>2, <1>3 DEF PageSound, ScopeOf, RoundsOf
<1>5. PageFresh(o)'
  BY <1>1, <1>2 DEF PageSound, PageFresh, ScopeOf
<1>6. QED
  BY <1>4, <1>5

\* A page being read sees what the tables hold now.
LEMMA PageRead ==
    ASSUME TypeOK, NEW o \in Organizers, PageSound(o), PageFresh(o),
           \/ \E t \in Trips : ReadTrip(o, t)
           \/ ReadPeople(o)
           \/ \E r \in Rounds \cup {None} : ReadRounds(o, r)
           \/ ReadChecks(o)
    PROVE  PageSound(o)' /\ PageFresh(o)'
<1>0. UNCHANGED <<trip, person, round, check>>
  BY DEF ReadTrip, ReadPeople, ReadRounds, ReadChecks, tables
<1>1. ASSUME NEW t \in Trips, ReadTrip(o, t) PROVE PageSound(o)' /\ PageFresh(o)'
  <2>1. view'[o] = [step |-> "trip", trip |-> t, version |-> trip[t].version,
                    people |-> NoPeople, round |-> None, checks |-> NoChecks]
    BY <1>1 DEF ReadTrip, TypeOK
  <2>2. trip[t] # None /\ trip[t].version \in Nat
    BY <1>1 DEF ReadTrip, TypeOK, TripRow
  <2>3. QED
    BY <1>0, <2>1, <2>2 DEF PageSound, PageFresh, NoPeople
<1>2. ASSUME ReadPeople(o) PROVE PageSound(o)' /\ PageFresh(o)'
  <2>1. /\ view[o] # None /\ view[o] \in View
        /\ view'[o] = [view[o] EXCEPT !.step = "people",
                                      !.people = RosterOf(view[o].trip)]
    BY <1>2 DEF ReadPeople, TypeOK
  <2>2. /\ view'[o].step = "people" /\ view'[o].trip = view[o].trip
        /\ view'[o].version = view[o].version
        /\ view'[o].round = view[o].round
        /\ view'[o].people = RosterOf(view[o].trip)
    BY <2>1 DEF View
  <2>3. \A p \in People : RosterOf(view[o].trip)[p] # None =>
           /\ RosterOf(view[o].trip)[p] = person[p]
           /\ person[p] \in Person
           /\ person[p] # None /\ person[p].trip = view[o].trip
    BY DEF RosterOf, Participants, TypeOK, Roster
  <2>4. PageSound(o)'
    BY <1>0, <2>1, <2>2, <2>3 DEF PageSound, RoundsOf, Person
  <2>5. PageFresh(o)'
    <3>1. RosterOf(view[o].trip)' = RosterOf(view[o].trip)
      BY <1>0, <2>2 DEF RosterOf, Participants
    <3>2. QED
      BY <2>2, <3>1 DEF PageFresh
  <2>6. QED
    BY <2>4, <2>5
<1>3. ASSUME NEW r \in Rounds \cup {None}, ReadRounds(o, r)
      PROVE  PageSound(o)' /\ PageFresh(o)'
  <2>1. /\ view[o] # None /\ view[o] \in View /\ view[o].step = "people"
        /\ view'[o] = [view[o] EXCEPT !.step = "round", !.round = r]
    BY <1>3 DEF ReadRounds, TypeOK
  <2>2. /\ view'[o].step = "round" /\ view'[o].trip = view[o].trip
        /\ view'[o].version = view[o].version
        /\ view'[o].round = r
        /\ view'[o].people = view[o].people
    BY <2>1 DEF View
  <2>3. r # None => r \in RoundsOf(view[o].trip)
    BY <1>3 DEF ReadRounds, IsLatest
  <2>4. PageSound(o)'
    BY <1>0, <2>1, <2>2, <2>3 DEF PageSound, RoundsOf
  <2>5. PageFresh(o)'
    <3>1. RosterOf(view[o].trip)' = RosterOf(view[o].trip)
      BY <1>0, <2>2 DEF RosterOf, Participants
    <3>2. QED
      BY <1>0, <2>1, <2>2, <3>1 DEF PageFresh
  <2>6. QED
    BY <2>4, <2>5
<1>4. ASSUME ReadChecks(o) PROVE PageSound(o)' /\ PageFresh(o)'
  <2> DEFINE rows == IF view[o].round = None THEN NoChecks
                     ELSE check[view[o].round]
  <2>1. /\ view[o] # None /\ view[o] \in View /\ view[o].step = "round"
        /\ view'[o] = [view[o] EXCEPT !.step = "open", !.checks = rows]
    BY <1>4 DEF ReadChecks, TypeOK
  <2>2. /\ view'[o].step = "open" /\ view'[o].trip = view[o].trip
        /\ view'[o].version = view[o].version
        /\ view'[o].round = view[o].round
        /\ view'[o].people = view[o].people
        /\ view'[o].checks = rows
    BY <2>1 DEF View
  <2>3. PageSound(o)'
    BY <1>0, <2>1, <2>2 DEF PageSound, RoundsOf
  <2>4. PageFresh(o)'
    <3>1. RosterOf(view[o].trip)' = RosterOf(view[o].trip)
      BY <1>0, <2>2 DEF RosterOf, Participants
    <3>2. QED
      BY <1>0, <2>1, <2>2, <3>1 DEF PageFresh
  <2>5. QED
    BY <2>3, <2>4
<1>5. QED
  BY <1>1, <1>2, <1>3, <1>4

LEMMA PagesStep ==
    ASSUME TypeOK, OneHeadcount, PagesSound, PagesAreFresh, [Next]_vars
    PROVE  PagesSound' /\ PagesAreFresh'
<1> SUFFICES ASSUME NEW o \in Organizers
             PROVE  PageSound(o)' /\ PageFresh(o)'
  BY DEF PagesSound, PagesAreFresh, PageFresh
<1>1. PageSound(o) /\ PageFresh(o)
  BY DEF PagesSound, PagesAreFresh, PageFresh
<1>2. CASE view'[o] = view[o] \/ view'[o] = None
  BY <1>1, <1>2, PageStays
<1>3. ASSUME NEW u \in Organizers, Organize(u)
      PROVE  PageSound(o)' /\ PageFresh(o)'
  <2>1. CASE \/ \E t \in Trips : ReadTrip(u, t)
             \/ ReadPeople(u)
             \/ \E r \in Rounds \cup {None} : ReadRounds(u, r)
             \/ ReadChecks(u)
    <3>1. u # o => view'[o] = view[o]
      BY <2>1 DEF ReadTrip, ReadPeople, ReadRounds, ReadChecks, TypeOK
    <3>2. QED
      BY <1>1, <1>2, <2>1, <3>1, PageRead
  <2>2. CASE Used(u)
    BY <1>2, <2>2 DEF Used, TypeOK
  <2>3. QED
    BY <1>3, <2>1, <2>2
       DEF Organize, UpdateParticipant, AssignGroup, StartRound, MarkCheck,
           SetTripStatus
<1>4. ASSUME Register PROVE view'[o] = view[o]
  BY <1>4 DEF Register, CreateTrip, AddGroup, AddParticipants
<1>5. QED
  BY <1>2, <1>3, <1>4 DEF Next, EnrollStudent, DeleteStudent, vars

-----------------------------------------------------------------------------
(* The limits.                                                               *)

LEMMA SubsetsFinite ==
    ASSUME NEW t \in Trips
    PROVE  /\ IsFiniteSet(Participants(t)) /\ Cardinality(Participants(t)) \in Nat
           /\ IsFiniteSet(GroupsOf(t)) /\ Cardinality(GroupsOf(t)) \in Nat
           /\ IsFiniteSet(RoundsOf(t)) /\ Cardinality(RoundsOf(t)) \in Nat
<1>1. /\ Participants(t) \subseteq People
      /\ GroupsOf(t) \subseteq Groups
      /\ RoundsOf(t) \subseteq Rounds
  BY DEF Participants, GroupsOf, RoundsOf
<1>2. QED
  BY <1>1, FiniteAssumption, FS_Subset, FS_CardinalityType

\* Who is a participant of which trip changes only when some are added.
LEMMA ParticipantsStep ==
    ASSUME TypeOK, WithinLimits, [Next]_vars, NEW t \in Trips
    PROVE  Cardinality(Participants(t)') <= MaxPeople
<1>1. Cardinality(Participants(t)) <= MaxPeople
  BY DEF WithinLimits
<1>2. ASSUME NEW u \in Trips, NEW P \in SUBSET People,
             NEW adults \in SUBSET People, NEW g \in Groups \cup {None},
             NEW guardian \in People \cup {None},
             NEW studentOf \in [P -> Students \cup {None}],
             AddParticipants(u, P, studentOf, adults, g, guardian)
      PROVE  Cardinality(Participants(t)') <= MaxPeople
  <2>1. \A p \in P : person[p] = None /\ person'[p] # None /\ person'[p].trip = u
    <3>1. trip[u].fee \in Amounts
      BY <1>2 DEF AddParticipants, Lock, TypeOK, TripRow
    <3>2. ASSUME NEW p \in P
          PROVE  [trip |-> u, adult |-> p \in adults,
                  guardian |-> IF p \in adults THEN None ELSE guardian,
                  group |-> g, active |-> TRUE,
                  fee |-> trip[u].fee, paid |-> 0, version |-> 1] \in Person
      BY <3>1, AmountsAssumption DEF Person
    <3>3. QED
      BY <1>2, <3>2, NoneAssumption DEF AddParticipants
  <2>2. \A p \in People \ P : person'[p] = person[p]
    BY <1>2 DEF AddParticipants
  <2>3. CASE t # u
    <3>1. Participants(t)' = Participants(t)
      BY <2>1, <2>2, <2>3 DEF Participants
    <3>2. QED
      BY <1>1, <3>1
  <2>4. CASE t = u
    <3>1. Participants(t)' = Participants(t) \cup P
      BY <2>1, <2>2, <2>4 DEF Participants
    <3>2. Participants(t) \cap P = {}
      BY <2>1 DEF Participants
    <3>3. IsFiniteSet(P) /\ Cardinality(P) \in Nat
      BY FiniteAssumption, FS_Subset, FS_CardinalityType
    <3>4. Cardinality(Participants(t) \cup P)
          = Cardinality(Participants(t)) + Cardinality(P)
      <4>1. Cardinality(Participants(t) \cup P)
            = Cardinality(Participants(t)) + Cardinality(P)
              - Cardinality(Participants(t) \cap P)
        BY <3>3, SubsetsFinite, FS_Union
      <4>2. Cardinality(Participants(t) \cap P) = 0
        BY <3>2, FS_EmptySet
      <4>3. QED
        BY <3>3, <4>1, <4>2, SubsetsFinite
    <3>5. Cardinality(Participants(t)) + Cardinality(P) <= MaxPeople
      BY <1>2, <2>4 DEF AddParticipants, RoomFor
    <3>6. QED
      BY <3>1, <3>4, <3>5
  <2>5. QED
    BY <2>3, <2>4
<1>3. CASE \A p \in People : person[p] = None => person'[p] = None
  <2>1. Participants(t)' = Participants(t)
    BY <1>3, RowStep DEF Participants, RowChanged
  <2>2. QED
    BY <1>1, <2>1
<1>4. ASSUME NEW o \in Organizers, Organize(o)
      PROVE  \A p \in People : person[p] = None => person'[p] = None
  <2>1. ASSUME NEW x \in People, person[x] # None, NEW q \in Edits(x),
               NEW regroup \in BOOLEAN, UpdateParticipant(o, x, q, regroup)
        PROVE  \A p \in People : person[p] = None => person'[p] = None
    BY <2>1 DEF UpdateParticipant, TypeOK, Roster
  <2>2. ASSUME NEW u \in Trips, NEW P \in SUBSET People,
               NEW g \in Groups \cup {None}, AssignGroup(o, u, P, g)
        PROVE  \A p \in People : person[p] = None => person'[p] = None
    BY <2>2 DEF AssignGroup, Active, Participants
  <2>3. QED
    BY <1>4, <2>1, <2>2
       DEF Organize, ReadTrip, ReadPeople, ReadRounds, ReadChecks, tables,
           StartRound, MarkCheck, SetTripStatus
<1>5. ASSUME Register PROVE Cardinality(Participants(t)') <= MaxPeople
  BY <1>2, <1>3, <1>5 DEF Register, CreateTrip, AddGroup
<1>6. QED
  BY <1>3, <1>4, <1>5 DEF Next, EnrollStudent, DeleteStudent, vars

LEMMA GroupsStep ==
    ASSUME TypeOK, WithinLimits, [Next]_vars, NEW t \in Trips
    PROVE  Cardinality(GroupsOf(t)') <= MaxGroups
<1>1. Cardinality(GroupsOf(t)) <= MaxGroups
  BY DEF WithinLimits
<1>2. ASSUME NEW u \in Trips, NEW g \in Groups, AddGroup(u, g)
      PROVE  Cardinality(GroupsOf(t)') <= MaxGroups
  <2>1. CASE t # u
    <3>1. GroupsOf(t)' = GroupsOf(t)
      BY <1>2, <2>1, NoneAssumption DEF AddGroup, GroupsOf, TypeOK
    <3>2. QED
      BY <1>1, <3>1
  <2>2. CASE t = u
    <3>1. GroupsOf(t)' = GroupsOf(t) \cup {g} /\ g \notin GroupsOf(t)
      BY <1>2, <2>2, NoneAssumption DEF AddGroup, GroupsOf, TypeOK
    <3>2. Cardinality(GroupsOf(t) \cup {g}) = Cardinality(GroupsOf(t)) + 1
      BY <3>1, SubsetsFinite, FS_AddElement
    <3>3. Cardinality(GroupsOf(t)) < MaxGroups
      BY <1>2, <2>2 DEF AddGroup
    <3>4. QED
      BY <3>1, <3>2, <3>3, SubsetsFinite, LimitsAssumption
  <2>3. QED
    BY <2>1, <2>2
<1>3. CASE UNCHANGED group
  BY <1>1, <1>3 DEF GroupsOf
<1>4. ASSUME NEW o \in Organizers, Organize(o) PROVE UNCHANGED group
  BY <1>4 DEF Organize, ReadTrip, ReadPeople, ReadRounds, ReadChecks, tables,
     UpdateParticipant, AssignGroup, StartRound, MarkCheck, SetTripStatus
<1>5. ASSUME Register PROVE Cardinality(GroupsOf(t)') <= MaxGroups
  BY <1>2, <1>3, <1>5 DEF Register, CreateTrip, AddParticipants
<1>6. QED
  BY <1>3, <1>4, <1>5 DEF Next, EnrollStudent, DeleteStudent, vars

LEMMA RoundsStep ==
    ASSUME TypeOK, WithinLimits, [Next]_vars, NEW t \in Trips
    PROVE  Cardinality(RoundsOf(t)') <= MaxRounds
<1>1. Cardinality(RoundsOf(t)) <= MaxRounds
  BY DEF WithinLimits
<1>2. ASSUME NEW o \in Organizers, NEW u \in Trips, NEW r \in Rounds,
             StartRound(o, u, r)
      PROVE  Cardinality(RoundsOf(t)') <= MaxRounds
  <2>1. round[r] = None
    BY <1>2, RoundsAssumption DEF StartRound
  <2>2. /\ round'[r] = [trip |-> u, open |-> TRUE]
        /\ \A q \in Rounds : q # r => round'[q] = Closed(u)[q]
    <3>1. Closed(u) \in [Rounds -> {Closed(u)[q] : q \in Rounds}]
      BY DEF Closed
    <3>2. QED
      BY <1>2, <3>1 DEF StartRound
  <2>3. round'[r] # None
    <3>1. [trip |-> u, open |-> TRUE] \in Round
      BY DEF Round
    <3>2. QED
      BY <2>2, <3>1, NoneAssumption
  <2>4. CASE t # u
    <3>1. RoundsOf(t)' = RoundsOf(t)
      BY <2>1, <2>2, <2>4, ClosedRounds DEF RoundsOf
    <3>2. QED
      BY <1>1, <3>1
  <2>5. CASE t = u
    <3>1. RoundsOf(t)' = RoundsOf(t) \cup {r} /\ r \notin RoundsOf(t)
      BY <2>1, <2>2, <2>3, <2>5, ClosedRounds DEF RoundsOf
    <3>2. Cardinality(RoundsOf(t) \cup {r}) = Cardinality(RoundsOf(t)) + 1
      BY <3>1, SubsetsFinite, FS_AddElement
    <3>3. Cardinality(RoundsOf(t)) < MaxRounds
      BY <1>2, <2>5 DEF StartRound
    <3>4. QED
      BY <3>1, <3>2, <3>3, SubsetsFinite, LimitsAssumption
  <2>6. QED
    BY <2>4, <2>5
<1>3. ASSUME NEW o \in Organizers, NEW u \in Trips,
             NEW status \in {"planned", "completed"}, SetTripStatus(o, u, status)
      PROVE  Cardinality(RoundsOf(t)') <= MaxRounds
  <2>1. RoundsOf(t)' = RoundsOf(t)
    BY <1>3, ClosedRounds DEF SetTripStatus, RoundsOf
  <2>2. QED
    BY <1>1, <2>1
<1>4. CASE UNCHANGED round
  BY <1>1, <1>4 DEF RoundsOf
<1>5. ASSUME NEW o \in Organizers, Organize(o)
      PROVE  Cardinality(RoundsOf(t)') <= MaxRounds
  BY <1>2, <1>3, <1>4, <1>5
     DEF Organize, ReadTrip, ReadPeople, ReadRounds, ReadChecks, tables,
         UpdateParticipant, AssignGroup, MarkCheck
<1>6. ASSUME Register PROVE UNCHANGED round
  BY <1>6 DEF Register, CreateTrip, AddGroup, AddParticipants
<1>7. QED
  BY <1>4, <1>5, <1>6 DEF Next, EnrollStudent, DeleteStudent, vars

-----------------------------------------------------------------------------
(* Theorems.                                                                 *)

IInv == /\ TypeOK
        /\ OneHeadcount
        /\ HeadcountIsRoster
        /\ DependentsAccompanied
        /\ PagesSound
        /\ PagesAreFresh
        /\ WithinLimits

LEMMA Inductive == Spec => []IInv
<1>1. Init => IInv
  <2> SUFFICES ASSUME Init PROVE IInv
    OBVIOUS
  <2>1. TypeOK
    BY DEF Init, TypeOK, NoPeople, NoChecks, Roster, Checks
  <2>2. /\ OneHeadcount /\ HeadcountIsRoster /\ DependentsAccompanied
        /\ PagesSound /\ PagesAreFresh
    BY DEF Init, OneHeadcount, HeadcountIsRoster, DependentsAccompanied,
       PagesSound, PageSound, PagesAreFresh, NoPeople, Active, Participants
  <2>3. ASSUME NEW t \in Trips
        PROVE  Participants(t) = {} /\ GroupsOf(t) = {} /\ RoundsOf(t) = {}
    BY NoneAssumption
       DEF Init, NoPeople, Participants, GroupsOf, RoundsOf
  <2>4. WithinLimits
    BY <2>3, FS_EmptySet, LimitsAssumption DEF WithinLimits
  <2>5. QED
    BY <2>1, <2>2, <2>4 DEF IInv
<1>2. IInv /\ [Next]_vars => IInv'
  <2> SUFFICES ASSUME IInv, [Next]_vars PROVE IInv'
    OBVIOUS
  <2>1. WithinLimits'
    BY ParticipantsStep, GroupsStep, RoundsStep DEF IInv, WithinLimits
  <2>2. QED
    BY <2>1, TypeStep, OneHeadcountStep, HeadcountStep, AccompaniedStep, PagesStep
       DEF IInv
<1>3. QED
  BY <1>1, <1>2, PTL DEF Spec

\* Every table and every page keeps its type.
THEOREM TypeCorrect == Spec => []TypeOK
<1>1. IInv => TypeOK
  BY DEF IInv
<1>2. QED
  BY <1>1, Inductive, PTL

\* Whoever starts rounds, completes trips and reopens them, no trip ever has two
\* current rounds, and a completed trip has none.
THEOREM CurrentRoundIsUnique == Spec => []OneHeadcount
<1>1. IInv => OneHeadcount
  BY DEF IInv
<1>2. QED
  BY <1>1, Inductive, PTL

\* The open round always counts the active participants, in their groups.
THEOREM HeadcountsMatchRosters == Spec => []HeadcountIsRoster
<1>1. IInv => HeadcountIsRoster
  BY DEF IInv
<1>2. QED
  BY <1>1, Inductive, PTL

\* No dependent is ever left without an active, independent adult of his trip.
THEOREM DependentsKeepGuardians == Spec => []DependentsAccompanied
<1>1. IInv => DependentsAccompanied
  BY DEF IInv
<1>2. QED
  BY <1>1, Inductive, PTL

\* A page whose version is current shows the current participants and checks,
\* though it was put together by four SELECTs.
THEOREM PagesStayFresh == Spec => []PagesAreFresh
<1>1. IInv => PagesAreFresh
  BY DEF IInv
<1>2. QED
  BY <1>1, Inductive, PTL

\* The limits on participants, groups and rounds hold for every trip.
THEOREM LimitsHold == Spec => []WithinLimits
<1>1. IInv => WithinLimits
  BY DEF IInv
<1>2. QED
  BY <1>1, Inductive, PTL

\* Neither a closed round nor its checks ever change again.
THEOREM PastRoundsStay == Spec => PastRoundsFrozen
<1> DEFINE Frozen == \A r \in Rounds :
          round[r] # None /\ ~round[r].open =>
              round'[r] = round[r] /\ check'[r] = check[r]
<1>1. IInv /\ [Next]_vars => [Frozen]_vars
  <2> SUFFICES ASSUME IInv, [Next]_vars, NEW r \in Rounds, round[r] # None,
                      ~round[r].open
               PROVE  round'[r] = round[r] /\ check'[r] = check[r]
    OBVIOUS
  <2> USE DEF IInv
  <2> DEFINE Goal == round'[r] = round[r] /\ check'[r] = check[r]
  <2>1. ASSUME NEW t \in Trips, NEW P \in SUBSET People,
               NEW adults \in SUBSET People, NEW g \in Groups \cup {None},
               NEW guardian \in People \cup {None},
               NEW studentOf \in [P -> Students \cup {None}],
               AddParticipants(t, P, studentOf, adults, g, guardian)
        PROVE  Goal
    BY <2>1, HeadcountChange DEF AddParticipants
  <2>2. ASSUME NEW o \in Organizers, NEW p \in People, person[p] # None,
               NEW q \in Edits(p), NEW regroup \in BOOLEAN,
               UpdateParticipant(o, p, q, regroup)
        PROVE  Goal
    <3>1. person[p].trip \in Trips
      BY <2>2 DEF TypeOK, Roster, Person
    <3>2. QED
      BY <2>2, <3>1, HeadcountChange DEF UpdateParticipant
  <2>3. ASSUME NEW o \in Organizers, NEW t \in Trips, NEW P \in SUBSET People,
               NEW g \in Groups \cup {None}, AssignGroup(o, t, P, g)
        PROVE  Goal
    BY <2>3, HeadcountChange DEF AssignGroup
  <2>4. ASSUME NEW o \in Organizers, NEW t \in Trips, NEW q \in Rounds,
               StartRound(o, t, q)
        PROVE  Goal
    <3>1. round[q] = None
      BY <2>4, RoundsAssumption DEF StartRound
    <3>2. Closed(t) \in [Rounds -> {Closed(t)[x] : x \in Rounds}]
      BY DEF Closed
    <3>3. round'[r] = Closed(t)[r] /\ check'[r] = check[r]
      BY <2>4, <3>1, <3>2 DEF StartRound, TypeOK
    <3>4. QED
      BY <3>3, ClosedRounds
  <2>5. ASSUME NEW o \in Organizers, NEW q \in Rounds, NEW p \in People,
               NEW status \in {"pending", "present", "absent"},
               MarkCheck(o, q, p, status)
        PROVE  Goal
    <3>1. round[q].trip \in Trips
      BY <2>5 DEF MarkCheck, TypeOK, Round
    <3>2. q \in OpenRounds(round[q].trip)
      BY <2>5, <3>1, HeadcountIsOpen, NoneAssumption DEF MarkCheck
    <3>3. q # r
      BY <3>2 DEF OpenRounds
    <3>4. QED
      BY <2>5, <3>3 DEF MarkCheck, TypeOK
  <2>6. ASSUME NEW o \in Organizers, NEW t \in Trips,
               NEW status \in {"planned", "completed"},
               SetTripStatus(o, t, status)
        PROVE  Goal
    BY <2>6, ClosedRounds DEF SetTripStatus
  <2>7. CASE UNCHANGED <<round, check>>
    BY <2>7
  <2>8. ASSUME NEW o \in Organizers, Organize(o) PROVE Goal
    BY <2>2, <2>3, <2>4, <2>5, <2>6, <2>7, <2>8
       DEF Organize, ReadTrip, ReadPeople, ReadRounds, ReadChecks, tables
  <2>9. ASSUME Register PROVE Goal
    BY <2>1, <2>7, <2>9 DEF Register, CreateTrip, AddGroup
  <2>10. QED
    BY <2>7, <2>8, <2>9 DEF Next, EnrollStudent, DeleteStudent, vars
<1>2. QED
  BY <1>1, Inductive, PTL DEF Spec, PastRoundsFrozen

\* No organizer overwrites a change of a participant that he has not seen.
THEOREM NoUnseenEdits == Spec => EditsAsSeen
<1> DEFINE Seen == \A p \in People :
          person[p] # None /\ person'[p] # person[p] =>
              \E o \in Organizers : Acts(o) /\ view[o].people[p] = person[p]
<1>1. IInv /\ [Next]_vars => [Seen]_vars
  <2> SUFFICES ASSUME IInv, [Next]_vars, NEW p \in People, person[p] # None,
                      person'[p] # person[p]
               PROVE  \E o \in Organizers : Acts(o) /\ view[o].people[p] = person[p]
    OBVIOUS
  <2>1. PICK o \in Organizers : SeesPerson(o, p) /\ view'[o] = None
    BY RowStep DEF IInv, RowChanged
  <2>2. PageSound(o)
    BY DEF IInv, PagesSound
  <2>3. QED
    BY <2>1, <2>2 DEF SeesPerson, OpenAt, Acts, PageSound
<1>2. QED
  BY <1>1, Inductive, PTL DEF Spec, EditsAsSeen

\* Every headcount starts from the participants its organizer had on his page.
THEOREM RoundsStartAsSeen == Spec => StartsAsSeen
<1> DEFINE Seen == \A r \in Rounds :
          round[r] = None /\ round'[r] # None =>
              \E o \in Organizers :
                  /\ Acts(o)
                  /\ {p \in People : check'[r][p] # None} =
                     {p \in People : /\ view[o].people[p] # None
                                     /\ view[o].people[p].active}
<1>1. IInv /\ [Next]_vars => [Seen]_vars
  <2> SUFFICES ASSUME IInv, [Next]_vars, NEW r \in Rounds, round[r] = None,
                      round'[r] # None
               PROVE  \E o \in Organizers :
                          /\ Acts(o)
                          /\ {p \in People : check'[r][p] # None} =
                             {p \in People : /\ view[o].people[p] # None
                                             /\ view[o].people[p].active}
    OBVIOUS
  <2>0. TypeOK
    BY DEF IInv
  <2>1. PICK o \in Organizers, t \in Trips : StartRound(o, t, r)
    <3>1. ASSUME NEW o \in Organizers, NEW t \in Trips, NEW q \in Rounds,
                 StartRound(o, t, q)
          PROVE  q = r
      <4>1. Closed(t) \in [Rounds -> {Closed(t)[x] : x \in Rounds}]
        BY DEF Closed
      <4>2. q # r => round'[r] = Closed(t)[r]
        BY <3>1, <4>1 DEF StartRound
      <4>3. QED
        BY <2>0, <4>2, ClosedRounds
    <3>2. ASSUME NEW o \in Organizers, NEW t \in Trips,
                 NEW status \in {"planned", "completed"},
                 SetTripStatus(o, t, status)
          PROVE  FALSE
      BY <2>0, <3>2, ClosedRounds DEF SetTripStatus
    <3>3. ~UNCHANGED round
      OBVIOUS
    <3>4. PICK o \in Organizers : Organize(o)
      BY <3>3 DEF Next, Register, CreateTrip, AddGroup, AddParticipants,
         EnrollStudent, DeleteStudent, vars
    <3>5. QED
      BY <3>1, <3>2, <3>3, <3>4
         DEF Organize, ReadTrip, ReadPeople, ReadRounds, ReadChecks, tables,
             UpdateParticipant, AssignGroup, MarkCheck
  <2>2. SeesTrip(o, t) /\ view'[o] = None
    BY <2>0, <2>1 DEF StartRound, Used, TypeOK
  <2>3. Acts(o)
    BY <2>2 DEF SeesTrip, OpenAt, Acts
  <2>4. view[o].people = RosterOf(t)
    BY <2>2 DEF SeesTrip, OpenAt, IInv, PagesAreFresh
  <2>5. {p \in People : view[o].people[p] # None /\ view[o].people[p].active}
        = Active(t)
    BY <2>4 DEF RosterOf, Active, Participants
  <2>6. check'[r] = CheckedIn(NoChecks, Active(t), person)
    BY <2>0, <2>1 DEF StartRound, TypeOK
  <2>7. \A p \in Active(t) : Pending(person[p].group) # None
    <3>1. ASSUME NEW p \in Active(t) PROVE Pending(person[p].group) \in Check
      <4>1. person[p] \in Person
        BY <2>0 DEF Active, Participants, TypeOK, Roster
      <4>2. QED
        BY <4>1 DEF Pending, Check, Person
    <3>2. QED
      BY <3>1, NoneAssumption
  <2>8. {p \in People : check'[r][p] # None} = Active(t)
    BY <2>6, <2>7 DEF CheckedIn, NoChecks, Active, Participants
  <2>9. QED
    BY <2>3, <2>5, <2>8
<1>2. QED
  BY <1>1, Inductive, PTL DEF Spec, StartsAsSeen
=============================================================================
