-------------------------------- MODULE Trips --------------------------------
(***************************************************************************)
(* Trip preparation and headcounts (routers/trips.py): the participants of   *)
(* a trip, their groups and guardians, and the rounds in which organizers    *)
(* check that everybody is there.                                           *)
(*                                                                         *)
(* Every handler that changes a trip first runs lock_trip, the UPDATE that    *)
(* adds one to the trip's version. It takes SQLite's only write lock, so what *)
(* the handler reads and writes from there to its commit is one step, and a  *)
(* refusal rolls all of it back. trip_detail takes no lock: it is four       *)
(* SELECTs, and anything can happen between them.                           *)
(***************************************************************************)
EXTENDS Integers, FiniteSets

CONSTANTS
    Organizers,  \* tenant administrators working on trips at the same time
    Trips,       \* primary keys of the tables; they bound the rows there are
    People,
    Groups,
    Rounds,
    Students,    \* students of the center
    Amounts,     \* fees and payments, in minor units
    MaxPeople,   \* the most participants of a trip (1000)
    MaxGroups,   \* the most groups of a trip (100)
    MaxRounds,   \* the most rounds of a trip (100)
    MaxVersion,  \* no handler changes a trip at this version
    None         \* an absent row, group or guardian, or an empty view

ASSUME RoundsAssumption == Rounds \subseteq Nat
ASSUME FiniteAssumption == /\ IsFiniteSet(People) /\ IsFiniteSet(Groups)
                           /\ IsFiniteSet(Rounds)
ASSUME AmountsAssumption == Amounts \subseteq Nat /\ 0 \in Amounts
ASSUME LimitsAssumption == /\ MaxPeople \in Nat /\ MaxGroups \in Nat
                           /\ MaxRounds \in Nat

VARIABLES
    trip,      \* trips: id -> row, or None
    group,     \* trip_groups: id -> the trip it belongs to, or None
    person,    \* trip_participants: id -> row, or None
    student,   \* their student_id: None for a guest
    round,     \* trip_rounds: id -> row, or None
    check,     \* trip_checks: round -> participant -> row, or None
    enrolled,  \* students with an active status
    view       \* what each organizer's page shows

vars == <<trip, group, person, student, round, check, enrolled, view>>
tables == <<trip, group, person, student, round, check, enrolled>>

-----------------------------------------------------------------------------
TripRow == [status : {"planned", "completed"}, fee : Amounts, version : Nat]
Person == [trip : Trips, adult : BOOLEAN, guardian : People \cup {None},
           group : Groups \cup {None}, active : BOOLEAN,
           fee : Amounts, paid : Amounts, version : Nat]
Round == [trip : Trips, open : BOOLEAN]
Check == [group : Groups \cup {None},
          status : {"pending", "present", "absent"}, version : Nat]
Roster == [People -> Person \cup {None}]
Checks == [People -> Check \cup {None}]

\* The answer of trip_detail, as far as it has been put together.
View == [step : {"trip", "people", "round", "open"}, trip : Trips, version : Nat,
         people : Roster, round : Rounds \cup {None}, checks : Checks]

NoPeople == [p \in People |-> None]
NoChecks == [p \in People |-> None]

ASSUME NoneAssumption == /\ None \notin TripRow /\ None \notin Trips
                         /\ None \notin Person /\ None \notin People
                         /\ None \notin Groups
                         /\ None \notin Round /\ None \notin Rounds
                         /\ None \notin Check /\ None \notin View
                         /\ None \notin Students

TypeOK == /\ trip \in [Trips -> TripRow \cup {None}]
          /\ group \in [Groups -> Trips \cup {None}]
          /\ person \in Roster
          /\ student \in [People -> Students \cup {None}]
          /\ round \in [Rounds -> Round \cup {None}]
          /\ check \in [Rounds -> Checks]
          /\ enrolled \subseteq Students
          /\ view \in [Organizers -> View \cup {None}]

Init == /\ trip = [t \in Trips |-> None]
        /\ group = [g \in Groups |-> None]
        /\ person = NoPeople
        /\ student = [p \in People |-> None]
        /\ round = [r \in Rounds |-> None]
        /\ check = [r \in Rounds |-> NoChecks]
        /\ enrolled = Students
        /\ view = [o \in Organizers |-> None]

-----------------------------------------------------------------------------
Participants(t) == {p \in People : person[p] # None /\ person[p].trip = t}
Active(t) == {p \in Participants(t) : person[p].active}
GroupsOf(t) == {g \in Groups : group[g] = t}
RoundsOf(t) == {r \in Rounds : round[r] # None /\ round[r].trip = t}
OpenRounds(t) == {r \in RoundsOf(t) : round[r].open}
IsLatest(r, R) == r \in R /\ \A q \in R : q <= r
Latest(R) == CHOOSE r \in R : IsLatest(r, R)

\* current_round.
LatestRound(t) == IF RoundsOf(t) = {} THEN None ELSE Latest(RoundsOf(t))
Headcount(t) == IF OpenRounds(t) = {} THEN None ELSE Latest(OpenRounds(t))

\* The participants as the page of t lists them.
RosterOf(t) == [p \in People |-> IF p \in Participants(t) THEN person[p] ELSE None]

\* The UPDATE of lock_trip: it matches no row if the version has moved on, when
\* the caller names one, or if the trip is completed.
Untouched(t) == trip
Bumped(t) == [trip EXCEPT ![t].version = @ + 1]
Planned(t) == trip[t].status = "planned"
Lock(t) == /\ trip[t] # None
           /\ trip[t].version < MaxVersion
           /\ trip' = Bumped(t)

\* validate_group, validate_guardian: p is whom the guardian is for.
ValidGroup(t, g) == g # None => group[g] = t
ValidGuardian(t, g, p) ==
    g # None => /\ g \in Active(t)
                /\ person[g].adult
                /\ person[g].guardian = None
                /\ g # p

Dependents(t, g) == {p \in Active(t) : person[p].guardian = g}

\* New checks of the people in P, in the groups that Q has them in.
Pending(g) == [group |-> g, status |-> "pending", version |-> 1]
CheckedIn(rows, P, Q) ==
    [p \in People |-> IF p \in P THEN Pending(Q[p].group) ELSE rows[p]]

\* The people in P move to group g: their checks in the current round follow.
Regrouped(rows, P, g) ==
    [p \in People |-> IF p \in P /\ rows[p] # None
                      THEN [rows[p] EXCEPT !.group = g] ELSE rows[p]]

\* The page of an organizer is fetched again after each change made from it.
Used(o) == view' = [view EXCEPT ![o] = None]
OpenAt(o, t) == view[o] # None /\ view[o].step = "open" /\ view[o].trip = t

\* The expected_version of the trip or of a participant, which the page shows.
SeesTrip(o, t) == OpenAt(o, t) /\ view[o].version = trip[t].version
SeesAnyPerson(o, p) == OpenAt(o, person[p].trip) /\ view[o].people[p] # None
SeesPerson(o, p) == /\ OpenAt(o, person[p].trip)
                    /\ view[o].people[p] # None
                    /\ view[o].people[p].version = person[p].version
SeesCheck(o, r, p) == /\ OpenAt(o, round[r].trip)
                      /\ view[o].round = r
                      /\ view[o].checks[p] # None
                      /\ view[o].checks[p].version = check[r][p].version

-----------------------------------------------------------------------------
\* trip_detail, one SELECT after another: the trip, the participants, the
\* rounds (the latest is selected), its checks.
ReadTrip(o, t) ==
    /\ trip[t] # None
    /\ view' = [view EXCEPT ![o] =
           [step |-> "trip", trip |-> t, version |-> trip[t].version,
            people |-> NoPeople, round |-> None, checks |-> NoChecks]]
    /\ UNCHANGED tables

ReadPeople(o) ==
    /\ view[o] # None
    /\ view[o].step = "trip"
    /\ view' = [view EXCEPT ![o].step = "people",
                            ![o].people = RosterOf(view[o].trip)]
    /\ UNCHANGED tables

ReadRounds(o, r) ==
    /\ view[o] # None
    /\ view[o].step = "people"
    /\ IF RoundsOf(view[o].trip) = {} THEN r = None
       ELSE IsLatest(r, RoundsOf(view[o].trip))
    /\ view' = [view EXCEPT ![o].step = "round", ![o].round = r]
    /\ UNCHANGED tables

ReadChecks(o) ==
    /\ view[o] # None
    /\ view[o].step = "round"
    /\ view' = [view EXCEPT ![o].step = "open",
                            ![o].checks = IF view[o].round = None
                                          THEN NoChecks ELSE check[view[o].round]]
    /\ UNCHANGED tables

-----------------------------------------------------------------------------
CreateTrip(t, fee) ==
    /\ trip[t] = None
    /\ trip' = [trip EXCEPT ![t] = [status |-> "planned", fee |-> fee, version |-> 1]]
    /\ UNCHANGED <<group, person, student, round, check, enrolled, view>>

AddGroup(t, g) ==
    /\ Lock(t)
    /\ Planned(t)
    /\ group[g] = None
    /\ Cardinality(GroupsOf(t)) < MaxGroups
    /\ group' = [group EXCEPT ![g] = t]
    /\ UNCHANGED <<person, student, round, check, enrolled, view>>

\* The cancelled participants count, too.
RoomFor(t, P) == Cardinality(Participants(t)) + Cardinality(P) <= MaxPeople

\* The new participants P: the student of each, or None for a guest, and the
\* guests who are adults; all share a group and, but for adults, a guardian.
AddParticipants(t, P, studentOf, adults, g, guardian) ==
    /\ Lock(t)
    /\ Planned(t)
    /\ P # {}
    /\ \A p \in P : person[p] = None
    /\ ValidGroup(t, g)
    /\ ValidGuardian(t, guardian, None)
    /\ \A p \in P : studentOf[p] # None =>
          /\ p \notin adults
          /\ studentOf[p] \in enrolled
          /\ \A q \in P \ {p} : studentOf[q] # studentOf[p]
          /\ \A q \in Participants(t) : student[q] # studentOf[p]
    /\ RoomFor(t, P)
    /\ person' = [p \in People |->
           IF p \in P
           THEN [trip |-> t, adult |-> p \in adults,
                 guardian |-> IF p \in adults THEN None ELSE guardian,
                 group |-> g, active |-> TRUE,
                 fee |-> trip[t].fee, paid |-> 0, version |-> 1]
           ELSE person[p]]
    /\ student' = [p \in People |-> IF p \in P THEN studentOf[p] ELSE student[p]]
    /\ check' = IF Headcount(t) = None THEN check
                ELSE [check EXCEPT ![Headcount(t)] = CheckedIn(@, P, person')]
    /\ UNCHANGED <<group, round, enrolled, view>>

\* An update makes the row of p into q; regroup says that it names the group.
Edits(p) == [trip : {person[p].trip}, adult : BOOLEAN,
             guardian : People \cup {None}, group : Groups \cup {None},
             active : BOOLEAN, fee : Amounts, paid : Amounts,
             version : {person[p].version + 1}]

MayLeave(t, p, q) == TRUE
DependentsFollow(t, p, q) == ~q.adult \/ ~q.active => Dependents(t, p) = {}
AcceptsUpdate(t, p, q, regroup) ==
    /\ q.paid <= q.fee
    /\ regroup => ValidGroup(t, q.group)
    /\ q.group # person[p].group => regroup
    /\ q.active \/ q.guardian # person[p].guardian => ValidGuardian(t, q.guardian, p)
    /\ q.adult => q.guardian = None
    /\ DependentsFollow(t, p, q)

\* What the update does to the checks of the current round.
KeptCheckOf(rows, p, q, regroup) ==
    IF q.active /\ ~person[p].active
    THEN [rows EXCEPT ![p] = Pending(q.group)]
    ELSE IF regroup THEN Regrouped(rows, {p}, q.group) ELSE rows
CheckOf(rows, p, q, regroup) ==
    IF q.active # person[p].active
    THEN [rows EXCEPT ![p] = IF q.active THEN Pending(q.group) ELSE None]
    ELSE IF regroup THEN Regrouped(rows, {p}, q.group) ELSE rows

UpdateParticipant(o, p, q, regroup) ==
    LET t == person[p].trip
    IN /\ SeesPerson(o, p)
       /\ Lock(t)
       /\ Planned(t)
       /\ AcceptsUpdate(t, p, q, regroup)
       /\ person' = [person EXCEPT ![p] = q]
       /\ check' = IF Headcount(t) = None THEN check
                   ELSE [check EXCEPT ![Headcount(t)] = CheckOf(@, p, q, regroup)]
       /\ Used(o)
       /\ UNCHANGED <<group, student, round, enrolled>>

\* The participants P, as the page shows them, move to group g.
AssignGroup(o, t, P, g) ==
    /\ P # {}
    /\ P \subseteq Active(t)
    /\ \A p \in P : SeesPerson(o, p)
    /\ Lock(t)
    /\ Planned(t)
    /\ ValidGroup(t, g)
    /\ person' = [p \in People |->
           IF p \in P THEN [person[p] EXCEPT !.group = g, !.version = @ + 1]
                      ELSE person[p]]
    /\ check' = IF Headcount(t) = None THEN check
                ELSE [check EXCEPT ![Headcount(t)] = Regrouped(@, P, g)]
    /\ Used(o)
    /\ UNCHANGED <<group, student, round, enrolled>>

Closed(t) == [r \in Rounds |-> IF r \in OpenRounds(t)
                               THEN [round[r] EXCEPT !.open = FALSE]
                               ELSE round[r]]

StartRound(o, t, r) ==
    /\ SeesTrip(o, t)
    /\ Lock(t)
    /\ Planned(t)
    /\ Active(t) # {}
    /\ Cardinality(RoundsOf(t)) < MaxRounds
    /\ \A q \in Rounds : round[q] # None <=> q < r
    /\ round' = [Closed(t) EXCEPT ![r] = [trip |-> t, open |-> TRUE]]
    /\ check' = [check EXCEPT ![r] = CheckedIn(NoChecks, Active(t), person)]
    /\ Used(o)
    /\ UNCHANGED <<group, person, student, enrolled>>

MarkCheck(o, r, p, status) ==
    /\ round[r] # None
    /\ check[r][p] # None
    /\ SeesCheck(o, r, p)
    /\ Lock(round[r].trip)
    /\ Planned(round[r].trip)
    /\ r = Headcount(round[r].trip)
    /\ check' = [check EXCEPT ![r][p].status = status, ![r][p].version = @ + 1]
    /\ Used(o)
    /\ UNCHANGED <<group, person, student, round, enrolled>>

\* Completing a trip, or reopening a completed one.
SetTripStatus(o, t, status) ==
    /\ SeesTrip(o, t)
    /\ trip[t] # None
    /\ trip[t].version < MaxVersion
    /\ trip' = [Bumped(t) EXCEPT ![t].status = status]
    /\ round' = IF status = "completed" THEN Closed(t) ELSE round
    /\ Used(o)
    /\ UNCHANGED <<group, person, student, check, enrolled>>

\* The students' pages: a student may leave, come back, or be deleted, which
\* sets student_id to NULL wherever it was his.
EnrollStudent(s) == /\ enrolled' \in {enrolled \cup {s}, enrolled \ {s}}
                    /\ enrolled' # enrolled
                    /\ UNCHANGED <<trip, group, person, student, round, check, view>>
DeleteStudent(s) ==
    /\ enrolled' = enrolled \ {s}
    /\ student' = [p \in People |-> IF student[p] = s THEN None ELSE student[p]]
    /\ UNCHANGED <<trip, group, person, round, check, view>>

-----------------------------------------------------------------------------
Organize(o) ==
    \/ \E t \in Trips : ReadTrip(o, t)
    \/ ReadPeople(o)
    \/ \E r \in Rounds \cup {None} : ReadRounds(o, r)
    \/ ReadChecks(o)
    \/ \E p \in People, regroup \in BOOLEAN :
          /\ person[p] # None
          /\ \E q \in Edits(p) : UpdateParticipant(o, p, q, regroup)
    \/ \E t \in Trips, P \in SUBSET People, g \in Groups \cup {None} :
          AssignGroup(o, t, P, g)
    \/ \E t \in Trips, r \in Rounds : StartRound(o, t, r)
    \/ \E r \in Rounds, p \in People, status \in {"pending", "present", "absent"} :
          MarkCheck(o, r, p, status)
    \/ \E t \in Trips, status \in {"planned", "completed"} :
          SetTripStatus(o, t, status)

Register ==
    \E t \in Trips :
        \/ \E fee \in Amounts : CreateTrip(t, fee)
        \/ \E g \in Groups : AddGroup(t, g)
        \/ \E P, adults \in SUBSET People, g \in Groups \cup {None},
              guardian \in People \cup {None} :
              \E studentOf \in [P -> Students \cup {None}] :
                 /\ adults \subseteq P
                 /\ AddParticipants(t, P, studentOf, adults, g, guardian)

Next == \/ \E o \in Organizers : Organize(o)
        \/ Register
        \/ \E s \in Students : EnrollStudent(s) \/ DeleteStudent(s)

Spec == Init /\ [][Next]_vars

-----------------------------------------------------------------------------
(* Properties.                                                                *)

\* A trip has at most one open round, and none once it is completed.
OneHeadcount ==
    /\ \A r, q \in Rounds :
          /\ round[r] # None /\ round[q] # None
          /\ round[r].open /\ round[q].open
          /\ round[r].trip = round[q].trip
          => r = q
    /\ \A r \in Rounds :
          round[r] # None /\ round[r].open => Planned(round[r].trip)

\* Whoever joins, leaves, returns or moves while a round is open: it counts
\* exactly the active participants of its trip, each in the group he is in.
HeadcountIsRoster ==
    \A r \in Rounds :
        round[r] # None /\ round[r].open =>
            \A p \in People :
                IF p \in Active(round[r].trip)
                THEN /\ check[r][p] # None
                     /\ check[r][p].group = person[p].group
                ELSE check[r][p] = None

\* A participant who takes part and has a guardian has one who takes part in
\* the same trip, is an adult, and depends on nobody himself.
DependentsAccompanied ==
    \A t \in Trips : \A p \in Active(t) :
        person[p].guardian # None =>
            LET g == person[p].guardian
            IN g \in Active(t) /\ person[g].adult /\ person[g].guardian = None

\* No trip grows beyond the limits on participants, groups and rounds, whoever
\* is cancelled and whichever rounds are closed.
WithinLimits ==
    \A t \in Trips : /\ Cardinality(Participants(t)) <= MaxPeople
                     /\ Cardinality(GroupsOf(t)) <= MaxGroups
                     /\ Cardinality(RoundsOf(t)) <= MaxRounds

\* What was read on a page that shows the trip's present version is the present
\* state of its participants and its rounds: nothing changes under a version.
PagesAreFresh ==
    \A o \in Organizers :
        view[o] # None /\ view[o].version = trip[view[o].trip].version =>
            /\ view[o].step # "trip" => view[o].people = RosterOf(view[o].trip)
            /\ view[o].step = "open" /\ view[o].round # None =>
                  view[o].checks = check[view[o].round]

\* The rounds of the past stay as they were: a closed round never opens again
\* and its checks never change.
PastRoundsFrozen ==
    [][\A r \in Rounds :
          round[r] # None /\ ~round[r].open =>
              round'[r] = round[r] /\ check'[r] = check[r]]_vars

\* Who acted from an open page in this step: his page is gone after it.
Acts(o) == view[o] # None /\ view[o].step = "open" /\ view'[o] = None

\* A participant's row is changed only by an organizer whose page shows it as
\* it is: nobody's change of it is overwritten unseen.
EditsAsSeen ==
    [][\A p \in People :
          person[p] # None /\ person'[p] # person[p] =>
              \E o \in Organizers : Acts(o) /\ view[o].people[p] = person[p]]_vars

\* A round starts from the participants its organizer's page shows.
StartsAsSeen ==
    [][\A r \in Rounds :
          round[r] = None /\ round'[r] # None =>
              \E o \in Organizers :
                  /\ Acts(o)
                  /\ {p \in People : check'[r][p] # None} =
                     {p \in People : /\ view[o].people[p] # None
                                     /\ view[o].people[p].active}]_vars

\* A check is marked only by an organizer whose page shows its present status.
MarksAsSeen ==
    [][\A r \in Rounds, p \in People :
          /\ check[r][p] # None /\ check'[r][p] # None
          /\ check'[r][p].version # check[r][p].version
          => \E o \in Organizers :
                 /\ Acts(o)
                 /\ view[o].round = r
                 /\ view[o].checks[p] # None
                 /\ view[o].checks[p].status = check[r][p].status]_vars
=============================================================================
