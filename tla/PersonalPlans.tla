---------------------------- MODULE PersonalPlans ----------------------------
(***************************************************************************)
(* routers/personal_plans.py: one plan of a user, edited by its owner and     *)
(* marked by whoever has its link.                                           *)
(*                                                                         *)
(* A request reads the plan, decides, and writes with an UPDATE (or DELETE)   *)
(* that compares the version of the page it was sent from. A page shows the   *)
(* plan as it is or as it was: its version and link are any given so far.     *)
(* An id is never used again: a plan made after one was deleted finds no       *)
(* request on the old one in progress.                                        *)
(*                                                                         *)
(* The name, the contents of the tracks and the limit of 200 plans per owner  *)
(* (counted before the insert, without a lock) are left out.                  *)
(***************************************************************************)
EXTENDS Rows, Integers, FiniteSets

CONSTANTS
    PlanDays, Tracks,
    Configurations,  \* dates, weekdays and tracks, as far as a save compares them
    PlanRequests,    \* slots for requests in progress at the same time
    MaxVersion,      \* bounds the writes
    MaxLinks         \* bounds the links drawn


VARIABLES
    plan,        \* personal_plans: the row, or None
    links,       \* share tokens drawn so far, numbered
    planRequest  \* slot -> what a request has decided to write, or None

planVars == <<plan, links, planRequest>>

ShareModes == {"private", "readonly", "read_mark"}
Marks == [PlanDays -> SUBSET Tracks]
Plan == [configuration : Configurations, study : SUBSET PlanDays,
         assigned : Marks, items : Marks, done : SUBSET PlanDays,
         completed : BOOLEAN, archived : BOOLEAN, share : ShareModes,
         token : 0..MaxLinks \cup {None}, version : 1..MaxVersion]
PlansTypeOK == plan \in Plan \cup {None} /\ links \in 0..MaxLinks

Completion == [done : SUBSET PlanDays, items : Marks, completed : BOOLEAN]

ASSUME PlansAssumption == /\ MaxLinks \in Nat /\ MaxVersion \in Nat \ {0}
                          /\ None \notin 0..MaxLinks \cup Completion

\* SavePlanRequest, validated. A day without assignment ids is one whose ids are
\* empty, but for completionMode: there, "item" needs ids, empty or not, for
\* every day, and finishes the days that have nothing to do.
Body == [configuration : Configurations, study : SUBSET PlanDays, mode : {"day", "item"},
         assigned : Marks, items : Marks, done : SUBSET PlanDays]
Accepted(b) ==
    /\ b.done \subseteq b.study
    /\ \A d \in PlanDays : /\ b.items[d] \subseteq b.assigned[d]
                           /\ d \notin b.study => b.assigned[d] = {}

\* The columns of p with the values of an UPDATE over them.
Over(values, p) ==
    [k \in DOMAIN values \cup DOMAIN p |-> IF k \in DOMAIN values THEN values[k] ELSE p[k]]

-----------------------------------------------------------------------------
(* saved_completion: an assigned day is done when all its items are.          *)

SavedItems(b) ==
    [d \in PlanDays |-> IF d \in b.done /\ b.assigned[d] # {} THEN b.assigned[d] ELSE b.items[d]]
SavedDays(b) ==
    {d \in b.study : \/ b.assigned[d] # {} /\ b.assigned[d] \subseteq SavedItems(b)[d]
                     \/ b.assigned[d] = {} /\ (b.mode = "item" \/ d \in b.done)}
SavedCompletion(b) ==
    [assigned |-> b.assigned, items |-> SavedItems(b), done |-> SavedDays(b)]

AllDone(study, done) == study # {} /\ done = study

NewPlan(b) ==
    Over(SavedCompletion(b),
         [configuration |-> b.configuration, study |-> b.study,
          completed |-> AllDone(b.study, SavedDays(b)), archived |-> FALSE,
          share |-> "private", token |-> None, version |-> 1])

\* save_plan: a save that leaves the schedule alone leaves "completed" alone.
SaveValues(p, b) ==
    LET saved == Over(SavedCompletion(b), [configuration |-> b.configuration, study |-> b.study])
    IN IF b.configuration = p.configuration THEN saved
       ELSE Over([completed |-> AllDone(b.study, SavedDays(b))], saved)

\* set_plan_status: a link lasts as long as the share mode it was drawn for.
ShareValues(p, mode) ==
    IF mode = p.share THEN [share |-> mode]
    ELSE [share |-> mode, token |-> IF mode = "private" THEN None ELSE links + 1]

-----------------------------------------------------------------------------
(* mark_progress.                                                            *)

MayMark(p, d) == ~p.archived /\ d \in p.study

Marked(p, done, items) ==
    [done |-> done, items |-> items, completed |-> AllDone(p.study, done)]
ItemsLeft(p, d, on) == p.items
ItemsOf(p, d, on) == [p.items EXCEPT ![d] = IF on THEN p.assigned[d] ELSE {}]
DayItems(p, d, on) == ItemsOf(p, d, on)
DayMark(p, d, on) ==
    Marked(p, IF on THEN p.done \cup {d} ELSE p.done \ {d}, DayItems(p, d, on))
Checked(p, d, t, on) ==
    LET now == IF d \in p.done THEN p.assigned[d] ELSE p.items[d]
    IN IF on THEN now \cup {t} ELSE now \ {t}
ItemMark(p, d, t, on) ==
    LET checked == Checked(p, d, t, on)
    IN Marked(p, IF p.assigned[d] \subseteq checked THEN p.done \cup {d} ELSE p.done \ {d},
              [p.items EXCEPT ![d] = checked])

-----------------------------------------------------------------------------
PlansInit ==
    /\ plan = None
    /\ links = 0
    /\ planRequest = [q \in PlanRequests |-> None]

CreatePlan(b) ==
    /\ plan = None /\ \A q \in PlanRequests : planRequest[q] = None
    /\ Accepted(b)
    /\ plan' = NewPlan(b)
    /\ UNCHANGED <<links, planRequest>>

Owner == 0                           \* a visitor goes by the number of the link

\* A request has read the plan: it will write "values" where the version is
\* still "expected". "seen" is the version it read.
Decide(q, by, values, expected) ==
    /\ planRequest[q] = None
    /\ planRequest' = [planRequest EXCEPT
           ![q] = [by |-> by, values |-> values, expected |-> expected,
                   seen |-> plan.version]]
    /\ UNCHANGED plan

Expected == 1..plan.version

SavePlan(q, b) ==
    /\ plan # None
    /\ Accepted(b)
    /\ \E v \in Expected : Decide(q, Owner, SaveValues(plan, b), v)
    /\ UNCHANGED links

SetStatus(q, values) ==
    /\ plan # None
    /\ \E v \in Expected : Decide(q, Owner, values, v)
    /\ UNCHANGED links

Drawn(p, mode) == IF mode \in {p.share, "private"} THEN links ELSE links + 1
Share(q, mode) ==
    /\ plan # None
    /\ Drawn(plan, mode) <= MaxLinks
    /\ \E v \in Expected : Decide(q, Owner, ShareValues(plan, mode), v)
    /\ links' = Drawn(plan, mode)

DeletePlan(q) ==
    /\ plan # None
    /\ \E v \in Expected : Decide(q, Owner, None, v)
    /\ UNCHANGED links

MarkValues(p) ==
    UNION {{DayMark(p, d, on) : on \in BOOLEAN}
           \cup {ItemMark(p, d, t, on) : t \in p.assigned[d], on \in BOOLEAN} :
              d \in {x \in PlanDays : MayMark(p, x)}}

OwnerMark(q) ==
    /\ plan # None
    /\ \E values \in MarkValues(plan), v \in Expected : Decide(q, Owner, values, v)
    /\ UNCHANGED links

\* shared_plan finds the plan by its present link; 403 when it is read-only.
OpenToVisitors(p, link) == p.token = link /\ p.share = "read_mark"
VisitorMark(q, link) ==
    /\ plan # None
    /\ OpenToVisitors(plan, link)
    /\ \E values \in MarkValues(plan), v \in Expected : Decide(q, link, values, v)
    /\ UNCHANGED links

\* change_plan and the DELETE: the request ends, with or without its row.
Written(values, p) == Over(values, Over([version |-> p.version + 1], p))
AnyVersion(q) == plan # None
ExpectedVersion(q) == plan # None /\ plan.version = planRequest[q].expected
Matches(q) == ExpectedVersion(q)
Write(q) ==
    /\ planRequest[q] # None
    /\ plan # None => plan.version < MaxVersion
    /\ plan' = IF ~Matches(q) THEN plan
               ELSE IF planRequest[q].values = None THEN None
               ELSE Written(planRequest[q].values, plan)
    /\ planRequest' = [planRequest EXCEPT ![q] = None]
    /\ UNCHANGED links

StatusValues == {[archived |-> on] : on \in BOOLEAN} \cup {[completed |-> on] : on \in BOOLEAN}

PlansNext ==
    \/ \E b \in Body : CreatePlan(b)
    \/ \E q \in PlanRequests :
          \/ \E b \in Body : SavePlan(q, b)
          \/ \E values \in StatusValues : SetStatus(q, values)
          \/ \E mode \in ShareModes : Share(q, mode)
          \/ DeletePlan(q)
          \/ OwnerMark(q)
          \/ \E link \in 1..links : VisitorMark(q, link)
          \/ Write(q)

PlansSpec == PlansInit /\ [][PlansNext]_planVars

-----------------------------------------------------------------------------
(* Properties.                                                               *)

\* A day with items is done exactly when all its items are, whether it was marked
\* as a whole, item by item, by a visitor or by a save; nothing is done that is
\* not in the plan, and a plan without a link is private.
Consistent(p) ==
    /\ \A d \in PlanDays :
          /\ p.items[d] \subseteq p.assigned[d]
          /\ p.assigned[d] # {} => (d \in p.done <=> p.items[d] = p.assigned[d])
    /\ p.done \subseteq p.study
    /\ p.token = None <=> p.share = "private"
DaysFollowItems == plan # None => Consistent(plan)

\* What is written was computed from the plan it is written over, and what a
\* visitor writes is a mark on a plan that is open to that visitor at that moment:
\* archiving it, taking back its link or closing it to marks stops the visitors who
\* have already been let in.
PlanAsSeen ==
    [][\A q \in PlanRequests :
          (planRequest[q] # None /\ planRequest'[q] = None /\ plan' # plan) =>
              /\ planRequest[q].seen = plan.version
              /\ planRequest[q].by # Owner =>
                    /\ OpenToVisitors(plan, planRequest[q].by) /\ ~plan.archived
                    /\ planRequest[q].values # None
                    /\ \A k \in DOMAIN plan \ {"done", "items", "completed", "version"} :
                          plan'[k] = plan[k]]_planVars
=============================================================================
