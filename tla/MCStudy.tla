------------------------------- MODULE MCStudy -------------------------------
(***************************************************************************)
(* Progress with the tables of the Quran, PersonalPlans, Devices, Backups and  *)
(* Migrations for TLC, one workload at a time.                                *)
(***************************************************************************)
EXTENDS Progress, PersonalPlans, Devices, Backups, Migrations

CONSTANTS l1, l2, b1, b2, n1, n2, q1, q2, x, y

VARIABLE workload

studyVars == <<progressVars, planVars, deviceVars, backupVars, migrationVars, workload>>

\* Three surahs; the fifth ayah is printed on three lines, and most on one.
MCSurahAyahs == <<3, 4, 2>>
MCLineEnds == <<1, 2, 3, 5, 5, 5, 6, 7, 8, 9>>
MCQuarterStarts == <<1, 3, 4, 6, 7, 9>>

-----------------------------------------------------------------------------
(* Recitation.                                                               *)

MCItem(k, d, from, to, n) == [kind |-> k, direction |-> d, from |-> from, to |-> to, note |-> n]
Pages(d, from, to) == MCItem("page", d, from, to, n1)
PageItems == {Pages("forward", 1, 1), Pages("forward", 2, 3),
              Pages("backward", 3, 2), Pages("backward", 1, 1)}
AyahItems == {MCItem("ayah", "backward", a, e, n1) : a \in {8, 4}, e \in {9, 5, 3}}
             \cap Items

\* From the first page on, then back from the last, with no batch meanwhile.
PlanAlone == \A b \in Batches : batch[b] = None
PagePlans ==
    \/ ward = None /\ PlanAlone /\ OpenSet(b1, "page", "forward", 1)
    \/ revisions = {} /\ PlanAlone /\ OpenSet(b1, "page", "backward", LastPage)
    \/ SetWard(b1, 1)

\* Back through the surahs.
AyahPlans ==
    \/ ward = None /\ PlanAlone /\ OpenSet(b1, "ayah", "backward", 8)
    \/ PlanAlone /\ (\A l \in Lessons : entry[l] # None) /\ OpenDrop(b1)
    \/ SetWard(b1, 1) \/ DropWard(b1)

\* Set anew or dropped while a batch, or another such request, is in progress.
PlansInPairs ==
    \/ \E b \in Batches :
          \/ OpenDrop(b) \/ \E a \in {8, 9} : OpenSet(b, "ayah", "backward", a)
          \/ DropWard(b) \/ \E id \in 1..MaxWardId : SetWard(b, id)
    \/ entry[l1] = None /\ OpenSave(b1, l1, MCItem("ayah", "backward", 8, 9, n1))
    \/ Save(b1) \/ SaveFails(b1)

ExceptWhileSet(A) == (batch[b1] # None => batch[b1].op \in {"save", "delete"}) /\ A

\* One correction at the most.
SavesInPairs(S) ==
    \/ /\ revisions = {}
       /\ \E l \in Lessons : \E i \in S :
             /\ entry[l] = None \/ i.kind = "page"
             /\ \/ batch[b2] = None /\ OpenSave(b1, l, i)
                \/ batch[b1] # None /\ OpenSave(b2, l, i)
    \/ \E l \in Lessons : batch[b2] = None /\ revisions = {} /\ OpenDelete(b1, l)
    \/ \E b \in Batches : Save(b) \/ SaveFails(b) \/ Delete(b)

\* A lesson after the other, each what the plan suggests, in a portion that may change.
MCLinesPer == [unit \in ReverseUnits |-> CASE unit = "half_page" -> 2 [] unit = "quarter" -> 3
                                           [] unit = "hizb" -> 5 [] unit = "juz" -> 9
                                           [] OTHER -> 1]
SuggestedOneByOne ==
    \/ \E k \in Kinds, d \in Directions : \E a \in Places(k) :
          ward = None /\ OpenSet(b1, k, d, a)
    \/ \E l \in Lessons, n \in 1..2, unit \in ReverseUnits :
          /\ ward # None /\ entry[l] = None
          /\ \E a \in SuggestedStarts(ward) : OpenSave(b1, l, Suggestion(ward, a, n, unit, n1))
    \/ SetWard(b1, 1) \/ Save(b1)

\* Two lessons on one page, corrected and deleted one after the other.
BatchesOneByOne ==
    \/ \E l \in Lessons, n \in Notes : OpenSave(b1, l, MCItem("page", "forward", 1, 1, n))
    \/ \E l \in Lessons : OpenDelete(b1, l)
    \/ Save(b1) \/ Delete(b1)

-----------------------------------------------------------------------------
(* A plan of two days: two items on the first, nothing on the second.          *)

Schedule == [d \in PlanDays |-> IF d = 1 THEN {x, y} ELSE {}]
OnFirst(s) == [d \in PlanDays |-> IF d = 1 THEN s ELSE {}]
SmallBodies ==
    {b \in [configuration : Configurations, study : {PlanDays}, mode : {"item"},
            assigned : {Schedule}, items : {OnFirst({}), OnFirst({x})},
            done : {{}, {1}, PlanDays}] :
        (b.done = {} <=> b.items[1] = {x}) /\ (b.done = {} <=> b.configuration = 1)}

\* A visitor's mark while the owner, or another visitor, has a request in progress.
PlanInPairs ==
    \/ /\ planRequest[q2] = None
       /\ \/ \E b \in SmallBodies : CreatePlan(b) \/ SavePlan(q1, b)
          \/ \E on \in BOOLEAN : SetStatus(q1, [archived |-> on])
          \/ \E mode \in ShareModes : Share(q1, mode)
          \/ DeletePlan(q1) \/ OwnerMark(q1)
          \/ \E link \in 1..links : VisitorMark(q1, link)
    \/ \E link \in 1..links : planRequest[q1] # None /\ VisitorMark(q2, link)
    \/ \E q \in PlanRequests : Write(q)

-----------------------------------------------------------------------------
StudyInit ==
    /\ workload \in {"pages", "ayahs", "history", "suggested", "plan", "devices", "backups",
                     "upgrade", "plans"}
    /\ ProgressInit /\ PlansInit /\ DevicesInit /\ BackupsInit
    /\ MigrationsInit
    /\ workload = "upgrade" \/ disk = Installation({}, 0)

Rest(vars) == UNCHANGED <<vars, workload>>
StudyNext ==
    \/ /\ workload = "pages" /\ (PagePlans \/ ExceptWhileSet(SavesInPairs(PageItems)))
       /\ Rest(<<planVars, deviceVars, backupVars, migrationVars>>)
    \/ /\ workload = "ayahs" /\ (AyahPlans \/ ExceptWhileSet(SavesInPairs(AyahItems)))
       /\ Rest(<<planVars, deviceVars, backupVars, migrationVars>>)
    \/ /\ workload = "plans" /\ PlansInPairs
       /\ Rest(<<planVars, deviceVars, backupVars, migrationVars>>)
    \/ /\ workload = "history" /\ BatchesOneByOne
       /\ Rest(<<planVars, deviceVars, backupVars, migrationVars>>)
    \/ /\ workload = "suggested" /\ SuggestedOneByOne
       /\ Rest(<<planVars, deviceVars, backupVars, migrationVars>>)
    \/ /\ workload = "plan" /\ PlanInPairs
       /\ Rest(<<progressVars, deviceVars, backupVars, migrationVars>>)
    \/ /\ workload = "devices" /\ DevicesNext
       /\ Rest(<<progressVars, planVars, backupVars, migrationVars>>)
    \/ /\ workload = "backups" /\ BackupsNext
       /\ Rest(<<progressVars, planVars, deviceVars, migrationVars>>)
    \/ /\ workload = "upgrade" /\ MigrationsNext
       /\ Rest(<<progressVars, planVars, deviceVars, backupVars>>)

StudySpec == StudyInit /\ [][StudyNext]_studyVars

===============================================================================
