------------------------------- MODULE Progress -------------------------------
(***************************************************************************)
(* routers/progress.py: what one student recites of one ward, session after    *)
(* session, the history of each entry, and the cursor of the student's plan.   *)
(*                                                                         *)
(* A batch reads the session's entry and the plan, and writes in one           *)
(* transaction; so does a request that sets or drops the plan. A batch holds    *)
(* one change here: its students and wards do not touch each other's rows.      *)
(* Which students and sessions a batch may touch is in SessionEdits. Quality,   *)
(* mistakes and notes are part of what makes an entry differ: "note" stands     *)
(* for them; an entry's revision is in MobileSync.                              *)
(***************************************************************************)
EXTENDS Mushaf

CONSTANTS LastPage,     \* TOTAL_PAGES
          Lessons,      \* sessions in which the student recites
          Batches,      \* slots for requests in progress at the same time
          Notes,
          LinesPer,     \* plan_suggestion's lines_per_unit: forward, and 1 for "lines"
          MaxWardId,    \* bounds the ids of student_quran_plans
          MaxEntryId,   \* bounds the ids of quran_progress_entries
          MaxRevisions  \* bounds the ids of quran_progress_revisions

VARIABLES
    entry,       \* quran_progress_entries of the student's ward: lesson -> row or None
    revisions,   \* quran_progress_revisions of the ward: a set of rows
    ward,        \* student_quran_plans: the row, or None
    batch,       \* slot -> what a request has read, and its change, or None
    start,       \* history: the place the plan was set to
    covered      \* history: what has been recorded since then

progressVars == <<entry, revisions, ward, batch, start, covered>>

Kinds == {"page", "ayah"}
Directions == {"forward", "backward"}
Places(kind) == IF kind = "page" THEN 1..LastPage ELSE Ayahs

\* QuranRangeInput: the end does not come before the start.
Precedes(kind, direction, x, y) ==
    CASE direction = "forward" -> x <= y
      [] direction = "backward" /\ kind = "page" -> y <= x
      [] direction = "backward" /\ kind = "ayah" -> Reads(x, y)
Item == [kind : Kinds, direction : Directions, from : Nat, to : Nat, note : Notes]
Items ==
    UNION {{i \in [kind : {k}, direction : Directions, from : Places(k), to : Places(k),
                   note : Notes] : Precedes(k, i.direction, i.from, i.to)} : k \in Kinds}

\* The place after one: next_ayah, next_reverse_ayah or the page beside it.
After(kind, direction, x) ==
    CASE direction = "forward" -> IF x >= (IF kind = "page" THEN LastPage ELSE LastAyah)
                                  THEN None ELSE IF kind = "page" THEN x + 1 ELSE NextAyah(x)
      [] direction = "backward" /\ kind = "page" -> IF x <= 1 THEN None ELSE x - 1
      [] direction = "backward" /\ kind = "ayah" -> NextReverseAyah(x)

EntryIds == {entry[l].id : l \in {x \in Lessons : entry[x] # None}}
Greatest(S) == IF S = {} THEN 0 ELSE CHOOSE x \in S : \A y \in S : y <= x

EntryRow == [id : 1..MaxEntryId, item : Item]
Revision == [id : 1..MaxRevisions, entry : 1..MaxEntryId, before : Item, after : Item]
\* The cursor is next_page, or next_surah and next_ayah; what is not used is None.
Nullable == Nat \cup {None}
Ward == [id : 1..MaxWardId, kind : Kinds, direction : Directions,
         page : Nullable, surah : Nullable, ayah : Nullable, completed : BOOLEAN]
ASSUME ProgressAssumption == /\ LastPage \in Nat \ {0} /\ MaxEntryId \in Nat /\ MaxRevisions \in Nat
                             /\ MaxWardId \in Nat
                             /\ None \notin Nat /\ None \notin Ward /\ None \notin EntryRow

ProgressTypeOK ==
    /\ entry \in [Lessons -> EntryRow \cup {None}]
    /\ revisions \subseteq Revision
    /\ ward \in Ward \cup {None}
    /\ \A b \in Batches : batch[b] # None =>
          /\ batch[b].op \in {"save", "delete"} => batch[b].entry \in EntryRow \cup {None}
          /\ batch[b].ward \in Ward \cup {None}

ProgressInit ==
    /\ entry = [l \in Lessons |-> None]
    /\ revisions = {}
    /\ ward = None
    /\ batch = [b \in Batches |-> None]
    /\ start = None
    /\ covered = {}

-----------------------------------------------------------------------------
(* The plan's cursor.                                                        *)

\* A plan with its cursor at a place, and the place its columns name: progress_starts_at_plan
\* compares the columns one by one.
SetTo(p, x) == IF p.kind = "page" THEN [p EXCEPT !.page = x]
               ELSE [p EXCEPT !.surah = SurahOf(x), !.ayah = InSurah(x)]
Names(p, x) == IF p.kind = "page" THEN x = p.page
               ELSE SurahOf(x) = p.surah /\ InSurah(x) = p.ayah

\* A request writes the columns it has changed since it read them, and no others.
Changed(now, read, new) == [c \in DOMAIN now |-> IF new[c] = read[c] THEN now[c] ELSE new[c]]
Finds(read) == read # None /\ ward # None /\ ward.id = read.id

\* plan_suggestion: the portion that comes next, in what the plan is counted in, from the
\* place its columns name (ValueError where there is none).
OrFirst(x) == IF x = None THEN 1 ELSE x
SuggestedStarts(p) ==
    {x \in Places(p.kind) :
        Names([p EXCEPT !.page = OrFirst(@), !.surah = OrFirst(@), !.ayah = OrFirst(@)], x)}
ForwardEnd(a, n, unit) ==
    IF unit = "ayahs" THEN AyahsToEnd(a, n) ELSE LinesToEnd(a, n * LinesPer[unit])
SuggestedEnd(p, x, n, unit) ==
    CASE p.kind = "page" /\ p.direction = "backward" -> IF x - n + 1 < 1 THEN 1 ELSE x - n + 1
      [] p.kind = "page" /\ p.direction = "forward" -> Lesser(x + n - 1, LastPage)
      [] p.kind = "ayah" /\ p.direction = "backward" -> ReverseToEnd(x, n, unit)
      [] p.kind = "ayah" /\ p.direction = "forward" -> ForwardEnd(x, n, unit)
Suggestion(p, x, n, unit, note) ==
    [kind |-> p.kind, direction |-> p.direction, from |-> x,
     to |-> SuggestedEnd(p, x, n, unit), note |-> note]

-----------------------------------------------------------------------------
(* update_student_quran_plans: the request names the plan, or leaves it out.   *)

Read(b, r) ==
    /\ batch[b] = None
    /\ batch' = [batch EXCEPT ![b] = r]
    /\ UNCHANGED <<entry, revisions, ward, start, covered>>
OpenSet(b, kind, direction, x) ==
    Read(b, [op |-> "set", kind |-> kind, direction |-> direction, place |-> x, ward |-> ward])
OpenDrop(b) == Read(b, [op |-> "drop", ward |-> ward])

\* A new plan's row has a number that no other student's plan has.
NewWard(r, id) ==
    SetTo([id |-> id, kind |-> r.kind, direction |-> r.direction,
           page |-> None, surah |-> None, ayah |-> None, completed |-> FALSE], r.place)

\* A plan inserted since the read is in the way of another; one that is gone is not updated.
WardSet(r, id) ==
    IF r.ward = None THEN NewWard(r, id)
    ELSE Changed(ward, r.ward, NewWard(r, r.ward.id))
CannotSet(r) == IF r.ward = None THEN ward # None ELSE ~Finds(r.ward)
SetWard(b, id) ==
    LET r == batch[b]
    IN /\ r # None /\ r.op = "set"
       /\ IF CannotSet(r) THEN UNCHANGED <<ward, start, covered>>
          ELSE ward' = WardSet(r, id) /\ start' = r.place /\ covered' = {}
       /\ batch' = [batch EXCEPT ![b] = None]
       /\ UNCHANGED <<entry, revisions>>

DropWard(b) ==
    LET r == batch[b]
    IN /\ r # None /\ r.op = "drop"
       /\ IF Finds(r.ward) THEN ward' = None /\ start' = None /\ covered' = {}
          ELSE UNCHANGED <<ward, start, covered>>
       /\ batch' = [batch EXCEPT ![b] = None]
       /\ UNCHANGED <<entry, revisions>>

-----------------------------------------------------------------------------
(* save_session_progress.                                                    *)

Open(b, op, l, i) ==
    Read(b, [op |-> op, lesson |-> l, item |-> i, entry |-> entry[l], ward |-> ward])
OpenSave(b, l, i) == Open(b, "save", l, i)
OpenDelete(b, l) == Open(b, "delete", l, None)

\* should_advance_plan and progress_starts_at_plan, on the plan as it was read.
StartsAnywhere(p, i) == i.kind = p.kind /\ i.direction = p.direction
StartsAtPlan(p, i) == StartsAnywhere(p, i) /\ Names(p, i.from)
AdvancesWith(r) == r.ward # None /\ ~r.ward.completed /\ r.entry = None
                   /\ StartsAtPlan(r.ward, r.item)

\* advance_plan_cursor.
MovedOn(r) == LET next == After(r.item.kind, r.item.direction, r.item.to)
              IN IF next = None THEN [r.ward EXCEPT !.completed = TRUE]
                 ELSE SetTo(r.ward, next)
Advanced(r) == IF AdvancesWith(r) THEN Changed(ward, r.ward, MovedOn(r)) ELSE ward

\* An entry that differs from what is saved leaves a revision, which must refer to an entry:
\* if the one that was read, or the plan to be moved on, is gone, the request fails as a whole.
Differs(r) == r.entry # None /\ r.entry.item # r.item
Gone(r) == \/ Differs(r) /\ r.entry.id \notin EntryIds
           \/ AdvancesWith(r) /\ ~Finds(r.ward)

Upsert(l, i) == IF entry[l] = None THEN [id |-> Greatest(EntryIds) + 1, item |-> i]
                ELSE [entry[l] EXCEPT !.item = i]

Passes(i) == {x \in Places(i.kind) : /\ Precedes(i.kind, i.direction, i.from, x)
                                     /\ Precedes(i.kind, i.direction, x, i.to)}

NextRevision == Greatest({v.id : v \in revisions}) + 1
RevisionOf(r) == IF Differs(r) THEN {[id |-> NextRevision, entry |-> r.entry.id,
                                      before |-> r.entry.item, after |-> r.item]}
                 ELSE {}
Save(b) ==
    LET r == batch[b]
    IN /\ r # None /\ r.op = "save"
       /\ ~Gone(r)
       /\ Differs(r) => NextRevision <= MaxRevisions
       /\ Upsert(r.lesson, r.item).id <= MaxEntryId
       /\ revisions' = revisions \cup RevisionOf(r)
       /\ entry' = [entry EXCEPT ![r.lesson] = Upsert(r.lesson, r.item)]
       /\ ward' = Advanced(r)
       /\ covered' = IF ward # None /\ r.item.kind = ward.kind
                     THEN covered \cup Passes(r.item) ELSE covered
       /\ batch' = [batch EXCEPT ![b] = None]
       /\ UNCHANGED start

SaveFails(b) ==
    /\ batch[b] # None /\ batch[b].op = "save"
    /\ Gone(batch[b])
    /\ batch' = [batch EXCEPT ![b] = None]
    /\ UNCHANGED <<entry, revisions, ward, start, covered>>

\* The history goes with the entry that was read, if it is still there.
EveryRevision(id) == revisions
Forgotten(id) == {v \in revisions : v.entry # id}
Delete(b) ==
    LET r == batch[b]
        id == r.entry.id
    IN /\ r # None /\ r.op = "delete"
       /\ IF r.entry = None THEN UNCHANGED <<entry, revisions>>
          ELSE /\ revisions' = Forgotten(id)
               /\ entry' = [l \in Lessons |-> IF entry[l] # None /\ entry[l].id = id
                                              THEN None ELSE entry[l]]
       /\ batch' = [batch EXCEPT ![b] = None]
       /\ UNCHANGED <<ward, start, covered>>

ProgressNext ==
    \/ \E b \in Batches, k \in Kinds, d \in Directions : \E x \in Places(k) : OpenSet(b, k, d, x)
    \/ \E b \in Batches : OpenDrop(b) \/ DropWard(b) \/ \E id \in 1..MaxWardId : SetWard(b, id)
    \/ \E b \in Batches, l \in Lessons :
          OpenDelete(b, l) \/ \E i \in Items : OpenSave(b, l, i)
    \/ \E b \in Batches : Save(b) \/ SaveFails(b) \/ Delete(b)

ProgressSpec == ProgressInit /\ [][ProgressNext]_progressVars

-----------------------------------------------------------------------------
(* Properties.                                                               *)

\* The cursor of a plan names a page or an ayah; none that it has passed is without a record
\* since the plan was set, and a plan is completed only when all the way to the end has been
\* recorded.
NothingSkipped ==
    ward # None =>
        \E next \in Places(ward.kind) :
            /\ Names(ward, next)
            /\ \A x \in Places(ward.kind) :
                  /\ Precedes(ward.kind, ward.direction, start, x)
                  /\ ward.completed \/ ~Precedes(ward.kind, ward.direction, next, x)
                  => x \in covered

\* ... whichever batches overlap, where the plan goes by pages and is not set meanwhile
\* (save_session_progress, advance_plan_cursor, update_student_quran_plans). It is not so of a
\* plan that goes by ayahs: overlapping batches each write the columns they have changed, and
\* together they leave a surah of the one with an ayah of the other.
PagesOrOneByOne ==
    \A b, c \in Batches : batch[b] # None /\ batch[c] # None /\ b # c =>
        /\ batch[b].op \in {"save", "delete"}
        /\ ward # None => ward.kind = "page"
CursorSkipsNothing == []PagesOrOneByOne => []NothingSkipped

\* What a plan read backward suggests is as long as its amount, wherever the cursor is, and
\* in ayahs, quarters, hizbs and juzs no longer (plan_suggestion, reverse_to_end).
PortionsWhole ==
    ward # None /\ ward.kind = "ayah" /\ ward.direction = "backward" =>
        \A x \in SuggestedStarts(ward), n \in 1..MaxAmount, unit \in ReverseUnits :
            PortionIsWhole(x, SuggestedEnd(ward, x, n, unit), n, unit)

\* The history of an entry leads, revision by revision, to what it holds now, and
\* no revision is left of an entry that was deleted (its number may be given again).
\* Of two batches that read the same entry, both record the same "before".
Following(v) == {w \in revisions : w.entry = v.entry /\ v.id < w.id}
LeadsTo(v, l) ==
    /\ entry[l] # None /\ entry[l].id = v.entry
    /\ Following(v) = {} => v.after = entry[l].item
    /\ \A w \in Following(v) : (\A u \in Following(v) : w.id <= u.id) => v.after = w.before
HistoryLeadsToNow == \A v \in revisions : \E l \in Lessons : LeadsTo(v, l)

\* ... which holds of batches that come one at a time (save_session_progress).
OneBatch == \A b, c \in Batches : batch[b] # None /\ batch[c] # None => b = c
HistoryOneByOne == []OneBatch => []HistoryLeadsToNow
=============================================================================
