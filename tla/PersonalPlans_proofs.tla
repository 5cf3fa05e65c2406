------------------------- MODULE PersonalPlans_proofs -------------------------
(***************************************************************************)
(* Proofs about PersonalPlans: nothing is written over a plan that was not     *)
(* read, and days follow their items, for any days, tracks, configurations and *)
(* number of requests in progress.                                            *)
(***************************************************************************)
EXTENDS PersonalPlans, TLAPS

Written0 == {"configuration", "study", "assigned", "items", "done", "completed",
             "archived", "share", "token"}
Columns == Written0 \cup {"version"}

\* A row with the columns a plan has, and a consistent one.
Sound(p) ==
    /\ DOMAIN p = Columns
    /\ p.version \in Nat
    /\ p.assigned \in Marks /\ p.items \in Marks
    /\ p.study \subseteq PlanDays
    /\ Consistent(p)

\* What a request will write fits the plan it has read: it is a mark of a visitor
\* whom the plan is open to, or an edit of the owner.
Fits(r, p) ==
    /\ r.values # None => /\ DOMAIN r.values \subseteq Written0
                          /\ Sound(Written(r.values, p))
    /\ r.by # Owner => /\ OpenToVisitors(p, r.by) /\ ~p.archived
                       /\ r.values # None
                       /\ DOMAIN r.values = {"done", "items", "completed"}

\* A version that is expected is not above the one that was read, and no request
\* has read a version that is still to come.
Pending(r, p) ==
    /\ r.expected \in Nat /\ r.seen \in Nat
    /\ r.expected <= r.seen /\ r.seen <= p.version
    /\ r.seen = p.version => Fits(r, p)

PlansInvariant ==
    /\ links \in Nat
    /\ planRequest = [q \in PlanRequests |-> planRequest[q]]
    /\ plan # None =>
          /\ Sound(plan)
          /\ \A q \in PlanRequests : planRequest[q] # None => Pending(planRequest[q], plan)

-----------------------------------------------------------------------------
(* Lemmas about rows.                                                        *)

\* What a row looks like after an UPDATE.
LEMMA WrittenRow ==
    ASSUME NEW p, DOMAIN p = Columns, NEW values, DOMAIN values \subseteq Written0
    PROVE  /\ DOMAIN Written(values, p) = Columns
           /\ Written(values, p)["version"] = p.version + 1
           /\ \A k \in Written0 :
                 Written(values, p)[k] = IF k \in DOMAIN values THEN values[k] ELSE p[k]
<1> DEFINE v == [version |-> p.version + 1]
           base == Over(v, p)
<1>1. DOMAIN v = {"version"} /\ v["version"] = p.version + 1
    OBVIOUS
<1>2. "version" \notin Written0
    BY DEF Written0
<1>3. /\ DOMAIN base = Columns
      /\ base["version"] = p.version + 1
      /\ \A k \in Written0 : base[k] = p[k]
    <2> HIDE DEF v
    <2> QED BY <1>1, <1>2 DEF Over, Columns
<1>4. Written(values, p) = Over(values, base)
    BY DEF Written
<1> HIDE DEF base
<1> QED BY <1>2, <1>3, <1>4 DEF Over, Columns

\* An UPDATE of items and days that agree leaves a consistent row.
LEMMA MarkedRow ==
    ASSUME NEW p, Sound(p), NEW done \in SUBSET p.study, NEW items \in Marks,
           \A d \in PlanDays :
              /\ items[d] \subseteq p.assigned[d]
              /\ p.assigned[d] # {} => (d \in done <=> items[d] = p.assigned[d])
    PROVE  /\ DOMAIN Marked(p, done, items) = {"done", "items", "completed"}
           /\ Sound(Written(Marked(p, done, items), p))
<1> DEFINE values == Marked(p, done, items)
           w == Written(values, p)
<1>1. /\ DOMAIN values = {"done", "items", "completed"}
      /\ values["done"] = done /\ values["items"] = items
    BY DEF Marked
<1>2. {"done", "items", "completed"} \subseteq Written0
    BY DEF Written0
<1>3. /\ DOMAIN w = Columns /\ w["version"] = p.version + 1
      /\ \A k \in Written0 : w[k] = IF k \in DOMAIN values THEN values[k] ELSE p[k]
    BY <1>1, <1>2, WrittenRow DEF Sound
<1> HIDE DEF w, values
<1>4. /\ w.done = done /\ w.items = items /\ w.assigned = p.assigned
      /\ w.study = p.study /\ w.token = p.token /\ w.share = p.share
      /\ w.version = p.version + 1
    BY <1>1, <1>3 DEF Written0
<1>5. Sound(w)
    BY <1>3, <1>4 DEF Sound, Consistent
<1> QED BY <1>1, <1>5 DEF w, values

\* The marks a visitor or the owner can make leave a consistent row.
LEMMA MarksAreSound ==
    ASSUME NEW p, Sound(p), NEW values \in MarkValues(p)
    PROVE  /\ DOMAIN values = {"done", "items", "completed"}
           /\ values # None
           /\ Sound(Written(values, p))
           /\ ~p.archived
<1>1. PICK d \in {x \in PlanDays : MayMark(p, x)} :
         \/ \E on \in BOOLEAN : values = DayMark(p, d, on)
         \/ \E t \in p.assigned[d], on \in BOOLEAN : values = ItemMark(p, d, t, on)
    BY DEF MarkValues
<1>2. d \in PlanDays /\ d \in p.study /\ ~p.archived
    BY <1>1 DEF MayMark
<1>3. p.items \in Marks /\ p.assigned \in Marks /\ p.done \subseteq p.study
    BY DEF Sound, Consistent
<1>4. PICK done \in SUBSET p.study, items \in Marks :
         /\ values = Marked(p, done, items)
         /\ \A e \in PlanDays :
               /\ items[e] \subseteq p.assigned[e]
               /\ p.assigned[e] # {} => (e \in done <=> items[e] = p.assigned[e])
    <2>1. ASSUME NEW on \in BOOLEAN, values = DayMark(p, d, on)
          PROVE  \E done \in SUBSET p.study, items \in Marks :
                    /\ values = Marked(p, done, items)
                    /\ \A e \in PlanDays :
                          /\ items[e] \subseteq p.assigned[e]
                          /\ p.assigned[e] # {} => (e \in done <=> items[e] = p.assigned[e])
        <3> DEFINE done == IF on THEN p.done \cup {d} ELSE p.done \ {d}
                   items == [p.items EXCEPT ![d] = IF on THEN p.assigned[d] ELSE {}]
        <3>1. values = Marked(p, done, items)
            BY <2>1 DEF DayMark, DayItems, ItemsOf
        <3>2. done \in SUBSET p.study /\ items \in Marks
            BY <1>2, <1>3 DEF Marks
        <3>3. ASSUME NEW e \in PlanDays
              PROVE  /\ items[e] \subseteq p.assigned[e]
                     /\ p.assigned[e] # {} => (e \in done <=> items[e] = p.assigned[e])
            <4>1. CASE e = d
                <5>1. items[e] = IF on THEN p.assigned[d] ELSE {}
                    BY <1>3, <4>1 DEF Marks
                <5> QED BY <4>1, <5>1
            <4>2. CASE e # d
                <5>1. items[e] = p.items[e]
                    BY <1>3, <4>2 DEF Marks
                <5> QED BY <4>2, <5>1 DEF Sound, Consistent
            <4> QED BY <4>1, <4>2
        <3> HIDE DEF done, items
        <3> QED BY <3>1, <3>2, <3>3
    <2>2. ASSUME NEW t \in p.assigned[d], NEW on \in BOOLEAN, values = ItemMark(p, d, t, on)
          PROVE  \E done \in SUBSET p.study, items \in Marks :
                    /\ values = Marked(p, done, items)
                    /\ \A e \in PlanDays :
                          /\ items[e] \subseteq p.assigned[e]
                          /\ p.assigned[e] # {} => (e \in done <=> items[e] = p.assigned[e])
        <3> DEFINE checked == Checked(p, d, t, on)
                   done == IF p.assigned[d] \subseteq checked THEN p.done \cup {d}
                           ELSE p.done \ {d}
                   items == [p.items EXCEPT ![d] = checked]
        <3>1. values = Marked(p, done, items)
            BY <2>2 DEF ItemMark
        <3>2. p.items[d] \subseteq p.assigned[d]
            BY <1>2 DEF Sound, Consistent
        <3>3. checked \subseteq p.assigned[d]
            BY <3>2 DEF Checked
        <3>4. p.assigned[d] \subseteq Tracks
            BY <1>2, <1>3 DEF Marks
        <3> HIDE DEF checked
        <3>5. done \in SUBSET p.study /\ items \in Marks
            BY <1>2, <1>3, <3>3, <3>4 DEF Marks
        <3>6. ASSUME NEW e \in PlanDays
              PROVE  /\ items[e] \subseteq p.assigned[e]
                     /\ p.assigned[e] # {} => (e \in done <=> items[e] = p.assigned[e])
            <4>1. CASE e = d
                <5>1. items[e] = checked
                    BY <1>3, <4>1 DEF Marks
                <5>2. p.assigned[d] \subseteq checked <=> checked = p.assigned[d]
                    BY <3>3
                <5> QED BY <3>3, <4>1, <5>1, <5>2
            <4>2. CASE e # d
                <5>1. items[e] = p.items[e]
                    BY <1>3, <4>2 DEF Marks
                <5> QED BY <4>2, <5>1 DEF Sound, Consistent
            <4> QED BY <4>1, <4>2
        <3> HIDE DEF done, items
        <3> QED BY <3>1, <3>5, <3>6
    <2> QED BY <1>1, <2>1, <2>2
<1>5. /\ DOMAIN values = {"done", "items", "completed"}
      /\ Sound(Written(values, p))
    BY <1>4, MarkedRow
<1>6. values \in Completion
    <2>1. AllDone(p.study, done) \in BOOLEAN
        BY DEF AllDone
    <2>2. done \subseteq PlanDays
        BY DEF Sound
    <2> QED BY <1>4, <2>1, <2>2 DEF Marked, Completion
<1> QED BY <1>2, <1>5, <1>6, PlansAssumption

\* What a save keeps of the days and items it is sent agrees.
LEMMA SavedAgree ==
    ASSUME NEW b \in Body, Accepted(b)
    PROVE  /\ SavedItems(b) \in Marks
           /\ SavedDays(b) \subseteq b.study
           /\ \A d \in PlanDays :
                 /\ SavedItems(b)[d] \subseteq b.assigned[d]
                 /\ b.assigned[d] # {} =>
                       (d \in SavedDays(b) <=> SavedItems(b)[d] = b.assigned[d])
<1>1. /\ b.assigned \in Marks /\ b.items \in Marks
      /\ b.study \subseteq PlanDays /\ b.done \subseteq b.study
    BY DEF Body, Accepted
<1>2. SavedItems(b) \in Marks
    BY <1>1 DEF SavedItems, Marks
<1>3. ASSUME NEW d \in PlanDays
      PROVE  /\ SavedItems(b)[d] \subseteq b.assigned[d]
             /\ b.assigned[d] # {} =>
                   (d \in SavedDays(b) <=> SavedItems(b)[d] = b.assigned[d])
    <2>1. b.items[d] \subseteq b.assigned[d]
        BY DEF Accepted
    <2>2. d \notin b.study => b.assigned[d] = {}
        BY DEF Accepted
    <2>3. SavedItems(b)[d] = IF d \in b.done /\ b.assigned[d] # {} THEN b.assigned[d]
                             ELSE b.items[d]
        BY DEF SavedItems
    <2>4. SavedItems(b)[d] \subseteq b.assigned[d]
        BY <2>1, <2>3
    <2>5. b.assigned[d] # {} =>
             (d \in SavedDays(b) <=> b.assigned[d] \subseteq SavedItems(b)[d])
        BY <2>2 DEF SavedDays
    <2> QED BY <2>4, <2>5
<1> QED BY <1>2, <1>3 DEF SavedDays

\* The row that a body makes, whatever its other columns, is consistent.
LEMMA SavedRow ==
    ASSUME NEW b \in Body, Accepted(b), NEW w, DOMAIN w = Columns, w.version \in Nat,
           w.assigned = b.assigned, w.items = SavedItems(b), w.done = SavedDays(b),
           w.study = b.study, w.token = None <=> w.share = "private"
    PROVE  Sound(w)
<1>1. b.assigned \in Marks /\ b.study \subseteq PlanDays
    BY DEF Body
<1> QED BY <1>1, SavedAgree DEF Sound, Consistent

LEMMA NewPlanIsSound ==
    ASSUME NEW b \in Body, Accepted(b)
    PROVE  Sound(NewPlan(b)) /\ NewPlan(b).version = 1
<1> DEFINE kept == SavedCompletion(b)
           rest == [configuration |-> b.configuration, study |-> b.study,
                    completed |-> AllDone(b.study, SavedDays(b)), archived |-> FALSE,
                    share |-> "private", token |-> None, version |-> 1]
           w == NewPlan(b)
<1>1. /\ DOMAIN kept = {"assigned", "items", "done"}
      /\ kept["assigned"] = b.assigned /\ kept["items"] = SavedItems(b)
      /\ kept["done"] = SavedDays(b)
    BY DEF SavedCompletion
<1>2. /\ DOMAIN rest = {"configuration", "study", "completed", "archived", "share",
                        "token", "version"}
      /\ rest["study"] = b.study /\ rest["share"] = "private" /\ rest["token"] = None
      /\ rest["version"] = 1
    OBVIOUS
<1>3. w = Over(kept, rest)
    BY DEF NewPlan
<1> HIDE DEF kept, rest, w
<1>4. DOMAIN w = Columns
    BY <1>1, <1>2, <1>3 DEF Over, Columns, Written0
<1>5. /\ w.assigned = b.assigned /\ w.items = SavedItems(b) /\ w.done = SavedDays(b)
      /\ w.study = b.study /\ w.share = "private" /\ w.token = None /\ w.version = 1
    BY <1>1, <1>2, <1>3 DEF Over
<1>6. Sound(w)
    BY <1>4, <1>5, SavedRow
<1> QED BY <1>5, <1>6 DEF w

\* A save writes some columns, and leaves a consistent row.
LEMMA SaveIsSound ==
    ASSUME NEW p, Sound(p), NEW b \in Body, Accepted(b)
    PROVE  /\ DOMAIN SaveValues(p, b) \subseteq Written0
           /\ Sound(Written(SaveValues(p, b), p))
<1> DEFINE values == SaveValues(p, b)
           w == Written(values, p)
           kept == SavedCompletion(b)
           rest == [configuration |-> b.configuration, study |-> b.study]
           saved == Over(kept, rest)
           all == [completed |-> AllDone(b.study, SavedDays(b))]
<1>1. /\ DOMAIN kept = {"assigned", "items", "done"}
      /\ kept["assigned"] = b.assigned /\ kept["items"] = SavedItems(b)
      /\ kept["done"] = SavedDays(b)
    BY DEF SavedCompletion
<1>2. DOMAIN rest = {"configuration", "study"} /\ rest["study"] = b.study
    OBVIOUS
<1>3. DOMAIN all = {"completed"}
    OBVIOUS
<1>4. values = saved \/ values = Over(all, saved)
    BY DEF SaveValues
<1> HIDE DEF values, kept, rest, all
<1>5. /\ DOMAIN saved = {"assigned", "items", "done", "configuration", "study"}
      /\ saved["assigned"] = b.assigned /\ saved["items"] = SavedItems(b)
      /\ saved["done"] = SavedDays(b) /\ saved["study"] = b.study
    BY <1>1, <1>2 DEF Over
<1> HIDE DEF saved
<1>6. /\ {"assigned", "items", "done", "study"} \subseteq DOMAIN values
      /\ DOMAIN values \subseteq Written0 \ {"token", "share"}
      /\ values["assigned"] = b.assigned /\ values["items"] = SavedItems(b)
      /\ values["done"] = SavedDays(b) /\ values["study"] = b.study
    BY <1>3, <1>4, <1>5 DEF Over, Written0
<1>7. /\ DOMAIN w = Columns /\ w["version"] = p.version + 1
      /\ \A k \in Written0 : w[k] = IF k \in DOMAIN values THEN values[k] ELSE p[k]
    BY <1>6, WrittenRow DEF Sound
<1> HIDE DEF w
<1>8. /\ w.assigned = b.assigned /\ w.items = SavedItems(b) /\ w.done = SavedDays(b)
      /\ w.study = b.study /\ w.share = p.share /\ w.token = p.token
      /\ w.version = p.version + 1
    BY <1>6, <1>7 DEF Written0
<1>9. Sound(w)
    BY <1>7, <1>8, SavedRow DEF Sound, Consistent
<1> QED BY <1>6, <1>9 DEF values, w

\* An UPDATE that leaves days, items and assignments alone, and the link with the
\* share mode or both as they should be, leaves a consistent row.
LEMMA StatusRow ==
    ASSUME NEW p, Sound(p), NEW values,
           DOMAIN values \subseteq {"archived", "completed", "share", "token"},
           Written(values, p)["token"] = None <=> Written(values, p)["share"] = "private"
    PROVE  DOMAIN values \subseteq Written0 /\ Sound(Written(values, p))
<1> DEFINE w == Written(values, p)
<1>1. DOMAIN values \subseteq Written0
    BY DEF Written0
<1>2. /\ DOMAIN w = Columns /\ w["version"] = p.version + 1
      /\ \A k \in Written0 : w[k] = IF k \in DOMAIN values THEN values[k] ELSE p[k]
    BY <1>1, WrittenRow DEF Sound
<1>3. w.token = None <=> w.share = "private"
    OBVIOUS
<1> HIDE DEF w
<1>4. /\ w.assigned = p.assigned /\ w.items = p.items /\ w.done = p.done
      /\ w.study = p.study /\ w.version = p.version + 1
    BY <1>2 DEF Written0
<1>5. Sound(w)
    BY <1>2, <1>3, <1>4 DEF Sound, Consistent
<1> QED BY <1>1, <1>5 DEF w

\* What the owner asks for, besides marks and deletions, leaves a consistent row.
LEMMA StatusIsSound ==
    ASSUME NEW p, Sound(p), NEW values \in StatusValues
    PROVE  DOMAIN values \subseteq Written0 /\ Sound(Written(values, p))
<1>1. DOMAIN values = {"archived"} \/ DOMAIN values = {"completed"}
    BY DEF StatusValues
<1>2. DOMAIN values \subseteq Written0
    BY <1>1 DEF Written0
<1>3. /\ Written(values, p)["token"] = p["token"]
      /\ Written(values, p)["share"] = p["share"]
    BY <1>1, <1>2, WrittenRow DEF Sound, Written0
<1>4. p["token"] = None <=> p["share"] = "private"
    BY DEF Sound, Consistent
<1> QED BY <1>1, <1>3, <1>4, StatusRow

LEMMA ShareIsSound ==
    ASSUME NEW p, Sound(p), NEW mode \in ShareModes,
           mode \notin {p.share, "private"} => links + 1 # None
    PROVE  /\ DOMAIN ShareValues(p, mode) \subseteq Written0
           /\ Sound(Written(ShareValues(p, mode), p))
<1> DEFINE values == ShareValues(p, mode)
<1>1. CASE mode = p.share
    <2>1. DOMAIN values = {"share"} /\ values["share"] = p.share
        BY <1>1 DEF ShareValues
    <2> HIDE DEF values
    <2>2. DOMAIN values \subseteq Written0
        BY <2>1 DEF Written0
    <2>3. /\ Written(values, p)["token"] = p["token"]
          /\ Written(values, p)["share"] = p.share
        BY <2>1, <2>2, WrittenRow DEF Sound, Written0
    <2>4. p["token"] = None <=> p.share = "private"
        BY DEF Sound, Consistent
    <2>5. Sound(Written(values, p)) /\ DOMAIN values \subseteq Written0
        BY <2>1, <2>3, <2>4, StatusRow
    <2> QED BY <2>5 DEF values
<1>2. CASE mode # p.share
    <2>1. /\ DOMAIN values = {"share", "token"} /\ values["share"] = mode
          /\ values["token"] = IF mode = "private" THEN None ELSE links + 1
        BY <1>2 DEF ShareValues
    <2> HIDE DEF values
    <2>2. DOMAIN values \subseteq Written0
        BY <2>1 DEF Written0
    <2>3. /\ Written(values, p)["token"] = IF mode = "private" THEN None ELSE links + 1
          /\ Written(values, p)["share"] = mode
        BY <2>1, <2>2, WrittenRow DEF Sound, Written0
    <2>4. Sound(Written(values, p)) /\ DOMAIN values \subseteq Written0
        BY <1>2, <2>1, <2>3, StatusRow
    <2> QED BY <2>4 DEF values
<1> QED BY <1>1, <1>2

-----------------------------------------------------------------------------
(* The invariant.                                                            *)

LEMMA PlansInitInvariant == PlansInit => PlansInvariant
BY DEF PlansInit, PlansInvariant

LEMMA CreateKeeps ==
    ASSUME PlansInvariant, NEW b \in Body, CreatePlan(b)
    PROVE  PlansInvariant'
<1>1. Sound(plan')
    BY NewPlanIsSound DEF CreatePlan
<1>2. \A q \in PlanRequests : planRequest'[q] = None
    BY DEF CreatePlan
<1> QED BY <1>1, <1>2 DEF CreatePlan, PlansInvariant

\* A request decides on what it has just read.
LEMMA DecideKeeps ==
    ASSUME PlansInvariant, plan # None, NEW q \in PlanRequests, NEW by, NEW values,
           NEW v \in Expected, Decide(q, by, values, v), links' \in Nat,
           Fits([by |-> by, values |-> values, expected |-> v, seen |-> plan.version], plan)
    PROVE  PlansInvariant'
<1> DEFINE r == [by |-> by, values |-> values, expected |-> v, seen |-> plan.version]
<1>1. /\ planRequest' = [planRequest EXCEPT ![q] = r]
      /\ plan' = plan
    BY DEF Decide
<1>2. Pending(r, plan)
    <2>1. r.expected = v /\ r.seen = plan.version
        OBVIOUS
    <2>2. plan.version \in Nat /\ v \in 1..plan.version
        BY DEF PlansInvariant, Sound, Expected
    <2>3. Fits(r, plan)
        OBVIOUS
    <2> HIDE DEF r
    <2> QED BY <2>1, <2>2, <2>3 DEF Pending
<1> HIDE DEF r
<1>3. ASSUME NEW o \in PlanRequests, planRequest'[o] # None
      PROVE  Pending(planRequest'[o], plan)
    <2>1. CASE o = q
        BY <1>1, <1>2, <2>1 DEF PlansInvariant
    <2>2. CASE o # q
        <3>1. planRequest'[o] = planRequest[o]
            BY <1>1, <2>2 DEF PlansInvariant
        <3> QED BY <1>3, <3>1 DEF PlansInvariant
    <2> QED BY <2>1, <2>2
<1> QED BY <1>1, <1>3 DEF PlansInvariant

\* The owner may ask for whatever leaves a consistent row.
LEMMA OwnerKeeps ==
    ASSUME PlansInvariant, plan # None, NEW q \in PlanRequests, NEW values,
           NEW v \in Expected, Decide(q, Owner, values, v), links' \in Nat,
           values # None => /\ DOMAIN values \subseteq Written0
                            /\ Sound(Written(values, plan))
    PROVE  PlansInvariant'
<1> DEFINE r == [by |-> Owner, values |-> values, expected |-> v, seen |-> plan.version]
<1>1. r.by = Owner /\ r.values = values
    OBVIOUS
<1> HIDE DEF r
<1>2. Fits(r, plan)
    BY <1>1 DEF Fits
<1> QED BY <1>2, DecideKeeps DEF r

LEMMA WriteKeeps ==
    ASSUME PlansInvariant, NEW q \in PlanRequests, Write(q)
    PROVE  PlansInvariant'
<1>1. planRequest' = [planRequest EXCEPT ![q] = None]
    BY DEF Write
<1>0. links' \in Nat
    BY DEF Write, PlansInvariant
<1>2. ASSUME NEW o \in PlanRequests, planRequest'[o] # None
      PROVE  planRequest'[o] = planRequest[o] /\ planRequest[o] # None
    BY <1>1, <1>2 DEF PlansInvariant
<1>3. CASE plan' = plan
    BY <1>0, <1>1, <1>2, <1>3 DEF PlansInvariant
<1>4. CASE plan' = None
    BY <1>0, <1>1, <1>4 DEF PlansInvariant
<1>5. CASE plan' # plan /\ plan' # None
    <2> DEFINE r == planRequest[q]
    <2>1. /\ plan # None /\ plan.version = r.expected
          /\ r.values # None /\ plan' = Written(r.values, plan)
        BY <1>5 DEF Write, Matches, ExpectedVersion
    <2>2. Pending(r, plan) /\ Sound(plan)
        BY <2>1 DEF PlansInvariant, Write
    <2>3. Fits(r, plan)
        BY <2>1, <2>2 DEF Pending, Sound
    <2>4. DOMAIN r.values \subseteq Written0 /\ Sound(plan')
        BY <2>1, <2>3 DEF Fits
    <2>5. plan'["version"] = plan.version + 1
        BY <2>1, <2>2, <2>4, WrittenRow DEF Sound
    <2>6. ASSUME NEW o \in PlanRequests, planRequest'[o] # None
          PROVE  Pending(planRequest'[o], plan')
        <3>1. planRequest'[o] = planRequest[o] /\ Pending(planRequest[o], plan)
            BY <1>2, <2>1, <2>6 DEF PlansInvariant
        <3>2. plan.version \in Nat /\ plan'.version = plan.version + 1
            BY <2>2, <2>5 DEF Sound
        <3> QED BY <3>1, <3>2 DEF Pending
    <2> QED BY <1>0, <1>1, <2>4, <2>6 DEF PlansInvariant
<1> QED BY <1>3, <1>4, <1>5

LEMMA PlansStepInvariant ==
    ASSUME PlansInvariant, [PlansNext]_planVars
    PROVE  PlansInvariant'
<1>1. ASSUME NEW b \in Body, CreatePlan(b) PROVE PlansInvariant'
    BY <1>1, CreateKeeps
<1>2. ASSUME NEW q \in PlanRequests, NEW b \in Body, SavePlan(q, b) PROVE PlansInvariant'
    <2>1. Accepted(b) /\ plan # None /\ Sound(plan)
        BY <1>2 DEF SavePlan, PlansInvariant
    <2>2. PICK v \in Expected : Decide(q, Owner, SaveValues(plan, b), v)
        BY <1>2 DEF SavePlan
    <2>3. links' \in Nat
        BY <1>2 DEF SavePlan, PlansInvariant
    <2>4. /\ DOMAIN SaveValues(plan, b) \subseteq Written0
          /\ Sound(Written(SaveValues(plan, b), plan))
        BY <2>1, SaveIsSound
    <2> QED BY <2>1, <2>2, <2>3, <2>4, OwnerKeeps
<1>3. ASSUME NEW q \in PlanRequests, NEW values \in StatusValues, SetStatus(q, values)
      PROVE  PlansInvariant'
    <2>1. plan # None /\ Sound(plan)
        BY <1>3 DEF SetStatus, PlansInvariant
    <2>2. PICK v \in Expected : Decide(q, Owner, values, v)
        BY <1>3 DEF SetStatus
    <2>3. links' \in Nat
        BY <1>3 DEF SetStatus, PlansInvariant
    <2>4. DOMAIN values \subseteq Written0 /\ Sound(Written(values, plan))
        BY <2>1, StatusIsSound
    <2> QED BY <2>1, <2>2, <2>3, <2>4, OwnerKeeps
<1>4. ASSUME NEW q \in PlanRequests, NEW mode \in ShareModes, Share(q, mode)
      PROVE  PlansInvariant'
    <2>1. plan # None /\ Sound(plan) /\ links \in Nat
        BY <1>4 DEF Share, PlansInvariant
    <2>2. PICK v \in Expected : Decide(q, Owner, ShareValues(plan, mode), v)
        BY <1>4 DEF Share
    <2>3. /\ mode \notin {plan.share, "private"} => links + 1 # None
          /\ links' \in Nat
        BY <1>4, <2>1, PlansAssumption DEF Share, Drawn
    <2>4. /\ DOMAIN ShareValues(plan, mode) \subseteq Written0
          /\ Sound(Written(ShareValues(plan, mode), plan))
        BY <2>1, <2>3, ShareIsSound
    <2> QED BY <2>1, <2>2, <2>3, <2>4, OwnerKeeps
<1>5. ASSUME NEW q \in PlanRequests, DeletePlan(q) PROVE PlansInvariant'
    <2>1. plan # None
        BY <1>5 DEF DeletePlan
    <2>2. PICK v \in Expected : Decide(q, Owner, None, v)
        BY <1>5 DEF DeletePlan
    <2>3. links' \in Nat
        BY <1>5 DEF DeletePlan, PlansInvariant
    <2> QED BY <2>1, <2>2, <2>3, OwnerKeeps
<1>6. ASSUME NEW q \in PlanRequests, OwnerMark(q) PROVE PlansInvariant'
    <2>1. plan # None /\ Sound(plan)
        BY <1>6 DEF OwnerMark, PlansInvariant
    <2>2. PICK values \in MarkValues(plan), v \in Expected : Decide(q, Owner, values, v)
        BY <1>6 DEF OwnerMark
    <2>3. DOMAIN values \subseteq Written0 /\ Sound(Written(values, plan))
        BY <2>1, MarksAreSound DEF Written0
    <2>4. links' \in Nat
        BY <1>6 DEF OwnerMark, PlansInvariant
    <2> QED BY <2>1, <2>2, <2>3, <2>4, OwnerKeeps
<1>7. ASSUME NEW q \in PlanRequests, NEW link \in 1..links, VisitorMark(q, link)
      PROVE  PlansInvariant'
    <2>1. plan # None /\ Sound(plan) /\ OpenToVisitors(plan, link)
        BY <1>7 DEF VisitorMark, PlansInvariant
    <2>2. PICK values \in MarkValues(plan), v \in Expected : Decide(q, link, values, v)
        BY <1>7 DEF VisitorMark
    <2>3. /\ DOMAIN values = {"done", "items", "completed"} /\ values # None
          /\ Sound(Written(values, plan)) /\ ~plan.archived
        BY <2>1, MarksAreSound
    <2> DEFINE r == [by |-> link, values |-> values, expected |-> v, seen |-> plan.version]
    <2>4. r.by = link /\ r.values = values
        OBVIOUS
    <2> HIDE DEF r
    <2>5. Fits(r, plan)
        BY <2>1, <2>3, <2>4 DEF Fits, Written0
    <2>6. links' \in Nat
        BY <1>7 DEF VisitorMark, PlansInvariant
    <2> QED BY <2>1, <2>2, <2>5, <2>6, DecideKeeps DEF r
<1>8. ASSUME NEW q \in PlanRequests, Write(q) PROVE PlansInvariant'
    BY <1>8, WriteKeeps
<1>9. CASE UNCHANGED planVars
    BY <1>9 DEF planVars, PlansInvariant
<1> QED
    BY <1>1, <1>2, <1>3, <1>4, <1>5, <1>6, <1>7, <1>8, <1>9 DEF PlansNext

\* Whatever is saved, shared, archived and marked, by whoever has the link: a day
\* with items is done exactly when its items are.
THEOREM DaysKeepFollowingItems == PlansSpec => []DaysFollowItems
<1>1. PlansInit => PlansInvariant
    BY PlansInitInvariant
<1>2. PlansInvariant /\ [PlansNext]_planVars => PlansInvariant'
    BY PlansStepInvariant
<1>3. PlansInvariant => DaysFollowItems
    BY DEF PlansInvariant, Sound, DaysFollowItems
<1> QED BY <1>1, <1>2, <1>3, PTL DEF PlansSpec

-----------------------------------------------------------------------------
\* Requests end by writing only.
LEMMA EndsByWriting ==
    ASSUME PlansInvariant, PlansNext, NEW q \in PlanRequests,
           planRequest[q] # None, planRequest'[q] = None, plan' # plan
    PROVE  Write(q)
<1>1. ASSUME NEW b \in Body, CreatePlan(b) PROVE FALSE
    BY <1>1 DEF CreatePlan
<1>2. ASSUME NEW o \in PlanRequests, plan' = plan PROVE FALSE
    BY <1>2
<1>3. ASSUME NEW o \in PlanRequests, Write(o), o # q PROVE FALSE
    BY <1>3 DEF Write, PlansInvariant
<1>4. PICK o \in PlanRequests :
         \/ \E b \in Body : SavePlan(o, b)
         \/ \E values \in StatusValues : SetStatus(o, values)
         \/ \E mode \in ShareModes : Share(o, mode)
         \/ DeletePlan(o)
         \/ OwnerMark(o)
         \/ \E link \in 1..links : VisitorMark(o, link)
         \/ Write(o)
    BY <1>1 DEF PlansNext
<1>5. CASE ~Write(o)
    BY <1>2, <1>4, <1>5
    DEF SavePlan, SetStatus, Share, DeletePlan, OwnerMark, VisitorMark, Decide
<1> QED BY <1>3, <1>5

\* What is written was computed from the plan it is written over, and a visitor
\* writes marks, on a plan that is open to him at that moment.
THEOREM PlansChangeAsSeen == PlansSpec => PlanAsSeen
<1> DEFINE Allowed ==
        \A q \in PlanRequests :
            (planRequest[q] # None /\ planRequest'[q] = None /\ plan' # plan) =>
                /\ planRequest[q].seen = plan.version
                /\ planRequest[q].by # Owner =>
                      /\ OpenToVisitors(plan, planRequest[q].by) /\ ~plan.archived
                      /\ planRequest[q].values # None
                      /\ \A k \in DOMAIN plan \ {"done", "items", "completed", "version"} :
                            plan'[k] = plan[k]
<1>1. ASSUME PlansInvariant, PlansNext, NEW q \in PlanRequests,
             planRequest[q] # None, planRequest'[q] = None, plan' # plan
      PROVE  /\ planRequest[q].seen = plan.version
             /\ planRequest[q].by # Owner =>
                   /\ OpenToVisitors(plan, planRequest[q].by) /\ ~plan.archived
                   /\ planRequest[q].values # None
                   /\ \A k \in DOMAIN plan \ {"done", "items", "completed", "version"} :
                         plan'[k] = plan[k]
    <2> DEFINE r == planRequest[q]
    <2>1. Write(q)
        BY <1>1, EndsByWriting
    <2>2. /\ plan # None /\ plan.version = r.expected
          /\ plan' = IF r.values = None THEN None ELSE Written(r.values, plan)
        BY <1>1, <2>1 DEF Write, Matches, ExpectedVersion
    <2>3. Pending(r, plan) /\ Sound(plan)
        BY <1>1, <2>2 DEF PlansInvariant
    <2>4. r.seen = plan.version /\ Fits(r, plan)
        BY <2>2, <2>3 DEF Pending, Sound
    <2>5. ASSUME r.by # Owner
          PROVE  /\ OpenToVisitors(plan, r.by) /\ ~plan.archived
                 /\ r.values # None
                 /\ \A k \in DOMAIN plan \ {"done", "items", "completed", "version"} :
                       plan'[k] = plan[k]
        <3>1. /\ OpenToVisitors(plan, r.by) /\ ~plan.archived /\ r.values # None
              /\ DOMAIN r.values = {"done", "items", "completed"}
              /\ DOMAIN r.values \subseteq Written0
            BY <2>4, <2>5 DEF Fits
        <3>2. plan' = Written(r.values, plan)
            BY <2>2, <3>1
        <3>3. /\ DOMAIN plan = Columns
              /\ \A k \in Written0 :
                    plan'[k] = IF k \in DOMAIN r.values THEN r.values[k] ELSE plan[k]
            BY <2>3, <3>1, <3>2, WrittenRow DEF Sound
        <3>4. DOMAIN plan' = Columns
            BY <2>3, <3>1, <3>2, WrittenRow DEF Sound
        <3> QED BY <3>1, <3>3, <3>4 DEF Columns
    <2> QED BY <2>4, <2>5
<1>2. PlansInvariant /\ [PlansNext]_planVars => [Allowed]_planVars
    BY <1>1
<1>3. PlansInit => PlansInvariant
    BY PlansInitInvariant
<1>4. PlansInvariant /\ [PlansNext]_planVars => PlansInvariant'
    BY PlansStepInvariant
<1> QED BY <1>2, <1>3, <1>4, PTL DEF PlansSpec, PlanAsSeen

-----------------------------------------------------------------------------
(***************************************************************************)
(* Types: what a request is about to write is of the columns' types.         *)
(***************************************************************************)

ColumnTypes ==
    [configuration |-> Configurations, study |-> SUBSET PlanDays, assigned |-> Marks,
     items |-> Marks, done |-> SUBSET PlanDays, completed |-> BOOLEAN,
     archived |-> BOOLEAN, share |-> ShareModes, token |-> 0..MaxLinks \cup {None}]
WellTyped(values) ==
    /\ DOMAIN values \subseteq Written0
    /\ \A k \in DOMAIN values : values[k] \in ColumnTypes[k]

PlansTyped ==
    /\ PlansTypeOK
    /\ \A q \in PlanRequests :
          planRequest[q] # None /\ planRequest[q].values # None
              => WellTyped(planRequest[q].values)

LEMMA TypesAre ==
    /\ ColumnTypes["configuration"] = Configurations /\ ColumnTypes["study"] = SUBSET PlanDays
    /\ ColumnTypes["assigned"] = Marks /\ ColumnTypes["items"] = Marks
    /\ ColumnTypes["done"] = SUBSET PlanDays /\ ColumnTypes["completed"] = BOOLEAN
    /\ ColumnTypes["archived"] = BOOLEAN /\ ColumnTypes["share"] = ShareModes
    /\ ColumnTypes["token"] = 0..MaxLinks \cup {None}
BY DEF ColumnTypes

\* A row is a plan if it has the columns of one, each of its type.
LEMMA PlansAre ==
    ASSUME NEW p
    PROVE  p \in Plan <=> /\ p = [k \in Columns |-> p[k]]
                          /\ \A k \in Written0 : p[k] \in ColumnTypes[k]
                          /\ p["version"] \in 1..MaxVersion
<1>1. ASSUME p \in Plan
      PROVE  /\ p = [k \in Columns |-> p[k]]
             /\ \A k \in Written0 : p[k] \in ColumnTypes[k]
             /\ p["version"] \in 1..MaxVersion
    <2>1. p = [k \in Columns |-> p[k]]
        BY <1>1 DEF Plan, Columns, Written0
    <2>2. /\ p["configuration"] \in Configurations /\ p["study"] \in SUBSET PlanDays
          /\ p["assigned"] \in Marks /\ p["items"] \in Marks /\ p["done"] \in SUBSET PlanDays
          /\ p["completed"] \in BOOLEAN /\ p["archived"] \in BOOLEAN
          /\ p["share"] \in ShareModes /\ p["token"] \in 0..MaxLinks \cup {None}
          /\ p["version"] \in 1..MaxVersion
        BY <1>1 DEF Plan
    <2> QED BY <2>1, <2>2, TypesAre DEF Written0
<1>2. ASSUME p = [k \in Columns |-> p[k]], p["version"] \in 1..MaxVersion,
             \A k \in Written0 : p[k] \in ColumnTypes[k]
      PROVE  p \in Plan
    <2> DEFINE c == p["configuration"]
               s == p["study"]
               a == p["assigned"]
               i == p["items"]
               d == p["done"]
               b == p["completed"]
               r == p["archived"]
               h == p["share"]
               t == p["token"]
               n == p["version"]
    <2>1. p = [configuration |-> c, study |-> s, assigned |-> a, items |-> i, done |-> d,
               completed |-> b, archived |-> r, share |-> h, token |-> t, version |-> n]
        BY <1>2 DEF Columns, Written0
    <2>2. /\ c \in Configurations /\ s \in SUBSET PlanDays /\ a \in Marks /\ i \in Marks
          /\ d \in SUBSET PlanDays /\ b \in BOOLEAN /\ r \in BOOLEAN /\ h \in ShareModes
          /\ t \in 0..MaxLinks \cup {None} /\ n \in 1..MaxVersion
        BY <1>2, TypesAre DEF Written0
    <2> HIDE DEF c, s, a, i, d, b, r, h, t, n
    <2> QED BY <2>1, <2>2 DEF Plan
<1> QED BY <1>1, <1>2

\* An UPDATE leaves a plan.
LEMMA WrittenIsPlan ==
    ASSUME NEW p \in Plan, NEW values, WellTyped(values), p.version < MaxVersion
    PROVE  Written(values, p) \in Plan
<1> DEFINE w == Written(values, p)
<1>1. /\ p = [k \in Columns |-> p[k]] /\ p["version"] \in 1..MaxVersion
      /\ \A k \in Written0 : p[k] \in ColumnTypes[k]
    BY PlansAre
<1>2. DOMAIN p = Columns
    BY <1>1
<1>3. /\ DOMAIN w = Columns /\ w["version"] = p.version + 1
      /\ \A k \in Written0 : w[k] = IF k \in DOMAIN values THEN values[k] ELSE p[k]
    BY <1>2, WrittenRow DEF WellTyped
<1>4. w = [k \in Columns |-> w[k]]
    <2> DEFINE base == Over([version |-> p.version + 1], p)
               D == DOMAIN values \cup DOMAIN base
    <2>1. w = [k \in D |-> IF k \in DOMAIN values THEN values[k] ELSE base[k]]
        BY DEF Written, Over
    <2>2. DOMAIN w = D
        BY <2>1
    <2> HIDE DEF w, base, D
    <2> QED BY <1>3, <2>1, <2>2
<1> HIDE DEF w
<1>5. \A k \in Written0 : w[k] \in ColumnTypes[k]
    BY <1>1, <1>3 DEF WellTyped
<1>6. w["version"] \in 1..MaxVersion
    BY <1>1, <1>3, PlansAssumption
<1> QED BY <1>4, <1>5, <1>6, PlansAre DEF w

LEMMA NewIsPlan ==
    ASSUME NEW b \in Body, Accepted(b) PROVE NewPlan(b) \in Plan
<1> DEFINE kept == SavedCompletion(b)
           all == AllDone(b.study, SavedDays(b))
           rest == [configuration |-> b.configuration, study |-> b.study,
                    completed |-> all, archived |-> FALSE,
                    share |-> "private", token |-> None, version |-> 1]
           w == NewPlan(b)
<1>1. /\ DOMAIN kept = {"assigned", "items", "done"}
      /\ kept["assigned"] = b.assigned /\ kept["items"] = SavedItems(b)
      /\ kept["done"] = SavedDays(b)
    BY DEF SavedCompletion
<1>2. /\ b.assigned \in Marks /\ SavedItems(b) \in Marks /\ SavedDays(b) \in SUBSET PlanDays
      /\ b.study \in SUBSET PlanDays /\ b.configuration \in Configurations
    BY SavedAgree DEF Body
<1>3. all \in BOOLEAN
    BY DEF AllDone
<1> HIDE DEF all
<1>4. /\ DOMAIN rest = {"configuration", "study", "completed", "archived", "share",
                        "token", "version"}
      /\ rest["configuration"] = b.configuration /\ rest["study"] = b.study
      /\ rest["completed"] = all /\ rest["archived"] = FALSE
      /\ rest["share"] = "private" /\ rest["token"] = None /\ rest["version"] = 1
    OBVIOUS
<1>5. w = Over(kept, rest)
    BY DEF NewPlan, all
<1> HIDE DEF kept, rest, w
<1>6. w = [k \in Columns |-> IF k \in DOMAIN kept THEN kept[k] ELSE rest[k]]
    <2>1. DOMAIN kept \cup DOMAIN rest = Columns
        BY <1>1, <1>4 DEF Columns, Written0
    <2> QED BY <1>5, <2>1 DEF Over
<1>7. /\ w["assigned"] = b.assigned /\ w["items"] = SavedItems(b) /\ w["done"] = SavedDays(b)
      /\ w["configuration"] = b.configuration /\ w["study"] = b.study
      /\ w["completed"] = all /\ w["archived"] = FALSE
      /\ w["share"] = "private" /\ w["token"] = None /\ w["version"] = 1
    BY <1>1, <1>4, <1>6 DEF Columns, Written0
<1>8. \A k \in Written0 : w[k] \in ColumnTypes[k]
    BY <1>2, <1>3, <1>7, TypesAre DEF Written0, ShareModes
<1>9. w["version"] \in 1..MaxVersion
    BY <1>7, PlansAssumption
<1>10. w = [k \in Columns |-> w[k]]
    BY <1>6
<1> QED BY <1>8, <1>9, <1>10, PlansAre DEF w

LEMMA SaveIsTyped ==
    ASSUME NEW p, NEW b \in Body, Accepted(b) PROVE WellTyped(SaveValues(p, b))
<1> DEFINE kept == SavedCompletion(b)
           rest == [configuration |-> b.configuration, study |-> b.study]
           saved == Over(kept, rest)
           done == AllDone(b.study, SavedDays(b))
           all == [completed |-> done]
           values == SaveValues(p, b)
<1>1. /\ DOMAIN kept = {"assigned", "items", "done"}
      /\ kept["assigned"] = b.assigned /\ kept["items"] = SavedItems(b)
      /\ kept["done"] = SavedDays(b)
    BY DEF SavedCompletion
<1>2. /\ DOMAIN rest = {"configuration", "study"}
      /\ rest["configuration"] = b.configuration /\ rest["study"] = b.study
    OBVIOUS
<1>3. done \in BOOLEAN
    BY DEF AllDone
<1>4. values = saved \/ values = Over(all, saved)
    BY DEF SaveValues
<1> HIDE DEF done, values
<1>5. DOMAIN all = {"completed"} /\ all["completed"] = done
    OBVIOUS
<1> HIDE DEF kept, rest, all
<1>6. /\ DOMAIN saved = {"assigned", "items", "done", "configuration", "study"}
      /\ saved["assigned"] = b.assigned /\ saved["items"] = SavedItems(b)
      /\ saved["done"] = SavedDays(b) /\ saved["study"] = b.study
      /\ saved["configuration"] = b.configuration
    BY <1>1, <1>2 DEF Over
<1> HIDE DEF saved
<1>7. /\ b.assigned \in Marks /\ SavedItems(b) \in Marks /\ SavedDays(b) \in SUBSET PlanDays
      /\ b.study \in SUBSET PlanDays /\ b.configuration \in Configurations
    BY SavedAgree DEF Body
<1>8. WellTyped(saved)
    BY <1>6, <1>7, TypesAre DEF WellTyped, Written0
<1>9. WellTyped(all)
    BY <1>3, <1>5, TypesAre DEF WellTyped, Written0
<1>10. WellTyped(Over(all, saved))
    BY <1>8, <1>9 DEF WellTyped, Over
<1> QED BY <1>4, <1>8, <1>10 DEF values

LEMMA StatusIsTyped ==
    ASSUME NEW values \in StatusValues PROVE WellTyped(values)
<1>1. CASE \E on \in BOOLEAN : values = [archived |-> on]
    BY <1>1, TypesAre DEF WellTyped, Written0
<1>2. CASE \E on \in BOOLEAN : values = [completed |-> on]
    BY <1>2, TypesAre DEF WellTyped, Written0
<1> QED BY <1>1, <1>2 DEF StatusValues

LEMMA ShareIsTyped ==
    ASSUME NEW p, NEW mode \in ShareModes, links \in 0..MaxLinks, Drawn(p, mode) <= MaxLinks
    PROVE  WellTyped(ShareValues(p, mode)) /\ Drawn(p, mode) \in 0..MaxLinks
<1>1. Drawn(p, mode) \in 0..MaxLinks
    BY PlansAssumption DEF Drawn
<1>2. CASE mode = p.share
    <2>1. ShareValues(p, mode) = [share |-> mode]
        BY <1>2 DEF ShareValues
    <2> QED BY <1>1, <2>1, TypesAre DEF WellTyped, Written0
<1>3. CASE mode # p.share
    <2> DEFINE t == IF mode = "private" THEN None ELSE links + 1
    <2>1. t \in 0..MaxLinks \cup {None}
        BY <1>1, <1>3 DEF Drawn
    <2>2. ShareValues(p, mode) = [share |-> mode, token |-> t]
        BY <1>3 DEF ShareValues
    <2> HIDE DEF t
    <2> QED BY <1>1, <2>1, <2>2, TypesAre DEF WellTyped, Written0
<1> QED BY <1>1, <1>2, <1>3

LEMMA MarksAreTyped ==
    ASSUME NEW p, Sound(p), NEW values \in MarkValues(p) PROVE WellTyped(values)
<1>1. PICK d \in {x \in PlanDays : MayMark(p, x)} :
         \/ \E on \in BOOLEAN : values = DayMark(p, d, on)
         \/ \E t \in p.assigned[d], on \in BOOLEAN : values = ItemMark(p, d, t, on)
    BY DEF MarkValues
<1>2. /\ d \in PlanDays /\ p.items \in Marks /\ p.assigned \in Marks
      /\ p.done \subseteq PlanDays
    BY DEF Sound, Consistent
<1>3. ASSUME NEW done \in SUBSET PlanDays, NEW items \in Marks,
             values = Marked(p, done, items)
      PROVE  WellTyped(values)
    <2> DEFINE all == AllDone(p.study, done)
    <2>1. all \in BOOLEAN
        BY DEF AllDone
    <2>2. values = [done |-> done, items |-> items, completed |-> all]
        BY <1>3 DEF Marked
    <2> HIDE DEF all
    <2> QED BY <2>1, <2>2, TypesAre DEF WellTyped, Written0
<1>4. ASSUME NEW on \in BOOLEAN, values = DayMark(p, d, on) PROVE WellTyped(values)
    <2>1. DayItems(p, d, on) \in Marks
        BY <1>2 DEF DayItems, ItemsOf, Marks
    <2> QED BY <1>2, <1>3, <1>4, <2>1 DEF DayMark
<1>5. ASSUME NEW t \in p.assigned[d], NEW on \in BOOLEAN, values = ItemMark(p, d, t, on)
      PROVE  WellTyped(values)
    <2> DEFINE checked == Checked(p, d, t, on)
    <2>1. checked \subseteq Tracks
        BY <1>2 DEF Checked, Marks
    <2> HIDE DEF checked
    <2>2. [p.items EXCEPT ![d] = checked] \in Marks
        BY <1>2, <2>1 DEF Marks
    <2> QED BY <1>2, <1>3, <1>5, <2>2 DEF ItemMark, checked
<1> QED BY <1>1, <1>4, <1>5

\* A request decides on well typed columns.
LEMMA DecideTyped ==
    ASSUME PlansInvariant, PlansTyped, NEW q \in PlanRequests, NEW by, NEW values, NEW v,
           Decide(q, by, values, v), values # None => WellTyped(values), links' \in 0..MaxLinks
    PROVE  PlansTyped'
<1> DEFINE r == [by |-> by, values |-> values, expected |-> v, seen |-> plan.version]
<1>1. r.values = values /\ planRequest' = [planRequest EXCEPT ![q] = r] /\ plan' = plan
    BY DEF Decide
<1> HIDE DEF r
<1>2. \A o \in PlanRequests : planRequest'[o] = IF o = q THEN r ELSE planRequest[o]
    BY <1>1 DEF PlansInvariant
<1> QED BY <1>1, <1>2 DEF PlansTyped, PlansTypeOK, WellTyped

LEMMA PlansStepTyped ==
    ASSUME PlansInvariant, PlansTyped, [PlansNext]_planVars PROVE PlansTyped'
<1>0. links \in 0..MaxLinks
    BY DEF PlansTyped, PlansTypeOK
<1>1. ASSUME NEW b \in Body, CreatePlan(b) PROVE PlansTyped'
    <2>1. plan' \in Plan /\ UNCHANGED <<links, planRequest>>
        BY <1>1, NewIsPlan DEF CreatePlan
    <2> QED BY <2>1 DEF PlansTyped, PlansTypeOK, WellTyped
<1>2. ASSUME NEW q \in PlanRequests, NEW b \in Body, SavePlan(q, b) PROVE PlansTyped'
    BY <1>0, <1>2, SaveIsTyped, DecideTyped DEF SavePlan
<1>3. ASSUME NEW q \in PlanRequests, NEW values \in StatusValues, SetStatus(q, values)
      PROVE  PlansTyped'
    BY <1>0, <1>3, StatusIsTyped, DecideTyped DEF SetStatus
<1>4. ASSUME NEW q \in PlanRequests, NEW mode \in ShareModes, Share(q, mode) PROVE PlansTyped'
    BY <1>0, <1>4, ShareIsTyped, DecideTyped DEF Share
<1>5. ASSUME NEW q \in PlanRequests, DeletePlan(q) PROVE PlansTyped'
    BY <1>0, <1>5, DecideTyped DEF DeletePlan
<1>6. ASSUME NEW q \in PlanRequests, OwnerMark(q) PROVE PlansTyped'
    <2>1. Sound(plan)
        BY <1>6 DEF OwnerMark, PlansInvariant
    <2> QED BY <1>0, <1>6, <2>1, MarksAreTyped, DecideTyped DEF OwnerMark
<1>7. ASSUME NEW q \in PlanRequests, NEW link \in 1..links, VisitorMark(q, link)
      PROVE  PlansTyped'
    <2>1. Sound(plan)
        BY <1>7 DEF VisitorMark, PlansInvariant
    <2> QED BY <1>0, <1>7, <2>1, MarksAreTyped, DecideTyped DEF VisitorMark
<1>8. ASSUME NEW q \in PlanRequests, Write(q) PROVE PlansTyped'
    <2>1. /\ planRequest' = [planRequest EXCEPT ![q] = None] /\ links' = links
          /\ planRequest[q] # None
        BY <1>8 DEF Write
    <2>2. plan' \in Plan \cup {None}
        <3>1. CASE plan' \in {plan, None}
            BY <3>1 DEF PlansTyped, PlansTypeOK
        <3>2. CASE plan' \notin {plan, None}
            <4>1. /\ plan # None /\ plan.version < MaxVersion /\ planRequest[q].values # None
                  /\ plan' = Written(planRequest[q].values, plan)
                BY <1>8, <3>2 DEF Write, Matches, ExpectedVersion
            <4>2. plan \in Plan /\ WellTyped(planRequest[q].values)
                BY <2>1, <4>1 DEF PlansTyped, PlansTypeOK
            <4> QED BY <4>1, <4>2, WrittenIsPlan
        <3> QED BY <3>1, <3>2
    <2>3. \A o \in PlanRequests : planRequest'[o] # None => planRequest'[o] = planRequest[o]
        BY <2>1 DEF PlansInvariant
    <2> QED BY <1>0, <2>1, <2>2, <2>3 DEF PlansTyped, PlansTypeOK, WellTyped
<1>9. CASE UNCHANGED planVars
    BY <1>9 DEF planVars, PlansTyped, PlansTypeOK, WellTyped
<1> QED
    BY <1>1, <1>2, <1>3, <1>4, <1>5, <1>6, <1>7, <1>8, <1>9 DEF PlansNext

\* The row keeps the types of its columns, and no link is drawn that the row cannot hold,
\* whatever requests overlap.
THEOREM PlansCorrectlyTyped == PlansSpec => []PlansTypeOK
<1>1. PlansInit => PlansInvariant /\ PlansTyped
    BY PlansInitInvariant, PlansAssumption DEF PlansInit, PlansTyped, PlansTypeOK
<1>2. PlansInvariant /\ PlansTyped /\ [PlansNext]_planVars => PlansInvariant' /\ PlansTyped'
    BY PlansStepInvariant, PlansStepTyped
<1>3. PlansTyped => PlansTypeOK
    BY DEF PlansTyped
<1> QED BY <1>1, <1>2, <1>3, PTL DEF PlansSpec
===============================================================================
