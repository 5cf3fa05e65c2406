------------------------------- MODULE MCOffice -------------------------------
(***************************************************************************)
(* Accounts, Billing, Students, Statuses and CustomFields for TLC, one workload *)
(* at a time: requests that come one after the other, and requests that overlap *)
(* in pairs. What a request does not look at is fixed to one value.            *)
(***************************************************************************)
EXTENDS Accounts, Billing, Students, Statuses, CustomFields

CONSTANTS u1, u2, u3, c1, c2, i1, i2, v1, v2, d1, d2, egp, usd, e1,
          s1, s2, t1, t2, p1, p2, w1, a1, k1, k2, q1, q2

VARIABLE workload

officeVars == <<accountVars, billingVars, studentsVars, statusVars,
                fieldVars, workload>>

-----------------------------------------------------------------------------
(* Accounts.                                                                 *)

LinkOps == {"register", "accept", "revokeInvitation", "resend"}
Fixed(r) ==
    /\ r.op \in LinkOps \cup {"createCenter"} => r.center = c1
    /\ r.op \notin {"createUser", "updateUser", "invite", "grant"} => r.role = "admin"
    /\ r.op \notin LinkOps \cup {"invite"} => r.invitation = i1
    /\ r.op \in {"invite", "revokeInvitation", "resend"} => r.user = u1
FixedRequests == {r \in Request : Fixed(r)}

\* New members are sheikhs; one may be made an administrator, and back.
SerialRequests ==
    {r \in FixedRequests : /\ r.user # u3 /\ r.invitation = i1 /\ r.op # "resend"
                           /\ r.op \in {"grant", "createUser", "invite"} => r.role = "sheikh"
                           /\ r.op \in {"updateUser", "createCenter"} => r.user = u2}
LinkRequests == {r \in FixedRequests : r.op \in LinkOps \cup {"invite"}}

AccountsOneByOne ==
    \/ \E r \in SerialRequests : Arrive(v1, r)
    \/ Depart(v1)
    \/ SignUp(u1, c1) \/ \E c \in Centers : SignUp(u2, c)
    \/ SetStatus(c1, "suspended")
    \/ \E c \in Centers : center[c].status # "active" /\ SetStatus(c, "active")

LinksInPairs ==
    \/ \E r \in LinkRequests : Arrive(v1, r)
    \/ \E r \in LinkRequests : visit[v1] # None /\ Arrive(v2, r)
    \/ \E v \in Visits : Depart(v)
    \/ SignUp(u1, c1) \/ SignUp(u2, c2)
    \/ SetStatus(c1, "active")
    \/ Expire(i1)

-----------------------------------------------------------------------------
(* Bills.                                                                    *)

On == [enabled |-> TRUE, fee |-> 1, currency |-> egp]
Request0 == [op |-> "view", student |-> 1, month |-> 1, ids |-> {}, fee |-> 0,
             override |-> None, flag |-> FALSE, set |-> On, expense |-> e1]
Viewing == {[Request0 EXCEPT !.month = m] : m \in Months}
Paying(is) == [Request0 EXCEPT !.op = "pay", !.ids = is]
Unpaying == [Request0 EXCEPT !.op = "unpay", !.ids = {1}]
Correcting(future) == [Request0 EXCEPT !.op = "correct", !.ids = {1}, !.flag = future,
                                       !.override = IF future THEN 2 ELSE None]
CorrectingMany(is) == [Request0 EXCEPT !.op = "correctMany", !.ids = is, !.fee = 1,
                                       !.override = 2]
SettingTo(on, c, told) ==
    [Request0 EXCEPT !.op = "settings", !.flag = told,
                     !.set = [On EXCEPT !.enabled = on, !.currency = c]]
Overriding == [Request0 EXCEPT !.op = "override", !.override = 0]
Enrolling(to) == [Request0 EXCEPT !.op = "status", !.flag = to]
Creating == [Request0 EXCEPT !.op = "create", !.flag = TRUE]
Deleting(s) == [Request0 EXCEPT !.op = "delete", !.student = s]
Spending == [Request0 EXCEPT !.op = "spend"]
Unspending == [Request0 EXCEPT !.op = "unspend"]

SerialBilling ==
    Viewing \cup {Paying({1}), Unpaying, Deleting(1), Spending, Unspending, Overriding}
    \cup {Enrolling(to) : to \in BOOLEAN}
    \cup {SettingTo(on, c, told) : on \in BOOLEAN, c \in Currencies, told \in BOOLEAN}
PairedBilling ==
    {[Request0 EXCEPT !.month = 2], Paying({1}), Paying({1, 2}), Unpaying,
     Enrolling(FALSE), Deleting(2), Creating}
    \cup {Correcting(future) : future \in BOOLEAN}
    \cup {CorrectingMany({1, 2})}

BillsOneByOne ==
    \/ \E r \in SerialBilling : Queue(d1, r)
    \/ ~pupil[1].there /\ Queue(d1, Creating)
    \/ Finish(d1)
    \/ NewMonth

\* Subscriptions on, and two students billed for the first month.
Enrolled == [s \in Pupils |->
                [there |-> TRUE, enrolled |-> TRUE, override |-> None, since |-> 1]]
FirstBills == [i \in Ids |-> IF i \in Pupils THEN NewBill(i, 1, Enrolled, On) ELSE None]

BillsInPairs ==
    \/ \E r \in PairedBilling : Queue(d1, r)
    \/ \E r \in PairedBilling : desk[d1] # None /\ Queue(d2, r)
    \/ /\ desk[d1] # None /\ desk[d1].request = Enrolling(FALSE)
       /\ month = 2 /\ bill = FirstBills
       /\ Queue(d2, Deleting(1))
    \/ \E d \in Desks : Finish(d)
    \/ desk[d1] = None /\ NewMonth

BilledInit ==
    /\ pupil = Enrolled /\ setting = On /\ bill = FirstBills
    /\ expense = [e \in Expenses |-> None]
    /\ month = 1
    /\ desk = [d \in Desks |-> None]

-----------------------------------------------------------------------------
(* Students.                                                                 *)

Errand0 == [op |-> "create", student |-> s1, sheikh |-> None, expected |-> None,
            plan |-> [s \in Learners |-> None], period |-> p1, from |-> 1, to |-> 1,
            warning |-> w1]
EnrollmentOf(s) ==
    {[Errand0 EXCEPT !.op = "move", !.student = s, !.sheikh = t, !.expected = u] :
        t \in Sheikhs, u \in Sheikhs \cup {None}}
    \cup {[Errand0 EXCEPT !.op = "assign", !.student = s, !.sheikh = t] : t \in Sheikhs}
    \cup {[Errand0 EXCEPT !.op = "delete", !.student = s]}
DeletionOf(t) ==
    {[Errand0 EXCEPT !.op = "deleteSheikh", !.sheikh = t, !.plan = plan] :
        plan \in [Learners -> Resolution \ {t}]}
Enrollment ==
    {[Errand0 EXCEPT !.sheikh = t] : t \in Sheikhs \cup {None}}
    \cup UNION {EnrollmentOf(s) : s \in Learners} \cup UNION {DeletionOf(t) : t \in Sheikhs}

Excusing ==
    {[Errand0 EXCEPT !.op = op, !.period = p, !.from = d, !.to = e] :
        op \in {"excuse", "change", "return"}, p \in Periods, d \in Days, e \in Days}
    \cup {[Errand0 EXCEPT !.op = "cancel", !.period = p] : p \in Periods}
    \cup {[Errand0 EXCEPT !.op = "delete"]}
FixedExcusing == {r \in Excusing : /\ r.op = "excuse" => r.period = p1
                                   /\ r.op = "return" => r.from = 1}
Warn == {[Errand0 EXCEPT !.op = op] : op \in {"warn", "warnAndSend", "send", "delete"}}

StudentsOneByOne ==
    \/ \E r \in Enrollment : Fetch(k1, r)
    \/ Settle(k1)
    \/ \E t \in Sheikhs : CreateSheikh(t)
    \/ \E s \in Learners : Record(s)
    \/ Submit(a1) \/ Reject(a1)
    \/ \E s \in Learners, t \in Sheikhs \cup {None} :
          errand[k1] = None /\ Approve(a1, s, t)

PeriodsOneByOne ==
    \/ \E r \in FixedExcusing : Fetch(k1, r)
    \/ Settle(k1)
    \/ \E s \in {s1} : Record(s)

\* Two deletions, warnings and applications at a time.
StudentsInPairs ==
    \/ \E r \in Warn \cup DeletionOf(t1) : Fetch(k1, r)
    \/ \E r \in Warn \cup DeletionOf(t1) : errand[k1] # None /\ Fetch(k2, r)
    \/ \E k \in Clerks : Settle(k)
    \/ Record(s1)
    \/ DeleteWarning(w1)
    \/ Submit(a1) \/ Reject(a1)
    \/ \E s \in Learners : Approve(a1, s, t1)

\* Two students with a sheikh each, or the first student alone.
EnrolledInit(there) ==
    /\ sheikh = Sheikhs
    /\ learner = [s \in Learners |->
           IF s \in there THEN [sheikh |-> IF s = s1 THEN t1 ELSE t2] ELSE None]
    /\ recorded = {}
    /\ application = [a \in Applications |-> None]
    /\ period = [p \in Periods |-> None]
    /\ warning = [w \in Warnings |-> None]
    /\ errand = [k \in Clerks |-> None]
    /\ made = [a \in Applications |-> {}]

-----------------------------------------------------------------------------
(* Statuses.                                                                 *)

MarkOf(op, n, s) == [op |-> op, session |-> n, status |-> s]
Marks == {MarkOf(op, n, s) : op \in {"mark", "batch"}, n \in Numbers,
                             s \in {"present", "excused"}}
Opening == {[op |-> "create", session |-> 3, excuse |-> e] : e \in Excuses}

\* "absent" becomes "late", and "excused" or "present" becomes "missing".
Rename(from, to) == [from |-> from, to |-> to]
RenameLists == {<<Rename("absent", "late")>>, <<Rename("present", "missing")>>,
                <<Rename("absent", "late"), Rename("excused", "missing")>>}
Renaming(r) ==
    LET renamed(s) == Follow(s, r)
    IN [Body([i \in DOMAIN tahfiz.statuses |-> renamed(tahfiz.statuses[i])], r,
             {renamed(s) : s \in Resetting(tahfiz)})
        EXCEPT !.tracked = renamed(StreakStatus(tahfiz))]
Kept == Body(None, <<>>, None)
OtherUpdates ==
    {Body(<<"excused", "absent", "present">>, <<>>, None),
     Body(None, <<Rename("absent", "excused"), Rename("excused", "absent")>>, None),
     [Kept EXCEPT !.present = "late", !.limit = 2, !.colors = [s \in Names |-> "green"]],
     [Kept EXCEPT !.absent = "missing", !.tracked = "absent", !.alerts = FALSE]}
Updates == {[op |-> "update", body |-> b] : b \in {Renaming(r) : r \in RenameLists} \cup OtherUpdates}

MarksInPairs ==
    \/ \E r \in Marks \cup Opening : Ask(q1, r)
    \/ \E r \in Marks : call[q1] # None /\ Ask(q2, r)
    \/ \E q \in Calls : Mark(q) \/ Batch(q) \/ CreateSession(q)

StatusesOneByOne ==
    \/ \E r \in {MarkOf("batch", n, s) : n \in 1..2, s \in {"present", "excused"}} :
          Ask(q1, r)
    \/ Ask(q1, [op |-> "create", session |-> 2, excuse |-> "none"])
    \/ \E r \in Updates : Ask(q1, r)
    \/ Batch(q1) \/ CreateSession(q1) \/ Update(q1)

-----------------------------------------------------------------------------
(* Custom fields and categories.                                             *)

FieldBody(f, type, options, required, active) ==
    [name |-> f, type |-> type, options |-> options, required |-> required, active |-> active]
FieldBodies ==
    {b \in Field : /\ b.type \in {"text", "number", "select"}
                   /\ b.name = "a" \/ (b.type = "date" /\ b.active)
                   /\ b.options \in {{}, {"word"}, {"word", "number"}}}
    \cup {FieldBody("b", t, {}, FALSE, TRUE) : t \in {"date", "checkbox"}}

FieldsOneByOne ==
    \/ \E f \in Fields, b \in FieldBodies : CreateField(f, b) \/ UpdateField(f, b)
    \/ \E s \in Members, raws \in Raws : UpdateValues(s, raws)
    \/ member = {} /\ \E raws \in Raws : CreateMember(1, {}, raws)
    \/ \E raws \in Raws : UpdateMember(1, None, raws)
CategoriesOneByOne ==
    \/ \E c \in Categories, n \in CategoryNames : CreateCategory(c, n) \/ RenameCategory(c, n)
    \/ \E c \in Categories : DeleteCategory(c)
    \/ CreateField("f", FieldBody("a", "text", {}, TRUE, TRUE))
    \/ \E s \in Members, cs \in SUBSET Categories, raws \in Raws :
          CreateMember(s, cs, raws) \/ UpdateMember(s, cs, raws)
    \/ \E s \in Members, cs \in SUBSET Categories : UpdateMember(s, cs, None)
    \/ \E s \in Members : DeleteMember(s)

\* One applicant, one student and one field to answer, whose type, options, need
\* and use change meanwhile.
FormBodies == {b \in FieldBodies : b.name = "a" /\ (b.type = "number" => b.active)}
FormAnswers == {raws \in Raws : DOMAIN raws \subseteq {"f"}}
FormsOneByOne ==
    \/ \E b \in FormBodies : CreateField("f", b) \/ UpdateField("f", b)
    \/ SaveForm({"f"}, TRUE) \/ SaveForm({}, FALSE)
    \/ \E raws \in FormAnswers : Submitting(1, raws) \/ ApproveSubmission(1, 1, {}, raws)
    \/ RejectSubmission(1)

-----------------------------------------------------------------------------
OfficeInit ==
    /\ FieldsInit
    /\ StatusesInit
    /\ AccountsInit
    /\ \/ workload = "billsInPairs" /\ BilledInit /\ StudentsInit
       \/ workload = "bills" /\ BillingInit /\ StudentsInit
       \/ /\ workload \in {"accounts", "links", "students", "marks", "statuses",
                           "fields", "categories", "forms"}
          /\ BillingInit /\ setting.currency = egp /\ StudentsInit
       \/ /\ workload = "periods"
          /\ BillingInit /\ setting.currency = egp /\ EnrolledInit({s1})
       \/ /\ workload = "studentsInPairs"
          /\ BillingInit /\ setting.currency = egp /\ EnrolledInit(Learners)

AccountsOnly(w) == workload = w /\ UNCHANGED <<billingVars, studentsVars, statusVars, fieldVars, workload>>
BillingOnly(w) == workload = w /\ UNCHANGED <<accountVars, studentsVars, statusVars, fieldVars, workload>>
StudentsOnly(w) == workload = w /\ UNCHANGED <<accountVars, billingVars, statusVars, fieldVars, workload>>
StatusesOnly(w) == workload = w /\ UNCHANGED <<accountVars, billingVars, studentsVars, fieldVars, workload>>
FieldsOnly(w) == workload = w /\ UNCHANGED <<accountVars, billingVars, studentsVars, statusVars, workload>>

OfficeNext ==
    \/ AccountsOnly("accounts") /\ AccountsOneByOne
    \/ AccountsOnly("links") /\ LinksInPairs
    \/ BillingOnly("bills") /\ BillsOneByOne
    \/ BillingOnly("billsInPairs") /\ BillsInPairs
    \/ StudentsOnly("students") /\ StudentsOneByOne
    \/ StudentsOnly("periods") /\ PeriodsOneByOne
    \/ StudentsOnly("studentsInPairs") /\ StudentsInPairs
    \/ StatusesOnly("marks") /\ MarksInPairs
    \/ StatusesOnly("statuses") /\ StatusesOneByOne
    \/ FieldsOnly("fields") /\ FieldsOneByOne
    \/ FieldsOnly("categories") /\ CategoriesOneByOne
    \/ FieldsOnly("forms") /\ FormsOneByOne

OfficeSpec == OfficeInit /\ [][OfficeNext]_officeVars

===============================================================================
