------------------------------- MODULE Billing -------------------------------
(***************************************************************************)
(* Monthly bills, their payment, and expenses of one center                  *)
(* (routers/subscriptions.py, finance.py, and what the students and settings  *)
(* of management.py do to bills).                                            *)
(*                                                                         *)
(* A request reads without a lock, then writes in one transaction; but bills *)
(* are made by whoever looks at the month, and a page that writes nothing     *)
(* before them commits each bill by itself.                                  *)
(*                                                                         *)
(* Months are numbered; amounts are a few fees; names, dates within a month, *)
(* payment methods, receipts and expense categories are left out.            *)
(***************************************************************************)
EXTENDS Rows, Integers, FiniteSets

CONSTANTS MaxStudents, Fees, Currencies, Expenses,
          MaxMonth, MaxBills,  \* bounds on the months and on the bills at a time
          Desks                \* slots for requests in progress at the same time

Pupils == 1 .. MaxStudents
Months == 1 .. MaxMonth
Ids == 1 .. MaxBills

ASSUME BillingAssumption == /\ MaxStudents \in Nat /\ MaxMonth \in Nat \ {0}
                            /\ MaxBills \in Nat
                            /\ Fees \subseteq Nat /\ 0 \in Fees /\ None \notin Fees

VARIABLES
    pupil,    \* students by id: there, enrolled, fee override, month of registration
    setting,  \* the center's subscription settings
    bill,     \* student_subscriptions by id
    expense,  \* expenses
    month,    \* the current billing period
    desk      \* the requests in progress: what each has read

billingRows == <<pupil, setting, bill, expense>>
billingVars == <<billingRows, month, desk>>

-----------------------------------------------------------------------------
Pupil == [there : BOOLEAN, enrolled : BOOLEAN, override : Fees \cup {None}, since : Months]
Setting == [enabled : BOOLEAN, fee : Fees, currency : Currencies]
\* linked: student_id is set; student: student_snapshot_id.
Bill == [student : Pupils, linked : BOOLEAN, month : Months, amount : Fees,
         currency : Currencies, paid : BOOLEAN]
ASSUME BillsAreThere == None \notin Bill
Expense == [currency : Currencies, deleted : BOOLEAN]

\* set: the settings as they are to be; override: a new fee override; flag: the
\* new enrollment, update_future, or that update_settings is told to enable
\* subscriptions; ids: the bills it is about.
DeskRequest ==
    [op : {"view", "pay", "unpay", "correct", "correctMany", "settings", "override",
           "status", "create", "delete", "spend", "unspend"},
     student : Pupils, month : Months, ids : SUBSET Ids, fee : Fees,
     override : Fees \cup {None}, flag : BOOLEAN, set : Setting, expense : Expenses]

\* What a request has read: the settings with its authentication, the students
\* of a month it found without a bill and has not come to yet, and the rows it
\* loaded; owner: the student of the bill that it corrects.
Read == [setting : Setting, left : SUBSET Pupils,
         pupil : [Pupils -> Pupil], owner : Pupils \cup {None}]
ASSUME RequestsAreThere == None \notin [request : DeskRequest, read : Read]

BillingTypeOK ==
    /\ pupil \in [Pupils -> Pupil]
    /\ setting \in Setting
    /\ bill \in [Ids -> Bill \cup {None}]
    /\ expense \in [Expenses -> Expense \cup {None}]
    /\ month \in Months
    /\ desk \in [Desks -> [request : DeskRequest, read : Read] \cup {None}]

NoPupil == [there |-> FALSE, enrolled |-> FALSE, override |-> None, since |-> 1]
BillingInit ==
    /\ pupil = [s \in Pupils |-> NoPupil]
    /\ setting \in [enabled : {FALSE}, fee : {0}, currency : Currencies]
    /\ bill = [i \in Ids |-> None]
    /\ expense = [e \in Expenses |-> None]
    /\ month = 1
    /\ desk = [d \in Desks |-> None]

-----------------------------------------------------------------------------
Used(b) == {i \in Ids : b[i] # None}
Unpaid(i) == bill[i] # None /\ ~bill[i].paid

\* reportable_subscription_condition: an unpaid bill of this month counts as
\* long as its student is enrolled.
Reportable(i) == \/ bill[i].month < month
                 \/ bill[i].paid
                 \/ bill[i].linked /\ pupil[bill[i].student].enrolled

\* The students a month is billed to, and those who have a bill.
Eligible(p, m) == {s \in Pupils : p[s].there /\ p[s].enrolled /\ p[s].since <= m}
BilledIn(b, m) == {b[i].student : i \in {j \in Used(b) : b[j].month = m}}

Largest(set) == CHOOSE n \in set : \A k \in set : k <= n
NewBill(s, m, p, set) ==
    [student |-> s, linked |-> TRUE, month |-> m, paid |-> FALSE,
     amount |-> IF p[s].override # None THEN p[s].override ELSE set.fee,
     currency |-> set.currency]

\* The bills of month m for the students in `new`, in the order of their ids:
\* SQLite gives a new row the largest id plus one.
Appended(b, new, m, p, set) ==
    LET last == Largest({0} \cup Used(b))
        at(s) == last + Cardinality({t \in new : t <= s})
    IN [i \in Ids |-> IF \E s \in new : i = at(s)
                      THEN NewBill(CHOOSE s \in new : i = at(s), m, p, set)
                      ELSE b[i]]
Room(b, new) == Largest({0} \cup Used(b)) + Cardinality(new) <= MaxBills

\* A savepoint for each bill: one that exists by now, or whose student is gone, is
\* passed over, and the others are kept.
MissingToFirstConflict(b, p, students, m) ==
    {s \in students : \A t \in students : t <= s => p[t].there /\ t \notin BilledIn(b, m)}
Missing(b, p, students, m) == {s \in students : p[s].there /\ s \notin BilledIn(b, m)}

\* Which of those left are billed in one transaction. A savepoint that no
\* transaction is around is one of its own, committed by its release; one that is
\* rolled back leaves its transaction open, for all the rest.
First(left) == {s \in left : \A t \in left : s <= t}
Together(b, p, left, m) ==
    IF Missing(b, p, First(left), m) = First(left) THEN First(left) ELSE left

\* ensure_subscription_records inside a transaction that has the lock.
Ensured(b, p, set) ==
    IF set.enabled
    THEN Appended(b, Missing(b, p, Eligible(p, month), month), month, p, set) ELSE b
RoomToEnsure(b, p, set) ==
    set.enabled => Room(b, Missing(b, p, Eligible(p, month), month))

-----------------------------------------------------------------------------
(* The checks on what a request reads.                                       *)

\* Where the path names one bill, it is the only one.
One(r) == CHOOSE i \in r.ids : TRUE
Single(r) == r.ids = {One(r)}
MayView(r) == setting.enabled /\ r.month <= month
MayPay(r) == \A i \in r.ids : /\ bill[i] # None /\ Reportable(i)
                              /\ ~bill[i].paid /\ bill[i].amount # 0
MayUnpay(r) == Single(r) /\ bill[One(r)] # None /\ bill[One(r)].paid
MayCorrect(r) == /\ Single(r) /\ Unpaid(One(r)) /\ Reportable(One(r))
                 /\ r.flag => bill[One(r)].linked
\* The ids are not the caller's here, but what the SELECT returns.
MayCorrectMany(r) ==
    r.ids = {i \in Used(bill) : /\ bill[i].month = r.month /\ ~bill[i].paid
                                /\ bill[i].amount = r.fee /\ Reportable(i)
                                /\ bill[i].linked =>
                                      pupil[bill[i].student].override = None}
OnlyBillsCount == Used(bill) = {}
NothingInCurrency == Used(bill) = {} /\ \A e \in Expenses : expense[e] = None
MaySet(r) == /\ r.set.enabled /\ ~setting.enabled => r.set.fee > 0
             /\ r.set.currency # setting.currency => NothingInCurrency
             /\ r.flag => r.set.enabled /\ r.set # setting
MayOverride(r) == pupil[r.student].there /\ pupil[r.student].enrolled
MayUnspend(r) == expense[r.expense] # None /\ ~expense[r.expense].deleted

DeskFound(r) ==
    CASE r.op = "view" -> MayView(r)
      [] r.op = "pay" -> MayPay(r)
      [] r.op = "unpay" -> MayUnpay(r)
      [] r.op = "correct" -> MayCorrect(r)
      [] r.op = "correctMany" -> MayCorrectMany(r)
      [] r.op = "settings" -> MaySet(r)
      [] r.op = "override" -> MayOverride(r)
      [] r.op \in {"status", "delete"} -> pupil[r.student].there
      [] r.op \in {"create", "spend"} -> TRUE
      [] r.op = "unspend" -> MayUnspend(r)

Queue(d, r) ==
    LET loads == r.op \in {"view", "override", "status"}
    IN /\ desk[d] = None
       /\ DeskFound(r)
       /\ desk' = [desk EXCEPT ![d] =
              [request |-> r,
               read |-> [setting |-> setting,
                         left |-> IF r.op = "view"
                                  THEN Eligible(pupil, r.month) \ BilledIn(bill, r.month) ELSE {},
                         pupil |-> [s \in Pupils |-> IF loads THEN pupil[s] ELSE NoPupil],
                         owner |-> IF r.op = "correct" THEN bill[One(r)].student ELSE None]]]
       /\ UNCHANGED <<billingRows, month>>

-----------------------------------------------------------------------------
(* What it writes.                                                           *)

Serve(d) == desk' = [desk EXCEPT ![d] = None] /\ UNCHANGED month
Refuse(d) == Serve(d) /\ UNCHANGED billingRows

\* One transaction of list_months, student_current, the overview of finance.py
\* and months/generate; also of an update_settings that is told to enable what is
\* on already, and of an update_student that changes nothing: those have written
\* nothing before the bills either.
View(d) ==
    LET r == desk[d].request
        read == desk[d].read
        now == Together(bill, pupil, read.left, r.month)
        new == Missing(bill, pupil, now, r.month)
    IN /\ r.op = "view"
       /\ Room(bill, new)
       /\ bill' = Appended(bill, new, r.month, read.pupil, read.setting)
       /\ desk' = [desk EXCEPT ![d] =
              IF now = read.left THEN None
              ELSE [request |-> r, read |-> [read EXCEPT !.left = @ \ now]]]
       /\ UNCHANGED <<pupil, setting, expense, month>>

\* mark_paid, and bulk_mark_paid where there are several: one conditional
\* UPDATE per bill, and a rollback when one of them meets nothing to do.
StillDue(i, r) == Unpaid(i) /\ (Cardinality(r.ids) > 1 => bill[i].amount > 0)
Paid(r) == IF \A i \in r.ids : StillDue(i, r)
           THEN [i \in Ids |-> IF i \in r.ids THEN [bill[i] EXCEPT !.paid = TRUE] ELSE bill[i]]
           ELSE bill
Pay(d) ==
    /\ desk[d].request.op = "pay"
    /\ bill' = Paid(desk[d].request)
    /\ Serve(d) /\ UNCHANGED <<pupil, setting, expense>>

Unpay(d) ==
    LET i == One(desk[d].request)
    IN /\ desk[d].request.op = "unpay"
       /\ bill' = IF bill[i] # None /\ bill[i].paid
                  THEN [bill EXCEPT ![i].paid = FALSE] ELSE bill
       /\ Serve(d) /\ UNCHANGED <<pupil, setting, expense>>

\* update_month_amount. The student is read after the bill is written; when he
\* is gone by then nothing is kept.
CorrectableAny(i) == bill[i] # None
Correctable(i) == Unpaid(i)
Correct(d) ==
    LET r == desk[d].request
        i == One(r)
        student == desk[d].read.owner
    IN /\ r.op = "correct"
       /\ IF Correctable(i) /\ (r.flag => pupil[student].there)
          THEN /\ bill' = [bill EXCEPT ![i].amount = r.fee]
               /\ pupil' = IF r.flag THEN [pupil EXCEPT ![student].override = r.override]
                           ELSE pupil
               /\ Serve(d) /\ UNCHANGED <<setting, expense>>
          ELSE Refuse(d)

CorrectMany(d) ==
    LET r == desk[d].request
        matches(i) == i \in r.ids /\ Unpaid(i) /\ bill[i].month = r.month /\ bill[i].amount = r.fee
    IN /\ r.op = "correctMany"
       /\ r.override # None
       /\ bill' = [i \in Ids |-> IF matches(i) THEN [bill[i] EXCEPT !.amount = r.override]
                                 ELSE bill[i]]
       /\ Serve(d) /\ UNCHANGED <<pupil, setting, expense>>

\* update_settings and update_tahfiz_settings; an attribute set to what was read
\* is not written. Bills are made by update_settings when it is told to enable.
Settings(d) ==
    LET r == desk[d].request
        was == desk[d].read.setting
        changed(field) == r.set[field] # was[field]
    IN /\ r.op = "settings"
       /\ setting' = [field \in DOMAIN setting |->
              IF changed(field) THEN r.set[field] ELSE setting[field]]
       /\ r.flag => RoomToEnsure(bill, pupil, r.set)
       /\ bill' = IF r.flag THEN Ensured(bill, pupil, r.set) ELSE bill
       /\ Serve(d) /\ UNCHANGED <<pupil, expense>>

\* update_student_fee. The UPDATE of a row that is gone fails.
Override(d) ==
    LET r == desk[d].request
        was == desk[d].read.pupil[r.student]
    IN /\ r.op = "override"
       /\ IF pupil[r.student].there /\ was.override # r.override
          THEN /\ pupil' = [pupil EXCEPT ![r.student].override = r.override]
               /\ Serve(d) /\ UNCHANGED <<setting, bill, expense>>
          ELSE Refuse(d)

\* update_student, where it changes something. Enrolled students bill the month
\* where subscriptions are on; any other status, or any while they are off, takes
\* the month's unpaid bill away. The UPDATE of a row that is gone fails, that of
\* other rows (his parents' phones) does not.
Dropped(s) == [i \in Ids |-> IF /\ Unpaid(i) /\ bill[i].linked
                                /\ bill[i].student = s /\ bill[i].month = month
                             THEN None ELSE bill[i]]
Status(d) ==
    LET r == desk[d].request
        was == desk[d].read.pupil[r.student]
        set == desk[d].read.setting
        changes == was.enrolled # r.flag
        bills == set.enabled /\ r.flag
        new == IF changes THEN [pupil EXCEPT ![r.student].enrolled = r.flag] ELSE pupil
    IN /\ r.op = "status"
       /\ \/ /\ pupil[r.student].there \/ ~changes
             /\ pupil' = new
             /\ bills => RoomToEnsure(bill, new, set)
             /\ bill' = IF bills THEN Ensured(bill, new, set) ELSE Dropped(r.student)
             /\ Serve(d) /\ UNCHANGED <<setting, expense>>
          \/ ~pupil[r.student].there /\ Refuse(d)

\* create_student: SQLite gives the largest id plus one here, too.
Create(d) ==
    LET r == desk[d].request
        set == desk[d].read.setting
        id == 1 + Largest({0} \cup {s \in Pupils : pupil[s].there})
        new == [s \in Pupils |->
                   IF s = id THEN [there |-> TRUE, enrolled |-> r.flag, override |-> None,
                                   since |-> month]
                   ELSE pupil[s]]
    IN /\ r.op = "create"
       /\ id \in Pupils
       /\ pupil' = new
       /\ r.flag => RoomToEnsure(bill, new, set)
       /\ bill' = IF r.flag THEN Ensured(bill, new, set) ELSE bill
       /\ Serve(d) /\ UNCHANGED <<setting, expense>>

\* delete_student_entity: the month's unpaid bill goes, the others stay, unlinked.
Remove(d) ==
    LET s == desk[d].request.student
        kept == Dropped(s)
    IN /\ desk[d].request.op = "delete"
       /\ pupil' = [pupil EXCEPT ![s] = NoPupil]
       /\ bill' = [i \in Ids |-> IF kept[i] # None /\ kept[i].student = s
                                 THEN [kept[i] EXCEPT !.linked = FALSE] ELSE kept[i]]
       /\ Serve(d) /\ UNCHANGED <<setting, expense>>

\* create_expense, in the currency read with the request's authentication.
Spend(d) ==
    LET e == desk[d].request.expense
    IN /\ desk[d].request.op = "spend"
       /\ expense[e] = None
       /\ expense' = [expense EXCEPT ![e] =
              [currency |-> desk[d].read.setting.currency, deleted |-> FALSE]]
       /\ Serve(d) /\ UNCHANGED <<pupil, setting, bill>>

\* delete_expense: a conditional UPDATE.
Unspend(d) ==
    LET e == desk[d].request.expense
    IN /\ desk[d].request.op = "unspend"
       /\ expense' = IF expense[e] # None /\ ~expense[e].deleted
                     THEN [expense EXCEPT ![e].deleted = TRUE] ELSE expense
       /\ Serve(d) /\ UNCHANGED <<pupil, setting, bill>>

NewMonth == /\ month < MaxMonth
            /\ month' = month + 1
            /\ UNCHANGED <<billingRows, desk>>

Finish(d) ==
    /\ desk[d] # None
    /\ \/ View(d)
       \/ Pay(d)
       \/ Unpay(d)
       \/ Correct(d)
       \/ CorrectMany(d)
       \/ Settings(d)
       \/ Override(d)
       \/ Status(d)
       \/ Create(d)
       \/ Remove(d)
       \/ Spend(d)
       \/ Unspend(d)

BillingNext ==
    \/ \E d \in Desks, r \in DeskRequest : Queue(d, r)
    \/ \E d \in Desks : Finish(d)
    \/ NewMonth

BillingSpec == BillingInit /\ [][BillingNext]_billingVars

-----------------------------------------------------------------------------
\* What was paid stays as it was paid, for whom, for when and how much, until
\* mark_unpaid; a bill of a past month is never taken away (the conditional
\* UPDATEs and DELETEs against one another).
PaidBillsStay ==
    [][\A i \in Ids : bill[i] # None =>
          /\ bill[i].paid \/ bill[i].month < month => bill'[i] # None
          /\ bill[i].paid => /\ bill'[i].student = bill[i].student
                             /\ bill'[i].month = bill[i].month
                             /\ bill'[i].amount = bill[i].amount]_billingVars

\* A payment of several bills is for all of them or for none. A page view leaves
\* none out of those it had found without a bill: whoever it has dealt with has
\* one at the end of that transaction, though others made bills meanwhile, or is
\* gone (ensure_subscription_records, which commits bill by bill: a bill it has
\* made may be paid or taken away before the view ends).
Left(waiting) == IF waiting = None THEN {} ELSE waiting.read.left
BatchesWhole ==
    [][\A d \in Desks : desk[d] # None /\ desk'[d] # desk[d] =>
          LET r == desk[d].request
          IN /\ r.op = "pay" =>
                   \/ \A i \in r.ids : bill'[i] # None /\ bill'[i].paid
                   \/ bill' = bill
             /\ r.op = "view" =>
                   \A s \in Left(desk[d]) \ Left(desk'[d]) :
                      pupil[s].there => s \in BilledIn(bill', r.month)]_billingVars

\* Between requests that come one at a time, all bills and expenses are in the
\* center's currency, so the balance of a month adds up (update_settings and
\* update_tahfiz_settings, which count both kinds before they change it).
OneCurrency ==
    (\A d \in Desks : desk[d] = None) =>
        /\ \A i \in Used(bill) : bill[i].currency = setting.currency
        /\ \A e \in Expenses : expense[e] # None => expense[e].currency = setting.currency

\* ... which holds of requests that come one at a time.
OneDesk == \A d, e \in Desks : desk[d] # None /\ desk[e] # None => d = e
CurrencyOneByOne == []OneDesk => []OneCurrency
=============================================================================
