--------------------------- MODULE Billing_proofs ---------------------------
(***************************************************************************)
(* Paid bills, the bills of past months and whole batches, for any number of  *)
(* students, months, bills and overlapping requests; and one currency, for   *)
(* requests that come one at a time.                                         *)
(***************************************************************************)
EXTENDS Billing, FiniteSetTheorems, TLAPS

-----------------------------------------------------------------------------
(* The ids of new bills.                                                     *)

\* A set of ids, with 0, has a largest one.
LEMMA LargestId ==
    ASSUME NEW S \in SUBSET (0 .. MaxBills), S # {}
    PROVE  Largest(S) \in S /\ \A k \in S : k <= Largest(S)
<1> DEFINE above(k) == {x \in S : k < x}
           tops == {above(k) : k \in S}
           R == StrictSubsetOrdering(S)
<1>1. IsFiniteSet(S) /\ S \subseteq Int
  <2>1. IsFiniteSet(0 .. MaxBills)
    BY FS_Interval, BillingAssumption
  <2>2. IsFiniteSet(S)
    BY <2>1, FS_Subset
  <2>3. S \subseteq Int
    OBVIOUS
  <2> QED BY <2>2, <2>3
<1>2. tops \subseteq SUBSET S /\ tops # {}
  OBVIOUS
<1>3. FiniteSubsetsOf(S) = SUBSET S
  BY <1>1, FS_FiniteSubsetsOfFinite
<1>4. IsWellFoundedOn(R, SUBSET S)
  BY <1>3, FS_StrictSubsetOrderingWellFounded
<1>5. PICK top \in tops : \A T \in tops : ~ (<<T, top>> \in R)
  <2> HIDE DEF tops, R
  <2> QED BY <1>2, <1>4, WFMin
<1>6. PICK n \in S : top = above(n)
  OBVIOUS
<1>7. ASSUME NEW k \in S, n < k PROVE FALSE
  <2>1. above(k) \subseteq above(n) /\ k \in above(n) /\ k \notin above(k)
    <3>1. \A x \in S : k < x => n < x
      BY <1>1, <1>7
    <3>2. ~ (k < k)
      BY <1>1
    <3> QED BY <1>7, <3>1, <3>2
  <2>2. above(k) \in tops /\ above(k) \subseteq S /\ above(n) \subseteq S
    OBVIOUS
  <2>3. <<above(k), above(n)>> \in R
    <3> HIDE DEF above
    <3> QED BY <2>1, <2>2 DEF StrictSubsetOrdering
  <2> QED BY <1>5, <1>6, <2>2, <2>3
<1>8. \A k \in S : k <= n
  BY <1>1, <1>7
<1> QED BY <1>8 DEF Largest

\* The pupils up to one of them are counted from 1, in the order of their ids.
LEMMA Ranks ==
    ASSUME NEW new \in SUBSET Pupils, NEW s \in new
    PROVE  /\ Cardinality({t \in new : t <= s}) \in Nat \ {0}
           /\ Cardinality({t \in new : t <= s}) <= Cardinality(new)
           /\ Cardinality(new) \in Nat
           /\ \A t \in new : s < t =>
                 Cardinality({x \in new : x <= s}) < Cardinality({x \in new : x <= t})
<1>1. IsFiniteSet(new)
  <2>1. IsFiniteSet(Pupils)
    BY FS_Interval, BillingAssumption DEF Pupils
  <2> QED BY <2>1, FS_Subset
<1> DEFINE upTo(t) == {x \in new : x <= t}
<1>2. new \subseteq Int
  BY DEF Pupils
<1>3. ASSUME NEW t \in new
      PROVE  /\ IsFiniteSet(upTo(t)) /\ Cardinality(upTo(t)) \in Nat
             /\ Cardinality(upTo(t)) <= Cardinality(new)
             /\ upTo(t) # {}
  <2>1. upTo(t) \in SUBSET new
    OBVIOUS
  <2>2. t \in upTo(t)
    BY <1>2
  <2>3. upTo(t) # {}
    BY <2>2
  <2> HIDE DEF upTo
  <2> QED BY <1>1, <2>1, <2>3, FS_Subset, FS_CardinalityType
<1>4. Cardinality(upTo(s)) # 0
  <2> HIDE DEF upTo
  <2> QED BY <1>3, FS_EmptySet
<1>5. ASSUME NEW t \in new, s < t
      PROVE  Cardinality(upTo(s)) < Cardinality(upTo(t))
  <2>1. upTo(s) \in SUBSET upTo(t)
    <3>1. \A x \in new : x <= s => x <= t
      BY <1>2, <1>5
    <3> QED BY <3>1
  <2>2. t \in upTo(t) /\ t \notin upTo(s)
    BY <1>2, <1>5
  <2>3. upTo(s) # upTo(t)
    BY <2>2
  <2> HIDE DEF upTo
  <2> QED BY <1>3, <2>1, <2>3, FS_Subset
<1>6. Cardinality(new) \in Nat
  BY <1>1, FS_CardinalityType
<1> QED BY <1>3, <1>4, <1>5, <1>6

-----------------------------------------------------------------------------
(* Making bills.                                                             *)

Bills == [Ids -> Bill \cup {None}]

LEMMA NewBillTyped ==
    ASSUME NEW s \in Pupils, NEW m \in Months,
           NEW p \in [Pupils -> Pupil], NEW set \in Setting
    PROVE  NewBill(s, m, p, set) \in Bill
<1>1. set.fee \in Fees /\ set.currency \in Currencies
  BY DEF Setting
<1>2. p[s].override # None => p[s].override \in Fees
  BY DEF Pupil
<1> QED BY <1>1, <1>2 DEF NewBill, Bill

\* The new bills go behind those in use, each to an id of its own: no bill is
\* written over, and each student gets one where there is room.
LEMMA AppendedBills ==
    ASSUME NEW b \in Bills, NEW new \in SUBSET Pupils, NEW m \in Months,
           NEW p \in [Pupils -> Pupil], NEW set \in Setting
    PROVE  /\ Appended(b, new, m, p, set) \in Bills
           /\ \A i \in Used(b) : Appended(b, new, m, p, set)[i] = b[i]
           /\ Room(b, new) => \A s \in new : s \in BilledIn(Appended(b, new, m, p, set), m)
<1> DEFINE last == Largest({0} \cup Used(b))
           rank(s) == Cardinality({t \in new : t <= s})
           at(s) == last + rank(s)
           after == Appended(b, new, m, p, set)
           pick(i) == CHOOSE s \in new : i = at(s)
<1>1. /\ last \in Nat
      /\ \A i \in Used(b) : i <= last
  <2>1. {0} \cup Used(b) \in SUBSET (0 .. MaxBills)
    BY BillingAssumption DEF Used, Ids
  <2>2. {0} \cup Used(b) # {}
    OBVIOUS
  <2>3. /\ last \in {0} \cup Used(b)
        /\ \A k \in {0} \cup Used(b) : k <= last
    BY <2>1, <2>2, LargestId
  <2>4. last \in Nat
    BY <2>1, <2>3, BillingAssumption
  <2> QED BY <2>3, <2>4
<1>2. after = [i \in Ids |-> IF \E s \in new : i = at(s)
                             THEN NewBill(pick(i), m, p, set) ELSE b[i]]
  BY DEF Appended
<1>3. \A s \in new : /\ rank(s) \in Nat \ {0} /\ rank(s) <= Cardinality(new)
                     /\ \A t \in new : s < t => rank(s) < rank(t)
  BY Ranks
<1> HIDE DEF last, rank, after
<1>4. \A i \in Ids : (\E s \in new : i = at(s)) => pick(i) \in new /\ i = at(pick(i))
  OBVIOUS
<1>5. \A i \in Ids : (\E s \in new : i = at(s)) => NewBill(pick(i), m, p, set) \in Bill
  BY <1>4, NewBillTyped
<1>6. after \in Bills
  <2> HIDE DEF pick, at
  <2> QED BY <1>2, <1>5 DEF Bills
<1>7. ASSUME NEW i \in Used(b) PROVE after[i] = b[i]
  <2>1. i \in Ids /\ i \in Int /\ i <= last
    BY <1>1 DEF Used, Ids
  <2>2. ~ \E s \in new : i = at(s)
    BY <1>1, <1>3, <2>1
  <2> HIDE DEF pick, at
  <2> QED BY <1>2, <2>1, <2>2
<1>8. ASSUME Room(b, new), NEW s \in new PROVE s \in BilledIn(after, m)
  <2>1. Cardinality(new) \in Nat /\ last + Cardinality(new) <= MaxBills
    BY <1>8, Ranks DEF Room, last
  <2>2. at(s) \in Ids
    BY <1>1, <1>3, <2>1, BillingAssumption DEF Ids
  <2>3. pick(at(s)) = s
    <3>1. pick(at(s)) \in new /\ at(s) = at(pick(at(s)))
      BY <1>4, <2>2
    <3>2. \A t \in new : at(t) = at(s) => t = s
      <4>1. ASSUME NEW t \in new, at(t) = at(s) PROVE t = s
        <5>1. rank(t) = rank(s)
          BY <1>1, <1>3, <4>1
        <5>2. ~ (s < t) /\ ~ (t < s)
          BY <1>3, <5>1
        <5> QED BY <5>2 DEF Pupils
      <4> QED BY <4>1
    <3> QED BY <3>1, <3>2
  <2>4. after[at(s)] = NewBill(s, m, p, set)
    <3> HIDE DEF pick, at
    <3> QED BY <1>2, <2>2, <2>3
  <2>5. NewBill(s, m, p, set) \in Bill
    BY NewBillTyped
  <2>6. NewBill(s, m, p, set).student = s /\ NewBill(s, m, p, set).month = m
    BY DEF NewBill
  <2> HIDE DEF at
  <2>7. at(s) \in Used(after)
    BY <2>2, <2>4, <2>5, BillsAreThere DEF Used
  <2> QED BY <2>4, <2>6, <2>7 DEF BilledIn
<1> QED BY <1>6, <1>7, <1>8 DEF after

\* ensure_subscription_records writes over no bill either.
LEMMA EnsuredBills ==
    ASSUME NEW b \in Bills, NEW p \in [Pupils -> Pupil], NEW set \in Setting,
           month \in Months
    PROVE  /\ Ensured(b, p, set) \in Bills
           /\ \A i \in Used(b) : Ensured(b, p, set)[i] = b[i]
<1>1. Missing(b, p, Eligible(p, month), month) \in SUBSET Pupils
  BY DEF Missing, Eligible
<1>2. CASE set.enabled
  <2> DEFINE new == Missing(b, p, Eligible(p, month), month)
  <2>1. Ensured(b, p, set) = Appended(b, new, month, p, set)
    BY <1>2 DEF Ensured
  <2>2. new \in SUBSET Pupils
    BY <1>1
  <2> HIDE DEF new
  <2> QED BY <2>1, <2>2, AppendedBills
<1>3. CASE ~set.enabled
  BY <1>3 DEF Ensured
<1> QED BY <1>2, <1>3

-----------------------------------------------------------------------------
(* The requests.                                                             *)

RowsTyped ==
    /\ pupil \in [Pupils -> Pupil]
    /\ setting \in Setting
    /\ bill \in Bills
    /\ expense \in [Expenses -> Expense \cup {None}]

\* What a step may do to bills.
BillsStay ==
    \A i \in Ids : bill[i] # None =>
        /\ bill[i].paid \/ bill[i].month < month => bill'[i] # None
        /\ bill[i].paid => /\ bill'[i].student = bill[i].student
                           /\ bill'[i].month = bill[i].month
                           /\ bill'[i].amount = bill[i].amount

Safe == RowsTyped' /\ BillsStay

\* A bill that stays as it is, or that is not paid and gets other values.
LEMMA UsedBillsStay ==
    ASSUME BillingTypeOK, \A i \in Used(bill) : bill'[i] = bill[i]
    PROVE  BillsStay
BY DEF BillsStay, Used

\* The types of what a request carries.
LEMMA DeskTypes ==
    ASSUME BillingTypeOK, NEW d \in Desks, desk[d] # None
    PROVE  /\ desk[d].request \in DeskRequest
           /\ desk[d].request.student \in Pupils /\ desk[d].request.month \in Months
           /\ desk[d].request.ids \in SUBSET Ids /\ desk[d].request.fee \in Fees
           /\ desk[d].request.override \in Fees \cup {None}
           /\ desk[d].request.flag \in BOOLEAN /\ desk[d].request.set \in Setting
           /\ desk[d].read \in Read
           /\ desk[d].read.setting \in Setting /\ desk[d].read.left \in SUBSET Pupils
           /\ desk[d].read.pupil \in [Pupils -> Pupil]
<1>1. desk[d] \in [request : DeskRequest, read : Read]
  BY DEF BillingTypeOK
<1>2. desk[d].request \in DeskRequest /\ desk[d].read \in Read
  BY <1>1
<1>3. /\ desk[d].request.student \in Pupils /\ desk[d].request.month \in Months
      /\ desk[d].request.ids \in SUBSET Ids /\ desk[d].request.fee \in Fees
      /\ desk[d].request.override \in Fees \cup {None}
      /\ desk[d].request.flag \in BOOLEAN /\ desk[d].request.set \in Setting
  BY <1>2 DEF DeskRequest
<1>4. /\ desk[d].read.setting \in Setting /\ desk[d].read.left \in SUBSET Pupils
      /\ desk[d].read.pupil \in [Pupils -> Pupil]
  BY <1>2 DEF Read
<1> QED BY <1>2, <1>3, <1>4

\* A request is served, or it is a view that goes on with the students left.
GoesOn(d) ==
    /\ UNCHANGED month
    /\ \E next \in [request : DeskRequest, read : Read] \cup {None} :
          /\ desk' = [desk EXCEPT ![d] = next]
          /\ next # None => /\ next.request.op = "view"
                            /\ next.read.setting = desk[d].read.setting

LEMMA ViewGoesOn ==
    ASSUME BillingTypeOK, NEW d \in Desks, desk[d] # None, View(d)
    PROVE  /\ GoesOn(d)
           /\ Left(desk[d]) \ Left(desk'[d])
                 \subseteq Together(bill, pupil, desk[d].read.left, desk[d].request.month)
<1> DEFINE r == desk[d].request
           read == desk[d].read
           now == Together(bill, pupil, read.left, r.month)
           later == [read EXCEPT !.left = @ \ now]
           next == IF now = read.left THEN None ELSE [request |-> r, read |-> later]
<1>1. /\ UNCHANGED month /\ r.op = "view" /\ desk' = [desk EXCEPT ![d] = next]
  BY DEF View
<1>2. r \in DeskRequest /\ read \in Read
  BY DeskTypes
<1>3. later \in Read /\ later.setting = read.setting /\ later.left = read.left \ now
  <2> HIDE DEF now, read
  <2> QED BY <1>2 DEF Read
<1>4. desk'[d] = next
  BY <1>1 DEF BillingTypeOK
<1>5. Left(desk[d]) = read.left
  BY DEF Left
<1> HIDE DEF now, later, r, read
<1>6. CASE now = read.left
  <2>1. next = None
    BY <1>6
  <2>2. GoesOn(d)
    BY <1>1, <2>1 DEF GoesOn
  <2> QED BY <1>5, <1>6, <2>2 DEF now, r, read
<1>7. CASE now # read.left
  <2> DEFINE rest == [request |-> r, read |-> later]
  <2>1. next = rest /\ rest \in [request : DeskRequest, read : Read]
    BY <1>2, <1>3, <1>7
  <2>2. rest.request = r /\ rest.read = later
    OBVIOUS
  <2> HIDE DEF rest, next
  <2>3. rest # None
    BY <2>1, RequestsAreThere
  <2>4. Left(desk'[d]) = read.left \ now
    BY <1>3, <1>4, <2>1, <2>2, <2>3 DEF Left
  <2>5. GoesOn(d)
    BY <1>1, <1>3, <2>1, <2>2 DEF GoesOn, read
  <2> QED BY <1>5, <2>4, <2>5 DEF now, r, read
<1> QED BY <1>6, <1>7

LEMMA ViewSafe ==
    ASSUME BillingTypeOK, NEW d \in Desks, desk[d] # None, View(d)
    PROVE  /\ Safe
           /\ \A s \in Left(desk[d]) \ Left(desk'[d]) :
                 pupil[s].there => s \in BilledIn(bill', desk[d].request.month)
<1> DEFINE r == desk[d].request
           read == desk[d].read
           now == Together(bill, pupil, read.left, r.month)
           new == Missing(bill, pupil, now, r.month)
<1>1. /\ bill' = Appended(bill, new, r.month, read.pupil, read.setting)
      /\ Room(bill, new) /\ UNCHANGED <<pupil, setting, expense>>
  BY DEF View
<1>2. /\ new \in SUBSET Pupils /\ r.month \in Months
      /\ read.pupil \in [Pupils -> Pupil] /\ read.setting \in Setting
  BY DeskTypes DEF Missing, Together, First
<1>3. bill \in Bills
  BY DEF BillingTypeOK, Bills
<1>4. /\ bill' \in Bills
      /\ \A i \in Used(bill) : bill'[i] = bill[i]
      /\ \A s \in new : s \in BilledIn(bill', r.month)
  <2> HIDE DEF new, r, read
  <2> QED BY <1>1, <1>2, <1>3, AppendedBills
<1>5. ASSUME NEW s \in now, pupil[s].there
      PROVE  s \in BilledIn(bill', r.month)
  <2>1. CASE s \in new
    BY <1>4, <2>1
  <2>2. CASE s \notin new
    <3>1. s \in BilledIn(bill, r.month)
      BY <1>5, <2>2 DEF Missing
    <3>2. PICK i \in Used(bill) : bill[i].month = r.month /\ bill[i].student = s
      BY <3>1 DEF BilledIn
    <3>3. bill'[i] = bill[i] /\ i \in Used(bill')
      BY <1>4, <3>2 DEF Used
    <3> QED BY <3>2, <3>3 DEF BilledIn
  <2> QED BY <2>1, <2>2
<1>6. BillsStay
  BY <1>4, UsedBillsStay
<1>7. RowsTyped'
  BY <1>1, <1>4 DEF RowsTyped, BillingTypeOK
<1>8. \A s \in Left(desk[d]) \ Left(desk'[d]) : s \in now
  BY ViewGoesOn
<1> QED BY <1>5, <1>6, <1>7, <1>8 DEF Safe

LEMMA PaySafe ==
    ASSUME BillingTypeOK, NEW d \in Desks, desk[d] # None, Pay(d)
    PROVE  /\ Safe
           /\ \/ \A i \in desk[d].request.ids : bill'[i] # None /\ bill'[i].paid
              \/ bill' = bill
<1> DEFINE r == desk[d].request
<1>1. bill' = Paid(r) /\ UNCHANGED <<pupil, setting, expense>>
  BY DEF Pay
<1>2. r.ids \in SUBSET Ids /\ bill \in Bills
  BY DeskTypes DEF BillingTypeOK, Bills
<1>3. CASE \A i \in r.ids : StillDue(i, r)
  <2>1. bill' = [i \in Ids |-> IF i \in r.ids THEN [bill[i] EXCEPT !.paid = TRUE] ELSE bill[i]]
    BY <1>1, <1>3 DEF Paid
  <2>2. \A i \in r.ids : bill[i] \in Bill /\ ~bill[i].paid
    BY <1>2, <1>3 DEF StillDue, Unpaid, Bills
  <2>3. \A i \in r.ids : /\ [bill[i] EXCEPT !.paid = TRUE] \in Bill
                         /\ [bill[i] EXCEPT !.paid = TRUE].paid
    BY <2>2 DEF Bill
  <2>4. bill' \in Bills
    BY <1>2, <2>1, <2>3 DEF Bills
  <2>5. \A i \in r.ids : bill'[i] # None /\ bill'[i].paid
    BY <1>2, <2>1, <2>3, BillsAreThere
  <2>6. BillsStay
    BY <1>2, <2>1, <2>2, <2>5 DEF BillsStay
  <2> QED BY <1>1, <2>4, <2>5, <2>6 DEF Safe, RowsTyped, BillingTypeOK
<1>4. CASE ~ \A i \in r.ids : StillDue(i, r)
  <2>1. bill' = bill
    BY <1>1, <1>4 DEF Paid
  <2> QED BY <1>1, <1>2, <2>1, UsedBillsStay DEF Safe, RowsTyped, BillingTypeOK
<1> QED BY <1>3, <1>4

LEMMA UnpaySafe ==
    ASSUME BillingTypeOK, NEW d \in Desks, desk[d] # None, Unpay(d)
    PROVE  Safe
<1> DEFINE i == One(desk[d].request)
           row == [bill[i] EXCEPT !.paid = FALSE]
<1>1. bill \in Bills /\ UNCHANGED <<pupil, setting, expense>>
  BY DEF Unpay, BillingTypeOK, Bills
<1>2. bill' = bill \/ (bill[i] # None /\ bill' = [bill EXCEPT ![i] = row])
  BY DEF Unpay
<1>3. CASE bill' = bill
  BY <1>1, <1>3, UsedBillsStay DEF Safe, RowsTyped, BillingTypeOK
<1>4. CASE i \in Ids /\ bill[i] # None /\ bill' = [bill EXCEPT ![i] = row]
  <2>1. /\ row \in Bill /\ row.student = bill[i].student
        /\ row.month = bill[i].month /\ row.amount = bill[i].amount
    BY <1>1, <1>4 DEF Bills, Bill
  <2> HIDE DEF row
  <2>2. bill' \in Bills
    BY <1>1, <1>4, <2>1 DEF Bills
  <2>3. row # None
    BY <2>1, BillsAreThere
  <2>4. /\ bill'[i] = row
        /\ \A j \in Ids : j # i => bill'[j] = bill[j]
    BY <1>1, <1>4 DEF Bills
  <2>5. BillsStay
    BY <2>1, <2>3, <2>4 DEF BillsStay
  <2> QED BY <1>1, <2>2, <2>5 DEF Safe, RowsTyped, BillingTypeOK
<1>5. CASE i \notin Ids
  <2>1. bill' = bill
    BY <1>1, <1>2, <1>5 DEF Bills
  <2> QED BY <2>1, <1>3
<1> QED BY <1>2, <1>3, <1>4, <1>5

\* The amount of one unpaid bill, and the fee of its student.
LEMMA CorrectSafe ==
    ASSUME BillingTypeOK, NEW d \in Desks, desk[d] # None, Correct(d)
    PROVE  Safe
<1> DEFINE r == desk[d].request
           i == One(r)
           student == desk[d].read.owner
           row == [bill[i] EXCEPT !.amount = r.fee]
<1>1. bill \in Bills /\ pupil \in [Pupils -> Pupil] /\ UNCHANGED <<setting, expense>>
  BY DEF Correct, Refuse, billingRows, BillingTypeOK, Bills
<1>2. r.fee \in Fees /\ r.override \in Fees \cup {None}
  BY DeskTypes
<1>3. \/ bill' = bill /\ pupil' = pupil
      \/ /\ Unpaid(i) /\ bill' = [bill EXCEPT ![i] = row]
         /\ \/ pupil' = pupil
            \/ pupil' = [pupil EXCEPT ![student].override = r.override]
  BY DEF Correct, Refuse, billingRows, Correctable
<1>4. pupil' \in [Pupils -> Pupil]
  <2>1. CASE pupil' = [pupil EXCEPT ![student].override = r.override]
    <3>1. student \in Pupils => [pupil[student] EXCEPT !.override = r.override] \in Pupil
      BY <1>1, <1>2 DEF Pupil
    <3> QED BY <1>1, <2>1, <3>1
  <2> QED BY <1>1, <1>3, <2>1
<1>5. bill' \in Bills /\ BillsStay
  <2>1. CASE bill' = bill
    BY <1>1, <2>1, UsedBillsStay
  <2>2. CASE i \in Ids /\ Unpaid(i) /\ bill' = [bill EXCEPT ![i] = row]
    <3>1. row \in Bill /\ ~bill[i].paid
      BY <1>1, <1>2, <2>2 DEF Bills, Bill, Unpaid
    <3> HIDE DEF row
    <3>2. bill' \in Bills
      BY <1>1, <2>2, <3>1 DEF Bills
    <3>3. row # None
      BY <3>1, BillsAreThere
    <3>4. /\ bill'[i] = row
          /\ \A j \in Ids : j # i => bill'[j] = bill[j]
      BY <1>1, <2>2 DEF Bills
    <3> QED BY <3>1, <3>2, <3>3, <3>4 DEF BillsStay
  <2>3. CASE i \notin Ids
    <3>1. bill' = bill
      BY <1>1, <1>3, <2>3 DEF Bills
    <3> QED BY <3>1, <2>1
  <2> QED BY <1>3, <2>1, <2>2, <2>3
<1> QED BY <1>1, <1>4, <1>5 DEF Safe, RowsTyped, BillingTypeOK

LEMMA CorrectManySafe ==
    ASSUME BillingTypeOK, NEW d \in Desks, desk[d] # None, CorrectMany(d)
    PROVE  Safe
<1> DEFINE r == desk[d].request
           matches(i) == i \in r.ids /\ Unpaid(i) /\ bill[i].month = r.month /\ bill[i].amount = r.fee
<1>1. /\ bill \in Bills /\ UNCHANGED <<pupil, setting, expense>>
      /\ r.override \in Fees
      /\ bill' = [i \in Ids |-> IF matches(i) THEN [bill[i] EXCEPT !.amount = r.override]
                                ELSE bill[i]]
  BY DeskTypes DEF CorrectMany, BillingTypeOK, Bills
<1>2. \A i \in Ids : matches(i) =>
         [bill[i] EXCEPT !.amount = r.override] \in Bill /\ ~bill[i].paid
  BY <1>1 DEF Bills, Bill, Unpaid
<1> HIDE DEF matches
<1>3. bill' \in Bills
  BY <1>1, <1>2 DEF Bills
<1>4. BillsStay
  BY <1>1, <1>2, BillsAreThere DEF BillsStay
<1> QED BY <1>1, <1>3, <1>4 DEF Safe, RowsTyped, BillingTypeOK

LEMMA SettingsSafe ==
    ASSUME BillingTypeOK, NEW d \in Desks, desk[d] # None, Settings(d)
    PROVE  Safe
<1> DEFINE r == desk[d].request
           was == desk[d].read.setting
<1>1. /\ bill \in Bills /\ pupil \in [Pupils -> Pupil] /\ setting \in Setting
      /\ month \in Months /\ r.set \in Setting /\ UNCHANGED <<pupil, expense>>
      /\ bill' = bill \/ bill' = Ensured(bill, pupil, r.set)
  BY DeskTypes DEF Settings, BillingTypeOK, Bills
<1>2. bill' \in Bills /\ \A i \in Used(bill) : bill'[i] = bill[i]
  BY <1>1, EnsuredBills
<1>3. setting' \in Setting
  <2>1. setting' = [field \in DOMAIN setting |->
            IF r.set[field] # was[field] THEN r.set[field] ELSE setting[field]]
    BY DEF Settings
  <2> QED BY <1>1, <2>1 DEF Setting
<1> QED BY <1>1, <1>2, <1>3, UsedBillsStay DEF Safe, RowsTyped, BillingTypeOK

LEMMA OverrideSafe ==
    ASSUME BillingTypeOK, NEW d \in Desks, desk[d] # None, Override(d)
    PROVE  Safe
<1> DEFINE r == desk[d].request
<1>1. /\ r.student \in Pupils /\ r.override \in Fees \cup {None}
      /\ pupil \in [Pupils -> Pupil] /\ bill \in Bills
      /\ UNCHANGED <<setting, bill, expense>>
  BY DeskTypes DEF Override, Refuse, billingRows, BillingTypeOK, Bills
<1>2. pupil' = pupil \/ pupil' = [pupil EXCEPT ![r.student].override = r.override]
  BY DEF Override, Refuse, billingRows
<1>3. [pupil[r.student] EXCEPT !.override = r.override] \in Pupil
  BY <1>1 DEF Pupil
<1>4. pupil' \in [Pupils -> Pupil]
  BY <1>1, <1>2, <1>3
<1> QED BY <1>1, <1>4, UsedBillsStay DEF Safe, RowsTyped, BillingTypeOK

\* Taking the month's unpaid bill away leaves all the others as they are.
LEMMA DroppedBills ==
    ASSUME BillingTypeOK, NEW s \in Pupils
    PROVE  /\ Dropped(s) \in Bills
           /\ \A i \in Used(bill) : \/ Dropped(s)[i] = bill[i]
                                    \/ ~bill[i].paid /\ bill[i].month = month
           /\ \A i \in Ids : Dropped(s)[i] # None => Dropped(s)[i] = bill[i]
<1>1. bill \in Bills
  BY DEF BillingTypeOK, Bills
<1>2. Dropped(s) \in Bills
  BY <1>1 DEF Dropped, Bills
<1>3. \A i \in Ids : \/ Dropped(s)[i] = bill[i]
                     \/ Dropped(s)[i] = None /\ ~bill[i].paid /\ bill[i].month = month
  BY DEF Dropped, Unpaid
<1> QED BY <1>2, <1>3 DEF Used

LEMMA StatusSafe ==
    ASSUME BillingTypeOK, NEW d \in Desks, desk[d] # None, Status(d)
    PROVE  Safe
<1> DEFINE r == desk[d].request
           set == desk[d].read.setting
           enrolled == [pupil EXCEPT ![r.student].enrolled = r.flag]
<1>1. /\ r.student \in Pupils /\ r.flag \in BOOLEAN /\ set \in Setting
      /\ pupil \in [Pupils -> Pupil] /\ bill \in Bills /\ month \in Months
      /\ UNCHANGED <<setting, expense>>
  BY DeskTypes DEF Status, Refuse, billingRows, BillingTypeOK, Bills
<1>2. enrolled \in [Pupils -> Pupil]
  <2>1. [pupil[r.student] EXCEPT !.enrolled = r.flag] \in Pupil
    BY <1>1 DEF Pupil
  <2> QED BY <1>1, <2>1
<1>3. /\ pupil' = pupil \/ pupil' = enrolled
      /\ bill' = bill \/ bill' = Dropped(r.student) \/ bill' = Ensured(bill, pupil', set)
  BY DEF Status, Refuse, billingRows
<1>4. pupil' \in [Pupils -> Pupil]
  BY <1>1, <1>2, <1>3
<1>5. bill' \in Bills /\ BillsStay
  <2>1. CASE bill' = bill
    BY <1>1, <2>1, UsedBillsStay
  <2>2. CASE bill' = Dropped(r.student)
    <3>1. /\ bill' \in Bills
          /\ \A i \in Used(bill) : bill'[i] = bill[i] \/ (~bill[i].paid /\ bill[i].month = month)
      BY <1>1, <2>2, DroppedBills
    <3>2. \A i \in Ids : month \in Int
      BY <1>1 DEF Months
    <3> QED BY <3>1, <3>2 DEF BillsStay, Used
  <2>3. CASE bill' = Ensured(bill, pupil', set)
    <3>1. bill' \in Bills /\ \A i \in Used(bill) : bill'[i] = bill[i]
      BY <1>1, <1>4, <2>3, EnsuredBills
    <3> QED BY <3>1, UsedBillsStay
  <2> QED BY <1>3, <2>1, <2>2, <2>3
<1> QED BY <1>1, <1>4, <1>5 DEF Safe, RowsTyped, BillingTypeOK

LEMMA CreateSafe ==
    ASSUME BillingTypeOK, NEW d \in Desks, desk[d] # None, Create(d)
    PROVE  Safe
<1> DEFINE r == desk[d].request
           set == desk[d].read.setting
           fresh == [there |-> TRUE, enrolled |-> r.flag, override |-> None, since |-> month]
           id == 1 + Largest({0} \cup {s \in Pupils : pupil[s].there})
<1>1. /\ r.flag \in BOOLEAN /\ set \in Setting /\ month \in Months
      /\ pupil \in [Pupils -> Pupil] /\ bill \in Bills
      /\ UNCHANGED <<setting, expense>>
  BY DeskTypes DEF Create, BillingTypeOK, Bills
<1>2. /\ pupil' = [s \in Pupils |-> IF s = id THEN fresh ELSE pupil[s]]
      /\ bill' = bill \/ bill' = Ensured(bill, pupil', set)
  BY DEF Create
<1>3. pupil' \in [Pupils -> Pupil]
  <2>1. fresh \in Pupil
    BY <1>1 DEF Pupil
  <2> HIDE DEF fresh, id
  <2> QED BY <1>1, <1>2, <2>1
<1> HIDE DEF fresh, id
<1>4. bill' \in Bills /\ \A i \in Used(bill) : bill'[i] = bill[i]
  <2>1. CASE bill' = bill
    BY <1>1, <2>1
  <2>2. CASE bill' = Ensured(bill, pupil', set)
    <3> DEFINE after == pupil'
    <3>1. after \in [Pupils -> Pupil] /\ bill' = Ensured(bill, after, set)
      BY <1>3, <2>2
    <3> HIDE DEF after, set
    <3> QED BY <1>1, <3>1, EnsuredBills
  <2> QED BY <1>2, <2>1, <2>2
<1> QED BY <1>1, <1>3, <1>4, UsedBillsStay DEF Safe, RowsTyped, BillingTypeOK

LEMMA RemoveSafe ==
    ASSUME BillingTypeOK, NEW d \in Desks, desk[d] # None, Remove(d)
    PROVE  Safe
<1> DEFINE s == desk[d].request.student
           kept == Dropped(s)
           unlinked(i) == [kept[i] EXCEPT !.linked = FALSE]
<1>1. /\ s \in Pupils /\ pupil \in [Pupils -> Pupil] /\ bill \in Bills
      /\ UNCHANGED <<setting, expense>>
  BY DeskTypes DEF Remove, BillingTypeOK, Bills
<1>2. /\ pupil' = [pupil EXCEPT ![s] = NoPupil]
      /\ bill' = [i \in Ids |-> IF kept[i] # None /\ kept[i].student = s
                                THEN unlinked(i) ELSE kept[i]]
  BY DEF Remove
<1>3. /\ kept \in Bills
      /\ \A i \in Used(bill) : kept[i] = bill[i] \/ (~bill[i].paid /\ bill[i].month = month)
  BY <1>1, DroppedBills
<1> HIDE DEF kept
<1>4. \A i \in Ids : kept[i] # None =>
         /\ unlinked(i) \in Bill
         /\ unlinked(i).student = kept[i].student /\ unlinked(i).month = kept[i].month
         /\ unlinked(i).amount = kept[i].amount
  BY <1>3 DEF Bills, Bill
<1> HIDE DEF unlinked
<1>5. pupil' \in [Pupils -> Pupil]
  <2>1. NoPupil \in Pupil
    BY BillingAssumption DEF NoPupil, Pupil, Months
  <2> QED BY <1>1, <1>2, <2>1
<1>6. bill' \in Bills
  BY <1>2, <1>3, <1>4 DEF Bills
<1>7. BillsStay
  <2>1. ASSUME NEW i \in Used(bill), kept[i] = bill[i]
        PROVE  /\ bill'[i] # None
               /\ bill'[i].student = bill[i].student
               /\ bill'[i].month = bill[i].month
               /\ bill'[i].amount = bill[i].amount
    BY <1>2, <1>4, <2>1, BillsAreThere DEF Used
  <2>2. month \in Int
    BY DEF BillingTypeOK, Months
  <2> QED BY <1>3, <2>1, <2>2 DEF BillsStay, Used
<1> QED BY <1>1, <1>5, <1>6, <1>7 DEF Safe, RowsTyped, BillingTypeOK

LEMMA ExpensesSafe ==
    ASSUME BillingTypeOK, NEW d \in Desks, desk[d] # None, Spend(d) \/ Unspend(d)
    PROVE  RowsTyped' /\ bill' = bill
<1> DEFINE e == desk[d].request.expense
<1>1. /\ desk[d].read.setting.currency \in Currencies
      /\ expense \in [Expenses -> Expense \cup {None}]
      /\ UNCHANGED <<pupil, setting, bill>>
  BY DeskTypes DEF Spend, Unspend, BillingTypeOK, Setting
<1>2. CASE Spend(d)
  <2>1. [currency |-> desk[d].read.setting.currency, deleted |-> FALSE] \in Expense
    BY <1>1 DEF Expense
  <2> QED BY <1>1, <1>2, <2>1 DEF Spend, RowsTyped, BillingTypeOK, Bills
<1>3. CASE Unspend(d)
  <2> DEFINE row == [expense[e] EXCEPT !.deleted = TRUE]
  <2>1. e \in Expenses /\ expense[e] # None => row \in Expense
    BY <1>1 DEF Expense
  <2>2. \/ expense' = expense
        \/ expense[e] # None /\ expense' = [expense EXCEPT ![e] = row]
    BY <1>3 DEF Unspend
  <2> HIDE DEF row
  <2>3. expense' \in [Expenses -> Expense \cup {None}]
    BY <1>1, <2>1, <2>2
  <2> QED BY <1>1, <2>3 DEF RowsTyped, BillingTypeOK, Bills
<1> QED BY <1>2, <1>3

-----------------------------------------------------------------------------
(* Steps.                                                                    *)

\* What a request that arrives has read.
LEMMA QueueTyped ==
    ASSUME BillingTypeOK, NEW d \in Desks, NEW r \in DeskRequest, Queue(d, r)
    PROVE  BillingTypeOK'
<1> DEFINE loads == r.op \in {"view", "override", "status"}
           read == [setting |-> setting,
                    left |-> IF r.op = "view"
                             THEN Eligible(pupil, r.month) \ BilledIn(bill, r.month) ELSE {},
                    pupil |-> [s \in Pupils |-> IF loads THEN pupil[s] ELSE NoPupil],
                    owner |-> IF r.op = "correct" THEN bill[One(r)].student ELSE None]
<1>1. /\ desk' = [desk EXCEPT ![d] = [request |-> r, read |-> read]]
      /\ UNCHANGED <<pupil, setting, bill, expense, month>>
  BY DEF Queue, billingRows
<1>2. Eligible(pupil, r.month) \ BilledIn(bill, r.month) \in SUBSET Pupils
  BY DEF Eligible
<1>3. NoPupil \in Pupil
  BY BillingAssumption DEF NoPupil, Pupil, Months
<1>4. r.op = "correct" => bill[One(r)].student \in Pupils
  <2>1. ASSUME r.op = "correct" PROVE bill[One(r)].student \in Pupils
    <3>1. Queue(d, r) => DeskFound(r)
      BY DEF Queue
    <3>2. MayCorrect(r)
      BY <2>1, <3>1 DEF DeskFound
    <3>3. One(r) \in Ids /\ bill[One(r)] # None
      BY <3>2 DEF MayCorrect, Single, Unpaid, DeskRequest
    <3> QED BY <3>3 DEF BillingTypeOK, Bill
  <2> QED BY <2>1
<1>5. /\ setting \in Setting
      /\ [s \in Pupils |-> IF loads THEN pupil[s] ELSE NoPupil] \in [Pupils -> Pupil]
  BY <1>3 DEF BillingTypeOK
<1>6. read \in Read
  <2> HIDE DEF loads
  <2> QED BY <1>2, <1>4, <1>5 DEF Read
<1> HIDE DEF read
<1>7. [request |-> r, read |-> read] \in [request : DeskRequest, read : Read]
  BY <1>6
<1>8. desk' \in [Desks -> [request : DeskRequest, read : Read] \cup {None}]
  BY <1>1, <1>7 DEF BillingTypeOK
<1> QED BY <1>1, <1>8 DEF BillingTypeOK

LEMMA ViewedOrServed ==
    ASSUME NEW d \in Desks, Finish(d)
    PROVE  View(d) \/ Serve(d)
BY DEF Finish, Pay, Unpay, Correct, CorrectMany, Settings, Override, Status, Create,
       Remove, Spend, Unspend, Refuse

\* What a transaction of a request leaves.
LEMMA FinishSafe ==
    ASSUME BillingTypeOK, NEW d \in Desks, Finish(d)
    PROVE  BillingTypeOK' /\ BillsStay /\ GoesOn(d)
<1>0. desk[d] # None
  BY DEF Finish
<1>1. Safe
  <2>1. CASE Spend(d) \/ Unspend(d)
    BY <1>0, <2>1, ExpensesSafe, UsedBillsStay DEF Safe
  <2> QED BY <1>0, <2>1, ViewSafe, PaySafe, UnpaySafe, CorrectSafe, CorrectManySafe,
             SettingsSafe, OverrideSafe, StatusSafe, CreateSafe, RemoveSafe DEF Finish
<1>2. GoesOn(d)
  <2>1. ASSUME Serve(d) PROVE GoesOn(d)
    BY <2>1 DEF Serve, GoesOn
  <2> QED BY <1>0, <2>1, ViewedOrServed, ViewGoesOn
<1>3. desk' \in [Desks -> [request : DeskRequest, read : Read] \cup {None}] /\ month' \in Months
  BY <1>2 DEF GoesOn, BillingTypeOK
<1> QED BY <1>1, <1>2, <1>3 DEF Safe, RowsTyped, Bills, BillingTypeOK

LEMMA BillingStep ==
    ASSUME BillingTypeOK, [BillingNext]_billingVars
    PROVE  BillingTypeOK' /\ BillsStay
<1>1. CASE \E d \in Desks, r \in DeskRequest : Queue(d, r)
  <2>1. bill' = bill
    BY <1>1 DEF Queue, billingRows
  <2> QED BY <1>1, <2>1, QueueTyped, UsedBillsStay
<1>2. CASE \E d \in Desks : Finish(d)
  BY <1>2, FinishSafe
<1>3. CASE NewMonth
  <2>1. UNCHANGED <<pupil, setting, bill, expense, desk>> /\ month' \in Months
    BY <1>3, BillingAssumption DEF NewMonth, billingRows, BillingTypeOK, Months
  <2> QED BY <2>1, UsedBillsStay DEF BillingTypeOK
<1>4. CASE UNCHANGED billingVars
  <2>1. UNCHANGED <<pupil, setting, bill, expense, month, desk>>
    BY <1>4 DEF billingVars, billingRows
  <2> QED BY <2>1, UsedBillsStay DEF BillingTypeOK
<1> QED BY <1>1, <1>2, <1>3, <1>4 DEF BillingNext

LEMMA BillingStart == BillingInit => BillingTypeOK
<1> SUFFICES ASSUME BillingInit PROVE BillingTypeOK
  OBVIOUS
<1>1. NoPupil \in Pupil /\ 1 \in Months
  BY BillingAssumption DEF NoPupil, Pupil, Months
<1>2. setting \in Setting
  BY BillingAssumption DEF BillingInit, Setting
<1> QED BY <1>1, <1>2 DEF BillingInit, BillingTypeOK

-----------------------------------------------------------------------------
(* Theorems.                                                                 *)

\* The rows and what requests have read of them keep their types.
THEOREM BillingTyped == BillingSpec => []BillingTypeOK
BY BillingStart, BillingStep, PTL DEF BillingSpec

\* No request, however late, changes or takes away what was paid, or a bill of
\* a past month (mark_paid, update_month_amount and update_student's DELETE).
THEOREM WhatWasPaidStays == BillingSpec => PaidBillsStay
<1>1. BillingTypeOK /\ [BillingNext]_billingVars => BillsStay
  BY BillingStep
<1> QED BY <1>1, BillingStart, BillingStep, PTL DEF BillingSpec, PaidBillsStay, BillsStay

\* Several bills are paid together or not at all; a view of a month has billed
\* each student it had found without a bill by the end of the transaction that
\* came to him, unless he is gone.
THEOREM BatchesAreWhole == BillingSpec => BatchesWhole
<1> DEFINE Whole ==
        \A d \in Desks : desk[d] # None /\ desk'[d] # desk[d] =>
            LET r == desk[d].request
            IN /\ r.op = "pay" =>
                     \/ \A i \in r.ids : bill'[i] # None /\ bill'[i].paid
                     \/ bill' = bill
               /\ r.op = "view" =>
                     \A s \in Left(desk[d]) \ Left(desk'[d]) :
                        pupil[s].there => s \in BilledIn(bill', r.month)
<1>1. ASSUME BillingTypeOK, BillingNext PROVE Whole
  <2>1. ASSUME NEW d \in Desks, desk[d] # None, desk'[d] # desk[d] PROVE Finish(d)
    <3>1. CASE \E e \in Desks, r \in DeskRequest : Queue(e, r)
      <4>1. PICK e \in Desks, r \in DeskRequest : Queue(e, r)
        BY <3>1
      <4>2. desk[e] = None
        BY <4>1 DEF Queue
      <4>3. desk'[d] = desk[d]
        BY <2>1, <4>1, <4>2 DEF Queue, BillingTypeOK
      <4> QED BY <2>1, <4>3
    <3>2. CASE \E e \in Desks : Finish(e)
      <4>1. PICK e \in Desks : Finish(e)
        BY <3>2
      <4>2. GoesOn(e)
        BY <4>1, FinishSafe, <1>1
      <4>3. e # d => desk'[d] = desk[d]
        BY <4>2, <1>1 DEF GoesOn, BillingTypeOK
      <4> QED BY <2>1, <4>1, <4>3
    <3>3. CASE NewMonth
      BY <2>1, <3>3 DEF NewMonth
    <3> QED BY <1>1, <3>1, <3>2, <3>3 DEF BillingNext
  <2>2. ASSUME NEW d \in Desks, desk[d] # None, Finish(d), desk[d].request.op = "pay"
        PROVE  Pay(d)
    BY <2>2 DEF Finish, View, Pay, Unpay, Correct, CorrectMany, Settings, Override,
                Status, Create, Remove, Spend, Unspend
  <2>3. ASSUME NEW d \in Desks, desk[d] # None, Finish(d), desk[d].request.op = "view"
        PROVE  View(d)
    BY <2>3 DEF Finish, View, Pay, Unpay, Correct, CorrectMany, Settings, Override,
                Status, Create, Remove, Spend, Unspend
  <2> QED BY <1>1, <2>1, <2>2, <2>3, PaySafe, ViewSafe
<1>2. BillingTypeOK /\ [BillingNext]_billingVars => [Whole]_billingVars
  BY <1>1
<1> QED BY <1>2, BillingStart, BillingStep, PTL DEF BillingSpec, BatchesWhole
-----------------------------------------------------------------------------
(***************************************************************************)
(* One request at a time: the currency changes only while there is no bill   *)
(* and no expense, which a request has found and which nobody else changes.  *)
(***************************************************************************)

\* All there is, bills b and expenses x, is in currency c.
AllIn(b, x, c) ==
    /\ \A i \in Ids : b[i] # None => b[i].currency = c
    /\ \A e \in Expenses : x[e] # None => x[e].currency = c

\* A request has read the settings that hold, and one that changes the currency
\* has found nothing in the old one.
CurrencyHeld(request, read) ==
    /\ read.setting = setting
    /\ request.op = "settings" /\ request.set.currency # setting.currency => NothingInCurrency
DesksHold == \A d \in Desks : desk[d] # None => CurrencyHeld(desk[d].request, desk[d].read)

CurrencyInvariant == AllIn(bill, expense, setting.currency) /\ DesksHold

\* New bills are in the currency of the settings they are made by.
LEMMA AppendedCurrency ==
    ASSUME NEW b, NEW new, NEW m, NEW p, NEW set, NEW i \in Ids
    PROVE  \/ Appended(b, new, m, p, set)[i] = b[i]
           \/ Appended(b, new, m, p, set)[i].currency = set.currency
BY DEF Appended, NewBill

LEMMA EnsuredCurrency ==
    ASSUME NEW b, NEW p, NEW set, NEW i \in Ids
    PROVE  \/ Ensured(b, p, set)[i] = b[i]
           \/ Ensured(b, p, set)[i].currency = set.currency
BY AppendedCurrency DEF Ensured

\* Requests that leave the settings alone: each bill is as it was, gone, or in
\* the currency it was in or is new.
BillsInKind ==
    \A i \in Ids : \/ bill'[i] = None
                   \/ bill'[i].currency = setting.currency
                   \/ bill[i] # None /\ bill'[i].currency = bill[i].currency

LEMMA PaymentsInKind ==
    ASSUME BillingTypeOK, NEW d \in Desks, desk[d] # None,
           Pay(d) \/ Unpay(d) \/ Correct(d) \/ CorrectMany(d) \/ Override(d)
    PROVE  BillsInKind /\ UNCHANGED <<setting, expense>>
<1> DEFINE r == desk[d].request
<1>1. UNCHANGED <<setting, expense>>
  BY DEF Pay, Unpay, Correct, CorrectMany, Override, Refuse, billingRows
<1>2. bill \in Bills /\ r.ids \in SUBSET Ids
  BY DeskTypes DEF BillingTypeOK, Bills
<1> DEFINE marked(i) == [bill[i] EXCEPT !.paid = TRUE]
           cleared(i) == [bill[i] EXCEPT !.paid = FALSE]
           priced(i, f) == [bill[i] EXCEPT !.amount = f]
<1>3. ASSUME NEW i \in Ids, bill[i] # None, NEW f
      PROVE  /\ marked(i).currency = bill[i].currency
             /\ cleared(i).currency = bill[i].currency
             /\ priced(i, f).currency = bill[i].currency
  <2>1. bill[i] \in Bill
    BY <1>2, <1>3 DEF Bills
  <2> QED BY <2>1 DEF Bill
<1>4. ASSUME NEW i \in Ids
      PROVE  \/ bill'[i] = bill[i]
             \/ bill[i] # None /\ \/ bill'[i] \in {marked(i), cleared(i)}
                                  \/ \E f : bill'[i] = priced(i, f)
  <2>1. CASE Pay(d)
    <3>1. bill' = bill \/ \A j \in r.ids : Unpaid(j)
      BY <2>1 DEF Pay, Paid, StillDue
    <3>2. bill' = bill \/ bill' = [j \in Ids |-> IF j \in r.ids THEN marked(j) ELSE bill[j]]
      BY <2>1 DEF Pay, Paid
    <3> HIDE DEF r, marked, cleared, priced
    <3> QED BY <3>1, <3>2 DEF Unpaid
  <2>2. CASE Unpay(d)
    <3> DEFINE j == One(r)
    <3>1. bill' = bill \/ (bill[j] # None /\ bill' = [bill EXCEPT ![j] = cleared(j)])
      BY <2>2 DEF Unpay
    <3> HIDE DEF j, marked, cleared, priced
    <3> QED BY <1>2, <3>1 DEF Bills
  <2>3. CASE Correct(d)
    <3> DEFINE j == One(r)
    <3>1. bill' = bill \/ (bill[j] # None /\ bill' = [bill EXCEPT ![j] = priced(j, r.fee)])
      BY <2>3 DEF Correct, Correctable, Unpaid, Refuse, billingRows
    <3> HIDE DEF j, marked, cleared, priced
    <3> QED BY <1>2, <3>1 DEF Bills
  <2>4. CASE CorrectMany(d)
    <3> DEFINE matches(j) == /\ j \in r.ids /\ Unpaid(j)
                             /\ bill[j].month = r.month /\ bill[j].amount = r.fee
    <3>1. bill' = [j \in Ids |-> IF matches(j) THEN priced(j, r.override) ELSE bill[j]]
      BY <2>4 DEF CorrectMany
    <3>2. matches(i) => bill[i] # None
      BY DEF Unpaid
    <3> HIDE DEF matches, marked, cleared, priced
    <3> QED BY <3>1, <3>2
  <2>5. CASE Override(d)
    BY <2>5 DEF Override, Refuse, billingRows
  <2> QED BY <2>1, <2>2, <2>3, <2>4, <2>5
<1> HIDE DEF marked, cleared, priced
<1>5. ASSUME NEW i \in Ids
      PROVE  \/ bill'[i] = None
             \/ bill[i] # None /\ bill'[i].currency = bill[i].currency
  BY <1>3, <1>4
<1> QED BY <1>1, <1>5 DEF BillsInKind

LEMMA StudentsInKind ==
    ASSUME BillingTypeOK, NEW d \in Desks, desk[d] # None,
           desk[d].read.setting = setting, Status(d) \/ Create(d) \/ Remove(d) \/ View(d)
    PROVE  BillsInKind /\ UNCHANGED <<setting, expense>>
<1> DEFINE r == desk[d].request
           set == desk[d].read.setting
           dropped == Dropped(r.student)
<1>1. UNCHANGED <<setting, expense>>
  BY DEF Status, Create, Remove, View, Refuse, billingRows
<1>2. r.student \in Pupils /\ bill \in Bills
  BY DeskTypes DEF BillingTypeOK, Bills
<1>3. dropped \in Bills /\ \A i \in Ids : dropped[i] # None => dropped[i] = bill[i]
  BY <1>2, DroppedBills
<1>4. CASE Status(d) \/ Create(d)
  <2>1. bill' = bill \/ bill' = dropped \/ bill' = Ensured(bill, pupil', set)
    BY <1>4 DEF Status, Create, Refuse, billingRows
  <2>2. CASE bill' = bill \/ bill' = dropped
    BY <1>1, <1>3, <2>2 DEF BillsInKind
  <2>3. CASE bill' = Ensured(bill, pupil', set)
    <3>1. \A i \in Ids : bill'[i] = bill[i] \/ bill'[i].currency = set.currency
      <4> DEFINE after == pupil'
      <4>1. bill' = Ensured(bill, after, set)
        BY <2>3
      <4> HIDE DEF after, set
      <4> QED BY <4>1, EnsuredCurrency
    <3> QED BY <1>1, <3>1 DEF BillsInKind
  <2> QED BY <2>1, <2>2, <2>3
<1>5. CASE Remove(d)
  <2>1. bill' = [i \in Ids |-> IF dropped[i] # None /\ dropped[i].student = r.student
                               THEN [dropped[i] EXCEPT !.linked = FALSE] ELSE dropped[i]]
    BY <1>5 DEF Remove
  <2> HIDE DEF dropped, r
  <2>2. ASSUME NEW i \in Ids, dropped[i] # None
        PROVE  [dropped[i] EXCEPT !.linked = FALSE].currency = dropped[i].currency
    <3>1. dropped[i] \in Bill
      BY <1>3, <2>2 DEF Bills
    <3> QED BY <3>1 DEF Bill
  <2>3. \A i \in Ids : \/ bill'[i] = None
                       \/ dropped[i] # None /\ bill'[i].currency = dropped[i].currency
    BY <2>1, <2>2
  <2> QED BY <1>1, <1>3, <2>3 DEF BillsInKind
<1>6. CASE View(d)
  <2> DEFINE now == Together(bill, pupil, desk[d].read.left, r.month)
             new == Missing(bill, pupil, now, r.month)
  <2>1. bill' = Appended(bill, new, r.month, desk[d].read.pupil, set)
    BY <1>6 DEF View
  <2>2. \A i \in Ids : bill'[i] = bill[i] \/ bill'[i].currency = set.currency
    <3> HIDE DEF new, r, set
    <3> QED BY <2>1, AppendedCurrency
  <2> QED BY <1>1, <2>2 DEF BillsInKind
<1> QED BY <1>1, <1>4, <1>5, <1>6

\* What is there is in the old currency, and when that changes nothing is there.
LEMMA SettingsInKind ==
    ASSUME BillingTypeOK, NEW d \in Desks, desk[d] # None,
           CurrencyHeld(desk[d].request, desk[d].read),
           AllIn(bill, expense, setting.currency), Settings(d)
    PROVE  AllIn(bill, expense, setting.currency)'
<1> DEFINE r == desk[d].request
           was == desk[d].read.setting
<1>1. /\ r.op = "settings" /\ UNCHANGED expense
      /\ bill' = bill \/ bill' = Ensured(bill, pupil, r.set)
      /\ setting' = [field \in DOMAIN setting |->
             IF r.set[field] # was[field] THEN r.set[field] ELSE setting[field]]
  BY DEF Settings
<1>2. was = setting /\ (r.set.currency # setting.currency => NothingInCurrency)
  BY <1>1 DEF CurrencyHeld
<1>3. setting'.currency = r.set.currency
  <2>1. "currency" \in DOMAIN setting
    BY DEF BillingTypeOK, Setting
  <2> QED BY <1>1, <1>2, <2>1
<1> HIDE DEF r
<1>4. \A i \in Ids : bill'[i] = bill[i] \/ bill'[i].currency = r.set.currency
  BY <1>1, EnsuredCurrency
<1>5. CASE r.set.currency = setting.currency
  BY <1>1, <1>3, <1>4, <1>5 DEF AllIn
<1>6. CASE NothingInCurrency
  BY <1>1, <1>3, <1>4, <1>6 DEF AllIn, NothingInCurrency, Used
<1> QED BY <1>2, <1>5, <1>6

LEMMA ExpensesInKind ==
    ASSUME BillingTypeOK, NEW d \in Desks, desk[d] # None,
           desk[d].read.setting = setting,
           AllIn(bill, expense, setting.currency), Spend(d) \/ Unspend(d)
    PROVE  AllIn(bill, expense, setting.currency)'
<1> DEFINE e == desk[d].request.expense
<1>1. /\ UNCHANGED <<setting, bill>> /\ expense \in [Expenses -> Expense \cup {None}]
  BY DEF Spend, Unspend, BillingTypeOK
<1>2. CASE Spend(d)
  <2> DEFINE new == [currency |-> setting.currency, deleted |-> FALSE]
  <2>1. expense' = [expense EXCEPT ![e] = new] /\ new.currency = setting.currency
    BY <1>2 DEF Spend
  <2> HIDE DEF new, e
  <2>2. \A x \in Expenses : expense'[x] = expense[x] \/ expense'[x].currency = setting.currency
    BY <1>1, <2>1
  <2> QED BY <1>1, <2>2 DEF AllIn
<1>3. CASE Unspend(d)
  <2> DEFINE row == [expense[e] EXCEPT !.deleted = TRUE]
  <2>1. \/ expense' = expense
        \/ expense[e] # None /\ expense' = [expense EXCEPT ![e] = row]
    BY <1>3 DEF Unspend
  <2>2. e \in Expenses /\ expense[e] # None => row.currency = expense[e].currency
    <3>1. e \in Expenses /\ expense[e] # None => expense[e] \in Expense
      BY <1>1
    <3> QED BY <3>1 DEF Expense
  <2> HIDE DEF row, e
  <2>3. \A x \in Expenses : \/ expense'[x] = expense[x]
                            \/ expense[x] # None /\ expense'[x].currency = expense[x].currency
    BY <1>1, <2>1, <2>2
  <2> QED BY <1>1, <2>3 DEF AllIn
<1> QED BY <1>2, <1>3

LEMMA FinishInKind ==
    ASSUME OneDesk, BillingTypeOK, CurrencyInvariant, NEW d \in Desks, Finish(d)
    PROVE  CurrencyInvariant'
<1>1. desk[d] # None /\ GoesOn(d)
  BY FinishSafe DEF Finish
<1>2. CurrencyHeld(desk[d].request, desk[d].read)
  BY <1>1 DEF CurrencyInvariant, DesksHold
<1>3. desk[d].read.setting = setting /\ AllIn(bill, expense, setting.currency)
  BY <1>2 DEF CurrencyHeld, CurrencyInvariant
<1>4. DesksHold'
  <2>1. PICK next : /\ desk' = [desk EXCEPT ![d] = next]
                    /\ next # None => /\ next.request.op = "view"
                                      /\ next.read.setting = desk[d].read.setting
    BY <1>1 DEF GoesOn
  <2>2. desk'[d] = next /\ \A e \in Desks \ {d} : desk'[e] = None
    BY <1>1, <2>1 DEF BillingTypeOK, OneDesk
  <2>3. next # None => UNCHANGED setting
    <3>1. CASE View(d)
      BY <3>1 DEF View
    <3>2. CASE Serve(d)
      BY <2>2, <3>2 DEF Serve, BillingTypeOK
    <3> QED BY <3>1, <3>2, ViewedOrServed
  <2> QED BY <1>3, <2>1, <2>2, <2>3 DEF DesksHold, CurrencyHeld
<1>5. ASSUME BillsInKind, UNCHANGED <<setting, expense>>
      PROVE  AllIn(bill, expense, setting.currency)'
  BY <1>3, <1>5 DEF AllIn, BillsInKind
<1>6. AllIn(bill, expense, setting.currency)'
  BY <1>1, <1>2, <1>3, <1>5, PaymentsInKind, StudentsInKind, SettingsInKind, ExpensesInKind
     DEF Finish
<1> QED BY <1>4, <1>6 DEF CurrencyInvariant

\* Of requests that come one at a time, none leaves a bill or an expense in a
\* currency that is not the center's (update_settings and
\* update_tahfiz_settings against what makes bills and expenses).
THEOREM OneCurrencyAtATime == BillingSpec => CurrencyOneByOne
<1>1. BillingInit => CurrencyInvariant
  BY DEF BillingInit, CurrencyInvariant, AllIn, DesksHold
<1>2. BillingTypeOK /\ CurrencyInvariant /\ OneDesk /\ [BillingNext]_billingVars
        => CurrencyInvariant'
  <2> SUFFICES ASSUME BillingTypeOK, CurrencyInvariant, OneDesk, [BillingNext]_billingVars
               PROVE  CurrencyInvariant'
    OBVIOUS
  <2>1. CASE \E d \in Desks, r \in DeskRequest : Queue(d, r)
    <3>1. PICK d \in Desks, r \in DeskRequest : Queue(d, r)
      BY <2>1
    <3>2. /\ UNCHANGED <<setting, bill, expense>> /\ DeskFound(r)
          /\ desk'[d].request = r /\ desk'[d].read.setting = setting
          /\ \A e \in Desks \ {d} : desk'[e] = desk[e]
      BY <3>1 DEF Queue, billingRows, BillingTypeOK
    <3>3. r.op = "settings" /\ r.set.currency # setting.currency => NothingInCurrency
      BY <3>2 DEF DeskFound, MaySet
    <3>4. DesksHold'
      BY <3>2, <3>3 DEF CurrencyInvariant, DesksHold, CurrencyHeld, NothingInCurrency, Used
    <3> QED BY <3>2, <3>4 DEF CurrencyInvariant, AllIn
  <2>2. CASE \E d \in Desks : Finish(d)
    BY <2>2, FinishInKind
  <2>3. CASE UNCHANGED <<setting, bill, expense, desk>>
    BY <2>3 DEF CurrencyInvariant, AllIn, DesksHold, CurrencyHeld, NothingInCurrency, Used
  <2>4. NewMonth \/ UNCHANGED billingVars => UNCHANGED <<setting, bill, expense, desk>>
    BY DEF NewMonth, billingVars, billingRows
  <2> QED BY <2>1, <2>2, <2>3, <2>4 DEF BillingNext
<1>3. CurrencyInvariant => OneCurrency
  BY DEF CurrencyInvariant, AllIn, OneCurrency, Used
<1> QED BY <1>1, <1>2, <1>3, BillingStart, BillingStep, PTL DEF BillingSpec, CurrencyOneByOne
=============================================================================
