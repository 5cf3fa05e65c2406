-------------------------- MODULE MobileSync_proofs --------------------------
(***************************************************************************)
(* Proofs about MobileSync, for any devices, scopes, students, mutations,      *)
(* overlapping attempts and page size, and a log of any length: mutations are   *)
(* applied once, and copies are as new as the cursors they come with.          *)
(***************************************************************************)
EXTENDS MobileSync, FiniteSetTheorems, FunctionTheorems, SequenceTheorems, TLAPS

\* Of a mutation the attempt is working on it has read the receipt, and its device
\* is told what the receipts say.
AttemptsOK ==
    \A a \in Attempts : attempt[a] # None =>
        /\ attempt[a].phase \in {"loaded", "compared"} => attempt[a].first \in attempt[a].batch
        /\ attempt[a].phase = "answered" =>
              \A m \in attempt[a].batch :
                  /\ receipt[m] # None
                  /\ attempt[a].result[m] = receipt[m]

\* The log has every change of every item once, in its order, up to the present
\* state; a row that is gone has nothing left.
LogOK ==
    /\ \A k \in 1 .. Len(log) :
          /\ log[k].stamp <= row[log[k].item].stamp
          /\ log[k].stamp = row[log[k].item].stamp => log[k].there = row[log[k].item].there
    /\ \A j, k \in 1 .. Len(log) :
          j < k /\ log[j].item = log[k].item => log[j].stamp < log[k].stamp
    /\ \A i \in Items :
          /\ ~row[i].there => row[i].revision = 0
          /\ row[i].stamp > 0 =>
                \E k \in 1 .. Len(log) : log[k].item = i /\ log[k].stamp = row[i].stamp

\* No change of an item up to the n-th entry is newer than r.
Covers(r, i, n) == \A k \in 1 .. n : log[k].item = i => log[k].stamp <= r.stamp

\* If r is the item's present state, it is what the device may see of it.
AsShown(d, i, r) == r.stamp = row[i].stamp => r = Shown(d, i)

Tables(n) == {Kinds[k] : k \in 1 .. n}

\* Where a device stands, and which rows it has read.
PlaceOK(d) ==
    LET v == device[d]
    IN /\ v.phase = "new" <=> v.resets = 0
       /\ v.cursor <= Len(log)
       /\ v.phase = "paging" => v.cursor < v.upto /\ v.upto <= Len(log)
       /\ v.phase = "idle" => v.got = NoCopies
       /\ v.phase = "reading" => \A i \in Items : i.kind \in Tables(v.next) => v.got[i] # None
       /\ \A i \in Items : /\ v.copy[i].stamp <= row[i].stamp
                           /\ v.got[i] # None => v.got[i].stamp <= row[i].stamp

\* A device that has a copy; one that takes its first bootstrap has none.
HasCopy(d) == \/ device[d].phase \in {"idle", "paging"}
              \/ device[d].phase = "reading" /\ device[d].resets > 1

\* What a device has, and what the page it is being sent has.
CopyOK(d) ==
    HasCopy(d) => \A i \in Items \ missed[d] :
                     /\ Covers(device[d].copy[i], i, device[d].cursor)
                     /\ AsShown(d, i, device[d].copy[i])
PageOK(d) ==
    device[d].phase = "paging" =>
        \A i \in Items : device[d].got[i] # None =>
            /\ Covers(device[d].got[i], i, device[d].upto)
            /\ i \notin missed[d] => AsShown(d, i, device[d].got[i])

DevicesOK == \A d \in Devices : PlaceOK(d) /\ CopyOK(d) /\ PageOK(d)
SyncInvariant ==
    /\ TypeOK
    /\ AttemptsOK /\ MutationOnce /\ ToldTheTruth
    /\ LogOK /\ DevicesOK

\* A device at the end of the log has what it may see, but for what it missed.
CurrentAtTheEnd ==
    \A d \in Devices :
        HasCopy(d) /\ device[d].cursor = Len(log) =>
            \A i \in Items \ missed[d] : device[d].copy[i] = Shown(d, i)

-----------------------------------------------------------------------------
(* Lemmas about sets and sequences.                                            *)

\* SetToSeq lists every element of a finite set once.
LEMMA ListedOnce ==
    ASSUME NEW D, IsFiniteSet(D)
    PROVE  /\ Cardinality(D) \in Nat
           /\ SetToSeq(D) \in [1 .. Cardinality(D) -> D]
           /\ \A j, k \in 1 .. Cardinality(D) : SetToSeq(D)[j] = SetToSeq(D)[k] => j = k
           /\ \A i \in D : \E k \in 1 .. Cardinality(D) : SetToSeq(D)[k] = i
<1> DEFINE n == Cardinality(D)
<1>1. n \in Nat /\ ExistsBijection(1 .. n, D)
    BY FS_CardinalityType
<1>2. PICK f \in Bijection(1 .. n, D) : TRUE
    BY <1>1 DEF ExistsBijection
<1>3. f \in [1 .. n -> D] /\ \A j, k \in 1 .. n : f[j] = f[k] => j = k
    BY <1>2, Fun_BijectionProperties
<1>4. f \in [1 .. n -> D] /\ IsInjective(f)
    BY <1>3 DEF IsInjective
<1>5. SetToSeq(D) \in [1 .. n -> D] /\ IsInjective(SetToSeq(D))
    BY <1>4 DEF SetToSeq
<1>6. \A j, k \in 1 .. n : SetToSeq(D)[j] = SetToSeq(D)[k] => j = k
    BY <1>5 DEF IsInjective
<1>7. SetToSeq(D) \in Injection(1 .. n, D)
    BY <1>5, <1>6, Fun_IsInj
<1>8. IsFiniteSet(1 .. n) /\ Cardinality(1 .. n) = n
    BY <1>1, FS_Interval
<1>9. SetToSeq(D) \in Surjection(1 .. n, D)
    BY <1>7, <1>8, FS_Injection
<1>10. \A i \in D : \E k \in 1 .. n : SetToSeq(D)[k] = i
    BY <1>9 DEF Surjection
<1> QED BY <1>1, <1>5, <1>6, <1>10

\* A set of numbers that is bounded has a largest one.
LEMMA LargestNumber ==
    ASSUME NEW S \in SUBSET Nat, S # {}, NEW b \in Nat, \A n \in S : n <= b
    PROVE  \E n \in S : \A m \in S : m <= n
<1> DEFINE above(k) == {x \in S : k < x}
           T == {above(k) : k \in S}
           R == StrictSubsetOrdering(S)
<1>1. IsFiniteSet(S)
    BY FS_BoundedSetOfNaturals
<1>2. T \subseteq SUBSET S /\ T # {}
    OBVIOUS
<1>3. IsWellFoundedOn(R, SUBSET S)
    BY <1>1, FS_FiniteSubsetsOfFinite, FS_StrictSubsetOrderingWellFounded
<1>4. PICK least \in T : \A U \in T : ~ (<<U, least>> \in R)
    <2> HIDE DEF T, R
    <2> QED BY <1>2, <1>3, WFMin
<1>5. PICK n \in S : least = above(n)
    OBVIOUS
<1>6. ASSUME NEW k \in S, n < k
      PROVE  FALSE
    <2>1. above(k) \subseteq above(n) /\ above(k) # above(n)
        <3>1. k \in above(n) /\ k \notin above(k)
            BY <1>6
        <3>2. \A x \in S : k < x => n < x
            BY <1>6
        <3> QED BY <3>1, <3>2
    <2>2. above(k) \in T /\ above(k) \subseteq S /\ above(n) \subseteq S
        OBVIOUS
    <2>3. <<above(k), above(n)>> \in R
        <3> HIDE DEF above
        <3> QED BY <2>1, <2>2 DEF StrictSubsetOrdering
    <2> QED BY <1>4, <1>5, <2>2, <2>3
<1> QED BY <1>6

-----------------------------------------------------------------------------
(* Mutations.                                                                  *)

\* What WriteBatch does to the receipts: those that were there stay, and every
\* mutation of the batch has one in the end.
LEMMA BatchReceipts ==
    ASSUME TypeOK, AttemptsOK, NEW a \in Attempts, WriteBatch(a)
    PROVE  /\ \A m \in Mutations : receipt[m] # None => receipt'[m] = receipt[m]
           /\ \A m \in attempt[a].batch : /\ receipt'[m] # None
                                          /\ attempt'[a].result[m] = receipt'[m]
           /\ \A m \in Mutations : receipt[m] = None =>
                 applied'[m] = applied[m] + IF receipt'[m] = "applied" THEN 1 ELSE 0
           /\ \A m \in Mutations : receipt[m] # None => applied'[m] = applied[m]
           /\ attempt' = [attempt EXCEPT ![a] = attempt'[a]]
           /\ attempt'[a].batch = attempt[a].batch /\ attempt'[a] # None
           /\ attempt'[a].phase = "answered"
           /\ UNCHANGED answer
<1> DEFINE at == attempt[a]
           runs == {m \in at.batch : receipt[m] = None \/ m = at.first}
           done == {m \in runs : Result(a, m) = "applied"}
           result == [m \in Mutations |-> IF m \in runs THEN Result(a, m)
                                          ELSE IF m \in at.batch THEN Replay(m) ELSE None]
<1>1. /\ at # None /\ at.phase = "compared" /\ ReceiptFree(at.first)
      /\ receipt' = [m \in Mutations |-> IF m \in runs THEN result[m] ELSE receipt[m]]
      /\ applied' = [m \in Mutations |-> applied[m] + IF m \in done THEN 1 ELSE 0]
      /\ attempt' = [attempt EXCEPT ![a].phase = "answered", ![a].result = result]
      /\ UNCHANGED answer
    BY DEF WriteBatch, Applicable
<1>2. /\ at \in Attempt /\ at.batch \subseteq Mutations /\ at.first \in at.batch
      /\ DOMAIN attempt = Attempts
    BY <1>1 DEF TypeOK, Attempt, AttemptsOK
<1>3. \A m \in runs : receipt[m] = None
    BY <1>1 DEF ReceiptFree
<1>4. \A m \in runs : Result(a, m) \in Results
    BY DEF Result, Results
<1>5. \A m \in at.batch : /\ result[m] = IF m \in runs THEN Result(a, m) ELSE receipt[m]
                          /\ receipt'[m] = result[m]
    BY <1>1, <1>2 DEF Replay
<1>6. /\ attempt'[a] = [at EXCEPT !.phase = "answered", !.result = result]
      /\ attempt' = [attempt EXCEPT ![a] = attempt'[a]]
    BY <1>1, <1>2
<1>7. /\ attempt'[a].batch = at.batch /\ attempt'[a].phase = "answered"
      /\ attempt'[a].result = result
    BY <1>2, <1>6 DEF Attempt
<1>8. attempt'[a] # None
    <2>1. attempt'[a] \in [phase : {"answered"}, batch : SUBSET Mutations,
                first : Mutations \cup {None}, known : BOOLEAN, open : BOOLEAN,
                tracked : BOOLEAN, row : Row, result : [Mutations -> Results \cup {None}]]
        <3>1. result \in [Mutations -> Results \cup {None}]
            BY <1>4 DEF TypeOK, Replay
        <3> HIDE DEF result
        <3> QED BY <1>2, <1>6, <3>1 DEF Attempt
    <2> QED BY <2>1, NoneAssumption DEF Attempt
<1>9. \A m \in Mutations : /\ receipt[m] # None => receipt'[m] = receipt[m]
                           /\ receipt[m] # None => applied'[m] = applied[m]
    <2>1. ASSUME NEW m \in Mutations, receipt[m] # None
          PROVE  receipt'[m] = receipt[m] /\ applied'[m] = applied[m]
        <3>1. m \notin runs
            BY <1>3, <2>1
        <3> QED BY <1>1, <3>1 DEF TypeOK
    <2> QED BY <2>1
<1>10. ASSUME NEW m \in Mutations, receipt[m] = None
       PROVE  applied'[m] = applied[m] + IF receipt'[m] = "applied" THEN 1 ELSE 0
    <2>1. CASE m \in runs
        BY <1>1, <1>5, <2>1
    <2>2. CASE m \notin runs
        <3>1. receipt'[m] = None
            BY <1>1, <1>10, <2>2
        <3>2. None # "applied"
            BY NoneAssumption DEF Results
        <3> QED BY <1>1, <2>2, <3>1, <3>2
    <2> QED BY <2>1, <2>2
<1>11. \A m \in at.batch : receipt'[m] # None
    BY <1>2, <1>4, <1>5, NoneAssumption
<1> HIDE DEF runs, result
<1> QED BY <1>1, <1>5, <1>6, <1>7, <1>8, <1>9, <1>10, <1>11

\* Receipts are final: an attempt that has read or written some, and a device that
\* was told, agree with them from then on.
LEMMA MutationsStep ==
    ASSUME TypeOK, AttemptsOK, MutationOnce, ToldTheTruth, [Next]_vars
    PROVE  AttemptsOK' /\ MutationOnce' /\ ToldTheTruth'
<1>1. ASSUME UNCHANGED <<attempt, receipt, applied, answer>>
      PROVE  AttemptsOK' /\ MutationOnce' /\ ToldTheTruth'
    BY <1>1 DEF AttemptsOK, MutationOnce, ToldTheTruth
<1>2. ASSUME NEW a \in Attempts, UNCHANGED <<receipt, applied, answer>>,
             attempt' = [attempt EXCEPT ![a] = attempt'[a]],
             attempt'[a] # None =>
                /\ attempt'[a].phase \in {"loaded", "compared"} =>
                      attempt'[a].first \in attempt'[a].batch
                /\ attempt'[a].phase = "answered" =>
                      \A m \in attempt'[a].batch :
                          receipt[m] # None /\ attempt'[a].result[m] = receipt[m]
      PROVE  AttemptsOK' /\ MutationOnce' /\ ToldTheTruth'
    <2>1. \A b \in Attempts \ {a} : attempt'[b] = attempt[b]
        BY <1>2 DEF TypeOK
    <2> QED BY <1>2, <2>1 DEF AttemptsOK, MutationOnce, ToldTheTruth
<1>3. CASE Synchronize
    BY <1>1, <1>3 DEF Synchronize, StartBootstrap, Poll, ReadTable, FinishBootstrap, StartPage,
       FinishPage, ReadPayload, LoseAnswer, tables
<1>4. CASE Application
    BY <1>1, <1>4 DEF Application, Write, Delete, SwitchSession, Assign, Unchanged
<1>5. ASSUME NEW m \in Mutations, Queue(m)
      PROVE  AttemptsOK' /\ MutationOnce' /\ ToldTheTruth'
    BY <1>1, <1>5 DEF Queue, tables
<1>6. ASSUME NEW a \in Attempts, NEW B \in SUBSET Mutations, Send(a, B)
      PROVE  AttemptsOK' /\ MutationOnce' /\ ToldTheTruth'
    BY <1>2, <1>6 DEF Send, tables, TypeOK
<1>7. ASSUME NEW a \in Attempts, Load(a)
      PROVE  AttemptsOK' /\ MutationOnce' /\ ToldTheTruth'
    <2>1. attempt[a] # None /\ attempt[a] \in Attempt /\ DOMAIN attempt = Attempts
        BY <1>7 DEF Load, TypeOK
    <2>2. CASE \E m \in attempt[a].batch :
                  attempt' = [attempt EXCEPT
                      ![a].phase = "loaded", ![a].first = m, ![a].known = Known(m),
                      ![a].open = open, ![a].tracked = tracked]
        <3>1. attempt'[a].phase = "loaded" /\ attempt'[a].first \in attempt'[a].batch
            BY <2>1, <2>2 DEF Attempt
        <3>2. attempt' = [attempt EXCEPT ![a] = attempt'[a]]
            BY <2>1, <2>2
        <3> QED BY <1>2, <1>7, <3>1, <3>2 DEF Load, tables
    <2>3. CASE /\ \A m \in attempt[a].batch : receipt[m] # None
               /\ attempt' = [attempt EXCEPT
                      ![a].phase = "answered",
                      ![a].result = [m \in Mutations |->
                          IF m \in attempt[a].batch THEN Replay(m) ELSE None]]
        <3>1. /\ attempt'[a].phase = "answered" /\ attempt'[a].batch = attempt[a].batch
              /\ \A m \in attempt'[a].batch : attempt'[a].result[m] = receipt[m]
            BY <2>1, <2>3 DEF Attempt, Replay
        <3>2. attempt' = [attempt EXCEPT ![a] = attempt'[a]]
            BY <2>1, <2>3
        <3> QED BY <1>2, <1>7, <2>3, <3>1, <3>2 DEF Load, tables
    <2> QED BY <1>7, <2>2, <2>3 DEF Load
<1>8. ASSUME NEW a \in Attempts, Compare(a)
      PROVE  AttemptsOK' /\ MutationOnce' /\ ToldTheTruth'
    <2>1. attempt[a] # None /\ attempt[a] \in Attempt /\ DOMAIN attempt = Attempts
        BY <1>8 DEF Compare, TypeOK
    <2>2. /\ attempt'[a].phase = "compared" /\ attempt'[a].batch = attempt[a].batch
          /\ attempt'[a].first = attempt[a].first
          /\ attempt' = [attempt EXCEPT ![a] = attempt'[a]]
        BY <1>8, <2>1 DEF Compare, Attempt
    <2>3. attempt[a].first \in attempt[a].batch
        BY <1>8 DEF Compare, AttemptsOK
    <2> QED BY <1>2, <1>8, <2>2, <2>3 DEF Compare, tables
<1>9. ASSUME NEW a \in Attempts, WriteBatch(a)
      PROVE  AttemptsOK' /\ MutationOnce' /\ ToldTheTruth'
    <2>1. \A b \in Attempts \ {a} : attempt'[b] = attempt[b]
        BY <1>9, BatchReceipts DEF TypeOK
    <2>2. \A b \in Attempts : attempt[b] # None => attempt[b].batch \subseteq Mutations
        BY DEF TypeOK, Attempt
    <2>3. AttemptsOK'
        BY <1>9, <2>1, <2>2, BatchReceipts DEF AttemptsOK
    <2>4. ToldTheTruth'
        BY <1>9, BatchReceipts DEF ToldTheTruth
    <2>5. MutationOnce'
        <3>1. ASSUME NEW m \in Mutations
              PROVE  applied'[m] = IF receipt'[m] = "applied" THEN 1 ELSE 0
            <4>1. CASE receipt[m] # None
                BY <1>9, <4>1, BatchReceipts DEF MutationOnce
            <4>2. CASE receipt[m] = None
                <5>1. None # "applied"
                    BY NoneAssumption DEF Results
                <5>2. applied[m] = 0
                    BY <4>2, <5>1 DEF MutationOnce
                <5> QED BY <1>9, <4>2, <5>2, BatchReceipts
            <4> QED BY <4>1, <4>2
        <3> QED BY <3>1 DEF MutationOnce
    <2> QED BY <2>3, <2>4, <2>5
<1>10. ASSUME NEW a \in Attempts, RollBack(a) \/ Lose(a)
       PROVE  AttemptsOK' /\ MutationOnce' /\ ToldTheTruth'
    <2>1. attempt'[a] = None /\ attempt' = [attempt EXCEPT ![a] = attempt'[a]]
        BY <1>10 DEF RollBack, Lose, TypeOK
    <2> QED BY <1>2, <1>10, <2>1 DEF RollBack, Lose, tables
<1>11. ASSUME NEW a \in Attempts, Deliver(a)
       PROVE  AttemptsOK' /\ MutationOnce' /\ ToldTheTruth'
    <2>1. /\ attempt[a] # None /\ attempt[a].phase = "answered"
          /\ attempt' = [attempt EXCEPT ![a] = None]
          /\ answer' = [m \in Mutations |-> IF m \in attempt[a].batch
                                            THEN attempt[a].result[m] ELSE answer[m]]
          /\ UNCHANGED <<receipt, applied>>
        BY <1>11 DEF Deliver, tables
    <2>2. attempt'[a] = None /\ \A b \in Attempts \ {a} : attempt'[b] = attempt[b]
        BY <2>1 DEF TypeOK
    <2>3. AttemptsOK' /\ MutationOnce'
        BY <2>1, <2>2 DEF AttemptsOK, MutationOnce
    <2>4. ToldTheTruth'
        BY <2>1 DEF AttemptsOK, ToldTheTruth
    <2> QED BY <2>3, <2>4
<1>12. CASE UNCHANGED vars
    BY <1>1, <1>12 DEF vars, tables
<1> QED
    BY <1>3, <1>4, <1>5, <1>6, <1>7, <1>8, <1>9, <1>10, <1>11, <1>12 DEF Next, Mutate

-----------------------------------------------------------------------------
(* Writes.                                                                     *)

LEMMA FiniteItems == IsFiniteSet(Items)
<1> DEFINE of(kind) == {[kind |-> kind, student |-> s] : s \in Students}
<1>1. ASSUME NEW kind PROVE IsFiniteSet(of(kind))
    <2> DEFINE f == [s \in Students |-> [kind |-> kind, student |-> s]]
    <2>1. f \in [Students -> of(kind)] /\ \A t \in of(kind) : \E s \in Students : f[s] = t
        OBVIOUS
    <2>2. f \in Surjection(Students, of(kind))
        <3> HIDE DEF f, of
        <3> QED BY <2>1, Fun_IsSurj
    <2> HIDE DEF f, of
    <2> QED BY <2>2, StudentsAssumption, FS_Surjection
<1>2. Items = (({TheSession} \cup of("student")) \cup of("attendance")) \cup of("progress")
    BY DEF Items
<1>3. IsFiniteSet({TheSession})
    BY FS_Singleton
<1> HIDE DEF of
<1> QED BY <1>1, <1>2, <1>3, FS_Union

\* The log is continued, and a row that changes gets a new stamp.
Continued ==
    /\ Len(log) <= Len(log')
    /\ \A k \in 1 .. Len(log) : log'[k] = log[k]
    /\ \A i \in Items : row'[i] = row[i] \/ row'[i].stamp > row[i].stamp

\* Whatever is committed: the triggers keep the log complete and in order.
LEMMA CommitKeepsLog ==
    ASSUME TypeOK, LogOK, NEW new, DOMAIN new \subseteq Items,
           \A i \in DOMAIN new : /\ new[i] \in Row
                                 /\ new[i].stamp = row[i].stamp + 1
                                 /\ ~new[i].there => new[i].revision = 0,
           Commit(new)
    PROVE  /\ row' \in [Items -> Row] /\ log' \in Seq(Entry)
           /\ LogOK' /\ Continued
<1> DEFINE D == DOMAIN new
           n == Cardinality(D)
           order == SetToSeq(D)
           added == [k \in 1 .. n |-> [item |-> order[k], there |-> new[order[k]].there,
                                       stamp |-> new[order[k]].stamp]]
           len == Len(log)
<1>1. IsFiniteSet(D)
    BY FiniteItems, FS_Subset
<1>2. /\ n \in Nat /\ order \in [1 .. n -> D]
      /\ \A j, k \in 1 .. n : order[j] = order[k] => j = k
      /\ \A i \in D : \E k \in 1 .. n : order[k] = i
    BY <1>1, ListedOnce
<1>3. /\ row' = [i \in Items |-> IF i \in D THEN new[i] ELSE row[i]]
      /\ log' = log \o added
    <2>1. DOMAIN order = 1 .. n
        BY <1>2
    <2> QED BY <2>1 DEF Commit, Logged
<1>4. /\ row \in [Items -> Row] /\ log \in Seq(Entry) /\ len \in Nat
      /\ \A k \in 1 .. len : log[k] \in Entry
    BY LenProperties DEF TypeOK
<1>5. added \in Seq(Entry) /\ Len(added) = n
    <2>1. \A k \in 1 .. n : added[k] \in Entry
        BY <1>2 DEF Entry, Row
    <2> HIDE DEF n, order
    <2>2. added \in [1 .. n -> Entry]
        BY <2>1
    <2> HIDE DEF added
    <2> QED BY <1>2, <2>2
<1> HIDE DEF D, n, order
<1>6. \A k \in 1 .. n : /\ added[k].item = order[k] /\ added[k].item \in D
                        /\ added[k].there = new[added[k].item].there
                        /\ added[k].stamp = new[added[k].item].stamp
    BY <1>2
<1> HIDE DEF added
<1>7. /\ log' \in Seq(Entry) /\ Len(log') = len + n
      /\ \A k \in 1 .. len : log'[k] = log[k]
      /\ \A k \in len + 1 .. len + n : k - len \in 1 .. n /\ log'[k] = added[k - len]
    <2>1. /\ log \o added \in Seq(Entry) /\ Len(log \o added) = len + n
          /\ \A k \in 1 .. len + n :
                (log \o added)[k] = IF k <= len THEN log[k] ELSE added[k - len]
        BY <1>4, <1>5, ConcatProperties
    <2>2. log' = log \o added
        BY <1>3
    <2>3. \A k \in 1 .. len : k \in 1 .. len + n /\ k <= len
        BY <1>2, <1>4
    <2>4. \A k \in len + 1 .. len + n : k - len \in 1 .. n /\ k \in 1 .. len + n /\ ~(k <= len)
        BY <1>2, <1>4
    <2> HIDE DEF len
    <2> QED BY <2>1, <2>2, <2>3, <2>4
<1>8. row' \in [Items -> Row]
    BY <1>3, <1>4 DEF D
<1>9. \A i \in Items : /\ i \in D => row'[i] = new[i] /\ row'[i].stamp = row[i].stamp + 1
                       /\ i \notin D => row'[i] = row[i]
                       /\ row[i].stamp \in Nat /\ row'[i].stamp \in Nat
    BY <1>3, <1>4, <1>8 DEF D, Row
<1>10. Continued
    BY <1>2, <1>4, <1>7, <1>9 DEF Continued
<1>11. \A k \in 1 .. len : log[k].item \in Items /\ log[k].stamp \in Nat
    BY <1>4 DEF Entry
<1>12. ASSUME NEW k \in 1 .. Len(log')
       PROVE  /\ log'[k].stamp <= row'[log'[k].item].stamp
              /\ log'[k].stamp = row'[log'[k].item].stamp =>
                    log'[k].there = row'[log'[k].item].there
    <2>1. CASE k \in 1 .. len
        <3>1. log'[k] = log[k] /\ log[k].item \in Items /\ log[k].stamp \in Nat
            BY <1>7, <1>11, <2>1
        <3>2. /\ log[k].stamp <= row[log[k].item].stamp
              /\ log[k].stamp = row[log[k].item].stamp =>
                    log[k].there = row[log[k].item].there
            BY <2>1 DEF LogOK
        <3>3. CASE log[k].item \in D
            <4>1. row'[log[k].item].stamp = row[log[k].item].stamp + 1
                BY <1>9, <3>1, <3>3
            <4> QED BY <1>9, <3>1, <3>2, <4>1
        <3>4. CASE log[k].item \notin D
            BY <1>9, <3>1, <3>2, <3>4
        <3> QED BY <3>3, <3>4
    <2>2. CASE k \in len + 1 .. len + n
        <3>1. k - len \in 1 .. n /\ log'[k] = added[k - len]
            BY <1>7, <2>2
        <3>2. /\ log'[k].item \in D
              /\ log'[k].there = new[log'[k].item].there
              /\ log'[k].stamp = new[log'[k].item].stamp
            BY <1>6, <3>1
        <3>3. D \subseteq Items
            BY DEF D
        <3>4. row'[log'[k].item] = new[log'[k].item] /\ row'[log'[k].item].stamp \in Nat
            BY <1>9, <3>2, <3>3
        <3> QED BY <3>2, <3>4
    <2> QED BY <1>2, <1>4, <1>7, <2>1, <2>2
<1>13. ASSUME NEW j \in 1 .. Len(log'), NEW k \in 1 .. Len(log'), j < k,
              log'[j].item = log'[k].item
       PROVE  log'[j].stamp < log'[k].stamp
    <2>1. CASE k \in 1 .. len
        <3>1. j \in 1 .. len
            BY <1>4, <1>13, <2>1
        <3> QED BY <1>7, <1>13, <2>1, <3>1 DEF LogOK
    <2>2. CASE k \in len + 1 .. len + n
        <3>1. k - len \in 1 .. n /\ log'[k] = added[k - len]
            BY <1>7, <2>2
        <3>2. /\ log'[k].item = order[k - len] /\ log'[k].item \in D
              /\ log'[k].stamp = new[log'[k].item].stamp
            BY <1>6, <3>1
        <3>3. CASE j \in 1 .. len
            <4>1. log'[j] = log[j] /\ log[j].stamp <= row[log[j].item].stamp
                BY <1>7, <3>3 DEF LogOK
            <4>2. log'[k].stamp = row[log'[k].item].stamp + 1
                BY <3>2 DEF D
            <4>3. log[j].stamp \in Nat /\ row[log[j].item].stamp \in Nat
                BY <1>9, <1>11, <3>3
            <4> QED BY <1>13, <4>1, <4>2, <4>3
        <3>4. CASE j \in len + 1 .. len + n
            <4>1. j - len \in 1 .. n /\ log'[j].item = order[j - len]
                BY <1>6, <1>7, <3>4
            <4>2. j - len = k - len
                BY <1>2, <1>13, <3>1, <3>2, <4>1
            <4> QED BY <1>4, <1>13, <4>2
        <3> QED BY <1>2, <1>4, <1>7, <3>3, <3>4
    <2> QED BY <1>2, <1>4, <1>7, <2>1, <2>2
<1>14. ASSUME NEW i \in Items
       PROVE  /\ ~row'[i].there => row'[i].revision = 0
              /\ row'[i].stamp > 0 =>
                    \E k \in 1 .. Len(log') : log'[k].item = i /\ log'[k].stamp = row'[i].stamp
    <2>1. CASE i \in D
        <3>1. row'[i] = new[i] /\ (~new[i].there => new[i].revision = 0)
            BY <1>9, <2>1 DEF D
        <3>2. PICK k \in 1 .. n : order[k] = i
            BY <1>2, <2>1
        <3>3. k + len \in len + 1 .. len + n /\ (k + len) - len = k /\ k + len \in 1 .. Len(log')
            BY <1>2, <1>4, <1>7
        <3>4. log'[k + len] = added[k]
            BY <1>7, <3>3
        <3> QED BY <1>6, <3>1, <3>2, <3>3, <3>4
    <2>2. CASE i \notin D
        <3>1. row'[i] = row[i]
            BY <1>9, <2>2
        <3>2. \A k \in 1 .. len : k \in 1 .. Len(log') /\ log'[k] = log[k]
            BY <1>2, <1>4, <1>7
        <3> QED BY <3>1, <3>2 DEF LogOK
    <2> QED BY <2>1, <2>2
<1>15. LogOK'
    BY <1>12, <1>13, <1>14 DEF LogOK
<1> QED BY <1>7, <1>8, <1>10, <1>15

\* A commit leaves the devices in order, if whoever no longer sees the same of an
\* item, or now sees it, is counted as having missed it.
LEMMA DevicesAfterCommit ==
    ASSUME TypeOK, DevicesOK, Continued, row' \in [Items -> Row], log' \in Seq(Entry),
           UNCHANGED device,
           \A d \in Devices : missed[d] \subseteq missed'[d],
           \A d \in Devices : \A i \in Items \ missed'[d] :
               row'[i] = row[i] => Shown(d, i)' = Shown(d, i)
    PROVE  DevicesOK'
<1> SUFFICES ASSUME NEW d \in Devices
             PROVE  PlaceOK(d)' /\ CopyOK(d)' /\ PageOK(d)'
    BY DEF DevicesOK
<1>1. /\ Len(log) \in Nat /\ Len(log') \in Nat /\ Len(log) <= Len(log')
      /\ \A k \in 1 .. Len(log) : log'[k] = log[k]
    BY LenProperties DEF TypeOK, Continued
<1>2. /\ device[d] \in Device /\ device'[d] = device[d]
      /\ PlaceOK(d) /\ CopyOK(d) /\ PageOK(d)
    BY DEF TypeOK, DevicesOK
<1>3. /\ device[d].cursor \in Nat /\ device[d].upto \in Nat
      /\ \A i \in Items : /\ device[d].copy[i] \in Row
                          /\ device[d].got[i] # None => device[d].got[i] \in Row
    BY <1>2 DEF Device, Copies
<1>4. \A i \in Items : /\ row[i].stamp \in Nat /\ row'[i].stamp \in Nat
                       /\ row'[i] = row[i] \/ row'[i].stamp > row[i].stamp
    BY DEF TypeOK, Row, Continued
<1>5. \A r, i : \A n \in 0 .. Len(log) : Covers(r, i, n) => Covers(r, i, n)'
    <2> SUFFICES ASSUME NEW r, NEW i, NEW n \in 0 .. Len(log), Covers(r, i, n),
                        NEW k \in 1 .. n, log'[k].item = i
                 PROVE  log'[k].stamp <= r.stamp
        BY DEF Covers
    <2>1. k \in 1 .. Len(log)
        BY <1>1
    <2> QED BY <1>1, <2>1 DEF Covers
<1>6. ASSUME NEW r \in Row, NEW i \in Items, i \notin missed'[d],
             r.stamp <= row[i].stamp, AsShown(d, i, r)
      PROVE  AsShown(d, i, r)'
    <2>1. r.stamp \in Nat
        BY DEF Row
    <2>2. CASE row'[i] = row[i]
        BY <1>6, <2>2 DEF AsShown
    <2>3. CASE row'[i].stamp > row[i].stamp
        BY <1>4, <1>6, <2>1, <2>3 DEF AsShown
    <2> QED BY <1>4, <2>2, <2>3
<1>7. PlaceOK(d)'
    <2>1. \A i \in Items : \A r \in Row : r.stamp <= row[i].stamp => r.stamp <= row'[i].stamp
        <3> SUFFICES ASSUME NEW i \in Items, NEW r \in Row, r.stamp <= row[i].stamp
                     PROVE  r.stamp <= row'[i].stamp
            OBVIOUS
        <3>1. r.stamp \in Nat
            BY DEF Row
        <3>2. row'[i].stamp >= row[i].stamp
            BY <1>4
        <3> QED BY <1>4, <3>1, <3>2
    <2> QED BY <1>1, <1>2, <1>3, <2>1 DEF PlaceOK, Tables
<1>8. CopyOK(d)'
    <2>1. device[d].cursor \in 0 .. Len(log)
        BY <1>1, <1>2, <1>3 DEF PlaceOK
    <2> SUFFICES ASSUME HasCopy(d)', NEW i \in Items, i \notin missed'[d]
                 PROVE  /\ Covers(device[d].copy[i], i, device[d].cursor)'
                        /\ AsShown(d, i, device[d].copy[i])'
        BY <1>2 DEF CopyOK
    <2>2. HasCopy(d) /\ i \notin missed[d]
        BY <1>2 DEF HasCopy
    <2>3. /\ Covers(device[d].copy[i], i, device[d].cursor)
          /\ AsShown(d, i, device[d].copy[i])
          /\ device[d].copy[i].stamp <= row[i].stamp
        BY <1>2, <2>2 DEF CopyOK, PlaceOK
    <2>4. AsShown(d, i, device[d].copy[i])'
        BY <1>2, <1>3, <1>6, <2>3 DEF AsShown
    <2>5. Covers(device[d].copy[i], i, device[d].cursor)'
        BY <1>2, <1>5, <2>1, <2>3 DEF Covers
    <2> QED BY <2>4, <2>5
<1>9. PageOK(d)'
    <2> SUFFICES ASSUME device[d].phase = "paging", NEW i \in Items, device[d].got[i] # None
                 PROVE  /\ Covers(device[d].got[i], i, device[d].upto)'
                        /\ i \notin missed'[d] => AsShown(d, i, device[d].got[i])'
        BY <1>2 DEF PageOK
    <2>1. device[d].upto \in 0 .. Len(log)
        BY <1>1, <1>2, <1>3 DEF PlaceOK
    <2>2. /\ Covers(device[d].got[i], i, device[d].upto)
          /\ i \notin missed[d] => AsShown(d, i, device[d].got[i])
          /\ device[d].got[i].stamp <= row[i].stamp
        BY <1>2 DEF PageOK, PlaceOK
    <2>3. Covers(device[d].got[i], i, device[d].upto)'
        BY <1>2, <1>5, <2>1, <2>2 DEF Covers
    <2>4. i \notin missed'[d] => AsShown(d, i, device[d].got[i])'
        BY <1>2, <1>3, <1>6, <2>2 DEF AsShown
    <2> QED BY <2>3, <2>4
<1> QED BY <1>7, <1>8, <1>9

LEMMA NewRows ==
    ASSUME TypeOK, NEW i \in Items
    PROVE  /\ row[i] \in Row /\ row[i].stamp \in Nat /\ row[i].revision \in Nat
           /\ Upserted(i) \in Row /\ Upserted(i).stamp = row[i].stamp + 1 /\ Upserted(i).there
           /\ Deleted(i) \in Row /\ Deleted(i).stamp = row[i].stamp + 1
           /\ Deleted(i).revision = 0
<1>1. row[i] \in Row /\ row[i].stamp \in Nat /\ row[i].revision \in Nat
    BY DEF TypeOK, Row
<1> QED BY <1>1 DEF Upserted, Deleted, Gone, Row

\* What a device may see of an item depends on the row and on who the student's
\* sheikh is.
LEMMA ShownUnchanged ==
    ASSUME NEW d \in Devices, NEW i \in Items, row'[i] = row[i],
           i.kind # "session" =>
               (Sees(d, i.student, assigned)' <=> Sees(d, i.student, assigned))
    PROVE  Shown(d, i)' = Shown(d, i)
BY DEF Shown, Visible, Gone

\* A commit by which no student changes hands.
LEMMA PlainCommit ==
    ASSUME TypeOK, LogOK, DevicesOK, NEW new, DOMAIN new \subseteq Items,
           \A i \in DOMAIN new : /\ new[i] \in Row
                                 /\ new[i].stamp = row[i].stamp + 1
                                 /\ ~new[i].there => new[i].revision = 0,
           Commit(new), UNCHANGED <<device, missed, assigned>>
    PROVE  /\ row' \in [Items -> Row] /\ log' \in Seq(Entry)
           /\ LogOK' /\ DevicesOK'
<1>1. /\ row' \in [Items -> Row] /\ log' \in Seq(Entry)
      /\ LogOK' /\ Continued
    BY CommitKeepsLog
<1>2. \A d \in Devices : \A i \in Items : row'[i] = row[i] => Shown(d, i)' = Shown(d, i)
    BY ShownUnchanged DEF Sees
<1>3. DevicesOK'
    BY <1>1, <1>2, DevicesAfterCommit
<1> QED BY <1>1, <1>3

-----------------------------------------------------------------------------
(* Each kind of step keeps the log and the devices in order.                   *)

LEMMA ApplicationStep ==
    ASSUME TypeOK, LogOK, DevicesOK, Application
    PROVE  TypeOK' /\ LogOK' /\ DevicesOK'
<1>1. ASSUME NEW i \in Items, Write(i)
      PROVE  TypeOK' /\ LogOK' /\ DevicesOK'
    <2> DEFINE new == [j \in {i} |-> Upserted(j)]
    <2>1. Commit(new) /\ UNCHANGED <<open, tracked, assigned, missed>> /\ Unchanged
        BY <1>1 DEF Write
    <2>2. DOMAIN new \subseteq Items /\ \A j \in DOMAIN new : new[j] = Upserted(j)
        OBVIOUS
    <2> HIDE DEF new
    <2>3. /\ row' \in [Items -> Row] /\ log' \in Seq(Entry) /\ LogOK' /\ DevicesOK'
        BY <2>1, <2>2, NewRows, PlainCommit DEF Unchanged
    <2> QED BY <2>1, <2>3 DEF TypeOK, Unchanged
<1>2. ASSUME NEW i \in Items, Delete(i)
      PROVE  TypeOK' /\ LogOK' /\ DevicesOK'
    <2> DEFINE new == [j \in Below(i) |-> Deleted(j)]
    <2>1. Commit(new) /\ UNCHANGED <<open, tracked, assigned, missed>> /\ Unchanged
        BY <1>2 DEF Delete
    <2>2. DOMAIN new \subseteq Items /\ \A j \in DOMAIN new : new[j] = Deleted(j)
        BY DEF Below
    <2> HIDE DEF new
    <2>3. /\ row' \in [Items -> Row] /\ log' \in Seq(Entry) /\ LogOK' /\ DevicesOK'
        BY <2>1, <2>2, NewRows, PlainCommit DEF Unchanged
    <2> QED BY <2>1, <2>3 DEF TypeOK, Unchanged
<1>3. ASSUME SwitchSession
      PROVE  TypeOK' /\ LogOK' /\ DevicesOK'
    <2> DEFINE new == [j \in {TheSession} |-> Upserted(j)]
    <2>1. /\ Commit(new) /\ UNCHANGED <<assigned, missed>> /\ Unchanged
          /\ open' \in BOOLEAN /\ tracked' \in BOOLEAN
        BY <1>3 DEF SwitchSession, TypeOK
    <2>2. DOMAIN new \subseteq Items /\ \A j \in DOMAIN new : new[j] = Upserted(j)
        BY DEF Items
    <2> HIDE DEF new
    <2>3. /\ row' \in [Items -> Row] /\ log' \in Seq(Entry) /\ LogOK' /\ DevicesOK'
        BY <2>1, <2>2, NewRows, PlainCommit DEF Unchanged
    <2> QED BY <2>1, <2>3 DEF TypeOK, Unchanged
<1>4. ASSUME NEW st \in Students, NEW sh \in Sheikhs, Assign(st, sh)
      PROVE  TypeOK' /\ LogOK' /\ DevicesOK'
    <2> DEFINE i == [kind |-> "student", student |-> st]
               new == [j \in {i} |-> Upserted(j)]
               turns == {d \in Devices : Sees(d, st, assigned)
                                            # Sees(d, st, [assigned EXCEPT ![st] = sh])}
    <2>1. /\ Commit(new) /\ UNCHANGED <<open, tracked>> /\ Unchanged
          /\ assigned' = [assigned EXCEPT ![st] = sh]
          /\ missed' = [d \in Devices |->
                 IF d \in turns
                 THEN missed[d] \cup {j \in Items : j.student = st /\ j # i}
                 ELSE missed[d]]
        BY <1>4 DEF Assign
    <2>2. i \in Items
        BY DEF Items
    <2>3. DOMAIN new = {i} /\ \A j \in DOMAIN new : new[j] = Upserted(j)
        OBVIOUS
    <2>4. row'[i] # row[i]
        <3>1. row'[i] = Upserted(i)
            BY <2>1, <2>2 DEF Commit
        <3> HIDE DEF i, new
        <3> QED BY <2>2, <3>1, NewRows
    <2> HIDE DEF new
    <2>5. /\ row' \in [Items -> Row] /\ log' \in Seq(Entry) /\ LogOK' /\ Continued
        <3> HIDE DEF i
        <3> QED BY <2>1, <2>2, <2>3, NewRows, CommitKeepsLog
    <2>6. missed' \in [Devices -> SUBSET Items] /\ \A d \in Devices : missed[d] \subseteq missed'[d]
        <3> HIDE DEF i, turns
        <3> QED BY <2>1 DEF TypeOK
    <2>7. ASSUME NEW d \in Devices, NEW j \in Items \ missed'[d], row'[j] = row[j]
          PROVE  Shown(d, j)' = Shown(d, j)
        <3>1. j # i
            BY <2>4, <2>7
        <3>2. ASSUME j.kind # "session"
              PROVE  Sees(d, j.student, assigned)' <=> Sees(d, j.student, assigned)
            <4>1. CASE j.student = st
                <5>1. d \notin turns
                    BY <2>1, <2>7, <3>1, <4>1
                <5> QED BY <2>1, <4>1, <5>1 DEF Sees
            <4>2. CASE j.student # st
                <5>1. assigned'[j.student] = assigned[j.student]
                    BY <2>1, <4>2 DEF TypeOK
                <5> QED BY <5>1 DEF Sees
            <4> QED BY <4>1, <4>2
        <3> QED BY <2>7, <3>2, ShownUnchanged
    <2>8. DevicesOK'
        BY <2>1, <2>5, <2>6, <2>7, DevicesAfterCommit DEF Unchanged
    <2>9. assigned' \in [Students -> Sheikhs]
        BY <2>1 DEF TypeOK
    <2> QED BY <2>1, <2>5, <2>6, <2>8, <2>9 DEF TypeOK, Unchanged
<1> QED BY <1>1, <1>2, <1>3, <1>4 DEF Application

LEMMA TargetsAreItems == \A m \in Mutations : Target[m] \in Items
BY TargetAssumption DEF Items

LEMMA BatchStep ==
    ASSUME TypeOK, LogOK, DevicesOK, NEW a \in Attempts, WriteBatch(a)
    PROVE  TypeOK' /\ LogOK' /\ DevicesOK'
<1> DEFINE at == attempt[a]
           runs == {m \in at.batch : receipt[m] = None \/ m = at.first}
           done == {m \in runs : Result(a, m) = "applied"}
           versioned == IF \E m \in done : Target[m].kind = "attendance"
                        THEN {TheSession} ELSE {}
           of(i) == CHOOSE m \in done : Target[m] = i
           new == [i \in {Target[m] : m \in done} \cup versioned |->
                       IF i = TheSession THEN Upserted(i) ELSE Overwritten(a, of(i))]
           result == [m \in Mutations |-> IF m \in runs THEN Result(a, m)
                                          ELSE IF m \in at.batch THEN Replay(m) ELSE None]
<1>1. /\ at # None /\ Commit(new)
      /\ receipt' = [m \in Mutations |-> IF m \in runs THEN result[m] ELSE receipt[m]]
      /\ applied' = [m \in Mutations |-> applied[m] + IF m \in done THEN 1 ELSE 0]
      /\ attempt' = [attempt EXCEPT ![a].phase = "answered", ![a].result = result]
      /\ UNCHANGED <<open, tracked, assigned, device, queued, answer, missed, losses>>
    BY DEF WriteBatch
<1>2. at \in Attempt /\ at.batch \subseteq Mutations /\ at.row \in Row
    BY <1>1 DEF TypeOK, Attempt
<1>3. TheSession \in Items
    BY DEF Items
<1>4. DOMAIN new \subseteq Items
    BY <1>2, <1>3, TargetsAreItems
<1>5. ASSUME NEW i \in DOMAIN new
      PROVE  /\ new[i] \in Row
             /\ new[i].stamp = row[i].stamp + 1
             /\ ~new[i].there => new[i].revision = 0
    <2>1. CASE i = TheSession
        <3>1. new[i] = Upserted(i)
            BY <2>1
        <3> HIDE DEF new
        <3> QED BY <1>3, <2>1, <3>1, NewRows
    <2>2. CASE i # TheSession
        <3>1. \E m \in done : Target[m] = i
            BY <2>2
        <3>2. of(i) \in done /\ Target[of(i)] = i
            BY <3>1
        <3>3. of(i) \in Mutations /\ new[i] = Overwritten(a, of(i)) /\ i \in Items
            BY <1>2, <1>4, <2>2, <3>2
        <3> HIDE DEF new, of
        <3>4. at.row.revision \in Nat /\ row[i].revision \in Nat /\ row[i].stamp \in Nat
            BY <1>2, <3>3 DEF TypeOK, Row
        <3> QED BY <3>2, <3>3, <3>4 DEF Overwritten, Row
    <2> QED BY <2>1, <2>2
<1>6. result \in [Mutations -> Results \cup {None}]
    <2>1. \A m \in runs : Result(a, m) \in Results
        BY DEF Result, Results
    <2> HIDE DEF runs
    <2> QED BY <2>1 DEF TypeOK, Replay
<1> HIDE DEF new, result
<1>7. /\ row' \in [Items -> Row] /\ log' \in Seq(Entry) /\ LogOK' /\ DevicesOK'
    BY <1>1, <1>4, <1>5, PlainCommit
<1>8. attempt' \in [Attempts -> Attempt \cup {None}]
    <2>1. [at EXCEPT !.phase = "answered", !.result = result] \in Attempt
        BY <1>2, <1>6 DEF Attempt
    <2>2. attempt' = [attempt EXCEPT ![a] = [at EXCEPT !.phase = "answered", !.result = result]]
        BY <1>1
    <2> QED BY <2>1, <2>2 DEF TypeOK
<1>9. receipt' \in [Mutations -> Results \cup {None}]
    BY <1>1, <1>6 DEF TypeOK
<1>10. applied' \in [Mutations -> Nat]
    <2> HIDE DEF done
    <2> QED BY <1>1 DEF TypeOK
<1> QED BY <1>1, <1>7, <1>8, <1>9, <1>10 DEF TypeOK

\* The other steps of a batch, and what is queued.
LEMMA MutateStep ==
    ASSUME TypeOK, AttemptsOK, LogOK, DevicesOK, Mutate
    PROVE  TypeOK' /\ LogOK' /\ DevicesOK'
<1>1. ASSUME UNCHANGED <<tables, device, missed>>
      PROVE  LogOK' /\ DevicesOK'
    BY <1>1 DEF tables, LogOK, DevicesOK, PlaceOK, CopyOK, PageOK, HasCopy, Covers, AsShown, Shown,
       Visible, Sees, Gone, Tables
<1>2. ASSUME NEW a \in Attempts, NEW t \in Attempt \cup {None},
             attempt' = [attempt EXCEPT ![a] = t],
             UNCHANGED <<tables, device, missed, queued, applied>>,
             answer' \in [Mutations -> Results \cup {None}], losses' \in Nat
      PROVE  TypeOK' /\ LogOK' /\ DevicesOK'
    <2>1. attempt' \in [Attempts -> Attempt \cup {None}]
        BY <1>2 DEF TypeOK
    <2> QED BY <1>1, <1>2, <2>1 DEF TypeOK, tables
<1>3. ASSUME NEW m \in Mutations, Queue(m)
      PROVE  TypeOK' /\ LogOK' /\ DevicesOK'
    <2>1. device[Owner[m]].copy[Target[m]] \in Row
        BY OwnerAssumption, TargetsAreItems DEF TypeOK, Device
    <2>2. queued' \in [Mutations -> Nat \cup {None}]
        BY <1>3, <2>1 DEF Queue, TypeOK, Row
    <2> QED BY <1>1, <1>3, <2>2 DEF Queue, TypeOK, tables
<1>4. ASSUME NEW a \in Attempts, NEW B \in SUBSET Mutations, Send(a, B)
      PROVE  TypeOK' /\ LogOK' /\ DevicesOK'
    <2> DEFINE t == [phase |-> "called", batch |-> B, first |-> None, known |-> FALSE,
                     open |-> FALSE, tracked |-> FALSE, row |-> Gone(0), result |-> NoResults]
    <2>1. t \in Attempt
        BY DEF Attempt, Gone, Row, NoResults
    <2>2. attempt' = [attempt EXCEPT ![a] = t]
        BY <1>4 DEF Send
    <2> HIDE DEF t
    <2> QED BY <1>2, <1>4, <2>1, <2>2 DEF Send, TypeOK
<1>5. ASSUME NEW a \in Attempts, Load(a)
      PROVE  TypeOK' /\ LogOK' /\ DevicesOK'
    <2>1. attempt[a] \in Attempt /\ UNCHANGED <<tables, device, queued, answer, applied, missed, losses>>
        BY <1>5 DEF Load, TypeOK
    <2>2. PICK t \in Attempt : attempt' = [attempt EXCEPT ![a] = t]
        <3>1. ASSUME NEW m \in attempt[a].batch,
                     attempt' = [attempt EXCEPT
                         ![a].phase = "loaded", ![a].first = m, ![a].known = Known(m),
                         ![a].open = open, ![a].tracked = tracked]
              PROVE  \E t \in Attempt : attempt' = [attempt EXCEPT ![a] = t]
            <4> DEFINE t == [attempt[a] EXCEPT !.phase = "loaded", !.first = m,
                                 !.known = Known(m), !.open = open, !.tracked = tracked]
            <4>1. Known(m) \in BOOLEAN
                <5>1. row[TheSession].there \in BOOLEAN
                    BY DEF TypeOK, Items, Row
                <5> QED BY <5>1 DEF Known
            <4>2. t \in Attempt
                BY <2>1, <4>1 DEF Attempt, TypeOK
            <4>3. attempt' = [attempt EXCEPT ![a] = t]
                BY <3>1
            <4> QED BY <4>2, <4>3
        <3>2. ASSUME attempt' = [attempt EXCEPT
                         ![a].phase = "answered",
                         ![a].result = [m \in Mutations |->
                             IF m \in attempt[a].batch THEN Replay(m) ELSE None]]
              PROVE  \E t \in Attempt : attempt' = [attempt EXCEPT ![a] = t]
            <4> DEFINE result == [m \in Mutations |->
                                    IF m \in attempt[a].batch THEN Replay(m) ELSE None]
                       t == [attempt[a] EXCEPT !.phase = "answered", !.result = result]
            <4>1. result \in [Mutations -> Results \cup {None}]
                BY DEF TypeOK, Replay
            <4>2. attempt' = [attempt EXCEPT ![a] = t]
                BY <3>2
            <4>3. t \in Attempt
                <5> HIDE DEF result
                <5> QED BY <2>1, <4>1 DEF Attempt
            <4> QED BY <4>2, <4>3
        <3> QED BY <1>5, <3>1, <3>2 DEF Load
    <2> QED BY <1>2, <2>1, <2>2 DEF TypeOK
<1>6. ASSUME NEW a \in Attempts, Compare(a)
      PROVE  TypeOK' /\ LogOK' /\ DevicesOK'
    <2> DEFINE t == [attempt[a] EXCEPT !.phase = "compared",
                                       !.row = row[Target[attempt[a].first]]]
    <2>1. attempt[a] \in Attempt /\ attempt' = [attempt EXCEPT ![a] = t]
        BY <1>6 DEF Compare, TypeOK
    <2>2. row[Target[attempt[a].first]] \in Row
        <3>1. attempt[a].first \in Mutations
            BY <1>6, <2>1 DEF Compare, AttemptsOK, Attempt
        <3> QED BY <3>1, TargetsAreItems DEF TypeOK
    <2>3. t \in Attempt
        BY <2>1, <2>2 DEF Attempt
    <2> HIDE DEF t
    <2> QED BY <1>2, <1>6, <2>1, <2>3 DEF Compare, TypeOK
<1>7. ASSUME NEW a \in Attempts, WriteBatch(a)
      PROVE  TypeOK' /\ LogOK' /\ DevicesOK'
    BY <1>7, BatchStep
<1>8. ASSUME NEW a \in Attempts, RollBack(a) \/ Lose(a) \/ Deliver(a)
      PROVE  TypeOK' /\ LogOK' /\ DevicesOK'
    <2>1. /\ attempt' = [attempt EXCEPT ![a] = None]
          /\ UNCHANGED <<tables, device, missed, queued, applied>>
          /\ losses' \in Nat
        BY <1>8 DEF RollBack, Lose, Deliver, TypeOK
    <2>2. answer' \in [Mutations -> Results \cup {None}]
        <3>1. CASE Deliver(a)
            <4>1. attempt[a] \in Attempt
                BY <3>1 DEF Deliver, TypeOK
            <4> QED BY <3>1, <4>1 DEF Deliver, TypeOK, Attempt
        <3>2. CASE UNCHANGED answer
            BY <3>2 DEF TypeOK
        <3> QED BY <1>8, <3>1, <3>2 DEF RollBack, Lose
    <2> QED BY <1>2, <2>1, <2>2
<1> QED BY <1>3, <1>4, <1>5, <1>6, <1>7, <1>8 DEF Mutate

\* A step of one device leaves the tables, the log and the other devices alone.
LEMMA OneDevice ==
    ASSUME TypeOK, LogOK, DevicesOK, NEW d \in Devices, NEW v \in Device,
           UNCHANGED <<row, log, assigned>>,
           device' = [device EXCEPT ![d] = v],
           \A e \in Devices \ {d} : missed'[e] = missed[e],
           (PlaceOK(d) /\ CopyOK(d) /\ PageOK(d))'
    PROVE  device' \in [Devices -> Device] /\ LogOK' /\ DevicesOK'
<1>1. device' \in [Devices -> Device] /\ \A e \in Devices \ {d} : device'[e] = device[e]
    BY DEF TypeOK
<1>2. LogOK'
    BY DEF LogOK
<1>3. ASSUME NEW e \in Devices \ {d}
      PROVE  (PlaceOK(e) /\ CopyOK(e) /\ PageOK(e))'
    BY <1>1 DEF DevicesOK, PlaceOK, CopyOK, PageOK, HasCopy, Covers, AsShown, Shown, Visible, Sees,
       Gone, Tables
<1> QED BY <1>1, <1>2, <1>3 DEF DevicesOK

\* What a device is sent of an item is its present state.
LEMMA ShownIsNew ==
    ASSUME TypeOK, LogOK, NEW d \in Devices, NEW i \in Items
    PROVE  /\ Shown(d, i) \in Row /\ Shown(d, i).stamp = row[i].stamp
           /\ \A n \in 0 .. Len(log) : Covers(Shown(d, i), i, n)
<1>1. row[i] \in Row /\ row[i].stamp \in Nat
    BY DEF TypeOK, Row
<1>2. Shown(d, i) \in Row /\ Shown(d, i).stamp = row[i].stamp
    BY <1>1 DEF Shown, Gone, Row
<1>3. Len(log) \in Nat
    BY LenProperties DEF TypeOK
<1>4. ASSUME NEW n \in 0 .. Len(log), NEW k \in 1 .. n, log[k].item = i
      PROVE  log[k].stamp <= Shown(d, i).stamp
    <2>1. k \in 1 .. Len(log)
        BY <1>3
    <2> QED BY <1>2, <1>4, <2>1 DEF LogOK
<1> QED BY <1>2, <1>4 DEF Covers

LEMMA NothingRead == NoCopies \in Copies /\ \A i \in Items : NoCopies[i] = None
BY DEF NoCopies, Copies

\* What TypeOK says of a device, field by field.
Fields(v) == v = [phase |-> v.phase, cursor |-> v.cursor, copy |-> v.copy, next |-> v.next,
                  upto |-> v.upto, got |-> v.got, resets |-> v.resets]
LEMMA DeviceFields ==
    ASSUME NEW v \in Device
    PROVE  /\ v.phase \in {"new", "reading", "paging", "idle"} /\ v.cursor \in Nat
           /\ v.copy \in [Items -> Row] /\ v.next \in 0 .. 4 /\ v.upto \in Nat
           /\ v.got \in Copies /\ v.resets \in Nat
BY DEF Device
LEMMA AsDevice ==
    ASSUME NEW v, Fields(v), v.phase \in {"new", "reading", "paging", "idle"}, v.cursor \in Nat,
           v.copy \in [Items -> Row], v.next \in 0 .. 4, v.upto \in Nat, v.got \in Copies,
           v.resets \in Nat
    PROVE  v \in Device
BY DEF Fields, Device

LEMMA StartBootstrapStep ==
    ASSUME TypeOK, LogOK, DevicesOK, NEW d \in Devices, StartBootstrap(d)
    PROVE  device' \in [Devices -> Device] /\ LogOK' /\ DevicesOK'
<1> DEFINE v == [device[d] EXCEPT !.phase = "reading", !.next = 0, !.got = NoCopies,
                                  !.resets = @ + 1]
<1>1. /\ device[d] \in Device /\ device' = [device EXCEPT ![d] = v] /\ device'[d] = v
      /\ device[d].phase \in {"new", "idle"}
      /\ UNCHANGED <<row, log, assigned, missed>>
      /\ PlaceOK(d) /\ CopyOK(d) /\ PageOK(d)
    BY DEF StartBootstrap, TypeOK, DevicesOK, tables
<1>2. /\ v \in Device /\ v.phase = "reading" /\ v.next = 0 /\ v.got = NoCopies
      /\ v.resets = device[d].resets + 1 /\ v.copy = device[d].copy
      /\ v.cursor = device[d].cursor /\ device[d].resets \in Nat
    <2>1. /\ Fields(v) /\ v.phase = "reading" /\ v.next = 0 /\ v.got = NoCopies
          /\ v.resets = device[d].resets + 1 /\ v.copy = device[d].copy
          /\ v.cursor = device[d].cursor /\ v.upto = device[d].upto
        BY <1>1 DEF Device, Fields
    <2> HIDE DEF v
    <2> QED BY <1>1, <2>1, NothingRead, DeviceFields, AsDevice
<1> HIDE DEF v
<1>3. PlaceOK(d)'
    <2>1. Tables(0) = {}
        BY DEF Tables
    <2>2. \A i \in Items : v.got[i] = None
        BY <1>2 DEF NoCopies
    <2> QED BY <1>1, <1>2, <2>1, <2>2 DEF PlaceOK, Tables
<1>4. CopyOK(d)'
    <2>1. HasCopy(d)' => HasCopy(d)
        BY <1>1, <1>2 DEF HasCopy, PlaceOK
    <2> QED BY <1>1, <1>2, <2>1 DEF CopyOK, Covers, AsShown, Shown, Visible, Sees, Gone
<1>5. PageOK(d)'
    BY <1>1, <1>2 DEF PageOK
<1> QED BY <1>1, <1>2, <1>3, <1>4, <1>5, OneDevice

LEMMA ReadTableStep ==
    ASSUME TypeOK, LogOK, DevicesOK, NEW d \in Devices, ReadTable(d)
    PROVE  device' \in [Devices -> Device] /\ LogOK' /\ DevicesOK'
<1> DEFINE kind == Kinds[device[d].next + 1]
           read == [i \in {j \in Items : j.kind = kind} |->
                       IF Returned(d, i) THEN row[i] ELSE Gone(row[i].stamp)]
           got == [j \in Items |-> IF j \in DOMAIN read THEN read[j] ELSE device[d].got[j]]
           v == [device[d] EXCEPT !.next = @ + 1, !.got = got]
<1>1. /\ device[d] \in Device /\ device' = [device EXCEPT ![d] = v] /\ device'[d] = v
      /\ device[d].phase = "reading" /\ device[d].next < 4
      /\ UNCHANGED <<row, log, assigned, missed>>
      /\ PlaceOK(d) /\ CopyOK(d) /\ PageOK(d)
    BY DEF ReadTable, TypeOK, DevicesOK, tables, Kinds
<1>2. device[d].next \in 0 .. 3 /\ device[d].got \in Copies
    BY <1>1 DEF Device
<1>3. \A i \in Items : /\ i.kind = kind => /\ got[i] \in Row /\ got[i].stamp = row[i].stamp
                       /\ i.kind # kind => got[i] = device[d].got[i]
    <2>1. \A i \in Items : row[i] \in Row /\ Gone(row[i].stamp) \in Row
                           /\ Gone(row[i].stamp).stamp = row[i].stamp
        BY DEF TypeOK, Row, Gone
    <2> QED BY <2>1
<1>4. got \in Copies
    <2> HIDE DEF kind
    <2> QED BY <1>2, <1>3 DEF Copies
<1> HIDE DEF got, read, kind
<1>5. /\ v \in Device /\ v.phase = "reading" /\ v.next = device[d].next + 1 /\ v.got = got
      /\ v.resets = device[d].resets /\ v.copy = device[d].copy
      /\ v.cursor = device[d].cursor /\ device[d].resets \in Nat
    <2>1. /\ Fields(v) /\ v.phase = "reading" /\ v.next = device[d].next + 1 /\ v.got = got
          /\ v.resets = device[d].resets /\ v.copy = device[d].copy
          /\ v.cursor = device[d].cursor /\ v.upto = device[d].upto
        BY <1>1 DEF Device, Fields
    <2>2. v.next \in 0 .. 4
        BY <1>2, <2>1
    <2> HIDE DEF v
    <2> QED BY <1>1, <1>4, <2>1, <2>2, DeviceFields, AsDevice
<1> HIDE DEF v
<1>6. PlaceOK(d)'
    <2>1. \A i \in Items : i.kind \in Tables(v.next) => i.kind = kind \/ i.kind \in Tables(device[d].next)
        <3> SUFFICES ASSUME NEW i \in Items, NEW k \in 1 .. device[d].next + 1, i.kind = Kinds[k]
                     PROVE  i.kind = kind \/ i.kind \in Tables(device[d].next)
            BY <1>5 DEF Tables
        <3>1. k = device[d].next + 1 \/ k \in 1 .. device[d].next
            BY <1>2
        <3> QED BY <3>1 DEF kind, Tables
    <2>2. \A i \in Items : i.kind \in Tables(v.next) => v.got[i] # None
        BY <1>1, <1>3, <1>5, <2>1, NoneAssumption DEF PlaceOK
    <2>3. \A i \in Items : v.got[i] # None => v.got[i].stamp <= row[i].stamp
        <3>1. \A i \in Items : row[i].stamp \in Nat
            BY DEF TypeOK, Row
        <3> QED BY <1>1, <1>3, <1>5, <3>1 DEF PlaceOK
    <2> QED BY <1>1, <1>5, <2>2, <2>3 DEF PlaceOK, Tables
<1>7. CopyOK(d)'
    BY <1>1, <1>5 DEF CopyOK, HasCopy, Covers, AsShown, Shown, Visible, Sees, Gone
<1>8. PageOK(d)'
    BY <1>1, <1>5 DEF PageOK
<1> QED BY <1>1, <1>5, <1>6, <1>7, <1>8, OneDevice

LEMMA FinishBootstrapStep ==
    ASSUME TypeOK, LogOK, DevicesOK, NEW d \in Devices, FinishBootstrap(d)
    PROVE  /\ device' \in [Devices -> Device] /\ missed' \in [Devices -> SUBSET Items]
           /\ LogOK' /\ DevicesOK'
<1> DEFINE got == device[d].got
           v == [device[d] EXCEPT !.phase = "idle", !.cursor = Len(log), !.copy = got,
                                  !.got = NoCopies, !.next = 0]
<1>1. /\ device[d] \in Device /\ device' = [device EXCEPT ![d] = v] /\ device'[d] = v
      /\ device[d].phase = "reading" /\ device[d].next = 4
      /\ missed' = [missed EXCEPT ![d] = {i \in Items : got[i] # Shown(d, i)}]
      /\ UNCHANGED <<row, log, assigned>>
      /\ PlaceOK(d) /\ CopyOK(d) /\ PageOK(d)
    BY DEF FinishBootstrap, CursorAfterRows, TypeOK, DevicesOK, tables, Kinds
<1>2. \A i \in Items : got[i] \in Row /\ got[i].stamp <= row[i].stamp
    <2>1. \A i \in Items : \E k \in 1 .. 4 : Kinds[k] = i.kind
        <3>1. /\ Kinds[1] = "session" /\ Kinds[2] = "student" /\ Kinds[3] = "attendance"
              /\ Kinds[4] = "progress"
            BY DEF Kinds
        <3> QED BY <3>1 DEF Items, TheSession
    <2>2. \A i \in Items : i.kind \in Tables(4)
        BY <2>1 DEF Tables
    <2>3. \A i \in Items : got[i] # None /\ got[i].stamp <= row[i].stamp
        BY <1>1, <2>2 DEF PlaceOK
    <2> QED BY <1>1, <2>3 DEF Device, Copies
<1>3. Len(log) \in Nat
    BY LenProperties DEF TypeOK
<1>4. /\ v \in Device /\ v.phase = "idle" /\ v.next = 0 /\ v.got = NoCopies
      /\ v.resets = device[d].resets /\ v.copy = got
      /\ v.cursor = Len(log) /\ device[d].resets \in Nat
    <2>1. got \in [Items -> Row]
        BY <1>1, <1>2 DEF Device, Copies
    <2>2. /\ Fields(v) /\ v.phase = "idle" /\ v.next = 0 /\ v.got = NoCopies
          /\ v.resets = device[d].resets /\ v.copy = got
          /\ v.cursor = Len(log) /\ v.upto = device[d].upto
        BY <1>1 DEF Device, Fields
    <2> HIDE DEF v, got
    <2> QED BY <1>1, <1>3, <2>1, <2>2, NothingRead, DeviceFields, AsDevice
<1>5. /\ missed' \in [Devices -> SUBSET Items]
      /\ \A e \in Devices \ {d} : missed'[e] = missed[e]
      /\ \A i \in Items \ missed'[d] : got[i] = Shown(d, i)
    BY <1>1 DEF TypeOK
<1> HIDE DEF v, got
<1>6. PlaceOK(d)'
    <2>1. \A i \in Items : v.got[i] = None
        BY <1>4 DEF NoCopies
    <2>2. v.cursor <= Len(log)
        BY <1>3, <1>4
    <2> QED BY <1>1, <1>2, <1>4, <2>1, <2>2 DEF PlaceOK
<1>7. CopyOK(d)'
    <2>1. Len(log) \in 0 .. Len(log)
        BY <1>3
    <2>2. ASSUME NEW i \in Items \ missed'[d]
          PROVE  Covers(v.copy[i], i, v.cursor) /\ v.copy[i] = Shown(d, i)
        BY <1>4, <1>5, <2>1, <2>2, ShownIsNew
    <2> QED BY <1>1, <2>2 DEF CopyOK, Covers, AsShown, Shown, Visible, Sees, Gone
<1>8. PageOK(d)'
    BY <1>1, <1>4 DEF PageOK
<1> QED BY <1>1, <1>4, <1>5, <1>6, <1>7, <1>8, OneDevice

LEMMA LoseAnswerStep ==
    ASSUME TypeOK, LogOK, DevicesOK, NEW d \in Devices, LoseAnswer(d)
    PROVE  device' \in [Devices -> Device] /\ LogOK' /\ DevicesOK'
<1> DEFINE first == device[d].phase = "reading" /\ device[d].resets = 1
           resets == IF device[d].phase = "reading" THEN device[d].resets - 1
                     ELSE device[d].resets
           v == [device[d] EXCEPT !.phase = IF first THEN "new" ELSE "idle", !.resets = resets,
                                  !.next = 0, !.upto = 0, !.got = NoCopies]
<1>1. /\ device[d] \in Device /\ device' = [device EXCEPT ![d] = v] /\ device'[d] = v
      /\ device[d].phase \in {"reading", "paging"}
      /\ UNCHANGED <<row, log, assigned, missed>>
      /\ PlaceOK(d) /\ CopyOK(d) /\ PageOK(d)
    BY DEF LoseAnswer, TypeOK, DevicesOK, tables
<1>2. device[d].resets \in Nat /\ device[d].resets # 0
    BY <1>1 DEF Device, PlaceOK
<1>3. resets \in Nat /\ (resets = 0 <=> first)
    BY <1>1, <1>2
<1> HIDE DEF first, resets
<1>4. /\ v \in Device /\ v.phase = (IF first THEN "new" ELSE "idle") /\ v.next = 0
      /\ v.got = NoCopies /\ v.resets = resets /\ v.copy = device[d].copy
      /\ v.cursor = device[d].cursor
    <2>1. /\ Fields(v) /\ v.phase = (IF first THEN "new" ELSE "idle") /\ v.next = 0
          /\ v.got = NoCopies /\ v.resets = resets /\ v.copy = device[d].copy
          /\ v.cursor = device[d].cursor /\ v.upto = 0
        BY <1>1 DEF Device, Fields
    <2> HIDE DEF v
    <2> QED BY <1>1, <1>3, <2>1, NothingRead, DeviceFields, AsDevice
<1> HIDE DEF v
<1>5. PlaceOK(d)'
    <2>1. \A i \in Items : v.got[i] = None
        BY <1>4 DEF NoCopies
    <2>2. /\ v.phase = "new" <=> v.resets = 0
          /\ v.phase \in {"new", "idle"}
        BY <1>3, <1>4
    <2> QED BY <1>1, <1>4, <2>1, <2>2 DEF PlaceOK
<1>6. CopyOK(d)'
    <2>1. HasCopy(d)' => HasCopy(d)
        <3>1. ~first => HasCopy(d)
            BY <1>1, <1>2 DEF first, HasCopy
        <3> QED BY <1>1, <1>4, <3>1 DEF HasCopy
    <2> QED BY <1>1, <1>4, <2>1 DEF CopyOK, Covers, AsShown, Shown, Visible, Sees, Gone
<1>7. PageOK(d)'
    BY <1>1, <1>4 DEF PageOK
<1> QED BY <1>1, <1>4, <1>5, <1>6, <1>7, OneDevice

LEMMA StartPageStep ==
    ASSUME TypeOK, LogOK, DevicesOK, NEW d \in Devices, StartPage(d)
    PROVE  device' \in [Devices -> Device] /\ LogOK' /\ DevicesOK'
<1> DEFINE end == PageEnd(device[d].cursor)
           v == [device[d] EXCEPT !.phase = "paging", !.upto = end]
<1>1. /\ device[d] \in Device /\ device' = [device EXCEPT ![d] = v] /\ device'[d] = v
      /\ device[d].phase = "idle" /\ device[d].cursor < Len(log)
      /\ UNCHANGED <<row, log, assigned, missed>>
      /\ PlaceOK(d) /\ CopyOK(d) /\ PageOK(d)
    BY DEF StartPage, TypeOK, DevicesOK, tables
<1>2. end \in Nat /\ device[d].cursor < end /\ end <= Len(log)
    <2>1. Len(log) \in Nat /\ device[d].cursor \in Nat
        BY <1>1, LenProperties, DeviceFields DEF TypeOK
    <2> QED BY <1>1, <2>1, PageSizeAssumption DEF PageEnd
<1> HIDE DEF end
<1>3. /\ Fields(v) /\ v.phase = "paging" /\ v.next = device[d].next /\ v.got = NoCopies
      /\ v.resets = device[d].resets /\ v.copy = device[d].copy
      /\ v.cursor = device[d].cursor /\ v.upto = end
    BY <1>1 DEF Device, Fields, PlaceOK
<1> HIDE DEF v
<1>4. v \in Device
    BY <1>1, <1>2, <1>3, NothingRead, DeviceFields, AsDevice
<1>5. PlaceOK(d)'
    BY <1>1, <1>2, <1>3, NothingRead DEF PlaceOK
<1>6. CopyOK(d)'
    BY <1>1, <1>3 DEF CopyOK, HasCopy, Covers, AsShown, Shown, Visible, Sees, Gone
<1>7. PageOK(d)'
    BY <1>1, <1>3, NothingRead DEF PageOK
<1> QED BY <1>1, <1>4, <1>5, <1>6, <1>7, OneDevice

LEMMA ReadPayloadStep ==
    ASSUME TypeOK, LogOK, DevicesOK, NEW d \in Devices, NEW i \in Items, ReadPayload(d, i)
    PROVE  device' \in [Devices -> Device] /\ LogOK' /\ DevicesOK'
<1> DEFINE got == [j \in Items |-> IF j = i THEN Shown(d, i) ELSE device[d].got[j]]
           v == [device[d] EXCEPT !.got = got]
<1>1. /\ device[d] \in Device /\ device[d].phase = "paging"
      /\ UNCHANGED <<row, log, assigned, missed>>
      /\ PlaceOK(d) /\ CopyOK(d) /\ PageOK(d)
    BY DEF ReadPayload, TypeOK, DevicesOK, tables
<1>2. device' = [device EXCEPT ![d] = v] /\ device'[d] = v
    <2> DEFINE read == [j \in {i} |-> Shown(d, j)]
               got0 == [j \in Items |-> IF j \in DOMAIN read THEN read[j] ELSE device[d].got[j]]
    <2>1. got0 = got
        OBVIOUS
    <2>2. device' = [device EXCEPT ![d].got = got0]
        BY DEF ReadPayload
    <2> HIDE DEF got0, got
    <2> QED BY <2>1, <2>2 DEF TypeOK
<1>3. /\ Shown(d, i) \in Row /\ Shown(d, i).stamp = row[i].stamp
      /\ \A n \in 0 .. Len(log) : Covers(Shown(d, i), i, n)
    BY ShownIsNew
<1>4. got \in Copies /\ got[i] = Shown(d, i) /\ \A j \in Items \ {i} : got[j] = device[d].got[j]
    BY <1>1, <1>3, DeviceFields DEF Copies
<1> HIDE DEF got
<1>5. /\ Fields(v) /\ v.phase = "paging" /\ v.next = device[d].next /\ v.got = got
      /\ v.resets = device[d].resets /\ v.copy = device[d].copy
      /\ v.cursor = device[d].cursor /\ v.upto = device[d].upto
    BY <1>1 DEF Device, Fields
<1> HIDE DEF v
<1>6. v \in Device
    BY <1>1, <1>4, <1>5, DeviceFields, AsDevice
<1>7. PlaceOK(d)'
    <2>1. row[i].stamp \in Nat
        BY DEF TypeOK, Row
    <2>2. \A j \in Items : got[j] # None => got[j].stamp <= row[j].stamp
        BY <1>1, <1>3, <1>4, <2>1 DEF PlaceOK
    <2> QED BY <1>1, <1>2, <1>5, <2>2 DEF PlaceOK
<1>8. CopyOK(d)'
    BY <1>1, <1>2, <1>5 DEF CopyOK, HasCopy, Covers, AsShown, Shown, Visible, Sees, Gone
<1>9. PageOK(d)'
    <2>1. device[d].upto \in 0 .. Len(log)
        <3>1. Len(log) \in Nat /\ device[d].upto \in Nat
            BY <1>1, LenProperties, DeviceFields DEF TypeOK
        <3> QED BY <1>1, <3>1 DEF PlaceOK
    <2>2. ASSUME NEW j \in Items, got[j] # None
          PROVE  /\ Covers(got[j], j, device[d].upto)
                 /\ j \notin missed[d] => AsShown(d, j, got[j])
        <3>1. CASE j = i
            BY <1>3, <1>4, <2>1, <3>1 DEF AsShown
        <3>2. CASE j # i
            BY <1>1, <1>4, <2>2, <3>2 DEF PageOK
        <3> QED BY <3>1, <3>2
    <2> QED BY <1>1, <1>2, <1>5, <2>2 DEF PageOK, Covers, AsShown, Shown, Visible, Sees, Gone
<1> QED BY <1>1, <1>2, <1>6, <1>7, <1>8, <1>9, OneDevice

\* What the device takes over of an item that is on the page: at least as new as the
\* last entry, and what it may see if that is still the present state.
LEMMA ReceivedIsNew ==
    ASSUME TypeOK, LogOK, DevicesOK, NEW d \in Devices, NEW i \in InPage(d),
           device[d].phase = "paging", \A j \in Wanted(d) : device[d].got[j] # None
    PROVE  /\ i \in Items
           /\ Received(d, i) \in Row /\ Received(d, i).stamp <= row[i].stamp
           /\ Covers(Received(d, i), i, device[d].upto)
           /\ i \notin missed[d] => AsShown(d, i, Received(d, i))
<1> DEFINE v == device[d]
           N == {n \in Page(d) : log[n].item = i}
           last == LastIn(d, i)
<1>1. /\ v \in Device /\ PlaceOK(d) /\ PageOK(d)
      /\ v.cursor \in Nat /\ v.upto \in Nat /\ Len(log) \in Nat
      /\ v.cursor < v.upto /\ v.upto <= Len(log)
    BY LenProperties, DeviceFields DEF TypeOK, DevicesOK, PlaceOK
<1>2. N # {} /\ N \subseteq Nat /\ \A n \in N : n <= Len(log)
    BY <1>1 DEF InPage, Page
<1>3. \E n \in N : \A m \in N : m <= n
    <2> HIDE DEF N
    <2> QED BY <1>1, <1>2, LargestNumber
<1>4. /\ last \in Page(d) /\ log[last].item = i
      /\ \A m \in Page(d) : log[m].item = i => m <= last
    BY <1>3 DEF LastIn
<1>5. /\ last \in 1 .. Len(log) /\ last > v.cursor /\ last <= v.upto
      /\ log[last] \in Entry
    <2>1. last \in 1 .. Len(log) /\ last > v.cursor /\ last <= v.upto
        BY <1>1, <1>4 DEF Page
    <2> QED BY <2>1, ElementOfSeq DEF TypeOK
<1>6. i \in Items /\ log[last].stamp \in Nat /\ row[i] \in Row /\ row[i].stamp \in Nat
    BY <1>4, <1>5 DEF Entry, TypeOK, Row
<1> HIDE DEF last
<1>7. ASSUME NEW k \in 1 .. v.upto, log[k].item = i
      PROVE  log[k].stamp <= log[last].stamp
    <2>1. k \in 1 .. Len(log) /\ k \in Nat
        BY <1>1
    <2>2. k <= last
        BY <1>1, <1>4, <1>5, <1>7, <2>1 DEF Page
    <2>3. CASE k = last
        BY <1>6, <2>3
    <2>4. CASE k < last
        <3>1. log[k].stamp < log[last].stamp
            BY <1>4, <1>5, <1>7, <2>1, <2>4 DEF LogOK
        <3>2. log[k] \in Entry
            BY <2>1, ElementOfSeq DEF TypeOK
        <3>3. log[k].stamp \in Nat
            BY <3>2 DEF Entry
        <3> QED BY <1>6, <3>1, <3>3
    <2> QED BY <1>5, <2>1, <2>2, <2>3, <2>4
<1>8. CASE log[last].there
    <2>1. Received(d, i) = v.got[i]
        BY <1>8 DEF Received, last
    <2>2. i \in Wanted(d)
        BY <1>4, <1>8 DEF Wanted
    <2>3. v.got[i] # None /\ v.got[i] \in Row
        BY <1>1, <1>6, <2>2 DEF Device, Copies
    <2> QED BY <1>1, <1>6, <2>1, <2>3 DEF PlaceOK, PageOK
<1>9. CASE ~log[last].there
    <2>1. Received(d, i) = Gone(log[last].stamp)
        BY <1>9 DEF Received, last
    <2>2. Received(d, i) \in Row /\ Received(d, i).stamp = log[last].stamp
        BY <1>6, <2>1 DEF Gone, Row
    <2>3. /\ log[last].stamp <= row[i].stamp
          /\ log[last].stamp = row[i].stamp => ~row[i].there
        BY <1>4, <1>5, <1>9 DEF LogOK
    <2>4. Covers(Received(d, i), i, v.upto)
        BY <1>7, <2>2 DEF Covers
    <2>5. AsShown(d, i, Received(d, i))
        <3>1. ASSUME log[last].stamp = row[i].stamp
              PROVE  Gone(row[i].stamp) = Shown(d, i)
            <4>1. ~row[i].there /\ row[i].revision = 0
                BY <1>6, <2>3, <3>1 DEF LogOK
            <4>2. row[i] = Gone(row[i].stamp)
                BY <1>6, <4>1 DEF Row, Gone
            <4> QED BY <4>2 DEF Shown
        <3> QED BY <2>1, <2>2, <3>1 DEF AsShown
    <2> QED BY <1>6, <2>2, <2>3, <2>4, <2>5
<1> QED BY <1>8, <1>9

LEMMA FinishPageStep ==
    ASSUME TypeOK, LogOK, DevicesOK, NEW d \in Devices, FinishPage(d)
    PROVE  /\ device' \in [Devices -> Device] /\ missed' \in [Devices -> SUBSET Items]
           /\ LogOK' /\ DevicesOK'
<1> DEFINE copy == [i \in Items |-> IF i \in InPage(d) THEN Received(d, i) ELSE device[d].copy[i]]
           v == [device[d] EXCEPT !.phase = "idle", !.cursor = device[d].upto, !.copy = copy,
                                  !.upto = 0, !.got = NoCopies]
<1>1. /\ device[d] \in Device /\ device' = [device EXCEPT ![d] = v] /\ device'[d] = v
      /\ device[d].phase = "paging" /\ \A i \in Wanted(d) : device[d].got[i] # None
      /\ missed' = [missed EXCEPT ![d] =
             {i \in missed[d] : i \in InPage(d) => Received(d, i) # Shown(d, i)}]
      /\ UNCHANGED <<row, log, assigned>>
      /\ PlaceOK(d) /\ CopyOK(d) /\ PageOK(d)
    BY DEF FinishPage, NextCursor, TypeOK, DevicesOK, tables
<1>2. /\ missed' \in [Devices -> SUBSET Items]
      /\ \A e \in Devices \ {d} : missed'[e] = missed[e]
      /\ missed'[d] = {i \in missed[d] : i \in InPage(d) => Received(d, i) # Shown(d, i)}
    BY <1>1 DEF TypeOK
<1>3. /\ device[d].cursor \in Nat /\ device[d].upto \in Nat /\ Len(log) \in Nat
      /\ device[d].cursor < device[d].upto /\ device[d].upto <= Len(log)
    BY <1>1, LenProperties, DeviceFields DEF TypeOK, PlaceOK
<1>4. \A i \in InPage(d) :
          /\ Received(d, i) \in Row /\ Received(d, i).stamp <= row[i].stamp
          /\ Covers(Received(d, i), i, device[d].upto)
          /\ i \notin missed[d] => AsShown(d, i, Received(d, i))
    BY <1>1, ReceivedIsNew
<1>5. /\ \A i \in Items : /\ i \in InPage(d) => copy[i] = Received(d, i)
                          /\ i \notin InPage(d) => copy[i] = device[d].copy[i]
                          /\ copy[i].stamp <= row[i].stamp
      /\ copy \in [Items -> Row]
    <2>1. \A i \in Items : device[d].copy[i] \in Row /\ device[d].copy[i].stamp <= row[i].stamp
        BY <1>1, DeviceFields DEF PlaceOK
    <2> QED BY <1>4, <2>1
<1> HIDE DEF copy
<1>6. /\ Fields(v) /\ v.phase = "idle" /\ v.next = device[d].next /\ v.got = NoCopies
      /\ v.resets = device[d].resets /\ v.copy = copy
      /\ v.cursor = device[d].upto /\ v.upto = 0
    BY <1>1 DEF Device, Fields
<1> HIDE DEF v
<1>7. v \in Device
    BY <1>1, <1>3, <1>5, <1>6, NothingRead, DeviceFields, AsDevice
<1>8. PlaceOK(d)'
    BY <1>1, <1>3, <1>5, <1>6, NothingRead DEF PlaceOK
<1>9. CopyOK(d)'
    <2> SUFFICES ASSUME NEW i \in Items \ missed'[d]
                 PROVE  Covers(copy[i], i, device[d].upto) /\ AsShown(d, i, copy[i])
        BY <1>1, <1>6 DEF CopyOK, Covers, AsShown, Shown, Visible, Sees, Gone
    <2>1. CASE i \in InPage(d)
        <3>1. i \in missed[d] => Received(d, i) = Shown(d, i)
            BY <1>2, <2>1
        <3> QED BY <1>4, <1>5, <2>1, <3>1 DEF AsShown
    <2>2. CASE i \notin InPage(d)
        <3>1. i \notin missed[d]
            BY <1>2, <2>2
        <3>2. /\ Covers(device[d].copy[i], i, device[d].cursor)
              /\ AsShown(d, i, device[d].copy[i])
            BY <1>1, <3>1 DEF CopyOK, HasCopy
        <3>3. ASSUME NEW k \in 1 .. device[d].upto, log[k].item = i
              PROVE  k \in 1 .. device[d].cursor
            <4>1. k \notin Page(d)
                BY <2>2, <3>3 DEF InPage
            <4> QED BY <1>3, <4>1 DEF Page
        <3> QED BY <1>5, <2>2, <3>2, <3>3 DEF Covers
    <2> QED BY <2>1, <2>2
<1>10. PageOK(d)'
    BY <1>1, <1>6 DEF PageOK
<1> QED BY <1>1, <1>2, <1>7, <1>8, <1>9, <1>10, OneDevice

-----------------------------------------------------------------------------
(* The invariant and what follows from it.                                     *)

LEMMA SyncInit == ASSUME Init PROVE SyncInvariant
<1>1. Gone(0) \in Row /\ Len(log) = 0 /\ log \in Seq(Entry)
    BY DEF Init, Gone, Row
<1>2. row \in [Items -> Row]
    BY DEF Init, Row
<1>3. ASSUME NEW d \in Devices
      PROVE  /\ device[d] \in Device /\ device[d].phase = "new" /\ device[d].resets = 0
             /\ device[d].cursor = 0 /\ device[d].copy = [i \in Items |-> Gone(0)]
             /\ device[d].got = NoCopies
    <2> DEFINE v == [phase |-> "new", cursor |-> 0, copy |-> [i \in Items |-> Gone(0)],
                     next |-> 0, upto |-> 0, got |-> NoCopies, resets |-> 0]
    <2>1. device[d] = v
        BY DEF Init
    <2>2. /\ Fields(v) /\ v.phase = "new" /\ v.cursor = 0 /\ v.next = 0 /\ v.upto = 0
          /\ v.copy = [i \in Items |-> Gone(0)] /\ v.got = NoCopies /\ v.resets = 0
        BY DEF Fields
    <2> HIDE DEF v
    <2>3. v \in Device
        BY <1>1, <2>2, NothingRead, AsDevice
    <2> QED BY <2>1, <2>2, <2>3
<1>4. device \in [Devices -> Device]
    <2>1. device = [d \in Devices |-> device[d]]
        BY DEF Init
    <2> QED BY <1>3, <2>1
<1>5. TypeOK
    BY <1>1, <1>2, <1>4 DEF Init, TypeOK
<1>6. AttemptsOK /\ MutationOnce /\ ToldTheTruth
    BY NoneAssumption DEF Init, AttemptsOK, MutationOnce, ToldTheTruth, Results
<1>7. LogOK
    <2>1. \A i \in Items : row[i].revision = 0 /\ row[i].stamp = 0
        BY DEF Init
    <2> QED BY <1>1, <2>1 DEF LogOK
<1>8. DevicesOK
    <2> SUFFICES ASSUME NEW d \in Devices PROVE PlaceOK(d) /\ CopyOK(d) /\ PageOK(d)
        BY DEF DevicesOK
    <2>1. \A i \in Items : device[d].copy[i].stamp = 0 /\ row[i].stamp = 0
        BY <1>3 DEF Gone, Init
    <2> QED BY <1>1, <1>3, <2>1, NothingRead DEF PlaceOK, CopyOK, PageOK, HasCopy
<1> QED BY <1>5, <1>6, <1>7, <1>8 DEF SyncInvariant

\* A step of a device changes its own place, its copy and what it missed.
LEMMA SynchronizeStep ==
    ASSUME TypeOK, LogOK, DevicesOK, Synchronize
    PROVE  TypeOK' /\ LogOK' /\ DevicesOK'
<1> PICK d \in Devices : StartBootstrap(d) \/ Poll(d) \/ LoseAnswer(d)
    BY DEF Synchronize
<1>1. UNCHANGED <<tables, queued, answer, attempt, applied>>
    BY DEF Poll, StartBootstrap, ReadTable, FinishBootstrap, StartPage, FinishPage,
           ReadPayload, LoseAnswer
<1>2. /\ device' \in [Devices -> Device] /\ missed' \in [Devices -> SUBSET Items]
      /\ losses' \in Nat
      /\ LogOK' /\ DevicesOK'
    <2>1. CASE StartBootstrap(d)
        BY <2>1, StartBootstrapStep DEF StartBootstrap, TypeOK
    <2>2. CASE ReadTable(d)
        BY <2>2, ReadTableStep DEF ReadTable, TypeOK
    <2>3. CASE FinishBootstrap(d)
        BY <2>3, FinishBootstrapStep DEF FinishBootstrap, TypeOK
    <2>4. CASE StartPage(d)
        BY <2>4, StartPageStep DEF StartPage, TypeOK
    <2>5. CASE FinishPage(d)
        BY <2>5, FinishPageStep DEF FinishPage, TypeOK
    <2>6. ASSUME NEW i \in Items, ReadPayload(d, i)
          PROVE  /\ device' \in [Devices -> Device] /\ missed' \in [Devices -> SUBSET Items]
                 /\ losses' \in Nat
                 /\ LogOK' /\ DevicesOK'
        BY <2>6, ReadPayloadStep DEF ReadPayload, TypeOK
    <2>7. CASE LoseAnswer(d)
        <3>1. losses' = losses + 1 /\ missed' = missed
            BY <2>7 DEF LoseAnswer
        <3>2. losses' \in Nat /\ missed' \in [Devices -> SUBSET Items]
            BY <3>1 DEF TypeOK
        <3> QED BY <2>7, <3>2, LoseAnswerStep
    <2> QED BY <2>1, <2>2, <2>3, <2>4, <2>5, <2>6, <2>7 DEF Poll
<1> QED BY <1>1, <1>2 DEF TypeOK, tables

LEMMA SyncStep == ASSUME SyncInvariant, [Next]_vars PROVE SyncInvariant'
<1> USE DEF SyncInvariant
<1>1. AttemptsOK' /\ MutationOnce' /\ ToldTheTruth'
    BY MutationsStep
<1>2. TypeOK' /\ LogOK' /\ DevicesOK'
    <2>1. CASE Synchronize
        BY <2>1, SynchronizeStep
    <2>2. CASE Application
        BY <2>2, ApplicationStep
    <2>3. CASE Mutate
        BY <2>3, MutateStep
    <2>4. CASE UNCHANGED vars
        <3>1. TypeOK'
            BY <2>4 DEF vars, tables, TypeOK
        <3>2. LogOK'
            BY <2>4 DEF vars, tables, LogOK
        <3>3. DevicesOK'
            BY <2>4 DEF vars, tables, DevicesOK, PlaceOK, CopyOK, PageOK, HasCopy, Covers, AsShown,
                        Shown, Visible, Sees
        <3> QED BY <3>1, <3>2, <3>3
    <2> QED BY <2>1, <2>2, <2>3, <2>4 DEF Next
<1> QED BY <1>1, <1>2

LEMMA SyncAlways == Spec => []SyncInvariant
BY SyncInit, SyncStep, PTL DEF Spec

\* The largest stamp of an item in the log is no newer than a state that covers it.
LEMMA LastStampCovered ==
    ASSUME TypeOK, NEW i \in Items, NEW n \in 0 .. Len(log), NEW r \in Row, Covers(r, i, n)
    PROVE  LastStamp(i, n) <= r.stamp
<1> DEFINE stamps == {log[k].stamp : k \in {j \in 1 .. n : log[j].item = i}}
<1>1. r.stamp \in Nat /\ Len(log) \in Nat
    BY LenProperties DEF Row, TypeOK
<1>2. ASSUME NEW k \in 1 .. n
      PROVE  log[k].stamp \in Nat
    <2>1. log[k] \in Entry
        BY <1>1, ElementOfSeq DEF TypeOK
    <2> QED BY <2>1 DEF Entry
<1>3. stamps \subseteq Nat /\ \A s \in stamps : s <= r.stamp
    BY <1>2 DEF Covers
<1>4. LastStamp(i, n) = IF stamps = {} THEN 0 ELSE Max(stamps)
    BY DEF LastStamp
<1> HIDE DEF stamps
<1>5. CASE stamps = {}
    BY <1>1, <1>4, <1>5
<1>6. CASE stamps # {}
    <2>1. \E s \in stamps : \A t \in stamps : t <= s
        BY <1>1, <1>3, <1>6, LargestNumber
    <2>2. \E s \in stamps : \A t \in stamps : s >= t
        BY <1>3, <2>1
    <2>3. Max(stamps) \in stamps
        BY <2>2 DEF Max
    <2> QED BY <1>3, <1>4, <1>6, <2>3
<1> QED BY <1>5, <1>6

\* The tables, the log, the devices and the batches in progress keep their types.
THEOREM TypeCorrect == Spec => []TypeOK
BY SyncAlways, PTL DEF SyncInvariant

\* A mutation that is sent again, while earlier attempts run or after their answers were
\* lost, is applied once if its receipt says so and never otherwise: the receipt is
\* written by the transaction that applies it, and is unique (sync.py, push_mutations).
THEOREM MutationsApplyOnce == Spec => []MutationOnce
BY SyncAlways, PTL DEF SyncInvariant

\* What a device was told of a mutation is what its receipt says: a receipt is never
\* written again, and a repeated mutation is answered from it.
THEOREM DevicesAreToldTheTruth == Spec => []ToldTheTruth
BY SyncAlways, PTL DEF SyncInvariant

\* However the log is cut into pages and whatever is committed between reading an entry
\* and the row of its item, a device has of every item a state that is no older than its
\* cursor, but for what a bootstrap or a change of sheikh made it miss.
THEOREM CopiesAreAsNewAsCursors == Spec => []AsNewAsCursor
<1>1. SyncInvariant => AsNewAsCursor
    <2> SUFFICES ASSUME SyncInvariant, NEW d \in Devices, device[d].phase \in {"idle", "paging"},
                        NEW i \in Items \ missed[d]
                 PROVE  /\ LastStamp(i, device[d].cursor) <= device[d].copy[i].stamp
                        /\ device[d].copy[i].stamp = row[i].stamp => device[d].copy[i] = Shown(d, i)
        BY DEF AsNewAsCursor
    <2>1. /\ TypeOK /\ PlaceOK(d) /\ CopyOK(d) /\ device[d] \in Device
        BY DEF SyncInvariant, DevicesOK, TypeOK
    <2>2. Covers(device[d].copy[i], i, device[d].cursor) /\ AsShown(d, i, device[d].copy[i])
        BY <2>1 DEF CopyOK, HasCopy
    <2>3. /\ device[d].copy[i] \in Row /\ device[d].cursor \in Nat /\ Len(log) \in Nat
          /\ device[d].cursor <= Len(log)
        BY <2>1, DeviceFields, LenProperties DEF TypeOK, PlaceOK
    <2>4. LastStamp(i, device[d].cursor) <= device[d].copy[i].stamp
        BY <2>1, <2>2, <2>3, LastStampCovered
    <2> QED BY <2>2, <2>4 DEF AsShown
<1> QED BY <1>1, SyncAlways, PTL

\* A device that has taken the last entry of the log has every row as it may see it now,
\* but for what it missed: nothing that was committed is left out of the log.
THEOREM CopiesAreCurrentAtTheEnd == Spec => []CurrentAtTheEnd
<1>1. SyncInvariant => CurrentAtTheEnd
    <2> SUFFICES ASSUME SyncInvariant, NEW d \in Devices, HasCopy(d), device[d].cursor = Len(log),
                        NEW i \in Items \ missed[d]
                 PROVE  device[d].copy[i] = Shown(d, i)
        BY DEF CurrentAtTheEnd
    <2>1. /\ TypeOK /\ LogOK /\ PlaceOK(d) /\ CopyOK(d) /\ device[d] \in Device
        BY DEF SyncInvariant, DevicesOK, TypeOK
    <2>2. Covers(device[d].copy[i], i, Len(log)) /\ AsShown(d, i, device[d].copy[i])
        BY <2>1 DEF CopyOK
    <2>3. /\ device[d].copy[i].stamp \in Nat /\ row[i].stamp \in Nat
          /\ device[d].copy[i].stamp <= row[i].stamp
        BY <2>1, DeviceFields DEF TypeOK, PlaceOK, Row
    <2>4. row[i].stamp <= device[d].copy[i].stamp
        <3>1. CASE row[i].stamp = 0
            BY <2>3, <3>1
        <3>2. CASE row[i].stamp > 0
            BY <2>1, <2>2, <3>2 DEF LogOK, Covers
        <3> QED BY <2>3, <3>1, <3>2
    <2>5. device[d].copy[i].stamp = row[i].stamp
        BY <2>3, <2>4
    <2> QED BY <2>2, <2>5 DEF AsShown
<1> QED BY <1>1, SyncAlways, PTL

=============================================================================
