------------------------------ MODULE Study_proofs ------------------------------
(***************************************************************************)
(* Proofs about the progress of recitation, the sessions of devices, backups *)
(* and upgrades; for any book, plans, entries, batches, accounts, devices,  *)
(* calls, intervals, commits and crashes.                                   *)
(***************************************************************************)
EXTENDS Progress, Devices, Backups, Migrations, FiniteSetTheorems, WellFoundedInduction, TLAPS

-----------------------------------------------------------------------------
(***************************************************************************)
(* Mushaf and Progress: the cursor of a plan leaves no page or ayah out.   *)
(***************************************************************************)

\* A set of numbers that is bounded has a largest one.
LEMMA LargestNumber ==
    ASSUME NEW S \in SUBSET Nat, S # {}, NEW b \in Nat, \A n \in S : n <= b
    PROVE  \E n \in S : \A m \in S : m <= n
<1> DEFINE above(k) == {x \in S : k < x}
           T == {above(k) : k \in S}
           R == StrictSubsetOrdering(S)
<1>1. IsFiniteSet(S)
    BY FS_BoundedSetOfNaturals
<1>2. T \subseteq SUBSET S /\ T # {}
    OBVIOUS
<1>3. IsWellFoundedOn(R, SUBSET S)
    BY <1>1, FS_FiniteSubsetsOfFinite, FS_StrictSubsetOrderingWellFounded
<1>4. PICK least \in T : \A U \in T : ~ (<<U, least>> \in R)
    <2> HIDE DEF T, R
    <2> QED BY <1>2, <1>3, WFMin
<1>5. PICK n \in S : least = above(n)
    OBVIOUS
<1>6. ASSUME NEW k \in S, n < k
      PROVE  FALSE
    <2>1. above(k) \subseteq above(n) /\ above(k) # above(n)
        <3>1. k \in above(n) /\ k \notin above(k)
            BY <1>6
        <3>2. \A x \in S : k < x => n < x
            BY <1>6
        <3> QED BY <3>1, <3>2
    <2>2. above(k) \in T /\ above(k) \subseteq S /\ above(n) \subseteq S
        OBVIOUS
    <2>3. <<above(k), above(n)>> \in R
        <3> HIDE DEF above
        <3> QED BY <2>1, <2>2 DEF StrictSubsetOrdering
    <2> QED BY <1>4, <1>5, <2>2, <2>3
<1> QED BY <1>6


\* A set that holds 1 and, with every number up to n, the next one.
LEMMA Climbing ==
    ASSUME NEW n \in Nat, NEW T, 1 \in T, \A m \in 1..n : m \in T => m + 1 \in T
    PROVE  1..n + 1 \subseteq T
<1> SUFFICES ASSUME NEW k \in 1..n + 1, k \notin T PROVE FALSE
    OBVIOUS
<1> DEFINE below == {m \in 1..n + 1 : m \in T /\ m < k}
<1>1. below \in SUBSET Nat /\ below # {} /\ n + 1 \in Nat /\ \A m \in below : m <= n + 1
    <2>1. 1 # k
        OBVIOUS
    <2>2. 1 \in below
        BY <2>1
    <2> QED BY <2>2
<1>2. PICK m \in below : \A x \in below : x <= m
    <2> HIDE DEF below
    <2> QED BY <1>1, LargestNumber
<1>3. m \in 1..n /\ m + 1 \in T /\ m + 1 <= k /\ m + 1 # k
    <2>1. m \in 1..n /\ m \in T /\ m + 1 <= k
        OBVIOUS
    <2> HIDE DEF below
    <2> QED BY <2>1
<1>4. m + 1 \in below
    BY <1>3
<1> HIDE DEF below
<1> QED BY <1>1, <1>2, <1>4

Surahs == 1..Len(SurahAyahs)

LEMMA SurahLengths ==
    /\ Len(SurahAyahs) \in Nat \ {0} /\ DOMAIN SurahAyahs = Surahs
    /\ \A s \in Surahs : SurahAyahs[s] \in Nat \ {0}
BY MushafAssumption DEF Surahs

\* f has the first ayahs of the surahs up to the m-th.
Firsts(f, m) == \A s \in 1..m : f[s] = IF s = 1 THEN 1 ELSE f[s - 1] + SurahAyahs[s - 1]

\* The recursion has a value: the longest part of it that has one is all of it.
LEMMA FirstsExist ==
    \E f \in [1..Len(SurahAyahs) + 1 -> Nat] : Firsts(f, Len(SurahAyahs) + 1)
<1> DEFINE n == Len(SurahAyahs)
           T == {m \in Nat : \E f \in [1..m -> Nat] : Firsts(f, m)}
<1>1. n \in Nat /\ n + 1 \in 1..n + 1
    BY SurahLengths
<1>2. 1 \in T
    <2>1. [s \in 1..1 |-> 1] \in [1..1 -> Nat] /\ Firsts([s \in 1..1 |-> 1], 1)
        BY DEF Firsts
    <2> QED BY <2>1
<1>3. ASSUME NEW m \in 1..n, m \in T
      PROVE  m + 1 \in T
    <2>1. m \in Surahs /\ SurahAyahs[m] \in Nat /\ m \in Nat
        BY SurahLengths DEF Surahs
    <2>2. PICK f \in [1..m -> Nat] : Firsts(f, m)
        BY <1>3
    <2> DEFINE g == [s \in 1..m + 1 |-> IF s = m + 1 THEN f[m] + SurahAyahs[m] ELSE f[s]]
    <2>3. m \in 1..m /\ f[m] + SurahAyahs[m] \in Nat
        BY <2>1 DEF Surahs
    <2>4. g \in [1..m + 1 -> Nat]
        BY <2>1, <2>3
    <2>5. ASSUME NEW s \in 1..m + 1
          PROVE  g[s] = IF s = 1 THEN 1 ELSE g[s - 1] + SurahAyahs[s - 1]
        <3>1. CASE s = m + 1
            <4>1. s # 1 /\ s - 1 = m /\ m \in 1..m + 1 /\ m # m + 1
                BY <2>1, <3>1 DEF Surahs
            <4>2. g[s] = f[m] + SurahAyahs[m] /\ g[m] = f[m]
                BY <3>1, <4>1
            <4> QED BY <4>1, <4>2
        <3>2. CASE s # m + 1
            <4>1. s \in 1..m /\ (s # 1 => s - 1 \in 1..m + 1 /\ s - 1 # m + 1)
                BY <2>1, <3>2
            <4>2. g[s] = f[s] /\ (s # 1 => g[s - 1] = f[s - 1])
                BY <3>2, <4>1
            <4> QED BY <2>2, <4>1, <4>2 DEF Firsts
        <3> QED BY <3>1, <3>2
    <2>6. Firsts(g, m + 1)
        BY <2>5 DEF Firsts
    <2>7. \E h \in [1..m + 1 -> Nat] : Firsts(h, m + 1)
        <3> HIDE DEF g
        <3> QED BY <2>4, <2>6
    <2> QED BY <2>1, <2>7
<1>4. 1..n + 1 \subseteq T
    <2> HIDE DEF T, n
    <2> QED BY <1>1, <1>2, <1>3, Climbing
<1> QED BY <1>1, <1>4

\* What the recursive definition says, for every surah and the end of the book.
LEMMA SurahFirstIs ==
    /\ SurahFirst \in [1..Len(SurahAyahs) + 1 -> Nat]
    /\ SurahFirst[1] = 1
    /\ \A s \in Surahs : SurahFirst[s + 1] = SurahFirst[s] + SurahAyahs[s]
<1> DEFINE n == Len(SurahAyahs)
           D == 1..n + 1
           Body(f) == [s \in D |-> IF s = 1 THEN 1 ELSE f[s - 1] + SurahAyahs[s - 1]]
<1>1. n \in Nat \ {0}
    BY SurahLengths
<1>2. PICK f \in [D -> Nat] : Firsts(f, n + 1)
    BY FirstsExist
<1>3. f = Body(f)
    BY <1>2 DEF Firsts
<1>4. SurahFirst = CHOOSE g : g = Body(g)
    BY DEF SurahFirst
<1>5. SurahFirst = Body(SurahFirst)
    <2> HIDE DEF Body
    <2> QED BY <1>3, <1>4
<1>6. \A s \in D : SurahFirst[s] = IF s = 1 THEN 1 ELSE SurahFirst[s - 1] + SurahAyahs[s - 1]
    <2>1. \A g : Body(g) = [s \in D |-> IF s = 1 THEN 1 ELSE g[s - 1] + SurahAyahs[s - 1]]
        OBVIOUS
    <2> HIDE DEF Body
    <2> QED BY <1>5, <2>1
<1>7. SurahFirst \in [D -> Nat]
    <2> DEFINE T == {s \in D : SurahFirst[s] \in Nat}
    <2>1. DOMAIN SurahFirst = D /\ SurahFirst = [s \in D |-> SurahFirst[s]]
        <3>1. \A g : DOMAIN Body(g) = D /\ Body(g) = [s \in D |-> Body(g)[s]]
            OBVIOUS
        <3> HIDE DEF Body, D
        <3> QED BY <1>5, <3>1
    <2>2. 1 \in T
        BY <1>1, <1>6
    <2>3. ASSUME NEW m \in 1..n, m \in T
          PROVE  m + 1 \in T
        <3>1. m + 1 \in D /\ m + 1 # 1 /\ m + 1 - 1 = m
            BY <1>1
        <3>2. SurahAyahs[m] \in Nat
            BY SurahLengths DEF Surahs
        <3>3. SurahFirst[m + 1] = SurahFirst[m] + SurahAyahs[m]
            BY <1>6, <3>1
        <3> QED BY <2>3, <3>1, <3>2, <3>3
    <2>4. D \subseteq T
        <3> HIDE DEF T
        <3> QED BY <1>1, <2>2, <2>3, Climbing
    <2> HIDE DEF D
    <2> QED BY <2>1, <2>4
<1>8. SurahFirst[1] = 1
    BY <1>1, <1>6
<1>9. ASSUME NEW s \in Surahs
      PROVE  SurahFirst[s + 1] = SurahFirst[s] + SurahAyahs[s]
    <2>1. s + 1 \in D /\ s + 1 # 1 /\ s + 1 - 1 = s
        BY <1>1 DEF Surahs
    <2>2. PICK t \in D : t = s + 1 /\ t - 1 = s
        BY <2>1 DEF Surahs
    <2>3. SurahFirst[t] = SurahFirst[t - 1] + SurahAyahs[t - 1]
        BY <1>6, <2>1, <2>2
    <2> QED BY <2>2, <2>3
<1> QED BY <1>7, <1>8, <1>9

\* A later surah starts at a later ayah.
LEMMA SurahsAscend ==
    ASSUME NEW s \in 1..Len(SurahAyahs) + 1, NEW t \in 1..Len(SurahAyahs) + 1, s < t
    PROVE  SurahFirst[s] < SurahFirst[t]
<1> DEFINE n == Len(SurahAyahs)
           T == {k \in 1..n + 1 : s < k => SurahFirst[s] < SurahFirst[k]}
<1>1. n \in Nat /\ 1 \in T
    BY SurahLengths
<1>2. ASSUME NEW m \in 1..n, m \in T
      PROVE  m + 1 \in T
    <2>1. m + 1 \in 1..n + 1 /\ m \in 1..n + 1
        BY <1>1
    <2>2. SurahFirst[m + 1] = SurahFirst[m] + SurahAyahs[m] /\ SurahAyahs[m] \in Nat \ {0}
        BY SurahFirstIs, SurahLengths DEF Surahs
    <2>3. SurahFirst[m] \in Nat /\ SurahFirst[s] \in Nat
        BY <2>1, SurahFirstIs
    <2>4. s < m + 1 => s < m \/ s = m
        BY <1>1
    <2> QED BY <1>2, <2>1, <2>2, <2>3, <2>4
<1>3. t \in T
    <2> HIDE DEF T
    <2> QED BY <1>1, <1>2, Climbing
<1> QED BY <1>3

\* The surah of an ayah is the one it lies in.
LEMMA SurahOfIs ==
    ASSUME NEW a \in Ayahs
    PROVE  /\ SurahOf(a) \in Surahs
           /\ SurahFirst[SurahOf(a)] <= a
           /\ a < SurahFirst[SurahOf(a) + 1]
           /\ \A s \in Surahs : SurahFirst[s] <= a /\ a < SurahFirst[s + 1] => SurahOf(a) = s
<1> DEFINE n == Len(SurahAyahs)
           begun == {s \in DOMAIN SurahAyahs : SurahFirst[s] <= a}
<1>1. n \in Nat \ {0} /\ DOMAIN SurahAyahs = 1..n /\ 1 \in 1..n
    BY SurahLengths DEF Surahs
<1>2. \A s \in 1..n + 1 : SurahFirst[s] \in Nat
    BY SurahFirstIs
<1>3. a \in Nat \ {0} /\ a < SurahFirst[n + 1]
    BY <1>1, <1>2 DEF Ayahs, LastAyah
<1>4. begun \in SUBSET Nat /\ begun # {} /\ \A s \in begun : s <= n
    BY <1>1, <1>3, SurahFirstIs
<1>5. PICK k \in begun : \A s \in begun : s <= k
    <2> HIDE DEF begun, n
    <2> QED BY <1>1, <1>4, LargestNumber
<1>6. k \in 1..n /\ SurahFirst[k] <= a
    BY <1>1
<1>7. begun = 1..k
    <2>1. ASSUME NEW s \in 1..k PROVE s \in begun
        <3>1. s \in 1..n /\ s \in 1..n + 1 /\ k \in 1..n + 1 /\ (s = k \/ s < k)
            BY <1>1, <1>6
        <3>2. SurahFirst[s] <= SurahFirst[k]
            BY <1>2, <3>1, SurahsAscend
        <3> QED BY <1>1, <1>2, <1>3, <1>6, <3>1, <3>2
    <2>2. ASSUME NEW s \in begun PROVE s \in 1..k
        <3>1. s \in 1..n
            BY <1>1
        <3>2. s <= k
            BY <1>5
        <3> QED BY <1>1, <1>6, <3>1, <3>2
    <2> QED BY <2>1, <2>2
<1>8. SurahOf(a) = k
    <2>1. SurahOf(a) = Cardinality(1..k)
        <3>1. SurahOf(a) = Cardinality(begun)
            BY DEF SurahOf
        <3> HIDE DEF begun
        <3> QED BY <1>7, <3>1
    <2>2. k \in Nat /\ k >= 1
        BY <1>1, <1>6
    <2>3. Cardinality(1..k) = k
        BY <2>2, FS_Interval
    <2> QED BY <2>1, <2>3
<1>9. a < SurahFirst[k + 1]
    <2>1. CASE k = n
        BY <1>3, <2>1
    <2>2. CASE k # n
        <3>1. k + 1 \in 1..n /\ k + 1 \in 1..n + 1 /\ k + 1 \notin begun
            BY <1>1, <1>6, <1>7, <2>2
        <3> QED BY <1>1, <1>2, <1>3, <3>1
    <2> QED BY <2>1, <2>2
<1>10. ASSUME NEW s \in Surahs, SurahFirst[s] <= a, a < SurahFirst[s + 1]
       PROVE  s = k
    <2>1. s \in 1..n /\ s + 1 \in 1..n + 1 /\ k + 1 \in 1..n + 1 /\ s \in begun
        BY <1>1, <1>6, <1>10 DEF Surahs
    <2>2. s <= k
        <3> HIDE DEF begun
        <3> QED BY <1>5, <2>1
    <2>3. ~ (s + 1 <= k)
        <3> SUFFICES ASSUME s + 1 <= k PROVE FALSE
            OBVIOUS
        <3>1. s + 1 \in begun
            BY <1>7, <2>1
        <3> QED BY <1>2, <1>3, <1>10, <2>1, <3>1
    <2> QED BY <1>1, <1>6, <2>1, <2>2, <2>3
<1> QED BY <1>1, <1>6, <1>8, <1>9, <1>10 DEF Surahs

\* The book has ayahs.
LEMMA AyahsAreNumbers ==
    /\ Len(SurahAyahs) \in Nat \ {0} /\ LastAyah \in Nat \ {0} /\ 1 \in Ayahs
    /\ \A a \in Ayahs : a \in Nat \ {0} /\ a <= LastAyah
<1> DEFINE n == Len(SurahAyahs)
<1>1. n \in Nat \ {0}
    BY SurahLengths
<1>2. SurahFirst[n + 1] \in Nat /\ SurahFirst[1] = 1 /\ SurahFirst[1] < SurahFirst[n + 1]
    <2>1. 1 \in 1..n + 1 /\ n + 1 \in 1..n + 1 /\ 1 < n + 1
        BY <1>1
    <2> QED BY <2>1, SurahFirstIs, SurahsAscend
<1>3. LastAyah = SurahFirst[n + 1] - 1
    BY DEF LastAyah
<1> HIDE DEF n
<1>4. LastAyah \in Nat \ {0}
    BY <1>2, <1>3
<1> QED BY <1>1, <1>4 DEF Ayahs, n

\* The numbers of a surah's ayahs.
LEMMA SurahBounds ==
    ASSUME NEW a \in Ayahs
    PROVE  /\ a \in Nat \ {0} /\ SurahOf(a) \in Nat \ {0} /\ SurahOf(a) <= Len(SurahAyahs)
           /\ SurahFirst[SurahOf(a)] \in Nat \ {0} /\ SurahFirst[SurahOf(a)] <= a
           /\ a <= SurahEnd(a) /\ SurahEnd(a) \in Ayahs
           /\ SurahEnd(a) = SurahFirst[SurahOf(a) + 1] - 1
<1> DEFINE n == Len(SurahAyahs)
           s == SurahOf(a)
<1>1. n \in Nat \ {0} /\ SurahFirst[n + 1] \in Nat
    BY SurahLengths, SurahFirstIs
<1>2. a \in Nat \ {0}
    BY DEF Ayahs
<1>3. s \in 1..n /\ SurahFirst[s] <= a /\ a < SurahFirst[s + 1]
    BY SurahOfIs DEF Surahs
<1> HIDE DEF n, s
<1>4. s \in 1..n + 1 /\ s + 1 \in 1..n + 1 /\ 1 \in 1..n + 1 /\ n + 1 \in 1..n + 1
    BY <1>1, <1>3
<1>5. SurahFirst[s] \in Nat /\ SurahFirst[s + 1] \in Nat /\ SurahFirst[1] = 1
    BY <1>4, SurahFirstIs DEF n
<1>6. SurahFirst[s] # 0
    <2>1. s # 1 => 1 < s
        BY <1>3
    <2>2. s # 1 => SurahFirst[1] < SurahFirst[s]
        BY <1>4, <2>1, SurahsAscend DEF n
    <2> QED BY <1>5, <2>2
<1>7. SurahFirst[s + 1] <= SurahFirst[n + 1]
    <2>1. s # n => s + 1 < n + 1
        BY <1>1, <1>3
    <2>2. s # n => SurahFirst[s + 1] < SurahFirst[n + 1]
        BY <1>4, <2>1, SurahsAscend DEF n
    <2> QED BY <1>1, <1>5, <2>2
<1>8. SurahEnd(a) = SurahFirst[s + 1] - 1 /\ LastAyah = SurahFirst[n + 1] - 1
    BY DEF SurahEnd, LastAyah, s, n
<1>9. SurahEnd(a) \in Ayahs /\ a <= SurahEnd(a)
    BY <1>1, <1>2, <1>3, <1>5, <1>7, <1>8 DEF Ayahs
<1> QED BY <1>1, <1>2, <1>3, <1>5, <1>6, <1>8, <1>9 DEF n, s

\* Up to its end, a surah is one.
LEMMA InOneSurah ==
    ASSUME NEW a \in Ayahs, NEW e \in Int, a <= e, e <= SurahEnd(a)
    PROVE  e \in Ayahs /\ SurahOf(e) = SurahOf(a) /\ SurahEnd(e) = SurahEnd(a)
<1>1. SurahEnd(a) \in Ayahs /\ a \in Ayahs /\ LastAyah \in Int
    BY SurahBounds, AyahsAreNumbers
<1>2. e \in Ayahs
    BY <1>1 DEF Ayahs
<1>3. SurahOf(a) \in Surahs /\ SurahFirst[SurahOf(a)] <= e /\ e < SurahFirst[SurahOf(a) + 1]
    <2>1. SurahOf(a) \in Surahs /\ SurahFirst[SurahOf(a)] <= a
        BY SurahOfIs
    <2>2. SurahFirst[SurahOf(a)] \in Nat /\ SurahEnd(a) = SurahFirst[SurahOf(a) + 1] - 1
          /\ a \in Nat /\ SurahFirst[SurahOf(a) + 1] \in Nat
        <3>1. SurahOf(a) + 1 \in 1..Len(SurahAyahs) + 1
            BY SurahBounds, SurahLengths
        <3> QED BY <3>1, SurahBounds, SurahFirstIs
    <2> QED BY <2>1, <2>2
<1>4. SurahOf(e) = SurahOf(a)
    BY <1>2, <1>3, SurahOfIs
<1> QED BY <1>2, <1>4 DEF SurahEnd

\* What comes next in the backward order.
LEMMA NextBackward ==
    ASSUME NEW a \in Ayahs
    PROVE  /\ a < SurahEnd(a) =>
                 NextReverseAyah(a) = a + 1 /\ a + 1 \in Ayahs /\ SurahOf(a + 1) = SurahOf(a)
           /\ a = SurahEnd(a) /\ SurahOf(a) > 1 =>
                 LET next == SurahFirst[SurahOf(a) - 1] IN
                 NextReverseAyah(a) = next /\ next \in Ayahs /\ SurahOf(next) = SurahOf(a) - 1
           /\ a = SurahEnd(a) /\ SurahOf(a) = 1 => NextReverseAyah(a) = None
<1> DEFINE s == SurahOf(a)
           n == Len(SurahAyahs)
<1>1. /\ a \in Nat \ {0} /\ s \in Nat \ {0} /\ s <= n /\ SurahEnd(a) \in Int
      /\ SurahFirst[s] \in Nat \ {0} /\ SurahFirst[s] <= a
      /\ n \in Nat \ {0} /\ LastAyah \in Int
    BY SurahBounds, AyahsAreNumbers
<1>2. ASSUME a < SurahEnd(a)
      PROVE  NextReverseAyah(a) = a + 1 /\ a + 1 \in Ayahs /\ SurahOf(a + 1) = SurahOf(a)
    <2>1. a + 1 <= SurahEnd(a) /\ a <= a + 1 /\ a + 1 \in Int
        BY <1>1, <1>2
    <2> QED BY <1>2, <2>1, InOneSurah DEF NextReverseAyah
<1>3. ASSUME a = SurahEnd(a), s > 1
      PROVE  LET next == SurahFirst[s - 1] IN
             NextReverseAyah(a) = next /\ next \in Ayahs /\ SurahOf(next) = s - 1
    <2> DEFINE next == SurahFirst[s - 1]
    <2> HIDE DEF s
    <2>1. /\ s - 1 \in 1..n /\ s - 1 \in 1..n + 1 /\ s \in 1..n + 1 /\ 1 \in 1..n + 1
          /\ s - 1 < s /\ (s - 1 = 1 \/ 1 < s - 1) /\ s - 1 + 1 = s
        BY <1>1, <1>3
    <2>2. next \in Nat /\ SurahFirst[1] = 1 /\ SurahFirst[s - 1] < SurahFirst[s]
        BY <2>1, SurahFirstIs, SurahsAscend
    <2>3. next # 0
        BY <2>1, <2>2, SurahsAscend
    <2>4. a <= LastAyah
        BY DEF Ayahs
    <2>5. next \in Ayahs
        BY <1>1, <2>2, <2>3, <2>4 DEF Ayahs
    <2>6. SurahOf(next) = s - 1
        BY <2>1, <2>2, <2>5, SurahOfIs DEF Surahs
    <2>7. NextReverseAyah(a) = next
        BY <1>1, <1>3 DEF NextReverseAyah, s
    <2> QED BY <2>5, <2>6, <2>7
<1>4. ASSUME a = SurahEnd(a), s = 1
      PROVE  NextReverseAyah(a) = None
    BY <1>1, <1>4 DEF NextReverseAyah
<1> QED BY <1>2, <1>3, <1>4

\* What comes after a place is a place, and every place on the way is behind it
\* or it: After leaves none out. At the end of the way there is none after.
LEMMA AfterIsNext ==
    ASSUME NEW k \in Kinds, NEW d \in Directions, NEW x \in Places(k), NEW y \in Places(k)
    PROVE  /\ After(k, d, x) = None => Precedes(k, d, y, x)
           /\ After(k, d, x) # None =>
                 /\ After(k, d, x) \in Places(k)
                 /\ ~Precedes(k, d, After(k, d, x), y) => Precedes(k, d, y, x)
<1> USE ProgressAssumption
<1>1. SurahFirst[Len(SurahAyahs) + 1] \in Nat /\ LastAyah \in Int
    BY SurahFirstIs, SurahLengths DEF LastAyah
<1>2. CASE d = "forward"
    BY <1>1, <1>2 DEF Kinds, Places, Ayahs, After, Precedes, NextAyah, Lesser
<1>3. CASE d = "backward" /\ k = "page"
    BY <1>3 DEF Places, After, Precedes
<1>4. CASE d = "backward" /\ k = "ayah"
    <2> DEFINE s == SurahOf(x)
               t == SurahOf(y)
               next == NextReverseAyah(x)
    <2>1. /\ x \in Ayahs /\ y \in Ayahs
          /\ After(k, d, x) = next
          /\ Places(k) = Ayahs
          /\ \A a, b \in Ayahs : (Precedes(k, d, a, b) <=> Reads(a, b))
          /\ \A a \in Ayahs : a # None
        BY <1>1, <1>4 DEF Places, After, Precedes, Ayahs
    <2>2. /\ x \in Int /\ SurahEnd(x) \in Int /\ x <= SurahEnd(x) /\ s \in Nat \ {0}
          /\ y \in Int /\ SurahEnd(y) \in Int /\ y <= SurahEnd(y) /\ t \in Nat \ {0}
          /\ t = s => SurahEnd(y) = SurahEnd(x)
          /\ SurahFirst[t] <= y
        BY <2>1, SurahBounds, AyahsAreNumbers DEF SurahEnd
    <2>3. Reads(y, x) <=> (t > s \/ (t = s /\ y <= x))
        BY DEF Reads
    <2>4. CASE x < SurahEnd(x)
        <3>1. next = x + 1 /\ x + 1 \in Ayahs /\ SurahOf(x + 1) = s
            BY <2>1, <2>4, NextBackward
        <3> HIDE DEF next, s, t
        <3>2. Reads(x + 1, y) <=> (s > t \/ (s = t /\ x + 1 <= y))
            BY <3>1 DEF Reads, t
        <3>3. ~Reads(x + 1, y) => Reads(y, x)
            BY <2>2, <2>3, <3>2
        <3> QED BY <2>1, <3>1, <3>3
    <2>5. CASE x = SurahEnd(x) /\ s > 1
        <3>1. next = SurahFirst[s - 1] /\ next \in Ayahs /\ SurahOf(next) = s - 1
            BY <2>1, <2>5, NextBackward
        <3> HIDE DEF next, s, t
        <3>2. Reads(next, y) <=> (s - 1 > t \/ (s - 1 = t /\ next <= y))
            BY <3>1 DEF Reads, t
        <3>3. ~Reads(next, y) => Reads(y, x)
            BY <2>2, <2>3, <2>5, <3>1, <3>2
        <3> QED BY <2>1, <3>1, <3>3
    <2>6. CASE x = SurahEnd(x) /\ s = 1
        <3>1. next = None
            BY <2>1, <2>6, NextBackward
        <3> HIDE DEF next, s, t
        <3>2. Reads(y, x)
            BY <2>2, <2>3, <2>6
        <3> QED BY <2>1, <3>1, <3>2
    <2>7. x < SurahEnd(x) \/ x = SurahEnd(x)
        BY <2>2
    <2>8. s = 1 \/ s > 1
        BY <2>2
    <2> QED BY <2>4, <2>5, <2>6, <2>7, <2>8
<1> QED BY <1>2, <1>3, <1>4 DEF Kinds, Directions

-----------------------------------------------------------------------------
(* Progress: no place is passed by.                                          *)

LEMMA WardFields ==
    ASSUME NEW w \in Ward
    PROVE  /\ w.kind \in Kinds /\ w.direction \in Directions
           /\ w.completed \in BOOLEAN /\ w # None
           /\ w.id \in 1..MaxWardId
           /\ w.page \in Nullable /\ w.surah \in Nullable /\ w.ayah \in Nullable
BY ProgressAssumption DEF Ward

LEMMA ItemFields ==
    ASSUME NEW i \in Items
    PROVE  /\ i.kind \in Kinds /\ i.direction \in Directions
           /\ i.from \in Places(i.kind) /\ i.to \in Places(i.kind)
           /\ Precedes(i.kind, i.direction, i.from, i.to)
BY DEF Items

LEMMA InSurahIs ==
    ASSUME NEW a \in Ayahs
    PROVE  SurahOf(a) \in Nat /\ InSurah(a) \in Nat /\ a = InSurah(a) + SurahFirst[SurahOf(a)] - 1
<1>1. /\ a \in Nat /\ SurahFirst[SurahOf(a)] \in Nat /\ SurahFirst[SurahOf(a)] <= a
      /\ SurahOf(a) \in Nat
    BY SurahBounds
<1> QED BY <1>1 DEF InSurah

\* The columns of a plan name one place.
LEMMA OnePlaceNamed ==
    ASSUME NEW w, NEW x \in Places(w.kind), NEW y \in Places(w.kind), w.kind \in Kinds,
           Names(w, x), Names(w, y)
    PROVE  x = y
<1>1. CASE w.kind = "page"
    BY <1>1 DEF Names
<1>2. CASE w.kind = "ayah"
    <2>1. x \in Ayahs /\ y \in Ayahs /\ SurahOf(x) = SurahOf(y) /\ InSurah(x) = InSurah(y)
        BY <1>2 DEF Names, Places
    <2>2. /\ x = InSurah(x) + SurahFirst[SurahOf(x)] - 1
          /\ y = InSurah(y) + SurahFirst[SurahOf(y)] - 1
        BY <2>1, InSurahIs
    <2> QED BY <2>1, <2>2
<1> QED BY <1>1, <1>2 DEF Kinds

\* A plan with its cursor set to a place.
LEMMA SetToIs ==
    ASSUME NEW w \in Ward, NEW x \in Places(w.kind)
    PROVE  LET v == SetTo(w, x) IN
           /\ v \in Ward /\ Names(v, x)
           /\ v.id = w.id /\ v.kind = w.kind /\ v.direction = w.direction
           /\ v.completed = w.completed
           /\ w.kind = "page" => v.page = x /\ v.surah = w.surah /\ v.ayah = w.ayah
<1>1. CASE w.kind = "page"
    <2> DEFINE v == [w EXCEPT !.page = x]
    <2>1. SetTo(w, x) = v
        BY <1>1 DEF SetTo
    <2>2. x \in Nullable
        BY <1>1, ProgressAssumption DEF Places, Nullable
    <2>3. /\ v \in Ward /\ v.page = x /\ v.id = w.id /\ v.kind = w.kind
          /\ v.direction = w.direction /\ v.completed = w.completed
          /\ v.surah = w.surah /\ v.ayah = w.ayah
        BY <2>2 DEF Ward
    <2> HIDE DEF v
    <2> QED BY <1>1, <2>1, <2>3 DEF Names
<1>2. CASE w.kind = "ayah"
    <2> DEFINE s == SurahOf(x)
               a == InSurah(x)
               v == [w EXCEPT !.surah = s, !.ayah = a]
    <2>1. SetTo(w, x) = v
        BY <1>2 DEF SetTo
    <2>2. s \in Nullable /\ a \in Nullable
        BY <1>2, InSurahIs DEF Places, Nullable
    <2> HIDE DEF s, a
    <2>3. /\ v \in Ward /\ v.surah = s /\ v.ayah = a /\ v.id = w.id /\ v.kind = w.kind
          /\ v.direction = w.direction /\ v.completed = w.completed
        BY <2>2 DEF Ward
    <2> HIDE DEF v
    <2> QED BY <1>2, <2>1, <2>3 DEF Names, s, a
<1> QED BY <1>1, <1>2, WardFields DEF Kinds

\* What is written when some columns have changed.
LEMMA ChangedIs ==
    ASSUME NEW now \in Ward, NEW was \in Ward, NEW new \in Ward
    PROVE  LET v == Changed(now, was, new) IN
           /\ v \in Ward
           /\ v.id = IF new.id = was.id THEN now.id ELSE new.id
           /\ v.kind = IF new.kind = was.kind THEN now.kind ELSE new.kind
           /\ v.direction = IF new.direction = was.direction THEN now.direction ELSE new.direction
           /\ v.page = IF new.page = was.page THEN now.page ELSE new.page
           /\ v.surah = IF new.surah = was.surah THEN now.surah ELSE new.surah
           /\ v.ayah = IF new.ayah = was.ayah THEN now.ayah ELSE new.ayah
           /\ v.completed = IF new.completed = was.completed THEN now.completed ELSE new.completed
           /\ now = was => v = new
<1> DEFINE v == Changed(now, was, new)
           cols == {"id", "kind", "direction", "page", "surah", "ayah", "completed"}
<1>1. DOMAIN now = cols /\ DOMAIN new = cols
    BY DEF Ward
<1>2. v = [c \in cols |-> IF new[c] = was[c] THEN now[c] ELSE new[c]]
    BY <1>1 DEF Changed
<1>3. /\ v.id = IF new.id = was.id THEN now.id ELSE new.id
      /\ v.kind = IF new.kind = was.kind THEN now.kind ELSE new.kind
      /\ v.direction = IF new.direction = was.direction THEN now.direction ELSE new.direction
      /\ v.page = IF new.page = was.page THEN now.page ELSE new.page
      /\ v.surah = IF new.surah = was.surah THEN now.surah ELSE new.surah
      /\ v.ayah = IF new.ayah = was.ayah THEN now.ayah ELSE new.ayah
      /\ v.completed = IF new.completed = was.completed THEN now.completed ELSE new.completed
    BY <1>2
<1>4. v \in Ward
    <2>1. v = [id |-> v.id, kind |-> v.kind, direction |-> v.direction, page |-> v.page,
               surah |-> v.surah, ayah |-> v.ayah, completed |-> v.completed]
        BY <1>2
    <2> HIDE DEF v
    <2>2. /\ v.id \in 1..MaxWardId /\ v.kind \in Kinds /\ v.direction \in Directions
          /\ v.page \in Nullable /\ v.surah \in Nullable /\ v.ayah \in Nullable
          /\ v.completed \in BOOLEAN
        BY <1>3, WardFields
    <2> QED BY <2>1, <2>2 DEF Ward
<1>5. now = was => v = new
    <2> SUFFICES ASSUME now = was PROVE v = new
        OBVIOUS
    <2>1. v = [c \in cols |-> new[c]]
        <3>1. \A c \in cols : (IF new[c] = was[c] THEN now[c] ELSE new[c]) = new[c]
            OBVIOUS
        <3> HIDE DEF v, cols
        <3> QED BY <1>2, <3>1
    <2>2. new = [c \in cols |-> new[c]]
        <3>1. new = [c \in DOMAIN new |-> new[c]]
            BY DEF Ward
        <3> QED BY <1>1, <3>1
    <2> HIDE DEF v, cols
    <2> QED BY <2>1, <2>2
<1> QED BY <1>3, <1>4, <1>5

LEMMA NewWardIs ==
    ASSUME NEW r, r.kind \in Kinds, r.direction \in Directions, r.place \in Places(r.kind),
           NEW id \in 1..MaxWardId
    PROVE  LET v == NewWard(r, id) IN
           /\ v \in Ward /\ v.id = id /\ v.kind = r.kind /\ v.direction = r.direction
           /\ v.completed = FALSE /\ Names(v, r.place)
<1> DEFINE w == [id |-> id, kind |-> r.kind, direction |-> r.direction,
                 page |-> None, surah |-> None, ayah |-> None, completed |-> FALSE]
<1>1. w \in Ward /\ w.id = id /\ w.kind = r.kind /\ w.direction = r.direction
      /\ w.completed = FALSE
    BY DEF Ward, Nullable
<1> HIDE DEF w
<1>2. LET v == SetTo(w, r.place) IN
      /\ v \in Ward /\ Names(v, r.place)
      /\ v.id = w.id /\ v.kind = w.kind /\ v.direction = w.direction
      /\ v.completed = w.completed
    BY <1>1, SetToIs
<1> QED BY <1>1, <1>2 DEF NewWard, w

-----------------------------------------------------------------------------
\* What a request in progress is, whatever overlaps.
RequestTyped(r) ==
    /\ r.op \in {"set", "drop", "save", "delete"}
    /\ r.ward \in Ward \cup {None}
    /\ r.op = "save" => r.item \in Items
    /\ r.op = "set" => r.kind \in Kinds /\ r.direction \in Directions /\ r.place \in Places(r.kind)
PlanTyped ==
    /\ ward \in Ward \cup {None}
    /\ batch = [b \in Batches |-> batch[b]]
    /\ \A b \in Batches : batch[b] # None => RequestTyped(batch[b])

\* The plan a save moves on, as it read it.
LEMMA MovedOnIs ==
    ASSUME NEW r, RequestTyped(r), r.op = "save", AdvancesWith(r)
    PROVE  LET next == After(r.item.kind, r.item.direction, r.item.to)
               v == MovedOn(r)
           IN /\ r.ward \in Ward /\ v \in Ward
              /\ r.ward.completed = FALSE
              /\ r.item.kind = r.ward.kind /\ r.item.direction = r.ward.direction
              /\ Names(r.ward, r.item.from)
              /\ next = None => v = [r.ward EXCEPT !.completed = TRUE]
              /\ next # None => v = SetTo(r.ward, next) /\ next \in Places(r.ward.kind)
<1> DEFINE next == After(r.item.kind, r.item.direction, r.item.to)
<1>1. /\ r.ward \in Ward /\ r.item \in Items
      /\ r.item.kind = r.ward.kind /\ r.item.direction = r.ward.direction
      /\ Names(r.ward, r.item.from) /\ ~r.ward.completed
    BY DEF RequestTyped, AdvancesWith, StartsAtPlan, StartsAnywhere
<1>2. r.ward.completed \in BOOLEAN
    BY <1>1, WardFields
<1>3. r.ward.completed = FALSE
    BY <1>1, <1>2
<1>4. next # None => next \in Places(r.ward.kind)
    BY <1>1, ItemFields, AfterIsNext
<1>5. MovedOn(r) = IF next = None THEN [r.ward EXCEPT !.completed = TRUE] ELSE SetTo(r.ward, next)
    BY DEF MovedOn
<1> HIDE DEF next
<1>6. [r.ward EXCEPT !.completed = TRUE] \in Ward
    BY <1>1 DEF Ward
<1>7. next # None => SetTo(r.ward, next) \in Ward
    BY <1>1, <1>4, SetToIs
<1> QED BY <1>1, <1>3, <1>4, <1>5, <1>6, <1>7 DEF next

LEMMA PlanTypedStep ==
    ASSUME PlanTyped, [ProgressNext]_progressVars
    PROVE  PlanTyped'
<1> USE DEF PlanTyped
<1>1. ASSUME NEW b \in Batches, NEW r, Read(b, r), RequestTyped(r)
      PROVE  PlanTyped'
    <2>1. batch' = [batch EXCEPT ![b] = r] /\ ward' = ward
        BY <1>1 DEF Read
    <2>2. batch' = [c \in Batches |-> batch'[c]]
          /\ \A c \in Batches : batch'[c] = IF c = b THEN r ELSE batch[c]
        BY <2>1
    <2> QED BY <1>1, <2>1, <2>2
<1>2. ASSUME NEW b \in Batches, batch' = [batch EXCEPT ![b] = None], ward' \in Ward \cup {None}
      PROVE  PlanTyped'
    <2>1. batch' = [c \in Batches |-> batch'[c]]
          /\ \A c \in Batches : batch'[c] = IF c = b THEN None ELSE batch[c]
        BY <1>2
    <2> QED BY <1>2, <2>1
<1>3. ASSUME NEW b \in Batches, NEW k \in Kinds, NEW d \in Directions, NEW x \in Places(k),
             OpenSet(b, k, d, x)
      PROVE  PlanTyped'
    <2> DEFINE r == [op |-> "set", kind |-> k, direction |-> d, place |-> x, ward |-> ward]
    <2>1. /\ r.op = "set" /\ r.ward = ward /\ r.kind = k /\ r.direction = d /\ r.place = x
          /\ Read(b, r)
        BY <1>3 DEF OpenSet
    <2> HIDE DEF r
    <2>2. RequestTyped(r)
        BY <2>1 DEF RequestTyped
    <2> QED BY <1>1, <2>1, <2>2
<1>4. ASSUME NEW b \in Batches, OpenDrop(b)
      PROVE  PlanTyped'
    <2> DEFINE r == [op |-> "drop", ward |-> ward]
    <2>1. r.op = "drop" /\ r.ward = ward /\ Read(b, r)
        BY <1>4 DEF OpenDrop
    <2> HIDE DEF r
    <2>2. RequestTyped(r)
        BY <2>1 DEF RequestTyped
    <2> QED BY <1>1, <2>1, <2>2
<1>5. ASSUME NEW b \in Batches, NEW op \in {"save", "delete"}, NEW l \in Lessons, NEW i,
             op = "save" => i \in Items, Open(b, op, l, i)
      PROVE  PlanTyped'
    <2> DEFINE r == [op |-> op, lesson |-> l, item |-> i, entry |-> entry[l], ward |-> ward]
    <2>1. r.op = op /\ r.ward = ward /\ r.item = i /\ Read(b, r)
        BY <1>5 DEF Open
    <2> HIDE DEF r
    <2>2. RequestTyped(r)
        BY <1>5, <2>1 DEF RequestTyped
    <2> QED BY <1>1, <2>1, <2>2
<1>6. ASSUME NEW b \in Batches, NEW id \in 1..MaxWardId, SetWard(b, id)
      PROVE  PlanTyped'
    <2> DEFINE r == batch[b]
    <2>1. /\ RequestTyped(r) /\ r.op = "set" /\ batch' = [batch EXCEPT ![b] = None]
          /\ ward' = ward \/ (~CannotSet(r) /\ ward' = WardSet(r, id))
        BY <1>6 DEF SetWard
    <2>2. /\ r.ward \in Ward \cup {None}
          /\ r.kind \in Kinds /\ r.direction \in Directions /\ r.place \in Places(r.kind)
        BY <2>1 DEF RequestTyped
    <2> HIDE DEF r
    <2>3. ASSUME ~CannotSet(r) PROVE WardSet(r, id) \in Ward
        <3>1. CASE r.ward = None
            BY <2>2, <3>1, NewWardIs DEF WardSet
        <3>2. CASE r.ward # None
            <4>1. r.ward \in Ward /\ ward \in Ward /\ r.ward.id \in 1..MaxWardId
                BY <2>2, <2>3, <3>2, WardFields DEF CannotSet, Finds
            <4>2. NewWard(r, r.ward.id) \in Ward
                BY <2>2, <4>1, NewWardIs
            <4> QED BY <3>2, <4>1, <4>2, ChangedIs DEF WardSet
        <3> QED BY <3>1, <3>2
    <2> QED BY <1>2, <2>1, <2>3 DEF r
<1>7. ASSUME NEW b \in Batches, Save(b)
      PROVE  PlanTyped'
    <2> DEFINE r == batch[b]
    <2>1. /\ RequestTyped(r) /\ r.op = "save" /\ ~Gone(r) /\ ward' = Advanced(r)
          /\ batch' = [batch EXCEPT ![b] = None]
        BY <1>7 DEF Save
    <2> HIDE DEF r
    <2>2. ASSUME AdvancesWith(r) PROVE Advanced(r) \in Ward
        <3>1. ward \in Ward
            BY <2>1, <2>2 DEF Gone, Finds
        <3>2. r.ward \in Ward /\ MovedOn(r) \in Ward
            BY <2>1, <2>2, MovedOnIs
        <3> QED BY <2>2, <3>1, <3>2, ChangedIs DEF Advanced
    <2>3. Advanced(r) \in Ward \cup {None}
        BY <2>2 DEF Advanced
    <2> QED BY <1>2, <2>1, <2>3 DEF r
<1>8. ASSUME NEW b \in Batches, DropWard(b) \/ SaveFails(b) \/ Delete(b)
      PROVE  PlanTyped'
    <2>1. batch' = [batch EXCEPT ![b] = None] /\ (ward' = ward \/ ward' = None)
        BY <1>8 DEF DropWard, SaveFails, Delete
    <2> QED BY <1>2, <2>1
<1>9. CASE UNCHANGED progressVars
    BY <1>9 DEF progressVars
<1> HIDE DEF PlanTyped
<1> QED
    BY <1>3, <1>4, <1>5, <1>6, <1>7, <1>8, <1>9 DEF ProgressNext, OpenSave, OpenDelete

LEMMA PlanTypedInit == ProgressInit => PlanTyped
BY DEF ProgressInit, PlanTyped

-----------------------------------------------------------------------------
\* All the way from a place to a cursor is in S.
AllBehind(k, d, first, next, S) ==
    \A x \in Places(k) : Precedes(k, d, first, x) /\ ~Precedes(k, d, next, x) => x \in S

\* The cursor of a plan is a place all the way to which is in S.
NamesRecorded(w, first, S) ==
    \E next \in Places(w.kind) : Names(w, next) /\ AllBehind(w.kind, w.direction, first, next, S)

\* What a request has read is a plan of the kind and direction of the plan w there is; all the
\* way to the cursor it read has been recorded in S, which only grows while it waits. Of pages
\* it may have read another cursor than there is.
RequestRead(r, w, first, S) ==
    /\ r.ward = None <=> w = None
    /\ r.op \in {"set", "drop"} => r.ward = w
    /\ w # None =>
          /\ r.ward.kind = w.kind /\ r.ward.direction = w.direction /\ r.ward.id = w.id
          /\ w.kind = "ayah" => r.ward = w
          /\ r.ward.completed = FALSE => NamesRecorded(r.ward, first, S)

\* A plan that is completed has all its way behind it.
PlanIsRecorded(w, first, S) ==
    /\ w \in Ward /\ first \in Places(w.kind)
    /\ NamesRecorded(w, first, S)
    /\ w.completed = TRUE =>
          \A x \in Places(w.kind) : Precedes(w.kind, w.direction, first, x) => x \in S

CursorInvariant ==
    /\ ward # None => PlanIsRecorded(ward, start, covered)
    /\ \A b \in Batches : batch[b] # None => RequestRead(batch[b], ward, start, covered)

LEMMA StillRecorded ==
    ASSUME NEW w, NEW first, NEW S, NEW U, NamesRecorded(w, first, S), S \subseteq U
    PROVE  NamesRecorded(w, first, U)
BY DEF NamesRecorded, AllBehind

\* A save that moves the plan on records its item: the places up to the new cursor are those
\* up to the one it read, and the item's.
LEMMA AdvanceIsRecorded ==
    ASSUME NEW r, NEW first, NEW S, NEW w \in Ward,
           RequestTyped(r), r.op = "save", AdvancesWith(r),
           PlanIsRecorded(w, first, S), RequestRead(r, w, first, S)
    PROVE  LET v == Changed(w, r.ward, MovedOn(r))
           IN /\ PlanIsRecorded(v, first, S \cup Passes(r.item))
              /\ v.kind = w.kind /\ v.direction = w.direction /\ v.id = w.id
<1> DEFINE U == S \cup Passes(r.item)
           k == w.kind
           d == w.direction
           next == After(k, d, r.item.to)
           new == MovedOn(r)
           v == Changed(w, r.ward, new)
<1>1. /\ k \in Kinds /\ d \in Directions /\ w.completed \in BOOLEAN /\ w # None
      /\ first \in Places(k)
    BY WardFields DEF PlanIsRecorded
<1>2. /\ r.ward.kind = k /\ r.ward.direction = d /\ r.ward.id = w.id
      /\ k = "ayah" => r.ward = w
    BY <1>1 DEF RequestRead
<1>3. /\ r.ward \in Ward /\ new \in Ward /\ r.ward.completed = FALSE
      /\ r.item.kind = k /\ r.item.direction = d /\ Names(r.ward, r.item.from)
      /\ next = None => new = [r.ward EXCEPT !.completed = TRUE]
      /\ next # None => new = SetTo(r.ward, next) /\ next \in Places(k)
    <2> HIDE DEF new, U, v
    <2> QED BY <1>2, MovedOnIs DEF new
<1>4. r.item.from \in Places(k) /\ r.item.to \in Places(k)
    <2>1. r.item \in Items
        BY DEF RequestTyped
    <2> QED BY <1>3, <2>1, ItemFields
<1>5. AllBehind(k, d, first, r.item.from, S)
    <2>1. PICK x \in Places(k) : Names(r.ward, x) /\ AllBehind(k, d, first, x, S)
        BY <1>1, <1>2, <1>3 DEF RequestRead, NamesRecorded
    <2>2. x = r.item.from
        BY <1>1, <1>2, <1>3, <1>4, <2>1, OnePlaceNamed
    <2> QED BY <2>1, <2>2
<1>6. ASSUME NEW x \in Places(k), Precedes(k, d, first, x), Precedes(k, d, x, r.item.to)
      PROVE  x \in U
    <2>1. CASE Precedes(k, d, r.item.from, x)
        BY <1>3, <1>6, <2>1 DEF Passes
    <2>2. CASE ~Precedes(k, d, r.item.from, x)
        BY <1>5, <1>6, <2>2 DEF AllBehind
    <2> QED BY <2>1, <2>2
<1>7. /\ v \in Ward
      /\ v.id = IF new.id = r.ward.id THEN w.id ELSE new.id
      /\ v.kind = IF new.kind = r.ward.kind THEN w.kind ELSE new.kind
      /\ v.direction = IF new.direction = r.ward.direction THEN w.direction ELSE new.direction
      /\ v.page = IF new.page = r.ward.page THEN w.page ELSE new.page
      /\ v.completed = IF new.completed = r.ward.completed THEN w.completed ELSE new.completed
      /\ w = r.ward => v = new
    BY <1>3, ChangedIs
<1> HIDE DEF U, new, v
<1>8. NamesRecorded(w, first, U)
    BY StillRecorded DEF PlanIsRecorded, U
<1>9. w.completed = TRUE => \A x \in Places(k) : Precedes(k, d, first, x) => x \in U
    BY DEF PlanIsRecorded, U
<1>10. CASE next = None
    <2>1. /\ new.id = r.ward.id /\ new.kind = k /\ new.direction = d /\ new.completed = TRUE
          /\ new.page = r.ward.page /\ new.surah = r.ward.surah /\ new.ayah = r.ward.ayah
        BY <1>2, <1>3, <1>10 DEF Ward
    <2>2. v.id = w.id /\ v.kind = k /\ v.direction = d /\ v.completed = TRUE
        BY <1>2, <1>3, <1>7, <2>1
    <2>3. v.page = w.page /\ (k = "ayah" => v.surah = w.surah /\ v.ayah = w.ayah)
        BY <1>2, <1>7, <2>1
    <2>4. NamesRecorded(v, first, U)
        BY <1>1, <1>8, <2>2, <2>3 DEF NamesRecorded, Names, Kinds
    <2>5. \A x \in Places(k) : Precedes(k, d, x, r.item.to)
        BY <1>1, <1>4, <1>10, AfterIsNext
    <2> QED BY <1>1, <1>6, <1>7, <2>2, <2>4, <2>5 DEF PlanIsRecorded, v, new, U
<1>11. CASE next # None
    <2>1. /\ next \in Places(k)
          /\ \A x \in Places(k) : ~Precedes(k, d, next, x) => Precedes(k, d, x, r.item.to)
        BY <1>1, <1>3, <1>4, <1>11, AfterIsNext
    <2>2. AllBehind(k, d, first, next, U)
        BY <1>6, <2>1 DEF AllBehind
    <2>3. /\ new.id = r.ward.id /\ new.kind = k /\ new.direction = d
          /\ new.completed = r.ward.completed
          /\ Names(new, next) /\ (k = "page" => new.page = next)
        BY <1>2, <1>3, <1>11, <2>1, SetToIs
    <2>4. v.id = w.id /\ v.kind = k /\ v.direction = d /\ v.completed = w.completed
        BY <1>2, <1>3, <1>7, <2>3
    <2>5. NamesRecorded(v, first, U)
        <3>1. CASE k = "ayah"
            BY <1>2, <1>7, <2>1, <2>2, <2>3, <2>4, <3>1 DEF NamesRecorded
        <3>2. CASE k = "page" /\ new.page # r.ward.page
            BY <1>7, <2>1, <2>2, <2>3, <2>4, <3>2 DEF NamesRecorded, Names
        <3>3. CASE k = "page" /\ new.page = r.ward.page
            BY <1>7, <1>8, <2>4, <3>3 DEF NamesRecorded, Names
        <3> QED BY <1>1, <3>1, <3>2, <3>3 DEF Kinds
    <2> QED BY <1>1, <1>7, <1>9, <2>4, <2>5 DEF PlanIsRecorded, v, new, U
<1> QED BY <1>10, <1>11

\* A request that waits is not disturbed by a plan of pages that moves on.
LEMMA WaitingIsKept ==
    ASSUME NEW r, NEW w, NEW v, NEW first, NEW S, NEW U,
           RequestRead(r, w, first, S), S \subseteq U, v = None <=> w = None,
           v # w => r.op \in {"save", "delete"} /\ v.kind # "ayah",
           w # None => v.kind = w.kind /\ v.direction = w.direction /\ v.id = w.id
    PROVE  RequestRead(r, v, first, U)
<1>1. v # None /\ r.ward.completed = FALSE => NamesRecorded(r.ward, first, U)
    BY StillRecorded DEF RequestRead
<1> QED BY <1>1 DEF RequestRead

LEMMA CursorStep ==
    ASSUME CursorInvariant, PlanTyped, PagesOrOneByOne, [ProgressNext]_progressVars
    PROVE  CursorInvariant'
<1> USE DEF CursorInvariant
<1>0. batch = [b \in Batches |-> batch[b]] /\ ward \in Ward \cup {None}
    BY DEF PlanTyped
<1>1. ASSUME NEW b \in Batches, NEW r, Read(b, r), r.ward = ward
      PROVE  CursorInvariant'
    <2>1. RequestRead(r, ward, start, covered)
        BY <1>1 DEF RequestRead, PlanIsRecorded
    <2>2. \A c \in Batches : batch'[c] = IF c = b THEN r ELSE batch[c]
        BY <1>0, <1>1 DEF Read
    <2> QED BY <1>1, <2>1, <2>2 DEF Read
<1>2. ASSUME NEW b \in Batches, NEW k \in Kinds, NEW d \in Directions, NEW x \in Places(k),
             OpenSet(b, k, d, x)
      PROVE  CursorInvariant'
    <2> DEFINE r == [op |-> "set", kind |-> k, direction |-> d, place |-> x, ward |-> ward]
    <2>1. r.ward = ward /\ Read(b, r)
        BY <1>2 DEF OpenSet
    <2> HIDE DEF r
    <2> QED BY <1>1, <2>1
<1>3. ASSUME NEW b \in Batches, OpenDrop(b)
      PROVE  CursorInvariant'
    <2> DEFINE r == [op |-> "drop", ward |-> ward]
    <2>1. r.ward = ward /\ Read(b, r)
        BY <1>3 DEF OpenDrop
    <2> HIDE DEF r
    <2> QED BY <1>1, <2>1
<1>4. ASSUME NEW b \in Batches, NEW op \in {"save", "delete"}, NEW l \in Lessons, NEW i,
             Open(b, op, l, i)
      PROVE  CursorInvariant'
    <2> DEFINE r == [op |-> op, lesson |-> l, item |-> i, entry |-> entry[l], ward |-> ward]
    <2>1. r.ward = ward /\ Read(b, r)
        BY <1>4 DEF Open
    <2> HIDE DEF r
    <2> QED BY <1>1, <2>1
<1>5. ASSUME NEW b \in Batches, batch[b] # None, batch[b].op \in {"set", "drop"},
             batch' = [batch EXCEPT ![b] = None], ward' # None => PlanIsRecorded(ward', start', covered')
      PROVE  CursorInvariant'
    <2>1. \A c \in Batches : batch'[c] = None
        BY <1>0, <1>5 DEF PagesOrOneByOne
    <2> QED BY <1>5, <2>1
<1>6. ASSUME NEW b \in Batches, NEW id \in 1..MaxWardId, SetWard(b, id)
      PROVE  CursorInvariant'
    <2> DEFINE r == batch[b]
    <2>1. /\ RequestTyped(r) /\ r.op = "set" /\ batch' = [batch EXCEPT ![b] = None]
          /\ RequestRead(r, ward, start, covered) /\ r # None
          /\ \/ UNCHANGED <<ward, start, covered>>
             \/ ~CannotSet(r) /\ ward' = WardSet(r, id) /\ start' = r.place /\ covered' = {}
        BY <1>6 DEF SetWard, PlanTyped
    <2>2. /\ r.ward = ward
          /\ r.kind \in Kinds /\ r.direction \in Directions /\ r.place \in Places(r.kind)
        BY <2>1 DEF RequestTyped, RequestRead
    <2> HIDE DEF r
    <2>3. \E n \in 1..MaxWardId : WardSet(r, id) = NewWard(r, n)
        <3>1. CASE ward = None
            BY <2>2, <3>1 DEF WardSet
        <3>2. CASE ward # None
            <4>1. ward \in Ward /\ ward.id \in 1..MaxWardId
                BY <1>0, <3>2, WardFields
            <4>2. NewWard(r, ward.id) \in Ward
                BY <2>2, <4>1, NewWardIs
            <4>3. Changed(ward, ward, NewWard(r, ward.id)) = NewWard(r, ward.id)
                BY <4>1, <4>2, ChangedIs
            <4> QED BY <2>2, <3>2, <4>1, <4>3 DEF WardSet
        <3> QED BY <3>1, <3>2
    <2>4. PlanIsRecorded(WardSet(r, id), r.place, {})
        <3>1. PICK n \in 1..MaxWardId : WardSet(r, id) = NewWard(r, n)
            BY <2>3
        <3> DEFINE v == NewWard(r, n)
        <3>2. v \in Ward /\ v.kind = r.kind /\ v.completed = FALSE /\ Names(v, r.place)
            BY <2>2, NewWardIs
        <3> HIDE DEF v
        <3>3. NamesRecorded(v, r.place, {})
            BY <2>2, <3>2 DEF NamesRecorded, AllBehind
        <3>4. PlanIsRecorded(v, r.place, {})
            BY <2>2, <3>2, <3>3 DEF PlanIsRecorded
        <3> QED BY <3>1, <3>4 DEF v
    <2>5. ward' # None => PlanIsRecorded(ward', start', covered')
        BY <2>1, <2>4
    <2> QED BY <1>5, <2>1, <2>5 DEF r
<1>7. ASSUME NEW b \in Batches, DropWard(b)
      PROVE  CursorInvariant'
    <2>1. ward' # None => PlanIsRecorded(ward', start', covered')
        BY <1>7 DEF DropWard
    <2> QED BY <1>5, <1>7, <2>1 DEF DropWard
<1>8. ASSUME NEW b \in Batches, Save(b)
      PROVE  CursorInvariant'
    <2> DEFINE r == batch[b]
    <2>1. /\ r # None /\ r.op = "save" /\ ~Gone(r)
          /\ ward' = Advanced(r)
          /\ covered' = IF ward # None /\ r.item.kind = ward.kind
                        THEN covered \cup Passes(r.item) ELSE covered
          /\ batch' = [batch EXCEPT ![b] = None]
          /\ start' = start
        BY <1>8 DEF Save
    <2>2. /\ covered \subseteq covered' /\ RequestTyped(r)
          /\ RequestRead(r, ward, start, covered)
        BY <2>1 DEF PlanTyped
    <2> HIDE DEF r
    <2>3. /\ ward' = None <=> ward = None
          /\ ward # None => /\ ward'.kind = ward.kind /\ ward'.direction = ward.direction
                            /\ ward'.id = ward.id
                            /\ PlanIsRecorded(ward', start', covered')
        <3>1. CASE ~AdvancesWith(r)
            <4>1. ward' = ward
                BY <2>1, <3>1 DEF Advanced
            <4>2. ward # None => PlanIsRecorded(ward, start, covered')
                <5> SUFFICES ASSUME ward # None PROVE PlanIsRecorded(ward, start, covered')
                    OBVIOUS
                <5>1. PlanIsRecorded(ward, start, covered)
                    OBVIOUS
                <5>2. NamesRecorded(ward, start, covered')
                    BY <2>2, <5>1, StillRecorded DEF PlanIsRecorded
                <5> QED BY <2>2, <5>1, <5>2 DEF PlanIsRecorded
            <4> QED BY <2>1, <4>1, <4>2
        <3>2. CASE AdvancesWith(r)
            <4>1. ward # None /\ ward \in Ward
                BY <1>0, <2>1, <3>2 DEF Gone, Finds
            <4>2. PlanIsRecorded(ward, start, covered)
                BY <4>1
            <4> DEFINE v == Changed(ward, r.ward, MovedOn(r))
            <4>3. ward' = v
                BY <2>1, <3>2 DEF Advanced
            <4> HIDE DEF CursorInvariant
            <4>4. /\ PlanIsRecorded(v, start, covered \cup Passes(r.item))
                  /\ v.kind = ward.kind /\ v.direction = ward.direction /\ v.id = ward.id
                BY <2>1, <2>2, <3>2, <4>1, <4>2, AdvanceIsRecorded
            <4>5. r.item.kind = ward.kind
                BY <2>1, <2>2, <3>2, <4>1, MovedOnIs DEF RequestRead
            <4> HIDE DEF v
            <4>6. v # None
                BY <4>4, WardFields DEF PlanIsRecorded
            <4> QED BY <2>1, <4>1, <4>3, <4>4, <4>5, <4>6
        <3> QED BY <3>1, <3>2
    <2>4. \A c \in Batches : batch'[c] = IF c = b THEN None ELSE batch[c]
        BY <1>0, <2>1
    <2>5. ASSUME NEW c \in Batches, batch'[c] # None
          PROVE  RequestRead(batch'[c], ward', start', covered')
        <3>1. /\ batch'[c] = batch[c] /\ c # b /\ batch[c] # None
              /\ RequestRead(batch[c], ward, start, covered)
            BY <2>4, <2>5
        <3>2. /\ batch[c].op \in {"save", "delete"}
              /\ ward # None => ward.kind = "page"
            BY <2>1, <3>1 DEF PagesOrOneByOne, r
        <3>3. ward' # ward => batch[c].op \in {"save", "delete"} /\ ward'.kind # "ayah"
            BY <2>1, <2>3, <3>2
        <3> HIDE DEF CursorInvariant
        <3> QED BY <2>1, <2>2, <2>3, <3>1, <3>3, WaitingIsKept
    <2> QED BY <2>3, <2>5
<1>9. ASSUME NEW b \in Batches, SaveFails(b) \/ Delete(b)
      PROVE  CursorInvariant'
    <2>1. batch' = [batch EXCEPT ![b] = None] /\ UNCHANGED <<ward, start, covered>>
        BY <1>9 DEF SaveFails, Delete
    <2>2. \A c \in Batches : batch'[c] = IF c = b THEN None ELSE batch[c]
        BY <1>0, <2>1
    <2> QED BY <2>1, <2>2
<1>10. CASE UNCHANGED progressVars
    BY <1>10 DEF progressVars
<1> HIDE DEF CursorInvariant
<1> QED
    BY <1>2, <1>3, <1>4, <1>6, <1>7, <1>8, <1>9, <1>10 DEF ProgressNext, OpenSave, OpenDelete

\* Where the plan goes by pages, however many batches overlap and whatever they read, and for a
\* plan that goes by ayahs where requests come one at a time: the cursor never passes a place
\* that has not been recorded since the plan was set, and the plan is completed only when all
\* the way to the end has been (advance_plan_cursor). For a book of any surahs.
THEOREM PlansSkipNothing == ProgressSpec => CursorSkipsNothing
<1>1. ProgressInit => CursorInvariant
    BY DEF ProgressInit, CursorInvariant
<1>2. PlanTyped /\ CursorInvariant /\ PagesOrOneByOne /\ [ProgressNext]_progressVars
      => CursorInvariant'
    BY CursorStep
<1>3. PlanTyped /\ [ProgressNext]_progressVars => PlanTyped'
    BY PlanTypedStep
<1>4. CursorInvariant => NothingSkipped
    <2> SUFFICES ASSUME CursorInvariant, ward # None PROVE NothingSkipped
        BY DEF NothingSkipped
    <2>1. PlanIsRecorded(ward, start, covered)
        BY DEF CursorInvariant
    <2>2. PICK next \in Places(ward.kind) :
              Names(ward, next) /\ AllBehind(ward.kind, ward.direction, start, next, covered)
        BY <2>1 DEF PlanIsRecorded, NamesRecorded
    <2>3. ward.completed \in BOOLEAN
        BY <2>1, WardFields DEF PlanIsRecorded
    <2> QED BY <2>1, <2>2, <2>3 DEF NothingSkipped, PlanIsRecorded, AllBehind
<1> QED BY <1>1, <1>2, <1>3, <1>4, PlanTypedInit, PTL DEF ProgressSpec, CursorSkipsNothing

-----------------------------------------------------------------------------
(* Progress: the types, and the history of an entry.                          *)

\* What a batch in progress is, and which entry it has read.
BatchTyped(r) ==
    r.op \in {"save", "delete"} =>
        /\ r.lesson \in Lessons /\ r.entry \in EntryRow \cup {None}
        /\ r.op = "save" => r.item \in Item

EntriesTyped ==
    /\ entry \in [Lessons -> EntryRow \cup {None}]
    /\ revisions \subseteq Revision
    /\ batch = [b \in Batches |-> batch[b]]
    /\ \A b \in Batches : batch[b] # None => BatchTyped(batch[b])

LEMMA ItemTyped ==
    ASSUME NEW i \in Items
    PROVE  i \in Item
<1>1. PICK k \in Kinds : i \in [kind : {k}, direction : Directions, from : Places(k),
                                to : Places(k), note : Notes]
    BY DEF Items
<1>2. Places(k) \subseteq Nat
    BY ProgressAssumption DEF Places, Ayahs
<1> QED BY <1>1, <1>2 DEF Item

\* What is written is one more than every number there is.
LEMMA GreatestIsLargest ==
    ASSUME NEW S \in SUBSET Nat, NEW n \in Nat, \A x \in S : x <= n
    PROVE  Greatest(S) \in Nat /\ \A x \in S : x <= Greatest(S)
<1>1. CASE S = {}
    BY <1>1 DEF Greatest
<1>2. CASE S # {}
    <2>1. \E x \in S : \A y \in S : y <= x
        BY <1>2, LargestNumber
    <2> QED BY <1>2, <2>1 DEF Greatest
<1> QED BY <1>1, <1>2

LEMMA NewNumbers ==
    ASSUME EntriesTyped
    PROVE  /\ Greatest(EntryIds) \in Nat
           /\ \A l \in Lessons : entry[l] # None => entry[l].id <= Greatest(EntryIds)
           /\ NextRevision \in Nat \ {0}
           /\ \A v \in revisions : v.id \in Nat /\ v.id < NextRevision
<1> USE ProgressAssumption
<1>1. EntryIds \in SUBSET Nat /\ \A x \in EntryIds : x <= MaxEntryId
    <2> SUFFICES ASSUME NEW x \in EntryIds PROVE x \in 1..MaxEntryId
        OBVIOUS
    <2>1. PICK l \in Lessons : entry[l] # None /\ x = entry[l].id
        BY DEF EntryIds
    <2>2. entry[l] \in EntryRow
        BY <2>1 DEF EntriesTyped
    <2> QED BY <2>1, <2>2 DEF EntryRow
<1>2. \A l \in Lessons : entry[l] # None => entry[l].id \in EntryIds
    BY DEF EntryIds
<1>3. Greatest(EntryIds) \in Nat /\ \A x \in EntryIds : x <= Greatest(EntryIds)
    BY <1>1, GreatestIsLargest
<1> DEFINE ids == {v.id : v \in revisions}
<1>4. \A v \in revisions : v.id \in 1..MaxRevisions
    BY DEF EntriesTyped, Revision
<1>5. ids \in SUBSET Nat /\ \A x \in ids : x <= MaxRevisions
    BY <1>4
<1>6. \A v \in revisions : v.id \in ids
    OBVIOUS
<1>7. NextRevision = Greatest(ids) + 1
    BY DEF NextRevision
<1> HIDE DEF ids
<1>8. Greatest(ids) \in Nat /\ \A x \in ids : x <= Greatest(ids)
    BY <1>5, GreatestIsLargest
<1>9. \A v \in revisions : v.id \in Nat /\ v.id < NextRevision
    BY <1>4, <1>6, <1>7, <1>8
<1> QED BY <1>2, <1>3, <1>7, <1>8, <1>9

\* The row that a save leaves.
LEMMA Saved ==
    ASSUME EntriesTyped, NEW b \in Batches, Save(b)
    PROVE  LET r == batch[b] IN
           /\ r.op = "save" /\ r.lesson \in Lessons /\ r.item \in Item
           /\ Upsert(r.lesson, r.item) \in EntryRow
           /\ Upsert(r.lesson, r.item).item = r.item
           /\ entry[r.lesson] # None => Upsert(r.lesson, r.item).id = entry[r.lesson].id
           /\ entry[r.lesson] = None =>
                 \A l \in Lessons : entry[l] # None => entry[l].id # Upsert(r.lesson, r.item).id
           /\ RevisionOf(r) \subseteq Revision
<1> DEFINE r == batch[b]
           l == r.lesson
           row == Upsert(l, r.item)
<1>1. /\ r # None /\ r.op = "save" /\ row.id <= MaxEntryId
      /\ Differs(r) => NextRevision <= MaxRevisions
    BY DEF Save
<1>2. l \in Lessons /\ r.item \in Item /\ r.entry \in EntryRow \cup {None}
    BY <1>1 DEF EntriesTyped, BatchTyped
<1>3. RevisionOf(r) \subseteq Revision
    <2>1. CASE Differs(r)
        <3> DEFINE v == [id |-> NextRevision, entry |-> r.entry.id,
                         before |-> r.entry.item, after |-> r.item]
        <3>1. r.entry \in EntryRow
            BY <1>2, <2>1 DEF Differs
        <3>2. NextRevision \in 1..MaxRevisions /\ r.entry.id \in 1..MaxEntryId
              /\ r.entry.item \in Item
            BY <1>1, <2>1, <3>1, NewNumbers DEF EntryRow
        <3>3. v \in Revision
            BY <1>2, <3>2 DEF Revision
        <3>4. RevisionOf(r) = {v}
            BY <2>1 DEF RevisionOf
        <3> QED BY <3>3, <3>4
    <2>2. CASE ~Differs(r)
        BY <2>2 DEF RevisionOf
    <2> QED BY <2>1, <2>2
<1>4. CASE entry[l] = None
    <2>1. row = [id |-> Greatest(EntryIds) + 1, item |-> r.item]
        BY <1>4 DEF Upsert
    <2>2. row.id = Greatest(EntryIds) + 1 /\ row.item = r.item
        BY <2>1
    <2>3. row.id \in 1..MaxEntryId
        BY <1>1, <2>2, NewNumbers
    <2>4. row \in EntryRow
        BY <1>2, <2>1, <2>2, <2>3 DEF EntryRow
    <2>5. \A m \in Lessons : entry[m] # None => entry[m].id # row.id
        <3> SUFFICES ASSUME NEW m \in Lessons, entry[m] # None PROVE entry[m].id # row.id
            OBVIOUS
        <3>1. entry[m] \in EntryRow
            BY DEF EntriesTyped
        <3>2. entry[m].id \in Nat /\ entry[m].id <= Greatest(EntryIds) /\ Greatest(EntryIds) \in Nat
            BY <3>1, NewNumbers DEF EntryRow
        <3> HIDE DEF row
        <3> QED BY <2>2, <3>2
    <2> QED BY <1>1, <1>2, <1>3, <1>4, <2>2, <2>4, <2>5
<1>5. CASE entry[l] # None
    <2>1. row = [entry[l] EXCEPT !.item = r.item] /\ entry[l] \in EntryRow
        BY <1>2, <1>5 DEF Upsert, EntriesTyped
    <2>2. row \in EntryRow /\ row.item = r.item /\ row.id = entry[l].id
        BY <1>2, <2>1 DEF EntryRow
    <2> QED BY <1>1, <1>2, <1>3, <1>5, <2>2
<1> QED BY <1>4, <1>5

LEMMA EntriesStep ==
    ASSUME EntriesTyped, [ProgressNext]_progressVars
    PROVE  EntriesTyped'
<1>1. ASSUME NEW b \in Batches, NEW op \in {"save", "delete"}, NEW l \in Lessons, NEW i,
             Open(b, op, l, i), op = "save" => i \in Items
      PROVE  EntriesTyped'
    <2> DEFINE r == [op |-> op, lesson |-> l, item |-> i, entry |-> entry[l], ward |-> ward]
    <2>1. batch' = [batch EXCEPT ![b] = r] /\ UNCHANGED <<entry, revisions>>
        BY <1>1 DEF Open, Read
    <2>2. BatchTyped(r)
        <3>1. entry[l] \in EntryRow \cup {None}
            BY DEF EntriesTyped
        <3> QED BY <1>1, <3>1, ItemTyped DEF BatchTyped
    <2> HIDE DEF r
    <2>3. \A c \in Batches : batch'[c] = IF c = b THEN r ELSE batch[c]
        BY <2>1 DEF EntriesTyped
    <2>4. batch' = [c \in Batches |-> batch'[c]]
        BY <2>1 DEF EntriesTyped
    <2> QED BY <2>1, <2>2, <2>3, <2>4 DEF EntriesTyped
<1>2. ASSUME NEW b \in Batches, batch' = [batch EXCEPT ![b] = None],
             entry' \in [Lessons -> EntryRow \cup {None}], revisions' \subseteq Revision
      PROVE  EntriesTyped'
    <2>1. \A c \in Batches : batch'[c] = IF c = b THEN None ELSE batch[c]
        BY <1>2 DEF EntriesTyped
    <2>2. batch' = [c \in Batches |-> batch'[c]]
        BY <1>2 DEF EntriesTyped
    <2> QED BY <1>2, <2>1, <2>2 DEF EntriesTyped
<1>3. ASSUME NEW b \in Batches, Save(b)
      PROVE  EntriesTyped'
    <2> DEFINE r == batch[b]
               row == Upsert(r.lesson, r.item)
    <2>1. /\ revisions' = revisions \cup RevisionOf(r)
          /\ entry' = [entry EXCEPT ![r.lesson] = row]
          /\ batch' = [batch EXCEPT ![b] = None]
        BY <1>3 DEF Save
    <2>2. r.lesson \in Lessons /\ row \in EntryRow /\ RevisionOf(r) \subseteq Revision
        BY <1>3, Saved
    <2> HIDE DEF r, row
    <2>3. entry' \in [Lessons -> EntryRow \cup {None}] /\ revisions' \subseteq Revision
        BY <2>1, <2>2 DEF EntriesTyped
    <2> QED BY <1>2, <2>1, <2>3
<1>4. ASSUME NEW b \in Batches, SaveFails(b)
      PROVE  EntriesTyped'
    BY <1>2, <1>4 DEF SaveFails, EntriesTyped
<1>5. ASSUME NEW b \in Batches, Delete(b)
      PROVE  EntriesTyped'
    <2>1. batch' = [batch EXCEPT ![b] = None]
        BY <1>5 DEF Delete
    <2>2. entry' \in [Lessons -> EntryRow \cup {None}] /\ revisions' \subseteq Revision
        BY <1>5 DEF Delete, Forgotten, EntriesTyped
    <2> QED BY <1>2, <2>1, <2>2
<1>6. ASSUME UNCHANGED <<entry, revisions, batch>>
      PROVE  EntriesTyped'
    BY <1>6 DEF EntriesTyped
<1>7. ASSUME UNCHANGED progressVars
      PROVE  UNCHANGED <<entry, revisions, batch>>
    BY <1>7 DEF progressVars
<1>8. ASSUME NEW b \in Batches, NEW r, Read(b, r), r.op \in {"set", "drop"}
      PROVE  EntriesTyped'
    <2>1. batch' = [batch EXCEPT ![b] = r] /\ UNCHANGED <<entry, revisions>>
        BY <1>8 DEF Read
    <2>2. BatchTyped(r)
        BY <1>8 DEF BatchTyped
    <2>3. batch' = [c \in Batches |-> batch'[c]]
          /\ \A c \in Batches : batch'[c] = IF c = b THEN r ELSE batch[c]
        BY <2>1 DEF EntriesTyped
    <2> QED BY <2>1, <2>2, <2>3 DEF EntriesTyped
<1>9. ASSUME NEW b \in Batches, NEW k \in Kinds, NEW d \in Directions, NEW x \in Places(k),
             OpenSet(b, k, d, x)
      PROVE  EntriesTyped'
    BY <1>8, <1>9 DEF OpenSet
<1>10. ASSUME NEW b \in Batches, OpenDrop(b)
       PROVE  EntriesTyped'
    BY <1>8, <1>10 DEF OpenDrop
<1>11. ASSUME NEW b \in Batches, NEW id \in 1..MaxWardId, SetWard(b, id) \/ DropWard(b)
       PROVE  EntriesTyped'
    <2>1. batch' = [batch EXCEPT ![b] = None] /\ UNCHANGED <<entry, revisions>>
        BY <1>11 DEF SetWard, DropWard
    <2> QED BY <1>2, <2>1 DEF EntriesTyped
<1>12. ASSUME NEW b \in Batches, DropWard(b)
       PROVE  EntriesTyped'
    <2>1. batch' = [batch EXCEPT ![b] = None] /\ UNCHANGED <<entry, revisions>>
        BY <1>12 DEF DropWard
    <2> QED BY <1>2, <2>1 DEF EntriesTyped
<1> QED
    BY <1>1, <1>3, <1>4, <1>5, <1>6, <1>7, <1>9, <1>10, <1>11, <1>12
    DEF ProgressNext, OpenSave, OpenDelete

LEMMA EntriesInit == ProgressInit => EntriesTyped
BY DEF ProgressInit, EntriesTyped

\* The types of Progress.
THEOREM ProgressCorrectlyTyped == ProgressSpec => []ProgressTypeOK
<1>1. PlanTyped /\ [ProgressNext]_progressVars => PlanTyped'
    BY PlanTypedStep
<1>2. EntriesTyped /\ [ProgressNext]_progressVars => EntriesTyped'
    BY EntriesStep
<1>3. PlanTyped /\ EntriesTyped => ProgressTypeOK
    BY DEF PlanTyped, RequestTyped, EntriesTyped, BatchTyped, ProgressTypeOK
<1> QED BY <1>1, <1>2, <1>3, PlanTypedInit, EntriesInit, PTL DEF ProgressSpec

-----------------------------------------------------------------------------
NumbersOnce ==
    \A l, m \in Lessons : entry[l] # None /\ entry[m] # None /\ entry[l].id = entry[m].id
                          => l = m
\* A batch in progress has read the entry there is.
EntriesRead ==
    \A b \in Batches : batch[b] # None /\ batch[b].op \in {"save", "delete"} =>
        batch[b].entry = entry[batch[b].lesson]

HistoryInvariant == EntriesTyped /\ NumbersOnce /\ EntriesRead /\ HistoryLeadsToNow

\* A revision's history goes on as it did if nothing is added to it, and its entry stays.
LEMMA HistoryGoesOn ==
    ASSUME NEW v, NEW l \in Lessons,
           LeadsTo(v, l),
           entry'[l] # None, entry'[l].id = entry[l].id, entry'[l].item = entry[l].item,
           Following(v)' = Following(v)
    PROVE  LeadsTo(v, l)'
BY DEF LeadsTo

LEMMA SavesLeadToNow ==
    ASSUME HistoryInvariant, NEW b \in Batches, Save(b)
    PROVE  NumbersOnce' /\ HistoryLeadsToNow'
<1> DEFINE r == batch[b]
           l == r.lesson
           row == Upsert(l, r.item)
<1> USE DEF HistoryInvariant
<1>1. /\ r.entry = entry[l]
      /\ revisions' = revisions \cup RevisionOf(r)
      /\ entry' = [entry EXCEPT ![l] = row]
    BY DEF Save, EntriesRead
<1>2. /\ l \in Lessons /\ row \in EntryRow /\ row.item = r.item
      /\ entry[l] # None => row.id = entry[l].id
      /\ entry[l] = None => \A m \in Lessons : entry[m] # None => entry[m].id # row.id
    BY Saved
<1>3. row # None /\ \A m \in Lessons : entry'[m] = IF m = l THEN row ELSE entry[m]
    BY <1>1, <1>2, ProgressAssumption DEF EntriesTyped
<1>4. NumbersOnce'
    <2> HIDE DEF row, r, l
    <2> SUFFICES ASSUME NEW m \in Lessons, NEW n \in Lessons,
                        entry'[m] # None, entry'[n] # None, entry'[m].id = entry'[n].id
                 PROVE  m = n
        BY DEF NumbersOnce
    <2> QED BY <1>2, <1>3 DEF NumbersOnce
<1>5. CASE ~Differs(r)
    <2>1. revisions' = revisions /\ (entry[l] # None => entry[l].item = r.item)
        BY <1>1, <1>5 DEF RevisionOf, Differs
    <2> HIDE DEF row, r, l
    <2> SUFFICES ASSUME NEW v \in revisions
                 PROVE  \E m \in Lessons : LeadsTo(v, m)'
        BY <1>4, <2>1 DEF HistoryLeadsToNow
    <2>2. PICK m \in Lessons : LeadsTo(v, m)
        BY DEF HistoryLeadsToNow
    <2>3. entry'[m] # None /\ entry'[m].id = entry[m].id /\ entry'[m].item = entry[m].item
        BY <1>2, <1>3, <2>1, <2>2 DEF LeadsTo
    <2>4. Following(v)' = Following(v)
        BY <2>1 DEF Following
    <2> QED BY <2>2, <2>3, <2>4, HistoryGoesOn
<1>6. CASE Differs(r)
    <2> DEFINE n == [id |-> NextRevision, entry |-> r.entry.id,
                     before |-> r.entry.item, after |-> r.item]
    <2>1. revisions' = revisions \cup {n} /\ entry[l] # None
        BY <1>1, <1>6 DEF RevisionOf, Differs
    <2>2. /\ n.id = NextRevision /\ n.entry = entry[l].id /\ n.before = entry[l].item
          /\ n.after = r.item
        BY <1>1
    <2>3. /\ NextRevision \in Nat
          /\ \A v \in revisions : v.id \in Nat /\ v.id < NextRevision
        BY NewNumbers
    <2> HIDE DEF row, r, l, n
    <2> SUFFICES ASSUME NEW v \in revisions'
                 PROVE  \E m \in Lessons : LeadsTo(v, m)'
        BY <1>4 DEF HistoryLeadsToNow
    <2>4. CASE v = n
        <3>1. Following(v)' = {}
            <4> SUFFICES ASSUME NEW w \in Following(v)' PROVE FALSE
                OBVIOUS
            <4>1. w \in revisions' /\ NextRevision < w.id
                BY <2>2, <2>4 DEF Following
            <4> QED BY <2>1, <2>2, <2>3, <4>1
        <3>2. entry'[l] # None /\ entry'[l].id = v.entry /\ v.after = entry'[l].item
            BY <1>2, <1>3, <2>1, <2>2, <2>4
        <3> QED BY <1>2, <3>1, <3>2 DEF LeadsTo
    <2>5. CASE v \in revisions
        <3>1. PICK m \in Lessons : LeadsTo(v, m)
            BY <2>5 DEF HistoryLeadsToNow
        <3>2. CASE m # l
            <4>1. v.entry # entry[l].id
                BY <1>2, <2>1, <3>1, <3>2 DEF NumbersOnce, LeadsTo
            <4>2. Following(v)' = Following(v)
                BY <2>1, <2>2, <4>1 DEF Following
            <4>3. entry'[m] # None /\ entry'[m].id = entry[m].id /\ entry'[m].item = entry[m].item
                BY <1>3, <3>1, <3>2 DEF LeadsTo
            <4> QED BY <3>1, <4>2, <4>3, HistoryGoesOn
        <3>3. CASE m = l
            <4>1. v.id < n.id /\ n.entry = v.entry /\ n.before = entry[m].item
                BY <2>2, <2>3, <2>5, <3>1, <3>3 DEF LeadsTo
            <4>2. Following(v)' = Following(v) \cup {n}
                BY <2>1, <4>1 DEF Following
            <4>3. ASSUME NEW w \in Following(v)', \A u \in Following(v)' : w.id <= u.id
                  PROVE  v.after = w.before
                <5>1. CASE Following(v) = {}
                    BY <3>1, <3>3, <4>1, <4>2, <4>3, <5>1 DEF LeadsTo
                <5>2. CASE Following(v) # {}
                    <6>1. PICK u \in Following(v) : TRUE
                        BY <5>2
                    <6>2. w # n
                        <7>1. u \in revisions /\ u \in Following(v)'
                            BY <4>2, <6>1 DEF Following
                        <7>2. u.id \in Nat /\ u.id < NextRevision
                            BY <2>3, <7>1
                        <7> QED BY <2>2, <2>3, <4>3, <7>1, <7>2
                    <6> QED BY <3>1, <4>2, <4>3, <6>2 DEF LeadsTo
                <5> QED BY <5>1, <5>2
            <4>4. entry'[l] # None /\ entry'[l].id = v.entry
                BY <1>2, <1>3, <2>1, <3>1, <3>3 DEF LeadsTo
            <4>5. Following(v)' # {}
                BY <4>2
            <4> QED BY <1>2, <4>3, <4>4, <4>5 DEF LeadsTo
        <3> QED BY <3>2, <3>3
    <2> QED BY <2>1, <2>4, <2>5
<1> QED BY <1>4, <1>5, <1>6

LEMMA DeletionsLeadToNow ==
    ASSUME HistoryInvariant, NEW b \in Batches, Delete(b)
    PROVE  NumbersOnce' /\ HistoryLeadsToNow'
<1> USE DEF HistoryInvariant
<1>1. CASE batch[b].entry = None
    <2>1. UNCHANGED <<entry, revisions>>
        BY <1>1 DEF Delete
    <2> QED BY <2>1 DEF NumbersOnce, HistoryLeadsToNow, LeadsTo, Following
<1>2. CASE batch[b].entry # None
    <2> DEFINE id == batch[b].entry.id
    <2>1. /\ revisions' = {v \in revisions : v.entry # id}
          /\ entry' = [l \in Lessons |-> IF entry[l] # None /\ entry[l].id = id
                                         THEN None ELSE entry[l]]
        BY <1>2 DEF Delete, Forgotten
    <2> HIDE DEF id
    <2>2. NumbersOnce'
        BY <2>1 DEF NumbersOnce
    <2> SUFFICES ASSUME NEW v \in revisions, v.entry # id
                 PROVE  \E m \in Lessons : LeadsTo(v, m)'
        BY <2>1, <2>2 DEF HistoryLeadsToNow
    <2>3. PICK m \in Lessons : LeadsTo(v, m)
        BY DEF HistoryLeadsToNow
    <2>4. entry'[m] = entry[m] /\ entry'[m] # None
        BY <2>1, <2>3 DEF LeadsTo
    <2>5. Following(v)' = Following(v)
        BY <2>1 DEF Following
    <2> QED BY <2>3, <2>4, <2>5, HistoryGoesOn
<1> QED BY <1>1, <1>2

LEMMA HistoryStep ==
    ASSUME HistoryInvariant, OneBatch, [ProgressNext]_progressVars
    PROVE  HistoryInvariant'
<1> USE DEF HistoryInvariant
<1>1. EntriesTyped'
    <2> HIDE DEF HistoryInvariant
    <2>1. EntriesTyped
        BY DEF HistoryInvariant
    <2> QED BY <2>1, EntriesStep
<1>2. ASSUME NEW b \in Batches, batch[b] # None, batch' = [batch EXCEPT ![b] = None]
      PROVE  EntriesRead'
    BY <1>2 DEF EntriesRead, OneBatch, EntriesTyped
<1>3. ASSUME NEW b \in Batches, Save(b)
      PROVE  HistoryInvariant'
    <2>1. batch[b] # None /\ batch' = [batch EXCEPT ![b] = None]
        BY <1>3 DEF Save
    <2> QED BY <1>1, <1>2, <1>3, <2>1, SavesLeadToNow
<1>4. ASSUME NEW b \in Batches, Delete(b)
      PROVE  HistoryInvariant'
    <2>1. batch[b] # None /\ batch' = [batch EXCEPT ![b] = None]
        BY <1>4 DEF Delete
    <2> QED BY <1>1, <1>2, <1>4, <2>1, DeletionsLeadToNow
<1>5. ASSUME UNCHANGED <<entry, revisions>>, EntriesRead'
      PROVE  HistoryInvariant'
    BY <1>1, <1>5 DEF NumbersOnce, HistoryLeadsToNow, LeadsTo, Following
<1>6. ASSUME NEW b \in Batches, SaveFails(b)
      PROVE  HistoryInvariant'
    BY <1>2, <1>5, <1>6 DEF SaveFails
<1>7. ASSUME NEW b \in Batches, NEW op, NEW l \in Lessons, NEW i, Open(b, op, l, i)
      PROVE  HistoryInvariant'
    <2> DEFINE r == [op |-> op, lesson |-> l, item |-> i, entry |-> entry[l], ward |-> ward]
    <2>1. batch' = [batch EXCEPT ![b] = r] /\ UNCHANGED <<entry, revisions>>
        BY <1>7 DEF Open, Read
    <2>2. r.lesson = l /\ r.entry = entry[l]
        OBVIOUS
    <2> HIDE DEF r
    <2>3. \A c \in Batches : batch'[c] = IF c = b THEN r ELSE batch[c]
        BY <2>1 DEF EntriesTyped
    <2>4. EntriesRead'
        BY <2>1, <2>2, <2>3 DEF EntriesRead
    <2> QED BY <1>5, <2>1, <2>4
<1>8. ASSUME UNCHANGED progressVars
      PROVE  HistoryInvariant'
    <2>1. UNCHANGED <<entry, revisions, batch>>
        BY <1>8 DEF progressVars
    <2> QED BY <1>5, <2>1 DEF EntriesRead
<1>9. ASSUME NEW b \in Batches, NEW r, Read(b, r), r.op \in {"set", "drop"}
      PROVE  HistoryInvariant'
    <2>1. UNCHANGED <<entry, revisions>>
          /\ \A c \in Batches : batch'[c] = IF c = b THEN r ELSE batch[c]
        BY <1>9 DEF Read, EntriesTyped
    <2> QED BY <1>5, <1>9, <2>1 DEF EntriesRead
<1>10. ASSUME NEW b \in Batches, NEW k \in Kinds, NEW d \in Directions, NEW x \in Places(k),
              OpenSet(b, k, d, x)
       PROVE  HistoryInvariant'
    BY <1>9, <1>10 DEF OpenSet
<1>11. ASSUME NEW b \in Batches, OpenDrop(b)
       PROVE  HistoryInvariant'
    BY <1>9, <1>11 DEF OpenDrop
<1>12. ASSUME NEW b \in Batches, NEW id \in 1..MaxWardId, SetWard(b, id)
       PROVE  HistoryInvariant'
    BY <1>2, <1>5, <1>12 DEF SetWard
<1>13. ASSUME NEW b \in Batches, DropWard(b)
       PROVE  HistoryInvariant'
    BY <1>2, <1>5, <1>13 DEF DropWard
<1> HIDE DEF HistoryInvariant
<1> QED
    BY <1>3, <1>4, <1>6, <1>7, <1>8, <1>10, <1>11, <1>12, <1>13
    DEF ProgressNext, OpenSave, OpenDelete

\* Where at most one batch is in progress at a time, the revisions of an entry lead, one
\* after the other, to what it holds, and none is left of an entry that was deleted, although
\* numbers of entries and of revisions are given again (save_session_progress).
THEOREM HistoriesLeadToNow == ProgressSpec => HistoryOneByOne
<1>1. ProgressInit => HistoryInvariant
    BY EntriesInit DEF ProgressInit, HistoryInvariant, NumbersOnce, EntriesRead, HistoryLeadsToNow
<1>2. HistoryInvariant /\ OneBatch /\ [ProgressNext]_progressVars => HistoryInvariant'
    BY HistoryStep
<1>3. HistoryInvariant => HistoryLeadsToNow
    BY DEF HistoryInvariant
<1> QED BY <1>1, <1>2, <1>3, PTL DEF ProgressSpec, HistoryOneByOne

-----------------------------------------------------------------------------
(***************************************************************************)
(* Mushaf: a portion is not cut short, nor longer than it should be.        *)
(***************************************************************************)

\* A definition by recursion that goes down a measure has a value.
GoesDown(D, n, measure, stop, last, more, next) ==
    /\ n \in Nat /\ measure \in [D -> 1..n] /\ stop \in [D -> BOOLEAN]
    /\ last \in [D -> Int] /\ more \in [D -> Int]
    /\ \A x \in D : ~stop[x] => next[x] \in D /\ measure[next[x]] < measure[x]
Solves(f, D, stop, last, more, next) ==
    \A x \in D : f[x] = IF stop[x] THEN last[x] ELSE more[x] + f[next[x]]

LEMMA RecursionHasValue ==
    ASSUME NEW D, NEW n, NEW measure, NEW stop, NEW last, NEW more, NEW next,
           GoesDown(D, n, measure, stop, last, more, next)
    PROVE  \E f \in [D -> Int] : Solves(f, D, stop, last, more, next)
<1> USE DEF GoesDown, Solves
<1> DEFINE Fits(f, m) == \A x \in D : measure[x] <= m =>
                            f[x] = IF stop[x] THEN last[x] ELSE more[x] + f[next[x]]
           T == {m \in Nat : \E f \in [D -> Int] : Fits(f, m)}
<1>1. ASSUME NEW m \in Nat, NEW f \in [D -> Int], Fits(f, m)
      PROVE  m + 1 \in T
    <2> DEFINE g == [x \in D |-> IF measure[x] <= m THEN f[x]
                                 ELSE IF stop[x] THEN last[x] ELSE more[x] + f[next[x]]]
    <2>1. g \in [D -> Int]
        <3> SUFFICES ASSUME NEW x \in D
                     PROVE  (IF measure[x] <= m THEN f[x]
                             ELSE IF stop[x] THEN last[x] ELSE more[x] + f[next[x]]) \in Int
            OBVIOUS
        <3>1. ~stop[x] => f[next[x]] \in Int
            OBVIOUS
        <3> QED BY <3>1
    <2>2. ASSUME NEW x \in D, measure[x] <= m + 1
          PROVE  g[x] = IF stop[x] THEN last[x] ELSE more[x] + g[next[x]]
        <3>1. measure[x] \in Nat /\ (~stop[x] => next[x] \in D /\ measure[next[x]] \in Nat
                                                /\ measure[next[x]] <= m)
            <4>1. measure[x] \in 1..n /\ (~stop[x] => next[x] \in D)
                OBVIOUS
            <4>2. ~stop[x] => measure[next[x]] \in 1..n /\ measure[next[x]] < measure[x]
                BY <4>1
            <4> QED BY <2>2, <4>1, <4>2
        <3>2. ~stop[x] => g[next[x]] = f[next[x]]
            BY <3>1
        <3>3. g[x] = IF measure[x] <= m THEN f[x]
                     ELSE IF stop[x] THEN last[x] ELSE more[x] + f[next[x]]
            OBVIOUS
        <3> HIDE DEF g
        <3> QED BY <1>1, <3>2, <3>3
    <2>3. \E h \in [D -> Int] : Fits(h, m + 1)
        <3>1. Fits(g, m + 1)
            BY <2>2
        <3> HIDE DEF g, Fits
        <3> QED BY <2>1, <3>1
    <2> HIDE DEF g, Fits
    <2> QED BY <2>3
<1>2. 1 \in T
    <2> DEFINE f == [x \in D |-> 0]
    <2>1. Fits(f, 0)
        <3>1. \A x \in D : measure[x] \in 1..n
            OBVIOUS
        <3> QED BY <3>1
    <2>2. f \in [D -> Int]
        OBVIOUS
    <2>3. 0 + 1 \in T
        <3> HIDE DEF f, Fits, T
        <3> QED BY <1>1, <2>1, <2>2
    <2> HIDE DEF T
    <2> QED BY <2>3
<1>3. ASSUME NEW m \in 1..n, m \in T
      PROVE  m + 1 \in T
    <2>1. PICK f \in [D -> Int] : Fits(f, m)
        <3> HIDE DEF Fits
        <3> QED BY <1>3
    <2> HIDE DEF Fits, T
    <2> QED BY <1>1, <2>1
<1>4. n + 1 \in T
    <2>1. 1..n + 1 \subseteq T
        <3> HIDE DEF T
        <3> QED BY <1>2, <1>3, Climbing
    <2> HIDE DEF T
    <2> QED BY <2>1
<1>5. PICK f \in [D -> Int] : Fits(f, n + 1)
    <2> HIDE DEF Fits
    <2> QED BY <1>4
<1>6. \A x \in D : measure[x] <= n + 1
    OBVIOUS
<1> QED BY <1>5, <1>6

-----------------------------------------------------------------------------
(* Lines and quarters.                                                        *)

\* A set of the first numbers has as many as its largest.
LEMMA FirstNumbers ==
    ASSUME NEW m \in Nat, NEW S \in SUBSET (1..m), \A i \in S : \A j \in 1..m : j <= i => j \in S
    PROVE  /\ Cardinality(S) \in 0..m
           /\ \A i \in 1..m : i \in S <=> i <= Cardinality(S)
<1>1. CASE S = {}
    <2>1. Cardinality(S) = 0
        BY <1>1, FS_EmptySet
    <2> QED BY <1>1, <2>1
<1>2. CASE S # {}
    <2>1. S \in SUBSET Nat /\ \A i \in S : i <= m
        OBVIOUS
    <2>2. PICK k \in S : \A i \in S : i <= k
        BY <1>2, <2>1, LargestNumber
    <2>3. S = 1..k /\ k \in 1..m
        <3>1. k \in 1..m /\ \A j \in 1..m : j <= k => j \in S
            OBVIOUS
        <3>2. \A i \in S : i \in 1..m /\ i <= k
            BY <2>2
        <3>3. 1..k \subseteq S
            BY <3>1
        <3>4. S \subseteq 1..k
            BY <3>1, <3>2
        <3> QED BY <3>1, <3>3, <3>4
    <2>4. Cardinality(1..k) = k
        BY <2>3, FS_Interval
    <2> QED BY <2>3, <2>4
<1> QED BY <1>1, <1>2

\* The lines that end before an ayah are the first ones, and some line ends after it.
LEMMA LineOfIs ==
    ASSUME NEW a \in Ayahs
    PROVE  /\ Len(LineEnds) \in Nat /\ LineOf(a) \in Nat /\ LineOf(a) < Len(LineEnds)
           /\ \A i \in 1..Len(LineEnds) :
                 /\ LineEnds[i] \in Ayahs
                 /\ LineEnds[i] < a <=> i <= LineOf(a)
<1> DEFINE m == Len(LineEnds)
           before == {i \in DOMAIN LineEnds : LineEnds[i] < a}
<1>1. /\ m \in Nat /\ m # 0 /\ DOMAIN LineEnds = 1..m /\ LineEnds[m] = LastAyah
      /\ \A i \in 1..m : LineEnds[i] \in Ayahs
      /\ \A i, j \in 1..m : i <= j => LineEnds[i] <= LineEnds[j]
    BY LinesAssumption
<1>2. \A x \in Ayahs : x \in Nat /\ x <= LastAyah
    BY AyahsAreNumbers
<1>3. \A i \in before : \A j \in 1..m : j <= i => j \in before
    <2> SUFFICES ASSUME NEW i \in before, NEW j \in 1..m, j <= i PROVE LineEnds[j] < a
        BY <1>1
    <2>1. i \in 1..m /\ LineEnds[i] < a
        BY <1>1
    <2>2. LineEnds[j] <= LineEnds[i] /\ LineEnds[i] \in Nat /\ LineEnds[j] \in Nat /\ a \in Nat
        BY <1>1, <1>2, <2>1
    <2> QED BY <2>1, <2>2
<1>4. LineOf(a) = Cardinality(before)
    BY DEF LineOf, BisectLeft
<1>5. \A i \in 1..m : i \in before <=> LineEnds[i] < a
    BY <1>1
<1>6. before \in SUBSET (1..m)
    BY <1>1
<1> HIDE DEF before
<1>7. LineOf(a) \in 0..m /\ \A i \in 1..m : i \in before <=> i <= LineOf(a)
    <2> HIDE DEF m
    <2> QED BY <1>1, <1>3, <1>4, <1>6, FirstNumbers
<1>8. m \notin before
    BY <1>1, <1>2, <1>5
<1>9. m \in 1..m
    BY <1>1
<1> QED BY <1>1, <1>5, <1>7, <1>8, <1>9

\* The quarters that begin up to an ayah are the first ones, and there is one.
LEMMA QuarterOfIs ==
    ASSUME NEW a \in Ayahs
    PROVE  LET k == BisectRight(QuarterStarts, a) IN
           /\ Len(QuarterStarts) \in Nat /\ k \in Nat \ {0} /\ k <= Len(QuarterStarts)
           /\ \A i \in 1..Len(QuarterStarts) :
                 /\ QuarterStarts[i] \in Ayahs
                 /\ QuarterStarts[i] <= a <=> i <= k
<1> DEFINE m == Len(QuarterStarts)
           begun == {i \in DOMAIN QuarterStarts : QuarterStarts[i] <= a}
           k == BisectRight(QuarterStarts, a)
<1>1. /\ m \in Nat /\ m # 0 /\ DOMAIN QuarterStarts = 1..m /\ QuarterStarts[1] = 1
      /\ \A i \in 1..m : QuarterStarts[i] \in Ayahs
      /\ \A i, j \in 1..m : i < j => QuarterStarts[i] < QuarterStarts[j]
    BY QuartersAssumption
<1>2. \A x \in Ayahs : x \in Nat \ {0}
    BY AyahsAreNumbers
<1>3. \A i \in begun : \A j \in 1..m : j <= i => j \in begun
    <2> SUFFICES ASSUME NEW i \in begun, NEW j \in 1..m, j <= i PROVE QuarterStarts[j] <= a
        BY <1>1
    <2>1. i \in 1..m /\ QuarterStarts[i] <= a
        BY <1>1
    <2>2. j < i => QuarterStarts[j] < QuarterStarts[i]
        BY <1>1, <2>1
    <2>3. QuarterStarts[i] \in Nat /\ QuarterStarts[j] \in Nat /\ a \in Nat
        BY <1>1, <1>2, <2>1
    <2>4. CASE j = i
        BY <2>1, <2>4
    <2>5. CASE j < i
        BY <2>1, <2>2, <2>3, <2>5
    <2> QED BY <2>1, <2>4, <2>5
<1>4. k = Cardinality(begun)
    BY DEF BisectRight
<1>5. \A i \in 1..m : i \in begun <=> QuarterStarts[i] <= a
    BY <1>1
<1>6. begun \in SUBSET (1..m)
    BY <1>1
<1> HIDE DEF begun
<1>7. k \in 0..m /\ \A i \in 1..m : i \in begun <=> i <= k
    <2> HIDE DEF m, k
    <2> QED BY <1>1, <1>3, <1>4, <1>6, FirstNumbers
<1>8. 1 \in 1..m /\ 1 \in begun
    BY <1>1, <1>2, <1>5
<1> HIDE DEF k
<1>9. k # 0
    BY <1>7, <1>8
<1> QED BY <1>1, <1>5, <1>7, <1>9 DEF k

\* Further on is not on an earlier line, nor in an earlier quarter.
LEMMA PlacesAscend ==
    ASSUME NEW a \in Ayahs, NEW e \in Ayahs, a <= e
    PROVE  /\ LineOf(a) <= LineOf(e)
           /\ BisectRight(QuarterStarts, a) <= BisectRight(QuarterStarts, e)
<1>0. a \in Nat /\ e \in Nat
    BY AyahsAreNumbers
<1>1. LineOf(a) <= LineOf(e)
    <2> DEFINE k == LineOf(a)
    <2>1. k \in Nat /\ LineOf(e) \in Nat /\ k < Len(LineEnds) /\ Len(LineEnds) \in Nat
        BY LineOfIs
    <2>2. CASE k = 0
        BY <2>1, <2>2
    <2>3. CASE k # 0
        <3>1. k \in 1..Len(LineEnds) /\ LineEnds[k] \in Nat /\ LineEnds[k] < a
            BY <2>1, <2>3, LineOfIs, AyahsAreNumbers
        <3>2. LineEnds[k] < e
            BY <1>0, <3>1
        <3> HIDE DEF k
        <3>3. k <= LineOf(e)
            BY <3>1, <3>2, LineOfIs
        <3> QED BY <3>3 DEF k
    <2> QED BY <2>2, <2>3
<1>2. BisectRight(QuarterStarts, a) <= BisectRight(QuarterStarts, e)
    <2> DEFINE k == BisectRight(QuarterStarts, a)
    <2>0. k \in Nat \ {0} /\ k <= Len(QuarterStarts) /\ Len(QuarterStarts) \in Nat
          /\ \A i \in 1..Len(QuarterStarts) :
                QuarterStarts[i] \in Ayahs /\ (QuarterStarts[i] <= a <=> i <= k)
        BY QuarterOfIs
    <2> HIDE DEF k
    <2>1. k \in 1..Len(QuarterStarts) /\ QuarterStarts[k] \in Ayahs /\ QuarterStarts[k] <= a
        BY <2>0
    <2>2. QuarterStarts[k] <= e
        <3>1. QuarterStarts[k] \in Nat
            BY <2>1, AyahsAreNumbers
        <3> QED BY <1>0, <2>1, <3>1
    <2>3. k <= BisectRight(QuarterStarts, e)
        BY <2>1, <2>2, QuarterOfIs
    <2> QED BY <2>3 DEF k
<1> QED BY <1>1, <1>2

-----------------------------------------------------------------------------
(* What a segment counts as.                                                 *)

\* Rounding up.
LEMMA Product == \A y, p, q \in Nat : p < q => y * p + y <= y * q
<1> SUFFICES ASSUME NEW y \in Nat, NEW p \in Nat, NEW q \in Nat, p < q
             PROVE  y * p + y <= y * q
    OBVIOUS
<1>1. PICK d \in Nat : q = p + 1 + d
    <2>1. q - p - 1 \in Nat /\ q = p + 1 + (q - p - 1)
        OBVIOUS
    <2> QED BY <2>1
<1>2. y * q = y * p + y + y * d
    BY <1>1
<1>3. y * d \in Nat /\ y * p \in Nat
    OBVIOUS
<1> QED BY <1>2, <1>3

LEMMA QuotientIs ==
    ASSUME NEW y \in Nat \ {0}, NEW p \in Nat, NEW q \in Nat, y * q <= p, p < y * q + y
    PROVE  p \div y = q
<1> DEFINE r == p \div y
<1>1. r \in Nat /\ y * r <= p /\ p < y * r + y
    OBVIOUS
<1> HIDE DEF r
<1>2. y * r \in Nat /\ y * q \in Nat
    BY <1>1
<1>3. ~(r < q)
    BY <1>1, <1>2, Product
<1>4. ~(q < r)
    BY <1>1, <1>2, Product
<1>5. r = q
    BY <1>1, <1>3, <1>4
<1> QED BY <1>5 DEF r

LEMMA CeilIs ==
    ASSUME NEW x \in Nat, NEW y \in Nat \ {0}, NEW c \in Nat
    PROVE  /\ Ceil(x, y) \in Nat /\ (x # 0 => Ceil(x, y) # 0)
           /\ x <= y * c => Ceil(x, y) <= c
           /\ Ceil(y * c, y) = c
           /\ y * c + 1 <= x => c + 1 <= Ceil(x, y)
<1> DEFINE p == x + y - 1
           q == p \div y
<1>1. p \in Nat /\ Ceil(x, y) = q
    BY DEF Ceil
<1> HIDE DEF p
<1>2. q \in Nat /\ y * q <= p /\ p < y * q + y
    BY <1>1
<1> HIDE DEF q
<1>3. y * q \in Nat /\ y * c \in Nat /\ y * 0 = 0 /\ y * 1 = y /\ y * (c + 1) = y * c + y
    BY <1>2
<1>4. x # 0 => q # 0
    BY <1>2, <1>3 DEF p
<1>5. x <= y * c => q <= c
    <2>1. ASSUME x <= y * c, c < q
          PROVE  FALSE
        <3>1. y * c + y <= y * q
            BY <1>2, <2>1, Product
        <3> QED BY <1>2, <1>3, <2>1, <3>1 DEF p
    <2> QED BY <1>2, <2>1
<1>6. Ceil(y * c, y) = c
    <2>1. y * c + y - 1 \in Nat /\ y * c <= y * c + y - 1 /\ y * c + y - 1 < y * c + y
        BY <1>3
    <2> QED BY <2>1, QuotientIs DEF Ceil
<1>7. y * c + 1 <= x => c + 1 <= q
    <2>1. ASSUME y * c + 1 <= x, q < c + 1
          PROVE  FALSE
        <3>1. y * q + y <= y * (c + 1)
            BY <1>2, <2>1, Product
        <3> QED BY <1>2, <1>3, <2>1, <3>1 DEF p
    <2> QED BY <1>2, <2>1
<1> QED BY <1>1, <1>2, <1>4, <1>5, <1>6, <1>7

LEMMA SizeIs == \A unit \in ReverseUnits : Size(unit) \in Nat \ {0} /\ (unit = "ayahs" => Size(unit) = 1)
<1>1. LinesInHalf \in Nat \ {0} /\ QuartersInHizb \in Nat \ {0}
    BY LinesAssumption, QuartersAssumption
<1>2. 2 * QuartersInHizb \in Nat \ {0}
    BY <1>1
<1> QED BY <1>1, <1>2 DEF Size, ReverseUnits, LineUnits, QuarterUnits

LEMMA PartsAre ==
    ASSUME NEW a, NEW e, NEW unit
    PROVE  /\ unit = "ayahs" => Parts(a, e, unit) = e - a + 1
           /\ unit \in LineUnits => Parts(a, e, unit) = LineOf(e) - LineOf(a) + 1
           /\ unit \in QuarterUnits => Parts(a, e, unit) = QuarterOf(e) - QuarterOf(a) + 1
<1>1. unit = "ayahs" => unit \notin LineUnits /\ unit \notin QuarterUnits
    BY DEF LineUnits, QuarterUnits
<1>2. unit \in LineUnits => unit # "ayahs" /\ unit \notin QuarterUnits
    BY DEF LineUnits, QuarterUnits
<1>3. unit \in QuarterUnits => unit # "ayahs" /\ unit \notin LineUnits
    BY DEF LineUnits, QuarterUnits
<1> QED BY <1>1, <1>2, <1>3 DEF Parts

\* What lies between two ayahs has at least a part of a unit.
LEMMA PartsIs ==
    ASSUME NEW a \in Ayahs, NEW e \in Ayahs, a <= e, NEW unit \in ReverseUnits
    PROVE  Parts(a, e, unit) \in Nat \ {0} /\ Counted(a, e, unit) \in Nat \ {0}
<1>1. a \in Nat /\ e \in Nat
    BY AyahsAreNumbers
<1>2. LineOf(a) \in Nat /\ LineOf(e) \in Nat /\ LineOf(a) <= LineOf(e)
    BY LineOfIs, PlacesAscend
<1>3. QuarterOf(a) \in Nat /\ QuarterOf(e) \in Nat /\ QuarterOf(a) <= QuarterOf(e)
    <2> DEFINE p == BisectRight(QuarterStarts, a)
               q == BisectRight(QuarterStarts, e)
    <2>1. p \in Nat \ {0} /\ q \in Nat \ {0} /\ p <= q
        BY QuarterOfIs, PlacesAscend
    <2>2. QuarterOf(a) = p - 1 /\ QuarterOf(e) = q - 1
        BY DEF QuarterOf
    <2> HIDE DEF p, q
    <2> QED BY <2>1, <2>2
<1>4. Parts(a, e, unit) \in Nat \ {0}
    <2>1. CASE unit = "ayahs"
        BY <1>1, <2>1, PartsAre
    <2>2. CASE unit \in LineUnits
        BY <1>2, <2>2, PartsAre
    <2>3. CASE unit \in QuarterUnits
        BY <1>3, <2>3, PartsAre
    <2> QED BY <2>1, <2>2, <2>3 DEF ReverseUnits
<1>5. Ceil(Parts(a, e, unit), Size(unit)) \in Nat \ {0}
    <2> DEFINE x == Parts(a, e, unit)
               y == Size(unit)
    <2>1. x \in Nat /\ x # 0 /\ y \in Nat \ {0} /\ 0 \in Nat
        BY <1>4, SizeIs
    <2> HIDE DEF x, y
    <2>2. Ceil(x, y) \in Nat /\ Ceil(x, y) # 0
        BY <2>1, CeilIs
    <2> QED BY <2>2 DEF x, y
<1> QED BY <1>4, <1>5 DEF Counted

\* How far a number of units reaches: not less far than the ayah, and with the next ayah
\* further than they are, unless the book ends; in ayahs and quarters, no further.
LEMMA UncappedIs ==
    ASSUME NEW a \in Ayahs, NEW n \in Nat \ {0}, NEW unit \in ReverseUnits
    PROVE  LET u == UncappedEnd(a, n, unit) IN
           /\ u \in Ayahs /\ a <= u
           /\ u # LastAyah =>
                 u + 1 \in Ayahs /\ Size(unit) * n + 1 <= Parts(a, u + 1, unit)
           /\ unit \notin LineUnits =>
                 /\ Parts(a, u, unit) <= Size(unit) * n
                 /\ u # LastAyah => Parts(a, u, unit) = Size(unit) * n
<1> DEFINE u == UncappedEnd(a, n, unit)
<1>1. /\ a \in Nat \ {0} /\ a <= LastAyah /\ LastAyah \in Nat \ {0} /\ LastAyah \in Ayahs
      /\ \A x \in Nat : x # 0 /\ x <= LastAyah => x \in Ayahs
    BY AyahsAreNumbers DEF Ayahs
<1>2. CASE unit = "ayahs"
    <2>1. u = Lesser(a + n - 1, LastAyah) /\ unit \notin LineUnits /\ Size(unit) = 1
        <3>1. unit \notin LineUnits /\ unit \notin QuarterUnits
            BY <1>2 DEF LineUnits, QuarterUnits
        <3>2. Size(unit) = 1
            BY <1>2, SizeIs
        <3>3. u = AyahsToEnd(a, n)
            BY <1>2, <3>1 DEF UncappedEnd
        <3> QED BY <3>1, <3>2, <3>3 DEF AyahsToEnd
    <2> HIDE DEF u
    <2>3. u \in Nat \ {0} /\ u <= LastAyah /\ a <= u /\ u - a + 1 <= n
          /\ (u # LastAyah => u = a + n - 1 /\ u + 1 <= LastAyah)
        BY <1>1, <2>1 DEF Lesser
    <2>4. u \in Ayahs /\ (u # LastAyah => u + 1 \in Ayahs)
        BY <1>1, <2>3
    <2>5. Parts(a, u, unit) = u - a + 1 /\ Parts(a, u + 1, unit) = u + 1 - a + 1
        <3> DEFINE v == u + 1
        <3>1. \A x : Parts(a, x, unit) = x - a + 1
            BY <1>2, PartsAre
        <3> HIDE DEF v
        <3>2. Parts(a, u, unit) = u - a + 1 /\ Parts(a, v, unit) = v - a + 1
            BY <3>1
        <3> QED BY <1>1, <2>3, <3>2 DEF v
    <2>6. Size(unit) * n = n
        BY <2>1
    <2>7. u # LastAyah => u - a + 1 = n /\ n + 1 <= u + 1 - a + 1
        BY <1>1, <2>3
    <2> QED BY <2>3, <2>4, <2>5, <2>6, <2>7 DEF u
<1>3. CASE unit \in LineUnits
    <2> DEFINE k == LineOf(a)
               m == Len(LineEnds)
               y == Size(unit)
               j == Lesser(k + n * y, m)
    <2>1. u = LineEnds[j]
        <3>1. unit # "ayahs" /\ unit \notin QuarterUnits
            BY <1>3 DEF LineUnits, QuarterUnits
        <3> QED BY <1>3, <3>1 DEF UncappedEnd, LinesToEnd
    <2>2. /\ k \in Nat /\ m \in Nat /\ k < m /\ y \in Nat \ {0}
          /\ \A i \in 1..m : LineEnds[i] \in Ayahs /\ (LineEnds[i] < a <=> i <= k)
        BY LineOfIs, SizeIs
    <2> HIDE DEF k, m, y
    <2>3. n * y \in Nat \ {0}
        BY <2>2
    <2>4. j \in 1..m /\ ~(j <= k)
        <3> DEFINE z == n * y
        <3> HIDE DEF z
        <3>1. z \in Nat \ {0} /\ j = Lesser(k + z, m)
            BY <2>3 DEF z
        <3> QED BY <2>2, <3>1 DEF Lesser
    <2>5. u \in Ayahs /\ ~(u < a)
        <3> HIDE DEF j
        <3> QED BY <2>1, <2>2, <2>4
    <2>6. u \in Nat
        <3> HIDE DEF u
        <3> QED BY <2>5, AyahsAreNumbers
    <2>7. ASSUME u # LastAyah
          PROVE  u + 1 \in Ayahs /\ y * n + 1 <= Parts(a, u + 1, unit)
        <3> DEFINE z == n * y
                   c == LineOf(u + 1)
        <3>1. z \in Nat /\ z = y * n /\ j = Lesser(k + z, m)
            BY <2>2
        <3>2. LineEnds[m] = LastAyah /\ DOMAIN LineEnds = 1..m
              /\ \A i, l \in DOMAIN LineEnds : i <= l => LineEnds[i] <= LineEnds[l]
            BY LinesAssumption DEF m
        <3> HIDE DEF z, j
        <3>3. j # m
            <4> HIDE DEF u
            <4> QED BY <2>1, <2>7, <3>2
        <3>4. j = k + z
            BY <2>2, <3>1, <3>3 DEF Lesser
        <3> HIDE DEF u
        <3>5. u + 1 \in Ayahs
            BY <1>1, <2>5, <2>6, <2>7, AyahsAreNumbers
        <3>6. c \in Nat /\ (LineEnds[j] < u + 1 <=> j <= c)
            BY <2>4, <3>5, LineOfIs DEF m
        <3> HIDE DEF c
        <3>7. j <= c
            BY <2>1, <2>6, <3>6
        <3>8. Parts(a, u + 1, unit) = c - k + 1
            BY <1>3, PartsAre DEF c, k
        <3> QED BY <2>2, <3>1, <3>4, <3>5, <3>6, <3>7, <3>8
    <2> HIDE DEF j, u
    <2>8. ~(u < a) => a <= u
        BY <1>1, <2>6
    <2> QED BY <1>3, <2>5, <2>7, <2>8 DEF u, y
<1>4. CASE unit \in QuarterUnits
    <2> DEFINE k == BisectRight(QuarterStarts, a)
               m == Len(QuarterStarts)
               y == Size(unit)
               z == y * n
               b == k + n * y
    <2>1. /\ u = IF b <= m THEN QuarterStarts[b] - 1 ELSE LastAyah
          /\ unit \notin LineUnits
          /\ \A x : Parts(a, x, unit) = BisectRight(QuarterStarts, x) - 1 - (k - 1) + 1
        <3>1. unit # "ayahs" /\ unit \notin LineUnits
            BY <1>4 DEF LineUnits, QuarterUnits
        <3> QED BY <1>4, <3>1, PartsAre DEF UncappedEnd, QuarterOf
    <2>2. /\ k \in Nat \ {0} /\ m \in Nat /\ k <= m /\ y \in Nat \ {0}
          /\ \A i \in 1..m : QuarterStarts[i] \in Ayahs /\ (QuarterStarts[i] <= a <=> i <= k)
        BY QuarterOfIs, SizeIs
    <2> HIDE DEF k, m, y
    <2>3. z \in Nat \ {0} /\ b = k + z
        BY <2>2
    <2> HIDE DEF z, b
    <2>4. CASE b <= m
        <3> DEFINE q == QuarterStarts[b]
        <3>1. b \in 1..m /\ ~(b <= k)
            BY <2>2, <2>3, <2>4
        <3>2. q \in Ayahs /\ ~(q <= a)
            BY <2>2, <3>1
        <3>3. q \in Nat \ {0} /\ q <= LastAyah /\ a <= q - 1 /\ q - 1 \in Nat \ {0} /\ u = q - 1
              /\ u + 1 = q /\ u <= LastAyah
            <4>1. q \in Nat /\ q <= LastAyah
                BY <3>2, AyahsAreNumbers
            <4>2. u = q - 1
                BY <2>1, <2>4
            <4> HIDE DEF q, u
            <4> QED BY <1>1, <3>2, <4>1, <4>2
        <3>4. u \in Ayahs
            BY <1>1, <3>3
        <3>5. BisectRight(QuarterStarts, q) = b
            <4> DEFINE c == BisectRight(QuarterStarts, q)
            <4>1. /\ c \in Nat \ {0} /\ c <= m
                  /\ \A i \in 1..m : QuarterStarts[i] <= q <=> i <= c
                BY <3>2, QuarterOfIs DEF m
            <4> HIDE DEF c
            <4>2. b <= c
                BY <3>1, <3>3, <4>1
            <4>3. ~(b < c)
                <5> SUFFICES ASSUME b < c PROVE FALSE
                    OBVIOUS
                <5>1. c \in 1..m /\ QuarterStarts[c] <= q
                    BY <4>1, <2>2
                <5>2. q < QuarterStarts[c] /\ QuarterStarts[c] \in Nat
                    <6>1. DOMAIN QuarterStarts = 1..m
                        BY QuartersAssumption DEF m
                    <6>2. QuarterStarts[c] \in Nat
                        BY <2>2, <5>1, AyahsAreNumbers
                    <6> QED BY <3>1, <5>1, <6>1, <6>2, QuartersAssumption
                <5> QED BY <3>3, <5>1, <5>2
            <4>4. c = b
                BY <3>1, <4>1, <4>2, <4>3
            <4> QED BY <4>4 DEF c
        <3>6. BisectRight(QuarterStarts, u) = b - 1
            <4> DEFINE c == BisectRight(QuarterStarts, u)
            <4>1. /\ c \in Nat \ {0} /\ c <= m
                  /\ \A i \in 1..m : QuarterStarts[i] <= u <=> i <= c
                BY <3>4, QuarterOfIs DEF m
            <4> HIDE DEF c
            <4>2. ~(b <= c)
                BY <3>1, <3>3, <4>1
            <4>3. b - 1 \in 1..m /\ b - 1 <= c
                <5>1. b - 1 \in 1..m /\ b - 1 < b
                    BY <2>2, <2>3, <3>1
                <5>2. QuarterStarts[b - 1] < q
                    <6>1. DOMAIN QuarterStarts = 1..m
                        BY QuartersAssumption DEF m
                    <6> QED BY <3>1, <5>1, <6>1, QuartersAssumption
                <5>3. QuarterStarts[b - 1] \in Nat
                    BY <2>2, <5>1, AyahsAreNumbers
                <5>4. QuarterStarts[b - 1] <= u
                    <6> HIDE DEF q, u
                    <6> QED BY <3>3, <5>2, <5>3
                <5> QED BY <4>1, <5>1, <5>4
            <4>4. c = b - 1
                BY <3>1, <4>1, <4>2, <4>3
            <4> QED BY <4>4 DEF c
        <3>7. Parts(a, u, unit) = z /\ Parts(a, u + 1, unit) = z + 1
            <4>1. Parts(a, u, unit) = b - 1 - 1 - (k - 1) + 1
                BY <2>1, <3>6
            <4>2. Parts(a, u + 1, unit) = b - 1 - (k - 1) + 1
                BY <2>1, <3>3, <3>5
            <4> QED BY <2>2, <2>3, <4>1, <4>2
        <3>8. u + 1 \in Ayahs
            BY <3>2, <3>3
        <3>9. a <= u
            BY <3>3
        <3> HIDE DEF u, q
        <3>10. z <= z /\ z + 1 <= z + 1
            BY <2>3
        <3> QED BY <3>4, <3>7, <3>8, <3>9, <3>10 DEF u, z, y
    <2>5. CASE ~(b <= m)
        <3>1. u = LastAyah
            BY <2>1, <2>5
        <3> DEFINE c == BisectRight(QuarterStarts, u)
        <3>2. c \in Nat /\ c <= m
            BY <1>1, <3>1, QuarterOfIs DEF m
        <3>3. Parts(a, u, unit) = c - 1 - (k - 1) + 1
            BY <2>1
        <3> HIDE DEF u, c
        <3>4. Parts(a, u, unit) <= z
            BY <2>2, <2>3, <2>5, <3>2, <3>3
        <3> QED BY <1>1, <3>1, <3>4 DEF u, z, y
    <2> QED BY <2>4, <2>5
<1> QED BY <1>2, <1>3, <1>4 DEF ReverseUnits

LEMMA CountedIs ==
    ASSUME NEW a \in Ayahs, NEW e \in Ayahs, NEW unit \in ReverseUnits
    PROVE  /\ Counted(a, e, unit) \in Int
           /\ a <= e => Counted(a, e, unit) \in Nat \ {0}
           /\ Used(a, e, unit) = Counted(a, e, unit)
<1>1. Parts(a, e, unit) \in Int
    <2>1. a \in Int /\ e \in Int /\ LineOf(a) \in Int /\ LineOf(e) \in Int
        BY AyahsAreNumbers, LineOfIs
    <2>2. BisectRight(QuarterStarts, a) \in Int /\ BisectRight(QuarterStarts, e) \in Int
        BY QuarterOfIs
    <2>3. QuarterOf(a) \in Int /\ QuarterOf(e) \in Int
        BY <2>2 DEF QuarterOf
    <2> QED BY <2>1, <2>3, PartsAre DEF ReverseUnits
<1>2. Ceil(Parts(a, e, unit), Size(unit)) \in Int
    <2> DEFINE x == Parts(a, e, unit)
               y == Size(unit)
    <2>1. x \in Int /\ y \in Nat \ {0}
        BY <1>1, SizeIs
    <2> HIDE DEF x, y
    <2>2. x + y - 1 \in Int
        BY <2>1
    <2>3. (x + y - 1) \div y \in Int
        BY <2>1, <2>2
    <2> QED BY <2>3 DEF Ceil, x, y
<1> QED BY <1>2, PartsIs DEF Counted, Used, Rounded

\* In lines, a longer stretch counts as no less.
LEMMA CountedGrows ==
    ASSUME NEW a \in Ayahs, NEW x \in Ayahs, NEW e \in Ayahs, a <= x, x <= e,
           NEW unit \in LineUnits
    PROVE  Counted(a, x, unit) <= Counted(a, e, unit)
<1> DEFINE p == Parts(a, x, unit)
           q == Parts(a, e, unit)
           y == Size(unit)
           c == Ceil(q, y)
<1>1. unit \in ReverseUnits /\ a \in Nat /\ x \in Nat /\ e \in Nat
    BY AyahsAreNumbers DEF ReverseUnits
<1>2. a <= e
    BY <1>1
<1>3. p \in Nat /\ q \in Nat /\ y \in Nat \ {0}
    BY <1>1, <1>2, PartsIs, SizeIs
<1>4. p <= q
    <2>1. /\ LineOf(a) \in Nat /\ LineOf(x) \in Nat /\ LineOf(e) \in Nat
          /\ LineOf(x) <= LineOf(e)
        BY LineOfIs, PlacesAscend
    <2>2. p = LineOf(x) - LineOf(a) + 1 /\ q = LineOf(e) - LineOf(a) + 1
        BY PartsAre
    <2> HIDE DEF p, q
    <2> QED BY <2>1, <2>2
<1> HIDE DEF p, q, y
<1>5. c \in Nat
    BY <1>3, CeilIs
<1>6. q <= y * c
    <2>1. ~(y * c + 1 <= q)
        <3>1. ~(c + 1 <= c)
            BY <1>5
        <3> HIDE DEF c
        <3>2. y * c + 1 <= q => c + 1 <= Ceil(q, y)
            BY <1>3, <1>5, CeilIs
        <3> QED BY <3>1, <3>2 DEF c
    <2> HIDE DEF c
    <2>2. y * c \in Nat
        BY <1>3, <1>5
    <2> QED BY <1>3, <2>1, <2>2
<1> HIDE DEF c
<1>7. p <= y * c
    <2>1. y * c \in Nat
        BY <1>3, <1>5
    <2> QED BY <1>3, <1>4, <1>6, <2>1
<1>8. Ceil(p, y) <= c
    BY <1>3, <1>5, <1>7, CeilIs
<1> QED BY <1>8 DEF Counted, p, q, y, c

LEMMA SegmentIs ==
    ASSUME NEW a \in Ayahs, NEW n \in Nat \ {0}, NEW unit \in ReverseUnits
    PROVE  LET e == SegmentEnd(a, n, unit) IN
           /\ e \in Ayahs /\ a <= e /\ e <= SurahEnd(a)
           /\ SurahOf(e) = SurahOf(a) /\ SurahEnd(e) = SurahEnd(a)
           /\ Used(a, e, unit) \in Nat \ {0} /\ Used(a, e, unit) = Counted(a, e, unit)
           /\ e < SurahEnd(a) => e + 1 \in Ayahs /\ n + 1 <= Counted(a, e + 1, unit)
           /\ unit \notin LineUnits =>
                 Used(a, e, unit) <= n /\ (e < SurahEnd(a) => Used(a, e, unit) = n)
<1> DEFINE u == UncappedEnd(a, n, unit)
           e == SegmentEnd(a, n, unit)
           end == SurahEnd(a)
           y == Size(unit)
<1>1. /\ u \in Ayahs /\ a <= u
      /\ u # LastAyah => u + 1 \in Ayahs /\ y * n + 1 <= Parts(a, u + 1, unit)
      /\ unit \notin LineUnits =>
            /\ Parts(a, u, unit) <= y * n
            /\ u # LastAyah => Parts(a, u, unit) = y * n
    BY UncappedIs
<1>2. end \in Ayahs /\ a <= end /\ a \in Int /\ end \in Int /\ end <= LastAyah /\ LastAyah \in Int
    BY SurahBounds, AyahsAreNumbers
<1>3. e = Lesser(u, end) /\ u \in Int /\ y \in Nat \ {0}
    BY <1>1, AyahsAreNumbers, SizeIs DEF SegmentEnd
<1> HIDE DEF u, e, end, y
<1>4. e \in Int /\ a <= e /\ e <= end /\ e <= u /\ (e < end => e = u /\ u # LastAyah)
    BY <1>1, <1>2, <1>3 DEF Lesser
<1>5. e \in Ayahs /\ SurahOf(e) = SurahOf(a) /\ SurahEnd(e) = end
    BY <1>4, InOneSurah DEF end
<1>6. Used(a, e, unit) \in Nat \ {0} /\ Used(a, e, unit) = Counted(a, e, unit)
    BY <1>4, <1>5, CountedIs
<1>7. ASSUME unit \notin LineUnits
      PROVE  Used(a, e, unit) <= n
    <2> DEFINE x == Parts(a, e, unit)
    <2>1. x \in Nat /\ Parts(a, u, unit) \in Nat /\ x <= Parts(a, u, unit)
        <3>1. x \in Nat /\ Parts(a, u, unit) \in Nat
            BY <1>1, <1>4, <1>5, PartsIs
        <3>2. unit = "ayahs" \/ unit \in QuarterUnits
            BY <1>7 DEF ReverseUnits
        <3>3. CASE unit = "ayahs"
            BY <1>2, <1>3, <1>4, <3>3, PartsAre
        <3>4. CASE unit \in QuarterUnits
            <4>1. /\ BisectRight(QuarterStarts, e) <= BisectRight(QuarterStarts, u)
                  /\ BisectRight(QuarterStarts, e) \in Int /\ BisectRight(QuarterStarts, u) \in Int
                  /\ BisectRight(QuarterStarts, a) \in Int
                BY <1>1, <1>4, <1>5, PlacesAscend, QuarterOfIs
            <4>2. /\ QuarterOf(e) <= QuarterOf(u)
                  /\ QuarterOf(e) \in Int /\ QuarterOf(u) \in Int /\ QuarterOf(a) \in Int
                BY <4>1 DEF QuarterOf
            <4>3. x = QuarterOf(e) - QuarterOf(a) + 1
                  /\ Parts(a, u, unit) = QuarterOf(u) - QuarterOf(a) + 1
                BY <3>4, PartsAre
            <4> HIDE DEF x
            <4> QED BY <3>1, <4>2, <4>3
        <3> QED BY <3>1, <3>2, <3>3, <3>4
    <2> HIDE DEF x
    <2>2. y * n \in Nat
        BY <1>3
    <2>3. x <= y * n
        BY <1>1, <1>7, <2>1, <2>2
    <2>4. Ceil(x, y) <= n
        BY <1>3, <2>1, <2>3, CeilIs
    <2> QED BY <1>6, <2>4 DEF Counted, x, y
<1>8. ASSUME unit \notin LineUnits, e < end
      PROVE  Used(a, e, unit) = n
    <2>1. Parts(a, e, unit) = y * n
        BY <1>1, <1>4, <1>8
    <2>2. Ceil(y * n, y) = n
        BY <1>3, CeilIs
    <2> QED BY <1>6, <2>1, <2>2 DEF Counted, y
<1>9. ASSUME e < end
      PROVE  e + 1 \in Ayahs /\ n + 1 <= Counted(a, e + 1, unit)
    <2> DEFINE x == Parts(a, e + 1, unit)
    <2>1. e + 1 \in Ayahs /\ y * n + 1 <= x
        BY <1>1, <1>4, <1>9
    <2>2. x \in Nat
        <3>1. a <= e + 1
            BY <1>2, <1>4
        <3> QED BY <2>1, <3>1, PartsIs
    <2> HIDE DEF x
    <2>3. n + 1 <= Ceil(x, y)
        BY <1>3, <2>1, <2>2, CeilIs
    <2> QED BY <2>1, <2>3 DEF Counted, x, y
<1> QED BY <1>4, <1>5, <1>6, <1>7, <1>8, <1>9 DEF e, end

\* The cost of a stretch goes surah by surah.
LEMMA CostIs ==
    ASSUME NEW a \in Ayahs, NEW e \in Ayahs, NEW unit \in ReverseUnits
    PROVE  /\ Cost(a, e, unit) \in Int /\ (Reads(a, e) => Cost(a, e, unit) >= 0)
           /\ SurahOf(a) <= SurahOf(e) => Cost(a, e, unit) = Counted(a, e, unit)
           /\ SurahOf(e) < SurahOf(a) =>
                 Cost(a, e, unit) = Counted(a, SurahEnd(a), unit)
                                    + Cost(SurahFirst[SurahOf(a) - 1], e, unit)
<1> DEFINE stop == [x \in Ayahs |-> SurahOf(x) <= SurahOf(e)]
           measure == [x \in Ayahs |-> SurahOf(x)]
           last == [x \in Ayahs |-> Counted(x, e, unit)]
           more == [x \in Ayahs |-> Counted(x, SurahEnd(x), unit)]
           next == [x \in Ayahs |-> SurahFirst[SurahOf(x) - 1]]
           Body(f) == [x \in Ayahs |->
                        IF SurahOf(x) <= SurahOf(e) THEN Counted(x, e, unit)
                        ELSE Counted(x, SurahEnd(x), unit) + f[SurahFirst[SurahOf(x) - 1]]]
           F == CHOOSE f : f = Body(f)
<1>1. \A x \in Ayahs : SurahOf(x) \in 1..Len(SurahAyahs) /\ SurahEnd(x) \in Ayahs
    BY SurahBounds, AyahsAreNumbers
<1>2. \A x \in Ayahs : ~(SurahOf(x) <= SurahOf(e)) =>
          LET y == SurahFirst[SurahOf(x) - 1] IN
          y \in Ayahs /\ SurahOf(y) < SurahOf(x) /\ SurahOf(y) = SurahOf(x) - 1
    <2> SUFFICES ASSUME NEW x \in Ayahs, ~(SurahOf(x) <= SurahOf(e))
                 PROVE  LET y == SurahFirst[SurahOf(x) - 1] IN
                        y \in Ayahs /\ SurahOf(y) < SurahOf(x) /\ SurahOf(y) = SurahOf(x) - 1
        OBVIOUS
    <2>1. SurahOf(x) > 1 /\ SurahOf(x) \in Nat
        <3>1. SurahOf(x) \in 1..Len(SurahAyahs) /\ SurahOf(e) \in 1..Len(SurahAyahs)
            BY <1>1
        <3> QED BY <3>1
    <2>2. SurahEnd(x) \in Ayahs /\ SurahOf(SurahEnd(x)) = SurahOf(x)
          /\ SurahEnd(SurahEnd(x)) = SurahEnd(x)
        <3>1. x \in Int /\ SurahEnd(x) \in Ayahs /\ SurahEnd(x) \in Int /\ x <= SurahEnd(x)
            BY <1>1, SurahBounds, AyahsAreNumbers
        <3>2. SurahEnd(x) <= SurahEnd(x)
            BY <3>1
        <3> QED BY <3>1, <3>2, InOneSurah
    <2>3. SurahFirst[SurahOf(x) - 1] \in Ayahs
          /\ SurahOf(SurahFirst[SurahOf(x) - 1]) = SurahOf(x) - 1
        BY <2>1, <2>2, NextBackward
    <2> QED BY <2>1, <2>3
<1>3. \E f : f = Body(f)
    <2>1. /\ stop \in [Ayahs -> BOOLEAN] /\ measure \in [Ayahs -> 1..Len(SurahAyahs)]
          /\ last \in [Ayahs -> Int] /\ more \in [Ayahs -> Int]
        BY <1>1, CountedIs
    <2>2. \A x \in Ayahs : ~stop[x] => next[x] \in Ayahs /\ measure[next[x]] < measure[x]
        BY <1>2
    <2>3. Len(SurahAyahs) \in Nat
        BY AyahsAreNumbers
    <2>4. GoesDown(Ayahs, Len(SurahAyahs), measure, stop, last, more, next)
        <3> HIDE DEF stop, measure, last, more, next
        <3> QED BY <2>1, <2>2, <2>3 DEF GoesDown
    <2>5. PICK f \in [Ayahs -> Int] : Solves(f, Ayahs, stop, last, more, next)
        BY <2>4, RecursionHasValue
    <2>6. \A x \in Ayahs : f[x] = IF SurahOf(x) <= SurahOf(e) THEN Counted(x, e, unit)
                           ELSE Counted(x, SurahEnd(x), unit) + f[SurahFirst[SurahOf(x) - 1]]
        BY <2>5 DEF Solves
    <2>7. f = Body(f)
        BY <2>6
    <2> HIDE DEF Body
    <2> QED BY <2>7
<1>4. F = Body(F)
    <2> HIDE DEF Body
    <2> QED BY <1>3
<1>5. \A x \in Ayahs : Cost(x, e, unit) = F[x]
    BY DEF Cost
<1> HIDE DEF F
<1>6. \A x \in Ayahs : F[x] = IF SurahOf(x) <= SurahOf(e) THEN Counted(x, e, unit)
                           ELSE Counted(x, SurahEnd(x), unit) + F[SurahFirst[SurahOf(x) - 1]]
    <2>1. \A x \in Ayahs : Body(F)[x] =
               IF SurahOf(x) <= SurahOf(e) THEN Counted(x, e, unit)
               ELSE Counted(x, SurahEnd(x), unit) + F[SurahFirst[SurahOf(x) - 1]]
        OBVIOUS
    <2> HIDE DEF Body
    <2> QED BY <1>4, <2>1
<1> DEFINE Counts(x) == F[x] \in Int /\ (Reads(x, e) => F[x] >= 0)
           T == {k \in 1..Len(SurahAyahs) + 1 : \A x \in Ayahs : SurahOf(x) <= k => Counts(x)}
<1>7. \A x \in Ayahs : Counts(x)
    <2> DEFINE n == Len(SurahAyahs)
    <2>1. n \in Nat
        BY AyahsAreNumbers
    <2>2. ASSUME NEW k \in 0..n, \A x \in Ayahs : SurahOf(x) <= k => Counts(x)
          PROVE  k + 1 \in T
        <3> SUFFICES ASSUME NEW x \in Ayahs, SurahOf(x) <= k + 1 PROVE Counts(x)
            BY <2>1
        <3>1. CASE SurahOf(x) <= SurahOf(e)
            <4>1. F[x] = Counted(x, e, unit)
                BY <1>6, <3>1
            <4>2. Reads(x, e) => x <= e
                BY <1>1, <3>1 DEF Reads
            <4> HIDE DEF F
            <4> QED BY <4>1, <4>2, CountedIs
        <3>2. CASE ~(SurahOf(x) <= SurahOf(e))
            <4> DEFINE y == SurahFirst[SurahOf(x) - 1]
            <4>1. y \in Ayahs /\ SurahOf(y) < SurahOf(x)
                BY <1>2, <3>2
            <4>2. SurahOf(y) <= k
                BY <1>1, <4>1
            <4>3. Counts(y)
                <5> HIDE DEF Counts, y
                <5> QED BY <2>2, <4>1, <4>2
            <4>4. Counted(x, SurahEnd(x), unit) \in Nat
                BY <1>1, SurahBounds, CountedIs
            <4>5. F[x] = Counted(x, SurahEnd(x), unit) + F[y]
                BY <1>6, <3>2
            <4>6. Reads(y, e)
                <5>1. SurahOf(y) = SurahOf(x) - 1 /\ y = SurahFirst[SurahOf(y)]
                    BY <1>2, <3>2
                <5>2. SurahFirst[SurahOf(e)] <= e /\ SurahOf(x) \in Nat /\ SurahOf(e) \in Nat
                    BY SurahBounds
                <5> HIDE DEF y
                <5>3. SurahOf(y) > SurahOf(e) \/ SurahOf(y) = SurahOf(e)
                    BY <3>2, <5>1, <5>2
                <5> QED BY <5>1, <5>2, <5>3 DEF Reads
            <4> HIDE DEF y, F
            <4> QED BY <4>3, <4>4, <4>5, <4>6
        <3> QED BY <3>1, <3>2
    <2>3. 1 \in T
        <3>1. \A x \in Ayahs : ~(SurahOf(x) <= 0)
            BY <1>1
        <3>2. 0 \in 0..n /\ 0 + 1 = 1
            BY <2>1
        <3> HIDE DEF T, n
        <3> QED BY <2>2, <3>1, <3>2
    <2>4. \A k \in 1..n : k \in T => k + 1 \in T
        <3> SUFFICES ASSUME NEW k \in 1..n, k \in T PROVE k + 1 \in T
            OBVIOUS
        <3>1. k \in 0..n /\ \A x \in Ayahs : SurahOf(x) <= k => Counts(x)
            BY <2>1
        <3> HIDE DEF T, n
        <3> QED BY <2>2, <3>1
    <2>5. 1..n + 1 \subseteq T
        <3> HIDE DEF T, n
        <3> QED BY <2>1, <2>3, <2>4, Climbing
    <2>6. n + 1 \in T
        BY <2>1, <2>5
    <2>7. \A x \in Ayahs : SurahOf(x) <= n + 1
        BY <1>1, <2>1
    <2> QED BY <2>6, <2>7
<1>8. Cost(a, e, unit) \in Int /\ (Reads(a, e) => Cost(a, e, unit) >= 0)
    BY <1>5, <1>7
<1>9. CASE SurahOf(a) <= SurahOf(e)
    <2>1. ~(SurahOf(e) < SurahOf(a))
        BY <1>1, <1>9
    <2> QED BY <1>5, <1>6, <1>8, <1>9, <2>1
<1>10. CASE ~(SurahOf(a) <= SurahOf(e))
    BY <1>2, <1>5, <1>6, <1>8, <1>10
<1> QED BY <1>9, <1>10

-----------------------------------------------------------------------------
(* A portion, segment by segment.                                             *)

\* The first surah is the last of the backward order.
LEMMA FirstSurahIs ==
    /\ SurahEnd(1) \in Ayahs
    /\ \A e \in Ayahs : NextReverseAyah(e) = None <=> e = SurahEnd(1)
    /\ \A e \in Ayahs : NextReverseAyah(e) # None =>
          NextReverseAyah(e) \in Ayahs /\ SurahOf(NextReverseAyah(e)) <= SurahOf(e)
<1>1. 1 \in Ayahs /\ SurahOf(1) \in Nat \ {0} /\ SurahOf(1) = 1
    <2>1. 1 \in Ayahs /\ 1 \in Surahs /\ 2 \in 1..Len(SurahAyahs) + 1 /\ 1 \in 1..Len(SurahAyahs) + 1
        BY AyahsAreNumbers DEF Surahs
    <2>2. SurahFirst[1] = 1 /\ SurahFirst[1] < SurahFirst[2]
        BY <2>1, SurahFirstIs, SurahsAscend
    <2>3. SurahFirst[1] <= 1 /\ 1 < SurahFirst[1 + 1]
        BY <2>2
    <2> QED BY <2>1, <2>3, SurahOfIs
<1>2. SurahEnd(1) \in Ayahs /\ SurahEnd(1) \in Int /\ 1 <= SurahEnd(1) /\ 1 \in Int
    BY <1>1, SurahBounds, AyahsAreNumbers
<1>3. SurahOf(SurahEnd(1)) = 1 /\ SurahEnd(SurahEnd(1)) = SurahEnd(1)
    <2>1. SurahEnd(1) <= SurahEnd(1)
        BY <1>2
    <2> QED BY <1>1, <1>2, <2>1, InOneSurah
<1>4. ASSUME NEW e \in Ayahs
      PROVE  /\ NextReverseAyah(e) = None <=> e = SurahEnd(1)
             /\ NextReverseAyah(e) # None =>
                   NextReverseAyah(e) \in Ayahs /\ SurahOf(NextReverseAyah(e)) <= SurahOf(e)
    <2>1. /\ e \in Int /\ SurahEnd(e) \in Int /\ e <= SurahEnd(e) /\ SurahOf(e) \in Nat \ {0}
        BY SurahBounds, AyahsAreNumbers
    <2>2. ASSUME NEW x \in Ayahs PROVE x # None
        BY AyahsAreNumbers, ProgressAssumption
    <2>3. CASE e < SurahEnd(e)
        <3>1. NextReverseAyah(e) \in Ayahs /\ SurahOf(NextReverseAyah(e)) = SurahOf(e)
            BY <2>3, NextBackward
        <3>2. e # SurahEnd(1)
            BY <1>3, <2>1, <2>3
        <3>3. NextReverseAyah(e) # None
            BY <2>2, <3>1
        <3>4. SurahOf(NextReverseAyah(e)) <= SurahOf(e)
            BY <2>1, <3>1
        <3> QED BY <3>1, <3>2, <3>3, <3>4
    <2>4. CASE e = SurahEnd(e) /\ SurahOf(e) > 1
        <3>1. NextReverseAyah(e) \in Ayahs /\ SurahOf(NextReverseAyah(e)) = SurahOf(e) - 1
            BY <2>4, NextBackward
        <3>2. e # SurahEnd(1)
            BY <1>3, <2>4
        <3>3. NextReverseAyah(e) # None
            BY <2>2, <3>1
        <3>4. SurahOf(NextReverseAyah(e)) <= SurahOf(e)
            BY <2>1, <3>1
        <3> QED BY <3>1, <3>2, <3>3, <3>4
    <2>5. CASE e = SurahEnd(e) /\ SurahOf(e) = 1
        <3>1. NextReverseAyah(e) = None
            BY <2>5, NextBackward
        <3>2. e = SurahEnd(1)
            BY <1>1, <2>5 DEF SurahEnd
        <3> QED BY <3>1, <3>2
    <2> QED BY <2>1, <2>3, <2>4, <2>5
<1> QED BY <1>2, <1>4

\* What reverse_to_end does of n units or less, from every ayah.
ReachBody(f, n, unit) ==
    [left \in 1..n |-> [from \in Ayahs |->
        LET e == SegmentEnd(from, left, unit)
            remaining == left - Used(from, e, unit)
        IN IF remaining <= 0 \/ e = SurahEnd(1) THEN e
           ELSE f[remaining][NextReverseAyah(e)]]]
Reach(n, unit) == CHOOSE f : f = ReachBody(f, n, unit)

LEMMA ReverseToEndIs ==
    ASSUME NEW a, NEW n, NEW unit
    PROVE  ReverseToEnd(a, n, unit) = Reach(n, unit)[n][a]
BY DEF ReverseToEnd, Reach, ReachBody

\* A portion that goes on has less left, and an ayah to go on from.
LEMMA GoesOnWithLess ==
    ASSUME NEW a \in Ayahs, NEW left \in Nat \ {0}, NEW unit \in ReverseUnits
    PROVE  LET e == SegmentEnd(a, left, unit)
               remaining == left - Used(a, e, unit)
           IN  /\ e \in Ayahs /\ remaining \in Int /\ remaining < left
               /\ ~(remaining <= 0 \/ e = SurahEnd(1)) =>
                     remaining \in Nat \ {0} /\ NextReverseAyah(e) \in Ayahs
<1> DEFINE e == SegmentEnd(a, left, unit)
<1>1. e \in Ayahs /\ Used(a, e, unit) \in Nat \ {0}
    BY SegmentIs
<1> HIDE DEF e
<1>2. e # SurahEnd(1) => NextReverseAyah(e) \in Ayahs
    BY <1>1, FirstSurahIs
<1>3. left - Used(a, e, unit) \in Int /\ left - Used(a, e, unit) < left
    BY <1>1
<1> QED BY <1>1, <1>2, <1>3 DEF e

LEMMA ReachIs ==
    ASSUME NEW n \in Nat, NEW unit \in ReverseUnits
    PROVE  Reach(n, unit) = ReachBody(Reach(n, unit), n, unit)
<1> DEFINE D == (1..n) \X Ayahs
           end == [p \in D |-> SegmentEnd(p[2], p[1], unit)]
           left == [p \in D |-> p[1] - Used(p[2], end[p], unit)]
           stop == [p \in D |-> left[p] <= 0 \/ end[p] = SurahEnd(1)]
           measure == [p \in D |-> p[1]]
           more == [p \in D |-> 0]
           next == [p \in D |-> <<left[p], NextReverseAyah(end[p])>>]
<1>1. ASSUME NEW p \in D
      PROVE  /\ p[1] \in 1..n /\ p[2] \in Ayahs
             /\ end[p] \in Ayahs /\ left[p] \in Int /\ left[p] < p[1]
             /\ ~stop[p] => next[p] \in D /\ measure[next[p]] < measure[p]
    <2>1. p[1] \in 1..n /\ p[2] \in Ayahs /\ p[1] \in Nat \ {0}
        OBVIOUS
    <2>2. end[p] = SegmentEnd(p[2], p[1], unit)
        OBVIOUS
    <2>3. left[p] = p[1] - Used(p[2], end[p], unit)
        OBVIOUS
    <2> HIDE DEF end
    <2>4. /\ end[p] \in Ayahs /\ left[p] \in Int /\ left[p] < p[1]
          /\ ~(left[p] <= 0 \/ end[p] = SurahEnd(1)) =>
                left[p] \in Nat \ {0} /\ NextReverseAyah(end[p]) \in Ayahs
        <3> HIDE DEF left
        <3> QED BY <2>1, <2>2, <2>3, GoesOnWithLess
    <2> HIDE DEF left
    <2>5. stop[p] = (left[p] <= 0 \/ end[p] = SurahEnd(1))
        OBVIOUS
    <2>6. ASSUME ~stop[p] PROVE next[p] \in D /\ measure[next[p]] < measure[p]
        <3>1. left[p] \in Nat \ {0} /\ NextReverseAyah(end[p]) \in Ayahs
            BY <2>4, <2>5, <2>6
        <3>2. left[p] \in 1..n
            BY <2>1, <2>4, <3>1
        <3>3. next[p] = <<left[p], NextReverseAyah(end[p])>>
            OBVIOUS
        <3>4. next[p] \in D
            BY <3>1, <3>2, <3>3
        <3>5. measure[next[p]] = left[p] /\ measure[p] = p[1]
            BY <3>3, <3>4
        <3> QED BY <2>4, <3>4, <3>5
    <2> QED BY <2>1, <2>4, <2>6
<1>2. GoesDown(D, n, measure, stop, end, more, next)
    <2>1. measure \in [D -> 1..n]
        BY <1>1
    <2>2. stop \in [D -> BOOLEAN] /\ more \in [D -> Int]
        OBVIOUS
    <2>3. end \in [D -> Int]
        <3>1. \A p \in D : end[p] \in Int
            <4> SUFFICES ASSUME NEW p \in D PROVE end[p] \in Int
                OBVIOUS
            <4>1. end[p] \in Ayahs
                BY <1>1
            <4> HIDE DEF end
            <4> QED BY <4>1, AyahsAreNumbers
        <3>2. end = [p \in D |-> end[p]]
            OBVIOUS
        <3> HIDE DEF end
        <3> QED BY <3>1, <3>2
    <2> HIDE DEF D, end, left, stop, measure, more, next
    <2> QED BY <1>1, <2>1, <2>2, <2>3 DEF GoesDown
<1>3. PICK g \in [D -> Int] : Solves(g, D, stop, end, more, next)
    <2> HIDE DEF D, end, left, stop, measure, more, next
    <2> QED BY <1>2, RecursionHasValue
<1> DEFINE f == [l \in 1..n |-> [from \in Ayahs |-> g[<<l, from>>]]]
<1>4. ASSUME NEW l \in 1..n, NEW from \in Ayahs
      PROVE  f[l][from] = LET e == SegmentEnd(from, l, unit)
                              remaining == l - Used(from, e, unit)
                          IN IF remaining <= 0 \/ e = SurahEnd(1) THEN e
                             ELSE f[remaining][NextReverseAyah(e)]
    <2> DEFINE p == <<l, from>>
               e == SegmentEnd(from, l, unit)
               remaining == l - Used(from, e, unit)
    <2>1. p \in D /\ p[1] = l /\ p[2] = from
        OBVIOUS
    <2>2. end[p] = e
        BY <2>1
    <2>3. left[p] = remaining
        BY <2>1, <2>2
    <2>4. stop[p] = (remaining <= 0 \/ e = SurahEnd(1)) /\ next[p] = <<remaining, NextReverseAyah(e)>>
          /\ more[p] = 0
        <3> HIDE DEF end, left, p, e, remaining
        <3> QED BY <2>1, <2>2, <2>3
    <2>5. ~stop[p] => next[p] \in D
        <3> HIDE DEF D, end, left, stop, next, p, measure
        <3> QED BY <1>1, <2>1
    <2>6. g[p] = IF stop[p] THEN end[p] ELSE more[p] + g[next[p]]
        <3> HIDE DEF D, end, left, stop, next, p, more
        <3> QED BY <1>3, <2>1 DEF Solves
    <2>7. f[l][from] = g[p]
        OBVIOUS
    <2>8. ASSUME ~stop[p]
          PROVE  g[next[p]] \in Int /\ g[next[p]] = f[remaining][NextReverseAyah(e)]
        <3>1. <<remaining, NextReverseAyah(e)>> \in D
            <4> HIDE DEF D, end, left, stop, next, p, e, remaining
            <4> QED BY <2>4, <2>5, <2>8
        <3>2. remaining \in 1..n /\ NextReverseAyah(e) \in Ayahs
            <4> HIDE DEF e, remaining
            <4> QED BY <3>1
        <3>3. f[remaining][NextReverseAyah(e)] = g[<<remaining, NextReverseAyah(e)>>]
            <4> HIDE DEF e, remaining
            <4> QED BY <3>2
        <3>4. g[next[p]] \in Int
            <4> HIDE DEF D, end, left, stop, next, p, e, remaining
            <4> QED BY <1>3, <2>5, <2>8
        <3> HIDE DEF D, end, left, stop, next, p, e, remaining, f
        <3> QED BY <2>4, <3>3, <3>4
    <2> HIDE DEF D, end, left, stop, next, more, p, e, remaining, f
    <2>9. f[l][from] = IF remaining <= 0 \/ e = SurahEnd(1) THEN e
                       ELSE f[remaining][NextReverseAyah(e)]
        <3>1. CASE stop[p]
            BY <2>2, <2>4, <2>6, <2>7, <3>1
        <3>2. CASE ~stop[p]
            <4>1. g[p] = g[next[p]]
                BY <2>4, <2>6, <2>8, <3>2
            <4> QED BY <2>4, <2>7, <2>8, <3>2, <4>1
        <3> QED BY <3>1, <3>2
    <2> QED BY <2>9 DEF e, remaining
<1>5. f = ReachBody(f, n, unit)
    <2>1. f = [l \in 1..n |-> [from \in Ayahs |-> f[l][from]]]
        OBVIOUS
    <2> HIDE DEF f
    <2>2. \A l \in 1..n : [from \in Ayahs |-> f[l][from]] =
              [from \in Ayahs |->
                  LET e == SegmentEnd(from, l, unit)
                      remaining == l - Used(from, e, unit)
                  IN IF remaining <= 0 \/ e = SurahEnd(1) THEN e
                     ELSE f[remaining][NextReverseAyah(e)]]
        BY <1>4
    <2> QED BY <2>1, <2>2 DEF ReachBody
<1> HIDE DEF f
<1> QED BY <1>5 DEF Reach

\* The next ayah is read after whatever its predecessor is read after.
LEMMA NextIsRead ==
    ASSUME NEW b \in Ayahs, NEW e \in Ayahs, Reads(b, e), NextReverseAyah(e) # None
    PROVE  Reads(b, NextReverseAyah(e))
<1> DEFINE c == NextReverseAyah(e)
<1>1. /\ b \in Nat /\ e \in Nat /\ SurahOf(b) \in Nat /\ SurahOf(e) \in Nat \ {0}
      /\ SurahEnd(e) \in Nat /\ e <= SurahEnd(e)
    BY SurahBounds, AyahsAreNumbers
<1>2. CASE e < SurahEnd(e)
    <2>1. c = e + 1 /\ SurahOf(e + 1) = SurahOf(e)
        BY <1>2, NextBackward
    <2> HIDE DEF c
    <2>2. SurahOf(b) > SurahOf(c) \/ (SurahOf(b) = SurahOf(c) /\ b <= c)
        BY <1>1, <2>1 DEF Reads
    <2> QED BY <2>2 DEF Reads, c
<1>3. CASE ~(e < SurahEnd(e))
    <2>1. e = SurahEnd(e) /\ SurahOf(e) > 1
        <3>1. e = SurahEnd(e)
            BY <1>1, <1>3
        <3> QED BY <1>1, <3>1, NextBackward
    <2>2. SurahOf(c) = SurahOf(e) - 1
        BY <2>1, NextBackward
    <2> HIDE DEF c
    <2>3. SurahOf(b) > SurahOf(c)
        BY <1>1, <2>2 DEF Reads
    <2> QED BY <2>3 DEF Reads, c
<1> QED BY <1>2, <1>3

\* One segment of reverse_to_end, and the rest of it.
LEMMA ReachGoesOn ==
    ASSUME NEW n \in Nat, NEW l \in 1..n, NEW a \in Ayahs, NEW unit \in ReverseUnits
    PROVE  LET e == SegmentEnd(a, l, unit)
               remaining == l - Used(a, e, unit)
           IN  Reach(n, unit)[l][a] = IF remaining <= 0 \/ e = SurahEnd(1) THEN e
                                      ELSE Reach(n, unit)[remaining][NextReverseAyah(e)]
<1> DEFINE f == Reach(n, unit)
<1>1. f = ReachBody(f, n, unit)
    BY ReachIs
<1>2. ReachBody(f, n, unit)[l][a] =
          LET e == SegmentEnd(a, l, unit)
              remaining == l - Used(a, e, unit)
          IN  IF remaining <= 0 \/ e = SurahEnd(1) THEN e ELSE f[remaining][NextReverseAyah(e)]
    <2> HIDE DEF f
    <2> QED BY DEF ReachBody
<1> QED BY <1>1, <1>2

\* In lines, a stretch that goes on behind an ayah of its first surah counts as no less than
\* the stretch to that ayah.
LEMMA CostGrows ==
    ASSUME NEW a \in Ayahs, NEW x \in Ayahs, NEW e \in Ayahs, a <= x, SurahOf(x) = SurahOf(a),
           Reads(x, e), NEW unit \in LineUnits
    PROVE  Counted(a, x, unit) <= Cost(a, e, unit)
<1>1. /\ a \in Nat /\ x \in Nat /\ e \in Nat /\ SurahOf(a) \in Nat \ {0} /\ SurahOf(e) \in Nat
      /\ SurahEnd(a) \in Ayahs /\ SurahEnd(a) \in Nat /\ a <= SurahEnd(a)
      /\ unit \in ReverseUnits
    BY SurahBounds, AyahsAreNumbers DEF ReverseUnits
<1>2. x <= SurahEnd(a)
    <2>1. SurahEnd(x) = SurahEnd(a)
        BY DEF SurahEnd
    <2> QED BY <2>1, SurahBounds
<1>3. Counted(a, x, unit) \in Int
    BY <1>1, CountedIs
<1>4. CASE SurahOf(e) = SurahOf(a)
    <2>1. x <= e
        BY <1>1, <1>4 DEF Reads
    <2>2. Cost(a, e, unit) = Counted(a, e, unit)
        <3>1. SurahOf(a) <= SurahOf(e)
            BY <1>1, <1>4
        <3> QED BY <1>1, <3>1, CostIs
    <2> QED BY <2>1, <2>2, CountedGrows
<1>5. CASE SurahOf(e) # SurahOf(a)
    <2> DEFINE b == SurahFirst[SurahOf(a) - 1]
               end == SurahEnd(a)
    <2>1. SurahOf(e) < SurahOf(a) /\ SurahOf(a) > 1
        <3>1. SurahOf(e) \in Nat \ {0}
            BY SurahBounds
        <3> QED BY <1>1, <1>5, <3>1 DEF Reads
    <2>2. b \in Ayahs /\ SurahOf(b) = SurahOf(a) - 1
        <3>1. end <= end
            BY <1>1
        <3>2. SurahOf(end) = SurahOf(a) /\ SurahEnd(end) = end
            BY <1>1, <3>1, InOneSurah
        <3> QED BY <1>1, <2>1, <3>2, NextBackward
    <2>3. Reads(b, e)
        <3>1. SurahFirst[SurahOf(e)] <= e
            BY SurahBounds
        <3>2. b = SurahFirst[SurahOf(b)]
            BY <2>2
        <3> HIDE DEF b
        <3>3. SurahOf(b) > SurahOf(e) \/ SurahOf(b) = SurahOf(e)
            BY <1>1, <2>1, <2>2
        <3> QED BY <3>1, <3>2, <3>3 DEF Reads
    <2>4. Cost(a, e, unit) = Counted(a, end, unit) + Cost(b, e, unit)
        BY <1>1, <2>1, CostIs
    <2> HIDE DEF b
    <2>5. Cost(b, e, unit) \in Int /\ Cost(b, e, unit) >= 0
        BY <1>1, <2>2, <2>3, CostIs
    <2>6. Counted(a, end, unit) \in Int /\ Counted(a, x, unit) <= Counted(a, end, unit)
        BY <1>1, <1>2, CountedIs, CountedGrows
    <2> QED BY <1>3, <2>4, <2>5, <2>6
<1> QED BY <1>4, <1>5

\* A segment with which a portion ends ...
LEMMA LastSegmentIsWhole ==
    ASSUME NEW a \in Ayahs, NEW l \in Nat \ {0}, NEW unit \in ReverseUnits,
           LET e == SegmentEnd(a, l, unit) IN l - Used(a, e, unit) <= 0 \/ e = SurahEnd(1)
    PROVE  PortionIsWhole(a, SegmentEnd(a, l, unit), l, unit)
<1> DEFINE e == SegmentEnd(a, l, unit)
           c == NextReverseAyah(e)
           used == Used(a, e, unit)
<1>1. /\ e \in Ayahs /\ a <= e /\ e <= SurahEnd(a)
      /\ SurahOf(e) = SurahOf(a) /\ SurahEnd(e) = SurahEnd(a)
      /\ used \in Nat \ {0} /\ used = Counted(a, e, unit)
      /\ e < SurahEnd(a) => e + 1 \in Ayahs /\ l + 1 <= Counted(a, e + 1, unit)
      /\ unit \notin LineUnits => used <= l /\ (e < SurahEnd(a) => used = l)
      /\ l - used <= 0 \/ e = SurahEnd(1)
    BY SegmentIs
<1> HIDE DEF e, used
<1>2. /\ a \in Int /\ e \in Int /\ SurahEnd(a) \in Ayahs /\ SurahEnd(a) \in Int
      /\ SurahOf(a) \in Nat \ {0} /\ SurahOf(a) <= SurahOf(a)
    BY <1>1, SurahBounds, AyahsAreNumbers
<1>3. Reads(a, e)
    BY <1>1 DEF Reads
<1>4. Cost(a, e, unit) = used
    BY <1>1, <1>2, CostIs
<1>5. ASSUME c # None
      PROVE  Cost(a, c, unit) > l
    <2>1. CASE e < SurahEnd(e)
        <3>1. c = e + 1 /\ e + 1 \in Ayahs /\ SurahOf(e + 1) = SurahOf(e)
            BY <1>1, <2>1, NextBackward
        <3>2. Cost(a, e + 1, unit) = Counted(a, e + 1, unit)
            BY <1>1, <1>2, <3>1, CostIs
        <3>3. l + 1 <= Counted(a, e + 1, unit) /\ Counted(a, e + 1, unit) \in Int
            BY <1>1, <2>1, CountedIs
        <3> HIDE DEF c
        <3> QED BY <3>1, <3>2, <3>3
    <2>2. CASE ~(e < SurahEnd(e))
        <3>1. e = SurahEnd(a) /\ e = SurahEnd(e)
            BY <1>1, <1>2, <2>2
        <3>2. e # SurahEnd(1)
            BY <1>1, <1>5, FirstSurahIs
        <3>3. l <= used
            BY <1>1, <3>2
        <3>4. SurahOf(e) > 1
            <4>1. SurahOf(e) = 1 => c = None
                BY <1>1, <3>1, NextBackward
            <4>2. SurahOf(e) \in Nat \ {0}
                BY <1>1, <1>2
            <4> HIDE DEF c
            <4> QED BY <1>5, <4>1, <4>2
        <3>5. c = SurahFirst[SurahOf(a) - 1] /\ c \in Ayahs /\ SurahOf(c) = SurahOf(a) - 1
            BY <1>1, <3>1, <3>4, NextBackward
        <3> HIDE DEF c
        <3>6. SurahOf(c) < SurahOf(a) /\ SurahOf(c) <= SurahOf(c) /\ c <= c
            BY <1>2, <3>5, AyahsAreNumbers
        <3>7. Cost(a, c, unit) = Counted(a, SurahEnd(a), unit) + Cost(c, c, unit)
            BY <3>5, <3>6, CostIs
        <3>8. Cost(c, c, unit) = Counted(c, c, unit) /\ Counted(c, c, unit) \in Nat \ {0}
            BY <3>5, <3>6, CostIs, CountedIs
        <3>9. Counted(a, SurahEnd(a), unit) \in Nat /\ l <= Counted(a, SurahEnd(a), unit)
            BY <1>1, <3>1, <3>3
        <3> QED BY <3>7, <3>8, <3>9
    <2> QED BY <2>1, <2>2
<1>6. unit \notin LineUnits => Cost(a, e, unit) <= l
    BY <1>1, <1>4
<1> QED BY <1>1, <1>3, <1>5, <1>6 DEF PortionIsWhole, e

\* ... and one after which it goes on with what remains.
LEMMA SegmentsAreWhole ==
    ASSUME NEW a \in Ayahs, NEW l \in Nat \ {0}, NEW unit \in ReverseUnits, NEW to,
           LET e == SegmentEnd(a, l, unit)
               remaining == l - Used(a, e, unit)
           IN  /\ ~(remaining <= 0 \/ e = SurahEnd(1))
               /\ PortionIsWhole(NextReverseAyah(e), to, remaining, unit)
    PROVE  PortionIsWhole(a, to, l, unit)
<1> DEFINE e == SegmentEnd(a, l, unit)
           b == NextReverseAyah(e)
           used == Used(a, e, unit)
           c == NextReverseAyah(to)
<1>1. /\ e \in Ayahs /\ a <= e /\ e <= SurahEnd(a)
      /\ SurahOf(e) = SurahOf(a) /\ SurahEnd(e) = SurahEnd(a)
      /\ used \in Nat \ {0} /\ used = Counted(a, e, unit)
      /\ e < SurahEnd(a) => e + 1 \in Ayahs /\ l + 1 <= Counted(a, e + 1, unit)
      /\ unit \notin LineUnits => used <= l /\ (e < SurahEnd(a) => used = l)
      /\ ~(l - used <= 0) /\ e # SurahEnd(1)
      /\ PortionIsWhole(b, to, l - used, unit)
    BY SegmentIs
<1> HIDE DEF e, used
<1>2. /\ a \in Int /\ e \in Int /\ SurahEnd(a) \in Ayahs /\ SurahEnd(a) \in Int
      /\ SurahOf(a) \in Nat \ {0} /\ SurahOf(a) <= SurahOf(a)
    BY <1>1, SurahBounds, AyahsAreNumbers
<1>3. b \in Ayahs /\ b # None
    BY <1>1, FirstSurahIs
<1>4. /\ to \in Ayahs /\ Reads(b, to)
      /\ c # None => Cost(b, c, unit) > l - used
      /\ unit \notin LineUnits => Cost(b, to, unit) <= l - used
    <2> HIDE DEF b
    <2> QED BY <1>1 DEF PortionIsWhole
<1>5. to \in Int /\ SurahOf(to) \in Nat /\ b \in Int
    BY <1>3, <1>4, SurahBounds, AyahsAreNumbers
<1>6. CASE e < SurahEnd(e)
    <2>1. b = e + 1 /\ SurahOf(e + 1) = SurahOf(e)
        BY <1>1, <1>6, NextBackward
    <2>2. unit \in LineUnits
        BY <1>1, <1>6
    <2> HIDE DEF b
    <2>3. Reads(a, to)
        BY <1>1, <1>2, <1>4, <1>5, <2>1 DEF Reads
    <2>4. ASSUME c # None
          PROVE  Cost(a, c, unit) > l
        <3>1. c \in Ayahs
            BY <1>4, <2>4, FirstSurahIs
        <3>2. Reads(e + 1, c)
            <4>1. e + 1 \in Ayahs /\ Reads(e + 1, to)
                BY <1>1, <1>4, <1>6, <2>1
            <4> QED BY <1>4, <2>4, <4>1, NextIsRead
        <3> HIDE DEF c
        <3>3. e + 1 \in Ayahs /\ l + 1 <= Counted(a, e + 1, unit)
              /\ Counted(a, e + 1, unit) \in Int
            BY <1>1, <1>6, CountedIs
        <3>4. a <= e + 1 /\ SurahOf(e + 1) = SurahOf(a)
            BY <1>1, <1>2, <2>1
        <3>5. Counted(a, e + 1, unit) <= Cost(a, c, unit)
            BY <2>2, <3>1, <3>2, <3>3, <3>4, CostGrows
        <3>6. Cost(a, c, unit) \in Int
            BY <3>1, CostIs
        <3> QED BY <3>3, <3>5, <3>6
    <2> QED BY <1>4, <2>2, <2>3, <2>4 DEF PortionIsWhole
<1>7. CASE ~(e < SurahEnd(e))
    <2>1. e = SurahEnd(a) /\ e = SurahEnd(e)
        BY <1>1, <1>2, <1>7
    <2>2. SurahOf(e) > 1
        <3>1. SurahOf(e) = 1 => b = None
            BY <1>1, <2>1, NextBackward
        <3>2. SurahOf(e) \in Nat \ {0}
            BY <1>1, <1>2
        <3> HIDE DEF b
        <3> QED BY <1>3, <3>1, <3>2
    <2>3. b = SurahFirst[SurahOf(a) - 1] /\ SurahOf(b) = SurahOf(a) - 1
        BY <1>1, <2>1, <2>2, NextBackward
    <2> HIDE DEF b
    <2>4. SurahOf(to) < SurahOf(a)
        BY <1>2, <1>4, <1>5, <2>3 DEF Reads
    <2>5. Reads(a, to)
        BY <1>2, <1>5, <2>4 DEF Reads
    <2>6. ASSUME NEW x \in Ayahs, SurahOf(x) < SurahOf(a)
          PROVE  Cost(a, x, unit) = used + Cost(b, x, unit) /\ Cost(b, x, unit) \in Int
        BY <1>1, <1>3, <2>1, <2>3, <2>6, CostIs
    <2>7. unit \notin LineUnits => Cost(a, to, unit) <= l
        BY <1>1, <1>4, <2>4, <2>6
    <2>8. ASSUME c # None
          PROVE  Cost(a, c, unit) > l
        <3>1. c \in Ayahs /\ SurahOf(c) <= SurahOf(to) /\ SurahOf(c) \in Nat
            BY <1>4, <2>8, FirstSurahIs, SurahBounds
        <3> HIDE DEF c
        <3>2. SurahOf(c) < SurahOf(a)
            BY <1>2, <1>5, <2>4, <3>1
        <3> QED BY <1>1, <1>4, <2>6, <2>8, <3>1, <3>2
    <2> QED BY <1>4, <2>5, <2>7, <2>8 DEF PortionIsWhole
<1> QED BY <1>6, <1>7

\* A portion of any amount, from any ayah, in any unit.
LEMMA PortionsAreWhole ==
    ASSUME NEW a \in Ayahs, NEW n \in Nat \ {0}, NEW unit \in ReverseUnits
    PROVE  PortionIsWhole(a, ReverseToEnd(a, n, unit), n, unit)
<1> DEFINE R == Reach(n, unit)
           P(l) == \A x \in Ayahs : PortionIsWhole(x, R[l][x], l, unit)
           T == {m \in 1..n : \A l \in 1..m : P(l)}
<1>1. ASSUME NEW l \in 1..n, \A k \in 1..n : k < l => P(k)
      PROVE  P(l)
    <2> SUFFICES ASSUME NEW x \in Ayahs PROVE PortionIsWhole(x, R[l][x], l, unit)
        OBVIOUS
    <2> DEFINE e == SegmentEnd(x, l, unit)
               remaining == l - Used(x, e, unit)
               y == NextReverseAyah(e)
    <2>1. R[l][x] = IF remaining <= 0 \/ e = SurahEnd(1) THEN e ELSE R[remaining][y]
        BY ReachGoesOn
    <2>2. /\ remaining \in Int /\ remaining < l
          /\ ~(remaining <= 0 \/ e = SurahEnd(1)) => remaining \in Nat \ {0} /\ y \in Ayahs
        BY GoesOnWithLess
    <2> HIDE DEF R
    <2>3. CASE remaining <= 0 \/ e = SurahEnd(1)
        <3>1. PortionIsWhole(x, e, l, unit)
            BY <2>3, LastSegmentIsWhole
        <3> HIDE DEF e, remaining, y
        <3> QED BY <2>1, <2>3, <3>1
    <2>4. CASE ~(remaining <= 0 \/ e = SurahEnd(1))
        <3>1. PortionIsWhole(y, R[remaining][y], remaining, unit)
            <4> HIDE DEF e, remaining, y
            <4>1. remaining \in 1..n /\ remaining < l /\ y \in Ayahs
                BY <2>2, <2>4
            <4> QED BY <1>1, <4>1
        <3>2. PortionIsWhole(x, R[remaining][y], l, unit)
            BY <2>4, <3>1, SegmentsAreWhole
        <3> HIDE DEF e, remaining, y
        <3> QED BY <2>1, <2>4, <3>2
    <2> QED BY <2>3, <2>4
<1> HIDE DEF P
<1>2. n - 1 \in Nat /\ 1 \in 1..n /\ n \in 1..n /\ n - 1 + 1 = n
    OBVIOUS
<1>3. 1 \in T
    <2>1. P(1)
        <3>1. \A k \in 1..n : ~(k < 1)
            OBVIOUS
        <3> QED BY <1>1, <1>2, <3>1
    <2>2. \A l \in 1..1 : l = 1
        OBVIOUS
    <2> QED BY <1>2, <2>1, <2>2
<1>4. ASSUME NEW m \in 1..n - 1, m \in T
      PROVE  m + 1 \in T
    <2>1. m + 1 \in 1..n /\ \A k \in 1..n : k < m + 1 => P(k)
        <3>1. m + 1 \in 1..n /\ \A k \in 1..n : k < m + 1 => k \in 1..m
            OBVIOUS
        <3> QED BY <1>4, <3>1
    <2>2. P(m + 1)
        BY <1>1, <2>1
    <2>3. \A l \in 1..m + 1 : l \in 1..m \/ l = m + 1
        OBVIOUS
    <2> QED BY <1>4, <2>1, <2>2, <2>3
<1>5. n \in T
    <2>1. 1..n - 1 + 1 \subseteq T
        <3> HIDE DEF T
        <3> QED BY <1>2, <1>3, <1>4, Climbing
    <2> QED BY <1>2, <2>1
<1>6. P(n)
    BY <1>2, <1>5
<1>7. PortionIsWhole(a, R[n][a], n, unit)
    BY <1>6 DEF P
<1> QED BY <1>7, ReverseToEndIs

\* What a plan read backward suggests is as long as its amount, wherever the cursor is, and
\* in ayahs, quarters, hizbs and juzs no longer (plan_suggestion, reverse_to_end).
THEOREM SuggestionsAreWhole == ProgressSpec => []PortionsWhole
<1>1. PortionsWhole
    <2> SUFFICES ASSUME ward # None, ward.kind = "ayah", ward.direction = "backward",
                        NEW x \in SuggestedStarts(ward),
                        NEW n \in 1..MaxAmount, NEW unit \in ReverseUnits
                 PROVE  PortionIsWhole(x, SuggestedEnd(ward, x, n, unit), n, unit)
        BY DEF PortionsWhole
    <2>1. x \in Ayahs
        BY DEF SuggestedStarts, Places
    <2>2. SuggestedEnd(ward, x, n, unit) = ReverseToEnd(x, n, unit)
        BY DEF SuggestedEnd
    <2>3. n \in Nat \ {0}
        OBVIOUS
    <2> QED BY <2>1, <2>2, <2>3, PortionsAreWhole
<1> QED BY <1>1, PTL

-----------------------------------------------------------------------------
(***************************************************************************)
(* Devices: a session that is not revoked is of the account's last         *)
(* authentication version, for calls that do not overlap.                  *)
(***************************************************************************)

\* What a request in progress knows: a session of its own account, and a counter.
CallsTyped ==
    /\ call = [c \in Calls |-> call[c]]
    /\ \A c \in Calls : call[c] # None =>
          /\ call[c].op \in {"login", "wrong", "counting", "refresh", "revoke", "logout"}
          /\ call[c].version \in 1..MaxAuthVersion
          /\ call[c].op = "counting" =>
                call[c].known = None \/ (call[c].known \in Nat /\ call[c].known < MaxAttempts)
          /\ call[c].op \in {"login", "refresh"} => call[c].phone \in Phones
          /\ call[c].op \in {"refresh", "revoke"} =>
                call[c].device \in DeviceIds /\ device[call[c].device] # None

DevicesTyped == DevicesTypeOK /\ CallsTyped

\* Rows stay, and are of their type.
RowsKept ==
    /\ device' \in [DeviceIds -> DeviceRow \cup {None}]
    /\ \A d \in DeviceIds : device[d] # None => device'[d] # None

-----------------------------------------------------------------------------
\* A request goes; the others know what they knew.
LEMMA AnsweredTyped ==
    ASSUME DevicesTyped, NEW c \in Calls, Answered(c), RowsKept,
           authVersion' \in [People -> 1..MaxAuthVersion], enabled' \in [People -> BOOLEAN],
           attempts' \in [People -> 0..MaxAttempts \cup {None}]
    PROVE  DevicesTyped'
<1>1. call' = [k \in Calls |-> call'[k]] /\ \A k \in Calls : call'[k] # None => call'[k] = call[k]
    BY DEF Answered, DevicesTyped, CallsTyped
<1>2. CallsTyped'
    BY <1>1 DEF DevicesTyped, CallsTyped, RowsKept
<1>3. DevicesTypeOK'
    BY <1>1 DEF DevicesTyped, DevicesTypeOK, RowsKept
<1> QED BY <1>2, <1>3 DEF DevicesTyped

LEMMA BeginTyped ==
    ASSUME DevicesTyped, NEW c \in Calls, NEW p \in People, NEW phone, NEW d, NEW op,
           op \in {"login", "wrong", "refresh", "revoke", "logout"},
           op \in {"login", "refresh"} => phone \in Phones,
           op \in {"refresh", "revoke"} => d \in DeviceIds /\ device[d] # None,
           Begin(c, op, p, phone, d)
    PROVE  DevicesTyped'
<1> DEFINE new == [op |-> op, person |-> p, phone |-> phone, device |-> d,
                   version |-> authVersion[p]]
<1>1. /\ call' = [k \in Calls |-> call'[k]] /\ call'[c] = new
      /\ \A k \in Calls \ {c} : call'[k] = call[k]
      /\ UNCHANGED <<device, authVersion, enabled, attempts>>
    BY DEF Begin, DevicesTyped, CallsTyped
<1>2. /\ new.op = op /\ new.person = p /\ new.phone = phone /\ new.device = d
      /\ new.version = authVersion[p]
    OBVIOUS
<1> HIDE DEF new
<1>3. authVersion[p] \in 1..MaxAuthVersion
    BY DEF DevicesTyped, DevicesTypeOK
<1>4. CallsTyped'
    BY <1>1, <1>2, <1>3 DEF DevicesTyped, CallsTyped
<1>5. DevicesTypeOK'
    BY <1>1, <1>2 DEF DevicesTyped, DevicesTypeOK
<1> QED BY <1>4, <1>5 DEF DevicesTyped

\* A failed sign-in that reads the counter again.
LEMMA CountingTyped ==
    ASSUME DevicesTyped, NEW c \in Calls, CountAttempt(c)
    PROVE  DevicesTyped'
<1> DEFINE p == call[c].person
           new == [op |-> "counting", person |-> p, version |-> call[c].version,
                   known |-> attempts[p], expired |-> {q \in People : attempts[q] = 0}]
<1>1. /\ call' = [k \in Calls |-> call'[k]] /\ call'[c] = new
      /\ \A k \in Calls \ {c} : call'[k] = call[k]
      /\ UNCHANGED <<device, authVersion, enabled, attempts>>
    BY DEF CountAttempt, DevicesTyped, CallsTyped
<1>2. /\ p \in People /\ call[c].version \in 1..MaxAuthVersion
      /\ attempts[p] = None \/ (attempts[p] \in Nat /\ attempts[p] < MaxAttempts)
    BY DevicesAssumption DEF CountAttempt, DevicesTyped, DevicesTypeOK, CallsTyped
<1>3. /\ new.op = "counting" /\ new.person = p /\ new.version = call[c].version
      /\ new.known = attempts[p]
    OBVIOUS
<1> HIDE DEF new, p
<1>4. CallsTyped'
    BY <1>1, <1>2, <1>3 DEF DevicesTyped, CallsTyped
<1>5. DevicesTypeOK'
    BY <1>1, <1>2, <1>3 DEF DevicesTyped, DevicesTypeOK
<1> QED BY <1>4, <1>5 DEF DevicesTyped

\* A session that is ended, and one that is issued.
LEMMA EndedRow ==
    ASSUME NEW row \in DeviceRow
    PROVE  /\ [row EXCEPT !.live = FALSE] \in DeviceRow
           /\ [row EXCEPT !.live = FALSE].person = row.person
           /\ ~[row EXCEPT !.live = FALSE].live
           /\ [row EXCEPT !.live = FALSE].phone = row.phone
           /\ [row EXCEPT !.live = FALSE].version = row.version
BY DEF DeviceRow
LEMMA IssuedRow ==
    ASSUME DevicesTypeOK, NEW p \in People, NEW phone \in Phones
    PROVE  Issued(p, phone) \in DeviceRow
BY DEF DevicesTypeOK, Issued, DeviceRow

LEMMA DevicesStepTyped ==
    ASSUME DevicesTyped, [DevicesNext]_deviceVars
    PROVE  DevicesTyped'
<1>1. ASSUME NEW c \in Calls, NEW p \in People, NEW phone \in Phones, NEW right \in BOOLEAN,
             LogIn(c, p, phone, right)
      PROVE  DevicesTyped'
    <2>1. PICK op \in {"login", "wrong"} : Begin(c, op, p, phone, None)
        BY <1>1 DEF LogIn
    <2> QED BY <1>1, <2>1, BeginTyped DEF LogIn
<1>2. ASSUME NEW c \in Calls, NEW d \in DeviceIds, Refresh(c, d) \/ Revoke(c, d)
      PROVE  DevicesTyped'
    <2>1. device[d] \in DeviceRow /\ device[d] # None
        BY <1>2 DEF Refresh, Revoke, IsLive, DevicesTyped, DevicesTypeOK
    <2>2. device[d].person \in People /\ device[d].phone \in Phones
        BY <2>1 DEF DeviceRow
    <2> QED BY <1>2, <2>1, <2>2, BeginTyped DEF Refresh, Revoke
<1>3. ASSUME NEW c \in Calls, NEW p \in People, LogOut(c, p) PROVE DevicesTyped'
    BY <1>3, BeginTyped DEF LogOut
<1>4. ASSUME NEW c \in Calls, RecordAttempt(c) PROVE DevicesTyped'
    <2>1. Recorded(call[c]) \in 0..MaxAttempts
        BY <1>4, DevicesAssumption DEF RecordAttempt, Recorded, DevicesTyped, CallsTyped
    <2>2. attempts' \in [People -> 0..MaxAttempts \cup {None}]
        BY <1>4, <2>1 DEF RecordAttempt, DevicesTyped, DevicesTypeOK
    <2>3. RowsKept /\ UNCHANGED <<authVersion, enabled>> /\ Answered(c)
        BY <1>4 DEF RecordAttempt, RowsKept, DevicesTyped, DevicesTypeOK
    <2> QED BY <2>2, <2>3, AnsweredTyped DEF DevicesTyped, DevicesTypeOK
<1>12. ASSUME NEW c \in Calls, CountAttempt(c) PROVE DevicesTyped'
    BY <1>12, CountingTyped
<1>5. ASSUME NEW c \in Calls, FinishLogIn(c) PROVE DevicesTyped'
    <2> DEFINE p == call[c].person
               phone == call[c].phone
               rows == Replacing(p, phone)
               new == Issued(p, phone)
    <2>1. p \in People /\ phone \in Phones
        BY <1>5 DEF FinishLogIn, DevicesTyped, DevicesTypeOK, CallsTyped
    <2>2. new \in DeviceRow
        BY <2>1, IssuedRow DEF DevicesTyped
    <2>3. /\ rows \in [DeviceIds -> DeviceRow \cup {None}]
          /\ \A d \in DeviceIds : device[d] # None => rows[d] # None
        <3>1. ASSUME NEW d \in DeviceIds
              PROVE  rows[d] \in DeviceRow \cup {None} /\ (device[d] # None => rows[d] # None)
            <4>1. CASE IsLive(d) /\ device[d].person = p /\ device[d].phone = phone
                <5>1. device[d] \in DeviceRow
                    BY <4>1 DEF IsLive, DevicesTyped, DevicesTypeOK
                <5> QED BY <4>1, <5>1, EndedRow, DeviceRowsAreThere DEF Replacing, Replaced
            <4>2. CASE ~(IsLive(d) /\ device[d].person = p /\ device[d].phone = phone)
                BY <4>2 DEF Replacing, Replaced, DevicesTyped, DevicesTypeOK
            <4> QED BY <4>1, <4>2
        <3> QED BY <3>1 DEF Replacing, Replaced
    <2>4. device' = [rows EXCEPT ![NextId] = new]
        BY <1>5 DEF FinishLogIn
    <2> HIDE DEF rows, new, p
    <2>5. RowsKept
        BY <2>2, <2>3, <2>4, DeviceRowsAreThere DEF RowsKept
    <2>6. attempts' \in [People -> 0..MaxAttempts \cup {None}]
        BY <1>5, <2>1, DevicesAssumption DEF FinishLogIn, DevicesTyped, DevicesTypeOK, p
    <2> QED BY <1>5, <2>5, <2>6, AnsweredTyped DEF FinishLogIn, DevicesTyped, DevicesTypeOK
<1>6. ASSUME NEW c \in Calls, FinishRefresh(c) PROVE DevicesTyped'
    <2> DEFINE r == call[c]
               ended == [device[r.device] EXCEPT !.live = FALSE]
               new == Issued(r.person, r.phone)
    <2>1. /\ r.person \in People /\ r.phone \in Phones
          /\ r.device \in DeviceIds /\ device[r.device] \in DeviceRow
        BY <1>6 DEF FinishRefresh, DevicesTyped, DevicesTypeOK, CallsTyped
    <2>2. new \in DeviceRow /\ ended \in DeviceRow
        BY <2>1, IssuedRow, EndedRow DEF DevicesTyped
    <2>3. device' = [device EXCEPT ![r.device] = ended, ![NextId] = new]
        BY <1>6 DEF FinishRefresh
    <2> HIDE DEF ended, new
    <2>4. RowsKept
        BY <2>1, <2>2, <2>3, DeviceRowsAreThere DEF RowsKept, DevicesTyped, DevicesTypeOK
    <2> QED BY <1>6, <2>4, AnsweredTyped DEF FinishRefresh, DevicesTyped, DevicesTypeOK
<1>7. ASSUME NEW c \in Calls, FinishRevoke(c) PROVE DevicesTyped'
    <2> DEFINE d == call[c].device
               ended == [device[d] EXCEPT !.live = FALSE]
    <2>1. d \in DeviceIds /\ device[d] \in DeviceRow
        BY <1>7 DEF FinishRevoke, DevicesTyped, DevicesTypeOK, CallsTyped
    <2>2. ended \in DeviceRow
        BY <2>1, EndedRow
    <2>3. device' = [device EXCEPT ![d] = ended]
        BY <1>7 DEF FinishRevoke
    <2> HIDE DEF ended
    <2>4. RowsKept
        BY <2>1, <2>2, <2>3, DeviceRowsAreThere DEF RowsKept, DevicesTyped, DevicesTypeOK
    <2> QED BY <1>7, <2>4, AnsweredTyped DEF FinishRevoke, DevicesTyped, DevicesTypeOK
<1>8. ASSUME NEW c \in Calls, FinishLogOut(c) PROVE DevicesTyped'
    <2> DEFINE p == call[c].person
    <2>1. p \in People /\ call[c].version + 1 \in 1..MaxAuthVersion
        BY <1>8, DevicesAssumption DEF FinishLogOut, DevicesTyped, DevicesTypeOK, CallsTyped
    <2>2. authVersion' \in [People -> 1..MaxAuthVersion]
        BY <1>8, <2>1 DEF FinishLogOut, DevicesTyped, DevicesTypeOK
    <2>3. ASSUME NEW d \in DeviceIds
          PROVE  /\ AllRevoked(p)[d] \in DeviceRow \cup {None}
                 /\ device[d] # None => AllRevoked(p)[d] # None
        <3>1. CASE device[d] # None /\ device[d].person = p
            <4>1. device[d] \in DeviceRow
                BY <3>1 DEF DevicesTyped, DevicesTypeOK
            <4> QED BY <3>1, <4>1, EndedRow, DeviceRowsAreThere DEF AllRevoked
        <3>2. CASE ~(device[d] # None /\ device[d].person = p)
            BY <3>2 DEF AllRevoked, DevicesTyped, DevicesTypeOK
        <3> QED BY <3>1, <3>2
    <2>4. device' = AllRevoked(p) /\ AllRevoked(p) = [d \in DeviceIds |-> AllRevoked(p)[d]]
        BY <1>8 DEF FinishLogOut, AllRevoked
    <2>5. RowsKept
        BY <2>3, <2>4 DEF RowsKept
    <2> QED BY <1>8, <2>2, <2>5, AnsweredTyped DEF FinishLogOut, DevicesTyped, DevicesTypeOK
<1>9. ASSUME NEW p \in People, NEW on \in BOOLEAN, AttemptsExpire(p) \/ Enable(p, on)
      PROVE  DevicesTyped'
    <2>1. attempts' \in [People -> 0..MaxAttempts \cup {None}] /\ enabled' \in [People -> BOOLEAN]
        BY <1>9, DevicesAssumption DEF AttemptsExpire, Enable, DevicesTyped, DevicesTypeOK
    <2>2. UNCHANGED <<device, authVersion, call>>
        BY <1>9 DEF AttemptsExpire, Enable
    <2> QED BY <2>1, <2>2 DEF DevicesTyped, DevicesTypeOK, CallsTyped
<1>10. ASSUME NEW d \in DeviceIds, TokenExpires(d) PROVE DevicesTyped'
    <2> DEFINE new == [device[d] EXCEPT !.expired = TRUE]
    <2>1. device[d] \in DeviceRow /\ device' = [device EXCEPT ![d] = new]
        BY <1>10 DEF TokenExpires, IsLive, DevicesTyped, DevicesTypeOK
    <2>2. new \in DeviceRow
        BY <2>1 DEF DeviceRow
    <2> HIDE DEF new
    <2>3. RowsKept
        BY <2>1, <2>2, DeviceRowsAreThere DEF RowsKept, DevicesTyped, DevicesTypeOK
    <2>4. UNCHANGED <<authVersion, enabled, attempts, call>>
        BY <1>10 DEF TokenExpires
    <2> QED BY <2>3, <2>4 DEF DevicesTyped, DevicesTypeOK, CallsTyped, RowsKept
<1>11. CASE UNCHANGED deviceVars
    BY <1>11 DEF deviceVars, DevicesTyped, DevicesTypeOK, CallsTyped
<1> QED BY <1>1, <1>2, <1>3, <1>4, <1>5, <1>6, <1>7, <1>8, <1>9, <1>10, <1>11, <1>12
        DEF DevicesNext, FinishCall

LEMMA DevicesTypedAlways == DevicesSpec => []DevicesTyped
<1>1. DevicesInit => DevicesTyped
    BY DevicesAssumption DEF DevicesInit, DevicesTyped, DevicesTypeOK, CallsTyped
<1> QED BY <1>1, DevicesStepTyped, PTL DEF DevicesSpec

\* Rows, versions and counters keep their types however requests overlap. (It says nothing of
\* the limit: overlapping attempts that all passed the check of check_rate_limit exceed it.)
THEOREM DevicesCorrectlyTyped == DevicesSpec => []DevicesTypeOK
BY DevicesTypedAlways, PTL DEF DevicesTyped

-----------------------------------------------------------------------------
(* Requests that come one at a time.                                           *)

OneCall == \A c, d \in Calls : call[c] # None /\ call[d] # None => c = d

\* DeviceSessionsCurrent, of any rows and versions of the accounts.
CurrentIn(rows, versions) ==
    \A d, e \in DeviceIds :
        rows[d] # None /\ rows[d].live =>
            /\ rows[d].version = versions[rows[d].person]
            /\ (/\ rows[e] # None /\ rows[e].live
                /\ rows[d].person = rows[e].person /\ rows[d].phone = rows[e].phone) => d = e

\* What a request has read of the account and of its session still holds.
CallsCurrent ==
    \A c \in Calls : call[c] # None =>
        /\ call[c].version = authVersion[call[c].person]
        /\ call[c].op \in {"refresh", "revoke"} =>
              LET d == call[c].device
              IN /\ IsLive(d)
                 /\ device[d].person = call[c].person /\ device[d].phone = call[c].phone

\* Failed attempts stay within the limit: what a failed sign-in goes on from is below it.
WithinLimit ==
    /\ \A p \in People : attempts[p] # None => attempts[p] <= AttemptLimit
    /\ \A c \in Calls : call[c] # None =>
          /\ call[c].op = "wrong" => BelowLimit(attempts[call[c].person])
          /\ call[c].op = "counting" => BelowLimit(call[c].known)

SessionsInvariant == DevicesTyped /\ CallsCurrent /\ CurrentIn(device, authVersion)

\* A session is issued where its person has no other on that device.
LEMMA IssueCurrent ==
    ASSUME DevicesTyped, NEW rows \in [DeviceIds -> DeviceRow \cup {None}], CurrentIn(rows, authVersion),
           NEW p \in People, NEW phone \in Phones, NEW n,
           \A d \in DeviceIds : rows[d] # None /\ rows[d].live =>
               ~(rows[d].person = p /\ rows[d].phone = phone)
    PROVE  CurrentIn([rows EXCEPT ![n] = Issued(p, phone)], authVersion)
<1> DEFINE new == Issued(p, phone)
           after == [rows EXCEPT ![n] = new]
<1>1. new.person = p /\ new.phone = phone /\ new.version = authVersion[p]
    BY DEF Issued
<1> HIDE DEF new
<1>2. \A d \in DeviceIds : after[d] = IF d = n THEN new ELSE rows[d]
    OBVIOUS
<1> HIDE DEF after
<1>3. CurrentIn(after, authVersion)
    BY <1>1, <1>2 DEF CurrentIn
<1> QED BY <1>3 DEF CurrentIn, after, new, Issued

\* Ending sessions leaves the others as current as they were.
LEMMA EndingCurrent ==
    ASSUME NEW before, NEW versions, CurrentIn(before, versions), NEW after,
           \A d \in DeviceIds :
               after[d] # None /\ after[d].live =>
                   /\ before[d] # None /\ before[d].live
                   /\ after[d].person = before[d].person /\ after[d].phone = before[d].phone
                   /\ after[d].version = before[d].version
    PROVE  CurrentIn(after, versions)
BY DEF CurrentIn

LEMMA NobodyCalls ==
    ASSUME OneCall, DevicesTyped, NEW c \in Calls, call[c] # None, Answered(c)
    PROVE  CallsCurrent'
BY DEF OneCall, Answered, CallsCurrent, DevicesTyped, CallsTyped

LEMMA BeginCurrent ==
    ASSUME SessionsInvariant, NEW c \in Calls, NEW p \in People, NEW phone, NEW d, NEW op,
           op \in {"refresh", "revoke"} =>
               IsLive(d) /\ device[d].person = p /\ device[d].phone = phone,
           Begin(c, op, p, phone, d)
    PROVE  CallsCurrent' /\ CurrentIn(device, authVersion)'
<1> DEFINE new == [op |-> op, person |-> p, phone |-> phone, device |-> d,
                   version |-> authVersion[p]]
<1>1. /\ call'[c] = new /\ \A e \in Calls \ {c} : call'[e] = call[e]
      /\ UNCHANGED <<device, authVersion, enabled, attempts>>
    BY DEF Begin, SessionsInvariant, DevicesTyped, CallsTyped
<1>2. /\ new.op = op /\ new.person = p /\ new.phone = phone /\ new.device = d
      /\ new.version = authVersion[p]
    OBVIOUS
<1> HIDE DEF new
<1>3. CallsCurrent'
    BY <1>1, <1>2 DEF SessionsInvariant, CallsCurrent, IsLive
<1> QED BY <1>1, <1>3 DEF SessionsInvariant, CurrentIn

LEMMA SessionsStep ==
    ASSUME OneCall, SessionsInvariant, [DevicesNext]_deviceVars
    PROVE  CallsCurrent' /\ CurrentIn(device, authVersion)'
<1>0. /\ DevicesTyped /\ CallsCurrent /\ CurrentIn(device, authVersion)
      /\ device \in [DeviceIds -> DeviceRow \cup {None}]
    BY DEF SessionsInvariant, DevicesTyped, DevicesTypeOK
<1>1. ASSUME NEW c \in Calls, NEW p \in People, NEW phone \in Phones, NEW right \in BOOLEAN,
             LogIn(c, p, phone, right)
      PROVE  CallsCurrent' /\ CurrentIn(device, authVersion)'
    <2>1. PICK op \in {"login", "wrong"} : Begin(c, op, p, phone, None)
        BY <1>1 DEF LogIn
    <2> QED BY <2>1, BeginCurrent
<1>2. ASSUME NEW c \in Calls, NEW d \in DeviceIds, Refresh(c, d) \/ Revoke(c, d)
      PROVE  CallsCurrent' /\ CurrentIn(device, authVersion)'
    <2>1. IsLive(d) /\ device[d].person \in People
        BY <1>0, <1>2 DEF Refresh, Revoke, IsLive, DeviceRow
    <2> QED BY <1>2, <2>1, BeginCurrent DEF Refresh, Revoke
<1>3. ASSUME NEW c \in Calls, NEW p \in People, LogOut(c, p)
      PROVE  CallsCurrent' /\ CurrentIn(device, authVersion)'
    BY <1>3, BeginCurrent DEF LogOut
<1>4. ASSUME NEW c \in Calls, RecordAttempt(c) PROVE CallsCurrent' /\ CurrentIn(device, authVersion)'
    BY <1>0, <1>4, NobodyCalls DEF RecordAttempt, CurrentIn
<1>12. ASSUME NEW c \in Calls, CountAttempt(c) PROVE CallsCurrent' /\ CurrentIn(device, authVersion)'
    <2> DEFINE p == call[c].person
               new == [op |-> "counting", person |-> p, version |-> call[c].version,
                       known |-> attempts[p], expired |-> {q \in People : attempts[q] = 0}]
    <2>1. /\ call'[c] = new /\ \A e \in Calls \ {c} : call'[e] = call[e]
          /\ UNCHANGED <<device, authVersion>> /\ call[c] # None
        BY <1>0, <1>12 DEF CountAttempt, DevicesTyped, CallsTyped
    <2>2. new.op = "counting" /\ new.person = p /\ new.version = call[c].version
        OBVIOUS
    <2> HIDE DEF new
    <2>3. CallsCurrent'
        BY <1>0, <2>1, <2>2 DEF CallsCurrent, IsLive
    <2> QED BY <1>0, <2>1, <2>3 DEF CurrentIn
<1>5. ASSUME NEW c \in Calls, FinishLogIn(c) PROVE CallsCurrent' /\ CurrentIn(device, authVersion)'
    <2> DEFINE p == call[c].person
               phone == call[c].phone
               rows == Replacing(p, phone)
    <2>1. p \in People /\ phone \in Phones
        BY <1>0, <1>5 DEF FinishLogIn, DevicesTyped, DevicesTypeOK, CallsTyped
    <2>2. ASSUME NEW d \in DeviceIds
          PROVE  /\ rows[d] \in DeviceRow \cup {None}
                 /\ rows[d] # None /\ rows[d].live =>
                       /\ rows[d] = device[d]
                       /\ ~(rows[d].person = p /\ rows[d].phone = phone)
        <3>1. CASE IsLive(d) /\ device[d].person = p /\ device[d].phone = phone
            <4>1. device[d] \in DeviceRow
                BY <1>0, <3>1 DEF IsLive
            <4> QED BY <3>1, <4>1, EndedRow DEF Replacing, Replaced
        <3>2. CASE ~(IsLive(d) /\ device[d].person = p /\ device[d].phone = phone)
            BY <1>0, <3>2 DEF Replacing, Replaced, IsLive
        <3> QED BY <3>1, <3>2
    <2>3. rows \in [DeviceIds -> DeviceRow \cup {None}]
        BY <2>2 DEF Replacing, Replaced
    <2>4. device' = [rows EXCEPT ![NextId] = Issued(p, phone)] /\ UNCHANGED authVersion
        BY <1>5 DEF FinishLogIn
    <2> HIDE DEF rows, p
    <2>5. CurrentIn(rows, authVersion)
        BY <1>0, <2>2, EndingCurrent
    <2>6. CurrentIn([rows EXCEPT ![NextId] = Issued(p, phone)], authVersion)
        BY <1>0, <2>1, <2>2, <2>3, <2>5, IssueCurrent
    <2>7. CurrentIn(device', authVersion)
        BY <2>4, <2>6
    <2>8. CallsCurrent'
        BY <1>0, <1>5, NobodyCalls DEF FinishLogIn
    <2> QED BY <2>4, <2>7, <2>8 DEF CurrentIn
<1>6. ASSUME NEW c \in Calls, FinishRefresh(c)
      PROVE  CallsCurrent' /\ CurrentIn(device, authVersion)'
    <2> DEFINE r == call[c]
               ended == [device[r.device] EXCEPT !.live = FALSE]
               rows == [device EXCEPT ![r.device] = ended]
    <2>1. /\ r.person \in People /\ r.phone \in Phones /\ r.device \in DeviceIds
          /\ device[r.device] \in DeviceRow /\ IsLive(r.device)
          /\ device[r.device].person = r.person /\ device[r.device].phone = r.phone
        BY <1>0, <1>6 DEF FinishRefresh, DevicesTyped, DevicesTypeOK, CallsTyped, CallsCurrent, IsLive
    <2>2. ended \in DeviceRow /\ ~ended.live
        BY <2>1, EndedRow
    <2>3. device' = [rows EXCEPT ![NextId] = Issued(r.person, r.phone)] /\ UNCHANGED authVersion
        BY <1>6 DEF FinishRefresh
    <2> HIDE DEF ended
    <2>4. /\ rows \in [DeviceIds -> DeviceRow \cup {None}]
          /\ \A d \in DeviceIds : rows[d] # None /\ rows[d].live =>
                 /\ d # r.device /\ rows[d] = device[d]
                 /\ ~(rows[d].person = r.person /\ rows[d].phone = r.phone)
        BY <1>0, <2>1, <2>2 DEF CurrentIn, IsLive
    <2> HIDE DEF rows, r
    <2>5. CurrentIn(rows, authVersion)
        BY <1>0, <2>4, EndingCurrent
    <2>6. CurrentIn([rows EXCEPT ![NextId] = Issued(r.person, r.phone)], authVersion)
        BY <1>0, <2>1, <2>4, <2>5, IssueCurrent
    <2> QED BY <1>0, <1>6, <2>3, <2>6, NobodyCalls DEF FinishRefresh, CurrentIn
<1>7. ASSUME NEW c \in Calls, FinishRevoke(c)
      PROVE  CallsCurrent' /\ CurrentIn(device, authVersion)'
    <2> DEFINE d == call[c].device
               ended == [device[d] EXCEPT !.live = FALSE]
    <2>1. d \in DeviceIds /\ device[d] \in DeviceRow
        BY <1>0, <1>7 DEF FinishRevoke, DevicesTyped, CallsTyped
    <2>2. ~ended.live
        BY <2>1, EndedRow
    <2>3. device' = [device EXCEPT ![d] = ended] /\ UNCHANGED authVersion
        BY <1>7 DEF FinishRevoke
    <2> HIDE DEF ended
    <2>4. \A e \in DeviceIds : device'[e] # None /\ device'[e].live => device'[e] = device[e]
        BY <1>0, <2>1, <2>2, <2>3
    <2>5. CurrentIn(device', authVersion)
        BY <1>0, <2>4, EndingCurrent
    <2> QED BY <1>0, <1>7, <2>3, <2>5, NobodyCalls DEF FinishRevoke, CurrentIn
<1>8. ASSUME NEW c \in Calls, FinishLogOut(c)
      PROVE  CallsCurrent' /\ CurrentIn(device, authVersion)'
    <2> DEFINE p == call[c].person
    <2>1. /\ p \in People /\ call[c].version = authVersion[p]
          /\ authVersion' = [authVersion EXCEPT ![p] = authVersion[p] + 1]
          /\ device' = AllRevoked(p)
        BY <1>0, <1>8 DEF FinishLogOut, DevicesTyped, DevicesTypeOK, CallsCurrent
    <2>2. ASSUME NEW d \in DeviceIds, device'[d] # None, device'[d].live
          PROVE  device'[d] = device[d] /\ device[d].person # p /\ device[d].person \in People
        <3>1. CASE device[d] # None /\ device[d].person = p
            <4>1. device[d] \in DeviceRow
                BY <1>0, <3>1
            <4> QED BY <2>1, <2>2, <3>1, <4>1, EndedRow DEF AllRevoked
        <3>2. CASE ~(device[d] # None /\ device[d].person = p)
            <4>1. device'[d] = device[d]
                BY <2>1, <3>2 DEF AllRevoked
            <4> QED BY <1>0, <2>2, <3>2, <4>1 DEF DeviceRow
        <3> QED BY <3>1, <3>2
    <2>3. CurrentIn(device', authVersion)
        BY <1>0, <2>2, EndingCurrent
    <2>4. \A u \in People : u # p => authVersion'[u] = authVersion[u]
        BY <1>0, <2>1 DEF DevicesTyped, DevicesTypeOK
    <2>5. CurrentIn(device', authVersion')
        BY <2>2, <2>3, <2>4 DEF CurrentIn
    <2> QED BY <1>0, <1>8, <2>5, NobodyCalls DEF FinishLogOut, CurrentIn
<1>9. ASSUME NEW p \in People, NEW on \in BOOLEAN, AttemptsExpire(p) \/ Enable(p, on)
      PROVE  CallsCurrent' /\ CurrentIn(device, authVersion)'
    <2>1. UNCHANGED <<device, authVersion, call>>
        BY <1>9 DEF AttemptsExpire, Enable
    <2> QED BY <1>0, <2>1 DEF CallsCurrent, CurrentIn, IsLive
<1>10. ASSUME NEW d \in DeviceIds, TokenExpires(d)
       PROVE  CallsCurrent' /\ CurrentIn(device, authVersion)'
    <2> DEFINE new == [device[d] EXCEPT !.expired = TRUE]
    <2>1. /\ device[d] \in DeviceRow /\ device[d] # None /\ device' = [device EXCEPT ![d] = new]
          /\ UNCHANGED <<authVersion, call>>
        BY <1>0, <1>10 DEF TokenExpires, IsLive
    <2>2. /\ new.person = device[d].person /\ new.phone = device[d].phone
          /\ new.version = device[d].version /\ new.live = device[d].live
          /\ new # None
        BY <2>1, DeviceRowsAreThere DEF DeviceRow
    <2> HIDE DEF new
    <2>3. \A e \in DeviceIds :
              /\ device'[e] # None <=> device[e] # None
              /\ device'[e].live = device[e].live /\ device'[e].person = device[e].person
              /\ device'[e].phone = device[e].phone /\ device'[e].version = device[e].version
        BY <1>0, <2>1, <2>2
    <2>4. CurrentIn(device', authVersion)
        BY <1>0, <2>3, EndingCurrent
    <2>5. CallsCurrent'
        BY <1>0, <2>1, <2>3 DEF CallsCurrent, IsLive, DevicesTyped, CallsTyped
    <2> QED BY <2>1, <2>4, <2>5 DEF CurrentIn
<1>11. CASE UNCHANGED deviceVars
    BY <1>0, <1>11 DEF deviceVars, CallsCurrent, CurrentIn, IsLive
<1> QED BY <1>1, <1>2, <1>3, <1>4, <1>5, <1>6, <1>7, <1>8, <1>9, <1>10, <1>11, <1>12
        DEF DevicesNext, FinishCall

LEMMA LimitStep ==
    ASSUME OneCall, DevicesTyped, WithinLimit, [DevicesNext]_deviceVars
    PROVE  WithinLimit'
<1>0. /\ call = [c \in Calls |-> call[c]] /\ attempts \in [People -> 0..MaxAttempts \cup {None}]
      /\ \A c \in Calls : call[c] # None => call[c].person \in People
      /\ AttemptLimit \in Nat \ {0} /\ None \notin Nat
    BY DevicesAssumption DEF DevicesTyped, DevicesTypeOK, CallsTyped
<1>1. ASSUME NEW c \in Calls, NEW p \in People, NEW phone, NEW d, NEW op,
             op = "wrong" => BelowLimit(attempts[p]), op # "counting", Begin(c, op, p, phone, d)
      PROVE  WithinLimit'
    <2> DEFINE new == [op |-> op, person |-> p, phone |-> phone, device |-> d,
                       version |-> authVersion[p]]
    <2>1. /\ call'[c] = new /\ \A e \in Calls \ {c} : call'[e] = call[e]
          /\ UNCHANGED attempts
        BY <1>0, <1>1 DEF Begin
    <2>2. new.op = op /\ new.person = p
        OBVIOUS
    <2> HIDE DEF new
    <2> QED BY <1>1, <2>1, <2>2 DEF WithinLimit, BelowLimit
<1>2. ASSUME NEW c \in Calls, call[c] # None, Answered(c),
             \A p \in People : attempts'[p] # None => attempts'[p] <= AttemptLimit
      PROVE  WithinLimit'
    BY <1>0, <1>2 DEF OneCall, Answered, WithinLimit
<1>3. ASSUME NEW c \in Calls, NEW p \in People, NEW phone \in Phones, NEW right \in BOOLEAN,
             LogIn(c, p, phone, right)
      PROVE  WithinLimit'
    <2>1. PICK op \in {"login", "wrong"} : Begin(c, op, p, phone, None)
        BY <1>3 DEF LogIn
    <2> QED BY <1>1, <1>3, <2>1 DEF LogIn
<1>4. ASSUME NEW c \in Calls, NEW d \in DeviceIds, Refresh(c, d) \/ Revoke(c, d)
      PROVE  WithinLimit'
    <2>1. device[d].person \in People
        BY <1>4 DEF Refresh, Revoke, IsLive, DevicesTyped, DevicesTypeOK, DeviceRow
    <2> QED BY <1>1, <1>4, <2>1 DEF Refresh, Revoke
<1>5. ASSUME NEW c \in Calls, NEW p \in People, LogOut(c, p) PROVE WithinLimit'
    BY <1>1, <1>5 DEF LogOut
<1>6. ASSUME NEW c \in Calls, CountAttempt(c) PROVE WithinLimit'
    <2> DEFINE p == call[c].person
               new == [op |-> "counting", person |-> p, version |-> call[c].version,
                       known |-> attempts[p], expired |-> {q \in People : attempts[q] = 0}]
    <2>1. /\ call'[c] = new /\ \A e \in Calls \ {c} : call'[e] = call[e]
          /\ UNCHANGED attempts /\ call[c] # None /\ call[c].op = "wrong"
        BY <1>0, <1>6 DEF CountAttempt
    <2>2. new.op = "counting" /\ new.person = p /\ new.known = attempts[p]
        OBVIOUS
    <2> HIDE DEF new
    <2> QED BY <2>1, <2>2 DEF WithinLimit, BelowLimit
<1>7. ASSUME NEW c \in Calls, RecordAttempt(c) PROVE WithinLimit'
    <2>1. /\ call[c] # None /\ Answered(c) /\ BelowLimit(call[c].known)
          /\ call[c].known = None \/ call[c].known \in Nat
        BY <1>7 DEF RecordAttempt, WithinLimit, DevicesTyped, CallsTyped
    <2>2. Recorded(call[c]) <= AttemptLimit
        BY <1>0, <2>1 DEF Recorded, BelowLimit
    <2>3. \A p \in People : attempts'[p] # None => attempts'[p] <= AttemptLimit
        BY <1>0, <1>7, <2>2 DEF RecordAttempt, WithinLimit
    <2> QED BY <1>2, <2>1, <2>3
<1>8. ASSUME NEW c \in Calls,
             FinishLogIn(c) \/ FinishRefresh(c) \/ FinishRevoke(c) \/ FinishLogOut(c)
      PROVE  WithinLimit'
    <2>1. call[c] # None /\ Answered(c)
        BY <1>8 DEF FinishLogIn, FinishRefresh, FinishRevoke, FinishLogOut
    <2>2. \A p \in People : attempts'[p] = None \/ attempts'[p] = attempts[p]
        BY <1>0, <1>8 DEF FinishLogIn, FinishRefresh, FinishRevoke, FinishLogOut
    <2>3. \A p \in People : attempts'[p] # None => attempts'[p] <= AttemptLimit
        BY <2>2 DEF WithinLimit
    <2> QED BY <1>2, <2>1, <2>3
<1>9. ASSUME UNCHANGED call, \A p \in People : attempts'[p] = 0 \/ attempts'[p] = attempts[p]
      PROVE  WithinLimit'
    BY <1>0, <1>9 DEF WithinLimit, BelowLimit
<1>10. ASSUME NEW p \in People, NEW on \in BOOLEAN, AttemptsExpire(p) \/ Enable(p, on)
       PROVE  WithinLimit'
    BY <1>0, <1>9, <1>10 DEF AttemptsExpire, Enable
<1>11. ASSUME NEW d \in DeviceIds, TokenExpires(d) PROVE WithinLimit'
    BY <1>9, <1>11 DEF TokenExpires
<1>12. CASE UNCHANGED deviceVars
    BY <1>9, <1>12 DEF deviceVars
<1> QED BY <1>3, <1>4, <1>5, <1>6, <1>7, <1>8, <1>10, <1>11, <1>12 DEF DevicesNext, FinishCall

\* Where requests come one at a time, a person has at most one live session on a device,
\* issued since the last sign-out, and failed attempts stop at the limit (login, refresh,
\* logout and record_rate_limit of auth.py).
THEOREM DeviceSessionsStayCurrent ==
    DevicesSpec /\ []OneCall => []DeviceSessionsCurrent
<1>1. DevicesInit => CallsCurrent /\ CurrentIn(device, authVersion)
    BY DEF DevicesInit, CallsCurrent, CurrentIn
<1>2. /\ DevicesTyped /\ CallsCurrent /\ CurrentIn(device, authVersion) /\ OneCall
      /\ [DevicesNext]_deviceVars
      => CallsCurrent' /\ CurrentIn(device, authVersion)'
    BY SessionsStep DEF SessionsInvariant
<1>3. DevicesInit => WithinLimit
    BY DEF DevicesInit, WithinLimit
<1>4. OneCall /\ DevicesTyped /\ WithinLimit /\ [DevicesNext]_deviceVars => WithinLimit'
    BY LimitStep
<1>5. WithinLimit /\ CurrentIn(device, authVersion) => DeviceSessionsCurrent
    BY DEF WithinLimit, CurrentIn, DeviceSessionsCurrent, IsLive
<1> QED BY <1>1, <1>2, <1>3, <1>4, <1>5, DevicesTypedAlways, PTL DEF DevicesSpec

-----------------------------------------------------------------------------
(***************************************************************************)
(* Backups: a completed backup is never lost.                              *)
(***************************************************************************)

Commits == 0..MaxCommits
Log == [for : Commits, upto : Commits]

Loop == [phase : Phases \ {"sleep"}, left : {0}] \cup [phase : {"sleep"}, left : 1..Interval]

\* Types of the archives, the loop and the database.
BackupsTypeOK ==
    /\ archives \subseteq Archive
    /\ loop \in Loop
    /\ file \in Commits
    /\ wal \in Log \cup {None}
    /\ copied \in Commits \cup {None}
    /\ restoring \in Commits \cup {None}

\* What is being archived has been copied, and the archives are pruned only when
\* the newest of them is whole.
PruneAfterBackup ==
    /\ loop.phase = "write" => copied # None
    /\ loop.phase = "prune" => \E a \in archives : a.age = 0 /\ a.content # None

BackupInvariant == BackupsTypeOK /\ PruneAfterBackup /\ WholeBackupKept

-----------------------------------------------------------------------------
\* What can be read is a commit, unless the log belongs to another file.
LEMMA PresentType ==
    ASSUME BackupsTypeOK, Present # Mixed
    PROVE  Present \in Commits
<1>1. CASE wal = None
    BY <1>1 DEF BackupsTypeOK, Present
<1>2. CASE wal # None
    <2>1. wal \in Log
        BY <1>2 DEF BackupsTypeOK
    <2>2. wal.upto \in Commits
        BY <2>1 DEF Log
    <2> QED BY <1>2, <2>2 DEF Present
<1> QED BY <1>1, <1>2

LEMMA BackupsInitTypes == BackupsInit => BackupsTypeOK
BY BackupsAssumption DEF BackupsInit, BackupsTypeOK, At, Phases, Loop, Commits

LEMMA BackupsStepTypes ==
    ASSUME BackupsTypeOK, [BackupsNext]_backupVars
    PROVE  BackupsTypeOK'
<1> USE DEF Commits
<1>1. ASSUME NEW p \in Phases \ {"sleep"} PROVE At(p) \in Loop
    BY <1>1 DEF At, Loop
<1>2. Asleep \in Loop
    BY BackupsAssumption DEF Asleep, Loop
<1>3. CASE StartUp
    BY <1>1, <1>3 DEF StartUp, BackupsTypeOK, Phases
<1>4. CASE Check
    BY <1>1, <1>2, <1>4 DEF Check, databaseVars, BackupsTypeOK, Phases
<1>5. CASE CopyDatabase
    <2>1. Partial \in Archive
        BY BackupsAssumption DEF Partial, Archive, Oldest
    <2> QED BY <1>1, <1>5, <2>1, PresentType DEF CopyDatabase, databaseVars, BackupsTypeOK, Phases
<1>6. CASE CloseArchive
    <2>1. [age |-> 0, content |-> copied] \in Archive
        BY BackupsAssumption DEF Archive, Oldest, BackupsTypeOK
    <2> QED BY <1>1, <1>6, <2>1 DEF CloseArchive, databaseVars, BackupsTypeOK, Phases
<1>7. CASE BackupFails
    BY <1>2, <1>7 DEF BackupFails, AfterFailure, databaseVars, BackupsTypeOK
<1>8. CASE PruneBackups
    BY <1>2, <1>8 DEF PruneBackups, databaseVars, BackupsTypeOK
<1>9. CASE GoDown
    BY <1>1, <1>9, PresentType DEF GoDown, BackupsTypeOK, Phases
<1>10. CASE Tick
    <2>1. ASSUME NEW a \in archives
          PROVE  [a EXCEPT !.age = IF @ < Oldest THEN @ + 1 ELSE @] \in Archive
        <3>1. a \in Archive
            BY DEF BackupsTypeOK
        <3> QED BY <3>1, BackupsAssumption DEF Archive, Oldest
    <2>2. archives' \subseteq Archive
        BY <1>10, <2>1 DEF Tick
    <2>3. loop' \in Loop
        <3>1. CASE ~Up
            BY <1>10, <3>1 DEF Tick, BackupsTypeOK
        <3>2. CASE Up /\ loop.left = 1
            BY <1>1, <1>10, <3>2 DEF Tick, Phases
        <3>3. CASE Up /\ loop.left # 1
            <4>1. loop.phase = "sleep" /\ loop' = [loop EXCEPT !.left = @ - 1]
                BY <1>10, <3>3 DEF Tick, Up
            <4>2. loop \in [phase : {"sleep"}, left : 1..Interval]
                BY <4>1 DEF BackupsTypeOK, Loop
            <4> QED BY <3>3, <4>1, <4>2, BackupsAssumption DEF Loop
        <3> QED BY <3>1, <3>2, <3>3
    <2> QED BY <1>10, <2>2, <2>3 DEF Tick, databaseVars, BackupsTypeOK
<1>11. CASE ManualBackup
    <2>1. [age |-> 0, content |-> Present] \in Archive
        BY <1>11, PresentType, BackupsAssumption DEF ManualBackup, Archive, Oldest
    <2> QED BY <1>11, <2>1 DEF ManualBackup, databaseVars, BackupsTypeOK
<1>12. CASE Commit
    <2>1. Present + 1 \in Commits
        BY <1>12, BackupsAssumption DEF Commit
    <2> QED BY <1>12, <2>1 DEF Commit, BackupsTypeOK, Log
<1>13. CASE Checkpoint
    BY <1>13, PresentType DEF Checkpoint, BackupsTypeOK
<1>14. ASSUME NEW a \in archives, VerifyBackup(a) PROVE BackupsTypeOK'
    BY <1>14 DEF VerifyBackup, BackupsTypeOK, Archive
<1>15. CASE OverwriteDatabase
    BY <1>15 DEF OverwriteDatabase, BackupsTypeOK
<1>16. CASE UNCHANGED backupVars
    BY <1>16 DEF backupVars, BackupsTypeOK
<1> QED
    BY <1>3, <1>4, <1>5, <1>6, <1>7, <1>8, <1>9, <1>10, <1>11, <1>12, <1>13, <1>14, <1>15, <1>16
    DEF BackupsNext

-----------------------------------------------------------------------------
LEMMA BackupsInitKept == BackupsInit => PruneAfterBackup /\ WholeBackupKept
BY DEF BackupsInit, PruneAfterBackup, WholeBackupKept, At

\* Archives go by pruning only, and then a new whole one has just been made.
LEMMA BackupsStepKept ==
    ASSUME BackupInvariant, [BackupsNext]_backupVars
    PROVE  PruneAfterBackup' /\ WholeBackupKept'
<1> USE DEF BackupInvariant
<1>1. ASSUME UNCHANGED <<archives, whole>>, loop'.phase \notin {"write", "prune"}
      PROVE  PruneAfterBackup' /\ WholeBackupKept'
    BY <1>1 DEF PruneAfterBackup, WholeBackupKept
<1>2. ASSUME UNCHANGED <<archives, whole, loop, copied>>
      PROVE  PruneAfterBackup' /\ WholeBackupKept'
    BY <1>2 DEF PruneAfterBackup, WholeBackupKept
<1>3. CASE StartUp
    BY <1>1, <1>3 DEF StartUp, At
<1>4. CASE Check
    BY <1>1, <1>4 DEF Check, At, Asleep
<1>5. CASE CopyDatabase
    <2>1. copied' # None
        BY <1>5, PresentType, BackupsAssumption DEF CopyDatabase, Commits
    <2> QED BY <1>5, <2>1 DEF CopyDatabase, At, PruneAfterBackup, WholeBackupKept
<1>6. CASE CloseArchive
    <2>1. copied # None
        BY <1>6 DEF CloseArchive, PruneAfterBackup
    <2> DEFINE new == [age |-> 0, content |-> copied]
    <2>2. new \in archives' /\ new.age = 0 /\ new.content # None
        BY <1>6, <2>1 DEF CloseArchive
    <2>3. loop'.phase = "prune"
        BY <1>6 DEF CloseArchive, At
    <2> HIDE DEF new
    <2> QED BY <2>2, <2>3 DEF PruneAfterBackup, WholeBackupKept
<1>7. CASE BackupFails
    BY <1>1, <1>7 DEF BackupFails, AfterFailure, Asleep
<1>8. CASE PruneBackups
    <2>1. PICK a \in archives : a.age = 0 /\ a.content # None
        BY <1>8 DEF PruneBackups, PruneAfterBackup
    <2>2. a \in archives'
        BY <1>8, <2>1, BackupsAssumption DEF PruneBackups, Expired
    <2> QED BY <1>8, <2>1, <2>2 DEF PruneBackups, Asleep, PruneAfterBackup, WholeBackupKept
<1>9. CASE GoDown
    BY <1>1, <1>9 DEF GoDown, At
<1>10. CASE Tick
    <2>1. loop'.phase \notin {"write", "prune"}
        BY <1>10 DEF Tick, At, BackupsTypeOK
    <2>2. ASSUME NEW a \in archives, a.content # None
          PROVE  \E b \in archives' : b.content # None
        <3> DEFINE b == [a EXCEPT !.age = IF @ < Oldest THEN @ + 1 ELSE @]
        <3>1. b \in archives'
            BY <1>10 DEF Tick
        <3>2. b.content = a.content
            BY DEF BackupsTypeOK, Archive
        <3> QED BY <2>2, <3>1, <3>2
    <2> QED BY <1>10, <2>1, <2>2 DEF Tick, PruneAfterBackup, WholeBackupKept
<1>11. CASE ManualBackup
    <2>1. Present # None
        BY <1>11, PresentType, BackupsAssumption DEF ManualBackup, Commits
    <2> DEFINE new == [age |-> 0, content |-> Present]
    <2>2. new \in archives' /\ new.content # None
        BY <1>11, <2>1 DEF ManualBackup
    <2>3. loop'.phase \notin {"write", "prune"}
        BY <1>11 DEF ManualBackup
    <2> HIDE DEF new
    <2> QED BY <2>2, <2>3 DEF PruneAfterBackup, WholeBackupKept
<1>12. CASE Commit \/ Checkpoint \/ OverwriteDatabase \/ UNCHANGED backupVars
    BY <1>2, <1>12 DEF Commit, Checkpoint, OverwriteDatabase, backupVars
<1>13. ASSUME NEW a \in archives, VerifyBackup(a)
       PROVE  PruneAfterBackup' /\ WholeBackupKept'
    BY <1>2, <1>13 DEF VerifyBackup
<1> QED
    BY <1>3, <1>4, <1>5, <1>6, <1>7, <1>8, <1>9, <1>10, <1>11, <1>12, <1>13 DEF BackupsNext

\* Once a backup has been completed there is always one that can be restored,
\* wherever the loop is interrupted or fails.
THEOREM BackupsAreKept == BackupsSpec => []WholeBackupKept
<1>1. BackupsInit => BackupInvariant
    BY BackupsInitTypes, BackupsInitKept DEF BackupInvariant
<1>2. BackupInvariant /\ [BackupsNext]_backupVars => BackupInvariant'
    BY BackupsStepTypes, BackupsStepKept DEF BackupInvariant
<1>3. BackupInvariant => WholeBackupKept
    BY DEF BackupInvariant
<1> QED BY <1>1, <1>2, <1>3, PTL DEF BackupsSpec

-----------------------------------------------------------------------------
(***************************************************************************)
(* Migrations: an upgrade that is interrupted anywhere, any number of times, *)
(* ends with the schema that the application declares.                      *)
(***************************************************************************)

SequenceNumber == Column("sessions", "daily_sequence")
IsNumbering(s) == <<s>> = NumberDaysAlways

UpgradeTyped ==
    /\ position \in [revision : 1..Newest + 1, statement : Nat \ {0}]
    /\ position.revision <= Newest => position.statement <= Len(Script) + 1
    /\ disk \in [schema : {disk.schema}, unfilled : {disk.unfilled},
                 revision : {position.revision - 1}]
    /\ within \in BOOLEAN /\ stopped \in BOOLEAN /\ crashes \in Nat
    /\ ~within => schema = disk.schema /\ unfilled = disk.unfilled

\* What has been run, or left out, is there, and of what was found nothing has gone that a
\* statement looks for.
Brought ==
    /\ \A i \in 1..position.revision - 1 : Brings(i) \subseteq schema \cap disk.schema
    /\ \A k \in 1..position.statement - 1 : Leaves(Script[k]) \subseteq schema
    /\ \A s \in Statements : s.unless \cap found \subseteq schema

Fits(S) == ColumnsWhole(S) /\ Accounted(S)
SchemasFit == Fits(schema) /\ Fits(disk.schema) /\ Fits(found)

\* What this attempt has not found it has made.
MadeHere ==
    \A o \in schema \ found : \E k \in 1..position.statement - 1 : o \in Adds(Script[k])

\* A copy will take its table's place, but one that a crash has left.
CopiesGo ==
    /\ \A c \in Copies \cap schema :
          \/ c \in found
          \/ \E k \in position.statement..Len(Script) :
                /\ Script[k].kind = "swap" /\ c \in Lost(Script[k].object[1])
                /\ Script[k].unless \cap found = {}
    /\ found \cap Copies \subseteq disk.schema
    /\ crashes = 0 => found \cap Copies = {}

\* Sessions that wait for their numbers will get them.
DaysGetNumbers ==
    /\ SequenceNumber \in unfilled =>
          /\ position.revision <= Newest
          /\ \E k \in position.statement..Len(Script) : IsNumbering(Script[k])
    /\ SequenceNumber \in disk.unfilled =>
          /\ position.revision <= Newest
          /\ \E k \in 1..Len(Script) : IsNumbering(Script[k])

StopsAtCopy ==
    stopped => crashes > 0 /\ \E i \in DOMAIN Tables : Copy(Tables[i]) \in disk.schema

UpgradeInvariant ==
    UpgradeTyped /\ Brought /\ SchemasFit /\ MadeHere /\ CopiesGo /\ DaysGetNumbers /\ StopsAtCopy

-----------------------------------------------------------------------------
(* The scripts.                                                                *)

LEMMA ScriptsAre ==
    /\ Newest \in Nat \ {0} /\ DOMAIN Revisions = 1..Newest
    /\ \A r \in 1..Newest : /\ Len(Revisions[r]) \in Nat
                            /\ DOMAIN Revisions[r] = 1..Len(Revisions[r])
                            /\ \A k \in 1..Len(Revisions[r]) : Revisions[r][k] \in Statements
                            /\ InOrder(Revisions[r])
<1>1. /\ Revisions \in Seq(Seq(Statements)) /\ Revisions # <<>>
      /\ \A r \in DOMAIN Revisions : InOrder(Revisions[r])
    BY RevisionsInOrder
<1>2. /\ Newest \in Nat \ {0} /\ DOMAIN Revisions = 1..Newest
      /\ \A r \in 1..Newest : Revisions[r] \in Seq(Statements)
    BY <1>1 DEF Newest
<1>3. ASSUME NEW r \in 1..Newest
      PROVE  /\ Len(Revisions[r]) \in Nat
             /\ DOMAIN Revisions[r] = 1..Len(Revisions[r])
             /\ \A k \in 1..Len(Revisions[r]) : Revisions[r][k] \in Statements
    <2> DEFINE s == Revisions[r]
    <2>1. s \in Seq(Statements)
        BY <1>2
    <2> HIDE DEF s
    <2>2. Len(s) \in Nat /\ DOMAIN s = 1..Len(s) /\ \A k \in 1..Len(s) : s[k] \in Statements
        BY <2>1
    <2> QED BY <2>2 DEF s
<1> QED BY <1>1, <1>2, <1>3

LEMMA LeavesLooked == ASSUME NEW s PROVE Leaves(s) \subseteq s.unless
BY DEF Leaves

\* What revisions bring is never lost with the copy of a table.
LEMMA BringsStay ==
    ASSUME NEW r \in 1..Newest, NEW w \in Swaps
    PROVE  Brings(r) \cap Lost(w.object[1]) = {}
<1>1. ASSUME NEW i \in 1..Newest, NEW k \in DOMAIN Revisions[i]
      PROVE  Leaves(Revisions[i][k]) \cap Lost(w.object[1]) = {}
    <2>1. Revisions[i][k] \in Statements
        BY <1>1, ScriptsAre
    <2> QED BY <2>1, LeavesLooked, StatementsFit
<1>2. CASE r = 1
    <2>1. \A t \in Core : \E k \in DOMAIN Revisions[1] : Table(t) \in Leaves(Revisions[1][k])
        BY StatementsFit
    <2> QED BY <1>1, <1>2, <2>1, ScriptsAre DEF Brings
<1>3. CASE r # 1
    BY <1>1, <1>3 DEF Brings
<1> QED BY <1>2, <1>3

-----------------------------------------------------------------------------
(* What a step does.                                                           *)

Dropped(s) == IF s.kind = "swap" THEN Lost(s.object[1]) ELSE {}

\* The statement at the present position, which has not failed.
AtStatement ==
    /\ position.revision \in 1..Newest /\ position.statement \in 1..Len(Script)
    /\ position' \in [revision : 1..Newest + 1, statement : Nat \ {0}]
    /\ position'.revision = position.revision
    /\ position'.statement = position.statement + 1
    /\ Script' = Script /\ Current \in Statements
    /\ ~stopped /\ UNCHANGED <<found, stopped, crashes>>

Executes ==
    /\ AtStatement
    /\ Current.unless \cap found = {}
    /\ schema' = (schema \ Dropped(Current)) \cup Adds(Current)
    /\ SequenceNumber \in unfilled' =>
          \/ SequenceNumber \in unfilled /\ ~IsNumbering(Current)
          \/ Current.kind = "add" /\ Current.object = SequenceNumber
    /\ within' \in BOOLEAN
    /\ \/ within' /\ disk' = disk
       \/ /\ ~within /\ ~within' /\ Dropped(Current) = {}
          /\ disk' \in [schema : {schema'}, unfilled : {unfilled'},
                        revision : {position.revision - 1}]

LEMMA Positions ==
    ASSUME UpgradeTyped, StatementNext, position' = [position EXCEPT !.statement = @ + 1],
           UNCHANGED <<found, stopped, crashes>>
    PROVE  AtStatement
<1>1. /\ position.revision \in 1..Newest + 1 /\ position.statement \in Nat \ {0}
      /\ disk.revision = position.revision - 1 /\ disk.revision # Newest /\ ~stopped
      /\ position.statement <= Len(Script)
    BY DEF UpgradeTyped, StatementNext, Running, AtHead
<1>2. position.revision \in 1..Newest /\ Len(Script) \in Nat
    BY <1>1, ScriptsAre DEF Script
<1>3. /\ position'.revision = position.revision
      /\ position'.statement = position.statement + 1
      /\ position' \in [revision : 1..Newest + 1, statement : Nat \ {0}]
    BY DEF UpgradeTyped
<1>4. Script' = Script
    BY <1>3 DEF Script
<1>5. Current \in Statements
    BY <1>1, <1>2, ScriptsAre DEF Script, Current
<1> QED BY <1>1, <1>2, <1>3, <1>4, <1>5 DEF AtStatement

LEMMA SchemaReplaced ==
    ASSUME NEW d, NEW s, NEW u, NEW r,
           d \in [schema : {d.schema}, unfilled : {d.unfilled}, revision : {r}]
    PROVE  [d EXCEPT !.schema = s, !.unfilled = u]
           \in [schema : {s}, unfilled : {u}, revision : {r}]
OBVIOUS

LEMMA WroteIs ==
    ASSUME UpgradeTyped, NEW s, NEW u, Wrote(s, u), UNCHANGED within
    PROVE  /\ schema' = s /\ unfilled' = u /\ within' \in BOOLEAN
           /\ \/ within' /\ disk' = disk
              \/ /\ ~within /\ ~within'
                 /\ disk' \in [schema : {schema'}, unfilled : {unfilled'},
                               revision : {position.revision - 1}]
<1>1. [disk EXCEPT !.schema = s, !.unfilled = u]
      \in [schema : {s}, unfilled : {u}, revision : {position.revision - 1}]
    BY SchemaReplaced DEF UpgradeTyped
<1>2. /\ schema' = s /\ unfilled' = u
      /\ disk' = IF within THEN disk ELSE [disk EXCEPT !.schema = s, !.unfilled = u]
    BY DEF Wrote
<1>3. within \in BOOLEAN /\ within' = within
    BY DEF UpgradeTyped
<1> QED BY <1>1, <1>2, <1>3

LEMMA NumberingIs ==
    ASSUME NEW s, IsNumbering(s)
    PROVE  s.kind = "fill" /\ s.object = SequenceNumber /\ s.unless = {}
<1> DEFINE n == SequenceNumber
           e == [kind |-> "fill", object |-> n, unless |-> {}]
<1>1. <<s>> = <<e>>
    BY DEF IsNumbering, NumberDaysAlways, NumberDays, Fill, Statement, SequenceNumber
<1> HIDE DEF e
<1>2. s = e
    BY <1>1
<1> HIDE DEF n
<1> QED BY <1>2 DEF n, e

LEMMA StatementsExecute ==
    ASSUME UpgradeTyped,
           AddObject \/ CreateWhole \/ EnsureTriggers \/ FillRows \/ SwapTable
    PROVE  Executes
<1>1. SequenceNumber \in unfilled /\ Current.kind # "fill" =>
          SequenceNumber \in unfilled /\ ~IsNumbering(Current)
    BY NumberingIs
<1>2. CASE AddObject
    <2> DEFINE new == IF Current.object \in Backfilled /\ HasRows(Current.object[1])
                      THEN {Current.object} ELSE {}
    <2>1. /\ AtStatement /\ Current.unless \cap found = {} /\ Current.kind = "add"
          /\ Wrote(schema \cup {Current.object}, unfilled \cup new)
          /\ UNCHANGED within
        BY <1>2, Positions DEF AddObject, Wrote
    <2>2. new \subseteq {Current.object}
        OBVIOUS
    <2> HIDE DEF new
    <2>3. Dropped(Current) = {} /\ Adds(Current) = {Current.object}
        BY <2>1 DEF Dropped, Adds
    <2> QED BY <1>1, <2>1, <2>2, <2>3, WroteIs DEF Executes
<1>3. CASE CreateWhole
    <2> DEFINE new == Shape(Current.object[1]) \ {Indexes(Current.object[1])}
    <2>1. /\ AtStatement /\ Current.unless \cap found = {} /\ Current.kind = "create"
          /\ Wrote(schema \cup new, unfilled)
          /\ UNCHANGED within
        BY <1>3, Positions DEF CreateWhole, Wrote
    <2>2. Dropped(Current) = {} /\ Adds(Current) = new
        BY <2>1 DEF Dropped, Adds
    <2> HIDE DEF new
    <2> QED BY <1>1, <2>1, <2>2, WroteIs DEF Executes
<1>4. CASE EnsureTriggers
    <2>1. /\ AtStatement /\ Current.kind = "ensure"
          /\ Wrote(schema \cup {Current.object}, unfilled)
          /\ UNCHANGED within
        BY <1>4, Positions DEF EnsureTriggers, Wrote
    <2>2. Dropped(Current) = {} /\ Adds(Current) = {Current.object}
        BY <2>1 DEF Dropped, Adds
    <2>3. Current.unless = {}
        BY <2>1, StatementsFit DEF AtStatement
    <2> QED BY <1>1, <2>1, <2>2, <2>3, WroteIs DEF Executes
<1>5. CASE FillRows
    <2>1. /\ AtStatement /\ Current.unless \cap found = {} /\ Current.kind = "fill"
          /\ within' /\ within' \in BOOLEAN /\ disk' = disk /\ schema' = schema
          /\ unfilled' = unfilled \ {Current.object}
        BY <1>5, Positions DEF FillRows
    <2>2. Dropped(Current) = {} /\ Adds(Current) = {}
        BY <2>1 DEF Dropped, Adds
    <2> QED BY <2>1, <2>2, NumberingIs DEF Executes
<1>6. CASE SwapTable
    <2>1. /\ AtStatement /\ Current.unless \cap found = {} /\ Current.kind = "swap"
          /\ within' /\ within' \in BOOLEAN /\ disk' = disk /\ unfilled' = unfilled
          /\ schema' = (schema \ Lost(Current.object[1])) \cup Current.unless
        BY <1>6, Positions DEF SwapTable
    <2>2. Dropped(Current) = Lost(Current.object[1]) /\ Adds(Current) = Current.unless
        BY <2>1 DEF Dropped, Adds
    <2> QED BY <1>1, <2>1, <2>2 DEF Executes
<1> QED BY <1>2, <1>3, <1>4, <1>5, <1>6

\* What looks for something that was found is left out.
LeavesOut ==
    /\ AtStatement /\ Current.unless \cap found # {}
    /\ UNCHANGED <<schema, unfilled, disk, within>>

LEMMA StatementsLeftOut == ASSUME UpgradeTyped, Skip PROVE LeavesOut
BY Positions DEF Skip, LeavesOut

-----------------------------------------------------------------------------
(* What is there.                                                              *)

LEMMA NothingNeededGoes ==
    ASSUME AtStatement, NEW s \in Statements
    PROVE  s.unless \cap Dropped(Current) = {}
<1>1. Current.kind = "swap" => Current \in Swaps
    BY DEF AtStatement, Swaps
<1> QED BY <1>1, StatementsFit DEF Dropped

LEMMA ExecutedBrought ==
    ASSUME UpgradeTyped, Brought, SchemasFit, Executes PROVE Brought'
<1> DEFINE n == position.statement
<1>1. /\ position.revision \in 1..Newest /\ n \in 1..Len(Script) /\ Len(Script) \in Nat
      /\ position'.revision = position.revision /\ position'.statement = n + 1
      /\ Script' = Script /\ Current = Script[n] /\ Current \in Statements
      /\ found' = found /\ AtStatement
      /\ schema' = (schema \ Dropped(Current)) \cup Adds(Current)
      /\ disk' = disk \/ (Dropped(Current) = {} /\ disk'.schema = schema' /\ ~within)
    BY ScriptsAre DEF Executes, AtStatement, Script, Current
<1> HIDE DEF n
<1>2. ASSUME NEW i \in 1..position.revision - 1
      PROVE  Brings(i) \subseteq schema' \cap disk'.schema
    <2>1. i \in 1..Newest /\ Brings(i) \subseteq schema \cap disk.schema
        BY <1>1, ScriptsAre DEF Brought
    <2>2. Brings(i) \cap Dropped(Current) = {}
        <3>1. Current.kind = "swap" => Current \in Swaps
            BY <1>1 DEF Swaps
        <3> QED BY <2>1, <3>1, BringsStay DEF Dropped
    <2> QED BY <1>1, <2>1, <2>2
<1>3. ASSUME NEW k \in 1..n PROVE Leaves(Script[k]) \subseteq schema'
    <2>1. CASE k = n
        BY <1>1, <2>1, StatementsFit
    <2>2. CASE k # n
        <3>1. k \in 1..n - 1 /\ k \in 1..Len(Script)
            BY <1>1, <2>2
        <3>2. Leaves(Script[k]) \subseteq schema
            BY <3>1 DEF Brought, n
        <3>3. Script[k] \in Statements
            BY <1>1, <3>1, ScriptsAre DEF Script
        <3>4. Leaves(Script[k]) \cap Dropped(Current) = {}
            BY <1>1, <3>3, NothingNeededGoes, LeavesLooked
        <3> QED BY <1>1, <3>2, <3>4
    <2> QED BY <2>1, <2>2
<1>4. ASSUME NEW s \in Statements PROVE s.unless \cap found \subseteq schema'
    BY <1>1, NothingNeededGoes DEF Brought
<1>5. 1..position'.statement - 1 = 1..n
    BY <1>1
<1> QED BY <1>1, <1>2, <1>3, <1>4, <1>5 DEF Brought

LEMMA LeftOutBrought ==
    ASSUME UpgradeTyped, Brought, SchemasFit, LeavesOut PROVE Brought'
<1> DEFINE n == position.statement
<1>1. /\ position.revision \in 1..Newest /\ n \in 1..Len(Script) /\ Len(Script) \in Nat
      /\ position'.revision = position.revision /\ position'.statement = n + 1
      /\ Script' = Script /\ Current = Script[n] /\ Current \in Statements
      /\ UNCHANGED <<found, schema, disk>> /\ Current.unless \cap found # {}
    BY ScriptsAre DEF LeavesOut, AtStatement, Script, Current
<1> HIDE DEF n
<1>2. Leaves(Current) \subseteq schema
    <2>1. CASE Current.kind = "swap"
        <3>1. Current.unless \subseteq found
            BY <1>1, <2>1 DEF SchemasFit, Fits, ColumnsWhole, Swaps
        <3> QED BY <1>1, <3>1, LeavesLooked DEF Brought
    <2>2. CASE Current.kind # "swap" /\ Leaves(Current) # {}
        <3>1. Leaves(Current) = {Current.object} /\ Current.unless = {Current.object}
            BY <2>2 DEF Leaves
        <3> QED BY <1>1, <3>1 DEF Brought
    <2> QED BY <2>1, <2>2
<1>3. ASSUME NEW k \in 1..n PROVE Leaves(Script[k]) \subseteq schema
    <2>1. k = n \/ k \in 1..n - 1
        BY <1>1
    <2> QED BY <1>1, <1>2, <2>1 DEF Brought, n
<1>4. 1..position'.statement - 1 = 1..n
    BY <1>1
<1> QED BY <1>1, <1>3, <1>4 DEF Brought

LEMMA ExecutedFits ==
    ASSUME UpgradeTyped, Brought, SchemasFit, Executes PROVE SchemasFit'
<1> DEFINE n == position.statement
<1>1. /\ position.revision \in 1..Newest /\ n \in 1..Len(Script) /\ Len(Script) \in Nat
      /\ Current = Script[n] /\ Current \in Statements /\ AtStatement
      /\ found' = found
      /\ schema' = (schema \ Dropped(Current)) \cup Adds(Current)
      /\ disk' = disk \/ disk'.schema = schema'
      /\ InOrder(Script)
    BY ScriptsAre DEF Executes, AtStatement, Script, Current
<1> HIDE DEF n
<1>2. ColumnsWhole(schema')
    <2> SUFFICES ASSUME NEW w \in Swaps
                 PROVE  w.unless \subseteq schema' \/ w.unless \cap schema' = {}
        BY DEF ColumnsWhole
    <2>1. w.unless \cap Dropped(Current) = {}
        BY <1>1, NothingNeededGoes DEF Swaps
    <2>2. w.unless \subseteq Adds(Current) \/ w.unless \cap Adds(Current) = {}
        BY <1>1, StatementsFit DEF ColumnsWhole
    <2>3. w.unless \subseteq schema \/ w.unless \cap schema = {}
        BY DEF SchemasFit, Fits, ColumnsWhole
    <2> QED BY <1>1, <2>1, <2>2, <2>3
<1>3. Accounted(schema')
    <2> SUFFICES ASSUME NEW s \in Statements, s.kind = "add", s.object \in schema' \ Copies
                 PROVE  s.unless \cap schema' # {}
        BY DEF Accounted
    <2>1. s.unless \cap Dropped(Current) = {}
        BY <1>1, NothingNeededGoes
    <2>2. CASE s.object \in schema
        BY <1>1, <2>1, <2>2 DEF SchemasFit, Fits, Accounted
    <2>3. CASE s.object \in Adds(Current)
        <3>1. \/ s.object \in s.unless
              \/ \E j \in 1..n - 1 : s.unless \cap Leaves(Script[j]) # {}
            <4>1. n \in DOMAIN Script
                BY <1>1, ScriptsAre DEF Script
            <4> QED BY <1>1, <2>3, <4>1 DEF InOrder
        <3>2. CASE s.object \in s.unless
            BY <1>1, <2>3, <3>2
        <3>3. ASSUME NEW j \in 1..n - 1, s.unless \cap Leaves(Script[j]) # {}
              PROVE  s.unless \cap schema' # {}
            <4>1. Leaves(Script[j]) \subseteq schema
                BY DEF Brought, n
            <4> QED BY <1>1, <2>1, <3>3, <4>1
        <3> QED BY <3>1, <3>2, <3>3
    <2> QED BY <1>1, <2>2, <2>3
<1> QED BY <1>1, <1>2, <1>3 DEF SchemasFit, Fits, ColumnsWhole, Accounted

LEMMA ExecutedMade ==
    ASSUME UpgradeTyped, MadeHere, Executes PROVE MadeHere'
<1> DEFINE n == position.statement
<1>1. /\ n \in Nat /\ position'.statement = n + 1 /\ Script' = Script
      /\ Current = Script[n] /\ found' = found
      /\ schema' = (schema \ Dropped(Current)) \cup Adds(Current)
    BY DEF Executes, AtStatement, UpgradeTyped, Current
<1> HIDE DEF n
<1>2. ASSUME NEW o \in schema' \ found PROVE \E k \in 1..n : o \in Adds(Script[k])
    <2>1. CASE o \in Adds(Current)
        <3>1. n \in 1..n
            BY DEF n, UpgradeTyped
        <3> QED BY <1>1, <2>1, <3>1
    <2>2. CASE o \in schema
        <3>1. \E k \in 1..n - 1 : o \in Adds(Script[k])
            BY <1>2, <2>2 DEF MadeHere, n
        <3> QED BY <1>1, <3>1
    <2> QED BY <1>1, <2>1, <2>2
<1>3. 1..position'.statement - 1 = 1..n
    BY <1>1
<1> QED BY <1>1, <1>2, <1>3 DEF MadeHere

LEMMA ExecutedCopies ==
    ASSUME UpgradeTyped, CopiesGo, Executes PROVE CopiesGo'
<1> DEFINE n == position.statement
           Goes(c, k) == /\ Script[k].kind = "swap" /\ c \in Lost(Script[k].object[1])
                         /\ Script[k].unless \cap found = {}
<1>1. /\ position.revision \in 1..Newest /\ n \in 1..Len(Script) /\ Len(Script) \in Nat
      /\ position'.statement = n + 1 /\ Script' = Script
      /\ Current = Script[n] /\ InOrder(Script)
      /\ found' = found /\ crashes' = crashes
      /\ schema' = (schema \ Dropped(Current)) \cup Adds(Current)
      /\ Current.unless \cap found = {}
      /\ disk' = disk \/ (~within /\ disk'.schema = schema' /\ Dropped(Current) = {})
    BY ScriptsAre DEF Executes, AtStatement, Script, Current
<1>2. n \in DOMAIN Script
    BY <1>1, ScriptsAre DEF Script
<1> HIDE DEF n
<1>3. ASSUME NEW c \in Copies \cap schema'
      PROVE  c \in found \/ \E k \in n + 1..Len(Script) : Goes(c, k)
    <2>1. CASE c \in Adds(Current)
        <3>1. PICK j \in n + 1..Len(Script) :
                 /\ Script[j].kind = "swap" /\ c \in Lost(Script[j].object[1])
                 /\ Script[j].unless = Current.unless
            BY <1>1, <1>2, <1>3, <2>1 DEF InOrder
        <3> QED BY <1>1, <3>1
    <2>2. CASE c \notin Adds(Current)
        <3>1. c \in schema /\ c \notin Dropped(Current)
            BY <1>1, <1>3, <2>2
        <3>2. CASE c \in found
            BY <3>2
        <3>3. ASSUME NEW k \in n..Len(Script), Goes(c, k)
              PROVE  \E j \in n + 1..Len(Script) : Goes(c, j)
            <4>1. k # n
                BY <1>1, <3>1, <3>3 DEF Dropped
            <4>2. k \in n + 1..Len(Script)
                BY <1>1, <4>1
            <4> QED BY <3>3, <4>2
        <3> QED BY <1>3, <3>1, <3>2, <3>3 DEF CopiesGo, n
    <2> QED BY <2>1, <2>2
<1>4. found' \cap Copies \subseteq disk'.schema
    <2>1. CASE disk' = disk
        BY <1>1, <2>1 DEF CopiesGo
    <2>2. CASE ~within /\ disk'.schema = schema' /\ Dropped(Current) = {}
        BY <1>1, <2>2 DEF CopiesGo, UpgradeTyped
    <2> QED BY <1>1, <2>1, <2>2
<1> QED BY <1>1, <1>3, <1>4 DEF CopiesGo

LEMMA ExecutedNumbers ==
    ASSUME UpgradeTyped, DaysGetNumbers, Executes PROVE DaysGetNumbers'
<1> DEFINE n == position.statement
<1>1. /\ position.revision \in 1..Newest /\ n \in 1..Len(Script) /\ Len(Script) \in Nat
      /\ position'.statement = n + 1 /\ position'.revision = position.revision
      /\ Script' = Script /\ Current = Script[n] /\ InOrder(Script)
      /\ SequenceNumber \in unfilled' =>
            \/ SequenceNumber \in unfilled /\ ~IsNumbering(Current)
            \/ Current.kind = "add" /\ Current.object = SequenceNumber
      /\ disk' = disk \/ disk'.unfilled = unfilled'
    BY ScriptsAre DEF Executes, AtStatement, Script, Current
<1>2. n \in DOMAIN Script
    BY <1>1, ScriptsAre DEF Script
<1> HIDE DEF n
<1>3. ASSUME SequenceNumber \in unfilled'
      PROVE  \E k \in n + 1..Len(Script) : IsNumbering(Script[k])
    <2>1. CASE SequenceNumber \in unfilled /\ ~IsNumbering(Current)
        <3>1. PICK k \in n..Len(Script) : IsNumbering(Script[k])
            BY <2>1 DEF DaysGetNumbers, n
        <3>2. k # n
            BY <1>1, <2>1, <3>1
        <3>3. k \in n + 1..Len(Script)
            BY <1>1, <3>2
        <3> QED BY <3>1, <3>3
    <2>2. CASE Current.kind = "add" /\ Current.object = SequenceNumber
        BY <1>1, <1>2, <2>2 DEF InOrder, SequenceNumber, IsNumbering
    <2> QED BY <1>1, <1>3, <2>1, <2>2
<1>4. SequenceNumber \in disk'.unfilled => \E k \in 1..Len(Script) : IsNumbering(Script[k])
    <2>1. CASE disk' = disk
        BY <2>1 DEF DaysGetNumbers
    <2>2. CASE disk'.unfilled = unfilled'
        <3>1. n + 1..Len(Script) \subseteq 1..Len(Script)
            BY <1>1
        <3> QED BY <1>3, <2>2, <3>1
    <2> QED BY <1>1, <2>1, <2>2
<1>5. position'.revision <= Newest
    BY <1>1, ScriptsAre
<1> QED BY <1>1, <1>3, <1>4, <1>5 DEF DaysGetNumbers

LEMMA ExecutedTyped ==
    ASSUME UpgradeTyped, Executes PROVE UpgradeTyped'
<1>1. /\ position.statement \in 1..Len(Script) /\ Len(Script) \in Nat
      /\ position' \in [revision : 1..Newest + 1, statement : Nat \ {0}]
      /\ position'.revision = position.revision
      /\ position'.statement = position.statement + 1 /\ Script' = Script
      /\ UNCHANGED <<stopped, crashes>> /\ within' \in BOOLEAN
    BY ScriptsAre DEF Executes, AtStatement, Script
<1>2. disk' \in [schema : {disk'.schema}, unfilled : {disk'.unfilled},
                revision : {position'.revision - 1}]
    BY <1>1 DEF Executes, UpgradeTyped
<1>3. ~within' => schema' = disk'.schema /\ unfilled' = disk'.unfilled
    BY DEF Executes
<1> QED BY <1>1, <1>2, <1>3 DEF UpgradeTyped

LEMMA StatementsSafe ==
    ASSUME UpgradeInvariant, Executes PROVE UpgradeInvariant'
<1>1. /\ UpgradeTyped /\ Brought /\ SchemasFit /\ MadeHere /\ CopiesGo /\ DaysGetNumbers
    BY DEF UpgradeInvariant
<1>2. StopsAtCopy'
    BY DEF Executes, AtStatement, StopsAtCopy
<1> QED BY <1>1, <1>2, ExecutedTyped, ExecutedBrought, ExecutedFits, ExecutedMade,
           ExecutedCopies, ExecutedNumbers DEF UpgradeInvariant

LEMMA LeavingOutSafe ==
    ASSUME UpgradeInvariant, LeavesOut PROVE UpgradeInvariant'
<1> DEFINE n == position.statement
<1>1. /\ UpgradeTyped /\ Brought /\ SchemasFit /\ MadeHere /\ CopiesGo /\ DaysGetNumbers
    BY DEF UpgradeInvariant
<1>2. /\ n \in 1..Len(Script) /\ Len(Script) \in Nat
      /\ position' \in [revision : 1..Newest + 1, statement : Nat \ {0}]
      /\ position'.revision = position.revision /\ position'.statement = n + 1
      /\ Script' = Script /\ Current = Script[n] /\ ~stopped
      /\ UNCHANGED <<found, schema, disk, unfilled, within, stopped, crashes>>
      /\ Current.unless \cap found # {}
    BY ScriptsAre DEF LeavesOut, AtStatement, Script, Current
<1>3. UpgradeTyped'
    BY <1>1, <1>2 DEF UpgradeTyped
<1>4. SchemasFit'
    BY <1>1, <1>2 DEF SchemasFit, Fits, ColumnsWhole, Accounted
<1>5. MadeHere'
    <2>1. 1..n - 1 \subseteq 1..position'.statement - 1
        BY <1>2
    <2> QED BY <1>1, <1>2, <2>1 DEF MadeHere
<1>6. CopiesGo'
    <2>1. ASSUME NEW k \in n..Len(Script), Script[k].unless \cap found = {}
          PROVE  k \in n + 1..Len(Script)
        <3>1. k # n
            BY <1>2, <2>1
        <3> QED BY <1>2, <3>1
    <2> QED BY <1>1, <1>2, <2>1 DEF CopiesGo
<1>7. DaysGetNumbers'
    <2>1. ASSUME NEW k \in n..Len(Script), IsNumbering(Script[k])
          PROVE  k \in n + 1..Len(Script)
        <3>1. k # n
            BY <1>2, <2>1, NumberingIs
        <3> QED BY <1>2, <3>1
    <2> QED BY <1>1, <1>2, <2>1 DEF DaysGetNumbers
<1>8. StopsAtCopy'
    BY <1>2 DEF StopsAtCopy
<1> QED BY <1>1, <1>3, <1>4, <1>5, <1>6, <1>7, <1>8, LeftOutBrought DEF UpgradeInvariant

LEMMA RevisionsSafe ==
    ASSUME UpgradeInvariant, EndRevision PROVE UpgradeInvariant'
<1> DEFINE r == position.revision
           n == position.statement
<1>1. /\ UpgradeTyped /\ Brought /\ SchemasFit /\ MadeHere /\ CopiesGo /\ DaysGetNumbers
    BY DEF UpgradeInvariant
<1>2. /\ r \in 1..Newest /\ Len(Script) \in Nat /\ n > Len(Script) /\ n \in Nat
      /\ ~stopped
    <2>1. r \in 1..Newest + 1 /\ n \in Nat /\ disk.revision = r - 1 /\ disk.revision # Newest
        BY <1>1 DEF UpgradeTyped, EndRevision, Running, AtHead
    <2>2. r \in 1..Newest
        BY <2>1, ScriptsAre
    <2> QED BY <2>1, <2>2, ScriptsAre DEF EndRevision, Running, Script
<1>3. /\ position'.revision = r + 1 /\ position'.statement = 1
      /\ position' \in [revision : 1..Newest + 1, statement : Nat \ {0}]
      /\ disk'.schema = schema /\ disk'.unfilled = unfilled /\ disk'.revision = r
      /\ disk' \in [schema : {disk'.schema}, unfilled : {disk'.unfilled}, revision : {r}]
      /\ within' = FALSE /\ found' = schema
      /\ UNCHANGED <<schema, unfilled, stopped, crashes>>
    BY <1>2, ScriptsAre DEF EndRevision
<1> HIDE DEF r, n
<1>4. UpgradeTyped'
    <2>1. position'.revision <= Newest => position'.statement <= Len(Script') + 1
        BY <1>2, <1>3, ScriptsAre DEF Script
    <2>2. disk' \in [schema : {disk'.schema}, unfilled : {disk'.unfilled},
                    revision : {position'.revision - 1}]
        BY <1>2, <1>3
    <2>3. within' \in BOOLEAN /\ stopped' \in BOOLEAN /\ crashes' \in Nat
        BY <1>1, <1>3 DEF UpgradeTyped
    <2> QED BY <1>3, <2>1, <2>2, <2>3 DEF UpgradeTyped
<1>5. Brings(r) \subseteq schema
    <2>1. \A k \in DOMAIN Revisions[r] : Leaves(Revisions[r][k]) \subseteq schema
        <3>1. DOMAIN Script \subseteq 1..n - 1
            BY <1>2, ScriptsAre DEF Script, r
        <3> QED BY <1>1, <3>1 DEF Brought, Script, r, n
    <2>2. CASE r = 1
        BY <2>1, <2>2, StatementsFit DEF Brings
    <2>3. CASE r # 1
        BY <2>1, <2>3 DEF Brings
    <2> QED BY <2>2, <2>3
<1>6. Brought'
    <2>1. ASSUME NEW i \in 1..r PROVE Brings(i) \subseteq schema
        <3>1. i = r \/ i \in 1..r - 1
            BY <1>2
        <3> QED BY <1>1, <1>5, <3>1 DEF Brought, r
    <2>2. 1..position'.revision - 1 = 1..r /\ 1..position'.statement - 1 = {}
        BY <1>2, <1>3
    <2> QED BY <1>3, <2>1, <2>2 DEF Brought
<1>7. SchemasFit'
    BY <1>1, <1>3 DEF SchemasFit, Fits, ColumnsWhole, Accounted
<1>8. MadeHere'
    BY <1>3 DEF MadeHere
<1>9. CopiesGo'
    <2>1. n..Len(Script) = {}
        BY <1>2
    <2>2. Copies \cap schema \subseteq found
        BY <1>1, <2>1 DEF CopiesGo, n
    <2> QED BY <1>1, <1>3, <2>2 DEF CopiesGo
<1>10. DaysGetNumbers'
    <2>1. n..Len(Script) = {}
        BY <1>2
    <2>2. SequenceNumber \notin unfilled
        BY <1>1, <2>1 DEF DaysGetNumbers, n
    <2> QED BY <1>3, <2>2 DEF DaysGetNumbers
<1>11. StopsAtCopy'
    BY <1>2, <1>3 DEF StopsAtCopy
<1> QED BY <1>4, <1>6, <1>7, <1>8, <1>9, <1>10, <1>11 DEF UpgradeInvariant

LEMMA CrashesSafe ==
    ASSUME UpgradeInvariant, CrashUpgrade PROVE UpgradeInvariant'
<1>1. /\ UpgradeTyped /\ Brought /\ SchemasFit /\ MadeHere /\ CopiesGo /\ DaysGetNumbers
    BY DEF UpgradeInvariant
<1>2. /\ position.revision \in 1..Newest /\ Len(Script) \in Nat
      /\ disk.revision = position.revision - 1 /\ ~stopped
    <2>1. /\ position.revision \in 1..Newest + 1 /\ disk.revision = position.revision - 1
          /\ disk.revision # Newest /\ ~stopped
        BY <1>1 DEF UpgradeTyped, CrashUpgrade, Running, AtHead
    <2>2. position.revision \in 1..Newest
        BY <2>1, ScriptsAre
    <2> QED BY <2>1, <2>2, ScriptsAre DEF Script
<1>3. /\ position' \in [revision : 1..Newest + 1, statement : Nat \ {0}]
      /\ position'.revision = position.revision /\ position'.statement = 1
      /\ schema' = disk.schema /\ unfilled' = disk.unfilled /\ found' = disk.schema
      /\ within' = FALSE /\ crashes' = crashes + 1 /\ UNCHANGED <<disk, stopped>>
    BY <1>2, ScriptsAre DEF CrashUpgrade, StartFrom
<1>4. Script' = Script
    BY <1>3 DEF Script
<1>5. UpgradeTyped'
    <2>1. position'.revision <= Newest => position'.statement <= Len(Script') + 1
        BY <1>2, <1>3, <1>4
    <2>2. disk' \in [schema : {disk'.schema}, unfilled : {disk'.unfilled},
                    revision : {position'.revision - 1}]
        BY <1>1, <1>3 DEF UpgradeTyped
    <2>3. within' \in BOOLEAN /\ stopped' \in BOOLEAN
        BY <1>1, <1>3 DEF UpgradeTyped
    <2>4. crashes' \in Nat
        BY <1>1, <1>3 DEF UpgradeTyped
    <2> QED BY <1>3, <2>1, <2>2, <2>3, <2>4 DEF UpgradeTyped
<1>6. Brought'
    BY <1>1, <1>3 DEF Brought
<1>7. SchemasFit'
    BY <1>1, <1>3 DEF SchemasFit, Fits, ColumnsWhole, Accounted
<1>8. MadeHere' /\ CopiesGo'
    BY <1>1, <1>3 DEF MadeHere, CopiesGo, UpgradeTyped
<1>9. DaysGetNumbers'
    BY <1>1, <1>3, <1>4 DEF DaysGetNumbers
<1>10. StopsAtCopy'
    BY <1>2, <1>3 DEF StopsAtCopy
<1> QED BY <1>5, <1>6, <1>7, <1>8, <1>9, <1>10 DEF UpgradeInvariant

\* Only a copy that an earlier attempt has left stops an upgrade.
LEMMA FailuresSafe ==
    ASSUME UpgradeInvariant, Fail PROVE UpgradeInvariant'
<1> DEFINE n == position.statement
<1>1. /\ UpgradeTyped /\ Brought /\ SchemasFit /\ MadeHere /\ CopiesGo /\ DaysGetNumbers
    BY DEF UpgradeInvariant
<1>2. /\ position.revision \in 1..Newest /\ n \in 1..Len(Script) /\ InOrder(Script)
      /\ Current = Script[n] /\ Current \in Statements /\ n \in DOMAIN Script
    <2>1. /\ position.revision \in 1..Newest + 1 /\ n \in Nat \ {0} /\ n <= Len(Script)
          /\ disk.revision = position.revision - 1 /\ disk.revision # Newest
        BY <1>1 DEF UpgradeTyped, Fail, StatementNext, Running, AtHead
    <2>2. position.revision \in 1..Newest
        BY <2>1, ScriptsAre
    <2>3. n \in 1..Len(Script)
        BY <2>1, <2>2, ScriptsAre DEF Script
    <2> QED BY <2>2, <2>3, ScriptsAre DEF Script, Current
<1>3. /\ Current.kind = "add" /\ Current.object \in schema /\ Current.unless \cap found = {}
      /\ stopped' = TRUE
      /\ UNCHANGED <<schema, unfilled, disk, within, position, found, crashes>>
    BY DEF Fail
<1> HIDE DEF n
<1>4. Current.object \in found
    <2>1. \A k \in 1..n - 1 : Current.object \notin Adds(Script[k])
        BY <1>2, <1>3 DEF InOrder
    <2> QED BY <1>1, <1>3, <2>1 DEF MadeHere, n
<1>5. Current.object \in Copies
    BY <1>1, <1>2, <1>3, <1>4 DEF SchemasFit, Fits, Accounted
<1>6. StopsAtCopy'
    BY <1>1, <1>3, <1>4, <1>5 DEF CopiesGo, StopsAtCopy, Copies, UpgradeTyped
<1>7. Script' = Script
    BY <1>3 DEF Script
<1>8. UpgradeTyped' /\ Brought'
    BY <1>1, <1>3, <1>7 DEF UpgradeTyped, Brought
<1>9. SchemasFit' /\ MadeHere'
    BY <1>1, <1>3, <1>7 DEF SchemasFit, Fits, ColumnsWhole, Accounted, MadeHere
<1>10. CopiesGo' /\ DaysGetNumbers'
    BY <1>1, <1>3, <1>7 DEF CopiesGo, DaysGetNumbers
<1> QED BY <1>6, <1>8, <1>9, <1>10 DEF UpgradeInvariant

LEMMA UpgradeStep ==
    ASSUME UpgradeInvariant, [MigrationsNext]_migrationVars PROVE UpgradeInvariant'
<1>1. UpgradeTyped
    BY DEF UpgradeInvariant
<1>2. CASE UNCHANGED migrationVars
    <2>1. UNCHANGED <<schema, unfilled, disk, within, position, found, stopped, crashes>>
        BY <1>2 DEF migrationVars
    <2>2. Script' = Script
        BY <2>1 DEF Script
    <2>3. UpgradeTyped' /\ Brought' /\ SchemasFit'
        BY <2>1, <2>2 DEF UpgradeInvariant, UpgradeTyped, Brought, SchemasFit, Fits,
                          ColumnsWhole, Accounted
    <2>4. MadeHere' /\ CopiesGo' /\ DaysGetNumbers' /\ StopsAtCopy'
        BY <2>1, <2>2 DEF UpgradeInvariant, MadeHere, CopiesGo, DaysGetNumbers, StopsAtCopy
    <2> QED BY <2>3, <2>4 DEF UpgradeInvariant
<1>3. CASE AddObject \/ CreateWhole \/ EnsureTriggers \/ FillRows \/ SwapTable
    BY <1>1, <1>3, StatementsExecute, StatementsSafe
<1>4. CASE Skip
    BY <1>1, <1>4, StatementsLeftOut, LeavingOutSafe
<1> QED BY <1>2, <1>3, <1>4, RevisionsSafe, CrashesSafe, FailuresSafe DEF MigrationsNext

LEMMA UpgradeStart == MigrationsInit => UpgradeInvariant
<1> SUFFICES ASSUME MigrationsInit PROVE UpgradeInvariant
    OBVIOUS
<1>1. \/ disk = Installation({}, 0) \/ disk = Installation(CoreSchema, 0)
      \/ disk = Installation(CoreSchema, 1)
    BY DEF MigrationsInit, Installations
<1>2. /\ disk.schema \in {{}, CoreSchema} /\ disk.unfilled = {} /\ disk.revision \in 0..1
      /\ disk.revision = 1 => disk.schema = CoreSchema
      /\ disk \in [schema : {disk.schema}, unfilled : {disk.unfilled},
                   revision : {disk.revision}]
    BY <1>1 DEF Installation
<1>3. /\ schema = disk.schema /\ unfilled = {} /\ within = FALSE /\ found = disk.schema
      /\ position.revision = disk.revision + 1 /\ position.statement = 1
      /\ position \in [revision : 1..Newest + 1, statement : Nat \ {0}]
      /\ stopped = FALSE /\ crashes = 0
    BY <1>2, ScriptsAre DEF MigrationsInit
<1>4. UpgradeTyped
    <2>1. position.revision <= Newest => position.statement <= Len(Script) + 1
        BY <1>2, <1>3, ScriptsAre DEF Script
    <2>2. disk \in [schema : {disk.schema}, unfilled : {disk.unfilled},
                   revision : {position.revision - 1}]
        BY <1>2, <1>3
    <2>3. within \in BOOLEAN /\ stopped \in BOOLEAN /\ crashes \in Nat
        BY <1>3
    <2> QED BY <1>2, <1>3, <2>1, <2>2, <2>3 DEF UpgradeTyped
<1>5. Brought
    <2>1. 1..position.statement - 1 = {}
        BY <1>3
    <2>2. ASSUME NEW i \in 1..position.revision - 1 PROVE Brings(i) \subseteq disk.schema
        <3>1. i = 1 /\ disk.schema = CoreSchema
            BY <1>2, <1>3, <2>2
        <3> QED BY <3>1 DEF Brings, CoreSchema
    <2> QED BY <1>3, <2>1, <2>2 DEF Brought
<1>6. SchemasFit
    <2>1. Fits({}) /\ Fits(CoreSchema)
        BY CoreIsOld DEF Fits, ColumnsWhole, Accounted
    <2> QED BY <1>2, <1>3, <2>1 DEF SchemasFit
<1>7. MadeHere
    BY <1>3 DEF MadeHere
<1>8. CopiesGo
    BY <1>2, <1>3, CoreIsOld DEF CopiesGo
<1>9. DaysGetNumbers /\ StopsAtCopy
    BY <1>2, <1>3 DEF DaysGetNumbers, StopsAtCopy
<1> QED BY <1>4, <1>5, <1>6, <1>7, <1>8, <1>9 DEF UpgradeInvariant

\* However often an upgrade is interrupted, and wherever, the database that reaches the
\* newest revision has all that the application declares and its sessions are numbered, and
\* nothing stops an upgrade but the copy of a table that a crash left behind.
THEOREM UpgradesAreComplete == MigrationsSpec => []UpgradesSurviveCrashes
<1>1. UpgradeInvariant => UpgradesSurviveCrashes
    <2> SUFFICES ASSUME UpgradeInvariant PROVE UpgradesSurviveCrashes
        OBVIOUS
    <2>1. ASSUME AtHead
          PROVE  /\ \A i \in DOMAIN Tables :
                       Shape(Tables[i]) \ disk.schema \subseteq {Indexes(Tables[i])}
                 /\ SequenceNumber \notin disk.unfilled
        <3>1. position.revision - 1 = Newest /\ position.revision \in Int /\ Newest \in Nat
            BY <2>1, ScriptsAre DEF UpgradeInvariant, UpgradeTyped, AtHead
        <3>2. \A r \in 1..Newest : Brings(r) \subseteq disk.schema
            BY <3>1 DEF UpgradeInvariant, Brought
        <3>3. ASSUME NEW i \in DOMAIN Tables
              PROVE  Shape(Tables[i]) \ disk.schema \subseteq {Indexes(Tables[i])}
            BY <3>2, StatementsFit
        <3>4. SequenceNumber \notin disk.unfilled
            BY <3>1 DEF UpgradeInvariant, DaysGetNumbers
        <3> QED BY <3>3, <3>4
    <2> QED BY <2>1 DEF UpgradesSurviveCrashes, UpgradeInvariant, StopsAtCopy, SequenceNumber
<1> QED BY <1>1, UpgradeStart, UpgradeStep, PTL DEF MigrationsSpec
===============================================================================
