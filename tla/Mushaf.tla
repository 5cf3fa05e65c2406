-------------------------------- MODULE Mushaf --------------------------------
(***************************************************************************)
(* quran_data.py: where a portion of the Quran ends. An ayah is its number in  *)
(* the whole book (global_offset); the book is given by its surahs' lengths,   *)
(* the last ayah of each printed line, and the ayah each quarter starts with.   *)
(***************************************************************************)
EXTENDS Rows, Integers, Sequences, FiniteSets

CONSTANTS SurahAyahs,     \* SURAH_AYAH_COUNTS
          LineEnds,       \* _LINE_END_OFFSETS
          QuarterStarts,  \* _QUARTER_OFFSETS
          LinesInHalf,    \* lines of a half_page: 8
          QuartersInHizb, \* 4
          MaxAmount       \* bounds increment_amount

ASSUME MushafAssumption == SurahAyahs \in Seq(Nat \ {0}) /\ SurahAyahs # <<>>

SurahFirst[s \in 1..Len(SurahAyahs) + 1] ==
    IF s = 1 THEN 1 ELSE SurahFirst[s - 1] + SurahAyahs[s - 1]
LastAyah == SurahFirst[Len(SurahAyahs) + 1] - 1
Ayahs == 1..LastAyah

\* Lines and quarters are listed in the order of the book, from its first ayah to its last;
\* more than one line may end in an ayah, and one quarter at the most begins with one.
ASSUME LinesAssumption ==
    /\ LineEnds \in Seq(Ayahs) /\ LineEnds # <<>> /\ LineEnds[Len(LineEnds)] = LastAyah
    /\ \A i, j \in DOMAIN LineEnds : i <= j => LineEnds[i] <= LineEnds[j]
    /\ LinesInHalf \in Nat \ {0}
ASSUME QuartersAssumption ==
    /\ QuarterStarts \in Seq(Ayahs) /\ QuarterStarts # <<>> /\ QuarterStarts[1] = 1
    /\ \A i, j \in DOMAIN QuarterStarts : i < j => QuarterStarts[i] < QuarterStarts[j]
    /\ QuartersInHizb \in Nat \ {0}

Lesser(x, y) == IF x < y THEN x ELSE y
Ceil(x, y) == (x + y - 1) \div y

\* bisect_left and bisect_right on a sorted sequence, counted from 0.
BisectLeft(seq, x) == Cardinality({i \in DOMAIN seq : seq[i] < x})
BisectRight(seq, x) == Cardinality({i \in DOMAIN seq : seq[i] <= x})

SurahOf(a) == Cardinality({s \in DOMAIN SurahAyahs : SurahFirst[s] <= a})
SurahEnd(a) == SurahFirst[SurahOf(a) + 1] - 1
InSurah(a) == a - SurahFirst[SurahOf(a)] + 1
LineOf(a) == BisectLeft(LineEnds, a)
QuarterOf(a) == BisectRight(QuarterStarts, a) - 1

-----------------------------------------------------------------------------
(* Forward.                                                                  *)

NextAyah(a) == Lesser(a + 1, LastAyah)
AyahsToEnd(a, n) == Lesser(a + n - 1, LastAyah)
LinesToEnd(a, n) == LineEnds[Lesser(LineOf(a) + n, Len(LineEnds))]

-----------------------------------------------------------------------------
(* Backward: down through the surahs, and forward within each.                *)

NextReverseAyah(a) == IF a < SurahEnd(a) THEN a + 1
                      ELSE IF SurahOf(a) > 1 THEN SurahFirst[SurahOf(a) - 1]
                      ELSE None

LineUnits == {"lines", "half_page"}
QuarterUnits == {"quarter", "hizb", "juz"}
ReverseUnits == {"ayahs"} \cup LineUnits \cup QuarterUnits
Size(unit) == CASE unit = "half_page" -> LinesInHalf
                [] unit = "hizb" -> QuartersInHizb
                [] unit = "juz" -> 2 * QuartersInHizb
                [] OTHER -> 1

\* How far n units reach from an ayah, whatever the surah.
UncappedEnd(a, n, unit) ==
    CASE unit = "ayahs" -> AyahsToEnd(a, n)
      [] unit \in LineUnits -> LinesToEnd(a, n * Size(unit))
      [] unit \in QuarterUnits ->
            LET boundary == BisectRight(QuarterStarts, a) + n * Size(unit)
            IN IF boundary <= Len(QuarterStarts) THEN QuarterStarts[boundary] - 1 ELSE LastAyah
SegmentEnd(a, n, unit) == Lesser(UncappedEnd(a, n, unit), SurahEnd(a))

\* What a stretch within a surah counts as: a part of a unit is a whole one.
Parts(a, e, unit) == CASE unit = "ayahs" -> e - a + 1
                       [] unit \in LineUnits -> LineOf(e) - LineOf(a) + 1
                       [] unit \in QuarterUnits -> QuarterOf(e) - QuarterOf(a) + 1
RoundedDown(parts, unit) == parts \div Size(unit)
Rounded(parts, unit) == Ceil(parts, Size(unit))
Used(a, e, unit) == Rounded(Parts(a, e, unit), unit)

\* The end of a portion of n units from an ayah, by what remains of it segment by segment.
ReverseToEnd(a, n, unit) ==
    LET To[left \in 1..n] == [from \in Ayahs |->
            LET e == SegmentEnd(from, left, unit)
                remaining == left - Used(from, e, unit)
            IN IF remaining <= 0 \/ e = SurahEnd(1) THEN e
               ELSE To[remaining][NextReverseAyah(e)]]
    IN To[n][a]

-----------------------------------------------------------------------------
(* Properties of a portion: n units backward from an ayah.                     *)

\* The place of an ayah in the backward order.
Reads(a, b) == SurahOf(a) > SurahOf(b) \/ (SurahOf(a) = SurahOf(b) /\ a <= b)

\* What the ayahs from a to e count as, surah by surah.
Counted(a, e, unit) == Ceil(Parts(a, e, unit), Size(unit))
Cost(a, e, unit) ==
    LET From[x \in Ayahs] ==
            IF SurahOf(x) <= SurahOf(e) THEN Counted(x, e, unit)
            ELSE Counted(x, SurahEnd(x), unit) + From[SurahFirst[SurahOf(x) - 1]]
    IN From[a]

\* The portion from a to e is not cut short: with the next ayah it would count as more than
\* n units, unless nothing comes next. In ayahs, quarters, hizbs and juzs it does not count as
\* more than n either. In lines and half pages it may: an ayah printed over several lines is
\* counted as one when the portion goes on behind it, however many lines it fills.
PortionIsWhole(a, e, n, unit) ==
    /\ e \in Ayahs /\ Reads(a, e)
    /\ NextReverseAyah(e) # None => Cost(a, NextReverseAyah(e), unit) > n
    /\ unit \notin LineUnits => Cost(a, e, unit) <= n
=============================================================================
