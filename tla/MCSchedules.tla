----------------------------- MODULE MCSchedules -----------------------------
(* Small instances of Schedules for TLC: a week has two days and the sessions *)
(* of today and tomorrow are prepared.                                       *)
EXTENDS Schedules, TLC

CONSTANTS w1, w2, a1, a2, amal, badr, s1, s2, s3, s4

MCBody(weekdays, mode, members, active) ==
    [weekdays |-> weekdays, start |-> 1, end |-> None, mode |-> mode,
     members |-> members, active |-> active]

\* Every other day, for everybody or for a category of students; and paused.
MCBodies == {MCBody({1}, "all", {}, TRUE), MCBody({1}, "categories", {}, TRUE),
             MCBody({1}, "all", {}, FALSE)}

\* Every day for everybody; the students do not matter.
MCEveryDay == {MCBody({0, 1}, "all", {}, TRUE)}

\* On the second day, for one student or for everybody.
MCOneDay == {MCBody({0}, "students", {amal}, TRUE), MCBody({0}, "all", {}, TRUE)}

\* Nothing refers to an id that is free, so which one a new session takes makes no
\* difference: the first. (TLC uses no symmetry for a liveness property.)
InOrder(older, newer) ==
    {older, newer} \subseteq SessionIds
    /\ session[older] = None /\ session[newer] = None /\ session'[newer] # None
    => session'[older] # None
FirstFree == InOrder(s1, s2) /\ InOrder(s2, s3) /\ InOrder(s1, s3)
TicksSpec == Init /\ [][Next /\ FirstFree]_vars /\ Fairness
=============================================================================
