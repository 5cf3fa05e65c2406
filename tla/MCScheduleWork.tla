---------------------------- MODULE MCScheduleWork ----------------------------
(***************************************************************************)
(* Schedules for TLC in two workloads: "days", the sessions of one schedule    *)
(* are generated by two tasks, worked with and skipped; and "rosters", two      *)
(* administrators edit a schedule while the setting and the students change.    *)
(***************************************************************************)
EXTENDS MCSchedules

VARIABLE workload

Days == INSTANCE Schedules WITH
            Students <- {}, Bodies <- MCEveryDay, MaxVersion <- 2,
            Endpoints <- {"create", "skip", "batch", "progress", "archive",
                          "move", "delete"}
Rosters == INSTANCE Schedules WITH
            Bodies <- MCBodies, MaxManual <- 0, MaxRestarts <- 0,
            Endpoints <- {"update", "skip", "settings", "students", "confirm"}

WorkInit ==
    /\ workload \in {"days", "rosters"}
    /\ Init
    /\ workload = "days" => enrolled = {} /\ category = {}

OnlyTheFirst == page'[a2] = None /\ setting'[a2] = None
OneTask == tick'[w2] = {} /\ session'[s2] = None
WorkNext ==
    \/ workload = "days" /\ Days!Next /\ OnlyTheFirst /\ InOrder(s1, s2) /\ UNCHANGED workload
    \/ workload = "rosters" /\ Rosters!Next /\ OneTask /\ UNCHANGED workload
WorkSymmetry == Permutations(Workers)
WorkSpec == WorkInit /\ [][WorkNext]_<<vars, workload>>
===============================================================================
