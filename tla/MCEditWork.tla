------------------------------ MODULE MCEditWork ------------------------------
(***************************************************************************)
(* SessionEdits for TLC in two workloads: one request after the other, with   *)
(* every endpoint, on the session of a day of a center that has several a day; *)
(* and two requests that overlap while a session is created, moved to another   *)
(* day, saved and deleted.                                                      *)
(***************************************************************************)
EXTENDS MCSessionEdits

VARIABLE workload

workVars == <<editVars, workload>>

Serial == INSTANCE SessionEdits WITH
    Requests <- {r1}, MultipleSessions <- TRUE, MaxVersion <- 3,
    Endpoints <- {"create", "update", "batch", "confirm", "reopen", "archive", "recover",
                  "patch", "upsert", "membership", "tracking", "progress", "delete"}

\* One after the other: one session, on the first day.
OneSession ==
    /\ session[2] = None
    /\ LET c == request[r1].call IN
       c # None => /\ c.endpoint \in {"create", "update"} => c.date = 1
                   /\ c.endpoint # "create" => c.session = 1

\* Overlapping: one student and one status.
Calls == {request[r].call : r \in Requests} \ {None}
OneStudent ==
    /\ badr \notin active
    /\ \A c \in Calls :
          /\ c.endpoint = "batch" => c.updates = [st \in {amal} |-> absent]
          /\ c.endpoint \in {"patch", "upsert"} => c.student = amal /\ c.status = absent
          /\ c.endpoint = "progress" => c.saved \cup c.cleared \subseteq {amal}
WorkBounds ==
    /\ workload = "serial" => OneSession
    /\ workload = "overlapping" => OneStudent /\ DaysApart

WorkInit ==
    \/ workload = "serial" /\ Serial!EditsInit
    \/ workload = "overlapping" /\ EditsInit
WorkNext ==
    \/ workload = "serial" /\ Serial!EditsNext /\ UNCHANGED workload
    \/ workload = "overlapping" /\ EditsNext /\ UNCHANGED workload
WorkSpec == WorkInit /\ [][WorkNext]_workVars
===============================================================================
