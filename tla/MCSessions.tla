----------------------------- MODULE MCSessions -----------------------------
(* Small instances of Sessions for TLC.                                      *)
EXTENDS Sessions, TLC

CONSTANTS r1, r2, amal, badr, present, absent, k1, k2

\* On day 1 everybody is expected; on day 2 everybody is excused in advance.
MCAutoStatus == [d \in Dates |-> [st \in Students |->
                    IF d = 1 THEN absent ELSE present]]

\* A session is moved to day 2 before anything else is done with it, and little
\* after.
MovedFirst ==
    /\ \A r \in Requests : request[r].call # None =>
          /\ request[r].call.endpoint = "create" => request[r].call.date = 1
          /\ request[r].call.endpoint = "update" /\ request[r].row # None =>
                request[r].row.version = 0 /\ request[r].call.date = 2
    /\ \A s \in SessionIds : session[s] # None /\ session[s].date = 2 =>
          session[s].version <= 1 \/ session[s].confirmed

MCSymmetry == Permutations(Requests)
=============================================================================
