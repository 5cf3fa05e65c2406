---------------------------- MODULE MCSessionEdits ----------------------------
(* Small instances of SessionEdits for TLC.                                  *)
EXTENDS SessionEdits, TLC

CONSTANTS r1, r2, amal, badr, present, absent, k1

MCAutoStatus == [d \in Dates |-> [st \in Students |-> absent]]

\* With a second session or a second day, sessions are only created and moved.
DaysApart ==
    LET calls == {request[r].call : r \in Requests} \ {None}
        dated == {c \in calls : c.endpoint \in {"create", "update"}}
    IN \/ \E s \in SessionIds : session[s] # None /\ (s # 1 \/ session[s].date # 1)
       \/ \E c \in dated : c.date # 1
       => /\ \A c \in calls : c.endpoint \in {"create", "update"}
          /\ \A k \in Keys : receipt[k] = None
          /\ \A s \in SessionIds : progress[s] = {}

MCSymmetry == Permutations(Requests)
=============================================================================
