---------------------------- MODULE MCMobileSync ----------------------------
(* Small instances of MobileSync for TLC.                                     *)
EXTENDS MobileSync

CONSTANTS d1, d2, sami, tariq, amal, m1, m2, m3, a1, a2

\* The device belongs to a sheikh who only sees his own students.
MCScope == [d \in Devices |-> IF d = d1 THEN sami ELSE None]
MCOwner == [m \in Mutations |-> IF m = m3 THEN d2 ELSE d1]
MCTarget == [m \in Mutations |->
                [kind |-> IF m = m2 THEN "progress" ELSE "attendance", student |-> amal]]

\* "replica": everything is written while the device reads. "mutations": the
\* device also sends, but does not read meanwhile; the others only delete the
\* session, confirm it and switch tracking.
VARIABLE workload
MCInit == Init /\ \/ workload = "replica"
                  \/ workload = "mutations" /\ assigned[amal] = sami

AtRest == \A a \in Attempts : attempt[a] = None
Read(d) == (workload = "mutations" => AtRest) /\ Poll(d)
Begun == \A d \in Devices : device[d].phase = "idle"
SecondSlotSecond == attempt'[a2] # None /\ attempt[a2] = None => attempt[a1] # None
Sent == \/ \E d \in Devices : StartBootstrap(d) /\ device[d].resets = 0
        \/ Begun /\ (Delete(TheSession) \/ SwitchSession)
        \/ Mutate /\ SecondSlotSecond
MCNext == \/ \E d \in Devices : Read(d) /\ UNCHANGED workload
          \/ workload = "replica" /\ (Synchronize \/ Application) /\ UNCHANGED workload
          \/ workload = "mutations" /\ Sent /\ UNCHANGED workload
MCSpec == /\ MCInit /\ [][MCNext]_<<vars, workload>>
          /\ \A d \in Devices : WF_<<vars, workload>>(Read(d) /\ UNCHANGED workload)

\* A device that reads while nothing is sent comes up with the log.
ReplicaCatchesUp == workload = "replica" => CatchesUp
=============================================================================
