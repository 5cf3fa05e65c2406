------------------------------- MODULE MCTrips -------------------------------
(* Small instances of Trips for TLC.                                         *)
EXTENDS Trips, TLC

CONSTANTS o1, o2, zoo, sea, ali, badr, carim, bus, car, amal

MCSymmetry == Permutations(Organizers) \cup Permutations(Trips)
                 \cup Permutations(People) \cup Permutations(Groups)
=============================================================================
