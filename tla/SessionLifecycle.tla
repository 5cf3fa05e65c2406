-------------------------- MODULE SessionLifecycle --------------------------
(***************************************************************************)
(* What the session endpoints promise, without requests or interleavings:  *)
(* a session is a versioned document (its row and its attendance rows).     *)
(* Every accepted change advances the version by exactly one; attendance   *)
(* and date can change only while the session is open (neither confirmed    *)
(* nor archived); a confirmation may complete the roster but never touches  *)
(* a row that was already recorded; reopening and archiving touch no row.   *)
(***************************************************************************)
EXTENDS Naturals

CONSTANTS SessionIds,   \* primary keys of the sessions table
          Dates,        \* calendar days
          Students,     \* students of the center
          RowSets,      \* what a session's rows can be: student -> row, or None
          None          \* no such session, no such row

VARIABLES session,      \* the sessions table: id -> row, or None
          attendance    \* the attendance rows of each session

lifecycleVars == <<session, attendance>>

\* A row that endpoints which edit the content of a session accept.
Open(row) == ~row.confirmed /\ ~row.archived

Init == /\ session = [s \in SessionIds |-> None]
        /\ attendance = [s \in SessionIds |-> [st \in Students |-> None]]

\* A row as create_session inserts it.
NewRow == [date : Dates, sequence : Nat, confirmed : {FALSE},
           archived : {FALSE}, explicit : BOOLEAN, tracked : BOOLEAN,
           version : {0}]

\* The attendance rows of s become some other set of rows; no other session's do.
Rerecord(s) == /\ attendance'[s] \in RowSets
               /\ attendance' = [attendance EXCEPT ![s] = attendance'[s]]

Create(s) ==
    /\ session[s] = None
    /\ session'[s] \in NewRow
    /\ session' = [session EXCEPT ![s] = session'[s]]
    /\ Rerecord(s)

\* An edit of an open session: another date, or other attendance rows.
Edit(s) ==
    /\ session[s] # None
    /\ Open(session[s])
    /\ session'[s].date \in Dates
    /\ session' = [session EXCEPT ![s].date = session'[s].date,
                                  ![s].sequence = session'[s].sequence,
                                  ![s].version = @ + 1]
    /\ Rerecord(s)

\* Locks the session. The roster may be completed; what was recorded stays.
Confirm(s) ==
    /\ session[s] # None
    /\ Open(session[s])
    /\ session' = [session EXCEPT ![s].confirmed = TRUE, ![s].version = @ + 1]
    /\ Rerecord(s)
    /\ \A st \in Students :
          attendance[s][st] # None => attendance'[s][st] = attendance[s][st]

Reopen(s) ==
    /\ session[s] # None
    /\ session[s].confirmed /\ ~session[s].archived
    /\ session' = [session EXCEPT ![s].confirmed = FALSE, ![s].version = @ + 1]
    /\ UNCHANGED attendance

ArchiveOrRecover(s) ==
    /\ session[s] # None
    /\ session' = [session EXCEPT ![s].archived = ~@, ![s].version = @ + 1]
    /\ UNCHANGED attendance

Next == \E s \in SessionIds :
            \/ Create(s)
            \/ Edit(s)
            \/ Confirm(s)
            \/ Reopen(s)
            \/ ArchiveOrRecover(s)

Spec == Init /\ [][Next]_lifecycleVars
=============================================================================
