----------------------------- MODULE SessionEdits -----------------------------
(***************************************************************************)
(* The endpoints that edit a session through the ORM, without a condition   *)
(* in the write: PATCH and upsert of one attendance row, the membership of   *)
(* a selective session, its progress-tracking switch, the Quran progress of  *)
(* its students, and its deletion. They run beside the endpoints of Sessions.*)
(*                                                                         *)
(* Each reads the session, decides, perhaps reads more, and writes what it   *)
(* computed from the rows it read: "version += 1" writes the version it read *)
(* plus one, whatever the table holds by then.                               *)
(***************************************************************************)
EXTENDS Sessions

VARIABLES
    progress,     \* quran_progress_entries: session -> the students with one
    seen          \* the attendance rows and entries each request has read

editVars == <<vars, progress, seen>>

NothingSeen == [rows |-> NoRows, entries |-> {}]
Seen == [rows : Rows, entries : SUBSET Students]

RowCall == [endpoint : {"patch", "upsert"}, session : SessionIds,
            student : Students, status : Statuses]
MembersCall == [endpoint : {"membership"}, session : SessionIds,
                members : (SUBSET Students) \ {{}}]
TrackingCall == [endpoint : {"tracking"}, session : SessionIds,
                 enabled : BOOLEAN]
ProgressCall == [endpoint : {"progress"}, session : SessionIds,
                 saved : SUBSET Students, cleared : SUBSET Students]
DeleteCall == [endpoint : {"delete"}, session : SessionIds]
EditCall == RowCall \cup MembersCall \cup TrackingCall \cup ProgressCall
               \cup DeleteCall

EditRequest == [phase : Phases \cup {"fetched", "checked"}, view : View \cup {None},
                call : Call \cup EditCall \cup {None},
                row : SessionRow \cup {None}, sequence : Nat]

EditsTypeOK == /\ session \in [SessionIds -> SessionRow \cup {None}]
               /\ attendance \in [SessionIds -> Rows]
               /\ receipt \in [Keys -> Receipt \cup {None}]
               /\ active \subseteq Students
               /\ request \in [Requests -> EditRequest]
               /\ applied \in [Keys -> Nat]
               /\ progress \in [SessionIds -> SUBSET Students]
               /\ seen \in [Requests -> Seen]

EditsInit == /\ Init
             /\ progress = [s \in SessionIds |-> {}]
             /\ seen = [r \in Requests |-> NothingSeen]

-----------------------------------------------------------------------------
\* The handler replies and its identity map goes.
Done(r) == Reply(r) /\ seen' = [seen EXCEPT ![r] = NothingSeen]

\* The handler of r has passed its first checks on the row it has now read.
Loaded(r, c) == request' = [request EXCEPT ![r].phase = "loaded",
                                           ![r].call = c,
                                           ![r].row = session[c.session]]

Checked(r) == request' = [request EXCEPT ![r].phase = "checked"]

\* The bounds on revisions and sequences, which deletion would let grow without
\* end: a row beyond MaxVersion is edited no more, a session is not deleted.
Deletable(row) == row # None => row.sequence <= MaxVersion
Editable(row) == row # None => row.revision <= MaxVersion

SendsEdit(r, c) == Sends(r, c.endpoint, c.session)

\* The student is on the list of the session the update is for, if it has one.
AnyRoster(row, s, S) == TRUE
OnRoster(row, s, S) == row.explicit => S \subseteq Members(s)

\* quran_progress_enabled.
Tracked(row) == row.tracked

EditAccepts(c, view, row) ==
    /\ row # None
    /\ Open(row)
    /\ c.endpoint = "membership" => row.explicit
    /\ c.endpoint \in {"membership", "tracking"} => Matches(view, row)
    /\ c.endpoint = "progress" => Tracked(row)

\* update_attendance reads the attendance row before its session.
CallPatch(r, c) ==
    /\ c.endpoint = "patch"
    /\ SendsEdit(r, c)
    /\ Editable(attendance[c.session][c.student])
    /\ IF attendance[c.session][c.student] # None
       THEN /\ request' = [request EXCEPT ![r].phase = "fetched", ![r].call = c]
            /\ seen' = [seen EXCEPT ![r].rows = attendance[c.session]]
       ELSE Done(r)
    /\ UNCHANGED <<tables, active, applied, progress>>

LoadPatch(r) ==
    /\ request[r].phase = "fetched"
    /\ request[r].call.endpoint = "patch"
    /\ LET c == request[r].call
       IN IF EditAccepts(c, None, session[c.session])
          THEN Loaded(r, c) /\ UNCHANGED seen
          ELSE Done(r)
    /\ UNCHANGED <<tables, active, applied, progress>>

\* The other handlers read the session first.
LoadEdit(r, c) ==
    /\ c.endpoint # "patch"
    /\ SendsEdit(r, c)
    /\ c.endpoint = "delete" => Deletable(session[c.session])
    /\ IF EditAccepts(c, request[r].view, session[c.session])
       THEN Loaded(r, c) /\ UNCHANGED seen
       ELSE Done(r)
    /\ UNCHANGED <<tables, active, applied, progress>>

\* The last reads before the write, and the checks that depend on them. (What
\* membership and progress read here they read statement by statement; every
\* gap that matters, from these reads to the write, is kept.)
CheckEdit(r) ==
    /\ request[r].phase = "loaded"
    /\ request[r].call.endpoint \in {"upsert", "membership", "tracking", "progress"}
    /\ request[r].call.endpoint = "upsert" =>
          Editable(attendance[request[r].call.session][request[r].call.student])
    /\ LET c == request[r].call
           row == request[r].row
           removed == IF c.endpoint = "membership"
                      THEN Members(c.session) \ c.members ELSE {}
       IN IF /\ c.endpoint = "membership" =>
                   /\ c.members \subseteq active \cap Assigned
                   /\ removed \cap progress[c.session] = {}
             /\ c.endpoint = "tracking" =>
                   /\ c.enabled # row.tracked
                   /\ c.enabled \/ progress[c.session] = {}
             /\ c.endpoint = "progress" =>
                   OnRoster(row, c.session, c.saved \cup c.cleared)
          THEN /\ Checked(r)
               /\ seen' = [seen EXCEPT ![r] =
                     [rows |-> attendance[c.session],
                      entries |-> progress[c.session]]]
          ELSE Done(r)
    /\ UNCHANGED <<tables, active, applied, progress>>

-----------------------------------------------------------------------------
(* The writes. An ORM UPDATE that matches no row, an INSERT of a second row    *)
(* for a student and a row whose session is gone all roll the request back.   *)

\* "session.version += 1".
NextOf(row) == row.version + 1

WriteRow(r) ==
    /\ \/ request[r].phase = "loaded" /\ request[r].call.endpoint = "patch"
       \/ request[r].phase = "checked" /\ request[r].call.endpoint = "upsert"
    /\ LET c == request[r].call
           s == c.session
           old == seen[r].rows[c.student]
           now == attendance[s][c.student]
           \* A column set to the value that was read is not in the UPDATE.
           new == IF old = None
                  THEN [status |-> c.status, revision |-> 1]
                  ELSE [status |-> IF c.status = old.status THEN now.status
                                                            ELSE c.status,
                        revision |-> old.revision + 1]
       IN IF session[s] # None /\ (old = None <=> now = None)
          THEN /\ attendance' = [attendance EXCEPT ![s][c.student] = new]
               /\ session' = [session EXCEPT ![s].version = NextOf(request[r].row)]
          ELSE UNCHANGED <<session, attendance>>
    /\ Done(r)
    /\ UNCHANGED <<receipt, active, applied, progress>>

WriteMembership(r) ==
    /\ request[r].phase = "checked"
    /\ request[r].call.endpoint = "membership"
    /\ LET c == request[r].call
           s == c.session
           were == {st \in Students : seen[r].rows[st] # None}
           added == c.members \ were
           removed == were \ c.members
           rest == [st \in Students |->
                       IF st \in removed THEN None ELSE attendance[s][st]]
       IN IF /\ session[s] # None
             /\ added \cup removed # {}
             /\ added \cap Members(s) = {}
          THEN /\ attendance' = [attendance EXCEPT ![s] =
                     WithAutoRows(rest, added, request[r].row.date)]
               /\ session' = [session EXCEPT ![s].version = NextOf(request[r].row)]
          ELSE UNCHANGED <<session, attendance>>
    /\ Done(r)
    /\ UNCHANGED <<receipt, active, applied, progress>>

WriteTracking(r) ==
    /\ request[r].phase = "checked"
    /\ request[r].call.endpoint = "tracking"
    /\ LET s == request[r].call.session
       IN IF session[s] # None
          THEN session' = [session EXCEPT
                  ![s].tracked = request[r].call.enabled,
                  ![s].version = NextOf(request[r].row)]
          ELSE UNCHANGED session
    /\ Done(r)
    /\ UNCHANGED <<attendance, receipt, active, applied, progress>>

\* Entries are upserted; of those to delete, the ones that were read go.
WriteProgress(r) ==
    /\ request[r].phase = "checked"
    /\ request[r].call.endpoint = "progress"
    /\ LET c == request[r].call
       IN IF session[c.session] # None
          THEN progress' = [progress EXCEPT ![c.session] =
                  (@ \cup c.saved) \ (c.cleared \cap seen[r].entries)]
          ELSE UNCHANGED progress
    /\ Done(r)
    /\ UNCHANGED <<tables, active, applied>>

\* The receipts of a session that delete_session deletes: all of them.
NoReceipts(s) == {}
ReceiptsOf(s) == {k \in Keys : receipt[k] # None /\ receipt[k].session = s}

\* The history of a deleted receipt is dropped with it.
WriteDelete(r) ==
    /\ request[r].phase = "loaded"
    /\ request[r].call.endpoint = "delete"
    /\ LET s == request[r].call.session
       IN /\ session' = [session EXCEPT ![s] = None]
          /\ attendance' = [attendance EXCEPT ![s] = NoRows]
          /\ progress' = [progress EXCEPT ![s] = {}]
          /\ receipt' = [k \in Keys |->
                            IF k \in ReceiptsOf(s) THEN None ELSE receipt[k]]
          /\ applied' = [k \in Keys |->
                            IF k \in ReceiptsOf(s) THEN 0 ELSE applied[k]]
    /\ Done(r)
    /\ UNCHANGED active

-----------------------------------------------------------------------------
EditStep(r) ==
    \/ \E c \in RowCall : CallPatch(r, c)
    \/ LoadPatch(r)
    \/ \E c \in EditCall : LoadEdit(r, c)
    \/ CheckEdit(r)
    \/ WriteRow(r)
    \/ WriteMembership(r)
    \/ WriteTracking(r)
    \/ WriteProgress(r)
    \/ WriteDelete(r)

EditsNext == \/ Next /\ UNCHANGED <<progress, seen>>
             \/ \E r \in Requests : EditStep(r)

EditsSpec == EditsInit /\ [][EditsNext]_editVars

-----------------------------------------------------------------------------
(* Properties. The first three hold as long as no two requests overlap.        *)

\* In a selective session only members have Quran progress: membership refuses
\* to drop a student with progress, and progress refuses a student who is no
\* member.
ProgressOfMembers ==
    \A s \in SessionIds :
        session[s] # None /\ session[s].explicit
        => progress[s] \subseteq Members(s)

\* Tracking is never off in a session that has Quran progress.
UntrackedHasNoProgress ==
    \A s \in SessionIds :
        session[s] # None /\ ~session[s].tracked => progress[s] = {}

\* Both hold as long as the server works at one request at a time, from its first
\* statement to its reply, whatever the clients have open.
ProgressFits == ProgressOfMembers /\ UntrackedHasNoProgress
Working(r) == request[r].phase \notin {"idle", "opening", "open"}
OneRequestAtATime == \A q, r \in Requests : Working(q) /\ Working(r) => q = r

\* However a deletion is interleaved with saves of the same session, it leaves
\* no attendance, progress or receipt behind, and none appears later.
NoOrphans ==
    \A s \in SessionIds :
        session[s] = None =>
            /\ \A st \in Students : attendance[s][st] = None
            /\ progress[s] = {}
            /\ \A k \in Keys : receipt[k] # None => receipt[k].session # s
=============================================================================
