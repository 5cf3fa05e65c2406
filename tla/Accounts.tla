------------------------------ MODULE Accounts ------------------------------
(***************************************************************************)
(* Accounts, centers (Tahfiz), memberships and invitations: routers/auth.py, *)
(* invitations.py, platform.py and the users of management.py.               *)
(*                                                                         *)
(* A request reads without a lock and then writes in one transaction, so it  *)
(* is a visit of two steps: what it found, and what it makes of it. A        *)
(* platform administrator acts outside every center.                        *)
(*                                                                         *)
(* The sheikh of a membership, passwords and tokens are left out; auditors    *)
(* are members who are not administrators, like sheikhs.                     *)
(***************************************************************************)
EXTENDS Rows, Integers, FiniteSets

CONSTANTS Users, Centers, Invitations,
          Visits       \* slots for requests in progress at the same time

ASSUME AccountsNone == None \notin Users /\ None \notin Centers

VARIABLES
    center,      \* tahfiz: status and owner; a row that is not there has status None
    account,     \* users: active, default_tahfiz_id and tahfiz_id
    membership,  \* user_tahfiz_memberships: user -> center -> row or None
    invitation,  \* tahfiz_invitations
    visit,       \* the requests in progress: what each has read
    admitted     \* history: the users each invitation made a member

accountRows == <<center, account, membership, invitation>>
accountVars == <<accountRows, visit, admitted>>

-----------------------------------------------------------------------------
Roles == {"admin", "sheikh"}
Statuses == {"pending", "active", "suspended", "rejected"}
Center == [status : Statuses \cup {None}, owner : Users \cup {None}]
Membership == [role : Roles, active : BOOLEAN]
Account == [there : BOOLEAN, active : BOOLEAN, default : Centers \cup {None},
            home : Centers \cup {None}]
Invitation == [center : Centers, role : Roles, usedBy : Users \cup {None},
               revoked : BOOLEAN, expired : BOOLEAN]
ASSUME RowsAreThere == None \notin Invitation
ASSUME MembershipsAreThere == None \notin Membership

Operations == {"createCenter", "setDefault", "register", "accept", "createUser",
               "updateUser", "deleteUser", "invite", "revokeInvitation",
               "resend", "grant", "revokeMembership"}
\* user: whom it is about, who is the caller where nobody else is concerned.
Request == [op : Operations, user : Users, center : Centers, role : Roles,
            invitation : Invitations]
Seen == [account : Account, membership : Membership \cup {None},
         invitation : Invitation \cup {None}]

AccountsTypeOK ==
    /\ center \in [Centers -> Center]
    /\ account \in [Users -> Account]
    /\ membership \in [Users -> [Centers -> Membership \cup {None}]]
    /\ invitation \in [Invitations -> Invitation \cup {None}]
    /\ visit \in [Visits -> [request : Request, seen : Seen] \cup {None}]
    /\ admitted \in [Invitations -> SUBSET Users]

AccountsInit ==
    /\ center = [c \in Centers |-> [status |-> None, owner |-> None]]
    /\ account = [u \in Users |->
           [there |-> FALSE, active |-> FALSE, default |-> None, home |-> None]]
    /\ membership = [u \in Users |-> [c \in Centers |-> None]]
    /\ invitation = [i \in Invitations |-> None]
    /\ visit = [v \in Visits |-> None]
    /\ admitted = [i \in Invitations |-> {}]

-----------------------------------------------------------------------------
Member(u, c) == membership[u][c] # None /\ membership[u][c].active
Admins(c) == {u \in Users : Member(u, c) /\ membership[u][c].role = "admin"}
SignedIn(u) == account[u].there /\ account[u].active

\* get_tenant_context, with the header that names a center.
Serves(u, c) == SignedIn(u) /\ Member(u, c) /\ center[c].status = "active"
Administered(c) == \E u \in Admins(c) : Serves(u, c)

\* get_tenant_context without the header: the center it goes by, and whether
\* it lets the request through. An account from before the memberships were
\* filled in has none for its own center.
PreferredCenter(u) ==
    IF account[u].default # None THEN account[u].default ELSE account[u].home
ServedAt(u, c) ==
    /\ c # None
    /\ IF membership[u][c] # None THEN membership[u][c].active ELSE c = account[u].home
    /\ center[c].status = "active"

\* get_me: the center the application opens with. Names order the memberships:
\* any of them may be the first.
MyCenters(u) == {c \in Centers : Member(u, c)}
Opens(u, c) == IF PreferredCenter(u) \in MyCenters(u) THEN c = PreferredCenter(u)
               ELSE IF MyCenters(u) # {} THEN c \in MyCenters(u)
               ELSE c = account[u].home

\* invitation_status = "active".
Open(i) == invitation[i].usedBy = None /\ ~invitation[i].revoked /\ ~invitation[i].expired

NewMembership(role) == [role |-> role, active |-> TRUE]
NewAccount(c) == [there |-> TRUE, active |-> TRUE, default |-> c, home |-> c]
NewInvitation(c, role) == [center |-> c, role |-> role, usedBy |-> None,
                           revoked |-> FALSE, expired |-> FALSE]

\* An attribute that is set to the value it was loaded with is not written.
Written(loaded, new, now) == IF new = loaded THEN now ELSE new

-----------------------------------------------------------------------------
(* What a request reads, and the checks it makes before it writes.           *)

MayCreateCenter(r) ==
    /\ SignedIn(r.user)
    /\ ~\E c \in Centers : center[c] = [status |-> "pending", owner |-> r.user]
MaySetDefault(r) == SignedIn(r.user) /\ Member(r.user, r.center)
                    /\ center[r.center].status = "active"
MayRegister(r) == /\ ~account[r.user].there
                  /\ invitation[r.invitation] # None /\ Open(r.invitation)
MayAccept(r) == /\ SignedIn(r.user)
                /\ invitation[r.invitation] # None /\ Open(r.invitation)
                /\ ~Member(r.user, invitation[r.invitation].center)
MayCreateUser(r) == Administered(r.center) /\ ~account[r.user].there
NotTheLastAdmin(r) == membership[r.user][r.center].role = "admin"
                          => Cardinality(Admins(r.center)) > 1
MayUpdateUser(r) ==
    /\ Administered(r.center) /\ Member(r.user, r.center)
    /\ r.role # "admin" => center[r.center].owner # r.user /\ NotTheLastAdmin(r)
MayDeleteUser(r) ==
    /\ Member(r.user, r.center)
    /\ center[r.center].owner # r.user
    /\ \E u \in Admins(r.center) \ {r.user} : Serves(u, r.center)
MayInvite(r) == Administered(r.center) /\ invitation[r.invitation] = None
MayWithdraw(r) == /\ invitation[r.invitation] # None
                  /\ invitation[r.invitation].usedBy = None
                  /\ Administered(invitation[r.invitation].center)
MayGrant(r) == account[r.user].there /\ center[r.center].status # None
MayRevokeMembership(r) == /\ Member(r.user, r.center)
                          /\ center[r.center].owner # r.user
                          /\ NotTheLastAdmin(r)

Found(r) ==
    CASE r.op = "createCenter" -> MayCreateCenter(r)
      [] r.op = "setDefault" -> MaySetDefault(r)
      [] r.op = "register" -> MayRegister(r)
      [] r.op = "accept" -> MayAccept(r)
      [] r.op = "createUser" -> MayCreateUser(r)
      [] r.op = "updateUser" -> MayUpdateUser(r)
      [] r.op = "deleteUser" -> MayDeleteUser(r)
      [] r.op = "invite" -> MayInvite(r)
      [] r.op = "revokeInvitation" -> MayWithdraw(r) /\ ~invitation[r.invitation].revoked
      [] r.op = "resend" -> MayWithdraw(r)
      [] r.op = "grant" -> MayGrant(r)
      [] r.op = "revokeMembership" -> MayRevokeMembership(r)

Concerned(r) ==
    IF r.op \in {"register", "accept", "revokeInvitation", "resend"}
    THEN invitation[r.invitation].center ELSE r.center

Arrive(v, r) ==
    /\ visit[v] = None
    /\ Found(r)
    /\ visit' = [visit EXCEPT ![v] =
           [request |-> r,
            seen |-> [account |-> account[r.user],
                      membership |-> membership[r.user][Concerned(r)],
                      invitation |-> invitation[r.invitation]]]]
    /\ UNCHANGED <<accountRows, admitted>>

-----------------------------------------------------------------------------
(* What it writes. A statement that fails undoes the transaction.            *)

Leave(v) == visit' = [visit EXCEPT ![v] = None]
Fail(v) == Leave(v) /\ UNCHANGED <<accountRows, admitted>>

\* The membership is updated where the request found one, and inserted where it
\* found none, which the unique constraint allows once.
Joins(s, u, c) == s.membership = None => membership[u][c] = None
Joined(s, u, c, role) ==
    IF s.membership = None THEN NewMembership(role)
    ELSE [role |-> Written(s.membership.role, role, membership[u][c].role),
          active |-> Written(s.membership.active, TRUE, membership[u][c].active)]
\* The default is set where the request found none.
Activated(s, u, c) ==
    [account[u] EXCEPT !.default = IF s.account.default = None THEN c ELSE @,
                       !.active = Written(s.account.active, TRUE, @)]

CreateCenter(v, c) ==
    LET u == visit[v].request.user
    IN /\ visit[v].request.op = "createCenter"
       /\ center[c].status = None
       /\ center' = [center EXCEPT ![c] = [status |-> "pending", owner |-> u]]
       /\ membership' = [membership EXCEPT ![u][c] = NewMembership("admin")]
       /\ Leave(v) /\ UNCHANGED <<account, invitation, admitted>>

SetDefault(v) ==
    LET r == visit[v].request
    IN /\ r.op = "setDefault"
       /\ account' = [account EXCEPT ![r.user].default =
              Written(visit[v].seen.account.default, r.center, @)]
       /\ Leave(v) /\ UNCHANGED <<center, membership, invitation, admitted>>

\* The conditional UPDATE of both ways to use an invitation.
ConsumedUnused(i) == ~invitation[i].revoked /\ ~invitation[i].expired
Consumed(i) == Open(i)
Consume(i, u) == invitation' = [invitation EXCEPT ![i].usedBy = u]

\* The account is inserted first; the name may have been taken since.
Register(v) ==
    LET r == visit[v].request
        c == visit[v].seen.invitation.center
    IN /\ r.op = "register"
       /\ IF ~account[r.user].there /\ Consumed(r.invitation)
          THEN /\ Consume(r.invitation, r.user)
               /\ account' = [account EXCEPT ![r.user] = NewAccount(c)]
               /\ membership' = [membership EXCEPT ![r.user][c] =
                      NewMembership(visit[v].seen.invitation.role)]
               /\ admitted' = [admitted EXCEPT ![r.invitation] = @ \cup {r.user}]
               /\ Leave(v) /\ UNCHANGED center
          ELSE Fail(v)

Accept(v) ==
    LET r == visit[v].request
        s == visit[v].seen
        c == s.invitation.center
    IN /\ r.op = "accept"
       /\ IF Consumed(r.invitation) /\ Joins(s, r.user, c)
          THEN /\ Consume(r.invitation, r.user)
               /\ membership' = [membership EXCEPT ![r.user][c] =
                      Joined(s, r.user, c, s.invitation.role)]
               /\ account' = [account EXCEPT ![r.user] = Activated(s, r.user, c)]
               /\ admitted' = [admitted EXCEPT ![r.invitation] = @ \cup {r.user}]
               /\ Leave(v) /\ UNCHANGED center
          ELSE Fail(v)

CreateUser(v) ==
    LET r == visit[v].request
    IN /\ r.op = "createUser"
       /\ IF ~account[r.user].there
          THEN /\ account' = [account EXCEPT ![r.user] = NewAccount(r.center)]
               /\ membership' = [membership EXCEPT ![r.user][r.center] = NewMembership(r.role)]
               /\ Leave(v) /\ UNCHANGED <<center, invitation, admitted>>
          ELSE Fail(v)

UpdateUser(v) ==
    LET r == visit[v].request
    IN /\ r.op = "updateUser"
       /\ membership' = [membership EXCEPT ![r.user][r.center].role =
              Written(visit[v].seen.membership.role, r.role, @)]
       /\ Leave(v) /\ UNCHANGED <<center, account, invitation, admitted>>

\* The memberships left are read after the first write; the account is as found.
Others(u, c) == {d \in Centers \ {c} : Member(u, d)}
Deactivated(u, c) == [membership EXCEPT ![u][c].active = FALSE]
Successor(u, c, next) == IF Others(u, c) = {} THEN next = None ELSE next \in Others(u, c)

DeleteUser(v) ==
    LET r == visit[v].request
        s == visit[v].seen
    IN /\ r.op = "deleteUser"
       /\ membership' = Deactivated(r.user, r.center)
       /\ \E next \in Centers \cup {None} :
             /\ Successor(r.user, r.center, next)
             /\ account' = [account EXCEPT
                    ![r.user].default =
                        IF next = None THEN Written(s.account.default, None, @)
                        ELSE IF s.account.default = r.center THEN next ELSE @,
                    ![r.user].active =
                        IF next = None THEN Written(s.account.active, FALSE, @) ELSE @]
       /\ Leave(v) /\ UNCHANGED <<center, invitation, admitted>>

Grant(v) ==
    LET r == visit[v].request
        s == visit[v].seen
    IN /\ r.op = "grant"
       /\ IF Joins(s, r.user, r.center)
          THEN /\ membership' = [membership EXCEPT ![r.user][r.center] =
                      Joined(s, r.user, r.center, r.role)]
               /\ account' = [account EXCEPT ![r.user] = Activated(s, r.user, r.center)]
               /\ Leave(v) /\ UNCHANGED <<center, invitation, admitted>>
          ELSE Fail(v)

\* Here the account, too, is read after the first write.
KeepsDefault(u, c, next) == account[u]
MovesDefault(u, c, next) ==
    IF account[u].default # c THEN account[u]
    ELSE [account[u] EXCEPT !.default = next, !.active = @ /\ next # None]
RevokeMembership(v) ==
    LET r == visit[v].request
    IN /\ r.op = "revokeMembership"
       /\ membership' = Deactivated(r.user, r.center)
       /\ \E next \in Centers \cup {None} :
             /\ Successor(r.user, r.center, next)
             /\ account' = [account EXCEPT ![r.user] = MovesDefault(r.user, r.center, next)]
       /\ Leave(v) /\ UNCHANGED <<center, invitation, admitted>>

Invite(v) ==
    LET r == visit[v].request
    IN /\ r.op = "invite"
       /\ invitation[r.invitation] = None
       /\ invitation' = [invitation EXCEPT ![r.invitation] = NewInvitation(r.center, r.role)]
       /\ Leave(v) /\ UNCHANGED <<center, account, membership, admitted>>

RevokeInvitation(v) ==
    LET r == visit[v].request
    IN /\ r.op = "revokeInvitation"
       /\ invitation' = [invitation EXCEPT ![r.invitation].revoked = TRUE]
       /\ Leave(v) /\ UNCHANGED <<center, account, membership, admitted>>

\* The old link is revoked, unless it was, and a new one made.
Resend(v, new) ==
    LET r == visit[v].request
        old == visit[v].seen.invitation
    IN /\ r.op = "resend"
       /\ invitation[new] = None
       /\ invitation' = [invitation EXCEPT ![r.invitation].revoked = TRUE,
                                           ![new] = NewInvitation(old.center, old.role)]
       /\ Leave(v) /\ UNCHANGED <<center, account, membership, admitted>>

-----------------------------------------------------------------------------
(* Requests that decide nothing on what they read, and time.                 *)

SignUp(u, c) ==
    /\ ~account[u].there
    /\ center[c].status = None
    /\ center' = [center EXCEPT ![c] = [status |-> "pending", owner |-> u]]
    /\ account' = [account EXCEPT ![u] = NewAccount(c)]
    /\ membership' = [membership EXCEPT ![u][c] = NewMembership("admin")]
    /\ UNCHANGED <<invitation, visit, admitted>>

\* approve, reject, suspend and reactivate, from whatever status.
SetStatus(c, status) ==
    /\ center[c].status # None
    /\ center' = [center EXCEPT ![c].status = status]
    /\ UNCHANGED <<account, membership, invitation, visit, admitted>>

Expire(i) ==
    /\ invitation[i] # None
    /\ invitation' = [invitation EXCEPT ![i].expired = TRUE]
    /\ UNCHANGED <<center, account, membership, visit, admitted>>

Depart(v) ==
    /\ visit[v] # None
    /\ \/ \E c \in Centers : CreateCenter(v, c)
       \/ SetDefault(v)
       \/ Register(v)
       \/ Accept(v)
       \/ CreateUser(v)
       \/ UpdateUser(v)
       \/ DeleteUser(v)
       \/ Grant(v)
       \/ RevokeMembership(v)
       \/ Invite(v)
       \/ RevokeInvitation(v)
       \/ \E new \in Invitations : Resend(v, new)

AccountsNext ==
    \/ \E v \in Visits, r \in Request : Arrive(v, r)
    \/ \E v \in Visits : Depart(v)
    \/ \E u \in Users, c \in Centers : SignUp(u, c)
    \/ \E c \in Centers, status \in Statuses \ {"pending"} : SetStatus(c, status)
    \/ \E i \in Invitations : Expire(i)

AccountsSpec == AccountsInit /\ [][AccountsNext]_accountVars

-----------------------------------------------------------------------------
\* An invitation lets one user in, the one it records; nobody else who used the
\* link at the same time is left with an account or a membership from it
\* (the conditional UPDATE of register and accept, and their rollback).
InvitationOnce ==
    \A i \in Invitations :
        admitted[i] \subseteq (IF invitation[i] = None THEN {} ELSE {invitation[i].usedBy})

\* Between requests, an account that can sign in opens with the very center its
\* requests are served for, one it is a member of, and an account is shut out
\* exactly when no membership is left (revoke_user_membership, delete_user,
\* accept_invitation and grant_user_membership against get_me and
\* get_tenant_context).
AccountsAtHome ==
    (\A v \in Visits : visit[v] = None) =>
        \A u \in Users : account[u].there =>
            /\ account[u].active <=> MyCenters(u) # {}
            /\ account[u].active =>
                  \A c \in Centers : Opens(u, c) =>
                      /\ Member(u, c)
                      /\ ServedAt(u, c) <=> center[c].status = "active"
                      /\ c = PreferredCenter(u)

\* ... which holds of requests that come one at a time.
OneVisit == \A v, w \in Visits : visit[v] # None /\ visit[w] # None => v = w
HomeOneByOne == []OneVisit => []AccountsAtHome
=============================================================================
