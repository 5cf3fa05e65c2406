----------------------------- MODULE Office_proofs -----------------------------
(***************************************************************************)
(* Proofs about what the office of a center does: invitations and accounts, *)
(* applications, excused periods and sheikhs, custom fields, and attendance *)
(* statuses with their streaks; for any users, links, applications, fields, *)
(* students and days.  Where a theorem assumes one request at a time, its   *)
(* property is false of requests that overlap.                              *)
(***************************************************************************)
EXTENDS Accounts, Students, Statuses, CustomFields, FiniteSetTheorems, SequenceTheorems,
        WellFoundedInduction, TLAPS

-----------------------------------------------------------------------------
(***************************************************************************)
(* Accounts: an invitation lets one user in, however many requests overlap:*)
(* the conditional UPDATE goes through only while nobody is recorded, and a*)
(* link that records nobody has let nobody in.                             *)
(***************************************************************************)

LinkOperations == {"register", "accept", "revokeInvitation", "resend"}

\* The part of the types the argument needs.
LinksTyped ==
    /\ invitation \in [Invitations -> Invitation \cup {None}]
    /\ admitted \in [Invitations -> SUBSET Users]

\* A request about a link is about one that was made: rows of invitations stay.
LinkKnown(v) ==
    visit[v] # None =>
        /\ visit[v].request \in Request
        /\ visit[v].request.op \in LinkOperations =>
              /\ visit[v].seen.invitation \in Invitation
              /\ invitation[visit[v].request.invitation] # None
VisitsKnow ==
    /\ visit = [v \in Visits |-> visit[v]]
    /\ \A v \in Visits : LinkKnown(v)

LinksInv == LinksTyped /\ VisitsKnow /\ InvitationOnce

\* Nothing takes an invitation away.
LinksStay == \A i \in Invitations : invitation[i] # None => invitation'[i] # None

-----------------------------------------------------------------------------
(* Lemmas.                                                                   *)

\* What a request was found to be about is remembered as it was.
LEMMA ArriveKnows ==
    ASSUME LinksInv, NEW v \in Visits, NEW r \in Request, Arrive(v, r)
    PROVE  LinksInv'
<1>1. /\ invitation' = invitation /\ admitted' = admitted
      /\ visit[v] = None /\ Found(r)
  BY DEF Arrive, accountRows
<1>2. /\ visit' = [w \in Visits |-> visit'[w]]
      /\ \A w \in Visits : w # v => visit'[w] = visit[w]
      /\ visit'[v].request = r
      /\ visit'[v].seen.invitation = invitation[r.invitation]
  BY DEF Arrive, LinksInv, VisitsKnow
<1>3. r.op \in LinkOperations => invitation[r.invitation] # None
  BY <1>1 DEF LinkOperations, Found, MayRegister, MayAccept, MayWithdraw
<1>4. r.invitation \in Invitations
  BY DEF Request
<1>5. r.op \in LinkOperations => invitation[r.invitation] \in Invitation
  BY <1>3, <1>4 DEF LinksInv, LinksTyped
<1>6. LinkKnown(v)'
  BY <1>1, <1>2, <1>3, <1>5 DEF LinkKnown
<1>7. ASSUME NEW w \in Visits, w # v PROVE LinkKnown(w)'
  BY <1>1, <1>2, <1>7 DEF LinksInv, VisitsKnow, LinkKnown
<1>8. VisitsKnow'
  BY <1>2, <1>6, <1>7 DEF VisitsKnow
<1> QED BY <1>1, <1>8 DEF LinksInv, LinksTyped, InvitationOnce

\* A request that leaves takes what it knew along; the others still know theirs
\* while nothing takes an invitation away.
LEMMA LeaveKnows ==
    ASSUME LinksInv, LinksStay, NEW v \in Visits, Leave(v)
    PROVE  VisitsKnow'
<1>1. /\ visit' = [w \in Visits |-> visit'[w]]
      /\ \A w \in Visits : visit'[w] = IF w = v THEN None ELSE visit[w]
  BY DEF Leave, LinksInv, VisitsKnow
<1>2. ASSUME NEW w \in Visits PROVE LinkKnown(w)'
  <2>1. CASE w = v
    BY <1>1, <2>1 DEF LinkKnown
  <2>2. CASE w # v
    <3>1. visit'[w] = visit[w]
      BY <1>1, <2>2
    <3>2. visit[w] # None => visit[w].request.invitation \in Invitations
      BY DEF LinksInv, VisitsKnow, LinkKnown, Request
    <3> QED BY <3>1, <3>2 DEF LinksInv, VisitsKnow, LinkKnown, LinksStay
  <2> QED BY <2>1, <2>2
<1> QED BY <1>1, <1>2 DEF VisitsKnow

\* Where no link is touched, only the requests change.
LEMMA LeaveOnly ==
    ASSUME LinksInv, UNCHANGED <<invitation, admitted>>, NEW v \in Visits, Leave(v)
    PROVE  LinksInv'
<1>1. LinksStay
  BY DEF LinksStay
<1>2. VisitsKnow'
  BY <1>1, LeaveKnows
<1> QED BY <1>2 DEF LinksInv, LinksTyped, InvitationOnce

\* The conditional UPDATE records a user where nobody was recorded, and whom
\* nobody preceded.
LEMMA ConsumeOnce ==
    ASSUME LinksInv, NEW v \in Visits, Leave(v),
           NEW i \in Invitations, invitation[i] # None, Consumed(i),
           NEW u \in Users, Consume(i, u),
           admitted' = [admitted EXCEPT ![i] = @ \cup {u}]
    PROVE  LinksInv'
<1>1. invitation[i] \in Invitation /\ invitation[i].usedBy = None
  BY DEF LinksInv, LinksTyped, Consumed, Open
<1> DEFINE used == [invitation[i] EXCEPT !.usedBy = u]
<1>2. used \in Invitation /\ used.usedBy = u
  BY <1>1 DEF Invitation
<1>3. invitation' = [invitation EXCEPT ![i] = used]
  BY DEF Consume
<1> HIDE DEF used
<1>4. LinksTyped'
  BY <1>2, <1>3 DEF LinksInv, LinksTyped
<1>5. LinksStay
  BY <1>2, <1>3, RowsAreThere DEF LinksStay, LinksInv, LinksTyped
<1>6. VisitsKnow'
  BY <1>5, LeaveKnows
<1>7. admitted[i] = {}
  BY <1>1, AccountsNone DEF LinksInv, LinksTyped, InvitationOnce
<1>8. InvitationOnce'
  <2>1. used # None
    BY <1>2, RowsAreThere
  <2>2. /\ admitted'[i] = {u} /\ invitation'[i] = used
        /\ \A j \in Invitations : j # i => /\ admitted'[j] = admitted[j]
                                           /\ invitation'[j] = invitation[j]
    BY <1>3, <1>7 DEF LinksInv, LinksTyped
  <2> QED BY <1>2, <2>1, <2>2 DEF LinksInv, InvitationOnce
<1> QED BY <1>4, <1>6, <1>8 DEF LinksInv

\* A change to one row that keeps the user it records.
LEMMA SameUser ==
    ASSUME LinksInv, NEW i \in Invitations, NEW row \in Invitation,
           invitation[i] # None => row.usedBy = invitation[i].usedBy,
           invitation' = [invitation EXCEPT ![i] = row],
           UNCHANGED admitted
    PROVE  LinksTyped' /\ InvitationOnce' /\ LinksStay
<1>1. row # None
  BY RowsAreThere
<1>2. /\ invitation'[i] = row
      /\ \A j \in Invitations : j # i => invitation'[j] = invitation[j]
  BY DEF LinksInv, LinksTyped
<1>3. LinksTyped'
  BY DEF LinksInv, LinksTyped
<1>4. InvitationOnce'
  BY <1>1, <1>2 DEF LinksInv, InvitationOnce
<1>5. LinksStay
  BY <1>1, <1>2 DEF LinksStay
<1> QED BY <1>3, <1>4, <1>5

-----------------------------------------------------------------------------
(* The requests.                                                             *)

LEMMA RegisterSafe ==
    ASSUME LinksInv, NEW v \in Visits, visit[v] # None, Register(v)
    PROVE  LinksInv'
<1> DEFINE r == visit[v].request
<1>1. /\ r.invitation \in Invitations /\ r.user \in Users
      /\ invitation[r.invitation] # None
  BY DEF Register, LinksInv, VisitsKnow, LinkKnown, LinkOperations, Request
<1>2. \/ /\ Consumed(r.invitation) /\ Consume(r.invitation, r.user) /\ Leave(v)
         /\ admitted' = [admitted EXCEPT ![r.invitation] = @ \cup {r.user}]
      \/ Leave(v) /\ UNCHANGED <<invitation, admitted>>
  BY DEF Register, Fail, accountRows
<1> QED BY <1>1, <1>2, ConsumeOnce, LeaveOnly

LEMMA AcceptSafe ==
    ASSUME LinksInv, NEW v \in Visits, visit[v] # None, Accept(v)
    PROVE  LinksInv'
<1> DEFINE r == visit[v].request
<1>1. /\ r.invitation \in Invitations /\ r.user \in Users
      /\ invitation[r.invitation] # None
  BY DEF Accept, LinksInv, VisitsKnow, LinkKnown, LinkOperations, Request
<1>2. \/ /\ Consumed(r.invitation) /\ Consume(r.invitation, r.user) /\ Leave(v)
         /\ admitted' = [admitted EXCEPT ![r.invitation] = @ \cup {r.user}]
      \/ Leave(v) /\ UNCHANGED <<invitation, admitted>>
  BY DEF Accept, Fail, accountRows
<1> QED BY <1>1, <1>2, ConsumeOnce, LeaveOnly

LEMMA InviteSafe ==
    ASSUME LinksInv, NEW v \in Visits, visit[v] # None, Invite(v)
    PROVE  LinksInv'
<1> DEFINE r == visit[v].request
           row == NewInvitation(r.center, r.role)
<1>1. /\ r.invitation \in Invitations /\ r.center \in Centers /\ r.role \in Roles
      /\ invitation[r.invitation] = None
  BY DEF Invite, LinksInv, VisitsKnow, LinkKnown, Request
<1>2. row \in Invitation
  BY <1>1 DEF NewInvitation, Invitation
<1>3. invitation' = [invitation EXCEPT ![r.invitation] = row] /\ UNCHANGED admitted
      /\ Leave(v)
  BY DEF Invite
<1>4. LinksTyped' /\ InvitationOnce' /\ LinksStay
  <2> HIDE DEF row
  <2> QED BY <1>1, <1>2, <1>3, SameUser
<1> QED BY <1>3, <1>4, LeaveKnows DEF LinksInv

LEMMA RevokeSafe ==
    ASSUME LinksInv, NEW v \in Visits, visit[v] # None, RevokeInvitation(v)
    PROVE  LinksInv'
<1> DEFINE i == visit[v].request.invitation
           row == [invitation[i] EXCEPT !.revoked = TRUE]
<1>1. i \in Invitations /\ invitation[i] \in Invitation
  BY DEF RevokeInvitation, LinksInv, LinksTyped, VisitsKnow, LinkKnown, LinkOperations, Request
<1>2. row \in Invitation /\ row.usedBy = invitation[i].usedBy
  BY <1>1 DEF Invitation
<1>3. invitation' = [invitation EXCEPT ![i] = row] /\ UNCHANGED admitted /\ Leave(v)
  BY DEF RevokeInvitation
<1>4. LinksTyped' /\ InvitationOnce' /\ LinksStay
  <2> HIDE DEF row
  <2> QED BY <1>1, <1>2, <1>3, SameUser
<1> QED BY <1>3, <1>4, LeaveKnows DEF LinksInv

\* Two rows change: the old link, and the new one, which nobody has used.
LEMMA ResendSafe ==
    ASSUME LinksInv, NEW v \in Visits, visit[v] # None,
           NEW new \in Invitations, Resend(v, new)
    PROVE  LinksInv'
<1> DEFINE i == visit[v].request.invitation
           old == visit[v].seen.invitation
           row == [invitation[i] EXCEPT !.revoked = TRUE]
           fresh == NewInvitation(old.center, old.role)
<1>1. /\ i \in Invitations /\ invitation[i] \in Invitation /\ old \in Invitation
      /\ invitation[i] # None
  BY DEF Resend, LinksInv, LinksTyped, VisitsKnow, LinkKnown, LinkOperations, Request
<1>2. row \in Invitation /\ row.usedBy = invitation[i].usedBy
  BY <1>1 DEF Invitation
<1>3. fresh \in Invitation
  BY <1>1 DEF NewInvitation, Invitation
<1>4. /\ invitation[new] = None /\ new # i
      /\ invitation' = [invitation EXCEPT ![i] = row, ![new] = fresh]
      /\ UNCHANGED admitted /\ Leave(v)
  BY <1>1 DEF Resend
<1>5. row # None /\ fresh # None
  BY <1>2, <1>3, RowsAreThere
<1> HIDE DEF row, fresh
<1>6. /\ invitation'[i] = row /\ invitation'[new] = fresh
      /\ \A j \in Invitations : j # i /\ j # new => invitation'[j] = invitation[j]
  BY <1>1, <1>4 DEF LinksInv, LinksTyped
<1>7. LinksTyped'
  BY <1>1, <1>2, <1>3, <1>4 DEF LinksInv, LinksTyped
<1>8. LinksStay
  BY <1>5, <1>6 DEF LinksStay
<1>9. InvitationOnce'
  BY <1>1, <1>2, <1>4, <1>5, <1>6 DEF LinksInv, InvitationOnce
<1> QED BY <1>4, <1>7, <1>8, <1>9, LeaveKnows DEF LinksInv

LEMMA ExpireSafe ==
    ASSUME LinksInv, NEW i \in Invitations, Expire(i)
    PROVE  LinksInv'
<1> DEFINE row == [invitation[i] EXCEPT !.expired = TRUE]
<1>1. invitation[i] \in Invitation
  BY DEF Expire, LinksInv, LinksTyped
<1>2. row \in Invitation /\ row.usedBy = invitation[i].usedBy
  BY <1>1 DEF Invitation
<1>3. invitation' = [invitation EXCEPT ![i] = row] /\ UNCHANGED <<admitted, visit>>
  BY DEF Expire
<1>4. LinksTyped' /\ InvitationOnce' /\ LinksStay
  <2> HIDE DEF row
  <2> QED BY <1>2, <1>3, SameUser
<1>5. ASSUME NEW w \in Visits PROVE LinkKnown(w)'
  <2>1. visit[w] # None => visit[w].request.invitation \in Invitations
    BY DEF LinksInv, VisitsKnow, LinkKnown, Request
  <2> QED BY <1>3, <1>4, <2>1 DEF LinksInv, VisitsKnow, LinkKnown, LinksStay
<1>6. VisitsKnow'
  BY <1>3, <1>5 DEF LinksInv, VisitsKnow
<1> QED BY <1>4, <1>6 DEF LinksInv

\* The requests that are about no link, and those that fail.
LEMMA DepartSafe ==
    ASSUME LinksInv, NEW v \in Visits, Depart(v)
    PROVE  LinksInv'
<1>0. visit[v] # None
  BY DEF Depart
<1>1. CASE \E c \in Centers : CreateCenter(v, c)
  BY <1>1, LeaveOnly DEF CreateCenter
<1>2. CASE SetDefault(v)
  BY <1>2, LeaveOnly DEF SetDefault
<1>3. CASE CreateUser(v)
  <2>1. Leave(v) /\ UNCHANGED <<invitation, admitted>>
    BY <1>3 DEF CreateUser, Fail, accountRows
  <2> QED BY <2>1, LeaveOnly
<1>4. CASE UpdateUser(v)
  BY <1>4, LeaveOnly DEF UpdateUser
<1>5. CASE DeleteUser(v)
  BY <1>5, LeaveOnly DEF DeleteUser
<1>6. CASE Grant(v)
  <2>1. Leave(v) /\ UNCHANGED <<invitation, admitted>>
    BY <1>6 DEF Grant, Fail, accountRows
  <2> QED BY <2>1, LeaveOnly
<1>7. CASE RevokeMembership(v)
  BY <1>7, LeaveOnly DEF RevokeMembership
<1> QED BY <1>0, <1>1, <1>2, <1>3, <1>4, <1>5, <1>6, <1>7, RegisterSafe, AcceptSafe,
           InviteSafe, RevokeSafe, ResendSafe DEF Depart

-----------------------------------------------------------------------------
\* The invariant of the links.
LEMMA LinksHold == AccountsSpec => []LinksInv
<1>1. AccountsInit => LinksInv
  BY DEF AccountsInit, LinksInv, LinksTyped, VisitsKnow, LinkKnown, InvitationOnce
<1>2. LinksInv /\ [AccountsNext]_accountVars => LinksInv'
  <2> SUFFICES ASSUME LinksInv, [AccountsNext]_accountVars PROVE LinksInv'
    OBVIOUS
  <2>1. CASE \E v \in Visits, r \in Request : Arrive(v, r)
    BY <2>1, ArriveKnows
  <2>2. CASE \E v \in Visits : Depart(v)
    BY <2>2, DepartSafe
  <2>3. CASE UNCHANGED <<invitation, visit, admitted>>
    BY <2>3 DEF LinksInv, LinksTyped, VisitsKnow, LinkKnown, InvitationOnce
  <2>4. CASE \E i \in Invitations : Expire(i)
    BY <2>4, ExpireSafe
  <2>5. (\E u \in Users, c \in Centers : SignUp(u, c)) => UNCHANGED <<invitation, visit, admitted>>
    BY DEF SignUp
  <2>6. (\E c \in Centers, status \in Statuses \ {"pending"} : SetStatus(c, status))
            => UNCHANGED <<invitation, visit, admitted>>
    BY DEF SetStatus
  <2>7. UNCHANGED accountVars => UNCHANGED <<invitation, visit, admitted>>
    BY DEF accountVars, accountRows
  <2> QED BY <2>1, <2>2, <2>3, <2>4, <2>5, <2>6, <2>7 DEF AccountsNext
<1> QED BY <1>1, <1>2, PTL DEF AccountsSpec

\* However many register, accept, resend and revoke at once, an invitation lets
\* in nobody but the one user it records (register and accept_invitation).
THEOREM InvitationsAdmitOne == AccountsSpec => []InvitationOnce
<1>1. LinksInv => InvitationOnce
  BY DEF LinksInv
<1> QED BY <1>1, LinksHold, PTL

-----------------------------------------------------------------------------
(***************************************************************************)
(* Accounts, one request at a time: an account that can sign in goes by a  *)
(* default center it is a member of, and one that cannot has neither a     *)
(* default nor a membership.                                               *)
(***************************************************************************)

Places == [Centers -> Membership \cup {None}]

\* A row of an account and its memberships.
Housed(acc, mem) ==
    /\ acc.active => /\ acc.there
                     /\ acc.default \in Centers
                     /\ mem[acc.default] # None /\ mem[acc.default].active
    /\ ~acc.active => /\ acc.default = None
                      /\ \A c \in Centers : mem[c] = None \/ ~mem[c].active

AllHoused == \A u \in Users : Housed(account[u], membership[u])

\* The requests that are about an account that is there; the others make one, or
\* write to links only.
AccountOperations ==
    {"createCenter", "setDefault", "accept", "updateUser", "deleteUser", "grant",
     "revokeMembership"}
MemberOperations == {"setDefault", "updateUser", "deleteUser", "revokeMembership"}
PlaceOf(r, s) == IF r.op = "accept" THEN s.invitation.center ELSE r.center

\* What a request has read of its account is as it was.
StillTrue(r, s) ==
    /\ r \in Request
    /\ r.op \in {"register", "accept"} => s.invitation \in Invitation
    /\ r.op \in AccountOperations =>
          /\ account[r.user].there
          /\ s.account = account[r.user]
          /\ s.membership = membership[r.user][PlaceOf(r, s)]
    /\ r.op \in MemberOperations => Member(r.user, r.center)
    /\ r.op \in {"createCenter", "accept"} => account[r.user].active

VisitsHold ==
    /\ visit = [v \in Visits |-> visit[v]]
    /\ \A v \in Visits : visit[v] # None => StillTrue(visit[v].request, visit[v].seen)

HomeTyped ==
    /\ account \in [Users -> Account]
    /\ membership \in [Users -> Places]
HomeRows == HomeTyped /\ AllHoused
HomeInv == HomeRows /\ VisitsHold

-----------------------------------------------------------------------------
(* Lemmas.                                                                   *)

\* A change to one account and its memberships.
LEMMA OneMoves ==
    ASSUME HomeRows, NEW u \in Users, NEW acc \in Account, NEW mem \in Places,
           account' = [account EXCEPT ![u] = acc],
           membership' = [membership EXCEPT ![u] = mem],
           Housed(acc, mem)
    PROVE  HomeRows'
<1>1. /\ account' \in [Users -> Account] /\ membership' \in [Users -> Places]
      /\ account'[u] = acc /\ membership'[u] = mem
      /\ \A w \in Users : w # u => /\ account'[w] = account[w]
                                   /\ membership'[w] = membership[w]
  BY DEF HomeRows, HomeTyped
<1>2. ASSUME NEW w \in Users PROVE Housed(account'[w], membership'[w])
  BY <1>1 DEF HomeRows, AllHoused
<1> QED BY <1>1, <1>2 DEF HomeRows, HomeTyped, AllHoused

\* When the one request leaves, nobody holds anything.
LEMMA NobodyWaits ==
    ASSUME OneVisit, VisitsHold, NEW v \in Visits, visit[v] # None, Leave(v)
    PROVE  VisitsHold'
<1>1. /\ visit' = [w \in Visits |-> visit'[w]] /\ visit'[v] = None
      /\ \A w \in Visits \ {v} : visit'[w] = None
  BY DEF Leave, VisitsHold, OneVisit
<1> QED BY <1>1 DEF VisitsHold

\* A membership that is made active, in one center, beside those there are.
LEMMA Housing ==
    ASSUME NEW acc \in Account, NEW mem \in Places, Housed(acc, mem), acc.there,
           NEW c \in Centers, NEW row \in Membership, row.active,
           NEW new \in Account, new.there, new.active,
           new.default = IF acc.default = None THEN c ELSE acc.default
    PROVE  /\ [mem EXCEPT ![c] = row] \in Places
           /\ Housed(new, [mem EXCEPT ![c] = row])
<1>1. row # None
  BY MembershipsAreThere
<1>2. CASE acc.default = None
  BY <1>1, <1>2 DEF Housed, Places
<1>3. CASE acc.default # None
  BY <1>1, <1>3, AccountsNone DEF Housed, Places, Account
<1> QED BY <1>2, <1>3

\* A membership that is taken away: the default moves to one that is left.
LEMMA Leaving ==
    ASSUME HomeRows, NEW u \in Users, NEW c \in Centers, Member(u, c),
           NEW next \in Centers \cup {None}, Successor(u, c, next),
           NEW new \in Account, new.there <=> account[u].there,
           new.active <=> account[u].active /\ next # None,
           new.default = IF next = None THEN None
                         ELSE IF account[u].default = c THEN next ELSE account[u].default
    PROVE  LET mem == [membership[u] EXCEPT ![c].active = FALSE]
           IN mem \in Places /\ Housed(new, mem)
<1> DEFINE gone == [membership[u][c] EXCEPT !.active = FALSE]
           mem == [membership[u] EXCEPT ![c] = gone]
<1>1. /\ membership[u] \in Places /\ membership[u][c] \in Membership
      /\ account[u] \in Account
  BY DEF HomeRows, HomeTyped, Member, Places
<1>2. gone \in Membership /\ ~gone.active /\ gone # None
  BY <1>1, MembershipsAreThere DEF Membership
<1> HIDE DEF gone
<1>3. /\ mem \in Places /\ ~mem[c].active
      /\ \A d \in Centers \ {c} : mem[d] = membership[u][d]
  BY <1>1, <1>2 DEF Places
<1> HIDE DEF mem
<1>4. account[u].active /\ account[u].there
  <2>1. Housed(account[u], membership[u])
    BY DEF HomeRows, AllHoused
  <2> QED BY <2>1 DEF Housed, Member
<1>5. CASE next = None
  <2>1. \A d \in Centers : mem[d] = None \/ ~mem[d].active
    BY <1>3, <1>5, AccountsNone DEF Successor, Others, Member
  <2> QED BY <1>3, <1>5, <2>1 DEF Housed, mem, gone
<1>6. CASE next # None
  <2>1. next \in Centers \ {c} /\ Member(u, next)
    BY <1>6 DEF Successor, Others
  <2>2. account[u].default \in Centers /\ Member(u, account[u].default)
    BY <1>4 DEF HomeRows, AllHoused, Housed, Member
  <2>3. new.default \in Centers \ {c} /\ Member(u, new.default)
    BY <1>6, <2>1, <2>2
  <2> QED BY <1>3, <1>4, <1>6, <2>3 DEF Housed, Member, mem, gone
<1> QED BY <1>5, <1>6

\* What a request reads is as it is while nothing else happens to its account.
LEMMA HomeArrive ==
    ASSUME LinksInv, HomeInv, NEW v \in Visits, NEW r \in Request, Arrive(v, r)
    PROVE  HomeInv'
<1>1. /\ UNCHANGED <<account, membership, invitation, center>> /\ Found(r)
      /\ visit' = [w \in Visits |-> visit'[w]]
  BY DEF Arrive, accountRows, HomeInv, VisitsHold
<1> DEFINE s == visit'[v].seen
<1>2. /\ visit'[v].request = r
      /\ s.account = account[r.user]
      /\ s.membership = membership[r.user][Concerned(r)]
      /\ s.invitation = invitation[r.invitation]
  BY DEF Arrive, HomeInv, VisitsHold
<1> HIDE DEF s
<1>3. r.user \in Users /\ r.center \in Centers /\ r.invitation \in Invitations
  BY DEF Request
<1>4. r.op \in {"register", "accept"} => s.invitation \in Invitation
  BY <1>1, <1>2, <1>3 DEF Found, MayRegister, MayAccept, LinksInv, LinksTyped
<1>5. r.op \in AccountOperations => Concerned(r) = PlaceOf(r, s)
  BY <1>2 DEF AccountOperations, Concerned, PlaceOf
<1>6. r.op \in MemberOperations => Member(r.user, r.center)
  BY <1>1 DEF MemberOperations, Found, MaySetDefault, MayUpdateUser, MayDeleteUser,
     MayRevokeMembership
<1>7. r.op \in {"createCenter", "accept"} => account[r.user].active
  BY <1>1 DEF Found, MayCreateCenter, MayAccept, SignedIn
<1>8. r.op \in AccountOperations => account[r.user].there
  <2>1. Housed(account[r.user], membership[r.user])
    BY <1>3 DEF HomeInv, HomeRows, AllHoused
  <2>2. r.op \in MemberOperations => account[r.user].there
    BY <1>3, <1>6, <2>1 DEF Housed, Member
  <2>3. r.op \in {"createCenter", "accept"} => account[r.user].there
    BY <1>1 DEF Found, MayCreateCenter, MayAccept, SignedIn
  <2>4. r.op = "grant" => account[r.user].there
    BY <1>1 DEF Found, MayGrant
  <2> QED BY <2>2, <2>3, <2>4 DEF AccountOperations, MemberOperations
<1>9. StillTrue(r, s)
  BY <1>2, <1>4, <1>5, <1>6, <1>7, <1>8 DEF StillTrue
<1>10. StillTrue(visit[v].request, visit[v].seen)'
  BY <1>1, <1>2, <1>9 DEF StillTrue, Member, s
<1>11. VisitsHold'
  <2>1. \A w \in Visits \ {v} : visit'[w] = visit[w]
    BY DEF Arrive, HomeInv, VisitsHold
  <2>2. ASSUME NEW w \in Visits \ {v}, visit'[w] # None
        PROVE  StillTrue(visit[w].request, visit[w].seen)'
    <3>1. visit'[w] = visit[w] /\ StillTrue(visit[w].request, visit[w].seen)
      BY <2>1, <2>2 DEF HomeInv, VisitsHold
    <3> QED BY <1>1, <3>1 DEF StillTrue, Member
  <2> QED BY <1>1, <1>10, <2>1, <2>2 DEF VisitsHold
<1> QED BY <1>1, <1>11 DEF HomeInv, HomeRows, HomeTyped, AllHoused

-----------------------------------------------------------------------------
(* The requests.                                                             *)

\* Requests that write to links, or to nothing.
LEMMA HomeLinks ==
    ASSUME HomeInv, OneVisit, NEW v \in Visits, visit[v] # None, Leave(v),
           UNCHANGED <<account, membership>>
    PROVE  HomeInv'
BY NobodyWaits DEF HomeInv, HomeRows, HomeTyped, AllHoused

LEMMA HomeCreateCenter ==
    ASSUME HomeInv, OneVisit, NEW v \in Visits, visit[v] # None,
           NEW c \in Centers, CreateCenter(v, c)
    PROVE  HomeInv'
<1> DEFINE r == visit[v].request
           u == r.user
           row == NewMembership("admin")
           mem == [membership[u] EXCEPT ![c] = row]
<1>1. /\ r.op = "createCenter" /\ Leave(v) /\ UNCHANGED <<account, invitation>>
      /\ membership' = [membership EXCEPT ![u][c] = row]
  BY DEF CreateCenter
<1>2. StillTrue(r, visit[v].seen) /\ u \in Users
  BY DEF HomeInv, VisitsHold, StillTrue, Request
<1>3. account[u].there /\ account[u].active
  BY <1>1, <1>2 DEF StillTrue, AccountOperations
<1>4. account[u] \in Account /\ membership[u] \in Places /\ Housed(account[u], membership[u])
  BY <1>2 DEF HomeInv, HomeRows, HomeTyped, AllHoused
<1>5. row \in Membership /\ row.active
  BY DEF NewMembership, Membership, Roles
<1>6. account[u].default # None
  BY <1>3, <1>4, AccountsNone DEF Housed
<1> HIDE DEF row, u
<1>7. mem \in Places /\ Housed(account[u], mem)
  BY <1>3, <1>4, <1>5, <1>6, Housing
<1>8. membership' = [membership EXCEPT ![u] = mem]
  BY <1>1
<1>9. account' = [account EXCEPT ![u] = account[u]]
  BY <1>1, <1>2 DEF HomeInv, HomeRows, HomeTyped
<1> HIDE DEF mem
<1>10. HomeRows'
  BY <1>1, <1>2, <1>4, <1>7, <1>8, <1>9, OneMoves DEF HomeInv, HomeRows, HomeTyped, u
<1> QED BY <1>1, <1>10, NobodyWaits DEF HomeInv

LEMMA HomeSetDefault ==
    ASSUME HomeInv, OneVisit, NEW v \in Visits, visit[v] # None, SetDefault(v)
    PROVE  HomeInv'
<1> DEFINE r == visit[v].request
           u == r.user
           acc == [account[u] EXCEPT !.default = r.center]
<1>1. StillTrue(r, visit[v].seen) /\ u \in Users /\ r.center \in Centers
      /\ r.op = "setDefault"
  BY DEF HomeInv, VisitsHold, StillTrue, Request, SetDefault
<1>2. /\ visit[v].seen.account = account[u] /\ Member(u, r.center)
      /\ account[u] \in Account /\ membership[u] \in Places
      /\ Housed(account[u], membership[u])
  BY <1>1 DEF StillTrue, AccountOperations, MemberOperations, HomeInv, HomeRows, HomeTyped,
     AllHoused
<1>3. account' = [account EXCEPT ![u] = acc]
  <2>1. account' = [account EXCEPT ![u].default =
                       Written(visit[v].seen.account.default, r.center, @)]
    BY DEF SetDefault
  <2>2. Written(visit[v].seen.account.default, r.center, account[u].default) = r.center
    BY <1>2 DEF Written
  <2> HIDE DEF r, u
  <2> QED BY <2>1, <2>2
<1>4. acc \in Account /\ Housed(acc, membership[u])
  <2>1. /\ acc \in Account /\ (acc.there <=> account[u].there) /\ acc.default = r.center
        /\ (acc.active <=> account[u].active)
    BY <1>1, <1>2 DEF Account
  <2>2. account[u].active
    BY <1>1, <1>2 DEF Housed, Member
  <2> HIDE DEF acc
  <2> QED BY <1>1, <1>2, <2>1, <2>2 DEF Housed, Member
<1>5. Leave(v) /\ UNCHANGED <<membership, invitation>>
  BY DEF SetDefault
<1>6. membership' = [membership EXCEPT ![u] = membership[u]]
  BY <1>1, <1>5 DEF HomeInv, HomeRows, HomeTyped
<1> HIDE DEF acc, u
<1>7. HomeRows'
  BY <1>1, <1>2, <1>3, <1>4, <1>5, <1>6, OneMoves DEF HomeInv, HomeRows, HomeTyped
<1> QED BY <1>5, <1>7, NobodyWaits DEF HomeInv

\* A user of the center is added, by its administrator or by a link.
LEMMA HomeNewUser ==
    ASSUME HomeRows, NEW u \in Users, ~account[u].there,
           NEW c \in Centers, NEW role \in Roles,
           account' = [account EXCEPT ![u] = NewAccount(c)],
           membership' = [membership EXCEPT ![u][c] = NewMembership(role)]
    PROVE  HomeRows'
<1> DEFINE row == NewMembership(role)
           acc == NewAccount(c)
           mem == [membership[u] EXCEPT ![c] = row]
<1>1. row \in Membership /\ row.active /\ row # None
  <2>1. row \in Membership /\ row.active
    BY DEF NewMembership, Membership
  <2> QED BY <2>1, MembershipsAreThere
<1>2. acc \in Account /\ acc.there /\ acc.active /\ acc.default = c
  BY DEF NewAccount, Account
<1>3. membership[u] \in Places
  BY DEF HomeRows, HomeTyped
<1> HIDE DEF row, acc
<1>4. mem \in Places /\ Housed(acc, mem)
  BY <1>1, <1>2, <1>3 DEF Housed, Places
<1>5. account' = [account EXCEPT ![u] = acc] /\ membership' = [membership EXCEPT ![u] = mem]
  BY DEF acc, row
<1> HIDE DEF mem
<1> QED BY <1>2, <1>4, <1>5, OneMoves

LEMMA HomeRegister ==
    ASSUME HomeInv, OneVisit, NEW v \in Visits, visit[v] # None, Register(v)
    PROVE  HomeInv'
<1> DEFINE r == visit[v].request
           s == visit[v].seen
<1>1. StillTrue(r, s) /\ r.op = "register" /\ Leave(v)
  BY DEF HomeInv, VisitsHold, Register, Fail
<1>2. /\ r.user \in Users /\ r.invitation \in Invitations
      /\ s.invitation.center \in Centers /\ s.invitation.role \in Roles
  BY <1>1 DEF StillTrue, Request, Invitation
<1>3. CASE UNCHANGED <<account, membership>>
  BY <1>1, <1>3, HomeLinks DEF HomeInv, HomeRows, HomeTyped
<1>4. CASE /\ ~account[r.user].there
           /\ account' = [account EXCEPT ![r.user] = NewAccount(s.invitation.center)]
           /\ membership' = [membership EXCEPT ![r.user][s.invitation.center] =
                                NewMembership(s.invitation.role)]
  <2> HIDE DEF r, s
  <2>1. HomeRows'
    BY <1>2, <1>4, HomeNewUser DEF HomeInv
  <2> QED BY <1>1, <2>1, NobodyWaits DEF HomeInv
<1> QED BY <1>3, <1>4 DEF Register, Fail, accountRows

LEMMA HomeCreateUser ==
    ASSUME HomeInv, OneVisit, NEW v \in Visits, visit[v] # None, CreateUser(v)
    PROVE  HomeInv'
<1> DEFINE r == visit[v].request
<1>1. Leave(v) /\ UNCHANGED invitation
  BY DEF CreateUser, Fail, accountRows
<1>2. r.user \in Users /\ r.center \in Centers /\ r.role \in Roles
  BY DEF HomeInv, VisitsHold, StillTrue, Request
<1>3. CASE UNCHANGED <<account, membership>>
  BY <1>1, <1>3, HomeLinks DEF HomeInv, HomeRows, HomeTyped
<1>4. CASE /\ ~account[r.user].there
           /\ account' = [account EXCEPT ![r.user] = NewAccount(r.center)]
           /\ membership' = [membership EXCEPT ![r.user][r.center] = NewMembership(r.role)]
  <2> HIDE DEF r
  <2>1. HomeRows'
    BY <1>2, <1>4, HomeNewUser DEF HomeInv
  <2> QED BY <1>1, <2>1, NobodyWaits DEF HomeInv
<1> QED BY <1>3, <1>4 DEF CreateUser, Fail, accountRows

\* What accepting a link and being granted a membership have in common.
LEMMA HomeJoins ==
    ASSUME HomeRows, NEW u \in Users, NEW c \in Centers, NEW role \in Roles, NEW s,
           account[u].there, s.account = account[u], s.membership = membership[u][c],
           account' = [account EXCEPT ![u] = Activated(s, u, c)],
           membership' = [membership EXCEPT ![u][c] = Joined(s, u, c, role)]
    PROVE  HomeRows'
<1> DEFINE row == Joined(s, u, c, role)
           acc == Activated(s, u, c)
           mem == [membership[u] EXCEPT ![c] = row]
<1>1. /\ account[u] \in Account /\ membership[u] \in Places
      /\ Housed(account[u], membership[u])
      /\ membership[u][c] \in Membership \cup {None}
  BY DEF HomeRows, HomeTyped, AllHoused, Places
<1>2. row \in Membership /\ row.active
  <2>1. CASE s.membership = None
    BY <2>1 DEF Joined, NewMembership, Membership
  <2>2. CASE s.membership # None
    <3>1. row = [role |-> Written(membership[u][c].role, role, membership[u][c].role),
                 active |-> Written(membership[u][c].active, TRUE, membership[u][c].active)]
      BY <2>2 DEF Joined
    <3>2. membership[u][c].role \in Roles /\ membership[u][c].active \in BOOLEAN
      BY <1>1, <2>2 DEF Membership
    <3>3. Written(membership[u][c].role, role, membership[u][c].role) \in Roles
      BY <3>2 DEF Written
    <3>4. Written(membership[u][c].active, TRUE, membership[u][c].active) = TRUE
      BY <3>2 DEF Written
    <3> DEFINE now == Written(membership[u][c].role, role, membership[u][c].role)
    <3>5. row = [role |-> now, active |-> TRUE] /\ now \in Roles
      BY <3>1, <3>3, <3>4
    <3> HIDE DEF row, now
    <3> QED BY <3>5 DEF Membership
  <2> QED BY <2>1, <2>2
<1>3. /\ acc \in Account /\ acc.there /\ acc.active
      /\ acc.default = IF account[u].default = None THEN c ELSE account[u].default
  <2>1. Written(account[u].active, TRUE, account[u].active) = TRUE
    BY <1>1 DEF Written, Account
  <2>2. acc = [account[u] EXCEPT
                  !.default = IF account[u].default = None THEN c ELSE account[u].default,
                  !.active = TRUE]
    BY <2>1 DEF Activated
  <2> HIDE DEF acc
  <2> QED BY <1>1, <2>2 DEF Account
<1> HIDE DEF row, acc
<1>4. mem \in Places /\ Housed(acc, mem)
  BY <1>1, <1>2, <1>3, Housing
<1>5. account' = [account EXCEPT ![u] = acc] /\ membership' = [membership EXCEPT ![u] = mem]
  BY DEF acc, row
<1> HIDE DEF mem
<1> QED BY <1>3, <1>4, <1>5, OneMoves

LEMMA HomeAccept ==
    ASSUME HomeInv, OneVisit, NEW v \in Visits, visit[v] # None, Accept(v)
    PROVE  HomeInv'
<1> DEFINE r == visit[v].request
           s == visit[v].seen
           c == s.invitation.center
<1>1. StillTrue(r, s) /\ r.op = "accept" /\ Leave(v)
  BY DEF HomeInv, VisitsHold, Accept, Fail
<1>2. /\ r.user \in Users /\ r.invitation \in Invitations
      /\ c \in Centers /\ s.invitation.role \in Roles
      /\ account[r.user].there /\ s.account = account[r.user]
      /\ s.membership = membership[r.user][c]
  BY <1>1 DEF StillTrue, Request, Invitation, AccountOperations, PlaceOf
<1>3. CASE UNCHANGED <<account, membership>>
  BY <1>1, <1>3, HomeLinks DEF HomeInv, HomeRows, HomeTyped
<1>4. CASE /\ account' = [account EXCEPT ![r.user] = Activated(s, r.user, c)]
           /\ membership' = [membership EXCEPT ![r.user][c] =
                                Joined(s, r.user, c, s.invitation.role)]
  <2> HIDE DEF r, s, c
  <2>1. HomeRows'
    BY <1>2, <1>4, HomeJoins DEF HomeInv
  <2> QED BY <1>1, <2>1, NobodyWaits DEF HomeInv
<1> QED BY <1>3, <1>4 DEF Accept, Fail, accountRows

LEMMA HomeGrant ==
    ASSUME HomeInv, OneVisit, NEW v \in Visits, visit[v] # None, Grant(v)
    PROVE  HomeInv'
<1> DEFINE r == visit[v].request
           s == visit[v].seen
<1>1. StillTrue(r, s) /\ r.op = "grant" /\ Leave(v) /\ UNCHANGED invitation
  BY DEF HomeInv, VisitsHold, Grant, Fail, accountRows
<1>2. /\ r.user \in Users /\ r.center \in Centers /\ r.role \in Roles
      /\ account[r.user].there /\ s.account = account[r.user]
      /\ s.membership = membership[r.user][r.center]
  BY <1>1 DEF StillTrue, Request, AccountOperations, PlaceOf
<1>3. CASE UNCHANGED <<account, membership>>
  BY <1>1, <1>3, HomeLinks DEF HomeInv, HomeRows, HomeTyped
<1>4. CASE /\ account' = [account EXCEPT ![r.user] = Activated(s, r.user, r.center)]
           /\ membership' = [membership EXCEPT ![r.user][r.center] =
                                Joined(s, r.user, r.center, r.role)]
  <2> HIDE DEF r, s
  <2>1. HomeRows'
    BY <1>2, <1>4, HomeJoins DEF HomeInv
  <2> QED BY <1>1, <2>1, NobodyWaits DEF HomeInv
<1> QED BY <1>3, <1>4 DEF Grant, Fail, accountRows

LEMMA HomeUpdateUser ==
    ASSUME HomeInv, OneVisit, NEW v \in Visits, visit[v] # None, UpdateUser(v)
    PROVE  HomeInv'
<1> DEFINE r == visit[v].request
           u == r.user
           c == r.center
           role == Written(visit[v].seen.membership.role, r.role, membership[u][c].role)
           row == [membership[u][c] EXCEPT !.role = role]
           mem == [membership[u] EXCEPT ![c] = row]
<1>1. StillTrue(r, visit[v].seen) /\ r.op = "updateUser"
  BY DEF HomeInv, VisitsHold, UpdateUser
<1>2. u \in Users /\ c \in Centers /\ r.role \in Roles /\ Member(u, c)
  BY <1>1 DEF StillTrue, Request, MemberOperations
<1>3. /\ account[u] \in Account /\ membership[u] \in Places
      /\ Housed(account[u], membership[u])
      /\ membership[u][c] \in Membership
  BY <1>2 DEF HomeInv, HomeRows, HomeTyped, AllHoused, Places, Member
<1>4. /\ Leave(v) /\ UNCHANGED <<account, invitation>>
      /\ membership' = [membership EXCEPT ![u] = mem]
  BY DEF UpdateUser
<1>5. role \in Roles
  BY <1>2, <1>3 DEF Written, Membership
<1> HIDE DEF role
<1>6. row \in Membership /\ row.active = membership[u][c].active
  BY <1>3, <1>5 DEF Membership
<1> HIDE DEF row, u, c
<1>7. mem \in Places /\ Housed(account[u], mem)
  <2>1. /\ mem \in Places /\ mem[c] = row
        /\ \A d \in Centers \ {c} : mem[d] = membership[u][d]
    BY <1>2, <1>3, <1>6 DEF Places
  <2>2. row # None /\ membership[u][c] # None
    BY <1>3, <1>6, MembershipsAreThere
  <2> HIDE DEF mem
  <2> QED BY <1>3, <1>6, <2>1, <2>2 DEF Housed
<1>8. account' = [account EXCEPT ![u] = account[u]]
  BY <1>2, <1>4 DEF HomeInv, HomeRows, HomeTyped
<1> HIDE DEF mem
<1>9. HomeRows'
  BY <1>2, <1>3, <1>4, <1>7, <1>8, OneMoves DEF HomeInv, HomeRows, HomeTyped
<1> QED BY <1>4, <1>9, NobodyWaits DEF HomeInv

LEMMA HomeDeleteUser ==
    ASSUME HomeInv, OneVisit, NEW v \in Visits, visit[v] # None, DeleteUser(v)
    PROVE  HomeInv'
<1> DEFINE r == visit[v].request
           s == visit[v].seen
           u == r.user
           c == r.center
<1>1. StillTrue(r, s) /\ r.op = "deleteUser"
  BY DEF HomeInv, VisitsHold, DeleteUser
<1>2. u \in Users /\ c \in Centers /\ Member(u, c) /\ s.account = account[u]
  BY <1>1 DEF StillTrue, Request, MemberOperations, AccountOperations
<1>3. account[u] \in Account /\ Housed(account[u], membership[u])
  BY <1>2 DEF HomeInv, HomeRows, HomeTyped, AllHoused
<1>4. account[u].active \in BOOLEAN /\ account[u].default \in Centers \cup {None}
  BY <1>3 DEF Account
<1>5. account[u].active /\ account[u].there
  BY <1>2, <1>3 DEF Housed, Member
<1>6. PICK next \in Centers \cup {None} :
         /\ Successor(u, c, next)
         /\ account' = [account EXCEPT
                ![u].default =
                    IF next = None THEN Written(s.account.default, None, @)
                    ELSE IF s.account.default = c THEN next ELSE @,
                ![u].active =
                    IF next = None THEN Written(s.account.active, FALSE, @) ELSE @]
  BY DEF DeleteUser
<1>7. Leave(v) /\ UNCHANGED invitation /\ membership' = Deactivated(u, c)
  BY DEF DeleteUser
<1> DEFINE default == IF next = None THEN None
                      ELSE IF account[u].default = c THEN next ELSE account[u].default
           active == IF next = None THEN FALSE ELSE account[u].active
           acc == [account[u] EXCEPT !.default = default, !.active = active]
           mem == [membership[u] EXCEPT ![c].active = FALSE]
<1>8. account' = [account EXCEPT ![u] = acc]
  <2>1. (IF next = None THEN Written(s.account.default, None, account[u].default)
         ELSE IF s.account.default = c THEN next ELSE account[u].default) = default
    BY <1>2 DEF Written
  <2>2. (IF next = None THEN Written(s.account.active, FALSE, account[u].active)
         ELSE account[u].active) = active
    BY <1>2, <1>5 DEF Written
  <2>3. account \in [Users -> Account]
    BY DEF HomeInv, HomeRows, HomeTyped
  <2> HIDE DEF r, s, u, c, default, active
  <2> QED BY <1>2, <1>3, <1>6, <2>1, <2>2, <2>3 DEF Account
<1>9. /\ acc \in Account /\ (acc.there <=> account[u].there)
      /\ (acc.active <=> account[u].active /\ next # None)
      /\ acc.default = default
  <2>1. default \in Centers \cup {None} /\ active \in BOOLEAN
    BY <1>4
  <2>2. active <=> account[u].active /\ next # None
    OBVIOUS
  <2> HIDE DEF default, active
  <2> QED BY <1>3, <2>1, <2>2 DEF Account
<1> HIDE DEF acc
<1>10. mem \in Places /\ Housed(acc, mem)
  <2> HIDE DEF u, c
  <2> QED BY <1>2, <1>6, <1>9, Leaving DEF HomeInv
<1>11. membership' = [membership EXCEPT ![u] = mem]
  BY <1>7 DEF Deactivated
<1> HIDE DEF mem, u
<1>12. HomeRows'
  BY <1>2, <1>7, <1>8, <1>9, <1>10, <1>11, OneMoves DEF HomeInv, HomeRows, HomeTyped
<1> QED BY <1>7, <1>12, NobodyWaits DEF HomeInv

LEMMA HomeRevoke ==
    ASSUME HomeInv, OneVisit, NEW v \in Visits, visit[v] # None, RevokeMembership(v)
    PROVE  HomeInv'
<1> DEFINE r == visit[v].request
           u == r.user
           c == r.center
<1>1. StillTrue(r, visit[v].seen) /\ r.op = "revokeMembership"
  BY DEF HomeInv, VisitsHold, RevokeMembership
<1>2. u \in Users /\ c \in Centers /\ Member(u, c)
  BY <1>1 DEF StillTrue, Request, MemberOperations
<1>3. account[u] \in Account /\ Housed(account[u], membership[u])
  BY <1>2 DEF HomeInv, HomeRows, HomeTyped, AllHoused
<1>4. /\ account[u].active \in BOOLEAN /\ account[u].active
      /\ account[u].default \in Centers /\ Member(u, account[u].default)
  BY <1>2, <1>3 DEF Account, Housed, Member
<1>5. PICK next \in Centers \cup {None} :
         /\ Successor(u, c, next)
         /\ account' = [account EXCEPT ![u] = MovesDefault(u, c, next)]
  BY DEF RevokeMembership
<1>6. Leave(v) /\ UNCHANGED invitation /\ membership' = Deactivated(u, c)
  BY DEF RevokeMembership
<1> DEFINE acc == MovesDefault(u, c, next)
           mem == [membership[u] EXCEPT ![c].active = FALSE]
<1>7. account[u].default # c => next # None
  <2>1. account[u].default # c => account[u].default \in Others(u, c)
    BY <1>4 DEF Others
  <2> QED BY <1>5, <2>1, AccountsNone DEF Successor, Others
<1>8. /\ acc \in Account /\ (acc.there <=> account[u].there)
      /\ (acc.active <=> account[u].active /\ next # None)
      /\ acc.default = IF next = None THEN None
                       ELSE IF account[u].default = c THEN next ELSE account[u].default
  <2>1. CASE account[u].default = c
    <3>1. (account[u].active /\ next # None) \in BOOLEAN
      OBVIOUS
    <3>2. acc = [account[u] EXCEPT !.default = next,
                                   !.active = account[u].active /\ next # None]
      BY <2>1 DEF MovesDefault
    <3> HIDE DEF acc, u, c
    <3> QED BY <1>3, <2>1, <3>1, <3>2 DEF Account
  <2>2. CASE account[u].default # c
    BY <1>3, <1>7, <2>2 DEF MovesDefault
  <2> QED BY <2>1, <2>2
<1> HIDE DEF acc
<1>9. mem \in Places /\ Housed(acc, mem)
  <2> HIDE DEF u, c
  <2> QED BY <1>2, <1>5, <1>8, Leaving DEF HomeInv
<1>10. account' = [account EXCEPT ![u] = acc] /\ membership' = [membership EXCEPT ![u] = mem]
  BY <1>5, <1>6 DEF Deactivated, acc
<1> HIDE DEF mem, u
<1>11. HomeRows'
  BY <1>2, <1>6, <1>8, <1>9, <1>10, OneMoves DEF HomeInv, HomeRows, HomeTyped
<1> QED BY <1>6, <1>11, NobodyWaits DEF HomeInv

\* An administrator makes links and withdraws them.
LEMMA HomeInvitations ==
    ASSUME HomeInv, OneVisit, NEW v \in Visits, visit[v] # None,
           Invite(v) \/ RevokeInvitation(v) \/ \E new \in Invitations : Resend(v, new)
    PROVE  HomeInv'
<1>1. Leave(v) /\ UNCHANGED <<account, membership>>
  BY DEF Invite, RevokeInvitation, Resend
<1> QED BY <1>1, HomeLinks

LEMMA HomeDepart ==
    ASSUME HomeInv, OneVisit, NEW v \in Visits, Depart(v)
    PROVE  HomeInv'
BY HomeCreateCenter, HomeSetDefault, HomeRegister, HomeAccept, HomeCreateUser,
   HomeUpdateUser, HomeDeleteUser, HomeGrant, HomeRevoke, HomeInvitations DEF Depart

\* A new account, of somebody no request in progress has found.
LEMMA HomeSignUp ==
    ASSUME HomeInv, NEW u \in Users, NEW c \in Centers, SignUp(u, c)
    PROVE  HomeInv'
<1>1. HomeRows'
  BY HomeNewUser DEF SignUp, HomeInv, Roles
<1>2. /\ visit' = visit
      /\ \A w \in Users : account[w].there =>
            account'[w] = account[w] /\ membership'[w] = membership[w]
  BY DEF SignUp, HomeInv, HomeRows, HomeTyped
<1>3. ASSUME NEW v \in Visits, visit[v] # None
      PROVE  StillTrue(visit[v].request, visit[v].seen)'
  <2> DEFINE r == visit[v].request
  <2>1. StillTrue(r, visit[v].seen) /\ visit'[v] = visit[v]
    BY <1>2, <1>3 DEF HomeInv, VisitsHold
  <2>2. r.user \in Users
    BY <2>1 DEF StillTrue, Request
  <2>3. r.op \in AccountOperations =>
           account'[r.user] = account[r.user] /\ membership'[r.user] = membership[r.user]
    BY <1>2, <2>1, <2>2 DEF StillTrue
  <2>4. r.op \in MemberOperations \cup {"createCenter", "accept"} => r.op \in AccountOperations
    BY DEF MemberOperations, AccountOperations
  <2> QED BY <2>1, <2>2, <2>3, <2>4 DEF StillTrue, Member
<1> QED BY <1>1, <1>2, <1>3 DEF HomeInv, VisitsHold

-----------------------------------------------------------------------------
\* Of requests that come one at a time, none leaves an account that signs in to
\* a center it is not served for, or one that keeps a membership and cannot sign
\* in (accept_invitation, grant_user_membership, delete_user,
\* revoke_user_membership against get_me and get_tenant_context).
THEOREM AccountsStayAtHome == AccountsSpec => HomeOneByOne
<1>1. AccountsInit => HomeInv
  <2> SUFFICES ASSUME AccountsInit PROVE HomeInv
    OBVIOUS
  <2>1. HomeTyped
    BY DEF AccountsInit, HomeTyped, Account, Places
  <2>2. AllHoused
    BY DEF AccountsInit, AllHoused, Housed
  <2>3. VisitsHold
    BY DEF AccountsInit, VisitsHold
  <2> QED BY <2>1, <2>2, <2>3 DEF HomeInv, HomeRows
<1>2. LinksInv /\ HomeInv /\ OneVisit /\ [AccountsNext]_accountVars => HomeInv'
  <2> SUFFICES ASSUME LinksInv, HomeInv, OneVisit, [AccountsNext]_accountVars PROVE HomeInv'
    OBVIOUS
  <2>1. CASE \E v \in Visits, r \in Request : Arrive(v, r)
    BY <2>1, HomeArrive
  <2>2. CASE \E v \in Visits : Depart(v)
    BY <2>2, HomeDepart
  <2>3. CASE \E u \in Users, c \in Centers : SignUp(u, c)
    BY <2>3, HomeSignUp
  <2>4. CASE UNCHANGED <<account, membership, visit>>
    BY <2>4 DEF HomeInv, HomeRows, HomeTyped, AllHoused, VisitsHold, StillTrue, Member
  <2>5. (\E c \in Centers, status \in Statuses \ {"pending"} : SetStatus(c, status))
            => UNCHANGED <<account, membership, visit>>
    BY DEF SetStatus
  <2>6. (\E i \in Invitations : Expire(i)) => UNCHANGED <<account, membership, visit>>
    BY DEF Expire
  <2>7. UNCHANGED accountVars => UNCHANGED <<account, membership, visit>>
    BY DEF accountVars, accountRows
  <2> QED BY <2>1, <2>2, <2>3, <2>4, <2>5, <2>6, <2>7 DEF AccountsNext
<1>3. HomeInv => AccountsAtHome
  <2> SUFFICES ASSUME HomeInv, NEW u \in Users, account[u].there
               PROVE  /\ account[u].active <=> MyCenters(u) # {}
                      /\ account[u].active =>
                            \A c \in Centers : Opens(u, c) =>
                                /\ Member(u, c)
                                /\ ServedAt(u, c) <=> center[c].status = "active"
                                /\ c = PreferredCenter(u)
    BY DEF AccountsAtHome
  <2>1. Housed(account[u], membership[u])
    BY DEF HomeInv, HomeRows, AllHoused
  <2>2. CASE account[u].active
    <3>1. account[u].default # None /\ account[u].default \in MyCenters(u)
      BY <2>1, <2>2, AccountsNone DEF Housed, MyCenters, Member
    <3>2. PreferredCenter(u) = account[u].default
      BY <3>1 DEF PreferredCenter
    <3>3. ASSUME NEW c \in Centers, Opens(u, c)
          PROVE  Member(u, c) /\ c = PreferredCenter(u)
      BY <3>1, <3>2, <3>3 DEF Opens, MyCenters
    <3>4. \A c \in Centers : Member(u, c) => (ServedAt(u, c) <=> center[c].status = "active")
      BY AccountsNone DEF ServedAt, Member
    <3> QED BY <2>2, <3>1, <3>3, <3>4
  <2>3. CASE ~account[u].active
    BY <2>1, <2>3 DEF Housed, MyCenters, Member
  <2> QED BY <2>2, <2>3
<1>4. AccountsSpec => []LinksInv
  BY LinksHold
<1> QED BY <1>1, <1>2, <1>3, <1>4, PTL DEF AccountsSpec, HomeOneByOne

-----------------------------------------------------------------------------
(***************************************************************************)
(* Students: an application becomes one student, however many decisions    *)
(* overlap: the row is locked, and a decided one is not decided again.     *)
(***************************************************************************)

\* What the argument needs of the types.
ApplicationsTyped ==
    /\ application \in [Applications -> Application \cup {None}]
    /\ made \in [Applications -> SUBSET Learners]

\* Nobody has come of an application that waits for its decision.
PendingHasNobody ==
    \A a \in Applications :
        application[a] # None /\ application[a].status = "pending" => application[a].student = None

ApplicationsInvariant == ApplicationsTyped /\ PendingHasNobody /\ OneStudentPerApplication

LEMMA SameApplications ==
    ASSUME ApplicationsInvariant, UNCHANGED <<application, made>>
    PROVE  ApplicationsInvariant'
BY DEF ApplicationsInvariant, ApplicationsTyped, PendingHasNobody, OneStudentPerApplication

\* The student of an application goes with the student.
LEMMA WithoutKeepsApplications ==
    ASSUME ApplicationsInvariant, NEW gone, Without(gone)
    PROVE  ApplicationsInvariant'
<1> DEFINE emptied(a) == [application[a] EXCEPT !.student = None]
<1>1. ASSUME NEW a \in Applications, application[a] # None
      PROVE  /\ application[a] \in Application
             /\ emptied(a) \in Application /\ emptied(a).status = application[a].status
             /\ emptied(a).student = None
    <2>1. application[a] \in Application
        BY <1>1 DEF ApplicationsInvariant, ApplicationsTyped
    <2> QED BY <2>1 DEF Application
<1>2. ASSUME NEW a \in Applications
      PROVE  /\ made'[a] = made[a] \ gone
             /\ application'[a] = IF application[a] # None /\ application[a].student \in gone
                                  THEN emptied(a) ELSE application[a]
    BY DEF Without
<1> HIDE DEF emptied
<1>3. ApplicationsTyped'
    <2>1. made' \in [Applications -> SUBSET Learners]
        BY DEF Without, ApplicationsInvariant, ApplicationsTyped
    <2>2. \A a \in Applications : application'[a] \in Application \cup {None}
        BY <1>1, <1>2
    <2>3. application' = [a \in Applications |-> application'[a]]
        BY DEF Without
    <2> QED BY <2>1, <2>2, <2>3 DEF ApplicationsTyped
<1>4. PendingHasNobody'
    BY <1>1, <1>2 DEF ApplicationsInvariant, PendingHasNobody
<1>5. ASSUME NEW a \in Applications
      PROVE  made'[a] = IF application'[a] = None \/ application'[a].student = None THEN {}
                        ELSE {application'[a].student}
    <2>1. CASE application[a] = None
        BY <1>2, <2>1 DEF ApplicationsInvariant, OneStudentPerApplication
    <2>2. CASE application[a] # None /\ application[a].student \in gone
        <3>1. made[a] \subseteq {application[a].student}
            BY <2>2 DEF ApplicationsInvariant, OneStudentPerApplication
        <3> QED BY <1>1, <1>2, <2>2, <3>1
    <2>3. CASE application[a] # None /\ application[a].student \notin gone
        <3>1. application'[a] = application[a] /\ application'[a] # None
            BY <1>2, <2>3
        <3>2. CASE application[a].student = None
            BY <1>2, <2>3, <3>1, <3>2 DEF ApplicationsInvariant, OneStudentPerApplication
        <3>3. CASE application[a].student # None
            <4>1. made[a] = {application[a].student}
                BY <2>3, <3>3 DEF ApplicationsInvariant, OneStudentPerApplication
            <4> QED BY <1>2, <2>3, <3>1, <3>3, <4>1
        <3> QED BY <3>2, <3>3
    <2> QED BY <2>1, <2>2, <2>3
<1>6. OneStudentPerApplication'
    BY <1>5 DEF OneStudentPerApplication
<1> QED BY <1>3, <1>4, <1>6 DEF ApplicationsInvariant

\* One application gets another row.
LEMMA OneApplication ==
    ASSUME ApplicationsInvariant, NEW a \in Applications, NEW new \in Application,
           new.status = "pending" => new.student = None,
           application' = [application EXCEPT ![a] = new],
           NEW S \in SUBSET Learners, S = IF new.student = None THEN {} ELSE {new.student},
           made' = [made EXCEPT ![a] = S]
    PROVE  ApplicationsInvariant'
<1>1. new # None
    BY StudentRowsAreThere
<1>2. /\ application'[a] = new /\ made'[a] = S
      /\ \A b \in Applications \ {a} : application'[b] = application[b] /\ made'[b] = made[b]
    BY DEF ApplicationsInvariant, ApplicationsTyped
<1>3. ApplicationsTyped'
    BY DEF ApplicationsInvariant, ApplicationsTyped
<1> QED BY <1>1, <1>2, <1>3
        DEF ApplicationsInvariant, PendingHasNobody, OneStudentPerApplication

LEMMA ApproveOnce ==
    ASSUME ApplicationsInvariant, NEW a \in Applications, NEW s \in Learners,
           NEW t \in Sheikhs \cup {None}, Approve(a, s, t)
    PROVE  ApplicationsInvariant'
<1> DEFINE new == [status |-> "approved", student |-> s]
<1>1. made[a] = {}
    BY DEF Approve, Claimable, ApplicationsInvariant, PendingHasNobody, OneStudentPerApplication
<1>2. made' = [made EXCEPT ![a] = {s}] /\ application' = [application EXCEPT ![a] = new]
    BY <1>1 DEF Approve
<1>3. new \in Application /\ new.status # "pending" /\ {s} \in SUBSET Learners
      /\ new.student = s /\ s # None
    BY StudentsAssumption DEF Application
<1> HIDE DEF new
<1> QED BY <1>2, <1>3, OneApplication

LEMMA SubmitAndReject ==
    ASSUME ApplicationsInvariant, NEW a \in Applications, Submit(a) \/ Reject(a)
    PROVE  ApplicationsInvariant'
<1>1. made' = [made EXCEPT ![a] = made[a]]
    BY DEF Submit, Reject, ApplicationsInvariant, ApplicationsTyped
<1>2. CASE Submit(a)
    <2> DEFINE new == [status |-> "pending", student |-> None]
    <2>1. application' = [application EXCEPT ![a] = new] /\ made[a] = {}
        BY <1>2 DEF Submit, ApplicationsInvariant, OneStudentPerApplication
    <2>2. new \in Application /\ new.student = None
        BY DEF Application
    <2> HIDE DEF new
    <2> QED BY <1>1, <2>1, <2>2, OneApplication
<1>3. CASE Reject(a)
    <2> DEFINE new == [application[a] EXCEPT !.status = "rejected"]
    <2>1. /\ application[a] \in Application /\ application[a].student = None /\ made[a] = {}
          /\ application' = [application EXCEPT ![a] = new]
        BY <1>3 DEF Reject, Claimable, ApplicationsInvariant, ApplicationsTyped, PendingHasNobody,
                    OneStudentPerApplication
    <2>2. new \in Application /\ new.student = None
        BY <2>1 DEF Application
    <2> HIDE DEF new
    <2> QED BY <1>1, <2>1, <2>2, OneApplication
<1> QED BY <1>2, <1>3

LEMMA SettleKeepsApplications ==
    ASSUME ApplicationsInvariant, NEW k \in Clerks, Settle(k)
    PROVE  ApplicationsInvariant'
<1>1. \/ UNCHANGED <<application, made>>
      \/ \E gone : Without(gone)
    <2>1. CASE \E s \in Learners : CreateStudent(k, s)
        BY <2>1 DEF CreateStudent, Undone, studentRows
    <2>2. CASE Move(k)
        BY <2>2 DEF Move, Undone, studentRows
    <2>3. CASE DeleteStudent(k)
        BY <2>3 DEF DeleteStudent, Undone, studentRows
    <2>4. CASE DeleteSheikh(k)
        BY <2>4 DEF DeleteSheikh, Undone, studentRows
    <2>5. CASE \E p \in Periods : CreatePeriod(k, p)
        BY <2>5 DEF CreatePeriod, KeepsAllButPeriods, Undone, studentRows
    <2>6. CASE UpdatePeriod(k) \/ CancelPeriod(k)
        BY <2>6 DEF UpdatePeriod, CancelPeriod, KeepsAllButPeriods, Undone, studentRows
    <2>7. CASE Deliver(k) \/ Refused(k)
        BY <2>7 DEF Deliver, Refused, Undone, studentRows
    <2>8. CASE (\E w \in Warnings : AddWarning(k, w)) \/ MarkSent(k)
        BY <2>8 DEF AddWarning, MarkSent, KeepsAllButWarnings, Undone, studentRows
    <2> QED BY <2>1, <2>2, <2>3, <2>4, <2>5, <2>6, <2>7, <2>8 DEF Settle
<1> QED BY <1>1, SameApplications, WithoutKeepsApplications

LEMMA ApplicationsStart == StudentsInit => ApplicationsInvariant
BY DEF StudentsInit, ApplicationsInvariant, ApplicationsTyped, PendingHasNobody,
       OneStudentPerApplication

LEMMA ApplicationsStep ==
    ASSUME ApplicationsInvariant, [StudentsNext]_studentsVars PROVE ApplicationsInvariant'
<1>1. ASSUME \/ \E k \in Clerks, r \in Errand : Fetch(k, r)
             \/ \E t \in Sheikhs : CreateSheikh(t)
             \/ \E s \in Learners : Record(s)
             \/ \E w \in Warnings : DeleteWarning(w)
             \/ UNCHANGED studentsVars
      PROVE  ApplicationsInvariant'
    BY <1>1, SameApplications
    DEF Fetch, CreateSheikh, Record, DeleteWarning, KeepsAllButWarnings, studentsVars, studentRows
<1>2. ASSUME NEW k \in Clerks, Settle(k) PROVE ApplicationsInvariant'
    BY <1>2, SettleKeepsApplications
<1>3. ASSUME NEW a \in Applications, Submit(a) \/ Reject(a) PROVE ApplicationsInvariant'
    BY <1>3, SubmitAndReject
<1>4. ASSUME NEW a \in Applications, NEW s \in Learners, NEW t \in Sheikhs \cup {None},
             Approve(a, s, t)
      PROVE  ApplicationsInvariant'
    BY <1>4, ApproveOnce
<1> QED BY <1>1, <1>2, <1>3, <1>4 DEF StudentsNext

\* However many administrators decide an application at once, and whoever deletes the
\* student who came of it, at most one student comes of it, the one it names: the claim is
\* a conditional UPDATE in the transaction that makes the student (student_registration.py).
THEOREM ApplicationsMakeOneStudent == StudentsSpec => []OneStudentPerApplication
<1>1. ApplicationsInvariant => OneStudentPerApplication
    BY DEF ApplicationsInvariant
<1> QED BY <1>1, ApplicationsStart, ApplicationsStep, PTL DEF StudentsSpec

-----------------------------------------------------------------------------
(***************************************************************************)
(* Excused periods, one request at a time: what a request has found free   *)
(* is free when it writes, and an early return only shortens.              *)
(***************************************************************************)

\* What a clerk holds, and what a message that is accepted leaves of it.
ErrandsKept ==
    /\ errand = [k \in Clerks |-> errand[k]]
    /\ \A k \in Clerks : errand[k] # None =>
          errand[k] = [request |-> errand[k].request, loaded |-> errand[k].loaded,
                       accepted |-> errand[k].accepted]

LEMMA DeliveredErrand ==
    ASSUME ErrandsKept, NEW k \in Clerks, errand[k] # None, Deliver(k)
    PROVE  /\ errand' = [j \in Clerks |-> errand'[j]]
           /\ errand'[k] = [request |-> errand[k].request, loaded |-> errand[k].loaded,
                            accepted |-> TRUE]
<1> DEFINE req == errand[k].request
           held == errand[k].loaded
           acc == errand[k].accepted
           new == [request |-> req, loaded |-> held, accepted |-> TRUE]
<1>1. errand[k] = [request |-> req, loaded |-> held, accepted |-> acc]
  BY DEF ErrandsKept
<1>2. [errand[k] EXCEPT !.accepted = TRUE] = new
  <2> DEFINE yes == TRUE
  <2> HIDE DEF req, held, acc, yes
  <2>1. [errand[k] EXCEPT !.accepted = yes] = [request |-> req, loaded |-> held, accepted |-> yes]
    BY <1>1
  <2> QED BY <2>1, Zenon DEF yes
<1>3. errand' = [errand EXCEPT ![k] = new]
  BY <1>2 DEF Deliver
<1> HIDE DEF new
<1>4. errand' = [j \in Clerks |-> errand'[j]] /\ errand'[k] = new
  BY <1>3 DEF ErrandsKept
<1> QED BY <1>4 DEF new

PeriodRows == [Periods -> Period \cup {None}]

\* What the request of a clerk has found out about periods is as it was.
StillFree(r, l) ==
    /\ r.student \in Learners /\ r.period \in Periods /\ r.from \in Days /\ r.to \in Days
    /\ r.op = "excuse" => Free(r.student, r.from, r.to, {})
    /\ r.op \in {"change", "return"} =>
          period[r.period] # None /\ l.period = period[r.period]
    /\ r.op = "change" => Free(period[r.period].student, r.from, r.to, {r.period})
    /\ r.op = "return" => r.to < period[r.period].to
PeriodsHeld ==
    /\ ErrandsKept
    /\ \A k \in Clerks : errand[k] # None => StillFree(errand[k].request, errand[k].loaded)

PeriodsInvariant == period \in PeriodRows /\ PeriodsApart /\ PeriodsHeld

\* Two periods of a row have no day in common.
Apart(p, q) == p.to < q.from \/ q.to < p.from
Disjoint(x, y) == x.student = y.student /\ ~x.cancelled /\ ~y.cancelled => Apart(x, y)

\* One period gets another row, apart from the others of its student.
LEMMA OnePeriod ==
    ASSUME period \in PeriodRows, PeriodsApart, NEW p \in Periods, NEW new \in Period,
           period' = [period EXCEPT ![p] = new],
           \A q \in Periods \ {p} : period[q] # None => Disjoint(period[q], new)
    PROVE  period' \in PeriodRows /\ PeriodsApart'
<1>1. /\ period' \in PeriodRows /\ period'[p] = new
      /\ \A q \in Periods \ {p} : period'[q] = period[q]
  BY DEF PeriodRows
<1>2. ASSUME NEW q \in Periods \ {p}, period[q] # None PROVE Disjoint(new, period[q])
  BY <1>2 DEF Disjoint, Apart
<1>3. ASSUME NEW q \in Periods, NEW w \in Periods, q # w,
             period'[q] # None, period'[w] # None
      PROVE  Disjoint(period'[q], period'[w])
  <2>1. CASE q = p
    BY <1>1, <1>2, <1>3, <2>1
  <2>2. CASE w = p
    BY <1>1, <1>3, <2>2
  <2>3. CASE q # p /\ w # p
    BY <1>1, <1>3, <2>3 DEF PeriodsApart, Disjoint, Apart
  <2> QED BY <2>1, <2>2, <2>3
<1> QED BY <1>1, <1>3 DEF PeriodsApart, Disjoint, Apart

\* Periods that are taken away leave the others apart.
LEMMA FewerPeriods ==
    ASSUME period \in PeriodRows, PeriodsApart,
           period' = [p \in Periods |-> period'[p]],
           \A p \in Periods : period'[p] = None \/ period'[p] = period[p]
    PROVE  period' \in PeriodRows /\ PeriodsApart'
<1>1. period' \in PeriodRows
  BY DEF PeriodRows
<1>2. ASSUME NEW q \in Periods, NEW w \in Periods, period'[q] # None, period'[w] # None
      PROVE  period'[q] = period[q] /\ period'[w] = period[w]
  BY <1>2
<1> QED BY <1>1, <1>2 DEF PeriodsApart

LEMMA ClerkDone ==
    ASSUME OneClerk, PeriodsHeld, NEW k \in Clerks, errand[k] # None, Done(k)
    PROVE  PeriodsHeld'
<1>1. errand' = [j \in Clerks |-> errand'[j]] /\ \A j \in Clerks : errand'[j] = None
  BY DEF Done, PeriodsHeld, ErrandsKept, OneClerk
<1> QED BY <1>1 DEF PeriodsHeld, ErrandsKept

LEMMA FetchPeriods ==
    ASSUME PeriodsInvariant, NEW k \in Clerks, NEW r \in Errand, Fetch(k, r)
    PROVE  PeriodsInvariant'
<1>1. UNCHANGED period /\ Possible(r) /\ errand' = [j \in Clerks |-> errand'[j]]
  BY DEF Fetch, studentRows, PeriodsInvariant, PeriodsHeld, ErrandsKept
<1>2. /\ errand'[k] = [request |-> errand'[k].request, loaded |-> errand'[k].loaded,
                      accepted |-> errand'[k].accepted]
      /\ errand'[k].request = r
      /\ errand'[k].loaded.period = IF r.op \in {"change", "return"} THEN period[r.period]
                                    ELSE None
  BY DEF Fetch, PeriodsInvariant, PeriodsHeld, ErrandsKept
<1>3. r.student \in Learners /\ r.period \in Periods /\ r.from \in Days /\ r.to \in Days
  BY DEF Errand
<1>4. StillFree(r, errand'[k].loaded)
  <2>1. r.op = "excuse" => MayExcuse(r)
    BY <1>1 DEF Possible
  <2>2. r.op = "change" => MayChange(r)
    BY <1>1 DEF Possible
  <2>3. r.op = "return" => MayReturn(r)
    BY <1>1 DEF Possible
  <2> QED BY <1>2, <1>3, <2>1, <2>2, <2>3
          DEF StillFree, MayExcuse, MayChange, MayReturn, Standing
<1>5. StillFree(errand[k].request, errand[k].loaded)'
  BY <1>1, <1>2, <1>4 DEF StillFree, Free, PeriodsOf, Meets
<1>6. ASSUME NEW j \in Clerks \ {k}, errand'[j] # None
      PROVE  StillFree(errand[j].request, errand[j].loaded)'
  <2>1. errand'[j] = errand[j] /\ StillFree(errand[j].request, errand[j].loaded)
    BY <1>6 DEF Fetch, PeriodsInvariant, PeriodsHeld, ErrandsKept
  <2> QED BY <1>1, <2>1 DEF StillFree, Free, PeriodsOf, Meets
<1>7. ErrandsKept'
  BY <1>1, <1>2 DEF Fetch, PeriodsInvariant, PeriodsHeld, ErrandsKept
<1> QED BY <1>1, <1>5, <1>6, <1>7 DEF PeriodsInvariant, PeriodsApart, PeriodsHeld

LEMMA NewPeriodApart ==
    ASSUME OneClerk, PeriodsInvariant, NEW k \in Clerks, errand[k] # None,
           NEW p \in Periods, CreatePeriod(k, p)
    PROVE  PeriodsInvariant'
<1> DEFINE r == errand[k].request
           new == [student |-> r.student, from |-> r.from, to |-> r.to, cancelled |-> FALSE]
<1>1. Done(k) /\ StillFree(r, errand[k].loaded) /\ r.op = "excuse"
  BY DEF CreatePeriod, Undone, PeriodsInvariant, PeriodsHeld
<1>2. CASE UNCHANGED period
  BY <1>1, <1>2, ClerkDone DEF PeriodsInvariant, PeriodsApart
<1>3. CASE period' = [period EXCEPT ![p] = new]
  <2>1. new \in Period
    BY <1>1 DEF StillFree, Period
  <2>2. /\ Free(r.student, r.from, r.to, {}) /\ new.student = r.student
        /\ new.from = r.from /\ new.to = r.to
    BY <1>1 DEF StillFree
  <2>3. r.from \in Int /\ r.to \in Int
    BY <1>1, StudentsAssumption DEF StillFree, Days
  <2> HIDE DEF new, r
  <2>4. ASSUME NEW q \in Periods \ {p}, period[q] # None
        PROVE  Disjoint(period[q], new)
    <3>1. period[q].from \in Int /\ period[q].to \in Int
      BY <2>4, StudentsAssumption DEF PeriodsInvariant, PeriodRows, Period, Days
    <3> QED BY <2>2, <2>3, <2>4, <3>1 DEF Free, PeriodsOf, Meets, Disjoint, Apart
  <2> QED BY <1>1, <1>3, <2>1, <2>4, OnePeriod, ClerkDone DEF PeriodsInvariant
<1> QED BY <1>2, <1>3 DEF CreatePeriod, Undone, studentRows

LEMMA UpdatedPeriodApart ==
    ASSUME OneClerk, PeriodsInvariant, NEW k \in Clerks, errand[k] # None, UpdatePeriod(k)
    PROVE  PeriodsInvariant'
<1> DEFINE r == errand[k].request
           p == r.period
           new == Dated(r, errand[k].loaded.period, period[p])
<1>1. Done(k) /\ StillFree(r, errand[k].loaded) /\ r.op \in {"change", "return"}
  BY DEF UpdatePeriod, Undone, PeriodsInvariant, PeriodsHeld
<1>2. /\ p \in Periods /\ period[p] \in Period /\ errand[k].loaded.period = period[p]
      /\ r.from \in Days /\ r.to \in Days
  BY <1>1 DEF StillFree, PeriodsInvariant, PeriodRows
<1>3. period' = [period EXCEPT ![p] = new]
  BY <1>1, <1>2 DEF UpdatePeriod, StillFree
<1>4. /\ new \in Period /\ new.student = period[p].student
      /\ new.cancelled = period[p].cancelled
      /\ new.from = IF r.op = "return" THEN period[p].from ELSE r.from
      /\ new.to = r.to
  <2> DEFINE from == IF r.op = "return" \/ r.from = period[p].from THEN period[p].from
                     ELSE r.from
             to == IF r.to = period[p].to THEN period[p].to ELSE r.to
  <2>1. new = [period[p] EXCEPT !.from = from, !.to = to]
    BY <1>2 DEF Dated
  <2>2. /\ from \in Days /\ to \in Days /\ to = r.to
        /\ from = IF r.op = "return" THEN period[p].from ELSE r.from
    BY <1>2 DEF Period
  <2> HIDE DEF new, from, to
  <2> QED BY <1>2, <2>1, <2>2 DEF Period
<1>5. r.op = "change" => Free(period[p].student, r.from, r.to, {p})
  BY <1>1 DEF StillFree
<1>6. r.op = "return" => r.to < period[p].to
  BY <1>1 DEF StillFree
<1>7. r.op \in {"change", "return"}
  BY <1>1
<1>8. /\ r.from \in Int /\ r.to \in Int /\ period[p].from \in Int /\ period[p].to \in Int
      /\ period[p] # None
  BY <1>2, StudentsAssumption, StudentRowsAreThere DEF Days, Period
<1> HIDE DEF new, p, r
<1>9. ASSUME NEW q \in Periods \ {p}, period[q] # None
      PROVE  Disjoint(period[q], new)
  <2>1. period[q].from \in Int /\ period[q].to \in Int
    BY <1>9, StudentsAssumption DEF PeriodsInvariant, PeriodRows, Period, Days
  <2>2. CASE r.op = "change"
    BY <1>4, <1>5, <1>8, <1>9, <2>1, <2>2 DEF Free, PeriodsOf, Meets, Disjoint, Apart
  <2>3. CASE r.op = "return"
    <3>1. Disjoint(period[q], period[p])
      BY <1>2, <1>8, <1>9 DEF PeriodsInvariant, PeriodsApart, Disjoint, Apart
    <3> QED BY <1>4, <1>6, <1>8, <2>1, <2>3, <3>1 DEF Disjoint, Apart
  <2> QED BY <1>7, <2>2, <2>3
<1> QED BY <1>1, <1>2, <1>3, <1>4, <1>9, OnePeriod, ClerkDone DEF PeriodsInvariant

LEMMA CancelledPeriodApart ==
    ASSUME OneClerk, PeriodsInvariant, NEW k \in Clerks, errand[k] # None, CancelPeriod(k)
    PROVE  PeriodsInvariant'
<1> DEFINE p == errand[k].request.period
           new == [period[p] EXCEPT !.cancelled = TRUE]
<1>1. Done(k) /\ p \in Periods
  BY DEF CancelPeriod, Undone, PeriodsInvariant, PeriodsHeld, StillFree
<1>2. CASE UNCHANGED period
  BY <1>1, <1>2, ClerkDone DEF PeriodsInvariant, PeriodsApart
<1>3. CASE period[p] # None /\ period' = [period EXCEPT ![p] = new]
  <2>1. period[p] \in Period
    BY <1>1, <1>3 DEF PeriodsInvariant, PeriodRows
  <2>2. new \in Period /\ new.cancelled
    BY <2>1 DEF Period
  <2> HIDE DEF new
  <2>3. \A q \in Periods \ {p} : period[q] # None => Disjoint(period[q], new)
    BY <2>2 DEF Disjoint
  <2> HIDE DEF p
  <2> QED BY <1>1, <1>3, <2>2, <2>3, OnePeriod, ClerkDone DEF PeriodsInvariant
<1> QED BY <1>2, <1>3 DEF CancelPeriod, Undone, studentRows

LEMMA SettledPeriods ==
    ASSUME OneClerk, PeriodsInvariant, NEW k \in Clerks, Settle(k)
    PROVE  PeriodsInvariant'
<1>1. errand[k] # None
  BY DEF Settle
<1>2. ASSUME Done(k), UNCHANGED period PROVE PeriodsInvariant'
  BY <1>1, <1>2, ClerkDone DEF PeriodsInvariant, PeriodsApart
<1>3. ASSUME Done(k), NEW gone, Without(gone) PROVE PeriodsInvariant'
  BY <1>1, <1>3, ClerkDone, FewerPeriods DEF PeriodsInvariant, Without
<1>4. CASE Deliver(k)
  <2>1. /\ UNCHANGED period /\ errand' = [j \in Clerks |-> errand'[j]]
        /\ errand'[k] = [request |-> errand[k].request, loaded |-> errand[k].loaded,
                         accepted |-> TRUE]
    BY <1>1, <1>4, DeliveredErrand DEF Deliver, studentRows, PeriodsInvariant, PeriodsHeld
  <2>2. StillFree(errand[k].request, errand[k].loaded)
    BY <1>1 DEF PeriodsInvariant, PeriodsHeld
  <2>3. StillFree(errand[k].request, errand[k].loaded)'
    BY <2>1, <2>2 DEF StillFree, Free, PeriodsOf, Meets
  <2>4. \A j \in Clerks \ {k} : errand'[j] = None
    BY <1>1, <1>4 DEF Deliver, PeriodsInvariant, PeriodsHeld, ErrandsKept, OneClerk
  <2>5. PeriodsHeld'
    BY <2>1, <2>3, <2>4 DEF PeriodsHeld, ErrandsKept
  <2> QED BY <2>1, <2>5 DEF PeriodsInvariant, PeriodsApart
<1>5. CASE \/ \E s \in Learners : CreateStudent(k, s)
           \/ Move(k) \/ Refused(k) \/ (\E w \in Warnings : AddWarning(k, w)) \/ MarkSent(k)
  BY <1>2, <1>5 DEF CreateStudent, Move, Refused, AddWarning, MarkSent, Undone, studentRows,
     KeepsAllButWarnings
<1>6. CASE DeleteStudent(k) \/ DeleteSheikh(k)
  BY <1>2, <1>3, <1>6 DEF DeleteStudent, DeleteSheikh, Undone, studentRows
<1> QED BY <1>1, <1>4, <1>5, <1>6, NewPeriodApart, UpdatedPeriodApart, CancelledPeriodApart
        DEF Settle

\* Of requests that come one at a time, none leaves a student two periods with a
\* day in common, and so two excuses for one session (ensure_no_excused_period_overlap
\* before create, update and the early return).
THEOREM PeriodsStayApart == StudentsSpec => ApartOneByOne
<1>1. StudentsInit => PeriodsInvariant
  BY DEF StudentsInit, PeriodsInvariant, PeriodRows, PeriodsApart, PeriodsHeld, ErrandsKept
<1>2. PeriodsInvariant /\ OneClerk /\ [StudentsNext]_studentsVars => PeriodsInvariant'
  <2> SUFFICES ASSUME PeriodsInvariant, OneClerk, [StudentsNext]_studentsVars PROVE PeriodsInvariant'
    OBVIOUS
  <2>1. CASE \E k \in Clerks, r \in Errand : Fetch(k, r)
    BY <2>1, FetchPeriods
  <2>2. CASE \E k \in Clerks : Settle(k)
    BY <2>2, SettledPeriods
  <2>3. CASE UNCHANGED <<period, errand>>
    BY <2>3 DEF PeriodsInvariant, PeriodRows, PeriodsApart, PeriodsHeld, ErrandsKept,
       StillFree, Free, PeriodsOf, Meets
  <2>4. ASSUME \/ \E t \in Sheikhs : CreateSheikh(t)
               \/ \E s \in Learners : Record(s)
               \/ \E a \in Applications : Submit(a) \/ Reject(a)
               \/ \E a \in Applications, s \in Learners, t \in Sheikhs \cup {None} :
                     Approve(a, s, t)
               \/ \E w \in Warnings : DeleteWarning(w)
               \/ UNCHANGED studentsVars
        PROVE  UNCHANGED <<period, errand>>
    BY <2>4 DEF CreateSheikh, Record, Submit, Reject, Approve, DeleteWarning,
       KeepsAllButWarnings, studentsVars, studentRows
  <2> QED BY <2>1, <2>2, <2>3, <2>4 DEF StudentsNext
<1>3. PeriodsInvariant => PeriodsApart
  BY DEF PeriodsInvariant
<1> QED BY <1>1, <1>2, <1>3, PTL DEF StudentsSpec, ApartOneByOne

-----------------------------------------------------------------------------
(***************************************************************************)
(* Sheikhs: a plan for the students of a sheikh names all that were read,  *)
(* and places each with a sheikh who is there when it is carried out.      *)
(***************************************************************************)

SheikhsThere == \A s \in Learners : learner[s] # None => learner[s].sheikh \in sheikh \cup {None}

\* What has been found out about a plan does not depend on what happens meanwhile.
PlanStands(r, l) ==
    /\ r \in Errand
    /\ r.op = "deleteSheikh" => Named(r.plan) = l.roster /\ r.sheikh \notin Targets(r.plan)
PlansHeld ==
    /\ ErrandsKept
    /\ \A k \in Clerks : errand[k] # None => PlanStands(errand[k].request, errand[k].loaded)

SheikhRows == /\ learner \in [Learners -> Learner \cup {None}]
              /\ sheikh \subseteq Sheikhs
              /\ SheikhsThere
SheikhsInvariant == SheikhRows /\ PlansHeld

LEMMA SameSheikhs ==
    ASSUME SheikhRows, UNCHANGED <<learner, sheikh>>
    PROVE  SheikhRows' /\ KeepsSheikh
BY StudentsAssumption DEF SheikhRows, SheikhsThere, KeepsSheikh

\* A student comes to a sheikh who is there, or to none.
LEMMA PlacedStudent ==
    ASSUME SheikhRows, UNCHANGED sheikh, NEW s \in Learners, NEW t \in sheikh \cup {None},
           learner[s] = None \/ t \in sheikh,
           learner' = [learner EXCEPT ![s] = [sheikh |-> t]]
    PROVE  SheikhRows' /\ KeepsSheikh
<1> DEFINE new == [sheikh |-> t]
<1>1. new \in Learner /\ new # None /\ new.sheikh = t
  <2>1. new \in Learner /\ new.sheikh = t
    BY DEF SheikhRows, Learner
  <2> QED BY <2>1, StudentRowsAreThere
<1>2. learner' = [learner EXCEPT ![s] = new]
  OBVIOUS
<1> HIDE DEF new
<1>3. /\ learner' \in [Learners -> Learner \cup {None}] /\ learner'[s] = new
      /\ \A x \in Learners \ {s} : learner'[x] = learner[x]
  BY <1>1, <1>2 DEF SheikhRows
<1> QED BY <1>1, <1>3 DEF SheikhRows, SheikhsThere, KeepsSheikh

LEMMA ClerkLeaves ==
    ASSUME PlansHeld, NEW k \in Clerks, Done(k)
    PROVE  PlansHeld' /\ errand'[k] = None
<1>1. /\ errand' = [j \in Clerks |-> errand'[j]] /\ errand'[k] = None
      /\ \A j \in Clerks \ {k} : errand'[j] = errand[j]
  BY DEF Done, PlansHeld, ErrandsKept
<1> QED BY <1>1 DEF PlansHeld, ErrandsKept

LEMMA FetchPlan ==
    ASSUME SheikhsInvariant, NEW k \in Clerks, NEW r \in Errand, Fetch(k, r)
    PROVE  SheikhsInvariant' /\ KeepsSheikh
<1>1. /\ UNCHANGED <<learner, sheikh>> /\ Possible(r)
      /\ errand' = [j \in Clerks |-> errand'[j]]
      /\ \A j \in Clerks \ {k} : errand'[j] = errand[j]
  BY DEF Fetch, studentRows, SheikhsInvariant, PlansHeld, ErrandsKept
<1>2. /\ errand'[k] = [request |-> errand'[k].request, loaded |-> errand'[k].loaded,
                      accepted |-> errand'[k].accepted]
      /\ errand'[k].request = r
      /\ errand'[k].loaded.roster = IF r.op = "deleteSheikh" THEN Roster(r.sheikh) ELSE {}
  BY DEF Fetch, SheikhsInvariant, PlansHeld, ErrandsKept
<1>3. r.op = "deleteSheikh" => MayDeleteSheikh(r)
  BY <1>1 DEF Possible
<1>4. PlanStands(r, errand'[k].loaded)
  BY <1>2, <1>3 DEF PlanStands, MayDeleteSheikh, PlanFits
<1>5. PlansHeld'
  BY <1>1, <1>2, <1>4 DEF SheikhsInvariant, PlansHeld, ErrandsKept
<1> QED BY <1>1, <1>5, SameSheikhs DEF SheikhsInvariant

LEMMA MovedStudents ==
    ASSUME SheikhsInvariant, NEW k \in Clerks, errand[k] # None,
           Move(k) \/ \E s \in Learners : CreateStudent(k, s)
    PROVE  SheikhsInvariant' /\ KeepsSheikh
<1> DEFINE r == errand[k].request
<1>1. Done(k) /\ r \in Errand
  BY DEF Move, CreateStudent, Undone, SheikhsInvariant, PlansHeld, PlanStands
<1>2. PlansHeld'
  BY <1>1, ClerkLeaves DEF SheikhsInvariant
<1>3. CASE UNCHANGED <<learner, sheikh>>
  BY <1>2, <1>3, SameSheikhs DEF SheikhsInvariant
<1>4. CASE Move(k) /\ ~UNCHANGED <<learner, sheikh>>
  <2> DEFINE s == r.student
             new == [sheikh |-> r.sheikh]
  <2>1. /\ s \in Learners /\ learner[s] # None /\ r.sheikh \in sheikh
        /\ learner' = [learner EXCEPT ![s].sheikh = r.sheikh] /\ UNCHANGED sheikh
    BY <1>1, <1>4 DEF Move, Undone, studentRows, Errand
  <2>2. [learner[s] EXCEPT !.sheikh = r.sheikh] = new
    <3>1. learner[s] \in Learner
      BY <2>1 DEF SheikhsInvariant, SheikhRows
    <3> HIDE DEF s, r
    <3> QED BY <3>1 DEF Learner
  <2>3. learner' = [learner EXCEPT ![s] = new]
    BY <2>1, <2>2
  <2> HIDE DEF r, s
  <2> QED BY <1>2, <2>1, <2>3, PlacedStudent DEF SheikhsInvariant
<1>5. CASE (\E s \in Learners : CreateStudent(k, s)) /\ ~UNCHANGED <<learner, sheikh>>
  <2>1. PICK s \in Learners : CreateStudent(k, s)
    BY <1>5
  <2>2. /\ learner[s] = None /\ r.sheikh \in sheikh \cup {None}
        /\ learner' = [learner EXCEPT ![s] = [sheikh |-> r.sheikh]] /\ UNCHANGED sheikh
    BY <1>5, <2>1 DEF CreateStudent, MayHave, Undone, studentRows
  <2> HIDE DEF r
  <2> QED BY <1>2, <2>2, PlacedStudent DEF SheikhsInvariant
<1> QED BY <1>3, <1>4, <1>5

LEMMA DeletedStudent ==
    ASSUME SheikhsInvariant, NEW k \in Clerks, errand[k] # None, DeleteStudent(k)
    PROVE  SheikhsInvariant' /\ KeepsSheikh
<1> DEFINE s == errand[k].request.student
<1>1. Done(k)
  BY DEF DeleteStudent, Undone
<1>2. PlansHeld'
  BY <1>1, ClerkLeaves DEF SheikhsInvariant
<1>3. CASE UNCHANGED <<learner, sheikh>>
  BY <1>2, <1>3, SameSheikhs DEF SheikhsInvariant
<1>4. CASE learner' = [learner EXCEPT ![s] = None] /\ UNCHANGED sheikh
  <2>1. /\ learner' \in [Learners -> Learner \cup {None}]
        /\ \A x \in Learners : learner'[x] = None \/ learner'[x] = learner[x]
    BY <1>4 DEF SheikhsInvariant, SheikhRows
  <2> QED BY <1>2, <1>4, <2>1 DEF SheikhsInvariant, SheikhRows, SheikhsThere, KeepsSheikh
<1> QED BY <1>3, <1>4 DEF DeleteStudent, Undone, studentRows

\* The students who were read are those the plan names, each placed or deleted; of
\* the others, only those who came later lose the sheikh.
LEMMA DeletedSheikh ==
    ASSUME SheikhsInvariant, NEW k \in Clerks, errand[k] # None, DeleteSheikh(k)
    PROVE  SheikhsInvariant' /\ KeepsSheikh
<1> DEFINE r == errand[k].request
           moved == {s \in Named(r.plan) : r.plan[s] # "delete"}
           gone == Named(r.plan) \ moved
<1>1. Done(k) /\ PlanStands(r, errand[k].loaded) /\ r.op = "deleteSheikh"
  BY DEF DeleteSheikh, Undone, SheikhsInvariant, PlansHeld
<1>2. PlansHeld' /\ errand'[k] = None
  BY <1>1, ClerkLeaves DEF SheikhsInvariant
<1>3. CASE UNCHANGED <<learner, sheikh>>
  BY <1>2, <1>3, SameSheikhs DEF SheikhsInvariant
<1>4. CASE /\ Targets(r.plan) \subseteq sheikh
           /\ sheikh' = sheikh \ {r.sheikh}
           /\ learner' = [s \in Learners |->
                  CASE s \in moved -> [sheikh |-> r.plan[s]]
                    [] s \in gone -> None
                    [] s \in Roster(r.sheikh) \ (moved \cup gone) -> [sheikh |-> None]
                    [] OTHER -> learner[s]]
  <2>1. \A s \in moved : r.plan[s] \in sheikh \ {r.sheikh}
    BY <1>1, <1>4 DEF PlanStands, Targets, Named
  <2>2. moved \cup gone = errand[k].loaded.roster /\ moved \cap gone = {}
    BY <1>1 DEF PlanStands, Named
  <2>3. \A s \in Roster(r.sheikh) \ (moved \cup gone) : CameTooLate(s)
    BY <1>1, <1>2, <2>2 DEF CameTooLate, Roster
  <2> HIDE DEF r, moved, gone
  <2>4. ASSUME NEW s \in Learners
        PROVE  /\ learner'[s] \in Learner \cup {None}
               /\ learner'[s] # None => learner'[s].sheikh \in sheikh' \cup {None}
               /\ learner[s] # None /\ learner[s].sheikh # None =>
                     \/ learner'[s] = None \/ learner'[s].sheikh \in sheikh'
                     \/ learner'[s].sheikh = None /\ CameTooLate(s)
    <3>1. CASE s \in moved
      <4> DEFINE new == [sheikh |-> r.plan[s]]
      <4>1. learner'[s] = new
        BY <1>4, <2>2, <3>1
      <4>2. new.sheikh \in sheikh' /\ new \in Learner
        BY <1>4, <2>1, <3>1 DEF SheikhsInvariant, SheikhRows, Learner
      <4> QED BY <4>1, <4>2
    <3>2. CASE s \in gone
      BY <1>4, <2>2, <3>2
    <3>3. CASE s \in Roster(r.sheikh) \ (moved \cup gone)
      <4> DEFINE new == [sheikh |-> None]
      <4>1. learner'[s] = new /\ new.sheikh = None /\ new \in Learner
        BY <1>4, <3>3 DEF Learner
      <4> QED BY <2>3, <3>3, <4>1
    <3>4. CASE s \notin Roster(r.sheikh) \cup moved \cup gone
      <4>1. learner'[s] = learner[s]
        BY <1>4, <3>4
      <4>2. learner[s] # None => learner[s].sheikh # r.sheikh
        BY <3>4 DEF Roster
      <4> QED BY <1>4, <4>1, <4>2 DEF SheikhsInvariant, SheikhRows, SheikhsThere
    <3> QED BY <3>1, <3>2, <3>3, <3>4
  <2>5. learner' \in [Learners -> Learner \cup {None}] /\ sheikh' \subseteq Sheikhs
    BY <1>4, <2>4 DEF SheikhsInvariant, SheikhRows
  <2> QED BY <1>2, <2>4, <2>5 DEF SheikhsInvariant, SheikhRows, SheikhsThere, KeepsSheikh
<1> QED BY <1>3, <1>4 DEF DeleteSheikh, Undone, studentRows

LEMMA SettledSheikhs ==
    ASSUME SheikhsInvariant, NEW k \in Clerks, Settle(k)
    PROVE  SheikhsInvariant' /\ KeepsSheikh
<1>1. errand[k] # None
  BY DEF Settle
<1>2. ASSUME Done(k), UNCHANGED <<learner, sheikh>> PROVE SheikhsInvariant' /\ KeepsSheikh
  BY <1>2, ClerkLeaves, SameSheikhs DEF SheikhsInvariant
<1>3. CASE Deliver(k)
  <2>1. /\ UNCHANGED <<learner, sheikh>> /\ errand' = [j \in Clerks |-> errand'[j]]
        /\ errand'[k] = [request |-> errand[k].request, loaded |-> errand[k].loaded,
                         accepted |-> TRUE]
    BY <1>1, <1>3, DeliveredErrand DEF Deliver, studentRows, SheikhsInvariant, PlansHeld
  <2>2. PlanStands(errand[k].request, errand[k].loaded)
    BY <1>1 DEF SheikhsInvariant, PlansHeld
  <2>3. \A j \in Clerks \ {k} : errand'[j] = errand[j]
    BY <1>3 DEF Deliver, SheikhsInvariant, PlansHeld, ErrandsKept
  <2>4. PlansHeld'
    BY <2>1, <2>2, <2>3 DEF SheikhsInvariant, PlansHeld, ErrandsKept
  <2> QED BY <2>1, <2>4, SameSheikhs DEF SheikhsInvariant
<1>4. CASE \/ \E p \in Periods : CreatePeriod(k, p)
           \/ UpdatePeriod(k) \/ CancelPeriod(k)
  BY <1>2, <1>4 DEF CreatePeriod, UpdatePeriod, CancelPeriod, Undone, studentRows,
     KeepsAllButPeriods
<1>5. CASE Refused(k) \/ (\E w \in Warnings : AddWarning(k, w)) \/ MarkSent(k)
  BY <1>2, <1>5 DEF Refused, AddWarning, MarkSent, Undone, studentRows, KeepsAllButWarnings
<1> QED BY <1>1, <1>3, <1>4, <1>5, MovedStudents, DeletedStudent, DeletedSheikh DEF Settle

LEMMA StartedSheikhs == StudentsInit => SheikhsInvariant
BY DEF StudentsInit, SheikhsInvariant, SheikhRows, SheikhsThere, PlansHeld, ErrandsKept

LEMMA SheikhsStep ==
    SheikhsInvariant /\ [StudentsNext]_studentsVars => SheikhsInvariant' /\ [KeepsSheikh]_studentsVars
<1> SUFFICES ASSUME SheikhsInvariant, [StudentsNext]_studentsVars
             PROVE  SheikhsInvariant' /\ [KeepsSheikh]_studentsVars
  OBVIOUS
<1>1. CASE \E k \in Clerks, r \in Errand : Fetch(k, r)
  BY <1>1, FetchPlan
<1>2. CASE \E k \in Clerks : Settle(k)
  BY <1>2, SettledSheikhs
<1>3. CASE \E t \in Sheikhs : CreateSheikh(t)
  <2>1. /\ UNCHANGED <<learner, errand>>
        /\ sheikh \subseteq sheikh' /\ sheikh' \subseteq Sheikhs
    BY <1>3 DEF CreateSheikh, SheikhsInvariant, SheikhRows
  <2> QED BY <2>1 DEF SheikhsInvariant, SheikhRows, SheikhsThere, PlansHeld, ErrandsKept,
                 KeepsSheikh
<1>4. CASE UNCHANGED <<learner, sheikh, errand>>
  <2>1. PlansHeld'
    BY <1>4 DEF SheikhsInvariant, PlansHeld, ErrandsKept
  <2> QED BY <1>4, <2>1, SameSheikhs DEF SheikhsInvariant
<1>5. ASSUME NEW a \in Applications, NEW s \in Learners, NEW t \in Sheikhs \cup {None},
             Approve(a, s, t)
      PROVE  SheikhsInvariant' /\ KeepsSheikh
  <2>1. PlansHeld'
    BY <1>5 DEF Approve, SheikhsInvariant, PlansHeld, ErrandsKept
  <2> QED BY <1>5, <2>1, PlacedStudent DEF Approve, MayHave, SheikhsInvariant
<1>6. ASSUME \/ \E s \in Learners : Record(s)
             \/ \E a \in Applications : Submit(a) \/ Reject(a)
             \/ \E w \in Warnings : DeleteWarning(w)
             \/ UNCHANGED studentsVars
      PROVE  UNCHANGED <<learner, sheikh, errand>>
  BY <1>6 DEF Record, Submit, Reject, DeleteWarning, KeepsAllButWarnings, studentsVars,
     studentRows
<1> QED BY <1>1, <1>2, <1>3, <1>4, <1>5, <1>6 DEF StudentsNext

\* Whatever overlaps, a student who has a sheikh goes to another or leaves; only one
\* who came after the students of a deletion had been read is left without
\* (sheikh_deletion_students and finalize_sheikh_deletion against
\* move_student_sheikh, update_student, create_student and approve).
THEOREM SheikhsAreKept == StudentsSpec => NobodyLosesSheikh
<1> QED BY StartedSheikhs, SheikhsStep, PTL DEF StudentsSpec, NobodyLosesSheikh

-----------------------------------------------------------------------------
(* Where requests come one at a time, nobody comes after the students were read. *)

\* Applications are approved while no other request is in progress.
ApprovalsWait ==
    (\E a \in Applications, s \in Learners, t \in Sheikhs \cup {None} : Approve(a, s, t))
        => \A k \in Clerks : errand[k] = None

RostersStand ==
    \A k \in Clerks : errand[k] # None /\ errand[k].request.op = "deleteSheikh" =>
        errand[k].loaded.roster = Roster(errand[k].request.sheikh)

GoesToAnother ==
    \A s \in Learners : learner[s] # None /\ learner[s].sheikh # None =>
        learner'[s] = None \/ learner'[s].sheikh \in sheikh'

LEMMA RostersStep ==
    ASSUME SheikhsInvariant, RostersStand, OneClerk, StudentsNext, ApprovalsWait
    PROVE  RostersStand'
<1>1. ASSUME NEW k \in Clerks, NEW r \in Errand, Fetch(k, r) PROVE RostersStand'
  <2>1. UNCHANGED learner /\ \A j \in Clerks \ {k} : errand'[j] = errand[j]
    BY <1>1 DEF Fetch, studentRows, SheikhsInvariant, PlansHeld, ErrandsKept
  <2>2. /\ errand'[k].request = r
        /\ errand'[k].loaded.roster = IF r.op = "deleteSheikh" THEN Roster(r.sheikh) ELSE {}
    BY <1>1 DEF Fetch, SheikhsInvariant, PlansHeld, ErrandsKept
  <2> QED BY <2>1, <2>2 DEF RostersStand, Roster
<1>2. ASSUME NEW k \in Clerks, Settle(k) PROVE RostersStand'
  <2>1. CASE Done(k)
    <3>1. \A j \in Clerks : errand'[j] = None
      BY <1>2, <2>1 DEF Settle, Done, SheikhsInvariant, PlansHeld, ErrandsKept, OneClerk
    <3> QED BY <3>1 DEF RostersStand
  <2>2. CASE Deliver(k)
    <3>1. /\ UNCHANGED learner
          /\ \A j \in Clerks \ {k} : errand'[j] = errand[j]
          /\ errand'[k] = [request |-> errand[k].request, loaded |-> errand[k].loaded,
                           accepted |-> TRUE]
      BY <1>2, <2>2, DeliveredErrand
      DEF Settle, Deliver, studentRows, SheikhsInvariant, PlansHeld, ErrandsKept
    <3>2. errand'[k].request = errand[k].request /\ errand'[k].loaded = errand[k].loaded
      BY <3>1
    <3>3. errand[k] # None
      BY <1>2 DEF Settle
    <3> QED BY <3>1, <3>2, <3>3 DEF RostersStand, Roster
  <2> QED BY <1>2, <2>1, <2>2
     DEF Settle, CreateStudent, Move, DeleteStudent, DeleteSheikh, CreatePeriod, UpdatePeriod,
         CancelPeriod, Refused, AddWarning, MarkSent, Undone
<1>3. CASE \A k \in Clerks : errand[k] = None /\ errand'[k] = None
  BY <1>3 DEF RostersStand
<1>4. ASSUME NEW a \in Applications, NEW s \in Learners, NEW t \in Sheikhs \cup {None},
             Approve(a, s, t)
      PROVE  RostersStand'
  <2>1. UNCHANGED errand /\ \A k \in Clerks : errand[k] = None
    BY <1>4 DEF Approve, ApprovalsWait
  <2> QED BY <1>3, <2>1
<1>5. ASSUME \/ \E t \in Sheikhs : CreateSheikh(t)
             \/ \E s \in Learners : Record(s)
             \/ \E a \in Applications : Submit(a) \/ Reject(a)
             \/ \E w \in Warnings : DeleteWarning(w)
      PROVE  RostersStand'
  <2>1. UNCHANGED <<learner, errand>>
    BY <1>5 DEF CreateSheikh, Record, Submit, Reject, DeleteWarning, KeepsAllButWarnings
  <2> QED BY <2>1 DEF RostersStand, Roster
<1> QED BY <1>1, <1>2, <1>4, <1>5 DEF StudentsNext

\* Of requests that come one at a time, none leaves a student who had a sheikh with
\* one who is gone or with none.
THEOREM NobodyComesTooLate ==
    StudentsSpec /\ []OneClerk /\ [][ApprovalsWait]_studentsVars => [][GoesToAnother]_studentsVars
<1>1. StudentsInit => RostersStand
  BY DEF StudentsInit, RostersStand
<1>2. /\ SheikhsInvariant /\ RostersStand /\ OneClerk
      /\ [StudentsNext]_studentsVars /\ [ApprovalsWait]_studentsVars
      => RostersStand' /\ [GoesToAnother]_studentsVars
  <2> SUFFICES ASSUME SheikhsInvariant, RostersStand, OneClerk,
                      [StudentsNext]_studentsVars, [ApprovalsWait]_studentsVars
               PROVE  RostersStand' /\ [GoesToAnother]_studentsVars
    OBVIOUS
  <2>1. CASE UNCHANGED studentsVars
    BY <2>1 DEF studentsVars, studentRows, RostersStand, Roster
  <2>2. CASE StudentsNext /\ ApprovalsWait /\ ~UNCHANGED studentsVars
    <3>1. RostersStand'
      BY <2>2, RostersStep
    <3>2. KeepsSheikh
      BY <2>2, SheikhsStep
    <3>3. \A s \in Learners : learner[s] # None => ~CameTooLate(s)
      BY DEF RostersStand, CameTooLate, Roster
    <3> QED BY <3>1, <3>2, <3>3 DEF KeepsSheikh, GoesToAnother
  <2> QED BY <2>1, <2>2
<1> QED BY <1>1, <1>2, StartedSheikhs, SheikhsStep, PTL DEF StudentsSpec

-----------------------------------------------------------------------------
(***************************************************************************)
(* Students: the rows of a student are of a student who is there, however  *)
(* deletions overlap with what is being made for him.                      *)
(***************************************************************************)

WarningRows == [Warnings -> Warning \cup {None}]

\* No row is left of a student who is gone: a deletion that meets a row it has not loaded
\* is undone, as is a new row for a student who was deleted meanwhile.
RowsOfStudents ==
    /\ \A s \in recorded : learner[s] # None
    /\ \A p \in Periods : period[p] # None => learner[period[p].student] # None
    /\ \A w \in Warnings : warning[w] # None => learner[warning[w].student] # None
    /\ \A a \in Applications : application[a] # None /\ application[a].student # None
                                   => learner[application[a].student] # None

ReferencesHold == RowsOfStudents /\ SheikhsThere

RowsTyped == recorded \subseteq Learners /\ period \in PeriodRows /\ warning \in WarningRows

\* A warning gets a number that was counted.
ErrandTyped(e) ==
    /\ e.request \in Errand /\ e.loaded \in Loaded /\ e.accepted \in BOOLEAN
    /\ e.request.op \in {"warn", "warnAndSend"}
           => e.loaded.number \in 1..Cardinality(Warnings) + 1
ErrandsTyped == \A k \in Clerks : errand[k] # None => ErrandTyped(errand[k])

StudentsHold == SheikhsInvariant /\ ApplicationsInvariant
RowsInvariant == StudentsHold /\ RowsTyped /\ RowsOfStudents /\ ErrandsTyped

-----------------------------------------------------------------------------
(* What the requests do to the rows.                                           *)

RowsHold == RowsTyped /\ RowsOfStudents

\* Nobody leaves, and nothing of a student comes.
LEMMA NobodyLeaves ==
    ASSUME RowsHold, UNCHANGED <<recorded, period, warning>>,
           \A s \in Learners : learner[s] # None => learner'[s] # None,
           \A a \in Applications :
              application'[a] # None /\ application'[a].student # None =>
                 \/ application[a] # None /\ application[a].student = application'[a].student
                 \/ learner'[application'[a].student] # None,
           ApplicationsInvariant
    PROVE  RowsHold'
<1>1. RowsTyped'
    BY DEF RowsHold, RowsTyped, PeriodRows, WarningRows
<1>2. /\ \A s \in recorded : s \in Learners
      /\ \A p \in Periods : period[p] # None => period[p].student \in Learners
      /\ \A w \in Warnings : warning[w] # None => warning[w].student \in Learners
      /\ \A a \in Applications : application[a] # None
                                    => application[a].student \in Learners \cup {None}
    BY DEF RowsHold, RowsTyped, PeriodRows, WarningRows, Period, Warning,
           ApplicationsInvariant, ApplicationsTyped, Application
<1>3. /\ \A s \in recorded' : learner'[s] # None
      /\ \A p \in Periods : period'[p] # None => learner'[period'[p].student] # None
      /\ \A w \in Warnings : warning'[w] # None => learner'[warning'[w].student] # None
    BY <1>2 DEF RowsHold, RowsOfStudents
<1>4. \A a \in Applications : application'[a] # None /\ application'[a].student # None
                                   => learner'[application'[a].student] # None
    BY <1>2 DEF RowsHold, RowsOfStudents
<1> QED BY <1>1, <1>3, <1>4 DEF RowsHold, RowsOfStudents

\* Who leaves takes his rows along.
LEMMA SomeLeave ==
    ASSUME RowsHold, NEW gone, Without(gone), ApplicationsInvariant,
           \A s \in Learners \ gone : learner[s] # None => learner'[s] # None
    PROVE  RowsHold'
<1>1. /\ recorded' = recorded \ gone
      /\ period' = [p \in Periods |-> period'[p]]
      /\ \A p \in Periods : period'[p] # None => /\ period'[p] = period[p]
                                                 /\ period[p].student \notin gone
      /\ warning' = [w \in Warnings |-> warning'[w]]
      /\ \A w \in Warnings : warning'[w] # None => /\ warning'[w] = warning[w]
                                                   /\ warning[w].student \notin gone
    BY DEF Without, PeriodsOf, WarningsOf
<1>2. /\ recorded' \subseteq Learners
      /\ \A p \in Periods : period[p] \in Period \cup {None}
      /\ \A w \in Warnings : warning[w] \in Warning \cup {None}
    BY <1>1 DEF RowsHold, RowsTyped, PeriodRows, WarningRows
<1>3. RowsTyped'
    BY <1>1, <1>2 DEF RowsTyped, PeriodRows, WarningRows
<1>4. \A s \in recorded' : learner'[s] # None
    BY <1>1 DEF RowsHold, RowsTyped, RowsOfStudents
<1>5. \A p \in Periods : period'[p] # None => learner'[period'[p].student] # None
    <2>1. \A p \in Periods : period[p] # None => period[p].student \in Learners
        BY <1>2 DEF Period
    <2> QED BY <1>1, <2>1 DEF RowsHold, RowsOfStudents
<1>6. \A w \in Warnings : warning'[w] # None => learner'[warning'[w].student] # None
    <2>1. \A w \in Warnings : warning[w] # None => warning[w].student \in Learners
        BY <1>2 DEF Warning
    <2> QED BY <1>1, <2>1 DEF RowsHold, RowsOfStudents
<1>7. ASSUME NEW a \in Applications, application'[a] # None, application'[a].student # None
      PROVE  learner'[application'[a].student] # None
    <2>1. CASE application[a] # None /\ application[a].student \in gone
        <3>1. application[a] \in Application
            BY <2>1 DEF ApplicationsInvariant, ApplicationsTyped
        <3>2. application'[a] = [application[a] EXCEPT !.student = None]
            BY <2>1 DEF Without
        <3>3. application'[a].student = None
            BY <3>1, <3>2 DEF Application
        <3> QED BY <1>7, <3>3
    <2>2. CASE ~(application[a] # None /\ application[a].student \in gone)
        <3>1. application'[a] = application[a]
            BY <2>2 DEF Without
        <3>2. application[a].student \in Learners \ gone
            BY <1>7, <2>2, <3>1 DEF ApplicationsInvariant, ApplicationsTyped, Application
        <3> QED BY <1>7, <3>1, <3>2 DEF RowsHold, RowsOfStudents
    <2> QED BY <2>1, <2>2
<1> QED BY <1>3, <1>4, <1>5, <1>6, <1>7 DEF RowsHold, RowsOfStudents

LEMMA OnePeriodChanges ==
    ASSUME RowsHold, UNCHANGED <<learner, recorded, warning, application>>,
           NEW p \in Periods, NEW new \in Period, learner[new.student] # None,
           period' = [period EXCEPT ![p] = new]
    PROVE  RowsHold'
<1>1. /\ period' \in PeriodRows /\ period'[p] = new
      /\ \A q \in Periods \ {p} : period'[q] = period[q]
    BY DEF RowsHold, RowsTyped, PeriodRows
<1>2. RowsTyped'
    BY <1>1 DEF RowsHold, RowsTyped, WarningRows
<1>3. \A q \in Periods : period'[q] # None => learner[period'[q].student] # None
    BY <1>1 DEF RowsHold, RowsOfStudents
<1> QED BY <1>2, <1>3 DEF RowsHold, RowsOfStudents

LEMMA OneWarningChanges ==
    ASSUME RowsHold, UNCHANGED <<learner, recorded, period, application>>,
           NEW w \in Warnings, NEW new \in Warning \cup {None},
           new # None => learner[new.student] # None,
           warning' = [warning EXCEPT ![w] = new]
    PROVE  RowsHold'
<1>1. /\ warning' \in WarningRows /\ warning'[w] = new
      /\ \A v \in Warnings \ {w} : warning'[v] = warning[v]
    BY DEF RowsHold, RowsTyped, WarningRows
<1>2. RowsTyped'
    BY <1>1 DEF RowsHold, RowsTyped, PeriodRows
<1>3. \A v \in Warnings : warning'[v] # None => learner[warning'[v].student] # None
    BY <1>1 DEF RowsHold, RowsOfStudents
<1> QED BY <1>2, <1>3 DEF RowsHold, RowsOfStudents

LEMMA SameRows ==
    ASSUME RowsHold, UNCHANGED <<learner, recorded, period, warning, application>>
    PROVE  RowsHold'
BY DEF RowsHold, RowsTyped, PeriodRows, WarningRows, RowsOfStudents

-----------------------------------------------------------------------------
(* What clerks hold.                                                           *)

LEMMA RequestsTyped ==
    ASSUME RowsInvariant, NEW k \in Clerks, errand[k] # None
    PROVE  LET r == errand[k].request
           IN  /\ r \in Errand /\ errand[k].loaded \in Loaded /\ errand[k].accepted \in BOOLEAN
               /\ r.student \in Learners /\ r.sheikh \in Sheikhs \cup {None}
               /\ r.plan \in [Learners -> Resolution] /\ r.period \in Periods
               /\ r.from \in Days /\ r.to \in Days /\ r.warning \in Warnings
<1>1. ErrandTyped(errand[k])
    BY DEF RowsInvariant, ErrandsTyped
<1> QED BY <1>1 DEF ErrandTyped, Errand

LEMMA WarningsAreCounted ==
    ASSUME NEW s PROVE Cardinality(WarningsOf(s)) + 1 \in 1..Cardinality(Warnings) + 1
<1>1. IsFiniteSet(Warnings) /\ WarningsOf(s) \subseteq Warnings
    BY StudentsAssumption DEF WarningsOf
<1>2. /\ Cardinality(WarningsOf(s)) \in Nat /\ Cardinality(Warnings) \in Nat
      /\ Cardinality(WarningsOf(s)) <= Cardinality(Warnings)
    BY <1>1, FS_Subset, FS_CardinalityType
<1> QED BY <1>2

LEMMA DoneTyped ==
    ASSUME RowsInvariant, NEW k \in Clerks, Done(k) PROVE ErrandsTyped'
<1>1. \A j \in Clerks : errand'[j] # None => errand'[j] = errand[j]
    BY DEF Done, RowsInvariant, StudentsHold, SheikhsInvariant, PlansHeld, ErrandsKept
<1> QED BY <1>1 DEF RowsInvariant, ErrandsTyped, ErrandTyped

LEMMA FetchTyped ==
    ASSUME RowsInvariant, NEW k \in Clerks, NEW r \in Errand, Fetch(k, r) PROVE ErrandsTyped'
<1> DEFINE was == IF r.op \in {"move", "assign"} THEN learner[r.student].sheikh ELSE None
           row == IF r.op \in {"change", "return"} THEN period[r.period] ELSE None
           number == IF r.op \in {"warn", "warnAndSend"}
                     THEN Cardinality(WarningsOf(r.student)) + 1 ELSE 0
           roster == IF r.op = "deleteSheikh" THEN Roster(r.sheikh) ELSE {}
           rows == [s \in Learners |-> RowsLoaded(r, s)]
           loaded == [sheikh |-> was, period |-> row, number |-> number, roster |-> roster,
                      rows |-> rows]
           e == [request |-> r, accepted |-> FALSE, loaded |-> loaded]
<1>1. errand' = [errand EXCEPT ![k] = e] /\ Possible(r)
    BY DEF Fetch
<1>2. was \in Sheikhs \cup {None}
    <2>1. r.op \in {"move", "assign"} => Present(r)
        BY <1>1 DEF Possible, MayMove, MayAssign
    <2>2. r.student \in Learners
        BY DEF Errand
    <2>3. learner \in [Learners -> Learner \cup {None}]
        BY DEF RowsInvariant, StudentsHold, SheikhsInvariant, SheikhRows
    <2>4. learner[r.student] # None => learner[r.student].sheikh \in Sheikhs \cup {None}
        BY <2>2, <2>3 DEF Learner
    <2> QED BY <2>1, <2>4 DEF Present
<1>3. row \in Period \cup {None}
    <2>1. r.period \in Periods
        BY DEF Errand
    <2> QED BY <2>1 DEF RowsInvariant, RowsTyped, PeriodRows
<1>4. /\ number \in Nat
      /\ r.op \in {"warn", "warnAndSend"} => number \in 1..Cardinality(Warnings) + 1
    <2>1. Cardinality(WarningsOf(r.student)) + 1 \in 1..Cardinality(Warnings) + 1
        BY WarningsAreCounted
    <2>2. Cardinality(WarningsOf(r.student)) + 1 \in Nat
        BY <2>1, FS_CardinalityType, StudentsAssumption
    <2> QED BY <2>1, <2>2
<1>5. roster \in SUBSET Learners
    BY DEF Roster
<1>6. rows \in [Learners -> SUBSET (Periods \cup Warnings \cup {"attendance"})]
    <2>1. \A s \in Learners : RowsLoaded(r, s) \subseteq Periods \cup Warnings \cup {"attendance"}
        BY DEF RowsLoaded, Attached, PeriodsOf, WarningsOf
    <2> QED BY <2>1
<1> HIDE DEF was, row, number, roster, rows
<1>7. loaded \in Loaded /\ loaded.number = number
    BY <1>2, <1>3, <1>4, <1>5, <1>6 DEF Loaded
<1> HIDE DEF loaded
<1>8. ErrandTyped(e)
    <2>1. e.request = r /\ e.accepted \in BOOLEAN /\ e.loaded = loaded
        OBVIOUS
    <2> HIDE DEF e
    <2> QED BY <1>4, <1>7, <2>1 DEF ErrandTyped
<1> HIDE DEF e
<1>9. \A j \in Clerks : errand'[j] = IF j = k THEN e ELSE errand[j]
    BY <1>1 DEF RowsInvariant, StudentsHold, SheikhsInvariant, PlansHeld, ErrandsKept
<1> QED BY <1>8, <1>9 DEF RowsInvariant, ErrandsTyped, ErrandTyped

LEMMA DeliverTyped ==
    ASSUME RowsInvariant, NEW k \in Clerks, errand[k] # None, Deliver(k) PROVE ErrandsTyped'
<1>1. ErrandsKept
    BY DEF RowsInvariant, StudentsHold, SheikhsInvariant, PlansHeld
<1>2. errand'[k] = [request |-> errand[k].request, loaded |-> errand[k].loaded,
                    accepted |-> TRUE]
    BY <1>1, DeliveredErrand
<1>3. \A j \in Clerks \ {k} : errand'[j] = errand[j]
    BY <1>1 DEF Deliver, ErrandsKept
<1>4. ErrandTyped(errand[k])
    BY DEF RowsInvariant, ErrandsTyped
<1>5. ErrandTyped(errand'[k])
    <2>1. /\ errand'[k].request = errand[k].request /\ errand'[k].loaded = errand[k].loaded
          /\ errand'[k].accepted \in BOOLEAN
        BY <1>2
    <2> QED BY <1>4, <2>1 DEF ErrandTyped
<1> QED BY <1>3, <1>5 DEF RowsInvariant, ErrandsTyped, ErrandTyped

-----------------------------------------------------------------------------
(* The steps.                                                                  *)

\* Students who are made, moved and deleted.
LEMMA StudentsChange ==
    ASSUME RowsInvariant, NEW k \in Clerks, errand[k] # None,
           (\E s \in Learners : CreateStudent(k, s)) \/ Move(k) \/ DeleteStudent(k)
           \/ DeleteSheikh(k)
    PROVE  RowsHold'
<1> DEFINE r == errand[k].request
<1>1. /\ RowsHold /\ ApplicationsInvariant
      /\ learner \in [Learners -> Learner \cup {None}]
    BY DEF RowsInvariant, RowsHold, StudentsHold, SheikhsInvariant, SheikhRows
<1>2. CASE UNCHANGED studentRows
    BY <1>1, <1>2, SameRows DEF studentRows
<1>3. ASSUME NEW s \in Learners, CreateStudent(k, s), ~UNCHANGED studentRows
      PROVE  RowsHold'
    <2> DEFINE new == [sheikh |-> r.sheikh]
    <2>1. /\ learner' = [learner EXCEPT ![s] = new]
          /\ UNCHANGED <<recorded, application, period, warning>>
        BY <1>3 DEF CreateStudent, Undone
    <2>2. new # None
        <3>1. new \in Learner
            BY RequestsTyped DEF Learner
        <3> QED BY <3>1, StudentRowsAreThere
    <2> HIDE DEF new
    <2>3. \A x \in Learners : learner[x] # None => learner'[x] # None
        BY <1>1, <2>1, <2>2
    <2> QED BY <1>1, <2>1, <2>3, NobodyLeaves
<1>4. CASE Move(k) /\ ~UNCHANGED studentRows
    <2> DEFINE new == [learner[r.student] EXCEPT !.sheikh = r.sheikh]
    <2>1. /\ learner' = [learner EXCEPT ![r.student] = new] /\ learner[r.student] # None
          /\ UNCHANGED <<recorded, application, period, warning>>
        BY <1>4 DEF Move, Undone
    <2>2. new # None
        <3>1. learner[r.student] \in Learner /\ r.sheikh \in Sheikhs \cup {None}
            BY <1>1, <2>1, RequestsTyped
        <3>2. new \in Learner
            <4> DEFINE row == learner[r.student]
                       t == r.sheikh
            <4>1. row \in Learner /\ t \in Sheikhs \cup {None}
                BY <3>1
            <4> HIDE DEF row, t
            <4>2. [row EXCEPT !.sheikh = t] \in Learner
                BY <4>1 DEF Learner
            <4> QED BY <4>2 DEF row, t
        <3> QED BY <3>2, StudentRowsAreThere
    <2> HIDE DEF new
    <2>3. \A x \in Learners : learner[x] # None => learner'[x] # None
        BY <1>1, <2>1, <2>2
    <2> QED BY <1>1, <2>1, <2>3, NobodyLeaves
<1>5. CASE DeleteStudent(k) /\ ~UNCHANGED studentRows
    <2>1. /\ learner' = [learner EXCEPT ![r.student] = None] /\ Without({r.student})
        BY <1>5 DEF DeleteStudent, Undone
    <2>2. \A x \in Learners \ {r.student} : learner[x] # None => learner'[x] # None
        BY <1>1, <2>1
    <2> QED BY <1>1, <2>1, <2>2, SomeLeave
<1>6. CASE DeleteSheikh(k) /\ ~UNCHANGED studentRows
    <2> DEFINE moved == {s \in Named(r.plan) : r.plan[s] # "delete"}
               gone == Named(r.plan) \ moved
    <2>1. /\ Without(gone)
          /\ learner' = [s \in Learners |->
                 CASE s \in moved -> [sheikh |-> r.plan[s]]
                   [] s \in gone -> None
                   [] s \in Roster(r.sheikh) \ (moved \cup gone) -> [sheikh |-> None]
                   [] OTHER -> learner[s]]
        BY <1>6 DEF DeleteSheikh, Undone
    <2>2. \A s \in moved : r.plan[s] \in Sheikhs
        BY RequestsTyped DEF Named, Resolution
    <2>3. moved \cap gone = {}
        OBVIOUS
    <2> HIDE DEF moved, gone
    <2>4. ASSUME NEW s \in Learners \ gone, learner[s] # None PROVE learner'[s] # None
        <3>1. CASE s \in moved
            <4> DEFINE new == [sheikh |-> r.plan[s]]
            <4>1. learner'[s] = new
                BY <2>1, <3>1
            <4>2. new \in Learner
                BY <2>2, <3>1 DEF Learner
            <4> QED BY <4>1, <4>2, StudentRowsAreThere
        <3>2. CASE s \in Roster(r.sheikh) \ (moved \cup gone)
            <4> DEFINE new == [sheikh |-> None]
            <4>1. learner'[s] = new
                BY <2>1, <3>2
            <4>2. new \in Learner
                BY DEF Learner
            <4> QED BY <4>1, <4>2, StudentRowsAreThere
        <3>3. CASE s \notin Roster(r.sheikh) \cup moved
            <4>1. learner'[s] = learner[s]
                BY <2>1, <3>3
            <4> QED BY <2>4, <4>1
        <3> QED BY <3>1, <3>2, <3>3
    <2> QED BY <1>1, <2>1, <2>4, SomeLeave
<1> QED BY <1>2, <1>3, <1>4, <1>5, <1>6

LEMMA PeriodsChange ==
    ASSUME RowsInvariant, NEW k \in Clerks, errand[k] # None,
           (\E p \in Periods : CreatePeriod(k, p)) \/ UpdatePeriod(k) \/ CancelPeriod(k)
    PROVE  RowsHold'
<1> DEFINE r == errand[k].request
<1>1. RowsHold /\ period \in PeriodRows
    BY DEF RowsInvariant, RowsHold, RowsTyped
<1>2. CASE UNCHANGED studentRows
    BY <1>1, <1>2, SameRows DEF studentRows
<1>3. /\ r.student \in Learners /\ r.period \in Periods /\ r.from \in Days /\ r.to \in Days
    BY RequestsTyped
<1>4. ASSUME NEW p \in Periods, CreatePeriod(k, p), ~UNCHANGED studentRows
      PROVE  RowsHold'
    <2> DEFINE new == [student |-> r.student, from |-> r.from, to |-> r.to, cancelled |-> FALSE]
    <2>1. /\ period' = [period EXCEPT ![p] = new] /\ learner[r.student] # None
          /\ UNCHANGED <<learner, recorded, application, warning>>
        BY <1>4 DEF CreatePeriod, Undone, KeepsAllButPeriods
    <2>2. new \in Period /\ new.student = r.student
        BY <1>3 DEF Period
    <2> HIDE DEF new, r
    <2> QED BY <1>1, <2>1, <2>2, OnePeriodChanges
<1>5. ASSUME NEW new, period[r.period] # None, period' = [period EXCEPT ![r.period] = new],
             UNCHANGED <<learner, recorded, application, warning>>,
             new \in Period, new.student = period[r.period].student
      PROVE  RowsHold'
    <2>1. learner[new.student] # None
        BY <1>1, <1>3, <1>5 DEF RowsHold, RowsOfStudents
    <2> QED BY <1>1, <1>3, <1>5, <2>1, OnePeriodChanges
<1>6. CASE UpdatePeriod(k) /\ ~UNCHANGED studentRows
    <2> DEFINE row == period[r.period]
               was == errand[k].loaded.period
               from == IF r.op = "return" \/ r.from = was.from THEN row.from ELSE r.from
               to == IF r.to = was.to THEN row.to ELSE r.to
               new == Dated(r, was, row)
    <2>1. /\ row # None /\ period' = [period EXCEPT ![r.period] = new]
          /\ UNCHANGED <<learner, recorded, application, warning>>
        BY <1>6 DEF UpdatePeriod, Undone, KeepsAllButPeriods
    <2>2. row \in Period
        BY <1>1, <1>3, <2>1 DEF PeriodRows
    <2>3. from \in Days /\ to \in Days
        BY <1>3, <2>2 DEF Period
    <2>4. new = [row EXCEPT !.from = from, !.to = to]
        BY DEF Dated
    <2> HIDE DEF from, to, new
    <2>5. new \in Period /\ new.student = row.student
        <3> HIDE DEF row, r
        <3> QED BY <2>2, <2>3, <2>4 DEF Period
    <2> QED BY <1>5, <2>1, <2>5
<1>7. CASE CancelPeriod(k) /\ ~UNCHANGED studentRows
    <2> DEFINE row == period[r.period]
               yes == TRUE
               new == [row EXCEPT !.cancelled = yes]
    <2>1. /\ row # None /\ period' = [period EXCEPT ![r.period] = new]
          /\ UNCHANGED <<learner, recorded, application, warning>>
        BY <1>7 DEF CancelPeriod, Undone, KeepsAllButPeriods
    <2>2. row \in Period
        BY <1>1, <1>3, <2>1 DEF PeriodRows
    <2>3. yes \in BOOLEAN
        OBVIOUS
    <2>4. new \in Period /\ new.student = row.student
        <3> HIDE DEF row, r, yes
        <3> QED BY <2>2, <2>3 DEF Period
    <2> HIDE DEF new
    <2> QED BY <1>5, <2>1, <2>4
<1> QED BY <1>2, <1>4, <1>6, <1>7

LEMMA WarningsChange ==
    ASSUME RowsInvariant, NEW k \in Clerks, errand[k] # None,
           (\E w \in Warnings : AddWarning(k, w)) \/ MarkSent(k)
    PROVE  RowsHold'
<1> DEFINE r == errand[k].request
<1>1. RowsHold /\ warning \in WarningRows
    BY DEF RowsInvariant, RowsHold, RowsTyped
<1>2. CASE UNCHANGED studentRows
    BY <1>1, <1>2, SameRows DEF studentRows
<1>3. /\ r.student \in Learners /\ r.warning \in Warnings /\ errand[k].accepted \in BOOLEAN
      /\ r.op \in {"warn", "warnAndSend"}
            => errand[k].loaded.number \in 1..Cardinality(Warnings) + 1
    BY RequestsTyped DEF RowsInvariant, ErrandsTyped, ErrandTyped
<1>4. ASSUME NEW w \in Warnings, AddWarning(k, w), ~UNCHANGED studentRows
      PROVE  RowsHold'
    <2> DEFINE number == errand[k].loaded.number
               sent == errand[k].accepted
               new == [student |-> r.student, number |-> number, sent |-> sent]
    <2>1. /\ warning' = [warning EXCEPT ![w] = new] /\ learner[r.student] # None
          /\ r.op \in {"warn", "warnAndSend"}
          /\ UNCHANGED <<learner, recorded, application, period>>
        BY <1>4 DEF AddWarning, Undone, KeepsAllButWarnings
    <2>2. number \in 1..Cardinality(Warnings) + 1 /\ sent \in BOOLEAN
        BY <1>3, <2>1
    <2> HIDE DEF number, sent
    <2>3. new \in Warning /\ new.student = r.student
        BY <1>3, <2>2 DEF Warning
    <2> HIDE DEF new, r
    <2> QED BY <1>1, <2>1, <2>3, OneWarningChanges
<1>5. CASE MarkSent(k) /\ ~UNCHANGED studentRows
    <2> DEFINE row == warning[r.warning]
               yes == TRUE
               new == [row EXCEPT !.sent = yes]
    <2>1. /\ row # None /\ warning' = [warning EXCEPT ![r.warning] = new]
          /\ UNCHANGED <<learner, recorded, application, period>>
        BY <1>5 DEF MarkSent, Undone, KeepsAllButWarnings
    <2>2. row \in Warning
        BY <1>1, <1>3, <2>1 DEF WarningRows
    <2>3. yes \in BOOLEAN
        OBVIOUS
    <2>4. new \in Warning /\ new.student = row.student
        <3> HIDE DEF row, r, yes
        <3> QED BY <2>2, <2>3 DEF Warning
    <2>5. learner[new.student] # None
        BY <1>1, <1>3, <2>1, <2>4 DEF RowsHold, RowsOfStudents
    <2> HIDE DEF new, row
    <2> QED BY <1>1, <1>3, <2>1, <2>4, <2>5, OneWarningChanges
<1> QED BY <1>2, <1>4, <1>5

LEMMA SettledRows ==
    ASSUME RowsInvariant, NEW k \in Clerks, Settle(k) PROVE RowsHold' /\ ErrandsTyped'
<1>1. errand[k] # None /\ RowsHold
    BY DEF Settle, RowsInvariant, RowsHold
<1>2. CASE Deliver(k)
    BY <1>1, <1>2, DeliverTyped, SameRows DEF Deliver, studentRows
<1>3. CASE Refused(k)
    BY <1>1, <1>3, DoneTyped, SameRows DEF Refused, Undone, studentRows
<1>4. CASE (\E s \in Learners : CreateStudent(k, s)) \/ Move(k) \/ DeleteStudent(k)
           \/ DeleteSheikh(k)
    <2>1. Done(k)
        BY <1>4 DEF CreateStudent, Move, DeleteStudent, DeleteSheikh, Undone
    <2> QED BY <1>1, <1>4, <2>1, StudentsChange, DoneTyped
<1>5. CASE (\E p \in Periods : CreatePeriod(k, p)) \/ UpdatePeriod(k) \/ CancelPeriod(k)
    <2>1. Done(k)
        BY <1>5 DEF CreatePeriod, UpdatePeriod, CancelPeriod, Undone
    <2> QED BY <1>1, <1>5, <2>1, PeriodsChange, DoneTyped
<1>6. CASE (\E w \in Warnings : AddWarning(k, w)) \/ MarkSent(k)
    <2>1. Done(k)
        BY <1>6 DEF AddWarning, MarkSent, Undone
    <2> QED BY <1>1, <1>6, <2>1, WarningsChange, DoneTyped
<1> QED BY <1>1, <1>2, <1>3, <1>4, <1>5, <1>6 DEF Settle

LEMMA RowsStep ==
    ASSUME RowsInvariant, [StudentsNext]_studentsVars PROVE RowsInvariant'
<1>1. StudentsHold'
    BY SheikhsStep, ApplicationsStep DEF RowsInvariant, StudentsHold
<1>2. /\ RowsHold /\ ApplicationsInvariant /\ ErrandsTyped
      /\ learner \in [Learners -> Learner \cup {None}]
      /\ application \in [Applications -> Application \cup {None}]
    BY DEF RowsInvariant, RowsHold, StudentsHold, SheikhsInvariant, SheikhRows,
           ApplicationsInvariant, ApplicationsTyped
<1>3. ASSUME UNCHANGED errand PROVE ErrandsTyped'
    BY <1>2, <1>3 DEF ErrandsTyped, ErrandTyped
<1>4. ASSUME NEW k \in Clerks, NEW r \in Errand, Fetch(k, r) PROVE RowsHold' /\ ErrandsTyped'
    BY <1>2, <1>4, FetchTyped, SameRows DEF Fetch, studentRows
<1>5. ASSUME NEW k \in Clerks, Settle(k) PROVE RowsHold' /\ ErrandsTyped'
    BY <1>5, SettledRows
<1>6. ASSUME (\E t \in Sheikhs : CreateSheikh(t)) \/ UNCHANGED studentsVars
      PROVE  RowsHold' /\ ErrandsTyped'
    <2>1. UNCHANGED <<learner, recorded, period, warning, application, errand>>
        BY <1>6 DEF CreateSheikh, studentsVars, studentRows
    <2>2. RowsHold'
        BY <1>2, <2>1, SameRows
    <2> QED BY <1>3, <2>1, <2>2
<1>7. ASSUME NEW s \in Learners, Record(s) PROVE RowsHold' /\ ErrandsTyped'
    <2>1. /\ recorded' = recorded \cup {s} /\ learner[s] # None
          /\ UNCHANGED <<learner, application, period, warning, errand>>
        BY <1>7 DEF Record
    <2> QED BY <1>2, <1>3, <2>1
        DEF RowsHold, RowsTyped, PeriodRows, WarningRows, RowsOfStudents
<1>8. ASSUME NEW a \in Applications, Submit(a) \/ Reject(a) PROVE RowsHold' /\ ErrandsTyped'
    <2>1. UNCHANGED <<learner, recorded, period, warning, errand>>
        BY <1>8 DEF Submit, Reject
    <2>2. ASSUME NEW b \in Applications, application'[b] # None, application'[b].student # None
          PROVE  application[b] # None /\ application[b].student = application'[b].student
        <3>1. CASE b # a
            BY <1>2, <1>8, <2>2, <3>1 DEF Submit, Reject
        <3>2. CASE b = a /\ Submit(a)
            <4> DEFINE new == [status |-> "pending", student |-> None]
            <4>1. application'[b] = new /\ new.student = None
                BY <1>2, <3>2 DEF Submit
            <4> QED BY <2>2, <4>1
        <3>3. CASE b = a /\ Reject(a)
            <4> DEFINE row == application[a]
                       new == [row EXCEPT !.status = "rejected"]
            <4>1. row \in Application /\ row # None /\ application'[b] = new
                BY <1>2, <3>3 DEF Reject
            <4>2. new.student = row.student
                <5> HIDE DEF row
                <5> QED BY <4>1 DEF Application
            <4> QED BY <3>3, <4>1, <4>2
        <3> QED BY <1>8, <3>1, <3>2, <3>3
    <2> QED BY <1>2, <1>3, <2>1, <2>2, NobodyLeaves
<1>9. ASSUME NEW a \in Applications, NEW s \in Learners, NEW t \in Sheikhs \cup {None},
             Approve(a, s, t)
      PROVE  RowsHold' /\ ErrandsTyped'
    <2> DEFINE new == [sheikh |-> t]
               row == [status |-> "approved", student |-> s]
    <2>1. /\ UNCHANGED <<recorded, period, warning, errand>>
          /\ learner' = [learner EXCEPT ![s] = new]
          /\ application' = [application EXCEPT ![a] = row]
        BY <1>9 DEF Approve
    <2>2. new # None /\ row.student = s
        <3>1. new \in Learner
            BY DEF Learner
        <3> QED BY <3>1, StudentRowsAreThere
    <2> HIDE DEF new, row
    <2>3. learner'[s] # None /\ \A x \in Learners : learner[x] # None => learner'[x] # None
        BY <1>2, <2>1, <2>2
    <2>4. \A b \in Applications :
             application'[b] = IF b = a THEN row ELSE application[b]
        BY <1>2, <2>1
    <2> QED BY <1>2, <1>3, <2>1, <2>2, <2>3, <2>4, NobodyLeaves
<1>10. ASSUME NEW w \in Warnings, DeleteWarning(w) PROVE RowsHold' /\ ErrandsTyped'
    <2>1. /\ warning' = [warning EXCEPT ![w] = None]
          /\ UNCHANGED <<learner, recorded, period, application, errand>>
        BY <1>10 DEF DeleteWarning, KeepsAllButWarnings
    <2> QED BY <1>2, <1>3, <2>1, OneWarningChanges
<1>11. \/ \E k \in Clerks, r \in Errand : Fetch(k, r)
       \/ \E k \in Clerks : Settle(k)
       \/ (\E t \in Sheikhs : CreateSheikh(t)) \/ UNCHANGED studentsVars
       \/ \E s \in Learners : Record(s)
       \/ \E a \in Applications : Submit(a) \/ Reject(a)
       \/ \E a \in Applications, s \in Learners, t \in Sheikhs \cup {None} : Approve(a, s, t)
       \/ \E w \in Warnings : DeleteWarning(w)
    BY DEF StudentsNext
<1>12. RowsHold' /\ ErrandsTyped'
    BY <1>4, <1>5, <1>6, <1>7, <1>8, <1>9, <1>10, <1>11
<1> QED BY <1>1, <1>12 DEF RowsInvariant, RowsHold

LEMMA RowsStart == StudentsInit => RowsInvariant
<1> SUFFICES ASSUME StudentsInit PROVE RowsInvariant
    OBVIOUS
<1>1. StudentsHold
    BY StartedSheikhs, ApplicationsStart DEF StudentsHold
<1> QED BY <1>1 DEF StudentsInit, RowsInvariant, RowsTyped, PeriodRows, WarningRows,
                    RowsOfStudents, ErrandsTyped

\* Every row is of its type, however requests overlap: warnings are numbered within what
\* there can be, and what a clerk holds is what could be read.
THEOREM StudentsCorrectlyTyped == StudentsSpec => []StudentsTypeOK
<1>1. RowsInvariant => StudentsTypeOK
    <2> SUFFICES ASSUME RowsInvariant PROVE StudentsTypeOK
        OBVIOUS
    <2>1. ASSUME NEW k \in Clerks, errand[k] # None
          PROVE  errand[k] \in [request : Errand, loaded : Loaded, accepted : BOOLEAN]
        <3> DEFINE r == errand[k].request
                   l == errand[k].loaded
                   b == errand[k].accepted
        <3>1. r \in Errand /\ l \in Loaded /\ b \in BOOLEAN
            BY <2>1, RequestsTyped
        <3>2. errand[k] = [request |-> r, loaded |-> l, accepted |-> b]
            BY <2>1 DEF RowsInvariant, StudentsHold, SheikhsInvariant, PlansHeld, ErrandsKept
        <3> HIDE DEF r, l, b
        <3> QED BY <3>1, <3>2
    <2>2. errand = [k \in Clerks |-> errand[k]]
        BY DEF RowsInvariant, StudentsHold, SheikhsInvariant, PlansHeld, ErrandsKept
    <2> QED BY <2>1, <2>2
        DEF StudentsTypeOK, RowsInvariant, StudentsHold, SheikhsInvariant, SheikhRows,
            ApplicationsInvariant, ApplicationsTyped, RowsTyped, PeriodRows, WarningRows
<1> QED BY <1>1, RowsStart, RowsStep, PTL DEF StudentsSpec

\* However deletions of students and sheikhs overlap with what is being made for them, no
\* attendance, period, warning or application is left of a student who is gone, and no
\* student has a sheikh who is (delete_student, finalize_sheikh_deletion).
THEOREM NothingIsLeftBehind == StudentsSpec => []ReferencesHold
<1>1. RowsInvariant => ReferencesHold
    BY DEF RowsInvariant, StudentsHold, SheikhsInvariant, SheikhRows, ReferencesHold
<1> QED BY <1>1, RowsStart, RowsStep, PTL DEF StudentsSpec

-----------------------------------------------------------------------------
(***************************************************************************)
(* Statuses: a streak that passes the limit is noticed each time, as long   *)
(* as the settings are left alone while requests are in progress, and the  *)
(* marks of one session come alone.                                       *)
(***************************************************************************)

SettingsFields == {"statuses", "tracked", "present", "absent", "resets", "colors", "limit", "alerts"}

\* What the argument needs of the types.
SettingsTyped ==
    /\ DOMAIN tahfiz = SettingsFields
    /\ tahfiz.limit \in Limits
    /\ noticed \in BOOLEAN

\* A mark that is in progress has read the streak as it is.
CallsRead ==
    /\ call = [q \in Calls |-> call[q]]
    /\ \A q \in Calls : call[q] # None =>
          /\ call[q].request \in Requests
          /\ call[q].request.op = "mark" => call[q].streak = Streak(tahfiz, mark)

StreakInvariant == SettingsTyped /\ CallsRead /\ PassingNoticed

LEMMA StreakIsNumber ==
    ASSUME NEW c, NEW m PROVE Streak(c, m) \in Nat
<1> DEFINE N == {n \in Numbers : /\ m[n] = StreakStatus(c)
                                 /\ \A k \in Numbers : k > n => m[k] \notin Resetting(c)}
<1>1. IsFiniteSet(Numbers)
    BY StatusesAssumption, FS_Interval DEF Numbers
<1>2. IsFiniteSet(N)
    BY <1>1, FS_Subset
<1> QED BY <1>2, FS_CardinalityType DEF Streak

\* A request leaves, and no mark that is in progress has read what it has changed.
LEMMA AnsweredRead ==
    ASSUME CallsRead, MarksAlone, NEW q \in Calls, call[q] # None, Answered(q)
    PROVE  CallsRead'
<1>1. ASSUME NEW p \in Calls, call'[p] # None
      PROVE  call[p] # None /\ call'[p] = call[p] /\ p # q
    BY <1>1 DEF Answered, CallsRead
<1>2. call' = [p \in Calls |-> call'[p]]
    BY DEF Answered, CallsRead
<1>3. ASSUME NEW p \in Calls, call'[p] # None
      PROVE  call'[p].request \in Requests /\ call'[p].request.op # "mark"
    BY <1>1, <1>3 DEF CallsRead, MarksAlone
<1> QED BY <1>2, <1>3 DEF CallsRead

\* The streak of marks that change under the same settings.
LEMMA MarkedNoticed ==
    ASSUME StreakInvariant, SettingsStill, NEW q \in Calls, call[q] # None,
           NEW status, Marked(q, status, Streak(tahfiz, mark))
    PROVE  SettingsTyped' /\ PassingNoticed'
<1> DEFINE before == Streak(tahfiz, mark)
<1>1. /\ tahfiz' = tahfiz /\ call[q].tahfiz = tahfiz
      /\ noticed' = (Passed(tahfiz, mark') /\ (noticed \/ Alerts(tahfiz, before, mark')))
    BY DEF Marked, SettingsStill
<1>2. SettingsTyped'
    BY <1>1 DEF StreakInvariant, SettingsTyped
<1>3. ASSUME tahfiz.alerts, Passed(tahfiz, mark') PROVE noticed'
    <2>1. tahfiz.limit \in Nat /\ Streak(tahfiz, mark') \in Nat /\ before \in Nat
        BY StreakIsNumber, StatusesAssumption DEF StreakInvariant, SettingsTyped
    <2>2. CASE tahfiz.limit < before
        <3>1. noticed
            BY <1>3, <2>2 DEF StreakInvariant, PassingNoticed, Passed
        <3> QED BY <1>1, <1>3, <3>1
    <2>3. CASE before <= tahfiz.limit
        <3>1. Alerts(tahfiz, before, mark')
            BY <1>3, <2>3 DEF Alerts, Passed
        <3> QED BY <1>1, <1>3, <3>1
    <2> HIDE DEF before
    <2> QED BY <2>1, <2>2, <2>3
<1> QED BY <1>1, <1>2, <1>3 DEF PassingNoticed

LEMMA MarkNoticed ==
    ASSUME StreakInvariant, SettingsStill, MarksAlone, NEW q \in Calls, Mark(q)
    PROVE  StreakInvariant'
<1>1. /\ call[q] # None /\ call[q].streak = Streak(tahfiz, mark)
      /\ Answered(q)
    BY DEF Mark, StreakInvariant, CallsRead
<1>2. SettingsTyped' /\ PassingNoticed'
    <2>1. CASE UNCHANGED <<tahfiz, mark, noticed>>
        BY <2>1 DEF StreakInvariant, SettingsTyped, PassingNoticed
    <2>2. CASE \E status : Marked(q, status, call[q].streak)
        BY <1>1, <2>2, MarkedNoticed
    <2> QED BY <2>1, <2>2 DEF Mark
<1>3. CallsRead'
    BY <1>1, AnsweredRead DEF StreakInvariant
<1> QED BY <1>2, <1>3 DEF StreakInvariant

LEMMA BatchNoticed ==
    ASSUME StreakInvariant, SettingsStill, MarksAlone, NEW q \in Calls, Batch(q)
    PROVE  StreakInvariant'
<1>1. call[q] # None /\ call[q].tahfiz = tahfiz /\ Answered(q)
    BY DEF Batch, SettingsStill
<1>2. SettingsTyped' /\ PassingNoticed'
    <2>1. CASE UNCHANGED <<tahfiz, mark, noticed>>
        BY <2>1 DEF StreakInvariant, SettingsTyped, PassingNoticed
    <2>2. CASE \E status : Marked(q, status, Streak(tahfiz, mark))
        BY <1>1, <2>2, MarkedNoticed
    <2> QED BY <1>1, <2>1, <2>2 DEF Batch
<1>3. CallsRead'
    BY <1>1, AnsweredRead DEF StreakInvariant
<1> QED BY <1>2, <1>3 DEF StreakInvariant

\* A new session takes a student's streak beyond the limit with no alert.
LEMMA CreateNoticed ==
    ASSUME StreakInvariant, MarksAlone, NEW q \in Calls, CreateSession(q)
    PROVE  StreakInvariant'
<1>1. call[q] # None /\ Answered(q) /\ tahfiz' = tahfiz
      /\ (UNCHANGED <<mark, noticed>> \/ noticed' = Passed(tahfiz, mark'))
    BY DEF CreateSession
<1>2. SettingsTyped' /\ PassingNoticed'
    <2>1. CASE UNCHANGED <<mark, noticed>>
        BY <1>1, <2>1 DEF StreakInvariant, SettingsTyped, PassingNoticed
    <2>2. CASE noticed' = Passed(tahfiz, mark')
        <3>1. Passed(tahfiz, mark') \in BOOLEAN
            BY DEF Passed
        <3> QED BY <1>1, <2>2, <3>1 DEF StreakInvariant, SettingsTyped, PassingNoticed
    <2> QED BY <1>1, <2>1, <2>2
<1>3. CallsRead'
    BY <1>1, AnsweredRead DEF StreakInvariant
<1> QED BY <1>2, <1>3 DEF StreakInvariant

LEMMA UpdatedFields ==
    ASSUME SettingsTyped, NEW b \in Bodies
    PROVE  /\ DOMAIN Updated(tahfiz, b) = SettingsFields
           /\ Updated(tahfiz, b).limit \in Limits
<1> DEFINE listed == Listed(tahfiz, b)
           named == IF b.renames = <<>> THEN listed ELSE Renamed(listed, b)
           chosen == Chosen(named, b)
<1>1. DOMAIN listed = SettingsFields /\ listed.limit = tahfiz.limit
    BY DEF Listed, SettingsTyped, SettingsFields
<1> HIDE DEF listed
<1>2. DOMAIN named = SettingsFields /\ named.limit = listed.limit
    <2>1. /\ DOMAIN Renamed(listed, b) = DOMAIN listed
          /\ Renamed(listed, b).limit = listed.limit
        BY <1>1 DEF Renamed, SettingsFields
    <2> QED BY <1>1, <2>1
<1> HIDE DEF named
<1>3. DOMAIN chosen = SettingsFields /\ chosen.limit = Given(b.limit, named.limit)
    BY <1>2 DEF Chosen, SettingsFields
<1> HIDE DEF chosen
<1>4. DOMAIN Reset(chosen, b) = SettingsFields /\ Reset(chosen, b).limit = chosen.limit
    BY <1>3 DEF Reset, SettingsFields
<1>5. b.limit \in Limits \cup {None}
    BY DEF Bodies
<1>6. chosen.limit \in Limits
    BY <1>1, <1>2, <1>3, <1>5 DEF Given, SettingsTyped
<1>7. Updated(tahfiz, b) = Reset(chosen, b)
    BY DEF Updated, listed, named, chosen
<1> QED BY <1>4, <1>6, <1>7

LEMMA UpdateNoticed ==
    ASSUME StreakInvariant, SettingsStill, MarksAlone, NEW q \in Calls, Update(q)
    PROVE  StreakInvariant'
<1> DEFINE b == call[q].request.body
           new == Updated(tahfiz, b)
<1>1. call[q] # None /\ call[q].tahfiz = tahfiz /\ Answered(q)
      /\ tahfiz' = Columns(tahfiz, new)
      /\ noticed' = Passed(tahfiz', mark')
    BY DEF Update, SettingsStill
<1>2. b \in Bodies
    BY DEF Update, StreakInvariant, CallsRead, Requests
<1>3. DOMAIN new = SettingsFields /\ new.limit \in Limits /\ tahfiz.limit \in Limits
    BY <1>2, UpdatedFields DEF StreakInvariant, SettingsTyped
<1> HIDE DEF new
<1>4. Passed(tahfiz', mark') \in BOOLEAN
    BY DEF Passed
<1>5. SettingsTyped' /\ PassingNoticed'
    BY <1>1, <1>3, <1>4 DEF StreakInvariant, SettingsTyped, PassingNoticed, Columns, SettingsFields
<1>6. CallsRead'
    BY <1>1, AnsweredRead DEF StreakInvariant
<1> QED BY <1>5, <1>6 DEF StreakInvariant

LEMMA AskNoticed ==
    ASSUME StreakInvariant, NEW q \in Calls, NEW r \in Requests, Ask(q, r)
    PROVE  StreakInvariant'
<1>1. UNCHANGED <<tahfiz, mark, noticed>>
    BY DEF Ask
<1>2. /\ call' = [p \in Calls |-> call'[p]]
      /\ \A p \in Calls \ {q} : call'[p] = call[p]
      /\ call'[q].request = r /\ call'[q].streak = Streak(tahfiz, mark)
    BY DEF Ask, StreakInvariant, CallsRead
<1>3. CallsRead'
    BY <1>1, <1>2 DEF StreakInvariant, CallsRead
<1> QED BY <1>1, <1>3 DEF StreakInvariant, SettingsTyped, PassingNoticed

\* Each time a student's streak passes the limit again, it is by a mark that is alerted, or
\* by a new session or new settings, however many batches overlap: they read the streak under
\* the lock they write it with (batch_attendance). Marks of one session, and settings, are
\* taken to come alone: a mark compares with the streak it has read, and does not read the
\* settings again (update_attendance, upsert_attendance, attendance_streaks.py).
THEOREM PassingIsNoticed == StatusesSpec => NoticedUnlessMixed
<1>1. StatusesInit => StreakInvariant
    <2> SUFFICES ASSUME StatusesInit PROVE StreakInvariant
        OBVIOUS
    <2>1. /\ DOMAIN tahfiz = SettingsFields /\ tahfiz.limit = 1 /\ 1 \in Limits
          /\ noticed = FALSE /\ call = [q \in Calls |-> None]
        BY DEF StatusesInit, SettingsFields
    <2>2. ~Passed(tahfiz, mark)
        <3>1. \A n \in Numbers : mark[n] = None
            BY DEF StatusesInit
        <3>2. StreakStatus(tahfiz) # None
            <4>1. Defaults[1] \in Names /\ Defaults[3] \in Names
                BY StatusesAssumption DEF Defaults
            <4>2. "present" # None /\ "excused" # None
                BY <4>1, StatusesAssumption DEF Defaults
            <4>3. tahfiz.tracked = "excused" /\ Head(tahfiz.statuses) = "present"
                BY DEF StatusesInit, Defaults
            <4> QED BY <4>2, <4>3 DEF StreakStatus
        <3>3. Streak(tahfiz, mark) = 0
            BY <3>1, <3>2, FS_EmptySet DEF Streak
        <3> QED BY <2>1, <3>3 DEF Passed
    <2> QED BY <2>1, <2>2 DEF StreakInvariant, SettingsTyped, CallsRead, PassingNoticed
<1>2. StreakInvariant /\ SettingsStill /\ MarksAlone /\ [StatusesNext]_statusVars => StreakInvariant'
    <2> SUFFICES ASSUME StreakInvariant, SettingsStill, MarksAlone, [StatusesNext]_statusVars
                 PROVE  StreakInvariant'
        OBVIOUS
    <2>1. ASSUME NEW q \in Calls, NEW r \in Requests, Ask(q, r) PROVE StreakInvariant'
        BY <2>1, AskNoticed
    <2>2. ASSUME NEW q \in Calls, Mark(q) \/ Batch(q) \/ CreateSession(q) \/ Update(q)
          PROVE  StreakInvariant'
        BY <2>2, MarkNoticed, BatchNoticed, CreateNoticed, UpdateNoticed
    <2>3. CASE UNCHANGED statusVars
        BY <2>3 DEF statusVars, StreakInvariant, SettingsTyped, CallsRead, PassingNoticed
    <2> QED BY <2>1, <2>2, <2>3 DEF StatusesNext
<1>3. StreakInvariant => PassingNoticed
    BY DEF StreakInvariant
<1> QED BY <1>1, <1>2, <1>3, PTL DEF StatusesSpec, NoticedUnlessMixed

-----------------------------------------------------------------------------
(***************************************************************************)
(* Statuses: the settings keep their types, and their renames what the     *)
(* marks mean. The renames of a request follow one another, each on what   *)
(* the ones before it left: an induction over their list.                  *)
(***************************************************************************)

(* Numbers.                                                                   *)

\* A set of numbers that is bounded has a largest one.
LEMMA LargestNumber ==
    ASSUME NEW S \in SUBSET Nat, S # {}, NEW b \in Nat, \A n \in S : n <= b
    PROVE  \E n \in S : \A m \in S : m <= n
<1> DEFINE above(k) == {x \in S : k < x}
           T == {above(k) : k \in S}
           R == StrictSubsetOrdering(S)
<1>1. IsFiniteSet(S)
    BY FS_BoundedSetOfNaturals
<1>2. T \subseteq SUBSET S /\ T # {}
    OBVIOUS
<1>3. IsWellFoundedOn(R, SUBSET S)
    BY <1>1, FS_FiniteSubsetsOfFinite, FS_StrictSubsetOrderingWellFounded
<1>4. PICK least \in T : \A U \in T : ~ (<<U, least>> \in R)
    <2> HIDE DEF T, R
    <2> QED BY <1>2, <1>3, WFMin
<1>5. PICK n \in S : least = above(n)
    OBVIOUS
<1>6. ASSUME NEW k \in S, n < k
      PROVE  FALSE
    <2>1. above(k) \subseteq above(n) /\ above(k) # above(n)
        <3>1. k \in above(n) /\ k \notin above(k)
            BY <1>6
        <3>2. \A x \in S : k < x => n < x
            BY <1>6
        <3> QED BY <3>1, <3>2
    <2>2. above(k) \in T /\ above(k) \subseteq S /\ above(n) \subseteq S
        OBVIOUS
    <2>3. <<above(k), above(n)>> \in R
        <3> HIDE DEF above
        <3> QED BY <2>1, <2>2 DEF StrictSubsetOrdering
    <2> QED BY <1>4, <1>5, <2>2, <2>3
<1> QED BY <1>6

\* A set that holds 1 and, with every number up to n, the next one.
LEMMA Climbing ==
    ASSUME NEW n \in Nat, NEW T, 1 \in T, \A m \in 1..n : m \in T => m + 1 \in T
    PROVE  1..n + 1 \subseteq T
<1> SUFFICES ASSUME NEW k \in 1..n + 1, k \notin T PROVE FALSE
    OBVIOUS
<1> DEFINE below == {m \in 1..n + 1 : m \in T /\ m < k}
<1>1. below \in SUBSET Nat /\ below # {} /\ n + 1 \in Nat /\ \A m \in below : m <= n + 1
    <2>1. 1 # k
        OBVIOUS
    <2>2. 1 \in below
        BY <2>1
    <2> QED BY <2>2
<1>2. PICK m \in below : \A x \in below : x <= m
    <2> HIDE DEF below
    <2> QED BY <1>1, LargestNumber
<1>3. m \in 1..n /\ m + 1 \in T /\ m + 1 <= k /\ m + 1 # k
    <2>1. m \in 1..n /\ m \in T /\ m + 1 <= k
        OBVIOUS
    <2> HIDE DEF below
    <2> QED BY <2>1
<1>4. m + 1 \in below
    BY <1>3
<1> HIDE DEF below
<1> QED BY <1>1, <1>2, <1>4

-----------------------------------------------------------------------------
(* Renames, one after the other.                                               *)

\* A status as the first i renames leave it.
FollowBody(f, s, renames) ==
    [i \in 0..Len(renames) |-> IF i = 0 THEN s
                               ELSE IF f[i - 1] = renames[i].from THEN renames[i].to ELSE f[i - 1]]
Path(s, renames) == CHOOSE f : f = FollowBody(f, s, renames)

LEMMA FollowIsPath ==
    ASSUME NEW s, NEW renames PROVE Follow(s, renames) = Path(s, renames)[Len(renames)]
BY DEF Follow, Path, FollowBody

LEMMA PathExists ==
    ASSUME NEW s, NEW renames, Len(renames) \in Nat
    PROVE  \E f : f = FollowBody(f, s, renames)
<1> DEFINE n == Len(renames)
           Next(f, i) == IF f[i - 1] = renames[i].from THEN renames[i].to ELSE f[i - 1]
           Goes(f, k) == f[0] = s /\ \A i \in 1..k : f[i] = Next(f, i)
           T == {k \in 0..n + 1 : \E f : Goes(f, k - 1)}
<1>1. ASSUME NEW k \in 0..n, \E f : Goes(f, k)
      PROVE  \E f : Goes(f, k + 1)
    <2>1. PICK f : Goes(f, k)
        BY <1>1
    <2> DEFINE v == Next(f, k + 1)
               g == [i \in 0..n + 1 |-> IF i = k + 1 THEN v ELSE f[i]]
    <2>2. /\ 0 \in 0..n + 1 /\ 0 # k + 1 /\ k + 1 \in 0..n + 1 /\ k \in 0..n + 1 /\ k # k + 1
          /\ k + 1 - 1 = k
        OBVIOUS
    <2>3. \A i \in 0..n + 1 : g[i] = IF i = k + 1 THEN v ELSE f[i]
        OBVIOUS
    <2>4. g[0] = s
        BY <2>1, <2>2, <2>3
    <2>5. v = IF f[k] = renames[k + 1].from THEN renames[k + 1].to ELSE f[k]
        BY <2>2
    <2> HIDE DEF g, v
    <2>6. ASSUME NEW i \in 1..k + 1 PROVE g[i] = Next(g, i)
        <3>1. i \in 0..n + 1 /\ i - 1 \in 0..n + 1 /\ i - 1 # k + 1
            OBVIOUS
        <3>2. g[i - 1] = f[i - 1]
            BY <2>3, <3>1
        <3>3. CASE i = k + 1
            BY <2>2, <2>3, <2>5, <3>1, <3>2, <3>3
        <3>4. CASE i # k + 1
            <4>1. i \in 1..k
                BY <3>4
            <4>2. g[i] = f[i] /\ f[i] = Next(f, i)
                BY <2>1, <2>3, <3>1, <3>4, <4>1
            <4> QED BY <3>2, <4>2
        <3> QED BY <3>3, <3>4
    <2> QED BY <2>4, <2>6
<1>2. \E f : Goes(f, 0)
    <2>1. Goes([i \in {0} |-> s], 0)
        OBVIOUS
    <2> QED BY <2>1
<1>3. \E f : Goes(f, n)
    <2>1. 1 \in T
        <3>1. 1 \in 0..n + 1 /\ 1 - 1 = 0
            OBVIOUS
        <3> HIDE DEF Goes
        <3> QED BY <1>2, <3>1
    <2>2. ASSUME NEW k \in 1..n, k \in T PROVE k + 1 \in T
        <3>1. k - 1 \in 0..n /\ k - 1 + 1 = k /\ k + 1 \in 0..n + 1 /\ k + 1 - 1 = k
            OBVIOUS
        <3> HIDE DEF Goes
        <3>2. \E f : Goes(f, k - 1)
            BY <2>2
        <3>3. \E f : Goes(f, k)
            BY <1>1, <3>1, <3>2
        <3> QED BY <3>1, <3>3
    <2> HIDE DEF T
    <2>3. n + 1 \in T
        <3>1. 1..n + 1 \subseteq T
            BY <2>1, <2>2, Climbing
        <3> QED BY <3>1
    <2> QED
        <3>1. n + 1 - 1 = n
            OBVIOUS
        <3> HIDE DEF Goes
        <3> QED BY <2>3, <3>1 DEF T
<1>4. PICK f : Goes(f, n)
    BY <1>3
<1> DEFINE h == [i \in 0..n |-> f[i]]
<1>5. h = FollowBody(h, s, renames)
    <2>1. ASSUME NEW i \in 0..n
          PROVE  h[i] = IF i = 0 THEN s
                        ELSE IF h[i - 1] = renames[i].from THEN renames[i].to ELSE h[i - 1]
        <3>1. CASE i = 0
            BY <1>4, <3>1
        <3>2. CASE i # 0
            <4>1. i \in 1..n /\ i - 1 \in 0..n
                BY <3>2
            <4>2. h[i] = f[i] /\ h[i - 1] = f[i - 1] /\ f[i] = Next(f, i)
                BY <1>4, <4>1
            <4> HIDE DEF h
            <4> QED BY <3>2, <4>2
        <3> QED BY <3>1, <3>2
    <2>2. h = [i \in 0..n |-> h[i]]
        OBVIOUS
    <2> HIDE DEF h
    <2> QED BY <2>1, <2>2 DEF FollowBody
<1> HIDE DEF h
<1> QED BY <1>5

LEMMA PathIs ==
    ASSUME NEW s, NEW renames, Len(renames) \in Nat
    PROVE  /\ Path(s, renames)[0] = s
           /\ \A i \in 1..Len(renames) :
                 Path(s, renames)[i] =
                    IF Path(s, renames)[i - 1] = renames[i].from THEN renames[i].to
                    ELSE Path(s, renames)[i - 1]
<1> DEFINE f == Path(s, renames)
           n == Len(renames)
<1>1. f = FollowBody(f, s, renames)
    <2>1. \E g : g = FollowBody(g, s, renames)
        BY PathExists
    <2> QED BY <2>1 DEF Path
<1> HIDE DEF f
<1>2. \A i \in 0..n : FollowBody(f, s, renames)[i] =
          IF i = 0 THEN s
          ELSE IF f[i - 1] = renames[i].from THEN renames[i].to ELSE f[i - 1]
    BY DEF FollowBody
<1>3. 0 \in 0..n /\ \A i \in 1..n : i \in 0..n /\ i # 0
    OBVIOUS
<1>4. f[0] = s
    BY <1>1, <1>2, <1>3
<1>5. \A i \in 1..n : f[i] = IF f[i - 1] = renames[i].from THEN renames[i].to ELSE f[i - 1]
    BY <1>1, <1>2, <1>3
<1> QED BY <1>4, <1>5 DEF f

\* A status that is renamed becomes one of the names given ...
LEMMA PathEnds ==
    ASSUME NEW s, NEW renames, Len(renames) \in Nat, NEW i \in 0..Len(renames)
    PROVE  Path(s, renames)[i] = s \/ \E j \in 1..i : Path(s, renames)[i] = renames[j].to
<1> DEFINE n == Len(renames)
           f == Path(s, renames)
           Ends(k) == f[k] = s \/ \E j \in 1..k : f[k] = renames[j].to
           T == {k \in 1..n + 1 : Ends(k - 1)}
<1>1. f[0] = s /\ \A k \in 1..n : f[k] = IF f[k - 1] = renames[k].from THEN renames[k].to
                                         ELSE f[k - 1]
    BY PathIs
<1> HIDE DEF f
<1>2. 1 \in T
    <2>1. 1 \in 1..n + 1 /\ 1 - 1 = 0
        OBVIOUS
    <2>2. Ends(0)
        BY <1>1
    <2> HIDE DEF Ends
    <2> QED BY <2>1, <2>2
<1>3. ASSUME NEW k \in 1..n, k \in T PROVE k + 1 \in T
    <2>1. k + 1 \in 1..n + 1 /\ k + 1 - 1 = k /\ k \in 1..k /\ \A j \in 1..k - 1 : j \in 1..k
        OBVIOUS
    <2>2. Ends(k - 1)
        BY <1>3
    <2>3. Ends(k)
        <3>1. CASE f[k - 1] = renames[k].from
            BY <1>1, <2>1, <3>1
        <3>2. CASE f[k - 1] # renames[k].from
            <4>1. f[k] = f[k - 1]
                BY <1>1, <3>2
            <4> QED BY <2>1, <2>2, <4>1
        <3> QED BY <3>1, <3>2
    <2> HIDE DEF Ends
    <2> QED BY <2>1, <2>3
<1>4. i + 1 \in T
    <2>1. 1..n + 1 \subseteq T
        <3> HIDE DEF T
        <3> QED BY <1>2, <1>3, Climbing
    <2>2. i + 1 \in 1..n + 1
        OBVIOUS
    <2> HIDE DEF T
    <2> QED BY <2>1, <2>2
<1>5. Ends(i)
    <2>1. i + 1 - 1 = i
        OBVIOUS
    <2> HIDE DEF Ends
    <2> QED BY <1>4, <2>1
<1> QED BY <1>5 DEF f

\* ... and if each name is given once, and neither of two statuses has one of them, they do
\* not become the same.
GivenOnce(renames) ==
    \A i, j \in 1..Len(renames) : renames[i].to = renames[j].to => i = j
NotGiven(s, renames) == \A i \in 1..Len(renames) : s # renames[i].to

LEMMA RenamesKeepApart ==
    ASSUME NEW s, NEW t, NEW renames, Len(renames) \in Nat, GivenOnce(renames),
           NotGiven(s, renames), NotGiven(t, renames)
    PROVE  Follow(s, renames) = Follow(t, renames) <=> s = t
<1> DEFINE n == Len(renames)
           f == Path(s, renames)
           g == Path(t, renames)
           Same(k) == f[k] = g[k] => s = t
           T == {k \in 1..n + 1 : Same(k - 1)}
<1>1. /\ f[0] = s /\ \A k \in 1..n : f[k] = IF f[k - 1] = renames[k].from THEN renames[k].to
                                            ELSE f[k - 1]
      /\ g[0] = t /\ \A k \in 1..n : g[k] = IF g[k - 1] = renames[k].from THEN renames[k].to
                                            ELSE g[k - 1]
    BY PathIs
<1>2. /\ \A k \in 0..n : f[k] = s \/ \E j \in 1..k : f[k] = renames[j].to
      /\ \A k \in 0..n : g[k] = t \/ \E j \in 1..k : g[k] = renames[j].to
    BY PathEnds
<1> HIDE DEF f, g
<1>3. 1 \in T
    <2>1. 1 \in 1..n + 1 /\ 1 - 1 = 0
        OBVIOUS
    <2>2. Same(0)
        BY <1>1
    <2> HIDE DEF Same
    <2> QED BY <2>1, <2>2
<1>4. ASSUME NEW k \in 1..n, k \in T PROVE k + 1 \in T
    <2>1. /\ k + 1 \in 1..n + 1 /\ k + 1 - 1 = k /\ k - 1 \in 0..n
          /\ \A j \in 1..k - 1 : j \in 1..n /\ j # k
        OBVIOUS
    <2>2. Same(k - 1)
        BY <1>4
    <2>3. f[k - 1] # renames[k].to /\ g[k - 1] # renames[k].to
        <3>1. \A j \in 1..k - 1 : renames[j].to # renames[k].to
            BY <2>1 DEF GivenOnce
        <3>2. s # renames[k].to /\ t # renames[k].to
            BY DEF NotGiven
        <3> QED BY <1>2, <2>1, <3>1, <3>2
    <2>4. Same(k)
        <3> SUFFICES ASSUME f[k] = g[k] PROVE s = t
            OBVIOUS
        <3>1. f[k] = (IF f[k - 1] = renames[k].from THEN renames[k].to ELSE f[k - 1])
              /\ g[k] = (IF g[k - 1] = renames[k].from THEN renames[k].to ELSE g[k - 1])
            BY <1>1
        <3>2. f[k - 1] = g[k - 1]
            BY <2>3, <3>1
        <3> QED BY <2>2, <3>2
    <2> HIDE DEF Same
    <2> QED BY <2>1, <2>4
<1>5. n + 1 \in T
    <2>1. 1..n + 1 \subseteq T
        <3> HIDE DEF T
        <3> QED BY <1>3, <1>4, Climbing
    <2>2. n + 1 \in 1..n + 1
        OBVIOUS
    <2> HIDE DEF T
    <2> QED BY <2>1, <2>2
<1>6. Same(n)
    <2>1. n + 1 - 1 = n
        OBVIOUS
    <2> HIDE DEF Same
    <2> QED BY <1>5, <2>1
<1>7. Follow(s, renames) = f[n] /\ Follow(t, renames) = g[n]
    BY FollowIsPath DEF f, g
<1>8. s = t => Follow(s, renames) = Follow(t, renames)
    OBVIOUS
<1> QED BY <1>6, <1>7, <1>8

\* Names become names.
LEMMA FollowIsName ==
    ASSUME NEW S, NEW s \in S, NEW renames, Len(renames) \in Nat,
           \A i \in 1..Len(renames) : renames[i].to \in S
    PROVE  Follow(s, renames) \in S
<1>1. Len(renames) \in 0..Len(renames)
    OBVIOUS
<1>2. Path(s, renames)[Len(renames)] \in S
    BY <1>1, PathEnds
<1> QED BY <1>2, FollowIsPath

-----------------------------------------------------------------------------
(* The settings of a center, and what they mean.                              *)

LEMMA NamesAreCounted == Cardinality(Names) \in Nat
BY StatusesAssumption, FS_CardinalityType

LEMMA ListsAre ==
    ASSUME NEW S, NEW s \in Lists(S)
    PROVE  /\ s \in Seq(S) /\ Len(s) \in Nat /\ Len(s) <= Cardinality(Names)
           /\ DOMAIN s = 1..Len(s) /\ \A i \in 1..Len(s) : s[i] \in S
<1>1. PICK n \in 0..Cardinality(Names) : s \in [1..n -> S]
    BY DEF Lists
<1>2. n \in Nat /\ n <= Cardinality(Names)
    BY <1>1, NamesAreCounted
<1>3. s \in Seq(S) /\ DOMAIN s = 1..n /\ \A i \in 1..n : s[i] \in S
    BY <1>1, <1>2
<1>4. Len(s) = n
    BY <1>2, <1>3, LenProperties
<1> QED BY <1>2, <1>3, <1>4

\* A nonempty set of numbers has a least one.
LEMMA LeastNumber ==
    ASSUME NEW n \in Nat, NEW S \in SUBSET (1..n), S # {}
    PROVE  \E i \in S : \A j \in S : i <= j
<1> DEFINE U == {n - i : i \in S}
<1>1. U \in SUBSET Nat /\ U # {} /\ \A x \in U : x <= n
    <2>1. \A i \in S : n - i \in Nat /\ n - i <= n
        <3>1. \A i \in 1..n : n - i \in Nat /\ n - i <= n
            OBVIOUS
        <3> QED BY <3>1
    <2>2. U # {}
        OBVIOUS
    <2>3. \A x \in U : \E i \in S : x = n - i
        OBVIOUS
    <2> HIDE DEF U
    <2> QED BY <2>1, <2>2, <2>3
<1>2. PICK x \in U : \A y \in U : y <= x
    <2> HIDE DEF U
    <2> QED BY <1>1, LargestNumber
<1>3. PICK i \in S : x = n - i
    OBVIOUS
<1>4. \A j \in S : n - j \in U
    OBVIOUS
<1>5. ASSUME NEW j \in S PROVE i <= j
    <2>1. n - j <= n - i
        <3> HIDE DEF U
        <3> QED BY <1>2, <1>3, <1>4
    <2>2. i \in Int /\ j \in Int
        OBVIOUS
    <2> QED BY <2>1, <2>2
<1> QED BY <1>5

LEMMA FirstIsName ==
    ASSUME NEW c \in Tahfiz, NEW wanted, NEW fallback \in Names
    PROVE  FirstOf(c, wanted, fallback) \in Names
<1> DEFINE places == {i \in DOMAIN c.statuses : c.statuses[i] \in wanted}
<1>1. c.statuses \in Lists(Names)
    BY DEF Tahfiz
<1>2. DOMAIN c.statuses = 1..Len(c.statuses) /\ Len(c.statuses) \in Nat
      /\ \A i \in 1..Len(c.statuses) : c.statuses[i] \in Names
    BY <1>1, ListsAre
<1>3. CASE places = {}
    BY <1>3 DEF FirstOf
<1>4. CASE places # {}
    <2> DEFINE n == Len(c.statuses)
               i == CHOOSE k \in places : \A j \in places : k <= j
    <2>1. places \in SUBSET (1..n) /\ n \in Nat
        BY <1>2
    <2>2. \E k \in places : \A j \in places : k <= j
        <3> HIDE DEF places, n
        <3> QED BY <1>4, <2>1, LeastNumber
    <2>3. i \in places
        <3> HIDE DEF places
        <3> QED BY <2>2
    <2>4. c.statuses[i] \in Names
        <3> HIDE DEF i
        <3> QED BY <1>2, <2>3
    <2>5. FirstOf(c, wanted, fallback) = c.statuses[i]
        BY <1>4 DEF FirstOf
    <2> HIDE DEF i
    <2> QED BY <2>4, <2>5
<1> QED BY <1>3, <1>4

\* What the settings of a center hold, and what they mean.
LEMMA SettingsAre ==
    ASSUME NEW c \in Tahfiz
    PROVE  /\ c.statuses \in Lists(Names) /\ c.statuses # <<>>
           /\ c.tracked \in Names /\ c.present \in Names /\ c.absent \in Names
           /\ c.resets \in SUBSET Names /\ c.colors \in [Names -> Colors \cup {None}]
           /\ c.limit \in Limits /\ c.alerts \in BOOLEAN
           /\ DOMAIN c = SettingsFields
BY DEF Tahfiz, SettingsFields

LEMMA StatusesAreNames ==
    ASSUME NEW c \in Tahfiz
    PROVE  /\ Known(c) \subseteq Names /\ Head(c.statuses) \in Known(c)
           /\ StreakStatus(c) \in Known(c)
           /\ PresentStatus(c) \in Names /\ AbsentStatus(c) \in Names
<1>1. c.statuses \in Lists(Names) /\ c.statuses # <<>>
    BY SettingsAre
<1>2. /\ c.statuses \in Seq(Names) /\ DOMAIN c.statuses = 1..Len(c.statuses)
      /\ Len(c.statuses) \in Nat /\ \A i \in 1..Len(c.statuses) : c.statuses[i] \in Names
    BY <1>1, ListsAre
<1>3. Known(c) \subseteq Names
    BY <1>2 DEF Known
<1>4. Head(c.statuses) \in Known(c)
    <2>1. 1 \in 1..Len(c.statuses) /\ Head(c.statuses) = c.statuses[1]
        BY <1>1, <1>2, EmptySeq
    <2> QED BY <1>2, <2>1 DEF Known
<1>5. StreakStatus(c) \in Known(c)
    BY <1>4 DEF StreakStatus
<1>6. PresentStatus(c) \in Names
    <2>1. \A wanted : FirstOf(c, wanted, Head(c.statuses)) \in Names
        BY <1>3, <1>4, FirstIsName
    <2> QED BY <1>3, <2>1 DEF PresentStatus
<1>7. AbsentStatus(c) \in Names
    <2>1. \A wanted : FirstOf(c, wanted, Head(c.statuses)) \in Names
        BY <1>3, <1>4, FirstIsName
    <2>2. \A first, wanted : FirstOf(c, first, FirstOf(c, wanted, Head(c.statuses))) \in Names
        BY <2>1, FirstIsName
    <2> QED BY <1>3, <2>2 DEF AbsentStatus
<1> QED BY <1>3, <1>4, <1>5, <1>6, <1>7

-----------------------------------------------------------------------------
(* What an update of the settings leaves.                                      *)

LEMMA ColorsAre ==
    ASSUME NEW c, NEW s, c.colors[s] \in Colors \cup {None}
    PROVE  Color(c, s) \in Colors
BY DEF Color, DefaultColor, Colors

LEMMA UpdatedIs ==
    ASSUME NEW c \in Tahfiz, NEW b \in Bodies, b.statuses # <<>>
    PROVE  LET new == Updated(c, b)
           IN  /\ new \in Tahfiz
               /\ new.statuses = Given(b.statuses, c.statuses)
               /\ new.tracked = Given(b.tracked, c.tracked)
               /\ new.present = Given(b.present, Follow(c.present, b.renames))
               /\ new.absent = Given(b.absent, Follow(c.absent, b.renames))
               /\ new.resets \subseteq Known(new) \ {StreakStatus(new)}
               /\ b.resets # None => new.resets = (b.resets \cap Known(new)) \ {StreakStatus(new)}
<1> DEFINE listed == Listed(c, b)
           named == IF b.renames = <<>> THEN listed ELSE Renamed(listed, b)
           chosen == Chosen(named, b)
           new == Reset(chosen, b)
<1>1. /\ b.statuses \in Lists(Names) \cup {None} /\ b.renames \in Lists([from : Names, to : Names])
      /\ b.tracked \in Names \cup {None} /\ b.present \in Names \cup {None}
      /\ b.absent \in Names \cup {None} /\ b.resets \in SUBSET Names \cup {None}
      /\ b.colors \in [Names -> Colors \cup {None}] \cup {None}
      /\ b.limit \in Limits \cup {None} /\ b.alerts \in BOOLEAN \cup {None}
    BY DEF Bodies
<1>2. /\ c.statuses \in Lists(Names) \ {<<>>}
      /\ c.tracked \in Names /\ c.present \in Names /\ c.absent \in Names
      /\ c.resets \in SUBSET Names /\ c.colors \in [Names -> Colors \cup {None}]
      /\ c.limit \in Limits /\ c.alerts \in BOOLEAN
    BY SettingsAre
<1>3. /\ Len(b.renames) \in Nat
      /\ \A s \in Names : Follow(s, b.renames) \in Names
      /\ \A s : b.renames = <<>> => Follow(s, b.renames) = s
    <2>1. Len(b.renames) \in Nat /\ \A i \in 1..Len(b.renames) : b.renames[i] \in [from : Names, to : Names]
        BY <1>1, ListsAre
    <2>2. \A i \in 1..Len(b.renames) : b.renames[i].to \in Names
        BY <2>1
    <2>3. ASSUME NEW s, b.renames = <<>> PROVE Follow(s, b.renames) = s
        <3>1. Len(b.renames) = 0
            BY <2>3
        <3> QED BY <3>1, PathIs, FollowIsPath
    <2> QED BY <2>1, <2>2, <2>3, FollowIsName
<1>4. /\ listed \in Tahfiz /\ listed.statuses = Given(b.statuses, c.statuses)
      /\ listed.tracked = c.tracked /\ listed.present = c.present /\ listed.absent = c.absent
    <2> DEFINE v == Given(b.statuses, c.statuses)
    <2>1. v \in Lists(Names) \ {<<>>}
        BY <1>1, <1>2 DEF Given
    <2>2. listed = [c EXCEPT !.statuses = v]
        BY DEF Listed
    <2> HIDE DEF v, listed
    <2> QED BY <2>1, <2>2 DEF Tahfiz, v
<1> HIDE DEF listed
<1>5. /\ named \in Tahfiz /\ named.statuses = listed.statuses /\ named.tracked = c.tracked
      /\ named.present = Follow(c.present, b.renames)
      /\ named.absent = Follow(c.absent, b.renames)
    <2>1. CASE b.renames = <<>>
        BY <1>3, <1>4, <2>1
    <2>2. CASE b.renames # <<>>
        <3> DEFINE p == Follow(listed.present, b.renames)
                   a == Follow(listed.absent, b.renames)
        <3>1. named = [listed EXCEPT !.present = p, !.absent = a]
            BY <2>2 DEF Renamed
        <3>2. p \in Names /\ a \in Names /\ p = Follow(c.present, b.renames)
              /\ a = Follow(c.absent, b.renames)
            BY <1>2, <1>3, <1>4
        <3> HIDE DEF p, a, named
        <3> QED BY <1>4, <3>1, <3>2 DEF Tahfiz
    <2> QED BY <2>1, <2>2
<1> HIDE DEF named
<1>6. /\ chosen \in Tahfiz /\ chosen.statuses = named.statuses
      /\ chosen.tracked = Given(b.tracked, named.tracked)
      /\ chosen.present = Given(b.present, named.present)
      /\ chosen.absent = Given(b.absent, named.absent)
    <2> DEFINE alerts == Given(b.alerts, named.alerts)
               tracked == Given(b.tracked, named.tracked)
               present == Given(b.present, named.present)
               absent == Given(b.absent, named.absent)
               limit == Given(b.limit, named.limit)
               colors == [s \in Names |-> IF s \notin Known(named) THEN None
                                          ELSE IF b.colors = None THEN Color(named, s)
                                          ELSE Given(b.colors[s], Color(named, s))]
    <2>1. /\ named.tracked \in Names /\ named.present \in Names /\ named.absent \in Names
          /\ named.colors \in [Names -> Colors \cup {None}]
          /\ named.limit \in Limits /\ named.alerts \in BOOLEAN
        BY <1>5, SettingsAre
    <2>2. alerts \in BOOLEAN /\ tracked \in Names /\ present \in Names /\ absent \in Names
          /\ limit \in Limits
        BY <1>1, <2>1 DEF Given
    <2>3. colors \in [Names -> Colors \cup {None}]
        <3>1. ASSUME NEW s \in Names
              PROVE  (IF s \notin Known(named) THEN None
                      ELSE IF b.colors = None THEN Color(named, s)
                      ELSE Given(b.colors[s], Color(named, s))) \in Colors \cup {None}
            <4>1. Color(named, s) \in Colors
                BY <2>1, ColorsAre
            <4>2. b.colors # None => b.colors[s] \in Colors \cup {None}
                BY <1>1
            <4> QED BY <4>1, <4>2 DEF Given
        <3> QED BY <3>1
    <2>4. chosen = [named EXCEPT !.alerts = alerts, !.tracked = tracked, !.present = present,
                                 !.absent = absent, !.limit = limit, !.colors = colors]
        BY DEF Chosen
    <2> HIDE DEF alerts, tracked, present, absent, limit, colors, chosen
    <2>5. chosen \in Tahfiz /\ chosen.statuses = named.statuses /\ chosen.tracked = tracked
          /\ chosen.present = present /\ chosen.absent = absent
        BY <1>5, <2>2, <2>3, <2>4 DEF Tahfiz
    <2> QED BY <2>5 DEF tracked, present, absent
<1> HIDE DEF chosen
<1>7. /\ new \in Tahfiz /\ new.statuses = chosen.statuses /\ new.tracked = chosen.tracked
      /\ new.present = chosen.present /\ new.absent = chosen.absent
      /\ new.resets = (Given(b.resets, Resetting(chosen)) \cap Known(chosen)) \ {StreakStatus(chosen)}
    <2> DEFINE v == (Given(b.resets, Resetting(chosen)) \cap Known(chosen)) \ {StreakStatus(chosen)}
    <2>1. v \in SUBSET Names
        BY <1>6, StatusesAreNames
    <2>2. new = [chosen EXCEPT !.resets = v]
        BY DEF Reset
    <2> HIDE DEF v, new
    <2> QED BY <1>6, <2>1, <2>2 DEF Tahfiz, v
<1>8. Known(new) = Known(chosen) /\ StreakStatus(new) = StreakStatus(chosen)
    <2> HIDE DEF new
    <2>1. Known(new) = Known(chosen)
        BY <1>7 DEF Known
    <2> QED BY <1>7, <2>1 DEF StreakStatus
<1>9. Updated(c, b) = new
    BY DEF Updated, listed, named, chosen
<1> HIDE DEF new
<1> QED BY <1>4, <1>5, <1>6, <1>7, <1>8, <1>9 DEF Given

-----------------------------------------------------------------------------
(* The types of the settings, the marks and the requests.                      *)

\* A new row's status.
LEMMA AutomaticIs ==
    ASSUME NEW c \in Tahfiz, NEW excuse \in Excuses PROVE Automatic(c, excuse) \in Names
<1>1. "not_applicable" \in Names
    <2>1. 4 \in DOMAIN Defaults /\ Defaults[4] = "not_applicable"
        BY DEF Defaults
    <2> QED BY <2>1, StatusesAssumption
<1> QED BY <1>1, StatusesAreNames DEF Automatic, Excuses

LEMMA StreakIsBounded ==
    ASSUME NEW c, NEW m PROVE Streak(c, m) \in 0..MaxSessions
<1> DEFINE N == {n \in Numbers : /\ m[n] = StreakStatus(c)
                                 /\ \A k \in Numbers : k > n => m[k] \notin Resetting(c)}
<1>1. IsFiniteSet(Numbers) /\ Cardinality(Numbers) = MaxSessions /\ MaxSessions \in Nat
    BY StatusesAssumption, FS_Interval DEF Numbers
<1>2. Cardinality(N) <= Cardinality(Numbers)
    BY <1>1, FS_Subset
<1>3. Streak(c, m) = Cardinality(N)
    BY DEF Streak
<1>4. Streak(c, m) \in Nat
    BY StreakIsNumber
<1> QED BY <1>1, <1>2, <1>3, <1>4

\* The row that is written takes each field from one of two rows.
LEMMA ColumnsAre ==
    ASSUME NEW read \in Tahfiz, NEW new \in Tahfiz, tahfiz \in Tahfiz
    PROVE  Columns(read, new) \in Tahfiz
<1> DEFINE v == Columns(read, new)
<1>1. /\ DOMAIN new = SettingsFields
      /\ v = [f \in SettingsFields |-> IF new[f] # read[f] THEN new[f] ELSE tahfiz[f]]
    BY SettingsAre DEF Columns
<1>2. /\ new.statuses \in Lists(Names) \ {<<>>} /\ tahfiz.statuses \in Lists(Names) \ {<<>>}
      /\ new.tracked \in Names /\ tahfiz.tracked \in Names
      /\ new.present \in Names /\ tahfiz.present \in Names
      /\ new.absent \in Names /\ tahfiz.absent \in Names
      /\ new.resets \in SUBSET Names /\ tahfiz.resets \in SUBSET Names
      /\ new.colors \in [Names -> Colors \cup {None}]
      /\ tahfiz.colors \in [Names -> Colors \cup {None}]
      /\ new.limit \in Limits /\ tahfiz.limit \in Limits
      /\ new.alerts \in BOOLEAN /\ tahfiz.alerts \in BOOLEAN
    BY SettingsAre
<1> HIDE DEF v
<1>3. \A f \in SettingsFields : v[f] = new[f] \/ v[f] = tahfiz[f]
    BY <1>1
<1>4. v = [f \in SettingsFields |-> v[f]]
    BY <1>1
<1>5. /\ v.statuses \in Lists(Names) \ {<<>>} /\ v.tracked \in Names /\ v.present \in Names
      /\ v.absent \in Names /\ v.resets \in SUBSET Names
      /\ v.colors \in [Names -> Colors \cup {None}] /\ v.limit \in Limits
      /\ v.alerts \in BOOLEAN
    BY <1>2, <1>3 DEF SettingsFields
<1>6. v = [statuses |-> v.statuses, tracked |-> v.tracked, present |-> v.present,
           absent |-> v.absent, resets |-> v.resets, colors |-> v.colors, limit |-> v.limit,
           alerts |-> v.alerts]
    BY <1>4 DEF SettingsFields
<1>7. v \in Tahfiz
    <2> DEFINE vs == v.statuses
               vt == v.tracked
               vp == v.present
               va == v.absent
               vr == v.resets
               vc == v.colors
               vl == v.limit
               vb == v.alerts
    <2>1. v = [statuses |-> vs, tracked |-> vt, present |-> vp, absent |-> va, resets |-> vr,
               colors |-> vc, limit |-> vl, alerts |-> vb]
        BY <1>6
    <2>2. /\ vs \in Lists(Names) \ {<<>>} /\ vt \in Names /\ vp \in Names /\ va \in Names
          /\ vr \in SUBSET Names /\ vc \in [Names -> Colors \cup {None}] /\ vl \in Limits
          /\ vb \in BOOLEAN
        BY <1>5
    <2> HIDE DEF vs, vt, vp, va, vr, vc, vl, vb
    <2> QED BY <2>1, <2>2 DEF Tahfiz
<1> QED BY <1>7 DEF v

\* What a request in progress holds.
Held(c) ==
    /\ c.tahfiz \in Tahfiz /\ c.streak \in 0..MaxSessions /\ c.row \in Names \cup {None}
    /\ c.request \in Requests
    /\ c.request.op = "update" => Acceptable(c.tahfiz, c.request.body)

StatusesInvariant ==
    /\ tahfiz \in Tahfiz
    /\ mark \in [Numbers -> Names \cup {None}]
    /\ noticed \in BOOLEAN
    /\ call = [q \in Calls |-> call[q]]
    /\ \A q \in Calls : call[q] # None => Held(call[q])

LEMMA RequestsAre ==
    ASSUME NEW r \in Requests
    PROVE  /\ r.op \in {"mark", "batch"} => r.session \in Numbers /\ r.status \in Names
           /\ r.op = "create" => r.session \in Numbers /\ r.excuse \in Excuses
           /\ r.op = "update" => r.body \in Bodies
BY DEF Requests

LEMMA StatusesStart == StatusesInit => StatusesInvariant
<1> SUFFICES ASSUME StatusesInit PROVE StatusesInvariant
    OBVIOUS
<1>1. /\ Defaults[1] \in Names /\ Defaults[2] \in Names /\ Defaults[3] \in Names
      /\ Defaults[4] \in Names
    BY StatusesAssumption DEF Defaults
<1>2. Defaults \in Lists(Names) \ {<<>>}
    <2>1. Cardinality({"present", "absent", "excused", "not_applicable"}) = 4
        <3> DEFINE A == {"present"}
                   B == {"present", "absent"}
                   C == {"present", "absent", "excused"}
        <3>1. IsFiniteSet({}) /\ Cardinality({}) = 0
            BY FS_EmptySet
        <3>2. A = {} \cup {"present"} /\ B = A \cup {"absent"} /\ C = B \cup {"excused"}
              /\ {"present", "absent", "excused", "not_applicable"} = C \cup {"not_applicable"}
            OBVIOUS
        <3>3. "present" \notin {} /\ "absent" \notin A /\ "excused" \notin B
              /\ "not_applicable" \notin C
            OBVIOUS
        <3> HIDE DEF A, B, C
        <3>4. IsFiniteSet(A) /\ Cardinality(A) = 1
            BY <3>1, <3>2, <3>3, FS_AddElement
        <3>5. IsFiniteSet(B) /\ Cardinality(B) = 2
            BY <3>2, <3>3, <3>4, FS_AddElement
        <3>6. IsFiniteSet(C) /\ Cardinality(C) = 3
            BY <3>2, <3>3, <3>5, FS_AddElement
        <3> QED BY <3>2, <3>3, <3>6, FS_AddElement
    <2>2. {"present", "absent", "excused", "not_applicable"} \subseteq Names
        BY <1>1 DEF Defaults
    <2>3. 4 <= Cardinality(Names)
        BY <2>1, <2>2, StatusesAssumption, FS_Subset
    <2>4. 4 \in 0..Cardinality(Names)
        BY <2>3, NamesAreCounted
    <2>5. Defaults \in [1..4 -> Names] /\ Defaults # <<>>
        BY <2>2 DEF Defaults
    <2> QED BY <2>4, <2>5 DEF Lists
<1>3. tahfiz \in Tahfiz
    <2> DEFINE colors == [s \in Names |-> None]
               s == Defaults
    <2>1. /\ tahfiz = [statuses |-> s, tracked |-> "excused", present |-> "present",
                       absent |-> "absent", resets |-> {"present"}, colors |-> colors,
                       limit |-> 1, alerts |-> TRUE]
          /\ 1 \in Limits
        BY DEF StatusesInit
    <2>2. colors \in [Names -> Colors \cup {None}]
        OBVIOUS
    <2>3. "excused" \in Names /\ "present" \in Names /\ "absent" \in Names
        BY <1>1 DEF Defaults
    <2>4. s \in Lists(Names) \ {<<>>}
        BY <1>2
    <2> HIDE DEF colors, s
    <2> QED BY <2>1, <2>2, <2>3, <2>4 DEF Tahfiz
<1> QED BY <1>3 DEF StatusesInvariant, StatusesInit

LEMMA AnsweredHeld ==
    ASSUME StatusesInvariant, NEW q \in Calls, Answered(q), tahfiz' \in Tahfiz,
           mark' \in [Numbers -> Names \cup {None}], noticed' \in BOOLEAN
    PROVE  StatusesInvariant'
<1>1. /\ \A p \in Calls : call'[p] # None => call'[p] = call[p] /\ call[p] # None
      /\ call' = [p \in Calls |-> call'[p]]
    BY DEF Answered, StatusesInvariant
<1>2. \A p \in Calls : call'[p] # None => Held(call'[p])
    BY <1>1 DEF StatusesInvariant
<1> QED BY <1>1, <1>2 DEF StatusesInvariant, Held

LEMMA MarkedHeld ==
    ASSUME StatusesInvariant, NEW q \in Calls, NEW status \in Names \cup {None}, NEW before,
           call[q] # None, call[q].request.session \in Numbers, Marked(q, status, before)
    PROVE  /\ tahfiz' \in Tahfiz /\ mark' \in [Numbers -> Names \cup {None}]
           /\ noticed' \in BOOLEAN
<1>1. Passed(tahfiz, mark') \in BOOLEAN /\ Alerts(call[q].tahfiz, before, mark') \in BOOLEAN
    BY DEF Passed, Alerts
<1>2. /\ noticed' = (Passed(tahfiz, mark') /\ (noticed \/ Alerts(call[q].tahfiz, before, mark')))
      /\ tahfiz' = tahfiz
      /\ mark' = [mark EXCEPT ![call[q].request.session] = status]
    BY DEF Marked
<1>3. noticed' \in BOOLEAN
    BY <1>1, <1>2
<1> QED BY <1>2, <1>3 DEF StatusesInvariant

LEMMA MarkHeld ==
    ASSUME StatusesInvariant, NEW q \in Calls, Mark(q) \/ Batch(q)
    PROVE  StatusesInvariant'
<1> DEFINE r == call[q].request
           written == tahfiz' \in Tahfiz /\ mark' \in [Numbers -> Names \cup {None}]
                      /\ noticed' \in BOOLEAN
<1>1. call[q] # None /\ Answered(q) /\ r.session \in Numbers /\ r.status \in Names
    BY RequestsAre DEF Mark, Batch, StatusesInvariant, Held
<1>2. mark[r.session] \in Names \cup {None}
    BY <1>1 DEF StatusesInvariant
<1>3. \A status \in Names \cup {None} : \A before : Marked(q, status, before) => written
    BY <1>1, MarkedHeld
<1>4. UNCHANGED <<tahfiz, mark, noticed>> => written
    BY DEF StatusesInvariant
<1>5. written
    <2> HIDE DEF written
    <2>1. CASE Mark(q)
        BY <1>1, <1>2, <1>3, <1>4, <2>1 DEF Mark
    <2>2. CASE Batch(q)
        BY <1>1, <1>2, <1>3, <1>4, <2>2 DEF Batch
    <2> QED BY <2>1, <2>2
<1> QED BY <1>1, <1>5, AnsweredHeld

LEMMA CreateHeld ==
    ASSUME StatusesInvariant, NEW q \in Calls, CreateSession(q) PROVE StatusesInvariant'
<1> DEFINE r == call[q].request
           status == Automatic(call[q].tahfiz, r.excuse)
<1>1. call[q] # None /\ Answered(q) /\ r.session \in Numbers /\ r.excuse \in Excuses
      /\ call[q].tahfiz \in Tahfiz /\ tahfiz' = tahfiz
    BY RequestsAre DEF CreateSession, StatusesInvariant, Held
<1>2. status \in Names
    BY <1>1, AutomaticIs
<1>3. \/ UNCHANGED <<mark, noticed>>
      \/ mark' = [mark EXCEPT ![r.session] = status]
         /\ noticed' = Passed(tahfiz, mark')
    <2>1. CASE mark[r.session] = None
        BY <2>1 DEF CreateSession
    <2>2. CASE mark[r.session] # None
        BY <2>2 DEF CreateSession
    <2> QED BY <2>1, <2>2
<1> HIDE DEF status
<1>4. mark' \in [Numbers -> Names \cup {None}] /\ noticed' \in BOOLEAN
    <2>1. Passed(tahfiz, mark') \in BOOLEAN
        BY DEF Passed
    <2>2. noticed' = noticed \/ noticed' = Passed(tahfiz, mark')
        BY <1>3
    <2>3. noticed' \in BOOLEAN
        BY <2>1, <2>2 DEF StatusesInvariant
    <2> QED BY <1>1, <1>2, <1>3, <2>3 DEF StatusesInvariant
<1> QED BY <1>1, <1>4, AnsweredHeld DEF StatusesInvariant

LEMMA UpdateHeld ==
    ASSUME StatusesInvariant, NEW q \in Calls, Update(q) PROVE StatusesInvariant'
<1> DEFINE b == call[q].request.body
           read == call[q].tahfiz
           new == Updated(read, b)
<1>1. /\ call[q] # None /\ Answered(q) /\ b \in Bodies /\ read \in Tahfiz
      /\ b.statuses # <<>>
      /\ tahfiz' = Columns(read, new)
      /\ mark' = [n \in Numbers |-> Follow(mark[n], b.renames)]
      /\ noticed' = Passed(tahfiz', mark')
    BY RequestsAre DEF Update, StatusesInvariant, Held, Acceptable
<1>2. new \in Tahfiz
    BY <1>1, UpdatedIs
<1> HIDE DEF new
<1>3. tahfiz' \in Tahfiz
    BY <1>1, <1>2, ColumnsAre DEF StatusesInvariant
<1>4. mark' \in [Numbers -> Names \cup {None}]
    <2>1. b.renames \in Lists([from : Names, to : Names])
        BY <1>1 DEF Bodies
    <2>2. Len(b.renames) \in Nat
          /\ \A i \in 1..Len(b.renames) : b.renames[i] \in [from : Names, to : Names]
        BY <2>1, ListsAre
    <2>3. \A i \in 1..Len(b.renames) : b.renames[i].to \in Names \cup {None}
        BY <2>2
    <2>4. \A n \in Numbers : Follow(mark[n], b.renames) \in Names \cup {None}
        <3>1. \A n \in Numbers : mark[n] \in Names \cup {None}
            BY DEF StatusesInvariant
        <3> QED BY <2>2, <2>3, <3>1, FollowIsName
    <2> QED BY <1>1, <2>4
<1>5. noticed' \in BOOLEAN
    <2>1. Passed(tahfiz', mark') \in BOOLEAN
        BY DEF Passed
    <2> QED BY <1>1, <2>1 DEF StatusesInvariant
<1> QED BY <1>1, <1>3, <1>4, <1>5, AnsweredHeld

LEMMA AskHeld ==
    ASSUME StatusesInvariant, NEW q \in Calls, NEW r \in Requests, Ask(q, r)
    PROVE  StatusesInvariant'
<1> DEFINE row == IF r.op = "update" THEN None ELSE mark[r.session]
           streak == Streak(tahfiz, mark)
           c == [request |-> r, tahfiz |-> tahfiz, streak |-> streak, row |-> row]
<1>1. /\ call' = [call EXCEPT ![q] = c] /\ UNCHANGED <<tahfiz, mark, noticed>>
      /\ Admitted(r)
    BY DEF Ask
<1>2. row \in Names \cup {None}
    <2>1. r.op # "update" => r.session \in Numbers
        BY DEF Requests
    <2> QED BY <2>1 DEF StatusesInvariant
<1>3. streak \in 0..MaxSessions
    BY StreakIsBounded
<1>4. r.op = "update" => Acceptable(tahfiz, r.body)
    BY <1>1 DEF Admitted
<1> HIDE DEF row, streak
<1>5. c.tahfiz = tahfiz /\ c.streak = streak /\ c.row = row /\ c.request = r
    OBVIOUS
<1> HIDE DEF c
<1>6. Held(c)
    BY <1>2, <1>3, <1>4, <1>5 DEF Held, StatusesInvariant
<1>7. /\ call' = [p \in Calls |-> call'[p]]
      /\ \A p \in Calls : call'[p] = IF p = q THEN c ELSE call[p]
    BY <1>1 DEF StatusesInvariant
<1> QED BY <1>1, <1>6, <1>7 DEF StatusesInvariant, Held

LEMMA StatusesStep ==
    ASSUME StatusesInvariant, [StatusesNext]_statusVars PROVE StatusesInvariant'
<1>1. ASSUME NEW q \in Calls, NEW r \in Requests, Ask(q, r) PROVE StatusesInvariant'
    BY <1>1, AskHeld
<1>2. ASSUME NEW q \in Calls, Mark(q) \/ Batch(q) \/ CreateSession(q) \/ Update(q)
      PROVE  StatusesInvariant'
    BY <1>2, MarkHeld, CreateHeld, UpdateHeld
<1>3. CASE UNCHANGED statusVars
    BY <1>3 DEF statusVars, StatusesInvariant, Held
<1> QED BY <1>1, <1>2, <1>3 DEF StatusesNext

\* Settings, marks and what requests have read keep their types: an update leaves a list
\* that is not empty, with statuses among the names, even if it writes over another's
\* fields.
THEOREM StatusesCorrectlyTyped == StatusesSpec => []StatusesTypeOK
<1>1. StatusesInvariant => StatusesTypeOK
    BY DEF StatusesInvariant, Held, StatusesTypeOK
<1> QED BY <1>1, StatusesStart, StatusesStep, PTL DEF StatusesSpec

-----------------------------------------------------------------------------
(* Renames keep what the marks mean.                                           *)

\* A list of which every name is followed.
LEMMA ListFollowed ==
    ASSUME NEW c \in Tahfiz, NEW b \in Bodies,
           b.statuses = [i \in DOMAIN c.statuses |-> Follow(c.statuses[i], b.renames)]
    PROVE  b.statuses # None /\ b.statuses # <<>>
<1>1. /\ c.statuses \in Seq(Names) /\ DOMAIN c.statuses = 1..Len(c.statuses)
      /\ Len(c.statuses) \in Nat /\ Len(c.statuses) <= Cardinality(Names)
      /\ \A i \in 1..Len(c.statuses) : c.statuses[i] \in Names
    BY SettingsAre, ListsAre
<1>2. Len(b.renames) \in Nat /\ \A i \in 1..Len(b.renames) : b.renames[i].to \in Names
    <2>1. b.renames \in Lists([from : Names, to : Names])
        BY DEF Bodies
    <2>2. Len(b.renames) \in Nat
          /\ \A i \in 1..Len(b.renames) : b.renames[i] \in [from : Names, to : Names]
        BY <2>1, ListsAre
    <2> QED BY <2>2
<1>3. \A i \in 1..Len(c.statuses) : Follow(c.statuses[i], b.renames) \in Names
    BY <1>1, <1>2, FollowIsName
<1>4. b.statuses \in [1..Len(c.statuses) -> Names]
    BY <1>1, <1>3
<1>5. Len(c.statuses) \in 0..Cardinality(Names)
    BY <1>1, NamesAreCounted
<1>6. b.statuses \in Lists(Names)
    BY <1>4, <1>5 DEF Lists
<1>7. c.statuses # <<>>
    BY SettingsAre
<1>8. 1 \in DOMAIN b.statuses
    BY <1>1, <1>4, <1>7, EmptySeq
<1> QED BY <1>6, <1>8, StatusesAssumption

\* The settings after renames, and what they mean.
LEMMA RenamedSettings ==
    ASSUME NEW c \in Tahfiz, NEW b \in Bodies, NEW m, OnlyRenames(c, m, b)
    PROVE  LET new == Updated(c, b)
               renamed(s) == Follow(s, b.renames)
           IN  /\ StreakStatus(new) = renamed(StreakStatus(c))
               /\ Resetting(new) = {renamed(s) : s \in Resetting(c)}
               /\ PresentStatus(new) = renamed(PresentStatus(c))
               /\ AbsentStatus(new) = renamed(AbsentStatus(c))
               /\ PresentStatus(c) \in Known(c) /\ AbsentStatus(c) \in Known(c)
               /\ Resetting(c) \subseteq Known(c) /\ Len(b.renames) \in Nat
               /\ GivenOnce(b.renames) /\ \A s \in Known(c) : NotGiven(s, b.renames)
               /\ \A n \in Numbers : NotGiven(m[n], b.renames)
<1> DEFINE new == Updated(c, b)
           renamed(s) == Follow(s, b.renames)
<1>1. /\ b.statuses = [i \in DOMAIN c.statuses |-> renamed(c.statuses[i])]
      /\ b.tracked = renamed(StreakStatus(c))
      /\ b.resets = {renamed(s) : s \in Resetting(c)}
      /\ b.present = None /\ b.absent = None
      /\ {c.present, c.absent} \cup c.resets \subseteq Known(c)
    BY DEF OnlyRenames
<1>2. /\ b.renames \in Lists([from : Names, to : Names])
    BY DEF Bodies
<1>3. /\ Len(b.renames) \in Nat /\ DOMAIN b.renames = 1..Len(b.renames)
      /\ \A i \in 1..Len(b.renames) : b.renames[i] \in [from : Names, to : Names]
    BY <1>2, ListsAre
<1>4. \A i \in 1..Len(b.renames) : b.renames[i].to \in Names
    BY <1>3
<1>5. /\ GivenOnce(b.renames) /\ \A s \in Known(c) : NotGiven(s, b.renames)
      /\ \A n \in Numbers : NotGiven(m[n], b.renames)
    BY <1>3 DEF OnlyRenames, GivenOnce, NotGiven
<1>6. \A s \in Names : renamed(s) \in Names
    BY <1>3, <1>4, FollowIsName
<1>7. \A s, t \in Known(c) : renamed(s) = renamed(t) <=> s = t
    BY <1>3, <1>5, RenamesKeepApart
<1> HIDE DEF renamed
<1>8. /\ Known(c) \subseteq Names /\ StreakStatus(c) \in Known(c)
    BY StatusesAreNames
<1>9. /\ b.statuses # None /\ b.statuses # <<>>
    BY <1>1, ListFollowed DEF renamed
<1>10. b.tracked # None
    BY <1>1, <1>6, <1>8, StatusesAssumption
<1>11. b.resets # None
    <2>1. Resetting(c) \subseteq Known(c)
        BY <1>1 DEF Resetting
    <2>2. b.resets \in SUBSET Names
        BY <1>1, <1>6, <1>8, <2>1
    <2> QED BY <2>2, StatusesAssumption
<1>12. /\ new.statuses = b.statuses /\ new.tracked = renamed(StreakStatus(c))
       /\ new.present = renamed(c.present) /\ new.absent = renamed(c.absent)
       /\ new.resets = (b.resets \cap Known(new)) \ {StreakStatus(new)}
    BY <1>1, <1>9, <1>10, <1>11, UpdatedIs DEF Given, renamed
<1> HIDE DEF new
<1>13. Known(new) = {renamed(s) : s \in Known(c)}
    <2>1. DOMAIN new.statuses = DOMAIN c.statuses
          /\ \A i \in DOMAIN c.statuses : new.statuses[i] = renamed(c.statuses[i])
        BY <1>1, <1>12
    <2> QED BY <2>1 DEF Known
<1>14. StreakStatus(new) = renamed(StreakStatus(c))
    <2>1. new.tracked \in Known(new)
        BY <1>8, <1>12, <1>13
    <2> QED BY <1>12, <2>1 DEF StreakStatus
<1>15. Resetting(c) \subseteq Known(c)
    BY <1>1 DEF Resetting
<1>16. Resetting(new) = {renamed(s) : s \in Resetting(c)}
    <2>1. b.resets \subseteq Known(new)
        BY <1>1, <1>13, <1>15
    <2>2. StreakStatus(new) \notin b.resets
        <3>1. ASSUME NEW s \in Resetting(c) PROVE renamed(s) # renamed(StreakStatus(c))
            <4>1. s # StreakStatus(c) /\ s \in Known(c)
                BY <1>15 DEF Resetting
            <4> QED BY <1>7, <1>8, <4>1
        <3> QED BY <1>1, <1>14, <3>1
    <2>3. Resetting(new) = b.resets
        BY <1>12, <2>1, <2>2 DEF Resetting
    <2> QED BY <1>1, <2>3
<1>17. PresentStatus(c) = c.present /\ AbsentStatus(c) = c.absent
    BY <1>1 DEF PresentStatus, AbsentStatus
<1>18. PresentStatus(new) = new.present /\ AbsentStatus(new) = new.absent
    <2>1. new.present \in Known(new) /\ new.absent \in Known(new)
        BY <1>1, <1>12, <1>13
    <2> QED BY <2>1 DEF PresentStatus, AbsentStatus
<1> QED BY <1>1, <1>3, <1>5, <1>12, <1>14, <1>15, <1>16, <1>17, <1>18 DEF new, renamed

LEMMA AllColumns ==
    ASSUME tahfiz \in Tahfiz, NEW new \in Tahfiz PROVE Columns(tahfiz, new) = new
<1>1. DOMAIN new = SettingsFields
    BY SettingsAre
<1>2. new = [f \in SettingsFields |-> new[f]]
    BY <1>1 DEF Tahfiz
<1>3. Columns(tahfiz, new) = [f \in SettingsFields |-> new[f]]
    BY <1>1 DEF Columns
<1> QED BY <1>2, <1>3

LEMMA UpdateKeepsMeaning ==
    ASSUME StatusesInvariant, NEW q \in Calls, Update(q), call[q].tahfiz = tahfiz,
           OnlyRenames(tahfiz, mark, call[q].request.body)
    PROVE  /\ Streak(tahfiz', mark') = Streak(tahfiz, mark)
           /\ \A n \in Numbers :
                 /\ mark'[n] = PresentStatus(tahfiz') <=> mark[n] = PresentStatus(tahfiz)
                 /\ mark'[n] = AbsentStatus(tahfiz') <=> mark[n] = AbsentStatus(tahfiz)
<1> DEFINE b == call[q].request.body
           new == Updated(tahfiz, b)
           renamed(s) == Follow(s, b.renames)
<1>1. /\ call[q] # None /\ b \in Bodies /\ tahfiz \in Tahfiz /\ b.statuses # <<>>
      /\ tahfiz' = Columns(tahfiz, new)
      /\ mark' = [n \in Numbers |-> renamed(mark[n])]
    BY RequestsAre DEF Update, StatusesInvariant, Held, Acceptable
<1>2. new \in Tahfiz
    BY <1>1, UpdatedIs
<1>3. tahfiz' = new
    BY <1>1, <1>2, AllColumns
<1>4. /\ StreakStatus(new) = renamed(StreakStatus(tahfiz))
      /\ Resetting(new) = {renamed(s) : s \in Resetting(tahfiz)}
      /\ PresentStatus(new) = renamed(PresentStatus(tahfiz))
      /\ AbsentStatus(new) = renamed(AbsentStatus(tahfiz))
      /\ PresentStatus(tahfiz) \in Known(tahfiz) /\ AbsentStatus(tahfiz) \in Known(tahfiz)
      /\ Resetting(tahfiz) \subseteq Known(tahfiz) /\ Len(b.renames) \in Nat
      /\ GivenOnce(b.renames) /\ \A s \in Known(tahfiz) : NotGiven(s, b.renames)
      /\ \A n \in Numbers : NotGiven(mark[n], b.renames)
    BY <1>1, RenamedSettings
<1> HIDE DEF new
<1>5. \A n \in Numbers : \A s \in Known(tahfiz) : renamed(mark[n]) = renamed(s) <=> mark[n] = s
    BY <1>4, RenamesKeepApart
<1>6. \A n \in Numbers : mark'[n] = renamed(mark[n])
    BY <1>1
<1> HIDE DEF renamed
<1>7. \A n \in Numbers : /\ mark'[n] = PresentStatus(new) <=> mark[n] = PresentStatus(tahfiz)
                         /\ mark'[n] = AbsentStatus(new) <=> mark[n] = AbsentStatus(tahfiz)
    BY <1>4, <1>5, <1>6
<1>8. \A n \in Numbers : /\ mark'[n] = StreakStatus(new) <=> mark[n] = StreakStatus(tahfiz)
                         /\ mark'[n] \in Resetting(new) <=> mark[n] \in Resetting(tahfiz)
    <2>1. StreakStatus(tahfiz) \in Known(tahfiz)
        BY <1>1, StatusesAreNames
    <2>2. \A n \in Numbers : mark'[n] = StreakStatus(new) <=> mark[n] = StreakStatus(tahfiz)
        BY <1>4, <1>5, <1>6, <2>1
    <2>3. \A n \in Numbers : mark'[n] \in Resetting(new) <=> mark[n] \in Resetting(tahfiz)
        BY <1>4, <1>5, <1>6
    <2> QED BY <2>2, <2>3
<1>9. Streak(new, mark') = Streak(tahfiz, mark)
    <2>1. {n \in Numbers : /\ mark'[n] = StreakStatus(new)
                           /\ \A k \in Numbers : k > n => mark'[k] \notin Resetting(new)}
          = {n \in Numbers : /\ mark[n] = StreakStatus(tahfiz)
                             /\ \A k \in Numbers : k > n => mark[k] \notin Resetting(tahfiz)}
        BY <1>8
    <2> QED BY <2>1 DEF Streak
<1> QED BY <1>3, <1>7, <1>9

\* A renaming changes what no mark means nor any streak, also of marks that other requests
\* are about to write: however many statuses get new names, in whatever order.
THEOREM RenamesKeepMeaning == StatusesSpec => RenamesFollow
<1>1. StatusesInvariant /\ [StatusesNext]_statusVars => [MarksKeepMeaning]_statusVars
    BY UpdateKeepsMeaning DEF MarksKeepMeaning
<1> QED BY <1>1, StatusesStart, StatusesStep, PTL DEF StatusesSpec, RenamesFollow

\* As long as the settings are left alone while other requests are in progress, the statuses
\* that end a streak are among the center's, and the one that is counted is never one of
\* them: removed names leave the list of resets with the statuses (management.py).
ResetsStand == tahfiz.resets \subseteq Known(tahfiz) \ {StreakStatus(tahfiz)}
THEOREM ResetsAreConfigured == StatusesSpec /\ []SettingsStill => []ResetsStand
<1>1. StatusesInit => ResetsStand
    <2> SUFFICES ASSUME StatusesInit PROVE ResetsStand
        OBVIOUS
    <2>1. tahfiz.statuses = Defaults /\ tahfiz.tracked = "excused"
          /\ tahfiz.resets = {"present"}
        BY DEF StatusesInit
    <2>2. "present" \in Known(tahfiz) /\ "excused" \in Known(tahfiz)
        <3>1. 1 \in DOMAIN Defaults /\ Defaults[1] = "present"
              /\ 3 \in DOMAIN Defaults /\ Defaults[3] = "excused"
            BY DEF Defaults
        <3> QED BY <2>1, <3>1 DEF Known
    <2>3. StreakStatus(tahfiz) = "excused"
        BY <2>1, <2>2 DEF StreakStatus
    <2> QED BY <2>1, <2>2, <2>3 DEF ResetsStand
<1>2. StatusesInvariant /\ SettingsStill /\ ResetsStand /\ [StatusesNext]_statusVars
      => ResetsStand'
    <2> SUFFICES ASSUME StatusesInvariant, SettingsStill, ResetsStand,
                        [StatusesNext]_statusVars
                 PROVE  ResetsStand'
        OBVIOUS
    <2>1. ASSUME NEW q \in Calls, Update(q) PROVE ResetsStand'
        <3> DEFINE b == call[q].request.body
                   new == Updated(tahfiz, b)
        <3>1. /\ b \in Bodies /\ tahfiz \in Tahfiz /\ b.statuses # <<>>
              /\ tahfiz' = Columns(tahfiz, new)
            BY <2>1, RequestsAre
            DEF Update, StatusesInvariant, SettingsStill, Held, Acceptable
        <3>2. new \in Tahfiz /\ new.resets \subseteq Known(new) \ {StreakStatus(new)}
            BY <3>1, UpdatedIs
        <3> HIDE DEF new
        <3>3. tahfiz' = new
            BY <3>1, <3>2, AllColumns
        <3> QED BY <3>2, <3>3 DEF ResetsStand
    <2>2. CASE UNCHANGED tahfiz
        BY <2>2 DEF ResetsStand, Known, StreakStatus
    <2>3. ASSUME NEW q \in Calls,
                 (\E r \in Requests : Ask(q, r)) \/ Mark(q) \/ Batch(q) \/ CreateSession(q)
          PROVE  UNCHANGED tahfiz
        BY <2>3 DEF Ask, Mark, Marked, Batch, CreateSession
    <2> QED BY <2>1, <2>2, <2>3 DEF StatusesNext, statusVars
<1> QED BY <1>1, <1>2, StatusesStart, StatusesStep, PTL DEF StatusesSpec

-----------------------------------------------------------------------------
(***************************************************************************)
(* CustomFields: every value fits its field.                               *)
(***************************************************************************)

(* Lemmas about saved values.                                                *)

\* What is kept of an accepted value fits the field it was accepted for.
LEMMA TakenValuesFit ==
    ASSUME NEW f, NEW raw, Takes(f, raw), Normal(f, raw) # None
    PROVE  Fits(f, Normal(f, raw))
BY DEF Takes, Normal

\* What is kept of a value is a value in its kept form, or nothing.
LEMMA NormalType ==
    ASSUME NEW f, NEW raw \in Raw
    PROVE  Normal(f, raw) \in Typed \cup {None}
BY DEF Normal, Raw

\* The values that a student has after an update are well typed.
LEMMA AppliedType ==
    ASSUME FieldsTypeOK, NEW s \in Members, NEW raws \in Raws
    PROVE  Applied(s, raws) \in [Fields -> Typed \cup {None}]
<1>1. ASSUME NEW f \in DOMAIN raws PROVE raws[f] \in Raw
    BY <1>1 DEF Raws
<1>2. ASSUME NEW f \in Fields, f \in DOMAIN raws
      PROVE  Normal(field[f], raws[f]) \in Typed \cup {None}
    BY <1>1, <1>2, NormalType
<1>3. ASSUME NEW f \in Fields PROVE value[s][f] \in Typed \cup {None}
    BY <1>3 DEF FieldsTypeOK
<1> QED BY <1>2, <1>3 DEF Applied

\* The answers of a submission, with what the manager fills in, can be saved.
LEMMA MergedType ==
    ASSUME FieldsTypeOK, NEW a \in Submissions, answered[a] # None, NEW raws \in Raws
    PROVE  Merged(a, raws) \in Raws
<1>1. answered[a].answers \in Answers
    BY DEF FieldsTypeOK, Submission
<1>2. ASSUME NEW f \in DOMAIN answered[a].answers
      PROVE  answered[a].answers[f] \in Typed \cup {None}
    BY <1>1, <1>2 DEF Answers
<1>3. /\ DOMAIN raws \subseteq Fields
      /\ \A f \in DOMAIN raws : raws[f] \in Raw
    BY DEF Raws
<1>4. DEFINE fs == (DOMAIN answered[a].answers \cap Active) \cup DOMAIN raws
<1>5. fs \in SUBSET Fields
    BY <1>3 DEF Active, There
<1>6. Merged(a, raws) \in [fs -> Raw]
    BY <1>2, <1>3 DEF Merged, Raw
<1> QED BY <1>5, <1>6 DEF Raws

-----------------------------------------------------------------------------
(* Types.                                                                    *)

LEMMA InitTypes == FieldsInit => FieldsTypeOK
BY DEF FieldsInit, FieldsTypeOK

\* What the saving of a student's values and categories changes stays typed.
LEMMA SetValuesTypes ==
    ASSUME FieldsTypeOK, NEW s \in Members, NEW raws \in Raws, SetValues(s, raws)
    PROVE  /\ value' \in [Members -> [Fields -> Typed \cup {None}]]
           /\ complete' \subseteq Members
<1>1. Applied(s, raws) \in [Fields -> Typed \cup {None}]
    BY AppliedType
<1> QED BY <1>1 DEF SetValues, FieldsTypeOK

LEMMA SetCategoriesTypes ==
    ASSUME FieldsTypeOK, NEW s \in Members, NEW cs, SetCategories(s, cs)
    PROVE  belongs' \in [Members -> SUBSET Categories]
BY DEF SetCategories, NamedCategories, FieldsTypeOK

LEMMA StepTypes == FieldsTypeOK /\ [FieldsNext]_fieldVars => FieldsTypeOK'
<1> SUFFICES ASSUME FieldsTypeOK, [FieldsNext]_fieldVars PROVE FieldsTypeOK'
    OBVIOUS
<1>1. ASSUME NEW f \in Fields, NEW body \in Field, CreateField(f, body) \/ UpdateField(f, body)
      PROVE  FieldsTypeOK'
    <2>1. field' = [field EXCEPT ![f] = body] /\ complete' = {}
        BY <1>1 DEF CreateField, UpdateField
    <2>2. UNCHANGED <<member, value, category, belongs, form, answered>>
        BY <1>1 DEF CreateField, UpdateField
    <2> QED BY <2>1, <2>2 DEF FieldsTypeOK
<1>2. ASSUME NEW s \in Members, NEW raws \in Raws, UpdateValues(s, raws) PROVE FieldsTypeOK'
    BY <1>2, SetValuesTypes DEF UpdateValues, FieldsTypeOK
<1>3. ASSUME NEW c \in Categories, NEW n \in CategoryNames,
             CreateCategory(c, n) \/ RenameCategory(c, n)
      PROVE  FieldsTypeOK'
    BY <1>3 DEF CreateCategory, RenameCategory, FieldsTypeOK
<1>4. ASSUME NEW c \in Categories, DeleteCategory(c) PROVE FieldsTypeOK'
    BY <1>4 DEF DeleteCategory, FieldsTypeOK
<1>5. ASSUME NEW s \in Members, NEW cs \in SUBSET Categories, NEW raws \in Raws,
             CreateMember(s, cs, raws)
      PROVE  FieldsTypeOK'
    BY <1>5, SetValuesTypes, SetCategoriesTypes DEF CreateMember, FieldsTypeOK
<1>6. ASSUME NEW s \in Members, NEW cs \in SUBSET Categories \cup {None},
             NEW raws \in Raws \cup {None}, UpdateMember(s, cs, raws)
      PROVE  FieldsTypeOK'
    <2>1. belongs' \in [Members -> SUBSET Categories]
        BY <1>6, SetCategoriesTypes DEF UpdateMember, FieldsTypeOK
    <2>2. /\ value' \in [Members -> [Fields -> Typed \cup {None}]]
          /\ complete' \subseteq Members
        BY <1>6, SetValuesTypes DEF UpdateMember, FieldsTypeOK
    <2> QED BY <1>6, <2>1, <2>2 DEF UpdateMember, FieldsTypeOK
<1>7. ASSUME NEW s \in Members, DeleteMember(s) PROVE FieldsTypeOK'
    BY <1>7 DEF DeleteMember, FieldsTypeOK
<1>8. ASSUME NEW fs \in SUBSET Fields, NEW open \in BOOLEAN, SaveForm(fs, open)
      PROVE  FieldsTypeOK'
    BY <1>8 DEF SaveForm, FieldsTypeOK, Form
<1>9. ASSUME NEW a \in Submissions, NEW raws \in Raws, Submitting(a, raws)
      PROVE  FieldsTypeOK'
    <2> DEFINE Sent(f) == IF f \in DOMAIN raws THEN raws[f] ELSE ""
               given == [f \in Public |-> Normal(field[f], Sent(f))]
    <2>1. \A f \in Public : Sent(f) \in Raw
        BY DEF Raws, Raw
    <2>2. given \in [Public -> Typed \cup {None}]
        BY <2>1, NormalType
    <2>3. Public \in SUBSET Fields
        BY DEF Public, Active, There
    <2>4. given \in Answers
        BY <2>2, <2>3 DEF Answers
    <2>5. answered' = [answered EXCEPT ![a] = [status |-> "pending", answers |-> given]]
        BY <1>9 DEF Submitting
    <2>6. answered' \in [Submissions -> Submission \cup {None}]
        BY <2>4, <2>5 DEF FieldsTypeOK, Submission
    <2> QED BY <1>9, <2>6 DEF Submitting, FieldsTypeOK
<1>10. ASSUME NEW a \in Submissions, NEW status \in {"approved", "rejected"}, Decide(a, status)
       PROVE  answered' \in [Submissions -> Submission \cup {None}]
    BY <1>10 DEF Decide, FieldsTypeOK, Submission
<1>11. ASSUME NEW a \in Submissions, RejectSubmission(a) PROVE FieldsTypeOK'
    BY <1>10, <1>11 DEF RejectSubmission, FieldsTypeOK
<1>12. ASSUME NEW a \in Submissions, NEW s \in Members, NEW cs \in SUBSET Categories,
              NEW raws \in Raws, ApproveSubmission(a, s, cs, raws)
       PROVE  FieldsTypeOK'
    <2>1. Merged(a, raws) \in Raws
        BY <1>12, MergedType DEF ApproveSubmission, Decide
    <2>2. /\ value' \in [Members -> [Fields -> Typed \cup {None}]]
          /\ complete' \subseteq Members
        BY <1>12, <2>1, SetValuesTypes DEF ApproveSubmission
    <2>3. belongs' \in [Members -> SUBSET Categories]
        BY <1>12, SetCategoriesTypes DEF ApproveSubmission
    <2> QED BY <1>10, <1>12, <2>2, <2>3 DEF ApproveSubmission, FieldsTypeOK
<1>13. CASE UNCHANGED fieldVars
    BY <1>13 DEF fieldVars, FieldsTypeOK
<1> QED
    BY <1>1, <1>2, <1>3, <1>4, <1>5, <1>6, <1>7, <1>8, <1>9, <1>11, <1>12, <1>13 DEF FieldsNext

\* Every state is well typed, for any number of fields, students and submissions.
THEOREM FieldsTyped == FieldsSpec => []FieldsTypeOK
<1>1. FieldsInit => FieldsTypeOK
    BY InitTypes
<1>2. FieldsTypeOK /\ [FieldsNext]_fieldVars => FieldsTypeOK'
    BY StepTypes
<1> QED BY <1>1, <1>2, PTL DEF FieldsSpec

-----------------------------------------------------------------------------
(* Values in order.                                                          *)

LEMMA InitInOrder == FieldsInit => ValuesInOrder
BY DEF FieldsInit, ValuesInOrder

\* Values that are accepted are in order, and the values of others stay so.
LEMMA SetValuesInOrder ==
    ASSUME FieldsTypeOK, ValuesInOrder, NEW s \in Members, NEW raws \in Raws,
           SetValues(s, raws), UNCHANGED field,
           member \subseteq member', s \in member'
    PROVE  ValuesInOrder'
<1>1. There' = There /\ Active' = Active
    BY DEF There, Active
<1>2. value' = [value EXCEPT ![s] = Applied(s, raws)]
    BY DEF SetValues
<1>3. Applied(s, raws) \in [Fields -> Typed \cup {None}]
    BY AppliedType
<1>4. ASSUME NEW f \in Fields, Applied(s, raws)[f] # None
      PROVE  f \in There /\ Fits(field[f], Applied(s, raws)[f])
    <2>1. CASE f \in DOMAIN raws
        <3>1. f \in Active /\ Takes(field[f], raws[f])
            BY <2>1 DEF SetValues, Satisfies
        <3>2. Applied(s, raws)[f] = Normal(field[f], raws[f])
            BY <2>1 DEF Applied
        <3> QED BY <1>4, <3>1, <3>2, TakenValuesFit DEF Active
    <2>2. CASE f \notin DOMAIN raws
        <3>1. Applied(s, raws)[f] = value[s][f]
            BY <2>2 DEF Applied
        <3> QED BY <1>4, <3>1 DEF ValuesInOrder
    <2> QED BY <2>1, <2>2
<1>5. ASSUME NEW t \in Members, NEW f \in Fields, value'[t][f] # None
      PROVE  t \in member' /\ f \in There' /\ Fits(field'[f], value'[t][f])
    <2>1. CASE t = s
        BY <1>1, <1>2, <1>3, <1>4, <1>5, <2>1 DEF FieldsTypeOK
    <2>2. CASE t # s
        <3>1. value'[t] = value[t]
            BY <1>2, <2>2 DEF FieldsTypeOK
        <3> QED BY <1>1, <1>5, <3>1 DEF ValuesInOrder
    <2> QED BY <2>1, <2>2
<1>6. ASSUME NEW t \in complete', NEW f \in Active', field'[f].required, t \in Members
      PROVE  value'[t][f] # None
    <2>1. CASE t = s
        <3>1. Applied(s, raws)[f] # None
            BY <1>1, <1>6 DEF SetValues, Satisfies
        <3> QED BY <1>2, <2>1, <3>1 DEF FieldsTypeOK
    <2>2. CASE t # s
        <3>1. value'[t] = value[t] /\ t \in complete
            BY <1>2, <1>6, <2>2 DEF FieldsTypeOK, SetValues
        <3> QED BY <1>1, <1>6, <3>1 DEF ValuesInOrder
    <2> QED BY <2>1, <2>2
<1> QED BY <1>5, <1>6 DEF ValuesInOrder

LEMMA StepInOrder ==
    FieldsTypeOK /\ ValuesInOrder /\ [FieldsNext]_fieldVars => ValuesInOrder'
<1> SUFFICES ASSUME FieldsTypeOK, ValuesInOrder, [FieldsNext]_fieldVars PROVE ValuesInOrder'
    OBVIOUS
<1>1. ASSUME UNCHANGED <<member, field, value, complete>> PROVE ValuesInOrder'
    <2>1. There' = There /\ Active' = Active
        BY <1>1 DEF There, Active
    <2> QED BY <1>1, <2>1 DEF ValuesInOrder
<1>2. ASSUME NEW f \in Fields, NEW body \in Field, CreateField(f, body) PROVE ValuesInOrder'
    <2>1. \A s \in Members : value[s][f] = None
        BY <1>2 DEF CreateField, ValuesInOrder, There
    <2>2. \A g \in Fields \ {f} : field'[g] = field[g]
        BY <1>2 DEF CreateField, FieldsTypeOK
    <2>3. \A g \in Fields \ {f} : g \in There => g \in There'
        BY <2>2 DEF There
    <2>4. value' = value /\ member' = member /\ complete' = {}
        BY <1>2 DEF CreateField
    <2> QED BY <2>1, <2>2, <2>3, <2>4 DEF ValuesInOrder
<1>3. ASSUME NEW f \in Fields, NEW body \in Field, UpdateField(f, body) PROVE ValuesInOrder'
    <2>1. \A g \in Fields \ {f} : field'[g] = field[g]
        BY <1>3 DEF UpdateField, FieldsTypeOK
    <2>2. field'[f] = body /\ body # None
        BY <1>3, FieldsAssumption DEF UpdateField, FieldsTypeOK
    <2>3. There \subseteq There'
        BY <2>1, <2>2 DEF There
    <2>4. ASSUME NEW s \in Members, value[s][f] # None
          PROVE  Fits(body, value[s][f])
        <3>1. value[s][f] \in KeptValues(f)
            BY <2>4 DEF KeptValues
        <3>2. body.type = field[f].type
            BY <1>3, <3>1 DEF UpdateField, TypeStays
        <3>3. body.type = "select" => value[s][f] \in body.options
            BY <1>3, <3>1 DEF UpdateField, TypeStays, OptionsStay
        <3>4. Fits(field[f], value[s][f])
            BY <2>4 DEF ValuesInOrder
        <3> QED BY <3>2, <3>3, <3>4 DEF Fits
    <2>5. value' = value /\ member' = member /\ complete' = {}
        BY <1>3 DEF UpdateField
    <2> QED BY <2>1, <2>2, <2>3, <2>4, <2>5 DEF ValuesInOrder
<1>4. ASSUME NEW s \in Members, NEW raws \in Raws, UpdateValues(s, raws) PROVE ValuesInOrder'
    BY <1>4, SetValuesInOrder DEF UpdateValues
<1>5. ASSUME NEW c \in Categories, NEW n \in CategoryNames,
             CreateCategory(c, n) \/ RenameCategory(c, n)
      PROVE  ValuesInOrder'
    BY <1>1, <1>5 DEF CreateCategory, RenameCategory
<1>6. ASSUME NEW c \in Categories, DeleteCategory(c) PROVE ValuesInOrder'
    BY <1>1, <1>6 DEF DeleteCategory
<1>7. ASSUME NEW s \in Members, NEW cs \in SUBSET Categories, NEW raws \in Raws,
             CreateMember(s, cs, raws)
      PROVE  ValuesInOrder'
    BY <1>7, SetValuesInOrder DEF CreateMember
<1>8. ASSUME NEW s \in Members, NEW cs \in SUBSET Categories \cup {None},
             NEW raws \in Raws \cup {None}, UpdateMember(s, cs, raws)
      PROVE  ValuesInOrder'
    <2>1. CASE raws = None
        BY <1>1, <1>8, <2>1 DEF UpdateMember
    <2>2. CASE raws # None
        BY <1>8, <2>2, SetValuesInOrder DEF UpdateMember
    <2> QED BY <2>1, <2>2
<1>9. ASSUME NEW s \in Members, DeleteMember(s) PROVE ValuesInOrder'
    <2>1. There' = There /\ Active' = Active /\ field' = field
        BY <1>9 DEF DeleteMember, There, Active
    <2>2. \A f \in Fields : value'[s][f] = None
        BY <1>9 DEF DeleteMember, FieldsTypeOK
    <2>3. \A t \in Members \ {s} : value'[t] = value[t]
        BY <1>9 DEF DeleteMember, FieldsTypeOK
    <2>4. member' = member \ {s} /\ complete' = complete \ {s}
        BY <1>9 DEF DeleteMember
    <2> QED BY <2>1, <2>2, <2>3, <2>4 DEF ValuesInOrder
<1>10. ASSUME NEW fs \in SUBSET Fields, NEW open \in BOOLEAN, SaveForm(fs, open)
       PROVE  ValuesInOrder'
    BY <1>1, <1>10 DEF SaveForm
<1>11. ASSUME NEW a \in Submissions, NEW raws \in Raws, Submitting(a, raws)
       PROVE  ValuesInOrder'
    BY <1>1, <1>11 DEF Submitting
<1>12. ASSUME NEW a \in Submissions, RejectSubmission(a) PROVE ValuesInOrder'
    BY <1>1, <1>12 DEF RejectSubmission
<1>13. ASSUME NEW a \in Submissions, NEW s \in Members, NEW cs \in SUBSET Categories,
              NEW raws \in Raws, ApproveSubmission(a, s, cs, raws)
       PROVE  ValuesInOrder'
    <2>1. Merged(a, raws) \in Raws
        BY <1>13, MergedType DEF ApproveSubmission, Decide
    <2> QED BY <1>13, <2>1, SetValuesInOrder DEF ApproveSubmission
<1>14. CASE UNCHANGED fieldVars
    BY <1>1, <1>14 DEF fieldVars
<1> QED
    BY <1>2, <1>3, <1>4, <1>5, <1>6, <1>7, <1>8, <1>9, <1>10, <1>11, <1>12, <1>13, <1>14
    DEF FieldsNext

\* Whatever requests come, one after the other, values fit their fields' types and
\* options, and whoever was saved since the fields changed has all that is required.
THEOREM ValuesStayInOrder == FieldsSpec => []ValuesInOrder
<1>1. FieldsInit => FieldsTypeOK /\ ValuesInOrder
    BY InitTypes, InitInOrder
<1>2. FieldsTypeOK /\ ValuesInOrder /\ [FieldsNext]_fieldVars => (FieldsTypeOK /\ ValuesInOrder)'
    BY StepTypes, StepInOrder
<1> QED BY <1>1, <1>2, PTL DEF FieldsSpec
===============================================================================
