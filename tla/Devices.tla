------------------------------- MODULE Devices -------------------------------
(***************************************************************************)
(* routers/auth.py: signing in, the sessions of devices, and the counters of   *)
(* failed attempts. A request reads and then writes in one transaction. A      *)
(* sign-in that fails reads the counter once more before it writes it.         *)
(*                                                                         *)
(* Passwords are right or wrong; an access token is left out but for the       *)
(* version of the account it carries. Sign-ins from a browser have no device. *)
(* The attempts of an address and of an account go the same way: one counter   *)
(* per account stands for both.                                               *)
(***************************************************************************)
EXTENDS Rows, Integers, FiniteSets

CONSTANTS People, Phones,
          Calls,           \* slots for requests in progress at the same time
          AttemptLimit,    \* LOGIN_RATE_LIMIT_ATTEMPTS
          MaxAttempts,     \* bounds what overlapping sign-ins count up to
          MaxDevices,      \* bounds device_sessions
          MaxAuthVersion   \* bounds sign-outs and changed passwords

ASSUME DevicesAssumption == /\ AttemptLimit \in Nat \ {0} /\ MaxDevices \in Nat
                            /\ MaxAttempts \in Nat /\ AttemptLimit <= MaxAttempts
                            /\ MaxAuthVersion \in Nat \ {0} /\ None \notin Nat

VARIABLES
    device,       \* device_sessions by id: rows, or None
    authVersion,  \* users.auth_version
    enabled,      \* users.is_active
    attempts,     \* auth_rate_limits: None where there is no row, 0 where it has expired
    call          \* slot -> a request and what it has read, or None

deviceVars == <<device, authVersion, enabled, attempts, call>>
DeviceIds == 1..MaxDevices
DeviceRow == [person : People, phone : Phones, live : BOOLEAN, expired : BOOLEAN,
              version : 1..MaxAuthVersion]
ASSUME DeviceRowsAreThere == None \notin DeviceRow

DevicesTypeOK ==
    /\ device \in [DeviceIds -> DeviceRow \cup {None}]
    /\ authVersion \in [People -> 1..MaxAuthVersion]
    /\ enabled \in [People -> BOOLEAN]
    /\ attempts \in [People -> 0..MaxAttempts \cup {None}]
    /\ \A c \in Calls : call[c] # None => call[c].person \in People

DevicesInit ==
    /\ device = [d \in DeviceIds |-> None]
    /\ authVersion = [p \in People |-> 1]
    /\ enabled = [p \in People |-> TRUE]
    /\ attempts = [p \in People |-> None]
    /\ call = [c \in Calls |-> None]

IsLive(d) == device[d] # None /\ device[d].live
FreeIds == {d \in DeviceIds : device[d] = None}
NextId == CHOOSE d \in FreeIds : \A e \in FreeIds : d <= e
\* "version" is history: the account's version when the session was issued.
Issued(p, phone) == [person |-> p, phone |-> phone, live |-> TRUE, expired |-> FALSE,
                     version |-> authVersion[p]]

Begin(c, op, p, phone, d) ==
    /\ call[c] = None
    /\ call' = [call EXCEPT ![c] = [op |-> op, person |-> p, phone |-> phone, device |-> d,
                                    version |-> authVersion[p]]]
    /\ UNCHANGED <<device, authVersion, enabled, attempts>>
Answered(c) == call' = [call EXCEPT ![c] = None]

-----------------------------------------------------------------------------
(* login.                                                                    *)

\* check_rate_limit.
BelowLimit(n) == n # None => n < AttemptLimit
LogIn(c, p, phone, right) ==
    /\ BelowLimit(attempts[p])
    /\ Begin(c, IF right /\ enabled[p] THEN "login" ELSE "wrong", p, phone, None)

\* record_rate_limit reads the counter again, and goes by the time it has then.
CountAttempt(c) ==
    LET p == call[c].person
    IN /\ call[c] # None /\ call[c].op = "wrong"
       /\ attempts[p] # None => attempts[p] < MaxAttempts
       /\ call' = [call EXCEPT ![c] = [op |-> "counting", person |-> p,
                                       version |-> call[c].version, known |-> attempts[p],
                                       expired |-> {q \in People : attempts[q] = 0}]]
       /\ UNCHANGED <<device, authVersion, enabled, attempts>>

\* ... and writes one more than it has read: a new row, or the one there is. A row inserted
\* since then is in the way, and one that is gone cannot be updated: the request fails. A row
\* that has expired is counted in from one again; if it has expired since, it stays so.
CannotCount(r) == (r.known = None) # (attempts[r.person] = None)
Recorded(r) ==
    CASE r.known = None \/ r.known = 0 -> 1
      [] r.known # None /\ r.known # 0 -> IF attempts[r.person] = 0 THEN 0 ELSE r.known + 1
RecordAttempt(c) ==
    LET r == call[c]
    IN /\ r # None /\ r.op = "counting"
       /\ attempts' = IF CannotCount(r) THEN attempts
                      ELSE [q \in People |->
                               IF q = r.person THEN Recorded(r)
                               ELSE IF q \in r.expired /\ attempts[q] = 0 THEN None
                               ELSE attempts[q]]
       /\ Answered(c)
       /\ UNCHANGED <<device, authVersion, enabled>>

\* A fresh login for the same installation replaces older refresh sessions.
Replaced(p, phone) ==
    [d \in DeviceIds |->
        IF IsLive(d) /\ device[d].person = p /\ device[d].phone = phone
        THEN [device[d] EXCEPT !.live = FALSE] ELSE device[d]]
NoneReplaced(p, phone) == device
Replacing(p, phone) == Replaced(p, phone)

FinishLogIn(c) ==
    LET p == call[c].person
        phone == call[c].phone
    IN /\ call[c] # None /\ call[c].op = "login"
       /\ FreeIds # {}
       /\ attempts' = [attempts EXCEPT ![p] = None]
       /\ device' = [Replacing(p, phone) EXCEPT ![NextId] = Issued(p, phone)]
       /\ Answered(c)
       /\ UNCHANGED <<authVersion, enabled>>

-----------------------------------------------------------------------------
(* refresh_access_token, revoke_device, logout, and a password that is changed *)
(* by an administrator (management.py).                                       *)

Refresh(c, d) ==
    /\ IsLive(d) /\ ~device[d].expired
    /\ enabled[device[d].person]
    /\ Begin(c, "refresh", device[d].person, device[d].phone, d)
FinishRefresh(c) ==
    LET r == call[c]
    IN /\ r # None /\ r.op = "refresh"
       /\ FreeIds # {}
       /\ device' = [device EXCEPT ![r.device].live = FALSE,
                                   ![NextId] = Issued(r.person, r.phone)]
       /\ Answered(c)
       /\ UNCHANGED <<authVersion, enabled, attempts>>

Revoke(c, d) ==
    /\ IsLive(d)
    /\ Begin(c, "revoke", device[d].person, device[d].phone, d)
FinishRevoke(c) ==
    /\ call[c] # None /\ call[c].op = "revoke"
    /\ device' = [device EXCEPT ![call[c].device].live = FALSE]
    /\ Answered(c)
    /\ UNCHANGED <<authVersion, enabled, attempts>>

AllRevoked(p) ==
    [d \in DeviceIds |-> IF device[d] # None /\ device[d].person = p
                         THEN [device[d] EXCEPT !.live = FALSE] ELSE device[d]]
LogOut(c, p) == enabled[p] /\ Begin(c, "logout", p, CHOOSE x \in Phones : TRUE, None)
FinishLogOut(c) ==
    /\ call[c] # None /\ call[c].op = "logout"
    /\ call[c].version < MaxAuthVersion
    /\ authVersion' = [authVersion EXCEPT ![call[c].person] = call[c].version + 1]
    /\ device' = AllRevoked(call[c].person)
    /\ Answered(c)
    /\ UNCHANGED <<enabled, attempts>>

\* Attempts and refresh tokens run out; accounts are switched off and on.
AttemptsExpire(p) ==
    /\ attempts[p] # None /\ attempts[p] > 0
    /\ attempts' = [attempts EXCEPT ![p] = 0]
    /\ UNCHANGED <<device, authVersion, enabled, call>>
TokenExpires(d) ==
    /\ IsLive(d) /\ ~device[d].expired
    /\ device' = [device EXCEPT ![d].expired = TRUE]
    /\ UNCHANGED <<authVersion, enabled, attempts, call>>
Enable(p, on) ==
    /\ enabled[p] # on
    /\ enabled' = [enabled EXCEPT ![p] = on]
    /\ UNCHANGED <<device, authVersion, attempts, call>>

FinishCall(c) ==
    \/ CountAttempt(c) \/ RecordAttempt(c) \/ FinishLogIn(c) \/ FinishRefresh(c)
    \/ FinishRevoke(c) \/ FinishLogOut(c)

DevicesNext ==
    \/ \E c \in Calls, p \in People, phone \in Phones, right \in BOOLEAN :
          LogIn(c, p, phone, right)
    \/ \E c \in Calls, d \in DeviceIds : Refresh(c, d) \/ Revoke(c, d)
    \/ \E c \in Calls, p \in People : LogOut(c, p)
    \/ \E c \in Calls : FinishCall(c)
    \/ \E p \in People : AttemptsExpire(p) \/ \E on \in BOOLEAN : Enable(p, on)
    \/ \E d \in DeviceIds : TokenExpires(d)

DevicesSpec == DevicesInit /\ [][DevicesNext]_deviceVars

-----------------------------------------------------------------------------
(* Properties of requests that come one at a time: a refresh that overlaps      *)
(* another request on the same session adds a session beside the other's, and   *)
(* failed sign-ins that all passed the check go over the limit.                 *)

\* A person has at most one live session on a device, whether it was reinstalled,
\* refreshed or revoked before; signing out has ended all the earlier ones; and
\* failed attempts stop at the limit.
DeviceSessionsCurrent ==
    /\ \A d, e \in DeviceIds :
          /\ IsLive(d) => device[d].version = authVersion[device[d].person]
          /\ (IsLive(d) /\ IsLive(e) /\ device[d].person = device[e].person
              /\ device[d].phone = device[e].phone) => d = e
    /\ \A p \in People : attempts[p] # None => attempts[p] <= AttemptLimit
=============================================================================
