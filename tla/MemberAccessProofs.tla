------------------------- MODULE MemberAccessProofs -------------------------
(***************************************************************************)
(* MemberAccess, for any accounts, invitations, sessions, devices and      *)
(* requests at once: there is always an administrator who can log in, a    *)
(* disabled member has no working device, an invitation is spent once, and *)
(* nothing that was revoked comes back.                                    *)
(*                                                                         *)
(* None of the four is inductive, for each rests on what a request in the  *)
(* middle of its work knows.  Fits says of a request that its locks keep   *)
(* what it has read true: the count of the administrators never falls      *)
(* behind the holder's back, an invitation that is being accepted is still *)
(* open, the owner of a device that is being paired is still active.       *)
(***************************************************************************)
EXTENDS MemberAccess, FiniteSetTheorems, TLAPS

SomeAccount == \E u \in UserIds : users[u].status # "none"

\* What the request r may rely on.
Fits(r) ==
  /\ r.step = "verified" => r.actor \in UserIds
  /\ r.step \in {"authorised", "locked", "checked"} =>
       /\ r.op \in MemberOps => r.subject \in UserIds
       /\ r.op \in {"rotate", "revoke_device"} => r.subject \in DeviceIds
       /\ r.op = "revoke_invitation" => r.subject \in Invitations
  /\ r.step = "locked" => r.admins <= Cardinality(ActiveAdmins)
  /\ r.step = "accepting" =>
       /\ r.subject \in Invitations /\ invitations[r.subject].created
       /\ invitations[r.subject].acceptedBy = NoOne /\ ~invitations[r.subject].revoked
  /\ r.step = "pairing" =>
       /\ r.subject \in Codes /\ codes[r.subject].created /\ codes[r.subject].device = NoOne
       /\ r.actor \in UserIds /\ codes[r.subject].creator = r.actor
       /\ users[r.actor].status = "active"

\* No two requests accept one invitation, or pair with one code.
Alone ==
  \A p, q \in Requests :
    p # q /\ requests[p].step \in {"accepting", "pairing"} /\ requests[q].step = requests[p].step
      => requests[q].subject # requests[p].subject

Rows ==
  /\ \A s \in SessionIds : sessions[s].state # "none" => sessions[s].user \in UserIds
  /\ \A k \in Codes : codes[k].created => codes[k].creator \in UserIds
  /\ \A k \in Codes : codes[k].device # NoOne => codes[k].created
  /\ \A d \in DeviceIds : devices[d].status # "none" => devices[d].owner \in UserIds
  /\ \A i \in Invitations : invitations[i].acceptedBy # NoOne => invitations[i].created
  /\ \A i \in Invitations : invitations[i].created => SomeAccount

IInv ==
  /\ AccessTypeOK
  /\ \A q \in Requests : Fits(requests[q])
  /\ Alone
  /\ Rows
  /\ AlwaysAnAdmin
  /\ DisabledMembersHaveNoDevice
  /\ InvitationsAreSpentOnce

-----------------------------------------------------------------------------
(* The administrators, and what a request relies on.                       *)

LEMMA AdminsAreFinite ==
  /\ IsFiniteSet(ActiveAdmins) /\ Cardinality(ActiveAdmins) \in Nat
  /\ IsFiniteSet(ActiveAdmins)' /\ Cardinality(ActiveAdmins)' \in Nat
<1>1. ActiveAdmins \subseteq UserIds /\ ActiveAdmins' \subseteq UserIds
  BY DEF ActiveAdmins
<1> QED BY <1>1, AccessAssumption, FS_Subset, FS_CardinalityType

LEMMA MoreAdmins ==
  ASSUME ActiveAdmins \subseteq ActiveAdmins'
  PROVE  Cardinality(ActiveAdmins) <= Cardinality(ActiveAdmins)'
BY AdminsAreFinite, FS_Subset

\* One administrator less leaves one, when there were two.
LEMMA OneAdminLess ==
  ASSUME NEW u, ActiveAdmins \ {u} \subseteq ActiveAdmins', Cardinality(ActiveAdmins) > 1
  PROVE  ActiveAdmins' # {}
<1>1. CASE u \notin ActiveAdmins
  <2>1. ActiveAdmins # {}
    BY FS_EmptySet
  <2> QED BY <1>1, <2>1
<1>2. CASE u \in ActiveAdmins
  <2>1. Cardinality(ActiveAdmins \ {u}) = Cardinality(ActiveAdmins) - 1
    BY <1>2, AdminsAreFinite, FS_RemoveElement
  <2>2. ActiveAdmins \ {u} # {}
    BY <2>1, AdminsAreFinite, FS_EmptySet
  <2> QED BY <2>2
<1> QED BY <1>1, <1>2

LEMMA IdleFits == Fits(Idle) /\ Fits(Idle)'
BY DEF Fits, Idle

\* A request goes on, or begins, and touches no row.
LEMMA RequestStep ==
  ASSUME IInv, NEW q \in Requests, NEW r \in Request \cup {Idle}, Fits(r),
         requests' = [requests EXCEPT ![q] = r],
         UNCHANGED <<users, invitations, sessions, codes, devices>>,
         memberLock' \in Requests \cup {NoOne},
         \A p \in Requests : memberLock' = p <=> requests'[p].step = "locked",
         r.step \in {"accepting", "pairing"} =>
           \A p \in Requests : p # q /\ requests[p].step = r.step
                                 => requests[p].subject # r.subject
  PROVE  IInv'
<1>1. requests \in [Requests -> Request \cup {Idle}]
  BY DEF IInv, AccessTypeOK
<1>2. \A p \in Requests : requests'[p] = IF p = q THEN r ELSE requests[p]
  BY <1>1
<1>3. AccessTypeOK'
  BY <1>1 DEF IInv, AccessTypeOK
<1>4. ActiveAdmins' = ActiveAdmins /\ (SomeAccount' <=> SomeAccount)
  BY DEF ActiveAdmins, SomeAccount
<1>5. \A p \in Requests : Fits(requests[p])'
  <2>1. \A p \in Requests : Fits(requests'[p])
    BY <1>2 DEF IInv
  <2> QED BY <2>1, <1>4 DEF Fits
<1>6. Alone'
  BY <1>2 DEF IInv, Alone
<1>7. Rows'
  BY <1>4 DEF IInv, Rows
<1>8. AlwaysAnAdmin' /\ DisabledMembersHaveNoDevice' /\ InvitationsAreSpentOnce'
  BY <1>4 DEF IInv, AlwaysAnAdmin, DisabledMembersHaveNoDevice, InvitationsAreSpentOnce
<1> QED BY <1>3, <1>5, <1>6, <1>7, <1>8 DEF IInv

\* A request ends.
LEMMA Ended ==
  ASSUME IInv, NEW q \in Requests, End(q), Unlock(q)
  PROVE  /\ requests' \in [Requests -> Request \cup {Idle}]
         /\ memberLock' \in Requests \cup {NoOne}
         /\ \A p \in Requests : memberLock' = p <=> requests'[p].step = "locked"
         /\ Alone'
         /\ \A p \in Requests : requests'[p] = IF p = q THEN Idle ELSE requests[p]
<1>1. requests \in [Requests -> Request \cup {Idle}] /\ memberLock \in Requests \cup {NoOne}
  BY DEF IInv, AccessTypeOK
<1>2. \A p \in Requests : requests'[p] = IF p = q THEN Idle ELSE requests[p]
  BY <1>1 DEF End
<1>3. requests' \in [Requests -> Request \cup {Idle}]
  BY <1>1 DEF End
<1>4. Idle.step = "idle"
  BY DEF Idle
<1>5. Alone'
  BY <1>2, <1>4 DEF IInv, Alone
<1>6. \A p \in Requests : memberLock = p <=> requests[p].step = "locked"
  BY DEF IInv, AccessTypeOK
<1>7. NoOne \notin Requests
  BY AccessAssumption
<1> QED BY <1>1, <1>2, <1>3, <1>4, <1>5, <1>6, <1>7 DEF Unlock

-----------------------------------------------------------------------------
(* Requests that touch no row.                                             *)

LEMMA ReadCredentialsKeeps ==
  ASSUME IInv, NEW q \in Requests, NEW u \in UserIds, ReadCredentials(q, u)
  PROVE  IInv'
<1> DEFINE r == [step |-> "verified", op |-> "login", actor |-> u, role |-> users[u].role,
                 admins |-> 0, subject |-> NoOne]
<1>1. users[u].role \in Roles
  BY DEF IInv, AccessTypeOK, UserRow
<1>2. r \in Request /\ Fits(r)
  BY <1>1 DEF Request, Subjects, Fits
<1>3. /\ requests' = [requests EXCEPT ![q] = r] /\ requests[q].step # "locked"
      /\ UNCHANGED <<users, invitations, sessions, codes, devices, memberLock>>
  BY DEF ReadCredentials, Idle
<1>4. r.step = "verified"
  OBVIOUS
<1> HIDE DEF r
<1>5. \A p \in Requests : memberLock' = p <=> requests'[p].step = "locked"
  BY <1>3, <1>4 DEF IInv, AccessTypeOK
<1> QED BY <1>2, <1>3, <1>4, <1>5, RequestStep DEF IInv, AccessTypeOK

\* The role that a request keeps, and what it is about.
LEMMA AuthorizeKeeps ==
  ASSUME IInv, NEW q \in Requests, NEW s \in SessionIds, NEW permission,
         NEW op \in {"revoke_invitation", "disable", "enable", "role", "rotate", "revoke_device"},
         NEW role \in Roles, NEW subject,
         op \in MemberOps => subject \in UserIds,
         op \in {"rotate", "revoke_device"} => subject \in DeviceIds,
         op = "revoke_invitation" => subject \in Invitations,
         Authorize(q, s, permission, op, role, subject)
  PROVE  IInv'
<1> DEFINE r == [step |-> "authorised", op |-> op, actor |-> sessions[s].user, role |-> role,
                 admins |-> 0, subject |-> subject]
<1>1. sessions[s].user \in UserIds
  BY DEF IInv, Rows, Authorize, Authorized, authenticateSession
<1>2. subject \in Subjects
  BY DEF Subjects, MemberOps
<1>3. r \in Request /\ Fits(r)
  BY <1>1, <1>2 DEF Request, Fits
<1>4. /\ requests' = [requests EXCEPT ![q] = r] /\ requests[q].step # "locked"
      /\ UNCHANGED <<users, invitations, sessions, codes, devices, memberLock>>
  BY DEF Authorize, Idle
<1>5. r.step = "authorised"
  OBVIOUS
<1> HIDE DEF r
<1>6. \A p \in Requests : memberLock' = p <=> requests'[p].step = "locked"
  BY <1>4, <1>5 DEF IInv, AccessTypeOK
<1> QED BY <1>3, <1>4, <1>5, <1>6, RequestStep DEF IInv, AccessTypeOK

LEMMA RouteKeeps ==
  ASSUME IInv, NEW q \in Requests, NEW s \in SessionIds, Route(q, s)
  PROVE  IInv'
<1>1. CASE RoutesOfInvitations(q, s)
  BY <1>1, AuthorizeKeeps DEF RoutesOfInvitations, Roles, MemberOps
<1>2. CASE RoutesOfDevices(q, s)
  <2>1. PICK d \in DeviceIds, op \in {"rotate", "revoke_device"} :
          Authorize(q, s, "device:manage", op, users[sessions[s].user].role, d)
    BY <1>2 DEF RoutesOfDevices
  <2>2. users[sessions[s].user].role \in Roles
    BY <2>1 DEF Authorize, Authorized, authenticateSession, IInv, Rows, AccessTypeOK, UserRow
  <2> QED BY <2>1, <2>2, AuthorizeKeeps DEF MemberOps
<1>3. CASE RoutesOfMembers(q, s)
  BY <1>3, AuthorizeKeeps, AccessAssumption DEF RoutesOfMembers, Roles, MemberOps
<1> QED BY <1>1, <1>2, <1>3 DEF Route

\* The invitation is open, and nobody else is accepting it.
LEMMA StartAcceptanceKeeps ==
  ASSUME IInv, NEW q \in Requests, NEW i \in Invitations, StartAcceptance(q, i)
  PROVE  IInv'
<1> DEFINE r == [step |-> "accepting", op |-> "accept", actor |-> NoOne,
                 role |-> invitations[i].role, admins |-> 0, subject |-> i]
<1>1. invitations[i].role \in Roles
  BY DEF IInv, AccessTypeOK, InvitationRow
<1>2. r \in Request
  BY <1>1 DEF Request, Subjects
<1>3. Fits(r)
  BY DEF Fits, StartAcceptance, Acceptable
<1>4. /\ requests' = [requests EXCEPT ![q] = r] /\ requests[q].step # "locked"
      /\ UNCHANGED <<users, invitations, sessions, codes, devices, memberLock>>
  BY DEF StartAcceptance, Idle
<1>5. r.step = "accepting" /\ r.subject = i
  OBVIOUS
<1>6. \A p \in Requests : requests[p].step = "accepting" => requests[p].subject # i
  BY DEF StartAcceptance, InvitationLocked
<1> HIDE DEF r
<1>7. \A p \in Requests : memberLock' = p <=> requests'[p].step = "locked"
  BY <1>4, <1>5 DEF IInv, AccessTypeOK
<1> QED BY <1>2, <1>3, <1>4, <1>5, <1>6, <1>7, RequestStep DEF IInv, AccessTypeOK

\* The code is unused, its owner is active, and nobody else is pairing with it.
LEMMA StartPairingKeeps ==
  ASSUME IInv, NEW q \in Requests, NEW k \in Codes, StartPairing(q, k)
  PROVE  IInv'
<1> DEFINE u == codes[k].creator
           r == [step |-> "pairing", op |-> "pair", actor |-> u, role |-> users[u].role,
                 admins |-> 0, subject |-> k]
<1>1. u \in UserIds
  BY DEF StartPairing, IInv, Rows
<1>2. users[u].role \in Roles
  BY <1>1 DEF IInv, AccessTypeOK, UserRow
<1>3. r \in Request
  BY <1>1, <1>2 DEF Request, Subjects
<1>4. Fits(r)
  BY <1>1 DEF Fits, StartPairing
<1>5. /\ requests' = [requests EXCEPT ![q] = r] /\ requests[q].step # "locked"
      /\ UNCHANGED <<users, invitations, sessions, codes, devices, memberLock>>
  BY DEF StartPairing, Idle
<1>6. r.step = "pairing" /\ r.subject = k
  OBVIOUS
<1>7. \A p \in Requests : requests[p].step = "pairing" => requests[p].subject # k
  BY DEF StartPairing, CodeLocked
<1> HIDE DEF r
<1>8. \A p \in Requests : memberLock' = p <=> requests'[p].step = "locked"
  BY <1>5, <1>6 DEF IInv, AccessTypeOK
<1> QED BY <1>3, <1>4, <1>5, <1>6, <1>7, <1>8, RequestStep DEF IInv, AccessTypeOK

LEMMA CheckDeviceKeeps ==
  ASSUME IInv, NEW q \in Requests, CheckDevice(q)
  PROVE  IInv'
<1> DEFINE r == [requests[q] EXCEPT !.step = "checked"]
<1>1. requests[q] \in Request
  BY DEF CheckDevice, IInv, AccessTypeOK, Idle
<1>2. r \in Request /\ r.step = "checked" /\ r.op = requests[q].op
      /\ r.subject = requests[q].subject
  BY <1>1 DEF Request
<1>3. Fits(r)
  BY <1>2 DEF Fits, CheckDevice, IInv
<1>4. /\ requests' = [requests EXCEPT ![q] = r] /\ requests[q].step # "locked"
      /\ UNCHANGED <<users, invitations, sessions, codes, devices, memberLock>>
  BY DEF CheckDevice, Reaches
<1> HIDE DEF r
<1>5. \A p \in Requests : memberLock' = p <=> requests'[p].step = "locked"
  BY <1>2, <1>4 DEF IInv, AccessTypeOK
<1> QED BY <1>2, <1>3, <1>4, <1>5, RequestStep DEF IInv, AccessTypeOK

\* The count of the administrators, under the lock.
LEMMA lockWorkspaceMembersKeeps ==
  ASSUME IInv, NEW q \in Requests, lockWorkspaceMembers(q)
  PROVE  IInv'
<1> DEFINE n == Cardinality(ActiveAdmins)
           r == [requests[q] EXCEPT !.step = "locked", !.admins = n]
<1>1. requests[q] \in Request /\ n \in Nat
  BY AdminsAreFinite DEF lockWorkspaceMembers, IInv, AccessTypeOK, Idle
<1>2. /\ r \in Request /\ r.step = "locked" /\ r.op = requests[q].op
      /\ r.subject = requests[q].subject /\ r.admins = n
  <2> HIDE DEF n
  <2> QED BY <1>1 DEF Request
<1>3. Fits(r)
  <2>1. requests[q].step = "authorised" /\ Fits(requests[q])
    BY DEF lockWorkspaceMembers, IInv
  <2>2. r.admins <= n
    BY <1>1, <1>2
  <2> QED BY <1>2, <2>1, <2>2 DEF Fits
<1>4. /\ requests' = [requests EXCEPT ![q] = r] /\ memberLock' = q /\ memberLock = NoOne
      /\ UNCHANGED <<users, invitations, sessions, codes, devices>>
  BY DEF lockWorkspaceMembers
<1> HIDE DEF r
<1>5. \A p \in Requests : memberLock' = p <=> requests'[p].step = "locked"
  BY <1>2, <1>4, AccessAssumption DEF IInv, AccessTypeOK
<1> QED BY <1>2, <1>3, <1>4, <1>5, RequestStep DEF IInv, AccessTypeOK

\* Whatever a request has locked, its end releases.
LEMMA EndKeeps ==
  ASSUME IInv, NEW q \in Requests, End(q), Unlock(q),
         UNCHANGED <<users, invitations, sessions, codes, devices>>
  PROVE  IInv'
<1>1. requests' = [requests EXCEPT ![q] = Idle] /\ Idle.step = "idle"
  BY DEF End, Idle
<1> QED BY <1>1, Ended, IdleFits, RequestStep

LEMMA RefuseKeeps ==
  ASSUME IInv, NEW q \in Requests, Refuse(q)
  PROVE  IInv'
BY EndKeeps DEF Refuse

LEMMA UnlockedEnd ==
  ASSUME IInv, NEW q \in Requests, requests[q].step # "locked", UNCHANGED memberLock
  PROVE  Unlock(q)
BY DEF IInv, AccessTypeOK, Unlock

LEMMA rotateDeviceTokenKeeps ==
  ASSUME IInv, NEW q \in Requests, rotateDeviceToken(q)
  PROVE  IInv'
BY UnlockedEnd, EndKeeps DEF rotateDeviceToken

-----------------------------------------------------------------------------
(* Requests that change rows: those still at work keep what they rely on.  *)

LEMMA OthersFit ==
  ASSUME IInv, \A p \in Requests : requests'[p] \in {requests[p], Idle},
         \A p \in Requests : requests'[p] = requests[p] =>
           /\ requests[p].step = "locked" => ActiveAdmins \subseteq ActiveAdmins'
           /\ requests[p].step = "accepting" =>
                invitations'[requests[p].subject] = invitations[requests[p].subject]
           /\ requests[p].step = "pairing" =>
                /\ codes'[requests[p].subject] = codes[requests[p].subject]
                /\ users'[requests[p].actor].status = "active"
  PROVE  \A p \in Requests : Fits(requests[p])'
<1> SUFFICES ASSUME NEW p \in Requests PROVE Fits(requests[p])'
  OBVIOUS
<1>1. requests[p] \in Request \cup {Idle} /\ Fits(requests[p])
  BY DEF IInv, AccessTypeOK
<1>2. CASE requests'[p] = Idle
  BY <1>2, IdleFits DEF Fits, Idle
<1>3. CASE requests'[p] = requests[p] /\ requests[p] \in Request
  <2> DEFINE r == requests[p]
  <2>1. /\ r \in Request /\ Fits(r)
        /\ r.step = "locked" => ActiveAdmins \subseteq ActiveAdmins'
        /\ r.step = "accepting" => invitations'[r.subject] = invitations[r.subject]
        /\ r.step = "pairing" => /\ codes'[r.subject] = codes[r.subject]
                                 /\ users'[r.actor].status = "active"
    BY <1>1, <1>3
  <2>2. r.step = "locked" => r.admins <= Cardinality(ActiveAdmins)'
    <3> SUFFICES ASSUME r.step = "locked" PROVE r.admins <= Cardinality(ActiveAdmins)'
      OBVIOUS
    <3>1. r.admins <= Cardinality(ActiveAdmins) /\ r.admins \in Nat
      BY <2>1 DEF Fits, Request
    <3> QED BY <2>1, <3>1, MoreAdmins, AdminsAreFinite
  <2> QED BY <1>3, <2>1, <2>2 DEF Fits
<1> QED BY <1>1, <1>2, <1>3

\* Sessions alone change, or one request opens one.
LEMMA SessionStep ==
  ASSUME IInv, UNCHANGED <<users, invitations, codes, devices>>,
         sessions' \in [SessionIds -> SessionRow],
         \A s \in SessionIds : sessions'[s].state # "none" => sessions'[s].user \in UserIds,
         \/ UNCHANGED <<requests, memberLock>>
         \/ \E q \in Requests : End(q) /\ Unlock(q)
  PROVE  IInv'
<1>1. ActiveAdmins' = ActiveAdmins /\ (SomeAccount' <=> SomeAccount)
  BY DEF ActiveAdmins, SomeAccount
<1>2. /\ AccessTypeOK' /\ Alone' /\ \A p \in Requests : requests'[p] \in {requests[p], Idle}
  <2>1. CASE UNCHANGED <<requests, memberLock>>
    BY <2>1 DEF IInv, AccessTypeOK, Alone
  <2>2. CASE \E q \in Requests : End(q) /\ Unlock(q)
    BY <2>2, Ended DEF IInv, AccessTypeOK
  <2> QED BY <2>1, <2>2
<1>3. \A p \in Requests : requests[p].step = "pairing" => users[requests[p].actor].status = "active"
  BY DEF IInv, Fits
<1>4. \A p \in Requests : Fits(requests[p])'
  BY <1>1, <1>2, <1>3, OthersFit
<1>5. Rows'
  BY <1>1 DEF IInv, Rows
<1>6. AlwaysAnAdmin' /\ DisabledMembersHaveNoDevice' /\ InvitationsAreSpentOnce'
  BY <1>1 DEF IInv, AlwaysAnAdmin, DisabledMembersHaveNoDevice, InvitationsAreSpentOnce
<1> QED BY <1>2, <1>4, <1>5, <1>6 DEF IInv

LEMMA SessionsOverIsTyped ==
  ASSUME IInv, NEW over, SessionsOver(over)
  PROVE  /\ sessions' \in [SessionIds -> SessionRow]
         /\ \A s \in SessionIds : sessions'[s].state # "none" => sessions'[s].user \in UserIds
         /\ \A s \in SessionIds : sessions[s].state = "over" => sessions'[s] = sessions[s]
<1>1. sessions \in [SessionIds -> SessionRow]
  BY DEF IInv, AccessTypeOK
<1>2. \A s \in SessionIds : sessions[s].state = "live" =>
        [sessions[s] EXCEPT !.state = "over"] = [state |-> "over", user |-> sessions[s].user]
  BY <1>1 DEF SessionRow
<1>3. \A s \in SessionIds : sessions[s].state # "none" => sessions[s].user \in UserIds
  BY DEF IInv, Rows
<1> QED BY <1>1, <1>2, <1>3 DEF SessionsOver, SessionRow

LEMMA OpenSessionKeeps ==
  ASSUME IInv, NEW q \in Requests, NEW s \in SessionIds, OpenSession(q, s)
  PROVE  IInv'
<1>1. requests[q].actor \in UserIds /\ requests[q].step # "locked"
  BY DEF OpenSession, IInv, Fits
<1>2. sessions' \in [SessionIds -> SessionRow]
  BY <1>1 DEF OpenSession, IInv, AccessTypeOK, SessionRow
<1>3. \A t \in SessionIds : sessions'[t].state # "none" => sessions'[t].user \in UserIds
  BY <1>1 DEF OpenSession, IInv, AccessTypeOK, Rows
<1>4. End(q) /\ Unlock(q)
  BY <1>1, UnlockedEnd DEF OpenSession
<1> QED BY <1>2, <1>3, <1>4, SessionStep DEF OpenSession

LEMMA SessionExpiresKeeps ==
  ASSUME IInv, NEW s \in SessionIds, SessionExpires(s) PROVE IInv'
BY SessionsOverIsTyped, SessionStep DEF SessionExpires

LEMMA revokeSessionKeeps ==
  ASSUME IInv, NEW s \in SessionIds, revokeSession(s) \/ revokeAllUserSessions(s) PROVE IInv'
BY SessionsOverIsTyped, SessionStep DEF revokeSession, revokeAllUserSessions

-----------------------------------------------------------------------------
(* Invitations.                                                            *)

LEMMA createInvitationKeeps ==
  ASSUME IInv, NEW s \in SessionIds, NEW i \in Invitations, NEW email \in Emails,
         NEW role \in Roles, createInvitation(s, i, email, role)
  PROVE  IInv'
<1>1. /\ invitations \in [Invitations -> InvitationRow] /\ ~invitations[i].created
      /\ UNCHANGED <<users, sessions, codes, devices, requests, memberLock>>
  BY DEF createInvitation, IInv, AccessTypeOK
<1>2. invitations[i].acceptedBy = NoOne
  BY <1>1 DEF IInv, Rows
<1>3. /\ invitations' \in [Invitations -> InvitationRow]
      /\ \A j \in Invitations : j # i => invitations'[j] = invitations[j]
      /\ invitations'[i].acceptedBy = NoOne /\ invitations'[i].created
  BY <1>1, <1>2 DEF createInvitation, InvitationRow
<1>4. SomeAccount
  BY DEF createInvitation, Authorized, authenticateSession, IInv, Rows, SomeAccount
<1>5. ActiveAdmins' = ActiveAdmins /\ (SomeAccount' <=> SomeAccount)
  BY <1>1 DEF ActiveAdmins, SomeAccount
<1>6. AccessTypeOK' /\ Alone'
  BY <1>1, <1>3 DEF IInv, AccessTypeOK, Alone
<1>7. \A p \in Requests :
        /\ requests[p].step = "accepting" => /\ requests[p].subject \in Invitations
                                             /\ requests[p].subject # i
        /\ requests[p].step = "pairing" => users[requests[p].actor].status = "active"
  BY <1>1 DEF IInv, Fits
<1>8. \A p \in Requests : Fits(requests[p])'
  BY <1>1, <1>3, <1>5, <1>7, OthersFit
<1>9. Rows'
  BY <1>1, <1>3, <1>4, <1>5 DEF IInv, Rows
<1>10. AlwaysAnAdmin' /\ DisabledMembersHaveNoDevice' /\ InvitationsAreSpentOnce'
  BY <1>1, <1>3, <1>5
     DEF IInv, AlwaysAnAdmin, DisabledMembersHaveNoDevice, InvitationsAreSpentOnce
<1> QED BY <1>6, <1>8, <1>9, <1>10 DEF IInv

LEMMA revokeInvitationKeeps ==
  ASSUME IInv, NEW q \in Requests, revokeInvitation(q)
  PROVE  IInv'
<1> DEFINE i == requests[q].subject
<1>1. i \in Invitations
  BY DEF revokeInvitation, IInv, Fits
<1>2. /\ invitations \in [Invitations -> InvitationRow] /\ invitations[i].created
      /\ invitations[i].acceptedBy = NoOne
      /\ invitations' = [invitations EXCEPT ![i].revoked = TRUE]
      /\ End(q) /\ requests[q].step # "locked"
      /\ UNCHANGED <<users, sessions, codes, devices, memberLock>>
      /\ \A p \in Requests : requests[p].step = "accepting" => requests[p].subject # i
  BY DEF revokeInvitation, InvitationLocked, IInv, AccessTypeOK
<1> HIDE DEF i
<1>3. /\ invitations' \in [Invitations -> InvitationRow]
      /\ \A j \in Invitations : j # i => invitations'[j] = invitations[j]
      /\ invitations'[i].acceptedBy = NoOne /\ invitations'[i].created
  BY <1>1, <1>2 DEF InvitationRow
<1>4. Unlock(q)
  BY <1>2, UnlockedEnd
<1>5. ActiveAdmins' = ActiveAdmins /\ (SomeAccount' <=> SomeAccount)
  BY <1>2 DEF ActiveAdmins, SomeAccount
<1>6. AccessTypeOK' /\ Alone' /\ \A p \in Requests : requests'[p] \in {requests[p], Idle}
  BY <1>2, <1>3, <1>4, Ended DEF IInv, AccessTypeOK
<1>7. \A p \in Requests :
        /\ requests[p].step = "accepting" => requests[p].subject \in Invitations
        /\ requests[p].step = "pairing" => users[requests[p].actor].status = "active"
  BY DEF IInv, Fits
<1>8. \A p \in Requests : Fits(requests[p])'
  BY <1>2, <1>3, <1>5, <1>6, <1>7, OthersFit
<1>9. Rows'
  BY <1>1, <1>2, <1>3, <1>5 DEF IInv, Rows
<1>10. AlwaysAnAdmin' /\ DisabledMembersHaveNoDevice' /\ InvitationsAreSpentOnce'
  BY <1>1, <1>2, <1>3, <1>5
     DEF IInv, AlwaysAnAdmin, DisabledMembersHaveNoDevice, InvitationsAreSpentOnce
<1> QED BY <1>6, <1>8, <1>9, <1>10 DEF IInv

\* A new account, with an address of its own.
LEMMA NewAccount ==
  ASSUME IInv, NEW u \in UserIds, NEW role \in Roles, NEW email \in Emails,
         users[u].status = "none", ~EmailTaken(email),
         users' = [users EXCEPT ![u] = [status |-> "active", role |-> role, email |-> email]],
         UNCHANGED devices
  PROVE  /\ users' \in [UserIds -> UserRow]
         /\ \A w \in UserIds : w # u => users'[w] = users[w]
         /\ users'[u] = [status |-> "active", role |-> role, email |-> email]
         /\ SomeAccount'
         /\ ActiveAdmins \subseteq ActiveAdmins'
         /\ \A w, x \in UserIds : users'[w].status # "none" /\ users'[x].status # "none" /\ w # x
              => users'[w].email # users'[x].email
         /\ DisabledMembersHaveNoDevice'
<1>1. users \in [UserIds -> UserRow]
  BY DEF IInv, AccessTypeOK
<1>2. /\ users' \in [UserIds -> UserRow]
      /\ \A w \in UserIds : w # u => users'[w] = users[w]
      /\ users'[u] = [status |-> "active", role |-> role, email |-> email]
  BY <1>1 DEF UserRow
<1>3. SomeAccount' /\ ActiveAdmins \subseteq ActiveAdmins'
  BY <1>2 DEF SomeAccount, ActiveAdmins
<1>4. \A w, x \in UserIds : users'[w].status # "none" /\ users'[x].status # "none" /\ w # x
        => users'[w].email # users'[x].email
  BY <1>2 DEF EmailTaken, IInv, InvitationsAreSpentOnce
<1>5. DisabledMembersHaveNoDevice'
  BY <1>2 DEF IInv, Rows, DisabledMembersHaveNoDevice
<1> QED BY <1>2, <1>3, <1>4, <1>5

LEMMA bootstrapFirstAdminKeeps ==
  ASSUME IInv, NEW u \in UserIds, bootstrapFirstAdmin(u)
  PROVE  IInv'
<1>1. /\ users[u].status = "none" /\ ~EmailTaken(AdminEmail)
      /\ users' = [users EXCEPT ![u] =
                     [status |-> "active", role |-> "admin", email |-> AdminEmail]]
      /\ UNCHANGED <<invitations, sessions, codes, devices, requests, memberLock>>
  BY DEF bootstrapFirstAdmin
<1>2. "admin" \in Roles /\ AdminEmail \in Emails
  BY AccessAssumption DEF Roles
<1>3. /\ users' \in [UserIds -> UserRow]
      /\ \A w \in UserIds : w # u => users'[w] = users[w]
      /\ users'[u] = [status |-> "active", role |-> "admin", email |-> AdminEmail]
      /\ SomeAccount' /\ ActiveAdmins \subseteq ActiveAdmins' /\ DisabledMembersHaveNoDevice'
      /\ \A w, x \in UserIds : users'[w].status # "none" /\ users'[x].status # "none" /\ w # x
           => users'[w].email # users'[x].email
  BY <1>1, <1>2, NewAccount
<1>4. AccessTypeOK' /\ Alone'
  BY <1>1, <1>3 DEF IInv, AccessTypeOK, Alone
<1>5. \A p \in Requests : requests[p].step = "pairing" =>
        requests[p].actor \in UserIds /\ users[requests[p].actor].status = "active"
  BY DEF IInv, Fits
<1>6. \A p \in Requests : Fits(requests[p])'
  BY <1>1, <1>3, <1>5, OthersFit
<1>7. Rows'
  BY <1>1, <1>3 DEF IInv, Rows
<1>8. AlwaysAnAdmin'
  BY <1>3 DEF AlwaysAnAdmin, ActiveAdmins
<1>9. InvitationsAreSpentOnce'
  BY <1>1, <1>3 DEF IInv, AccessTypeOK, InvitationRow, InvitationsAreSpentOnce
<1> QED BY <1>3, <1>4, <1>6, <1>7, <1>8, <1>9 DEF IInv

\* The invitation that was checked is still open when the account is made.
LEMMA acceptInvitationKeeps ==
  ASSUME IInv, NEW q \in Requests, NEW u \in UserIds, acceptInvitation(q, u)
  PROVE  IInv'
<1> DEFINE i == requests[q].subject
           role == invitations[i].role
           email == invitations[i].email
<1>1. /\ i \in Invitations /\ invitations[i].created /\ ~invitations[i].revoked
      /\ invitations[i].acceptedBy = NoOne
  BY DEF acceptInvitation, IInv, Fits
<1>2. invitations \in [Invitations -> InvitationRow] /\ role \in Roles /\ email \in Emails
  BY <1>1 DEF IInv, AccessTypeOK, InvitationRow
<1>3. /\ users[u].status = "none" /\ ~EmailTaken(email)
      /\ users' = [users EXCEPT ![u] = [status |-> "active", role |-> role, email |-> email]]
      /\ invitations' = [invitations EXCEPT ![i].acceptedBy = u]
      /\ End(q) /\ requests[q].step = "accepting"
      /\ UNCHANGED <<sessions, codes, devices, memberLock>>
  BY DEF acceptInvitation
<1>4. \A p \in Requests : p # q /\ requests[p].step = "accepting" => requests[p].subject # i
  BY <1>3 DEF IInv, Alone
<1> HIDE DEF i
<1>5. /\ users' \in [UserIds -> UserRow]
      /\ \A w \in UserIds : w # u => users'[w] = users[w]
      /\ users'[u] = [status |-> "active", role |-> role, email |-> email]
      /\ SomeAccount' /\ ActiveAdmins \subseteq ActiveAdmins' /\ DisabledMembersHaveNoDevice'
      /\ \A w, x \in UserIds : users'[w].status # "none" /\ users'[x].status # "none" /\ w # x
           => users'[w].email # users'[x].email
  BY <1>2, <1>3, NewAccount
<1>6. /\ invitations' \in [Invitations -> InvitationRow]
      /\ \A j \in Invitations : j # i => invitations'[j] = invitations[j]
      /\ invitations'[i].acceptedBy = u /\ invitations'[i].created /\ ~invitations'[i].revoked
      /\ invitations'[i].email = email
  BY <1>1, <1>2, <1>3 DEF InvitationRow
<1>7. Unlock(q)
  BY <1>3, UnlockedEnd
<1>8. AccessTypeOK' /\ Alone' /\ \A p \in Requests : requests'[p] = IF p = q THEN Idle ELSE requests[p]
  BY <1>3, <1>5, <1>6, <1>7, Ended DEF IInv, AccessTypeOK
<1>9. \A p \in Requests :
        /\ requests[p].step = "accepting" => requests[p].subject \in Invitations
        /\ requests[p].step = "pairing" =>
             requests[p].actor \in UserIds /\ users[requests[p].actor].status = "active"
  BY DEF IInv, Fits
<1>10. \A p \in Requests : Fits(requests[p])'
  <2>1. \A p \in Requests : requests'[p] = requests[p] => p # q
    BY <1>3, <1>8 DEF Idle
  <2> QED BY <1>3, <1>4, <1>5, <1>6, <1>8, <1>9, <2>1, OthersFit
<1>11. Rows'
  BY <1>1, <1>3, <1>5, <1>6 DEF IInv, Rows
<1>12. AlwaysAnAdmin'
  <2>1. SomeAccount
    BY <1>1 DEF IInv, Rows
  <2> QED BY <1>5, <2>1 DEF IInv, AlwaysAnAdmin, SomeAccount
<1>13. InvitationsAreSpentOnce'
  <2>1. \A j \in Invitations : invitations[j].acceptedBy # NoOne =>
          /\ ~invitations[j].revoked /\ invitations[j].acceptedBy \in UserIds
          /\ invitations[j].acceptedBy # u
          /\ users[invitations[j].acceptedBy].status # "none"
          /\ users[invitations[j].acceptedBy].email = invitations[j].email
    BY <1>2, <1>3 DEF InvitationRow, IInv, InvitationsAreSpentOnce
  <2>2. \A j, k \in Invitations :
          invitations[j].acceptedBy # NoOne /\ invitations[k].acceptedBy # NoOne /\ j # k
            => invitations[j].acceptedBy # invitations[k].acceptedBy
    BY DEF IInv, InvitationsAreSpentOnce
  <2>3. \A j \in Invitations : invitations'[j].acceptedBy # NoOne =>
          /\ ~invitations'[j].revoked
          /\ users'[invitations'[j].acceptedBy].status # "none"
          /\ users'[invitations'[j].acceptedBy].email = invitations'[j].email
    BY <1>1, <1>5, <1>6, <2>1
  <2>4. \A j, k \in Invitations :
          invitations'[j].acceptedBy # NoOne /\ invitations'[k].acceptedBy # NoOne /\ j # k
            => invitations'[j].acceptedBy # invitations'[k].acceptedBy
    BY <1>1, <1>6, <2>1, <2>2
  <2> QED BY <1>5, <2>3, <2>4 DEF InvitationsAreSpentOnce
<1> QED BY <1>5, <1>8, <1>10, <1>11, <1>12, <1>13 DEF IInv

-----------------------------------------------------------------------------
(* Devices.                                                                *)

LEMMA createDevicePairingCodeKeeps ==
  ASSUME IInv, NEW s \in SessionIds, NEW k \in Codes, createDevicePairingCode(s, k)
  PROVE  IInv'
<1>1. /\ codes \in [Codes -> CodeRow] /\ ~codes[k].created /\ sessions[s].user \in UserIds
      /\ UNCHANGED <<users, invitations, sessions, devices, requests, memberLock>>
  BY DEF createDevicePairingCode, Authorized, authenticateSession, IInv, Rows, AccessTypeOK
<1>2. codes[k].device = NoOne
  BY <1>1 DEF IInv, Rows
<1>3. /\ codes' \in [Codes -> CodeRow] /\ \A c \in Codes : c # k => codes'[c] = codes[c]
      /\ codes'[k].device = NoOne /\ codes'[k].created /\ codes'[k].creator = sessions[s].user
  BY <1>1, <1>2 DEF createDevicePairingCode, CodeRow
<1>4. ActiveAdmins' = ActiveAdmins /\ (SomeAccount' <=> SomeAccount)
  BY <1>1 DEF ActiveAdmins, SomeAccount
<1>5. AccessTypeOK' /\ Alone'
  BY <1>1, <1>3 DEF IInv, AccessTypeOK, Alone
<1>6. \A p \in Requests : requests[p].step = "pairing" =>
        /\ requests[p].subject \in Codes /\ requests[p].subject # k
        /\ users[requests[p].actor].status = "active"
  BY <1>1 DEF IInv, Fits
<1>7. \A p \in Requests : Fits(requests[p])'
  BY <1>1, <1>3, <1>4, <1>6, OthersFit
<1>8. Rows'
  BY <1>1, <1>3, <1>4 DEF IInv, Rows
<1>9. AlwaysAnAdmin' /\ DisabledMembersHaveNoDevice' /\ InvitationsAreSpentOnce'
  BY <1>1, <1>4 DEF IInv, AlwaysAnAdmin, DisabledMembersHaveNoDevice, InvitationsAreSpentOnce
<1> QED BY <1>5, <1>7, <1>8, <1>9 DEF IInv

\* The owner was active when the code was locked, and is so still.
LEMMA pairDeviceKeeps ==
  ASSUME IInv, NEW q \in Requests, NEW d \in DeviceIds, pairDevice(q, d)
  PROVE  IInv'
<1> DEFINE k == requests[q].subject
           u == codes[k].creator
<1>1. /\ k \in Codes /\ codes[k].created /\ codes[k].device = NoOne /\ u \in UserIds
      /\ users[u].status = "active"
  BY DEF pairDevice, IInv, Fits
<1>2. /\ codes \in [Codes -> CodeRow] /\ devices \in [DeviceIds -> DeviceRow]
      /\ devices' = [devices EXCEPT ![d] = [status |-> "active", owner |-> u]]
      /\ codes' = [codes EXCEPT ![k].device = d]
      /\ devices[d].status = "none" /\ requests[q].step = "pairing" /\ End(q)
      /\ UNCHANGED <<users, invitations, sessions, memberLock>>
  BY DEF pairDevice, IInv, AccessTypeOK
<1>3. \A p \in Requests : p # q /\ requests[p].step = "pairing" => requests[p].subject # k
  BY <1>2 DEF IInv, Alone
<1>4. Unlock(q)
  BY <1>2, UnlockedEnd
<1> HIDE DEF k
<1>5. /\ codes' \in [Codes -> CodeRow] /\ \A c \in Codes : c # k => codes'[c] = codes[c]
      /\ codes'[k].created /\ codes'[k].creator = u
  BY <1>1, <1>2 DEF CodeRow
<1> HIDE DEF u
<1>6. /\ devices' \in [DeviceIds -> DeviceRow]
      /\ \A e \in DeviceIds : e # d => devices'[e] = devices[e]
      /\ devices'[d].owner = u
  BY <1>1, <1>2 DEF DeviceRow
<1>7. ActiveAdmins' = ActiveAdmins /\ (SomeAccount' <=> SomeAccount)
  BY <1>2 DEF ActiveAdmins, SomeAccount
<1>8. AccessTypeOK' /\ Alone' /\ \A p \in Requests : requests'[p] = IF p = q THEN Idle ELSE requests[p]
  BY <1>2, <1>4, <1>5, <1>6, Ended DEF IInv, AccessTypeOK
<1>9. \A p \in Requests : requests[p].step = "pairing" =>
        requests[p].subject \in Codes /\ users[requests[p].actor].status = "active"
  BY DEF IInv, Fits
<1>10. \A p \in Requests : Fits(requests[p])'
  <2>1. \A p \in Requests : requests'[p] = requests[p] => p # q
    BY <1>2, <1>8 DEF Idle
  <2> QED BY <1>2, <1>3, <1>5, <1>7, <1>8, <1>9, <2>1, OthersFit
<1>11. Rows'
  BY <1>1, <1>2, <1>5, <1>6, <1>7 DEF IInv, Rows
<1>12. DisabledMembersHaveNoDevice'
  BY <1>1, <1>2, <1>6 DEF IInv, DisabledMembersHaveNoDevice
<1>13. AlwaysAnAdmin' /\ InvitationsAreSpentOnce'
  BY <1>2, <1>7 DEF IInv, AlwaysAnAdmin, InvitationsAreSpentOnce
<1> QED BY <1>8, <1>10, <1>11, <1>12, <1>13 DEF IInv

LEMMA DevicesRevokedIsTyped ==
  ASSUME IInv, NEW revoked, DevicesRevoked(revoked)
  PROVE  /\ devices' \in [DeviceIds -> DeviceRow]
         /\ \A d \in DeviceIds : devices'[d].owner = devices[d].owner
         /\ \A d \in DeviceIds : devices'[d].status # "none" <=> devices[d].status # "none"
         /\ \A d \in DeviceIds :
              devices'[d].status = "active" => devices[d].status = "active" /\ d \notin revoked
         /\ \A d \in DeviceIds : devices[d].status = "revoked" => devices'[d] = devices[d]
<1>1. devices \in [DeviceIds -> DeviceRow]
  BY DEF IInv, AccessTypeOK
<1>2. \A d \in DeviceIds : [devices[d] EXCEPT !.status = "revoked"]
                             = [status |-> "revoked", owner |-> devices[d].owner]
  BY <1>1 DEF DeviceRow
<1> QED BY <1>1, <1>2 DEF DevicesRevoked, DeviceRow

LEMMA revokeDeviceKeeps ==
  ASSUME IInv, NEW q \in Requests, revokeDevice(q)
  PROVE  IInv'
<1>1. /\ DevicesRevoked({requests[q].subject}) /\ End(q) /\ requests[q].step # "locked"
      /\ UNCHANGED <<users, invitations, sessions, codes, memberLock>>
  BY DEF revokeDevice
<1>2. /\ devices' \in [DeviceIds -> DeviceRow]
      /\ \A d \in DeviceIds : devices'[d].owner = devices[d].owner
      /\ \A d \in DeviceIds : devices'[d].status # "none" <=> devices[d].status # "none"
      /\ \A d \in DeviceIds : devices'[d].status = "active" => devices[d].status = "active"
  BY <1>1, DevicesRevokedIsTyped
<1>3. ActiveAdmins' = ActiveAdmins /\ (SomeAccount' <=> SomeAccount)
  BY <1>1 DEF ActiveAdmins, SomeAccount
<1>4. AccessTypeOK' /\ Alone' /\ \A p \in Requests : requests'[p] \in {requests[p], Idle}
  BY <1>1, <1>2, UnlockedEnd, Ended DEF IInv, AccessTypeOK
<1>5. \A p \in Requests : requests[p].step = "pairing" => users[requests[p].actor].status = "active"
  BY DEF IInv, Fits
<1>6. \A p \in Requests : Fits(requests[p])'
  BY <1>1, <1>3, <1>4, <1>5, OthersFit
<1>7. Rows'
  BY <1>1, <1>2, <1>3 DEF IInv, Rows
<1>8. AlwaysAnAdmin' /\ DisabledMembersHaveNoDevice' /\ InvitationsAreSpentOnce'
  BY <1>1, <1>2, <1>3 DEF IInv, AlwaysAnAdmin, DisabledMembersHaveNoDevice, InvitationsAreSpentOnce
<1> QED BY <1>4, <1>6, <1>7, <1>8 DEF IInv

-----------------------------------------------------------------------------
(* Members.                                                                *)

\* A request that changes the row of one member under the locked count: no other request
\* holds the count, nor is the member pairing a device.
LEMMA MemberStep ==
  ASSUME IInv, NEW q \in Requests, NEW u \in UserIds, requests[q].step = "locked",
         NEW row \in UserRow, users' = [users EXCEPT ![u] = row],
         row.status # "none", row.email = users[u].email, users[u].status # "none",
         ~OwnerLocked(u) \/ row.status = "active",
         row.role # "admin" \/ row.status # "active" =>
           (users[u].role = "admin" /\ users[u].status = "active" => requests[q].admins > 1),
         sessions' \in [SessionIds -> SessionRow],
         \A s \in SessionIds : sessions'[s].state # "none" => sessions'[s].user \in UserIds,
         devices' \in [DeviceIds -> DeviceRow],
         \A d \in DeviceIds : devices'[d].owner = devices[d].owner,
         \A d \in DeviceIds : devices'[d].status # "none" <=> devices[d].status # "none",
         \A d \in DeviceIds : devices'[d].status = "active" =>
           /\ devices[d].status = "active"
           /\ devices[d].owner # u \/ row.status = "active",
         End(q), Unlock(q), UNCHANGED <<invitations, codes>>
  PROVE  IInv'
<1>1. users \in [UserIds -> UserRow]
  BY DEF IInv, AccessTypeOK
<1>2. /\ users' \in [UserIds -> UserRow] /\ users'[u] = row
      /\ \A w \in UserIds : w # u => users'[w] = users[w]
  BY <1>1
<1>3. /\ \A w \in UserIds : users'[w].status # "none" <=> users[w].status # "none"
      /\ \A w \in UserIds : users'[w].email = users[w].email
      /\ SomeAccount' <=> SomeAccount
  BY <1>2 DEF SomeAccount
<1>4. /\ AccessTypeOK' /\ Alone'
      /\ \A p \in Requests : requests'[p] = IF p = q THEN Idle ELSE requests[p]
  BY <1>2, Ended DEF IInv, AccessTypeOK
<1>5. \A p \in Requests : requests[p].step = "locked" => p = q
  BY DEF IInv, AccessTypeOK
<1>6. \A p \in Requests : requests[p].step = "pairing" =>
        /\ requests[p].actor \in UserIds /\ users[requests[p].actor].status = "active"
        /\ requests[p].actor # u \/ row.status = "active"
  BY DEF IInv, Fits, OwnerLocked
<1>7. \A p \in Requests : Fits(requests[p])'
  <2>1. \A p \in Requests : requests'[p] = requests[p] => p # q
    BY <1>4 DEF Idle
  <2> QED BY <1>2, <1>4, <1>5, <1>6, <2>1, OthersFit
<1>8. Rows'
  BY <1>3 DEF IInv, Rows
<1>9. ActiveAdmins' # {}
  <2>1. ActiveAdmins # {}
    BY DEF IInv, AlwaysAnAdmin
  <2>2. CASE row.role = "admin" /\ row.status = "active"
    BY <1>2, <2>2 DEF ActiveAdmins
  <2>3. CASE ~(users[u].role = "admin" /\ users[u].status = "active")
    BY <1>2, <2>1, <2>3 DEF ActiveAdmins
  <2>4. CASE requests[q].admins > 1
    <3>1. requests[q].admins <= Cardinality(ActiveAdmins) /\ requests[q].admins \in Nat
      BY DEF IInv, Fits, AccessTypeOK, Request, Idle
    <3>2. Cardinality(ActiveAdmins) > 1
      BY <2>4, <3>1, AdminsAreFinite
    <3>3. ActiveAdmins \ {u} \subseteq ActiveAdmins'
      BY <1>2 DEF ActiveAdmins
    <3> QED BY <3>2, <3>3, OneAdminLess
  <2> QED BY <2>2, <2>3, <2>4
<1>10. AlwaysAnAdmin'
  BY <1>9 DEF AlwaysAnAdmin
<1>11. DisabledMembersHaveNoDevice'
  BY <1>2 DEF IInv, Rows, DisabledMembersHaveNoDevice
<1>12. InvitationsAreSpentOnce'
  BY <1>3 DEF IInv, AccessTypeOK, InvitationRow, InvitationsAreSpentOnce
<1> QED BY <1>4, <1>7, <1>8, <1>10, <1>11, <1>12 DEF IInv

\* What TargetLocked knows of its target.
LEMMA TargetIsAMember ==
  ASSUME IInv, NEW q \in Requests, NEW op \in MemberOps, TargetLocked(q, op)
  PROVE  /\ requests[q].subject \in UserIds /\ requests[q].step = "locked"
         /\ users[requests[q].subject] \in UserRow
         /\ users[requests[q].subject].status # "none"
         /\ ~OwnerLocked(requests[q].subject)
BY DEF TargetLocked, IInv, Fits, AccessTypeOK

LEMMA disableUserAccountKeeps ==
  ASSUME IInv, NEW q \in Requests, disableUserAccount(q)
  PROVE  IInv'
<1> DEFINE u == requests[q].subject
           row == [users[u] EXCEPT !.status = "disabled"]
<1>1. /\ u \in UserIds /\ requests[q].step = "locked" /\ users[u] \in UserRow
      /\ users[u].status # "none" /\ ~OwnerLocked(u)
  BY TargetIsAMember DEF disableUserAccount, MemberOps
<1>2. /\ users' = [users EXCEPT ![u] = row]
      /\ users[u].role = "admin" => requests[q].admins > 1
      /\ SessionsOver(SessionsOf(u)) /\ DevicesRevoked(DevicesOf(u)) /\ End(q) /\ Unlock(q)
      /\ UNCHANGED <<invitations, codes>>
  BY <1>1 DEF disableUserAccount, assertCanLoseAdmin
<1>3. /\ row \in UserRow /\ row.status = "disabled" /\ row.email = users[u].email
  BY <1>1 DEF UserRow
<1> HIDE DEF u, row
<1>4. /\ sessions' \in [SessionIds -> SessionRow]
      /\ \A s \in SessionIds : sessions'[s].state # "none" => sessions'[s].user \in UserIds
  BY <1>2, SessionsOverIsTyped
<1>5. /\ devices' \in [DeviceIds -> DeviceRow]
      /\ \A d \in DeviceIds : devices'[d].owner = devices[d].owner
      /\ \A d \in DeviceIds : devices'[d].status # "none" <=> devices[d].status # "none"
      /\ \A d \in DeviceIds : devices'[d].status = "active" =>
           devices[d].status = "active" /\ d \notin DevicesOf(u)
  BY <1>2, DevicesRevokedIsTyped
<1>6. \A d \in DeviceIds : devices'[d].status = "active" => devices[d].owner # u
  BY <1>5 DEF DevicesOf
<1>7. /\ ~OwnerLocked(u) \/ row.status = "active"
      /\ row.role # "admin" \/ row.status # "active" =>
           (users[u].role = "admin" /\ users[u].status = "active" => requests[q].admins > 1)
      /\ \A d \in DeviceIds : devices'[d].status = "active" =>
           devices[d].status = "active" /\ (devices[d].owner # u \/ row.status = "active")
      /\ row.status # "none"
  BY <1>1, <1>2, <1>3, <1>5, <1>6
<1> QED BY <1>1, <1>2, <1>3, <1>4, <1>5, <1>7, MemberStep

LEMMA enableUserAccountKeeps ==
  ASSUME IInv, NEW q \in Requests, enableUserAccount(q)
  PROVE  IInv'
<1> DEFINE u == requests[q].subject
           row == [users[u] EXCEPT !.status = "active"]
<1>1. /\ u \in UserIds /\ requests[q].step = "locked" /\ users[u] \in UserRow
      /\ users[u].status # "none" /\ ~OwnerLocked(u)
  BY TargetIsAMember DEF enableUserAccount, MemberOps
<1>2. /\ users' = [users EXCEPT ![u] = row] /\ End(q) /\ Unlock(q)
      /\ UNCHANGED <<invitations, sessions, codes, devices>>
  BY <1>1 DEF enableUserAccount
<1>3. /\ row \in UserRow /\ row.status = "active" /\ row.email = users[u].email
      /\ row.role = users[u].role
  BY <1>1 DEF UserRow
<1> HIDE DEF u, row
<1>4. sessions' \in [SessionIds -> SessionRow] /\ devices' \in [DeviceIds -> DeviceRow]
  BY <1>2 DEF IInv, AccessTypeOK
<1>5. \A s \in SessionIds : sessions'[s].state # "none" => sessions'[s].user \in UserIds
  BY <1>2 DEF IInv, Rows
<1>6. /\ ~OwnerLocked(u) \/ row.status = "active"
      /\ row.role # "admin" \/ row.status # "active" =>
           (users[u].role = "admin" /\ users[u].status = "active" => requests[q].admins > 1)
      /\ row.status # "none"
  BY <1>1, <1>3
<1>7. /\ \A d \in DeviceIds : devices'[d].owner = devices[d].owner
      /\ \A d \in DeviceIds : devices'[d].status # "none" <=> devices[d].status # "none"
      /\ \A d \in DeviceIds : devices'[d].status = "active" =>
           devices[d].status = "active" /\ (devices[d].owner # u \/ row.status = "active")
  BY <1>2, <1>3
<1> QED BY <1>1, <1>2, <1>3, <1>4, <1>5, <1>6, <1>7, MemberStep

LEMMA changeMemberRoleKeeps ==
  ASSUME IInv, NEW q \in Requests, changeMemberRole(q)
  PROVE  IInv'
<1> DEFINE u == requests[q].subject
           role == requests[q].role
           row == [users[u] EXCEPT !.role = role]
<1>1. /\ u \in UserIds /\ requests[q].step = "locked" /\ users[u] \in UserRow
      /\ users[u].status # "none" /\ ~OwnerLocked(u)
  BY TargetIsAMember DEF changeMemberRole, MemberOps
<1>2. role \in Roles
  BY <1>1 DEF IInv, AccessTypeOK, Request, Idle
<1>3. /\ users' = [users EXCEPT ![u] = row] /\ End(q) /\ Unlock(q)
      /\ users[u].role # role => (users[u].role = "admin" => requests[q].admins > 1)
      /\ UNCHANGED <<invitations, sessions, codes, devices>>
  BY <1>1 DEF changeMemberRole, assertCanLoseAdmin
<1>4. /\ row \in UserRow /\ row.status = users[u].status /\ row.email = users[u].email
      /\ row.role = role
  BY <1>1, <1>2 DEF UserRow
<1> HIDE DEF u, row, role
<1>5. sessions' \in [SessionIds -> SessionRow] /\ devices' \in [DeviceIds -> DeviceRow]
  BY <1>3 DEF IInv, AccessTypeOK
<1>6. \A s \in SessionIds : sessions'[s].state # "none" => sessions'[s].user \in UserIds
  BY <1>3 DEF IInv, Rows
<1>7. \A d \in DeviceIds : devices[d].status = "active" => users[devices[d].owner].status = "active"
  BY DEF IInv, DisabledMembersHaveNoDevice
<1>8. \A d \in DeviceIds : devices'[d].status = "active" =>
        devices[d].status = "active" /\ (devices[d].owner # u \/ row.status = "active")
  BY <1>3, <1>4, <1>7
<1> QED
  <2>1. row.role # "admin" \/ row.status # "active" =>
          (users[u].role = "admin" /\ users[u].status = "active" => requests[q].admins > 1)
    BY <1>3, <1>4
  <2>2. ~OwnerLocked(u) \/ row.status = "active"
    BY <1>1
  <2> QED BY <1>1, <1>3, <1>4, <1>5, <1>6, <1>8, <2>1, <2>2, MemberStep

-----------------------------------------------------------------------------
(* The theorems.                                                           *)

LEMMA InitHolds == AccessInit => IInv
<1> SUFFICES ASSUME AccessInit PROVE IInv
  OBVIOUS
<1>1. AccessTypeOK
  BY AccessAssumption
     DEF AccessInit, AccessTypeOK, UserRow, InvitationRow, SessionRow, CodeRow, DeviceRow, Roles, Idle
<1>2. \A q \in Requests : Fits(requests[q])
  BY IdleFits DEF AccessInit
<1>3. Alone
  BY DEF AccessInit, Alone, Idle
<1>4. Rows
  BY DEF AccessInit, Rows
<1>5. AlwaysAnAdmin /\ DisabledMembersHaveNoDevice /\ InvitationsAreSpentOnce
  BY DEF AccessInit, AlwaysAnAdmin, DisabledMembersHaveNoDevice, InvitationsAreSpentOnce
<1> QED BY <1>1, <1>2, <1>3, <1>4, <1>5 DEF IInv

LEMMA StutterKeeps == ASSUME IInv, UNCHANGED vars PROVE IInv'
<1>1. UNCHANGED <<users, invitations, codes, devices, requests, memberLock>> /\ UNCHANGED sessions
  BY DEF vars
<1>2. sessions' \in [SessionIds -> SessionRow]
  BY <1>1 DEF IInv, AccessTypeOK
<1>3. \A s \in SessionIds : sessions'[s].state # "none" => sessions'[s].user \in UserIds
  BY <1>1 DEF IInv, Rows
<1> QED BY <1>1, <1>2, <1>3, SessionStep

LEMMA NextKeeps == ASSUME IInv, AccessNext PROVE IInv'
<1>1. ASSUME NEW q \in Requests,
             Login(q) \/ Invite(q) \/ Device(q) \/ Member(q) \/ Refuse(q)
      PROVE  IInv'
  <2>1. CASE Login(q)
    BY <2>1, ReadCredentialsKeeps, OpenSessionKeeps DEF Login
  <2>2. CASE Invite(q)
    BY <2>2, StartAcceptanceKeeps, acceptInvitationKeeps, revokeInvitationKeeps DEF Invite
  <2>3. CASE Device(q)
    BY <2>3, StartPairingKeeps, pairDeviceKeeps, CheckDeviceKeeps, rotateDeviceTokenKeeps,
       revokeDeviceKeeps DEF Device
  <2>4. CASE Member(q)
    BY <2>4, lockWorkspaceMembersKeeps, disableUserAccountKeeps, enableUserAccountKeeps,
       changeMemberRoleKeeps DEF Member
  <2> QED BY <1>1, <2>1, <2>2, <2>3, <2>4, RefuseKeeps
<1>2. ASSUME NEW s \in SessionIds, AtOnce(s) PROVE IInv'
  BY <1>2, revokeSessionKeeps, createInvitationKeeps, createDevicePairingCodeKeeps, AccessAssumption
     DEF AtOnce
<1> QED BY <1>1, <1>2, bootstrapFirstAdminKeeps, RouteKeeps, SessionExpiresKeeps DEF AccessNext

\* IInv is inductive.
THEOREM Inductive == AccessSpec => []IInv
<1>1. IInv /\ [AccessNext]_vars => IInv'
  BY NextKeeps, StutterKeeps
<1> QED BY <1>1, InitHolds, PTL DEF AccessSpec

\* The rows stay well formed and the locked count has one holder.
THEOREM TypeCorrect == AccessSpec => []AccessTypeOK
<1>1. IInv => AccessTypeOK
  BY DEF IInv
<1> QED BY <1>1, Inductive, PTL

\* A workspace that has accounts has an administrator who can log in.
THEOREM AnAdminRemains == AccessSpec => []AlwaysAnAdmin
<1>1. IInv => AlwaysAnAdmin
  BY DEF IInv
<1> QED BY <1>1, Inductive, PTL

\* Disabling an account takes every device, those being paired included.
THEOREM DisabledOwnNothing == AccessSpec => []DisabledMembersHaveNoDevice
<1>1. IInv => DisabledMembersHaveNoDevice
  BY DEF IInv
<1> QED BY <1>1, Inductive, PTL

\* One invitation, one account, one address.
THEOREM SpentOnce == AccessSpec => []InvitationsAreSpentOnce
<1>1. IInv => InvitationsAreSpentOnce
  BY DEF IInv
<1> QED BY <1>1, Inductive, PTL

-----------------------------------------------------------------------------
(* What is over stays over.                                                *)

DevicesFinal == \A d \in DeviceIds : devices[d].status = "revoked" => devices'[d] = devices[d]
SessionsFinal == \A s \in SessionIds : sessions[s].state = "over" => sessions'[s] = sessions[s]
CodesFinal == \A k \in Codes : codes[k].device # NoOne => codes'[k] = codes[k]

LEMMA NextIsFinal ==
  ASSUME IInv, AccessNext
  PROVE  DevicesFinal /\ SessionsFinal /\ CodesFinal
<1>1. /\ devices \in [DeviceIds -> DeviceRow] /\ sessions \in [SessionIds -> SessionRow]
      /\ codes \in [Codes -> CodeRow]
  BY DEF IInv, AccessTypeOK
<1>2. CASE \E u \in UserIds : bootstrapFirstAdmin(u)
  BY <1>2 DEF bootstrapFirstAdmin, DevicesFinal, SessionsFinal, CodesFinal
<1>3. ASSUME NEW q \in Requests, Login(q)
      PROVE  DevicesFinal /\ SessionsFinal /\ CodesFinal
  BY <1>1, <1>3 DEF Login, ReadCredentials, OpenSession, DevicesFinal, SessionsFinal, CodesFinal
<1>4. ASSUME NEW q \in Requests, Invite(q)
      PROVE  DevicesFinal /\ SessionsFinal /\ CodesFinal
  BY <1>4 DEF Invite, StartAcceptance, acceptInvitation, revokeInvitation, DevicesFinal,
              SessionsFinal, CodesFinal
<1>5. ASSUME NEW q \in Requests, Device(q)
      PROVE  DevicesFinal /\ SessionsFinal /\ CodesFinal
  <2>1. ASSUME NEW d \in DeviceIds, pairDevice(q, d)
        PROVE  DevicesFinal /\ SessionsFinal /\ CodesFinal
    <3>1. codes[requests[q].subject].device = NoOne
      BY <2>1 DEF pairDevice, IInv, Fits
    <3> QED BY <1>1, <2>1, <3>1 DEF pairDevice, DevicesFinal, SessionsFinal, CodesFinal
  <2>2. CASE revokeDevice(q)
    <3>1. DevicesFinal
      BY <2>2, DevicesRevokedIsTyped DEF revokeDevice, DevicesFinal
    <3> QED BY <2>2, <3>1 DEF revokeDevice, SessionsFinal, CodesFinal
  <2>3. CASE CheckDevice(q) \/ rotateDeviceToken(q) \/ \E k \in Codes : StartPairing(q, k)
    BY <2>3 DEF CheckDevice, rotateDeviceToken, StartPairing, DevicesFinal, SessionsFinal,
                CodesFinal
  <2> QED BY <1>5, <2>1, <2>2, <2>3 DEF Device
<1>6. ASSUME NEW q \in Requests, Member(q)
      PROVE  DevicesFinal /\ SessionsFinal /\ CodesFinal
  <2>1. CASE disableUserAccount(q)
    <3>1. SessionsFinal
      BY <2>1, SessionsOverIsTyped DEF disableUserAccount, SessionsFinal
    <3>2. DevicesFinal
      BY <2>1, DevicesRevokedIsTyped DEF disableUserAccount, DevicesFinal
    <3> QED BY <2>1, <3>1, <3>2 DEF disableUserAccount, CodesFinal
  <2>2. CASE lockWorkspaceMembers(q) \/ enableUserAccount(q) \/ changeMemberRole(q)
    BY <2>2 DEF lockWorkspaceMembers, enableUserAccount, changeMemberRole, DevicesFinal,
                SessionsFinal, CodesFinal
  <2> QED BY <1>6, <2>1, <2>2 DEF Member
<1>7. ASSUME NEW q \in Requests, Refuse(q) \/ \E s \in SessionIds : Route(q, s)
      PROVE  DevicesFinal /\ SessionsFinal /\ CodesFinal
  BY <1>7 DEF Refuse, Route, RoutesOfInvitations, RoutesOfDevices, RoutesOfMembers, Authorize,
              DevicesFinal, SessionsFinal, CodesFinal
<1>8. ASSUME NEW s \in SessionIds, SessionExpires(s) \/ revokeSession(s) \/ revokeAllUserSessions(s)
      PROVE  DevicesFinal /\ SessionsFinal /\ CodesFinal
  <2>1. SessionsFinal
    BY <1>8, SessionsOverIsTyped
       DEF SessionExpires, revokeSession, revokeAllUserSessions, SessionsFinal
  <2> QED BY <1>8, <2>1
          DEF SessionExpires, revokeSession, revokeAllUserSessions, DevicesFinal, CodesFinal
<1>9. ASSUME NEW s \in SessionIds, AtOnce(s)
      PROVE  DevicesFinal /\ SessionsFinal /\ CodesFinal
  <2>1. CASE \E i \in Invitations, email \in InvitedEmails, role \in InvitedRoles :
               createInvitation(s, i, email, role)
    BY <2>1 DEF createInvitation, DevicesFinal, SessionsFinal, CodesFinal
  <2>2. ASSUME NEW k \in Codes, createDevicePairingCode(s, k)
        PROVE  DevicesFinal /\ SessionsFinal /\ CodesFinal
    <3>1. codes[k].device = NoOne
      BY <2>2 DEF createDevicePairingCode, IInv, Rows
    <3> QED BY <1>1, <2>2, <3>1
            DEF createDevicePairingCode, DevicesFinal, SessionsFinal, CodesFinal
  <2> QED BY <1>8, <1>9, <2>1, <2>2 DEF AtOnce
<1> QED BY <1>2, <1>3, <1>4, <1>5, <1>6, <1>7, <1>8, <1>9 DEF AccessNext

\* A revoked device, a session that is over and a used code never work again.
THEOREM NothingComesBack == AccessSpec => RevocationIsFinal
<1>1. IInv /\ [AccessNext]_vars => [DevicesFinal /\ SessionsFinal /\ CodesFinal]_vars
  BY NextIsFinal
<1>2. AccessSpec => [][DevicesFinal /\ SessionsFinal /\ CodesFinal]_vars
  BY <1>1, Inductive, PTL DEF AccessSpec
<1> QED BY <1>2, PTL DEF RevocationIsFinal, DevicesFinal, SessionsFinal, CodesFinal
=============================================================================
