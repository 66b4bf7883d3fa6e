---------------------------- MODULE MemberAccess ----------------------------
(***************************************************************************)
(* Who may use the workspace: accounts with their roles, invitations,      *)
(* browser sessions, pairing codes and devices                             *)
(* (packages/domain/src/auth/members.ts, invitations.ts, sessions.ts,      *)
(* devices.ts, bootstrap-admin.ts and their routes in                      *)
(* apps/api/src/server.ts).                                                *)
(*                                                                         *)
(* A browser request is authorised first and works later, with the role it *)
(* was authorised with.  Its work is a transaction, a single statement, or *)
(* a check followed by a statement.  Row locks are modelled where they     *)
(* keep two requests apart: the locked count of the administrators, the    *)
(* row of an invitation that is being accepted, and the owner's row of a   *)
(* device that is being paired.  A request that is refused, that fails or  *)
(* whose server stops rolls back and ends.  An invitation or a code that   *)
(* has expired is one that nobody accepts any more.                        *)
(***************************************************************************)
EXTENDS Naturals, FiniteSets

CONSTANTS
  UserIds, Emails, AdminEmail,   \* AdminEmail: configured for the first administrator
  Invitations, SessionIds, Codes, DeviceIds,
  Requests,                      \* requests that the server may work on at once
  InvitedEmails, InvitedRoles,   \* what invitations name
  RolesTried,                    \* the roles that role changes ask for
  NoOne

VARIABLES
  users,        \* users[u]: account and membership
  invitations,  \* invitations[i]
  sessions,     \* sessions[s]
  codes,        \* codes[k]: device_pairing_codes
  devices,      \* devices[d]
  requests,     \* requests[q]: how far a request has come
  memberLock    \* the request that holds the locked count of the administrators

vars == <<users, invitations, sessions, codes, devices, requests, memberLock>>

Roles == {"admin", "operator", "readonly"}

ROLE_PERMISSIONS ==
  [admin    |-> {"members:manage", "device:manage", "session"},
   operator |-> {"device:manage", "session"},
   readonly |-> {"session"}]

\* A role that may own a working device.
CollectorRoles == {"admin", "operator"}

UserRow == [status : {"none", "active", "disabled"}, role : Roles, email : Emails]
InvitationRow == [created : BOOLEAN, email : Emails, role : Roles,
                  acceptedBy : UserIds \cup {NoOne}, revoked : BOOLEAN]
SessionRow == [state : {"none", "live", "over"}, user : UserIds \cup {NoOne}]
CodeRow == [created : BOOLEAN, creator : UserIds \cup {NoOne}, device : DeviceIds \cup {NoOne}]
DeviceRow == [status : {"none", "active", "revoked"}, owner : UserIds \cup {NoOne}]

\* What a request is about: "subject" is an account, an invitation, a session, a code or a device.
Subjects == UserIds \cup Invitations \cup SessionIds \cup Codes \cup DeviceIds \cup {NoOne}
Request == [step    : {"authorised", "verified", "locked", "accepting", "pairing", "checked"},
            op      : {"revoke_invitation", "disable", "enable", "role", "rotate", "revoke_device",
                       "login", "accept", "pair"},
            actor   : UserIds \cup {NoOne},
            role    : Roles,            \* of the actor when authorised, or the one asked for
            admins  : Nat,              \* the administrators counted
            subject : Subjects]
Idle == [step |-> "idle"]

ASSUME AccessAssumption ==
  /\ IsFiniteSet(UserIds)
  /\ RolesTried \subseteq Roles /\ InvitedRoles \subseteq Roles /\ InvitedEmails \subseteq Emails
  /\ AdminEmail \in Emails
  /\ NoOne \notin UserIds \cup Invitations \cup SessionIds \cup Codes \cup DeviceIds \cup Requests

ActiveAdmins == {u \in UserIds : users[u].status = "active" /\ users[u].role = "admin"}
Admins == {u \in UserIds : users[u].status # "none" /\ users[u].role = "admin"}
EmailTaken(email) == \E u \in UserIds : users[u].status # "none" /\ users[u].email = email

AccessInit ==
  /\ users = [u \in UserIds |-> [status |-> "none", role |-> "readonly", email |-> AdminEmail]]
  /\ invitations = [i \in Invitations |->
       [created |-> FALSE, email |-> AdminEmail, role |-> "readonly",
        acceptedBy |-> NoOne, revoked |-> FALSE]]
  /\ sessions = [s \in SessionIds |-> [state |-> "none", user |-> NoOne]]
  /\ codes = [k \in Codes |-> [created |-> FALSE, creator |-> NoOne, device |-> NoOne]]
  /\ devices = [d \in DeviceIds |-> [status |-> "none", owner |-> NoOne]]
  /\ requests = [q \in Requests |-> Idle]
  /\ memberLock = NoOne

End(q) == requests' = [requests EXCEPT ![q] = Idle]
Reaches(q, step) == requests' = [requests EXCEPT ![q].step = step]
Unlock(q) == memberLock' = IF memberLock = q THEN NoOne ELSE memberLock

-----------------------------------------------------------------------------
(* The first administrator, from the command line.                         *)

bootstrapFirstAdmin(u) ==
  /\ Admins = {} /\ ~EmailTaken(AdminEmail)
  /\ users[u].status = "none"
  /\ users' = [users EXCEPT ![u] = [status |-> "active", role |-> "admin", email |-> AdminEmail]]
  /\ UNCHANGED <<invitations, sessions, codes, devices, requests, memberLock>>

-----------------------------------------------------------------------------
(* Sessions.                                                               *)

\* loginWithPassword reads the credentials, compares the password, and then inserts.
ReadCredentials(q, u) ==
  /\ requests[q] = Idle
  /\ users[u].status = "active"
  /\ requests' = [requests EXCEPT
       ![q] = [step |-> "verified", op |-> "login", actor |-> u, role |-> users[u].role,
               admins |-> 0, subject |-> NoOne]]
  /\ UNCHANGED <<users, invitations, sessions, codes, devices, memberLock>>

OpenSession(q, s) ==
  /\ requests[q].step = "verified" /\ requests[q].op = "login"
  /\ sessions[s].state = "none"
  /\ sessions' = [sessions EXCEPT ![s] = [state |-> "live", user |-> requests[q].actor]]
  /\ End(q)
  /\ UNCHANGED <<users, invitations, codes, devices, memberLock>>

authenticateSession(s) == sessions[s].state = "live" /\ users[sessions[s].user].status = "active"

\* authorizeBrowserRequest
Authorized(s, permission) ==
  authenticateSession(s) /\ permission \in ROLE_PERMISSIONS[users[sessions[s].user].role]

\* A request that reads what it is to change after it was authorised: the principal
\* keeps the role read here.
Authorize(q, s, permission, op, role, subject) ==
  /\ requests[q] = Idle
  /\ Authorized(s, permission)
  /\ requests' = [requests EXCEPT
       ![q] = [step |-> "authorised", op |-> op, actor |-> sessions[s].user, role |-> role,
               admins |-> 0, subject |-> subject]]
  /\ UNCHANGED <<users, invitations, sessions, codes, devices, memberLock>>

SessionsOver(over) ==
  sessions' = [s \in SessionIds |->
                 IF s \in over /\ sessions[s].state = "live"
                   THEN [sessions[s] EXCEPT !.state = "over"] ELSE sessions[s]]
SessionsOf(u) == {s \in SessionIds : sessions[s].user = u}

revokeSession(s) ==
  /\ Authorized(s, "session")
  /\ SessionsOver({s})
  /\ UNCHANGED <<users, invitations, codes, devices, requests, memberLock>>

revokeAllUserSessions(s) ==
  /\ Authorized(s, "session")
  /\ SessionsOver(SessionsOf(sessions[s].user))
  /\ UNCHANGED <<users, invitations, codes, devices, requests, memberLock>>

-----------------------------------------------------------------------------
(* Invitations.                                                            *)

createInvitation(s, i, email, role) ==
  /\ Authorized(s, "members:manage")
  /\ ~invitations[i].created
  /\ invitations' = [invitations EXCEPT
       ![i].created = TRUE, ![i].email = email, ![i].role = role]
  /\ UNCHANGED <<users, sessions, codes, devices, requests, memberLock>>

\* The transaction of an acceptance holds the invitation's row from its first read on.
InvitationLocked(i) == \E q \in Requests : requests[q].step = "accepting" /\ requests[q].subject = i

Acceptable(i) ==
  /\ invitations[i].created /\ invitations[i].acceptedBy = NoOne /\ ~invitations[i].revoked
  /\ ~EmailTaken(invitations[i].email)

\* Between the check and the insertion lies the hashing of the password.
StartAcceptance(q, i) ==
  /\ requests[q] = Idle
  /\ ~InvitationLocked(i) /\ Acceptable(i)
  /\ requests' = [requests EXCEPT
       ![q] = [step |-> "accepting", op |-> "accept", actor |-> NoOne,
               role |-> invitations[i].role, admins |-> 0, subject |-> i]]
  /\ UNCHANGED <<users, invitations, sessions, codes, devices, memberLock>>

\* The unique index on the address refuses the second of two accounts.
acceptInvitation(q, u) ==
  LET i == requests[q].subject IN
  /\ requests[q].step = "accepting"
  /\ users[u].status = "none" /\ ~EmailTaken(invitations[i].email)
  /\ users' = [users EXCEPT ![u] = [status |-> "active", role |-> invitations[i].role,
                                    email |-> invitations[i].email]]
  /\ invitations' = [invitations EXCEPT ![i].acceptedBy = u]
  /\ End(q)
  /\ UNCHANGED <<sessions, codes, devices, memberLock>>

\* (mutant) The row is read without a lock.
revokeInvitationUnlocked(q) ==
  LET i == requests[q].subject IN
  /\ requests[q].step = "authorised" /\ requests[q].op = "revoke_invitation"
  /\ invitations[i].created /\ invitations[i].acceptedBy = NoOne /\ ~invitations[i].revoked
  /\ invitations' = [invitations EXCEPT ![i].revoked = TRUE]
  /\ End(q)
  /\ UNCHANGED <<users, sessions, codes, devices, memberLock>>

revokeInvitation(q) ==
  LET i == requests[q].subject IN
  /\ requests[q].step = "authorised" /\ requests[q].op = "revoke_invitation"
  /\ ~InvitationLocked(i)
  /\ invitations[i].created /\ invitations[i].acceptedBy = NoOne /\ ~invitations[i].revoked
  /\ invitations' = [invitations EXCEPT ![i].revoked = TRUE]
  /\ End(q)
  /\ UNCHANGED <<users, sessions, codes, devices, memberLock>>

RoutesOfInvitations(q, s) ==
  \E i \in Invitations : Authorize(q, s, "members:manage", "revoke_invitation", "readonly", i)

-----------------------------------------------------------------------------
(* Devices.                                                                *)

createDevicePairingCode(s, k) ==
  /\ Authorized(s, "device:manage")
  /\ ~codes[k].created
  /\ codes' = [codes EXCEPT ![k].created = TRUE, ![k].creator = sessions[s].user]
  /\ UNCHANGED <<users, invitations, sessions, devices, requests, memberLock>>

CodeLocked(k) == \E q \in Requests : requests[q].step = "pairing" /\ requests[q].subject = k
\* The rows of the owners of devices that are being paired.
OwnerLocked(u) == \E q \in Requests : requests[q].step = "pairing" /\ requests[q].actor = u
\* The locked count holds the rows of the active administrators.
CountedAsAdmin(u) == memberLock # NoOne /\ u \in ActiveAdmins

\* pairDevice locks the code, its owner and the membership with its first read.
StartPairing(q, k) ==
  LET u == codes[k].creator IN
  /\ requests[q] = Idle
  /\ codes[k].created /\ codes[k].device = NoOne
  /\ ~CodeLocked(k) /\ ~OwnerLocked(u) /\ ~CountedAsAdmin(u)
  /\ users[u].status = "active" /\ users[u].role \in CollectorRoles
  /\ requests' = [requests EXCEPT
       ![q] = [step |-> "pairing", op |-> "pair", actor |-> u, role |-> users[u].role,
               admins |-> 0, subject |-> k]]
  /\ UNCHANGED <<users, invitations, sessions, codes, devices, memberLock>>

pairDevice(q, d) ==
  LET k == requests[q].subject IN
  /\ requests[q].step = "pairing"
  /\ devices[d].status = "none"
  /\ devices' = [devices EXCEPT ![d] = [status |-> "active", owner |-> codes[k].creator]]
  /\ codes' = [codes EXCEPT ![k].device = d]
  /\ End(q)
  /\ UNCHANGED <<users, invitations, sessions, memberLock>>

\* assertDeviceManagementScope, a statement of its own.
CheckDevice(q) ==
  LET d == requests[q].subject IN
  /\ requests[q].step = "authorised" /\ requests[q].op \in {"rotate", "revoke_device"}
  /\ devices[d].status = "active"
  /\ requests[q].role = "admin" \/ devices[d].owner = requests[q].actor
  /\ Reaches(q, "checked")
  /\ UNCHANGED <<users, invitations, sessions, codes, devices, memberLock>>

\* (mutant) The rotation puts the device back to work.
rotateDeviceTokenReviving(q) ==
  /\ requests[q].step = "checked" /\ requests[q].op = "rotate"
  /\ devices' = [devices EXCEPT ![requests[q].subject].status = "active"]
  /\ End(q)
  /\ UNCHANGED <<users, invitations, sessions, codes, memberLock>>

\* The update names the active device: one that was revoked since stays as it is, and
\* the new token that is answered is good for nothing.
rotateDeviceToken(q) ==
  /\ requests[q].step = "checked" /\ requests[q].op = "rotate"
  /\ End(q)
  /\ UNCHANGED <<users, invitations, sessions, codes, devices, memberLock>>

DevicesRevoked(revoked) ==
  devices' = [d \in DeviceIds |->
                IF d \in revoked /\ devices[d].status = "active"
                  THEN [devices[d] EXCEPT !.status = "revoked"] ELSE devices[d]]
DevicesOf(u) == {d \in DeviceIds : devices[d].owner = u}

revokeDevice(q) ==
  /\ requests[q].step = "checked" /\ requests[q].op = "revoke_device"
  /\ DevicesRevoked({requests[q].subject})
  /\ End(q)
  /\ UNCHANGED <<users, invitations, sessions, codes, memberLock>>

RoutesOfDevices(q, s) ==
  \E d \in DeviceIds, op \in {"rotate", "revoke_device"} :
    Authorize(q, s, "device:manage", op, users[sessions[s].user].role, d)

-----------------------------------------------------------------------------
(* The life of a member.                                                   *)

MemberOps == {"disable", "enable", "role"}

\* (mutant) The administrators are counted without a lock.
lockWorkspaceMembersUnlocked(q) ==
  /\ requests[q].step = "authorised" /\ requests[q].op \in MemberOps
  /\ requests' = [requests EXCEPT ![q].step = "locked", ![q].admins = Cardinality(ActiveAdmins)]
  /\ UNCHANGED <<users, invitations, sessions, codes, devices, memberLock>>

\* The count of the active administrators locks them out until the end.
lockWorkspaceMembers(q) ==
  /\ requests[q].step = "authorised" /\ requests[q].op \in MemberOps
  /\ memberLock = NoOne
  /\ \A u \in ActiveAdmins : ~OwnerLocked(u)
  /\ requests' = [requests EXCEPT ![q].step = "locked", ![q].admins = Cardinality(ActiveAdmins)]
  /\ memberLock' = q
  /\ UNCHANGED <<users, invitations, sessions, codes, devices>>

assertCanLoseAdmin(q) == users[requests[q].subject].role = "admin" => requests[q].admins > 1

\* (mutant) The owner's row is not waited for.
TargetLockedAtOnce(q, op) ==
  /\ requests[q].step = "locked" /\ requests[q].op = op
  /\ users[requests[q].subject].status # "none"

\* lockTargetMember: the row must exist, and whoever holds it is waited for.
TargetLocked(q, op) ==
  /\ requests[q].step = "locked" /\ requests[q].op = op
  /\ users[requests[q].subject].status # "none"
  /\ ~OwnerLocked(requests[q].subject)

disableUserAccount(q) ==
  LET u == requests[q].subject IN
  /\ TargetLocked(q, "disable")
  /\ assertCanLoseAdmin(q)
  /\ users' = [users EXCEPT ![u].status = "disabled"]
  /\ SessionsOver(SessionsOf(u))
  /\ DevicesRevoked(DevicesOf(u))
  /\ End(q) /\ Unlock(q)
  /\ UNCHANGED <<invitations, codes>>

enableUserAccount(q) ==
  /\ TargetLocked(q, "enable")
  /\ users' = [users EXCEPT ![requests[q].subject].status = "active"]
  /\ End(q) /\ Unlock(q)
  /\ UNCHANGED <<invitations, sessions, codes, devices>>

\* Here "role" is the role that is asked for.
changeMemberRole(q) ==
  LET u == requests[q].subject IN
  /\ TargetLocked(q, "role")
  /\ users[u].role # requests[q].role => assertCanLoseAdmin(q)
  /\ users' = [users EXCEPT ![u].role = requests[q].role]
  /\ End(q) /\ Unlock(q)
  /\ UNCHANGED <<invitations, sessions, codes, devices>>

\* Nobody disables the own account; everything else is decided under the lock.
RoutesOfMembers(q, s) ==
  \E u \in UserIds :
    \/ u # sessions[s].user /\ Authorize(q, s, "members:manage", "disable", "readonly", u)
    \/ Authorize(q, s, "members:manage", "enable", "readonly", u)
    \/ \E role \in RolesTried : Authorize(q, s, "members:manage", "role", role, u)

-----------------------------------------------------------------------------
\* A request is refused, or fails, or its server stops: the transaction rolls back.
Refuse(q) ==
  /\ requests[q] # Idle
  /\ End(q) /\ Unlock(q)
  /\ UNCHANGED <<users, invitations, sessions, codes, devices>>

SessionExpires(s) ==
  /\ sessions[s].state = "live"
  /\ SessionsOver({s})
  /\ UNCHANGED <<users, invitations, codes, devices, requests, memberLock>>

Login(q) ==
  \/ \E u \in UserIds : ReadCredentials(q, u)
  \/ \E s \in SessionIds : OpenSession(q, s)

Route(q, s) == RoutesOfInvitations(q, s) \/ RoutesOfDevices(q, s) \/ RoutesOfMembers(q, s)

\* Requests whose one statement reads nothing that another request writes.
AtOnce(s) ==
  \/ revokeSession(s) \/ revokeAllUserSessions(s)
  \/ \E i \in Invitations, email \in InvitedEmails, role \in InvitedRoles :
       createInvitation(s, i, email, role)
  \/ \E k \in Codes : createDevicePairingCode(s, k)

Invite(q) ==
  \/ \E i \in Invitations : StartAcceptance(q, i)
  \/ \E u \in UserIds : acceptInvitation(q, u)
  \/ revokeInvitation(q)

Device(q) ==
  \/ \E k \in Codes : StartPairing(q, k)
  \/ \E d \in DeviceIds : pairDevice(q, d)
  \/ CheckDevice(q) \/ rotateDeviceToken(q) \/ revokeDevice(q)

Member(q) ==
  \/ lockWorkspaceMembers(q)
  \/ disableUserAccount(q) \/ enableUserAccount(q) \/ changeMemberRole(q)

AccessNext ==
  \/ \E u \in UserIds : bootstrapFirstAdmin(u)
  \/ \E q \in Requests :
       \/ Login(q) \/ Invite(q) \/ Device(q) \/ Member(q)
       \/ Refuse(q)
       \/ \E s \in SessionIds : Route(q, s)
  \/ \E s \in SessionIds : AtOnce(s) \/ SessionExpires(s)

AccessSpec == AccessInit /\ [][AccessNext]_vars

-----------------------------------------------------------------------------
(* Properties.                                                             *)

\* The rows are well formed, and a request that holds the locked count is one that
\* changes a member.
AccessTypeOK ==
  /\ users \in [UserIds -> UserRow]
  /\ invitations \in [Invitations -> InvitationRow]
  /\ sessions \in [SessionIds -> SessionRow]
  /\ codes \in [Codes -> CodeRow]
  /\ devices \in [DeviceIds -> DeviceRow]
  /\ requests \in [Requests -> Request \cup {Idle}]
  /\ memberLock \in Requests \cup {NoOne}
  /\ \A q \in Requests : memberLock = q <=> requests[q].step = "locked"

\* Once there is an account, there is an administrator who can log in: whatever
\* administrators do to each other at the same time, with requests that were authorised
\* before they lost the role (members.ts:179).
AlwaysAnAdmin == (\E u \in UserIds : users[u].status # "none") => ActiveAdmins # {}

\* A disabled member has no working device, not even one that was being paired when
\* the account was disabled (members.ts:66, devices.ts:122).
DisabledMembersHaveNoDevice ==
  \A d \in DeviceIds : devices[d].status = "active" => users[devices[d].owner].status = "active"

\* An invitation is spent once: it is not revoked and accepted both, it makes one
\* account, with its own address, and no address has two accounts, although the hashing
\* of the password lies between the check and the insertion (invitations.ts:143).
InvitationsAreSpentOnce ==
  /\ \A i \in Invitations : invitations[i].acceptedBy # NoOne =>
       /\ ~invitations[i].revoked
       /\ users[invitations[i].acceptedBy].status # "none"
       /\ users[invitations[i].acceptedBy].email = invitations[i].email
  /\ \A i, j \in Invitations :
       invitations[i].acceptedBy # NoOne /\ invitations[j].acceptedBy # NoOne /\ i # j
         => invitations[i].acceptedBy # invitations[j].acceptedBy
  /\ \A u, w \in UserIds :
       users[u].status # "none" /\ users[w].status # "none" /\ u # w
         => users[u].email # users[w].email

\* What was taken away stays away: a device that was revoked and a session that is over
\* never work again, whichever request or activation comes after; and a code that made a
\* device makes no other.  "MUST NOT 自动恢复已被撤销的设备授权"
\* (openspec/specs/internal-access-control/spec.md:34).
RevocationIsFinal ==
  [][/\ \A d \in DeviceIds : devices[d].status = "revoked" => devices'[d] = devices[d]
     /\ \A s \in SessionIds : sessions[s].state = "over" => sessions'[s] = sessions[s]
     /\ \A k \in Codes : codes[k].device # NoOne => codes'[k] = codes[k]]_vars

\* Does not hold: a session never outlives a disabling of its owner.  A login that had
\* compared the password before the account was disabled opens its session after it; the
\* session is refused while the account is disabled and works once it is enabled again
\* (sessions.ts:73).
DisabledMembersHaveNoSession ==
  \A s \in SessionIds : sessions[s].state = "live" => users[sessions[s].user].status = "active"
=============================================================================
