SPECIFICATION AccessSpec
CONSTANTS
  u1 = u1
  u2 = u2
  u3 = u3
  e1 = e1
  e2 = e2
  i1 = i1
  i2 = i2
  s1 = s1
  s2 = s2
  q1 = q1
  q2 = q2
  NoOne = NoOne
  UserIds = {u1, u2, u3}
  Emails = {e1, e2}
  AdminEmail = e1
  Invitations = {i1, i2}
  SessionIds = {s1, s2}
  Codes = {k1}
  DeviceIds = {d1}
  Requests = {q1, q2}
  InvitedEmails = {e2}
  InvitedRoles = {"admin"}
  RolesTried = {"admin", "operator"}
INVARIANTS AlwaysAnAdmin DisabledMembersHaveNoDevice InvitationsAreSpentOnce
PROPERTY RevocationIsFinal
SYMMETRY AccessSymmetry
CHECK_DEADLOCK FALSE
