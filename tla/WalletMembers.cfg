CONSTANTS
  u1 = u1
  u2 = u2
  u3 = u3
  r1 = r1
  r2 = r2
  Users = {u1, u2, u3}
  Creator = u1
  Requests = {r1, r2}
  MaxInvites = 3
  SentScopes = {"all"}
  MaxRequests = 5
  Nobody = Nobody
SPECIFICATION Spec
SYMMETRY Alike
CHECK_DEADLOCK FALSE
INVARIANTS OneOwner ExMembersSeeOwn NoticeAgreesWithMembership
PROPERTIES SharedStartsWithNoScopes
