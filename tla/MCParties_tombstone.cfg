\* A stale PATCH of a party that is merged meanwhile.
SPECIFICATION Spec
CONSTANTS
    o1 = o1  o2 = o2  q1 = q1  q2 = q2
    c1 = c1  c2 = c2  d1 = d1  f1 = f1
    v1 = v1  v2 = v2
    NoRow = NoRow
    PartyIds = {o1, o2, q1, q2}
    Kind <- MCKind
    Name <- MCName
    Roles = {"SUPPLIER"}
    Statuses = {"ACTIVE", "BLOCKED"}
    ContactIds = {c1, c2, c3}
    Values = {v1, v2}
    PlaceIds = {d1, d2}
    AffiliationIds = {f1, f2}
    Clerks = {k1, k2}
    MaxRequests = 2
    Given <- MCGiven
PROPERTY MergedIsFinal
CHECK_DEADLOCK FALSE
