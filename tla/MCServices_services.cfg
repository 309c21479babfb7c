\* Parties: three requests, two at a time, over two organisations and two people.
\* Documents: two of the same content, with failures.  The others: the smallest sets
\* in which two requests about one row overlap, and a third comes later.
\* The two requests of every component have the same names, which may be exchanged.
SPECIFICATION ServicesSpec
CONSTANTS
    o1 = o1  o2 = o2  q1 = q1  q2 = q2
    c1 = c1  c2 = c2  d1 = d1  f1 = f1
    v1 = v1  v2 = v2
    NoRow = NoRow
    PartyIds = {o1, o2, q1, q2}
    Kind <- MCKind
    Name <- MCName
    Roles = {"SUPPLIER"}
    Statuses = {"ACTIVE", "BLOCKED"}
    ContactIds = {c1, c2, c3}
    Values = {v1, v2}
    PlaceIds = {d1, d2}
    AffiliationIds = {f1, f2}
    Clerks = {k1, k2}
    MaxRequests = 3
    Given <- MCGiven
    DocumentIds = {t1, t2}
    ContentOf <- MCContent
    Dates = {1}
    Users = {u1, u2}
    Faults = TRUE
    MaxUploads = 2
    MaxUpdates = 1
    NoDocument = NoDocument
    Keys = {k1, k2}
    Fingerprints = {"post", "export"}
    ExportOf <- MCExportOf
    Pages = {1, 2}
    Clients = {b1, b2}
    MaxServed = 3
    NoResult = NoResult
    Authorizations = {a1, a2}
    Deducted = {w1, w2}
    LastDay = 2
    Accountants = {k1, k2}
    NoEntry = NoEntry
    bill = bill  expense = expense  advance = advance  tax = tax
    pay1 = pay1  pay2 = pay2  refund1 = refund1  refund2 = refund2  fund = fund
    back = back  cleared = cleared  settle = settle  remit1 = remit1  remit2 = remit2
    Records = {bill, expense, advance, tax, pay1, pay2, refund1, refund2, fund, back,
               cleared, settle, remit1, remit2}
    KindOf <- MCKinds
    AmountOf <- MCAmounts
    TargetOf <- MCTargets
    CostOf <- MCCosts
    Plans <- MCPlans
    MaxTax = 2
    NoCost = NoCost
    Rows = {1, 2, 3}
    KeyOf <- MCKeyOf
    OwnerOf <- MCOwner
    Calls <- MCCalls
    Disabled = {"u2"}
    Handlers = {k1, k2}
    MaxNotify = 2
    MaxInbox = 2
    NoNote = NoNote
    s1 = s1  s2 = s2  s3 = s3  h1 = h1  h2 = h2
    Staff = {s1, s2, s3}
    Departments = {h1, h2}
    RoleSets <- MCRoleSets
    FirstProfile <- MCProfiles
    Administrators = {k1, k2}
    MaxChanges = 2
    MaxBatches = 1
    MaxComments = 1
    NoOne = NoOne
    AuditRows = {"j1", "j2"}
    AuditRowOf <- MCAuditRows
    SummariesAsked <- MCSummaries
    WindowOf <- MCWindows
    ThresholdOf <- MCThresholds
    MaxAgeOf <- MCMaxAges
    Repeated = 2
    Many = 2
    Readers = {y1}
    LastInstant = 2
    NoSummary = NoSummary
    Holders = {z1}
    Codes = {x1, x2}
    Logins = {1, 2}
    Renewals = 1
    Servers = {k1, k2}
    NoCodeRow = NoCodeRow
    ReminderIds = {m1}
    NoticeIds = {1, 2, 3}
    Askers = {k1, k2}
    LastMoment = 2
    NoReminder = NoReminder
INVARIANTS
    MergeFits SurvivorStands ActiveHasFile
    OncePerKey ExportsComplete AuthorizedOnce AccountedFor CancelledStaysHidden
    ManagersFindTasks CirclesNeedRaces
    DetailsWithinTotal LogoutIsWhole NoticeMatchesReminder
PROPERTIES
    MergeLosesNothing SpentStaysSpent
SYMMETRY Symmetry
CHECK_DEADLOCK FALSE
