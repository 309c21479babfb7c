\* Records, a quotation and two post requests; any intent may be processed next.
SPECIFICATION Spec
CONSTANTS
    f1 = f1
    f2 = f2
    q1 = q1
    p1 = p1
    p2 = p2
    u1 = u1
    u2 = u2
    None = None
    Records = {f1, f2}
    Quotations = {q1}
    Approvers = {p1}
    Posters = {u1, u2}
    MaxVersion = 2
    Batch = 2
SYMMETRY Symmetry
INVARIANTS
    OnePosting
    PostedAsApproved
    OpenReviewIsExpected
