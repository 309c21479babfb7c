\* At most one approval awaits a routing policy while another is decided: fewer than Batch.
SPECIFICATION FairSpec
CONSTANTS
    f1 = f1
    f2 = f2
    q1 = q1
    p1 = p1
    p2 = p2
    u1 = u1
    u2 = u2
    None = None
    Records = {f1, f2}
    Quotations = {}
    Approvers = {p1, p2}
    Posters = {u1}
    MaxVersion = 1
    Batch = 2
PROPERTIES
    ReviewsClose
    ReviewsAreAssigned
