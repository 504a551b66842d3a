CONSTANTS
    None = None
    Origins = {o1, o2}
    Requests = {r1, r2}
    Windows = {w1, w2}
    Panels = {p1, p2}
    Ids = {a1, a2}
    MaxApprovals = 2
    MaxGeneration = 3
SPECIFICATION Spec
SYMMETRY Symmetry
INVARIANTS
    TypeOK
    ApprovalsEndWithSession
    PanelsShowPending
    NoApprovalIsLost
    QueuesAdvance
    ShownInItsWindow
PROPERTY ExpiredNeverApproves
