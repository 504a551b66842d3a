CONSTANTS
    None = None
    PaymentIds = {p1, p2}
    CoinIds = {c1, c2}
    ReviewSlots = {1}
    Flows = {f1}
    Gap = 1
    MaxIndex = 2
SPECIFICATION Spec
SYMMETRY Symmetry
INVARIANT HandedOutIsDurable
