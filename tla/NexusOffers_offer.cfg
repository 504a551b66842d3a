CONSTANTS
    None = None
    Requests = {r1}
    Buyer = b
    Owners = {s1, s2}
    Amounts = {1, 2}
SPECIFICATION Spec
INVARIANTS
    TypeOK
    OutcomeIsTold
PROPERTIES
    ExpiresForGood
    RelistedAsAgreed
