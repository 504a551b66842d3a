CONSTANTS
    None = None
    Dapps = {d1}
    Views = {v1, v2}
    Commits = {c1, c2}
    Overlap = FALSE
SPECIFICATION Spec
INVARIANT TypeOK
PROPERTIES
    SavedCommitStays
    RecoverySignsWhatItsSessionReviewed
    FlagIsReleased
