CONSTANTS
    None = None
    Dapps = {d1}
    Views = {v1}
    Commits = {c1, c2}
    Overlap = FALSE
SPECIFICATION Spec
SYMMETRY Symmetry
INVARIANT SavedIsRecoverable
