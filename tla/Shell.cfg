SPECIFICATION ShellSpec
CONSTANTS
    Profiles = {g1, g2}
    Admin = Admin
    None = None
    Configured = TRUE
    MaxEntries = 5
SYMMETRY Symmetry
INVARIANTS
    GuideLeadsOn
    CallerKept
    SessionConsistent
