CONSTANTS
    MaxZoom = 6
    MaxInflight = 2

SPECIFICATION Spec

INVARIANT TypeOK
INVARIANT StoredMatchesPage
INVARIANT RestartKeepsForwarding
