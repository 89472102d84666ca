SPECIFICATION Spec
CONSTANTS
    Claim = {m1, m2}
    Slot = {s1, s2}
    Units = 2
    MaxRequests = 5
CHECK_DEADLOCK FALSE
SYMMETRY Symmetry
INVARIANTS
    TypeOK
    ClaimsFit
    
