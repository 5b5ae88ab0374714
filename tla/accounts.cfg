SPECIFICATION Spec
CONSTANTS
    u1 = u1
    u2 = u2
    r1 = r1
    r2 = r2
    Nobody = Nobody
    Users = {u1, u2}
    Requests = {r1, r2}
    MaxOps = 5
INVARIANTS
    AdminRemains
    RevocationIsFinal
    OneSessionPerChain
    SecretsAreHonoured
PROPERTIES
    SetupIsTheFirst
SYMMETRY Symmetry
CHECK_DEADLOCK FALSE
