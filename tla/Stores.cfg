CONSTANTS
    Providers = {p1, p2}
    Models = {m1}
    Listed <- MCListed
    OAuthOf = {p1}
    Detectable = {p2}
    Users = {u1, u2}
    Sessions = {s1, s2}
    MaxOps = 3
    MaxFlips = 1
    Rotates = TRUE
    TypedKey = TypedKey
    NULL = NULL
    p1 = p1
SPECIFICATION Spec
SYMMETRY Symmetry
INVARIANTS
    KeysResolve
    TokensAccepted
    
CHECK_DEADLOCK FALSE
