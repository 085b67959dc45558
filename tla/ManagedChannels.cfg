SPECIFICATION Spec
CONSTANTS
    Requests = {q1, q2}
    ConnectionKeys = {k1, k2, k3}
    NoKey = NoKey
    NoRequest = NoRequest
    Typed <- MCTyped
    MaxBegun = 5
CHECK_DEADLOCK FALSE
SYMMETRY Symmetry
CONSTRAINT Claimed
INVARIANTS NoForgottenRoute LiveHasRoute
