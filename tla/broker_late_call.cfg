SPECIFICATION Spec
CONSTANTS
    Workers = {w1}
    Instances = {i1}
    Bindings = {b1}
    MaxKeys = 2
    MaxLate = 1
    Serialised = TRUE
    None = None
SYMMETRY Symmetry
INVARIANT UnboundCredentialIsDead
