SPECIFICATION Spec
CONSTANTS
    Workers = {w1, w2}
    Instances = {i1}
    Bindings = {b1, b2}
    MaxKeys = 2
    MaxLate = 1
    Serialised = FALSE
    None = None
SYMMETRY Symmetry
INVARIANT TypeOK
INVARIANT CredentialScope
PROPERTY RevokedOnlyOnRequest
