SPECIFICATION Spec
CONSTANTS
    Workers = {w1, w2}
    Instances = {i1, i2}
    Bindings = {b1, b2}
    MaxKeys = 2
    MaxLate = 0
    Serialised = TRUE
    None = None
SYMMETRY Symmetry
INVARIANT TitlesFindKeys
INVARIANT FreshCredentialWorks
PROPERTY ContractSpec
