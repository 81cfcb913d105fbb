SPECIFICATION Spec
CONSTANTS
    Nodes = {n1, n2}
    Clusters = {c1}
    None = None
    Matches <- Distinct
    Rolling = TRUE
    Fails = {"etcd"}
    Slow = {"resumes"}
    MayMiss = FALSE
    Outvotes = FALSE
SYMMETRY Symmetry
PROPERTY OnlyJoinersAreWiped
