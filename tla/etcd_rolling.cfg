SPECIFICATION FairSpec
CONSTANTS
    Nodes = {n1, n2, n3, n4}
    Clusters = {c1, c2}
    None = None
    Matches <- Distinct
    Rolling = TRUE
    Fails = {"etcd", "machine"}
    Outvotes = TRUE
    Slow = {"founds", "joins", "resumes"}
    MayMiss = TRUE
CONSTRAINT NoFault
INVARIANT SplitNeedsFault
INVARIANT LossNeedsFault
INVARIANT DuplicateNeedsFault
PROPERTY EveryNodeJoins
