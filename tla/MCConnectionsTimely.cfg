\* Renewals arrive in time; replies of SET may be lost, those of DEL may not;
\* instances crash, or shut down once their handlers have ended.
SPECIFICATION Spec
CONSTANTS
    Instances = {i1, i2}
    Handlers = {h1, h2, h3}
    Keys = {k1, k2}
    ConnTTL = 3
    MaxGap = 2
    MaxRetries = 1
    LoseReplies = {"SET"}
    Shutdowns = {"graceful"}
    MaxLag = 0
    NoOwner = NoOwner
    NoKey = NoKey
SYMMETRY Symmetry
INVARIANTS TypeOK OneStream StreamHoldsKey SweptClean
PROPERTIES ImplementsLease
