\* Every reply may be lost and every instance may crash or be forced to stop:
\* keys left behind.
SPECIFICATION FairSpec
CONSTANTS
    Instances = {i1, i2}
    Handlers = {h1, h2}
    Keys = {k1}
    ConnTTL = 3
    MaxGap = 1
    MaxRetries = 1
    LoseReplies = {"SET", "DEL"}
    Shutdowns = {"graceful", "forced"}
    MaxLag = 1
    NoOwner = NoOwner
    NoKey = NoKey
INVARIANTS SweepsOwnOrNew
PROPERTIES GhostKeysExpire ShutdownEnds
