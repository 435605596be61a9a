\* A handler goes ConnTTL ticks without a renewal.
SPECIFICATION Spec
CONSTANTS
    Instances = {i1}
    Handlers = {h1, h2}
    Keys = {k1}
    ConnTTL = 2
    MaxGap = 2
    MaxRetries = 0
    LoseReplies = {}
    Shutdowns = {}
    MaxLag = 0
    NoOwner = NoOwner
    NoKey = NoKey
INVARIANTS OneStream
