\* One client that does not give up: tickets and keys that outlive a window, lost
\* replies, crashes.
SPECIFICATION FairSpec
CONSTANTS
    Clients = {c1}
    IPs = {ip1}
    Requests = {r1}
    Attempts = {a1}
    Limit = 1
    Window = 1
    TicketTTL = 2
    Faults = {"redis", "reply"}
    NoTicket = NoTicket
    Instances = {i1, i2}
    Handlers = {h1, h2}
    ConnTTL = 2
    MaxGap = 1
    LoseReplies = {"SET", "DEL"}
    NoOwner = NoOwner
    NoKey = NoKey
    MaxRetries = 0
    MaxHits = 2
INVARIANTS TypeOK
PROPERTIES Readmitted
