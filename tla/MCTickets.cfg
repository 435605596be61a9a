\* Tickets re-issued, repeated and presented from both IPs; three requests for
\* one place in a window, so windows that follow each other.
SPECIFICATION Spec
CONSTANTS
    Clients = {c1}
    IPs = {ip1, ip2}
    Requests = {r1, r2, r3}
    Attempts = {a1, a2}
    Limit = 1
    Window = 3
    TicketTTL = 3
    MaxRetries = 1
    Faults = {"redis", "reply"}
    NoTicket = NoTicket
SYMMETRY Symmetry
INVARIANTS TypeOK SingleUse WindowLimit TwoWindows
