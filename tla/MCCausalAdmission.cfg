CONSTANTS
    Pages = {main}
    Requests = {r1, r2}
    read = read
    boot = boot
    Proven <- MCProven
    Exempt <- MCExempt
    Covers <- MCCovers
    MaxGenerations = 3
    MaxOpen = 16
    MaxRearms = 1
    MaxUnits = 1
    MaxTickets = 1
SPECIFICATION FairAdmission
INVARIANTS
    NoLeakedAuthority
    TicketedAreForwarded
PROPERTIES
    WindowEnds
