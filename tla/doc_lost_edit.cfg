SPECIFICATION Spec
CONSTANTS
    Ticket <- Single
    Manifest <- RetriedManifest
    NoTicket = NoTicket
    Faults <- NoFaults
    Dirty = {}
    Revisited = {}
    MaxHead = 1
PROPERTIES NoEditIsLost
CHECK_DEADLOCK FALSE
