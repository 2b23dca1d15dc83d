\* One request at a time.  The project's ids run out and the system rests.
SPECIFICATION Spec
CONSTANTS
    None = None
    b0 = b0
    b1 = b1
    Slots = {s1}
    ProjectIds = {p1}
    EventIds = {e1}
    Authors = {u1}
    Bodies = {b0, b1}
    NoBody = b0
    Customers = {c1}
    Patches <- MCPatches
PROPERTY CapturedThumbnailStays
CHECK_DEADLOCK FALSE
