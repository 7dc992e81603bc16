CONSTANTS
    Visitor = {ann}
    Slot = {s1, s2}
    MaxMessages = 3
    Faults = {}
SPECIFICATION Spec
PROPERTY ArchivedTakesNothing
CHECK_DEADLOCK FALSE
