CONSTANTS
    Visitor = {ann}
    Slot = {s1, s2}
    MaxMessages = 3
    Faults = {"mail"}
SPECIFICATION Spec
PROPERTY SilentAppendHasLink
CHECK_DEADLOCK FALSE
