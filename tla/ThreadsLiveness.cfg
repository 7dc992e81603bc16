\* What must eventually happen when nothing fails.  No symmetry: the
\* properties are temporal.
CONSTANTS
    Visitor = {ann}
    Slot = {s1, s2}
    MaxMessages = 2
    Faults = {}
SPECIFICATION FairSpec
PROPERTIES
    OperatorsToldOfEach
    OwnerGetsLink
    UnreadIsCleared
CHECK_DEADLOCK FALSE
