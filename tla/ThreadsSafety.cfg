\* Two visitors, two handlers at a time, three messages.  Nothing fails here;
\* the interleavings of the handlers are the subject.
CONSTANTS
    Visitor = {ann, bob}
    Slot = {s1, s2}
    MaxMessages = 3
    Faults = {}
SPECIFICATION Spec
SYMMETRY Symmetry
INVARIANTS
    UnreadUntilShown
    LastActivityIsNewest
    OneOpenThread
    LinkOnlyToOwner
PROPERTY
    ArchivedTakesOnlyRacing
\* Everything stops at MaxMessages once the desk is quiet.
CHECK_DEADLOCK FALSE
