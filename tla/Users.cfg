\* Three addresses, ids that come back, two requests at a time.
CONSTANTS
    Email = {ann, bob, eve}
    Slot = {s1, s2}
    MaxId = 3
SPECIFICATION Spec
SYMMETRY Symmetry
INVARIANTS
    OneAccountEach
    IInv
PROPERTIES
    AdminLostOnlyByRace
    PasswordStraysOnlyByRace
    ManagedByAdmins
\* The table can be left with no admin and no usable password: nothing moves then.
CHECK_DEADLOCK FALSE
