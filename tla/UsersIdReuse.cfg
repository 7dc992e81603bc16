CONSTANTS
    Email = {ann, bob, eve}
    Slot = {s1, s2}
    MaxId = 3
SPECIFICATION Spec
INVARIANT PasswordStaysOwn
CHECK_DEADLOCK FALSE
