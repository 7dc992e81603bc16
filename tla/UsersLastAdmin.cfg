CONSTANTS
    Email = {ann, bob}
    Slot = {s1, s2}
    MaxId = 2
SPECIFICATION Spec
PROPERTY AdminSurvives
CHECK_DEADLOCK FALSE
