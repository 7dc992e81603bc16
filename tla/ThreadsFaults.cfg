\* Crashes, failing store calls, failing mails and clients that go away.
CONSTANTS
    Visitor = {ann, bob}
    Slot = {s1, s2}
    MaxMessages = 2
    Faults = {"crash", "store", "mail", "client"}
SPECIFICATION Spec
SYMMETRY Symmetry
INVARIANT IInv
PROPERTIES
    KeepsPromise
    KeepsShelf
CHECK_DEADLOCK FALSE
