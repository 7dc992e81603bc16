SPECIFICATION Spec
CONSTANTS
    Conv = {c1, c2}
    None = None
    MaxCalls = 2
    MaxActs = 2
    MaxEvents = 1
INVARIANT DraftSentToOwn
