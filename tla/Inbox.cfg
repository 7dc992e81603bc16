\* Two conversations, each with or without messages at the start, and every
\* selection the address may name; two requests in flight besides the one of a
\* reply.  No symmetry: two properties are temporal.
SPECIFICATION FairSpec
CONSTANTS
    Conv = {c1, c2}
    None = None
    MaxCalls = 2
    MaxActs = 2
    MaxEvents = 1
INVARIANTS
    SpinnersHonest
    ShownIsSelectedOrTold
    IInv
PROPERTIES
    DraftKept
    MixedOnlyWhileLoading
    ListCatchesUp
    ComposerReturns
