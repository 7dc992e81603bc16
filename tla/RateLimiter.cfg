\* A burst of two in a window of three ticks, two ticks to a second, a sweep
\* every three ticks: fractions of a token, refused requests, refilled and
\* swept buckets and two sweeps all occur within the clock's bound.
SPECIFICATION Spec
CONSTANTS
    Key = {k1, k2}
    Burst = 2
    Window = 3
    BucketTTL = 3
    Second = 2
    MaxTime = 6
SYMMETRY Symmetry
INVARIANTS RateBound IInv
PROPERTIES RetryIsHonoured KeepsQuota
