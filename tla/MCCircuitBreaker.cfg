\* Two overlapping calls and two resets.
CONSTANTS
    Calls = {c1, c2}
    Threshold = 2
    ProbeCount = 2
    OpenDuration = 2
    MaxResets = 2
SPECIFICATION BreakerFairSpec
INVARIANT PermitsDoNotAccumulate
INVARIANT OpenIsTimed
PROPERTY HalfOpenEnds
