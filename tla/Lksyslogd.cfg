SPECIFICATION Spec
CONSTANTS
    Outputs = 2
    Lengths = {1, 3}
    Limits = {1, 2}
    Keeps = {0, 1}
    Stamp = 1
    MaxLines = 4
    MaxSignals = 2
    MaxDeaths = 2
INVARIANTS OnlyOldestLost Bounded TornByDeath FirstIsComplete
PROPERTY RollingSpec
