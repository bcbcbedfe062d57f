CONSTANTS
    MaxU64 = 5
    MaxClock = 1
    MaxOffset = 4
    Times = {1, 3}
    Steps = {2}
    None = None
SPECIFICATION Spec
PROPERTY ExactIncreases
