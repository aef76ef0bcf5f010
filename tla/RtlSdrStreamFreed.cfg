SPECIFICATION Spec
CONSTANTS
    BufNum = 2
    Faults = {}
INVARIANT FreedIdle
