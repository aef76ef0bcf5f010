SPECIFICATION Spec
CONSTANTS
    c1 = c1
    c2 = c2
    hub = hub
    dongle = dongle
    Contexts = {c1, c2}
    Sessions = {hub, dongle}
    Dongles = {dongle}
    ParentOf <- MCParentOf
    ByPath = {c1}
    Initially = {hub}
    MaxDevices = 2
    MaxChanges = 2
    NoOne = NoOne
INVARIANT GoneDetached
CHECK_DEADLOCK FALSE
