\* OKX alone: one node, no faults.
CONSTANTS
    Node = {n1}
    Venue = {"okx"}
    NoNode = NoNode
    Interval = 6
    SweepInterval = 3
    SweepTime = 1
    NotDueBefore = 5
    Cooldown = 24
    MaxTime = 12
    MaxFaults = 0
SPECIFICATION Spec
INVARIANT OnlySettledStored
CHECK_DEADLOCK FALSE
