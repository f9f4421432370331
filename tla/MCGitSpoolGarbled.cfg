\* Two workers that save the state at the same time.
SPECIFICATION Spec
CONSTANTS
    daemon = daemon
    scan = scan
    Workers = {daemon, scan}
    Events = {1, 2}
    MaxAttempts = 2
    MaxMems = 1
    MaxTries = 2
    MaxFaults = 0
    NoFp = NoFp
    NoEvent = NoEvent
    Absent = Absent
    Empty = Empty
    Garbled = Garbled
INVARIANTS SavedStateLoads
