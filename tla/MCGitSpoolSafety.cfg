\* The daemon and a scan-once that overlaps it, one event, two faults.
SPECIFICATION Spec
CONSTANTS
    daemon = daemon
    scan = scan
    Workers = {daemon, scan}
    Events = {1}
    MaxAttempts = 3
    MaxMems = 2
    MaxTries = 3
    MaxFaults = 2
    NoFp = NoFp
    NoEvent = NoEvent
    Absent = Absent
    Empty = Empty
    Garbled = Garbled
SYMMETRY Symmetry
INVARIANTS TypeOK
PROPERTIES SpoolDelivers
