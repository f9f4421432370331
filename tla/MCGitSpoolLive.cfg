\* One worker, two events, one fault.
SPECIFICATION LiveSpec
CONSTANTS
    daemon = daemon
    Workers = {daemon}
    Events = {1, 2}
    MaxAttempts = 3
    MaxMems = 2
    MaxTries = 6
    MaxFaults = 1
    NoFp = NoFp
    NoEvent = NoEvent
    Absent = Absent
    Empty = Empty
    Garbled = Garbled
INVARIANTS RetriesBounded SavedStateLoads
PROPERTIES SummaryWhole EventsSettle
