\* One worker; a hook that dies leaves a broken event file.
SPECIFICATION LiveSpec
CONSTANTS
    daemon = daemon
    Workers = {daemon}
    Events = {1, 2}
    MaxAttempts = 3
    MaxMems = 1
    MaxTries = 3
    MaxFaults = 0
    NoFp = NoFp
    NoEvent = NoEvent
    Absent = Absent
    Empty = Empty
    Garbled = Garbled
PROPERTIES NoEventBlocked
