\* Two daemons and two clients; one stop and one fault in all.
SPECIFICATION LiveSpec
CONSTANTS
    Daemons = {d1, d2}
    Clients = {c1, c2}
    Nobody = Nobody
    MaxStops = 1
    MaxFaults = 1
INVARIANTS TypeOK SocketServed AckedKept
PROPERTIES CallsAnswered StopEnds ServiceReturns
