\* A daemon, a client and a stop; nothing fails.
SPECIFICATION Spec
CONSTANTS
    Daemons = {d1}
    Clients = {c1}
    Nobody = Nobody
    MaxStops = 1
    MaxFaults = 0
INVARIANTS SearchableAtStop
