SPECIFICATION Spec
CONSTANTS
    u1 = u1
    u2 = u2
    m1 = m1
    m2 = m2
    Uris <- MCUris
    Wild <- MCWild
    MapperNames <- MCMapperNames
    Clients <- MCClients
INVARIANTS
    RefreshIsKept
\* One client, then the behaviour ends.
CHECK_DEADLOCK FALSE
