\* Two clients, two servers, two identifiers for each, and any call of the
\* program between two tasks of the queue.
CONSTANTS
    Clients = {c1, c2}
    Servers = {s1, s2}
    ClientIds = {i1, i2}
    ServerIds = {j1, j2}
    Links = {1, 2, 3, 4, 5, 6, 7}
    Texts = {text}
    MaxQueue = 3
    None = None
SYMMETRY ObjectSymmetry
SPECIFICATION Spec
INVARIANTS TypeOK ConnectedInPairs EveryChannelHeldOnce DisconnectScheduledOnce
    MessagesBeforeDisconnect EndsAgree RegistriesExact ClosedServerHasNoConnection
