\* setChannel stores a channel whose other end the server has deleted.
CONSTANTS
    Clients = {c1, c2}
    Servers = {s1}
    ClientIds = {i1}
    ServerIds = {j1}
    Links = {1, 2, 3, 4}
    MaxQueue = 4
    Texts = {text}
    None = None
SPECIFICATION Spec
PROPERTY ConnectedHandlerMeansConnected
