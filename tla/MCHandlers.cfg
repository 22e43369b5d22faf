CONSTANTS
    Clients = {c1}
    Servers = {s1}
    ClientIds = {i1}
    ServerIds = {j1}
    Links = {1, 2, 3}
    Texts = {text}
    MaxQueue = 3
    Handlers = {1, 2, 3, 4}
    None = None
SPECIFICATION HandlersSpec
INVARIANTS HandlersOwnedOnce ChannelsCallLastHandler
