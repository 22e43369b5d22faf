\* ConnectionMock::connected is true until the DisconnectTask has run.
CONSTANTS
    Clients = {c1, c2}
    Servers = {s1}
    ClientIds = {i1}
    ServerIds = {j1}
    Links = {1, 2, 3, 4}
    MaxQueue = 4
    Texts = {text}
    None = None
SPECIFICATION Spec
INVARIANT ServerConnectionIsActive
