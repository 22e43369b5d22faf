\* The queue is processed again and again, and long enough to hold two broken
\* connections with messages in front of them; no symmetry, as it is unsound
\* for liveness.
CONSTANTS
    Clients = {c1, c2}
    Servers = {s1}
    ClientIds = {i1}
    ServerIds = {j1}
    Links = {1, 2, 3, 4}
    Texts = {text}
    MaxQueue = 5
    None = None
SPECIFICATION FairSpec
PROPERTIES ClientIsFreed ConnectionIsFreed
