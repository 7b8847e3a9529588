SPECIFICATION FairSpec
CONSTANTS
    Peer = {paired, stranger}
    Source = {s1}
    Conn = {c1, c2}
    MaxHandshakes = 1
    MaxHandlers <- OneHandlerEach
    MaxPerPeer = 1
    MaxPerSource = 1
INVARIANTS
    TypeOK
    PermitsConserved
PROPERTIES
    StrangersLeave
