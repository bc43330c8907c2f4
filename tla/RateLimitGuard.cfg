SPECIFICATION LimiterSpec
CONSTANTS
    c1 = c1
    c2 = c2
    Clients <- MCClients
    WindowMs = 2
    MaxRequests = 2
    BucketMaxSize = 1
    Horizon = 8
PROPERTIES
    MapStaysFresh
    ImplementsFixedWindow
