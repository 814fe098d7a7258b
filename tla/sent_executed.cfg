\* The command server, with the parts that owe something beside it.
CONSTANTS
    Server <- MCServer
    Pool <- MCPool
    NoAddr = "0"
    NoServer = 0
    DiscoverLimit = 2
    RequestLimit = 1
    MaxRestarts = 1
    Client = {"a", "b"}
    Good = {"a"}
    Srv = "srv"
    N = 2
    Setup <- MCSetup
    UIP_MAXRTX = 2
    UIP_MAXSYNRTX = 1
    UIP_TIME_WAIT_TIMEOUT = 2
    IdleLimit = 2
    MaxIss = 3
    Text <- MCText
    Page <- MCPage
    LineEnd = "nl"
    LineSize = 2
    MaxPages = 2
    Word = 16
    Interval = 3
    MaxLag = 8
SPECIFICATION ServicesSpec
INVARIANTS
    SentIsExecuted
