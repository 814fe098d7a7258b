\* Tables, buffers and sums.
CONSTANTS
    HostAddr <- MCHostAddr
    Mac = {"p", "q"}
    NoMac = "-"
    UIP_ARPTAB_SIZE = 2
    UIP_ARP_MAXAGE = 2
    U8 = 4
    HostConf <- MCHostConf
    RXSTART = 8
    RXSTOP = 15
    ByteSize = 4
    MaxLen = 2
    MaxFrame = 3
    Polite = TRUE
    MaxFrames = 5
    TXSTART = 20
    TXSTOP = 24
    SendLen = {1, 3}
    MaxSent = 3
    Registrations = 4
    Letter = {"x", "_", "-"}
    Stream <- MCStream
    Reads <- MCReads
    READBUF = "readbuf"
    BufSize = 2
    Texts <- MCTexts
    InitialMss = 3
    Window = {0, 2, 4}
    OneSegment = TRUE
    B = 16
    Bytes <- MCBytes
    Numbers <- MCNumbers
    Lengths = {1, 15, 16, 17, 240, 255}
    MaxAcks = 3
    Addr = {"clock", "other"}
    Own = "clock"
    Port = {67, 68}
    UIP_UDP_CONNS = 1
    UdpSums = TRUE
    Us = "us"
    All = "all"
    Host = {"us", "a", "b"}
    Sent <- MCSent
    FWCACHE_SIZE = 2
    FW_TIME = 3
    Year <- MCYear
    Month <- MCMonth
    Day <- MCDay
    Hour <- MCHour
    Minute <- MCMinute
SPECIFICATION TablesSpec
INVARIANTS
    RightEntries
    
    
    ReadsWhatArrived
    SendsTheFrames
    NewestServed
    TextsInOrder
    NumbersRight
    NotForwardedAgain
    OrderIsByTime
PROPERTIES
    
    OldEntriesGo
    RightMail
    
