CONSTANTS
    Null = Null
    node1 = node1
    ipv6 = ipv6
    domain = domain
    invalid = invalid
    cet = cet
    MaxTime = 3
    MaxHandlerDelay = 1
    Zones <- OnlyUtc
    DstOffsets = {0, 1}
    TimeZoneListMaxSize = 2
    DstOffsetListMaxSize = 2
    TimeSources = {}
    NtpAddresses = {}
    CanonicalIpv6 = {ipv6}
    DomainNames = {domain}
    SupportsDnsResolve = FALSE
    MaxFabricIndex = 1
    MayRestart = FALSE
SPECIFICATION Spec
INVARIANTS
    AtMostOneDstValid
PROPERTY
    DstStatusAccurate
