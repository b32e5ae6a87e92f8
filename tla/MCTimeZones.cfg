CONSTANTS
    Null = Null
    node1 = node1
    ipv6 = ipv6
    domain = domain
    invalid = invalid
    cet = cet
    MaxTime = 3
    MaxHandlerDelay = 1
    Zones <- TwoZones
    DstOffsets = {0, 1}
    TimeZoneListMaxSize = 2
    DstOffsetListMaxSize = 1
    TimeSources = {node1}
    NtpAddresses = {ipv6, domain, invalid}
    CanonicalIpv6 = {ipv6}
    DomainNames = {domain}
    SupportsDnsResolve = FALSE
    MaxFabricIndex = 1
    MayRestart = TRUE
SPECIFICATION FairSpec
INVARIANTS
    TimeTypeOK
    SynchronizedOnline
    TablesReported
PROPERTY
    ScheduledTimeZoneApplied
