CONSTANTS
    Null = Null
    host1 = host1
    tooLong = tooLong
    MaxTlsId = 2
    MaxFabricIndex = 2
    Hostnames = {host1, tooLong}
    InvalidHostnames = {tooLong}
    Ports = {0, 80, 443}
    MaxProvisioned = 2
    CertificateIds = {1}
SPECIFICATION SpecTlsClientManagement
INVARIANTS
    EndpointsTypeOK
    EndpointIdsUnique
    AddressesUnique
PROPERTY
    OnlyNamedEndpointsChange
