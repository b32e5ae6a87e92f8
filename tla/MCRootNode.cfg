CONSTANTS
    Null = Null
    ca1 = ca1
    ca2 = ca2
    key1 = key1
    key2 = key2
    host1 = host1
    host2 = host2
    MaxTlsId = 1
    MaxFabricIndex = 2
    Certificates = {ca1}
    OversizedCertificates = {}
    Times = {1}
    Validity <- AlwaysValid
    KeyPairs = {key1, key2}
    PublicKey <- IssuedFor
    MaxRootCertificates = 1
    MaxClientCertificates = 1
    MaxIntermediateCertificates = 0
    Hostnames = {host1}
    InvalidHostnames = {}
    Ports = {443}
    MaxProvisioned = 1
    CertificateIds = {0, 1}
    MayCrash = TRUE
SPECIFICATION FairSpec
INVARIANTS
    EndpointCertificatesExist
    OrphansOnlyByCrash
    AttributesAgreeOnline
PROPERTIES
    LiveFabricKeepsCertificates
    RemovedFabricsForgotten
