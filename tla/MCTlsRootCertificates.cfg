CONSTANTS
    Null = Null
    a1 = a1
    a2 = a2
    b1 = b1
    pem = pem
    big = big
    key1 = key1
    key2 = key2
    key3 = key3
    key4 = key4
    MaxTlsId = 4
    MaxFabricIndex = 2
    Certificates <- RootCertificates
    OversizedCertificates = {big}
    Times = {1, 2}
    Validity <- RootValidity
    KeyPairs = {}
    PublicKey <- NoKey
    MaxRootCertificates = 2
    MaxClientCertificates = 0
    MaxIntermediateCertificates = 0
SPECIFICATION SpecTlsCertificateManagement
INVARIANTS
    CaidsUnique
    RootLookupIsExact
    AllocatorNeverExhausted

