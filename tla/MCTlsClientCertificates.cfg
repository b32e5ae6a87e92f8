CONSTANTS
    Null = Null
    a1 = a1
    a2 = a2
    b1 = b1
    pem = pem
    big = big
    key1 = key1
    key2 = key2
    key3 = key3
    key4 = key4
    MaxTlsId = 2
    MaxFabricIndex = 2
    Certificates <- ClientCertificates
    OversizedCertificates = {}
    Times = {1, 2}
    Validity <- ClientValidity
    KeyPairs = {key1, key2, key3, key4}
    PublicKey <- IssuedFor
    MaxRootCertificates = 0
    MaxClientCertificates = 2
    MaxIntermediateCertificates = 1
SPECIFICATION SpecTlsCertificateManagement
INVARIANTS
    CertificatesTypeOK
    CcdidsUnique
    ClientCertificatesWithinLimit
    ClientLookupIsExact
    ClientCertificateMatchesKey
    AttributesAgreeWithFind
PROPERTIES
    RotationKeepsKeyAndCertificate
    ImplementsClientCredentials
