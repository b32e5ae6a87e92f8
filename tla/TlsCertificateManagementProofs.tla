------------------- MODULE TlsCertificateManagementProofs -------------------
(***************************************************************************)
(* The certificate store is safe for every number of fabrics, certificates *)
(* and ids.  CertificateInvariant is inductive: the types, the uniqueness  *)
(* of the ids, and of the private keys because each stored key was once    *)
(* generated and a key pair is generated only once.                        *)
(***************************************************************************)
EXTENDS TlsCertificateManagement, FilteringProofs

(***************************************************************************)
(* allocateId, which tlsClientManagementServer.ts imports from this server *)
(***************************************************************************)

\* Every id is the candidate of some iteration of the loop.
LEMMA CandidateCovers ==
    ASSUME NEW next \in TlsIds, NEW id \in TlsIds
    PROVE  \E i \in TlsIds : Candidate(next, i) = id
<1> USE TlsIdsAssumption DEF TlsIds
<1>1. CASE id >= next
  <2>0. id - next \in TlsIds
    BY <1>1
  <2>1. next + (id - next) = id
    OBVIOUS
  <2>2. id % (MaxTlsId + 1) = id
    OBVIOUS
  <2> QED BY <2>0, <2>1, <2>2 DEF Candidate
<1>2. CASE id < next
  <2> DEFINE i == id - next + (MaxTlsId + 1)
  <2>0. i \in TlsIds
    BY <1>2
  <2>1. next + i = id + (MaxTlsId + 1)
    OBVIOUS
  <2>2. (id + (MaxTlsId + 1)) % (MaxTlsId + 1) = id
    OBVIOUS
  <2> HIDE DEF i
  <2> QED BY <2>0, <2>1, <2>2 DEF Candidate
<1> QED BY <1>1, <1>2

\* allocateId returns a valid id that is not in use, whatever the next id is:
\* the loop visits every id once before it gives up.
LEMMA AllocateIdFresh ==
    ASSUME NEW used, NEW next \in TlsIds, ~IdsExhausted(used)
    PROVE  AllocateId(used, next) \in TlsIds \ used
<1> DEFINE free  == {i \in TlsIds : Candidate(next, i) \notin used}
           first == CHOOSE i \in free : \A j \in free : i <= j
<1>1. free # {}
  <2>1. PICK id \in TlsIds : id \notin used
    BY DEF IdsExhausted
  <2>2. PICK i \in TlsIds : Candidate(next, i) = id
    BY CandidateCovers
  <2> QED BY <2>1, <2>2
<1>2. \E i \in free : \A j \in free : i <= j
  <2>1. free \subseteq Nat
    BY TlsIdsAssumption DEF TlsIds
  <2> QED BY <1>1, <2>1, LeastElement
<1>3. first \in free
  BY <1>2
<1>4. Candidate(next, first) \in TlsIds
  <2>1. first \in Nat /\ next \in Nat /\ MaxTlsId \in Nat
    BY <1>3, TlsIdsAssumption DEF TlsIds
  <2> HIDE DEF first
  <2> QED BY <2>1 DEF Candidate, TlsIds
<1>5. Candidate(next, first) \notin used
  BY <1>3
<1> QED BY <1>4, <1>5 DEF AllocateId

\* The id after a valid id is a valid id: the increment wraps.
LEMMA IdAfterValid ==
    ASSUME NEW id \in TlsIds PROVE IdAfter(id) \in TlsIds
  BY TlsIdsAssumption DEF TlsIds, IdAfter

(***************************************************************************)
(* The inductive invariant                                                 *)
(***************************************************************************)

KeysWereGenerated == \A entry \in clientCertificateStore : entry.privateKey \in generatedKeys

StoresTypeOK ==
    /\ rootCertificateStore \subseteq RootCertificateEntry
    /\ clientCertificateStore \subseteq ClientCertificateEntry
    /\ nextCaid \in TlsIds
    /\ nextCcdid \in TlsIds
    /\ generatedKeys \subseteq KeyPairs

AttributesMirrorStores ==
    /\ provisionedRootCertificates = RootCertificatesOf(rootCertificateStore)
    /\ provisionedClientCertificates = ClientCertificatesOf(clientCertificateStore)

StoreInvariant ==
    /\ StoresTypeOK
    /\ CaidsUnique
    /\ CcdidsUnique
    /\ RootLookupIsExact
    /\ ClientLookupIsExact
    /\ KeysWereGenerated
    /\ PrivateKeysDistinct
    /\ ClientCertificateMatchesKey

CertificateInvariant == StoreInvariant /\ AttributesMirrorStores

\* What the server does next to a TLS Client Management server with these endpoints:
\* the lemmas about it serve the server alone, without endpoints, and the Root Node.
ServerStep(endpoints) ==
    \/ \E fabric \in FabricIndexes \cup {NoFabric}, synchronized \in BOOLEAN, now \in Times :
           \/ RootCertificateCommand(fabric, endpoints, synchronized, now)
           \/ ClientCertificateCommand(fabric, endpoints, now)
    \/ \E fabricsLeft \in SUBSET FabricIndexes : HandleFabricsChanged(fabricsLeft)

\* The attributes built from well-typed stores are well typed.
LEMMA TypeFromInvariant ==
    ASSUME CertificateInvariant PROVE CertificatesTypeOK
  BY DEF CertificateInvariant, StoreInvariant, StoresTypeOK, AttributesMirrorStores,
         CertificatesTypeOK, RootCertificatesOf, ClientCertificatesOf, RootCertificateEntry,
         ClientCertificateEntry

\* The conjuncts that only read the client store.
LEMMA UnchangedClientStore ==
    ASSUME StoreInvariant, UNCHANGED <<clientCertificateStore, generatedKeys>>
    PROVE  /\ CcdidsUnique'
           /\ ClientLookupIsExact'
           /\ KeysWereGenerated'
           /\ PrivateKeysDistinct'
           /\ ClientCertificateMatchesKey'
  BY DEF StoreInvariant, CcdidsUnique, ClientLookupIsExact, LookupClientCertificate, OfFabric,
     Ccdids, KeysWereGenerated, PrivateKeysDistinct, ClientCertificateMatchesKey

\* An exact lookup is the uniqueness of the fingerprints within a fabric.
LEMMA RootFingerprintsUnique ==
    ASSUME CaidsUnique, RootLookupIsExact,
           NEW e1 \in rootCertificateStore, NEW e2 \in rootCertificateStore,
           e1.fabric = e2.fabric, e1.certificate = e2.certificate
    PROVE  e1 = e2
  BY DEF CaidsUnique, RootLookupIsExact, LookupRootCertificate, OfFabric, Caids

\* Adding a root certificate takes a free CAID and a new fingerprint.
LEMMA AddRootCertificateInvariant ==
    ASSUME StoreInvariant, NEW fabric \in FabricIndexes, NEW certificate \in Certificates,
           ~IdsExhausted(Caids(rootCertificateStore)),
           ~HasRootCertificate(fabric, certificate),
           AddRootCertificate(fabric, certificate),
           UNCHANGED <<clientCertificateStore, nextCcdid, generatedKeys>>
    PROVE  StoreInvariant'
<1> DEFINE id == AllocateId(Caids(rootCertificateStore), nextCaid)
           new == [caid |-> id, fabric |-> fabric, certificate |-> certificate]
<1>1. id \in TlsIds \ Caids(rootCertificateStore)
  BY AllocateIdFresh DEF StoreInvariant, StoresTypeOK
<1>2. nextCaid' \in TlsIds
  BY <1>1, IdAfterValid DEF AddRootCertificate
<1>3. rootCertificateStore' = rootCertificateStore \cup {new}
  BY DEF AddRootCertificate
<1> HIDE DEF id
<1>4. new \in RootCertificateEntry
  BY <1>1 DEF RootCertificateEntry
<1>5. StoresTypeOK'
  BY <1>2, <1>3, <1>4 DEF StoreInvariant, StoresTypeOK
<1>6. CaidsUnique'
  BY <1>1, <1>3 DEF StoreInvariant, CaidsUnique, Caids
<1>7. RootLookupIsExact'
  BY <1>1, <1>3 DEF StoreInvariant, StoresTypeOK, RootLookupIsExact, LookupRootCertificate,
     OfFabric, Caids, HasRootCertificate, RootCertificateEntry
<1> QED
  BY <1>5, <1>6, <1>7, UnchangedClientStore DEF StoreInvariant

\* Replacing a root certificate changes the one entry of the CAID.
LEMMA ReplaceRootCertificateInvariant ==
    ASSUME StoreInvariant, NEW fabric \in FabricIndexes, NEW certificate \in Certificates,
           NEW caid \in TlsIds,
           ~HasRootCertificate(fabric, certificate),
           ReplaceRootCertificate(fabric, caid, certificate),
           UNCHANGED <<clientCertificateStore, nextCcdid, generatedKeys>>
    PROVE  StoreInvariant'
<1> DEFINE Image(entry) == IF entry.fabric = fabric /\ entry.caid = caid
                           THEN [caid |-> caid, fabric |-> fabric, certificate |-> certificate]
                           ELSE entry
<1>1. rootCertificateStore' = {Image(entry) : entry \in rootCertificateStore}
  BY DEF ReplaceRootCertificate
<1>2. \A entry \in rootCertificateStore :
          /\ Image(entry) \in RootCertificateEntry
          /\ Image(entry).caid = entry.caid
          /\ Image(entry).fabric = entry.fabric
          /\ \/ Image(entry) = entry
             \/ entry.caid = caid /\ Image(entry).certificate = certificate
  BY DEF StoreInvariant, StoresTypeOK, RootCertificateEntry
<1> HIDE DEF Image
<1>3. StoresTypeOK'
  BY <1>1, <1>2 DEF StoreInvariant, StoresTypeOK, ReplaceRootCertificate
<1>4. CaidsUnique'
  BY <1>1, <1>2 DEF StoreInvariant, CaidsUnique
<1>5. \A e1, e2 \in rootCertificateStore :
          Image(e1).fabric = Image(e2).fabric /\ Image(e1).certificate = Image(e2).certificate
              => e1 = e2
  <2> SUFFICES ASSUME NEW e1 \in rootCertificateStore, NEW e2 \in rootCertificateStore,
                      Image(e1).fabric = Image(e2).fabric,
                      Image(e1).certificate = Image(e2).certificate
               PROVE  e1 = e2
    OBVIOUS
  <2>1. e1.caid = e2.caid \/ (Image(e1) = e1 /\ Image(e2) = e2)
    <3>1. ASSUME NEW e \in rootCertificateStore, e.certificate = certificate
          PROVE  e.fabric # fabric
      BY <3>1 DEF HasRootCertificate
    <3> QED BY <1>2, <3>1 DEF Image
  <2>2. CASE e1.caid = e2.caid
    BY <2>2 DEF StoreInvariant, CaidsUnique
  <2>3. CASE Image(e1) = e1 /\ Image(e2) = e2
    BY <2>3, RootFingerprintsUnique DEF StoreInvariant
  <2> QED BY <2>1, <2>2, <2>3
<1>6. RootLookupIsExact'
  BY <1>1, <1>2, <1>5 DEF RootLookupIsExact, LookupRootCertificate, OfFabric, Caids
<1> QED
  BY <1>3, <1>4, <1>6, UnchangedClientStore DEF StoreInvariant

\* Client fingerprints are unique within a fabric, as root ones are.
LEMMA ClientFingerprintsUnique ==
    ASSUME CcdidsUnique, ClientLookupIsExact,
           NEW e1 \in clientCertificateStore, NEW e2 \in clientCertificateStore,
           e1.fabric = e2.fabric, e1.clientCertificate # Null,
           e1.clientCertificate = e2.clientCertificate
    PROVE  e1 = e2
  BY DEF CcdidsUnique, ClientLookupIsExact, LookupClientCertificate, OfFabric, Ccdids

\* Taking entries away, by a removal command or a fabric cleanup, is safe.
LEMMA RemovalInvariant ==
    ASSUME StoreInvariant,
           rootCertificateStore' \subseteq rootCertificateStore,
           clientCertificateStore' \subseteq clientCertificateStore,
           UNCHANGED <<nextCaid, nextCcdid, generatedKeys>>
    PROVE  StoreInvariant'
<1>1. StoresTypeOK' /\ CaidsUnique' /\ CcdidsUnique'
  BY DEF StoreInvariant, StoresTypeOK, CaidsUnique, CcdidsUnique
<1>2. RootLookupIsExact'
  <2>1. \A e1, e2 \in rootCertificateStore :
            e1.fabric = e2.fabric /\ e1.certificate = e2.certificate => e1 = e2
    BY RootFingerprintsUnique DEF StoreInvariant
  <2> QED BY <2>1 DEF RootLookupIsExact, LookupRootCertificate, OfFabric, Caids
<1>3. ClientLookupIsExact'
  <2>1. \A e1, e2 \in clientCertificateStore :
            /\ e1.fabric = e2.fabric
            /\ e1.clientCertificate # Null
            /\ e1.clientCertificate = e2.clientCertificate
            => e1 = e2
    BY ClientFingerprintsUnique DEF StoreInvariant
  <2> QED BY <2>1 DEF ClientLookupIsExact, LookupClientCertificate, OfFabric, Ccdids
<1>4. KeysWereGenerated' /\ PrivateKeysDistinct' /\ ClientCertificateMatchesKey'
  BY DEF StoreInvariant, KeysWereGenerated, PrivateKeysDistinct, ClientCertificateMatchesKey
<1> QED BY <1>1, <1>2, <1>3, <1>4 DEF StoreInvariant

\* ClientCSR takes a free CCDID and a key pair that was never generated.
LEMMA ClientCsrInvariant ==
    ASSUME StoreInvariant, NEW fabric \in FabricIndexes \cup {NoFabric}, NEW nonceOk,
           ClientCsr(fabric, nonceOk)
    PROVE  StoreInvariant'
<1> DEFINE id == AllocateId(Ccdids(clientCertificateStore), nextCcdid)
           New(key) == [ccdid |-> id, fabric |-> fabric, clientCertificate |-> Null,
                        intermediateCertificates |-> {}, privateKey |-> key]
<1>1. fabric \in FabricIndexes /\ ~IdsExhausted(Ccdids(clientCertificateStore))
  BY DEF ClientCsr, ClientCsrStatus
<1>2. PICK key \in KeyPairs \ generatedKeys :
          /\ nextCcdid' = IdAfter(id)
          /\ generatedKeys' = generatedKeys \cup {key}
          /\ clientCertificateStore' = clientCertificateStore \cup {New(key)}
  BY DEF ClientCsr, NewKeys
<1>3. UNCHANGED <<rootCertificateStore, nextCaid>>
  BY DEF ClientCsr
<1>4. id \in TlsIds \ Ccdids(clientCertificateStore)
  BY <1>1, AllocateIdFresh DEF StoreInvariant, StoresTypeOK
<1>5. nextCcdid' \in TlsIds
  BY <1>2, <1>4, IdAfterValid
<1> HIDE DEF id
<1>6. New(key) \in ClientCertificateEntry
  BY <1>1, <1>4 DEF ClientCertificateEntry
<1>7. StoresTypeOK'
  BY <1>2, <1>3, <1>5, <1>6 DEF StoreInvariant, StoresTypeOK
<1>8. CcdidsUnique'
  <2>1. \A entry \in clientCertificateStore : entry.ccdid # New(key).ccdid
    BY <1>4 DEF Ccdids
  <2> HIDE DEF New
  <2> QED BY <1>2, <2>1 DEF StoreInvariant, CcdidsUnique
<1>9. CaidsUnique' /\ RootLookupIsExact'
  BY <1>3 DEF StoreInvariant, CaidsUnique, RootLookupIsExact, LookupRootCertificate, OfFabric, Caids
<1>10. ClientLookupIsExact'
  BY <1>2 DEF StoreInvariant, ClientLookupIsExact, LookupClientCertificate, OfFabric, Ccdids
<1>11. KeysWereGenerated' /\ PrivateKeysDistinct' /\ ClientCertificateMatchesKey'
  BY <1>2 DEF StoreInvariant, KeysWereGenerated, PrivateKeysDistinct, ClientCertificateMatchesKey
<1> QED BY <1>7, <1>8, <1>9, <1>10, <1>11 DEF StoreInvariant

\* Installing or rotating a client certificate changes the one entry of the
\* CCDID, whose key pair is the one the certificate was issued for.
LEMMA ProvisionClientCertificateInvariant ==
    ASSUME StoreInvariant, NEW fabric \in FabricIndexes \cup {NoFabric},
           NEW ccdid \in TlsIdFields, NEW certificate \in Certificates,
           NEW intermediates \in SUBSET Certificates, NEW now \in Times,
           ProvisionClientCertificate(fabric, ccdid, certificate, intermediates, now)
    PROVE  StoreInvariant'
<1> DEFINE Image(entry) ==
               IF entry.fabric = fabric /\ entry.ccdid = ccdid
               THEN [ccdid |-> ccdid, fabric |-> fabric, clientCertificate |-> certificate,
                     intermediateCertificates |-> intermediates,
                     privateKey |-> entry.privateKey]
               ELSE entry
<1>1. /\ ccdid \in TlsIds
      /\ ~HasClientCertificate(fabric, certificate)
      /\ \A entry \in clientCertificateStore :
             entry.fabric = fabric /\ entry.ccdid = ccdid =>
                 PublicKey[certificate] = entry.privateKey
  BY DEF ProvisionClientCertificate, ProvisionClientCertificateStatus, KeyMismatch
<1>2. clientCertificateStore' = {Image(entry) : entry \in clientCertificateStore}
  BY DEF ProvisionClientCertificate, InstallClientCertificate
<1>3. UNCHANGED <<rootCertificateStore, nextCaid, nextCcdid, generatedKeys>>
  BY DEF ProvisionClientCertificate
<1>4. \A entry \in clientCertificateStore :
          /\ Image(entry) \in ClientCertificateEntry
          /\ Image(entry).ccdid = entry.ccdid
          /\ Image(entry).fabric = entry.fabric
          /\ Image(entry).privateKey = entry.privateKey
          /\ \/ Image(entry) = entry
             \/ /\ entry.ccdid = ccdid /\ Image(entry).clientCertificate = certificate
                /\ PublicKey[certificate] = entry.privateKey
  BY <1>1 DEF StoreInvariant, StoresTypeOK, ClientCertificateEntry
<1>5. \A e \in clientCertificateStore :
          e.fabric = fabric /\ e.clientCertificate = certificate => e.clientCertificate = Null
  BY <1>1 DEF HasClientCertificate
<1>6. certificate # Null
  BY CertificatesAssumption
<1>7. \A e1, e2 \in clientCertificateStore :
          /\ Image(e1).fabric = Image(e2).fabric
          /\ Image(e1).clientCertificate # Null
          /\ Image(e1).clientCertificate = Image(e2).clientCertificate
          => e1 = e2
  <2> SUFFICES ASSUME NEW e1 \in clientCertificateStore, NEW e2 \in clientCertificateStore,
                      Image(e1).fabric = Image(e2).fabric,
                      Image(e1).clientCertificate # Null,
                      Image(e1).clientCertificate = Image(e2).clientCertificate
               PROVE  e1 = e2
    OBVIOUS
  <2>1. e1.ccdid = e2.ccdid \/ (Image(e1) = e1 /\ Image(e2) = e2)
    BY <1>4, <1>5, <1>6
  <2>2. CASE e1.ccdid = e2.ccdid
    BY <2>2 DEF StoreInvariant, CcdidsUnique
  <2>3. CASE Image(e1) = e1 /\ Image(e2) = e2
    BY <2>3, ClientFingerprintsUnique DEF StoreInvariant
  <2> QED BY <2>1, <2>2, <2>3
<1> HIDE DEF Image
<1>8. StoresTypeOK'
  BY <1>2, <1>3, <1>4 DEF StoreInvariant, StoresTypeOK
<1>9. CcdidsUnique'
  BY <1>2, <1>4 DEF StoreInvariant, CcdidsUnique
<1>10. CaidsUnique' /\ RootLookupIsExact'
  BY <1>3 DEF StoreInvariant, CaidsUnique, RootLookupIsExact, LookupRootCertificate, OfFabric, Caids
<1>11. ClientLookupIsExact'
  BY <1>2, <1>4, <1>7 DEF ClientLookupIsExact, LookupClientCertificate, OfFabric, Ccdids
<1>12. KeysWereGenerated' /\ PrivateKeysDistinct'
  BY <1>2, <1>3, <1>4 DEF StoreInvariant, KeysWereGenerated, PrivateKeysDistinct
<1>13. ClientCertificateMatchesKey'
  BY <1>2, <1>4 DEF StoreInvariant, ClientCertificateMatchesKey
<1> QED BY <1>8, <1>9, <1>10, <1>11, <1>12, <1>13 DEF StoreInvariant

\* Every command about root certificates keeps the store safe and the attributes
\* up to date, whatever the endpoints and the time synchronization are.
LEMMA RootCertificateCommandInvariant ==
    ASSUME StoreInvariant, NEW fabric \in FabricIndexes \cup {NoFabric},
           NEW endpoints, NEW synchronized, NEW now,
           RootCertificateCommand(fabric, endpoints, synchronized, now)
    PROVE  StoreInvariant' /\ AttributesMirrorStores'
<1>1. CASE \E caid \in TlsIdFields \cup {Null}, certificate \in Certificates :
               ProvisionRootCertificate(fabric, caid, certificate, synchronized, now)
  <2> PICK caid \in TlsIdFields \cup {Null}, certificate \in Certificates :
          ProvisionRootCertificate(fabric, caid, certificate, synchronized, now)
    BY <1>1
  <2>1. /\ UNCHANGED <<clientCertificateStore, nextCcdid, generatedKeys>>
        /\ UpdateAttributes
        /\ ProvisionRootCertificateStatus(fabric, caid, certificate, synchronized, now) = "Success"
        /\ \/ caid = Null /\ AddRootCertificate(fabric, certificate)
           \/ caid # Null /\ ReplaceRootCertificate(fabric, caid, certificate)
    BY DEF ProvisionRootCertificate
  <2>2. /\ fabric \in FabricIndexes
        /\ caid # Null => caid \in TlsIds
        /\ caid = Null => ~IdsExhausted(Caids(rootCertificateStore))
        /\ ~HasRootCertificate(fabric, certificate)
    BY <2>1 DEF ProvisionRootCertificateStatus
  <2>3. StoreInvariant'
    BY <2>1, <2>2, AddRootCertificateInvariant, ReplaceRootCertificateInvariant
  <2> QED BY <2>1, <2>3 DEF UpdateAttributes, AttributesMirrorStores, RootCertificatesOf,
                            ClientCertificatesOf
<1>2. CASE \E caid \in TlsIdFields : RemoveRootCertificate(fabric, caid, endpoints)
  <2> PICK caid \in TlsIdFields : RemoveRootCertificate(fabric, caid, endpoints)
    BY <1>2
  <2>1. /\ rootCertificateStore' \subseteq rootCertificateStore
        /\ UNCHANGED <<clientCertificateStore, nextCaid, nextCcdid, generatedKeys>>
        /\ UpdateAttributes
    BY DEF RemoveRootCertificate
  <2>2. StoreInvariant'
    BY <2>1, RemovalInvariant
  <2> QED BY <2>1, <2>2 DEF UpdateAttributes, AttributesMirrorStores, RootCertificatesOf,
                            ClientCertificatesOf
<1> QED BY <1>1, <1>2 DEF RootCertificateCommand

\* So does every command about client certificates.
LEMMA ClientCertificateCommandInvariant ==
    ASSUME StoreInvariant, NEW fabric \in FabricIndexes \cup {NoFabric},
           NEW endpoints, NEW now \in Times,
           ClientCertificateCommand(fabric, endpoints, now)
    PROVE  StoreInvariant' /\ AttributesMirrorStores'
<1>1. CASE \E nonceOk \in BOOLEAN : ClientCsr(fabric, nonceOk)
  <2>1. StoreInvariant'
    BY <1>1, ClientCsrInvariant
  <2>2. UpdateAttributes
    BY <1>1 DEF ClientCsr
  <2> QED BY <2>1, <2>2 DEF UpdateAttributes, AttributesMirrorStores, RootCertificatesOf,
                            ClientCertificatesOf
<1>2. CASE \E ccdid \in TlsIdFields, certificate \in Certificates,
              intermediates \in SUBSET Certificates :
               ProvisionClientCertificate(fabric, ccdid, certificate, intermediates, now)
  <2>1. StoreInvariant'
    BY <1>2, ProvisionClientCertificateInvariant
  <2>2. UpdateAttributes
    BY <1>2 DEF ProvisionClientCertificate
  <2> QED BY <2>1, <2>2 DEF UpdateAttributes, AttributesMirrorStores, RootCertificatesOf,
                            ClientCertificatesOf
<1>3. CASE \E ccdid \in TlsIdFields : RemoveClientCertificate(fabric, ccdid, endpoints)
  <2> PICK ccdid \in TlsIdFields : RemoveClientCertificate(fabric, ccdid, endpoints)
    BY <1>3
  <2>1. /\ clientCertificateStore' \subseteq clientCertificateStore
        /\ UNCHANGED <<rootCertificateStore, nextCaid, nextCcdid, generatedKeys>>
        /\ UpdateAttributes
    BY DEF RemoveClientCertificate
  <2>2. StoreInvariant'
    BY <2>1, RemovalInvariant
  <2> QED BY <2>1, <2>2 DEF UpdateAttributes, AttributesMirrorStores, RootCertificatesOf,
                            ClientCertificatesOf
<1> QED BY <1>1, <1>2, <1>3 DEF ClientCertificateCommand

\* The cleanup of removed fabrics refreshes the attributes unless nothing was removed.
LEMMA HandleFabricsChangedInvariant ==
    ASSUME StoreInvariant, NEW fabricsLeft, HandleFabricsChanged(fabricsLeft)
    PROVE  StoreInvariant' /\ (AttributesMirrorStores => AttributesMirrorStores')
<1>1. /\ rootCertificateStore' \subseteq rootCertificateStore
      /\ clientCertificateStore' \subseteq clientCertificateStore
      /\ UNCHANGED <<nextCaid, nextCcdid, generatedKeys>>
  BY DEF HandleFabricsChanged
<1>2. StoreInvariant'
  BY <1>1, RemovalInvariant
<1>3. \/ UNCHANGED <<rootCertificateStore, clientCertificateStore, attributeVars>>
      \/ UpdateAttributes
  BY DEF HandleFabricsChanged
<1>4. AttributesMirrorStores => AttributesMirrorStores'
  BY <1>3 DEF UpdateAttributes, AttributesMirrorStores, RootCertificatesOf,
              ClientCertificatesOf, attributeVars
<1> QED BY <1>2, <1>4

\* The invariant holds of the empty stores.
LEMMA CertificateInit ==
    InitTlsCertificateManagement => CertificateInvariant
<1> SUFFICES ASSUME InitTlsCertificateManagement PROVE CertificateInvariant
  OBVIOUS
<1>1. 0 \in TlsIds
  BY TlsIdsAssumption DEF TlsIds
<1>2. StoreInvariant
  BY <1>1 DEF InitTlsCertificateManagement, StoreInvariant, StoresTypeOK, CaidsUnique,
     CcdidsUnique, RootLookupIsExact, ClientLookupIsExact, KeysWereGenerated,
     PrivateKeysDistinct, ClientCertificateMatchesKey
<1>3. AttributesMirrorStores
  BY DEF InitTlsCertificateManagement, AttributesMirrorStores, RootCertificatesOf,
         ClientCertificatesOf
<1> QED BY <1>2, <1>3 DEF CertificateInvariant

\* Every step of the server keeps the invariant.
LEMMA CertificateNext ==
    CertificateInvariant /\ [NextTlsCertificateManagement]_certificateVars
        => CertificateInvariant'
<1> SUFFICES ASSUME CertificateInvariant, [NextTlsCertificateManagement]_certificateVars
             PROVE  CertificateInvariant'
  OBVIOUS
<1>1. StoreInvariant /\ AttributesMirrorStores
  BY DEF CertificateInvariant
<1>2. ASSUME NEW fabric \in FabricIndexes \cup {NoFabric}, NEW synchronized \in BOOLEAN,
             NEW now \in Times, RootCertificateCommand(fabric, {}, synchronized, now)
      PROVE  CertificateInvariant'
  BY <1>1, <1>2, RootCertificateCommandInvariant DEF CertificateInvariant
<1>3. ASSUME NEW fabric \in FabricIndexes \cup {NoFabric}, NEW now \in Times,
             ClientCertificateCommand(fabric, {}, now)
      PROVE  CertificateInvariant'
  BY <1>1, <1>3, ClientCertificateCommandInvariant DEF CertificateInvariant
<1>4. ASSUME NEW fabricsLeft \in SUBSET FabricIndexes, HandleFabricsChanged(fabricsLeft)
      PROVE  CertificateInvariant'
  BY <1>1, <1>4, HandleFabricsChangedInvariant DEF CertificateInvariant
<1>5. CASE UNCHANGED certificateVars
  <2>1. UNCHANGED <<rootCertificateStore, clientCertificateStore, nextCaid, nextCcdid,
                    generatedKeys>>
    BY <1>5 DEF certificateVars, storeVars
  <2>2. StoreInvariant'
    BY <1>1, <2>1, RemovalInvariant
  <2> QED BY <1>1, <1>5, <2>2 DEF CertificateInvariant, AttributesMirrorStores,
             RootCertificatesOf, ClientCertificatesOf, certificateVars, storeVars, attributeVars
<1> QED
  BY <1>2, <1>3, <1>4, <1>5 DEF NextTlsCertificateManagement

\* The certificate store keeps its invariant in every reachable state.
THEOREM CertificateInvariantAlways ==
    SpecTlsCertificateManagement => []CertificateInvariant
  BY CertificateInit, CertificateNext, PTL DEF SpecTlsCertificateManagement

\* The entries and the attributes of the certificate server are always well
\* formed: every handler writes ids, fabrics and certificates of the right kind.
THEOREM CertificatesTypeCorrect ==
    SpecTlsCertificateManagement => []CertificatesTypeOK
  BY CertificateInvariantAlways, TypeFromInvariant, PTL

\* CAIDs and CCDIDs stay unique on the node for every number of fabrics, through
\* removals, fabric cleanups and the wrap-around of allocateId.
THEOREM IdsAlwaysUnique ==
    SpecTlsCertificateManagement => [](CaidsUnique /\ CcdidsUnique)
<1>1. CertificateInvariant => CaidsUnique /\ CcdidsUnique
  BY DEF CertificateInvariant, StoreInvariant
<1> QED BY <1>1, CertificateInvariantAlways, PTL

\* A lookup by fingerprint always names the one entry that holds the certificate.
THEOREM LookupsAlwaysExact ==
    SpecTlsCertificateManagement => [](RootLookupIsExact /\ ClientLookupIsExact)
<1>1. CertificateInvariant => RootLookupIsExact /\ ClientLookupIsExact
  BY DEF CertificateInvariant, StoreInvariant
<1> QED BY <1>1, CertificateInvariantAlways, PTL

\* Each client certificate always matches the private key beside it, and no two
\* entries share a key.
THEOREM KeysAlwaysSafe ==
    SpecTlsCertificateManagement => [](ClientCertificateMatchesKey /\ PrivateKeysDistinct)
<1>1. CertificateInvariant => ClientCertificateMatchesKey /\ PrivateKeysDistinct
  BY DEF CertificateInvariant, StoreInvariant
<1> QED BY <1>1, CertificateInvariantAlways, PTL

\* The attributes always show each fabric what the Find commands would answer.
THEOREM AttributesAlwaysAgree ==
    SpecTlsCertificateManagement => []AttributesAgreeWithFind
<1>1. CertificateInvariant => AttributesAgreeWithFind
  BY DEF CertificateInvariant, AttributesMirrorStores, AttributesAgreeWithFind,
         FindRootCertificate, FindClientCertificate
<1> QED BY <1>1, CertificateInvariantAlways, PTL

\* The entries that two states have in common keep what ClientCSR gave them.
EntriesKept ==
    \A old \in clientCertificateStore, new \in clientCertificateStore' :
        old.ccdid = new.ccdid /\ old.fabric = new.fabric =>
            /\ new.privateKey = old.privateKey
            /\ old.clientCertificate # Null => new.clientCertificate # Null

\* ClientCSR adds an entry under a free CCDID and every other handler leaves the
\* key and the presence of the certificate alone.
LEMMA StepKeepsEntries ==
    ASSUME StoreInvariant, NEW endpoints, ServerStep(endpoints) PROVE EntriesKept
<1> USE DEF EntriesKept
<1>1. CcdidsUnique /\ StoresTypeOK
  BY DEF StoreInvariant
<1>2. CASE clientCertificateStore' \subseteq clientCertificateStore
  BY <1>1, <1>2 DEF CcdidsUnique
<1>3. ASSUME NEW fabric \in FabricIndexes \cup {NoFabric}, NEW nonceOk \in BOOLEAN,
             ClientCsr(fabric, nonceOk)
      PROVE  EntriesKept
  <2> DEFINE id == AllocateId(Ccdids(clientCertificateStore), nextCcdid)
  <2>1. PICK key : clientCertificateStore' = clientCertificateStore \cup
                    {[ccdid |-> id, fabric |-> fabric, clientCertificate |-> Null,
                      intermediateCertificates |-> {}, privateKey |-> key]}
    BY <1>3 DEF ClientCsr
  <2>2. ~IdsExhausted(Ccdids(clientCertificateStore))
    BY <1>3 DEF ClientCsr, ClientCsrStatus
  <2>3. id \notin Ccdids(clientCertificateStore)
    BY <1>1, <2>2, AllocateIdFresh DEF StoresTypeOK
  <2> HIDE DEF id
  <2> QED BY <1>1, <2>1, <2>3 DEF Ccdids, CcdidsUnique
<1>4. ASSUME NEW fabric \in FabricIndexes \cup {NoFabric}, NEW ccdid \in TlsIdFields,
             NEW certificate \in Certificates, NEW intermediates \in SUBSET Certificates,
             NEW now \in Times,
             ProvisionClientCertificate(fabric, ccdid, certificate, intermediates, now)
      PROVE  EntriesKept
  <2>1. certificate # Null
    BY CertificatesAssumption
  <2>2. clientCertificateStore' =
            {IF entry.fabric = fabric /\ entry.ccdid = ccdid
             THEN [ccdid |-> ccdid, fabric |-> fabric, clientCertificate |-> certificate,
                   intermediateCertificates |-> intermediates,
                   privateKey |-> entry.privateKey]
             ELSE entry : entry \in clientCertificateStore}
    BY <1>4 DEF ProvisionClientCertificate, InstallClientCertificate
  <2> QED BY <1>1, <2>1, <2>2 DEF CcdidsUnique
<1> QED
  BY <1>2, <1>3, <1>4 DEF ServerStep, RootCertificateCommand,
     ClientCertificateCommand, ProvisionRootCertificate, RemoveRootCertificate,
     RemoveClientCertificate, HandleFabricsChanged

\* A CCDID keeps its private key, and a certificate once installed is only ever
\* replaced, whatever is rotated, removed and cleaned up.
THEOREM RotationAlwaysKeepsKey ==
    SpecTlsCertificateManagement => RotationKeepsKeyAndCertificate
<1>1. CertificateInvariant /\ [NextTlsCertificateManagement]_certificateVars
          => [EntriesKept]_certificateVars
  <2>1. NextTlsCertificateManagement => ServerStep({})
    BY DEF NextTlsCertificateManagement, ServerStep
  <2> QED BY <2>1, StepKeepsEntries DEF CertificateInvariant
<1>2. SpecTlsCertificateManagement => [][EntriesKept]_certificateVars
  BY <1>1, CertificateInvariantAlways, PTL DEF SpecTlsCertificateManagement
<1> QED BY <1>2 DEF RotationKeepsKeyAndCertificate, EntriesKept

(***************************************************************************)
(* The limits per fabric                                                   *)
(***************************************************************************)

WithinLimit(store, max) ==
    /\ IsFiniteSet(store)
    /\ \A fabric \in FabricIndexes : Cardinality(OfFabric(store, fabric)) <= max

\* What is known of the entries of one fabric.
LEMMA LimitOfFabric ==
    ASSUME NEW store, NEW max, WithinLimit(store, max), NEW fabric \in FabricIndexes
    PROVE  /\ IsFiniteSet(OfFabric(store, fabric))
           /\ Cardinality(OfFabric(store, fabric)) \in Nat
           /\ Cardinality(OfFabric(store, fabric)) <= max
<1>1. OfFabric(store, fabric) \subseteq store
  BY DEF OfFabric
<1>2. IsFiniteSet(OfFabric(store, fabric))
  BY <1>1, FS_Subset DEF WithinLimit
<1> QED BY <1>2, FS_CardinalityType DEF WithinLimit

\* A store within its limit stays within it when entries are removed.
LEMMA LimitOfSubset ==
    ASSUME NEW store, NEW max \in Nat, WithinLimit(store, max), NEW left, left \subseteq store
    PROVE  WithinLimit(left, max)
<1>1. IsFiniteSet(left)
  BY FS_Subset DEF WithinLimit
<1>2. ASSUME NEW fabric \in FabricIndexes PROVE Cardinality(OfFabric(left, fabric)) <= max
  <2>1. OfFabric(left, fabric) \in SUBSET OfFabric(store, fabric)
    BY DEF OfFabric
  <2>2. /\ Cardinality(OfFabric(store, fabric)) \in Nat
        /\ Cardinality(OfFabric(store, fabric)) <= max
        /\ IsFiniteSet(OfFabric(store, fabric))
    BY LimitOfFabric
  <2>3. /\ IsFiniteSet(OfFabric(left, fabric))
        /\ Cardinality(OfFabric(left, fabric)) <= Cardinality(OfFabric(store, fabric))
    BY <2>1, <2>2, FS_Subset
  <2>4. Cardinality(OfFabric(left, fabric)) \in Nat
    BY <2>3, FS_CardinalityType
  <2> QED BY <2>2, <2>3, <2>4
<1> QED BY <1>1, <1>2 DEF WithinLimit

\* One more entry of a fabric below the limit keeps every fabric within it.
LEMMA LimitOfAddition ==
    ASSUME NEW store, NEW max \in Nat, WithinLimit(store, max), NEW new,
           ~(Cardinality(OfFabric(store, new.fabric)) >= max)
    PROVE  WithinLimit(store \cup {new}, max)
<1>1. IsFiniteSet(store \cup {new})
  BY FS_AddElement DEF WithinLimit
<1>2. ASSUME NEW fabric \in FabricIndexes
      PROVE  Cardinality(OfFabric(store \cup {new}, fabric)) <= max
  <2>1. /\ IsFiniteSet(OfFabric(store, fabric))
        /\ Cardinality(OfFabric(store, fabric)) \in Nat
        /\ Cardinality(OfFabric(store, fabric)) <= max
    BY LimitOfFabric
  <2>2. CASE fabric = new.fabric
    <3>1. OfFabric(store \cup {new}, fabric) = OfFabric(store, fabric) \cup {new}
      BY <2>2 DEF OfFabric
    <3>2. /\ Cardinality(OfFabric(store, fabric) \cup {new}) \in Nat
          /\ Cardinality(OfFabric(store, fabric) \cup {new}) <= Cardinality(OfFabric(store, fabric)) + 1
      <4> DEFINE S == OfFabric(store, fabric)
      <4>1. IsFiniteSet(S) /\ Cardinality(S) \in Nat
        BY <2>1
      <4> HIDE DEF S
      <4>2. Cardinality(S \cup {new}) = IF new \in S THEN Cardinality(S) ELSE Cardinality(S) + 1
        BY <4>1, FS_AddElement
      <4>3. Cardinality(S \cup {new}) \in Nat /\ Cardinality(S \cup {new}) <= Cardinality(S) + 1
        BY <4>1, <4>2
      <4> QED BY <4>3 DEF S
    <3>3. Cardinality(OfFabric(store, fabric)) < max
      BY <2>1, <2>2
    <3> QED BY <2>1, <3>1, <3>2, <3>3
  <2>3. CASE fabric # new.fabric
    <3>1. OfFabric(store \cup {new}, fabric) = OfFabric(store, fabric)
      BY <2>3 DEF OfFabric
    <3> QED BY <2>1, <3>1
  <2> QED BY <2>2, <2>3
<1> QED BY <1>1, <1>2 DEF WithinLimit

\* Entries replaced by entries of the same fabric keep every fabric within the limit.
LEMMA LimitOfImage ==
    ASSUME NEW store, NEW max \in Nat, WithinLimit(store, max), NEW image,
           \A entry \in store : image[entry].fabric = entry.fabric
    PROVE  WithinLimit({image[entry] : entry \in store}, max)
<1> DEFINE new == {image[entry] : entry \in store}
<1>1. IsFiniteSet(new)
  BY ImageOfFinite DEF WithinLimit
<1>3. \A fabric : OfFabric(new, fabric) = {image[entry] : entry \in OfFabric(store, fabric)}
  BY DEF OfFabric
<1> HIDE DEF new
<1>2. ASSUME NEW fabric \in FabricIndexes PROVE Cardinality(OfFabric(new, fabric)) <= max
  <2>1. /\ IsFiniteSet(OfFabric(store, fabric))
        /\ Cardinality(OfFabric(store, fabric)) \in Nat
        /\ Cardinality(OfFabric(store, fabric)) <= max
    BY LimitOfFabric
  <2>2. OfFabric(new, fabric) = {image[entry] : entry \in OfFabric(store, fabric)}
    BY <1>3
  <2>3. /\ IsFiniteSet({image[entry] : entry \in OfFabric(store, fabric)})
        /\ Cardinality({image[entry] : entry \in OfFabric(store, fabric)})
               <= Cardinality(OfFabric(store, fabric))
    BY <2>1, ImageOfFinite
  <2>4. Cardinality({image[entry] : entry \in OfFabric(store, fabric)}) \in Nat
    BY <2>3, FS_CardinalityType
  <2> QED BY <2>1, <2>2, <2>3, <2>4
<1> QED BY <1>1, <1>2 DEF WithinLimit, new

QuotaInvariant ==
    /\ WithinLimit(rootCertificateStore, MaxRootCertificates)
    /\ WithinLimit(clientCertificateStore, MaxClientCertificates)

\* Every step keeps both limits: an addition is refused at the limit, a
\* replacement or rotation is an image, the rest takes entries away.
LEMMA QuotaNext ==
    ASSUME QuotaInvariant, NEW endpoints,
           ServerStep(endpoints) \/ UNCHANGED <<rootCertificateStore, clientCertificateStore>>
    PROVE  QuotaInvariant'
<1> USE CertificatesAssumption
<1>1. ASSUME rootCertificateStore' \subseteq rootCertificateStore,
             clientCertificateStore' \subseteq clientCertificateStore
      PROVE  QuotaInvariant'
  BY <1>1, LimitOfSubset DEF QuotaInvariant
<1>2. ASSUME NEW fabric, NEW caid, NEW certificate, NEW synchronized, NEW now,
             ProvisionRootCertificate(fabric, caid, certificate, synchronized, now)
      PROVE  QuotaInvariant'
  <2>1. CASE caid = Null /\ AddRootCertificate(fabric, certificate)
    <3>1. ~RootCertificatesFull(fabric)
      BY <1>2, <2>1 DEF ProvisionRootCertificate, ProvisionRootCertificateStatus
    <3>2. PICK new : new.fabric = fabric /\ rootCertificateStore' = rootCertificateStore \cup {new}
      BY <2>1 DEF AddRootCertificate
    <3>3. WithinLimit(rootCertificateStore \cup {new}, MaxRootCertificates)
      BY <3>1, <3>2, LimitOfAddition DEF QuotaInvariant, RootCertificatesFull
    <3> QED BY <1>2, <3>2, <3>3 DEF QuotaInvariant, ProvisionRootCertificate
  <2>2. CASE ReplaceRootCertificate(fabric, caid, certificate)
    <3> DEFINE image ==
                   [entry \in rootCertificateStore |->
                       IF entry.fabric = fabric /\ entry.caid = caid
                       THEN [caid |-> caid, fabric |-> fabric, certificate |-> certificate]
                       ELSE entry]
    <3>1. /\ rootCertificateStore' = {image[entry] : entry \in rootCertificateStore}
          /\ \A entry \in rootCertificateStore : image[entry].fabric = entry.fabric
      BY <2>2 DEF ReplaceRootCertificate
    <3> HIDE DEF image
    <3>2. WithinLimit({image[entry] : entry \in rootCertificateStore}, MaxRootCertificates)
      BY <3>1, LimitOfImage DEF QuotaInvariant
    <3> QED BY <1>2, <3>1, <3>2 DEF QuotaInvariant, ProvisionRootCertificate
  <2> QED BY <1>2, <2>1, <2>2 DEF ProvisionRootCertificate
<1>3. ASSUME NEW fabric, NEW nonceOk, ClientCsr(fabric, nonceOk) PROVE QuotaInvariant'
  <2>1. ~ClientCertificatesFull(fabric)
    BY <1>3 DEF ClientCsr, ClientCsrStatus
  <2>2. PICK new : /\ new.fabric = fabric
                   /\ clientCertificateStore' = clientCertificateStore \cup {new}
    BY <1>3 DEF ClientCsr
  <2>3. WithinLimit(clientCertificateStore \cup {new}, MaxClientCertificates)
    BY <2>1, <2>2, LimitOfAddition DEF QuotaInvariant, ClientCertificatesFull
  <2> QED BY <1>3, <2>2, <2>3 DEF QuotaInvariant, ClientCsr
<1>4. ASSUME NEW fabric, NEW ccdid, NEW certificate, NEW intermediates, NEW now,
             ProvisionClientCertificate(fabric, ccdid, certificate, intermediates, now)
      PROVE  QuotaInvariant'
  <2> DEFINE image ==
                 [entry \in clientCertificateStore |->
                     IF entry.fabric = fabric /\ entry.ccdid = ccdid
                     THEN [ccdid |-> ccdid, fabric |-> fabric, clientCertificate |-> certificate,
                           intermediateCertificates |-> intermediates,
                           privateKey |-> entry.privateKey]
                     ELSE entry]
  <2>1. /\ clientCertificateStore' = {image[entry] : entry \in clientCertificateStore}
        /\ \A entry \in clientCertificateStore : image[entry].fabric = entry.fabric
    BY <1>4 DEF ProvisionClientCertificate, InstallClientCertificate
  <2> HIDE DEF image
  <2>2. WithinLimit({image[entry] : entry \in clientCertificateStore}, MaxClientCertificates)
    BY <2>1, LimitOfImage DEF QuotaInvariant
  <2> QED BY <1>4, <2>1, <2>2 DEF QuotaInvariant, ProvisionClientCertificate
<1> QED
  BY <1>1, <1>2, <1>3, <1>4 DEF ServerStep, RootCertificateCommand,
     ClientCertificateCommand, RemoveRootCertificate, RemoveClientCertificate,
     HandleFabricsChanged

\* The empty stores are within every limit.
LEMMA QuotaInit == InitTlsCertificateManagement => QuotaInvariant
<1>1. \A fabric \in FabricIndexes : OfFabric({}, fabric) = {}
  BY DEF OfFabric
<1> QED BY <1>1, FS_EmptySet, CertificatesAssumption
        DEF InitTlsCertificateManagement, QuotaInvariant, WithinLimit

\* QuotaInvariant is inductive by itself.
LEMMA QuotaInvariantAlways == SpecTlsCertificateManagement => []QuotaInvariant
<1>1. QuotaInvariant /\ [NextTlsCertificateManagement]_certificateVars => QuotaInvariant'
  <2>1. NextTlsCertificateManagement => ServerStep({})
    BY DEF NextTlsCertificateManagement, ServerStep
  <2> QED BY <2>1, QuotaNext DEF certificateVars, storeVars
<1> QED BY <1>1, QuotaInit, PTL DEF SpecTlsCertificateManagement

\* The limits of the code are those of the invariant.
LEMMA WithinLimits ==
    QuotaInvariant => RootCertificatesWithinLimit /\ ClientCertificatesWithinLimit
  BY DEF QuotaInvariant, WithinLimit, RootCertificatesWithinLimit, ClientCertificatesWithinLimit

\* No sequence of commands gives a fabric more root or client certificates than
\* the limits, whatever they are.
THEOREM QuotasAlwaysKept ==
    SpecTlsCertificateManagement =>
        [](RootCertificatesWithinLimit /\ ClientCertificatesWithinLimit)
  BY WithinLimits, QuotaInvariantAlways, PTL

(***************************************************************************)
(* The ids never run out                                                   *)
(***************************************************************************)

OfFabricsUpTo(store, k) == {entry \in store : entry.fabric \in 1..k}

\* The entries of the first k fabrics are at most k times the limit: the least k
\* with more of them would have more than the limit in fabric k alone.
LEMMA FabricsWithinLimit ==
    ASSUME NEW store, NEW max \in Nat, WithinLimit(store, max), NEW k \in 0..MaxFabricIndex
    PROVE  Cardinality(OfFabricsUpTo(store, k)) <= k * max
<1> USE TlsIdsAssumption
<1> DEFINE Over == {n \in 0..MaxFabricIndex : ~(Cardinality(OfFabricsUpTo(store, n)) <= n * max)}
<1> SUFFICES ASSUME Over # {} PROVE FALSE
  OBVIOUS
<1>1. PICK n \in Over : \A m \in Over : n <= m
  <2>1. Over \subseteq Nat
    OBVIOUS
  <2> HIDE DEF Over
  <2> QED BY <2>1, LeastElement
<1>2. n \in 0..MaxFabricIndex /\ ~(Cardinality(OfFabricsUpTo(store, n)) <= n * max)
  OBVIOUS
<1>3. n # 0
  <2>1. OfFabricsUpTo(store, 0) = {}
    BY DEF OfFabricsUpTo
  <2>2. Cardinality(OfFabricsUpTo(store, 0)) = 0
    BY <2>1, FS_EmptySet
  <2> QED BY <1>2, <2>2
<1>4. n - 1 \in 0..MaxFabricIndex /\ n - 1 \notin Over /\ n \in FabricIndexes
  BY <1>1, <1>2, <1>3 DEF FabricIndexes
<1>5. Cardinality(OfFabricsUpTo(store, n - 1)) <= (n - 1) * max
  BY <1>4
<1> HIDE DEF Over
<1>6. OfFabricsUpTo(store, n) = OfFabricsUpTo(store, n - 1) \cup OfFabric(store, n)
  BY <1>2, <1>3 DEF OfFabricsUpTo, OfFabric
<1>7. OfFabricsUpTo(store, n - 1) \cap OfFabric(store, n) = {}
  BY <1>2, <1>3 DEF OfFabricsUpTo, OfFabric
<1>8. /\ IsFiniteSet(OfFabric(store, n))
      /\ Cardinality(OfFabric(store, n)) \in Nat
      /\ Cardinality(OfFabric(store, n)) <= max
  BY <1>4, LimitOfFabric
<1>9. IsFiniteSet(OfFabricsUpTo(store, n - 1))
  <2>1. OfFabricsUpTo(store, n - 1) \in SUBSET store
    BY DEF OfFabricsUpTo
  <2> QED BY <2>1, FS_Subset DEF WithinLimit
<1>10. Cardinality(OfFabricsUpTo(store, n - 1)) \in Nat
  BY <1>9, FS_CardinalityType
<1>11. Cardinality(OfFabricsUpTo(store, n))
           = Cardinality(OfFabricsUpTo(store, n - 1)) + Cardinality(OfFabric(store, n))
  <2>1. Cardinality(OfFabricsUpTo(store, n - 1) \cap OfFabric(store, n)) = 0
    BY <1>7, FS_EmptySet
  <2> QED BY <1>6, <1>8, <1>9, <1>10, <2>1, FS_Union
<1>12. (n - 1) * max + max = n * max
  BY <1>2
<1>13. n * max \in Nat /\ (n - 1) * max \in Int
  BY <1>2
<1> QED BY <1>2, <1>5, <1>8, <1>10, <1>11, <1>12, <1>13

\* The ids of a store within its limit are fewer than the ids there are.
LEMMA IdsLeft ==
    ASSUME NEW store, NEW max \in Nat, WithinLimit(store, max),
           MaxFabricIndex * max <= MaxTlsId,
           \A entry \in store : entry.fabric \in FabricIndexes,
           NEW idOf
    PROVE  ~IdsExhausted({idOf[entry] : entry \in store})
<1> USE TlsIdsAssumption
<1> SUFFICES ASSUME IdsExhausted({idOf[entry] : entry \in store}) PROVE FALSE
  OBVIOUS
<1>1. OfFabricsUpTo(store, MaxFabricIndex) = store
  BY DEF OfFabricsUpTo, FabricIndexes
<1>2. Cardinality(store) <= MaxFabricIndex * max
  BY <1>1, FabricsWithinLimit
<1> DEFINE ids == {idOf[entry] : entry \in store}
<1>3. IsFiniteSet(ids) /\ Cardinality(ids) <= Cardinality(store)
  BY ImageOfFinite DEF WithinLimit
<1>4. 0..MaxTlsId \in SUBSET ids
  BY DEF IdsExhausted, TlsIds
<1> HIDE DEF ids
<1>5. Cardinality(0..MaxTlsId) <= Cardinality(ids)
  BY <1>3, <1>4, FS_Subset
<1>6. Cardinality(0..MaxTlsId) = MaxTlsId + 1
  BY FS_Interval
<1>7. Cardinality(ids) \in Nat /\ Cardinality(store) \in Nat
  BY <1>3, FS_CardinalityType DEF WithinLimit
<1>8. MaxFabricIndex * max \in Nat
  OBVIOUS
<1> QED BY <1>2, <1>3, <1>5, <1>6, <1>7, <1>8

\* The configuration of a node whose fabrics, all at their limits, hold fewer
\* certificates than there are ids.
EnoughIds ==
    /\ MaxFabricIndex * MaxRootCertificates <= MaxTlsId
    /\ MaxFabricIndex * MaxClientCertificates <= MaxTlsId

\* Within the limits, allocateId has an id left.
LEMMA AllocatorsHaveIds ==
    ASSUME EnoughIds, StoreInvariant, QuotaInvariant PROVE AllocatorNeverExhausted
<1>1. /\ \A entry \in rootCertificateStore : entry.fabric \in FabricIndexes
      /\ \A entry \in clientCertificateStore : entry.fabric \in FabricIndexes
  BY DEF StoreInvariant, StoresTypeOK, RootCertificateEntry, ClientCertificateEntry
<1> DEFINE caidOf == [entry \in rootCertificateStore |-> entry.caid]
           ccdidOf == [entry \in clientCertificateStore |-> entry.ccdid]
<1>2. /\ Caids(rootCertificateStore) = {caidOf[entry] : entry \in rootCertificateStore}
      /\ Ccdids(clientCertificateStore) = {ccdidOf[entry] : entry \in clientCertificateStore}
  BY DEF Caids, Ccdids
<1> HIDE DEF caidOf, ccdidOf
<1>3. /\ ~IdsExhausted({caidOf[entry] : entry \in rootCertificateStore})
      /\ ~IdsExhausted({ccdidOf[entry] : entry \in clientCertificateStore})
  BY <1>1, IdsLeft, CertificatesAssumption DEF QuotaInvariant, EnoughIds
<1> QED BY <1>2, <1>3 DEF AllocatorNeverExhausted

\* "The per fabric limits (at most 254 per fabric) and the number of fabrics make"
\* the ResourceExhausted of allocateId "unreachable from the commands": it finds an
\* id in whatever order the ids were freed, reused and wrapped around.
THEOREM AllocatorsNeverExhausted ==
    ASSUME EnoughIds PROVE SpecTlsCertificateManagement => []AllocatorNeverExhausted
<1>1. CertificateInvariant /\ QuotaInvariant => AllocatorNeverExhausted
  BY AllocatorsHaveIds DEF CertificateInvariant
<1> QED BY <1>1, QuotaInvariantAlways, CertificateInvariantAlways, PTL

(***************************************************************************)
(* The server implements ClientCredentials                                 *)
(***************************************************************************)

Credential(entry) ==
    [fabric |-> entry.fabric, key |-> entry.privateKey, certificate |-> entry.clientCertificate]

\* In a store whose ids are unique, the credential of an id is that of its entry.
LEMMA CredentialOfEntry ==
    ASSUME NEW store, \A e1, e2 \in store : e1.ccdid = e2.ccdid => e1 = e2,
           NEW entry \in store
    PROVE  CredentialsIn(store)[entry.ccdid] = Credential(entry)
<1>1. entry = CHOOSE e \in store : e.ccdid = entry.ccdid
  OBVIOUS
<1>2. entry.ccdid \in Ccdids(store)
  BY DEF Ccdids
<1> QED BY <1>1, <1>2 DEF CredentialsIn, Credential

\* The fields of that credential.
LEMMA CredentialFields ==
    ASSUME NEW store, \A e1, e2 \in store : e1.ccdid = e2.ccdid => e1 = e2,
           NEW entry \in store
    PROVE  /\ CredentialsIn(store)[entry.ccdid].fabric = entry.fabric
           /\ CredentialsIn(store)[entry.ccdid].key = entry.privateKey
           /\ CredentialsIn(store)[entry.ccdid].certificate = entry.clientCertificate
<1>1. CredentialsIn(store)[entry.ccdid] = Credential(entry)
  BY CredentialOfEntry
<1>2. /\ Credential(entry).fabric = entry.fabric
      /\ Credential(entry).key = entry.privateKey
      /\ Credential(entry).certificate = entry.clientCertificate
  BY DEF Credential
<1> QED BY <1>1, <1>2

\* The ids in use are the domain of the credentials.
LEMMA CredentialsDomain ==
    ASSUME NEW store
    PROVE  /\ DOMAIN CredentialsIn(store) = Ccdids(store)
           /\ CredentialsIn(store) = [id \in Ccdids(store) |-> CredentialsIn(store)[id]]
  BY DEF CredentialsIn

\* Functions that agree with the credentials of a store are them.
LEMMA CredentialsExtensional ==
    ASSUME NEW store, \A e1, e2 \in store : e1.ccdid = e2.ccdid => e1 = e2,
           NEW f, f = [id \in Ccdids(store) |-> f[id]],
           \A entry \in store : f[entry.ccdid] = Credential(entry)
    PROVE  CredentialsIn(store) = f
<1>1. \A id \in Ccdids(store) : CredentialsIn(store)[id] = f[id]
  BY CredentialOfEntry DEF Ccdids
<1> QED BY <1>1, CredentialsDomain

\* A new entry adds the credential of its id and leaves the others.
LEMMA CredentialsOfAddition ==
    ASSUME NEW store, \A e1, e2 \in store : e1.ccdid = e2.ccdid => e1 = e2,
           NEW new, new.ccdid \notin Ccdids(store)
    PROVE  CredentialsIn(store \cup {new}) =
               [i \in Ccdids(store) \cup {new.ccdid} |->
                   IF i = new.ccdid THEN Credential(new) ELSE CredentialsIn(store)[i]]
<1> DEFINE f == [i \in Ccdids(store) \cup {new.ccdid} |->
                    IF i = new.ccdid THEN Credential(new) ELSE CredentialsIn(store)[i]]
<1>1. Ccdids(store \cup {new}) = Ccdids(store) \cup {new.ccdid}
  BY DEF Ccdids
<1>2. \A entry \in store : entry.ccdid \in Ccdids(store)
  BY DEF Ccdids
<1>3. \A e1, e2 \in store \cup {new} : e1.ccdid = e2.ccdid => e1 = e2
  BY <1>2
<1>4. \A entry \in store \cup {new} : f[entry.ccdid] = Credential(entry)
  BY <1>2, CredentialOfEntry
<1>5. f = [i \in Ccdids(store \cup {new}) |-> f[i]]
  BY <1>1
<1> HIDE DEF f
<1>6. CredentialsIn(store \cup {new}) = f
  BY <1>3, <1>4, <1>5, CredentialsExtensional
<1> QED BY <1>6 DEF f

\* Taking the entries of some ids away leaves the credentials of the others.
LEMMA CredentialsOfRemoval ==
    ASSUME NEW store, \A e1, e2 \in store : e1.ccdid = e2.ccdid => e1 = e2, NEW ids
    PROVE  CredentialsIn({entry \in store : entry.ccdid \notin ids}) =
               [i \in Ccdids(store) \ ids |-> CredentialsIn(store)[i]]
<1> DEFINE left == {entry \in store : entry.ccdid \notin ids}
           f == [i \in Ccdids(store) \ ids |-> CredentialsIn(store)[i]]
<1>1. Ccdids(left) = Ccdids(store) \ ids
  BY DEF Ccdids
<1>2. \A entry \in left : entry \in store /\ entry.ccdid \in Ccdids(store) \ ids
  BY DEF Ccdids
<1>3. \A e1, e2 \in left : e1.ccdid = e2.ccdid => e1 = e2
  OBVIOUS
<1>4. \A entry \in left : f[entry.ccdid] = Credential(entry)
  BY <1>2, CredentialOfEntry
<1>5. f = [i \in Ccdids(left) |-> f[i]]
  BY <1>1
<1> HIDE DEF f, left
<1>6. CredentialsIn(left) = f
  BY <1>3, <1>4, <1>5, CredentialsExtensional
<1> QED BY <1>6 DEF f, left

\* Changing the certificate of one entry changes that credential alone.
LEMMA CredentialsOfReplacement ==
    ASSUME NEW store, \A e1, e2 \in store : e1.ccdid = e2.ccdid => e1 = e2,
           NEW mine \in store, NEW certificate, NEW image,
           \A entry \in store : entry # mine => image[entry] = entry,
           image[mine].ccdid = mine.ccdid,
           image[mine].fabric = mine.fabric,
           image[mine].privateKey = mine.privateKey,
           image[mine].clientCertificate = certificate
    PROVE  CredentialsIn({image[entry] : entry \in store}) =
               [CredentialsIn(store) EXCEPT ![mine.ccdid] =
                   [fabric |-> CredentialsIn(store)[mine.ccdid].fabric,
                    key |-> CredentialsIn(store)[mine.ccdid].key,
                    certificate |-> certificate]]
<1> DEFINE new == {image[entry] : entry \in store}
           f == [CredentialsIn(store) EXCEPT ![mine.ccdid] =
                    [fabric |-> CredentialsIn(store)[mine.ccdid].fabric,
                     key |-> CredentialsIn(store)[mine.ccdid].key,
                     certificate |-> certificate]]
<1>1. \A entry \in store : image[entry].ccdid = entry.ccdid
  OBVIOUS
<1>2. Ccdids(new) = Ccdids(store)
  BY <1>1 DEF Ccdids
<1>3. \A e1, e2 \in new : e1.ccdid = e2.ccdid => e1 = e2
  BY <1>1
<1>4. \A entry \in store : CredentialsIn(store)[entry.ccdid] = Credential(entry)
  BY CredentialOfEntry
<1>5. \A entry \in store : entry.ccdid \in DOMAIN CredentialsIn(store)
  <2>1. DOMAIN CredentialsIn(store) = Ccdids(store)
    BY CredentialsDomain
  <2> QED BY <2>1 DEF Ccdids
<1>6. f[mine.ccdid] = Credential(image[mine])
  <2>1. f[mine.ccdid] = [fabric |-> CredentialsIn(store)[mine.ccdid].fabric,
                         key |-> CredentialsIn(store)[mine.ccdid].key,
                         certificate |-> certificate]
    BY <1>5
  <2> HIDE DEF f
  <2> QED BY <2>1, CredentialFields DEF Credential
<1>7. \A entry \in store : entry # mine => f[entry.ccdid] = Credential(image[entry])
  BY <1>4, <1>5
<1>8. f = [i \in Ccdids(new) |-> f[i]]
  BY <1>2, CredentialsDomain
<1> HIDE DEF f
<1>9. \A entry \in new : f[entry.ccdid] = Credential(entry)
  BY <1>1, <1>6, <1>7
<1> HIDE DEF new
<1>10. CredentialsIn(new) = f
  BY <1>3, <1>8, <1>9, CredentialsExtensional
<1> QED BY <1>10 DEF f, new

\* A ClientCSR that succeeds creates a credential with a free id and a new key.
LEMMA ClientCsrCreates ==
    ASSUME StoreInvariant, NEW fabric, NEW nonceOk,
           fabric \in FabricIndexes \cup {NoFabric}, ClientCsr(fabric, nonceOk)
    PROVE  Credentials!Next
<1> DEFINE id == AllocateId(Ccdids(clientCertificateStore), nextCcdid)
           New(key) == [ccdid |-> id, fabric |-> fabric, clientCertificate |-> Null,
                        intermediateCertificates |-> {}, privateKey |-> key]
<1>1. /\ \A e1, e2 \in clientCertificateStore : e1.ccdid = e2.ccdid => e1 = e2
      /\ StoresTypeOK
  BY DEF StoreInvariant, CcdidsUnique
<1>2. fabric \in FabricIndexes /\ ~IdsExhausted(Ccdids(clientCertificateStore))
  BY DEF ClientCsr, ClientCsrStatus
<1>3. PICK key \in KeyPairs \ generatedKeys :
          /\ generatedKeys' = generatedKeys \cup {key}
          /\ clientCertificateStore' = clientCertificateStore \cup {New(key)}
  BY DEF ClientCsr, NewKeys
<1>4. id \in TlsIds \ Ccdids(clientCertificateStore)
  BY <1>1, <1>2, AllocateIdFresh DEF StoresTypeOK
<1> HIDE DEF id
<1>5. /\ New(key).ccdid = id
      /\ Credential(New(key)) = [fabric |-> fabric, key |-> key, certificate |-> Null]
  BY DEF Credential
<1> HIDE DEF New
<1>6. CredentialsIn(clientCertificateStore)' =
          [i \in Ccdids(clientCertificateStore) \cup {id} |->
              IF i = id THEN Credential(New(key))
              ELSE CredentialsIn(clientCertificateStore)[i]]
  BY <1>1, <1>3, <1>4, <1>5, CredentialsOfAddition
<1>7. Credentials!Create(id, fabric, key)
  BY <1>3, <1>4, <1>5, <1>6, CredentialsDomain DEF Credentials!Create
<1> QED BY <1>2, <1>3, <1>4, <1>7 DEF Credentials!Next

\* A ProvisionClientCertificate that succeeds certifies the credential of the
\* CCDID with a certificate that no other credential of the fabric has.
LEMMA ProvisionCertifies ==
    ASSUME StoreInvariant, NEW fabric, NEW ccdid,
           NEW certificate \in Certificates, NEW intermediates, NEW now,
           ProvisionClientCertificate(fabric, ccdid, certificate, intermediates, now)
    PROVE  Credentials!Next
<1> DEFINE image ==
               [entry \in clientCertificateStore |->
                   IF entry.fabric = fabric /\ entry.ccdid = ccdid
                   THEN [ccdid |-> ccdid, fabric |-> fabric, clientCertificate |-> certificate,
                         intermediateCertificates |-> intermediates,
                         privateKey |-> entry.privateKey]
                   ELSE entry]
<1>1. \A e1, e2 \in clientCertificateStore : e1.ccdid = e2.ccdid => e1 = e2
  BY DEF StoreInvariant, CcdidsUnique
<1>2. /\ ccdid \in TlsIds
      /\ ~HasClientCertificate(fabric, certificate)
      /\ HasCcdid(fabric, ccdid)
      /\ ~KeyMismatch(fabric, ccdid, certificate)
      /\ UNCHANGED generatedKeys
  BY DEF ProvisionClientCertificate, ProvisionClientCertificateStatus
<1>3. clientCertificateStore' = {image[entry] : entry \in clientCertificateStore}
  BY DEF ProvisionClientCertificate, InstallClientCertificate
<1>4. PICK mine \in clientCertificateStore : mine.fabric = fabric /\ mine.ccdid = ccdid
  BY <1>2 DEF HasCcdid
<1>5. /\ \A entry \in clientCertificateStore : entry # mine => image[entry] = entry
      /\ image[mine].ccdid = mine.ccdid
      /\ image[mine].fabric = mine.fabric
      /\ image[mine].privateKey = mine.privateKey
      /\ image[mine].clientCertificate = certificate
  BY <1>1, <1>4
<1> HIDE DEF image
<1>6. \A entry \in clientCertificateStore :
          /\ entry.ccdid \in Ccdids(clientCertificateStore)
          /\ CredentialsIn(clientCertificateStore)[entry.ccdid].fabric = entry.fabric
          /\ CredentialsIn(clientCertificateStore)[entry.ccdid].key = entry.privateKey
          /\ CredentialsIn(clientCertificateStore)[entry.ccdid].certificate = entry.clientCertificate
  BY <1>1, CredentialFields DEF Ccdids
<1>7. CredentialsIn(clientCertificateStore)' =
          [CredentialsIn(clientCertificateStore) EXCEPT ![ccdid] =
              [fabric |-> CredentialsIn(clientCertificateStore)[ccdid].fabric,
               key |-> CredentialsIn(clientCertificateStore)[ccdid].key,
               certificate |-> certificate]]
  <2>1. CredentialsIn({image[entry] : entry \in clientCertificateStore}) =
            [CredentialsIn(clientCertificateStore) EXCEPT ![mine.ccdid] =
                [fabric |-> CredentialsIn(clientCertificateStore)[mine.ccdid].fabric,
                 key |-> CredentialsIn(clientCertificateStore)[mine.ccdid].key,
                 certificate |-> certificate]]
    BY <1>1, <1>5, CredentialsOfReplacement
  <2>2. CredentialsIn(clientCertificateStore)' =
            CredentialsIn({image[entry] : entry \in clientCertificateStore})
    BY <1>3
  <2> QED BY <1>4, <2>1, <2>2
<1>8. PublicKey[certificate] = CredentialsIn(clientCertificateStore)[ccdid].key
  BY <1>2, <1>4, <1>6 DEF KeyMismatch
<1>9. ASSUME NEW i \in Ccdids(clientCertificateStore),
             CredentialsIn(clientCertificateStore)[i].fabric =
                 CredentialsIn(clientCertificateStore)[ccdid].fabric
      PROVE  CredentialsIn(clientCertificateStore)[i].certificate # certificate
  <2>1. PICK entry \in clientCertificateStore : entry.ccdid = i
    BY DEF Ccdids
  <2>2. entry.fabric = fabric
    BY <1>4, <1>6, <1>9, <2>1
  <2>3. entry.clientCertificate # certificate
    BY <1>2, <2>2, CertificatesAssumption DEF HasClientCertificate
  <2> QED BY <1>6, <2>1, <2>3
<1>10. Credentials!Certify(ccdid, certificate)
  BY <1>2, <1>4, <1>6, <1>7, <1>8, <1>9, CredentialsDomain DEF Credentials!Certify
<1> QED BY <1>2, <1>10 DEF Credentials!Next

\* Taking the entries of some ids away forgets their credentials.
LEMMA RemovalForgets ==
    ASSUME StoreInvariant, NEW ids, UNCHANGED generatedKeys,
           clientCertificateStore' = {entry \in clientCertificateStore : entry.ccdid \notin ids}
    PROVE  Credentials!Forget(ids)
<1>1. \A e1, e2 \in clientCertificateStore : e1.ccdid = e2.ccdid => e1 = e2
  BY DEF StoreInvariant, CcdidsUnique
<1>2. CredentialsIn(clientCertificateStore)' =
          [i \in Ccdids(clientCertificateStore) \ ids |-> CredentialsIn(clientCertificateStore)[i]]
  BY <1>1, CredentialsOfRemoval
<1> QED BY <1>2, CredentialsDomain DEF Credentials!Forget

\* The empty store is a store of no credential.
LEMMA CredentialsInit == InitTlsCertificateManagement => Credentials!Init
<1> SUFFICES ASSUME InitTlsCertificateManagement PROVE Credentials!Init
  OBVIOUS
<1>1. clientCertificateStore = {} /\ generatedKeys = {}
  BY DEF InitTlsCertificateManagement
<1>2. Ccdids({}) = {}
  BY DEF Ccdids
<1>3. DOMAIN CredentialsIn({}) = {} /\ CredentialsIn({}) = [i \in {} |-> CredentialsIn({})[i]]
  BY <1>2, CredentialsDomain
<1>4. CredentialsIn({}) \in [{} -> Credentials!Credential]
  BY <1>3
<1> QED BY <1>1, <1>4 DEF Credentials!Init

\* Every handler creates, certifies or forgets credentials, or does not touch them.
LEMMA StepImplementsClientCredentials ==
    ASSUME StoreInvariant, NEW endpoints, ServerStep(endpoints)
    PROVE  [Credentials!Next]_(Credentials!credentialVars)
<1>1. ASSUME UNCHANGED <<clientCertificateStore, generatedKeys>>
      PROVE  UNCHANGED Credentials!credentialVars
  BY <1>1 DEF Credentials!credentialVars
<1>2. ASSUME NEW fabric \in FabricIndexes \cup {NoFabric}, NEW nonceOk \in BOOLEAN,
             ClientCsr(fabric, nonceOk)
      PROVE  Credentials!Next
  BY <1>2, ClientCsrCreates
<1>3. ASSUME NEW fabric \in FabricIndexes \cup {NoFabric}, NEW ccdid \in TlsIdFields,
             NEW certificate \in Certificates, NEW intermediates \in SUBSET Certificates,
             NEW now \in Times,
             ProvisionClientCertificate(fabric, ccdid, certificate, intermediates, now)
      PROVE  Credentials!Next
  BY <1>3, ProvisionCertifies
<1>4. ASSUME NEW fabric, NEW ccdid, RemoveClientCertificate(fabric, ccdid, endpoints)
      PROVE  Credentials!Next
  <2>1. ccdid \in TlsIds /\ HasCcdid(fabric, ccdid) /\ UNCHANGED generatedKeys
    BY <1>4 DEF RemoveClientCertificate, RemoveClientCertificateStatus
  <2>2. \A entry \in clientCertificateStore : entry.ccdid = ccdid => entry.fabric = fabric
    BY <2>1 DEF HasCcdid, StoreInvariant, CcdidsUnique
  <2>3. clientCertificateStore' = {entry \in clientCertificateStore : entry.ccdid \notin {ccdid}}
    BY <1>4, <2>2 DEF RemoveClientCertificate
  <2>4. Credentials!Forget({ccdid})
    BY <2>1, <2>3, RemovalForgets
  <2> QED BY <2>1, <2>4 DEF Credentials!Next
<1>5. ASSUME NEW fabrics \in SUBSET FabricIndexes, HandleFabricsChanged(fabrics)
      PROVE  Credentials!Next
  <2> DEFINE gone == FabricIndexes \ fabrics
             ids == Credentials!CredentialsOf(gone)
  <2>1. \A entry \in clientCertificateStore : entry.fabric \in FabricIndexes
    BY DEF StoreInvariant, StoresTypeOK, ClientCertificateEntry
  <2>2. \A entry \in clientCertificateStore :
            CredentialsIn(clientCertificateStore)[entry.ccdid].fabric = entry.fabric
    <3>1. \A e1, e2 \in clientCertificateStore : e1.ccdid = e2.ccdid => e1 = e2
      BY DEF StoreInvariant, CcdidsUnique
    <3> QED BY <3>1, CredentialFields
  <2>3. \A entry \in clientCertificateStore : entry.ccdid \in ids <=> entry.fabric \notin fabrics
    BY <2>1, <2>2, CredentialsDomain DEF Credentials!CredentialsOf, Ccdids
  <2> HIDE DEF ids
  <2>4. clientCertificateStore' = {entry \in clientCertificateStore : entry.ccdid \notin ids}
    BY <1>5, <2>3 DEF HandleFabricsChanged
  <2>5. Credentials!Forget(ids)
    BY <1>5, <2>4, RemovalForgets DEF HandleFabricsChanged
  <2> QED BY <2>5 DEF ids, Credentials!Next
<1> QED
  BY <1>1, <1>2, <1>3, <1>4, <1>5 DEF ServerStep, RootCertificateCommand,
     ClientCertificateCommand, ProvisionRootCertificate, RemoveRootCertificate

\* For any number of fabrics, ids, keys and certificates, the server implements
\* ClientCredentials: its handlers create, certify and forget credentials, or do
\* not touch them.
THEOREM ServerImplementsClientCredentials ==
    SpecTlsCertificateManagement => ImplementsClientCredentials
<1>1. CertificateInvariant /\ [NextTlsCertificateManagement]_certificateVars
          => [Credentials!Next]_(Credentials!credentialVars)
  <2>1. NextTlsCertificateManagement => ServerStep({})
    BY DEF NextTlsCertificateManagement, ServerStep
  <2>2. UNCHANGED certificateVars => UNCHANGED Credentials!credentialVars
    BY DEF certificateVars, storeVars, Credentials!credentialVars
  <2> QED BY <2>1, <2>2, StepImplementsClientCredentials DEF CertificateInvariant
<1> QED
  BY <1>1, CredentialsInit, CertificateInvariantAlways, PTL
     DEF SpecTlsCertificateManagement, ImplementsClientCredentials, Credentials!Spec
=============================================================================
