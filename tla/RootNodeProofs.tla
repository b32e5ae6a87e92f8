--------------------------- MODULE RootNodeProofs ---------------------------
(***************************************************************************)
(* The two TLS servers of the Root Node stay consistent for every number   *)
(* of fabrics and certificates and every queue of fabric changes, crashes  *)
(* included.  The argument is about the fabrics that own something on the  *)
(* node: a fabric on the node that owns anything is in every queued event, *)
(* so that no reaction takes from it, and one that has left is missing     *)
(* from some queued event, so that a reaction will, unless a crash has     *)
(* lost the queue.                                                         *)
(***************************************************************************)
EXTENDS RootNode, TlsCertificateManagementProofs, TlsClientManagementProofs

\* The fabrics with a certificate, and those with a TLS endpoint.
Holders ==
    {entry.fabric : entry \in rootCertificateStore} \cup
    {entry.fabric : entry \in clientCertificateStore}

EndpointFabrics == {e.fabricIndex : e \in provisionedEndpoints}

Owners == Holders \cup EndpointFabrics

\* A certificate command of a fabric gives certificates to no other fabric.
LEMMA CommandHolders ==
    ASSUME NEW fabric, NEW endpoints, NEW synchronized, NEW now,
           \/ RootCertificateCommand(fabric, endpoints, synchronized, now)
           \/ ClientCertificateCommand(fabric, endpoints, now)
    PROVE  Holders' \subseteq Holders \cup {fabric}
<1>1. ASSUME NEW caid, NEW certificate,
             ProvisionRootCertificate(fabric, caid, certificate, synchronized, now)
      PROVE  Holders' \subseteq Holders \cup {fabric}
  <2>1. UNCHANGED clientCertificateStore
    BY <1>1 DEF ProvisionRootCertificate
  <2>2. \A new \in rootCertificateStore' :
            new.fabric = fabric \/ \E entry \in rootCertificateStore : new.fabric = entry.fabric
    BY <1>1 DEF ProvisionRootCertificate, AddRootCertificate, ReplaceRootCertificate
  <2> QED BY <2>1, <2>2 DEF Holders
<1>2. ASSUME NEW caid, RemoveRootCertificate(fabric, caid, endpoints)
      PROVE  Holders' \subseteq Holders \cup {fabric}
  BY <1>2 DEF RemoveRootCertificate, Holders
<1>3. ASSUME NEW nonceOk, ClientCsr(fabric, nonceOk)
      PROVE  Holders' \subseteq Holders \cup {fabric}
  <2>1. UNCHANGED rootCertificateStore
    BY <1>3 DEF ClientCsr
  <2>2. \A new \in clientCertificateStore' :
            new.fabric = fabric \/ \E entry \in clientCertificateStore : new.fabric = entry.fabric
    BY <1>3 DEF ClientCsr
  <2> QED BY <2>1, <2>2 DEF Holders
<1>4. ASSUME NEW ccdid, NEW certificate, NEW intermediates,
             ProvisionClientCertificate(fabric, ccdid, certificate, intermediates, now)
      PROVE  Holders' \subseteq Holders \cup {fabric}
  <2>1. UNCHANGED rootCertificateStore
    BY <1>4 DEF ProvisionClientCertificate
  <2>2. \A new \in clientCertificateStore' :
            new.fabric = fabric \/ \E entry \in clientCertificateStore : new.fabric = entry.fabric
    BY <1>4 DEF ProvisionClientCertificate, InstallClientCertificate
  <2> QED BY <2>1, <2>2 DEF Holders
<1>5. ASSUME NEW ccdid, RemoveClientCertificate(fabric, ccdid, endpoints)
      PROVE  Holders' \subseteq Holders \cup {fabric}
  BY <1>5 DEF RemoveClientCertificate, Holders
<1> QED BY <1>1, <1>2, <1>3, <1>4, <1>5 DEF RootCertificateCommand, ClientCertificateCommand

\* What a certificate command may lose: one certificate of its fabric that no TLS
\* endpoint of the fabric uses.
LoseOne(fabric, endpoints, caid, ccdid) ==
    /\ \A f, id : HasCaid(f, id) /\ ~HasCaid(f, id)' =>
           f = fabric /\ id = caid /\ ~RootCertificateInUse(fabric, id, endpoints)
    /\ \A f, id : HasCcdid(f, id) /\ ~HasCcdid(f, id)' =>
           f = fabric /\ id = ccdid /\ ~ClientCertificateInUse(fabric, id, endpoints)
    /\ \/ UNCHANGED rootCertificateStore
       \/ UNCHANGED clientCertificateStore

\* A command that provisions keeps the ids there are.
LEMMA ProvisioningLosesNothing ==
    ASSUME NEW fabric, NEW synchronized, NEW now,
           \/ \E caid, certificate :
                  ProvisionRootCertificate(fabric, caid, certificate, synchronized, now)
           \/ \E nonceOk : ClientCsr(fabric, nonceOk)
           \/ \E ccdid, certificate, intermediates :
                  ProvisionClientCertificate(fabric, ccdid, certificate, intermediates, now)
    PROVE  /\ \A f, id : HasCaid(f, id) => HasCaid(f, id)'
           /\ \A f, id : HasCcdid(f, id) => HasCcdid(f, id)'
           /\ UNCHANGED rootCertificateStore \/ UNCHANGED clientCertificateStore
<1>1. ASSUME NEW caid, NEW certificate,
             ProvisionRootCertificate(fabric, caid, certificate, synchronized, now)
      PROVE  /\ \A f, id : HasCaid(f, id) => HasCaid(f, id)'
             /\ \A f, id : HasCcdid(f, id) => HasCcdid(f, id)'
             /\ UNCHANGED clientCertificateStore
  <2>1. UNCHANGED clientCertificateStore
    BY <1>1 DEF ProvisionRootCertificate
  <2>2. \A entry \in rootCertificateStore : \E new \in rootCertificateStore' :
            new.fabric = entry.fabric /\ new.caid = entry.caid
    <3>1. CASE AddRootCertificate(fabric, certificate)
      BY <3>1 DEF AddRootCertificate
    <3>2. CASE ReplaceRootCertificate(fabric, caid, certificate)
      <4> DEFINE Image(entry) ==
                     IF entry.fabric = fabric /\ entry.caid = caid
                     THEN [caid |-> caid, fabric |-> fabric, certificate |-> certificate]
                     ELSE entry
      <4>1. rootCertificateStore' = {Image(entry) : entry \in rootCertificateStore}
        BY <3>2 DEF ReplaceRootCertificate
      <4>2. \A entry \in rootCertificateStore :
                Image(entry).fabric = entry.fabric /\ Image(entry).caid = entry.caid
        OBVIOUS
      <4> HIDE DEF Image
      <4> QED BY <4>1, <4>2
    <3> QED BY <1>1, <3>1, <3>2 DEF ProvisionRootCertificate
  <2>3. \A f, id : HasCaid(f, id) => HasCaid(f, id)'
    BY <2>2 DEF HasCaid
  <2>4. \A f, id : HasCcdid(f, id) => HasCcdid(f, id)'
    BY <2>1 DEF HasCcdid
  <2> QED BY <2>1, <2>3, <2>4
<1>2. ASSUME NEW nonceOk, ClientCsr(fabric, nonceOk)
      PROVE  /\ \A f, id : HasCaid(f, id) => HasCaid(f, id)'
             /\ \A f, id : HasCcdid(f, id) => HasCcdid(f, id)'
             /\ UNCHANGED rootCertificateStore
  <2>1. /\ UNCHANGED rootCertificateStore
        /\ clientCertificateStore \subseteq clientCertificateStore'
    BY <1>2 DEF ClientCsr
  <2>2. \A f, id : HasCcdid(f, id) => HasCcdid(f, id)'
    BY <2>1 DEF HasCcdid
  <2>3. \A f, id : HasCaid(f, id) => HasCaid(f, id)'
    BY <2>1 DEF HasCaid
  <2> QED BY <2>1, <2>2, <2>3
<1>3. ASSUME NEW ccdid, NEW certificate, NEW intermediates,
             ProvisionClientCertificate(fabric, ccdid, certificate, intermediates, now)
      PROVE  /\ \A f, id : HasCaid(f, id) => HasCaid(f, id)'
             /\ \A f, id : HasCcdid(f, id) => HasCcdid(f, id)'
             /\ UNCHANGED rootCertificateStore
  <2>1. UNCHANGED rootCertificateStore
    BY <1>3 DEF ProvisionClientCertificate
  <2>2. \A entry \in clientCertificateStore : \E new \in clientCertificateStore' :
            new.fabric = entry.fabric /\ new.ccdid = entry.ccdid
    <3> DEFINE Image(entry) ==
                   IF entry.fabric = fabric /\ entry.ccdid = ccdid
                   THEN [ccdid |-> ccdid, fabric |-> fabric, clientCertificate |-> certificate,
                         intermediateCertificates |-> intermediates,
                         privateKey |-> entry.privateKey]
                   ELSE entry
    <3>1. clientCertificateStore' = {Image(entry) : entry \in clientCertificateStore}
      BY <1>3 DEF ProvisionClientCertificate, InstallClientCertificate
    <3>2. \A entry \in clientCertificateStore :
              Image(entry).fabric = entry.fabric /\ Image(entry).ccdid = entry.ccdid
      OBVIOUS
    <3> HIDE DEF Image
    <3> QED BY <3>1, <3>2
  <2>3. \A f, id : HasCcdid(f, id) => HasCcdid(f, id)'
    BY <2>2 DEF HasCcdid
  <2>4. \A f, id : HasCaid(f, id) => HasCaid(f, id)'
    BY <2>1 DEF HasCaid
  <2> QED BY <2>1, <2>3, <2>4
<1> QED BY <1>1, <1>2, <1>3

\* A removal of a root certificate loses the one it names, which is not in use.
LEMMA RootRemovalLosesOne ==
    ASSUME NEW fabric, NEW endpoints, NEW caid, RemoveRootCertificate(fabric, caid, endpoints)
    PROVE  LoseOne(fabric, endpoints, caid, Null)
<1>1. /\ UNCHANGED clientCertificateStore
      /\ ~RootCertificateInUse(fabric, caid, endpoints)
      /\ rootCertificateStore' =
             {entry \in rootCertificateStore : ~(entry.fabric = fabric /\ entry.caid = caid)}
  BY DEF RemoveRootCertificate, RemoveRootCertificateStatus
<1>2. \A f, id : HasCaid(f, id) /\ ~HasCaid(f, id)' => f = fabric /\ id = caid
  BY <1>1 DEF HasCaid
<1>3. \A f, id : HasCcdid(f, id) => HasCcdid(f, id)'
  BY <1>1 DEF HasCcdid
<1> QED BY <1>1, <1>2, <1>3 DEF LoseOne

\* So does a removal of a client certificate.
LEMMA ClientRemovalLosesOne ==
    ASSUME NEW fabric, NEW endpoints, NEW ccdid, RemoveClientCertificate(fabric, ccdid, endpoints)
    PROVE  LoseOne(fabric, endpoints, Null, ccdid)
<1>1. /\ UNCHANGED rootCertificateStore
      /\ ~ClientCertificateInUse(fabric, ccdid, endpoints)
      /\ clientCertificateStore' =
             {entry \in clientCertificateStore : ~(entry.fabric = fabric /\ entry.ccdid = ccdid)}
  BY DEF RemoveClientCertificate, RemoveClientCertificateStatus
<1>2. \A f, id : HasCcdid(f, id) /\ ~HasCcdid(f, id)' => f = fabric /\ id = ccdid
  BY <1>1 DEF HasCcdid
<1>3. \A f, id : HasCaid(f, id) => HasCaid(f, id)'
  BY <1>1 DEF HasCaid
<1> QED BY <1>1, <1>2, <1>3 DEF LoseOne

\* Only the removal commands lose anything.
LEMMA CommandLosesOne ==
    ASSUME NEW fabric, NEW endpoints, NEW synchronized, NEW now,
           \/ RootCertificateCommand(fabric, endpoints, synchronized, now)
           \/ ClientCertificateCommand(fabric, endpoints, now)
    PROVE  \E caid, ccdid : LoseOne(fabric, endpoints, caid, ccdid)
<1>1. CASE \/ \E caid, certificate :
                  ProvisionRootCertificate(fabric, caid, certificate, synchronized, now)
           \/ \E nonceOk : ClientCsr(fabric, nonceOk)
           \/ \E ccdid, certificate, intermediates :
                  ProvisionClientCertificate(fabric, ccdid, certificate, intermediates, now)
  BY <1>1, ProvisioningLosesNothing DEF LoseOne
<1> QED BY <1>1, RootRemovalLosesOne, ClientRemovalLosesOne
        DEF RootCertificateCommand, ClientCertificateCommand

(***************************************************************************)
(* The invariant                                                           *)
(***************************************************************************)

\* The state of the node is well formed, and a fabric index is never reused.
NodeTypesOK ==
    /\ fabrics \subseteq FabricIndexes
    /\ nextFabricIndex \in Nat
    /\ fabricsChanged \in Seq(SUBSET FabricIndexes)
    /\ \A f \in fabrics \cup Owners : f < nextFabricIndex

\* Every queued event names every fabric on the node that owns something.
OwnersAnnounced ==
    \A f \in Owners \cap fabrics : \A i \in DOMAIN fabricsChanged : f \in fabricsChanged[i]

\* A fabric that left certificates behind is missing from a queued event.
RemovalsQueued ==
    reactionLost \/ \A f \in Holders \ fabrics :
                        \E i \in DOMAIN fabricsChanged : f \notin fabricsChanged[i]

MirrorsOnline == online => AttributesMirrorStores

NodeInvariant ==
    /\ StoreInvariant
    /\ MirrorsOnline
    /\ EndpointInvariant
    /\ NodeTypesOK
    /\ OwnersAnnounced
    /\ RemovalsQueued
    /\ EndpointCertificatesExist

\* The initial node owns nothing.
LEMMA NodeInit == Init => NodeInvariant
<1> SUFFICES ASSUME Init PROVE NodeInvariant
  OBVIOUS
<1>1. StoreInvariant /\ AttributesMirrorStores
  BY CertificateInit DEF Init, CertificateInvariant
<1>2. EndpointInvariant
  BY EndpointInit DEF Init
<1>3. Holders = {} /\ EndpointFabrics = {} /\ Owners = {}
  BY DEF Init, InitTlsCertificateManagement, InitTlsClientManagement, Holders,
         EndpointFabrics, Owners
<1>4. NodeTypesOK
  BY <1>3 DEF Init, NodeTypesOK
<1>5. OwnersAnnounced /\ RemovalsQueued
  BY <1>3 DEF OwnersAnnounced, RemovalsQueued
<1>6. EndpointCertificatesExist
  BY DEF Init, InitTlsClientManagement, EndpointCertificatesExist
<1> QED BY <1>1, <1>2, <1>4, <1>5, <1>6 DEF NodeInvariant, MirrorsOnline

\* The conjuncts about the fabrics survive a step in which a fabric that is on
\* the node and in every queued event may come to own something.
LEMMA OwnersGrow ==
    ASSUME NodeInvariant, NEW fabric \in fabrics, Reacted(fabric),
           Holders' \subseteq Holders \cup {fabric},
           EndpointFabrics' \subseteq EndpointFabrics \cup {fabric},
           UNCHANGED <<fabrics, nextFabricIndex, fabricsChanged, reactionLost>>
    PROVE  NodeTypesOK' /\ OwnersAnnounced' /\ RemovalsQueued'
<1>1. Owners' \subseteq Owners \cup {fabric}
  BY DEF Owners
<1>2. NodeTypesOK'
  BY <1>1 DEF NodeInvariant, NodeTypesOK
<1>3. OwnersAnnounced'
  BY <1>1 DEF NodeInvariant, OwnersAnnounced, Reacted
<1>4. RemovalsQueued'
  <2>1. Holders' \ fabrics' \subseteq Holders \ fabrics
    OBVIOUS
  <2> QED BY <2>1 DEF NodeInvariant, RemovalsQueued
<1> QED BY <1>2, <1>3, <1>4

\* Certificate commands: they check the endpoints before they take anything away.
LEMMA CertificateCommandStep ==
    ASSUME NodeInvariant, NEW fabric \in FabricIndexes, CertificateCommand(fabric)
    PROVE  NodeInvariant'
<1>1. /\ fabric \in fabrics /\ Reacted(fabric)
      /\ UNCHANGED <<provisionedEndpoints, nextEndpointId>>
      /\ UNCHANGED <<fabrics, nextFabricIndex, fabricsChanged, reactionLost>>
  BY DEF CertificateCommand, endpointVars, nodeVars
<1>2. PICK now \in Times :
          \/ RootCertificateCommand(fabric, provisionedEndpoints, TRUE, now)
          \/ ClientCertificateCommand(fabric, provisionedEndpoints, now)
  BY DEF CertificateCommand
<1>3. StoreInvariant' /\ AttributesMirrorStores'
  BY <1>2, RootCertificateCommandInvariant, ClientCertificateCommandInvariant DEF NodeInvariant
<1>4. EndpointInvariant'
  BY <1>1, FewerEndpointsInvariant DEF NodeInvariant
<1>5. NodeTypesOK' /\ OwnersAnnounced' /\ RemovalsQueued'
  <2>1. Holders' \subseteq Holders \cup {fabric}
    BY <1>2, CommandHolders
  <2>2. EndpointFabrics' = EndpointFabrics
    BY <1>1 DEF EndpointFabrics
  <2> QED BY <1>1, <2>1, <2>2, OwnersGrow
<1>6. EndpointCertificatesExist'
  <2>1. PICK caid, ccdid : LoseOne(fabric, provisionedEndpoints, caid, ccdid)
    BY <1>2, CommandLosesOne
  <2>2. ASSUME NEW e \in provisionedEndpoints, HasCaid(e.fabricIndex, e.caid)
        PROVE  HasCaid(e.fabricIndex, e.caid)'
    BY <2>1, <2>2 DEF LoseOne, RootCertificateInUse, TlsEndpoints
  <2>3. ASSUME NEW e \in provisionedEndpoints, HasCcdid(e.fabricIndex, e.ccdid)
        PROVE  HasCcdid(e.fabricIndex, e.ccdid)'
    BY <2>1, <2>3 DEF LoseOne, ClientCertificateInUse, TlsEndpoints
  <2> QED BY <1>1, <2>2, <2>3 DEF NodeInvariant, EndpointCertificatesExist
<1> QED BY <1>3, <1>4, <1>5, <1>6 DEF NodeInvariant, MirrorsOnline

RefersTo(e, fabric, roots, clients) ==
    /\ e.fabricIndex = fabric
    /\ \E root \in roots : root.fabricIndex = fabric /\ root.caid = e.caid
    /\ e.ccdid # Null =>
           \E client \in clients : client.fabricIndex = fabric /\ client.ccdid = e.ccdid

\* An endpoint that a command adds or changes refers to certificates that its
\* fabric has in the attributes.
LEMMA NewEndpointChecked ==
    ASSUME NEW fabric, NEW synchronized, NEW roots, NEW clients,
           EndpointCommand(fabric, synchronized, roots, clients),
           NEW new \in provisionedEndpoints', new \notin provisionedEndpoints
    PROVE  RefersTo(new, fabric, roots, clients)
<1>1. \A endpointId : ~RemoveEndpoint(fabric, endpointId)
  BY DEF RemoveEndpoint
<1>2. PICK endpointId, hostname, port, caid, ccdid :
          ProvisionEndpoint(fabric, endpointId, hostname, port, caid, ccdid,
                            synchronized, roots, clients)
  BY <1>1 DEF EndpointCommand, EndpointCommandOn
<1>3. /\ \E root \in roots : root.fabricIndex = fabric /\ root.caid = caid
      /\ ccdid # Null =>
             \E client \in clients : client.fabricIndex = fabric /\ client.ccdid = ccdid
  BY <1>2, EndpointChecks DEF ProvisionEndpoint
<1>4. new.fabricIndex = fabric /\ new.caid = caid /\ new.ccdid = ccdid
  BY <1>2 DEF ProvisionEndpoint, AddEndpoint, UpdateEndpoint
<1> QED BY <1>3, <1>4 DEF RefersTo

\* An endpoint command of the node is one of the server, beside certificates that stay.
LEMMA TlsEndpointCommandIsOne ==
    ASSUME NEW fabric, TlsEndpointCommand(fabric)
    PROVE  /\ online /\ fabric \in fabrics /\ Reacted(fabric)
           /\ EndpointCommand(fabric, TRUE,
                              provisionedRootCertificates, provisionedClientCertificates)
           /\ UNCHANGED <<certificateVars, nodeVars>>
  BY DEF TlsEndpointCommand, TlsEndpointCommandOn, EndpointCommand

\* Endpoint commands: the attributes they check are the stores.
LEMMA EndpointCommandStep ==
    ASSUME NodeInvariant, NEW fabric \in FabricIndexes, TlsEndpointCommand(fabric)
    PROVE  NodeInvariant'
<1>1. /\ fabric \in fabrics /\ Reacted(fabric)
      /\ EndpointCommand(fabric, TRUE, provisionedRootCertificates, provisionedClientCertificates)
      /\ UNCHANGED <<rootCertificateStore, clientCertificateStore, nextCaid, nextCcdid,
                     provisionedRootCertificates, provisionedClientCertificates, generatedKeys>>
      /\ UNCHANGED <<fabrics, nextFabricIndex, fabricsChanged, reactionLost>>
  BY TlsEndpointCommandIsOne DEF certificateVars, storeVars, attributeVars, nodeVars
<1>2. AttributesMirrorStores
  BY TlsEndpointCommandIsOne DEF NodeInvariant, MirrorsOnline
<1>3. StoreInvariant'
  BY <1>1, RemovalInvariant DEF NodeInvariant
<1>4. AttributesMirrorStores'
  BY <1>1, <1>2 DEF AttributesMirrorStores, RootCertificatesOf, ClientCertificatesOf
<1>5. EndpointInvariant'
  BY <1>1, EndpointCommandInvariant DEF NodeInvariant
<1>6. \A new \in provisionedEndpoints' :
          \/ \E old \in provisionedEndpoints :
                 new.fabricIndex = old.fabricIndex /\ new.caid = old.caid /\ new.ccdid = old.ccdid
          \/ /\ new.fabricIndex = fabric
             /\ HasCaid(fabric, new.caid)
             /\ new.ccdid # Null => HasCcdid(fabric, new.ccdid)
  <2> SUFFICES ASSUME NEW new \in provisionedEndpoints', new \notin provisionedEndpoints
               PROVE  /\ new.fabricIndex = fabric
                      /\ HasCaid(fabric, new.caid)
                      /\ new.ccdid # Null => HasCcdid(fabric, new.ccdid)
    OBVIOUS
  <2>1. /\ new.fabricIndex = fabric
        /\ \E root \in provisionedRootCertificates :
               root.fabricIndex = fabric /\ root.caid = new.caid
        /\ new.ccdid # Null => \E client \in provisionedClientCertificates :
                                   client.fabricIndex = fabric /\ client.ccdid = new.ccdid
    <3>1. RefersTo(new, fabric, provisionedRootCertificates, provisionedClientCertificates)
      BY <1>1, NewEndpointChecked
    <3> QED BY <3>1 DEF RefersTo
  <2>2. HasCaid(fabric, new.caid)
    BY <1>2, <2>1 DEF AttributesMirrorStores, RootCertificatesOf, HasCaid
  <2>3. new.ccdid # Null => HasCcdid(fabric, new.ccdid)
    BY <1>2, <2>1 DEF AttributesMirrorStores, ClientCertificatesOf, HasCcdid
  <2> QED BY <2>1, <2>2, <2>3
<1>7. NodeTypesOK' /\ OwnersAnnounced' /\ RemovalsQueued'
  <2>1. Holders' = Holders
    BY <1>1 DEF Holders
  <2>2. EndpointFabrics' \subseteq EndpointFabrics \cup {fabric}
    BY <1>6 DEF EndpointFabrics
  <2> QED BY <1>1, <2>1, <2>2, OwnersGrow
<1>8. EndpointCertificatesExist'
  BY <1>1, <1>6 DEF NodeInvariant, EndpointCertificatesExist, HasCaid, HasCcdid
<1> QED BY <1>3, <1>4, <1>5, <1>7, <1>8 DEF NodeInvariant, MirrorsOnline

\* A fabric that joins gets an index that owns nothing.
LEMMA CommissionStep ==
    ASSUME NodeInvariant, CommissionFabric PROVE NodeInvariant'
<1>1. /\ nextFabricIndex \in FabricIndexes
      /\ fabrics' = fabrics \cup {nextFabricIndex}
      /\ nextFabricIndex' = nextFabricIndex + 1
      /\ fabricsChanged' = Append(fabricsChanged, fabrics')
      /\ UNCHANGED <<rootCertificateStore, clientCertificateStore, nextCaid, nextCcdid,
                     provisionedRootCertificates, provisionedClientCertificates, generatedKeys>>
      /\ UNCHANGED <<provisionedEndpoints, nextEndpointId, online, reactionLost>>
  BY DEF CommissionFabric, certificateVars, storeVars, attributeVars, endpointVars
<1>2. StoreInvariant'
  BY <1>1, RemovalInvariant DEF NodeInvariant
<1>3. MirrorsOnline'
  BY <1>1 DEF NodeInvariant, MirrorsOnline, AttributesMirrorStores, RootCertificatesOf,
              ClientCertificatesOf
<1>4. EndpointInvariant'
  BY <1>1, FewerEndpointsInvariant DEF NodeInvariant
<1>5. Owners' = Owners /\ Holders' = Holders
  BY <1>1 DEF Owners, Holders, EndpointFabrics
<1>6. NodeTypesOK
  BY DEF NodeInvariant
<1>7. nextFabricIndex \notin Owners
  BY <1>6 DEF NodeTypesOK
<1>8. /\ fabricsChanged' \in Seq(SUBSET FabricIndexes)
      /\ \A i \in DOMAIN fabricsChanged' :
             \/ i \in DOMAIN fabricsChanged /\ fabricsChanged'[i] = fabricsChanged[i]
             \/ fabricsChanged'[i] = fabrics'
      /\ \A i \in DOMAIN fabricsChanged :
             i \in DOMAIN fabricsChanged' /\ fabricsChanged'[i] = fabricsChanged[i]
  BY <1>1, <1>6 DEF NodeTypesOK
<1>9. NodeTypesOK'
  BY <1>1, <1>5, <1>6, <1>8, TlsIdsAssumption DEF NodeTypesOK
<1>10. OwnersAnnounced'
  BY <1>1, <1>5, <1>7, <1>8 DEF NodeInvariant, OwnersAnnounced
<1>11. RemovalsQueued'
  BY <1>1, <1>5, <1>8 DEF NodeInvariant, RemovalsQueued
<1>12. EndpointCertificatesExist'
  <2>1. \A e \in provisionedEndpoints : e.fabricIndex # nextFabricIndex
    BY <1>7 DEF Owners, EndpointFabrics
  <2> QED BY <1>1, <2>1 DEF NodeInvariant, EndpointCertificatesExist, HasCaid, HasCcdid
<1> QED BY <1>2, <1>3, <1>4, <1>9, <1>10, <1>11, <1>12 DEF NodeInvariant

\* A fabric that leaves is missing from the event that announces it.
LEMMA RemoveFabricStep ==
    ASSUME NodeInvariant, NEW fabric \in FabricIndexes, RemoveFabric(fabric)
    PROVE  NodeInvariant'
<1>1. /\ fabrics' = fabrics \ {fabric}
      /\ fabricsChanged' = Append(fabricsChanged, fabrics')
      /\ UNCHANGED <<rootCertificateStore, clientCertificateStore, nextCaid, nextCcdid,
                     provisionedRootCertificates, provisionedClientCertificates, generatedKeys>>
      /\ UNCHANGED <<provisionedEndpoints, nextEndpointId, nextFabricIndex, online, reactionLost>>
  BY DEF RemoveFabric, certificateVars, storeVars, attributeVars, endpointVars
<1>2. StoreInvariant'
  BY <1>1, RemovalInvariant DEF NodeInvariant
<1>3. MirrorsOnline'
  BY <1>1 DEF NodeInvariant, MirrorsOnline, AttributesMirrorStores, RootCertificatesOf,
              ClientCertificatesOf
<1>4. EndpointInvariant'
  BY <1>1, FewerEndpointsInvariant DEF NodeInvariant
<1>5. Owners' = Owners /\ Holders' = Holders
  BY <1>1 DEF Owners, Holders, EndpointFabrics
<1>6. NodeTypesOK
  BY DEF NodeInvariant
<1>7. /\ fabricsChanged' \in Seq(SUBSET FabricIndexes)
      /\ \A i \in DOMAIN fabricsChanged' :
             \/ i \in DOMAIN fabricsChanged /\ fabricsChanged'[i] = fabricsChanged[i]
             \/ fabricsChanged'[i] = fabrics'
      /\ \A i \in DOMAIN fabricsChanged :
             i \in DOMAIN fabricsChanged' /\ fabricsChanged'[i] = fabricsChanged[i]
      /\ \E i \in DOMAIN fabricsChanged' : fabricsChanged'[i] = fabrics'
  BY <1>1, <1>6 DEF NodeTypesOK
<1>8. NodeTypesOK'
  BY <1>1, <1>5, <1>6, <1>7 DEF NodeTypesOK
<1>9. OwnersAnnounced'
  BY <1>1, <1>5, <1>7 DEF NodeInvariant, OwnersAnnounced
<1>10. RemovalsQueued'
  BY <1>1, <1>5, <1>7 DEF NodeInvariant, RemovalsQueued
<1>11. EndpointCertificatesExist'
  BY <1>1 DEF NodeInvariant, EndpointCertificatesExist, HasCaid, HasCcdid
<1> QED BY <1>2, <1>3, <1>4, <1>8, <1>9, <1>10, <1>11 DEF NodeInvariant

\* A reaction takes the certificates of fabrics that are not on the node, and
\* leaves the queue to those that are still to go.
LEMMA ReactStep ==
    ASSUME NodeInvariant, ReactToFabricsChanged PROVE NodeInvariant'
<1> DEFINE left == fabricsChanged[1]
<1>1. /\ fabricsChanged # <<>>
      /\ HandleFabricsChanged(Head(fabricsChanged))
      /\ fabricsChanged' = Tail(fabricsChanged)
      /\ UNCHANGED <<provisionedEndpoints, nextEndpointId, fabrics, nextFabricIndex,
                     online, reactionLost>>
  BY DEF ReactToFabricsChanged, endpointVars
<1>2. NodeTypesOK
  BY DEF NodeInvariant
<1>3. /\ Head(fabricsChanged) = left
      /\ 1 \in DOMAIN fabricsChanged
      /\ fabricsChanged' \in Seq(SUBSET FabricIndexes)
      /\ \A i \in DOMAIN fabricsChanged' :
             i + 1 \in DOMAIN fabricsChanged /\ fabricsChanged'[i] = fabricsChanged[i + 1]
      /\ \A i \in DOMAIN fabricsChanged :
             i = 1 \/ (i - 1 \in DOMAIN fabricsChanged' /\ fabricsChanged'[i - 1] = fabricsChanged[i])
  BY <1>1, <1>2 DEF NodeTypesOK
<1>4. HandleFabricsChanged(left)
  BY <1>1, <1>3
<1> HIDE DEF left
<1>5. StoreInvariant' /\ (AttributesMirrorStores => AttributesMirrorStores')
  BY <1>4, HandleFabricsChangedInvariant DEF NodeInvariant
<1>6. EndpointInvariant'
  BY <1>1, FewerEndpointsInvariant DEF NodeInvariant
<1>7. Holders' = Holders \cap left /\ EndpointFabrics' = EndpointFabrics
  BY <1>1, <1>4 DEF HandleFabricsChanged, Holders, EndpointFabrics
<1>8. Owners' \subseteq Owners
  BY <1>7 DEF Owners
<1>9. NodeTypesOK'
  BY <1>1, <1>2, <1>3, <1>8 DEF NodeTypesOK
<1>10. OwnersAnnounced'
  BY <1>1, <1>3, <1>8 DEF NodeInvariant, OwnersAnnounced
<1>11. RemovalsQueued'
  BY <1>1, <1>3, <1>7 DEF NodeInvariant, RemovalsQueued, left
<1>12. EndpointCertificatesExist'
  <2>1. ASSUME NEW e \in provisionedEndpoints, e.fabricIndex \in fabrics
        PROVE  e.fabricIndex \in left
    BY <1>3, <2>1 DEF NodeInvariant, OwnersAnnounced, Owners, EndpointFabrics, left
  <2>2. \A f \in left : \A id : /\ HasCaid(f, id) => HasCaid(f, id)'
                                /\ HasCcdid(f, id) => HasCcdid(f, id)'
    BY <1>4 DEF HandleFabricsChanged, HasCaid, HasCcdid
  <2> QED BY <1>1, <2>1, <2>2 DEF NodeInvariant, EndpointCertificatesExist
<1> QED
  BY <1>1, <1>5, <1>6, <1>9, <1>10, <1>11, <1>12 DEF NodeInvariant, MirrorsOnline

\* matter.js only takes endpoints away.
LEMMA PruneStep ==
    ASSUME NodeInvariant, PruneRemovedFabrics PROVE NodeInvariant'
<1>1. /\ provisionedEndpoints' \subseteq provisionedEndpoints
      /\ UNCHANGED <<rootCertificateStore, clientCertificateStore, nextCaid, nextCcdid,
                     provisionedRootCertificates, provisionedClientCertificates, generatedKeys>>
      /\ UNCHANGED <<nextEndpointId, fabrics, nextFabricIndex, fabricsChanged, online, reactionLost>>
  BY DEF PruneRemovedFabrics, PruneEndpoints, certificateVars, storeVars, attributeVars, nodeVars
<1>2. StoreInvariant'
  BY <1>1, RemovalInvariant DEF NodeInvariant
<1>3. MirrorsOnline'
  BY <1>1 DEF NodeInvariant, MirrorsOnline, AttributesMirrorStores, RootCertificatesOf,
              ClientCertificatesOf
<1>4. EndpointInvariant'
  BY <1>1, FewerEndpointsInvariant DEF NodeInvariant
<1>5. Owners' \subseteq Owners /\ Holders' = Holders
  BY <1>1 DEF Owners, Holders, EndpointFabrics
<1>6. NodeTypesOK' /\ OwnersAnnounced'
  BY <1>1, <1>5 DEF NodeInvariant, NodeTypesOK, OwnersAnnounced
<1>7. RemovalsQueued'
  BY <1>1, <1>5 DEF NodeInvariant, RemovalsQueued
<1>8. EndpointCertificatesExist'
  BY <1>1 DEF NodeInvariant, EndpointCertificatesExist, HasCaid, HasCcdid
<1> QED BY <1>2, <1>3, <1>4, <1>6, <1>7, <1>8 DEF NodeInvariant

\* A stop empties the queue: it is orderly, or a reaction is lost for good.
LEMMA StopStep ==
    ASSUME NodeInvariant, Stop PROVE NodeInvariant'
<1>1. /\ fabricsChanged' = <<>>
      /\ UNCHANGED <<rootCertificateStore, clientCertificateStore, nextCaid, nextCcdid, generatedKeys>>
      /\ UNCHANGED <<provisionedEndpoints, nextEndpointId, fabrics, nextFabricIndex>>
  BY DEF Stop, storeVars, endpointVars
<1>2. StoreInvariant'
  BY <1>1, RemovalInvariant DEF NodeInvariant
<1>3. MirrorsOnline'
  BY DEF Stop, MirrorsOnline
<1>4. EndpointInvariant'
  BY <1>1, FewerEndpointsInvariant DEF NodeInvariant
<1>5. Owners' = Owners /\ Holders' = Holders
  BY <1>1 DEF Owners, Holders, EndpointFabrics
<1>6. NodeTypesOK' /\ OwnersAnnounced'
  BY <1>1, <1>5 DEF NodeInvariant, NodeTypesOK, OwnersAnnounced
<1>7. RemovalsQueued'
  <2>1. fabricsChanged # <<>> \/ reactionLost => reactionLost'
    BY DEF Stop
  <2>2. CASE fabricsChanged = <<>> /\ ~reactionLost
    BY <1>1, <1>5, <2>2 DEF NodeInvariant, RemovalsQueued
  <2>3. CASE fabricsChanged # <<>> \/ reactionLost
    BY <2>1, <2>3 DEF RemovalsQueued
  <2> QED BY <2>2, <2>3
<1>8. EndpointCertificatesExist'
  BY <1>1 DEF NodeInvariant, EndpointCertificatesExist, HasCaid, HasCcdid
<1> QED BY <1>2, <1>3, <1>4, <1>6, <1>7, <1>8 DEF NodeInvariant

\* A start rebuilds the attributes from the store.
LEMMA StartStep ==
    ASSUME NodeInvariant, Start PROVE NodeInvariant'
<1>1. /\ UpdateAttributes
      /\ UNCHANGED <<rootCertificateStore, clientCertificateStore, nextCaid, nextCcdid, generatedKeys>>
      /\ UNCHANGED <<provisionedEndpoints, nextEndpointId, fabrics, nextFabricIndex, fabricsChanged,
                     reactionLost>>
  BY DEF Start, InitializeTlsCertificateManagement, storeVars, endpointVars
<1>2. StoreInvariant'
  BY <1>1, RemovalInvariant DEF NodeInvariant
<1>3. AttributesMirrorStores'
  BY <1>1 DEF UpdateAttributes, AttributesMirrorStores, RootCertificatesOf, ClientCertificatesOf
<1>4. EndpointInvariant'
  BY <1>1, FewerEndpointsInvariant DEF NodeInvariant
<1>5. Owners' = Owners /\ Holders' = Holders
  BY <1>1 DEF Owners, Holders, EndpointFabrics
<1>6. NodeTypesOK' /\ OwnersAnnounced'
  BY <1>1, <1>5 DEF NodeInvariant, NodeTypesOK, OwnersAnnounced
<1>7. RemovalsQueued'
  BY <1>1, <1>5 DEF NodeInvariant, RemovalsQueued
<1>8. EndpointCertificatesExist'
  BY <1>1 DEF NodeInvariant, EndpointCertificatesExist, HasCaid, HasCcdid
<1> QED BY <1>2, <1>3, <1>4, <1>6, <1>7, <1>8 DEF NodeInvariant, MirrorsOnline

\* Every step of the node keeps the invariant.
LEMMA NodeNext ==
    NodeInvariant /\ [Next]_rootNodeVars => NodeInvariant'
<1> SUFFICES ASSUME NodeInvariant, [Next]_rootNodeVars PROVE NodeInvariant'
  OBVIOUS
<1>1. CASE UNCHANGED rootNodeVars
  <2>1. /\ UNCHANGED <<rootCertificateStore, clientCertificateStore, nextCaid, nextCcdid,
                       provisionedRootCertificates, provisionedClientCertificates, generatedKeys>>
        /\ UNCHANGED <<provisionedEndpoints, nextEndpointId>>
        /\ UNCHANGED <<fabrics, nextFabricIndex, fabricsChanged, online, reactionLost>>
    BY <1>1 DEF rootNodeVars, certificateVars, storeVars, attributeVars, endpointVars, nodeVars
  <2>2. StoreInvariant'
    BY <2>1, RemovalInvariant DEF NodeInvariant
  <2>3. EndpointInvariant'
    BY <2>1, FewerEndpointsInvariant DEF NodeInvariant
  <2>4. MirrorsOnline'
    BY <2>1 DEF NodeInvariant, MirrorsOnline, AttributesMirrorStores, RootCertificatesOf,
                ClientCertificatesOf
  <2>5. Owners' = Owners /\ Holders' = Holders
    BY <2>1 DEF Owners, Holders, EndpointFabrics
  <2>6. NodeTypesOK' /\ OwnersAnnounced'
    BY <2>1, <2>5 DEF NodeInvariant, NodeTypesOK, OwnersAnnounced
  <2>7. RemovalsQueued'
    BY <2>1, <2>5 DEF NodeInvariant, RemovalsQueued
  <2>8. EndpointCertificatesExist'
    BY <2>1 DEF NodeInvariant, EndpointCertificatesExist, HasCaid, HasCcdid
  <2> QED BY <2>2, <2>3, <2>4, <2>6, <2>7, <2>8 DEF NodeInvariant
<1> QED
  BY <1>1, CertificateCommandStep, EndpointCommandStep, CommissionStep, RemoveFabricStep,
     ReactStep, PruneStep, StopStep, StartStep DEF Next

\* The node keeps its invariant in every reachable state.
THEOREM NodeInvariantAlways == Spec => []NodeInvariant
  BY NodeInit, NodeNext, PTL DEF Spec

\* A TLS endpoint of a fabric on the node never refers to a certificate that is
\* gone, whatever the fabrics did and whenever the process crashed.
THEOREM EndpointCertificatesAlwaysExist == Spec => []EndpointCertificatesExist
<1>1. NodeInvariant => EndpointCertificatesExist
  BY DEF NodeInvariant
<1> QED BY <1>1, NodeInvariantAlways, PTL

\* While the node serves requests, its attributes agree with the Find commands.
THEOREM AttributesAlwaysAgreeOnline == Spec => []AttributesAgreeOnline
<1>1. AttributesMirrorStores => AttributesAgreeWithFind
  BY DEF AttributesMirrorStores, AttributesAgreeWithFind, FindRootCertificate,
         FindClientCertificate
<1>2. NodeInvariant => AttributesAgreeOnline
  BY <1>1 DEF NodeInvariant, MirrorsOnline, AttributesAgreeOnline
<1> QED BY <1>2, NodeInvariantAlways, PTL

\* Only a crash that loses a reaction leaves certificates or private keys of a
\* removed fabric on a node that has settled.
THEOREM OrphansAlwaysByCrash == Spec => []OrphansOnlyByCrash
<1>1. ASSUME NodeInvariant, ~reactionLost, fabricsChanged = <<>>
      PROVE  \A entry \in rootCertificateStore \cup clientCertificateStore : entry.fabric \in fabrics
  <2>1. Holders \subseteq fabrics
    BY <1>1 DEF NodeInvariant, RemovalsQueued
  <2> QED BY <2>1 DEF Holders
<1>2. NodeInvariant => OrphansOnlyByCrash
  BY <1>1 DEF OrphansOnlyByCrash, NoOrphanedCertificates
<1> QED BY <1>2, NodeInvariantAlways, PTL

\* A fabric that loses a certificate has its id before the step and not after it.
LEMMA LostIds ==
    ASSUME NEW f
    PROVE  /\ \A id : id \in LostCaids(f) <=> HasCaid(f, id) /\ ~HasCaid(f, id)'
           /\ \A id : id \in LostCcdids(f) <=> HasCcdid(f, id) /\ ~HasCcdid(f, id)'
<1>1. /\ \A id : id \in Caids(OfFabric(rootCertificateStore, f)) <=> HasCaid(f, id)
      /\ \A id : id \in Ccdids(OfFabric(clientCertificateStore, f)) <=> HasCcdid(f, id)
  BY DEF Caids, Ccdids, OfFabric, HasCaid, HasCcdid
<1>2. /\ \A id : id \in Caids(OfFabric(rootCertificateStore, f))' <=> HasCaid(f, id)'
      /\ \A id : id \in Ccdids(OfFabric(clientCertificateStore, f))' <=> HasCcdid(f, id)'
  BY DEF Caids, Ccdids, OfFabric, HasCaid, HasCcdid
<1> QED BY <1>1, <1>2 DEF LostCaids, LostCcdids

\* Nothing is lost where nothing is taken.
LEMMA NothingLost ==
    ASSUME NEW f,
           OfFabric(rootCertificateStore, f) \subseteq OfFabric(rootCertificateStore, f)',
           OfFabric(clientCertificateStore, f) \subseteq OfFabric(clientCertificateStore, f)'
    PROVE  ~LosesCertificates(f)
  BY DEF LosesCertificates, LostCaids, LostCcdids, Caids, Ccdids

\* The fabric that loses a certificate by a command is the one that sent it.
LEMMA OwnCommandLoses ==
    ASSUME NEW fabric, CertificateCommand(fabric), NEW f, LosesCertificates(f)
    PROVE  f = fabric
<1>1. PICK now \in Times :
          \/ RootCertificateCommand(fabric, provisionedEndpoints, TRUE, now)
          \/ ClientCertificateCommand(fabric, provisionedEndpoints, now)
  BY DEF CertificateCommand
<1>2. PICK caid, ccdid : LoseOne(fabric, provisionedEndpoints, caid, ccdid)
  BY <1>1, CommandLosesOne
<1> QED BY <1>2, LostIds DEF LosesCertificates, LoseOne

\* It is a removal command, and takes the one certificate it names.
LEMMA CommandLosesNamed ==
    ASSUME NEW fabric, CertificateCommand(fabric), LosesCertificates(fabric)
    PROVE  /\ OwnRemoval(fabric)
           /\ \A e \in EndpointsOf(fabric) :
                  e.caid \notin LostCaids(fabric) /\ e.ccdid \notin LostCcdids(fabric)
<1>1. PICK now \in Times :
          \/ RootCertificateCommand(fabric, provisionedEndpoints, TRUE, now)
          \/ ClientCertificateCommand(fabric, provisionedEndpoints, now)
  BY DEF CertificateCommand
<1>2. UNCHANGED <<endpointVars, nodeVars>>
  BY DEF CertificateCommand
<1>3. ASSUME NEW caid, RemoveRootCertificate(fabric, caid, provisionedEndpoints)
      PROVE  /\ OwnRemoval(fabric)
             /\ \A e \in EndpointsOf(fabric) :
                    e.caid \notin LostCaids(fabric) /\ e.ccdid \notin LostCcdids(fabric)
  <2>1. caid \in TlsIds /\ UNCHANGED clientCertificateStore
    BY <1>3 DEF RemoveRootCertificate, RemoveRootCertificateStatus
  <2>2. LostCcdids(fabric) = {}
    BY <2>1 DEF LostCcdids, Ccdids, OfFabric
  <2>3. LoseOne(fabric, provisionedEndpoints, caid, Null)
    BY <1>3, RootRemovalLosesOne
  <2>4. LostCaids(fabric) = {caid} /\ ~RootCertificateInUse(fabric, caid, provisionedEndpoints)
    BY <2>2, <2>3, LostIds DEF LosesCertificates, LoseOne
  <2> QED BY <1>2, <1>3, <2>1, <2>2, <2>4
          DEF OwnRemoval, EndpointsOf, RootCertificateInUse, TlsEndpoints
<1>4. ASSUME NEW ccdid, RemoveClientCertificate(fabric, ccdid, provisionedEndpoints)
      PROVE  /\ OwnRemoval(fabric)
             /\ \A e \in EndpointsOf(fabric) :
                    e.caid \notin LostCaids(fabric) /\ e.ccdid \notin LostCcdids(fabric)
  <2>1. ccdid \in TlsIds /\ UNCHANGED rootCertificateStore
    BY <1>4 DEF RemoveClientCertificate, RemoveClientCertificateStatus
  <2>2. LostCaids(fabric) = {}
    BY <2>1 DEF LostCaids, Caids, OfFabric
  <2>3. LoseOne(fabric, provisionedEndpoints, Null, ccdid)
    BY <1>4, ClientRemovalLosesOne
  <2>4. LostCcdids(fabric) = {ccdid} /\ ~ClientCertificateInUse(fabric, ccdid, provisionedEndpoints)
    BY <2>2, <2>3, LostIds DEF LosesCertificates, LoseOne
  <2> QED BY <1>2, <1>4, <2>1, <2>2, <2>4
          DEF OwnRemoval, EndpointsOf, ClientCertificateInUse, TlsEndpoints
<1>5. CASE \/ \E caid, certificate :
                  ProvisionRootCertificate(fabric, caid, certificate, TRUE, now)
           \/ \E nonceOk : ClientCsr(fabric, nonceOk)
           \/ \E ccdid, certificate, intermediates :
                  ProvisionClientCertificate(fabric, ccdid, certificate, intermediates, now)
  BY <1>5, ProvisioningLosesNothing, LostIds DEF LosesCertificates
<1> QED BY <1>1, <1>3, <1>4, <1>5 DEF RootCertificateCommand, ClientCertificateCommand

\* A fabric that stays loses certificates only by its own removal commands, each the
\* one it names and none in use: its index is in every queued event, so no reaction
\* takes from it.
THEOREM LiveFabricAlwaysKeepsCertificates == Spec => LiveFabricKeepsCertificates
<1>1. ASSUME NodeInvariant, [Next]_rootNodeVars PROVE LiveFabricsLoseWhatTheyRemove
  <2> SUFFICES ASSUME NEW f \in fabrics, LosesCertificates(f) PROVE LosesWhatItRemoves(f)
    BY DEF LiveFabricsLoseWhatTheyRemove
  <2>1. ASSUME UNCHANGED <<rootCertificateStore, clientCertificateStore>> PROVE FALSE
    BY <2>1, NothingLost DEF OfFabric
  <2>2. ASSUME ReactToFabricsChanged PROVE FALSE
    <3>1. /\ HandleFabricsChanged(Head(fabricsChanged))
          /\ fabricsChanged # <<>>
          /\ fabricsChanged \in Seq(SUBSET FabricIndexes)
      BY <1>1, <2>2 DEF ReactToFabricsChanged, NodeInvariant, NodeTypesOK
    <3>2. 1 \in DOMAIN fabricsChanged /\ Head(fabricsChanged) = fabricsChanged[1]
      BY <3>1
    <3>3. f \in Owners => f \in Head(fabricsChanged)
      BY <1>1, <3>2 DEF NodeInvariant, OwnersAnnounced
    <3>4. /\ \A entry \in OfFabric(rootCertificateStore, f) : f \in Owners
          /\ \A entry \in OfFabric(clientCertificateStore, f) : f \in Owners
      BY DEF OfFabric, Owners, Holders
    <3>5. /\ OfFabric(rootCertificateStore, f) \subseteq OfFabric(rootCertificateStore, f)'
          /\ OfFabric(clientCertificateStore, f) \subseteq OfFabric(clientCertificateStore, f)'
      BY <3>1, <3>3, <3>4 DEF HandleFabricsChanged, OfFabric
    <3> QED BY <3>5, NothingLost
  <2>3. PICK fabric \in FabricIndexes : CertificateCommand(fabric)
    BY <1>1, <2>1, <2>2, TlsEndpointCommandIsOne DEF Next, rootNodeVars, certificateVars, storeVars,
       RemoveFabric, CommissionFabric, PruneRemovedFabrics, Stop, Start,
       InitializeTlsCertificateManagement
  <2>4. f = fabric
    BY <2>3, OwnCommandLoses
  <2>5. \A other \in FabricIndexes \ {f} : ~CertificateCommand(other)
    BY OwnCommandLoses
  <2> QED BY <2>3, <2>4, <2>5, CommandLosesNamed DEF LosesWhatItRemoves
<1>2. Spec => [][LiveFabricsLoseWhatTheyRemove]_rootNodeVars
  BY <1>1, NodeInvariantAlways, PTL DEF Spec
<1> QED BY <1>2 DEF LiveFabricKeepsCertificates

\* What a removed fabric has lost does not come back: its index is not used again
\* and no command, update or restart writes entries of another fabric.
StaysForgotten(f) ==
    f < nextFabricIndex /\ f \notin fabrics /\ Forgotten(f) =>
        f < nextFabricIndex' /\ f \notin fabrics' /\ Forgotten(f)'

\* Forgetting a removed fabric is for good: the safety half of RemovedFabricsForgotten,
\* for every number of fabrics and through crashes and late reactions.
THEOREM ForgottenForGood == Spec => [][\A f \in FabricIndexes : StaysForgotten(f)]_rootNodeVars
<1>1. ASSUME NodeInvariant, [Next]_rootNodeVars, NEW f \in FabricIndexes PROVE StaysForgotten(f)
  <2> SUFFICES ASSUME f < nextFabricIndex, f \notin fabrics, Forgotten(f)
               PROVE  f < nextFabricIndex' /\ f \notin fabrics' /\ Forgotten(f)'
    BY DEF StaysForgotten
  <2>1. f \notin Owners
    BY DEF Forgotten, OfFabric, EndpointsOf, Owners, Holders, EndpointFabrics
  <2>2. f < nextFabricIndex' /\ f \notin fabrics'
    <3>1. nextFabricIndex \in Nat /\ f \in Nat
      BY <1>1, TlsIdsAssumption DEF NodeInvariant, NodeTypesOK, FabricIndexes
    <3>2. CASE CommissionFabric
      BY <3>1, <3>2 DEF CommissionFabric
    <3>3. CASE UNCHANGED nextFabricIndex /\ fabrics' \subseteq fabrics
      BY <3>3
    <3> QED BY <1>1, <3>2, <3>3 DEF Next, rootNodeVars, nodeVars, CertificateCommand,
            TlsEndpointCommand, TlsEndpointCommandOn, RemoveFabric, ReactToFabricsChanged,
            PruneRemovedFabrics, Stop, Start
  <2>3. \E fabric : Owners' \subseteq Owners \cup {fabric} /\ fabric # f
    <3>1. ASSUME NEW fabric \in FabricIndexes, CertificateCommand(fabric)
          PROVE  Owners' \subseteq Owners \cup {fabric} /\ fabric # f
      <4>1. PICK now \in Times :
                \/ RootCertificateCommand(fabric, provisionedEndpoints, TRUE, now)
                \/ ClientCertificateCommand(fabric, provisionedEndpoints, now)
        BY <3>1 DEF CertificateCommand
      <4>2. Holders' \subseteq Holders \cup {fabric}
        BY <4>1, CommandHolders
      <4> QED BY <3>1, <4>2 DEF CertificateCommand, endpointVars, Owners, EndpointFabrics
    <3>2. ASSUME NEW fabric \in FabricIndexes, TlsEndpointCommand(fabric)
          PROVE  Owners' \subseteq Owners \cup {fabric} /\ fabric # f
      <4>1. \A e \in provisionedEndpoints' : e.fabricIndex = fabric \/ e \in provisionedEndpoints
        BY <3>2, TlsEndpointCommandIsOne, NewEndpointChecked DEF RefersTo
      <4> QED BY <3>2, <4>1, TlsEndpointCommandIsOne DEF certificateVars, storeVars, Owners,
                 Holders, EndpointFabrics
    <3>3. ASSUME rootCertificateStore' \subseteq rootCertificateStore,
                 clientCertificateStore' \subseteq clientCertificateStore,
                 provisionedEndpoints' \subseteq provisionedEndpoints
          PROVE  Owners' \subseteq Owners
      BY <3>3 DEF Owners, Holders, EndpointFabrics
    <3>4. ASSUME Owners' \subseteq Owners
          PROVE  \E fabric : Owners' \subseteq Owners \cup {fabric} /\ fabric # f
      <4>1. Owners' \subseteq Owners \cup {f + 1} /\ f + 1 # f
        BY <3>4, TlsIdsAssumption DEF FabricIndexes
      <4> QED BY <4>1
    <3> QED BY <1>1, <3>1, <3>2, <3>3, <3>4 DEF Next, rootNodeVars, certificateVars, storeVars,
            endpointVars, RemoveFabric, CommissionFabric, ReactToFabricsChanged,
            HandleFabricsChanged, PruneRemovedFabrics, PruneEndpoints, Stop, Start,
            InitializeTlsCertificateManagement
  <2>4. f \notin Owners'
    BY <2>1, <2>3
  <2> QED BY <2>2, <2>4 DEF Forgotten, OfFabric, EndpointsOf, Owners, Holders, EndpointFabrics
<1>2. NodeInvariant /\ [Next]_rootNodeVars => [\A f \in FabricIndexes : StaysForgotten(f)]_rootNodeVars
  BY <1>1
<1> QED BY <1>2, NodeInvariantAlways, PTL DEF Spec

(***************************************************************************)
(* What the two servers promise alone they keep on the node, each with the *)
(* other's data, the reactions of matter.js and the restarts around it.    *)
(***************************************************************************)

\* A step of the node is one of the certificate server beside the endpoints there
\* are, or leaves its stores alone.
LEMMA NodeStepOfCertificates ==
    ASSUME NodeInvariant, [Next]_rootNodeVars
    PROVE  \/ ServerStep(provisionedEndpoints)
           \/ UNCHANGED <<rootCertificateStore, clientCertificateStore, generatedKeys>>
<1>1. ASSUME NEW fabric \in FabricIndexes, CertificateCommand(fabric)
      PROVE  ServerStep(provisionedEndpoints)
  BY <1>1 DEF CertificateCommand, ServerStep
<1>2. ASSUME ReactToFabricsChanged PROVE ServerStep(provisionedEndpoints)
  <2>1. /\ HandleFabricsChanged(Head(fabricsChanged)) /\ fabricsChanged # <<>>
        /\ fabricsChanged \in Seq(SUBSET FabricIndexes)
    BY <1>2 DEF ReactToFabricsChanged, NodeInvariant, NodeTypesOK
  <2>2. Head(fabricsChanged) \in SUBSET FabricIndexes
    BY <2>1
  <2> QED BY <2>1, <2>2 DEF ServerStep
<1> QED
  BY <1>1, <1>2, TlsEndpointCommandIsOne DEF Next, rootNodeVars, certificateVars, storeVars,
     RemoveFabric, CommissionFabric, PruneRemovedFabrics, Stop, Start,
     InitializeTlsCertificateManagement

\* And one of the endpoint server, or it leaves the endpoints alone.
LEMMA NodeStepOfEndpoints ==
    ASSUME [Next]_rootNodeVars PROVE EndpointStep \/ UNCHANGED endpointVars
<1>1. ASSUME NEW fabric \in FabricIndexes, TlsEndpointCommand(fabric) PROVE EndpointStep
  BY <1>1, TlsEndpointCommandIsOne DEF EndpointStep
<1>2. ASSUME PruneRemovedFabrics PROVE EndpointStep
  BY <1>2 DEF PruneRemovedFabrics, EndpointStep
<1> QED
  BY <1>1, <1>2 DEF Next, rootNodeVars, CertificateCommand, RemoveFabric, CommissionFabric,
     ReactToFabricsChanged, Stop, Start

\* The ids of the two servers stay unique, their lookups exact, every certificate
\* beside its key and every address once, also on a node that restarts and crashes.
THEOREM NodeKeepsServersConsistent ==
    Spec => [](/\ CaidsUnique /\ CcdidsUnique /\ RootLookupIsExact /\ ClientLookupIsExact
               /\ ClientCertificateMatchesKey /\ PrivateKeysDistinct
               /\ EndpointIdsUnique /\ AddressesUnique)
<1>1. NodeInvariant => /\ CaidsUnique /\ CcdidsUnique /\ RootLookupIsExact /\ ClientLookupIsExact
                       /\ ClientCertificateMatchesKey /\ PrivateKeysDistinct
                       /\ EndpointIdsUnique /\ AddressesUnique
  BY DEF NodeInvariant, StoreInvariant, EndpointInvariant
<1> QED BY <1>1, NodeInvariantAlways, PTL

\* The node as a whole is an implementation of ClientCredentials: the credential
\* store promised for the server alone is the one of a node whose fabrics come and
\* go, with late reactions, restarts and crashes.
THEOREM NodeImplementsClientCredentials == Spec => ImplementsClientCredentials
<1>1. Init => Credentials!Init
  BY CredentialsInit DEF Init
<1>2. NodeInvariant /\ [Next]_rootNodeVars => [Credentials!Next]_(Credentials!credentialVars)
  <2>1. UNCHANGED <<rootCertificateStore, clientCertificateStore, generatedKeys>>
            => UNCHANGED Credentials!credentialVars
    BY DEF Credentials!credentialVars
  <2> QED BY <2>1, NodeStepOfCertificates, StepImplementsClientCredentials DEF NodeInvariant
<1> QED
  BY <1>1, <1>2, NodeInvariantAlways, PTL
     DEF Spec, ImplementsClientCredentials, Credentials!Spec

\* No restart, crash or reaction takes a key or an installed certificate from a CCDID.
THEOREM NodeRotationKeepsKey == Spec => RotationKeepsKeyAndCertificate
<1>1. NodeInvariant /\ [Next]_rootNodeVars => [EntriesKept]_certificateVars
  <2>1. CcdidsUnique /\ UNCHANGED clientCertificateStore => EntriesKept
    BY DEF CcdidsUnique, EntriesKept
  <2> QED BY <2>1, NodeStepOfCertificates, StepKeepsEntries DEF NodeInvariant, StoreInvariant
<1>2. Spec => [][EntriesKept]_certificateVars
  BY <1>1, NodeInvariantAlways, PTL DEF Spec
<1> QED BY <1>2 DEF RotationKeepsKeyAndCertificate, EntriesKept

\* On the node, an endpoint of a fabric that is on it changes or goes only by a
\* command of that fabric which names it, and one of a removed fabric only when
\* matter.js drops what removed fabrics left; no other command touches it.
NodeTouchesOnlyNamed ==
    \A e \in provisionedEndpoints \ provisionedEndpoints' :
        /\ IF e.fabricIndex \in fabrics
           THEN TlsEndpointCommandOn(e.fabricIndex, e.endpointId)
           ELSE PruneRemovedFabrics
        /\ \A fabric \in FabricIndexes, endpointId \in TlsIdFields \cup {Null} :
               TlsEndpointCommandOn(fabric, endpointId) => Names(fabric, endpointId, e)

\* So it is, whatever the certificate server, the other fabrics and the process do.
THEOREM NodeOnlyNamedEndpointsChange == Spec => [][NodeTouchesOnlyNamed]_rootNodeVars
<1>1. ASSUME NodeInvariant, [Next]_rootNodeVars PROVE NodeTouchesOnlyNamed
  <2> SUFFICES ASSUME NEW e \in provisionedEndpoints \ provisionedEndpoints'
               PROVE  /\ IF e.fabricIndex \in fabrics
                         THEN TlsEndpointCommandOn(e.fabricIndex, e.endpointId)
                         ELSE PruneRemovedFabrics
                      /\ \A fabric \in FabricIndexes, endpointId \in TlsIdFields \cup {Null} :
                             TlsEndpointCommandOn(fabric, endpointId) => Names(fabric, endpointId, e)
    BY DEF NodeTouchesOnlyNamed
  <2>1. ASSUME NEW fabric, NEW endpointId, TlsEndpointCommandOn(fabric, endpointId)
        PROVE  Names(fabric, endpointId, e) /\ fabric \in fabrics
    BY <1>1, <2>1, CommandTouchesNamed DEF TlsEndpointCommandOn, NodeInvariant
  <2>2. ASSUME PruneRemovedFabrics PROVE e.fabricIndex \notin fabrics
    BY <2>2, PruneTouchesOthers DEF PruneRemovedFabrics
  <2>3. \/ PruneRemovedFabrics
        \/ \E fabric, endpointId : TlsEndpointCommandOn(fabric, endpointId)
    BY <1>1 DEF Next, rootNodeVars, endpointVars, CertificateCommand, TlsEndpointCommand,
       RemoveFabric, CommissionFabric, ReactToFabricsChanged, Stop, Start
  <2> QED BY <2>1, <2>2, <2>3 DEF Names
<1>2. NodeInvariant /\ [Next]_rootNodeVars => [NodeTouchesOnlyNamed]_rootNodeVars
  BY <1>1
<1> QED BY <1>2, NodeInvariantAlways, PTL DEF Spec

\* The quotas of certificates and endpoints of a node, which no crash and no late
\* reaction takes a fabric over.
LEMMA NodeQuotas == Spec => [](QuotaInvariant /\ EndpointQuota)
<1>1. Init => QuotaInvariant /\ EndpointQuota
  BY QuotaInit, EndpointQuotaInit DEF Init
<1>2. NodeInvariant /\ QuotaInvariant /\ EndpointQuota /\ [Next]_rootNodeVars
          => QuotaInvariant' /\ EndpointQuota'
  <2> SUFFICES ASSUME NodeInvariant, QuotaInvariant, EndpointQuota, [Next]_rootNodeVars
               PROVE  QuotaInvariant' /\ EndpointQuota'
    OBVIOUS
  <2>1. QuotaInvariant'
    BY NodeStepOfCertificates, QuotaNext
  <2>2. EndpointQuota'
    BY NodeStepOfEndpoints, EndpointQuotaNext DEF endpointVars
  <2> QED BY <2>1, <2>2
<1> QED BY <1>1, <1>2, NodeInvariantAlways, PTL DEF Spec

\* On the node every fabric stays within its three limits.
THEOREM NodeKeepsQuotas ==
    Spec => [](/\ RootCertificatesWithinLimit /\ ClientCertificatesWithinLimit
               /\ EndpointsWithinLimit)
<1>1. QuotaInvariant /\ EndpointQuota =>
          /\ RootCertificatesWithinLimit /\ ClientCertificatesWithinLimit
          /\ EndpointsWithinLimit
  BY WithinLimits DEF EndpointQuota
<1> QED BY <1>1, NodeQuotas, PTL

\* The three allocators of a node never run out, although its fabric indexes grow and
\* what a removed fabric left stays until the reaction: it counts as that fabric's.
THEOREM NodeAllocatorsNeverExhausted ==
    ASSUME EnoughIds, MaxFabricIndex * MaxProvisioned <= MaxTlsId
    PROVE  Spec => [](AllocatorNeverExhausted /\ ~IdsExhausted(EndpointIds))
<1>1. NodeInvariant /\ QuotaInvariant /\ EndpointQuota =>
          AllocatorNeverExhausted /\ ~IdsExhausted(EndpointIds)
  BY AllocatorsHaveIds, EndpointIdsLeft DEF NodeInvariant, EndpointInvariant
<1> QED BY <1>1, NodeQuotas, NodeInvariantAlways, PTL

\* The attributes of a stopped node are those of a process that has not started.
ProcessTypeOK ==
    /\ online \in BOOLEAN /\ reactionLost \in BOOLEAN
    /\ nextFabricIndex \in 1..(MaxFabricIndex + 1)
    /\ ~online => provisionedRootCertificates = {} /\ provisionedClientCertificates = {}

\* What is stored is well formed by the invariant, and what is not stored is empty
\* offline and the image of the stores online.
LEMMA NodeTypes ==
    ASSUME NodeInvariant, ProcessTypeOK PROVE RootNodeTypeOK
<1>1. CertificatesTypeOK
  <2>1. CASE online
    BY <2>1, TypeFromInvariant DEF NodeInvariant, MirrorsOnline, CertificateInvariant
  <2>2. CASE ~online
    BY <2>2 DEF ProcessTypeOK, NodeInvariant, StoreInvariant, StoresTypeOK, CertificatesTypeOK
  <2> QED BY <2>1, <2>2
<1>2. EndpointsTypeOK /\ fabrics \subseteq FabricIndexes /\ fabricsChanged \in Seq(SUBSET FabricIndexes)
  BY DEF NodeInvariant, EndpointInvariant, NodeTypesOK
<1> QED BY <1>1, <1>2 DEF ProcessTypeOK, RootNodeTypeOK

\* A stop clears the attributes, and nothing but a start fills them again.
LEMMA ProcessNext ==
    ASSUME ProcessTypeOK, [Next]_rootNodeVars PROVE ProcessTypeOK'
<1>1. ASSUME NEW fabric \in FabricIndexes,
             CertificateCommand(fabric) \/ TlsEndpointCommand(fabric) \/ RemoveFabric(fabric)
      PROVE  ProcessTypeOK'
  BY <1>1, TlsEndpointCommandIsOne
     DEF CertificateCommand, RemoveFabric, nodeVars, certificateVars, attributeVars, ProcessTypeOK
<1>2. CASE CommissionFabric
  BY <1>2, TlsIdsAssumption DEF CommissionFabric, FabricIndexes, ProcessTypeOK
<1>3. CASE ReactToFabricsChanged
  BY <1>3 DEF ReactToFabricsChanged, ProcessTypeOK
<1>4. CASE PruneRemovedFabrics
  BY <1>4 DEF PruneRemovedFabrics, nodeVars, certificateVars, attributeVars, ProcessTypeOK
<1>5. CASE Stop
  BY <1>5 DEF Stop, ProcessTypeOK
<1>6. CASE Start
  BY <1>6 DEF Start, ProcessTypeOK
<1>7. CASE UNCHANGED rootNodeVars
  BY <1>7 DEF rootNodeVars, nodeVars, certificateVars, attributeVars, ProcessTypeOK
<1> QED BY <1>1, <1>2, <1>3, <1>4, <1>5, <1>6, <1>7 DEF Next

\* The state of the node is always well formed; offline, no attribute outlives the
\* process.
THEOREM NodeTypeCorrect == Spec => []RootNodeTypeOK
<1>1. Init => ProcessTypeOK
  <2>1. 1 \in 1..(MaxFabricIndex + 1)
    BY TlsIdsAssumption
  <2> QED BY <2>1 DEF Init, InitTlsCertificateManagement, ProcessTypeOK
<1>2. Spec => []ProcessTypeOK
  BY <1>1, ProcessNext, PTL DEF Spec
<1> QED BY <1>2, NodeTypes, NodeInvariantAlways, PTL
=============================================================================
