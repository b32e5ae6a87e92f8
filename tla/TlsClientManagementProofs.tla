---------------------- MODULE TlsClientManagementProofs ----------------------
(***************************************************************************)
(* The TLS endpoints are safe for every number of fabrics, ids and         *)
(* addresses.  EndpointInvariant is inductive: an addition takes a free    *)
(* id, an update keeps the id of its entry, and both compare the address   *)
(* with those of the other endpoints of the fabric.  The lemmas hold for   *)
(* any attributes of the certificate server, so that RootNodeProofs can    *)
(* cite them.                                                              *)
(***************************************************************************)
EXTENDS TlsClientManagement, TlsCertificateManagementProofs

EndpointInvariant == EndpointsTypeOK /\ EndpointIdsUnique /\ AddressesUnique

\* What the server does next to a certificate server with any attributes.
EndpointStep ==
    \/ \E fabric, synchronized, roots, clients : EndpointCommand(fabric, synchronized, roots, clients)
    \/ \E fabricsLeft : PruneEndpoints(fabricsLeft)

\* What ProvisionEndpoint has checked when it succeeds.
LEMMA EndpointChecks ==
    ASSUME NEW fabric, NEW endpointId, NEW hostname, NEW port, NEW caid, NEW ccdid,
           NEW synchronized, NEW roots, NEW clients,
           ProvisionEndpointStatus(fabric, endpointId, hostname, port, caid, ccdid,
                                   synchronized, roots, clients) = "Success"
    PROVE  /\ fabric # NoFabric
           /\ ~InvalidAddress(hostname, port)
           /\ caid \in TlsIds
           /\ ccdid = Null \/ ccdid \in TlsIds
           /\ endpointId = Null \/ endpointId \in TlsIds
           /\ \E root \in roots : root.fabricIndex = fabric /\ root.caid = caid
           /\ ccdid # Null =>
                  \E client \in clients : client.fabricIndex = fabric /\ client.ccdid = ccdid
           /\ ~Duplicate(fabric, endpointId, hostname, port)
           /\ endpointId = Null => ~EndpointsFull(fabric) /\ ~IdsExhausted(EndpointIds)
  BY DEF ProvisionEndpointStatus

\* Adding an endpoint takes a free id and a new address.
LEMMA AddEndpointInvariant ==
    ASSUME EndpointInvariant, NEW fabric \in FabricIndexes, NEW hostname \in Hostnames,
           NEW port \in Ports, NEW caid \in TlsIds, NEW ccdid \in TlsIds \cup {Null},
           ~InvalidAddress(hostname, port),
           ~Duplicate(fabric, Null, hostname, port),
           ~IdsExhausted(EndpointIds),
           AddEndpoint(fabric, hostname, port, caid, ccdid)
    PROVE  EndpointInvariant'
<1> DEFINE id == AllocateId(EndpointIds, nextEndpointId)
           new == [endpointId |-> id, hostname |-> hostname, port |-> port, caid |-> caid,
                   ccdid |-> ccdid, referenceCount |-> 0, fabricIndex |-> fabric]
<1>1. id \in TlsIds \ EndpointIds
  BY AllocateIdFresh DEF EndpointInvariant, EndpointsTypeOK
<1>2. nextEndpointId' \in TlsIds
  BY <1>1, IdAfterValid DEF AddEndpoint
<1>3. provisionedEndpoints' = provisionedEndpoints \cup {new}
  BY DEF AddEndpoint
<1> HIDE DEF id
<1>4. new \in TlsEndpoint
  BY <1>1, EndpointsAssumption DEF TlsEndpoint, InvalidAddress
<1>5. EndpointsTypeOK'
  BY <1>2, <1>3, <1>4 DEF EndpointInvariant, EndpointsTypeOK
<1>6. \A e \in provisionedEndpoints : e.endpointId # new.endpointId
  BY <1>1 DEF EndpointIds
<1>7. \A e \in provisionedEndpoints : e.endpointId # Null
  BY TlsIdsAssumption DEF EndpointInvariant, EndpointsTypeOK, TlsEndpoint, TlsIds
<1>8. \A e \in provisionedEndpoints :
          ~(e.fabricIndex = new.fabricIndex /\ e.hostname = new.hostname /\ e.port = new.port)
  BY <1>7 DEF Duplicate, EndpointsOf
<1> HIDE DEF new
<1>9. EndpointIdsUnique'
  BY <1>3, <1>6 DEF EndpointInvariant, EndpointIdsUnique
<1>10. AddressesUnique'
  BY <1>3, <1>8 DEF EndpointInvariant, AddressesUnique
<1> QED BY <1>5, <1>9, <1>10 DEF EndpointInvariant

\* Updating an endpoint keeps its id and its fabric, and takes an address that no
\* other endpoint of the fabric has.
LEMMA UpdateEndpointInvariant ==
    ASSUME EndpointInvariant, NEW fabric \in FabricIndexes, NEW endpointId \in TlsIds,
           NEW hostname \in Hostnames, NEW port \in Ports, NEW caid \in TlsIds,
           NEW ccdid \in TlsIds \cup {Null},
           ~InvalidAddress(hostname, port),
           ~Duplicate(fabric, endpointId, hostname, port),
           UpdateEndpoint(fabric, endpointId, hostname, port, caid, ccdid)
    PROVE  EndpointInvariant'
<1> DEFINE Image(e) ==
               IF e.fabricIndex = fabric /\ e.endpointId = endpointId
               THEN [endpointId |-> endpointId, hostname |-> hostname, port |-> port,
                     caid |-> caid, ccdid |-> ccdid, referenceCount |-> e.referenceCount,
                     fabricIndex |-> fabric]
               ELSE e
<1>1. /\ provisionedEndpoints' = {Image(e) : e \in provisionedEndpoints}
      /\ nextEndpointId' = nextEndpointId
  BY DEF UpdateEndpoint
<1>2. \A e \in provisionedEndpoints :
          /\ Image(e) \in TlsEndpoint
          /\ Image(e).endpointId = e.endpointId
          /\ Image(e).fabricIndex = e.fabricIndex
          /\ \/ Image(e) = e
             \/ /\ e.endpointId = endpointId /\ e.fabricIndex = fabric
                /\ Image(e).hostname = hostname /\ Image(e).port = port
  BY EndpointsAssumption DEF EndpointInvariant, EndpointsTypeOK, TlsEndpoint, InvalidAddress
<1>3. \A e \in provisionedEndpoints :
          e.fabricIndex = fabric /\ e.hostname = hostname /\ e.port = port
              => e.endpointId = endpointId
  BY DEF Duplicate, EndpointsOf
<1> HIDE DEF Image
<1>4. EndpointsTypeOK'
  BY <1>1, <1>2 DEF EndpointInvariant, EndpointsTypeOK
<1>5. EndpointIdsUnique'
  BY <1>1, <1>2 DEF EndpointInvariant, EndpointIdsUnique
<1>6. AddressesUnique'
  <2> SUFFICES ASSUME NEW e1 \in provisionedEndpoints, NEW e2 \in provisionedEndpoints,
                      Image(e1).fabricIndex = Image(e2).fabricIndex,
                      Image(e1).hostname = Image(e2).hostname,
                      Image(e1).port = Image(e2).port
               PROVE  e1 = e2
    BY <1>1 DEF AddressesUnique
  <2>1. e1.endpointId = e2.endpointId \/ (Image(e1) = e1 /\ Image(e2) = e2)
    BY <1>2, <1>3
  <2> QED BY <2>1 DEF EndpointInvariant, EndpointIdsUnique, AddressesUnique
<1> QED BY <1>4, <1>5, <1>6 DEF EndpointInvariant

\* Taking endpoints away is safe.
LEMMA FewerEndpointsInvariant ==
    ASSUME EndpointInvariant, provisionedEndpoints' \subseteq provisionedEndpoints,
           UNCHANGED nextEndpointId
    PROVE  EndpointInvariant'
  BY DEF EndpointInvariant, EndpointsTypeOK, EndpointIdsUnique, AddressesUnique

\* So is every command, whatever the certificate server shows.
LEMMA EndpointCommandInvariant ==
    ASSUME EndpointInvariant, NEW fabric \in FabricIndexes \cup {NoFabric},
           NEW synchronized, NEW roots, NEW clients,
           EndpointCommand(fabric, synchronized, roots, clients)
    PROVE  EndpointInvariant'
<1>1. ASSUME NEW endpointId \in TlsIdFields \cup {Null}, NEW hostname \in Hostnames,
             NEW port \in Ports, NEW caid \in TlsIdFields, NEW ccdid \in TlsIdFields \cup {Null},
             ProvisionEndpoint(fabric, endpointId, hostname, port, caid, ccdid,
                               synchronized, roots, clients)
      PROVE  EndpointInvariant'
  <2>1. /\ fabric \in FabricIndexes
        /\ ~InvalidAddress(hostname, port)
        /\ caid \in TlsIds /\ ccdid \in TlsIds \cup {Null}
        /\ endpointId = Null \/ endpointId \in TlsIds
        /\ ~Duplicate(fabric, endpointId, hostname, port)
        /\ endpointId = Null => ~IdsExhausted(EndpointIds)
    BY <1>1, EndpointChecks DEF ProvisionEndpoint
  <2>2. CASE endpointId = Null /\ AddEndpoint(fabric, hostname, port, caid, ccdid)
    BY <2>1, <2>2, AddEndpointInvariant
  <2>3. CASE endpointId # Null /\ UpdateEndpoint(fabric, endpointId, hostname, port, caid, ccdid)
    BY <2>1, <2>3, UpdateEndpointInvariant
  <2> QED BY <1>1, <2>2, <2>3 DEF ProvisionEndpoint
<1>2. ASSUME NEW endpointId, RemoveEndpoint(fabric, endpointId)
      PROVE  EndpointInvariant'
  BY <1>2, FewerEndpointsInvariant DEF RemoveEndpoint
<1> QED BY <1>1, <1>2 DEF EndpointCommand, EndpointCommandOn

\* The server starts without endpoints.
LEMMA EndpointInit == InitTlsClientManagement => EndpointInvariant
  BY TlsIdsAssumption DEF InitTlsClientManagement, EndpointInvariant, EndpointsTypeOK,
     EndpointIdsUnique, AddressesUnique, TlsIds

\* Every command, by whatever fabric, keeps the invariant.
LEMMA EndpointNext ==
    EndpointInvariant /\ [NextTlsClientManagement]_endpointVars => EndpointInvariant'
<1> SUFFICES ASSUME EndpointInvariant, [NextTlsClientManagement]_endpointVars
             PROVE  EndpointInvariant'
  OBVIOUS
<1>1. ASSUME NEW fabric \in FabricIndexes \cup {NoFabric},
             NEW endpointId \in TlsIdFields \cup {Null}, ServerCommandOn(fabric, endpointId)
      PROVE  EndpointInvariant'
  BY <1>1, EndpointCommandInvariant DEF ServerCommandOn, EndpointCommand
<1>2. ASSUME NEW fabrics \in SUBSET FabricIndexes, PruneEndpoints(fabrics)
      PROVE  EndpointInvariant'
  BY <1>2, FewerEndpointsInvariant DEF PruneEndpoints
<1>3. CASE UNCHANGED endpointVars
  BY <1>3, FewerEndpointsInvariant DEF endpointVars
<1> QED BY <1>1, <1>2, <1>3 DEF NextTlsClientManagement

\* The endpoints keep their invariant in every reachable state.
THEOREM EndpointInvariantAlways == SpecTlsClientManagement => []EndpointInvariant
  BY EndpointInit, EndpointNext, PTL DEF SpecTlsClientManagement

\* The attribute ProvisionedEndpoints only ever lists well-formed endpoints.
THEOREM EndpointsTypeCorrect == SpecTlsClientManagement => []EndpointsTypeOK
<1>1. EndpointInvariant => EndpointsTypeOK
  BY DEF EndpointInvariant
<1> QED BY <1>1, EndpointInvariantAlways, PTL

\* TLS endpoint ids are unique on the node for any number of fabrics and ids,
\* through every wrap of allocateId.
THEOREM EndpointIdsAlwaysUnique == SpecTlsClientManagement => []EndpointIdsUnique
<1>1. EndpointInvariant => EndpointIdsUnique
  BY DEF EndpointInvariant
<1> QED BY <1>1, EndpointInvariantAlways, PTL

\* No sequence of additions and updates gives a fabric two endpoints of one
\* Hostname and Port.
THEOREM AddressesAlwaysUnique == SpecTlsClientManagement => []AddressesUnique
<1>1. EndpointInvariant => AddressesUnique
  BY DEF EndpointInvariant
<1> QED BY <1>1, EndpointInvariantAlways, PTL

\* A command leaves every TLS endpoint as it is but the one it names, whatever the
\* certificate server shows.
LEMMA CommandTouchesNamed ==
    ASSUME EndpointInvariant, NEW fabric, NEW endpointId, NEW synchronized, NEW roots, NEW clients,
           EndpointCommandOn(fabric, endpointId, synchronized, roots, clients),
           NEW e \in provisionedEndpoints \ provisionedEndpoints'
    PROVE  Names(fabric, endpointId, e)
<1>1. ASSUME NEW hostname, NEW port, NEW caid, NEW ccdid,
             AddEndpoint(fabric, hostname, port, caid, ccdid)
      PROVE  FALSE
  BY <1>1 DEF AddEndpoint
<1>2. ASSUME NEW hostname, NEW port, NEW caid, NEW ccdid,
             UpdateEndpoint(fabric, endpointId, hostname, port, caid, ccdid)
      PROVE  Names(fabric, endpointId, e)
  <2>1. SUFFICES ASSUME ~Names(fabric, endpointId, e)
                 PROVE  e \in provisionedEndpoints'
    OBVIOUS
  <2> QED BY <1>2, <2>1 DEF UpdateEndpoint, Names
<1>3. ASSUME RemoveEndpoint(fabric, endpointId) PROVE Names(fabric, endpointId, e)
  BY <1>3 DEF RemoveEndpoint, Names
<1> QED BY <1>1, <1>2, <1>3 DEF EndpointCommandOn, ProvisionEndpoint

\* The pruning takes the endpoints of fabrics that are not on the node.
LEMMA PruneTouchesOthers ==
    ASSUME NEW fabrics, PruneEndpoints(fabrics),
           NEW e \in provisionedEndpoints \ provisionedEndpoints'
    PROVE  e.fabricIndex \notin fabrics
  BY DEF PruneEndpoints

\* A TLS endpoint changes or goes only by a command that names it or with its
\* fabric, whichever fabrics, ids and addresses there are.
THEOREM OnlyNamedEndpointsEverChange == SpecTlsClientManagement => OnlyNamedEndpointsChange
<1> DEFINE Touched ==
               \A e \in provisionedEndpoints \ provisionedEndpoints' :
                   TakenByRequest(e) /\ ~NamedElsewhere(e)
<1>1. ASSUME EndpointInvariant, NextTlsClientManagement PROVE Touched
  <2> SUFFICES ASSUME NEW e \in provisionedEndpoints \ provisionedEndpoints'
               PROVE  TakenByRequest(e) /\ ~NamedElsewhere(e)
    OBVIOUS
  <2>1. ASSUME NEW fabric, NEW endpointId, ServerCommandOn(fabric, endpointId)
        PROVE  Names(fabric, endpointId, e)
    BY <1>1, <2>1, CommandTouchesNamed DEF ServerCommandOn
  <2>2. ~NamedElsewhere(e)
    BY <2>1 DEF NamedElsewhere
  <2>3. TakenByRequest(e)
    <3>1. ASSUME NEW fabric, NEW endpointId, ServerCommandOn(fabric, endpointId)
          PROVE  ServerCommandOn(e.fabricIndex, e.endpointId)
      BY <2>1, <3>1 DEF Names
    <3>2. ASSUME NEW fabrics \in SUBSET FabricIndexes, PruneEndpoints(fabrics)
          PROVE  \E others \in SUBSET (FabricIndexes \ {e.fabricIndex}) : PruneEndpoints(others)
      BY <3>2, PruneTouchesOthers
    <3> QED BY <1>1, <3>1, <3>2 DEF NextTlsClientManagement, TakenByRequest
  <2> QED BY <2>2, <2>3
<1>2. EndpointInvariant /\ [NextTlsClientManagement]_endpointVars => [Touched]_endpointVars
  BY <1>1
<1> QED
  BY <1>2, EndpointInvariantAlways, PTL DEF SpecTlsClientManagement, OnlyNamedEndpointsChange

\* The invariant of the quota: the sizes compared are those of finite sets.
EndpointQuota ==
    /\ IsFiniteSet(provisionedEndpoints)
    /\ EndpointsWithinLimit

\* Removed endpoints leave each fabric at most what it had.
LEMMA FewerEndpointsQuota ==
    ASSUME EndpointQuota, NEW S, S \subseteq provisionedEndpoints
    PROVE  \A fabric \in FabricIndexes :
               LET left == {e \in S : e.fabricIndex = fabric}
               IN  IsFiniteSet(left) /\ Cardinality(left) \in Nat /\ Cardinality(left) <= MaxProvisioned
<1> SUFFICES ASSUME NEW fabric \in FabricIndexes
             PROVE  LET left == {e \in S : e.fabricIndex = fabric}
                    IN  IsFiniteSet(left) /\ Cardinality(left) \in Nat /\ Cardinality(left) <= MaxProvisioned
  OBVIOUS
<1> DEFINE left == {e \in S : e.fabricIndex = fabric}
<1>1. left \subseteq EndpointsOf(fabric) /\ EndpointsOf(fabric) \subseteq provisionedEndpoints
  BY DEF EndpointsOf
<1>2. IsFiniteSet(EndpointsOf(fabric)) /\ Cardinality(EndpointsOf(fabric)) <= MaxProvisioned
  BY <1>1, FS_Subset DEF EndpointQuota, EndpointsWithinLimit
<1> HIDE DEF left
<1>3. IsFiniteSet(left) /\ Cardinality(left) <= Cardinality(EndpointsOf(fabric))
  BY <1>1, <1>2, FS_Subset
<1>4. Cardinality(left) \in Nat /\ Cardinality(EndpointsOf(fabric)) \in Nat
  BY <1>2, <1>3, FS_CardinalityType
<1>5. IsFiniteSet(left) /\ Cardinality(left) \in Nat /\ Cardinality(left) <= MaxProvisioned
  BY <1>2, <1>3, <1>4, EndpointsAssumption
<1> QED BY <1>5 DEF left

\* The server starts within every limit.
LEMMA EndpointQuotaInit == InitTlsClientManagement => EndpointQuota
  BY FS_EmptySet, EndpointsAssumption DEF InitTlsClientManagement, EndpointQuota,
     EndpointsWithinLimit, EndpointsOf

\* An addition is refused at the limit, an update replaces, and everything else takes
\* away.
LEMMA EndpointQuotaNext ==
    ASSUME EndpointQuota, EndpointStep \/ UNCHANGED provisionedEndpoints PROVE EndpointQuota'
<1>1. ASSUME NEW S, S \subseteq provisionedEndpoints, provisionedEndpoints' = S
      PROVE  EndpointQuota'
  BY <1>1, FewerEndpointsQuota, FS_Subset DEF EndpointQuota, EndpointsWithinLimit, EndpointsOf
<1>2. ASSUME NEW fabric, NEW hostname, NEW port, NEW caid, NEW ccdid,
             ~EndpointsFull(fabric), AddEndpoint(fabric, hostname, port, caid, ccdid)
      PROVE  EndpointQuota'
  <2>1. PICK new : new.fabricIndex = fabric /\ provisionedEndpoints' = provisionedEndpoints \cup {new}
    BY <1>2 DEF AddEndpoint
  <2>2. IsFiniteSet(provisionedEndpoints')
    BY <2>1, FS_AddElement DEF EndpointQuota
  <2>3. ASSUME NEW f \in FabricIndexes PROVE Cardinality(EndpointsOf(f)') <= MaxProvisioned
    <3>1. /\ IsFiniteSet(EndpointsOf(f)) /\ Cardinality(EndpointsOf(f)) \in Nat
          /\ Cardinality(EndpointsOf(f)) <= MaxProvisioned
      BY FewerEndpointsQuota DEF EndpointsOf
    <3>2. CASE f # fabric
      <4>1. EndpointsOf(f)' = EndpointsOf(f)
        BY <2>1, <3>2 DEF EndpointsOf
      <4> QED BY <3>1, <4>1
    <3>3. CASE f = fabric
      <4>1. EndpointsOf(f)' = EndpointsOf(f) \cup {new}
        BY <2>1, <3>3 DEF EndpointsOf
      <4>2. Cardinality(EndpointsOf(f)') <= Cardinality(EndpointsOf(f)) + 1
        BY <3>1, <4>1, FS_AddElement
      <4>3. Cardinality(EndpointsOf(f)) < MaxProvisioned
        BY <1>2, <3>1, <3>3, EndpointsAssumption DEF EndpointsFull
      <4>4. Cardinality(EndpointsOf(f)') \in Nat
        BY <3>1, <4>1, FS_AddElement, FS_CardinalityType
      <4> QED BY <3>1, <4>2, <4>3, <4>4, EndpointsAssumption
    <3> QED BY <3>2, <3>3
  <2> QED BY <2>2, <2>3 DEF EndpointQuota, EndpointsWithinLimit
<1>3. ASSUME NEW fabric, NEW endpointId, NEW hostname, NEW port, NEW caid, NEW ccdid,
             UpdateEndpoint(fabric, endpointId, hostname, port, caid, ccdid)
      PROVE  EndpointQuota'
  <2> DEFINE Image(e) ==
                 IF e.fabricIndex = fabric /\ e.endpointId = endpointId
                 THEN [endpointId |-> endpointId, hostname |-> hostname, port |-> port,
                       caid |-> caid, ccdid |-> ccdid, referenceCount |-> e.referenceCount,
                       fabricIndex |-> fabric]
                 ELSE e
  <2>1. /\ provisionedEndpoints' = {Image(e) : e \in provisionedEndpoints}
        /\ \A e \in provisionedEndpoints : Image(e).fabricIndex = e.fabricIndex
    BY <1>3 DEF UpdateEndpoint
  <2> DEFINE image == [e \in provisionedEndpoints |-> Image(e)]
  <2>2. IsFiniteSet(provisionedEndpoints')
    <3>1. IsFiniteSet(provisionedEndpoints)
      BY DEF EndpointQuota
    <3>2. provisionedEndpoints' = {image[e] : e \in provisionedEndpoints}
      BY <2>1
    <3> HIDE DEF image
    <3>3. IsFiniteSet({image[e] : e \in provisionedEndpoints})
      BY <3>1, ImageOfFinite
    <3> QED BY <3>2, <3>3
  <2>3. ASSUME NEW f \in FabricIndexes PROVE Cardinality(EndpointsOf(f)') <= MaxProvisioned
    <3>1. /\ IsFiniteSet(EndpointsOf(f)) /\ Cardinality(EndpointsOf(f)) \in Nat
          /\ Cardinality(EndpointsOf(f)) <= MaxProvisioned
      BY FewerEndpointsQuota DEF EndpointsOf
    <3>2. EndpointsOf(f)' = {image[e] : e \in EndpointsOf(f)}
      BY <2>1 DEF EndpointsOf
    <3> HIDE DEF image
    <3>3. /\ IsFiniteSet({image[e] : e \in EndpointsOf(f)})
          /\ Cardinality({image[e] : e \in EndpointsOf(f)}) <= Cardinality(EndpointsOf(f))
      BY <3>1, ImageOfFinite
    <3>4. Cardinality({image[e] : e \in EndpointsOf(f)}) \in Nat
      BY <3>3, FS_CardinalityType
    <3> QED BY <3>1, <3>2, <3>3, <3>4, EndpointsAssumption
  <2> QED BY <2>2, <2>3 DEF EndpointQuota, EndpointsWithinLimit
<1>4. ASSUME NEW fabric, NEW synchronized, NEW roots, NEW clients,
             EndpointCommand(fabric, synchronized, roots, clients)
      PROVE  EndpointQuota'
  <2>1. ASSUME NEW endpointId, NEW hostname, NEW port, NEW caid, NEW ccdid,
               ProvisionEndpoint(fabric, endpointId, hostname, port, caid, ccdid,
                                 synchronized, roots, clients)
        PROVE  EndpointQuota'
    <3>1. endpointId = Null => ~EndpointsFull(fabric)
      BY <2>1, EndpointChecks DEF ProvisionEndpoint
    <3> QED BY <1>2, <1>3, <2>1, <3>1 DEF ProvisionEndpoint
  <2>2. ASSUME NEW endpointId, RemoveEndpoint(fabric, endpointId) PROVE EndpointQuota'
    BY <1>1, <2>2 DEF RemoveEndpoint
  <2> QED BY <1>4, <2>1, <2>2 DEF EndpointCommand, EndpointCommandOn
<1>5. ASSUME NEW fabrics, PruneEndpoints(fabrics) PROVE EndpointQuota'
  BY <1>1, <1>5 DEF PruneEndpoints
<1>6. CASE UNCHANGED provisionedEndpoints
  BY <1>1, <1>6
<1> QED BY <1>4, <1>5, <1>6 DEF EndpointStep

\* The quota of the endpoints is inductive by itself.
LEMMA EndpointQuotaAlways == SpecTlsClientManagement => []EndpointQuota
<1>1. EndpointQuota /\ [NextTlsClientManagement]_endpointVars => EndpointQuota'
  <2>1. NextTlsClientManagement => EndpointStep
    BY DEF NextTlsClientManagement, ServerCommandOn, EndpointCommand, EndpointStep
  <2> QED BY <2>1, EndpointQuotaNext DEF endpointVars
<1> QED BY <1>1, EndpointQuotaInit, PTL DEF SpecTlsClientManagement

\* The endpoints of each fabric stay within MaxProvisioned, whatever it is.
THEOREM EndpointsAlwaysWithinLimit == SpecTlsClientManagement => []EndpointsWithinLimit
<1>1. EndpointQuota => EndpointsWithinLimit
  BY DEF EndpointQuota
<1> QED BY <1>1, EndpointQuotaAlways, PTL

\* The endpoints as entries of their fabrics.
OwnedEndpoint == [e \in provisionedEndpoints |-> [fabric |-> e.fabricIndex, endpoint |-> e]]
OwnedEndpoints == {OwnedEndpoint[e] : e \in provisionedEndpoints}

\* Within the limit, allocateId has an endpoint id left when all the fabrics at their
\* limit hold fewer endpoints than there are ids.
LEMMA EndpointIdsLeft ==
    ASSUME MaxFabricIndex * MaxProvisioned <= MaxTlsId, EndpointsTypeOK, EndpointQuota
    PROVE  ~IdsExhausted(EndpointIds)
<1>1. MaxProvisioned \in Nat
  BY EndpointsAssumption
<1>2. /\ IsFiniteSet(provisionedEndpoints)
      /\ \A fabric \in FabricIndexes :
             IsFiniteSet(EndpointsOf(fabric)) /\ Cardinality(EndpointsOf(fabric)) \in Nat
                 /\ Cardinality(EndpointsOf(fabric)) <= MaxProvisioned
  BY FewerEndpointsQuota DEF EndpointQuota, EndpointsOf
<1>3. WithinLimit(OwnedEndpoints, MaxProvisioned)
  <2>1. IsFiniteSet(OwnedEndpoints)
    BY <1>2, ImageOfFinite DEF OwnedEndpoints
  <2>2. ASSUME NEW fabric \in FabricIndexes
        PROVE  Cardinality(OfFabric(OwnedEndpoints, fabric)) <= MaxProvisioned
    <3>1. \A e \in provisionedEndpoints : OwnedEndpoint[e].fabric = e.fabricIndex
      BY DEF OwnedEndpoint
    <3>2. OfFabric(OwnedEndpoints, fabric) = {OwnedEndpoint[e] : e \in EndpointsOf(fabric)}
      BY <3>1 DEF OfFabric, OwnedEndpoints, EndpointsOf
    <3>3. /\ IsFiniteSet({OwnedEndpoint[e] : e \in EndpointsOf(fabric)})
          /\ Cardinality({OwnedEndpoint[e] : e \in EndpointsOf(fabric)})
                 <= Cardinality(EndpointsOf(fabric))
      BY <1>2, ImageOfFinite
    <3>4. Cardinality({OwnedEndpoint[e] : e \in EndpointsOf(fabric)}) \in Nat
      BY <3>3, FS_CardinalityType
    <3> QED BY <1>1, <1>2, <3>2, <3>3, <3>4
  <2> QED BY <2>1, <2>2 DEF WithinLimit
<1>4. \A entry \in OwnedEndpoints : entry.fabric \in FabricIndexes
  <2>1. \A e \in provisionedEndpoints : e.fabricIndex \in FabricIndexes
    BY DEF EndpointsTypeOK, TlsEndpoint
  <2>2. \A e \in provisionedEndpoints : OwnedEndpoint[e].fabric = e.fabricIndex
    BY DEF OwnedEndpoint
  <2> QED BY <2>1, <2>2 DEF OwnedEndpoints
<1> DEFINE idOf == [entry \in OwnedEndpoints |-> entry.endpoint.endpointId]
<1>5. EndpointIds = {idOf[entry] : entry \in OwnedEndpoints}
  <2>1. \A e \in provisionedEndpoints :
            OwnedEndpoint[e] \in OwnedEndpoints /\ idOf[OwnedEndpoint[e]] = e.endpointId
    BY DEF OwnedEndpoints, OwnedEndpoint
  <2> HIDE DEF idOf
  <2> QED BY <2>1 DEF EndpointIds, OwnedEndpoints
<1> HIDE DEF idOf
<1>6. ~IdsExhausted({idOf[entry] : entry \in OwnedEndpoints})
  BY <1>1, <1>3, <1>4, IdsLeft
<1> QED BY <1>5, <1>6

\* The allocator of the endpoint ids, shared with the certificates' server, never
\* runs out either: a ProvisionEndpoint is refused by the limit of its fabric first.
THEOREM EndpointIdsNeverExhausted ==
    ASSUME MaxFabricIndex * MaxProvisioned <= MaxTlsId
    PROVE  SpecTlsClientManagement => []~IdsExhausted(EndpointIds)
<1>1. EndpointInvariant /\ EndpointQuota => ~IdsExhausted(EndpointIds)
  BY EndpointIdsLeft DEF EndpointInvariant
<1> QED BY <1>1, EndpointInvariantAlways, EndpointQuotaAlways, PTL
=============================================================================
