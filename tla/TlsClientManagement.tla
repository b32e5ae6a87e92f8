------------------------ MODULE TlsClientManagement ------------------------
(***************************************************************************)
(* The TLS Client Management cluster server of the camera Root Node        *)
(* (tlsClientManagementServer.ts): the TLS endpoints of every fabric, each *)
(* a Hostname and Port with the CAID of the root certificate and the       *)
(* optional CCDID of the client certificate to use.                        *)
(*                                                                         *)
(* The handlers are synchronous transactions, as in                        *)
(* TlsCertificateManagement: a rejected command is a stuttering step.  The *)
(* two attributes of that cluster are parameters (roots and clients).      *)
(***************************************************************************)
EXTENDS TlsIds, FiniteSets

CONSTANTS
    Hostnames,         \* the octet strings sent as hostnames
    InvalidHostnames,  \* those not of 4 to 253 octets
    Ports,             \* uint16 values, 0 among them
    MaxProvisioned,    \* TLS endpoints per fabric
    CertificateIds     \* CAIDs and CCDIDs of the certificates on the node

ASSUME EndpointsAssumption ==
    /\ InvalidHostnames \subseteq Hostnames
    /\ Ports \subseteq Nat
    /\ MaxProvisioned \in Nat
    /\ CertificateIds \subseteq TlsIds

VARIABLES
    provisionedEndpoints,  \* nonvolatile attribute
    nextEndpointId         \* nonvolatile

endpointVars == <<provisionedEndpoints, nextEndpointId>>

TlsEndpoint ==
    [endpointId : TlsIds,
     hostname : Hostnames \ InvalidHostnames,
     port : Ports \ {0},
     caid : TlsIds,
     ccdid : TlsIds \cup {Null},
     referenceCount : Nat,
     fabricIndex : FabricIndexes]

EndpointIds == {e.endpointId : e \in provisionedEndpoints}
EndpointsOf(fabric) == {e \in provisionedEndpoints : e.fabricIndex = fabric}

HasEndpoint(fabric, endpointId) ==
    \E e \in EndpointsOf(fabric) : e.endpointId = endpointId

\* Mutant: only an addition is compared with the addresses in use.
DuplicateOnAdd(fabric, endpointId, hostname, port) ==
    /\ endpointId = Null
    /\ \E e \in EndpointsOf(fabric) : e.port = port /\ e.hostname = hostname

\* Another endpoint of the fabric, than the one updated, has this address.
Duplicate(fabric, endpointId, hostname, port) ==
    \E e \in EndpointsOf(fabric) :
        e.port = port /\ e.hostname = hostname /\ e.endpointId # endpointId

(***************************************************************************)
(* ProvisionEndpoint.  The checks read the attributes of the certificate   *)
(* server, never its store.                                                *)
(***************************************************************************)

\* Mutant: port 0 is accepted.
InvalidHostname(hostname, port) == hostname \in InvalidHostnames

InvalidAddress(hostname, port) == hostname \in InvalidHostnames \/ port < 1

EndpointsFull(fabric) == Cardinality(EndpointsOf(fabric)) >= MaxProvisioned

ProvisionEndpointStatus(fabric, endpointId, hostname, port, caid, ccdid, synchronized, roots, clients) ==
    IF fabric = NoFabric THEN "UnsupportedAccess"
    ELSE IF InvalidAddress(hostname, port) THEN "ConstraintError"
    ELSE IF \/ caid \notin TlsIds
            \/ ccdid # Null /\ ccdid \notin TlsIds
            \/ endpointId # Null /\ endpointId \notin TlsIds
         THEN "ConstraintError"
    ELSE IF ~synchronized THEN "InvalidTime"
    ELSE IF ~\E root \in roots : root.fabricIndex = fabric /\ root.caid = caid
         THEN "RootCertificateNotFound"
    ELSE IF /\ ccdid # Null
            /\ ~\E client \in clients : client.fabricIndex = fabric /\ client.ccdid = ccdid
         THEN "ClientCertificateNotFound"
    ELSE IF endpointId = Null /\ EndpointsFull(fabric) THEN "ResourceExhausted"
    ELSE IF endpointId # Null /\ ~HasEndpoint(fabric, endpointId) THEN "NotFound"
    ELSE IF Duplicate(fabric, endpointId, hostname, port) THEN "EndpointAlreadyInstalled"
    ELSE IF endpointId = Null /\ IdsExhausted(EndpointIds) THEN "ResourceExhausted"
    ELSE "Success"

AddEndpoint(fabric, hostname, port, caid, ccdid) ==
    LET id == AllocateId(EndpointIds, nextEndpointId)
    IN  /\ nextEndpointId' = IdAfter(id)
        /\ provisionedEndpoints' = provisionedEndpoints \cup
               {[endpointId |-> id, hostname |-> hostname, port |-> port, caid |-> caid,
                 ccdid |-> ccdid, referenceCount |-> 0, fabricIndex |-> fabric]}

\* Mutant: every endpoint of the fabric gets the new values.
UpdateEveryEndpoint(fabric, endpointId, hostname, port, caid, ccdid) ==
    /\ provisionedEndpoints' =
           {IF e.fabricIndex = fabric
            THEN [e EXCEPT !.hostname = hostname, !.port = port,
                           !.caid = caid, !.ccdid = ccdid]
            ELSE e : e \in provisionedEndpoints}
    /\ UNCHANGED nextEndpointId

UpdateEndpoint(fabric, endpointId, hostname, port, caid, ccdid) ==
    /\ provisionedEndpoints' =
           {IF e.fabricIndex = fabric /\ e.endpointId = endpointId
            THEN [endpointId |-> endpointId, hostname |-> hostname, port |-> port,
                  caid |-> caid, ccdid |-> ccdid, referenceCount |-> e.referenceCount,
                  fabricIndex |-> fabric]
            ELSE e : e \in provisionedEndpoints}
    /\ UNCHANGED nextEndpointId

ProvisionEndpoint(fabric, endpointId, hostname, port, caid, ccdid, synchronized, roots, clients) ==
    /\ ProvisionEndpointStatus(fabric, endpointId, hostname, port, caid, ccdid,
                               synchronized, roots, clients) = "Success"
    /\ \/ endpointId = Null /\ AddEndpoint(fabric, hostname, port, caid, ccdid)
       \/ endpointId # Null /\ UpdateEndpoint(fabric, endpointId, hostname, port, caid, ccdid)

(***************************************************************************)
(* RemoveEndpoint and FindEndpoint.  No cluster of the camera uses a TLS   *)
(* endpoint, so referenceCount stays 0 and EndpointInUse never happens.    *)
(***************************************************************************)

RemoveEndpointStatus(fabric, endpointId) ==
    IF fabric = NoFabric THEN "UnsupportedAccess"
    ELSE IF endpointId \notin TlsIds THEN "ConstraintError"
    ELSE IF ~HasEndpoint(fabric, endpointId) THEN "NotFound"
    ELSE IF \E e \in EndpointsOf(fabric) : e.endpointId = endpointId /\ e.referenceCount > 0
         THEN "EndpointInUse"
    ELSE "Success"

RemoveEndpoint(fabric, endpointId) ==
    /\ RemoveEndpointStatus(fabric, endpointId) = "Success"
    /\ provisionedEndpoints' =
           {e \in provisionedEndpoints : ~(e.fabricIndex = fabric /\ e.endpointId = endpointId)}
    /\ UNCHANGED nextEndpointId

FindEndpoint(fabric, endpointId) == {e \in EndpointsOf(fabric) : e.endpointId = endpointId}

\* External: matter.js removes the fabric-scoped entries of the fabrics that are
\* no longer on the node.
PruneEndpoints(fabrics) ==
    /\ \E e \in provisionedEndpoints : e.fabricIndex \notin fabrics
    /\ provisionedEndpoints' = {e \in provisionedEndpoints : e.fabricIndex \in fabrics}
    /\ UNCHANGED nextEndpointId

(***************************************************************************)
(* The server beside a TLS Certificate Management server that holds, at    *)
(* each command, some root and client certificate of the accessing fabric. *)
(***************************************************************************)

InitTlsClientManagement ==
    /\ provisionedEndpoints = {}
    /\ nextEndpointId = 0

\* A command that names an endpoint; ProvisionEndpoint names Null to add one.
EndpointCommandOn(fabric, endpointId, synchronized, roots, clients) ==
    \/ \E hostname \in Hostnames, port \in Ports,
          caid \in TlsIdFields, ccdid \in TlsIdFields \cup {Null} :
           ProvisionEndpoint(fabric, endpointId, hostname, port, caid, ccdid,
                             synchronized, roots, clients)
    \/ RemoveEndpoint(fabric, endpointId)

EndpointCommand(fabric, synchronized, roots, clients) ==
    \E endpointId \in TlsIdFields \cup {Null} :
        EndpointCommandOn(fabric, endpointId, synchronized, roots, clients)

ServerCommandOn(fabric, endpointId) ==
    \E synchronized \in BOOLEAN, id \in CertificateIds :
        EndpointCommandOn(fabric, endpointId, synchronized,
                          {[caid |-> id, fabricIndex |-> fabric]},
                          {[ccdid |-> id, fabricIndex |-> fabric]})

NextTlsClientManagement ==
    \/ \E fabric \in FabricIndexes \cup {NoFabric}, endpointId \in TlsIdFields \cup {Null} :
           ServerCommandOn(fabric, endpointId)
    \/ \E fabrics \in SUBSET FabricIndexes : PruneEndpoints(fabrics)

SpecTlsClientManagement ==
    InitTlsClientManagement /\ [][NextTlsClientManagement]_endpointVars

(***************************************************************************)
(* Properties                                                              *)
(***************************************************************************)

\* The attribute lists well-formed TLS endpoints: no hostname of a wrong length,
\* no port 0, no id out of range.
EndpointsTypeOK ==
    /\ provisionedEndpoints \subseteq TlsEndpoint
    /\ nextEndpointId \in TlsIds

\* "TLS endpoint IDs are unique on the node across fabrics", also after the
\* allocator wrapped.
EndpointIdsUnique ==
    \A e1, e2 \in provisionedEndpoints : e1.endpointId = e2.endpointId => e1 = e2

\* MaxProvisioned bounds the TLS endpoints of each fabric.
EndpointsWithinLimit ==
    \A fabric \in FabricIndexes : Cardinality(EndpointsOf(fabric)) <= MaxProvisioned

\* A fabric has at most one TLS endpoint per Hostname and Port, whatever sequence
\* of additions and updates led there.
AddressesUnique ==
    \A e1, e2 \in provisionedEndpoints :
        /\ e1.fabricIndex = e2.fabricIndex
        /\ e1.hostname = e2.hostname
        /\ e1.port = e2.port
        => e1 = e2

Names(fabric, endpointId, e) == e.fabricIndex = fabric /\ e.endpointId = endpointId

TakenByRequest(e) ==
    \/ ServerCommandOn(e.fabricIndex, e.endpointId)
    \/ \E fabrics \in SUBSET (FabricIndexes \ {e.fabricIndex}) : PruneEndpoints(fabrics)

NamedElsewhere(e) ==
    \E fabric \in FabricIndexes \cup {NoFabric}, endpointId \in TlsIdFields \cup {Null} :
        ~Names(fabric, endpointId, e) /\ ServerCommandOn(fabric, endpointId)

\* A TLS endpoint changes or goes only by a command of its fabric that names its
\* EndpointID, or with its fabric.  A command that adds, names another endpoint, or
\* comes from another fabric with the same id in an old request never touches it.
OnlyNamedEndpointsChange ==
    [][\A e \in provisionedEndpoints \ provisionedEndpoints' :
           TakenByRequest(e) /\ ~NamedElsewhere(e)]_endpointVars
=============================================================================
