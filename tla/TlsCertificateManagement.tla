---------------------- MODULE TlsCertificateManagement ----------------------
(***************************************************************************)
(* The TLS Certificate Management cluster server of the camera Root Node   *)
(* (tlsCertificateManagementServer.ts): the store of the TLS root and      *)
(* client certificates of every fabric, its seven state-changing entry     *)
(* points and its queries.                                                 *)
(*                                                                         *)
(* A handler is synchronous and runs in one matter.js transaction: a       *)
(* command that throws is rolled back, so a rejected command is a          *)
(* stuttering step and its action is not enabled.  <Command>Status is the  *)
(* status of the response, its tests in the order of the code.             *)
(*                                                                         *)
(* A certificate stands for its DER octets.  certificateFingerprint is     *)
(* SHA-256, taken to be injective: two certificates have the same          *)
(* fingerprint iff they are the same octets.                               *)
(***************************************************************************)
EXTENDS TlsIds, FiniteSets

CONSTANTS
    Certificates,               \* the octet strings sent as certificates
    OversizedCertificates,      \* those longer than MAX_CERTIFICATE_BYTES
    Times,                      \* readings of the host clock
    Validity,                   \* when X.509 says a certificate is valid: {}
                                \* if the octets are not a strict DER encoding
    KeyPairs,                   \* P-256 key pairs, each with its private key
    PublicKey,                  \* the key pair a certificate is issued for
    MaxRootCertificates,        \* per fabric
    MaxClientCertificates,      \* per fabric
    MaxIntermediateCertificates \* of a client certificate

ASSUME CertificatesAssumption ==
    /\ OversizedCertificates \subseteq Certificates
    /\ Validity \in [Certificates -> SUBSET Times]
    /\ Null \notin Certificates
    /\ MaxRootCertificates \in Nat
    /\ MaxClientCertificates \in Nat
    /\ MaxIntermediateCertificates \in Nat

VARIABLES
    rootCertificateStore,          \* nonvolatile
    clientCertificateStore,        \* nonvolatile, with the private keys
    nextCaid,                      \* nonvolatile
    nextCcdid,                     \* nonvolatile
    provisionedRootCertificates,   \* attribute, read by TLS Client Management
    provisionedClientCertificates, \* attribute, read by TLS Client Management
    generatedKeys                  \* every key pair ever generated

storeVars == <<rootCertificateStore, clientCertificateStore, nextCaid, nextCcdid>>
attributeVars == <<provisionedRootCertificates, provisionedClientCertificates>>
certificateVars == <<storeVars, attributeVars, generatedKeys>>

(***************************************************************************)
(* The entries of the store and of the attributes                          *)
(***************************************************************************)

RootCertificateEntry ==
    [caid : TlsIds, fabric : FabricIndexes, certificate : Certificates]

ClientCertificateEntry ==
    [ccdid : TlsIds,
     fabric : FabricIndexes,
     clientCertificate : Certificates \cup {Null},
     intermediateCertificates : SUBSET Certificates,
     privateKey : KeyPairs]

\* parseValidCertificate: a strict DER X.509 certificate valid at this time.
ParsesValid(certificate, now) == now \in Validity[certificate]

Caids(store) == {entry.caid : entry \in store}
Ccdids(store) == {entry.ccdid : entry \in store}
OfFabric(store, fabric) == {entry \in store : entry.fabric = fabric}

HasCaid(fabric, caid) ==
    \E entry \in rootCertificateStore : entry.fabric = fabric /\ entry.caid = caid

HasCcdid(fabric, ccdid) ==
    \E entry \in clientCertificateStore : entry.fabric = fabric /\ entry.ccdid = ccdid

\* Mutant: an installed certificate is not looked up.
HasNoCertificate(fabric, certificate) == FALSE

HasRootCertificate(fabric, certificate) ==
    \E entry \in rootCertificateStore :
        entry.fabric = fabric /\ entry.certificate = certificate

HasClientCertificate(fabric, certificate) ==
    \E entry \in clientCertificateStore :
        /\ entry.fabric = fabric
        /\ entry.clientCertificate # Null
        /\ entry.clientCertificate = certificate

\* #tlsEndpoints: the TLS endpoints of the fabric, of all those provisioned.
TlsEndpoints(endpoints, fabric) == {e \in endpoints : e.fabricIndex = fabric}

RootCertificatesOf(store) ==
    {[caid |-> entry.caid,
      certificate |-> entry.certificate,
      fabricIndex |-> entry.fabric] : entry \in store}

ClientCertificatesOf(store) ==
    {[ccdid |-> entry.ccdid,
      clientCertificate |-> entry.clientCertificate,
      intermediateCertificates |-> entry.intermediateCertificates,
      fabricIndex |-> entry.fabric] : entry \in store}

\* Mutant: a handler refreshes only one of the attributes.
UpdateRootAttribute ==
    /\ provisionedRootCertificates' = RootCertificatesOf(rootCertificateStore')
    /\ UNCHANGED provisionedClientCertificates

\* #updateAttributes, the last assignment of every handler that changes a store.
UpdateAttributes ==
    /\ provisionedRootCertificates' = RootCertificatesOf(rootCertificateStore')
    /\ provisionedClientCertificates' = ClientCertificatesOf(clientCertificateStore')

(***************************************************************************)
(* ProvisionRootCertificate                                                *)
(***************************************************************************)

\* Mutant: one more root certificate than the limit.
RootCertificatesOver(fabric) ==
    Cardinality(OfFabric(rootCertificateStore, fabric)) > MaxRootCertificates

RootCertificatesFull(fabric) ==
    Cardinality(OfFabric(rootCertificateStore, fabric)) >= MaxRootCertificates

ProvisionRootCertificateStatus(fabric, caid, certificate, synchronized, now) ==
    IF fabric = NoFabric THEN "UnsupportedAccess"
    ELSE IF certificate \in OversizedCertificates THEN "ConstraintError"
    ELSE IF caid # Null /\ caid \notin TlsIds THEN "ConstraintError"
    ELSE IF ~synchronized THEN "InvalidInState"
    ELSE IF ~ParsesValid(certificate, now) THEN "DynamicConstraintError"
    ELSE IF HasRootCertificate(fabric, certificate) THEN "AlreadyExists"
    ELSE IF caid # Null THEN IF HasCaid(fabric, caid) THEN "Success" ELSE "NotFound"
    ELSE IF RootCertificatesFull(fabric) \/ IdsExhausted(Caids(rootCertificateStore))
         THEN "ResourceExhausted"
    ELSE "Success"

AddRootCertificate(fabric, certificate) ==
    LET id == AllocateId(Caids(rootCertificateStore), nextCaid)
    IN  /\ nextCaid' = IdAfter(id)
        /\ rootCertificateStore' = rootCertificateStore \cup
               {[caid |-> id, fabric |-> fabric, certificate |-> certificate]}

ReplaceRootCertificate(fabric, caid, certificate) ==
    /\ rootCertificateStore' =
           {IF entry.fabric = fabric /\ entry.caid = caid
            THEN [caid |-> caid, fabric |-> fabric, certificate |-> certificate]
            ELSE entry : entry \in rootCertificateStore}
    /\ UNCHANGED nextCaid

ProvisionRootCertificate(fabric, caid, certificate, synchronized, now) ==
    /\ ProvisionRootCertificateStatus(fabric, caid, certificate, synchronized, now) = "Success"
    /\ \/ caid = Null /\ AddRootCertificate(fabric, certificate)
       \/ caid # Null /\ ReplaceRootCertificate(fabric, caid, certificate)
    /\ UNCHANGED <<clientCertificateStore, nextCcdid, generatedKeys>>
    /\ UpdateAttributes

(***************************************************************************)
(* RemoveRootCertificate                                                   *)
(***************************************************************************)

\* Mutant: a TLS endpoint holds on to its certificate only while it is in use itself.
RootCertificateReferenced(fabric, caid, endpoints) ==
    \E e \in TlsEndpoints(endpoints, fabric) : e.caid = caid /\ e.referenceCount > 0

RootCertificateInUse(fabric, caid, endpoints) ==
    \E e \in TlsEndpoints(endpoints, fabric) : e.caid = caid

RemoveRootCertificateStatus(fabric, caid, endpoints) ==
    IF fabric = NoFabric THEN "UnsupportedAccess"
    ELSE IF caid \notin TlsIds THEN "ConstraintError"
    ELSE IF RootCertificateInUse(fabric, caid, endpoints) THEN "InvalidInState"
    ELSE IF ~HasCaid(fabric, caid) THEN "NotFound"
    ELSE "Success"

RemoveRootCertificate(fabric, caid, endpoints) ==
    /\ RemoveRootCertificateStatus(fabric, caid, endpoints) = "Success"
    /\ rootCertificateStore' =
           {entry \in rootCertificateStore : ~(entry.fabric = fabric /\ entry.caid = caid)}
    /\ UNCHANGED <<clientCertificateStore, nextCaid, nextCcdid, generatedKeys>>
    /\ UpdateAttributes

(***************************************************************************)
(* ClientCSR.  With a CCDID the handler reuses the key pair of the entry   *)
(* and changes nothing: only a null CCDID is an action.  The pair returned *)
(* by generateKeyPairSync is a random one, never generated before.         *)
(***************************************************************************)

\* Mutant: one more client certificate than the limit.
ClientCertificatesOver(fabric) ==
    Cardinality(OfFabric(clientCertificateStore, fabric)) > MaxClientCertificates

ClientCertificatesFull(fabric) ==
    Cardinality(OfFabric(clientCertificateStore, fabric)) >= MaxClientCertificates

\* Mutant: a key pair is handed out again.
AnyKeys == KeyPairs

NewKeys == KeyPairs \ generatedKeys

ClientCsrStatus(fabric, ccdid, nonceOk) ==
    IF fabric = NoFabric THEN "UnsupportedAccess"
    ELSE IF ~nonceOk THEN "ConstraintError"
    ELSE IF ccdid # Null
         THEN IF ccdid \notin TlsIds THEN "ConstraintError"
              ELSE IF HasCcdid(fabric, ccdid) THEN "Success" ELSE "NotFound"
    ELSE IF ClientCertificatesFull(fabric) \/ IdsExhausted(Ccdids(clientCertificateStore))
         THEN "ResourceExhausted"
    ELSE "Success"

ClientCsr(fabric, nonceOk) ==
    /\ ClientCsrStatus(fabric, Null, nonceOk) = "Success"
    /\ \E key \in NewKeys :
           LET id == AllocateId(Ccdids(clientCertificateStore), nextCcdid)
           IN  /\ nextCcdid' = IdAfter(id)
               /\ generatedKeys' = generatedKeys \cup {key}
               /\ clientCertificateStore' = clientCertificateStore \cup
                      {[ccdid |-> id, fabric |-> fabric, clientCertificate |-> Null,
                        intermediateCertificates |-> {}, privateKey |-> key]}
    /\ UNCHANGED <<rootCertificateStore, nextCaid>>
    /\ UpdateAttributes

(***************************************************************************)
(* ProvisionClientCertificate                                              *)
(***************************************************************************)

\* Mutant: the key is compared at the first installation, not at a rotation.
KeyMismatchAtFirst(fabric, ccdid, certificate) ==
    \E entry \in clientCertificateStore :
        /\ entry.fabric = fabric /\ entry.ccdid = ccdid
        /\ entry.clientCertificate = Null
        /\ PublicKey[certificate] # entry.privateKey

KeyMismatch(fabric, ccdid, certificate) ==
    \E entry \in clientCertificateStore :
        /\ entry.fabric = fabric /\ entry.ccdid = ccdid
        /\ PublicKey[certificate] # entry.privateKey

ProvisionClientCertificateStatus(fabric, ccdid, certificate, intermediates, now) ==
    IF fabric = NoFabric THEN "UnsupportedAccess"
    ELSE IF ccdid \notin TlsIds THEN "ConstraintError"
    ELSE IF certificate \in OversizedCertificates THEN "ConstraintError"
    ELSE IF Cardinality(intermediates) > MaxIntermediateCertificates THEN "ConstraintError"
    ELSE IF intermediates \cap OversizedCertificates # {} THEN "ConstraintError"
    ELSE IF HasClientCertificate(fabric, certificate) THEN "AlreadyExists"
    ELSE IF ~HasCcdid(fabric, ccdid) THEN "NotFound"
    ELSE IF ~ParsesValid(certificate, now) THEN "DynamicConstraintError"
    ELSE IF \E i \in intermediates : ~ParsesValid(i, now) THEN "DynamicConstraintError"
    ELSE IF KeyMismatch(fabric, ccdid, certificate) THEN "DynamicConstraintError"
    ELSE "Success"

\* Mutant: the certificate goes into every entry of the fabric.
InstallEverywhere(fabric, ccdid, certificate, intermediates) ==
    clientCertificateStore' =
        {IF entry.fabric = fabric
         THEN [entry EXCEPT !.clientCertificate = certificate,
                            !.intermediateCertificates = intermediates]
         ELSE entry : entry \in clientCertificateStore}

InstallClientCertificate(fabric, ccdid, certificate, intermediates) ==
    clientCertificateStore' =
        {IF entry.fabric = fabric /\ entry.ccdid = ccdid
         THEN [ccdid |-> ccdid, fabric |-> fabric, clientCertificate |-> certificate,
               intermediateCertificates |-> intermediates,
               privateKey |-> entry.privateKey]
         ELSE entry : entry \in clientCertificateStore}

ProvisionClientCertificate(fabric, ccdid, certificate, intermediates, now) ==
    /\ ProvisionClientCertificateStatus(fabric, ccdid, certificate, intermediates, now) = "Success"
    /\ InstallClientCertificate(fabric, ccdid, certificate, intermediates)
    /\ UNCHANGED <<rootCertificateStore, nextCaid, nextCcdid, generatedKeys>>
    /\ UpdateAttributes

(***************************************************************************)
(* RemoveClientCertificate                                                 *)
(***************************************************************************)

ClientCertificateInUse(fabric, ccdid, endpoints) ==
    \E e \in TlsEndpoints(endpoints, fabric) : e.ccdid = ccdid

RemoveClientCertificateStatus(fabric, ccdid, endpoints) ==
    IF fabric = NoFabric THEN "UnsupportedAccess"
    ELSE IF ccdid \notin TlsIds THEN "ConstraintError"
    ELSE IF ClientCertificateInUse(fabric, ccdid, endpoints) THEN "InvalidInState"
    ELSE IF ~HasCcdid(fabric, ccdid) THEN "NotFound"
    ELSE "Success"

RemoveClientCertificate(fabric, ccdid, endpoints) ==
    /\ RemoveClientCertificateStatus(fabric, ccdid, endpoints) = "Success"
    /\ clientCertificateStore' =
           {entry \in clientCertificateStore : ~(entry.fabric = fabric /\ entry.ccdid = ccdid)}
    /\ UNCHANGED <<rootCertificateStore, nextCaid, nextCcdid, generatedKeys>>
    /\ UpdateAttributes

(***************************************************************************)
(* The queries, which change nothing.  Their NotFound response is the      *)
(* empty set.                                                              *)
(***************************************************************************)

FindRootCertificate(fabric, caid) ==
    {entry \in RootCertificatesOf(rootCertificateStore) :
        entry.fabricIndex = fabric /\ caid \in {Null, entry.caid}}

FindClientCertificate(fabric, ccdid) ==
    {entry \in ClientCertificatesOf(clientCertificateStore) :
        entry.fabricIndex = fabric /\ ccdid \in {Null, entry.ccdid}}

\* The code returns the first entry with the fingerprint; these are all of them.
LookupRootCertificate(fabric, certificate) ==
    Caids({entry \in OfFabric(rootCertificateStore, fabric) :
              entry.certificate = certificate})

LookupClientCertificate(fabric, certificate) ==
    Ccdids({entry \in OfFabric(clientCertificateStore, fabric) :
               entry.clientCertificate # Null /\ entry.clientCertificate = certificate})

(***************************************************************************)
(* The reaction to fabrics$Changed, in a transaction of its own: it gets   *)
(* the fabrics as they were when the event was emitted.                    *)
(***************************************************************************)

\* Mutant: the key pairs of the removed fabrics stay.
HandleRootCertificatesOnly(fabrics) ==
    /\ rootCertificateStore' = {entry \in rootCertificateStore : entry.fabric \in fabrics}
    /\ UNCHANGED <<clientCertificateStore, nextCaid, nextCcdid, generatedKeys>>
    /\ UpdateAttributes

\* Mutant: the fabric indexes are taken for those up to the number of fabrics.
HandleFabricCount(fabrics) ==
    /\ rootCertificateStore' =
           {entry \in rootCertificateStore : entry.fabric <= Cardinality(fabrics)}
    /\ clientCertificateStore' =
           {entry \in clientCertificateStore : entry.fabric <= Cardinality(fabrics)}
    /\ UNCHANGED <<nextCaid, nextCcdid, generatedKeys>>
    /\ UpdateAttributes

HandleFabricsChanged(fabrics) ==
    /\ rootCertificateStore' = {entry \in rootCertificateStore : entry.fabric \in fabrics}
    /\ clientCertificateStore' = {entry \in clientCertificateStore : entry.fabric \in fabrics}
    /\ UNCHANGED <<nextCaid, nextCcdid, generatedKeys>>
    /\ IF UNCHANGED <<rootCertificateStore, clientCertificateStore>>
       THEN UNCHANGED attributeVars
       ELSE UpdateAttributes

\* Mutant: the attributes are left as a new process has them.
InitializeWithoutRefresh == UNCHANGED certificateVars

\* initialize: only the attributes are rebuilt, from the nonvolatile store.
InitializeTlsCertificateManagement ==
    /\ UNCHANGED <<storeVars, generatedKeys>>
    /\ UpdateAttributes

(***************************************************************************)
(* The server of a Root Node without TLS Client Management (#tlsEndpoints  *)
(* returns no endpoint) under arbitrary commands and fabric changes.       *)
(***************************************************************************)

InitTlsCertificateManagement ==
    /\ rootCertificateStore = {}
    /\ clientCertificateStore = {}
    /\ nextCaid = 0
    /\ nextCcdid = 0
    /\ provisionedRootCertificates = {}
    /\ provisionedClientCertificates = {}
    /\ generatedKeys = {}

RootCertificateCommand(fabric, endpoints, synchronized, now) ==
    \/ \E caid \in TlsIdFields \cup {Null}, certificate \in Certificates :
           ProvisionRootCertificate(fabric, caid, certificate, synchronized, now)
    \/ \E caid \in TlsIdFields : RemoveRootCertificate(fabric, caid, endpoints)

ClientCertificateCommand(fabric, endpoints, now) ==
    \/ \E nonceOk \in BOOLEAN : ClientCsr(fabric, nonceOk)
    \/ \E ccdid \in TlsIdFields, certificate \in Certificates,
          intermediates \in SUBSET Certificates :
           ProvisionClientCertificate(fabric, ccdid, certificate, intermediates, now)
    \/ \E ccdid \in TlsIdFields : RemoveClientCertificate(fabric, ccdid, endpoints)

NextTlsCertificateManagement ==
    \/ \E fabric \in FabricIndexes \cup {NoFabric}, synchronized \in BOOLEAN, now \in Times :
           \/ RootCertificateCommand(fabric, {}, synchronized, now)
           \/ ClientCertificateCommand(fabric, {}, now)
    \/ \E fabrics \in SUBSET FabricIndexes : HandleFabricsChanged(fabrics)

SpecTlsCertificateManagement ==
    InitTlsCertificateManagement /\ [][NextTlsCertificateManagement]_certificateVars

(***************************************************************************)
(* Properties                                                              *)
(***************************************************************************)

\* The stores and the attributes hold well-formed entries, and the next ids
\* stay valid ids.
CertificatesTypeOK ==
    /\ rootCertificateStore \subseteq RootCertificateEntry
    /\ clientCertificateStore \subseteq ClientCertificateEntry
    /\ nextCaid \in TlsIds
    /\ nextCcdid \in TlsIds
    /\ provisionedRootCertificates \subseteq
           [caid : TlsIds, certificate : Certificates, fabricIndex : FabricIndexes]
    /\ provisionedClientCertificates \subseteq
           [ccdid : TlsIds, clientCertificate : Certificates \cup {Null},
            intermediateCertificates : SUBSET Certificates, fabricIndex : FabricIndexes]
    /\ generatedKeys \subseteq KeyPairs

\* "CAIDs and CCDIDs are unique on the node across fabrics": whatever was
\* removed and wherever the allocator wrapped, two entries never share an id.
CaidsUnique ==
    \A e1, e2 \in rootCertificateStore : e1.caid = e2.caid => e1 = e2

CcdidsUnique ==
    \A e1, e2 \in clientCertificateStore : e1.ccdid = e2.ccdid => e1 = e2

\* MaxRootCertificates and MaxClientCertificates bound the certificates of each
\* fabric, the check matter.js cannot make on the list of all the fabrics.
RootCertificatesWithinLimit ==
    \A fabric \in FabricIndexes :
        Cardinality(OfFabric(rootCertificateStore, fabric)) <= MaxRootCertificates

ClientCertificatesWithinLimit ==
    \A fabric \in FabricIndexes :
        Cardinality(OfFabric(clientCertificateStore, fabric)) <= MaxClientCertificates

\* LookupRootCertificate has one answer, the CAID under which FindRootCertificate
\* returns the certificate: no add and no replacement duplicates a fingerprint.
RootLookupIsExact ==
    \A entry \in rootCertificateStore :
        LookupRootCertificate(entry.fabric, entry.certificate) = {entry.caid}

\* The same of LookupClientCertificate and FindClientCertificate.
ClientLookupIsExact ==
    \A entry \in clientCertificateStore :
        entry.clientCertificate # Null =>
            LookupClientCertificate(entry.fabric, entry.clientCertificate) = {entry.ccdid}

\* An installed client certificate was issued for the private key of its own
\* entry, through every rotation of the certificate.
ClientCertificateMatchesKey ==
    \A entry \in clientCertificateStore :
        entry.clientCertificate # Null => PublicKey[entry.clientCertificate] = entry.privateKey

\* No two entries, of one fabric or of two, share a private key.
PrivateKeysDistinct ==
    \A e1, e2 \in clientCertificateStore : e1.privateKey = e2.privateKey => e1 = e2

\* What a fabric reads in the two attributes is what the Find commands answer it:
\* every handler that changes a store has refreshed both attributes.
AttributesAgreeWithFind ==
    \A fabric \in FabricIndexes :
        /\ FindRootCertificate(fabric, Null) =
               {entry \in provisionedRootCertificates : entry.fabricIndex = fabric}
        /\ FindClientCertificate(fabric, Null) =
               {entry \in provisionedClientCertificates : entry.fabricIndex = fabric}

\* While provisioning respects the per fabric limits and these leave an id free,
\* allocateId always finds one: its ResourceExhausted is unreachable.
AllocatorNeverExhausted ==
    /\ ~IdsExhausted(Caids(rootCertificateStore))
    /\ ~IdsExhausted(Ccdids(clientCertificateStore))

\* The private key of a CCDID never changes while the CCDID exists, and an
\* installed certificate is only ever replaced, never taken away: a rotation
\* leaves the entry usable at every moment.
RotationKeepsKeyAndCertificate ==
    [][\A old \in clientCertificateStore, new \in clientCertificateStore' :
          old.ccdid = new.ccdid /\ old.fabric = new.fabric =>
              /\ new.privateKey = old.privateKey
              /\ old.clientCertificate # Null => new.clientCertificate # Null]_certificateVars

CredentialsIn(store) ==
    [id \in Ccdids(store) |->
        LET entry == CHOOSE e \in store : e.ccdid = id
        IN  [fabric |-> entry.fabric, key |-> entry.privateKey, certificate |-> entry.clientCertificate]]

Credentials == INSTANCE ClientCredentials WITH
    credentials <- CredentialsIn(clientCertificateStore), usedKeys <- generatedKeys,
    Fabrics <- FabricIndexes, Ids <- TlsIds, Keys <- KeyPairs, NoCertificate <- Null

\* The server implements ClientCredentials: its store is a function from the ids,
\* and every command, rejection and fabric cleanup is a step of it or leaves it.
ImplementsClientCredentials == Credentials!Spec
=============================================================================
