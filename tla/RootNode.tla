------------------------------ MODULE RootNode ------------------------------
(***************************************************************************)
(* The Root Node of the Server Camera (rootNode.ts): the TLS Certificate   *)
(* Management and TLS Client Management servers on one endpoint, with the  *)
(* fabrics of the node and the process that hosts it.                      *)
(*                                                                         *)
(* External, as the servers use it: OperationalCredentials adds a fabric   *)
(* under a fresh index and removes it, and emits fabrics$Changed with the  *)
(* fabrics after the change.  The certificate server reacts in a later     *)
(* transaction (offline: true, lock: true), so the events wait in a queue. *)
(* A process that stops loses the queue and the attributes that are not    *)
(* nonvolatile; it restarts with initialize.                               *)
(*                                                                         *)
(* Assumption on matter.js: a fabric that was just commissioned sends its  *)
(* first TLS command after the reactions queued before its commissioning   *)
(* ran (they wait for a local lock; a command comes over the network after *)
(* CASE is established).  This is Reacted, a guard of every command.       *)
(***************************************************************************)
EXTENDS TlsCertificateManagement, TlsClientManagement, Sequences

CONSTANT MayCrash  \* the process may stop while a reaction is pending

ASSUME MayCrashAssumption == MayCrash \in BOOLEAN

VARIABLES
    online,           \* the node is initialized and serves commands
    fabrics,          \* the fabrics commissioned on the node, nonvolatile
    nextFabricIndex,  \* the fabric index of the next commissioning
    fabricsChanged,   \* queue of the events not reacted to, each the fabrics then
    reactionLost      \* auxiliary: the process has stopped with an event in the queue

nodeVars == <<online, fabrics, nextFabricIndex, fabricsChanged, reactionLost>>
rootNodeVars == <<certificateVars, endpointVars, nodeVars>>

Reacted(fabric) == \A i \in DOMAIN fabricsChanged : fabric \in fabricsChanged[i]

(***************************************************************************)
(* Commands.  UTCTime is never null online: the Time Synchronization       *)
(* server sets it from the host clock when it initializes.                 *)
(***************************************************************************)

CertificateCommand(fabric) ==
    /\ online /\ fabric \in fabrics /\ Reacted(fabric)
    /\ \E now \in Times :
           \/ RootCertificateCommand(fabric, provisionedEndpoints, TRUE, now)
           \/ ClientCertificateCommand(fabric, provisionedEndpoints, now)
    /\ UNCHANGED <<endpointVars, nodeVars>>

TlsEndpointCommandOn(fabric, endpointId) ==
    /\ online /\ fabric \in fabrics /\ Reacted(fabric)
    /\ EndpointCommandOn(fabric, endpointId, TRUE,
                         provisionedRootCertificates, provisionedClientCertificates)
    /\ UNCHANGED <<certificateVars, nodeVars>>

TlsEndpointCommand(fabric) ==
    \E endpointId \in TlsIdFields \cup {Null} : TlsEndpointCommandOn(fabric, endpointId)

(***************************************************************************)
(* Fabrics                                                                 *)
(***************************************************************************)

CommissionFabric ==
    /\ online /\ nextFabricIndex \in FabricIndexes
    /\ fabrics' = fabrics \cup {nextFabricIndex}
    /\ nextFabricIndex' = nextFabricIndex + 1
    /\ fabricsChanged' = Append(fabricsChanged, fabrics')
    /\ UNCHANGED <<certificateVars, endpointVars, online, reactionLost>>

RemoveFabric(fabric) ==
    /\ online /\ fabric \in fabrics
    /\ fabrics' = fabrics \ {fabric}
    /\ fabricsChanged' = Append(fabricsChanged, fabrics')
    /\ UNCHANGED <<certificateVars, endpointVars, online, nextFabricIndex, reactionLost>>

ReactToFabricsChanged ==
    /\ online /\ fabricsChanged # <<>>
    /\ HandleFabricsChanged(Head(fabricsChanged))
    /\ fabricsChanged' = Tail(fabricsChanged)
    /\ UNCHANGED <<endpointVars, online, fabrics, nextFabricIndex, reactionLost>>

PruneRemovedFabrics ==
    /\ PruneEndpoints(fabrics)
    /\ UNCHANGED <<certificateVars, nodeVars>>

(***************************************************************************)
(* The process.  An orderly shutdown lets the pending reactions finish; a  *)
(* crash does not.                                                         *)
(***************************************************************************)

Stop ==
    /\ online
    /\ MayCrash \/ fabricsChanged = <<>>
    /\ online' = FALSE
    /\ fabricsChanged' = <<>>
    /\ reactionLost' = (reactionLost \/ fabricsChanged # <<>>)
    /\ provisionedRootCertificates' = {}
    /\ provisionedClientCertificates' = {}
    /\ UNCHANGED <<storeVars, generatedKeys, endpointVars, fabrics, nextFabricIndex>>

Start ==
    /\ ~online
    /\ online' = TRUE
    /\ InitializeTlsCertificateManagement
    /\ UNCHANGED <<endpointVars, fabrics, nextFabricIndex, fabricsChanged, reactionLost>>

Init ==
    /\ InitTlsCertificateManagement
    /\ InitTlsClientManagement
    /\ online = FALSE
    /\ fabrics = {}
    /\ nextFabricIndex = 1
    /\ fabricsChanged = <<>>
    /\ reactionLost = FALSE

Next ==
    \/ \E fabric \in FabricIndexes :
           \/ CertificateCommand(fabric)
           \/ TlsEndpointCommand(fabric)
           \/ RemoveFabric(fabric)
    \/ CommissionFabric
    \/ ReactToFabricsChanged
    \/ PruneRemovedFabrics
    \/ Stop
    \/ Start

Spec == Init /\ [][Next]_rootNodeVars

\* A queued reaction runs as soon as it gets the lock; matter.js prunes the
\* endpoints on its own; the host restarts a stopped process.
Fairness ==
    /\ WF_rootNodeVars(ReactToFabricsChanged)
    /\ WF_rootNodeVars(PruneRemovedFabrics)
    /\ WF_rootNodeVars(Start)

FairSpec == Spec /\ Fairness

(***************************************************************************)
(* Properties                                                              *)
(***************************************************************************)

\* The state of the node is well formed, and offline no attribute outlives the
\* process: only the stores and the endpoints are nonvolatile.
RootNodeTypeOK ==
    /\ CertificatesTypeOK
    /\ EndpointsTypeOK
    /\ online \in BOOLEAN
    /\ ~online => provisionedRootCertificates = {} /\ provisionedClientCertificates = {}
    /\ fabrics \subseteq FabricIndexes
    /\ nextFabricIndex \in 1..(MaxFabricIndex + 1)
    /\ fabricsChanged \in Seq(SUBSET FabricIndexes)
    /\ reactionLost \in BOOLEAN

\* A TLS endpoint of a fabric on the node always refers to a root certificate,
\* and to a client certificate if it names one, that the fabric still has: the
\* checks of ProvisionEndpoint read attributes, those of the removals read the
\* endpoints, and fabric cleanup runs between them.
EndpointCertificatesExist ==
    \A e \in provisionedEndpoints :
        e.fabricIndex \in fabrics =>
            /\ HasCaid(e.fabricIndex, e.caid)
            /\ e.ccdid # Null => HasCcdid(e.fabricIndex, e.ccdid)

\* Once the node is up and has reacted to every fabric change, it holds no
\* certificate and no private key of a fabric that is not on it.
NoOrphanedCertificates ==
    online /\ fabricsChanged = <<>> =>
        \A entry \in rootCertificateStore \cup clientCertificateStore :
            entry.fabric \in fabrics

\* The same, as long as no crash has taken a reaction away.
OrphansOnlyByCrash == ~reactionLost => NoOrphanedCertificates

\* While the node serves requests the attributes agree with the Find commands,
\* also right after a restart.
AttributesAgreeOnline == online => AttributesAgreeWithFind

LostCaids(fabric) ==
    Caids(OfFabric(rootCertificateStore, fabric)) \ Caids(OfFabric(rootCertificateStore, fabric))'

LostCcdids(fabric) ==
    Ccdids(OfFabric(clientCertificateStore, fabric)) \ Ccdids(OfFabric(clientCertificateStore, fabric))'

LosesCertificates(fabric) == LostCaids(fabric) # {} \/ LostCcdids(fabric) # {}

\* The step is a removal command of the fabric, and takes what the command names.
OwnRemoval(fabric) ==
    /\ \/ \E caid \in TlsIds :
              /\ RemoveRootCertificate(fabric, caid, provisionedEndpoints)
              /\ LostCaids(fabric) = {caid} /\ LostCcdids(fabric) = {}
       \/ \E ccdid \in TlsIds :
              /\ RemoveClientCertificate(fabric, ccdid, provisionedEndpoints)
              /\ LostCaids(fabric) = {} /\ LostCcdids(fabric) = {ccdid}
    /\ UNCHANGED <<endpointVars, nodeVars>>

LosesWhatItRemoves(fabric) ==
    /\ OwnRemoval(fabric)
    /\ \A other \in FabricIndexes \ {fabric} : ~CertificateCommand(other)
    /\ \A e \in EndpointsOf(fabric) :
           e.caid \notin LostCaids(fabric) /\ e.ccdid \notin LostCcdids(fabric)

LiveFabricsLoseWhatTheyRemove ==
    \A fabric \in fabrics \cap fabrics' :
        LosesCertificates(fabric) => LosesWhatItRemoves(fabric)

\* A fabric that stays on the node loses a certificate only by its own removal
\* command that names it, and none that a TLS endpoint of it uses: no command of
\* another fabric takes one, nor does the reaction to the removal of another fabric.
LiveFabricKeepsCertificates == [][LiveFabricsLoseWhatTheyRemove]_rootNodeVars

\* Unless a crash takes the reaction away, all that a removed fabric left is
\* eventually deleted for good: the certificates and private keys by the reaction,
\* the endpoints by matter.js.
Forgotten(fabric) ==
    /\ OfFabric(rootCertificateStore, fabric) = {}
    /\ OfFabric(clientCertificateStore, fabric) = {}
    /\ EndpointsOf(fabric) = {}

RemovedFabricsForgotten ==
    \A fabric \in FabricIndexes :
        fabric < nextFabricIndex /\ fabric \notin fabrics ~> [](Forgotten(fabric) \/ reactionLost)
=============================================================================
