------------------------------- MODULE TlsIds -------------------------------
(***************************************************************************)
(* The identifiers of the TLS clusters of the Root Node: TLSCAID, TLSCCDID *)
(* and TLSEndpointID.  All three are unsigned 16-bit numbers from 0 to     *)
(* 65534, unique on the node across fabrics, and all three are allocated   *)
(* by the same function, allocateId of tlsCertificateManagementServer.ts.  *)
(***************************************************************************)
EXTENDS Integers

CONSTANTS
    MaxTlsId,        \* MAX_TLS_CERTIFICATE_ID = MAX_TLS_ENDPOINT_ID: 65534
    MaxFabricIndex,  \* the largest fabric index of the node
    Null             \* the null of a nullable command field

ASSUME TlsIdsAssumption ==
    /\ MaxTlsId \in Nat
    /\ MaxFabricIndex \in Nat \ {0}
    /\ Null \notin Int

TlsIds == 0..MaxTlsId

\* The ids a command may carry: the field is one wider than the valid range.
TlsIdFields == 0..(MaxTlsId + 1)

\* context.fabric of a command without an accessing fabric.
NoFabric == 0
FabricIndexes == 1..MaxFabricIndex

\* The id tried by iteration i of the loop of allocateId.
Candidate(next, i) == (next + i) % (MaxTlsId + 1)

\* The loop of allocateId falls through to its throw: every id is in use.
IdsExhausted(used) == TlsIds \subseteq used

\* Mutant: the next id is taken without looking whether it is in use.
AllocateIdUnchecked(used, next) == next

\* The first candidate, from next on and around, that is not in use.
AllocateId(used, next) ==
    LET free  == {i \in TlsIds : Candidate(next, i) \notin used}
        first == CHOOSE i \in free : \A j \in free : i <= j
    IN  Candidate(next, first)

\* Mutant: the next id runs past the largest one.
IdAfterNoWrap(id) == id + 1

\* The value every caller leaves in nextCaid, nextCcdid or nextEndpointId.
IdAfter(id) == (id + 1) % (MaxTlsId + 1)
=============================================================================
