-------------------------- MODULE ClientCredentials --------------------------
(***************************************************************************)
(* What the TLS Certificate Management server promises about the client    *)
(* certificates, whatever its ids, limits and attributes: an id names one  *)
(* credential of one fabric; the key of a credential is new and its own    *)
(* for good; the only certificates it ever gets were issued for that key,  *)
(* each to one credential of the fabric; and a credential goes away by     *)
(* itself or with its fabric, never with another one.                      *)
(***************************************************************************)
CONSTANTS Fabrics, Ids, Keys, Certificates, PublicKey, NoCertificate

VARIABLES
    credentials,  \* a function from the ids in use
    usedKeys      \* every key ever created

credentialVars == <<credentials, usedKeys>>

Credential == [fabric : Fabrics, key : Keys, certificate : Certificates \cup {NoCertificate}]

Init ==
    /\ credentials \in [{} -> Credential]
    /\ usedKeys = {}

Create(id, fabric, key) ==
    /\ id \notin DOMAIN credentials
    /\ key \notin usedKeys
    /\ credentials' = [i \in DOMAIN credentials \cup {id} |->
                          IF i = id THEN [fabric |-> fabric, key |-> key, certificate |-> NoCertificate]
                          ELSE credentials[i]]
    /\ usedKeys' = usedKeys \cup {key}

Certify(id, certificate) ==
    /\ id \in DOMAIN credentials
    /\ PublicKey[certificate] = credentials[id].key
    /\ \A i \in DOMAIN credentials :
           credentials[i].fabric = credentials[id].fabric => credentials[i].certificate # certificate
    /\ credentials' = [credentials EXCEPT ![id] =
           [fabric |-> credentials[id].fabric, key |-> credentials[id].key, certificate |-> certificate]]
    /\ UNCHANGED usedKeys

Forget(ids) ==
    /\ credentials' = [i \in DOMAIN credentials \ ids |-> credentials[i]]
    /\ UNCHANGED usedKeys

CredentialsOf(fabrics) == {id \in DOMAIN credentials : credentials[id].fabric \in fabrics}

Next ==
    \/ \E id \in Ids, fabric \in Fabrics, key \in Keys : Create(id, fabric, key)
    \/ \E id \in Ids, certificate \in Certificates : Certify(id, certificate)
    \/ \E id \in Ids : Forget({id})
    \/ \E fabrics \in SUBSET Fabrics : Forget(CredentialsOf(fabrics))

Spec == Init /\ [][Next]_credentialVars
=============================================================================
