--------------------- MODULE MCTlsCertificateManagement ---------------------
(* Small instances of TlsCertificateManagement. *)
EXTENDS TlsCertificateManagement

CONSTANTS a1, a2, b1, pem, big, key1, key2, key3, key4

\* Root certificates: one that expires, one not valid yet, one always valid,
\* one that is not DER and one that is too long.
RootCertificates == {a1, a2, b1, pem, big}
RootValidity ==
    [c \in RootCertificates |->
        CASE c = a1 -> {1} [] c = a2 -> {2} [] c \in {b1, big} -> {1, 2} [] c = pem -> {}]
NoKey == [c \in RootCertificates |-> key1]

\* Client certificates: two issued for the first key pair, so that it can be
\* rotated, and one for the second; the other key pairs have none.
ClientCertificates == {a1, a2, b1}
ClientValidity == [c \in ClientCertificates |-> IF c = a2 THEN {2} ELSE {1, 2}]
IssuedFor == [c \in ClientCertificates |-> IF c = b1 THEN key2 ELSE key1]
=============================================================================
