----------------------------- MODULE MCRootNode -----------------------------
(* Small instances of RootNode: every certificate is valid, and the client    *)
(* certificates are issued for the key pairs in turn.                        *)
EXTENDS RootNode

CONSTANTS ca1, ca2, key1, key2, host1, host2

AlwaysValid == [c \in Certificates |-> Times]
IssuedFor == [c \in Certificates |-> IF c = ca2 THEN key2 ELSE key1]
=============================================================================
