------------------------ MODULE MCTlsClientManagement ------------------------
(* A small instance of TlsClientManagement: a good hostname and one of a      *)
(* wrong length.                                                             *)
EXTENDS TlsClientManagement

CONSTANTS host1, tooLong
=============================================================================
