-------------------------------- MODULE MCHub --------------------------------
(* One worker and one client.                                              *)
EXTENDS Hub

CONSTANTS w1, c1
=============================================================================
