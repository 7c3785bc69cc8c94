------------------------------ MODULE MCIdentity ------------------------------
(* Identity for one device with its agent on one host, and another host.     *)
EXTENDS Identity
=============================================================================
