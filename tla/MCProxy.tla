------------------------------- MODULE MCProxy -------------------------------
(* The smallest proxy in which a client can be kept waiting by another one. *)
EXTENDS Proxy
=============================================================================
