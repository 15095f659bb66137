------------------------- MODULE MCResilientTransport -------------------------
(* Instances of ResilientTransport for TLC. *)
EXTENDS ResilientTransport
=============================================================================
