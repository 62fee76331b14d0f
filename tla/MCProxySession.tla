--------------------------- MODULE MCProxySession ---------------------------
(* Small instances of ProxySession for TLC. *)
EXTENDS ProxySession
=============================================================================
