--------------------------- MODULE MCProxyBridge ----------------------------
(* ProxyBridge for TLC; the bounds are in the configurations.              *)
EXTENDS ProxyBridge
=============================================================================
