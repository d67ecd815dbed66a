---------------------------- MODULE MCPolicyCache ---------------------------
(* PolicyCache for TLC; the bounds are in the configuration.               *)
EXTENDS PolicyCache
=============================================================================
