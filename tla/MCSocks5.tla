------------------------------ MODULE MCSocks5 ------------------------------
(* Socks5 for TLC; the bounds are in the configurations.                   *)
EXTENDS Socks5
=============================================================================
