--------------------------- MODULE MCRootCeremony ---------------------------
(* RootCeremony for TLC; instances and generations are model values.       *)
EXTENDS RootCeremony
=============================================================================
