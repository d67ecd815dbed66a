------------------------------ MODULE MCBuffer ------------------------------
(* Buffer for TLC; the bounds are in the configuration.                    *)
EXTENDS Buffer
=============================================================================
