---------------------------- MODULE MCJwksCache -----------------------------
(* Instances of JwksCache small enough for TLC.                            *)
EXTENDS JwksCache, TLC

\* Threads are interchangeable.
ThreadSymmetry == Permutations(Threads)
=============================================================================
