---------------------------- MODULE RootOfTrust -----------------------------
(***************************************************************************)
(* What the root key ceremony promises the rest of the system: there is    *)
(* one root.  It is established once and never changes, and every instance *)
(* that serves, now or after any restart, serves that root.                *)
(*                                                                         *)
(* The promise ends when two instances bootstrap at once: from then on the *)
(* root is disputed, and all that is left is that an instance which serves *)
(* does not change the root it signs with.                                 *)
(***************************************************************************)
CONSTANTS Instances, Gens, None

VARIABLES
  root,     \* the established root, or None
  live,     \* live[i]: the root instance i signs with, or None
  disputed  \* two instances have bootstrapped at once

rvars == <<root, live, disputed>>

Init ==
  /\ root = None
  /\ live = [i \in Instances |-> None]
  /\ disputed = FALSE

Establish(g) ==
  /\ root = None
  /\ root' = g
  /\ UNCHANGED live

Serve(i) ==
  /\ root # None
  /\ live[i] = None
  /\ live' = [live EXCEPT ![i] = root]
  /\ UNCHANGED root

Halt(i) ==
  /\ live[i] # None
  /\ live' = [live EXCEPT ![i] = None]
  /\ UNCHANGED root

\* One root for all.
Agree ==
  /\ ~disputed
  /\ UNCHANGED disputed
  /\ \/ \E g \in Gens : Establish(g)
     \/ \E i \in Instances : Serve(i) \/ Halt(i)

\* Any root may be stored, and an instance may begin to serve any; one that serves
\* keeps to its root until it halts.
Disagree ==
  /\ disputed'
  /\ root' \in Gens \cup {None}
  /\ live' \in [Instances -> Gens \cup {None}]
  /\ \A i \in Instances : live[i] # None => live'[i] \in {live[i], None}

Next == Agree \/ Disagree

Spec == Init /\ [][Next]_rvars
=============================================================================
