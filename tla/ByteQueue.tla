----------------------------- MODULE ByteQueue ------------------------------
(***************************************************************************)
(* What a buffer promises: bytes come out in the order in which they went  *)
(* in, each once.  A byte is its place in the stream that was written.     *)
(***************************************************************************)
EXTENDS Naturals, Sequences

VARIABLES
  queue,    \* the bytes in the buffer
  out,      \* the bytes last taken from it
  written   \* how many bytes were put into it

qvars == <<queue, out, written>>

Init ==
  /\ queue = <<>>
  /\ out = <<>>
  /\ written = 0

Put ==
  /\ written' > written
  /\ queue' = queue \o [i \in 1 .. written' - written |-> written + i]
  /\ UNCHANGED out

Take ==
  /\ \E n \in 0 .. Len(queue) :
       /\ out' = SubSeq(queue, 1, n)
       /\ queue' = SubSeq(queue, n + 1, Len(queue))
  /\ UNCHANGED written

Next == Put \/ Take

Spec == Init /\ [][Next]_qvars
=============================================================================
