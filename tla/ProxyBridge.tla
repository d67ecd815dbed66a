----------------------------- MODULE ProxyBridge ----------------------------
(***************************************************************************)
(* The forwarding phase of one proxy session                               *)
(* (container-tools/cc/aws/proxy/src/proxy_bridge.cc): two sockets, two    *)
(* buffers, up to four socket operations under way, and the flags that     *)
(* decide which to start next and when to pass on that a peer has ended.   *)
(*                                                                         *)
(* A side is a socket and the peer behind it; the buffer of a side holds   *)
(* what was read from it, which is upstream_buff_ for the client and       *)
(* downstream_buff_ for the destination.  A buffer is a queue of bytes, as *)
(* ByteQueue says, so that counts of bytes are enough here.  The handlers  *)
(* run on the session's strand, each to its end.                           *)
(***************************************************************************)
EXTENDS Naturals

CONSTANTS
  MaxBufferSize, \* kMaxBufferSize
  MaxRead,       \* the most that ReserveAtLeast(kReadSize) reserves
  MaxSent        \* bound on the bytes a peer sends

ASSUME BridgeAssumption ==
  /\ MaxBufferSize \in Nat \ {0}
  /\ MaxRead \in Nat \ {0}
  /\ MaxSent \in Nat

Sides == {"client", "dest"}
Other(s) == IF s = "client" THEN "dest" ELSE "client"

VARIABLES
  sent,      \* bytes the peer has sent
  ended,     \* whether it has ended its stream
  broken,    \* whether its connection is reset
  got,       \* bytes read from the side
  put,       \* bytes written to the side
  reading,   \* reading_client_, reading_dest_
  writing,   \* writing_client_, writing_dest_
  readable,  \* client_readable_, dest_readable_
  writable,  \* client_writable_, dest_writable_
  shutSend,  \* whether shutdown_send was called on the socket
  shutRecv   \* whether shutdown_receive was

peers == <<sent, ended, broken>>
flags == <<readable, writable>>
vars == <<peers, got, put, reading, writing, flags, shutSend, shutRecv>>

\* data_size of a side's buffer.
data_size(s) == got[s] - put[Other(s)]

-----------------------------------------------------------------------------
(* ForwardTraffic                                                          *)

\* Whether to read from a side, and whether to write to it, with the flags and
\* buffers that the handler leaves.
WantsRead(s) ==
  readable'[s] /\ writable'[Other(s)] /\ got'[s] - put'[Other(s)] < MaxBufferSize

WantsWrite(s) == writable'[s] /\ got'[Other(s)] > put'[s]

\* The operations a handler leaves under way, its own one being over.
ForwardTraffic(pendingReads, pendingWrites) ==
  /\ reading' = [s \in Sides |-> s \in pendingReads \/ WantsRead(s)]
  /\ writing' = [s \in Sides |-> s \in pendingWrites \/ WantsWrite(s)]

Reads  == {s \in Sides : reading[s]}
Writes == {s \in Sides : writing[s]}

\* The first call, after the handshake, which may have read ahead.
Init ==
  /\ \E ahead \in 0 .. MaxRead : sent = [s \in Sides |-> IF s = "client" THEN ahead ELSE 0]
  /\ ended = [s \in Sides |-> FALSE]
  /\ broken = [s \in Sides |-> FALSE]
  /\ got = sent
  /\ put = [s \in Sides |-> 0]
  /\ reading = [s \in Sides |-> got[s] < MaxBufferSize]
  /\ writing = [s \in Sides |-> got[Other(s)] > 0]
  /\ readable = [s \in Sides |-> TRUE]
  /\ writable = [s \in Sides |-> TRUE]
  /\ shutSend = [s \in Sides |-> FALSE]
  /\ shutRecv = [s \in Sides |-> FALSE]

-----------------------------------------------------------------------------
(* The peers                                                               *)

PeerSends(s) ==
  /\ ~ended[s] /\ ~broken[s]
  /\ sent[s] < MaxSent
  /\ sent' = [sent EXCEPT ![s] = @ + 1]
  /\ UNCHANGED <<ended, broken, got, put, reading, writing, flags, shutSend, shutRecv>>

PeerEnds(s) ==
  /\ ~ended[s] /\ ~broken[s]
  /\ ended' = [ended EXCEPT ![s] = TRUE]
  /\ UNCHANGED <<sent, broken, got, put, reading, writing, flags, shutSend, shutRecv>>

PeerBreaks(s) ==
  /\ ~broken[s]
  /\ broken' = [broken EXCEPT ![s] = TRUE]
  /\ UNCHANGED <<sent, ended, got, put, reading, writing, flags, shutSend, shutRecv>>

-----------------------------------------------------------------------------
(* ClientReadHandler and DestReadHandler                                   *)

\* The read has brought n bytes.
ReadSome(s, n) ==
  /\ reading[s]
  /\ ~broken[s]
  /\ n <= sent[s] - got[s]
  /\ got' = [got EXCEPT ![s] = @ + n]
  /\ UNCHANGED <<peers, put, flags, shutSend, shutRecv>>
  /\ ForwardTraffic(Reads \ {s}, Writes)

\* A read comes to the end of the stream, or fails.
AtEnd(s) == broken[s] \/ (sent[s] = got[s] /\ (ended[s] \/ shutRecv[s]))

\* Mutant: the end is passed on at once, before the data that is left.
ReadEndsAtOnce(s) ==
  /\ reading[s]
  /\ AtEnd(s)
  /\ readable' = [readable EXCEPT ![s] = FALSE]
  /\ shutSend' = [shutSend EXCEPT ![Other(s)] = TRUE]
  /\ UNCHANGED <<peers, got, put, writable, shutRecv>>
  /\ ForwardTraffic(Reads \ {s}, Writes)

\* The end is passed on if nothing is left to be written.
ReadEnds(s) ==
  /\ reading[s]
  /\ AtEnd(s)
  /\ readable' = [readable EXCEPT ![s] = FALSE]
  /\ shutSend' = [shutSend EXCEPT ![Other(s)] = @ \/ data_size(s) = 0]
  /\ UNCHANGED <<peers, got, put, writable, shutRecv>>
  /\ ForwardTraffic(Reads \ {s}, Writes)

-----------------------------------------------------------------------------
(* ClientWriteHandler and DestWriteHandler                                 *)

\* The last lines of the handler: the side the data comes from has ended and all
\* of it is written.
PassOnEnd(s, usable) ==
  LET done == ~readable[Other(s)] /\ got[Other(s)] = put'[s]
  IN /\ writable' = [writable EXCEPT ![s] = usable /\ ~done]
     /\ shutSend' = [shutSend EXCEPT ![s] = @ \/ done]

\* Mutant: only reads pass the end on.
WriteSomeKeepsOpen(s, n) ==
  /\ writing[s]
  /\ ~broken[s] /\ ~shutSend[s]
  /\ n <= data_size(Other(s))
  /\ put' = [put EXCEPT ![s] = @ + n]
  /\ UNCHANGED <<peers, got, flags, shutSend, shutRecv>>
  /\ ForwardTraffic(Reads, Writes \ {s})

WriteSome(s, n) ==
  /\ writing[s]
  /\ ~broken[s] /\ ~shutSend[s]
  /\ n <= data_size(Other(s))
  /\ put' = [put EXCEPT ![s] = @ + n]
  /\ PassOnEnd(s, TRUE)
  /\ UNCHANGED <<peers, got, readable, shutRecv>>
  /\ ForwardTraffic(Reads, Writes \ {s})

\* Mutant: the side stays writable.
WriteFailsKeepsWritable(s) ==
  /\ writing[s]
  /\ broken[s] \/ shutSend[s]
  /\ shutRecv' = [shutRecv EXCEPT ![Other(s)] = TRUE]
  /\ UNCHANGED put
  /\ PassOnEnd(s, TRUE)
  /\ UNCHANGED <<peers, got, readable>>
  /\ ForwardTraffic(Reads, Writes \ {s})

\* A failed write ends the other side's reading.
WriteFails(s) ==
  /\ writing[s]
  /\ broken[s] \/ shutSend[s]
  /\ shutRecv' = [shutRecv EXCEPT ![Other(s)] = TRUE]
  /\ UNCHANGED put
  /\ PassOnEnd(s, FALSE)
  /\ UNCHANGED <<peers, got, readable>>
  /\ ForwardTraffic(Reads, Writes \ {s})

-----------------------------------------------------------------------------
ReadHandler(s) == ReadEnds(s) \/ \E n \in 1 .. MaxRead : ReadSome(s, n)

WriteHandler(s) ==
  WriteFails(s) \/ \E n \in 1 .. MaxBufferSize + MaxRead : WriteSome(s, n)

Next ==
  \E s \in Sides :
    \/ PeerSends(s) \/ PeerEnds(s) \/ PeerBreaks(s)
    \/ ReadHandler(s) \/ WriteHandler(s)

Spec == Init /\ [][Next]_vars

\* The threads of ProxyServer run every handler whose operation is complete; a
\* read of a stream with data or at its end completes, and so does a write, as
\* long as the peers go on reading what they are sent.
LiveSpec == Spec /\ \A s \in Sides : WF_vars(ReadHandler(s)) /\ WF_vars(WriteHandler(s))

-----------------------------------------------------------------------------
(* Properties                                                              *)

\* Every variable keeps its type, and no byte is written before it is read.
TypeOK ==
  /\ sent \in [Sides -> Nat] /\ got \in [Sides -> Nat] /\ put \in [Sides -> Nat]
  /\ ended \in [Sides -> BOOLEAN] /\ broken \in [Sides -> BOOLEAN]
  /\ reading \in [Sides -> BOOLEAN] /\ writing \in [Sides -> BOOLEAN]
  /\ readable \in [Sides -> BOOLEAN] /\ writable \in [Sides -> BOOLEAN]
  /\ shutSend \in [Sides -> BOOLEAN] /\ shutRecv \in [Sides -> BOOLEAN]
  /\ \A s \in Sides : put[Other(s)] <= got[s] /\ got[s] <= sent[s]

\* A session buffers no more than kMaxBufferSize and one read, whatever the
\* difference in speed between the peers.
BufferIsBounded == \A s \in Sides : data_size(s) < MaxBufferSize + MaxRead

\* Nothing is written to a socket whose sending side was shut down, though
\* ReadEnds leaves it marked as writable.
NoWriteAfterShutdown == \A s \in Sides : writing[s] => ~shutSend[s]

\* A peer is told of the end of the stream after all that the other peer sent,
\* and only if that one has ended: the data left in a buffer is never cut off.
EndComesLast ==
  \A s \in Sides :
    shutSend[s] /\ ~broken[s] /\ ~broken[Other(s)] =>
      ended[Other(s)] /\ put[s] = sent[Other(s)]

\* What the flags say about the buffers and the peers: an operation that is under
\* way was called for when it started and still is, a socket is shut down only
\* for a drained buffer of an ended side, and a side ends only with its peer or
\* with a connection.
FlagsInv ==
  \A s \in Sides :
    /\ reading[s] => readable[s] /\ data_size(s) < MaxBufferSize
    /\ writing[s] => put[s] < got[Other(s)]
    /\ shutSend[s] => ~readable[Other(s)] /\ got[Other(s)] = put[s]
    /\ shutRecv[s] => broken[Other(s)]
    /\ ~readable[s] => broken[s] \/ broken[Other(s)] \/ (ended[s] /\ sent[s] = got[s])

\* Everything a handler of ProxyBridge may rely on when it runs: types, the bound
\* on the buffers and the accord of flags, buffers and peers.
BridgeInv == TypeOK /\ BufferIsBounded /\ FlagsInv

\* That a peer has ended is passed on, unless one of the connections breaks.
EndIsPassedOn ==
  \A s \in Sides : ended[Other(s)] ~> shutSend[s] \/ broken[s] \/ broken[Other(s)]

\* When both peers are gone no operation is left to hold the session, so that
\* the destructor closes the sockets.
SessionIsReleased ==
  (\A s \in Sides : ended[s] \/ broken[s]) ~> (\A s \in Sides : ~reading[s] /\ ~writing[s])
=============================================================================
