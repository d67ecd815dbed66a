-------------------------- MODULE ProxyBridgeProofs -------------------------
(***************************************************************************)
(* The safety of the forwarding phase, for any sizes of buffers and reads  *)
(* and any number of bytes.  BridgeInv is inductive: an operation under    *)
(* way ties the flags to the buffers (FlagsInv), and from that follow the  *)
(* two properties about the end of a stream.                               *)
(***************************************************************************)
EXTENDS ProxyBridge, TLAPS

\* A side has one other side, whose other side it is.
LEMMA OtherSide ==
  \A s \in Sides : /\ Other(s) \in Sides /\ Other(s) # s /\ Other(Other(s)) = s
                   /\ \A t \in Sides : t = s \/ t = Other(s)
  BY DEF Sides, Other

\* The session starts in a state of the invariant, with what was read ahead.
LEMMA BridgeInit == Init => BridgeInv
  <1> SUFFICES ASSUME Init PROVE BridgeInv
    OBVIOUS
  <1>1. PICK ahead \in 0 .. MaxRead : sent = [s \in Sides |-> IF s = "client" THEN ahead ELSE 0]
    BY DEF Init
  <1>2. TypeOK
    BY <1>1, BridgeAssumption, OtherSide DEF Init, TypeOK
  <1>3. ASSUME NEW s \in Sides
        PROVE  /\ data_size(s) \in 0 .. MaxRead
               /\ reading[s] => data_size(s) < MaxBufferSize
               /\ writing[s] => put[s] < got[Other(s)]
    <2>1. Other(s) \in Sides /\ put[Other(s)] = 0 /\ put[s] = 0 /\ got[s] \in 0 .. MaxRead
      BY <1>1, <1>3, BridgeAssumption, OtherSide DEF Init
    <2>2. data_size(s) = got[s] /\ got[Other(s)] \in Nat
      BY <1>2, <2>1 DEF data_size, TypeOK
    <2>3. (reading[s] = (got[s] < MaxBufferSize)) /\ (writing[s] = (got[Other(s)] > 0))
      BY <1>3 DEF Init
    <2> QED
      BY <2>1, <2>2, <2>3
  <1>4. BufferIsBounded
    BY <1>3, BridgeAssumption DEF BufferIsBounded
  <1>5. FlagsInv
    BY <1>3 DEF FlagsInv, Init
  <1> QED
    BY <1>2, <1>4, <1>5 DEF BridgeInv

\* What ForwardTraffic leaves under way: what was, and what it calls for.
LEMMA Forwarded ==
  ASSUME NEW R \in SUBSET Sides, NEW W \in SUBSET Sides, ForwardTraffic(R, W),
         got' \in [Sides -> Nat], put' \in [Sides -> Nat]
  PROVE  /\ reading' \in [Sides -> BOOLEAN] /\ writing' \in [Sides -> BOOLEAN]
         /\ \A t \in Sides :
              /\ reading'[t] => t \in R \/ (readable'[t] /\ got'[t] - put'[Other(t)] < MaxBufferSize)
              /\ writing'[t] => t \in W \/ put'[t] < got'[Other(t)]
  <1>1. reading' = [s \in Sides |-> s \in R \/ WantsRead(s)]
    BY DEF ForwardTraffic
  <1>2. writing' = [s \in Sides |-> s \in W \/ WantsWrite(s)]
    BY DEF ForwardTraffic
  <1>3. reading' \in [Sides -> BOOLEAN]
    BY <1>1 DEF WantsRead
  <1>4. writing' \in [Sides -> BOOLEAN]
    BY <1>2 DEF WantsWrite
  <1>5. ASSUME NEW t \in Sides
        PROVE  /\ reading'[t] => t \in R \/ (readable'[t] /\ got'[t] - put'[Other(t)] < MaxBufferSize)
               /\ writing'[t] => t \in W \/ put'[t] < got'[Other(t)]
    <2>1. put'[t] \in Nat /\ got'[Other(t)] \in Nat
      BY <1>5, OtherSide
    <2> QED
      BY <1>1, <1>2, <1>5, <2>1 DEF WantsRead, WantsWrite
  <1> QED
    BY <1>3, <1>4, <1>5

-----------------------------------------------------------------------------
(* The peers: they only add to what they sent, and only before they end.   *)

\* What a peer does disturbs neither flags nor buffers.
LEMMA PeerStep ==
  ASSUME BridgeInv, NEW s \in Sides, PeerSends(s) \/ PeerEnds(s) \/ PeerBreaks(s)
  PROVE  BridgeInv'
  <1> USE DEF BridgeInv
  <1>1. UNCHANGED <<got, put, reading, writing, readable, writable, shutSend, shutRecv>>
    BY DEF PeerSends, PeerEnds, PeerBreaks, flags
  <1>2. sent' \in [Sides -> Nat] /\ ended' \in [Sides -> BOOLEAN] /\ broken' \in [Sides -> BOOLEAN]
    <2>1. CASE PeerSends(s)
      BY <2>1 DEF PeerSends, TypeOK
    <2>2. CASE PeerEnds(s)
      BY <2>2, Zenon DEF PeerEnds, TypeOK
    <2>3. CASE PeerBreaks(s)
      BY <2>3, Zenon DEF PeerBreaks, TypeOK
    <2> QED
      BY <2>1, <2>2, <2>3
  <1>3. ASSUME NEW t \in Sides
        PROVE  /\ sent[t] <= sent'[t]
               /\ broken[t] => broken'[t]
               /\ ended[t] => ended'[t] /\ sent'[t] = sent[t]
    <2>1. CASE PeerSends(s)
      BY <1>3, <2>1 DEF PeerSends, TypeOK
    <2>2. CASE PeerEnds(s)
      BY <1>3, <2>2 DEF PeerEnds, TypeOK
    <2>3. CASE PeerBreaks(s)
      BY <1>3, <2>3 DEF PeerBreaks, TypeOK
    <2> QED
      BY <2>1, <2>2, <2>3
  <1>4. TypeOK'
    BY <1>1, <1>2, <1>3, OtherSide DEF TypeOK
  <1>5. BufferIsBounded'
    BY <1>1 DEF BufferIsBounded, data_size
  <1>6. FlagsInv'
    BY <1>1, <1>3, OtherSide DEF FlagsInv, data_size
  <1> QED
    BY <1>4, <1>5, <1>6

-----------------------------------------------------------------------------
(* The handlers                                                            *)

\* A read that brings data grows the buffer by at most one reservation.
LEMMA ReadSomeStep ==
  ASSUME BridgeInv, NEW s \in Sides, NEW n \in 1 .. MaxRead, ReadSome(s, n)
  PROVE  BridgeInv'
  <1> USE DEF BridgeInv
  <1>1. /\ UNCHANGED <<sent, ended, broken, put, readable, writable, shutSend, shutRecv>>
        /\ got' = [got EXCEPT ![s] = @ + n]
        /\ reading[s] /\ n <= sent[s] - got[s]
        /\ ForwardTraffic(Reads \ {s}, Writes)
    BY DEF ReadSome, peers, flags
  <1>2. got' \in [Sides -> Nat] /\ put' \in [Sides -> Nat]
    BY <1>1, BridgeAssumption DEF TypeOK
  <1>3. /\ reading' \in [Sides -> BOOLEAN] /\ writing' \in [Sides -> BOOLEAN]
        /\ \A t \in Sides :
             /\ reading'[t] => t \in Reads \ {s} \/ (readable'[t] /\ got'[t] - put'[Other(t)] < MaxBufferSize)
             /\ writing'[t] => t \in Writes \/ put'[t] < got'[Other(t)]
    BY <1>1, <1>2, Forwarded DEF Reads, Writes
  <1>4. TypeOK'
    BY <1>1, <1>2, <1>3, BridgeAssumption, OtherSide DEF TypeOK
  <1>5. BufferIsBounded'
    BY <1>1, BridgeAssumption, OtherSide DEF BufferIsBounded, data_size, FlagsInv, TypeOK
  <1>6. ASSUME NEW t \in Sides
        PROVE  /\ reading'[t] => readable'[t] /\ data_size(t)' < MaxBufferSize
               /\ writing'[t] => put'[t] < got'[Other(t)]
    BY <1>1, <1>3, <1>6, BridgeAssumption, OtherSide DEF FlagsInv, data_size, TypeOK, Reads, Writes
  <1>7. ASSUME NEW t \in Sides
        PROVE  /\ shutSend'[t] => ~readable'[Other(t)] /\ got'[Other(t)] = put'[t]
               /\ shutRecv'[t] => broken'[Other(t)]
               /\ ~readable'[t] => broken'[t] \/ broken'[Other(t)] \/ (ended'[t] /\ sent'[t] = got'[t])
    BY <1>1, <1>7, OtherSide DEF FlagsInv, TypeOK
  <1> QED
    BY <1>4, <1>5, <1>6, <1>7 DEF FlagsInv

\* A read that ends takes the side's readability, and shuts the other side down
\* for a buffer that is drained.
LEMMA ReadEndsStep ==
  ASSUME BridgeInv, NEW s \in Sides, ReadEnds(s)
  PROVE  BridgeInv'
  <1> USE DEF BridgeInv
  <1>1. /\ UNCHANGED <<sent, ended, broken, got, put, writable, shutRecv>>
        /\ readable' = [readable EXCEPT ![s] = FALSE]
        /\ shutSend' = [shutSend EXCEPT ![Other(s)] = @ \/ data_size(s) = 0]
        /\ reading[s] /\ AtEnd(s)
        /\ ForwardTraffic(Reads \ {s}, Writes)
    BY DEF ReadEnds, peers
  <1>2. got' \in [Sides -> Nat] /\ put' \in [Sides -> Nat]
    BY <1>1 DEF TypeOK
  <1>3. /\ reading' \in [Sides -> BOOLEAN] /\ writing' \in [Sides -> BOOLEAN]
        /\ \A t \in Sides :
             /\ reading'[t] => t \in Reads \ {s} \/ (readable'[t] /\ got'[t] - put'[Other(t)] < MaxBufferSize)
             /\ writing'[t] => t \in Writes \/ put'[t] < got'[Other(t)]
    BY <1>1, <1>2, Forwarded DEF Reads, Writes
  <1>4. TypeOK'
    <2>1. readable' \in [Sides -> BOOLEAN] /\ shutSend' \in [Sides -> BOOLEAN]
      BY <1>1, OtherSide, Zenon DEF TypeOK
    <2> QED
      BY <1>1, <1>3, <2>1 DEF TypeOK
  <1>5. BufferIsBounded'
    BY <1>1 DEF BufferIsBounded, data_size
  <1>6. ASSUME NEW t \in Sides
        PROVE  /\ reading'[t] => readable'[t] /\ data_size(t)' < MaxBufferSize
               /\ writing'[t] => put'[t] < got'[Other(t)]
    BY <1>1, <1>3, <1>6, OtherSide DEF FlagsInv, data_size, TypeOK, Reads, Writes
  <1>7. ASSUME NEW t \in Sides
        PROVE  shutSend'[t] => ~readable'[Other(t)] /\ got'[Other(t)] = put'[t]
    BY <1>1, <1>7, OtherSide DEF FlagsInv, TypeOK, data_size
  <1>8. ASSUME NEW t \in Sides
        PROVE  /\ shutRecv'[t] => broken'[Other(t)]
               /\ ~readable'[t] => broken'[t] \/ broken'[Other(t)] \/ (ended'[t] /\ sent'[t] = got'[t])
    BY <1>1, <1>8, OtherSide DEF FlagsInv, TypeOK, AtEnd
  <1> QED
    BY <1>4, <1>5, <1>6, <1>7, <1>8 DEF FlagsInv

\* A write of n bytes, or a failed one, takes them from the buffer; done is what
\* PassOnEnd asks.
LEMMA WriteStep ==
  ASSUME BridgeInv, NEW s \in Sides, WriteHandler(s)
  PROVE  BridgeInv'
  <1> USE DEF BridgeInv
  <1> DEFINE done == ~readable[Other(s)] /\ got[Other(s)] = put'[s]
  <1>1. PICK n \in Nat : n <= data_size(Other(s)) /\ put' = [put EXCEPT ![s] = @ + n]
    <2>1. CASE WriteFails(s)
      <3>1. put' = [put EXCEPT ![s] = @ + 0] /\ 0 <= data_size(Other(s))
        BY <2>1, OtherSide DEF WriteFails, TypeOK, data_size
      <3> QED
        BY <3>1
    <2>2. CASE \E n \in 1 .. MaxBufferSize + MaxRead : WriteSome(s, n)
      <3>1. PICK m \in 1 .. MaxBufferSize + MaxRead : WriteSome(s, m)
        BY <2>2
      <3>2. m \in Nat
        BY <3>1, BridgeAssumption
      <3>3. m <= data_size(Other(s)) /\ put' = [put EXCEPT ![s] = @ + m]
        BY <3>1 DEF WriteSome
      <3> QED
        BY <3>2, <3>3
    <2> QED
      BY <2>1, <2>2 DEF WriteHandler
  <1>2. /\ UNCHANGED <<sent, ended, broken, got, readable>>
        /\ writing[s]
        /\ ForwardTraffic(Reads, Writes \ {s})
    BY DEF WriteHandler, WriteSome, WriteFails, peers
  <1>3. /\ writable' \in [Sides -> BOOLEAN] /\ shutSend' \in [Sides -> BOOLEAN]
        /\ shutSend' = [shutSend EXCEPT ![s] = @ \/ done]
    <2>1. PICK usable \in BOOLEAN : PassOnEnd(s, usable)
      BY DEF WriteHandler, WriteSome, WriteFails
    <2>2. /\ writable' = [writable EXCEPT ![s] = usable /\ ~done]
          /\ shutSend' = [shutSend EXCEPT ![s] = @ \/ done]
      BY <2>1 DEF PassOnEnd
    <2> HIDE DEF done
    <2> QED
      BY <2>2, Zenon DEF TypeOK
  <1>4. /\ shutRecv' \in [Sides -> BOOLEAN]
        /\ \A t \in Sides : shutRecv'[t] => shutRecv[t] \/ broken[Other(t)]
    <2>1. CASE WriteFails(s)
      <3>1. ~shutSend[s]
        BY <1>2, OtherSide DEF FlagsInv, TypeOK
      <3> QED
        BY <2>1, <3>1, OtherSide DEF WriteFails, TypeOK
    <2>2. CASE \E m \in 1 .. MaxBufferSize + MaxRead : WriteSome(s, m)
      BY <2>2 DEF WriteSome, TypeOK
    <2> QED
      BY <2>1, <2>2 DEF WriteHandler
  <1>5. got' \in [Sides -> Nat] /\ put' \in [Sides -> Nat]
    BY <1>1, <1>2 DEF TypeOK
  <1>6. /\ reading' \in [Sides -> BOOLEAN] /\ writing' \in [Sides -> BOOLEAN]
        /\ \A t \in Sides :
             /\ reading'[t] => t \in Reads \/ (readable'[t] /\ got'[t] - put'[Other(t)] < MaxBufferSize)
             /\ writing'[t] => t \in Writes \ {s} \/ put'[t] < got'[Other(t)]
    BY <1>2, <1>5, Forwarded DEF Reads, Writes
  <1>7. TypeOK'
    BY <1>1, <1>2, <1>3, <1>4, <1>5, <1>6, OtherSide DEF TypeOK, data_size
  <1>8. BufferIsBounded'
    BY <1>1, <1>2, BridgeAssumption, OtherSide DEF BufferIsBounded, data_size, TypeOK
  <1>9. ASSUME NEW t \in Sides
        PROVE  /\ reading'[t] => readable'[t] /\ data_size(t)' < MaxBufferSize
               /\ writing'[t] => put'[t] < got'[Other(t)]
    BY <1>1, <1>2, <1>6, <1>9, BridgeAssumption, OtherSide DEF FlagsInv, data_size, TypeOK, Reads, Writes
  <1>10. ASSUME NEW t \in Sides
         PROVE  shutSend'[t] => ~readable'[Other(t)] /\ got'[Other(t)] = put'[t]
    BY <1>1, <1>2, <1>3, <1>10, OtherSide DEF FlagsInv, TypeOK, data_size
  <1>11. ASSUME NEW t \in Sides
         PROVE  /\ shutRecv'[t] => broken'[Other(t)]
                /\ ~readable'[t] => broken'[t] \/ broken'[Other(t)] \/ (ended'[t] /\ sent'[t] = got'[t])
    BY <1>2, <1>4, <1>11, OtherSide DEF FlagsInv
  <1> QED
    BY <1>7, <1>8, <1>9, <1>10, <1>11 DEF FlagsInv

-----------------------------------------------------------------------------
(* The theorems                                                            *)

\* Every step keeps the invariant.
LEMMA BridgeNext == BridgeInv /\ [Next]_vars => BridgeInv'
  <1> SUFFICES ASSUME BridgeInv, [Next]_vars PROVE BridgeInv'
    OBVIOUS
  <1>1. ASSUME NEW s \in Sides, PeerSends(s) \/ PeerEnds(s) \/ PeerBreaks(s) PROVE BridgeInv'
    BY <1>1, PeerStep
  <1>2. ASSUME NEW s \in Sides, ReadHandler(s) PROVE BridgeInv'
    BY <1>2, ReadSomeStep, ReadEndsStep DEF ReadHandler
  <1>3. ASSUME NEW s \in Sides, WriteHandler(s) PROVE BridgeInv'
    BY <1>3, WriteStep
  <1>4. CASE UNCHANGED vars
    BY <1>4 DEF vars, peers, flags, BridgeInv, TypeOK, BufferIsBounded, FlagsInv, data_size
  <1> QED
    BY <1>1, <1>2, <1>3, <1>4 DEF Next

\* The flags of a session, its buffers and the peers stay in accord, and the
\* buffers within kMaxBufferSize and one read.
THEOREM BridgeInvariant == Spec => []BridgeInv
  BY BridgeInit, BridgeNext, PTL DEF Spec

\* No handler starts a write on a socket whose sending side was shut down.
THEOREM NoWriteAfterShutdownHolds == Spec => []NoWriteAfterShutdown
  <1>1. BridgeInv => NoWriteAfterShutdown
    BY OtherSide DEF BridgeInv, TypeOK, FlagsInv, NoWriteAfterShutdown
  <1> QED
    BY <1>1, BridgeInvariant, PTL

\* The end of a stream is passed on after the whole of it, and only if it ended.
THEOREM EndComesLastHolds == Spec => []EndComesLast
  <1>1. BridgeInv => EndComesLast
    BY OtherSide DEF BridgeInv, TypeOK, FlagsInv, EndComesLast
  <1> QED
    BY <1>1, BridgeInvariant, PTL
=============================================================================
