------------------------------- MODULE Socks5 -------------------------------
(***************************************************************************)
(* The SOCKS5 handshake of one proxy session: the state machine of         *)
(* container-tools/cc/aws/proxy/src/socks5_state.cc, driven by the         *)
(* handlers of proxy_bridge.cc up to the start of forwarding.  The client's*)
(* bytes arrive in fragments of any size; for a BIND request an accept and *)
(* a wait on the client are under way at once, and each cancels the other. *)
(*                                                                         *)
(* What the client says is an attribute of it, how many bytes of it have   *)
(* been read and consumed is counted.  The handlers of a session run on    *)
(* one strand; the session lives as long as an operation or a handler      *)
(* holds it.                                                               *)
(***************************************************************************)
EXTENDS Naturals, SequencesExt, FiniteSetsExt

CONSTANTS
  MaxMethods, \* bound on the authentication methods a client offers
  MaxExtra    \* bound on the bytes a client sends ahead of the reply

ASSUME Socks5Assumption == {MaxMethods, MaxExtra} \subseteq Nat

\* A client: no methods stands for any malformed greeting, a malformed command
\* for any malformed request header.
Clients == [nmethods : 0 .. MaxMethods, noauth : BOOLEAN,
            cmd : {"connect", "bind", "malformed"},
            atyp : {"v4", "v6", "unsupported"},
            extra : 0 .. MaxExtra]

GreetingSize  == 2
HeaderSize    == 4
AddrSize(c)   == CASE c.atyp = "v4" -> 6 [] c.atyp = "v6" -> 18 [] OTHER -> 0

\* The bytes of a client's handshake, and all that it sends.
HandshakeSize(c) == GreetingSize + c.nmethods + HeaderSize + AddrSize(c)
StreamSize(c)    == HandshakeSize(c) + c.extra

HandshakeStates ==
  {"kGreetingHeader", "kGreetingMethods", "kRequestHeader", "kRequestAddr",
   "kRequestBind", "kWaitConnect", "kWaitAccept", "kSuccess", "kFail"}

VARIABLES
  client,        \* what the client sends
  closed,        \* whether it has closed or lost its connection
  replies,       \* the replies that reached it
  state,         \* state_
  required_size, \* required_size_
  read,          \* bytes committed to upstream_buff_
  taken,         \* bytes copied out of it
  handler,       \* Socks5HandshakeHandler: idle, in its loop, or past it
  reading,       \* whether async_read_some on the client is under way
  connect,       \* whether async_connect to the destination is
  accept,        \* async_accept: none, pending, or its outcome
  wait,          \* async_wait on the client: none, pending, or its outcome
  forwarding     \* whether ForwardTraffic has been called

peer      == <<client, closed>>
machine   == <<state, required_size>>
buffer    == <<read, taken>>
inbound   == <<accept, wait>>
vars == <<peer, replies, machine, buffer, handler, reading, connect, inbound, forwarding>>

\* PerformSocks5Handshake has started the first read.
Init ==
  /\ client \in Clients
  /\ closed = FALSE
  /\ replies = <<>>
  /\ state = "kGreetingHeader"
  /\ required_size = GreetingSize
  /\ read = 0
  /\ taken = 0
  /\ handler = "idle"
  /\ reading = TRUE
  /\ connect = FALSE
  /\ accept = "none"
  /\ wait = "none"
  /\ forwarding = FALSE

data_size == read - taken

-----------------------------------------------------------------------------
(* The network                                                             *)

ClientCloses ==
  /\ ~closed
  /\ closed' = TRUE
  /\ UNCHANGED <<client, replies, machine, buffer, handler, reading, connect, inbound, forwarding>>

\* A connection to the bound port arrives, or the accept fails.
AcceptCompletes ==
  /\ accept = "pending"
  /\ accept' \in {"accepted", "failed"}
  /\ UNCHANGED <<peer, replies, machine, buffer, handler, reading, connect, wait, forwarding>>

\* The client's socket becomes readable: it holds unread data, or its end.
WaitCompletes ==
  /\ wait = "pending"
  /\ closed \/ read < StreamSize(client)
  /\ wait' = "ready"
  /\ UNCHANGED <<peer, replies, machine, buffer, handler, reading, connect, accept, forwarding>>

\* response_callback_: the write fails only when the client is gone.
Respond(reply, ok) ==
  /\ ok \/ closed
  /\ replies' = IF ok THEN Append(replies, reply) ELSE replies

-----------------------------------------------------------------------------
(* Socks5HandshakeHandler                                                  *)

ReadClient(n) ==
  /\ handler = "idle"
  /\ reading
  /\ read + n <= StreamSize(client)
  /\ read' = read + n
  /\ reading' = FALSE
  /\ handler' = "loop"
  /\ UNCHANGED <<peer, replies, machine, taken, connect, inbound, forwarding>>

\* A read that fails ends the handler.
ReadFails ==
  /\ handler = "idle"
  /\ reading
  /\ closed
  /\ reading' = FALSE
  /\ UNCHANGED <<peer, replies, machine, buffer, handler, connect, inbound, forwarding>>

\* Mutant: a state is entered before all of its bytes have arrived.
ProceedAnyway(s) == handler = "loop" /\ state = s /\ data_size > 0

\* The loop calls Proceed in state s with enough data.
Proceed(s) ==
  /\ handler = "loop"
  /\ state = s
  /\ data_size >= required_size

\* CopyOut copies what there is.
Take(n) == taken' = taken + Min({n, data_size})

\* To the next state, which needs size bytes; or to kFail, which leaves
\* required_size_ as it is and ends the loop.
GoTo(s, size) ==
  /\ state' = s
  /\ required_size' = size
  /\ UNCHANGED handler

Refuse ==
  /\ state' = "kFail"
  /\ handler' = "done"
  /\ UNCHANGED required_size

GreetingHeader ==
  /\ Proceed("kGreetingHeader")
  /\ Take(GreetingSize)
  /\ IF client.nmethods = 0 THEN Refuse ELSE GoTo("kGreetingMethods", client.nmethods)
  /\ UNCHANGED <<peer, replies, read, reading, connect, inbound, forwarding>>

GreetingMethods ==
  /\ Proceed("kGreetingMethods")
  /\ Take(required_size)
  /\ \/ ~client.noauth /\ Refuse /\ UNCHANGED replies
     \/ client.noauth /\ Respond("method", TRUE) /\ GoTo("kRequestHeader", HeaderSize)
     \/ client.noauth /\ Respond("method", FALSE) /\ Refuse
  /\ UNCHANGED <<peer, read, reading, connect, inbound, forwarding>>

RequestHeader ==
  /\ Proceed("kRequestHeader")
  /\ Take(HeaderSize)
  /\ IF client.cmd = "malformed" \/ client.atyp = "unsupported" THEN Refuse
     ELSE GoTo(IF client.cmd = "bind" THEN "kRequestBind" ELSE "kRequestAddr", AddrSize(client))
  /\ UNCHANGED <<peer, replies, read, reading, connect, inbound, forwarding>>

\* kRequestAddrV4 and kRequestAddrV6: the connect callback starts async_connect.
RequestAddr ==
  /\ Proceed("kRequestAddr")
  /\ Take(required_size)
  /\ required_size' = 0
  /\ connect' = TRUE
  /\ state' = "kWaitConnect"
  /\ handler' = "done"
  /\ UNCHANGED <<peer, replies, read, reading, inbound, forwarding>>

\* The bind callback has no acceptor, or starts async_accept and async_wait; they
\* stay under way when the reply fails.
RequestBind ==
  /\ Proceed("kRequestBind")
  /\ Take(required_size)
  /\ required_size' = 0
  /\ \/ state' = "kFail" /\ UNCHANGED <<replies, inbound>>
     \/ /\ accept' = "pending"
        /\ wait' = "pending"
        /\ \/ Respond("bound", TRUE) /\ state' = "kWaitAccept"
           \/ Respond("bound", FALSE) /\ state' = "kFail"
  /\ handler' = "done"
  /\ UNCHANGED <<peer, read, reading, connect, forwarding>>

\* Proceed in kFail, reached by reading on after a refusal.
Failed ==
  /\ Proceed("kFail")
  /\ required_size' = 0
  /\ handler' = "done"
  /\ UNCHANGED <<peer, replies, state, buffer, reading, connect, inbound, forwarding>>

\* The loop is over; read on if more data is required.
FinishHandler ==
  /\ handler = "done" \/ (handler = "loop" /\ data_size < required_size)
  /\ handler' = "idle"
  /\ reading' = (data_size < required_size)
  /\ UNCHANGED <<peer, replies, machine, buffer, connect, inbound, forwarding>>

-----------------------------------------------------------------------------
(* The connection to the destination                                       *)

\* The last reply: an error when the address of the destination cannot be had.
CreateResp(addrOk) == IF addrOk THEN "success" ELSE "error"

\* Mutant: the state is not looked at.
ConnectionSucceedAnywhere ==
  \E addrOk, delivered \in BOOLEAN :
    /\ Respond(CreateResp(addrOk), delivered)
    /\ state' = "kSuccess"
    /\ forwarding' = TRUE

\* ConnectionSucceed, and ForwardTraffic if it returns true: the state is kSuccess
\* whether or not the reply could be sent.
ConnectionSucceed ==
  \/ /\ state \in {"kWaitConnect", "kWaitAccept"}
     /\ \E addrOk, delivered \in BOOLEAN :
          Respond(CreateResp(addrOk), delivered)
     /\ state' = "kSuccess"
     /\ forwarding' = TRUE
  \/ /\ state \notin {"kWaitConnect", "kWaitAccept"}
     /\ state' = "kFail"
     /\ UNCHANGED <<replies, forwarding>>

ConnectHandler ==
  /\ handler = "idle"
  /\ connect
  /\ connect' = FALSE
  /\ ConnectionSucceed \/ UNCHANGED <<replies, state, forwarding>>
  /\ UNCHANGED <<peer, required_size, buffer, handler, reading, inbound>>

\* Cancelling ends an operation that is under way, not one whose handler waits.
Cancelled(operation) == IF operation = "pending" THEN "cancelled" ELSE operation

AcceptInboundConnection ==
  /\ handler = "idle"
  /\ accept = "accepted"
  /\ accept' = "none"
  /\ wait' = Cancelled(wait)
  /\ ConnectionSucceed
  /\ UNCHANGED <<peer, required_size, buffer, handler, reading, connect>>

\* The accept failed or was cancelled: StopWaitingInbound(false).
AcceptFails ==
  /\ handler = "idle"
  /\ accept \in {"failed", "cancelled"}
  /\ accept' = "none"
  /\ wait' = Cancelled(wait)
  /\ UNCHANGED <<peer, replies, machine, buffer, handler, reading, connect, forwarding>>

\* Mutant: the accept is left under way.
StopWaitingKeepsAccept ==
  /\ handler = "idle"
  /\ wait \in {"ready", "cancelled"}
  /\ wait' = "none"
  /\ UNCHANGED <<peer, replies, machine, buffer, handler, reading, connect, accept, forwarding>>

\* The client's socket became readable, or the wait was cancelled:
\* StopWaitingInbound in the first case.
WaitHandler ==
  /\ handler = "idle"
  /\ wait \in {"ready", "cancelled"}
  /\ accept' = IF wait = "ready" THEN Cancelled(accept) ELSE accept
  /\ wait' = "none"
  /\ UNCHANGED <<peer, replies, machine, buffer, handler, reading, connect, forwarding>>

-----------------------------------------------------------------------------
Handlers ==
  \/ GreetingHeader \/ GreetingMethods \/ RequestHeader
  \/ RequestAddr \/ RequestBind \/ Failed \/ FinishHandler
  \/ ReadFails \/ ConnectHandler
  \/ AcceptInboundConnection \/ AcceptFails \/ WaitHandler

Next ==
  \/ ClientCloses
  \/ AcceptCompletes
  \/ WaitCompletes
  \/ \E n \in 1 .. StreamSize(client) : ReadClient(n)
  \/ Handlers

Spec == Init /\ [][Next]_vars

\* The threads of ProxyServer run every handler that is ready, and a connect,
\* a read of a closed connection and a wait on one complete.
LiveSpec == Spec /\ WF_vars(Handlers \/ (closed /\ WaitCompletes))

\* What holds the session.
alive == reading \/ handler # "idle" \/ connect \/ accept # "none" \/ wait # "none"

-----------------------------------------------------------------------------
(* Properties                                                              *)

\* Every variable of the session keeps its type; required_size_ is never more than
\* the largest field, and no more is consumed than was read.
TypeOK ==
  /\ client \in Clients
  /\ replies \in Seq({"method", "bound", "success", "error"})
  /\ state \in HandshakeStates
  /\ required_size \in 0 .. Max({18, MaxMethods})
  /\ read \in 0 .. StreamSize(client)
  /\ taken \in 0 .. read
  /\ handler \in {"idle", "loop", "done"}
  /\ {closed, reading, connect, forwarding} \subseteq BOOLEAN
  /\ accept \in {"none", "pending", "accepted", "failed", "cancelled"}
  /\ wait \in {"none", "pending", "ready", "cancelled"}

\* What RFC 1928, as far as the proxy supports it, lets pass.
Accepts(c) == c.nmethods > 0 /\ c.noauth /\ c.cmd # "malformed" /\ c.atyp # "unsupported"

\* However the client's bytes are cut up, Socks5State passes what it supports and
\* nothing else, and consumes the handshake to the byte: what the client sent
\* ahead is left for the destination, and no read is under way that would take
\* more of it before ForwardTraffic starts its own.
HandshakeIsExact ==
  /\ state \in {"kWaitConnect", "kWaitAccept", "kSuccess"} =>
       Accepts(client) /\ taken = HandshakeSize(client) /\ ~reading
  /\ (state = "kFail" /\ ~closed /\ client.cmd = "connect") => ~Accepts(client)

\* The client gets each reply of its command once and in order: an accepted
\* connection after a lost bind reply, or after the handshake failed, sends none.
RepliesInOrder ==
  \E last \in {"success", "error"} :
    IsPrefix(replies, <<"method">> \o (IF client.cmd = "bind" THEN <<"bound">> ELSE <<>>)
                                   \o <<last>>)

\* A client that goes away takes its session with it, whatever the handshake was
\* doing: the accept and the wait of a BIND request never outlive each other.
ClosedIsReleased == closed ~> ~alive \/ forwarding
=============================================================================
