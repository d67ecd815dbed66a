---------------------------- MODULE Socks5Proofs ----------------------------
(***************************************************************************)
(* Socks5: the handshake is parsed to the byte and its replies come in     *)
(* order, for any number of methods and any bytes sent ahead.              *)
(*                                                                         *)
(* Neither is inductive: that the handshake is consumed exactly when the   *)
(* destination is asked for needs, for every state, what was consumed and  *)
(* checked on the way to it and how much that state will take (FieldInv),  *)
(* and that no read, connect or accept is left over from an earlier state  *)
(* (PendingInv).                                                           *)
(***************************************************************************)
EXTENDS Socks5, TLAPS

\* What each state of Socks5State has consumed and established, and needs next.
FieldInv ==
  /\ state = "kGreetingHeader" => taken = 0 /\ required_size = GreetingSize
  /\ state = "kGreetingMethods" =>
       taken = GreetingSize /\ required_size = client.nmethods /\ client.nmethods > 0
  /\ state = "kRequestHeader" =>
       /\ taken = GreetingSize + client.nmethods /\ required_size = HeaderSize
       /\ client.nmethods > 0 /\ client.noauth
  /\ state \in {"kRequestAddr", "kRequestBind"} =>
       /\ taken = GreetingSize + client.nmethods + HeaderSize
       /\ required_size = AddrSize(client)
       /\ Accepts(client) /\ client.cmd = IF state = "kRequestBind" THEN "bind" ELSE "connect"
  /\ state \in {"kWaitConnect", "kWaitAccept", "kSuccess"} =>
       taken = HandshakeSize(client) /\ required_size = 0 /\ Accepts(client)
  /\ state = "kWaitConnect" => client.cmd = "connect"
  /\ state = "kWaitAccept" => client.cmd = "bind"
  /\ state = "kFail" => closed \/ client.cmd # "connect" \/ ~Accepts(client)

\* What is under way: one handler at a time reads, and a connect or an accept belongs
\* to the state that waits for it, or to a BIND request that has failed.
PendingInv ==
  /\ reading => handler = "idle" /\ required_size > 0
  /\ handler = "loop" => state \notin {"kWaitConnect", "kWaitAccept", "kSuccess"}
  /\ connect => state = "kWaitConnect"
  /\ accept # "none" => client.cmd = "bind" /\ state \in {"kWaitAccept", "kFail"}

\* The replies of a command before the last.
Told(c) == <<"method">> \o (IF c.cmd = "bind" THEN <<"bound">> ELSE <<>>)

\* What the client has been told in each state.
ReplyInv ==
  /\ state \in {"kGreetingHeader", "kGreetingMethods"} => replies = <<>>
  /\ state \in {"kRequestHeader", "kRequestAddr", "kRequestBind", "kWaitConnect"} =>
       replies = <<"method">>
  /\ state = "kWaitAccept" => replies = Told(client)
  /\ state = "kFail" => replies \in {<<>>, <<"method">>}
  /\ state = "kSuccess" =>
       replies \in {Told(client), Append(Told(client), "success"), Append(Told(client), "error")}

SocksInv == TypeOK /\ FieldInv /\ PendingInv /\ ReplyInv

----------------------------------------------------------------------------
(* Numbers                                                                  *)

\* CopyOut copies what was asked for when there is as much.
LEMMA MinIs ==
  ASSUME NEW a \in Nat, NEW b \in Nat, a <= b PROVE Min({a, b}) = a
  BY DEF Min

\* The largest of two.
LEMMA MaxIs ==
  ASSUME NEW a \in Nat, NEW b \in Nat
  PROVE  Max({a, b}) \in Nat /\ a <= Max({a, b}) /\ b <= Max({a, b})
  <1>1. CASE a <= b
    <2>1. Max({a, b}) = b
      BY <1>1 DEF Max
    <2> QED
      BY <1>1, <2>1
  <1>2. CASE b <= a
    <2>1. Max({a, b}) = a
      BY <1>2 DEF Max
    <2> QED
      BY <1>2, <2>1
  <1> QED
    BY <1>1, <1>2

\* The fields of a client, and the sizes of what it sends.
LEMMA ClientIs ==
  ASSUME NEW c \in Clients
  PROVE  /\ c.nmethods \in Nat /\ c.nmethods <= MaxMethods /\ c.noauth \in BOOLEAN
         /\ c.cmd \in {"connect", "bind", "malformed"}
         /\ c.atyp \in {"v4", "v6", "unsupported"}
         /\ AddrSize(c) \in {0, 6, 18}
         /\ HandshakeSize(c) \in Nat /\ StreamSize(c) \in Nat
  <1>1. /\ c.nmethods \in 0 .. MaxMethods /\ c.noauth \in BOOLEAN
        /\ c.cmd \in {"connect", "bind", "malformed"}
        /\ c.atyp \in {"v4", "v6", "unsupported"} /\ c.extra \in 0 .. MaxExtra
    BY DEF Clients
  <1>2. AddrSize(c) \in {0, 6, 18}
    BY <1>1 DEF AddrSize
  <1>3. c.nmethods \in Nat /\ c.nmethods <= MaxMethods /\ c.extra \in Nat
    BY <1>1, Socks5Assumption
  <1>4. HandshakeSize(c) \in Nat /\ StreamSize(c) \in Nat
    BY <1>2, <1>3 DEF HandshakeSize, StreamSize, GreetingSize, HeaderSize
  <1> QED
    BY <1>1, <1>2, <1>3, <1>4

\* The largest field that a state can ask for.
LargestField == Max({18, MaxMethods})

\* No field that a state asks for is larger.
LEMMA FieldsFit ==
  ASSUME NEW c \in Clients
  PROVE  /\ LargestField \in Nat /\ 18 <= LargestField
         /\ {0, GreetingSize, HeaderSize, AddrSize(c), c.nmethods} \subseteq 0 .. LargestField
  <1>1. LargestField \in Nat /\ 18 <= LargestField /\ MaxMethods <= LargestField /\ MaxMethods \in Nat
    BY MaxIs, Socks5Assumption DEF LargestField
  <1> QED
    BY <1>1, ClientIs DEF GreetingSize, HeaderSize

\* The counters are numbers.
LEMMA Counts ==
  ASSUME TypeOK
  PROVE  /\ read \in Nat /\ taken \in Nat /\ taken <= read /\ data_size \in Nat
         /\ required_size \in Nat /\ client \in Clients /\ read <= StreamSize(client)
  <1>1. client \in Clients /\ StreamSize(client) \in Nat /\ LargestField \in Nat
    BY ClientIs, FieldsFit DEF TypeOK
  <1>2. read \in 0 .. StreamSize(client) /\ required_size \in 0 .. LargestField
    BY DEF TypeOK, LargestField
  <1>3. read \in Nat /\ taken \in 0 .. read
    BY <1>1, <1>2 DEF TypeOK
  <1> QED
    BY <1>1, <1>2, <1>3 DEF data_size

\* A state takes exactly what it requires.
LEMMA TakesRequired ==
  ASSUME TypeOK, NEW s, Proceed(s), Take(required_size)
  PROVE  taken' = taken + required_size /\ taken' \in 0 .. read
  <1>1. required_size <= data_size
    BY Counts DEF Proceed
  <1>2. Min({required_size, data_size}) = required_size
    BY <1>1, Counts, MinIs
  <1> QED
    BY <1>1, <1>2, Counts DEF Take, data_size

----------------------------------------------------------------------------
(* Replies                                                                  *)

Replies == {"method", "bound", "success", "error"}

\* One reply, or two.
LEMMA ToldIs ==
  ASSUME NEW c
  PROVE  /\ Told(c) \in Seq(Replies)
         /\ c.cmd = "bind" => Told(c) = Append(<<"method">>, "bound")
         /\ c.cmd # "bind" => Told(c) = <<"method">>
  <1>1. <<"method">> \in Seq(Replies) /\ <<"bound">> \in Seq(Replies) /\ <<>> \in Seq(Replies)
    BY DEF Replies
  <1>2. ASSUME NEW s \in Seq(Replies), NEW x \in Replies
        PROVE  Append(s, x) = s \o <<x>> /\ s \o <<>> = s
    OBVIOUS
  <1>3. "bound" \in Replies
    BY DEF Replies
  <1>4. CASE c.cmd = "bind"
    <2>1. Told(c) = <<"method">> \o <<"bound">>
      BY <1>4 DEF Told
    <2> QED
      BY <1>1, <1>2, <1>3, <1>4, <2>1
  <1>5. CASE c.cmd # "bind"
    <2>1. Told(c) = <<"method">> \o <<>>
      BY <1>5 DEF Told
    <2> QED
      BY <1>1, <1>2, <1>3, <1>5, <2>1
  <1> QED
    BY <1>4, <1>5

\* Concatenation is associative.
LEMMA Associative ==
  ASSUME NEW s \in Seq(Replies), NEW t \in Seq(Replies), NEW u \in Seq(Replies)
  PROVE  (s \o t) \o u = s \o (t \o u)
  OBVIOUS

\* What was told so far is a prefix of what is told in the end.
LEMMA PrefixOfWhole ==
  ASSUME NEW s \in Seq(Replies), NEW t \in Seq(Replies) PROVE IsPrefix(s, s \o t)
  BY DEF IsPrefix

----------------------------------------------------------------------------
\* At the start nothing was read.
LEMMA InitSocks == Init => SocksInv
  <1> SUFFICES ASSUME Init PROVE SocksInv
    OBVIOUS
  <1>1. GreetingSize \in 0 .. LargestField /\ StreamSize(client) \in Nat
    BY FieldsFit, ClientIs DEF Init
  <1>2. TypeOK
    <2>1. {closed, reading, connect, forwarding} \subseteq BOOLEAN
      BY DEF Init
    <2>2. read \in 0 .. StreamSize(client) /\ taken \in 0 .. read
      BY <1>1 DEF Init
    <2>3. required_size \in 0 .. Max({18, MaxMethods})
      BY <1>1 DEF Init, LargestField
    <2>4. replies \in Seq({"method", "bound", "success", "error"})
      BY DEF Init
    <2> QED
      BY <2>1, <2>2, <2>3, <2>4 DEF Init, TypeOK, HandshakeStates
  <1>3. FieldInv /\ PendingInv /\ ReplyInv
    BY DEF Init, FieldInv, PendingInv, ReplyInv, GreetingSize
  <1> QED
    BY <1>2, <1>3 DEF SocksInv

----------------------------------------------------------------------------
(* Steps                                                                    *)

\* The network and the client: what has been parsed stays as it is.
LEMMA WorldKeeps ==
  ASSUME SocksInv, ClientCloses \/ AcceptCompletes \/ WaitCompletes
  PROVE  SocksInv'
  <1> USE DEF SocksInv, peer, machine, buffer, inbound
  <1>1. CASE ClientCloses
    <2>1. TypeOK'
      BY <1>1 DEF ClientCloses, TypeOK
    <2>2. FieldInv' /\ PendingInv' /\ ReplyInv'
      BY <1>1 DEF ClientCloses, FieldInv, PendingInv, ReplyInv
    <2> QED
      BY <2>1, <2>2
  <1>2. CASE AcceptCompletes
    <2>1. TypeOK'
      BY <1>2 DEF AcceptCompletes, TypeOK
    <2>2. FieldInv' /\ PendingInv' /\ ReplyInv'
      BY <1>2 DEF AcceptCompletes, FieldInv, PendingInv, ReplyInv
    <2> QED
      BY <2>1, <2>2
  <1>3. CASE WaitCompletes
    <2>1. TypeOK'
      BY <1>3 DEF WaitCompletes, TypeOK
    <2>2. FieldInv' /\ PendingInv' /\ ReplyInv'
      BY <1>3 DEF WaitCompletes, FieldInv, PendingInv, ReplyInv
    <2> QED
      BY <2>1, <2>2
  <1> QED
    BY <1>1, <1>2, <1>3

\* A read of the client ends.
LEMMA ReadKeeps ==
  ASSUME SocksInv, ReadFails \/ \E n \in 1 .. StreamSize(client) : ReadClient(n)
  PROVE  SocksInv'
  <1> USE DEF SocksInv, peer, machine, buffer, inbound
  <1>1. CASE ReadFails
    <2>1. TypeOK'
      BY <1>1 DEF ReadFails, TypeOK
    <2>2. FieldInv' /\ PendingInv' /\ ReplyInv'
      BY <1>1 DEF ReadFails, FieldInv, PendingInv, ReplyInv
    <2> QED
      BY <2>1, <2>2
  <1>2. ASSUME NEW n \in 1 .. StreamSize(client), ReadClient(n) PROVE SocksInv'
    <2>1. StreamSize(client) \in Nat /\ n \in Nat /\ read \in Nat /\ taken \in Nat /\ taken <= read
      BY Counts, ClientIs
    <2>2. read' = read + n /\ read + n <= StreamSize(client) /\ client' = client /\ taken' = taken
      BY <1>2 DEF ReadClient
    <2>3. read' \in 0 .. StreamSize(client) /\ taken \in 0 .. read'
      BY <2>1, <2>2
    <2>4. {closed, reading, connect, forwarding}' \subseteq BOOLEAN
      BY <1>2 DEF ReadClient, TypeOK
    <2>5. TypeOK'
      BY <1>2, <2>2, <2>3, <2>4 DEF ReadClient, TypeOK
    <2>6. FieldInv' /\ ReplyInv'
      BY <1>2 DEF ReadClient, FieldInv, ReplyInv
    <2>7. PendingInv'
      BY <1>2 DEF ReadClient, PendingInv, FieldInv
    <2> QED
      BY <2>5, <2>6, <2>7
  <1> QED
    BY <1>1, <1>2

\* A session that is refused in state s; nothing was under way.
LEMMA RefuseKeeps ==
  ASSUME SocksInv, NEW s \in {"kGreetingHeader", "kGreetingMethods", "kRequestHeader"},
         Proceed(s), taken' \in 0 .. read, Refuse, replies' = replies,
         UNCHANGED <<peer, read, reading, connect, inbound, forwarding>>,
         closed \/ ~Accepts(client)
  PROVE  SocksInv'
  <1> USE DEF SocksInv, peer, inbound, Refuse, Proceed
  <1>1. TypeOK'
    BY DEF TypeOK, HandshakeStates
  <1>2. FieldInv' /\ PendingInv'
    BY DEF FieldInv, PendingInv
  <1>3. ReplyInv'
    BY DEF ReplyInv
  <1> QED
    BY <1>1, <1>2, <1>3

\* From state s to the next, which needs size bytes.
LEMMA GoToTypes ==
  ASSUME SocksInv, NEW s, Proceed(s), taken' \in 0 .. read,
         NEW next \in HandshakeStates, NEW size \in 0 .. LargestField, GoTo(next, size),
         replies' \in Seq({"method", "bound", "success", "error"}),
         UNCHANGED <<peer, read, reading, connect, inbound, forwarding>>
  PROVE  TypeOK'
  BY DEF SocksInv, peer, inbound, GoTo, Proceed, TypeOK, LargestField

\* The greeting.
LEMMA GreetingHeaderKeeps ==
  ASSUME SocksInv, GreetingHeader PROVE SocksInv'
  <1> USE DEF SocksInv
  <1>1. /\ Proceed("kGreetingHeader") /\ Take(required_size)
        /\ required_size = GreetingSize /\ taken = 0
    BY DEF GreetingHeader, Proceed, FieldInv
  <1>2. taken' = GreetingSize /\ taken' \in 0 .. read
    BY <1>1, TakesRequired DEF GreetingSize
  <1>3. CASE client.nmethods = 0
    BY <1>1, <1>2, <1>3, RefuseKeeps DEF GreetingHeader, Accepts
  <1>4. CASE client.nmethods # 0
    <2>1. /\ GoTo("kGreetingMethods", client.nmethods) /\ replies' = replies
          /\ UNCHANGED <<peer, read, reading, connect, inbound, forwarding>>
      BY <1>4 DEF GreetingHeader
    <2>2. client.nmethods \in 0 .. LargestField /\ client.nmethods > 0
      BY <1>4, FieldsFit, ClientIs DEF TypeOK
    <2>3. TypeOK'
      BY <1>1, <1>2, <2>1, <2>2, GoToTypes DEF TypeOK, HandshakeStates
    <2>4. FieldInv' /\ PendingInv' /\ ReplyInv'
      BY <1>1, <1>2, <2>1, <2>2
         DEF GoTo, Proceed, FieldInv, PendingInv, ReplyInv, peer, inbound
    <2> QED
      BY <2>3, <2>4
  <1> QED
    BY <1>3, <1>4

\* The methods: accepted if one of them is no authentication, and the client told.
LEMMA GreetingMethodsKeeps ==
  ASSUME SocksInv, GreetingMethods PROVE SocksInv'
  <1> USE DEF SocksInv
  <1>1. /\ Proceed("kGreetingMethods") /\ Take(required_size)
        /\ required_size = client.nmethods /\ taken = GreetingSize /\ client.nmethods > 0
        /\ UNCHANGED <<peer, read, reading, connect, inbound, forwarding>>
    BY DEF GreetingMethods, Proceed, FieldInv
  <1>2. taken' = GreetingSize + client.nmethods /\ taken' \in 0 .. read
    BY <1>1, TakesRequired
  <1>3. CASE ~client.noauth /\ Refuse /\ UNCHANGED replies
    BY <1>1, <1>2, <1>3, RefuseKeeps DEF Accepts
  <1>4. CASE Respond("method", FALSE) /\ Refuse
    BY <1>1, <1>2, <1>4, RefuseKeeps DEF Respond
  <1>5. CASE client.noauth /\ Respond("method", TRUE) /\ GoTo("kRequestHeader", HeaderSize)
    <2>1. replies' = <<"method">>
      BY <1>1, <1>5 DEF Respond, ReplyInv, Proceed
    <2>2. HeaderSize \in 0 .. LargestField
      BY FieldsFit DEF TypeOK
    <2>3. TypeOK'
      BY <1>1, <1>2, <1>5, <2>1, <2>2, GoToTypes DEF HandshakeStates
    <2>4. FieldInv' /\ PendingInv' /\ ReplyInv'
      BY <1>1, <1>2, <1>5, <2>1
         DEF GoTo, Proceed, FieldInv, PendingInv, ReplyInv, peer, inbound
    <2> QED
      BY <2>3, <2>4
  <1> QED
    BY <1>3, <1>4, <1>5 DEF GreetingMethods

\* The request, up to its address.
LEMMA RequestHeaderKeeps ==
  ASSUME SocksInv, RequestHeader PROVE SocksInv'
  <1> USE DEF SocksInv
  <1>1. /\ Proceed("kRequestHeader") /\ Take(required_size)
        /\ required_size = HeaderSize /\ taken = GreetingSize + client.nmethods
        /\ client.nmethods > 0 /\ client.noauth
        /\ UNCHANGED <<peer, replies, read, reading, connect, inbound, forwarding>>
    BY DEF RequestHeader, Proceed, FieldInv
  <1>2. taken' = GreetingSize + client.nmethods + HeaderSize /\ taken' \in 0 .. read
    BY <1>1, TakesRequired
  <1>3. CASE client.cmd = "malformed" \/ client.atyp = "unsupported"
    BY <1>1, <1>2, <1>3, RefuseKeeps DEF Accepts, RequestHeader
  <1>4. CASE ~(client.cmd = "malformed" \/ client.atyp = "unsupported")
    <2> DEFINE next == IF client.cmd = "bind" THEN "kRequestBind" ELSE "kRequestAddr"
    <2>1. GoTo(next, AddrSize(client)) /\ next \in HandshakeStates
      BY <1>4 DEF RequestHeader, HandshakeStates
    <2>2. AddrSize(client) \in 0 .. LargestField /\ client.cmd \in {"connect", "bind", "malformed"}
      BY FieldsFit, ClientIs DEF TypeOK
    <2>3. TypeOK'
      <3> HIDE DEF next
      <3>1. replies' \in Seq({"method", "bound", "success", "error"})
        BY <1>1 DEF TypeOK
      <3> QED
        BY <1>1, <1>2, <2>1, <2>2, <3>1, GoToTypes
    <2>4. FieldInv'
      BY <1>1, <1>2, <1>4, <2>1, <2>2 DEF GoTo, FieldInv, peer, Accepts
    <2>5. PendingInv' /\ ReplyInv'
      BY <1>1, <2>1 DEF GoTo, Proceed, PendingInv, ReplyInv, peer, inbound
    <2> QED
      BY <2>3, <2>4, <2>5
  <1> QED
    BY <1>3, <1>4

\* The address of a CONNECT request: the handshake is consumed.
LEMMA RequestAddrKeeps ==
  ASSUME SocksInv, RequestAddr PROVE SocksInv'
  <1> USE DEF SocksInv
  <1>1. /\ Proceed("kRequestAddr") /\ Take(required_size)
        /\ required_size = AddrSize(client)
        /\ taken = GreetingSize + client.nmethods + HeaderSize
        /\ Accepts(client) /\ client.cmd = "connect"
        /\ UNCHANGED <<peer, replies, read, reading, inbound, forwarding>>
        /\ required_size' = 0 /\ connect' = TRUE /\ state' = "kWaitConnect" /\ handler' = "done"
    BY DEF RequestAddr, Proceed, FieldInv
  <1>2. taken' = HandshakeSize(client) /\ taken' \in 0 .. read
    BY <1>1, TakesRequired DEF HandshakeSize
  <1>3. 0 \in 0 .. LargestField
    BY FieldsFit DEF TypeOK
  <1>4. TypeOK'
    BY <1>1, <1>2, <1>3 DEF TypeOK, LargestField, HandshakeStates, peer, inbound
  <1>5. FieldInv' /\ PendingInv' /\ ReplyInv'
    BY <1>1, <1>2 DEF Proceed, FieldInv, PendingInv, ReplyInv, peer, inbound
  <1> QED
    BY <1>4, <1>5

\* The address of a BIND request.
LEMMA RequestBindKeeps ==
  ASSUME SocksInv, RequestBind PROVE SocksInv'
  <1> USE DEF SocksInv
  <1>1. /\ Proceed("kRequestBind") /\ Take(required_size)
        /\ required_size = AddrSize(client)
        /\ taken = GreetingSize + client.nmethods + HeaderSize
        /\ Accepts(client) /\ client.cmd = "bind" /\ replies = <<"method">>
        /\ UNCHANGED <<peer, read, reading, connect, forwarding>>
        /\ required_size' = 0 /\ handler' = "done"
    BY DEF RequestBind, Proceed, FieldInv, ReplyInv
  <1>2. taken' = HandshakeSize(client) /\ taken' \in 0 .. read
    BY <1>1, TakesRequired DEF HandshakeSize
  <1>3. 0 \in 0 .. LargestField
    BY FieldsFit DEF TypeOK
  <1>4. /\ \/ state' = "kFail" /\ replies' = replies
           \/ state' = "kWaitAccept" /\ replies' = Append(<<"method">>, "bound")
        /\ accept' \in {accept, "pending"} /\ wait' \in {wait, "pending"}
    BY <1>1 DEF RequestBind, Respond, inbound
  <1>5. TypeOK'
    <2>1. replies' \in Seq({"method", "bound", "success", "error"})
      <3>1. replies' \in {replies, Append(replies, "bound")}
        BY <1>1, <1>4
      <3> QED
        BY <3>1 DEF TypeOK
    <2> QED
      BY <1>1, <1>2, <1>3, <1>4, <2>1 DEF TypeOK, LargestField, HandshakeStates, peer
  <1>6. FieldInv' /\ PendingInv' /\ ReplyInv'
    BY <1>1, <1>2, <1>4, ToldIs DEF Proceed, FieldInv, PendingInv, ReplyInv, peer
  <1> QED
    BY <1>5, <1>6

\* Data that arrives after a refusal, and the end of the handler.
LEMMA LoopEndKeeps ==
  ASSUME SocksInv, Failed \/ FinishHandler PROVE SocksInv'
  <1> USE DEF SocksInv, peer, machine, buffer, inbound
  <1>1. CASE Failed
    <2>1. 0 \in 0 .. LargestField
      BY FieldsFit DEF TypeOK
    <2>2. TypeOK'
      BY <1>1, <2>1 DEF Failed, TypeOK, LargestField
    <2>3. FieldInv' /\ PendingInv' /\ ReplyInv'
      BY <1>1 DEF Failed, Proceed, FieldInv, PendingInv, ReplyInv
    <2> QED
      BY <2>2, <2>3
  <1>2. CASE FinishHandler
    <2>1. reading' \in BOOLEAN
      BY <1>2 DEF FinishHandler
    <2>2. TypeOK'
      BY <1>2, <2>1 DEF FinishHandler, TypeOK
    <2>3. reading' => required_size > 0
      <3>1. data_size < required_size => required_size > 0
        BY Counts
      <3> QED
        BY <1>2, <3>1, Zenon DEF FinishHandler
    <2>4. FieldInv' /\ PendingInv' /\ ReplyInv'
      BY <1>2, <2>3 DEF FinishHandler, FieldInv, PendingInv, ReplyInv
    <2> QED
      BY <2>2, <2>4
  <1> QED
    BY <1>1, <1>2

\* ConnectionSucceed in a state that waits for it: the client is told once.
LEMMA SucceedKeeps ==
  ASSUME SocksInv, ConnectionSucceed, state \in {"kWaitConnect", "kWaitAccept"},
         connect' \in BOOLEAN, connect' => FALSE, accept' = "none",
         wait' \in {"none", "pending", "ready", "cancelled"},
         UNCHANGED <<peer, required_size, buffer, handler, reading>>
  PROVE  SocksInv'
  <1> USE DEF SocksInv, peer, buffer
  <1>1. /\ state' = "kSuccess" /\ forwarding' = TRUE
        /\ replies' \in {replies, Append(replies, "success"), Append(replies, "error")}
    BY DEF ConnectionSucceed, Respond, CreateResp
  <1>2. replies = Told(client)
    BY ToldIs DEF ReplyInv, FieldInv
  <1>3. TypeOK'
    <2>1. replies' \in Seq({"method", "bound", "success", "error"})
      BY <1>1 DEF TypeOK
    <2>2. {closed, reading, connect, forwarding}' \subseteq BOOLEAN
      BY <1>1 DEF TypeOK
    <2> QED
      BY <1>1, <2>1, <2>2 DEF TypeOK, HandshakeStates
  <1>4. FieldInv' /\ PendingInv'
    BY <1>1 DEF FieldInv, PendingInv
  <1>5. ReplyInv'
    BY <1>1, <1>2 DEF ReplyInv
  <1> QED
    BY <1>3, <1>4, <1>5

\* The connect ends.
LEMMA ConnectKeeps ==
  ASSUME SocksInv, ConnectHandler PROVE SocksInv'
  <1> USE DEF SocksInv
  <1>1. /\ connect /\ connect' = FALSE /\ state = "kWaitConnect" /\ accept = "none"
        /\ UNCHANGED <<peer, required_size, buffer, handler, reading, inbound>>
    BY DEF ConnectHandler, PendingInv
  <1>2. CASE ConnectionSucceed
    BY <1>1, <1>2, SucceedKeeps DEF inbound, TypeOK
  <1>3. CASE UNCHANGED <<replies, state, forwarding>>
    <2>1. TypeOK'
      BY <1>1, <1>3 DEF TypeOK, peer, buffer, inbound
    <2>2. FieldInv' /\ PendingInv' /\ ReplyInv'
      BY <1>1, <1>3 DEF FieldInv, PendingInv, ReplyInv, peer, buffer, inbound
    <2> QED
      BY <2>1, <2>2
  <1> QED
    BY <1>2, <1>3 DEF ConnectHandler

\* The accept and the wait of a BIND request end, or cancel each other.
LEMMA InboundKeeps ==
  ASSUME SocksInv, AcceptInboundConnection \/ AcceptFails \/ WaitHandler PROVE SocksInv'
  <1> USE DEF SocksInv
  <1>0. /\ Cancelled(wait) \in {"none", "pending", "ready", "cancelled"}
        /\ Cancelled(accept) \in {"none", "pending", "accepted", "failed", "cancelled"}
        /\ Cancelled(accept) # "none" => accept # "none"
    BY DEF Cancelled, TypeOK
  <1>1. CASE AcceptInboundConnection
    <2>1. /\ accept = "accepted" /\ accept' = "none" /\ wait' = Cancelled(wait)
          /\ UNCHANGED <<peer, required_size, buffer, handler, reading, connect>>
          /\ ConnectionSucceed
      BY <1>1 DEF AcceptInboundConnection
    <2>2. client.cmd = "bind" /\ state \in {"kWaitAccept", "kFail"} /\ ~connect
      BY <2>1 DEF PendingInv, FieldInv
    <2>3. CASE state = "kWaitAccept"
      BY <1>0, <2>1, <2>2, <2>3, SucceedKeeps DEF TypeOK
    <2>4. CASE state = "kFail"
      <3>1. state' = "kFail" /\ UNCHANGED <<replies, forwarding>>
        BY <2>1, <2>4 DEF ConnectionSucceed
      <3>2. TypeOK'
        BY <1>0, <2>1, <3>1 DEF TypeOK, HandshakeStates, peer, buffer
      <3>3. FieldInv' /\ PendingInv' /\ ReplyInv'
        BY <2>1, <2>2, <2>4, <3>1 DEF FieldInv, PendingInv, ReplyInv, peer, buffer
      <3> QED
        BY <3>2, <3>3
    <2> QED
      BY <2>2, <2>3, <2>4
  <1>2. CASE AcceptFails \/ WaitHandler
    <2>1. /\ UNCHANGED <<peer, replies, machine, buffer, handler, reading, connect, forwarding>>
          /\ accept' \in {accept, Cancelled(accept), "none"}
          /\ wait' \in {Cancelled(wait), "none"}
      BY <1>2 DEF AcceptFails, WaitHandler
    <2>2. TypeOK'
      BY <1>0, <2>1 DEF TypeOK, peer, buffer, machine
    <2>3. FieldInv' /\ PendingInv' /\ ReplyInv'
      BY <1>0, <2>1 DEF FieldInv, PendingInv, ReplyInv, peer, buffer, machine
    <2> QED
      BY <2>2, <2>3
  <1> QED
    BY <1>1, <1>2

\* Every step keeps the invariant.
LEMMA NextSocks == SocksInv /\ [Next]_vars => SocksInv'
  <1> SUFFICES ASSUME SocksInv, [Next]_vars PROVE SocksInv'
    OBVIOUS
  <1>1. CASE UNCHANGED vars
    BY <1>1 DEF vars, peer, machine, buffer, inbound, SocksInv, TypeOK, FieldInv, PendingInv,
                ReplyInv
  <1>2. CASE Next
    BY <1>2, WorldKeeps, ReadKeeps, GreetingHeaderKeeps, GreetingMethodsKeeps,
       RequestHeaderKeeps, RequestAddrKeeps, RequestBindKeeps, LoopEndKeeps, ConnectKeeps,
       InboundKeeps DEF Next, Handlers
  <1> QED
    BY <1>1, <1>2

----------------------------------------------------------------------------
\* Socks5State and the handlers of the bridge: in every state the fields of the
\* handshake before it were consumed and checked, and only what belongs to it is
\* under way.
THEOREM SocksInvariant == Spec => []SocksInv
  <1>1. SocksInv /\ [Next]_vars => SocksInv'
    BY NextSocks
  <1> QED
    BY InitSocks, <1>1, PTL DEF Spec

\* However the client's bytes are cut up, Socks5State passes what it supports and
\* nothing else, and leaves what the client sent ahead for the destination.
THEOREM HandshakeExact == Spec => []HandshakeIsExact
  <1>1. SocksInv => HandshakeIsExact
    BY DEF SocksInv, FieldInv, PendingInv, HandshakeIsExact
  <1> QED
    BY <1>1, SocksInvariant, PTL

\* The client gets each reply of its command at most once and in order, also when a
\* reply is lost or a connection is accepted after the handshake has failed.
THEOREM RepliesOrdered == Spec => []RepliesInOrder
  <1>1. ASSUME SocksInv PROVE RepliesInOrder
    <2>1. PICK told : told = Told(client)
      OBVIOUS
    <2>2. told \in Seq(Replies) /\ <<"method">> \in Seq(Replies) /\ <<>> \in Seq(Replies)
      BY <2>1, ToldIs DEF Replies
    <2>3. replies \in {<<>>, <<"method">>, told, Append(told, "success"), Append(told, "error")}
      BY <1>1, <2>1 DEF SocksInv, ReplyInv, TypeOK, HandshakeStates
    <2>4. SUFFICES \E last \in {"success", "error"} : IsPrefix(replies, told \o <<last>>)
      BY <2>1 DEF RepliesInOrder, Told
    <2>5. ASSUME NEW last \in {"success", "error"}
          PROVE  last \in Replies /\ <<last>> \in Seq(Replies) /\ told \o <<last>> \in Seq(Replies)
                 /\ Append(told, last) = told \o <<last>>
      BY <2>2 DEF Replies
    <2>6. CASE replies = <<>>
      <3>1. told \o <<"success">> = <<>> \o (told \o <<"success">>)
        BY <2>5
      <3> QED
        BY <2>2, <2>5, <2>6, <3>1, PrefixOfWhole
    <2>7. CASE replies = <<"method">>
      <3>1. PICK rest \in Seq(Replies) : told = <<"method">> \o rest
        <4>1. <<"bound">> \in Seq(Replies) /\ <<>> \in Seq(Replies)
          BY DEF Replies
        <4>2. PICK rest : rest = IF client.cmd = "bind" THEN <<"bound">> ELSE <<>>
          OBVIOUS
        <4>3. rest \in Seq(Replies)
          BY <4>1, <4>2
        <4>4. told = <<"method">> \o rest
          BY <2>1, <4>2 DEF Told
        <4> QED
          BY <4>3, <4>4
      <3>2. PICK end \in Seq(Replies) : end = <<"success">>
        BY <2>5
      <3>3. told \o <<"success">> = <<"method">> \o (rest \o <<"success">>)
        BY <2>2, <3>1, <3>2, Associative
      <3>4. rest \o <<"success">> \in Seq(Replies)
        BY <2>5
      <3> QED
        BY <2>2, <2>7, <3>3, <3>4, PrefixOfWhole
    <2>8. CASE replies = told
      BY <2>2, <2>5, <2>8, PrefixOfWhole
    <2>9. ASSUME NEW last \in {"success", "error"}, replies = Append(told, last)
          PROVE  IsPrefix(replies, told \o <<last>>)
      <3>1. replies = told \o <<last>> /\ replies \in Seq(Replies)
        BY <2>5, <2>9
      <3>2. replies \o <<>> = replies
        BY <3>1
      <3> QED
        BY <2>2, <3>1, <3>2, PrefixOfWhole
    <2> QED
      BY <2>3, <2>6, <2>7, <2>8, <2>9
  <1> QED
    BY <1>1, SocksInvariant, PTL
=============================================================================
