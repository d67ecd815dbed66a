--------------------------- MODULE IssuanceProofs ---------------------------
(***************************************************************************)
(* Proofs about Issuance, for any requests, policy files, threads and      *)
(* clients: no certificate is issued that a recent policy does not allow.  *)
(***************************************************************************)
EXTENDS Issuance, FiniteSetTheorems, TLAPS

\* The variables of one thread.
Local(u) == <<pc[u], req[u], arrived[u], cert[u], answer[u], asked[u]>>

(***************************************************************************)
(* Type correctness                                                        *)
(***************************************************************************)

\* Initially every variable has its type.
LEMMA InitTypeOK == Init => TypeOK
  BY StoreAssumption, IssuanceAssumption
     DEF Init, TypeOK, StoreInit, StoreTypeOK, Steps, Time

\* The codes and statuses of a refused request.
LEMMA ScreenType ==
  ASSUME NEW r PROVE Screen(r)[1] \in Codes
  BY DEF Screen, NotRsa, Codes

\* A response keeps the thread's variables in their types.
LEMMA RespondType ==
  ASSUME TypeOK, NEW t \in Threads, NEW c \in Codes, Respond(t, c)
  PROVE  /\ pc' \in [Threads -> Steps]
         /\ code' \in [Threads -> Codes \cup {None}]
         /\ req' \in [Threads -> Requests \cup {None}]
         /\ cert' \in [Threads -> Certificates \cup {None}]
  BY DEF TypeOK, Respond, Steps

\* Counting keeps the counters natural numbers.
LEMMA CountType ==
  ASSUME TypeOK, NEW s, Count(s)
  PROVE  processed' \in [ProcessingStatus -> Nat]
<1>1. CASE s \in ProcessingStatus
  BY <1>1 DEF TypeOK, Count
<1>2. CASE s \notin ProcessingStatus
  <2>1. processed \in [ProcessingStatus -> Nat]
    BY DEF TypeOK
  <2>2. [processed EXCEPT ![s] = processed[s] + 1] = processed
    BY <1>2, <2>1
  <2> QED
    BY <2>1, <2>2 DEF Count
<1> QED
  BY <1>1, <1>2

\* A jump keeps pc in its type.
LEMMA GotoType ==
  ASSUME TypeOK, NEW t \in Threads, NEW s \in Steps, Goto(t, s)
  PROVE  pc' \in [Threads -> Steps]
  BY DEF TypeOK, Goto

\* A refusal keeps every variable in its type.
LEMMA RefuseType ==
  ASSUME TypeOK, NEW t \in Threads, NEW c \in Codes, NEW s, Refuse(t, c, s),
         UNCHANGED <<storeVars, arrived, auth, approved, counter, signed, received>>
  PROVE  TypeOK'
  BY RespondType, CountType DEF Refuse, TypeOK, storeVars, bucket, StoreTypeOK

\* A mere jump does so too.
LEMMA JumpType ==
  ASSUME TypeOK, NEW t \in Threads, NEW s \in Steps, Goto(t, s),
         UNCHANGED <<storeVars, req, arrived, cert, code, metrics, signed, received>>
  PROVE  TypeOK'
  BY GotoType DEF TypeOK, storeVars, bucket, metrics, StoreTypeOK

\* The names of the steps and codes that occur in the actions.
LEMMA Names ==
  /\ Admitted \subseteq Steps
  /\ {"idle", "authenticate", "handle"} \subseteq Steps
  /\ {"OK", "UNAUTHENTICATED", "PERMISSION_DENIED", "INVALID_ARGUMENT", "INTERNAL",
      "UNKNOWN"} \subseteq Codes
  BY DEF Admitted, Fetched, Owned, Looked, Verified, Steps, Codes

\* The end of a validity that is not empty is a natural number.
LEMMA ValidityType ==
  ASSUME TypeOK, NEW t \in Threads, req[t] \in Requests, Parsed(t), Granted(t)
  PROVE  /\ now \in Nat
         /\ Grant(t).max \in Nat
         /\ req[t].notBefore \in Nat /\ req[t].notAfter \in Nat
         /\ ValidityStart(t) \in Nat /\ ValidityEnd(t) \in Nat
<1>1. now \in Nat
  BY DEF TypeOK, StoreTypeOK, Time
<1>2. Grant(t).max \in Nat
  BY FileAssumption DEF Parsed, Granted, Grant
<1>3. req[t].notBefore \in Nat /\ req[t].notAfter \in Nat
  BY RequestAssumption
<1> QED
  BY <1>1, <1>2, <1>3 DEF ValidityStart, ValidityEnd, Least, Greatest

\* Every step keeps every variable in its type.
LEMMA NextTypeOK == IssuanceInv /\ [Next]_vars => TypeOK'
<1> SUFFICES ASSUME IssuanceInv, TypeOK, [Next]_vars PROVE TypeOK'
  BY DEF IssuanceInv
<1>1. ASSUME NEW t \in Threads, NEW r \in Requests, Receive(t, r) PROVE TypeOK'
  BY <1>1, GotoType, Names, IssuanceAssumption
     DEF Receive, TypeOK, storeVars, bucket, metrics, StoreTypeOK
<1>2. ASSUME NEW t \in Threads, Authenticate(t) PROVE TypeOK'
  <2>1. CASE Goto(t, "handle") /\ UNCHANGED <<req, cert, code>>
    BY <1>2, <2>1, GotoType, Names
       DEF Authenticate, TypeOK, storeVars, bucket, StoreTypeOK
  <2>2. ASSUME NEW c \in Codes, Respond(t, c) PROVE TypeOK'
    <3>1. auth' \in [{"SUCCESS", "FAILURE"} -> Nat]
      BY <1>2 DEF Authenticate, TypeOK
    <3> QED
      BY <1>2, <2>2, <3>1, RespondType
         DEF Authenticate, TypeOK, storeVars, bucket, StoreTypeOK
  <2> QED
    BY <1>2, <2>1, <2>2, Names DEF Authenticate
<1>3. ASSUME NEW t \in Threads, Handle(t) PROVE TypeOK'
  <2>1. CASE /\ Goto(t, "fetchPolicy")
             /\ Ask(t, req[t].client)
             /\ UNCHANGED <<req, arrived, cert, code, metrics, signed, received>>
    <3>1. req[t].client \in Clients
      BY <1>3, RequestAssumption DEF IssuanceInv, ThreadInv, Handle
    <3>2. StoreTypeOK'
      BY <2>1, <3>1 DEF Ask, TypeOK, StoreTypeOK, bucket, Questions
    <3> QED
      BY <2>1, <3>2, GotoType, Names DEF TypeOK, metrics, Admitted
  <2>2. CASE /\ Refuse(t, Screen(req[t])[1], Screen(req[t])[2])
             /\ UNCHANGED <<storeVars, arrived, auth, approved, counter, signed, received>>
    BY <2>2, RefuseType, ScreenType
  <2> QED
    BY <1>3, <2>1, <2>2 DEF Handle
<1>4. ASSUME NEW t \in Threads, FetchPolicy(t) PROVE TypeOK'
  <2>1. StoreTypeOK'
    BY <1>4 DEF FetchPolicy, Reply, Recent, TypeOK, StoreTypeOK, bucket
  <2> QED
    BY <1>4, <2>1, GotoType, Names DEF FetchPolicy, TypeOK, metrics, Admitted, Fetched
<1>5. ASSUME NEW t \in Threads, SelectPolicy(t) PROVE TypeOK'
  BY <1>5, JumpType, RefuseType, Names DEF SelectPolicy, Steps
<1>6. ASSUME NEW t \in Threads, AllowMetrics(t) PROVE TypeOK'
  <2>1. req[t].client \in Clients
    BY <1>6, RequestAssumption DEF IssuanceInv, ThreadInv, AllowMetrics
  <2>2. approved' \in SUBSET Clients
    BY <1>6, <2>1 DEF AllowMetrics, TypeOK
  <2> QED
    BY <1>6, <2>2, GotoType DEF AllowMetrics, TypeOK, Steps, storeVars, bucket, StoreTypeOK
<1>7. ASSUME NEW t \in Threads, Lookup(t) PROVE TypeOK'
  BY <1>7, JumpType, RefuseType, Names DEF Lookup, Steps
<1>8. ASSUME NEW t \in Threads, Verify(t) PROVE TypeOK'
  BY <1>8, JumpType, RefuseType, Names DEF Verify, Steps
<1>9. ASSUME NEW t \in Threads, Issue(t) PROVE TypeOK'
  <2>1. ASSUME NEW c \in Codes, NEW s, Refuse(t, c, s),
               UNCHANGED <<storeVars, arrived, auth, approved, counter, signed, received>>
        PROVE  TypeOK'
    BY <2>1, RefuseType
  <2>2. CASE /\ Goto(t, "count")
             /\ cert' = [cert EXCEPT ![t] = [signedAt |-> now, start |-> ValidityStart(t),
                                             end |-> ValidityEnd(t)]]
             /\ signed' = [signed EXCEPT ![req[t].client] = @ + 1]
             /\ Count("SUCCESS")
             /\ UNCHANGED <<storeVars, req, arrived, code, auth, approved, counter, received>>
    <3>1. ValidityStart(t) \in Nat /\ ValidityEnd(t) \in Nat
      BY <1>9, ValidityType
         DEF Issue, IssuanceInv, ThreadInv, Owned, Looked, Verified
    <3>2. now \in Time
      BY DEF TypeOK, StoreTypeOK
    <3>3. cert' \in [Threads -> Certificates \cup {None}]
      BY <2>2, <3>1, <3>2 DEF TypeOK, Certificates
    <3>4. req[t].client \in Clients
      BY <1>9, RequestAssumption DEF Issue, IssuanceInv, ThreadInv
    <3>5. signed' \in [Clients -> Nat]
      BY <2>2, <3>4 DEF TypeOK
    <3> QED
      BY <2>2, <3>3, <3>5, GotoType, CountType
         DEF TypeOK, Steps, storeVars, bucket, StoreTypeOK
  <2> QED
    BY <1>9, <2>1, <2>2, Names DEF Issue
<1>10. ASSUME NEW t \in Threads, CountIssuance(t) PROVE TypeOK'
  <2>1. counter' \in [Clients -> Nat]
    BY <1>10 DEF CountIssuance, TypeOK
  <2> QED
    BY <1>10, <2>1, RespondType, Names
       DEF CountIssuance, TypeOK, storeVars, bucket, StoreTypeOK
<1>11. CASE Environment
  <2>1. CASE Tick
    BY <1>11, <2>1, StoreAssumption
       DEF Environment, Tick, Time, TypeOK, StoreTypeOK, bucket, metrics
  <2>2. ASSUME NEW c \in Clients, PutFile(c) PROVE TypeOK'
    <3>1. StoreTypeOK'
      BY <2>2 DEF PutFile, TypeOK, StoreTypeOK
    <3> QED
      BY <1>11, <3>1 DEF Environment, TypeOK, metrics
  <2> QED
    BY <1>11, <2>1, <2>2 DEF Environment
<1>12. CASE UNCHANGED vars
  BY <1>12 DEF vars, storeVars, bucket, metrics, TypeOK, StoreTypeOK
<1> QED
  BY <1>1, <1>2, <1>3, <1>4, <1>5, <1>6, <1>7, <1>8, <1>9, <1>10, <1>11, <1>12
     DEF Next, Serve

(***************************************************************************)
(* What a step leaves of a thread's invariant                              *)
(***************************************************************************)

\* A content that was recent when a request arrived stays so, whatever the
\* operator does to the files and however much time passes.
LEMMA RecentStays ==
  ASSUME TypeOK, NEW c \in Clients, NEW at \in Time, at <= now,
         NEW f \in Recent(c, at),
         UNCHANGED bucket \/ \E d \in Clients : PutFile(d)
  PROVE  f \in Recent(c, at)'
<1>1. CASE UNCHANGED bucket
  BY <1>1 DEF bucket, Recent
<1>2. ASSUME NEW d \in Clients, PutFile(d) PROVE f \in Recent(c, at)'
  <2>1. /\ f \in Contents
        /\ f = file[c] \/ (ceased[c][f] # None /\ ceased[c][f] + Window >= at)
    BY DEF Recent
  <2>2. /\ file \in [Clients -> Contents]
        /\ ceased \in [Clients -> [Contents -> Time \cup {None}]]
        /\ now \in Nat /\ Window \in Nat /\ None \notin Nat /\ at \in Nat
    BY StoreAssumption DEF TypeOK, StoreTypeOK, Time
  <2>3. CASE f = file[d] /\ d = c
    <3>1. ceased'[c][f] = now
      BY <1>2, <2>1, <2>2, <2>3 DEF PutFile
    <3> QED
      BY <2>1, <2>2, <3>1 DEF Recent
  <2>4. CASE ~(f = file[d] /\ d = c)
    <3>1. ceased'[c][f] = ceased[c][f]
      BY <1>2, <2>1, <2>2, <2>4 DEF PutFile
    <3>2. f = file[c] => f = file'[c]
      BY <1>2, <2>2, <2>4 DEF PutFile
    <3> QED
      BY <2>1, <3>1, <3>2 DEF Recent
  <2> QED
    BY <2>3, <2>4
<1> QED
  BY <1>1, <1>2

\* The invariant of a thread that a step does not run is kept.
LEMMA Frame ==
  ASSUME TypeOK, TypeOK', NEW u \in Threads, ThreadInv(u), UNCHANGED Local(u),
         now <= now', UNCHANGED bucket \/ \E d \in Clients : PutFile(d)
  PROVE  ThreadInv(u)'
<1> USE DEF Local
<1>1. now \in Nat /\ now' \in Nat /\ arrived[u] \in Time
  BY DEF TypeOK, StoreTypeOK, Time
<1>2. /\ (pc[u] # "idle" => req[u] \in Requests /\ arrived[u] <= now)'
      /\ (pc[u] \in {"handle"} \cup Admitted =>
             req[u].token \in {"noSubject", "blank", "valid"})'
  BY <1>1 DEF ThreadInv, Time
<1>3. (pc[u] \in Admitted => Screen(req[u])[1] = "OK")'
  BY DEF ThreadInv
<1>4. (pc[u] = "fetchPolicy" => /\ asked[u].client = req[u].client
                                /\ arrived[u] <= asked[u].at)'
  BY DEF ThreadInv
<1>5. (pc[u] \in Fetched => answer[u] \in Recent(req[u].client, arrived[u]) \cup {Failed})'
  <2> SUFFICES ASSUME pc[u] \in Fetched, answer[u] # Failed
               PROVE  answer[u] \in Recent(req[u].client, arrived[u])'
    OBVIOUS
  <2>1. /\ req[u] \in Requests /\ arrived[u] <= now
        /\ answer[u] \in Recent(req[u].client, arrived[u])
    BY DEF ThreadInv, Fetched, Owned, Looked, Verified
  <2>2. req[u].client \in Clients
    BY <2>1, RequestAssumption
  <2> QED
    BY <1>1, <2>1, <2>2, RecentStays DEF Recent
<1>6. /\ (pc[u] \in Owned => Parsed(u) /\ OwnerMatches(u))'
      /\ (pc[u] \in Looked => Granted(u))'
      /\ (pc[u] \in Verified => Matches(u))'
  BY DEF ThreadInv, Parsed, OwnerMatches, Granted, Matches, Grant
<1>7. (cert[u] # None => CertificateInv(u))'
  BY DEF ThreadInv, CertificateInv, Grant
<1> QED
  BY <1>2, <1>3, <1>4, <1>5, <1>6, <1>7 DEF ThreadInv

\* A response leaves the thread idle, and an idle thread promises nothing.
LEMMA Responded ==
  ASSUME TypeOK, NEW t \in Threads, NEW c, Respond(t, c)
  PROVE  ThreadInv(t)'
<1>1. pc'[t] = "idle" /\ cert'[t] = None
  BY DEF Respond, TypeOK
<1> QED
  BY <1>1 DEF ThreadInv, Admitted, Fetched, Owned, Looked, Verified

\* The variables of one thread are all that a step of another leaves alone.
LEMMA OthersKeep ==
  ASSUME TypeOK, NEW t \in Threads, NEW u \in Threads \ {t},
         Serve(t) \/ \E r \in Requests : Receive(t, r)
  PROVE  UNCHANGED Local(u) /\ UNCHANGED <<now, bucket>>
<1> USE DEF TypeOK, StoreTypeOK, Local, storeVars, Goto, Respond, Refuse
<1>1. CASE \E r \in Requests : Receive(t, r)
  BY <1>1 DEF Receive
<1>2. CASE Authenticate(t)
  BY <1>2 DEF Authenticate
<1>3. CASE Handle(t)
  BY <1>3 DEF Handle, Ask
<1>4. CASE FetchPolicy(t)
  BY <1>4 DEF FetchPolicy, Reply
<1>5. CASE SelectPolicy(t)
  BY <1>5 DEF SelectPolicy
<1>6. CASE AllowMetrics(t)
  BY <1>6 DEF AllowMetrics
<1>7. CASE Lookup(t)
  BY <1>7 DEF Lookup
<1>8. CASE Verify(t)
  BY <1>8 DEF Verify
<1>9. CASE Issue(t)
  BY <1>9 DEF Issue
<1>10. CASE CountIssuance(t)
  BY <1>10 DEF CountIssuance
<1> QED
  BY <1>1, <1>2, <1>3, <1>4, <1>5, <1>6, <1>7, <1>8, <1>9, <1>10 DEF Serve

(***************************************************************************)
(* Each step keeps the invariant of the thread that takes it               *)
(***************************************************************************)

\* A new request starts from nothing.
LEMMA ReceiveKeeps ==
  ASSUME TypeOK, NEW t \in Threads, ThreadInv(t), NEW r \in Requests, Receive(t, r)
  PROVE  ThreadInv(t)'
<1>1. pc'[t] = "authenticate" /\ req'[t] = r /\ arrived'[t] = now /\ now' = now
  BY DEF Receive, Goto, TypeOK, storeVars
<1>2. cert[t] = None /\ cert' = cert
  BY DEF Receive, ThreadInv, CertificateInv
<1>3. now \in Nat
  BY DEF TypeOK, StoreTypeOK, Time
<1> QED
  BY <1>1, <1>2, <1>3 DEF ThreadInv, Admitted, Fetched, Owned, Looked, Verified

\* The interceptor lets only verified tokens through.
LEMMA AuthenticateKeeps ==
  ASSUME TypeOK, NEW t \in Threads, ThreadInv(t), Authenticate(t)
  PROVE  ThreadInv(t)'
<1>1. CASE /\ req[t].token \in {"noSubject", "blank", "valid"}
           /\ Goto(t, "handle")
           /\ UNCHANGED <<req, cert, code>>
  <2>1. pc'[t] = "handle" /\ UNCHANGED <<req, arrived, now, cert>>
    BY <1>1 DEF Authenticate, Goto, TypeOK, storeVars
  <2>2. cert[t] = None
    BY DEF Authenticate, ThreadInv, CertificateInv
  <2> QED
    BY <1>1, <2>1, <2>2
       DEF Authenticate, ThreadInv, Admitted, Fetched, Owned, Looked, Verified
<1> QED
  BY <1>1, Responded DEF Authenticate

\* The policy is asked for only for a request that passes every check so far,
\* not before the request arrived.
LEMMA HandleKeeps ==
  ASSUME TypeOK, NEW t \in Threads, ThreadInv(t), Handle(t)
  PROVE  ThreadInv(t)'
<1>1. CASE /\ Screen(req[t])[1] = "OK"
           /\ Goto(t, "fetchPolicy")
           /\ Ask(t, req[t].client)
           /\ UNCHANGED <<req, arrived, cert, code, metrics, signed, received>>
  <2>1. /\ pc'[t] = "fetchPolicy" /\ UNCHANGED <<req, arrived, now, cert>>
        /\ asked'[t] = [client |-> req[t].client, at |-> now]
    BY <1>1 DEF Goto, Ask, TypeOK, StoreTypeOK
  <2>2. cert[t] = None
    BY DEF Handle, ThreadInv, CertificateInv
  <2>3. (Screen(req[t])[1] = "OK")'
    BY <1>1, <2>1
  <2> QED
    BY <1>1, <2>1, <2>2, <2>3
       DEF Handle, ThreadInv, Admitted, Fetched, Owned, Looked, Verified
<1> QED
  BY <1>1, Responded DEF Handle, Refuse

\* The answer was current when the question was asked, or at most Window
\* before, and so no earlier before the request.
LEMMA FetchPolicyKeeps ==
  ASSUME TypeOK, NEW t \in Threads, ThreadInv(t), FetchPolicy(t)
  PROVE  ThreadInv(t)'
<1>1. pc'[t] = "selectPolicy" /\ UNCHANGED <<req, arrived, now, bucket, cert>>
  BY DEF FetchPolicy, Goto, Reply, TypeOK
<1>2. /\ pc[t] = "fetchPolicy" /\ cert[t] = None
      /\ asked[t].client = req[t].client /\ arrived[t] <= asked[t].at
      /\ req[t] \in Requests /\ arrived[t] <= now
      /\ req[t].token \in {"noSubject", "blank", "valid"}
      /\ Screen(req[t])[1] = "OK"
  BY DEF FetchPolicy, ThreadInv, CertificateInv, Admitted
<1>3. asked[t].at \in Nat /\ arrived[t] \in Nat
  BY DEF FetchPolicy, Reply, TypeOK, StoreTypeOK, Questions, Time
<1>4. answer'[t] \in Recent(req[t].client, arrived[t]) \cup {Failed}
  <2>1. PICK f \in Recent(asked[t].client, asked[t].at) \cup {Failed} : answer'[t] = f
    BY DEF FetchPolicy, Reply, TypeOK, StoreTypeOK
  <2>2. req[t].client \in Clients
    BY <1>2, RequestAssumption
  <2>3. Recent(req[t].client, asked[t].at) \subseteq Recent(req[t].client, arrived[t])
    <3> SUFFICES ASSUME NEW g \in Recent(req[t].client, asked[t].at)
                 PROVE  g \in Recent(req[t].client, arrived[t])
      OBVIOUS
    <3>1. g \in Contents /\ ceased[req[t].client][g] \in Nat \cup {None}
      BY <2>2 DEF Recent, TypeOK, StoreTypeOK, Time
    <3> QED
      BY <1>2, <1>3, <3>1, StoreAssumption DEF Recent
  <2> QED
    BY <1>2, <2>1, <2>3
<1>5. (Screen(req[t])[1] = "OK")'
  BY <1>1, <1>2
<1>6. (answer[t] \in Recent(req[t].client, arrived[t]) \cup {Failed})'
  BY <1>1, <1>4 DEF Recent, bucket
<1> QED
  BY <1>1, <1>2, <1>5, <1>6 DEF ThreadInv, Owned, Looked, Verified

\* A step that only moves pc keeps what the thread has established, as it is
\* about variables that do not move.
LEMMA JumpKeeps ==
  ASSUME TypeOK, NEW t \in Threads, ThreadInv(t), pc[t] \in Fetched, pc[t] # "count",
         NEW s \in Owned, Goto(t, s), s # "count",
         UNCHANGED <<storeVars, req, arrived, cert>>,
         Parsed(t) /\ OwnerMatches(t),
         s \in Looked => Granted(t),
         s \in Verified => Matches(t)
  PROVE  ThreadInv(t)'
<1>1. /\ pc'[t] = s /\ UNCHANGED <<req, arrived, cert, now, file, ceased, answer>>
  BY DEF Goto, TypeOK, storeVars, bucket
<1>2. /\ req[t] \in Requests /\ arrived[t] <= now
      /\ req[t].token \in {"noSubject", "blank", "valid"}
      /\ Screen(req[t])[1] = "OK"
      /\ answer[t] \in Recent(req[t].client, arrived[t]) \cup {Failed}
      /\ cert[t] = None
  BY DEF ThreadInv, CertificateInv, Admitted, Fetched, Owned, Looked, Verified
<1>3. s \notin {"idle", "handle", "fetchPolicy"} /\ s \in Admitted /\ s \in Fetched
  BY DEF Admitted, Fetched, Owned, Looked, Verified
<1>4. (Screen(req[t])[1] = "OK")'
  BY <1>1, <1>2
<1>5. (answer[t] \in Recent(req[t].client, arrived[t]) \cup {Failed})'
  BY <1>1, <1>2 DEF Recent
<1>6. /\ (Parsed(t) /\ OwnerMatches(t))'
      /\ (pc[t] \in Looked => Granted(t))'
      /\ (pc[t] \in Verified => Matches(t))'
  BY <1>1 DEF Parsed, OwnerMatches, Granted, Matches, Grant
<1> QED
  BY <1>1, <1>2, <1>3, <1>4, <1>5, <1>6 DEF ThreadInv

\* A file is used only if it parses and names the caller as its owner.
LEMMA SelectPolicyKeeps ==
  ASSUME TypeOK, NEW t \in Threads, ThreadInv(t), SelectPolicy(t)
  PROVE  ThreadInv(t)'
<1>1. CASE /\ Parsed(t) /\ OwnerMatches(t)
           /\ Goto(t, IF req[t].client \in approved THEN "lookup" ELSE "allowMetrics")
           /\ UNCHANGED <<storeVars, req, arrived, cert, code, metrics, signed, received>>
  BY <1>1, JumpKeeps DEF SelectPolicy, Fetched, Owned, Looked, Verified
<1> QED
  BY <1>1, Responded DEF SelectPolicy, Refuse

\* The metrics have no say in what is issued.
LEMMA AllowMetricsKeeps ==
  ASSUME TypeOK, NEW t \in Threads, ThreadInv(t), AllowMetrics(t)
  PROVE  ThreadInv(t)'
<1>1. Parsed(t) /\ OwnerMatches(t)
  BY DEF AllowMetrics, ThreadInv, Owned
<1> QED
  BY <1>1, JumpKeeps DEF AllowMetrics, Fetched, Owned, Looked, Verified

\* A certificate needs a policy for its workload.
LEMMA LookupKeeps ==
  ASSUME TypeOK, NEW t \in Threads, ThreadInv(t), Lookup(t)
  PROVE  ThreadInv(t)'
<1>1. Parsed(t) /\ OwnerMatches(t)
  BY DEF Lookup, ThreadInv, Owned
<1>2. CASE /\ Granted(t) /\ Goto(t, "verify")
           /\ UNCHANGED <<storeVars, req, arrived, cert, code, metrics, signed, received>>
  BY <1>1, <1>2, JumpKeeps DEF Lookup, Fetched, Owned, Looked, Verified
<1> QED
  BY <1>2, Responded DEF Lookup, Refuse

\* A certificate needs evidence that matches the policy and binds the key.
LEMMA VerifyKeeps ==
  ASSUME TypeOK, NEW t \in Threads, ThreadInv(t), Verify(t)
  PROVE  ThreadInv(t)'
<1>1. Parsed(t) /\ OwnerMatches(t) /\ Granted(t)
  BY DEF Verify, ThreadInv, Owned, Looked
<1>2. CASE /\ Matches(t) /\ Goto(t, "issue")
           /\ UNCHANGED <<storeVars, req, arrived, cert, code, metrics, signed, received>>
  BY <1>1, <1>2, JumpKeeps DEF Verify, Fetched, Owned, Looked, Verified
<1> QED
  BY <1>2, Responded DEF Verify, Refuse

\* The certificate is made within the bounds of the policy and the endorsement
\* at the time it is signed.
LEMMA IssueKeeps ==
  ASSUME TypeOK, NEW t \in Threads, ThreadInv(t), Issue(t)
  PROVE  ThreadInv(t)'
<1>1. CASE /\ ValidityStart(t) <= ValidityEnd(t)
           /\ Goto(t, "count")
           /\ cert' = [cert EXCEPT ![t] = [signedAt |-> now, start |-> ValidityStart(t),
                                           end |-> ValidityEnd(t)]]
           /\ UNCHANGED <<storeVars, req, arrived>>
  <2>1. /\ pc'[t] = "count" /\ UNCHANGED <<req, arrived, now, file, ceased, answer>>
        /\ cert'[t] = [signedAt |-> now, start |-> ValidityStart(t), end |-> ValidityEnd(t)]
    BY <1>1 DEF Goto, TypeOK, storeVars, bucket
  <2>2. /\ req[t] \in Requests /\ arrived[t] <= now
        /\ req[t].token \in {"noSubject", "blank", "valid"}
        /\ Screen(req[t])[1] = "OK"
        /\ answer[t] \in Recent(req[t].client, arrived[t]) \cup {Failed}
        /\ Parsed(t) /\ OwnerMatches(t) /\ Granted(t) /\ Matches(t)
    BY DEF Issue, ThreadInv, Admitted, Fetched, Owned, Looked, Verified
  <2>3. /\ now \in Nat /\ Grant(t).max \in Nat
        /\ req[t].notBefore \in Nat /\ req[t].notAfter \in Nat
    BY <2>2, ValidityType
  <2>4. /\ now <= ValidityStart(t) /\ req[t].notBefore <= ValidityStart(t)
        /\ ValidityEnd(t) <= req[t].notAfter /\ ValidityEnd(t) <= now + Grant(t).max
    BY <2>3 DEF ValidityStart, ValidityEnd, Least, Greatest
  <2>5. (Screen(req[t])[1] = "OK")'
    BY <2>1, <2>2
  <2>6. (answer[t] \in Recent(req[t].client, arrived[t]) \cup {Failed})'
    BY <2>1, <2>2 DEF Recent
  <2>7. (Parsed(t) /\ OwnerMatches(t) /\ Granted(t) /\ Matches(t))'
    BY <2>1, <2>2 DEF Parsed, OwnerMatches, Granted, Matches, Grant
  <2>8. CertificateInv(t)'
    BY <1>1, <2>1, <2>4 DEF CertificateInv, Grant
  <2> QED
    BY <2>1, <2>2, <2>5, <2>6, <2>7, <2>8 DEF ThreadInv
<1> QED
  BY <1>1, Responded DEF Issue, Refuse

\* The step of a thread keeps its own invariant.
LEMMA OwnKeeps ==
  ASSUME TypeOK, NEW t \in Threads, ThreadInv(t),
         Serve(t) \/ \E r \in Requests : Receive(t, r)
  PROVE  ThreadInv(t)'
<1>1. CASE CountIssuance(t)
  BY <1>1, Responded DEF CountIssuance
<1> QED
  BY <1>1, ReceiveKeeps, AuthenticateKeeps, HandleKeeps, FetchPolicyKeeps,
     SelectPolicyKeeps, AllowMetricsKeeps, LookupKeeps, VerifyKeeps, IssueKeeps DEF Serve

(***************************************************************************)
(* The theorems                                                            *)
(***************************************************************************)

\* IssuanceInv is inductive.
LEMMA NextKeeps == IssuanceInv /\ [Next]_vars => IssuanceInv'
<1> SUFFICES ASSUME IssuanceInv, [Next]_vars, NEW u \in Threads PROVE ThreadInv(u)'
  BY NextTypeOK DEF IssuanceInv
<1>1. TypeOK /\ TypeOK' /\ ThreadInv(u)
  BY NextTypeOK DEF IssuanceInv
<1>2. now \in Nat
  BY <1>1 DEF TypeOK, StoreTypeOK, Time
<1>3. CASE Environment
  <2>1. UNCHANGED Local(u) /\ now <= now'
    BY <1>2, <1>3 DEF Environment, Local, Tick, PutFile
  <2>2. UNCHANGED bucket \/ \E d \in Clients : PutFile(d)
    BY <1>3 DEF Environment, Tick
  <2> QED
    BY <1>1, <2>1, <2>2, Frame
<1>4. ASSUME NEW t \in Threads, Serve(t) \/ \E r \in Requests : Receive(t, r)
      PROVE  ThreadInv(u)'
  <2>1. CASE t = u
    BY <1>1, <1>4, <2>1, OwnKeeps
  <2>2. CASE t # u
    <3>1. UNCHANGED Local(u) /\ UNCHANGED <<now, bucket>>
      BY <1>1, <1>4, <2>2, OthersKeep
    <3>2. now <= now'
      BY <1>2, <3>1
    <3> QED
      BY <1>1, <3>1, <3>2, Frame
  <2> QED
    BY <2>1, <2>2
<1>5. CASE UNCHANGED vars
  <2>1. UNCHANGED Local(u) /\ UNCHANGED <<now, bucket>>
    BY <1>5 DEF vars, storeVars, Local
  <2>2. now <= now'
    BY <1>2, <2>1
  <2> QED
    BY <1>1, <2>1, <2>2, Frame
<1> QED
  BY <1>3, <1>4, <1>5 DEF Next

\* Whatever threads, clients, requests and policy files there are, a thread has
\* established at each step of issueCertificate what the later steps rely on.
THEOREM IssuanceInvariant == Spec => []IssuanceInv
<1>1. Init => IssuanceInv
  <2>1. ASSUME Init PROVE \A t \in Threads : ThreadInv(t)
    BY <2>1 DEF Init, ThreadInv, Admitted, Fetched, Owned, Looked, Verified
  <2> QED
    BY <2>1, InitTypeOK DEF IssuanceInv
<1> QED
  BY <1>1, NextKeeps, PTL DEF Spec

\* issueCertificate signs only for a verified caller whose token and evidence
\* bind the key, as a recent content of the caller's own policy file allows.
THEOREM IssuedAuthorised == Spec => []IssuedIsAuthorised
<1>1. IssuanceInv => IssuedIsAuthorised
  <2> SUFFICES ASSUME IssuanceInv, NEW t \in Threads, cert[t] # None
               PROVE  /\ req[t].token = "valid" /\ req[t].csrForm = "rsa"
                      /\ req[t].key \in req[t].audienceKeys
                      /\ req[t].signedKey = req[t].key
                      /\ \E f \in Recent(req[t].client, arrived[t]) :
                            Authorises(f, req[t], cert[t])
    BY DEF IssuedIsAuthorised
  <2>1. ThreadInv(t) /\ CertificateInv(t) /\ pc[t] = "count"
    BY DEF IssuanceInv, ThreadInv, CertificateInv
  <2>2. /\ req[t] \in Requests
        /\ req[t].token \in {"noSubject", "blank", "valid"}
        /\ Screen(req[t])[1] = "OK"
        /\ answer[t] \in Recent(req[t].client, arrived[t]) \cup {Failed}
        /\ Parsed(t) /\ OwnerMatches(t) /\ Granted(t) /\ Matches(t)
    BY <2>1 DEF ThreadInv, Admitted, Fetched, Owned, Looked, Verified
  <2>3. /\ req[t].token = "valid" /\ req[t].csrForm = "rsa"
        /\ req[t].key \in req[t].audienceKeys
    BY <2>2, RequestAssumption
       DEF Screen, NotRsa, AudienceBindsKey, CsrForms, Tokens
  <2>4. answer[t] \in Recent(req[t].client, arrived[t])
    BY <2>2, StoreAssumption DEF Parsed
  <2>5. Authorises(answer[t], req[t], cert[t])
    BY <2>1, <2>2
       DEF Authorises, CertificateInv, Parsed, OwnerMatches, Granted, Matches, Grant
  <2> QED
    BY <2>2, <2>3, <2>4, <2>5 DEF Matches
<1> QED
  BY <1>1, IssuanceInvariant, PTL

\* The validity of a certificate lies within that of the endorsement, though it
\* is worked out later than the evidence is verified.
THEOREM ValidityEndorsed == Spec => []ValidityIsEndorsed
<1>1. IssuanceInv => ValidityIsEndorsed
  BY DEF IssuanceInv, ThreadInv, CertificateInv, ValidityIsEndorsed
<1> QED
  BY <1>1, IssuanceInvariant, PTL

\* allowMetricsForClientId: the set of approved clients is finite and within its
\* limit, though each thread has looked at it without the lock before.
BoundInv == IsFiniteSet(approved) /\ ApprovedIsBounded

\* Only the synchronized block adds to the approved clients, and it looks at the limit.
LEMMA NextBound ==
  ASSUME BoundInv, [Next]_vars PROVE BoundInv'
<1>1. ASSUME NEW t \in Threads, AllowMetrics(t) PROVE BoundInv'
  <2>1. Cardinality(approved) \in Nat
    BY FS_CardinalityType DEF BoundInv
  <2>2. CASE req[t].client \notin approved /\ Cardinality(approved) < MaxApproved
    <3>1. approved' = approved \cup {req[t].client}
      BY <1>1, <2>2 DEF AllowMetrics
    <3>2. IsFiniteSet(approved') /\ Cardinality(approved') = Cardinality(approved) + 1
      BY <2>2, <3>1, FS_AddElement DEF BoundInv
    <3> QED
      BY <2>1, <2>2, <3>2, IssuanceAssumption DEF BoundInv, ApprovedIsBounded
  <2>3. CASE ~(req[t].client \notin approved /\ Cardinality(approved) < MaxApproved)
    <3>1. approved' = approved
      BY <1>1, <2>3 DEF AllowMetrics
    <3> QED
      BY <3>1 DEF BoundInv, ApprovedIsBounded
  <2> QED
    BY <2>2, <2>3
<1>2. CASE UNCHANGED approved
  BY <1>2 DEF BoundInv, ApprovedIsBounded
<1>3. ASSUME NEW t \in Threads, Serve(t), ~AllowMetrics(t) PROVE UNCHANGED approved
  BY <1>3 DEF Serve, Authenticate, Handle, FetchPolicy, SelectPolicy, Lookup, Verify, Issue,
              CountIssuance, metrics
<1>4. CASE Environment \/ (\E t \in Threads, r \in Requests : Receive(t, r)) \/ UNCHANGED vars
  BY <1>2, <1>4 DEF Environment, Receive, metrics, vars
<1> QED
  BY <1>1, <1>2, <1>3, <1>4 DEF Next

\* However many threads and new clients race for the last places, no more than
\* MAX_APPROVED_CLIENTS get one.
THEOREM ApprovedBounded == Spec => []ApprovedIsBounded
<1>1. Init => BoundInv
  BY FS_EmptySet, IssuanceAssumption DEF Init, BoundInv, ApprovedIsBounded
<1>2. BoundInv /\ [Next]_vars => BoundInv'
  BY NextBound
<1>3. BoundInv => ApprovedIsBounded
  BY DEF BoundInv
<1> QED
  BY <1>1, <1>2, <1>3, PTL DEF Spec

(***************************************************************************)
(* The issuance counters                                                   *)
(***************************************************************************)

\* The threads that have signed for c and not yet counted.
Counting(c) == {t \in Threads : pc[t] = "count" /\ req[t].client = c}

\* Past allowMetricsForClientId.
Allowed == {"lookup"} \cup Looked

\* While there is a place left, a client without one has never come past
\* allowMetricsForClientId; and since no client ever loses its place, a client
\* that came past without one will not be given one.
PlaceInv ==
  \A c \in Clients \ approved :
    Cardinality(approved) < MaxApproved =>
      /\ signed[c] = 0 /\ counter[c] = 0
      /\ \A t \in Threads : pc[t] \in Allowed => req[t].client # c

CountInv ==
  /\ BoundInv
  /\ PlaceInv
  /\ \A c \in Clients : IsFiniteSet(Counting(c))
  /\ ApprovedIsCounted

\* A step of t that neither signs, counts nor approves, and that comes past
\* allowMetricsForClientId only for a client that has a place.
Uncounted(t) ==
  /\ UNCHANGED <<approved, counter, signed>>
  /\ pc[t] # "count" /\ pc'[t] # "count"
  /\ pc'[t] \in Allowed => req'[t] = req[t] /\ (pc[t] \in Allowed \/ req[t].client \in approved)

\* Such a step keeps the counters exact.
LEMMA UncountedKeeps ==
  ASSUME CountInv, NEW t \in Threads, Uncounted(t), BoundInv',
         \A u \in Threads \ {t} : UNCHANGED Local(u)
  PROVE  CountInv'
<1> USE DEF CountInv, Uncounted, Local
<1>1. ASSUME NEW c PROVE Counting(c)' = Counting(c)
  BY DEF Counting
<1>2. PlaceInv'
  BY DEF PlaceInv
<1>3. ApprovedIsCounted'
  BY <1>1 DEF ApprovedIsCounted, Counting
<1> QED
  BY <1>1, <1>2, <1>3

\* The synchronized block: a client that gets a place has no certificate yet.
LEMMA AllowMetricsCounts ==
  ASSUME IssuanceInv, CountInv, NEW t \in Threads, AllowMetrics(t), BoundInv'
  PROVE  CountInv'
<1> USE DEF CountInv
<1> DEFINE c == req[t].client
<1>1. /\ pc[t] = "allowMetrics" /\ UNCHANGED <<req, counter, signed>>
      /\ pc' = [pc EXCEPT ![t] = "lookup"] /\ pc \in [Threads -> Steps]
  BY DEF AllowMetrics, Goto, IssuanceInv, TypeOK
<1>2. c \in Clients
  BY <1>1, RequestAssumption DEF IssuanceInv, ThreadInv
<1>3. ASSUME NEW d PROVE Counting(d)' = Counting(d)
  BY <1>1 DEF Counting
<1>4. IsFiniteSet(approved) /\ Cardinality(approved) \in Nat
  BY FS_CardinalityType DEF BoundInv
<1>5. CASE c \notin approved /\ Cardinality(approved) < MaxApproved
  <2>1. approved' = approved \cup {c}
    BY <1>5 DEF AllowMetrics
  <2>2. Cardinality(approved') = Cardinality(approved) + 1
    BY <1>4, <1>5, <2>1, FS_AddElement
  <2>3. PlaceInv'
    BY <1>1, <1>4, <2>1, <2>2, IssuanceAssumption DEF PlaceInv, Allowed, Looked, Verified
  <2>4. signed[c] = 0 /\ counter[c] = 0 /\ Counting(c) = {}
    BY <1>2, <1>5 DEF PlaceInv, Counting, Allowed, Looked, Verified
  <2>5. ApprovedIsCounted'
    <3> SUFFICES ASSUME NEW d \in approved'
                 PROVE  signed[d] = counter[d] + Cardinality(Counting(d))
      BY <1>1, <1>3 DEF ApprovedIsCounted, Counting
    <3>1. CASE d = c
      BY <2>4, <3>1, FS_EmptySet
    <3>2. CASE d \in approved
      BY <3>2 DEF ApprovedIsCounted, Counting
    <3> QED
      BY <2>1, <3>1, <3>2
  <2> QED
    BY <1>3, <2>3, <2>5
<1>6. CASE ~(c \notin approved /\ Cardinality(approved) < MaxApproved)
  <2>1. approved' = approved
    BY <1>6 DEF AllowMetrics
  <2>2. PlaceInv'
    BY <1>1, <1>6, <2>1 DEF PlaceInv, Allowed, Looked, Verified
  <2>3. ApprovedIsCounted'
    BY <1>1, <1>3, <2>1 DEF ApprovedIsCounted, Counting
  <2> QED
    BY <1>3, <2>2, <2>3
<1> QED
  BY <1>5, <1>6

\* A certificate is signed: one more to be counted.
LEMMA SigningCounts ==
  ASSUME IssuanceInv, CountInv, NEW t \in Threads, BoundInv', pc[t] = "issue", Goto(t, "count"),
         UNCHANGED <<req, approved, counter>>,
         signed' = [signed EXCEPT ![req[t].client] = @ + 1]
  PROVE  CountInv'
<1> USE DEF CountInv, Goto
<1>0. PICK c : c = req[t].client
  OBVIOUS
<1>1. c \in Clients /\ signed \in [Clients -> Nat] /\ counter \in [Clients -> Nat]
      /\ pc \in [Threads -> Steps] /\ approved \subseteq Clients
  BY <1>0, RequestAssumption DEF IssuanceInv, ThreadInv, TypeOK
<1>2. Counting(c)' = Counting(c) \cup {t} /\ t \notin Counting(c)
  BY <1>0, <1>1 DEF Counting
<1>3. ASSUME NEW d, d # c PROVE Counting(d)' = Counting(d)
  BY <1>0, <1>1, <1>3 DEF Counting
<1>4. /\ IsFiniteSet(Counting(c)) /\ IsFiniteSet(Counting(c)')
      /\ Cardinality(Counting(c)') = Cardinality(Counting(c)) + 1
      /\ Cardinality(Counting(c)) \in Nat
  BY <1>1, <1>2, FS_AddElement, FS_CardinalityType
<1>5. PlaceInv'
  <2>1. c \in approved \/ ~(Cardinality(approved) < MaxApproved)
    BY <1>0, <1>1 DEF PlaceInv, Allowed, Looked, Verified
  <2> QED
    BY <1>0, <1>1, <2>1 DEF PlaceInv, Allowed, Looked, Verified
<1>6. ApprovedIsCounted'
  <2> SUFFICES ASSUME NEW d \in approved
               PROVE  signed'[d] = counter[d] + Cardinality(Counting(d)')
    BY DEF ApprovedIsCounted, Counting
  <2>1. signed[d] = counter[d] + Cardinality(Counting(d))
    BY DEF ApprovedIsCounted, Counting
  <2>2. CASE d = c
    BY <1>0, <1>1, <1>4, <2>1, <2>2
  <2>3. CASE d # c
    BY <1>0, <1>1, <1>3, <2>1, <2>3
  <2> QED
    BY <2>2, <2>3
<1> QED
  BY <1>3, <1>4, <1>5, <1>6

\* A certificate is counted, if its client has a place.
LEMMA CountingCounts ==
  ASSUME IssuanceInv, CountInv, NEW t \in Threads, BoundInv', CountIssuance(t)
  PROVE  CountInv'
<1> USE DEF CountInv
<1>0. PICK c : c = req[t].client
  OBVIOUS
<1>1. /\ c \in Clients /\ signed \in [Clients -> Nat] /\ counter \in [Clients -> Nat]
      /\ pc \in [Threads -> Steps] /\ req \in [Threads -> Requests \cup {None}]
      /\ approved \subseteq Clients /\ pc[t] = "count"
  BY <1>0, RequestAssumption DEF IssuanceInv, ThreadInv, TypeOK, CountIssuance
<1>2. /\ pc' = [pc EXCEPT ![t] = "idle"] /\ req' = [req EXCEPT ![t] = None]
      /\ UNCHANGED <<approved, signed>>
      /\ counter' = IF c \in approved THEN [counter EXCEPT ![c] = @ + 1] ELSE counter
  BY <1>0 DEF CountIssuance, Respond
<1>3. Counting(c)' = Counting(c) \ {t} /\ t \in Counting(c)
  BY <1>0, <1>1, <1>2 DEF Counting
<1>4. ASSUME NEW d, d # c PROVE Counting(d)' = Counting(d)
  BY <1>0, <1>1, <1>2, <1>4 DEF Counting
<1>5. /\ IsFiniteSet(Counting(c)) /\ IsFiniteSet(Counting(c)')
      /\ Cardinality(Counting(c)') = Cardinality(Counting(c)) - 1
      /\ Cardinality(Counting(c)) \in Nat
  BY <1>1, <1>3, FS_RemoveElement, FS_CardinalityType
<1>6. PlaceInv'
  BY <1>1, <1>2 DEF PlaceInv, Allowed, Looked, Verified
<1>7. ApprovedIsCounted'
  <2> SUFFICES ASSUME NEW d \in approved
               PROVE  signed[d] = counter'[d] + Cardinality(Counting(d)')
    BY <1>2 DEF ApprovedIsCounted, Counting
  <2>1. signed[d] = counter[d] + Cardinality(Counting(d))
    BY DEF ApprovedIsCounted, Counting
  <2>2. CASE d = c
    BY <1>1, <1>2, <1>5, <2>1, <2>2
  <2>3. CASE d # c
    BY <1>1, <1>2, <1>4, <2>1, <2>3
  <2> QED
    BY <2>2, <2>3
<1> QED
  BY <1>4, <1>5, <1>6, <1>7

\* Every step keeps the counters exact.
LEMMA NextCounts == IssuanceInv /\ CountInv /\ [Next]_vars => CountInv'
<1> SUFFICES ASSUME IssuanceInv, CountInv, [Next]_vars PROVE CountInv'
  OBVIOUS
<1>0. BoundInv' /\ TypeOK
  BY NextBound DEF CountInv, IssuanceInv
<1>1. CASE Environment \/ UNCHANGED vars
  <2>1. UNCHANGED <<pc, req, approved, counter, signed>>
    BY <1>1 DEF Environment, vars, metrics
  <2> QED
    BY <1>0, <2>1 DEF CountInv, PlaceInv, ApprovedIsCounted, Counting
<1>2. ASSUME NEW t \in Threads, Serve(t) \/ \E r \in Requests : Receive(t, r)
      PROVE  CountInv'
  <2>0. \A u \in Threads \ {t} : UNCHANGED Local(u)
    BY <1>0, <1>2, OthersKeep
  <2>1. CASE Uncounted(t)
    BY <1>0, <2>0, <2>1, UncountedKeeps
  <2>2. CASE AllowMetrics(t)
    BY <1>0, <2>2, AllowMetricsCounts
  <2>3. CASE CountIssuance(t)
    BY <1>0, <2>3, CountingCounts
  <2> USE DEF Uncounted, Allowed, Looked, Verified, Goto, Respond, Refuse, TypeOK, metrics
  <2>4. CASE (\E r \in Requests : Receive(t, r)) \/ Authenticate(t) \/ Handle(t)
    BY <1>0, <2>1, <2>4 DEF Receive, Authenticate, Handle
  <2>5. CASE FetchPolicy(t) \/ SelectPolicy(t)
    BY <1>0, <2>1, <2>5 DEF FetchPolicy, SelectPolicy
  <2>6. CASE Lookup(t) \/ Verify(t)
    BY <1>0, <2>1, <2>6 DEF Lookup, Verify
  <2>7. CASE Issue(t)
    <3>1. \/ Uncounted(t)
          \/ /\ pc[t] = "issue" /\ Goto(t, "count") /\ UNCHANGED <<req, approved, counter>>
             /\ signed' = [signed EXCEPT ![req[t].client] = @ + 1]
      BY <1>0, <2>7 DEF Issue
    <3> QED
      BY <1>0, <2>1, <3>1, SigningCounts
  <2> QED
    BY <1>2, <2>2, <2>3, <2>4, <2>5, <2>6, <2>7 DEF Serve
<1> QED
  BY <1>1, <1>2 DEF Next

\* incrementCertificateIssuanceCounter: for a client that has a place the counter
\* and the certificates about to be counted are all that were ever signed for it,
\* though a client may be signed for without a place; for any number of threads.
THEOREM ApprovedCounted == Spec => []ApprovedIsCounted
<1>1. Init => CountInv
  <2> SUFFICES ASSUME Init PROVE CountInv
    OBVIOUS
  <2>1. BoundInv
    BY FS_EmptySet, IssuanceAssumption DEF Init, BoundInv, ApprovedIsBounded
  <2>2. ASSUME NEW c PROVE Counting(c) = {}
    BY DEF Init, Counting
  <2>3. PlaceInv /\ ApprovedIsCounted
    BY DEF Init, PlaceInv, ApprovedIsCounted, Allowed, Looked, Verified
  <2> QED
    BY <2>1, <2>2, <2>3, FS_EmptySet DEF CountInv
<1>2. CountInv => ApprovedIsCounted
  BY DEF CountInv
<1> QED
  BY <1>1, <1>2, IssuanceInvariant, NextCounts, PTL DEF Spec
=============================================================================
