------------------------------ MODULE Issuance ------------------------------
(***************************************************************************)
(* A request for a certificate, from the JWT interceptor through the gRPC  *)
(* handler to TransparentCaService.issueCertificate, served by a pool of   *)
(* threads that share the policy files, the clock and the metrics          *)
(* (java/com/google/tca/{server,domain,adapters}).                         *)
(*                                                                         *)
(* A public key, a measurement, a workload (publisher id and workload id)  *)
(* and a client (issuer and subject) are values.  A token names the keys   *)
(* that its audiences bind; evidence names the key it signs.  Policy files *)
(* are read through PolicyStore, which PolicyCache implements.             *)
(***************************************************************************)
EXTENDS PolicyStore, FiniteSets

CONSTANTS
  Requests,         \* the requests the clients may send
  DefaultWorkload,  \* the annotations of an endorsement that has none
  MaxApproved,      \* MAX_APPROVED_CLIENTS
  MaxRequests       \* bound on the requests received

ASSUME IssuanceAssumption == {MaxApproved, MaxRequests} \subseteq Nat

\* The fields of a request that the code looks at.
Tokens       == {"missing", "invalid", "keyFetchFails", "noSubject", "blank", "valid"}
CsrForms     == {"rsa", "notRsa", "malformed"}
Platforms    == {"unset", "oak", "aws", "gcp"}
Endorsements == {"good", "unlabelled", "undated", "noValidity", "notOne"}

ASSUME RequestAssumption ==
  \A r \in Requests :
    /\ r.client \in Clients
    /\ r.token \in Tokens
    /\ r.csrForm \in CsrForms
    /\ r.platform \in Platforms
    /\ r.endorsement \in Endorsements
    /\ {r.notBefore, r.notAfter} \subseteq Nat

\* A policy file parses or not, names its owner, and grants workloads: to each
\* the reference values, the longest validity, and whether its attributes make
\* a certificate.
ASSUME FileAssumption ==
  \A f \in Files : f.parses \in BOOLEAN /\ \A w \in DOMAIN f.grants : f.grants[w].max \in Nat

Codes == {"OK", "UNAUTHENTICATED", "PERMISSION_DENIED", "INVALID_ARGUMENT", "INTERNAL",
          "UNKNOWN"}

ProcessingStatus ==
  {"MISSING_POLICY", "INVALID_ATTESTATION_TOKEN", "INCORRECT_CERTIFICATE_VALIDITY",
   "SUCCESS", "INVALID_CSR", "AUDIENCE_MISMATCH", "SIGNING_ERROR", "INVALID_EVIDENCE",
   "POLICY_IDENTITY_MISMATCH"}

Steps == {"idle", "authenticate", "handle", "fetchPolicy", "selectPolicy",
          "allowMetrics", "lookup", "verify", "issue", "count"}

VARIABLES
  pc,         \* pc[t]: where t is
  req,        \* req[t]: the request t serves, or None
  arrived,    \* arrived[t]: when it arrived
  cert,       \* cert[t]: the certificate t has signed and not yet returned, or None
  code,       \* code[t]: the status code of t's last response
  auth,       \* authenticationCounter
  processed,  \* processingCounter
  approved,   \* approvedClients
  counter,    \* issuanceCounters
  signed,     \* signed[c]: certificates signed for c
  received    \* requests received

metrics == <<auth, processed, approved, counter>>
vars == <<storeVars, pc, req, arrived, cert, code, metrics, signed, received>>

Certificates == [signedAt : Time, start : Nat, end : Nat]

TypeOK ==
  /\ StoreTypeOK
  /\ pc \in [Threads -> Steps]
  /\ req \in [Threads -> Requests \cup {None}]
  /\ arrived \in [Threads -> Time]
  /\ cert \in [Threads -> Certificates \cup {None}]
  /\ code \in [Threads -> Codes \cup {None}]
  /\ auth \in [{"SUCCESS", "FAILURE"} -> Nat]
  /\ processed \in [ProcessingStatus -> Nat]
  /\ approved \in SUBSET Clients
  /\ counter \in [Clients -> Nat]
  /\ signed \in [Clients -> Nat]
  /\ received \in 0 .. MaxRequests

Init ==
  /\ StoreInit
  /\ pc = [t \in Threads |-> "idle"]
  /\ req = [t \in Threads |-> None]
  /\ arrived = [t \in Threads |-> 0]
  /\ cert = [t \in Threads |-> None]
  /\ code = [t \in Threads |-> None]
  /\ auth = [s \in {"SUCCESS", "FAILURE"} |-> 0]
  /\ processed = [s \in ProcessingStatus |-> 0]
  /\ approved = {}
  /\ counter = [c \in Clients |-> 0]
  /\ signed = [c \in Clients |-> 0]
  /\ received = 0

-----------------------------------------------------------------------------
Goto(t, to) == pc' = [pc EXCEPT ![t] = to]

\* The response is sent and the thread is free.
Respond(t, c) ==
  /\ pc' = [pc EXCEPT ![t] = "idle"]
  /\ code' = [code EXCEPT ![t] = c]
  /\ req' = [req EXCEPT ![t] = None]
  /\ cert' = [cert EXCEPT ![t] = None]

\* incrementProcessingCounter; "none" where the code counts nothing.
Count(status) ==
  processed' = IF status = "none" THEN processed
               ELSE [processed EXCEPT ![status] = @ + 1]

Refuse(t, c, status) ==
  /\ Respond(t, c)
  /\ Count(status)

Receive(t, r) ==
  /\ received < MaxRequests
  /\ received' = received + 1
  /\ pc[t] = "idle"
  /\ Goto(t, "authenticate")
  /\ req' = [req EXCEPT ![t] = r]
  /\ arrived' = [arrived EXCEPT ![t] = now]
  /\ code' = [code EXCEPT ![t] = None]
  /\ UNCHANGED <<storeVars, cert, metrics, signed>>

-----------------------------------------------------------------------------
(* JwtInterceptor                                                          *)

\* interceptCall: a missing or invalid token closes the call; an exception of
\* the key fetch is not a JwtException and ends the call uncounted.
Authenticate(t) ==
  /\ pc[t] = "authenticate"
  /\ \/ /\ req[t].token \in {"noSubject", "blank", "valid"}
        /\ Goto(t, "handle")
        /\ auth' = [auth EXCEPT !["SUCCESS"] = @ + 1]
        /\ UNCHANGED <<req, cert, code>>
     \/ /\ req[t].token \in {"missing", "invalid"}
        /\ Respond(t, "UNAUTHENTICATED")
        /\ auth' = [auth EXCEPT !["FAILURE"] = @ + 1]
     \/ /\ req[t].token = "keyFetchFails"
        /\ Respond(t, "UNKNOWN")
        /\ UNCHANGED auth
  /\ UNCHANGED <<storeVars, arrived, processed, approved, counter, signed, received>>

-----------------------------------------------------------------------------
(* The handler, and issueCertificate up to the policy                      *)

\* OidcAudienceBindingValidator: some audience names the key of the CSR.
AudienceBindsKey(r) == r.key \in r.audienceKeys

\* PublicKeyDecoder throws IllegalArgumentException, which is not counted.
NotRsa == <<"INVALID_ARGUMENT", "none">>

\* The annotations, or the defaults that stand in for any that cannot be read.
Workload(r) == IF r.endorsement = "unlabelled" THEN DefaultWorkload ELSE r.workload

\* The first check that a request fails, as the code of the response and the
\* status counted, or OK.  Nothing else in a request is looked at so far.
Screen(r) ==
  IF r.token = "noSubject" THEN <<"UNAUTHENTICATED", "none">>
  ELSE IF r.token = "blank" THEN <<"UNKNOWN", "none">>
  ELSE IF r.platform = "unset" THEN <<"INVALID_ARGUMENT", "INVALID_EVIDENCE">>
  ELSE IF r.csrForm = "malformed" THEN <<"INVALID_ARGUMENT", "INVALID_CSR">>
  ELSE IF r.csrForm = "notRsa" THEN NotRsa
  ELSE IF ~AudienceBindsKey(r) THEN <<"PERMISSION_DENIED", "AUDIENCE_MISMATCH">>
  ELSE IF r.platform \in {"aws", "gcp"} THEN <<"UNKNOWN", "none">>
  ELSE IF r.endorsement \in {"notOne", "undated"} THEN <<"INVALID_ARGUMENT", "none">>
  ELSE IF r.endorsement = "noValidity" THEN <<"UNKNOWN", "none">>
  ELSE <<"OK", "none">>

Handle(t) ==
  /\ pc[t] = "handle"
  /\ \/ /\ Screen(req[t])[1] = "OK"
        /\ Goto(t, "fetchPolicy")
        /\ Ask(t, req[t].client)
        /\ UNCHANGED <<req, arrived, cert, code, metrics, signed, received>>
     \/ /\ Screen(req[t])[1] # "OK"
        /\ Refuse(t, Screen(req[t])[1], Screen(req[t])[2])
        /\ UNCHANGED <<storeVars, arrived, auth, approved, counter, signed, received>>

-----------------------------------------------------------------------------
(* FileSourcedPolicyProvider.getPolicy                                     *)

FetchPolicy(t) ==
  /\ pc[t] = "fetchPolicy"
  /\ Goto(t, "selectPolicy")
  /\ Reply(t)
  /\ UNCHANGED <<req, arrived, cert, code, metrics, signed, received>>

\* The file was fetched and parsed, by one of the two parsers.
Parsed(t) == answer[t] \in Files /\ answer[t].parses

\* Mutant: a file is used whoever it names as its owner.
AnyOwner(t) == TRUE

\* The issuer and subject in the file are those of the token.
OwnerMatches(t) == answer[t].owner = req[t].client

\* Mutant: an unreadable file leaves the request unanswered.
SelectPolicyIgnoresFailure(t) ==
  /\ pc[t] = "selectPolicy"
  /\ Parsed(t)
  /\ OwnerMatches(t)
  /\ Goto(t, IF req[t].client \in approved THEN "lookup" ELSE "allowMetrics")
  /\ UNCHANGED <<storeVars, req, arrived, cert, code, metrics, signed, received>>

\* A file that cannot be fetched or parsed is a missing policy; one that names
\* another issuer or subject is refused.  Then allowMetricsForClientId looks at
\* the approved clients without the lock.
SelectPolicy(t) ==
  /\ pc[t] = "selectPolicy"
  /\ \/ /\ Parsed(t)
        /\ OwnerMatches(t)
        /\ Goto(t, IF req[t].client \in approved THEN "lookup" ELSE "allowMetrics")
        /\ UNCHANGED <<storeVars, req, arrived, cert, code, metrics, signed, received>>
     \/ /\ ~(Parsed(t) /\ OwnerMatches(t))
        /\ Refuse(t, "INVALID_ARGUMENT",
                  IF Parsed(t) THEN "POLICY_IDENTITY_MISMATCH" ELSE "MISSING_POLICY")
        /\ UNCHANGED <<storeVars, arrived, auth, approved, counter, signed, received>>

\* Mutant: the limit is off by one.
AllowMetricsOneMore(t) ==
  /\ pc[t] = "allowMetrics"
  /\ Goto(t, "lookup")
  /\ approved' = IF Cardinality(approved) <= MaxApproved
                 THEN approved \cup {req[t].client} ELSE approved
  /\ UNCHANGED <<storeVars, req, arrived, cert, code, auth, processed, counter, signed,
                 received>>

\* The synchronized block of allowMetricsForClientId.
AllowMetrics(t) ==
  /\ pc[t] = "allowMetrics"
  /\ Goto(t, "lookup")
  /\ approved' = IF req[t].client \notin approved /\ Cardinality(approved) < MaxApproved
                 THEN approved \cup {req[t].client} ELSE approved
  /\ UNCHANGED <<storeVars, req, arrived, cert, code, auth, processed, counter, signed,
                 received>>

\* The policy of the workload, among those in the file.
Granted(t) == Workload(req[t]) \in DOMAIN answer[t].grants
Grant(t)   == answer[t].grants[Workload(req[t])]

Lookup(t) ==
  /\ pc[t] = "lookup"
  /\ \/ /\ Granted(t)
        /\ Goto(t, "verify")
        /\ UNCHANGED <<storeVars, req, arrived, cert, code, metrics, signed, received>>
     \/ /\ ~Granted(t)
        /\ Refuse(t, "INVALID_ARGUMENT", "MISSING_POLICY")
        /\ UNCHANGED <<storeVars, arrived, auth, approved, counter, signed, received>>

-----------------------------------------------------------------------------
(* Verification, issuance, and the response                                *)

\* A reference value of the type of the evidence matches it, and the evidence
\* is bound to the key of the CSR.
Matches(t) ==
  /\ req[t].signedKey = req[t].key
  /\ \E v \in Grant(t).refs : v.type = req[t].platform /\ v.measurement = req[t].measurement

EndorsedNow(r) == r.notBefore <= now /\ now <= r.notAfter

\* OakAttestationVerifier at the time it reads.  Whether an endorsement that is
\* not valid at that time fails the verification is up to the reference values.
Verify(t) ==
  /\ pc[t] = "verify"
  /\ \/ /\ Matches(t)
        /\ Goto(t, "issue")
        /\ UNCHANGED <<storeVars, req, arrived, cert, code, metrics, signed, received>>
     \/ /\ ~Matches(t) \/ ~EndorsedNow(req[t])
        /\ Refuse(t, "INVALID_ARGUMENT", "INVALID_ATTESTATION_TOKEN")
        /\ UNCHANGED <<storeVars, arrived, auth, approved, counter, signed, received>>

Least(a, b)    == IF a <= b THEN a ELSE b
Greatest(a, b) == IF a >= b THEN a ELSE b

\* Mutant: the end of the endorsement does not bound the validity.
ValidityEndIgnoresEndorsement(t) == now + Grant(t).max

ValidityStart(t) == Greatest(now, req[t].notBefore)
ValidityEnd(t)   == Least(now + Grant(t).max, req[t].notAfter)

\* The validity is worked out at a later time than that of the verification.
\* Attributes that make no certificate throw IllegalArgumentException, which is
\* not counted; a failure to sign is.
Issue(t) ==
  /\ pc[t] = "issue"
  /\ \/ /\ ValidityStart(t) > ValidityEnd(t)
        /\ Refuse(t, "INVALID_ARGUMENT", "INCORRECT_CERTIFICATE_VALIDITY")
        /\ UNCHANGED <<storeVars, arrived, auth, approved, counter, signed, received>>
     \/ /\ ValidityStart(t) <= ValidityEnd(t)
        /\ ~Grant(t).sound
        /\ Refuse(t, "INVALID_ARGUMENT", "none")
        /\ UNCHANGED <<storeVars, arrived, auth, approved, counter, signed, received>>
     \/ /\ ValidityStart(t) <= ValidityEnd(t)
        /\ Grant(t).sound
        /\ Refuse(t, "INTERNAL", "SIGNING_ERROR")
        /\ UNCHANGED <<storeVars, arrived, auth, approved, counter, signed, received>>
     \/ /\ ValidityStart(t) <= ValidityEnd(t)
        /\ Grant(t).sound
        /\ Goto(t, "count")
        /\ cert' = [cert EXCEPT ![t] =
             [signedAt |-> now, start |-> ValidityStart(t), end |-> ValidityEnd(t)]]
        /\ signed' = [signed EXCEPT ![req[t].client] = @ + 1]
        /\ Count("SUCCESS")
        /\ UNCHANGED <<storeVars, req, arrived, code, auth, approved, counter, received>>

\* Mutant: the certificate is counted once per client.
CountIssuanceOnce(t) ==
  /\ pc[t] = "count"
  /\ counter' = IF req[t].client \in approved
                THEN [counter EXCEPT ![req[t].client] = 1] ELSE counter
  /\ Respond(t, "OK")
  /\ UNCHANGED <<storeVars, arrived, auth, processed, approved, signed, received>>

\* incrementCertificateIssuanceCounter, and the certificate chain is returned.
CountIssuance(t) ==
  /\ pc[t] = "count"
  /\ counter' = IF req[t].client \in approved
                THEN [counter EXCEPT ![req[t].client] = @ + 1] ELSE counter
  /\ Respond(t, "OK")
  /\ UNCHANGED <<storeVars, arrived, auth, processed, approved, signed, received>>

-----------------------------------------------------------------------------
Serve(t) ==
  \/ Authenticate(t) \/ Handle(t) \/ FetchPolicy(t) \/ SelectPolicy(t)
  \/ AllowMetrics(t) \/ Lookup(t) \/ Verify(t) \/ Issue(t) \/ CountIssuance(t)

Environment ==
  /\ Tick \/ \E c \in Clients : PutFile(c)
  /\ UNCHANGED <<pc, req, arrived, cert, code, metrics, signed, received>>

Next ==
  \/ Environment
  \/ \E t \in Threads : Serve(t) \/ \E r \in Requests : Receive(t, r)

Spec == Init /\ [][Next]_vars

\* The blocking executor runs every request it has accepted.
Fairness == \A t \in Threads : WF_vars(Serve(t))

FairSpec == Spec /\ Fairness

-----------------------------------------------------------------------------
(* Properties                                                              *)

\* File f authorises the certificate x for request r.
Authorises(f, r, x) ==
  /\ f \in Files
  /\ f.parses
  /\ f.owner = r.client
  /\ Workload(r) \in DOMAIN f.grants
  /\ LET g == f.grants[Workload(r)]
     IN /\ \E v \in g.refs : v.type = r.platform /\ v.measurement = r.measurement
        /\ x.end <= x.signedAt + g.max

\* A certificate is issued only for a verified caller whose token and whose
\* evidence both bind the key of the CSR, and only as some content of the
\* caller's own policy file allows that was current at most Window before the
\* request arrived: a withdrawn permission does not linger.
IssuedIsAuthorised ==
  \A t \in Threads : cert[t] # None =>
    LET r == req[t]
    IN /\ r.token = "valid" /\ r.csrForm = "rsa"
       /\ r.key \in r.audienceKeys
       /\ r.signedKey = r.key
       /\ \E f \in Recent(r.client, arrived[t]) : Authorises(f, r, cert[t])

\* The validity of a certificate is not empty, does not begin in the past, and
\* lies within that of the endorsement, however much time has passed since the
\* evidence was verified.
ValidityIsEndorsed ==
  \A t \in Threads : cert[t] # None =>
    /\ cert[t].signedAt <= cert[t].start
    /\ req[t].notBefore <= cert[t].start
    /\ cert[t].start <= cert[t].end
    /\ cert[t].end <= req[t].notAfter

\* A client cannot make the server keep a counter beyond the limit, however the
\* requests of new clients race for the last place.
ApprovedIsBounded == Cardinality(approved) <= MaxApproved

\* The issuance counter of an approved client is exact: it has counted every
\* certificate ever signed for it but those just about to be returned.
ApprovedIsCounted ==
  \A c \in approved :
    signed[c] = counter[c] +
      Cardinality({t \in Threads : pc[t] = "count" /\ req[t].client = c})

\* Every request received is answered.
EveryRequestIsAnswered == \A t \in Threads : pc[t] # "idle" ~> pc[t] = "idle"

-----------------------------------------------------------------------------
(* The invariant behind IssuedIsAuthorised and ValidityIsEndorsed          *)

\* The steps from each check on.
Verified   == {"issue", "count"}
Looked     == {"verify"} \cup Verified
Owned      == {"allowMetrics", "lookup"} \cup Looked
Fetched    == {"selectPolicy"} \cup Owned
Admitted   == {"fetchPolicy"} \cup Fetched

\* What the certificate of t respects.
CertificateInv(t) ==
  /\ pc[t] = "count"
  /\ cert[t].signedAt <= cert[t].start
  /\ req[t].notBefore <= cert[t].start
  /\ cert[t].start <= cert[t].end
  /\ cert[t].end <= req[t].notAfter
  /\ cert[t].end <= cert[t].signedAt + Grant(t).max

\* What t has established at each step, and that it stays so while the operator
\* replaces files: the file in hand was current when the request arrived, or at
\* most Window before.
ThreadInv(t) ==
  /\ pc[t] # "idle" => req[t] \in Requests /\ arrived[t] <= now
  /\ pc[t] \in {"handle"} \cup Admitted => req[t].token \in {"noSubject", "blank", "valid"}
  /\ pc[t] \in Admitted => Screen(req[t])[1] = "OK"
  /\ pc[t] = "fetchPolicy" =>
       /\ asked[t].client = req[t].client
       /\ arrived[t] <= asked[t].at
  /\ pc[t] \in Fetched => answer[t] \in Recent(req[t].client, arrived[t]) \cup {Failed}
  /\ pc[t] \in Owned => Parsed(t) /\ OwnerMatches(t)
  /\ pc[t] \in Looked => Granted(t)
  /\ pc[t] \in Verified => Matches(t)
  /\ cert[t] # None => CertificateInv(t)

IssuanceInv == TypeOK /\ \A t \in Threads : ThreadInv(t)
=============================================================================
