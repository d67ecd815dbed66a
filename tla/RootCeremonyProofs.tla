------------------------- MODULE RootCeremonyProofs -------------------------
(***************************************************************************)
(* Proofs about RootCeremony, for any sets of instances and generations    *)
(* and any number of crashes and failed calls.                             *)
(***************************************************************************)
EXTENDS RootCeremony, TLAPS

(***************************************************************************)
(* Type correctness, whatever the deployment does                          *)
(***************************************************************************)

\* Initially every variable has its type.
LEMMA InitTypeOK == Init => TypeOK
<1> SUFFICES ASSUME Init PROVE TypeOK
  OBVIOUS
<1>1. /\ pc \in [Instances -> Steps] /\ event \in [Instances -> Events]
      /\ held \in [Instances -> [Required -> Gens \cup {None}]]
      /\ s3 \in [Objects -> Gens \cup {None}]
      /\ tlog \in SUBSET Gens /\ made \in SUBSET Gens /\ faults \in 0 .. MaxFaults
  BY NoneAssumption, MaxFaultsAssumption
     DEF Init, Empty, Required, Objects, Steps, Events
<1>2. overlap \in BOOLEAN
  BY DEF Init
<1> QED
  BY <1>1, <1>2 DEF TypeOK

\* The step and event names that occur in the actions.
LEMMA Names ==
  /\ {"down", "serving", "generate"} \subseteq Steps
  /\ LoadSteps \subseteq Steps /\ GenerateSteps \subseteq Steps
  /\ {"none", "SUCCESS", "KMS_OPERATION_FAILED", "S3_FETCH_FAILED",
      "S3_WRITE_FAILED"} \subseteq Events
  BY DEF Steps, LoadSteps, GenerateSteps, Events

\* As long as there is one, a fresh generation is one that was not made.
LEMMA FreshIsNew == Gens \ made # {} => Fresh \in Gens \ made
  BY DEF Fresh

\* A jump of one instance keeps pc in its type.
LEMMA GotoType ==
  ASSUME TypeOK, NEW i \in Instances, NEW from, NEW to \in Steps, Goto(i, from, to)
  PROVE  pc' \in [Instances -> Steps]
  BY DEF TypeOK, Goto

\* A failure keeps the count of failures within its bound.
LEMMA FaultType ==
  ASSUME TypeOK, Fault
  PROVE  faults' \in 0 .. MaxFaults
  BY MaxFaultsAssumption DEF TypeOK, Fault

\* An aborted ceremony leaves the instance down, with nothing in memory.
LEMMA AbortType ==
  ASSUME TypeOK, NEW i \in Instances, NEW e \in Events, Abort(i, e)
  PROVE  /\ pc' \in [Instances -> Steps]
         /\ held' \in [Instances -> [Required -> Gens \cup {None}]]
         /\ event' \in [Instances -> Events]
  BY Names DEF TypeOK, Abort, Empty

\* A failed call does both.
LEMMA FailedCallType ==
  ASSUME TypeOK, NEW i \in Instances, NEW from, NEW e \in Events,
         FailedCall(i, from, e)
  PROVE  /\ pc' \in [Instances -> Steps]
         /\ held' \in [Instances -> [Required -> Gens \cup {None}]]
         /\ event' \in [Instances -> Events]
         /\ faults' \in 0 .. MaxFaults
  BY AbortType, FaultType, Names DEF FailedCall

\* An instance that begins to serve keeps what it holds.
LEMMA ServeType ==
  ASSUME TypeOK, NEW i \in Instances, Serve(i)
  PROVE  /\ pc' \in [Instances -> Steps]
         /\ held' \in [Instances -> [Required -> Gens \cup {None}]]
         /\ event' \in [Instances -> Events]
  BY Names DEF TypeOK, Serve

\* Storing what an instance holds keeps the objects in their type.
LEMMA StoreType ==
  ASSUME TypeOK, NEW i \in Instances, NEW o \in Objects
  PROVE  [s3 EXCEPT ![o] = held[i]["cert"]] \in [Objects -> Gens \cup {None}]
  BY DEF TypeOK, Required

\* Every read of an object keeps every variable in its type.
LEMMA GetObjectType ==
  ASSUME TypeOK, NEW i \in Instances, NEW o \in Required, NEW from,
         NEW to \in Steps, GetObject(i, o, from, to)
  PROVE  TypeOK'
<1>1. CASE /\ Goto(i, from, to)
           /\ held' = [held EXCEPT ![i][o] = s3[o]]
           /\ UNCHANGED <<event, s3, tlog, made, faults, overlap>>
  <2>1. s3[o] \in Gens \cup {None}
    BY DEF TypeOK, Objects
  <2>2. held' \in [Instances -> [Required -> Gens \cup {None}]]
    BY <1>1, <2>1 DEF TypeOK
  <2> QED
    BY <1>1, <2>2, GotoType DEF TypeOK
<1>2. CASE /\ Goto(i, from, "generate")
           /\ UNCHANGED <<held, event, s3, tlog, made, faults, overlap>>
  BY <1>2, GotoType, Names DEF TypeOK
<1>3. CASE /\ FailedCall(i, from, "S3_FETCH_FAILED")
           /\ UNCHANGED <<s3, tlog, made, overlap>>
  BY <1>3, FailedCallType, Names DEF TypeOK
<1> QED
  BY <1>1, <1>2, <1>3 DEF GetObject

\* Every store of an object keeps every variable in its type.
LEMMA PutObjectType ==
  ASSUME TypeOK, NEW i \in Instances, NEW o \in Required, NEW from,
         NEW to \in Steps, PutObject(i, o, from, to)
  PROVE  TypeOK'
<1> DEFINE stored == [s3 EXCEPT ![o] = held[i]["cert"]]
<1>1. stored \in [Objects -> Gens \cup {None}]
  BY StoreType DEF Objects
<1>2. s3' \in {s3, stored}
  BY DEF PutObject
<1>3. CASE Goto(i, from, to) /\ UNCHANGED <<held, event, tlog, made, faults, overlap>>
  BY <1>1, <1>2, <1>3, GotoType DEF TypeOK
<1>4. CASE FailedCall(i, from, "S3_WRITE_FAILED") /\ UNCHANGED <<tlog, made, overlap>>
  BY <1>1, <1>2, <1>4, FailedCallType, Names DEF TypeOK
<1> QED
  BY <1>3, <1>4 DEF PutObject

\* Every step of the ceremony keeps every variable in its type.
LEMMA NextTypeOK == TypeInv /\ [Next]_vars => TypeOK'
<1> SUFFICES ASSUME TypeInv, TypeOK, [Next]_vars PROVE TypeOK'
  BY DEF TypeInv
<1> USE Names, GotoType, FaultType, AbortType, FailedCallType, ServeType
<1>1. ASSUME NEW i \in Instances, Start(i) PROVE TypeOK'
  BY <1>1 DEF Start, TypeOK, LoadSteps
<1>2. ASSUME NEW i \in Instances,
             GetCert(i) \/ GetDataKey(i) \/ GetAesKey(i) \/ GetAttestation(i)
      PROVE  TypeOK'
  BY <1>2, GetObjectType
     DEF GetCert, GetDataKey, GetAesKey, GetAttestation, Required, LoadSteps
<1>3. ASSUME NEW i \in Instances, KmsDecrypt(i) PROVE TypeOK'
  BY <1>3 DEF KmsDecrypt, TypeOK, LoadSteps
<1>4. ASSUME NEW i \in Instances, OpenPrivateKey(i) PROVE TypeOK'
  BY <1>4 DEF OpenPrivateKey, TypeOK, LoadSteps
<1>5. ASSUME NEW i \in Instances, HeadTlogEntry(i) PROVE TypeOK'
  BY <1>5 DEF HeadTlogEntry, TypeOK, LoadSteps
<1>6. ASSUME NEW i \in Instances, LookupTlog(i) PROVE TypeOK'
  BY <1>6 DEF LookupTlog, TypeOK, LoadSteps
<1>7. ASSUME NEW i \in Instances, RestoreTlogEntry(i) PROVE TypeOK'
  <2>1. [s3 EXCEPT !["tlogEntry"] = held[i]["cert"]] \in [Objects -> Gens \cup {None}]
    BY StoreType DEF Objects
  <2>2. s3' \in {s3, [s3 EXCEPT !["tlogEntry"] = held[i]["cert"]]}
    BY <1>7 DEF RestoreTlogEntry
  <2> QED
    BY <1>7, <2>1, <2>2 DEF RestoreTlogEntry, TypeOK
<1>8. ASSUME NEW i \in Instances, Generate(i) PROVE TypeOK'
  <2>1. CASE FailedCall(i, "generate", "none") /\ UNCHANGED <<s3, tlog, made, overlap>>
    BY <2>1 DEF TypeOK
  <2>2. CASE /\ Gens \ made # {}
             /\ Goto(i, "generate", "genDataKey")
             /\ held' = [held EXCEPT ![i] = [o \in Required |-> Fresh]]
             /\ made' = made \cup {Fresh}
             /\ UNCHANGED <<event, s3, tlog, faults, overlap>>
    BY <2>2, FreshIsNew DEF TypeOK, GenerateSteps
  <2> QED
    BY <1>8, <2>1, <2>2 DEF Generate
<1>9. ASSUME NEW i \in Instances, GenDataKey(i) PROVE TypeOK'
  BY <1>9 DEF GenDataKey, TypeOK, GenerateSteps
<1>10. ASSUME NEW i \in Instances,
              PutAesKey(i) \/ PutDataKey(i) \/ PutCert(i) \/ PutAttestation(i)
       PROVE  TypeOK'
  BY <1>10, PutObjectType
     DEF PutAesKey, PutDataKey, PutCert, PutAttestation, Required, GenerateSteps
<1>11. ASSUME NEW i \in Instances, RecordTlog(i) PROVE TypeOK'
  <2>1. tlog' \in SUBSET Gens
    <3>1. pc[i] = "recordTlog"
      BY <1>11 DEF RecordTlog, Goto, FailedCall
    <3>2. held[i]["cert"] \in Gens
      BY <3>1 DEF TypeInv, GeneratorInv
    <3> QED
      BY <1>11, <3>2 DEF RecordTlog, TypeOK
  <2> QED
    BY <1>11, <2>1 DEF RecordTlog, TypeOK, GenerateSteps
<1>12. ASSUME NEW i \in Instances, PutTlogEntry(i) PROVE TypeOK'
  <2>1. [s3 EXCEPT !["tlogEntry"] = held[i]["cert"]] \in [Objects -> Gens \cup {None}]
    BY StoreType DEF Objects
  <2>2. s3' \in {s3, [s3 EXCEPT !["tlogEntry"] = held[i]["cert"]]}
    BY <1>12 DEF PutTlogEntry
  <2> QED
    BY <1>12, <2>1, <2>2 DEF PutTlogEntry, TypeOK
<1>13. ASSUME NEW i \in Instances, Stop(i) PROVE TypeOK'
  BY <1>13 DEF Stop, TypeOK
<1>14. ASSUME NEW i \in Instances, Crash(i) PROVE TypeOK'
  BY <1>14 DEF Crash, TypeOK
<1>15. ASSUME UNCHANGED vars PROVE TypeOK'
  BY <1>15 DEF vars, TypeOK
<1> QED
  BY <1>1, <1>2, <1>3, <1>4, <1>5, <1>6, <1>7, <1>8, <1>9, <1>10, <1>11, <1>12,
     <1>13, <1>14, <1>15
     DEF Next, Load, GenerateAndStore

\* Every step keeps what a generating instance holds.
LEMMA NextGeneratorInv ==
  ASSUME TypeInv, [Next]_vars, NEW k \in Instances
  PROVE  GeneratorInv(k)'
<1> USE DEF TypeInv, TypeOK, GeneratorInv, Writing
<1>1. ASSUME NEW i \in Instances, Start(i) PROVE GeneratorInv(k)'
  BY <1>1 DEF Start, Goto
<1>2. ASSUME NEW i \in Instances, Load(i) PROVE GeneratorInv(k)'
  BY <1>2
     DEF Load, GetCert, GetDataKey, GetAesKey, GetAttestation, GetObject,
         KmsDecrypt, OpenPrivateKey, HeadTlogEntry, LookupTlog, RestoreTlogEntry,
         Goto, Serve, FailedCall, Abort
<1>3. ASSUME NEW i \in Instances, Generate(i) PROVE GeneratorInv(k)'
  BY <1>3, FreshIsNew DEF Generate, Goto, FailedCall, Abort, Required
<1>4. ASSUME NEW i \in Instances, GenerateAndStore(i), ~Generate(i)
      PROVE  GeneratorInv(k)'
  BY <1>4
     DEF GenerateAndStore, GenDataKey, PutAesKey, PutDataKey, PutCert,
         PutAttestation, PutObject, RecordTlog, PutTlogEntry, Goto, Serve,
         FailedCall, Abort
<1>5. ASSUME NEW i \in Instances, Stop(i) \/ Crash(i) PROVE GeneratorInv(k)'
  BY <1>5 DEF Stop, Crash, Abort
<1>6. ASSUME UNCHANGED vars PROVE GeneratorInv(k)'
  BY <1>6 DEF vars
<1> QED
  BY <1>1, <1>2, <1>3, <1>4, <1>5, <1>6 DEF Next

\* The types and what generating instances hold are inductive together.
LEMMA TypeInvCorrect == Spec => []TypeInv
<1>1. Init => TypeInv
  BY InitTypeOK DEF TypeInv, GeneratorInv, Writing, Init
<1>2. TypeInv /\ [Next]_vars => TypeInv'
  BY NextTypeOK, NextGeneratorInv DEF TypeInv
<1> QED
  BY <1>1, <1>2, PTL DEF Spec

\* The ceremony never leaves its types, for every number of instances.
THEOREM TypeCorrect == Spec => []TypeOK
<1>1. TypeInv => TypeOK
  BY DEF TypeInv
<1> QED
  BY <1>1, TypeInvCorrect, PTL

(***************************************************************************)
(* The transparency log, whatever the deployment does                      *)
(***************************************************************************)

\* Every step keeps what makes the stored log entry one the log holds.
LEMMA NextLogInv == LogInv /\ [Next]_vars /\ TypeInv' => LogInv'
<1> SUFFICES ASSUME LogInv, [Next]_vars, TypeInv' PROVE LogInv'
  OBVIOUS
<1> USE DEF LogInv, TlogEntryIsLogged, TypeInv, TypeOK, Objects, Required
<1>1. ASSUME NEW i \in Instances, Start(i) PROVE LogInv'
  BY <1>1 DEF Start, Goto
<1>2. ASSUME NEW i \in Instances, Load(i), ~RestoreTlogEntry(i) PROVE LogInv'
  BY <1>2
     DEF Load, GetCert, GetDataKey, GetAesKey, GetAttestation, GetObject,
         KmsDecrypt, OpenPrivateKey, HeadTlogEntry, LookupTlog,
         Goto, Serve, FailedCall, Abort
<1>3. ASSUME NEW i \in Instances, RestoreTlogEntry(i) PROVE LogInv'
  BY <1>3 DEF RestoreTlogEntry, Serve
<1>4. ASSUME NEW i \in Instances, Generate(i) \/ GenDataKey(i) PROVE LogInv'
  BY <1>4 DEF Generate, GenDataKey, Goto, FailedCall, Abort
<1>5. ASSUME NEW i \in Instances,
             PutAesKey(i) \/ PutDataKey(i) \/ PutCert(i) \/ PutAttestation(i)
      PROVE  LogInv'
  BY <1>5
     DEF PutAesKey, PutDataKey, PutCert, PutAttestation, PutObject, Goto,
         FailedCall, Abort
<1>6. ASSUME NEW i \in Instances, RecordTlog(i) PROVE LogInv'
  BY <1>6 DEF RecordTlog, Goto, FailedCall, Abort
<1>7. ASSUME NEW i \in Instances, PutTlogEntry(i) PROVE LogInv'
  BY <1>7 DEF PutTlogEntry, Serve, FailedCall, Abort
<1>8. ASSUME NEW i \in Instances, Stop(i) \/ Crash(i) PROVE LogInv'
  BY <1>8 DEF Stop, Crash, Abort
<1>9. ASSUME UNCHANGED vars PROVE LogInv'
  BY <1>9 DEF vars
<1> QED
  BY <1>1, <1>2, <1>3, <1>4, <1>5, <1>6, <1>7, <1>8, <1>9
     DEF Next, Load, GenerateAndStore

\* The bucket never shows a log entry that the log does not hold, for every
\* number of instances and even when they bootstrap at the same time.
THEOREM EntryIsLogged == Spec => []TlogEntryIsLogged
<1>1. Init => LogInv
  BY InitTypeOK
     DEF LogInv, TlogEntryIsLogged, TypeInv, GeneratorInv, Writing, Init, Objects
<1>2. LogInv /\ [Next]_vars /\ TypeInv' => LogInv'
  BY NextLogInv
<1>3. LogInv => TlogEntryIsLogged
  BY DEF LogInv
<1> QED
  BY <1>1, <1>2, <1>3, TypeInvCorrect, PTL DEF Spec

(***************************************************************************)
(* One root, until two instances bootstrap at once                         *)
(***************************************************************************)

\* What happened stays remembered.
LEMMA OverlapStays ==
  ASSUME TypeOK, [Next]_vars, ~overlap' PROVE ~overlap
<1>1. ASSUME NEW i \in Instances, Start(i) PROVE ~overlap
  BY <1>1 DEF Start
<1>2. ASSUME NEW i \in Instances, Load(i) PROVE ~overlap
  BY <1>2
     DEF Load, GetCert, GetDataKey, GetAesKey, GetAttestation, GetObject,
         KmsDecrypt, OpenPrivateKey, HeadTlogEntry, LookupTlog, RestoreTlogEntry
<1>3. ASSUME NEW i \in Instances, GenerateAndStore(i) PROVE ~overlap
  BY <1>3
     DEF GenerateAndStore, Generate, GenDataKey, PutAesKey, PutDataKey, PutCert,
         PutAttestation, PutObject, RecordTlog, PutTlogEntry
<1>4. ASSUME NEW i \in Instances, Stop(i) \/ Crash(i) PROVE ~overlap
  BY <1>4 DEF Stop, Crash
<1> QED
  BY <1>1, <1>2, <1>3, <1>4 DEF Next, vars

\* A stored root is complete exactly when its attestation is stored.
LEMMA CompleteIsAttested ==
  ASSUME OneRoot PROVE Complete <=> Attested
  BY DEF OneRoot, WholeOnceAttested, Complete, Attested, Required

\* As long as no two instances have bootstrapped at once, every step keeps what
\* makes the stored root one.
LEMMA NextOneRoot ==
  ASSUME TypeInv, OneRoot, [Next]_vars, TypeInv', ~overlap'
  PROVE  OneRoot'
<1> USE DEF OneRoot, SoleUntilAttested, WholeOnceAttested, WriterInv, ReaderInv,
            HolderInv, EntryInv, Attested, TypeInv, TypeOK, Objects, Required,
            Writing, Established
<1>1. ASSUME NEW i \in Instances, Start(i) PROVE OneRoot'
  <2>1. Complete \/ \A j \in Instances : pc[j] = "down"
    BY <1>1, Zenon DEF Start
  <2>2. Attested \/ \A j \in Instances : pc[j] = "down"
    BY <2>1, CompleteIsAttested
  <2>3. Goto(i, "down", "getCert") /\ UNCHANGED <<held, s3>>
    BY <1>1 DEF Start
  <2> QED
    BY <2>2, <2>3 DEF Goto
<1>2. ASSUME NEW i \in Instances, GetCert(i) PROVE OneRoot'
  BY <1>2, SMTT(20) DEF GetCert, GetObject, Goto, FailedCall, Abort
<1>3. ASSUME NEW i \in Instances, GetDataKey(i) PROVE OneRoot'
  BY <1>3 DEF GetDataKey, GetObject, Goto, FailedCall, Abort
<1>4. ASSUME NEW i \in Instances, GetAesKey(i) PROVE OneRoot'
  BY <1>4 DEF GetAesKey, GetObject, Goto, FailedCall, Abort
<1>5. ASSUME NEW i \in Instances, GetAttestation(i) PROVE OneRoot'
  BY <1>5, SMTT(20) DEF GetAttestation, GetObject, Goto, FailedCall, Abort
<1>6. ASSUME NEW i \in Instances, KmsDecrypt(i) PROVE OneRoot'
  BY <1>6 DEF KmsDecrypt, Goto, FailedCall, Abort
<1>7. ASSUME NEW i \in Instances, OpenPrivateKey(i) PROVE OneRoot'
  BY <1>7 DEF OpenPrivateKey, Goto, Abort
<1>8. ASSUME NEW i \in Instances, HeadTlogEntry(i) PROVE OneRoot'
  BY <1>8 DEF HeadTlogEntry, Goto, Serve, FailedCall, Abort
<1>9. ASSUME NEW i \in Instances, LookupTlog(i) PROVE OneRoot'
  BY <1>9 DEF LookupTlog, Goto, Serve
<1>10. ASSUME NEW i \in Instances, RestoreTlogEntry(i) PROVE OneRoot'
  BY <1>10 DEF RestoreTlogEntry, Serve
<1>11. ASSUME NEW i \in Instances, Generate(i) PROVE OneRoot'
  <2>1. CASE /\ Gens \ made # {}
             /\ Goto(i, "generate", "genDataKey")
             /\ held' = [held EXCEPT ![i] = [o \in Required |-> Fresh]]
             /\ UNCHANGED s3
    BY <2>1 DEF Goto
  <2>2. CASE FailedCall(i, "generate", "none") /\ UNCHANGED s3
    BY <2>2 DEF FailedCall, Abort
  <2> QED
    BY <1>11, <2>1, <2>2 DEF Generate
<1>12. ASSUME NEW i \in Instances, GenDataKey(i) PROVE OneRoot'
  <2>1. CASE Goto(i, "genDataKey", "putAesKey") /\ UNCHANGED <<held, s3>>
    BY <2>1 DEF Goto
  <2>2. CASE FailedCall(i, "genDataKey", "KMS_OPERATION_FAILED") /\ UNCHANGED s3
    BY <2>2 DEF FailedCall, Abort
  <2> QED
    BY <1>12, <2>1, <2>2 DEF GenDataKey
<1>13. ASSUME NEW i \in Instances, PutAesKey(i) PROVE OneRoot'
  BY <1>13 DEF PutAesKey, PutObject, Goto, FailedCall, Abort
<1>14. ASSUME NEW i \in Instances, PutDataKey(i) PROVE OneRoot'
  <2> DEFINE stored == [s3 EXCEPT !["dataKey"] = held[i]["cert"]]
  <2>1. CASE Goto(i, "putDataKey", "putCert") /\ UNCHANGED held /\ s3' = stored
    BY <2>1 DEF Goto
  <2>2. CASE FailedCall(i, "putDataKey", "S3_WRITE_FAILED") /\ s3' \in {s3, stored}
    BY <2>2 DEF FailedCall, Abort
  <2> QED
    BY <1>14, <2>1, <2>2 DEF PutDataKey, PutObject
<1>15. ASSUME NEW i \in Instances, PutCert(i) PROVE OneRoot'
  BY <1>15 DEF PutCert, PutObject, Goto, FailedCall, Abort
<1>16. ASSUME NEW i \in Instances, PutAttestation(i) PROVE OneRoot'
  <2> DEFINE stored == [s3 EXCEPT !["attestation"] = held[i]["cert"]]
  <2>1. CASE Goto(i, "putAttestation", "recordTlog") /\ UNCHANGED held /\ s3' = stored
    BY <2>1, NoneAssumption DEF Goto, GeneratorInv
  <2>2. CASE FailedCall(i, "putAttestation", "S3_WRITE_FAILED") /\ s3' \in {s3, stored}
    BY <2>2, NoneAssumption, SMTT(20) DEF FailedCall, Abort, GeneratorInv
  <2> QED
    BY <1>16, <2>1, <2>2 DEF PutAttestation, PutObject
<1>17. ASSUME NEW i \in Instances, RecordTlog(i) PROVE OneRoot'
  BY <1>17 DEF RecordTlog, Goto, FailedCall, Abort
<1>18. ASSUME NEW i \in Instances, PutTlogEntry(i) PROVE OneRoot'
  BY <1>18 DEF PutTlogEntry, Serve, FailedCall, Abort
<1>19. ASSUME NEW i \in Instances, Stop(i) \/ Crash(i) PROVE OneRoot'
  BY <1>19 DEF Stop, Crash, Abort
<1>20. ASSUME UNCHANGED vars PROVE OneRoot'
  BY <1>20 DEF vars
<1> QED
  BY <1>1, <1>2, <1>3, <1>4, <1>5, <1>6, <1>7, <1>8, <1>9, <1>10, <1>11, <1>12,
     <1>13, <1>14, <1>15, <1>16, <1>17, <1>18, <1>19, <1>20
     DEF Next, Load, GenerateAndStore

\* The ceremony's invariant holds in every reachable state.
LEMMA CeremonyInvCorrect == Spec => []CeremonyInv
<1>1. Init => CeremonyInv
  BY InitTypeOK
     DEF Init, CeremonyInv, OneRoot, TypeInv, GeneratorInv, SoleUntilAttested,
         WholeOnceAttested, WriterInv, ReaderInv, HolderInv, EntryInv, Attested,
         Writing, Established, Objects, Required
<1>2. CeremonyInv /\ [Next]_vars /\ TypeInv' => CeremonyInv'
  BY NextOneRoot, OverlapStays DEF CeremonyInv, TypeInv
<1> QED
  BY <1>1, <1>2, TypeInvCorrect, PTL DEF Spec

\* However a bootstrap is cut short, the four stored objects come from one
\* generation once they are all there: a load never meets a mixture, unless two
\* instances bootstrapped at once.
THEOREM StoredRootWhole == Spec => []StoredRootIsWhole
<1>1. CeremonyInv => StoredRootIsWhole
  BY CompleteIsAttested
     DEF CeremonyInv, OneRoot, WholeOnceAttested, StoredRootIsWhole, Required
<1> QED
  BY <1>1, CeremonyInvCorrect, PTL

\* Every serving instance signs with the key of its certificate, shows the
\* attestation bound to that key, and serves the certificate in the bucket,
\* unless two instances bootstrapped at once.
THEOREM ServedRootWholeAndPublished ==
  Spec => [](ServedRootIsWhole /\ ServedRootIsPublished)
<1>1. CeremonyInv => ServedRootIsWhole /\ ServedRootIsPublished
  BY DEF CeremonyInv, OneRoot, HolderInv, WholeOnceAttested, Attested, Established,
         Required, ServedRootIsWhole, ServedRootIsPublished, Serving
<1> QED
  BY <1>1, CeremonyInvCorrect, PTL

\* A log entry in the bucket is of the root stored beside it, unless two instances
\* bootstrapped at once.
THEOREM EntryIsOfRoot == Spec => []TlogEntryIsOfRoot
<1>1. CeremonyInv => TlogEntryIsOfRoot
  BY CompleteIsAttested DEF CeremonyInv, OneRoot, EntryInv, TlogEntryIsOfRoot
<1> QED
  BY <1>1, CeremonyInvCorrect, PTL

\* No step changes a stored object of a complete root that nobody is replacing.
LEMMA StepKeepsRoot ==
  ASSUME TypeOK, [Next]_vars, Complete, ~Generating
  PROVE  \A o \in Required : s3'[o] = s3[o]
<1>2. ASSUME NEW i \in Instances PROVE pc[i] \notin {"generate"} \cup Writing
  BY DEF Generating
<1>3. ASSUME NEW i \in Instances, Load(i), ~RestoreTlogEntry(i) PROVE s3' = s3
  BY <1>3
     DEF Load, GetCert, GetDataKey, GetAesKey, GetAttestation, GetObject,
         KmsDecrypt, OpenPrivateKey, HeadTlogEntry, LookupTlog
<1>4. ASSUME NEW i \in Instances, RestoreTlogEntry(i) \/ PutTlogEntry(i)
      PROVE  s3' \in {s3, [s3 EXCEPT !["tlogEntry"] = held[i]["cert"]]}
  BY <1>4 DEF RestoreTlogEntry, PutTlogEntry
<1>5. ASSUME NEW i \in Instances, GenerateAndStore(i), ~PutTlogEntry(i)
      PROVE  s3' = s3
  BY <1>2, <1>5
     DEF GenerateAndStore, Generate, GenDataKey, PutAesKey, PutDataKey, PutCert,
         PutAttestation, PutObject, RecordTlog, Goto, FailedCall, Writing
<1>6. ASSUME NEW i \in Instances, Start(i) \/ Stop(i) \/ Crash(i) PROVE s3' = s3
  BY <1>6 DEF Start, Stop, Crash
<1>7. CASE \E i \in Instances :
             s3' \in {s3, [s3 EXCEPT !["tlogEntry"] = held[i]["cert"]]}
  BY <1>7 DEF TypeOK, Objects, Required
<1> QED
  BY <1>3, <1>4, <1>5, <1>6, <1>7 DEF Next, vars, Load

\* Nor does anybody begin to replace it.
LEMMA StepBeginsNone ==
  ASSUME TypeOK, [Next]_vars, Complete, ~Generating
  PROVE  ~Generating'
<1> USE DEF TypeOK, Writing
<1>1. ASSUME NEW k \in Instances PROVE pc[k] \notin {"generate"} \cup Writing
  BY DEF Generating
<1>2. SUFFICES ASSUME NEW k \in Instances PROVE pc'[k] \notin {"generate"} \cup Writing
  BY DEF Generating
<1>3. ASSUME NEW i \in Instances, Start(i) \/ Stop(i) \/ Crash(i)
      PROVE  pc'[k] \notin {"generate"} \cup Writing
  BY <1>1, <1>3 DEF Start, Stop, Crash, Goto, Abort
<1>4. ASSUME NEW i \in Instances, Load(i) PROVE pc'[k] \notin {"generate"} \cup Writing
  BY <1>1, <1>4
     DEF Load, GetCert, GetDataKey, GetAesKey, GetAttestation, GetObject, Complete,
         Required, KmsDecrypt, OpenPrivateKey, HeadTlogEntry, LookupTlog,
         RestoreTlogEntry, Goto, Serve, FailedCall, Abort
<1>5. ASSUME NEW i \in Instances, GenerateAndStore(i)
      PROVE  pc'[k] \notin {"generate"} \cup Writing
  BY <1>1, <1>5
     DEF GenerateAndStore, Generate, GenDataKey, PutAesKey, PutDataKey, PutCert,
         PutAttestation, PutObject, RecordTlog, PutTlogEntry, Goto, Serve,
         FailedCall, Abort
<1>6. CASE UNCHANGED vars
  BY <1>1, <1>6 DEF vars
<1> QED
  BY <1>3, <1>4, <1>5, <1>6 DEF Next

\* Beside a complete root nobody is storing another, unless bootstraps overlapped.
LEMMA CompleteIsSettled ==
  ASSUME CeremonyInv, ~overlap, Complete PROVE ~Generating
  BY CompleteIsAttested DEF CeremonyInv, OneRoot, WriterInv, Generating

\* However many instances bootstrap at once, a complete root is never replaced, not
\* even in part, once nobody is storing another; and unless bootstraps overlapped
\* nobody ever is.
THEOREM StoredRootFinal ==
  Spec => StoredRootIsFinal /\ [](Complete /\ ~overlap => ~Generating)
<1>1. TypeOK /\ [Next]_vars =>
        [Complete /\ ~Generating => /\ \A o \in Required : s3'[o] = s3[o]
                                   /\ ~Generating']_vars
  BY StepKeepsRoot, StepBeginsNone
<1>2. CeremonyInv => (Complete /\ ~overlap => ~Generating)
  BY CompleteIsSettled
<1> QED
  BY <1>1, <1>2, CeremonyInvCorrect, TypeCorrect, PTL DEF Spec, StoredRootIsFinal

(***************************************************************************)
(* The ceremony implements RootOfTrust                                     *)
(***************************************************************************)

\* What the abstract specification sees of a state.
AbstractRoot == IF Complete THEN s3["cert"] ELSE None
AbstractLive == [i \in Instances |-> RootOf(i)]

\* A step of instance i leaves the others alone, keeps what i holds when i begins
\* to serve, and completes the stored root only by the put of the attestation.
LEMMA StepShape ==
  ASSUME TypeOK, NEW i \in Instances,
         Start(i) \/ Load(i) \/ GenerateAndStore(i) \/ Stop(i) \/ Crash(i)
  PROVE  /\ \A k \in Instances \ {i} : pc'[k] = pc[k] /\ held'[k] = held[k]
         /\ pc[i] = "serving" => pc'[i] # "serving"
         /\ pc'[i] = "serving" => held' = held
         /\ \/ s3'["attestation"] = s3["attestation"]
            \/ /\ pc[i] = "putAttestation"
               /\ pc'[i] # "serving"
               /\ s3' = [s3 EXCEPT !["attestation"] = held[i]["cert"]]
<1> USE DEF TypeOK, Objects, Required
<1>1. CASE Start(i) \/ Stop(i) \/ Crash(i)
  BY <1>1 DEF Start, Stop, Crash, Goto, Abort
<1>2. CASE GetCert(i) \/ GetDataKey(i) \/ GetAesKey(i) \/ GetAttestation(i)
  BY <1>2 DEF GetCert, GetDataKey, GetAesKey, GetAttestation, GetObject, Goto,
              FailedCall, Abort
<1>3. CASE KmsDecrypt(i) \/ OpenPrivateKey(i)
  BY <1>3 DEF KmsDecrypt, OpenPrivateKey, Goto, FailedCall, Abort
<1>4. CASE HeadTlogEntry(i) \/ LookupTlog(i)
  BY <1>4 DEF HeadTlogEntry, LookupTlog, Goto, Serve, FailedCall, Abort
<1>5. CASE RestoreTlogEntry(i)
  BY <1>5 DEF RestoreTlogEntry, Serve
<1>6. CASE Generate(i) \/ GenDataKey(i)
  BY <1>6 DEF Generate, GenDataKey, Goto, FailedCall, Abort
<1>7. CASE PutAesKey(i) \/ PutDataKey(i) \/ PutCert(i)
  BY <1>7 DEF PutAesKey, PutDataKey, PutCert, PutObject, Goto, FailedCall, Abort
<1>8. CASE PutAttestation(i)
  BY <1>8 DEF PutAttestation, PutObject, Goto, FailedCall, Abort
<1>9. CASE RecordTlog(i)
  BY <1>9 DEF RecordTlog, Goto, FailedCall, Abort
<1>10. CASE PutTlogEntry(i)
  BY <1>10 DEF PutTlogEntry, Serve, FailedCall, Abort
<1> QED
  BY <1>1, <1>2, <1>3, <1>4, <1>5, <1>6, <1>7, <1>8, <1>9, <1>10
     DEF Load, GenerateAndStore

\* Until bootstraps overlap every step of the ceremony is one of the abstract steps
\* that agree on a root, or a stuttering step.
LEMMA StepAgrees ==
  ASSUME TypeInv, OneRoot, OneRoot', [Next]_vars
  PROVE  \/ \E g \in Gens : Abstract!Establish(g)
         \/ \E i \in Instances : Abstract!Serve(i) \/ Abstract!Halt(i)
         \/ UNCHANGED <<AbstractRoot, AbstractLive>>
<1> USE DEF AbstractRoot, AbstractLive
<1>1. (Complete <=> Attested) /\ (Complete' <=> Attested')
  BY CompleteIsAttested
     DEF OneRoot, WholeOnceAttested, Complete, Attested, Required
<1>2. CASE UNCHANGED vars
  BY <1>2 DEF vars, RootOf, Serving, Complete
<1>3. ASSUME NEW i \in Instances,
             Start(i) \/ Load(i) \/ GenerateAndStore(i) \/ Stop(i) \/ Crash(i)
      PROVE  \/ \E g \in Gens : Abstract!Establish(g)
             \/ Abstract!Serve(i) \/ Abstract!Halt(i)
             \/ UNCHANGED <<AbstractRoot, AbstractLive>>
  <2> DEFINE shape == /\ \A k \in Instances \ {i} : pc'[k] = pc[k] /\ held'[k] = held[k]
                      /\ pc[i] = "serving" => pc'[i] # "serving"
                      /\ pc'[i] = "serving" => held' = held
  <2>1. shape
    BY <1>3, StepShape DEF TypeInv
  <2>2. \A k \in Instances \ {i} : RootOf(k)' = RootOf(k)
    BY <2>1 DEF RootOf, Serving
  <2>3. CASE s3'["attestation"] # s3["attestation"]
    <3>1. /\ pc[i] = "putAttestation"
          /\ pc'[i] # "serving"
          /\ s3' = [s3 EXCEPT !["attestation"] = held[i]["cert"]]
      BY <1>3, <2>3, StepShape DEF TypeInv
    <3>2. ~Attested /\ held[i]["cert"] \in Gens /\ s3["cert"] = held[i]["cert"]
      BY <3>1 DEF OneRoot, WriterInv, TypeInv, GeneratorInv, Writing
    <3>3. Attested' /\ s3'["cert"] = held[i]["cert"]
      BY <3>1, <3>2, NoneAssumption
         DEF Attested, TypeInv, TypeOK, Objects, Required
    <3>4. RootOf(i)' = RootOf(i)
      BY <3>1 DEF RootOf, Serving
    <3>5. AbstractLive' = AbstractLive
      BY <2>2, <3>4
    <3>6. AbstractRoot = None /\ AbstractRoot' = held[i]["cert"]
      BY <1>1, <3>2, <3>3
    <3> QED
      BY <3>2, <3>5, <3>6 DEF Abstract!Establish
  <2>4. CASE s3'["attestation"] = s3["attestation"]
    <3>1. AbstractRoot' = AbstractRoot
      <4>1. Complete => ~Generating
        BY <1>1 DEF OneRoot, WriterInv, Generating
      <4> QED
        BY <1>1, <2>4, <4>1, StepKeepsRoot DEF Attested, Required, TypeInv
    <3>2. CASE pc'[i] = "serving"
      <4>1. pc[i] # "serving" /\ Attested' /\ held'[i]["cert"] = s3'["cert"]
        BY <2>1, <3>2 DEF OneRoot, HolderInv, Established, Required
      <4>2. RootOf(i) = None /\ RootOf(i)' = AbstractRoot'
        BY <1>1, <3>2, <4>1 DEF RootOf, Serving
      <4>3. AbstractRoot # None
        BY <1>1, <2>4, <4>1 DEF Attested, Complete, Required
      <4>4. AbstractLive' = [AbstractLive EXCEPT ![i] = AbstractRoot]
        BY <2>2, <3>1, <4>2
      <4> QED
        BY <3>1, <4>2, <4>3, <4>4 DEF Abstract!Serve
    <3>3. CASE pc[i] = "serving"
      <4>1. RootOf(i)' = None
        BY <2>1, <3>3 DEF RootOf, Serving
      <4>2. RootOf(i) # None
        BY <3>3 DEF RootOf, Serving, OneRoot, HolderInv, Established,
                    WholeOnceAttested, Attested, Required
      <4>3. AbstractLive' = [AbstractLive EXCEPT ![i] = None]
        BY <2>2, <4>1
      <4> QED
        BY <3>1, <4>2, <4>3 DEF Abstract!Halt
    <3>4. CASE pc'[i] # "serving" /\ pc[i] # "serving"
      <4>1. RootOf(i)' = RootOf(i)
        BY <3>4 DEF RootOf, Serving
      <4> QED
        BY <2>2, <3>1, <4>1
    <3> QED
      BY <3>2, <3>3, <3>4
  <2> QED
    BY <2>3, <2>4
<1> QED
  BY <1>2, <1>3 DEF Next

\* And ever after a step leaves every instance that serves the root it has.
LEMMA StepDisagrees ==
  ASSUME TypeOK, TypeOK', [Next]_vars
  PROVE  /\ AbstractRoot' \in Gens \cup {None}
         /\ AbstractLive' \in [Instances -> Gens \cup {None}]
         /\ \A k \in Instances :
              AbstractLive[k] # None => AbstractLive'[k] \in {AbstractLive[k], None}
<1>1. AbstractRoot' \in Gens \cup {None}
  BY DEF AbstractRoot, TypeOK, Objects, Required
<1>2. \A k \in Instances : RootOf(k)' \in Gens \cup {None}
  BY DEF RootOf, TypeOK, Required
<1>3. ASSUME NEW k \in Instances, RootOf(k) # None PROVE RootOf(k)' \in {RootOf(k), None}
  <2>1. pc[k] = "serving"
    BY <1>3 DEF RootOf, Serving
  <2>2. CASE UNCHANGED vars
    BY <2>2 DEF vars, RootOf, Serving
  <2>3. ASSUME NEW i \in Instances,
               Start(i) \/ Load(i) \/ GenerateAndStore(i) \/ Stop(i) \/ Crash(i)
        PROVE  RootOf(k)' \in {RootOf(k), None}
    <3>1. CASE k = i
      BY <2>1, <2>3, <3>1, StepShape DEF RootOf, Serving
    <3>2. CASE k # i
      BY <2>3, <3>2, StepShape DEF RootOf, Serving
    <3> QED
      BY <3>1, <3>2
  <2> QED
    BY <2>2, <2>3 DEF Next
<1> QED
  BY <1>1, <1>2, <1>3 DEF AbstractLive

\* Every step of the ceremony is an abstract step or a stuttering step.
LEMMA StepRefines ==
  ASSUME CeremonyInv, CeremonyInv', [Next]_vars
  PROVE  [Abstract!Next]_(Abstract!rvars)
<1>1. CASE overlap'
  <2>1. Abstract!Disagree
    BY <1>1, StepDisagrees
       DEF Abstract!Disagree, AbstractRoot, AbstractLive, CeremonyInv, TypeInv
  <2> QED
    BY <2>1 DEF Abstract!Next
<1>2. CASE ~overlap'
  <2>1. ~overlap
    BY <1>2, OverlapStays DEF CeremonyInv, TypeInv
  <2>2. TypeInv /\ OneRoot /\ OneRoot'
    BY <1>2, <2>1 DEF CeremonyInv
  <2>3. overlap' = overlap
    BY <1>2, <2>1 DEF CeremonyInv, TypeInv, TypeOK
  <2>4. \/ \E g \in Gens : Abstract!Establish(g)
        \/ \E i \in Instances : Abstract!Serve(i) \/ Abstract!Halt(i)
        \/ UNCHANGED <<AbstractRoot, AbstractLive>>
    BY <2>2, StepAgrees
  <2> QED
    BY <2>1, <2>3, <2>4
       DEF Abstract!Next, Abstract!Agree, Abstract!rvars, AbstractRoot, AbstractLive
<1> QED
  BY <1>1, <1>2

\* The ceremony implements RootOfTrust: there is one root, established once, and
\* every instance that ever serves, serves it, until two instances bootstrap at
\* once; from then on each keeps the root that it serves.
THEOREM CeremonyRefinesRootOfTrust == Spec => RefinesRootOfTrust
<1>1. Init => Abstract!Init
  BY DEF Init, Abstract!Init, Complete, RootOf, Serving, Required, Objects
<1>2. CeremonyInv /\ CeremonyInv' /\ [Next]_vars => [Abstract!Next]_(Abstract!rvars)
  BY StepRefines
<1> QED
  BY <1>1, <1>2, CeremonyInvCorrect, PTL DEF Spec, RefinesRootOfTrust, Abstract!Spec
=============================================================================
