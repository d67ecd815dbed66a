---------------------------- MODULE RootCeremony ----------------------------
(***************************************************************************)
(* The root key ceremony of the trusted CA: how an enclave obtains the     *)
(* root certificate and its private key when it starts                     *)
(* (mbs/java/com/google/mbs/KmsMeasurementBoundCertificateProvider.java).  *)
(*                                                                         *)
(* The root lives in five S3 objects.  An instance first tries to load     *)
(* them; if any of the four it needs is missing it generates a new root    *)
(* and stores the objects one after the other.  Nothing makes the stores   *)
(* atomic: an instance may crash, or a call may fail, between any two, and *)
(* a call that fails may have taken effect.                                *)
(*                                                                         *)
(* The data is abstracted to where it comes from.  A generation stands for *)
(* one run of generateAndStoreCertificate: its key pair, the certificate   *)
(* and attestation bound to that key, its KMS data key, and its log entry. *)
(* A ciphertext written by a generation opens with that generation's data  *)
(* key and no other, which is what AES-GCM provides.                       *)
(***************************************************************************)
EXTENDS Naturals, FiniteSets

CONSTANTS
  Instances,     \* enclaves that share the buckets of one account and region
  Gens,          \* generations: the fresh roots that can still be made
  None,          \* no generation: a missing object, an empty field
  MaxFaults      \* bound on crashes and failed calls, all instances together

ASSUME NoneAssumption == None \notin Gens
ASSUME MaxFaultsAssumption == MaxFaults \in Nat

\* The S3 objects a root consists of: those a load insists on, and the log entry.
Required == {"aesKey", "dataKey", "cert", "attestation"}
Objects  == Required \cup {"tlogEntry"}

\* Where an instance is in the ceremony: the call it makes next.
LoadSteps ==
  {"getCert", "getDataKey", "kmsDecrypt", "getAesKey", "getAttestation",
   "open", "headTlogEntry", "lookupTlog", "restoreTlogEntry"}
GenerateSteps ==
  {"generate", "genDataKey", "putAesKey", "putDataKey", "putCert",
   "putAttestation", "recordTlog", "putTlogEntry"}
Steps == {"down", "serving"} \cup LoadSteps \cup GenerateSteps

\* The metric a run of the ceremony last recorded (MbsEvent).
Events == {"none", "SUCCESS", "KMS_OPERATION_FAILED", "S3_FETCH_FAILED",
           "S3_WRITE_FAILED"}

VARIABLES
  pc,       \* pc[i]: the step instance i is at
  held,     \* held[i][o]: the generation of the copy of object o that i holds
  event,    \* event[i]: the metric i last recorded
  s3,       \* s3[o]: the generation of the stored object o, or None
  tlog,     \* the generations whose certificate the transparency log holds
  made,     \* the generations made so far
  faults,   \* crashes and failed calls so far
  overlap   \* history: an instance started beside another before a root was complete

vars == <<pc, held, event, s3, tlog, made, faults, overlap>>

Empty == [o \in Required |-> None]

TypeOK ==
  /\ pc \in [Instances -> Steps]
  /\ held \in [Instances -> [Required -> Gens \cup {None}]]
  /\ event \in [Instances -> Events]
  /\ s3 \in [Objects -> Gens \cup {None}]
  /\ tlog \in SUBSET Gens
  /\ made \in SUBSET Gens
  /\ faults \in 0 .. MaxFaults
  /\ overlap \in BOOLEAN

Init ==
  /\ pc = [i \in Instances |-> "down"]
  /\ held = [i \in Instances |-> Empty]
  /\ event = [i \in Instances |-> "none"]
  /\ s3 = [o \in Objects |-> None]
  /\ tlog = {}
  /\ made = {}
  /\ faults = 0
  /\ overlap = FALSE

-----------------------------------------------------------------------------
(* Steps and failures                                                      *)

Goto(i, from, to) ==
  /\ pc[i] = from
  /\ pc' = [pc EXCEPT ![i] = to]

\* One crash or failed call of the bounded number the model allows.
Fault ==
  /\ faults < MaxFaults
  /\ faults' = faults + 1

\* The ceremony throws: the server does not start and the process ends.  The
\* supplier memoizes no exception, so the next start runs the ceremony again.
Abort(i, e) ==
  /\ pc' = [pc EXCEPT ![i] = "down"]
  /\ held' = [held EXCEPT ![i] = Empty]
  /\ event' = [event EXCEPT ![i] = e]

\* A call made at step from throws: e is recorded, or nothing when the exception
\* is not of the type that is caught (an I/O error while the body is read, say).
FailedCall(i, from, e) ==
  /\ pc[i] = from
  /\ Fault
  /\ \E recorded \in {e, "none"} : Abort(i, recorded)

-----------------------------------------------------------------------------
(* Loading the stored root                                                 *)

\* All the objects a load insists on are stored.
Complete == \A o \in Required : s3[o] # None

\* loadOrGenerateCertificate runs once per process, under the supplier's lock.
\* Nothing in the code keeps instances apart; overlap remembers that two were in
\* the ceremony at once before a complete root was stored.
Start(i) ==
  /\ Goto(i, "down", "getCert")
  /\ event' = [event EXCEPT ![i] = "none"]
  /\ overlap' = (overlap \/ (~Complete /\ \E j \in Instances : pc[j] # "down"))
  /\ UNCHANGED <<held, s3, tlog, made, faults>>

\* Mutant: any failing read, not only a missing object, starts a generation.
GetObjectGeneratesOnError(i, o, from, to) ==
  \/ /\ s3[o] # None
     /\ Goto(i, from, to)
     /\ held' = [held EXCEPT ![i][o] = s3[o]]
     /\ UNCHANGED <<event, s3, tlog, made, faults, overlap>>
  \/ /\ s3[o] = None
     /\ Goto(i, from, "generate")
     /\ UNCHANGED <<held, event, s3, tlog, made, faults, overlap>>
  \/ /\ Fault
     /\ Goto(i, from, "generate")
     /\ UNCHANGED <<held, event, s3, tlog, made, overlap>>

\* s3Client.getObject(o): the stored bytes, NoSuchKeyException (which turns the
\* load into a generation), or any other SdkException.
GetObject(i, o, from, to) ==
  \/ /\ s3[o] # None
     /\ Goto(i, from, to)
     /\ held' = [held EXCEPT ![i][o] = s3[o]]
     /\ UNCHANGED <<event, s3, tlog, made, faults, overlap>>
  \/ /\ s3[o] = None
     /\ Goto(i, from, "generate")
     /\ UNCHANGED <<held, event, s3, tlog, made, faults, overlap>>
  \/ /\ FailedCall(i, from, "S3_FETCH_FAILED")
     /\ UNCHANGED <<s3, tlog, made, overlap>>

\* Mutant: a missing attestation fails the load instead of generating.
GetAttestationMustExist(i) ==
  \/ s3["attestation"] # None /\ GetObject(i, "attestation", "getAttestation", "open")
  \/ /\ s3["attestation"] = None
     /\ pc[i] = "getAttestation"
     /\ Abort(i, "S3_FETCH_FAILED")
     /\ UNCHANGED <<s3, tlog, made, faults, overlap>>

GetCert(i)        == GetObject(i, "cert", "getCert", "getDataKey")
GetDataKey(i)     == GetObject(i, "dataKey", "getDataKey", "kmsDecrypt")
GetAesKey(i)      == GetObject(i, "aesKey", "getAesKey", "getAttestation")
GetAttestation(i) == GetObject(i, "attestation", "getAttestation", "open")

\* kmsClient.decrypt of the data key: every ciphertext this KMS key made opens.
KmsDecrypt(i) ==
  \/ /\ Goto(i, "kmsDecrypt", "getAesKey")
     /\ UNCHANGED <<held, event, s3, tlog, made, faults, overlap>>
  \/ /\ FailedCall(i, "kmsDecrypt", "KMS_OPERATION_FAILED")
     /\ UNCHANGED <<s3, tlog, made, overlap>>

\* The private key is opened with the data key; a ciphertext of another
\* generation throws GeneralSecurityException, for which no metric is recorded.
\* Nothing compares the private key with the certificate.
OpenPrivateKey(i) ==
  /\ pc[i] = "open"
  /\ IF held[i]["aesKey"] = held[i]["dataKey"]
     THEN Goto(i, "open", "headTlogEntry") /\ UNCHANGED <<held, event>>
     ELSE Abort(i, "none")
  /\ UNCHANGED <<s3, tlog, made, faults, overlap>>

\* The root is in the instance's memory and the server answers requests with it.
Serve(i) ==
  /\ pc' = [pc EXCEPT ![i] = "serving"]
  /\ event' = [event EXCEPT ![i] = "SUCCESS"]
  /\ UNCHANGED held

\* reconcileTlogArtifacts: s3ObjectExists(tlogEntry).  An SdkException other
\* than NoSuchKeyException is not caught here and fails the load.
HeadTlogEntry(i) ==
  \/ /\ pc[i] = "headTlogEntry"
     /\ s3["tlogEntry"] # None
     /\ Serve(i)
     /\ UNCHANGED <<s3, tlog, made, faults, overlap>>
  \/ /\ s3["tlogEntry"] = None
     /\ Goto(i, "headTlogEntry", "lookupTlog")
     /\ UNCHANGED <<held, event, s3, tlog, made, faults, overlap>>
  \/ /\ FailedCall(i, "headTlogEntry", "S3_FETCH_FAILED")
     /\ UNCHANGED <<s3, tlog, made, overlap>>

\* getTlogEntryByCertificate: found, absent (a warning), or an exception that is
\* logged and swallowed.
LookupTlog(i) ==
  \/ /\ held[i]["cert"] \in tlog
     /\ Goto(i, "lookupTlog", "restoreTlogEntry")
     /\ UNCHANGED <<held, event, s3, tlog, made, faults, overlap>>
  \/ /\ pc[i] = "lookupTlog"
     /\ held[i]["cert"] \notin tlog
     /\ Serve(i)
     /\ UNCHANGED <<s3, tlog, made, faults, overlap>>
  \/ /\ pc[i] = "lookupTlog"
     /\ Fault
     /\ Serve(i)
     /\ UNCHANGED <<s3, tlog, made, overlap>>

\* The entry found is stored; a failing put is logged and swallowed, and may
\* have been applied.
RestoreTlogEntry(i) ==
  /\ pc[i] = "restoreTlogEntry"
  /\ \/ /\ s3' = [s3 EXCEPT !["tlogEntry"] = held[i]["cert"]]
        /\ UNCHANGED faults
     \/ /\ s3' \in {s3, [s3 EXCEPT !["tlogEntry"] = held[i]["cert"]]}
        /\ Fault
  /\ Serve(i)
  /\ UNCHANGED <<tlog, made, overlap>>

-----------------------------------------------------------------------------
(* Generating and storing a new root                                       *)

\* A generation that has not been made; they differ in nothing but their names.
Fresh == CHOOSE g \in Gens : g \notin made

\* certificateFactory.generate and attestationCollector.collectBoundToPubkey: a
\* fresh key pair and the token bound to it, or an exception without a metric.
Generate(i) ==
  \/ /\ Gens \ made # {}
     /\ Goto(i, "generate", "genDataKey")
     /\ held' = [held EXCEPT ![i] = [o \in Required |-> Fresh]]
     /\ made' = made \cup {Fresh}
     /\ UNCHANGED <<event, s3, tlog, faults, overlap>>
  \/ /\ FailedCall(i, "generate", "none")
     /\ UNCHANGED <<s3, tlog, made, overlap>>

\* kmsClient.generateDataKey, then the private key is encrypted with it.
GenDataKey(i) ==
  \/ /\ Goto(i, "genDataKey", "putAesKey")
     /\ UNCHANGED <<held, event, s3, tlog, made, faults, overlap>>
  \/ /\ FailedCall(i, "genDataKey", "KMS_OPERATION_FAILED")
     /\ UNCHANGED <<s3, tlog, made, overlap>>

\* Mutant: a failing put is logged and the ceremony goes on.
PutObjectSwallowsError(i, o, from, to) ==
  LET stored == [s3 EXCEPT ![o] = held[i]["cert"]]
  IN \/ /\ Goto(i, from, to)
        /\ s3' = stored
        /\ UNCHANGED <<held, event, tlog, made, faults, overlap>>
     \/ /\ Goto(i, from, to)
        /\ Fault
        /\ s3' \in {s3, stored}
        /\ UNCHANGED <<held, event, tlog, made, overlap>>

\* s3Client.putObject of one object of the instance's generation.  A put that
\* throws may still have been applied by S3.
PutObject(i, o, from, to) ==
  LET stored == [s3 EXCEPT ![o] = held[i]["cert"]]
  IN \/ /\ Goto(i, from, to)
        /\ s3' = stored
        /\ UNCHANGED <<held, event, tlog, made, faults, overlap>>
     \/ /\ FailedCall(i, from, "S3_WRITE_FAILED")
        /\ s3' \in {s3, stored}
        /\ UNCHANGED <<tlog, made, overlap>>

PutAesKey(i)      == PutObject(i, "aesKey", "putAesKey", "putDataKey")
PutDataKey(i)     == PutObject(i, "dataKey", "putDataKey", "putCert")
PutCert(i)        == PutObject(i, "cert", "putCert", "putAttestation")
PutAttestation(i) == PutObject(i, "attestation", "putAttestation", "recordTlog")

\* Mutant: a failure to record the root does not end the ceremony.
RecordTlogSwallowsError(i) ==
  LET recorded == tlog \cup {held[i]["cert"]}
  IN \/ /\ Goto(i, "recordTlog", "putTlogEntry")
        /\ tlog' = recorded
        /\ UNCHANGED <<held, event, s3, made, faults, overlap>>
     \/ /\ Goto(i, "recordTlog", "putTlogEntry")
        /\ Fault
        /\ tlog' \in {tlog, recorded}
        /\ UNCHANGED <<held, event, s3, made, overlap>>

\* tlogClient.recordCertificate.  Any exception aborts the ceremony without a
\* metric; the entry may have reached the log all the same.
RecordTlog(i) ==
  LET recorded == tlog \cup {held[i]["cert"]}
  IN \/ /\ Goto(i, "recordTlog", "putTlogEntry")
        /\ tlog' = recorded
        /\ UNCHANGED <<held, event, s3, made, faults, overlap>>
     \/ /\ FailedCall(i, "recordTlog", "none")
        /\ tlog' \in {tlog, recorded}
        /\ UNCHANGED <<s3, made, overlap>>

\* The log entry is stored, and the new root is returned to the server.
PutTlogEntry(i) ==
  LET stored == [s3 EXCEPT !["tlogEntry"] = held[i]["cert"]]
  IN \/ /\ pc[i] = "putTlogEntry"
        /\ s3' = stored
        /\ Serve(i)
        /\ UNCHANGED <<tlog, made, faults, overlap>>
     \/ /\ FailedCall(i, "putTlogEntry", "S3_WRITE_FAILED")
        /\ s3' \in {s3, stored}
        /\ UNCHANGED <<tlog, made, overlap>>

-----------------------------------------------------------------------------
\* The server is stopped in an orderly way: its root is gone from memory.
Stop(i) ==
  /\ pc[i] = "serving"
  /\ Abort(i, "none")
  /\ UNCHANGED <<s3, tlog, made, faults, overlap>>

\* The enclave is killed at any point, whether it serves or not.
Crash(i) ==
  /\ pc[i] # "down"
  /\ Fault
  /\ Abort(i, "none")
  /\ UNCHANGED <<s3, tlog, made, overlap>>

\* The steps the code takes by itself, failing calls included.
Load(i) ==
  \/ GetCert(i) \/ GetDataKey(i) \/ KmsDecrypt(i) \/ GetAesKey(i)
  \/ GetAttestation(i) \/ OpenPrivateKey(i)
  \/ HeadTlogEntry(i) \/ LookupTlog(i) \/ RestoreTlogEntry(i)

GenerateAndStore(i) ==
  \/ Generate(i) \/ GenDataKey(i)
  \/ PutAesKey(i) \/ PutDataKey(i) \/ PutCert(i) \/ PutAttestation(i)
  \/ RecordTlog(i) \/ PutTlogEntry(i)

Next ==
  \E i \in Instances :
    Start(i) \/ Load(i) \/ GenerateAndStore(i) \/ Stop(i) \/ Crash(i)

Spec == Init /\ [][Next]_vars

\* A process that runs keeps running until it serves or ends, and systemd starts
\* the enclave again when it has ended.
Fairness == \A i \in Instances : WF_vars(Start(i) \/ Load(i) \/ GenerateAndStore(i))

FairSpec == Spec /\ Fairness

-----------------------------------------------------------------------------
(* Properties                                                              *)
(*                                                                         *)
(* Two instances that bootstrap at once may mix their objects: each of the *)
(* properties of the one root says what holds unless that has happened.    *)

Serving(i) == pc[i] = "serving"

\* A stored root is one root: once the four objects a load needs are all
\* there, they come from one generation, whatever crashed or failed on the way,
\* unless two instances bootstrapped at once.
StoredRootIsWhole ==
  Complete /\ ~overlap => \A o \in Required : s3[o] = s3["cert"]

\* The key an instance signs with is the key of the certificate it serves, and
\* the attestation it shows is bound to that key, unless bootstraps overlapped.
ServedRootIsWhole ==
  ~overlap => \A i \in Instances : Serving(i) =>
                \A o \in Required : held[i][o] = held[i]["cert"] /\ held[i][o] # None

\* Relying parties verify against the certificate in the public bucket, so it
\* is the certificate that every serving instance signs under, unless
\* bootstraps overlapped.
ServedRootIsPublished ==
  ~overlap => \A i \in Instances : Serving(i) => s3["cert"] = held[i]["cert"]

\* A stored log entry is of the certificate stored beside it: recordCertificate
\* comes after the last put a load needs.  Unless bootstraps overlapped.
TlogEntryIsOfRoot ==
  s3["tlogEntry"] # None /\ ~overlap => Complete /\ s3["tlogEntry"] = s3["cert"]

\* The bucket never shows a log entry that the log does not hold, not even when
\* instances bootstrap at the same time.
TlogEntryIsLogged ==
  s3["tlogEntry"] # None => s3["tlogEntry"] \in tlog

\* A crash never leaves the buckets in a state from which the ceremony cannot
\* succeed: when crashes and failures cease, some instance serves, and serves
\* again after every stop, unless bootstraps overlapped.
KeepsServing == []<>(overlap \/ \E i \in Instances : Serving(i))

\* The steps of a generation before the put that completes the stored root.
Writing == {"genDataKey", "putAesKey", "putDataKey", "putCert", "putAttestation"}

\* Some instance is about to make a root, or is storing one.
Generating == \E i \in Instances : pc[i] \in {"generate"} \cup Writing

\* Once a root is complete and nobody is storing another, it is never replaced,
\* not even in part, and nobody begins to make another: certificates issued
\* before a restart verify after it.  That holds after overlapping bootstraps too.
StoredRootIsFinal ==
  [][Complete /\ ~Generating => /\ \A o \in Required : s3'[o] = s3[o]
                               /\ ~Generating']_vars

-----------------------------------------------------------------------------
(* The invariant behind the properties                                     *)

\* The steps of an instance that has the established root in memory.
Established == {"recordTlog", "putTlogEntry", "headTlogEntry", "lookupTlog",
                "restoreTlogEntry", "serving"}

Attested == s3["attestation"] # None

SoleUntilAttested ==
  ~Attested => \A i, j \in Instances : pc[i] # "down" /\ pc[j] # "down" => i = j

WholeOnceAttested ==
  Attested => \A o \in Required : s3[o] = s3["attestation"]

\* A generating instance holds one new generation.
GeneratorInv(i) ==
  pc[i] \in Writing \cup {"recordTlog", "putTlogEntry"} =>
    held[i]["cert"] \in Gens /\ \A o \in Required : held[i][o] = held[i]["cert"]

\* What makes TypeOK inductive: only certificates reach the log.
TypeInv == TypeOK /\ \A i \in Instances : GeneratorInv(i)

\* What a generating instance has stored so far.
WriterInv(i) ==
  /\ pc[i] \in {"generate"} \cup Writing => ~Attested
  /\ pc[i] \in {"putDataKey", "putCert", "putAttestation"} =>
       s3["aesKey"] = held[i]["cert"]
  /\ pc[i] \in {"putCert", "putAttestation"} => s3["dataKey"] = held[i]["cert"]
  /\ pc[i] = "putAttestation" => s3["cert"] = held[i]["cert"]

\* What a loading instance has read is what is stored.
ReaderInv(i) ==
  /\ pc[i] \in {"getDataKey", "kmsDecrypt", "getAesKey", "getAttestation", "open"} =>
       held[i]["cert"] = s3["cert"]
  /\ pc[i] \in {"kmsDecrypt", "getAesKey", "getAttestation", "open"} =>
       held[i]["dataKey"] = s3["dataKey"]
  /\ pc[i] \in {"getAttestation", "open"} => held[i]["aesKey"] = s3["aesKey"]
  /\ pc[i] = "open" => Attested /\ held[i]["attestation"] = s3["attestation"]

HolderInv(i) ==
  pc[i] \in Established =>
    Attested /\ \A o \in Required : held[i][o] = s3[o]

EntryInv == s3["tlogEntry"] # None => Attested /\ s3["tlogEntry"] = s3["cert"]

\* One root, established by the put of the attestation: before it one instance
\* runs, after it none generates.
OneRoot ==
  /\ SoleUntilAttested
  /\ WholeOnceAttested
  /\ \A i \in Instances : WriterInv(i) /\ ReaderInv(i) /\ HolderInv(i)
  /\ EntryInv

CeremonyInv == TypeInv /\ (~overlap => OneRoot)

\* What makes TlogEntryIsLogged inductive.
LogInv ==
  /\ TypeInv
  /\ TlogEntryIsLogged
  /\ \A i \in Instances :
       pc[i] \in {"putTlogEntry", "restoreTlogEntry"} => held[i]["cert"] \in tlog

-----------------------------------------------------------------------------
\* The ceremony implements RootOfTrust: the root is established by the put that
\* completes the stored objects, and every instance that serves, serves it, until
\* bootstraps overlap; and then an instance that serves keeps the root it has.
RootOf(i) == IF Serving(i) THEN held[i]["cert"] ELSE None

Abstract == INSTANCE RootOfTrust WITH
  root <- IF Complete THEN s3["cert"] ELSE None,
  live <- [i \in Instances |-> RootOf(i)],
  disputed <- overlap

RefinesRootOfTrust == Abstract!Spec

\* The root is in the transparency log before an instance serves it.
ServedRootIsLogged ==
  \A i \in Instances : Serving(i) => held[i]["cert"] \in tlog
=============================================================================
