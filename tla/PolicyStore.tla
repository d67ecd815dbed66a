----------------------------- MODULE PolicyStore ----------------------------
(***************************************************************************)
(* What the certificate service may rely on when it asks for the policy    *)
(* file of a client (FileFetcher.fetchFile): the operator replaces files   *)
(* in the bucket at any time, and an answer is a content the file has now  *)
(* or had at most Window before the question, or a failure.  A missing     *)
(* file is a content like any other.  PolicyCache implements this.         *)
(***************************************************************************)
EXTENDS Naturals

CONSTANTS
  Threads,   \* request threads
  Clients,   \* client ids, the keys of the policy bucket
  Files,     \* contents of policy files
  Absent,    \* the content of a file that does not exist
  Failed,    \* the answer of a fetch that failed
  None,      \* no question, no answer, no time
  Window,    \* how old an answer may be
  MaxTime    \* bound on the clock

ASSUME StoreAssumption ==
  /\ Window \in Nat
  /\ MaxTime \in Nat
  /\ None \notin Nat
  /\ {Absent, None, Failed} \cap Files = {}
  /\ Absent # None /\ Absent # Failed /\ Failed # None

Contents == Files \cup {Absent}
Time     == 0 .. MaxTime

VARIABLES
  now,     \* the clock
  file,    \* file[c]: the content of c's policy file in the bucket
  ceased,  \* ceased[c][f]: when f last ceased to be c's file, None if never
  asked,   \* asked[t]: t's question, the client and the time, or None
  answer   \* answer[t]: the last answer t was given

bucket == <<file, ceased>>
storeVars == <<now, bucket, asked, answer>>

Questions == [client : Clients, at : Time]

StoreTypeOK ==
  /\ now \in Time
  /\ file \in [Clients -> Contents]
  /\ ceased \in [Clients -> [Contents -> Time \cup {None}]]
  /\ asked \in [Threads -> Questions \cup {None}]
  /\ answer \in [Threads -> Contents \cup {Failed, None}]

StoreInit ==
  /\ now = 0
  /\ file \in [Clients -> Contents]
  /\ ceased = [c \in Clients |-> [f \in Contents |-> None]]
  /\ asked = [t \in Threads |-> None]
  /\ answer = [t \in Threads |-> None]

-----------------------------------------------------------------------------
\* The operator replaces, creates or deletes c's file.
PutFile(c) ==
  /\ \E f \in Contents \ {file[c]} : file' = [file EXCEPT ![c] = f]
  /\ ceased' = [ceased EXCEPT ![c][file[c]] = now]
  /\ UNCHANGED <<now, asked, answer>>

Tick ==
  /\ now < MaxTime
  /\ now' = now + 1
  /\ UNCHANGED <<bucket, asked, answer>>

Ask(t, c) ==
  /\ asked[t] = None
  /\ asked' = [asked EXCEPT ![t] = [client |-> c, at |-> now]]
  /\ answer' = [answer EXCEPT ![t] = None]
  /\ UNCHANGED <<now, bucket>>

\* The contents c's file had at the given time less Window, or later.
Recent(c, at) ==
  {f \in Contents : f = file[c] \/ (ceased[c][f] # None /\ ceased[c][f] + Window >= at)}

Reply(t) ==
  /\ asked[t] # None
  /\ \E f \in Recent(asked[t].client, asked[t].at) \cup {Failed} :
       answer' = [answer EXCEPT ![t] = f]
  /\ asked' = [asked EXCEPT ![t] = None]
  /\ UNCHANGED <<now, bucket>>

StoreNext ==
  \/ Tick
  \/ \E c \in Clients : PutFile(c)
  \/ \E t \in Threads : (\E c \in Clients : Ask(t, c)) \/ Reply(t)

StoreSpec == StoreInit /\ [][StoreNext]_storeVars
=============================================================================
