----------------------------- MODULE PolicyCache ----------------------------
(***************************************************************************)
(* The cache of policy files (java/com/google/tca/adapters/                *)
(* CachedFileFetcher.java over S3FileFetcher.java).  A Caffeine cache with *)
(* one entry per client: the first thread that finds no live entry fetches *)
(* the file from S3, those that come meanwhile wait, and the result, a     *)
(* missing file included, is good for CACHE_DURATION from the moment it    *)
(* arrived.  A fetch that fails stores nothing.                            *)
(***************************************************************************)
EXTENDS Naturals

CONSTANTS
  Threads,   \* request threads
  Clients,   \* client ids
  Files,     \* contents of policy files
  Absent,    \* a missing file, Optional.empty
  Failed,    \* FileLoadException
  None,      \* no entry, no load, no time
  Ttl,       \* CACHE_DURATION
  LoadTime,  \* bound on the duration of one S3 fetch, retries included
  MaxTime    \* bound on the clock

ASSUME CacheAssumption ==
  /\ {Ttl, LoadTime, MaxTime} \subseteq Nat
  /\ None \notin Nat
  /\ {Absent, None, Failed} \cap Files = {}
  /\ Absent # None /\ Absent # Failed /\ Failed # None

Contents == Files \cup {Absent}
Time     == 0 .. MaxTime

VARIABLES
  now,     \* instantSource
  file,    \* file[c]: c's object in the policy bucket: external
  ceased,  \* ceased[c][f]: when f last ceased to be c's object, None if never
  cache,   \* cache[c]: c's entry, or None
  load,    \* load[c]: the fetch of c's file in progress, or None
  asked,   \* asked[t]: the client t calls fetchFile for and since when, or None
  answer   \* answer[t]: what fetchFile last gave t

bucket == <<file, ceased>>
vars == <<now, bucket, cache, load, asked, answer>>

Entries == [file : Contents, written : Time]
Loads   == [thread : Threads, start : Time, response : Contents \cup {None}]

TypeOK ==
  /\ now \in Time
  /\ file \in [Clients -> Contents]
  /\ ceased \in [Clients -> [Contents -> Time \cup {None}]]
  /\ cache \in [Clients -> Entries \cup {None}]
  /\ load \in [Clients -> Loads \cup {None}]
  /\ asked \in [Threads -> [client : Clients, at : Time] \cup {None}]
  /\ answer \in [Threads -> Contents \cup {Failed, None}]

Init ==
  /\ now = 0
  /\ file \in [Clients -> Contents]
  /\ ceased = [c \in Clients |-> [f \in Contents |-> None]]
  /\ cache = [c \in Clients |-> None]
  /\ load = [c \in Clients |-> None]
  /\ asked = [t \in Threads |-> None]
  /\ answer = [t \in Threads |-> None]

-----------------------------------------------------------------------------
(* The bucket and the clock                                                *)

\* The operator replaces, creates or deletes c's file.
PutFile(c) ==
  /\ \E f \in Contents \ {file[c]} : file' = [file EXCEPT ![c] = f]
  /\ ceased' = [ceased EXCEPT ![c][file[c]] = now]
  /\ UNCHANGED <<now, cache, load, asked, answer>>

\* A fetch in progress ends, one way or the other, within LoadTime.
Tick ==
  /\ now < MaxTime
  /\ \A c \in Clients : load[c] # None => now < load[c].start + LoadTime
  /\ now' = now + 1
  /\ UNCHANGED <<bucket, cache, load, asked, answer>>

-----------------------------------------------------------------------------
(* fetchFile                                                               *)

Call(t, c) ==
  /\ asked[t] = None
  /\ asked' = [asked EXCEPT ![t] = [client |-> c, at |-> now]]
  /\ answer' = [answer EXCEPT ![t] = None]
  /\ UNCHANGED <<now, bucket, cache, load>>

Return(t, f) ==
  /\ asked' = [asked EXCEPT ![t] = None]
  /\ answer' = [answer EXCEPT ![t] = f]

\* Mutant: entries are kept for good.
LiveForever(c) == cache[c] # None

\* expireAfterWrite(CACHE_DURATION)
Live(c) == cache[c] # None /\ now < cache[c].written + Ttl

\* cache.get finds a live entry, at once or after the load it waited for.
Hit(t) ==
  /\ asked[t] # None
  /\ Live(asked[t].client)
  /\ Return(t, cache[asked[t].client].file)
  /\ UNCHANGED <<now, bucket, cache, load>>

\* cache.get finds none and calls loadFromDelegateOrThrow; one thread per client.
BeginLoad(t) ==
  /\ asked[t] # None
  /\ LET c == asked[t].client
     IN /\ ~Live(c)
        /\ load[c] = None
        /\ load' = [load EXCEPT ![c] = [thread |-> t, start |-> now, response |-> None]]
  /\ UNCHANGED <<now, bucket, cache, asked, answer>>

\* S3 answers with the object it holds at that moment, or NoSuchKey.
Respond(c) ==
  /\ load[c] # None
  /\ load[c].response = None
  /\ load' = [load EXCEPT ![c] =
                [thread |-> @.thread, start |-> @.start, response |-> file[c]]]
  /\ UNCHANGED <<now, bucket, cache, asked, answer>>

\* The file arrives: it is stored and returned.
FinishLoad(t) ==
  /\ asked[t] # None
  /\ LET c == asked[t].client
     IN /\ load[c] # None
        /\ load[c].thread = t
        /\ load[c].response # None
        /\ cache' = [cache EXCEPT ![c] = [file |-> load[c].response, written |-> now]]
        /\ load' = [load EXCEPT ![c] = None]
        /\ Return(t, load[c].response)
  /\ UNCHANGED <<now, bucket>>

\* Mutant: a failed fetch leaves its mark, and nobody fetches the file again.
FailLoadKeepsLock(t) ==
  /\ asked[t] # None
  /\ LET c == asked[t].client
     IN /\ load[c] # None
        /\ load[c].thread = t
  /\ Return(t, Failed)
  /\ UNCHANGED <<now, bucket, cache, load>>

\* The fetch throws FileLoadException, which nothing caches: a thread that
\* waited for it fetches in its turn.
FailLoad(t) ==
  /\ asked[t] # None
  /\ LET c == asked[t].client
     IN /\ load[c] # None
        /\ load[c].thread = t
        /\ load' = [load EXCEPT ![c] = None]
  /\ Return(t, Failed)
  /\ UNCHANGED <<now, bucket, cache>>

-----------------------------------------------------------------------------
FetchFile(t) == Hit(t) \/ BeginLoad(t) \/ FinishLoad(t) \/ FailLoad(t)

Next ==
  \/ Tick
  \/ \E c \in Clients : PutFile(c) \/ Respond(c)
  \/ \E t \in Threads : (\E c \in Clients : Call(t, c)) \/ FetchFile(t)

Spec == Init /\ [][Next]_vars

\* A thread in fetchFile goes on, and an S3 fetch ends: the SDK gives up on its
\* own when no answer comes.
Fairness == \A t \in Threads : WF_vars(FetchFile(t))

FairSpec == Spec /\ Fairness

-----------------------------------------------------------------------------
(* Properties                                                              *)

Abstract == INSTANCE PolicyStore WITH Window <- Ttl + LoadTime

\* fetchFile answers with a content that the file has, or had no longer than
\* CACHE_DURATION and the duration of one fetch before the call: a policy that
\* was withdrawn, and one that was granted, takes effect within that time,
\* whichever threads load and read the entry.
RefinesPolicyStore == Abstract!StoreSpec

\* The lock on a client's entry is always released, also by a fetch that fails,
\* so that the threads waiting for it get their turn.
EveryLoadEnds == \A c \in Clients : load[c] # None ~> load[c] = None

-----------------------------------------------------------------------------
(* The invariant behind the refinement                                     *)

\* f was c's file at some time that is not before s.
CurrentSince(c, f, s) ==
  f = file[c] \/ (ceased[c][f] # None /\ ceased[c][f] >= s)

\* A cached file was in the bucket when its fetch began, or later.
EntryInv(c) ==
  cache[c] # None =>
    /\ cache[c].written <= now
    /\ \E s \in Time : /\ s <= cache[c].written
                       /\ cache[c].written <= s + LoadTime
                       /\ CurrentSince(c, cache[c].file, s)

\* A fetch in progress is made within LoadTime, for want of a live entry, by a
\* thread that waits; its answer was in the bucket when it began, or later.
LoadInv(c) ==
  load[c] # None =>
    /\ ~Live(c)
    /\ load[c].start <= now
    /\ now <= load[c].start + LoadTime
    /\ asked[load[c].thread] # None
    /\ asked[load[c].thread].client = c
    /\ load[c].response # None => CurrentSince(c, load[c].response, load[c].start)

AskedInv == \A t \in Threads : asked[t] # None => asked[t].at <= now

StalenessInv ==
  /\ TypeOK
  /\ \A c \in Clients : EntryInv(c) /\ LoadInv(c)
  /\ AskedInv
=============================================================================
