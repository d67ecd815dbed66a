-------------------------- MODULE PolicyCacheProofs -------------------------
(***************************************************************************)
(* Proofs about PolicyCache, for any sets of threads, clients and contents *)
(* and any cache duration: the cache implements PolicyStore.               *)
(***************************************************************************)
EXTENDS PolicyCache, TLAPS

(***************************************************************************)
(* Type correctness                                                        *)
(***************************************************************************)

\* Initially every variable has its type and nothing is cached or fetched.
LEMMA InitStaleness == Init => StalenessInv
<1> SUFFICES ASSUME Init PROVE StalenessInv
  OBVIOUS
<1>1. TypeOK
  BY CacheAssumption DEF Init, TypeOK, Time
<1>2. AskedInv /\ \A c \in Clients : EntryInv(c) /\ LoadInv(c)
  BY DEF Init, EntryInv, LoadInv, AskedInv
<1> QED
  BY <1>1, <1>2 DEF StalenessInv

\* Every step keeps every variable in its type.
LEMMA NextTypeOK == TypeOK /\ [Next]_vars => TypeOK'
<1> SUFFICES ASSUME TypeOK, [Next]_vars PROVE TypeOK'
  OBVIOUS
<1> USE DEF TypeOK
<1>1. ASSUME NEW c \in Clients, PutFile(c) PROVE TypeOK'
  <2>1. file' \in [Clients -> Contents]
    BY <1>1 DEF PutFile
  <2>2. ceased' \in [Clients -> [Contents -> Time \cup {None}]]
    BY <1>1 DEF PutFile
  <2> QED
    BY <1>1, <2>1, <2>2 DEF PutFile
<1>2. CASE Tick
  BY <1>2, CacheAssumption DEF Tick, Time, bucket
<1>3. ASSUME NEW t \in Threads, NEW c \in Clients, Call(t, c) PROVE TypeOK'
  BY <1>3 DEF Call, bucket
<1>4. ASSUME NEW t \in Threads, Hit(t) PROVE TypeOK'
  BY <1>4 DEF Hit, Live, Return, bucket, Entries
<1>5. ASSUME NEW t \in Threads, BeginLoad(t) PROVE TypeOK'
  BY <1>5 DEF BeginLoad, bucket, Loads
<1>6. ASSUME NEW c \in Clients, Respond(c) PROVE TypeOK'
  BY <1>6 DEF Respond, bucket, Loads
<1>7. ASSUME NEW t \in Threads, FinishLoad(t) PROVE TypeOK'
  <2> DEFINE c == asked[t].client
  <2>1. c \in Clients /\ load[c] \in Loads /\ load[c].response \in Contents
    BY <1>7 DEF FinishLoad, Loads
  <2> QED
    BY <1>7, <2>1 DEF FinishLoad, Return, bucket, Entries
<1>8. ASSUME NEW t \in Threads, FailLoad(t) PROVE TypeOK'
  BY <1>8 DEF FailLoad, Return, bucket
<1>9. CASE UNCHANGED vars
  BY <1>9 DEF vars, bucket
<1> QED
  BY <1>1, <1>2, <1>3, <1>4, <1>5, <1>6, <1>7, <1>8, <1>9 DEF Next, FetchFile

(***************************************************************************)
(* How old an answer can be                                                *)
(***************************************************************************)

\* A content that was in the bucket at s or later still was, whatever the
\* operator puts there next.
LEMMA CurrentStays ==
  ASSUME TypeOK, NEW c \in Clients, NEW f \in Contents, NEW s \in Time, s <= now,
         CurrentSince(c, f, s),
         (\E d \in Clients : PutFile(d)) \/ UNCHANGED bucket
  PROVE  CurrentSince(c, f, s)'
<1>1. CASE UNCHANGED bucket
  BY <1>1 DEF bucket, CurrentSince
<1>2. ASSUME NEW d \in Clients, PutFile(d), d # c PROVE CurrentSince(c, f, s)'
  <2>1. file'[c] = file[c] /\ ceased'[c] = ceased[c]
    BY <1>2 DEF PutFile, TypeOK
  <2> QED
    BY <2>1 DEF CurrentSince
<1>3. CASE PutFile(c)
  <2>1. ceased'[c] = [ceased[c] EXCEPT ![file[c]] = now]
    BY <1>3 DEF PutFile, TypeOK
  <2>2. CASE f = file[c]
    <3>1. ceased'[c][f] = now
      BY <2>1, <2>2 DEF TypeOK
    <3> QED
      BY <3>1, CacheAssumption DEF CurrentSince, TypeOK, Time
  <2>3. CASE f # file[c]
    <3>1. ceased'[c][f] = ceased[c][f]
      BY <2>1, <2>3 DEF TypeOK
    <3> QED
      BY <2>3, <3>1 DEF CurrentSince
  <2> QED
    BY <2>2, <2>3
<1> QED
  BY <1>1, <1>2, <1>3

\* The bucket changes by PutFile only.
LEMMA BucketSteps ==
  ASSUME [Next]_vars
  PROVE  (\E d \in Clients : PutFile(d)) \/ UNCHANGED bucket
  BY DEF Next, FetchFile, Tick, Call, Hit, BeginLoad, Respond, FinishLoad, FailLoad,
         vars, bucket

\* The clock moves by Tick only.
LEMMA ClockSteps ==
  ASSUME [Next]_vars
  PROVE  Tick \/ UNCHANGED now
  BY DEF Next, FetchFile, PutFile, Call, Hit, BeginLoad, Respond, FinishLoad, FailLoad,
         vars

\* The clock does not go back.
LEMMA ClockAdvances ==
  ASSUME TypeOK, [Next]_vars
  PROVE  now \in Nat /\ now' \in Nat /\ now <= now'
  BY ClockSteps, CacheAssumption DEF Tick, TypeOK, Time

\* A load is begun, answered, or ended: what each step does to load[c].
LEMMA LoadSteps ==
  ASSUME TypeOK, [Next]_vars, NEW c \in Clients, load'[c] # load[c], load'[c] # None
  PROVE  \/ /\ Respond(c)
            /\ load[c] # None
            /\ load'[c] = [thread |-> load[c].thread, start |-> load[c].start,
                           response |-> file[c]]
         \/ \E t \in Threads :
              /\ BeginLoad(t)
              /\ asked[t] # None /\ asked[t].client = c
              /\ load'[c] = [thread |-> t, start |-> now, response |-> None]
<1>1. CASE \E d \in Clients : Respond(d)
  BY <1>1 DEF Respond, TypeOK
<1>2. CASE \E t \in Threads : BeginLoad(t)
  BY <1>2 DEF BeginLoad, TypeOK
<1>3. ASSUME NEW t \in Threads, FinishLoad(t) \/ FailLoad(t) PROVE FALSE
  BY <1>3 DEF FinishLoad, FailLoad, TypeOK
<1>4. Tick \/ (\E d \in Clients : PutFile(d)) \/ UNCHANGED vars => FALSE
  BY DEF Tick, PutFile, vars
<1>5. ASSUME NEW t \in Threads, (\E d \in Clients : Call(t, d)) \/ Hit(t) PROVE FALSE
  BY <1>5 DEF Call, Hit
<1> QED
  BY <1>1, <1>2, <1>3, <1>4, <1>5 DEF Next, FetchFile

\* An entry is written by FinishLoad only.
LEMMA CacheSteps ==
  ASSUME TypeOK, [Next]_vars, NEW c \in Clients, cache'[c] # cache[c]
  PROVE  \E t \in Threads :
           /\ FinishLoad(t)
           /\ load[c] # None /\ load[c].response # None
           /\ cache'[c] = [file |-> load[c].response, written |-> now]
<1>1. ASSUME NEW t \in Threads, FinishLoad(t)
      PROVE  /\ load[c] # None /\ load[c].response # None
             /\ cache'[c] = [file |-> load[c].response, written |-> now]
  BY <1>1 DEF FinishLoad, TypeOK
<1>2. Tick \/ (\E d \in Clients : PutFile(d) \/ Respond(d)) \/ UNCHANGED vars => FALSE
  BY DEF Tick, PutFile, Respond, vars
<1>3. ASSUME NEW t \in Threads,
             (\E d \in Clients : Call(t, d)) \/ Hit(t) \/ BeginLoad(t) \/ FailLoad(t)
      PROVE  FALSE
  BY <1>3 DEF Call, Hit, BeginLoad, FailLoad
<1> QED
  BY <1>1, <1>2, <1>3 DEF Next, FetchFile

\* A question is put by Call only, and withdrawn by its answer only.
LEMMA AskedSteps ==
  ASSUME TypeOK, [Next]_vars, NEW t \in Threads, asked'[t] # asked[t]
  PROVE  (\E d \in Clients : Call(t, d)) \/ Hit(t) \/ FinishLoad(t) \/ FailLoad(t)
<1>1. Tick \/ (\E d \in Clients : PutFile(d) \/ Respond(d)) \/ UNCHANGED vars => FALSE
  BY DEF Tick, PutFile, Respond, vars
<1>2. ASSUME NEW u \in Threads, BeginLoad(u) PROVE FALSE
  BY <1>2 DEF BeginLoad
<1>3. ASSUME NEW u \in Threads,
             (\E d \in Clients : Call(u, d)) \/ Hit(u) \/ FinishLoad(u) \/ FailLoad(u)
      PROVE  u = t
  BY <1>3 DEF Call, Hit, FinishLoad, FailLoad, Return, TypeOK
<1> QED
  BY <1>1, <1>2, <1>3 DEF Next, FetchFile

\* A cached content stays as recent as it was.
LEMMA NextEntryInv ==
  ASSUME StalenessInv, [Next]_vars, NEW c \in Clients
  PROVE  EntryInv(c)'
<1> SUFFICES ASSUME cache'[c] # None PROVE EntryInv(c)'
  BY DEF EntryInv
<1>0. TypeOK /\ EntryInv(c) /\ LoadInv(c)
  BY DEF StalenessInv
<1>1. CASE cache'[c] = cache[c]
  <2>1. PICK s \in Time : /\ s <= cache[c].written
                          /\ cache[c].written <= s + LoadTime
                          /\ CurrentSince(c, cache[c].file, s)
    BY <1>0, <1>1 DEF EntryInv
  <2>2. cache[c].file \in Contents /\ cache[c].written \in Nat /\ cache[c].written <= now
    BY <1>0, <1>1 DEF TypeOK, Entries, Time, EntryInv
  <2>3. s <= now /\ cache[c].written <= now'
    BY <2>1, <2>2, <1>0, ClockAdvances DEF Time
  <2>4. \A f \in Contents : CurrentSince(c, f, s) => CurrentSince(c, f, s)'
    BY <1>0, <2>3, CurrentStays, BucketSteps
  <2>5. CurrentSince(c, cache[c].file, s)'
    BY <1>1, <2>1, <2>2, <2>4 DEF CurrentSince
  <2> QED
    BY <1>1, <2>1, <2>3, <2>5 DEF EntryInv, CurrentSince
<1>2. CASE cache'[c] # cache[c]
  <2>1. PICK t \in Threads :
           /\ FinishLoad(t)
           /\ load[c] # None /\ load[c].response # None
           /\ cache'[c] = [file |-> load[c].response, written |-> now]
    BY <1>0, <1>2, CacheSteps
  <2>2. UNCHANGED <<now, file, ceased>>
    BY <2>1 DEF FinishLoad, bucket
  <2>3. /\ load[c].start \in Time /\ load[c].start <= now /\ now <= load[c].start + LoadTime
        /\ CurrentSince(c, load[c].response, load[c].start) /\ now \in Nat
    BY <1>0, <2>1 DEF LoadInv, TypeOK, Loads, Time
  <2>4. PICK s \in Time : s = load[c].start
    BY <2>3
  <2>5. CurrentSince(c, cache[c].file, s)'
    BY <2>1, <2>2, <2>3, <2>4 DEF CurrentSince
  <2> QED
    BY <2>1, <2>2, <2>3, <2>4, <2>5 DEF EntryInv, CurrentSince
<1> QED
  BY <1>1, <1>2

\* So does the answer to a fetch in progress.
LEMMA NextLoadInv ==
  ASSUME StalenessInv, [Next]_vars, NEW c \in Clients
  PROVE  LoadInv(c)'
<1> SUFFICES ASSUME load'[c] # None PROVE LoadInv(c)'
  BY DEF LoadInv
<1>0. TypeOK /\ LoadInv(c) /\ AskedInv
  BY DEF StalenessInv
<1>1. CASE load'[c] = load[c]
  <2> DEFINE u == load[c].thread
  <2>1. /\ load[c] \in Loads /\ load[c].start <= now /\ now <= load[c].start + LoadTime
        /\ asked[u] # None /\ asked[u].client = c /\ u \in Threads /\ ~Live(c)
    BY <1>0, <1>1 DEF LoadInv, TypeOK, Loads
  <2>2. load[c].start <= now' /\ now' <= load[c].start + LoadTime
    <3>1. now \in Nat /\ load[c].start \in Nat /\ LoadTime \in Nat
      BY <1>0, <2>1, CacheAssumption DEF TypeOK, Loads, Time
    <3>2. CASE Tick
      BY <1>1, <2>1, <3>1, <3>2 DEF Tick
    <3>3. CASE UNCHANGED now
      BY <2>1, <3>3
    <3> QED
      BY <3>2, <3>3, ClockSteps
  <2>3. asked'[u] = asked[u]
    <3> SUFFICES ASSUME asked'[u] # asked[u] PROVE FALSE
      OBVIOUS
    <3>1. (\E d \in Clients : Call(u, d)) \/ Hit(u) \/ FinishLoad(u) \/ FailLoad(u)
      BY <1>0, <2>1, AskedSteps
    <3>2. FinishLoad(u) \/ FailLoad(u) => load'[c] = None
      BY <1>0, <2>1 DEF FinishLoad, FailLoad, TypeOK
    <3>3. Hit(u) => FALSE
      BY <2>1 DEF Hit
    <3> QED
      BY <3>1, <3>2, <3>3, <2>1 DEF Call
  <2>4. ASSUME load[c].response # None
        PROVE  CurrentSince(c, load[c].response, load[c].start)'
    <3>1. load[c].start \in Time /\ load[c].response \in Contents
      BY <2>1, <2>4 DEF Loads
    <3>2. CurrentSince(c, load[c].response, load[c].start)
      BY <1>0, <1>1, <2>4 DEF LoadInv
    <3>3. \A f \in Contents, s \in Time :
            s <= now /\ CurrentSince(c, f, s) => CurrentSince(c, f, s)'
      BY <1>0, CurrentStays, BucketSteps
    <3> QED
      BY <1>1, <2>1, <3>1, <3>2, <3>3 DEF CurrentSince
  <2>5. ~Live(c)'
    <3>1. cache'[c] = cache[c]
      <4> SUFFICES ASSUME cache'[c] # cache[c] PROVE FALSE
        OBVIOUS
      <4>1. PICK t \in Threads : FinishLoad(t) /\ cache'[c] # cache[c]
        BY <1>0, CacheSteps
      <4>2. load'[c] = None
        BY <1>0, <4>1 DEF FinishLoad, TypeOK
      <4> QED
        BY <4>2
    <3>2. cache[c] # None => cache[c].written \in Nat
      BY <1>0 DEF TypeOK, Entries, Time
    <3> QED
      BY <1>0, <2>1, <3>1, <3>2, ClockAdvances, CacheAssumption DEF Live
  <2> QED
    BY <1>1, <2>1, <2>2, <2>3, <2>4, <2>5 DEF LoadInv, CurrentSince
<1>2. CASE load'[c] # load[c]
  <2>1. CASE /\ Respond(c) /\ load[c] # None
             /\ load'[c] = [thread |-> load[c].thread, start |-> load[c].start,
                            response |-> file[c]]
    <3>1. UNCHANGED <<now, file, ceased, asked, cache>>
      BY <2>1 DEF Respond, bucket
    <3>2. CurrentSince(c, load[c].response, load[c].start)'
      BY <2>1, <3>1 DEF CurrentSince
    <3>3. ~Live(c)'
      BY <1>0, <2>1, <3>1 DEF LoadInv, Live
    <3> QED
      BY <1>0, <2>1, <3>1, <3>2, <3>3 DEF LoadInv, CurrentSince
  <2>2. ASSUME NEW t \in Threads, BeginLoad(t), asked[t] # None, asked[t].client = c,
               load'[c] = [thread |-> t, start |-> now, response |-> None]
        PROVE  LoadInv(c)'
    <3>1. ~Live(c) /\ UNCHANGED <<now, cache, asked>>
      BY <2>2 DEF BeginLoad
    <3>2. ~Live(c)'
      BY <3>1 DEF Live
    <3> QED
      BY <1>0, <2>2, <3>1, <3>2, CacheAssumption DEF LoadInv, TypeOK, Time
  <2> QED
    BY <1>0, <1>2, <2>1, <2>2, LoadSteps
<1> QED
  BY <1>1, <1>2

\* No call was made in the future.
LEMMA NextAskedInv == StalenessInv /\ [Next]_vars => AskedInv'
<1> SUFFICES ASSUME StalenessInv, [Next]_vars, NEW t \in Threads, asked'[t] # None
             PROVE  asked'[t].at <= now'
  BY DEF AskedInv
<1>0. TypeOK /\ AskedInv
  BY DEF StalenessInv
<1>1. CASE asked'[t] = asked[t]
  BY <1>0, <1>1, ClockAdvances DEF AskedInv, TypeOK, Time
<1>2. CASE asked'[t] # asked[t]
  <2>1. ASSUME NEW c \in Clients, Call(t, c) PROVE asked'[t].at <= now'
    BY <1>0, <2>1 DEF Call, TypeOK, Time
  <2>2. Hit(t) \/ FinishLoad(t) \/ FailLoad(t) => asked'[t] = None
    BY <1>0 DEF Hit, FinishLoad, FailLoad, Return, TypeOK
  <2> QED
    BY <1>0, <1>2, <2>1, <2>2, AskedSteps
<1> QED
  BY <1>1, <1>2

\* How old a cached content, and the answer to a fetch in progress, can be, is
\* invariant.
THEOREM Staleness == Spec => []StalenessInv
<1>1. StalenessInv /\ [Next]_vars => StalenessInv'
  <2> SUFFICES ASSUME StalenessInv, [Next]_vars PROVE StalenessInv'
    OBVIOUS
  <2>1. TypeOK' /\ AskedInv'
    BY NextTypeOK, NextAskedInv DEF StalenessInv
  <2>2. \A c \in Clients : EntryInv(c)' /\ LoadInv(c)'
    BY NextEntryInv, NextLoadInv
  <2> QED
    BY <2>1, <2>2 DEF StalenessInv
<1> QED
  BY <1>1, InitStaleness, PTL DEF Spec

(***************************************************************************)
(* The refinement                                                          *)
(***************************************************************************)

\* A live entry holds a recent content.
LEMMA HitIsRecent ==
  ASSUME StalenessInv, NEW t \in Threads, asked[t] # None, Live(asked[t].client)
  PROVE  cache[asked[t].client].file \in Abstract!Recent(asked[t].client, asked[t].at)
<1> DEFINE c == asked[t].client
<1>1. /\ c \in Clients /\ asked[t].at \in Nat /\ asked[t].at <= now /\ now \in Nat
      /\ cache[c] \in Entries /\ cache[c] # None
  BY DEF StalenessInv, TypeOK, AskedInv, Time, Live
<1>2. PICK s \in Time : /\ s <= cache[c].written
                        /\ cache[c].written <= s + LoadTime
                        /\ CurrentSince(c, cache[c].file, s)
  BY <1>1 DEF StalenessInv, EntryInv
<1>3. asked[t].at <= s + (Ttl + LoadTime)
  BY <1>1, <1>2, CacheAssumption DEF Live, Entries, Time
<1>4. cache[c].file \in Contents /\ ceased[c][cache[c].file] \in Time \cup {None}
  BY <1>1 DEF Entries, StalenessInv, TypeOK
<1> QED
  BY <1>1, <1>2, <1>3, <1>4, CacheAssumption
     DEF Abstract!Recent, Abstract!Contents, Contents, CurrentSince, Time

\* What a fetch brings is recent.
LEMMA LoadIsRecent ==
  ASSUME StalenessInv, NEW t \in Threads, FinishLoad(t)
  PROVE  load[asked[t].client].response \in
           Abstract!Recent(asked[t].client, asked[t].at)
<1> DEFINE c == asked[t].client
<1> DEFINE f == load[c].response
<1> DEFINE s == load[c].start
<1>1. /\ c \in Clients /\ asked[t].at \in Nat /\ asked[t].at <= now /\ now \in Nat
      /\ load[c] \in Loads /\ load[c] # None /\ f # None
  BY DEF StalenessInv, TypeOK, AskedInv, Time, FinishLoad
<1>2. now <= s + LoadTime /\ CurrentSince(c, f, s) /\ s \in Nat /\ f \in Contents
  BY <1>1 DEF StalenessInv, LoadInv, Loads, Time
<1>3. ceased[c][f] \in Time \cup {None}
  BY <1>1, <1>2 DEF StalenessInv, TypeOK
<1> QED
  BY <1>1, <1>2, <1>3, CacheAssumption
     DEF Abstract!Recent, Abstract!Contents, Contents, CurrentSince, Time

\* CachedFileFetcher keeps the promise of PolicyStore: an answer is at most
\* CACHE_DURATION and one fetch older than the call.
THEOREM CacheImplementsStore == Spec => RefinesPolicyStore
<1> USE DEF Abstract!bucket, bucket
<1>1. Init => Abstract!StoreInit
  BY DEF Init, Abstract!StoreInit, Abstract!Contents, Contents
<1>2. ASSUME StalenessInv, [Next]_vars
      PROVE  [Abstract!StoreNext]_(Abstract!storeVars)
  <2>1. ASSUME NEW c \in Clients, PutFile(c) PROVE Abstract!PutFile(c)
    BY <2>1 DEF PutFile, Abstract!PutFile, Abstract!Contents, Contents
  <2>2. CASE Tick
    BY <2>2 DEF Tick, Abstract!Tick, Abstract!StoreNext
  <2>3. ASSUME NEW t \in Threads, NEW c \in Clients, Call(t, c) PROVE Abstract!Ask(t, c)
    BY <2>3 DEF Call, Abstract!Ask
  <2>4. ASSUME NEW t \in Threads, Hit(t) PROVE Abstract!Reply(t)
    BY <1>2, <2>4, HitIsRecent DEF Hit, Return, Abstract!Reply
  <2>5. ASSUME NEW t \in Threads, FinishLoad(t) PROVE Abstract!Reply(t)
    BY <1>2, <2>5, LoadIsRecent DEF FinishLoad, Return, Abstract!Reply
  <2>6. ASSUME NEW t \in Threads, FailLoad(t) PROVE Abstract!Reply(t)
    BY <2>6 DEF FailLoad, Return, Abstract!Reply
  <2>7. ASSUME (\E c \in Clients : Respond(c)) \/ (\E t \in Threads : BeginLoad(t))
        PROVE  UNCHANGED Abstract!storeVars
    BY <2>7 DEF Respond, BeginLoad, Abstract!storeVars
  <2>8. CASE UNCHANGED vars
    BY <2>8 DEF vars, Abstract!storeVars
  <2> QED
    BY <1>2, <2>1, <2>2, <2>3, <2>4, <2>5, <2>6, <2>7, <2>8
       DEF Next, FetchFile, Abstract!StoreNext
<1> QED
  BY <1>1, <1>2, Staleness, PTL DEF Spec, RefinesPolicyStore, Abstract!StoreSpec
=============================================================================
