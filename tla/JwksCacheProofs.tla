-------------------------- MODULE JwksCacheProofs ---------------------------
(***************************************************************************)
(* JwksCache: types, and how old the keys are that getKey answers from,    *)
(* for any threads, keys, durations and length of the run.                 *)
(*                                                                         *)
(* A document is the issuer's at some moment of its fetch.  JwksInv keeps, *)
(* for every document in hand and every key, that the issuer has changed   *)
(* its mind about the key no earlier than that moment; Rotate is the only  *)
(* step that can make a document wrong, and it stamps the key.             *)
(***************************************************************************)
EXTENDS JwksCache, TLAPS

\* The keys are those that the issuer served at some moment not before from: what it
\* has withdrawn or added in the meantime bears a later time.
Served(keys, from) ==
  \A k \in Kids :
    /\ k \in keys => k \in published \/ (until[k] # None /\ from <= until[k])
    /\ k \notin keys => since[k] = None \/ from <= since[k]

\* A document: it was answered at most Timeout before its time of arrival.
Sound(doc) ==
  /\ doc.fetchedAt <= now
  /\ \E from \in Time : /\ from <= doc.fetchedAt /\ doc.fetchedAt <= from + Timeout
                        /\ Served(doc.keys, from)

\* The thread of a load waits in cache.get, where it found no entry, within
\* HTTP_TIMEOUT; an answer is one that was given since the load began.
LoadInv ==
  load # None =>
    /\ pc[load.thread] \in {"get", "getAgain"}
    /\ ~Fresh
    /\ load.start <= now /\ now <= load.start + Timeout
    /\ load.response # None => Served(load.response, load.start)

\* The entry expires a max-age of the issuer's after its arrival.
CacheInv ==
  cache # None =>
    /\ Sound(cache.doc)
    /\ \E age \in MaxAges : cache.expiry = cache.doc.fetchedAt + age

\* What a thread looks a key up in had not expired when it called getKey.
HoldsUnexpired(t) ==
  /\ called[t] <= now
  /\ pc[t] \in {"lookup", "lookupAgain"} =>
       /\ data[t] \in Documents
       /\ Sound(data[t])
       /\ \E age \in MaxAges : called[t] <= data[t].fetchedAt + age

DataInv == \A t \in Threads : HoldsUnexpired(t)

\* What a thread finds after it has dropped the entry was fetched since its call.
AgainInv ==
  \A t \in Threads :
    /\ pc[t] = "getAgain" /\ cache # None => called[t] <= cache.doc.fetchedAt
    /\ pc[t] = "lookupAgain" => called[t] <= data[t].fetchedAt

\* A key that is not served is not served since any time.
IssuerInv == \A k \in Kids \ published : since[k] = None

JwksInv == TypeOK /\ IssuerInv /\ LoadInv /\ CacheInv /\ DataInv /\ AgainInv

----------------------------------------------------------------------------
(* Types                                                                    *)

\* At the start the types hold.
LEMMA InitTypes == Init => TypeOK
  BY JwksAssumption DEF Init, TypeOK, Time, Steps

\* The steps of the issuer, the clock and the network keep the types.
LEMMA WorldTypes ==
  ASSUME TypeOK, Tick \/ Respond \/ \E k \in Kids : Rotate(k)
  PROVE  TypeOK'
  <1> USE JwksAssumption DEF TypeOK, issuer
  <1>1. CASE Tick
    BY <1>1 DEF Tick, Time
  <1>2. CASE Respond
    <2>1. load \in Loads /\ load' = [load EXCEPT !.response = published]
      BY <1>2 DEF Respond
    <2>2. load' \in Loads
      BY <2>1 DEF Loads
    <2> QED
      BY <1>2, <2>2 DEF Respond
  <1>3. CASE \E k \in Kids : Rotate(k)
    BY <1>3 DEF Rotate
  <1> QED
    BY <1>1, <1>2, <1>3

\* The steps of a thread do.
LEMMA ThreadTypes ==
  ASSUME TypeOK, NEW t \in Threads, Call(t) \/ GetKey(t)
  PROVE  TypeOK'
  <1> USE JwksAssumption DEF TypeOK, Steps, After, Return, issuer
  <1>1. CASE Call(t)
    BY <1>1 DEF Call
  <1>2. CASE Hit(t)
    <2>1. cache.doc \in Documents
      BY <1>2 DEF Hit, Fresh, Entries
    <2> QED
      BY <1>2, <2>1 DEF Hit
  <1>3. CASE BeginLoad(t)
    BY <1>3 DEF BeginLoad, Loads
  <1>4. CASE FinishLoad(t)
    <2> DEFINE doc == [keys |-> load.response, fetchedAt |-> now]
    <2>1. doc \in Documents
      BY <1>4 DEF FinishLoad, Loads, Documents
    <2>2. PICK age \in MaxAges : cache' = [doc |-> doc, expiry |-> now + age]
      BY <1>4 DEF FinishLoad
    <2>3. now + age \in Nat
      BY <2>2 DEF Time
    <2>4. cache' \in Entries
      BY <2>1, <2>2, <2>3 DEF Entries
    <2>5. data' = [data EXCEPT ![t] = doc]
      BY <1>4 DEF FinishLoad
    <2> HIDE DEF doc
    <2>6. data' \in [Threads -> Documents \cup {None}]
      BY <2>1, <2>5
    <2> QED
      BY <1>4, <2>4, <2>6 DEF FinishLoad
  <1>5. CASE FailLoad(t)
    BY <1>5 DEF FailLoad
  <1>6. CASE Lookup(t)
    BY <1>6 DEF Lookup
  <1>7. CASE Invalidate(t)
    BY <1>7 DEF Invalidate
  <1>8. CASE LookupAgain(t)
    BY <1>8 DEF LookupAgain
  <1> QED
    BY <1>1, <1>2, <1>3, <1>4, <1>5, <1>6, <1>7, <1>8 DEF GetKey

\* Every step does.
LEMMA NextTypes == TypeOK /\ [Next]_vars => TypeOK'
  <1> SUFFICES ASSUME TypeOK, [Next]_vars PROVE TypeOK'
    OBVIOUS
  <1>1. CASE UNCHANGED vars
    BY <1>1 DEF vars, issuer, TypeOK
  <1>2. CASE Next
    BY <1>2, WorldTypes, ThreadTypes DEF Next
  <1> QED
    BY <1>1, <1>2

----------------------------------------------------------------------------
(* Documents stay sound                                                     *)

\* The clock does not go back.
LEMMA TimePasses ==
  ASSUME TypeOK, [Next]_vars
  PROVE  now \in Nat /\ now' \in Nat /\ now <= now'
  <1> USE DEF TypeOK, Time
  <1>1. CASE Tick
    BY <1>1 DEF Tick
  <1>2. CASE UNCHANGED now
    BY <1>2
  <1> QED
    BY <1>1, <1>2 DEF Next, vars, Respond, Rotate, Call, GetKey, Hit, BeginLoad, FinishLoad,
                      FailLoad, Lookup, Invalidate, LookupAgain

\* A key that is rotated bears the time of its rotation.
LEMMA ServedStays ==
  ASSUME TypeOK, [Next]_vars, NEW keys, NEW from \in Time, from <= now, Served(keys, from)
  PROVE  Served(keys, from)'
  <1> USE DEF TypeOK, Time, Served
  <1>1. CASE \E k \in Kids : Rotate(k)
    BY <1>1, JwksAssumption DEF Rotate
  <1>2. CASE UNCHANGED issuer
    BY <1>2 DEF issuer
  <1> QED
    BY <1>1, <1>2 DEF Next, vars, Tick, Respond, Call, GetKey, Hit, BeginLoad, FinishLoad,
                      FailLoad, Lookup, Invalidate, LookupAgain

\* Hence a document stays sound.
LEMMA SoundStays ==
  ASSUME TypeOK, [Next]_vars, NEW doc \in Documents, Sound(doc)
  PROVE  Sound(doc)'
  <1>1. PICK from \in Time : /\ from <= doc.fetchedAt /\ doc.fetchedAt <= from + Timeout
                             /\ Served(doc.keys, from)
    BY DEF Sound
  <1>2. doc.fetchedAt \in Nat /\ doc.fetchedAt <= now /\ from \in Nat
    BY DEF Documents, Sound, Time
  <1>3. from <= now /\ doc.fetchedAt <= now'
    BY <1>1, <1>2, TimePasses
  <1>4. Served(doc.keys, from)'
    BY <1>1, <1>3, ServedStays
  <1> QED
    BY <1>1, <1>3, <1>4 DEF Sound

\* What a load brings is sound.
LEMMA LoadIsSound ==
  ASSUME JwksInv, load # None, load.response # None
  PROVE  LET doc == [keys |-> load.response, fetchedAt |-> now]
         IN doc \in Documents /\ Sound(doc)
  <1>1. load.start \in Time /\ load.response \in SUBSET Kids /\ now \in Time
    BY DEF JwksInv, TypeOK, Loads
  <1>2. load.start <= now /\ now <= load.start + Timeout /\ Served(load.response, load.start)
    BY DEF JwksInv, LoadInv
  <1> QED
    BY <1>1, <1>2 DEF Sound, Documents, Time

----------------------------------------------------------------------------
(* Steps                                                                    *)

\* Nothing is loaded, cached or looked up at the start.
LEMMA InitJwks == Init => JwksInv
  <1> SUFFICES ASSUME Init PROVE JwksInv
    OBVIOUS
  <1>1. TypeOK
    BY InitTypes
  <1>2. LoadInv /\ CacheInv
    BY DEF Init, LoadInv, CacheInv
  <1>3. DataInv /\ AgainInv
    BY DEF Init, DataInv, HoldsUnexpired, AgainInv
  <1>4. IssuerInv
    BY DEF Init, IssuerInv
  <1> QED
    BY <1>1, <1>2, <1>3, <1>4 DEF JwksInv

\* An entry that a step leaves alone.
LEMMA EntryStays ==
  ASSUME JwksInv, [Next]_vars, UNCHANGED cache
  PROVE  CacheInv'
  <1> USE DEF JwksInv
  <1> SUFFICES ASSUME cache # None
               PROVE  Sound(cache.doc)'
    BY DEF CacheInv
  <1>1. cache.doc \in Documents /\ Sound(cache.doc)
    BY DEF CacheInv, TypeOK, Entries
  <1> QED
    BY <1>1, SoundStays

\* A thread that a step leaves alone, or that gives up what it holds.
LEMMA HoldStays ==
  ASSUME JwksInv, [Next]_vars, NEW t \in Threads, UNCHANGED called[t],
         \/ pc'[t] = pc[t] /\ data'[t] = data[t]
         \/ pc'[t] \notin {"lookup", "lookupAgain"}
  PROVE  HoldsUnexpired(t)'
  <1> USE DEF JwksInv, DataInv, HoldsUnexpired
  <1>1. called[t] \in Nat /\ called[t] <= now
    BY DEF TypeOK, Time
  <1>2. called'[t] <= now'
    BY <1>1, TimePasses
  <1>3. ASSUME pc'[t] \in {"lookup", "lookupAgain"}, NEW doc \in Documents, doc = data[t]
        PROVE  Sound(data[t])'
    <2>1. Sound(doc)'
      BY <1>3, SoundStays
    <2> QED
      BY <1>3, <2>1 DEF Sound, Served
  <1> QED
    BY <1>2, <1>3

\* A load that a step leaves alone.
LEMMA LoadStays ==
  ASSUME JwksInv, [Next]_vars, load' \in {load, None}, UNCHANGED <<now, cache>>,
         load' # None => UNCHANGED pc[load.thread]
  PROVE  LoadInv'
  <1> USE DEF JwksInv, LoadInv
  <1> SUFFICES ASSUME load # None, load' = load
               PROVE  load.response # None => Served(load.response, load.start)'
    BY DEF Fresh
  <1>1. load.start \in Time
    BY DEF TypeOK, Loads
  <1> QED
    BY <1>1, ServedStays

----------------------------------------------------------------------------
\* The clock, the issuer, and its answer.
LEMMA WorldKeeps ==
  ASSUME JwksInv, TypeOK', Next, Tick \/ Respond \/ \E k \in Kids : Rotate(k)
  PROVE  JwksInv'
  <1> USE DEF JwksInv
  <1>0. UNCHANGED <<cache, pc, data, called>>
    BY DEF Tick, Respond, Rotate
  <1>1. CacheInv'
    BY <1>0, EntryStays
  <1>2. DataInv'
    BY <1>0, HoldStays DEF DataInv
  <1>3. AgainInv'
    BY <1>0 DEF AgainInv
  <1>4. LoadInv'
    <2>1. CASE Tick
      <3> SUFFICES ASSUME load # None PROVE LoadInv'
        BY <2>1 DEF Tick, LoadInv
      <3>1. load' = load /\ now' = now + 1 /\ now < load.start + Timeout /\ UNCHANGED issuer
        BY <2>1 DEF Tick
      <3>2. load.start \in Nat /\ now \in Nat /\ Timeout \in Nat
        BY JwksAssumption DEF TypeOK, Loads, Time
      <3>3. load.start <= now' /\ now' <= load.start + Timeout
        BY <3>1, <3>2 DEF LoadInv
      <3>4. ~Fresh'
        BY <1>0, <3>1, <3>2 DEF LoadInv, Fresh, TypeOK, Entries
      <3> QED
        BY <1>0, <3>1, <3>3, <3>4 DEF LoadInv, Served, issuer
    <2>2. CASE Respond
      <3>1. /\ load' = [load EXCEPT !.response = published]
            /\ load # None /\ load \in Loads /\ UNCHANGED <<now, issuer>>
        BY <2>2 DEF Respond, TypeOK
      <3>2. load'.thread = load.thread /\ load'.start = load.start /\ load'.response = published
        BY <3>1 DEF Loads
      <3>3. Served(published, load.start)'
        BY <3>1 DEF Served, issuer, IssuerInv
      <3> QED
        BY <1>0, <3>1, <3>2, <3>3 DEF LoadInv, Fresh, Served, issuer
    <2>3. CASE \E k \in Kids : Rotate(k)
      BY <1>0, <2>3, LoadStays DEF Rotate
    <2> QED
      BY <2>1, <2>2, <2>3
  <1>5. IssuerInv'
    BY DEF IssuerInv, Tick, Respond, Rotate, issuer, TypeOK
  <1> QED
    BY <1>1, <1>2, <1>3, <1>4, <1>5

\* The steps of a thread: what the others hold, and what they may find, stay.
LEMMA OthersKeep ==
  ASSUME JwksInv, Next, NEW t \in Threads, Call(t) \/ GetKey(t), NEW u \in Threads \ {t}
  PROVE  /\ UNCHANGED <<pc[u], data[u], called[u]>>
         /\ HoldsUnexpired(u)'
  <1>1. UNCHANGED <<pc[u], data[u], called[u]>>
    BY DEF JwksInv, TypeOK, Call, GetKey, Hit, BeginLoad, FinishLoad, FailLoad, Lookup,
           Invalidate, LookupAgain, Return
  <1> QED
    BY <1>1, HoldStays

\* Call.
LEMMA CallKeeps ==
  ASSUME JwksInv, TypeOK', Next, NEW t \in Threads, Call(t)
  PROVE  JwksInv'
  <1> USE DEF JwksInv, Call, issuer
  <1>0. /\ UNCHANGED <<now, issuer, cache, load>>
        /\ pc'[t] = "get" /\ called'[t] = now /\ pc[t] = "idle"
    BY DEF TypeOK
  <1>1. CacheInv' /\ IssuerInv'
    BY <1>0, EntryStays DEF IssuerInv
  <1>2. LoadInv'
    <2>1. load # None => load.thread \in Threads \ {t}
      BY <1>0 DEF LoadInv, TypeOK, Loads
    <2> QED
      BY <1>0, <2>1, OthersKeep, LoadStays
  <1>3. HoldsUnexpired(t)'
    BY <1>0 DEF HoldsUnexpired, TypeOK, Time
  <1>4. DataInv'
    BY <1>3, OthersKeep DEF DataInv
  <1>5. AgainInv'
    BY <1>0, OthersKeep DEF AgainInv
  <1> QED
    BY <1>1, <1>2, <1>4, <1>5

\* getKey, up to the answer: Hit, BeginLoad.
LEMMA GetKeeps ==
  ASSUME JwksInv, TypeOK', Next, NEW t \in Threads, Hit(t) \/ BeginLoad(t)
  PROVE  JwksInv'
  <1> USE DEF JwksInv, issuer
  <1>0. UNCHANGED <<now, issuer, cache, called>> /\ (Call(t) \/ GetKey(t))
    BY DEF Hit, BeginLoad, GetKey
  <1>1. CacheInv' /\ IssuerInv'
    BY <1>0, EntryStays DEF IssuerInv
  <1>2. CASE Hit(t)
    <2>1. /\ Fresh /\ data'[t] = cache.doc /\ pc'[t] = After(pc[t]) /\ load' = load
          /\ pc[t] \in {"get", "getAgain"}
      BY <1>2 DEF Hit, TypeOK
    <2>2. cache.doc \in Documents /\ Sound(cache.doc)
      BY <2>1 DEF Fresh, CacheInv, TypeOK, Entries
    <2>3. Sound(data[t])'
      <3> DEFINE doc == cache.doc
      <3>1. Sound(doc)'
        BY <1>0, <2>2 DEF Sound, Served
      <3> QED
        BY <1>0, <2>1, <3>1 DEF Sound, Served
    <2>4. \E age \in MaxAges : called[t] <= cache.doc.fetchedAt + age
      <3>1. PICK age \in MaxAges : cache.expiry = cache.doc.fetchedAt + age
        BY <2>1 DEF Fresh, CacheInv
      <3>2. now < cache.expiry /\ called[t] <= now
        BY <2>1 DEF Fresh, DataInv, HoldsUnexpired
      <3>3. now \in Nat /\ called[t] \in Nat /\ cache.expiry \in Nat
        BY <2>1 DEF Fresh, TypeOK, Time, Entries
      <3> QED
        BY <3>1, <3>2, <3>3
    <2>5. HoldsUnexpired(t)'
      BY <1>0, <2>1, <2>2, <2>3, <2>4 DEF HoldsUnexpired, DataInv
    <2>6. DataInv'
      BY <1>0, <2>5, OthersKeep DEF DataInv
    <2>7. AgainInv'
      <3>1. pc'[t] = "lookupAgain" => called'[t] <= data'[t].fetchedAt
        BY <1>0, <2>1 DEF AgainInv, Fresh, After
      <3>2. pc'[t] # "getAgain"
        BY <2>1 DEF After
      <3> QED
        BY <1>0, <3>1, <3>2, OthersKeep DEF AgainInv
    <2>8. load = None
      BY <2>1 DEF LoadInv
    <2>9. LoadInv'
      BY <2>1, <2>8 DEF LoadInv
    <2> QED
      BY <1>1, <2>6, <2>7, <2>9
  <1>3. CASE BeginLoad(t)
    <2>1. /\ UNCHANGED <<pc, data>> /\ ~Fresh /\ pc[t] \in {"get", "getAgain"}
          /\ load' = [thread |-> t, start |-> now, response |-> None]
      BY <1>3 DEF BeginLoad
    <2>2. LoadInv'
      BY <1>0, <2>1, JwksAssumption DEF LoadInv, Fresh, TypeOK, Time
    <2>3. DataInv' /\ AgainInv'
      BY <1>0, <2>1, HoldStays DEF DataInv, AgainInv
    <2> QED
      BY <1>1, <2>2, <2>3
  <1> QED
    BY <1>2, <1>3

\* A load ends: FinishLoad, FailLoad.
LEMMA LoadEndKeeps ==
  ASSUME JwksInv, TypeOK', Next, NEW t \in Threads, FinishLoad(t) \/ FailLoad(t)
  PROVE  JwksInv'
  <1> USE DEF JwksInv, issuer
  <1>0. UNCHANGED <<now, issuer, called>> /\ (Call(t) \/ GetKey(t)) /\ load' = None
    BY DEF FinishLoad, FailLoad, GetKey
  <1>1. LoadInv' /\ IssuerInv'
    BY <1>0 DEF LoadInv, IssuerInv
  <1>2. CASE FinishLoad(t)
    <2>1. load # None /\ load.response # None
      BY <1>2 DEF FinishLoad
    <2>2. PICK doc \in Documents :
            doc = [keys |-> load.response, fetchedAt |-> now] /\ Sound(doc)
      BY <2>1, LoadIsSound
    <2>3. PICK age \in MaxAges : cache' = [doc |-> doc, expiry |-> now + age]
      BY <1>2, <2>2 DEF FinishLoad
    <2>4. data'[t] = doc /\ pc'[t] = After(pc[t]) /\ doc.fetchedAt = now
      BY <1>2, <2>2 DEF FinishLoad, TypeOK
    <2>5. Sound(doc)'
      BY <2>2, SoundStays
    <2>6. cache'.doc = doc /\ cache'.expiry = now + age
      BY <2>3
    <2>7. CacheInv'
      BY <2>4, <2>5, <2>6 DEF CacheInv, Sound, Served
    <2>8. ASSUME NEW u \in Threads
          PROVE  called[u] \in Nat /\ called[u] <= now /\ now \in Nat /\ age \in Nat
      BY JwksAssumption DEF DataInv, HoldsUnexpired, TypeOK, Time
    <2>9. HoldsUnexpired(t)'
      <3>1. called'[t] <= now' /\ called'[t] <= data'[t].fetchedAt + age
        BY <1>0, <2>4, <2>8
      <3>2. Sound(data[t])'
        BY <2>4, <2>5 DEF Sound, Served
      <3> QED
        BY <2>4, <3>1, <3>2 DEF HoldsUnexpired
    <2>10. DataInv'
      BY <1>0, <2>9, OthersKeep DEF DataInv
    <2>11. AgainInv'
      <3>1. ASSUME NEW u \in Threads PROVE called'[u] <= cache'.doc.fetchedAt
        BY <1>0, <2>4, <2>6, <2>8
      <3>2. called'[t] <= data'[t].fetchedAt
        BY <1>0, <2>4, <2>8
      <3> QED
        BY <1>0, <3>1, <3>2, OthersKeep DEF AgainInv
    <2> QED
      BY <1>1, <2>7, <2>10, <2>11
  <1>3. CASE FailLoad(t)
    <2>1. pc'[t] = "idle" /\ UNCHANGED cache
      BY <1>3 DEF FailLoad, Return, TypeOK
    <2>2. CacheInv'
      BY <2>1, EntryStays
    <2>3. DataInv'
      BY <1>0, <2>1, HoldStays, OthersKeep DEF DataInv
    <2>4. AgainInv'
      BY <1>0, <2>1, OthersKeep DEF AgainInv
    <2> QED
      BY <1>1, <2>2, <2>3, <2>4
  <1> QED
    BY <1>2, <1>3

\* A thread that looks up or invalidates has no load under way.
LEMMA NotLoading ==
  ASSUME JwksInv, NEW t \in Threads, pc[t] \in {"lookup", "invalidate", "lookupAgain"}
  PROVE  load # None => load.thread \in Threads \ {t}
  BY DEF JwksInv, LoadInv, TypeOK, Loads

\* The lookups, and cache.invalidate between them.
LEMMA LookupKeeps ==
  ASSUME JwksInv, TypeOK', Next, NEW t \in Threads, Lookup(t) \/ Invalidate(t) \/ LookupAgain(t)
  PROVE  JwksInv'
  <1> USE DEF JwksInv, issuer
  <1>0. UNCHANGED <<now, issuer, called, load>> /\ (Call(t) \/ GetKey(t))
    BY DEF Lookup, Invalidate, LookupAgain, GetKey
  <1>1. IssuerInv'
    BY <1>0 DEF IssuerInv
  <1>2. CASE Lookup(t) \/ LookupAgain(t)
    <2>1. UNCHANGED cache /\ pc'[t] \in {"idle", "invalidate"} /\ pc[t] \in {"lookup", "lookupAgain"}
      BY <1>2 DEF Lookup, LookupAgain, Return, TypeOK
    <2>2. CacheInv'
      BY <2>1, EntryStays
    <2>3. LoadInv'
      BY <1>0, <2>1, NotLoading, OthersKeep, LoadStays
    <2>4. DataInv'
      BY <1>0, <2>1, HoldStays, OthersKeep DEF DataInv
    <2>5. AgainInv'
      BY <1>0, <2>1, OthersKeep DEF AgainInv
    <2> QED
      BY <1>1, <2>2, <2>3, <2>4, <2>5
  <1>3. CASE Invalidate(t)
    <2>1. load = None /\ cache' = None /\ pc'[t] = "getAgain"
      BY <1>3 DEF Invalidate, TypeOK
    <2>2. CacheInv' /\ LoadInv'
      BY <1>0, <2>1 DEF CacheInv, LoadInv
    <2>3. DataInv'
      BY <1>0, <2>1, HoldStays, OthersKeep DEF DataInv
    <2>4. AgainInv'
      BY <1>0, <2>1, OthersKeep DEF AgainInv
    <2> QED
      BY <1>1, <2>2, <2>3, <2>4
  <1> QED
    BY <1>2, <1>3

\* Every step keeps the invariant.
LEMMA NextJwks == JwksInv /\ [Next]_vars => JwksInv'
  <1> SUFFICES ASSUME JwksInv, [Next]_vars PROVE JwksInv'
    OBVIOUS
  <1>1. TypeOK'
    BY NextTypes DEF JwksInv
  <1>2. CASE UNCHANGED vars
    BY <1>2 DEF vars, issuer, JwksInv, TypeOK, IssuerInv, LoadInv, CacheInv, DataInv,
                HoldsUnexpired, AgainInv, Sound, Served, Fresh
  <1>3. CASE Next
    BY <1>1, <1>3, WorldKeeps, CallKeeps, GetKeeps, LoadEndKeeps, LookupKeeps DEF Next, GetKey
  <1> QED
    BY <1>2, <1>3

----------------------------------------------------------------------------
\* OidcJwksKeyFetcher never reads a document that is not there, caches what is no
\* document or leaves the clock's range: the types hold, with any threads and keys.
THEOREM JwksTypes == Spec => []TypeOK
  <1>1. TypeOK /\ [Next]_vars => TypeOK'
    BY NextTypes
  <1> QED
    BY InitTypes, <1>1, PTL DEF Spec

\* What getKey holds, caches and loads stays sound with respect to the issuer.
THEOREM JwksInvariant == Spec => []JwksInv
  <1>1. JwksInv /\ [Next]_vars => JwksInv'
    BY NextJwks
  <1> QED
    BY InitJwks, <1>1, PTL DEF Spec

\* A step that returns is a lookup or a load that failed.
LEMMA ReturnsFrom ==
  ASSUME JwksInv, Next, NEW t \in Threads, NEW v \in {"found", "absent"}, Returns(t, v)
  PROVE  Lookup(t) \/ LookupAgain(t)
  <1> USE DEF Returns, JwksInv, TypeOK
  <1>1. PICK u \in Threads : Call(u) \/ GetKey(u)
    BY DEF Next, Tick, Respond, Rotate
  <1>2. u = t
    BY <1>1, OthersKeep
  <1>3. ~Call(t) /\ ~Hit(t) /\ ~BeginLoad(t) /\ ~FinishLoad(t) /\ ~Invalidate(t)
    BY DEF Call, Hit, BeginLoad, FinishLoad, Invalidate, After
  <1>4. ~FailLoad(t)
    BY DEF FailLoad, Return
  <1> QED
    BY <1>1, <1>2, <1>3, <1>4 DEF GetKey

\* getKey does not miss a key that the issuer has served for MIN_REFRESH_INTERVAL and
\* one fetch before the call, whatever other threads load and invalidate meanwhile.
THEOREM ServedFound == Spec => ServedKeyIsFound
  <1> DEFINE Absent ==
        \A t \in Threads : Returns(t, "absent") =>
           \/ since[want[t]] = None
           \/ since[want[t]] + MinRefresh + Timeout >= called[t]
  <1>1. ASSUME JwksInv, Next PROVE Absent
    <2> SUFFICES ASSUME NEW t \in Threads, Returns(t, "absent"), since[want[t]] # None
                 PROVE  since[want[t]] + MinRefresh + Timeout >= called[t]
      OBVIOUS
    <2> USE <1>1
    <2>1. Lookup(t) \/ LookupAgain(t)
      BY ReturnsFrom
    <2>2. /\ want[t] \in Kids /\ called[t] \in Nat /\ now \in Nat /\ called[t] <= now
          /\ since[want[t]] \in Nat /\ MinRefresh \in Nat /\ Timeout \in Nat
      BY JwksAssumption DEF JwksInv, TypeOK, DataInv, HoldsUnexpired, Time
    <2>3. pc[t] \in {"lookup", "lookupAgain"}
      BY <2>1 DEF Lookup, LookupAgain
    <2>4. data[t] \in Documents /\ Sound(data[t]) /\ data[t].fetchedAt \in Nat
      BY <2>3 DEF JwksInv, DataInv, HoldsUnexpired, Documents, Time
    <2>5. want[t] \notin data[t].keys
      BY <2>1 DEF Lookup, LookupAgain, Return, Returns, JwksInv, TypeOK
    <2>6. PICK from \in Time : data[t].fetchedAt <= from + Timeout /\ Served(data[t].keys, from)
      BY <2>4 DEF Sound
    <2>7. from <= since[want[t]] /\ from \in Nat
      BY <2>2, <2>5, <2>6 DEF Served, Time
    <2>8. called[t] <= data[t].fetchedAt + MinRefresh
      <3>1. CASE Lookup(t)
        <4>1. ~shouldAttemptRefresh(data[t])
          BY <2>5, <3>1 DEF Lookup, Returns, JwksInv, TypeOK
        <4> QED
          BY <2>2, <2>4, <4>1 DEF shouldAttemptRefresh
      <3>2. CASE LookupAgain(t)
        BY <2>2, <2>4, <3>2 DEF LookupAgain, JwksInv, AgainInv
      <3> QED
        BY <2>1, <3>1, <3>2
    <2> QED
      BY <2>2, <2>4, <2>6, <2>7, <2>8
  <1>2. JwksInv /\ [Next]_vars => [Absent]_vars
    BY <1>1
  <1> QED
    BY JwksInvariant, <1>2, PTL DEF Spec, ServedKeyIsFound

\* getKey does not accept a key that the issuer ceased to serve longer ago than a
\* max-age that it has set, and one fetch, before the call.
THEOREM WithdrawnForgotten == Spec => WithdrawnKeyIsForgotten
  <1> DEFINE Found ==
        \A t \in Threads : Returns(t, "found") =>
           \/ want[t] \in published
           \/ until[want[t]] # None /\ \E age \in MaxAges :
                until[want[t]] + age + Timeout >= called[t]
  <1>1. ASSUME JwksInv, Next PROVE Found
    <2> SUFFICES ASSUME NEW t \in Threads, Returns(t, "found"), want[t] \notin published
                 PROVE  until[want[t]] # None /\ \E age \in MaxAges :
                          until[want[t]] + age + Timeout >= called[t]
      OBVIOUS
    <2> USE <1>1
    <2>1. Lookup(t) \/ LookupAgain(t)
      BY ReturnsFrom
    <2>2. want[t] \in Kids /\ called[t] \in Nat /\ Timeout \in Nat
      BY JwksAssumption DEF JwksInv, TypeOK, Time
    <2>3. pc[t] \in {"lookup", "lookupAgain"}
      BY <2>1 DEF Lookup, LookupAgain
    <2>4. data[t] \in Documents /\ Sound(data[t]) /\ data[t].fetchedAt \in Nat
      BY <2>3 DEF JwksInv, DataInv, HoldsUnexpired, Documents, Time
    <2>5. want[t] \in data[t].keys
      BY <2>1 DEF Lookup, LookupAgain, Return, Returns, JwksInv, TypeOK
    <2>6. PICK from \in Time : data[t].fetchedAt <= from + Timeout /\ Served(data[t].keys, from)
      BY <2>4 DEF Sound
    <2>7. until[want[t]] # None /\ from <= until[want[t]] /\ from \in Nat
      BY <2>2, <2>5, <2>6 DEF Served, Time
    <2>8. until[want[t]] \in Nat
      BY <2>2, <2>7 DEF JwksInv, TypeOK, Time
    <2>9. PICK age \in MaxAges : called[t] <= data[t].fetchedAt + age
      BY <2>3 DEF JwksInv, DataInv, HoldsUnexpired
    <2>10. age \in Nat
      BY <2>9, JwksAssumption
    <2>11. until[want[t]] + age + Timeout >= called[t]
      BY <2>2, <2>4, <2>6, <2>7, <2>8, <2>9, <2>10
    <2> QED
      BY <2>7, <2>9, <2>11
  <1>2. JwksInv /\ [Next]_vars => [Found]_vars
    BY <1>1
  <1> QED
    BY JwksInvariant, <1>2, PTL DEF Spec, WithdrawnKeyIsForgotten
=============================================================================
