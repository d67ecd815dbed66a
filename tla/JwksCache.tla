----------------------------- MODULE JwksCache ------------------------------
(***************************************************************************)
(* The cache of an OIDC issuer's signing keys                              *)
(* (java/com/google/tca/adapters/oidc/OidcJwksKeyFetcher.java).  Request   *)
(* threads call getKey; the Caffeine cache holds one entry, the JWKS       *)
(* document last fetched, until the max-age it was served with has passed. *)
(* A thread that does not find its key in a document older than            *)
(* MIN_REFRESH_INTERVAL throws the entry away and fetches again, so that a *)
(* rotated key is found before the entry expires.                          *)
(*                                                                         *)
(* A key is its id: a document is the set of ids of the usable keys it     *)
(* lists.  Time is counted in ticks.                                       *)
(***************************************************************************)
EXTENDS Naturals

CONSTANTS
  Threads,     \* request threads
  Kids,        \* key ids
  None,        \* no entry, no time
  MinRefresh,  \* MIN_REFRESH_INTERVAL
  Timeout,     \* how long a load may take: the discovery and the fetch, HTTP_TIMEOUT each
  MaxAges,     \* the max-age values the issuer serves, the default one included
  MaxTime      \* bound on the clock

ASSUME JwksAssumption ==
  /\ {MinRefresh, Timeout, MaxTime} \subseteq Nat
  /\ MaxAges \subseteq Nat
  /\ None \notin Nat

Time == 0 .. MaxTime

VARIABLES
  now,        \* instantSource
  published,  \* the ids the issuer serves: external
  since,      \* since[k]: when the issuer began to serve k, None if it does not
  until,      \* until[k]: when the issuer last ceased to serve k, None if never
  cache,      \* the entry for CACHE_KEY, or None
  load,       \* the load in progress, or None: Caffeine runs one at a time
  pc,         \* pc[t]: where thread t is in getKey
  want,       \* want[t]: the id t asked for
  data,       \* data[t]: the document t looks the id up in
  called,     \* called[t]: when t called getKey
  verdict     \* verdict[t]: what getKey last gave t

issuer == <<published, since, until>>
vars == <<now, issuer, cache, load, pc, want, data, called, verdict>>

Documents == [keys : SUBSET Kids, fetchedAt : Time]
Entries   == [doc : Documents, expiry : Nat]
Loads     == [thread : Threads, start : Time, response : (SUBSET Kids) \cup {None}]

Steps == {"idle", "get", "lookup", "invalidate", "getAgain", "lookupAgain"}

TypeOK ==
  /\ now \in Time
  /\ published \in SUBSET Kids
  /\ since \in [Kids -> Time \cup {None}]
  /\ until \in [Kids -> Time \cup {None}]
  /\ cache \in Entries \cup {None}
  /\ load \in Loads \cup {None}
  /\ pc \in [Threads -> Steps]
  /\ want \in [Threads -> Kids]
  /\ data \in [Threads -> Documents \cup {None}]
  /\ called \in [Threads -> Time]
  /\ verdict \in [Threads -> {"none", "found", "absent", "error"}]

Init ==
  /\ now = 0
  /\ published \in SUBSET Kids
  /\ since = [k \in Kids |-> IF k \in published THEN 0 ELSE None]
  /\ until = [k \in Kids |-> None]
  /\ cache = None
  /\ load = None
  /\ pc = [t \in Threads |-> "idle"]
  /\ want \in [Threads -> Kids]
  /\ data = [t \in Threads |-> None]
  /\ called = [t \in Threads |-> 0]
  /\ verdict = [t \in Threads |-> "none"]

-----------------------------------------------------------------------------
(* The issuer and the clock                                                *)

\* The issuer rotates its keys: it begins or ceases to serve one.
Rotate(k) ==
  /\ published' = IF k \in published THEN published \ {k} ELSE published \cup {k}
  /\ since' = [since EXCEPT ![k] = IF k \in published THEN None ELSE now]
  /\ until' = [until EXCEPT ![k] = IF k \in published THEN now ELSE @]
  /\ UNCHANGED <<now, cache, load, pc, want, data, called, verdict>>

\* A load in progress ends, by an answer or by either HTTP_TIMEOUT, in Timeout ticks.
Tick ==
  /\ now < MaxTime
  /\ load # None => now < load.start + Timeout
  /\ now' = now + 1
  /\ UNCHANGED <<issuer, cache, load, pc, want, data, called, verdict>>

-----------------------------------------------------------------------------
(* The cache                                                               *)

\* JwksExpiry: an entry expires max-age after it was created, read or not.
Fresh == cache # None /\ now < cache.expiry

Return(t, v) ==
  /\ pc' = [pc EXCEPT ![t] = "idle"]
  /\ verdict' = [verdict EXCEPT ![t] = v]
  /\ data' = [data EXCEPT ![t] = None]

\* The lookup that follows cache.get at step s.
After(s) == IF s = "get" THEN "lookup" ELSE "lookupAgain"

\* Mutant: expireAfterRead starts the max-age over.
HitRenewsEntry(t) ==
  /\ pc[t] \in {"get", "getAgain"}
  /\ Fresh
  /\ data' = [data EXCEPT ![t] = cache.doc]
  /\ \E age \in MaxAges : cache' = [cache EXCEPT !.expiry = now + age]
  /\ pc' = [pc EXCEPT ![t] = After(pc[t])]
  /\ UNCHANGED <<now, issuer, load, want, called, verdict>>

\* cache.get finds a live entry and takes no lock.
Hit(t) ==
  /\ pc[t] \in {"get", "getAgain"}
  /\ Fresh
  /\ data' = [data EXCEPT ![t] = cache.doc]
  /\ pc' = [pc EXCEPT ![t] = After(pc[t])]
  /\ UNCHANGED <<now, issuer, cache, load, want, called, verdict>>

\* cache.get finds none and runs fetchJwks; others that need it wait.
BeginLoad(t) ==
  /\ pc[t] \in {"get", "getAgain"}
  /\ ~Fresh
  /\ load = None
  /\ load' = [thread |-> t, start |-> now, response |-> None]
  /\ UNCHANGED <<now, issuer, cache, pc, want, data, called, verdict>>

\* The issuer answers with the keys it serves at that moment.
Respond ==
  /\ load # None
  /\ load.response = None
  /\ load' = [load EXCEPT !.response = published]
  /\ UNCHANGED <<now, issuer, cache, pc, want, data, called, verdict>>

\* The answer arrives: it is stamped with the time of its arrival and stored.
FinishLoad(t) ==
  /\ load # None
  /\ load.thread = t
  /\ load.response # None
  /\ LET doc == [keys |-> load.response, fetchedAt |-> now]
     IN /\ \E age \in MaxAges : cache' = [doc |-> doc, expiry |-> now + age]
        /\ data' = [data EXCEPT ![t] = doc]
  /\ pc' = [pc EXCEPT ![t] = After(pc[t])]
  /\ load' = None
  /\ UNCHANGED <<now, issuer, want, called, verdict>>

\* Mutant: a failed fetch is cached as an empty document.
FailLoadCachesEmpty(t) ==
  /\ load # None
  /\ load.thread = t
  /\ load' = None
  /\ \E age \in MaxAges : cache' = [doc |-> [keys |-> {}, fetchedAt |-> now], expiry |-> now + age]
  /\ Return(t, "error")
  /\ UNCHANGED <<now, issuer, want, called>>

\* The discovery of the URI or the fetch fails (status, timeout, malformed document):
\* getKey throws, and nothing is cached.
FailLoad(t) ==
  /\ load # None
  /\ load.thread = t
  /\ load' = None
  /\ Return(t, "error")
  /\ UNCHANGED <<now, issuer, cache, want, called>>

-----------------------------------------------------------------------------
(* getKey                                                                  *)

Call(t) ==
  /\ pc[t] = "idle"
  /\ \E k \in Kids : want' = [want EXCEPT ![t] = k]
  /\ pc' = [pc EXCEPT ![t] = "get"]
  /\ called' = [called EXCEPT ![t] = now]
  /\ verdict' = [verdict EXCEPT ![t] = "none"]
  /\ UNCHANGED <<now, issuer, cache, load, data>>

\* Mutant: an unknown key never triggers a refresh.
neverRefresh(doc) == FALSE

shouldAttemptRefresh(doc) == now > doc.fetchedAt + MinRefresh

\* The first lookup: found, worth a refresh, or absent.
Lookup(t) ==
  /\ pc[t] = "lookup"
  /\ IF want[t] \in data[t].keys THEN Return(t, "found")
     ELSE IF shouldAttemptRefresh(data[t])
     THEN /\ pc' = [pc EXCEPT ![t] = "invalidate"]
          /\ UNCHANGED <<data, verdict>>
     ELSE Return(t, "absent")
  /\ UNCHANGED <<now, issuer, cache, load, want, called>>

\* cache.invalidate: it waits for a load in progress and drops the entry that is
\* there then, whichever document that is.
Invalidate(t) ==
  /\ pc[t] = "invalidate"
  /\ load = None
  /\ cache' = None
  /\ pc' = [pc EXCEPT ![t] = "getAgain"]
  /\ UNCHANGED <<now, issuer, load, want, data, called, verdict>>

\* The second lookup is final.
LookupAgain(t) ==
  /\ pc[t] = "lookupAgain"
  /\ Return(t, IF want[t] \in data[t].keys THEN "found" ELSE "absent")
  /\ UNCHANGED <<now, issuer, cache, load, want, called>>

-----------------------------------------------------------------------------
GetKey(t) ==
  \/ Hit(t) \/ BeginLoad(t) \/ FinishLoad(t) \/ FailLoad(t)
  \/ Lookup(t) \/ Invalidate(t) \/ LookupAgain(t)

Next ==
  \/ Tick
  \/ Respond
  \/ \E k \in Kids : Rotate(k)
  \/ \E t \in Threads : Call(t) \/ GetKey(t)

Spec == Init /\ [][Next]_vars

-----------------------------------------------------------------------------
(* Properties                                                              *)

\* The step is the return of a call of t with verdict v.
Returns(t, v) == pc[t] # "idle" /\ pc'[t] = "idle" /\ verdict'[t] = v

\* A rotated key is found in time: a key that the issuer has been serving since
\* before MinRefresh (and the duration of a fetch) before the call is not
\* reported absent, whatever other threads load and invalidate meanwhile.
ServedKeyIsFound ==
  [][\A t \in Threads : Returns(t, "absent") =>
       \/ since[want[t]] = None
       \/ since[want[t]] + MinRefresh + Timeout >= called[t]]_vars

\* A withdrawn key is forgotten in time: a key that the issuer ceased to serve
\* longer ago than any max-age (and the duration of a fetch) before the call is
\* not accepted.
WithdrawnKeyIsForgotten ==
  [][\A t \in Threads : Returns(t, "found") =>
       \/ want[t] \in published
       \/ until[want[t]] # None /\ \E age \in MaxAges :
            until[want[t]] + age + Timeout >= called[t]]_vars
=============================================================================
