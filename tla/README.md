# TLA+ models and proofs of the trusted certificate authority

The trusted certificate authority (TCA) runs inside an AWS Nitro enclave and
issues short-lived X.509 certificates to workloads that present an OIDC token,
attestation evidence and a CSR. Its repository also carries the proxy through
which the enclave reaches the network and a development kit of Python programs
that build images, run containers and check coverage. This directory holds TLA+
modules for the parts of it whose correctness depends on order, failure or
concurrency, TLC configurations that check them on small instances, and TLAPS
proofs of the results that matter most for every size of the system.

- Modules without suffix are specifications; `MC*` instantiate one for TLC;
  `*Proofs` hold theorems. Each `.cfg` is one question.
- `PROJECT.json` lists the components, the runs, the lines of code each
  definition stands for (`map`), the hazards the properties are aimed at, what
  was found, and for each property a mutant: a plausible bug in a mapped
  definition that makes the property fail. The mutated forms stand in the
  modules right before the definition they replace, marked `Mutant:`.
- To repeat a run: `tlc -config Issuance.cfg MCIssuance`; a proof:
  `tlapm IssuanceProofs.tla`.

## 1. Inventory of the system

| Component | State | Operations | Interacts with | What is hard |
|---|---|---|---|---|
| **Root key ceremony** (`mbs/.../KmsMeasurementBoundCertificateProvider`) | five S3 objects, the transparency log; in memory the key, certificate and attestation | load, generate and store, reconcile the log entry | S3, KMS, Rekor; supplies the signer's key | a crash or failed call between any two puts; two instances at once |
| **JWKS cache** (`adapters/oidc/OidcJwksKeyFetcher`, `OidcDiscoveryFetcher`) | one cache entry with expiry | `getKey`: load (discovery, then the keys), invalidate and reload | OIDC issuer over HTTP; called by the JWT interceptor in every request thread | key rotation, racing loads and invalidations, failed loads |
| **Policy file cache** (`adapters/CachedFileFetcher` over `S3FileFetcher`) | one entry per client, missing files included | `fetchFile` | S3; called by the policy provider | staleness, concurrent loads, failed loads |
| **Certificate issuance** (`server`, `domain/TransparentCaService`, `adapters`) | the request in each thread; metrics | interceptor, handler, audience binding, policy, verification, validity, signing | all of the above | eight checks in order, exceptions of many types, time and files that change between steps |
| **Metrics** (`adapters/SystemMetrics`) | counters, the bounded set of approved clients | `allowMetricsForClientId`, increments | issuance threads | an unlocked look before a locked insertion |
| **Proxy buffer** (`container-tools/cc/aws/proxy/src/buffer.h`, `freelist.h`) | a list of blocks, `head_`, `end_`, `tail_`, sizes, a freelist | `Reserve`, `ReserveAtLeast`, `Commit`, `Peek`, `Drain`, `CopyIn`, `CopyOut` | asio reads and writes hold pointers into it | a read and a write under way while blocks are recycled |
| **SOCKS5 handshake** (`socks5_state.cc`, `proxy_bridge.cc`) | `state_`, `required_size_`, pending asio operations | `Proceed`, `ConnectionSucceed`, the handshake, connect, accept and wait handlers | client, destination, acceptor pool | fragments of any size; an accept and a wait that cancel each other |
| **Forwarding** (`proxy_bridge.cc`) | eight flags, two buffers | `ForwardTraffic`, four completion handlers | two sockets | two directions that end, drain and fail independently |
| **Devkit images** (`.devkit/scripts/docker/build.py`, `docker_run.py`, `docker_cleanup.py`) | the checkout, the images of the daemon and of the registry, the cleanup thread | build an image and its bases, run a container, remove old images | several commands of several checkouts share one docker daemon | files read twice; images removed while another command needs them; a cancelled cleanup |
| **Container events** (`container_event_handler.py`, `docker_run.py`, `entrypoint_docker`) | a listening socket, a thread, a cancel event | bind, listen, accept, record; cancel | the entry point of the container, any process of the host | who is first, a blocked accept, peers that misbehave |
| **Coverage report** (`coverage_report.py`) | none; a parse of one report | parse, compare with thresholds, name the gaps | bazel | records, ranges and thresholds at their edges |
| **External mounts** (`list_external_mounts.py`, `docker_run.py`) | a worklist of directories | follow links, minimise, translate the home directory | the file system | chains that leave the project, come back, go round |
| **Project tools** (`find_project_root.py`, `bep.py`, `bootstrap.py`) | files that are written one after the other | write build events, instantiate a template | bazel, jinja2 | one of several steps fails |
| Acceptor pool, client session pool, socket vendor, preload library | maps of sockets and sessions under locks | bind, accept, hand over, interposed libc calls | the proxy | not modelled yet (section 7) |
| Server lifecycle, enclave watcher | health status, failure counter | start, stop, health checks | systemd, the load balancer | not modelled yet (section 7) |
| Certificate contents, wiring, NSM binding, protos, command-line tools | none, or read once | - | - | no state that a model would explore |

The calls at run time: the interceptor verifies a token with a key from the JWKS
cache; the handler maps the request and calls `TransparentCaService`, which
checks the audience and the CSR, asks the policy provider (and through it the
policy cache), has the evidence verified, intersects the validities and signs
with the key that the root ceremony supplied at start-up. Every outgoing
connection of the enclave goes through the proxy on the parent instance.

The development kit is used by developers: a command (`build`, `test`, ...) has
`build.py` make the image it needs, `docker_run.py` runs a container of it, and
two threads beside it listen for the container's event and remove old images.
Commands know nothing of each other; they meet in the docker daemon.

## 2. Modules

| Module | Stands for | Extends or instantiates |
|---|---|---|
| `RootOfTrust` | what the ceremony promises: one root, forever | |
| `RootCeremony` | the ceremony, call by call | implements `RootOfTrust` |
| `JwksCache` | `getKey` with Caffeine's cache | |
| `PolicyStore` | what `FileFetcher.fetchFile` promises: an answer at most `Window` old | |
| `PolicyCache` | the Caffeine cache over S3 | implements `PolicyStore` |
| `Issuance` | a request from interceptor to response | composes the request path with `PolicyStore` |
| `ByteQueue` | what a buffer promises: bytes come out in order, once | |
| `Buffer` | the block list with its pending operations | implements `ByteQueue` |
| `Socks5` | the handshake of a session | |
| `ProxyBridge` | the forwarding of a session, on buffers as counts of bytes (what `ByteQueue` justifies) | |
| `DevkitImages` | commands that build, run and clean up on one host | |
| `ContainerEvents` | the listener for the container's event | |
| `CoverageReport`, `ExternalMounts`, `ProjectTools` | the algorithms of the small programs, as operators | |
| `DevkitTools` | one run of a small program per job, and what it ought to compute | extends the three above |

How state and actions correspond to the code:

**RootCeremony.** `s3[o]` is the stored object `o`, `held[i][o]` the copy instance
`i` has in memory, `tlog` what Rekor holds. A *generation* is one run of
`generateAndStoreCertificate`; keys, ciphertexts, certificates and attestations
are abstracted to the generation they come from, and decryption succeeds exactly
when ciphertext and data key are of one generation. `pc[i]` is the next call: one
action per call to S3, KMS or the log, in the order of the code. Each call may
succeed, fail without effect, or fail although it took effect; `Crash` may cut in
anywhere. A missing object (`NoSuchKey`) leads to generation, any other error to
the end of the process with the metric the code records.
Nothing in the repository keeps two instances from bootstrapping at once, and the
model does not either. `overlap` is history: it becomes true when an instance starts
beside another while no complete root is stored. The properties of the one root say
what holds in every behaviour until then (TLC refutes them without that clause), and
what of them survives is stated without it: `TlogEntryIsLogged`, `StoredRootIsFinal`,
and the part of `RootOfTrust` that holds once the root is `disputed`, namely that an
instance which serves keeps its root.
The log is one that keeps what is recorded. The server binds a client that answers
with a constant (`TransparentCaModule.java:112-126`), so what is said of the log is
about the mbs library with a real client.

**JwksCache.** `cache` is the Caffeine entry with its expiry, `load` the one load
Caffeine runs at a time for the key, `pc[t]` the place of a thread in `getKey`.
A load is the discovery request and then the request for the keys, each with its own
timeout; it may fail in either. The issuer rotates keys and answers (or not) at any
time. `since` and `until`
record when a key was served, for the properties only.

**PolicyStore, PolicyCache.** `file[c]` is the object of client `c` in the
bucket, `ceased[c][f]` when content `f` was last replaced, `load[c]` the fetch in
progress. The operator replaces files at any time; a fetch reads the content at
some moment between its start and its end, and takes at most `LoadTime`.

**Issuance.** A request is a record of the outcomes its parts have when parsed:
what is wrong with a token, a CSR or an endorsement is a value. A thread goes
through interceptor, `Screen` (the checks before the policy), `FetchPolicy`,
`SelectPolicy`, `AllowMetrics`, `Lookup`, `Verify`, `Issue` and `CountIssuance`;
the clock and the files may change between any two. Each failure ends in the
status code and the metric that the code gives it, exceptions that no handler
names included (`UNKNOWN`).

**Buffer.** `chain` is the list from `head_` to `tail_`, `end` the index of
`end_`, `free` the freelist. Bytes are numbered as they are committed, and `mem`
says which byte each place of each block holds, so that a block that is recycled
too early shows. A read under way (`reservation`) and a write under way
(`peeked`) hold places, as the asio operations hold pointers.

**Socks5.** The client is a record of what it sends; `read` and `taken` count
bytes. `handler` tells whether the loop in `Socks5HandshakeHandler` is running:
other handlers of the strand wait for it, the network does not. `accept` and
`wait` go through pending, outcome and handler; cancelling reaches only an
operation that is still pending.

**ProxyBridge.** Sides are `client` and `dest`; flags and counts are functions of
the side, so that the four handlers of the code become two actions each for
reading and writing, by outcome.

**DevkitImages.** A checkout holds a *tree*: what `devkit.json` is like, the images
that the `deps.json` files configure with the images each is based on, and the
Dockerfiles. A tag is the prefix, the name of the image and the set of what was
hashed, through all bases (`<<image, Dockerfile, bases>>`), so SHA-256 is taken as
injective; an image is what it was really built from and whether it is old.
`pc[c]` follows `build.py` image by image (hash, inspect, manifest, pull, build,
push) and then `docker_run.py`; `cl[c]` follows the cleanup thread from its delay
over the listing, the tags to spare and the batches to each `docker rmi`, which the
daemon may carry out after the client is gone. The JSON files are read once
(`conf`), the Dockerfiles when they are hashed (`read`) and again by docker.
Developers edit the checkouts at any time. `seen`, `late` and `raced` are history; the
last has the tags whose Dockerfile was edited between its hash and its build.

**ContainerEvents.** `main` is the main thread of `docker_run.py`, `listener` the
thread of the handler, `sock` the socket and `queue` its backlog, `box` the entry
point, a shell script that ends at its first failing command: its connect may be
refused, or time out while the queue is full. The kernel may refuse the listener
`listen` and `accept`, which ends it. Strangers are other
processes of the host, which may connect and send an event, nonsense, a time out
of range, nothing at all, hang up or reset the connection. `cause` is history.

**DevkitTools.** Each program is a function of its input, so a run is one step
from a job to its result; the interest is in the reference definitions the result
is compared with, which are stated on the input (what the tests covered, what
links name) and not by the algorithm. The data is what the programs tell apart:

- A threshold is the ratio that was written and the *side*: where the code compares
  `hit / found` with `threshold / 100` as floating-point numbers, two ratios that are
  equal may come out different, and the side says which way. It is 0 for whole
  percentages, whose one rounding is that of the quotient of the counts. Different
  ratios are taken to stay apart, which doubles ensure for counts and thresholds of
  few digits.
- A path is a spelling. `list_external_mounts.py` walks a directory under the name by
  which a link led to it and takes `..` textually (`norm`), so one place may have
  several names and a name may lead elsewhere than the link it was read from. The
  file system says of each path what `lstat` does, where its link points, what
  `normpath` makes of it and what it resolves to; `MCDevkitTools` computes these from
  a tree as the kernel does. On 752 trees of this kind the model and the program
  gave the same mounts.
- A label is a sequence of words and signs, since `bep.py` joins with `_` and cuts at
  `/`.

## 3. Runs

| Run | Property | Bounds | Distinct states |
|---|---|---|---|
| `root` | `StoredRootIsWhole`, `ServedRootIsPublished`, `TlogEntryIsOfRoot`, `TlogEntryIsLogged`, `RefinesRootOfTrust`, `KeepsServing` | 2 instances that start at any time, 5 generations, 3 faults | 842,002 |
| `root_unlogged` | `ServedRootIsLogged` is **violated** | 1 instance, 1 fault | |
| `jwks` | `ServedKeyIsFound`, `WithdrawnKeyIsForgotten` | 2 threads, 1 key, times to 5 | 2.44 million (symmetry) |
| `policy_cache` | `RefinesPolicyStore`, `EveryLoadEnds` | 2 threads, 1 client, 1 file, times to 5 | 355,298 |
| `issuance` | `IssuedIsAuthorised`, `ValidityIsEndorsed`, `EveryRequestIsAnswered`, `ApprovedIsBounded`, `ApprovedIsCounted` | 1 thread, every kind of request, files of 4 kinds, times to 2; and 2 threads, 2 clients, 1 place, 3 requests | 444,111 |
| `buffer` | `BufferInv` (types, sizes, ownership of blocks), `PendingPlacesStay`, `RefinesByteQueue` | 4 blocks of 3 bytes, reservations to 4, 8 bytes | 206,669 |
| `socks5` | `HandshakeIsExact`, `RepliesInOrder`, `ClosedIsReleased` | all 216 kinds of client, up to 3 methods and 2 bytes sent ahead, every fragmentation | 48,735 |
| `bridge` | `NoWriteAfterShutdown`, `EndComesLast`, `EndIsPassedOn`, `SessionIsReleased` | buffer limit 2, reads to 2, 4 bytes per peer | 83,085 |
| `devkit_images` | `KeepsNeeded`, `PureImages`, `LateRemovals`, `RemovesOnlyStale`, `ComesToRest` | 2 commands, 2 checkouts, 3 images, 7 trees, up to 2 edits, batches of 1 | 125,456 |
| `container_events` | `NoSleeper`, `RefusedForCause`, `EventIsRecorded`, `CommandEnds` | 3 strangers of any kind, backlog 1 | 853,166 |
| `devkit_tools` | `VerdictIsExact`, `GapsAreNamed`, `MountsAreExact`, `WantedIsMounted`, `SuccessIsWhole` | every job of `MCDevkitTools` | 7,654 |
| `coverage_gaps` | `NothingNamedIsCovered` is **violated** | the small reports of `MCDevkitTools` | |

What the properties say is written above each of them in its module. The
inductive invariants (`CeremonyInv`, `LogInv`, `StalenessInv`, `IssuanceInv`,
`BridgeInv`) and the type invariants of the modules with proofs are left to the
prover: the theorems of section 4 hold them for every size, and to have TLC look
at one on a small instance it is enough to name it in the `.cfg`. Why the bounds
are enough:

- *Root.* The interesting cases are a fault after each put, a second fault in the
  recovery, and a second instance that loads or generates meanwhile: two
  instances and three faults reach all of them, and a generation is left over for
  every restart and for a second bootstrap beside the first. The safety results are
  also proved for any number.
- *JWKS and policy cache.* Three actors matter: a thread that loads, one that
  reads or waits, and the issuer or operator. Times reach past one whole cache
  duration and a load after it, so entries expire, are reloaded and grow stale;
  the max-ages include 0, an entry that expires at once. One file is enough for
  the policy cache, which never looks into one: an answer is a file, that there
  is none, or a failure, and the operator puts and deletes it.
- *Issuance.* A request shares with others only the policy files, the clock and
  the metrics. The run has three scenarios, told apart by a variable that no step
  changes. In the first the files change in any way between the steps of one thread,
  which so meets everything others could do to it; its request is a good one or that
  with one field given another of its values, among them an endorsement that begins
  after time 0 and one that ends before the last time. The second is the same for a
  good request and files that may fail to parse. In the third two threads race for
  one place among the clients that have a counter; nothing there depends on time,
  which stands still.
- *Buffer.* A block of 3 bytes distinguishes full, empty and partly used at either
  end; reservations of 4 cross a boundary; 8 bytes through 4 blocks recycle
  blocks while a reservation and a peek are outstanding.
- *Socks5.* Field sizes are the real ones (2, n, 4, 6 or 18).
- *Bridge.* A limit of 2 with reads of 2 lets a buffer be empty, below, at and
  over the limit. With a limit of 1 a read would never end on a non-empty
  buffer, and `EndIsPassedOn` would say less.

- *Devkit images.* One command cleans while the other builds or runs, in checkouts
  that agree, disagree or are edited between the steps of either; an image with a
  base is the least graph in which a base can be missing, and a third image is
  unknown to the cleanup. The five starts put old images into the daemon or the
  registry and give the commands their options. Batches of 1 make the end of a
  batch, and the wait after it, happen.
- *Container events.* Two connections may wait and one is being read, so a third
  stranger, and the container behind it, find the queue full, and its connect may
  time out.
- *Devkit tools.* The jobs are enumerated in `MCDevkitTools`: reports of two
  files with up to four lines and two branches and thresholds at, below and above the
  share, and files of 125 lines at thresholds with a decimal, rounded to either side;
  trees with four links that chain, leave, come back, go round, end nowhere, are
  relative or absolute and lie in directories reached through links, up to `MaxPaths`
  spellings (a kernel gives up after `MaxLinks` links, more than any chain that ends
  has here); labels that collide and that do not; targets and templates of which any
  may fail.

Deadlock is not checked in the runs of `Buffer`, `Socks5`, `ProxyBridge` and the
development kit: the byte bound ends a behaviour of the first, and a session or
a command that is over takes no more steps. It is checked everywhere else.

### Fairness

- `RootCeremony!FairSpec`: an instance that is down is started again and one in
  the ceremony goes on (weak fairness of its own steps). systemd restarts the
  enclave; no fairness is assumed of crashes, faults or stops, and faults are
  finite. Instances that bootstrap at once may leave a root of two generations, which
  no start repairs: `KeepsServing` ends there.
- `PolicyCache!FairSpec`: a thread in `fetchFile` goes on and an S3 call ends,
  with an answer or by the SDK giving up.
- `Issuance!FairSpec`: the executor runs the threads of accepted requests.
  Nothing is assumed of clients, operator or clock.
- `Socks5!LiveSpec`: the io_context threads run handlers that are ready; a
  connect ends, and a read of or a wait on a closed connection completes. That an
  inbound connection ever arrives is not assumed.
- `ProxyBridge!LiveSpec`: each side's reads complete when there is data or an
  end, and its writes when the peer reads or is gone, so peers are assumed to
  read what they are sent; nothing is assumed of their sending or ending.
- `DevkitImages!FairSpec`: every thread of a command is scheduled and the docker
  daemon answers. That a container ever ends is not assumed.
- `ContainerEvents!EventsFairSpec`: the two threads and the entry point go on. Nothing is
  assumed of the container after it, of strangers, or of refusals and timeouts of
  the kernel, which may happen or not.

## 4. What is proved

All theorems are checked by TLAPS without any step taken on trust, for any sets and
any values of the constants that satisfy the named assumptions (`NoneAssumption`,
`MaxFaultsAssumption`, `StoreAssumption`, `CacheAssumption`, `IssuanceAssumption`,
`RequestAssumption`, `FileAssumption`, `BridgeAssumption`, `PeerAssumption`,
`TreeAssumption`, `BoundAssumption`, `JwksAssumption`, `Socks5Assumption`,
`BufferAssumption`, `JobsAssumption`). These say that bounds and durations are
natural numbers, that a block has room (the `static_assert` on `BlockSize` in
`buffer.h`), that placeholders such as `None` are not data, and that requests,
files, trees and the inputs of the small programs have the fields they have: the
paths above a path lie above each other, a whole percentage is not rounded, a report
has one record per file and one line per line of it, and the files of a template
have different names.

**RootCeremonyProofs.** No theorem restricts how instances start. `TypeCorrect`,
`EntryIsLogged` and the first half of `StoredRootFinal` hold however many bootstrap
at once; the second from `LogInv`, which adds that an instance about to store a log
entry holds a certificate that is in the log, the third because a load that finds
every object never generates. The others are about behaviours until bootstraps
overlap. Neither "the stored objects are of one generation" nor "the served root is
the published one" is inductive: a generation overwrites objects of an earlier,
incomplete one, and in between the bucket holds a mixture. `CeremonyInv` is
`~overlap => OneRoot`, and `OneRoot` says when that is harmless: before the
attestation, the last object a load needs, is stored, one instance runs at a time and
has stored what its step implies (`WriterInv`); from then on nobody generates, and
whoever loads or serves holds copies of what is stored (`ReaderInv`, `HolderInv`).
From it follow `StoredRootWhole`, `ServedRootWholeAndPublished`, `EntryIsOfRoot`, the
second half of `StoredRootFinal` (nobody replaces a complete root) and the refinement
`CeremonyRefinesRootOfTrust`, in which the put of the attestation is the step that
establishes the root, the start that overlaps is the one that disputes it, and after
that a serving instance still keeps its root until it stops.

**PolicyCacheProofs.** `Staleness`: an entry was in the bucket at some time at
most `LoadTime` before it was written, and the answer of a load in progress at
some time since it began. That needs, for every content, when it last ceased to
be current. `CacheImplementsStore`: hence every answer is at most
`Ttl + LoadTime` older than the question.

**IssuanceProofs.** `IssuanceInvariant`: what each step has established about the
request and the file in hand, and that the file stays *recent* with respect to
the arrival of the request while the operator replaces files. From it
`IssuedAuthorised` and `ValidityEndorsed`. With `CacheImplementsStore` this gives
the end-to-end statement: a permission that was withdrawn more than the cache
duration and one fetch before a request arrives does not lead to a certificate.
`ApprovedBounded`: the set of approved clients stays within its limit.
`ApprovedCounted`: the counter of an approved client misses only what threads have
signed and not yet counted. `allowMetricsForClientId` looks before it locks, so what
has to be excluded is a client that signs without a place and gets one later, its
earlier certificates uncounted. `PlaceInv` does: while a place is left, a client
without one has not come past `allowMetricsForClientId`, and no client loses its
place, so a full set stays full. That the threads about to count are finitely many
is part of the invariant, since `Threads` need not be finite.

**JwksCacheProofs.** For any threads, keys, durations and rotations. `JwksTypes`;
`JwksInvariant`: a document in hand was the issuer's at some moment at most one fetch
before its arrival, in the sense that for every key it is wrong about now, the time
the issuer began or ceased to serve that key is not before that moment
(`Served`, `Sound`). Only a rotation can make a document wrong, and it stamps the
key. To this `DataInv` adds that a document a thread looks into had not expired when
the thread called, and `AgainInv` that after an invalidation it finds one that
arrived since its call. From the first follows `WithdrawnForgotten`; `ServedFound`
needs both cases of an absent key: a document younger than the minimum refresh
interval, or a second look.

**Socks5Proofs.** For any number of methods and any bytes sent ahead.
`SocksInvariant` ties to every state of `Socks5State` what was consumed and checked
on the way to it and how much it takes next (`FieldInv`), which operations may be
under way (`PendingInv`: no read beside a running handler, and a connect or an
accept only for the state that waits for it, or left over from a failed BIND), and
what the client was told (`ReplyInv`). `HandshakeExact` and `RepliesOrdered` follow.

**ProxyBridgeProofs.** `BridgeInvariant`, `NoWriteAfterShutdownHolds`,
`EndComesLastHolds`, for any buffer limit, read size and number of bytes. The
code leaves a side marked writable when it shuts it down from a read handler;
that no write follows holds because the buffer is then empty and its source no
longer read, which is what `FlagsInv` records together with the reason a side
stops being readable.

**BufferProofs.** For any capacity of a block, any number of blocks and any bytes.
`BufferStaysInAccord` (`BufferInv`), `PendingPlacesHold` (`PendingPlacesStay`) and
`BufferIsQueue`, the refinement of `ByteQueue`. The state is a list of blocks, each
with data and then space; the argument is about the sequences of *places* they come
to. The first group of lemmas is about flattened sequences (`FlattenSeq`), by the
least-number principle instead of induction. The second says what the two
operations of many blocks do to the places: `Commit` moves the first places of the
space to the end of the data, `Drain` takes the first places of the data and gives
up the blocks that are spent, which end up behind the others with all of their
space. Neither would hold of any list: full blocks come first, then at most one
that is partly filled, where `end_` points, then empty ones, and only the first is
consumed from. `Inv` has that shape (`ListOK`) and what a pending operation
holds: the places of a read are the first of the space (`ReadOK`), those of a write
the first of the data with the bytes as they were (`WriteOK`). That a read which
completes stores nothing over data needs the last part: no block is in the list
twice, so the places of the space are distinct and are none of the data's.

**DevkitProofs**, of `ContainerEvents`. `EventsTypes`, `NobodySleeps` and
`TurnedAwayForCause`, for any strangers and backlog. `PhaseInv` ties the listener's
place to the state of the socket: `NoSleeper` holds because the event is set before
the socket is shut down, so a listener that comes to listen too late sees the event.
`CauseInv` and `ConnInv` record why a listener stopped and that whoever is read from
has connected. That a connect times out only behind more strangers than the backlog
rests on `QueueInv`: nobody is in the queue twice, and each stranger in it has
connected, so a queue that is full without the container has that many of them
(`FullOfStrangers`).

**DevkitProofs**, of `DevkitImages`. For any commands, checkouts, trees, edits and
graph of images. `RemovalsEnd` from `CleanInv` and `DaemonInv`: a request that the
daemon has belongs to a cleanup that polls for it or is over. `OnlyStaleRemoved`
from `StaleInv`, which carries staleness from the listing over the batches to the
daemon while checkouts are edited. `NeededIsKept` needs two more facts: `OrderInv`,
that what `build.py` is done with is closed under the bases (so that reading another
Dockerfile changes none of the tags computed so far), and `ThereInv`, that all of it
is in the daemon or the registry, or stale. `TagsTellContents` rests on `ReadInv`
(docker finds the Dockerfile that was hashed, or the tag is in `raced`), on the
lemma that the parts of a tag are its own and those of its bases (`TagParts`, from
`ClosureStep`), so that a tag over a spoiled base is itself named by `Hurt`, and on
`HurtStays`.

**DevkitProofs**, of `DevkitTools`. For any jobs. `ToolsCompute` only reduces each
property to one of the function that a program computes; the work is in what those
functions compute, by loops over data. The library's induction rules cannot be used
here, since they take an operator; so the loops are followed with *sets of numbers*
instead: a set that has 0 and with every number below `n` the next has all of them
(`Turns`, from the well-foundedness of the naturals). Each fold and each recursive
function is first shown to have its states, one for each turn (`LoopExists`,
`FoldExists`, `FoldTurns`), as long as a turn leads from states to states.
`SuccessMeansWhole` follows with a loop invariant for either program, and with what
equal file names say of two labels (`EndAlike`). `MountsExactly` needs that the scan
ends and that it misses nothing. It ends within one turn more than there are paths,
because a turn takes a directory from the worklist and only a path that is found for
the first time enters it; a chain of links ends within as many hops as there are
paths, or repeats one, and then leads nowhere (`End`). It misses nothing because
what was scanned is closed: a path that a link below it names, normalised, is in the
project or found, and a found directory is scanned, by that name, or on the
worklist, which is empty at the end. Nothing is assumed of how `norm` and `real`
relate to the links. `WantedAndMounted` adds that a mount is kept only if none above
it is, so that in a tree exactly one takes in a place. `VerdictExact` and
`GapsNamed` read a report record by record: within a record only the coverage of its
file changes (`Inside`), its branches and lines are noted as far as they have been
read (`BranchesNoted`, `LinesNoted`), and after it the data of the files before is
as it was, because files differ (`CoverageData`). A threshold compares percentages
only if something was found; that this is the comparison of the counts, except where
they are equal and the threshold was rounded, is `MeetsIsEnough`. `GroupsAre`: the
sorted numbers rise, the ranges that are complete and the one being read have all
the numbers so far (`Grouped`), and a range ends only before a gap.

Only model-checked: the liveness properties (fairness is out of the prover's reach).
Every safety property and refinement of a passing run is stated by a theorem.

## 5. What was found

- **A root may be served that was never logged** (`root_unlogged`). The comment
  in the code calls failure to register the root catastrophic; but the objects a
  load needs are stored before the root is recorded, so after a failure in
  between the next start loads the root, finds no log entry, warns and serves. This
  is about `KmsMeasurementBoundCertificateProvider` with a client that keeps a log;
  the server as it is binds one that only answers (`TransparentCaModule.java:112-126`).
- **A gap may not be named** (`coverage_gaps`). The docstring of
  `generate_missing_coverage_report` promises an empty report only if all lines and
  branches are covered. A branch that was evaluated and never taken has the hit count
  `0`; it is not counted as hit, and not listed either, for only `-` is. So a file may
  fail its threshold with nothing to show.

Observations made while modelling, each of which follows from a definition but has
no run of its own:

- *Root.* Two instances that find no root both generate, and one goes on signing
  under a root that is not the published one, or the bucket is left with objects of
  both and no start succeeds. Without the clause for `overlap` TLC refutes
  `ServedRootIsPublished`, `StoredRootIsWhole` and `KeepsServing`. Nothing in the
  repository excludes it.
- *JWKS.* The age that `getKey` compares with the minimum refresh interval is that
  of the document a thread looked at, not of the entry it drops: racing refreshes
  may drop an entry that was just fetched.
- *SOCKS5.* `ConnectionSucceed` (`socks5_state.cc:328`) sets `kFail` when the reply
  cannot be sent and overwrites it with `kSuccess`, so traffic is forwarded for a
  client that has no reply.
- *Devkit images.* The Dockerfile is hashed and then read again by docker, while the
  help of `build.py` speaks of content-addressable tagging. An edit in between puts
  another image under the tag, and under the tags of what is based on it, for good
  and in the registry too; `PureImages` says that nothing else does. An exception in
  `get_ignored_images` spares nothing at all; a `devkit.json` that is no JSON makes
  the cleanup look under the default prefix, and, repaired a moment later, remove
  images of a project without a namespace. Both are what `Stale` allows and
  `KeepsNeeded` is relative to. An image that is rebuilt under a tag already listed
  is removed although it is new.
- *Container events.* A stranger that resets its connection or sends a time out of
  range ends the listener, as a refused `listen` or `accept` does, and a silent one
  blocks it; the entry point then fails at once, or, once the queue is full, when its
  connect times out. A container that is faster than the thread that is to listen
  fails as well. `RefusedForCause` and `EventIsRecorded` name these cases as the only
  ones.
- *Coverage.* A file exactly at a threshold that is not a whole percentage may be
  failed: `99.9 / 100` is more than `999 / 1000` in doubles, while
  `coverage_report.py:250` says that equal coverage passes. `VerdictIsExact` confines
  this to exactly such files.
- *Mounts.* A relative link in a directory that was reached through a link is taken
  relative to the name of that link: with `a -> /home/u/cur -> /opt/v1` and
  `/opt/v1/lib -> ../common` the program lists `/home/u/common`, which no link of
  the host leads to and which `docker run --volume` makes if it is not there, though
  its docstring speaks of the paths that links point to. (Inside the container,
  where `/opt/v1` is also mounted under the name `/home/u/cur`, that name is what
  the link means.) `MountsAreExact` is about what links *name* in this sense. A
  mount above the home directory takes in what lies in it and is not translated to
  the host's home directory (`WantedIsMounted` states the exception).
- *Tools.* `bep.py` writes targets to one file whose labels are alike behind the last
  slash, up to `:` and `_` (`//x/a_b:c` and `//y/a:b_c`), although its docstring says
  that it generates a file for every target;
  `bootstrap.py` opens a destination before it renders, so a rendering that fails
  leaves an empty file where there may have been one.

## 6. What is not modelled

- Cryptography, parsing and formatting: tokens, CSRs, evidence and certificates
  are the outcomes the code distinguishes. The contents of certificates
  (`adapters/certsigning`) are left out.
- The AWS and GCP attestation verifiers, which no request reaches: the mapper accepts
  evidence of all three kinds, but `AwsAttestationEvidence` and
  `GcpAttestationEvidence` (line 34 of either) throw `UnsupportedOperationException`
  when they are asked for the endorsement, which comes before any verifier.
  `Issuance` has that exception.
- The transparency log behind its two calls, and the discovery document of the OIDC
  issuer, which is fetched again with every load of the keys: a load that fails may
  have failed there.
- The validity of the root certificate: a loaded root is not checked for expiry,
  which a model with a calendar will show.
- Memory order in the freelist: `ProxyServer` gives every buffer a freelist of its
  own, used on one strand, so its lock-free operations never race.
- The state `kResponse` of the handshake, which the bridge's callbacks never lead
  to.
- Of the development kit: the assembly of the `docker run` arguments other than the
  volumes (user, group, environment, terminal), `docker_cleanup.py` as a program of
  its own, builds of several targets at once, and
  `issue_certificate_response_to_der.py`. The copies of the kit under `src/api`,
  `src/container-tools` and `src/mbs` are identical to `src/.devkit`, to which the map
  refers.
- Generated code and build files.

A note on coverage: most of this system is Java and C++. Counted over the Python
files alone, which are four identical copies of the development kit, the map
covers about a sixth of the lines, since each definition is mapped to one copy;
of that one copy it covers about two thirds.

## 7. Plan

In the order of their worth:

1. `AcceptorPool` (`acceptor_pool.h`): the read lock given up for the write lock,
   and an arbitrary-port bind that fails; composed with the BIND half of `Socks5`.
2. `ClientSessionPool` with `SocketVendorServer`: sessions prepared ahead and
   handed over by descriptor, with failures on either side; a bounded pool.
3. `ServerLifecycle` (`TcaServer`, `ServerMain`): health status, the shutdown hook
   that is registered after the server answers, requests in flight at a stop.
4. `EnclaveWatcher` (`enclave_watcher.sh`): the failure counter, replacement of an
   instance and its overlap with the old one, composed with `RootCeremony` to see
   when a replacement makes two bootstraps overlap.
5. `ClientId`: the escaping in `CallerIdentity` as a function on short sequences,
   injectivity by exhaustive check.
6. The root's validity in `RootCeremony` and its effect on `Issuance`.
