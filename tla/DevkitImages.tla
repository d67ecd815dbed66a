---------------------------- MODULE DevkitImages ----------------------------
(***************************************************************************)
(* Commands of the development kit that share a host.  A command makes the *)
(* image it needs and the images that one is based on (docker/build.py),   *)
(* runs a container of it (docker_run.py) and, while the container runs,   *)
(* removes old images of the project in the background                     *)
(* (docker_cleanup.py).  Images are found by tags that are computed from   *)
(* what they are built from.  Developers edit the checkouts meanwhile.     *)
(*                                                                         *)
(* The docker daemon, the registry and the developers are external.        *)
(***************************************************************************)
EXTENDS Naturals, FiniteSets

CONSTANTS
  Commands,     \* runs of build_and_run
  Worktrees,    \* checkouts of the project
  Images,       \* names of images
  Allowed,      \* ALLOWED_IMAGE_NAMES
  Trees,        \* what a checkout may contain
  Starts,       \* what may be so at first: trees, checkouts, options, images, edits to come
  Edits,        \* the edits that developers may make: pairs of trees
  Target,       \* the image that commands ask for
  Absent,       \* no tag, no tree, no Dockerfile
  BatchSize,    \* CLEANUP_BATCH_SIZE
  MaxEdits      \* bound: edits of the checkouts

\* A tree: what devkit.json is like, the fields that it gives the registry,
\* whether the deps.json files can be read, the images that they configure with
\* the images each is based on, the Dockerfiles, and the images that stay out of
\* the registry.
Fields == {"host", "project", "repository", "namespace"}

\* devkit.json is in order or not there, is no JSON, or is refused: by
\* validate_config, or because a package has no version.
Configs == {"ok", "malformed", "refused"}

ASSUME TreeAssumption ==
  /\ \A t \in Trees :
       /\ t.devkit \in Configs /\ t.registry \subseteq Fields /\ t.readable \in BOOLEAN
       /\ DOMAIN t.deps \subseteq Images /\ DOMAIN t.file = Images
       /\ \A i \in DOMAIN t.deps : t.deps[i] \subseteq Images
       /\ t.local \subseteq Images
  /\ Target \in Images /\ Absent \notin Trees
  /\ \A s \in Starts :
       /\ s.src \in [Worktrees -> Trees] /\ s.work \in [Commands -> Worktrees]
       /\ DOMAIN s.opts = Commands /\ s.edits \in 0..MaxEdits

ASSUME BoundAssumption == BatchSize \in Nat \ {0} /\ MaxEdits \in Nat

VARIABLES
  src,       \* Worktrees -> Trees
  seen,      \* history: the trees that each checkout has had
  raced,     \* history: tags whose Dockerfile was edited between its hash and the build
  edits,     \* bound: edits so far, out of MaxEdits
  work,      \* the checkout that a command runs in
  opts,      \* its options
  pc,        \* where a command is
  conf,      \* the tree as build.py loaded its JSON files
  todo,      \* images that build.py has not processed
  cur,       \* the image that it processes
  read,      \* the Dockerfiles as it read them for generated_tags
  need,      \* the tag that a command found missing
  up,        \* commands whose container runs
  local,     \* images of the docker daemon, by tag
  remote,    \* images of the registry, by tag
  cl,        \* where the cleanup thread of a command is
  cancel,    \* its cancel_event
  found,     \* tags that it is to remove
  left,      \* what remains of its batch
  rmi,       \* the tag that it removes
  daemon,    \* removals that the daemon was asked for
  late       \* history: removals begun after the cancellation

treeVars  == <<src, seen, raced, edits, work, opts>>
buildVars == <<conf, todo, cur, read, need>>
cleanVars == <<cl, found, left, rmi, late>>
vars == <<treeVars, pc, buildVars, up, local, remote, cleanVars, cancel, daemon>>

----------------------------------------------------------------------------
(* The graph of images and their tags.                                      *)

\* The repository, if all of its parts are named, and the namespace.
parse_registry_config(t) ==
  [repo |-> {"host", "project", "repository"} \subseteq t.registry,
   namespace |-> "namespace" \in t.registry]

\* What the cleanup looks for: it does not validate the file, and a file that is no
\* JSON counts as one without a registry.
get_image_prefix(t) ==
  IF t.devkit = "malformed" THEN [repo |-> FALSE, namespace |-> FALSE]
  ELSE parse_registry_config(t)

\* What ends the constructor of DockerBuilder otherwise.
_load_config(t)       == t.devkit = "ok"
load_image_configs(t) == t.readable
InOrder(t)            == _load_config(t) /\ load_image_configs(t)

Deps(t, i) == IF i \in DOMAIN t.deps THEN t.deps[i] ELSE {}

\* The images that S needs, itself included.
Closure(t, S) ==
  {i \in Images : \A C \in SUBSET Images :
                    S \subseteq C /\ (\A j \in C : Deps(t, j) \subseteq C) => i \in C}

Cyclic(t, S) ==
  \E C \in SUBSET Closure(t, S) : C # {} /\ \A i \in C : Deps(t, i) \cap C # {}

\* Mutant: the tags of the bases are not hashed.
TagOfFile(t, files, i) ==
  [prefix |-> parse_registry_config(t), image |-> i, parts |-> {<<i, files[i], Deps(t, i)>>}]

\* A tag names the image and, through the hash of its Dockerfile and of the
\* tags of its bases, all that goes into it.  SHA256 is taken as injective.
Tag(t, files, i) ==
  [prefix |-> parse_registry_config(t), image |-> i,
   parts  |-> {<<j, files[j], Deps(t, j)>> : j \in Closure(t, {i})}]

\* calculate_tags of all images, of a tree that is in order.
CurrentTags(t) == {Tag(t, t.file, i) : i \in DOMAIN t.deps}

\* The ways in which it ends: a JSON file is bad, TopologicalSorter finds a
\* cycle, a Dockerfile is missing (all exit), a base is not configured (KeyError).
TagOutcomes(t) ==
  LET gone == {i \in DOMAIN t.deps : t.file[i] = Absent}
      open == Closure(t, DOMAIN t.deps) \ DOMAIN t.deps
  IN  IF ~InOrder(t) \/ Cyclic(t, DOMAIN t.deps) THEN {"exit"}
      ELSE IF gone \cup open = {} THEN {"ok"}
      ELSE {"exit" : i \in gone} \cup {"raise" : i \in open}

----------------------------------------------------------------------------
Put(store, g, image) ==
  [h \in DOMAIN store \cup {g} |-> IF h = g THEN image ELSE store[h]]
Drop(store, g) == [h \in DOMAIN store \ {g} |-> store[h]]

\* An image: what it was really built from, and whether it is older than
\* CLEANUP_THRESHOLD_DAYS.
Image(content, old) == [content |-> content, old |-> old]

Here(c)      == src[work[c]]
TagFor(c, i) == Tag(conf[c], read[c], i)
InUse(g)     == \E c \in up : TagFor(c, Target) = g
Building     == {"next", "inspect", "manifest", "pull", "build", "push"}
Final        == {"failed", "crashed", "done"}

Init ==
  /\ \E s \in Starts :
       /\ src = s.src /\ work = s.work /\ opts = s.opts /\ edits = MaxEdits - s.edits
       /\ seen = [w \in Worktrees |-> {s.src[w]}] /\ raced = {}
       /\ local = [g \in s.made |-> Image(g.parts, TRUE)]   \* made long ago
       /\ remote = [g \in s.pushed |-> Image(g.parts, TRUE)]
  /\ pc = [c \in Commands |-> "start"]
  /\ conf = [c \in Commands |-> Absent]
  /\ todo = [c \in Commands |-> {}]
  /\ cur = [c \in Commands |-> Target]
  /\ read = [c \in Commands |-> [i \in Images |-> Absent]]
  /\ need = [c \in Commands |-> Absent]
  /\ up = {}
  /\ cl = [c \in Commands |-> "off"]
  /\ cancel = [c \in Commands |-> FALSE]
  /\ found = [c \in Commands |-> {}]
  /\ left = [c \in Commands |-> 0]
  /\ rmi = [c \in Commands |-> Absent]
  /\ daemon = {}
  /\ late = [c \in Commands |-> 0]

----------------------------------------------------------------------------
(* docker/build.py <Target> --print-tag                                     *)

Goto(c, from, to) == pc[c] = from /\ pc' = [pc EXCEPT ![c] = to]

\* main, and the constructor of DockerBuilder: docker is not installed, a JSON
\* file is bad, the target is not configured, or its graph has a cycle.
LoadFails(c) ==
  /\ Goto(c, "start", "failed")
  /\ UNCHANGED <<treeVars, buildVars, up, local, remote, cleanVars, cancel, daemon>>

Loadable(t) == InOrder(t) /\ Target \in DOMAIN t.deps /\ ~Cyclic(t, {Target})

Load(c) ==
  /\ Loadable(Here(c))
  /\ Goto(c, "start", "next")
  /\ conf' = [conf EXCEPT ![c] = Here(c)]
  /\ todo' = [todo EXCEPT ![c] = Closure(Here(c), {Target})]
  /\ UNCHANGED <<treeVars, cur, read, need, up, local, remote, cleanVars, cancel, daemon>>

\* The next image in topological order, and its tag.  The Dockerfile is read
\* now; the tags of its bases are in generated_tags.
Ready(c) == {i \in todo[c] : Deps(conf[c], i) \cap todo[c] = {}}

Hash(c) ==
  \E i \in Ready(c) :
    /\ i \in DOMAIN conf[c].deps /\ Here(c).file[i] # Absent
    /\ Goto(c, "next", "inspect")
    /\ cur' = [cur EXCEPT ![c] = i]
    /\ read' = [read EXCEPT ![c][i] = Here(c).file[i]]
    /\ UNCHANGED <<treeVars, conf, todo, need, up, local, remote, cleanVars, cancel, daemon>>

\* The image is not configured, or it has no Dockerfile.
HashFails(c) ==
  /\ \E i \in Ready(c) : i \notin DOMAIN conf[c].deps \/ Here(c).file[i] = Absent
  /\ Goto(c, "next", "failed")
  /\ UNCHANGED <<treeVars, buildVars, up, local, remote, cleanVars, cancel, daemon>>

\* The image is there: go on with the next one, or print the tag of the target.
Made(c, from) ==
  /\ Goto(c, from, IF cur[c] = Target THEN "run" ELSE "next")
  /\ todo' = [todo EXCEPT ![c] = @ \ {cur[c]}]
  /\ UNCHANGED <<treeVars, conf, cur, read, need, up, cleanVars, cancel, daemon>>

CurTag(c)   == TagFor(c, cur[c])
ToBuild(c)  == ~parse_registry_config(conf[c]).repo \/ "local" \in opts[c] \/ cur[c] \in conf[c].local
Fresh(c)    == "no_cache" \in opts[c]

\* check_if_image_exists_locally; a failed query counts as a missing image.
InspectHit(c) ==
  /\ Made(c, "inspect")
  /\ ~Fresh(c) /\ CurTag(c) \in DOMAIN local
  /\ UNCHANGED <<local, remote>>

InspectMiss(c) ==
  /\ Goto(c, "inspect", IF ToBuild(c) \/ Fresh(c) THEN "build" ELSE "manifest")
  /\ UNCHANGED <<treeVars, buildVars, up, local, remote, cleanVars, cancel, daemon>>

\* check_if_image_exists_in_remote_registry
ManifestHit(c) ==
  /\ Goto(c, "manifest", "pull")
  /\ CurTag(c) \in DOMAIN remote
  /\ UNCHANGED <<treeVars, buildVars, up, local, remote, cleanVars, cancel, daemon>>

ManifestMiss(c) ==
  /\ Goto(c, "manifest", "build")
  /\ UNCHANGED <<treeVars, buildVars, up, local, remote, cleanVars, cancel, daemon>>

\* pull_image_from_registry
Pull(c) ==
  /\ Made(c, "pull")
  /\ CurTag(c) \in DOMAIN remote
  /\ local' = Put(local, CurTag(c), remote[CurTag(c)])
  /\ UNCHANGED remote

\* The bases of the image under their tags, from the daemon or the registry.
Bases(c)   == {TagFor(c, d) : d \in Deps(conf[c], cur[c])}
Base(g)    == IF g \in DOMAIN local THEN local[g] ELSE remote[g]
Lacking(c) == Bases(c) \ (DOMAIN local \cup DOMAIN remote)

\* build_image: the Dockerfile is read again, by docker.
Build(c) ==
  LET file == Here(c).file[cur[c]]
      content == {<<cur[c], file, Deps(conf[c], cur[c])>>} \cup UNION {Base(g).content : g \in Bases(c)}
  IN  /\ pc[c] = "build" /\ file # Absent /\ Lacking(c) = {}
      /\ local' = Put(local, CurTag(c), Image(content, FALSE))
      /\ IF ToBuild(c) THEN Made(c, "build")
         ELSE /\ Goto(c, "build", "push")
              /\ UNCHANGED <<treeVars, buildVars, up, cleanVars, cancel, daemon>>
      /\ UNCHANGED remote

BuildLacksBase(c) ==
  /\ Goto(c, "build", "failed")
  /\ \E g \in Lacking(c) : need' = [need EXCEPT ![c] = g]
  /\ UNCHANGED <<treeVars, conf, todo, cur, read, up, local, remote, cleanVars, cancel, daemon>>

\* docker build or docker pull fails (CalledProcessError, then sys.exit), or
\* Ctrl-C ends the command.
Aborts(c) ==
  /\ \E at \in Building \cup {"run"} : Goto(c, at, "failed")
  /\ UNCHANGED <<treeVars, buildVars, up, local, remote, cleanVars, cancel, daemon>>

\* push_image_to_registry: a failure is logged.
Push(c) ==
  /\ Made(c, "push")
  /\ UNCHANGED local
  /\ \/ UNCHANGED remote
     \/ /\ CurTag(c) \in DOMAIN local
        /\ remote' = Put(remote, CurTag(c), local[CurTag(c)])

----------------------------------------------------------------------------
(* docker_run.py                                                            *)

Wanted(c) == TagFor(c, Target)

StartCleanup(c) ==
  /\ Goto(c, "run", "docker")
  /\ cl' = [cl EXCEPT ![c] = "delay"]
  /\ UNCHANGED <<treeVars, buildVars, up, local, remote, found, left, rmi, late, cancel, daemon>>

\* xhost fails outside the try block: the process ends, its threads with it.
XhostFails(c) ==
  /\ Goto(c, "docker", "crashed")
  /\ cl' = [cl EXCEPT ![c] = "off"]
  /\ UNCHANGED <<treeVars, buildVars, up, local, remote, found, left, rmi, late, cancel, daemon>>

\* docker run; it pulls an image that the daemon does not have.
RunContainer(c) ==
  /\ Goto(c, "docker", "up")
  /\ up' = up \cup {c}
  /\ \/ Wanted(c) \in DOMAIN local /\ UNCHANGED local
     \/ /\ Wanted(c) \in DOMAIN remote \ DOMAIN local
        /\ local' = Put(local, Wanted(c), remote[Wanted(c)])
  /\ UNCHANGED <<treeVars, buildVars, remote, cleanVars, cancel, daemon>>

\* docker run fails or is interrupted; it cannot but fail without the image.
RunFails(c) ==
  /\ Goto(c, "docker", "join")
  /\ cancel' = [cancel EXCEPT ![c] = TRUE]
  /\ need' = [need EXCEPT ![c] = IF Wanted(c) \in DOMAIN local \cup DOMAIN remote THEN @ ELSE Wanted(c)]
  /\ UNCHANGED <<treeVars, conf, todo, cur, read, up, local, remote, cleanVars, daemon>>

ContainerEnds(c) ==
  /\ c \in up /\ up' = up \ {c}
  /\ UNCHANGED <<treeVars, pc, buildVars, local, remote, cleanVars, cancel, daemon>>

\* docker run returns, or Ctrl-C ends the wait for it: the container may stay.
Cancel(c, interrupted) ==
  /\ interrupted \/ c \notin up
  /\ Goto(c, "up", "join")
  /\ cancel' = [cancel EXCEPT ![c] = TRUE]
  /\ UNCHANGED <<treeVars, buildVars, up, local, remote, cleanVars, daemon>>

\* The join has a timeout and the thread is a daemon: it dies with the process.
Exit(c) ==
  /\ Goto(c, "join", "done")
  /\ cl' = [cl EXCEPT ![c] = "off"]
  /\ UNCHANGED <<treeVars, buildVars, up, local, remote, found, left, rmi, late, cancel, daemon>>

----------------------------------------------------------------------------
(* docker_cleanup.py                                                        *)

CleanGoto(c, from, to) == cl[c] = from /\ cl' = [cl EXCEPT ![c] = to]

\* The waits that a cancellation ends: the delay, and the one between batches.
CleanCancelled(c) ==
  /\ cancel[c]
  /\ \E at \in {"delay", "batch", "gap"} : CleanGoto(c, at, "off")
  /\ UNCHANGED <<treeVars, pc, buildVars, up, local, remote, found, left, rmi, late, cancel, daemon>>

\* Mutant: the list of known names is not consulted.
OldOfAnyName(t) == {g \in DOMAIN local : g.prefix = get_image_prefix(t) /\ local[g].old}

\* get_images and filter_allowed_images: tags of this project that are old and
\* have a known name.
Old(t) == {g \in DOMAIN local : g.prefix = get_image_prefix(t) /\ local[g].old /\ g.image \in Allowed}

CleanList(c) ==
  /\ ~cancel[c] /\ Old(Here(c)) # {}
  /\ CleanGoto(c, "delay", "spare")
  /\ found' = [found EXCEPT ![c] = Old(Here(c))]
  /\ UNCHANGED <<treeVars, pc, buildVars, up, local, remote, left, rmi, late, cancel, daemon>>

\* The listing fails, or nothing in it is the project's.
CleanFindsNothing(c) ==
  /\ ~cancel[c]
  /\ CleanGoto(c, "delay", "off")
  /\ UNCHANGED <<treeVars, pc, buildVars, up, local, remote, found, left, rmi, late, cancel, daemon>>

\* Mutant: only the image that commands run is spared, not what it is based on.
SparedTarget(t, outcome) == IF outcome = "ok" THEN {Tag(t, t.file, Target)} ELSE {}

\* get_ignored_images: an exception yields an empty list, sys.exit ends the thread.
Spared(t, outcome) == IF outcome = "ok" THEN CurrentTags(t) ELSE {}

CleanSpare(c) ==
  /\ \E outcome \in TagOutcomes(Here(c)) :
       \/ /\ outcome # "exit"
          /\ found' = [found EXCEPT ![c] = @ \ Spared(Here(c), outcome)]
          /\ CleanGoto(c, "spare", IF found'[c] = {} THEN "off" ELSE "batch")
          /\ left' = [left EXCEPT ![c] = BatchSize]
       \/ /\ outcome = "exit"
          /\ CleanGoto(c, "spare", "off")
          /\ UNCHANGED <<found, left>>
  /\ UNCHANGED <<treeVars, pc, buildVars, up, local, remote, rmi, late, cancel, daemon>>

\* cleanup_images_batch: the check of cancel_event, then docker rmi.
CleanTake(c) ==
  /\ ~cancel[c] /\ left[c] > 0
  /\ CleanGoto(c, "batch", "spawn")
  /\ \E g \in found[c] : rmi' = [rmi EXCEPT ![c] = g]
  /\ UNCHANGED <<treeVars, pc, buildVars, up, local, remote, found, left, late, cancel, daemon>>

\* Mutant: a removal is tried until it succeeds.
CleanSpawnAgain(c) ==
  /\ CleanGoto(c, "spawn", "poll")
  /\ daemon' = daemon \cup {<<c, rmi[c]>>}
  /\ found' = [found EXCEPT ![c] = @ \cap DOMAIN local]
  /\ left' = [left EXCEPT ![c] = @ - 1]
  /\ late' = [late EXCEPT ![c] = IF cancel[c] THEN @ + 1 ELSE @]
  /\ UNCHANGED <<treeVars, pc, buildVars, up, local, remote, rmi, cancel>>

CleanSpawn(c) ==
  /\ CleanGoto(c, "spawn", "poll")
  /\ daemon' = daemon \cup {<<c, rmi[c]>>}
  /\ found' = [found EXCEPT ![c] = @ \ {rmi[c]}]
  /\ left' = [left EXCEPT ![c] = @ - 1]
  /\ late' = [late EXCEPT ![c] = IF cancel[c] THEN @ + 1 ELSE @]
  /\ UNCHANGED <<treeVars, pc, buildVars, up, local, remote, rmi, cancel>>

\* Mutant: docker rmi is not waited for.
CleanPolledAtOnce(c) ==
  /\ CleanGoto(c, "poll", "batch")
  /\ UNCHANGED <<treeVars, pc, buildVars, up, local, remote, found, left, rmi, late, cancel, daemon>>

\* docker rmi has ended, whether or not it removed the image.
CleanPolled(c) ==
  /\ <<c, rmi[c]>> \notin daemon
  /\ CleanGoto(c, "poll", "batch")
  /\ UNCHANGED <<treeVars, pc, buildVars, up, local, remote, found, left, rmi, late, cancel, daemon>>

\* proc.terminate ends the client; the daemon may have the request already.
CleanTerminate(c) ==
  /\ cancel[c] /\ <<c, rmi[c]>> \in daemon
  /\ CleanGoto(c, "poll", "off")
  /\ \/ UNCHANGED daemon
     \/ daemon' = daemon \ {<<c, rmi[c]>>}
  /\ UNCHANGED <<treeVars, pc, buildVars, up, local, remote, found, left, rmi, late, cancel>>

\* The end of a batch, the wait after it, and the end of the last one.
CleanBatchEnds(c) ==
  /\ left[c] = 0 \/ found[c] = {}
  /\ CleanGoto(c, "batch", "gap")
  /\ UNCHANGED <<treeVars, pc, buildVars, up, local, remote, found, left, rmi, late, cancel, daemon>>

CleanNextBatch(c) ==
  /\ ~cancel[c]
  /\ CleanGoto(c, "gap", IF found[c] = {} THEN "off" ELSE "batch")
  /\ left' = [left EXCEPT ![c] = BatchSize]
  /\ UNCHANGED <<treeVars, pc, buildVars, up, local, remote, found, rmi, late, cancel, daemon>>

----------------------------------------------------------------------------
(* The docker daemon and the developers (external).                         *)

\* An image that a container uses is not removed; any removal may fail.
DaemonRemoves ==
  \E r \in daemon :
    /\ daemon' = daemon \ {r}
    /\ \/ UNCHANGED local
       \/ /\ r[2] \in DOMAIN local /\ ~InUse(r[2])
          /\ local' = Drop(local, r[2])
    /\ UNCHANGED <<treeVars, pc, buildVars, up, remote, cleanVars, cancel>>

\* Commands in the checkout w that have hashed a Dockerfile and may yet build from it.
Hashed(w) == {c \in Commands : work[c] = w /\ pc[c] \in {"inspect", "manifest", "pull", "build"}}

Edit ==
  \E w \in Worktrees, t \in Trees :
    /\ edits < MaxEdits /\ <<src[w], t>> \in Edits
    /\ src' = [src EXCEPT ![w] = t]
    /\ raced' = raced \cup {CurTag(c) : c \in {d \in Hashed(w) : t.file[cur[d]] # src[w].file[cur[d]]}}
    /\ seen' = [seen EXCEPT ![w] = @ \cup {t}]
    /\ edits' = edits + 1
    /\ UNCHANGED <<work, opts, pc, buildVars, up, local, remote, cleanVars, cancel, daemon>>

----------------------------------------------------------------------------
BuildStep(c) ==
  \/ LoadFails(c) \/ Load(c) \/ Hash(c) \/ HashFails(c)
  \/ InspectHit(c) \/ InspectMiss(c) \/ ManifestHit(c) \/ ManifestMiss(c)
  \/ Pull(c) \/ Build(c) \/ BuildLacksBase(c) \/ Aborts(c) \/ Push(c)

RunStep(c) ==
  \/ StartCleanup(c) \/ XhostFails(c) \/ RunContainer(c) \/ RunFails(c)
  \/ Cancel(c, FALSE) \/ Exit(c)

CleanStep(c) ==
  \/ CleanCancelled(c) \/ CleanList(c) \/ CleanFindsNothing(c) \/ CleanSpare(c)
  \/ CleanTake(c) \/ CleanSpawn(c) \/ CleanPolled(c) \/ CleanTerminate(c)
  \/ CleanBatchEnds(c) \/ CleanNextBatch(c)

Next ==
  \/ \E c \in Commands :
       BuildStep(c) \/ RunStep(c) \/ CleanStep(c) \/ Cancel(c, TRUE) \/ ContainerEnds(c)
  \/ DaemonRemoves
  \/ Edit

Spec == Init /\ [][Next]_vars

\* The interpreter and the operating system let every thread go on, and the
\* daemon answers.  A container may run for ever.
FairSpec ==
  /\ Spec
  /\ \A c \in Commands : WF_vars(BuildStep(c) \/ RunStep(c)) /\ WF_vars(CleanStep(c))
  /\ WF_vars(DaemonRemoves)

----------------------------------------------------------------------------
\* Every variable has its type.
TypeOK ==
  /\ src \in [Worktrees -> Trees] /\ seen \in [Worktrees -> SUBSET Trees] /\ edits \in 0..MaxEdits
  /\ work \in [Commands -> Worktrees] 
  /\ pc \in [Commands -> {"start", "run", "docker", "up", "join"} \cup Building \cup Final]
  /\ conf \in [Commands -> Trees \cup {Absent}]
  /\ todo \in [Commands -> SUBSET Images] /\ cur \in [Commands -> Images]
  /\ up \subseteq Commands
  /\ cl \in [Commands -> {"off", "delay", "spare", "batch", "spawn", "poll", "gap"}]
  /\ cancel \in [Commands -> BOOLEAN]
  /\ left \in [Commands -> 0..BatchSize] /\ late \in [Commands -> Nat]
  /\ \A c \in Commands : pc[c] \in Building \cup {"run", "docker", "up", "join"} => conf[c] \in Trees

\* Some checkout that was the project's at a time has had a state to which the tag
\* does not belong, or of which the tags could not be computed.
Stale(g) ==
  \E w \in Worktrees :
    /\ \E t \in seen[w] : get_image_prefix(t) = g.prefix
    /\ \E t \in seen[w] : g \notin CurrentTags(t) \/ "raise" \in TagOutcomes(t)

\* A command misses an image that it has made or found (docker build has no base,
\* docker run has no image) only when a cleanup could take the image for an old
\* one: commands in checkouts that agree never take each other's images away,
\* however build.py, docker run and get_ignored_images interleave.
KeepsNeeded == \A c \in Commands : need[c] # Absent => Stale(need[c])

\* An image disappears only if it is one of the project's, by its name and its
\* prefix, no container uses it, and it is stale (get_images_to_cleanup).
RemovesOnlyStale ==
  [][\A g \in DOMAIN local \ DOMAIN local' :
       g.image \in Allowed /\ ~InUse(g) /\ Stale(g)]_vars

\* Content-addressable tagging: what the daemon or the registry holds under a tag
\* was built from the Dockerfiles that the tag was computed from, the bases
\* included, with one exception.  docker reads a Dockerfile again after build.py has
\* hashed it: when it was edited in between, the tag names what is no longer there,
\* and so does every tag computed from that one, in any checkout and for ever.
Hurt(g) == \E h \in raced : h.prefix = g.prefix /\ h.parts \subseteq g.parts

PureImages ==
  /\ \A g \in DOMAIN local : local[g].content = g.parts \/ Hurt(g)
  /\ \A g \in DOMAIN remote : remote[g].content = g.parts \/ Hurt(g)

\* Once a cleanup is cancelled it begins at most one more removal (the one whose
\* check of cancel_event came before), and a command never has two under way.
LateRemovals ==
  \A c \in Commands :
    /\ late[c] <= 1
    /\ \A r, s \in daemon : r[1] = c /\ s[1] = c => r = s

\* Every command ends, unless its container keeps running, and every cleanup
\* ends, cancelled or not: all of them come to rest again and again.
ComesToRest ==
  []<>(\A c \in Commands : pc[c] \in {"up"} \cup Final /\ cl[c] = "off")
=============================================================================
