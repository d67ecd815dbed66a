---------------------------- MODULE DevkitProofs ----------------------------
(***************************************************************************)
(* Theorems about the development kit: DevkitImages, for any commands,     *)
(* checkouts, images, trees and edits; ContainerEvents, for any strangers, *)
(* any kinds of them and any backlog; and DevkitTools, for any input of    *)
(* its programs.  The three share no state.                                *)
(***************************************************************************)
EXTENDS DevkitImages, ContainerEvents, DevkitTools, WellFoundedInduction, FiniteSetTheorems,
        SequenceTheorems, TLAPS

----------------------------------------------------------------------------
(* The graph of images.                                                     *)

Closed(t, C) == \A j \in C : Deps(t, j) \subseteq C

\* The bases of an image are images, configured or not.
LEMMA DepsAreImages == ASSUME NEW t \in Trees, NEW i PROVE Deps(t, i) \subseteq Images
  BY TreeAssumption DEF Deps

\* The closure has what it is of, is closed, and is the least such set.
LEMMA ClosureHas ==
  ASSUME NEW t, NEW S \in SUBSET Images
  PROVE  S \subseteq Closure(t, S) /\ Closure(t, S) \subseteq Images
  BY DEF Closure

\* The closure lies in every closed set that has what it is of.
LEMMA ClosureIsLeast ==
  ASSUME NEW t, NEW S, NEW C \in SUBSET Images, S \subseteq C, Closed(t, C)
  PROVE  Closure(t, S) \subseteq C
  BY DEF Closure, Closed

\* With an image its closure has the bases of it.
LEMMA ClosureIsClosed ==
  ASSUME NEW t \in Trees, NEW S \in SUBSET Images
  PROVE  Closed(t, Closure(t, S))
  <1> SUFFICES ASSUME NEW j \in Closure(t, S), NEW k \in Deps(t, j),
                      NEW C \in SUBSET Images, S \subseteq C, Closed(t, C)
               PROVE  k \in Images /\ k \in C
    BY DepsAreImages DEF Closed, Closure
  <1>1. j \in C
    BY ClosureIsLeast
  <1> QED
    BY <1>1, DepsAreImages DEF Closed

\* An image needs itself and what its bases need.
LEMMA ClosureStep ==
  ASSUME NEW t \in Trees, NEW i \in Images
  PROVE  Closure(t, {i}) = {i} \cup UNION {Closure(t, {d}) : d \in Deps(t, i)}
  <1> DEFINE R == {i} \cup UNION {Closure(t, {d}) : d \in Deps(t, i)}
  <1>0. \A d \in Deps(t, i) : d \in Images /\ {d} \in SUBSET Images
    BY DepsAreImages
  <1>1. R \in SUBSET Images
    <2>1. ASSUME NEW d \in Deps(t, i) PROVE Closure(t, {d}) \subseteq Images
      BY <1>0, ClosureHas
    <2> QED
      BY <2>1
  <1>2. Closed(t, R)
    <2> SUFFICES ASSUME NEW j \in R, NEW k \in Deps(t, j) PROVE k \in R
      BY DEF Closed
    <2>1. CASE j = i
      BY <2>1, <1>0, ClosureHas
    <2>2. CASE \E d \in Deps(t, i) : j \in Closure(t, {d})
      <3>1. PICK d \in Deps(t, i) : j \in Closure(t, {d})
        BY <2>2
      <3>2. k \in Closure(t, {d})
        BY <3>1, <1>0, ClosureIsClosed DEF Closed
      <3> QED
        BY <3>2
    <2> QED
      BY <2>1, <2>2
  <1>3. Closure(t, {i}) \subseteq R
    <2> HIDE DEF R
    <2>1. {i} \subseteq R
      BY DEF R
    <2> QED
      BY <1>1, <1>2, <2>1, ClosureIsLeast
  <1>4. ASSUME NEW d \in Deps(t, i) PROVE Closure(t, {d}) \subseteq Closure(t, {i})
    <2>1. Closed(t, Closure(t, {i})) /\ i \in Closure(t, {i}) /\ Closure(t, {i}) \in SUBSET Images
      BY ClosureIsClosed, ClosureHas
    <2>2. d \in Closure(t, {i})
      BY <2>1 DEF Closed
    <2> QED
      BY <2>1, <2>2, ClosureIsLeast
  <1>5. R \subseteq Closure(t, {i})
    <2>1. i \in Closure(t, {i})
      BY ClosureHas
    <2> QED
      BY <1>4, <2>1
  <1> QED
    BY <1>3, <1>5

----------------------------------------------------------------------------
(* Types, and what holds of the threads and of the daemon.                  *)

\* Functions that TypeOK says nothing of.
ShapeInv ==
  /\ DOMAIN read = Commands /\ \A c \in Commands : DOMAIN read[c] = Images
  /\ DOMAIN found = Commands /\ DOMAIN rmi = Commands /\ DOMAIN need = Commands

\* A cleanup runs while its command does; a removal begun after the cancellation
\* is the last.
CleanInv ==
  \A c \in Commands :
    /\ cl[c] # "off" => pc[c] \in {"docker", "up", "join"}
    /\ cl[c] = "spawn" => left[c] > 0
    /\ late[c] <= 1
    /\ late[c] > 0 => cancel[c] /\ cl[c] # "spawn"

\* A removal that the daemon was asked for is the last one of its command, which
\* polls for it or has given it up.
DaemonInv ==
  \A r \in daemon : \E c \in Commands :
    /\ r = <<c, rmi[c]>>
    /\ cl[c] \in {"poll", "off"}
    /\ pc[c] \in {"docker", "up", "join", "done", "crashed"}

BaseInv == TypeOK /\ ShapeInv /\ CleanInv /\ DaemonInv

\* At the start no command has begun and the daemon was asked for nothing.
LEMMA InitBase == Init => BaseInv
  <1> SUFFICES ASSUME Init PROVE BaseInv
    OBVIOUS
  <1>1. PICK s \in Starts :
          /\ src = s.src /\ work = s.work /\ opts = s.opts /\ edits = MaxEdits - s.edits
          /\ seen = [w \in Worktrees |-> {s.src[w]}]
    BY DEF Init
  <1>2. src \in [Worktrees -> Trees] /\ work \in [Commands -> Worktrees] /\ edits \in 0..MaxEdits
    BY <1>1, TreeAssumption, BoundAssumption
  <1>3. seen \in [Worktrees -> SUBSET Trees]
    BY <1>1, TreeAssumption
  <1>4. TypeOK
    BY <1>2, <1>3, TreeAssumption, BoundAssumption DEF Init, TypeOK, Building, Final
  <1>5. ShapeInv /\ CleanInv /\ DaemonInv
    BY DEF Init, ShapeInv, CleanInv, DaemonInv
  <1> QED
    BY <1>4, <1>5 DEF BaseInv

\* Where a command is before docker_run.py has started a cleanup.
Early == {"start", "run"} \cup Building

\* Steps of build.py touch no cleanup, and happen before one is started.
LEMMA BuildFrame ==
  ASSUME NEW c \in Commands, BuildStep(c)
  PROVE  /\ UNCHANGED <<treeVars, up, cleanVars, cancel, daemon>>
         /\ pc[c] \in Early
         /\ \E x \in Building \cup {"run", "failed"} : pc' = [pc EXCEPT ![c] = x]
  <1> USE DEF Goto, Building, Early
  <1>1. CASE LoadFails(c) \/ Load(c)
    BY <1>1 DEF LoadFails, Load
  <1>2. CASE Hash(c) \/ HashFails(c)
    BY <1>2 DEF Hash, HashFails
  <1>3. CASE InspectHit(c) \/ InspectMiss(c) \/ ManifestHit(c) \/ ManifestMiss(c)
    BY <1>3 DEF InspectHit, InspectMiss, ManifestHit, ManifestMiss, Made
  <1>4. CASE Pull(c) \/ Push(c)
    BY <1>4 DEF Pull, Push, Made
  <1>5. CASE Build(c)
    BY <1>5 DEF Build, Made
  <1>6. CASE BuildLacksBase(c) \/ Aborts(c)
    BY <1>6 DEF BuildLacksBase, Aborts
  <1> QED
    BY <1>1, <1>2, <1>3, <1>4, <1>5, <1>6 DEF BuildStep

\* The types of what build.py changes.
LEMMA BuildTypes ==
  ASSUME TypeOK, ShapeInv, NEW c \in Commands, BuildStep(c)
  PROVE  TypeOK' /\ ShapeInv'
  <1> USE DEF Goto, treeVars, buildVars, cleanVars, Building, Final
  <1>0. Closure(Here(c), {Target}) \in SUBSET Images
    BY ClosureHas, TreeAssumption
  <1>1. CASE LoadFails(c)
    BY <1>1 DEF LoadFails, TypeOK, ShapeInv
  <1>7. CASE Load(c)
    <2>1. Here(c) \in Trees
      BY DEF Here, TypeOK
    <2>2. UNCHANGED <<treeVars, cur, read, need, up, local, remote, cleanVars, cancel, daemon>>
      BY <1>7 DEF Load
    <2>3. /\ conf' = [conf EXCEPT ![c] = Here(c)]
          /\ todo' = [todo EXCEPT ![c] = Closure(Here(c), {Target})]
      BY <1>7 DEF Load
    <2>4. pc' = [pc EXCEPT ![c] = "next"]
      BY <1>7 DEF Load
    <2> QED
      BY <1>0, <2>1, <2>2, <2>3, <2>4 DEF TypeOK, ShapeInv
  <1>2. CASE Hash(c)
    BY <1>2 DEF Hash, Ready, TypeOK, ShapeInv
  <1>3. CASE HashFails(c) \/ InspectMiss(c) \/ ManifestHit(c) \/ ManifestMiss(c) \/ Aborts(c)
    BY <1>3 DEF HashFails, InspectMiss, ManifestHit, ManifestMiss, Aborts, TypeOK, ShapeInv
  <1>4. CASE InspectHit(c) \/ Pull(c) \/ Push(c)
    <2>1. CASE InspectHit(c)
      BY <2>1 DEF InspectHit, Made, TypeOK, ShapeInv
    <2>2. CASE Pull(c)
      BY <2>2 DEF Pull, Made, TypeOK, ShapeInv
    <2>3. CASE Push(c)
      BY <2>3 DEF Push, Made, TypeOK, ShapeInv
    <2> QED
      BY <1>4, <2>1, <2>2, <2>3
  <1>5. CASE Build(c)
    BY <1>5 DEF Build, Made, TypeOK, ShapeInv
  <1>6. CASE BuildLacksBase(c)
    BY <1>6 DEF BuildLacksBase, TypeOK, ShapeInv
  <1> QED
    BY <1>1, <1>2, <1>3, <1>4, <1>5, <1>6, <1>7 DEF BuildStep

\* build.py.
LEMMA BuildKeepsBase ==
  ASSUME BaseInv, NEW c \in Commands, BuildStep(c) PROVE BaseInv'
  <1> USE DEF BaseInv
  <1>1. TypeOK' /\ ShapeInv'
    BY BuildTypes
  <1>2. CleanInv'
    BY BuildFrame DEF TypeOK, CleanInv, Early, Building, cleanVars
  <1>3. DaemonInv'
    BY BuildFrame DEF TypeOK, DaemonInv, Early, Building, cleanVars
  <1> QED
    BY <1>1, <1>2, <1>3

\* docker_run.py.
LEMMA RunKeepsBase ==
  ASSUME BaseInv, NEW c \in Commands, RunStep(c) \/ Cancel(c, TRUE) PROVE BaseInv'
  <1> USE DEF BaseInv, Goto, treeVars, buildVars, cleanVars, Building, Final
  <1>1. CASE StartCleanup(c) \/ XhostFails(c) \/ Exit(c)
    <2>1. TypeOK' /\ ShapeInv'
      BY <1>1 DEF StartCleanup, XhostFails, Exit, TypeOK, ShapeInv
    <2>2. CleanInv'
      BY <1>1 DEF StartCleanup, XhostFails, Exit, TypeOK, CleanInv
    <2>3. DaemonInv'
      BY <1>1 DEF StartCleanup, XhostFails, Exit, TypeOK, CleanInv, DaemonInv
    <2> QED
      BY <2>1, <2>2, <2>3
  <1>2. CASE RunContainer(c)
    BY <1>2 DEF RunContainer, TypeOK, ShapeInv, CleanInv, DaemonInv
  <1>3. CASE RunFails(c)
    BY <1>3 DEF RunFails, TypeOK, ShapeInv, CleanInv, DaemonInv
  <1>4. CASE Cancel(c, TRUE) \/ Cancel(c, FALSE)
    <2>1. TypeOK' /\ ShapeInv'
      BY <1>4 DEF Cancel, TypeOK, ShapeInv
    <2>2. CleanInv'
      BY <1>4 DEF Cancel, TypeOK, CleanInv
    <2>3. DaemonInv'
      BY <1>4 DEF Cancel, TypeOK, CleanInv, DaemonInv
    <2> QED
      BY <2>1, <2>2, <2>3
  <1> QED
    BY <1>1, <1>2, <1>3, <1>4 DEF RunStep

\* docker_cleanup.py.
LEMMA CleanKeepsBase ==
  ASSUME BaseInv, NEW c \in Commands, CleanStep(c) PROVE BaseInv'
  <1> USE BoundAssumption DEF BaseInv, CleanGoto, treeVars, buildVars
  <1>1. CASE CleanCancelled(c) \/ CleanFindsNothing(c) \/ CleanPolled(c) \/ CleanBatchEnds(c)
    <2>1. TypeOK' /\ ShapeInv'
      BY <1>1 DEF CleanCancelled, CleanFindsNothing, CleanPolled, CleanBatchEnds, TypeOK, ShapeInv
    <2>2. CleanInv'
      BY <1>1 DEF CleanCancelled, CleanFindsNothing, CleanPolled, CleanBatchEnds, TypeOK, CleanInv
    <2>3. DaemonInv'
      BY <1>1 DEF CleanCancelled, CleanFindsNothing, CleanPolled, CleanBatchEnds, TypeOK, CleanInv, DaemonInv
    <2> QED
      BY <2>1, <2>2, <2>3
  <1>2. CASE CleanList(c)
    BY <1>2 DEF CleanList, TypeOK, ShapeInv, CleanInv, DaemonInv
  <1>3. CASE CleanSpare(c)
    BY <1>3 DEF CleanSpare, TypeOK, ShapeInv, CleanInv, DaemonInv
  <1>4. CASE CleanTake(c)
    BY <1>4 DEF CleanTake, TypeOK, ShapeInv, CleanInv, DaemonInv
  <1>5. CASE CleanSpawn(c)
    <2>1. TypeOK' /\ ShapeInv'
      BY <1>5 DEF CleanSpawn, TypeOK, ShapeInv, CleanInv
    <2>2. CleanInv'
      BY <1>5 DEF CleanSpawn, TypeOK, ShapeInv, CleanInv
    <2>3. DaemonInv'
      BY <1>5 DEF CleanSpawn, TypeOK, ShapeInv, CleanInv, DaemonInv
    <2> QED
      BY <2>1, <2>2, <2>3
  <1>6. CASE CleanTerminate(c)
    BY <1>6 DEF CleanTerminate, TypeOK, ShapeInv, CleanInv, DaemonInv
  <1>7. CASE CleanNextBatch(c)
    BY <1>7 DEF CleanNextBatch, TypeOK, ShapeInv, CleanInv, DaemonInv
  <1> QED
    BY <1>1, <1>2, <1>3, <1>4, <1>5, <1>6, <1>7 DEF CleanStep

\* Every step keeps the types and what holds of threads and daemon.
LEMMA NextKeepsBase == ASSUME BaseInv, [Next]_vars PROVE BaseInv'
  <1>1. CASE \E c \in Commands : ContainerEnds(c)
    BY <1>1 DEF ContainerEnds, BaseInv, TypeOK, ShapeInv, CleanInv, DaemonInv,
                treeVars, buildVars, cleanVars
  <1>2. CASE DaemonRemoves
    BY <1>2 DEF DaemonRemoves, BaseInv, TypeOK, ShapeInv, CleanInv, DaemonInv,
                treeVars, buildVars, cleanVars
  <1>3. CASE Edit
    <2>1. TypeOK'
      BY <1>3, BoundAssumption DEF Edit, BaseInv, TypeOK, buildVars, cleanVars
    <2> QED
      BY <1>3, <2>1 DEF Edit, BaseInv, ShapeInv, CleanInv, DaemonInv, buildVars, cleanVars
  <1>4. CASE UNCHANGED vars
    BY <1>4 DEF BaseInv, TypeOK, ShapeInv, CleanInv, DaemonInv, vars, treeVars, buildVars, cleanVars
  <1> QED
    BY <1>1, <1>2, <1>3, <1>4, BuildKeepsBase, RunKeepsBase, CleanKeepsBase DEF Next

----------------------------------------------------------------------------
(* What is removed is stale.                                                *)

\* What a cleanup may remove.
Candidate(g) == g.image \in Allowed /\ Stale(g)

\* Of the project, by what devkit.json of the checkout has said at a time.
Ours(c, g) == g.image \in Allowed /\ \E t \in seen[work[c]] : get_image_prefix(t) = g.prefix

Cleaning == {"batch", "spawn", "poll", "gap"}

StaleInv ==
  /\ \A w \in Worktrees : src[w] \in seen[w]
  /\ \A c \in Commands :
       /\ cl[c] = "spare" => \A g \in found[c] : Ours(c, g)
       /\ cl[c] \in Cleaning => \A g \in found[c] : Candidate(g)
       /\ cl[c] \in {"spawn", "poll"} => Candidate(rmi[c])
  /\ \A r \in daemon : Candidate(r[2])

\* What is stale stays so: the history only grows.
LEMMA StaleStays ==
  ASSUME TypeOK, NEW g, Stale(g), UNCHANGED seen \/ Edit PROVE Stale(g)'
  <1>1. PICK w \in Worktrees :
          /\ \E t \in seen[w] : get_image_prefix(t) = g.prefix
          /\ \E t \in seen[w] : g \notin CurrentTags(t) \/ "raise" \in TagOutcomes(t)
    BY DEF Stale
  <1>2. seen[w] \subseteq seen'[w]
    <2>1. CASE UNCHANGED seen
      BY <2>1
    <2>2. CASE Edit
      BY <2>2 DEF Edit, TypeOK
    <2> QED
      BY <2>1, <2>2
  <1> QED
    BY <1>1, <1>2 DEF Stale

\* What was a project's once stays so.
LEMMA OursStays ==
  ASSUME TypeOK, NEW c \in Commands, NEW g, Ours(c, g), UNCHANGED <<seen, work>> \/ Edit
  PROVE  Ours(c, g)'
  <1>1. work' = work /\ seen[work[c]] \subseteq seen'[work[c]]
    <2>1. CASE UNCHANGED <<seen, work>>
      BY <2>1
    <2>2. CASE Edit
      BY <2>2 DEF Edit, TypeOK
    <2> QED
      BY <2>1, <2>2
  <1> QED
    BY <1>1 DEF Ours

\* Steps of a cleanup.
LEMMA CleanKeepsStale ==
  ASSUME BaseInv, StaleInv, NEW c \in Commands, CleanStep(c) PROVE StaleInv'
  <1> USE DEF CleanGoto, treeVars, Cleaning
  <1>0. /\ UNCHANGED <<src, seen, work>>
        /\ \A g : Stale(g) <=> Stale(g)'
        /\ \A g : Candidate(g) <=> Candidate(g)'
        /\ \A g : \A d \in Commands : Ours(d, g) <=> Ours(d, g)'
    <2>1. UNCHANGED <<src, seen, work>>
      BY DEF CleanStep, CleanCancelled, CleanList, CleanFindsNothing, CleanSpare, CleanTake,
             CleanSpawn, CleanPolled, CleanTerminate, CleanBatchEnds, CleanNextBatch
    <2>2. \A g : Stale(g) <=> Stale(g)'
      BY <2>1 DEF Stale
    <2> QED
      BY <2>1, <2>2 DEF Candidate, Ours
  <1> USE DEF BaseInv, TypeOK, ShapeInv
  <1> HIDE DEF treeVars
  <1>1. CASE CleanCancelled(c) \/ CleanFindsNothing(c) \/ CleanPolled(c) \/ CleanBatchEnds(c)
    BY <1>0, <1>1 DEF StaleInv, CleanCancelled, CleanFindsNothing, CleanPolled, CleanBatchEnds
  <1>2. CASE CleanList(c)
    <2>1. \A g \in found'[c] : Ours(c, g)
      BY <1>2 DEF CleanList, StaleInv, Ours, Old, Here
    <2> QED
      BY <1>0, <1>2, <2>1 DEF StaleInv, CleanList
  <1>3. CASE CleanSpare(c)
    <2>1. PICK outcome \in TagOutcomes(Here(c)) :
            \/ /\ outcome # "exit"
               /\ found' = [found EXCEPT ![c] = @ \ Spared(Here(c), outcome)]
               /\ cl' = [cl EXCEPT ![c] = IF found'[c] = {} THEN "off" ELSE "batch"]
            \/ /\ cl' = [cl EXCEPT ![c] = "off"]
               /\ UNCHANGED found
      BY <1>3 DEF CleanSpare
    <2>2. outcome \in {"ok", "exit", "raise"}
      BY DEF TagOutcomes
    <2>3. ASSUME outcome # "exit", NEW g \in found[c] \ Spared(Here(c), outcome)
          PROVE  Candidate(g)
      <3>1. Ours(c, g)
        BY <1>3 DEF CleanSpare, StaleInv
      <3>2. Here(c) \in seen[work[c]] /\ work[c] \in Worktrees
        BY DEF StaleInv, Here
      <3>3. g \notin CurrentTags(Here(c)) \/ "raise" \in TagOutcomes(Here(c))
        BY <2>2, <2>3 DEF Spared
      <3> QED
        BY <3>1, <3>2, <3>3 DEF Candidate, Stale, Ours
    <2> QED
      BY <1>0, <1>3, <2>1, <2>3 DEF StaleInv, CleanSpare
  <1>4. CASE CleanTake(c)
    BY <1>0, <1>4 DEF StaleInv, CleanTake
  <1>5. CASE CleanSpawn(c)
    BY <1>0, <1>5 DEF StaleInv, CleanSpawn
  <1>6. CASE CleanTerminate(c)
    BY <1>0, <1>6 DEF StaleInv, CleanTerminate
  <1>7. CASE CleanNextBatch(c)
    BY <1>0, <1>7 DEF StaleInv, CleanNextBatch
  <1> QED
    BY <1>1, <1>2, <1>3, <1>4, <1>5, <1>6, <1>7 DEF CleanStep

\* Steps of anything else start a cleanup, end it, or leave it alone.
LEMMA OtherKeepsStale ==
  ASSUME BaseInv, StaleInv, UNCHANGED <<treeVars, found, rmi>>, daemon' \subseteq daemon,
         cl' = cl \/ \E c \in Commands, x \in {"delay", "off"} : cl' = [cl EXCEPT ![c] = x]
  PROVE  StaleInv'
  <1>1. \A g : Stale(g) <=> Stale(g)'
    BY DEF Stale, treeVars
  <1>2. \A g : Candidate(g) <=> Candidate(g)'
    BY <1>1 DEF Candidate
  <1>3. \A g : \A d \in Commands : Ours(d, g) <=> Ours(d, g)'
    BY DEF Ours, treeVars
  <1> QED
    BY <1>2, <1>3 DEF StaleInv, BaseInv, TypeOK, Cleaning, treeVars

\* Every step keeps what is to be removed stale.
LEMMA NextKeepsStale == ASSUME BaseInv, StaleInv, [Next]_vars PROVE StaleInv'
  <1>1. CASE \E c \in Commands : BuildStep(c)
    BY <1>1, BuildFrame, OtherKeepsStale DEF cleanVars
  <1>2. CASE \E c \in Commands : RunStep(c) \/ Cancel(c, TRUE)
    BY <1>2, OtherKeepsStale DEF RunStep, StartCleanup, XhostFails, RunContainer, RunFails,
                                 Cancel, Exit, cleanVars
  <1>3. CASE \E c \in Commands : CleanStep(c)
    BY <1>3, CleanKeepsStale
  <1>4. CASE DaemonRemoves \/ (\E c \in Commands : ContainerEnds(c)) \/ UNCHANGED vars
    BY <1>4, OtherKeepsStale DEF DaemonRemoves, ContainerEnds, vars, cleanVars
  <1>5. CASE Edit
    <2>1. ASSUME NEW g, Candidate(g) PROVE Candidate(g)'
      BY <1>5, <2>1, StaleStays DEF Candidate, BaseInv
    <2>2. ASSUME NEW c \in Commands, NEW g, Ours(c, g) PROVE Ours(c, g)'
      BY <1>5, <2>2, OursStays DEF BaseInv
    <2>3. \A w \in Worktrees : src'[w] \in seen'[w]
      BY <1>5 DEF Edit, StaleInv, BaseInv, TypeOK
    <2>4. UNCHANGED <<cl, found, rmi, daemon>>
      BY <1>5 DEF Edit, cleanVars
    <2> QED
      BY <2>1, <2>2, <2>3, <2>4 DEF StaleInv
  <1> QED
    BY <1>1, <1>2, <1>3, <1>4, <1>5 DEF Next

\* The images of a daemon disappear only by a removal.
Gone == DOMAIN local \ DOMAIN local'

\* It is only the daemon that removes, and only what it was asked for.
LEMMA RemovalIsStale ==
  ASSUME BaseInv, StaleInv, [Next]_vars
  PROVE  \A g \in Gone : Candidate(g) /\ ~InUse(g)
  <1>1. CASE \E c \in Commands : BuildStep(c)
    <2>1. DOMAIN local \subseteq DOMAIN local'
      BY <1>1 DEF BuildStep, LoadFails, Load, Hash, HashFails, InspectHit, InspectMiss, ManifestHit,
                  ManifestMiss, Pull, Build, BuildLacksBase, Aborts, Push, Put
    <2> QED
      BY <2>1 DEF Gone
  <1>2. CASE \E c \in Commands : RunStep(c) \/ Cancel(c, TRUE) \/ ContainerEnds(c)
    <2>1. DOMAIN local \subseteq DOMAIN local'
      BY <1>2 DEF RunStep, StartCleanup, XhostFails, RunContainer, RunFails, Cancel, Exit,
                  ContainerEnds, Put
    <2> QED
      BY <2>1 DEF Gone
  <1>3. CASE (\E c \in Commands : CleanStep(c)) \/ Edit \/ UNCHANGED vars
    <2>1. local' = local
      BY <1>3 DEF CleanStep, CleanCancelled, CleanList, CleanFindsNothing, CleanSpare, CleanTake,
             CleanSpawn, CleanPolled, CleanTerminate, CleanBatchEnds, CleanNextBatch, Edit, vars
    <2> QED
      BY <2>1 DEF Gone
  <1>4. CASE DaemonRemoves
    <2>1. PICK r \in daemon :
            UNCHANGED local \/ (r[2] \in DOMAIN local /\ ~InUse(r[2]) /\ local' = Drop(local, r[2]))
      BY <1>4 DEF DaemonRemoves
    <2>2. Gone \subseteq {r[2]}
      BY <2>1 DEF Gone, Drop
    <2>3. Candidate(r[2])
      BY DEF StaleInv
    <2>4. CASE UNCHANGED local
      BY <2>4 DEF Gone
    <2>5. CASE ~InUse(r[2])
      BY <2>2, <2>3, <2>5
    <2> QED
      BY <2>1, <2>4, <2>5
  <1> QED
    BY <1>1, <1>2, <1>3, <1>4 DEF Next

----------------------------------------------------------------------------
(* What a command has made is there, or stale.                              *)

Needs(c) == Closure(conf[c], {Target})

\* Images of a command that it has done with are under their tags, or were taken for
\* old ones.
There(g) == g \in DOMAIN local \cup DOMAIN remote \/ Stale(g)

Working == {"inspect", "manifest", "pull", "build", "push"}

\* What build.py has done with is closed: the order is topological.
OrderInv ==
  \A c \in Commands : pc[c] \in Building \cup {"run", "docker"} =>
    /\ todo[c] \subseteq Needs(c)
    /\ \A i \in Needs(c) \ todo[c] : Deps(conf[c], i) \cap todo[c] = {}
    /\ pc[c] \in Working => cur[c] \in todo[c] /\ Deps(conf[c], cur[c]) \cap todo[c] = {}
    /\ pc[c] \in {"run", "docker"} => Target \notin todo[c]

ThereInv ==
  \A c \in Commands : pc[c] \in Building \cup {"run", "docker"} =>
    /\ \A i \in Needs(c) \ todo[c] : There(TagFor(c, i))
    /\ pc[c] = "push" => There(CurTag(c))

NeededInv == OrderInv /\ ThereInv /\ KeepsNeeded

\* The tags of what is done with do not change when another Dockerfile is read.
LEMMA DoneIsClosed ==
  ASSUME TypeOK, OrderInv, NEW c \in Commands, pc[c] \in Building \cup {"run", "docker"},
         NEW i \in Needs(c) \ todo[c]
  PROVE  Closure(conf[c], {i}) \cap todo[c] = {}
  <1> DEFINE D == Needs(c) \ todo[c]
  <1>0. conf[c] \in Trees /\ Target \in Images
    BY TreeAssumption DEF TypeOK, Building
  <1>1. Needs(c) \in SUBSET Images /\ Closed(conf[c], Needs(c))
    BY <1>0, ClosureHas, ClosureIsClosed DEF Needs
  <1>2. Closed(conf[c], D)
    BY <1>1 DEF OrderInv, Closed
  <1>3. {i} \subseteq D /\ D \in SUBSET Images
    BY <1>1
  <1>4. Closure(conf[c], {i}) \subseteq D
    <2> HIDE DEF D
    <2> QED
      BY <1>2, <1>3, ClosureIsLeast
  <1> QED
    BY <1>4

\* What is there stays, or is stale once it is gone.
LEMMA ThereStays ==
  ASSUME BaseInv, StaleInv, [Next]_vars, NEW g, There(g) PROVE There(g)'
  <1>1. UNCHANGED seen \/ Edit
    <2>1. CASE \E c \in Commands : BuildStep(c)
      BY <2>1, BuildFrame DEF treeVars
    <2>2. CASE \E c \in Commands : RunStep(c) \/ Cancel(c, TRUE) \/ ContainerEnds(c)
      BY <2>2 DEF RunStep, StartCleanup, XhostFails, RunContainer, RunFails, Cancel, Exit,
                  ContainerEnds, treeVars
    <2>3. CASE (\E c \in Commands : CleanStep(c)) \/ DaemonRemoves \/ UNCHANGED vars
      BY <2>3 DEF CleanStep, CleanCancelled, CleanList, CleanFindsNothing, CleanSpare, CleanTake,
             CleanSpawn, CleanPolled, CleanTerminate, CleanBatchEnds, CleanNextBatch,
             DaemonRemoves, vars, treeVars
    <2> QED
      BY <2>1, <2>2, <2>3 DEF Next
  <1>2. DOMAIN remote \subseteq DOMAIN remote'
    <2>1. CASE \E c \in Commands : BuildStep(c)
      BY <2>1 DEF BuildStep, LoadFails, Load, Hash, HashFails, InspectHit, InspectMiss, ManifestHit,
                  ManifestMiss, Pull, Build, BuildLacksBase, Aborts, Push, Put
    <2>2. CASE \E c \in Commands : RunStep(c) \/ Cancel(c, TRUE) \/ ContainerEnds(c)
      BY <2>2 DEF RunStep, StartCleanup, XhostFails, RunContainer, RunFails, Cancel, Exit,
                  ContainerEnds
    <2>3. CASE (\E c \in Commands : CleanStep(c)) \/ DaemonRemoves \/ Edit \/ UNCHANGED vars
      BY <2>3 DEF CleanStep, CleanCancelled, CleanList, CleanFindsNothing, CleanSpare, CleanTake,
             CleanSpawn, CleanPolled, CleanTerminate, CleanBatchEnds, CleanNextBatch,
             DaemonRemoves, Edit, vars
    <2> QED
      BY <2>1, <2>2, <2>3 DEF Next
  <1>3. CASE Stale(g)
    BY <1>1, <1>3, StaleStays DEF There, BaseInv
  <1>4. CASE g \in DOMAIN remote
    BY <1>2, <1>4 DEF There
  <1>5. CASE g \in DOMAIN local /\ g \in DOMAIN local'
    BY <1>5 DEF There
  <1>6. CASE g \in DOMAIN local /\ g \notin DOMAIN local'
    <2>1. Stale(g)
      BY <1>6, RemovalIsStale DEF Gone, Candidate
    <2> QED
      BY <1>3, <2>1
  <1> QED
    BY <1>3, <1>4, <1>5, <1>6 DEF There

\* The part of the invariant that is about one command.
OrderOf(c) ==
  /\ todo[c] \subseteq Needs(c)
  /\ \A i \in Needs(c) \ todo[c] : Deps(conf[c], i) \cap todo[c] = {}
  /\ pc[c] \in Working => cur[c] \in todo[c] /\ Deps(conf[c], cur[c]) \cap todo[c] = {}
  /\ pc[c] \in {"run", "docker"} => Target \notin todo[c]

ThereOf(c) ==
  /\ \A i \in Needs(c) \ todo[c] : There(TagFor(c, i))
  /\ pc[c] = "push" => There(CurTag(c))

Busy(c) == pc[c] \in Building \cup {"run", "docker"}

\* A step that leaves a command where it is, or takes it from run to docker.
Passive(c) ==
  /\ pc'[c] = pc[c] \/ (pc[c] = "run" /\ pc'[c] = "docker")
  /\ conf'[c] = conf[c] /\ todo'[c] = todo[c] /\ cur'[c] = cur[c] /\ read'[c] = read[c]

\* A command that a step leaves alone keeps its part of the invariant.
LEMMA PassiveKeeps ==
  ASSUME BaseInv, StaleInv, [Next]_vars, NEW c \in Commands, Passive(c), Busy(c)',
         OrderInv, ThereInv
  PROVE  OrderOf(c)' /\ ThereOf(c)'
  <1>1. Busy(c)
    BY DEF Passive, Busy, Building
  <1>2. OrderOf(c) /\ ThereOf(c)
    BY <1>1 DEF OrderInv, ThereInv, OrderOf, ThereOf, Busy
  <1>3. OrderOf(c)'
    BY <1>2 DEF OrderOf, Needs, Passive, Working
  <1>4. \A i : TagFor(c, i)' = TagFor(c, i)
    BY DEF TagFor, Passive
  <1>5. CurTag(c)' = CurTag(c)
    BY DEF CurTag, TagFor, Passive
  <1>6. \A i \in Needs(c) \ todo[c] : There(TagFor(c, i))'
    <2> SUFFICES ASSUME NEW i \in Needs(c) \ todo[c] PROVE There(TagFor(c, i))'
      OBVIOUS
    <2> DEFINE g == TagFor(c, i)
    <2>1. There(g) /\ g' = g
      BY <1>2, <1>4 DEF ThereOf
    <2> QED
      BY <2>1, ThereStays DEF There, Stale
  <1>7. pc'[c] = "push" => There(CurTag(c))'
    <2> SUFFICES ASSUME pc'[c] = "push" PROVE There(CurTag(c))'
      OBVIOUS
    <2>1. There(CurTag(c))
      BY <1>2 DEF ThereOf, Passive
    <2> QED
      BY <2>1, <1>5, ThereStays DEF There, Stale
  <1>8. (Needs(c) \ todo[c])' = Needs(c) \ todo[c]
    BY DEF Needs, Passive
  <1> QED
    BY <1>3, <1>6, <1>7, <1>8 DEF ThereOf

\* Steps of build.py, for the command that takes them.
LEMMA BuildKeepsOrder ==
  ASSUME BaseInv, OrderInv, NEW c \in Commands, BuildStep(c), Busy(c)'
  PROVE  OrderOf(c)'
  <1> USE DEF BaseInv, TypeOK, Goto, buildVars, Building, Working, Busy
  <1>0. pc[c] # "start" => OrderOf(c)
    BY BuildFrame DEF Early, OrderInv, OrderOf
  <1>1. CASE Load(c)
    <2>1. todo'[c] = Needs(c)' /\ pc'[c] = "next"
      BY <1>1 DEF Load, Needs
    <2> QED
      BY <2>1 DEF OrderOf
  <1>2. CASE Hash(c)
    <2>1. PICK i \in Ready(c) :
            /\ Goto(c, "next", "inspect")
            /\ cur' = [cur EXCEPT ![c] = i]
            /\ UNCHANGED <<conf, todo>>
      BY <1>2 DEF Hash
    <2>2. cur'[c] = i /\ pc'[c] = "inspect" /\ pc[c] = "next"
      BY <2>1
    <2>3. i \in todo[c] /\ Deps(conf[c], i) \cap todo[c] = {}
      BY DEF Ready
    <2> QED
      BY <1>0, <2>1, <2>2, <2>3 DEF OrderOf, Needs
  <1>3. CASE InspectMiss(c) \/ ManifestHit(c) \/ ManifestMiss(c)
    <2>1. UNCHANGED <<treeVars, conf, todo, cur>> /\ pc[c] # "start" /\ DOMAIN pc = Commands
      BY <1>3 DEF InspectMiss, ManifestHit, ManifestMiss
    <2>2. CASE InspectMiss(c)
      BY <1>0, <2>1, <2>2 DEF InspectMiss, OrderOf, Needs
    <2>3. CASE ManifestHit(c)
      BY <1>0, <2>1, <2>3 DEF ManifestHit, OrderOf, Needs
    <2>4. CASE ManifestMiss(c)
      BY <1>0, <2>1, <2>4 DEF ManifestMiss, OrderOf, Needs
    <2> QED
      BY <1>3, <2>2, <2>3, <2>4
  <1>4. ASSUME NEW at \in {"inspect", "pull", "build", "push"}, Made(c, at) PROVE OrderOf(c)'
    BY <1>0, <1>4 DEF Made, OrderOf, Needs
  <1>5. CASE InspectHit(c) \/ Pull(c) \/ Push(c)
    BY <1>4, <1>5 DEF InspectHit, Pull, Push
  <1>6. CASE Build(c)
    <2>1. CASE ToBuild(c)
      BY <1>4, <1>6, <2>1 DEF Build
    <2>2. CASE ~ToBuild(c)
      BY <1>0, <1>6, <2>2 DEF Build, OrderOf, Needs
    <2> QED
      BY <2>1, <2>2
  <1>7. CASE LoadFails(c) \/ HashFails(c) \/ BuildLacksBase(c) \/ Aborts(c)
    BY <1>7 DEF LoadFails, HashFails, BuildLacksBase, Aborts
  <1> QED
    BY <1>1, <1>2, <1>3, <1>5, <1>6, <1>7 DEF BuildStep

\* Tags that a step leaves as they are stay where they are.
LEMMA TagsStay ==
  ASSUME BaseInv, StaleInv, [Next]_vars, NEW c \in Commands, NEW i,
         There(TagFor(c, i)), TagFor(c, i)' = TagFor(c, i)
  PROVE  There(TagFor(c, i))'
  BY ThereStays DEF There, Stale

\* What build.py goes past is there: found, pulled, or built.
LEMMA BuildKeepsThere ==
  ASSUME BaseInv, StaleInv, OrderInv, ThereInv, NEW c \in Commands, BuildStep(c), Busy(c)'
  PROVE  ThereOf(c)'
  <1> USE DEF Goto, buildVars, Building, Working, Busy
  <1>0. [Next]_vars
    BY DEF Next
  <1>1. pc[c] # "start" => ThereOf(c) /\ OrderOf(c)
    BY BuildFrame DEF Early, ThereInv, ThereOf, OrderInv, OrderOf
  <1>2. CASE Load(c)
    BY <1>2 DEF Load, ThereOf, Needs, BaseInv, TypeOK
  <1>3. CASE Hash(c)
    <2>1. PICK k \in Ready(c) :
            /\ pc[c] = "next" /\ pc'[c] = "inspect"
            /\ read' = [read EXCEPT ![c] = [read[c] EXCEPT ![k] = Here(c).file[k]]]
            /\ UNCHANGED <<conf, todo>>
      BY <1>3 DEF Hash, BaseInv, TypeOK
    <2>2. ASSUME NEW i \in Needs(c) \ todo[c] PROVE There(TagFor(c, i))'
      <3>1. Closure(conf[c], {i}) \cap todo[c] = {}
        BY <2>1, DoneIsClosed DEF BaseInv
      <3>2. \A j \in Closure(conf[c], {i}) : read'[c][j] = read[c][j]
        <4> SUFFICES ASSUME NEW j \in Closure(conf[c], {i}) PROVE read'[c][j] = read[c][j]
          OBVIOUS
        <4>1. j # k /\ j \in Images
          BY <3>1, <2>1 DEF Ready, Closure
        <4> QED
          BY <2>1, <4>1 DEF BaseInv, ShapeInv
      <3>3. TagFor(c, i)' = TagFor(c, i)
        BY <2>1, <3>2 DEF TagFor, Tag
      <3>4. There(TagFor(c, i))
        BY <1>1, <2>1 DEF ThereOf
      <3> QED
        BY <1>0, <3>3, <3>4, TagsStay
    <2> QED
      BY <2>1, <2>2 DEF ThereOf, Needs
  <1>4. ASSUME UNCHANGED <<conf, read>>, pc[c] \in Working, NEW i \in Needs(c) \ todo[c]
        PROVE  There(TagFor(c, i))'
    <2>1. TagFor(c, i)' = TagFor(c, i)
      BY <1>4 DEF TagFor
    <2> QED
      BY <1>0, <1>1, <1>4, <2>1, TagsStay DEF ThereOf
  <1>5. CASE InspectMiss(c) \/ ManifestHit(c) \/ ManifestMiss(c)
    <2>1. UNCHANGED <<conf, read, todo>> /\ pc[c] \in Working /\ pc'[c] # "push"
      BY <1>5 DEF InspectMiss, ManifestHit, ManifestMiss, BaseInv, TypeOK
    <2> QED
      BY <1>4, <2>1 DEF ThereOf, Needs
  <1>6. ASSUME NEW at \in {"inspect", "pull", "build", "push"}, Made(c, at), There(CurTag(c))'
        PROVE  ThereOf(c)'
    <2>1. /\ UNCHANGED <<conf, read, cur>> /\ pc[c] \in Working /\ pc'[c] # "push"
          /\ todo'[c] = todo[c] \ {cur[c]}
      BY <1>6 DEF Made, BaseInv, TypeOK
    <2>2. ASSUME NEW i \in Needs(c) \ todo'[c] PROVE There(TagFor(c, i))'
      <3>1. CASE i = cur[c]
        <4>1. TagFor(c, i)' = CurTag(c)'
          BY <2>1, <3>1 DEF CurTag
        <4> QED
          BY <1>6, <4>1 DEF There, Stale
      <3>2. CASE i # cur[c]
        BY <1>4, <2>1, <3>2
      <3> QED
        BY <3>1, <3>2
    <2> QED
      BY <2>1, <2>2 DEF ThereOf, Needs
  <1>7. CASE InspectHit(c)
    <2>1. CurTag(c)' = CurTag(c)
      BY <1>7 DEF InspectHit, Made, CurTag, TagFor
    <2>2. There(CurTag(c))'
      BY <1>7, <2>1 DEF InspectHit, There
    <2> QED
      BY <1>6, <1>7, <2>2 DEF InspectHit
  <1>8. CASE Pull(c)
    <2>1. CurTag(c)' = CurTag(c)
      BY <1>8 DEF Pull, Made, CurTag, TagFor
    <2>2. There(CurTag(c))'
      BY <1>8, <2>1 DEF Pull, There, Put
    <2> QED
      BY <1>6, <1>8, <2>2 DEF Pull
  <1>9. CASE Push(c)
    <2>1. CurTag(c)' = CurTag(c) /\ pc[c] = "push"
      BY <1>9 DEF Push, Made, CurTag, TagFor
    <2>2. There(CurTag(c))'
      BY <1>0, <1>1, <2>1, ThereStays DEF ThereOf, There, Stale
    <2> QED
      BY <1>6, <1>9, <2>2 DEF Push
  <1>10. CASE Build(c)
    <2>1. CurTag(c)' = CurTag(c) /\ UNCHANGED <<conf, read>>
      BY <1>10 DEF Build, Made, CurTag, TagFor
    <2>2. There(CurTag(c))'
      BY <1>10, <2>1 DEF Build, There, Put
    <2>3. CASE ToBuild(c)
      BY <1>6, <1>10, <2>2, <2>3 DEF Build
    <2>4. CASE ~ToBuild(c)
      <3>1. todo' = todo /\ pc[c] \in Working
        BY <1>10, <2>4 DEF Build
      <3> QED
        BY <1>4, <2>1, <2>2, <3>1 DEF ThereOf, Needs
    <2> QED
      BY <2>3, <2>4
  <1>11. CASE LoadFails(c) \/ HashFails(c) \/ BuildLacksBase(c) \/ Aborts(c)
    BY <1>11 DEF LoadFails, HashFails, BuildLacksBase, Aborts, BaseInv, TypeOK
  <1> QED
    BY <1>2, <1>3, <1>5, <1>7, <1>8, <1>9, <1>10, <1>11 DEF BuildStep

\* The other steps, and the steps of others.
LEMMA NextKeepsOrder ==
  ASSUME BaseInv, StaleInv, OrderInv, ThereInv, [Next]_vars PROVE OrderInv' /\ ThereInv'
  <1> SUFFICES ASSUME NEW d \in Commands, Busy(d)' PROVE OrderOf(d)' /\ ThereOf(d)'
    BY DEF OrderInv, ThereInv, OrderOf, ThereOf, Busy
  <1>1. CASE BuildStep(d)
    BY <1>1, BuildKeepsOrder, BuildKeepsThere
  <1>2. CASE Passive(d)
    BY <1>2, PassiveKeeps
  <1>3. ASSUME NEW c \in Commands \ {d}, BuildStep(c) PROVE Passive(d)
    <2> USE DEF Goto, Passive, buildVars, BaseInv, TypeOK, ShapeInv
    <2>1. CASE LoadFails(c) \/ Load(c)
      BY <2>1 DEF LoadFails, Load
    <2>2. CASE Hash(c)
      BY <2>2 DEF Hash
    <2>3. CASE HashFails(c) \/ InspectMiss(c) \/ ManifestHit(c) \/ ManifestMiss(c) \/ Aborts(c)
      BY <2>3 DEF HashFails, InspectMiss, ManifestHit, ManifestMiss, Aborts
    <2>4. CASE InspectHit(c) \/ Pull(c) \/ Push(c)
      BY <2>4 DEF InspectHit, Pull, Push, Made
    <2>5. CASE Build(c)
      BY <2>5 DEF Build, Made
    <2>6. CASE BuildLacksBase(c)
      BY <2>6 DEF BuildLacksBase
    <2> QED
      BY <1>3, <2>1, <2>2, <2>3, <2>4, <2>5, <2>6 DEF BuildStep
  <1>4. ASSUME NEW c \in Commands, RunStep(c) \/ Cancel(c, TRUE) PROVE Passive(d)
    <2>1. UNCHANGED <<conf, todo, cur, read>>
      BY <1>4 DEF RunStep, StartCleanup, XhostFails, RunContainer, RunFails, Cancel, Exit, buildVars
    <2>2. pc'[d] = pc[d] \/ (pc[d] = "run" /\ pc'[d] = "docker")
      BY <1>4 DEF RunStep, StartCleanup, XhostFails, RunContainer, RunFails, Cancel, Exit, Goto,
                  Busy, Building, BaseInv, TypeOK
    <2> QED
      BY <2>1, <2>2 DEF Passive
  <1>5. CASE (\E c \in Commands : CleanStep(c) \/ ContainerEnds(c)) \/ DaemonRemoves \/ Edit \/ UNCHANGED vars
    BY <1>2, <1>5 DEF Passive, CleanStep, CleanCancelled, CleanList, CleanFindsNothing, CleanSpare,
         CleanTake, CleanSpawn, CleanPolled, CleanTerminate, CleanBatchEnds, CleanNextBatch,
         ContainerEnds, DaemonRemoves, Edit, vars, buildVars
  <1> QED
    BY <1>1, <1>2, <1>3, <1>4, <1>5 DEF Next

\* A command that finds an image missing had it, so it was removed as stale.
LEMMA MissingIsStale ==
  ASSUME BaseInv, OrderInv, ThereInv, NEW c \in Commands
  PROVE  /\ pc[c] = "build" => \A g \in Lacking(c) : Stale(g)
         /\ pc[c] = "docker" /\ Wanted(c) \notin DOMAIN local \cup DOMAIN remote => Stale(Wanted(c))
  <1> USE DEF Building, Working
  <1>0. ASSUME pc[c] \in {"build", "docker"}
        PROVE  Needs(c) \in SUBSET Images /\ Target \in Needs(c) /\ Closed(conf[c], Needs(c))
    <2>1. conf[c] \in Trees /\ {Target} \in SUBSET Images
      BY <1>0, TreeAssumption DEF BaseInv, TypeOK
    <2> QED
      BY <2>1, ClosureHas, ClosureIsClosed DEF Needs
  <1>1. ASSUME pc[c] = "build", NEW g \in Lacking(c) PROVE Stale(g)
    <2>1. PICK k \in Deps(conf[c], cur[c]) : g = TagFor(c, k)
      BY <1>1 DEF Lacking, Bases
    <2>2. k \in Needs(c) \ todo[c]
      BY <1>0, <1>1 DEF OrderInv, Closed
    <2>3. There(g)
      BY <1>1, <2>1, <2>2 DEF ThereInv
    <2> QED
      BY <1>1, <2>3 DEF There, Lacking
  <1>2. ASSUME pc[c] = "docker", Wanted(c) \notin DOMAIN local \cup DOMAIN remote
        PROVE  Stale(Wanted(c))
    <2>1. Target \in Needs(c) \ todo[c]
      BY <1>0, <1>2 DEF OrderInv
    <2>2. There(Wanted(c))
      BY <1>2, <2>1 DEF ThereInv, Wanted
    <2> QED
      BY <1>2, <2>2 DEF There
  <1> QED
    BY <1>1, <1>2

\* Every step, those by which a command finds an image missing among them.
LEMMA NextKeepsNeeded ==
  ASSUME BaseInv, StaleInv, OrderInv, ThereInv, KeepsNeeded, [Next]_vars PROVE KeepsNeeded'
  <1>1. ASSUME NEW c \in Commands, BuildLacksBase(c) \/ RunFails(c) PROVE KeepsNeeded'
    <2>1. UNCHANGED seen
      BY <1>1 DEF BuildLacksBase, RunFails, treeVars
    <2>2. \A d \in Commands \ {c} : need'[d] = need[d]
      BY <1>1 DEF BuildLacksBase, RunFails, BaseInv, ShapeInv
    <2>3. need'[c] = need[c] \/ Stale(need'[c])
      BY <1>1, MissingIsStale DEF BuildLacksBase, RunFails, Goto, BaseInv, ShapeInv
    <2>4. \A g : Stale(g) <=> Stale(g)'
      BY <2>1 DEF Stale
    <2> QED
      BY <2>2, <2>3, <2>4 DEF KeepsNeeded, Stale
  <1>2. CASE UNCHANGED need
    <2>1. ASSUME NEW g, Stale(g) PROVE Stale(g)'
      <3>1. CASE \E c \in Commands : BuildStep(c)
        BY <2>1, <3>1, BuildFrame, StaleStays DEF BaseInv, treeVars
      <3>2. CASE \E c \in Commands : RunStep(c) \/ Cancel(c, TRUE) \/ ContainerEnds(c)
        BY <2>1, <3>2, StaleStays DEF BaseInv, RunStep, StartCleanup, XhostFails, RunContainer,
                        RunFails, Cancel, Exit, ContainerEnds, treeVars
      <3>3. CASE (\E c \in Commands : CleanStep(c)) \/ DaemonRemoves \/ UNCHANGED vars
        BY <2>1, <3>3, StaleStays DEF BaseInv, CleanStep, CleanCancelled, CleanList,
             CleanFindsNothing, CleanSpare, CleanTake, CleanSpawn, CleanPolled, CleanTerminate,
             CleanBatchEnds, CleanNextBatch, DaemonRemoves, vars, treeVars
      <3>4. CASE Edit
        BY <2>1, <3>4, StaleStays DEF BaseInv
      <3> QED
        BY <3>1, <3>2, <3>3, <3>4 DEF Next
    <2> QED
      BY <1>2, <2>1 DEF KeepsNeeded
  <1>3. ASSUME NEW c \in Commands, BuildStep(c), ~BuildLacksBase(c) PROVE UNCHANGED need
    BY <1>3 DEF BuildStep, LoadFails, Load, Hash, HashFails, InspectHit, InspectMiss, ManifestHit,
                ManifestMiss, Pull, Build, Aborts, Push, Made, buildVars
  <1>4. ASSUME NEW c \in Commands, RunStep(c) \/ Cancel(c, TRUE) \/ ContainerEnds(c), ~RunFails(c)
        PROVE  UNCHANGED need
    BY <1>4 DEF RunStep, StartCleanup, XhostFails, RunContainer, Cancel, Exit, ContainerEnds, buildVars
  <1>5. CASE (\E c \in Commands : CleanStep(c)) \/ DaemonRemoves \/ Edit \/ UNCHANGED vars
    <2>1. UNCHANGED need
      BY <1>5 DEF CleanStep, CleanCancelled, CleanList, CleanFindsNothing, CleanSpare, CleanTake,
           CleanSpawn, CleanPolled, CleanTerminate, CleanBatchEnds, CleanNextBatch,
           DaemonRemoves, Edit, vars, buildVars
    <2> QED
      BY <1>2, <2>1
  <1> QED
    BY <1>1, <1>2, <1>3, <1>4, <1>5 DEF Next

----------------------------------------------------------------------------
(* Images are what their tags say.                                          *)

Unbuilt == {"inspect", "manifest", "pull", "build"}

\* docker is to find the Dockerfile that was hashed, or an edit has come between.
Sound(c) == read[c][cur[c]] = Here(c).file[cur[c]] \/ CurTag(c) \in raced
ReadInv  == \A c \in Commands : pc[c] \in Unbuilt => Sound(c)

\* Edits are not forgotten.
LEMMA HurtStays == ASSUME [Next]_vars PROVE raced \subseteq raced' /\ \A g : Hurt(g) => Hurt(g)'
  <1>1. raced \subseteq raced'
    <2>1. CASE Edit
      BY <2>1 DEF Edit
    <2>2. CASE ~Edit
      <3>1. ASSUME NEW c \in Commands, BuildStep(c) PROVE raced' = raced
        BY <3>1, BuildFrame DEF treeVars
      <3>2. CASE \E c \in Commands : RunStep(c) \/ Cancel(c, TRUE) \/ ContainerEnds(c)
        BY <3>2 DEF RunStep, StartCleanup, XhostFails, RunContainer, RunFails, Cancel, Exit,
                    ContainerEnds, treeVars
      <3>3. CASE (\E c \in Commands : CleanStep(c)) \/ DaemonRemoves \/ UNCHANGED vars
        BY <3>3 DEF CleanStep, CleanCancelled, CleanList, CleanFindsNothing, CleanSpare, CleanTake,
             CleanSpawn, CleanPolled, CleanTerminate, CleanBatchEnds, CleanNextBatch,
             DaemonRemoves, vars, treeVars
      <3> QED
        BY <2>2, <3>1, <3>2, <3>3 DEF Next
    <2> QED
      BY <2>1, <2>2
  <1> QED
    BY <1>1 DEF Hurt

\* What a tag was computed from is its Dockerfile and what its bases' were.
LEMMA TagParts ==
  ASSUME NEW t \in Trees, NEW f, NEW i \in Images
  PROVE  Tag(t, f, i).parts
           = {<<i, f[i], Deps(t, i)>>} \cup UNION {Tag(t, f, d).parts : d \in Deps(t, i)}
  <1>1. Closure(t, {i}) = {i} \cup UNION {Closure(t, {d}) : d \in Deps(t, i)}
    BY ClosureStep
  <1> DEFINE Part(k) == <<k, f[k], Deps(t, k)>>
  <1>2. \A j, x : x \in Tag(t, f, j).parts <=> \E k \in Closure(t, {j}) : x = Part(k)
    BY DEF Tag
  <1> HIDE DEF Part
  <1>3. \A k : k \in Closure(t, {i}) <=> k = i \/ \E d \in Deps(t, i) : k \in Closure(t, {d})
    BY <1>1
  <1>4. \A x : x \in Tag(t, f, i).parts
                 <=> x = Part(i) \/ \E d \in Deps(t, i) : x \in Tag(t, f, d).parts
    <2> SUFFICES ASSUME NEW x
                 PROVE  x \in Tag(t, f, i).parts
                          <=> x = Part(i) \/ \E d \in Deps(t, i) : x \in Tag(t, f, d).parts
      OBVIOUS
    <2>1. ASSUME x \in Tag(t, f, i).parts
          PROVE  x = Part(i) \/ \E d \in Deps(t, i) : x \in Tag(t, f, d).parts
      <3>1. PICK k \in Closure(t, {i}) : x = Part(k)
        BY <1>2, <2>1, Zenon
      <3>2. CASE k = i
        BY <3>1, <3>2
      <3>3. CASE \E d \in Deps(t, i) : k \in Closure(t, {d})
        BY <1>2, <3>1, <3>3, Zenon
      <3> QED
        BY <1>3, <3>2, <3>3, Zenon
    <2>2. ASSUME NEW d \in Deps(t, i), x \in Tag(t, f, d).parts PROVE x \in Tag(t, f, i).parts
      <3>1. PICK k \in Closure(t, {d}) : x = Part(k)
        BY <1>2, <2>2, Zenon
      <3>2. k \in Closure(t, {i})
        BY <1>3, <3>1, Zenon
      <3> QED
        BY <1>2, <3>1, <3>2, Zenon
    <2>3. ASSUME x = Part(i) PROVE x \in Tag(t, f, i).parts
      BY <1>2, <1>3, <2>3, Zenon
    <2> QED
      BY <2>1, <2>2, <2>3, Zenon
  <1>5. Tag(t, f, i).parts = {Part(i)} \cup UNION {Tag(t, f, d).parts : d \in Deps(t, i)}
    <2> DEFINE U == UNION {Tag(t, f, d).parts : d \in Deps(t, i)}
    <2>1. \A x : x \in U <=> \E d \in Deps(t, i) : x \in Tag(t, f, d).parts
      BY Zenon
    <2> HIDE DEF U
    <2>2. \A x : x \in Tag(t, f, i).parts <=> x \in {Part(i)} \cup U
      BY <1>4, <2>1
    <2>3. Tag(t, f, i).parts = {Part(i)} \cup U
      BY <2>2, Zenon
    <2> QED
      BY <2>3 DEF U
  <1> QED
    BY <1>5 DEF Part

\* What docker build makes under a tag.
LEMMA BuildIsPure ==
  ASSUME BaseInv, ReadInv, PureImages, NEW c \in Commands, pc[c] = "build", Lacking(c) = {},
         ~Hurt(CurTag(c))
  PROVE  {<<cur[c], Here(c).file[cur[c]], Deps(conf[c], cur[c])>>}
           \cup UNION {Base(g).content : g \in Bases(c)} = CurTag(c).parts
  <1>1. conf[c] \in Trees /\ cur[c] \in Images
    BY DEF BaseInv, TypeOK, Building
  <1>2. Here(c).file[cur[c]] = read[c][cur[c]]
    <2>1. Sound(c)
      BY DEF ReadInv, Unbuilt
    <2>2. CurTag(c) \notin raced
      BY DEF Hurt
    <2> QED
      BY <2>1, <2>2 DEF Sound
  <1>6. CurTag(c).parts = Tag(conf[c], read[c], cur[c]).parts
    BY DEF CurTag, TagFor
  <1>7. Tag(conf[c], read[c], cur[c]).parts
          = {<<cur[c], read[c][cur[c]], Deps(conf[c], cur[c])>>}
              \cup UNION {Tag(conf[c], read[c], d).parts : d \in Deps(conf[c], cur[c])}
    BY <1>1, TagParts, Zenon
  <1>3. ASSUME NEW g \in Bases(c) PROVE Base(g).content = g.parts
    <2>1. PICK d \in Deps(conf[c], cur[c]) : g = Tag(conf[c], read[c], d)
      BY DEF Bases, TagFor
    <2>2. g.parts \subseteq CurTag(c).parts
      BY <1>6, <1>7, <2>1
    <2>3. g.prefix = CurTag(c).prefix
      BY <2>1 DEF CurTag, TagFor, Tag
    <2>4. ~Hurt(g)
      BY <2>2, <2>3 DEF Hurt
    <2> QED
      BY <1>3, <2>4 DEF Lacking, Base, PureImages
  <1>4. UNION {Base(g).content : g \in Bases(c)} = UNION {g.parts : g \in Bases(c)}
    BY <1>3
  <1>5. UNION {g.parts : g \in Bases(c)}
          = UNION {Tag(conf[c], read[c], d).parts : d \in Deps(conf[c], cur[c])}
    BY DEF Bases, TagFor
  <1> QED
    BY <1>2, <1>4, <1>5, <1>6, <1>7, Zenon

\* A Dockerfile stays as hashed until the image is made, or the edit is on record.
LEMMA NextKeepsRead == ASSUME BaseInv, ReadInv, [Next]_vars PROVE ReadInv'
  <1> SUFFICES ASSUME NEW d \in Commands, pc'[d] \in Unbuilt PROVE Sound(d)'
    BY DEF ReadInv
  <1> USE DEF Unbuilt
  <1>1. CASE Hash(d)
    <2>1. PICK k \in Images :
            /\ read' = [read EXCEPT ![d] = [read[d] EXCEPT ![k] = Here(d).file[k]]]
            /\ cur' = [cur EXCEPT ![d] = k]
            /\ UNCHANGED treeVars
      BY <1>1 DEF Hash, Ready, BaseInv, TypeOK
    <2>2. (read[d][cur[d]])' = (Here(d).file[cur[d]])'
      BY <2>1 DEF BaseInv, TypeOK, ShapeInv, Here, treeVars
    <2> QED
      BY <2>2 DEF Sound
  <1>2. ASSUME pc[d] \in Unbuilt, UNCHANGED <<src, work>>,
               conf'[d] = conf[d], read'[d] = read[d], cur'[d] = cur[d]
        PROVE  Sound(d)'
    <2>1. CurTag(d)' = CurTag(d)
      BY <1>2 DEF CurTag, TagFor
    <2>2. (read[d][cur[d]])' = read[d][cur[d]] /\ (Here(d).file[cur[d]])' = Here(d).file[cur[d]]
      BY <1>2 DEF Here
    <2>3. Sound(d)
      BY <1>2 DEF ReadInv
    <2> QED
      BY <2>1, <2>2, <2>3, HurtStays DEF Sound
  <1>3. CASE BuildStep(d) /\ ~Hash(d)
    <2>1. pc[d] \in Unbuilt /\ UNCHANGED <<conf, read, cur>>
      BY <1>3 DEF BuildStep, LoadFails, Load, HashFails, InspectHit, InspectMiss, ManifestHit,
                  ManifestMiss, Pull, Build, BuildLacksBase, Aborts, Push, Made, Goto, buildVars,
                  BaseInv, TypeOK
    <2>2. UNCHANGED <<src, work>>
      BY <1>3, BuildFrame DEF treeVars
    <2> QED
      BY <1>2, <2>1, <2>2
  <1>4. ASSUME NEW c \in Commands \ {d}, BuildStep(c)
        PROVE  Sound(d)'
    <2>1. pc'[d] = pc[d] /\ UNCHANGED <<src, work>>
      BY <1>4, BuildFrame DEF treeVars, BaseInv, TypeOK
    <2>2. conf'[d] = conf[d] /\ read'[d] = read[d] /\ cur'[d] = cur[d]
      <3>1. CASE Hash(c)
        BY <3>1 DEF Hash, BaseInv, TypeOK, ShapeInv
      <3>2. CASE Load(c)
        BY <3>2 DEF Load, BaseInv, TypeOK
      <3>3. CASE ~Hash(c) /\ ~Load(c)
        BY <1>4, <3>3 DEF BuildStep, LoadFails, HashFails, InspectHit, InspectMiss,
             ManifestHit, ManifestMiss, Pull, Build, BuildLacksBase, Aborts, Push, Made, buildVars
      <3> QED
        BY <3>1, <3>2, <3>3
    <2> QED
      BY <1>2, <2>1, <2>2
  <1>5. CASE \E c \in Commands : RunStep(c) \/ Cancel(c, TRUE)
    <2>1. UNCHANGED <<conf, read, cur, src, work>> /\ pc[d] \in Unbuilt
      BY <1>5 DEF RunStep, StartCleanup, XhostFails, RunContainer, RunFails, Cancel, Exit, Goto,
                  treeVars, buildVars, BaseInv, TypeOK
    <2> QED
      BY <1>2, <2>1
  <1>6. CASE (\E c \in Commands : CleanStep(c) \/ ContainerEnds(c)) \/ DaemonRemoves \/ UNCHANGED vars
    <2>1. UNCHANGED <<conf, read, cur, src, work, pc>>
      BY <1>6 DEF CleanStep, CleanCancelled, CleanList, CleanFindsNothing, CleanSpare, CleanTake,
           CleanSpawn, CleanPolled, CleanTerminate, CleanBatchEnds, CleanNextBatch, ContainerEnds,
           DaemonRemoves, vars, buildVars, treeVars
    <2> QED
      BY <1>2, <2>1
  <1>7. CASE Edit
    <2>1. UNCHANGED <<conf, read, cur, work, pc>>
      BY <1>7 DEF Edit, buildVars
    <2>2. PICK w \in Worktrees, t \in Trees :
            /\ src' = [src EXCEPT ![w] = t]
            /\ raced' = raced \cup {CurTag(c) : c \in {e \in Hashed(w) : t.file[cur[e]] # src[w].file[cur[e]]}}
      BY <1>7 DEF Edit
    <2>3. CASE work[d] # w
      <3>1. src'[work[d]] = src[work[d]]
        BY <2>2, <2>3 DEF BaseInv, TypeOK
      <3>2. CurTag(d)' = CurTag(d) /\ Here(d)' = Here(d)
        BY <2>1, <3>1 DEF CurTag, TagFor, Here
      <3>3. Sound(d)
        BY <2>1 DEF ReadInv
      <3> QED
        BY <2>1, <3>2, <3>3, HurtStays DEF Sound
    <2>4. CASE work[d] = w
      <3>1. Here(d)' = t /\ Here(d) = src[w] /\ CurTag(d)' = CurTag(d)
        BY <2>1, <2>2, <2>4 DEF BaseInv, TypeOK, Here, CurTag, TagFor
      <3>2. d \in Hashed(w) /\ Sound(d)
        BY <2>1, <2>4 DEF Hashed, ReadInv
      <3>3. CASE t.file[cur[d]] = src[w].file[cur[d]]
        BY <2>1, <3>1, <3>2, <3>3, HurtStays DEF Sound
      <3>4. CASE t.file[cur[d]] # src[w].file[cur[d]]
        <4>1. CurTag(d) \in raced'
          BY <2>2, <3>2, <3>4
        <4> QED
          BY <3>1, <4>1 DEF Sound
      <3> QED
        BY <3>3, <3>4
    <2> QED
      BY <2>3, <2>4
  <1> QED
    BY <1>1, <1>3, <1>4, <1>5, <1>6, <1>7 DEF Next

\* What a store holds is what the tags say.
Right(g, image) == image.content = g.parts \/ Hurt(g)
Pure(store)     == \A g \in DOMAIN store : Right(g, store[g])

\* Putting a pure image, or dropping one, keeps a store pure.
LEMMA StorePure ==
  ASSUME NEW store, Pure(store), NEW g
  PROVE  /\ Pure(Drop(store, g))
         /\ \A image : Right(g, image) => Pure(Put(store, g, image))
  BY DEF Pure, Drop, Put

\* The steps that put an image: pull, build, push and docker run.
LEMMA NextKeepsPure ==
  ASSUME BaseInv, ReadInv, PureImages, [Next]_vars PROVE PureImages'
  <1>0. Pure(local) /\ Pure(remote)
    BY DEF PureImages, Pure, Right
  <1>1. ASSUME NEW c \in Commands, Pull(c) PROVE Pure(local') /\ Pure(remote')
    <2>1. Right(CurTag(c), remote[CurTag(c)])
      BY <1>0, <1>1 DEF Pull, Pure
    <2> QED
      BY <1>0, <1>1, <2>1, StorePure DEF Pull
  <1>2. ASSUME NEW c \in Commands, Build(c) PROVE Pure(local') /\ Pure(remote')
    <2> DEFINE content == {<<cur[c], Here(c).file[cur[c]], Deps(conf[c], cur[c])>>}
                            \cup UNION {Base(g).content : g \in Bases(c)}
    <2>1. content = CurTag(c).parts \/ Hurt(CurTag(c))
      BY <1>2, BuildIsPure DEF Build
    <2>2. local' = Put(local, CurTag(c), Image(content, FALSE)) /\ remote' = remote
      BY <1>2 DEF Build
    <2>3. Right(CurTag(c), Image(content, FALSE))
      BY <2>1 DEF Image, Right
    <2> HIDE DEF content
    <2> QED
      BY <1>0, <2>2, <2>3, StorePure
  <1>3. ASSUME NEW c \in Commands, Push(c) PROVE Pure(local') /\ Pure(remote')
    <2>1. CASE UNCHANGED remote
      BY <1>0, <1>3, <2>1 DEF Push
    <2>2. CASE CurTag(c) \in DOMAIN local /\ remote' = Put(remote, CurTag(c), local[CurTag(c)])
      <3>1. Right(CurTag(c), local[CurTag(c)])
        BY <1>0, <2>2 DEF Pure
      <3> QED
        BY <1>0, <1>3, <2>2, <3>1, StorePure DEF Push
    <2> QED
      BY <1>3, <2>1, <2>2 DEF Push
  <1>4. ASSUME NEW c \in Commands, RunContainer(c) PROVE Pure(local') /\ Pure(remote')
    <2>1. CASE UNCHANGED local
      BY <1>0, <1>4, <2>1 DEF RunContainer
    <2>2. CASE Wanted(c) \in DOMAIN remote /\ local' = Put(local, Wanted(c), remote[Wanted(c)])
      <3>1. Right(Wanted(c), remote[Wanted(c)])
        BY <1>0, <2>2 DEF Pure
      <3> QED
        BY <1>0, <1>4, <2>2, <3>1, StorePure DEF RunContainer
    <2> QED
      BY <1>4, <2>1, <2>2 DEF RunContainer
  <1>5. ASSUME DaemonRemoves PROVE Pure(local') /\ Pure(remote')
    BY <1>0, <1>5, StorePure DEF DaemonRemoves
  <1>6. ASSUME UNCHANGED <<local, remote>> PROVE Pure(local') /\ Pure(remote')
    BY <1>0, <1>6
  <1>7. ASSUME NEW c \in Commands, BuildStep(c), ~Pull(c), ~Build(c), ~Push(c)
        PROVE  UNCHANGED <<local, remote>>
    BY <1>7 DEF BuildStep, LoadFails, Load, Hash, HashFails, InspectHit, InspectMiss, ManifestHit,
                ManifestMiss, BuildLacksBase, Aborts
  <1>8. ASSUME NEW c \in Commands, RunStep(c) \/ Cancel(c, TRUE) \/ ContainerEnds(c), ~RunContainer(c)
        PROVE  UNCHANGED <<local, remote>>
    BY <1>8 DEF RunStep, StartCleanup, XhostFails, RunFails, Cancel, Exit, ContainerEnds
  <1>9. ASSUME (\E c \in Commands : CleanStep(c)) \/ Edit \/ UNCHANGED vars
        PROVE  Pure(local') /\ Pure(remote')
    <2>1. UNCHANGED <<local, remote>>
      BY <1>9 DEF CleanStep, CleanCancelled, CleanList, CleanFindsNothing, CleanSpare, CleanTake,
           CleanSpawn, CleanPolled, CleanTerminate, CleanBatchEnds, CleanNextBatch, Edit, vars
    <2> QED
      BY <1>6, <2>1
  <1>10. Pure(local') /\ Pure(remote')
    BY <1>1, <1>2, <1>3, <1>4, <1>5, <1>6, <1>7, <1>8, <1>9 DEF Next
  <1> QED
    BY <1>10, HurtStays DEF Pure, Right, PureImages

----------------------------------------------------------------------------
(* The theorems.                                                            *)

DevkitInv == BaseInv /\ StaleInv /\ OrderInv /\ ThereInv /\ KeepsNeeded /\ ReadInv /\ PureImages

\* The images that are there at first are what their tags say.
LEMMA InitDevkit == Init => DevkitInv
  <1> SUFFICES ASSUME Init PROVE DevkitInv
    OBVIOUS
  <1>1. BaseInv
    BY InitBase
  <1>2. PICK s \in Starts :
          /\ src = s.src /\ seen = [w \in Worktrees |-> {s.src[w]}]
          /\ local = [g \in s.made |-> Image(g.parts, TRUE)]
          /\ remote = [g \in s.pushed |-> Image(g.parts, TRUE)]
    BY DEF Init
  <1>3. StaleInv
    BY <1>2 DEF Init, StaleInv, Cleaning
  <1>4. OrderInv /\ ThereInv /\ KeepsNeeded /\ ReadInv
    BY DEF Init, OrderInv, ThereInv, KeepsNeeded, ReadInv, Building, Working, Unbuilt
  <1>5. PureImages
    BY <1>2 DEF PureImages, Image
  <1> QED
    BY <1>1, <1>3, <1>4, <1>5 DEF DevkitInv

\* The invariant holds throughout.
LEMMA DevkitInvariant == Spec => []DevkitInv
  <1>1. ASSUME DevkitInv, [Next]_vars PROVE DevkitInv'
    BY <1>1, NextKeepsBase, NextKeepsStale, NextKeepsOrder, NextKeepsNeeded, NextKeepsRead,
       NextKeepsPure DEF DevkitInv
  <1> QED
    BY <1>1, InitDevkit, PTL DEF Spec

\* Type correctness of the commands, their builds and their cleanups.
THEOREM DevkitTypes == Spec => []TypeOK
  <1>1. DevkitInv => TypeOK
    BY DEF DevkitInv, BaseInv
  <1> QED
    BY <1>1, DevkitInvariant, PTL

\* Once cancel_event is set, a cleanup begins at most one more docker rmi, and no
\* command ever has two of them under way.
THEOREM RemovalsEnd == Spec => []LateRemovals
  <1>1. DevkitInv => LateRemovals
    BY DEF DevkitInv, BaseInv, CleanInv, DaemonInv, LateRemovals
  <1> QED
    BY <1>1, DevkitInvariant, PTL

\* get_images_to_cleanup and the daemon: what disappears is the project's, unused,
\* and stale.
THEOREM OnlyStaleRemoved == Spec => RemovesOnlyStale
  <1>1. ASSUME DevkitInv, [Next]_vars
        PROVE  [\A g \in DOMAIN local \ DOMAIN local' :
                  g.image \in Allowed /\ ~InUse(g) /\ Stale(g)]_vars
    BY <1>1, RemovalIsStale DEF DevkitInv, Gone, Candidate
  <1> QED
    BY <1>1, DevkitInvariant, PTL DEF Spec, RemovesOnlyStale

\* build.py and docker_run.py: an image that a command has made or found and then
\* misses was stale for some checkout, whatever other commands did.
THEOREM NeededIsKept == Spec => []KeepsNeeded
  <1>1. DevkitInv => KeepsNeeded
    BY DEF DevkitInv
  <1> QED
    BY <1>1, DevkitInvariant, PTL

\* Content-addressable tagging (calculate_tag, build_image): the image under a tag
\* was built from what the tag was computed from, through all of its bases, unless a
\* Dockerfile was edited between its hash and its build, of the image or of a base.
THEOREM TagsTellContents == Spec => []PureImages
  <1>1. DevkitInv => PureImages
    BY DEF DevkitInv
  <1> QED
    BY <1>1, DevkitInvariant, PTL

----------------------------------------------------------------------------
(* The events of the container.                                             *)

Over == {"done", "crashed"}

\* How far the listener is tells what state the socket is in, as long as the
\* process lives; cancelled is set from SetEvent on, and the socket is shut down
\* after that.
PhaseInv ==
  /\ cancelled <=> main \in {"shutdown", "join", "done"}
  /\ main = "start" <=> listener = "none"
  /\ main \in Over <=> listener = "dead"
  /\ listener \in {"none", "listen"} => sock = "bound"
  /\ listener \in {"check", "accept", "recv"} => sock \in {"listening", "shut"}
  /\ listener = "close" => sock \in {"listening", "shut"} \/ (sock = "bound" /\ cause.listener = "error")
  /\ listener \in {"ended", "dead"} => sock = "closed"
  /\ sock = "shut" => main = "join"
  /\ NoSleeper

\* A listener that has stopped has a cause; a container runs from StartContainer on,
\* and its entry point connects to a port only once somebody listens.
CauseInv ==
  /\ listener \in {"close", "ended"} => cause.listener # "none"
  /\ main \in {"start", "docker", "crashed"} => box = "none"
  /\ sock = "bound" => box \in {"none", "entry", "failed", "ended"}
  /\ cause.listener = "cancel" => cancelled

\* Whoever is connected has tried to, and the entry point sends nothing but its event.
ConnInv ==
  /\ \A i \in 1..Len(queue) : queue[i] \in tried \cup {Box}
  /\ conn \in tried \cup {Box, None}
  /\ kind[Box] \in {"silent", "event"}

EventsInv == EventsTypeOK /\ PhaseInv /\ CauseInv /\ ConnInv /\ RefusedForCause

\* Nobody waits twice, and the entry point does not wait before it has connected: the
\* connections that fill the queue while it tries are so many strangers.
QueueInv ==
  /\ IsFiniteSet(tried)
  /\ \A i, j \in 1..Len(queue) : queue[i] = queue[j] => i = j
  /\ box \in {"none", "entry"} => \A i \in 1..Len(queue) : queue[i] # Box

\* At the start of docker_run.py.
LEMMA InitEstablishes == EventsInit => EventsInv
  <1> SUFFICES ASSUME EventsInit PROVE EventsInv
    OBVIOUS
  <1>1. EventsTypeOK
    <2>1. PICK k \in [Strangers -> Kinds] :
            kind = [p \in Peers |-> IF p = Box THEN "silent" ELSE k[p]]
      BY DEF EventsInit
    <2>2. kind \in [Peers -> {"event", "unknown", "overflow", "empty", "reset", "silent"}]
      BY <2>1, PeerAssumption DEF Peers
    <2>3. queue = <<>> /\ queue \in Seq(Peers) /\ Len(queue) <= Backlog + 1
      BY PeerAssumption DEF EventsInit
    <2> QED
      BY <2>2, <2>3, PeerAssumption DEF EventsInit, EventsTypeOK, Peers
  <1>2. PhaseInv /\ CauseInv /\ RefusedForCause
    BY DEF EventsInit, PhaseInv, CauseInv, RefusedForCause, NoSleeper, Over
  <1>3. ConnInv
    BY PeerAssumption DEF EventsInit, ConnInv, Peers
  <1> QED
    BY <1>1, <1>2, <1>3 DEF EventsInv

\* docker_run.py, whether or not it is interrupted.
LEMMA MainPreserves ==
  ASSUME EventsInv, MainStep \/ StopWaiting(TRUE)
  PROVE  EventsInv'
  <1> USE PeerAssumption DEF EventsInv, EventsTypeOK, PhaseInv, CauseInv, ConnInv, Over,
          RefusedForCause, NoSleeper, Peers, peerVars
  <1>1. CASE StartHandler
    BY <1>1 DEF StartHandler
  <1>2. CASE XhostRaises
    BY <1>2 DEF XhostRaises, ProcessEnds
  <1>3. CASE StartContainer
    BY <1>3 DEF StartContainer
  <1>4. CASE StopWaiting(FALSE) \/ StopWaiting(TRUE)
    BY <1>4 DEF StopWaiting
  <1>5. CASE SetEvent
    BY <1>5 DEF SetEvent
  <1>6. CASE ShutDown
    BY <1>6 DEF ShutDown
  <1>7. CASE EndProcess
    BY <1>7 DEF EndProcess, ProcessEnds
  <1> QED
    BY <1>1, <1>2, <1>3, <1>4, <1>5, <1>6, <1>7 DEF MainStep

\* container_event_listener.
LEMMA ListenerPreserves ==
  ASSUME EventsInv, ListenerStep \/ ListenErrors
  PROVE  EventsInv'
  <1> USE PeerAssumption DEF EventsInv, EventsTypeOK, PhaseInv, CauseInv, ConnInv, Over,
          RefusedForCause, NoSleeper, Peers, peerVars
  <1>1. CASE Listen
    BY <1>1 DEF Listen
  <1>2. CASE Check
    BY <1>2 DEF Check
  <1>3. CASE Accept
    BY <1>3 DEF Accept
  <1>4. CASE AcceptFails
    BY <1>4 DEF AcceptFails
  <1>5. CASE Receive
    BY <1>5 DEF Receive
  <1>6. CASE ReceiveFails
    BY <1>6 DEF ReceiveFails
  <1>7. CASE Close
    BY <1>7 DEF Close
  <1>8. CASE ListenErrors
    BY <1>8 DEF ListenErrors
  <1> QED
    BY <1>1, <1>2, <1>3, <1>4, <1>5, <1>6, <1>7, <1>8 DEF ListenerStep

\* A full queue that the entry point is not in is filled by strangers.
LEMMA FullOfStrangers ==
  ASSUME EventsInv, QueueInv, BoxTimesOut
  PROVE  Cardinality(tried) > Backlog
  <1> DEFINE n == Len(queue)
  <1>1. /\ n \in Nat /\ n > Backlog
        /\ queue \in [1..n -> tried]
        /\ \A i, j \in 1..n : queue[i] = queue[j] => i = j
    <2>1. queue \in Seq(Peers) /\ n \in Nat
      BY DEF EventsInv, EventsTypeOK
    <2>2. n > Backlog
      BY <2>1, PeerAssumption DEF BoxTimesOut, Room
    <2>3. \A i \in 1..n : queue[i] \in tried
      BY DEF EventsInv, ConnInv, QueueInv, BoxTimesOut
    <2>4. queue \in [1..n -> tried]
      BY <2>1, <2>3
    <2> QED
      BY <2>1, <2>2, <2>4 DEF QueueInv
  <1>2. queue \in Injection(1..n, tried)
    BY <1>1 DEF Injection, IsInjective
  <1>3. Cardinality(1..n) <= Cardinality(tried)
    BY <1>2, FS_Injection DEF QueueInv
  <1>4. Cardinality(1..n) = n
    BY <1>1, PeerAssumption, FS_Interval
  <1>5. Cardinality(tried) \in Nat
    BY FS_CardinalityType DEF QueueInv
  <1> HIDE DEF n
  <1> QED
    BY <1>1, <1>3, <1>4, <1>5, PeerAssumption

\* The container.
LEMMA BoxPreserves ==
  ASSUME EventsInv, QueueInv, BoxStep \/ BoxTimesOut \/ BoxEnds
  PROVE  EventsInv'
  <1> USE PeerAssumption DEF EventsInv, EventsTypeOK, PhaseInv, CauseInv, ConnInv, Over,
          RefusedForCause, NoSleeper, Peers, peerVars
  <1>1. CASE BoxConnects
    BY <1>1 DEF BoxConnects, Room
  <1>2. CASE BoxRefused
    BY <1>2 DEF BoxRefused
  <1>3. CASE BoxWrites
    BY <1>3 DEF BoxWrites
  <1>4. CASE BoxEnds
    BY <1>4 DEF BoxEnds
  <1>5. CASE BoxTimesOut
    BY <1>5, FullOfStrangers DEF BoxTimesOut
  <1> QED
    BY <1>1, <1>2, <1>3, <1>4, <1>5 DEF BoxStep

\* Strangers.
LEMMA StrangersPreserve ==
  ASSUME EventsInv, QueueInv, NEW p \in Strangers,
         StrangerConnects(p) \/ StrangerLeaves(p)
  PROVE  EventsInv'
  <1> USE PeerAssumption DEF EventsInv, EventsTypeOK, PhaseInv, CauseInv, ConnInv, Over,
          RefusedForCause, NoSleeper, Peers, peerVars
  <1>1. CASE StrangerConnects(p)
    <2>1. Cardinality(tried) \in Nat /\ Cardinality(tried') \in Nat
          /\ Cardinality(tried') >= Cardinality(tried)
      <3>1. IsFiniteSet(tried) /\ tried' = tried \cup {p} /\ p \notin tried
        BY <1>1 DEF StrangerConnects, QueueInv
      <3>2. IsFiniteSet(tried') /\ Cardinality(tried') = Cardinality(tried) + 1
        BY <3>1, FS_AddElement
      <3>3. Cardinality(tried) \in Nat /\ Cardinality(tried') \in Nat
        BY <3>1, <3>2, FS_CardinalityType
      <3> QED
        BY <3>2, <3>3
    <2> QED
      BY <1>1, <2>1 DEF StrangerConnects, Room
  <1>2. CASE StrangerLeaves(p)
    BY <1>2 DEF StrangerLeaves
  <1> QED
    BY <1>1, <1>2

\* The queue grows at its end by who is not in it, and shrinks at its head.
LEMMA QueuePreserves ==
  ASSUME EventsInv, QueueInv, EventsNext
  PROVE  QueueInv'
  <1>1. CASE UNCHANGED <<queue, tried>> /\ (box' = box \/ box' \notin {"none", "entry"} \/ box = "none")
    BY <1>1 DEF QueueInv
  <1>2. CASE queue' = <<>> /\ UNCHANGED tried
    BY <1>2 DEF QueueInv
  <1>3. CASE Accept
    BY <1>3 DEF Accept, QueueInv, EventsInv, EventsTypeOK, ConnInv
  <1>4. CASE BoxConnects
    BY <1>4 DEF BoxConnects, QueueInv, EventsInv, EventsTypeOK
  <1>5. CASE \E p \in Strangers : StrangerConnects(p)
    <2>1. PICK p \in Strangers : StrangerConnects(p)
      BY <1>5
    <2>2. IsFiniteSet(tried')
      BY <2>1, FS_AddElement DEF StrangerConnects, QueueInv
    <2>3. p # Box /\ \A i \in 1..Len(queue) : queue[i] # p
      BY <2>1, PeerAssumption DEF StrangerConnects, EventsInv, ConnInv
    <2> QED
      BY <2>1, <2>2, <2>3 DEF StrangerConnects, QueueInv, EventsInv, EventsTypeOK
  <1>6. CASE ShutDown
    <2>1. CASE sock = "listening"
      BY <1>2, <1>6, <2>1 DEF ShutDown
    <2>2. CASE sock # "listening"
      BY <1>1, <1>6, <2>2 DEF ShutDown
    <2> QED
      BY <2>1, <2>2
  <1>7. CASE XhostRaises \/ EndProcess \/ Close
    BY <1>2, <1>7 DEF XhostRaises, EndProcess, ProcessEnds, Close
  <1>8. CASE \/ StartHandler \/ StartContainer \/ StopWaiting(FALSE) \/ StopWaiting(TRUE) \/ SetEvent
    BY <1>1, <1>8 DEF StartHandler, StartContainer, StopWaiting, SetEvent, EventsInv, CauseInv,
                      peerVars
  <1>9. CASE Listen \/ Check \/ AcceptFails \/ Receive \/ ReceiveFails \/ ListenErrors
    BY <1>1, <1>9 DEF Listen, Check, AcceptFails, Receive, ReceiveFails, ListenErrors, peerVars
  <1>10. CASE BoxRefused \/ BoxWrites \/ BoxTimesOut \/ BoxEnds
    BY <1>1, <1>10 DEF BoxRefused, BoxWrites, BoxTimesOut, BoxEnds
  <1>11. CASE \E p \in Strangers : StrangerLeaves(p)
    BY <1>1, <1>11 DEF StrangerLeaves
  <1> QED
    BY <1>3, <1>4, <1>5, <1>6, <1>7, <1>8, <1>9, <1>10, <1>11
       DEF EventsNext, MainStep, ListenerStep, BoxStep

\* Every step, and a stutter.
LEMMA NextPreserves ==
  ASSUME EventsInv /\ QueueInv, [EventsNext]_eventsVars
  PROVE  (EventsInv /\ QueueInv)'
  <1>1. CASE UNCHANGED eventsVars
    BY <1>1 DEF EventsInv, EventsTypeOK, PhaseInv, CauseInv, ConnInv, RefusedForCause, QueueInv,
                NoSleeper, eventsVars, peerVars
  <1>2. CASE EventsNext
    BY <1>2, MainPreserves, ListenerPreserves, BoxPreserves, StrangersPreserve, QueuePreserves
       DEF EventsNext
  <1> QED
    BY <1>1, <1>2

\* The invariant holds throughout.
LEMMA InvariantHolds == EventsSpec => []EventsInv
  <1>1. EventsInit => QueueInv
    BY FS_EmptySet DEF EventsInit, QueueInv
  <1> QED
    BY <1>1, InitEstablishes, NextPreserves, PTL DEF EventsSpec

\* Type correctness: connections are to peers, at most Backlog + 1 of them wait, and
\* container_event_listener has an accepted one exactly while it reads.
THEOREM EventsTypes == EventsSpec => []EventsTypeOK
  <1>1. EventsInv => EventsTypeOK
    BY DEF EventsInv
  <1> QED
    BY <1>1, InvariantHolds, PTL

\* SocketCancelEvent.set wakes the listener up wherever it is: the event is set
\* before the socket is shut down, and the listener looks at the one before it
\* waits on the other.
THEOREM NobodySleeps == EventsSpec => []NoSleeper
  <1>1. EventsInv => NoSleeper
    BY DEF EventsInv, PhaseInv
  <1> QED
    BY <1>1, InvariantHolds, PTL

\* The entry point is turned away, and the listener stops, only for a cause that
\* can be named: a cancellation, an early start, an error of the kernel, a stranger,
\* or a queue that more than Backlog strangers have filled.
THEOREM TurnedAwayForCause == EventsSpec => []RefusedForCause
  <1>1. EventsInv => RefusedForCause
    BY DEF EventsInv
  <1> QED
    BY <1>1, InvariantHolds, PTL

----------------------------------------------------------------------------
(* Loops                                                                    *)

\* A non-empty set of natural numbers has a least element.
LEMMA LeastNumber ==
  ASSUME NEW S, S \subseteq Nat, S # {}
  PROVE  \E m \in S : \A n \in S : m <= n
  <1>1. PICK m \in S : \A n \in S : ~(<<n, m>> \in OpToRel(<, Nat))
    BY NatLessThanWellFounded, WFMin
  <1>2. \A n \in S : ~(n < m)
    BY <1>1 DEF OpToRel
  <1> QED
    BY <1>2

\* A set that has 0 and with every number below n the next has all of them.
LEMMA Turns ==
  ASSUME NEW n \in Nat, NEW S, 0 \in S, \A i \in 1 .. n : i - 1 \in S => i \in S
  PROVE  \A i \in 0 .. n : i \in S
  <1> DEFINE T == (0 .. n) \ S
  <1> SUFFICES ASSUME T # {} PROVE FALSE
    OBVIOUS
  <1>0. T \subseteq Nat
    OBVIOUS
  <1>1. PICK m \in T : \A i \in T : m <= i
    <2> HIDE DEF T
    <2> QED
      BY <1>0, LeastNumber
  <1>2. m # 0 /\ m \in 1 .. n /\ m - 1 \in 0 .. n /\ ~(m <= m - 1)
    BY <1>1
  <1> QED
    BY <1>1, <1>2

\* The states of a loop of n turns, of which the i-th is G[i].
LoopOf(f, n, base, G) == f[0] = base /\ \A i \in 1 .. n : f[i] = G[i][f[i - 1]]

\* A loop of n turns has its states, if every turn leads from states to states.
LEMMA LoopExists ==
  ASSUME NEW n \in Nat, NEW S, NEW base \in S, NEW G \in [1 .. n -> [S -> S]]
  PROVE  \E f \in [0 .. n -> S] : LoopOf(f, n, base, G)
  <1> USE DEF LoopOf
  <1> DEFINE Is(k, f) == LoopOf(f, k, base, G)
             Has(k) == \E f \in [0 .. k -> S] : Is(k, f)
             N == {k \in 0 .. n : Has(k)}
  <1>1. Has(0)
    <2> DEFINE e == [i \in 0 .. 0 |-> base]
    <2>1. e \in [0 .. 0 -> S] /\ Is(0, e)
      OBVIOUS
    <2> QED
      BY <2>1
  <1>2. ASSUME NEW k \in 1 .. n, Has(k - 1) PROVE Has(k)
    <2>1. PICK f \in [0 .. k - 1 -> S] : Is(k - 1, f)
      BY <1>2
    <2> DEFINE h == [i \in 0 .. k |-> IF i = k THEN G[k][f[k - 1]] ELSE f[i]]
    <2>2. G[k] \in [S -> S] /\ f[k - 1] \in S /\ k # 0 /\ k - 1 \in 0 .. k - 1
      OBVIOUS
    <2>3. h \in [0 .. k -> S]
      BY <2>2
    <2>4. h[0] = base
      BY <2>1, <2>2
    <2>5. ASSUME NEW i \in 1 .. k PROVE h[i] = G[i][h[i - 1]]
      <3>1. CASE i = k
        BY <3>1, <2>2
      <3>2. CASE i # k
        <4>1. i \in 1 .. k - 1 /\ i \in 0 .. k /\ i - 1 \in 0 .. k /\ i - 1 # k
          BY <3>2
        <4> QED
          BY <4>1, <2>1, <3>2
      <3> QED
        BY <3>1, <3>2
    <2> HIDE DEF h
    <2> QED
      BY <2>3, <2>4, <2>5
  <1> HIDE DEF Has
  <1>3. \A i \in 0 .. n : i \in N
    <2>1. 0 \in N /\ \A i \in 1 .. n : i - 1 \in N => i \in N
      BY <1>1, <1>2
    <2> HIDE DEF N
    <2> QED
      BY <2>1, Turns
  <1> QED
    BY <1>3 DEF Has

\* The last of some numbers.
LEMMA MaxIsLast ==
  ASSUME NEW n \in Nat, NEW s \in SUBSET (1 .. n), s # {}
  PROVE  Max(s) \in s /\ \A i \in s : i <= Max(s)
  <1> DEFINE R == {n - i : i \in s}
  <1>1. R \subseteq Nat /\ R # {}
    OBVIOUS
  <1>2. PICK r \in R : \A q \in R : r <= q
    BY <1>1, LeastNumber
  <1>3. PICK m \in s : r = n - m
    BY <1>2
  <1>4. ASSUME NEW i \in s PROVE i <= m
    <2>1. n - i \in R /\ i \in Nat /\ m \in Nat
      OBVIOUS
    <2>2. n - m <= n - i
      BY <1>2, <1>3, <2>1
    <2> QED
      BY <2>1, <2>2
  <1>5. \E x \in s : \A y \in s : x >= y
    BY <1>4
  <1> QED
    BY <1>5 DEF Max

\* The last of the first i numbers is i, and the others are the first i - 1.
LEMMA MaxOfInterval ==
  ASSUME NEW i \in Nat \ {0}
  PROVE  1 .. i # {} /\ Max(1 .. i) = i /\ (1 .. i) \ {i} = 1 .. (i - 1)
  <1>1. i \in 1 .. i /\ 1 .. i # {} /\ 1 .. i \in SUBSET (1 .. i)
    OBVIOUS
  <1>2. Max(1 .. i) \in 1 .. i /\ \A k \in 1 .. i : k <= Max(1 .. i)
    BY <1>1, MaxIsLast
  <1>3. Max(1 .. i) = i
    BY <1>1, <1>2
  <1> QED
    BY <1>1, <1>3

\* What FoldLeft is defined by: its values for some of the turns.
FoldOf(f, n, base, G) ==
  \A s \in SUBSET (1 .. n) : f[s] = IF s = {} THEN base ELSE G[Max(s)][f[s \ {Max(s)}]]

\* That exists, if every turn leads from states to states.
LEMMA FoldExists ==
  ASSUME NEW n \in Nat, NEW S, NEW base \in S, NEW G \in [1 .. n -> [S -> S]]
  PROVE  \E f \in [SUBSET (1 .. n) -> S] : FoldOf(f, n, base, G)
  <1> USE DEF FoldOf
  <1> DEFINE Is(k, f) == FoldOf(f, k, base, G)
             Has(k) == \E f \in [SUBSET (1 .. k) -> S] : Is(k, f)
             N == {k \in 0 .. n : Has(k)}
  <1>1. Has(0)
    <2> DEFINE e == [s \in SUBSET (1 .. 0) |-> base]
    <2>1. \A s \in SUBSET (1 .. 0) : s = {}
      OBVIOUS
    <2>2. e \in [SUBSET (1 .. 0) -> S] /\ Is(0, e)
      BY <2>1
    <2> QED
      BY <2>2
  <1>2. ASSUME NEW k \in 1 .. n, Has(k - 1) PROVE Has(k)
    <2>1. PICK f \in [SUBSET (1 .. k - 1) -> S] : Is(k - 1, f)
      BY <1>2
    <2> DEFINE h == [s \in SUBSET (1 .. k) |-> IF k \in s THEN G[k][f[s \ {k}]] ELSE f[s]]
    <2>2. \A s \in SUBSET (1 .. k) : /\ s \ {k} \in SUBSET (1 .. k - 1)
                                     /\ k \notin s => s \in SUBSET (1 .. k - 1)
      OBVIOUS
    <2>3. G[k] \in [S -> S]
      OBVIOUS
    <2>4. h \in [SUBSET (1 .. k) -> S]
      BY <2>2, <2>3
    <2>5. ASSUME NEW s \in SUBSET (1 .. k)
          PROVE  h[s] = IF s = {} THEN base ELSE G[Max(s)][h[s \ {Max(s)}]]
      <3>1. CASE k \in s
        <4>1. Max(s) = k
          <5>0. k \in Nat /\ s # {}
            BY <3>1
          <5>1. Max(s) \in s /\ \A i \in s : i <= Max(s)
            BY <5>0, MaxIsLast
          <5>2. Max(s) \in 1 .. k
            BY <5>1
          <5>3. k <= Max(s)
            BY <5>1, <3>1
          <5> QED
            BY <5>2, <5>3
        <4>2. h[s] = G[k][f[s \ {k}]]
          BY <3>1
        <4>3. s \ {k} \in SUBSET (1 .. k) /\ k \notin s \ {k}
          OBVIOUS
        <4>4. h[s \ {k}] = f[s \ {k}]
          BY <4>3
        <4> QED
          BY <3>1, <4>1, <4>2, <4>4
      <3>2. CASE k \notin s /\ s # {}
        <4>1. s \in SUBSET (1 .. k - 1) /\ h[s] = f[s]
          BY <2>2, <3>2
        <4>2. f[s] = G[Max(s)][f[s \ {Max(s)}]]
          BY <2>1, <4>1, <3>2
        <4>3. s \ {Max(s)} \in SUBSET (1 .. k) /\ k \notin s \ {Max(s)}
          BY <3>2
        <4>4. h[s \ {Max(s)}] = f[s \ {Max(s)}]
          BY <4>3
        <4> QED
          BY <3>2, <4>1, <4>2, <4>4
      <3>3. CASE s = {}
        <4>1. s \in SUBSET (1 .. k - 1) /\ h[s] = f[s]
          BY <2>2, <3>3
        <4> QED
          BY <2>1, <4>1, <3>3
      <3> QED
        BY <3>1, <3>2, <3>3
    <2> HIDE DEF h
    <2> QED
      BY <2>4, <2>5
  <1> HIDE DEF Has
  <1>3. \A i \in 0 .. n : i \in N
    <2>1. 0 \in N /\ \A i \in 1 .. n : i - 1 \in N => i \in N
      BY <1>1, <1>2
    <2> HIDE DEF N
    <2> QED
      BY <2>1, Turns
  <1>4. Has(n)
    BY <1>3
  <1> QED
    BY <1>4 DEF Has

\* Its values for the first turns follow from each other, as long as they are states.
TurnsOf(c, n, S, base, G) ==
  /\ c[{}] = base
  /\ \A i \in 1 .. n : c[1 .. (i - 1)] \in S => c[1 .. i] = G[i][c[1 .. (i - 1)]]

\* The value for all turns is the last state.
EndsIn(c, f, n) == c[1 .. n] = f[n]

\* They are the states of the loop.
LEMMA FoldTurns ==
  ASSUME NEW n \in Nat, NEW S, NEW base \in S, NEW G \in [1 .. n -> [S -> S]], NEW c,
         TurnsOf(c, n, S, base, G)
  PROVE  \E f \in [0 .. n -> S] : LoopOf(f, n, base, G) /\ EndsIn(c, f, n)
  <1>1. PICK f \in [0 .. n -> S] : LoopOf(f, n, base, G)
    BY LoopExists
  <1> DEFINE N == {i \in 0 .. n : c[1 .. i] = f[i]}
  <1>2. 1 .. 0 = {}
    OBVIOUS
  <1>3. 0 \in N
    BY <1>1, <1>2 DEF LoopOf, TurnsOf
  <1>4. ASSUME NEW i \in 1 .. n, i - 1 \in N PROVE i \in N
    <2>1. f[i - 1] \in S /\ c[1 .. (i - 1)] = f[i - 1]
      BY <1>4
    <2>2. c[1 .. i] = G[i][c[1 .. (i - 1)]]
      BY <2>1 DEF TurnsOf
    <2> QED
      BY <1>1, <2>1, <2>2 DEF LoopOf
  <1> HIDE DEF N
  <1>5. n \in N
    <2>1. \A i \in 0 .. n : i \in N
      BY <1>3, <1>4, Turns
    <2> QED
      BY <2>1
  <1> QED
    BY <1>1, <1>5 DEF N, EndsIn
\* A token of a label in the name of its directory.
Flat(x) == IF x = ":" THEN "_" ELSE x

LEMMA FlatIs ==
  /\ \A x : Flat(x) = "/" <=> x = "/"
  /\ \A x, y : Flat(x) = Flat(y) => x = y \/ {x, y} = {":", "_"}
  <1>1. "/" # ":" /\ "/" # "_"
    OBVIOUS
  <1>2. ASSUME NEW x PROVE Flat(x) = "/" <=> x = "/"
    <2>1. CASE x = ":"
      BY <1>1, <2>1 DEF Flat
    <2>2. CASE x # ":"
      BY <2>2 DEF Flat
    <2> QED
      BY <2>1, <2>2
  <1>3. ASSUME NEW x, NEW y, Flat(x) = Flat(y) PROVE x = y \/ {x, y} = {":", "_"}
    <2>1. CASE x = ":" /\ y = ":"
      BY <2>1
    <2>2. CASE x = ":" /\ y # ":"
      <3>1. y = "_"
        BY <1>3, <2>2 DEF Flat
      <3> QED
        BY <2>2, <3>1
    <2>3. CASE x # ":" /\ y = ":"
      <3>1. x = "_"
        BY <1>3, <2>3 DEF Flat
      <3> QED
        BY <2>3, <3>1
    <2>4. CASE x # ":" /\ y # ":"
      BY <1>3, <2>4 DEF Flat
    <2> QED
      BY <2>1, <2>2, <2>3, <2>4
  <1> QED
    BY <1>2, <1>3

\* The directory of a target has the tokens behind the last slash of its label.
LEMMA SanitizedIs ==
  ASSUME NEW t, NEW X, t.label \in Seq(X)
  PROVE  \E c \in 0 .. Len(t.label) :
           /\ c = 0 \/ t.label[c] = "/"
           /\ \A i \in (c + 1) .. Len(t.label) : t.label[i] # "/"
           /\ Len(Sanitized(t)) = Len(t.label) - c
           /\ \A i \in 1 .. (Len(t.label) - c) : Sanitized(t)[i] = Flat(t.label[c + i])
  <1> DEFINE l == t.label
             n == Len(l)
             flat == [i \in DOMAIN l |-> Flat(l[i])]
             F == {Flat(x) : x \in X}
             I == {i \in 1 .. Len(flat) : flat[i] = "/"}
             c == IF I # {} THEN Max(I) ELSE 0
  <1>1. n \in Nat /\ DOMAIN l = 1 .. n /\ \A i \in 1 .. n : l[i] \in X
    OBVIOUS
  <1>2. flat \in [1 .. n -> F] /\ flat \in Seq(F) /\ Len(flat) = n
    <2>1. flat \in [1 .. n -> F]
      BY <1>1
    <2> HIDE DEF flat, F, n
    <2> QED
      BY <1>1, <2>1, LenProperties, SeqDef
  <1>3. Sanitized(t) = SubSeq(flat, c + 1, Len(flat))
    BY DEF Sanitized, SelectLastInSeq, Flat
  <1>4. \A i \in 1 .. n : flat[i] = Flat(l[i])
    BY <1>1
  <1> HIDE DEF flat, l, n, F
  <1>5. I \in SUBSET (1 .. n) /\ \A i \in 1 .. n : i \in I <=> l[i] = "/"
    <2>1. \A i \in 1 .. n : flat[i] = "/" <=> l[i] = "/"
      BY <1>4, FlatIs, Zenon
    <2> QED
      BY <1>2, <2>1
  <1> HIDE DEF I
  <1>6. c \in 0 .. n /\ (c = 0 \/ l[c] = "/") /\ \A i \in (c + 1) .. n : l[i] # "/"
    <2>1. CASE I = {}
      BY <1>1, <1>5, <2>1
    <2>2. CASE I # {}
      <3>1. Max(I) \in I /\ \A i \in I : i <= Max(I)
        BY <1>1, <1>5, <2>2, MaxIsLast
      <3>2. c \in I /\ \A i \in I : i <= c
        BY <2>2, <3>1
      <3> HIDE DEF c
      <3> QED
        BY <1>1, <1>5, <3>2
    <2> QED
      BY <2>1, <2>2
  <1> HIDE DEF c
  <1>7. /\ Len(Sanitized(t)) = n - c
        /\ \A i \in 1 .. (n - c) : Sanitized(t)[i] = flat[c + i]
    <2>1. c + 1 \in 1 .. n + 1 /\ n \in (c + 1) - 1 .. n /\ n - (c + 1) + 1 = n - c
      BY <1>1, <1>6
    <2>2. /\ Len(SubSeq(flat, c + 1, n)) = n - (c + 1) + 1
          /\ \A i \in 1 .. n - (c + 1) + 1 : SubSeq(flat, c + 1, n)[i] = flat[(c + 1) + i - 1]
      BY <1>1, <1>2, <1>6
    <2>3. \A i \in 1 .. (n - c) : (c + 1) + i - 1 = c + i
      BY <1>1, <1>6
    <2> QED
      BY <1>2, <1>3, <2>1, <2>2, <2>3
  <1>8. \A i \in 1 .. (n - c) : c + i \in 1 .. n
    BY <1>1, <1>6
  <1> QED
    BY <1>4, <1>6, <1>7, <1>8 DEF l, n

\* Targets that share a directory have labels that end alike.
LEMMA SameDirectory ==
  ASSUME NEW t, NEW u, NEW X, NEW Y, t.label \in Seq(X), u.label \in Seq(Y), Sanitized(t) = Sanitized(u)
  PROVE  EndAlike(t.label, u.label)
  <1> DEFINE l == t.label
             m == u.label
             s == Sanitized(t)
  <1>1. PICK a \in 0 .. Len(l) :
           /\ a = 0 \/ l[a] = "/"
           /\ \A i \in (a + 1) .. Len(l) : l[i] # "/"
           /\ Len(s) = Len(l) - a
           /\ \A i \in 1 .. (Len(l) - a) : s[i] = Flat(l[a + i])
    BY SanitizedIs
  <1>2. PICK b \in 0 .. Len(m) :
           /\ b = 0 \/ m[b] = "/"
           /\ \A i \in (b + 1) .. Len(m) : m[i] # "/"
           /\ Len(s) = Len(m) - b
           /\ \A i \in 1 .. (Len(m) - b) : s[i] = Flat(m[b + i])
    BY SanitizedIs
  <1>3. Len(l) \in Nat /\ Len(m) \in Nat
    OBVIOUS
  <1> HIDE DEF l, m, s
  <1> DEFINE n == Len(l) - a
  <1>4. /\ n \in 0 .. Len(l) /\ n <= Len(m) /\ n = Len(m) - b
        /\ n = Len(l) \/ l[Len(l) - n] = "/"
        /\ n = Len(m) \/ m[Len(m) - n] = "/"
    <2> DEFINE L == Len(l)
               M == Len(m)
    <2>0. L \in Nat /\ M \in Nat /\ a \in 0 .. L /\ b \in 0 .. M /\ L - a = M - b /\ n = L - a
      BY <1>1, <1>2, <1>3
    <2> HIDE DEF n, L, M
    <2>a. /\ n \in 0 .. L /\ n = M - b /\ n <= M /\ L - n = a /\ M - n = b
          /\ (a = 0 => n = L) /\ (b = 0 => n = M)
      BY <2>0
    <2>1. n \in 0 .. Len(l) /\ n = Len(m) - b /\ n <= Len(m) /\ Len(l) - n = a /\ Len(m) - n = b
      BY <2>a DEF L, M
    <2>2. (a = 0 => n = Len(l)) /\ (b = 0 => n = Len(m))
      BY <2>a DEF L, M
    <2> QED
      BY <1>1, <1>2, <2>1, <2>2
  <1>5. ASSUME NEW d \in 0 .. (n - 1)
        PROVE  /\ l[Len(l) - d] # "/" /\ m[Len(m) - d] # "/"
               /\ Flat(l[Len(l) - d]) = Flat(m[Len(m) - d])
    <2>1. /\ n - d \in 1 .. n /\ a + (n - d) = Len(l) - d /\ b + (n - d) = Len(m) - d
          /\ Len(l) - d \in (a + 1) .. Len(l) /\ Len(m) - d \in (b + 1) .. Len(m)
      <3> DEFINE L == Len(l)
                 M == Len(m)
      <3>1. L \in Nat /\ M \in Nat /\ a \in 0 .. L /\ b \in 0 .. M /\ n = L - a /\ n = M - b
        BY <1>3, <1>4
      <3> HIDE DEF n, L, M
      <3>2. /\ n - d \in 1 .. n /\ a + (n - d) = L - d /\ b + (n - d) = M - d
            /\ L - d \in (a + 1) .. L /\ M - d \in (b + 1) .. M
        BY <3>1
      <3> QED
        BY <3>2 DEF L, M
    <2>2. s[n - d] = Flat(l[a + (n - d)]) /\ s[n - d] = Flat(m[b + (n - d)])
      BY <1>1, <1>2, <1>4, <2>1
    <2> HIDE DEF n
    <2> QED
      BY <1>1, <1>2, <2>1, <2>2
  <1> HIDE DEF n
  <1>6. \A d \in 0 .. (n - 1) :
          LET x == l[Len(l) - d]
              y == m[Len(m) - d]
          IN  "/" \notin {x, y} /\ (x = y \/ {x, y} = {":", "_"})
    BY <1>5, FlatIs, Zenon
  <1> QED
    BY <1>4, <1>6, Zenon DEF EndAlike, l, m

----------------------------------------------------------------------------
(* bep.py and bootstrap.py                                                  *)

\* The loop of bep.py, turn by turn.
BepLoop(f, base, ts) ==
  /\ f[0] = base /\ FoldLeft(BepStep, base, ts) = f[Len(ts)]
  /\ \A i \in 1 .. Len(ts) : f[i] = BepStep(f[i - 1], ts[i])

\* It has such states if every turn leads from states to states.
LEMMA BepTurns ==
  ASSUME NEW T, NEW ts \in Seq(T), NEW S, NEW base \in S,
         \A st \in S : \A t \in T : BepStep(st, t) \in S
  PROVE  \E f \in [0 .. Len(ts) -> S] : BepLoop(f, base, ts)
  <1> DEFINE n == Len(ts)
             G == [i \in 1 .. n |-> [x \in S |-> BepStep(x, ts[i])]]
             Is(g) == g = [s \in SUBSET (DOMAIN ts) |->
                             IF s = {} THEN base ELSE BepStep(g[s \ {Max(s)}], ts[Max(s)])]
             c == CHOOSE g : Is(g)
  <1>1. n \in Nat /\ DOMAIN ts = 1 .. n /\ \A i \in 1 .. n : ts[i] \in T
    OBVIOUS
  <1>2. G \in [1 .. n -> [S -> S]]
    BY <1>1
  <1>3. FoldLeft(BepStep, base, ts) = c[DOMAIN ts]
    BY Zenon DEF FoldLeft, MapThenFoldSet
  <1>4. PICK g \in [SUBSET (1 .. n) -> S] : FoldOf(g, n, base, G)
    <2> HIDE DEF G, n
    <2> QED
      BY <1>1, <1>2, FoldExists
  <1>5. ASSUME NEW s \in SUBSET (1 .. n), s # {}
        PROVE  g[s] = BepStep(g[s \ {Max(s)}], ts[Max(s)])
    <2>1. Max(s) \in 1 .. n /\ s \ {Max(s)} \in SUBSET (1 .. n)
      BY <1>1, <1>5, MaxIsLast
    <2>2. g[s \ {Max(s)}] \in S
      BY <2>1
    <2> QED
      BY <1>4, <1>5, <2>1, <2>2 DEF FoldOf
  <1>6. Is(g)
    BY <1>1, <1>4, <1>5 DEF FoldOf
  <1>7. Is(c)
    BY <1>6
  <1>8. ASSUME NEW i \in 1 .. n, c[1 .. (i - 1)] \in S
        PROVE  c[1 .. i] = G[i][c[1 .. (i - 1)]]
    <2>1. 1 .. i # {} /\ Max(1 .. i) = i /\ (1 .. i) \ {i} = 1 .. (i - 1)
      BY MaxOfInterval
    <2>2. 1 .. i \in SUBSET (DOMAIN ts)
      BY <1>1
    <2>3. c[1 .. i] = BepStep(c[1 .. (i - 1)], ts[i])
      BY <1>7, <2>1, <2>2
    <2> QED
      BY <1>8, <2>3
  <1>9. TurnsOf(c, n, S, base, G)
    <2>1. c[{}] = base
      BY <1>7
    <2> HIDE DEF c, G
    <2> QED
      BY <1>8, <2>1 DEF TurnsOf
  <1>10. PICK f \in [0 .. n -> S] : LoopOf(f, n, base, G) /\ EndsIn(c, f, n)
    <2>1. n \in Nat
      BY <1>1
    <2> HIDE DEF c, G, n, Is
    <2> QED
      BY <2>1, <1>2, <1>9, FoldTurns
  <1>11. ASSUME NEW i \in 1 .. n PROVE f[i] = BepStep(f[i - 1], ts[i])
    <2>1. f[i - 1] \in S
      OBVIOUS
    <2> QED
      BY <1>10, <2>1 DEF LoopOf
  <1> QED
    BY <1>1, <1>3, <1>10, <1>11 DEF LoopOf, EndsIn, BepLoop

\* The loop of bootstrap.py, turn by turn.
BootstrapLoop(f, base, ts) ==
  /\ f[0] = base /\ FoldLeft(BootstrapStep, base, ts) = f[Len(ts)]
  /\ \A i \in 1 .. Len(ts) : f[i] = BootstrapStep(f[i - 1], ts[i])

\* It has such states if every turn leads from states to states.
LEMMA BootstrapTurns ==
  ASSUME NEW T, NEW ts \in Seq(T), NEW S, NEW base \in S,
         \A st \in S : \A t \in T : BootstrapStep(st, t) \in S
  PROVE  \E f \in [0 .. Len(ts) -> S] : BootstrapLoop(f, base, ts)
  <1> DEFINE n == Len(ts)
             G == [i \in 1 .. n |-> [x \in S |-> BootstrapStep(x, ts[i])]]
             Is(g) == g = [s \in SUBSET (DOMAIN ts) |->
                             IF s = {} THEN base ELSE BootstrapStep(g[s \ {Max(s)}], ts[Max(s)])]
             c == CHOOSE g : Is(g)
  <1>1. n \in Nat /\ DOMAIN ts = 1 .. n /\ \A i \in 1 .. n : ts[i] \in T
    OBVIOUS
  <1>2. G \in [1 .. n -> [S -> S]]
    BY <1>1
  <1>3. FoldLeft(BootstrapStep, base, ts) = c[DOMAIN ts]
    BY Zenon DEF FoldLeft, MapThenFoldSet
  <1>4. PICK g \in [SUBSET (1 .. n) -> S] : FoldOf(g, n, base, G)
    <2> HIDE DEF G, n
    <2> QED
      BY <1>1, <1>2, FoldExists
  <1>5. ASSUME NEW s \in SUBSET (1 .. n), s # {}
        PROVE  g[s] = BootstrapStep(g[s \ {Max(s)}], ts[Max(s)])
    <2>1. Max(s) \in 1 .. n /\ s \ {Max(s)} \in SUBSET (1 .. n)
      BY <1>1, <1>5, MaxIsLast
    <2>2. g[s \ {Max(s)}] \in S
      BY <2>1
    <2> QED
      BY <1>4, <1>5, <2>1, <2>2 DEF FoldOf
  <1>6. Is(g)
    BY <1>1, <1>4, <1>5 DEF FoldOf
  <1>7. Is(c)
    BY <1>6
  <1>8. ASSUME NEW i \in 1 .. n, c[1 .. (i - 1)] \in S
        PROVE  c[1 .. i] = G[i][c[1 .. (i - 1)]]
    <2>1. 1 .. i # {} /\ Max(1 .. i) = i /\ (1 .. i) \ {i} = 1 .. (i - 1)
      BY MaxOfInterval
    <2>2. 1 .. i \in SUBSET (DOMAIN ts)
      BY <1>1
    <2>3. c[1 .. i] = BootstrapStep(c[1 .. (i - 1)], ts[i])
      BY <1>7, <2>1, <2>2
    <2> QED
      BY <1>8, <2>3
  <1>9. TurnsOf(c, n, S, base, G)
    <2>1. c[{}] = base
      BY <1>7
    <2> HIDE DEF c, G
    <2> QED
      BY <1>8, <2>1 DEF TurnsOf
  <1>10. PICK f \in [0 .. n -> S] : LoopOf(f, n, base, G) /\ EndsIn(c, f, n)
    <2>1. n \in Nat
      BY <1>1
    <2> HIDE DEF c, G, n, Is
    <2> QED
      BY <2>1, <1>2, <1>9, FoldTurns
  <1>11. ASSUME NEW i \in 1 .. n PROVE f[i] = BootstrapStep(f[i - 1], ts[i])
    <2>1. f[i - 1] \in S
      OBVIOUS
    <2> QED
      BY <1>10, <2>1 DEF LoopOf
  <1> QED
    BY <1>1, <1>3, <1>10, <1>11 DEF LoopOf, EndsIn, BootstrapLoop

\* The states of the loop of bep.py over some targets.
BepStates(T) ==
  [exit : {0, 1}, file : UNION {[D -> T] : D \in SUBSET {Sanitized(t) : t \in T}}]

\* A turn leads from a state to a state.
LEMMA BepTypes ==
  ASSUME NEW T, NEW st \in BepStates(T), NEW t \in T
  PROVE  BepStep(st, t) \in BepStates(T)
  <1> DEFINE N == {Sanitized(u) : u \in T}
             D == DOMAIN st.file \cup {Sanitized(t)}
             file == [n \in D |-> IF n = Sanitized(t) THEN t ELSE st.file[n]]
  <1>1. PICK E \in SUBSET N : st.file \in [E -> T]
    BY DEF BepStates
  <1>2. D \in SUBSET N
    BY <1>1
  <1>3. file \in [D -> T]
    BY <1>1
  <1>4. CASE st.exit # 0
    BY <1>4 DEF BepStep
  <1>5. CASE st.exit = 0
    <2>1. BepStep(st, t) = [exit |-> IF t.fails THEN 1 ELSE 0, file |-> file]
      BY <1>5 DEF BepStep
    <2> HIDE DEF file, D
    <2>2. (IF t.fails THEN 1 ELSE 0) \in {0, 1} /\ file \in UNION {[C -> T] : C \in SUBSET N}
      BY <1>2, <1>3
    <2> QED
      BY <2>1, <2>2 DEF BepStates
  <1> QED
    BY <1>4, <1>5

\* The m-th is the last of the first k targets that end like the i-th.
LastLike(ts, i, k, m) ==
  /\ m \in 1 .. k /\ Sanitized(ts[m]) = Sanitized(ts[i])
  /\ \A j \in 1 .. k : Sanitized(ts[j]) = Sanitized(ts[i]) => j <= m

\* The events of the i-th target are there after k turns, or those of a later one.
Written(st, ts, i, k) ==
  /\ ~ts[i].fails /\ Sanitized(ts[i]) \in DOMAIN st.file
  /\ \E m \in 1 .. k : LastLike(ts, i, k, m) /\ st.file[Sanitized(ts[i])] = ts[m]

\* The loop goes on only while every target was built.
LEMMA BepKeeps ==
  ASSUME NEW T, NEW ts \in Seq(T), \A t \in T : t.fails \in BOOLEAN, NEW st \in BepStates(T),
         NEW k \in 1 .. Len(ts), st.exit = 0 => \A i \in 1 .. (k - 1) : Written(st, ts, i, k - 1),
         BepStep(st, ts[k]).exit = 0, NEW i \in 1 .. k
  PROVE  Written(BepStep(st, ts[k]), ts, i, k)
  <1> DEFINE t == ts[k]
             D == DOMAIN st.file \cup {Sanitized(t)}
             file == [n \in D |-> IF n = Sanitized(t) THEN t ELSE st.file[n]]
  <1>1. t \in T /\ t.fails \in BOOLEAN
    OBVIOUS
  <1>2. st.exit = 0
    BY DEF BepStep
  <1>3. ~t.fails /\ BepStep(st, t) = [exit |-> 0, file |-> file]
    BY <1>1, <1>2 DEF BepStep
  <1> DEFINE nxt == BepStep(st, t)
  <1>a. nxt.file = file /\ DOMAIN nxt.file = D
    BY <1>3
  <1>4. CASE Sanitized(ts[i]) = Sanitized(t)
    <2>1. LastLike(ts, i, k, k)
      BY <1>4 DEF LastLike
    <2>2. Sanitized(ts[i]) \in D /\ file[Sanitized(ts[i])] = ts[k]
      BY <1>4
    <2>3. ~ts[i].fails
      <3>1. CASE i = k
        BY <1>3, <3>1
      <3>2. CASE i # k
        BY <1>2, <3>2 DEF Written
      <3> QED
        BY <3>1, <3>2
    <2> HIDE DEF file, D, nxt
    <2>4. Written(nxt, ts, i, k)
      BY <1>a, <2>1, <2>2, <2>3 DEF Written
    <2> QED
      BY <2>4 DEF nxt
  <1>5. CASE Sanitized(ts[i]) # Sanitized(t)
    <2>1. i \in 1 .. (k - 1)
      BY <1>5
    <2>2. Written(st, ts, i, k - 1)
      BY <1>2, <2>1
    <2>3. PICK m \in 1 .. (k - 1) : LastLike(ts, i, k - 1, m) /\ st.file[Sanitized(ts[i])] = ts[m]
      BY <2>2 DEF Written
    <2>4. m \in 1 .. k /\ LastLike(ts, i, k, m)
      <3>1. \A j \in 1 .. k : j = k \/ j \in 1 .. (k - 1)
        OBVIOUS
      <3> QED
        BY <1>5, <2>3, <3>1 DEF LastLike
    <2>5. Sanitized(ts[i]) \in D /\ file[Sanitized(ts[i])] = st.file[Sanitized(ts[i])] /\ ~ts[i].fails
      BY <1>5, <2>2 DEF Written
    <2> HIDE DEF file, D, nxt
    <2>6. Written(nxt, ts, i, k)
      BY <1>a, <2>3, <2>4, <2>5 DEF Written
    <2> QED
      BY <2>6 DEF nxt
  <1> QED
    BY <1>4, <1>5

\* If bep.py succeeds, every target was built and its events are there.
LEMMA BepIsWhole ==
  ASSUME NEW in, NEW T, in.targets \in Seq(T), \A t \in T : t.fails \in BOOLEAN,
         bep(in).exit = 0, NEW i \in DOMAIN in.targets
  PROVE  /\ ~in.targets[i].fails /\ Sanitized(in.targets[i]) \in DOMAIN bep(in).file
         /\ \E m \in DOMAIN in.targets :
              /\ i <= m /\ Sanitized(in.targets[m]) = Sanitized(in.targets[i])
              /\ bep(in).file[Sanitized(in.targets[i])] = in.targets[m]
  <1> DEFINE ts == in.targets
             n == Len(ts)
             none == [file |-> [m \in {} |-> All], exit |-> 0]
             S == BepStates(T)
  <1>1. ts # <<>> /\ n \in Nat /\ DOMAIN ts = 1 .. n
    OBVIOUS
  <1>2. bep(in) = FoldLeft(BepStep, none, ts)
    <2>1. [none EXCEPT !.exit = 1].exit = 1
      OBVIOUS
    <2>2. find_project_root(in.dirs) # NotFound
      BY <2>1 DEF bep
    <2> QED
      BY <1>1, <2>2 DEF bep
  <1>3. none \in S
    <2>1. {} \in SUBSET {Sanitized(t) : t \in T} /\ [m \in {} |-> All] \in [{} -> T]
      OBVIOUS
    <2> QED
      BY <2>1 DEF BepStates
  <1>4. PICK f \in [0 .. n -> S] : BepLoop(f, none, ts)
    <2>1. \A st \in S : \A t \in T : BepStep(st, t) \in S
      BY BepTypes
    <2> HIDE DEF none, S
    <2> QED
      BY <1>3, <2>1, BepTurns
  <1> DEFINE N == {k \in 0 .. n : f[k].exit = 0 => \A j \in 1 .. k : Written(f[k], ts, j, k)}
  <1>a. /\ f[0] = none /\ FoldLeft(BepStep, none, ts) = f[n]
        /\ \A k \in 1 .. n : f[k] = BepStep(f[k - 1], ts[k])
    <2> HIDE DEF none, S
    <2> QED
      BY <1>4 DEF BepLoop
  <1>5. 0 \in N
    BY <1>1
  <1>6. ASSUME NEW k \in 1 .. n, k - 1 \in N PROVE k \in N
    <2>1. f[k - 1] \in S /\ f[k] = BepStep(f[k - 1], ts[k])
      <3>1. k - 1 \in 0 .. n
        BY <1>1
      <3> HIDE DEF S, n, ts
      <3> QED
        BY <1>a, <3>1
    <2>2. f[k - 1].exit = 0 => \A j \in 1 .. (k - 1) : Written(f[k - 1], ts, j, k - 1)
      BY <1>6
    <2>3. ASSUME f[k].exit = 0, NEW j \in 1 .. k PROVE Written(f[k], ts, j, k)
      BY <2>1, <2>2, <2>3, BepKeeps
    <2> QED
      BY <2>3
  <1>7. n \in N
    <2> HIDE DEF N
    <2>1. \A k \in 0 .. n : k \in N
      BY <1>1, <1>5, <1>6, Turns
    <2> QED
      BY <1>1, <2>1
  <1>8. Written(f[n], ts, i, n)
    BY <1>1, <1>2, <1>a, <1>7
  <1>9. PICK m \in 1 .. n : LastLike(ts, i, n, m) /\ f[n].file[Sanitized(ts[i])] = ts[m]
    BY <1>8 DEF Written
  <1>10. i \in 1 .. n /\ i <= m /\ Sanitized(ts[m]) = Sanitized(ts[i])
    BY <1>1, <1>9 DEF LastLike
  <1> QED
    BY <1>2, <1>a, <1>8, <1>9, <1>10 DEF Written

\* Files of a template, each with a name of its own and one of the kinds.
Template(fs, D) ==
  /\ \A i \in 1 .. Len(fs) : /\ fs[i].name \in D
                             /\ fs[i].kind \in {"ok", "include", "syntax", "undefined", "unread", "late"}
  /\ \A i, k \in 1 .. Len(fs) : fs[i].name = fs[k].name => i = k

\* The states of the loop of bootstrap.py over the files of a template.
BootstrapStates(D, V) == [dest : [D -> V], error : BOOLEAN, stopped : BOOLEAN]

\* What a turn does to the file that it is about, and to the others.
LEMMA BootstrapTurn ==
  ASSUME NEW D, NEW V, {"rendered", "empty"} \subseteq V, NEW st \in BootstrapStates(D, V), NEW f,
         f.name \in D,
         f.kind \in {"ok", "include", "syntax", "undefined", "unread", "late"}
  PROVE  LET nxt == BootstrapStep(st, f)
         IN  /\ nxt \in BootstrapStates(D, V)
             /\ \A d \in D : d # f.name => nxt.dest[d] = st.dest[d]
             /\ f.kind \in {"include", "syntax", "unread"} => nxt.dest[f.name] = st.dest[f.name]
             /\ ~nxt.error /\ ~nxt.stopped => /\ ~st.error /\ ~st.stopped
                                              /\ f.kind # "include" => nxt.dest[f.name] = "rendered"
  <1> USE DEF BootstrapStates
  <1>1. CASE st.stopped \/ f.kind = "include"
    BY <1>1 DEF BootstrapStep
  <1>2. CASE ~st.stopped /\ f.kind = "ok"
    <2>1. BootstrapStep(st, f) = [st EXCEPT !.dest[f.name] = "rendered"]
      BY <1>2 DEF BootstrapStep
    <2> QED
      BY <1>2, <2>1
  <1>3. CASE ~st.stopped /\ f.kind = "syntax"
    <2>1. BootstrapStep(st, f) = [st EXCEPT !.error = TRUE]
      BY <1>3 DEF BootstrapStep
    <2> QED
      BY <1>3, <2>1
  <1>4. CASE ~st.stopped /\ f.kind = "undefined"
    <2> DEFINE mid == [st EXCEPT !.error = TRUE]
    <2>1. BootstrapStep(st, f) = [mid EXCEPT !.dest[f.name] = "empty"]
      BY <1>4 DEF BootstrapStep
    <2>2. mid \in BootstrapStates(D, V) /\ mid.dest = st.dest /\ mid.error
      OBVIOUS
    <2> HIDE DEF mid
    <2> QED
      BY <1>4, <2>1, <2>2
  <1>5. CASE ~st.stopped /\ f.kind = "unread"
    <2>1. BootstrapStep(st, f) = [st EXCEPT !.stopped = TRUE]
      BY <1>5 DEF BootstrapStep
    <2> QED
      BY <1>5, <2>1
  <1>6. CASE ~st.stopped /\ f.kind = "late"
    <2> DEFINE mid == [st EXCEPT !.stopped = TRUE]
    <2>1. BootstrapStep(st, f) = [mid EXCEPT !.dest[f.name] = "empty"]
      BY <1>6 DEF BootstrapStep
    <2>2. mid \in BootstrapStates(D, V) /\ mid.dest = st.dest /\ mid.stopped
      OBVIOUS
    <2> HIDE DEF mid
    <2> QED
      BY <1>6, <2>1, <2>2
  <1> QED
    BY <1>1, <1>2, <1>3, <1>4, <1>5, <1>6

\* After k turns without an error the first k files are in place, and those that
\* nothing is written for are as they were.
InPlace(st, dest, fs, k) ==
  /\ ~st.error /\ ~st.stopped =>
       \A i \in 1 .. k : fs[i].kind # "include" => st.dest[fs[i].name] = "rendered"
  /\ \A i \in 1 .. Len(fs) : i > k \/ fs[i].kind \in {"include", "syntax", "unread"} =>
       st.dest[fs[i].name] = dest[fs[i].name]

\* A turn keeps that.
LEMMA BootstrapKeeps ==
  ASSUME NEW D, NEW V, {"rendered", "empty"} \subseteq V, NEW st \in BootstrapStates(D, V), NEW T,
         NEW fs \in Seq(T), Template(fs, D), NEW dest, NEW k \in 1 .. Len(fs),
         InPlace(st, dest, fs, k - 1)
  PROVE  InPlace(BootstrapStep(st, fs[k]), dest, fs, k)
  <1> DEFINE nxt == BootstrapStep(st, fs[k])
             f == fs[k]
  <1>1. /\ f.name \in D
        /\ f.kind \in {"ok", "include", "syntax", "undefined", "unread", "late"}
    BY DEF Template
  <1>2. /\ \A d \in D : d # f.name => nxt.dest[d] = st.dest[d]
        /\ f.kind \in {"include", "syntax", "unread"} => nxt.dest[f.name] = st.dest[f.name]
        /\ ~nxt.error /\ ~nxt.stopped => /\ ~st.error /\ ~st.stopped
                                         /\ f.kind # "include" => nxt.dest[f.name] = "rendered"
    <2> HIDE DEF f
    <2> QED
      BY <1>1, BootstrapTurn DEF f
  <1> HIDE DEF nxt
  <1>3. ASSUME NEW i \in 1 .. Len(fs), i # k PROVE nxt.dest[fs[i].name] = st.dest[fs[i].name]
    BY <1>2, <1>3 DEF Template
  <1>4. ASSUME ~nxt.error, ~nxt.stopped, NEW i \in 1 .. k, fs[i].kind # "include"
        PROVE  nxt.dest[fs[i].name] = "rendered"
    <2>1. CASE i = k
      BY <1>2, <1>4, <2>1
    <2>2. CASE i # k
      <3>1. i \in 1 .. (k - 1) /\ i \in 1 .. Len(fs)
        BY <2>2
      <3>2. st.dest[fs[i].name] = "rendered"
        BY <1>2, <1>4, <3>1 DEF InPlace
      <3> QED
        BY <1>3, <2>2, <3>1, <3>2
    <2> QED
      BY <2>1, <2>2
  <1>5. ASSUME NEW i \in 1 .. Len(fs), i > k \/ fs[i].kind \in {"include", "syntax", "unread"}
        PROVE  nxt.dest[fs[i].name] = dest[fs[i].name]
    <2>1. st.dest[fs[i].name] = dest[fs[i].name]
      BY <1>5 DEF InPlace
    <2>2. CASE i = k
      BY <1>2, <1>5, <2>1, <2>2
    <2>3. CASE i # k
      BY <1>3, <2>1, <2>3
    <2> QED
      BY <2>2, <2>3
  <1>6. InPlace(nxt, dest, fs, k)
    BY <1>4, <1>5 DEF InPlace
  <1> QED
    BY <1>6 DEF nxt

\* A project that is reported as bootstrapped has every file in place.
LEMMA BootstrapPlaces ==
  ASSUME NEW in, NEW T, in.files \in Seq(T), NEW D, NEW W, in.dest \in [D -> W],
         Template(in.files, D), NEW i \in DOMAIN in.files
  PROVE  LET f == in.files[i]
             r == bootstrap(in)
         IN  /\ r.exit = 0 => r.dest[f.name] = IF f.kind = "include" THEN in.dest[f.name] ELSE "rendered"
             /\ f.kind \in {"syntax", "include", "unread"} => r.dest[f.name] = in.dest[f.name]
  <1> DEFINE fs == in.files
             n == Len(fs)
             V == W \cup {"rendered", "empty"}
             S == BootstrapStates(D, V)
             start == [dest |-> in.dest, error |-> FALSE, stopped |-> FALSE]
             end == FoldLeft(BootstrapStep, start, fs)
             X == {fs[k] : k \in 1 .. n}
  <1>1. n \in Nat /\ DOMAIN fs = 1 .. n /\ fs \in Seq(X) /\ {"rendered", "empty"} \subseteq V
    OBVIOUS
  <1>2. start \in S
    BY DEF BootstrapStates
  <1>3. PICK f \in [0 .. n -> S] : BootstrapLoop(f, start, fs)
    <2>1. ASSUME NEW st \in S, NEW x \in X PROVE BootstrapStep(st, x) \in S
      <3>1. PICK k \in 1 .. n : x = fs[k]
        OBVIOUS
      <3>2. /\ x.name \in D
            /\ x.kind \in {"ok", "include", "syntax", "undefined", "unread", "late"}
        BY <3>1 DEF Template
      <3> HIDE DEF V
      <3> QED
        BY <1>1, <3>2, BootstrapTurn
    <2>2. \A st \in S : \A x \in X : BootstrapStep(st, x) \in S
      BY <2>1
    <2> HIDE DEF start, S, X
    <2> QED
      BY <1>1, <1>2, <2>2, BootstrapTurns
  <1>4. /\ f[0] = start /\ end = f[n]
        /\ \A k \in 1 .. n : f[k] = BootstrapStep(f[k - 1], fs[k])
    <2> HIDE DEF start, S
    <2> QED
      BY <1>3 DEF BootstrapLoop
  <1> HIDE DEF V
  <1> DEFINE N == {k \in 0 .. n : InPlace(f[k], in.dest, fs, k)}
  <1>5. 0 \in N
    BY <1>1, <1>4 DEF InPlace
  <1>6. ASSUME NEW k \in 1 .. n, k - 1 \in N PROVE k \in N
    <2>1. f[k - 1] \in S /\ f[k] = BootstrapStep(f[k - 1], fs[k])
      <3>1. k - 1 \in 0 .. n
        BY <1>1
      <3> HIDE DEF S, n, fs
      <3> QED
        BY <1>4, <3>1
    <2>2. InPlace(f[k - 1], in.dest, fs, k - 1)
      BY <1>6
    <2>3. InPlace(f[k], in.dest, fs, k)
      BY <1>1, <2>1, <2>2, BootstrapKeeps
    <2> QED
      BY <1>1, <2>3
  <1>7. n \in N
    <2> HIDE DEF N
    <2>1. \A k \in 0 .. n : k \in N
      BY <1>1, <1>5, <1>6, Turns
    <2> QED
      BY <1>1, <2>1
  <1>8. InPlace(end, in.dest, fs, n) /\ end \in S
    BY <1>1, <1>4, <1>7
  <1>9. end.error \in BOOLEAN /\ end.stopped \in BOOLEAN
    BY <1>8 DEF BootstrapStates
  <1> HIDE DEF end
  <1>10. CASE in.args = "malformed" \/ in.template = "missing"
    <2>1. bootstrap(in) = [dest |-> in.dest, exit |-> 1]
      BY <1>10 DEF bootstrap
    <2> QED
      BY <2>1
  <1>11. CASE ~(in.args = "malformed" \/ in.template = "missing")
    <2>1. bootstrap(in) = [dest |-> end.dest, exit |-> IF end.error \/ end.stopped THEN 1 ELSE 0]
      BY <1>11 DEF bootstrap, end
    <2> QED
      BY <1>1, <1>8, <1>9, <2>1 DEF InPlace
  <1> QED
    BY <1>10, <1>11

----------------------------------------------------------------------------
(* list_external_mounts.py                                                  *)

\* The hops along a chain, one after the other.
HopLoop(fs, n, base) ==
  CHOOSE f : f = [k \in 0 .. n |-> IF k = 0 THEN base ELSE Hop(fs, f[k - 1])]

HopTurnsAre(fs, n, S, base, c) ==
  c \in [0 .. n -> S] /\ c[0] = base /\ \A k \in 1 .. n : k - 1 \in 0 .. n /\ c[k] = Hop(fs, c[k - 1])

\* They follow from each other, if every turn leads from states to states.
LEMMA HopTurns ==
  ASSUME NEW fs, NEW n \in Nat, NEW S, NEW base \in S, \A x \in S : Hop(fs, x) \in S
  PROVE  HopTurnsAre(fs, n, S, base, HopLoop(fs, n, base))
  <1> DEFINE G == [i \in 1 .. n |-> [x \in S |-> Hop(fs, x)]]
             Is(f) == f = [k \in 0 .. n |-> IF k = 0 THEN base ELSE Hop(fs, f[k - 1])]
             c == HopLoop(fs, n, base)
             N == {k \in 0 .. n : c[k] \in S}
  <1>1. PICK g \in [0 .. n -> S] : LoopOf(g, n, base, G)
    <2>1. G \in [1 .. n -> [S -> S]]
      OBVIOUS
    <2> HIDE DEF G
    <2> QED
      BY <2>1, LoopExists
  <1>2. ASSUME NEW k \in 1 .. n PROVE k - 1 \in 0 .. n /\ g[k] = Hop(fs, g[k - 1])
    <2>1. k - 1 \in 0 .. n /\ g[k - 1] \in S
      OBVIOUS
    <2> QED
      BY <1>1, <2>1 DEF LoopOf
  <1>3. Is(g)
    BY <1>1, <1>2 DEF LoopOf
  <1>4. Is(c)
    BY <1>3 DEF HopLoop
  <1> HIDE DEF c
  <1>5. c[0] = base /\ \A k \in 1 .. n : k - 1 \in 0 .. n /\ c[k] = Hop(fs, c[k - 1])
    BY <1>4
  <1>6. \A k \in 0 .. n : k \in N
    <2>1. 0 \in N
      BY <1>5
    <2>2. ASSUME NEW k \in 1 .. n, k - 1 \in N PROVE k \in N
      BY <1>5, <2>2
    <2> HIDE DEF N
    <2> QED
      BY <2>1, <2>2, Turns
  <1>7. c \in [0 .. n -> S]
    BY <1>4, <1>6
  <1> QED
    BY <1>5, <1>7 DEF c, HopTurnsAre

\* The turns of the loop of _process_symlink.
FollowLoop(fs, root, n, base) ==
  CHOOSE f : f = [k \in 0 .. n |-> IF k = 0 THEN base ELSE FollowLink(fs, root, f[k - 1])]

FollowTurnsAre(fs, root, n, S, base, c) ==
  c \in [0 .. n -> S] /\ c[0] = base /\ \A k \in 1 .. n : k - 1 \in 0 .. n /\ c[k] = FollowLink(fs, root, c[k - 1])

\* They follow from each other, if every turn leads from states to states.
LEMMA FollowTurns ==
  ASSUME NEW fs, NEW root, NEW n \in Nat, NEW S, NEW base \in S, \A x \in S : FollowLink(fs, root, x) \in S
  PROVE  FollowTurnsAre(fs, root, n, S, base, FollowLoop(fs, root, n, base))
  <1> DEFINE G == [i \in 1 .. n |-> [x \in S |-> FollowLink(fs, root, x)]]
             Is(f) == f = [k \in 0 .. n |-> IF k = 0 THEN base ELSE FollowLink(fs, root, f[k - 1])]
             c == FollowLoop(fs, root, n, base)
             N == {k \in 0 .. n : c[k] \in S}
  <1>1. PICK g \in [0 .. n -> S] : LoopOf(g, n, base, G)
    <2>1. G \in [1 .. n -> [S -> S]]
      OBVIOUS
    <2> HIDE DEF G
    <2> QED
      BY <2>1, LoopExists
  <1>2. ASSUME NEW k \in 1 .. n PROVE k - 1 \in 0 .. n /\ g[k] = FollowLink(fs, root, g[k - 1])
    <2>1. k - 1 \in 0 .. n /\ g[k - 1] \in S
      OBVIOUS
    <2> QED
      BY <1>1, <2>1 DEF LoopOf
  <1>3. Is(g)
    BY <1>1, <1>2 DEF LoopOf
  <1>4. Is(c)
    BY <1>3 DEF FollowLoop
  <1> HIDE DEF c
  <1>5. c[0] = base /\ \A k \in 1 .. n : k - 1 \in 0 .. n /\ c[k] = FollowLink(fs, root, c[k - 1])
    BY <1>4
  <1>6. \A k \in 0 .. n : k \in N
    <2>1. 0 \in N
      BY <1>5
    <2>2. ASSUME NEW k \in 1 .. n, k - 1 \in N PROVE k \in N
      BY <1>5, <2>2
    <2> HIDE DEF N
    <2> QED
      BY <2>1, <2>2, Turns
  <1>7. c \in [0 .. n -> S]
    BY <1>4, <1>6
  <1> QED
    BY <1>5, <1>7 DEF c, FollowTurnsAre

\* The turns of the loop of list_external_mounts.
ScanLoop(fs, root, n, base) ==
  CHOOSE f : f = [k \in 0 .. n |-> IF k = 0 THEN base ELSE ScanNext(fs, root, f[k - 1])]

ScanTurnsAre(fs, root, n, S, base, c) ==
  c \in [0 .. n -> S] /\ c[0] = base /\ \A k \in 1 .. n : k - 1 \in 0 .. n /\ c[k] = ScanNext(fs, root, c[k - 1])

\* They follow from each other, if every turn leads from states to states.
LEMMA ScanTurns ==
  ASSUME NEW fs, NEW root, NEW n \in Nat, NEW S, NEW base \in S, \A x \in S : ScanNext(fs, root, x) \in S
  PROVE  ScanTurnsAre(fs, root, n, S, base, ScanLoop(fs, root, n, base))
  <1> DEFINE G == [i \in 1 .. n |-> [x \in S |-> ScanNext(fs, root, x)]]
             Is(f) == f = [k \in 0 .. n |-> IF k = 0 THEN base ELSE ScanNext(fs, root, f[k - 1])]
             c == ScanLoop(fs, root, n, base)
             N == {k \in 0 .. n : c[k] \in S}
  <1>1. PICK g \in [0 .. n -> S] : LoopOf(g, n, base, G)
    <2>1. G \in [1 .. n -> [S -> S]]
      OBVIOUS
    <2> HIDE DEF G
    <2> QED
      BY <2>1, LoopExists
  <1>2. ASSUME NEW k \in 1 .. n PROVE k - 1 \in 0 .. n /\ g[k] = ScanNext(fs, root, g[k - 1])
    <2>1. k - 1 \in 0 .. n /\ g[k - 1] \in S
      OBVIOUS
    <2> QED
      BY <1>1, <2>1 DEF LoopOf
  <1>3. Is(g)
    BY <1>1, <1>2 DEF LoopOf
  <1>4. Is(c)
    BY <1>3 DEF ScanLoop
  <1> HIDE DEF c
  <1>5. c[0] = base /\ \A k \in 1 .. n : k - 1 \in 0 .. n /\ c[k] = ScanNext(fs, root, c[k - 1])
    BY <1>4
  <1>6. \A k \in 0 .. n : k \in N
    <2>1. 0 \in N
      BY <1>5
    <2>2. ASSUME NEW k \in 1 .. n, k - 1 \in N PROVE k \in N
      BY <1>5, <2>2
    <2> HIDE DEF N
    <2> QED
      BY <2>1, <2>2, Turns
  <1>7. c \in [0 .. n -> S]
    BY <1>4, <1>6
  <1> QED
    BY <1>5, <1>7 DEF c, ScanTurnsAre

\* The places of a set in the order of their paths, one by one.
OrderLoop(U, f, base, ts) ==
  /\ f[0] = base /\ FoldLeft(LAMBDA s, p : IF p \in U THEN Append(s, p) ELSE s, base, ts) = f[Len(ts)]
  /\ \A i \in 1 .. Len(ts) : f[i] = (IF ts[i] \in U THEN Append(f[i - 1], ts[i]) ELSE f[i - 1])

\* It has such states if every turn leads from states to states.
LEMMA OrderTurns ==
  ASSUME NEW U, NEW T, NEW ts \in Seq(T), NEW S, NEW base \in S,
         \A st \in S : \A t \in T : (IF t \in U THEN Append(st, t) ELSE st) \in S
  PROVE  \E f \in [0 .. Len(ts) -> S] : OrderLoop(U, f, base, ts)
  <1> DEFINE n == Len(ts)
             G == [i \in 1 .. n |-> [x \in S |-> (IF ts[i] \in U THEN Append(x, ts[i]) ELSE x)]]
             Is(g) == g = [s \in SUBSET (DOMAIN ts) |->
                             IF s = {} THEN base ELSE (IF ts[Max(s)] \in U THEN Append(g[s \ {Max(s)}], ts[Max(s)]) ELSE g[s \ {Max(s)}])]
             c == CHOOSE g : Is(g)
  <1>1. n \in Nat /\ DOMAIN ts = 1 .. n /\ \A i \in 1 .. n : ts[i] \in T
    OBVIOUS
  <1>2. G \in [1 .. n -> [S -> S]]
    BY <1>1
  <1>3. FoldLeft(LAMBDA s, p : IF p \in U THEN Append(s, p) ELSE s, base, ts) = c[DOMAIN ts]
    BY Zenon DEF FoldLeft, MapThenFoldSet
  <1>4. PICK g \in [SUBSET (1 .. n) -> S] : FoldOf(g, n, base, G)
    <2> HIDE DEF G, n
    <2> QED
      BY <1>1, <1>2, FoldExists
  <1>5. ASSUME NEW s \in SUBSET (1 .. n), s # {}
        PROVE  g[s] = (IF ts[Max(s)] \in U THEN Append(g[s \ {Max(s)}], ts[Max(s)]) ELSE g[s \ {Max(s)}])
    <2>1. Max(s) \in 1 .. n /\ s \ {Max(s)} \in SUBSET (1 .. n)
      BY <1>1, <1>5, MaxIsLast
    <2>2. g[s \ {Max(s)}] \in S
      BY <2>1
    <2> QED
      BY <1>4, <1>5, <2>1, <2>2 DEF FoldOf
  <1>6. Is(g)
    BY <1>1, <1>4, <1>5 DEF FoldOf
  <1>7. Is(c)
    BY <1>6
  <1>8. ASSUME NEW i \in 1 .. n, c[1 .. (i - 1)] \in S
        PROVE  c[1 .. i] = G[i][c[1 .. (i - 1)]]
    <2>1. 1 .. i # {} /\ Max(1 .. i) = i /\ (1 .. i) \ {i} = 1 .. (i - 1)
      BY MaxOfInterval
    <2>2. 1 .. i \in SUBSET (DOMAIN ts)
      BY <1>1
    <2>3. c[1 .. i] = (IF ts[i] \in U THEN Append(c[1 .. (i - 1)], ts[i]) ELSE c[1 .. (i - 1)])
      BY <1>7, <2>1, <2>2
    <2> QED
      BY <1>8, <2>3
  <1>9. TurnsOf(c, n, S, base, G)
    <2>1. c[{}] = base
      BY <1>7
    <2> HIDE DEF c, G
    <2> QED
      BY <1>8, <2>1 DEF TurnsOf
  <1>10. PICK f \in [0 .. n -> S] : LoopOf(f, n, base, G) /\ EndsIn(c, f, n)
    <2>1. n \in Nat
      BY <1>1
    <2> HIDE DEF c, G, n, Is
    <2> QED
      BY <2>1, <1>2, <1>9, FoldTurns
  <1>11. ASSUME NEW i \in 1 .. n PROVE f[i] = (IF ts[i] \in U THEN Append(f[i - 1], ts[i]) ELSE f[i - 1])
    <2>1. f[i - 1] \in S
      OBVIOUS
    <2> QED
      BY <1>10, <2>1 DEF LoopOf
  <1> QED
    BY <1>1, <1>3, <1>10, <1>11 DEF LoopOf, EndsIn, OrderLoop

\* The links below a directory, one by one.
ChainLoop(fs, root, f, base, ts) ==
  /\ f[0] = base /\ FoldLeft(LAMBDA s, p : _process_symlink(fs, root, p, s), base, ts) = f[Len(ts)]
  /\ \A i \in 1 .. Len(ts) : f[i] = _process_symlink(fs, root, ts[i], f[i - 1])

\* It has such states if every turn leads from states to states.
LEMMA ChainTurns ==
  ASSUME NEW fs, NEW root, NEW T, NEW ts \in Seq(T), NEW S, NEW base \in S,
         \A st \in S : \A t \in T : _process_symlink(fs, root, t, st) \in S
  PROVE  \E f \in [0 .. Len(ts) -> S] : ChainLoop(fs, root, f, base, ts)
  <1> DEFINE n == Len(ts)
             G == [i \in 1 .. n |-> [x \in S |-> _process_symlink(fs, root, ts[i], x)]]
             Is(g) == g = [s \in SUBSET (DOMAIN ts) |->
                             IF s = {} THEN base ELSE _process_symlink(fs, root, ts[Max(s)], g[s \ {Max(s)}])]
             c == CHOOSE g : Is(g)
  <1>1. n \in Nat /\ DOMAIN ts = 1 .. n /\ \A i \in 1 .. n : ts[i] \in T
    OBVIOUS
  <1>2. G \in [1 .. n -> [S -> S]]
    BY <1>1
  <1>3. FoldLeft(LAMBDA s, p : _process_symlink(fs, root, p, s), base, ts) = c[DOMAIN ts]
    BY Zenon DEF FoldLeft, MapThenFoldSet
  <1>4. PICK g \in [SUBSET (1 .. n) -> S] : FoldOf(g, n, base, G)
    <2> HIDE DEF G, n
    <2> QED
      BY <1>1, <1>2, FoldExists
  <1>5. ASSUME NEW s \in SUBSET (1 .. n), s # {}
        PROVE  g[s] = _process_symlink(fs, root, ts[Max(s)], g[s \ {Max(s)}])
    <2>1. Max(s) \in 1 .. n /\ s \ {Max(s)} \in SUBSET (1 .. n)
      BY <1>1, <1>5, MaxIsLast
    <2>2. g[s \ {Max(s)}] \in S
      BY <2>1
    <2> QED
      BY <1>4, <1>5, <2>1, <2>2 DEF FoldOf
  <1>6. Is(g)
    BY <1>1, <1>4, <1>5 DEF FoldOf
  <1>7. Is(c)
    BY <1>6
  <1>8. ASSUME NEW i \in 1 .. n, c[1 .. (i - 1)] \in S
        PROVE  c[1 .. i] = G[i][c[1 .. (i - 1)]]
    <2>1. 1 .. i # {} /\ Max(1 .. i) = i /\ (1 .. i) \ {i} = 1 .. (i - 1)
      BY MaxOfInterval
    <2>2. 1 .. i \in SUBSET (DOMAIN ts)
      BY <1>1
    <2>3. c[1 .. i] = _process_symlink(fs, root, ts[i], c[1 .. (i - 1)])
      BY <1>7, <2>1, <2>2
    <2> QED
      BY <1>8, <2>3
  <1>9. TurnsOf(c, n, S, base, G)
    <2>1. c[{}] = base
      BY <1>7
    <2> HIDE DEF c, G
    <2> QED
      BY <1>8, <2>1 DEF TurnsOf
  <1>10. PICK f \in [0 .. n -> S] : LoopOf(f, n, base, G) /\ EndsIn(c, f, n)
    <2>1. n \in Nat
      BY <1>1
    <2> HIDE DEF c, G, n, Is
    <2> QED
      BY <2>1, <1>2, <1>9, FoldTurns
  <1>11. ASSUME NEW i \in 1 .. n PROVE f[i] = _process_symlink(fs, root, ts[i], f[i - 1])
    <2>1. f[i - 1] \in S
      OBVIOUS
    <2> QED
      BY <1>10, <2>1 DEF LoopOf
  <1> QED
    BY <1>1, <1>3, <1>10, <1>11 DEF LoopOf, EndsIn, ChainLoop

\* The loop of _minimize_paths, turn by turn.
KeepLoop(fs, f, base, ts) ==
  /\ f[0] = base /\ FoldLeft(LAMBDA kept, p : Keep(fs, kept, p), base, ts) = f[Len(ts)]
  /\ \A i \in 1 .. Len(ts) : f[i] = Keep(fs, f[i - 1], ts[i])

\* It has such states if every turn leads from states to states.
LEMMA KeepTurns ==
  ASSUME NEW fs, NEW T, NEW ts \in Seq(T), NEW S, NEW base \in S,
         \A st \in S : \A t \in T : Keep(fs, st, t) \in S
  PROVE  \E f \in [0 .. Len(ts) -> S] : KeepLoop(fs, f, base, ts)
  <1> DEFINE n == Len(ts)
             G == [i \in 1 .. n |-> [x \in S |-> Keep(fs, x, ts[i])]]
             Is(g) == g = [s \in SUBSET (DOMAIN ts) |->
                             IF s = {} THEN base ELSE Keep(fs, g[s \ {Max(s)}], ts[Max(s)])]
             c == CHOOSE g : Is(g)
  <1>1. n \in Nat /\ DOMAIN ts = 1 .. n /\ \A i \in 1 .. n : ts[i] \in T
    OBVIOUS
  <1>2. G \in [1 .. n -> [S -> S]]
    BY <1>1
  <1>3. FoldLeft(LAMBDA kept, p : Keep(fs, kept, p), base, ts) = c[DOMAIN ts]
    BY Zenon DEF FoldLeft, MapThenFoldSet
  <1>4. PICK g \in [SUBSET (1 .. n) -> S] : FoldOf(g, n, base, G)
    <2> HIDE DEF G, n
    <2> QED
      BY <1>1, <1>2, FoldExists
  <1>5. ASSUME NEW s \in SUBSET (1 .. n), s # {}
        PROVE  g[s] = Keep(fs, g[s \ {Max(s)}], ts[Max(s)])
    <2>1. Max(s) \in 1 .. n /\ s \ {Max(s)} \in SUBSET (1 .. n)
      BY <1>1, <1>5, MaxIsLast
    <2>2. g[s \ {Max(s)}] \in S
      BY <2>1
    <2> QED
      BY <1>4, <1>5, <2>1, <2>2 DEF FoldOf
  <1>6. Is(g)
    BY <1>1, <1>4, <1>5 DEF FoldOf
  <1>7. Is(c)
    BY <1>6
  <1>8. ASSUME NEW i \in 1 .. n, c[1 .. (i - 1)] \in S
        PROVE  c[1 .. i] = G[i][c[1 .. (i - 1)]]
    <2>1. 1 .. i # {} /\ Max(1 .. i) = i /\ (1 .. i) \ {i} = 1 .. (i - 1)
      BY MaxOfInterval
    <2>2. 1 .. i \in SUBSET (DOMAIN ts)
      BY <1>1
    <2>3. c[1 .. i] = Keep(fs, c[1 .. (i - 1)], ts[i])
      BY <1>7, <2>1, <2>2
    <2> QED
      BY <1>8, <2>3
  <1>9. TurnsOf(c, n, S, base, G)
    <2>1. c[{}] = base
      BY <1>7
    <2> HIDE DEF c, G
    <2> QED
      BY <1>8, <2>1 DEF TurnsOf
  <1>10. PICK f \in [0 .. n -> S] : LoopOf(f, n, base, G) /\ EndsIn(c, f, n)
    <2>1. n \in Nat
      BY <1>1
    <2> HIDE DEF c, G, n, Is
    <2> QED
      BY <2>1, <1>2, <1>9, FoldTurns
  <1>11. ASSUME NEW i \in 1 .. n PROVE f[i] = Keep(fs, f[i - 1], ts[i])
    <2>1. f[i - 1] \in S
      OBVIOUS
    <2> QED
      BY <1>10, <2>1 DEF LoopOf
  <1> QED
    BY <1>1, <1>3, <1>10, <1>11 DEF LoopOf, EndsIn, KeepLoop

\* What an appended element adds to a sequence.
LEMMA RangeOfAppend ==
  ASSUME NEW X, NEW s \in Seq(X), NEW x \in X
  PROVE  /\ Append(s, x) \in Seq(X) /\ Len(Append(s, x)) = Len(s) + 1
         /\ Range(Append(s, x)) = Range(s) \cup {x}
  <1>1. Append(s, x) \in Seq(X) /\ Len(Append(s, x)) = Len(s) + 1
    OBVIOUS
  <1>2. DOMAIN Append(s, x) = 1 .. Len(s) + 1 /\ DOMAIN s = 1 .. Len(s)
    OBVIOUS
  <1>3. ASSUME NEW i \in 1 .. Len(s) + 1
        PROVE  Append(s, x)[i] = IF i = Len(s) + 1 THEN x ELSE s[i]
    OBVIOUS
  <1>4. ASSUME NEW y \in Range(Append(s, x)) PROVE y \in Range(s) \cup {x}
    <2>1. PICK i \in 1 .. Len(s) + 1 : y = Append(s, x)[i]
      BY <1>2 DEF Range
    <2>2. i = Len(s) + 1 \/ i \in 1 .. Len(s)
      OBVIOUS
    <2> QED
      BY <1>2, <1>3, <2>1, <2>2 DEF Range
  <1>5. ASSUME NEW y \in Range(s) \cup {x} PROVE y \in Range(Append(s, x))
    <2>1. CASE y = x
      <3>1. Len(s) + 1 \in 1 .. Len(s) + 1
        OBVIOUS
      <3> QED
        BY <1>2, <1>3, <2>1, <3>1 DEF Range
    <2>2. CASE y \in Range(s)
      <3>1. PICK i \in 1 .. Len(s) : y = s[i]
        BY <1>2, <2>2 DEF Range
      <3>2. i \in 1 .. Len(s) + 1 /\ i # Len(s) + 1
        OBVIOUS
      <3> QED
        BY <1>2, <1>3, <3>1, <3>2 DEF Range
    <2> QED
      BY <2>1, <2>2
  <1> QED
    BY <1>1, <1>4, <1>5

\* ByPath has the places of the set and no other.
LEMMA OrderHas ==
  ASSUME NEW fs, NEW P, fs.sorted \in Seq(P), NEW U \in SUBSET P
  PROVE  ByPath(fs, U) \in Seq(U) /\ Range(ByPath(fs, U)) = U \cap Range(fs.sorted)
  <1> DEFINE ts == fs.sorted
             n == Len(ts)
             S == Seq(U)
  <1>1. n \in Nat /\ DOMAIN ts = 1 .. n /\ <<>> \in S
    OBVIOUS
  <1>2. ByPath(fs, U) = FoldLeft(LAMBDA s, p : IF p \in U THEN Append(s, p) ELSE s, <<>>, ts)
    BY Zenon DEF ByPath
  <1>3. PICK f \in [0 .. n -> S] : OrderLoop(U, f, <<>>, ts)
    <2>1. ASSUME NEW s \in S, NEW p \in P PROVE (IF p \in U THEN Append(s, p) ELSE s) \in S
      OBVIOUS
    <2> HIDE DEF S
    <2> QED
      BY <1>1, <2>1, OrderTurns
  <1>4. /\ f[0] = <<>> /\ ByPath(fs, U) = f[n]
        /\ \A i \in 1 .. n : f[i] = IF ts[i] \in U THEN Append(f[i - 1], ts[i]) ELSE f[i - 1]
    <2> HIDE DEF S
    <2> QED
      BY <1>2, <1>3 DEF OrderLoop
  <1> DEFINE N == {k \in 0 .. n : Range(f[k]) = U \cap {ts[i] : i \in 1 .. k}}
  <1>5. 0 \in N
    BY <1>1, <1>4 DEF Range
  <1>6. ASSUME NEW k \in 1 .. n, k - 1 \in N PROVE k \in N
    <2>1. f[k - 1] \in Seq(U) /\ Range(f[k - 1]) = U \cap {ts[i] : i \in 1 .. (k - 1)}
      BY <1>6
    <2>2. {ts[i] : i \in 1 .. k} = {ts[i] : i \in 1 .. (k - 1)} \cup {ts[k]}
      <3>1. 1 .. k = (1 .. (k - 1)) \cup {k}
        OBVIOUS
      <3> QED
        BY <3>1
    <2>3. CASE ts[k] \in U
      <3>1. Range(f[k]) = Range(f[k - 1]) \cup {ts[k]}
        BY <1>4, <2>1, <2>3, RangeOfAppend
      <3> QED
        BY <2>1, <2>2, <2>3, <3>1
    <2>4. CASE ts[k] \notin U
      BY <1>4, <2>1, <2>2, <2>4
    <2> QED
      BY <2>3, <2>4
  <1>7. n \in N
    <2> HIDE DEF N
    <2>1. \A k \in 0 .. n : k \in N
      BY <1>1, <1>5, <1>6, Turns
    <2> QED
      BY <1>1, <2>1
  <1>8. Range(ts) = {ts[i] : i \in 1 .. n}
    BY <1>1 DEF Range
  <1> QED
    BY <1>1, <1>4, <1>7, <1>8

\* A chain is at its end.
Ended(fs, x) == x = Nowhere \/ ~IsLink(fs, x)

\* The hops are places, or nowhere.
LEMMA HopsAre ==
  ASSUME NEW fs, FileSystem(fs), NEW p \in DOMAIN fs.kind \cup {Nowhere}
  PROVE  LET n == Len(fs.sorted)
             at == Hops(fs, p)
         IN  /\ n \in Nat /\ at \in [0 .. n -> DOMAIN fs.kind \cup {Nowhere}] /\ at[0] = p
             /\ \A k \in 1 .. n : k - 1 \in 0 .. n /\ at[k] = Hop(fs, at[k - 1])
  <1> DEFINE S == DOMAIN fs.kind \cup {Nowhere}
             n == Len(fs.sorted)
             at == Hops(fs, p)
  <1>1. \A x \in S : Hop(fs, x) \in S
    BY DEF FileSystem, Hop
  <1>2. n \in Nat
    BY DEF FileSystem
  <1>3. at = HopLoop(fs, n, p)
    BY Zenon DEF Hops, HopLoop
  <1>4. p \in S
    OBVIOUS
  <1> HIDE DEF n, S, at
  <1>5. at \in [0 .. n -> S] /\ at[0] = p /\ \A k \in 1 .. n : k - 1 \in 0 .. n /\ at[k] = Hop(fs, at[k - 1])
    <2>1. HopTurnsAre(fs, n, S, p, HopLoop(fs, n, p))
      BY <1>1, <1>2, <1>4, HopTurns
    <2> QED
      BY <1>3, <2>1 DEF HopTurnsAre
  <1> QED
    BY <1>2, <1>5 DEF n, S, at

\* A chain stays where it ends.
LEMMA EndStays ==
  ASSUME NEW fs, FileSystem(fs), NEW p \in DOMAIN fs.kind \cup {Nowhere},
         NEW i \in 0 .. Len(fs.sorted), Ended(fs, Hops(fs, p)[i]), NEW j \in i .. Len(fs.sorted)
  PROVE  Hops(fs, p)[j] = Hops(fs, p)[i]
  <1> DEFINE n == Len(fs.sorted)
             at == Hops(fs, p)
             N == {k \in 0 .. n : k >= i => at[k] = at[i]}
  <1>1. n \in Nat /\ \A k \in 1 .. n : k - 1 \in 0 .. n /\ at[k] = Hop(fs, at[k - 1])
    BY HopsAre
  <1> HIDE DEF at, n
  <1>2. 0 \in N
    BY <1>1 DEF n
  <1>3. ASSUME NEW k \in 1 .. n, k - 1 \in N PROVE k \in N
    <2>1. CASE k - 1 >= i
      <3>1. at[k - 1] = at[i] /\ at[k] = Hop(fs, at[k - 1])
        BY <1>1, <1>3, <2>1
      <3> QED
        BY <3>1 DEF Hop, Ended, at
    <2>2. CASE ~(k - 1 >= i)
      <3>1. k < i \/ k = i
        BY <1>1, <2>2 DEF n
      <3> QED
        BY <3>1, <1>1 DEF n
    <2> QED
      BY <2>1, <2>2
  <1>4. \A k \in 0 .. n : k \in N
    <2> HIDE DEF N
    <2> QED
      BY <1>1, <1>2, <1>3, Turns
  <1> QED
    BY <1>1, <1>4 DEF at, n

\* The end of a chain is where the last hop comes to.
LEMMA EndIs ==
  ASSUME NEW fs, FileSystem(fs), NEW p \in DOMAIN fs.kind \cup {Nowhere}
  PROVE  LET end == Hops(fs, p)[Len(fs.sorted)]
         IN  /\ Ended(fs, end) => End(fs, p) = end
             /\ ~Ended(fs, end) => End(fs, p) = Nowhere
  <1> DEFINE n == Len(fs.sorted)
             at == Hops(fs, p)
             Ends(k) == at[k] = Nowhere \/ ~IsLink(fs, at[k])
             m == CHOOSE k \in 0 .. n : Ends(k)
  <1>1. n \in Nat /\ n \in 0 .. n
    BY HopsAre
  <1>2. ASSUME NEW k \in 0 .. n, Ends(k) PROVE at[n] = at[k]
    <2>1. n \in k .. n
      BY <1>1
    <2> QED
      BY <1>2, <2>1, EndStays DEF Ended
  <1>3. CASE \E k \in 0 .. n : Ends(k)
    <2>1. m \in 0 .. n /\ Ends(m)
      BY <1>3
    <2>2. End(fs, p) = at[m]
      BY <1>3 DEF End
    <2> HIDE DEF m
    <2>3. at[n] = at[m]
      BY <1>2, <2>1
    <2> QED
      BY <2>1, <2>2, <2>3 DEF Ended
  <1>4. CASE ~\E k \in 0 .. n : Ends(k)
    <2>1. End(fs, p) = Nowhere
      BY <1>4 DEF End
    <2> QED
      BY <1>1, <1>4, <2>1 DEF Ended
  <1> QED
    BY <1>3, <1>4

\* A chain that is at a link after as many hops as there are places goes round: by the
\* pigeonhole principle it has come to one of them twice.
LEMMA GoesRound ==
  ASSUME NEW fs, FileSystem(fs), NEW p \in DOMAIN fs.kind,
         ~Ended(fs, Hops(fs, p)[Len(fs.sorted)])
  PROVE  ~Ended(fs, Hop(fs, Hops(fs, p)[Len(fs.sorted)]))
  <1> DEFINE n == Len(fs.sorted)
             at == Hops(fs, p)
             P == DOMAIN fs.kind
  <1>1. /\ n \in Nat /\ n \in 0 .. n /\ at \in [0 .. n -> P \cup {Nowhere}]
        /\ \A k \in 1 .. n : k - 1 \in 0 .. n /\ at[k] = Hop(fs, at[k - 1])
    BY HopsAre
  <1>2. ASSUME NEW k \in 0 .. n PROVE ~Ended(fs, at[k]) /\ at[k] \in P
    <2>1. n \in k .. n
      BY <1>1
    <2>2. Ended(fs, at[k]) => at[n] = at[k]
      BY <2>1, EndStays
    <2> QED
      BY <1>1, <2>2 DEF Ended
  <1> DEFINE pos == [k \in 0 .. n |-> CHOOSE i \in 1 .. n : fs.sorted[i] = at[k]]
  <1>3. ASSUME NEW k \in 0 .. n PROVE pos[k] \in 1 .. n /\ fs.sorted[pos[k]] = at[k]
    <2>1. \E i \in 1 .. n : fs.sorted[i] = at[k]
      BY <1>2 DEF FileSystem, Range
    <2> QED
      BY <2>1
  <1>4. PICK i \in 0 .. n, j \in 0 .. n : i # j /\ pos[i] = pos[j]
    <2>1. pos \in [0 .. n -> 1 .. n]
      BY <1>3
    <2>2. /\ IsFiniteSet(0 .. n) /\ Cardinality(0 .. n) = n + 1
          /\ IsFiniteSet(1 .. n) /\ Cardinality(1 .. n) = n
      <3>1. 0 \in Int /\ 1 \in Int /\ n \in Int
        BY <1>1
      <3>2. IsFiniteSet(0 .. n) /\ Cardinality(0 .. n) = IF 0 > n THEN 0 ELSE n - 0 + 1
        BY <3>1, FS_Interval
      <3>3. IsFiniteSet(1 .. n) /\ Cardinality(1 .. n) = IF 1 > n THEN 0 ELSE n - 1 + 1
        BY <3>1, FS_Interval
      <3> QED
        BY <1>1, <3>2, <3>3
    <2>3. Cardinality(1 .. n) < Cardinality(0 .. n)
      BY <1>1, <2>2
    <2> HIDE DEF pos, n
    <2> QED
      BY <2>1, <2>2, <2>3, FS_PigeonHole
  <1>5. at[i] = at[j]
    BY <1>3, <1>4
  <1> HIDE DEF at, n, pos
  <1>6. PICK a \in 0 .. n, b \in 0 .. n : a < b /\ at[a] = at[b]
    BY <1>1, <1>4, <1>5
  <1> DEFINE N == {d \in 0 .. (n - b) : at[a + d] = at[b + d]}
  <1>7. n - b \in Nat
    BY <1>1
  <1>8. 0 \in N
    BY <1>1, <1>6, <1>7
  <1>9. ASSUME NEW d \in 1 .. (n - b), d - 1 \in N PROVE d \in N
    <2>1. at[a + (d - 1)] = at[b + (d - 1)]
      BY <1>9
    <2>2. /\ a + d \in 1 .. n /\ b + d \in 1 .. n /\ a + d - 1 = a + (d - 1) /\ b + d - 1 = b + (d - 1)
          /\ d \in 0 .. (n - b)
      BY <1>1, <1>6
    <2>3. at[a + d] = Hop(fs, at[a + d - 1]) /\ at[b + d] = Hop(fs, at[b + d - 1])
      BY <1>1, <2>2
    <2> QED
      BY <2>1, <2>2, <2>3
  <1>10. n - b \in N
    <2> HIDE DEF N
    <2>1. \A d \in 0 .. (n - b) : d \in N
      BY <1>7, <1>8, <1>9, Turns
    <2> QED
      BY <1>7, <2>1
  <1>11. at[a + (n - b)] = at[n]
    <2>1. b + (n - b) = n
      BY <1>1
    <2> QED
      BY <1>10, <2>1
  <1>12. a + (n - b) + 1 \in 1 .. n /\ a + (n - b) + 1 - 1 = a + (n - b) /\ a + (n - b) + 1 \in 0 .. n
    BY <1>1, <1>6
  <1>13. at[a + (n - b) + 1] = Hop(fs, at[n])
    BY <1>1, <1>11, <1>12
  <1>14. ~Ended(fs, Hop(fs, at[n]))
    BY <1>2, <1>12, <1>13
  <1> QED
    BY <1>14 DEF at, n

\* From the next place of a chain the hops are the same, one ahead.
LEMMA OneAhead ==
  ASSUME NEW fs, FileSystem(fs), NEW p \in DOMAIN fs.kind, NEW k \in 1 .. Len(fs.sorted)
  PROVE  Hop(fs, p) \in DOMAIN fs.kind \cup {Nowhere} /\ Hops(fs, Hop(fs, p))[k - 1] = Hops(fs, p)[k]
  <1> DEFINE n == Len(fs.sorted)
             q == Hop(fs, p)
             at == Hops(fs, p)
             aq == Hops(fs, q)
             N == {m \in 0 .. n : m # 0 => aq[m - 1] = at[m]}
  <1>1. q \in DOMAIN fs.kind \cup {Nowhere}
    BY DEF Hop, FileSystem
  <1>2. n \in Nat /\ at[0] = p /\ \A m \in 1 .. n : at[m] = Hop(fs, at[m - 1])
    BY HopsAre
  <1>3. aq[0] = q /\ \A m \in 1 .. n : aq[m] = Hop(fs, aq[m - 1])
    <2> HIDE DEF q
    <2> QED
      BY <1>1, HopsAre
  <1> HIDE DEF n, at, aq, q
  <1>4. 0 \in N
    BY <1>2
  <1>5. ASSUME NEW m \in 1 .. n, m - 1 \in N PROVE m \in N
    <2>1. CASE m = 1
      <3>1. at[1] = q /\ aq[1 - 1] = q
        BY <1>2, <1>3, <2>1 DEF q
      <3> QED
        BY <2>1, <3>1, <1>2
    <2>2. CASE m # 1
      <3>1. m - 1 \in 1 .. n /\ m \in 0 .. n
        BY <1>2, <2>2
      <3>2. aq[m - 1] = Hop(fs, aq[(m - 1) - 1]) /\ aq[(m - 1) - 1] = at[m - 1]
        BY <1>3, <1>5, <3>1
      <3> QED
        BY <1>2, <3>1, <3>2
    <2> QED
      BY <2>1, <2>2
  <1>6. \A m \in 0 .. n : m \in N
    <2> HIDE DEF N
    <2> QED
      BY <1>2, <1>4, <1>5, Turns
  <1> QED
    BY <1>1, <1>2, <1>6 DEF n, at, aq, q

\* The chain of a link ends where that of its target ends.
LEMMA EndOfHop ==
  ASSUME NEW fs, FileSystem(fs), NEW p \in DOMAIN fs.kind
  PROVE  End(fs, Hop(fs, p)) = End(fs, p)
  <1> DEFINE n == Len(fs.sorted)
             q == Hop(fs, p)
             at == Hops(fs, p)
             aq == Hops(fs, q)
  <1>1. n \in Nat /\ n # 0
    BY DEF FileSystem, Range
  <1>2. n \in 1 .. n /\ n \in 0 .. n
    BY <1>1
  <1>3. q \in DOMAIN fs.kind \cup {Nowhere} /\ aq[n - 1] = at[n]
    BY <1>2, OneAhead
  <1>4. aq[n] = Hop(fs, aq[n - 1])
    <2> HIDE DEF q
    <2> QED
      BY <1>2, <1>3, HopsAre
  <1>5. /\ Ended(fs, at[n]) => End(fs, p) = at[n]
        /\ ~Ended(fs, at[n]) => End(fs, p) = Nowhere
    BY EndIs
  <1>6. /\ Ended(fs, aq[n]) => End(fs, q) = aq[n]
        /\ ~Ended(fs, aq[n]) => End(fs, q) = Nowhere
    <2> HIDE DEF q
    <2> QED
      BY <1>3, EndIs
  <1>7. CASE Ended(fs, at[n])
    <2>1. aq[n] = at[n]
      BY <1>3, <1>4, <1>7 DEF Ended, Hop
    <2> QED
      BY <1>5, <1>6, <1>7, <2>1
  <1>8. CASE ~Ended(fs, at[n])
    <2>1. ~Ended(fs, aq[n])
      BY <1>3, <1>4, <1>8, GoesRound
    <2> QED
      BY <1>5, <1>6, <1>8, <2>1
  <1> QED
    BY <1>7, <1>8

\* The places of a file system are finitely many.
LEMMA PlacesFinite ==
  ASSUME NEW fs, FileSystem(fs), NEW U \in SUBSET DOMAIN fs.kind
  PROVE  IsFiniteSet(U) /\ Cardinality(U) \in Nat /\ Cardinality(U) <= Len(fs.sorted)
  <1> DEFINE n == Len(fs.sorted)
             f == [p \in U |-> CHOOSE i \in 1 .. n : fs.sorted[i] = p]
  <1>1. n \in Nat
    BY DEF FileSystem
  <1>2. ASSUME NEW p \in U PROVE f[p] \in 1 .. n /\ fs.sorted[f[p]] = p
    <2>1. \E i \in 1 .. n : fs.sorted[i] = p
      BY DEF FileSystem, Range
    <2> QED
      BY <2>1
  <1>3. f \in Injection(U, 1 .. n)
    <2>1. f \in [U -> 1 .. n]
      BY <1>2
    <2>2. \A p, q \in U : f[p] = f[q] => p = q
      BY <1>2
    <2> HIDE DEF f, n
    <2> QED
      BY <2>1, <2>2 DEF Injection, IsInjective
  <1>4. IsFiniteSet(1 .. n) /\ Cardinality(1 .. n) = n
    <2>1. 1 \in Int /\ n \in Int
      BY <1>1
    <2>2. IsFiniteSet(1 .. n) /\ Cardinality(1 .. n) = IF 1 > n THEN 0 ELSE n - 1 + 1
      BY <2>1, FS_Interval
    <2> QED
      BY <1>1, <2>2
  <1> HIDE DEF f, n
  <1>5. IsFiniteSet(U) /\ Cardinality(U) <= n
    BY <1>3, <1>4, FS_Injection
  <1> QED
    BY <1>5, FS_CardinalityType DEF n

\* What is nowhere stays there.
LEMMA NowhereEnds ==
  ASSUME NEW fs, FileSystem(fs)
  PROVE  End(fs, Nowhere) = Nowhere
  <1> DEFINE n == Len(fs.sorted)
             at == Hops(fs, Nowhere)
  <1>1. n \in Nat /\ at[0] = Nowhere
    BY HopsAre
  <1>2. Ended(fs, at[0]) /\ 0 \in 0 .. n /\ n \in 0 .. n
    BY <1>1 DEF Ended
  <1>3. at[n] = Nowhere
    BY <1>1, <1>2, EndStays
  <1>4. Ended(fs, at[n])
    BY <1>3 DEF Ended
  <1> QED
    BY <1>3, <1>4, EndIs

\* The chains of all the places of a chain have the same end.
LEMMA EndOfHops ==
  ASSUME NEW fs, FileSystem(fs), NEW p \in DOMAIN fs.kind, NEW k \in 0 .. Len(fs.sorted)
  PROVE  /\ End(fs, Hops(fs, p)[k]) = End(fs, p)
         /\ exists(fs, p) => exists(fs, Hops(fs, p)[k]) /\ Hops(fs, p)[k] \in DOMAIN fs.kind
  <1> DEFINE n == Len(fs.sorted)
             at == Hops(fs, p)
             N == {i \in 0 .. n : End(fs, at[i]) = End(fs, p)}
  <1>1. /\ n \in Nat /\ at \in [0 .. n -> DOMAIN fs.kind \cup {Nowhere}] /\ at[0] = p
        /\ \A i \in 1 .. n : i - 1 \in 0 .. n /\ at[i] = Hop(fs, at[i - 1])
    BY HopsAre
  <1> HIDE DEF at, n
  <1>2. 0 \in N
    BY <1>1
  <1>3. ASSUME NEW i \in 1 .. n, i - 1 \in N PROVE i \in N
    <2>1. at[i] = Hop(fs, at[i - 1]) /\ End(fs, at[i - 1]) = End(fs, p) /\ at[i - 1] \in DOMAIN fs.kind \cup {Nowhere}
      BY <1>1, <1>3
    <2>2. CASE at[i - 1] = Nowhere
      BY <2>1, <2>2, <1>1 DEF Hop
    <2>3. CASE at[i - 1] \in DOMAIN fs.kind
      <3>1. End(fs, at[i]) = End(fs, at[i - 1])
        BY <2>1, <2>3, EndOfHop
      <3> QED
        BY <1>1, <2>1, <3>1
    <2> QED
      BY <2>1, <2>2, <2>3
  <1>4. k \in N
    <2> HIDE DEF N
    <2>1. \A i \in 0 .. n : i \in N
      BY <1>1, <1>2, <1>3, Turns
    <2> QED
      BY <2>1 DEF n
  <1>5. exists(fs, p) => exists(fs, at[k]) /\ at[k] # Nowhere
    BY <1>4, NowhereEnds DEF exists
  <1> QED
    BY <1>1, <1>4, <1>5 DEF at, n

\* The search has found some places, and has taken those of them that are directories
\* to the worklist, each once.
Grown(fs, st, r, new) ==
  /\ r.work \in Seq(DOMAIN fs.kind) /\ r.found = st.found \cup new
  /\ Range(r.work) = Range(st.work) \cup {d \in r.found \ st.found : is_dir(fs, d)}
  /\ Len(r.work) + Cardinality(st.found) <= Len(st.work) + Cardinality(r.found)

\* A state of the search.
SearchState(fs, st) == st.work \in Seq(DOMAIN fs.kind) /\ st.found \in SUBSET DOMAIN fs.kind

\* A step that adds nothing leaves the search as it is.
LEMMA GrownNot ==
  ASSUME NEW fs, FileSystem(fs), NEW st, SearchState(fs, st), NEW r, r.work = st.work, r.found = st.found
  PROVE  Grown(fs, st, r, {})
  <1>1. Cardinality(st.found) \in Nat /\ Len(st.work) \in Nat
    BY PlacesFinite DEF SearchState
  <1> QED
    BY <1>1 DEF Grown, SearchState

\* It goes on.
LEMMA GrownMore ==
  ASSUME NEW fs, FileSystem(fs), NEW st, SearchState(fs, st), NEW r, NEW new \in SUBSET DOMAIN fs.kind,
         Grown(fs, st, r, new),
         NEW e, NEW more \in SUBSET DOMAIN fs.kind, Grown(fs, r, e, more)
  PROVE  Grown(fs, st, e, new \cup more) /\ SearchState(fs, r) /\ SearchState(fs, e)
  <1>1. r.found \in SUBSET DOMAIN fs.kind /\ e.found \in SUBSET DOMAIN fs.kind
    BY DEF Grown, SearchState
  <1>2. /\ Cardinality(st.found) \in Nat /\ Cardinality(r.found) \in Nat /\ Cardinality(e.found) \in Nat
        /\ Len(st.work) \in Nat /\ Len(r.work) \in Nat /\ Len(e.work) \in Nat
    <2>1. st.found \in SUBSET DOMAIN fs.kind
      BY DEF SearchState
    <2> QED
      BY <1>1, <2>1, PlacesFinite DEF Grown, SearchState
  <1>3. Len(e.work) + Cardinality(st.found) <= Len(st.work) + Cardinality(e.found)
    BY <1>2 DEF Grown
  <1>4. Range(e.work) = Range(st.work) \cup {d \in e.found \ st.found : is_dir(fs, d)}
    BY DEF Grown
  <1>5. e.found = st.found \cup (new \cup more) /\ e.work \in Seq(DOMAIN fs.kind) /\ r.work \in Seq(DOMAIN fs.kind)
    BY DEF Grown
  <1> QED
    BY <1>1, <1>3, <1>4, <1>5 DEF Grown, SearchState
\* A link of a chain that exists leads on.
LEMMA LeadsOn ==
  ASSUME NEW fs, FileSystem(fs), NEW p \in DOMAIN fs.kind
  PROVE  /\ Leads(fs, p) <=> IsLink(fs, p) /\ exists(fs, p)
         /\ Leads(fs, p) => fs.to[p] = Hop(fs, p) /\ fs.to[p] \in DOMAIN fs.kind
  <1>1. IsLink(fs, p) => Hop(fs, p) = fs.to[p] /\ fs.to[p] \in DOMAIN fs.kind \cup {Nowhere}
    BY DEF Hop, FileSystem
  <1>2. End(fs, Hop(fs, p)) = End(fs, p)
    BY EndOfHop
  <1>3. IsLink(fs, p) => (exists(fs, fs.to[p]) <=> exists(fs, p))
    BY <1>1, <1>2 DEF exists
  <1>4. exists(fs, fs.to[p]) => fs.to[p] # Nowhere
    BY NowhereEnds DEF exists
  <1> QED
    BY <1>1, <1>3, <1>4 DEF Leads

\* The places of a set that are outside of the root.
Out(fs, root, U) == {t \in U : ~Under(fs, t, root)}

\* The states of the loop of _process_symlink.
FollowStates(fs) ==
  [at : DOMAIN fs.kind, work : Seq(DOMAIN fs.kind), found : SUBSET DOMAIN fs.kind]

\* A turn finds the next place of the chain, by its normalised name, if that is outside
\* of the root.
LEMMA FollowGrows ==
  ASSUME NEW fs, FileSystem(fs), NEW root, NEW st \in FollowStates(fs)
  PROVE  LET r == FollowLink(fs, root, st)
         IN  /\ r \in FollowStates(fs)
             /\ Leads(fs, st.at) => 
                  r.at = Hop(fs, st.at) /\ Grown(fs, st, r, Out(fs, root, {fs.norm[Hop(fs, st.at)]}))
             /\ ~Leads(fs, st.at) => r = st
  <1> DEFINE r == FollowLink(fs, root, st)
             t == fs.to[st.at]
             P == DOMAIN fs.kind
             u == fs.norm[t]
             new == ~Under(fs, u, root) /\ u \notin st.found
  <1>1. st.at \in P /\ st.work \in Seq(P) /\ st.found \in SUBSET P
    BY DEF FollowStates
  <1>2. CASE ~Leads(fs, st.at)
    <2>1. r = st
      BY <1>2 DEF FollowLink
    <2> QED
      BY <1>2, <2>1
  <1>3. CASE Leads(fs, st.at)
    <2>1. t = Hop(fs, st.at) /\ t \in P /\ u \in P
      <3>1. t = Hop(fs, st.at) /\ t \in P
        BY <1>1, <1>3, LeadsOn
      <3> QED
        BY <3>1 DEF FileSystem
    <2>2. /\ IsFiniteSet(st.found) /\ Cardinality(st.found) \in Nat
          /\ Cardinality(st.found \cup {u}) = IF u \in st.found THEN Cardinality(st.found) ELSE Cardinality(st.found) + 1
      BY <1>1, PlacesFinite, FS_AddElement
    <2>3. /\ r = [at |-> t, work |-> IF new /\ is_dir(fs, u) THEN Append(st.work, u) ELSE st.work,
                  found |-> IF new THEN st.found \cup {u} ELSE st.found]
      BY <1>3 DEF FollowLink
    <2>a. /\ Append(st.work, u) \in Seq(P) /\ Len(Append(st.work, u)) = Len(st.work) + 1
          /\ Range(Append(st.work, u)) = Range(st.work) \cup {u}
      <3> HIDE DEF t, u, P
      <3> QED
        BY <1>1, <2>1, RangeOfAppend
    <2> HIDE DEF r
    <2>4. r.at = t /\ r \in FollowStates(fs)
      <3>1. (IF new /\ is_dir(fs, u) THEN Append(st.work, u) ELSE st.work) \in Seq(P)
        BY <1>1, <2>a
      <3>2. (IF new THEN st.found \cup {u} ELSE st.found) \in SUBSET P
        BY <1>1, <2>1
      <3> QED
        BY <2>1, <2>3, <3>1, <3>2 DEF FollowStates
    <2>5. Out(fs, root, {u}) = IF Under(fs, u, root) THEN {} ELSE {u}
      BY DEF Out
    <2>6. CASE ~new
      <3>1. r.work = st.work /\ r.found = st.found
        BY <2>3, <2>6
      <3>2. SearchState(fs, st)
        BY <1>1 DEF SearchState
      <3>3. Grown(fs, st, r, {})
        BY <3>1, <3>2, GrownNot
      <3>4. st.found = st.found \cup Out(fs, root, {u})
        BY <2>5, <2>6
      <3>5. Grown(fs, st, r, Out(fs, root, {u}))
        BY <3>1, <3>3, <3>4 DEF Grown
      <3> QED
        BY <1>3, <2>1, <2>4, <3>5 DEF r
    <2>7. CASE new
      <3>1. r.found = st.found \cup {u} /\ r.found \ st.found = {u} /\ Out(fs, root, {u}) = {u}
        BY <2>3, <2>5, <2>7
      <3>2. CASE is_dir(fs, u)
        <4>1. r.work = Append(st.work, u)
          BY <2>3, <2>7, <3>2
        <4>2. r.work \in Seq(P) /\ Len(r.work) = Len(st.work) + 1 /\ Range(r.work) = Range(st.work) \cup {u}
          BY <2>a, <4>1
        <4>3. Len(st.work) \in Nat
          BY <1>1
        <4>4. Len(r.work) + Cardinality(st.found) <= Len(st.work) + Cardinality(r.found)
          BY <2>2, <2>7, <3>1, <4>2, <4>3
        <4>5. {d \in r.found \ st.found : is_dir(fs, d)} = {u}
          BY <3>1, <3>2
        <4>6. Grown(fs, st, r, Out(fs, root, {u}))
          BY <3>1, <4>2, <4>4, <4>5 DEF Grown
        <4> QED
          BY <1>3, <2>1, <2>4, <4>6 DEF r
      <3>3. CASE ~is_dir(fs, u)
        <4>1. r.work = st.work
          BY <2>3, <3>3
        <4>2. Len(st.work) \in Nat
          BY <1>1
        <4>3. Len(r.work) + Cardinality(st.found) <= Len(st.work) + Cardinality(r.found)
          BY <2>2, <2>7, <3>1, <4>1, <4>2
        <4>4. {d \in r.found \ st.found : is_dir(fs, d)} = {}
          BY <3>1, <3>3
        <4>5. Grown(fs, st, r, Out(fs, root, {u}))
          BY <1>1, <3>1, <4>1, <4>3, <4>4 DEF Grown
        <4> QED
          BY <1>3, <2>1, <2>4, <4>5 DEF r
      <3> QED
        BY <3>2, <3>3
    <2> QED
      BY <2>6, <2>7
  <1> QED
    BY <1>2, <1>3

\* _process_symlink finds the places of the chain that are outside of the root.
LEMMA ProcessGrows ==
  ASSUME NEW fs, FileSystem(fs), NEW root, NEW p \in DOMAIN fs.kind, IsLink(fs, p),
         NEW st, SearchState(fs, st)
  PROVE  /\ Chain(fs, p) \in SUBSET DOMAIN fs.kind
         /\ Grown(fs, st, _process_symlink(fs, root, p, st), Out(fs, root, Chain(fs, p)))
  <1> DEFINE n == Len(fs.sorted)
             P == DOMAIN fs.kind
             S == FollowStates(fs)
             base == [at |-> p, work |-> st.work, found |-> st.found]
             turn == FollowLoop(fs, root, n, base)
             m == CHOOSE k \in 0 .. n : ~Leads(fs, turn[k].at)
             r == _process_symlink(fs, root, p, st)
             at == Hops(fs, p)
             Passed(k) == {fs.norm[at[j]] : j \in 1 .. k}
  <1>1. n \in Nat /\ at \in [0 .. n -> P \cup {Nowhere}] /\ at[0] = p /\ \A k \in 1 .. n : k - 1 \in 0 .. n /\ at[k] = Hop(fs, at[k - 1])
    BY HopsAre
  <1>2. base \in S
    BY DEF FollowStates, SearchState
  <1>3. \A x \in S : FollowLink(fs, root, x) \in S
    BY FollowGrows
  <1>4. turn \in [0 .. n -> S] /\ turn[0] = base /\ \A k \in 1 .. n : k - 1 \in 0 .. n /\ turn[k] = FollowLink(fs, root, turn[k - 1])
    <2> HIDE DEF n, S, base, turn
    <2>1. FollowTurnsAre(fs, root, n, S, base, FollowLoop(fs, root, n, base))
      BY <1>1, <1>2, <1>3, FollowTurns
    <2> QED
      BY <2>1 DEF FollowTurnsAre, turn
  <1>5. r.work = turn[m].work /\ r.found = turn[m].found
    <2>1. r = [work |-> turn[m].work, found |-> turn[m].found]
      BY Zenon DEF _process_symlink, FollowLoop
    <2> QED
      BY <2>1
  <1>6. (m \in 0 .. n /\ ~Leads(fs, turn[m].at)) \/ \A k \in 0 .. n : Leads(fs, turn[k].at)
    OBVIOUS
  <1>7. turn[0].at = p /\ turn[0].work = st.work /\ turn[0].found = st.found
    BY <1>4
  <1> HIDE DEF n, S, base, turn, m, r
  <1> HIDE DEF at
  <1>9. CASE ~exists(fs, p)
    <2>1. Chain(fs, p) = {} /\ Out(fs, root, Chain(fs, p)) = {}
      BY <1>9 DEF Chain, Out
    <2>2. ~Leads(fs, p)
      BY <1>9, LeadsOn
    <2> DEFINE N == {k \in 0 .. n : turn[k] = turn[0]}
    <2>3. 0 \in N
      BY <1>1
    <2>4. ASSUME NEW k \in 1 .. n, k - 1 \in N PROVE k \in N
      <3>1. turn[k - 1] = turn[0] /\ turn[0] \in S /\ turn[k] = FollowLink(fs, root, turn[k - 1])
        BY <1>1, <1>4, <2>4
      <3>2. FollowLink(fs, root, turn[0]) = turn[0]
        BY <1>7, <2>2, <3>1, FollowGrows DEF S
      <3> QED
        BY <1>1, <3>1, <3>2
    <2>5. \A k \in 0 .. n : k \in N
      <3> HIDE DEF N
      <3> QED
        BY <1>1, <2>3, <2>4, Turns
    <2>6. m \in 0 .. n
      BY <1>1, <1>6, <1>7, <2>2
    <2>7. r.work = st.work /\ r.found = st.found
      BY <1>5, <1>7, <2>5, <2>6
    <2>8. Grown(fs, st, r, {})
      BY <2>7, GrownNot
    <2> QED
      BY <2>1, <2>8 DEF r
  <1>10. CASE exists(fs, p)
    <2>1. \A k \in 0 .. n : at[k] \in P /\ exists(fs, at[k])
      BY <1>10, EndOfHops DEF n, at
    <2>a. \A x \in P : fs.norm[x] \in P
      BY DEF FileSystem
    <2>2. Chain(fs, p) = Passed(n)
      BY <1>10 DEF Chain, n, at
    <2>3. ASSUME NEW k \in 0 .. n PROVE Passed(k) \in SUBSET P /\ Out(fs, root, Passed(k)) \in SUBSET P
      <3>1. \A j \in 1 .. k : j \in 0 .. n
        BY <1>1
      <3>2. Passed(k) \in SUBSET P
        BY <2>1, <2>a, <3>1
      <3> QED
        BY <3>2 DEF Out
    <2>4. ASSUME NEW k \in 0 .. n PROVE Leads(fs, at[k]) <=> IsLink(fs, at[k])
      BY <2>1, LeadsOn
    <2>5. ASSUME NEW k \in 1 .. n PROVE Passed(k) = Passed(k - 1) \cup {fs.norm[at[k]]}
      <3>1. 1 .. k = (1 .. (k - 1)) \cup {k}
        BY <1>1
      <3> QED
        BY <3>1
    <2> DEFINE N == {k \in 0 .. n : turn[k].at = at[k] /\ Grown(fs, st, turn[k], Out(fs, root, Passed(k)))}
    <2>6. 0 \in N
      <3>1. Out(fs, root, Passed(0)) = {}
        BY DEF Out
      <3>2. Grown(fs, st, turn[0], {})
        BY <1>7, GrownNot
      <3>3. 0 \in 0 .. n /\ turn[0].at = at[0]
        BY <1>1, <1>7
      <3> HIDE DEF Passed
      <3> QED
        BY <3>1, <3>2, <3>3
    <2>7. ASSUME NEW k \in 1 .. n, k - 1 \in N PROVE k \in N
      <3> DEFINE a == turn[k - 1]
                 b == turn[k]
      <3>1. /\ k - 1 \in 0 .. n /\ k \in 0 .. n /\ a \in FollowStates(fs) /\ b = FollowLink(fs, root, a)
            /\ a.at = at[k - 1] /\ Grown(fs, st, a, Out(fs, root, Passed(k - 1)))
            /\ at[k] = Hop(fs, at[k - 1])
        BY <1>1, <1>4, <2>7 DEF S
      <3> HIDE DEF a, b, Passed
      <3>2. CASE Leads(fs, at[k - 1])
        <4>1. b.at = at[k] /\ Grown(fs, a, b, Out(fs, root, {fs.norm[at[k]]}))
          BY <3>1, <3>2, FollowGrows
        <4>2. Out(fs, root, {fs.norm[at[k]]}) \in SUBSET P /\ Out(fs, root, Passed(k - 1)) \in SUBSET P
          BY <2>1, <2>3, <2>a, <3>1 DEF Out
        <4>3. Grown(fs, st, b, Out(fs, root, Passed(k - 1)) \cup Out(fs, root, {fs.norm[at[k]]}))
          <5> HIDE DEF N
          <5> QED
            BY <3>1, <4>1, <4>2, GrownMore
        <4>4. Out(fs, root, Passed(k)) = Out(fs, root, Passed(k - 1)) \cup Out(fs, root, {fs.norm[at[k]]})
          BY <2>5 DEF Out
        <4> QED
          BY <3>1, <4>1, <4>3, <4>4 DEF b
      <3>3. CASE ~Leads(fs, at[k - 1])
        <4>1. b = a
          BY <3>1, <3>3, FollowGrows
        <4>2. ~IsLink(fs, at[k - 1])
          BY <2>4, <3>1, <3>3
        <4>3. at[k] = at[k - 1] /\ k - 1 # 0
          BY <1>1, <3>1, <4>2 DEF Hop
        <4>4. fs.norm[at[k - 1]] \in Passed(k - 1)
          <5>1. k - 1 \in 1 .. (k - 1)
            BY <1>1, <3>1, <4>3
          <5> QED
            BY <5>1 DEF Passed
        <4>5. Passed(k) = Passed(k - 1)
          BY <2>5, <4>3, <4>4
        <4> QED
          BY <3>1, <4>1, <4>3, <4>5 DEF a, b
      <3> QED
        BY <3>2, <3>3
    <2>8. \A k \in 0 .. n : k \in N
      <3> HIDE DEF N
      <3> QED
        BY <1>1, <2>6, <2>7, Turns
    <2>9. n \in 0 .. n /\ ~IsLink(fs, at[n])
      <3>1. n \in 0 .. n
        BY <1>1
      <3>2. Ended(fs, at[n])
        BY <1>10, EndIs DEF exists, n, at
      <3>3. at[n] \in P /\ Nowhere \notin P
        BY <2>1, <3>1 DEF FileSystem
      <3> QED
        BY <3>1, <3>2, <3>3 DEF Ended
    <2>10. m \in 0 .. n /\ ~Leads(fs, turn[m].at)
      BY <1>6, <2>4, <2>8, <2>9
    <2>11. turn[m].at = at[m] /\ Grown(fs, st, turn[m], Out(fs, root, Passed(m)))
      BY <2>8, <2>10
    <2>12. ~IsLink(fs, at[m]) /\ m # 0
      BY <1>1, <2>4, <2>10, <2>11
    <2>13. Passed(m) = Passed(n)
      <3>1. \A j \in m .. n : at[j] = at[m]
        BY <2>10, <2>12, EndStays DEF Ended, n, at
      <3>2. \A j \in 1 .. n : j \in 1 .. m \/ j \in m .. n
        BY <1>1, <2>10
      <3>3. m \in 1 .. m /\ \A j \in 1 .. m : j \in 1 .. n
        BY <1>1, <2>10, <2>12
      <3> QED
        BY <3>1, <3>2, <3>3
    <2>14. Grown(fs, st, r, Out(fs, root, Passed(n)))
      BY <1>5, <2>11, <2>13 DEF Grown
    <2> QED
      BY <2>2, <2>3, <2>9, <2>14 DEF r
  <1> QED
    BY <1>9, <1>10

\* The states of the search, as a set.
SearchStates(fs) == [work : Seq(DOMAIN fs.kind), found : SUBSET DOMAIN fs.kind]

\* Following a link leads from a state of the search to one.
LEMMA ProcessTypes ==
  ASSUME NEW fs, FileSystem(fs), NEW root, NEW p \in DOMAIN fs.kind, IsLink(fs, p),
         NEW st \in SearchStates(fs)
  PROVE  SearchState(fs, st) /\ _process_symlink(fs, root, p, st) \in SearchStates(fs)
  <1> DEFINE r == _process_symlink(fs, root, p, st)
             n == Len(fs.sorted)
             base == [at |-> p, work |-> st.work, found |-> st.found]
             turn == FollowLoop(fs, root, n, base)
             m == CHOOSE k \in 0 .. n : ~Leads(fs, turn[k].at)
  <1>1. SearchState(fs, st)
    BY DEF SearchState, SearchStates
  <1>2. r = [work |-> turn[m].work, found |-> turn[m].found]
    BY Zenon DEF _process_symlink, FollowLoop
  <1> HIDE DEF turn, m
  <1>3. r = [work |-> r.work, found |-> r.found]
    BY <1>2
  <1> HIDE DEF r
  <1>4. Chain(fs, p) \in SUBSET DOMAIN fs.kind /\ Grown(fs, st, r, Out(fs, root, Chain(fs, p)))
    BY <1>1, ProcessGrows DEF r
  <1>5. r.work \in Seq(DOMAIN fs.kind) /\ r.found \in SUBSET DOMAIN fs.kind
    BY <1>1, <1>4 DEF Grown, SearchState, Out
  <1>6. r \in SearchStates(fs)
    BY <1>3, <1>5 DEF SearchStates
  <1> QED
    BY <1>1, <1>6 DEF r

\* The links below a directory, followed one after the other.
Followed(fs, root, st, d) ==
  FoldLeft(LAMBDA s, p : _process_symlink(fs, root, p, s), st, ByPath(fs, Links(fs, d)))

\* They find what they lead through outside of the root.
LEMMA LinksGrow ==
  ASSUME NEW fs, FileSystem(fs), NEW root, NEW d, NEW st \in SearchStates(fs)
  PROVE  /\ Followed(fs, root, st, d) \in SearchStates(fs)
         /\ Outside(fs, root, d) \in SUBSET DOMAIN fs.kind
         /\ Grown(fs, st, Followed(fs, root, st, d), Outside(fs, root, d))
  <1> DEFINE P == DOMAIN fs.kind
             L == Links(fs, d)
             ts == ByPath(fs, L)
             n == Len(ts)
             S == SearchStates(fs)
             e == Followed(fs, root, st, d)
  <1>1. L \in SUBSET P /\ \A p \in L : IsLink(fs, p)
    BY DEF Links
  <1>2. ts \in Seq(L) /\ Range(ts) = L
    <2>1. fs.sorted \in Seq(P) /\ P \subseteq Range(fs.sorted)
      BY DEF FileSystem
    <2>2. ts \in Seq(L) /\ Range(ts) = L \cap Range(fs.sorted)
      <3> HIDE DEF L, P
      <3> QED
        BY <1>1, <2>1, OrderHas
    <2> QED
      BY <1>1, <2>1, <2>2
  <1>3. n \in Nat /\ \A i \in 1 .. n : ts[i] \in P /\ IsLink(fs, ts[i])
    BY <1>1, <1>2
  <1>4. L = {ts[i] : i \in 1 .. n}
    BY <1>2 DEF Range
  <1> HIDE DEF L, ts, n, S
  <1>5. PICK f \in [0 .. n -> S] : ChainLoop(fs, root, f, st, ts)
    <2>1. \A s \in S : \A p \in L : _process_symlink(fs, root, p, s) \in S
      BY <1>1, ProcessTypes DEF S
    <2>2. st \in S
      BY DEF S
    <2> QED
      BY <1>2, <2>1, <2>2, ChainTurns DEF n
  <1>6. /\ f[0] = st /\ e = f[n]
        /\ \A i \in 1 .. n : i - 1 \in 0 .. n /\ f[i] = _process_symlink(fs, root, ts[i], f[i - 1])
    <2>1. \A i \in 1 .. n : i - 1 \in 0 .. n
      BY <1>3
    <2>2. FoldLeft(LAMBDA s, p : _process_symlink(fs, root, p, s), st, ts) = e
      BY DEF Followed, ts, L
    <2> HIDE DEF e
    <2>3. f[0] = st /\ e = f[Len(ts)]
      BY <1>5, <2>2, Zenon DEF ChainLoop
    <2>4. \A i \in 1 .. Len(ts) : f[i] = _process_symlink(fs, root, ts[i], f[i - 1])
      BY <1>5, Zenon DEF ChainLoop
    <2> QED
      BY <2>1, <2>3, <2>4 DEF n
  <1> DEFINE Seen(k) == UNION {Chain(fs, ts[i]) : i \in 1 .. k}
             N == {k \in 0 .. n : Grown(fs, st, f[k], Out(fs, root, Seen(k)))}
  <1>7. SearchState(fs, st)
    BY DEF SearchState, SearchStates
  <1>8. 0 \in N
    <2>1. Out(fs, root, Seen(0)) = {}
      BY DEF Out
    <2>2. Grown(fs, st, f[0], {})
      BY <1>6, <1>7, GrownNot
    <2>3. 0 \in 0 .. n
      BY <1>3
    <2> HIDE DEF Seen
    <2> QED
      BY <2>1, <2>2, <2>3
  <1>9. ASSUME NEW k \in 0 .. n PROVE Seen(k) \in SUBSET P /\ Out(fs, root, Seen(k)) \in SUBSET P
    <2>1. \A i \in 1 .. k : i \in 1 .. n
      BY <1>3
    <2>2. \A i \in 1 .. k : Chain(fs, ts[i]) \in SUBSET P
      BY <1>3, <1>7, <2>1, ProcessGrows
    <2>3. Seen(k) \in SUBSET P
      BY <2>2
    <2> QED
      BY <2>3 DEF Out
  <1>10. ASSUME NEW k \in 1 .. n, k - 1 \in N PROVE k \in N
    <2> DEFINE a == f[k - 1]
               b == f[k]
    <2>1. k - 1 \in 0 .. n /\ k \in 0 .. n /\ a \in S /\ b = _process_symlink(fs, root, ts[k], a) /\ ts[k] \in P /\ IsLink(fs, ts[k])
      BY <1>3, <1>6
    <2> HIDE DEF a, b
    <2>2. SearchState(fs, a)
      BY <2>1 DEF S, SearchStates, SearchState
    <2>3. Chain(fs, ts[k]) \in SUBSET P /\ Grown(fs, a, b, Out(fs, root, Chain(fs, ts[k])))
      BY <2>1, <2>2, ProcessGrows
    <2>4. Seen(k) = Seen(k - 1) \cup Chain(fs, ts[k])
      <3>1. 1 .. k = (1 .. (k - 1)) \cup {k}
        BY <1>3
      <3> QED
        BY <3>1
    <2> HIDE DEF Seen
    <2>5. Grown(fs, st, a, Out(fs, root, Seen(k - 1)))
      BY <1>10 DEF a
    <2>6. Out(fs, root, Seen(k - 1)) \in SUBSET P /\ Out(fs, root, Chain(fs, ts[k])) \in SUBSET P
      BY <1>9, <2>1, <2>3 DEF Out
    <2>7. Grown(fs, st, b, Out(fs, root, Seen(k - 1)) \cup Out(fs, root, Chain(fs, ts[k])))
      <3> HIDE DEF N
      <3> QED
        BY <1>7, <2>3, <2>5, <2>6, GrownMore
    <2>8. Out(fs, root, Seen(k)) = Out(fs, root, Seen(k - 1)) \cup Out(fs, root, Chain(fs, ts[k]))
      BY <2>4 DEF Out
    <2> QED
      BY <2>1, <2>7, <2>8 DEF b
  <1>11. n \in N /\ n \in 0 .. n
    <2> HIDE DEF N
    <2>1. \A k \in 0 .. n : k \in N
      BY <1>3, <1>8, <1>10, Turns
    <2> QED
      BY <1>3, <2>1
  <1>12. Out(fs, root, Seen(n)) = Outside(fs, root, d)
    <2>1. Seen(n) = UNION {Chain(fs, p) : p \in L}
      BY <1>4
    <2> HIDE DEF Seen
    <2> QED
      BY <2>1 DEF Out, Outside, L
  <1> HIDE DEF Seen
  <1>13. e \in S /\ Grown(fs, st, e, Outside(fs, root, d)) /\ Outside(fs, root, d) \in SUBSET P
    BY <1>6, <1>9, <1>11, <1>12
  <1> QED
    BY <1>13 DEF S

\* The first element of a sequence, and the others.
LEMMA RangeOfTail ==
  ASSUME NEW X, NEW s \in Seq(X), s # <<>>
  PROVE  /\ Head(s) \in X /\ Tail(s) \in Seq(X) /\ Len(s) \in Nat /\ Len(Tail(s)) = Len(s) - 1
         /\ Range(s) = Range(Tail(s)) \cup {Head(s)}
  <1>1. Head(s) \in X /\ Tail(s) \in Seq(X) /\ Len(s) \in Nat /\ Len(s) # 0 /\ Len(Tail(s)) = Len(s) - 1
    OBVIOUS
  <1>2. Head(s) = s[1] /\ \A i \in 1 .. (Len(s) - 1) : Tail(s)[i] = s[i + 1]
    OBVIOUS
  <1>3. DOMAIN s = 1 .. Len(s) /\ DOMAIN Tail(s) = 1 .. (Len(s) - 1)
    BY <1>1
  <1>4. ASSUME NEW y \in Range(s) PROVE y \in Range(Tail(s)) \cup {Head(s)}
    <2>1. PICK i \in 1 .. Len(s) : y = s[i]
      BY <1>3 DEF Range
    <2>2. CASE i = 1
      BY <1>2, <2>1, <2>2
    <2>3. CASE i # 1
      <3>1. i - 1 \in 1 .. (Len(s) - 1) /\ (i - 1) + 1 = i
        BY <1>1, <2>3
      <3>2. Tail(s)[i - 1] = y
        BY <1>2, <2>1, <3>1
      <3> QED
        BY <1>3, <3>1, <3>2 DEF Range
    <2> QED
      BY <2>2, <2>3
  <1>5. ASSUME NEW y \in Range(Tail(s)) \cup {Head(s)} PROVE y \in Range(s)
    <2>1. CASE y = Head(s)
      <3>1. 1 \in DOMAIN s
        BY <1>1, <1>3
      <3> QED
        BY <1>2, <2>1, <3>1 DEF Range
    <2>2. CASE y \in Range(Tail(s))
      <3>1. PICK i \in 1 .. (Len(s) - 1) : y = Tail(s)[i]
        BY <1>3, <2>2 DEF Range
      <3>2. i + 1 \in DOMAIN s
        BY <1>1, <1>3
      <3> QED
        BY <1>2, <3>1, <3>2 DEF Range
    <2> QED
      BY <2>1, <2>2
  <1> QED
    BY <1>1, <1>4, <1>5

\* What links name; the directories among it that are outside of the root; and a set of
\* them that has those that links below the root or below one of its members name.
Named(fs) == UNION {Chain(fs, p) : p \in {q \in DOMAIN fs.kind : IsLink(fs, q) /\ fs.norm[q] = q}}
Dirs(fs, root) == {t \in Named(fs) : is_dir(fs, t) /\ ~Under(fs, t, root)}
ClosedSet(fs, root, D) ==
  \A d \in D \cup {root} : \A t \in Outside(fs, root, d) : is_dir(fs, t) => t \in D

\* The links of a directory name what links name.
LEMMA OutsideIsNamed ==
  ASSUME NEW fs, NEW root, NEW d, NEW t \in Outside(fs, root, d)
  PROVE  ~Under(fs, t, root) /\ t \in Named(fs)
  BY DEF Outside, Links, Named

\* Reached is such a set, but for the root, and the least one.
LEMMA ReachedIsLeast ==
  ASSUME NEW fs, FileSystem(fs), NEW root
  PROVE  /\ root \in Reached(fs, root) /\ Reached(fs, root) \subseteq Dirs(fs, root) \cup {root}
         /\ \A d \in Reached(fs, root) : \A t \in Outside(fs, root, d) : is_dir(fs, t) => t \in Reached(fs, root)
         /\ \A D \in SUBSET Dirs(fs, root) : ClosedSet(fs, root, D) => Reached(fs, root) \subseteq D \cup {root}
  <1> DEFINE dirs == Dirs(fs, root)
             leads  == UNION {{d} \X (Outside(fs, root, d) \cap dirs) : d \in dirs \cup {root}}
             closed == {D \in SUBSET dirs : \A e \in leads : e[1] \in D \cup {root} => e[2] \in D}
             R == Reached(fs, root)
  <1>1. R = {root} \cup {d \in dirs : \A D \in closed : d \in D}
    BY DEF Reached, Dirs, Named
  <1>2. ASSUME NEW d, NEW t \in Outside(fs, root, d), is_dir(fs, t) PROVE t \in dirs
    <2>1. ~Under(fs, t, root) /\ t \in Named(fs)
      BY OutsideIsNamed
    <2> QED
      BY <1>2, <2>1 DEF Dirs
  <1> HIDE DEF dirs, R
  <1>3. ASSUME NEW D \in closed, NEW d \in (D \cup {root}), NEW t \in Outside(fs, root, d), is_dir(fs, t)
        PROVE  t \in D
    <2>1. t \in dirs /\ d \in dirs \cup {root}
      BY <1>2, <1>3
    <2>2. <<d, t>> \in leads
      BY <2>1
    <2>3. <<d, t>>[1] = d /\ <<d, t>>[2] = t
      OBVIOUS
    <2> HIDE DEF leads
    <2> QED
      BY <1>3, <2>2, <2>3
  <1>4. ASSUME NEW D \in SUBSET dirs, ClosedSet(fs, root, D) PROVE D \in closed
    <2>1. ASSUME NEW e \in leads, e[1] \in D \cup {root} PROVE e[2] \in D
      <3>1. PICK d \in dirs \cup {root} : e \in {d} \X (Outside(fs, root, d) \cap dirs)
        BY <2>1
      <3>2. e[1] = d /\ e[2] \in Outside(fs, root, d) /\ e[2] \in dirs
        BY <3>1
      <3>3. is_dir(fs, e[2])
        BY <3>2 DEF dirs, Dirs
      <3> QED
        BY <1>4, <2>1, <3>2, <3>3 DEF ClosedSet
    <2> HIDE DEF leads
    <2> QED
      BY <2>1
  <1>5. ASSUME NEW d \in R, NEW t \in Outside(fs, root, d), is_dir(fs, t) PROVE t \in R
    <2>1. t \in dirs
      BY <1>2, <1>5
    <2>2. ASSUME NEW D \in closed PROVE t \in D
      <3>1. d \in D \cup {root}
        <4> HIDE DEF closed
        <4> QED
          BY <1>1
      <3> QED
        BY <1>3, <1>5, <3>1
    <2> HIDE DEF closed
    <2> QED
      BY <1>1, <2>1, <2>2
  <1>6. ASSUME NEW D \in SUBSET dirs, ClosedSet(fs, root, D) PROVE R \subseteq D \cup {root}
    <2>1. D \in closed
      BY <1>4, <1>6
    <2> HIDE DEF closed
    <2> QED
      BY <1>1, <2>1
  <1>7. root \in R /\ R \subseteq dirs \cup {root}
    <2> HIDE DEF closed
    <2> QED
      BY <1>1
  <1> QED
    BY <1>5, <1>6, <1>7 DEF dirs, R

ScanStates(fs) ==
  [work : Seq(DOMAIN fs.kind), found : SUBSET DOMAIN fs.kind, scanned : SUBSET DOMAIN fs.kind]

\* What is so after k turns of the loop of list_external_mounts: every turn has taken a
\* place from the worklist, and only a place that was found has come there; what the
\* places that were looked at lead through is found; the directories found were looked
\* at or will be; all of it is reached from the root.
ScanInv(fs, root, st, k) ==
  /\ st.work = <<>> \/ k + Len(st.work) <= 1 + Cardinality(st.found)
  /\ \A d \in st.scanned : Outside(fs, root, d) \subseteq st.found
  /\ root \in st.scanned \cup Range(st.work)
  /\ \A d \in st.found : is_dir(fs, d) => d \in st.scanned \cup Range(st.work)
  /\ st.scanned \cup Range(st.work) \subseteq Reached(fs, root)
  /\ st.found \subseteq UNION {Outside(fs, root, d) : d \in Reached(fs, root)}

\* A turn that looks at a directory.
LEMMA ScanLooks ==
  ASSUME NEW fs, FileSystem(fs), NEW root, NEW st \in ScanStates(fs), st.work # <<>>,
         Head(st.work) \notin st.scanned
  PROVE  LET d == Head(st.work)
             rest == [work |-> Tail(st.work), found |-> st.found]
             r == ScanNext(fs, root, st)
         IN  /\ r \in ScanStates(fs) /\ r.scanned = st.scanned \cup {d}
             /\ rest \in SearchStates(fs) /\ Grown(fs, rest, r, Outside(fs, root, d))
  <1> DEFINE P == DOMAIN fs.kind
             d == Head(st.work)
             rest == [work |-> Tail(st.work), found |-> st.found]
             r == ScanNext(fs, root, st)
             e == Followed(fs, root, rest, d)
  <1>1. st.work \in Seq(P) /\ st.found \in SUBSET P /\ st.scanned \in SUBSET P
    BY DEF ScanStates
  <1>2. d \in P /\ Tail(st.work) \in Seq(P)
    <2> HIDE DEF P
    <2> QED
      BY <1>1, RangeOfTail
  <1>3. rest \in SearchStates(fs)
    BY <1>1, <1>2 DEF SearchStates
  <1>4. r = [work |-> e.work, found |-> e.found, scanned |-> st.scanned \cup {d}]
    BY Zenon DEF ScanNext, Followed
  <1> HIDE DEF rest, r, e, d
  <1>5. e \in SearchStates(fs) /\ Grown(fs, rest, e, Outside(fs, root, d))
    BY <1>3, LinksGrow DEF e
  <1>6. e.work \in Seq(P) /\ e.found \in SUBSET P /\ st.scanned \cup {d} \in SUBSET P
    BY <1>1, <1>2, <1>5 DEF SearchStates
  <1>7. r \in ScanStates(fs) /\ r.scanned = st.scanned \cup {d} /\ r.work = e.work /\ r.found = e.found
    BY <1>4, <1>6 DEF ScanStates
  <1>8. Grown(fs, rest, r, Outside(fs, root, d))
    BY <1>5, <1>7 DEF Grown
  <1> QED
    BY <1>3, <1>7, <1>8 DEF rest, r, d

\* A turn keeps it.
LEMMA ScanKeeps ==
  ASSUME NEW fs, FileSystem(fs), NEW root, NEW st \in ScanStates(fs), NEW k \in Nat \ {0},
         ScanInv(fs, root, st, k - 1)
  PROVE  ScanInv(fs, root, ScanNext(fs, root, st), k)
  <1> DEFINE P == DOMAIN fs.kind
             d == Head(st.work)
             r == ScanNext(fs, root, st)
             R == Reached(fs, root)
  <1>1. st.work \in Seq(P) /\ st.found \in SUBSET P /\ st.scanned \in SUBSET P
    BY DEF ScanStates
  <1>2. Cardinality(st.found) \in Nat
    BY <1>1, PlacesFinite
  <1>3. CASE st.work = <<>>
    <2>1. r = st
      BY <1>3 DEF ScanNext
    <2> QED
      BY <1>3, <2>1 DEF ScanInv
  <1>4. CASE st.work # <<>>
    <2>1. /\ d \in P /\ Tail(st.work) \in Seq(P) /\ Len(st.work) \in Nat /\ Len(Tail(st.work)) = Len(st.work) - 1
          /\ Range(st.work) = Range(Tail(st.work)) \cup {d}
      <3> HIDE DEF P
      <3> QED
        BY <1>1, <1>4, RangeOfTail
    <2> HIDE DEF d
    <2>2. /\ (k - 1) + Len(st.work) <= 1 + Cardinality(st.found)
          /\ \A x \in st.scanned : Outside(fs, root, x) \subseteq st.found
          /\ root \in st.scanned \cup Range(st.work)
          /\ \A x \in st.found : is_dir(fs, x) => x \in st.scanned \cup Range(st.work)
          /\ st.scanned \cup Range(st.work) \subseteq R
          /\ st.found \subseteq UNION {Outside(fs, root, x) : x \in R}
      BY <1>4 DEF ScanInv
    <2>3. CASE d \in st.scanned
      <3>1. r = [st EXCEPT !.work = Tail(@)]
        BY <1>4, <2>3 DEF ScanNext, d
      <3>2. r.work = Tail(st.work) /\ r.found = st.found /\ r.scanned = st.scanned
        BY <3>1 DEF ScanStates
      <3> HIDE DEF r
      <3>3. k + Len(r.work) <= 1 + Cardinality(r.found)
        BY <1>2, <2>1, <2>2, <3>2
      <3>4. st.scanned \cup Range(st.work) = r.scanned \cup Range(r.work)
        BY <2>1, <2>3, <3>2
      <3>5. ScanInv(fs, root, r, k)
        BY <2>2, <3>2, <3>3, <3>4 DEF ScanInv
      <3> QED
        BY <3>5 DEF r
    <2>4. CASE d \notin st.scanned
      <3> DEFINE rest == [work |-> Tail(st.work), found |-> st.found]
                 O == Outside(fs, root, d)
      <3>1. /\ r \in ScanStates(fs) /\ r.scanned = st.scanned \cup {d}
            /\ rest \in SearchStates(fs) /\ Grown(fs, rest, r, O)
        BY <1>4, <2>4, ScanLooks DEF d
      <3>2. rest.work = Tail(st.work) /\ rest.found = st.found
        OBVIOUS
      <3> HIDE DEF rest, r
      <3>3. /\ r.found = st.found \cup O /\ r.work \in Seq(P)
            /\ Range(r.work) = Range(Tail(st.work)) \cup {x \in r.found \ st.found : is_dir(fs, x)}
            /\ Len(r.work) + Cardinality(st.found) <= Len(Tail(st.work)) + Cardinality(r.found)
        BY <3>1, <3>2 DEF Grown
      <3>4. r.found \in SUBSET P /\ Cardinality(r.found) \in Nat /\ Len(r.work) \in Nat
        <4>1. r.found \in SUBSET P
          BY <3>1 DEF ScanStates
        <4> QED
          BY <3>3, <4>1, PlacesFinite
      <3>5. k + Len(r.work) <= 1 + Cardinality(r.found)
        BY <1>2, <2>1, <2>2, <3>3, <3>4
      <3>6. d \in R
        BY <2>1, <2>2
      <3>7. \A x \in O : is_dir(fs, x) => x \in R
        BY <3>6, ReachedIsLeast
      <3> HIDE DEF O
      <3>8. r.scanned \cup Range(r.work) \subseteq R
        BY <2>1, <2>2, <3>1, <3>3, <3>7
      <3>9. r.found \subseteq UNION {Outside(fs, root, x) : x \in R}
        BY <2>2, <3>3, <3>6 DEF O
      <3>10. \A x \in r.found : is_dir(fs, x) => x \in r.scanned \cup Range(r.work)
        BY <2>1, <2>2, <3>1, <3>3
      <3>11. \A x \in r.scanned : Outside(fs, root, x) \subseteq r.found
        BY <2>2, <3>1, <3>3 DEF O
      <3>12. root \in r.scanned \cup Range(r.work)
        BY <2>1, <2>2, <3>1, <3>3
      <3>13. ScanInv(fs, root, r, k)
        BY <3>5, <3>8, <3>9, <3>10, <3>11, <3>12 DEF ScanInv
      <3> QED
        BY <3>13 DEF r
    <2> QED
      BY <2>3, <2>4
  <1> QED
    BY <1>3, <1>4

\* A turn leads from a state to a state.
LEMMA ScanTypes ==
  ASSUME NEW fs, FileSystem(fs), NEW root, NEW st \in ScanStates(fs)
  PROVE  ScanNext(fs, root, st) \in ScanStates(fs)
  <1>1. CASE st.work = <<>>
    BY <1>1 DEF ScanNext
  <1>2. CASE st.work # <<>> /\ Head(st.work) \in st.scanned
    <2>1. st.work \in Seq(DOMAIN fs.kind)
      BY DEF ScanStates
    <2>2. Tail(st.work) \in Seq(DOMAIN fs.kind)
      BY <1>2, <2>1, RangeOfTail
    <2>3. ScanNext(fs, root, st) = [st EXCEPT !.work = Tail(@)]
      BY <1>2 DEF ScanNext
    <2> QED
      BY <2>2, <2>3 DEF ScanStates
  <1>3. CASE st.work # <<>> /\ Head(st.work) \notin st.scanned
    BY <1>3, ScanLooks
  <1> QED
    BY <1>1, <1>2, <1>3

\* list_external_mounts comes to an end, and finds what the links lead through.
LEMMA SearchIsExact ==
  ASSUME NEW fs, FileSystem(fs), NEW p, NEW root \in DOMAIN fs.kind, root = resolve(fs, p)
  PROVE  /\ list_external_mounts(fs, p) = UNION {Outside(fs, root, d) : d \in Reached(fs, root)}
         /\ list_external_mounts(fs, p) \in SUBSET DOMAIN fs.kind
  <1> DEFINE n == Len(fs.sorted) + 1
             P == DOMAIN fs.kind
             S == ScanStates(fs)
             R == Reached(fs, root)
             base == [work |-> <<root>>, found |-> {}, scanned |-> {}]
             turn == ScanLoop(fs, root, n, base)
             m == CHOOSE k \in 0 .. n : turn[k].work = <<>>
             N == {k \in 0 .. n : ScanInv(fs, root, turn[k], k)}
  <1>1. n \in Nat /\ Len(fs.sorted) \in Nat /\ n = Len(fs.sorted) + 1
    BY DEF FileSystem
  <1>2. base \in S
    <2>1. <<root>> \in Seq(P)
      <3>1. root \in P
        OBVIOUS
      <3> HIDE DEF P
      <3> QED
        BY <3>1
    <2> QED
      BY <2>1 DEF ScanStates
  <1>3. \A x \in S : ScanNext(fs, root, x) \in S
    BY ScanTypes
  <1>4. list_external_mounts(fs, p) = turn[m].found
    BY Zenon DEF list_external_mounts, ScanLoop
  <1>5. (\E k \in 0 .. n : turn[k].work = <<>>) => m \in 0 .. n /\ turn[m].work = <<>>
    <2> HIDE DEF turn, n
    <2> QED
      OBVIOUS
  <1>6. ScanInv(fs, root, base, 0)
    <2>1. base.work = <<root>> /\ base.found = {} /\ base.scanned = {}
      OBVIOUS
    <2>2. Range(<<root>>) = {root} /\ Len(<<root>>) = 1
      BY DEF Range
    <2>3. Cardinality({}) = 0
      BY FS_EmptySet
    <2>4. root \in R
      BY ReachedIsLeast
    <2> HIDE DEF base
    <2> QED
      BY <2>1, <2>2, <2>3, <2>4 DEF ScanInv
  <1> HIDE DEF n, S, base, turn, m
  <1>7. turn \in [0 .. n -> S] /\ turn[0] = base /\ \A k \in 1 .. n : k - 1 \in 0 .. n /\ turn[k] = ScanNext(fs, root, turn[k - 1])
    <2>1. ScanTurnsAre(fs, root, n, S, base, ScanLoop(fs, root, n, base))
      BY <1>1, <1>2, <1>3, ScanTurns
    <2> QED
      BY <2>1 DEF ScanTurnsAre, turn
  <1>8. 0 \in N
    BY <1>1, <1>6, <1>7
  <1>9. ASSUME NEW k \in 1 .. n, k - 1 \in N PROVE k \in N
    <2>1. turn[k - 1] \in ScanStates(fs) /\ ScanInv(fs, root, turn[k - 1], k - 1) /\ turn[k] = ScanNext(fs, root, turn[k - 1])
      BY <1>7, <1>9 DEF S
    <2>2. ScanInv(fs, root, turn[k], k)
      BY <1>1, <2>1, ScanKeeps
    <2> QED
      BY <1>1, <2>2
  <1>10. \A k \in 0 .. n : ScanInv(fs, root, turn[k], k)
    <2> HIDE DEF N
    <2>1. \A k \in 0 .. n : k \in N
      BY <1>1, <1>8, <1>9, Turns
    <2> QED
      BY <2>1 DEF N
  <1>11. n \in 0 .. n /\ turn[n].work = <<>>
    <2>1. n \in 0 .. n
      BY <1>1
    <2>2. turn[n].work \in Seq(P) /\ turn[n].found \in SUBSET P
      BY <1>7, <2>1 DEF S, ScanStates
    <2>3. Cardinality(turn[n].found) \in Nat /\ Cardinality(turn[n].found) <= Len(fs.sorted)
      BY <2>2, PlacesFinite
    <2>4. turn[n].work = <<>> \/ n + Len(turn[n].work) <= 1 + Cardinality(turn[n].found)
      BY <1>10, <2>1 DEF ScanInv
    <2>5. Len(turn[n].work) \in Nat
      BY <2>2
    <2>6. turn[n].work = <<>> \/ Len(turn[n].work) = 0
      <3> DEFINE c == Cardinality(turn[n].found)
                 w == Len(turn[n].work)
                 l == Len(fs.sorted)
      <3>1. c \in Nat /\ w \in Nat /\ l \in Nat /\ c <= l /\ n = l + 1
        BY <1>1, <2>3, <2>5
      <3>2. turn[n].work = <<>> \/ n + w <= 1 + c
        BY <2>4
      <3> HIDE DEF c, w, l
      <3>3. n + w <= 1 + c => w = 0
        BY <3>1
      <3> QED
        BY <3>2, <3>3 DEF w
    <2> QED
      BY <2>1, <2>2, <2>6
  <1>12. m \in 0 .. n /\ turn[m].work = <<>>
    BY <1>5, <1>11
  <1> DEFINE st == turn[m]
             D == {d \in st.found : is_dir(fs, d)}
  <1>13. /\ Range(st.work) = {} /\ st.found \in SUBSET P
    BY <1>7, <1>12 DEF S, ScanStates, Range
  <1>14. /\ \A d \in st.scanned : Outside(fs, root, d) \subseteq st.found
         /\ root \in st.scanned /\ D \subseteq st.scanned
         /\ st.found \subseteq UNION {Outside(fs, root, d) : d \in R}
    BY <1>10, <1>12, <1>13 DEF ScanInv
  <1> HIDE DEF st
  <1>15. D \in SUBSET Dirs(fs, root) /\ ClosedSet(fs, root, D)
    <2>1. \A d \in st.found : ~Under(fs, d, root) /\ d \in Named(fs)
      BY <1>14, OutsideIsNamed
    <2>2. D \in SUBSET Dirs(fs, root)
      BY <1>13, <2>1 DEF Dirs
    <2>3. \A d \in D \cup {root} : Outside(fs, root, d) \subseteq st.found
      BY <1>14
    <2> QED
      BY <2>2, <2>3 DEF ClosedSet
  <1>16. R \subseteq D \cup {root}
    BY <1>15, ReachedIsLeast
  <1>17. st.found = UNION {Outside(fs, root, d) : d \in R}
    BY <1>14, <1>16
  <1> QED
    BY <1>4, <1>13, <1>17 DEF st

\* Some places are kept, none of them under another, that every one of some paths is
\* under.
KeptFor(fs, kept, paths) ==
  /\ kept \subseteq paths
  /\ \A p, q \in kept : Under(fs, p, q) => p = q
  /\ \A p \in paths : \E q \in kept : Under(fs, p, q)

\* So it is after another path.
LEMMA KeepKeeps ==
  ASSUME NEW fs, FileSystem(fs), NEW paths \in SUBSET DOMAIN fs.kind, NEW kept, KeptFor(fs, kept, paths),
         NEW p \in DOMAIN fs.kind
  PROVE  KeptFor(fs, Keep(fs, kept, p), paths \cup {p})
  <1>1. kept \in SUBSET DOMAIN fs.kind
    BY DEF KeptFor
  <1>2. \A x, y, z \in DOMAIN fs.kind : Under(fs, x, y) /\ Under(fs, y, z) => Under(fs, x, z)
    BY DEF Under, FileSystem
  <1>3. Under(fs, p, p)
    BY DEF Under, FileSystem
  <1>4. CASE \E q \in kept : Under(fs, p, q)
    <2>1. Keep(fs, kept, p) = kept
      BY <1>4 DEF Keep
    <2> QED
      BY <1>4, <2>1 DEF KeptFor
  <1>5. CASE ~\E q \in kept : Under(fs, p, q)
    <2> DEFINE r == {q \in kept : ~Under(fs, q, p)} \cup {p}
    <2>1. Keep(fs, kept, p) = r
      BY <1>5 DEF Keep
    <2>2. r \subseteq paths \cup {p}
      BY DEF KeptFor
    <2>3. ASSUME NEW x \in r, NEW y \in r, Under(fs, x, y) PROVE x = y
      BY <1>5, <2>3 DEF KeptFor
    <2>4. ASSUME NEW x \in (paths \cup {p}) PROVE \E q \in r : Under(fs, x, q)
      <3>1. CASE x = p
        BY <1>3, <3>1
      <3>2. CASE x \in paths
        <4>1. PICK q \in kept : Under(fs, x, q)
          BY <3>2 DEF KeptFor
        <4>2. CASE Under(fs, q, p)
          <5>1. Under(fs, x, p)
            BY <1>1, <1>2, <3>2, <4>1, <4>2
          <5> QED
            BY <5>1
        <4>3. CASE ~Under(fs, q, p)
          BY <4>1, <4>3
        <4> QED
          BY <4>2, <4>3
      <3> QED
        BY <3>1, <3>2
    <2> HIDE DEF r
    <2> QED
      BY <2>1, <2>2, <2>3, <2>4 DEF KeptFor
  <1> QED
    BY <1>4, <1>5

\* _minimize_paths keeps what is needed and no more.
LEMMA MinimizeIs ==
  ASSUME NEW fs, FileSystem(fs), NEW paths \in SUBSET DOMAIN fs.kind
  PROVE  KeptFor(fs, _minimize_paths(fs, paths), paths)
  <1> DEFINE P == DOMAIN fs.kind
             ts == ByPath(fs, paths)
             n == Len(ts)
             S == SUBSET P
             e == _minimize_paths(fs, paths)
  <1>1. ts \in Seq(paths) /\ Range(ts) = paths
    <2>1. fs.sorted \in Seq(P) /\ P \subseteq Range(fs.sorted)
      BY DEF FileSystem
    <2>2. ts \in Seq(paths) /\ Range(ts) = paths \cap Range(fs.sorted)
      <3>1. paths \in SUBSET P
        OBVIOUS
      <3> HIDE DEF P
      <3> QED
        BY <2>1, <3>1, OrderHas
    <2> QED
      BY <2>1, <2>2
  <1>2. n \in Nat /\ \A i \in 1 .. n : ts[i] \in P
    BY <1>1
  <1>3. paths = {ts[i] : i \in 1 .. n}
    BY <1>1 DEF Range
  <1>4. e = FoldLeft(LAMBDA kept, p : Keep(fs, kept, p), {}, ts)
    BY Zenon DEF _minimize_paths
  <1> HIDE DEF ts, n, e
  <1>5. PICK f \in [0 .. n -> S] : KeepLoop(fs, f, {}, ts)
    <2>1. \A s \in S : \A p \in paths : Keep(fs, s, p) \in S
      BY DEF Keep
    <2>2. {} \in S
      OBVIOUS
    <2> HIDE DEF S
    <2> QED
      BY <1>1, <2>1, <2>2, KeepTurns DEF n
  <1>6. f[0] = {} /\ e = f[Len(ts)]
    BY <1>4, <1>5, Zenon DEF KeepLoop
  <1>7. \A i \in 1 .. Len(ts) : f[i] = Keep(fs, f[i - 1], ts[i])
    BY <1>5, Zenon DEF KeepLoop
  <1> DEFINE Of(k) == {ts[i] : i \in 1 .. k}
             N == {k \in 0 .. n : KeptFor(fs, f[k], Of(k))}
  <1>8. 0 \in N
    <2>1. Of(0) = {} /\ 0 \in 0 .. n
      BY <1>2
    <2> HIDE DEF Of
    <2> QED
      BY <1>6, <2>1 DEF KeptFor
  <1>9. ASSUME NEW k \in 1 .. n, k - 1 \in N PROVE k \in N
    <2>1. k \in 0 .. n /\ ts[k] \in P /\ f[k] = Keep(fs, f[k - 1], ts[k]) /\ KeptFor(fs, f[k - 1], Of(k - 1))
      BY <1>2, <1>7, <1>9 DEF n
    <2>2. Of(k) = Of(k - 1) \cup {ts[k]}
      <3>1. 1 .. k = (1 .. (k - 1)) \cup {k}
        BY <1>2
      <3> QED
        BY <3>1
    <2>3. Of(k - 1) \in SUBSET P
      <3>1. \A i \in 1 .. (k - 1) : i \in 1 .. n
        BY <1>2
      <3> QED
        BY <1>2, <3>1
    <2> HIDE DEF Of
    <2>4. KeptFor(fs, f[k], Of(k))
      BY <2>1, <2>2, <2>3, KeepKeeps
    <2> QED
      BY <2>1, <2>4
  <1>10. n \in N
    <2> HIDE DEF N
    <2>1. \A k \in 0 .. n : k \in N
      BY <1>2, <1>8, <1>9, Turns
    <2> QED
      BY <1>2, <2>1
  <1>11. KeptFor(fs, e, paths)
    <2> HIDE DEF Of
    <2> QED
      BY <1>3, <1>6, <1>10 DEF n, Of
  <1> QED
    BY <1>11 DEF e

\* What the links of a project lead through.
Linked(fs, root) == UNION {Outside(fs, root, d) : d \in Reached(fs, root)}

\* Some paths are those of the links, the mounts that there are, and some of what these
\* and the project itself resolve to.
PathsOf(fs, root, existing, paths) ==
  /\ Linked(fs, root) \cup existing \subseteq paths
  /\ paths \subseteq Linked(fs, root) \cup existing \cup {resolve(fs, q) : q \in existing} \cup {root}

\* get_minimal_mounts keeps what is needed of such paths.
LEMMA MinimalMounts ==
  ASSUME NEW fs, FileSystem(fs), NEW p \in DOMAIN fs.kind, exists(fs, p),
         NEW existing \in SUBSET DOMAIN fs.kind, \A q \in existing : End(fs, q) # Nowhere
  PROVE  \E paths \in SUBSET DOMAIN fs.kind :
           /\ KeptFor(fs, get_minimal_mounts(fs, p, existing), paths)
           /\ PathsOf(fs, resolve(fs, p), existing, paths)
  <1> DEFINE P == DOMAIN fs.kind
             root == resolve(fs, p)
             links == Linked(fs, root)
             ends == {resolve(fs, q) : q \in existing}
             own == IF IsLink(fs, p) THEN {resolve(fs, p)} ELSE {}
             paths == list_external_mounts(fs, p) \cup existing \cup ends \cup own
  <1>1. \A q \in P : End(fs, q) # Nowhere => resolve(fs, q) \in P
    <2>1. ASSUME NEW q \in P PROVE End(fs, q) # Nowhere => resolve(fs, q) \in P
      <3> DEFINE n == Len(fs.sorted)
      <3>1. n \in Nat /\ Hops(fs, q) \in [0 .. n -> P \cup {Nowhere}]
        BY HopsAre
      <3>2. Hops(fs, q)[n] \in P \cup {Nowhere}
        <4>1. n \in 0 .. n
          BY <3>1
        <4> HIDE DEF n
        <4> QED
          BY <3>1, <4>1
      <3>3. End(fs, q) # Nowhere => End(fs, q) \in P
        BY <3>2, EndIs
      <3> QED
        BY <3>3 DEF resolve, FileSystem
    <2> QED
      BY <2>1
  <1>2. root \in P
    BY <1>1 DEF exists
  <1>3. ends \in SUBSET P /\ own \in SUBSET {root}
    BY <1>1
  <1> HIDE DEF root, ends, own
  <1>4. list_external_mounts(fs, p) = links /\ links \in SUBSET P
    BY <1>2, SearchIsExact DEF root, Linked
  <1> HIDE DEF links
  <1>5. paths \in SUBSET P
    BY <1>2, <1>3, <1>4
  <1>6. get_minimal_mounts(fs, p, existing) = _minimize_paths(fs, paths)
    BY DEF get_minimal_mounts, ends, own
  <1> HIDE DEF paths
  <1>7. KeptFor(fs, get_minimal_mounts(fs, p, existing), paths)
    BY <1>5, <1>6, MinimizeIs
  <1>8. links \cup existing \subseteq paths
    BY <1>4 DEF paths
  <1>9. paths \subseteq links \cup existing \cup {resolve(fs, q) : q \in existing} \cup {root}
    <2>1. ends \subseteq {resolve(fs, q) : q \in existing}
      BY DEF ends
    <2> QED
      BY <1>3, <1>4, <2>1 DEF paths
  <1> QED
    BY <1>5, <1>7, <1>8, <1>9 DEF PathsOf, links, root

----------------------------------------------------------------------------
(* The programs                                                             *)

\* The result of a program is what its module computes.
ToolsInv ==
  /\ job \in Jobs
  /\ out # Pending =>
       /\ job.tool = "coverage" =>
            out = coverage([lcov |-> lcov(job.in.covs), bazel |-> job.in.bazel,
                            lines |-> job.in.lines, branch |-> job.in.branch,
                            file_lines |-> job.in.file_lines, file_branch |-> job.in.file_branch])
       /\ job.tool = "mounts" => out = [mounts |-> get_minimal_mounts(job.in.fs, job.in.root, job.in.existing)]
       /\ job.tool = "run" => out = [volumes |-> docker_mounts(job.in)]
       /\ job.tool = "bep" => out = bep(job.in)
       /\ job.tool = "bootstrap" => out = bootstrap(job.in)

\* Each program is run once, and leaves its input alone.
THEOREM ToolsCompute == ToolsSpec => []ToolsInv
  <1>1. ToolsInit => ToolsInv
    BY DEF ToolsInit, ToolsInv
  <1>2. ToolsInv /\ [ToolsNext]_toolsVars => ToolsInv'
    <2> SUFFICES ASSUME ToolsInv, [ToolsNext]_toolsVars PROVE ToolsInv'
      OBVIOUS
    <2>1. CASE Coverage
      <3>1. job' = job /\ job.tool = "coverage"
        BY <2>1 DEF Coverage
      <3>2. out' = coverage([lcov |-> lcov(job'.in.covs), bazel |-> job'.in.bazel,
                             lines |-> job'.in.lines, branch |-> job'.in.branch,
                             file_lines |-> job'.in.file_lines, file_branch |-> job'.in.file_branch])
        BY <2>1, <3>1, Zenon DEF Coverage
      <3> QED
        BY <3>1, <3>2, Zenon DEF ToolsInv
    <2>2. CASE Mounts
      BY <2>2 DEF Mounts, ToolsInv
    <2>3. CASE Run
      BY <2>3 DEF Run, ToolsInv
    <2>4. CASE Bep
      BY <2>4 DEF Bep, ToolsInv
    <2>5. CASE Bootstrap
      BY <2>5 DEF Bootstrap, ToolsInv
    <2>6. CASE UNCHANGED toolsVars
      BY <2>6 DEF toolsVars, ToolsInv
    <2> QED
      BY <2>1, <2>2, <2>3, <2>4, <2>5, <2>6 DEF ToolsNext
  <1> QED
    BY <1>1, <1>2, PTL DEF ToolsSpec

\* bep.py and bootstrap.py report success only if every step was done: for every list
\* of targets, and every template.
THEOREM SuccessMeansWhole == ToolsSpec => []SuccessIsWhole
  <1>1. ToolsInv => EventsOfEveryTarget
    <2> SUFFICES ASSUME ToolsInv, Done("bep"), out.exit = 0, NEW i \in DOMAIN job.in.targets
                 PROVE  LET t == job.in.targets[i]
                        IN  /\ ~t.fails
                            /\ \/ \E d \in DOMAIN out.file : out.file[d] = t
                               \/ \E j \in DOMAIN job.in.targets : i < j /\ EndAlike(job.in.targets[j].label, t.label)
      BY DEF EventsOfEveryTarget
    <2> DEFINE in == job.in
               T == Range(in.targets)
               t == in.targets[i]
    <2>1. out = bep(in)
      BY DEF ToolsInv, Done
    <2>2. /\ in.targets \in Seq(T)
          /\ \A u \in T : u.fails \in BOOLEAN /\ u.label \in Seq(Range(u.label))
      BY JobsAssumption DEF ToolsInv, Done
    <2>3. bep(in).exit = 0
      BY <2>1
    <2> HIDE DEF T
    <2>4. /\ ~t.fails /\ Sanitized(t) \in DOMAIN bep(in).file
          /\ \E m \in DOMAIN in.targets :
               /\ i <= m /\ Sanitized(in.targets[m]) = Sanitized(t)
               /\ bep(in).file[Sanitized(t)] = in.targets[m]
      BY <2>2, <2>3, BepIsWhole
    <2>5. PICK m \in DOMAIN in.targets :
            i <= m /\ Sanitized(in.targets[m]) = Sanitized(t) /\ bep(in).file[Sanitized(t)] = in.targets[m]
      BY <2>4
    <2>6. CASE m = i
      BY <2>1, <2>4, <2>5, <2>6
    <2>7. CASE m # i
      <3>1. in.targets[m] \in T /\ t \in T /\ i \in Nat /\ m \in Nat
        BY <2>2
      <3>2. EndAlike(in.targets[m].label, t.label)
        BY <2>2, <2>5, <3>1, SameDirectory
      <3>3. i < m
        BY <2>5, <2>7, <3>1
      <3> QED
        BY <2>4, <3>2, <3>3
    <2> QED
      BY <2>6, <2>7
  <1>2. ToolsInv => BootstrapIsWhole
    <2> SUFFICES ASSUME ToolsInv, Done("bootstrap"), NEW i \in DOMAIN job.in.files
                 PROVE  LET f == job.in.files[i]
                        IN  /\ out.exit = 0 => out.dest[f.name] = IF f.kind = "include" THEN job.in.dest[f.name] ELSE "rendered"
                            /\ f.kind \in {"syntax", "include", "unread"} => out.dest[f.name] = job.in.dest[f.name]
      BY DEF BootstrapIsWhole
    <2> DEFINE in == job.in
               T == Range(in.files)
               D == DOMAIN in.dest
               W == Range(in.dest)
    <2>1. out = bootstrap(in)
      BY DEF ToolsInv, Done
    <2>2. /\ in.files \in Seq(T) /\ in.dest \in [D -> W]
          /\ \A f \in T : f.name \in D /\ f.kind \in {"ok", "include", "syntax", "undefined", "unread", "late"}
          /\ \A m, k \in DOMAIN in.files : in.files[m].name = in.files[k].name => m = k
      BY JobsAssumption DEF ToolsInv, Done
    <2> HIDE DEF D, W
    <2>3. Template(in.files, D)
      <3>1. DOMAIN in.files = 1 .. Len(in.files) /\ \A m \in 1 .. Len(in.files) : in.files[m] \in T
        BY <2>2
      <3> HIDE DEF T
      <3> QED
        BY <2>2, <3>1 DEF Template
    <2> HIDE DEF T
    <2>4. LET f == in.files[i]
              r == bootstrap(in)
          IN  /\ r.exit = 0 => r.dest[f.name] = IF f.kind = "include" THEN in.dest[f.name] ELSE "rendered"
              /\ f.kind \in {"syntax", "include", "unread"} => r.dest[f.name] = in.dest[f.name]
      BY <2>2, <2>3, BootstrapPlaces
    <2> QED
      BY <2>1, <2>4
  <1> QED
    BY <1>1, <1>2, ToolsCompute, PTL DEF SuccessIsWhole

\* list_external_mounts.py mounts what the links name, and no more: in every file
\* system, however its links are spelled.
THEOREM MountsExactly == ToolsSpec => []MountsAreExact
  <1>1. ToolsInv => MountsAreClosed /\ MountsAreMinimal
    <2> SUFFICES ASSUME ToolsInv, Done("mounts") PROVE MountsAreClosed /\ MountsAreMinimal
      BY DEF MountsAreClosed, MountsAreMinimal
    <2> DEFINE fs == job.in.fs
               root == resolve(fs, job.in.root)
               links == Linked(fs, root)
               existing == job.in.existing
               all == links \cup existing \cup {resolve(fs, p) : p \in existing} \cup {root}
    <2>1. out.mounts = get_minimal_mounts(fs, job.in.root, existing)
      BY DEF ToolsInv, Done
    <2>2. /\ FileSystem(fs) /\ existing \in SUBSET DOMAIN fs.kind /\ job.in.root \in DOMAIN fs.kind
          /\ exists(fs, job.in.root) /\ \A q \in existing : End(fs, q) # Nowhere
      BY JobsAssumption DEF ToolsInv, Done
    <2> HIDE DEF fs, existing
    <2>3. PICK paths \in SUBSET DOMAIN fs.kind :
            KeptFor(fs, out.mounts, paths) /\ PathsOf(fs, root, existing, paths)
      BY <2>1, <2>2, MinimalMounts
    <2>a. links \cup existing \subseteq paths /\ paths \subseteq all
      BY <2>3 DEF PathsOf
    <2> HIDE DEF root, links, all
    <2>4. \A t \in links : \E m \in out.mounts : Under(fs, t, m)
      BY <2>3, <2>a DEF KeptFor
    <2>5. MountsAreClosed
      BY <2>4 DEF MountsAreClosed, links, Linked, root, fs
    <2>6. (\A m, n \in out.mounts : Under(fs, m, n) => m = n) /\ out.mounts \subseteq all
      BY <2>3, <2>a DEF KeptFor
    <2>7. MountsAreMinimal
      BY <2>6, Zenon DEF MountsAreMinimal, all, links, Linked, root, fs, existing
    <2> QED
      BY <2>5, <2>7
  <1> QED
    BY <1>1, ToolsCompute, PTL DEF MountsAreExact

\* Whatever docker_run.py wants is mounted, by exactly one volume, and from the home
\* directory of the host if it lies in the command's.
THEOREM WantedAndMounted == ToolsSpec => []WantedIsMounted
  <1>1. ToolsInv => WantedIsMounted
    <2> SUFFICES ASSUME ToolsInv, Done("run"), NEW p \in WantedMounts(job.in)
                 PROVE  LET fs == job.in.fs
                            on == {v \in out.volumes : Under(fs, p, v.place)}
                        IN  /\ Cardinality(on) = 1
                            /\ \A v \in on : v.translated <=> /\ Under(fs, p, job.in.home)
                                                              /\ v.place = job.in.home \/ ~Under(fs, job.in.home, v.place)
      BY DEF WantedIsMounted
    <2> DEFINE in == job.in
               fs == in.fs
               home == in.home
               kept == get_minimal_mounts(fs, in.root, WantedMounts(in))
               on == {v \in out.volumes : Under(fs, p, v.place)}
    <2>1. out.volumes = {Volume(in, m) : m \in kept}
      BY DEF ToolsInv, Done, docker_mounts
    <2>2. /\ FileSystem(fs) /\ WantedMounts(in) \in SUBSET DOMAIN fs.kind /\ in.root \in DOMAIN fs.kind
          /\ exists(fs, in.root) /\ home \in DOMAIN fs.kind
          /\ \A q \in WantedMounts(in) : End(fs, q) # Nowhere
      BY JobsAssumption DEF ToolsInv, Done
    <2> DEFINE wanted == WantedMounts(in)
    <2>3. p \in wanted
      OBVIOUS
    <2> HIDE DEF wanted
    <2>4. PICK paths \in SUBSET DOMAIN fs.kind : KeptFor(fs, kept, paths) /\ wanted \subseteq paths
      <3>1. /\ wanted \in SUBSET DOMAIN fs.kind /\ kept = get_minimal_mounts(fs, in.root, wanted)
            /\ \A q \in wanted : End(fs, q) # Nowhere
        BY <2>2 DEF wanted
      <3> HIDE DEF fs, kept
      <3>2. PICK paths \in SUBSET DOMAIN fs.kind :
              KeptFor(fs, kept, paths) /\ PathsOf(fs, resolve(fs, in.root), wanted, paths)
        BY <2>2, <3>1, MinimalMounts
      <3> QED
        BY <3>2 DEF PathsOf
    <2>5. kept \in SUBSET DOMAIN fs.kind /\ p \in DOMAIN fs.kind
      BY <2>3, <2>4 DEF KeptFor
    <2>6. PICK m \in kept : Under(fs, p, m)
      BY <2>3, <2>4 DEF KeptFor
    <2> HIDE DEF kept
    <2>7. ASSUME NEW q \in kept, Under(fs, p, q) PROVE q = m
      <3>1. Under(fs, q, m) \/ Under(fs, m, q)
        BY <2>2, <2>5, <2>6, <2>7 DEF FileSystem, Under
      <3> QED
        BY <2>4, <2>6, <3>1 DEF KeptFor
    <2>8. \A q \in kept : Volume(in, q).place = q /\ Volume(in, q).translated = Under(fs, q, home)
      BY DEF Volume
    <2>9. on = {Volume(in, m)}
      BY <2>1, <2>6, <2>7, <2>8
    <2>10. Under(fs, m, home) <=> Under(fs, p, home) /\ (m = home \/ ~Under(fs, home, m))
      <3>1. m \in DOMAIN fs.kind
        BY <2>5, <2>6
      <3>2. Under(fs, m, home) => Under(fs, p, home)
        BY <2>2, <2>5, <2>6, <3>1 DEF FileSystem, Under
      <3>3. Under(fs, m, home) /\ Under(fs, home, m) => m = home
        BY <2>2, <3>1 DEF FileSystem, Under
      <3>4. Under(fs, p, home) => Under(fs, home, m) \/ Under(fs, m, home)
        BY <2>2, <2>5, <2>6 DEF FileSystem, Under
      <3>5. Under(fs, m, m)
        BY <2>2, <3>1 DEF FileSystem, Under
      <3> QED
        BY <3>2, <3>3, <3>4, <3>5
    <2>11. Cardinality(on) = 1
      BY <2>9, FS_Singleton
    <2> HIDE DEF on
    <2>12. ASSUME NEW v \in on
           PROVE  v.translated <=> Under(fs, p, home) /\ (v.place = home \/ ~Under(fs, home, v.place))
      <3>1. v.place = m /\ v.translated = Under(fs, m, home)
        BY <2>6, <2>8, <2>9
      <3> HIDE DEF fs, home
      <3> QED
        BY <2>10, <3>1
    <2> QED
      BY <2>11, <2>12 DEF on
  <1> QED
    BY <1>1, ToolsCompute, PTL
----------------------------------------------------------------------------
(* coverage_report.py                                                       *)

\* The loop of generate_lcov_report, line by line.
ReadLoop(f, base, ts) ==
  /\ f[0] = base /\ FoldLeft(ReadLine, base, ts) = f[Len(ts)]
  /\ \A i \in 1 .. Len(ts) : f[i] = ReadLine(f[i - 1], ts[i])

\* It has such states if every turn leads from states to states.
LEMMA ReadTurns ==
  ASSUME NEW T, NEW ts \in Seq(T), NEW S, NEW base \in S,
         \A st \in S : \A t \in T : ReadLine(st, t) \in S
  PROVE  \E f \in [0 .. Len(ts) -> S] : ReadLoop(f, base, ts)
  <1> DEFINE n == Len(ts)
             G == [i \in 1 .. n |-> [x \in S |-> ReadLine(x, ts[i])]]
             Is(g) == g = [s \in SUBSET (DOMAIN ts) |->
                             IF s = {} THEN base ELSE ReadLine(g[s \ {Max(s)}], ts[Max(s)])]
             c == CHOOSE g : Is(g)
  <1>1. n \in Nat /\ DOMAIN ts = 1 .. n /\ \A i \in 1 .. n : ts[i] \in T
    OBVIOUS
  <1>2. G \in [1 .. n -> [S -> S]]
    BY <1>1
  <1>3. FoldLeft(ReadLine, base, ts) = c[DOMAIN ts]
    BY Zenon DEF FoldLeft, MapThenFoldSet
  <1>4. PICK g \in [SUBSET (1 .. n) -> S] : FoldOf(g, n, base, G)
    <2> HIDE DEF G, n
    <2> QED
      BY <1>1, <1>2, FoldExists
  <1>5. ASSUME NEW s \in SUBSET (1 .. n), s # {}
        PROVE  g[s] = ReadLine(g[s \ {Max(s)}], ts[Max(s)])
    <2>1. Max(s) \in 1 .. n /\ s \ {Max(s)} \in SUBSET (1 .. n)
      BY <1>1, <1>5, MaxIsLast
    <2>2. g[s \ {Max(s)}] \in S
      BY <2>1
    <2> QED
      BY <1>4, <1>5, <2>1, <2>2 DEF FoldOf
  <1>6. Is(g)
    BY <1>1, <1>4, <1>5 DEF FoldOf
  <1>7. Is(c)
    BY <1>6
  <1>8. ASSUME NEW i \in 1 .. n, c[1 .. (i - 1)] \in S
        PROVE  c[1 .. i] = G[i][c[1 .. (i - 1)]]
    <2>1. 1 .. i # {} /\ Max(1 .. i) = i /\ (1 .. i) \ {i} = 1 .. (i - 1)
      BY MaxOfInterval
    <2>2. 1 .. i \in SUBSET (DOMAIN ts)
      BY <1>1
    <2>3. c[1 .. i] = ReadLine(c[1 .. (i - 1)], ts[i])
      BY <1>7, <2>1, <2>2
    <2> QED
      BY <1>8, <2>3
  <1>9. TurnsOf(c, n, S, base, G)
    <2>1. c[{}] = base
      BY <1>7
    <2> HIDE DEF c, G
    <2> QED
      BY <1>8, <2>1 DEF TurnsOf
  <1>10. PICK f \in [0 .. n -> S] : LoopOf(f, n, base, G) /\ EndsIn(c, f, n)
    <2>1. n \in Nat
      BY <1>1
    <2> HIDE DEF c, G, n, Is
    <2> QED
      BY <2>1, <1>2, <1>9, FoldTurns
  <1>11. ASSUME NEW i \in 1 .. n PROVE f[i] = ReadLine(f[i - 1], ts[i])
    <2>1. f[i - 1] \in S
      OBVIOUS
    <2> QED
      BY <1>10, <2>1 DEF LoopOf
  <1> QED
    BY <1>1, <1>3, <1>10, <1>11 DEF LoopOf, EndsIn, ReadLoop

\* The report of bazel, file by file.
LcovLoop(f, base, ts) ==
  /\ f[0] = base /\ FoldLeft(AddRecord, base, ts) = f[Len(ts)]
  /\ \A i \in 1 .. Len(ts) : f[i] = AddRecord(f[i - 1], ts[i])

\* It has such states if every turn leads from states to states.
LEMMA LcovTurns ==
  ASSUME NEW T, NEW ts \in Seq(T), NEW S, NEW base \in S,
         \A st \in S : \A t \in T : AddRecord(st, t) \in S
  PROVE  \E f \in [0 .. Len(ts) -> S] : LcovLoop(f, base, ts)
  <1> DEFINE n == Len(ts)
             G == [i \in 1 .. n |-> [x \in S |-> AddRecord(x, ts[i])]]
             Is(g) == g = [s \in SUBSET (DOMAIN ts) |->
                             IF s = {} THEN base ELSE AddRecord(g[s \ {Max(s)}], ts[Max(s)])]
             c == CHOOSE g : Is(g)
  <1>1. n \in Nat /\ DOMAIN ts = 1 .. n /\ \A i \in 1 .. n : ts[i] \in T
    OBVIOUS
  <1>2. G \in [1 .. n -> [S -> S]]
    BY <1>1
  <1>3. FoldLeft(AddRecord, base, ts) = c[DOMAIN ts]
    BY Zenon DEF FoldLeft, MapThenFoldSet
  <1>4. PICK g \in [SUBSET (1 .. n) -> S] : FoldOf(g, n, base, G)
    <2> HIDE DEF G, n
    <2> QED
      BY <1>1, <1>2, FoldExists
  <1>5. ASSUME NEW s \in SUBSET (1 .. n), s # {}
        PROVE  g[s] = AddRecord(g[s \ {Max(s)}], ts[Max(s)])
    <2>1. Max(s) \in 1 .. n /\ s \ {Max(s)} \in SUBSET (1 .. n)
      BY <1>1, <1>5, MaxIsLast
    <2>2. g[s \ {Max(s)}] \in S
      BY <2>1
    <2> QED
      BY <1>4, <1>5, <2>1, <2>2 DEF FoldOf
  <1>6. Is(g)
    BY <1>1, <1>4, <1>5 DEF FoldOf
  <1>7. Is(c)
    BY <1>6
  <1>8. ASSUME NEW i \in 1 .. n, c[1 .. (i - 1)] \in S
        PROVE  c[1 .. i] = G[i][c[1 .. (i - 1)]]
    <2>1. 1 .. i # {} /\ Max(1 .. i) = i /\ (1 .. i) \ {i} = 1 .. (i - 1)
      BY MaxOfInterval
    <2>2. 1 .. i \in SUBSET (DOMAIN ts)
      BY <1>1
    <2>3. c[1 .. i] = AddRecord(c[1 .. (i - 1)], ts[i])
      BY <1>7, <2>1, <2>2
    <2> QED
      BY <1>8, <2>3
  <1>9. TurnsOf(c, n, S, base, G)
    <2>1. c[{}] = base
      BY <1>7
    <2> HIDE DEF c, G
    <2> QED
      BY <1>8, <2>1 DEF TurnsOf
  <1>10. PICK f \in [0 .. n -> S] : LoopOf(f, n, base, G) /\ EndsIn(c, f, n)
    <2>1. n \in Nat
      BY <1>1
    <2> HIDE DEF c, G, n, Is
    <2> QED
      BY <2>1, <1>2, <1>9, FoldTurns
  <1>11. ASSUME NEW i \in 1 .. n PROVE f[i] = AddRecord(f[i - 1], ts[i])
    <2>1. f[i - 1] \in S
      OBVIOUS
    <2> QED
      BY <1>10, <2>1 DEF LoopOf
  <1> QED
    BY <1>1, <1>3, <1>10, <1>11 DEF LoopOf, EndsIn, LcovLoop

\* The numbers, sorted one by one.
InsertLoop(f, base, ts) ==
  /\ f[0] = base /\ FoldLeft(Insert, base, ts) = f[Len(ts)]
  /\ \A i \in 1 .. Len(ts) : f[i] = Insert(f[i - 1], ts[i])

\* It has such states if every turn leads from states to states.
LEMMA InsertTurns ==
  ASSUME NEW T, NEW ts \in Seq(T), NEW S, NEW base \in S,
         \A st \in S : \A t \in T : Insert(st, t) \in S
  PROVE  \E f \in [0 .. Len(ts) -> S] : InsertLoop(f, base, ts)
  <1> DEFINE n == Len(ts)
             G == [i \in 1 .. n |-> [x \in S |-> Insert(x, ts[i])]]
             Is(g) == g = [s \in SUBSET (DOMAIN ts) |->
                             IF s = {} THEN base ELSE Insert(g[s \ {Max(s)}], ts[Max(s)])]
             c == CHOOSE g : Is(g)
  <1>1. n \in Nat /\ DOMAIN ts = 1 .. n /\ \A i \in 1 .. n : ts[i] \in T
    OBVIOUS
  <1>2. G \in [1 .. n -> [S -> S]]
    BY <1>1
  <1>3. FoldLeft(Insert, base, ts) = c[DOMAIN ts]
    BY Zenon DEF FoldLeft, MapThenFoldSet
  <1>4. PICK g \in [SUBSET (1 .. n) -> S] : FoldOf(g, n, base, G)
    <2> HIDE DEF G, n
    <2> QED
      BY <1>1, <1>2, FoldExists
  <1>5. ASSUME NEW s \in SUBSET (1 .. n), s # {}
        PROVE  g[s] = Insert(g[s \ {Max(s)}], ts[Max(s)])
    <2>1. Max(s) \in 1 .. n /\ s \ {Max(s)} \in SUBSET (1 .. n)
      BY <1>1, <1>5, MaxIsLast
    <2>2. g[s \ {Max(s)}] \in S
      BY <2>1
    <2> QED
      BY <1>4, <1>5, <2>1, <2>2 DEF FoldOf
  <1>6. Is(g)
    BY <1>1, <1>4, <1>5 DEF FoldOf
  <1>7. Is(c)
    BY <1>6
  <1>8. ASSUME NEW i \in 1 .. n, c[1 .. (i - 1)] \in S
        PROVE  c[1 .. i] = G[i][c[1 .. (i - 1)]]
    <2>1. 1 .. i # {} /\ Max(1 .. i) = i /\ (1 .. i) \ {i} = 1 .. (i - 1)
      BY MaxOfInterval
    <2>2. 1 .. i \in SUBSET (DOMAIN ts)
      BY <1>1
    <2>3. c[1 .. i] = Insert(c[1 .. (i - 1)], ts[i])
      BY <1>7, <2>1, <2>2
    <2> QED
      BY <1>8, <2>3
  <1>9. TurnsOf(c, n, S, base, G)
    <2>1. c[{}] = base
      BY <1>7
    <2> HIDE DEF c, G
    <2> QED
      BY <1>8, <2>1 DEF TurnsOf
  <1>10. PICK f \in [0 .. n -> S] : LoopOf(f, n, base, G) /\ EndsIn(c, f, n)
    <2>1. n \in Nat
      BY <1>1
    <2> HIDE DEF c, G, n, Is
    <2> QED
      BY <2>1, <1>2, <1>9, FoldTurns
  <1>11. ASSUME NEW i \in 1 .. n PROVE f[i] = Insert(f[i - 1], ts[i])
    <2>1. f[i - 1] \in S
      OBVIOUS
    <2> QED
      BY <1>10, <2>1 DEF LoopOf
  <1> QED
    BY <1>1, <1>3, <1>10, <1>11 DEF LoopOf, EndsIn, InsertLoop

\* The loop of group_consecutive_numbers, number by number.
GroupLoop(f, base, ts) ==
  /\ f[0] = base /\ FoldLeft(Group, base, ts) = f[Len(ts)]
  /\ \A i \in 1 .. Len(ts) : f[i] = Group(f[i - 1], ts[i])

\* It has such states if every turn leads from states to states.
LEMMA GroupTurns ==
  ASSUME NEW T, NEW ts \in Seq(T), NEW S, NEW base \in S,
         \A st \in S : \A t \in T : Group(st, t) \in S
  PROVE  \E f \in [0 .. Len(ts) -> S] : GroupLoop(f, base, ts)
  <1> DEFINE n == Len(ts)
             G == [i \in 1 .. n |-> [x \in S |-> Group(x, ts[i])]]
             Is(g) == g = [s \in SUBSET (DOMAIN ts) |->
                             IF s = {} THEN base ELSE Group(g[s \ {Max(s)}], ts[Max(s)])]
             c == CHOOSE g : Is(g)
  <1>1. n \in Nat /\ DOMAIN ts = 1 .. n /\ \A i \in 1 .. n : ts[i] \in T
    OBVIOUS
  <1>2. G \in [1 .. n -> [S -> S]]
    BY <1>1
  <1>3. FoldLeft(Group, base, ts) = c[DOMAIN ts]
    BY Zenon DEF FoldLeft, MapThenFoldSet
  <1>4. PICK g \in [SUBSET (1 .. n) -> S] : FoldOf(g, n, base, G)
    <2> HIDE DEF G, n
    <2> QED
      BY <1>1, <1>2, FoldExists
  <1>5. ASSUME NEW s \in SUBSET (1 .. n), s # {}
        PROVE  g[s] = Group(g[s \ {Max(s)}], ts[Max(s)])
    <2>1. Max(s) \in 1 .. n /\ s \ {Max(s)} \in SUBSET (1 .. n)
      BY <1>1, <1>5, MaxIsLast
    <2>2. g[s \ {Max(s)}] \in S
      BY <2>1
    <2> QED
      BY <1>4, <1>5, <2>1, <2>2 DEF FoldOf
  <1>6. Is(g)
    BY <1>1, <1>4, <1>5 DEF FoldOf
  <1>7. Is(c)
    BY <1>6
  <1>8. ASSUME NEW i \in 1 .. n, c[1 .. (i - 1)] \in S
        PROVE  c[1 .. i] = G[i][c[1 .. (i - 1)]]
    <2>1. 1 .. i # {} /\ Max(1 .. i) = i /\ (1 .. i) \ {i} = 1 .. (i - 1)
      BY MaxOfInterval
    <2>2. 1 .. i \in SUBSET (DOMAIN ts)
      BY <1>1
    <2>3. c[1 .. i] = Group(c[1 .. (i - 1)], ts[i])
      BY <1>7, <2>1, <2>2
    <2> QED
      BY <1>8, <2>3
  <1>9. TurnsOf(c, n, S, base, G)
    <2>1. c[{}] = base
      BY <1>7
    <2> HIDE DEF c, G
    <2> QED
      BY <1>8, <2>1 DEF TurnsOf
  <1>10. PICK f \in [0 .. n -> S] : LoopOf(f, n, base, G) /\ EndsIn(c, f, n)
    <2>1. n \in Nat
      BY <1>1
    <2> HIDE DEF c, G, n, Is
    <2> QED
      BY <2>1, <1>2, <1>9, FoldTurns
  <1>11. ASSUME NEW i \in 1 .. n PROVE f[i] = Group(f[i - 1], ts[i])
    <2>1. f[i - 1] \in S
      OBVIOUS
    <2> QED
      BY <1>10, <2>1 DEF LoopOf
  <1> QED
    BY <1>1, <1>3, <1>10, <1>11 DEF LoopOf, EndsIn, GroupLoop

\* Numbers in ascending order, and each once.
Ascending(s) == \A i, j \in 1 .. Len(s) : i < j => s[i] <= s[j]
Rising(s) == \A i, j \in 1 .. Len(s) : i < j => s[i] < s[j]

\* The place of a number among others in ascending order.
PlaceOf(s, n, k) == (\A i \in 1 .. k : s[i] <= n) /\ \A i \in (k + 1) .. Len(s) : n < s[i]

\* An ascending sequence has a place for every number.
LEMMA HasPlace ==
  ASSUME NEW s \in Seq(Int), Ascending(s), NEW n \in Int
  PROVE  \E k \in 0 .. Len(s) : PlaceOf(s, n, k)
  <1> DEFINE l == Len(s)
             K == {k \in 0 .. l : \A i \in (k + 1) .. l : n < s[i]}
  <1>1. l \in Nat /\ \A i \in 1 .. l : s[i] \in Int
    OBVIOUS
  <1> HIDE DEF l
  <1>2. l \in K
    BY <1>1
  <1>3. PICK k \in K : \A j \in K : k <= j
    <2>1. K \subseteq Nat
      BY <1>1
    <2> HIDE DEF K
    <2>2. K # {}
      BY <1>2
    <2> QED
      BY <2>1, <2>2, LeastNumber
  <1>4. k \in 0 .. l /\ \A i \in (k + 1) .. l : n < s[i]
    BY <1>3
  <1>5. ASSUME NEW i \in 1 .. k PROVE s[i] <= n
    <2>1. k \in Nat \ {0} /\ k - 1 \in 0 .. l /\ k \in 1 .. l /\ i \in 1 .. l
      BY <1>1, <1>4
    <2>2. k - 1 \notin K
      BY <1>3, <2>1
    <2>3. PICK m \in ((k - 1) + 1) .. l : ~(n < s[m])
      BY <2>1, <2>2
    <2>4. m = k
      BY <1>1, <1>4, <2>1, <2>3
    <2>5. s[k] <= n
      BY <1>1, <2>1, <2>3, <2>4
    <2>6. CASE i = k
      BY <2>5, <2>6
    <2>7. CASE i # k
      <3>1. s[i] <= s[k]
        BY <2>1, <2>7 DEF Ascending, l
      <3> QED
        BY <1>1, <2>1, <2>5, <3>1
    <2> QED
      BY <2>6, <2>7
  <1> QED
    BY <1>4, <1>5 DEF PlaceOf, l

\* A number is put in its place.
LEMMA InsertIs ==
  ASSUME NEW s \in Seq(Int), Ascending(s), NEW n \in Int
  PROVE  /\ Insert(s, n) \in Seq(Int) /\ Ascending(Insert(s, n))
         /\ Rising(s) /\ n \notin Range(s) => Rising(Insert(s, n))
         /\ Range(Insert(s, n)) = Range(s) \cup {n}
  <1> DEFINE l == Len(s)
             k == CHOOSE x \in 0 .. Len(s) : /\ \A i \in 1 .. x : s[i] <= n
                                             /\ \A i \in (x + 1) .. Len(s) : n < s[i]
             a == SubSeq(s, 1, k)
             b == SubSeq(s, k + 1, l)
             r == Insert(s, n)
             once == Rising(s) /\ n \notin Range(s)
             Below(x, y) == x <= y /\ (once => x < y)
  <1>1. l \in Nat /\ (\A i \in 1 .. l : s[i] \in Int) /\ DOMAIN s = 1 .. l
    OBVIOUS
  <1>2. k \in 0 .. l /\ PlaceOf(s, n, k)
    BY HasPlace DEF PlaceOf
  <1>3. r = SubSeq(s, 1, (k + 1) - 1) \o <<n>> \o SubSeq(s, k + 1, l)
    BY Zenon DEF Insert, InsertAt
  <1> HIDE DEF k, r, l
  <1>4. (k + 1) - 1 = k /\ k + 1 \in 1 .. (l + 1)
    BY <1>1, <1>2
  <1>5. a \in Seq(Int) /\ Len(a) = k /\ \A i \in 1 .. k : a[i] = s[i]
    BY <1>1, <1>2 DEF l
  <1>6. b \in Seq(Int) /\ Len(b) = l - k /\ \A i \in 1 .. (l - k) : b[i] = s[k + i]
    <2>1. k + 1 \in Int /\ l \in Int /\ \A i \in (k + 1) .. l : s[i] \in Int
      BY <1>1, <1>2
    <2>2. /\ b \in Seq(Int) /\ Len(b) = IF k + 1 <= l THEN l - (k + 1) + 1 ELSE 0
          /\ \A i \in 1 .. (l - (k + 1) + 1) : b[i] = s[(k + 1) + i - 1]
      BY <2>1, SubSeqProperties
    <2>3. l - (k + 1) + 1 = l - k /\ (~(k + 1 <= l) => l - k = 0) /\ \A i \in 1 .. (l - k) : (k + 1) + i - 1 = k + i
      BY <1>1, <1>2
    <2> HIDE DEF b
    <2> QED
      BY <2>2, <2>3
  <1>7. r = (a \o <<n>>) \o b
    BY <1>3, <1>4
  <1> HIDE DEF a, b
  <1> DEFINE c == a \o <<n>>
  <1>8. c \in Seq(Int) /\ Len(c) = k + 1 /\ \A i \in 1 .. (k + 1) : c[i] = IF i = k + 1 THEN n ELSE s[i]
    BY <1>2, <1>5
  <1> HIDE DEF c
  <1>9. r \in Seq(Int) /\ Len(r) = l + 1 /\ \A i \in 1 .. (l + 1) : r[i] = IF i <= k + 1 THEN c[i] ELSE b[i - (k + 1)]
    <2>1. r = c \o b
      BY <1>7 DEF c
    <2>2. Len(c) + Len(b) = l + 1
      BY <1>1, <1>2, <1>6, <1>8
    <2>3. /\ c \o b \in Seq(Int) /\ Len(c \o b) = Len(c) + Len(b)
          /\ \A i \in 1 .. Len(c) + Len(b) : (c \o b)[i] = IF i <= Len(c) THEN c[i] ELSE b[i - Len(c)]
      BY <1>6, <1>8, ConcatProperties
    <2> QED
      BY <1>8, <2>1, <2>2, <2>3
  <1>10. ASSUME NEW i \in 1 .. (l + 1)
         PROVE  r[i] = IF i <= k THEN s[i] ELSE IF i = k + 1 THEN n ELSE s[i - 1]
    <2>1. CASE i <= k + 1
      <3>1. i \in 1 .. (k + 1) /\ r[i] = c[i]
        BY <1>1, <1>2, <1>9, <2>1
      <3> QED
        BY <1>2, <1>8, <3>1
    <2>2. CASE ~(i <= k + 1)
      <3>1. i - (k + 1) \in 1 .. (l - k) /\ k + (i - (k + 1)) = i - 1 /\ ~(i <= k) /\ i # k + 1
        BY <1>1, <1>2, <2>2
      <3>2. r[i] = b[i - (k + 1)]
        BY <1>9, <2>2
      <3> QED
        BY <1>6, <3>1, <3>2
    <2> QED
      BY <2>1, <2>2
  <1>11. once => \A i \in 1 .. l : s[i] # n
    BY <1>1 DEF Range
  <1>12. (\A i \in 1 .. k : Below(s[i], n)) /\ \A i \in (k + 1) .. l : Below(n, s[i])
    <2> HIDE DEF once
    <2> QED
      BY <1>1, <1>2, <1>11 DEF PlaceOf, l
  <1>13. \A i, j \in 1 .. l : i < j => Below(s[i], s[j])
    BY DEF Ascending, Rising, l
  <1>14. Ascending(r) /\ (once => Rising(r))
    <2>1. ASSUME NEW i \in 1 .. (l + 1), NEW j \in 1 .. (l + 1), i < j PROVE Below(r[i], r[j])
      <3> HIDE DEF once, Below
      <3>1. CASE i <= k /\ j <= k
        BY <1>1, <1>2, <1>10, <1>13, <2>1, <3>1
      <3>2. CASE i <= k /\ j = k + 1
        BY <1>1, <1>2, <1>10, <1>12, <3>2
      <3>3. CASE i <= k /\ j > k + 1
        <4>1. i \in 1 .. l /\ j - 1 \in 1 .. l /\ i < j - 1
          BY <1>1, <1>2, <3>3
        <4> QED
          BY <1>2, <1>10, <1>13, <3>3, <4>1
      <3>4. CASE i = k + 1
        <4>1. j - 1 \in (k + 1) .. l
          BY <1>1, <1>2, <2>1, <3>4
        <4> QED
          BY <1>2, <1>10, <1>12, <2>1, <3>4, <4>1
      <3>5. CASE i > k + 1
        <4>1. i - 1 \in 1 .. l /\ j - 1 \in 1 .. l /\ i - 1 < j - 1 /\ j > k + 1
          BY <1>1, <1>2, <2>1, <3>5
        <4> QED
          BY <1>2, <1>10, <1>13, <3>5, <4>1
      <3> QED
        BY <1>2, <2>1, <3>1, <3>2, <3>3, <3>4, <3>5
    <2> QED
      BY <1>9, <2>1 DEF Ascending, Rising
  <1>15. Range(r) = Range(s) \cup {n}
    <2>1. DOMAIN r = 1 .. (l + 1)
      BY <1>9
    <2>2. ASSUME NEW y \in Range(r) PROVE y \in Range(s) \cup {n}
      <3>1. PICK i \in 1 .. (l + 1) : y = r[i]
        BY <2>1, <2>2 DEF Range
      <3>2. CASE i <= k
        <4>1. i \in DOMAIN s /\ y = s[i]
          BY <1>1, <1>2, <1>10, <3>1, <3>2
        <4> QED
          BY <4>1 DEF Range
      <3>3. CASE i = k + 1
        BY <1>2, <1>10, <3>1, <3>3
      <3>4. CASE i > k + 1
        <4>1. i - 1 \in DOMAIN s /\ y = s[i - 1]
          BY <1>1, <1>2, <1>10, <3>1, <3>4
        <4> QED
          BY <4>1 DEF Range
      <3> QED
        BY <1>2, <3>2, <3>3, <3>4
    <2>3. ASSUME NEW y \in Range(s) \cup {n} PROVE y \in Range(r)
      <3>1. CASE y = n
        <4>1. k + 1 \in DOMAIN r /\ r[k + 1] = n
          BY <1>1, <1>2, <1>4, <1>10, <2>1
        <4> QED
          BY <3>1, <4>1 DEF Range
      <3>2. CASE y \in Range(s)
        <4>1. PICK i \in 1 .. l : y = s[i]
          BY <1>1, <3>2 DEF Range
        <4>2. CASE i <= k
          <5>1. i \in DOMAIN r /\ r[i] = y
            BY <1>1, <1>10, <2>1, <4>1, <4>2
          <5> QED
            BY <5>1 DEF Range
        <4>3. CASE i > k
          <5>1. i + 1 \in 1 .. (l + 1) /\ ~(i + 1 <= k) /\ i + 1 # k + 1 /\ (i + 1) - 1 = i
            BY <1>1, <1>2, <4>3
          <5>2. i + 1 \in DOMAIN r /\ r[i + 1] = y
            BY <1>10, <2>1, <4>1, <5>1
          <5> QED
            BY <5>2 DEF Range
        <4> QED
          BY <1>2, <4>2, <4>3
      <3> QED
        BY <3>1, <3>2
    <2> QED
      BY <2>2, <2>3
  <1> QED
    BY <1>9, <1>14, <1>15 DEF r, once

\* Different numbers, sorted.
LEMMA SortedIs ==
  ASSUME NEW ts \in Seq(Int), \A i, j \in 1 .. Len(ts) : ts[i] = ts[j] => i = j
  PROVE  Sorted(ts) \in Seq(Int) /\ Rising(Sorted(ts)) /\ Range(Sorted(ts)) = Range(ts)
  <1> DEFINE n == Len(ts)
             S == {s \in Seq(Int) : Ascending(s)}
             Of(k) == {ts[i] : i \in 1 .. k}
  <1>1. n \in Nat /\ (\A i \in 1 .. n : ts[i] \in Int) /\ DOMAIN ts = 1 .. n
    OBVIOUS
  <1>2. <<>> \in S /\ Rising(<<>>) /\ Range(<<>>) = {}
    BY DEF Ascending, Rising, Range
  <1>3. \A s \in S : \A t \in Int : Insert(s, t) \in S
    BY InsertIs
  <1>4. PICK f \in [0 .. n -> S] : InsertLoop(f, <<>>, ts)
    <2> HIDE DEF S
    <2> QED
      BY <1>2, <1>3, InsertTurns
  <1> HIDE DEF n
  <1>5. f[0] = <<>> /\ Sorted(ts) = f[n] /\ \A i \in 1 .. n : f[i] = Insert(f[i - 1], ts[i])
    BY <1>4 DEF InsertLoop, Sorted, n
  <1> DEFINE N == {k \in 0 .. n : Rising(f[k]) /\ Range(f[k]) = Of(k)}
  <1>6. 0 \in N
    BY <1>1, <1>2, <1>5
  <1>7. ASSUME NEW k \in 1 .. n, k - 1 \in N PROVE k \in N
    <2>1. k - 1 \in 0 .. n /\ k \in 0 .. n /\ f[k - 1] \in S /\ Rising(f[k - 1]) /\ Range(f[k - 1]) = Of(k - 1) /\ f[k] = Insert(f[k - 1], ts[k])
      <3>1. k - 1 \in 0 .. n /\ k \in 0 .. n
        BY <1>1
      <3>2. Rising(f[k - 1]) /\ Range(f[k - 1]) = Of(k - 1)
        BY <1>7
      <3> HIDE DEF S, Of
      <3> QED
        BY <1>5, <3>1, <3>2
    <2>2. ts[k] \notin Of(k - 1)
      <3>1. \A i \in 1 .. (k - 1) : i \in 1 .. n /\ i # k
        BY <1>1
      <3> QED
        BY <3>1 DEF n
    <2>3. Of(k) = Of(k - 1) \cup {ts[k]}
      <3>1. 1 .. k = (1 .. (k - 1)) \cup {k}
        BY <1>1
      <3> QED
        BY <3>1
    <2>4. ts[k] \in Int /\ f[k - 1] \in Seq(Int) /\ Ascending(f[k - 1])
      BY <1>1, <2>1
    <2> HIDE DEF Of
    <2>5. Rising(f[k]) /\ Range(f[k]) = Of(k - 1) \cup {ts[k]}
      <3> DEFINE a == f[k - 1]
                 t == ts[k]
                 U == Of(k - 1)
      <3>1. a \in Seq(Int) /\ Ascending(a) /\ Rising(a) /\ Range(a) = U /\ t \in Int /\ t \notin U /\ f[k] = Insert(a, t)
        BY <2>1, <2>2, <2>4
      <3> HIDE DEF a, t, U
      <3>2. Rising(Insert(a, t)) /\ Range(Insert(a, t)) = U \cup {t}
        BY <3>1, InsertIs
      <3> QED
        BY <3>1, <3>2 DEF U, t
    <2> QED
      BY <2>1, <2>3, <2>5
  <1>8. n \in N /\ n \in 0 .. n
    <2> HIDE DEF N
    <2>1. \A k \in 0 .. n : k \in N
      BY <1>1, <1>6, <1>7, Turns
    <2> QED
      BY <1>1, <2>1
  <1>9. Range(ts) = Of(n)
    BY <1>1 DEF Range
  <1> HIDE DEF Of
  <1> QED
    BY <1>5, <1>8, <1>9

Pairs == Int \X Int

\* The numbers of some ranges.
Within(r) == UNION {r[k][1] .. r[k][2] : k \in 1 .. Len(r)}

\* Ranges that are apart.
Apart(r) == \A k \in 1 .. (Len(r) - 1) : r[k][2] + 1 < r[k + 1][1]

GroupStates == [out : Seq(Pairs), start : Int, last : Int]

\* The ranges so far, and the one that is being read, have the numbers.
Grouped(st, U) ==
  /\ st.start <= st.last /\ Within(st.out) \cup (st.start .. st.last) = U
  /\ Apart(Append(st.out, <<st.start, st.last>>))

\* What an appended range adds.
LEMMA AppendRange ==
  ASSUME NEW r \in Seq(Pairs), NEW a \in Int, NEW b \in Int
  PROVE  /\ Append(r, <<a, b>>) \in Seq(Pairs) /\ Within(Append(r, <<a, b>>)) = Within(r) \cup (a .. b)
         /\ Append(r, <<a, b>>) # <<>> /\ Append(r, <<a, b>>)[Len(Append(r, <<a, b>>))] = <<a, b>>
         /\ Apart(Append(r, <<a, b>>)) <=> Apart(r) /\ (r # <<>> => r[Len(r)][2] + 1 < a)
  <1> DEFINE p == <<a, b>>
             s == Append(r, p)
             n == Len(r)
  <1>1. p \in Pairs /\ p[1] = a /\ p[2] = b
    BY DEF Pairs
  <1> HIDE DEF p
  <1>2. s \in Seq(Pairs) /\ Len(s) = n + 1 /\ n \in Nat /\ s[n + 1] = p /\ \A i \in 1 .. n : s[i] = r[i]
    BY <1>1
  <1>3. (r # <<>> <=> n # 0) /\ s # <<>>
    BY <1>2
  <1> HIDE DEF s, n
  <1>4. Within(s) = Within(r) \cup (a .. b)
    <2>1. 1 .. (n + 1) = (1 .. n) \cup {n + 1}
      BY <1>2
    <2>2. Within(s) = UNION {s[k][1] .. s[k][2] : k \in (1 .. n) \cup {n + 1}}
      BY <1>2, <2>1 DEF Within
    <2>3. Within(r) = UNION {s[k][1] .. s[k][2] : k \in 1 .. n}
      BY <1>2 DEF Within, n
    <2>4. s[n + 1][1] .. s[n + 1][2] = a .. b
      BY <1>1, <1>2
    <2> QED
      BY <2>2, <2>3, <2>4
  <1>5. Apart(s) <=> Apart(r) /\ (n # 0 => r[n][2] + 1 < a)
    <2>1. Apart(s) <=> \A k \in 1 .. n : s[k][2] + 1 < s[k + 1][1]
      BY <1>2 DEF Apart
    <2>2. CASE n = 0
      BY <2>1, <2>2 DEF Apart, n
    <2>3. CASE n # 0
      <3>1. 1 .. n = (1 .. (n - 1)) \cup {n}
        BY <1>2, <2>3
      <3>2. \A k \in 1 .. (n - 1) : s[k] = r[k] /\ s[k + 1] = r[k + 1]
        BY <1>2
      <3>3. s[n] = r[n] /\ s[n + 1][1] = a
        BY <1>1, <1>2, <2>3
      <3>4. Apart(r) <=> \A k \in 1 .. (n - 1) : r[k][2] + 1 < r[k + 1][1]
        BY DEF Apart, n
      <3> QED
        BY <2>1, <2>3, <3>1, <3>2, <3>3, <3>4
    <2> QED
      BY <2>2, <2>3
  <1> QED
    BY <1>2, <1>3, <1>4, <1>5 DEF s, n, p

\* A turn takes the next number.
LEMMA GroupKeeps ==
  ASSUME NEW st \in GroupStates, NEW U, Grouped(st, U), NEW n \in Int, st.last < n
  PROVE  Grouped(Group(st, n), U \cup {n}) /\ Group(st, n).last = n
  <1>1. st.out \in Seq(Pairs) /\ st.start \in Int /\ st.last \in Int /\ st.start <= st.last
    BY DEF GroupStates, Grouped
  <1> DEFINE r == Group(st, n)
             all == Append(st.out, <<st.start, st.last>>)
  <1>2. /\ all \in Seq(Pairs) /\ Within(all) = U /\ Apart(all)
        /\ Apart(st.out) /\ (st.out # <<>> => st.out[Len(st.out)][2] + 1 < st.start)
    <2>1. /\ all \in Seq(Pairs) /\ Within(all) = Within(st.out) \cup (st.start .. st.last)
          /\ Apart(all) <=> Apart(st.out) /\ (st.out # <<>> => st.out[Len(st.out)][2] + 1 < st.start)
      BY <1>1, AppendRange
    <2>2. Apart(all) /\ Within(st.out) \cup (st.start .. st.last) = U
      BY DEF Grouped
    <2> HIDE DEF all
    <2> QED
      BY <2>1, <2>2
  <1>3. all # <<>> /\ all[Len(all)] = <<st.start, st.last>>
    BY <1>1, AppendRange
  <1>4. CASE n # st.last + 1
    <2>1. r = [out |-> all, start |-> n, last |-> n]
      BY <1>4 DEF Group
    <2> HIDE DEF all, r
    <2>2. r.out = all /\ r.start = n /\ r.last = n
      BY <2>1
    <2>3. n .. n = {n}
      OBVIOUS
    <2>4. all[Len(all)][2] + 1 < n
      BY <1>1, <1>3, <1>4
    <2>5. Apart(Append(all, <<n, n>>))
      BY <1>2, <2>4, AppendRange
    <2>6. Grouped(r, U \cup {n})
      BY <1>2, <2>2, <2>3, <2>5 DEF Grouped
    <2> QED
      BY <2>2, <2>6 DEF r
  <1>5. CASE n = st.last + 1
    <2>1. r = [st EXCEPT !.last = n]
      BY <1>5 DEF Group
    <2>2. r.out = st.out /\ r.start = st.start /\ r.last = n
      BY <2>1 DEF GroupStates
    <2> HIDE DEF r
    <2>3. st.start .. n = (st.start .. st.last) \cup {n} /\ st.start <= n
      BY <1>1, <1>5
    <2>4. Apart(Append(st.out, <<st.start, n>>))
      BY <1>1, <1>2, AppendRange
    <2>5. Grouped(r, U \cup {n})
      BY <2>2, <2>3, <2>4 DEF Grouped
    <2> QED
      BY <2>2, <2>5 DEF r
  <1> QED
    BY <1>4, <1>5

\* group_consecutive_numbers tells the numbers in the fewest ascending ranges.
LEMMA GroupsAre ==
  ASSUME NEW numbers \in Seq(Int), \A i, j \in 1 .. Len(numbers) : numbers[i] = numbers[j] => i = j
  PROVE  LET r == group_consecutive_numbers(numbers)
         IN  r \in Seq(Pairs) /\ Within(r) = Range(numbers) /\ Apart(r)
  <1> DEFINE s == Sorted(numbers)
             ts == Tail(s)
             n == Len(ts)
             first == [out |-> <<>>, start |-> Head(s), last |-> Head(s)]
             end == FoldLeft(Group, first, ts)
             r == group_consecutive_numbers(numbers)
             Of(k) == {s[i] : i \in 1 .. k}
  <1>1. s \in Seq(Int) /\ Rising(s) /\ Range(s) = Range(numbers)
    BY SortedIs
  <1>2. CASE numbers = <<>>
    <2>1. r = <<>>
      BY <1>2 DEF group_consecutive_numbers
    <2>2. Range(numbers) = {}
      BY <1>2 DEF Range
    <2>3. <<>> \in Seq(Pairs) /\ Within(<<>>) = {} /\ Apart(<<>>)
      BY DEF Within, Apart
    <2> QED
      BY <2>1, <2>2, <2>3
  <1>3. CASE numbers # <<>>
    <2>1. s # <<>>
      <3>1. 1 \in DOMAIN numbers
        BY <1>3
      <3>2. Range(numbers) # {}
        BY <3>1 DEF Range
      <3>3. Range(<<>>) = {}
        BY DEF Range
      <3> HIDE DEF s
      <3> QED
        BY <1>1, <3>2, <3>3
    <2>2. r = Append(end.out, <<end.start, end.last>>)
      BY <1>3 DEF group_consecutive_numbers
    <2> HIDE DEF s, end, r
    <2>3. /\ Head(s) \in Int /\ Head(s) = s[1] /\ ts \in Seq(Int) /\ Len(s) = n + 1 /\ n \in Nat
          /\ \A i \in 1 .. n : ts[i] = s[i + 1]
      BY <1>1, <2>1
    <2>4. \A i \in 1 .. (n + 1) : s[i] \in Int
      BY <1>1, <2>3
    <2> HIDE DEF ts, n
    <2> DEFINE S == GroupStates
    <2>5. first \in S
      BY <2>3 DEF GroupStates
    <2>6. \A st \in S : \A t \in Int : Group(st, t) \in S
      <3> SUFFICES ASSUME NEW st \in S, NEW t \in Int PROVE Group(st, t) \in S
        OBVIOUS
      <3>1. st.out \in Seq(Pairs) /\ st.start \in Int /\ st.last \in Int
        BY DEF GroupStates
      <3>2. Append(st.out, <<st.start, st.last>>) \in Seq(Pairs)
        BY <3>1, AppendRange
      <3> QED
        BY <3>1, <3>2 DEF Group, GroupStates
    <2>7. PICK f \in [0 .. n -> S] : GroupLoop(f, first, ts)
      <3> HIDE DEF S, first
      <3> QED
        BY <2>3, <2>5, <2>6, GroupTurns DEF n
    <2>8. f[0] = first /\ end = f[n] /\ \A i \in 1 .. n : f[i] = Group(f[i - 1], ts[i])
      <3> HIDE DEF S, first
      <3> QED
        BY <2>7 DEF GroupLoop, n, end, first
    <2> DEFINE N == {k \in 0 .. n : Grouped(f[k], Of(k + 1)) /\ f[k].last = s[k + 1]}
    <2>9. 0 \in N
      <3>1. first.out = <<>> /\ first.start = s[1] /\ first.last = s[1]
        BY <2>3
      <3>2. s[1] \in Int
        BY <2>3, <2>4
      <3>3. s[1] .. s[1] = {s[1]} /\ Of(0 + 1) = {s[1]} /\ 0 + 1 = 1
        BY <3>2
      <3>4. <<>> \in Seq(Pairs) /\ Within(<<>>) = {} /\ Apart(<<>>)
        BY DEF Within, Apart
      <3>5. Apart(Append(<<>>, <<s[1], s[1]>>))
        BY <3>2, <3>4, AppendRange
      <3> HIDE DEF first, Of
      <3>6. Grouped(first, Of(0 + 1))
        BY <3>1, <3>2, <3>3, <3>4, <3>5 DEF Grouped
      <3> QED
        BY <2>3, <2>8, <3>1, <3>3, <3>6
    <2>10. ASSUME NEW k \in 1 .. n, k - 1 \in N PROVE k \in N
      <3>1. k - 1 \in 0 .. n /\ k \in 0 .. n /\ (k - 1) + 1 = k /\ k \in 1 .. (n + 1) /\ k + 1 \in 1 .. (n + 1)
        BY <2>3
      <3>2. f[k - 1] \in GroupStates /\ Grouped(f[k - 1], Of(k)) /\ f[k - 1].last = s[k] /\ f[k] = Group(f[k - 1], ts[k]) /\ ts[k] = s[k + 1]
        BY <2>3, <2>8, <2>10, <3>1
      <3>3. s[k] < s[k + 1] /\ s[k + 1] \in Int
        BY <1>1, <2>3, <2>4, <3>1 DEF Rising
      <3>4. Of(k + 1) = Of(k) \cup {s[k + 1]}
        <4>1. 1 .. (k + 1) = (1 .. k) \cup {k + 1}
          BY <2>3
        <4> QED
          BY <4>1
      <3> HIDE DEF Of
      <3>5. Grouped(f[k], Of(k + 1)) /\ f[k].last = s[k + 1]
        <4> DEFINE a == f[k - 1]
                   t == s[k + 1]
                   U == Of(k)
        <4>1. a \in GroupStates /\ Grouped(a, U) /\ t \in Int /\ a.last < t /\ f[k] = Group(a, t) /\ Of(k + 1) = U \cup {t}
          BY <3>2, <3>3, <3>4
        <4> HIDE DEF a, t, U
        <4>2. Grouped(Group(a, t), U \cup {t}) /\ Group(a, t).last = t
          BY <4>1, GroupKeeps
        <4> QED
          BY <4>1, <4>2 DEF t
      <3> QED
        BY <3>1, <3>5
    <2>11. n \in N /\ n \in 0 .. n
      <3> HIDE DEF N
      <3>1. \A k \in 0 .. n : k \in N
        BY <2>3, <2>9, <2>10, Turns
      <3> QED
        BY <2>3, <3>1
    <2>12. end \in GroupStates /\ Grouped(end, Of(n + 1))
      BY <2>8, <2>11
    <2>13. Of(n + 1) = Range(s)
      <3>1. DOMAIN s = 1 .. (n + 1)
        BY <1>1, <2>3
      <3> QED
        BY <3>1 DEF Range
    <2> HIDE DEF Of
    <2>14. end.out \in Seq(Pairs) /\ end.start \in Int /\ end.last \in Int
      BY <2>12 DEF GroupStates
    <2>15. r \in Seq(Pairs) /\ Within(r) = Within(end.out) \cup (end.start .. end.last)
      BY <2>2, <2>14, AppendRange
    <2>16. Within(r) = Range(numbers) /\ Apart(r)
      BY <1>1, <2>2, <2>12, <2>13, <2>15 DEF Grouped, s
    <2> QED
      BY <2>15, <2>16 DEF r
  <1> QED
    BY <1>2, <1>3

\* The coverage of a file, the lines of a report about some files, and the states of the
\* loop that reads it.
CovStates ==
  [lf : Nat, lh : Nat, bf : Nat, bh : Nat, lines : Seq(Int), branches : Seq(Nat \X Nat)]
DataLines(H) ==
  [k : {"FN"}] \cup [k : {"LF", "LH", "BRF", "BRH"}, n : Nat]
  \cup [k : {"DA"}, line : Int, hits : Nat] \cup [k : {"BRDA"}, line : Nat, branch : Nat, hits : H]
LcovLines(F, H) == [k : {"SF"}, f : F] \cup [k : {"end_of_record"}] \cup DataLines(H)
ReadStates(F) ==
  {st \in [cur : F \cup {NoFile}, data : UNION {[D -> CovStates] : D \in SUBSET F}] :
     st.cur # NoFile => st.cur \in DOMAIN st.data}

\* A line of a report leads from a coverage to a coverage.
LEMMA ParseTypes ==
  ASSUME NEW H, NEW cov \in CovStates, NEW l \in DataLines(H)
  PROVE  parse_lcov_data_line(cov, l) \in CovStates
  <1> DEFINE r == parse_lcov_data_line(cov, l)
  <1>1. CASE l \in [k : {"FN"}]
    <2>1. r = cov
      BY <1>1 DEF parse_lcov_data_line
    <2> QED
      BY <2>1
  <1>2. CASE l \in [k : {"LF", "LH", "BRF", "BRH"}, n : Nat]
    <2>1. l.n \in Nat /\ l.k \in {"LF", "LH", "BRF", "BRH"}
      BY <1>2
    <2>2. r \in {[cov EXCEPT !.lf = l.n], [cov EXCEPT !.lh = l.n], [cov EXCEPT !.bf = l.n], [cov EXCEPT !.bh = l.n]}
      BY <2>1 DEF parse_lcov_data_line
    <2> HIDE DEF r
    <2> QED
      BY <2>1, <2>2 DEF CovStates, r
  <1>3. CASE l \in [k : {"DA"}, line : Int, hits : Nat]
    <2>1. l.line \in Int /\ l.k = "DA"
      BY <1>3
    <2>2. r = [cov EXCEPT !.lines = IF l.hits = 0 THEN Append(@, l.line) ELSE @]
      BY <2>1 DEF parse_lcov_data_line
    <2>3. cov.lines \in Seq(Int) /\ Append(cov.lines, l.line) \in Seq(Int)
      BY <2>1 DEF CovStates
    <2> HIDE DEF r
    <2> QED
      BY <2>2, <2>3 DEF CovStates, r
  <1>4. CASE l \in [k : {"BRDA"}, line : Nat, branch : Nat, hits : H]
    <2> DEFINE p == <<l.line, l.branch>>
    <2>1. p \in Nat \X Nat /\ l.k = "BRDA"
      BY <1>4
    <2>2. r = [cov EXCEPT !.branches = IF l.hits = "-" THEN Append(@, p) ELSE @]
      BY <2>1 DEF parse_lcov_data_line
    <2> HIDE DEF r, p
    <2>3. cov.branches \in Seq(Nat \X Nat) /\ Append(cov.branches, p) \in Seq(Nat \X Nat)
      BY <2>1 DEF CovStates
    <2> QED
      BY <2>2, <2>3 DEF CovStates, r
  <1> QED
    BY <1>1, <1>2, <1>3, <1>4 DEF DataLines

\* The line of a file that is being read changes its coverage and no other.
DataLine(st, l, r) ==
  /\ r.cur = st.cur /\ DOMAIN r.data = DOMAIN st.data
  /\ \A f \in DOMAIN st.data : r.data[f] = IF f = st.cur THEN parse_lcov_data_line(st.data[f], l) ELSE st.data[f]

\* The first line of a file.
FirstLine(st, l, r) ==
  /\ r.cur = l.f /\ DOMAIN r.data = DOMAIN st.data \cup {l.f}
  /\ \A f \in DOMAIN r.data : r.data[f] = IF f = l.f THEN NewCoverage ELSE st.data[f]

\* What a line of the report does: it begins a file, ends one or adds to one.
LEMMA ReadTypes ==
  ASSUME NEW F, NoFile \notin F, NEW H, NEW st \in ReadStates(F), NEW l \in LcovLines(F, H)
  PROVE  LET r == ReadLine(st, l)
         IN  /\ r \in ReadStates(F)
             /\ l.k = "SF" => FirstLine(st, l, r)
             /\ l.k = "end_of_record" => r.cur = NoFile /\ r.data = st.data
             /\ l \in DataLines(H) /\ st.cur # NoFile => DataLine(st, l, r)
  <1> DEFINE r == ReadLine(st, l)
             T == [cur : F \cup {NoFile}, data : UNION {[D -> CovStates] : D \in SUBSET F}]
  <1>1. PICK D \in SUBSET F : st.data \in [D -> CovStates]
    BY DEF ReadStates
  <1>2. st.cur \in F \cup {NoFile} /\ (st.cur # NoFile => st.cur \in D) /\ st = [cur |-> st.cur, data |-> st.data]
    BY <1>1 DEF ReadStates
  <1>3. NewCoverage \in CovStates
    BY DEF NewCoverage, CovStates
  <1>4. CASE l \in [k : {"SF"}, f : F]
    <2> DEFINE E == D \cup {l.f}
               d == [f \in DOMAIN st.data \cup {l.f} |-> IF f = l.f THEN NewCoverage ELSE st.data[f]]
    <2>1. l.k = "SF" /\ l.f \in F
      BY <1>4
    <2>2. r = [cur |-> l.f, data |-> d]
      BY <2>1 DEF ReadLine
    <2>3. d \in [E -> CovStates] /\ DOMAIN d = E /\ \A f \in E : d[f] = IF f = l.f THEN NewCoverage ELSE st.data[f]
      BY <1>1, <1>3
    <2>4. E \in SUBSET F /\ l.f \in E
      BY <2>1
    <2> HIDE DEF d, E, r
    <2>5. r \in T /\ r.cur = l.f /\ r.data = d
      BY <2>1, <2>2, <2>3, <2>4
    <2>6. r \in ReadStates(F)
      <3> HIDE DEF T
      <3> QED
        BY <2>3, <2>4, <2>5 DEF ReadStates, T
    <2>7. FirstLine(st, l, r)
      BY <1>1, <2>3, <2>5 DEF FirstLine, E
    <2> QED
      BY <2>1, <2>6, <2>7 DEF r, DataLines
  <1>5. CASE l \in [k : {"end_of_record"}]
    <2>1. l.k = "end_of_record"
      BY <1>5
    <2>2. r = [st EXCEPT !.cur = NoFile]
      BY <2>1 DEF ReadLine
    <2>3. r = [cur |-> NoFile, data |-> st.data]
      BY <1>2, <2>2
    <2> HIDE DEF r
    <2>4. r.cur = NoFile /\ r.data = st.data
      BY <2>3
    <2>5. r \in ReadStates(F)
      BY <1>1, <2>3, <2>4 DEF ReadStates
    <2> QED
      BY <2>1, <2>4, <2>5 DEF r, DataLines
  <1>6. CASE l \in DataLines(H)
    <2>1. l.k \notin {"SF", "end_of_record"}
      BY <1>6 DEF DataLines
    <2>2. CASE st.cur = NoFile
      <3>1. r = st
        BY <2>1, <2>2 DEF ReadLine
      <3> QED
        BY <2>1, <2>2, <3>1
    <2>3. CASE st.cur # NoFile
      <3> DEFINE c == st.cur
                 p == parse_lcov_data_line(st.data[c], l)
                 d == [st.data EXCEPT ![c] = p]
      <3>1. r = [st EXCEPT !.data = d]
        BY <2>1, <2>3 DEF ReadLine
      <3>2. c \in D /\ st.data[c] \in CovStates
        BY <1>1, <1>2, <2>3
      <3>3. p \in CovStates
        BY <1>6, <3>2, ParseTypes
      <3> HIDE DEF p
      <3>4. d \in [D -> CovStates] /\ \A f \in D : d[f] = IF f = c THEN p ELSE st.data[f]
        BY <1>1, <3>2, <3>3
      <3>5. r = [cur |-> c, data |-> d]
        BY <1>2, <3>1
      <3> HIDE DEF r, d
      <3>6. r.cur = c /\ r.data = d
        BY <3>5
      <3>7. r \in ReadStates(F)
        BY <1>1, <1>2, <3>2, <3>4, <3>5, <3>6 DEF ReadStates
      <3>8. DataLine(st, l, r)
        BY <1>1, <3>4, <3>6 DEF DataLine, p
      <3> QED
        BY <2>1, <3>7, <3>8 DEF r
    <2> QED
      BY <2>2, <2>3
  <1> QED
    BY <1>4, <1>5, <1>6 DEF LcovLines

ReadAll(st, s) == FoldLeft(ReadLine, st, s)

\* A report that goes on is read from where the first part of it has led to.
LEMMA ReadConcat ==
  ASSUME NEW F, NoFile \notin F, NEW H, NEW st \in ReadStates(F),
         NEW s \in Seq(LcovLines(F, H)), NEW t \in Seq(LcovLines(F, H))
  PROVE  ReadAll(st, s) \in ReadStates(F) /\ ReadAll(st, s \o t) = ReadAll(ReadAll(st, s), t)
  <1> DEFINE X == LcovLines(F, H)
             S == ReadStates(F)
             u == s \o t
             m == Len(s)
             n == Len(t)
  <1>1. \A x \in S : \A l \in X : ReadLine(x, l) \in S
    BY ReadTypes
  <1> HIDE DEF X, S
  <1>2. /\ m \in Nat /\ n \in Nat /\ u \in Seq(X) /\ Len(u) = m + n
        /\ \A i \in 1 .. m + n : u[i] = IF i <= m THEN s[i] ELSE t[i - m]
    BY ConcatProperties DEF X
  <1>3. s \in Seq(X) /\ t \in Seq(X) /\ st \in S
    BY DEF X, S
  <1>4. PICK f \in [0 .. m -> S] : ReadLoop(f, st, s)
    BY <1>1, <1>3, ReadTurns
  <1>5. f[0] = st /\ ReadAll(st, s) = f[m] /\ \A i \in 1 .. m : f[i] = ReadLine(f[i - 1], s[i])
    BY <1>4 DEF ReadLoop, ReadAll
  <1> HIDE DEF u, m, n
  <1>6. f[m] \in S
    BY <1>2
  <1>7. PICK g \in [0 .. n -> S] : ReadLoop(g, f[m], t)
    BY <1>1, <1>3, <1>6, ReadTurns DEF n
  <1>8. g[0] = f[m] /\ ReadAll(f[m], t) = g[n] /\ \A i \in 1 .. n : g[i] = ReadLine(g[i - 1], t[i])
    BY <1>7 DEF ReadLoop, ReadAll, n
  <1>9. PICK h \in [0 .. Len(u) -> S] : ReadLoop(h, st, u)
    BY <1>1, <1>2, <1>3, ReadTurns
  <1>10. h[0] = st /\ ReadAll(st, u) = h[m + n] /\ \A i \in 1 .. m + n : h[i] = ReadLine(h[i - 1], u[i])
    BY <1>2, <1>9 DEF ReadLoop, ReadAll
  <1> DEFINE N == {i \in 0 .. m + n : h[i] = IF i <= m THEN f[i] ELSE g[i - m]}
  <1>11. 0 \in N
    BY <1>2, <1>5, <1>10
  <1>12. ASSUME NEW i \in 1 .. m + n, i - 1 \in N PROVE i \in N
    <2>1. h[i] = ReadLine(h[i - 1], u[i]) /\ i \in 0 .. m + n
      BY <1>2, <1>10
    <2>2. CASE i <= m
      <3>1. i \in 1 .. m /\ h[i - 1] = f[i - 1] /\ u[i] = s[i]
        BY <1>2, <1>12, <2>2
      <3> QED
        BY <1>5, <2>1, <2>2, <3>1
    <2>3. CASE ~(i <= m)
      <3>1. i - m \in 1 .. n /\ u[i] = t[i - m] /\ (i - m) - 1 = (i - 1) - m
        BY <1>2, <2>3
      <3>2. h[i - 1] = g[(i - m) - 1]
        <4>1. CASE i - 1 <= m
          <5>1. i - 1 = m /\ (i - m) - 1 = 0
            BY <1>2, <2>3, <4>1
          <5> QED
            BY <1>8, <1>12, <4>1, <5>1
        <4>2. CASE ~(i - 1 <= m)
          BY <1>12, <3>1, <4>2
        <4> QED
          BY <4>1, <4>2
      <3> QED
        BY <1>8, <2>1, <2>3, <3>1, <3>2
    <2> QED
      BY <2>2, <2>3
  <1>13. m + n \in N
    <2>1. m + n \in Nat /\ m + n \in 0 .. m + n
      BY <1>2
    <2> HIDE DEF N
    <2>2. \A i \in 0 .. m + n : i \in N
      BY <1>11, <1>12, <2>1, Turns
    <2> QED
      BY <2>1, <2>2
  <1>14. h[m + n] = g[n]
    <2>1. CASE n = 0
      BY <1>2, <1>8, <1>13, <2>1
    <2>2. CASE n # 0
      BY <1>2, <1>13, <2>2
    <2> QED
      BY <2>1, <2>2
  <1> QED
    BY <1>5, <1>6, <1>8, <1>10, <1>14 DEF u, S

\* The record of a file is being read after the data d of others: its coverage so far is c.
Inside(st, d, f, c) ==
  /\ st.cur = f /\ f # NoFile /\ DOMAIN st.data = DOMAIN d \cup {f} /\ st.data[f] = c
  /\ \A g \in DOMAIN d \ {f} : st.data[g] = d[g]

\* A line of the record changes the coverage of its file.
LEMMA InsideStep ==
  ASSUME NEW F, NoFile \notin F, NEW H, NEW st \in ReadStates(F), NEW l \in DataLines(H),
         NEW d, NEW f, NEW c, Inside(st, d, f, c)
  PROVE  ReadLine(st, l) \in ReadStates(F) /\ Inside(ReadLine(st, l), d, f, parse_lcov_data_line(c, l))
  <1> DEFINE r == ReadLine(st, l)
  <1>1. l \in LcovLines(F, H)
    BY DEF LcovLines
  <1>2. r \in ReadStates(F) /\ DataLine(st, l, r)
    BY <1>1, ReadTypes DEF Inside
  <1> HIDE DEF r
  <1>3. Inside(r, d, f, parse_lcov_data_line(c, l))
    BY <1>2 DEF Inside, DataLine
  <1> QED
    BY <1>2, <1>3 DEF r

\* The coverage of the file that is being read is one.
LEMMA InsideCov ==
  ASSUME NEW F, NEW st \in ReadStates(F), NEW d, NEW f, NEW c, Inside(st, d, f, c)
  PROVE  c \in CovStates
  <1>1. PICK D \in SUBSET F : st.data \in [D -> CovStates]
    BY DEF ReadStates
  <1> QED
    BY <1>1 DEF Inside

\* The states of the reading of some lines.
ReadPath(h, st, s) ==
  h[0] = st /\ ReadAll(st, s) = h[Len(s)] /\ \A i \in 1 .. Len(s) : h[i] = ReadLine(h[i - 1], s[i])

\* Every reading has such states.
LEMMA HasReadPath ==
  ASSUME NEW F, NoFile \notin F, NEW H, NEW st \in ReadStates(F), NEW s \in Seq(LcovLines(F, H))
  PROVE  \E h \in [0 .. Len(s) -> ReadStates(F)] : ReadPath(h, st, s)
  <1> DEFINE X == LcovLines(F, H)
             S == ReadStates(F)
  <1>1. \A x \in S : \A y \in X : ReadLine(x, y) \in S
    BY ReadTypes
  <1>2. s \in Seq(X) /\ st \in S
    OBVIOUS
  <1> HIDE DEF X, S
  <1>3. PICK h \in [0 .. Len(s) -> S] : ReadLoop(h, st, s)
    BY <1>1, <1>2, ReadTurns
  <1>4. ReadPath(h, st, s)
    BY <1>3 DEF ReadLoop, ReadAll, ReadPath
  <1> QED
    BY <1>4 DEF S

\* Two data lines of a record.
LEMMA ReadTwo ==
  ASSUME NEW F, NoFile \notin F, NEW H, NEW st \in ReadStates(F), NEW l \in DataLines(H), NEW m \in DataLines(H),
         NEW d, NEW f, NEW c, Inside(st, d, f, c)
  PROVE  /\ ReadAll(st, <<l, m>>) \in ReadStates(F)
         /\ Inside(ReadAll(st, <<l, m>>), d, f, parse_lcov_data_line(parse_lcov_data_line(c, l), m))
  <1> DEFINE a == ReadLine(st, l)
             X == LcovLines(F, H)
             s == <<l, m>>
  <1>1. a \in ReadStates(F) /\ Inside(a, d, f, parse_lcov_data_line(c, l))
    BY InsideStep
  <1>2. ReadLine(a, m) \in ReadStates(F)
        /\ Inside(ReadLine(a, m), d, f, parse_lcov_data_line(parse_lcov_data_line(c, l), m))
    <2> HIDE DEF a
    <2> QED
      BY <1>1, InsideStep
  <1>3. l \in X /\ m \in X
    BY DEF LcovLines
  <1>4. s \in Seq(X) /\ Len(s) = 2 /\ s[1] = l /\ s[2] = m
    <2> HIDE DEF X
    <2> QED
      BY <1>3
  <1> HIDE DEF s, X
  <1>5. PICK h \in [0 .. Len(s) -> ReadStates(F)] : ReadPath(h, st, s)
    BY <1>4, HasReadPath DEF X
  <1>6. 1 - 1 = 0 /\ 2 - 1 = 1 /\ 1 \in 1 .. 2 /\ 2 \in 1 .. 2
    OBVIOUS
  <1>7. ReadAll(st, s) = ReadLine(a, m)
    BY <1>4, <1>5, <1>6 DEF ReadPath
  <1> QED
    BY <1>2, <1>7 DEF s

\* The first lines of a record.
LEMMA ReadHead ==
  ASSUME NEW F, NoFile \notin F, NEW H, NEW st \in ReadStates(F), NEW f \in F
  PROVE  LET r == ReadAll(st, <<[k |-> "SF", f |-> f], [k |-> "FN"]>>)
         IN  r \in ReadStates(F) /\ Inside(r, st.data, f, NewCoverage)
  <1> DEFINE l == [k |-> "SF", f |-> f]
             m == [k |-> "FN"]
             s == <<l, m>>
             a == ReadLine(st, l)
             X == LcovLines(F, H)
  <1>1. l \in X /\ m \in X /\ m \in DataLines(H) /\ l.k = "SF" /\ l.f = f /\ m.k = "FN"
    BY DEF LcovLines, DataLines
  <1> HIDE DEF l, m
  <1>2. a \in ReadStates(F) /\ FirstLine(st, l, a)
    BY <1>1, ReadTypes
  <1> HIDE DEF a
  <1>3. Inside(a, st.data, f, NewCoverage)
    <2>1. f # NoFile
      OBVIOUS
    <2> QED
      BY <1>1, <1>2, <2>1 DEF FirstLine, Inside
  <1>4. parse_lcov_data_line(NewCoverage, m) = NewCoverage
    BY <1>1 DEF parse_lcov_data_line
  <1>5. ReadLine(a, m) \in ReadStates(F) /\ Inside(ReadLine(a, m), st.data, f, NewCoverage)
    BY <1>1, <1>2, <1>3, <1>4, InsideStep
  <1>6. s \in Seq(X) /\ Len(s) = 2 /\ s[1] = l /\ s[2] = m
    <2> HIDE DEF X
    <2> QED
      BY <1>1
  <1> HIDE DEF s, X
  <1>7. PICK h \in [0 .. Len(s) -> ReadStates(F)] : ReadPath(h, st, s)
    BY <1>6, HasReadPath DEF X
  <1>8. 1 - 1 = 0 /\ 2 - 1 = 1 /\ 1 \in 1 .. 2 /\ 2 \in 1 .. 2
    OBVIOUS
  <1>9. ReadAll(st, s) = ReadLine(a, m)
    BY <1>6, <1>7, <1>8 DEF ReadPath, a
  <1> QED
    BY <1>5, <1>9 DEF s, l, m

\* The record is over.
Recorded(st, d, f, c) ==
  /\ st.cur = NoFile /\ DOMAIN st.data = DOMAIN d \cup {f} /\ st.data[f] = c
  /\ \A g \in DOMAIN d \ {f} : st.data[g] = d[g]

\* The last lines of a record.
LEMMA ReadEnd ==
  ASSUME NEW F, NoFile \notin F, NEW H, NEW st \in ReadStates(F), NEW l \in DataLines(H), NEW m \in DataLines(H),
         NEW d, NEW f, NEW c, Inside(st, d, f, c)
  PROVE  LET r == ReadAll(st, <<l, m, [k |-> "end_of_record"]>>)
         IN  r \in ReadStates(F) /\ Recorded(r, d, f, parse_lcov_data_line(parse_lcov_data_line(c, l), m))
  <1> DEFINE e == [k |-> "end_of_record"]
             s == <<l, m, e>>
             X == LcovLines(F, H)
             c2 == parse_lcov_data_line(parse_lcov_data_line(c, l), m)
             a == ReadLine(st, l)
             b == ReadLine(a, m)
  <1>1. l \in X /\ m \in X /\ e \in X /\ e.k = "end_of_record"
    BY DEF LcovLines
  <1> HIDE DEF e
  <1>2. a \in ReadStates(F) /\ Inside(a, d, f, parse_lcov_data_line(c, l))
    BY InsideStep
  <1> HIDE DEF a
  <1>3. b \in ReadStates(F) /\ Inside(b, d, f, c2)
    BY <1>2, InsideStep
  <1> HIDE DEF b
  <1>4. LET r == ReadLine(b, e) IN r \in ReadStates(F) /\ r.cur = NoFile /\ r.data = b.data
    BY <1>1, <1>3, ReadTypes
  <1>5. Recorded(ReadLine(b, e), d, f, c2)
    <2> HIDE DEF c2
    <2> QED
      BY <1>3, <1>4 DEF Recorded, Inside
  <1>6. s \in Seq(X) /\ Len(s) = 3 /\ s[1] = l /\ s[2] = m /\ s[3] = e
    <2> HIDE DEF X
    <2> QED
      BY <1>1
  <1> HIDE DEF s, X
  <1>7. PICK h \in [0 .. Len(s) -> ReadStates(F)] : ReadPath(h, st, s)
    BY <1>6, HasReadPath DEF X
  <1>8. 1 - 1 = 0 /\ 2 - 1 = 1 /\ 3 - 1 = 2 /\ 1 \in 1 .. 3 /\ 2 \in 1 .. 3 /\ 3 \in 1 .. 3
    OBVIOUS
  <1>9. ReadAll(st, s) = ReadLine(b, e)
    BY <1>6, <1>7, <1>8 DEF ReadPath, a, b
  <1> QED
    BY <1>4, <1>5, <1>9 DEF s, e
\* What the tests have covered of a file, as far as the report tells it.
CovOf(F, H, cov) ==
  /\ cov.file \in F /\ cov.branches \in Seq(H) /\ cov.lines \in Seq([line : Int, hits : Nat])
  /\ \A i, k \in DOMAIN cov.lines : cov.lines[i].line = cov.lines[k].line => i = k

\* The branches that were never reached, and the lines that were not hit, of the first n.
Unreached(cov, n) == {k \in 1 .. n : cov.branches[k] = "-"}
Unhit(cov, n) == {cov.lines[k].line : k \in {i \in 1 .. n : cov.lines[i].hits = 0}}

\* They are what has been noted.
BranchesNoted(c, cov, n) == {c.branches[k][2] : k \in DOMAIN c.branches} = Unreached(cov, n)
LinesNoted(c, cov, n) ==
  /\ Range(c.lines) = Unhit(cov, n)
  /\ \A i, j \in 1 .. Len(c.lines) : c.lines[i] = c.lines[j] => i = j

\* The parts of the record about the branches and about the lines.
BranchLines(cov) == [i \in 1..Len(cov.branches) |->
        [k |-> "BRDA", line |-> 1, branch |-> i, hits |-> cov.branches[i]]]
HitsLines(cov) == [i \in 1..Len(cov.lines) |->
        [k |-> "DA", line |-> cov.lines[i].line, hits |-> cov.lines[i].hits]]

\* A line about a branch notes it, if it was never reached.
LEMMA NoteBranch ==
  ASSUME NEW F, NEW H, NEW cov, CovOf(F, H, cov), NEW n \in 1 .. Len(cov.branches), NEW c \in CovStates,
         BranchesNoted(c, cov, n - 1)
  PROVE  LET l == BranchLines(cov)[n]
             r == parse_lcov_data_line(c, l)
         IN  /\ l \in DataLines(H) /\ BranchesNoted(r, cov, n)
             /\ r.lines = c.lines /\ r.lf = c.lf /\ r.lh = c.lh /\ r.bf = c.bf /\ r.bh = c.bh
  <1> DEFINE l == BranchLines(cov)[n]
             r == parse_lcov_data_line(c, l)
             p == <<1, n>>
  <1>1. n \in Nat /\ cov.branches[n] \in H
    BY DEF CovOf
  <1>2. l = [k |-> "BRDA", line |-> 1, branch |-> n, hits |-> cov.branches[n]]
    BY DEF BranchLines
  <1> HIDE DEF l
  <1>3. l.k = "BRDA" /\ l.line = 1 /\ l.branch = n /\ l.hits = cov.branches[n]
    BY <1>2
  <1>4. l \in DataLines(H)
    BY <1>1, <1>2 DEF DataLines
  <1>5. r = [c EXCEPT !.branches = IF cov.branches[n] = "-" THEN Append(@, p) ELSE @]
    BY <1>3 DEF parse_lcov_data_line
  <1> HIDE DEF r
  <1>6. /\ r.branches = IF cov.branches[n] = "-" THEN Append(c.branches, p) ELSE c.branches
        /\ r.lines = c.lines /\ r.lf = c.lf /\ r.lh = c.lh /\ r.bf = c.bf /\ r.bh = c.bh
    <2> HIDE DEF p
    <2> QED
      BY <1>5 DEF CovStates
  <1>7. BranchesNoted(r, cov, n)
    <2>0. 1 .. n = (1 .. (n - 1)) \cup {n}
      BY <1>1
    <2>1. CASE cov.branches[n] = "-"
      <3> DEFINE b == c.branches
                 q == Append(b, p)
      <3>1. b \in Seq(Nat \X Nat) /\ p \in Nat \X Nat /\ p[2] = n
        BY <1>1 DEF CovStates
      <3>2. r.branches = q
        BY <1>6, <2>1
      <3> HIDE DEF b, p
      <3>3. /\ Len(b) \in Nat /\ DOMAIN b = 1 .. Len(b) /\ DOMAIN q = 1 .. (Len(b) + 1)
            /\ q[Len(b) + 1] = p /\ \A k \in 1 .. Len(b) : q[k] = b[k]
        BY <3>1
      <3>4. 1 .. (Len(b) + 1) = (1 .. Len(b)) \cup {Len(b) + 1}
        BY <3>3
      <3> HIDE DEF q
      <3>5. {q[k][2] : k \in DOMAIN q} = {b[k][2] : k \in DOMAIN b} \cup {n}
        <4>1. q[Len(b) + 1][2] = n /\ \A k \in 1 .. Len(b) : q[k][2] = b[k][2]
          BY <3>1, <3>3
        <4> DEFINE v(k) == q[k][2]
                   w(k) == b[k][2]
        <4>2. v(Len(b) + 1) = n /\ \A k \in 1 .. Len(b) : v(k) = w(k)
          BY <4>1
        <4> HIDE DEF v, w
        <4>3. {v(k) : k \in (1 .. Len(b)) \cup {Len(b) + 1}} = {w(k) : k \in 1 .. Len(b)} \cup {n}
          BY <4>2
        <4> QED
          BY <3>3, <3>4, <4>3 DEF v, w
      <3>6. {b[k][2] : k \in DOMAIN b} = Unreached(cov, n - 1)
        BY DEF BranchesNoted, b
      <3>7. Unreached(cov, n) = Unreached(cov, n - 1) \cup {n}
        BY <2>0, <2>1 DEF Unreached
      <3> QED
        BY <3>2, <3>5, <3>6, <3>7 DEF BranchesNoted
    <2>2. CASE cov.branches[n] # "-"
      <3>1. r.branches = c.branches
        BY <1>6, <2>2
      <3>2. Unreached(cov, n) = Unreached(cov, n - 1)
        BY <2>0, <2>2 DEF Unreached
      <3> QED
        BY <3>1, <3>2 DEF BranchesNoted
    <2> QED
      BY <2>1, <2>2
  <1> QED
    BY <1>4, <1>6, <1>7 DEF l, r

\* A line about a line notes it, if it was not hit, and no line twice.
LEMMA NoteLine ==
  ASSUME NEW F, NEW H, NEW cov, CovOf(F, H, cov), NEW n \in 1 .. Len(cov.lines), NEW c \in CovStates,
         LinesNoted(c, cov, n - 1)
  PROVE  LET l == HitsLines(cov)[n]
             r == parse_lcov_data_line(c, l)
         IN  /\ l \in DataLines(H) /\ LinesNoted(r, cov, n)
             /\ r.branches = c.branches /\ r.lf = c.lf /\ r.lh = c.lh /\ r.bf = c.bf /\ r.bh = c.bh
  <1> DEFINE l == HitsLines(cov)[n]
             r == parse_lcov_data_line(c, l)
             x == cov.lines[n].line
             z == cov.lines[n].hits
  <1>0. DOMAIN cov.lines = 1 .. Len(cov.lines) /\ Len(cov.lines) \in Nat /\ n \in Nat
    BY DEF CovOf
  <1>1. x \in Int /\ z \in Nat
    <2> DEFINE R == [line : Int, hits : Nat]
               s == cov.lines
    <2>0. s \in Seq(R)
      BY DEF CovOf
    <2>1. cov.lines[n] \in R
      <3> HIDE DEF R, s
      <3> QED
        BY <1>0, <2>0 DEF s
    <2> QED
      BY <2>1
  <1>2. l = [k |-> "DA", line |-> x, hits |-> z]
    BY DEF HitsLines
  <1> HIDE DEF l
  <1>3. l.k = "DA" /\ l.line = x /\ l.hits = z
    BY <1>2
  <1>4. l \in DataLines(H)
    <2> HIDE DEF x, z
    <2> QED
      BY <1>1, <1>2 DEF DataLines
  <1>5. r = [c EXCEPT !.lines = IF z = 0 THEN Append(@, x) ELSE @]
    BY <1>3 DEF parse_lcov_data_line
  <1> HIDE DEF r
  <1>6. /\ r.lines = IF z = 0 THEN Append(c.lines, x) ELSE c.lines
        /\ r.branches = c.branches /\ r.lf = c.lf /\ r.lh = c.lh /\ r.bf = c.bf /\ r.bh = c.bh
    <2> HIDE DEF x, z
    <2> QED
      BY <1>5 DEF CovStates
  <1>7. LinesNoted(r, cov, n)
    <2>0. 1 .. n = (1 .. (n - 1)) \cup {n} /\ \A i \in 1 .. (n - 1) : i \in DOMAIN cov.lines /\ i # n
      BY <1>0
    <2>1. CASE z = 0
      <3> DEFINE b == c.lines
                 q == Append(b, x)
      <3>1. b \in Seq(Int)
        BY DEF CovStates
      <3>2. r.lines = q
        BY <1>6, <2>1
      <3>3. Range(b) = Unhit(cov, n - 1) /\ \A i, j \in 1 .. Len(b) : b[i] = b[j] => i = j
        BY DEF LinesNoted
      <3>4. x \notin Unhit(cov, n - 1)
        BY <1>0, <2>0 DEF Unhit, CovOf
      <3>5. Unhit(cov, n) = Unhit(cov, n - 1) \cup {x}
        BY <2>0, <2>1 DEF Unhit
      <3> HIDE DEF b, x
      <3>6. /\ Len(b) \in Nat /\ DOMAIN b = 1 .. Len(b) /\ DOMAIN q = 1 .. (Len(b) + 1) /\ Len(q) = Len(b) + 1
            /\ q[Len(b) + 1] = x /\ \A k \in 1 .. Len(b) : q[k] = b[k]
        BY <1>1, <3>1
      <3>7. 1 .. (Len(b) + 1) = (1 .. Len(b)) \cup {Len(b) + 1}
        BY <3>6
      <3> HIDE DEF q
      <3>8. Range(q) = Range(b) \cup {x}
        BY <3>6, <3>7 DEF Range
      <3>9. \A k \in 1 .. Len(b) : b[k] \in Range(b)
        BY <3>6 DEF Range
      <3>10. \A i, j \in 1 .. Len(q) : q[i] = q[j] => i = j
        BY <3>3, <3>4, <3>6, <3>7, <3>9
      <3> QED
        BY <3>2, <3>3, <3>5, <3>8, <3>10 DEF LinesNoted
    <2>2. CASE z # 0
      <3>1. r.lines = c.lines
        BY <1>6, <2>2
      <3>2. Unhit(cov, n) = Unhit(cov, n - 1)
        BY <2>0, <2>2 DEF Unhit
      <3> QED
        BY <3>1, <3>2 DEF LinesNoted
    <2> QED
      BY <2>1, <2>2
  <1> QED
    BY <1>4, <1>6, <1>7 DEF l, r
\* The lines about the branches note those that were never reached.
LEMMA ReadBranches ==
  ASSUME NEW F, NoFile \notin F, NEW H, NEW cov, CovOf(F, H, cov), NEW st \in ReadStates(F), NEW d, NEW f,
         Inside(st, d, f, NewCoverage)
  PROVE  LET r == ReadAll(st, BranchLines(cov))
         IN  /\ BranchLines(cov) \in Seq(LcovLines(F, H)) /\ r \in ReadStates(F)
             /\ \E c \in CovStates : /\ Inside(r, d, f, c) /\ BranchesNoted(c, cov, Len(cov.branches))
                                     /\ c.lines = <<>>
  <1> DEFINE s == BranchLines(cov)
             n == Len(cov.branches)
             X == LcovLines(F, H)
             S == ReadStates(F)
             Done2(i, c) == BranchesNoted(c, cov, i) /\ c.lines = <<>>
             Ok(i, x) == \E c \in CovStates : Inside(x, d, f, c) /\ Done2(i, c)
  <1>1. n \in Nat /\ Len(s) = n
    BY DEF CovOf, BranchLines
  <1>2. s \in Seq(X)
    <2>1. ASSUME NEW i \in 1 .. n PROVE s[i] \in X
      <3>1. s[i] = [k |-> "BRDA", line |-> 1, branch |-> i, hits |-> cov.branches[i]] /\ cov.branches[i] \in H /\ i \in Nat
        BY DEF CovOf, BranchLines
      <3> QED
        BY <3>1 DEF LcovLines, DataLines
    <2>2. s = [i \in 1 .. n |-> s[i]]
      BY DEF BranchLines
    <2> HIDE DEF s, n, X
    <2> QED
      BY <1>1, <2>1, <2>2
  <1>3. PICK h \in [0 .. Len(s) -> S] : ReadPath(h, st, s)
    <2> HIDE DEF s
    <2> QED
      BY <1>2, HasReadPath
  <1>4. h \in [0 .. n -> S] /\ h[0] = st /\ ReadAll(st, s) = h[n] /\ \A i \in 1 .. n : h[i] = ReadLine(h[i - 1], s[i])
    <2> HIDE DEF s, n, S
    <2> QED
      BY <1>1, <1>3 DEF ReadPath
  <1> DEFINE N == {i \in 0 .. n : Ok(i, h[i])}
  <1>5. 0 \in N
    <2>1. NewCoverage \in CovStates /\ NewCoverage.lines = <<>> /\ NewCoverage.branches = <<>>
      BY DEF NewCoverage, CovStates
    <2>2. BranchesNoted(NewCoverage, cov, 0)
      BY <2>1 DEF BranchesNoted, Unreached
    <2> QED
      BY <1>1, <1>4, <2>1, <2>2
  <1>6. ASSUME NEW i \in 1 .. n, i - 1 \in N PROVE i \in N
    <2>1. PICK c \in CovStates : Inside(h[i - 1], d, f, c) /\ Done2(i - 1, c)
      BY <1>6
    <2> DEFINE l == s[i]
               c2 == parse_lcov_data_line(c, l)
    <2>2. l \in DataLines(H) /\ BranchesNoted(c2, cov, i) /\ c2.lines = <<>>
      BY <2>1, NoteBranch
    <2> HIDE DEF l
    <2>3. h[i - 1] \in S /\ h[i] = ReadLine(h[i - 1], l)
      BY <1>1, <1>4 DEF l
    <2>4. Inside(h[i], d, f, c2)
      BY <2>1, <2>2, <2>3, InsideStep
    <2>5. c2 \in CovStates
      BY <2>2, ParseTypes
    <2> HIDE DEF c2
    <2>6. Ok(i, h[i])
      BY <2>2, <2>4, <2>5
    <2> QED
      BY <1>1, <2>6
  <1>7. n \in N
    <2> HIDE DEF N, n
    <2>1. \A i \in 0 .. n : i \in N
      BY <1>1, <1>5, <1>6, Turns
    <2> QED
      BY <1>1, <2>1
  <1> QED
    BY <1>1, <1>2, <1>4, <1>7

\* The lines about the lines note those that were not hit.
LEMMA ReadHits ==
  ASSUME NEW F, NoFile \notin F, NEW H, NEW cov, CovOf(F, H, cov), NEW st \in ReadStates(F), NEW d, NEW f,
         NEW c0 \in CovStates, c0.lines = <<>>, Inside(st, d, f, c0)
  PROVE  LET r == ReadAll(st, HitsLines(cov))
         IN  /\ HitsLines(cov) \in Seq(LcovLines(F, H)) /\ r \in ReadStates(F)
             /\ \E c \in CovStates : /\ Inside(r, d, f, c) /\ LinesNoted(c, cov, Len(cov.lines))
                                     /\ c.branches = c0.branches /\ c.bf = c0.bf /\ c.bh = c0.bh
  <1> DEFINE s == HitsLines(cov)
             n == Len(cov.lines)
             X == LcovLines(F, H)
             S == ReadStates(F)
             Done2(i, c) == LinesNoted(c, cov, i) /\ c.branches = c0.branches /\ c.bf = c0.bf /\ c.bh = c0.bh
             Ok(i, x) == \E c \in CovStates : Inside(x, d, f, c) /\ Done2(i, c)
  <1>1. n \in Nat /\ Len(s) = n
    BY DEF CovOf, HitsLines
  <1>2. s \in Seq(X)
    <2>1. ASSUME NEW i \in 1 .. n PROVE s[i] \in X
      <3> DEFINE R == [line : Int, hits : Nat]
                 a == cov.lines
      <3>1. a \in Seq(R)
        BY DEF CovOf
      <3>2. a[i] \in R
        <4> HIDE DEF R, a
        <4> QED
          BY <3>1 DEF a
      <3>3. s[i] = [k |-> "DA", line |-> cov.lines[i].line, hits |-> cov.lines[i].hits]
        BY DEF HitsLines
      <3>4. cov.lines[i].line \in Int /\ cov.lines[i].hits \in Nat
        BY <3>2
      <3> HIDE DEF s
      <3> QED
        BY <3>3, <3>4 DEF LcovLines, DataLines
    <2>2. s = [i \in 1 .. n |-> s[i]]
      BY DEF HitsLines
    <2> HIDE DEF s, n, X
    <2> QED
      BY <1>1, <2>1, <2>2
  <1>3. PICK h \in [0 .. Len(s) -> S] : ReadPath(h, st, s)
    <2> HIDE DEF s
    <2> QED
      BY <1>2, HasReadPath
  <1>4. h \in [0 .. n -> S] /\ h[0] = st /\ ReadAll(st, s) = h[n] /\ \A i \in 1 .. n : h[i] = ReadLine(h[i - 1], s[i])
    <2> HIDE DEF s, n, S
    <2> QED
      BY <1>1, <1>3 DEF ReadPath
  <1> DEFINE N == {i \in 0 .. n : Ok(i, h[i])}
  <1>5. 0 \in N
    <2>1. LinesNoted(c0, cov, 0)
      BY DEF LinesNoted, Unhit, Range
    <2> QED
      BY <1>1, <1>4, <2>1
  <1>6. ASSUME NEW i \in 1 .. n, i - 1 \in N PROVE i \in N
    <2>1. PICK c \in CovStates : Inside(h[i - 1], d, f, c) /\ Done2(i - 1, c)
      BY <1>6
    <2> DEFINE l == s[i]
               c2 == parse_lcov_data_line(c, l)
    <2>2. l \in DataLines(H) /\ Done2(i, c2)
      BY <2>1, NoteLine
    <2> HIDE DEF l
    <2>3. h[i - 1] \in S /\ h[i] = ReadLine(h[i - 1], l)
      BY <1>1, <1>4 DEF l
    <2>4. Inside(h[i], d, f, c2)
      BY <2>1, <2>2, <2>3, InsideStep
    <2>5. c2 \in CovStates
      BY <2>2, ParseTypes
    <2> HIDE DEF c2
    <2>6. Ok(i, h[i])
      BY <2>2, <2>4, <2>5
    <2> QED
      BY <1>1, <2>6
  <1>7. n \in N
    <2> HIDE DEF N, n
    <2>1. \A i \in 0 .. n : i \in N
      BY <1>1, <1>5, <1>6, Turns
    <2> QED
      BY <1>1, <2>1
  <1> QED
    BY <1>1, <1>2, <1>4, <1>7
\* What is known of a file once its record has been read.
FileData(c, cov) ==
  /\ c.lf = Len(cov.lines) /\ c.lh = Cardinality(HitLines(cov)) /\ LinesNoted(c, cov, Len(cov.lines))
  /\ c.bf = Len(cov.branches) /\ c.bh = Cardinality(Taken(cov)) /\ BranchesNoted(c, cov, Len(cov.branches))

\* The counts of a record are numbers, and are 0 where there is nothing to count.
LEMMA CountsAreNat ==
  ASSUME NEW F, NEW H, NEW cov, CovOf(F, H, cov)
  PROVE  /\ Len(cov.lines) \in Nat /\ Len(cov.branches) \in Nat
         /\ Cardinality(HitLines(cov)) \in Nat /\ Cardinality(Taken(cov)) \in Nat
         /\ Cardinality(DOMAIN cov.lines) = Len(cov.lines) /\ Cardinality(DOMAIN cov.branches) = Len(cov.branches)
         /\ (Len(cov.lines) = 0 => Cardinality(HitLines(cov)) = 0)
         /\ (Len(cov.branches) = 0 => Cardinality(Taken(cov)) = 0)
  <1>1. /\ Len(cov.lines) \in Nat /\ Len(cov.branches) \in Nat
        /\ DOMAIN cov.lines = 1 .. Len(cov.lines) /\ DOMAIN cov.branches = 1 .. Len(cov.branches)
    BY DEF CovOf
  <1>2. /\ IsFiniteSet(DOMAIN cov.lines) /\ Cardinality(DOMAIN cov.lines) = Len(cov.lines)
        /\ IsFiniteSet(DOMAIN cov.branches) /\ Cardinality(DOMAIN cov.branches) = Len(cov.branches)
    <2>1. ASSUME NEW n \in Nat PROVE IsFiniteSet(1 .. n) /\ Cardinality(1 .. n) = n
      BY FS_Interval
    <2> QED
      BY <1>1, <2>1
  <1>3. HitLines(cov) \subseteq DOMAIN cov.lines /\ Taken(cov) \subseteq DOMAIN cov.branches
    BY DEF HitLines, Taken
  <1>4. IsFiniteSet(HitLines(cov)) /\ IsFiniteSet(Taken(cov))
    BY <1>2, <1>3, FS_Subset
  <1>5. Cardinality(HitLines(cov)) \in Nat /\ Cardinality(Taken(cov)) \in Nat
    BY <1>4, FS_CardinalityType
  <1>6. Len(cov.lines) = 0 => HitLines(cov) = {}
    BY <1>1, <1>3
  <1>7. Len(cov.branches) = 0 => Taken(cov) = {}
    BY <1>1, <1>3
  <1>8. Cardinality({}) = 0
    BY FS_EmptySet
  <1> QED
    BY <1>1, <1>2, <1>5, <1>6, <1>7, <1>8

\* Reading the record of a file adds the file with what the tests have covered of it.
LEMMA ReadRecord ==
  ASSUME NEW F, NoFile \notin F, NEW H, NEW cov, CovOf(F, H, cov), NEW st \in ReadStates(F)
  PROVE  LET r == ReadAll(st, Record(cov.file, cov))
         IN  /\ Record(cov.file, cov) \in Seq(LcovLines(F, H)) /\ r \in ReadStates(F)
             /\ \E c \in CovStates : Recorded(r, st.data, cov.file, c) /\ FileData(c, cov)
  <1> DEFINE f == cov.file
             d == st.data
             X == LcovLines(F, H)
             S == ReadStates(F)
             c1 == [k |-> "BRF", n |-> Len(cov.branches)]
             c2 == [k |-> "BRH", n |-> Cardinality(Taken(cov))]
             e1 == [k |-> "LH", n |-> Cardinality(HitLines(cov))]
             e2 == [k |-> "LF", n |-> Len(cov.lines)]
             A == <<[k |-> "SF", f |-> f], [k |-> "FN"]>>
             B == BranchLines(cov)
             C == <<c1, c2>>
             D == HitsLines(cov)
             E == <<e1, e2, [k |-> "end_of_record"]>>
             s1 == ReadAll(st, A)
             s2 == ReadAll(s1, B)
             s3 == ReadAll(s2, C)
             s4 == ReadAll(s3, D)
             s5 == ReadAll(s4, E)
  <1>0. Record(f, cov) = (((A \o B) \o C) \o D) \o E
    BY DEF Record, BranchLines, HitsLines
  <1>1. f \in F
    BY DEF CovOf
  <1>2. /\ c1 \in DataLines(H) /\ c2 \in DataLines(H) /\ e1 \in DataLines(H) /\ e2 \in DataLines(H)
        /\ c1 \in X /\ c2 \in X /\ e1 \in X /\ e2 \in X
    BY CountsAreNat DEF DataLines, LcovLines
  <1>3. [k |-> "SF", f |-> f] \in X /\ [k |-> "FN"] \in X /\ [k |-> "end_of_record"] \in X
    BY <1>1 DEF DataLines, LcovLines
  <1>4. s1 \in S /\ Inside(s1, d, f, NewCoverage)
    BY <1>1, ReadHead
  <1> HIDE DEF s1
  <1>5. B \in Seq(X) /\ s2 \in S
    BY <1>4, ReadBranches
  <1>6. PICK a \in CovStates : Inside(s2, d, f, a) /\ BranchesNoted(a, cov, Len(cov.branches)) /\ a.lines = <<>>
    BY <1>4, ReadBranches
  <1> HIDE DEF s2
  <1> DEFINE b == parse_lcov_data_line(parse_lcov_data_line(a, c1), c2)
  <1>7. s3 \in S /\ Inside(s3, d, f, b)
    <2> HIDE DEF c1, c2
    <2> QED
      BY <1>2, <1>5, <1>6, ReadTwo
  <1> HIDE DEF s3
  <1>8. /\ b \in CovStates /\ b.lines = <<>> /\ b.branches = a.branches
        /\ b.bf = Len(cov.branches) /\ b.bh = Cardinality(Taken(cov))
    <2> DEFINE b1 == parse_lcov_data_line(a, c1)
    <2>1. c1.k = "BRF" /\ c1.n = Len(cov.branches) /\ c2.k = "BRH" /\ c2.n = Cardinality(Taken(cov))
      OBVIOUS
    <2> HIDE DEF c1, c2
    <2>2. b1 \in CovStates
      BY <1>2, ParseTypes
    <2>3. b1 = [a EXCEPT !.bf = c1.n]
      BY <2>1 DEF parse_lcov_data_line
    <2> HIDE DEF b1
    <2>4. b1.bf = c1.n /\ b1.lines = a.lines /\ b1.branches = a.branches
      BY <2>3 DEF CovStates
    <2>5. b \in CovStates
      BY <1>2, <2>2, ParseTypes DEF b1
    <2>6. b = [b1 EXCEPT !.bh = c2.n]
      BY <2>1 DEF parse_lcov_data_line, b1
    <2> HIDE DEF b
    <2>7. b.bh = c2.n /\ b.bf = b1.bf /\ b.lines = b1.lines /\ b.branches = b1.branches
      BY <2>2, <2>6 DEF CovStates
    <2> QED
      BY <1>6, <2>1, <2>4, <2>5, <2>7
  <1> HIDE DEF b
  <1>9. D \in Seq(X) /\ s4 \in S
    BY <1>7, <1>8, ReadHits
  <1>10. PICK c \in CovStates : /\ Inside(s4, d, f, c) /\ LinesNoted(c, cov, Len(cov.lines))
                                /\ c.branches = b.branches /\ c.bf = b.bf /\ c.bh = b.bh
    BY <1>7, <1>8, ReadHits
  <1> HIDE DEF s4
  <1> DEFINE e == parse_lcov_data_line(parse_lcov_data_line(c, e1), e2)
  <1>11. s5 \in S /\ Recorded(s5, d, f, e)
    <2> HIDE DEF e1, e2
    <2> QED
      BY <1>2, <1>9, <1>10, ReadEnd
  <1> HIDE DEF s5
  <1>12. /\ e \in CovStates /\ e.lines = c.lines /\ e.branches = c.branches /\ e.bf = c.bf /\ e.bh = c.bh
         /\ e.lf = Len(cov.lines) /\ e.lh = Cardinality(HitLines(cov))
    <2> DEFINE b1 == parse_lcov_data_line(c, e1)
    <2>1. e1.k = "LH" /\ e1.n = Cardinality(HitLines(cov)) /\ e2.k = "LF" /\ e2.n = Len(cov.lines)
      OBVIOUS
    <2> HIDE DEF e1, e2
    <2>2. b1 \in CovStates
      BY <1>2, ParseTypes
    <2>3. b1 = [c EXCEPT !.lh = e1.n]
      BY <2>1 DEF parse_lcov_data_line
    <2> HIDE DEF b1
    <2>4. b1.lh = e1.n /\ b1.lines = c.lines /\ b1.branches = c.branches /\ b1.bf = c.bf /\ b1.bh = c.bh
      BY <2>3 DEF CovStates
    <2>5. e \in CovStates
      BY <1>2, <2>2, ParseTypes DEF b1
    <2>6. e = [b1 EXCEPT !.lf = e2.n]
      BY <2>1 DEF parse_lcov_data_line, b1
    <2> HIDE DEF e
    <2>7. /\ e.lf = e2.n /\ e.lh = b1.lh /\ e.lines = b1.lines /\ e.branches = b1.branches
          /\ e.bf = b1.bf /\ e.bh = b1.bh
      BY <2>2, <2>6 DEF CovStates
    <2> QED
      BY <2>1, <2>4, <2>5, <2>7
  <1> HIDE DEF e
  <1>13. FileData(e, cov)
    BY <1>6, <1>8, <1>10, <1>12 DEF FileData, LinesNoted, BranchesNoted
  <1>14. A \in Seq(X) /\ C \in Seq(X) /\ E \in Seq(X)
    <2> HIDE DEF X, c1, c2, e1, e2
    <2>1. <<[k |-> "SF", f |-> f], [k |-> "FN"]>> \in Seq(X)
      BY <1>3
    <2>2. <<c1, c2>> \in Seq(X)
      BY <1>2
    <2>3. <<e1, e2, [k |-> "end_of_record"]>> \in Seq(X)
      BY <1>2, <1>3
    <2> QED
      BY <2>1, <2>2, <2>3
  <1> HIDE DEF A, B, C, D, E
  <1>15. ASSUME NEW u \in Seq(X), NEW v \in Seq(X)
         PROVE  u \o v \in Seq(X) /\ ReadAll(st, u) \in S /\ ReadAll(st, u \o v) = ReadAll(ReadAll(st, u), v)
    <2>1. u \o v \in Seq(X)
      BY ConcatProperties
    <2> QED
      BY <2>1, ReadConcat
  <1> HIDE DEF X, S
  <1>16. A \o B \in Seq(X) /\ ReadAll(st, A \o B) = s2
    BY <1>5, <1>14, <1>15 DEF s1, s2
  <1>17. (A \o B) \o C \in Seq(X) /\ ReadAll(st, (A \o B) \o C) = s3
    BY <1>14, <1>15, <1>16 DEF s3
  <1>18. ((A \o B) \o C) \o D \in Seq(X) /\ ReadAll(st, ((A \o B) \o C) \o D) = s4
    BY <1>9, <1>15, <1>17 DEF s4
  <1>19. (((A \o B) \o C) \o D) \o E \in Seq(X) /\ ReadAll(st, (((A \o B) \o C) \o D) \o E) = s5
    BY <1>14, <1>15, <1>18 DEF s5
  <1> QED
    BY <1>0, <1>11, <1>12, <1>13, <1>19 DEF X, S
\* The data of a report about the first n of the files.
DataOf(a, covs, n) ==
  /\ DOMAIN a.data = {covs[i].file : i \in 1 .. n}
  /\ \A i \in 1 .. n : a.data[covs[i].file] \in CovStates /\ FileData(a.data[covs[i].file], covs[i])

\* The report of bazel gives, for every file, what the tests have covered of it.
LEMMA CoverageData ==
  ASSUME NEW F, NoFile \notin F, NEW H, NEW K, NEW covs \in Seq(K), \A c \in K : CovOf(F, H, c),
         \A i, k \in DOMAIN covs : covs[i].file = covs[k].file => i = k
  PROVE  LET data == coverage_data(lcov(covs))
         IN  /\ DOMAIN data = {covs[i].file : i \in DOMAIN covs}
             /\ \A i \in DOMAIN covs : data[covs[i].file] \in CovStates /\ FileData(data[covs[i].file], covs[i])
  <1> DEFINE X == LcovLines(F, H)
             S == ReadStates(F)
             n == Len(covs)
             st == [cur |-> NoFile, data |-> [f \in {} |-> NewCoverage]]
  <1>1. st \in S /\ DOMAIN st.data = {}
    <2> DEFINE e == [f \in {} |-> NewCoverage]
    <2>1. {} \in SUBSET F /\ e \in [{} -> CovStates] /\ DOMAIN e = {}
      OBVIOUS
    <2>2. st.cur = NoFile /\ st.data = e
      OBVIOUS
    <2> HIDE DEF e
    <2> QED
      BY <2>1, <2>2 DEF ReadStates
  <1> HIDE DEF st
  <1>2. n \in Nat /\ DOMAIN covs = 1 .. n /\ \A i \in 1 .. n : covs[i] \in K /\ CovOf(F, H, covs[i])
    OBVIOUS
  <1>3. \A x \in Seq(X) : \A c \in K : AddRecord(x, c) \in Seq(X)
    <2> SUFFICES ASSUME NEW x \in Seq(X), NEW c \in K PROVE AddRecord(x, c) \in Seq(X)
      OBVIOUS
    <2>1. Record(c.file, c) \in Seq(X)
      BY <1>1, ReadRecord
    <2> QED
      BY <2>1, ConcatProperties DEF AddRecord
  <1>4. <<>> \in Seq(X)
    OBVIOUS
  <1>5. PICK r \in [0 .. Len(covs) -> Seq(X)] : LcovLoop(r, <<>>, covs)
    <2> DEFINE Y == Seq(X)
    <2>1. <<>> \in Y /\ \A x \in Y : \A c \in K : AddRecord(x, c) \in Y
      BY <1>3, <1>4
    <2> HIDE DEF Y
    <2>2. \E r \in [0 .. Len(covs) -> Y] : LcovLoop(r, <<>>, covs)
      BY <2>1, LcovTurns
    <2> QED
      BY <2>2 DEF Y
  <1>6. r[0] = <<>> /\ lcov(covs) = r[n] /\ \A i \in 1 .. n : r[i] = r[i - 1] \o Record(covs[i].file, covs[i])
    <2>1. r[0] = <<>> /\ lcov(covs) = r[n] /\ \A i \in 1 .. n : r[i] = AddRecord(r[i - 1], covs[i])
      BY <1>5 DEF LcovLoop, lcov
    <2> QED
      BY <2>1 DEF AddRecord
  <1> DEFINE a(i) == ReadAll(st, r[i])
             N == {i \in 0 .. n : a(i) \in S /\ DataOf(a(i), covs, i)}
  <1>7. 0 \in N
    <2>1. ReadAll(st, <<>>) = st
      <3> DEFINE z == <<>>
      <3>1. z \in Seq(X) /\ Len(z) = 0
        OBVIOUS
      <3> HIDE DEF z
      <3>2. PICK h \in [0 .. Len(z) -> S] : ReadPath(h, st, z)
        BY <1>1, <3>1, HasReadPath
      <3>3. ReadAll(st, z) = st
        BY <3>1, <3>2 DEF ReadPath
      <3> QED
        BY <3>3 DEF z
    <2>2. a(0) = st
      BY <1>6, <2>1
    <2>3. DataOf(st, covs, 0)
      BY <1>1 DEF DataOf
    <2> QED
      BY <1>1, <1>2, <2>2, <2>3
  <1>8. ASSUME NEW i \in 1 .. n, i - 1 \in N PROVE i \in N
    <2> DEFINE b == a(i - 1)
               cov == covs[i]
               R == Record(cov.file, cov)
    <2>1. b \in S /\ DataOf(b, covs, i - 1) /\ CovOf(F, H, cov) /\ r[i - 1] \in Seq(X) /\ r[i] = r[i - 1] \o R
      BY <1>2, <1>6, <1>8
    <2> HIDE DEF b, cov
    <2>2. R \in Seq(X) /\ ReadAll(b, R) \in S
      BY <2>1, ReadRecord
    <2>3. PICK c \in CovStates : Recorded(ReadAll(b, R), b.data, cov.file, c) /\ FileData(c, cov)
      BY <2>1, ReadRecord
    <2> HIDE DEF R
    <2>4. a(i) = ReadAll(b, R)
      BY <1>1, <2>1, <2>2, ReadConcat DEF b
    <2> DEFINE d == a(i)
    <2>5. /\ DOMAIN d.data = DOMAIN b.data \cup {cov.file} /\ d.data[cov.file] = c
          /\ \A g \in DOMAIN b.data \ {cov.file} : d.data[g] = b.data[g]
      BY <2>3, <2>4 DEF Recorded
    <2> HIDE DEF d, a
    <2>6. 1 .. i = (1 .. (i - 1)) \cup {i} /\ \A k \in 1 .. (i - 1) : k # i /\ k \in DOMAIN covs /\ i \in DOMAIN covs
      BY <1>2
    <2>7. \A k \in 1 .. (i - 1) : covs[k].file # cov.file /\ covs[k].file \in DOMAIN b.data
      BY <2>1, <2>6 DEF cov, DataOf
    <2>8. \A k \in 1 .. (i - 1) : d.data[covs[k].file] = b.data[covs[k].file]
      BY <2>5, <2>7
    <2>9. DOMAIN d.data = {covs[k].file : k \in 1 .. i}
      BY <2>1, <2>5, <2>6 DEF cov, DataOf
    <2>10. \A k \in 1 .. i : d.data[covs[k].file] \in CovStates /\ FileData(d.data[covs[k].file], covs[k])
      <3>1. \A k \in 1 .. (i - 1) : d.data[covs[k].file] \in CovStates /\ FileData(d.data[covs[k].file], covs[k])
        BY <2>1, <2>8 DEF DataOf
      <3>2. d.data[covs[i].file] \in CovStates /\ FileData(d.data[covs[i].file], covs[i])
        BY <2>3, <2>5 DEF cov
      <3> QED
        BY <2>6, <3>1, <3>2
    <2>11. DataOf(d, covs, i)
      BY <2>9, <2>10 DEF DataOf
    <2> QED
      BY <1>2, <2>2, <2>4, <2>11 DEF d
  <1> HIDE DEF a
  <1>9. n \in N
    <2> HIDE DEF N, n
    <2>1. \A i \in 0 .. n : i \in N
      BY <1>2, <1>7, <1>8, Turns
    <2> QED
      BY <1>2, <2>1
  <1>10. coverage_data(lcov(covs)) = a(n).data
    BY <1>6 DEF coverage_data, ReadAll, a, st
  <1> QED
    BY <1>2, <1>9, <1>10 DEF DataOf

\* Meeting a threshold is having enough, but for the rounding; a file without lines, or
\* without branches, meets every threshold.
LEMMA MeetsIsEnough ==
  ASSUME NEW hit \in Nat, NEW count \in Nat, NEW t, IsThreshold(t), count = 0 => hit = 0
  PROVE  LET share == 100 * t.den * hit
             least == t.num * count
         IN  /\ Meets(hit, count, t) => share >= least
             /\ share >= least /\ ~(count # 0 /\ t.den # 1 /\ share = least) => Meets(hit, count, t)
  <1> DEFINE share == 100 * t.den * hit
             least == t.num * count
  <1>1. t.num \in Int /\ t.den \in Nat /\ t.side \in {-1, 0, 1} /\ (t.den = 1 => t.side = 0)
    BY DEF IsThreshold
  <1>2. share \in Int /\ least \in Int
    BY <1>1
  <1>3. count = 0 => share = 0 /\ least = 0
    BY <1>1
  <1>4. Meets(hit, count, t) <=> count = 0 \/ share > least \/ (share = least /\ t.side <= 0)
    BY DEF Meets
  <1> HIDE DEF share, least
  <1>5. /\ Meets(hit, count, t) => share >= least
        /\ share >= least /\ ~(count # 0 /\ t.den # 1 /\ share = least) => Meets(hit, count, t)
    BY <1>1, <1>2, <1>3, <1>4
  <1> QED
    BY <1>5 DEF share, least

\* A file that is found to meet its thresholds is covered, and one that is covered and
\* lies exactly at none of them is found to meet them.
LEMMA MeetsIsCovered ==
  ASSUME NEW in, NEW F, NEW H, NEW cov, CovOf(F, H, cov), NEW c, FileData(c, cov),
         IsThreshold(in.lines), \A f \in DOMAIN in.file_lines : IsThreshold(in.file_lines[f]),
         IsThreshold(in.branch), \A f \in DOMAIN in.file_branch : IsThreshold(in.file_branch[f])
  PROVE  LET meets == /\ Meets(c.lh, c.lf, Threshold(in.file_lines, cov.file, in.lines))
                      /\ Meets(c.bh, c.bf, Threshold(in.file_branch, cov.file, in.branch))
         IN  /\ meets => Covered(in, cov)
             /\ Covered(in, cov) /\ ~Exposed(in, cov) => meets
  <1> DEFINE tl == Threshold(in.file_lines, cov.file, in.lines)
             tb == Threshold(in.file_branch, cov.file, in.branch)
  <1>1. IsThreshold(tl) /\ IsThreshold(tb)
    BY DEF Threshold
  <1>2. tl = LinesOf(in, cov.file) /\ tb = BranchOf(in, cov.file)
    BY DEF Threshold, LinesOf, BranchOf
  <1>3. /\ Covered(in, cov) <=> /\ Enough(DOMAIN cov.lines, HitLines(cov), tl)
                                /\ Enough(DOMAIN cov.branches, Taken(cov), tb)
        /\ Exposed(in, cov) <=> \/ Borderline(DOMAIN cov.lines, HitLines(cov), tl)
                                \/ Borderline(DOMAIN cov.branches, Taken(cov), tb)
    BY <1>2 DEF Covered, Exposed
  <1> HIDE DEF tl, tb
  <1>4. /\ Meets(c.lh, c.lf, tl) => Enough(DOMAIN cov.lines, HitLines(cov), tl)
        /\ Enough(DOMAIN cov.lines, HitLines(cov), tl) /\ ~Borderline(DOMAIN cov.lines, HitLines(cov), tl)
             => Meets(c.lh, c.lf, tl)
    <2>1. /\ c.lh \in Nat /\ c.lf \in Nat /\ (c.lf = 0 => c.lh = 0)
          /\ Cardinality(DOMAIN cov.lines) = c.lf /\ Cardinality(HitLines(cov)) = c.lh
      BY CountsAreNat DEF FileData
    <2>2. c.lf # 0 => DOMAIN cov.lines # {}
      <3>1. c.lf = Len(cov.lines) /\ DOMAIN cov.lines = 1 .. Len(cov.lines)
        BY DEF FileData, CovOf
      <3> DEFINE n == Len(cov.lines)
      <3>2. n \in Nat
        BY CountsAreNat
      <3> HIDE DEF n
      <3>3. n # 0 => 1 \in 1 .. n
        BY <3>2
      <3> QED
        BY <3>1, <3>3 DEF n
    <2>3. /\ Meets(c.lh, c.lf, tl) => 100 * tl.den * c.lh >= tl.num * c.lf
          /\ /\ 100 * tl.den * c.lh >= tl.num * c.lf
             /\ ~(c.lf # 0 /\ tl.den # 1 /\ 100 * tl.den * c.lh = tl.num * c.lf)
             => Meets(c.lh, c.lf, tl)
      BY <1>1, <2>1, MeetsIsEnough
    <2> QED
      BY <2>1, <2>2, <2>3, Zenon DEF Enough, Borderline
  <1>5. /\ Meets(c.bh, c.bf, tb) => Enough(DOMAIN cov.branches, Taken(cov), tb)
        /\ Enough(DOMAIN cov.branches, Taken(cov), tb) /\ ~Borderline(DOMAIN cov.branches, Taken(cov), tb)
             => Meets(c.bh, c.bf, tb)
    <2>1. /\ c.bh \in Nat /\ c.bf \in Nat /\ (c.bf = 0 => c.bh = 0)
          /\ Cardinality(DOMAIN cov.branches) = c.bf /\ Cardinality(Taken(cov)) = c.bh
      BY CountsAreNat DEF FileData
    <2>2. c.bf # 0 => DOMAIN cov.branches # {}
      <3>1. c.bf = Len(cov.branches) /\ DOMAIN cov.branches = 1 .. Len(cov.branches)
        BY DEF FileData, CovOf
      <3> DEFINE n == Len(cov.branches)
      <3>2. n \in Nat
        BY CountsAreNat
      <3> HIDE DEF n
      <3>3. n # 0 => 1 \in 1 .. n
        BY <3>2
      <3> QED
        BY <3>1, <3>3 DEF n
    <2>3. /\ Meets(c.bh, c.bf, tb) => 100 * tb.den * c.bh >= tb.num * c.bf
          /\ /\ 100 * tb.den * c.bh >= tb.num * c.bf
             /\ ~(c.bf # 0 /\ tb.den # 1 /\ 100 * tb.den * c.bh = tb.num * c.bf)
             => Meets(c.bh, c.bf, tb)
      BY <1>1, <2>1, MeetsIsEnough
    <2> QED
      BY <2>1, <2>2, <2>3, Zenon DEF Enough, Borderline
  <1> QED
    BY <1>3, <1>4, <1>5 DEF tl, tb
\* What coverage_report.py knows of the files of a job: the data of each is what the tests
\* have covered of it.
KnownOf(in, data) ==
  /\ DOMAIN data = {in.covs[i].file : i \in DOMAIN in.covs}
  /\ \A i \in DOMAIN in.covs : LET c == data[in.covs[i].file]
                                IN  c \in CovStates /\ FileData(c, in.covs[i])

\* It knows that of every file, and the thresholds are numbers.
LEMMA CoverageKnown ==
  ASSUME NEW j \in Jobs, j.tool = "coverage"
  PROVE  /\ KnownOf(j.in, coverage_data(lcov(j.in.covs)))
         /\ \E F, H : \A i \in DOMAIN j.in.covs : CovOf(F, H, j.in.covs[i])
  <1> DEFINE covs == j.in.covs
             K == Range(covs)
             F == {c.file : c \in K}
             H == UNION {Range(c.branches) : c \in K}
  <1>1. /\ covs \in Seq(K) /\ \A i, k \in DOMAIN covs : covs[i].file = covs[k].file => i = k
        /\ \A c \in K : /\ c.file # NoFile /\ c.branches \in Seq(Range(c.branches))
                        /\ c.lines \in Seq([line : Int, hits : Nat])
                        /\ \A i, k \in DOMAIN c.lines : c.lines[i].line = c.lines[k].line => i = k
    BY JobsAssumption
  <1>2. NoFile \notin F
    BY <1>1
  <1>3. ASSUME NEW c \in K PROVE CovOf(F, H, c)
    <2>1. Range(c.branches) \subseteq H /\ c.file \in F
      OBVIOUS
    <2>2. c.branches \in Seq(H)
      <3> DEFINE b == c.branches
                 R == Range(b)
      <3>1. b \in Seq(R) /\ R \subseteq H
        BY <1>1, <2>1
      <3> HIDE DEF b, R, H
      <3> QED
        BY <3>1 DEF b
    <2> HIDE DEF H, F
    <2> QED
      BY <1>1, <2>1, <2>2 DEF CovOf
  <1> HIDE DEF F, H
  <1>4. \A i \in DOMAIN covs : covs[i] \in K
    BY DEF Range
  <1> HIDE DEF K, covs
  <1>5. LET data == coverage_data(lcov(covs))
        IN  /\ DOMAIN data = {covs[i].file : i \in DOMAIN covs}
            /\ \A i \in DOMAIN covs : data[covs[i].file] \in CovStates /\ FileData(data[covs[i].file], covs[i])
    BY <1>1, <1>2, <1>3, CoverageData
  <1>6. KnownOf(j.in, coverage_data(lcov(j.in.covs)))
    BY <1>5 DEF covs, KnownOf
  <1>7. \A i \in DOMAIN j.in.covs : CovOf(F, H, j.in.covs[i])
    BY <1>3, <1>4 DEF covs
  <1> QED
    BY <1>6, <1>7

\* coverage_report.py succeeds only if bazel did, the thresholds are percentages and every
\* file reaches its own, and it does if besides no file lies exactly at a threshold that is
\* not a whole number of percent: for every report of bazel, however thresholds are rounded.
THEOREM VerdictExact == ToolsSpec => []VerdictIsExact
  <1>1. ToolsInv => VerdictIsExact
    <2> SUFFICES ASSUME ToolsInv, Done("coverage") PROVE VerdictIsExact
      BY DEF VerdictIsExact
    <2> DEFINE in == job.in
               data == coverage_data(lcov(in.covs))
               valid == Valid(data, in.lines, in.branch, in.file_lines, in.file_branch)
               bad == ~InRange(in.lines) \/ ~InRange(in.branch) \/ ~ThresholdsOk(in.file_lines)
                      \/ ~ThresholdsOk(in.file_branch) \/ in.bazel = "fails" \/ in.bazel = "no_report"
               x == [lcov |-> lcov(in.covs), bazel |-> in.bazel, lines |-> in.lines, branch |-> in.branch,
                     file_lines |-> in.file_lines, file_branch |-> in.file_branch]
               percentages == {in.lines, in.branch} \cup Range(in.file_lines) \cup Range(in.file_branch)
    <2>1. job \in Jobs /\ job.tool = "coverage" /\ out = coverage(x)
      BY DEF ToolsInv, Done
    <2>2. /\ in.bazel \in {"ok", "fails", "no_report"}
          /\ IsThreshold(in.lines) /\ \A f \in DOMAIN in.file_lines : IsThreshold(in.file_lines[f])
          /\ IsThreshold(in.branch) /\ \A f \in DOMAIN in.file_branch : IsThreshold(in.file_branch[f])
      BY <2>1, JobsAssumption
    <2>3. out.exit = 0 <=> ~bad /\ valid
      <3>1. /\ x.lcov = lcov(in.covs) /\ x.bazel = in.bazel /\ x.lines = in.lines /\ x.branch = in.branch
            /\ x.file_lines = in.file_lines /\ x.file_branch = in.file_branch
        OBVIOUS
      <3> HIDE DEF x
      <3>2. CASE bad
        <4>1. out = [exit |-> 1, missing |-> <<>>]
          BY <2>1, <3>1, <3>2, Zenon DEF coverage
        <4> QED
          BY <3>2, <4>1
      <3>3. CASE ~bad
        <4>1. out = [exit |-> IF valid THEN 0 ELSE 1, missing |-> [f \in DOMAIN data |-> Missing(data[f])]]
          BY <2>1, <3>1, <3>3, Zenon DEF coverage
        <4> HIDE DEF valid, data
        <4>2. out.exit = IF valid THEN 0 ELSE 1
          BY <4>1
        <4> QED
          BY <3>3, <4>2
      <3> QED
        BY <3>2, <3>3
    <2>4. ~bad <=> in.bazel = "ok" /\ \A v \in percentages : InRange(v)
      <3>1. (\A v \in Range(in.file_lines) : InRange(v)) <=> ThresholdsOk(in.file_lines)
        BY DEF Range, ThresholdsOk
      <3>2. (\A v \in Range(in.file_branch) : InRange(v)) <=> ThresholdsOk(in.file_branch)
        BY DEF Range, ThresholdsOk
      <3> QED
        BY <2>2, <3>1, <3>2
    <2>5. /\ valid => \A i \in DOMAIN in.covs : Covered(in, in.covs[i])
          /\ (\A i \in DOMAIN in.covs : Covered(in, in.covs[i]) /\ ~Exposed(in, in.covs[i])) => valid
      <3>1. KnownOf(in, data)
        BY <2>1, CoverageKnown
      <3>2. PICK F, H : \A i \in DOMAIN in.covs : CovOf(F, H, in.covs[i])
        BY <2>1, CoverageKnown
      <3> HIDE DEF data
      <3>3. ASSUME NEW i \in DOMAIN in.covs
            PROVE  LET f == in.covs[i].file
                       meets == /\ Meets(data[f].lh, data[f].lf, Threshold(in.file_lines, f, in.lines))
                                /\ Meets(data[f].bh, data[f].bf, Threshold(in.file_branch, f, in.branch))
                   IN  /\ meets => Covered(in, in.covs[i])
                       /\ Covered(in, in.covs[i]) /\ ~Exposed(in, in.covs[i]) => meets
        <4>1. CovOf(F, H, in.covs[i]) /\ FileData(data[in.covs[i].file], in.covs[i])
          BY <3>1, <3>2 DEF KnownOf
        <4> QED
          BY <2>2, <4>1, MeetsIsCovered
      <3> QED
        BY <3>1, <3>3 DEF KnownOf, Valid
    <2> HIDE DEF bad, valid, percentages
    <2>6. Deserved(in) <=> /\ in.bazel = "ok" /\ \A v \in percentages : InRange(v)
                           /\ \A i \in DOMAIN in.covs : Covered(in, in.covs[i])
      <3>1. \A v \in percentages : InRange(v) <=> (v.num >= 0 /\ v.num <= 100 * v.den)
        <4>1. \A v \in percentages : IsThreshold(v)
          BY <2>2 DEF percentages, Range
        <4> QED
          BY <4>1 DEF InRange, IsThreshold
      <3> QED
        BY <3>1 DEF Deserved, percentages
    <2>7. /\ out.exit = 0 => Deserved(in)
          /\ Deserved(in) /\ (\A i \in DOMAIN in.covs : ~Exposed(in, in.covs[i])) => out.exit = 0
      BY <2>3, <2>4, <2>5, <2>6
    <2> QED
      BY <2>7 DEF VerdictIsExact
  <1> QED
    BY <1>1, ToolsCompute, PTL

\* It names the lines that were not hit, all of them and no other, in the fewest ascending
\* ranges; the branches whose condition was never evaluated, and none that was taken.
THEOREM GapsNamed == ToolsSpec => []GapsAreNamed
  <1>1. ToolsInv => GapsAreNamed
    <2> DEFINE in == job.in
               Says(cov, r) ==
                 /\ UNION {r.lines[k][1]..r.lines[k][2] : k \in DOMAIN r.lines}
                      = {cov.lines[k].line : k \in {n \in DOMAIN cov.lines : cov.lines[n].hits = 0}}
                 /\ \A k \in 1..(Len(r.lines) - 1) : r.lines[k][2] + 1 < r.lines[k + 1][1]
                 /\ {k \in DOMAIN cov.branches : cov.branches[k] = "-"} \subseteq {r.branches[k][2] : k \in DOMAIN r.branches}
                 /\ {r.branches[k][2] : k \in DOMAIN r.branches} \subseteq DOMAIN cov.branches \ Taken(cov)
    <2> SUFFICES ASSUME ToolsInv, Done("coverage"), in.bazel = "ok", out.missing # <<>>, NEW i \in DOMAIN in.covs
                 PROVE  Says(in.covs[i], out.missing[in.covs[i].file])
      BY DEF GapsAreNamed
    <2> DEFINE data == coverage_data(lcov(in.covs))
               x == [lcov |-> lcov(in.covs), bazel |-> in.bazel, lines |-> in.lines, branch |-> in.branch,
                     file_lines |-> in.file_lines, file_branch |-> in.file_branch]
               cov == in.covs[i]
               c == data[cov.file]
               r == out.missing[cov.file]
    <2>1. job \in Jobs /\ job.tool = "coverage" /\ out = coverage(x)
      BY DEF ToolsInv, Done
    <2>2. out.missing = [f \in DOMAIN data |-> Missing(data[f])]
      <3>1. x.lcov = lcov(in.covs)
        OBVIOUS
      <3> HIDE DEF x
      <3>2. CASE out = [exit |-> 1, missing |-> <<>>]
        <4>1. out.missing = <<>>
          BY <3>2
        <4> QED
          BY <4>1
      <3>3. CASE out # [exit |-> 1, missing |-> <<>>]
        <4> DEFINE e == IF Valid(data, x.lines, x.branch, x.file_lines, x.file_branch) THEN 0 ELSE 1
                   m == [f \in DOMAIN data |-> Missing(data[f])]
        <4>1. out = [exit |-> e, missing |-> m]
          BY <2>1, <3>1, <3>3, Zenon DEF coverage
        <4> HIDE DEF e, m
        <4> QED
          BY <4>1 DEF m
      <3> QED
        BY <3>2, <3>3
    <2>3. KnownOf(in, data)
      BY <2>1, CoverageKnown
    <2>4. PICK F, H : \A n \in DOMAIN in.covs : CovOf(F, H, in.covs[n])
      BY <2>1, CoverageKnown
    <2> HIDE DEF data
    <2>5. cov.file \in DOMAIN data /\ c \in CovStates /\ FileData(c, cov) /\ CovOf(F, H, cov)
      BY <2>3, <2>4 DEF KnownOf
    <2>6. r = Missing(c)
      BY <2>2, <2>5
    <2> HIDE DEF c, r, cov
    <2>7. r.lines = group_consecutive_numbers(c.lines) /\ r.branches = c.branches
      BY <2>6 DEF Missing
    <2> DEFINE g == group_consecutive_numbers(c.lines)
    <2>8. g \in Seq(Pairs) /\ Within(g) = Range(c.lines) /\ Apart(g)
      <3>1. c.lines \in Seq(Int) /\ \A m, n \in 1 .. Len(c.lines) : c.lines[m] = c.lines[n] => m = n
        BY <2>5 DEF CovStates, FileData, LinesNoted
      <3> QED
        BY <3>1, GroupsAre
    <2> HIDE DEF g
    <2>9. Range(c.lines) = {cov.lines[k].line : k \in {n \in DOMAIN cov.lines : cov.lines[n].hits = 0}}
      <3>1. DOMAIN cov.lines = 1 .. Len(cov.lines)
        BY <2>5 DEF CovOf
      <3> QED
        BY <2>5, <3>1 DEF FileData, LinesNoted, Unhit
    <2>10. {c.branches[k][2] : k \in DOMAIN c.branches} = {k \in DOMAIN cov.branches : cov.branches[k] = "-"}
      <3>1. DOMAIN cov.branches = 1 .. Len(cov.branches)
        BY <2>5 DEF CovOf
      <3> QED
        BY <2>5, <3>1 DEF FileData, BranchesNoted, Unreached
    <2>11. r.lines = g
      BY <2>7 DEF g
    <2>12. UNION {r.lines[k][1]..r.lines[k][2] : k \in DOMAIN r.lines} = Within(g)
      BY <2>11 DEF Within
    <2>13. \A k \in 1..(Len(r.lines) - 1) : r.lines[k][2] + 1 < r.lines[k + 1][1]
      BY <2>8, <2>11 DEF Apart
    <2>a. {k \in DOMAIN cov.branches : cov.branches[k] = "-"} \subseteq DOMAIN cov.branches \ Taken(cov)
      BY DEF Taken
    <2>14. Says(cov, r)
      BY <2>7, <2>8, <2>9, <2>10, <2>12, <2>13, <2>a
    <2> HIDE DEF Says
    <2> QED
      BY <2>14 DEF cov, r
  <1> QED
    BY <1>1, ToolsCompute, PTL
=============================================================================
