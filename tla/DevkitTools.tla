---------------------------- MODULE DevkitTools ----------------------------
(***************************************************************************)
(* One run of a program of the development kit: its input is one of Jobs,  *)
(* its result is what the modules of the programs compute, and the         *)
(* properties compare that with a definition of what it ought to be.       *)
(***************************************************************************)
EXTENDS CoverageReport, ExternalMounts, ProjectTools, FiniteSetsExt

CONSTANTS
  Jobs,      \* [tool |-> ..., in |-> ...]
  Pending    \* no result yet

\* Paths lie under themselves, and under the paths above each other: a tree.
FileSystem(fs) ==
  LET P == DOMAIN fs.kind
  IN  /\ Nowhere \notin P /\ fs.sorted \in Seq(P) /\ P \subseteq Range(fs.sorted)
      /\ fs.above \in [P -> SUBSET P] /\ fs.norm \in [P -> P] /\ fs.real \in [P -> P]
      /\ \A p \in P : p \in fs.above[p] /\ \A q \in fs.above[p] : fs.above[q] \subseteq fs.above[p]
      /\ \A p \in P : \A q, r \in fs.above[p] : q \in fs.above[r] \/ r \in fs.above[q]
      /\ \A p, q \in P : p \in fs.above[q] /\ q \in fs.above[p] => p = q
      /\ \A p \in P : IsLink(fs, p) => fs.to[p] \in P \cup {Nowhere}

\* A whole number of percent is exact until it is divided, and the quotient is then
\* rounded as that of the counts is.
IsThreshold(t) ==
  /\ t.num \in Int /\ t.den \in Nat \ {0} /\ t.side \in {-1, 0, 1}
  /\ t.den = 1 => t.side = 0

ASSUME JobsAssumption ==
  \A j \in Jobs :
    /\ j.tool = "coverage" =>
         /\ j.in.bazel \in {"ok", "fails", "no_report"} /\ j.in.covs \in Seq(Range(j.in.covs))
         /\ IsThreshold(j.in.lines) /\ \A f \in DOMAIN j.in.file_lines : IsThreshold(j.in.file_lines[f])
         /\ IsThreshold(j.in.branch) /\ \A f \in DOMAIN j.in.file_branch : IsThreshold(j.in.file_branch[f])
         /\ \A i, k \in DOMAIN j.in.covs : j.in.covs[i].file = j.in.covs[k].file => i = k
         /\ \A c \in Range(j.in.covs) :
              /\ c.file # NoFile /\ c.branches \in Seq(Range(c.branches))
              /\ c.lines \in Seq([line : Int, hits : Nat])
              /\ \A i, k \in DOMAIN c.lines : c.lines[i].line = c.lines[k].line => i = k
    /\ j.tool = "mounts" =>
         /\ FileSystem(j.in.fs) /\ j.in.existing \subseteq DOMAIN j.in.fs.kind
         /\ \A p \in j.in.existing : End(j.in.fs, p) # Nowhere
         /\ j.in.root \in DOMAIN j.in.fs.kind /\ exists(j.in.fs, j.in.root)
    /\ j.tool = "run" =>
         /\ FileSystem(j.in.fs) /\ WantedMounts(j.in) \subseteq DOMAIN j.in.fs.kind
         /\ \A p \in WantedMounts(j.in) : End(j.in.fs, p) # Nowhere
         /\ j.in.root \in DOMAIN j.in.fs.kind /\ exists(j.in.fs, j.in.root)
         /\ j.in.home \in DOMAIN j.in.fs.kind
    /\ j.tool = "bep" =>
         /\ j.in.targets \in Seq(Range(j.in.targets))
         /\ \A t \in Range(j.in.targets) : t.fails \in BOOLEAN /\ t.label \in Seq(Range(t.label))
    /\ j.tool = "bootstrap" =>
         /\ j.in.files \in Seq(Range(j.in.files))
         /\ j.in.dest \in [DOMAIN j.in.dest -> Range(j.in.dest)]
         /\ \A f \in Range(j.in.files) : /\ f.name \in DOMAIN j.in.dest
                                         /\ f.kind \in {"ok", "include", "syntax", "undefined", "unread", "late"}
         /\ \A i, k \in DOMAIN j.in.files : j.in.files[i].name = j.in.files[k].name => i = k

VARIABLES job, out

toolsVars == <<job, out>>

ToolsInit == job \in Jobs /\ out = Pending

----------------------------------------------------------------------------
\* The lines that were hit, and the branches that were taken.
HitLines(cov) == {i \in DOMAIN cov.lines : cov.lines[i].hits > 0}
Taken(cov) == {i \in DOMAIN cov.branches : cov.branches[i] \notin {"-", "0"}}

\* The report that bazel leaves for what the tests have covered (external).
Record(f, cov) ==
  <<[k |-> "SF", f |-> f], [k |-> "FN"]>>
  \o [i \in 1..Len(cov.branches) |->
        [k |-> "BRDA", line |-> 1, branch |-> i, hits |-> cov.branches[i]]]
  \o <<[k |-> "BRF", n |-> Len(cov.branches)],
       [k |-> "BRH", n |-> Cardinality(Taken(cov))]>>
  \o [i \in 1..Len(cov.lines) |->
        [k |-> "DA", line |-> cov.lines[i].line, hits |-> cov.lines[i].hits]]
  \o <<[k |-> "LH", n |-> Cardinality(HitLines(cov))],
       [k |-> "LF", n |-> Len(cov.lines)], [k |-> "end_of_record"]>>

AddRecord(report, cov) == report \o Record(cov.file, cov)
lcov(covs) == FoldLeft(AddRecord, <<>>, covs)

Coverage ==
  /\ job.tool = "coverage" /\ out = Pending
  /\ out' = coverage([lcov |-> lcov(job.in.covs), bazel |-> job.in.bazel,
                      lines |-> job.in.lines, branch |-> job.in.branch,
                      file_lines |-> job.in.file_lines, file_branch |-> job.in.file_branch])
  /\ UNCHANGED job

Mounts ==
  /\ job.tool = "mounts" /\ out = Pending
  /\ out' = [mounts |-> get_minimal_mounts(job.in.fs, job.in.root, job.in.existing)]
  /\ UNCHANGED job

Bep ==
  /\ job.tool = "bep" /\ out = Pending
  /\ out' = bep(job.in)
  /\ UNCHANGED job

Bootstrap ==
  /\ job.tool = "bootstrap" /\ out = Pending
  /\ out' = bootstrap(job.in)
  /\ UNCHANGED job

Run ==
  /\ job.tool = "run" /\ out = Pending
  /\ out' = [volumes |-> docker_mounts(job.in)]
  /\ UNCHANGED job

ToolsNext == Coverage \/ Mounts \/ Run \/ Bep \/ Bootstrap

ToolsSpec == ToolsInit /\ [][ToolsNext]_toolsVars

----------------------------------------------------------------------------
Done(tool) == job.tool = tool /\ out # Pending

\* The share of covered lines, or of taken branches, of a file is enough.
Enough(S, T, t) == 100 * t.den * Cardinality(T) >= t.num * Cardinality(S)

\* It is just enough, for a threshold that is not a whole number of percent.
Borderline(S, T, t) ==
  S # {} /\ t.den # 1 /\ 100 * t.den * Cardinality(T) = t.num * Cardinality(S)

\* The thresholds that hold for a file.
LinesOf(in, f)  == IF f \in DOMAIN in.file_lines THEN in.file_lines[f] ELSE in.lines
BranchOf(in, f) == IF f \in DOMAIN in.file_branch THEN in.file_branch[f] ELSE in.branch

Covered(in, cov) ==
  /\ Enough(DOMAIN cov.lines, HitLines(cov), LinesOf(in, cov.file))
  /\ Enough(DOMAIN cov.branches, Taken(cov), BranchOf(in, cov.file))

Exposed(in, cov) ==
  \/ Borderline(DOMAIN cov.lines, HitLines(cov), LinesOf(in, cov.file))
  \/ Borderline(DOMAIN cov.branches, Taken(cov), BranchOf(in, cov.file))

\* bazel did, every threshold is a percentage, and every file of the report reaches
\* the thresholds that hold for it.
Deserved(in) ==
  /\ in.bazel = "ok"
  /\ \A t \in {in.lines, in.branch} \cup Range(in.file_lines) \cup Range(in.file_branch) :
       t.num >= 0 /\ t.num <= 100 * t.den
  /\ \A i \in DOMAIN in.covs : Covered(in, in.covs[i])

\* coverage_report.py succeeds only if it should, and always if it should, but for
\* files that lie exactly at a threshold that is not a whole number of percent:
\* there the rounding of the threshold decides.
VerdictIsExact ==
  Done("coverage") =>
    /\ out.exit = 0 => Deserved(job.in)
    /\ Deserved(job.in) /\ (\A i \in DOMAIN job.in.covs : ~Exposed(job.in, job.in.covs[i]))
         => out.exit = 0

\* It names, for every file, the lines that were not hit, all of them and no other,
\* in the fewest ascending ranges; every branch whose condition was never evaluated,
\* and none that was taken.
GapsAreNamed ==
  Done("coverage") /\ job.in.bazel = "ok" /\ out.missing # <<>> =>
    \A i \in DOMAIN job.in.covs :
      LET cov == job.in.covs[i]
          r   == out.missing[cov.file]
          named == {r.branches[k][2] : k \in DOMAIN r.branches}
      IN  /\ UNION {r.lines[k][1]..r.lines[k][2] : k \in DOMAIN r.lines}
               = {cov.lines[k].line : k \in {n \in DOMAIN cov.lines : cov.lines[n].hits = 0}}
          /\ \A k \in 1..(Len(r.lines) - 1) : r.lines[k][2] + 1 < r.lines[k + 1][1]
          /\ {k \in DOMAIN cov.branches : cov.branches[k] = "-"} \subseteq named
          /\ named \subseteq DOMAIN cov.branches \ Taken(cov)

\* What generate_missing_coverage_report says of itself: nothing is named of a file
\* only if all of its lines and branches are covered.
NothingNamedIsCovered ==
  Done("coverage") /\ job.in.bazel = "ok" /\ out.missing # <<>> =>
    \A i \in DOMAIN job.in.covs :
      LET cov == job.in.covs[i]
      IN  out.missing[cov.file] = [lines |-> <<>>, branches |-> <<>>] =>
            HitLines(cov) = DOMAIN cov.lines /\ Taken(cov) = DOMAIN cov.branches

----------------------------------------------------------------------------
\* The names of the places that a chain of links passes, if it leads anywhere.
Chain(fs, p) ==
  IF exists(fs, p) THEN {fs.norm[Hops(fs, p)[n]] : n \in 1 .. Len(fs.sorted)} ELSE {}

\* Those of the links below a directory, outside of the root.
Outside(fs, root, d) ==
  {t \in UNION {Chain(fs, p) : p \in Links(fs, d)} : ~Under(fs, t, root)}

\* The least set of directories with the root and every directory that is named by a
\* link below one of them.
Reached(fs, root) ==
  LET named == UNION {Chain(fs, p) : p \in {q \in DOMAIN fs.kind : IsLink(fs, q) /\ fs.norm[q] = q}}
      dirs == {t \in named : is_dir(fs, t) /\ ~Under(fs, t, root)}
      leads  == UNION {{d} \X (Outside(fs, root, d) \cap dirs) : d \in dirs \cup {root}}
      closed == {D \in SUBSET dirs : \A e \in leads : e[1] \in D \cup {root} => e[2] \in D}
  IN  {root} \cup {d \in dirs : \A D \in closed : d \in D}

\* What every link of the project names, and in turn every link in the directories so
\* named, is in the project or under a mount: at each step of its chain, by the
\* normalised spelling of the target.
MountsAreClosed ==
  Done("mounts") =>
    LET fs == job.in.fs
        root == resolve(fs, job.in.root)
    IN  \A d \in Reached(fs, root) : \A t \in Outside(fs, root, d) :
          \E m \in out.mounts : Under(fs, t, m)

\* No mount lies under another, and each is so named, or is asked for, or is what the
\* project or something asked for really is.
MountsAreMinimal ==
  Done("mounts") =>
    LET fs == job.in.fs
        root == resolve(fs, job.in.root)
    IN  /\ \A m, n \in out.mounts : Under(fs, m, n) => m = n
        /\ out.mounts \subseteq
             (UNION {Outside(fs, root, d) : d \in Reached(fs, root)})
             \cup job.in.existing \cup {resolve(fs, p) : p \in job.in.existing}
             \cup {root}

\* list_external_mounts.py mounts what the links name, and no more.  A relative link in
\* a directory that was reached through a link may so name what is not where it leads:
\* in the container the directory is mounted by the name of that link, and .. is then
\* above that name.
MountsAreExact == MountsAreClosed /\ MountsAreMinimal

\* Whatever docker_run.py wants in the container is there, by exactly one volume,
\* and what lies in the home directory comes from the host's: unless a mount above
\* the home directory, to which a link of the project leads, takes it in, and then
\* it comes from wherever the host has the command's home directory.
WantedIsMounted ==
  Done("run") =>
    \A p \in WantedMounts(job.in) :
      LET fs == job.in.fs
          on == {v \in out.volumes : Under(fs, p, v.place)}
      IN  /\ Cardinality(on) = 1
          /\ \A v \in on : v.translated <=> /\ Under(fs, p, job.in.home)
                                            /\ v.place = job.in.home \/ ~Under(fs, job.in.home, v.place)

----------------------------------------------------------------------------
\* Behind their last slashes two labels differ at most in colons for underscores.
EndAlike(l, m) ==
  \E n \in 0..Len(l) :
    /\ n <= Len(m)
    /\ n = Len(l) \/ l[Len(l) - n] = "/"
    /\ n = Len(m) \/ m[Len(m) - n] = "/"
    /\ \A d \in 0..(n - 1) :
         LET a == l[Len(l) - d]
             b == m[Len(m) - d]
         IN  "/" \notin {a, b} /\ (a = b \/ {a, b} = {":", "_"})

\* If bep.py succeeds, no target has failed, and the events of every target are in
\* some file, unless a later target has overwritten them: one whose label ends as
\* its own does.
EventsOfEveryTarget ==
  Done("bep") /\ out.exit = 0 =>
    \A i \in DOMAIN job.in.targets :
      LET t == job.in.targets[i]
      IN  /\ ~t.fails
          /\ \/ \E d \in DOMAIN out.file : out.file[d] = t
             \/ \E j \in DOMAIN job.in.targets : i < j /\ EndAlike(job.in.targets[j].label, t.label)

\* A project is reported as bootstrapped only if every file of the template is in
\* place as rendered; a file that was there is lost only to its rendering, or in a
\* run that fails.
BootstrapIsWhole ==
  Done("bootstrap") =>
    \A i \in DOMAIN job.in.files :
      LET f == job.in.files[i]
      IN  /\ out.exit = 0 => out.dest[f.name] = IF f.kind = "include" THEN job.in.dest[f.name] ELSE "rendered"
          /\ f.kind \in {"syntax", "include", "unread"} => out.dest[f.name] = job.in.dest[f.name]

\* bep.py and bootstrap.py work through a list and report success only if every
\* step of it was done; what an earlier step has written stays, or is overwritten
\* by a later one of the same name.
SuccessIsWhole == EventsOfEveryTarget /\ BootstrapIsWhole
=============================================================================
