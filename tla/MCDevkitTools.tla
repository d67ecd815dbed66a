--------------------------- MODULE MCDevkitTools ---------------------------
(* DevkitTools for TLC: the inputs of the programs.                         *)
EXTENDS DevkitTools

Percent(n) == [num |-> n, den |-> 1, side |-> 0]
\* 94.4 / 100 is above 118 / 125, 93.6 / 100 is below 117 / 125.
Tenths == {[num |-> 944, den |-> 10, side |-> 1], [num |-> 936, den |-> 10, side |-> -1],
           [num |-> 992, den |-> 10, side |-> 0]}

\* Two files; the lines of the first are reported out of order.
Cov(file, hits, branches) ==
  [file |-> file, branches |-> branches,
   lines |-> [i \in 1..Len(hits) |-> [line |-> <<5, 1, 2, 3>>[i], hits |-> hits[i]]]]

NoSpecial == [f \in {} |-> Percent(0)]
Special(f, n) == [g \in {f} |-> Percent(n)]

CoverageIn(a, b, s, lines) ==
  [covs |-> <<a, b>>, bazel |-> "ok", lines |-> lines, branch |-> Percent(50),
   file_lines |-> s, file_branch |-> NoSpecial]

\* A file of 125 lines.
LongCov(file, missed) ==
  [file |-> file, branches |-> <<>>,
   lines |-> [i \in 1..125 |-> [line |-> i, hits |-> IF i <= missed THEN 0 ELSE 1]]]

SmallJobs ==
  {CoverageIn(Cov("a", h, br), Cov("b", <<n>>, <<>>), s, Percent(lines)) :
     h \in [1..4 -> 0..1], br \in [1..2 -> {"-", "0", "1"}], n \in 0..1,
     s \in {NoSpecial, Special("b", 0)}, lines \in {50, 100}}

CoverageJobs ==
  SmallJobs
  \cup
  {[CoverageIn(Cov("a", <<>>, <<>>), Cov("b", <<0>>, <<"1">>), s, Percent(lines)) EXCEPT !.bazel = b, !.file_branch = s] :
     b \in {"ok", "fails", "no_report"}, s \in {NoSpecial, Special("b", 101), Special("b", 0)},
     lines \in {-1, 0, 100, 101}}
  \cup {CoverageIn(LongCov("a", m), Cov("b", <<>>, <<>>), NoSpecial, t) : m \in {1, 2, 7, 8, 9}, t \in Tenths}

\* A tree is a function from the places, sequences of names, to what is there.
Dir == [kind |-> "dir"]
File == [kind |-> "file"]
To(names) == [kind |-> "link", abs |-> TRUE, names |-> names]
Rel(names) == [kind |-> "link", abs |-> FALSE, names |-> names]

\* Where the kernel comes to from a place along some names: to a place, which may not be
\* there; or it gives up.
Gone == <<"gone">>
MaxLinks == 6
RECURSIVE Walk(_, _, _, _, _)
Walk(tree, at, names, follow, fuel) ==
  IF names = <<>> THEN at
  ELSE IF at \notin DOMAIN tree THEN Gone
  ELSE IF tree[at].kind # "dir" THEN Gone
  ELSE LET next == IF names[1] # ".." THEN Append(at, names[1]) ELSE IF at = <<>> THEN at ELSE Front(at)
           link == next \in DOMAIN tree /\ tree[next].kind = "link" /\ (follow \/ Len(names) > 1)
       IN  IF ~link THEN Walk(tree, next, Tail(names), follow, fuel)
           ELSE IF fuel = 0 THEN Nowhere
           ELSE Walk(tree, IF tree[next].abs THEN <<>> ELSE at, tree[next].names \o Tail(names), follow, fuel - 1)

Lstat(tree, p) ==
  LET at == Walk(tree, <<>>, p, FALSE, MaxLinks) IN IF at \in DOMAIN tree THEN tree[at] ELSE [kind |-> "none"]
Real(tree, p) == Walk(tree, <<>>, p, TRUE, MaxLinks)

\* Without names that a .. takes back.
Norm(p) ==
  FoldLeft(LAMBDA s, n : IF n # ".." THEN Append(s, n) ELSE IF s = <<>> THEN s ELSE Front(s), <<>>, p)

Target(tree, p) ==
  LET l == Lstat(tree, p)
  IN  IF Real(tree, p) = Nowhere THEN Nowhere ELSE (IF l.abs THEN <<>> ELSE Front(p)) \o l.names

\* What is below a directory, by the name that a link gives it.
Below(tree, d) ==
  LET at == Real(tree, d)
  IN  {d \o SubSeq(q, Len(at) + 1, Len(q)) : q \in {x \in DOMAIN tree : IsPrefix(at, x)}}

IsLinkIn(tree, p) == Lstat(tree, p).kind = "link"
RECURSIVE Spellings(_, _)
Spellings(tree, P) ==
  LET targets == {Target(tree, p) : p \in {q \in P : IsLinkIn(tree, q)}} \ {Nowhere}
      all == P \cup UNION {Prefixes(p) : p \in targets \cup {Norm(t) : t \in targets}}
               \cup UNION {Below(tree, Norm(t)) : t \in targets}
               \cup ({Real(tree, p) : p \in P} \ {Nowhere, Gone})
  IN  IF all = P THEN P ELSE Spellings(tree, all)

FS(tree) ==
  LET P == Spellings(tree, DOMAIN tree)
  IN  [above |-> [p \in P |-> Prefixes(p)],
       kind |-> [p \in P |-> Lstat(tree, p).kind],
       to |-> [p \in {q \in P : IsLinkIn(tree, q)} |-> Target(tree, p)],
       norm |-> [p \in P |-> Norm(p)],
       real |-> [p \in P |-> IF Real(tree, p) \in {Gone, Nowhere} THEN p ELSE Real(tree, p)],
       venv |-> {p \in P : p # <<>> /\ Last(p) = ".venv"},
       bazel |-> {p \in P : p # <<>> /\ Last(p) = "bazel-z"},
       sorted |-> FoldSet(LAMBDA p, ps : Append(ps, p), <<>>, P)]

\* The project is /t/r; /h is a link in place of a directory that is asked for.
Tree(a, b, c, k) ==
  <<>> :> Dir @@ <<"t">> :> Dir @@ <<"t", "y">> :> To(<<"g", "k">>)
  @@ <<"t", "r">> :> Dir @@ <<"t", "r", "a">> :> a @@ <<"t", "r", "bazel-z">> :> To(<<"e", "s">>)
  @@ <<"t", "r", "d">> :> Dir @@ <<"t", "r", "d", "b">> :> b
  @@ <<"t", "r", ".venv">> :> Dir @@ <<"t", "r", ".venv", "l">> :> To(<<"e", "s">>)
  @@ <<"e">> :> Dir @@ <<"e", "c">> :> c @@ <<"e", "s">> :> Dir @@ <<"e", "s", "x">> :> Dir
  @@ <<"f">> :> File @@ <<"g">> :> Dir @@ <<"g", "k">> :> k
  @@ <<"h">> :> To(<<"g">>) @@ <<"p">> :> To(<<"t", "r">>)

Broken == To(<<"n">>)

\* Trees that have more spellings than this are left out.
MaxPaths == 36
Small(fs) == Len(fs.sorted) <= MaxPaths

\* With /t/r/a to /e/c to /g and /g/k to ../f, /e/f is named, which no link leads to.
MountsJobs ==
  {in \in {[fs |-> FS(Tree(a, b, c, k)), root |-> root, existing |-> {<<"h">>}] :
     a \in {Rel(<<"d", "b">>), To(<<"e", "c">>), To(<<"t">>), To(<<"t", "r", ".venv">>), Broken},
     b \in {Rel(<<"..", "..", "..", "e", "c">>), To(<<"e", "s">>), To(<<"t", "r", "a">>), Broken},
     c \in {Rel(<<"..", "g", "k">>), To(<<"g">>), To(<<"t", "r", "a">>), Rel(<<"s">>), Broken},
     k \in {Rel(<<"..", "f">>), To(<<"e">>), Rel(<<"..", "e", "c">>), Broken}, root \in {<<"t", "r">>, <<"p">>}} : Small(in.fs)}

\* The home directory is /e/s; that of the host is another.
RunJobs ==
  {in \in {[fs |-> FS(Tree(a, To(<<"e", "c">>), c, k)), root |-> <<"t", "r">>, cwd |-> <<"t", "r", "d">>,
    home |-> <<"e", "s">>, system |-> {<<"h">>}, wanted |-> {<<"e", "s", "x">>}, git |-> g] :
     a \in {To(<<"e">>), To(<<"e", "s">>), To(<<"e", "c">>), To(<<"t">>), Broken},
     c \in {Rel(<<"..", "g", "k">>), To(<<"e", "s">>), Broken},
     k \in {Rel(<<"..", "f">>), To(<<"e">>), Broken},
     g \in {<<"g">>, <<"t", "r", "d">>, <<"t", "r">>, <<"e", "s">>, Nowhere}} : Small(in.fs)}

\* //p:x, //q/p:x and //p/q:x; //q/a_b:c and //a:b_c, which share a file; //q:p/x, which
\* shares one with //x.
Labels ==
  {<<"/", "/", "p", ":", "x">>, <<"/", "/", "q", "/", "p", ":", "x">>,
   <<"/", "/", "p", "/", "q", ":", "x">>,
   <<"/", "/", "q", "/", "a", "_", "b", ":", "c">>, <<"/", "/", "a", ":", "b", "_", "c">>,
   <<"/", "/", "q", ":", "p", "/", "x">>, <<"/", "/", "x">>}
Targets == [label : Labels, fails : BOOLEAN]
BepJobs ==
  {[targets |-> ts, fails |-> b, dirs |-> <<[path |-> "x/y", devkit |-> d], [path |-> "x", devkit |-> d]>>] :
     ts \in UNION {[1..n -> Targets] : n \in 0..2}, d \in BOOLEAN, b \in BOOLEAN}

BootstrapJobs ==
  {[files |-> [i \in 1..3 |-> [name |-> <<"m", "n", "o">>[i], kind |-> ks[i]]],
    dest |-> [n \in {"m", "n", "o"} |-> "old"], args |-> a, template |-> t] :
     ks \in [1..3 -> {"ok", "include", "syntax", "undefined", "unread", "late"}],
     a \in {"ok", "malformed"}, t \in {"there", "missing"}}

Job(tool, ins) == {[tool |-> tool, in |-> i] : i \in ins}
MCJobs ==
  Job("coverage", CoverageJobs) \cup Job("mounts", MountsJobs) \cup Job("run", RunJobs)
  \cup Job("bep", BepJobs) \cup Job("bootstrap", BootstrapJobs)

SmallCoverage == Job("coverage", SmallJobs)
=============================================================================
