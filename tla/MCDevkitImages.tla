--------------------------- MODULE MCDevkitImages ---------------------------
(* DevkitImages for TLC: the checkouts and the states to start from.       *)
EXTENDS DevkitImages, TLC

CONSTANTS c1, c2, w1, w2

\* "app" is based on "base"; "tool" is not known to the cleanup.
Tree(base, registry) ==
  [devkit |-> "ok", registry |-> registry, readable |-> TRUE,
   deps |-> [i \in {"base", "app"} |-> IF i = "app" THEN {"base"} ELSE {}],
   file |-> [i \in {"base", "app", "tool"} |-> IF i = "app" THEN "a" ELSE IF i = "base" THEN base ELSE Absent],
   local |-> {}]

One == Tree("b1", {"namespace"})
Two == Tree("b2", {"namespace"})
Shared == Tree("b1", {"host", "project", "repository"})
SharedToo == Tree("b2", {"host", "project", "repository"})
\* The base is not configured, so that the tags cannot be computed.
Open == [One EXCEPT !.deps = [i \in {"app"} |-> {"base"}]]

\* The base has no Dockerfile.
Bare == [One EXCEPT !.file = [@ EXCEPT !["base"] = Absent]]

\* devkit.json is no JSON.
Broken == [One EXCEPT !.devkit = "malformed"]

MCTrees == {One, Two, Shared, SharedToo, Open, Bare, Broken}

\* A configuration may break, and is then repaired.
MCEdits == ({One} \X {Two, Shared, Open, Bare, Broken}) \cup ({Open, Broken} \X {One})

\* An image that the cleanup does not know, and one of a project without a namespace.
Tool  == [prefix |-> parse_registry_config(One), image |-> "tool", parts |-> {}]
Other == [prefix |-> get_image_prefix(Broken), image |-> "app", parts |-> {}]

Start(t, u, made, n) ==
  [src |-> (w1 :> t @@ w2 :> u), work |-> (c1 :> w1 @@ c2 :> w2),
   opts |-> [c \in {c1, c2} |-> {}], made |-> made \cup {Tool}, pushed |-> {}, edits |-> n]

App(t) == {Tag(t, t.file, "app")}

\* Checkouts that disagree; a checkout that is edited once, or twice; a registry that has an old
\* image, and commands with options.
MCStarts ==
  {Start(One, Two, CurrentTags(One), 0),
   Start(One, Open, App(One), 1),
   Start(One, Bare, App(One) \cup {Other}, 2),
   [Start(Shared, SharedToo, {}, 0) EXCEPT !.pushed = App(Shared), !.opts[c2] = {"no_cache"}],
   [Start(Shared, Shared, {Tag(Shared, Shared.file, "base")}, 0) EXCEPT !.opts[c2] = {"local"}]}
=============================================================================
