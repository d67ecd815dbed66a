--------------------------- MODULE ExternalMounts ---------------------------
(***************************************************************************)
(* list_external_mounts.py: what a container has to mount so that the      *)
(* symbolic links of the project lead somewhere in it; and docker_run.py,  *)
(* which adds what programs need and mounts it.  A path is a spelling:     *)
(* several may name one place, for links and .. may occur in it.  A file   *)
(* system is a record with, for each path,                                 *)
(*   above   the paths that it begins with, itself included                *)
(*   kind    what lstat says of it: "link", "dir", "file" or "none"        *)
(*   to      of a link: its directory / its target, or nowhere if the      *)
(*           links go round                                                *)
(*   norm    os.path.normpath of it                                        *)
(*   real    what Path.resolve makes of it, if it is not a link            *)
(* and the paths with last name .venv, those whose last name begins with   *)
(* bazel-, and all of them in an order.                                    *)
(***************************************************************************)
EXTENDS Naturals, Sequences, SequencesExt, FiniteSets

Nowhere == <<"nowhere">>

IsLink(fs, p) == fs.kind[p] = "link"
Under(fs, p, d) == d \in fs.above[p]

\* One hop along a chain of links, which stays where it ends.
Hop(fs, p) == IF p # Nowhere /\ IsLink(fs, p) THEN fs.to[p] ELSE p

\* Where it comes to from p: to its end, if it does not go round, after no more hops
\* than there are places.
Hops(fs, p) ==
  LET at[n \in 0 .. Len(fs.sorted)] == IF n = 0 THEN p ELSE Hop(fs, at[n - 1])
  IN  at

\* The end of a chain; nowhere, for one that goes round.
End(fs, p) ==
  LET at == Hops(fs, p)
      Ends(n) == at[n] = Nowhere \/ ~IsLink(fs, at[n])
  IN  IF \E n \in 0 .. Len(fs.sorted) : Ends(n) THEN at[CHOOSE n \in 0 .. Len(fs.sorted) : Ends(n)]
      ELSE Nowhere

exists(fs, p) == End(fs, p) # Nowhere /\ fs.kind[End(fs, p)] # "none"
is_dir(fs, p) == End(fs, p) # Nowhere /\ fs.kind[End(fs, p)] = "dir"

\* Path.resolve, which does not ask for the path to exist, but raises an exception if
\* the links go round.
resolve(fs, p) == IF End(fs, p) = Nowhere THEN Nowhere ELSE fs.real[End(fs, p)]

\* Some places, in the order of their paths.
ByPath(fs, S) ==
  LET Next(s, p) == IF p \in S THEN Append(s, p) ELSE s
  IN  FoldLeft(Next, <<>>, fs.sorted)

\* os.walk of a directory, which is named as it was found: the links below it that are
\* looked at.  It goes down plain directories only, but not into .venv.
Links(fs, d) ==
  {p \in DOMAIN fs.kind :
     /\ IsLink(fs, p) /\ fs.norm[p] = p /\ p # d /\ Under(fs, p, d)
     /\ \A q \in fs.above[p] \ (fs.above[d] \cup {p}) : fs.kind[q] = "dir" /\ q \notin fs.venv
     /\ ~(p \in fs.venv /\ is_dir(fs, p))
     /\ p \notin fs.bazel}

\* Mutant: only the end of the chain is kept.
EndOfSymlink(fs, root, p, st) ==
  LET t == resolve(fs, p)
  IN  IF ~exists(fs, p) \/ Under(fs, t, root) \/ t \in st.found THEN st
      ELSE [work |-> IF is_dir(fs, t) THEN Append(st.work, t) ELSE st.work,
            found |-> st.found \cup {t}]

Leads(fs, p) == IsLink(fs, p) /\ exists(fs, fs.to[p])

\* One turn of its loop: a target outside of the root is kept, normalised, and is
\* looked at in turn if it is a directory by that name; the chain goes on from the
\* target as it is.
FollowLink(fs, root, st) ==
  LET t == fs.to[st.at]
      n == fs.norm[t]
      new == ~Under(fs, n, root) /\ n \notin st.found
  IN  IF Leads(fs, st.at)
      THEN [at |-> t,
            work |-> IF new /\ is_dir(fs, n) THEN Append(st.work, n) ELSE st.work,
            found |-> IF new THEN st.found \cup {n} ELSE st.found]
      ELSE st

\* Follows a chain to its end: st is the worklist and the external paths.
_process_symlink(fs, root, p, st) ==
  LET turn[n \in 0 .. Len(fs.sorted)] ==
        IF n = 0 THEN [at |-> p, work |-> st.work, found |-> st.found]
        ELSE FollowLink(fs, root, turn[n - 1])
      end == turn[CHOOSE n \in 0 .. Len(fs.sorted) : ~Leads(fs, turn[n].at)]
  IN  [work |-> end.work, found |-> end.found]

\* One turn of the loop of list_external_mounts.
ScanNext(fs, root, st) ==
  LET d == Head(st.work)
      rest == [work |-> Tail(st.work), found |-> st.found]
      Follow(s, p) == _process_symlink(fs, root, p, s)
      end == FoldLeft(Follow, rest, ByPath(fs, Links(fs, d)))
  IN  IF st.work = <<>> THEN st
      ELSE IF d \in st.scanned THEN [st EXCEPT !.work = Tail(@)]
      ELSE [work |-> end.work, found |-> end.found, scanned |-> st.scanned \cup {d}]

\* The loop: the root is looked at, and every place that is found at most once.
list_external_mounts(fs, root) ==
  LET top == resolve(fs, root)
      turn[n \in 0 .. Len(fs.sorted) + 1] ==
        IF n = 0 THEN [work |-> <<top>>, found |-> {}, scanned |-> {}]
        ELSE ScanNext(fs, top, turn[n - 1])
  IN  turn[CHOOSE n \in 0 .. Len(fs.sorted) + 1 : turn[n].work = <<>>].found

Keep(fs, kept, p) ==
  IF \E q \in kept : Under(fs, p, q) THEN kept
  ELSE {q \in kept : ~Under(fs, q, p)} \cup {p}

_minimize_paths(fs, paths) ==
  LET Next(kept, p) == Keep(fs, kept, p)
  IN  FoldLeft(Next, {}, ByPath(fs, paths))

get_minimal_mounts(fs, root, existing) ==
  _minimize_paths(fs,
    list_external_mounts(fs, root) \cup existing
    \cup {resolve(fs, p) : p \in existing}
    \cup (IF IsLink(fs, root) THEN {resolve(fs, root)} ELSE {}))

----------------------------------------------------------------------------
(* docker_run.py, main: the volumes.                                        *)

\* Sockets, directories and files of the home directory (made if they are not
\* there), and a git directory that is not below the current one.
WantedMounts(in) ==
  in.system \cup in.wanted
  \cup (IF in.git # Nowhere /\ ~Under(in.fs, in.git, in.cwd) THEN {in.git} ELSE {})

\* Mutant: only the home directory itself is translated.
VolumeOfHome(in, p) == [place |-> p, translated |-> p = in.home]

\* In a container that starts another one the home directory of the host is not
\* the command's: what lies in it is mounted from the former, and is found in the
\* home directory of the new container.
Volume(in, p) == [place |-> p, translated |-> Under(in.fs, p, in.home)]

docker_mounts(in) == {Volume(in, p) : p \in get_minimal_mounts(in.fs, in.root, WantedMounts(in))}
=============================================================================
