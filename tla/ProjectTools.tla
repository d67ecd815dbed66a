---------------------------- MODULE ProjectTools ----------------------------
(***************************************************************************)
(* Three small programs of the development kit: find_project_root.py,      *)
(* bep.py, which has bazel write its build events for each of some         *)
(* targets, and bootstrap.py, which instantiates a template.               *)
(***************************************************************************)
EXTENDS Naturals, Sequences, SequencesExt

NotFound == "not found"

\* Directories from the current one up to the topmost, and whether each has an
\* entry named devkit.  PWD, which keeps links, goes before the resolved path.
find_project_root(dirs) ==
  LET has == {i \in 1..Len(dirs) : dirs[i].devkit}
  IN  IF has = {} THEN NotFound ELSE dirs[CHOOSE i \in has : \A j \in has : i <= j].path

----------------------------------------------------------------------------
(* bep.py.  The label of a target is a sequence of words and of the signs   *)
(* "/", ":" and "_", each a token of its own.                               *)

\* Mutant: only what follows the colon is kept.
SanitizedToName(t) ==
  SubSeq(t.label, SelectLastInSeq(t.label, LAMBDA x : x = ":") + 1, Len(t.label))

\* replace(":", "_").split("/")[-1]: the directory of its events.
Sanitized(t) ==
  LET flat == [i \in DOMAIN t.label |-> IF t.label[i] = ":" THEN "_" ELSE t.label[i]]
  IN  SubSeq(flat, SelectLastInSeq(flat, LAMBDA x : x = "/") + 1, Len(flat))

\* One turn of the loop of generate_bazel_events_folder: the directory, and the
\* command, which writes the events of the target whether or not it fails.
BepStep(st, t) ==
  IF st.exit # 0 THEN st
  ELSE [exit |-> IF t.fails THEN 1 ELSE 0,
        file |-> [n \in DOMAIN st.file \cup {Sanitized(t)} |->
                    IF n = Sanitized(t) THEN t ELSE st.file[n]]]

\* Without targets it is one command, for all of them, and one file, in the output
\* directory itself.
All == [label |-> <<>>, fails |-> FALSE]

bep(in) ==
  LET none == [file |-> [n \in {} |-> All], exit |-> 0]
      all  == <<[All EXCEPT !.fails = in.fails]>>
  IN  IF find_project_root(in.dirs) = NotFound THEN [none EXCEPT !.exit = 1]
      ELSE FoldLeft(BepStep, none, IF in.targets = <<>> THEN all ELSE in.targets)

----------------------------------------------------------------------------
(* bootstrap.py.  What becomes of a file of the template:                   *)
(*   "ok"        it is rendered                                             *)
(*   "include"   it is only there for others to include                     *)
(*   "syntax"    jinja2 cannot parse it: nothing is written                 *)
(*   "undefined" a name has no value, or a file that it includes cannot be  *)
(*               parsed: that shows once the file is open                   *)
(*   "unread"    it cannot be read, which ends the program                  *)
(*   "late"      another exception of its rendering, which does so as well  *)

\* Mutant: an undefined name is not an error.
BootstrapStepLenient(st, f) ==
  IF st.stopped \/ f.kind = "include" THEN st
  ELSE CASE f.kind = "ok" -> [st EXCEPT !.dest[f.name] = "rendered"]
         [] f.kind = "syntax" -> [st EXCEPT !.error = TRUE]
         [] f.kind = "undefined" -> [st EXCEPT !.dest[f.name] = "empty"]
         [] f.kind = "unread" -> [st EXCEPT !.stopped = TRUE]
         [] f.kind = "late" -> [st EXCEPT !.stopped = TRUE, !.dest[f.name] = "empty"]

\* One turn of the loop of copy_and_template.
BootstrapStep(st, f) ==
  IF st.stopped \/ f.kind = "include" THEN st
  ELSE CASE f.kind = "ok" -> [st EXCEPT !.dest[f.name] = "rendered"]
         [] f.kind = "syntax" -> [st EXCEPT !.error = TRUE]
         [] f.kind = "undefined" -> [st EXCEPT !.error = TRUE, !.dest[f.name] = "empty"]
         [] f.kind = "unread" -> [st EXCEPT !.stopped = TRUE]
         [] f.kind = "late" -> [st EXCEPT !.stopped = TRUE, !.dest[f.name] = "empty"]

\* main: an argument without "=", a template that is not there, and any error of a
\* file make the program fail; only some of them before it has written.
bootstrap(in) ==
  LET start == [dest |-> in.dest, error |-> FALSE, stopped |-> FALSE]
      end   == FoldLeft(BootstrapStep, start, in.files)
  IN  IF in.args = "malformed" \/ in.template = "missing" THEN [dest |-> in.dest, exit |-> 1]
      ELSE [dest |-> end.dest, exit |-> IF end.error \/ end.stopped THEN 1 ELSE 0]
=============================================================================
