--------------------------- MODULE CoverageReport ---------------------------
(***************************************************************************)
(* coverage_report.py: runs bazel coverage, parses the LCOV report that it *)
(* leaves, compares every file with its thresholds and names what is not   *)
(* covered.  Lines of the report are records.                              *)
(*                                                                         *)
(* The code compares floating-point numbers: hit / found, which is rounded *)
(* once, with the threshold divided by 100, which is rounded when it is    *)
(* read and again when it is divided.  A threshold is the percentage that  *)
(* was written, num / den, and the side on which the second number comes   *)
(* to lie of the first where the two should be equal: 1 above it, -1 below *)
(* it, 0 if they are equal.  Counts and thresholds are taken to have few   *)
(* enough digits that rounding never brings different ratios together.     *)
(***************************************************************************)
EXTENDS Integers, Sequences, SequencesExt

\* current_file, outside of the record of a file.
NoFile == ""

\* FileCoverage.__init__
NewCoverage == [lf |-> 0, lh |-> 0, bf |-> 0, bh |-> 0, lines |-> <<>>, branches |-> <<>>]

\* A branch without a hit is taken to be the one that is marked "-".
parse_lcov_data_line(cov, l) ==
  CASE l.k = "LF"  -> [cov EXCEPT !.lf = l.n]
    [] l.k = "LH"  -> [cov EXCEPT !.lh = l.n]
    [] l.k = "BRF" -> [cov EXCEPT !.bf = l.n]
    [] l.k = "BRH" -> [cov EXCEPT !.bh = l.n]
    [] l.k = "DA"  -> [cov EXCEPT !.lines = IF l.hits = 0 THEN Append(@, l.line) ELSE @]
    [] l.k = "BRDA" -> [cov EXCEPT !.branches = IF l.hits = "-" THEN Append(@, <<l.line, l.branch>>) ELSE @]
    [] OTHER -> cov

\* Mutant: a new record goes on with the data of the one before.
ReadLineOfAny(st, l) ==
  CASE l.k = "SF" /\ st.cur = NoFile -> [cur |-> l.f, data |-> [f \in {l.f} |-> NewCoverage]]
    [] l.k = "end_of_record" -> st
    [] OTHER -> IF st.cur = NoFile THEN st
                ELSE [st EXCEPT !.data[st.cur] = parse_lcov_data_line(@, l)]

\* The body of the loop of generate_lcov_report.
ReadLine(st, l) ==
  CASE l.k = "SF" -> [cur |-> l.f, data |-> [f \in DOMAIN st.data \cup {l.f} |->
                                               IF f = l.f THEN NewCoverage ELSE st.data[f]]]
    [] l.k = "end_of_record" -> [st EXCEPT !.cur = NoFile]
    [] OTHER -> IF st.cur = NoFile THEN st
                ELSE [st EXCEPT !.data[st.cur] = parse_lcov_data_line(@, l)]

coverage_data(lcov) == FoldLeft(ReadLine, [cur |-> NoFile, data |-> [f \in {} |-> NewCoverage]], lcov).data

\* line_coverage_percent and branch_coverage_percent, against a threshold.
Meets(hit, found, t) ==
  \/ found = 0
  \/ 100 * t.den * hit > t.num * found
  \/ 100 * t.den * hit = t.num * found /\ t.side <= 0

\* The threshold of a file, or the one of the command line.
Threshold(special, f, default) == IF f \in DOMAIN special THEN special[f] ELSE default

\* What print_and_validate_report returns.
Valid(data, lines, branch, file_lines, file_branch) ==
  \A f \in DOMAIN data :
    /\ Meets(data[f].lh, data[f].lf, Threshold(file_lines, f, lines))
    /\ Meets(data[f].bh, data[f].bf, Threshold(file_branch, f, branch))

\* Mutant: neighbours are the numbers that are at most two apart.
GroupLoosely(st, n) ==
  IF n > st.last + 2
  THEN [out |-> Append(st.out, <<st.start, st.last>>), start |-> n, last |-> n]
  ELSE [st EXCEPT !.last = n]

\* The body of the loop of group_consecutive_numbers: a range ends where the next
\* number is not its successor.
Group(st, n) ==
  IF n # st.last + 1
  THEN [out |-> Append(st.out, <<st.start, st.last>>), start |-> n, last |-> n]
  ELSE [st EXCEPT !.last = n]

\* Python's sorted, number by number.
Insert(s, n) ==
  LET k == CHOOSE k \in 0 .. Len(s) : /\ \A i \in 1 .. k : s[i] <= n
                                     /\ \A i \in (k + 1) .. Len(s) : n < s[i]
  IN  InsertAt(s, k + 1, n)
Sorted(numbers) == FoldLeft(Insert, <<>>, numbers)

group_consecutive_numbers(numbers) ==
  IF numbers = <<>> THEN <<>>
  ELSE LET sorted == Sorted(numbers)
           first  == [out |-> <<>>, start |-> Head(sorted), last |-> Head(sorted)]
           end    == FoldLeft(Group, first, Tail(sorted))
       IN  Append(end.out, <<end.start, end.last>>)

\* generate_missing_coverage_report
Missing(cov) == [lines |-> group_consecutive_numbers(cov.lines), branches |-> cov.branches]

\* parse_thresholds_file: a value outside of [0, 100] ends the program.
InRange(t) == 0 <= t.num /\ t.num <= 100 * t.den
ThresholdsOk(special) == \A f \in DOMAIN special : InRange(special[f])

\* main, after the arguments: the exit code, and what the report says.
coverage(in) ==
  IF ~InRange(in.lines) \/ ~InRange(in.branch) \/ ~ThresholdsOk(in.file_lines)
     \/ ~ThresholdsOk(in.file_branch) \/ in.bazel = "fails" \/ in.bazel = "no_report"
  THEN [exit |-> 1, missing |-> <<>>]
  ELSE LET data == coverage_data(in.lcov)
       IN  [exit |-> IF Valid(data, in.lines, in.branch, in.file_lines, in.file_branch) THEN 0 ELSE 1,
            missing |-> [f \in DOMAIN data |-> Missing(data[f])]]
=============================================================================
