------------------------------ MODULE EvalSuites ------------------------------
(* What the evaluation scripts make of a service's answers, an agent's work   *)
(* and a text's citations: scripts/run_suite_b.py, run_suite_d.py,            *)
(* verify-citations.py and compare_hallucination_baseline.py.                 *)
(*                                                                            *)
(* Strings are model values, "contains" is membership.  Rates are fractions   *)
(* <<n, d>> and limits are percentages.  A difference of two floating point   *)
(* rates that equals its limit may fall to either side, so a comparison of a  *)
(* difference gives the set of its possible values, and so does a light.      *)
EXTENDS Integers, FiniteSets, Sequences

CONSTANTS Gold,           \* [tests -> [critical, min, matches]]
          TopK,           \* results looked at
          Thresholds,     \* [min, max, yellow, red] of the delta suite
          CitedBaseline,  \* {} or {the committed [total, verified, failed]}
          MinCitations    \* fewer make no hallucination signal

GlobLimit == 500

-----------------------------------------------------------------------------
(* Rates.                                                                     *)
Rate(n, d) == IF d = 0 THEN <<0, 1>> ELSE <<n, d>>
Minus(a, b) == <<a[1] * b[2] - b[1] * a[2], a[2] * b[2]>>
Above(rate, limit) == 100 * rate[1] > limit * rate[2]
AtLeast(diff, limit) ==
  IF 100 * diff[1] = limit * diff[2] THEN BOOLEAN ELSE {Above(diff, limit)}
Below(diff, limit) == {~b : b \in AtLeast(diff, limit)}

-----------------------------------------------------------------------------
(* Suite B.  An answer is a sequence of results, each the values its fields   *)
(* contain; one that is not an answer ends the script without a report.       *)
Candidates(answer) == SubSeq(answer, 1, IF Len(answer) < TopK THEN Len(answer) ELSE TopK)
MatchCondition(values, candidates) == \E i \in 1..Len(candidates) : candidates[i] \cap values # {}
EvaluateTest(test, answer) ==
  LET candidates == Candidates(answer)
  IN  [critical |-> test.critical,
       hit |-> /\ Len(candidates) >= test.min
               /\ \A values \in test.matches : MatchCondition(values, candidates)]
Evaluate(answers) == [t \in DOMAIN answers |-> EvaluateTest(Gold[t], answers[t])]

PassRate(results) ==
  Rate(Cardinality({t \in DOMAIN results : results[t].hit}), Cardinality(DOMAIN results))

(* Only tests of both are compared.  A test is critical when either says so.  *)
Regressions(base, results) ==
  {t \in DOMAIN base \cap DOMAIN results : base[t].hit /\ ~results[t].hit}
(* Mutant of CriticalRegressions: critical only where the baseline says so.   *)
CriticalRegressionsOfBaseline(base, results) ==
  {t \in Regressions(base, results) : base[t].critical}
CriticalRegressions(base, results) ==
  {t \in Regressions(base, results) : base[t].critical \/ results[t].critical}
DiffVsBaseline(base, results) ==
  LET drop == Minus(PassRate(base), PassRate(results))
  IN  {IF CriticalRegressions(base, results) # {} \/ red THEN "red"
       ELSE IF Regressions(base, results) # {} \/ yellow THEN "yellow" ELSE "green" :
         red \in AtLeast(drop, 10), yellow \in AtLeast(drop, 5)}
(* committed is {} when there is no baseline file.                            *)
SuiteBStatuses(committed, results) ==
  IF committed = {} THEN {"none"} ELSE UNION {DiffVsBaseline(base, results) : base \in committed}

-----------------------------------------------------------------------------
(* Citations: the type, what is there ("present", "absent", "beyond" the last *)
(* line, "unreadable", "unreachable"), and a number to tell them apart.  A    *)
(* file that cannot be read stays verified; only the KOI API, which the       *)
(* workflow does not use, may skip a citation.                                *)
Outcome(c) ==
  CASE c.type = "file_path" -> IF c.there \in {"absent", "unreachable"} THEN "failed" ELSE "verified"
    [] c.type = "file_line" -> IF c.there \in {"present", "unreadable"} THEN "verified" ELSE "failed"
    [] c.type \in {"github_url", "symbol"} -> IF c.there = "present" THEN "verified" ELSE "failed"
    [] c.type = "koi_symbol" ->
         IF c.there = "unreachable" THEN "skipped" ELSE IF c.there = "present" THEN "verified" ELSE "failed"
VerifyCitations(citations) ==
  LET count(outcome) == Cardinality({c \in citations : Outcome(c) = outcome})
  IN  [total |-> Cardinality(citations), verified |-> count("verified"), failed |-> count("failed")]
Verifiable(s) == s.verified + s.failed
VerifiedRate(s) == Rate(s.verified, Verifiable(s))
HallucinationRate(s) == Rate(s.failed, Verifiable(s))

NoCitations == [total |-> 0, verified |-> 0, failed |-> 0]

(* The hallucination diff: the absolute limit comes before the baseline.      *)
HallucinationStatuses(current, threshold) ==
  IF current.total < MinCitations THEN {"insufficient_data"}
  ELSE IF Above(HallucinationRate(current), threshold) THEN {"red"}
  ELSE IF \A base \in CitedBaseline : base.total < MinCitations THEN {"no_baseline"}
  ELSE UNION {LET delta == Minus(HallucinationRate(current), HallucinationRate(base))
              IN  {IF red THEN "red" ELSE IF yellow THEN "yellow" ELSE "green" :
                     red \in AtLeast(delta, 10), yellow \in AtLeast(delta, 5)} : base \in CitedBaseline}

-----------------------------------------------------------------------------
(* Suite D.  An agent's run: whether the SDK ended without an error, the      *)
(* files there are, [path -> [glob matches, strings, citations, verifiable]], *)
(* the tools it called and what its shell commands contain.                   *)
CheckFailures(checks, run) ==
  LET there == DOMAIN run.files
      matching(glob) == {p \in there : glob \in run.files[p].globs}
  IN  {<<"missing path", p>> : p \in checks.paths \ there}
      \cup {<<"glob", g>> : g \in {x \in checks.globs : Cardinality(matching(x)) \notin 1..GlobLimit}}
      \cup {<<"missing strings", f.path>> : f \in {x \in checks.contains :
              x.path \notin there \/ ~(x.strings \subseteq run.files[x.path].strings)}}
      \cup {<<"missing tool", t>> : t \in checks.tools \ run.tools}
      \cup IF checks.commands = {} \/ checks.commands \cap run.commands # {} THEN {} ELSE {<<"missing command">>}
EvaluateChecks(checks, run) == CheckFailures(checks, run) = {}

(* A scenario fails on an SDK error or a failed check, and the next one runs. *)
ScenarioPasses(checks, run) == run.sdk /\ EvaluateChecks(checks, run)
SuiteDFailed(scenarios, runs) == \E s \in DOMAIN runs : ~ScenarioPasses(scenarios[s], runs[s])

(* One variant of a pair.  Artifacts that are missing, and citations that     *)
(* could not be verified, are recorded as errors and count for nothing.       *)
AggregateCitations(artifacts, run) ==
  LET read == {p \in artifacts \cap DOMAIN run.files : run.files[p].verifiable}
      citations == UNION {{<<p, c>> : c \in run.files[p].citations} : p \in read}
      count(outcome) == Cardinality({pc \in citations : Outcome(pc[2]) = outcome})
  IN  [total |-> Cardinality(citations), verified |-> count("verified"), failed |-> count("failed")]
Variant(checks, artifacts, run) ==
  [passed |-> ScenarioPasses(checks, run),
   citations |-> IF run.sdk THEN AggregateCitations(artifacts, run) ELSE NoCitations]

(* The light of a pair.  A limit of zero counts as a missing one.             *)
Or(limit, default) == IF limit = 0 THEN default ELSE limit
(* Mutant of Unfounded: no citations at all is no bad citation.               *)
UnfoundedIfBad(baseline, koi) ==
  \/ ~baseline.passed \/ ~koi.passed
  \/ Above(HallucinationRate(koi.citations), Or(Thresholds.max, 100))
Unfounded(baseline, koi) ==
  \/ ~baseline.passed \/ ~koi.passed
  \/ Thresholds.min # 0 /\ Verifiable(koi.citations) < Thresholds.min
  \/ Above(HallucinationRate(koi.citations), Or(Thresholds.max, 100))
TrafficLights(baseline, koi) ==
  LET delta == Minus(VerifiedRate(koi.citations), VerifiedRate(baseline.citations))
  IN  IF Unfounded(baseline, koi) THEN {"red"}
      ELSE {IF red THEN "red" ELSE IF yellow THEN "yellow" ELSE "green" :
              red \in Below(delta, Or(Thresholds.red, -100)),
              yellow \in Below(delta, Or(Thresholds.yellow, -100))}
Overall(lights) ==
  IF "red" \in lights THEN "red" ELSE IF "yellow" \in lights THEN "yellow" ELSE "green"
=============================================================================
