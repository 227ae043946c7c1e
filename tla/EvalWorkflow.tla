----------------------------- MODULE EvalWorkflow -----------------------------
(* .github/workflows/full-stack-tests.yml, whose runs measure, persist their  *)
(* reports on the branch eval-reports and alert, and weekly-eval-digest.yml   *)
(* with scripts/aggregate_weekly_evals.py, which rolls the branch up.         *)
(*                                                                            *)
(* A job runs its steps in order.  A step without always() is skipped once a  *)
(* step has failed; a step with continue-on-error does not count as failed.   *)
(* Several jobs may run at once, started by schedule or by hand: they share   *)
(* the branch.  Time is counted in ticks, TicksPerDay of them in a day, the   *)
(* first at midnight.                                                         *)
EXTENDS EvalSuites

CONSTANTS Jobs,
          Requests,       \* [Jobs -> the suites that may be asked for]
          GoldBaselines,  \* [Jobs -> what the baseline file of suite B may be: {} or {results}]
          Answers,        \* [Jobs -> sets of [tests -> answers]], what suite B may meet
          Scenarios,      \* [ids -> checks] of suite D
          Pairs,          \* [ids -> [baseline, koi, artifacts]] of the delta suite
          AgentRuns,      \* [Jobs -> what an agent may leave]
          ResultTexts,    \* [Jobs -> the citations a results file may hold]
          Threshold,      \* hallucination_threshold, a percentage
          WindowDays, TicksPerDay,
          MaxTroubles,    \* bound: [Jobs -> how many of a job's steps meet trouble]
          MinTime, MaxTime, MaxDigests   \* bounds

(* The repository keeps one baseline file of suite B, or none.                *)
ASSUME BaselineAssumption ==
  \A j \in Jobs : \A committed \in GoldBaselines[j] : \A a, b \in committed : a = b

(* The delta suite limits what may be bad, and agents leave finitely much.    *)
ASSUME AgentsAssumption ==
  /\ Thresholds.min \in Nat /\ Thresholds.max \in Nat \ {0}
  /\ \A j \in Jobs : \A run \in AgentRuns[j] :
       /\ IsFiniteSet(DOMAIN run.files)
       /\ \A p \in DOMAIN run.files : IsFiniteSet(run.files[p].citations)

ASSUME TimeAssumption == MinTime \in Nat /\ WindowDays \in Nat /\ TicksPerDay \in Nat \ {0}

VARIABLES jobs, branch, tip, now, digest, digests
workflowVars == <<jobs, branch, tip, now, digest, digests>>

NotRun == [suite |-> "none", stamp |-> 0, status |-> "not_run", rate |-> FALSE]
Report(suite, status, rate) == [suite |-> suite, stamp |-> now, status |-> status, rate |-> rate]
Path(report) == <<report.stamp, report.suite>>

NewJob == [step |-> "idle", suite |-> "none", ok |-> TRUE, preflight |-> "unknown", contract |-> "skipped",
           suite_b |-> NotRun, missed |-> FALSE, suite_d |-> NotRun, delta |-> NotRun, grounded |-> TRUE,
           results |-> "none", cited |-> "unset", counts |-> NoCitations, halluc |-> NotRun, base |-> 0,
           alerted |-> FALSE, broke |-> FALSE, troubles |-> 0]
NoDigest == [posted |-> FALSE, failed |-> FALSE, headline |-> "green"]

WorkflowInit ==
  /\ jobs = [j \in Jobs |-> NewJob]
  /\ branch = {} /\ tip = 0
  /\ now = MinTime
  /\ digest = NoDigest /\ digests = 0

-----------------------------------------------------------------------------
At(j, step) == jobs[j].step = step
Set(j, job) == jobs' = [jobs EXCEPT ![j] = job]
(* A step meets trouble: a service or GitHub does not answer, a script ends   *)
(* with an exception.                                                         *)
Trouble(j, job) ==
  /\ jobs[j].troubles < MaxTroubles[j]
  /\ Set(j, [job EXCEPT !.troubles = @ + 1])
Local == UNCHANGED <<branch, tip, now, digest, digests>>
Wants(j, suites) == jobs[j].suite \in suites

(* Reduction: the steps up to the diff read and write nothing that is shared, *)
(* so that one job is through with them before another starts.                *)
Measuring(j) == jobs[j].step \notin {"idle", "persist", "push", "alert", "done"}

(* missed, grounded and broke are history: a critical test was hit and is     *)
(* missed now, every pair's KOI side was measured, a script wrote no report.  *)
(* A scheduled run is preflight-only, on Sundays all of it.                   *)
Start(j) ==
  /\ At(j, "idle") /\ \A other \in Jobs : ~Measuring(other)
  /\ \E suite \in Requests[j] : Set(j, [jobs[j] EXCEPT !.step = "preflight", !.suite = suite])
  /\ Local

(* Two queries of the service.  Without an answer the step fails and there is *)
(* no preflight_result.json; the next step that runs is the first always().   *)
Preflight(j) ==
  /\ At(j, "preflight")
  /\ \/ Set(j, [jobs[j] EXCEPT !.step = "contract", !.preflight = "pass"])
     \/ Trouble(j, [jobs[j] EXCEPT !.step = "contract", !.preflight = "fail"])
     \/ Trouble(j, [jobs[j] EXCEPT !.step = "persist", !.ok = FALSE])
  /\ Local

Contract(j) ==
  /\ At(j, "contract")
  /\ \/ Set(j, [jobs[j] EXCEPT !.step = "suite_b", !.contract = "success"])
     \/ Trouble(j, [jobs[j] EXCEPT !.step = "suite_b", !.contract = "failure"])
  /\ Local

(* The directory of the reports is not in the repository: the first script of *)
(* a job that writes a report makes it.  A step whose script ends without one *)
(* writes a report itself, which has no pass rate, if there is the directory; *)
(* else that fails too, and the step ends with no report and no status.       *)
ReportsOf(job) == {job.suite_b, job.suite_d, job.delta, job.halluc} \ {NotRun}
HasDirectory(j) == ReportsOf(jobs[j]) # {}
(* Mutant of Synthesized: the status of a report that is not there.           *)
SynthesizedUnknown(j, suite, status) == IF HasDirectory(j) THEN Report(suite, "unknown", FALSE) ELSE NotRun
Synthesized(j, suite, status) == IF HasDirectory(j) THEN Report(suite, status, FALSE) ELSE NotRun

SuiteB(j) ==
  /\ At(j, "suite_b")
  /\ IF Wants(j, {"preflight-only"}) THEN Set(j, [jobs[j] EXCEPT !.step = "suite_d"])
     ELSE \/ \E answers \in Answers[j], committed \in GoldBaselines[j] :
               LET results == Evaluate(answers)
               IN  \E status \in SuiteBStatuses(committed, results) :
               Set(j, [jobs[j] EXCEPT !.step = "suite_d", !.suite_b = Report("suite_b", status, TRUE),
                         !.missed = \E base \in committed : \E t \in DOMAIN base \cap DOMAIN results :
                                      base[t].hit /\ ~results[t].hit /\ Gold[t].critical])
          \/ Trouble(j, [jobs[j] EXCEPT !.step = "suite_d", !.suite_b = Synthesized(j, "suite_b", "red"), !.broke = TRUE])
  /\ Local

(* Suite D names its results file before it runs; a failed scenario shows in  *)
(* the report alone.                                                          *)
SuiteD(j) ==
  /\ At(j, "suite_d")
  /\ IF ~Wants(j, {"tier1", "all"}) THEN Set(j, [jobs[j] EXCEPT !.step = "suite_d_delta"])
     ELSE \/ \E runs \in [DOMAIN Scenarios -> AgentRuns[j]] :
               Set(j, [jobs[j] EXCEPT !.step = "suite_d_delta", !.results = "written",
                         !.suite_d = Report("suite_d", IF SuiteDFailed(Scenarios, runs) THEN "failed" ELSE "passed", FALSE)])
          \/ Trouble(j, [jobs[j] EXCEPT !.step = "suite_d_delta", !.results = "missing"])
  /\ Local

(* Whether a pair's KOI side was measured: what the light is meant to rest on.*)
Measured(koi) == /\ koi.passed
                 /\ Verifiable(koi.citations) >= Thresholds.min
                 /\ 100 * koi.citations.failed <= Thresholds.max * Verifiable(koi.citations)
SuiteDDelta(j) ==
  /\ At(j, "suite_d_delta")
  /\ IF ~Wants(j, {"tier1", "delta", "all"}) THEN Set(j, [jobs[j] EXCEPT !.step = "tests"])
     ELSE \/ \E runs \in [(DOMAIN Pairs) \X {"baseline", "koi"} -> AgentRuns[j]] :
               LET baseline(p) == Variant(Pairs[p].baseline, Pairs[p].artifacts, runs[p, "baseline"])
                   koi(p) == Variant(Pairs[p].koi, Pairs[p].artifacts, runs[p, "koi"])
               IN  \E lights \in [DOMAIN Pairs -> {"red", "yellow", "green"}] :
                     /\ \A p \in DOMAIN Pairs : lights[p] \in TrafficLights(baseline(p), koi(p))
                     /\ Set(j, [jobs[j] EXCEPT !.step = "tests",
                                  !.grounded = \A p \in DOMAIN Pairs : baseline(p).passed /\ Measured(koi(p)),
                                  !.delta = Report("suite_d_delta", Overall({lights[p] : p \in DOMAIN Pairs}), FALSE)])
          \/ Trouble(j, [jobs[j] EXCEPT !.step = "tests", !.delta = Synthesized(j, "suite_d_delta", "red"), !.broke = TRUE])
  /\ Local

(* The scaffold of a results file, which only a run without suite D verifies. *)
RunTests(j) ==
  /\ At(j, "tests")
  /\ Set(j, [jobs[j] EXCEPT !.step = "citations",
               !.results = IF Wants(j, {"preflight-only"}) \/ @ # "none" THEN @ ELSE "scaffold"])
  /\ Local

(* No file: zero citations.  A verifier that fails leaves an empty JSON, on   *)
(* which the rest of the step fails, and total_citations stays unset.  The    *)
(* scaffold cites nothing.                                                    *)
VerifyCitationsStep(j) ==
  /\ At(j, "citations")
  /\ \/ /\ Wants(j, {"preflight-only"})
        /\ Set(j, [jobs[j] EXCEPT !.step = "diff"])
     \/ /\ jobs[j].results = "missing"
        /\ Set(j, [jobs[j] EXCEPT !.step = "diff", !.cited = "no file"])
     \/ /\ jobs[j].results \in {"written", "scaffold"}
        /\ \/ \E citations \in IF jobs[j].results = "written" THEN ResultTexts[j] ELSE {{}} :
                Set(j, [jobs[j] EXCEPT !.step = "diff", !.cited = "counted", !.counts = VerifyCitations(citations)])
           \/ Trouble(j, [jobs[j] EXCEPT !.step = "diff"])
  /\ Local

(* The results file and its citations are not looked at again.                *)
Consumed(j) == [jobs[j] EXCEPT !.step = "persist", !.results = "none", !.cited = "unset", !.counts = NoCitations]
HallucinationDiff(j) ==
  /\ At(j, "diff")
  /\ \/ /\ jobs[j].cited # "counted"
        /\ Set(j, Consumed(j))
     \/ /\ jobs[j].cited = "counted"
        /\ \/ \E status \in HallucinationStatuses(jobs[j].counts, Threshold) :
                Set(j, [Consumed(j) EXCEPT !.halluc = Report("hallucination_diff", status, FALSE)])
           \/ Trouble(j, [Consumed(j) EXCEPT !.broke = TRUE, !.halluc = Synthesized(j, "hallucination_diff", "yellow")])
  /\ Local

-----------------------------------------------------------------------------
(* Persisting: fetch the branch, or start it over when the fetch fails;       *)
(* commit the reports; push.  The push is refused unless the branch is what   *)
(* was fetched, and nothing tries again: the step fails.                      *)
Fetch(j) ==
  /\ At(j, "persist")
  /\ IF ReportsOf(jobs[j]) = {} THEN Set(j, [jobs[j] EXCEPT !.step = "alert"])
     ELSE \/ Set(j, [jobs[j] EXCEPT !.step = "push", !.base = tip])
          \/ Trouble(j, [jobs[j] EXCEPT !.step = "push", !.base = 0])
  /\ Local

(* Mutants of PushAllowed and PushFailed: a forced push; a failure passed over.*)
PushAlways(j) == TRUE
PushAllowed(j) == jobs[j].base = tip
PushFailedQuietly(j) == [jobs[j] EXCEPT !.step = "alert"]
PushFailed(j) == [jobs[j] EXCEPT !.step = "alert", !.ok = FALSE]

Push(j) ==
  /\ At(j, "push")
  /\ \/ /\ PushAllowed(j)
        /\ LET mine == ReportsOf(jobs[j])
               fetched == IF jobs[j].base = tip THEN branch ELSE {}
           IN  branch' = mine \cup {r \in fetched : \A m \in mine : Path(m) # Path(r)}
        /\ tip' = tip + 1
        /\ Set(j, [jobs[j] EXCEPT !.step = "alert"])
     \/ /\ IF PushAllowed(j) THEN Trouble(j, PushFailed(j)) ELSE Set(j, PushFailed(j))
        /\ UNCHANGED <<branch, tip>>
  /\ UNCHANGED <<now, digest, digests>>

(* The alert reads the report files, so an unset path is "not run"; whatever  *)
(* is neither red nor yellow is no reason to alert.  GitHub may refuse it.    *)
Signals(job) ==
  {IF job.preflight = "pass" THEN "green" ELSE "red", IF job.contract = "failure" THEN "red" ELSE "green",
   job.suite_b.status, job.delta.status, job.halluc.status}
Alert(j) ==
  /\ At(j, "alert")
  /\ IF Signals(jobs[j]) \cap {"red", "yellow"} = {} THEN Set(j, [jobs[j] EXCEPT !.step = "gate"])
     ELSE \/ Set(j, [jobs[j] EXCEPT !.step = "gate", !.alerted = TRUE])
          \/ Trouble(j, [jobs[j] EXCEPT !.step = "gate", !.ok = FALSE])
  /\ Local

(* Delta and hallucination reds do not fail the job.                          *)
Gate(j) ==
  /\ At(j, "gate")
  /\ LET job == jobs[j]
     IN  Set(j, [job EXCEPT !.step = "done",
                   !.ok = @ /\ job.preflight = "pass" /\ job.contract # "failure" /\ job.suite_b.status # "red"])
  /\ Local

-----------------------------------------------------------------------------
(* The digest.  A report is in the window when midnight of its date is: the   *)
(* hour and minute of its name are not looked at.                             *)
Midnight(report) == report.stamp - (report.stamp % TicksPerDay)
WithinWindow(report) == Midnight(report) >= now - WindowDays * TicksPerDay

(* Mutant of StatusRank: what is unknown is as bad as red.                    *)
StatusRankUnknownWorst(s) == CASE s = "green" -> 0 [] s = "yellow" -> 1 [] OTHER -> 2
StatusRank(s) == CASE s = "green" -> 0 [] s = "red" -> 2 [] OTHER -> 1

(* The reports of a suite are gone through in the order of their names.  The  *)
(* first that is worse counts, so that the worst of a section is the first of *)
(* the highest rank.  Insufficient data is passed over.                       *)
FirstWorst(reports) ==
  {w.status : w \in {r \in reports :
     /\ StatusRank(r.status) > 0
     /\ \A o \in reports : \/ StatusRank(o.status) < StatusRank(r.status)
                           \/ StatusRank(o.status) = StatusRank(r.status) /\ o.stamp >= r.stamp}}
WorstStatuses(reports, suite) ==
  LET counted == {r \in reports : r.suite = suite /\ r.status # "insufficient_data"}
  IN  IF FirstWorst(counted) = {} THEN {"green"} ELSE FirstWorst(counted)

(* The headline goes through the sections in order; a missing status ("none") *)
(* is passed over.                                                            *)
Worse(worst, s) == IF s # "none" /\ StatusRank(s) > StatusRank(worst) THEN s ELSE worst
Headlines(reports) ==
  {Worse(Worse(Worse("green", b), d), h) :
     b \in WorstStatuses(reports, "suite_b"), d \in WorstStatuses(reports, "suite_d_delta"),
     h \in WorstStatuses(reports, "hallucination_diff")}

(* Without a branch to list, or when suite B has reports but no pass rate to  *)
(* show, the script ends with an error before it writes anything; the issue   *)
(* may refuse the comment.                                                    *)
Renderable(reports) ==
  \A r \in reports : r.suite = "suite_b" => \E o \in reports : o.suite = "suite_b" /\ o.rate
Window == {r \in branch : WithinWindow(r)}
Digest ==
  /\ digests < MaxDigests
  /\ digests' = digests + 1
  /\ \/ /\ tip > 0 /\ Renderable(Window)
        /\ \E headline \in Headlines(Window) : digest' = [posted |-> TRUE, failed |-> FALSE, headline |-> headline]
     \/ digest' = [NoDigest EXCEPT !.failed = TRUE]
  /\ UNCHANGED <<jobs, branch, tip, now>>

(* Bound: a job measures within a tick, but its push may come later, as may    *)
(* the steps after it.                                                        *)
Tick ==
  /\ now < MaxTime /\ \A j \in Jobs : ~Measuring(j)
  /\ now' = now + 1
  /\ UNCHANGED <<jobs, branch, tip, digest, digests>>

-----------------------------------------------------------------------------
Step(j) ==
  \/ Start(j) \/ Preflight(j) \/ Contract(j) \/ SuiteB(j) \/ SuiteD(j) \/ SuiteDDelta(j) \/ RunTests(j)
  \/ VerifyCitationsStep(j) \/ HallucinationDiff(j) \/ Fetch(j) \/ Push(j) \/ Alert(j) \/ Gate(j)
WorkflowNext == (\E j \in Jobs : Step(j)) \/ Digest \/ Tick
WorkflowSpec == WorkflowInit /\ [][WorkflowNext]_workflowVars

-----------------------------------------------------------------------------
(* Properties.                                                                *)

Quiet(j) == At(j, "done") /\ jobs[j].ok /\ ~jobs[j].alerted

(* A job that ends green and without an alert has nothing bad to tell: the    *)
(* service answered, none of its reports is red or yellow, and if suite B     *)
(* reported, no script that came after it broke.  (Suite D itself and the     *)
(* citation verifier may fail in silence: see README.)                        *)
QuietMeansNothingBad ==
  \A j \in Jobs : Quiet(j) =>
    /\ jobs[j].preflight = "pass"
    /\ jobs[j].suite_b # NotRun => ~jobs[j].broke
    /\ \A r \in ReportsOf(jobs[j]) : r.status \notin {"red", "yellow"}

(* "If the runner failed before writing its output JSON, synthesize a red     *)
(* status so downstream alerting and gating can still work" (full-stack-tests *)
(* .yml:224-225): a script that broke never leaves its job green and silent.  *)
QuietMeansMeasured == \A j \in Jobs : Quiet(j) => ~jobs[j].broke

(* A critical retrieval test that the baseline hit and this run missed fails  *)
(* the job, however many other tests improved.                                *)
CriticalMissFailsJob ==
  \A j \in Jobs : At(j, "done") /\ jobs[j].missed => ~jobs[j].ok

(* The KOI value-add is not reported yellow or green unless both agents of    *)
(* every pair passed their checks and enough of KOI's citations were really   *)
(* verified: errors of the agent or of the verifier never count as value.     *)
WorthIsMeasured ==
  \A j \in Jobs : jobs[j].delta.status \in {"green", "yellow"} => jobs[j].grounded

(* The reports of a job that ends green are on the branch, though another job *)
(* pushed between its fetch and its push.                                     *)
ReportsKept ==
  \A j \in Jobs : At(j, "done") /\ jobs[j].ok =>
    \A r \in ReportsOf(jobs[j]) : \E kept \in branch : Path(kept) = Path(r)

(* What was persisted stays: no push takes another job's reports away.        *)
BranchGrows == [][{Path(r) : r \in branch} \subseteq {Path(r) : r \in branch'}]_branch

(* When a digest is posted, a red report on the branch of one of the last     *)
(* WindowDays dates, today's included, makes its headline red, whatever       *)
(* stands beside it: what is unknown or missing never hides a red.            *)
Lights == {"suite_b", "suite_d_delta", "hallucination_diff"}
Today == now - (now % TicksPerDay)
Posted == digests' # digests /\ digest'.posted
RedLately == \E r \in branch : /\ r.suite \in Lights /\ r.status = "red"
                                /\ Midnight(r) > Today - WindowDays * TicksPerDay
DigestTellsRed == [][Posted /\ RedLately => digest'.headline = "red"]_<<digest, digests>>

(* "Rolls up the last 7 days of full-stack eval reports" (weekly-eval-digest  *)
(* .yml:3): a digest reads each report that was made less than WindowDays ago.*)
(* It does not: within_window counts from midnight of the date in the name.   *)
LastDaysAreCovered ==
  [][Posted => \A r \in branch : r.stamp > now - WindowDays * TicksPerDay => r \in Window]_<<digest, digests>>
=============================================================================
