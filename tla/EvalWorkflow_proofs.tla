-------------------------- MODULE EvalWorkflow_proofs --------------------------
(* Proofs about EvalWorkflow for any number of jobs on the branch, any answers *)
(* and agents, any gold set and thresholds.  JobOK relates what a job recorded *)
(* to where it is in its steps; KeptInv relates the jobs to the branch.  Worth *)
(* relates the delta suite's light to its citations; the last part shows that  *)
(* no step of the digest's aggregation loses a red report.                     *)
EXTENDS EvalWorkflow, DataInduction

Fields == {"step", "suite", "ok", "preflight", "contract", "suite_b", "missed", "suite_d", "delta",
           "grounded", "results", "cited", "counts", "halluc", "base", "alerted", "broke", "troubles"}

BeforeB == {"idle", "preflight", "contract", "suite_b"}
BeforeDelta == BeforeB \cup {"suite_d", "suite_d_delta"}
BeforeDiff == BeforeDelta \cup {"tests", "citations", "diff"}
Last == {"persist", "push", "alert", "gate", "done"}

(* What a step writes was not there before: so nothing that was recorded of a  *)
(* broken script or a missed test is overwritten by a better report.           *)
NotYet(x) ==
  /\ x.step \in BeforeB => x.suite_b = NotRun /\ ~x.missed /\ ~x.broke
  /\ x.step \in BeforeDelta => x.delta = NotRun
  /\ x.step \in BeforeDiff => x.halluc = NotRun
(* A script that broke shows unless suite B has no report, and so does a       *)
(* critical test that was missed.                                              *)
Shown(x) ==
  /\ x.broke => \/ x.suite_b = NotRun \/ x.suite_b.status = "red"
                \/ x.delta.status = "red" \/ x.halluc.status = "yellow"
  /\ x.missed => x.suite_b.status = "red"
  /\ x.suite_d.status \notin {"red", "yellow"}
(* What the last steps have looked at.                                         *)
Looked(x) ==
  /\ x.step \in {"gate", "done"} /\ x.ok /\ ~x.alerted => Signals(x) \cap {"red", "yellow"} = {}
  /\ x.step = "done" /\ x.ok => x.preflight = "pass" /\ x.suite_b.status # "red"

JobOK(x) ==
  /\ DOMAIN x = Fields
  /\ x.step \in BeforeDiff \cup Last
  /\ x.ok \in BOOLEAN /\ x.missed \in BOOLEAN /\ x.broke \in BOOLEAN /\ x.alerted \in BOOLEAN
  /\ NotYet(x) /\ Shown(x) /\ Looked(x)

JobsOK == /\ DOMAIN jobs = Jobs
          /\ \A j \in Jobs : JobOK(jobs[j])

-----------------------------------------------------------------------------
(* Only the job that moves is changed.                                         *)
LEMMA SetJob ==
  ASSUME JobsOK, NEW j \in Jobs, NEW job, JobOK(job), Set(j, job)
  PROVE  /\ JobsOK'
         /\ jobs'[j] = job /\ \A k \in Jobs \ {j} : jobs'[k] = jobs[k]
<1>1. DOMAIN jobs' = Jobs /\ jobs'[j] = job /\ \A k \in Jobs \ {j} : jobs'[k] = jobs[k]
  BY DEF Set, JobsOK
<1>2. \A k \in Jobs : JobOK(jobs'[k])
  BY <1>1 DEF JobsOK
<1> QED BY <1>1, <1>2 DEF JobsOK, JobOK, NotYet, Shown, Looked, Signals

(* A step that meets trouble only counts it besides.                           *)
LEMMA TroubleJob ==
  ASSUME JobsOK, NEW j \in Jobs, NEW job, JobOK(job), Trouble(j, job)
  PROVE  JobsOK'
<1> DEFINE counted == [job EXCEPT !.troubles = @ + 1]
<1>1. DOMAIN counted = Fields /\ \A f \in Fields \ {"troubles"} : counted[f] = job[f]
  BY DEF JobOK, Fields
<1>2. JobOK(counted)
  BY <1>1 DEF JobOK, NotYet, Shown, Looked, Signals, Fields
<1>3. Set(j, counted)
  BY DEF Trouble
<1> HIDE DEF counted
<1> QED BY <1>2, <1>3, SetJob

-----------------------------------------------------------------------------
(* The steps one by one.                                                       *)
LEMMA JobsInit == WorkflowInit => JobsOK
<1>1. JobOK(NewJob)
  BY DEF JobOK, NewJob, Fields, NotYet, Shown, Looked, NotRun, BeforeB, BeforeDelta, BeforeDiff, Last
<1> QED BY <1>1 DEF WorkflowInit, JobsOK

(* A step before those that look at the reports, and that makes no report.     *)
LEMMA PlainJob ==
  ASSUME NEW x, JobOK(x), NEW y, DOMAIN y = Fields,
         x.step \in BeforeDiff, y.step \in BeforeDiff \cup {"persist", "push", "alert"},
         x.step \notin BeforeB => y.step \notin BeforeB,
         x.step \notin BeforeDelta => y.step \notin BeforeDelta,
         \A f \in {"suite_b", "suite_d", "delta", "halluc", "missed", "broke", "alerted"} : y[f] = x[f],
         y.ok \in BOOLEAN
  PROVE  JobOK(y)
<1>1. /\ y.suite_b = x.suite_b /\ y.suite_d = x.suite_d /\ y.delta = x.delta /\ y.halluc = x.halluc
      /\ y.missed = x.missed /\ y.broke = x.broke /\ y.alerted = x.alerted
  OBVIOUS
<1>2. NotYet(y)
  BY <1>1 DEF JobOK, NotYet, BeforeB, BeforeDelta, BeforeDiff
<1>3. Shown(y)
  BY <1>1 DEF JobOK, Shown
<1>4. Looked(y)
  BY DEF Looked, BeforeDiff, BeforeDelta, BeforeB
<1> QED BY <1>1, <1>2, <1>3, <1>4 DEF JobOK, Last

LEMMA StartJob ==
  ASSUME JobsOK, NEW j \in Jobs, Start(j)
  PROVE  JobsOK'
<1>1. PICK suite \in Requests[j] : Set(j, [jobs[j] EXCEPT !.step = "preflight", !.suite = suite])
  BY DEF Start
<1> DEFINE job == [jobs[j] EXCEPT !.step = "preflight", !.suite = suite]
<1>2. DOMAIN job = Fields /\ job.step = "preflight" /\ \A f \in Fields \ {"step", "suite"} : job[f] = jobs[j][f]
  BY DEF JobsOK, JobOK, Fields
<1>3. jobs[j].step = "idle"
  BY DEF Start, At
<1>4. JobOK(job)
  <2> HIDE DEF job
  <2> QED BY <1>2, <1>3, PlainJob DEF JobsOK, JobOK, Fields, BeforeB, BeforeDelta, BeforeDiff
<1> QED BY <1>1, <1>4, SetJob

(* Whether a step meets trouble or not.                                        *)
LEMMA EitherJob ==
  ASSUME JobsOK, NEW j \in Jobs, NEW job, JobOK(job), Set(j, job) \/ Trouble(j, job)
  PROVE  JobsOK'
BY SetJob, TroubleJob

LEMMA PreflightJob ==
  ASSUME JobsOK, NEW j \in Jobs, Preflight(j)
  PROVE  JobsOK'
<1>1. jobs[j].step = "preflight" /\ JobOK(jobs[j])
  BY DEF Preflight, At, JobsOK
<1> DEFINE pass == [jobs[j] EXCEPT !.step = "contract", !.preflight = "pass"]
           fail == [jobs[j] EXCEPT !.step = "contract", !.preflight = "fail"]
           dead == [jobs[j] EXCEPT !.step = "persist", !.ok = FALSE]
<1>2. /\ DOMAIN pass = Fields /\ pass.step = "contract"
      /\ \A f \in Fields \ {"step", "preflight"} : pass[f] = jobs[j][f]
  BY <1>1 DEF JobOK, Fields
<1>3. /\ DOMAIN fail = Fields /\ fail.step = "contract"
      /\ \A f \in Fields \ {"step", "preflight"} : fail[f] = jobs[j][f]
  BY <1>1 DEF JobOK, Fields
<1>4. /\ DOMAIN dead = Fields /\ dead.step = "persist" /\ dead.ok \in BOOLEAN
      /\ \A f \in Fields \ {"step", "ok"} : dead[f] = jobs[j][f]
  BY <1>1 DEF JobOK, Fields
<1>5. Set(j, pass) \/ Trouble(j, fail) \/ Trouble(j, dead)
  BY DEF Preflight
<1> HIDE DEF pass, fail, dead
<1>6. JobOK(pass) /\ JobOK(fail)
  BY <1>1, <1>2, <1>3, PlainJob DEF JobOK, Fields, BeforeB, BeforeDelta, BeforeDiff
<1>7. JobOK(dead)
  BY <1>1, <1>4, PlainJob DEF JobOK, Fields, BeforeB, BeforeDelta, BeforeDiff
<1> QED BY <1>5, <1>6, <1>7, EitherJob

LEMMA ContractJob ==
  ASSUME JobsOK, NEW j \in Jobs, Contract(j)
  PROVE  JobsOK'
<1>1. jobs[j].step = "contract" /\ JobOK(jobs[j])
  BY DEF Contract, At, JobsOK
<1>2. PICK outcome \in {"success", "failure"} :
        LET job == [jobs[j] EXCEPT !.step = "suite_b", !.contract = outcome] IN Set(j, job) \/ Trouble(j, job)
  BY DEF Contract
<1> DEFINE job == [jobs[j] EXCEPT !.step = "suite_b", !.contract = outcome]
<1>3. /\ DOMAIN job = Fields /\ job.step = "suite_b"
      /\ \A f \in Fields \ {"step", "contract"} : job[f] = jobs[j][f]
  BY <1>1 DEF JobOK, Fields
<1>4. Set(j, job) \/ Trouble(j, job)
  BY <1>2
<1> HIDE DEF job
<1>5. JobOK(job)
  BY <1>1, <1>3, PlainJob DEF JobOK, Fields, BeforeB, BeforeDelta, BeforeDiff
<1> QED BY <1>4, <1>5, EitherJob

(* The diff of suite B calls a missed critical test red, whatever the rates.   *)
LEMMA MissIsRed ==
  ASSUME NEW committed, \A a, b \in committed : a = b, NEW base \in committed, NEW answers,
         NEW t \in DOMAIN base \cap DOMAIN Evaluate(answers),
         base[t].hit, ~Evaluate(answers)[t].hit, Gold[t].critical,
         NEW status \in SuiteBStatuses(committed, Evaluate(answers))
  PROVE  status = "red"
<1> DEFINE results == Evaluate(answers)
<1>1. t \in DOMAIN answers /\ results[t].critical = Gold[t].critical
  BY DEF Evaluate, EvaluateTest
<1> HIDE DEF results
<1>2. t \in CriticalRegressions(base, results)
  BY <1>1 DEF CriticalRegressions, Regressions, results
<1>3. \A other \in committed : DiffVsBaseline(other, results) \subseteq {"red"}
  BY <1>2 DEF DiffVsBaseline
<1> QED BY <1>3 DEF SuiteBStatuses, results

(* A report is written where there was none, at or before a step after which    *)
(* it is looked at; what it has to show is said by its author.                 *)
LEMMA ReportJob ==
  ASSUME NEW x, JobOK(x), NEW y, DOMAIN y = Fields, NEW own \in {"suite_b", "suite_d", "delta", "halluc"},
         own = "suite_b" => x.step \in BeforeB,
         own = "delta" => x.step \in BeforeDelta,
         x.step \in BeforeDiff, y.step \in BeforeDiff \cup {"persist"}, y.step \notin BeforeB,
         x.step \notin BeforeDelta \/ own = "delta" => y.step \notin BeforeDelta,
         own = "halluc" => y.step = "persist",
         \A f \in {"suite_b", "suite_d", "delta", "halluc", "alerted", "ok"} \ {own} : y[f] = x[f],
         own = "suite_d" => y.suite_d.status \notin {"red", "yellow"},
         y.missed \in BOOLEAN,
         \/ y.missed = x.missed
         \/ own = "suite_b" /\ (y.missed => y.suite_b.status = "red"),
         y.broke \in BOOLEAN,
         \/ y.broke = x.broke
         \/ own = "suite_b" /\ (y.suite_b = NotRun \/ y.suite_b.status = "red")
         \/ own = "delta" /\ (x.suite_b = NotRun \/ y.delta.status = "red")
         \/ own = "halluc" /\ (x.suite_b = NotRun \/ y.halluc.status = "yellow")
  PROVE  JobOK(y)
<1>1. /\ own # "suite_b" => y.suite_b = x.suite_b
      /\ own # "suite_d" => y.suite_d = x.suite_d
      /\ own # "delta" => y.delta = x.delta
      /\ own # "halluc" => y.halluc = x.halluc
      /\ y.alerted = x.alerted /\ y.ok = x.ok
  OBVIOUS
<1>2. NotRun.status \notin {"red", "yellow"}
  BY DEF NotRun
<1>3. /\ own = "suite_b" => x.suite_b = NotRun /\ ~x.missed /\ ~x.broke
      /\ own = "delta" => x.delta = NotRun
      /\ x.halluc = NotRun
  BY DEF JobOK, NotYet
<1>4. NotYet(y)
  BY <1>1, <1>3 DEF JobOK, NotYet, BeforeB, BeforeDelta, BeforeDiff
<1>5. Shown(y)
  <2>1. y.broke => \/ y.suite_b = NotRun \/ y.suite_b.status = "red"
                   \/ y.delta.status = "red" \/ y.halluc.status = "yellow"
    BY <1>1, <1>2, <1>3 DEF JobOK, Shown
  <2>2. y.missed => y.suite_b.status = "red"
    BY <1>1, <1>3 DEF JobOK, Shown
  <2>3. y.suite_d.status \notin {"red", "yellow"}
    BY <1>1 DEF JobOK, Shown
  <2> QED BY <2>1, <2>2, <2>3 DEF Shown
<1>6. Looked(y)
  BY DEF Looked, BeforeDiff, BeforeDelta, BeforeB
<1> QED BY <1>1, <1>4, <1>5, <1>6 DEF JobOK, Last

LEMMA SuiteBJob ==
  ASSUME JobsOK, NEW j \in Jobs, SuiteB(j)
  PROVE  JobsOK'
<1> DEFINE x == jobs[j]
<1>1. x.step = "suite_b" /\ JobOK(x)
  BY DEF SuiteB, At, JobsOK
<1>2. CASE Set(j, [x EXCEPT !.step = "suite_d"])
  <2> DEFINE job == [x EXCEPT !.step = "suite_d"]
  <2>1. DOMAIN job = Fields /\ job.step = "suite_d" /\ \A f \in Fields \ {"step"} : job[f] = x[f]
    BY <1>1 DEF JobOK, Fields
  <2>2. Set(j, job)
    BY <1>2
  <2> HIDE DEF job, x
  <2>3. JobOK(job)
    BY <1>1, <2>1, PlainJob DEF JobOK, Fields, BeforeB, BeforeDelta, BeforeDiff
  <2> QED BY <2>2, <2>3, SetJob
<1>3. ASSUME NEW answers \in Answers[j], NEW committed \in GoldBaselines[j],
             NEW status \in SuiteBStatuses(committed, Evaluate(answers)),
             Set(j, [x EXCEPT !.step = "suite_d", !.suite_b = Report("suite_b", status, TRUE),
                       !.missed = \E base \in committed : \E t \in DOMAIN base \cap DOMAIN Evaluate(answers) :
                                    base[t].hit /\ ~Evaluate(answers)[t].hit /\ Gold[t].critical])
      PROVE  JobsOK'
  <2> DEFINE missed == \E base \in committed : \E t \in DOMAIN base \cap DOMAIN Evaluate(answers) :
                         base[t].hit /\ ~Evaluate(answers)[t].hit /\ Gold[t].critical
             job == [x EXCEPT !.step = "suite_d", !.suite_b = Report("suite_b", status, TRUE), !.missed = missed]
  <2>1. missed => status = "red"
    BY MissIsRed, BaselineAssumption
  <2>2. missed \in BOOLEAN
    OBVIOUS
  <2>3. Set(j, job)
    BY <1>3
  <2> HIDE DEF missed
  <2>4. /\ DOMAIN job = Fields /\ job.step = "suite_d" /\ job.missed = missed
        /\ job.suite_b = Report("suite_b", status, TRUE)
        /\ \A f \in Fields \ {"step", "suite_b", "missed"} : job[f] = x[f]
    BY <1>1 DEF JobOK, Fields
  <2>5. job.suite_b.status = status
    BY <2>4 DEF Report
  <2> HIDE DEF job, x
  <2>6. \A f \in {"suite_b", "suite_d", "delta", "halluc", "alerted", "ok"} \ {"suite_b"} : job[f] = x[f]
    BY <2>4 DEF Fields
  <2>7. job.broke \in BOOLEAN /\ job.broke = x.broke /\ job.missed \in BOOLEAN
    BY <1>1, <2>2, <2>4 DEF JobOK, Fields
  <2>8. JobOK(job)
    BY <1>1, <2>1, <2>4, <2>5, <2>6, <2>7, ReportJob DEF BeforeB, BeforeDelta, BeforeDiff
  <2> QED BY <2>3, <2>8, SetJob
<1>4. CASE Trouble(j, [x EXCEPT !.step = "suite_d", !.suite_b = Synthesized(j, "suite_b", "red"), !.broke = TRUE])
  <2> DEFINE job == [x EXCEPT !.step = "suite_d", !.suite_b = Synthesized(j, "suite_b", "red"), !.broke = TRUE]
  <2>1. /\ DOMAIN job = Fields /\ job.step = "suite_d" /\ job.broke = TRUE
        /\ job.suite_b = Synthesized(j, "suite_b", "red")
        /\ \A f \in Fields \ {"step", "suite_b", "broke"} : job[f] = x[f]
    BY <1>1 DEF JobOK, Fields
  <2>2. job.suite_b = NotRun \/ job.suite_b.status = "red"
    BY <2>1 DEF Synthesized, Report
  <2>3. Trouble(j, job)
    BY <1>4
  <2> HIDE DEF job, x
  <2>4. \A f \in {"suite_b", "suite_d", "delta", "halluc", "alerted", "ok"} \ {"suite_b"} : job[f] = x[f]
    BY <2>1 DEF Fields
  <2>5. job.broke \in BOOLEAN /\ job.missed \in BOOLEAN /\ job.missed = x.missed
    BY <1>1, <2>1 DEF JobOK, Fields
  <2>6. DOMAIN job = Fields /\ job.step = "suite_d"
    BY <2>1
  <2>7. JobOK(job)
    BY <1>1, <2>2, <2>4, <2>5, <2>6, ReportJob DEF BeforeB, BeforeDelta, BeforeDiff
  <2> QED BY <2>3, <2>7, TroubleJob
<1> QED BY <1>2, <1>3, <1>4 DEF SuiteB

LEMMA SuiteDJob ==
  ASSUME JobsOK, NEW j \in Jobs, SuiteD(j)
  PROVE  JobsOK'
<1> DEFINE x == jobs[j]
<1>1. x.step = "suite_d" /\ JobOK(x)
  BY DEF SuiteD, At, JobsOK
<1>2. CASE Set(j, [x EXCEPT !.step = "suite_d_delta"])
  <2> DEFINE job == [x EXCEPT !.step = "suite_d_delta"]
  <2>1. DOMAIN job = Fields /\ job.step = "suite_d_delta" /\ \A f \in Fields \ {"step"} : job[f] = x[f]
    BY <1>1 DEF JobOK, Fields
  <2>2. Set(j, job)
    BY <1>2
  <2> HIDE DEF job, x
  <2>3. JobOK(job)
    BY <1>1, <2>1, PlainJob DEF JobOK, Fields, BeforeB, BeforeDelta, BeforeDiff
  <2> QED BY <2>2, <2>3, EitherJob
<1>3. ASSUME NEW status \in {"failed", "passed"},
             Set(j, [x EXCEPT !.step = "suite_d_delta", !.results = "written",
                       !.suite_d = Report("suite_d", status, FALSE)])
      PROVE  JobsOK'
  <2> DEFINE job == [x EXCEPT !.step = "suite_d_delta", !.results = "written",
                    !.suite_d = Report("suite_d", status, FALSE)]
  <2>1. /\ DOMAIN job = Fields /\ job.step = "suite_d_delta"
        /\ job.suite_d = Report("suite_d", status, FALSE)
        /\ \A f \in Fields \ {"step", "results", "suite_d"} : job[f] = x[f]
    BY <1>1 DEF JobOK, Fields
  <2>2. job.suite_d.status \notin {"red", "yellow"}
    BY <2>1 DEF Synthesized, Report
  <2>3. Set(j, job)
    BY <1>3
  <2> HIDE DEF job, x
  <2>4. \A f \in {"suite_b", "suite_d", "delta", "halluc", "alerted", "ok"} \ {"suite_d"} : job[f] = x[f]
    BY <2>1 DEF Fields
  <2>5. job.broke \in BOOLEAN /\ job.missed \in BOOLEAN /\ job.missed = x.missed /\ job.broke = x.broke
    BY <1>1, <2>1 DEF JobOK, Fields
  <2>6. DOMAIN job = Fields /\ job.step = "suite_d_delta"
    BY <2>1
  <2>7. JobOK(job)
    BY <1>1, <2>2, <2>4, <2>5, <2>6, ReportJob DEF BeforeB, BeforeDelta, BeforeDiff
  <2> QED BY <2>3, <2>7, EitherJob
<1>4. CASE Trouble(j, [x EXCEPT !.step = "suite_d_delta", !.results = "missing"])
  <2> DEFINE job == [x EXCEPT !.step = "suite_d_delta", !.results = "missing"]
  <2>1. DOMAIN job = Fields /\ job.step = "suite_d_delta" /\ \A f \in Fields \ {"step", "results"} : job[f] = x[f]
    BY <1>1 DEF JobOK, Fields
  <2>2. Trouble(j, job)
    BY <1>4
  <2> HIDE DEF job, x
  <2>3. JobOK(job)
    BY <1>1, <2>1, PlainJob DEF JobOK, Fields, BeforeB, BeforeDelta, BeforeDiff
  <2> QED BY <2>2, <2>3, EitherJob
<1> QED BY <1>2, <1>3, <1>4 DEF SuiteD

LEMMA SuiteDDeltaJob ==
  ASSUME JobsOK, NEW j \in Jobs, SuiteDDelta(j)
  PROVE  JobsOK'
<1> DEFINE x == jobs[j]
<1>1. x.step = "suite_d_delta" /\ JobOK(x)
  BY DEF SuiteDDelta, At, JobsOK
<1>2. CASE Set(j, [x EXCEPT !.step = "tests"])
  <2> DEFINE job == [x EXCEPT !.step = "tests"]
  <2>1. DOMAIN job = Fields /\ job.step = "tests" /\ \A f \in Fields \ {"step"} : job[f] = x[f]
    BY <1>1 DEF JobOK, Fields
  <2>2. Set(j, job)
    BY <1>2
  <2> HIDE DEF job, x
  <2>3. JobOK(job)
    BY <1>1, <2>1, PlainJob DEF JobOK, Fields, BeforeB, BeforeDelta, BeforeDiff
  <2> QED BY <2>2, <2>3, EitherJob
<1>3. ASSUME NEW grounded, NEW status,
             Set(j, [x EXCEPT !.step = "tests", !.grounded = grounded,
                       !.delta = Report("suite_d_delta", status, FALSE)])
      PROVE  JobsOK'
  <2> DEFINE job == [x EXCEPT !.step = "tests", !.grounded = grounded,
                    !.delta = Report("suite_d_delta", status, FALSE)]
  <2>1. /\ DOMAIN job = Fields /\ job.step = "tests"
        /\ job.delta = Report("suite_d_delta", status, FALSE)
        /\ \A f \in Fields \ {"step", "grounded", "delta"} : job[f] = x[f]
    BY <1>1 DEF JobOK, Fields
  <2>3. Set(j, job)
    BY <1>3
  <2> HIDE DEF job, x
  <2>4. \A f \in {"suite_b", "suite_d", "delta", "halluc", "alerted", "ok"} \ {"delta"} : job[f] = x[f]
    BY <2>1 DEF Fields
  <2>5. job.broke \in BOOLEAN /\ job.missed \in BOOLEAN /\ job.missed = x.missed /\ job.broke = x.broke
    BY <1>1, <2>1 DEF JobOK, Fields
  <2>6. DOMAIN job = Fields /\ job.step = "tests"
    BY <2>1
  <2>7. JobOK(job)
    BY <1>1, <2>4, <2>5, <2>6, ReportJob DEF BeforeB, BeforeDelta, BeforeDiff
  <2> QED BY <2>3, <2>7, EitherJob
<1>4. CASE Trouble(j, [x EXCEPT !.step = "tests", !.delta = Synthesized(j, "suite_d_delta", "red"), !.broke = TRUE])
  <2> DEFINE job == [x EXCEPT !.step = "tests", !.delta = Synthesized(j, "suite_d_delta", "red"), !.broke = TRUE]
  <2>1. /\ DOMAIN job = Fields /\ job.step = "tests"
        /\ job.delta = Synthesized(j, "suite_d_delta", "red") /\ job.broke = TRUE
        /\ \A f \in Fields \ {"step", "delta", "broke"} : job[f] = x[f]
    BY <1>1 DEF JobOK, Fields
  <2>2. x.suite_b = NotRun \/ job.delta.status = "red"
    <3>1. x.suite_b # NotRun => HasDirectory(j)
      BY DEF HasDirectory, ReportsOf
    <3>2. HasDirectory(j) => job.delta = Report("suite_d_delta", "red", FALSE)
      BY <2>1 DEF Synthesized
    <3>3. Report("suite_d_delta", "red", FALSE).status = "red"
      BY DEF Report
    <3> HIDE DEF job, x
    <3> QED BY <3>1, <3>2, <3>3
  <2>3. Trouble(j, job)
    BY <1>4
  <2> HIDE DEF job, x
  <2>4. \A f \in {"suite_b", "suite_d", "delta", "halluc", "alerted", "ok"} \ {"delta"} : job[f] = x[f]
    BY <2>1 DEF Fields
  <2>5. job.broke \in BOOLEAN /\ job.missed \in BOOLEAN /\ job.missed = x.missed
    BY <1>1, <2>1 DEF JobOK, Fields
  <2>6. DOMAIN job = Fields /\ job.step = "tests"
    BY <2>1
  <2>7. JobOK(job)
    BY <1>1, <2>2, <2>4, <2>5, <2>6, ReportJob DEF BeforeB, BeforeDelta, BeforeDiff
  <2> QED BY <2>3, <2>7, EitherJob
<1> QED BY <1>2, <1>3, <1>4 DEF SuiteDDelta

LEMMA RunTestsJob ==
  ASSUME JobsOK, NEW j \in Jobs, RunTests(j)
  PROVE  JobsOK'
<1> DEFINE x == jobs[j]
<1>1. x.step = "tests" /\ JobOK(x)
  BY DEF RunTests, At, JobsOK
<1> DEFINE results == IF Wants(j, {"preflight-only"}) \/ x.results # "none" THEN x.results ELSE "scaffold"
<1>2. CASE Set(j, [x EXCEPT !.step = "citations", !.results = results])
  <2> DEFINE job == [x EXCEPT !.step = "citations", !.results = results]
  <2>1. DOMAIN job = Fields /\ job.step = "citations" /\ \A f \in Fields \ {"step", "results"} : job[f] = x[f]
    BY <1>1 DEF JobOK, Fields
  <2>2. Set(j, job)
    BY <1>2
  <2> HIDE DEF job, x
  <2>3. JobOK(job)
    BY <1>1, <2>1, PlainJob DEF JobOK, Fields, BeforeB, BeforeDelta, BeforeDiff
  <2> QED BY <2>2, <2>3, EitherJob
<1> QED BY <1>2 DEF RunTests

LEMMA VerifyCitationsStepJob ==
  ASSUME JobsOK, NEW j \in Jobs, VerifyCitationsStep(j)
  PROVE  JobsOK'
<1> DEFINE x == jobs[j]
<1>1. x.step = "citations" /\ JobOK(x)
  BY DEF VerifyCitationsStep, At, JobsOK
<1>2. ASSUME NEW y, DOMAIN y = Fields, y.step = "diff",
             \A f \in Fields \ {"step", "cited", "counts"} : y[f] = x[f]
      PROVE  JobOK(y)
  <2> HIDE DEF x
  <2> QED BY <1>1, <1>2, PlainJob DEF JobOK, Fields, BeforeB, BeforeDelta, BeforeDiff
<1>3. JobOK([x EXCEPT !.step = "diff"])
  BY <1>1, <1>2 DEF JobOK, Fields
<1>4. JobOK([x EXCEPT !.step = "diff", !.cited = "no file"])
  BY <1>1, <1>2 DEF JobOK, Fields
<1>5. \A counts : JobOK([x EXCEPT !.step = "diff", !.cited = "counted", !.counts = counts])
  BY <1>1, <1>2 DEF JobOK, Fields
<1>6. \/ Set(j, [x EXCEPT !.step = "diff"]) \/ Trouble(j, [x EXCEPT !.step = "diff"])
      \/ Set(j, [x EXCEPT !.step = "diff", !.cited = "no file"])
      \/ \E counts : Set(j, [x EXCEPT !.step = "diff", !.cited = "counted", !.counts = counts])
  BY DEF VerifyCitationsStep
<1> HIDE DEF x
<1> QED BY <1>3, <1>4, <1>5, <1>6, EitherJob

LEMMA HallucinationDiffJob ==
  ASSUME JobsOK, NEW j \in Jobs, HallucinationDiff(j)
  PROVE  JobsOK'
<1> DEFINE x == jobs[j]
<1>1. x.step = "diff" /\ JobOK(x)
  BY DEF HallucinationDiff, At, JobsOK
<1>0. /\ DOMAIN Consumed(j) = Fields /\ Consumed(j).step = "persist"
      /\ \A f \in Fields \ {"step", "results", "cited", "counts"} : Consumed(j)[f] = x[f]
  BY <1>1 DEF Consumed, JobOK, Fields
<1>2. CASE Set(j, Consumed(j))
  <2> HIDE DEF x
  <2>1. JobOK(Consumed(j))
    BY <1>0, <1>1, PlainJob DEF JobOK, Fields, BeforeB, BeforeDelta, BeforeDiff
  <2> QED BY <1>2, <2>1, SetJob
<1>3. ASSUME NEW status, Set(j, [Consumed(j) EXCEPT !.halluc = Report("hallucination_diff", status, FALSE)])
      PROVE  JobsOK'
  <2> DEFINE job == [Consumed(j) EXCEPT !.halluc = Report("hallucination_diff", status, FALSE)]
  <2>1. /\ DOMAIN job = Fields /\ job.step = "persist"
        /\ job.halluc = Report("hallucination_diff", status, FALSE)
        /\ \A f \in Fields \ {"step", "results", "cited", "counts", "halluc"} : job[f] = x[f]
    BY <1>0, <1>1 DEF JobOK, Fields
  <2>3. Set(j, job)
    BY <1>3
  <2> HIDE DEF job, x
  <2>4. \A f \in {"suite_b", "suite_d", "delta", "halluc", "alerted", "ok"} \ {"halluc"} : job[f] = x[f]
    BY <2>1 DEF Fields
  <2>5. job.broke \in BOOLEAN /\ job.missed \in BOOLEAN /\ job.missed = x.missed /\ job.broke = x.broke
    BY <1>1, <2>1 DEF JobOK, Fields
  <2>6. DOMAIN job = Fields /\ job.step = "persist"
    BY <2>1
  <2>7. JobOK(job)
    BY <1>1, <2>4, <2>5, <2>6, ReportJob DEF BeforeB, BeforeDelta, BeforeDiff
  <2> QED BY <2>3, <2>7, EitherJob
<1>4. CASE Trouble(j, [Consumed(j) EXCEPT !.broke = TRUE, !.halluc = Synthesized(j, "hallucination_diff", "yellow")])
  <2> DEFINE job == [Consumed(j) EXCEPT !.broke = TRUE, !.halluc = Synthesized(j, "hallucination_diff", "yellow")]
  <2>1. /\ DOMAIN job = Fields /\ job.step = "persist"
        /\ job.halluc = Synthesized(j, "hallucination_diff", "yellow") /\ job.broke = TRUE
        /\ \A f \in Fields \ {"step", "results", "cited", "counts", "halluc", "broke"} : job[f] = x[f]
    BY <1>0, <1>1 DEF JobOK, Fields
  <2>2. x.suite_b = NotRun \/ job.halluc.status = "yellow"
    <3>1. x.suite_b # NotRun => HasDirectory(j)
      BY DEF HasDirectory, ReportsOf
    <3>2. HasDirectory(j) => job.halluc = Report("hallucination_diff", "yellow", FALSE)
      BY <2>1 DEF Synthesized
    <3>3. Report("hallucination_diff", "yellow", FALSE).status = "yellow"
      BY DEF Report
    <3> HIDE DEF job, x
    <3> QED BY <3>1, <3>2, <3>3
  <2>3. Trouble(j, job)
    BY <1>4
  <2> HIDE DEF job, x
  <2>4. \A f \in {"suite_b", "suite_d", "delta", "halluc", "alerted", "ok"} \ {"halluc"} : job[f] = x[f]
    BY <2>1 DEF Fields
  <2>5. job.broke \in BOOLEAN /\ job.missed \in BOOLEAN /\ job.missed = x.missed
    BY <1>1, <2>1 DEF JobOK, Fields
  <2>6. DOMAIN job = Fields /\ job.step = "persist"
    BY <2>1
  <2>7. JobOK(job)
    BY <1>1, <2>2, <2>4, <2>5, <2>6, ReportJob DEF BeforeB, BeforeDelta, BeforeDiff
  <2> QED BY <2>3, <2>7, EitherJob
<1> QED BY <1>2, <1>3, <1>4 DEF HallucinationDiff

(* From here on the reports are not changed any more.                          *)
LEMMA LaterJob ==
  ASSUME NEW x, JobOK(x), x.step \in Last, NEW y, DOMAIN y = Fields, y.step \in Last,
         \A f \in {"suite_b", "suite_d", "delta", "halluc", "missed", "broke"} : y[f] = x[f],
         y.ok \in BOOLEAN, y.alerted \in BOOLEAN, Looked(y)
  PROVE  JobOK(y)
<1>1. /\ y.suite_b = x.suite_b /\ y.suite_d = x.suite_d /\ y.delta = x.delta /\ y.halluc = x.halluc
      /\ y.missed = x.missed /\ y.broke = x.broke
  OBVIOUS
<1>2. Shown(y)
  BY <1>1 DEF JobOK, Shown
<1>3. NotYet(y)
  BY DEF NotYet, Last, BeforeDiff, BeforeDelta, BeforeB
<1> QED BY <1>1, <1>2, <1>3 DEF JobOK

LEMMA FetchJob ==
  ASSUME JobsOK, NEW j \in Jobs, Fetch(j)
  PROVE  JobsOK'
<1> DEFINE x == jobs[j]
<1>1. x.step = "persist" /\ JobOK(x)
  BY DEF Fetch, At, JobsOK
<1>2. CASE Set(j, [x EXCEPT !.step = "alert"])
  <2> DEFINE job == [x EXCEPT !.step = "alert"]
  <2>1. DOMAIN job = Fields /\ job.step = "alert" /\ \A f \in Fields \ {"step"} : job[f] = x[f]
    BY <1>1 DEF JobOK, Fields
  <2>2. Set(j, job)
    BY <1>2
  <2>3. job.ok \in BOOLEAN
    BY <1>1, <2>1 DEF JobOK, Fields
  <2> HIDE DEF job, x
  <2>4. Looked(job)
    BY <2>1 DEF Looked
  <2>5. JobOK(job)
    BY <1>1, <2>1, <2>3, <2>4, LaterJob DEF JobOK, Fields, Last
  <2> QED BY <2>2, <2>5, EitherJob
<1>3. CASE Set(j, [x EXCEPT !.step = "push", !.base = tip])
  <2> DEFINE job == [x EXCEPT !.step = "push", !.base = tip]
  <2>1. DOMAIN job = Fields /\ job.step = "push" /\ \A f \in Fields \ {"step", "base"} : job[f] = x[f]
    BY <1>1 DEF JobOK, Fields
  <2>2. Set(j, job)
    BY <1>3
  <2>3. job.ok \in BOOLEAN
    BY <1>1, <2>1 DEF JobOK, Fields
  <2> HIDE DEF job, x
  <2>4. Looked(job)
    BY <2>1 DEF Looked
  <2>5. JobOK(job)
    BY <1>1, <2>1, <2>3, <2>4, LaterJob DEF JobOK, Fields, Last
  <2> QED BY <2>2, <2>5, EitherJob
<1>4. CASE Trouble(j, [x EXCEPT !.step = "push", !.base = 0])
  <2> DEFINE job == [x EXCEPT !.step = "push", !.base = 0]
  <2>1. DOMAIN job = Fields /\ job.step = "push" /\ \A f \in Fields \ {"step", "base"} : job[f] = x[f]
    BY <1>1 DEF JobOK, Fields
  <2>2. Trouble(j, job)
    BY <1>4
  <2>3. job.ok \in BOOLEAN
    BY <1>1, <2>1 DEF JobOK, Fields
  <2> HIDE DEF job, x
  <2>4. Looked(job)
    BY <2>1 DEF Looked
  <2>5. JobOK(job)
    BY <1>1, <2>1, <2>3, <2>4, LaterJob DEF JobOK, Fields, Last
  <2> QED BY <2>2, <2>5, EitherJob
<1> QED BY <1>2, <1>3, <1>4 DEF Fetch

LEMMA PushJob ==
  ASSUME JobsOK, NEW j \in Jobs, Push(j)
  PROVE  JobsOK'
<1> DEFINE x == jobs[j]
<1>1. x.step = "push" /\ JobOK(x)
  BY DEF Push, At, JobsOK
<1>2. CASE Set(j, [x EXCEPT !.step = "alert"])
  <2> DEFINE job == [x EXCEPT !.step = "alert"]
  <2>1. DOMAIN job = Fields /\ job.step = "alert" /\ \A f \in Fields \ {"step"} : job[f] = x[f]
    BY <1>1 DEF JobOK, Fields
  <2>2. Set(j, job)
    BY <1>2
  <2>3. job.ok \in BOOLEAN
    BY <1>1, <2>1 DEF JobOK, Fields
  <2> HIDE DEF job, x
  <2>4. Looked(job)
    BY <2>1 DEF Looked
  <2>5. JobOK(job)
    BY <1>1, <2>1, <2>3, <2>4, LaterJob DEF JobOK, Fields, Last
  <2> QED BY <2>2, <2>5, EitherJob
<1>3. CASE Set(j, PushFailed(j)) \/ Trouble(j, PushFailed(j))
  <2> DEFINE job == PushFailed(j)
  <2>1. /\ DOMAIN job = Fields /\ job.step = "alert" /\ job.ok \in BOOLEAN
        /\ \A f \in Fields \ {"step", "ok"} : job[f] = x[f]
    BY <1>1 DEF JobOK, Fields, PushFailed
  <2> HIDE DEF job, x
  <2>2. Looked(job)
    BY <2>1 DEF Looked
  <2>3. JobOK(job)
    BY <1>1, <2>1, <2>2, LaterJob DEF JobOK, Fields, Last
  <2> QED BY <1>3, <2>3, EitherJob DEF job
<1> QED BY <1>2, <1>3 DEF Push

LEMMA AlertJob ==
  ASSUME JobsOK, NEW j \in Jobs, Alert(j)
  PROVE  JobsOK'
<1> DEFINE x == jobs[j]
<1>1. x.step = "alert" /\ JobOK(x)
  BY DEF Alert, At, JobsOK
<1>2. CASE Signals(x) \cap {"red", "yellow"} = {} /\ Set(j, [x EXCEPT !.step = "gate"])
  <2> DEFINE job == [x EXCEPT !.step = "gate"]
  <2>1. DOMAIN job = Fields /\ job.step = "gate" /\ \A f \in Fields \ {"step"} : job[f] = x[f]
    BY <1>1 DEF JobOK, Fields
  <2>2. Set(j, job) /\ Signals(x) \cap {"red", "yellow"} = {}
    BY <1>2
  <2> HIDE DEF job, x
  <2>3. Signals(job) = Signals(x)
    BY <2>1 DEF Signals, Fields
  <2>4. Looked(job)
    BY <2>1, <2>2, <2>3 DEF Looked
  <2>5. job.ok = x.ok /\ job.alerted = x.alerted
    BY <2>1 DEF Fields
  <2>6. JobOK(job)
    BY <1>1, <2>1, <2>4, <2>5, LaterJob DEF JobOK, Fields, Last
  <2> QED BY <2>2, <2>6, SetJob
<1>3. CASE Set(j, [x EXCEPT !.step = "gate", !.alerted = TRUE])
  <2> DEFINE job == [x EXCEPT !.step = "gate", !.alerted = TRUE]
  <2>1. /\ DOMAIN job = Fields /\ job.step = "gate"
        /\ \A f \in Fields \ {"step", "alerted"} : job[f] = x[f]
    BY <1>1 DEF JobOK, Fields
  <2>0. job.alerted = TRUE
    BY <1>1 DEF JobOK, Fields
  <2>2. Set(j, job)
    BY <1>3
  <2> HIDE DEF job, x
  <2>3. Looked(job)
    BY <2>0, <2>1 DEF Looked
  <2>4. job.ok \in BOOLEAN /\ job.alerted \in BOOLEAN
    BY <1>1, <2>0, <2>1 DEF Fields, JobOK
  <2>5. JobOK(job)
    BY <1>1, <2>1, <2>3, <2>4, LaterJob DEF JobOK, Fields, Last
  <2> QED BY <2>2, <2>5, SetJob
<1>4. CASE Trouble(j, [x EXCEPT !.step = "gate", !.ok = FALSE])
  <2> DEFINE job == [x EXCEPT !.step = "gate", !.ok = FALSE]
  <2>1. /\ DOMAIN job = Fields /\ job.step = "gate"
        /\ \A f \in Fields \ {"step", "ok"} : job[f] = x[f]
    BY <1>1 DEF JobOK, Fields
  <2>0. job.ok = FALSE
    BY <1>1 DEF JobOK, Fields
  <2>2. Trouble(j, job)
    BY <1>4
  <2> HIDE DEF job, x
  <2>3. Looked(job)
    BY <2>0, <2>1 DEF Looked
  <2>4. job.alerted \in BOOLEAN /\ job.ok \in BOOLEAN
    BY <1>1, <2>0, <2>1 DEF Fields, JobOK
  <2>5. JobOK(job)
    BY <1>1, <2>1, <2>3, <2>4, LaterJob DEF JobOK, Fields, Last
  <2> QED BY <2>2, <2>5, TroubleJob
<1> QED BY <1>2, <1>3, <1>4 DEF Alert

LEMMA GateJob ==
  ASSUME JobsOK, NEW j \in Jobs, Gate(j)
  PROVE  JobsOK'
<1> DEFINE x == jobs[j]
<1>1. x.step = "gate" /\ JobOK(x)
  BY DEF Gate, At, JobsOK
<1> DEFINE passes == x.ok /\ x.preflight = "pass" /\ x.contract # "failure" /\ x.suite_b.status # "red"
           job == [x EXCEPT !.step = "done", !.ok = passes]
<1>2. Set(j, job)
  BY DEF Gate
<1>3. passes \in BOOLEAN /\ (passes => x.ok /\ x.preflight = "pass" /\ x.suite_b.status # "red")
  OBVIOUS
<1> HIDE DEF passes
<1>4. /\ DOMAIN job = Fields /\ job.step = "done" /\ job.ok = passes
      /\ \A f \in Fields \ {"step", "ok"} : job[f] = x[f]
  BY <1>1 DEF JobOK, Fields
<1> HIDE DEF job, x
<1>5. Signals(job) = Signals(x) /\ job.alerted = x.alerted /\ job.preflight = x.preflight /\ job.suite_b = x.suite_b
  BY <1>4 DEF Signals, Fields
<1>6. Looked(job)
  BY <1>1, <1>3, <1>4, <1>5 DEF Looked, JobOK
<1>7. job.ok \in BOOLEAN
  BY <1>3, <1>4
<1>8. JobOK(job)
  BY <1>1, <1>4, <1>5, <1>6, <1>7, LaterJob DEF JobOK, Fields, Last
<1> QED BY <1>2, <1>8, SetJob

LEMMA JobsStep == JobsOK /\ [WorkflowNext]_workflowVars => JobsOK'
<1> SUFFICES ASSUME JobsOK, [WorkflowNext]_workflowVars PROVE JobsOK'
  OBVIOUS
<1>1. ASSUME UNCHANGED jobs PROVE JobsOK'
  BY <1>1 DEF JobsOK, JobOK, NotYet, Shown, Looked, Signals
<1>2. CASE \E j \in Jobs : Step(j)
  BY <1>2, StartJob, PreflightJob, ContractJob, SuiteBJob, SuiteDJob, SuiteDDeltaJob, RunTestsJob,
     VerifyCitationsStepJob, HallucinationDiffJob, FetchJob, PushJob, AlertJob, GateJob DEF Step
<1>3. CASE Digest \/ Tick
  BY <1>1, <1>3 DEF Digest, Tick
<1>4. CASE UNCHANGED workflowVars
  BY <1>1, <1>4 DEF workflowVars
<1> QED BY <1>2, <1>3, <1>4 DEF WorkflowNext

LEMMA JobsInvariant == WorkflowSpec => []JobsOK
BY JobsInit, JobsStep, PTL DEF WorkflowSpec

(* A job that is done, green and silent had the service's answer, has no red   *)
(* or yellow report, and once suite B had reported no later script of it broke *)
(* (full-stack-tests.yml), for any number of concurrent jobs and failures.     *)
THEOREM QuietHidesNothing == WorkflowSpec => []QuietMeansNothingBad
<1>1. JobsOK => QuietMeansNothingBad
  <2> SUFFICES ASSUME JobsOK, NEW j \in Jobs, At(j, "done"), jobs[j].ok, ~jobs[j].alerted
               PROVE  /\ jobs[j].preflight = "pass"
                      /\ jobs[j].suite_b # NotRun => ~jobs[j].broke
                      /\ \A r \in ReportsOf(jobs[j]) : r.status \notin {"red", "yellow"}
    BY DEF QuietMeansNothingBad, Quiet
  <2> DEFINE x == jobs[j]
  <2>1. JobOK(x) /\ x.step = "done"
    BY DEF JobsOK, At
  <2>2. Signals(x) \cap {"red", "yellow"} = {} /\ x.preflight = "pass"
    BY <2>1 DEF JobOK, Looked
  <2>3. {x.suite_b.status, x.delta.status, x.halluc.status} \cap {"red", "yellow"} = {}
    BY <2>2 DEF Signals
  <2>4. (x.suite_b # NotRun => ~x.broke) /\ x.suite_d.status \notin {"red", "yellow"}
    BY <2>1, <2>3 DEF JobOK, Shown
  <2> QED BY <2>2, <2>3, <2>4 DEF ReportsOf
<1> QED BY <1>1, JobsInvariant, PTL

(* A critical test that the baseline hit and the run missed fails the job,     *)
(* however many other tests improved and whatever the pass rates are           *)
(* (run_suite_b.py, diff_vs_baseline; the gate of full-stack-tests.yml).       *)
THEOREM CriticalMissFails == WorkflowSpec => []CriticalMissFailsJob
<1>1. JobsOK => CriticalMissFailsJob
  BY DEF JobsOK, JobOK, Shown, Looked, CriticalMissFailsJob, At
<1> QED BY <1>1, JobsInvariant, PTL

-----------------------------------------------------------------------------
(* The branch.                                                                 *)
OnBranch(r) == \E kept \in branch : Path(kept) = Path(r)
KeptInv ==
  \A j \in Jobs : jobs[j].step \in {"alert", "gate", "done"} /\ jobs[j].ok =>
    \A r \in ReportsOf(jobs[j]) : OnBranch(r)

(* A push is refused unless it stands on the tip, so it adds to the branch.    *)
LEMMA PushAdds ==
  ASSUME NEW j \in Jobs, Push(j)
  PROVE  /\ \A r : OnBranch(r) => OnBranch(r)'
         /\ branch' # branch => \A r \in ReportsOf(jobs[j]) : OnBranch(r)'
<1>1. CASE UNCHANGED <<branch, tip>>
  BY <1>1 DEF OnBranch, Path
<1>2. CASE /\ PushAllowed(j)
           /\ branch' = ReportsOf(jobs[j]) \cup {r \in branch : \A m \in ReportsOf(jobs[j]) : Path(m) # Path(r)}
  BY <1>2 DEF OnBranch, Path
<1> QED BY <1>1, <1>2 DEF Push, PushAllowed

(* What was persisted stays: no push of a job takes another job's reports away *)
(* (full-stack-tests.yml, the persist step).                                   *)
THEOREM BranchOnlyGrows == WorkflowSpec => BranchGrows
<1>1. ASSUME [WorkflowNext]_workflowVars, branch' # branch
      PROVE  {Path(r) : r \in branch} \subseteq {Path(r) : r \in branch'}
  <2>1. PICK j \in Jobs : Push(j)
    BY <1>1 DEF WorkflowNext, workflowVars, Step, Local, Digest, Tick, Start, Preflight, Contract, SuiteB,
                SuiteD, SuiteDDelta, RunTests, VerifyCitationsStep, HallucinationDiff, Fetch, Alert, Gate
  <2> QED BY <2>1, PushAdds DEF OnBranch
<1>2. [WorkflowNext]_workflowVars => [{Path(r) : r \in branch} \subseteq {Path(r) : r \in branch'}]_branch
  BY <1>1
<1> QED BY <1>2, PTL DEF WorkflowSpec, BranchGrows

(* A step is one of its job alone.                                             *)
LEMMA OthersStay ==
  ASSUME JobsOK, NEW j \in Jobs, Step(j), NEW k \in Jobs, k # j
  PROVE  jobs'[k] = jobs[k]
<1>1. \E job : jobs' = [jobs EXCEPT ![j] = job]
  <2>1. CASE Start(j) BY <2>1 DEF Start, Set
  <2>2. CASE Preflight(j) BY <2>2 DEF Preflight, Set, Trouble
  <2>3. CASE Contract(j) BY <2>3 DEF Contract, Set, Trouble
  <2>4. CASE SuiteB(j) BY <2>4 DEF SuiteB, Set, Trouble
  <2>5. CASE SuiteD(j) BY <2>5 DEF SuiteD, Set, Trouble
  <2>6. CASE SuiteDDelta(j) BY <2>6 DEF SuiteDDelta, Set, Trouble
  <2>7. CASE RunTests(j) BY <2>7 DEF RunTests, Set
  <2>8. CASE VerifyCitationsStep(j) BY <2>8 DEF VerifyCitationsStep, Set, Trouble
  <2>9. CASE HallucinationDiff(j) BY <2>9 DEF HallucinationDiff, Set, Trouble
  <2>10. CASE Fetch(j) BY <2>10 DEF Fetch, Set, Trouble
  <2>11. CASE Push(j) BY <2>11 DEF Push, Set, Trouble
  <2>12. CASE Alert(j) BY <2>12 DEF Alert, Set, Trouble
  <2>13. CASE Gate(j) BY <2>13 DEF Gate, Set
  <2> QED BY <2>1, <2>2, <2>3, <2>4, <2>5, <2>6, <2>7, <2>8, <2>9, <2>10, <2>11, <2>12, <2>13 DEF Step
<1> QED BY <1>1 DEF JobsOK

(* What a job looks like after one of its first steps.                         *)
LEMMA EarlySteps ==
  ASSUME JobsOK, NEW j \in Jobs,
         Start(j) \/ Preflight(j) \/ Contract(j) \/ SuiteB(j) \/ SuiteD(j) \/ SuiteDDelta(j) \/ RunTests(j)
           \/ VerifyCitationsStep(j) \/ HallucinationDiff(j)
  PROVE  jobs'[j].step \notin {"alert", "gate", "done"}
<1> DEFINE x == jobs[j]
<1>1. DOMAIN x = Fields
  BY DEF JobsOK, JobOK
<1>2. ASSUME NEW job, DOMAIN job = Fields, Set(j, job) \/ Trouble(j, job), job.step \notin {"alert", "gate", "done"}
      PROVE  jobs'[j].step \notin {"alert", "gate", "done"}
  BY <1>2 DEF Set, Trouble, JobsOK, Fields
<1>4. CASE Start(j)
  BY <1>1, <1>4 DEF Start, Set, JobsOK, Fields
<1>5. CASE Preflight(j)
  <2>1. LET job == [x EXCEPT !.step = "contract", !.preflight = "pass"]
       IN  DOMAIN job = Fields /\ job.step = "contract"
    BY <1>1 DEF Fields
  <2>2. LET job == [x EXCEPT !.step = "contract", !.preflight = "fail"]
       IN  DOMAIN job = Fields /\ job.step = "contract"
    BY <1>1 DEF Fields
  <2>3. LET job == [x EXCEPT !.step = "persist", !.ok = FALSE]
       IN  DOMAIN job = Fields /\ job.step = "persist"
    BY <1>1 DEF Fields
  <2> HIDE DEF x
  <2> QED BY <1>2, <1>5, <2>1, <2>2, <2>3 DEF Preflight, x
<1>6. CASE Contract(j)
  <2>1. LET job == [x EXCEPT !.step = "suite_b", !.contract = "success"]
       IN  DOMAIN job = Fields /\ job.step = "suite_b"
    BY <1>1 DEF Fields
  <2>2. LET job == [x EXCEPT !.step = "suite_b", !.contract = "failure"]
       IN  DOMAIN job = Fields /\ job.step = "suite_b"
    BY <1>1 DEF Fields
  <2> HIDE DEF x
  <2> QED BY <1>2, <1>6, <2>1, <2>2 DEF Contract, x
<1>7. CASE SuiteB(j)
  <2>1. LET job == [x EXCEPT !.step = "suite_d"]
       IN  DOMAIN job = Fields /\ job.step = "suite_d"
    BY <1>1 DEF Fields
  <2>2. \A report, missed : LET job == [x EXCEPT !.step = "suite_d", !.suite_b = report, !.missed = missed]
         IN  DOMAIN job = Fields /\ job.step = "suite_d"
    BY <1>1 DEF Fields
  <2>3. LET job == [x EXCEPT !.step = "suite_d", !.suite_b = Synthesized(j, "suite_b", "red"), !.broke = TRUE]
       IN  DOMAIN job = Fields /\ job.step = "suite_d"
    BY <1>1 DEF Fields
  <2>4. CASE Wants(j, {"preflight-only"})
    <3>1. Set(j, [jobs[j] EXCEPT !.step = "suite_d"])
      BY <1>7, <2>4 DEF SuiteB
    <3> QED BY <1>2, <2>1, <3>1
  <2>5. CASE Trouble(j, [jobs[j] EXCEPT !.step = "suite_d", !.suite_b = Synthesized(j, "suite_b", "red"), !.broke = TRUE])
    BY <1>2, <2>3, <2>5
  <2>6. ASSUME NEW report, NEW missed, Set(j, [jobs[j] EXCEPT !.step = "suite_d", !.suite_b = report, !.missed = missed])
        PROVE  jobs'[j].step \notin {"alert", "gate", "done"}
    <3>1. LET job == [x EXCEPT !.step = "suite_d", !.suite_b = report, !.missed = missed]
         IN  DOMAIN job = Fields /\ job.step = "suite_d"
      BY <2>2
    <3> QED BY <1>2, <2>6, <3>1
  <2> HIDE DEF x
  <2> QED BY <1>7, <2>4, <2>5, <2>6 DEF SuiteB
<1>8. CASE SuiteD(j)
  <2>1. LET job == [x EXCEPT !.step = "suite_d_delta"]
       IN  DOMAIN job = Fields /\ job.step = "suite_d_delta"
    BY <1>1 DEF Fields
  <2>2. \A report : LET job == [x EXCEPT !.step = "suite_d_delta", !.results = "written", !.suite_d = report]
         IN  DOMAIN job = Fields /\ job.step = "suite_d_delta"
    BY <1>1 DEF Fields
  <2>3. LET job == [x EXCEPT !.step = "suite_d_delta", !.results = "missing"]
       IN  DOMAIN job = Fields /\ job.step = "suite_d_delta"
    BY <1>1 DEF Fields
  <2> HIDE DEF x
  <2> QED BY <1>2, <1>8, <2>1, <2>2, <2>3 DEF SuiteD, x
<1>9. CASE SuiteDDelta(j)
  <2>1. LET job == [x EXCEPT !.step = "tests"]
       IN  DOMAIN job = Fields /\ job.step = "tests"
    BY <1>1 DEF Fields
  <2>2. ASSUME NEW grounded, NEW report, Set(j, [x EXCEPT !.step = "tests", !.grounded = grounded, !.delta = report])
        PROVE  jobs'[j].step \notin {"alert", "gate", "done"}
    <3> DEFINE job == [x EXCEPT !.step = "tests", !.grounded = grounded, !.delta = report]
    <3>1. DOMAIN job = Fields /\ job.step = "tests"
      BY <1>1 DEF Fields
    <3>2. Set(j, job)
      BY <2>2
    <3> HIDE DEF job
    <3> QED BY <1>2, <3>1, <3>2
  <2>3. ASSUME Set(j, [x EXCEPT !.step = "tests"]) \/ Trouble(j, [x EXCEPT !.step = "tests",
                 !.delta = Synthesized(j, "suite_d_delta", "red"), !.broke = TRUE])
        PROVE  jobs'[j].step \notin {"alert", "gate", "done"}
    <3>1. LET job == [x EXCEPT !.step = "tests", !.delta = Synthesized(j, "suite_d_delta", "red"), !.broke = TRUE]
         IN  DOMAIN job = Fields /\ job.step = "tests"
      BY <1>1 DEF Fields
    <3> HIDE DEF x
    <3> QED BY <1>2, <2>1, <2>3, <3>1
  <2> QED BY <1>9, <2>2, <2>3 DEF SuiteDDelta
<1>10. CASE RunTests(j)
  BY <1>1, <1>10 DEF RunTests, Set, JobsOK, Fields
<1>11. CASE VerifyCitationsStep(j)
  <2>1. LET job == [x EXCEPT !.step = "diff"]
       IN  DOMAIN job = Fields /\ job.step = "diff"
    BY <1>1 DEF Fields
  <2>2. LET job == [x EXCEPT !.step = "diff", !.cited = "no file"]
       IN  DOMAIN job = Fields /\ job.step = "diff"
    BY <1>1 DEF Fields
  <2>3. \A counts : LET job == [x EXCEPT !.step = "diff", !.cited = "counted", !.counts = counts]
         IN  DOMAIN job = Fields /\ job.step = "diff"
    BY <1>1 DEF Fields
  <2> HIDE DEF x
  <2> QED BY <1>2, <1>11, <2>1, <2>2, <2>3 DEF VerifyCitationsStep, x
<1>12. CASE HallucinationDiff(j)
  <2>1. DOMAIN Consumed(j) = Fields /\ Consumed(j).step = "persist"
    BY <1>1 DEF Consumed, Fields
  <2> QED BY <1>12, <2>1 DEF HallucinationDiff, Set, Trouble, JobsOK, Fields
<1> QED BY <1>4, <1>5, <1>6, <1>7, <1>8, <1>9, <1>10, <1>11, <1>12

(* What a job looks like after one of its last steps: it comes to its alert    *)
(* with its reports on the branch, with none, or failed.                       *)
LEMMA LateSteps ==
  ASSUME JobsOK, KeptInv, NEW j \in Jobs, Fetch(j) \/ Push(j) \/ Alert(j) \/ Gate(j),
         jobs'[j].step \in {"alert", "gate", "done"}, jobs'[j].ok
  PROVE  \A r \in ReportsOf(jobs'[j]) : OnBranch(r)'
<1> DEFINE x == jobs[j]
<1>1. DOMAIN x = Fields /\ x.ok \in BOOLEAN
  BY DEF JobsOK, JobOK
<1>2. ASSUME NEW job, DOMAIN job = Fields, Set(j, job) \/ Trouble(j, job)
      PROVE  ReportsOf(jobs'[j]) = ReportsOf(job) /\ jobs'[j].ok = job.ok /\ jobs'[j].step = job.step
  <2> DEFINE counted == [job EXCEPT !.troubles = @ + 1]
  <2>1. \A f \in Fields \ {"troubles"} : counted[f] = job[f]
    BY <1>2 DEF Fields
  <2>2. jobs'[j] = job \/ jobs'[j] = counted
    BY <1>2 DEF Set, Trouble, JobsOK
  <2> HIDE DEF counted
  <2>3. \A f \in Fields \ {"troubles"} : jobs'[j][f] = job[f]
    BY <2>1, <2>2
  <2> QED BY <2>3 DEF Fields, ReportsOf
<1>3. CASE Fetch(j)
  <2>1. LET job == [x EXCEPT !.step = "alert"]
       IN  DOMAIN job = Fields /\ ReportsOf(job) = ReportsOf(x)
    BY <1>1 DEF Fields, ReportsOf
  <2>2. LET job == [x EXCEPT !.step = "push", !.base = tip]
       IN  DOMAIN job = Fields /\ job.step = "push"
    BY <1>1 DEF Fields
  <2>3. LET job == [x EXCEPT !.step = "push", !.base = 0]
       IN  DOMAIN job = Fields /\ job.step = "push"
    BY <1>1 DEF Fields
  <2> HIDE DEF x
  <2>4. ReportsOf(jobs'[j]) = {}
    BY <1>2, <1>3, <2>1, <2>2, <2>3 DEF Fetch, x
  <2> QED BY <2>4
<1>4. CASE Push(j)
  <2>1. LET job == [x EXCEPT !.step = "alert"]
       IN  DOMAIN job = Fields /\ ReportsOf(job) = ReportsOf(x)
    BY <1>1 DEF Fields, ReportsOf
  <2>2. DOMAIN PushFailed(j) = Fields /\ PushFailed(j).ok = FALSE
    BY <1>1 DEF Fields, PushFailed
  <2> HIDE DEF x
  <2>3. ~(Set(j, PushFailed(j)) \/ Trouble(j, PushFailed(j)))
    BY <1>2, <2>2
  <2>4. /\ ReportsOf(jobs'[j]) = ReportsOf(x)
        /\ ReportsOf(x) \subseteq branch'
    BY <1>2, <1>4, <2>1, <2>3 DEF Push, x
  <2> QED BY <2>4 DEF OnBranch
<1>5. ASSUME NEW job, DOMAIN job = Fields, Set(j, job) \/ Trouble(j, job),
             ReportsOf(job) = ReportsOf(x), job.ok => x.ok, x.step \in {"alert", "gate"}, branch' = branch
      PROVE  \A r \in ReportsOf(jobs'[j]) : OnBranch(r)'
  <2>1. x.ok /\ ReportsOf(jobs'[j]) = ReportsOf(x)
    BY <1>2, <1>5
  <2> QED BY <1>5, <2>1 DEF KeptInv, OnBranch
<1>6. CASE Alert(j)
  <2>1. LET job == [x EXCEPT !.step = "gate"]
       IN  DOMAIN job = Fields /\ ReportsOf(job) = ReportsOf(x) /\ job.ok = x.ok
    BY <1>1 DEF Fields, ReportsOf
  <2>2. LET job == [x EXCEPT !.step = "gate", !.alerted = TRUE]
       IN  DOMAIN job = Fields /\ ReportsOf(job) = ReportsOf(x) /\ job.ok = x.ok
    BY <1>1 DEF Fields, ReportsOf
  <2>3. LET job == [x EXCEPT !.step = "gate", !.ok = FALSE]
       IN  DOMAIN job = Fields /\ ReportsOf(job) = ReportsOf(x) /\ ~job.ok
    BY <1>1 DEF Fields, ReportsOf
  <2>4. x.step = "alert" /\ branch' = branch
    BY <1>6 DEF Alert, At, Local
  <2> HIDE DEF x
  <2> QED BY <1>5, <1>6, <2>1, <2>2, <2>3, <2>4 DEF Alert, x
<1>7. CASE Gate(j)
  <2> DEFINE passes == x.ok /\ x.preflight = "pass" /\ x.contract # "failure" /\ x.suite_b.status # "red"
             job == [x EXCEPT !.step = "done", !.ok = passes]
  <2>1. Set(j, job) /\ x.step = "gate" /\ branch' = branch
    BY <1>7 DEF Gate, At, Local
  <2>2. passes \in BOOLEAN /\ (passes => x.ok)
    OBVIOUS
  <2> HIDE DEF passes
  <2>3. DOMAIN job = Fields /\ ReportsOf(job) = ReportsOf(x) /\ job.ok = passes
    BY <1>1 DEF Fields, ReportsOf
  <2> HIDE DEF job, x
  <2>4. job.ok => x.ok
    BY <2>2, <2>3
  <2> QED BY <1>5, <2>1, <2>3, <2>4
<1> QED BY <1>3, <1>4, <1>6, <1>7

LEMMA KeptStep == JobsOK /\ KeptInv /\ [WorkflowNext]_workflowVars => KeptInv'
<1> SUFFICES ASSUME JobsOK, KeptInv, [WorkflowNext]_workflowVars PROVE KeptInv'
  OBVIOUS
<1>1. CASE UNCHANGED <<jobs, branch>>
  BY <1>1 DEF KeptInv, ReportsOf, OnBranch
<1>2. ASSUME NEW j \in Jobs, Step(j) PROVE KeptInv'
  <2>1. \A r : OnBranch(r) => OnBranch(r)'
    <3>1. CASE Push(j)
      BY <3>1, PushAdds
    <3>2. CASE branch' = branch
      BY <3>2 DEF OnBranch, Path
    <3> QED BY <1>2, <3>1, <3>2 DEF Step, Local, Start, Preflight, Contract, SuiteB, SuiteD, SuiteDDelta,
                  RunTests, VerifyCitationsStep, HallucinationDiff, Fetch, Alert, Gate
  <2>2. ASSUME NEW k \in Jobs, jobs'[k].step \in {"alert", "gate", "done"}, jobs'[k].ok
        PROVE  \A r \in ReportsOf(jobs'[k]) : OnBranch(r)'
    <3>1. CASE k = j
      BY <1>2, <2>2, <3>1, EarlySteps, LateSteps DEF Step
    <3>2. CASE k # j
      BY <1>2, <2>1, <2>2, <3>2, OthersStay DEF KeptInv
    <3> QED BY <3>1, <3>2
  <2> QED BY <2>2 DEF KeptInv, ReportsOf, OnBranch
<1> QED BY <1>1, <1>2 DEF WorkflowNext, Digest, Tick, workflowVars

(* A job that ends green has its reports on the branch, whatever other jobs    *)
(* pushed between its fetch and its push and after it (full-stack-tests.yml).  *)
THEOREM ReportsAreKept == WorkflowSpec => []ReportsKept
<1>1. WorkflowInit => KeptInv
  BY DEF WorkflowInit, KeptInv, NewJob
<1>2. KeptInv => ReportsKept
  BY DEF KeptInv, ReportsKept, OnBranch, At
<1> QED BY <1>1, <1>2, KeptStep, JobsInvariant, PTL DEF WorkflowSpec

-----------------------------------------------------------------------------
(* What a light rests on.                                                      *)
Counts(c) == c.verified \in Nat /\ c.failed \in Nat

LEMMA CitationsAreCounted ==
  ASSUME NEW artifacts, NEW run, IsFiniteSet(DOMAIN run.files),
         \A p \in DOMAIN run.files : IsFiniteSet(run.files[p].citations)
  PROVE  Counts(AggregateCitations(artifacts, run))
<1> DEFINE read == {p \in artifacts \cap DOMAIN run.files : run.files[p].verifiable}
           pairs == [p \in read |-> {<<p, c>> : c \in run.files[p].citations}]
           citations == UNION {{<<p, c>> : c \in run.files[p].citations} : p \in read}
<1>1. IsFiniteSet(read)
  BY FS_Subset
<1>2. ASSUME NEW p \in read PROVE IsFiniteSet(pairs[p])
  <2> DEFINE left == run.files[p].citations
             label == [c \in left |-> <<p, c>>]
  <2>1. IsFiniteSet(left)
    OBVIOUS
  <2>2. label \in Surjection(left, {<<p, c>> : c \in left})
    BY DEF Surjection
  <2>3. pairs[p] = {<<p, c>> : c \in left}
    OBVIOUS
  <2> HIDE DEF label, left
  <2> QED BY <2>1, <2>2, <2>3, FS_Surjection
<1>3. citations = UNION {pairs[p] : p \in read}
  <2>1. \A p \in read : pairs[p] = {<<p, c>> : c \in run.files[p].citations}
    OBVIOUS
  <2>2. \A pc : pc \in citations <=> \E p \in read : pc \in {<<p, c>> : c \in run.files[p].citations}
    OBVIOUS
  <2> HIDE DEF read, pairs, citations
  <2> QED BY <2>1, <2>2
<1>4. IsFiniteSet(citations)
  <2> HIDE DEF read, pairs, citations
  <2> QED BY <1>1, <1>2, <1>3, FiniteUnions
<1>5. \A outcome : Cardinality({pc \in citations : Outcome(pc[2]) = outcome}) \in Nat
  <2> SUFFICES ASSUME NEW outcome PROVE Cardinality({pc \in citations : Outcome(pc[2]) = outcome}) \in Nat
    OBVIOUS
  <2> DEFINE some == {pc \in citations : Outcome(pc[2]) = outcome}
  <2>1. some \in SUBSET citations
    OBVIOUS
  <2> HIDE DEF some, citations
  <2>2. Cardinality(some) \in Nat
    BY <1>4, <2>1, FS_Subset, FS_CardinalityType
  <2> QED BY <2>2 DEF some
<1>6. /\ AggregateCitations(artifacts, run).verified = Cardinality({pc \in citations : Outcome(pc[2]) = "verified"})
      /\ AggregateCitations(artifacts, run).failed = Cardinality({pc \in citations : Outcome(pc[2]) = "failed"})
  BY DEF AggregateCitations
<1> HIDE DEF citations
<1> QED BY <1>5, <1>6 DEF Counts

(* A light that is not red rests on two agents that passed their checks and    *)
(* on enough citations that were verified.                                     *)
LEMMA LightIsMeasured ==
  ASSUME NEW baseline, NEW koi, Counts(koi.citations),
         NEW light \in TrafficLights(baseline, koi), light # "red"
  PROVE  baseline.passed /\ Measured(koi)
<1> USE AgentsAssumption
<1> DEFINE c == koi.citations
<1>1. ~Unfounded(baseline, koi)
  BY DEF TrafficLights
<1>2. baseline.passed /\ koi.passed
  BY <1>1 DEF Unfounded
<1>3. Verifiable(c) \in Nat
  BY DEF Counts, Verifiable
<1>4. Verifiable(c) >= Thresholds.min
  BY <1>1, <1>3 DEF Unfounded
<1>5. 100 * c.failed <= Thresholds.max * Verifiable(c)
  <2>1. ~Above(HallucinationRate(c), Thresholds.max)
    BY <1>1 DEF Unfounded, Or
  <2>2. CASE Verifiable(c) = 0
    <3>1. c.failed = 0
      BY <2>2 DEF Counts, Verifiable
    <3> QED BY <2>2, <3>1
  <2>3. CASE Verifiable(c) # 0
    <3> DEFINE v == Verifiable(c)
    <3>1. HallucinationRate(c) = <<c.failed, v>>
      BY <2>3 DEF HallucinationRate, Rate
    <3>2. ~(100 * c.failed > Thresholds.max * v)
      BY <2>1, <3>1 DEF Above
    <3>3. 100 * c.failed \in Nat /\ Thresholds.max * v \in Nat
      <4>1. c.failed \in Nat /\ v \in Nat /\ Thresholds.max \in Nat
        BY <1>3 DEF Counts
      <4> HIDE DEF v
      <4> QED BY ONLY <4>1
    <3> HIDE DEF v, c
    <3>4. 100 * c.failed <= Thresholds.max * v
      BY <3>2, <3>3
    <3> QED BY <3>4 DEF v
  <2> QED BY <2>2, <2>3
<1> QED BY <1>2, <1>4, <1>5 DEF Measured

-----------------------------------------------------------------------------
(* What a step leaves of a job's reports.                                      *)
Reports == {"suite_b", "suite_d", "delta", "halluc"}
Remade(x, y) == \A f \in Reports : y[f] = x[f] \/ y[f].stamp = now
SameDelta(x, y) == y.delta = x.delta /\ y.grounded = x.grounded

Worth(x) == x.delta.status \in {"green", "yellow"} => x.grounded
Stamped(x) == \A f \in Reports : x[f].stamp \in Nat
(* job is the job x after a step that makes the report own, if any.            *)
Made(x, job, own) ==
  /\ DOMAIN job = Fields
  /\ own \in Reports => job[own].stamp = now \/ job[own] = x[own]
  /\ own \in Reports \cup {"nothing"}
  /\ \A f \in Reports \ {own} : job[f] = x[f]
  /\ own # "delta" => job.grounded = x.grounded
Moves(j, job) == Set(j, job) \/ Trouble(j, job)
Tells(j) == Remade(jobs[j], jobs'[j]) /\ (SameDelta(jobs[j], jobs'[j]) \/ SuiteDDelta(j))

LEMMA Moved ==
  ASSUME JobsOK, NEW j \in Jobs, NEW job, NEW own, Made(jobs[j], job, own), Moves(j, job)
  PROVE  Remade(jobs[j], jobs'[j]) /\ (own # "delta" => SameDelta(jobs[j], jobs'[j]))
<1> DEFINE x == jobs[j]
           counted == [job EXCEPT !.troubles = @ + 1]
<1>1. \A f \in Fields \ {"troubles"} : counted[f] = job[f]
  BY DEF Fields, Made
<1>2. jobs'[j] = job \/ jobs'[j] = counted
  BY DEF Moves, Set, Trouble, JobsOK
<1> HIDE DEF counted, x
<1>3. \A f \in Fields \ {"troubles"} : jobs'[j][f] = job[f]
  BY <1>1, <1>2
<1>4. \A f \in Reports \cup {"grounded"} : jobs'[j][f] = job[f]
  BY <1>3 DEF Fields, Reports
<1>5. Made(x, job, own)
  BY DEF x
<1>6. Remade(x, jobs'[j])
  BY <1>4, <1>5 DEF Made, Remade
<1>7. own # "delta" => SameDelta(x, jobs'[j])
  BY <1>4, <1>5 DEF Made, SameDelta, Reports
<1> QED BY <1>6, <1>7 DEF x

LEMMA StartTells ==
  ASSUME JobsOK, NEW j \in Jobs, Start(j)
  PROVE  Tells(j)
<1>1. DOMAIN jobs[j] = Fields
  BY DEF JobsOK, JobOK
<1>2. \A suite : Made(jobs[j], [jobs[j] EXCEPT !.step = "preflight", !.suite = suite], "nothing")
  BY <1>1 DEF Made, Fields, Reports
<1>3. \E job : Made(jobs[j], job, "nothing") /\ Moves(j, job)
  BY <1>2 DEF Start, Moves
<1> QED BY <1>3, Moved DEF Tells

LEMMA PreflightTells ==
  ASSUME JobsOK, NEW j \in Jobs, Preflight(j)
  PROVE  Tells(j)
<1>1. DOMAIN jobs[j] = Fields
  BY DEF JobsOK, JobOK
<1>2. Made(jobs[j], [jobs[j] EXCEPT !.step = "contract", !.preflight = "pass"], "nothing")
  BY <1>1 DEF Made, Fields, Reports
<1>3. Made(jobs[j], [jobs[j] EXCEPT !.step = "contract", !.preflight = "fail"], "nothing")
  BY <1>1 DEF Made, Fields, Reports
<1>4. Made(jobs[j], [jobs[j] EXCEPT !.step = "persist", !.ok = FALSE], "nothing")
  BY <1>1 DEF Made, Fields, Reports
<1>5. \E job : Made(jobs[j], job, "nothing") /\ Moves(j, job)
  BY <1>2, <1>3, <1>4 DEF Preflight, Moves
<1> QED BY <1>5, Moved DEF Tells

LEMMA ContractTells ==
  ASSUME JobsOK, NEW j \in Jobs, Contract(j)
  PROVE  Tells(j)
<1>1. DOMAIN jobs[j] = Fields
  BY DEF JobsOK, JobOK
<1>2. Made(jobs[j], [jobs[j] EXCEPT !.step = "suite_b", !.contract = "success"], "nothing")
  BY <1>1 DEF Made, Fields, Reports
<1>3. Made(jobs[j], [jobs[j] EXCEPT !.step = "suite_b", !.contract = "failure"], "nothing")
  BY <1>1 DEF Made, Fields, Reports
<1>4. \E job : Made(jobs[j], job, "nothing") /\ Moves(j, job)
  BY <1>2, <1>3 DEF Contract, Moves
<1> QED BY <1>4, Moved DEF Tells

LEMMA RunTestsTells ==
  ASSUME JobsOK, NEW j \in Jobs, RunTests(j)
  PROVE  Tells(j)
<1>1. DOMAIN jobs[j] = Fields
  BY DEF JobsOK, JobOK
<1>2. Made(jobs[j], [jobs[j] EXCEPT !.step = "citations",
                 !.results = IF Wants(j, {"preflight-only"}) \/ @ # "none" THEN @ ELSE "scaffold"], "nothing")
  BY <1>1 DEF Made, Fields, Reports
<1>3. \E job : Made(jobs[j], job, "nothing") /\ Moves(j, job)
  BY <1>2 DEF RunTests, Moves
<1> QED BY <1>3, Moved DEF Tells

LEMMA VerifyTells ==
  ASSUME JobsOK, NEW j \in Jobs, VerifyCitationsStep(j)
  PROVE  Tells(j)
<1>1. DOMAIN jobs[j] = Fields
  BY DEF JobsOK, JobOK
<1>2. Made(jobs[j], [jobs[j] EXCEPT !.step = "diff"], "nothing")
  BY <1>1 DEF Made, Fields, Reports
<1>3. Made(jobs[j], [jobs[j] EXCEPT !.step = "diff", !.cited = "no file"], "nothing")
  BY <1>1 DEF Made, Fields, Reports
<1>4. \A counts : Made(jobs[j], [jobs[j] EXCEPT !.step = "diff", !.cited = "counted", !.counts = counts], "nothing")
  BY <1>1 DEF Made, Fields, Reports
<1>5. \E job : Made(jobs[j], job, "nothing") /\ Moves(j, job)
  BY <1>2, <1>3, <1>4 DEF VerifyCitationsStep, Moves
<1> QED BY <1>5, Moved DEF Tells

LEMMA FetchTells ==
  ASSUME JobsOK, NEW j \in Jobs, Fetch(j)
  PROVE  Tells(j)
<1>1. DOMAIN jobs[j] = Fields
  BY DEF JobsOK, JobOK
<1>2. Made(jobs[j], [jobs[j] EXCEPT !.step = "alert"], "nothing")
  BY <1>1 DEF Made, Fields, Reports
<1>3. \A base : Made(jobs[j], [jobs[j] EXCEPT !.step = "push", !.base = base], "nothing")
  BY <1>1 DEF Made, Fields, Reports
<1>4. \E job : Made(jobs[j], job, "nothing") /\ Moves(j, job)
  BY <1>2, <1>3 DEF Fetch, Moves
<1> QED BY <1>4, Moved DEF Tells

LEMMA PushTells ==
  ASSUME JobsOK, NEW j \in Jobs, Push(j)
  PROVE  Tells(j)
<1>1. DOMAIN jobs[j] = Fields
  BY DEF JobsOK, JobOK
<1>2. Made(jobs[j], [jobs[j] EXCEPT !.step = "alert"], "nothing")
  BY <1>1 DEF Made, Fields, Reports, PushFailed
<1>3. Made(jobs[j], PushFailed(j), "nothing")
  BY <1>1 DEF Made, Fields, Reports, PushFailed
<1>4. \E job : Made(jobs[j], job, "nothing") /\ Moves(j, job)
  BY <1>2, <1>3 DEF Push, Moves
<1> QED BY <1>4, Moved DEF Tells

LEMMA AlertTells ==
  ASSUME JobsOK, NEW j \in Jobs, Alert(j)
  PROVE  Tells(j)
<1>1. DOMAIN jobs[j] = Fields
  BY DEF JobsOK, JobOK
<1>2. Made(jobs[j], [jobs[j] EXCEPT !.step = "gate"], "nothing")
  BY <1>1 DEF Made, Fields, Reports
<1>3. Made(jobs[j], [jobs[j] EXCEPT !.step = "gate", !.alerted = TRUE], "nothing")
  BY <1>1 DEF Made, Fields, Reports
<1>4. Made(jobs[j], [jobs[j] EXCEPT !.step = "gate", !.ok = FALSE], "nothing")
  BY <1>1 DEF Made, Fields, Reports
<1>5. \E job : Made(jobs[j], job, "nothing") /\ Moves(j, job)
  BY <1>2, <1>3, <1>4 DEF Alert, Moves
<1> QED BY <1>5, Moved DEF Tells

LEMMA GateTells ==
  ASSUME JobsOK, NEW j \in Jobs, Gate(j)
  PROVE  Tells(j)
<1>1. DOMAIN jobs[j] = Fields
  BY DEF JobsOK, JobOK
<1>2. \A ok : Made(jobs[j], [jobs[j] EXCEPT !.step = "done", !.ok = ok], "nothing")
  BY <1>1 DEF Made, Fields, Reports
<1>3. \E job : Made(jobs[j], job, "nothing") /\ Moves(j, job)
  BY <1>2 DEF Gate, Moves
<1> QED BY <1>3, Moved DEF Tells

LEMMA SuiteBTells ==
  ASSUME JobsOK, NEW j \in Jobs, SuiteB(j)
  PROVE  Tells(j)
<1>1. DOMAIN jobs[j] = Fields
  BY DEF JobsOK, JobOK
<1>2. Made(jobs[j], [jobs[j] EXCEPT !.step = "suite_d"], "nothing")
  BY <1>1 DEF Made, Fields, Reports, Report, Synthesized
<1>3. \A status, missed : Made(jobs[j], [jobs[j] EXCEPT !.step = "suite_d", !.suite_b = Report("suite_b", status, TRUE), !.missed = missed], "suite_b")
  BY <1>1 DEF Made, Fields, Reports, Report, Synthesized
<1>0. jobs[j].suite_b = NotRun
  BY DEF SuiteB, At, JobsOK, JobOK, NotYet, BeforeB
<1>4. Made(jobs[j], [jobs[j] EXCEPT !.step = "suite_d", !.suite_b = Synthesized(j, "suite_b", "red"), !.broke = TRUE], "suite_b")
  BY <1>0, <1>1 DEF Made, Fields, Reports, Report, Synthesized
<1>5. \E job : \E own \in {"nothing", "suite_b"} : Made(jobs[j], job, own) /\ Moves(j, job)
  BY <1>2, <1>3, <1>4 DEF SuiteB, Moves
<1> QED BY <1>5, Moved DEF Tells

LEMMA SuiteDTells ==
  ASSUME JobsOK, NEW j \in Jobs, SuiteD(j)
  PROVE  Tells(j)
<1>1. DOMAIN jobs[j] = Fields
  BY DEF JobsOK, JobOK
<1>2. Made(jobs[j], [jobs[j] EXCEPT !.step = "suite_d_delta"], "nothing")
  BY <1>1 DEF Made, Fields, Reports, Report, Synthesized
<1>3. \A status : Made(jobs[j], [jobs[j] EXCEPT !.step = "suite_d_delta", !.results = "written", !.suite_d = Report("suite_d", status, FALSE)], "suite_d")
  BY <1>1 DEF Made, Fields, Reports, Report, Synthesized
<1>4. Made(jobs[j], [jobs[j] EXCEPT !.step = "suite_d_delta", !.results = "missing"], "nothing")
  BY <1>1 DEF Made, Fields, Reports, Report, Synthesized
<1>5. \E job : \E own \in {"nothing", "suite_d"} : Made(jobs[j], job, own) /\ Moves(j, job)
  BY <1>2, <1>3, <1>4 DEF SuiteD, Moves
<1> QED BY <1>5, Moved DEF Tells

LEMMA DiffTells ==
  ASSUME JobsOK, NEW j \in Jobs, HallucinationDiff(j)
  PROVE  Tells(j)
<1>1. DOMAIN jobs[j] = Fields
  BY DEF JobsOK, JobOK
<1>2. Made(jobs[j], Consumed(j), "nothing")
  BY <1>1 DEF Made, Fields, Reports, Report, Synthesized, Consumed
<1>3. \A status : Made(jobs[j], [Consumed(j) EXCEPT !.halluc = Report("hallucination_diff", status, FALSE)], "halluc")
  BY <1>1 DEF Made, Fields, Reports, Report, Synthesized, Consumed
<1>0. jobs[j].halluc = NotRun
  BY DEF HallucinationDiff, At, JobsOK, JobOK, NotYet, BeforeDiff
<1>4. Made(jobs[j], [Consumed(j) EXCEPT !.broke = TRUE, !.halluc = Synthesized(j, "hallucination_diff", "yellow")], "halluc")
  BY <1>0, <1>1 DEF Made, Fields, Reports, Report, Synthesized, Consumed
<1>5. \E job : \E own \in {"nothing", "halluc"} : Made(jobs[j], job, own) /\ Moves(j, job)
  BY <1>2, <1>3, <1>4 DEF HallucinationDiff, Moves
<1> QED BY <1>5, Moved DEF Tells

(* What the delta suite sets a job to when it ends with its own report.        *)
KoiOf(p, runs) == Variant(Pairs[p].koi, Pairs[p].artifacts, runs[p, "koi"])
BaselineOf(p, runs) == Variant(Pairs[p].baseline, Pairs[p].artifacts, runs[p, "baseline"])
LightsOf(lights, runs) ==
  /\ \E j \in Jobs : \A p \in DOMAIN Pairs : runs[p, "koi"] \in AgentRuns[j]
  /\ lights \in [DOMAIN Pairs -> {"red", "yellow", "green"}]
  /\ \A p \in DOMAIN Pairs : lights[p] \in TrafficLights(BaselineOf(p, runs), KoiOf(p, runs))
Grounds(runs) == \A p \in DOMAIN Pairs : BaselineOf(p, runs).passed /\ Measured(KoiOf(p, runs))
Measures(j, grounded, status) ==
  [jobs[j] EXCEPT !.step = "tests", !.grounded = grounded, !.delta = Report("suite_d_delta", status, FALSE)]
OverallOf(lights) == Overall({lights[p] : p \in DOMAIN Pairs})

LEMMA DeltaSets ==
  ASSUME NEW j \in Jobs, SuiteDDelta(j)
  PROVE  \/ Set(j, [jobs[j] EXCEPT !.step = "tests"])
         \/ Trouble(j, [jobs[j] EXCEPT !.step = "tests", !.delta = Synthesized(j, "suite_d_delta", "red"), !.broke = TRUE])
         \/ \E runs, lights : LightsOf(lights, runs) /\ Set(j, Measures(j, Grounds(runs), OverallOf(lights)))
<1>1. CASE ~Wants(j, {"tier1", "delta", "all"})
  BY <1>1 DEF SuiteDDelta
<1>2. ASSUME Wants(j, {"tier1", "delta", "all"}),
             NEW runs \in [(DOMAIN Pairs) \X {"baseline", "koi"} -> AgentRuns[j]],
             NEW lights \in [DOMAIN Pairs -> {"red", "yellow", "green"}],
             \A p \in DOMAIN Pairs : lights[p] \in TrafficLights(BaselineOf(p, runs), KoiOf(p, runs)),
             Set(j, Measures(j, Grounds(runs), OverallOf(lights)))
      PROVE  \E r, l : LightsOf(l, r) /\ Set(j, Measures(j, Grounds(r), OverallOf(l)))
  <2>1. LightsOf(lights, runs)
    BY <1>2 DEF LightsOf
  <2> QED BY <1>2, <2>1
<1> QED BY <1>1, <1>2 DEF SuiteDDelta, Measures, KoiOf, BaselineOf, Grounds, OverallOf

LEMMA DeltaRemade ==
  ASSUME JobsOK, NEW j \in Jobs, SuiteDDelta(j)
  PROVE  Remade(jobs[j], jobs'[j])
<1>1. DOMAIN jobs[j] = Fields
  BY DEF JobsOK, JobOK
<1>2. Made(jobs[j], [jobs[j] EXCEPT !.step = "tests"], "nothing")
  BY <1>1 DEF Made, Fields, Reports
<1>3. ASSUME NEW grounded, NEW status PROVE Made(jobs[j], Measures(j, grounded, status), "delta")
  <2> DEFINE report == Report("suite_d_delta", status, FALSE)
             job == [jobs[j] EXCEPT !.step = "tests", !.grounded = grounded, !.delta = report]
  <2>1. report.stamp = now
    BY DEF Report
  <2> HIDE DEF report
  <2>2. DOMAIN job = Fields /\ job.delta = report /\ \A f \in Reports \ {"delta"} : job[f] = jobs[j][f]
    BY <1>1 DEF Fields, Reports
  <2>3. Made(jobs[j], job, "delta")
    BY <2>1, <2>2 DEF Made, Reports
  <2> QED BY <2>3 DEF Measures, report
<1>0. jobs[j].delta = NotRun
  BY DEF SuiteDDelta, At, JobsOK, JobOK, NotYet, BeforeDelta
<1>4. Made(jobs[j], [jobs[j] EXCEPT !.step = "tests", !.delta = Synthesized(j, "suite_d_delta", "red"), !.broke = TRUE], "delta")
  BY <1>0, <1>1 DEF Made, Fields, Reports, Report, Synthesized
<1>5. \E job : \E own \in {"nothing", "delta"} : Made(jobs[j], job, own) /\ Moves(j, job)
  BY <1>2, <1>3, <1>4, DeltaSets DEF Moves
<1> QED BY <1>5, Moved

LEMMA ReportsRemade == ASSUME JobsOK, NEW j \in Jobs, Step(j) PROVE Tells(j)
<1>1. CASE SuiteDDelta(j)
  BY <1>1, DeltaRemade DEF Tells
<1> QED BY <1>1, StartTells, PreflightTells, ContractTells, SuiteBTells, SuiteDTells, RunTestsTells, VerifyTells,
           DiffTells, FetchTells, PushTells, AlertTells, GateTells DEF Step

(* A delta report that is not red rests on pairs that were all measured.       *)
LEMMA OverallIsMeasured ==
  ASSUME NEW lights, NEW runs, LightsOf(lights, runs), OverallOf(lights) # "red"
  PROVE  Grounds(runs)
<1> SUFFICES ASSUME NEW p \in DOMAIN Pairs PROVE BaselineOf(p, runs).passed /\ Measured(KoiOf(p, runs))
  BY DEF Grounds
<1>1. /\ \A q \in DOMAIN Pairs : lights[q] # "red"
      /\ \A q \in DOMAIN Pairs : lights[q] \in TrafficLights(BaselineOf(q, runs), KoiOf(q, runs))
      /\ \E j \in Jobs : \A q \in DOMAIN Pairs : runs[q, "koi"] \in AgentRuns[j]
  <2>1. "red" \notin {lights[q] : q \in DOMAIN Pairs}
    BY DEF OverallOf, Overall
  <2> QED BY <2>1 DEF LightsOf
<1>2. PICK j \in Jobs : \A q \in DOMAIN Pairs : runs[q, "koi"] \in AgentRuns[j]
  BY <1>1
<1> DEFINE run == runs[p, "koi"]
<1>3. IsFiniteSet(DOMAIN run.files) /\ \A q \in DOMAIN run.files : IsFiniteSet(run.files[q].citations)
  BY <1>2, AgentsAssumption
<1>4. KoiOf(p, runs).citations = IF run.sdk THEN AggregateCitations(Pairs[p].artifacts, run) ELSE NoCitations
  BY DEF KoiOf, Variant
<1> HIDE DEF run
<1>5. Counts(AggregateCitations(Pairs[p].artifacts, run))
  BY <1>3, CitationsAreCounted
<1>6. Counts(NoCitations)
  BY DEF Counts, NoCitations
<1>7. Counts(KoiOf(p, runs).citations)
  BY <1>4, <1>5, <1>6
<1> QED BY <1>1, <1>7, LightIsMeasured

LEMMA WorthStep ==
  ASSUME JobsOK, NEW j \in Jobs, Worth(jobs[j]), Step(j)
  PROVE  Worth(jobs'[j])
<1>1. CASE SameDelta(jobs[j], jobs'[j])
  BY <1>1 DEF SameDelta, Worth
<1>2. DOMAIN jobs[j] = Fields /\ DOMAIN jobs = Jobs
  BY DEF JobsOK, JobOK
<1>3. CASE Set(j, [jobs[j] EXCEPT !.step = "tests"])
  <2>1. Made(jobs[j], [jobs[j] EXCEPT !.step = "tests"], "nothing")
    BY <1>2 DEF Made, Fields, Reports
  <2>2. SameDelta(jobs[j], jobs'[j])
    BY <1>3, <2>1, Moved DEF Moves
  <2> QED BY <1>1, <2>2
<1>4. CASE Trouble(j, [jobs[j] EXCEPT !.step = "tests", !.delta = Synthesized(j, "suite_d_delta", "red"), !.broke = TRUE])
  <2> DEFINE red == Synthesized(j, "suite_d_delta", "red")
  <2>1. red.status \notin {"green", "yellow"}
    BY DEF Synthesized, Report, NotRun
  <2> HIDE DEF red
  <2>2. Trouble(j, [jobs[j] EXCEPT !.step = "tests", !.delta = red, !.broke = TRUE])
    BY <1>4 DEF red
  <2>3. jobs'[j].delta = red
    BY <1>2, <2>2 DEF Trouble, Set, Fields
  <2> QED BY <2>1, <2>3 DEF Worth
<1>5. ASSUME NEW runs, NEW lights, LightsOf(lights, runs), Set(j, Measures(j, Grounds(runs), OverallOf(lights)))
      PROVE  Worth(jobs'[j])
  <2> DEFINE grounded == Grounds(runs)
             report == Report("suite_d_delta", OverallOf(lights), FALSE)
  <2>1. report.status = OverallOf(lights)
    BY DEF Report
  <2>2. report.status \in {"green", "yellow"} => grounded
    BY <1>5, <2>1, OverallIsMeasured
  <2>3. Set(j, [jobs[j] EXCEPT !.step = "tests", !.grounded = grounded, !.delta = report])
    BY <1>5 DEF Measures
  <2> HIDE DEF grounded, report
  <2>4. jobs'[j].delta = report /\ jobs'[j].grounded = grounded
    BY <1>2, <2>3 DEF Set, Fields
  <2> QED BY <2>2, <2>4 DEF Worth
<1>6. SameDelta(jobs[j], jobs'[j]) \/ SuiteDDelta(j)
  BY ReportsRemade DEF Tells
<1> QED BY <1>1, <1>3, <1>4, <1>5, <1>6, DeltaSets

WorthInv == \A j \in Jobs : Worth(jobs[j])

(* The KOI value-add is reported yellow or green only when both agents of      *)
(* every pair passed and enough of KOI's citations were verified               *)
(* (run_suite_d_delta.py): for any pairs, thresholds, agents and files.        *)
THEOREM ValueIsMeasured == WorkflowSpec => []WorthIsMeasured
<1>1. WorkflowInit => WorthInv
  BY DEF WorkflowInit, WorthInv, Worth, NewJob, NotRun
<1>2. JobsOK /\ WorthInv /\ [WorkflowNext]_workflowVars => WorthInv'
  <2> SUFFICES ASSUME JobsOK, WorthInv, [WorkflowNext]_workflowVars PROVE WorthInv'
    OBVIOUS
  <2>1. CASE jobs' = jobs
    BY <2>1 DEF WorthInv, Worth
  <2>2. ASSUME NEW j \in Jobs, Step(j), NEW k \in Jobs PROVE Worth(jobs'[k])
    BY <2>2, WorthStep, OthersStay DEF WorthInv
  <2>3. WorthInv' <=> \A k \in Jobs : Worth(jobs'[k])
    BY DEF WorthInv, Worth
  <2> QED BY <2>1, <2>2, <2>3 DEF WorkflowNext, Digest, Tick, workflowVars
<1>3. WorthInv => WorthIsMeasured
  BY DEF WorthInv, Worth, WorthIsMeasured
<1> QED BY <1>1, <1>2, <1>3, JobsInvariant, PTL DEF WorkflowSpec

-----------------------------------------------------------------------------
(* Days and ticks: a tick belongs to the day that starts last before it.       *)
LEMMA Days ==
  ASSUME NEW T \in Nat \ {0}, NEW a \in Nat
  PROVE  \E q \in Nat : a - (a % T) = q * T /\ a % T \in 0..(T - 1)
<1>1. a \div T \in Nat
  OBVIOUS
<1>2. a = T * (a \div T) + (a % T)
  OBVIOUS
<1>3. a % T \in 0..(T - 1)
  OBVIOUS
<1> DEFINE q == a \div T
           r == a % T
<1> HIDE DEF q, r
<1>4. a - r = q * T
  BY <1>1, <1>2, <1>3 DEF q, r
<1> QED BY <1>1, <1>3, <1>4 DEF q, r

(* A day that is not before another starts a whole day after the one before.  *)
LEMMA DayAfter ==
  ASSUME NEW T \in Nat \ {0}, NEW q \in Nat, NEW m \in Nat, NEW w \in Nat, q * T > m * T - w * T
  PROVE  q * T >= m * T - w * T + T
<1>1. CASE q >= m - w + 1
  <2>1. PICK d \in Nat : q = m - w + 1 + d
    <3>1. q - (m - w + 1) \in Nat
      BY <1>1
    <3> QED BY <3>1
  <2>2. d * T \in Nat
    OBVIOUS
  <2>3. q * T = m * T - w * T + T + d * T
    BY <2>1
  <2> QED BY <2>2, <2>3
<1>2. CASE q < m - w + 1
  <2>1. PICK d \in Nat : q + d = m - w
    <3>1. (m - w) - q \in Nat
      BY <1>2
    <3> QED BY <3>1
  <2>2. d * T \in Nat
    OBVIOUS
  <2>3. q * T + d * T = m * T - w * T
    BY <2>1
  <2> QED BY <2>2, <2>3
<1> QED BY <1>1, <1>2

(* Reports carry the tick they were made in.                                   *)
TimeInv ==
  /\ now \in Nat
  /\ \A j \in Jobs : Stamped(jobs[j])
  /\ \A r \in branch : r.stamp \in Nat

LEMMA TimeInit == WorkflowInit => TimeInv
BY TimeAssumption DEF WorkflowInit, TimeInv, Stamped, Reports, NewJob, NotRun

LEMMA TimeStep == JobsOK /\ TimeInv /\ [WorkflowNext]_workflowVars => TimeInv'
<1> SUFFICES ASSUME JobsOK, TimeInv, [WorkflowNext]_workflowVars PROVE TimeInv'
  OBVIOUS
<1>1. now' \in Nat
  <2>1. CASE now' = now
    BY <2>1 DEF TimeInv
  <2>2. CASE Tick
    BY <2>2 DEF Tick, TimeInv
  <2> QED BY <2>1, <2>2 DEF WorkflowNext, workflowVars, Digest, Step, Local, Start, Preflight, Contract, SuiteB,
                SuiteD, SuiteDDelta, RunTests, VerifyCitationsStep, HallucinationDiff, Fetch, Push, Alert, Gate
<1>2. ASSUME NEW k \in Jobs PROVE Stamped(jobs'[k])
  <2>1. CASE jobs' = jobs
    BY <2>1 DEF TimeInv, Stamped
  <2>2. ASSUME NEW j \in Jobs, Step(j) PROVE Stamped(jobs'[k])
    <3>1. CASE k = j
      <4>1. Remade(jobs[j], jobs'[j])
        BY <2>2, ReportsRemade DEF Tells
      <4> QED BY <3>1, <4>1 DEF TimeInv, Stamped, Remade
    <3>2. CASE k # j
      BY <2>2, <3>2, OthersStay DEF TimeInv, Stamped
    <3> QED BY <3>1, <3>2
  <2> QED BY <2>1, <2>2 DEF WorkflowNext, Digest, Tick, workflowVars
<1>3. ASSUME NEW r \in branch' PROVE r.stamp \in Nat
  <2>1. CASE branch' = branch
    BY <2>1 DEF TimeInv
  <2>2. ASSUME NEW j \in Jobs, Push(j) PROVE r.stamp \in Nat
    <3>1. r \in branch \/ r \in ReportsOf(jobs[j])
      BY <2>2 DEF Push
    <3>2. \A m \in ReportsOf(jobs[j]) : m.stamp \in Nat
      BY DEF TimeInv, Stamped, ReportsOf, Reports
    <3> QED BY <3>1, <3>2 DEF TimeInv
  <2> QED BY <2>1, <2>2 DEF WorkflowNext, workflowVars, Digest, Tick, Step, Local, Start, Preflight, Contract,
                SuiteB, SuiteD, SuiteDDelta, RunTests, VerifyCitationsStep, HallucinationDiff, Fetch, Alert, Gate
<1>4. TimeInv' <=> now' \in Nat /\ (\A k \in Jobs : Stamped(jobs'[k])) /\ \A r \in branch' : r.stamp \in Nat
  BY DEF TimeInv, Stamped
<1> QED BY <1>1, <1>2, <1>3, <1>4

(* A report of a date in the window is looked at, whatever its hour.           *)
LEMMA DatesAreInWindow ==
  ASSUME TimeInv, NEW r \in branch, Midnight(r) > Today - WindowDays * TicksPerDay
  PROVE  r \in Window
<1> USE TimeAssumption
<1> DEFINE T == TicksPerDay
           w == WindowDays
           s == r.stamp
           d == s % T
           e == now % T
<1>1. s \in Nat /\ now \in Nat /\ T \in Nat \ {0} /\ w \in Nat
  BY DEF TimeInv
<1>2. PICK q \in Nat : s - d = q * T
  BY <1>1, Days
<1>3. PICK m \in Nat : now - e = m * T /\ e \in 0..(T - 1)
  BY <1>1, Days
<1>4. Midnight(r) = q * T /\ Today = m * T
  BY <1>2, <1>3 DEF Midnight, Today
<1>5. q * T > m * T - w * T
  BY <1>4
<1> HIDE DEF T, w, s, d, e
<1>6. q * T >= m * T - w * T + T
  BY <1>1, <1>5, DayAfter
<1>7. q * T \in Nat /\ m * T \in Nat /\ w * T \in Nat
  BY <1>1
<1>8. q * T >= now - w * T
  BY <1>1, <1>3, <1>6, <1>7
<1>9. Midnight(r) >= now - WindowDays * TicksPerDay
  BY <1>4, <1>8 DEF w, T
<1> QED BY <1>9 DEF Window, WithinWindow

(* Nothing ranks as high as red.                                               *)
LEMMA Ranks == \A s : StatusRank(s) \in 0..2 /\ (StatusRank(s) = 2 <=> s = "red")
BY DEF StatusRank

(* The worst status of a suite with a red report is red and nothing else.      *)
LEMMA RedIsWorst ==
  ASSUME NEW reports, \A o \in reports : o.stamp \in Nat, NEW suite,
         NEW r \in reports, r.suite = suite, r.status = "red"
  PROVE  WorstStatuses(reports, suite) = {"red"}
<1> DEFINE counted == {o \in reports : o.suite = suite /\ o.status # "insufficient_data"}
           stamps == {o.stamp : o \in {x \in counted : x.status = "red"}}
<1>1. r \in counted
  OBVIOUS
<1>2. r.stamp \in stamps /\ stamps \subseteq Nat
  OBVIOUS
<1>3. PICK least \in stamps : \A t \in stamps : least <= t
  <2> HIDE DEF stamps
  <2> QED BY <1>2, Least
<1>4. PICK w \in counted : w.status = "red" /\ w.stamp = least
  OBVIOUS
<1>5. \A o \in counted : o.status = "red" => o.stamp >= w.stamp
  <2>1. \A o \in counted : o.status = "red" => least <= o.stamp
    BY <1>3
  <2>2. \A o \in counted : o.stamp \in Nat
    OBVIOUS
  <2> HIDE DEF counted, stamps
  <2> QED BY <1>4, <2>1, <2>2
<1> HIDE DEF counted, stamps
<1>6. "red" \in FirstWorst(counted)
  <2>1. \A o \in counted : \/ StatusRank(o.status) < StatusRank(w.status)
                           \/ StatusRank(o.status) = StatusRank(w.status) /\ o.stamp >= w.stamp
    <3> TAKE o \in counted
    <3>1. StatusRank(w.status) = 2
      BY <1>4, Ranks
    <3>2. CASE o.status = "red"
      BY <1>4, <1>5, <3>2
    <3>3. CASE o.status # "red"
      <4>1. StatusRank(o.status) \in 0..2 /\ StatusRank(o.status) # 2
        BY <3>3, Ranks
      <4> QED BY <3>1, <4>1
    <3> QED BY <3>2, <3>3
  <2>2. StatusRank(w.status) > 0
    <3>1. StatusRank(w.status) = 2
      BY <1>4, Ranks
    <3> QED BY <3>1
  <2> QED BY <1>4, <2>1, <2>2 DEF FirstWorst
<1>7. ASSUME NEW s \in FirstWorst(counted) PROVE s = "red"
  <2>1. PICK x \in counted : /\ s = x.status
                             /\ \A o \in counted : \/ StatusRank(o.status) < StatusRank(x.status)
                                                   \/ StatusRank(o.status) = StatusRank(x.status) /\ o.stamp >= x.stamp
    BY <1>7 DEF FirstWorst
  <2>2. StatusRank(r.status) = 2
    BY Ranks
  <2>3. StatusRank(x.status) \in 0..2
    BY Ranks
  <2>4. StatusRank(x.status) = 2
    BY <1>1, <2>1, <2>2, <2>3
  <2> QED BY <2>1, <2>4, Ranks
<1>8. FirstWorst(counted) = {"red"}
  BY <1>6, <1>7
<1>9. FirstWorst(counted) # {}
  BY <1>6
<1> QED BY <1>8, <1>9 DEF WorstStatuses, counted

LEMMA RedStays == \A s : Worse("red", s) = "red" /\ Worse(s, "red") = "red"
<1> TAKE s
<1>1. StatusRank("red") = 2 /\ StatusRank(s) \in 0..2 /\ (StatusRank(s) = 2 <=> s = "red")
  BY Ranks
<1> QED BY <1>1 DEF Worse

LEMMA RedHeadline ==
  ASSUME NEW reports, \A o \in reports : o.stamp \in Nat,
         NEW r \in reports, r.suite \in Lights, r.status = "red"
  PROVE  \A headline \in Headlines(reports) : headline = "red"
<1> TAKE headline \in Headlines(reports)
<1>1. PICK b \in WorstStatuses(reports, "suite_b"), d \in WorstStatuses(reports, "suite_d_delta"),
           h \in WorstStatuses(reports, "hallucination_diff") : headline = Worse(Worse(Worse("green", b), d), h)
  BY DEF Headlines
<1>2. WorstStatuses(reports, r.suite) = {"red"}
  BY RedIsWorst
<1>3. b = "red" \/ d = "red" \/ h = "red"
  BY <1>1, <1>2 DEF Lights
<1> QED BY <1>1, <1>3, RedStays

(* When a digest is posted, a red report of the last WindowDays dates makes    *)
(* its headline red, whatever stands beside it (aggregate_weekly_evals.py).    *)
THEOREM RedIsTold == WorkflowSpec => DigestTellsRed
<1>1. TimeInv /\ [WorkflowNext]_workflowVars
         => [Posted /\ RedLately => digest'.headline = "red"]_<<digest, digests>>
  <2> SUFFICES ASSUME TimeInv, Digest, digest'.posted,
                      NEW r \in branch, r.suite \in Lights, r.status = "red",
                      Midnight(r) > Today - WindowDays * TicksPerDay
               PROVE  digest'.headline = "red"
    BY DEF WorkflowNext, workflowVars, Posted, RedLately, Tick, Step, Local, Start, Preflight, Contract, SuiteB,
           SuiteD, SuiteDDelta, RunTests, VerifyCitationsStep, HallucinationDiff, Fetch, Push, Alert, Gate
  <2>1. PICK headline \in Headlines(Window) : digest'.headline = headline
    BY DEF Digest, NoDigest
  <2>2. r \in Window /\ \A o \in Window : o.stamp \in Nat
    BY DatesAreInWindow DEF Window, TimeInv
  <2> QED BY <2>1, <2>2, RedHeadline
<1>2. WorkflowSpec => []TimeInv
  BY TimeInit, TimeStep, JobsInvariant, PTL DEF WorkflowSpec
<1> QED BY <1>1, <1>2, PTL DEF WorkflowSpec, DigestTellsRed
=============================================================================
