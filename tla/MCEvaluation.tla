----------------------------- MODULE MCEvaluation -----------------------------
(* Two jobs for TLC: one that runs everything and meets all there is to meet, *)
(* one beside it that measures little and shares the branch.                  *)
EXTENDS EvalWorkflow
CONSTANTS full, side

Test(critical, min, matches) == [critical |-> critical, min |-> min, matches |-> matches]
MCGold ==
  [t \in {"staking", "basket", "fees"} |->
     CASE t = "staking" -> Test(TRUE, 1, {{"a"}}) [] t = "basket" -> Test(FALSE, 1, {{"b"}}) [] OTHER -> Test(FALSE, 0, {{"c"}, {"d"}})]
Was(critical, hit) == [critical |-> critical, hit |-> hit]
MCGoldBaselines ==
  [j \in Jobs |-> IF j = side THEN {{}} ELSE {{}, {[t \in {"staking", "basket", "fees"} |->
     CASE t = "staking" -> Was(FALSE, TRUE) [] t = "basket" -> Was(FALSE, TRUE) [] OTHER -> Was(FALSE, FALSE)]}}]
Answer(a, b, c) == [t \in {"staking", "basket", "fees"} |-> CASE t = "staking" -> a [] t = "basket" -> b [] OTHER -> c]
MCAnswers ==
  [j \in Jobs |->
     IF j = full THEN {Answer(<<{"a"}>>, <<{"b"}>>, << >>), Answer(<<{"a"}>>, <<{}, {"b"}>>, <<{"c", "d"}>>),
                       Answer(<<{}, {"a"}>>, <<{"b"}>>, <<{"c", "d"}, {"d"}>>)}
     ELSE {Answer(<<{"a"}>>, <<{"b"}>>, << >>)}]

MCThresholds == [min |-> 2, max |-> 20, yellow |-> -5, red |-> -15]
Cite(type, there, n) == [type |-> type, there |-> there, n |-> n]
Good(n) == Cite("file_path", "present", n)
Bad(n) == Cite("file_line", "beyond", n)
Left(citations, verifiable) ==
  [p \in {"report"} |-> [globs |-> {"md"}, strings |-> {"Summary"}, citations |-> citations, verifiable |-> verifiable]]
Run(sdk, files, tools) == [sdk |-> sdk, files |-> files, tools |-> tools, commands |-> {}]
Checks(tools) == [paths |-> {"report"}, globs |-> {"md"}, contains |-> {[path |-> "report", strings |-> {"Summary"}]},
                  tools |-> tools, commands |-> {}]
MCScenarios == [s \in {"kv"} |-> Checks({"search"})]
MCPairs == [p \in {"delta"} |-> [baseline |-> Checks({}), koi |-> Checks({"search"}), artifacts |-> {"report"}]]
NoFiles == [p \in {} |-> 0]
MCAgentRuns ==
  [j \in Jobs |->
     IF j = full THEN {Run(FALSE, NoFiles, {}), Run(TRUE, NoFiles, {"search"}),
                       Run(TRUE, Left({Good(1), Good(2)}, TRUE), {"search"}),
                       Run(TRUE, Left({Good(n) : n \in 1..7} \cup {Bad(1)}, TRUE), {"search"}),
                       Run(TRUE, Left({Good(1), Good(2)}, FALSE), {"search"})}
     ELSE {Run(TRUE, Left({Good(1), Good(2)}, TRUE), {"search"})}]
MCCitedBaseline == {[total |-> 4, verified |-> 4, failed |-> 0]}
MCResultTexts ==
  [j \in Jobs |-> {{}, {Good(n) : n \in 1..4}, {Good(n) : n \in 1..7} \cup {Cite("koi_symbol", "unreachable", 1), Bad(1)},
                   {Good(1), Cite("github_url", "unreachable", 1), Cite("symbol", "absent", 1), Cite("symbol", "present", 2)}}]
MCRequests == [j \in Jobs |-> IF j = full THEN {"all"} ELSE {"delta"}]
MCMaxTroubles == [j \in Jobs |-> IF j = full THEN 1 ELSE 0]
=============================================================================
