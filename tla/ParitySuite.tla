---------------------------- MODULE ParitySuite -----------------------------
(***************************************************************************)
(* .github/workflows/parity-internal.yml: the fixtures are regenerated, and *)
(* only then does dev/scripts/run_parity_suite.sh run the suite, whose      *)
(* modules call the bridge.                                                 *)
(***************************************************************************)
EXTENDS FixturePipeline, ParityCases, NodeBridge

\* The cases of a module of the suite.
SuiteCases(t) == UNION {CasesOf(op) : op \in OperationsOf(t)}

\* JSON.encode! of what run/2 is called with.
Encoded(c) == Obj([operation |-> Str(c.op), input |-> Obj(c.input)])

suiteVars == <<work, file, script, held, protoLoads, updates,
               phase, case, path, request, exit, result, files, unique>>

SuiteInit == PipelineInit /\ BridgeInit

Regenerated == script.at = "done" /\ script.whole

Prepare == ~Regenerated /\ PipelineStep /\ UNCHANGED bridgeVars

Test(t) == Regenerated /\ BridgeStep(t) /\ UNCHANGED pipelineVars

SuiteNext == Prepare \/ \E t \in Tests : Test(t)

SuiteSpec == SuiteInit /\ [][SuiteNext]_suiteVars

(* Where the runner answers, the program has made the same node, update or  *)
(* text from the same input, and where the program refuses an input so does *)
(* the runner.                                                              *)
SameAsReference ==
    \A t \in Tests : Returned(t) =>
        IF result[t][1] = "ok" THEN case[t].peer = result[t][2]
        ELSE result[t][3] = 1 => case[t].peer = Refused
=============================================================================
