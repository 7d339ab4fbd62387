-------------------------- MODULE MCClickScenarios --------------------------
(***************************************************************************)
(* Two deployments of the click aggregation service in one run.            *)
(* sequential: one worker is the only processor, and batches mix           *)
(* advertisers, minutes and the shards of a hot ad (the constants of the   *)
(* cfg).  concurrent: two requests run the processor in the background     *)
(* beside the worker, on clicks of one campaign, with a rebuild.           *)
(***************************************************************************)
EXTENDS MCClickAggregation

CONSTANTS
    BackgroundRequests,   \* concurrent: the requests sent
    FirstImpressions      \* concurrent: the impressions clicked

VARIABLE scenario

Concurrent == INSTANCE ClickAggregation WITH
    Requests <- BackgroundRequests, Impressions <- FirstImpressions,
    BatchSize <- 1, Background <- TRUE, MaxRebuilds <- 1

scenarioVars == <<scenario, vars>>

ScenarioInit == scenario \in {"sequential", "concurrent"} /\ Init

ScenarioNext ==
    /\ UNCHANGED scenario
    /\ \/ scenario = "sequential" /\ Next
       \/ scenario = "concurrent" /\ Concurrent!Next

ScenarioSpec ==
    /\ ScenarioInit
    /\ [][ScenarioNext]_scenarioVars
    /\ scenario = "sequential" => \A p \in Workers : WF_vars(RunOnce(p))
    /\ scenario = "concurrent" =>
           \A p \in BackgroundRequests \cup Workers : WF_vars(Concurrent!RunOnce(p))

(* With one worker the database is the abstract click ledger; the other    *)
(* deployment is mapped to a ledger nobody uses.                           *)
SequentialLedger == INSTANCE ClickLedger WITH
    accepted <- IF scenario = "sequential" THEN raw ELSE <<>>,
    published <- IF scenario = "sequential" THEN cursor ELSE 0,
    metrics <- [k \in Keys |-> IF scenario = "sequential" THEN derived[k] ELSE 0]
SequentialLedgerRefinement == SequentialLedger!Spec
=============================================================================
