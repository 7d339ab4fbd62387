--------------------------- MODULE MCJobScenarios ---------------------------
(***************************************************************************)
(* Two scenarios of the job scheduler in one run.  In "calm" nothing       *)
(* crashes, the scheduler is never away for as long as its lookback, and   *)
(* it may queue an execution again while that is PENDING.  In "one entry"  *)
(* every row is older than the lookback, so that the scheduler never reads *)
(* one, and processes may crash.                                           *)
(***************************************************************************)
EXTENDS MCJobScheduler

VARIABLE scenario

RowsIn(phases) == \A e \in Executions : status[e] # Absent => phase[e] \in phases

(* The steps that a scenario allows. *)
Permitted ==
    \/ scenario = "calm" /\ crashes' = 0 /\ RowsIn({"far", "near", "due"})'
    \/ scenario = "one entry" /\ RowsIn({"aged"})'

ScenarioInit == scenario \in {"calm", "one entry"} /\ Init

ScenarioNext == Next /\ Permitted /\ UNCHANGED scenario

ScenarioSpec ==
    /\ ScenarioInit
    /\ [][ScenarioNext]_<<scenario, vars>>
    /\ scenario = "calm" => Fairness

(* Without a crash every stored execution is finished one day, whatever    *)
(* its tasks do and however often it is queued twice.                      *)
CalmSettles ==
    \A e \in Executions :
        scenario = "calm" /\ status[e] # Absent ~> status[e] \in Terminal

(* With one entry per execution crashes and recoveries never make a task   *)
(* run more than max_attempts times.                                       *)
OneEntryRunsBounded == scenario = "one entry" => RunsBounded
=============================================================================
