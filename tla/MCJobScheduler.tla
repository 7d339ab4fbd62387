--------------------------- MODULE MCJobScheduler ---------------------------
(* Model checking instances of JobScheduler. *)
EXTENDS JobScheduler, TLC

(* Executions and workers are interchangeable. *)
Symmetry == Permutations(Executions) \cup Permutations(Workers)

(* Every process keeps executing its program, the scheduler keeps polling  *)
(* and the clock goes on.  A worker that polls while an entry is ripe      *)
(* finds one sooner or later: scores only come nearer.  Nothing restarts a *)
(* process: its fairness is void once it is down.                          *)
Request(j) == PutJob(j) \/ PutFirstExecution(j) \/ EnqueueFirst(j)

Fairness ==
    /\ \A j \in Jobs : WF_vars(Request(j))
    /\ WF_vars(SchedulerScan)
    /\ \A e \in Executions : WF_vars(SchedulerEnqueue(e)) /\ WF_vars(Advance(e))
    /\ \A w \in Workers :
          /\ WF_vars(Recovery(w))
          /\ WF_vars(Pop(w))
          /\ SF_vars(PopScan(w) /\ batch'[w] # {})
          /\ \A m \in QueuedExecution : WF_vars(Process(w, m))

FairSpec == Spec /\ Fairness

(* A pending execution that stays inside the lookback is claimed even if a *)
(* worker, the scheduler or the API dies at the worst moment: the          *)
(* scheduler reads its row again.                                          *)
PendingIsClaimed ==
    \A e \in Executions :
        status[e] = "PENDING" ~> status[e] # "PENDING" \/ phase[e] = "aged"
=============================================================================
