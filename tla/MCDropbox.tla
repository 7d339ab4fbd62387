------------------------------ MODULE MCDropbox ------------------------------
(***************************************************************************)
(* Three scenarios: an agent with one file that is killed and started      *)
(* again, so that uploads of two lives overlap; an agent with a folder of  *)
(* files, started once; and other clients that upload at once.             *)
(***************************************************************************)
EXTENDS DeviceAgent, TLC

VARIABLE scenario

vars == <<scenario, serviceVars, agentVars>>

(* Requests are given to the processes in turn. *)
MCServerOf == [i \in Uploads |-> i % 2]

(* The files that take part in the scenario. *)
InPlay ==
    CASE scenario = "restarts" -> {CHOOSE p \in Paths : TRUE}
      [] scenario = "folder" -> Paths
      [] scenario = "clients" -> {}

MCInit ==
    /\ scenario \in {"restarts", "folder", "clients"}
    /\ ServiceInit /\ AgentInit
    /\ \A p \in Paths \ InPlay : ~Exists(p)

ClientsAnswered ==
    /\ scenario = "clients" /\ guests = MaxGuests
    /\ \A i \in Uploads : upload[i].pc \notin Received
    /\ UNCHANGED <<serviceVars, agentVars>>

MCNext ==
    /\ UNCHANGED scenario
    /\ \/ /\ scenario # "clients"
          /\ AgentNext
          /\ scenario = "folder" => launches' <= 1
          /\ \A p \in Paths \ InPlay : folder'[p] = folder[p]
       \/ scenario = "clients" /\ GuestUploads
       \/ ServiceNext /\ UNCHANGED agentVars
       \/ ClientsAnswered

MCSpec == MCInit /\ [][MCNext]_vars /\ Fairness
=============================================================================
