------------------------------ MODULE MCStores ------------------------------
(***************************************************************************)
(* Two stores that keep several structures in step with each other: the    *)
(* video table of the C++ write path (heap, index, locks and log) and the  *)
(* in-memory waiting queue (scores, order and positions).  They share      *)
(* nothing; a behaviour uses one of them.                                  *)
(***************************************************************************)
EXTENDS MCWalTable, WaitingQueue

(* Sessions are numbered in the order of their ids; two join times make    *)
(* equal and earlier ones possible.                                        *)
MCSessions == 1..3
MCScores == 1..2

VARIABLE store   \* "table" or "queue"

StoresInit == store \in {"table", "queue"} /\ Init /\ QueueInit

StoresNext ==
    /\ UNCHANGED store
    /\ \/ store = "table" /\ Next /\ UNCHANGED queueVars
       \/ store = "queue" /\ QueueNext /\ UNCHANGED vars

StoresSpec == StoresInit /\ [][StoresNext]_<<store, vars, queueVars>>

(* Heap, index, locks and log have their types, and the three structures   *)
(* of the queue name the same sessions with the same scores.               *)
StoresTypeOK == TypeOK /\ QueueTypeOK
=============================================================================
