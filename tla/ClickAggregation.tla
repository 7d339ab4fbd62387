-------------------------- MODULE ClickAggregation --------------------------
(***************************************************************************)
(* The ads click aggregation service over its SQLite database: click       *)
(* requests, the stream processor that every request may run in the        *)
(* background and workers run in a loop, and the reconciliation endpoint.  *)
(*                                                                         *)
(* Each step is one transaction.  run_once is three of them (read the      *)
(* cursor, fetch raw events, commit deltas and cursor), and any other      *)
(* transaction may come between.  The deltas of a batch are the numbers of *)
(* its clicks: ClickPipeline checks that the pipeline computes these.      *)
(***************************************************************************)
EXTENDS Naturals, Sequences, FiniteSets

CONSTANTS
    Requests,          \* click requests, one click each
    Workers,           \* stream worker processes
    Impressions,       \* impressions that may be clicked
    Campaigns,         \* advertiser and ad
    CampaignOf,        \* CampaignOf[i]: what the signature of i binds it to
    Minutes,           \* minute_start values, in minutes
    BatchSize,         \* limit of fetch_raw_after
    Background,        \* does a request run the processor after its click?
    MaxRebuilds,       \* bound: calls of the reconciliation endpoint
    MaxCrashes         \* bound: processors that die or fail to commit

ASSUME ConstantsAssumption ==
    /\ CampaignOf \in [Impressions -> Campaigns]
    /\ Minutes \subseteq Nat
    /\ BatchSize \in Nat \ {0}
    /\ Background \in BOOLEAN
    /\ MaxRebuilds \in Nat
    /\ MaxCrashes \in Nat
    /\ Requests \cap Workers = {}

VARIABLES
    seen,              \* seen_impressions
    raw,               \* raw_click_events: raw[n] has raw_event_id n
    derived,           \* derived_click_metrics, 0 where there is no row
    cursor,            \* stream_cursors: last_raw_event_id
    pc,                \* pc[p]: where request or worker p is
    from,              \* from[p]: the cursor its run_once has read
    upto,              \* upto[p]: raw_event_id of the last event it fetched
    rebuilds,
    crashes

vars == <<seen, raw, derived, cursor, pc, from, upto, rebuilds, crashes>>

Processors == Requests \cup Workers
Keys == Campaigns \X Minutes
Events == [imp : Impressions, key : Keys]

(* new: before the click; ready: about to call run_once; read, fetched:    *)
(* inside it; done: a request that is over.                                *)
Steps == {"new", "ready", "read", "fetched", "done"}

TypeOK ==
    /\ seen \subseteq Impressions
    /\ raw \in Seq(Events)
    /\ derived \in [Keys -> Nat]
    /\ cursor \in 0..Len(raw)
    /\ pc \in [Processors -> Steps]
    /\ from \in [Processors -> Nat]
    /\ upto \in [Processors -> Nat]
    /\ rebuilds \in Nat
    /\ crashes \in Nat

Init ==
    /\ seen = {}
    /\ raw = <<>>
    /\ derived = [k \in Keys |-> 0]
    /\ cursor = 0
    /\ pc = [p \in Processors |-> IF p \in Requests THEN "new" ELSE "ready"]
    /\ from = [p \in Processors |-> 0]
    /\ upto = [p \in Processors |-> 0]
    /\ rebuilds = 0
    /\ crashes = 0

(* The raw events of key k with ids after m and up to n, and their number. *)
ClickIds(events, k, m, n) == {i \in (m + 1)..n : events[i].key = k}
Clicks(events, k, m, n) == Cardinality(ClickIds(events, k, m, n))

-----------------------------------------------------------------------------
(* record_click: the impression is reserved and the event appended in one  *)
(* transaction; a second click of the impression changes nothing.          *)
(* Mutant: the reservation does not refuse a second click. *)
RecordEveryClick(imp, minute) ==
    /\ seen' = seen \cup {imp}
    /\ raw' = Append(raw, [imp |-> imp, key |-> <<CampaignOf[imp], minute>>])

RecordClick(imp, minute) ==
    IF imp \in seen
    THEN UNCHANGED <<seen, raw>>
    ELSE /\ seen' = seen \cup {imp}
         /\ raw' = Append(raw, [imp |-> imp, key |-> <<CampaignOf[imp], minute>>])

TrackClick(r) ==
    /\ pc[r] = "new"
    /\ \E imp \in Impressions, minute \in Minutes : RecordClick(imp, minute)
    /\ pc' = [pc EXCEPT ![r] = IF Background THEN "ready" ELSE "done"]
    /\ UNCHANGED <<derived, cursor, from, upto, rebuilds, crashes>>

-----------------------------------------------------------------------------
(* StreamProcessor.run_once.                                               *)

(* A worker calls run_once again, a request does not. *)
Rest(p) == IF p \in Workers THEN "ready" ELSE "done"

GetCursor(p) ==
    /\ pc[p] = "ready"
    /\ from' = [from EXCEPT ![p] = cursor]
    /\ pc' = [pc EXCEPT ![p] = "read"]
    /\ UNCHANGED <<seen, raw, derived, cursor, upto, rebuilds, crashes>>

(* Mutant: the last raw event is taken for the one already processed. *)
FetchAllButLast(p) ==
    /\ pc[p] = "read"
    /\ IF from[p] + 1 >= Len(raw)
       THEN UNCHANGED upto /\ pc' = [pc EXCEPT ![p] = Rest(p)]
       ELSE /\ upto' = [upto EXCEPT ![p] = from[p] + 1]
            /\ pc' = [pc EXCEPT ![p] = "fetched"]
    /\ UNCHANGED <<seen, raw, derived, cursor, from, rebuilds, crashes>>

FetchRawAfter(p) ==
    /\ pc[p] = "read"
    /\ IF from[p] = Len(raw)
       THEN UNCHANGED upto /\ pc' = [pc EXCEPT ![p] = Rest(p)]
       ELSE /\ \E n \in (from[p] + 1)..Len(raw) :
                  /\ n <= from[p] + BatchSize
                  /\ n = Len(raw) \/ n = from[p] + BatchSize
                  /\ upto' = [upto EXCEPT ![p] = n]
            /\ pc' = [pc EXCEPT ![p] = "fetched"]
    /\ UNCHANGED <<seen, raw, derived, cursor, from, rebuilds, crashes>>

(* Mutants of the transaction: the cursor skips an event; it stays.        *)
CommitPastBatch(p) ==
    /\ pc[p] = "fetched"
    /\ derived' = [k \in Keys |-> derived[k] + Clicks(raw, k, from[p], upto[p])]
    /\ cursor' = upto[p] + 1
    /\ pc' = [pc EXCEPT ![p] = Rest(p)]
    /\ UNCHANGED <<seen, raw, from, upto, rebuilds, crashes>>

(* commit_deltas_and_cursor: the counts are added, the cursor is set       *)
(* whatever it is now.                                                     *)
CommitDeltasAndCursor(p) ==
    /\ pc[p] = "fetched"
    /\ derived' = [k \in Keys |-> derived[k] + Clicks(raw, k, from[p], upto[p])]
    /\ cursor' = upto[p]
    /\ pc' = [pc EXCEPT ![p] = Rest(p)]
    /\ UNCHANGED <<seen, raw, from, upto, rebuilds, crashes>>

(* The processor dies, or its transaction is refused: nothing is written.  *)
Crash(p) ==
    /\ pc[p] \in {"read", "fetched"}
    /\ crashes < MaxCrashes
    /\ crashes' = crashes + 1
    /\ pc' = [pc EXCEPT ![p] = Rest(p)]
    /\ UNCHANGED <<seen, raw, derived, cursor, from, upto, rebuilds>>

RunOnce(p) == GetCursor(p) \/ FetchRawAfter(p) \/ CommitDeltasAndCursor(p)

-----------------------------------------------------------------------------
(* rebuild_derived_metrics: the minutes from lo up to, not including, hi   *)
(* are counted afresh from the raw events; the cursor stays.               *)
(* Mutant: the minute hi is deleted as well and not counted.               *)
RebuildDeletesEnd(lo, hi) ==
    /\ rebuilds < MaxRebuilds
    /\ rebuilds' = rebuilds + 1
    /\ derived' = [k \in Keys |-> IF k[2] >= lo /\ k[2] < hi
                                  THEN Clicks(raw, k, 0, Len(raw))
                                  ELSE IF k[2] = hi THEN 0 ELSE derived[k]]
    /\ UNCHANGED <<seen, raw, cursor, pc, from, upto, crashes>>

Rebuild(lo, hi) ==
    /\ rebuilds < MaxRebuilds
    /\ rebuilds' = rebuilds + 1
    /\ derived' = [k \in Keys |-> IF k[2] >= lo /\ k[2] < hi
                                  THEN Clicks(raw, k, 0, Len(raw)) ELSE derived[k]]
    /\ UNCHANGED <<seen, raw, cursor, pc, from, upto, crashes>>

Next ==
    \/ \E r \in Requests : TrackClick(r)
    \/ \E p \in Processors : RunOnce(p) \/ Crash(p)
    \/ \E lo, hi \in Minutes : Rebuild(lo, hi + 1)

Spec == Init /\ [][Next]_vars

(* Workers loop forever and the server runs every background task. *)
FairSpec == Spec /\ \A p \in Processors : WF_vars(RunOnce(p))

-----------------------------------------------------------------------------
(* No click is missing from the metrics: below the cursor every raw event  *)
(* is counted at least once, although cursors are set back by slow         *)
(* processors, rebuilds replace counts and processors die half way.        *)
NothingLost == \A k \in Keys : derived[k] >= Clicks(raw, k, 0, cursor)

(* The deltas and the cursor agree: every raw event below the cursor is    *)
(* counted once, the others not at all.                                    *)
ExactlyOnce == \A k \in Keys : derived[k] = Clicks(raw, k, 0, cursor)

(* The stream gets to the end and stays there once the clicks stop,        *)
(* although a slow processor may set the cursor back in between.           *)
EventuallyDrained == <>[](cursor = Len(raw))

(* With one processor the database is a ledger that publishes accepted     *)
(* clicks in order.                                                        *)
Ledger == INSTANCE ClickLedger WITH accepted <- raw, published <- cursor, metrics <- derived
LedgerRefinement == Ledger!Spec
=============================================================================
