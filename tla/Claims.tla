------------------------------- MODULE Claims -------------------------------
(***************************************************************************)
(* The driver race of sqlite-concurrency-state-machine: workers, threads   *)
(* or processes, claim one row of a SQLite table, all in the same of three *)
(* ways.  Each way reads the row, works for a while, and updates it; they  *)
(* differ in what protects the row in between.                             *)
(*                                                                         *)
(* SQLite runs one statement at a time outside transactions, and one write *)
(* transaction (BEGIN IMMEDIATE) at a time.                                *)
(***************************************************************************)
EXTENDS Naturals, FiniteSets

CONSTANTS
    Workers,           \* worker ids; the offer of w is named after w
    Nobody             \* current_offer_id is NULL, nobody holds the write lock

ASSUME ClaimsAssumption == IsFiniteSet(Workers) /\ Nobody \notin Workers

VARIABLES
    strategy,          \* which of the three claims the race uses
    driver,            \* the row: status, offer and version
    writer,            \* who is inside BEGIN IMMEDIATE ... COMMIT
    claim              \* claim[w]: where w is, and the row it has read

claimVars == <<strategy, driver, writer, claim>>

Strategies == {"unsafe", "transaction", "atomic"}
Statuses == {"AVAILABLE", "OFFERED", "BUSY", "missing"}
Drivers == [status : Statuses, offer : Workers \cup {Nobody}, version : Nat]

(* waiting: before start_at or for the write lock; read: between the       *)
(* SELECT and the UPDATE; then the result, or an exception.                *)
ClaimSteps == {"waiting", "read", "won", "lost", "error"}

ClaimTypeOK ==
    /\ strategy \in Strategies
    /\ driver \in Drivers
    /\ driver.status = "OFFERED" <=> driver.offer # Nobody
    /\ writer \in Workers \cup {Nobody}
    /\ claim \in [Workers -> [pc : ClaimSteps, status : Statuses, version : Nat]]

(* reset_driver leaves one row; a worker may be given the id of another. *)
ResetDriver(status) == [status |-> status, offer |-> Nobody, version |-> 0]

NotStarted == [pc |-> "waiting", status |-> "missing", version |-> 0]

ClaimInit ==
    /\ strategy \in Strategies
    /\ driver \in {ResetDriver(status) : status \in {"AVAILABLE", "BUSY", "missing"}}
    /\ writer = Nobody
    /\ claim = [w \in Workers |-> NotStarted]

Return(w, result) == claim' = [claim EXCEPT ![w].pc = result]

(* The SELECT: what the claim does next depends on the row it returns. *)
Select(w) ==
    claim' = [claim EXCEPT ![w] = [pc |-> "read", status |-> driver.status,
                                   version |-> driver.version]]

(* The row after an UPDATE by w. *)
(* Mutant: the version is computed from the one that was read. *)
OfferedFromRead(w) == [status |-> "OFFERED", offer |-> w, version |-> claim[w].version + 1]

(* Mutant: the offer is not recorded. *)
OfferedToNobody(w) == [status |-> "OFFERED", offer |-> Nobody, version |-> driver.version + 1]

Offered(w) == [status |-> "OFFERED", offer |-> w, version |-> driver.version + 1]
-----------------------------------------------------------------------------
(* claim_unsafe_check_then_update *)
UnsafeSelect(w) ==
    /\ strategy = "unsafe"
    /\ claim[w].pc = "waiting"
    /\ IF driver.status = "AVAILABLE" THEN Select(w) ELSE Return(w, "lost")
    /\ UNCHANGED <<strategy, driver, writer>>

UnsafeUpdate(w) ==
    /\ strategy = "unsafe"
    /\ claim[w].pc = "read"
    /\ driver' = Offered(w)
    /\ Return(w, "won")
    /\ UNCHANGED <<strategy, writer>>

(* claim_in_transaction *)
BeginImmediate(w) ==
    /\ strategy = "transaction"
    /\ claim[w].pc = "waiting"
    /\ writer = Nobody
    /\ writer' = w
    /\ Select(w)
    /\ UNCHANGED <<strategy, driver>>

Rollback(w) ==
    /\ strategy = "transaction"
    /\ claim[w].pc = "read"
    /\ claim[w].status # "AVAILABLE"
    /\ writer' = Nobody
    /\ Return(w, "lost")
    /\ UNCHANGED <<strategy, driver>>

Commit(w) ==
    /\ strategy = "transaction"
    /\ claim[w].pc = "read"
    /\ claim[w].status = "AVAILABLE"
    /\ driver' = Offered(w)
    /\ writer' = Nobody
    /\ Return(w, "won")
    /\ UNCHANGED strategy

(* A worker that waits longer than the busy timeout for the write lock     *)
(* gets an exception and has no result.                                    *)
BusyTimeout(w) ==
    /\ strategy = "transaction"
    /\ claim[w].pc = "waiting"
    /\ writer # Nobody
    /\ Return(w, "error")
    /\ UNCHANGED <<strategy, driver, writer>>

(* claim_with_atomic_update *)
AtomicSelect(w) ==
    /\ strategy = "atomic"
    /\ claim[w].pc = "waiting"
    /\ IF driver.status = "missing" THEN Return(w, "lost") ELSE Select(w)
    /\ UNCHANGED <<strategy, driver, writer>>

(* The condition of the UPDATE, evaluated on the row as it is now. *)
(* Mutant: the condition names the version only. *)
VersionCondition(w) == driver.version = claim[w].version

Condition(w) == driver.status = "AVAILABLE" /\ driver.version = claim[w].version

AtomicUpdate(w) ==
    /\ strategy = "atomic"
    /\ claim[w].pc = "read"
    /\ IF Condition(w) THEN driver' = Offered(w) /\ Return(w, "won")
                       ELSE UNCHANGED driver /\ Return(w, "lost")
    /\ UNCHANGED <<strategy, writer>>

(* A worker that dies, as a process of its own may: SQLite rolls back what *)
(* it has not committed, and the race fails.  One that dies after its      *)
(* UPDATE has won as far as the row shows, but does not report it.         *)
WorkerDies(w) ==
    /\ claim[w].pc \in {"waiting", "read"}
    /\ writer' = IF writer = w THEN Nobody ELSE writer
    /\ Return(w, "error")
    /\ UNCHANGED <<strategy, driver>>

ClaimStep(w) ==
    \/ UnsafeSelect(w) \/ UnsafeUpdate(w)
    \/ BeginImmediate(w) \/ Rollback(w) \/ Commit(w) \/ BusyTimeout(w)
    \/ AtomicSelect(w) \/ AtomicUpdate(w)
    \/ WorkerDies(w)

(* run_race returns when every worker has; the next race, of this program  *)
(* or another, may use another claim.                                      *)
NextRace ==
    /\ \A w \in Workers : claim[w].pc \in {"won", "lost", "error"}
    /\ strategy' \in Strategies
    /\ driver' \in {ResetDriver(status) : status \in {"AVAILABLE", "BUSY", "missing"}}
    /\ claim' = [w \in Workers |-> NotStarted]
    /\ UNCHANGED writer

ClaimNext == NextRace \/ \E w \in Workers : ClaimStep(w)

ClaimSpec == ClaimInit /\ [][ClaimNext]_claimVars
-----------------------------------------------------------------------------
Winners == {w \in Workers : claim[w].pc = "won"}

(* Every claim that succeeds has advanced the row by one version, and      *)
(* nothing else has: also where claims overwrite each other's offer        *)
(* (unsafe), run_race sees from the version how many there were.           *)
VersionCountsWinners == driver.version = Cardinality(Winners)

(* With the transaction and with the conditional update, at most one claim *)
(* succeeds and its offer is the one the row keeps: what a race shows of   *)
(* these two claims is the exclusive claim.                                *)
Exclusive == INSTANCE ExclusiveClaim WITH
    winners <- IF strategy = "unsafe" THEN {} ELSE Winners,
    holder <- IF strategy = "unsafe" THEN Nobody ELSE driver.offer

ClaimIsExclusive == Exclusive!Spec
=============================================================================
