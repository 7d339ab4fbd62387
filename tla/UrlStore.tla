------------------------------ MODULE UrlStore ------------------------------
(***************************************************************************)
(* url-shortener-benchmark: every URL gets a code by hashing, and a code   *)
(* that another URL has is computed again with the attempt mixed in.  The  *)
(* simulation in memory handles one URL after the other; PostgreSQL is     *)
(* given batches, whose collided rows are tried again together, and a      *)
(* batch is one transaction.                                               *)
(*                                                                         *)
(* Hashes are arbitrary: code is any function of URL and attempt.          *)
(***************************************************************************)
EXTENDS Naturals, FiniteSets, Functions

CONSTANTS
    Urls,              \* canonical URLs
    Codes,             \* short URLs
    BatchSize,         \* URLs in a batch
    MaxRetries,
    MaxRuns            \* bound: programs run one after the other on the same tables

ASSUME UrlsAssumption ==
    /\ IsFiniteSet(Urls)
    /\ BatchSize \in Nat \ {0}
    /\ MaxRetries \in Nat
    /\ MaxRuns \in Nat \ {0}

VARIABLES
    method,            \* "memory" or "postgres"
    code,              \* code[u][n]: the short URL of u at attempt n
    table,             \* table[c]: URL of short URL c, as the transaction sees it
    failures,          \* URLs recorded as failed
    input,             \* URLs the program has not reached
    batch,             \* URLs of the batch under way; one URL in memory
    pending,           \* those of them without a code
    attempt,
    raised,            \* the program ended with an exception
    saved,             \* the table as committed
    runs

urlVars == <<method, code, table, failures, input, batch, pending, attempt, raised, saved, runs>>

Attempts == 0..MaxRetries
Table == UNION {[S -> Urls] : S \in SUBSET Codes}
Empty == [c \in {} |-> CHOOSE u \in Urls : TRUE]

UrlTypeOK ==
    /\ method \in {"memory", "postgres"}
    /\ code \in [Urls -> [Attempts -> Codes]]
    /\ table \in Table
    /\ failures \subseteq Urls
    /\ input \subseteq Urls
    /\ batch \subseteq Urls
    /\ Cardinality(batch) <= IF method = "memory" THEN 1 ELSE BatchSize
    /\ pending \subseteq batch
    /\ attempt \in 0..(MaxRetries + 1)
    /\ raised \in BOOLEAN
    /\ saved \in Table
    /\ runs \in Nat

(* A program with --reset, or the simulation, begins with nothing stored. *)
UrlInit ==
    /\ method \in {"memory", "postgres"}
    /\ code \in [Urls -> [Attempts -> Codes]]
    /\ table = Empty
    /\ failures = {}
    /\ input = Urls
    /\ batch = {}
    /\ pending = {}
    /\ attempt = 0
    /\ raised = FALSE
    /\ saved = Empty
    /\ runs = 1

Stored == Range(table)
CodeNow(u) == code[u][attempt]

(* The table with the staged rows S in it. *)
TableWith(S) == [c \in DOMAIN table \cup {CodeNow(u) : u \in S} |->
    IF c \in DOMAIN table THEN table[c] ELSE CHOOSE u \in S : CodeNow(u) = c]

(* MemoryCollisionStore.insert for the next attempt of one URL: a code it  *)
(* already has is as good as a new one.                                    *)
MemoryInsert(u) ==
    IF CodeNow(u) \notin DOMAIN table
    THEN /\ table' = TableWith({u})
         /\ pending' = {}
    ELSE /\ pending' = IF table[CodeNow(u)] = u THEN {} ELSE {u}
         /\ UNCHANGED table

(* The rows that INSERT ... ON CONFLICT DO NOTHING inserts: as many of the *)
(* staged rows as the unique codes and the unique URLs let in.             *)
Admissible(S) ==
    /\ \A u \in S : CodeNow(u) \notin DOMAIN table /\ u \notin Stored
    /\ \A u, v \in S : CodeNow(u) = CodeNow(v) => u = v

Inserts(S) ==
    /\ Admissible(S)
    /\ \A u \in pending \ S : ~Admissible(S \cup {u})

(* The join of the stage with the table: staged URLs whose code is another *)
(* URL's.                                                                  *)
(* Mutant: without WHERE m.long_url <> s.long_url, also their own.         *)
CollidedWithItself(t) == {u \in pending : CodeNow(u) \in DOMAIN t}

Collided(t) ==
    {u \in pending : CodeNow(u) \in DOMAIN t /\ t[CodeNow(u)] # u}

(* One round: TRUNCATE, COPY, INSERT and the join. *)
PostgresInsert ==
    \E S \in SUBSET pending :
        /\ Inserts(S)
        /\ table' = TableWith(S)
        /\ pending' = Collided(TableWith(S))
-----------------------------------------------------------------------------
(* The next batch of the generator, in any order; one URL in memory. *)
IsNextBatch(urls) ==
    IF method = "memory" THEN Cardinality(urls) = 1
    ELSE /\ Cardinality(urls) <= BatchSize
         /\ Cardinality(urls) < BatchSize => urls = input

NextBatch ==
    /\ batch = {}
    /\ input # {}
    /\ \E urls \in (SUBSET input) \ {{}} :
          /\ IsNextBatch(urls)
          /\ batch' = urls
          /\ pending' = urls
          /\ input' = input \ urls
    /\ UNCHANGED <<method, code, table, failures, attempt, raised, saved, runs>>

TryAttempt ==
    /\ pending # {}
    /\ attempt <= MaxRetries
    /\ \/ method = "memory" /\ \E u \in pending : MemoryInsert(u)
       \/ method = "postgres" /\ PostgresInsert
    /\ attempt' = attempt + 1
    /\ UNCHANGED <<method, code, failures, input, batch, raised, saved, runs>>

(* The batch is done: nothing is pending, and PostgreSQL commits, or the   *)
(* attempts of the simulation's URL are used up, and it counts a failure.  *)
(* Mutant: one commit after all batches. *)
CommitAfterAll ==
    /\ attempt > 0
    /\ pending = {} \/ (method = "memory" /\ attempt > MaxRetries)
    /\ failures' = failures \cup pending
    /\ saved' = IF input = {} THEN table ELSE saved
    /\ batch' = {}
    /\ pending' = {}
    /\ attempt' = 0
    /\ UNCHANGED <<method, code, table, input, raised, runs>>

CommitBatch ==
    /\ attempt > 0
    /\ pending = {} \/ (method = "memory" /\ attempt > MaxRetries)
    /\ failures' = failures \cup pending
    /\ saved' = table
    /\ batch' = {}
    /\ pending' = {}
    /\ attempt' = 0
    /\ UNCHANGED <<method, code, table, input, raised, runs>>

(* With URLs left after the last attempt the program calls executemany on  *)
(* its connection.  Only cursors have one: the AttributeError leaves the   *)
(* block of the connection, which rolls the batch back, and the program.   *)
BatchRaises ==
    /\ method = "postgres"
    /\ pending # {}
    /\ attempt > MaxRetries
    /\ ~raised
    /\ raised' = TRUE
    /\ table' = saved
    /\ UNCHANGED <<method, code, failures, input, batch, pending, attempt, saved, runs>>

(* A program runs on the tables of an earlier one that ended, or was       *)
(* ended in the middle of a batch, which is then rolled back.              *)
(* Mutant: every program makes its tables anew. *)
NextRunAnew ==
    /\ method = "postgres"
    /\ runs < MaxRuns
    /\ runs' = runs + 1
    /\ table' = Empty
    /\ saved' = Empty
    /\ input' = Urls
    /\ batch' = {}
    /\ pending' = {}
    /\ attempt' = 0
    /\ raised' = FALSE
    /\ UNCHANGED <<method, code, failures>>

NextRun ==
    /\ method = "postgres"
    /\ runs < MaxRuns
    /\ runs' = runs + 1
    /\ table' = saved
    /\ input' = Urls
    /\ batch' = {}
    /\ pending' = {}
    /\ attempt' = 0
    /\ raised' = FALSE
    /\ UNCHANGED <<method, code, failures, saved>>

Finished ==
    /\ raised \/ (input = {} /\ batch = {})
    /\ UNCHANGED urlVars

UrlNext == NextBatch \/ TryAttempt \/ CommitBatch \/ BatchRaises \/ NextRun \/ Finished

UrlSpec == UrlInit /\ [][UrlNext]_urlVars
-----------------------------------------------------------------------------
(* Every URL of the batches before this one has a code or is recorded as   *)
(* failed, also when this batch has been rolled back.  In a batch under    *)
(* way, a URL that is tried no more has a code: the INSERT leaves it out   *)
(* without a collision only if it has one already.                         *)
EveryUrlAnswered ==
    /\ Urls \ (input \cup batch) \subseteq Stored \cup failures
    /\ raised \/ batch \ pending \subseteq Stored

(* URLs the program gives up: counted as failures by the simulation, left  *)
(* over in the batch for which it raises with PostgreSQL.                  *)
GivenUp == failures \cup IF raised THEN pending ELSE {}

(* A URL is given up only when every code that it could have is another    *)
(* URL's: never one that has a code already, from an earlier attempt, from *)
(* its batch or from an earlier program.                                   *)
FailuresAreReal ==
    [][\A u \in GivenUp' \ GivenUp :
          /\ u \notin Stored
          /\ \A n \in Attempts : code[u][n] \in DOMAIN table]_urlVars

(* A short URL that has been committed leads to the same URL for ever. *)
CodesNeverMove ==
    [][\A c \in DOMAIN saved : c \in DOMAIN saved' /\ saved'[c] = saved[c]]_urlVars
=============================================================================
