------------------------------- MODULE Leases -------------------------------
(***************************************************************************)
(* The leases of sqlite-concurrency-state-machine: workers, as threads of  *)
(* one service or as processes, acquire and release one resource.  What a  *)
(* lease is depends on the backend: an entry of a dictionary in memory, a  *)
(* row that is PENDING until a timer of the service frees it, or a key     *)
(* with a time to live, in memory, in SQLite or in a Redis server.         *)
(*                                                                         *)
(* The stores in memory and in SQLite read the time before they have their *)
(* lock, so the time they compare with may be past when they compare.      *)
(***************************************************************************)
EXTENDS Naturals, FiniteSets

CONSTANTS
    Owners,            \* owner ids: the workers
    Main,              \* the process of all workers that are threads
    Shared,            \* where a database or a Redis server keeps its keys
    NoToken,           \* no lease
    TTL,               \* ttl_seconds, in ticks
    MaxTime,           \* bound: no attempt begins in the last TTL ticks before it
    MaxAttempts,       \* bound: attempts of a worker
    MaxEnds            \* bound: processes that end

ASSUME LeasesAssumption ==
    /\ TTL \in Nat \ {0}
    /\ MaxTime \in Nat
    /\ MaxAttempts \in Nat
    /\ MaxEnds \in Nat
    /\ Main \notin Owners
    /\ Shared \notin Owners \cup {Main}
    /\ NoToken \notin Owners \X Nat

VARIABLES
    backend,           \* which of Backends is used
    mode,              \* "threads" or "processes"
    clock,
    keys,              \* keys[h]: the lease as the store in h has it
    call,              \* call[w]: where worker w is, and the lease it was given
    timers,            \* timers of the services that will release a PENDING row
    attempts,          \* attempts[w]: acquire calls of w so far
    ends,
    orphans            \* history: tokens whose timer ended before it freed their row

leaseVars == <<backend, mode, clock, keys, call, timers, attempts, ends, orphans>>

Backends == {"app-lock", "db-state", "db-state-no-timer",
             "redis-memory", "redis-sqlite", "redis-server"}
InMemory == {"app-lock", "redis-memory"}
DbState == {"db-state", "db-state-no-timer"}
RedisTtl == {"redis-memory", "redis-sqlite", "redis-server"}

ProcessOf(w) == IF mode = "threads" THEN Main ELSE w
Home(w) == IF backend \in InMemory THEN ProcessOf(w) ELSE Shared
Homes == Owners \cup {Main, Shared}

Tokens == Owners \X Nat

(* A lease without a time to live ends after the last tick. *)
Forever == MaxTime + TTL + 1

(* until: when the store lets the key expire.  Free is no key or state FREE. *)
Free == [token |-> NoToken, until |-> 0]

(* idle, then inside acquire: asking, granted (the store has the lease, its  *)
(* owner does not know yet); then holding; then inside release: returning.   *)
CallSteps == {"idle", "asking", "granted", "holding", "returning"}

(* now: the clock as the call has read it; until: the end of the lease.    *)
Calls == [pc : CallSteps, token : Tokens \cup {NoToken}, now : Nat, until : Nat]
NoCall == [pc |-> "idle", token |-> NoToken, now |-> 0, until |-> 0]

LeaseTypeOK ==
    /\ backend \in Backends
    /\ mode \in {"threads", "processes"}
    /\ clock \in Nat
    /\ keys \in [Homes -> {Free} \cup [token : Tokens, until : Nat]]
    /\ call \in [Owners -> Calls]
    /\ timers \subseteq [token : Tokens, due : Nat, process : Owners \cup {Main}]
    /\ attempts \in [Owners -> Nat]
    /\ ends \in Nat
    /\ orphans \subseteq Tokens

(* A Redis in memory is made for threads only. *)
LeaseInit ==
    /\ backend \in Backends
    /\ mode \in {"threads", "processes"}
    /\ backend = "redis-memory" => mode = "threads"
    /\ clock = 0
    /\ keys = [h \in Homes |-> Free]
    /\ call = [w \in Owners |-> NoCall]
    /\ timers = {}
    /\ attempts = [w \in Owners |-> 0]
    /\ ends = 0
    /\ orphans = {}

-----------------------------------------------------------------------------
(* What a call that reads the clock before it has the lock goes by. *)
TimeRead == IF backend \in {"redis-memory", "redis-sqlite"} THEN clock ELSE 0

(* acquire begins: a new token; the clock is read. *)
Ask(w) ==
    /\ call[w].pc = "idle"
    /\ attempts[w] < MaxAttempts
    /\ clock + TTL <= MaxTime
    /\ attempts' = [attempts EXCEPT ![w] = @ + 1]
    /\ call' = [call EXCEPT ![w] = [pc |-> "asking", token |-> <<w, attempts[w] + 1>>,
                                    now |-> TimeRead, until |-> 0]]
    /\ UNCHANGED <<backend, mode, clock, keys, timers, ends, orphans>>

(* The time SET NX PX goes by: a server reads its own clock. *)
Now(w) == IF backend = "redis-server" THEN clock ELSE call[w].now

(* The rest of SET NX PX, of BEGIN IMMEDIATE ... COMMIT or of the critical *)
(* section: a key that has not expired refuses the call.                   *)
Taken(w) == keys[Home(w)].token # NoToken /\ keys[Home(w)].until > Now(w)

Until(w) == IF backend \in RedisTtl THEN Now(w) + TTL ELSE Forever

Acquire(w) ==
    /\ call[w].pc = "asking"
    /\ IF Taken(w)
       THEN /\ call' = [call EXCEPT ![w] = NoCall]
            /\ UNCHANGED keys
       ELSE /\ call' = [call EXCEPT ![w] = [@ EXCEPT !.pc = "granted", !.now = 0, !.until = Until(w)]]
            /\ keys' = [keys EXCEPT ![Home(w)] = [token |-> call[w].token, until |-> Until(w)]]
    /\ UNCHANGED <<backend, mode, clock, timers, attempts, ends, orphans>>

(* sqlite3.Error: the transaction is rolled back and acquire raises. *)
AcquireFails(w) ==
    /\ call[w].pc = "asking"
    /\ backend \in DbState \cup {"redis-sqlite"}
    /\ call' = [call EXCEPT ![w] = NoCall]
    /\ UNCHANGED <<backend, mode, clock, keys, timers, attempts, ends, orphans>>

(* acquire returns the lease.  Before it does, a service with a timer      *)
(* starts it: the lease then ends when the timer may fire.                 *)
(* Mutant: no timer, as if the service had crashed before it. *)
NoTimeout(w) == UNCHANGED timers

ScheduleTimeout(w) ==
    timers' = timers \cup {[token |-> call[w].token, due |-> clock + TTL,
                            process |-> ProcessOf(w)]}

Granted(w) ==
    /\ call[w].pc = "granted"
    /\ IF backend = "db-state"
       THEN /\ ScheduleTimeout(w)
            /\ call' = [call EXCEPT ![w].pc = "holding", ![w].until = clock + TTL]
       ELSE /\ call' = [call EXCEPT ![w].pc = "holding"]
            /\ UNCHANGED timers
    /\ UNCHANGED <<backend, mode, clock, keys, attempts, ends, orphans>>

(* A worker that stops working without releasing: all of the benchmark's. *)
Abandon(w) ==
    /\ call[w].pc = "holding"
    /\ call' = [call EXCEPT ![w] = NoCall]
    /\ UNCHANGED <<backend, mode, clock, keys, timers, attempts, ends, orphans>>

(* release begins; delete_if_value in memory reads the clock first. *)
GiveBack(w) ==
    /\ call[w].pc = "holding"
    /\ call' = [call EXCEPT ![w].pc = "returning", ![w].now = TimeRead]
    /\ UNCHANGED <<backend, mode, clock, keys, timers, attempts, ends, orphans>>

(* The key after a release with this token. *)
(* Mutant: a release deletes whatever is there. *)
BlindRelease(key, token) == Free

CompareAndDelete(key, token) == IF key.token = token THEN Free ELSE key

(* delete_if_value in memory deletes any key that had expired. *)
Release(w) ==
    LET key == keys[Home(w)]
        expired == backend = "redis-memory" /\ key.until <= call[w].now IN
    /\ call[w].pc = "returning"
    /\ keys' = [keys EXCEPT ![Home(w)] =
                   IF expired THEN Free ELSE CompareAndDelete(key, call[w].token)]
    /\ call' = [call EXCEPT ![w] = NoCall]
    /\ UNCHANGED <<backend, mode, clock, timers, attempts, ends, orphans>>

(* sqlite3.Error: the key stays as it is and release raises. *)
ReleaseFails(w) ==
    /\ call[w].pc = "returning"
    /\ backend \in DbState \cup {"redis-sqlite"}
    /\ call' = [call EXCEPT ![w] = NoCall]
    /\ UNCHANGED <<backend, mode, clock, keys, timers, attempts, ends, orphans>>

(* A timer calls release with the lease it was started for. *)
TimerFires(t) ==
    /\ t.due <= clock
    /\ keys' = [keys EXCEPT ![Shared] = CompareAndDelete(keys[Shared], t.token)]
    /\ timers' = timers \ {t}
    /\ UNCHANGED <<backend, mode, clock, call, attempts, ends, orphans>>

(* That release raises, in the thread of the timer, which fires only once. *)
TimerFails(t) ==
    /\ t.due <= clock
    /\ timers' = timers \ {t}
    /\ orphans' = orphans \cup {t.token}
    /\ UNCHANGED <<backend, mode, clock, keys, call, attempts, ends>>

(* A process ends, by a crash or because its one attempt is over: with it  *)
(* its workers, what it had in memory and its timers, which are daemons.   *)
ProcessEnds(p) ==
    LET workers == {w \in Owners : ProcessOf(w) = p} IN
    /\ workers # {}
    /\ ends < MaxEnds
    /\ ends' = ends + 1
    /\ call' = [w \in Owners |-> IF w \in workers THEN NoCall ELSE call[w]]
    /\ keys' = [keys EXCEPT ![p] = Free]
    /\ timers' = {t \in timers : t.process # p}
    /\ orphans' = orphans \cup {t.token : t \in {u \in timers : u.process = p}}
                  \cup {call[w].token : w \in {v \in workers : call[v].pc = "granted"}}
    /\ UNCHANGED <<backend, mode, clock, attempts>>

(* Time passes; at the bound it waits for calls that are under way. *)
InCall(w) == call[w].pc \in {"asking", "granted"}

Tick ==
    /\ clock < MaxTime \/ (clock < MaxTime + TTL /\ \A w \in Owners : ~InCall(w))
    /\ clock' = clock + 1
    /\ UNCHANGED <<backend, mode, keys, call, timers, attempts, ends, orphans>>

(* The attempts are made and the benchmark is over. *)
LeasesOver ==
    /\ clock = MaxTime + TTL
    /\ timers = {} /\ \A w \in Owners : call[w].pc = "idle"
    /\ UNCHANGED leaseVars

LeaseNext ==
    \/ \E w \in Owners : \/ Ask(w) \/ Acquire(w) \/ AcquireFails(w) \/ Granted(w)
                          \/ Abandon(w) \/ GiveBack(w) \/ Release(w) \/ ReleaseFails(w)
    \/ \E t \in timers : TimerFires(t) \/ TimerFails(t)
    \/ \E p \in Owners \cup {Main} : ProcessEnds(p)
    \/ Tick
    \/ LeasesOver

(* Time passes, calls end, and a timer that is due runs, well or not. *)
LeaseFairness ==
    /\ WF_leaseVars(Tick)
    /\ \A w \in Owners : WF_leaseVars(Acquire(w)) /\ WF_leaseVars(Granted(w))
    /\ WF_leaseVars(\E t \in timers : TimerFires(t) \/ TimerFails(t))

LeaseSpec == LeaseInit /\ [][LeaseNext]_leaseVars /\ LeaseFairness
-----------------------------------------------------------------------------
(* w has been granted a lease that has not ended. *)
Entitled(w) == call[w].pc \in {"granted", "holding"} /\ clock < call[w].until

(* While a lease lasts, the store has it under the token of its owner: no  *)
(* other acquire replaces it, and neither a late release by a former owner *)
(* nor the timer of an earlier lease removes it.                           *)
OwnerHasKey == \A w \in Owners : Entitled(w) => keys[Home(w)].token = call[w].token

(* Hence a backend that all workers share has one owner at a time.         *)
OneOwner ==
    (backend = "app-lock" => mode = "threads") =>
    \A v, w \in Owners : Entitled(v) /\ Entitled(w) => v = w

(* A lease that nobody releases ends all the same: a key with a time to    *)
(* live expires, whatever crashes or raises, and a PENDING row is freed by *)
(* its timer.  The row stays PENDING only if the process with the timer    *)
(* ended, or the one call of release by the timer raised.                  *)
Blocks(w, n) ==
    \E h \in Homes : keys[h].token = <<w, n>> /\ keys[h].until > clock

LeasesEnd ==
    backend \in RedisTtl \cup {"db-state"} =>
        \A w \in Owners : \A n \in 1..MaxAttempts :
            Blocks(w, n) ~> (~Blocks(w, n) \/ (backend = "db-state" /\ <<w, n>> \in orphans))
=============================================================================
