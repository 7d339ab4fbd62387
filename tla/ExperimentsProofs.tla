-------------------------- MODULE ExperimentsProofs --------------------------
(***************************************************************************)
(* Proofs about the command line experiments, for any number of workers,   *)
(* operations, users, posts, URLs and codes: a driver's version counts the *)
(* claims that succeeded and two ways to claim are exclusive, leases have  *)
(* one owner at a time, counters stand for their rows, and short URLs are  *)
(* answered for and never move.                                            *)
(***************************************************************************)
EXTENDS MCExperiments, FiniteSetTheorems, TLAPS

-----------------------------------------------------------------------------
(* The driver race.                                                        *)

USE DEF Strategies, Statuses, ClaimSteps

(* Inside its transaction a worker is the writer, and only then; no other  *)
(* strategy takes the write lock.                                          *)
OneWriter ==
    \A w \in Workers : writer = w <=> strategy = "transaction" /\ claim[w].pc = "read"

(* The row of the transaction stays as it was read.                        *)
ReadIsCurrent ==
    strategy = "transaction" =>
        \A w \in Workers : claim[w].pc = "read" => claim[w].status = driver.status

(* Either nobody has won and nobody is recorded, or one worker has won and *)
(* it is the recorded one.                                                 *)
WinnerIsHolder ==
    strategy # "unsafe" =>
        \/ Winners = {} /\ driver.offer = Nobody
        \/ \E w \in Workers : Winners = {w} /\ driver.offer = w

(* The inductive invariant of the race. *)
RaceInv == ClaimTypeOK /\ OneWriter /\ ReadIsCurrent /\ WinnerIsHolder

-----------------------------------------------------------------------------
(* Lemma: a step of w to pc changes the set of winners as pc says. *)
LEMMA WinnersAfterReturn ==
    ASSUME ClaimTypeOK, NEW w \in Workers, NEW result \in ClaimSteps, Return(w, result)
    PROVE  /\ claim' \in [Workers -> [pc : ClaimSteps, status : Statuses, version : Nat]]
           /\ claim'[w].pc = result
           /\ \A v \in Workers \ {w} : claim'[v] = claim[v]
           /\ result = "won" => Winners' = Winners \cup {w}
           /\ result # "won" => Winners' = Winners \ {w}
<1>1. claim' \in [Workers -> [pc : ClaimSteps, status : Statuses, version : Nat]]
  BY DEF ClaimTypeOK, Return
<1>2. claim'[w].pc = result /\ \A v \in Workers \ {w} : claim'[v] = claim[v]
  BY DEF ClaimTypeOK, Return
<1> QED  BY <1>1, <1>2 DEF Winners

(* Lemma: a worker that reads the row keeps its result open. *)
LEMMA WinnersAfterSelect ==
    ASSUME ClaimTypeOK, NEW w \in Workers, claim[w].pc = "waiting", Select(w)
    PROVE  /\ claim' \in [Workers -> [pc : ClaimSteps, status : Statuses, version : Nat]]
           /\ claim'[w] = [pc |-> "read", status |-> driver.status, version |-> driver.version]
           /\ \A v \in Workers \ {w} : claim'[v] = claim[v]
           /\ Winners' = Winners
<1>1. claim' \in [Workers -> [pc : ClaimSteps, status : Statuses, version : Nat]]
  BY DEF ClaimTypeOK, Select, Drivers
<1>2. /\ claim'[w] = [pc |-> "read", status |-> driver.status, version |-> driver.version]
      /\ \A v \in Workers \ {w} : claim'[v] = claim[v]
  BY DEF ClaimTypeOK, Select
<1> QED  BY <1>1, <1>2 DEF Winners

(* Lemma: the invariant holds when a race begins. *)
LEMMA RaceInit == ASSUME ClaimInit PROVE RaceInv /\ VersionCountsWinners
<1> USE ClaimsAssumption DEF ClaimInit, ResetDriver, NotStarted
<1>1. ClaimTypeOK
  BY DEF ClaimTypeOK, Drivers
<1>2. Winners = {}
  BY DEF Winners
<1>3. OneWriter /\ ReadIsCurrent /\ WinnerIsHolder
  BY <1>2 DEF OneWriter, ReadIsCurrent, WinnerIsHolder
<1>4. VersionCountsWinners
  BY <1>2, FS_EmptySet DEF VersionCountsWinners
<1> QED  BY <1>1, <1>3, <1>4 DEF RaceInv

(* Lemma: the next race begins as the first one does. *)
LEMMA RaceAgain ==
    ASSUME RaceInv, NextRace
    PROVE  RaceInv' /\ VersionCountsWinners' /\ Winners' = {} /\ driver'.offer = Nobody
<1> USE ClaimsAssumption DEF RaceInv, NextRace, ResetDriver, NotStarted
<1>1. writer = Nobody
  BY DEF OneWriter, ClaimTypeOK
<1>2. ClaimTypeOK'
  BY <1>1 DEF ClaimTypeOK, Drivers
<1>3. Winners' = {} /\ driver'.offer = Nobody
  BY DEF Winners
<1>4. OneWriter' /\ ReadIsCurrent' /\ WinnerIsHolder'
  BY <1>1, <1>3 DEF OneWriter, ReadIsCurrent, WinnerIsHolder
<1>5. VersionCountsWinners'
  BY <1>3, FS_EmptySet DEF VersionCountsWinners
<1> QED  BY <1>2, <1>3, <1>4, <1>5

-----------------------------------------------------------------------------
(* What a step does, seen from outside: nothing (a stutter), or a claim    *)
(* that succeeds on the row as it is, alone unless it is the unsafe one.   *)
Unchanged == Winners' = Winners /\ driver' = driver
Wins(w) ==
    /\ w \notin Winners
    /\ Winners' = Winners \cup {w}
    /\ driver' = Offered(w)
    /\ strategy # "unsafe" => Winners = {}

(* Lemma: an open row has not been won. *)
LEMMA AvailableIsFree ==
    ASSUME RaceInv, strategy # "unsafe", driver.status = "AVAILABLE"
    PROVE  Winners = {}
BY ClaimsAssumption DEF RaceInv, WinnerIsHolder, ClaimTypeOK

(* Lemma: every step of a worker keeps types and lock discipline, and is   *)
(* one of the two kinds.                                                   *)
LEMMA RaceStep ==
    ASSUME RaceInv, NEW w \in Workers, ClaimStep(w)
    PROVE  /\ ClaimTypeOK' /\ OneWriter' /\ ReadIsCurrent'
           /\ strategy' = strategy
           /\ Unchanged \/ Wins(w)
<1> USE ClaimsAssumption
<1>t. ClaimTypeOK /\ OneWriter /\ ReadIsCurrent
  BY DEF RaceInv
<1>o. Offered(w) \in Drivers /\ Offered(w).status = "OFFERED" /\ Offered(w).offer = w
  BY <1>t DEF Offered, Drivers, ClaimTypeOK
<1>1. CASE UnsafeSelect(w)
  <2>1. CASE driver.status = "AVAILABLE"
    <3>1. claim[w].pc = "waiting" /\ Select(w)
      BY <1>1, <2>1 DEF UnsafeSelect
    <3> QED  BY <1>t, <1>1, <3>1, WinnersAfterSelect
             DEF UnsafeSelect, ClaimTypeOK, OneWriter, ReadIsCurrent, Unchanged
  <2>2. CASE driver.status # "AVAILABLE"
    <3>1. claim[w].pc = "waiting" /\ Return(w, "lost")
      BY <1>1, <2>2 DEF UnsafeSelect
    <3> QED  BY <1>t, <1>1, <3>1, WinnersAfterReturn
             DEF UnsafeSelect, ClaimTypeOK, OneWriter, ReadIsCurrent, Unchanged, Winners
  <2> QED  BY <2>1, <2>2
<1>2. CASE UnsafeUpdate(w)
  <2>1. Return(w, "won") /\ claim[w].pc = "read"
    BY <1>2 DEF UnsafeUpdate
  <2> QED  BY <1>t, <1>o, <1>2, <2>1, WinnersAfterReturn
           DEF UnsafeUpdate, ClaimTypeOK, OneWriter, ReadIsCurrent, Wins, Winners
<1>3. CASE BeginImmediate(w)
  <2>1. claim[w].pc = "waiting" /\ Select(w)
    BY <1>3 DEF BeginImmediate
  <2> QED  BY <1>t, <1>3, <2>1, WinnersAfterSelect
           DEF BeginImmediate, ClaimTypeOK, OneWriter, ReadIsCurrent, Unchanged
<1>4. CASE Rollback(w)
  <2>1. Return(w, "lost") /\ claim[w].pc = "read"
    BY <1>4 DEF Rollback
  <2> QED  BY <1>t, <1>4, <2>1, WinnersAfterReturn
           DEF Rollback, ClaimTypeOK, OneWriter, ReadIsCurrent, Unchanged, Winners
<1>5. CASE Commit(w)
  <2>1. Return(w, "won") /\ claim[w].pc = "read" /\ claim[w].status = "AVAILABLE"
    BY <1>5 DEF Commit
  <2>2. strategy # "unsafe" /\ driver.status = "AVAILABLE"
    BY <1>t, <1>5, <2>1 DEF Commit, ReadIsCurrent
  <2>3. Wins(w)
    BY <1>t, <1>5, <2>1, <2>2, WinnersAfterReturn, AvailableIsFree DEF Commit, Wins
  <2> QED  BY <1>t, <1>o, <1>5, <2>1, <2>3, WinnersAfterReturn
           DEF Commit, ClaimTypeOK, OneWriter, ReadIsCurrent
<1>6. CASE BusyTimeout(w)
  <2>1. Return(w, "error") /\ claim[w].pc = "waiting"
    BY <1>6 DEF BusyTimeout
  <2> QED  BY <1>t, <1>6, <2>1, WinnersAfterReturn
           DEF BusyTimeout, ClaimTypeOK, OneWriter, ReadIsCurrent, Unchanged, Winners
<1>7. CASE AtomicSelect(w)
  <2>1. CASE driver.status = "missing"
    <3>1. claim[w].pc = "waiting" /\ Return(w, "lost")
      BY <1>7, <2>1 DEF AtomicSelect
    <3> QED  BY <1>t, <1>7, <3>1, WinnersAfterReturn
             DEF AtomicSelect, ClaimTypeOK, OneWriter, ReadIsCurrent, Unchanged, Winners
  <2>2. CASE driver.status # "missing"
    <3>1. claim[w].pc = "waiting" /\ Select(w)
      BY <1>7, <2>2 DEF AtomicSelect
    <3> QED  BY <1>t, <1>7, <3>1, WinnersAfterSelect
             DEF AtomicSelect, ClaimTypeOK, OneWriter, ReadIsCurrent, Unchanged
  <2> QED  BY <2>1, <2>2
<1>8. CASE AtomicUpdate(w)
  <2>1. CASE Condition(w)
    <3>1. Return(w, "won") /\ claim[w].pc = "read" /\ driver.status = "AVAILABLE"
      BY <1>8, <2>1 DEF AtomicUpdate, Condition
    <3>2. Wins(w)
      BY <1>t, <1>8, <2>1, <3>1, WinnersAfterReturn, AvailableIsFree DEF AtomicUpdate, Wins
    <3> QED  BY <1>t, <1>o, <1>8, <3>1, <3>2, WinnersAfterReturn
             DEF AtomicUpdate, ClaimTypeOK, OneWriter, ReadIsCurrent, Wins
  <2>2. CASE ~Condition(w)
    <3>1. Return(w, "lost") /\ claim[w].pc = "read"
      BY <1>8, <2>2 DEF AtomicUpdate
    <3> QED  BY <1>t, <1>8, <2>2, <3>1, WinnersAfterReturn
             DEF AtomicUpdate, ClaimTypeOK, OneWriter, ReadIsCurrent, Unchanged, Winners
  <2> QED  BY <2>1, <2>2
<1>9. CASE WorkerDies(w)
  <2>1. Return(w, "error") /\ claim[w].pc \in {"waiting", "read"}
    BY <1>9 DEF WorkerDies
  <2> QED  BY <1>t, <1>9, <2>1, WinnersAfterReturn
           DEF WorkerDies, ClaimTypeOK, OneWriter, ReadIsCurrent, Unchanged, Winners
<1> QED  BY <1>1, <1>2, <1>3, <1>4, <1>5, <1>6, <1>7, <1>8, <1>9 DEF ClaimStep

(* Lemma: a step of a worker keeps the recorded holder the winner, and     *)
(* counts the winner in the version.                                       *)
LEMMA WinnersStep ==
    ASSUME RaceInv, VersionCountsWinners, NEW w \in Workers, ClaimStep(w)
    PROVE  WinnerIsHolder' /\ VersionCountsWinners'
<1>1. ClaimTypeOK' /\ strategy' = strategy
  BY RaceStep
<1>2. CASE Unchanged
  BY <1>1, <1>2 DEF RaceInv, Unchanged, WinnerIsHolder, VersionCountsWinners
<1>3. CASE Wins(w)
  <2>1. WinnerIsHolder'
    BY <1>1, <1>3 DEF Wins, WinnerIsHolder, Offered
  <2>2. IsFiniteSet(Winners)
    BY ClaimsAssumption, FS_Subset DEF Winners
  <2>3. Cardinality(Winners') = Cardinality(Winners) + 1
    BY <1>3, <2>2, FS_AddElement DEF Wins
  <2>4. driver'.version = driver.version + 1
    BY <1>3 DEF Wins, Offered
  <2> QED  BY <2>1, <2>3, <2>4 DEF VersionCountsWinners
<1> QED  BY <1>2, <1>3, RaceStep

(* Lemma: the invariant and the count of the versions are kept by every    *)
(* step.                                                                   *)
LEMMA RaceStepInv ==
    RaceInv /\ VersionCountsWinners /\ [ClaimNext]_claimVars
        => RaceInv' /\ VersionCountsWinners'
<1> SUFFICES ASSUME RaceInv, VersionCountsWinners, [ClaimNext]_claimVars
             PROVE  RaceInv' /\ VersionCountsWinners'
  OBVIOUS
<1>1. CASE NextRace
  BY <1>1, RaceAgain
<1>2. ASSUME NEW w \in Workers, ClaimStep(w)
      PROVE  RaceInv' /\ VersionCountsWinners'
  BY <1>2, RaceStep, WinnersStep DEF RaceInv
<1>3. CASE UNCHANGED claimVars
  BY <1>3 DEF claimVars, RaceInv, ClaimTypeOK, OneWriter, ReadIsCurrent, WinnerIsHolder,
              VersionCountsWinners, Winners
<1> QED  BY <1>1, <1>2, <1>3 DEF ClaimNext

(* The inductive invariant, with the version count, which is what makes    *)
(* the count inductive.                                                    *)
THEOREM RaceInvariant == ClaimSpec => [](RaceInv /\ VersionCountsWinners)
<1>1. ClaimInit => RaceInv /\ VersionCountsWinners
  BY RaceInit
<1> QED  BY <1>1, RaceStepInv, PTL DEF ClaimSpec

(* The variables keep their types, and a row is OFFERED exactly when it    *)
(* names its offer.                                                        *)
THEOREM ClaimsTypeCorrect == ClaimSpec => []ClaimTypeOK
<1>1. RaceInv => ClaimTypeOK
  BY DEF RaceInv
<1> QED  BY <1>1, RaceInvariant, PTL

(* For any number of workers, and whatever claims overwrite one another,   *)
(* the version is the number of claims that succeeded: run_race reads it.  *)
THEOREM VersionIsCount == ClaimSpec => []VersionCountsWinners
BY RaceInvariant, PTL

-----------------------------------------------------------------------------
(* For any number of workers the transaction and the conditional update    *)
(* implement the exclusive claim, deaths and busy timeouts included.       *)
THEOREM ClaimsAreExclusive == ClaimSpec => ClaimIsExclusive
<1>1. ClaimInit => Exclusive!Init
  BY DEF ClaimInit, Exclusive!Init, Winners, ResetDriver, NotStarted
<1>2. RaceInv /\ [ClaimNext]_claimVars => [Exclusive!Next]_(Exclusive!vars)
  <2> SUFFICES ASSUME RaceInv, [ClaimNext]_claimVars
               PROVE  [Exclusive!Next]_(Exclusive!vars)
    OBVIOUS
  <2> USE DEF Exclusive!Next, Exclusive!vars
  <2>1. CASE NextRace
    BY <2>1, RaceAgain DEF Exclusive!Reset
  <2>2. ASSUME NEW w \in Workers, ClaimStep(w)
        PROVE  [Exclusive!Next]_(Exclusive!vars)
    <3>1. strategy' = strategy
      BY <2>2, RaceStep
    <3>2. CASE Unchanged
      BY <3>1, <3>2 DEF Unchanged
    <3>3. CASE Wins(w) /\ strategy # "unsafe"
      BY <3>1, <3>3 DEF Wins, Offered, Exclusive!Take
    <3>4. CASE Wins(w) /\ strategy = "unsafe"
      BY <3>1, <3>4
    <3> QED  BY <2>2, <3>2, <3>3, <3>4, RaceStep
  <2>3. CASE UNCHANGED claimVars
    BY <2>3 DEF claimVars, Winners
  <2> QED  BY <2>1, <2>2, <2>3 DEF ClaimNext
<1>3. ClaimSpec => []RaceInv
  BY RaceInvariant, PTL
<1> QED  BY <1>1, <1>2, <1>3, PTL DEF ClaimSpec, ClaimIsExclusive, Exclusive!Spec

-----------------------------------------------------------------------------
(* Leases.                                                                 *)

(* The token of a call is one its worker has made, the last one until the  *)
(* call has returned, and only after that a timer may have it.             *)
OwnTokens ==
    \A w \in Owners : call[w].pc # "idle" =>
        \E n \in 1..attempts[w] : call[w].token = <<w, n>>

TimersArePast ==
    \A t \in timers : \E w \in Owners : \E n \in 1..attempts[w] : t.token = <<w, n>>

FreshTokens ==
    \A w \in Owners : InCall(w) => \A t \in timers : t.token # call[w].token

(* A timer does not fire before the lease it was started for has ended.    *)
TimersWait ==
    \A w \in Owners : call[w].pc = "holding" =>
        \A t \in timers : t.token = call[w].token => call[w].until <= t.due

(* A clock that was read is not ahead of the clock. *)
ReadsArePast == \A w \in Owners : call[w].now <= clock

CallsInTime == \A w \in Owners : InCall(w) => clock <= MaxTime

(* The store keeps an owner's key at least as long as the owner goes by.   *)
KeyLasts ==
    \A w \in Owners : Entitled(w) =>
        /\ keys[Home(w)].token = call[w].token
        /\ call[w].until <= keys[Home(w)].until

(* Until its timer is started a PENDING row has no end.                    *)
PendingForever ==
    \A w \in Owners : call[w].pc = "granted" /\ backend = "db-state" => call[w].until = Forever

MemoryIsThreads == backend = "redis-memory" => mode = "threads"

LeaseInv ==
    /\ LeaseTypeOK
    /\ OwnTokens
    /\ TimersArePast
    /\ FreshTokens
    /\ TimersWait
    /\ ReadsArePast
    /\ CallsInTime
    /\ PendingForever
    /\ KeyLasts
    /\ MemoryIsThreads

LEMMA LeaseConstants ==
    /\ TTL \in Nat /\ TTL > 0 /\ MaxTime \in Nat /\ Forever \in Nat /\ Forever > 0
    /\ Shared \in Homes /\ Main \in Homes /\ Owners \subseteq Homes
    /\ Shared # Main /\ Shared \notin Owners /\ Main \notin Owners
    /\ NoToken \notin Tokens
BY LeasesAssumption DEF Forever, Homes, Tokens

LEMMA HomeType ==
    ASSUME NEW w \in Owners
    PROVE  Home(w) \in Homes /\ ProcessOf(w) \in Owners \cup {Main}
BY DEF Home, ProcessOf, Homes

(* What a lease on a key looks like to the store, for every call under way. *)
LEMMA CallTypes ==
    ASSUME LeaseTypeOK, NEW w \in Owners
    PROVE  /\ call[w].pc \in CallSteps
           /\ call[w].token \in Tokens \cup {NoToken}
           /\ call[w].now \in Nat /\ call[w].until \in Nat
           /\ attempts[w] \in Nat /\ clock \in Nat
           /\ keys[Home(w)].until \in Nat
           /\ keys[Home(w)].token \in Tokens \cup {NoToken}
<1>1. call[w] \in Calls /\ attempts[w] \in Nat /\ clock \in Nat
    BY DEF LeaseTypeOK
<1>2. keys[Home(w)] \in {Free} \cup [token : Tokens, until : Nat]
    BY HomeType DEF LeaseTypeOK
<1> QED
    BY <1>1, <1>2 DEF Calls, Free

(* The token of a call under way is its worker's.                          *)
LEMMA BusyToken ==
    ASSUME LeaseTypeOK, OwnTokens, NEW w \in Owners, call[w].pc # "idle"
    PROVE  /\ call[w].token \in Tokens
           /\ \A v \in Owners \ {w} : call[v].pc # "idle" => call[v].token # call[w].token
<1>1. \A v \in Owners : attempts[v] \in Nat
    BY DEF LeaseTypeOK
<1>2. PICK n \in 1..attempts[w] : call[w].token = <<w, n>>
    BY DEF OwnTokens
<1>3. n \in Nat
    BY <1>1, <1>2
<1>4. call[w].token \in Tokens
    BY <1>2, <1>3 DEF Tokens
<1>5. ASSUME NEW v \in Owners \ {w}, call[v].pc # "idle"
      PROVE  call[v].token # call[w].token
  <2>1. PICK m \in 1..attempts[v] : call[v].token = <<v, m>>
    BY <1>5 DEF OwnTokens
  <2> QED
    BY <1>2, <2>1
<1> QED
    BY <1>4, <1>5

LEMMA NoCallType == NoCall \in Calls
BY DEF NoCall, Calls, CallSteps

LEMMA LeaseStepType ==
    ASSUME LeaseTypeOK, OwnTokens, [LeaseNext]_leaseVars
    PROVE  LeaseTypeOK'
<1>1. ASSUME NEW w \in Owners, Ask(w)
      PROVE  LeaseTypeOK'
  <2>1. attempts[w] + 1 \in Nat /\ TimeRead \in Nat
    BY CallTypes DEF TimeRead, LeaseTypeOK
  <2>2. [pc |-> "asking", token |-> <<w, attempts[w] + 1>>, now |-> TimeRead, until |-> 0] \in Calls
    BY <2>1 DEF Calls, CallSteps, Tokens
  <2> QED
    BY <1>1, <2>1, <2>2 DEF Ask, LeaseTypeOK
<1>2. ASSUME NEW w \in Owners, Acquire(w)
      PROVE  LeaseTypeOK'
  <2>1. call[w] \in Calls /\ Home(w) \in Homes /\ call[w].token \in Tokens
    BY <1>2, HomeType, BusyToken DEF Acquire, LeaseTypeOK
  <2>2. Until(w) \in Nat
    BY CallTypes, LeaseConstants DEF Until, Now
  <2>3. [call[w] EXCEPT !.pc = "granted", !.now = 0, !.until = Until(w)] \in Calls
    BY <2>1, <2>2 DEF Calls, CallSteps
  <2>4. [token |-> call[w].token, until |-> Until(w)] \in [token : Tokens, until : Nat]
    BY <2>1, <2>2
  <2> QED
    BY <1>2, <2>1, <2>3, <2>4, NoCallType DEF Acquire, LeaseTypeOK
<1>3. ASSUME NEW w \in Owners, AcquireFails(w) \/ ReleaseFails(w)
      PROVE  LeaseTypeOK'
    BY <1>3, NoCallType DEF AcquireFails, ReleaseFails, LeaseTypeOK
<1>4. ASSUME NEW w \in Owners, Granted(w)
      PROVE  LeaseTypeOK'
  <2>1. clock + TTL \in Nat /\ call[w] \in Calls /\ call[w].token \in Tokens
    BY <1>4, LeaseConstants, BusyToken DEF Granted, LeaseTypeOK
  <2>2. call' \in [Owners -> Calls]
    BY <1>4, <2>1 DEF Granted, LeaseTypeOK, Calls, CallSteps
  <2>3. [token |-> call[w].token, due |-> clock + TTL, process |-> ProcessOf(w)]
          \in [token : Tokens, due : Nat, process : Owners \cup {Main}]
    BY <2>1, HomeType
  <2> QED
    BY <1>4, <2>2, <2>3 DEF Granted, ScheduleTimeout, LeaseTypeOK
<1>5. ASSUME NEW w \in Owners, Abandon(w)
      PROVE  LeaseTypeOK'
    BY <1>5, NoCallType DEF Abandon, LeaseTypeOK
<1>6. ASSUME NEW w \in Owners, GiveBack(w)
      PROVE  LeaseTypeOK'
  <2>1. TimeRead \in Nat
    BY DEF TimeRead, LeaseTypeOK
  <2> QED
    BY ZenonT(60), <1>6, <2>1 DEF GiveBack, LeaseTypeOK, Calls, CallSteps
<1>7. ASSUME NEW w \in Owners, Release(w)
      PROVE  LeaseTypeOK'
  <2>1. keys' \in [Homes -> {Free} \cup [token : Tokens, until : Nat]]
    BY <1>7, HomeType DEF Release, CompareAndDelete, LeaseTypeOK
  <2> QED
    BY <1>7, <2>1, NoCallType DEF Release, LeaseTypeOK
<1>8. ASSUME NEW t \in timers, TimerFires(t)
      PROVE  LeaseTypeOK'
    BY <1>8, LeaseConstants DEF TimerFires, CompareAndDelete, LeaseTypeOK
<1>9. ASSUME NEW p \in Owners \cup {Main}, ProcessEnds(p)
      PROVE  LeaseTypeOK'
  <2>1. p \in Homes
    BY LeaseConstants
  <2>2. \A w \in Owners : call[w].pc = "granted" => call[w].token \in Tokens
    BY BusyToken
  <2>3. orphans' \subseteq Tokens
    BY <1>9, <2>2 DEF ProcessEnds, LeaseTypeOK
  <2>4. call' \in [Owners -> Calls] /\ timers' \subseteq timers
    BY <1>9, NoCallType DEF ProcessEnds, LeaseTypeOK
  <2>5. keys' \in [Homes -> {Free} \cup [token : Tokens, until : Nat]] /\ ends' \in Nat
    BY <1>9, <2>1 DEF ProcessEnds, LeaseTypeOK
  <2> QED
    BY <1>9, <2>3, <2>4, <2>5 DEF ProcessEnds, LeaseTypeOK
<1>10. ASSUME NEW t \in timers, TimerFails(t)
       PROVE  LeaseTypeOK'
    BY <1>10 DEF TimerFails, LeaseTypeOK
<1>11. CASE Tick
    BY <1>11 DEF Tick, LeaseTypeOK
<1>12. CASE LeasesOver \/ UNCHANGED leaseVars
    BY <1>12 DEF LeasesOver, leaseVars, LeaseTypeOK
<1> QED
    BY <1>1, <1>2, <1>3, <1>4, <1>5, <1>6, <1>7, <1>8, <1>9, <1>10, <1>11, <1>12 DEF LeaseNext

(* What acquire leaves when it gets the lease.                             *)
LEMMA AcquiredCall ==
    ASSUME LeaseTypeOK, NEW w \in Owners, Acquire(w), ~Taken(w)
    PROVE  /\ call'[w].pc = "granted" /\ call'[w].token = call[w].token
           /\ call'[w].now = 0 /\ call'[w].until = Until(w)
<1> DEFINE after == [call[w] EXCEPT !.pc = "granted", !.now = 0, !.until = Until(w)]
<1>1. call[w] \in Calls
    BY DEF LeaseTypeOK
<1>2. after.pc = "granted" /\ after.token = call[w].token /\ after.now = 0 /\ after.until = Until(w)
    BY <1>1 DEF Calls
<1>3. call'[w] = after
    BY DEF Acquire, LeaseTypeOK
<1> QED
    BY <1>2, <1>3

(* The tokens, timers and clock readings of calls, without the keys.       *)
Bookkeeping ==
    OwnTokens /\ TimersArePast /\ FreshTokens /\ TimersWait /\ ReadsArePast /\ CallsInTime

(* Calls that go on with their token, or end, and timers that end.         *)
LEMMA CallsGoOn ==
    ASSUME LeaseTypeOK, Bookkeeping,
           clock' = clock, attempts' = attempts, timers' \subseteq timers,
           \A v \in Owners :
               \/ call'[v] = call[v]
               \/ call'[v] = NoCall
               \/ /\ call[v].pc # "idle" /\ call'[v].token = call[v].token
                  /\ InCall(v)' => InCall(v)
                  /\ call'[v].pc = "holding" =>
                        \/ InCall(v)
                        \/ call[v].pc = "holding" /\ call'[v].until = call[v].until
                  /\ call'[v].now <= clock
    PROVE  Bookkeeping'
<1>1. OwnTokens'
    BY DEF Bookkeeping, OwnTokens, NoCall
<1>2. TimersArePast'
    BY DEF Bookkeeping, TimersArePast
<1>3. FreshTokens' /\ CallsInTime'
    BY DEF Bookkeeping, FreshTokens, CallsInTime, InCall, NoCall
<1>4. TimersWait'
    BY DEF Bookkeeping, FreshTokens, TimersWait, InCall, NoCall
<1>5. ReadsArePast'
  <2>1. clock \in Nat
    BY DEF LeaseTypeOK
  <2> QED
    BY <2>1 DEF Bookkeeping, ReadsArePast, NoCall
<1> QED
    BY <1>1, <1>2, <1>3, <1>4, <1>5 DEF Bookkeeping

LEMMA AskBookkeeping ==
    ASSUME LeaseTypeOK, Bookkeeping, NEW w \in Owners, Ask(w)
    PROVE  Bookkeeping'
<1>1. attempts[w] \in Nat /\ clock \in Nat /\ attempts'[w] = attempts[w] + 1
    BY DEF LeaseTypeOK, Ask
<1>2. \A v \in Owners \ {w} : call'[v] = call[v] /\ attempts'[v] = attempts[v]
    BY DEF LeaseTypeOK, Ask
<1>3. /\ call'[w].pc = "asking" /\ call'[w].token = <<w, attempts[w] + 1>>
      /\ call'[w].now = TimeRead
    BY DEF LeaseTypeOK, Ask
<1>4. OwnTokens'
    BY <1>1, <1>2, <1>3 DEF Bookkeeping, OwnTokens
<1>5. TimersArePast'
  <2> SUFFICES ASSUME NEW t \in timers
               PROVE  \E v \in Owners : \E n \in 1..attempts'[v] : t.token = <<v, n>>
    BY DEF TimersArePast, Ask
  <2>1. PICK v \in Owners : \E n \in 1..attempts[v] : t.token = <<v, n>>
    BY DEF Bookkeeping, TimersArePast
  <2>2. PICK n \in 1..attempts[v] : t.token = <<v, n>>
    BY <2>1
  <2>3. n \in 1..attempts'[v]
    BY <1>1, <1>2, <2>2
  <2> QED
    BY <2>2, <2>3
<1>6. FreshTokens'
  <2>1. \A t \in timers : t.token # <<w, attempts[w] + 1>>
    BY <1>1 DEF Bookkeeping, TimersArePast
  <2> QED
    BY <1>2, <1>3, <2>1 DEF Bookkeeping, FreshTokens, InCall, Ask
<1>7. TimersWait'
    BY <1>2, <1>3 DEF Bookkeeping, TimersWait, Ask
<1>8. ReadsArePast'
    BY <1>1, <1>2, <1>3 DEF Bookkeeping, ReadsArePast, Ask, TimeRead
<1>9. CallsInTime'
  <2>1. clock <= MaxTime
    BY <1>1, LeaseConstants DEF Ask
  <2> QED
    BY <2>1 DEF CallsInTime, Ask
<1> QED
    BY <1>4, <1>5, <1>6, <1>7, <1>8, <1>9 DEF Bookkeeping

LEMMA GrantedBookkeeping ==
    ASSUME LeaseTypeOK, Bookkeeping, NEW w \in Owners, Granted(w)
    PROVE  Bookkeeping'
<1>1. \A v \in Owners \ {w} : call'[v] = call[v]
    BY DEF LeaseTypeOK, Granted
<1>2. /\ call[w].pc = "granted" /\ call'[w].pc = "holding"
      /\ call'[w].token = call[w].token /\ call'[w].now = call[w].now
  <2>1. call[w] \in Calls
    BY DEF LeaseTypeOK
  <2> QED
    BY <2>1 DEF LeaseTypeOK, Granted, Calls
<1>3. clock' = clock /\ attempts' = attempts
    BY DEF Granted
<1>4. CASE backend # "db-state"
  <2>1. timers' = timers
    BY <1>4 DEF Granted
  <2>2. InCall(w) /\ ~InCall(w)' /\ call'[w].now <= clock
    BY <1>2 DEF InCall, Bookkeeping, ReadsArePast
  <2> QED
    BY <1>1, <1>2, <1>3, <2>1, <2>2, CallsGoOn
<1>5. CASE backend = "db-state"
  <2> DEFINE timer == [token |-> call[w].token, due |-> clock + TTL, process |-> ProcessOf(w)]
  <2>1. timers' = timers \cup {timer}
    BY <1>5 DEF Granted, ScheduleTimeout
  <2>2. call'[w].until = clock + TTL
    BY <1>5 DEF Granted, LeaseTypeOK, Calls
  <2>3. timer.token = call[w].token /\ timer.due = clock + TTL
    OBVIOUS
  <2> HIDE DEF timer
  <2>4. OwnTokens'
    BY <1>1, <1>2, <1>3 DEF Bookkeeping, OwnTokens
  <2>5. TimersArePast'
    BY <1>2, <1>3, <2>1, <2>3 DEF Bookkeeping, TimersArePast, OwnTokens
  <2>6. FreshTokens'
    <3>1. \A v \in Owners \ {w} : InCall(v) => call[v].token # call[w].token
      BY <1>2, BusyToken DEF Bookkeeping, InCall
    <3> SUFFICES ASSUME NEW v \in Owners, InCall(v)', NEW t \in timers'
                 PROVE  t.token # call'[v].token
      BY DEF FreshTokens
    <3>2. v # w /\ InCall(v) /\ call'[v] = call[v]
      BY <1>1, <1>2 DEF InCall
    <3> QED
      BY <2>1, <2>3, <3>1, <3>2 DEF Bookkeeping, FreshTokens
  <2>7. TimersWait'
    <3>1. \A v \in Owners \ {w} : call[v].pc = "holding" => call[v].token # call[w].token
      BY <1>2, BusyToken DEF Bookkeeping
    <3>2. \A t \in timers : t.token # call[w].token
      BY <1>2 DEF Bookkeeping, FreshTokens, InCall
    <3>3. clock + TTL \in Nat
      BY LeaseConstants DEF LeaseTypeOK
    <3> QED
      BY <1>1, <1>2, <2>1, <2>2, <2>3, <3>1, <3>2, <3>3 DEF Bookkeeping, TimersWait
  <2>8. ReadsArePast' /\ CallsInTime'
    BY <1>1, <1>2, <1>3 DEF Bookkeeping, ReadsArePast, CallsInTime, InCall
  <2> QED
    BY <2>4, <2>5, <2>6, <2>7, <2>8 DEF Bookkeeping
<1> QED
    BY <1>4, <1>5

LEMMA StepBookkeeping ==
    ASSUME LeaseTypeOK, Bookkeeping, [LeaseNext]_leaseVars
    PROVE  Bookkeeping'
<1>0. clock \in Nat /\ MaxTime \in Nat
    BY LeaseConstants DEF LeaseTypeOK
<1>1. ASSUME NEW w \in Owners, Acquire(w)
      PROVE  Bookkeeping'
  <2>1. \A v \in Owners \ {w} : call'[v] = call[v]
    BY <1>1 DEF LeaseTypeOK, Acquire
  <2>2. CASE Taken(w)
    <3>1. call'[w] = NoCall
      BY <1>1, <2>2 DEF LeaseTypeOK, Acquire
    <3> QED
      BY <1>1, <2>1, <3>1, CallsGoOn DEF Acquire
  <2>3. CASE ~Taken(w)
    <3>1. call[w] \in Calls
      BY DEF LeaseTypeOK
    <3>2. /\ call'[w].pc = "granted" /\ call'[w].token = call[w].token /\ call'[w].now = 0
      BY <1>1, <2>3, AcquiredCall
    <3>3. call[w].pc = "asking"
      BY <1>1 DEF Acquire
    <3>4. InCall(w) /\ call'[w].now <= clock
      BY <1>0, <3>2, <3>3 DEF InCall
    <3>5. clock' = clock /\ attempts' = attempts /\ timers' = timers
      BY <1>1 DEF Acquire
    <3>6. \A v \in Owners :
             \/ call'[v] = call[v]
             \/ /\ call[v].pc # "idle" /\ call'[v].token = call[v].token
                /\ InCall(v)' => InCall(v)
                /\ call'[v].pc # "holding"
                /\ call'[v].now <= clock
      BY <2>1, <3>2, <3>3, <3>4
    <3> QED
      BY <3>5, <3>6, CallsGoOn
  <2> QED
    BY <2>2, <2>3
<1>2. ASSUME NEW w \in Owners,
             AcquireFails(w) \/ Abandon(w) \/ Release(w) \/ ReleaseFails(w)
      PROVE  Bookkeeping'
  <2>1. \A v \in Owners : call'[v] = call[v] \/ call'[v] = NoCall
    BY <1>2 DEF LeaseTypeOK, AcquireFails, Abandon, Release, ReleaseFails
  <2>2. clock' = clock /\ attempts' = attempts /\ timers' = timers
    BY <1>2 DEF AcquireFails, Abandon, Release, ReleaseFails
  <2> QED
    BY <2>1, <2>2, CallsGoOn
<1>3. ASSUME NEW w \in Owners, GiveBack(w)
      PROVE  Bookkeeping'
  <2>1. \A v \in Owners \ {w} : call'[v] = call[v]
    BY <1>3 DEF LeaseTypeOK, GiveBack
  <2>2. call[w] \in Calls
    BY DEF LeaseTypeOK
  <2>3. /\ call[w].pc = "holding" /\ call'[w].pc = "returning"
        /\ call'[w].token = call[w].token /\ call'[w].now = TimeRead
    BY <1>3, <2>2 DEF LeaseTypeOK, GiveBack, Calls
  <2>4. ~InCall(w)' /\ TimeRead <= clock
    BY <1>0, <2>3 DEF InCall, TimeRead
  <2> QED
    BY <1>3, <2>1, <2>3, <2>4, CallsGoOn DEF GiveBack
<1>4. ASSUME NEW t \in timers, TimerFires(t) \/ TimerFails(t)
      PROVE  Bookkeeping'
    BY <1>4, CallsGoOn DEF TimerFires, TimerFails
<1>5. ASSUME NEW p, ProcessEnds(p)
      PROVE  Bookkeeping'
    BY <1>5, CallsGoOn DEF ProcessEnds
<1>6. CASE Tick
  <2>1. UNCHANGED <<call, timers, attempts>> /\ clock' = clock + 1
    BY <1>6 DEF Tick
  <2>2. OwnTokens' /\ TimersArePast' /\ FreshTokens' /\ TimersWait'
    BY <2>1 DEF Bookkeeping, OwnTokens, TimersArePast, FreshTokens, TimersWait, InCall
  <2>3. ReadsArePast'
    <3>1. \A w \in Owners : call[w].now \in Nat
      BY CallTypes
    <3> QED
      BY <1>0, <2>1, <3>1 DEF Bookkeeping, ReadsArePast
  <2>4. CallsInTime'
    BY <1>0, <1>6, <2>1 DEF Tick, CallsInTime, InCall
  <2> QED
    BY <2>2, <2>3, <2>4 DEF Bookkeeping
<1>7. CASE LeasesOver \/ UNCHANGED leaseVars
    BY <1>7, CallsGoOn DEF LeasesOver, leaseVars
<1> QED
    BY <1>1, <1>2, <1>3, <1>4, <1>5, <1>6, <1>7, AskBookkeeping, GrantedBookkeeping DEF LeaseNext

(* Nothing a step does changes where a worker's keys are.                  *)
LEMMA HomesStay ==
    ASSUME [LeaseNext]_leaseVars
    PROVE  UNCHANGED <<backend, mode>> /\ \A w : Home(w)' = Home(w)
<1>1. UNCHANGED <<backend, mode>>
    BY DEF LeaseNext, Ask, Acquire, AcquireFails, Granted, Abandon, GiveBack, Release,
           ReleaseFails, TimerFires, TimerFails, ProcessEnds, Tick, LeasesOver, leaseVars
<1> QED
    BY <1>1 DEF Home, ProcessOf

LEMMA StepPendingForever ==
    ASSUME LeaseTypeOK, PendingForever, [LeaseNext]_leaseVars
    PROVE  PendingForever'
<1>1. ASSUME \A v \in Owners : call'[v].pc = "granted" => call'[v] = call[v]
      PROVE  PendingForever'
    BY <1>1, HomesStay DEF PendingForever
<1>2. ASSUME NEW w \in Owners, Acquire(w)
      PROVE  PendingForever'
  <2>1. \A v \in Owners \ {w} : call'[v] = call[v]
    BY <1>2 DEF LeaseTypeOK, Acquire
  <2>2. CASE Taken(w)
    <3>1. call'[w].pc # "granted"
      BY <1>2, <2>2 DEF LeaseTypeOK, Acquire, NoCall
    <3> QED
      BY <1>1, <2>1, <3>1
  <2>3. CASE ~Taken(w)
    <3>1. call'[w].until = Until(w)
      BY <1>2, <2>3, AcquiredCall
    <3>2. backend = "db-state" => Until(w) = Forever
      BY DEF Until, RedisTtl
    <3> QED
      BY <2>1, <3>1, <3>2, HomesStay DEF PendingForever
  <2> QED
    BY <2>2, <2>3
<1>3. ASSUME NEW w \in Owners,
             \/ Ask(w) \/ AcquireFails(w) \/ Granted(w) \/ Abandon(w)
             \/ GiveBack(w) \/ Release(w) \/ ReleaseFails(w)
      PROVE  PendingForever'
  <2>1. \A v \in Owners \ {w} : call'[v] = call[v]
    BY <1>3 DEF LeaseTypeOK, Ask, AcquireFails, Granted, Abandon, GiveBack, Release, ReleaseFails
  <2>2. call'[w].pc # "granted"
    <3>1. call[w] \in Calls
      BY DEF LeaseTypeOK
    <3>2. CASE Ask(w) \/ AcquireFails(w) \/ Abandon(w) \/ Release(w) \/ ReleaseFails(w)
      BY <3>2 DEF LeaseTypeOK, Ask, AcquireFails, Abandon, Release, ReleaseFails, NoCall
    <3>3. CASE Granted(w)
      BY <3>1, <3>3 DEF LeaseTypeOK, Granted, Calls
    <3>4. CASE GiveBack(w)
      BY <3>1, <3>4 DEF LeaseTypeOK, GiveBack, Calls
    <3> QED
      BY <1>3, <3>2, <3>3, <3>4
  <2> QED
    BY <1>1, <2>1, <2>2
<1>4. ASSUME NEW p, ProcessEnds(p)
      PROVE  PendingForever'
    BY <1>1, <1>4 DEF ProcessEnds, NoCall
<1>5. ASSUME UNCHANGED call
      PROVE  PendingForever'
    BY <1>1, <1>5
<1> QED
    BY <1>2, <1>3, <1>4, <1>5 DEF LeaseNext, TimerFires, TimerFails, Tick, LeasesOver, leaseVars

(* A step that leaves the keys of owners alone.                            *)
LEMMA KeysKept ==
    ASSUME KeyLasts, [LeaseNext]_leaseVars,
           \A v \in Owners : Entitled(v)' =>
               /\ Entitled(v) /\ call'[v].token = call[v].token
               /\ call'[v].until <= keys[Home(v)].until
               /\ keys'[Home(v)] = keys[Home(v)]
    PROVE  KeyLasts'
BY HomesStay DEF KeyLasts

LEMMA StepKeyLasts ==
    ASSUME LeaseInv, LeaseTypeOK', [LeaseNext]_leaseVars
    PROVE  KeyLasts'
<1>0. /\ LeaseTypeOK /\ OwnTokens /\ KeyLasts /\ Bookkeeping /\ PendingForever
      /\ clock \in Nat /\ clock' \in Nat
    BY DEF LeaseInv, Bookkeeping, LeaseTypeOK
<1>1. \A v \in Owners : Entitled(v) => call[v].until <= keys[Home(v)].until
    BY <1>0 DEF KeyLasts
<1>2. ASSUME NEW w \in Owners,
             Ask(w) \/ AcquireFails(w) \/ Abandon(w) \/ GiveBack(w) \/ ReleaseFails(w)
      PROVE  KeyLasts'
  <2>1. \A v \in Owners \ {w} : call'[v] = call[v]
    BY <1>0, <1>2 DEF LeaseTypeOK, Ask, AcquireFails, Abandon, GiveBack, ReleaseFails
  <2>2. keys' = keys /\ clock' = clock
    BY <1>2 DEF Ask, AcquireFails, Abandon, GiveBack, ReleaseFails
  <2>3. ~Entitled(w)'
    <3>1. call[w] \in Calls
      BY <1>0 DEF LeaseTypeOK
    <3>2. CASE Ask(w) \/ AcquireFails(w) \/ Abandon(w) \/ ReleaseFails(w)
      BY <1>0, <3>2 DEF LeaseTypeOK, Ask, AcquireFails, Abandon, ReleaseFails, NoCall, Entitled
    <3>3. CASE GiveBack(w)
      BY <1>0, <3>1, <3>3 DEF LeaseTypeOK, GiveBack, Calls, Entitled
    <3> QED
      BY <1>2, <3>2, <3>3
  <2> QED
    BY <1>0, <1>1, <2>1, <2>2, <2>3, KeysKept DEF Entitled
<1>3. ASSUME NEW w \in Owners, Granted(w)
      PROVE  KeyLasts'
  <2>1. \A v \in Owners \ {w} : call'[v] = call[v]
    BY <1>0, <1>3 DEF LeaseTypeOK, Granted
  <2>2. keys' = keys /\ clock' = clock /\ call[w].pc = "granted"
    BY <1>3 DEF Granted
  <2>3. call[w] \in Calls
    BY <1>0 DEF LeaseTypeOK
  <2>4. call'[w].token = call[w].token
    BY <1>0, <1>3, <2>3 DEF LeaseTypeOK, Granted, Calls
  <2>5. CASE backend # "db-state"
    <3>1. call'[w].until = call[w].until
      BY <1>0, <1>3, <2>3, <2>5 DEF LeaseTypeOK, Granted, Calls
    <3> QED
      BY <1>0, <1>1, <2>1, <2>2, <2>4, <3>1, KeysKept DEF Entitled
  <2>6. CASE backend = "db-state"
    <3>1. call'[w].until = clock + TTL /\ call[w].until = Forever
      BY <1>0, <1>3, <2>2, <2>3, <2>6 DEF LeaseTypeOK, Granted, Calls, PendingForever
    <3>2. clock <= MaxTime
      BY <1>0, <2>2 DEF Bookkeeping, CallsInTime, InCall
    <3>3. clock < Forever /\ clock + TTL <= Forever /\ clock + TTL \in Nat
      BY <1>0, <3>2, LeaseConstants DEF Forever
    <3>4. Entitled(w) /\ Forever <= keys[Home(w)].until
      BY <1>1, <2>2, <3>1, <3>3 DEF Entitled
    <3>5. call'[w].until <= keys[Home(w)].until
      <4>1. keys[Home(w)].until \in Nat
        BY <1>0, CallTypes
      <4> QED
        BY <3>1, <3>3, <3>4, <4>1, LeaseConstants
    <3> QED
      BY <1>0, <1>1, <2>1, <2>2, <2>4, <3>4, <3>5, KeysKept DEF Entitled
  <2> QED
    BY <2>5, <2>6
<1>4. ASSUME NEW w \in Owners, Acquire(w)
      PROVE  KeyLasts'
  <2>1. \A v \in Owners \ {w} : call'[v] = call[v]
    BY <1>0, <1>4 DEF LeaseTypeOK, Acquire
  <2>2. clock' = clock /\ call[w].pc = "asking"
    BY <1>4 DEF Acquire
  <2>3. CASE Taken(w)
    <3>1. keys' = keys /\ ~Entitled(w)'
      BY <1>0, <1>4, <2>3 DEF LeaseTypeOK, Acquire, NoCall, Entitled
    <3> QED
      BY <1>0, <1>1, <2>1, <2>2, <3>1, KeysKept DEF Entitled
  <2>4. CASE ~Taken(w)
    <3>1. call'[w].token = call[w].token /\ call'[w].until = Until(w)
      BY <1>0, <1>4, <2>4, AcquiredCall
    <3>2. keys' = [keys EXCEPT ![Home(w)] = [token |-> call[w].token, until |-> Until(w)]]
      BY <1>4, <2>4 DEF Acquire
    <3>3. Now(w) \in Nat /\ Now(w) <= clock /\ Until(w) \in Nat
      BY <1>0, CallTypes, LeaseConstants DEF Now, Until, Bookkeeping, ReadsArePast
    <3>4. ASSUME NEW v \in Owners \ {w}, Entitled(v)
          PROVE  Home(v) # Home(w)
      <4> SUFFICES ASSUME Home(v) = Home(w) PROVE FALSE
        OBVIOUS
      <4>1. /\ keys[Home(w)].token = call[v].token /\ call[v].until <= keys[Home(w)].until
            /\ clock < call[v].until
        BY <1>0, <3>4 DEF KeyLasts, Entitled
      <4>2. call[v].token # NoToken
        BY <1>0, <3>4, BusyToken, LeaseConstants DEF Entitled
      <4>3. keys[Home(w)].until \in Nat /\ call[v].until \in Nat
        BY <1>0, CallTypes
      <4> QED
        BY <1>0, <2>4, <3>3, <4>1, <4>2, <4>3 DEF Taken
    <3> SUFFICES ASSUME NEW v \in Owners, Entitled(v)'
                 PROVE  /\ keys'[Home(v)].token = call'[v].token
                        /\ call'[v].until <= keys'[Home(v)].until
      BY HomesStay DEF KeyLasts
    <3>5. CASE v = w
      BY <1>0, <3>1, <3>2, <3>3, <3>5, HomeType DEF LeaseTypeOK
    <3>6. CASE v # w
      <4>1. Entitled(v) /\ call'[v] = call[v]
        BY <2>1, <2>2, <3>6 DEF Entitled
      <4>2. keys'[Home(v)] = keys[Home(v)]
        BY <1>0, <3>2, <3>4, <3>6, <4>1, HomeType DEF LeaseTypeOK
      <4> QED
        BY <1>0, <4>1, <4>2 DEF KeyLasts
    <3> QED
      BY <3>5, <3>6
  <2> QED
    BY <2>3, <2>4
<1>5. ASSUME NEW w \in Owners, Release(w)
      PROVE  KeyLasts'
  <2>1. \A v \in Owners \ {w} : call'[v] = call[v]
    BY <1>0, <1>5 DEF LeaseTypeOK, Release
  <2>2. clock' = clock /\ call[w].pc = "returning" /\ ~Entitled(w)'
    BY <1>0, <1>5 DEF LeaseTypeOK, Release, NoCall, Entitled
  <2>3. ASSUME NEW v \in Owners \ {w}, Entitled(v)
        PROVE  keys'[Home(v)] = keys[Home(v)]
    <3>1. CASE Home(v) # Home(w)
      BY <1>0, <1>5, <3>1, HomeType DEF Release, LeaseTypeOK
    <3>2. CASE Home(v) = Home(w)
      <4>1. /\ keys[Home(w)].token = call[v].token /\ call[v].until <= keys[Home(w)].until
            /\ clock < call[v].until
        BY <1>0, <2>3, <3>2 DEF KeyLasts, Entitled
      <4>2. call[v].token # call[w].token
        BY <1>0, <2>2, <2>3, BusyToken DEF Entitled
      <4>3. keys[Home(w)].until \in Nat /\ call[v].until \in Nat /\ call[w].now \in Nat
        BY <1>0, CallTypes
      <4>4. ~(keys[Home(w)].until <= call[w].now)
        BY <1>0, <4>1, <4>3 DEF Bookkeeping, ReadsArePast
      <4>5. keys'[Home(w)] = keys[Home(w)]
        BY <1>0, <1>5, <4>1, <4>2, <4>4, HomeType DEF Release, CompareAndDelete, LeaseTypeOK
      <4> QED
        BY <3>2, <4>5
    <3> QED
      BY <3>1, <3>2
  <2> QED
    BY <1>0, <1>1, <2>1, <2>2, <2>3, KeysKept DEF Entitled
<1>6. ASSUME NEW t \in timers, TimerFires(t)
      PROVE  KeyLasts'
  <2>1. call' = call /\ clock' = clock
    BY <1>6 DEF TimerFires
  <2>2. ASSUME NEW v \in Owners, Entitled(v)
        PROVE  keys'[Home(v)] = keys[Home(v)]
    <3>1. CASE Home(v) # Shared
      BY <1>0, <1>6, <3>1 DEF TimerFires, LeaseTypeOK
    <3>2. CASE Home(v) = Shared
      <4>1. keys[Shared].token = call[v].token
        BY <1>0, <2>2, <3>2 DEF KeyLasts
      <4>2. t.token # call[v].token
        <5>1. call[v].pc = "granted" => t.token # call[v].token
          BY <1>0 DEF Bookkeeping, FreshTokens, InCall
        <5>2. call[v].pc = "holding" /\ t.token = call[v].token => call[v].until <= t.due
          BY <1>0 DEF Bookkeeping, TimersWait
        <5>3. t.due \in Nat /\ call[v].until \in Nat /\ t.due <= clock /\ clock < call[v].until
          BY <1>0, <1>6, <2>2, CallTypes DEF LeaseTypeOK, TimerFires, Entitled
        <5>4. ~(call[v].until <= t.due)
          BY <1>0, <5>3
        <5> QED
          BY <2>2, <5>1, <5>2, <5>4 DEF Entitled
      <4>3. keys'[Shared] = keys[Shared]
        BY <1>0, <1>6, <4>1, <4>2, LeaseConstants DEF TimerFires, CompareAndDelete, LeaseTypeOK
      <4> QED
        BY <3>2, <4>3
    <3> QED
      BY <3>1, <3>2
  <2> QED
    BY <1>0, <1>1, <2>1, <2>2, KeysKept DEF Entitled
<1>7. ASSUME NEW p \in Owners \cup {Main}, ProcessEnds(p)
      PROVE  KeyLasts'
  <2>1. clock' = clock /\ keys' = [keys EXCEPT ![p] = Free]
    BY <1>7 DEF ProcessEnds
  <2>2. ASSUME NEW v \in Owners, Entitled(v)'
        PROVE  call'[v] = call[v] /\ ProcessOf(v) # p
    BY <1>7, <2>2 DEF ProcessEnds, NoCall, Entitled
  <2>3. ASSUME NEW v \in Owners, ProcessOf(v) # p
        PROVE  keys'[Home(v)] = keys[Home(v)]
    <3>1. Home(v) # p
      BY <2>3, LeaseConstants DEF Home
    <3> QED
      BY <1>0, <2>1, <3>1 DEF LeaseTypeOK
  <2> QED
    BY <1>0, <1>1, <2>1, <2>2, <2>3, KeysKept DEF Entitled
<1>8. CASE Tick
  <2>1. UNCHANGED <<call, keys>> /\ clock' = clock + 1
    BY <1>8 DEF Tick
  <2>2. \A v \in Owners : Entitled(v)' => Entitled(v)
    <3>1. \A v \in Owners : call[v].until \in Nat
      BY <1>0, CallTypes
    <3> QED
      BY <1>0, <2>1, <3>1 DEF Entitled
  <2> QED
    BY <1>0, <1>1, <2>1, <2>2, KeysKept
<1>9. CASE LeasesOver \/ (\E t \in timers : TimerFails(t)) \/ UNCHANGED leaseVars
  <2>1. UNCHANGED <<call, keys, clock>>
    BY <1>9 DEF LeasesOver, TimerFails, leaseVars
  <2> QED
    BY <1>0, <1>1, <2>1, KeysKept DEF Entitled
<1> QED
    BY <1>2, <1>3, <1>4, <1>5, <1>6, <1>7, <1>8, <1>9 DEF LeaseNext

LEMMA LeaseInitInv == LeaseInit => LeaseInv
<1> SUFFICES ASSUME LeaseInit PROVE LeaseInv
    OBVIOUS
<1>1. LeaseTypeOK
    BY NoCallType DEF LeaseInit, LeaseTypeOK
<1>2. \A w \in Owners : call[w].pc = "idle" /\ call[w].now = 0
    BY DEF LeaseInit, NoCall
<1>3. OwnTokens /\ TimersArePast /\ FreshTokens /\ TimersWait /\ CallsInTime
    BY <1>2 DEF LeaseInit, OwnTokens, TimersArePast, FreshTokens, TimersWait, CallsInTime, InCall
<1>4. ReadsArePast /\ PendingForever /\ KeyLasts /\ MemoryIsThreads
    BY <1>2 DEF LeaseInit, ReadsArePast, PendingForever, KeyLasts, Entitled, MemoryIsThreads
<1> QED
    BY <1>1, <1>3, <1>4 DEF LeaseInv

LEMMA LeaseStepInv == LeaseInv /\ [LeaseNext]_leaseVars => LeaseInv'
<1> SUFFICES ASSUME LeaseInv, [LeaseNext]_leaseVars PROVE LeaseInv'
    OBVIOUS
<1>1. LeaseTypeOK' /\ Bookkeeping'
    BY LeaseStepType, StepBookkeeping DEF LeaseInv, Bookkeeping
<1>2. PendingForever' /\ KeyLasts'
    BY <1>1, StepPendingForever, StepKeyLasts DEF LeaseInv
<1>3. MemoryIsThreads'
    BY HomesStay DEF LeaseInv, MemoryIsThreads
<1> QED
    BY <1>1, <1>2, <1>3 DEF LeaseInv, Bookkeeping

(* The invariant of the leases: the store keeps an owner's key at least as *)
(* long as the owner relies on it, whatever backend, deaths and late       *)
(* releases there are.                                                     *)
THEOREM LeaseInvariant == LeaseSpec => []LeaseInv
BY LeaseInitInv, LeaseStepInv, PTL DEF LeaseSpec

(* Two owners of one key would have to have made the same token.           *)
LEMMA OneOwnerFollows == LeaseInv => OneOwner
<1> SUFFICES ASSUME LeaseInv, backend = "app-lock" => mode = "threads",
                    NEW v \in Owners, NEW w \in Owners, Entitled(v), Entitled(w), v # w
             PROVE  FALSE
    BY DEF OneOwner
<1>1. Home(v) = Home(w)
    BY DEF Home, ProcessOf, InMemory, LeaseInv, MemoryIsThreads
<1>2. call[v].token = call[w].token
    BY <1>1 DEF LeaseInv, KeyLasts
<1> QED
    BY <1>2, BusyToken DEF LeaseInv, Entitled

(* At most one worker is entitled to the resource at a time, for any       *)
(* number of workers and any time to live, on every backend that all       *)
(* workers share: also where the store compares with a time it read before *)
(* it had its lock.                                                        *)
THEOREM LeasesAreExclusive == LeaseSpec => []OneOwner
BY LeaseInvariant, OneOwnerFollows, PTL

-----------------------------------------------------------------------------
(* Short URLs.                                                             *)

(* The simulation in memory has one URL at a time. *)
OneByOne == method = "memory" => \A u, v \in batch : u = v

(* A code in a table is one of its URL's. *)
CodesAreOwn(t) == \A c \in DOMAIN t : \E n \in Attempts : code[t[c]][n] = c

(* Every code that a pending URL has tried is another URL's. *)
TriedAreTaken ==
    \A u \in pending : \A n \in Attempts : n < attempt =>
        code[u][n] \in DOMAIN table /\ table[code[u][n]] # u

(* t keeps every row of s. *)
Keeps(s, t) == \A c \in DOMAIN s : c \in DOMAIN t /\ t[c] = s[c]

(* URLs of earlier batches have committed rows or are counted as failed. *)
DoneAreSaved == Urls \ (input \cup batch) \subseteq Range(saved) \cup failures

(* Attempts belong to a batch, and a program that raised has URLs left. *)
Control ==
    /\ batch = {} => attempt = 0
    /\ raised => pending # {} /\ attempt > MaxRetries /\ method = "postgres"

UrlInv ==
    /\ UrlTypeOK
    /\ OneByOne
    /\ CodesAreOwn(table)
    /\ CodesAreOwn(saved)
    /\ raised \/ TriedAreTaken
    /\ Keeps(saved, table)
    /\ DoneAreSaved
    /\ EveryUrlAnswered
    /\ Control

LEMMA TableType ==
    ASSUME NEW t
    PROVE  t \in Table <=> DOMAIN t \subseteq Codes /\ t \in [DOMAIN t -> Urls]
BY DEF Table

LEMMA UrlConstants ==
    /\ IsFiniteSet(Urls) /\ MaxRetries \in Nat
    /\ BatchSize \in Nat /\ BatchSize >= 1
    /\ Attempts = 0..MaxRetries
BY UrlsAssumption DEF Attempts

LEMMA EmptyTable == Empty \in Table /\ DOMAIN Empty = {} /\ Range(Empty) = {}
<1>1. DOMAIN Empty = {} /\ Range(Empty) = {}
    BY DEF Empty, Range
<1>2. Empty \in [{} -> Urls]
    BY DEF Empty
<1> QED
    BY <1>1, <1>2, TableType

(* The table after an INSERT: the old rows, and a new one for every code   *)
(* that was free.                                                          *)
LEMMA NewRows ==
    ASSUME UrlTypeOK, attempt \in Attempts, NEW S \in SUBSET Urls
    PROVE  LET t == TableWith(S) IN
           /\ t \in Table /\ Keeps(table, t)
           /\ DOMAIN t = DOMAIN table \cup {CodeNow(u) : u \in S}
           /\ \A c \in DOMAIN t \ DOMAIN table : t[c] \in S /\ CodeNow(t[c]) = c
           /\ Range(table) \subseteq Range(t)
<1> DEFINE t == TableWith(S)
<1>1. DOMAIN t = DOMAIN table \cup {CodeNow(u) : u \in S}
    BY DEF TableWith
<1>2. \A c \in DOMAIN table : c \in DOMAIN t /\ t[c] = table[c]
    BY DEF TableWith
<1>3. ASSUME NEW c \in DOMAIN t \ DOMAIN table
      PROVE  t[c] \in S /\ CodeNow(t[c]) = c
  <2>1. \E u \in S : CodeNow(u) = c
    BY <1>1, <1>3
  <2>2. t[c] = CHOOSE u \in S : CodeNow(u) = c
    BY <1>3 DEF TableWith
  <2> QED
    BY <2>1, <2>2
<1>4. DOMAIN table \subseteq Codes /\ \A c \in DOMAIN table : table[c] \in Urls
    BY TableType DEF UrlTypeOK
<1>5. \A u \in S : CodeNow(u) \in Codes
    BY DEF CodeNow, UrlTypeOK
<1>6. DOMAIN t \subseteq Codes /\ \A c \in DOMAIN t : t[c] \in Urls
    BY <1>1, <1>2, <1>3, <1>4, <1>5
<1>7. t = [c \in DOMAIN t |-> t[c]]
    BY DEF TableWith
<1>8. t \in [DOMAIN t -> Urls]
  <2> HIDE DEF t
  <2> QED
    BY <1>6, <1>7
<1>9. t \in Table
  <2> HIDE DEF t
  <2> QED
    BY <1>6, <1>8, TableType
<1>10. Range(table) \subseteq Range(t)
  <2> HIDE DEF t
  <2> QED
    BY <1>2 DEF Range
<1> QED
    BY <1>1, <1>2, <1>3, <1>9, <1>10 DEF Keeps

(* What an attempt does: rows for some of the pending URLs, whose codes    *)
(* were free; what stays pending has met the code of another URL, and the  *)
(* rest has a row.                                                         *)
LEMMA AttemptStep ==
    ASSUME UrlTypeOK, OneByOne, TryAttempt
    PROVE  /\ attempt \in Attempts /\ attempt' = attempt + 1
           /\ UNCHANGED <<method, code, failures, input, batch, raised, saved, runs>>
           /\ table' \in Table /\ Keeps(table, table') /\ Stored \subseteq Stored'
           /\ pending' \subseteq pending
           /\ \A c \in DOMAIN table' \ DOMAIN table :
                 table'[c] \in pending /\ CodeNow(table'[c]) = c
           /\ \A u \in pending' : CodeNow(u) \in DOMAIN table' /\ table'[CodeNow(u)] # u
           /\ pending \ pending' \subseteq Stored'
<1>1. attempt \in Attempts /\ attempt' = attempt + 1
    BY UrlConstants DEF TryAttempt, UrlTypeOK
<1>2. /\ UNCHANGED <<method, code, failures, input, batch, raised, saved, runs>>
      /\ pending \subseteq batch /\ pending \subseteq Urls
    BY DEF TryAttempt, UrlTypeOK
<1>3. ASSUME method = "memory", NEW u \in pending, MemoryInsert(u)
      PROVE  /\ table' \in Table /\ Keeps(table, table') /\ Stored \subseteq Stored'
             /\ pending' \subseteq pending
             /\ \A c \in DOMAIN table' \ DOMAIN table :
                   table'[c] \in pending /\ CodeNow(table'[c]) = c
             /\ \A v \in pending' : CodeNow(v) \in DOMAIN table' /\ table'[CodeNow(v)] # v
             /\ pending \ pending' \subseteq Stored'
  <2>1. pending = {u}
    BY <1>2, <1>3 DEF OneByOne
  <2>2. CASE CodeNow(u) \notin DOMAIN table
    <3>1. table' = TableWith({u}) /\ pending' = {}
      BY <1>3, <2>2 DEF MemoryInsert
    <3>2. {u} \in SUBSET Urls
      BY <1>2
    <3>3. /\ table' \in Table /\ Keeps(table, table') /\ Stored \subseteq Stored'
          /\ DOMAIN table' = DOMAIN table \cup {CodeNow(v) : v \in {u}}
          /\ \A c \in DOMAIN table' \ DOMAIN table :
                table'[c] \in {u} /\ CodeNow(table'[c]) = c
      BY <1>1, <3>1, <3>2, NewRows DEF Stored
    <3>4. CodeNow(u) \in DOMAIN table' \ DOMAIN table
      BY <2>2, <3>3
    <3>5. table'[CodeNow(u)] = u
      BY <3>3, <3>4
    <3>6. u \in Stored'
      BY <3>4, <3>5 DEF Stored, Range
    <3> QED
      BY <2>1, <3>1, <3>3, <3>6
  <2>3. CASE CodeNow(u) \in DOMAIN table
    <3>1. table' = table /\ pending' = IF table[CodeNow(u)] = u THEN {} ELSE {u}
      BY <1>3, <2>3 DEF MemoryInsert
    <3>2. table[CodeNow(u)] = u => u \in Stored'
      BY <2>3, <3>1 DEF Stored, Range
    <3> QED
      BY <2>1, <2>3, <3>1, <3>2 DEF Stored, Keeps, UrlTypeOK
  <2> QED
    BY <2>2, <2>3
<1>4. ASSUME NEW S \in SUBSET pending, Inserts(S), table' = TableWith(S),
             pending' = Collided(TableWith(S))
      PROVE  /\ table' \in Table /\ Keeps(table, table') /\ Stored \subseteq Stored'
             /\ pending' \subseteq pending
             /\ \A c \in DOMAIN table' \ DOMAIN table :
                   table'[c] \in pending /\ CodeNow(table'[c]) = c
             /\ \A v \in pending' : CodeNow(v) \in DOMAIN table' /\ table'[CodeNow(v)] # v
             /\ pending \ pending' \subseteq Stored'
  <2>1. S \in SUBSET Urls
    BY <1>2
  <2>2. /\ table' \in Table /\ Keeps(table, table')
        /\ DOMAIN table' = DOMAIN table \cup {CodeNow(u) : u \in S}
        /\ \A c \in DOMAIN table' \ DOMAIN table : table'[c] \in S /\ CodeNow(table'[c]) = c
        /\ Stored \subseteq Stored'
    BY <1>1, <1>4, <2>1, NewRows DEF Stored
  <2>3. pending' = {u \in pending : CodeNow(u) \in DOMAIN table' /\ table'[CodeNow(u)] # u}
    BY <1>4 DEF Collided
  <2>4. ASSUME NEW u \in pending, u \notin pending'
        PROVE  u \in Stored'
    <3>1. CodeNow(u) \in DOMAIN table' => table'[CodeNow(u)] = u
      BY <2>3, <2>4
    <3>2. CASE CodeNow(u) \in DOMAIN table'
      BY <3>1, <3>2 DEF Stored, Range
    <3>3. CASE CodeNow(u) \notin DOMAIN table'
      <4>1. u \notin S /\ CodeNow(u) \notin DOMAIN table
        BY <2>2, <3>3
      <4>2. ~Admissible(S \cup {u}) /\ Admissible(S)
        BY <1>4, <4>1 DEF Inserts
      <4>3. \A v \in S : CodeNow(v) # CodeNow(u)
        BY <2>2, <3>3
      <4>4. u \in Stored
        BY <4>1, <4>2, <4>3 DEF Admissible
      <4> QED
        BY <2>2, <4>4
    <3> QED
      BY <3>2, <3>3
  <2> QED
    BY <2>2, <2>3, <2>4
<1>5. CASE method = "memory" /\ \E u \in pending : MemoryInsert(u)
    BY <1>1, <1>2, <1>3, <1>5
<1>6. CASE method = "postgres" /\ PostgresInsert
    BY <1>1, <1>2, <1>4, <1>6 DEF PostgresInsert
<1> QED
    BY <1>5, <1>6 DEF TryAttempt

(* Rows of other codes, each its URL's own, leave what is known of tried   *)
(* codes and of committed rows as it is.                                   *)
LEMMA StepAttempt ==
    ASSUME UrlInv, TryAttempt
    PROVE  UrlInv'
<1>1. /\ UrlTypeOK /\ OneByOne /\ CodesAreOwn(table) /\ CodesAreOwn(saved)
      /\ Keeps(saved, table) /\ DoneAreSaved /\ EveryUrlAnswered /\ Control
    BY DEF UrlInv
<1>2. /\ attempt \in Attempts /\ attempt' = attempt + 1
      /\ UNCHANGED <<method, code, failures, input, batch, raised, saved, runs>>
      /\ table' \in Table /\ Keeps(table, table') /\ Stored \subseteq Stored'
      /\ pending' \subseteq pending
      /\ \A c \in DOMAIN table' \ DOMAIN table :
            table'[c] \in pending /\ CodeNow(table'[c]) = c
      /\ \A u \in pending' : CodeNow(u) \in DOMAIN table' /\ table'[CodeNow(u)] # u
      /\ pending \ pending' \subseteq Stored'
    BY <1>1, AttemptStep
<1>3. attempt <= MaxRetries /\ pending # {} /\ attempt \in Nat
    BY <1>2, UrlConstants DEF TryAttempt
<1>4. ~raised /\ TriedAreTaken
    BY <1>1, <1>3, UrlConstants DEF Control, UrlInv
<1>5. UrlTypeOK'
  <2>1. attempt' \in 0..(MaxRetries + 1)
    BY <1>2, UrlConstants
  <2> QED
    BY <1>1, <1>2, <2>1 DEF UrlTypeOK
<1>6. OneByOne' /\ Keeps(saved, table)' /\ DoneAreSaved'
    BY <1>1, <1>2 DEF OneByOne, Keeps, DoneAreSaved
<1>7. CodesAreOwn(table)'
  <2> SUFFICES ASSUME NEW c \in DOMAIN table'
               PROVE  \E n \in Attempts : code[table'[c]][n] = c
    BY <1>2 DEF CodesAreOwn
  <2>1. CASE c \in DOMAIN table
    BY <1>1, <1>2, <2>1 DEF CodesAreOwn, Keeps
  <2>2. CASE c \notin DOMAIN table
    BY <1>2, <2>2 DEF CodeNow
  <2> QED
    BY <2>1, <2>2
<1>8. TriedAreTaken'
  <2> SUFFICES ASSUME NEW u \in pending', NEW n \in Attempts, n < attempt'
               PROVE  code[u][n] \in DOMAIN table' /\ table'[code[u][n]] # u
    BY <1>2 DEF TriedAreTaken
  <2>1. CASE n < attempt
    BY <1>2, <1>4, <2>1 DEF TriedAreTaken, Keeps
  <2>2. CASE n = attempt
    BY <1>2, <2>2 DEF CodeNow
  <2>3. n \in Nat /\ attempt \in Nat
    BY <1>2, UrlConstants
  <2> QED
    BY <1>2, <2>1, <2>2, <2>3
<1>9. EveryUrlAnswered'
  <2>1. Urls \ (input \cup batch) \subseteq Stored \cup failures /\ batch \ pending \subseteq Stored
    BY <1>1, <1>4 DEF EveryUrlAnswered
  <2>2. batch \ pending' \subseteq Stored'
    BY <1>2, <2>1
  <2> QED
    BY <1>2, <2>1, <2>2 DEF EveryUrlAnswered
<1>10. CodesAreOwn(saved)' /\ Control'
  <2>1. batch # {}
    BY <1>1, <1>3 DEF UrlTypeOK
  <2> QED
    BY <1>1, <1>2, <1>4, <2>1 DEF CodesAreOwn, Control
<1> QED
    BY <1>5, <1>6, <1>7, <1>8, <1>9, <1>10 DEF UrlInv

(* A URL that has used up its attempts is not in the table: every row of   *)
(* its would have a code that it tried and found another URL's.            *)
LEMMA UsedUp ==
    ASSUME UrlInv, attempt > MaxRetries, ~raised, NEW u \in pending
    PROVE  u \notin Stored /\ \A n \in Attempts : code[u][n] \in DOMAIN table
<1>1. UrlTypeOK /\ CodesAreOwn(table) /\ TriedAreTaken
    BY DEF UrlInv
<1>2. \A n \in Attempts : n < attempt
    BY <1>1, UrlConstants DEF UrlTypeOK
<1>3. \A n \in Attempts : code[u][n] \in DOMAIN table /\ table[code[u][n]] # u
    BY <1>1, <1>2 DEF TriedAreTaken
<1>4. \A c \in DOMAIN table : table[c] # u
    BY <1>1, <1>3 DEF CodesAreOwn
<1> QED
    BY <1>3, <1>4 DEF Stored, Range

LEMMA StepCommit ==
    ASSUME UrlInv, CommitBatch
    PROVE  UrlInv'
<1>1. UrlTypeOK /\ CodesAreOwn(table) /\ EveryUrlAnswered /\ Control
    BY DEF UrlInv
<1>2. /\ UNCHANGED <<method, code, table, input, raised, runs>>
      /\ failures' = failures \cup pending /\ batch' = {} /\ pending' = {}
      /\ attempt' = 0 /\ saved' = table
      /\ pending = {} \/ method = "memory"
    BY DEF CommitBatch
<1>3. ~raised
    BY <1>1, <1>2 DEF Control
<1>4. UrlTypeOK'
  <2>1. Cardinality(batch') = 0 /\ 0 \in 0..(MaxRetries + 1)
    BY <1>2, FS_EmptySet, UrlConstants
  <2>2. saved' \in Table /\ failures' \subseteq Urls
    BY <1>1, <1>2 DEF UrlTypeOK
  <2> QED
    BY <1>1, <1>2, <2>1, <2>2, UrlConstants DEF UrlTypeOK
<1>5. Urls \ input \subseteq Range(table) \cup failures'
  <2>1. /\ Urls \ (input \cup batch) \subseteq Range(table) \cup failures
        /\ batch \ pending \subseteq Range(table)
    BY <1>1, <1>3 DEF EveryUrlAnswered, Stored
  <2> QED
    BY <1>2, <2>1
<1>6. DoneAreSaved' /\ EveryUrlAnswered'
    BY <1>2, <1>5 DEF DoneAreSaved, EveryUrlAnswered, Stored
<1>7. OneByOne' /\ TriedAreTaken' /\ Control'
    BY <1>2, <1>3 DEF OneByOne, TriedAreTaken, Control
<1>8. CodesAreOwn(table)' /\ CodesAreOwn(saved)' /\ Keeps(saved, table)'
    BY <1>1, <1>2 DEF CodesAreOwn, Keeps
<1> QED
    BY <1>4, <1>6, <1>7, <1>8 DEF UrlInv

(* The batch is rolled back: what earlier batches did is committed.        *)
LEMMA StepRaises ==
    ASSUME UrlInv, BatchRaises
    PROVE  UrlInv'
<1>1. UrlTypeOK /\ OneByOne /\ CodesAreOwn(saved) /\ DoneAreSaved /\ Control
    BY DEF UrlInv
<1>2. /\ UNCHANGED <<method, code, failures, input, batch, pending, attempt, saved, runs>>
      /\ table' = saved /\ raised' = TRUE
      /\ method = "postgres" /\ pending # {} /\ attempt > MaxRetries
    BY DEF BatchRaises
<1>3. UrlTypeOK' /\ OneByOne'
    BY <1>1, <1>2 DEF UrlTypeOK, OneByOne
<1>4. CodesAreOwn(table)' /\ CodesAreOwn(saved)' /\ Keeps(saved, table)'
    BY <1>1, <1>2 DEF CodesAreOwn, Keeps
<1>5. DoneAreSaved' /\ EveryUrlAnswered'
    BY <1>1, <1>2 DEF DoneAreSaved, EveryUrlAnswered, Stored
<1>6. Control'
    BY <1>1, <1>2 DEF Control
<1> QED
    BY <1>2, <1>3, <1>4, <1>5, <1>6 DEF UrlInv

LEMMA StepNextBatch ==
    ASSUME UrlInv, NextBatch
    PROVE  UrlInv'
<1>1. /\ UrlTypeOK /\ EveryUrlAnswered /\ CodesAreOwn(table) /\ CodesAreOwn(saved)
      /\ Keeps(saved, table) /\ DoneAreSaved /\ Control
    BY DEF UrlInv
<1>2. PICK urls \in (SUBSET input) \ {{}} :
          IsNextBatch(urls) /\ batch' = urls /\ pending' = urls /\ input' = input \ urls
    BY DEF NextBatch
<1>3. batch = {} /\ UNCHANGED <<method, code, table, failures, attempt, raised, saved, runs>>
    BY DEF NextBatch
<1>4. urls \subseteq Urls /\ IsFiniteSet(urls) /\ urls # {}
  <2>1. urls \subseteq Urls /\ urls # {}
    BY <1>1, <1>2 DEF UrlTypeOK
  <2> QED
    BY <2>1, UrlConstants, FS_Subset
<1>5. pending = {} /\ ~raised /\ attempt = 0
    BY <1>1, <1>3 DEF UrlTypeOK, Control
<1>6. UrlTypeOK'
  <2>1. Cardinality(urls) <= IF method = "memory" THEN 1 ELSE BatchSize
    BY <1>2, UrlConstants DEF IsNextBatch
  <2> QED
    BY <1>1, <1>2, <1>3, <1>4, <2>1 DEF UrlTypeOK
<1>7. OneByOne'
  <2> SUFFICES ASSUME method = "memory"
               PROVE  \A u, v \in urls : u = v
    BY <1>2, <1>3 DEF OneByOne
  <2>1. Cardinality(urls) = 1
    BY <1>2 DEF IsNextBatch
  <2>2. \E x : urls = {x}
    BY <1>4, <2>1, FS_Singleton
  <2> QED
    BY <2>2
<1>8. TriedAreTaken'
    BY <1>3, <1>5, UrlConstants DEF TriedAreTaken
<1>9. EveryUrlAnswered' /\ DoneAreSaved' /\ Control'
  <2>1. input' \cup batch' = input \cup batch
    BY <1>2, <1>3
  <2> QED
    BY <1>1, <1>2, <1>3, <1>4, <1>5, <2>1 DEF EveryUrlAnswered, DoneAreSaved, Control, Stored
<1>10. CodesAreOwn(table)' /\ CodesAreOwn(saved)' /\ Keeps(saved, table)'
    BY <1>1, <1>3 DEF CodesAreOwn, Keeps
<1> QED
    BY <1>6, <1>7, <1>8, <1>9, <1>10 DEF UrlInv

LEMMA StepNextRun ==
    ASSUME UrlInv, NextRun
    PROVE  UrlInv'
<1>1. UrlTypeOK /\ CodesAreOwn(saved)
    BY DEF UrlInv
<1>2. /\ UNCHANGED <<method, code, failures, saved>> /\ runs' = runs + 1
      /\ table' = saved /\ input' = Urls /\ batch' = {} /\ pending' = {} /\ attempt' = 0
      /\ raised' = FALSE
    BY DEF NextRun
<1>3. UrlTypeOK'
  <2>1. /\ Cardinality(batch') <= IF method' = "memory" THEN 1 ELSE BatchSize
        /\ attempt' \in 0..(MaxRetries + 1)
    <3>1. Cardinality(batch') = 0 /\ attempt' = 0
      BY <1>2, FS_EmptySet
    <3>2. 0 \in 0..(MaxRetries + 1)
      BY UrlConstants
    <3>3. 0 <= IF method' = "memory" THEN 1 ELSE BatchSize
      BY UrlConstants
    <3> QED
      BY <3>1, <3>2, <3>3
  <2>2. /\ table' \in Table /\ saved' \in Table /\ runs' \in Nat
        /\ input' \subseteq Urls /\ batch' \subseteq Urls /\ pending' \subseteq batch'
    BY <1>1, <1>2 DEF UrlTypeOK
  <2>3. /\ method' \in {"memory", "postgres"} /\ code' \in [Urls -> [Attempts -> Codes]]
        /\ failures' \subseteq Urls
    BY <1>1, <1>2 DEF UrlTypeOK
  <2>4. raised' \in BOOLEAN
    BY <1>2
  <2> QED
    BY <2>1, <2>2, <2>3, <2>4 DEF UrlTypeOK
<1>4. CodesAreOwn(table)' /\ CodesAreOwn(saved)' /\ Keeps(saved, table)'
    BY <1>1, <1>2 DEF CodesAreOwn, Keeps
<1>5. OneByOne' /\ TriedAreTaken' /\ EveryUrlAnswered' /\ DoneAreSaved' /\ Control'
    BY <1>2 DEF OneByOne, TriedAreTaken, EveryUrlAnswered, DoneAreSaved, Control
<1> QED
    BY <1>3, <1>4, <1>5 DEF UrlInv

LEMMA UrlInitInv == UrlInit => UrlInv
<1> SUFFICES ASSUME UrlInit PROVE UrlInv
    OBVIOUS
<1>1. /\ table = Empty /\ saved = Empty /\ failures = {} /\ raised = FALSE
      /\ batch = {} /\ pending = {} /\ input = Urls /\ attempt = 0
    BY DEF UrlInit
<1>2. UrlTypeOK
  <2>1. /\ Cardinality(batch) <= IF method = "memory" THEN 1 ELSE BatchSize
        /\ attempt \in 0..(MaxRetries + 1)
    BY <1>1, FS_EmptySet, UrlConstants
  <2>2. method \in {"memory", "postgres"} /\ code \in [Urls -> [Attempts -> Codes]] /\ runs \in Nat
    BY DEF UrlInit
  <2>3. /\ table \in Table /\ saved \in Table /\ raised \in BOOLEAN /\ failures \subseteq Urls
        /\ input \subseteq Urls /\ batch \subseteq Urls /\ pending \subseteq batch
    BY <1>1, EmptyTable
  <2> QED
    BY <2>1, <2>2, <2>3 DEF UrlTypeOK
<1>3. CodesAreOwn(table) /\ CodesAreOwn(saved) /\ Keeps(saved, table)
    BY <1>1, EmptyTable DEF CodesAreOwn, Keeps
<1>4. OneByOne /\ TriedAreTaken /\ EveryUrlAnswered /\ DoneAreSaved /\ Control
    BY <1>1 DEF OneByOne, TriedAreTaken, EveryUrlAnswered, DoneAreSaved, Control
<1> QED
    BY <1>2, <1>3, <1>4 DEF UrlInv

LEMMA UrlStepInv == UrlInv /\ [UrlNext]_urlVars => UrlInv'
<1> SUFFICES ASSUME UrlInv, [UrlNext]_urlVars PROVE UrlInv'
    OBVIOUS
<1>1. CASE Finished \/ UNCHANGED urlVars
  <2>1. UNCHANGED urlVars
    BY <1>1 DEF Finished
  <2> QED
    BY <2>1 DEF UrlInv, urlVars, UrlTypeOK, OneByOne, CodesAreOwn, TriedAreTaken,
           Keeps, DoneAreSaved, EveryUrlAnswered, Control, Stored
<1> QED
    BY <1>1, StepAttempt, StepCommit, StepRaises, StepNextBatch, StepNextRun DEF UrlNext

(* The invariant of the short URLs: the tables of the transaction and as   *)
(* committed, and what is known of the URLs of the batch and of those      *)
(* before it, also after a program that raised and for any hashes.         *)
THEOREM UrlInvariant == UrlSpec => []UrlInv
BY UrlInitInv, UrlStepInv, PTL DEF UrlSpec

(* Whatever the hashes, the batches and the programs that ended or raised, *)
(* the URLs of earlier batches have a code or are counted as failed, and   *)
(* in the batch under way those that are tried no more have a code.        *)
THEOREM UrlsAreAnswered == UrlSpec => []EveryUrlAnswered
<1>1. UrlInv => EveryUrlAnswered
    BY DEF UrlInv
<1> QED
    BY <1>1, UrlInvariant, PTL

(* A URL is counted as failed, or is what PostgreSQL's program raises for, *)
(* only when every code that it could have is another's: by UsedUp.        *)
THEOREM UrlFailuresAreReal == UrlSpec => FailuresAreReal
<1> DEFINE Real == \A u \in GivenUp' \ GivenUp :
                      /\ u \notin Stored
                      /\ \A n \in Attempts : code[u][n] \in DOMAIN table
<1>1. UrlInv /\ [UrlNext]_urlVars => [Real]_urlVars
  <2> SUFFICES ASSUME UrlInv, UrlNext, NEW u \in GivenUp' \ GivenUp
               PROVE  u \notin Stored /\ \A n \in Attempts : code[u][n] \in DOMAIN table
    OBVIOUS
  <2>1. u \in pending /\ attempt > MaxRetries /\ ~raised
    <3>1. CASE CommitBatch
      <4>1. u \in pending /\ method = "memory" /\ attempt > MaxRetries
        BY <3>1 DEF CommitBatch, GivenUp
      <4> QED
        BY <4>1 DEF UrlInv, Control
    <3>2. CASE BatchRaises
      BY <3>2 DEF BatchRaises, GivenUp
    <3>3. CASE NextBatch \/ TryAttempt
      <4>1. failures' = failures /\ raised' = raised /\ ~raised
        BY <3>3, UrlConstants DEF NextBatch, TryAttempt, UrlInv, Control, UrlTypeOK
      <4> QED
        BY <4>1 DEF GivenUp
    <3>4. CASE NextRun
      BY <3>4 DEF NextRun, GivenUp
    <3>5. CASE Finished
      BY <3>5 DEF Finished, urlVars, GivenUp
    <3> QED
      BY <3>1, <3>2, <3>3, <3>4, <3>5 DEF UrlNext
  <2> QED
    BY <2>1, UsedUp
<1> QED
    BY <1>1, UrlInvariant, PTL DEF UrlSpec, FailuresAreReal

(* A committed short URL leads to its URL for ever: a batch only adds      *)
(* rows, and a new program begins with the rows that were committed.       *)
THEOREM CommittedCodesStay == UrlSpec => CodesNeverMove
<1> DEFINE Stays == \A c \in DOMAIN saved : c \in DOMAIN saved' /\ saved'[c] = saved[c]
<1>1. UrlInv /\ [UrlNext]_urlVars => [Stays]_urlVars
  <2> SUFFICES ASSUME UrlInv, UrlNext PROVE Stays \/ UNCHANGED urlVars
    OBVIOUS
  <2>1. CASE CommitBatch
    BY <2>1 DEF CommitBatch, UrlInv, Keeps
  <2>2. CASE ~CommitBatch
    <3>1. saved' = saved
      BY <2>2 DEF UrlNext, NextBatch, TryAttempt, BatchRaises, NextRun, Finished, urlVars
    <3> QED
      BY <3>1
  <2> QED
    BY <2>1, <2>2
<1> QED
    BY <1>1, UrlInvariant, PTL DEF UrlSpec, CodesNeverMove

-----------------------------------------------------------------------------
(* Likes.                                                                  *)

(* The steps of an operation are those of the store it runs against. *)
StepsOfStore ==
    \A r \in Requests :
        /\ op[r].pc = "stored" => likeStore = "dynamodb"
        /\ op[r].pc \in {"inserted", "updated"} => likeStore = "postgres"
        /\ op[r].pc = "locked" => likeStore = "row-lock"
        /\ op[r].delta = -1 => likeStore = "dynamodb"

(* Two transactions insert different rows, and neither is committed. *)
InTransaction == At({"inserted", "updated"})
TransactionsApart ==
    \A r \in InTransaction :
        /\ Row(r) \notin likes
        /\ \A s \in InTransaction : Row(r) = Row(s) => r = s

LikeInv == LikeTypeOK /\ StepsOfStore /\ TransactionsApart /\ CountersMatchRows

(* The three sets a counter is compared with. *)
Answered(p) == {r \in At({"ok"}) : op[r].post = p}
RowsOf(p) == {row \in likes : row[2] = p}

LEMMA LikeConstants ==
    /\ IsFiniteSet(Requests) /\ IsFiniteSet(Users) /\ IsFiniteSet(Posts)
    /\ PoolSize \in Nat /\ PoolSize >= 1 /\ MaxFaults \in Nat
BY LikesAssumption

LEMMA CountedSets ==
    ASSUME NEW p
    PROVE  Counted(p) = IF likeStore = "row-lock" THEN Cardinality(Answered(p))
                                                  ELSE Cardinality(RowsOf(p))
BY DEF Counted, Answered, RowsOf

LEMMA LikeSetsFinite ==
    ASSUME LikeTypeOK, NEW p
    PROVE  /\ IsFiniteSet(Active)
           /\ IsFiniteSet(Answered(p)) /\ IsFiniteSet(RowsOf(p))
           /\ IsFiniteSet(Halfway(p, 1)) /\ IsFiniteSet(Halfway(p, -1))
<1>1. \A S : S \subseteq Requests => IsFiniteSet(S)
    BY LikeConstants, FS_Subset
<1>2. IsFiniteSet(Users \X Posts)
    BY LikeConstants, FS_Product
<1>3. IsFiniteSet(RowsOf(p))
    BY <1>2, FS_Subset DEF LikeTypeOK, RowsOf
<1> QED
    BY <1>1, <1>3 DEF Active, Answered, Halfway, At

LEMMA LikeCounts ==
    ASSUME LikeTypeOK, NEW p \in Posts
    PROVE  Counted(p) \in Nat /\ Owed(p) \in Int /\ counts[p] \in Int /\ faults \in Nat
<1>1. /\ Cardinality(Answered(p)) \in Nat /\ Cardinality(RowsOf(p)) \in Nat
      /\ Cardinality(Halfway(p, 1)) \in Nat /\ Cardinality(Halfway(p, -1)) \in Nat
    BY LikeSetsFinite, FS_CardinalityType
<1> QED
    BY <1>1, CountedSets DEF Owed, LikeTypeOK

(* What a step of one operation leaves to the others.                      *)
LEMMA OpMoves ==
    ASSUME LikeTypeOK, NEW r \in Requests, NEW step \in OpSteps, GoTo(r, step)
    PROVE  /\ op' \in [Requests -> Ops]
           /\ op'[r].pc = step /\ op'[r].user = op[r].user
           /\ op'[r].post = op[r].post /\ op'[r].delta = op[r].delta
           /\ \A s \in Requests \ {r} : op'[s] = op[s]
           /\ \A s \in Requests : Row(s)' = Row(s) /\ op'[s].post = op[s].post
                                                   /\ op'[s].delta = op[s].delta
<1>1. op[r] \in Ops
    BY DEF LikeTypeOK
<1>2. op'[r] = [op[r] EXCEPT !.pc = step] /\ \A s \in Requests \ {r} : op'[s] = op[s]
    BY DEF GoTo, LikeTypeOK
<1>3. op'[r].pc = step /\ op'[r].user = op[r].user
      /\ op'[r].post = op[r].post /\ op'[r].delta = op[r].delta
    BY <1>1, <1>2 DEF Ops
<1>4. op' \in [Requests -> Ops]
    BY <1>1, <1>2 DEF GoTo, LikeTypeOK, Ops
<1> QED
    BY <1>2, <1>3, <1>4 DEF Row

LEMMA OpType ==
    ASSUME LikeTypeOK, NEW r \in Requests
    PROVE  /\ op[r].post \in Posts /\ op[r].user \in Users /\ op[r].delta \in {1, -1}
           /\ op[r].pc \in OpSteps /\ Row(r) \in Users \X Posts /\ Row(r)[2] = op[r].post
BY DEF LikeTypeOK, Ops, Row

(* An operation that has a thread keeps to the pool's size. *)
LEMMA PoolKept ==
    ASSUME LikeTypeOK, NEW r \in Requests, NEW step \in OpSteps, GoTo(r, step),
           op[r].pc \in {"new", "ok", "refused", "failed"} => Cardinality(Active) < PoolSize
    PROVE  Cardinality(Active') <= PoolSize
<1>1. IsFiniteSet(Active)
    BY LikeSetsFinite
<1>2. Active' \subseteq Active \cup {r}
    BY OpMoves DEF Active
<1>3. Cardinality(Active) \in Nat /\ Cardinality(Active) <= PoolSize
    BY <1>1, FS_CardinalityType DEF LikeTypeOK
<1>4. CASE op[r].pc \in {"new", "ok", "refused", "failed"}
  <2>1. r \notin Active
    BY <1>4 DEF Active
  <2>2. IsFiniteSet(Active \cup {r}) /\ Cardinality(Active \cup {r}) = Cardinality(Active) + 1
    BY <1>1, <2>1, FS_AddElement
  <2>3. Cardinality(Active') <= Cardinality(Active \cup {r}) /\ IsFiniteSet(Active')
    BY <1>2, <2>2, FS_Subset
  <2>4. Cardinality(Active') \in Nat
    BY <2>3, FS_CardinalityType
  <2> QED
    BY <1>3, <1>4, <2>2, <2>3, <2>4, LikeConstants
<1>5. CASE ~(op[r].pc \in {"new", "ok", "refused", "failed"})
  <2>1. Active' \subseteq Active
    BY <1>2, <1>5 DEF Active
  <2>2. Cardinality(Active') <= Cardinality(Active) /\ IsFiniteSet(Active')
    BY <1>1, <2>1, FS_Subset
  <2>3. Cardinality(Active') \in Nat
    BY <2>2, FS_CardinalityType
  <2> QED
    BY <1>3, <2>2, <2>3, LikeConstants
<1> QED
    BY <1>4, <1>5

(* A row more or less is one like more or less of its post. *)
LEMMA RowsAfter ==
    ASSUME LikeTypeOK, NEW row \in Users \X Posts, NEW p
    PROVE  /\ row \notin likes /\ likes' = likes \cup {row} =>
                  Cardinality(RowsOf(p)') = Cardinality(RowsOf(p)) + (IF row[2] = p THEN 1 ELSE 0)
           /\ row \in likes /\ likes' = likes \ {row} =>
                  Cardinality(RowsOf(p)') = Cardinality(RowsOf(p)) - (IF row[2] = p THEN 1 ELSE 0)
<1>1. IsFiniteSet(RowsOf(p)) /\ Cardinality(RowsOf(p)) \in Nat
    BY LikeSetsFinite, FS_CardinalityType
<1>2. ASSUME row \notin likes, likes' = likes \cup {row}
      PROVE  Cardinality(RowsOf(p)') = Cardinality(RowsOf(p)) + (IF row[2] = p THEN 1 ELSE 0)
  <2>1. CASE row[2] = p
    <3>1. RowsOf(p)' = RowsOf(p) \cup {row} /\ row \notin RowsOf(p)
      BY <1>2, <2>1 DEF RowsOf
    <3> QED
      BY <1>1, <2>1, <3>1, FS_AddElement
  <2>2. CASE row[2] # p
    <3>1. RowsOf(p)' = RowsOf(p)
      BY <1>2, <2>2 DEF RowsOf
    <3> QED
      BY <1>1, <2>2, <3>1
  <2> QED
    BY <2>1, <2>2
<1>3. ASSUME row \in likes, likes' = likes \ {row}
      PROVE  Cardinality(RowsOf(p)') = Cardinality(RowsOf(p)) - (IF row[2] = p THEN 1 ELSE 0)
  <2>1. CASE row[2] = p
    <3>1. RowsOf(p)' = RowsOf(p) \ {row} /\ row \in RowsOf(p)
      BY <1>3, <2>1 DEF RowsOf
    <3> QED
      BY <1>1, <2>1, <3>1, FS_RemoveElement
  <2>2. CASE row[2] # p
    <3>1. RowsOf(p)' = RowsOf(p)
      BY <1>3, <2>2 DEF RowsOf
    <3> QED
      BY <1>1, <2>2, <3>1
  <2> QED
    BY <2>1, <2>2
<1> QED
    BY <1>2, <1>3

(* An operation enters or leaves the half way of its post and its delta.   *)
LEMMA HalfwayAfter ==
    ASSUME LikeTypeOK, NEW r \in Requests, NEW step \in OpSteps, GoTo(r, step),
           NEW p, NEW d \in {1, -1}
    PROVE  LET n == IF op[r].post = p /\ op[r].delta = d THEN 1 ELSE 0 IN
           /\ op[r].pc # "stored" /\ step = "stored" =>
                  Cardinality(Halfway(p, d)') = Cardinality(Halfway(p, d)) + n
           /\ op[r].pc = "stored" /\ step # "stored" =>
                  Cardinality(Halfway(p, d)') = Cardinality(Halfway(p, d)) - n
           /\ op[r].pc # "stored" /\ step # "stored" =>
                  Cardinality(Halfway(p, d)') = Cardinality(Halfway(p, d))
<1>1. IsFiniteSet(Halfway(p, d)) /\ Cardinality(Halfway(p, d)) \in Nat
    BY LikeSetsFinite, FS_CardinalityType
<1>2. /\ op'[r].pc = step /\ op'[r].post = op[r].post /\ op'[r].delta = op[r].delta
      /\ \A s \in Requests \ {r} : op'[s] = op[s]
    BY OpMoves
<1>3. CASE ~(op[r].post = p /\ op[r].delta = d)
  <2>1. Halfway(p, d)' = Halfway(p, d)
    BY <1>2, <1>3 DEF Halfway, At
  <2> QED
    BY <1>1, <1>3, <2>1
<1>4. CASE op[r].post = p /\ op[r].delta = d
  <2>1. CASE op[r].pc # "stored" /\ step = "stored"
    <3>1. Halfway(p, d)' = Halfway(p, d) \cup {r} /\ r \notin Halfway(p, d)
      BY <1>2, <1>4, <2>1 DEF Halfway, At
    <3> QED
      BY ZenonT(60), <1>1, <1>4, <2>1, <3>1, FS_AddElement
  <2>2. CASE op[r].pc = "stored" /\ step # "stored"
    <3>1. Halfway(p, d)' = Halfway(p, d) \ {r} /\ r \in Halfway(p, d)
      BY <1>2, <1>4, <2>2 DEF Halfway, At
    <3> QED
      BY SMTT(30), <1>1, <1>4, <2>2, <3>1, FS_RemoveElement
  <2>3. CASE op[r].pc # "stored" /\ step # "stored"
    <3>1. Halfway(p, d)' = Halfway(p, d)
      BY <1>2, <1>4, <2>3 DEF Halfway, At
    <3> QED
      BY <2>3, <3>1
  <2> QED
    BY <2>1, <2>2, <2>3
<1> QED
    BY <1>3, <1>4

LEMMA OwedAfter ==
    ASSUME LikeTypeOK, NEW r \in Requests, NEW step \in OpSteps, GoTo(r, step), NEW p \in Posts
    PROVE  LET n == IF op[r].post = p THEN op[r].delta ELSE 0 IN
           /\ op[r].pc # "stored" /\ step = "stored" => Owed(p)' = Owed(p) + n
           /\ op[r].pc = "stored" /\ step # "stored" => Owed(p)' = Owed(p) - n
           /\ op[r].pc # "stored" /\ step # "stored" => Owed(p)' = Owed(p)
<1> DEFINE up == Cardinality(Halfway(p, 1))
           down == Cardinality(Halfway(p, -1))
           n(d) == IF op[r].post = p /\ op[r].delta = d THEN 1 ELSE 0
<1>1. up \in Nat /\ down \in Nat
    BY LikeSetsFinite, FS_CardinalityType
<1>2. /\ op[r].pc # "stored" /\ step = "stored" => up' = up + n(1)
      /\ op[r].pc = "stored" /\ step # "stored" => up' = up - n(1)
      /\ op[r].pc # "stored" /\ step # "stored" => up' = up
    BY HalfwayAfter
<1>3. /\ op[r].pc # "stored" /\ step = "stored" => down' = down + n(-1)
      /\ op[r].pc = "stored" /\ step # "stored" => down' = down - n(-1)
      /\ op[r].pc # "stored" /\ step # "stored" => down' = down
    BY HalfwayAfter
<1>4. Owed(p) = up - down /\ Owed(p)' = up' - down'
    BY DEF Owed
<1>5. op[r].delta = 1 \/ op[r].delta = -1
    BY OpType
<1>6. /\ n(1) = IF op[r].post = p /\ op[r].delta = 1 THEN 1 ELSE 0
      /\ n(-1) = IF op[r].post = p /\ op[r].delta = -1 THEN 1 ELSE 0
    OBVIOUS
<1> HIDE DEF up, down, n
<1> QED
    BY <1>1, <1>2, <1>3, <1>4, <1>5, <1>6

LEMMA AnsweredAfter ==
    ASSUME LikeTypeOK, NEW r \in Requests, NEW step \in OpSteps, GoTo(r, step),
           op[r].pc # "ok", NEW p
    PROVE  Cardinality(Answered(p)') =
               Cardinality(Answered(p)) + (IF step = "ok" /\ op[r].post = p THEN 1 ELSE 0)
<1>1. IsFiniteSet(Answered(p)) /\ Cardinality(Answered(p)) \in Nat
    BY LikeSetsFinite, FS_CardinalityType
<1>2. /\ op'[r].pc = step /\ op'[r].post = op[r].post
      /\ \A s \in Requests \ {r} : op'[s] = op[s]
    BY OpMoves
<1>3. CASE step = "ok" /\ op[r].post = p
  <2>1. Answered(p)' = Answered(p) \cup {r} /\ r \notin Answered(p)
    BY <1>2, <1>3 DEF Answered, At
  <2> QED
    BY <1>1, <1>3, <2>1, FS_AddElement
<1>4. CASE ~(step = "ok" /\ op[r].post = p)
  <2>1. Answered(p)' = Answered(p)
    BY <1>2, <1>4 DEF Answered, At
  <2> QED
    BY <1>1, <1>4, <2>1
<1> QED
    BY <1>3, <1>4

LEMMA CountAfter ==
    ASSUME LikeTypeOK, NEW r \in Requests, Count(r)
    PROVE  /\ counts' \in [Posts -> Int]
           /\ \A p \in Posts :
                 counts'[p] = counts[p] + (IF op[r].post = p THEN op[r].delta ELSE 0)
<1>1. op[r].post \in Posts /\ op[r].delta \in Int
    BY OpType
<1> QED
    BY <1>1 DEF Count, LikeTypeOK

(* What a counter is off by. *)
Off(p) == Counted(p) - counts[p] - Owed(p)

LEMMA OffKept ==
    ASSUME LikeTypeOK, CountersMatchRows,
           \/ faults' = faults /\ \A p \in Posts : Off(p)' = Off(p)
           \/ /\ faults' = faults + 1
              /\ \A p \in Posts : \E d \in -1..1 : Off(p)' = Off(p) + d
    PROVE  CountersMatchRows'
<1> SUFFICES ASSUME NEW p \in Posts PROVE Off(p)' \in (-faults')..faults'
    BY DEF CountersMatchRows, Off
<1>1. Off(p) \in (-faults)..faults
    BY DEF CountersMatchRows, Off
<1>2. Off(p) \in Int /\ faults \in Nat
    BY LikeCounts DEF Off
<1>3. \/ faults' = faults /\ Off(p)' = Off(p)
      \/ faults' = faults + 1 /\ \E d \in -1..1 : Off(p)' = Off(p) + d
    OBVIOUS
<1> HIDE DEF Off
<1> QED
    BY <1>1, <1>2, <1>3

LEMMA CountedAfter ==
    ASSUME LikeTypeOK, NEW r \in Requests, NEW step \in OpSteps, GoTo(r, step),
           op[r].pc # "ok", UNCHANGED <<likeStore, likes>>, NEW p \in Posts
    PROVE  Counted(p)' = Counted(p) +
               (IF likeStore = "row-lock" /\ step = "ok" /\ op[r].post = p THEN 1 ELSE 0)
<1>1. Counted(p) \in Nat
    BY LikeCounts
<1>2. CASE likeStore = "row-lock"
  <2>1. Counted(p) = Cardinality(Answered(p)) /\ Counted(p)' = Cardinality(Answered(p)')
    BY <1>2 DEF Counted, Answered
  <2> QED
    BY <1>2, <2>1, AnsweredAfter
<1>3. CASE likeStore # "row-lock"
  <2>1. Counted(p)' = Counted(p)
    BY <1>3 DEF Counted
  <2> QED
    BY <1>1, <1>3, <2>1
<1> QED
    BY <1>2, <1>3

LEMMA StepsKept ==
    ASSUME LikeTypeOK, StepsOfStore, NEW r \in Requests, NEW step \in OpSteps, GoTo(r, step),
           likeStore' = likeStore,
           step = "stored" => likeStore = "dynamodb",
           step \in {"inserted", "updated"} => likeStore = "postgres",
           step = "locked" => likeStore = "row-lock"
    PROVE  StepsOfStore'
<1> SUFFICES ASSUME NEW s \in Requests
             PROVE  /\ op'[s].pc = "stored" => likeStore = "dynamodb"
                    /\ op'[s].pc \in {"inserted", "updated"} => likeStore = "postgres"
                    /\ op'[s].pc = "locked" => likeStore = "row-lock"
                    /\ op'[s].delta = -1 => likeStore = "dynamodb"
    BY DEF StepsOfStore
<1>1. CASE s = r
    BY <1>1, OpMoves DEF StepsOfStore
<1>2. CASE s # r
    BY <1>2, OpMoves DEF StepsOfStore
<1> QED
    BY <1>1, <1>2

LEMMA NoTransactions ==
    ASSUME StepsOfStore', likeStore' # "postgres"
    PROVE  TransactionsApart'
<1>1. InTransaction' = {}
    BY DEF StepsOfStore, InTransaction, At
<1> QED
    BY <1>1 DEF TransactionsApart

(* A step in which nothing that is counted changes. *)
LEMMA QuietStep ==
    ASSUME LikeInv, NEW r \in Requests, NEW step \in OpSteps, GoTo(r, step),
           UNCHANGED <<likeStore, likes, counts, faults>>,
           op[r].pc # "stored", op[r].pc # "ok", step # "stored", step # "ok",
           op[r].pc \in {"new", "refused", "failed"} => Cardinality(Active) < PoolSize
    PROVE  LikeTypeOK' /\ CountersMatchRows'
<1>1. LikeTypeOK /\ StepsOfStore /\ CountersMatchRows
    BY DEF LikeInv
<1>2. LikeTypeOK'
    BY <1>1, OpMoves, PoolKept DEF LikeTypeOK
<1>3. ASSUME NEW p \in Posts
      PROVE  Off(p)' = Off(p)
  <2>1. Counted(p)' = Counted(p) /\ Owed(p)' = Owed(p)
    BY <1>1, CountedAfter, OwedAfter, LikeCounts
  <2> QED
    BY <2>1 DEF Off
<1> QED
    BY <1>1, <1>2, <1>3, OffKept

LEMMA StepQuiet ==
    ASSUME LikeInv, NEW r \in Requests,
           StartOp(r) \/ InsertLike(r) \/ UpdateCounter(r) \/ OpFails(r) \/ LockRow(r)
    PROVE  LikeInv'
<1>1. /\ LikeTypeOK /\ StepsOfStore /\ TransactionsApart /\ CountersMatchRows
    BY DEF LikeInv
<1>2. CASE StartOp(r)
  <2>1. GoTo(r, "ready") /\ op[r].pc = "new" /\ Cardinality(Active) < PoolSize
        /\ UNCHANGED <<likeStore, likes, counts, faults>>
    BY <1>2 DEF StartOp
  <2>2. LikeTypeOK' /\ CountersMatchRows' /\ StepsOfStore'
    BY <1>1, <2>1, QuietStep, StepsKept DEF OpSteps
  <2>3. InTransaction' = InTransaction /\ \A s \in Requests : Row(s)' = Row(s)
    BY <1>1, <2>1, OpMoves DEF InTransaction, At, OpSteps
  <2>4. TransactionsApart'
    BY <1>1, <2>1, <2>3 DEF TransactionsApart, InTransaction, At
  <2> QED
    BY <2>2, <2>4 DEF LikeInv
<1>3. CASE InsertLike(r)
  <2>1. PICK step \in {"refused", "inserted"} :
            GoTo(r, step) /\ (step = "inserted" => Row(r) \notin likes)
    BY <1>3 DEF InsertLike
  <2>2. likeStore = "postgres" /\ op[r].pc = "ready"
        /\ (\A s \in InTransaction : Row(s) # Row(r))
        /\ UNCHANGED <<likeStore, likes, counts, faults>>
    BY <1>3 DEF InsertLike, InTransaction
  <2>3. LikeTypeOK' /\ CountersMatchRows' /\ StepsOfStore'
    BY <1>1, <2>1, <2>2, QuietStep, StepsKept DEF OpSteps
  <2>4. /\ InTransaction' = InTransaction \cup (IF step = "inserted" THEN {r} ELSE {})
        /\ \A s \in Requests : Row(s)' = Row(s)
    BY <1>1, <2>1, <2>2, OpMoves DEF InTransaction, At, OpSteps
  <2>5. TransactionsApart'
    BY <1>1, <2>1, <2>2, <2>4 DEF TransactionsApart, InTransaction, At
  <2> QED
    BY <2>3, <2>5 DEF LikeInv
<1>4. CASE UpdateCounter(r)
  <2>1. GoTo(r, "updated") /\ op[r].pc = "inserted"
        /\ UNCHANGED <<likeStore, likes, counts, faults>>
    BY <1>4 DEF UpdateCounter
  <2>2. likeStore = "postgres"
    BY <1>1, <2>1 DEF StepsOfStore
  <2>3. LikeTypeOK' /\ CountersMatchRows' /\ StepsOfStore'
    BY <1>1, <2>1, <2>2, QuietStep, StepsKept DEF OpSteps
  <2>4. InTransaction' = InTransaction /\ \A s \in Requests : Row(s)' = Row(s)
    BY <1>1, <2>1, OpMoves DEF InTransaction, At, OpSteps
  <2>5. TransactionsApart'
    BY <1>1, <2>1, <2>4 DEF TransactionsApart, InTransaction, At
  <2> QED
    BY <2>3, <2>5 DEF LikeInv
<1>5. CASE OpFails(r)
  <2>1. GoTo(r, "failed") /\ op[r].pc \in {"ready", "inserted", "updated"}
        /\ UNCHANGED <<likeStore, likes, counts, faults>>
    BY <1>5 DEF OpFails
  <2>2. LikeTypeOK' /\ CountersMatchRows' /\ StepsOfStore'
    BY <1>1, <2>1, QuietStep, StepsKept DEF OpSteps
  <2>3. InTransaction' \subseteq InTransaction /\ \A s \in Requests : Row(s)' = Row(s)
    BY <1>1, <2>1, OpMoves DEF InTransaction, At, OpSteps
  <2>4. TransactionsApart'
    BY <1>1, <2>1, <2>3 DEF TransactionsApart, InTransaction, At
  <2> QED
    BY <2>2, <2>4 DEF LikeInv
<1>6. CASE LockRow(r)
  <2>1. GoTo(r, "locked") /\ op[r].pc = "ready" /\ likeStore = "row-lock"
        /\ UNCHANGED <<likeStore, likes, counts, faults>>
    BY <1>6 DEF LockRow
  <2>2. LikeTypeOK' /\ CountersMatchRows' /\ StepsOfStore'
    BY <1>1, <2>1, QuietStep, StepsKept DEF OpSteps
  <2> QED
    BY <2>1, <2>2, NoTransactions DEF LikeInv
<1> QED
    BY <1>2, <1>3, <1>4, <1>5, <1>6

(* The row request: one like more, or one less, of the operation's post.   *)
LEMMA RowWrites ==
    ASSUME LikeTypeOK, NEW r \in Requests, ConditionHolds(r), likes' = RowWritten(r),
           likeStore = "dynamodb", likeStore' = likeStore, NEW p \in Posts
    PROVE  /\ likes' \subseteq Users \X Posts
           /\ Counted(p)' = Counted(p) + (IF op[r].post = p THEN op[r].delta ELSE 0)
<1>1. /\ Row(r) \in Users \X Posts /\ Row(r)[2] = op[r].post
      /\ op[r].delta = 1 \/ op[r].delta = -1
    BY OpType
<1>2. Cardinality(RowsOf(p)) \in Nat
    BY LikeSetsFinite, FS_CardinalityType
<1>3. Counted(p) = Cardinality(RowsOf(p)) /\ Counted(p)' = Cardinality(RowsOf(p)')
    BY DEF Counted, RowsOf
<1>4. CASE op[r].delta = 1
  <2>1. Row(r) \notin likes /\ likes' = likes \cup {Row(r)}
    BY <1>4 DEF ConditionHolds, RowWritten
  <2>2. Cardinality(RowsOf(p)') = Cardinality(RowsOf(p)) + (IF Row(r)[2] = p THEN 1 ELSE 0)
    BY <1>1, <2>1, RowsAfter
  <2> QED
    BY <1>1, <1>2, <1>3, <1>4, <2>1, <2>2 DEF LikeTypeOK
<1>5. CASE op[r].delta = -1
  <2>1. Row(r) \in likes /\ likes' = likes \ {Row(r)}
    BY <1>5 DEF ConditionHolds, RowWritten
  <2>2. Cardinality(RowsOf(p)') = Cardinality(RowsOf(p)) - (IF Row(r)[2] = p THEN 1 ELSE 0)
    BY <1>1, <2>1, RowsAfter
  <2> QED
    BY <1>1, <1>2, <1>3, <1>5, <2>1, <2>2 DEF LikeTypeOK
<1> QED
    BY <1>1, <1>4, <1>5

LEMMA StepRow ==
    ASSUME LikeInv, NEW r \in Requests, WriteRow(r) \/ RepeatWriteRow(r)
    PROVE  LikeInv'
<1>1. /\ LikeTypeOK /\ StepsOfStore /\ CountersMatchRows
    BY DEF LikeInv
<1>2. likeStore = "dynamodb" /\ op[r].pc = "ready" /\ UNCHANGED <<likeStore, counts>>
    BY DEF WriteRow, RepeatWriteRow
<1>3. \A p \in Posts : /\ Counted(p) \in Nat /\ Owed(p) \in Int /\ counts[p] \in Int
                       /\ op[r].delta \in {1, -1}
    BY <1>1, LikeCounts, OpType
<1>4. CASE WriteRow(r) /\ ~ConditionHolds(r)
  <2>1. GoTo(r, "refused") /\ UNCHANGED <<likes, faults>>
    BY <1>4 DEF WriteRow
  <2>2. LikeTypeOK' /\ CountersMatchRows' /\ StepsOfStore'
    BY <1>1, <1>2, <2>1, QuietStep, StepsKept DEF OpSteps
  <2> QED
    BY <1>2, <2>2, NoTransactions DEF LikeInv
<1>5. CASE WriteRow(r) /\ ConditionHolds(r)
  <2>1. GoTo(r, "stored") /\ likes' = RowWritten(r) /\ faults' = faults
    BY <1>5 DEF WriteRow
  <2>2. "stored" \in OpSteps
    BY DEF OpSteps
  <2>3. ASSUME NEW p \in Posts
        PROVE  likes' \subseteq Users \X Posts /\ Off(p)' = Off(p)
    <3>1. /\ likes' \subseteq Users \X Posts
          /\ Counted(p)' = Counted(p) + (IF op[r].post = p THEN op[r].delta ELSE 0)
      BY <1>1, <1>2, <1>5, <2>1, RowWrites
    <3>2. Owed(p)' = Owed(p) + (IF op[r].post = p THEN op[r].delta ELSE 0)
      BY <1>1, <1>2, <2>1, <2>2, OwedAfter
    <3> QED
      BY <1>2, <1>3, <3>1, <3>2 DEF Off
  <2>4. op[r].post \in Posts
    BY <1>1, OpType
  <2>5. LikeTypeOK'
    BY <1>1, <1>2, <2>1, <2>2, <2>3, <2>4, OpMoves, PoolKept DEF LikeTypeOK
  <2>6. StepsOfStore' /\ CountersMatchRows'
    BY <1>1, <1>2, <2>1, <2>2, <2>3, StepsKept, OffKept
  <2> QED
    BY <1>2, <2>5, <2>6, NoTransactions DEF LikeInv
<1>6. CASE RepeatWriteRow(r)
  <2>1. ConditionHolds(r) /\ likes' = RowWritten(r) /\ faults' = faults + 1 /\ op' = op
    BY <1>6 DEF RepeatWriteRow
  <2>2. ASSUME NEW p \in Posts
        PROVE  likes' \subseteq Users \X Posts /\ \E d \in -1..1 : Off(p)' = Off(p) + d
    <3>1. /\ likes' \subseteq Users \X Posts
          /\ Counted(p)' = Counted(p) + (IF op[r].post = p THEN op[r].delta ELSE 0)
      BY <1>1, <1>2, <2>1, RowWrites
    <3>2. Owed(p)' = Owed(p)
      BY <2>1 DEF Owed, Halfway, At
    <3>3. Off(p)' = Off(p) + (IF op[r].post = p THEN op[r].delta ELSE 0)
      BY <1>2, <1>3, <3>1, <3>2 DEF Off
    <3>4. (IF op[r].post = p THEN op[r].delta ELSE 0) \in -1..1
      BY <1>3
    <3> QED
      BY <3>1, <3>3, <3>4
  <2>3. op[r].post \in Posts
    BY <1>1, OpType
  <2>4. LikeTypeOK'
    BY <1>1, <1>2, <2>1, <2>2, <2>3 DEF LikeTypeOK, Active
  <2>5. StepsOfStore' /\ CountersMatchRows'
    BY <1>1, <1>2, <2>1, <2>2, OffKept DEF StepsOfStore
  <2> QED
    BY <1>2, <2>4, <2>5, NoTransactions DEF LikeInv
<1> QED
    BY <1>4, <1>5, <1>6

LEMMA StepCount ==
    ASSUME LikeInv, NEW r \in Requests, AddToCounter(r) \/ RepeatAdd(r) \/ NeverCounted(r)
    PROVE  LikeInv'
<1>1. /\ LikeTypeOK /\ StepsOfStore /\ CountersMatchRows
    BY DEF LikeInv
<1>2. /\ op[r].pc = "stored" /\ UNCHANGED <<likeStore, likes>>
      /\ "ok" \in OpSteps /\ "failed" \in OpSteps
    BY DEF AddToCounter, RepeatAdd, NeverCounted, OpSteps
<1>3. likeStore = "dynamodb"
    BY <1>1, <1>2 DEF StepsOfStore
<1>4. \A p \in Posts : /\ Counted(p) \in Nat /\ Owed(p) \in Int /\ counts[p] \in Int
                       /\ op[r].delta \in {1, -1}
    BY <1>1, LikeCounts, OpType
<1>5. CASE AddToCounter(r)
  <2>1. Count(r) /\ GoTo(r, "ok") /\ faults' = faults
    BY <1>5 DEF AddToCounter
  <2>2. ASSUME NEW p \in Posts
        PROVE  Off(p)' = Off(p)
    <3>1. Counted(p)' = Counted(p)
      BY <1>1, <1>2, <1>3, <1>4, <2>1, CountedAfter
    <3>2. Owed(p)' = Owed(p) - (IF op[r].post = p THEN op[r].delta ELSE 0)
      BY <1>1, <1>2, <2>1, OwedAfter
    <3>3. counts'[p] = counts[p] + (IF op[r].post = p THEN op[r].delta ELSE 0)
      BY <1>1, <2>1, CountAfter
    <3> QED
      BY <1>4, <3>1, <3>2, <3>3 DEF Off
  <2>3. LikeTypeOK'
    BY <1>1, <1>2, <2>1, OpMoves, PoolKept, CountAfter DEF LikeTypeOK
  <2>4. StepsOfStore' /\ CountersMatchRows'
    BY <1>1, <1>2, <2>1, <2>2, StepsKept, OffKept
  <2> QED
    BY <1>2, <1>3, <2>3, <2>4, NoTransactions DEF LikeInv
<1>6. CASE RepeatAdd(r)
  <2>1. Count(r) /\ faults' = faults + 1 /\ op' = op
    BY <1>6 DEF RepeatAdd
  <2>2. ASSUME NEW p \in Posts
        PROVE  \E d \in -1..1 : Off(p)' = Off(p) + d
    <3>1. Counted(p)' = Counted(p) /\ Owed(p)' = Owed(p)
      BY <1>2, <2>1 DEF Counted, Owed, Halfway, At
    <3>2. counts'[p] = counts[p] + (IF op[r].post = p THEN op[r].delta ELSE 0)
      BY <1>1, <2>1, CountAfter
    <3>3. Off(p)' = Off(p) + (IF op[r].post = p THEN -op[r].delta ELSE 0)
      BY <1>4, <3>1, <3>2 DEF Off
    <3>4. (IF op[r].post = p THEN -op[r].delta ELSE 0) \in -1..1
      BY <1>4
    <3> QED
      BY <3>3, <3>4
  <2>3. LikeTypeOK'
    BY <1>1, <1>2, <2>1, CountAfter DEF LikeTypeOK, Active
  <2>4. StepsOfStore' /\ CountersMatchRows'
    BY <1>1, <1>2, <2>1, <2>2, OffKept DEF StepsOfStore
  <2> QED
    BY <1>2, <1>3, <2>3, <2>4, NoTransactions DEF LikeInv
<1>7. CASE NeverCounted(r)
  <2>1. GoTo(r, "failed") /\ faults' = faults + 1 /\ counts' = counts
    BY <1>7 DEF NeverCounted
  <2>2. ASSUME NEW p \in Posts
        PROVE  \E d \in -1..1 : Off(p)' = Off(p) + d
    <3>1. Counted(p)' = Counted(p)
      BY <1>1, <1>2, <1>3, <1>4, <2>1, CountedAfter
    <3>2. Owed(p)' = Owed(p) - (IF op[r].post = p THEN op[r].delta ELSE 0)
      BY <1>1, <1>2, <2>1, OwedAfter
    <3>3. Off(p)' = Off(p) + (IF op[r].post = p THEN op[r].delta ELSE 0)
      BY <1>4, <2>1, <3>1, <3>2 DEF Off
    <3>4. (IF op[r].post = p THEN op[r].delta ELSE 0) \in -1..1
      BY <1>4
    <3> QED
      BY <3>3, <3>4
  <2>3. LikeTypeOK'
    BY <1>1, <1>2, <2>1, OpMoves, PoolKept DEF LikeTypeOK
  <2>4. StepsOfStore' /\ CountersMatchRows'
    BY <1>1, <1>2, <2>1, <2>2, StepsKept, OffKept
  <2> QED
    BY <1>2, <1>3, <2>3, <2>4, NoTransactions DEF LikeInv
<1> QED
    BY <1>5, <1>6, <1>7

LEMMA StepCommitLike ==
    ASSUME LikeInv, NEW r \in Requests, CommitLike(r)
    PROVE  LikeInv'
<1>1. /\ LikeTypeOK /\ StepsOfStore /\ TransactionsApart /\ CountersMatchRows
    BY DEF LikeInv
<1>2. /\ op[r].pc = "updated" /\ likes' = likes \cup {Row(r)} /\ Count(r) /\ GoTo(r, "ok")
      /\ UNCHANGED <<likeStore, faults>> /\ "ok" \in OpSteps
    BY DEF CommitLike, OpSteps
<1>3. likeStore = "postgres" /\ op[r].delta = 1
    BY <1>1, <1>2, OpType DEF StepsOfStore
<1>4. r \in InTransaction /\ Row(r) \notin likes
    BY <1>1, <1>2 DEF TransactionsApart, InTransaction, At
<1>5. Row(r) \in Users \X Posts /\ Row(r)[2] = op[r].post
    BY <1>1, OpType
<1>6. ASSUME NEW p \in Posts
      PROVE  Off(p)' = Off(p)
  <2>1. Counted(p) = Cardinality(RowsOf(p)) /\ Counted(p)' = Cardinality(RowsOf(p)')
    BY <1>2, <1>3 DEF Counted, RowsOf
  <2>2. Cardinality(RowsOf(p)') = Cardinality(RowsOf(p)) + (IF op[r].post = p THEN 1 ELSE 0)
    BY <1>1, <1>2, <1>4, <1>5, RowsAfter
  <2>3. Owed(p)' = Owed(p)
    BY <1>1, <1>2, OwedAfter
  <2>4. counts'[p] = counts[p] + (IF op[r].post = p THEN 1 ELSE 0)
    BY <1>1, <1>2, <1>3, CountAfter
  <2>5. Counted(p) \in Nat /\ Owed(p) \in Int /\ counts[p] \in Int
    BY <1>1, LikeCounts
  <2> QED
    BY <2>1, <2>2, <2>3, <2>4, <2>5 DEF Off
<1>7. LikeTypeOK'
    BY <1>1, <1>2, <1>5, OpMoves, PoolKept, CountAfter DEF LikeTypeOK
<1>8. StepsOfStore' /\ CountersMatchRows'
    BY <1>1, <1>2, <1>6, StepsKept, OffKept
<1>9. TransactionsApart'
  <2>1. InTransaction' = InTransaction \ {r} /\ \A s \in Requests : Row(s)' = Row(s)
    BY <1>1, <1>2, OpMoves DEF InTransaction, At
  <2> QED
    BY <1>1, <1>2, <1>4, <2>1 DEF TransactionsApart, InTransaction, At
<1> QED
    BY <1>7, <1>8, <1>9 DEF LikeInv

LEMMA StepIncrement ==
    ASSUME LikeInv, NEW r \in Requests, Increment(r)
    PROVE  LikeInv'
<1>1. /\ LikeTypeOK /\ StepsOfStore /\ CountersMatchRows
    BY DEF LikeInv
<1>2. /\ op[r].pc = "locked" /\ Count(r) /\ GoTo(r, "ok")
      /\ UNCHANGED <<likeStore, likes, faults>> /\ "ok" \in OpSteps
    BY DEF Increment, OpSteps
<1>3. likeStore = "row-lock" /\ op[r].delta = 1
    BY <1>1, <1>2, OpType DEF StepsOfStore
<1>4. ASSUME NEW p \in Posts
      PROVE  Off(p)' = Off(p)
  <2>1. Counted(p)' = Counted(p) + (IF op[r].post = p THEN 1 ELSE 0)
    BY <1>1, <1>2, <1>3, CountedAfter
  <2>2. Owed(p)' = Owed(p)
    BY <1>1, <1>2, OwedAfter
  <2>3. counts'[p] = counts[p] + (IF op[r].post = p THEN 1 ELSE 0)
    BY <1>1, <1>2, <1>3, CountAfter
  <2>4. Counted(p) \in Nat /\ Owed(p) \in Int /\ counts[p] \in Int
    BY <1>1, LikeCounts
  <2> QED
    BY <2>1, <2>2, <2>3, <2>4 DEF Off
<1>5. LikeTypeOK'
    BY <1>1, <1>2, OpMoves, PoolKept, CountAfter DEF LikeTypeOK
<1>6. StepsOfStore' /\ CountersMatchRows'
    BY <1>1, <1>2, <1>4, StepsKept, OffKept
<1> QED
    BY <1>2, <1>3, <1>5, <1>6, NoTransactions DEF LikeInv

LEMMA LikeInitInv == LikeInit => LikeInv
<1> SUFFICES ASSUME LikeInit PROVE LikeInv
    OBVIOUS
<1>1. /\ likes = {} /\ faults = 0 /\ likeStore \in LikeStores /\ counts = [p \in Posts |-> 0]
      /\ op \in [Requests -> Ops]
      /\ \A r \in Requests : op[r].pc = "new" /\ (op[r].delta = -1 => likeStore = "dynamodb")
    BY DEF LikeInit
<1>2. Active = {} /\ InTransaction = {} /\ At({"ok"}) = {} /\ At({"stored"}) = {}
    BY <1>1 DEF Active, InTransaction, At
<1>3. Cardinality({}) = 0
    BY FS_EmptySet
<1>4. LikeTypeOK
    BY <1>1, <1>2, <1>3, LikeConstants DEF LikeTypeOK
<1>5. StepsOfStore /\ TransactionsApart
    BY <1>1, <1>2 DEF StepsOfStore, TransactionsApart
<1>6. ASSUME NEW p \in Posts
      PROVE  Counted(p) - counts[p] - Owed(p) \in -faults..faults
  <2>1. Answered(p) = {} /\ RowsOf(p) = {} /\ Halfway(p, 1) = {} /\ Halfway(p, -1) = {}
    BY <1>1, <1>2 DEF Halfway, Answered, RowsOf
  <2>2. Counted(p) = 0
    BY <1>3, <2>1, CountedSets
  <2>3. Cardinality(Halfway(p, 1)) = 0 /\ Cardinality(Halfway(p, -1)) = 0
    BY <1>3, <2>1
  <2>4. Owed(p) = 0 /\ counts[p] = 0
    BY <1>1, <2>3 DEF Owed
  <2> QED
    BY <1>1, <2>2, <2>4
<1> QED
    BY <1>4, <1>5, <1>6 DEF LikeInv, CountersMatchRows

LEMMA LikeStepInv == LikeInv /\ [LikeNext]_likeVars => LikeInv'
<1> SUFFICES ASSUME LikeInv, [LikeNext]_likeVars PROVE LikeInv'
    OBVIOUS
<1>1. CASE AllAnswered \/ UNCHANGED likeVars
  <2>1. UNCHANGED likeVars
    BY <1>1 DEF AllAnswered
  <2> QED
    BY <2>1 DEF LikeInv, likeVars, LikeTypeOK, Active, StepsOfStore, TransactionsApart,
           InTransaction, At, Row, CountersMatchRows, Counted, Owed, Halfway
<1> QED
    BY <1>1, StepQuiet, StepRow, StepCount, StepCommitLike, StepIncrement DEF LikeNext

(* The invariant of the like counters: transactions in progress are apart, *)
(* and every counter is off by what is owed and what went wrong.           *)
THEOREM LikeInvariant == LikeSpec => []LikeInv
BY LikeInitInv, LikeStepInv, PTL DEF LikeSpec

(* For any workload and any pool, a counter differs from the likes of its  *)
(* post only by the operations between their two requests, and by at most  *)
(* one for every request to DynamoDB that was repeated or never made; with *)
(* PostgreSQL and under the lock it does not differ.                       *)
THEOREM CountersAreExact == LikeSpec => []CountersMatchRows
<1>1. LikeInv => CountersMatchRows
    BY DEF LikeInv
<1> QED
    BY <1>1, LikeInvariant, PTL

-----------------------------------------------------------------------------
(* The programs together.                                                  *)

ProgramsInv == RaceInv /\ VersionCountsWinners /\ LeaseInv /\ LikeInv /\ UrlInv

(* A step of one program is a stutter of the others. *)
LEMMA OneProgramSteps ==
    [Next]_vars => /\ [ClaimNext]_claimVars /\ [LeaseNext]_leaseVars
                   /\ [LikeNext]_likeVars /\ [UrlNext]_urlVars
<1> SUFFICES ASSUME [Next]_vars
             PROVE  /\ [ClaimNext]_claimVars /\ [LeaseNext]_leaseVars
                    /\ [LikeNext]_likeVars /\ [UrlNext]_urlVars
    OBVIOUS
<1>1. CASE UNCHANGED vars
  <2>1. UNCHANGED <<claimVars, leaseVars, likeVars, urlVars>>
    BY <1>1 DEF vars
  <2> QED
    BY <2>1
<1>2. CASE Next
  <2>1. /\ ClaimNext \/ UNCHANGED claimVars
        /\ LeaseNext \/ UNCHANGED leaseVars
        /\ LikeNext \/ UNCHANGED likeVars
        /\ UrlNext \/ UNCHANGED urlVars
    BY <1>2 DEF Next, RestOf
  <2> QED
    BY <2>1
<1> QED
    BY <1>1, <1>2

(* The five invariants hold whichever program is run. *)
THEOREM ProgramsInvariant == Spec => []ProgramsInv
<1>1. Init => ProgramsInv
    BY RaceInit, LeaseInitInv, LikeInitInv, UrlInitInv DEF Init, ProgramsInv
<1>2. ProgramsInv /\ [Next]_vars => ProgramsInv'
    BY OneProgramSteps, RaceStepInv, LeaseStepInv, LikeStepInv, UrlStepInv DEF ProgramsInv
<1> QED
    BY <1>1, <1>2, PTL DEF Spec

(* The row, the keys, the counters and the tables have their types, the    *)
(* pool has no more threads than it may and a batch no more URLs, for      *)
(* every number of workers, owners, operations and URLs.                   *)
THEOREM ProgramsTypeCorrect == Spec => []ProgramsTypeOK
<1>1. ProgramsInv => ProgramsTypeOK
    BY DEF ProgramsInv, RaceInv, LeaseInv, LikeInv, UrlInv, ProgramsTypeOK
<1> QED
    BY <1>1, ProgramsInvariant, PTL
=============================================================================
