---------------------------- MODULE WaitingQueue ----------------------------
(***************************************************************************)
(* The waiting queue of one event: join requests (several per session:     *)
(* tabs, retries, the stream endpoint), the admin's admissions, switching  *)
(* the queue on and off, leaving, and the expiry of admissions.  Each step *)
(* is one call of the store; requests interleave between their calls.      *)
(***************************************************************************)
EXTENDS InMemoryQueue

CONSTANTS
    NoSession,         \* of an idle request
    Tabs,              \* concurrent join requests
    Admins,            \* concurrent admit requests
    Limits,            \* bound: limits an admin asks for
    MaxToggles,        \* bound: changes of the event's settings
    MaxCrashes         \* bound: admit requests that die half way

ASSUME QueueAssumption ==
    /\ Limits \subseteq Nat \ {0}
    /\ NoSession \notin Sessions
    /\ MaxToggles \in Nat
    /\ MaxCrashes \in Nat

VARIABLES
    enabled,           \* settings of the event
    admitted,          \* sessions whose admission has not expired
    joining,           \* joining[b]: session of join request b
    tab,               \* tab[b]: where it is
    saw,               \* saw[b]: enabled, as it read it
    hand,              \* hand[a]: sessions admit request a has still to mark
    toggles,
    crashes,
    waiting            \* sessions told QUEUED, not admitted or gone since (history)

joinVars == <<joining, tab, saw>>
queueVars == <<storeVars, enabled, admitted, joinVars, hand, toggles, crashes, waiting>>

QueueTypeOK ==
    /\ StoreTypeOK
    /\ enabled \in BOOLEAN
    /\ admitted \subseteq Sessions
    /\ joining \in [Tabs -> Sessions \cup {NoSession}]
    /\ tab \in [Tabs -> {"idle", "checking", "joining"}]
    /\ saw \in [Tabs -> BOOLEAN]
    /\ hand \in [Admins -> Seq(Sessions)]
    /\ toggles \in Nat
    /\ crashes \in Nat
    /\ waiting \subseteq Sessions

QueueInit ==
    /\ StoreInit
    /\ enabled = FALSE
    /\ admitted = {}
    /\ joining = [b \in Tabs |-> NoSession]
    /\ tab = [b \in Tabs |-> "idle"]
    /\ saw = [b \in Tabs |-> FALSE]
    /\ hand = [a \in Admins |-> <<>>]
    /\ toggles = 0
    /\ crashes = 0
    /\ waiting = {}

MarkAdmitted(s) ==
    /\ admitted' = admitted \cup {s}
    /\ waiting' = waiting \ {s}

-----------------------------------------------------------------------------
(* join: the settings, then the admission, then one of two writes.         *)

JoinSettings(b, s) ==
    /\ tab[b] = "idle"
    /\ joining' = [joining EXCEPT ![b] = s]
    /\ saw' = [saw EXCEPT ![b] = enabled]
    /\ tab' = [tab EXCEPT ![b] = "checking"]
    /\ UNCHANGED <<storeVars, enabled, admitted, hand, toggles, crashes, waiting>>

JoinReturn(b) ==
    /\ joining' = [joining EXCEPT ![b] = NoSession]
    /\ saw' = [saw EXCEPT ![b] = FALSE]
    /\ tab' = [tab EXCEPT ![b] = "idle"]

JoinCheck(b) ==
    /\ tab[b] = "checking"
    /\ IF joining[b] \in admitted
       THEN JoinReturn(b)
       ELSE tab' = [tab EXCEPT ![b] = "joining"] /\ UNCHANGED <<joining, saw>>
    /\ UNCHANGED <<storeVars, enabled, admitted, hand, toggles, crashes, waiting>>

JoinAtOnce(b) ==
    /\ tab[b] = "joining"
    /\ ~saw[b]
    /\ MarkAdmitted(joining[b])
    /\ JoinReturn(b)
    /\ UNCHANGED <<storeVars, enabled, hand, toggles, crashes>>

JoinQueue(b) ==
    /\ tab[b] = "joining"
    /\ saw[b]
    /\ \E score \in Scores : Enqueue(joining[b], score)
    /\ waiting' = waiting \cup {joining[b]}
    /\ JoinReturn(b)
    /\ UNCHANGED <<enabled, admitted, hand, toggles, crashes>>

-----------------------------------------------------------------------------
(* admit_next: a batch leaves the queue, then each session is marked.      *)

AdmitNext(a) ==
    /\ hand[a] = <<>>
    /\ \E limit \in Limits : Dequeue(limit)
    /\ hand' = [hand EXCEPT ![a] = served']
    /\ UNCHANGED <<enabled, admitted, joinVars, toggles, crashes, waiting>>

(* Mutant: one mark ends the request. *)
AdmitFirst(a) ==
    /\ hand[a] # <<>>
    /\ MarkAdmitted(Head(hand[a]))
    /\ hand' = [hand EXCEPT ![a] = <<>>]
    /\ UNCHANGED <<storeVars, enabled, joinVars, toggles, crashes>>

AdmitMark(a) ==
    /\ hand[a] # <<>>
    /\ MarkAdmitted(Head(hand[a]))
    /\ hand' = [hand EXCEPT ![a] = Tail(@)]
    /\ UNCHANGED <<storeVars, enabled, joinVars, toggles, crashes>>

(* The admit request dies with sessions in hand. *)
AdmitCrash(a) ==
    /\ hand[a] # <<>>
    /\ crashes < MaxCrashes
    /\ crashes' = crashes + 1
    /\ hand' = [hand EXCEPT ![a] = <<>>]
    /\ UNCHANGED <<storeVars, enabled, admitted, joinVars, toggles, waiting>>

-----------------------------------------------------------------------------
Leave(s) ==
    /\ RemoveSession(s)
    /\ waiting' = waiting \ {s}
    /\ UNCHANGED <<enabled, admitted, joinVars, hand, toggles, crashes>>

ConfigureEvent ==
    /\ toggles < MaxToggles
    /\ toggles' = toggles + 1
    /\ enabled' = ~enabled
    /\ UNCHANGED <<storeVars, admitted, joinVars, hand, crashes, waiting>>

(* The admission_ttl_seconds of s have passed. *)
Expire(s) ==
    /\ s \in admitted
    /\ admitted' = admitted \ {s}
    /\ UNCHANGED <<storeVars, enabled, joinVars, hand, toggles, crashes, waiting>>

Join(b) == JoinCheck(b) \/ JoinAtOnce(b) \/ JoinQueue(b) \/ \E s \in Sessions : JoinSettings(b, s)
Admit(a) == AdmitNext(a) \/ AdmitMark(a) \/ AdmitCrash(a)

QueueNext ==
    \/ \E b \in Tabs : Join(b)
    \/ \E a \in Admins : Admit(a)
    \/ \E s \in Sessions : Leave(s) \/ Expire(s)
    \/ ConfigureEvent

QueueSpec == QueueInit /\ [][QueueNext]_queueVars

-----------------------------------------------------------------------------
(* Who has been told QUEUED is in the queue or in the hands of an admit    *)
(* request, until it is admitted or leaves, however its own joins, the     *)
(* admissions and the switching of the queue interleave; unless an admit   *)
(* request dies: the sessions it has popped are in no queue any more.      *)
NobodyForgotten ==
    crashes = 0 =>
        \A s \in waiting : s \in DOMAIN queue \/ \E a \in Admins : s \in ToSet(hand[a])
=============================================================================
