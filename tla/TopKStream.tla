----------------------------- MODULE TopKStream -----------------------------
(***************************************************************************)
(* youtube-topk-videos, kafka_consume_topk.py: the consumer polls a topic, *)
(* applies each batch to the tables and then commits its positions.  The   *)
(* process may die and is started again in its group; a limit on the       *)
(* number of messages may cut a poll short, and the commit then covers     *)
(* records that nobody applied.                                            *)
(***************************************************************************)
EXTENDS TopKStore

CONSTANTS
    Partitions,
    PartitionOf,       \* [Videos -> Partitions]: the key of a record is its video
    Times,             \* when views occur
    MaxMessagesChoices,\* values of --max-messages; one no topic reaches is none
    MaxPollRecords,
    IdlePolls,         \* --idle-polls-before-stop
    MaxEvents,         \* bound: records in the topic
    MaxRuns            \* bound: consumer processes, one after the other

ASSUME StreamAssumption ==
    /\ PartitionOf \in [Videos -> Partitions]
    /\ IsFiniteSet(Partitions)
    /\ Times \subseteq Nat
    /\ MaxMessagesChoices \subseteq Nat \ {0}
    /\ {MaxPollRecords, IdlePolls, MaxRuns} \subseteq Nat \ {0}
    /\ MaxEvents \in Nat

VARIABLES
    log,               \* log[p]: the records of partition p
    committed,         \* committed[p]: offset of the group, durable
    polled,            \* polled[p]: position of the consumer
    taken,             \* taken[p]: records before it are in the batch
    phase,             \* "polling", "processing", "committing" or "ended"
    maxMessages,
    consumed,
    idle,
    runs,
    skipped,           \* history: records committed without being in a batch
    recounted          \* history: processes that died with a batch uncommitted

streamVars == <<log, committed, polled, taken, phase, maxMessages, consumed, idle,
                runs, skipped, recounted>>

Events == [video : Videos, time : Times, shard : Shards]
Offsets == [Partitions -> 0..MaxEvents]
Below(o) == {q \in Partitions \X (1..MaxEvents) : q[2] <= o[q[1]]}
Record(q) == log[q[1]][q[2]]
Size(o) == Cardinality(Below(o))
End == [p \in Partitions |-> Len(log[p])]

BagOfRecords(S) ==
    [e \in {Record(q) : q \in S} |-> Cardinality({q \in S : Record(q) = e})]
Batch == Below(taken) \ Below(committed)

StreamInit ==
    /\ log = [p \in Partitions |-> <<>>]
    /\ committed = [p \in Partitions |-> 0]
    /\ polled = committed
    /\ taken = committed
    /\ phase = "polling"
    /\ maxMessages \in MaxMessagesChoices
    /\ consumed = 0
    /\ idle = 0
    /\ runs = 1
    /\ skipped = {}
    /\ recounted = 0

(* KafkaProducer.send; the shard is the hash of the event id. *)
Produce ==
    /\ Size(End) < MaxEvents
    /\ \E e \in Events :
          log' = [log EXCEPT ![PartitionOf[e.video]] = Append(@, e)]
    /\ UNCHANGED <<storeVars, committed, polled, taken, phase, maxMessages, consumed,
                   idle, runs, skipped, recounted>>

(* What poll may return: records after the positions, at most              *)
(* MaxPollRecords of them.                                                 *)
MayReturn(to) ==
    /\ \A p \in Partitions : polled[p] <= to[p] /\ to[p] <= Len(log[p])
    /\ Size(to) - Size(polled) \in 1..MaxPollRecords

(* The batch is what poll returned, one partition after another, until     *)
(* maxMessages are consumed.                                               *)
MayTake(upto, to) ==
    LET room == maxMessages - consumed
        got == Size(to) - Size(polled)
    IN  /\ \A p \in Partitions : polled[p] <= upto[p] /\ upto[p] <= to[p]
        /\ Size(upto) - Size(polled) = IF room < got THEN room ELSE got
        /\ Cardinality({p \in Partitions : polled[p] < upto[p] /\ upto[p] < to[p]}) <= 1

Poll ==
    /\ phase = "polling"
    /\ consumed < maxMessages
    /\ \E to, upto \in Offsets :
          /\ MayReturn(to) /\ MayTake(upto, to)
          /\ polled' = to
          /\ taken' = upto
          /\ consumed' = consumed + Size(upto) - Size(polled)
    /\ phase' = "processing"
    /\ idle' = 0
    /\ UNCHANGED <<storeVars, log, committed, maxMessages, runs, skipped, recounted>>

(* A poll may time out with nothing, records or not. *)
EmptyPoll ==
    /\ phase = "polling"
    /\ consumed < maxMessages
    /\ idle' = idle + 1
    /\ phase' = IF idle' >= IdlePolls THEN "ended" ELSE "polling"
    /\ UNCHANGED <<storeVars, log, committed, polled, taken, maxMessages, consumed, runs,
                   skipped, recounted>>

(* TopKStreamProcessor.process_batch, in one transaction. *)
ProcessBatch ==
    /\ phase = "processing"
    /\ ApplyDeltas(Aggregated(BagOfRecords(Batch)))
    /\ phase' = "committing"
    /\ UNCHANGED <<log, committed, polled, taken, maxMessages, consumed, idle, runs,
                   skipped, recounted>>

(* Mutant: what was taken is committed, and the consumer not moved back. *)
CommitTaken ==
    /\ phase = "committing"
    /\ committed' = taken
    /\ UNCHANGED taken
    /\ UNCHANGED skipped
    /\ phase' = IF consumed < maxMessages THEN "polling" ELSE "ended"
    /\ UNCHANGED <<storeVars, log, polled, maxMessages, consumed, idle, runs, recounted>>

(* consumer.commit() when the loop asks for the next batch: the positions, *)
(* not what was taken of them.                                             *)
CommitOffsets ==
    /\ phase = "committing"
    /\ committed' = polled
    /\ taken' = polled
    /\ skipped' = skipped \cup (Below(polled) \ Below(taken))
    /\ phase' = IF consumed < maxMessages THEN "polling" ELSE "ended"
    /\ UNCHANGED <<storeVars, log, polled, maxMessages, consumed, idle, runs, recounted>>

(* Mutant: closing the consumer commits its positions. *)
ProcessDiesCommitting ==
    /\ phase # "ended"
    /\ phase' = "ended"
    /\ committed' = polled
    /\ taken' = polled
    /\ recounted' = IF phase = "committing" THEN recounted + 1 ELSE recounted
    /\ UNCHANGED <<storeVars, log, polled, maxMessages, consumed, idle, runs, skipped>>

(* The process dies, or an exception of the database ends it. *)
ProcessDies ==
    /\ phase # "ended"
    /\ phase' = "ended"
    /\ polled' = committed
    /\ taken' = committed
    /\ recounted' = IF phase = "committing" THEN recounted + 1 ELSE recounted
    /\ UNCHANGED <<storeVars, log, committed, maxMessages, consumed, idle, runs, skipped>>

(* The script again, from the committed offsets of its group. *)
StartAgain ==
    /\ phase = "ended"
    /\ runs < MaxRuns
    /\ runs' = runs + 1
    /\ phase' = "polling"
    /\ maxMessages' \in MaxMessagesChoices
    /\ consumed' = 0
    /\ idle' = 0
    /\ UNCHANGED <<storeVars, log, committed, polled, taken, skipped, recounted>>

StreamFinished ==
    /\ phase = "ended" /\ runs = MaxRuns /\ Size(End) = MaxEvents
    /\ UNCHANGED <<storeVars, streamVars>>

StreamNext ==
    \/ Produce \/ Poll \/ EmptyPoll \/ ProcessBatch \/ CommitOffsets
    \/ ProcessDies \/ StartAgain \/ StreamFinished

StreamSpec == StoreInit /\ StreamInit /\ [][StreamNext]_<<storeVars, streamVars>>
-----------------------------------------------------------------------------
StreamTypeOK ==
    /\ log \in [Partitions -> Seq(Events)]
    /\ {committed, polled, taken} \subseteq Offsets
    /\ \A p \in Partitions :
          /\ committed[p] <= taken[p] /\ taken[p] <= polled[p]
          /\ polled[p] <= Len(log[p])
    /\ phase \in {"polling", "processing", "committing", "ended"}
    /\ phase \in {"polling", "ended"} => polled = committed
    /\ phase \in {"processing", "committing"} => Batch # {}
    /\ maxMessages \in MaxMessagesChoices
    /\ consumed \in 0..maxMessages
    /\ idle \in 0..IdlePolls
    /\ runs \in 1..MaxRuns
    /\ skipped \subseteq Below(committed)
    /\ recounted \in 0..runs

CounterKeys == {<<w, BucketStart(w, t), v>> : w \in Windows, t \in Times, v \in Videos}
CountedBy(key, q) ==
    Record(q).video = key[3] /\ BucketStart(key[1], Record(q).time) = key[2]

(* The counters follow the committed offsets: every committed record that  *)
(* a limit did not drop is in every window's counter of its video, and     *)
(* once unless a process died between the counts and the commit, which     *)
(* counts at most one poll again.                                          *)
CountsFollowOffsets ==
    LET applied == (IF phase = "committing" THEN Below(taken) ELSE Below(committed))
                      \ skipped
    IN  \A key \in CounterKeys :
          LET once == Cardinality({q \in applied : CountedBy(key, q)})
              count == IF key \in DOMAIN aggregate THEN aggregate[key] ELSE 0
          IN  once <= count /\ count <= once + recounted * MaxPollRecords
=============================================================================
