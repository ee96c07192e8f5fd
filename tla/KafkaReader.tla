----------------------------- MODULE KafkaReader -----------------------------
(***************************************************************************)
(* The reader of connpool/internal/connection/kafka_conn.go: the RunQuery  *)
(* calls of one connection, each of which consumes all partitions of the   *)
(* topic from one offset until it has count messages.  A message is its    *)
(* partition and its offset.  A call that fails loses the connection (see  *)
(* TimeoutPool), so it is the last one.  The broker deletes no messages.   *)
(* The messages are consumed, but the rows the code returns stay empty, as *)
(* it appends them to copies of the slice headers: got is what it took.    *)
(***************************************************************************)
EXTENDS Integers, FiniteSets, FiniteSetsExt

CONSTANTS Partitions,   (* the partitions a topic may have                 *)
          Counts,       (* the counts a query asks for                     *)
          MaxLog,       (* bound: the messages of a partition              *)
          MaxReads      (* bound: the queries                              *)

ASSUME KafkaConstants == IsFiniteSet(Partitions) /\ MaxLog \in Nat /\ MaxReads \in Nat

VARIABLES
    kafkaPc,      (* "idle", "open", "loop", "pass", or "gone"              *)
    topic, log,   (* its partitions, and the number of messages of each     *)
    consumerOffset,          (* the field                                   *)
    count,                   (* what the query asks for                     *)
    position,     (* of each partition consumed: the offset it is at        *)
    toVisit,      (* the partitions still to be opened, or left in the pass *)
    currentOffset, currentCount,
    got,          (* the messages this call took                            *)
    reads, seen,  (* history: the calls; what the calls before took         *)
    first         (* history: where the first call began in each partition  *)

kafkaCall == <<count, position, toVisit, currentOffset, currentCount, got>>
kafkaVars == <<kafkaPc, topic, log, consumerOffset, kafkaCall, reads, seen, first>>

Newest == -1   \* sarama.OffsetNewest

KafkaInit ==
    /\ topic \in SUBSET Partitions \ {{}}
    /\ kafkaPc = "idle" /\ log = [p \in Partitions |-> 0]
    /\ consumerOffset = Newest
    /\ count = 0 /\ position = [p \in Partitions |-> 0] /\ toVisit = {}
    /\ currentOffset = 0 /\ currentCount = 0 /\ got = {}
    /\ reads = 0 /\ seen = {} /\ first = [p \in Partitions |-> 0]

KafkaQuery(n) ==
    /\ kafkaPc = "idle" /\ reads < MaxReads
    /\ kafkaPc' = "open" /\ reads' = reads + 1
    /\ count' = n /\ toVisit' = topic
    /\ currentOffset' = 0 /\ currentCount' = 0 /\ got' = {}
    /\ UNCHANGED <<topic, log, consumerOffset, position, seen, first>>

\* ConsumePartition: from the end, or from an offset that is not past it.
Consume(p) ==
    /\ kafkaPc = "open" /\ p \in toVisit
    /\ consumerOffset <= log[p]
    /\ position' = [position EXCEPT ![p] = IF consumerOffset = Newest THEN log[p] ELSE consumerOffset]
    /\ first' = IF reads = 1 THEN position' ELSE first
    /\ toVisit' = toVisit \ {p}
    /\ UNCHANGED <<kafkaPc, topic, log, consumerOffset, count, currentOffset, currentCount, got, reads, seen>>

\* The error of a partition, on opening it or later: the offset stays, and the
\* connection is given up.
ReadFails ==
    /\ kafkaPc \in {"open", "loop"} /\ kafkaPc' = "gone"
    /\ UNCHANGED <<topic, log, consumerOffset, kafkaCall, reads, seen, first>>

Opened ==
    /\ kafkaPc = "open" /\ toVisit = {} /\ kafkaPc' = "loop"
    /\ UNCHANGED <<topic, log, consumerOffset, kafkaCall, reads, seen, first>>

\* A pass over the channels.  A context that is done does not end the loop.
BeginPass ==
    /\ kafkaPc = "loop" /\ currentCount < count
    /\ kafkaPc' = "pass" /\ toVisit' = topic
    /\ UNCHANGED <<topic, log, consumerOffset, count, position, currentOffset, currentCount, got, reads, seen, first>>

Receive(p) ==
    /\ kafkaPc = "pass" /\ p \in toVisit /\ position[p] < log[p]
    /\ position' = [position EXCEPT ![p] = @ + 1]
    /\ got' = got \cup {<<p, position[p]>>}
    /\ currentOffset' = Max({currentOffset, position[p]})
    /\ currentCount' = currentCount + 1
    /\ toVisit' = toVisit \ {p}
    /\ UNCHANGED <<kafkaPc, topic, log, consumerOffset, count, reads, seen, first>>

\* No message has arrived.
ReceiveNothing(p) ==
    /\ kafkaPc = "pass" /\ p \in toVisit
    /\ toVisit' = toVisit \ {p}
    /\ UNCHANGED <<kafkaPc, topic, log, consumerOffset, count, position, currentOffset, currentCount, got, reads, seen, first>>

EndPass ==
    /\ kafkaPc = "pass" /\ toVisit = {} /\ kafkaPc' = "loop"
    /\ UNCHANGED <<topic, log, consumerOffset, kafkaCall, reads, seen, first>>

\* The next call begins at the greatest offset read, so it reads this message
\* again, and at 0 after a call that read none.
ReturnsAt(o) ==
    /\ kafkaPc = "loop" /\ currentCount >= count /\ kafkaPc' = "idle"
    /\ consumerOffset' = o
    /\ seen' = seen \cup got
    /\ UNCHANGED <<topic, log, kafkaCall, reads, first>>
ReadReturnsCount == ReturnsAt(consumerOffset + count)   \* mutant: advances by what was asked
ReadReturns == ReturnsAt(currentOffset)

\* Somebody writes to the topic.
Produce(p) ==
    /\ log[p] < MaxLog
    /\ log' = [log EXCEPT ![p] = @ + 1]
    /\ UNCHANGED <<kafkaPc, topic, consumerOffset, kafkaCall, reads, seen, first>>

KafkaNext ==
    \/ \E n \in Counts : KafkaQuery(n)
    \/ \E p \in topic : Consume(p) \/ Receive(p) \/ ReceiveNothing(p) \/ Produce(p)
    \/ ReadFails \/ Opened \/ BeginPass \/ EndPass \/ ReadReturns

KafkaSpec == KafkaInit /\ [][KafkaNext]_kafkaVars

-----------------------------------------------------------------------------
(* Properties.                                                             *)

\* The calls on one connection skip no message of a topic with one partition,
\* however they follow each other and the writes: the message before one that
\* was read has been read too, back to where the first call began, or to the
\* begin of the topic.  With several partitions, which share one offset, this
\* only holds within a call.
Unbroken(S, begins) == \A m \in S : m[2] \in {0, begins[m[1]]} \/ <<m[1], m[2] - 1>> \in S
KafkaNoGap ==
    /\ Cardinality(topic) = 1 => Unbroken(seen \cup got, first)
    /\ \A p \in topic : \A o \in 0..MaxLog :
          (\E b \in 0..o : <<p, b>> \in got) /\ o < position[p] => <<p, o>> \in got
=============================================================================
