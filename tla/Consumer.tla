------------------------------ MODULE Consumer ------------------------------
(***************************************************************************)
(* The Kafka consumer (internal/messaging/kafka/consumer.go) on one        *)
(* partition of a topic, with retries, the dead letter topic and offsets.  *)
(* The partition and the offsets of the group belong to Kafka and to the   *)
(* sarama library and are modelled from how consumer.go uses them:         *)
(* MarkMessage(m) marks every offset up to m's, marks are committed from   *)
(* time to time and when a session ends, and a new session starts at the   *)
(* committed offset, or at the end of the log if there is none             *)
(* (Offsets.Initial = OffsetNewest).                                       *)
(*                                                                         *)
(* An offset is the number of a message in the log, from 1.                *)
(***************************************************************************)
EXTENDS Integers, Sequences, FiniteSets

CONSTANTS
  Event,        \* events producers put into the topic
  Empty,        \* those of them with an empty value
  RetryCount,   \* values of the retry_count header producers may set: any that Atoi
                \* reads (the greatest int, which attempt cannot count past, is left out)
  maxRetries,   \* of NewConsumerWithDLQ
  Partition,    \* partitions of the dead letter topic
  PartitionOf,  \* the partition of the dead letter topic an event's key goes to
  MaxLog,       \* bound: messages in the topic
  MaxOutbox,    \* bound: dead letters of the outbox worker in a partition
  MaxStops      \* bound: rebalances and crashes

ASSUME ConsumerAssumption ==
  /\ Empty \subseteq Event /\ RetryCount \subseteq Int /\ maxRetries \in Nat \ {0}
  /\ PartitionOf \in [Event -> Partition]
  /\ MaxLog \in Nat /\ MaxOutbox \in Nat /\ MaxStops \in Nat

VARIABLES
  topic,      \* the log: event and retry count of each message
  committed,  \* offsets up to this one are committed; NoOffset if none is
  marked,     \* the highest offset the session marked
  pos,        \* the next offset the session delivers
  consumer,   \* where ConsumeClaim is
  dlq,        \* the partitions of the dead letter topic
  settled,    \* offsets handled or sent to the dead letter topic (auxiliary)
  dropped,    \* offsets left unmarked after an error (auxiliary)
  behind,     \* offsets before the start of a session that found no commit (auxiliary)
  stops       \* rebalances and crashes so far

group == <<committed, marked, pos>>

outcome == <<settled, dropped, behind>>

consumerVars == <<topic, group, consumer, dlq, outcome, stops>>

NoOffset == 0

Label == {"out", "wait", "handle", "pause", "deadletter"}

\* A dead letter: written by a consumer (original_value may be empty) or by
\* the outbox worker.
DeadLetter == [kind : {"consumer", "empty", "outbox"}, event : Event]

ConsumerTypeOK ==
  /\ topic \in Seq([event : Event, retryCount : RetryCount \cup {0}])
  /\ committed \in 0 .. MaxLog /\ marked \in 0 .. MaxLog /\ pos \in 1 .. MaxLog + 1
  /\ consumer \in [pc : Label, offset : 0 .. MaxLog, attempt : Int, canceled : BOOLEAN]
  /\ consumer.pc \in {"handle", "pause"} => consumer.attempt <= maxRetries
  /\ dlq \in [Partition -> Seq(DeadLetter)]
  /\ settled \cup dropped \cup behind \subseteq 1 .. Len(topic)
  /\ stops \in Nat

Out == [pc |-> "out", offset |-> 0, attempt |-> 0, canceled |-> FALSE]

ConsumerInit ==
  /\ topic = <<>>
  /\ committed = NoOffset /\ marked = 0 /\ pos = 1
  /\ consumer = Out
  /\ dlq = [p \in Partition |-> <<>>]
  /\ settled = {} /\ dropped = {} /\ behind = {}
  /\ stops = 0

-----------------------------------------------------------------------------

At(label) == consumer.pc = label

Current == topic[consumer.offset]

Publish(event, retryCount) ==
  /\ Len(topic) < MaxLog
  /\ topic' = Append(topic, [event |-> event, retryCount |-> retryCount])

PutDeadLetter(kind, event) ==
  dlq' = [dlq EXCEPT ![PartitionOf[event]] = Append(@, [kind |-> kind, event |-> event])]

Produce(event) ==
  /\ \E n \in RetryCount : Publish(event, n)
  /\ UNCHANGED <<group, consumer, dlq, outcome, stops>>

\* Start calls Consume in a loop: a session begins.
JoinGroup ==
  /\ At("out")
  /\ consumer' = [Out EXCEPT !.pc = "wait"]
  /\ pos' = (IF committed = NoOffset THEN Len(topic) ELSE committed) + 1
  /\ behind' = behind \cup (IF committed = NoOffset THEN 1 .. Len(topic) \ settled ELSE {})
  /\ UNCHANGED <<topic, committed, marked, dlq, settled, dropped, stops>>

\* Variant: the offset is marked when the message is taken.
DeliverMarked ==
  /\ At("wait") /\ pos <= Len(topic)
  /\ pos' = pos + 1
  /\ marked' = pos
  /\ LET attempt == topic[pos].retryCount + 1
     IN  consumer' = [consumer EXCEPT !.offset = pos, !.attempt = attempt,
                        !.pc = IF attempt > maxRetries THEN "deadletter" ELSE "handle"]
  /\ UNCHANGED <<topic, committed, dlq, outcome, stops>>

\* ConsumeClaim takes the next message.  The select may do so although the
\* session has ended.  A message that comes with all its retries used up goes
\* to the dead letter topic at once.
Deliver ==
  /\ At("wait") /\ pos <= Len(topic)
  /\ pos' = pos + 1
  /\ LET attempt == topic[pos].retryCount + 1
     IN  consumer' = [consumer EXCEPT !.offset = pos, !.attempt = attempt,
                        !.pc = IF attempt > maxRetries THEN "deadletter" ELSE "handle"]
  /\ UNCHANGED <<topic, committed, marked, dlq, outcome, stops>>

\* handleMessageWithRetry returned nil: MarkMessage.
Done == marked' = consumer.offset /\ consumer' = [consumer EXCEPT !.pc = "wait", !.offset = 0, !.attempt = 0]

\* handleMessageWithRetry returned an error: the message is left unmarked and
\* the loop goes on.
Drop ==
  /\ dropped' = dropped \cup {consumer.offset}
  /\ consumer' = [consumer EXCEPT !.pc = "wait", !.offset = 0, !.attempt = 0]
  /\ UNCHANGED marked

HandlerSucceeds ==
  /\ At("handle")
  /\ settled' = settled \cup {consumer.offset}
  /\ Done
  /\ UNCHANGED <<topic, committed, pos, dlq, dropped, behind, stops>>

AfterError(c) == [c EXCEPT !.pc = IF c.attempt >= maxRetries THEN "deadletter" ELSE "pause"]

HandlerFails ==
  /\ At("handle")
  /\ consumer' = AfterError(consumer)
  /\ UNCHANGED <<topic, group, dlq, outcome, stops>>

\* Variant: the attempt is not counted.
PauseUncounted ==
  /\ At("pause")
  /\ consumer' = [consumer EXCEPT !.pc = "handle"]
  /\ UNCHANGED <<topic, group, dlq, outcome, stops>>

Pause ==
  /\ At("pause")
  /\ consumer' = [consumer EXCEPT !.pc = "handle", !.attempt = @ + 1]
  /\ UNCHANGED <<topic, group, dlq, outcome, stops>>

\* sleepWithContext: the session ends during the pause.
PauseCanceled ==
  /\ At("pause") /\ consumer.canceled
  /\ Drop
  /\ UNCHANGED <<topic, committed, pos, dlq, settled, behind, stops>>

\* handleMaxRetriesExceeded.
SendToDLQ ==
  /\ At("deadletter")
  /\ PutDeadLetter(IF Current.event \in Empty THEN "empty" ELSE "consumer", Current.event)
  /\ settled' = settled \cup {consumer.offset}
  /\ Done
  /\ UNCHANGED <<topic, committed, pos, dropped, behind, stops>>

\* The dead letter topic cannot be written, or there is no producer for it.
SendToDLQFails ==
  /\ At("deadletter")
  /\ Drop
  /\ UNCHANGED <<topic, committed, pos, dlq, settled, behind, stops>>

-----------------------------------------------------------------------------
(* Offsets and sessions.                                                   *)

Commit == committed' = IF marked > committed THEN marked ELSE committed

AutoCommit ==
  /\ ~At("out") /\ marked > committed
  /\ Commit
  /\ UNCHANGED <<topic, marked, pos, consumer, dlq, outcome, stops>>

\* A rebalance or Stop ends the session's context.
Rebalance ==
  /\ ~At("out") /\ ~consumer.canceled
  /\ stops < MaxStops /\ stops' = stops + 1
  /\ consumer' = [consumer EXCEPT !.canceled = TRUE]
  /\ UNCHANGED <<topic, group, dlq, outcome>>

\* ConsumeClaim returns, and the session commits what was marked.
EndSession ==
  /\ At("wait") /\ consumer.canceled
  /\ Commit
  /\ consumer' = Out /\ marked' = 0 /\ pos' = 1
  /\ UNCHANGED <<topic, dlq, outcome, stops>>

CrashConsumer ==
  /\ ~At("out")
  /\ stops < MaxStops /\ stops' = stops + 1
  /\ consumer' = Out /\ marked' = 0 /\ pos' = 1
  /\ UNCHANGED <<topic, committed, dlq, outcome>>

\* Another part of the system writes a dead letter: the outbox worker.
OutboxDeadLetter(event) ==
  /\ Len(dlq[PartitionOf[event]]) < MaxOutbox
  /\ PutDeadLetter("outbox", event)
  /\ UNCHANGED <<topic, group, consumer, outcome, stops>>

ConsumerStep ==
  \/ JoinGroup \/ Deliver \/ HandlerSucceeds \/ Pause \/ PauseCanceled \/ SendToDLQ
  \/ SendToDLQFails \/ EndSession

ConsumerNext ==
  \/ ConsumerStep \/ HandlerFails \/ AutoCommit \/ Rebalance \/ CrashConsumer
  \/ \E e \in Event : Produce(e) \/ OutboxDeadLetter(e)

-----------------------------------------------------------------------------
(* Properties of the consumer.                                             *)

\* A message whose handling failed and that is not in the dead letter topic is
\* delivered again, unless a later one was settled and committed: MarkMessage
\* marks every offset up to the one it is given, and only a settled one is
\* marked.  A session that found no commit starts behind the others.
SkipsHaveACause ==
  \A i \in 1 .. committed \ (settled \cup behind) :
    i \in dropped /\ \E j \in settled : i < j /\ j <= committed

\* A message that ConsumeClaim leaves unmarked "is in the DLQ already or will be
\* reprocessed" (consumer.go:137): no later commit passes it.
UnmarkedComesBack == \A i \in dropped : i \in settled \/ committed < i

\* Every message is taken up in the end, through rebalances and crashes: time
\* and again none is outstanding.
ConsumedEventually == []<>(1 .. Len(topic) \subseteq settled \cup dropped \cup behind)

=============================================================================
