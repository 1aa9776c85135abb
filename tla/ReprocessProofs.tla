-------------------------- MODULE ReprocessProofs ---------------------------
(***************************************************************************)
(* Proofs about the consumer and the dead letter reprocessor, for every    *)
(* number of messages, partitions, retries and entries.  The bookkeeping   *)
(* of the consumer (Offsets) says what is known of the offsets below the   *)
(* session's position; that of the reprocessor (Cursor, Complete) what the *)
(* offsets of a partition say of the entries replayed.  The two meet in    *)
(* the dead letter topic, which only grows.                                *)
(***************************************************************************)
EXTENDS Reprocess, FiniteSetTheorems, WellFoundedInduction, TLAPS

Message == [event : Event, retryCount : Int]

Busy == consumer.pc \in {"handle", "pause", "deadletter"}

Taken == settled \cup dropped \cup behind

ConsumerTypes ==
  /\ topic \in Seq(Message)
  /\ committed \in Nat /\ marked \in Nat /\ pos \in Nat
  /\ consumer \in [pc : Label, offset : Nat, attempt : Int, canceled : BOOLEAN]
  /\ dlq \in [Partition -> Seq(DeadLetter)]

\* Every offset the session has passed is taken care of, except the one it is
\* working on, and that one is above every mark.
Offsets ==
  /\ At("out") => marked = 0
  /\ ~At("out") => marked < pos /\ \A i \in 1 .. pos - 1 : i \in Taken \/ i = consumer.offset
  /\ At("wait") => consumer.offset = 0
  /\ Busy => /\ consumer.offset = pos - 1 /\ marked < consumer.offset
             /\ consumer.offset \in 1 .. Len(topic)

\* Committed offsets are taken care of.
Covered == 1 .. committed \subseteq Taken

ConsumerInv == ConsumerTypes /\ Offsets /\ Covered

\* Only settled messages are marked, and only marks are committed.
Marks == marked \in settled \cup {0} /\ committed \in settled \cup {NoOffset}

\* Entries are replayed one by one and counted.
Cursor(r) ==
  /\ r \in Replay
  /\ IsFiniteSet(r.sent) /\ Cardinality(r.sent) <= r.processed + r.stats
  /\ r.processed + r.stats <= limit
  /\ \A p \in Partition : r.snapshot[p] <= Len(dlq[p])
  /\ \A p \in r.todo : r.snapshot[p] # 0 => r.pc = "read" /\ p = r.partition
  /\ r.pc # "read" => r.stats = 0
  /\ r.pc = "read" => /\ r.partition \in r.todo
                      /\ 1 <= r.next /\ r.next <= r.end + 1 /\ r.end = r.snapshot[r.partition]

Replayed(r, p, n) == \A i \in 1 .. n : Supported(dlq[p][i]) => <<p, i>> \in r.sent

\* A run below its limit has replayed what it passed; one that started behind
\* older entries has as many before it as its limit allows.
Complete(r) ==
  ~r.early /\ r.processed < limit =>
    /\ \A p \in Partition \ r.todo : Replayed(r, p, r.snapshot[p])
    /\ r.pc = "read" => \/ Replayed(r, r.partition, r.next - 1)
                       \/ r.end + 1 - r.next = limit - r.processed - r.stats

RunInv(r) == Cursor(r) /\ Complete(r)

ReplayInv == RunInv(replay)

\* What a step may do to the dead letter topic.
Grows ==
  \A p \in Partition : /\ Len(dlq[p]) <= Len(dlq'[p])
                       /\ \A i \in 1 .. Len(dlq[p]) : dlq'[p][i] = dlq[p][i]

USE ConsumerAssumption, ReprocessAssumption

-----------------------------------------------------------------------------

\* With empty topics and no run of the tool the invariants hold.
LEMMA Initially == Init => ConsumerInv /\ ReplayInv
<1> SUFFICES ASSUME Init PROVE ConsumerInv /\ ReplayInv
  OBVIOUS
<1>1. ConsumerInv
  BY DEF Init, ConsumerInit, ConsumerInv, ConsumerTypes, Offsets, Covered, Out, At, Busy,
         NoOffset, Label, Taken
<1>2. replay \in Replay /\ IsFiniteSet(replay.sent) /\ Cardinality(replay.sent) = 0
  <2>1. replay = NoReplay
    BY DEF Init
  <2>2. replay.sent = {}
    BY <2>1 DEF NoReplay
  <2> QED BY <2>1, <2>2, FS_EmptySet DEF NoReplay, Replay
<1>3. Cursor(replay)
  BY <1>2 DEF Init, ConsumerInit, NoReplay, Cursor
<1>4. Complete(replay)
  BY DEF Init, NoReplay, Complete, Replayed
<1> QED BY <1>1, <1>3, <1>4 DEF ReplayInv, RunInv

\* A message more in the topic.
LEMMA Publishes ==
  ASSUME ConsumerInv, NEW e \in Event, NEW n \in Int, Publish(e, n),
         UNCHANGED <<group, consumer, dlq, outcome, stops>>
  PROVE  ConsumerInv'
<1>1. [event |-> e, retryCount |-> n] \in Message
  BY DEF Message
<1>2. topic' \in Seq(Message) /\ Len(topic') = Len(topic) + 1 /\ Len(topic) \in Nat
  BY <1>1 DEF Publish, ConsumerInv, ConsumerTypes
<1> QED
  BY <1>2 DEF ConsumerInv, ConsumerTypes, Offsets, Covered, At, Busy, group, outcome, Taken

\* A dead letter more.
LEMMA PutsDeadLetter ==
  ASSUME ConsumerTypes, NEW e \in Event, NEW k \in {"consumer", "empty", "outbox"}, PutDeadLetter(k, e)
  PROVE  dlq' \in [Partition -> Seq(DeadLetter)] /\ Grows
<1> DEFINE q == PartitionOf[e]
           d == [kind |-> k, event |-> e]
<1>1. q \in Partition /\ d \in DeadLetter
  BY DEF DeadLetter
<1>2. dlq' = [dlq EXCEPT ![q] = Append(@, d)]
  BY DEF PutDeadLetter
<1> HIDE DEF q, d
<1>3. dlq \in [Partition -> Seq(DeadLetter)]
  BY DEF ConsumerTypes
<1>4. /\ Append(dlq[q], d) \in Seq(DeadLetter)
      /\ Len(Append(dlq[q], d)) = Len(dlq[q]) + 1
      /\ \A i \in 1 .. Len(dlq[q]) : Append(dlq[q], d)[i] = dlq[q][i]
  BY <1>1, <1>3
<1>5. \A p \in Partition : Len(dlq[p]) \in Nat
  BY <1>3
<1> QED BY <1>1, <1>2, <1>3, <1>4, <1>5 DEF Grows

\* A session that is through with a message waits for the next one.
LEMMA Rests ==
  ASSUME NEW c \in [pc : Label, offset : Nat, attempt : Int, canceled : BOOLEAN], NEW n \in Int
  PROVE  LET d == [c EXCEPT !.pc = "wait", !.offset = 0, !.attempt = n]
         IN  /\ d.pc = "wait" /\ d.offset = 0
             /\ d \in [pc : Label, offset : Nat, attempt : Int, canceled : BOOLEAN]
BY DEF Label

\* Done and Drop leave the offset that was worked on taken care of.
LEMMA Closes ==
  ASSUME ConsumerInv, Busy,
         UNCHANGED <<topic, committed, pos>>, dlq' \in [Partition -> Seq(DeadLetter)],
         Taken' = Taken \cup {consumer.offset},
         consumer' = [consumer EXCEPT !.pc = "wait", !.offset = 0, !.attempt = 0],
         marked' \in {marked, consumer.offset}
  PROVE  ConsumerInv'
<1>1. /\ consumer'.pc = "wait" /\ consumer'.offset = 0
      /\ consumer' \in [pc : Label, offset : Nat, attempt : Int, canceled : BOOLEAN]
  <2>1. consumer \in [pc : Label, offset : Nat, attempt : Int, canceled : BOOLEAN]
    BY DEF ConsumerInv, ConsumerTypes
  <2>2. 0 \in Int
    OBVIOUS
  <2> QED BY <2>1, <2>2, Rests, Zenon
<1>2. consumer.offset = pos - 1 /\ marked < consumer.offset /\ consumer.offset \in Nat
      /\ pos \in Nat /\ marked \in Nat /\ committed \in Nat
  BY DEF ConsumerInv, ConsumerTypes, Offsets
<1>3. \A i \in 1 .. pos - 1 : i \in Taken'
  BY DEF ConsumerInv, Offsets, Busy, At
<1>4. Offsets'
  BY <1>1, <1>2, <1>3 DEF Offsets, At, Busy
<1> QED
  BY <1>1, <1>2, <1>4 DEF ConsumerInv, ConsumerTypes, Covered, Taken

\* The consumer works on another attempt of the same message.
LEMMA Retries ==
  ASSUME ConsumerInv, Busy, UNCHANGED <<topic, group, dlq, outcome>>,
         consumer'.pc \in {"handle", "pause", "deadletter"}, consumer'.offset = consumer.offset,
         consumer' \in [pc : Label, offset : Nat, attempt : Int, canceled : BOOLEAN]
  PROVE  ConsumerInv'
BY DEF ConsumerInv, ConsumerTypes, Offsets, Covered, At, Busy, group, outcome, Taken

\* The session is over.
LEMMA Leaves ==
  ASSUME ConsumerInv, UNCHANGED <<topic, dlq, outcome>>, consumer' = Out, marked' = 0, pos' = 1,
         committed' = committed \/ Commit, ~At("out")
  PROVE  ConsumerInv'
<1>1. 1 .. marked \subseteq Taken /\ marked \in Nat /\ committed \in Nat
  BY DEF ConsumerInv, ConsumerTypes, Offsets, At, Busy, Label
<1>2. committed' \in Nat /\ 1 .. committed' \subseteq Taken
  BY <1>1 DEF Commit, ConsumerInv, Covered, Taken
<1> QED
  BY <1>2 DEF ConsumerInv, ConsumerTypes, Offsets, Covered, At, Busy, outcome, Taken, Out, Label

-----------------------------------------------------------------------------

\* One step of the consumer, or of those who write into its topics.
LEMMA ConsumerStepKeeps ==
  ASSUME ConsumerInv, ConsumerNext PROVE ConsumerInv' /\ Grows
<1>a. ASSUME UNCHANGED dlq PROVE Grows
  BY <1>a DEF Grows, ConsumerInv, ConsumerTypes
<1>b. consumer \in [pc : Label, offset : Nat, attempt : Int, canceled : BOOLEAN]
  BY DEF ConsumerInv, ConsumerTypes
<1>1. CASE JoinGroup
  <2>1. Len(topic) \in Nat /\ committed \in Nat
    BY DEF ConsumerInv, ConsumerTypes
  <2>2. /\ consumer'.pc = "wait" /\ consumer'.offset = 0
        /\ consumer' \in [pc : Label, offset : Nat, attempt : Int, canceled : BOOLEAN]
    <3>1. PICK n \in Int : n = 0
      OBVIOUS
    <3>2. consumer' = [pc |-> "wait", offset |-> 0, attempt |-> n, canceled |-> FALSE]
      BY <1>1, <3>1 DEF JoinGroup, Out
    <3> QED BY <3>2 DEF Label
  <2>3. pos' \in Nat /\ pos' > 0 /\ 1 .. pos' - 1 \subseteq Taken'
    BY <1>1, <2>1 DEF JoinGroup, ConsumerInv, Covered, Taken, NoOffset
  <2>4. marked' = 0
    BY <1>1 DEF JoinGroup, ConsumerInv, Offsets
  <2>5. UNCHANGED <<topic, committed, dlq>> /\ Taken \subseteq Taken'
    BY <1>1 DEF JoinGroup, Taken
  <2>6. Offsets'
    BY <2>2, <2>3, <2>4 DEF Offsets, At, Busy
  <2> QED
    BY <1>a, <2>2, <2>3, <2>4, <2>5, <2>6 DEF ConsumerInv, ConsumerTypes, Covered, Taken
<1>2. CASE Deliver
  <2>1. pos \in 1 .. Len(topic) /\ Len(topic) \in Nat
    BY <1>2 DEF Deliver, ConsumerInv, ConsumerTypes, Offsets, At
  <2>2. topic[pos].retryCount \in Int
    <3>1. topic[pos] \in Message
      BY <2>1 DEF ConsumerInv, ConsumerTypes
    <3> QED BY <3>1 DEF Message
  <2>3. /\ consumer'.pc \in {"handle", "deadletter"} /\ consumer'.offset = pos
        /\ consumer' \in [pc : Label, offset : Nat, attempt : Int, canceled : BOOLEAN]
    <3>1. PICK n \in Int : n = topic[pos].retryCount + 1
      BY <2>2
    <3>2. PICK l \in {"handle", "deadletter"} :
            consumer' = [consumer EXCEPT !.offset = pos, !.attempt = n, !.pc = l]
      BY <1>2, <3>1 DEF Deliver
    <3>3. pos \in Nat
      BY <2>1
    <3>4. consumer' \in [pc : Label, offset : Nat, attempt : Int, canceled : BOOLEAN]
      BY <1>b, <3>2, <3>3 DEF Label
    <3> QED BY <1>b, <3>2, <3>4
  <2>4. \A i \in 1 .. pos - 1 : i \in Taken
    BY <1>2 DEF Deliver, ConsumerInv, ConsumerTypes, Offsets, At
  <2>5. pos' = pos + 1 /\ UNCHANGED <<topic, committed, marked, dlq, settled, dropped, behind>>
    BY <1>2 DEF Deliver, outcome
  <2>6. marked < pos /\ marked \in Nat
    BY <1>2 DEF Deliver, ConsumerInv, ConsumerTypes, Offsets, At
  <2>7. Offsets'
    BY <2>1, <2>3, <2>4, <2>5, <2>6 DEF Offsets, At, Busy, Taken
  <2> QED
    BY <1>a, <2>1, <2>3, <2>5, <2>7 DEF ConsumerInv, ConsumerTypes, Covered, Taken
<1>3. CASE HandlerSucceeds \/ PauseCanceled \/ SendToDLQFails
  <2>1. /\ Busy /\ UNCHANGED <<topic, committed, pos, dlq>>
        /\ consumer' = [consumer EXCEPT !.pc = "wait", !.offset = 0, !.attempt = 0]
        /\ marked' \in {marked, consumer.offset}
        /\ Taken' = Taken \cup {consumer.offset}
    BY <1>3 DEF HandlerSucceeds, PauseCanceled, SendToDLQFails, Done, Drop, At, Busy, Taken
  <2>2. dlq' \in [Partition -> Seq(DeadLetter)]
    BY <2>1 DEF ConsumerInv, ConsumerTypes
  <2> QED BY <1>a, <2>1, <2>2, Closes
<1>4. CASE SendToDLQ
  <2>1. /\ Busy /\ UNCHANGED <<topic, committed, pos>>
        /\ consumer' = [consumer EXCEPT !.pc = "wait", !.offset = 0, !.attempt = 0]
        /\ marked' \in {marked, consumer.offset}
        /\ Taken' = Taken \cup {consumer.offset}
    BY <1>4 DEF SendToDLQ, Done, At, Busy, Taken
  <2>2. Current.event \in Event
    <3>1. consumer.offset \in 1 .. Len(topic) /\ topic \in Seq(Message)
      BY <2>1 DEF ConsumerInv, ConsumerTypes, Offsets
    <3>2. topic[consumer.offset] \in Message
      BY <3>1
    <3> QED BY <3>2 DEF Current, Message
  <2>3. PICK k \in {"consumer", "empty", "outbox"} : PutDeadLetter(k, Current.event)
    BY <1>4 DEF SendToDLQ
  <2>4. dlq' \in [Partition -> Seq(DeadLetter)] /\ Grows
    BY <2>2, <2>3, PutsDeadLetter DEF ConsumerInv
  <2> QED BY <2>1, <2>4, Closes
<1>5. CASE Pause \/ HandlerFails
  <2>1. /\ Busy /\ UNCHANGED <<topic, group, dlq, outcome>>
        /\ consumer'.pc \in {"handle", "pause", "deadletter"} /\ consumer'.offset = consumer.offset
        /\ consumer' \in [pc : Label, offset : Nat, attempt : Int, canceled : BOOLEAN]
    <3>1. CASE Pause
      <4>1. PICK n \in Int : n = consumer.attempt + 1
        BY <1>b
      <4>2. consumer' = [consumer EXCEPT !.pc = "handle", !.attempt = n]
        BY <3>1, <4>1 DEF Pause
      <4>3. consumer' \in [pc : Label, offset : Nat, attempt : Int, canceled : BOOLEAN]
        BY <4>2, <1>b DEF Label
      <4> QED BY <3>1, <4>2, <4>3, <1>b DEF Pause, At, Busy
    <3>2. CASE HandlerFails
      <4>1. PICK l \in {"pause", "deadletter"} : consumer' = [consumer EXCEPT !.pc = l]
        BY <3>2 DEF HandlerFails, AfterError
      <4> QED BY <3>2, <4>1, <1>b DEF HandlerFails, At, Busy, Label
    <3> QED BY <1>5, <3>1, <3>2
  <2> QED BY <1>a, <2>1, Retries
<1>6. CASE AutoCommit
  <2>1. 1 .. marked \subseteq Taken /\ marked \in Nat
    BY <1>6 DEF AutoCommit, ConsumerInv, ConsumerTypes, Offsets, At, Busy, Label
  <2>2. committed' = marked /\ UNCHANGED <<topic, marked, pos, consumer, dlq, settled, dropped, behind>>
    BY <1>6 DEF AutoCommit, Commit, outcome
  <2> QED
    BY <1>a, <2>1, <2>2 DEF ConsumerInv, ConsumerTypes, Offsets, Covered, Taken, At, Busy
<1>7. CASE Rebalance
  <2>1. /\ consumer'.pc = consumer.pc /\ consumer'.offset = consumer.offset
        /\ consumer' \in [pc : Label, offset : Nat, attempt : Int, canceled : BOOLEAN]
        /\ UNCHANGED <<topic, committed, marked, pos, dlq, settled, dropped, behind>>
    BY <1>7, <1>b DEF Rebalance, group, outcome
  <2> QED
    BY <1>a, <2>1 DEF ConsumerInv, ConsumerTypes, Offsets, Covered, Taken, At, Busy
<1>8. CASE EndSession \/ CrashConsumer
  <2>1. /\ ~At("out") /\ UNCHANGED <<topic, dlq, outcome>> /\ consumer' = Out /\ marked' = 0 /\ pos' = 1
        /\ committed' = committed \/ Commit
    BY <1>8 DEF EndSession, CrashConsumer, At
  <2> QED BY <1>a, <2>1, Leaves
<1>9. ASSUME NEW e \in Event, Produce(e) PROVE ConsumerInv' /\ Grows
  <2>1. PICK n \in RetryCount : Publish(e, n)
    BY <1>9 DEF Produce
  <2>2. UNCHANGED <<group, consumer, dlq, outcome, stops>>
    BY <1>9 DEF Produce
  <2>3. n \in Int
    OBVIOUS
  <2> QED BY <1>a, <2>1, <2>2, <2>3, Publishes
<1>10. ASSUME NEW e \in Event, OutboxDeadLetter(e) PROVE ConsumerInv' /\ Grows
  <2>1. PutDeadLetter("outbox", e) /\ UNCHANGED <<topic, group, consumer, outcome>>
    BY <1>10 DEF OutboxDeadLetter
  <2>2. dlq' \in [Partition -> Seq(DeadLetter)] /\ Grows
    BY <2>1, PutsDeadLetter DEF ConsumerInv
  <2> QED
    BY <2>1, <2>2 DEF ConsumerInv, ConsumerTypes, Offsets, Covered, Taken, At, Busy, group, outcome
<1> QED
  BY <1>1, <1>2, <1>3, <1>4, <1>5, <1>6, <1>7, <1>8, <1>9, <1>10 DEF ConsumerNext, ConsumerStep

-----------------------------------------------------------------------------

\* What the run has done stays true of a dead letter topic that grows.
LEMMA GrowsKeeps ==
  ASSUME ReplayInv, ConsumerTypes, ConsumerTypes', Grows, UNCHANGED replay PROVE ReplayInv'
<1> DEFINE r == replay
<1>1. \A p \in Partition : Len(dlq[p]) \in Nat /\ Len(dlq'[p]) \in Nat /\ Len(dlq[p]) <= Len(dlq'[p])
  BY DEF ConsumerTypes, Grows
<1>2. /\ \A p \in Partition : r.snapshot[p] \in Nat /\ r.snapshot[p] <= Len(dlq[p])
      /\ r.next \in Nat /\ r.end \in Nat /\ r.todo \subseteq Partition /\ r.snapshot \in [Partition -> Nat]
  BY DEF ReplayInv, RunInv, Cursor, Replay
<1>3. Cursor(r)'
  <2>1. ASSUME NEW p \in Partition PROVE r.snapshot[p] <= Len(dlq'[p])
    <3>1. /\ r.snapshot[p] \in Nat /\ Len(dlq[p]) \in Nat /\ Len(dlq'[p]) \in Nat
          /\ r.snapshot[p] <= Len(dlq[p]) /\ Len(dlq[p]) <= Len(dlq'[p])
      BY <1>1, <1>2
    <3> QED BY <3>1
  <2> QED BY <2>1 DEF ReplayInv, RunInv, Cursor
<1>4. ASSUME NEW p \in Partition, NEW n \in Nat, n <= Len(dlq[p]), Replayed(r, p, n)
      PROVE  Replayed(r, p, n)'
  <2>1. \A i \in 1 .. n : i \in 1 .. Len(dlq[p])
    BY <1>1, <1>4
  <2> QED BY <1>4, <2>1 DEF Grows, Replayed, Supported
<1>5. ASSUME r.pc = "read"
      PROVE  /\ r.partition \in Partition /\ r.next - 1 \in Nat
             /\ r.next - 1 <= Len(dlq[r.partition])
  <2>1. /\ r.partition \in Partition /\ 1 <= r.next /\ r.next <= r.end + 1
        /\ r.end = r.snapshot[r.partition]
    BY <1>2, <1>5 DEF ReplayInv, RunInv, Cursor
  <2>2. r.end <= Len(dlq[r.partition]) /\ Len(dlq[r.partition]) \in Nat
    BY <1>1, <1>2, <2>1
  <2> QED BY <1>2, <2>1, <2>2
<1>6. Complete(r)'
  BY <1>2, <1>4, <1>5 DEF ReplayInv, RunInv, Complete
<1> QED BY <1>3, <1>6 DEF ReplayInv, RunInv

\* The entry a run reads, if it is not at the end.
LEMMA EntryFact ==
  ASSUME ReplayInv, ConsumerTypes, replay.pc = "read", replay.next <= replay.end
  PROVE  Entry \in DeadLetter
<1>1. /\ replay.partition \in Partition /\ replay.next \in Nat /\ replay.end \in Nat
      /\ 1 <= replay.next /\ replay.end <= Len(dlq[replay.partition])
  BY DEF ReplayInv, RunInv, Cursor, Replay
<1>2. dlq[replay.partition] \in Seq(DeadLetter)
  BY <1>1 DEF ConsumerTypes
<1>3. replay.next \in 1 .. Len(dlq[replay.partition])
  BY <1>1, <1>2
<1> QED BY <1>2, <1>3 DEF Entry

\* The run reads an entry; sent says whether it replayed it.
LEMMA CountsEntry ==
  ASSUME ReplayInv, Reading, replay.next <= replay.end,
         NEW sent, \/ sent = replay.sent \cup {<<replay.partition, replay.next>>}
                   \/ sent = replay.sent /\ ~Supported(Entry),
         NEW r, r = [Counted EXCEPT !.sent = sent]
  PROVE  RunInv(r) /\ r.pc = "read" /\ r.next = replay.next + 1 /\ r.end = replay.end
<1>1. replay \in Replay /\ replay.partition \in Partition /\ replay.next \in Nat
  BY DEF ReplayInv, RunInv, Cursor, Reading, Replay
<1>2. /\ sent \in SUBSET (Partition \X Nat)
      /\ IsFiniteSet(sent) /\ Cardinality(sent) \in {Cardinality(replay.sent), Cardinality(replay.sent) + 1}
      /\ replay.sent \subseteq sent /\ Cardinality(replay.sent) \in Nat
  <2>1. IsFiniteSet(replay.sent) /\ replay.sent \in SUBSET (Partition \X Nat)
    BY DEF ReplayInv, RunInv, Cursor, Replay
  <2>2. Cardinality(replay.sent) \in Nat
    BY <2>1, FS_CardinalityType
  <2> DEFINE more == replay.sent \cup {<<replay.partition, replay.next>>}
  <2>3. IsFiniteSet(more) /\ Cardinality(more) \in {Cardinality(replay.sent), Cardinality(replay.sent) + 1}
    BY <2>1, FS_AddElement
  <2>4. more \in SUBSET (Partition \X Nat) /\ replay.sent \subseteq more
    BY <1>1, <2>1
  <2>5. sent = more \/ sent = replay.sent
    OBVIOUS
  <2> HIDE DEF more
  <2> QED BY <2>1, <2>2, <2>3, <2>4, <2>5
<1>3. /\ r.stats = replay.stats + 1 /\ r.next = replay.next + 1 /\ r.sent = sent
      /\ r.pc = "read" /\ r.todo = replay.todo /\ r.partition = replay.partition
      /\ r.processed = replay.processed /\ r.end = replay.end
      /\ r.snapshot = replay.snapshot /\ r.early = replay.early
      /\ r \in Replay
  <2>1. PICK n \in Nat, m \in Nat : n = replay.stats + 1 /\ m = replay.next + 1
    BY <1>1 DEF Replay
  <2>2. r = [replay EXCEPT !.stats = n, !.next = m, !.sent = sent]
    BY <2>1 DEF Counted
  <2>3. sent \in SUBSET (Partition \X Nat)
    BY <1>2
  <2>4. r \in Replay
    <3>1. [replay EXCEPT !.stats = n, !.next = m] \in Replay
      BY <1>1 DEF Replay
    <3>2. r = [[replay EXCEPT !.stats = n, !.next = m] EXCEPT !.sent = sent]
      BY <1>1, <2>2 DEF Replay
    <3> QED BY <2>3, <3>1, <3>2 DEF Replay
  <2> QED BY <1>1, <2>1, <2>2, <2>4 DEF Replay, Reading
<1>4. /\ replay.stats \in Nat /\ replay.processed \in Nat /\ replay.end \in Nat
      /\ replay.stats < limit - replay.processed
  BY <1>1 DEF Replay, Reading, Remaining
<1>5. Cursor(r)
  <2>1. Cardinality(sent) <= replay.processed + (replay.stats + 1)
    <3>1. Cardinality(replay.sent) <= replay.processed + replay.stats
      BY DEF ReplayInv, RunInv, Cursor
    <3>2. Cardinality(sent) \in Nat /\ Cardinality(sent) <= Cardinality(replay.sent) + 1
      BY <1>2
    <3> QED BY <1>2, <1>4, <3>1, <3>2
  <2>2. replay.processed + (replay.stats + 1) <= limit
    BY <1>4
  <2>3. Cursor(replay) /\ replay.pc = "read"
    BY DEF ReplayInv, RunInv, Reading
  <2>4. /\ r.partition \in r.todo /\ 1 <= r.next /\ r.next <= r.end + 1
        /\ r.end = r.snapshot[r.partition]
    <3>1. /\ replay.partition \in replay.todo /\ 1 <= replay.next
          /\ replay.end = replay.snapshot[replay.partition]
      BY <2>3 DEF Cursor
    <3> QED BY <1>1, <1>3, <1>4, <3>1
  <2>5. /\ \A p \in Partition : r.snapshot[p] <= Len(dlq[p])
        /\ \A p \in r.todo : r.snapshot[p] # 0 => p = r.partition
    BY <1>3, <2>3 DEF Cursor
  <2> QED BY <1>2, <1>3, <2>1, <2>2, <2>4, <2>5 DEF Cursor
<1>6. ASSUME NEW p, NEW n, Replayed(replay, p, n) PROVE Replayed(r, p, n)
  BY <1>2, <1>3, <1>6 DEF Replayed
<1>7. ASSUME Replayed(replay, replay.partition, replay.next - 1)
      PROVE  Replayed(r, r.partition, r.next - 1)
  <2>1. \A i \in 1 .. replay.next : i \in 1 .. replay.next - 1 \/ i = replay.next
    BY <1>1
  <2>2. Supported(dlq[replay.partition][replay.next]) => <<replay.partition, replay.next>> \in sent
    BY DEF Entry
  <2>3. Replayed(r, replay.partition, replay.next)
    BY <1>2, <1>3, <1>7, <2>1, <2>2 DEF Replayed
  <2>4. r.next - 1 = replay.next
    BY <1>1, <1>3
  <2> QED BY <1>3, <2>3, <2>4
<1>8. Complete(r)
  <2> SUFFICES ASSUME ~r.early, r.processed < limit
      PROVE  /\ \A p \in Partition \ r.todo : Replayed(r, p, r.snapshot[p])
             /\ \/ Replayed(r, r.partition, r.next - 1)
                \/ r.end + 1 - r.next = limit - r.processed - r.stats
    BY DEF Complete
  <2>1. /\ \A p \in Partition \ replay.todo : Replayed(replay, p, replay.snapshot[p])
        /\ \/ Replayed(replay, replay.partition, replay.next - 1)
           \/ replay.end + 1 - replay.next = limit - replay.processed - replay.stats
    BY <1>3 DEF ReplayInv, RunInv, Complete, Reading
  <2>2. \A p \in Partition \ r.todo : Replayed(r, p, r.snapshot[p])
    BY <1>3, <1>6, <2>1
  <2>3. CASE Replayed(replay, replay.partition, replay.next - 1)
    BY <1>7, <2>2, <2>3
  <2>4. CASE replay.end + 1 - replay.next = limit - replay.processed - replay.stats
    BY <1>1, <1>3, <1>4, <2>2, <2>4
  <2> QED BY <2>1, <2>3, <2>4
<1> QED BY <1>3, <1>5, <1>8 DEF RunInv

\* The run leaves a partition at its end or at the limit, or by the idle timer.
LEMMA LeavesPartition ==
  ASSUME NEW r, RunInv(r), r.pc = "read",
         NEW early \in BOOLEAN, early \/ (early = r.early /\ (r.stats >= limit - r.processed \/ r.next > r.end))
  PROVE  RunInv([NextPartition(r) EXCEPT !.early = early])
<1> DEFINE s == [NextPartition(r) EXCEPT !.early = early]
<1>1. r \in Replay /\ r.stats \in Nat /\ r.processed \in Nat /\ r.next \in Nat /\ r.end \in Nat
      /\ r.todo \subseteq Partition /\ r.snapshot \in [Partition -> Nat]
  BY DEF RunInv, Cursor, Replay
<1>2. PICK n \in Nat : n = r.processed + r.stats
  BY <1>1
<1>3. s = [r EXCEPT !.pc = "partition", !.todo = r.todo \ {r.partition}, !.processed = n, !.stats = 0,
                    !.next = 0, !.end = 0, !.partition = 0, !.early = early]
  BY <1>2 DEF NextPartition
<1>4. PICK todo \in SUBSET Partition : todo = r.todo \ {r.partition}
  BY <1>1
<1> HIDE DEF s
<1>5. /\ s.pc = "partition" /\ s.todo = todo /\ s.processed = n /\ s.stats = 0 /\ s.early = early
      /\ s.sent = r.sent /\ s.snapshot = r.snapshot
  BY <1>1, <1>3, <1>4 DEF Replay
<1>6. s \in Replay
  BY <1>1, <1>3, <1>4 DEF Replay
<1>7. Cursor(s)
  <2>1. Cursor(r)
    BY DEF RunInv
  <2>2. \A p \in todo : r.snapshot[p] = 0
    BY <1>4, <2>1 DEF Cursor
  <2>3. Cardinality(r.sent) <= n + 0 /\ n + 0 <= limit
    BY <1>2, <2>1 DEF Cursor
  <2> QED BY <1>5, <1>6, <2>1, <2>2, <2>3 DEF Cursor
<1>8. Complete(s)
  <2> SUFFICES ASSUME ~early, n < limit, NEW p \in Partition \ todo
      PROVE  Replayed(s, p, s.snapshot[p])
    BY <1>5 DEF Complete
  <2>1. ~r.early /\ r.processed < limit /\ ~(r.stats >= limit - r.processed)
    BY <1>1, <1>2
  <2>2. /\ \A q \in Partition \ r.todo : Replayed(r, q, r.snapshot[q])
        /\ \/ Replayed(r, r.partition, r.next - 1)
           \/ r.end + 1 - r.next = limit - r.processed - r.stats
    BY <2>1 DEF RunInv, Complete
  <2>3. r.next = r.end + 1 /\ r.end = r.snapshot[r.partition]
    <3>1. r.next > r.end
      BY <2>1
    <3>2. r.next <= r.end + 1 /\ r.end = r.snapshot[r.partition]
      BY DEF RunInv, Cursor
    <3> QED BY <1>1, <3>1, <3>2
  <2>4. r.next - 1 = r.snapshot[r.partition] /\ r.end + 1 - r.next = 0
    BY <1>1, <2>3
  <2>5. limit - r.processed - r.stats # 0
    BY <1>1, <2>1
  <2>6. Replayed(r, r.partition, r.snapshot[r.partition])
    BY <2>2, <2>4, <2>5
  <2>7. p \in Partition \ r.todo \/ p = r.partition
    BY <1>4
  <2>8. Replayed(r, p, r.snapshot[p])
    BY <2>2, <2>6, <2>7
  <2> QED BY <1>5, <2>8 DEF Replayed
<1> QED BY <1>7, <1>8 DEF RunInv, s

\* A run that stands between partitions takes up the next one.
LEMMA OpensPartition ==
  ASSUME ReplayInv, ConsumerTypes, OpenPartition PROVE ReplayInv'
<1> DEFINE p == CHOOSE q \in replay.todo : \A o \in replay.todo : q <= o
           newest == Len(dlq[p])
<1>1. /\ replay \in Replay /\ replay.todo \subseteq Partition /\ replay.todo # {}
      /\ replay.processed \in Nat /\ replay.processed < limit /\ replay.stats = 0
      /\ replay.snapshot \in [Partition -> Nat] /\ replay.pc = "partition"
  BY DEF OpenPartition, ReplayInv, RunInv, Cursor, Replay
<1>2. p \in replay.todo
  <2> DEFINE todo == replay.todo
  <2>1. todo \subseteq Nat /\ todo # {}
    BY <1>1
  <2> HIDE DEF todo
  <2>2. PICK q \in todo : \A o \in todo : ~(<<o, q>> \in OpToRel(<, Nat))
    BY <2>1, NatLessThanWellFounded, WFMin
  <2>3. \A o \in todo : o \in Nat /\ q \in Nat /\ ~(o < q)
    BY <2>1, <2>2 DEF OpToRel
  <2>4. \A o \in todo : q <= o
    BY <2>3
  <2> QED BY <2>4 DEF todo
<1> HIDE DEF p
<1>3. newest \in Nat /\ p \in Partition /\ p \in Nat
  <2>1. p \in Partition /\ p \in Nat
    BY <1>1, <1>2
  <2>2. dlq[p] \in Seq(DeadLetter)
    BY <2>1 DEF ConsumerTypes
  <2> QED BY <2>1, <2>2
<1>4. /\ replay' = IF newest = 0 THEN [replay EXCEPT !.todo = @ \ {p}]
                   ELSE [replay EXCEPT !.pc = "read", !.partition = p,
                                       !.next = StartOffset(newest) + 1, !.end = newest,
                                       !.snapshot[p] = newest]
      /\ UNCHANGED dlq
  BY DEF OpenPartition, consumerVars, p
<1> HIDE DEF newest
<1>5. Cursor(replay) /\ Complete(replay)
  BY DEF ReplayInv, RunInv
<1>6. replay.snapshot[p] = 0
  BY <1>1, <1>2, <1>5 DEF Cursor
<1>7. CASE newest = 0
  <2>1. PICK todo \in SUBSET Partition : todo = replay.todo \ {p}
    BY <1>1
  <2>2. replay' = [replay EXCEPT !.todo = todo]
    BY <1>4, <1>7, <2>1
  <2>3. /\ replay' \in Replay /\ replay'.todo = todo /\ replay'.pc = "partition"
        /\ replay'.sent = replay.sent /\ replay'.snapshot = replay.snapshot
        /\ replay'.processed = replay.processed /\ replay'.stats = replay.stats
        /\ replay'.early = replay.early
    BY <1>1, <2>2 DEF Replay
  <2>4. Cursor(replay)'
    BY <1>1, <1>4, <1>5, <2>1, <2>3 DEF Cursor
  <2>5. Replayed(replay, p, 0)
    BY DEF Replayed
  <2>6. Complete(replay)'
    BY <1>1, <1>4, <1>5, <1>6, <2>1, <2>3, <2>5 DEF Complete, Replayed
  <2> QED BY <2>4, <2>6 DEF ReplayInv, RunInv
<1>8. CASE newest # 0
  <2>1. PICK n \in Nat : n = StartOffset(newest) + 1
    BY <1>1, <1>3 DEF StartOffset, Remaining
  <2>2. PICK snapshot \in [Partition -> Nat] : snapshot = [replay.snapshot EXCEPT ![p] = newest]
    BY <1>1, <1>3
  <2>3. replay' = [replay EXCEPT !.pc = "read", !.partition = p, !.next = n, !.end = newest,
                                 !.snapshot = snapshot]
    BY <1>4, <1>8, <2>1, <2>2
  <2>4. /\ replay'.todo = replay.todo /\ replay'.pc = "read" /\ replay'.partition = p
        /\ replay'.next = n /\ replay'.end = newest /\ replay'.snapshot = snapshot
        /\ replay'.sent = replay.sent /\ replay'.processed = replay.processed
        /\ replay'.stats = replay.stats /\ replay'.early = replay.early
    BY <1>1, <2>3 DEF Replay
  <2>5. replay' \in Replay
    BY <1>1, <1>3, <2>3 DEF Replay
  <2>6. 1 <= n /\ n <= newest + 1 /\ (n = 1 \/ newest + 1 - n = limit - replay.processed)
    BY <1>1, <1>3, <2>1 DEF StartOffset, Remaining
  <2>7. /\ snapshot[p] = newest
        /\ \A q \in Partition : q # p => snapshot[q] = replay.snapshot[q]
    BY <1>1, <1>3, <2>2
  <2>8. Cursor(replay)'
    <3>1. \A q \in Partition : snapshot[q] <= Len(dlq[q])
      BY <1>3, <1>5, <2>7 DEF Cursor, newest
    <3>2. \A q \in replay.todo : snapshot[q] # 0 => q = p
      BY <1>1, <1>5, <2>7 DEF Cursor
    <3> QED BY <1>1, <1>2, <1>4, <1>5, <2>4, <2>5, <2>6, <2>7, <3>1, <3>2 DEF Cursor
  <2>9. Complete(replay)'
    <3>1. \A q \in Partition \ replay.todo : snapshot[q] = replay.snapshot[q]
      BY <1>2, <2>7
    <3>2. ASSUME n = 1 PROVE \A i \in 1 .. n - 1 : FALSE
      BY <3>2
    <3>3. limit - replay.processed - replay.stats = limit - replay.processed
      BY <1>1
    <3> QED BY <1>4, <1>5, <2>4, <2>6, <3>1, <3>2, <3>3 DEF Complete, Replayed
  <2> QED BY <2>8, <2>9 DEF ReplayInv, RunInv
<1> QED BY <1>7, <1>8

-----------------------------------------------------------------------------

\* One step of the reprocessor.
LEMMA ReplayStepKeeps ==
  ASSUME ConsumerInv, ReplayInv, ReplayNext PROVE ConsumerInv' /\ ReplayInv'
<1>a. ASSUME UNCHANGED consumerVars PROVE ConsumerInv' /\ UNCHANGED dlq
  BY <1>a DEF consumerVars, ConsumerInv, ConsumerTypes, Offsets, Covered, At, Busy, Taken,
              group, outcome
<1>b. ASSUME UNCHANGED dlq, RunInv(replay') PROVE ReplayInv'
  BY <1>b DEF ReplayInv, RunInv, Cursor, Complete, Replayed
<1>c. NoReplay \in Replay /\ IsFiniteSet({}) /\ Cardinality({}) = 0
  BY FS_EmptySet DEF NoReplay, Replay
<1>d. \A p \in Partition : Len(dlq[p]) \in Nat
  BY DEF ConsumerInv, ConsumerTypes
<1>1. CASE StartReplay
  <2>1. PICK f, e \in BOOLEAN :
          replay' = [NoReplay EXCEPT !.pc = "partition", !.todo = Partition,
                                     !.fromNewest = f, !.execute = e]
    BY <1>1 DEF StartReplay
  <2>2. replay' \in Replay
    BY <1>c, <2>1 DEF Replay
  <2>3. /\ replay'.sent = {} /\ replay'.processed = 0 /\ replay'.stats = 0
        /\ replay'.todo = Partition /\ replay'.pc = "partition"
        /\ \A p \in Partition : replay'.snapshot[p] = 0
    BY <2>1 DEF NoReplay
  <2>4. Cursor(replay')
    <3>1. 0 <= 0 + 0 /\ 0 + 0 <= limit /\ \A p \in Partition : 0 <= Len(dlq[p])
      BY <1>d
    <3> QED BY <1>c, <2>2, <2>3, <3>1 DEF Cursor
  <2>5. Complete(replay')
    BY <2>3 DEF Complete
  <2> QED BY <1>1, <1>a, <1>b, <2>4, <2>5 DEF StartReplay, RunInv
<1>2. CASE OpenPartition
  BY <1>2, <1>a, OpensPartition DEF OpenPartition, ConsumerInv
<1>3. CASE SkipEntry
  <2>1. replay' = [Counted EXCEPT !.sent = replay.sent]
    BY <1>3 DEF SkipEntry, Counted, ReplayInv, RunInv, Cursor, Replay
  <2>2. RunInv(replay')
    BY <1>3, <2>1, CountsEntry DEF SkipEntry
  <2> QED BY <1>3, <1>a, <1>b, <2>2 DEF SkipEntry
<1>4. CASE ReplayEntry
  <2> DEFINE sent == replay.sent \cup {<<replay.partition, replay.next>>}
             r == [Counted EXCEPT !.sent = sent]
  <2>1. RunInv(r) /\ r.pc = "read" /\ r.next = replay.next + 1 /\ r.end = replay.end
    BY <1>4, CountsEntry DEF ReplayEntry
  <2>2. /\ r = [Counted EXCEPT !.sent = @ \cup {<<replay.partition, replay.next>>}]
        /\ replay.next \in Nat /\ replay.end \in Nat
    BY DEF Counted, ReplayInv, RunInv, Cursor, Replay
  <2>3. replay' = IF LastEntry THEN NextPartition(r) ELSE r
    BY <1>4, <2>2 DEF ReplayEntry
  <2> HIDE DEF r
  <2>4. RunInv(replay')
    <3>1. CASE LastEntry
      <4>1. r.next > r.end
        BY <2>1, <2>2, <3>1 DEF LastEntry
      <4>2. r \in Replay
        BY <2>1 DEF RunInv, Cursor
      <4>3. r.early \in BOOLEAN /\ [NextPartition(r) EXCEPT !.early = r.early] = NextPartition(r)
        BY <4>2 DEF NextPartition, Replay
      <4> QED BY <2>1, <2>3, <3>1, <4>1, <4>3, LeavesPartition
    <3>2. CASE ~LastEntry
      BY <2>1, <2>3, <3>2
    <3> QED BY <3>1, <3>2
  <2>5. UNCHANGED dlq /\ ConsumerInv'
    <3>1. CASE UNCHANGED consumerVars
      BY <3>1, <1>a
    <3>2. CASE Publish(Entry.event, 0) /\ UNCHANGED <<group, consumer, dlq, outcome, stops>>
      <4>1. Entry \in DeadLetter
        BY <1>4, EntryFact DEF ReplayEntry, Reading, ConsumerInv
      <4>2. Entry.event \in Event
        BY <4>1 DEF DeadLetter
      <4> QED BY <3>2, <4>2, Publishes
    <3> QED BY <1>4, <3>1, <3>2 DEF ReplayEntry
  <2> QED BY <1>b, <2>4, <2>5
<1>5. CASE LeavePartition \/ IdleTimeout
  <2>1. replay \in Replay /\ RunInv(replay) /\ replay.pc = "read"
    BY <1>5 DEF ReplayInv, RunInv, Cursor, LeavePartition, IdleTimeout, Reading
  <2>2. replay.early \in BOOLEAN /\ [NextPartition(replay) EXCEPT !.early = replay.early] = NextPartition(replay)
    BY <2>1 DEF NextPartition, Replay
  <2>3. CASE LeavePartition
    BY <1>a, <1>b, <2>1, <2>2, <2>3, LeavesPartition DEF LeavePartition, Remaining
  <2>4. CASE IdleTimeout
    BY <1>a, <1>b, <2>1, <2>4, LeavesPartition DEF IdleTimeout
  <2> QED BY <1>5, <2>3, <2>4
<1>6. CASE FinishReplay
  <2>1. replay \in Replay /\ replay.pc = "partition" /\ RunInv(replay)
    BY <1>6 DEF FinishReplay, ReplayInv, RunInv, Cursor
  <2>2. replay' = [replay EXCEPT !.pc = "finished"]
    BY <1>6 DEF FinishReplay
  <2>3. /\ replay' \in Replay /\ replay'.pc = "finished" /\ replay'.sent = replay.sent
        /\ replay'.todo = replay.todo /\ replay'.snapshot = replay.snapshot
        /\ replay'.processed = replay.processed /\ replay'.stats = replay.stats
        /\ replay'.early = replay.early
    BY <2>1, <2>2 DEF Replay
  <2>4. Cursor(replay')
    BY <2>1, <2>3 DEF RunInv, Cursor
  <2>5. Complete(replay')
    BY <2>1, <2>3 DEF RunInv, Complete, Replayed
  <2> QED BY <1>6, <1>a, <1>b, <2>4, <2>5 DEF FinishReplay, RunInv
<1>7. CASE ExitReplay
  <2>1. replay' = NoReplay
    BY <1>7 DEF ExitReplay
  <2>2. Cursor(replay')
    BY <1>c, <1>d, <2>1 DEF NoReplay, Cursor
  <2>3. Complete(replay')
    BY <2>1 DEF NoReplay, Complete, Replayed
  <2> QED BY <1>7, <1>a, <1>b, <2>2, <2>3 DEF ExitReplay, RunInv
<1> QED BY <1>1, <1>2, <1>3, <1>4, <1>5, <1>6, <1>7 DEF ReplayNext

\* The invariants of consumer and tool are inductive together.
LEMMA Inductive == ConsumerInv /\ ReplayInv /\ [Next]_vars => ConsumerInv' /\ ReplayInv'
<1> SUFFICES ASSUME ConsumerInv, ReplayInv, [Next]_vars PROVE ConsumerInv' /\ ReplayInv'
  OBVIOUS
<1>1. CASE ConsumerNext /\ UNCHANGED <<replay, runs>>
  <2>1. ConsumerInv' /\ Grows
    BY <1>1, ConsumerStepKeeps
  <2> QED BY <1>1, <2>1, GrowsKeeps DEF ConsumerInv
<1>2. CASE ReplayNext
  BY <1>2, ReplayStepKeeps
<1>3. CASE UNCHANGED vars
  BY <1>3 DEF vars, consumerVars, ConsumerInv, ConsumerTypes, Offsets, Covered, At, Busy,
       Taken, group, outcome, ReplayInv, RunInv, Cursor, Complete, Replayed
<1> QED BY <1>1, <1>2, <1>3 DEF Next

\* What a session marks it has settled, and it commits no more than it marked.
LEMMA MarksInductive == Marks /\ [Next]_vars => Marks'
<1> SUFFICES ASSUME Marks, [Next]_vars PROVE Marks'
  OBVIOUS
<1>1. ASSUME UNCHANGED <<marked, committed>>, settled \subseteq settled' PROVE Marks'
  BY <1>1 DEF Marks
<1>2. CASE HandlerSucceeds \/ SendToDLQ
  BY <1>2 DEF HandlerSucceeds, SendToDLQ, Done, Marks
<1>3. CASE AutoCommit \/ EndSession \/ CrashConsumer
  BY <1>3 DEF AutoCommit, EndSession, CrashConsumer, Commit, outcome, Marks, NoOffset
<1>4. CASE JoinGroup \/ Deliver \/ Pause \/ PauseCanceled \/ SendToDLQFails \/ HandlerFails \/ Rebalance
  BY <1>1, <1>4 DEF JoinGroup, Deliver, Pause, PauseCanceled, SendToDLQFails, Drop, HandlerFails,
     Rebalance, group, outcome
<1>5. CASE \E e \in Event : Produce(e) \/ OutboxDeadLetter(e)
  BY <1>1, <1>5 DEF Produce, OutboxDeadLetter, group, outcome
<1>6. CASE ReplayNext \/ UNCHANGED vars
  BY <1>1, <1>6 DEF ReplayNext, StartReplay, OpenPartition, SkipEntry, ReplayEntry, LeavePartition,
     IdleTimeout, FinishReplay, ExitReplay, vars, consumerVars, group, outcome
<1> QED BY <1>2, <1>3, <1>4, <1>5, <1>6 DEF Next, ConsumerNext, ConsumerStep

\* A committed offset that was neither handled nor dead-lettered was left unmarked
\* by ConsumeClaim after an error, and a later message was settled and took the
\* commit past it; or a session without a commit started behind it.  This is so
\* with any number of messages, rebalances, crashes and replays.
THEOREM CommitsPassSettledMessages == Spec => []SkipsHaveACause
<1> DEFINE I == ConsumerInv /\ ReplayInv /\ Marks
<1>1. Init => I
  BY Initially DEF Init, ConsumerInit, Marks
<1>2. I /\ [Next]_vars => I'
  BY Inductive, MarksInductive
<1>3. I => SkipsHaveACause
  <2> SUFFICES ASSUME I, NEW i \in 1 .. committed \ (settled \cup behind)
               PROVE  i \in dropped /\ \E j \in settled : i < j /\ j <= committed
    BY DEF SkipsHaveACause
  <2>1. committed \in Nat /\ i \in 1 .. committed /\ i \in dropped
    BY DEF ConsumerInv, ConsumerTypes, Covered, Taken
  <2>2. committed \in settled /\ i # committed
    BY <2>1 DEF Marks, NoOffset
  <2> QED BY <2>1, <2>2
<1> QED BY <1>1, <1>2, <1>3, PTL DEF Spec

\* A run of the reprocessor replays at most limit entries (processPartition
\* gets what the partitions before it left).
THEOREM RunsStayWithinLimit == Spec => []WithinLimit
<1>1. ReplayInv => WithinLimit
  <2> SUFFICES ASSUME ReplayInv PROVE WithinLimit
    OBVIOUS
  <2>1. Cardinality(replay.sent) \in Nat
    BY FS_CardinalityType DEF ReplayInv, RunInv, Cursor
  <2> QED BY <2>1 DEF ReplayInv, RunInv, Cursor, Replay, WithinLimit
<1> QED BY <1>1, Initially, Inductive, PTL DEF Spec

\* A run that ends below its limit with no partition cut short has replayed
\* every dead letter that was there when it reached its partition.
THEOREM FinishedRunsAreComplete == Spec => []FinishedIsComplete
<1>1. ReplayInv => FinishedIsComplete
  <2> SUFFICES ASSUME ReplayInv, replay.pc = "finished", replay.processed < limit, ~replay.early,
                      NEW p \in Partition
               PROVE  Replayed(replay, p, replay.snapshot[p])
    BY DEF FinishedIsComplete, Replayed
  <2>1. CASE p \in replay.todo
    <3>1. replay.snapshot[p] = 0
      BY <2>1 DEF ReplayInv, RunInv, Cursor
    <3> QED BY <3>1 DEF Replayed
  <2>2. CASE p \notin replay.todo
    BY <2>2 DEF ReplayInv, RunInv, Complete
  <2> QED BY <2>1, <2>2
<1> QED BY <1>1, Initially, Inductive, PTL DEF Spec

=============================================================================
