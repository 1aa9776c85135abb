---------------------------- MODULE OutboxProofs ----------------------------
(***************************************************************************)
(* Proofs about Outbox, for any number of workers, messages, faults and    *)
(* stops.  Most steps of a worker leave the table alone; StepInv says once *)
(* what such a step has to respect.  OutboxInv is shown to be inductive;   *)
(* the exclusion of claims and the refinement of Delivery follow from it.  *)
(* Once, which holds as long as nothing has gone wrong (Calm), follows a   *)
(* claimed row to its only worker and gives the absence of duplicates.     *)
(***************************************************************************)
EXTENDS Outbox, FiniteSetTheorems, WellFoundedInduction, TLAPS

\* A set of numbers has a least one: PullPending returns rows in their order.
LEMMA MinExists == ASSUME NEW S, S \subseteq Nat, S # {} PROVE \E m \in S : \A n \in S : m <= n
<1> DEFINE R == OpToRel(<, Nat)
<1>1. IsWellFoundedOn(R, Nat)
  BY NatLessThanWellFounded
<1>2. \E x \in S : \A y \in S : ~(<<y, x>> \in R)
  <2> HIDE DEF R
  <2> QED
    BY <1>1, WFMin, Zenon
<1>3. PICK m \in S : \A y \in S : ~(<<y, m>> \in R)
  BY <1>2
<1>4. ASSUME NEW y \in S PROVE m <= y
  <2>1. <<y, m>> \in Nat \X Nat /\ ~(<<y, m>> \in R)
    BY <1>3
  <2>2. ~(y < m)
    BY <2>1 DEF OpToRel
  <2> QED
    BY <2>2
<1> QED
  BY <1>4

\* Messages are numbered in the order of (created_at, id).
LEMMA MsgIsNat == Msg \subseteq Nat
BY OutboxAssumption DEF Msg

\* The message a busy worker is on is one of its batch.
LEMMA CurrentIn == ASSUME NEW s \in WorkerState, s.batch # {} PROVE Current(s) \in s.batch
<1>1. s.batch \subseteq Nat
  BY MsgIsNat DEF WorkerState
<1>2. \E m \in s.batch : \A n \in s.batch : m <= n
  BY <1>1, MinExists
<1> QED
  BY <1>2 DEF Current

\* The message in hand depends on the batch only.
LEMMA CurrentSame == ASSUME NEW s, NEW t, s.batch = t.batch PROVE Current(s) = Current(t)
BY DEF Current

\* Publishing adds one message to the topic.
LEMMA PublishedAppend ==
  ASSUME topic \in Seq(Msg), NEW m \in Msg, topic' = Append(topic, m)
  PROVE  topic' \in Seq(Msg) /\ Published' = Published \cup {m}
<1>1. /\ Len(topic') = Len(topic) + 1 /\ topic'[Len(topic) + 1] = m
      /\ \A i \in 1 .. Len(topic) : topic'[i] = topic[i]
      /\ DOMAIN topic = 1 .. Len(topic) /\ DOMAIN topic' = 1 .. Len(topic')
      /\ Len(topic) \in Nat /\ topic' \in Seq(Msg)
  OBVIOUS
<1>2. DOMAIN topic' = DOMAIN topic \cup {Len(topic) + 1}
  BY <1>1
<1> QED
  BY <1>1, <1>2 DEF Published

-----------------------------------------------------------------------------

\* With an empty table and idle workers the invariant holds.
LEMMA InitInv == Init => OutboxInv
<1> SUFFICES ASSUME Init PROVE OutboxInv
  OBVIOUS
<1>1. Polling \in WorkerState
  BY OutboxAssumption DEF Polling, WorkerState, Label
<1>2. Published = {}
  BY DEF Init, Published
<1>3. TypeOK
  BY <1>1 DEF Init, TypeOK, RowStatus
<1> QED
  BY <1>2, <1>3 DEF Init, OutboxInv, BusyHasMessage, MarkIsTrue, HeldIsClaimed, RowsAreTrue,
     ClaimsAreExclusive, Polling, At

\* A worker goes from one state to another, takes no new message in hand and
\* leaves the table alone.
LEMMA StepInv ==
  ASSUME OutboxInv, NEW w \in Worker, NEW s \in WorkerState,
         worker' = [worker EXCEPT ![w] = s], s.batch \subseteq worker[w].batch,
         s.batch = {} <=> s.pc \in {"poll", "stopped"},
         s.pc = "backoff" => s.attempt < MaxAttempts,
         s.pc = "sent" => Current(s) \in Published',
         s.pc = "fail" => Current(s) \in dlq' \cup dropped',
         status' = status, expired' = expired, overrun' = overrun,
         topic' \in Seq(Msg), dlq' \in SUBSET Msg, dropped' \in SUBSET Msg,
         faults' \in Nat, overruns' \in Nat, stops' \in Nat,
         Published \subseteq Published', dlq \subseteq dlq', dropped \subseteq dropped',
         \A m \in Published' \cup dlq' \cup dropped' : status[m] # "none"
  PROVE  OutboxInv'
<1>1. TypeOK'
  BY DEF OutboxInv, TypeOK
<1>2. worker'[w] = s /\ \A v \in Worker \ {w} : worker'[v] = worker[v]
  BY DEF OutboxInv, TypeOK
<1>3. BusyHasMessage'
  BY <1>2 DEF OutboxInv, BusyHasMessage, At
<1>4. MarkIsTrue'
  <2> SUFFICES ASSUME NEW v \in Worker
               PROVE  /\ worker'[v].pc = "sent" => Current(worker'[v]) \in Published'
                      /\ worker'[v].pc = "fail" => Current(worker'[v]) \in dlq' \cup dropped'
    BY DEF MarkIsTrue, At, Current
  <2>1. CASE v = w
    BY <1>2, <2>1
  <2>2. CASE v # w
    <3>1. worker'[v] = worker[v]
      BY <1>2, <2>2
    <3>2. /\ worker[v].pc = "sent" => Current(worker[v]) \in Published
          /\ worker[v].pc = "fail" => Current(worker[v]) \in dlq \cup dropped
      BY DEF OutboxInv, MarkIsTrue, At
    <3> QED BY <3>1, <3>2
  <2> QED BY <2>1, <2>2
<1>5. HeldIsClaimed'
  BY <1>2 DEF OutboxInv, HeldIsClaimed
<1>6. RowsAreTrue'
  BY DEF OutboxInv, RowsAreTrue
<1>7. ClaimsAreExclusive'
  BY <1>2 DEF OutboxInv, ClaimsAreExclusive
<1> QED
  BY <1>1, <1>3, <1>4, <1>5, <1>6, <1>7 DEF OutboxInv

\* What a worker's state gives to its next one.
LEMMA WorkerFacts ==
  ASSUME OutboxInv, NEW w \in Worker
  PROVE  /\ worker[w] \in WorkerState
         /\ worker[w].batch # {} => Current(worker[w]) \in worker[w].batch /\ Current(worker[w]) \in Msg
<1>1. worker[w] \in WorkerState
  BY DEF OutboxInv, TypeOK
<1>2. worker[w].batch # {} => Current(worker[w]) \in worker[w].batch /\ Current(worker[w]) \in Msg
  BY <1>1, CurrentIn DEF WorkerState
<1> QED
  BY <1>1, <1>2 DEF WorkerState

\* The loop of ProcessOnce goes on with the rest of the batch, or ends.
LEMMA AdvanceIn ==
  ASSUME NEW s \in WorkerState
  PROVE  /\ Advance(s) \in WorkerState
         /\ Advance(s).batch = s.batch \ {Current(s)}
         /\ Advance(s).pc \in {"poll", "publish"}
         /\ Advance(s).batch = {} <=> Advance(s).pc \in {"poll", "stopped"}
<1> DEFINE rest == s.batch \ {Current(s)}
           label == IF rest = {} THEN "poll" ELSE "publish"
           t == [s EXCEPT !.batch = rest, !.attempt = 1, !.pc = label]
<1>1. rest \in SUBSET Msg /\ 1 \in 1 .. MaxAttempts /\ label \in {"poll", "publish"}
  BY OutboxAssumption DEF WorkerState
<1>2. rest = {} <=> label \in {"poll", "stopped"}
  OBVIOUS
<1>3. Advance(s) = t
  BY DEF Advance
<1> HIDE DEF rest, label
<1>4. t \in WorkerState
  BY <1>1 DEF WorkerState, Label
<1>5. t.batch = rest /\ t.pc = label
  BY DEF WorkerState
<1> HIDE DEF t
<1> QED
  BY <1>1, <1>2, <1>3, <1>4, <1>5 DEF rest

\* A worker only changes its label.
LEMMA Relabel ==
  ASSUME NEW s \in WorkerState, NEW l \in Label
  PROVE  /\ [s EXCEPT !.pc = l] \in WorkerState
         /\ [s EXCEPT !.pc = l].batch = s.batch /\ [s EXCEPT !.pc = l].pc = l
         /\ [s EXCEPT !.pc = l].attempt = s.attempt
BY DEF WorkerState

\* A Publish that succeeds puts the message in hand into the event topic.
LEMMA PublishInv == ASSUME OutboxInv, NEW w \in Worker, Publish(w) PROVE OutboxInv'
<1> DEFINE s == [worker[w] EXCEPT !.pc = "sent"]
<1>1. s \in WorkerState /\ s.batch = worker[w].batch /\ s.pc = "sent"
  BY WorkerFacts, Relabel DEF Label
<1>2. worker[w].batch # {}
  BY DEF OutboxInv, BusyHasMessage, Publish, At
<1>3. topic' \in Seq(Msg) /\ Published' = Published \cup {Current(worker[w])}
  BY <1>2, WorkerFacts, PublishedAppend DEF OutboxInv, TypeOK, Publish
<1>4. worker' = [worker EXCEPT ![w] = s]
  BY DEF Publish, Become
<1>5. /\ status' = status /\ expired' = expired /\ overrun' = overrun /\ dlq' = dlq /\ dropped' = dropped
      /\ faults' = faults /\ overruns' = overruns /\ stops' = stops
  BY DEF Publish, table, leases
<1>6. Current(s) = Current(worker[w])
  BY <1>1, CurrentSame
<1>7. \A m \in Published' \cup dlq' \cup dropped' : status[m] # "none"
  <2>1. status[Current(worker[w])] # "none"
    BY <1>2, WorkerFacts DEF OutboxInv, HeldIsClaimed
  <2>2. \A m \in Published \cup dlq \cup dropped : m \in Msg
    BY DEF OutboxInv, TypeOK, Published
  <2> QED
    BY <1>3, <1>5, <2>1, <2>2 DEF OutboxInv, RowsAreTrue
<1> HIDE DEF s
<1> QED
  BY <1>1, <1>2, <1>3, <1>4, <1>5, <1>6, <1>7, StepInv DEF OutboxInv, TypeOK

\* A step that publishes nothing.
LEMMA QuietStepInv ==
  ASSUME OutboxInv, NEW w \in Worker, NEW s \in WorkerState,
         worker' = [worker EXCEPT ![w] = s], s.batch \subseteq worker[w].batch,
         s.batch = {} <=> s.pc \in {"poll", "stopped"},
         s.pc = "backoff" => s.attempt < MaxAttempts,
         s.pc \in {"sent", "fail"} => s.pc = worker[w].pc /\ s.batch = worker[w].batch,
         UNCHANGED <<table, broker, leases>>,
         faults' \in Nat, stops' \in Nat
  PROVE  OutboxInv'
<1>1. /\ status' = status /\ expired' = expired /\ overrun' = overrun /\ overruns' = overruns
      /\ topic' = topic /\ dlq' = dlq /\ dropped' = dropped /\ Published' = Published
  BY DEF table, broker, leases, Published
<1>2. \A m \in Published \cup dlq \cup dropped : status[m] # "none"
  <2>1. \A m \in Published \cup dlq \cup dropped : m \in Msg
    BY DEF OutboxInv, TypeOK, Published
  <2> QED
    BY <2>1 DEF OutboxInv, RowsAreTrue
<1>3. s.batch = worker[w].batch => Current(s) = Current(worker[w])
  BY CurrentSame
<1>4. /\ s.pc = "sent" => Current(s) \in Published'
      /\ s.pc = "fail" => Current(s) \in dlq' \cup dropped'
  BY <1>1, <1>3 DEF OutboxInv, MarkIsTrue, At
<1> QED
  BY <1>1, <1>2, <1>4, StepInv DEF OutboxInv, TypeOK

\* Failed calls are counted.
LEMMA FaultIsNat == ASSUME TypeOK, Fault PROVE faults' \in Nat
BY DEF TypeOK, Fault

\* A Publish that fails keeps the invariant, also when the message got out.
LEMMA PublishFailsInv == ASSUME OutboxInv, NEW w \in Worker, PublishFails(w) PROVE OutboxInv'
<1> DEFINE s == AfterError(worker[w])
           m == Current(worker[w])
<1>1. /\ s \in WorkerState /\ s.batch = worker[w].batch /\ s.pc \in {"backoff", "deadletter"}
      /\ s.pc = "backoff" => s.attempt < MaxAttempts
  <2>1. worker[w].attempt \in Nat /\ MaxAttempts \in Nat
    BY WorkerFacts, OutboxAssumption DEF WorkerState
  <2> DEFINE l == IF worker[w].attempt >= MaxAttempts THEN "deadletter" ELSE "backoff"
  <2>2. l \in Label /\ l \in {"backoff", "deadletter"} /\ (l = "backoff" => worker[w].attempt < MaxAttempts)
    BY <2>1 DEF Label
  <2>3. s = [worker[w] EXCEPT !.pc = l]
    BY DEF AfterError
  <2> HIDE DEF l, s
  <2> QED
    BY <2>2, <2>3, WorkerFacts, Relabel
<1>2. worker[w].batch # {}
  BY DEF OutboxInv, BusyHasMessage, PublishFails, At
<1>3. m \in Msg /\ status[m] # "none"
  BY <1>2, WorkerFacts DEF OutboxInv, HeldIsClaimed
<1>4. topic' \in Seq(Msg) /\ Published \subseteq Published' /\ Published' \subseteq Published \cup {m}
  <2>1. CASE topic' = topic
    BY <2>1 DEF OutboxInv, TypeOK, Published
  <2>2. CASE topic' = Append(topic, m)
    BY <2>2, <1>3, PublishedAppend DEF OutboxInv, TypeOK
  <2> QED
    BY <2>1, <2>2 DEF PublishFails
<1>5. worker' = [worker EXCEPT ![w] = s]
  BY DEF PublishFails, Become
<1>6. /\ status' = status /\ expired' = expired /\ overrun' = overrun /\ dlq' = dlq /\ dropped' = dropped
      /\ overruns' = overruns /\ stops' = stops
  BY DEF PublishFails, table, leases
<1>7. \A n \in Published' \cup dlq' \cup dropped' : status[n] # "none"
  <2>1. \A n \in Published \cup dlq \cup dropped : n \in Msg
    BY DEF OutboxInv, TypeOK, Published
  <2> QED
    BY <1>3, <1>4, <1>6, <2>1 DEF OutboxInv, RowsAreTrue
<1>8. faults' \in Nat
  BY FaultIsNat DEF OutboxInv, PublishFails
<1> HIDE DEF s, m
<1> QED
  BY <1>1, <1>2, <1>4, <1>5, <1>6, <1>7, <1>8, StepInv DEF OutboxInv, TypeOK

\* The pause between attempts, whether it ends or is canceled, keeps the invariant.
LEMMA BackoffInv ==
  ASSUME OutboxInv, NEW w \in Worker, Backoff(w) \/ BackoffCanceled(w)
  PROVE  OutboxInv'
<1>1. worker[w] \in WorkerState /\ worker[w].batch # {} /\ worker[w].attempt < MaxAttempts
  BY WorkerFacts DEF OutboxInv, BusyHasMessage, Backoff, BackoffCanceled, At
<1>2. UNCHANGED <<table, broker, leases>> /\ faults' \in Nat /\ stops' \in Nat
  BY DEF OutboxInv, TypeOK, Backoff, BackoffCanceled
<1>3. CASE Backoff(w)
  <2> DEFINE s == [worker[w] EXCEPT !.pc = "publish", !.attempt = @ + 1]
  <2>1. worker[w].attempt + 1 \in 1 .. MaxAttempts
    BY <1>1, OutboxAssumption DEF WorkerState
  <2>2. s \in WorkerState /\ s.batch = worker[w].batch /\ s.pc = "publish"
    BY <1>1, <2>1 DEF WorkerState, Label
  <2>3. worker' = [worker EXCEPT ![w] = s]
    BY <1>3 DEF Backoff, Become
  <2> HIDE DEF s
  <2> QED
    BY <1>1, <1>2, <2>2, <2>3, QuietStepInv
<1>4. CASE BackoffCanceled(w)
  <2> DEFINE s == [worker[w] EXCEPT !.pc = "deadletter"]
  <2>1. s \in WorkerState /\ s.batch = worker[w].batch /\ s.pc = "deadletter"
    BY <1>1, Relabel DEF Label
  <2>2. worker' = [worker EXCEPT ![w] = s]
    BY <1>4 DEF BackoffCanceled, Become
  <2> HIDE DEF s
  <2> QED
    BY <1>1, <1>2, <2>1, <2>2, QuietStepInv
<1> QED
  BY <1>3, <1>4

\* After publishToDLQ the message is in the dead letter topic or counted as dropped.
LEMMA DeadLetterInv ==
  ASSUME OutboxInv, NEW w \in Worker, PublishToDLQ(w) \/ PublishToDLQFails(w)
  PROVE  OutboxInv'
<1> DEFINE s == [worker[w] EXCEPT !.pc = "fail"]
           m == Current(worker[w])
<1>1. s \in WorkerState /\ s.batch = worker[w].batch /\ s.pc = "fail"
  BY WorkerFacts, Relabel DEF Label
<1>2. worker[w].batch # {}
  BY DEF OutboxInv, BusyHasMessage, PublishToDLQ, PublishToDLQFails, At
<1>3. m \in Msg /\ status[m] # "none"
  BY <1>2, WorkerFacts DEF OutboxInv, HeldIsClaimed
<1>4. Current(s) = m
  BY <1>1, CurrentSame
<1>5. worker' = [worker EXCEPT ![w] = s]
  BY DEF PublishToDLQ, PublishToDLQFails, Become
<1>6. /\ status' = status /\ expired' = expired /\ overrun' = overrun /\ overruns' = overruns
      /\ stops' = stops /\ topic' = topic /\ Published' = Published
  BY DEF PublishToDLQ, PublishToDLQFails, table, leases, Published
<1>7. dlq \subseteq dlq' /\ dropped \subseteq dropped' /\ dlq' \cup dropped' = dlq \cup dropped \cup {m}
  BY DEF PublishToDLQ, PublishToDLQFails
<1>8. faults' \in Nat
  BY FaultIsNat DEF OutboxInv, TypeOK, PublishToDLQ, PublishToDLQFails
<1>9. dlq' \in SUBSET Msg /\ dropped' \in SUBSET Msg
  BY <1>3, <1>7 DEF OutboxInv, TypeOK
<1>10. \A n \in Published' \cup dlq' \cup dropped' : status[n] # "none"
  <2>1. \A n \in Published \cup dlq \cup dropped : n \in Msg
    BY DEF OutboxInv, TypeOK, Published
  <2> QED
    BY <1>3, <1>6, <1>7, <2>1 DEF OutboxInv, RowsAreTrue
<1> HIDE DEF s, m
<1> QED
  BY <1>1, <1>2, <1>4, <1>5, <1>6, <1>7, <1>8, <1>9, <1>10, StepInv DEF OutboxInv, TypeOK

\* A mark that fails leaves the row claimed and keeps the invariant.
LEMMA MarkFailsInv == ASSUME OutboxInv, NEW w \in Worker, MarkFails(w) PROVE OutboxInv'
<1>1. worker[w] \in WorkerState
  BY WorkerFacts
<1>2. worker' = [worker EXCEPT ![w] = Advance(worker[w])]
  BY DEF MarkFails, Become
<1>3. UNCHANGED <<table, broker, leases>> /\ faults' \in Nat /\ stops' \in Nat
  BY FaultIsNat DEF MarkFails, OutboxInv, TypeOK
<1> QED
  BY <1>1, <1>2, <1>3, AdvanceIn, QuietStepInv

\* Shutdown, crash and restart of a replica keep the invariant.
LEMMA ProcessInv ==
  ASSUME OutboxInv, NEW w \in Worker, Shutdown(w) \/ Stop(w) \/ Crash(w) \/ Restart(w)
  PROVE  OutboxInv'
<1>1. worker[w] \in WorkerState
  BY WorkerFacts
<1>2. UNCHANGED <<table, broker, leases>> /\ faults' \in Nat /\ stops' \in Nat
  BY DEF Shutdown, Stop, Crash, Restart, OutboxInv, TypeOK
<1>3. CASE Shutdown(w)
  <2> DEFINE s == [worker[w] EXCEPT !.canceled = TRUE]
  <2>1. s \in WorkerState /\ s.batch = worker[w].batch /\ s.pc = worker[w].pc /\ s.attempt = worker[w].attempt
    BY <1>1 DEF WorkerState
  <2>2. worker' = [worker EXCEPT ![w] = s]
    BY <1>3 DEF Shutdown, Become
  <2>3. /\ worker[w].batch = {} <=> worker[w].pc \in {"poll", "stopped"}
        /\ worker[w].pc = "backoff" => worker[w].attempt < MaxAttempts
    BY DEF OutboxInv, BusyHasMessage, At
  <2> HIDE DEF s
  <2> QED
    BY <1>2, <2>1, <2>2, <2>3, QuietStepInv
<1>4. CASE Stop(w) \/ Crash(w) \/ Restart(w)
  <2>1. Polling \in WorkerState /\ Polling.batch = {} /\ Polling.pc = "poll"
    BY OutboxAssumption DEF Polling, WorkerState, Label
  <2>2. Down \in WorkerState /\ Down.batch = {} /\ Down.pc = "stopped"
    BY <2>1, Relabel DEF Down, Label
  <2>3. CASE worker' = [worker EXCEPT ![w] = Down]
    BY <1>2, <2>2, <2>3, QuietStepInv
  <2>4. CASE worker' = [worker EXCEPT ![w] = Polling]
    BY <1>2, <2>1, <2>4, QuietStepInv
  <2> QED
    BY <1>4, <2>3, <2>4 DEF Stop, Crash, Restart, Become
<1> QED
  BY <1>3, <1>4

-----------------------------------------------------------------------------

\* A row that appears is in no worker's hands and in no topic.
LEMMA EnqueueInv == ASSUME OutboxInv, NEW m \in Msg, Enqueue(m) PROVE OutboxInv'
<1>1. /\ expired' = expired /\ worker' = worker /\ overrun' = overrun /\ overruns' = overruns
      /\ topic' = topic /\ dlq' = dlq /\ dropped' = dropped /\ Published' = Published
      /\ faults' = faults /\ stops' = stops
  BY DEF Enqueue, broker, leases, Published
<1>2. status'[m] = "pending" /\ status[m] = "none" /\ \A n \in Msg \ {m} : status'[n] = status[n]
  BY DEF Enqueue, OutboxInv, TypeOK
<1>3. TypeOK'
  BY <1>1 DEF Enqueue, OutboxInv, TypeOK, RowStatus
<1>4. BusyHasMessage' /\ ClaimsAreExclusive'
  BY <1>1 DEF OutboxInv, BusyHasMessage, ClaimsAreExclusive, At
<1>5. MarkIsTrue'
  BY <1>1 DEF OutboxInv, MarkIsTrue, At, Current
<1>6. HeldIsClaimed'
  <2>1. \A w \in Worker : worker[w].batch \subseteq Msg
    BY DEF OutboxInv, TypeOK, WorkerState
  <2> QED
    BY <1>1, <1>2, <2>1 DEF OutboxInv, HeldIsClaimed
<1>7. RowsAreTrue'
  BY <1>1, <1>2 DEF OutboxInv, RowsAreTrue
<1> QED
  BY <1>3, <1>4, <1>5, <1>6, <1>7 DEF OutboxInv

\* A lease that runs out under a running worker is an overrun.
LEMMA LeaseExpiresInv == ASSUME OutboxInv, NEW m \in Msg, LeaseExpires(m) PROVE OutboxInv'
<1>1. /\ status' = status /\ worker' = worker /\ faults' = faults /\ stops' = stops
      /\ topic' = topic /\ dlq' = dlq /\ dropped' = dropped /\ Published' = Published
      /\ expired' = expired \cup {m}
  BY DEF LeaseExpires, broker, Published
<1>2. /\ overrun \subseteq overrun' /\ overrun' \in SUBSET Msg /\ overruns' \in Nat
      /\ m \in Held => m \in overrun'
  BY DEF LeaseExpires, leases, OutboxInv, TypeOK
<1>3. TypeOK'
  BY <1>1, <1>2 DEF OutboxInv, TypeOK
<1>4. BusyHasMessage' /\ RowsAreTrue'
  BY <1>1 DEF OutboxInv, BusyHasMessage, RowsAreTrue, At
<1>5. MarkIsTrue'
  BY <1>1 DEF OutboxInv, MarkIsTrue, At, Current
<1>6. HeldIsClaimed'
  <2>1. \A w \in Worker : \A n \in worker[w].batch : n \in Held
    BY DEF Held
  <2> QED
    BY <1>1, <1>2, <2>1 DEF OutboxInv, HeldIsClaimed
<1>7. ClaimsAreExclusive'
  BY <1>1, <1>2 DEF OutboxInv, ClaimsAreExclusive
<1> QED
  BY <1>3, <1>4, <1>5, <1>6, <1>7 DEF OutboxInv

\* The rows a claim takes are pending, or their lease ran out.
LEMMA ClaimFacts ==
  ASSUME TypeOK, Claim(Batch)
  PROVE  /\ Batch \in SUBSET Msg
         /\ \A m \in Batch : status[m] \in {"pending", "processing"} /\ (status[m] = "processing" => m \in expired)
         /\ status' \in [Msg -> RowStatus] /\ expired' = expired \ Batch
         /\ \A m \in Msg : status'[m] = IF m \in Batch THEN "processing" ELSE status[m]
BY DEF TypeOK, Claim, Batch, Claimable, RowStatus

\* A claim keeps what is known of the rows, whoever holds them.
LEMMA ClaimInv ==
  ASSUME OutboxInv, Claim(Batch), broker' = broker
  PROVE  /\ RowsAreTrue'
         /\ \A m \in Msg : status[m] # "none" => status'[m] # "none"
         /\ \A m \in Msg : status[m] = "processing" /\ m \notin expired => status'[m] = "processing" /\ m \notin expired'
<1>1. topic' = topic /\ dlq' = dlq /\ dropped' = dropped /\ Published' = Published
  BY DEF broker, Published
<1> QED
  BY <1>1, ClaimFacts DEF OutboxInv, RowsAreTrue

\* A worker that polls gets rows nobody else holds under a lease.
LEMMA PullPendingInv == ASSUME OutboxInv, NEW w \in Worker, PullPending(w) PROVE OutboxInv'
<1> DEFINE s == [worker[w] EXCEPT !.pc = "publish", !.batch = Batch]
<1>1. Claim(Batch) /\ broker' = broker /\ Batch # {}
  BY DEF PullPending
<1>2. s \in WorkerState /\ s.pc = "publish" /\ s.batch = Batch
  BY <1>1, WorkerFacts, ClaimFacts DEF WorkerState, Label, OutboxInv
<1>3. worker' = [worker EXCEPT ![w] = s]
  BY DEF PullPending, Become
<1> HIDE DEF s
<1>4. worker'[w] = s /\ \A v \in Worker \ {w} : worker'[v] = worker[v]
  BY <1>3 DEF OutboxInv, TypeOK
<1>5. /\ topic' = topic /\ dlq' = dlq /\ dropped' = dropped /\ Published' = Published
      /\ overrun' = overrun /\ overruns' = overruns /\ faults' = faults /\ stops' = stops
  BY DEF PullPending, broker, leases, Published
<1>6. TypeOK'
  BY <1>1, <1>2, <1>3, <1>5, ClaimFacts DEF OutboxInv, TypeOK
<1>7. BusyHasMessage'
  BY <1>1, <1>2, <1>4 DEF OutboxInv, BusyHasMessage, At
<1>8. MarkIsTrue'
  BY <1>2, <1>4, <1>5 DEF OutboxInv, MarkIsTrue, At, Current
<1>9. HeldIsClaimed'
  <2>1. \A m \in Batch : status'[m] = "processing" /\ m \notin expired'
    BY <1>1, ClaimFacts DEF OutboxInv
  <2>2. \A v \in Worker : worker[v].batch \subseteq Msg
    BY DEF OutboxInv, TypeOK, WorkerState
  <2>3. \A v \in Worker \ {w} : \A m \in worker[v].batch :
          status'[m] # "none" /\ (m \in overrun \/ (status'[m] = "processing" /\ m \notin expired'))
    BY <1>1, <2>2, ClaimInv DEF OutboxInv, HeldIsClaimed
  <2> QED
    BY <1>2, <1>4, <1>5, <2>1, <2>3 DEF HeldIsClaimed
<1>10. RowsAreTrue'
  BY <1>1, ClaimInv
<1>11. ClaimsAreExclusive'
  <2>1. \A v \in Worker \ {w} : worker[v].batch \cap Batch \subseteq overrun
    BY <1>1, ClaimFacts DEF OutboxInv, HeldIsClaimed
  <2> QED
    BY <1>2, <1>4, <1>5, <2>1 DEF OutboxInv, ClaimsAreExclusive
<1> QED
  BY <1>6, <1>7, <1>8, <1>9, <1>10, <1>11 DEF OutboxInv

\* A claim whose answer is lost leaves rows nobody has in hand.
LEMMA PullLostInv == ASSUME OutboxInv, NEW w \in Worker, PullLost(w) PROVE OutboxInv'
<1>1. Claim(Batch) /\ broker' = broker /\ worker' = worker /\ faults' \in Nat
  BY FaultIsNat DEF PullLost, OutboxInv
<1>2. /\ topic' = topic /\ dlq' = dlq /\ dropped' = dropped /\ Published' = Published
      /\ overrun' = overrun /\ overruns' = overruns /\ stops' = stops
  BY DEF PullLost, broker, leases, Published
<1>3. TypeOK'
  BY <1>1, <1>2, ClaimFacts DEF OutboxInv, TypeOK
<1>4. BusyHasMessage' /\ ClaimsAreExclusive'
  BY <1>1, <1>2 DEF OutboxInv, BusyHasMessage, ClaimsAreExclusive, At
<1>5. MarkIsTrue'
  BY <1>1, <1>2 DEF OutboxInv, MarkIsTrue, At, Current
<1>6. HeldIsClaimed'
  <2>1. \A v \in Worker : worker[v].batch \subseteq Msg
    BY DEF OutboxInv, TypeOK, WorkerState
  <2> QED
    BY <1>1, <1>2, <2>1, ClaimInv DEF OutboxInv, HeldIsClaimed
<1>7. RowsAreTrue'
  BY <1>1, ClaimInv
<1> QED
  BY <1>3, <1>4, <1>5, <1>6, <1>7 DEF OutboxInv

\* A mark closes the row under any other worker that holds the message, which
\* is then one whose lease was overrun.
LEMMA MarkInv ==
  ASSUME OutboxInv, NEW w \in Worker, MarkSent(w) \/ MarkFailed(w)
  PROVE  OutboxInv'
<1> DEFINE m == Current(worker[w])
           s == Advance(worker[w])
<1>1. worker[w].batch # {}
  BY DEF OutboxInv, BusyHasMessage, MarkSent, MarkFailed, At
<1>2. m \in Msg /\ m \in worker[w].batch
  BY <1>1, WorkerFacts
<1>3. /\ s \in WorkerState /\ s.batch = worker[w].batch \ {m} /\ s.pc \in {"poll", "publish"}
      /\ s.batch = {} <=> s.pc \in {"poll", "stopped"}
  BY WorkerFacts, AdvanceIn
<1>4. worker' = [worker EXCEPT ![w] = s]
  BY DEF MarkSent, MarkFailed, Become
<1>5. worker'[w] = s /\ \A v \in Worker \ {w} : worker'[v] = worker[v]
  BY <1>4 DEF OutboxInv, TypeOK
<1>6. /\ topic' = topic /\ dlq' = dlq /\ dropped' = dropped /\ Published' = Published
      /\ overrun' = overrun /\ overruns' = overruns /\ faults' = faults /\ stops' = stops
      /\ expired' = expired \ {m}
  BY DEF MarkSent, MarkFailed, Mark, broker, leases, Published
<1>7. PICK r \in {"sent", "failed"} :
        /\ status' = [status EXCEPT ![m] = r]
        /\ r = "sent" => m \in Published
        /\ r = "failed" => m \in dlq \cup dropped
  BY DEF MarkSent, MarkFailed, Mark, At, OutboxInv, MarkIsTrue
<1> HIDE DEF m, s
<1>8. status'[m] = r /\ \A n \in Msg \ {m} : status'[n] = status[n]
  BY <1>2, <1>7 DEF OutboxInv, TypeOK
<1>9. TypeOK'
  BY <1>3, <1>4, <1>6, <1>7 DEF OutboxInv, TypeOK, RowStatus
<1>10. BusyHasMessage'
  BY <1>3, <1>5 DEF OutboxInv, BusyHasMessage, At
<1>11. MarkIsTrue'
  <2> SUFFICES ASSUME NEW v \in Worker
               PROVE  /\ worker'[v].pc = "sent" => Current(worker'[v]) \in Published'
                      /\ worker'[v].pc = "fail" => Current(worker'[v]) \in dlq' \cup dropped'
    BY DEF MarkIsTrue, At, Current
  <2>1. CASE v = w
    BY <1>3, <1>5, <2>1
  <2>2. CASE v # w
    <3>1. worker'[v] = worker[v]
      BY <1>5, <2>2
    <3>2. /\ worker[v].pc = "sent" => Current(worker[v]) \in Published
          /\ worker[v].pc = "fail" => Current(worker[v]) \in dlq \cup dropped
      BY DEF OutboxInv, MarkIsTrue, At
    <3> QED BY <1>6, <3>1, <3>2
  <2> QED BY <2>1, <2>2
<1>12. HeldIsClaimed'
  <2>1. \A v \in Worker : worker[v].batch \subseteq Msg
    BY DEF OutboxInv, TypeOK, WorkerState
  <2>2. \A v \in Worker \ {w} : m \in worker[v].batch => m \in overrun
    BY <1>2 DEF OutboxInv, ClaimsAreExclusive
  <2> QED
    BY <1>3, <1>5, <1>6, <1>8, <2>1, <2>2 DEF OutboxInv, HeldIsClaimed
<1>13. RowsAreTrue'
  BY <1>6, <1>7, <1>8 DEF OutboxInv, RowsAreTrue
<1>14. ClaimsAreExclusive'
  BY <1>3, <1>5, <1>6 DEF OutboxInv, ClaimsAreExclusive
<1> QED
  BY <1>9, <1>10, <1>11, <1>12, <1>13, <1>14 DEF OutboxInv

\* The invariant is inductive: every step of the table and the workers keeps it.
LEMMA NextInv == OutboxInv /\ [Next]_vars => OutboxInv'
<1> SUFFICES ASSUME OutboxInv, [Next]_vars PROVE OutboxInv'
  OBVIOUS
<1>1. CASE UNCHANGED vars
  <2>1. /\ status' = status /\ expired' = expired /\ topic' = topic /\ dlq' = dlq
        /\ dropped' = dropped /\ worker' = worker /\ overrun' = overrun /\ faults' = faults
        /\ overruns' = overruns /\ stops' = stops
    BY <1>1 DEF vars
  <2>2. TypeOK'
    BY <2>1 DEF OutboxInv, TypeOK
  <2>3. BusyHasMessage'
    BY <2>1 DEF OutboxInv, BusyHasMessage, At
  <2>4. MarkIsTrue'
    BY <2>1 DEF OutboxInv, MarkIsTrue, Published, Current, At
  <2>5. HeldIsClaimed'
    BY <2>1 DEF OutboxInv, HeldIsClaimed
  <2>6. RowsAreTrue'
    BY <2>1 DEF OutboxInv, RowsAreTrue, Published
  <2>7. ClaimsAreExclusive'
    BY <2>1 DEF OutboxInv, ClaimsAreExclusive
  <2> QED
    BY <2>2, <2>3, <2>4, <2>5, <2>6, <2>7 DEF OutboxInv
<1>2. ASSUME NEW m \in Msg, Enqueue(m) \/ LeaseExpires(m) PROVE OutboxInv'
  BY <1>2, EnqueueInv, LeaseExpiresInv
<1>3. ASSUME NEW w \in Worker, WorkerStep(w) PROVE OutboxInv'
  BY <1>3, PullPendingInv, PublishInv, BackoffInv, DeadLetterInv, MarkInv, ProcessInv DEF WorkerStep
<1>4. ASSUME NEW w \in Worker, WorkerFault(w) PROVE OutboxInv'
  BY <1>4, PullLostInv, PublishFailsInv, DeadLetterInv, MarkFailsInv, ProcessInv DEF WorkerFault
<1> QED
  BY <1>1, <1>2, <1>3, <1>4 DEF Next

\* The inductive invariant holds in every behaviour of the workers, for any
\* number of replicas, messages, failing calls, overrun leases and stops.
THEOREM OutboxInvariant == Spec => []OutboxInv
BY InitInv, NextInv, PTL DEF Spec

\* A row marked sent is in the event topic, whoever marked it.
THEOREM SentRowsArePublished == Spec => []SentIsPublished
<1>1. OutboxInv => SentIsPublished
  BY DEF OutboxInv, RowsAreTrue, SentIsPublished
<1> QED
  BY <1>1, OutboxInvariant, PTL

\* Two workers hold the same message only after its lease was overrun: what
\* FOR UPDATE SKIP LOCKED and the status processing of PullPending give.
THEOREM ClaimsExclude == Spec => []ClaimsAreExclusive
<1>1. OutboxInv => ClaimsAreExclusive
  BY DEF OutboxInv
<1> QED
  BY <1>1, OutboxInvariant, PTL

-----------------------------------------------------------------------------
(* Without faults, overruns and stops every message is published once.     *)

Calm == faults = 0 /\ overruns = 0 /\ stops = 0

Distinct(seq) == \A i, j \in DOMAIN seq : seq[i] = seq[j] => i = j

\* A message in hand is published only between Publish and MarkSent, and a row
\* that is claimed has a worker that is busy with it.
Once ==
  /\ Distinct(topic) /\ overrun = {}
  /\ \A m \in Msg : status[m] = "pending" => m \notin Published
  /\ \A m \in Msg : status[m] = "processing" => \E w \in Worker : m \in worker[w].batch
  /\ \A w \in Worker :
       /\ worker[w].canceled = FALSE
       /\ \A m \in worker[w].batch : m \in Published => At(w, "sent") /\ m = Current(worker[w])

\* What a step of one worker has to respect.
LEMMA WorkerOnce ==
  ASSUME OutboxInv, Once, NEW w \in Worker, NEW s \in WorkerState,
         worker' = [worker EXCEPT ![w] = s], s.canceled = FALSE, overrun' = overrun, Distinct(topic'),
         \A m \in Msg : status'[m] = "pending" => m \notin Published',
         \A m \in Msg : status'[m] = "processing" =>
           m \in s.batch \/ \E v \in Worker \ {w} : m \in worker[v].batch,
         \A m \in s.batch : m \in Published' => s.pc = "sent" /\ m = Current(s),
         \A v \in Worker \ {w} : \A m \in worker[v].batch : m \in Published' => m \in Published
  PROVE  Once'
<1>1. worker'[w] = s /\ \A v \in Worker \ {w} : worker'[v] = worker[v]
  BY DEF OutboxInv, TypeOK
<1>2. \A m \in Msg : status'[m] = "processing" => \E v \in Worker : m \in worker'[v].batch
  BY <1>1
<1>3. ASSUME NEW v \in Worker
      PROVE  /\ worker'[v].canceled = FALSE
             /\ \A m \in worker'[v].batch :
                  m \in Published' => worker'[v].pc = "sent" /\ m = Current(worker'[v])
  <2>1. CASE v = w
    BY <1>1, <2>1
  <2>2. CASE v # w
    <3>1. worker'[v] = worker[v]
      BY <1>1, <2>2
    <3>2. /\ worker[v].canceled = FALSE
          /\ \A m \in worker[v].batch : m \in Published => worker[v].pc = "sent" /\ m = Current(worker[v])
      BY DEF Once, At
    <3> QED BY <2>2, <3>1, <3>2
  <2> QED BY <2>1, <2>2
<1>4. (\A v \in Worker :
         /\ worker[v].canceled = FALSE
         /\ \A m \in worker[v].batch : m \in Published => At(v, "sent") /\ m = Current(worker[v]))'
  BY <1>3 DEF At, Current
<1> QED BY <1>2, <1>4 DEF Once, Distinct

\* A step that neither publishes nor marks.
LEMMA QuietOnce ==
  ASSUME OutboxInv, Once, NEW w \in Worker, NEW s \in WorkerState,
         worker' = [worker EXCEPT ![w] = s], s.canceled = FALSE,
         s.batch = worker[w].batch, worker[w].pc # "sent",
         status' = status, topic' = topic, overrun' = overrun
  PROVE  Once'
<1>1. Published' = Published /\ Distinct(topic')
  BY DEF Published, Once, Distinct
<1>2. \A m \in s.batch : m \notin Published
  BY DEF Once, At
<1>3. \A m \in Msg : status'[m] = "pending" => m \notin Published'
  BY <1>1 DEF Once
<1>4. \A m \in Msg : status'[m] = "processing" => m \in s.batch \/ \E v \in Worker \ {w} : m \in worker[v].batch
  BY DEF Once
<1> QED BY <1>1, <1>2, <1>3, <1>4, WorkerOnce

\* Only rows that were never claimed are claimed: a claimed one is held, so its
\* lease has not run out.
LEMMA PullOnce == ASSUME OutboxInv, Once, NEW w \in Worker, PullPending(w) PROVE Once'
<1> DEFINE s == [worker[w] EXCEPT !.pc = "publish", !.batch = Batch]
<1>1. Claim(Batch) /\ overrun' = overrun /\ topic' = topic /\ worker[w].batch = {}
  BY DEF PullPending, broker, leases, OutboxInv, BusyHasMessage, At
<1>2. s \in WorkerState /\ s.batch = Batch /\ s.pc = "publish" /\ s.canceled = worker[w].canceled
  BY <1>1, WorkerFacts, ClaimFacts DEF WorkerState, Label, OutboxInv
<1>3. Published' = Published /\ Distinct(topic')
  BY <1>1 DEF Published, Once, Distinct
<1>4. ASSUME NEW m \in Batch PROVE m \in Msg /\ m \notin Published
  <2>1. m \in Msg /\ status[m] \in {"pending", "processing"} /\ (status[m] = "processing" => m \in expired)
    BY <1>1, ClaimFacts DEF OutboxInv
  <2>2. status[m] = "processing" => m \notin expired
    BY <2>1 DEF Once, OutboxInv, HeldIsClaimed
  <2> QED BY <2>1, <2>2 DEF Once
<1>5. \A m \in Msg : status'[m] = IF m \in Batch THEN "processing" ELSE status[m]
  BY <1>1, ClaimFacts DEF OutboxInv
<1>6. \A m \in Msg : status'[m] = "pending" => m \notin Published'
  BY <1>3, <1>5 DEF Once
<1>7. \A m \in Msg : status'[m] = "processing" => m \in s.batch \/ \E v \in Worker \ {w} : m \in worker[v].batch
  BY <1>1, <1>2, <1>5 DEF Once
<1>8. worker' = [worker EXCEPT ![w] = s]
  BY DEF PullPending, Become
<1>9. s.canceled = FALSE
  BY <1>2 DEF Once
<1> HIDE DEF s
<1> QED BY <1>1, <1>2, <1>3, <1>4, <1>6, <1>7, <1>8, <1>9, WorkerOnce

\* The message a worker publishes is in no topic yet and in no other hands.
LEMMA PublishOnce == ASSUME OutboxInv, Once, NEW w \in Worker, Publish(w) PROVE Once'
<1> DEFINE s == [worker[w] EXCEPT !.pc = "sent"]
           m == Current(worker[w])
<1>1. worker[w].pc = "publish" /\ worker[w].batch # {} /\ worker[w] \in WorkerState
  BY WorkerFacts DEF OutboxInv, BusyHasMessage, Publish, At
<1>2. m \in Msg /\ m \in worker[w].batch
  BY <1>1, WorkerFacts
<1>3. /\ s \in WorkerState /\ s.batch = worker[w].batch /\ s.pc = "sent" /\ s.canceled = worker[w].canceled
  BY <1>1 DEF WorkerState, Label
<1>4. Current(s) = m
  BY <1>3, CurrentSame
<1>5. topic' = Append(topic, m) /\ worker' = [worker EXCEPT ![w] = s] /\ overrun' = overrun /\ status' = status
  BY DEF Publish, Become, leases, table
<1> HIDE DEF s, m
<1>6. Published' = Published \cup {m}
  BY <1>2, <1>5, PublishedAppend DEF OutboxInv, TypeOK
<1>7. \A n \in worker[w].batch : n \notin Published
  BY <1>1 DEF Once, At
<1>8. Distinct(topic')
  <2>1. /\ DOMAIN topic = 1 .. Len(topic) /\ DOMAIN topic' = 1 .. Len(topic) + 1 /\ Len(topic) \in Nat
        /\ topic'[Len(topic) + 1] = m /\ \A i \in 1 .. Len(topic) : topic'[i] = topic[i]
    BY <1>2, <1>5 DEF OutboxInv, TypeOK
  <2>2. \A i \in 1 .. Len(topic) : topic[i] # m
    BY <1>2, <1>7, <2>1 DEF Published
  <2>3. ASSUME NEW i \in DOMAIN topic', NEW j \in DOMAIN topic', topic'[i] = topic'[j] PROVE i = j
    <3>1. CASE i \in 1 .. Len(topic) /\ j \in 1 .. Len(topic)
      BY <2>1, <2>3, <3>1 DEF Once, Distinct
    <3>2. CASE i = Len(topic) + 1 \/ j = Len(topic) + 1
      BY <2>1, <2>2, <2>3, <3>2
    <3> QED BY <2>1, <3>1, <3>2
  <2> QED BY <2>3 DEF Distinct
<1>9. status[m] = "processing"
  BY <1>2 DEF Once, OutboxInv, HeldIsClaimed
<1>10. \A v \in Worker \ {w} : m \notin worker[v].batch
  BY <1>2 DEF Once, OutboxInv, ClaimsAreExclusive
<1>11. \A n \in Msg : status'[n] = "pending" => n \notin Published'
  BY <1>5, <1>6, <1>9 DEF Once
<1>12. \A n \in Msg : status'[n] = "processing" => n \in s.batch \/ \E v \in Worker \ {w} : n \in worker[v].batch
  BY <1>3, <1>5 DEF Once
<1>13. \A n \in s.batch : n \in Published' => s.pc = "sent" /\ n = Current(s)
  BY <1>3, <1>4, <1>6, <1>7
<1>14. \A v \in Worker \ {w} : \A n \in worker[v].batch : n \in Published' => n \in Published
  BY <1>6, <1>10
<1>15. s.canceled = FALSE
  BY <1>3 DEF Once
<1> QED BY <1>3, <1>5, <1>8, <1>11, <1>12, <1>13, <1>14, <1>15, WorkerOnce

\* A mark closes the row of the message that leaves the worker's hands.
LEMMA MarkOnce == ASSUME OutboxInv, Once, NEW w \in Worker, MarkSent(w) \/ MarkFailed(w) PROVE Once'
<1> DEFINE m == Current(worker[w])
           s == Advance(worker[w])
<1>1. worker[w].batch # {} /\ worker[w] \in WorkerState
  BY WorkerFacts DEF OutboxInv, BusyHasMessage, MarkSent, MarkFailed, At
<1>2. m \in Msg /\ m \in worker[w].batch
  BY <1>1, WorkerFacts
<1>3. s \in WorkerState /\ s.batch = worker[w].batch \ {m}
  BY <1>1, AdvanceIn
<1>4. s.canceled = worker[w].canceled
  BY <1>1 DEF Advance, WorkerState
<1>5. worker' = [worker EXCEPT ![w] = s] /\ topic' = topic /\ overrun' = overrun
  BY DEF MarkSent, MarkFailed, Become, broker, leases
<1>6. PICK r \in {"sent", "failed"} : status' = [status EXCEPT ![m] = r]
  BY DEF MarkSent, MarkFailed, Mark
<1>7. \A n \in worker[w].batch : n \in Published => n = m
  BY DEF Once
<1> HIDE DEF m, s
<1>8. status'[m] = r /\ \A n \in Msg \ {m} : status'[n] = status[n]
  BY <1>2, <1>6 DEF OutboxInv, TypeOK
<1>9. Published' = Published /\ Distinct(topic')
  BY <1>5 DEF Published, Once, Distinct
<1>10. \A n \in Msg : status'[n] = "pending" => n \notin Published'
  BY <1>8, <1>9 DEF Once
<1>11. \A n \in Msg : status'[n] = "processing" => n \in s.batch \/ \E v \in Worker \ {w} : n \in worker[v].batch
  BY <1>3, <1>8 DEF Once
<1>12. s.canceled = FALSE
  BY <1>4 DEF Once
<1>13. \A n \in s.batch : n \notin Published'
  BY <1>3, <1>7, <1>9
<1> QED BY <1>3, <1>5, <1>9, <1>10, <1>11, <1>12, <1>13, WorkerOnce

\* A new row is in no topic; the lease of a row does not run out, as a worker is
\* busy with it.
LEMMA TableOnce ==
  ASSUME OutboxInv, Once, NEW m \in Msg, Enqueue(m) \/ LeaseExpires(m), overruns' = 0
  PROVE  Once'
<1>1. CASE Enqueue(m)
  <2>1. topic' = topic /\ worker' = worker /\ overrun' = overrun /\ Published' = Published
    BY <1>1 DEF Enqueue, broker, leases, Published
  <2>2. status'[m] = "pending" /\ status[m] = "none" /\ \A n \in Msg \ {m} : status'[n] = status[n]
    BY <1>1 DEF Enqueue, OutboxInv, TypeOK
  <2>3. \A n \in Msg : status'[n] = "pending" => n \notin Published'
    BY <2>1, <2>2 DEF Once, OutboxInv, RowsAreTrue
  <2>4. \A n \in Msg : status'[n] = "processing" => \E w \in Worker : n \in worker'[w].batch
    BY <2>1, <2>2 DEF Once
  <2>5. (\A v \in Worker :
           /\ worker[v].canceled = FALSE
           /\ \A n \in worker[v].batch : n \in Published => At(v, "sent") /\ n = Current(worker[v]))'
    BY <2>1 DEF Once, At, Current
  <2> QED BY <2>1, <2>3, <2>4, <2>5 DEF Once, Distinct
<1>2. CASE LeaseExpires(m)
  <2>1. m \in Held
    BY <1>2 DEF LeaseExpires, Once, Held
  <2>2. overruns' = overruns + 1 /\ overruns \in Nat
    BY <1>2, <2>1 DEF LeaseExpires, OutboxInv, TypeOK
  <2> QED BY <2>2
<1> QED BY <1>1, <1>2

\* Every step that is no fault, overrun or stop publishes at most a message that
\* is in no topic.
LEMMA NextOnce == OutboxInv /\ (Calm => Once) /\ [Next]_vars => (Calm => Once)'
<1> SUFFICES ASSUME OutboxInv, Calm => Once, [Next]_vars, Calm' PROVE Once'
  OBVIOUS
<1>1. Calm /\ Once
  <2>1. faults \in Nat /\ overruns \in Nat /\ stops \in Nat
    BY DEF OutboxInv, TypeOK
  <2>2. ASSUME NEW m \in Msg, Enqueue(m) \/ LeaseExpires(m) PROVE faults' = faults /\ overruns' >= overruns /\ stops' = stops
    BY <2>1, <2>2 DEF Enqueue, LeaseExpires, leases
  <2>3. ASSUME NEW w \in Worker, WorkerStep(w) PROVE faults' = faults /\ overruns' = overruns /\ stops' = stops
    BY <2>3 DEF WorkerStep, PullPending, Publish, Backoff, BackoffCanceled, PublishToDLQ, MarkFailed, MarkSent,
       Stop, Restart, leases
  <2>4. ASSUME NEW w \in Worker, WorkerFault(w) PROVE faults' >= faults /\ overruns' = overruns /\ stops' >= stops
    BY <2>1, <2>4 DEF WorkerFault, PullLost, PublishFails, PublishToDLQFails, MarkFails, Shutdown, Crash,
       Fault, leases
  <2>5. CASE UNCHANGED vars
    BY <2>5 DEF vars, Calm
  <2> QED BY <2>1, <2>2, <2>3, <2>4, <2>5 DEF Next, Calm
<1>2. CASE UNCHANGED vars
  <2>1. topic' = topic /\ worker' = worker /\ overrun' = overrun /\ status' = status
    BY <1>2 DEF vars
  <2>2. Published' = Published /\ \A w \in Worker : Current(worker[w])' = Current(worker[w])
    BY <2>1 DEF Published, Current
  <2>3. Distinct(topic')
    BY <1>1, <2>1 DEF Once
  <2> QED BY <1>1, <2>1, <2>2, <2>3 DEF Once, At
<1>3. ASSUME NEW m \in Msg, Enqueue(m) \/ LeaseExpires(m) PROVE Once'
  BY <1>1, <1>3, TableOnce DEF Calm
<1>4. ASSUME NEW w \in Worker, WorkerStep(w) PROVE Once'
  <2>1. CASE PullPending(w)
    BY <1>1, <2>1, PullOnce
  <2>2. CASE Publish(w)
    BY <1>1, <2>2, PublishOnce
  <2>3. CASE MarkSent(w) \/ MarkFailed(w)
    BY <1>1, <2>3, MarkOnce
  <2>4. CASE BackoffCanceled(w) \/ Stop(w)
    BY <1>1, <2>4 DEF BackoffCanceled, Stop, Once
  <2>5. worker[w] \in WorkerState /\ worker[w].canceled = FALSE
    BY <1>1, WorkerFacts DEF Once
  <2>6. CASE Backoff(w)
    <3> DEFINE s == [worker[w] EXCEPT !.pc = "publish", !.attempt = @ + 1]
    <3>1. worker[w].pc = "backoff" /\ worker[w].attempt + 1 \in 1 .. MaxAttempts
      BY <2>5, <2>6, OutboxAssumption DEF Backoff, At, OutboxInv, BusyHasMessage, WorkerState
    <3>2. s \in WorkerState /\ s.batch = worker[w].batch /\ s.canceled = worker[w].canceled
      BY <2>5, <3>1 DEF WorkerState, Label
    <3>3. worker' = [worker EXCEPT ![w] = s] /\ status' = status /\ topic' = topic /\ overrun' = overrun
      BY <2>6 DEF Backoff, Become, table, broker, leases
    <3> HIDE DEF s
    <3> QED BY <1>1, <2>5, <3>1, <3>2, <3>3, QuietOnce
  <2>7. CASE PublishToDLQ(w)
    <3> DEFINE s == [worker[w] EXCEPT !.pc = "fail"]
    <3>1. s \in WorkerState /\ s.batch = worker[w].batch /\ s.canceled = worker[w].canceled
      BY <2>5 DEF WorkerState, Label
    <3>2. /\ worker' = [worker EXCEPT ![w] = s] /\ status' = status /\ topic' = topic /\ overrun' = overrun
          /\ worker[w].pc = "deadletter"
      BY <2>7 DEF PublishToDLQ, Become, At, table, leases
    <3> HIDE DEF s
    <3> QED BY <1>1, <2>5, <3>1, <3>2, QuietOnce
  <2>8. CASE Restart(w)
    <3>1. Polling \in WorkerState /\ Polling.batch = {} /\ Polling.canceled = FALSE
      BY OutboxAssumption DEF Polling, WorkerState, Label
    <3>2. /\ worker' = [worker EXCEPT ![w] = Polling] /\ status' = status /\ topic' = topic /\ overrun' = overrun
          /\ worker[w].pc = "stopped" /\ worker[w].batch = {}
      BY <2>8 DEF Restart, Become, At, table, broker, leases, OutboxInv, BusyHasMessage
    <3> QED BY <1>1, <3>1, <3>2, QuietOnce
  <2> QED BY <1>4, <2>1, <2>2, <2>3, <2>4, <2>6, <2>7, <2>8 DEF WorkerStep
<1>5. ASSUME NEW w \in Worker, WorkerFault(w) PROVE FALSE
  <2>1. faults' = faults + 1 \/ stops' = stops + 1
    BY <1>5 DEF WorkerFault, PullLost, PublishFails, PublishToDLQFails, MarkFails, Shutdown, Crash, Fault
  <2> QED BY <1>1, <2>1 DEF Calm
<1> QED BY <1>2, <1>3, <1>4, <1>5 DEF Next

\* As long as no call failed, no lease was overrun and no process stopped, the
\* event topic holds every message at most once, for any number of replicas,
\* messages and batch sizes.
THEOREM PublishedOnce == Spec => []DuplicatesHaveACause
<1>1. Init => (Calm => Once)
  BY DEF Init, Once, Distinct, Published, Polling
<1>2. OutboxInv /\ (Calm => Once) => DuplicatesHaveACause
  <2> SUFFICES ASSUME OutboxInv, Distinct(topic) PROVE Len(topic) = Cardinality(Published)
    BY DEF DuplicatesHaveACause, Calm, Once
  <2>1. topic \in [1 .. Len(topic) -> Published] /\ DOMAIN topic = 1 .. Len(topic) /\ Len(topic) \in Nat
    BY DEF OutboxInv, TypeOK, Published
  <2>2. \A p \in Published : \E i \in 1 .. Len(topic) : topic[i] = p
    BY <2>1 DEF Published
  <2>3. topic \in Bijection(1 .. Len(topic), Published)
    BY <2>1, <2>2 DEF Bijection, Injection, Surjection, IsInjective, Distinct
  <2>4. ExistsBijection(1 .. Len(topic), Published)
    BY <2>3 DEF ExistsBijection
  <2> QED BY <2>1, <2>4, FS_CountingElements
<1> QED BY <1>1, <1>2, InitInv, NextInv, NextOnce, PTL DEF Spec

-----------------------------------------------------------------------------
(* The refinement of Delivery.                                             *)

Accepted == {m \in Msg : status[m] # "none"}

Out == Published \cup dlq

Closed == {m \in Msg : status[m] \in {"sent", "failed"}}

\* A step of a worker that leaves the table alone hands over at most the
\* message in hand, or sees it refused.
LEMMA HandsOver ==
  ASSUME OutboxInv, status' = status, NEW w \in Worker, worker[w].batch # {},
         \/ dropped' = dropped /\ (Out' = Out \/ Out' = Out \cup {Current(worker[w])})
         \/ dropped' = dropped \cup {Current(worker[w])} /\ Out' = Out
  PROVE  [Promise!Next]_(Promise!vars)
<1> DEFINE m == Current(worker[w])
<1>1. m \in Msg /\ m \in Accepted
  BY WorkerFacts DEF OutboxInv, HeldIsClaimed, Accepted
<1>2. Accepted' = Accepted /\ Closed' = Closed
  BY DEF Accepted, Closed
<1>3. CASE dropped' = dropped /\ Out' = Out
  BY <1>2, <1>3 DEF Promise!vars, Out, Accepted, Closed
<1>4. CASE dropped' = dropped /\ Out' = Out \cup {m}
  BY <1>1, <1>2, <1>4 DEF Promise!Next, Promise!HandOver, Out, Accepted, Closed
<1>5. CASE dropped' = dropped \cup {m} /\ Out' = Out
  BY <1>1, <1>2, <1>5 DEF Promise!Next, Promise!Refuse, Out, Accepted, Closed
<1> QED
  BY <1>3, <1>4, <1>5

\* A step that changes no part of the mapping is a stutter of Delivery.
LEMMA Stutters ==
  ASSUME Accepted' = Accepted, Out' = Out, dropped' = dropped, Closed' = Closed
  PROVE  [Promise!Next]_(Promise!vars)
BY DEF Promise!vars, Out, Accepted, Closed

\* Enqueue accepts an event; a lease that runs out changes nothing Delivery sees.
LEMMA TableStepRefines ==
  ASSUME OutboxInv, NEW m \in Msg, Enqueue(m) \/ LeaseExpires(m)
  PROVE  [Promise!Next]_(Promise!vars)
<1>1. Out' = Out /\ dropped' = dropped
  BY DEF Enqueue, LeaseExpires, broker, Out, Published
<1>2. CASE Enqueue(m)
  <2>1. status'[m] = "pending" /\ status[m] = "none" /\ \A n \in Msg \ {m} : status'[n] = status[n]
    BY <1>2 DEF Enqueue, OutboxInv, TypeOK
  <2>2. Accepted' = Accepted \cup {m} /\ m \notin Accepted /\ Closed' = Closed
    BY <2>1 DEF Accepted, Closed
  <2> QED
    BY <1>1, <2>2 DEF Promise!Next, Promise!Accept, Out, Accepted, Closed
<1>3. CASE LeaseExpires(m)
  BY <1>1, <1>3, Stutters DEF LeaseExpires, Accepted, Closed
<1> QED
  BY <1>2, <1>3

\* A claim changes nothing Delivery sees.
LEMMA PullRefines ==
  ASSUME OutboxInv, NEW w \in Worker, PullPending(w) \/ PullLost(w)
  PROVE  [Promise!Next]_(Promise!vars)
<1>1. Claim(Batch) /\ broker' = broker
  BY DEF PullPending, PullLost
<1>2. Out' = Out /\ dropped' = dropped
  BY <1>1 DEF broker, Out, Published
<1>3. Accepted' = Accepted /\ Closed' = Closed
  BY <1>1, ClaimFacts DEF Accepted, Closed, OutboxInv
<1> QED
  BY <1>2, <1>3, Stutters

\* A mark closes an event that was handed over or refused.
LEMMA MarkRefines ==
  ASSUME OutboxInv, NEW w \in Worker, MarkSent(w) \/ MarkFailed(w)
  PROVE  [Promise!Next]_(Promise!vars)
<1> DEFINE m == Current(worker[w])
<1>1. m \in Msg /\ m \in Accepted
  BY WorkerFacts DEF OutboxInv, BusyHasMessage, HeldIsClaimed, Accepted, MarkSent, MarkFailed, At
<1>2. m \in Out \cup dropped
  BY DEF OutboxInv, MarkIsTrue, MarkSent, MarkFailed, At, Out
<1>3. Out' = Out /\ dropped' = dropped
  BY DEF MarkSent, MarkFailed, broker, Out, Published
<1>4. PICK r \in {"sent", "failed"} : status' = [status EXCEPT ![m] = r]
  BY DEF MarkSent, MarkFailed, Mark
<1> HIDE DEF m
<1>5. status'[m] = r /\ \A n \in Msg \ {m} : status'[n] = status[n]
  BY <1>1, <1>4 DEF OutboxInv, TypeOK
<1>6. Accepted' = Accepted /\ Closed' = Closed \cup {m}
  BY <1>1, <1>5 DEF Accepted, Closed
<1> QED
  BY <1>1, <1>2, <1>3, <1>6 DEF Promise!Next, Promise!Close, Out, Accepted, Closed

\* Every step of a worker is a step of Delivery or a stutter.
LEMMA WorkerStepRefines ==
  ASSUME OutboxInv, NEW w \in Worker, WorkerStep(w) \/ WorkerFault(w)
  PROVE  [Promise!Next]_(Promise!vars)
<1>1. CASE PullPending(w) \/ PullLost(w)
  BY <1>1, PullRefines
<1>2. CASE MarkSent(w) \/ MarkFailed(w)
  BY <1>2, MarkRefines
<1>3. CASE Publish(w) \/ PublishFails(w)
  <2>1. worker[w].batch # {} /\ status' = status /\ dlq' = dlq /\ dropped' = dropped
    BY <1>3 DEF OutboxInv, BusyHasMessage, Publish, PublishFails, At, table
  <2>2. Published' = Published \/ Published' = Published \cup {Current(worker[w])}
    <3>1. CASE topic' = topic
      BY <3>1 DEF Published
    <3>2. CASE topic' = Append(topic, Current(worker[w]))
      BY <2>1, <3>2, WorkerFacts, PublishedAppend DEF OutboxInv, TypeOK
    <3> QED
      BY <1>3, <3>1, <3>2 DEF Publish, PublishFails
  <2>3. Out' = Out \/ Out' = Out \cup {Current(worker[w])}
    BY <2>1, <2>2 DEF Out
  <2> QED
    BY <2>1, <2>3, HandsOver
<1>4. CASE PublishToDLQ(w) \/ PublishToDLQFails(w)
  <2>1. worker[w].batch # {} /\ status' = status
    BY <1>4 DEF OutboxInv, BusyHasMessage, PublishToDLQ, PublishToDLQFails, At, table
  <2>2. \/ dropped' = dropped /\ Out' = Out \cup {Current(worker[w])}
        \/ dropped' = dropped \cup {Current(worker[w])} /\ Out' = Out
    BY <1>4 DEF PublishToDLQ, PublishToDLQFails, Out, Published
  <2> QED
    BY <2>1, <2>2, HandsOver
<1>5. CASE Backoff(w) \/ BackoffCanceled(w) \/ MarkFails(w) \/ Shutdown(w) \/ Stop(w) \/ Crash(w) \/ Restart(w)
  BY <1>5, Stutters DEF Backoff, BackoffCanceled, MarkFails, Shutdown, Stop, Crash, Restart, table, broker,
     Accepted, Out, Closed, Published
<1> QED
  BY <1>1, <1>2, <1>3, <1>4, <1>5 DEF WorkerStep, WorkerFault

\* The workers implement Delivery: an event is handed over only after it was
\* accepted, a row is closed only when its message reached a topic or the dead
\* letter topic refused it, and it is never opened again.
THEOREM OutboxImplementsDelivery == Spec => ImplementsDelivery
<1>1. Init => Promise!Init
  BY DEF Init, Promise!Init, Published
<1>2. OutboxInv /\ [Next]_vars => [Promise!Next]_(Promise!vars)
  <2> SUFFICES ASSUME OutboxInv, [Next]_vars PROVE [Promise!Next]_(Promise!vars)
    OBVIOUS
  <2>1. CASE UNCHANGED vars
    BY <2>1, Stutters DEF vars, Accepted, Out, Closed, Published
  <2> QED
    BY <2>1, TableStepRefines, WorkerStepRefines DEF Next
<1> QED
  BY <1>1, <1>2, OutboxInvariant, PTL DEF Spec, ImplementsDelivery, Promise!Spec

=============================================================================
