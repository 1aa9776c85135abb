----------------------------- MODULE SagaProofs -----------------------------
(***************************************************************************)
(* Proofs about the saga orchestrator, for any number of goroutines, any   *)
(* amount, any answers of the services and any number of faults and        *)
(* crashes.  SagaInv (module Saga) is shown to be inductive; the safety    *)
(* properties follow from it.  Two more invariants rest on it: Told, which *)
(* says who still has to announce a version, for the completeness of the   *)
(* events; and SerialInv, the accounts of stock and money, for an order    *)
(* whose sagas do not overlap.                                             *)
(***************************************************************************)
EXTENDS Saga, TLAPS

-----------------------------------------------------------------------------
(* The functions that move a goroutine from one step to the next.          *)

\* t is s further on: same arguments, same copy of the row.
Moved(s, t) ==
  /\ t \in SagaState
  /\ t.kind = s.kind /\ t.amount = s.amount
  /\ t.status = s.status /\ t.version = s.version

\* Going to a label of the program changes nothing but the label.
LEMMA GotoMoves ==
  ASSUME NEW s \in SagaState, NEW l \in PC
  PROVE  /\ Moved(s, Goto(s, l))
         /\ Goto(s, l).pc = l
         /\ Goto(s, l).target = s.target /\ Goto(s, l).event = s.event
BY DEF Moved, Goto, SagaState

\* updateStatus called with a status the copy does not have goes to its loop.
LEMMA BeginUpdateMoves ==
  ASSUME NEW s \in SagaState, NEW st \in Status, s.status # st
  PROVE  /\ Moved(s, BeginUpdate(s, st))
         /\ BeginUpdate(s, st).pc = "save"
         /\ BeginUpdate(s, st).target = st
         /\ BeginUpdate(s, st).event = s.event
<1> DEFINE t == [s EXCEPT !.target = st, !.attempt = 0]
<1>1. BeginUpdate(s, st) = Goto(t, "save")
  BY DEF BeginUpdate
<1>2. 0 \in 0 .. MaxRetries - 1
  BY DEF MaxRetries
<1>3. t \in SagaState /\ Moved(s, t) /\ t.target = st /\ t.event = s.event
  BY <1>2 DEF Moved, SagaState
<1> HIDE DEF t
<1> QED
  BY <1>1, <1>3, GotoMoves DEF Moved, PC

\* What follows a committed status: the next step of Start, or the closing event.
LEMMA AfterUpdateMoves ==
  ASSUME NEW s \in SagaState
  PROVE  /\ Moved(s, AfterUpdate(s))
         /\ AfterUpdate(s).target = s.target
         /\ s.target = "reserved" => AfterUpdate(s).pc = "pay"
         /\ s.target = "paid" => AfterUpdate(s).pc = "confirm"
         /\ s.target = "confirmed" => AfterUpdate(s).pc = "done"
         /\ s.target \notin {"reserved", "paid", "confirmed"} =>
              AfterUpdate(s).pc = "enqueue" /\ AfterUpdate(s).event = ClosingEvent(s)
<1>1. ClosingEvent(s) \in EventType
  BY DEF ClosingEvent, EventType, SagaState, Kind
<1>2. CASE s.target \in {"reserved", "paid", "confirmed"}
  BY <1>2, GotoMoves DEF AfterUpdate, PC
<1>3. CASE s.target \notin {"reserved", "paid", "confirmed"}
  <2>1. AfterUpdate(s) = [s EXCEPT !.pc = "enqueue", !.event = ClosingEvent(s)]
    BY <1>3 DEF AfterUpdate
  <2> QED
    BY <1>1, <1>3, <2>1 DEF Moved, SagaState, PC
<1> QED
  BY <1>2, <1>3

-----------------------------------------------------------------------------
(* A goroutine that is Good stays Good through each of its own steps ...   *)

\* Good is kept when other goroutines commit statuses or the order is paid for.
LEMMA GoodMonotone ==
  ASSUME NEW s \in SagaState, NEW h \in Seq(Status), NEW x \in Status,
         NEW p \in BOOLEAN, NEW q \in BOOLEAN, p => q, Good(s, h, p)
  PROVE  Good(s, h, q) /\ Good(s, Append(h, x), q)
<1>1. CopyIsVersion(s, h) => CopyIsVersion(s, Append(h, x))
  BY DEF CopyIsVersion, Past, SagaState
<1> QED
  BY <1>1 DEF Good

\* A goroutine that enters updateStatus with a status it may write is Good.
LEMMA BeginUpdateGood ==
  ASSUME NEW s \in SagaState, NEW h, NEW p \in BOOLEAN, CopyIsVersion(s, h),
         NEW st \in Status, s.status # st, Writes(s.kind, st), st \in Charged => p
  PROVE  /\ BeginUpdate(s, st) \in SagaState
         /\ Good(BeginUpdate(s, st), h, p)
         /\ BeginUpdate(s, st).pc = "save"
<1> DEFINE t == BeginUpdate(s, st)
<1>1. Moved(s, t) /\ t.pc = "save" /\ t.target = st
  BY BeginUpdateMoves
<1> HIDE DEF t
<1>2. CopyIsVersion(t, h)
  BY <1>1 DEF CopyIsVersion, Moved
<1>3. StepFits(t.pc, t.kind, t.status)
  BY <1>1 DEF StepFits
<1>4. WriteFitsKind(t) /\ (NeedsCharge(t) => p)
  BY <1>1 DEF WriteFitsKind, NeedsCharge, Writes, Moved
<1> QED
  BY <1>1, <1>2, <1>3, <1>4 DEF Good, Moved, t

\* A goroutine that goes to a step its copy of the row is right for is Good.
LEMMA GotoGood ==
  ASSUME NEW s \in SagaState, NEW h, NEW p \in BOOLEAN, CopyIsVersion(s, h),
         NEW l \in {"reserve", "pay", "confirm", "release", "refund", "done"},
         StepFits(l, s.kind, s.status),
         l \in {"confirm", "refund"} \/ (l = "release" /\ s.kind = "Refund") => p
  PROVE  /\ Goto(s, l) \in SagaState
         /\ Good(Goto(s, l), h, p)
         /\ Goto(s, l).pc = l
<1> DEFINE t == Goto(s, l)
<1>1. Moved(s, t) /\ t.pc = l
  BY GotoMoves DEF PC
<1> HIDE DEF t
<1>2. CopyIsVersion(t, h)
  BY <1>1 DEF CopyIsVersion, Moved
<1>3. StepFits(t.pc, t.kind, t.status)
  BY <1>1 DEF StepFits, Moved
<1>4. WriteFitsKind(t) /\ (NeedsCharge(t) => p)
  BY <1>1 DEF WriteFitsKind, NeedsCharge, Moved
<1> QED
  BY <1>1, <1>2, <1>3, <1>4 DEF Good, Moved, t

\* A goroutine may return at any point.
LEMMA DoneGood ==
  ASSUME NEW s \in SagaState, NEW h, NEW p \in BOOLEAN, Good(s, h, p)
  PROVE  Goto(s, "done") \in SagaState /\ Good(Goto(s, "done"), h, p) /\ Goto(s, "done").pc = "done"
BY GotoGood DEF Good, StepFits

\* Loading the current row and taking the branch for its status.
LEMMA GetGood ==
  ASSUME NEW s \in SagaState, NEW h \in Seq(Status), NEW p \in BOOLEAN,
         Past(h, Len(h)) \in Charged => p
  PROVE  LET t == AfterGet([s EXCEPT !.status = Past(h, Len(h)), !.version = Len(h)])
         IN  t \in SagaState /\ Good(t, h, p) /\ t.pc \notin {"enqueue", "append"}
<1> DEFINE u == [s EXCEPT !.status = Past(h, Len(h)), !.version = Len(h)]
           Fine(t) == t \in SagaState /\ Good(t, h, p) /\ t.pc \notin {"enqueue", "append"}
<1> SUFFICES Fine(AfterGet(u))
  OBVIOUS
<1>1. Past(h, Len(h)) \in Status /\ Len(h) \in Nat
  BY DEF Past, Status
<1>2. u \in SagaState /\ u.version = Len(h) /\ u.status = Past(h, Len(h))
  BY <1>1 DEF SagaState
<1> HIDE DEF u
<1>3. CopyIsVersion(u, h) /\ u.kind \in Kind /\ u.status \in Status
  BY <1>1, <1>2 DEF CopyIsVersion, SagaState
<1>4. CASE u.kind = "Start"
  <2>1. ASSUME NEW l \in {"reserve", "pay", "confirm", "done"}, AfterGet(u) = Goto(u, l),
               l = "reserve" => u.status = "pending", l = "pay" => u.status = "reserved",
               l = "confirm" => u.status = "paid"
        PROVE  Fine(AfterGet(u))
    BY <1>2, <1>3, <1>4, <2>1, GotoGood DEF StepFits, Charged
  <2> QED
    BY <1>4, <2>1 DEF AfterGet, StartFrom
<1>5. CASE u.kind = "Cancel"
  <2>1. CASE u.status \in Terminal
    <3>1. AfterGet(u) = Goto(u, "done")
      BY <1>5, <2>1 DEF AfterGet, CancelFrom, Terminal
    <3>2. StepFits("done", u.kind, u.status)
      BY DEF StepFits
    <3> QED
      BY <1>2, <1>3, <3>1, <3>2, GotoGood
  <2>2. CASE u.status = "pending"
    BY <1>2, <1>3, <1>5, <2>2, BeginUpdateGood DEF AfterGet, CancelFrom, Terminal, Status, Charged, Writes
  <2>3. CASE u.status \notin Terminal \cup {"pending"}
    <3>1. AfterGet(u) = Goto(u, "release")
      BY <1>5, <2>3 DEF AfterGet, CancelFrom
    <3>2. u.status \in {"reserved", "paid", "confirmed"}
      BY <1>3, <2>3 DEF Terminal, Status
    <3>3. StepFits("release", u.kind, u.status)
      BY <1>5, <3>2 DEF StepFits
    <3> QED
      BY <1>2, <1>3, <1>5, <3>1, <3>3, GotoGood
  <2> QED
    BY <2>1, <2>2, <2>3
<1>6. CASE u.kind = "Refund"
  <2>1. AfterGet(u) = Goto(u, IF u.status \in {"paid", "confirmed"} THEN "refund" ELSE "done")
    BY <1>6 DEF AfterGet, RefundFrom
  <2>2. CASE u.status \in {"paid", "confirmed"}
    BY <1>2, <1>3, <1>6, <2>1, <2>2, GotoGood DEF StepFits, Charged
  <2>3. CASE u.status \notin {"paid", "confirmed"}
    BY <1>2, <1>3, <1>6, <2>1, <2>3, GotoGood DEF StepFits
  <2> QED
    BY <2>2, <2>3
<1> QED
  BY <1>3, <1>4, <1>5, <1>6 DEF Kind

\* What the steps of Start that move the order forward lead to: the reservation,
\* which ends in reserved or, refused, in canceled; the payment; the confirmation.
ReserveOutcome == {"reserved", "canceled"}

\* After the reservation updateStatus is called as the invariant allows.
LEMMA ReserveGood ==
  ASSUME NEW s \in SagaState, NEW h, NEW p \in BOOLEAN, Good(s, h, p),
         s.pc = "reserve", NEW st \in ReserveOutcome
  PROVE  /\ BeginUpdate(s, st) \in SagaState
         /\ Good(BeginUpdate(s, st), h, p)
         /\ BeginUpdate(s, st).pc = "save"
<1>1. CopyIsVersion(s, h) /\ StepFits(s.pc, s.kind, s.status)
  BY DEF Good
<1>2. st \in Status /\ s.status # st /\ Writes(s.kind, st) /\ st \notin Charged
  BY <1>1 DEF Status, StepFits, Writes, Charged, ReserveOutcome
<1> QED
  BY <1>1, <1>2, BeginUpdateGood

\* After a charge it is called with paid, and the charge is known.
LEMMA PayGood ==
  ASSUME NEW s \in SagaState, NEW h, NEW p \in BOOLEAN, Good(s, h, p), s.pc = "pay"
  PROVE  /\ BeginUpdate(s, "paid") \in SagaState
         /\ Good(BeginUpdate(s, "paid"), h, TRUE)
         /\ BeginUpdate(s, "paid").pc = "save"
<1>1. CopyIsVersion(s, h) /\ StepFits(s.pc, s.kind, s.status)
  BY DEF Good
<1>2. "paid" \in Status /\ s.status # "paid" /\ Writes(s.kind, "paid")
  BY <1>1 DEF Status, StepFits, Writes
<1> QED
  BY <1>1, <1>2, BeginUpdateGood

\* After the charge was recorded it is called with confirmed.
LEMMA ConfirmGood ==
  ASSUME NEW s \in SagaState, NEW h, NEW p \in BOOLEAN, Good(s, h, p), s.pc = "confirm"
  PROVE  /\ BeginUpdate(s, "confirmed") \in SagaState
         /\ Good(BeginUpdate(s, "confirmed"), h, p)
         /\ BeginUpdate(s, "confirmed").pc = "save"
<1>1. CopyIsVersion(s, h) /\ StepFits(s.pc, s.kind, s.status) /\ p
  BY DEF Good, NeedsCharge
<1>2. "confirmed" \in Status /\ s.status # "confirmed" /\ Writes(s.kind, "confirmed")
  BY <1>1 DEF Status, StepFits, Writes
<1> QED
  BY <1>1, <1>2, BeginUpdateGood

\* A payment that fails is followed by releaseInventory.
LEMMA PayFailsGood ==
  ASSUME NEW s \in SagaState, NEW h, NEW p \in BOOLEAN, Good(s, h, p), s.pc = "pay"
  PROVE  /\ Goto(s, "release") \in SagaState
         /\ Good(Goto(s, "release"), h, p)
         /\ Goto(s, "release").pc = "release"
<1>1. CopyIsVersion(s, h) /\ StepFits("release", s.kind, s.status) /\ s.kind # "Refund"
  BY DEF Good, StepFits
<1> QED
  BY <1>1, GotoGood

\* releaseInventory is followed by the refund or by the final transition.
LEMMA ReleaseGood ==
  ASSUME NEW s \in SagaState, NEW h, NEW p \in BOOLEAN, Good(s, h, p), s.pc = "release",
         s.status \in Charged => p
  PROVE  /\ AfterRelease(s) \in SagaState
         /\ Good(AfterRelease(s), h, p)
         /\ AfterRelease(s).pc \notin {"enqueue", "append"}
<1>1. CopyIsVersion(s, h) /\ StepFits(s.pc, s.kind, s.status)
  BY DEF Good
<1>2. CASE s.kind = "Refund"
  <2>1. AfterRelease(s) = BeginUpdate(s, "refunded")
    BY <1>2 DEF AfterRelease
  <2>2. "refunded" \in Status /\ s.status # "refunded" /\ Writes(s.kind, "refunded") /\ p
    BY <1>1, <1>2 DEF Status, StepFits, Writes, Charged
  <2> QED
    BY <1>1, <2>1, <2>2, BeginUpdateGood
<1>3. CASE s.kind = "Cancel" /\ s.status \in {"paid", "confirmed"}
  <2>1. AfterRelease(s) = Goto(s, "refund")
    BY <1>3 DEF AfterRelease
  <2>2. StepFits("refund", s.kind, s.status) /\ p
    BY <1>3 DEF StepFits, Charged
  <2>3. /\ Goto(s, "refund") \in SagaState
        /\ Good(Goto(s, "refund"), h, p)
        /\ Goto(s, "refund").pc = "refund"
    BY <1>1, <2>2, GotoGood
  <2> QED
    BY <2>1, <2>3
<1>4. CASE s.kind # "Refund" /\ ~(s.kind = "Cancel" /\ s.status \in {"paid", "confirmed"})
  <2>1. AfterRelease(s) = BeginUpdate(s, "canceled")
    BY <1>4 DEF AfterRelease
  <2>2. "canceled" \in Status /\ s.status # "canceled" /\ Writes(s.kind, "canceled") /\ "canceled" \notin Charged
    BY <1>1, <1>4 DEF Status, StepFits, Writes, Charged
  <2> QED
    BY <1>1, <2>1, <2>2, BeginUpdateGood
<1> QED
  BY <1>2, <1>3, <1>4

\* The refund of a Cancel is followed by the final transition, that of a Refund
\* by releaseInventory.
LEMMA RefundGood ==
  ASSUME NEW s \in SagaState, NEW h, NEW p \in BOOLEAN, Good(s, h, p), s.pc = "refund"
  PROVE  /\ p
         /\ s.kind = "Cancel" =>
              /\ BeginUpdate(s, "canceled") \in SagaState
              /\ Good(BeginUpdate(s, "canceled"), h, p)
              /\ BeginUpdate(s, "canceled").pc = "save"
         /\ s.kind # "Cancel" =>
              /\ Goto(s, "release") \in SagaState
              /\ Good(Goto(s, "release"), h, p)
              /\ Goto(s, "release").pc = "release"
<1>1. CopyIsVersion(s, h) /\ StepFits(s.pc, s.kind, s.status) /\ p
  BY DEF Good, NeedsCharge
<1>2. ASSUME s.kind = "Cancel"
      PROVE  /\ BeginUpdate(s, "canceled") \in SagaState
             /\ Good(BeginUpdate(s, "canceled"), h, p)
             /\ BeginUpdate(s, "canceled").pc = "save"
  <2>1. "canceled" \in Status /\ s.status # "canceled" /\ Writes(s.kind, "canceled")
    BY <1>1, <1>2 DEF Status, StepFits, Writes
  <2> QED
    BY <1>1, <2>1, BeginUpdateGood
<1>3. ASSUME s.kind # "Cancel"
      PROVE  /\ Goto(s, "release") \in SagaState
             /\ Good(Goto(s, "release"), h, p)
             /\ Goto(s, "release").pc = "release"
  <2>1. StepFits("release", s.kind, s.status)
    BY <1>1, <1>3 DEF StepFits
  <2> QED
    BY <1>1, <2>1, GotoGood
<1> QED
  BY <1>1, <1>2, <1>3

\* The committed copy is the newest version of the row.
LEMMA SaveGood ==
  ASSUME NEW s \in SagaState, NEW h \in Seq(Status), NEW p \in BOOLEAN, Good(s, h, p),
         s.pc = "save", s.version = Len(h)
  PROVE  /\ Committed(s) \in SagaState
         /\ Good(Committed(s), Append(h, s.target), p)
         /\ Committed(s).pc = "enqueue" /\ Committed(s).version = Len(h) + 1
<1> DEFINE t == Committed(s)
           g == Append(h, s.target)
<1>1. s.target \in Status /\ Len(h) \in Nat /\ s.version + 1 \in Nat
  BY DEF SagaState
<1>2. /\ t \in SagaState /\ t.pc = "enqueue" /\ t.version = Len(h) + 1
      /\ t.event = "OrderStatusChanged" /\ t.status = s.target /\ t.target = s.target
      /\ t.kind = s.kind
  BY <1>1 DEF Committed, SagaState, PC, EventType
<1>3. Len(g) = Len(h) + 1 /\ g[Len(h) + 1] = s.target
  BY <1>1
<1> HIDE DEF t, g
<1>4. CopyIsVersion(t, g)
  BY <1>1, <1>2, <1>3 DEF CopyIsVersion, Past
<1>5. Writes(s.kind, s.target) /\ (s.target \in Charged => p)
  BY DEF Good, WriteFitsKind, NeedsCharge
<1>6. StepFits(t.pc, t.kind, t.status)
  BY <1>2 DEF StepFits
<1>7. WriteFitsKind(t) /\ (NeedsCharge(t) => p)
  BY <1>2, <1>5 DEF WriteFitsKind, NeedsCharge
<1> QED
  BY <1>2, <1>4, <1>6, <1>7 DEF Good, t, g

\* A reload after a conflict brings the newest version of the row.
LEMMA ReloadGood ==
  ASSUME NEW s \in SagaState, NEW h \in Seq(Status), NEW p \in BOOLEAN, Good(s, h, p),
         s.pc = "save", s.attempt < MaxRetries - 1
  PROVE  LET t == [s EXCEPT !.status = Past(h, Len(h)), !.version = Len(h),
                            !.attempt = s.attempt + 1]
         IN  t \in SagaState /\ Good(t, h, p) /\ t.pc = "save"
<1> DEFINE t == [s EXCEPT !.status = Past(h, Len(h)), !.version = Len(h),
                          !.attempt = s.attempt + 1]
<1> SUFFICES t \in SagaState /\ Good(t, h, p) /\ t.pc = "save"
  OBVIOUS
<1>1. Past(h, Len(h)) \in Status /\ Len(h) \in Nat
  BY DEF Past, Status
<1>2. s.attempt + 1 \in 0 .. MaxRetries - 1
  BY DEF SagaState, MaxRetries
<1>3. /\ t \in SagaState /\ t.pc = "save" /\ t.version = Len(h) /\ t.status = Past(h, Len(h))
      /\ t.target = s.target /\ t.kind = s.kind
  BY <1>1, <1>2 DEF SagaState
<1> HIDE DEF t
<1>4. CopyIsVersion(t, h)
  BY <1>1, <1>3 DEF CopyIsVersion
<1>5. Writes(s.kind, s.target) /\ (s.target \in Charged => p)
  BY DEF Good, WriteFitsKind, NeedsCharge
<1>6. StepFits(t.pc, t.kind, t.status)
  BY <1>3 DEF StepFits
<1>7. WriteFitsKind(t) /\ (NeedsCharge(t) => p)
  BY <1>3, <1>5 DEF WriteFitsKind, NeedsCharge
<1> QED
  BY <1>3, <1>4, <1>6, <1>7 DEF Good

\* From the outbox to the timeline.
LEMMA EnqueueGood ==
  ASSUME NEW s \in SagaState, NEW h, NEW p \in BOOLEAN, Good(s, h, p), s.pc = "enqueue"
  PROVE  /\ Goto(s, "append") \in SagaState
         /\ Good(Goto(s, "append"), h, p)
         /\ Goto(s, "append").pc = "append"
         /\ Goto(s, "append").version = s.version /\ Goto(s, "append").event = s.event
<1> DEFINE t == Goto(s, "append")
<1>1. Moved(s, t) /\ t.pc = "append" /\ t.target = s.target /\ t.event = s.event
  BY GotoMoves DEF PC
<1> HIDE DEF t
<1>2. CopyIsVersion(t, h)
  BY <1>1 DEF CopyIsVersion, Moved, Good
<1>3. StepFits(t.pc, t.kind, t.status)
  BY <1>1 DEF StepFits
<1>4. ClosingEvent(t) = ClosingEvent(s)
  BY <1>1 DEF ClosingEvent, Moved
<1>5. WriteFitsKind(t) /\ (NeedsCharge(t) => p)
  BY <1>1, <1>4 DEF WriteFitsKind, NeedsCharge, Moved, Good
<1> QED
  BY <1>1, <1>2, <1>3, <1>5 DEF Good, Moved, t

\* From the timeline to the next step, or to the closing event of the same version.
LEMMA AppendGood ==
  ASSUME NEW s \in SagaState, NEW h, NEW p \in BOOLEAN, Good(s, h, p), s.pc = "append"
  PROVE  /\ AfterEmit(s) \in SagaState
         /\ Good(AfterEmit(s), h, p)
         /\ AfterEmit(s).version = s.version
         /\ AfterEmit(s).pc # "append"
         /\ AfterEmit(s).pc = "enqueue" =>
              s.event = "OrderStatusChanged" /\ AfterEmit(s).event # "OrderStatusChanged"
<1>1. /\ CopyIsVersion(s, h) /\ Writes(s.kind, s.target) /\ s.status = s.target
      /\ s.target \in Charged => p
  BY DEF Good, WriteFitsKind, NeedsCharge
<1>2. CASE s.event # "OrderStatusChanged"
  BY <1>2, DoneGood, GotoMoves DEF AfterEmit, Moved, PC
<1>3. CASE s.event = "OrderStatusChanged"
  <2> DEFINE t == AfterUpdate(s)
  <2>1. AfterEmit(s) = t
    BY <1>3 DEF AfterEmit
  <2>2. /\ Moved(s, t)
        /\ t.target = s.target
        /\ s.target = "reserved" => t.pc = "pay"
        /\ s.target = "paid" => t.pc = "confirm"
        /\ s.target = "confirmed" => t.pc = "done"
        /\ s.target \notin {"reserved", "paid", "confirmed"} =>
             t.pc = "enqueue" /\ t.event = ClosingEvent(s)
    BY AfterUpdateMoves
  <2>3. ClosingEvent(t) = ClosingEvent(s) /\ ClosingEvent(s) # "OrderStatusChanged"
    BY <2>2 DEF ClosingEvent, Moved, SagaState, Kind
  <2> HIDE DEF t
  <2>4. CopyIsVersion(t, h)
    BY <1>1, <2>2 DEF CopyIsVersion, Moved
  <2>5. StepFits(t.pc, t.kind, t.status)
    BY <1>1, <2>2 DEF StepFits, Writes, Moved
  <2>6. WriteFitsKind(t)
    BY <1>1, <2>2, <2>3 DEF WriteFitsKind, Writes, Moved, Terminal
  <2>7. NeedsCharge(t) => p
    BY <1>1, <2>2 DEF NeedsCharge, Writes, Moved, Charged
  <2> QED
    BY <1>3, <2>1, <2>2, <2>3, <2>4, <2>5, <2>6, <2>7 DEF Good, Moved
<1> QED
  BY <1>2, <1>3

-----------------------------------------------------------------------------
(* ... and the steps of one goroutine preserve the invariant of all.       *)

\* A step that commits nothing, emits nothing and does not enter emitEvent.
LEMMA QuietStep ==
  ASSUME SagaInv, NEW c \in Call, NEW t \in SagaState,
         saga' = [saga EXCEPT ![c] = t],
         t.pc \notin {"enqueue", "append"},
         UNCHANGED <<order, history, outbox, timeline>>,
         held' \in BOOLEAN, captured' \in Nat, refunded' \in Nat, faults' \in Nat, crashes' \in Nat,
         captured' >= captured,
         refunded' > 0 => captured' >= Amount,
         Good(t, history, captured' >= Amount)
  PROVE  SagaInv'
<1>1. TypeOK'
  BY DEF SagaInv, TypeOK
<1>2. RowIsLastCommit' /\ EventsAreTrue' /\ EventsAreUnique'
  BY DEF SagaInv, RowIsLastCommit, StatusAt, EventsAreTrue, EventsAreUnique, Emitted
<1>3. captured >= Amount => captured' >= Amount
  BY AmountAssumption DEF SagaInv, TypeOK
<1>4. ChargeComesFirst'
  BY <1>3 DEF SagaInv, ChargeComesFirst
<1>5. /\ saga'[c] = t
      /\ \A d \in Call : d # c => saga'[d] = saga[d]
  BY DEF SagaInv, TypeOK
<1>6. \A d \in Call : Good(saga[d], history, captured' >= Amount) \/ d = c
  <2> SUFFICES ASSUME NEW d \in Call PROVE Good(saga[d], history, captured' >= Amount)
    OBVIOUS
  <2>1. saga[d] \in SagaState /\ history \in Seq(Status) /\ Good(saga[d], history, captured >= Amount)
    BY DEF SagaInv, TypeOK
  <2>2. "pending" \in Status
    BY DEF Status
  <2>3. (captured >= Amount) \in BOOLEAN /\ (captured' >= Amount) \in BOOLEAN
    OBVIOUS
  <2> QED
    BY <1>3, <2>1, <2>2, <2>3, GoodMonotone, ZenonT(60)
<1>7. (\A d \in Call : Good(saga[d], history, captured >= Amount))'
  BY <1>5, <1>6
<1>8. OneOwner' /\ NotYetSent'
  BY <1>5 DEF SagaInv, OneOwner, NotYetSent, Emitting, Emitted
<1> QED
  BY <1>1, <1>2, <1>4, <1>7, <1>8 DEF SagaInv

\* A step that commits a status: Save, acknowledged or not.
LEMMA CommitStep ==
  ASSUME SagaInv, NEW c \in Call, NEW t \in SagaState, NEW x \in Status,
         saga' = [saga EXCEPT ![c] = t],
         order' = [status |-> x, version |-> order.version + 1],
         history' = Append(history, x),
         UNCHANGED <<services, events, crashes>>, faults' \in Nat,
         x \in Charged => captured >= Amount,
         Good(t, Append(history, x), captured >= Amount),
         t.pc # "append",
         t.pc = "enqueue" => t.version = Len(history) + 1
  PROVE  SagaInv'
<1>1. order.version = Len(history) /\ Len(history) \in Nat /\ history \in Seq(Status)
  BY DEF SagaInv, RowIsLastCommit, TypeOK
<1>2. /\ Len(history') = Len(history) + 1 /\ history'[Len(history) + 1] = x
      /\ \A v \in 1 .. Len(history) : history'[v] = history[v]
      /\ DOMAIN history' = 1 .. Len(history) + 1 /\ DOMAIN history = 1 .. Len(history)
  BY <1>1
<1>3. TypeOK'
  BY <1>1 DEF SagaInv, TypeOK, services, events
<1>4. RowIsLastCommit'
  BY <1>1, <1>2 DEF RowIsLastCommit, StatusAt, Past
<1>5. ChargeComesFirst'
  <2>1. \A v \in 1 .. Len(history) + 1 : v \in 1 .. Len(history) \/ v = Len(history) + 1
    BY <1>1
  <2> QED
    BY <1>2, <2>1 DEF SagaInv, ChargeComesFirst, services
<1>6. /\ saga'[c] = t
      /\ \A d \in Call : d # c => saga'[d] = saga[d]
  BY DEF SagaInv, TypeOK
<1>7. (\A d \in Call : Good(saga[d], history, captured >= Amount))'
  <2>1. ASSUME NEW d \in Call
        PROVE  Good(saga[d], Append(history, x), captured >= Amount)
    <3>1. saga[d] \in SagaState /\ Good(saga[d], history, captured >= Amount)
      BY DEF SagaInv, TypeOK
    <3>2. (captured >= Amount) \in BOOLEAN
      OBVIOUS
    <3> QED
      BY <1>1, <3>1, <3>2, GoodMonotone, ZenonT(60)
  <2> QED
    BY <1>6, <2>1 DEF services
<1>8. EventsAreTrue' /\ EventsAreUnique'
  <2>1. ASSUME NEW e \in Emitted \cup timeline PROVE TrueEvent(e, history')
    BY <1>1, <1>2 DEF SagaInv, EventsAreTrue, TrueEvent
  <2> QED
    BY <2>1 DEF SagaInv, EventsAreTrue, EventsAreUnique, Emitted, events
<1>9. OneOwner'
  <2>1. \A d \in Call : saga[d].version <= Len(history)
    BY <1>1 DEF SagaInv, Good, CopyIsVersion
  <2> QED
    BY <1>1, <1>6, <2>1 DEF SagaInv, OneOwner, Emitting
<1>10. NotYetSent'
  <2>1. \A e \in Emitted : e.version <= Len(history)
    BY <1>1 DEF SagaInv, EventsAreTrue, TrueEvent
  <2> QED
    BY <1>1, <1>6, <2>1 DEF SagaInv, NotYetSent, Emitting, Emitted, events
<1> QED
  BY <1>3, <1>4, <1>5, <1>7, <1>8, <1>9, <1>10 DEF SagaInv

\* What a goroutine emits is true of the row.
LEMMA EmitsTrueEvent ==
  ASSUME NEW s \in SagaState, NEW h \in Seq(Status), NEW p \in BOOLEAN, Good(s, h, p),
         s.pc \in {"enqueue", "append"}
  PROVE  EventOf(s) \in Event /\ TrueEvent(EventOf(s), h)
<1>1. EventOf(s) \in Event
  BY DEF EventOf, Event, SagaState
<1>2. /\ CopyIsVersion(s, h) /\ Writes(s.kind, s.target) /\ s.status = s.target
      /\ s.event # "OrderStatusChanged" => s.event = ClosingEvent(s) /\ s.target \in Terminal
  BY DEF Good, WriteFitsKind
<1>3. s.version \in 1 .. Len(h) /\ s.status = h[s.version]
  <2>1. s.status # "pending"
    BY <1>2 DEF Writes
  <2> QED
    BY <1>2, <2>1 DEF CopyIsVersion, Past, SagaState
<1>4. /\ s.event \in {"OrderCanceled", "OrderSagaFailed"} => s.status = "canceled"
      /\ s.event = "OrderRefunded" => s.status = "refunded"
  BY <1>2 DEF Writes, ClosingEvent, Terminal
<1> QED
  BY <1>1, <1>3, <1>4 DEF TrueEvent, EventOf

\* A step of emitEvent to the outbox, which may fail.
LEMMA EnqueueStep ==
  ASSUME SagaInv, NEW c \in Call, saga[c].pc = "enqueue",
         saga' = [saga EXCEPT ![c] = Goto(saga[c], "append")],
         outbox' \in {outbox, Append(outbox, EventOf(saga[c]))},
         UNCHANGED <<row, services, timeline, crashes>>, faults' \in Nat
  PROVE  SagaInv'
<1> DEFINE t == Goto(saga[c], "append")
           e == EventOf(saga[c])
<1>1. /\ saga[c] \in SagaState /\ history \in Seq(Status) /\ outbox \in Seq(Event)
      /\ Good(saga[c], history, captured >= Amount) /\ (captured >= Amount) \in BOOLEAN
  BY DEF SagaInv, TypeOK
<1>2. e \in Event /\ TrueEvent(e, history)
  BY <1>1, EmitsTrueEvent, ZenonT(60)
<1>3. /\ t \in SagaState /\ Good(t, history, captured >= Amount)
      /\ t.pc = "append" /\ t.version = saga[c].version /\ t.event = saga[c].event
  BY <1>1, EnqueueGood, ZenonT(60)
<1>4. e.version = saga[c].version /\ e.type = saga[c].event
  BY DEF EventOf
<1> HIDE DEF t, e
<1>5. outbox' = outbox \/ outbox' = Append(outbox, e)
  BY DEF e
<1>6. outbox' \in Seq(Event) /\ Emitted' \subseteq Emitted \cup {e}
  <2>1. CASE outbox' = outbox
    BY <1>1, <2>1 DEF Emitted
  <2>2. CASE outbox' = Append(outbox, e)
    <3>1. /\ outbox' \in Seq(Event) /\ DOMAIN outbox' = 1 .. Len(outbox) + 1
          /\ outbox'[Len(outbox) + 1] = e
          /\ DOMAIN outbox = 1 .. Len(outbox) /\ Len(outbox) \in Nat
          /\ \A i \in 1 .. Len(outbox) : outbox'[i] = outbox[i]
      BY <1>1, <1>2, <2>2
    <3>2. \A i \in 1 .. Len(outbox) + 1 : i \in 1 .. Len(outbox) \/ i = Len(outbox) + 1
      BY <3>1
    <3> QED
      BY <3>1, <3>2 DEF Emitted
  <2> QED
    BY <1>5, <2>1, <2>2
<1>7. TypeOK'
  BY <1>3, <1>6 DEF SagaInv, TypeOK, row, services, t
<1>8. RowIsLastCommit' /\ ChargeComesFirst'
  BY DEF SagaInv, RowIsLastCommit, StatusAt, ChargeComesFirst, row, services
<1>9. /\ saga'[c] = t
      /\ \A d \in Call : d # c => saga'[d] = saga[d]
  BY DEF SagaInv, TypeOK, t
<1>10. (\A d \in Call : Good(saga[d], history, captured >= Amount))'
  BY <1>3, <1>9 DEF SagaInv, row, services
<1>11. EventsAreTrue'
  BY <1>2, <1>6 DEF SagaInv, EventsAreTrue, row
<1>12. EventsAreUnique'
  <2>1. e \notin Emitted
    BY <1>4 DEF SagaInv, NotYetSent, Emitting
  <2>2. CASE outbox' = outbox
    BY <2>2 DEF SagaInv, EventsAreUnique
  <2>3. CASE outbox' = Append(outbox, e)
    <3>1. \A i \in 1 .. Len(outbox) : outbox'[i] = outbox[i] /\ outbox'[i] # e
      BY <1>1, <2>1, <2>3 DEF Emitted
    <3>2. outbox'[Len(outbox) + 1] = e /\ DOMAIN outbox' = 1 .. Len(outbox) + 1
          /\ DOMAIN outbox = 1 .. Len(outbox) /\ Len(outbox) \in Nat
      BY <1>1, <1>2, <2>3
    <3>3. \A i \in 1 .. Len(outbox) + 1 : i \in 1 .. Len(outbox) \/ i = Len(outbox) + 1
      BY <3>2
    <3> QED
      BY <3>1, <3>2, <3>3 DEF SagaInv, EventsAreUnique
  <2> QED
    BY <1>5, <2>2, <2>3
<1>13. OneOwner'
  BY <1>3, <1>9 DEF SagaInv, OneOwner, Emitting
<1>14. NotYetSent'
  <2>1. ASSUME NEW d \in Call, NEW f \in Emitted', Emitting(d)', f.version = saga'[d].version
        PROVE  /\ saga'[d].pc = "enqueue" => f.type # saga'[d].event
               /\ saga'[d].event = "OrderStatusChanged" => f.type = "OrderStatusChanged"
    <3>1. CASE d = c /\ f = e
      BY <1>3, <1>4, <1>9, <3>1
    <3>2. CASE d = c /\ f # e
      BY <1>3, <1>6, <1>9, <2>1, <3>2 DEF SagaInv, NotYetSent, Emitting
    <3>3. CASE d # c /\ f = e
      BY <1>4, <1>9, <2>1, <3>3 DEF SagaInv, OneOwner, Emitting
    <3>4. CASE d # c /\ f # e
      BY <1>6, <1>9, <2>1, <3>4 DEF SagaInv, NotYetSent, Emitting
    <3> QED
      BY <3>1, <3>2, <3>3, <3>4
  <2> QED
    BY <2>1 DEF NotYetSent
<1> QED
  BY <1>7, <1>8, <1>10, <1>11, <1>12, <1>13, <1>14 DEF SagaInv

\* A step of emitEvent to the timeline, which may fail.
LEMMA AppendStep ==
  ASSUME SagaInv, NEW c \in Call, saga[c].pc = "append",
         saga' = [saga EXCEPT ![c] = AfterEmit(saga[c])],
         timeline' \in {timeline, timeline \cup {EventOf(saga[c])}},
         UNCHANGED <<row, services, outbox, crashes>>, faults' \in Nat
  PROVE  SagaInv'
<1>1. /\ saga[c] \in SagaState /\ history \in Seq(Status)
      /\ Good(saga[c], history, captured >= Amount) /\ (captured >= Amount) \in BOOLEAN
  BY DEF SagaInv, TypeOK
<1>2. EventOf(saga[c]) \in Event /\ TrueEvent(EventOf(saga[c]), history)
  BY <1>1, EmitsTrueEvent, ZenonT(60)
<1> DEFINE t == AfterEmit(saga[c])
<1>3. /\ t \in SagaState /\ Good(t, history, captured >= Amount)
      /\ t.version = saga[c].version /\ t.pc # "append"
      /\ t.pc = "enqueue" =>
           saga[c].event = "OrderStatusChanged" /\ t.event # "OrderStatusChanged"
  BY <1>1, AppendGood, ZenonT(60)
<1> HIDE DEF t
<1>4. TypeOK'
  BY <1>2, <1>3 DEF SagaInv, TypeOK, row, services, t
<1>5. RowIsLastCommit' /\ ChargeComesFirst' /\ EventsAreUnique'
  BY DEF SagaInv, RowIsLastCommit, StatusAt, ChargeComesFirst, EventsAreUnique, row, services
<1>6. /\ saga'[c] = t
      /\ \A d \in Call : d # c => saga'[d] = saga[d]
  BY DEF SagaInv, TypeOK, t
<1>7. (\A d \in Call : Good(saga[d], history, captured >= Amount))'
  BY <1>3, <1>6 DEF SagaInv, row, services
<1>8. EventsAreTrue'
  BY <1>2 DEF SagaInv, EventsAreTrue, Emitted, row
<1>9. OneOwner'
  BY <1>3, <1>6 DEF SagaInv, OneOwner, Emitting
<1>10. NotYetSent'
  BY <1>3, <1>6, SMTT(30) DEF SagaInv, NotYetSent, Emitting, Emitted
<1> QED
  BY <1>4, <1>5, <1>7, <1>8, <1>9, <1>10 DEF SagaInv

\* A crash ends every goroutine that runs.
LEMMA CrashStep ==
  ASSUME SagaInv, Crash
  PROVE  SagaInv'
<1>1. ASSUME NEW c \in Call
      PROVE  /\ saga'[c] \in SagaState
             /\ Good(saga'[c], history, captured >= Amount)
             /\ saga'[c].pc \notin {"enqueue", "append"}
  <2>1. /\ saga[c] \in SagaState /\ Good(saga[c], history, captured >= Amount)
        /\ (captured >= Amount) \in BOOLEAN
    BY DEF SagaInv, TypeOK
  <2>2. CASE c \in InFlight
    <3>1. saga'[c] = Goto(saga[c], "done")
      BY <2>2 DEF Crash
    <3>2. /\ Goto(saga[c], "done") \in SagaState
          /\ Good(Goto(saga[c], "done"), history, captured >= Amount)
          /\ Goto(saga[c], "done").pc = "done"
      BY <2>1, DoneGood, ZenonT(60)
    <3> QED
      BY <3>1, <3>2
  <2>3. CASE c \notin InFlight
    BY <2>1, <2>3 DEF Crash, InFlight
  <2> QED
    BY <2>2, <2>3
<1>2. UNCHANGED <<order, history, held, captured, refunded, outbox, timeline, faults>>
  BY DEF Crash, row, services, events
<1>3. TypeOK'
  <2>1. saga' \in [Call -> SagaState]
    BY <1>1 DEF Crash
  <2>2. crashes' \in Nat
    BY DEF Crash, SagaInv, TypeOK
  <2> QED
    BY <1>2, <2>1, <2>2 DEF SagaInv, TypeOK
<1>4. RowIsLastCommit' /\ ChargeComesFirst' /\ EventsAreTrue' /\ EventsAreUnique'
  BY <1>2 DEF SagaInv, RowIsLastCommit, StatusAt, ChargeComesFirst, EventsAreTrue, EventsAreUnique, Emitted
<1>5. (\A c \in Call : Good(saga[c], history, captured >= Amount))'
  BY <1>1, <1>2
<1>6. OneOwner' /\ NotYetSent'
  BY <1>1 DEF OneOwner, NotYetSent, Emitting
<1> QED
  BY <1>3, <1>4, <1>5, <1>6 DEF SagaInv

\* Every step of the orchestrator preserves the invariant.
LEMMA NextPreserves ==
  ASSUME SagaInv, [Next]_vars
  PROVE  SagaInv'
<1>1. CASE UNCHANGED vars
  <2>1. /\ order' = order /\ saga' = saga /\ history' = history /\ outbox' = outbox
        /\ timeline' = timeline /\ held' = held /\ captured' = captured /\ refunded' = refunded
        /\ faults' = faults /\ crashes' = crashes
    BY <1>1 DEF vars, row, events, services, budget
  <2>2. TypeOK' /\ RowIsLastCommit' /\ ChargeComesFirst'
    BY <2>1 DEF SagaInv, TypeOK, RowIsLastCommit, StatusAt, ChargeComesFirst
  <2>3. \A c \in Call : Good(saga'[c], history', captured' >= Amount)
    BY <2>1 DEF SagaInv
  <2>4. EventsAreTrue' /\ EventsAreUnique'
    BY <2>1 DEF SagaInv, EventsAreTrue, EventsAreUnique, Emitted, StatusAt
  <2>5. OneOwner' /\ NotYetSent'
    BY <2>1 DEF SagaInv, OneOwner, NotYetSent, Emitting, Emitted
  <2> QED BY <2>2, <2>3, <2>4, <2>5 DEF SagaInv
<1>2. CASE Crash
  BY <1>2, CrashStep
<1>3. ASSUME NEW c \in Call, Request(c) \/ Step(c) \/ Failure(c)
      PROVE  SagaInv'
  <2> DEFINE s == saga[c]
             p == captured >= Amount
  <2> USE DEF At, Become
  <2>1. /\ s \in SagaState /\ history \in Seq(Status) /\ Good(s, history, p) /\ p \in BOOLEAN
        /\ captured \in Nat /\ refunded \in Nat /\ held \in BOOLEAN /\ faults \in Nat /\ crashes \in Nat
        /\ refunded > 0 => p
    BY DEF SagaInv, TypeOK, ChargeComesFirst
  <2>2. /\ order.status = Past(history, Len(history)) /\ order.version = Len(history)
        /\ \A v \in 0 .. Len(history) : Past(history, v) \in Charged => p
    BY <2>1 DEF SagaInv, RowIsLastCommit, StatusAt, ChargeComesFirst, Past, Charged
  <2>3. (s.status \in Charged => p) /\ (Past(history, Len(history)) \in Charged => p)
    BY <2>1, <2>2 DEF Good, CopyIsVersion
  \* A step of c to the record t that leaves row, services and events alone.
  <2>4. ASSUME NEW t \in SagaState, saga' = [saga EXCEPT ![c] = t], Good(t, history, p),
               t.pc \notin {"enqueue", "append"},
               UNCHANGED <<order, history, outbox, timeline, captured, refunded>>,
               held' \in BOOLEAN, faults' \in Nat, crashes' \in Nat
        PROVE  SagaInv'
    <3>1. captured' >= captured /\ (captured' >= Amount) = p
      BY <2>1, <2>4
    <3> QED
      BY <2>1, <2>4, <3>1, QuietStep
  <2> HIDE DEF p
  <2>5. ASSUME NEW kind \in Kind, NEW amount \in Nat, Dispatch(c, kind, amount)
        PROVE  SagaInv'
    <3> DEFINE t == [s EXCEPT !.pc = "get", !.kind = kind, !.amount = amount]
    <3>1. /\ t \in SagaState /\ t.pc = "get" /\ t.version = s.version /\ t.status = s.status
      BY <2>1 DEF SagaState, PC
    <3>2. saga' = [saga EXCEPT ![c] = t]
      BY <2>5 DEF Dispatch, SagaInv, TypeOK
    <3> HIDE DEF t
    <3>3. Good(t, history, p)
      BY <2>1, <3>1 DEF Good, CopyIsVersion, StepFits, WriteFitsKind, NeedsCharge
    <3> QED
      BY <2>1, <2>4, <2>5, <3>1, <3>2, <3>3 DEF Dispatch, row, services, events, budget
  <2>6. ASSUME Request(c) PROVE SagaInv'
    BY <2>5, <2>6, EnvironmentAssumption DEF Request, PayOrder, CancelOrder, RefundOrder, Kind
  <2>7. ASSUME Get(c) PROVE SagaInv'
    <3> DEFINE t == AfterGet([s EXCEPT !.status = Past(history, Len(history)), !.version = Len(history)])
    <3>1. t \in SagaState /\ Good(t, history, p) /\ t.pc \notin {"enqueue", "append"}
      BY <2>1, <2>3, GetGood
    <3>2. saga' = [saga EXCEPT ![c] = t]
      BY <2>2, <2>7 DEF Get
    <3> QED
      BY <2>1, <2>4, <2>7, <3>1, <3>2 DEF Get, row, services, events, budget
  <2>8. ASSUME Reserve(c) PROVE SagaInv'
    <3>1. PICK st \in ReserveOutcome : saga' = [saga EXCEPT ![c] = BeginUpdate(s, st)]
      BY <2>8 DEF Reserve, ReserveOutcome
    <3>2. /\ BeginUpdate(s, st) \in SagaState /\ Good(BeginUpdate(s, st), history, p)
          /\ BeginUpdate(s, st).pc = "save"
      <4>1. s.pc = "reserve"
        BY <2>8 DEF Reserve
      <4> QED
        BY <2>1, <4>1, ReserveGood, ZenonT(60)
    <3>3. held' \in BOOLEAN /\ UNCHANGED <<order, history, outbox, timeline, captured, refunded, faults, crashes>>
      BY <2>1, <2>8 DEF Reserve, row, events, budget
    <3> QED
      BY <2>1, <2>4, <3>1, <3>2, <3>3
  <2>9. ASSUME Pay(c) PROVE SagaInv'
    <3>1. s.pc = "pay"
      BY <2>9 DEF Pay
    <3>2. UNCHANGED <<order, history, held, refunded, outbox, timeline, faults, crashes>>
      BY <2>9 DEF Pay, row, events, budget
    <3>3. PICK result \in PayResult :
            /\ captured' = IF result \in {"ok", "timeout"} THEN captured + Amount ELSE captured
            /\ saga' = [saga EXCEPT ![c] = IF result = "ok" THEN BeginUpdate(s, "paid")
                                                            ELSE Goto(s, "release")]
      BY <2>9 DEF Pay
    <3>4. captured' \in Nat /\ captured' >= captured /\ (result = "ok" => captured' >= Amount)
      BY <2>1, <3>3, AmountAssumption
    <3>5. refunded' > 0 => captured' >= Amount
      BY <2>1, <3>2, <3>4, AmountAssumption DEF p
    <3>6. CASE result = "ok"
      <4>1. /\ BeginUpdate(s, "paid") \in SagaState /\ Good(BeginUpdate(s, "paid"), history, TRUE)
            /\ BeginUpdate(s, "paid").pc = "save"
        BY <2>1, <3>1, PayGood, ZenonT(60)
      <4>2. Good(BeginUpdate(s, "paid"), history, captured' >= Amount)
        BY <3>4, <3>6, <4>1 DEF Good
      <4> QED
        BY <2>1, <3>2, <3>3, <3>4, <3>5, <3>6, <4>1, <4>2, QuietStep
    <3>7. CASE result # "ok"
      <4>1. /\ Goto(s, "release") \in SagaState /\ Good(Goto(s, "release"), history, p)
            /\ Goto(s, "release").pc = "release"
        BY <2>1, <3>1, PayFailsGood, ZenonT(60)
      <4>2. p => captured' >= Amount
        BY <2>1, <3>4, AmountAssumption DEF p
      <4>3. Good(Goto(s, "release"), history, captured' >= Amount)
        BY <4>1, <4>2 DEF Good
      <4> QED
        BY <2>1, <3>2, <3>3, <3>4, <3>5, <3>7, <4>1, <4>3, QuietStep
    <3> QED
      BY <3>6, <3>7
  <2>10. ASSUME Confirm(c) PROVE SagaInv'
    <3>1. /\ BeginUpdate(s, "confirmed") \in SagaState /\ Good(BeginUpdate(s, "confirmed"), history, p)
          /\ BeginUpdate(s, "confirmed").pc = "save"
      BY <2>1, <2>10, ConfirmGood DEF Confirm
    <3> QED
      BY <2>1, <2>4, <2>10, <3>1 DEF Confirm, row, services, events, budget
  <2>11. ASSUME Release(c) \/ ReleaseFails(c) PROVE SagaInv'
    <3>1. /\ AfterRelease(s) \in SagaState /\ Good(AfterRelease(s), history, p)
          /\ AfterRelease(s).pc \notin {"enqueue", "append"}
      BY <2>1, <2>3, <2>11, ReleaseGood DEF Release, ReleaseFails
    <3>2. CASE Release(c)
      BY <2>1, <2>4, <3>1, <3>2 DEF Release, row, services, events, budget
    <3>3. CASE ReleaseFails(c)
      <4>1. /\ saga' = [saga EXCEPT ![c] = AfterRelease(s)] /\ held' = held
            /\ UNCHANGED <<order, history, outbox, timeline, captured, refunded>>
            /\ faults' = faults + 1 /\ crashes' = crashes
        BY <3>3 DEF ReleaseFails, Fault, row, services, events
      <4>2. held' \in BOOLEAN /\ faults' \in Nat /\ crashes' \in Nat
        BY <2>1, <4>1
      <4> QED
        BY <2>4, <3>1, <4>1, <4>2
    <3> QED
      BY <2>11, <3>2, <3>3
  <2>12. ASSUME Refund(c) PROVE SagaInv'
    <3>1. UNCHANGED <<order, history, held, captured, outbox, timeline, faults, crashes>>
      BY <2>12 DEF Refund, row, events, budget
    <3>2. PICK result \in RefundResult :
            /\ refunded' = IF result \in {"refunded", "timeout"}
                           THEN refunded + RefundAmount(s) ELSE refunded
            /\ saga' = [saga EXCEPT ![c] = AfterRefund(s, result)]
      BY <2>12 DEF Refund
    <3>3. refunded' \in Nat
      BY <2>1, <3>2, AmountAssumption DEF RefundAmount, SagaState
    <3>4. /\ p
          /\ s.kind = "Cancel" =>
               /\ BeginUpdate(s, "canceled") \in SagaState
               /\ Good(BeginUpdate(s, "canceled"), history, p)
               /\ BeginUpdate(s, "canceled").pc = "save"
          /\ s.kind # "Cancel" =>
               /\ Goto(s, "release") \in SagaState
               /\ Good(Goto(s, "release"), history, p)
               /\ Goto(s, "release").pc = "release"
      BY <2>1, <2>12, RefundGood DEF Refund
    <3>5. /\ Goto(s, "done") \in SagaState /\ Good(Goto(s, "done"), history, p)
          /\ Goto(s, "done").pc = "done"
      BY <2>1, DoneGood
    <3> DEFINE t == AfterRefund(s, result)
    <3>6. t \in SagaState /\ Good(t, history, p) /\ t.pc \notin {"enqueue", "append"}
      <4>1. CASE s.kind = "Cancel" /\ result \notin {"rejected", "timeout"}
        BY <3>4, <4>1 DEF AfterRefund
      <4>2. CASE s.kind = "Refund" /\ result = "refunded"
        BY <3>4, <4>2 DEF AfterRefund
      <4>3. CASE /\ ~(s.kind = "Cancel" /\ result \notin {"rejected", "timeout"})
                 /\ ~(s.kind = "Refund" /\ result = "refunded")
        BY <3>5, <4>3 DEF AfterRefund
      <4> QED
        BY <4>1, <4>2, <4>3
    <3> HIDE DEF t
    <3>7. Good(t, history, captured' >= Amount) /\ captured' >= Amount /\ captured' \in Nat
          /\ captured' >= captured
      BY <2>1, <3>1, <3>4, <3>6 DEF p
    <3> QED
      BY <2>1, <3>1, <3>2, <3>3, <3>6, <3>7, QuietStep DEF t
  <2>13. ASSUME Terminated(c) \/ StorageFails(c) PROVE SagaInv'
    <3>1. /\ Goto(s, "done") \in SagaState /\ Good(Goto(s, "done"), history, p)
          /\ Goto(s, "done").pc = "done"
      BY <2>1, DoneGood
    <3>2. /\ saga' = [saga EXCEPT ![c] = Goto(s, "done")]
          /\ held' \in BOOLEAN /\ UNCHANGED <<order, history, outbox, timeline, captured, refunded>>
          /\ faults' \in Nat /\ crashes' \in Nat
      BY <2>1, <2>13 DEF Terminated, StorageFails, Fault, row, services, events, budget
    <3> QED
      BY <2>4, <3>1, <3>2
  <2>14. ASSUME SaveConflict(c) PROVE SagaInv'
    <3>1. held' \in BOOLEAN /\ UNCHANGED <<order, history, outbox, timeline, captured, refunded, faults, crashes>>
      BY <2>1, <2>14 DEF SaveConflict, row, services, events, budget
    <3>2. CASE s.attempt < MaxRetries - 1
      <4> DEFINE t == [s EXCEPT !.status = Past(history, Len(history)), !.version = Len(history),
                                !.attempt = s.attempt + 1]
      <4>1. t \in SagaState /\ Good(t, history, p) /\ t.pc = "save"
        BY <2>1, <2>14, <3>2, ReloadGood DEF SaveConflict
      <4>2. saga' = [saga EXCEPT ![c] = t]
        BY <2>2, <2>14, <3>2 DEF SaveConflict
      <4> QED
        BY <2>1, <2>4, <3>1, <4>1, <4>2
    <3>3. CASE ~(s.attempt < MaxRetries - 1)
      <4>1. /\ Goto(s, "done") \in SagaState /\ Good(Goto(s, "done"), history, p)
            /\ Goto(s, "done").pc = "done"
        BY <2>1, DoneGood
      <4>2. saga' = [saga EXCEPT ![c] = Goto(s, "done")]
        BY <2>14, <3>3 DEF SaveConflict
      <4> QED
        BY <2>1, <2>4, <3>1, <4>1, <4>2
    <3> QED
      BY <3>2, <3>3
  <2>15. ASSUME Save(c) PROVE SagaInv'
    <3> DEFINE t == Committed(s)
    <3>1. s.pc = "save" /\ s.version = Len(history)
      BY <2>2, <2>15 DEF Save
    <3>2. /\ t \in SagaState /\ Good(t, Append(history, s.target), p)
          /\ t.pc = "enqueue" /\ t.version = Len(history) + 1
      BY <2>1, <3>1, SaveGood, SMTT(30)
    <3>3. s.target \in Status /\ (s.target \in Charged => p)
      BY <2>1, <3>1 DEF SagaState, Good, NeedsCharge
    <3>4. saga' = [saga EXCEPT ![c] = t]
      BY <2>15 DEF Save
    <3> HIDE DEF t
    <3> QED
      BY <2>1, <2>15, <3>2, <3>3, <3>4, CommitStep DEF Save, Write, budget, p
  <2>16. ASSUME SaveLost(c) PROVE SagaInv'
    <3> DEFINE t == Goto(s, "done")
    <3>1. s.pc = "save"
      BY <2>16 DEF SaveLost
    <3>2. s.target \in Status /\ (s.target \in Charged => p)
      BY <2>1, <3>1 DEF SagaState, Good, NeedsCharge
    <3>3. Good(s, Append(history, s.target), p)
      BY <2>1, <3>2, GoodMonotone
    <3>4. t \in SagaState /\ Good(t, Append(history, s.target), p) /\ t.pc = "done"
      BY <2>1, <3>3, DoneGood
    <3>5. saga' = [saga EXCEPT ![c] = t] /\ faults' \in Nat
      BY <2>1, <2>16 DEF SaveLost, Fault
    <3> HIDE DEF t
    <3> QED
      BY <2>1, <2>16, <3>2, <3>4, <3>5, CommitStep DEF SaveLost, Fault, Write, p
  <2>17. ASSUME Enqueue(c) \/ EnqueueFails(c) PROVE SagaInv'
    BY <2>1, <2>17, EnqueueStep DEF Enqueue, EnqueueFails, Fault, events, budget
  <2>18. ASSUME AppendTimeline(c) \/ AppendFails(c) PROVE SagaInv'
    BY <2>1, <2>18, AppendStep DEF AppendTimeline, AppendFails, Fault, events, budget
  <2> QED
    BY <1>3, <2>6, <2>7, <2>8, <2>9, <2>10, <2>11, <2>12, <2>13, <2>14, <2>15, <2>16, <2>17, <2>18
       DEF Step, Failure
<1> QED
  BY <1>1, <1>2, <1>3 DEF Next

-----------------------------------------------------------------------------
(* The theorems.                                                           *)

\* The initial state satisfies the invariant.
LEMMA InitHolds == Init => SagaInv
<1> SUFFICES ASSUME Init PROVE SagaInv
  OBVIOUS
<1>1. TypeOK
  <2>1. 0 \in 0 .. MaxRetries - 1
    BY DEF MaxRetries
  <2>2. saga \in [Call -> SagaState]
    BY <2>1 DEF Init, SagaState, Status, PC, Kind, EventType
  <2>3. history \in Seq(Status) /\ outbox \in Seq(Event)
    BY DEF Init
  <2>4. order \in [status : Status, version : Nat]
    BY DEF Init, Status
  <2> QED
    BY <2>2, <2>3, <2>4 DEF Init, TypeOK
<1>2. Emitted = {} /\ timeline = {} /\ DOMAIN history = {} /\ Len(history) = 0
  BY DEF Init, Emitted
<1>3. RowIsLastCommit /\ ChargeComesFirst /\ EventsAreTrue
  <2>1. RowIsLastCommit
    BY <1>2 DEF Init, RowIsLastCommit, StatusAt, Past
  <2>2. ChargeComesFirst
    BY <1>2 DEF Init, ChargeComesFirst
  <2>3. EventsAreTrue
    BY <1>2 DEF EventsAreTrue
  <2> QED
    BY <2>1, <2>2, <2>3
<1>4. ASSUME NEW c \in Call PROVE Good(saga[c], history, captured >= Amount)
  <2>1. saga[c].pc = "idle" /\ saga[c].version = 0 /\ saga[c].status = "pending"
    BY DEF Init
  <2>2. CopyIsVersion(saga[c], history)
    BY <1>2, <2>1 DEF CopyIsVersion, Past
  <2>3. /\ StepFits(saga[c].pc, saga[c].kind, saga[c].status)
        /\ WriteFitsKind(saga[c]) /\ ~NeedsCharge(saga[c])
    BY <2>1 DEF StepFits, WriteFitsKind, NeedsCharge
  <2> QED
    BY <2>2, <2>3 DEF Good
<1>5. EventsAreUnique /\ OneOwner /\ NotYetSent
  BY <1>2 DEF Init, EventsAreUnique, OneOwner, NotYetSent, Emitting
<1> QED
  BY <1>1, <1>3, <1>4, <1>5 DEF SagaInv

\* The invariant holds in every reachable state.
THEOREM Invariance == Spec => []SagaInv
BY InitHolds, NextPreserves, PTL DEF Spec

\* The variables keep their types; in particular updateStatus makes at most
\* MaxRetries attempts.
THEOREM TypeCorrect == Spec => []TypeOK
<1>1. SagaInv => TypeOK
  BY DEF SagaInv
<1> QED
  BY <1>1, Invariance, PTL

\* A saga's copy of the row is always a version the row had.
THEOREM CopiesCorrect == Spec => []CopiesAreVersions
<1>1. SagaInv => CopiesAreVersions
  BY DEF SagaInv, TypeOK, SagaState, RowIsLastCommit, Good, CopyIsVersion, CopiesAreVersions, StatusAt
<1> QED
  BY <1>1, Invariance, PTL

\* No order is paid, confirmed or refunded, and no money returned, before Pay charged it.
THEOREM ChargedCorrect == Spec => []NeverUncharged
<1>1. SagaInv => NeverUncharged
  BY DEF SagaInv, TypeOK, RowIsLastCommit, StatusAt, Past, ChargeComesFirst, NeverUncharged, Charged
<1> QED
  BY <1>1, Invariance, PTL

\* Every event tells the truth about the row, and none is put twice into the outbox.
THEOREM EventsCorrect == Spec => [](EventsAreTrue /\ EventsAreUnique)
<1>1. SagaInv => EventsAreTrue /\ EventsAreUnique
  BY DEF SagaInv
<1> QED
  BY <1>1, Invariance, PTL

\* A terminal status is never left: a Save that passes the version check was made
\* from the current status, which updateStatus refuses to leave.
THEOREM TerminalCorrect == Spec => TerminalIsFinal
<1>1. ASSUME SagaInv, [Next]_vars, order.status \in Terminal
      PROVE  order'.status = order.status
  <2>1. ASSUME NEW c \in Call, saga[c].pc = "save", ~Refused(saga[c]),
               order.version = saga[c].version, Write(c)
        PROVE  order'.status = order.status
    <3>1. saga[c].status = order.status
      BY <1>1, <2>1 DEF SagaInv, RowIsLastCommit, StatusAt, Good, CopyIsVersion
    <3> QED
      BY <1>1, <2>1, <3>1 DEF Refused, Write
  <2>2. ASSUME NEW c \in Call, Save(c) \/ SaveLost(c)
        PROVE  order'.status = order.status
    BY <2>1, <2>2 DEF Save, SaveLost, At
  <2>3. ASSUME NEW c \in Call, Request(c) \/ Step(c) \/ Failure(c), ~Save(c), ~SaveLost(c)
        PROVE  order' = order
    BY <2>3 DEF Request, PayOrder, CancelOrder, RefundOrder, Dispatch, Step, Get, Reserve, Pay, Confirm,
                Release, Refund, Terminated, SaveConflict, Enqueue, AppendTimeline, Failure, StorageFails,
                ReleaseFails, EnqueueFails, AppendFails, row
  <2> QED
    BY <1>1, <2>2, <2>3 DEF Next, Crash, vars, row
<1> QED
  BY <1>1, Invariance, PTL DEF Spec, TerminalIsFinal

-----------------------------------------------------------------------------
(* Completeness of the events: who still has to announce which version.    *)

\* The event that announces version v of the row.
StatusEvent(v) == [type |-> "OrderStatusChanged", version |-> v, status |-> StatusAt(v)]

\* Saga c is between the Save of version v and the end of its status event.
Announces(c, v) ==
  /\ Emitting(c)
  /\ saga[c].version = v
  /\ saga[c].event = "OrderStatusChanged"
  /\ saga[c].pc = "append" => StatusEvent(v) \in Emitted

\* Every version is announced, or its saga is about to do it.
Told ==
  \A v \in 1 .. order.version :
    StatusEvent(v) \in Emitted \cap timeline \/ \E c \in Call : Announces(c, v)

\* Only a storage fault or a crash keeps a version from being announced.
ToldUnlessFailed == faults = 0 /\ crashes = 0 => Told

\* Steps of sagas that announce nothing keep the announcements of the others.
LEMMA ToldFrame ==
  ASSUME Told, UNCHANGED row, Emitted \subseteq Emitted', timeline \subseteq timeline',
         NEW c \in Call, \A d \in Call : d # c => saga'[d] = saga[d],
         \A v \in 1 .. order.version : Announces(c, v) =>
           Announces(c, v)' \/ StatusEvent(v) \in Emitted' \cap timeline'
  PROVE  Told'
<1>1. order' = order /\ history' = history
  BY DEF row
<1>2. \A v : StatusEvent(v)' = StatusEvent(v)
  BY <1>1 DEF StatusEvent, StatusAt
<1>3. ASSUME NEW v \in 1 .. order.version, NEW d \in Call, d # c, Announces(d, v)
      PROVE  Announces(d, v)'
  BY <1>2, <1>3 DEF Announces, Emitting
<1>4. ASSUME NEW v \in 1 .. order.version
      PROVE  StatusEvent(v)' \in Emitted' \cap timeline' \/ \E d \in Call : Announces(d, v)'
  <2>1. CASE StatusEvent(v) \in Emitted \cap timeline
    BY <1>2, <2>1
  <2>2. ASSUME NEW d \in Call, Announces(d, v)
        PROVE  StatusEvent(v)' \in Emitted' \cap timeline' \/ \E e \in Call : Announces(e, v)'
    BY <1>2, <1>3, <2>2
  <2> QED
    BY <2>1, <2>2 DEF Told
<1> QED
  BY <1>1, <1>4 DEF Told

\* A request or a step outside updateStatus's Save and emitEvent leaves the row
\* and the events alone, and its saga announces nothing.
LEMMA SilentStep ==
  ASSUME SagaInv, NEW c \in Call, Request(c) \/ Step(c),
         ~Save(c), ~Enqueue(c), ~AppendTimeline(c)
  PROVE  /\ UNCHANGED <<row, events>>
         /\ ~Emitting(c)
         /\ \A d \in Call : d # c => saga'[d] = saga[d]
<1>1. saga \in [Call -> SagaState]
  BY DEF SagaInv, TypeOK
<1>2. CASE Request(c)
  BY <1>1, <1>2 DEF Request, PayOrder, CancelOrder, RefundOrder, Dispatch, row, events, Emitting
<1>3. CASE Get(c) \/ Reserve(c) \/ Pay(c) \/ Confirm(c)
  BY <1>1, <1>3 DEF Get, Reserve, Pay, Confirm, At, Become, row, events, Emitting
<1>4. CASE Release(c) \/ Refund(c) \/ Terminated(c) \/ SaveConflict(c)
  BY <1>1, <1>4 DEF Release, Refund, Terminated, SaveConflict, At, Become, row, events, Emitting
<1> QED
  BY <1>2, <1>3, <1>4 DEF Step

\* Save hands the new version to the saga that committed it.
LEMMA SaveTold ==
  ASSUME SagaInv, Told, NEW c \in Call, Save(c)
  PROVE  Told'
<1> DEFINE s == saga[c]
<1>0. PICK n \in Nat : n = order.version
  BY DEF SagaInv, TypeOK
<1>1. /\ saga \in [Call -> SagaState] /\ s \in SagaState
      /\ history \in Seq(Status) /\ n = Len(history)
  BY <1>0 DEF SagaInv, TypeOK, RowIsLastCommit
<1>2. /\ s.pc = "save" /\ s.version = n /\ order'.version = n + 1
      /\ history' = Append(history, s.target)
      /\ saga' = [saga EXCEPT ![c] = Committed(s)]
      /\ UNCHANGED <<outbox, timeline>>
  BY <1>0 DEF Save, At, Become, Write, events
<1>3. /\ saga'[c].pc = "enqueue" /\ saga'[c].version = n + 1
      /\ saga'[c].event = "OrderStatusChanged"
      /\ \A d \in Call : d # c => saga'[d] = saga[d]
  BY <1>1, <1>2 DEF Committed, SagaState
<1>4. Announces(c, n + 1)'
  BY <1>3 DEF Announces, Emitting
<1>5. Emitted' = Emitted
  BY <1>2 DEF Emitted
<1>6. s.target \in Status
  BY <1>1 DEF SagaState
<1>7. ASSUME NEW v \in 1 .. n
      PROVE  StatusEvent(v)' = StatusEvent(v)
  <2>1. history'[v] = history[v]
    BY <1>1, <1>2, <1>6
  <2> QED
    BY <2>1 DEF StatusEvent, StatusAt, Past
<1>8. ASSUME NEW v \in 1 .. n
      PROVE  StatusEvent(v)' \in Emitted' \cap timeline' \/ \E d \in Call : Announces(d, v)'
  <2>1. CASE StatusEvent(v) \in Emitted \cap timeline
    BY <1>2, <1>5, <1>7, <2>1
  <2>2. ASSUME NEW d \in Call, Announces(d, v)
        PROVE  Announces(d, v)'
    <3>1. d # c
      BY <1>2, <2>2 DEF Announces, Emitting
    <3> QED
      BY <1>3, <1>5, <1>7, <2>2, <3>1 DEF Announces, Emitting
  <2> QED
    BY <1>0, <2>1, <2>2 DEF Told
<1>9. 1 .. order'.version = (1 .. n) \cup {n + 1}
  BY <1>1, <1>2
<1> QED
  BY <1>4, <1>8, <1>9 DEF Told

\* A saga that announces version v emits exactly StatusEvent(v).
LEMMA AnnouncesTruly ==
  ASSUME SagaInv, NEW c \in Call, Emitting(c), saga[c].event = "OrderStatusChanged"
  PROVE  EventOf(saga[c]) = StatusEvent(saga[c].version)
BY DEF SagaInv, Good, CopyIsVersion, EventOf, StatusEvent, StatusAt

\* What goes into the outbox stays there.
LEMMA EmittedGrows ==
  ASSUME outbox \in Seq(Event), NEW e \in Event, outbox' = Append(outbox, e)
  PROVE  Emitted \subseteq Emitted' /\ e \in Emitted'
<1>1. /\ DOMAIN outbox' = 1 .. Len(outbox) + 1 /\ DOMAIN outbox = 1 .. Len(outbox)
      /\ Len(outbox) \in Nat /\ outbox'[Len(outbox) + 1] = e
      /\ \A i \in 1 .. Len(outbox) : outbox'[i] = outbox[i]
  OBVIOUS
<1>2. Len(outbox) + 1 \in 1 .. Len(outbox) + 1 /\ 1 .. Len(outbox) \subseteq 1 .. Len(outbox) + 1
  BY <1>1
<1> QED
  BY <1>1, <1>2 DEF Emitted

\* emitEvent puts the event of the version into the outbox, then into the timeline.
LEMMA EmitTold ==
  ASSUME SagaInv, Told, NEW c \in Call, Enqueue(c) \/ AppendTimeline(c)
  PROVE  Told'
<1> DEFINE s == saga[c]
<1>1. saga \in [Call -> SagaState] /\ s \in SagaState /\ outbox \in Seq(Event)
  BY DEF SagaInv, TypeOK
<1>2. UNCHANGED row /\ \A d \in Call : d # c => saga'[d] = saga[d]
  BY <1>1 DEF Enqueue, AppendTimeline, At, Become
<1>3. CASE Enqueue(c)
  <2>1. /\ s.pc = "enqueue" /\ timeline' = timeline /\ outbox' = Append(outbox, EventOf(s))
        /\ saga'[c] = Goto(s, "append")
    BY <1>1, <1>3 DEF Enqueue, At, Become
  <2>2. EventOf(s) \in Event
    BY <1>1 DEF EventOf, Event, SagaState
  <2>3. Emitted \subseteq Emitted' /\ EventOf(s) \in Emitted'
    BY <1>1, <2>1, <2>2, EmittedGrows
  <2>4. /\ saga'[c].pc = "append" /\ saga'[c].version = s.version /\ saga'[c].event = s.event
    BY <1>1, <2>1, GotoMoves DEF Moved, PC
  <2>5. ASSUME NEW v \in 1 .. order.version, Announces(c, v) PROVE Announces(c, v)'
    <3>1. EventOf(s) = StatusEvent(v) /\ s.version = v /\ s.event = "OrderStatusChanged"
      BY <2>5, AnnouncesTruly DEF Announces
    <3>2. StatusEvent(v)' = StatusEvent(v)
      BY <1>2 DEF StatusEvent, StatusAt, row
    <3> QED
      BY <2>3, <2>4, <3>1, <3>2 DEF Announces, Emitting
  <2> QED
    BY <1>2, <2>1, <2>3, <2>5, ToldFrame
<1>4. CASE AppendTimeline(c)
  <2>1. /\ s.pc = "append" /\ timeline' = timeline \cup {EventOf(s)} /\ outbox' = outbox
    BY <1>4 DEF AppendTimeline, At
  <2>2. Emitted' = Emitted
    BY <2>1 DEF Emitted
  <2>3. ASSUME NEW v \in 1 .. order.version, Announces(c, v)
        PROVE  StatusEvent(v) \in Emitted' \cap timeline'
    <3>1. EventOf(s) = StatusEvent(v)
      BY <2>3, AnnouncesTruly DEF Announces
    <3> QED
      BY <2>1, <2>2, <2>3, <3>1 DEF Announces
  <2> QED
    BY <1>2, <2>1, <2>2, <2>3, ToldFrame
<1> QED
  BY <1>3, <1>4

\* Every step keeps it, unless it is a failure.
LEMMA NextTold ==
  ASSUME SagaInv, ToldUnlessFailed, [Next]_vars
  PROVE  ToldUnlessFailed'
<1> SUFFICES ASSUME faults' = 0, crashes' = 0 PROVE Told'
  BY DEF ToldUnlessFailed
<1>1. faults \in Nat /\ crashes \in Nat
  BY DEF SagaInv, TypeOK
<1>2. CASE UNCHANGED vars
  <2>1. /\ order' = order /\ saga' = saga /\ history' = history /\ outbox' = outbox
        /\ timeline' = timeline /\ faults' = faults /\ crashes' = crashes
    BY <1>2 DEF vars
  <2>2. Emitted' = Emitted /\ \A v : StatusEvent(v)' = StatusEvent(v)
    BY <2>1 DEF Emitted, StatusEvent, StatusAt
  <2>3. \A c \in Call, v \in 1 .. order.version : Announces(c, v)' = Announces(c, v)
    BY <2>1, <2>2 DEF Announces, Emitting
  <2> QED
    BY <2>1, <2>2, <2>3 DEF ToldUnlessFailed, Told
<1>3. ASSUME NEW c \in Call, Failure(c) PROVE FALSE
  <2>1. Fault
    BY <1>3 DEF Failure, StorageFails, SaveLost, ReleaseFails, EnqueueFails, AppendFails
  <2> QED
    BY <1>1, <2>1 DEF Fault
<1>4. ASSUME Crash PROVE FALSE
  BY <1>1, <1>4 DEF Crash
<1>5. ASSUME NEW c \in Call, Request(c) \/ Step(c) PROVE Told'
  <2>1. UNCHANGED budget
    BY <1>5 DEF Request, PayOrder, CancelOrder, RefundOrder, Dispatch, Step, Get, Reserve, Pay, Confirm,
                Release, Refund, Terminated, Save, SaveConflict, Enqueue, AppendTimeline
  <2>2. Told
    BY <2>1 DEF budget, ToldUnlessFailed
  <2>3. CASE Save(c)
    BY <2>2, <2>3, SaveTold
  <2>4. CASE Enqueue(c) \/ AppendTimeline(c)
    BY <2>2, <2>4, EmitTold
  <2>5. CASE ~Save(c) /\ ~Enqueue(c) /\ ~AppendTimeline(c)
    <3>1. /\ UNCHANGED <<row, events>> /\ ~Emitting(c)
          /\ \A d \in Call : d # c => saga'[d] = saga[d]
      BY <1>5, <2>5, SilentStep
    <3>2. UNCHANGED row /\ Emitted' = Emitted /\ timeline' = timeline
      BY <3>1 DEF events, Emitted
    <3>3. \A v \in 1 .. order.version : ~Announces(c, v)
      BY <3>1 DEF Announces
    <3> QED
      BY <2>2, <3>1, <3>2, <3>3, ToldFrame
  <2> QED
    BY <2>3, <2>4, <2>5
<1> QED
  BY <1>2, <1>3, <1>4, <1>5 DEF Next

\* When the sagas have returned, every committed transition is in the outbox and
\* in the timeline, unless a storage operation failed or the process died.
THEOREM EventsComplete == Spec => []EventsAreComplete
<1>1. Init => ToldUnlessFailed
  BY DEF Init, ToldUnlessFailed, Told
<1>2. SagaInv /\ ToldUnlessFailed => EventsAreComplete
  <2> SUFFICES ASSUME ToldUnlessFailed, Quiet, faults = 0, crashes = 0,
                      NEW v \in 1 .. order.version
               PROVE  StatusEvent(v) \in Emitted \cap timeline
    BY DEF EventsAreComplete, StatusEvent
  <2>1. \A c \in Call : ~Announces(c, v)
    BY DEF Quiet, InFlight, Announces, Emitting
  <2> QED
    BY <2>1 DEF ToldUnlessFailed, Told
<1> QED
  BY <1>1, <1>2, Invariance, NextTold, PTL DEF Spec

-----------------------------------------------------------------------------
(* Sagas that do not overlap.                                              *)

\* One saga of an order at a time, no fault and no crash, and services that give
\* definite answers.
Serial ==
  /\ MaxInFlight <= 1 /\ MaxFaults = 0 /\ MaxCrashes = 0
  /\ ReserveResult \subseteq {"ok", "rejected"}
  /\ PayResult \subseteq {"ok", "declined", "unexpected"}
  /\ RefundResult \subseteq {"refunded", "rejected"}

\* What the services hold for an order with this status: stock, money charged
\* (paid) and money returned (back).
Balance(status, stock, paid, back) ==
  /\ status = "pending" => ~stock
  /\ status \in {"pending", "reserved"} => paid = 0 /\ back = 0
  /\ status \in {"paid", "confirmed"} => paid = Amount /\ back = 0
  /\ status = "canceled" => ~stock /\ paid = back /\ paid <= Amount
  /\ status = "refunded" => ~stock /\ paid = Amount /\ back <= Amount

\* The running saga works on the current row o.  The services are balanced for
\* the status it is about to write, or else for the status of the row; only
\* between the two calls of Refund are they balanced for neither.
Accounts(s, o, stock, paid, back) ==
  /\ s.pc # "get" => s.version = o.version
  /\ s.pc = "save" =>
       Balance(s.target, stock, paid, back) /\ <<s.status, s.target>> \in Documented
  /\ s.pc = "release" /\ s.kind = "Refund" => paid = Amount /\ back <= Amount
  /\ s.pc = "refund" /\ s.kind = "Cancel" => ~stock
  /\ s.pc # "save" /\ ~(s.pc = "release" /\ s.kind = "Refund") =>
       Balance(o.status, stock, paid, back)

\* A saga that was dispatched, and its accounts.
Runs(s, o, stock, paid, back) ==
  s \in SagaState /\ s.pc # "idle" /\ Accounts(s, o, stock, paid, back)

SerialInv ==
  /\ \A c, d \in InFlight : c = d
  /\ InFlight = {} => Balance(order.status, held, captured, refunded)
  /\ \A c \in InFlight : Accounts(saga[c], order, held, captured, refunded)

\* One step of the running saga.
LEMMA SerialStep ==
  ASSUME SagaInv, SerialInv, NEW c \in InFlight, NEW t,
         saga' = [saga EXCEPT ![c] = t], Runs(t, order', held', captured', refunded')
  PROVE  SerialInv'
<1> USE DEF Runs
<1>1. c \in Call /\ saga'[c] = t /\ \A d \in Call : d # c => saga'[d] = saga[d] /\ d \notin InFlight
  BY DEF SagaInv, TypeOK, InFlight, SerialInv
<1>2. InFlight' = {d \in Call : saga'[d].pc \notin {"idle", "done"}}
  BY DEF InFlight
<1>3. InFlight' \subseteq {c}
  BY <1>1, <1>2 DEF InFlight
<1>4. InFlight' = {} => Balance(order'.status, held', captured', refunded')
  <2>1. CASE t.pc = "done"
    BY <2>1 DEF Accounts
  <2>2. CASE t.pc # "done"
    BY <1>1, <1>2, <2>2
  <2> QED
    BY <2>1, <2>2
<1>5. \A d \in InFlight' : Accounts(saga'[d], order', held', captured', refunded')
  BY <1>1, <1>3
<1> QED
  BY <1>3, <1>4, <1>5 DEF SerialInv

\* The copy of the running saga is the current row.
LEMMA CopyIsCurrent ==
  ASSUME SagaInv, SerialInv, NEW c \in InFlight, saga[c].pc # "get"
  PROVE  saga[c].version = order.version /\ saga[c].status = order.status
BY DEF SagaInv, SerialInv, Accounts, RowIsLastCommit, StatusAt, Good, CopyIsVersion, InFlight

\* A set with one element has cardinality 1.
LEMMA CardinalityOfOne ==
  ASSUME NEW d
  PROVE  Cardinality({d}) = 1
<1> DEFINE Counts(f) == f = [T \in SUBSET {d} |->
                               IF T = {} THEN 0 ELSE 1 + f[T \ {CHOOSE x : x \in T}]]
           g == [T \in SUBSET {d} |-> IF T = {} THEN 0 ELSE 1]
           f == CHOOSE h : Counts(h)
<1>1. \A T \in SUBSET {d} : T # {} => T \ {CHOOSE x : x \in T} = {}
  OBVIOUS
<1>2. {} \in SUBSET {d} /\ {d} \in SUBSET {d} /\ {d} # {}
  OBVIOUS
<1>3. g[{}] = 0
  BY <1>2
<1>4. \A T \in SUBSET {d} :
        (IF T = {} THEN 0 ELSE 1) = IF T = {} THEN 0 ELSE 1 + g[T \ {CHOOSE x : x \in T}]
  BY <1>1, <1>3
<1>5. Counts(g)
  BY <1>4, Zenon
<1>6. Counts(f)
  BY <1>5, Zenon
<1>7. Cardinality({d}) = f[{d}]
  BY Zenon DEF Cardinality
<1> HIDE DEF f
<1>8. f[{}] = 0
  BY <1>2, <1>6
<1>9. f[{d}] = 1 + f[{d} \ {CHOOSE x : x \in {d}}]
  BY <1>2, <1>6
<1> QED
  BY <1>1, <1>2, <1>7, <1>8, <1>9

\* A request finds no other saga running.
LEMMA SerialRequest ==
  ASSUME Serial, SagaInv, SerialInv, NEW c \in Call, NEW kind \in Kind, NEW amount \in Nat,
         Dispatch(c, kind, amount)
  PROVE  SerialInv'
<1>1. InFlight = {}
  <2> SUFFICES ASSUME NEW d \in InFlight PROVE FALSE
    OBVIOUS
  <2>1. InFlight = {d}
    BY DEF SerialInv
  <2>2. Cardinality(InFlight) = 1
    BY <2>1, CardinalityOfOne
  <2> QED
    BY <2>2, BoundAssumption DEF Dispatch, Serial
<1>2. saga \in [Call -> SagaState]
  BY DEF SagaInv, TypeOK
<1>3. saga'[c].pc = "get" /\ \A d \in Call : d # c => saga'[d] = saga[d]
  BY <1>2 DEF Dispatch, SagaState
<1>4. UNCHANGED <<order, held, captured, refunded>>
  BY DEF Dispatch, row, services
<1>5. InFlight' = {d \in Call : saga'[d].pc \notin {"idle", "done"}}
  BY DEF InFlight
<1>6. InFlight' = {c}
  BY <1>1, <1>3, <1>5 DEF InFlight
<1>7. Accounts(saga'[c], order', held', captured', refunded')
  BY <1>1, <1>3, <1>4 DEF SerialInv, Accounts
<1> QED
  BY <1>6, <1>7 DEF SerialInv

\* The branch a saga takes for the status it loads.
LEMMA GetAccounts ==
  ASSUME NEW s \in SagaState, NEW o \in [status : Status, version : Nat],
         NEW stock, NEW paid, NEW back, Balance(o.status, stock, paid, back)
  PROVE  LET t == AfterGet([s EXCEPT !.status = o.status, !.version = o.version])
         IN  Runs(t, o, stock, paid, back)
<1> DEFINE u == [s EXCEPT !.status = o.status, !.version = o.version]
<1> SUFFICES Runs(AfterGet(u), o, stock, paid, back)
  OBVIOUS
<1>1. u \in SagaState /\ u.version = o.version /\ u.status = o.status /\ u.kind \in Kind
  BY DEF SagaState
<1> HIDE DEF u
<1>2. ASSUME NEW l \in {"reserve", "pay", "confirm", "refund", "release", "done"},
             AfterGet(u) = Goto(u, l), l = "refund" => u.kind = "Refund", l = "release" => u.kind = "Cancel"
      PROVE  Runs(AfterGet(u), o, stock, paid, back)
  <2>1. l \in PC
    BY DEF PC
  <2>2. Moved(u, Goto(u, l)) /\ Goto(u, l).pc = l
    BY <1>1, <2>1, GotoMoves
  <2> QED
    BY <1>1, <1>2, <2>2 DEF Moved, Accounts, Runs
<1>3. CASE u.kind = "Start"
  BY <1>2, <1>3 DEF AfterGet, StartFrom
<1>4. CASE u.kind = "Cancel"
  <2>1. CASE u.status = "pending"
    <3>1. AfterGet(u) = BeginUpdate(u, "canceled")
      BY <1>4, <2>1 DEF AfterGet, CancelFrom, Terminal
    <3>2. /\ Moved(u, BeginUpdate(u, "canceled")) /\ BeginUpdate(u, "canceled").pc = "save"
          /\ BeginUpdate(u, "canceled").target = "canceled"
      BY <1>1, <2>1, BeginUpdateMoves DEF Status
    <3>3. Balance("canceled", stock, paid, back)
      BY <1>1, <2>1, AmountAssumption DEF Balance
    <3> QED
      BY <1>1, <2>1, <3>1, <3>2, <3>3 DEF Moved, Accounts, Runs, Documented
  <2>2. CASE u.status # "pending"
    BY <1>2, <1>4, <2>2 DEF AfterGet, CancelFrom
  <2> QED
    BY <2>1, <2>2
<1>5. CASE u.kind = "Refund"
  BY <1>2, <1>5 DEF AfterGet, RefundFrom
<1> QED
  BY <1>1, <1>3, <1>4, <1>5 DEF Kind

\* Entering updateStatus with a status the services are balanced for.
LEMMA UpdateAccounts ==
  ASSUME NEW s \in SagaState, NEW o, NEW stock, NEW paid, NEW back, NEW st \in Status,
         s.version = o.version, <<s.status, st>> \in Documented, Balance(st, stock, paid, back)
  PROVE  Runs(BeginUpdate(s, st), o, stock, paid, back)
<1>1. s.status # st
  BY DEF Documented
<1>2. /\ Moved(s, BeginUpdate(s, st)) /\ BeginUpdate(s, st).pc = "save"
      /\ BeginUpdate(s, st).target = st
  BY <1>1, BeginUpdateMoves
<1> QED
  BY <1>2 DEF Moved, Accounts, Runs

\* Going to a step while the services are balanced for the row.
LEMMA GotoAccounts ==
  ASSUME NEW s \in SagaState, NEW o, NEW stock, NEW paid, NEW back,
         NEW l \in PC \ {"idle", "get", "save"},
         s.version = o.version,
         l = "refund" /\ s.kind = "Cancel" => ~stock,
         IF l = "release" /\ s.kind = "Refund" THEN paid = Amount /\ back <= Amount
                                               ELSE Balance(o.status, stock, paid, back)
  PROVE  Runs(Goto(s, l), o, stock, paid, back)
<1>1. Moved(s, Goto(s, l)) /\ Goto(s, l).pc = l
  BY GotoMoves
<1> QED
  BY <1>1 DEF Moved, Accounts, Runs

\* The answer of the inventory service.
LEMMA ReserveAccounts ==
  ASSUME NEW s \in SagaState, NEW o, NEW stock \in BOOLEAN, NEW paid, NEW back, s.pc = "reserve",
         StepFits(s.pc, s.kind, s.status), Accounts(s, o, stock, paid, back), s.status = o.status
  PROVE  /\ Runs(BeginUpdate(s, "reserved"), o, TRUE, paid, back)
         /\ Runs(BeginUpdate(s, "canceled"), o, stock, paid, back)
<1>1. s.status = "pending" /\ s.version = o.version /\ Balance("pending", stock, paid, back)
  BY DEF StepFits, Accounts
<1>2. Balance("reserved", TRUE, paid, back) /\ Balance("canceled", stock, paid, back)
  <2>1. ~stock /\ paid = 0 /\ back = 0
    BY <1>1 DEF Balance
  <2>2. paid <= Amount
    BY <2>1, AmountAssumption
  <2> QED
    BY <2>1, <2>2 DEF Balance
<1>3. /\ "reserved" \in Status /\ "canceled" \in Status
      /\ <<s.status, "reserved">> \in Documented /\ <<s.status, "canceled">> \in Documented
  BY <1>1 DEF Status, Documented
<1> QED
  BY <1>1, <1>2, <1>3, UpdateAccounts

\* The answer of the payment service to Pay.
LEMMA PayAccounts ==
  ASSUME NEW s \in SagaState, NEW o, NEW stock, NEW paid \in Nat, NEW back, s.pc = "pay",
         StepFits(s.pc, s.kind, s.status), Accounts(s, o, stock, paid, back), s.status = o.status
  PROVE  /\ Runs(BeginUpdate(s, "paid"), o, stock, paid + Amount, back)
         /\ Runs(Goto(s, "release"), o, stock, paid, back)
<1>1. /\ s.status = "reserved" /\ s.kind = "Start" /\ s.version = o.version
      /\ Balance(o.status, stock, paid, back)
  BY DEF StepFits, Accounts
<1>2. paid = 0 /\ back = 0
  BY <1>1 DEF Balance
<1>3. Balance("paid", stock, paid + Amount, back)
  <2>1. paid + Amount = Amount
    BY <1>2, AmountAssumption
  <2> QED
    BY <1>2, <2>1 DEF Balance
<1>4. /\ "paid" \in Status /\ <<s.status, "paid">> \in Documented
      /\ "release" \in PC \ {"idle", "get", "save"}
  BY <1>1 DEF Status, Documented, PC
<1> QED
  BY <1>1, <1>3, <1>4, UpdateAccounts, GotoAccounts

\* The confirmation.
LEMMA ConfirmAccounts ==
  ASSUME NEW s \in SagaState, NEW o, NEW stock, NEW paid, NEW back, s.pc = "confirm",
         StepFits(s.pc, s.kind, s.status), Accounts(s, o, stock, paid, back), s.status = o.status
  PROVE  Runs(BeginUpdate(s, "confirmed"), o, stock, paid, back)
<1>1. s.status = "paid" /\ s.version = o.version /\ Balance("paid", stock, paid, back)
  BY DEF StepFits, Accounts
<1>2. Balance("confirmed", stock, paid, back)
  BY <1>1 DEF Balance
<1>3. "confirmed" \in Status /\ <<s.status, "confirmed">> \in Documented
  BY <1>1 DEF Status, Documented
<1> QED
  BY <1>1, <1>2, <1>3, UpdateAccounts

\* releaseInventory gives the stock back.
LEMMA ReleaseAccounts ==
  ASSUME NEW s \in SagaState, NEW o, NEW stock, NEW paid, NEW back, s.pc = "release",
         StepFits(s.pc, s.kind, s.status), Accounts(s, o, stock, paid, back), s.status = o.status
  PROVE  Runs(AfterRelease(s), o, FALSE, paid, back)
<1>1. s.version = o.version
  BY DEF Accounts
<1>2. CASE s.kind = "Refund"
  <2>1. Balance("refunded", FALSE, paid, back)
    BY <1>2 DEF Accounts, Balance
  <2>2. "refunded" \in Status /\ <<s.status, "refunded">> \in Documented
    BY <1>2 DEF Status, Documented, StepFits
  <2>3. AfterRelease(s) = BeginUpdate(s, "refunded")
    BY <1>2 DEF AfterRelease
  <2> QED
    BY <1>1, <2>1, <2>2, <2>3, UpdateAccounts
<1>3. CASE s.kind = "Cancel" /\ s.status \in {"paid", "confirmed"}
  <2>1. Balance(o.status, FALSE, paid, back)
    BY <1>3 DEF Accounts, Balance
  <2>2. AfterRelease(s) = Goto(s, "refund") /\ "refund" \in PC \ {"idle", "get", "save"}
    BY <1>3 DEF AfterRelease, PC
  <2> QED
    BY <1>1, <2>1, <2>2, GotoAccounts
<1>4. CASE s.kind # "Refund" /\ ~(s.kind = "Cancel" /\ s.status \in {"paid", "confirmed"})
  <2>1. s.status = "reserved" /\ Balance("reserved", stock, paid, back)
    BY <1>4 DEF StepFits, Accounts
  <2>2. Balance("canceled", FALSE, paid, back)
    BY <2>1, AmountAssumption DEF Balance
  <2>3. "canceled" \in Status /\ <<s.status, "canceled">> \in Documented
    BY <2>1 DEF Status, Documented
  <2>4. AfterRelease(s) = BeginUpdate(s, "canceled")
    BY <1>4 DEF AfterRelease
  <2> QED
    BY <1>1, <2>2, <2>3, <2>4, UpdateAccounts
<1> QED
  BY <1>2, <1>3, <1>4

\* Cancel returns the whole amount, Refund at most the whole amount.
LEMMA RefundAmountBound ==
  ASSUME NEW s \in SagaState
  PROVE  /\ RefundAmount(s) \in Nat /\ RefundAmount(s) <= Amount
         /\ s.kind = "Cancel" => RefundAmount(s) = Amount
<1>1. s.amount \in Nat
  BY DEF SagaState
<1> QED
  BY <1>1, AmountAssumption DEF RefundAmount

\* The answer of the payment service to Refund.
LEMMA RefundAccounts ==
  ASSUME NEW s \in SagaState, NEW o, NEW stock, NEW paid, NEW back, s.pc = "refund",
         StepFits(s.pc, s.kind, s.status), Accounts(s, o, stock, paid, back), s.status = o.status
  PROVE  /\ back + RefundAmount(s) \in Nat
         /\ Runs(AfterRefund(s, "refunded"), o, stock, paid, back + RefundAmount(s))
         /\ Runs(AfterRefund(s, "rejected"), o, stock, paid, back)
<1> DEFINE r == RefundAmount(s)
<1>1. /\ s.version = o.version /\ Balance(o.status, stock, paid, back)
      /\ s.kind \in {"Cancel", "Refund"} /\ s.status \in {"paid", "confirmed"}
      /\ s.kind = "Cancel" => ~stock
  BY DEF Accounts, StepFits
<1>2. paid = Amount /\ back = 0
  BY <1>1 DEF Balance
<1>3. r \in Nat /\ r <= Amount /\ (s.kind = "Cancel" => r = Amount)
  BY RefundAmountBound
<1> HIDE DEF r
<1>4. back + r = r
  BY <1>2, <1>3
<1>5. Runs(AfterRefund(s, "rejected"), o, stock, paid, back)
  <2>1. AfterRefund(s, "rejected") = Goto(s, "done") /\ "done" \in PC \ {"idle", "get", "save"}
    BY DEF AfterRefund, PC
  <2> QED
    BY <1>1, <2>1, GotoAccounts
<1>6. CASE s.kind = "Cancel"
  <2>1. Balance("canceled", stock, paid, r)
    BY <1>1, <1>2, <1>3, <1>6, AmountAssumption DEF Balance
  <2>2. "canceled" \in Status /\ <<s.status, "canceled">> \in Documented
    BY <1>1 DEF Status, Documented
  <2>3. AfterRefund(s, "refunded") = BeginUpdate(s, "canceled")
    BY <1>6 DEF AfterRefund
  <2>4. Runs(AfterRefund(s, "refunded"), o, stock, paid, r)
    BY <1>1, <2>1, <2>2, <2>3, UpdateAccounts
  <2> QED
    BY <1>3, <1>4, <1>5, <2>4 DEF r
<1>7. CASE s.kind = "Refund"
  <2>1. AfterRefund(s, "refunded") = Goto(s, "release") /\ "release" \in PC \ {"idle", "get", "save"}
    BY <1>7 DEF AfterRefund, PC
  <2>2. Runs(AfterRefund(s, "refunded"), o, stock, paid, r)
    BY <1>1, <1>2, <1>3, <1>7, <2>1, GotoAccounts
  <2> QED
    BY <1>3, <1>4, <1>5, <2>2 DEF r
<1> QED
  BY <1>1, <1>6, <1>7

\* The steps of the running saga before it writes a status.
LEMMA SerialWork ==
  ASSUME Serial, SagaInv, SerialInv, NEW c \in Call,
         Get(c) \/ Reserve(c) \/ Pay(c) \/ Confirm(c) \/ Release(c) \/ Refund(c)
  PROVE  SerialInv'
<1> DEFINE s == saga[c]
<1> USE DEF At, Become
<1>1. /\ s \in SagaState /\ order \in [status : Status, version : Nat] /\ held \in BOOLEAN
      /\ captured \in Nat /\ refunded \in Nat
  BY DEF SagaInv, TypeOK
<1>2. c \in InFlight /\ order' = order
  BY DEF Get, Reserve, Pay, Confirm, Release, Refund, InFlight, row
<1>3. Accounts(s, order, held, captured, refunded) /\ StepFits(s.pc, s.kind, s.status)
  BY <1>2 DEF SerialInv, SagaInv, Good
<1>4. s.pc # "get" => s.status = order.status
  BY <1>2, CopyIsCurrent
\* What is left to show of each step.
<1>5. ASSUME NEW t, saga' = [saga EXCEPT ![c] = t], Runs(t, order, held', captured', refunded')
      PROVE  SerialInv'
  BY <1>2, <1>5, SerialStep
<1>6. CASE Get(c)
  <2>1. /\ s.pc = "get" /\ UNCHANGED <<held, captured, refunded>>
        /\ saga' = [saga EXCEPT ![c] =
                      AfterGet([s EXCEPT !.status = order.status, !.version = order.version])]
    BY <1>6 DEF Get, services
  <2>2. Balance(order.status, held, captured, refunded)
    BY <1>3, <2>1 DEF Accounts
  <2> HIDE DEF s
  <2> QED
    BY <1>1, <1>5, <2>1, <2>2, GetAccounts
<1>7. CASE Reserve(c)
  <2>1. PICK result \in ReserveResult :
          /\ held' = (held \/ result \in {"ok", "timeout"})
          /\ saga' = [saga EXCEPT ![c] = BeginUpdate(s, IF result = "ok" THEN "reserved" ELSE "canceled")]
    BY <1>7 DEF Reserve
  <2>2. s.pc = "reserve" /\ UNCHANGED <<captured, refunded>> /\ result \in {"ok", "rejected"}
    BY <1>7 DEF Reserve, Serial
  <2> HIDE DEF s
  <2>3. /\ Runs(BeginUpdate(s, "reserved"), order, TRUE, captured, refunded)
        /\ Runs(BeginUpdate(s, "canceled"), order, held, captured, refunded)
    BY <1>1, <1>3, <1>4, <2>2, ReserveAccounts
  <2>4. CASE result = "ok"
    BY <1>5, <2>1, <2>2, <2>3, <2>4
  <2>5. CASE result = "rejected"
    BY <1>1, <1>5, <2>1, <2>2, <2>3, <2>5
  <2> QED
    BY <2>2, <2>4, <2>5
<1>8. CASE Pay(c)
  <2>1. PICK result \in PayResult :
          /\ captured' = IF result \in {"ok", "timeout"} THEN captured + Amount ELSE captured
          /\ saga' = [saga EXCEPT ![c] = IF result = "ok" THEN BeginUpdate(s, "paid") ELSE Goto(s, "release")]
    BY <1>8 DEF Pay
  <2>2. s.pc = "pay" /\ UNCHANGED <<held, refunded>> /\ result # "timeout"
    BY <1>8 DEF Pay, Serial
  <2> HIDE DEF s
  <2>3. /\ Runs(BeginUpdate(s, "paid"), order, held, captured + Amount, refunded)
        /\ Runs(Goto(s, "release"), order, held, captured, refunded)
    BY <1>1, <1>3, <1>4, <2>2, PayAccounts
  <2>4. CASE result = "ok"
    BY <1>5, <2>1, <2>2, <2>3, <2>4
  <2>5. CASE result # "ok"
    BY <1>5, <2>1, <2>2, <2>3, <2>5
  <2> QED
    BY <2>4, <2>5
<1>9. CASE Confirm(c)
  <2>1. /\ s.pc = "confirm" /\ UNCHANGED <<held, captured, refunded>>
        /\ saga' = [saga EXCEPT ![c] = BeginUpdate(s, "confirmed")]
    BY <1>9 DEF Confirm, services
  <2> HIDE DEF s
  <2> QED
    BY <1>1, <1>3, <1>4, <1>5, <2>1, ConfirmAccounts
<1>10. CASE Release(c)
  <2>1. /\ s.pc = "release" /\ held' = FALSE /\ UNCHANGED <<captured, refunded>>
        /\ saga' = [saga EXCEPT ![c] = AfterRelease(s)]
    BY <1>10 DEF Release
  <2> HIDE DEF s
  <2> QED
    BY <1>1, <1>3, <1>4, <1>5, <2>1, ReleaseAccounts
<1>11. CASE Refund(c)
  <2>1. PICK result \in RefundResult :
          /\ refunded' = IF result \in {"refunded", "timeout"} THEN refunded + RefundAmount(s) ELSE refunded
          /\ saga' = [saga EXCEPT ![c] = AfterRefund(s, result)]
    BY <1>11 DEF Refund
  <2>2. s.pc = "refund" /\ UNCHANGED <<held, captured>> /\ result \in {"refunded", "rejected"}
    BY <1>11 DEF Refund, Serial
  <2> HIDE DEF s
  <2>3. /\ Runs(AfterRefund(s, "refunded"), order, held, captured, refunded + RefundAmount(s))
        /\ Runs(AfterRefund(s, "rejected"), order, held, captured, refunded)
    BY <1>1, <1>3, <1>4, <2>2, RefundAccounts
  <2>4. CASE result = "refunded"
    BY <1>5, <2>1, <2>2, <2>3, <2>4
  <2>5. CASE result = "rejected"
    BY <1>5, <2>1, <2>2, <2>3, <2>5
  <2> QED
    BY <2>2, <2>4, <2>5
<1> QED
  BY <1>6, <1>7, <1>8, <1>9, <1>10, <1>11

\* A write that the services are balanced for.
LEMMA CommittedAccounts ==
  ASSUME NEW s \in SagaState, NEW o, NEW stock, NEW paid, NEW back, s.pc = "save",
         s.version = o.version, Accounts(s, o, stock, paid, back)
  PROVE  Runs(Committed(s), [status |-> s.target, version |-> o.version + 1], stock, paid, back)
<1>1. s.target \in Status /\ s.version + 1 \in Nat
  BY DEF SagaState
<1>2. /\ Committed(s) \in SagaState /\ Committed(s).pc = "enqueue"
      /\ Committed(s).version = s.version + 1
  BY <1>1 DEF Committed, SagaState, PC, EventType
<1>3. Balance(s.target, stock, paid, back)
  BY DEF Accounts
<1> QED
  BY <1>2, <1>3 DEF Runs, Accounts

\* updateStatus and emitEvent of the running saga.  No version conflict, and no
\* terminal status, can stop its Save.
LEMMA SerialEmit ==
  ASSUME Serial, SagaInv, SerialInv, NEW c \in Call,
         Terminated(c) \/ Save(c) \/ SaveConflict(c) \/ Enqueue(c) \/ AppendTimeline(c)
  PROVE  SerialInv'
<1> DEFINE s == saga[c]
<1> USE DEF At, Become
<1>1. /\ s \in SagaState /\ order \in [status : Status, version : Nat]
      /\ (captured >= Amount) \in BOOLEAN
  BY DEF SagaInv, TypeOK
<1>2. c \in InFlight /\ UNCHANGED <<held, captured, refunded>>
  BY DEF Terminated, Save, SaveConflict, Enqueue, AppendTimeline, InFlight, services
<1>3. /\ Accounts(s, order, held, captured, refunded)
      /\ s.version = order.version /\ s.status = order.status
  BY <1>2, CopyIsCurrent DEF SerialInv, Terminated, Save, SaveConflict, Enqueue, AppendTimeline
<1>4. CASE Terminated(c) \/ SaveConflict(c)
  <2>1. s.pc = "save"
    BY <1>4 DEF Terminated, SaveConflict
  <2>2. s.status \notin Terminal
    BY <1>3, <2>1 DEF Accounts, Documented, Terminal
  <2> QED
    BY <1>3, <1>4, <2>2 DEF Terminated, SaveConflict, Refused
<1>5. CASE Save(c)
  <2>1. /\ s.pc = "save" /\ saga' = [saga EXCEPT ![c] = Committed(s)]
        /\ order' = [status |-> s.target, version |-> order.version + 1]
    BY <1>5 DEF Save, Write
  <2> HIDE DEF s
  <2>2. Runs(Committed(s), order', held, captured, refunded)
    BY <1>1, <1>3, <2>1, CommittedAccounts
  <2> QED
    BY <1>2, <2>1, <2>2, SerialStep
<1>6. CASE Enqueue(c)
  <2>1. s.pc = "enqueue" /\ order' = order /\ saga' = [saga EXCEPT ![c] = Goto(s, "append")]
    BY <1>6 DEF Enqueue, row
  <2> HIDE DEF s
  <2>2. Balance(order.status, held, captured, refunded)
    BY <1>3, <2>1 DEF Accounts
  <2>3. "append" \in PC \ {"idle", "get", "save"}
    BY DEF PC
  <2>4. Runs(Goto(s, "append"), order, held, captured, refunded)
    BY <1>1, <1>3, <2>2, <2>3, GotoAccounts
  <2> QED
    BY <1>2, <2>1, <2>4, SerialStep
<1>7. CASE AppendTimeline(c)
  <2>1. s.pc = "append" /\ order' = order /\ saga' = [saga EXCEPT ![c] = AfterEmit(s)]
    BY <1>7 DEF AppendTimeline, row
  <2> HIDE DEF s
  <2>2. Balance(order.status, held, captured, refunded)
    BY <1>3, <2>1 DEF Accounts
  <2>3. Moved(s, AfterEmit(s)) /\ AfterEmit(s).pc \in {"pay", "confirm", "done", "enqueue"}
    <3>1. CASE s.event = "OrderStatusChanged"
      BY <1>1, <3>1, AfterUpdateMoves DEF AfterEmit
    <3>2. CASE s.event # "OrderStatusChanged"
      BY <1>1, <3>2, GotoMoves DEF AfterEmit, PC
    <3> QED
      BY <3>1, <3>2
  <2>4. Runs(AfterEmit(s), order, held, captured, refunded)
    BY <1>3, <2>2, <2>3 DEF Moved, Runs, Accounts
  <2> QED
    BY <1>2, <2>1, <2>4, SerialStep
<1> QED
  BY <1>4, <1>5, <1>6, <1>7

\* Every step keeps the accounts.
LEMMA NextSerial ==
  ASSUME Serial, SagaInv, SerialInv, [Next]_vars
  PROVE  SerialInv'
<1>1. CASE UNCHANGED vars
  <2>1. /\ order' = order /\ saga' = saga /\ held' = held /\ captured' = captured
        /\ refunded' = refunded /\ InFlight' = InFlight
    BY <1>1 DEF vars, InFlight
  <2> QED
    BY <2>1 DEF SerialInv
<1>2. faults \in Nat /\ crashes \in Nat /\ MaxFaults = 0 /\ MaxCrashes = 0
  BY DEF SagaInv, TypeOK, Serial
<1>3. ~Crash /\ ~Fault
  BY <1>2 DEF Crash, Fault
<1>4. ASSUME NEW c \in Call, Request(c) PROVE SerialInv'
  BY <1>4, SerialRequest, EnvironmentAssumption DEF Request, PayOrder, CancelOrder, RefundOrder, Kind
<1>5. ASSUME NEW c \in Call, Step(c) PROVE SerialInv'
  BY <1>5, SerialWork, SerialEmit DEF Step
<1>6. \A c \in Call : ~Failure(c)
  BY <1>3 DEF Failure, StorageFails, SaveLost, ReleaseFails, EnqueueFails, AppendFails
<1> QED
  BY <1>1, <1>3, <1>4, <1>5, <1>6 DEF Next

\* Initially nothing is held and no saga runs.
LEMMA InitSerial == Init => SerialInv
<1> SUFFICES ASSUME Init PROVE SerialInv
  OBVIOUS
<1>1. InFlight = {}
  BY DEF Init, InFlight
<1>2. Balance(order.status, held, captured, refunded)
  BY DEF Init, Balance
<1> QED
  BY <1>1, <1>2 DEF SerialInv

\* The accounts of an order whose sagas do not overlap are always right.
THEOREM SerialInvariance == ASSUME Serial PROVE Spec => []SerialInv
BY Invariance, InitSerial, NextSerial, PTL DEF Spec

\* When the sagas of an order run one after the other, every ending of Start,
\* Cancel and Refund has given the stock back, and the money of a canceled order.
THEOREM CompensationCorrect == ASSUME Serial PROVE Spec => []Compensated
<1>1. SerialInv => Compensated
  BY DEF SerialInv, Compensated, Quiet, Balance, Terminal
<1> QED
  BY <1>1, SerialInvariance, PTL

\* ... the customer is charged at most once and never gets back more, also in the
\* middle of a saga.
THEOREM MoneyCorrect == ASSUME Serial PROVE Spec => []MoneyBalanced
<1>1. ASSUME NEW st \in Status, Balance(st, held, captured, refunded), SagaInv
      PROVE  MoneyBalanced
  BY <1>1, AmountAssumption DEF Balance, MoneyBalanced, Status, SagaInv, TypeOK
<1>2. SagaInv /\ SerialInv => MoneyBalanced
  <2> SUFFICES ASSUME SagaInv, SerialInv PROVE MoneyBalanced
    OBVIOUS
  <2>1. order.status \in Status /\ \A c \in Call : saga[c].target \in Status
    BY DEF SagaInv, TypeOK, SagaState
  <2>2. CASE InFlight = {}
    BY <1>1, <2>1, <2>2 DEF SerialInv
  <2>3. ASSUME NEW c \in InFlight PROVE MoneyBalanced
    <3>1. Accounts(saga[c], order, held, captured, refunded) /\ c \in Call
      BY DEF SerialInv, InFlight
    <3>2. CASE captured = Amount /\ refunded <= Amount
      BY <3>2, AmountAssumption DEF MoneyBalanced
    <3> QED
      BY <1>1, <2>1, <3>1, <3>2 DEF Accounts
  <2> QED
    BY <2>2, <2>3
<1> QED
  BY <1>2, Invariance, SerialInvariance, PTL

\* ... and updateStatus only makes the transitions of the documented state machine.
THEOREM StateMachineCorrect == ASSUME Serial PROVE Spec => FollowsStateMachine
<1>1. ASSUME SagaInv, SerialInv, [Next]_vars, order'.status # order.status
      PROVE  <<order.status, order'.status>> \in Documented
  <2>1. faults \in Nat /\ crashes \in Nat /\ MaxFaults = 0
    BY <1>1 DEF SagaInv, TypeOK, Serial
  <2>2. PICK c \in Call : Save(c)
    <3>1. ASSUME NEW c \in Call, Request(c) \/ Step(c) \/ Failure(c), ~Save(c)
          PROVE  order' = order
      BY <2>1, <3>1 DEF Request, PayOrder, CancelOrder, RefundOrder, Dispatch, Step, Get, Reserve, Pay,
         Confirm, Release, Refund, Terminated, SaveConflict, Enqueue, AppendTimeline, Failure,
         StorageFails, SaveLost, ReleaseFails, EnqueueFails, AppendFails, Fault, row
    <3> QED
      BY <1>1, <3>1 DEF Next, Crash, vars, row
  <2>3. saga[c].pc = "save" /\ order'.status = saga[c].target /\ c \in InFlight
    BY <2>2 DEF Save, At, Write, InFlight
  <2>4. saga[c].status = order.status
    BY <1>1, <2>3, CopyIsCurrent
  <2> QED
    BY <1>1, <2>3, <2>4 DEF SerialInv, Accounts
<1> QED
  BY <1>1, Invariance, SerialInvariance, PTL DEF Spec, FollowsStateMachine

=============================================================================
