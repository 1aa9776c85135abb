---------------------------- MODULE BatchProofs -----------------------------
(***************************************************************************)
(* Proofs about the batch processor and the circuit breaker, for any       *)
(* number of operations, kinds and sizes: a closed circuit is healthy      *)
(* whatever order results come in, no operation is lost or duplicated, and *)
(* Stop leaves no operation in a batch or in a goroutine.  The arguments   *)
(* follow an operation from the channel into the batch and the goroutines  *)
(* of a flush: it is in the list its state says (Inv), in no other and in  *)
(* that one once (Conserved), and a worker that has ended has empty lists. *)
(***************************************************************************)
EXTENDS Batch, FiniteSetTheorems, TLAPS

OfKind(k) == {o \in Op : KindOf[o] = k}

WorkerState(k) ==
  [pc : {"select", "flush", "stopped"}, todo : Seq(OfKind(k)), limit : Nat,
   running : SUBSET Op, last : BOOLEAN]

Types ==
  /\ op \in [Op -> OpState]
  /\ DOMAIN channel = Kind /\ DOMAIN batch = Kind /\ DOMAIN worker = Kind
  /\ \A k \in Kind : channel[k] \in Seq(OfKind(k)) /\ batch[k] \in Seq(OfKind(k))
  /\ \A k \in Kind : worker[k] \in WorkerState(k)

In(o, seq) == \E i \in 1 .. Len(seq) : seq[i] = o

\* The operation is where its state says.
Found(o, k) ==
  /\ op[o] = "batched" => In(o, batch[k]) \/ In(o, worker[k].todo)
  /\ op[o] \in {"spawned", "running"} => o \in worker[k].running

\* A worker that does not flush has nothing in hand, and one that has ended has
\* no batch either; neither has one in its last flush.
Empty(k) ==
  /\ worker[k].pc # "flush" => worker[k].todo = <<>> /\ worker[k].running = {}
  /\ worker[k].pc = "stopped" => batch[k] = <<>>
  /\ worker[k].last => worker[k].pc = "flush" /\ batch[k] = <<>>

Inv ==
  /\ Types
  /\ \A o \in Op : Found(o, KindOf[o])
  /\ \A k \in Kind : Empty(k)

-----------------------------------------------------------------------------

\* Append keeps what is in a list and adds its argument.
LEMMA InAppend ==
  ASSUME NEW S, NEW seq \in Seq(S), NEW o \in S
  PROVE  /\ Append(seq, o) \in Seq(S) /\ Append(seq, o) # <<>>
         /\ In(o, Append(seq, o)) /\ \A x : In(x, seq) => In(x, Append(seq, o))
<1>1. /\ Append(seq, o) \in Seq(S) /\ Len(Append(seq, o)) = Len(seq) + 1 /\ Len(seq) \in Nat
      /\ Append(seq, o)[Len(seq) + 1] = o
      /\ \A i \in 1 .. Len(seq) : Append(seq, o)[i] = seq[i]
  OBVIOUS
<1>2. In(o, Append(seq, o))
  BY <1>1 DEF In
<1>3. ASSUME NEW x, In(x, seq) PROVE In(x, Append(seq, o))
  BY <1>1, <1>3 DEF In
<1> QED BY <1>1, <1>2, <1>3

\* Only the head leaves a list with Tail.
LEMMA InTail ==
  ASSUME NEW S, NEW seq \in Seq(S), seq # <<>>
  PROVE  /\ Tail(seq) \in Seq(S) /\ Head(seq) \in S
         /\ \A x : In(x, seq) => x = Head(seq) \/ In(x, Tail(seq))
<1>1. /\ Tail(seq) \in Seq(S) /\ Head(seq) = seq[1] /\ Head(seq) \in S
      /\ Len(Tail(seq)) = Len(seq) - 1 /\ Len(seq) \in Nat
      /\ \A i \in 1 .. Len(seq) - 1 : Tail(seq)[i] = seq[i + 1]
  OBVIOUS
<1>2. ASSUME NEW x, NEW i \in 1 .. Len(seq), seq[i] = x, x # Head(seq) PROVE In(x, Tail(seq))
  <2>1. i - 1 \in 1 .. Len(seq) - 1 /\ Tail(seq)[i - 1] = x
    <3>1. i # 1 /\ i \in Int
      BY <1>1, <1>2
    <3>2. i - 1 \in 1 .. Len(seq) - 1 /\ (i - 1) + 1 = i
      BY <1>1, <3>1
    <3> QED BY <1>1, <1>2, <3>2
  <2> QED BY <1>1, <2>1 DEF In
<1> QED BY <1>1, <1>2 DEF In

\* What a flush begins with.
LEMMA FlushFact ==
  ASSUME NEW k, NEW ops \in Seq(OfKind(k)), NEW last \in BOOLEAN
  PROVE  LET w == Flush(ops, last) IN
         /\ w \in WorkerState(k) /\ w.todo = ops /\ w.running = {}
         /\ w.pc # "flush" => ops = <<>>
         /\ w.pc = "stopped" => last
         /\ w.last => last /\ w.pc = "flush"
<1>1. CASE ops = <<>>
  BY <1>1 DEF Flush, NoFlush, WorkerState
<1>2. CASE ops # <<>>
  <2>1. PICK n \in Nat : n = IF maxParallelOps > Len(ops) THEN Len(ops) ELSE maxParallelOps
    BY BatchAssumption
  <2> QED BY <1>2, <2>1 DEF Flush, WorkerState
<1> QED BY <1>1, <1>2

\* NewBatchProcessor starts with empty channels and batches.
LEMMA Initially == Init => Inv
  BY BatchAssumption DEF Init, Inv, Types, Found, Empty, NoFlush, WorkerState, OpState

-----------------------------------------------------------------------------
(* The steps.                                                              *)

\* Of the workers' records and batches, only those of one kind change.
Only(k, w, b) ==
  /\ DOMAIN worker' = Kind /\ worker'[k] = w
  /\ DOMAIN batch' = Kind /\ batch'[k] = b
  /\ \A j \in Kind : j # k => worker'[j] = worker[j] /\ batch'[j] = batch[j]

\* A worker changes its record and its batch, and maybe the state of one
\* operation of its kind.
LEMMA WorkerMoves ==
  ASSUME Inv, NEW k \in Kind, NEW w \in WorkerState(k), NEW b \in Seq(OfKind(k)),
         Only(k, w, b),
         DOMAIN channel' = Kind, \A j \in Kind : channel'[j] \in Seq(OfKind(j)),
         op' \in [Op -> OpState], \A o \in Op : KindOf[o] # k => op'[o] = op[o],
         \A o \in OfKind(k) :
           /\ op'[o] = "batched" => In(o, b) \/ In(o, w.todo)
           /\ op'[o] \in {"spawned", "running"} => o \in w.running,
         w.pc # "flush" => w.todo = <<>> /\ w.running = {},
         w.pc = "stopped" \/ w.last => b = <<>>, w.last => w.pc = "flush"
  PROVE  Inv'
<1>1. /\ worker'[k] = w /\ batch'[k] = b /\ DOMAIN worker' = Kind /\ DOMAIN batch' = Kind
      /\ \A j \in Kind : j # k => worker'[j] = worker[j] /\ batch'[j] = batch[j]
  BY DEF Only
<1>2. Types'
  <2>1. \A j \in Kind : batch'[j] \in Seq(OfKind(j)) /\ worker'[j] \in WorkerState(j)
    BY <1>1 DEF Inv, Types
  <2> QED BY <1>1, <2>1 DEF Types, OfKind, WorkerState
<1>3. ASSUME NEW o \in Op
      PROVE  /\ op'[o] = "batched" => In(o, batch'[KindOf[o]]) \/ In(o, worker'[KindOf[o]].todo)
             /\ op'[o] \in {"spawned", "running"} => o \in worker'[KindOf[o]].running
  <2>1. KindOf[o] \in Kind
    BY BatchAssumption
  <2>2. CASE KindOf[o] = k
    BY <1>1, <2>2 DEF OfKind
  <2>3. CASE KindOf[o] # k
    <3>1. op'[o] = op[o] /\ worker'[KindOf[o]] = worker[KindOf[o]] /\ batch'[KindOf[o]] = batch[KindOf[o]]
      BY <1>1, <2>1, <2>3
    <3>2. Found(o, KindOf[o])
      BY DEF Inv
    <3> QED BY <3>1, <3>2 DEF Found
  <2> QED BY <2>2, <2>3
<1>4. ASSUME NEW j \in Kind
      PROVE  /\ worker'[j].pc # "flush" => worker'[j].todo = <<>> /\ worker'[j].running = {}
             /\ worker'[j].pc = "stopped" => batch'[j] = <<>>
             /\ worker'[j].last => worker'[j].pc = "flush" /\ batch'[j] = <<>>
  <2>1. CASE j = k
    BY <1>1, <2>1
  <2>2. CASE j # k
    BY <1>1, <2>2 DEF Inv, Empty
  <2> QED BY <2>1, <2>2
<1> QED BY <1>2, <1>3, <1>4 DEF Inv, Found, Empty, In

\* An operation changes its state, to one of no list.
LEMMA OpMoves ==
  ASSUME Inv, NEW o \in Op, NEW place \in OpState, op' = [op EXCEPT ![o] = place],
         \/ place \notin {"batched", "spawned", "running"}
         \/ place = "running" /\ op[o] = "spawned",
         DOMAIN channel' = Kind, \A j \in Kind : channel'[j] \in Seq(OfKind(j)),
         batch' = batch, worker' = worker
  PROVE  Inv'
<1>1. op'[o] = place /\ \A x \in Op : x # o => op'[x] = op[x]
  BY DEF Inv, Types
<1>2. Types'
  BY DEF Inv, Types, OfKind, WorkerState
<1>3. ASSUME NEW x \in Op
      PROVE  /\ op'[x] = "batched" => In(x, batch[KindOf[x]]) \/ In(x, worker[KindOf[x]].todo)
             /\ op'[x] \in {"spawned", "running"} => x \in worker[KindOf[x]].running
  <2>1. Found(x, KindOf[x])
    BY DEF Inv
  <2> QED BY <1>1, <2>1 DEF Found
<1> QED BY <1>2, <1>3 DEF Inv, Found, Empty, In

\* StartOrder, CancelOrder, RefundOrder.
LEMMA SubmitStep ==
  ASSUME Inv, NEW o \in Op, Submit(o)
  PROVE  Inv'
<1>1. KindOf[o] \in Kind /\ o \in OfKind(KindOf[o])
  BY BatchAssumption DEF OfKind
<1>2. CASE Len(channel[KindOf[o]]) < channelSize
  <2>1. channel' = [channel EXCEPT ![KindOf[o]] = Append(channel[KindOf[o]], o)]
    BY <1>2 DEF Submit
  <2>2. Append(channel[KindOf[o]], o) \in Seq(OfKind(KindOf[o]))
    BY <1>1, InAppend DEF Inv, Types
  <2>3. DOMAIN channel' = Kind /\ \A j \in Kind : channel'[j] \in Seq(OfKind(j))
    BY <1>1, <2>1, <2>2 DEF Inv, Types
  <2>4. op' = [op EXCEPT ![o] = "queued"] /\ batch' = batch /\ worker' = worker
    BY <1>2 DEF Submit, Move
  <2> QED BY <2>3, <2>4, OpMoves DEF OpState
<1>3. CASE ~(Len(channel[KindOf[o]]) < channelSize)
  <2>1. op' = [op EXCEPT ![o] = "sync"] /\ batch' = batch /\ worker' = worker /\ channel' = channel
    BY <1>3 DEF Submit, Move
  <2>2. DOMAIN channel' = Kind /\ \A j \in Kind : channel'[j] \in Seq(OfKind(j))
    BY <2>1 DEF Inv, Types
  <2> QED BY <2>1, <2>2, OpMoves DEF OpState
<1> QED BY <1>2, <1>3

\* Execute admits the operation.
LEMMA BeginStep ==
  ASSUME Inv, NEW o \in Op, Begin(o)
  PROVE  Inv'
<1>1. DOMAIN channel' = Kind /\ (\A j \in Kind : channel'[j] \in Seq(OfKind(j)))
      /\ batch' = batch /\ worker' = worker
  BY DEF Begin, Inv, Types
<1>2. CASE op[o] = "sync"
  <2>1. op' = [op EXCEPT ![o] = "syncrunning"]
    BY <1>2 DEF Begin, Move
  <2> QED BY <1>1, <2>1, OpMoves DEF OpState
<1>3. CASE op[o] = "spawned"
  <2>1. op' = [op EXCEPT ![o] = "running"]
    BY <1>3 DEF Begin, Move
  <2> QED BY <1>1, <1>3, <2>1, OpMoves DEF OpState
<1> QED BY <1>2, <1>3 DEF Begin

\* An operation ends, refused or run: its goroutine leaves the semaphore.
LEMMA LeftStep ==
  ASSUME Inv, NEW o \in Op, NEW place \in {"blocked", "ran"}, Move(o, place),
         worker' = Left(o), channel' = channel, batch' = batch
  PROVE  Inv'
<1> DEFINE k == KindOf[o]
           w == [worker[k] EXCEPT !.running = @ \ {o}]
<1>1. k \in Kind /\ worker[k] \in WorkerState(k) /\ batch[k] \in Seq(OfKind(k)) /\ Empty(k)
  BY BatchAssumption DEF Inv, Types
<1>2. /\ w \in WorkerState(k) /\ w.todo = worker[k].todo /\ w.pc = worker[k].pc /\ w.last = worker[k].last
      /\ w.running = worker[k].running \ {o}
  BY <1>1 DEF WorkerState
<1>3. Only(k, w, batch[k])
  BY <1>1 DEF Left, Inv, Types, Only
<1>4. op' \in [Op -> OpState] /\ op'[o] = place /\ \A x \in Op : x # o => op'[x] = op[x]
  BY DEF Move, Inv, Types, OpState
<1>5. ASSUME NEW x \in OfKind(k)
      PROVE  /\ op'[x] = "batched" => In(x, batch[k]) \/ In(x, w.todo)
             /\ op'[x] \in {"spawned", "running"} => x \in w.running
  <2>1. x \in Op /\ Found(x, k)
    BY <1>5 DEF OfKind, Inv
  <2>2. CASE x = o
    BY <1>4, <2>2
  <2>3. CASE x # o
    <3>1. op'[x] = op[x]
      BY <1>4, <2>1, <2>3
    <3> QED BY <1>2, <2>1, <2>3, <3>1 DEF Found
  <2> QED BY <2>2, <2>3
<1>6. /\ w.pc # "flush" => w.todo = <<>> /\ w.running = {}
      /\ w.pc = "stopped" \/ w.last => batch[k] = <<>>
      /\ w.last => w.pc = "flush"
  BY <1>1, <1>2 DEF Empty
<1>7. DOMAIN channel' = Kind /\ \A j \in Kind : channel'[j] \in Seq(OfKind(j))
  BY DEF Inv, Types
<1>8. \A x \in Op : KindOf[x] # k => op'[x] = op[x]
  BY <1>4
<1> HIDE DEF w, k
<1> QED BY <1>1, <1>2, <1>3, <1>4, <1>5, <1>6, <1>7, <1>8, WorkerMoves

\* A worker begins a flush of all it has, on a tick or to end.
LEMMA FlushStep ==
  ASSUME Inv, NEW k \in Kind, NEW last \in BOOLEAN, worker[k].pc = "select",
         worker' = [worker EXCEPT ![k] = Flush(batch[k], last)],
         batch' = [batch EXCEPT ![k] = <<>>], op' = op, channel' = channel
  PROVE  Inv'
<1> DEFINE w == Flush(batch[k], last)
<1>1. batch[k] \in Seq(OfKind(k)) /\ Empty(k) /\ worker[k].todo = <<>> /\ worker[k].running = {}
  BY DEF Inv, Types, Empty
<1>2. /\ w \in WorkerState(k) /\ w.todo = batch[k] /\ w.running = {}
      /\ w.pc # "flush" => batch[k] = <<>>
      /\ w.last => w.pc = "flush"
  BY <1>1, FlushFact
<1>3. Only(k, w, <<>>)
  BY DEF Inv, Types, Only
<1>4. ASSUME NEW x \in OfKind(k)
      PROVE  /\ op'[x] = "batched" => In(x, <<>>) \/ In(x, w.todo)
             /\ op'[x] \in {"spawned", "running"} => x \in w.running
  <2>1. Found(x, k)
    BY <1>4 DEF OfKind, Inv
  <2>2. ~In(x, <<>>)
    BY DEF In
  <2> QED BY <1>1, <1>2, <2>1, <2>2 DEF Found
<1>5. /\ op' \in [Op -> OpState] /\ DOMAIN channel' = Kind
      /\ \A j \in Kind : channel'[j] \in Seq(OfKind(j))
  BY DEF Inv, Types
<1>6. <<>> \in Seq(OfKind(k))
  OBVIOUS
<1>7. w.pc # "flush" => w.todo = <<>> /\ w.running = {}
  BY <1>2
<1> HIDE DEF w
<1> QED BY <1>2, <1>3, <1>4, <1>5, <1>6, <1>7, WorkerMoves

\* wg.Wait returns.
LEMMA FlushDoneStep ==
  ASSUME Inv, NEW k \in Kind, FlushDone(k)
  PROVE  Inv'
<1> DEFINE w == Flush(<<>>, worker[k].last)
<1>1. /\ worker[k] \in WorkerState(k) /\ batch[k] \in Seq(OfKind(k)) /\ Empty(k)
      /\ worker[k].last \in BOOLEAN
  BY DEF Inv, Types, WorkerState
<1>2. /\ w \in WorkerState(k) /\ w.todo = <<>> /\ w.running = {}
      /\ w.pc = "stopped" => worker[k].last
      /\ w.last => worker[k].last /\ w.pc = "flush"
  <2>1. PICK last \in BOOLEAN : last = worker[k].last
    BY <1>1
  <2>2. PICK none \in Seq(OfKind(k)) : none = <<>>
    <3>1. <<>> \in Seq(OfKind(k))
      OBVIOUS
    <3> QED BY <3>1, Zenon
  <2>3. /\ Flush(none, last) \in WorkerState(k)
        /\ Flush(none, last).todo = none /\ Flush(none, last).running = {}
        /\ Flush(none, last).pc = "stopped" => last
        /\ Flush(none, last).last => last /\ Flush(none, last).pc = "flush"
    BY FlushFact
  <2> QED BY <2>1, <2>2, <2>3
<1>3. Only(k, w, batch[k])
  BY DEF FlushDone, Inv, Types, Only
<1>4. ASSUME NEW x \in OfKind(k)
      PROVE  /\ op'[x] = "batched" => In(x, batch[k]) \/ In(x, w.todo)
             /\ op'[x] \in {"spawned", "running"} => x \in w.running
  <2>1. Found(x, k)
    BY <1>4 DEF OfKind, Inv
  <2> QED BY <1>2, <2>1 DEF Found, FlushDone
<1>5. /\ op' \in [Op -> OpState] /\ op' = op /\ DOMAIN channel' = Kind
      /\ \A j \in Kind : channel'[j] \in Seq(OfKind(j))
  BY DEF FlushDone, Inv, Types
<1>6. w.pc = "stopped" \/ w.last => batch[k] = <<>>
  BY <1>1, <1>2 DEF Empty
<1> HIDE DEF w
<1> QED BY <1>1, <1>2, <1>3, <1>4, <1>5, <1>6, WorkerMoves

\* A goroutine for the next operation of the flush.
LEMMA SpawnStep ==
  ASSUME Inv, NEW k \in Kind, Spawn(k)
  PROVE  Inv'
<1> DEFINE o == Head(worker[k].todo)
           w == [worker[k] EXCEPT !.todo = Tail(@), !.running = @ \cup {o}]
<1>1. /\ worker[k] \in WorkerState(k) /\ batch[k] \in Seq(OfKind(k)) /\ Empty(k)
      /\ worker[k].todo \in Seq(OfKind(k)) /\ worker[k].todo # <<>> /\ worker[k].pc = "flush"
  BY DEF Inv, Types, WorkerState, Spawn
<1>2. /\ Tail(worker[k].todo) \in Seq(OfKind(k)) /\ o \in OfKind(k)
      /\ \A x : In(x, worker[k].todo) => x = o \/ In(x, Tail(worker[k].todo))
  BY <1>1, InTail
<1>3. /\ w \in WorkerState(k) /\ w.todo = Tail(worker[k].todo) /\ w.pc = "flush"
      /\ w.last = worker[k].last /\ w.running = worker[k].running \cup {o}
  BY <1>1, <1>2 DEF WorkerState, OfKind
<1>4. Only(k, w, batch[k])
  BY DEF Spawn, Inv, Types, Only
<1>5. op' = [op EXCEPT ![o] = "spawned"] /\ o \in Op /\ KindOf[o] = k
  BY <1>2 DEF Spawn, Move, OfKind
<1>6. /\ op' \in [Op -> OpState] /\ op'[o] = "spawned"
      /\ \A x \in Op : x # o => op'[x] = op[x]
  BY <1>5 DEF Inv, Types, OpState
<1>7. ASSUME NEW x \in OfKind(k)
      PROVE  /\ op'[x] = "batched" => In(x, batch[k]) \/ In(x, w.todo)
             /\ op'[x] \in {"spawned", "running"} => x \in w.running
  <2>1. x \in Op /\ Found(x, k)
    BY <1>7 DEF OfKind, Inv
  <2>2. CASE x = o
    BY <1>3, <1>6, <2>2
  <2>3. CASE x # o
    <3>1. op'[x] = op[x]
      BY <1>6, <2>1, <2>3
    <3> QED BY <1>2, <1>3, <2>1, <2>3, <3>1 DEF Found
  <2> QED BY <2>2, <2>3
<1>8. DOMAIN channel' = Kind /\ \A j \in Kind : channel'[j] \in Seq(OfKind(j))
  BY DEF Spawn, Inv, Types
<1>9. w.last => batch[k] = <<>>
  BY <1>1, <1>3 DEF Empty
<1>10. \A x \in Op : KindOf[x] # k => op'[x] = op[x]
  BY <1>5, <1>6
<1> HIDE DEF w, o
<1> QED BY <1>1, <1>3, <1>4, <1>6, <1>7, <1>8, <1>9, <1>10, WorkerMoves

\* An operation arrives from the channel; a full batch is flushed.
LEMMA ReceiveStep ==
  ASSUME Inv, NEW k \in Kind, Receive(k)
  PROVE  Inv'
<1> DEFINE o == Head(channel[k])
           all == Append(batch[k], o)
           full == Len(batch[k]) + 1 >= batchSize
<1>1. /\ worker[k] \in WorkerState(k) /\ batch[k] \in Seq(OfKind(k)) /\ Empty(k)
      /\ channel[k] \in Seq(OfKind(k)) /\ channel[k] # <<>> /\ worker[k].pc = "select"
      /\ worker[k].todo = <<>> /\ worker[k].running = {}
  BY DEF Inv, Types, Receive, Empty
<1>2. Tail(channel[k]) \in Seq(OfKind(k)) /\ o \in OfKind(k)
  BY <1>1, InTail
<1>3. /\ all \in Seq(OfKind(k)) /\ all # <<>> /\ In(o, all)
      /\ \A x : In(x, batch[k]) => In(x, all)
  BY <1>1, <1>2, InAppend
<1>4. op' = [op EXCEPT ![o] = "batched"] /\ o \in Op /\ KindOf[o] = k
  BY <1>2 DEF Receive, Move, OfKind
<1>5. /\ op' \in [Op -> OpState] /\ op'[o] = "batched"
      /\ \A x \in Op : x # o => op'[x] = op[x]
  BY <1>4 DEF Inv, Types, OpState
<1>6. DOMAIN channel' = Kind /\ \A j \in Kind : channel'[j] \in Seq(OfKind(j))
  BY <1>2 DEF Receive, Inv, Types
<1>7. \A x \in Op : KindOf[x] # k => op'[x] = op[x]
  BY <1>4, <1>5
<1>8. ASSUME NEW x \in OfKind(k)
      PROVE  /\ op'[x] = "batched" => In(x, all)
             /\ op'[x] \notin {"spawned", "running"}
  <2>1. x \in Op /\ Found(x, k) /\ ~In(x, <<>>)
    BY <1>8 DEF OfKind, Inv, In
  <2>2. CASE x = o
    BY <1>3, <1>5, <2>2
  <2>3. CASE x # o
    <3>1. op'[x] = op[x]
      BY <1>5, <2>1, <2>3
    <3> QED BY <1>1, <1>3, <2>1, <3>1 DEF Found
  <2> QED BY <2>2, <2>3
<1>9. CASE full
  <2> DEFINE w == Flush(all, FALSE)
  <2>1. /\ w \in WorkerState(k) /\ w.todo = all /\ w.pc = "flush" /\ ~w.last
    <3>1. w \in WorkerState(k) /\ w.todo = all
      BY <1>3, FlushFact
    <3>2. w.pc = "flush" /\ w.last = FALSE
      BY <1>3 DEF Flush
    <3> QED BY <3>1, <3>2
  <2>2. Only(k, w, <<>>)
    BY <1>9 DEF Receive, Inv, Types, Only
  <2>3. <<>> \in Seq(OfKind(k))
    OBVIOUS
  <2>4. \A x \in OfKind(k) : /\ op'[x] = "batched" => In(x, <<>>) \/ In(x, w.todo)
                             /\ op'[x] \in {"spawned", "running"} => x \in w.running
    BY <1>8, <2>1
  <2> HIDE DEF w, o, all, full
  <2> QED BY <1>5, <1>6, <1>7, <2>1, <2>2, <2>3, <2>4, WorkerMoves
<1>10. CASE ~full
  <2>1. Only(k, worker[k], all)
    BY <1>10 DEF Receive, Inv, Types, Only
  <2>2. ~worker[k].last
    BY <1>1 DEF Empty
  <2>3. \A x \in OfKind(k) : /\ op'[x] = "batched" => In(x, all) \/ In(x, worker[k].todo)
                             /\ op'[x] \in {"spawned", "running"} => x \in worker[k].running
    BY <1>8
  <2> HIDE DEF o, all, full
  <2> QED BY <1>1, <1>3, <1>5, <1>6, <1>7, <2>1, <2>2, <2>3, WorkerMoves
<1> QED BY <1>9, <1>10

\* The other steps: the circuit breaker, repeated operations and Stop itself.
LEMMA Frame ==
  ASSUME Inv, UNCHANGED <<op, channel, batch, worker>>
  PROVE  Inv'
<1>1. op' = op /\ channel' = channel /\ batch' = batch /\ worker' = worker
  OBVIOUS
<1>2. Types'
  BY <1>1 DEF Inv, Types, OfKind, WorkerState
<1>3. ASSUME NEW o \in Op PROVE Found(o, KindOf[o])'
  BY <1>1 DEF Inv, Found, In
<1>4. ASSUME NEW k \in Kind PROVE Empty(k)'
  BY <1>1 DEF Inv, Empty
<1> QED BY <1>2, <1>3, <1>4 DEF Inv

\* Every step keeps every operation where its state says.
LEMMA Inductive == Inv /\ [Next]_vars => Inv'
<1> SUFFICES ASSUME Inv, [Next]_vars PROVE Inv'
  OBVIOUS
<1>1. ASSUME NEW o \in Op, Submit(o) PROVE Inv'
  BY <1>1, SubmitStep
<1>2. ASSUME NEW o \in Op, Blocked(o) PROVE Inv'
  BY <1>2, LeftStep DEF Blocked
<1>3. ASSUME NEW o \in Op, Begin(o) PROVE Inv'
  BY <1>3, BeginStep
<1>4. ASSUME NEW o \in Op, Return(o) PROVE Inv'
  BY <1>4, LeftStep DEF Return
<1>5. ASSUME NEW k \in Kind, Receive(k) PROVE Inv'
  BY <1>5, ReceiveStep
<1>6. ASSUME NEW k \in Kind, Tick(k) PROVE Inv'
  <2>1. FALSE \in BOOLEAN /\ op' = op /\ channel' = channel
    BY <1>6 DEF Tick
  <2> QED BY <1>6, <2>1, FlushStep DEF Tick
<1>7. ASSUME NEW k \in Kind, SeeStop(k) PROVE Inv'
  <2>1. TRUE \in BOOLEAN /\ op' = op /\ channel' = channel
    BY <1>7 DEF SeeStop
  <2> QED BY <1>7, <2>1, FlushStep DEF SeeStop
<1>8. ASSUME NEW k \in Kind, Spawn(k) PROVE Inv'
  BY <1>8, SpawnStep
<1>9. ASSUME NEW k \in Kind, FlushDone(k) PROVE Inv'
  BY <1>9, FlushDoneStep
<1>10. ASSUME NEW x \in Other, RetryStep(x) PROVE Inv'
  BY <1>10, Frame DEF RetryStep, RetryBegins, RetryRefused, RetryReturns
<1>11. CASE ResetTimeout /\ UNCHANGED batchVars
  BY <1>11, Frame DEF batchVars
<1>12. CASE Stop
  BY <1>12, Frame DEF Stop
<1>13. CASE UNCHANGED vars
  BY <1>13, Frame DEF vars, batchVars
<1> QED BY <1>1, <1>2, <1>3, <1>4, <1>5, <1>6, <1>7, <1>8, <1>9, <1>10, <1>11, <1>12, <1>13
        DEF Next, OpStep, WorkerStep

-----------------------------------------------------------------------------
(* How often an operation is in a list.                                    *)

\* The count of Places, as an operator of its own.
Times(o, seq) == Cardinality({i \in DOMAIN seq : seq[i] = o})

\* The positions of an element in a list are finitely many.
LEMMA TimesType ==
  ASSUME NEW S, NEW seq \in Seq(S), NEW x
  PROVE  IsFiniteSet({i \in DOMAIN seq : seq[i] = x}) /\ Times(x, seq) \in Nat
<1>1. IsFiniteSet(1 .. Len(seq))
  <2>1. Len(seq) \in Int /\ 1 \in Int
    OBVIOUS
  <2> QED BY <2>1, FS_Interval
<1>2. {i \in DOMAIN seq : seq[i] = x} \in SUBSET (1 .. Len(seq))
  OBVIOUS
<1>3. IsFiniteSet({i \in DOMAIN seq : seq[i] = x})
  BY <1>1, <1>2, FS_Subset
<1> QED BY <1>3, FS_CardinalityType DEF Times

\* Nothing is in an empty list.
LEMMA TimesNone == \A x : Times(x, <<>>) = 0
<1> SUFFICES ASSUME NEW x PROVE Times(x, <<>>) = 0
  OBVIOUS
<1>1. {i \in DOMAIN <<>> : <<>>[i] = x} = {}
  OBVIOUS
<1> QED BY <1>1, FS_EmptySet DEF Times

\* Append counts its argument once more.
LEMMA TimesAppend ==
  ASSUME NEW S, NEW seq \in Seq(S), NEW o \in S, NEW x
  PROVE  Times(x, Append(seq, o)) = Times(x, seq) + IF x = o THEN 1 ELSE 0
<1> DEFINE P == {i \in DOMAIN seq : seq[i] = x}
           n == Len(seq) + 1
           Q == {i \in DOMAIN Append(seq, o) : Append(seq, o)[i] = x}
<1>1. /\ DOMAIN seq = 1 .. Len(seq) /\ DOMAIN Append(seq, o) = 1 .. n /\ Len(seq) \in Nat
      /\ Append(seq, o)[n] = o
      /\ \A i \in 1 .. Len(seq) : Append(seq, o)[i] = seq[i]
  OBVIOUS
<1>2. IsFiniteSet(P) /\ Cardinality(P) \in Nat
  BY TimesType DEF Times
<1>3. n \notin P
  BY <1>1
<1>4. CASE x = o
  <2>1. Q = P \cup {n}
    BY <1>1, <1>4
  <2>2. Cardinality(P \cup {n}) = Cardinality(P) + 1
    <3> HIDE DEF P, n
    <3> QED BY <1>2, <1>3, FS_AddElement
  <2> QED BY <1>4, <2>1, <2>2 DEF Times
<1>5. CASE x # o
  <2>1. Q = P
    BY <1>1, <1>5
  <2>2. Times(x, Append(seq, o)) = Cardinality(P) /\ Times(x, seq) = Cardinality(P)
    BY <2>1 DEF Times
  <2> HIDE DEF P
  <2> QED BY <1>2, <1>5, <2>2
<1> QED BY <1>4, <1>5

\* Tail counts the head once less.
LEMMA TimesTail ==
  ASSUME NEW S, NEW seq \in Seq(S), seq # <<>>, NEW x
  PROVE  Times(x, seq) = Times(x, Tail(seq)) + IF x = Head(seq) THEN 1 ELSE 0
<1> DEFINE P == {i \in DOMAIN Tail(seq) : Tail(seq)[i] = x}
           Q == {i \in DOMAIN seq : seq[i] = x}
           R == Q \ {1}
           f == [i \in P |-> i + 1]
<1>1. /\ DOMAIN seq = 1 .. Len(seq) /\ DOMAIN Tail(seq) = 1 .. Len(seq) - 1
      /\ Len(seq) \in Nat /\ Len(seq) >= 1 /\ Head(seq) = seq[1]
      /\ \A i \in 1 .. Len(seq) - 1 : Tail(seq)[i] = seq[i + 1]
      /\ Tail(seq) \in Seq(S)
  OBVIOUS
<1>2. IsFiniteSet(P) /\ IsFiniteSet(Q) /\ Cardinality(P) \in Nat /\ Cardinality(Q) \in Nat
  BY <1>1, TimesType DEF Times
<1>3. Cardinality(R) = Cardinality(P)
  <2>1. f \in [P -> R]
    <3>1. ASSUME NEW i \in P PROVE i + 1 \in R
      BY <1>1
    <3> QED BY <3>1
  <2>2. \A a, b \in P : f[a] = f[b] => a = b
    BY <1>1
  <2>3. ASSUME NEW j \in R PROVE \E i \in P : f[i] = j
    <3>1. j \in 2 .. Len(seq) /\ seq[j] = x
      BY <1>1
    <3>2. j - 1 \in 1 .. Len(seq) - 1 /\ (j - 1) + 1 = j
      BY <1>1, <3>1
    <3>3. j - 1 \in P
      BY <1>1, <3>1, <3>2
    <3> QED BY <3>2, <3>3
  <2>4. f \in Bijection(P, R)
    <3> HIDE DEF f, P, R
    <3> QED BY <2>1, <2>2, <2>3 DEF Bijection, Injection, Surjection, IsInjective
  <2>5. ExistsBijection(P, R)
    BY <2>4 DEF ExistsBijection
  <2> HIDE DEF f, P, R
  <2> QED BY <1>2, <2>5, FS_Bijection
<1>4. Cardinality(R) = IF 1 \in Q THEN Cardinality(Q) - 1 ELSE Cardinality(Q)
  <2> HIDE DEF Q
  <2> QED BY <1>2, FS_RemoveElement
<1>5. 1 \in Q <=> x = Head(seq)
  BY <1>1
<1>6. Times(x, seq) = Cardinality(Q) /\ Times(x, Tail(seq)) = Cardinality(P)
  BY DEF Times
<1> HIDE DEF P, Q, R
<1> QED BY <1>2, <1>3, <1>4, <1>5, <1>6

\* An operation is once in the list its state names and in no other.
Exact(x, k) ==
  /\ Times(x, channel[k]) = IF op[x] = "queued" THEN 1 ELSE 0
  /\ Times(x, batch[k]) + Times(x, worker[k].todo) = IF op[x] = "batched" THEN 1 ELSE 0
  /\ x \in worker[k].running <=> op[x] \in {"spawned", "running"}

Conserved == \A o \in Op : Exact(o, KindOf[o])

\* The counts of an operation are numbers.
LEMMA Counts ==
  ASSUME Inv, NEW k \in Kind, NEW x
  PROVE  /\ channel[k] \in Seq(OfKind(k)) /\ batch[k] \in Seq(OfKind(k))
         /\ worker[k].todo \in Seq(OfKind(k))
         /\ Times(x, channel[k]) \in Nat /\ Times(x, batch[k]) \in Nat
         /\ Times(x, worker[k].todo) \in Nat
<1>1. channel[k] \in Seq(OfKind(k)) /\ batch[k] \in Seq(OfKind(k)) /\ worker[k].todo \in Seq(OfKind(k))
  BY DEF Inv, Types, WorkerState
<1> QED BY <1>1, TimesType

\* A step of one kind leaves the operations of the others where they are.
LEMMA OneKind ==
  ASSUME Conserved, NEW k \in Kind,
         \A j \in Kind : j # k => /\ channel'[j] = channel[j] /\ batch'[j] = batch[j]
                                  /\ worker'[j] = worker[j],
         \A x \in Op : KindOf[x] # k => op'[x] = op[x],
         \A x \in OfKind(k) : Exact(x, k)'
  PROVE  Conserved'
<1> SUFFICES ASSUME NEW x \in Op PROVE Exact(x, KindOf[x])'
  BY DEF Conserved
<1>1. KindOf[x] \in Kind /\ Exact(x, KindOf[x])
  BY BatchAssumption DEF Conserved
<1>2. CASE KindOf[x] = k
  BY <1>2 DEF OfKind
<1>3. CASE KindOf[x] # k
  <2>1. /\ channel'[KindOf[x]] = channel[KindOf[x]] /\ batch'[KindOf[x]] = batch[KindOf[x]]
        /\ worker'[KindOf[x]] = worker[KindOf[x]] /\ op'[x] = op[x]
    BY <1>1, <1>3
  <2> QED BY <1>1, <2>1 DEF Exact, Times
<1> QED BY <1>2, <1>3

\* An operation enters its channel once, or none.
LEMMA SubmitExact ==
  ASSUME Inv, Conserved, NEW o \in Op, Submit(o)
  PROVE  Conserved'
<1> DEFINE k == KindOf[o]
<1>1. k \in Kind /\ o \in OfKind(k) /\ op[o] = "new" /\ batch' = batch /\ worker' = worker
  BY BatchAssumption DEF OfKind, Submit
<1>2. CASE Len(channel[k]) < channelSize
  <2>1. /\ channel'[k] = Append(channel[k], o) /\ \A j \in Kind : j # k => channel'[j] = channel[j]
        /\ op'[o] = "queued" /\ \A x \in Op : x # o => op'[x] = op[x]
    BY <1>1, <1>2 DEF Submit, Move, Inv, Types
  <2>2. ASSUME NEW x \in OfKind(k) PROVE Exact(x, k)'
    <3>1. x \in Op /\ Exact(x, k) /\ Exact(o, k)
      BY <1>1, <2>2 DEF OfKind, Conserved
    <3>2. Times(x, channel'[k]) = Times(x, channel[k]) + IF x = o THEN 1 ELSE 0
      BY <1>1, <2>1, Counts, TimesAppend
    <3>3. (Times(x, channel[k]) = IF op[x] = "queued" THEN 1 ELSE 0)'
      <4>1. CASE x = o
        BY <1>1, <2>1, <3>1, <3>2, <4>1 DEF Exact
      <4>2. CASE x # o
        BY <2>1, <3>1, <3>2, <4>2 DEF Exact
      <4> QED BY <4>1, <4>2
    <3>4. /\ (op'[x] = "batched") <=> (op[x] = "batched")
          /\ (op'[x] \in {"spawned", "running"}) <=> (op[x] \in {"spawned", "running"})
      BY <1>1, <2>1, <3>1
    <3>5. batch'[k] = batch[k] /\ worker'[k] = worker[k]
      BY <1>1
    <3> QED BY <3>1, <3>3, <3>4, <3>5 DEF Exact, Times
  <2>3. \A x \in Op : KindOf[x] # k => op'[x] = op[x]
    BY <2>1
  <2> HIDE DEF k
  <2> QED BY <1>1, <2>1, <2>2, <2>3, OneKind
<1>3. CASE ~(Len(channel[k]) < channelSize)
  <2>1. channel' = channel /\ op'[o] = "sync" /\ \A x \in Op : x # o => op'[x] = op[x]
    BY <1>1, <1>3 DEF Submit, Move, Inv, Types
  <2> SUFFICES ASSUME NEW x \in Op PROVE Exact(x, KindOf[x])'
    BY DEF Conserved
  <2>2. Exact(x, KindOf[x])
    BY DEF Conserved
  <2>3. \A v \in {"queued", "batched", "spawned", "running"} : op'[x] = v <=> op[x] = v
    BY <1>1, <2>1
  <2> QED BY <1>1, <2>1, <2>2, <2>3 DEF Exact, Times
<1> QED BY <1>2, <1>3

\* An operation that begins keeps its place in the semaphore.
LEMMA BeginExact ==
  ASSUME Inv, Conserved, NEW o \in Op, Begin(o)
  PROVE  Conserved'
<1>1. /\ channel' = channel /\ batch' = batch /\ worker' = worker
      /\ \A x \in Op : x # o => op'[x] = op[x]
      /\ \/ op[o] = "sync" /\ op'[o] = "syncrunning"
         \/ op[o] = "spawned" /\ op'[o] = "running"
  BY DEF Begin, Move, Inv, Types
<1> SUFFICES ASSUME NEW x \in Op PROVE Exact(x, KindOf[x])'
  BY DEF Conserved
<1>2. Exact(x, KindOf[x])
  BY DEF Conserved
<1>3. /\ \A v \in {"queued", "batched"} : op'[x] = v <=> op[x] = v
      /\ op'[x] \in {"spawned", "running"} <=> op[x] \in {"spawned", "running"}
  BY <1>1
<1> QED BY <1>1, <1>2, <1>3 DEF Exact, Times

\* An operation that ends leaves the semaphore.
LEMMA LeftExact ==
  ASSUME Inv, Conserved, NEW o \in Op, NEW place \in {"blocked", "ran"}, Move(o, place),
         op[o] \in {"spawned", "sync", "running", "syncrunning"},
         worker' = Left(o), channel' = channel, batch' = batch
  PROVE  Conserved'
<1> DEFINE k == KindOf[o]
<1>1. k \in Kind /\ o \in OfKind(k) /\ worker[k] \in WorkerState(k)
  BY BatchAssumption DEF Inv, Types, OfKind
<1>2. /\ worker'[k].todo = worker[k].todo /\ worker'[k].running = worker[k].running \ {o}
      /\ \A j \in Kind : j # k => worker'[j] = worker[j]
  BY <1>1 DEF Left, Inv, Types, WorkerState
<1>3. op'[o] = place /\ \A x \in Op : x # o => op'[x] = op[x]
  BY DEF Move, Inv, Types
<1>4. ASSUME NEW x \in OfKind(k) PROVE Exact(x, k)'
  <2>1. x \in Op /\ Exact(x, k)
    BY <1>4 DEF OfKind, Conserved
  <2>2. \A v \in {"queued", "batched"} : op'[x] = v <=> op[x] = v
    BY <1>3, <2>1
  <2>3. x \in worker'[k].running <=> op'[x] \in {"spawned", "running"}
    <3>1. CASE x = o
      BY <1>2, <1>3, <3>1
    <3>2. CASE x # o
      BY <1>2, <1>3, <2>1, <3>2 DEF Exact
    <3> QED BY <3>1, <3>2
  <2> HIDE DEF k
  <2> QED BY <1>2, <2>1, <2>2, <2>3 DEF Exact, Times
<1>5. \A x \in Op : KindOf[x] # k => op'[x] = op[x]
  BY <1>3
<1> HIDE DEF k
<1> QED BY <1>1, <1>2, <1>4, <1>5, OneKind

\* A batch moves into a flush as it is.
LEMMA FlushExact ==
  ASSUME Inv, Conserved, NEW k \in Kind, NEW last \in BOOLEAN, worker[k].pc = "select",
         worker' = [worker EXCEPT ![k] = Flush(batch[k], last)],
         batch' = [batch EXCEPT ![k] = <<>>], op' = op, channel' = channel
  PROVE  Conserved'
<1>1. batch[k] \in Seq(OfKind(k)) /\ worker[k].todo = <<>> /\ worker[k].running = {}
  BY DEF Inv, Types, Empty
<1>2. /\ worker'[k].todo = batch[k] /\ worker'[k].running = {} /\ batch'[k] = <<>>
      /\ \A j \in Kind : j # k => worker'[j] = worker[j] /\ batch'[j] = batch[j]
  <2>1. worker'[k] = Flush(batch[k], last)
    BY DEF Inv, Types
  <2> QED BY <1>1, <2>1, FlushFact DEF Inv, Types
<1>3. ASSUME NEW x \in OfKind(k) PROVE Exact(x, k)'
  <2>1. x \in Op /\ Exact(x, k)
    BY <1>3 DEF OfKind, Conserved
  <2>2. Times(x, batch'[k]) = 0 /\ Times(x, worker'[k].todo) = Times(x, batch[k])
    BY <1>2, TimesNone
  <2>3. Times(x, worker[k].todo) = 0 /\ Times(x, batch[k]) \in Nat
    BY <1>1, TimesNone, Counts
  <2>4. (Times(x, channel[k]) = IF op[x] = "queued" THEN 1 ELSE 0)'
    BY <2>1 DEF Exact, Times
  <2>5. (Times(x, batch[k]) + Times(x, worker[k].todo) = IF op[x] = "batched" THEN 1 ELSE 0)'
    BY <2>1, <2>2, <2>3 DEF Exact
  <2> QED BY <1>1, <1>2, <2>1, <2>4, <2>5 DEF Exact
<1> QED BY <1>2, <1>3, OneKind

\* The end of a flush changes no list.
LEMMA FlushDoneExact ==
  ASSUME Inv, Conserved, NEW k \in Kind, FlushDone(k)
  PROVE  Conserved'
<1>1. worker[k].todo = <<>> /\ worker[k].running = {} /\ op' = op /\ channel' = channel /\ batch' = batch
  BY DEF FlushDone
<1>2. worker'[k] = Flush(<<>>, worker[k].last) /\ \A j \in Kind : j # k => worker'[j] = worker[j]
  BY DEF FlushDone, Inv, Types
<1>3. worker'[k].todo = <<>> /\ worker'[k].running = {}
  BY <1>2 DEF Flush, NoFlush
<1>4. ASSUME NEW x \in OfKind(k) PROVE Exact(x, k)'
  <2>1. Exact(x, k)
    BY <1>4 DEF OfKind, Conserved
  <2> QED BY <1>1, <1>3, <2>1 DEF Exact, Times
<1> QED BY <1>1, <1>2, <1>4, OneKind

\* The next operation of a flush gets a goroutine.
LEMMA SpawnExact ==
  ASSUME Inv, Conserved, NEW k \in Kind, Spawn(k)
  PROVE  Conserved'
<1> DEFINE o == Head(worker[k].todo)
<1>1. worker[k] \in WorkerState(k) /\ worker[k].todo \in Seq(OfKind(k)) /\ worker[k].todo # <<>>
  BY DEF Inv, Types, WorkerState, Spawn
<1>2. o \in OfKind(k) /\ o \in Op /\ KindOf[o] = k
  BY <1>1, InTail DEF OfKind
<1>3. /\ worker'[k].todo = Tail(worker[k].todo) /\ worker'[k].running = worker[k].running \cup {o}
      /\ \A j \in Kind : j # k => worker'[j] = worker[j]
  BY <1>1 DEF Spawn, Inv, Types, WorkerState
<1>4. op'[o] = "spawned" /\ \A x \in Op : x # o => op'[x] = op[x]
  BY <1>2 DEF Spawn, Move, Inv, Types
<1>5. channel' = channel /\ batch' = batch
  BY DEF Spawn
<1> HIDE DEF o
<1>6. ASSUME NEW x \in OfKind(k) PROVE Exact(x, k)'
  <2>1. x \in Op /\ Exact(x, k)
    BY <1>6 DEF OfKind, Conserved
  <2>2. Times(x, worker[k].todo) = Times(x, worker'[k].todo) + IF x = o THEN 1 ELSE 0
    BY <1>1, <1>3, TimesTail DEF o
  <2>3. Times(x, batch[k]) \in Nat /\ Times(x, worker'[k].todo) \in Nat
    <3>1. Tail(worker[k].todo) \in Seq(OfKind(k))
      BY <1>1, InTail
    <3> QED BY <1>3, <3>1, Counts, TimesType
  <2>4. CASE x = o
    <3>1. Times(x, batch[k]) + Times(x, worker[k].todo) = IF op[x] = "batched" THEN 1 ELSE 0
      BY <2>1 DEF Exact
    <3>2. Times(x, worker[k].todo) = Times(x, worker'[k].todo) + 1
      BY <2>2, <2>4
    <3>3. op[x] = "batched" /\ Times(x, batch[k]) = 0 /\ Times(x, worker'[k].todo) = 0
      BY <2>3, <3>1, <3>2
    <3>4. op'[x] = "spawned" /\ x \in worker'[k].running
      BY <1>3, <1>4, <2>4
    <3>5. channel'[k] = channel[k] /\ batch'[k] = batch[k] /\ Times(x, channel[k]) = 0
      BY <1>5, <2>1, <3>3 DEF Exact
    <3> QED BY <3>3, <3>4, <3>5 DEF Exact
  <2>5. CASE x # o
    <3>1. op'[x] = op[x] /\ (x \in worker'[k].running <=> x \in worker[k].running)
      BY <1>3, <1>4, <2>1, <2>5
    <3>2. Times(x, worker'[k].todo) = Times(x, worker[k].todo)
      BY <2>2, <2>3, <2>5
    <3>3. channel'[k] = channel[k] /\ batch'[k] = batch[k]
      BY <1>5
    <3> QED BY <2>1, <3>1, <3>2, <3>3 DEF Exact
  <2> QED BY <2>4, <2>5
<1>7. \A x \in Op : KindOf[x] # k => op'[x] = op[x]
  BY <1>2, <1>4
<1> QED BY <1>3, <1>5, <1>6, <1>7, OneKind

\* An operation goes from its channel into the batch, or into the flush of the
\* batch it fills.
LEMMA ReceiveExact ==
  ASSUME Inv, Conserved, NEW k \in Kind, Receive(k)
  PROVE  Conserved'
<1> DEFINE o == Head(channel[k])
           full == Len(batch[k]) + 1 >= batchSize
<1>1. /\ channel[k] \in Seq(OfKind(k)) /\ channel[k] # <<>> /\ batch[k] \in Seq(OfKind(k))
      /\ worker[k].todo = <<>> /\ worker[k].running = {}
  BY DEF Inv, Types, Receive, Empty
<1>2. o \in OfKind(k) /\ o \in Op /\ KindOf[o] = k
  BY <1>1, InTail DEF OfKind
<1>3. op'[o] = "batched" /\ \A x \in Op : x # o => op'[x] = op[x]
  BY <1>2 DEF Receive, Move, Inv, Types
<1>4. /\ channel'[k] = Tail(channel[k])
      /\ \A j \in Kind : j # k => channel'[j] = channel[j] /\ batch'[j] = batch[j] /\ worker'[j] = worker[j]
  BY DEF Receive, Inv, Types
<1>5. /\ worker'[k].running = {}
      /\ \/ batch'[k] = <<>> /\ worker'[k].todo = Append(batch[k], o)
         \/ batch'[k] = Append(batch[k], o) /\ worker'[k].todo = <<>>
  <2>1. CASE full
    <3>1. worker'[k] = Flush(Append(batch[k], o), FALSE) /\ batch'[k] = <<>>
      BY <2>1 DEF Receive, Inv, Types
    <3>2. Append(batch[k], o) # <<>>
      BY <1>1, <1>2, InAppend
    <3>3. worker'[k].running = {} /\ worker'[k].todo = Append(batch[k], o)
      BY <3>1, <3>2 DEF Flush
    <3> QED BY <3>1, <3>3
  <2>2. CASE ~full
    <3>1. worker'[k] = worker[k] /\ batch'[k] = Append(batch[k], o)
      BY <2>2 DEF Receive, Inv, Types
    <3> QED BY <1>1, <3>1
  <2> QED BY <2>1, <2>2
<1> HIDE DEF o, full
<1>6. ASSUME NEW x \in OfKind(k) PROVE Exact(x, k)'
  <2>1. x \in Op /\ Exact(x, k)
    BY <1>6 DEF OfKind, Conserved
  <2>2. Times(x, channel[k]) = Times(x, channel'[k]) + IF x = o THEN 1 ELSE 0
    BY <1>1, <1>4, TimesTail DEF o
  <2>3. Times(x, batch[k]) \in Nat /\ Times(x, channel'[k]) \in Nat /\ Times(x, <<>>) = 0
    <3>1. Tail(channel[k]) \in Seq(OfKind(k))
      BY <1>1, InTail
    <3> QED BY <1>4, <3>1, Counts, TimesType, TimesNone
  <2>4. Times(x, Append(batch[k], o)) = Times(x, batch[k]) + IF x = o THEN 1 ELSE 0
    BY <1>1, <1>2, TimesAppend
  <2>5. Times(x, batch'[k]) + Times(x, worker'[k].todo) = Times(x, batch[k]) + IF x = o THEN 1 ELSE 0
    <3>1. CASE batch'[k] = <<>> /\ worker'[k].todo = Append(batch[k], o)
      BY <2>3, <2>4, <3>1
    <3>2. CASE batch'[k] = Append(batch[k], o) /\ worker'[k].todo = <<>>
      BY <2>3, <2>4, <3>2
    <3> QED BY <1>5, <3>1, <3>2
  <2>6. Times(x, batch[k]) = IF op[x] = "batched" THEN 1 ELSE 0
    BY <1>1, <2>1, <2>3 DEF Exact
  <2>7. op[x] \notin {"spawned", "running"} /\ Times(x, channel[k]) = IF op[x] = "queued" THEN 1 ELSE 0
    BY <1>1, <2>1 DEF Exact
  <2>8. CASE x = o
    <3>1. op[x] = "queued" /\ Times(x, channel'[k]) = 0
      BY <2>2, <2>3, <2>7, <2>8
    <3>2. op'[x] = "batched"
      BY <1>3, <2>8
    <3>3. Times(x, batch'[k]) + Times(x, worker'[k].todo) = 1
      BY <2>5, <2>6, <2>8, <3>1
    <3> QED BY <1>5, <3>1, <3>2, <3>3 DEF Exact
  <2>9. CASE x # o
    <3>1. op'[x] = op[x] /\ Times(x, channel'[k]) = Times(x, channel[k])
      BY <1>3, <2>1, <2>2, <2>3, <2>9
    <3>2. Times(x, batch'[k]) + Times(x, worker'[k].todo) = Times(x, batch[k])
      BY <2>3, <2>5, <2>9
    <3> QED BY <1>5, <2>6, <2>7, <3>1, <3>2 DEF Exact
  <2> QED BY <2>8, <2>9
<1>7. \A x \in Op : KindOf[x] # k => op'[x] = op[x]
  BY <1>2, <1>3
<1> QED BY <1>4, <1>6, <1>7, OneKind

\* The steps that move no operation.
LEMMA FrameExact ==
  ASSUME Conserved, UNCHANGED <<op, channel, batch, worker>>
  PROVE  Conserved'
<1> SUFFICES ASSUME NEW x \in Op PROVE Exact(x, KindOf[x])'
  BY DEF Conserved
<1>1. op' = op /\ channel' = channel /\ batch' = batch /\ worker' = worker
  OBVIOUS
<1> QED BY <1>1 DEF Conserved, Exact, Times

\* No operation is lost or duplicated on its way through the channel, the batch
\* and the goroutines, for any number of operations and any sizes of channel,
\* batch and semaphore.
THEOREM OperationsAreConserved == Spec => []OpsConserved
<1>1. Init => Conserved
  <2> SUFFICES ASSUME Init, NEW x \in Op PROVE Exact(x, KindOf[x])
    BY DEF Conserved
  <2>1. KindOf[x] \in Kind /\ Times(x, <<>>) = 0
    BY BatchAssumption, TimesNone
  <2> QED BY <2>1 DEF Init, Exact, NoFlush
<1>2. Inv /\ Conserved /\ [Next]_vars => Conserved'
  <2> SUFFICES ASSUME Inv, Conserved, [Next]_vars PROVE Conserved'
    OBVIOUS
  <2>1. ASSUME NEW o \in Op, Submit(o) PROVE Conserved'
    BY <2>1, SubmitExact
  <2>2. ASSUME NEW o \in Op, Blocked(o) PROVE Conserved'
    BY <2>2, LeftExact DEF Blocked
  <2>3. ASSUME NEW o \in Op, Begin(o) PROVE Conserved'
    BY <2>3, BeginExact
  <2>4. ASSUME NEW o \in Op, Return(o) PROVE Conserved'
    BY <2>4, LeftExact DEF Return
  <2>5. ASSUME NEW k \in Kind, Receive(k) PROVE Conserved'
    BY <2>5, ReceiveExact
  <2>6. ASSUME NEW k \in Kind, Tick(k) PROVE Conserved'
    <3>1. FALSE \in BOOLEAN /\ op' = op /\ channel' = channel
      BY <2>6 DEF Tick
    <3> QED BY <2>6, <3>1, FlushExact DEF Tick
  <2>7. ASSUME NEW k \in Kind, SeeStop(k) PROVE Conserved'
    <3>1. TRUE \in BOOLEAN /\ op' = op /\ channel' = channel
      BY <2>7 DEF SeeStop
    <3> QED BY <2>7, <3>1, FlushExact DEF SeeStop
  <2>8. ASSUME NEW k \in Kind, Spawn(k) PROVE Conserved'
    BY <2>8, SpawnExact
  <2>9. ASSUME NEW k \in Kind, FlushDone(k) PROVE Conserved'
    BY <2>9, FlushDoneExact
  <2>10. ASSUME NEW x \in Other, RetryStep(x) PROVE Conserved'
    BY <2>10, FrameExact DEF RetryStep, RetryBegins, RetryRefused, RetryReturns
  <2>11. CASE ResetTimeout /\ UNCHANGED batchVars
    BY <2>11, FrameExact DEF batchVars
  <2>12. CASE Stop
    BY <2>12, FrameExact DEF Stop
  <2>13. CASE UNCHANGED vars
    BY <2>13, FrameExact DEF vars, batchVars
  <2> QED BY <2>1, <2>2, <2>3, <2>4, <2>5, <2>6, <2>7, <2>8, <2>9, <2>10, <2>11, <2>12, <2>13
          DEF Next, OpStep, WorkerStep
<1>3. Conserved => OpsConserved
  <2> SUFFICES ASSUME Conserved, NEW o \in Op
               PROVE  Places(o) = [channel |-> IF op[o] = "queued" THEN 1 ELSE 0,
                                   batch |-> IF op[o] = "batched" THEN 1 ELSE 0,
                                   running |-> IF op[o] \in {"spawned", "running"} THEN 1 ELSE 0]
    BY DEF OpsConserved
  <2>1. Places(o) = [channel |-> Times(o, channel[KindOf[o]]),
                     batch |-> Times(o, batch[KindOf[o]]) + Times(o, worker[KindOf[o]].todo),
                     running |-> IF o \in worker[KindOf[o]].running THEN 1 ELSE 0]
    BY Zenon DEF Places, Times
  <2>2. Exact(o, KindOf[o])
    BY DEF Conserved
  <2> QED BY <2>1, <2>2 DEF Exact
<1> QED BY <1>1, <1>2, <1>3, Initially, Inductive, PTL DEF Spec

-----------------------------------------------------------------------------

\* When Stop of the batch processor has returned, no operation is in a batch or
\* in a goroutine of a worker, whatever the sizes and the order of ticks,
\* arrivals and the stop signal.
THEOREM StopLeavesNothing == Spec => []StopFlushes
<1>1. Inv => StopFlushes
  <2> SUFFICES ASSUME Inv, \A k \in Kind : worker[k].pc = "stopped", NEW o \in Op
               PROVE  op[o] \notin {"batched", "spawned", "running"}
    BY DEF StopFlushes
  <2>1. KindOf[o] \in Kind /\ Found(o, KindOf[o]) /\ Empty(KindOf[o])
    BY BatchAssumption DEF Inv
  <2>2. ~In(o, <<>>)
    BY DEF In
  <2> QED BY <2>1, <2>2 DEF Found, Empty
<1> QED BY <1>1, Initially, Inductive, PTL DEF Spec

\* A closed circuit has seen fewer than maxFailures failures since the last
\* success, in whatever order the results of calls reach Execute.
THEOREM ClosedCircuitsAreHealthy == Spec => []ClosedIsHealthy
<1> DEFINE Healthy == failures \in Nat /\ ClosedIsHealthy
<1>1. Init => Healthy
  BY BreakerAssumption DEF Init, BreakerInit, ClosedIsHealthy
<1>2. Healthy /\ [Next]_vars => Healthy'
  <2> SUFFICES ASSUME Healthy, [Next]_vars PROVE Healthy'
    OBVIOUS
  <2>1. ASSUME OperationSucceeds PROVE Healthy'
    BY <2>1, BreakerAssumption DEF OperationSucceeds, ClosedIsHealthy
  <2>2. ASSUME OperationFails PROVE Healthy'
    BY <2>2, BreakerAssumption DEF OperationFails, ClosedIsHealthy
  <2>3. ASSUME Admit PROVE Healthy'
    BY <2>3 DEF Admit, ClosedIsHealthy
  <2>4. ASSUME UNCHANGED <<state, failures>> PROVE Healthy'
    BY <2>4 DEF ClosedIsHealthy
  <2> HIDE DEF Healthy
  <2>5. ASSUME NEW o \in Op, Submit(o) \/ OpStep(o) PROVE Healthy'
    BY <2>1, <2>3, <2>4, <2>5 DEF OpStep, Submit, Blocked, Begin, Return, breakerVars
  <2>6. ASSUME NEW k \in Kind, WorkerStep(k) PROVE Healthy'
    BY <2>4, <2>6 DEF WorkerStep, Receive, Tick, SeeStop, Spawn, FlushDone, breakerVars
  <2>7. ASSUME NEW x \in Other, RetryStep(x) PROVE Healthy'
    BY <2>1, <2>2, <2>3, <2>4, <2>7 DEF RetryStep, RetryBegins, RetryRefused, RetryReturns, breakerVars
  <2>8. ASSUME ResetTimeout \/ Stop \/ UNCHANGED vars PROVE Healthy'
    BY <2>4, <2>8 DEF ResetTimeout, Stop, vars, breakerVars
  <2> QED BY <2>5, <2>6, <2>7, <2>8 DEF Next
<1> QED BY <1>1, <1>2, PTL DEF Spec

=============================================================================
