--------------------------- MODULE CourierProofs ----------------------------
(***************************************************************************)
(* Proofs about the courier service, for any catalogue of zones, any       *)
(* couriers and requests, any number of overlapping calls and of storage   *)
(* faults, over either repository.                                         *)
(*                                                                         *)
(* The inductive invariant Inv says, besides the properties themselves,    *)
(* which requests a call can have at each of its steps, that a transaction *)
(* between its checks and its writes holds the row of its courier and what *)
(* it found is still so, and that only couriers that exist have zones or   *)
(* are in an answer.                                                       *)
(***************************************************************************)
EXTENDS Courier, FiniteSetTheorems, TLAPS

\* The kinds of request that come to a step.
KindFits(label, kind) ==
  /\ label = "create" => kind = "register"
  /\ label = "get" => kind \in {"replace", "lookup"}
  /\ label \in {"zones", "commitzones"} => kind \in {"register", "replace"}
  /\ label \in {"slot", "commitslot"} => kind = "slot"
  /\ label = "rate" => kind = "rating"
  /\ label = "save" => kind = "save"
  /\ label = "list" => kind = "list"
  /\ label = "slots" => kind = "slots"
  /\ label = "summary" => kind = "summary"

Running(s) == s.pc \in PC \ {"idle", "answered"}

\* A call is a record with these fields, and its request fits its step.
CallFits(s) ==
  /\ DOMAIN s = DOMAIN Idle
  /\ s.pc \in PC
  /\ Running(s) => /\ s.req \in Request /\ RequestError(s.req) = "ok"
                   /\ KindFits(s.pc, s.req.kind)

Calls == DOMAIN rpc = Rpc /\ \A r \in Rpc : CallFits(rpc[r])

Registered == {c \in CourierId : Exists(c)}

Stored ==
  /\ backend \in {"memory", "postgres"}
  /\ courier \in [CourierId -> Profile \cup {NoCourier}]
  /\ index \in [Phone -> CourierId \cup {""}]
  /\ zones \in [CourierId -> Zones]
  /\ lock \in [CourierId -> Rpc \cup {0}]
  /\ resaved \subseteq CourierId /\ faults \in Nat
  /\ IsFiniteSet(Registered)

\* A transaction holds the row of its courier, and what it found out before
\* it writes is still so.
Held(r) ==
  /\ rpc[r].pc \in {"commitslot", "commitzones"} =>
       backend = "postgres" /\ lock[Req(r).courier] = r
  /\ At(r, "commitslot") => NightError(Req(r)) = "ok" /\ ~Overlaps(Req(r))
  /\ At(r, "commitzones") => ZonesError(Req(r).zones, courier[Req(r).courier].vehicle) = "ok"

SlotsFit == \A s \in slots : s.courier \in CourierId /\ SlotError(s) = "ok"

RatingsFit ==
  /\ IsFiniteSet(ratings)
  /\ \A g \in ratings : /\ g.courier \in CourierId /\ RatingError(g) = "ok"
                        /\ g.tags \in Seq(STRING)

\* Couriers that do not exist have no zones.
ZonesKept ==
  /\ \A c \in CourierId : Exists(c) \/ zones[c] = NoZones
  /\ \A z \in Zone : IsFiniteSet(InZone(z))

\* The steps of a call and its answer only name couriers that exist.
Answered(s) ==
  /\ s.pc \in {"zones", "commitzones"} => Exists(s.req.courier)
  /\ s.left \in Seq(Registered)
  /\ s.pc = "load" => s.left # <<>>
  /\ DOMAIN s.zones \subseteq Registered

Inv ==
  /\ Stored /\ Calls /\ PhonesUnique
  /\ \A r \in Rpc : Held(r)
  /\ SlotsFit /\ SlotsConsistent
  /\ RatingsFit
  /\ ZonesKept /\ MemoryZoneCapacity
  /\ \A r \in Rpc : Answered(rpc[r])
  /\ OnePrimaryZone

-----------------------------------------------------------------------------
(* What a step does.                                                       *)

Creates(r) ==
  /\ At(r, "create") /\ CreateError(Req(r)) = "ok"
  /\ courier' = Created(Req(r)) /\ resaved' = resaved
  /\ index' = IF backend = "memory"
              THEN [index EXCEPT ![NormalizePhone(Req(r).phone)] = Req(r).courier] ELSE index

Saves(r) ==
  /\ At(r, "save") /\ SaveError(Req(r)) = "ok" /\ RowFree(Req(r).courier)
  /\ courier' = Saved(Req(r)) /\ resaved' = Resaved(Req(r))
  /\ index' = IF backend = "memory"
              THEN SavedIndex(Req(r).courier, NormalizePhone(Req(r).phone)) ELSE index

Replaces(r) ==
  /\ \/ At(r, "zones") /\ backend = "memory" /\ ReplaceError(r) = "ok"
     \/ At(r, "commitzones")
  /\ zones' = [zones EXCEPT ![Req(r).courier] = prepareZones(Req(r).zones)]
  /\ UNCHANGED profile

TakesSlot(r) ==
  /\ \/ At(r, "slot") /\ backend = "memory" /\ NightError(Req(r)) = "ok" /\ ~Overlaps(Req(r))
     \/ At(r, "commitslot")
  /\ slots' = slots \cup {Slot(Req(r))}

Rates(r) ==
  /\ At(r, "rate") /\ SubmitError(Req(r)) = "ok"
  /\ ratings' = ratings \cup {Rating(Req(r))}

\* The effect of a step of call r on the repository.
Stores(r) ==
  /\ backend' = backend
  /\ UNCHANGED profile \/ Creates(r) \/ Saves(r)
  /\ UNCHANGED zones \/ Replaces(r)
  /\ UNCHANGED slots \/ TakesSlot(r)
  /\ UNCHANGED ratings \/ Rates(r)
  /\ faults' \in Nat

\* Rows other calls have locked stay locked.
Locks(r) ==
  /\ lock' \in [CourierId -> Rpc \cup {0}]
  /\ \A c \in CourierId : lock[c] \notin {0, r} => lock'[c] = lock[c]

\* Every field of a call but the request comes from what the step reads.
Moved(r, s) ==
  /\ rpc' = [rpc EXCEPT ![r] = s]
  /\ CallFits(s)
  /\ s.slots \subseteq slots
  /\ s.pc \in {"zones", "commitzones"} => courier'[s.req.courier] # NoCourier
  /\ s.left \in Seq(Registered)
  /\ s.pc = "load" => s.left # <<>>
  /\ \A c \in DOMAIN s.zones : \/ c \in DOMAIN rpc[r].zones /\ s.zones[c] = rpc[r].zones[c]
                               \/ c \in Registered /\ s.zones[c] = zones[c]
  /\ s.pc \in {"commitslot", "commitzones"} =>
       /\ backend = "postgres" /\ UNCHANGED <<courier, slots>>
       /\ RowFree(s.req.courier) /\ lock' = [lock EXCEPT ![s.req.courier] = r]
  /\ s.pc = "commitslot" => NightError(s.req) = "ok" /\ ~Overlaps(s.req)
  /\ s.pc = "commitzones" => ZonesError(s.req.zones, courier[s.req.courier].vehicle) = "ok"

Effect(r) == Stores(r) /\ Locks(r) /\ \E s : Moved(r, s)

\* The fields of an answered call (Answer, Refuse).
LEMMA AnswerFits ==
  ASSUME NEW s, DOMAIN s = DOMAIN Idle, NEW code
  PROVE  /\ CallFits(Answer(s, code))
         /\ Answer(s, code).pc = "answered" /\ Answer(s, code).left = <<>>
         /\ Answer(s, code).zones = s.zones /\ Answer(s, code).slots = s.slots
BY DEF CallFits, Answer, Idle, Running, PC

\* The fields of a call that goes to its next step (Goto).
LEMMA GotoFits ==
  ASSUME NEW s, DOMAIN s = DOMAIN Idle, NEW label
  PROVE  /\ DOMAIN Goto(s, label) = DOMAIN Idle
         /\ Goto(s, label).pc = label /\ Goto(s, label).left = s.left
         /\ Goto(s, label).req = s.req
         /\ Goto(s, label).zones = s.zones /\ Goto(s, label).slots = s.slots
BY DEF Goto, Idle

\* The fields of a call that is to read the zones of couriers (Load).
LEMMA LoadFits ==
  ASSUME NEW s, CallFits(s), Running(s), NEW couriers
  PROVE  /\ CallFits(Load(s, couriers))
         /\ Load(s, couriers).pc = "load" /\ Load(s, couriers).left = couriers
         /\ Load(s, couriers).zones = s.zones /\ Load(s, couriers).slots = s.slots
BY DEF Load, Idle, CallFits, Running, PC, KindFits

\* An answer names nothing that the call did not know.
LEMMA AnswerMoves ==
  ASSUME NEW r \in Rpc, Calls, Answered(rpc[r]), rpc[r].slots \subseteq slots,
         NEW code, Become(r, Answer(rpc[r], code))
  PROVE  \E s : Moved(r, s)
<1> DEFINE s == Answer(rpc[r], code)
<1>1. /\ CallFits(s) /\ s.pc = "answered" /\ s.left = <<>>
      /\ s.zones = rpc[r].zones /\ s.slots = rpc[r].slots
  BY AnswerFits DEF Calls, CallFits
<1>2. rpc' = [rpc EXCEPT ![r] = s]
  BY DEF Become
<1> HIDE DEF s
<1>3. Moved(r, s)
  BY <1>1, <1>2 DEF Moved
<1> QED  BY <1>3

\* The request of a running call has the fields its step uses.
LEMMA RequestFits ==
  ASSUME NEW s, CallFits(s), Running(s)
  PROVE  /\ s.req \in Request
         /\ s.pc \notin {"list", "load"} => s.req.courier \in CourierId
         /\ s.pc \in {"create", "save"} => s.req.phone \in DOMAIN PhoneOf
         /\ s.pc \in {"zones", "commitzones"} =>
              s.req.zones \in Seq(ZoneInput)
         /\ s.pc = "rate" => s.req.tags \in Seq(STRING)
         /\ s.pc = "list" => /\ s.req.zone \in DOMAIN ZoneOf /\ NormalizeZoneID(s.req.zone) # ""
                             /\ s.req.limit \in Int /\ s.req.limit >= 0
<1>1. s.req \in Request /\ KindFits(s.pc, s.req.kind) /\ s.pc \in PC \ {"idle", "answered"}
  BY DEF CallFits, Running
<1>2. CASE s.pc = "list"
  <2>1. s.req.kind = "list" /\ RequestError(s.req) = "ok"
    BY <1>1, <1>2 DEF KindFits, CallFits
  <2>2. s.req.limit >= 0
    <3>1. PICK n \in Int : n = s.req.limit
      BY <1>1, <2>1, RequestAssumption
    <3>2. ~(n < 0)
      BY <2>1, <3>1, Zenon DEF RequestError
    <3> QED  BY <3>1, <3>2
  <2> HIDE DEF NormalizeZoneID
  <2> QED  BY <1>1, <1>2, <2>1, <2>2, RequestAssumption, Zenon DEF RequestError
<1>3. CASE s.pc # "list"
  BY <1>1, <1>3, RequestAssumption, Zenon DEF KindFits, PC
<1> QED  BY <1>2, <1>3, Zenon

\* What is known of the call that moves.
LEMMA CallKnown ==
  ASSUME Inv, NEW r \in Rpc
  PROVE  /\ Stored /\ Calls /\ CallFits(rpc[r]) /\ Answered(rpc[r])
         /\ rpc[r].slots \subseteq slots /\ DOMAIN rpc[r] = DOMAIN Idle
         /\ UNCHANGED lock => Locks(r)
BY Zenon DEF Inv, Calls, SlotsConsistent, CallFits, Stored, Locks

\* RequestFits for a call at a step.
LEMMA AtStep ==
  ASSUME Inv, NEW r \in Rpc, NEW label \in PC \ {"idle", "answered"}, At(r, label)
  PROVE  /\ CallFits(rpc[r]) /\ Running(rpc[r]) /\ rpc[r].pc = label
         /\ Req(r) \in Request /\ KindFits(label, Req(r).kind)
BY CallKnown DEF At, Running, CallFits, Req

\* Call refuses a request or starts the call at the first step of its kind.
LEMMA CallEffect ==
  ASSUME Inv, NEW r \in Rpc, NEW req \in Request, Call(r, req)
  PROVE  Effect(r)
<1> DEFINE s0 == [Idle EXCEPT !.req = req]
<1>1. /\ DOMAIN s0 = DOMAIN Idle /\ s0.req = req /\ s0.left = <<>> /\ s0.slots = {}
      /\ s0.zones = <<>> /\ s0.pc = "idle"
  BY DEF Idle
<1> HIDE DEF s0
<1>2. CASE RequestError(req) # "ok"
  <2> DEFINE s == Answer(s0, "InvalidArgument")
  <2>1. rpc' = [rpc EXCEPT ![r] = s]
    BY <1>2 DEF Call, Become, s0
  <2>2. /\ CallFits(s) /\ s.pc = "answered" /\ s.left = <<>> /\ s.zones = <<>> /\ s.slots = {}
    BY <1>1, AnswerFits
  <2> HIDE DEF s
  <2>3. Moved(r, s)
    BY <2>1, <2>2 DEF Moved
  <2> QED  BY <2>3, CallKnown, Zenon DEF Effect, Stores, Call, Stored, profile, duty
<1>3. CASE RequestError(req) = "ok"
  <2> DEFINE s == Goto(s0, FirstStep[req.kind])
  <2>1. rpc' = [rpc EXCEPT ![r] = s]
    BY <1>3 DEF Call, Become, s0
  <2>2. /\ DOMAIN s = DOMAIN Idle /\ s.pc = FirstStep[req.kind] /\ s.req = req
        /\ s.left = <<>> /\ s.zones = <<>> /\ s.slots = {}
    BY <1>1, GotoFits
  <2> HIDE DEF s
  <2>3. Moved(r, s)
    BY <1>3, <2>1, <2>2, RequestAssumption DEF Moved, FirstStep, PC, KindFits, CallFits
  <2> QED  BY <2>3, CallKnown, Zenon DEF Effect, Stores, Call, Stored, profile, duty
<1> QED  BY <1>2, <1>3

\* Refuse and Answer of a call that stores nothing.
LEMMA AnswerEffect ==
  ASSUME Inv, NEW r \in Rpc, NEW code, Become(r, Answer(rpc[r], code)),
         Stores(r), Locks(r)
  PROVE  Effect(r)
BY CallKnown, AnswerMoves DEF Effect

\* Create refuses, or stores the courier and goes on to its zones.
LEMMA CreateEffect ==
  ASSUME Inv, NEW r \in Rpc, Create(r)
  PROVE  Effect(r)
<1>1. /\ CallFits(rpc[r]) /\ Running(rpc[r]) /\ rpc[r].pc = "create"
      /\ Req(r) \in Request /\ KindFits("create", Req(r).kind)
  BY AtStep DEF Create, PC
<1>2. CASE CreateError(Req(r)) # "ok"
  BY <1>2, CallKnown, AnswerEffect, Zenon DEF Stores, Create, profile, Refuse, duty, Stored
<1>3. CASE CreateError(Req(r)) = "ok"
  <2>1. Creates(r)
    BY <1>3 DEF Create, Creates
  <2> DEFINE s == Goto(rpc[r], "zones")
  <2>2. rpc' = [rpc EXCEPT ![r] = s]
    BY <1>3 DEF Create, Become
  <2>3. /\ DOMAIN s = DOMAIN Idle /\ s.pc = "zones" /\ s.req = Req(r)
        /\ s.left = rpc[r].left /\ s.zones = rpc[r].zones /\ s.slots = rpc[r].slots
    BY CallKnown, GotoFits DEF Req
  <2> HIDE DEF s
  <2>4. Req(r).courier \in CourierId
    BY <1>1, RequestFits, Zenon DEF Req
  <2>5. courier'[s.req.courier] # NoCourier
    BY <1>3, <2>1, <2>3, <2>4, CallKnown, Zenon DEF CreateError, CreateErrorMemory,
       CreateErrorPostgres, Stored, Creates, Created, CourierError, NoCourier
  <2>6. Moved(r, s)
    BY <1>1, <2>2, <2>3, <2>5, CallKnown, Zenon DEF Moved, Answered, CallFits, Running, PC,
       KindFits, Req
  <2> QED  BY <2>1, <2>6, CallKnown, Zenon DEF Effect, Stores, Create, duty, Stored
<1> QED  BY <1>2, <1>3

\* Save refuses, or stores the courier and answers.
LEMMA SaveEffect ==
  ASSUME Inv, NEW r \in Rpc, Save(r)
  PROVE  Effect(r)
BY AnswerEffect, CallKnown, Zenon DEF Save, duty, Stored, Stores, profile, Refuse, Saves

\* A call that goes on to load the zones of couriers that exist.
LEMMA LoadEffect ==
  ASSUME Inv, NEW r \in Rpc, Running(rpc[r]), NEW couriers \in Seq(Registered), couriers # <<>>,
         Become(r, Load(rpc[r], couriers)), Stores(r), Locks(r)
  PROVE  Effect(r)
<1> DEFINE s == Load(rpc[r], couriers)
<1>1. rpc' = [rpc EXCEPT ![r] = s]
  BY DEF Become
<1>2. /\ CallFits(s) /\ s.pc = "load" /\ s.left = couriers
      /\ s.zones = rpc[r].zones /\ s.slots = rpc[r].slots
  BY CallKnown, LoadFits
<1> HIDE DEF s
<1> QED  BY <1>1, <1>2, CallKnown, Zenon DEF Effect, Moved

\* A courier that exists is one to load.
LEMMA OneToLoad ==
  ASSUME NEW c \in CourierId, Exists(c)
  PROVE  <<c>> \in Seq(Registered) /\ <<c>> # <<>>
BY DEF Registered

\* Get refuses, or goes on with a courier that exists.
LEMMA GetEffect ==
  ASSUME Inv, NEW r \in Rpc, Get(r)
  PROVE  Effect(r)
<1>1. /\ CallFits(rpc[r]) /\ Running(rpc[r]) /\ rpc[r].pc = "get"
      /\ Req(r) \in Request /\ KindFits("get", Req(r).kind)
  BY AtStep DEF Get, PC
<1>2. Locks(r) /\ Stores(r)
  BY CallKnown, Zenon DEF Get, duty, Stored, Stores
<1> DEFINE c == Req(r).courier
<1>3. CASE ~Exists(c)
  BY <1>2, <1>3, AnswerEffect DEF Get, Refuse
<1>4. CASE Exists(c) /\ Req(r).kind = "lookup"
  BY <1>1, <1>2, <1>4, RequestFits, LoadEffect, OneToLoad, Zenon DEF Get, Req
<1>5. CASE /\ Exists(c) /\ Req(r).kind # "lookup"
           /\ ZonesError(Req(r).zones, courier[c].vehicle) # "ok"
  BY <1>2, <1>5, AnswerEffect DEF Get
<1>6. CASE /\ Exists(c) /\ Req(r).kind # "lookup"
           /\ ZonesError(Req(r).zones, courier[c].vehicle) = "ok"
  <2> DEFINE s == Goto(rpc[r], "zones")
  <2>1. rpc' = [rpc EXCEPT ![r] = s]
    BY <1>6 DEF Get, Become
  <2>2. /\ DOMAIN s = DOMAIN Idle /\ s.pc = "zones" /\ s.req = Req(r)
        /\ s.left = rpc[r].left /\ s.zones = rpc[r].zones /\ s.slots = rpc[r].slots
    BY CallKnown, GotoFits DEF Req
  <2> HIDE DEF s
  <2>3. courier'[s.req.courier] # NoCourier
    BY <1>6, <2>2 DEF Get, profile, Exists
  <2>4. Moved(r, s)
    BY <1>1, <1>6, <2>1, <2>2, <2>3, CallKnown, Zenon DEF Moved, Answered, CallFits,
       Running, PC, KindFits, Req
  <2> QED  BY <1>2, <2>4 DEF Effect
<1> QED  BY <1>3, <1>4, <1>5, <1>6

\* ReplaceZones of the memory repository checks and stores in one step.
LEMMA ReplaceZonesMemoryEffect ==
  ASSUME Inv, NEW r \in Rpc, ReplaceZonesMemory(r)
  PROVE  Effect(r)
<1>1. /\ Locks(r) /\ backend' = backend /\ UNCHANGED <<profile, slots, ratings>> /\ faults' \in Nat
  BY CallKnown, Zenon DEF ReplaceZonesMemory, duty, Stored
<1>2. CASE ReplaceError(r) # "ok"
  BY <1>1, <1>2, AnswerEffect DEF Stores, ReplaceZonesMemory, Refuse
<1>3. CASE ReplaceError(r) = "ok"
  BY <1>1, <1>3, AtStep, CallKnown, LoadEffect, OneToLoad, RequestFits, Zenon DEF
     ReplaceZonesMemory, Replaces, Stores, Answered, PC, Req
<1> QED  BY <1>2, <1>3

\* A transaction takes the row of its courier.
LEMMA LockTaken ==
  ASSUME Inv, NEW r \in Rpc, NEW c \in CourierId, RowFree(c), lock' = [lock EXCEPT ![c] = r]
  PROVE  Locks(r)
BY CallKnown, Zenon DEF Stored, Locks, RowFree

\* A transaction gives back the row of its courier.
LEMMA LockReturned ==
  ASSUME Inv, NEW r \in Rpc, NEW c \in CourierId, lock[c] = r, lock' = [lock EXCEPT ![c] = 0]
  PROVE  Locks(r)
BY CallKnown, Zenon DEF Stored, Locks

\* The transaction of ReplaceZones locks the row and keeps what it checked.
LEMMA BeginZonesEffect ==
  ASSUME Inv, NEW r \in Rpc, BeginZones(r)
  PROVE  Effect(r)
<1>1. /\ CallFits(rpc[r]) /\ Running(rpc[r]) /\ rpc[r].pc = "zones" /\ Req(r) = rpc[r].req
      /\ Req(r) \in Request /\ KindFits("zones", Req(r).kind)
  BY AtStep DEF BeginZones, PC, Req
<1> DEFINE c == Req(r).courier
<1>2. c \in CourierId /\ Exists(c) /\ Answered(rpc[r]) /\ rpc[r].slots \subseteq slots
  BY <1>1, CallKnown, RequestFits, Zenon DEF Answered
<1>3. CASE ReplaceError(r) # "ok"
  BY <1>3, CallKnown, AnswerEffect, Zenon DEF BeginZones, Refuse, Stores, duty, Stored
<1>4. CASE ReplaceError(r) = "ok"
  <2> DEFINE s == Goto(rpc[r], "commitzones")
  <2>1. rpc' = [rpc EXCEPT ![r] = s]
    BY <1>4 DEF BeginZones, Become
  <2>2. /\ DOMAIN s = DOMAIN Idle /\ s.pc = "commitzones" /\ s.req = Req(r)
        /\ s.left = rpc[r].left /\ s.zones = rpc[r].zones /\ s.slots = rpc[r].slots
    BY <1>1, CallKnown, GotoFits
  <2> HIDE DEF s
  <2>3. CallFits(s)
    BY <1>1, <2>2 DEF CallFits, Running, PC, KindFits
  <2>4. Moved(r, s)
    BY <1>2, <1>4, <2>1, <2>2, <2>3 DEF Moved, Answered, BeginZones, profile, duty, Exists,
       ReplaceError
  <2> QED
    BY <1>2, <1>4, <2>4, CallKnown, LockTaken, Zenon DEF Effect, BeginZones, Stores, duty,
       Stored
<1> QED  BY <1>3, <1>4

\* The transaction of ReplaceZones stores the zones and frees the row.
LEMMA CommitZonesEffect ==
  ASSUME Inv, NEW r \in Rpc, CommitZones(r)
  PROVE  Effect(r)
<1>1. /\ CallFits(rpc[r]) /\ Running(rpc[r]) /\ rpc[r].pc = "commitzones" /\ Req(r) = rpc[r].req
  BY AtStep DEF CommitZones, PC, Req
<1>2. Req(r).courier \in CourierId /\ Exists(Req(r).courier)
  BY <1>1, CallKnown, RequestFits, Zenon DEF Answered
<1> QED
  BY <1>1, <1>2, LockReturned, CallKnown, LoadEffect, OneToLoad, Zenon DEF Inv, Held,
     CommitZones, Stores, duty, Stored, Replaces

\* The couriers of a zone exist.
LEMMA InZoneRegistered ==
  ASSUME Inv, NEW z
  PROVE  InZone(z) \subseteq Registered
BY DEF Inv, ZonesKept, InZone, Registered, NoZones

\* ListByZone finds only couriers that exist, for only they have zones.
LEMMA ListByZoneEffect ==
  ASSUME Inv, NEW r \in Rpc, ListByZone(r)
  PROVE  Effect(r)
<1>1. /\ CallFits(rpc[r]) /\ Running(rpc[r]) /\ rpc[r].pc = "list" /\ Req(r) = rpc[r].req
  BY AtStep DEF ListByZone, PC, Req
<1> DEFINE zone == NormalizeZoneID(Req(r).zone)
           limit == Req(r).limit
           max == IF limit = 0 THEN defaultListCouriersByZoneLimit ELSE limit
           len == IF Cardinality(InZone(zone)) > max THEN max ELSE Cardinality(InZone(zone))
<1>2. PICK found \in ByZone(zone, limit) :
        Become(r, IF found = <<>> THEN Answer(rpc[r], "OK") ELSE Load(rpc[r], found))
  BY DEF ListByZone
<1>3. limit \in Nat /\ zone \in Zone
  <2>1. limit \in Nat
    <3>1. limit \in Int /\ limit >= 0
      BY <1>1, RequestFits, Zenon
    <3> QED  BY <3>1
  <2> QED  BY <1>1, <2>1, RequestFits, CourierDomainAssumption, Zenon DEF NormalizeZoneID
<1>4. len \in Nat
  BY <1>3, FS_CardinalityType DEF defaultListCouriersByZoneLimit, Inv, ZonesKept
<1>5. found \in [1 .. len -> InZone(zone)]
  BY <1>2 DEF ByZone
<1> HIDE DEF len, zone
<1>6. found \in Seq(Registered)
  BY <1>4, <1>5, InZoneRegistered
<1>7. CASE found = <<>>
  BY <1>2, <1>7, CallKnown, AnswerEffect, Zenon DEF ListByZone, duty, Stored, Stores
<1>8. CASE found # <<>>
  BY <1>1, <1>2, <1>6, <1>8, CallKnown, LoadEffect, Zenon DEF ListByZone, duty, Stored,
     Stores
<1> QED  BY <1>7, <1>8

\* ListZones adds the zones of now to the answer.
LEMMA ListZonesEffect ==
  ASSUME Inv, NEW r \in Rpc, ListZones(r)
  PROVE  Effect(r)
<1>1. /\ CallFits(rpc[r]) /\ Running(rpc[r]) /\ rpc[r].pc = "load"
  BY AtStep DEF ListZones, PC
<1> DEFINE s0 == rpc[r]
           c == Head(s0.left)
           read == [s0 EXCEPT !.left = Tail(@), !.zones = WithZones(c, @)]
<1>2. /\ DOMAIN s0 = DOMAIN Idle /\ s0.left \in Seq(Registered) /\ s0.left # <<>>
      /\ s0.slots \subseteq slots
  BY <1>1, CallKnown DEF Answered
<1>3. rpc' = [rpc EXCEPT ![r] = IF read.left = <<>> THEN Answer(read, "OK") ELSE read]
  BY DEF ListZones, Become
<1> HIDE DEF s0
<1>4. /\ DOMAIN read = DOMAIN Idle /\ read.pc = s0.pc /\ read.req = s0.req
      /\ read.left = Tail(s0.left) /\ read.zones = WithZones(c, s0.zones) /\ read.slots = s0.slots
  BY <1>2 DEF Idle
<1>5. c \in Registered /\ Tail(s0.left) \in Seq(Registered)
  BY <1>2
<1> HIDE DEF read, c
<1>6. CASE read.left = <<>>
  <2> DEFINE s == Answer(read, "OK")
  <2>1. /\ CallFits(s) /\ s.pc = "answered" /\ s.left = <<>>
        /\ s.zones = read.zones /\ s.slots = read.slots
    BY <1>4, AnswerFits
  <2>2. rpc' = [rpc EXCEPT ![r] = s]
    BY <1>3, <1>6
  <2> HIDE DEF s
  <2>3. Moved(r, s)
    BY <1>2, <1>4, <1>5, <2>1, <2>2 DEF Moved, s0, WithZones
  <2> QED  BY <2>3, CallKnown, Zenon DEF Effect, ListZones, duty, Stored, Stores
<1>7. CASE read.left # <<>>
  <2>1. Moved(r, read)
    BY <1>1, <1>2, <1>3, <1>4, <1>5, <1>7 DEF Moved, s0, WithZones, CallFits, Running
  <2> QED  BY <2>1, CallKnown, Zenon DEF Effect, ListZones, duty, Stored, Stores
<1> QED  BY <1>6, <1>7

\* CreateSlot of the memory repository checks and stores in one step.
LEMMA CreateSlotMemoryEffect ==
  ASSUME Inv, NEW r \in Rpc, CreateSlotMemory(r)
  PROVE  Effect(r)
BY AnswerEffect, CallKnown, Zenon DEF CreateSlotMemory, Stored, Stores, Refuse, TakesSlot

\* The transaction of CreateSlot locks the row and keeps what it checked.
LEMMA BeginSlotEffect ==
  ASSUME Inv, NEW r \in Rpc, BeginSlot(r)
  PROVE  Effect(r)
<1>1. /\ CallFits(rpc[r]) /\ Running(rpc[r]) /\ rpc[r].pc = "slot" /\ Req(r) = rpc[r].req
      /\ Req(r) \in Request /\ KindFits("slot", Req(r).kind)
  BY AtStep DEF BeginSlot, PC, Req
<1>2. Req(r).courier \in CourierId /\ Answered(rpc[r]) /\ rpc[r].slots \subseteq slots
  BY <1>1, CallKnown, RequestFits, Zenon
<1> DEFINE req == Req(r)
           err == IF NightError(req) # "ok" THEN NightError(req)
                  ELSE IF Overlaps(req) THEN "ErrCourierSlotConflict" ELSE "ok"
<1>3. CASE err # "ok"
  BY <1>3, CallKnown, AnswerEffect, Zenon DEF BeginSlot, Refuse, Stores, duty, Stored
<1>4. CASE err = "ok"
  <2> DEFINE s == Goto(rpc[r], "commitslot")
  <2>1. rpc' = [rpc EXCEPT ![r] = s]
    BY <1>4 DEF BeginSlot, Become
  <2>2. /\ DOMAIN s = DOMAIN Idle /\ s.pc = "commitslot" /\ s.req = Req(r)
        /\ s.left = rpc[r].left /\ s.zones = rpc[r].zones /\ s.slots = rpc[r].slots
    BY <1>1, CallKnown, GotoFits
  <2> HIDE DEF s
  <2>3. backend = "postgres" /\ UNCHANGED <<courier, slots>>
    BY DEF BeginSlot, profile, duty
  <2>4. Moved(r, s)
    BY <1>1, <1>2, <1>4, <2>1, <2>2, <2>3, Zenon DEF Moved, Answered, BeginSlot, NightError,
       CallFits, Running, PC, KindFits
  <2> QED
    BY <1>2, <1>4, <2>4, CallKnown, LockTaken, Zenon DEF Effect, BeginSlot, Stores, duty,
       Stored, NightError
<1> QED  BY <1>3, <1>4

\* The transaction of CreateSlot stores the slot, or not, and frees the row.
LEMMA CommitSlotEffect ==
  ASSUME Inv, NEW r \in Rpc, CommitSlot(r)
  PROVE  Effect(r)
<1>1. /\ CallFits(rpc[r]) /\ Running(rpc[r]) /\ rpc[r].pc = "commitslot" /\ Req(r) = rpc[r].req
  BY AtStep DEF CommitSlot, PC, Req
<1>2. Req(r).courier \in CourierId
  BY <1>1, RequestFits, Zenon
<1>3. CASE Clash(Req(r))
  BY <1>1, <1>2, <1>3, LockReturned, CallKnown, AnswerEffect, Zenon DEF CommitSlot, Refuse,
     Inv, Held, Stores, Stored, TakesSlot
<1>4. CASE ~Clash(Req(r))
  BY <1>1, <1>2, <1>4, LockReturned, CallKnown, AnswerEffect, Zenon DEF CommitSlot, Inv,
     Held, Stores, Stored, TakesSlot
<1> QED  BY <1>3, <1>4

\* ListSlots answers with slots that are stored.
LEMMA ListSlotsEffect ==
  ASSUME Inv, NEW r \in Rpc, ListSlots(r)
  PROVE  Effect(r)
<1> DEFINE found == InWindow(Req(r).courier, Req(r).from, Req(r).to)
<1>1. CASE ~Exists(Req(r).courier)
  BY <1>1, CallKnown, AnswerEffect, Zenon DEF ListSlots, Refuse, duty, Stored, Stores
<1>2. CASE Exists(Req(r).courier)
  <2> DEFINE read == [rpc[r] EXCEPT !.slots = found]
             s == Answer(read, "OK")
  <2>1. rpc' = [rpc EXCEPT ![r] = s]
    BY <1>2 DEF ListSlots, Become
  <2>2. found \subseteq slots
    BY DEF InWindow
  <2> HIDE DEF found
  <2>3. /\ DOMAIN read = DOMAIN Idle /\ read.slots = found /\ read.zones = rpc[r].zones
    BY CallKnown DEF Idle
  <2> HIDE DEF read
  <2>4. /\ CallFits(s) /\ s.pc = "answered" /\ s.left = <<>>
        /\ s.zones = rpc[r].zones /\ s.slots = found
    BY <2>3, AnswerFits
  <2> HIDE DEF s
  <2>5. Moved(r, s)
    BY <2>1, <2>2, <2>4 DEF Moved
  <2> QED  BY <2>5, CallKnown, Zenon DEF Effect, ListSlots, duty, Stored, Stores
<1> QED  BY <1>1, <1>2

\* SubmitRating refuses or stores the rating.
LEMMA SubmitRatingEffect ==
  ASSUME Inv, NEW r \in Rpc, SubmitRating(r)
  PROVE  Effect(r)
BY AnswerEffect, CallKnown, Zenon DEF SubmitRating, Stored, Rates, Stores, Refuse

\* GetRatingSummary stores nothing.
LEMMA GetRatingSummaryEffect ==
  ASSUME Inv, NEW r \in Rpc, GetRatingSummary(r)
  PROVE  Effect(r)
BY AnswerEffect, CallKnown, Zenon DEF GetRatingSummary, duty, Stored, Stores, Refuse

\* A failing operation stores what its step would have stored, or nothing, and
\* frees the rows of its call.
LEMMA StorageFailsEffect ==
  ASSUME Inv, NEW r \in Rpc, StorageFails(r)
  PROVE  Effect(r)
<1>1. backend = "postgres" /\ backend' = backend /\ faults' \in Nat
  <2>1. faults \in Nat
    BY CallKnown, Zenon DEF Stored
  <2> QED  BY <2>1 DEF StorageFails
<1>2. Stores(r)
  BY <1>1 DEF Stores, Creates, Saves, StorageFails, TakesSlot, Rates, At, Replaces
<1> QED  BY <1>2, CallKnown, AnswerEffect, Zenon DEF StorageFails, Refuse, Locks, Stored

\* Every step of the specification is one of these.
LEMMA NextEffect ==
  ASSUME Inv, Next
  PROVE  \E r \in Rpc : Effect(r)
<1>1. PICK r \in Rpc : (\E req \in Request : Call(r, req)) \/ Step(r) \/ StorageFails(r)
  BY DEF Next
<1>2. CASE \E req \in Request : Call(r, req)
  BY <1>2, CallEffect
<1>3. CASE Step(r)
  BY <1>3, CreateEffect, SaveEffect, GetEffect, ReplaceZonesMemoryEffect, BeginZonesEffect,
     CommitZonesEffect, ListByZoneEffect, ListZonesEffect, CreateSlotMemoryEffect,
     BeginSlotEffect, CommitSlotEffect, ListSlotsEffect, SubmitRatingEffect,
     GetRatingSummaryEffect DEF Step
<1>4. CASE StorageFails(r)
  BY <1>4, StorageFailsEffect
<1> QED  BY <1>1, <1>2, <1>3, <1>4

-----------------------------------------------------------------------------
(* What is stored.                                                         *)

\* Create stores a courier that was not there, with a phone no other has.
LEMMA CreatesCourier ==
  ASSUME Inv, NEW r \in Rpc, Creates(r)
  PROVE  \E c \in CourierId, p \in Phone, v \in VehicleType, n \in Nat :
           /\ ~Exists(c) /\ resaved' = resaved
           /\ courier' = [courier EXCEPT ![c] = [phone |-> p, vehicle |-> v, since |-> n]]
           /\ backend = "memory" => index[p] \in {"", c} /\ index' = [index EXCEPT ![p] = c]
           /\ backend # "memory" => ~Taken(p, c) /\ index' = index
<1> DEFINE req == Req(r)
           c == req.courier
           p == NormalizePhone(req.phone)
           n == Cardinality({d \in CourierId : Exists(d)})
<1>1. c \in CourierId /\ req.phone \in DOMAIN PhoneOf
  BY AtStep, RequestFits, Zenon DEF Creates, PC, Req
<1>2. CourierError(req) = "ok" /\ ~Exists(c)
  BY Zenon DEF Creates, CreateError, CreateErrorMemory, CreateErrorPostgres
<1>3. p \in Phone /\ req.vehicle \in VehicleType
  BY <1>1, <1>2, CourierDomainAssumption, Zenon DEF CourierError, NormalizePhone
<1>4. n \in Nat
  BY CallKnown, FS_CardinalityType, Zenon DEF Stored, Registered
<1>5. courier' = [courier EXCEPT ![c] = [phone |-> p, vehicle |-> req.vehicle, since |-> n]]
  BY DEF Creates, Created
<1>6. backend = "memory" => index[p] \in {"", c} /\ index' = [index EXCEPT ![p] = c]
  BY <1>2, Zenon DEF Creates, CreateError, CreateErrorMemory
<1>7. backend # "memory" => ~Taken(p, c) /\ index' = index
  BY <1>2 DEF Creates, CreateError, CreateErrorPostgres
<1> HIDE DEF req, c, p, n
<1> QED  BY <1>1, <1>2, <1>3, <1>4, <1>5, <1>6, <1>7, Zenon DEF Creates

\* Save changes a courier that is there, whose row no transaction has locked.
LEMMA SavesCourier ==
  ASSUME Inv, NEW r \in Rpc, Saves(r)
  PROVE  \E c \in CourierId, p \in Phone, v \in VehicleType :
           /\ Exists(c) /\ lock[c] = 0
           /\ courier' = [courier EXCEPT ![c] = [phone |-> p, vehicle |-> v, since |-> courier[c].since]]
           /\ resaved' = IF courier[c].vehicle = v THEN resaved ELSE resaved \cup {c}
           /\ backend = "memory" => index[p] \in {"", c} /\ index' = SavedIndex(c, p)
           /\ backend # "memory" => ~Taken(p, c) /\ index' = index
<1> DEFINE req == Req(r)
           c == req.courier
           p == NormalizePhone(req.phone)
<1>1. c \in CourierId /\ req.phone \in DOMAIN PhoneOf
  BY AtStep, RequestFits, Zenon DEF Saves, PC, Req
<1>2. CourierError(req) = "ok" /\ Exists(c)
  BY Zenon DEF Saves, SaveError, SaveErrorMemory, SaveErrorPostgres
<1>3. p \in Phone /\ req.vehicle \in VehicleType
  BY <1>1, <1>2, CourierDomainAssumption, Zenon DEF CourierError, NormalizePhone
<1>4. courier' = [courier EXCEPT ![c] = [phone |-> p, vehicle |-> req.vehicle, since |-> courier[c].since]]
  BY DEF Saves, Saved
<1>5. backend = "memory" => index[p] \in {"", c} /\ index' = SavedIndex(c, p)
  BY <1>2, Zenon DEF Saves, SaveError, SaveErrorMemory
<1>6. backend # "memory" => ~Taken(p, c) /\ index' = index
  BY <1>2 DEF Saves, SaveError, SaveErrorPostgres
<1>7. lock[c] = 0 /\ resaved' = IF courier[c].vehicle = req.vehicle THEN resaved ELSE resaved \cup {c}
  BY DEF Saves, Resaved, RowFree
<1> HIDE DEF req, c, p
<1> QED  BY <1>1, <1>2, <1>3, <1>4, <1>5, <1>6, <1>7, Zenon

\* A courier that exists has a phone.
LEMMA PhoneOfCourier ==
  ASSUME Inv, NEW c \in CourierId
  PROVE  /\ Exists(c) => courier[c] \in Profile /\ courier[c].phone \in Phone
         /\ ~Exists(c) => courier[c].phone = ""
<1>1. ~Exists(c) => courier[c].phone = ""
  <2>1. NoCourier.phone = ""
    BY DEF NoCourier
  <2> QED  BY <2>1, Zenon DEF Exists
<1> QED  BY <1>1, CallKnown, Zenon DEF Exists, Inv, Stored, Profile

\* One primary zone at most, and more than one zone only where ZonesError allows it.
LEMMA PreparedZones ==
  ASSUME NEW inputs \in Seq(ZoneInput), NEW vehicle,
         ZonesError(inputs, vehicle) = "ok"
  PROVE  LET zs == prepareZones(inputs)
         IN  zs \in Zones /\ OneIsPrimary(zs) /\ FewZones(zs, vehicle)
<1> DEFINE ids == Ids(inputs)
           prim == Primaries(inputs)
           zs == prepareZones(inputs)
<1>1. /\ inputs # <<>> /\ (Len(inputs) > 1 => AllowsMultipleZones(vehicle))
      /\ "" \notin Range(ids) /\ ~(Cardinality(prim) > 1)
  BY Zenon DEF ZonesError
<1>2. Len(inputs) \in Nat \ {0} /\ DOMAIN inputs = 1 .. Len(inputs)
  <2>1. inputs # <<>>
    BY <1>1, Zenon
  <2> QED  BY <2>1
<1>3. \A i \in 1 .. Len(inputs) : ids[i] \in Zone
  <2> SUFFICES ASSUME NEW i \in 1 .. Len(inputs) PROVE ids[i] \in Zone
    OBVIOUS
  <2>1. inputs[i] \in ZoneInput
    BY <1>2
  <2> QED
    BY <1>1, <1>2, <2>1, CourierDomainAssumption, Zenon DEF Ids, NormalizeZoneID, ZoneInput,
       Range
<1>4. prim \subseteq 1 .. Len(inputs) /\ IsFiniteSet(prim)
  <2>1. IsFiniteSet(1 .. Len(inputs))
    BY <1>2, FS_Interval
  <2> QED  BY <1>2, <2>1, FS_Subset DEF Primaries
<1>5. prim = {} \/ \E i \in 1 .. Len(inputs) : prim = {i}
  <2>1. ~(Cardinality(prim) > 1)
    BY <1>1, Zenon
  <2> QED  BY <1>4, <2>1, FS_CardinalityType, FS_EmptySet, FS_Singleton
<1>6. zs.all = {ids[i] : i \in 1 .. Len(inputs)}
  BY <1>2 DEF prepareZones, Ids, Range
<1>7. zs.primary = IF prim = {} THEN {ids[1]} ELSE {ids[i] : i \in prim}
  BY DEF prepareZones
<1>8. zs = [all |-> zs.all, primary |-> zs.primary]
  BY DEF prepareZones
<1> HIDE DEF zs, ids, prim
<1>9. \E i \in 1 .. Len(inputs) : zs.primary = {ids[i]}
  BY <1>2, <1>5, <1>7
<1>10. Cardinality(zs.primary) = 1
  BY <1>9, FS_Singleton, Zenon
<1>11. Cardinality(zs.all) > 1 => Len(inputs) > 1
  <2>1. SUFFICES ASSUME Len(inputs) = 1 PROVE ~(Cardinality(zs.all) > 1)
    BY <1>2
  <2>2. zs.all = {ids[1]}
    BY <1>6, <2>1
  <2>3. Cardinality(zs.all) = 1
    BY <2>2, FS_Singleton, Zenon
  <2> QED  BY <2>3
<1> QED
  BY <1>1, <1>3, <1>6, <1>8, <1>9, <1>10, <1>11, Zenon DEF zs, Zones, OneIsPrimary, FewZones

\* ReplaceZones stores zones that fit the vehicle of now, and in memory only
\* where there is room.
LEMMA ReplacesZones ==
  ASSUME Inv, NEW r \in Rpc, Replaces(r)
  PROVE  \E c \in CourierId, zs \in Zones :
           /\ Exists(c) /\ zones' = [zones EXCEPT ![c] = zs]
           /\ OneIsPrimary(zs) /\ FewZones(zs, courier[c].vehicle)
           /\ backend = "memory" => \A z \in zs.all \ zones[c].all : ~Full(z, c)
           /\ UNCHANGED profile
<1> DEFINE c == Req(r).courier
           inputs == Req(r).zones
           zs == prepareZones(inputs)
<1>1. /\ CallFits(rpc[r]) /\ Running(rpc[r]) /\ rpc[r].pc \in {"zones", "commitzones"}
      /\ Req(r) = rpc[r].req
  BY AtStep DEF Replaces, PC, Req
<1>2. c \in CourierId /\ inputs \in Seq(ZoneInput)
  BY <1>1, RequestFits, Zenon
<1>3. Exists(c)
  BY <1>1, CallKnown DEF Answered
<1>4. zs \in Zones /\ OneIsPrimary(zs) /\ FewZones(zs, courier[c].vehicle)
  BY <1>1, <1>2, PreparedZones DEF Replaces, ReplaceError, At, Inv, Held
<1>5. backend = "memory" => \A z \in zs.all \ zones[c].all : ~Full(z, c)
  BY <1>1, Zenon DEF Inv, Held, At, Replaces, ReplaceError, CapacityErrorMemory
<1>6. zones' = [zones EXCEPT ![c] = zs] /\ UNCHANGED profile
  BY DEF Replaces
<1> HIDE DEF c, zs
<1> QED  BY <1>2, <1>3, <1>4, <1>5, <1>6, Zenon

-----------------------------------------------------------------------------
(* The conjuncts of the invariant, one by one.                             *)

\* A record with a phone is a courier.
LEMMA RecordExists ==
  ASSUME NEW p \in Phone, NEW v \in VehicleType, NEW n \in Nat
  PROVE  /\ [phone |-> p, vehicle |-> v, since |-> n] \in Profile
         /\ [phone |-> p, vehicle |-> v, since |-> n] # NoCourier
BY CourierDomainAssumption, Zenon DEF Profile, NoCourier

\* Create or Save of courier c with phone p and vehicle v.
StoresCourier(c, p, v, a) ==
  /\ a \in Profile /\ a.phone = p /\ a.vehicle = v /\ a # NoCourier
  /\ courier' = [courier EXCEPT ![c] = a]
  /\ ~Exists(c) => resaved' = resaved
  /\ Exists(c) => /\ lock[c] = 0
                  /\ resaved' = IF courier[c].vehicle = v THEN resaved ELSE resaved \cup {c}
  /\ backend = "memory" =>
       /\ index[p] \in {"", c}
       /\ index' = IF Exists(c) THEN SavedIndex(c, p) ELSE [index EXCEPT ![p] = c]
  /\ backend # "memory" => ~Taken(p, c) /\ index' = index

\* Create and Save are the steps that change couriers (memory and PostgreSQL).
LEMMA ProfileCases ==
  ASSUME Inv, NEW r \in Rpc, Effect(r), ~UNCHANGED profile
  PROVE  \E c \in CourierId, p \in Phone, v \in VehicleType, a \in Profile : StoresCourier(c, p, v, a)
<1>1. CASE Creates(r)
  <2>1. PICK c \in CourierId, p \in Phone, v \in VehicleType, n \in Nat :
           /\ ~Exists(c) /\ resaved' = resaved
           /\ courier' = [courier EXCEPT ![c] = [phone |-> p, vehicle |-> v, since |-> n]]
           /\ backend = "memory" => index[p] \in {"", c} /\ index' = [index EXCEPT ![p] = c]
           /\ backend # "memory" => ~Taken(p, c) /\ index' = index
    BY <1>1, CreatesCourier, Zenon
  <2> DEFINE a == [phone |-> p, vehicle |-> v, since |-> n]
  <2>2. a \in Profile /\ a # NoCourier /\ a.phone = p /\ a.vehicle = v
    BY RecordExists
  <2>3. courier' = [courier EXCEPT ![c] = a]
    BY <2>1, Zenon
  <2> HIDE DEF a
  <2>4. StoresCourier(c, p, v, a)
    BY <2>1, <2>2, <2>3, Zenon DEF StoresCourier
  <2> QED  BY <2>2, <2>4
<1>2. CASE Saves(r)
  <2>1. PICK c \in CourierId, p \in Phone, v \in VehicleType :
           /\ Exists(c) /\ lock[c] = 0
           /\ courier' = [courier EXCEPT ![c] = [phone |-> p, vehicle |-> v, since |-> courier[c].since]]
           /\ resaved' = IF courier[c].vehicle = v THEN resaved ELSE resaved \cup {c}
           /\ backend = "memory" => index[p] \in {"", c} /\ index' = SavedIndex(c, p)
           /\ backend # "memory" => ~Taken(p, c) /\ index' = index
    BY <1>2, SavesCourier, Zenon
  <2> DEFINE a == [phone |-> p, vehicle |-> v, since |-> courier[c].since]
  <2>2. a \in Profile /\ a # NoCourier /\ a.phone = p /\ a.vehicle = v
    BY <2>1, PhoneOfCourier, RecordExists, Zenon DEF Profile
  <2>3. courier' = [courier EXCEPT ![c] = a]
    BY <2>1, Zenon
  <2> HIDE DEF a
  <2>4. StoresCourier(c, p, v, a)
    BY <2>1, <2>2, <2>3, Zenon DEF StoresCourier
  <2> QED  BY <2>2, <2>4
<1> QED  BY <1>1, <1>2 DEF Effect, Stores

\* Couriers stay, and one whose row is locked stays as it is.
LEMMA CouriersKept ==
  ASSUME Inv, NEW r \in Rpc, Effect(r)
  PROVE  \A c \in CourierId : Exists(c) =>
           /\ courier'[c] # NoCourier
           /\ lock[c] # 0 => courier'[c] = courier[c]
           /\ c \in resaved => c \in resaved'
           /\ c \notin resaved' => courier'[c].vehicle = courier[c].vehicle
<1>1. CASE UNCHANGED profile
  BY <1>1 DEF profile, Exists
<1>2. CASE ~UNCHANGED profile
  <2>1. PICK c \in CourierId, p \in Phone, v \in VehicleType, a \in Profile : StoresCourier(c, p, v, a)
    BY <1>2, ProfileCases
  <2> QED  BY <2>1, CallKnown, Zenon DEF StoresCourier, Exists, Stored
<1> QED  BY <1>1, <1>2

\* The tables keep their types.
LEMMA NextStored ==
  ASSUME Inv, NEW r \in Rpc, Effect(r)
  PROVE  Stored'
<1>1. Stored
  BY CallKnown
<1>2. CASE UNCHANGED profile
  BY <1>1, <1>2, ReplacesZones, Zenon DEF profile, Registered, Exists, Stored, Effect,
     Stores, Locks
<1>3. CASE ~UNCHANGED profile
  <2>1. PICK c \in CourierId, p \in Phone, v \in VehicleType, a \in Profile : StoresCourier(c, p, v, a)
    BY <1>3, ProfileCases
  <2>2. index' \in [Phone -> CourierId \cup {""}]
    BY <1>1, <2>1, Zenon DEF StoresCourier, Stored, SavedIndex
  <2>3. IsFiniteSet(Registered')
    <3>1. Registered' = Registered \cup {c}
      BY <1>1, <2>1, Zenon DEF StoresCourier, Registered, Exists, Stored
    <3> QED  BY <1>1, <3>1, FS_AddElement, Zenon DEF Stored
  <2> QED
    BY <1>1, <2>1, <2>2, <2>3, ReplacesZones, Zenon DEF Stored, Effect, Stores, Locks,
       StoresCourier
<1> QED  BY <1>2, <1>3

\* The phones: a new phone belongs to nobody else, in the index or the table.
LEMMA NextPhones ==
  ASSUME Inv, NEW r \in Rpc, Effect(r)
  PROVE  PhonesUnique'
<1>1. Stored /\ PhonesUnique
  BY DEF Inv
<1>2. CASE UNCHANGED profile
  BY <1>1, <1>2 DEF profile, PhonesUnique, Exists, Effect, Stores
<1>3. CASE ~UNCHANGED profile
  <2>1. PICK c \in CourierId, p \in Phone, v \in VehicleType, a \in Profile : StoresCourier(c, p, v, a)
    BY <1>3, ProfileCases
  <2>2. /\ \A d \in CourierId : courier'[d].phone = IF d = c THEN p ELSE courier[d].phone
        /\ index \in [Phone -> CourierId \cup {""}]
    BY <1>1, <2>1, Zenon DEF StoresCourier, Stored
  <2>3. p # "" /\ "" \notin CourierId /\ "" \notin Phone
    BY CourierAssumption, CourierDomainAssumption, Zenon
  <2>4. \A d \in CourierId : d # c => courier[d].phone # p
    <3>1. CASE backend = "memory"
      <4>1. \A d \in CourierId : index[p] = d <=> courier[d].phone = p
        BY <1>1, <3>1 DEF PhonesUnique
      <4> QED  BY <2>1, <2>3, <3>1, <4>1, Zenon DEF StoresCourier
    <3>2. CASE backend # "memory"
      BY <2>1, <3>2, Zenon DEF StoresCourier, Taken
    <3> QED  BY <3>1, <3>2
  <2>5. \A d, e \in CourierId : Exists(d)' /\ Exists(e)' /\ courier'[d].phone = courier'[e].phone => d = e
    <3>1. \A d, e \in CourierId : courier[d].phone = courier[e].phone /\ courier[d].phone # "" => d = e
      BY <1>1, PhoneOfCourier, Zenon DEF PhonesUnique
    <3>2. \A d \in CourierId : Exists(d)' => courier'[d].phone # ""
      <4> SUFFICES ASSUME NEW d \in CourierId, Exists(d)' PROVE courier'[d].phone # ""
        BY Zenon
      <4>1. CASE d = c
        BY <2>2, <2>3, <4>1, Zenon
      <4>2. CASE d # c
        <5>1. courier'[d] = courier[d] /\ Exists(d)
          BY <1>1, <2>1, <4>2, Zenon DEF StoresCourier, Exists, Stored
        <5> QED  BY <2>3, <5>1, PhoneOfCourier, Zenon
      <4> QED  BY <4>1, <4>2, Zenon
    <3> QED  BY <2>2, <2>4, <3>1, <3>2, Zenon
  <2>6. ASSUME backend = "memory", NEW q \in Phone, NEW d \in CourierId
        PROVE  index'[q] = d <=> courier'[d].phone = q
    <3>1. \A e \in CourierId : index[q] = e <=> courier[e].phone = q
      BY <1>1, <2>6 DEF PhonesUnique
    <3>2. CASE ~Exists(c)
      <4>1. index'[q] = IF q = p THEN c ELSE index[q]
        BY <2>1, <2>2, <2>6, <3>2, Zenon DEF StoresCourier
      <4>2. courier[c].phone = ""
        BY <3>2, PhoneOfCourier, Zenon
      <4> QED  BY <2>2, <2>3, <2>4, <3>1, <4>1, <4>2, Zenon
    <3>3. CASE Exists(c)
      <4>1. courier[c].phone \in Phone /\ index[courier[c].phone] = c
        <5>1. \A x \in Phone, e \in CourierId : index[x] = e <=> courier[e].phone = x
          BY <1>1, <2>6 DEF PhonesUnique
        <5> QED  BY <3>3, <5>1, PhoneOfCourier, Zenon
      <4>2. index'[q] = IF courier[c].phone = p THEN index[q]
                        ELSE IF q = p THEN c
                        ELSE IF q = courier[c].phone THEN "" ELSE index[q]
        BY <2>1, <2>2, <2>6, <3>3, <4>1, Zenon DEF StoresCourier, SavedIndex
      <4> QED  BY <2>2, <2>3, <2>4, <3>1, <4>1, <4>2, Zenon
    <3> QED  BY <3>2, <3>3
  <2> QED  BY <2>5, <2>6 DEF PhonesUnique, Effect, Stores
<1> QED  BY <1>2, <1>3

\* The calls other than the one that moves stay as they are.
LEMMA OtherCalls ==
  ASSUME Inv, NEW r \in Rpc, NEW s, Moved(r, s)
  PROVE  /\ DOMAIN rpc' = Rpc /\ rpc'[r] = s
         /\ \A q \in Rpc \ {r} : rpc'[q] = rpc[q]
BY CallKnown DEF Calls, Moved

\* The calls keep fitting their steps.
LEMMA NextCalls ==
  ASSUME Inv, NEW r \in Rpc, Effect(r)
  PROVE  Calls'
BY CallKnown, OtherCalls DEF Effect, Moved, Calls

\* The slot a step adds does not overlap one that is there, and the courier
\* has a car if it is a night slot.
LEMMA NewSlot ==
  ASSUME Inv, NEW r \in Rpc, TakesSlot(r)
  PROVE  /\ slots' = slots \cup {Slot(Req(r))}
         /\ Req(r).courier \in CourierId
         /\ NightError(Req(r)) = "ok" /\ ~Overlaps(Req(r))
         /\ backend # "memory" => lock[Req(r).courier] = r
BY CallKnown, RequestFits, Zenon DEF TakesSlot, At, Running, PC, Req, Inv, Held

\* A slot has the times of its request.
LEMMA SlotFields ==
  ASSUME NEW req
  PROVE  /\ SlotError(Slot(req)) = SlotError(req)
         /\ IsNightShiftSlot(Slot(req)) = IsNightShiftSlot(req)
         /\ Slot(req).courier = req.courier /\ Slot(req).vehicle = courier[req.courier].vehicle
         /\ Slot(req).start = req.start /\ Slot(req).end = req.end
BY DEF Slot, SlotError, IsNightShiftSlot

\* Slots do not overlap and night slots have cars: CreateSlot of memory checks
\* in the same step, that of PostgreSQL checked under the lock (Held).
LEMMA NextSlots ==
  ASSUME Inv, NEW r \in Rpc, Effect(r)
  PROVE  SlotsFit' /\ SlotsConsistent'
<1>1. SlotsFit /\ SlotsConsistent
  BY DEF Inv
<1>2. PICK s : Moved(r, s)
  BY DEF Effect
<1>3. slots \subseteq slots'
  BY NewSlot DEF Effect, Stores
<1>4. \A q \in Rpc : rpc'[q].slots \subseteq slots'
  BY <1>1, <1>2, <1>3, OtherCalls DEF Moved, SlotsConsistent
<1>5. CASE UNCHANGED slots
  BY <1>1, <1>4, <1>5 DEF SlotsFit, SlotsConsistent
<1>6. CASE TakesSlot(r)
  BY <1>1, <1>4, <1>6, NewSlot, SlotFields DEF NightError, Overlaps, intervalsOverlap,
     SlotsFit, SlotsConsistent
<1> QED  BY <1>5, <1>6 DEF Effect, Stores

\* What a transaction found under its lock stays true while others step.
LEMMA HeldByOther ==
  ASSUME Inv, NEW r \in Rpc, Effect(r), NEW q \in Rpc, q # r, rpc'[q] = rpc[q]
  PROVE  Held(q)'
<1> DEFINE c == Req(q).courier
<1>1. Req(q)' = Req(q) /\ \A label : At(q, label)' = At(q, label)
  BY DEF Req, At
<1>2. Held(q) /\ backend' = backend
  BY DEF Inv, Effect, Stores
<1>3. CASE rpc[q].pc \notin {"commitslot", "commitzones"}
  BY <1>3 DEF Held, At
<1>4. CASE rpc[q].pc \in {"commitslot", "commitzones"}
  <2>1. c \in CourierId /\ backend = "postgres" /\ lock[c] = q
    <3>1. CallFits(rpc[q]) /\ Running(rpc[q])
      BY <1>4, CallKnown DEF Running, PC
    <3> QED  BY <1>2, <1>4, <3>1, RequestFits, Zenon DEF Held, Req
  <2>2. lock[c] \notin {0, r}
    BY <2>1 DEF Rpc
  <2>3. lock'[c] = q
    BY <2>1, <2>2 DEF Effect, Locks
  <2>4. Exists(c)
    <3>1. CASE At(q, "commitslot")
      BY <1>2, <3>1 DEF Held, NightError
    <3>2. CASE At(q, "commitzones")
      BY <3>2, CallKnown DEF Answered, At, Req
    <3> QED  BY <1>4, <3>1, <3>2 DEF At
  <2>5. courier'[c] = courier[c]
    BY <2>1, <2>2, <2>4, CouriersKept
  <2>6. At(q, "commitslot") => (NightError(Req(q)) = "ok")' /\ ~Overlaps(Req(q))'
    <3>1. SUFFICES ASSUME At(q, "commitslot")
                   PROVE  (NightError(Req(q)) = "ok")' /\ ~Overlaps(Req(q))'
      OBVIOUS
    <3>2. NightError(Req(q)) = "ok" /\ ~Overlaps(Req(q))
      BY <1>2, <3>1 DEF Held
    <3>3. (NightError(Req(q)) = "ok")'
      BY <1>1, <2>5, <3>2 DEF NightError, Exists
    <3>4. \A x \in slots' : x.courier = c => x \in slots
      <4>1. CASE UNCHANGED slots
        BY <4>1
      <4>2. CASE TakesSlot(r)
        <5>1. slots' = slots \cup {Slot(Req(r))} /\ lock[Req(r).courier] = r
          BY <2>1, <4>2, NewSlot
        <5>2. Slot(Req(r)).courier = Req(r).courier
          BY SlotFields
        <5> QED  BY <2>2, <5>1, <5>2
      <4> QED  BY <4>1, <4>2 DEF Effect, Stores
    <3>5. ~Overlaps(Req(q))'
      BY <1>1, <3>2, <3>4 DEF Overlaps
    <3> QED  BY <3>3, <3>5
  <2>7. At(q, "commitzones") =>
          ZonesError(Req(q).zones, courier[c].vehicle)' = "ok"
    BY <1>1, <1>2, <2>5 DEF Held
  <2> QED  BY <1>1, <1>2, <2>1, <2>3, <2>6, <2>7 DEF Held
<1> QED  BY <1>3, <1>4

\* A transaction begins with what Held says, and keeps it (HeldByOther).
LEMMA NextHeld ==
  ASSUME Inv, NEW r \in Rpc, Effect(r)
  PROVE  \A q \in Rpc : Held(q)'
<1>1. PICK s : Moved(r, s)
  BY DEF Effect
<1>2. rpc'[r] = s /\ \A q \in Rpc \ {r} : rpc'[q] = rpc[q]
  BY <1>1, OtherCalls
<1>3. Held(r)'
  <2>1. CASE s.pc \notin {"commitslot", "commitzones"}
    BY <1>2, <2>1 DEF Held, At
  <2>2. CASE s.pc \in {"commitslot", "commitzones"}
    <3>1. /\ backend = "postgres" /\ backend' = backend /\ UNCHANGED <<courier, slots>>
          /\ lock' = [lock EXCEPT ![s.req.courier] = r]
          /\ s.pc = "commitslot" => NightError(s.req) = "ok" /\ ~Overlaps(s.req)
          /\ s.pc = "commitzones" => ZonesError(s.req.zones, courier[s.req.courier].vehicle) = "ok"
      BY <1>1, <2>2 DEF Moved, Effect, Stores
    <3>2. At(r, "commitslot")' => (NightError(Req(r)) = "ok")' /\ ~Overlaps(Req(r))'
      BY <1>2, <3>1 DEF NightError, Exists, Overlaps, Req, At
    <3> QED
      BY <1>1, <1>2, <2>2, <3>1, <3>2, RequestFits, CallKnown, Zenon DEF Held, Stored,
         Moved, Running, PC, Req, At
  <2> QED  BY <2>1, <2>2
<1> QED  BY <1>2, <1>3, HeldByOther

\* A rating that is stored passed the checks of SubmitRating.
LEMMA NextRatings ==
  ASSUME Inv, NEW r \in Rpc, Effect(r)
  PROVE  RatingsFit'
<1>1. CASE UNCHANGED ratings
  BY <1>1 DEF RatingsFit, Inv
<1>2. CASE Rates(r)
  <2> DEFINE req == Req(r)
             g == Rating(req)
  <2>1. req.courier \in CourierId /\ req.tags \in Seq(STRING)
    BY <1>2, AtStep, RequestFits, Zenon DEF Rates, PC, Req
  <2>2. RatingError(req) = "ok" /\ ratings' = ratings \cup {g}
    BY <1>2 DEF Rates, SubmitError
  <2>3. g.courier = req.courier /\ g.tags = req.tags /\ g.score = req.score
    BY DEF Rating
  <2> HIDE DEF g
  <2> QED  BY <2>1, <2>2, <2>3, FS_AddElement DEF RatingsFit, RatingError, Inv
<1> QED  BY <1>1, <1>2 DEF Effect, Stores

\* A courier more in a zone with room, and a courier less.
LEMMA NextZones ==
  ASSUME Inv, NEW r \in Rpc, Effect(r)
  PROVE  ZonesKept' /\ MemoryZoneCapacity'
<1>1. /\ ZonesKept /\ MemoryZoneCapacity /\ zones \in [CourierId -> Zones]
      /\ backend' = backend
  BY CallKnown, Zenon DEF Inv, Stored, Effect, Stores
<1>2. CASE UNCHANGED zones
  BY <1>1, <1>2, CouriersKept DEF InZone, ZonesKept, Exists, MemoryZoneCapacity,
     ZoneCapacity
<1>3. CASE Replaces(r)
  <2>1. PICK c \in CourierId, zs \in Zones :
           /\ Exists(c) /\ zones' = [zones EXCEPT ![c] = zs]
           /\ backend = "memory" => \A z \in zs.all \ zones[c].all : ~Full(z, c)
    BY <1>3, ReplacesZones
  <2>2. \A z : InZone(z)' = IF z \in zs.all THEN InZone(z) \cup {c} ELSE InZone(z) \ {c}
    BY <1>1, <2>1 DEF InZone
  <2>3. ASSUME NEW z \in Zone
        PROVE  /\ IsFiniteSet(InZone(z)')
               /\ backend = "memory" => Cardinality(InZone(z)') <= MaxCouriersPerZone
    <3>1. IsFiniteSet(InZone(z)) /\ Cardinality(InZone(z)) \in Nat
      BY <1>1, FS_CardinalityType DEF ZonesKept
    <3>2. MaxCouriersPerZone \in Nat
      BY CourierAssumption, Zenon
    <3>3. CASE z \notin zs.all
      BY <1>1, <2>2, <3>1, <3>2, <3>3, FS_CardinalityType, FS_Subset DEF MemoryZoneCapacity,
         ZoneCapacity
    <3>4. CASE z \in zs.all /\ c \in InZone(z)
      BY <1>1, <2>2, <3>1, <3>4, Zenon DEF MemoryZoneCapacity, ZoneCapacity
    <3>5. CASE z \in zs.all /\ c \notin InZone(z)
      <4>1. InZone(z)' = InZone(z) \cup {c} /\ InZone(z) \ {c} = InZone(z)
        BY <2>2, <3>5
      <4>2. IsFiniteSet(InZone(z) \cup {c}) /\ Cardinality(InZone(z) \cup {c}) = Cardinality(InZone(z)) + 1
        BY <3>1, <3>5, FS_AddElement
      <4>3. backend = "memory" => ~(Cardinality(InZone(z)) >= MaxCouriersPerZone)
        BY <2>1, <3>5, <4>1 DEF Full, InZone
      <4> QED  BY <3>1, <3>2, <4>1, <4>2, <4>3
    <3> QED  BY <3>3, <3>4, <3>5
  <2> QED
    BY <1>1, <2>1, <2>3, CouriersKept DEF ZonesKept, Exists, MemoryZoneCapacity,
       ZoneCapacity
<1> QED  BY <1>2, <1>3 DEF Effect, Stores

\* Couriers are never deleted, so answers go on to name couriers that exist.
LEMMA NextAnswered ==
  ASSUME Inv, NEW r \in Rpc, Effect(r)
  PROVE  \A q \in Rpc : Answered(rpc[q])'
<1>1. PICK s : Moved(r, s)
  BY DEF Effect
<1>2. Registered \subseteq Registered' /\ \A c \in CourierId : Exists(c) => Exists(c)'
  BY CouriersKept DEF Registered, Exists
<1>3. Seq(Registered) \subseteq Seq(Registered')
  BY <1>2
<1>4. Answered(rpc[r])'
  BY <1>1, <1>2, <1>3, OtherCalls, CallKnown, Zenon DEF Moved, Exists, Answered
<1>5. ASSUME NEW q \in Rpc, q # r PROVE Answered(rpc[q])'
  BY <1>1, <1>2, <1>3, <1>5, OtherCalls, CallKnown, RequestFits, Zenon DEF Running, PC,
     Answered, Exists
<1> QED  BY <1>4, <1>5

\* ZonesFit after the step, of zones read before or after it.
FitsNext(c, zs) == OneIsPrimary(zs) /\ (c \notin resaved' => FewZones(zs, courier'[c].vehicle))

\* Zones that fit go on to fit: only Save gives a courier another vehicle.
LEMMA FitKept ==
  ASSUME Inv, NEW r \in Rpc, Effect(r), NEW c \in CourierId, Exists(c), NEW zs, ZonesFit(c, zs)
  PROVE  FitsNext(c, zs)
BY CouriersKept DEF ZonesFit, FitsNext

\* The zones stored and the zones in answers have one primary zone.
LEMMA NextOnePrimary ==
  ASSUME Inv, NEW r \in Rpc, Effect(r)
  PROVE  OnePrimaryZone'
<1>1. OnePrimaryZone /\ ZonesKept /\ zones \in [CourierId -> Zones]
  BY CallKnown, Zenon DEF Inv, Stored
<1>2. PICK s : Moved(r, s)
  BY DEF Effect
<1>3. rpc'[r] = s /\ \A q \in Rpc \ {r} : rpc'[q] = rpc[q]
  BY <1>2, OtherCalls
<1>4. \A q \in Rpc : DOMAIN rpc[q].zones \subseteq Registered
  BY DEF Inv, Answered
<1>5. \A c \in Registered : \A zs : ZonesFit(c, zs) => FitsNext(c, zs)
  BY FitKept DEF Registered
<1>6. \A q \in Rpc : \A c \in DOMAIN rpc'[q].zones : FitsNext(c, rpc'[q].zones[c])
  <2>1. ASSUME NEW q \in Rpc, NEW c \in DOMAIN rpc[q].zones PROVE ZonesFit(c, rpc[q].zones[c])
    BY <1>1 DEF OnePrimaryZone
  <2>2. \A q \in Rpc \ {r} : \A c \in DOMAIN rpc'[q].zones : FitsNext(c, rpc'[q].zones[c])
    BY <1>3, <1>4, <1>5, <2>1
  <2>3. ASSUME NEW c \in DOMAIN s.zones PROVE FitsNext(c, s.zones[c])
    <3>1. CASE c \in DOMAIN rpc[r].zones /\ s.zones[c] = rpc[r].zones[c]
      BY <1>4, <1>5, <2>1, <3>1
    <3>2. CASE c \in Registered /\ s.zones[c] = zones[c]
      <4>1. ZonesFit(c, zones[c])
        BY <1>1, <3>2 DEF OnePrimaryZone, Registered
      <4> QED  BY <1>5, <3>2, <4>1
    <3> QED  BY <1>2, <2>3, <3>1, <3>2 DEF Moved
  <2> QED  BY <1>3, <2>2, <2>3
<1>7. ASSUME NEW c \in CourierId, zones'[c] = zones[c] PROVE FitsNext(c, zones'[c])
  <2>1. CASE Exists(c)
    <3>1. ZonesFit(c, zones[c])
      BY <1>1 DEF OnePrimaryZone
    <3> QED  BY <1>5, <1>7, <2>1, <3>1 DEF Registered
  <2>2. CASE ~Exists(c)
    <3>1. zones'[c] = NoZones
      BY <1>1, <1>7, <2>2 DEF ZonesKept
    <3>2. OneIsPrimary(NoZones) /\ \A v : FewZones(NoZones, v)
      BY FS_EmptySet DEF OneIsPrimary, FewZones, NoZones
    <3> QED  BY <3>1, <3>2 DEF FitsNext
  <2> QED  BY <2>1, <2>2
<1>8. \A c \in CourierId : FitsNext(c, zones'[c])
  <2>1. CASE UNCHANGED zones
    BY <1>7, <2>1
  <2>2. CASE Replaces(r)
    <3>1. PICK c \in CourierId, zs \in Zones :
             /\ zones' = [zones EXCEPT ![c] = zs]
             /\ OneIsPrimary(zs) /\ FewZones(zs, courier[c].vehicle) /\ UNCHANGED profile
      BY <2>2, ReplacesZones
    <3>2. FitsNext(c, zs)
      BY <3>1 DEF FitsNext, profile
    <3>3. \A d \in CourierId : zones'[d] = IF d = c THEN zs ELSE zones[d]
      BY <1>1, <3>1
    <3> QED  BY <1>7, <3>2, <3>3
  <2> QED  BY <2>1, <2>2 DEF Effect, Stores
<1> QED  BY <1>6, <1>8 DEF OnePrimaryZone, ZonesFit, FitsNext

-----------------------------------------------------------------------------
(* Ratings.                                                                *)

\* In a set of ratings none of which has a tag twice, the places with a tag
\* are as many as the ratings with it.
LEMMA TagsOnce ==
  ASSUME NEW own, IsFiniteSet(own), \A g \in own : IsInjective(g.tags), NEW t
  PROVE  Cardinality(UNION {{g} \X {i \in DOMAIN g.tags : g.tags[i] = t} : g \in own})
           = Cardinality({g \in own : t \in Range(g.tags)})
<1> DEFINE S == {g \in own : t \in Range(g.tags)}
           T == UNION {{g} \X {i \in DOMAIN g.tags : g.tags[i] = t} : g \in own}
           at(g) == CHOOSE i \in DOMAIN g.tags : g.tags[i] = t
           f == [g \in S |-> <<g, at(g)>>]
<1>1. \A g \in S : <<g, at(g)>> \in T
  BY DEF Range
<1>2. \A p \in T : \E g \in S : p = <<g, at(g)>>
  BY DEF Range, IsInjective
<1> HIDE DEF at, T
<1>3. f \in [S -> T]
  BY <1>1
<1>4. \A g, h \in S : f[g] = f[h] => g = h
  OBVIOUS
<1>5. \A p \in T : \E g \in S : f[g] = p
  BY <1>2
<1> HIDE DEF f
<1>6. IsFiniteSet(S)
  BY FS_Subset
<1> HIDE DEF S
<1>7. Cardinality(T) = Cardinality(S)
  BY <1>3, <1>4, <1>5, <1>6, FS_Bijection DEF ExistsBijection, Bijection, Injection,
     Surjection, IsInjective
<1> QED  BY <1>7 DEF S, T

\* GetRatingSummary of both repositories, for ratings without repeated tags.
LEMMA RatingsAgree ==
  ASSUME RatingsFit
  PROVE  SummariesAgree
<1> SUFFICES ASSUME NEW c \in CourierId PROVE SummaryMemory(c) = SummaryPostgres(c)
  BY DEF SummariesAgree
<1> DEFINE own == {g \in ratings : g.courier = c}
<1>1. IsFiniteSet(own)
  BY FS_Subset DEF RatingsFit
<1> HIDE DEF own
<1> QED
  BY <1>1, TagsOnce, Zenon DEF SummaryMemory, SummaryPostgres, own, RatingsFit, RatingError

-----------------------------------------------------------------------------
(* The invariant.                                                          *)

\* The couriers registered before satisfy the invariant.
LEMMA InitHolds ==
  ASSUME Init
  PROVE  Inv
<1>1. \A c \in CourierId : courier[c] = IF c \in DOMAIN Known
        THEN [phone |-> Known[c].phone, vehicle |-> Known[c].vehicle, since |-> 0] ELSE NoCourier
  BY Zenon DEF Init
<1>2. \A c \in DOMAIN Known : /\ Known[c].phone \in Phone /\ Known[c].vehicle \in VehicleType
                              /\ Known[c].zones \in Zones
  BY CourierAssumption, Zenon
<1>3. \A c \in DOMAIN Known : /\ courier[c] \in Profile /\ courier[c] # NoCourier
                              /\ courier[c].phone = Known[c].phone /\ courier[c].vehicle = Known[c].vehicle
  <2> SUFFICES ASSUME NEW c \in DOMAIN Known
               PROVE  /\ courier[c] \in Profile /\ courier[c] # NoCourier
                      /\ courier[c].phone = Known[c].phone /\ courier[c].vehicle = Known[c].vehicle
    OBVIOUS
  <2>1. courier[c] = [phone |-> Known[c].phone, vehicle |-> Known[c].vehicle, since |-> 0]
    BY <1>1, CourierAssumption, Zenon
  <2> QED  BY <1>2, <2>1, RecordExists
<1>4. \A c \in CourierId : zones[c] = IF c \in DOMAIN Known THEN Known[c].zones ELSE NoZones
  BY Zenon DEF Init
<1>5. \A r \in Rpc : rpc[r] = Idle
  BY Zenon DEF Init
<1>6. Stored
  BY <1>1, <1>2, <1>3, CourierAssumption, Zenon DEF Init, NoZones, Zones, Stored,
     Registered, Exists
<1>7. Calls
  BY <1>5, Zenon DEF CallFits, Idle, Running, PC, Calls, Init
<1>8. PhonesUnique
  <2>1. \A c, d \in CourierId : Exists(c) /\ Exists(d) /\ courier[c].phone = courier[d].phone => c = d
    BY <1>1, <1>3, CourierAssumption, Zenon DEF Registered, Exists
  <2>2. ASSUME backend = "memory", NEW p \in Phone, NEW c \in CourierId
        PROVE  index[p] = c <=> courier[c].phone = p
    <3>1. courier[c].phone = IF c \in DOMAIN Known THEN Known[c].phone ELSE ""
      <4>1. NoCourier.phone = ""
        BY DEF NoCourier
      <4> QED  BY <1>1, <1>3, <4>1, Zenon
    <3>2. CASE \E d \in DOMAIN Known : Known[d].phone = p
      BY <2>2, <3>1, <3>2, CourierDomainAssumption, CourierAssumption, Zenon DEF Init
    <3>3. CASE ~\E d \in DOMAIN Known : Known[d].phone = p
      BY <3>1, <3>3, CourierDomainAssumption, CourierAssumption, Zenon DEF Init
    <3> QED  BY <3>2, <3>3
  <2> QED  BY <2>1, <2>2 DEF PhonesUnique
<1>9. \A r \in Rpc : Held(r) /\ rpc[r].slots \subseteq slots /\ Answered(rpc[r]) /\ DOMAIN rpc[r].zones = {}
  <2>1. /\ Idle.pc = "idle" /\ Idle.slots = {} /\ Idle.left = <<>> /\ Idle.zones = <<>>
    BY DEF Idle
  <2>2. Answered(Idle)
    BY <2>1 DEF Answered
  <2> QED  BY <1>5, <2>1, <2>2 DEF Held, At
<1>10. \A z \in Zone : /\ InZone(z) = {c \in DOMAIN Known : z \in Known[c].zones.all}
                       /\ IsFiniteSet(InZone(z)) /\ Cardinality(InZone(z)) <= MaxCouriersPerZone
  <2> SUFFICES ASSUME NEW z \in Zone
               PROVE  /\ InZone(z) = {c \in DOMAIN Known : z \in Known[c].zones.all}
                      /\ IsFiniteSet(InZone(z)) /\ Cardinality(InZone(z)) <= MaxCouriersPerZone
    OBVIOUS
  <2>1. z \notin NoZones.all
    BY DEF NoZones
  <2>2. InZone(z) = {c \in DOMAIN Known : z \in Known[c].zones.all}
    BY <1>4, <2>1, CourierAssumption, Zenon DEF InZone
  <2> QED  BY <2>2, FS_Subset, CourierAssumption, Zenon
<1>11. ZonesKept /\ MemoryZoneCapacity
  BY <1>3, <1>4, <1>10 DEF Exists, ZonesKept, MemoryZoneCapacity, ZoneCapacity
<1>12. OnePrimaryZone
  <2>1. ASSUME NEW c \in DOMAIN Known PROVE ZonesFit(c, zones[c])
    BY <1>3, <1>4, CourierAssumption, Zenon DEF ZonesFit
  <2>2. \A c \in CourierId \ DOMAIN Known : ZonesFit(c, zones[c])
    BY <1>4, FS_EmptySet DEF ZonesFit, OneIsPrimary, FewZones, NoZones
  <2> QED  BY <1>9, <2>1, <2>2 DEF OnePrimaryZone
<1> QED
  BY <1>6, <1>7, <1>8, <1>9, <1>11, <1>12, FS_EmptySet, Zenon DEF Inv, Init, SlotsFit,
     SlotsConsistent, RatingsFit

\* Every step keeps the invariant.
LEMMA NextInv ==
  ASSUME Inv, [Next]_vars
  PROVE  Inv'
<1>1. CASE Next
  <2>1. PICK r \in Rpc : Effect(r)
    BY <1>1, NextEffect
  <2>2. Stored' /\ Calls' /\ PhonesUnique' /\ SlotsFit' /\ SlotsConsistent' /\ RatingsFit'
    BY <2>1, NextStored, NextCalls, NextPhones, NextSlots, NextRatings
  <2> QED  BY <2>1, <2>2, NextZones, NextOnePrimary, NextHeld, NextAnswered DEF Inv
<1>2. CASE UNCHANGED vars
  <2>1. UNCHANGED <<backend, courier, index, zones, slots, ratings, lock, rpc, resaved, faults>>
    BY <1>2 DEF vars
  <2>2. Calls' /\ PhonesUnique'
    BY <2>1 DEF Inv, Calls, PhonesUnique, Exists
  <2>3. \A r \in Rpc : Held(r)'
    BY <2>1 DEF Inv, Held, At, Req, NightError, Overlaps, Exists
  <2>4. ZonesKept' /\ MemoryZoneCapacity'
    BY <2>1 DEF Inv, ZonesKept, MemoryZoneCapacity, ZoneCapacity, InZone, Exists
  <2>5. OnePrimaryZone'
    BY <2>1 DEF Inv, OnePrimaryZone, ZonesFit
  <2> QED
    BY <2>1, <2>2, <2>3, <2>4, <2>5, Zenon DEF Inv, Stored, Registered, Exists, SlotsFit,
       SlotsConsistent, RatingsFit, Answered
<1> QED  BY <1>1, <1>2

\* The invariant holds in every reachable state.
THEOREM Invariance == Spec => []Inv
<1>1. Init => Inv
  BY InitHolds
<1>2. Inv /\ [Next]_vars => Inv'
  BY NextInv
<1> QED  BY <1>1, <1>2, PTL DEF Spec

-----------------------------------------------------------------------------
(* The results.                                                            *)

\* What is stored and where calls are is of its type; every stored slot and
\* rating passed the checks of its domain type.
THEOREM TypeCorrect == Spec => []TypeOK
<1>1. Inv => TypeOK
  BY Zenon DEF Inv, TypeOK, Stored, Calls, CallFits, SlotsFit, RatingsFit
<1> QED  BY <1>1, Invariance, PTL

\* ReplaceZones of the memory repository never fills a zone beyond its limit.
THEOREM CapacityCorrect == Spec => []MemoryZoneCapacity
<1>1. Inv => MemoryZoneCapacity
  BY DEF Inv
<1> QED  BY <1>1, Invariance, PTL

\* CreateSlot of either repository keeps the slots of a courier apart and night
\* slots to cars, and ListSlots answers with stored slots.
THEOREM SlotsCorrect == Spec => []SlotsConsistent
<1>1. Inv => SlotsConsistent
  BY DEF Inv
<1> QED  BY <1>1, Invariance, PTL

\* Create and Save keep phones unique and the index of the memory repository
\* in step with the couriers.
THEOREM PhonesCorrect == Spec => []PhonesUnique
<1>1. Inv => PhonesUnique
  BY DEF Inv
<1> QED  BY <1>1, Invariance, PTL

\* RegisterCourier and ReplaceCourierZones leave one primary zone and no more
\* zones than the vehicle allows, stored and answered.
THEOREM ZonesCorrect == Spec => []OnePrimaryZone
<1>1. Inv => OnePrimaryZone
  BY DEF Inv
<1> QED  BY <1>1, Invariance, PTL

\* GetRatingSummary of both repositories makes the same of the same ratings.
THEOREM SummariesCorrect == Spec => []SummariesAgree
<1>1. Inv => SummariesAgree
  BY RatingsAgree DEF Inv
<1> QED  BY <1>1, Invariance, PTL

=============================================================================
