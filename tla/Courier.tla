------------------------------ MODULE Courier -------------------------------
(***************************************************************************)
(* The courier service (internal/service/grpc/courier_service.go) over     *)
(* either of its repositories: the maps of the memory repository under one *)
(* mutex, or the tables of PostgreSQL with a transaction that locks the    *)
(* row of its courier (FOR UPDATE) and commits under READ COMMITTED.       *)
(*                                                                         *)
(* Every member of Rpc is one call; each repository operation of a call is *)
(* one step, a transaction two: everything it reads under its lock, and    *)
(* what it writes.  Left out: the vehicle capabilities, a constant table,  *)
(* and what is only shown (names, is_active, comments).                    *)
(***************************************************************************)
EXTENDS CourierDomain

CONSTANTS
  CourierId,          \* ids of couriers
  Request,            \* the requests clients make
  Known,              \* couriers registered before, with their zones
  MaxCouriersPerZone, \* MaxCouriersPerZoneDefault
  MaxRpc,             \* bound: calls
  MaxFaults           \* bound: failing repository operations

Zones == [all : SUBSET Zone, primary : SUBSET Zone]

\* One of the zones is primary, if there are any.
OneIsPrimary(zs) ==
  zs.primary \subseteq zs.all /\ Cardinality(zs.primary) = IF zs.all = {} THEN 0 ELSE 1

FewZones(zs, vehicle) == Cardinality(zs.all) > 1 => AllowsMultipleZones(vehicle)

\* The couriers registered before are as the service leaves them.
ASSUME CourierAssumption ==
  /\ MaxCouriersPerZone \in Nat \ {0} /\ MaxRpc \in Nat /\ MaxFaults \in Nat
  /\ "" \notin CourierId
  /\ DOMAIN Known \subseteq CourierId /\ IsFiniteSet(DOMAIN Known)
  /\ Known \in [DOMAIN Known -> [phone : Phone, vehicle : VehicleType, zones : Zones]]
  /\ \A c, d \in DOMAIN Known : c # d => Known[c].phone # Known[d].phone
  /\ \A c \in DOMAIN Known : OneIsPrimary(Known[c].zones) /\ FewZones(Known[c].zones, Known[c].vehicle)
  /\ \A z \in Zone : Cardinality({c \in DOMAIN Known : z \in Known[c].zones.all}) <= MaxCouriersPerZone

Rpc == 1 .. MaxRpc

VARIABLES
  backend,  \* storage driver of this deployment
  courier,  \* couriers: NoCourier, or phone and vehicle
  index,    \* courierByPhone of the memory repository
  zones,    \* zones of the couriers
  slots,    \* slots of all couriers
  ratings,  \* ratings of all couriers
  lock,     \* the call that holds the row of a courier, 0 if none does
  rpc,      \* the calls
  resaved,  \* couriers Save gave another vehicle (auxiliary)
  faults    \* repository operations that failed so far

vars == <<backend, courier, index, zones, slots, ratings, lock, rpc, resaved, faults>>

profile == <<courier, index, resaved>>

duty == <<slots, ratings>>

\* since: the creation time, counted in couriers.
NoCourier == [phone |-> "", vehicle |-> "", since |-> 0]

Profile == [phone : Phone, vehicle : VehicleType, since : Nat]

PC == {"idle", "create", "get", "zones", "commitzones", "load", "slot", "commitslot",
       "rate", "save", "list", "slots", "summary", "answered"}

TypeOK ==
  /\ backend \in {"memory", "postgres"}
  /\ courier \in [CourierId -> Profile \cup {NoCourier}]
  /\ index \in [Phone -> CourierId \cup {""}]
  /\ zones \in [CourierId -> Zones]
  /\ \A s \in slots : s.courier \in CourierId /\ SlotError(s) = "ok"
  /\ \A g \in ratings : g.courier \in CourierId /\ RatingError(g) = "ok"
  /\ lock \in [CourierId -> Rpc \cup {0}]
  /\ \A r \in Rpc : rpc[r].pc \in PC
  /\ resaved \subseteq CourierId /\ faults \in Nat

Exists(c) == courier[c] # NoCourier

\* left: couriers whose zones are still to be read; the answer: a code, the zones
\* of couriers, slots of a courier.
Idle == [pc |-> "idle", req |-> [kind |-> "none"], left |-> <<>>, code |-> "",
         zones |-> <<>>, slots |-> {}]

Init ==
  /\ backend \in {"memory", "postgres"}
  /\ courier = [c \in CourierId |->
       IF c \in DOMAIN Known THEN [phone |-> Known[c].phone, vehicle |-> Known[c].vehicle, since |-> 0]
       ELSE NoCourier]
  /\ index = [p \in Phone |->
       IF backend = "memory" /\ \E c \in DOMAIN Known : Known[c].phone = p
       THEN CHOOSE c \in DOMAIN Known : Known[c].phone = p ELSE ""]
  /\ zones = [c \in CourierId |-> IF c \in DOMAIN Known THEN Known[c].zones ELSE NoZones]
  /\ slots = {} /\ ratings = {}
  /\ lock = [c \in CourierId |-> 0]
  /\ rpc = [r \in Rpc |-> Idle]
  /\ resaved = {} /\ faults = 0

-----------------------------------------------------------------------------

At(r, label) == rpc[r].pc = label

Req(r) == rpc[r].req

Goto(s, label) == [s EXCEPT !.pc = label]

Answer(s, code) == [s EXCEPT !.pc = "answered", !.code = code, !.req = Idle.req, !.left = <<>>]

Refuse(s, err) == Answer(s, mapCourierErr(err))

Become(r, s) == rpc' = [rpc EXCEPT ![r] = s]

\* The head of a handler: what it checks before it calls the repository.
RequestError(req) ==
  CASE req.kind = "register" ->
         IF req.vehicle \notin VehicleType THEN "ErrCourierVehicleTypeInvalid"
         ELSE ZonesError(req.zones, req.vehicle)
    [] req.kind = "rating" ->
         IF Range(req.tags) \subseteq Tag THEN "ok" ELSE "ErrCourierRatingTagInvalid"
    [] req.kind = "list" ->
         IF NormalizeZoneID(req.zone) = "" THEN "ErrCourierZoneUnknown"
         ELSE IF req.limit < 0 THEN "limit must be >= 0" ELSE "ok"
    [] req.kind = "slots" ->
         IF req.from < 0 \/ req.to < 0 THEN "from_unix/to_unix must be >= 0"
         ELSE IF req.from > 0 /\ req.to > 0 /\ req.to <= req.from
         THEN "to_unix must be greater than from_unix" ELSE "ok"
    [] OTHER -> "ok"

FirstStep ==
  [register |-> "create", replace |-> "get", lookup |-> "get", list |-> "list",
   slot |-> "slot", slots |-> "slots", rating |-> "rate", summary |-> "summary",
   save |-> "save"]

\* What the fields of a request may be, by its kind.
ASSUME RequestAssumption ==
  \A req \in Request :
    /\ req.kind \in DOMAIN FirstStep
    /\ req.kind # "list" => req.courier \in CourierId
    /\ req.kind \in {"register", "save"} => req.phone \in DOMAIN PhoneOf
    /\ req.kind \in {"register", "replace"} => req.zones \in Seq(ZoneInput)
    /\ req.kind = "list" => req.zone \in DOMAIN ZoneOf /\ req.limit \in Int
    /\ req.kind = "rating" => req.tags \in Seq(STRING)

Call(r, req) ==
  /\ At(r, "idle") /\ \A q \in Rpc : q < r => ~At(q, "idle")
  /\ Become(r, IF RequestError(req) # "ok"
               THEN Answer([Idle EXCEPT !.req = req], "InvalidArgument")
               ELSE Goto([Idle EXCEPT !.req = req], FirstStep[req.kind]))
  /\ UNCHANGED <<backend, profile, zones, duty, lock, faults>>

-----------------------------------------------------------------------------
(* Couriers.                                                               *)

Taken(phone, c) == \E d \in CourierId : d # c /\ courier[d].phone = phone

\* Create of the memory repository finds the phone in its index.
CreateErrorMemory(req) ==
  IF CourierError(req) # "ok" THEN CourierError(req)
  ELSE IF Exists(req.courier) THEN "ErrCourierAlreadyExists"
  ELSE IF index[NormalizePhone(req.phone)] \notin {"", req.courier} THEN "ErrCourierPhoneAlreadyExists"
  ELSE "ok"

\* Create of PostgreSQL runs into the primary key or into the unique phone.
CreateErrorPostgres(req) ==
  IF CourierError(req) # "ok" THEN CourierError(req)
  ELSE IF Exists(req.courier) THEN "ErrCourierAlreadyExists"
  ELSE IF Taken(NormalizePhone(req.phone), req.courier) THEN "ErrCourierPhoneAlreadyExists"
  ELSE "ok"

CreateError(req) ==
  IF backend = "memory" THEN CreateErrorMemory(req) ELSE CreateErrorPostgres(req)

Created(req) ==
  [courier EXCEPT ![req.courier] =
     [phone |-> NormalizePhone(req.phone), vehicle |-> req.vehicle,
      since |-> Cardinality({c \in CourierId : Exists(c)})]]

\* The first step of RegisterCourier.
Create(r) ==
  /\ At(r, "create")
  /\ LET req == Req(r)
         phone == NormalizePhone(req.phone)
     IN  IF CreateError(req) # "ok"
         THEN Become(r, Refuse(rpc[r], CreateError(req))) /\ UNCHANGED profile
         ELSE /\ courier' = Created(req)
              /\ index' = IF backend = "memory" THEN [index EXCEPT ![phone] = req.courier] ELSE index
              /\ Become(r, Goto(rpc[r], "zones"))
              /\ UNCHANGED resaved
  /\ UNCHANGED <<backend, zones, duty, lock, faults>>

\* Variant: the old phone stays in the index.
SavedIndexKept(c, phone) == [index EXCEPT ![phone] = c]

\* The index after Save of the memory repository.
SavedIndex(c, phone) ==
  IF courier[c].phone = phone THEN index ELSE [index EXCEPT ![courier[c].phone] = "", ![phone] = c]

SaveErrorMemory(req) ==
  IF CourierError(req) # "ok" THEN CourierError(req)
  ELSE IF ~Exists(req.courier) THEN "ErrCourierNotFound"
  ELSE IF index[NormalizePhone(req.phone)] \notin {"", req.courier} THEN "ErrCourierPhoneAlreadyExists"
  ELSE "ok"

\* The UPDATE waits for a transaction that holds the row.
SaveErrorPostgres(req) ==
  IF CourierError(req) # "ok" THEN CourierError(req)
  ELSE IF ~Exists(req.courier) THEN "ErrCourierNotFound"
  ELSE IF Taken(NormalizePhone(req.phone), req.courier) THEN "ErrCourierPhoneAlreadyExists"
  ELSE "ok"

SaveError(req) == IF backend = "memory" THEN SaveErrorMemory(req) ELSE SaveErrorPostgres(req)

\* Variant: the row of the courier is read without FOR UPDATE.
RowFreeAlways(c) == TRUE

\* getCourierTx (SELECT ... FOR UPDATE) and UPDATE wait until the row is free.
\* The memory repository locks no rows.
RowFree(c) == lock[c] = 0

Saved(req) ==
  [courier EXCEPT ![req.courier] =
     [phone |-> NormalizePhone(req.phone), vehicle |-> req.vehicle, since |-> @.since]]

Resaved(req) ==
  IF courier[req.courier].vehicle = req.vehicle THEN resaved ELSE resaved \cup {req.courier}

\* Save, an operation of the repository no handler calls yet.  It checks
\* neither the zones nor the slots of the courier.
Save(r) ==
  /\ At(r, "save") /\ RowFree(Req(r).courier)
  /\ LET req == Req(r)
     IN  IF SaveError(req) # "ok"
         THEN Become(r, Refuse(rpc[r], SaveError(req))) /\ UNCHANGED profile
         ELSE /\ courier' = Saved(req)
              /\ index' = IF backend = "memory"
                          THEN SavedIndex(req.courier, NormalizePhone(req.phone)) ELSE index
              /\ resaved' = Resaved(req)
              /\ Become(r, Answer(rpc[r], "OK"))
  /\ UNCHANGED <<backend, zones, duty, lock, faults>>

-----------------------------------------------------------------------------
(* Zones.                                                                  *)

\* The next step: the zones of these couriers are read for the answer.
Load(s, couriers) == [s EXCEPT !.pc = "load", !.left = couriers]

\* Get of GetCourier, and of ReplaceCourierZones, where the vehicle decides how
\* many zones may be.
Get(r) ==
  /\ At(r, "get")
  /\ LET c == Req(r).courier
     IN  Become(r,
           IF ~Exists(c) THEN Refuse(rpc[r], "ErrCourierNotFound")
           ELSE IF Req(r).kind = "lookup" THEN Load(rpc[r], <<c>>)
           ELSE IF ZonesError(Req(r).zones, courier[c].vehicle) # "ok"
           THEN Answer(rpc[r], "InvalidArgument")
           ELSE Goto(rpc[r], "zones"))
  /\ UNCHANGED <<backend, profile, zones, duty, lock, faults>>

InZone(z) == {c \in CourierId : z \in zones[c].all}

\* Variant: one too many.
FullLate(z, c) == Cardinality(InZone(z) \ {c}) > MaxCouriersPerZone

Full(z, c) == Cardinality(InZone(z) \ {c}) >= MaxCouriersPerZone

\* ensureZoneCapacityLocked skips the zones the courier has.
CapacityErrorMemory(c, wanted) ==
  IF \E z \in wanted \ zones[c].all : Full(z, c) THEN "ErrCourierZoneCapacityExceeded" ELSE "ok"

\* ensureZoneCapacityTx counts in every zone.
CapacityErrorPostgres(c, wanted) ==
  IF \E z \in wanted : Full(z, c) THEN "ErrCourierZoneCapacityExceeded" ELSE "ok"

\* ReplaceZones checks the request again, against the vehicle of now.
ReplaceError(r) ==
  LET c == Req(r).courier
      wanted == prepareZones(Req(r).zones).all
  IN  IF ZonesError(Req(r).zones, courier[c].vehicle) # "ok"
      THEN ZonesError(Req(r).zones, courier[c].vehicle)
      ELSE IF backend = "memory" THEN CapacityErrorMemory(c, wanted)
      ELSE CapacityErrorPostgres(c, wanted)

\* ReplaceZones of the memory repository, under its mutex.
ReplaceZonesMemory(r) ==
  /\ At(r, "zones") /\ backend = "memory"
  /\ IF ReplaceError(r) # "ok"
     THEN Become(r, Refuse(rpc[r], ReplaceError(r))) /\ UNCHANGED zones
     ELSE /\ zones' = [zones EXCEPT ![Req(r).courier] = prepareZones(Req(r).zones)]
          /\ Become(r, Load(rpc[r], <<Req(r).courier>>))
  /\ UNCHANGED <<backend, profile, duty, lock, faults>>

\* The transaction of ReplaceZones up to the counts.
BeginZones(r) ==
  /\ At(r, "zones") /\ backend = "postgres"
  /\ RowFree(Req(r).courier)
  /\ IF ReplaceError(r) # "ok"
     THEN Become(r, Refuse(rpc[r], ReplaceError(r))) /\ UNCHANGED lock
     ELSE /\ lock' = [lock EXCEPT ![Req(r).courier] = r]
          /\ Become(r, Goto(rpc[r], "commitzones"))
  /\ UNCHANGED <<backend, profile, zones, duty, faults>>

\* DELETE, INSERT and Commit.
CommitZones(r) ==
  /\ At(r, "commitzones")
  /\ zones' = [zones EXCEPT ![Req(r).courier] = prepareZones(Req(r).zones)]
  /\ lock' = [lock EXCEPT ![Req(r).courier] = 0]
  /\ Become(r, Load(rpc[r], <<Req(r).courier>>))
  /\ UNCHANGED <<backend, profile, duty, faults>>

defaultListCouriersByZoneLimit == 100

\* The couriers of a zone, the latest first, up to the limit.  (Where two are
\* as old the code lets their ids decide, which have no order here.)
ByZone(zone, limit) ==
  LET all == InZone(zone)
      max == IF limit = 0 THEN defaultListCouriersByZoneLimit ELSE limit
      len == IF Cardinality(all) > max THEN max ELSE Cardinality(all)
  IN  {seq \in [1 .. len -> all] :
         /\ IsInjective(seq)
         /\ \A i \in 1 .. len : \A c \in all \ {seq[j] : j \in 1 .. i} : courier[seq[i]].since >= courier[c].since}

\* ListByZone, the first step of ListCouriersByZone.
ListByZone(r) ==
  /\ At(r, "list")
  /\ \E found \in ByZone(NormalizeZoneID(Req(r).zone), Req(r).limit) :
       Become(r, IF found = <<>> THEN Answer(rpc[r], "OK") ELSE Load(rpc[r], found))
  /\ UNCHANGED <<backend, profile, zones, duty, lock, faults>>

\* Zones of couriers, with those of c as they are now.
WithZones(c, read) == [d \in {c} \cup DOMAIN read |-> IF d = c THEN zones[c] ELSE read[d]]

\* ListZones for the next courier of the answer: the zones of now.  (The Get
\* RegisterCourier makes before it is left out: it only adds what is shown.)
ListZones(r) ==
  /\ At(r, "load")
  /\ LET c == Head(rpc[r].left)
         read == [rpc[r] EXCEPT !.left = Tail(@), !.zones = WithZones(c, @)]
     IN  Become(r, IF read.left = <<>> THEN Answer(read, "OK") ELSE read)
  /\ UNCHANGED <<backend, profile, zones, duty, lock, faults>>

-----------------------------------------------------------------------------
(* Slots and ratings.                                                      *)

Slot(req) ==
  [id |-> req.id, courier |-> req.courier, start |-> req.start, end |-> req.end,
   duration |-> req.duration, vehicle |-> courier[req.courier].vehicle]

NightError(req) ==
  IF SlotError(req) # "ok" THEN SlotError(req)
  ELSE IF ~Exists(req.courier) THEN "ErrCourierNotFound"
  ELSE IF IsNightShiftSlot(req) /\ courier[req.courier].vehicle # "car"
  THEN "ErrCourierNightSlotCarOnly" ELSE "ok"

Overlaps(req) == \E s \in slots : s.courier = req.courier /\ intervalsOverlap(s, req)

\* CreateSlot of the memory repository: ids are unique for a courier.
CreateSlotMemory(r) ==
  /\ At(r, "slot") /\ backend = "memory"
  /\ LET req == Req(r)
         same == \E s \in slots : s.courier = req.courier /\ s.id = req.id
         err == IF NightError(req) # "ok" THEN NightError(req)
                ELSE IF same \/ Overlaps(req) THEN "ErrCourierSlotConflict" ELSE "ok"
     IN  IF err # "ok"
         THEN Become(r, Refuse(rpc[r], err)) /\ UNCHANGED slots
         ELSE slots' = slots \cup {Slot(req)} /\ Become(r, Answer(rpc[r], "OK"))
  /\ UNCHANGED <<backend, profile, zones, ratings, lock, faults>>

\* CreateSlot of PostgreSQL: the checks of the transaction under its lock.
BeginSlot(r) ==
  /\ At(r, "slot") /\ backend = "postgres"
  /\ SlotError(Req(r)) = "ok" => RowFree(Req(r).courier)
  /\ LET req == Req(r)
         err == IF NightError(req) # "ok" THEN NightError(req)
                ELSE IF Overlaps(req) THEN "ErrCourierSlotConflict" ELSE "ok"
     IN  IF err # "ok"
         THEN Become(r, Refuse(rpc[r], err)) /\ UNCHANGED lock
         ELSE /\ lock' = [lock EXCEPT ![req.courier] = r]
              /\ Become(r, Goto(rpc[r], "commitslot"))
  /\ UNCHANGED <<backend, profile, zones, duty, faults>>

\* The id is unique in the table, the start for a courier.
Clash(req) == \E s \in slots : s.id = req.id \/ (s.courier = req.courier /\ s.start = req.start)

\* Variant: a slot that is refused leaves its transaction open.
CommitSlotNoRollback(r) ==
  /\ At(r, "commitslot")
  /\ slots' = IF Clash(Req(r)) THEN slots ELSE slots \cup {Slot(Req(r))}
  /\ Become(r, IF Clash(Req(r)) THEN Refuse(rpc[r], "ErrCourierSlotConflict") ELSE Answer(rpc[r], "OK"))
  /\ lock' = IF Clash(Req(r)) THEN lock ELSE [lock EXCEPT ![Req(r).courier] = 0]
  /\ UNCHANGED <<backend, profile, zones, ratings, faults>>

\* INSERT and Commit.
CommitSlot(r) ==
  /\ At(r, "commitslot")
  /\ slots' = IF Clash(Req(r)) THEN slots ELSE slots \cup {Slot(Req(r))}
  /\ Become(r, IF Clash(Req(r)) THEN Refuse(rpc[r], "ErrCourierSlotConflict") ELSE Answer(rpc[r], "OK"))
  /\ lock' = [lock EXCEPT ![Req(r).courier] = 0]
  /\ UNCHANGED <<backend, profile, zones, ratings, faults>>

Rating(req) == [id |-> req.id, courier |-> req.courier, score |-> req.score, tags |-> req.tags]

\* Ids of ratings are unique for a courier in memory, in the table in PostgreSQL.
RatingExists(req) ==
  \E g \in ratings : g.id = req.id /\ (backend = "memory" => g.courier = req.courier)

SubmitError(req) ==
  IF RatingError(req) # "ok" THEN RatingError(req)
  ELSE IF RatingExists(req) /\ (Exists(req.courier) \/ backend = "postgres")
  THEN "ErrCourierRatingAlreadyExists"
  ELSE IF ~Exists(req.courier) THEN "ErrCourierNotFound" ELSE "ok"

SubmitRating(r) ==
  /\ At(r, "rate")
  /\ IF SubmitError(Req(r)) # "ok"
     THEN Become(r, Refuse(rpc[r], SubmitError(Req(r)))) /\ UNCHANGED ratings
     ELSE ratings' = ratings \cup {Rating(Req(r))} /\ Become(r, Answer(rpc[r], "OK"))
  /\ UNCHANGED <<backend, profile, zones, slots, lock, faults>>

\* ListSlots: the slots of a courier that meet a window; 0 leaves a side open.
InWindow(c, from, to) ==
  {s \in slots : s.courier = c /\ (from > 0 => s.end > from) /\ (to > 0 => s.start < to)}

ListSlots(r) ==
  /\ At(r, "slots")
  /\ LET req == Req(r)
     IN  Become(r, IF ~Exists(req.courier) THEN Refuse(rpc[r], "ErrCourierNotFound")
                   ELSE Answer([rpc[r] EXCEPT !.slots = InWindow(req.courier, req.from, req.to)], "OK"))
  /\ UNCHANGED <<backend, profile, zones, duty, lock, faults>>

\* GetRatingSummary of the memory repository: counts every tag of the list.
SummaryMemory(c) ==
  LET own == {g \in ratings : g.courier = c}
      Tags(t) == UNION {{g} \X {i \in DOMAIN g.tags : g.tags[i] = t} : g \in own}
  IN  [count |-> Cardinality(own), low |-> Cardinality({g \in own : g.score < 3}),
       tags |-> [t \in Tag |-> Cardinality(Tags(t))]]

\* GetRatingSummary of PostgreSQL: counts the ratings with the tag.
SummaryPostgres(c) ==
  LET own == {g \in ratings : g.courier = c}
  IN  [count |-> Cardinality(own), low |-> Cardinality({g \in own : g.score < 3}),
       tags |-> [t \in Tag |-> Cardinality({g \in own : t \in Range(g.tags)})]]

\* GetRatingSummary; the summary itself is compared by SummariesAgree.
GetRatingSummary(r) ==
  /\ At(r, "summary")
  /\ Become(r, IF Exists(Req(r).courier) THEN Answer(rpc[r], "OK") ELSE Refuse(rpc[r], "ErrCourierNotFound"))
  /\ UNCHANGED <<backend, profile, zones, duty, lock, faults>>

-----------------------------------------------------------------------------

\* An operation of PostgreSQL fails: it is rolled back, or was committed all
\* the same, and the call answers Internal.  What earlier operations of the
\* call stored stays.
StorageFails(r) ==
  /\ backend = "postgres" /\ rpc[r].pc \notin {"idle", "answered"}
  /\ faults < MaxFaults /\ faults' = faults + 1
  /\ lock' = [c \in CourierId |-> IF lock[c] = r THEN 0 ELSE lock[c]]
  /\ \/ UNCHANGED zones
     \/ At(r, "commitzones") /\ zones' = [zones EXCEPT ![Req(r).courier] = prepareZones(Req(r).zones)]
  /\ \/ UNCHANGED slots
     \/ At(r, "commitslot") /\ ~Clash(Req(r)) /\ slots' = slots \cup {Slot(Req(r))}
  /\ \/ UNCHANGED profile
     \/ At(r, "create") /\ CreateError(Req(r)) = "ok" /\ courier' = Created(Req(r)) /\ UNCHANGED <<index, resaved>>
     \/ /\ At(r, "save") /\ RowFree(Req(r).courier) /\ SaveError(Req(r)) = "ok"
        /\ courier' = Saved(Req(r)) /\ resaved' = Resaved(Req(r)) /\ UNCHANGED index
  /\ \/ UNCHANGED ratings
     \/ At(r, "rate") /\ SubmitError(Req(r)) = "ok" /\ ratings' = ratings \cup {Rating(Req(r))}
  /\ Become(r, Refuse(rpc[r], "fault"))
  /\ UNCHANGED backend

Step(r) ==
  \/ Create(r) \/ Save(r) \/ Get(r) \/ ReplaceZonesMemory(r) \/ BeginZones(r)
  \/ CommitZones(r) \/ ListByZone(r) \/ ListZones(r)
  \/ CreateSlotMemory(r) \/ BeginSlot(r) \/ CommitSlot(r) \/ ListSlots(r)
  \/ SubmitRating(r) \/ GetRatingSummary(r)

Next == \E r \in Rpc : (\E req \in Request : Call(r, req)) \/ Step(r) \/ StorageFails(r)

Spec == Init /\ [][Next]_vars

\* Handlers run, and PostgreSQL gives a free row to a waiting transaction.
FairSpec == Spec /\ \A r \in Rpc : WF_vars(Step(r))

-----------------------------------------------------------------------------
(* Properties.                                                             *)

\* No zone has more couriers than its limit (domain/courier.go:9).
ZoneCapacity == \A z \in Zone : Cardinality(InZone(z)) <= MaxCouriersPerZone

\* With the memory repository, whose mutex covers the count and the change,
\* no zone has more couriers than its limit, although ReplaceZones does not
\* count the zones the courier had before.
MemoryZoneCapacity == backend = "memory" => ZoneCapacity

\* However calls overlap, no courier works two slots at a time, and a night slot
\* is taken by a courier who has a car at that moment: the lock on the row of the
\* courier makes the checks of CreateSlot and its INSERT one step, so neither
\* another slot nor a Save comes between.  Once answered, a slot is listed for good.
SlotsConsistent ==
  /\ \A s, t \in slots : s # t /\ s.courier = t.courier => ~intervalsOverlap(s, t)
  /\ \A s \in slots : IsNightShiftSlot(s) => s.vehicle = "car"
  /\ \A r \in Rpc : rpc[r].slots \subseteq slots

\* A phone has one courier, and the index of the memory repository knows
\* exactly the phones there are, after any sequence of Create and Save.
PhonesUnique ==
  /\ \A c, d \in CourierId : Exists(c) /\ Exists(d) /\ courier[c].phone = courier[d].phone => c = d
  /\ backend = "memory" =>
       \A p \in Phone, c \in CourierId : index[p] = c <=> courier[c].phone = p

\* A courier with zones has one primary zone, a zone of its own, and more than
\* one zone only with a car, unless Save changed its vehicle, in the table and
\* in every answer (docs/guides/api-specification.md:63-65).
ZonesFit(c, zs) == OneIsPrimary(zs) /\ (c \notin resaved => FewZones(zs, courier[c].vehicle))

OnePrimaryZone ==
  /\ \A c \in CourierId : ZonesFit(c, zones[c])
  /\ \A r \in Rpc : \A c \in DOMAIN rpc[r].zones : ZonesFit(c, rpc[r].zones[c])

Quiet == \A r \in Rpc : rpc[r].pc \in {"idle", "answered"}

\* Both repositories make the same summary of the same ratings.
SummariesAgree == \A c \in CourierId : SummaryMemory(c) = SummaryPostgres(c)

\* Every call returns: time and again none is running, so no transaction waits
\* for a row for ever.
CallsReturn == []<>Quiet

=============================================================================
