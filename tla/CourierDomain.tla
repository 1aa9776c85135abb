--------------------------- MODULE CourierDomain ----------------------------
(***************************************************************************)
(* The rules of the delivery domain (internal/domain/courier.go) and the   *)
(* conversions of the courier service: what a request must be like, and    *)
(* what is stored for it.  An error is the name of the Go error, "ok" is   *)
(* nil; where several errors apply the first check of the code decides.    *)
(* Errors found zone by zone in one loop are checked for all zones in      *)
(* turn: they get the same code, so no caller can tell.                    *)
(*                                                                         *)
(* Texts are members of small sets; ZoneOf and PhoneOf say what trimming,  *)
(* lower case and dropping separators make of them.                        *)
(***************************************************************************)
EXTENDS Integers, Sequences, FiniteSets, Functions

CONSTANTS
  Zone,      \* the catalogue of zones
  Phone,     \* normalised phone numbers
  ZoneOf,    \* zone id as typed -> zone or ""
  PhoneOf    \* phone as typed -> number or ""

ASSUME CourierDomainAssumption ==
  /\ "" \notin Zone \cup Phone
  /\ \A t \in DOMAIN ZoneOf : ZoneOf[t] \in Zone \cup {""}
  /\ \A t \in DOMAIN PhoneOf : PhoneOf[t] \in Phone \cup {""}

VehicleType == {"scooter", "bike", "car"}

AllowsMultipleZones(vehicle) == vehicle = "car"

\* A number of 11 to 15 digits, whatever separates them; "" for anything else.
NormalizePhone(text) == PhoneOf[text]

\* "" for an id that is not in the catalogue.
NormalizeZoneID(text) == ZoneOf[text]

CourierError(req) ==
  IF NormalizePhone(req.phone) = "" THEN "ErrCourierPhoneFormatInvalid"
  ELSE IF req.vehicle \notin VehicleType THEN "ErrCourierVehicleTypeInvalid"
  ELSE "ok"

-----------------------------------------------------------------------------
(* Zones.  A request lists zones, each with a flag is_primary.             *)

ZoneInput == [zone : DOMAIN ZoneOf, primary : BOOLEAN]

Ids(inputs) == [i \in DOMAIN inputs |-> NormalizeZoneID(inputs[i].zone)]

Primaries(inputs) == {i \in DOMAIN inputs : inputs[i].primary}

\* toDomainCourierZones, and again prepareZones.
ZonesError(inputs, vehicle) ==
  IF inputs = <<>> THEN "ErrCourierZonesRequired"
  ELSE IF Len(inputs) > 1 /\ ~AllowsMultipleZones(vehicle) THEN "ErrCourierZoneLimitExceeded"
  ELSE IF "" \in Range(Ids(inputs)) THEN "ErrCourierZoneUnknown"
  ELSE IF ~IsInjective(Ids(inputs)) THEN "ErrCourierZoneDuplicate"
  ELSE IF Cardinality(Primaries(inputs)) > 1 THEN "ErrCourierPrimaryZoneConflict"
  ELSE "ok"

\* The zones of a courier and which of them are primary.
NoZones == [all |-> {}, primary |-> {}]

\* Variant: no zone becomes primary unless the request says so.
prepareZonesAsGiven(inputs) ==
  [all |-> Range(Ids(inputs)), primary |-> {Ids(inputs)[i] : i \in Primaries(inputs)}]

\* The first zone is the primary one unless the request names another.
prepareZones(inputs) ==
  [all |-> Range(Ids(inputs)),
   primary |-> IF Primaries(inputs) = {} THEN {Ids(inputs)[1]}
               ELSE {Ids(inputs)[i] : i \in Primaries(inputs)}]

-----------------------------------------------------------------------------
(* Slots.  Time is counted in hours, in UTC.                               *)

mskHour(t) == (t + 3) % 24

\* 20:00-08:00 in Moscow.
IsNightShiftSlot(slot) == slot.end - slot.start = 12 /\ mskHour(slot.start) = 20

SlotError(slot) ==
  IF slot.start <= 0 \/ slot.end <= slot.start THEN "ErrCourierSlotRangeInvalid"
  ELSE IF slot.duration \notin {4, 8, 12} THEN "ErrCourierSlotDurationInvalid"
  ELSE IF slot.end - slot.start # slot.duration THEN "ErrCourierSlotDurationMismatch"
  ELSE "ok"

intervalsOverlap(a, b) == a.start < b.end /\ b.start < a.end

-----------------------------------------------------------------------------
(* Ratings: a score from 1 to 5 and a list of tags.                        *)

PositiveTag == {"on_time", "polite", "careful_handling"}

NegativeTag == {"delayed_delivery", "rude_behavior", "damaged_order", "other_issue"}

Tag == PositiveTag \cup NegativeTag

\* Variant: a tag may be given twice.
RatingErrorRepeats(rating) ==
  LET negative == Range(rating.tags) \cap NegativeTag
  IN  IF rating.score \notin 1 .. 5 THEN "ErrCourierRatingScoreInvalid"
      ELSE IF negative # {} /\ rating.score = 5 THEN "ErrCourierRatingPositiveTagsOnly"
      ELSE IF negative = {} /\ rating.score < 3 THEN "ErrCourierRatingReasonsRequired"
      ELSE "ok"

RatingError(rating) ==
  LET negative == Range(rating.tags) \cap NegativeTag
  IN  IF rating.score \notin 1 .. 5 THEN "ErrCourierRatingScoreInvalid"
      ELSE IF ~(Range(rating.tags) \subseteq Tag) THEN "ErrCourierRatingTagInvalid"
      ELSE IF ~IsInjective(rating.tags) THEN "ErrCourierRatingTagDuplicate"
      ELSE IF negative # {} /\ rating.score = 5 THEN "ErrCourierRatingPositiveTagsOnly"
      ELSE IF negative = {} /\ rating.score < 3 THEN "ErrCourierRatingReasonsRequired"
      ELSE "ok"

-----------------------------------------------------------------------------

\* mapCourierErr: the code a client sees; any other error is Internal.
mapCourierErr(err) ==
  CASE err = "ErrCourierNotFound" -> "NotFound"
    [] err \in {"ErrCourierAlreadyExists", "ErrCourierPhoneAlreadyExists",
                "ErrCourierRatingAlreadyExists"} -> "AlreadyExists"
    [] err = "ErrCourierZoneCapacityExceeded" -> "ResourceExhausted"
    [] err \in {"ErrCourierZoneLimitExceeded", "ErrCourierPrimaryZoneConflict",
                "ErrCourierNightSlotCarOnly", "ErrCourierSlotConflict"} -> "FailedPrecondition"
    [] err = "fault" -> "Internal"
    [] OTHER -> "InvalidArgument"

=============================================================================
