----------------------------- MODULE MCCourier ------------------------------
(* Instances of Courier for TLC.                                           *)
EXTENDS Courier, TLC

MCZoneOf == ("z1" :> "z1") @@ ("Z1 " :> "z1") @@ ("z2" :> "z2") @@ ("mars" :> "")

MCPhoneOf == ("+7 1" :> "71") @@ ("71" :> "71") @@ ("72" :> "72") @@ ("7" :> "")

\* A car in zone z1.
MCKnown == "c1" :> [phone |-> "71", vehicle |-> "car", zones |-> [all |-> {"z1"}, primary |-> {"z1"}]]

Z(zone, primary) == [zone |-> zone, primary |-> primary]

Register(c, phone, vehicle, zs) ==
  [kind |-> "register", courier |-> c, phone |-> phone, vehicle |-> vehicle, zones |-> zs]

Replace(c, zs) == [kind |-> "replace", courier |-> c, zones |-> zs]

TakeSlot(c, id, start, end, hours) ==
  [kind |-> "slot", courier |-> c, id |-> id, start |-> start, end |-> end, duration |-> hours]

Rate(c, id, score, tags) ==
  [kind |-> "rating", courier |-> c, id |-> id, score |-> score, tags |-> tags]

Lookup(c) == [kind |-> "lookup", courier |-> c]

ListOf(zone, limit) == [kind |-> "list", zone |-> zone, limit |-> limit]

SlotsOf(c, from, to) == [kind |-> "slots", courier |-> c, from |-> from, to |-> to]

SaveAs(c, phone, vehicle) == [kind |-> "save", courier |-> c, phone |-> phone, vehicle |-> vehicle]

MCRequest ==
  {Register("c2", "72", "bike", <<Z("z2", FALSE)>>),
   Register("c2", "+7 1", "car", <<Z("z2", TRUE), Z("Z1 ", FALSE)>>),
   Replace("c1", <<Z("z2", FALSE)>>),
   Replace("c1", <<Z("Z1 ", FALSE), Z("z2", TRUE)>>),
   Replace("c2", <<Z("mars", FALSE)>>),
   TakeSlot("c1", "s1", 17, 29, 12),
   TakeSlot("c1", "s2", 21, 25, 4),
   TakeSlot("c1", "s1", 41, 45, 4),
   TakeSlot("c2", "s1", 17, 25, 4),
   Rate("c1", "g1", 1, <<"rude_behavior">>),
   Rate("c1", "g2", 4, <<"polite", "polite">>),
   Rate("c2", "g1", 2, <<"polite">>),
   Lookup("c2"), ListOf("Z1 ", 0), ListOf("z2", 1), SlotsOf("c1", 18, 40),
   [kind |-> "summary", courier |-> "c2"],
   SaveAs("c1", "72", "bike")}

=============================================================================
