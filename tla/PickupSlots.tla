------------------------------ MODULE PickupSlots ------------------------------
(***************************************************************************)
(* The pickup times a customer is offered for a day.  Times are minutes of *)
(* the store's own clock since some midnight; the settings are those of   *)
(* the store's row, whatever they are.                                     *)
(***************************************************************************)
EXTENDS Integers, Sequences

CONSTANTS
    Hours,          \* business_hours: [from, to], each [hh, mm]
    SlotMinutes, SlotCapacities, LeadMinutes,   \* values of the other columns
    Days,           \* days asked for, 0 the first
    Nows            \* times of the request

ASSUME SlotsAssumption ==
    /\ \A h \in Hours : {h.from.hh, h.from.mm, h.to.hh, h.to.mm} \subseteq Nat
    /\ Days \subseteq Nat /\ Nows \subseteq Nat
    /\ SlotMinutes \subseteq Nat /\ SlotCapacities \subseteq Nat /\ LeadMinutes \subseteq Nat

VARIABLES offer     \* the last answer: [asked, cfg, day, now, booked, error, slots]

NotOffered == [asked |-> FALSE]
SlotsInit == offer = NotOffered

DayMinutes == 24 * 60

(***************************************************************************)
(* The settings.                                                           *)
(***************************************************************************)
PickupConfig ==
    [enabled : BOOLEAN, hours : Hours, step : SlotMinutes, capacity : SlotCapacities, lead : LeadMinutes]

parseHHMM(t) == t.hh * 60 + t.mm
ValidTime(t) == t.hh <= 23 /\ t.mm <= 59
ParseBusinessHours(h) == ValidTime(h.from) /\ ValidTime(h.to) /\ parseHHMM(h.from) < parseHHMM(h.to)

ValidConfig(cfg) ==
    /\ cfg.step \in 5..120
    /\ cfg.capacity >= 1
    /\ ParseBusinessHours(cfg.hours)

(***************************************************************************)
(* Places taken.  The map has the column's text, with its seconds, as key; *)
(* the slots are looked up by a text without them and are never found.     *)
(***************************************************************************)
ReservedBySlot(booked) == [k \in {<<"seconds", m>> : m \in DOMAIN booked} |-> booked[k[2]]]
ReservedAt(reserved, m) == IF <<"minutes", m>> \in DOMAIN reserved THEN reserved[<<"minutes", m>>] ELSE 0

(***************************************************************************)
(* The slots of a day: from opening, step by step, while before closing.   *)
(***************************************************************************)
Remaining(cfg, reserved, m) ==
    IF ReservedAt(reserved, m) > cfg.capacity THEN 0 ELSE cfg.capacity - ReservedAt(reserved, m)

LateEnoughSameDay(cfg, now, m) == m % DayMinutes > (now + cfg.lead) % DayMinutes
LateEnough(cfg, now, m) == m > now + cfg.lead

GenerateSlots(cfg, day, now, reserved) ==
    LET from == day * DayMinutes + parseHHMM(cfg.hours.from)
        open == parseHHMM(cfg.hours.to) - parseHHMM(cfg.hours.from)
        count == (open + cfg.step - 1) \div cfg.step
    IN [i \in 1..count |->
          LET m == from + (i - 1) * cfg.step
              left == Remaining(cfg, reserved, m)
          IN [at |-> m, remaining |-> left, available |-> LateEnough(cfg, now, m) /\ left > 0]]

\* GET /pickup-slots; booked are the places taken, by time.
AskSlots(cfg, day, now, booked) ==
    /\ offer = NotOffered
    /\ offer' = [asked |-> TRUE, cfg |-> cfg, day |-> day, now |-> now, booked |-> booked,
                 error |-> cfg.enabled /\ ~ValidConfig(cfg),
                 slots |-> IF cfg.enabled /\ ValidConfig(cfg)
                           THEN GenerateSlots(cfg, day, now, ReservedBySlot(booked)) ELSE <<>>]

SlotsNext ==
    \E cfg \in PickupConfig, day \in Days, now \in Nows :
      \E booked \in [{day * DayMinutes + parseHHMM(cfg.hours.from)} -> 0..cfg.capacity] :
        AskSlots(cfg, day, now, booked)

SlotsSpec == SlotsInit /\ [][SlotsNext]_offer

(***************************************************************************)
(* Properties.                                                             *)
(***************************************************************************)
\* Whatever the settings, the day and the hour, also when the lead reaches
\* past midnight: a time is offered exactly when it is a whole number of
\* steps after opening, before closing, and after the lead has passed; and a
\* store with settings out of their range offers none (pickup/slots.go:74-109).
\* Every time is offered as if nobody had taken a place: a full slot is
\* offered too, with its whole capacity left, against the requirements, which
\* have a full slot not selectable (complete-requirements-no-ios.md:163,
\* reservation-pickup.md:73) and the comment that the keys of the two texts
\* are aligned (storefront/pickup.go:46).
OffersOpenTimesAsFree ==
    offer.asked =>
        LET cfg == offer.cfg
            midnight == offer.day * DayMinutes
            offered == {offer.slots[i].at : i \in {j \in DOMAIN offer.slots : offer.slots[j].available}}
        IN /\ \A m \in midnight..(midnight + DayMinutes - 1) :
                m \in offered <=>
                   /\ cfg.enabled /\ ValidConfig(cfg)
                   /\ parseHHMM(cfg.hours.from) <= m - midnight /\ m - midnight < parseHHMM(cfg.hours.to)
                   /\ (m - midnight - parseHHMM(cfg.hours.from)) % cfg.step = 0
                   /\ m - offer.now > cfg.lead
           /\ \A i \in DOMAIN offer.slots : offer.slots[i].remaining = cfg.capacity
=============================================================================
