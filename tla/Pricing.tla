------------------------------ MODULE Pricing ------------------------------
(***************************************************************************)
(* What an hour costs, the convenience fee and how a checkout's fee is       *)
(* split over its courts (pricing/domain/pricing.py, checkouts/domain/       *)
(* rules.py, utils/time.py).                                               *)
(*                                                                         *)
(* An instant is a whole number of hours since a Sunday's 00:00 UTC; Manila *)
(* is eight hours ahead.  Money is in centavos.                            *)
(***************************************************************************)
EXTENDS Integers, Sequences, FiniteSets, Functions

CONSTANT PerCent    \* one per cent: a Decimal is counted in parts of one

ASSUME PricingAssumption == PerCent \in Nat \ {0}

\* NULL in a rule: any day, any hour.
Wild == -1

DayOfWeek == 0..6
HourOfDay == 0..23

\* starts_at.astimezone(MANILA): the day counted from that Sunday, the hour.
ManilaDay(start) == (start + 8) \div 24
ManilaHour(start) == (start + 8) % 24

\* Mutant of DayStart: the day is sliced in UTC.
DayStartUTC(day) == day * 24

\* manila_day_bounds: where a Manila day starts.
DayStart(day) == day * 24 - 8

SlotStarts(start, hours) == [h \in 1..hours |-> start + h - 1]

Total(s) == FoldFunction(+, 0, s)

\* Mutant of Keys: the day is tried before the hour.
KeysDayFirst(day, hour) ==
    << <<day, hour>>, <<day, Wild>>, <<Wild, hour>>, <<Wild, Wild>> >>

\* The order price_at tries them in.
Keys(day, hour) ==
    << <<day, hour>>, <<Wild, hour>>, <<day, Wild>>, <<Wild, Wild>> >>

\* PriceResolver over one court's rules.
PriceAt(rules, default, start) ==
    LET keys == Keys(ManilaDay(start) % 7, ManilaHour(start))
        Hit(i) == {r \in rules : <<r.day, r.hour>> = keys[i]}
        hits == {i \in DOMAIN keys : Hit(i) # {}}
    IN IF hits = {} THEN default
       ELSE LET first == CHOOSE i \in hits : \A j \in hits : i <= j
            IN (CHOOSE r \in Hit(first) : TRUE).price

\* The 24 prices of a Manila day, as the preview and the grid list them.
DayPrices(rules, default, day) ==
    [h \in HourOfDay |-> PriceAt(rules, default, DayStart(day) + h)]

\* round_half_up(price * percent / 100).
ConvenienceFee(price, percent) ==
    (2 * price * percent + 100 * PerCent) \div (200 * PerCent)

\* Mutant of AllocateFee: every share is rounded down.
AllocateFeeFloor(fee, prices) ==
    [i \in DOMAIN prices |->
        IF Total(prices) = 0 THEN 0 ELSE (fee * prices[i]) \div Total(prices)]

\* Each takes its floor share, the last the remainder.
AllocateFee(fee, prices) ==
    LET total == Total(prices)
        last == Len(prices)
        share == [i \in 1..(last - 1) |->
                    IF total = 0 THEN 0 ELSE (fee * prices[i]) \div total]
    IN Append(share, fee - Total(share))

MAX_CHECKOUT_HOURS == 24

\* The court-hours of an item.
Hours(item) == {<<item.court, item.start + h>> : h \in 0..(item.hours - 1)}

\* check_items.
ItemsAllowed(items) ==
    /\ items # <<>>
    /\ Total([i \in DOMAIN items |-> items[i].hours]) <= MAX_CHECKOUT_HOURS
    /\ \A i, j \in DOMAIN items : i # j => Hours(items[i]) \cap Hours(items[j]) = {}
=============================================================================
