------------------------------ MODULE MCQuotes ------------------------------
(* Two courts and two checkouts around Sunday midnight in Manila.            *)
EXTENDS Quotes, TLC

CONSTANTS c1, c2, c3, r1, r2

Item(court, start, hours) == [court |-> court, start |-> start, hours |-> hours]

\* Sunday 23:00 in Manila is 15:00 UTC.  The last one is refused.
Picks ==
    { <<Item(c1, 15, 2)>>,
      <<Item(c1, 15, 1), Item(c2, 15, 1), Item(c3, 15, 1)>>,
      <<Item(c1, 15, 2), Item(c1, 16, 1)>> }

Rule(court, day, hour, price) == [court |-> court, day |-> day, hour |-> hour, price |-> price]

\* A flat rate, and eleven in the evening; the other courts cost the default.
Tariffs == {{Rule(c1, Wild, Wild, 2), Rule(c1, Wild, 23, 5)}}

\* The flat rate becomes free, Sundays get a rate, which ends when Monday
\* starts in Manila and it is still Sunday in UTC.
Changes == {Rule(c1, Wild, Wild, 0), Rule(c1, 0, Wild, 3)}

\* 62.5 per cent, in hundredths of one.
AtFirst == [default |-> 1, percent |-> 6250]

Interchangeable == Permutations({r1, r2})
=============================================================================
