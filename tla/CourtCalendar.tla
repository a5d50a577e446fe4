---------------------------- MODULE CourtCalendar ----------------------------
(***************************************************************************)
(* What the booking system promises about court-hours, with no clock, no    *)
(* payment and no database: who has which hours, and how hands change.      *)
(* CheckoutFlow implements it; see Calendar there.                          *)
(*                                                                         *)
(* A group of hours on one court is absent (not asked for yet), held        *)
(* (nobody else may take it), lapsed (the first to ask may take it), sold,  *)
(* or off the calendar.                                                     *)
(***************************************************************************)
EXTENDS FiniteSets

CONSTANTS
    Group,    \* groups of hours
    Hours,    \* the court-hours of a group
    Online,   \* customers' requests: sets of groups, bought together
    AtDesk    \* walk-ins and closures: sets of groups, entered together

VARIABLE tenure

Tenure == {"absent", "held", "lapsed", "sold", "off"}

CalendarTypeOK == tenure \in [Group -> Tenure]

HoursIn(R) == UNION {Hours[g] : g \in R}

InTheWay(R) == {g \in Group \ R : Hours[g] \cap HoursIn(R) # {}}

\* R goes to `to`, whatever had lapsed in its way leaves.  A group that is
\* held or sold is never pushed aside.
Take(R, to) ==
    /\ \A g \in InTheWay(R) : tenure[g] \notin {"held", "sold"}
    /\ tenure' = [g \in Group |->
          IF g \in R THEN to
          ELSE IF g \in InTheWay(R) /\ tenure[g] = "lapsed" THEN "off" ELSE tenure[g]]

\* A customer holds every court asked for, or none.  A request slow enough
\* commits a hold that has already lapsed.
Hold(R) ==
    /\ \A g \in R : tenure[g] = "absent"
    /\ Take(R, "held") \/ Take(R, "lapsed")

\* Time passes: some holds lapse.
Lapse ==
    /\ \A g \in Group : tenure'[g] = tenure[g] \/ (tenure[g] = "held" /\ tenure'[g] = "lapsed")
    /\ tenure' \in [Group -> Tenure]

\* The customer's courts are sold together, from a hold or after it ended.
Sell(R) ==
    /\ \A g \in R : tenure[g] \in {"held", "lapsed", "off"}
    /\ Take(R, "sold")

\* What the customer still held of R is let go.
LetGo(R) ==
    tenure' = [g \in Group |-> IF g \in R /\ tenure[g] \in {"held", "lapsed"} THEN "off" ELSE tenure[g]]

\* A walk-in or a closure.
Enter(R) ==
    /\ \A g \in R : tenure[g] = "absent"
    /\ Take(R, "sold")

\* Staff take one sold group off, or write an outcome on a group they had
\* already taken off, if its hours are still free.
Withdraw(g) == tenure[g] = "sold" /\ tenure' = [tenure EXCEPT ![g] = "off"]

Revive(g) ==
    /\ tenure[g] = "off"
    /\ \A h \in InTheWay({g}) : tenure[h] \notin {"held", "lapsed", "sold"}
    /\ tenure' = [tenure EXCEPT ![g] = "sold"]

CalendarInit == tenure = [g \in Group |-> "absent"]

CalendarNext ==
    \/ \E R \in Online : Hold(R) \/ Sell(R) \/ LetGo(R)
    \/ \E R \in AtDesk : Enter(R)
    \/ \E g \in Group : Withdraw(g) \/ Revive(g)
    \/ Lapse

CalendarSpec == CalendarInit /\ [][CalendarNext]_tenure
=============================================================================
