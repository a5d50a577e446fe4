-------------------------------- MODULE Views --------------------------------
(***************************************************************************)
(* What customers, the grid and the console are shown of the flow.  Every   *)
(* view is computed from the rows and from a clock read by its own request, *)
(* so a hold that has lapsed and that no write has expired yet is the        *)
(* hard case of each.  One column only views read is added to the flow: when *)
(* a Maya session was opened.                                              *)
(***************************************************************************)
EXTENDS CheckoutFlow

CONSTANT SessionTicks    \* MAYA_SESSION, one hour

VARIABLE opened_at       \* payments.created_at

\* The hours somebody asks about: the courts of a venue, over some days.
ASSUME ViewsAssumption == IsFiniteSet(Cell) /\ SessionTicks \in Nat

vvars == <<vars, opened_at>>

ViewsInit == Init /\ opened_at = [s \in Session |-> Never]

\* created_at is when the paying request's transaction began: after the hold
\* was placed, at the latest now, and in the order of Session.
MayHaveBegun(c, s, t) ==
    /\ t \in 0..now /\ expires_at[c] - HoldTicks <= t
    /\ \A r \in Session : opened_at[r] # Never =>
          (r < s => opened_at[r] <= t) /\ (s < r => t <= opened_at[r])

Opens(c, s, t) ==
    /\ PayAsk(c, s)
    /\ MayHaveBegun(c, s, t)
    /\ opened_at' = [opened_at EXCEPT ![s] = t]

\* attempt_of changes when a session is opened, and only then.
ViewsNext ==
    \/ \E c \in Checkout, s \in Session, t \in 0..MaxTime : Opens(c, s, t)
    \/ Next /\ UNCHANGED <<attempt_of, opened_at>>

ViewsSpec == ViewsInit /\ [][ViewsNext]_vvars

-----------------------------------------------------------------------------

\* Mutant of Blocks: a hold still counts in the instant it ends.
BlocksAtDeadline(g, t) ==
    /\ Occupies(booking_status, g)
    /\ ~(booking_status[g] = "PENDING" /\ expires_at[CheckoutOf[g]] < t)

\* The filter of occupancy: off the calendar, or a hold that ended by t.
Blocks(g, t) ==
    /\ Occupies(booking_status, g)
    /\ ~(booking_status[g] = "PENDING" /\ expires_at[CheckoutOf[g]] <= t)

\* occupancy: the court-hours taken at t, by a booking or by a closure.
Taken(t) == CellsIn({g \in Group : Blocks(g, t)})
TakenByClosure(t) == CellsIn({g \in Maintenance : Blocks(g, t)})

\* booked_hours: occupancy minus closures.
BookedHours(t) == Cardinality(Taken(t) \ TakenByClosure(t))

\* One day of the console's strip: a closure shrinks what can be booked.
BookableHours(t) == Cardinality(Cell) - Cardinality(TakenByClosure(t))

\* A cell of the day grid.
GridStatus(x, t) ==
    CASE x \in TakenByClosure(t) -> "CLOSED"
      [] x \in Taken(t) \ TakenByClosure(t) -> "BOOKED"
      [] x \notin Taken(t) /\ StartsAt[x] < t + LeadTicks -> "PAST"
      [] OTHER -> "AVAILABLE"

-----------------------------------------------------------------------------
FirstHour(g) == CHOOSE t \in {StartsAt[x] : x \in CellsOf[g]} :
                    \A x \in CellsOf[g] : t <= StartsAt[x]

\* Mutant of DisplayStatus: PENDING is taken to mean held.
DisplayStatusStored(g, t) ==
    IF /\ booking_status[g] = "CONFIRMED"
       /\ FirstHour(g) <= t /\ t < FirstHour(g) + Cardinality(CellsOf[g]) * HourTicks
    THEN "IN_PROGRESS" ELSE booking_status[g]

\* display_status, what a booking reads at the console.
DisplayStatus(g, t) ==
    CASE booking_status[g] = "PENDING" /\ expires_at[CheckoutOf[g]] <= t -> "EXPIRED"
      [] /\ booking_status[g] = "CONFIRMED"
         /\ FirstHour(g) <= t /\ t < FirstHour(g) + Cardinality(CellsOf[g]) * HourTicks
         -> "IN_PROGRESS"
      [] OTHER -> booking_status[g]

\* What a booking reads on its customer's checkout: the row.
CheckoutBookingStatus(g) == booking_status[g]

\* What a checkout reads: a hold that ended reads CANCELLED.
CheckoutDisplayStatus(c, t) ==
    IF status[c] = "PENDING" /\ ~IsLive(c, t) THEN "CANCELLED" ELSE status[c]

\* payments.provider_status of s: NULL until a result of it is applied.
Unreported(s) == \A e \in events : e[1] # s

\* The hour of the session's page has not run out.
SessionOpen(s, t) == t < opened_at[s] + SessionTicks

\* Mutant of AwaitingPayment: a hold that ended or was given up is over.
AwaitingPaymentWhileHeld(c, t) ==
    /\ CheckoutDisplayStatus(c, t) = "PENDING"
    /\ \E s \in Session : IsLatest(s, c) /\ Unreported(s) /\ SessionOpen(s, t)

\* Could Maya still take money?  The page keeps asking while it could.
AwaitingPayment(c, t) ==
    /\ CheckoutDisplayStatus(c, t) \in {"PENDING", "CANCELLED"}
    /\ \E s \in Session : IsLatest(s, c) /\ Unreported(s) /\ SessionOpen(s, t)

-----------------------------------------------------------------------------
\* The grid keeps its word: every hour of a request that the window and the
\* calendar would grant at this clock is shown AVAILABLE, over lapsed holds that
\* nobody has expired too, and hours shown AVAILABLE are refused for one reason
\* only, the booking horizon, which the grid does not test.  And the console
\* counts what the grid shows.
GridKeepsItsWord ==
    /\ \A c \in Checkout : status[c] = Absent =>
          LET shown == \A x \in CellsIn(ItemsOf(c)) : GridStatus(x, now) = "AVAILABLE"
              granted == /\ ~TooSoon(c, now) /\ ~BeyondHorizon(c, now)
                         /\ CanClaim(booking_status, expires_at, ItemsOf(c), now)
          IN granted <=> shown /\ ~BeyondHorizon(c, now)
    /\ BookedHours(now) = Cardinality({x \in Cell : GridStatus(x, now) = "BOOKED"})
    /\ BookableHours(now) = Cardinality({x \in Cell : GridStatus(x, now) # "CLOSED"})

\* A hold that ended and that nothing has written off yet.
Unswept(c) == status[c] = "PENDING" /\ ~IsLive(c, now)

\* One story: of a checkout with a single session, what the customer reads and
\* what the console reads of its bookings never contradict each other, whatever
\* was applied, given up or left to lapse, and in whichever order.  The customer's
\* own list of the bookings, which shows the rows, agrees as well but for one
\* case: of a hold that ended and that nothing has written off, it may still
\* read PENDING under a checkout that reads CANCELLED.
OneStory ==
    \A c \in Checkout : status[c] # Absent /\ Cardinality(Recorded(c)) <= 1 =>
        LET console == {DisplayStatus(g, now) : g \in ItemsOf(c)}
            listed == {CheckoutBookingStatus(g) : g \in ItemsOf(c)}
        IN
        CASE CheckoutDisplayStatus(c, now) = "PENDING" ->
                 console = {"PENDING"} /\ listed = {"PENDING"}
          [] CheckoutDisplayStatus(c, now) = "SUCCESSFUL" ->
                 console \subseteq {"CONFIRMED", "IN_PROGRESS"} /\ listed = {"CONFIRMED"}
          [] OTHER ->
                 /\ console \subseteq {"CANCELLED", "EXPIRED"}
                 /\ "PENDING" \in listed => Unswept(c)
                 /\ listed \subseteq {"PENDING", "CANCELLED", "EXPIRED"}

\* The page of a checkout with one session says it is not booked and no longer
\* asks Maya.
ToldOver(c) ==
    /\ CheckoutDisplayStatus(c, now) \in {"CANCELLED", "FAILED", "REFUNDED"}
    /\ ~AwaitingPayment(c, now)
    /\ Cardinality(Recorded(c)) = 1

\* Maya's hour ran out before anything was heard of the session.
RanOut(c) == \E s \in Recorded(c) : Unreported(s) /\ ~SessionOpen(s, now)

\* Declined after the hold was over, and Maya's page left open for another card.
DeclinedAfterwards(c) ==
    /\ status[c] = "CANCELLED"
    /\ \E s \in Recorded(c), ps \in MayaFailed : <<s, ps>> \in events

\* The last word stands for as long as Maya's hour: a customer told that nothing
\* was booked, by a page that no longer asks Maya, is booked after all in three
\* cases only.  Staff have the checkout (its refund was reported before its
\* payment); a card declined after a cancellation is followed by another on the
\* same page; or the page stopped asking because the hour ran out, and the
\* first notice of all came later still.
LastWordStands ==
    [][\A c \in Checkout : ToldOver(c) /\ status'[c] = "SUCCESSFUL" =>
          WithStaff(c)' \/ DeclinedAfterwards(c) \/ RanOut(c)]_vars

-----------------------------------------------------------------------------
\* "What a user is shown ... a lapsed PENDING reads EXPIRED even if no write has
\* expired it" (bookings/domain/rules.py:116): nowhere does a booking whose hold
\* ended read PENDING.
LapsedReadsExpired ==
    \A c \in Checkout, g \in Group :
        CheckoutOf[g] = c /\ booking_status[g] = "PENDING" /\ expires_at[c] <= now =>
            "PENDING" \notin {DisplayStatus(g, now), CheckoutBookingStatus(g)}
=============================================================================
