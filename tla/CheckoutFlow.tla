----------------------------- MODULE CheckoutFlow -----------------------------
(***************************************************************************)
(* "Pay now" from the hold to the money: checkouts/service.py, the parts of *)
(* bookings/service.py that share its calendar, and payments/service.py,    *)
(* composed over one database and one payment provider.                     *)
(*                                                                         *)
(* One action is one database transaction, taken at its commit: writers of  *)
(* one checkout queue on its row lock, writers of one court-hour on the slot*)
(* index.  A request is split where the code gives control away with state  *)
(* in hand: a clock read before a lock wait, a check before an insert, a    *)
(* call to Maya before a write, an effect after a commit.  A request the    *)
(* code refuses changes nothing and is no step; a crash is a request whose  *)
(* next step never comes.                                                  *)
(***************************************************************************)
EXTENDS BookingRepository

CONSTANTS
    Customer,      \* users who book
    CustomerOf,    \* the customer of a checkout
    Session,       \* Maya sessions in the order their requests began: 1..n
    PageOutcome,   \* what the payer can make of Maya's page
    DeskOps,       \* what venue staff do in this instance
    MaxDesk,       \* bound: staff requests in flight
    HoldTicks,     \* hold_duration_minutes, in ticks of the clock
    LeadTicks,     \* min_lead_minutes
    HorizonTicks,  \* booking_horizon_days
    HourTicks,     \* SLOT, one hour
    MaxHolds,      \* max_active_holds_per_player
    MaxTime        \* bound: the last tick

PaymentOutcome == {"PENDING", "SUCCESSFUL", "FAILED", "CANCELLED", "REFUNDED"}

SETTLED == {"SUCCESSFUL", "REFUNDED"}

\* MAYA_STATUSES, by outcome; every other status reads PENDING.
\* Paid is the checkout's own payment; Amiss is a PAYMENT_SUCCESS whose amount
\* or reference is not the checkout's.
Paid == "PAYMENT_SUCCESS"
Amiss == "PAYMENT_SUCCESS, amiss"
MayaPaid == {Paid, Amiss}
MayaFailed == {"PAYMENT_FAILED", "AUTH_FAILED"}
MayaBackedOut == {"PAYMENT_CANCELLED", "PAYMENT_EXPIRED"}
MayaUndone == {"VOIDED", "REFUNDED"}
MayaPending == {"PENDING_TOKEN"}
MayaStatus == MayaPaid \cup MayaFailed \cup MayaBackedOut \cup MayaUndone \cup MayaPending

\* Mutant of OutcomeOf: Maya's word is stored as it came.
OutcomeAsReported(ps) == ps

OutcomeOf(ps) ==
    CASE ps \in MayaPaid -> "SUCCESSFUL"
      [] ps \in MayaFailed -> "FAILED"
      [] ps \in MayaBackedOut -> "CANCELLED"
      [] ps \in MayaUndone -> "REFUNDED"
      [] ps \in MayaPending -> "PENDING"

Desk == {"CANCELLED", "COMPLETED", "NO_SHOW", "resolve", "mark_paid"}

Never == -1      \* a request that has not read its clock

ASSUME FlowAssumption ==
    /\ CustomerOf \in [Checkout -> Customer]
    /\ Session \subseteq Nat /\ IsFiniteSet(Session)
    /\ PageOutcome \subseteq MayaPaid \cup MayaFailed \cup MayaBackedOut
    /\ DeskOps \subseteq Desk
    /\ {HoldTicks, LeadTicks, HorizonTicks, HourTicks, MaxHolds, MaxTime, MaxDesk} \subseteq Nat

VARIABLES
    now,                \* datetime.now(UTC)
    booking_status,     \* booking_groups and, copied, booking_slots
    payment_status,
    needs_resolution,
    status,             \* checkouts
    expires_at,
    attempt,            \* payments: none, asked (at Maya, no row), recorded
    attempt_of,         \* the session's checkout
    attempt_status,
    refunds,            \* payments with a refunds row
    events,             \* webhook_events: <<session, Maya status>>
    maya,               \* the session's status at Maya
    reported,           \* every status a sync of the session may have read
    create_now,         \* clock read by the request creating the checkout
    cancel_now,         \* clock read by a request cancelling it
    undo,               \* the tail of sync_payment, after its commit
    desk,               \* staff requests past their checks
    resolved,           \* groups staff took out of the queue
    accused             \* sessions whose note says "refunded, but not by us"

groups == <<booking_status, payment_status, needs_resolution>>
checkouts == <<status, expires_at>>
payments == <<attempt, attempt_of, attempt_status, refunds, events>>
provider == <<maya, reported>>
requests == <<create_now, cancel_now, undo, desk>>
history == <<resolved, accused>>
vars == <<now, groups, checkouts, payments, provider, requests, history>>

TypeOK ==
    /\ now \in 0..MaxTime
    /\ booking_status \in [Group -> BookingStatus \cup {Absent}]
    /\ payment_status \in [Group -> {"UNPAID", "PAID"}]
    /\ needs_resolution \in [Group -> BOOLEAN]
    /\ status \in [Checkout -> PaymentOutcome \cup {Absent}]
    /\ expires_at \in [Checkout -> Int]
    /\ attempt \in [Session -> {"none", "asked", "recorded"}]
    /\ attempt_of \in [Session -> Checkout \cup {NoCheckout}]
    /\ attempt_status \in [Session -> PaymentOutcome \cup {Absent}]
    /\ refunds \subseteq Session
    /\ events \subseteq Session \X MayaStatus
    /\ maya \in [Session -> MayaStatus \cup {Absent}]
    /\ reported \in [Session -> SUBSET MayaStatus]
    /\ create_now \in [Checkout -> 0..MaxTime \cup {Never}]
    /\ cancel_now \in [Checkout -> 0..MaxTime \cup {Never}]
    /\ undo \in [Session -> {"none", "due", "done", "refused"}]
    /\ desk \subseteq Group \X Desk
    /\ resolved \subseteq Group
    /\ accused \subseteq Session

Init ==
    /\ now = 0
    /\ booking_status = [g \in Group |-> Absent]
    /\ payment_status = [g \in Group |-> "UNPAID"]
    /\ needs_resolution = [g \in Group |-> FALSE]
    /\ status = [c \in Checkout |-> Absent]
    /\ expires_at = [c \in Checkout |-> Never]
    /\ attempt = [s \in Session |-> "none"]
    /\ attempt_of = [s \in Session |-> NoCheckout]
    /\ attempt_status = [s \in Session |-> Absent]
    /\ refunds = {}
    /\ events = {}
    /\ maya = [s \in Session |-> Absent]
    /\ reported = [s \in Session |-> {}]
    /\ create_now = [c \in Checkout |-> Never]
    /\ cancel_now = [c \in Checkout |-> Never]
    /\ undo = [s \in Session |-> "none"]
    /\ desk = {}
    /\ resolved = {}
    /\ accused = {}

Tick ==
    /\ now < MaxTime
    /\ now' = now + 1
    /\ UNCHANGED <<groups, checkouts, payments, provider, requests, history>>

-----------------------------------------------------------------------------
(* Checkouts: the hold.                                                     *)

\* The PENDING trap: a hold is live only before its deadline.
IsLive(c, t) == status[c] = "PENDING" /\ expires_at[c] > t

LiveHolds(customer, t) == {c \in Checkout : CustomerOf[c] = customer /\ IsLive(c, t)}

\* The two refusals of check_player_window.
TooSoon(c, t) == \E x \in CellsIn(ItemsOf(c)) : StartsAt[x] < t + LeadTicks
BeyondHorizon(c, t) == \E x \in CellsIn(ItemsOf(c)) : StartsAt[x] > t + HorizonTicks

\* create, up to its savepoint: the clock, the window, the unlocked count.
CreateCheck(c) ==
    /\ create_now[c] = Never
    /\ ~TooSoon(c, now) /\ ~BeyondHorizon(c, now)
    /\ Cardinality(LiveHolds(CustomerOf[c], now)) < MaxHolds
    /\ create_now' = [create_now EXCEPT ![c] = now]
    /\ UNCHANGED <<now, groups, checkouts, payments, provider, cancel_now, undo, desk, history>>

\* create, its savepoint and commit: every item is held or none is.
CreateCommit(c) ==
    LET t == create_now[c] IN
    /\ t # Never
    /\ status[c] = Absent
    /\ CanClaim(booking_status, expires_at, ItemsOf(c), t)
    /\ status' = [status EXCEPT ![c] = "PENDING"]
    /\ expires_at' = [expires_at EXCEPT ![c] = t + HoldTicks]
    /\ booking_status' = Claim(booking_status, expires_at, ItemsOf(c), "PENDING", t)
    /\ UNCHANGED <<now, payment_status, needs_resolution, payments, provider, requests, history>>

\* cancel reads the clock, then waits for the checkout's row lock.
CancelStart(c) ==
    /\ status[c] # Absent
    /\ cancel_now[c] = Never
    /\ cancel_now' = [cancel_now EXCEPT ![c] = now]
    /\ UNCHANGED <<now, groups, checkouts, payments, provider, create_now, undo, desk, history>>

Recorded(c) == {s \in Session : attempt[s] = "recorded" /\ attempt_of[s] = c}

\* latest_for_checkout orders by created_at: when the request's transaction
\* began, which is the order of Session.
IsLatest(s, c) == s \in Recorded(c) /\ \A r \in Recorded(c) : r <= s

\* Mutant of CancelAllowed: the status is not read again under the lock.
CancelAllowedUnread(c) == cancel_now[c] # Never /\ expires_at[c] > cancel_now[c]

\* cancel, with the lock: the status is read again, the clock is not.
CancelAllowed(c) == cancel_now[c] # Never /\ IsLive(c, cancel_now[c])

CancelCommit(c) ==
    /\ CancelAllowed(c)
    /\ status' = [status EXCEPT ![c] = "CANCELLED"]
    /\ booking_status' = SetStatus(booking_status, ItemsOf(c), "CANCELLED")
    /\ attempt_status' = [s \in Session |->
          IF IsLatest(s, c) /\ attempt_status[s] = "PENDING"
          THEN "CANCELLED" ELSE attempt_status[s]]
    /\ UNCHANGED <<now, payment_status, needs_resolution, expires_at, attempt, attempt_of,
                   refunds, events, provider, requests, history>>

-----------------------------------------------------------------------------
(* Payments: opening Maya.                                                  *)

\* pay: the hold is live and start_checkout finds no attempt; Maya is called.
PayAsk(c, s) ==
    /\ attempt[s] = "none"
    /\ IsLive(c, now)
    /\ Recorded(c) = {}
    /\ attempt' = [attempt EXCEPT ![s] = "asked"]
    /\ attempt_of' = [attempt_of EXCEPT ![s] = c]
    /\ UNCHANGED <<now, groups, checkouts, attempt_status, refunds, events, provider, requests,
                   history>>

\* add_checkout: uq_payments_one_open_attempt refuses a second PENDING row,
\* and the caller answers with the winner's URL.  Only a recorded session's
\* URL is ever shown, so only that one can be paid.
PayRecord(s) ==
    /\ attempt[s] = "asked"
    /\ \A r \in Recorded(attempt_of[s]) : attempt_status[r] # "PENDING"
    /\ attempt' = [attempt EXCEPT ![s] = "recorded"]
    /\ attempt_status' = [attempt_status EXCEPT ![s] = "PENDING"]
    /\ maya' = [maya EXCEPT ![s] = "PENDING_TOKEN"]
    /\ UNCHANGED <<now, groups, checkouts, attempt_of, refunds, events, reported, requests,
                   history>>

-----------------------------------------------------------------------------
(* Maya, as the code uses it.                                               *)

\* Maya's status moves to ps, and any later sync may read it.
MayaMoves(s, ps) ==
    /\ maya' = [maya EXCEPT ![s] = ps]
    /\ reported' = [reported EXCEPT ![s] = @ \cup {ps}]

\* The payer settles the page; a declined card may be tried again.
Settle(s, ps) ==
    /\ maya[s] \in MayaPending \cup MayaFailed
    /\ ps \in PageOutcome
    /\ MayaMoves(s, ps)
    /\ UNCHANGED <<now, groups, checkouts, payments, requests, history>>

\* Staff refund by hand, in Maya's own console.
RefundByHand(s) ==
    /\ maya[s] \in MayaPaid
    /\ MayaMoves(s, "REFUNDED")
    /\ UNCHANGED <<now, groups, checkouts, payments, requests, history>>

-----------------------------------------------------------------------------
(* sync_payment: the webhook, the mock page and "check again".  A result    *)
(* read from Maya may be applied at any later time, or never.               *)

\* Mutant of FirstReport: nothing is remembered.
EveryReport(s, ps) == ps \in reported[s] /\ events' = events \cup {<<s, ps>>}

\* record_event inserts first: a status of a session is applied once.
FirstReport(s, ps) ==
    /\ ps \in reported[s]
    /\ <<s, ps>> \notin events
    /\ events' = events \cup {<<s, ps>>}

\* Mutant of Flag: only what is still on the calendar reaches the queue.
FlagConfirmed(G) ==
    needs_resolution' = [g \in Group |->
        (g \in G /\ booking_status[g] = "CONFIRMED") \/ needs_resolution[g]]

Flag(G) == needs_resolution' = [g \in Group |-> g \in G \/ needs_resolution[g]]

\* Mutant of OpenItems: a hold that ended is taken for one already expired.
LiveItems(c) == {g \in ItemsOf(c) : booking_status[g] = "PENDING" /\ IsLive(c, now)}

\* The groups of c nobody has expired or cancelled yet.
OpenItems(c) == {g \in ItemsOf(c) : booking_status[g] = "PENDING"}

\* _release: declined, backed out or expired at Maya.
ApplyRelease(s, ps) ==
    LET c == attempt_of[s]
        outcome == OutcomeOf(ps)
    IN
    /\ ps \in MayaFailed \cup MayaBackedOut
    /\ FirstReport(s, ps)
    /\ attempt_status' = [attempt_status EXCEPT ![s] = IF @ \in SETTLED THEN @ ELSE outcome]
    /\ IF status[c] = "PENDING"
       THEN /\ status' = [status EXCEPT ![c] = outcome]
            /\ booking_status' = SetStatus(booking_status, OpenItems(c),
                  IF IsLive(c, now) \/ ps \in MayaFailed THEN "CANCELLED" ELSE "EXPIRED")
       ELSE UNCHANGED <<status, booking_status>>
    /\ UNCHANGED <<now, payment_status, needs_resolution, expires_at, attempt, attempt_of,
                   refunds, provider, requests, history>>

\* _apply of VOIDED or REFUNDED with no refund of ours on record.
ApplyForeignRefund(s, ps) ==
    /\ ps \in MayaUndone /\ s \notin refunds
    /\ FirstReport(s, ps)
    /\ Flag(ItemsOf(attempt_of[s]))
    /\ accused' = accused \cup {s}
    /\ UNCHANGED <<now, booking_status, payment_status, checkouts, attempt, attempt_of,
                   attempt_status, refunds, provider, requests, resolved>>

\* _apply of VOIDED or REFUNDED that confirms our own refund.
ApplyOwnRefund(s, ps) ==
    /\ ps \in MayaUndone /\ s \in refunds
    /\ FirstReport(s, ps)
    /\ attempt_status' = [attempt_status EXCEPT ![s] = "REFUNDED"]
    /\ status' = [status EXCEPT ![attempt_of[s]] = "REFUNDED"]
    /\ UNCHANGED <<now, groups, expires_at, attempt, attempt_of, refunds, provider, requests,
                   history>>

\* Mutant of Unbookable: the amount and the reference are not compared.
UnbookableByStatus(s, ps) == status[attempt_of[s]] \notin {"PENDING", "CANCELLED"}

\* _paid's first two tests: the money is not for this checkout, or comes
\* after its verdict.
Unbookable(s, ps) ==
    ps = Amiss \/ status[attempt_of[s]] \notin {"PENDING", "CANCELLED"}

ApplyPaidUnbookable(s, ps) ==
    /\ ps \in MayaPaid
    /\ FirstReport(s, ps)
    /\ Unbookable(s, ps)
    /\ Flag(ItemsOf(attempt_of[s]))
    /\ UNCHANGED <<now, booking_status, payment_status, checkouts, attempt, attempt_of,
                   attempt_status, refunds, provider, requests, history>>

\* The booking of a paid checkout: the row settles, every group is confirmed
\* and paid, the verdict is SUCCESSFUL.
Book(s, ps, statuses) ==
    LET c == attempt_of[s] IN
    /\ ps \in MayaPaid
    /\ FirstReport(s, ps)
    /\ ~Unbookable(s, ps)
    /\ attempt_status' = [attempt_status EXCEPT ![s] = "SUCCESSFUL"]
    /\ booking_status' = statuses
    /\ payment_status' = [g \in Group |-> IF g \in ItemsOf(c) THEN "PAID" ELSE payment_status[g]]
    /\ status' = [status EXCEPT ![c] = "SUCCESSFUL"]
    /\ UNCHANGED <<now, needs_resolution, expires_at, attempt, attempt_of, refunds, provider,
                   requests, history>>

\* Mutant of ApplyPaidLive: the loop over the groups ends after the first.
ApplyPaidFirstGroup(s, ps) ==
    LET c == attempt_of[s] IN
    /\ attempt[s] = "recorded" /\ IsLive(c, now)
    /\ Book(s, ps, SetStatus(booking_status, {CHOOSE g \in ItemsOf(c) : TRUE}, "CONFIRMED"))

ApplyPaidLive(s, ps) ==
    LET c == attempt_of[s] IN
    /\ attempt[s] = "recorded" /\ IsLive(c, now)
    /\ Book(s, ps, SetStatus(booking_status, ItemsOf(c), "CONFIRMED"))

\* Mutant of Reacquirable: the index is not asked.
StillAhead(c) == StartAfter(ItemsOf(c), now)

\* The hold ended, or was cancelled, before Maya said paid: the hours are
\* taken back when all of them are still ahead and free.
Reacquirable(c) ==
    /\ StartAfter(ItemsOf(c), now)
    /\ CanClaim(booking_status, expires_at, ItemsOf(c), now)

ApplyPaidLate(s, ps) ==
    LET c == attempt_of[s] IN
    /\ attempt[s] = "recorded" /\ ~IsLive(c, now) /\ Reacquirable(c)
    /\ Book(s, ps, Claim(booking_status, expires_at, ItemsOf(c), "CONFIRMED", now))

\* Otherwise nothing is booked: flagged and committed before Maya is called.
ApplyPaidLost(s, ps) ==
    LET c == attempt_of[s] IN
    /\ attempt[s] = "recorded" /\ ps \in MayaPaid /\ ~Unbookable(s, ps)
    /\ ~IsLive(c, now) /\ ~Reacquirable(c)
    /\ FirstReport(s, ps)
    /\ attempt_status' = [attempt_status EXCEPT ![s] = "SUCCESSFUL"]
    /\ booking_status' = SetStatus(booking_status, OpenItems(c), "EXPIRED")
    /\ status' = [status EXCEPT ![c] = "CANCELLED"]
    /\ Flag(ItemsOf(c))
    /\ undo' = [undo EXCEPT ![s] = "due"]
    /\ UNCHANGED <<now, payment_status, expires_at, attempt, attempt_of, refunds, provider,
                   create_now, cancel_now, desk, history>>

\* _undo's call to Maya: a void on the payment's Manila day, else a refund.
UndoAccepted(s, ps) ==
    /\ undo[s] = "due"
    /\ maya[s] \in MayaPaid /\ ps \in MayaUndone
    /\ MayaMoves(s, ps)
    /\ undo' = [undo EXCEPT ![s] = "done"]
    /\ UNCHANGED <<now, groups, checkouts, payments, create_now, cancel_now, desk, history>>

\* Mutant of UndoRefused: an undo that Maya refused is left for another try.
UndoRefusedForNow(s) ==
    /\ undo[s] = "due"
    /\ \/ UNCHANGED provider
       \/ maya[s] \in MayaPaid /\ MayaMoves(s, "VOIDED")
    /\ UNCHANGED <<now, groups, checkouts, payments, requests, history>>

\* A ProviderError, whether or not Maya had already moved the money.
UndoRefused(s) ==
    /\ undo[s] = "due"
    /\ undo' = [undo EXCEPT ![s] = "refused"]
    /\ \/ UNCHANGED provider
       \/ maya[s] \in MayaPaid /\ MayaMoves(s, "VOIDED")
    /\ UNCHANGED <<now, groups, checkouts, payments, create_now, cancel_now, desk, history>>

\* _undo's transaction after Maya took the money back: the checkout reads
\* REFUNDED and its groups leave the queue.
UndoRecord(s) ==
    LET c == attempt_of[s] IN
    /\ undo[s] = "done"
    /\ undo' = [undo EXCEPT ![s] = "none"]
    /\ refunds' = refunds \cup {s}
    /\ attempt_status' = [attempt_status EXCEPT ![s] = "REFUNDED"]
    /\ status' = [status EXCEPT ![c] = "REFUNDED"]
    /\ needs_resolution' = [g \in Group |-> needs_resolution[g] /\ g \notin ItemsOf(c)]
    /\ UNCHANGED <<now, booking_status, payment_status, expires_at, attempt, attempt_of, events,
                   provider, create_now, cancel_now, desk, history>>

\* _undo's transaction after a ProviderError: "refund by hand".
UndoByHand(s) ==
    /\ undo[s] = "refused"
    /\ undo' = [undo EXCEPT ![s] = "none"]
    /\ Flag(ItemsOf(attempt_of[s]))
    /\ UNCHANGED <<now, booking_status, payment_status, checkouts, payments, provider, create_now,
                   cancel_now, desk, history>>

-----------------------------------------------------------------------------
(* The venue's desk: bookings/service.py.  Its guards are read without a    *)
(* lock, its writes come later and are unconditional.                       *)

\* create_walk_in and close_courts: on the calendar at once.
DeskClaim(G) ==
    /\ \A g \in G : booking_status[g] = Absent
    /\ CanClaim(booking_status, expires_at, G, now)
    /\ booking_status' = Claim(booking_status, expires_at, G, "CONFIRMED", now)
    /\ UNCHANGED <<now, payment_status, needs_resolution, checkouts, payments, provider, requests,
                   history>>

WalkInBooked(g) == g \in WalkIn /\ DeskClaim({g})

\* A closure may begin in the hour that is running.
CourtsClosed(R) == R \in Closure /\ StartAfter(R, now - HourTicks) /\ DeskClaim(R)

\* can_cancel_by_staff and can_cancel_closure, can_set_outcome, can_mark_paid
\* and resolve's test of the flag.
DeskAllows(g, op) ==
    CASE op = "CANCELLED" -> booking_status[g] = "CONFIRMED"
      [] op \in {"COMPLETED", "NO_SHOW"} ->
            /\ g \notin Maintenance
            /\ booking_status[g] = "CONFIRMED"
            /\ \E x \in CellsOf[g] : StartsAt[x] <= now
      [] op = "resolve" -> needs_resolution[g]
      [] op = "mark_paid" -> /\ g \in WalkIn
                             /\ payment_status[g] = "UNPAID"
                             /\ booking_status[g] \in {"CONFIRMED", "COMPLETED"}

DeskCheck(g, op) ==
    /\ op \in DeskOps
    /\ <<g, op>> \notin desk /\ Cardinality(desk) < MaxDesk
    /\ DeskAllows(g, op)
    /\ desk' = desk \cup {<<g, op>>}
    /\ UNCHANGED <<now, groups, checkouts, payments, provider, create_now, cancel_now, undo,
                   history>>

\* cancel_by_staff, reopen, set_outcome: through set_status, under the index.
DeskSetsStatus(g, op) ==
    /\ <<g, op>> \in desk /\ op \in BookingStatus
    /\ op \in RELEASING \/ Accepts(booking_status, {g})
    /\ desk' = desk \ {<<g, op>>}
    /\ booking_status' = [booking_status EXCEPT ![g] = op]
    /\ UNCHANGED <<now, payment_status, needs_resolution, checkouts, payments, provider,
                   create_now, cancel_now, undo, history>>

DeskResolves(g) ==
    /\ <<g, "resolve">> \in desk
    /\ desk' = desk \ {<<g, "resolve">>}
    /\ needs_resolution' = [needs_resolution EXCEPT ![g] = FALSE]
    /\ resolved' = resolved \cup {g}
    /\ UNCHANGED <<now, booking_status, payment_status, checkouts, payments, provider, create_now,
                   cancel_now, undo, accused>>

DeskMarksPaid(g) ==
    /\ <<g, "mark_paid">> \in desk
    /\ desk' = desk \ {<<g, "mark_paid">>}
    /\ payment_status' = [payment_status EXCEPT ![g] = "PAID"]
    /\ UNCHANGED <<now, booking_status, needs_resolution, checkouts, payments, provider,
                   create_now, cancel_now, undo, history>>

-----------------------------------------------------------------------------
Sync(s) ==
    \E ps \in MayaStatus :
        \/ ApplyRelease(s, ps) \/ ApplyForeignRefund(s, ps) \/ ApplyOwnRefund(s, ps)
        \/ ApplyPaidUnbookable(s, ps) \/ ApplyPaidLive(s, ps)
        \/ ApplyPaidLate(s, ps) \/ ApplyPaidLost(s, ps)

Undo(s) ==
    \/ \E ps \in MayaUndone : UndoAccepted(s, ps)
    \/ UndoRefused(s) \/ UndoRecord(s) \/ UndoByHand(s)

Next ==
    \/ Tick
    \/ \E c \in Checkout :
          \/ CreateCheck(c) \/ CreateCommit(c) \/ CancelStart(c) \/ CancelCommit(c)
          \/ \E s \in Session : PayAsk(c, s)
    \/ \E s \in Session :
          \/ PayRecord(s) \/ RefundByHand(s) \/ Sync(s) \/ Undo(s)
          \/ \E ps \in PageOutcome : Settle(s, ps)
    \/ \E g \in Group :
          \/ WalkInBooked(g) \/ DeskResolves(g) \/ DeskMarksPaid(g)
          \/ \E op \in Desk : DeskCheck(g, op) \/ DeskSetsStatus(g, op)
    \/ \E R \in Closure : CourtsClosed(R)

Spec == Init /\ [][Next]_vars

-----------------------------------------------------------------------------
(* What must hold.                                                          *)

\* Two occupied groups never share a court-hour, whichever of the hold, the
\* late payment, the walk-in, the closure or the revived outcome put them there.
NoDoubleBooking == Exclusive(booking_status)

\* A live hold is whole: until its deadline no other request's cleanup, no
\* webhook and no staff action takes a single one of its courts.
LiveHoldIsWhole ==
    \A c \in Checkout : IsLive(c, now) =>
        \A g \in ItemsOf(c) : booking_status[g] = "PENDING"

\* A success of the session has been applied.
Captured(s) == \E ps \in MayaPaid : <<s, ps>> \in events

\* Nobody keeps a court unpaid: a player's group stands as confirmed, played
\* or missed only if a verified payment of its own checkout was applied.
OnlyPaidBookingsStand ==
    \A g \in Group :
        CheckoutOf[g] # NoCheckout /\ Occupies(booking_status, g) /\ booking_status[g] # "PENDING"
        => \E s \in Recorded(CheckoutOf[g]) : <<s, Paid>> \in events

\* The only session ever recorded for its checkout.
Sole(s) == Recorded(attempt_of[s]) = {s}

\* Staff know of the checkout: it is in the resolution queue or was.
WithStaff(c) == \A g \in ItemsOf(c) : needs_resolution[g] \/ g \in resolved

\* Money is never dropped silently, even by a crash: once the success of a
\* checkout's only session is applied, the checkout is booked, or its refund is
\* on record, or staff have it in their queue; and money that went back by
\* another hand than ours is in the queue too.
MoneyAccounted ==
    \A s \in Session : attempt[s] = "recorded" /\ Sole(s) =>
        LET c == attempt_of[s] IN
        /\ Captured(s) =>
              status[c] = "SUCCESSFUL" \/ s \in refunds \/ WithStaff(c)
        /\ \A ps \in MayaUndone : <<s, ps>> \in events /\ s \notin refunds => WithStaff(c)

\* When our own undo is on record nothing of the checkout is booked: money
\* back and court kept never go together.
UndoneBooksNothing ==
    \A s \in refunds : Sole(s) =>
        \A g \in ItemsOf(attempt_of[s]) : ~Occupies(booking_status, g)

\* Staff are only asked about a checkout with a reason: money that did
\* not book it, money paid twice over, or money that went back.
FlaggedForCause ==
    \A c \in Checkout : (\E g \in ItemsOf(c) : needs_resolution[g]) =>
        \E s \in Recorded(c) :
            \/ <<s, Amiss>> \in events
            \/ <<s, Paid>> \in events /\ {attempt_status[s], status[c]} # {"SUCCESSFUL"}
            \/ Captured(s) /\ \E r \in Recorded(c) \ {s} : Captured(r)
            \/ \E ps \in MayaUndone : <<s, ps>> \in events

\* Paid is final: a SUCCESSFUL checkout is only ever reversed by a refund
\* that is ours and on record; a verdict never goes back to a hold.
PaidIsFinal ==
    [][\A c \in Checkout :
          /\ status[c] = "SUCCESSFUL" /\ status'[c] # "SUCCESSFUL" =>
                status'[c] = "REFUNDED" /\ \E s \in refunds' : attempt_of[s] = c
          /\ status'[c] = "PENDING" => status[c] \in {Absent, "PENDING"}]_vars

\* A paid checkout keeps its courts: a group of it leaves the calendar only by
\* a staff cancellation, and never by the cleanup of lapsed holds.
PaidHoursKept ==
    [][\A g \in Group :
          /\ CheckoutOf[g] # NoCheckout /\ status[CheckoutOf[g]] = "SUCCESSFUL"
          /\ Occupies(booking_status, g) /\ ~Occupies(booking_status', g)
          => <<g, "CANCELLED">> \in desk /\ booking_status'[g] = "CANCELLED"]_vars

\* All or nothing: a checkout's courts are sold in one step, all of them.
SoldTogether ==
    [][\A c \in Checkout : status[c] # "SUCCESSFUL" /\ status'[c] = "SUCCESSFUL" =>
          \A g \in ItemsOf(c) : booking_status'[g] = "CONFIRMED" /\ payment_status'[g] = "PAID"]_vars

-----------------------------------------------------------------------------
(* What must happen.  Nobody promises that a notice arrives: Maya gives up   *)
(* after four attempts (payments/controllers/webhooks.py:20) and only the    *)
(* customer can ask again.  The one process assumed to go on is the request  *)
(* that applied a lost payment and has its undo still to do.                *)

FairSpec == Spec /\ \A s \in Session : WF_vars(Undo(s))

\* Money at rest: the checkout is booked, or Maya gave the money back, or staff
\* have it, and no undo is left open.
AtRest(s) ==
    /\ attempt[s] = "recorded" /\ undo[s] = "none"
    /\ status[attempt_of[s]] = "SUCCESSFUL" \/ maya[s] \in MayaUndone \/ WithStaff(attempt_of[s])

\* Captured money comes to rest: once a success of the session was applied, from
\* some moment on it stays at rest, whichever of the booking, the undo, its
\* failure at Maya, a refund by hand, a further notice or staff come in between.
\* It is about checkouts of one session (see EveryPaymentFollowedUp).
CapturedMoneySettles == \A s \in Session : Captured(s) ~> []AtRest(s)

-----------------------------------------------------------------------------
(* What the code's own words say of it, beyond what it does.                *)

\* "today exactly one per checkout" (payments/persistence/models.py:20): the
\* payer never has two sessions of one checkout open to pay.
OnePayableSession ==
    \A c \in Checkout :
        Cardinality({s \in Recorded(c) : maya[s] \in MayaPending \cup MayaFailed}) <= 1

\* "Cap on unexpired holds per player" (migrations/versions/0001_parameters.py:40).
HoldLimit == \A u \in Customer : Cardinality(LiveHolds(u, now)) <= MaxHolds

\* "undo it in full and book nothing" (payments/service.py:242), whatever the
\* number of sessions: a REFUNDED checkout keeps no court.
RefundedBooksNothing ==
    \A c \in Checkout : status[c] = "REFUNDED" =>
        \A g \in ItemsOf(c) : ~Occupies(booking_status, g)

\* The checkout has its courts, and they are paid.
Booked(c) ==
    \A g \in ItemsOf(c) : Occupies(booking_status, g) /\ payment_status[g] = "PAID"

\* "Never drop it silently" and "A failure stays flagged for staff"
\* (payments/service.py:243, :336), whatever the number of sessions: an applied
\* success has its court, its refund, the queue, or an undo that is running.
EveryPaymentFollowedUp ==
    \A s \in Session : Captured(s) =>
        \/ Booked(attempt_of[s]) \/ WithStaff(attempt_of[s])
        \/ s \in refunds \/ undo[s] # "none"

\* VOIDED "Confirms a void or refund we asked for" (maya_wire.py:37): a refund
\* of ours is never noted as made by somebody else.
OwnUndoRecognised == accused \cap refunds = {}

-----------------------------------------------------------------------------
(* The promise about court-hours, and the states that keep it.              *)

TenureOf(g) ==
    CASE booking_status[g] = Absent -> "absent"
      [] booking_status[g] = "PENDING" -> IF expires_at[CheckoutOf[g]] > now THEN "held" ELSE "lapsed"
      [] booking_status[g] \in {"CONFIRMED", "COMPLETED", "NO_SHOW"} -> "sold"
      [] OTHER -> "off"

Calendar == INSTANCE CourtCalendar WITH
    Hours <- CellsOf,
    Online <- {ItemsOf(c) : c \in Checkout},
    AtDesk <- Closure \cup {{g} : g \in WalkIn},
    tenure <- [g \in Group |-> TenureOf(g)]

\* Every step of the flow is one the calendar allows: courts of one checkout
\* are held together and sold together, a live hold or a sale is never pushed
\* aside by a customer, a late payment or a closure.
KeepsCalendar == Calendar!CalendarSpec
=============================================================================
