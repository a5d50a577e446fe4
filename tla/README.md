# Verification of the Pikol booking backend

Pikol rents badminton and pickleball courts by the hour: a customer picks
hours on one or more courts, they are held for a few minutes, the customer
pays on Maya's page, and a verified notice turns the hold into bookings. Venue
staff share the same calendar: walk-ins, closures, cancellations, outcomes.
The program is one FastAPI process over Postgres at READ COMMITTED.

This directory holds TLA+ models of that code, TLC configurations that check
them on small instances, and TLAPS proofs of the properties that hold for
every instance. Source paths below are relative to `src/src/`.

## 1. The system

| component | state it keeps | operations that change it | hard part | what makes it correct |
|---|---|---|---|---|
| bookings | `booking_groups` (status, payment, flag, notes), `booking_slots` (one per court-hour, partial unique index over the statuses that occupy) | walk-in, close and reopen courts, staff cancel, outcome, mark paid, resolve, lazy expiry of lapsed holds | checks are read without a lock, written later; only the index arbitrates | an hour is never sold twice; only lapsed holds are swept, and whole |
| checkouts | `checkouts` (status, `expires_at`, totals), `refunds` | create (hold), pay, cancel, list/read | clock read before a lock wait; cap counted before the insert; all-or-nothing over several courts | a live hold is whole; verdicts never go back |
| payments | `payments` (attempts), `webhook_events` | open a session, sync (declined, backed out, paid in time, paid late, lost, refunded), undo | notices lost, repeated, late, out of order; a Maya call between two transactions; crash between them | money is booked, refunded or in the staff queue; nobody keeps a court unpaid |
| Maya (external) | status of each payment | page settled, void, refund | only observed by fetching | - |
| action_events | append-only log | record | foreign keys take locks on the checkout | entries commit with what they describe |
| auth | `users` (password, verified, active), `user_tokens` (emailed links), `refresh_tokens` | register, sign in, refresh, sign out, verify, reset, accept an invitation | rotation racing revocation and replay; two requests following or sweeping one link | one winner per refresh token; a session and a change of the account are each paid for; a device that ended stays ended |
| users, groups | users, groups, memberships, permissions | invite, deactivate, edit groups and members | self-lockout, membership and permission tests without locks; a set rewritten from a stale read | nobody locks themselves out, saves what is not theirs, or loses access by accident |
| identity migrations | roles, then groups | 0006 and 0007 up, 0007 down | rights of an existing database carried over | everybody keeps their rights, both ways |
| parameters | table and a 30 s in-process cache | get, update | a load stored after an invalidation | what is served is never older than the time to live |
| pricing | price rules | create, change, delete rules; resolve, preview, fee | specificity, rounding, midnight in Manila | every hour has one price, the one previewed; fees add up |
| courts, venues | rows | create, edit, switch off | who may, where | staff change their own venue's only |
| summaries, grid, result page | nothing | views | a lapsed hold that no write has expired | what is shown is what would be granted up to the horizon, and one story |
| favorites | rows | add, remove | - | - |
| email, config, database, health, utils, devtools, main | pool of 5 + 5 connections | wiring | pool held across a Maya call | - |

How they interact: a request handler is a coroutine on one event loop, with one
database session; two handlers interleave at every `await`, so they meet in
the database. `checkouts.create` writes bookings; `payments._apply` locks a
checkout, its groups and its payment row and writes all three; staff actions
write groups without locking the checkout. The only in-process shared state is
the parameter cache. Everything is triggered by requests: there is no
scheduler, so a hold that lapsed stays `PENDING` until somebody asks for its
hours or its payment is heard of.

## 2. Plan

Done:

1. `BookingRepository`, `CheckoutFlow`, `CourtCalendar`: hold, pay, cancel,
   sync, undo, desk, and the calendar they promise; types, double booking, live
   holds, paid courts, final verdicts, the money invariants and the refinement
   of the calendar proved.
2. `LockOrder`: row locks (FOR UPDATE and the key-share locks of foreign keys),
   waits in the slot index, deadlock and its victims; exclusion, lock order and
   expiry proved.
3. `Views`: what customers, the grid and the console are shown of that flow; the grid, the last word and the one story proved.
4. `Accounts`, `Devices`: links, sign-in tokens and account status; the
   abstract promise about devices; all of its properties proved, the refinement
   included.
5. `RoleMigration`, `Organisation`: groups, permissions, membership, venues, and
   the migrations there and back; all proved.
6. `Pricing`, `Quotes`: the cache, the rules and the prices a checkout freezes; all
   proved.

Still wanted: a desk module that keeps the reasons and notes of a booking under
concurrent staff.

## 3. Modules

`BookingRepository` is `bookings/persistence/repository.py` with the index of
`bookings/persistence/models.py`. It has constants and operators only: a *group* is one court and a run
of hours, so a set of cells; a checkout owns groups; `Occupies` is the
predicate of the partial unique index; `Lapsed`/`ExpireLapsed` are
`expire_lapsed`; `CanClaim`/`Claim` are the savepoint that sweeps what lapsed
and inserts, all or nothing. A slot's status is a copy of its group's, written
in the same transaction, so one status stands for both.

`CheckoutFlow` composes `checkouts/service.py`, `payments/service.py` and
`bookings/service.py` over that calendar. One action is one transaction, taken
at its commit. A request is split exactly where the code acts on something it
read earlier:

| code | actions | carried across the gap |
|---|---|---|
| `CheckoutService.create` | `CreateCheck`, `CreateCommit` | the clock, the unlocked count of live holds (`create_now`) |
| `CheckoutService.cancel` | `CancelStart`, `CancelCommit` | the clock read before the row lock (`cancel_now`) |
| `CheckoutService.pay`, `start_checkout` | `PayAsk`, `PayRecord` | "no attempt yet" and a live hold (`attempt = "asked"`), while Maya answers |
| `sync_payment`, `_apply`, `_release`, `_paid` | `ApplyRelease`, `ApplyForeignRefund`, `ApplyOwnRefund`, `ApplyPaidUnbookable`, `ApplyPaidLive`, `ApplyPaidLate`, `ApplyPaidLost` | the status fetched from Maya (`reported`) |
| `_undo` | `UndoAccepted` or `UndoRefused`, then `UndoRecord` or `UndoByHand` | Maya's answer (`undo`) |
| staff actions of `BookingService` | `DeskCheck`, then `DeskSetsStatus`, `DeskResolves` or `DeskMarksPaid` | the booking as it was read (`desk`) |
| walk-in, closure | `WalkInBooked`, `CourtsClosed` | nothing: inserted under the index |
| Maya | `Settle`, `RefundByHand`, and its half of the undo | - |

`reported[s]` is the set of statuses a session has ever had. A sync may apply
any of them, once, at any later time or never: this one set stands for
webhooks that are lost, repeated, delayed or reordered, for the result page's
"check again", and for a fetch applied after a newer one. `webhook_events`
(`events`) is what makes an application happen once.

A crash is a request whose next step never comes: every split above can stop
in the middle for ever in `Spec`. `resolved` and `accused` are history: which
groups staff took out of the queue, and whose note says somebody else refunded.

A group's deadline is its checkout's `expires_at`: the code copies it at
creation and no one changes either. `Session` is numbered in the order the
requests' transactions began, which is what `created_at`, and so
`latest_for_checkout`, goes by.

`PAYMENT_SUCCESS, amiss` is a success whose amount, currency or reference is
not the checkout's (`_paid`'s first test).

`CourtCalendar` is the abstract promise: per group absent, held, lapsed, sold
or off, with no clock value, payment or database. `Calendar` in `CheckoutFlow`
is the refinement mapping (`TenureOf`) and `KeepsCalendar` the property.

`LockOrder` is the same handlers one level down. A request is a program: a
sequence of statements (`todo`), each of which locks a row or an index entry
(`LocksOf`), waits while another transaction holds it (`BlockedBy`), or finds
that its row no longer qualifies (`Void`, `Taken`). Programs are extended where
the code decides: `Decide` once checkout, groups and payment are locked,
`FindLapsed` at each lookup of lapsed holds, `DeskReads` on an unlocked read. A
transaction's writes (`wrote`) are seen by itself and published by `Commit`;
`TakenBack` is the savepoint of a late payment, `Victim` is Postgres failing
one waiter of a circle. It justifies `CheckoutFlow`'s one step per
transaction: what may happen between two statements does not break exclusion
or all-or-nothing, and a deadlock's victim is a request that kept nothing.
Opening a session is not in it: it writes payment rows only, under an index of
its own. Notices of a session differ in status, so two syncs never share an
event key in the instance. Clock reads are not kept: a walk-in finds whatever
has lapsed when it looks, a cancel may take a lapsed hold for a live one.

`Views` is `occupancy` with the grid, the strip and the counts computed from it,
`display_status`, `checkout_display_status` and `awaiting_payment`, each at a
clock of its own request. Only `awaiting_payment` needs a column the flow does
not keep, when a session was opened: `opened_at`, chosen by `Opens` beside the
flow's `PayAsk` as any tick at which the paying request may have begun. A page
stops asking `SessionTicks` (Maya's hour) after it. `ViewsSpec` is the flow with
that column, so everything proved of `Spec` holds of it (`ViewsAreOfTheFlow`).
A booking's status has two readers: the staff routes serve `display_status`
(`DisplayStatus`), the customer's checkout lists the stored one
(`CheckoutBookingStatus`, `checkouts/dto.py:55`).

`Accounts` is `auth/service.py` with the account half of `users/service.py`.
A request reads and decides (`VerifyEmail`, `Login`, `Refresh`, `Deactivate`,
...), then, if it sweeps links or tokens, starts those statements (`Sweep`: it
has flushed its UPDATEs, holds the user row and knows the rows it will sweep),
then commits (`Commit`) or is lost (`Abort`). The rows it holds in between are
those of `FOR UPDATE` in `consume_token` and of the conditional UPDATE in
`refresh`; a sweep waits for them, looks at each again, and never sees rows
inserted after it began. The ORM writes only fields that differ from what was
loaded (`Written`): a verification that loaded an active account does not
write `is_active`, whatever a deactivation does meanwhile. A registration
and an invitation are one step under the unique index on the address. A link
or token that expired is one nobody uses any more, and an email that was lost
is a link nobody follows. A token knows its `parent`, the one it was refreshed
from: that is history, the code only keeps the user. `met` is history too: the
sign-outs that overlapped another request of the account.

`Devices` is the promise: a device signs in once, and once it ended never comes
back. The mapping takes a device for the first token of a chain of refreshes.

`Organisation` is the other half of `users/service.py`, `users/group_service.py`,
`auth/access.py` and the rows of venues and courts. Every request carries the
venue it named (`at`; 0 for none) and passes the route's `Guarded`; it decides
on what it reads, and later `Commit` writes what it decided. `set_codes` is
taken apart once more, since its DELETE fixes the rows it saw (`Sweep`).
`stale` remembers the requests another one committed beside: the properties that
the code cannot keep without locks exempt those, and only those, so what a
stale save does is visible in their statements. In particular `set_permissions`
computes from a set read without a lock: beside another save it can bring back
a code that was just revoked, or leave the union of both.
`Init` is what migration 0006 makes of the roles it found (`RoleMigration`),
and what the owner may have added since (`Grown`). `create_super_admin`, run
from the command line, is the owner being there. Accepting an invitation has
one step here; its link is in `Accounts`.

`Pricing` is the pure part: Manila days, `PriceResolver`, the preview,
the fee, `allocate_fee`, `check_items`. `Quotes` runs it: a checkout being
priced awaits the parameters once, then rules and parameters per item, then
freezes; a get that missed (`GetMissed`) loads (`LoadAll`) and stores
(`StoreLoaded`) in separate steps. An update commits (`UpdateParameter`) and
invalidates (`WriteParameter`) in separate steps too; two administrators' updates do not
overlap between the two.

A request the code refuses changes nothing and is no step, in every module.

`MCCheckoutFlow`, `MCViews`, `MCLockOrder`, `MCAccounts`, `MCOrganisation` and
`MCQuotes` give the constants their values; `MCSuspension` adds to `Accounts` a history of
whom an administrator switched off.

The theorems are in modules of their own: `CheckoutFlow_proofs`, and on top of
it `CheckoutMoney_proofs` (the money), `CalendarRefinement_proofs` (the calendar it
implements) and `Views_proofs`; `Accounts_proofs`; `Organisation_proofs`;
`Quotes_proofs`; `LockOrder_proofs`.

## 4. Runs

| run | question | instance |
|---|---|---|
| `HoldAndPay` | do customers, a walk-in and a closure ever get one hour twice; do live holds stay whole; are courts sold all together; is every step a calendar step; does the grid offer what would be granted, and how far; do a checkout and its bookings tell one story; does "not booked" stand | two courts, two checkouts (one of both courts), walk-in, closure, one session, page paid, failed or expired; the second hour one tick after the first, a lead, a horizon and a session's hour that all run out |
| `TwoSessions` | is applied money always booked, refunded or queued, is nothing kept unpaid, is nothing kept after our undo, is the queue used with a reason | one checkout of two courts, two sessions, right and wrong amounts, a walk-in that takes lapsed hours |
| `Desk` | the same calendar with staff writing on stale reads; is paid final, do paid hours stay; does money whose success was applied come to rest | one checkout, one session, right and wrong amounts, a walk-in, two staff requests in flight, under `FairSpec` |
| `Statements` | do exclusion, sweeps of holds only and all courts together survive when transactions meet between two statements; do a checkout's writers keep one lock order | c1 of two groups on hours a and b, c2 of one on hour a, both held or cancelled; a notice for each, a cancel of c1, a walk-in on b, a staff action on c1's first group |
| `Accounts` | does a token have one successor, is a session or a change of the account ever unearned, what does a sign-out reach, does a device come back | one address, two overlapping requests, two links, three tokens, every operation |
| `Organisation` | do the migrations lose anybody; can anybody lock themselves out, lose access by accident, save what they do not hold, reach over a venue's wall, shut out somebody else's | two venues, the owner, a manager, somebody in any role (also in two venues and three groups), a newcomer; two overlapping requests |
| `Quotes` | how old can served parameters be; which rule prices an hour; is the preview what is charged; does the fee add up | two checkouts, three courts, hours around Manila's midnight, one update of the parameters, one change of the rules |

Every property of these runs is accompanied by a mutant of the code that
breaks it; the mutated operators stand next to the real ones, commented as such.

Bounds. `MaxTime`: a hold lasts one tick and play starts two or more later, so a hold
can be live, exactly at its deadline and lapsed before play, and payments
arrive before the deadline, after it and after play started. In `HoldAndPay` the hours are
at 4 and 5, the horizon is 4, the lead 2 and a session's hour 2 ticks with the clock stopping
at 4, so that each of them is met before, at and after its edge. In `TwoSessions` and `Desk`
play starts at 2, the lead is 0 and the horizon refuses nothing; `Desk` adds tick
3 so that an outcome can be set and a clock can run on. Two
courts and two checkouts give the collisions that need a partial overlap (c1
wants both courts, c2 one of them). Two sessions are as many as a race needs.
`HourTicks = 1` lets a closure begin in the hour
that runs. `Statements` has five requests over two hours: two
notices of different checkouts that meet on hour a, a cancel and a staff
action that meet the first of them on its own rows, a walk-in that meets it on
hour b. A request runs once; a notice that is sent again finds its event row.
`MaxDesk = 2` is one staff request overtaking another. A checkout has one
creating and one cancelling request: a second cancel repeats the first with a
later clock. Deadlock is not checked: the clock and the ids are finite, so an
instance stops when they run out.

`Accounts` has one address because no step of it relates two; two requests are
a race; two links and three tokens are a link beside the one that replaces it,
and a token with its successor beside a new sign-in. In `Organisation`
`MaxChanges = 2` is one request beside another; the starting states give both
something to collide on. In `Quotes` the time to live is two ticks and the clock
stops at 2, so a value is served while fresh, at its last instant, and not
after; the fee is 62.5 % or a refused 100.01 % (a percentage is a Decimal: `Percents` are
hundredths, `PerCent = 100`), prices such that a share has a rest. A total of zero is
not reached there; `FeeIsShared` covers it.

Symmetry: requests are interchangeable in `Accounts`, `Organisation` and
`Quotes`, whose properties are invariants and properties of single steps. The
others use none: their groups and courts play different parts, and two
properties are temporal.

Fairness (`FairSpec`): `WF(Undo(s))` alone. The request that committed a lost
payment goes on, in the same handler, to call Maya and to write what it
answered; the property is about runs in which that process is not killed there.
A crash between the two leaves the undo unbegun for ever, and only the flag, committed
first, remains (`MoneyAccounted`, checked without fairness, says it does).
Nothing is assumed of notices: Maya gives up after four attempts
(`payments/controllers/webhooks.py:20`) and `refresh-payment` is called only by
the customer's page, so a captured payment may never be applied. `CapturedMoneySettles`
therefore begins where a success *was* applied. Nothing is assumed of customers, staff
or the clock either.

## 5. Where the code and its words part

Each is a run that expects a counterexample.

* `HoldLimit`: the cap on live holds is counted without a lock before the
  insert, so two requests at once both pass (`checkouts/service.py:70`).
* `RefundedKept`: while one session is being undone, a second one re-acquires
  the hours; the undo then writes REFUNDED over a checkout that keeps its
  courts (`payments/service.py:366`; `:242` says "book nothing").
* `FlagCleared`: recording one session's refund clears the queue flag of the
  whole checkout, also when another session's refund had failed
  (`payments/service.py:379`; `:336` says a failure stays flagged).
* `SwitchedOff`: deactivation deletes an account's links, because a live one
  "would let the user undo their own deactivation" (`users/service.py:181`).
  An account that had not verified its email yet may ask for a new link, and
  following it sets `is_active` (`auth/service.py:128`).
* `CrossPaths`: sweeping a lapsed hold locks its group and then, through the
  event's foreign key, its checkout, while a notice locks checkout, then group;
  Postgres fails one of them (`payments/service.py:159`, `payments/persistence/repository.py:69`).
  Only the writers of one checkout among themselves keep the order (`OneLockOrder`).

Both runs about a refund (`RefundedKept`, `FlagCleared`) need a checkout with two
sessions: the unique index that keeps it to one covers only attempts that are
still `PENDING`, so a Pay whose call to Maya outlasts the first attempt records a
second.

Two sessions are also why `MoneyAccounted`, `UndoneBooksNothing` and `OneStory`
speak of a checkout's *sole* session: with two, they do not hold.
Nor does `CapturedMoneySettles`, whose instance has one session, for the reason `FlagCleared` shows.

More of the code's own words are stated in the modules and do not hold. They have no run
of their own; each is refuted within seconds when it is put into the configuration named.

| claim | said at | what happens instead | configuration |
|---|---|---|---|
| `LapsedReadsExpired` | `bookings/domain/rules.py:116` | only staff routes apply `display_status`; the customer's checkout lists the stored status, PENDING (`checkouts/dto.py:55`) | `HoldAndPay` |
| `OwnUndoRecognised` | `payments/adapters/maya_wire.py:37` | Maya's VOIDED notice is applied before our refund row is written, and noted as a refund "not by us" (`payments/service.py:173`) | `TwoSessions` |
| `OnePayableSession` | `payments/persistence/models.py:20` | see above | `TwoSessions` |
| `OnlyLatestLinkWorks` | `auth/service.py:61` | two requests for a link at once leave two that work | `Accounts`, with `MaxLinks = 3` |
| `LogoutEndsAllDevices` | `auth/service.py:250` | a device that is refreshing survives | `Accounts` |
| `NobodyLocksThemselvesOut` | `users/group_service.py:282` | two changes at once take the last way in | `Organisation` |
| `NoAccessLostByAccident` | `users/group_service.py:132` | a group found empty goes with whoever joined since | `Organisation` |
| `ReplacedExactly` | `users/persistence/group_repository.py:243` | two saves at once leave the union | `Organisation` |
| `NotOneVenuesToChange` | `users/service.py:144` | an account that has just joined another venue is switched off | `Organisation` |

What the properties had to exempt is worth knowing too. `LastWordStands` has three
exceptions, each of them reachable: staff have the checkout; a customer who
cancels, is declined on Maya's page and pays there with another
card; and a page that stopped asking because Maya's hour ran out, whose first notice comes
later still and finds the hours free. `GridKeepsItsWord`: the grid has no horizon, so it shows
hours AVAILABLE that a checkout is refused (`bookings/domain/rules.py:76`); that is the
one reason. `OneStory`: a lapsed hold that nothing has written off may read PENDING in
the list of a checkout that reads CANCELLED. `QuietSignOutIsTotal`: a
session issued while a sign-out is in flight survives it. The properties of
`Organisation` about fresh requests leave out what the last four rows of the table show. `ShutOutByTheirOwn`
is about everybody but the owner: an owner who is added to a staff group can be
deactivated like any member of it.

## 6. Proofs

`CheckoutFlow_proofs` proves, for every set of customers, courts, groups,
checkouts, sessions and closures and every value of the limits:

* `TypeCorrect`: `Spec => []TypeOK`.
* `NeverDoubleBooked`: `Spec => []NoDoubleBooking`.
* `HoldStaysWhole`: `Spec => []LiveHoldIsWhole`.
* `OnlyPaidStand`: `Spec => []OnlyPaidBookingsStand`.
* `PaidStaysFinal`: `Spec => PaidIsFinal`.

`Accounts_proofs` proves, for any number of users, requests, links and tokens:

* `TypesHold`: `Spec => []TypeOK`, the bounds on links and tokens included.
* `RefreshWonOnce`: `Spec => []OneSuccessor`.
* `SessionsEarned`: `Spec => []SessionsAreEarned`.
* `LinksPay`: `Spec => LinkPaysForChange`.
* `QuietIsTotal`: `Spec => QuietSignOutIsTotal`.
* `AccountsKeepDevices`: `Spec => DevicesEndForGood`, `Accounts` implements `Devices`.

`Organisation_proofs`, for any number of venues, people, groups and overlapping requests:

* `GroupsFit`: `Spec => []TypeOK`, the constraints of 0006.
* `RolesSurvive`: `Spec => []RolesRoundTrip`.
* `AccessIsKept`: `Spec => NobodyLosesAccess`.
* `WayInIsKept`: `Spec => KeepsOwnWayIn`.
* `SavesStayWithin`: `Spec => SavesTouchWhatIsHeld`.
* `WallsHold`: `Spec => VenueWalls`.
* `ShutOutAtHome`: `Spec => ShutOutByTheirOwn`.

`CheckoutMoney_proofs` builds on `CheckoutFlow_proofs`:

* `MoneyIsAccounted`: `Spec => []MoneyAccounted`.
* `UndoneNeverBooks`: `Spec => []UndoneBooksNothing`.
* `FlagsHaveCause`: `Spec => []FlaggedForCause`.
* `SoldAllTogether`: `Spec => SoldTogether`.
* `PaidKeepsItsHours`: `Spec => PaidHoursKept`.

`CalendarRefinement_proofs` proves the refinement:

* `FlowKeepsCalendar`: `Spec => KeepsCalendar`, `CheckoutFlow` implements `CourtCalendar`.

`Views_proofs`, for any clock, courts and hours, any lead, horizon and length of Maya's session:

* `ViewsAreOfTheFlow`: `ViewsSpec => Spec`.
* `GridIsTrue`: `ViewsSpec => []GridKeepsItsWord`.
* `LastWordIsKept`: `ViewsSpec => LastWordStands`, with the exceptions of section 5.
* `OneStoryTold`: `ViewsSpec => []OneStory`, where staff set no booking status
  (`DeskOps \cap BookingStatus = {}`). Staff may set any legal status on a booking
  and leave its checkout alone, so with them the two screens do part; the run
  that checks `OneStory` has no desk either.

`Quotes_proofs`, for any number of requests, rules, updates and loads:

* `QuotesTyped`: `Spec => []TypeOK`.
* `CacheIsCurrent`: `Spec => []BehindOnlyByOvertaking`.
* `ChargedTheMostSpecific`: `Spec => []MostSpecificWins`.
* `FeeIsShared`: `Spec => []FeeShared`.
* `PreviewMatchesCharge`: `Spec => []PreviewIsCharged`.
* `ServedFresh`: `Spec => NeverOlderThanTTL`.

`LockOrder_proofs`, for any requests, groups and hours:

* `LocksTyped`: `Spec => []TypeOK`.
* `HoursStayExclusive`: `Spec => []HoursExclusive`.
* `OneOrderPerCheckout`: `Spec => []OneLockOrder`.
* `ExpiresOnlyHolds`: `Spec => OnlyHoldsExpire`.
* `BookedAllTogether`: `Spec => BookedTogether`.

Assumptions are those of the modules, and TLC evaluates them in every run:
`CalendarAssumption` (what a request may contain: the code refuses duplicate
hours, a checkout has at least one item), `FlowAssumption`, `AccountsAssumption`,
`QuotesAssumption`, `PricingAssumption` and `ViewsAssumption` (typing of the constants; the
cells are finite, one percent is a positive number of units), `OrganisationAssumption` (the roles are those 0002 allows; what came
since 0006 are staff groups of existing venues without owner-only codes, under
names the unique index lets stand, and members with an account), and `LockAssumption` (finitely many groups; a checkout's hours and the
groups a request writes are sequences; a sync or a cancel visits exactly the
groups of its checkout, in the order of their ids, as
`checkouts/persistence/models.py:66` loads them).

The argument for the calendar. Almost every writer goes through the index, so exclusion would
be immediate, but for one: a live hold is confirmed with a plain status update
(`ApplyPaidLive`) that the index cannot refuse unless the groups had left the calendar. It is
safe only if a live hold still sits on all its hours (`LiveHoldIsWhole`). That
in turn needs three facts. Sweeps use a clock read earlier, so clocks must lie
in the past (`ClocksPast`). Only the checkout's own verdict may take its groups
away. And staff write unconditionally on a stale read, so a group staff ever
saw as confirmed, or have in hand, must belong to a checkout that already has
its verdict and a verified payment (`VerdictFirst`, which also gives
`OnlyPaidBookingsStand`). `SessionsKnown` ties an attempt to a checkout. Their
conjunction with `TypeOK` and the two goals is `CalendarInv`; it is inductive
(`CalendarInvInit`, `CalendarInvNext`, `CalendarInvariant`) and was itself
model-checked on these instances. The proof first sorts the steps
(`CalendarSteps`): a step is `Quiet` - it leaves the calendar alone - or one of
the few that write it, and each of those is one of three operations on
statuses: release, keep, or claim (`ReleaseKeepsExclusive`, `KeepKeepsExclusive`,
`ClaimKeepsExclusive`).

The argument for the money. A crash may fall between any two steps, so
`MoneyAccounted` needs to know, in every state, why an applied payment did not
book: `MoneyInv` adds to `CalendarInv` that what Maya says is said of a recorded
session (`Ledger`), that a hold ends for all its courts at once (`NoStrayHold`), that
a SUCCESSFUL checkout has a verified payment applied (`PaidVerdict`), that an undo,
in hand or on record, is of a payment whose hold is over, with no court taken if it is the
only one (`UndoingVacates`), and that an undo has a cause staff can be shown
(`UndoingHasCause`). The
three invariants follow at once, the two action properties from the same facts
and the list of steps that can take a group off the calendar.

The argument for the refinement. The mapping reads a group's holder off its
status, so the calendar's guards must hold of the statuses: `RefinementInv` says
that a group exists exactly with its checkout (`BornTogether`), that only
checkouts hold (`OnlyCheckoutsHold`), that what is sold has its verdict
(`SoldIsPaid`), and that staff act on groups already sold (`DeskKnowsGroup`). Then
each action maps to one calendar step, or to a stutter when all it changes is
money, notices or the queue.

The argument for the views. `ViewsInv` adds what each screen relies on: a page was paid or
given up but never both (`OnePage`), a hold is on only while no session of it
failed (`StillOpen`), our refund and the verdict REFUNDED go together
(`RefundedReads`). The screens add one piece of state, when each page was opened, and read
the rest, so what is proved of the flow holds of `ViewsSpec` (`ViewsAreOfTheFlow`). The grid and a claim evaluate the same sweep at the same
clock, which makes `GridIsTrue` a fact about the two queries.

The argument for prices. `BehindOnlyByOvertaking` compares the cache with a table
that others replace. `CacheInv` says that what is cached had not been replaced at the
clock it was read. `FlightInv` says the same of a load a waiting checkout has in hand, and ties
what that checkout carries together: one served version and one read of the rules per item
it is past, and, once frozen, slots priced from exactly those. `TableInv` orders the versions by their clocks
and `RulesInv` keeps the rules unique by key, as the upsert does. With them
`MostSpecificWins` is a statement on the resolver, which picks by the order
of the rules' keys, and `PreviewIsCharged` compares two uses of it.

The argument for locks. What a request will do is fixed when it begins, by a program of
statements built with `FlattenSeq`; the lemmas on programs argue by a least
counterexample. `LockInv` says of each request (`Sound`) that what it wrote it
has locked, that its program was followed so far, and that an hour it puts on
the calendar has its index entry locked until commit; locks of two
transactions never conflict (`Disjoint`). Exclusion follows: of two
writers that put the same hour on the calendar, one still waits. `CommitKeeps` is the
step where that is used. `OneLockOrder` holds since a sync inserts its notice's
event and then, like a cancel, locks the checkout's row before anything else
(`Ordered`); `OnlyHoldsExpire` because the UPDATE of a sweep checks the status again
under the row's lock, which stays until commit (`Expiring`); `BookedTogether`
because a sync visits every group (`Booking`).

The argument for accounts. `OneSuccessor` is not inductive: a commit of `refresh`
gives its token a successor, so nobody else may be about to, and the token must
have none. `Rotation` says so: a token with a successor is revoked, one being
rotated is live and in the hands of one request, and no sweep that is ready to
commit names it, since it waits for held rows. `Earned` carries to the commit of
a sign-in what its request checked when it began: an account never loses its
confirmation or its password. `Room` counts the links and tokens that requests
in flight will insert. Their conjunction with `Typed`, `Owned` and `Checked` is
`IInv` (`InitEstablishes`, `NextPreserves`); every way to begin a request is one
lemma (`BeginStep`), the commit another (`CommitStep`).

`LinkPaysForChange` speaks of a commit, but what it promises was decided when the
request began, so two more facts have to survive until then. `Holding`: the link
a request follows is still unused, of its account, and in nobody else's hands;
a sweep that named it waits (`Clear`). `Resettable`: a reset link, or a request to
send one, is of an account that has a password, so a first password can only come
from an invitation. `LInv` adds both to `IInv`; it too was model-checked on the
instance of `Accounts` first. `RowAfterFields` says which operation can have
changed which field, and `CommitPaid` puts the two together.

A sign-out in flight that nothing of its account overlapped is alone with the
account (`Undisturbed`), so what its statements named when they ran is still
all that is live when it commits: `QuietIsTotal`. For the refinement a device
is the first token of a chain of refreshes of any length. That the chain has
an end is argued by a least counterexample, since a token is refreshed from an
earlier one (`Forest`): the recursion of `Ancestor` then has exactly one solution
(`RootedExists`), and more tokens leave the earlier ones theirs
(`AncestorKept`). A refresh gives its device a live token for the one it takes,
which was live until then; only a sign-in adds a device; so every commit is one
step of `Devices` or none (`CommitIsDeviceStep`).

The argument for the fee. A sum over the items of a checkout is a fold, so
`Quotes_proofs` first shows, again by a least counterexample, that the recursion
behind it has a solution (`SumsExist`) and that it may start at any item (`SumsSame`).
Rounding a share down loses less than one centavo per court, and the last court
takes what is left (`SharesFit`). `FlightInv` ties the prices a
frozen checkout carries to its shares; that prices are never negative comes from the
rules' and the defaults' validation (`PriceNat`).

The argument for the organisation. A request decides on what it reads and writes
later, with nothing locked, so the invariant says what survives in between, at
two strengths. `Names` and `Walled` hold of every request in flight, however stale:
what it names exists, and, unless it is the owner's, is a staff group, a court or
people of the venue it was made at. That is so because nothing it speaks of ever
changes (`Grows`): a group keeps its kind and its venue, a venue and an account
stay. `VenueWalls` follows for every request. `Decided` is what the handler's
checks established - the group is empty, the codes not held are as they were,
there is another way in, the person works here only - and holds until another
request commits (`FreshInv`), which gives the three properties of fresh
requests, and `NobodyLosesAccess` where a group is deleted. `GroupsInv` and
`PeopleInv` are the tables' constraints; that every venue has one master group needs
that kinds never change and that only a new venue brings one. A route's
permission is part of the argument: owner-only codes are in no group, so whoever
passes `VENUE:Manage` is the owner (`EveryRequestAsks`). The whole invariant
was model-checked on the instance of `Organisation` first. `RolesSurvive` computes
what 0006 makes: everybody with a role is in exactly one group (`OneHome`), so the
downgrade's order of preference has one group to pick.

Only model-checked: `CapturedMoneySettles`. It is liveness, and fairness and ENABLED
are out of the proof system's reach. Every other property of a passing run is a
theorem.

## 7. What is left out, and why

* Receipts, emails, notes' wording, the event log and its payloads, provider
  payloads: no property here depends on them. Prices are left out of
  `CheckoutFlow`: what `Quotes` freezes is never written again.
* Whether a court or venue is active, and who may act for a venue: filters before
  the steps modelled here, on data these steps never change.
* Which hours a refusal names: when a checkout collides, the code rolls back, looks up
  which hours were just taken and falls back to a general sentence when it finds none
  (`checkouts/service.py:157`). It changes nothing, and nothing is claimed of it.
* In `CheckoutFlow` each transaction is one atomic step at its commit, and
  `expire_lapsed`'s query and update are one step; `LockOrder` takes them apart.
  A wait in the slot index after the clock was read is instantaneous in
  `CheckoutFlow`; the wait for the checkout's row lock in a cancel is not. The
  connection pool is not modelled: its queue is SQLAlchemy's, and the code says
  nothing of it that could be checked.
* Provider statuses that mean "still pending" are one value: the code returns
  before it writes anything.
* Rate limits, cookies, hashing and the clock of tokens in `Accounts`; names,
  and public listings in `Organisation`; paged listings of bookings and
  checkouts.
* Favorites: one row, one statement. Email, settings, health, error rendering,
  the demo seed: no state of their own. The other migrations only create tables.
