-------------------------- MODULE BookingRepository --------------------------
(***************************************************************************)
(* The court calendar as src/bookings keeps it, and the few functions every *)
(* writer of it goes through (bookings/persistence/repository.py).          *)
(*                                                                         *)
(* A booking group is one court and a run of hours, so it is a set of cells *)
(* (court, starts_at).  Its slot rows carry a copy of its booking_status    *)
(* that is written by the same statement pair in the same transaction, so   *)
(* one status per group stands for both tables.  What a request asks for    *)
(* never changes once its rows exist: CellsOf and CheckoutOf are constants, *)
(* and every id is inserted at most once.                                   *)
(***************************************************************************)
EXTENDS Integers, FiniteSets

CONSTANTS
    Cell,        \* court-hours, the unit of the slot index
    Group,       \* ids of the booking groups requests may insert
    Checkout,    \* ids of the checkouts requests may insert
    NoCheckout,  \* the checkout_id of a walk-in or a closure
    Closure,     \* closure requests: sets of groups, one per court
    CellsOf,     \* the hours of a group
    CheckoutOf,  \* the checkout of a group
    StartsAt     \* when a court-hour begins

BookingStatus ==
    {"PENDING", "CONFIRMED", "COMPLETED", "NO_SHOW", "CANCELLED", "EXPIRED"}

RELEASING == {"CANCELLED", "EXPIRED"}

\* A group whose row has not been inserted yet.
Absent == "absent"

ItemsOf(c) == {g \in Group : CheckoutOf[g] = c}

Maintenance == UNION Closure

WalkIn == ItemsOf(NoCheckout) \ Maintenance

\* check_items and close_courts refuse a request that names a court-hour
\* twice; ck_checkout_only_on_player_booking ties a checkout to its type.
ASSUME CalendarAssumption ==
    /\ NoCheckout \notin Checkout
    /\ CellsOf \in [Group -> SUBSET Cell]
    /\ CheckoutOf \in [Group -> Checkout \cup {NoCheckout}]
    /\ StartsAt \in [Cell -> Nat]
    /\ Closure \subseteq SUBSET Group
    /\ Maintenance \subseteq ItemsOf(NoCheckout)
    /\ \A c \in Checkout : ItemsOf(c) # {}
    /\ \A R \in Closure \cup {ItemsOf(c) : c \in Checkout} :
          \A g, h \in R : g # h => CellsOf[g] \cap CellsOf[h] = {}

CellsIn(G) == UNION {CellsOf[g] : g \in G}

\* Every hour of G starts later than t.
StartAfter(G, t) == \A x \in CellsIn(G) : StartsAt[x] > t

(***************************************************************************)
(* Statuses `st` are always a parameter: the callers apply these to the     *)
(* value before their transaction and commit the result.                   *)
(***************************************************************************)

\* The predicate of the partial unique index uq_court_slot_active.
Occupies(st, g) == st[g] \notin RELEASING \cup {Absent}

SetStatus(st, G, s) == [g \in Group |-> IF g \in G THEN s ELSE st[g]]

\* Mutants of Lapsed: one forgets the deadline, one the PENDING re-check.
LapsedTooSoon(st, deadline, cells, t) ==
    {g \in Group : st[g] = "PENDING" /\ CellsOf[g] \cap cells # {}}

LapsedAnyStatus(st, deadline, cells, t) ==
    {g \in Group : /\ st[g] \in {"PENDING", "CONFIRMED"} /\ CheckoutOf[g] # NoCheckout
                   /\ deadline[CheckoutOf[g]] <= t
                   /\ CellsOf[g] \cap cells # {}}

\* The holds that ended at or before t and still sit on one of `cells`.
Lapsed(st, deadline, cells, t) ==
    {g \in Group : /\ st[g] = "PENDING"
                   /\ deadline[CheckoutOf[g]] <= t
                   /\ CellsOf[g] \cap cells # {}}

\* Whole groups expire, whichever of their hours was in the way.
ExpireLapsed(st, deadline, cells, t) ==
    SetStatus(st, Lapsed(st, deadline, cells, t), "EXPIRED")

\* Mutant of Accepts: an index that forgets bookings already played.
AcceptsAfterPlay(st, G) ==
    \A h \in Group \ G :
        st[h] \in {"PENDING", "CONFIRMED"} => CellsOf[h] \cap CellsIn(G) = {}

\* The index accepts G as occupiers beside the statuses `st`.
Accepts(st, G) ==
    \A h \in Group \ G : Occupies(st, h) => CellsOf[h] \cap CellsIn(G) = {}

\* Putting G on the calendar: expire what lapsed in its way, then write its
\* rows.  All of it happens or, if the index refuses a row, none of it.
CanClaim(st, deadline, G, t) ==
    Accepts(ExpireLapsed(st, deadline, CellsIn(G), t), G)

Claim(st, deadline, G, s, t) ==
    SetStatus(ExpireLapsed(st, deadline, CellsIn(G), t), G, s)

-----------------------------------------------------------------------------
\* No court-hour is sold twice: two groups that both keep their hours have no
\* court-hour in common (spec 4.1: double booking).
Exclusive(st) ==
    \A g, h \in Group :
        g # h /\ Occupies(st, g) /\ Occupies(st, h) => CellsOf[g] \cap CellsOf[h] = {}
=============================================================================
