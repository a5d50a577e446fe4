------------------------- MODULE CheckoutFlow_proofs -------------------------
(***************************************************************************)
(* What holds of CheckoutFlow for every set of customers, courts, groups,   *)
(* sessions and requests, whatever the bounds.                              *)
(***************************************************************************)
EXTENDS CheckoutFlow, TLAPS

-----------------------------------------------------------------------------
(* The calendar's writers.                                                  *)

BookingStatuses == [Group -> BookingStatus \cup {Absent}]

\* Every writer of the calendar leaves a calendar.
LEMMA SetStatusType ==
    ASSUME NEW st \in BookingStatuses, NEW G, NEW s \in BookingStatus
    PROVE  SetStatus(st, G, s) \in BookingStatuses
BY DEF SetStatus, BookingStatuses

\* A claim leaves a calendar.
LEMMA ClaimType ==
    ASSUME NEW st \in BookingStatuses, NEW deadline, NEW G, NEW s \in BookingStatus, NEW t
    PROVE  Claim(st, deadline, G, s, t) \in BookingStatuses
<1>1. "EXPIRED" \in BookingStatus
  BY DEF BookingStatus
<1>2. ExpireLapsed(st, deadline, CellsIn(G), t) \in BookingStatuses
  BY <1>1, SetStatusType DEF ExpireLapsed
<1> QED BY <1>2, SetStatusType DEF Claim

\* Taking groups off the calendar never makes two groups share a court-hour.
LEMMA ReleaseKeepsExclusive ==
    ASSUME NEW st \in BookingStatuses, Exclusive(st), NEW G, NEW s \in RELEASING
    PROVE  Exclusive(SetStatus(st, G, s))
<1> SUFFICES ASSUME NEW g \in Group, NEW h \in Group, g # h,
                    Occupies(SetStatus(st, G, s), g), Occupies(SetStatus(st, G, s), h)
             PROVE  CellsOf[g] \cap CellsOf[h] = {}
  BY DEF Exclusive
<1>1. g \notin G /\ h \notin G
  BY DEF Occupies, SetStatus
<1>2. Occupies(st, g) /\ Occupies(st, h)
  BY <1>1 DEF Occupies, SetStatus
<1> QED BY <1>2 DEF Exclusive

\* Groups that are already on the calendar may change status among the
\* occupying ones.
LEMMA KeepKeepsExclusive ==
    ASSUME NEW st \in BookingStatuses, Exclusive(st), NEW G, NEW s,
           \A g \in G \cap Group : Occupies(st, g)
    PROVE  Exclusive(SetStatus(st, G, s))
<1> SUFFICES ASSUME NEW g \in Group, NEW h \in Group, g # h,
                    Occupies(SetStatus(st, G, s), g), Occupies(SetStatus(st, G, s), h)
             PROVE  CellsOf[g] \cap CellsOf[h] = {}
  BY DEF Exclusive
<1>1. Occupies(st, g) /\ Occupies(st, h)
  BY DEF Occupies, SetStatus
<1> QED BY <1>1 DEF Exclusive

\* The index lets groups that are disjoint among themselves in only beside
\* occupiers they do not touch.
LEMMA EnterKeepsExclusive ==
    ASSUME NEW st \in BookingStatuses, Exclusive(st), NEW G \in SUBSET Group, NEW s,
           Accepts(st, G),
           \A g, h \in G : g # h => CellsOf[g] \cap CellsOf[h] = {}
    PROVE  Exclusive(SetStatus(st, G, s))
<1> SUFFICES ASSUME NEW g \in Group, NEW h \in Group, g # h,
                    Occupies(SetStatus(st, G, s), g), Occupies(SetStatus(st, G, s), h)
             PROVE  CellsOf[g] \cap CellsOf[h] = {}
  BY DEF Exclusive
<1>1. CASE g \in G /\ h \in G
  BY <1>1
<1>2. CASE g \notin G /\ h \notin G
  <2>1. Occupies(st, g) /\ Occupies(st, h)
    BY <1>2 DEF Occupies, SetStatus
  <2> QED BY <2>1 DEF Exclusive
<1>3. ASSUME NEW x \in G, NEW y \in Group \ G, Occupies(SetStatus(st, G, s), y)
      PROVE  CellsOf[y] \cap CellsOf[x] = {}
  <2>1. Occupies(st, y)
    BY <1>3 DEF Occupies, SetStatus
  <2>2. CellsOf[y] \cap CellsIn(G) = {}
    BY <2>1 DEF Accepts
  <2>3. CellsOf[x] \subseteq CellsIn(G)
    BY DEF CellsIn
  <2> QED BY <2>2, <2>3
<1>4. CASE g \in G /\ h \notin G
  BY <1>3, <1>4
<1>5. CASE g \notin G /\ h \in G
  BY <1>3, <1>5
<1> QED BY <1>1, <1>2, <1>4, <1>5

\* Claiming is safe: the lapsed leave first, then the index decides.
LEMMA ClaimKeepsExclusive ==
    ASSUME NEW st \in BookingStatuses, Exclusive(st), NEW deadline, NEW t,
           NEW G \in SUBSET Group, NEW s,
           CanClaim(st, deadline, G, t),
           \A g, h \in G : g # h => CellsOf[g] \cap CellsOf[h] = {}
    PROVE  Exclusive(Claim(st, deadline, G, s, t))
<1> DEFINE mid == ExpireLapsed(st, deadline, CellsIn(G), t)
<1>1. "EXPIRED" \in RELEASING /\ "EXPIRED" \in BookingStatus
  BY DEF RELEASING, BookingStatus
<1>2. mid \in BookingStatuses
  BY <1>1, SetStatusType DEF ExpireLapsed
<1>3. Exclusive(mid)
  BY <1>1, ReleaseKeepsExclusive DEF ExpireLapsed
<1>4. Accepts(mid, G)
  BY DEF CanClaim
<1> HIDE DEF mid
<1>5. Exclusive(SetStatus(mid, G, s))
  BY <1>2, <1>3, <1>4, EnterKeepsExclusive
<1> QED BY <1>5 DEF Claim, mid

\* A request names a court-hour once.
LEMMA ItemsDisjoint ==
    ASSUME NEW c \in Checkout
    PROVE  /\ ItemsOf(c) \in SUBSET Group
           /\ \A g, h \in ItemsOf(c) : g # h => CellsOf[g] \cap CellsOf[h] = {}
<1>1. ItemsOf(c) \in Closure \cup {ItemsOf(d) : d \in Checkout}
  OBVIOUS
<1>2. ItemsOf(c) \in SUBSET Group
  BY DEF ItemsOf
<1> QED BY <1>1, <1>2, CalendarAssumption DEF CalendarAssumption

\* A closure closes a court-hour once.
LEMMA ClosureDisjoint ==
    ASSUME NEW R \in Closure
    PROVE  /\ R \in SUBSET Group
           /\ \A g, h \in R : g # h => CellsOf[g] \cap CellsOf[h] = {}
<1>1. R \in Closure \cup {ItemsOf(d) : d \in Checkout}
  OBVIOUS
<1> QED BY <1>1, CalendarAssumption DEF CalendarAssumption

-----------------------------------------------------------------------------
(* Types.                                                                   *)

\* The empty database is well typed.
LEMMA TypeInit == Init => TypeOK
<1> SUFFICES ASSUME Init PROVE TypeOK
  OBVIOUS
<1>1. MaxTime \in Nat
  BY FlowAssumption DEF FlowAssumption
<1> QED BY <1>1 DEF Init, TypeOK, Never

\* Every transaction keeps the types.
LEMMA TypeNext == TypeOK /\ [Next]_vars => TypeOK'
<1> SUFFICES ASSUME TypeOK, [Next]_vars PROVE TypeOK'
  OBVIOUS
<1>a. /\ MaxTime \in Nat /\ HoldTicks \in Nat
      /\ PageOutcome \subseteq MayaStatus
  BY FlowAssumption DEF FlowAssumption, MayaStatus
<1> USE DEF groups, checkouts, payments, provider, requests, history
<1>1. CASE Tick
  BY <1>1, <1>a DEF TypeOK, Tick
<1>2. ASSUME NEW c \in Checkout, CreateCheck(c) PROVE TypeOK'
  BY <1>2, <1>a DEF TypeOK, CreateCheck
<1>3. ASSUME NEW c \in Checkout, CreateCommit(c) PROVE TypeOK'
  <2>1. Claim(booking_status, expires_at, ItemsOf(c), "PENDING", create_now[c]) \in BookingStatuses
    BY ClaimType DEF TypeOK, BookingStatuses, BookingStatus
  <2> QED BY <1>3, <1>a, <2>1 DEF TypeOK, CreateCommit, BookingStatuses, PaymentOutcome
<1>4. ASSUME NEW c \in Checkout, CancelStart(c) PROVE TypeOK'
  BY <1>4, <1>a DEF TypeOK, CancelStart
<1>5. ASSUME NEW c \in Checkout, CancelCommit(c) PROVE TypeOK'
  BY <1>5, <1>a DEF TypeOK, CancelCommit, BookingStatus, SetStatus, PaymentOutcome
<1>6. ASSUME NEW c \in Checkout, NEW s \in Session, PayAsk(c, s) PROVE TypeOK'
  BY <1>6, <1>a DEF TypeOK, PayAsk
<1>7. ASSUME NEW s \in Session, PayRecord(s) PROVE TypeOK'
  BY <1>7, <1>a DEF TypeOK, PayRecord, MayaStatus, MayaPending, PaymentOutcome
<1>8. ASSUME NEW s \in Session, RefundByHand(s) PROVE TypeOK'
  BY <1>8, <1>a DEF TypeOK, RefundByHand, MayaMoves, MayaStatus, MayaUndone
<1>9. ASSUME NEW s \in Session, NEW ps \in PageOutcome, Settle(s, ps) PROVE TypeOK'
  BY <1>9, <1>a DEF TypeOK, Settle, MayaMoves
<1>10. ASSUME NEW s \in Session, NEW ps \in MayaStatus, ApplyRelease(s, ps) PROVE TypeOK'
  BY <1>10, <1>a DEF TypeOK, ApplyRelease, FirstReport, OutcomeOf, PaymentOutcome, SetStatus,
                     BookingStatus, MayaFailed, MayaBackedOut, MayaPaid
<1>11. ASSUME NEW s \in Session, NEW ps \in MayaStatus, ApplyForeignRefund(s, ps) PROVE TypeOK'
  BY <1>11, <1>a DEF TypeOK, ApplyForeignRefund, FirstReport, Flag
<1>12. ASSUME NEW s \in Session, NEW ps \in MayaStatus, ApplyOwnRefund(s, ps) PROVE TypeOK'
  <2>v. status' \in [Checkout -> PaymentOutcome \cup {Absent}]
    BY <1>12 DEF TypeOK, ApplyOwnRefund, PaymentOutcome
  <2>r. attempt_status' \in [Session -> PaymentOutcome \cup {Absent}]
    BY <1>12 DEF TypeOK, ApplyOwnRefund, PaymentOutcome
  <2>e. events' \subseteq Session \X MayaStatus
    BY <1>12 DEF TypeOK, ApplyOwnRefund, FirstReport
  <2> QED BY <1>12, <2>v, <2>r, <2>e DEF TypeOK, ApplyOwnRefund
<1>13. ASSUME NEW s \in Session, NEW ps \in MayaStatus, ApplyPaidUnbookable(s, ps) PROVE TypeOK'
  BY <1>13, <1>a DEF TypeOK, ApplyPaidUnbookable, FirstReport, Flag
<1>14. ASSUME NEW s \in Session, NEW ps \in MayaStatus, ApplyPaidLive(s, ps) PROVE TypeOK'
  <2>v. status' \in [Checkout -> PaymentOutcome \cup {Absent}]
    BY <1>14 DEF TypeOK, ApplyPaidLive, Book, PaymentOutcome
  <2>r. attempt_status' \in [Session -> PaymentOutcome \cup {Absent}]
    BY <1>14 DEF TypeOK, ApplyPaidLive, Book, PaymentOutcome
  <2>e. events' \subseteq Session \X MayaStatus
    BY <1>14 DEF TypeOK, ApplyPaidLive, Book, FirstReport
  <2>b. booking_status' \in [Group -> BookingStatus \cup {Absent}]
    BY <1>14, SetStatusType DEF TypeOK, ApplyPaidLive, Book, BookingStatuses, BookingStatus
  <2> QED BY <1>14, <2>v, <2>r, <2>e, <2>b DEF TypeOK, ApplyPaidLive, Book
<1>15. ASSUME NEW s \in Session, NEW ps \in MayaStatus, ApplyPaidLate(s, ps) PROVE TypeOK'
  <2>v. status' \in [Checkout -> PaymentOutcome \cup {Absent}]
    BY <1>15 DEF TypeOK, ApplyPaidLate, Book, PaymentOutcome
  <2>r. attempt_status' \in [Session -> PaymentOutcome \cup {Absent}]
    BY <1>15 DEF TypeOK, ApplyPaidLate, Book, PaymentOutcome
  <2>e. events' \subseteq Session \X MayaStatus
    BY <1>15 DEF TypeOK, ApplyPaidLate, Book, FirstReport
  <2>b. booking_status' \in [Group -> BookingStatus \cup {Absent}]
    BY <1>15, ClaimType DEF TypeOK, ApplyPaidLate, Book, BookingStatuses, BookingStatus
  <2> QED BY <1>15, <2>v, <2>r, <2>e, <2>b DEF TypeOK, ApplyPaidLate, Book
<1>16. ASSUME NEW s \in Session, NEW ps \in MayaStatus, ApplyPaidLost(s, ps) PROVE TypeOK'
  <2>v. status' \in [Checkout -> PaymentOutcome \cup {Absent}]
    BY <1>16 DEF TypeOK, ApplyPaidLost, PaymentOutcome
  <2>r. attempt_status' \in [Session -> PaymentOutcome \cup {Absent}]
    BY <1>16 DEF TypeOK, ApplyPaidLost, PaymentOutcome
  <2>e. events' \subseteq Session \X MayaStatus
    BY <1>16 DEF TypeOK, ApplyPaidLost, FirstReport
  <2>b. booking_status' \in [Group -> BookingStatus \cup {Absent}]
    BY <1>16, SetStatusType DEF TypeOK, ApplyPaidLost, BookingStatuses, BookingStatus
  <2> QED BY <1>16, <2>v, <2>r, <2>e, <2>b DEF TypeOK, ApplyPaidLost, Flag
<1>17. ASSUME NEW s \in Session, NEW ps \in MayaUndone, UndoAccepted(s, ps) PROVE TypeOK'
  BY <1>17, <1>a DEF TypeOK, UndoAccepted, MayaMoves, MayaStatus
<1>18. ASSUME NEW s \in Session, UndoRefused(s) PROVE TypeOK'
  BY <1>18, <1>a DEF TypeOK, UndoRefused, MayaMoves, MayaStatus, MayaUndone
<1>19. ASSUME NEW s \in Session, UndoRecord(s) PROVE TypeOK'
  BY <1>19, <1>a DEF TypeOK, UndoRecord, PaymentOutcome
<1>20. ASSUME NEW s \in Session, UndoByHand(s) PROVE TypeOK'
  BY <1>20, <1>a DEF TypeOK, UndoByHand, Flag
<1>21. ASSUME NEW g \in Group, WalkInBooked(g) PROVE TypeOK'
  <2>1. Claim(booking_status, expires_at, {g}, "CONFIRMED", now) \in BookingStatuses
    BY ClaimType DEF TypeOK, BookingStatuses, BookingStatus
  <2> QED BY <1>21, <1>a, <2>1 DEF TypeOK, WalkInBooked, DeskClaim, BookingStatuses
<1>22. ASSUME NEW R \in Closure, CourtsClosed(R) PROVE TypeOK'
  <2>1. Claim(booking_status, expires_at, R, "CONFIRMED", now) \in BookingStatuses
    BY ClaimType DEF TypeOK, BookingStatuses, BookingStatus
  <2> QED BY <1>22, <1>a, <2>1 DEF TypeOK, CourtsClosed, DeskClaim, BookingStatuses
<1>23. ASSUME NEW g \in Group, NEW op \in Desk, DeskCheck(g, op) PROVE TypeOK'
  BY <1>23, <1>a DEF TypeOK, DeskCheck
<1>24. ASSUME NEW g \in Group, NEW op \in Desk, DeskSetsStatus(g, op) PROVE TypeOK'
  BY <1>24, <1>a DEF TypeOK, DeskSetsStatus
<1>25. ASSUME NEW g \in Group, DeskResolves(g) PROVE TypeOK'
  BY <1>25, <1>a DEF TypeOK, DeskResolves
<1>26. ASSUME NEW g \in Group, DeskMarksPaid(g) PROVE TypeOK'
  BY <1>26, <1>a DEF TypeOK, DeskMarksPaid
<1>27. CASE UNCHANGED vars
  BY <1>27 DEF TypeOK, vars
<1> QED BY <1>1, <1>2, <1>3, <1>4, <1>5, <1>6, <1>7, <1>8, <1>9, <1>10, <1>11, <1>12, <1>13,
          <1>14, <1>15, <1>16, <1>17, <1>18, <1>19, <1>20, <1>21, <1>22, <1>23, <1>24, <1>25, <1>26,
          <1>27 DEF Next, Sync, Undo

\* Every state holds values of the types the schema and the code give them.
THEOREM TypeCorrect == Spec => []TypeOK
BY TypeInit, TypeNext, PTL DEF Spec

-----------------------------------------------------------------------------
(* The inductive invariant.  Exclusive alone is not inductive: a payment    *)
(* confirms a live hold without asking the index, so the hold must still be *)
(* whole; cleanup must then only meet holds that lapsed by now, so request  *)
(* clocks lie in the past; and a staff write decided on an earlier read must *)
(* not meet a hold, so what staff act on is already past its verdict.       *)

Sold(g) == booking_status[g] \in {"CONFIRMED", "COMPLETED", "NO_SHOW"}

\* The group is sold, or staff read it as sold and are about to write.
Committed(g) == Sold(g) \/ \E op \in BookingStatus : <<g, op>> \in desk

PaidBehind(c) ==
    \E s \in Session : attempt[s] = "recorded" /\ attempt_of[s] = c /\ <<s, Paid>> \in events

ClocksPast == \A c \in Checkout : create_now[c] <= now

SessionsKnown == \A s \in Session : attempt[s] # "none" => attempt_of[s] \in Checkout

VerdictFirst ==
    \A c \in Checkout : \A g \in ItemsOf(c) :
        Committed(g) => status[c] \notin {Absent, "PENDING"} /\ PaidBehind(c)

CalendarInv ==
    TypeOK /\ ClocksPast /\ SessionsKnown /\ VerdictFirst /\ LiveHoldIsWhole /\ NoDoubleBooking

\* A step either leaves the calendar alone, or is one of these.
Quiet ==
    /\ booking_status' = booking_status /\ expires_at' = expires_at /\ now <= now'
    /\ \A c \in Checkout : status'[c] \in {status[c], "REFUNDED"}

\* The transactions that write the calendar, and what the others keep.
LEMMA CalendarSteps ==
    ASSUME TypeOK, [Next]_vars
    PROVE  \/ Quiet
           \/ \E c \in Checkout : CreateCommit(c) \/ CancelCommit(c)
           \/ \E s \in Session, ps \in MayaStatus :
                 \/ ApplyRelease(s, ps) \/ ApplyPaidLive(s, ps)
                 \/ ApplyPaidLate(s, ps) \/ ApplyPaidLost(s, ps)
           \/ \E g \in Group : WalkInBooked(g) \/ \E op \in Desk : DeskSetsStatus(g, op)
           \/ \E R \in Closure : CourtsClosed(R)
<1> USE DEF groups, checkouts
<1>0. now \in Int
  BY FlowAssumption DEF TypeOK, FlowAssumption
<1>1. CASE Tick
  BY <1>1, <1>0 DEF Tick, Quiet
<1>2. ASSUME NEW c \in Checkout,
             CreateCheck(c) \/ CancelStart(c) \/ \E s \in Session : PayAsk(c, s)
      PROVE  Quiet
  BY <1>2, <1>0 DEF Quiet, CreateCheck, CancelStart, PayAsk
<1>3. ASSUME NEW s \in Session, PayRecord(s) \/ RefundByHand(s) \/ \E ps \in PageOutcome : Settle(s, ps)
      PROVE  Quiet
  BY <1>3, <1>0 DEF Quiet, PayRecord, RefundByHand, Settle
<1>4. ASSUME NEW s \in Session, NEW ps \in MayaStatus,
             ApplyForeignRefund(s, ps) \/ ApplyOwnRefund(s, ps) \/ ApplyPaidUnbookable(s, ps)
      PROVE  Quiet
  BY <1>4, <1>0 DEF Quiet, TypeOK, ApplyForeignRefund, ApplyOwnRefund, ApplyPaidUnbookable
<1>5. ASSUME NEW s \in Session, Undo(s)
      PROVE  Quiet
  <2>1. ASSUME NEW ps \in MayaUndone, UndoAccepted(s, ps) PROVE Quiet
    BY <2>1, <1>0 DEF Quiet, UndoAccepted
  <2>2. CASE UndoRefused(s)
    BY <2>2, <1>0 DEF Quiet, UndoRefused
  <2>3. CASE UndoRecord(s)
    BY <2>3, <1>0 DEF Quiet, UndoRecord, TypeOK
  <2>4. CASE UndoByHand(s)
    BY <2>4, <1>0 DEF Quiet, UndoByHand
  <2> QED BY <1>5, <2>1, <2>2, <2>3, <2>4 DEF Undo
<1>6. ASSUME NEW g \in Group, DeskResolves(g) \/ DeskMarksPaid(g) \/ \E op \in Desk : DeskCheck(g, op)
      PROVE  Quiet
  <2>1. CASE DeskResolves(g)
    BY <2>1, <1>0 DEF Quiet, DeskResolves
  <2>2. CASE DeskMarksPaid(g)
    BY <2>2, <1>0 DEF Quiet, DeskMarksPaid
  <2>3. ASSUME NEW op \in Desk, DeskCheck(g, op) PROVE Quiet
    BY <2>3, <1>0 DEF Quiet, DeskCheck
  <2> QED BY <1>6, <2>1, <2>2, <2>3
<1>7. CASE UNCHANGED vars
  BY <1>7, <1>0 DEF vars, Quiet
<1> QED BY <1>1, <1>2, <1>3, <1>4, <1>5, <1>6, <1>7 DEF Next, Sync

-----------------------------------------------------------------------------
\* No transaction puts two groups on one court-hour.
LEMMA NoDoubleBookingNext ==
    ASSUME CalendarInv, [Next]_vars
    PROVE  NoDoubleBooking'
<1> USE DEF CalendarInv
<1>a. booking_status \in BookingStatuses /\ Exclusive(booking_status)
  BY DEF TypeOK, BookingStatuses, NoDoubleBooking
<1> SUFFICES Exclusive(booking_status')
  BY DEF NoDoubleBooking, Exclusive, Occupies
<1>b. {"CANCELLED", "EXPIRED"} \subseteq RELEASING
  BY DEF RELEASING
<1>1. CASE Quiet
  BY <1>1, <1>a DEF Quiet
<1>2. ASSUME NEW c \in Checkout, CreateCommit(c) PROVE Exclusive(booking_status')
  BY <1>2, <1>a, ItemsDisjoint, ClaimKeepsExclusive DEF CreateCommit
<1>3. ASSUME NEW c \in Checkout, CancelCommit(c) PROVE Exclusive(booking_status')
  BY <1>3, <1>a, <1>b, ReleaseKeepsExclusive DEF CancelCommit
<1>4. ASSUME NEW s \in Session, NEW ps \in MayaStatus, ApplyRelease(s, ps)
      PROVE  Exclusive(booking_status')
  BY <1>4, <1>a, <1>b, ReleaseKeepsExclusive DEF ApplyRelease
<1>5. ASSUME NEW s \in Session, NEW ps \in MayaStatus, ApplyPaidLive(s, ps)
      PROVE  Exclusive(booking_status')
  <2>1. attempt_of[s] \in Checkout /\ IsLive(attempt_of[s], now)
    BY <1>5 DEF ApplyPaidLive, SessionsKnown
  <2>2. \A g \in ItemsOf(attempt_of[s]) : Occupies(booking_status, g)
    BY <2>1 DEF LiveHoldIsWhole, Occupies, RELEASING, Absent
  <2> QED BY <1>5, <1>a, <2>2, KeepKeepsExclusive DEF ApplyPaidLive, Book
<1>6. ASSUME NEW s \in Session, NEW ps \in MayaStatus, ApplyPaidLate(s, ps)
      PROVE  Exclusive(booking_status')
  <2>1. attempt_of[s] \in Checkout
    BY <1>6 DEF ApplyPaidLate, SessionsKnown
  <2> QED BY <1>6, <1>a, <2>1, ItemsDisjoint, ClaimKeepsExclusive DEF ApplyPaidLate, Reacquirable, Book
<1>7. ASSUME NEW s \in Session, NEW ps \in MayaStatus, ApplyPaidLost(s, ps)
      PROVE  Exclusive(booking_status')
  BY <1>7, <1>a, <1>b, ReleaseKeepsExclusive DEF ApplyPaidLost
<1>8. ASSUME NEW g \in Group, WalkInBooked(g) PROVE Exclusive(booking_status')
  <2>1. \A x, y \in {g} : x # y => CellsOf[x] \cap CellsOf[y] = {}
    OBVIOUS
  <2> QED BY <1>8, <1>a, <2>1, ClaimKeepsExclusive DEF WalkInBooked, DeskClaim
<1>9. ASSUME NEW R \in Closure, CourtsClosed(R) PROVE Exclusive(booking_status')
  BY <1>9, <1>a, ClosureDisjoint, ClaimKeepsExclusive DEF CourtsClosed, DeskClaim
<1>10. ASSUME NEW g \in Group, NEW op \in Desk, DeskSetsStatus(g, op)
       PROVE  Exclusive(booking_status')
  <2>1. booking_status' = SetStatus(booking_status, {g}, op)
    BY <1>10, <1>a DEF DeskSetsStatus, SetStatus, BookingStatuses
  <2>2. \A x, y \in {g} : x # y => CellsOf[x] \cap CellsOf[y] = {}
    OBVIOUS
  <2>3. CASE op \in RELEASING
    BY <1>a, <2>1, <2>3, ReleaseKeepsExclusive
  <2>4. CASE Accepts(booking_status, {g})
    BY <1>a, <2>1, <2>2, <2>4, EnterKeepsExclusive
  <2> QED BY <1>10, <2>3, <2>4 DEF DeskSetsStatus
<1> QED BY <1>1, <1>2, <1>3, <1>4, <1>5, <1>6, <1>7, <1>8, <1>9, <1>10, CalendarSteps

-----------------------------------------------------------------------------
\* A claim by others leaves a hold that has not ended at t as it is.
LEMMA ClaimSparesLive ==
    ASSUME NEW st, NEW deadline, NEW G, NEW s, NEW t \in Int, NEW g \in Group \ G,
           st[g] = "PENDING", deadline[CheckoutOf[g]] \in Int, deadline[CheckoutOf[g]] > t
    PROVE  Claim(st, deadline, G, s, t)[g] = "PENDING"
<1>1. g \notin Lapsed(st, deadline, CellsIn(G), t)
  BY DEF Lapsed
<1> QED BY <1>1 DEF Claim, ExpireLapsed, SetStatus

\* Groups of a checkout and groups of the desk, or of another checkout, differ.
LEMMA ItemsApart ==
    ASSUME NEW c \in Checkout, NEW g \in ItemsOf(c)
    PROVE  /\ g \in Group /\ CheckoutOf[g] = c /\ g \notin WalkIn
           /\ \A R \in Closure : g \notin R
           /\ \A d : d # c => g \notin ItemsOf(d)
<1>1. g \in Group /\ CheckoutOf[g] = c /\ c # NoCheckout
  BY CalendarAssumption DEF ItemsOf, CalendarAssumption
<1>2. g \notin ItemsOf(NoCheckout)
  BY <1>1 DEF ItemsOf
<1>3. \A R \in Closure : g \notin R
  BY <1>2, CalendarAssumption DEF CalendarAssumption, Maintenance
<1> QED BY <1>1, <1>2, <1>3 DEF ItemsOf, WalkIn

\* A declined or abandoned session always ends the hold.
LEMMA ReleaseOutcome ==
    ASSUME NEW ps \in MayaFailed \cup MayaBackedOut
    PROVE  OutcomeOf(ps) \in {"FAILED", "CANCELLED"}
<1>1. ps \notin MayaPaid /\ ps \notin MayaUndone /\ ps \notin MayaPending
  BY DEF MayaPaid, MayaFailed, MayaBackedOut, MayaUndone, MayaPending, Paid, Amiss
<1>2. ps \in MayaFailed => ps \notin MayaBackedOut
  BY DEF MayaFailed, MayaBackedOut
<1>3. CASE ps \in MayaFailed
  BY <1>1, <1>2, <1>3 DEF OutcomeOf
<1>4. CASE ps \in MayaBackedOut
  BY <1>1, <1>2, <1>4 DEF OutcomeOf
<1> QED BY <1>3, <1>4

\* No transaction takes a court out of a live hold.
LEMMA LiveHoldNext ==
    ASSUME CalendarInv, [Next]_vars
    PROVE  LiveHoldIsWhole'
<1> USE DEF CalendarInv, checkouts
<1> SUFFICES ASSUME NEW c \in Checkout, NEW g \in ItemsOf(c),
                    status'[c] = "PENDING", expires_at'[c] > now'
             PROVE  booking_status'[g] = "PENDING"
  BY DEF LiveHoldIsWhole, IsLive
<1>a. /\ now \in Int /\ \A d \in Checkout : create_now[d] \in Int /\ create_now[d] <= now
      /\ expires_at \in [Checkout -> Int] /\ status \in [Checkout -> PaymentOutcome \cup {Absent}]
      /\ booking_status \in [Group -> BookingStatus \cup {Absent}]
  BY FlowAssumption DEF TypeOK, FlowAssumption, ClocksPast, Never
<1>b. status[c] = "PENDING" /\ expires_at[c] > now => booking_status[g] = "PENDING"
  BY DEF LiveHoldIsWhole, IsLive
<1>c. g \in Group /\ CheckoutOf[g] = c
  BY ItemsApart
<1>1. CASE Quiet
  <2>1. status[c] = "PENDING" /\ expires_at[c] > now'
    BY <1>1 DEF Quiet
  <2>2. now' \in Int /\ now <= now'
    BY <1>1, TypeNext, FlowAssumption DEF Quiet, TypeOK, FlowAssumption
  <2> QED BY <1>1, <1>a, <1>b, <2>1, <2>2 DEF Quiet
<1>2. ASSUME NEW d \in Checkout, CreateCommit(d) PROVE booking_status'[g] = "PENDING"
  <2>1. CASE c = d
    BY <1>2, <2>1, <1>c DEF CreateCommit, Claim, SetStatus
  <2>2. CASE c # d
    <3>1. g \notin ItemsOf(d)
      BY <2>2, ItemsApart
    <3>2. status[c] = "PENDING" /\ expires_at[c] > now
      BY <1>2, <1>a, <2>2 DEF CreateCommit
    <3>3. expires_at[c] > create_now[d]
      BY <3>2, <1>a
    <3> QED BY <1>2, <1>a, <1>b, <1>c, <3>1, <3>2, <3>3, ClaimSparesLive DEF CreateCommit
  <2> QED BY <2>1, <2>2
<1>3. ASSUME NEW d \in Checkout, CancelCommit(d) PROVE booking_status'[g] = "PENDING"
  <2>1. c # d
    BY <1>3, <1>a DEF CancelCommit
  <2>2. g \notin ItemsOf(d)
    BY <2>1, ItemsApart
  <2>3. status[c] = "PENDING" /\ expires_at[c] > now
    BY <1>3, <1>a, <2>1 DEF CancelCommit
  <2> QED BY <1>3, <1>b, <1>c, <2>2, <2>3 DEF CancelCommit, SetStatus
<1>4. ASSUME NEW s \in Session, NEW ps \in MayaStatus, ApplyRelease(s, ps)
      PROVE  booking_status'[g] = "PENDING"
  <2>1. CASE status[attempt_of[s]] # "PENDING"
    BY <1>4, <1>b, <2>1 DEF ApplyRelease
  <2>2. CASE status[attempt_of[s]] = "PENDING"
    <3>1. OutcomeOf(ps) # "PENDING"
      BY <1>4, ReleaseOutcome DEF ApplyRelease
    <3>2. c # attempt_of[s]
      BY <1>4, <1>a, <2>2, <3>1 DEF ApplyRelease
    <3>3. g \notin OpenItems(attempt_of[s])
      BY <3>2, ItemsApart DEF OpenItems
    <3>4. status[c] = "PENDING" /\ expires_at[c] > now
      BY <1>4, <1>a, <2>2, <3>2 DEF ApplyRelease
    <3> QED BY <1>4, <1>b, <1>c, <2>2, <3>3, <3>4 DEF ApplyRelease, SetStatus
  <2> QED BY <2>1, <2>2
<1>5. ASSUME NEW s \in Session, NEW ps \in MayaStatus, ApplyPaidLive(s, ps)
      PROVE  booking_status'[g] = "PENDING"
  <2>1. c # attempt_of[s]
    BY <1>5, <1>a DEF ApplyPaidLive, Book
  <2>2. g \notin ItemsOf(attempt_of[s])
    BY <2>1, ItemsApart
  <2>3. status[c] = "PENDING" /\ expires_at[c] > now
    BY <1>5, <1>a, <2>1 DEF ApplyPaidLive, Book
  <2> QED BY <1>5, <1>b, <1>c, <2>2, <2>3 DEF ApplyPaidLive, Book, SetStatus
<1>6. ASSUME NEW s \in Session, NEW ps \in MayaStatus, ApplyPaidLate(s, ps)
      PROVE  booking_status'[g] = "PENDING"
  <2>1. c # attempt_of[s]
    BY <1>6, <1>a DEF ApplyPaidLate, Book
  <2>2. g \notin ItemsOf(attempt_of[s])
    BY <2>1, ItemsApart
  <2>3. status[c] = "PENDING" /\ expires_at[c] > now
    BY <1>6, <1>a, <2>1 DEF ApplyPaidLate, Book
  <2> QED BY <1>6, <1>a, <1>b, <1>c, <2>2, <2>3, ClaimSparesLive DEF ApplyPaidLate, Book
<1>7. ASSUME NEW s \in Session, NEW ps \in MayaStatus, ApplyPaidLost(s, ps)
      PROVE  booking_status'[g] = "PENDING"
  <2>1. c # attempt_of[s]
    BY <1>7, <1>a DEF ApplyPaidLost
  <2>2. g \notin OpenItems(attempt_of[s])
    BY <2>1, ItemsApart DEF OpenItems
  <2>3. status[c] = "PENDING" /\ expires_at[c] > now
    BY <1>7, <1>a, <2>1 DEF ApplyPaidLost
  <2> QED BY <1>7, <1>b, <1>c, <2>2, <2>3 DEF ApplyPaidLost, SetStatus
<1>8. ASSUME NEW w \in Group, WalkInBooked(w) PROVE booking_status'[g] = "PENDING"
  <2>1. g \notin {w}
    BY <1>8, ItemsApart DEF WalkInBooked
  <2>2. status[c] = "PENDING" /\ expires_at[c] > now
    BY <1>8 DEF WalkInBooked, DeskClaim
  <2> QED BY <1>8, <1>a, <1>b, <1>c, <2>1, <2>2, ClaimSparesLive DEF WalkInBooked, DeskClaim
<1>9. ASSUME NEW R \in Closure, CourtsClosed(R) PROVE booking_status'[g] = "PENDING"
  <2>1. g \notin R
    BY ItemsApart
  <2>2. status[c] = "PENDING" /\ expires_at[c] > now
    BY <1>9 DEF CourtsClosed, DeskClaim
  <2> QED BY <1>9, <1>a, <1>b, <1>c, <2>1, <2>2, ClaimSparesLive DEF CourtsClosed, DeskClaim
<1>10. ASSUME NEW x \in Group, NEW op \in Desk, DeskSetsStatus(x, op)
       PROVE  booking_status'[g] = "PENDING"
  <2>1. status[c] = "PENDING" /\ expires_at[c] > now
    BY <1>10 DEF DeskSetsStatus
  <2>2. Committed(x)
    BY <1>10 DEF DeskSetsStatus, Committed
  <2>3. x # g
    BY <2>1, <2>2 DEF VerdictFirst
  <2> QED BY <1>10, <1>a, <1>b, <1>c, <2>1, <2>3 DEF DeskSetsStatus
<1> QED BY <1>1, <1>2, <1>3, <1>4, <1>5, <1>6, <1>7, <1>8, <1>9, <1>10, CalendarSteps

-----------------------------------------------------------------------------
\* What is on record stays on record.
LEMMA RecordsGrow ==
    ASSUME TypeOK, [Next]_vars
    PROVE  /\ events \subseteq events'
           /\ \A s \in Session : attempt[s] = "recorded" =>
                 attempt'[s] = "recorded" /\ attempt_of'[s] = attempt_of[s]
<1> DEFINE Grow == /\ events \subseteq events'
                   /\ \A s \in Session : attempt[s] = "recorded" =>
                         attempt'[s] = "recorded" /\ attempt_of'[s] = attempt_of[s]
<1> USE DEF groups, checkouts, payments
<1>1. CASE Tick
  BY <1>1 DEF Tick
<1>2. ASSUME NEW c \in Checkout, CreateCheck(c) \/ CreateCommit(c) \/ CancelStart(c) \/ CancelCommit(c)
      PROVE  Grow
  BY <1>2 DEF CreateCheck, CreateCommit, CancelStart, CancelCommit
<1>3. ASSUME NEW c \in Checkout, NEW s \in Session, PayAsk(c, s) PROVE Grow
  BY <1>3 DEF PayAsk, TypeOK
<1>4. ASSUME NEW s \in Session, PayRecord(s) PROVE Grow
  BY <1>4 DEF PayRecord, TypeOK
<1>5. ASSUME NEW s \in Session, RefundByHand(s) \/ \E ps \in PageOutcome : Settle(s, ps) PROVE Grow
  BY <1>5 DEF RefundByHand, Settle
<1>6. ASSUME NEW s \in Session, NEW ps \in MayaStatus,
             ApplyRelease(s, ps) \/ ApplyForeignRefund(s, ps) \/ ApplyOwnRefund(s, ps)
      PROVE  Grow
  BY <1>6 DEF ApplyRelease, ApplyForeignRefund, ApplyOwnRefund, FirstReport
<1>7. ASSUME NEW s \in Session, NEW ps \in MayaStatus,
             ApplyPaidUnbookable(s, ps) \/ ApplyPaidLive(s, ps) \/ ApplyPaidLate(s, ps) \/ ApplyPaidLost(s, ps)
      PROVE  Grow
  BY <1>7 DEF ApplyPaidUnbookable, ApplyPaidLive, ApplyPaidLate, ApplyPaidLost, Book, FirstReport
<1>8. ASSUME NEW s \in Session, Undo(s) PROVE Grow
  BY <1>8 DEF Undo, UndoAccepted, UndoRefused, UndoRecord, UndoByHand
<1>9. ASSUME NEW g \in Group, WalkInBooked(g) \/ DeskResolves(g) \/ DeskMarksPaid(g) PROVE Grow
  BY <1>9 DEF WalkInBooked, DeskClaim, DeskResolves, DeskMarksPaid
<1>10. ASSUME NEW g \in Group, NEW op \in Desk, DeskCheck(g, op) \/ DeskSetsStatus(g, op) PROVE Grow
  BY <1>10 DEF DeskCheck, DeskSetsStatus
<1>11. ASSUME NEW R \in Closure, CourtsClosed(R) PROVE Grow
  BY <1>11 DEF CourtsClosed, DeskClaim
<1>12. CASE UNCHANGED vars
  BY <1>12 DEF vars
<1> QED BY <1>1, <1>2, <1>3, <1>4, <1>5, <1>6, <1>7, <1>8, <1>9, <1>10, <1>11, <1>12 DEF Next, Sync

\* Staff requests come into being by a check, and change nothing else then.
LEMMA DeskSteps ==
    ASSUME [Next]_vars
    PROVE  desk' \subseteq desk \/ \E g \in Group, op \in Desk : DeskCheck(g, op)
<1> USE DEF requests
<1>1. CASE Tick
  BY <1>1 DEF Tick
<1>2. ASSUME NEW c \in Checkout, CreateCheck(c) \/ CreateCommit(c) \/ CancelStart(c) \/ CancelCommit(c)
      PROVE  desk' \subseteq desk
  BY <1>2 DEF CreateCheck, CreateCommit, CancelStart, CancelCommit
<1>3. ASSUME NEW s \in Session,
             \/ \E c \in Checkout : PayAsk(c, s)
             \/ PayRecord(s) \/ RefundByHand(s) \/ \E ps \in PageOutcome : Settle(s, ps)
      PROVE  desk' \subseteq desk
  BY <1>3 DEF PayAsk, PayRecord, RefundByHand, Settle
<1>4. ASSUME NEW s \in Session, NEW ps \in MayaStatus,
             ApplyRelease(s, ps) \/ ApplyForeignRefund(s, ps) \/ ApplyOwnRefund(s, ps)
      PROVE  desk' \subseteq desk
  BY <1>4 DEF ApplyRelease, ApplyForeignRefund, ApplyOwnRefund
<1>5. ASSUME NEW s \in Session, NEW ps \in MayaStatus,
             ApplyPaidUnbookable(s, ps) \/ ApplyPaidLive(s, ps) \/ ApplyPaidLate(s, ps) \/ ApplyPaidLost(s, ps)
      PROVE  desk' \subseteq desk
  BY <1>5 DEF ApplyPaidUnbookable, ApplyPaidLive, ApplyPaidLate, ApplyPaidLost, Book
<1>6. ASSUME NEW s \in Session, Undo(s) PROVE desk' \subseteq desk
  BY <1>6 DEF Undo, UndoAccepted, UndoRefused, UndoRecord, UndoByHand
<1>7. ASSUME NEW g \in Group, WalkInBooked(g) \/ DeskResolves(g) \/ DeskMarksPaid(g)
      PROVE  desk' \subseteq desk
  BY <1>7 DEF WalkInBooked, DeskClaim, DeskResolves, DeskMarksPaid
<1>8. ASSUME NEW g \in Group, NEW op \in Desk, DeskSetsStatus(g, op) PROVE desk' \subseteq desk
  BY <1>8 DEF DeskSetsStatus
<1>9. ASSUME NEW R \in Closure, CourtsClosed(R) PROVE desk' \subseteq desk
  BY <1>9 DEF CourtsClosed, DeskClaim
<1>10. CASE UNCHANGED vars
  BY <1>10 DEF vars
<1> QED BY <1>1, <1>2, <1>3, <1>4, <1>5, <1>6, <1>7, <1>8, <1>9, <1>10 DEF Next, Sync

\* A verdict never turns back into a hold.
LEMMA VerdictKept ==
    ASSUME TypeOK, [Next]_vars, NEW c \in Checkout, status[c] \notin {Absent, "PENDING"}
    PROVE  status'[c] \notin {Absent, "PENDING"}
<1> USE DEF checkouts, TypeOK
<1>a. {"SUCCESSFUL", "CANCELLED", "FAILED", "REFUNDED"} \cap {Absent, "PENDING"} = {}
  BY DEF Absent
<1>1. CASE Quiet
  BY <1>1, <1>a DEF Quiet
<1>2. ASSUME NEW d \in Checkout, CreateCommit(d) \/ CancelCommit(d) PROVE status'[c] \notin {Absent, "PENDING"}
  BY <1>2, <1>a DEF CreateCommit, CancelCommit
<1>3. ASSUME NEW s \in Session, NEW ps \in MayaStatus, ApplyRelease(s, ps)
      PROVE  status'[c] \notin {Absent, "PENDING"}
  BY <1>3, <1>a, ReleaseOutcome DEF ApplyRelease
<1>4. ASSUME NEW s \in Session, NEW ps \in MayaStatus, ApplyPaidLive(s, ps) \/ ApplyPaidLate(s, ps)
      PROVE  status'[c] \notin {Absent, "PENDING"}
  BY <1>4, <1>a DEF ApplyPaidLive, ApplyPaidLate, Book
<1>5. ASSUME NEW s \in Session, NEW ps \in MayaStatus, ApplyPaidLost(s, ps)
      PROVE  status'[c] \notin {Absent, "PENDING"}
  BY <1>5, <1>a DEF ApplyPaidLost
<1>6. ASSUME NEW g \in Group, WalkInBooked(g) \/ \E op \in Desk : DeskSetsStatus(g, op)
      PROVE  status'[c] \notin {Absent, "PENDING"}
  BY <1>6 DEF WalkInBooked, DeskClaim, DeskSetsStatus
<1>7. ASSUME NEW R \in Closure, CourtsClosed(R) PROVE status'[c] \notin {Absent, "PENDING"}
  BY <1>7 DEF CourtsClosed, DeskClaim
<1> QED BY <1>1, <1>2, <1>3, <1>4, <1>5, <1>6, <1>7, CalendarSteps

\* A claim by others leaves a group as it is or expires it.
LEMMA ClaimByOthers ==
    ASSUME NEW st, NEW deadline, NEW G, NEW s, NEW t, NEW g \in Group \ G
    PROVE  Claim(st, deadline, G, s, t)[g] \in {st[g], "EXPIRED"}
BY DEF Claim, ExpireLapsed, SetStatus

\* Booking a paid checkout: its verdict, and the payment behind it.
LEMMA BookedVerdict ==
    ASSUME TypeOK, SessionsKnown, NEW s \in Session, NEW ps \in MayaStatus, NEW statuses,
           NEW c \in Checkout, c = attempt_of[s],
           attempt[s] = "recorded", Book(s, ps, statuses)
    PROVE  status'[c] \notin {Absent, "PENDING"} /\ PaidBehind(c)'
<1>1. status'[c] = "SUCCESSFUL"
  BY DEF Book, TypeOK
<1>2. ps = Paid
  BY DEF Book, Unbookable, MayaPaid
<1>3. <<s, Paid>> \in events' /\ attempt' = attempt /\ attempt_of' = attempt_of
  BY <1>2 DEF Book, FirstReport
<1> QED BY <1>1, <1>3 DEF PaidBehind, Absent

\* Nothing is sold, nor about to be written as sold, before its verdict.
LEMMA VerdictFirstNext ==
    ASSUME CalendarInv, [Next]_vars
    PROVE  VerdictFirst'
<1> USE DEF CalendarInv
<1> DEFINE Done(c) == status'[c] \notin {Absent, "PENDING"} /\ PaidBehind(c)'
<1> SUFFICES ASSUME NEW c \in Checkout, NEW g \in ItemsOf(c), Committed(g)'
             PROVE  Done(c)
  BY DEF VerdictFirst
<1>a. Committed(g) => Done(c)
  <2> SUFFICES ASSUME Committed(g) PROVE Done(c)
    OBVIOUS
  <2>1. status[c] \notin {Absent, "PENDING"} /\ PaidBehind(c)
    BY DEF VerdictFirst
  <2>2. PaidBehind(c)'
    BY <2>1, RecordsGrow DEF PaidBehind
  <2> QED BY <2>1, <2>2, VerdictKept
<1>b. g \in Group /\ CheckoutOf[g] = c /\ booking_status \in [Group -> BookingStatus \cup {Absent}]
  BY ItemsApart DEF TypeOK
<1>c. ASSUME \E op \in BookingStatus : <<g, op>> \in desk' PROVE Done(c)
  <2>1. PICK op \in BookingStatus : <<g, op>> \in desk'
    BY <1>c
  <2>2. CASE <<g, op>> \in desk
    BY <1>a, <2>2 DEF Committed
  <2>3. ASSUME NEW x \in Group, NEW o \in Desk, DeskCheck(x, o), <<g, op>> \notin desk PROVE Done(c)
    <3>1. g = x /\ op = o
      BY <2>1, <2>3 DEF DeskCheck
    <3>2. op \in {"CANCELLED", "COMPLETED", "NO_SHOW"}
      BY <3>1 DEF Desk, BookingStatus
    <3>3. booking_status[g] = "CONFIRMED"
      BY <2>3, <3>1, <3>2 DEF DeskCheck, DeskAllows
    <3> QED BY <1>a, <3>3 DEF Committed, Sold
  <2> QED BY <2>1, <2>2, <2>3, DeskSteps
<1>d. CASE booking_status'[g] \in {booking_status[g], "EXPIRED", "PENDING", "CANCELLED"}
  BY <1>a, <1>c, <1>d DEF Committed, Sold
<1>1. CASE Quiet
  BY <1>1, <1>d DEF Quiet
<1>2. ASSUME NEW d \in Checkout, CreateCommit(d) PROVE Done(c)
  <2>1. CASE c = d
    BY <1>2, <1>b, <1>d, <2>1 DEF CreateCommit, Claim, SetStatus
  <2>2. CASE c # d
    BY <1>2, <1>b, <1>d, <2>2, ItemsApart, ClaimByOthers DEF CreateCommit
  <2> QED BY <2>1, <2>2
<1>3. ASSUME NEW d \in Checkout, CancelCommit(d) PROVE Done(c)
  BY <1>3, <1>b, <1>d DEF CancelCommit, SetStatus
<1>4. ASSUME NEW s \in Session, NEW ps \in MayaStatus, ApplyRelease(s, ps) PROVE Done(c)
  BY <1>4, <1>b, <1>d DEF ApplyRelease, SetStatus
<1>5. ASSUME NEW s \in Session, NEW ps \in MayaStatus, ApplyPaidLive(s, ps) PROVE Done(c)
  <2>1. CASE c = attempt_of[s]
    BY <1>5, <2>1, BookedVerdict DEF ApplyPaidLive
  <2>2. CASE c # attempt_of[s]
    BY <1>5, <1>b, <1>d, <2>2, ItemsApart DEF ApplyPaidLive, Book, SetStatus
  <2> QED BY <2>1, <2>2
<1>6. ASSUME NEW s \in Session, NEW ps \in MayaStatus, ApplyPaidLate(s, ps) PROVE Done(c)
  <2>1. CASE c = attempt_of[s]
    BY <1>6, <2>1, BookedVerdict DEF ApplyPaidLate
  <2>2. CASE c # attempt_of[s]
    BY <1>6, <1>b, <1>d, <2>2, ItemsApart, ClaimByOthers DEF ApplyPaidLate, Book
  <2> QED BY <2>1, <2>2
<1>7. ASSUME NEW s \in Session, NEW ps \in MayaStatus, ApplyPaidLost(s, ps) PROVE Done(c)
  BY <1>7, <1>b, <1>d DEF ApplyPaidLost, SetStatus
<1>8. ASSUME NEW w \in Group, WalkInBooked(w) PROVE Done(c)
  <2>1. g \notin {w}
    BY <1>8, ItemsApart DEF WalkInBooked
  <2> QED BY <1>8, <1>b, <1>d, <2>1, ClaimByOthers DEF WalkInBooked, DeskClaim
<1>9. ASSUME NEW R \in Closure, CourtsClosed(R) PROVE Done(c)
  <2>1. g \notin R
    BY ItemsApart
  <2> QED BY <1>9, <1>b, <1>d, <2>1, ClaimByOthers DEF CourtsClosed, DeskClaim
<1>10. ASSUME NEW x \in Group, NEW op \in Desk, DeskSetsStatus(x, op) PROVE Done(c)
  <2>1. CASE x = g
    BY <1>10, <1>a, <2>1 DEF DeskSetsStatus, Committed
  <2>2. CASE x # g
    BY <1>10, <1>b, <1>d, <2>2 DEF DeskSetsStatus
  <2> QED BY <2>1, <2>2
<1> QED BY <1>1, <1>2, <1>3, <1>4, <1>5, <1>6, <1>7, <1>8, <1>9, <1>10, CalendarSteps

\* A request clock is read when the request begins.
LEMMA ClocksPastNext ==
    ASSUME TypeOK, ClocksPast, [Next]_vars
    PROVE  ClocksPast'
<1> USE DEF requests
<1>a. now \in Int /\ create_now \in [Checkout -> Int] /\ \A c \in Checkout : create_now[c] <= now
  BY FlowAssumption DEF TypeOK, FlowAssumption, ClocksPast, Never
<1>1. CASE Tick
  BY <1>1, <1>a DEF Tick, ClocksPast
<1>2. ASSUME NEW c \in Checkout, CreateCheck(c) PROVE ClocksPast'
  BY <1>2, <1>a DEF CreateCheck, ClocksPast
<1>3. ASSUME NEW c \in Checkout, CreateCommit(c) \/ CancelStart(c) \/ CancelCommit(c) PROVE ClocksPast'
  BY <1>3, <1>a DEF CreateCommit, CancelStart, CancelCommit, ClocksPast
<1>4. ASSUME NEW c \in Checkout, NEW s \in Session, PayAsk(c, s) PROVE ClocksPast'
  BY <1>4, <1>a DEF PayAsk, ClocksPast
<1>5. ASSUME NEW s \in Session, PayRecord(s) PROVE ClocksPast'
  BY <1>5, <1>a DEF PayRecord, ClocksPast
<1>6. ASSUME NEW s \in Session, RefundByHand(s) \/ \E ps \in PageOutcome : Settle(s, ps) PROVE ClocksPast'
  BY <1>6, <1>a DEF RefundByHand, Settle, ClocksPast
<1>7. ASSUME NEW s \in Session, NEW ps \in MayaStatus,
             ApplyRelease(s, ps) \/ ApplyForeignRefund(s, ps) \/ ApplyOwnRefund(s, ps)
      PROVE  ClocksPast'
  BY <1>7, <1>a DEF ApplyRelease, ApplyForeignRefund, ApplyOwnRefund, ClocksPast
<1>8. ASSUME NEW s \in Session, NEW ps \in MayaStatus,
             ApplyPaidUnbookable(s, ps) \/ ApplyPaidLive(s, ps) \/ ApplyPaidLate(s, ps) \/ ApplyPaidLost(s, ps)
      PROVE  ClocksPast'
  BY <1>8, <1>a DEF ApplyPaidUnbookable, ApplyPaidLive, ApplyPaidLate, ApplyPaidLost, Book, ClocksPast
<1>9. ASSUME NEW s \in Session, Undo(s) PROVE ClocksPast'
  BY <1>9, <1>a DEF Undo, UndoAccepted, UndoRefused, UndoRecord, UndoByHand, ClocksPast
<1>10. ASSUME NEW g \in Group, WalkInBooked(g) \/ DeskResolves(g) \/ DeskMarksPaid(g) PROVE ClocksPast'
  BY <1>10, <1>a DEF WalkInBooked, DeskClaim, DeskResolves, DeskMarksPaid, ClocksPast
<1>11. ASSUME NEW g \in Group, NEW op \in Desk, DeskCheck(g, op) \/ DeskSetsStatus(g, op) PROVE ClocksPast'
  BY <1>11, <1>a DEF DeskCheck, DeskSetsStatus, ClocksPast
<1>12. ASSUME NEW R \in Closure, CourtsClosed(R) PROVE ClocksPast'
  BY <1>12, <1>a DEF CourtsClosed, DeskClaim, ClocksPast
<1>13. CASE UNCHANGED vars
  BY <1>13, <1>a DEF vars, ClocksPast
<1> QED BY <1>1, <1>2, <1>3, <1>4, <1>5, <1>6, <1>7, <1>8, <1>9, <1>10, <1>11, <1>12, <1>13 DEF Next, Sync

\* A session is opened for a checkout, and keeps it.
LEMMA SessionsKnownNext ==
    ASSUME TypeOK, SessionsKnown, [Next]_vars
    PROVE  SessionsKnown'
<1> USE DEF payments
<1>a. /\ attempt \in [Session -> {"none", "asked", "recorded"}]
      /\ attempt_of \in [Session -> Checkout \cup {NoCheckout}]
  BY DEF TypeOK
<1>1. CASE Tick
  BY <1>1, <1>a DEF Tick, SessionsKnown
<1>2. ASSUME NEW c \in Checkout, CreateCheck(c) PROVE SessionsKnown'
  BY <1>2, <1>a DEF CreateCheck, SessionsKnown
<1>3. ASSUME NEW c \in Checkout, CreateCommit(c) \/ CancelStart(c) \/ CancelCommit(c) PROVE SessionsKnown'
  BY <1>3, <1>a DEF CreateCommit, CancelStart, CancelCommit, SessionsKnown
<1>4. ASSUME NEW c \in Checkout, NEW s \in Session, PayAsk(c, s) PROVE SessionsKnown'
  BY <1>4, <1>a DEF PayAsk, SessionsKnown
<1>5. ASSUME NEW s \in Session, PayRecord(s) PROVE SessionsKnown'
  BY <1>5, <1>a DEF PayRecord, SessionsKnown
<1>6. ASSUME NEW s \in Session, RefundByHand(s) \/ \E ps \in PageOutcome : Settle(s, ps) PROVE SessionsKnown'
  BY <1>6, <1>a DEF RefundByHand, Settle, SessionsKnown
<1>7. ASSUME NEW s \in Session, NEW ps \in MayaStatus,
             ApplyRelease(s, ps) \/ ApplyForeignRefund(s, ps) \/ ApplyOwnRefund(s, ps)
      PROVE  SessionsKnown'
  BY <1>7, <1>a DEF ApplyRelease, ApplyForeignRefund, ApplyOwnRefund, SessionsKnown
<1>8. ASSUME NEW s \in Session, NEW ps \in MayaStatus,
             ApplyPaidUnbookable(s, ps) \/ ApplyPaidLive(s, ps) \/ ApplyPaidLate(s, ps) \/ ApplyPaidLost(s, ps)
      PROVE  SessionsKnown'
  BY <1>8, <1>a DEF ApplyPaidUnbookable, ApplyPaidLive, ApplyPaidLate, ApplyPaidLost, Book, SessionsKnown
<1>9. ASSUME NEW s \in Session, Undo(s) PROVE SessionsKnown'
  BY <1>9, <1>a DEF Undo, UndoAccepted, UndoRefused, UndoRecord, UndoByHand, SessionsKnown
<1>10. ASSUME NEW g \in Group, WalkInBooked(g) \/ DeskResolves(g) \/ DeskMarksPaid(g) PROVE SessionsKnown'
  BY <1>10, <1>a DEF WalkInBooked, DeskClaim, DeskResolves, DeskMarksPaid, SessionsKnown
<1>11. ASSUME NEW g \in Group, NEW op \in Desk, DeskCheck(g, op) \/ DeskSetsStatus(g, op) PROVE SessionsKnown'
  BY <1>11, <1>a DEF DeskCheck, DeskSetsStatus, SessionsKnown
<1>12. ASSUME NEW R \in Closure, CourtsClosed(R) PROVE SessionsKnown'
  BY <1>12, <1>a DEF CourtsClosed, DeskClaim, SessionsKnown
<1>13. CASE UNCHANGED vars
  BY <1>13, <1>a DEF vars, SessionsKnown
<1> QED BY <1>1, <1>2, <1>3, <1>4, <1>5, <1>6, <1>7, <1>8, <1>9, <1>10, <1>11, <1>12, <1>13 DEF Next, Sync

\* The empty database satisfies the invariant.
LEMMA CalendarInvInit == Init => CalendarInv
<1> SUFFICES ASSUME Init PROVE CalendarInv
  OBVIOUS
<1>1. TypeOK
  BY TypeInit
<1>2. ClocksPast /\ SessionsKnown /\ LiveHoldIsWhole /\ NoDoubleBooking
  BY DEF Init, ClocksPast, SessionsKnown, LiveHoldIsWhole, IsLive, NoDoubleBooking, Exclusive,
         Occupies, Never, Absent
<1>3. VerdictFirst
  BY ItemsApart DEF Init, VerdictFirst, Committed, Sold, Absent
<1> QED BY <1>1, <1>2, <1>3 DEF CalendarInv

\* Every transaction keeps the invariant.
LEMMA CalendarInvNext == CalendarInv /\ [Next]_vars => CalendarInv'
BY TypeNext, ClocksPastNext, SessionsKnownNext, VerdictFirstNext, LiveHoldNext, NoDoubleBookingNext
   DEF CalendarInv

\* The inductive invariant holds in every reachable state.
THEOREM CalendarInvariant == Spec => []CalendarInv
BY CalendarInvInit, CalendarInvNext, PTL DEF Spec

\* No court-hour is ever sold or held twice, whatever requests, payments and
\* staff writes interleave.
THEOREM NeverDoubleBooked == Spec => []NoDoubleBooking
<1>1. CalendarInv => NoDoubleBooking
  BY DEF CalendarInv
<1> QED BY <1>1, CalendarInvariant, PTL

\* A hold is whole until its deadline.
THEOREM HoldStaysWhole == Spec => []LiveHoldIsWhole
<1>1. CalendarInv => LiveHoldIsWhole
  BY DEF CalendarInv
<1> QED BY <1>1, CalendarInvariant, PTL

\* A player's court stands only with a verified payment of its checkout.
THEOREM OnlyPaidStand == Spec => []OnlyPaidBookingsStand
<1>1. CalendarInv => OnlyPaidBookingsStand
  <2> SUFFICES ASSUME CalendarInv, NEW g \in Group, CheckoutOf[g] # NoCheckout,
                      Occupies(booking_status, g), booking_status[g] # "PENDING"
               PROVE  \E s \in Recorded(CheckoutOf[g]) : <<s, Paid>> \in events
    BY DEF OnlyPaidBookingsStand
  <2>1. CheckoutOf[g] \in Checkout /\ g \in ItemsOf(CheckoutOf[g])
    BY CalendarAssumption DEF CalendarAssumption, ItemsOf
  <2>2. Sold(g)
    BY DEF CalendarInv, TypeOK, BookingStatus, Occupies, RELEASING, Sold
  <2>3. PaidBehind(CheckoutOf[g])
    BY <2>1, <2>2 DEF CalendarInv, VerdictFirst, Committed
  <2> QED BY <2>3 DEF PaidBehind, Recorded
<1> QED BY <1>1, CalendarInvariant, PTL

-----------------------------------------------------------------------------
\* Only a refund of ours takes a paid checkout out of SUCCESSFUL.
LEMMA OnlyRefundReverses ==
    ASSUME TypeOK, SessionsKnown, [Next]_vars, NEW c \in Checkout, status[c] = "SUCCESSFUL"
    PROVE  \/ status'[c] = "SUCCESSFUL"
           \/ status'[c] = "REFUNDED" /\ \E s \in refunds' : attempt_of[s] = c
<1> DEFINE Final == \/ status'[c] = "SUCCESSFUL"
                    \/ status'[c] = "REFUNDED" /\ \E s \in refunds' : attempt_of[s] = c
<1> USE DEF checkouts
<1>a. status \in [Checkout -> PaymentOutcome \cup {Absent}]
  BY DEF TypeOK
<1>1. CASE Tick
  BY <1>1 DEF Tick
<1>2. ASSUME NEW d \in Checkout, CreateCheck(d) \/ CreateCommit(d) \/ CancelStart(d) PROVE Final
  BY <1>2, <1>a DEF CreateCheck, CreateCommit, CancelStart, Absent
<1>3. ASSUME NEW d \in Checkout, CancelCommit(d) PROVE Final
  BY <1>3, <1>a DEF CancelCommit, CancelAllowed, IsLive
<1>4. ASSUME NEW s \in Session,
             \/ \E d \in Checkout : PayAsk(d, s)
             \/ PayRecord(s) \/ RefundByHand(s) \/ \E ps \in PageOutcome : Settle(s, ps)
      PROVE  Final
  BY <1>4 DEF PayAsk, PayRecord, RefundByHand, Settle
<1>5. ASSUME NEW s \in Session, NEW ps \in MayaStatus, ApplyRelease(s, ps) PROVE Final
  BY <1>5, <1>a DEF ApplyRelease
<1>6. ASSUME NEW s \in Session, NEW ps \in MayaStatus,
             ApplyForeignRefund(s, ps) \/ ApplyPaidUnbookable(s, ps)
      PROVE  Final
  BY <1>6 DEF ApplyForeignRefund, ApplyPaidUnbookable
<1>7. ASSUME NEW s \in Session, NEW ps \in MayaStatus, ApplyOwnRefund(s, ps) PROVE Final
  BY <1>7, <1>a DEF ApplyOwnRefund
<1>8. ASSUME NEW s \in Session, NEW ps \in MayaStatus, ApplyPaidLive(s, ps) \/ ApplyPaidLate(s, ps)
      PROVE  Final
  BY <1>8, <1>a DEF ApplyPaidLive, ApplyPaidLate, Book
<1>9. ASSUME NEW s \in Session, NEW ps \in MayaStatus, ApplyPaidLost(s, ps) PROVE Final
  BY <1>9, <1>a DEF ApplyPaidLost, Unbookable
<1>10. ASSUME NEW s \in Session, UndoRecord(s) PROVE Final
  BY <1>10, <1>a DEF UndoRecord
<1>11. ASSUME NEW s \in Session,
              UndoRefused(s) \/ UndoByHand(s) \/ \E ps \in MayaUndone : UndoAccepted(s, ps)
       PROVE  Final
  BY <1>11 DEF UndoRefused, UndoByHand, UndoAccepted
<1>12. ASSUME NEW g \in Group,
              \/ WalkInBooked(g) \/ DeskResolves(g) \/ DeskMarksPaid(g)
              \/ \E op \in Desk : DeskCheck(g, op) \/ DeskSetsStatus(g, op)
       PROVE  Final
  BY <1>12 DEF WalkInBooked, DeskClaim, DeskResolves, DeskMarksPaid, DeskCheck, DeskSetsStatus
<1>13. ASSUME NEW R \in Closure, CourtsClosed(R) PROVE Final
  BY <1>13 DEF CourtsClosed, DeskClaim
<1>14. CASE UNCHANGED vars
  BY <1>14 DEF vars
<1> QED BY <1>1, <1>2, <1>3, <1>4, <1>5, <1>6, <1>7, <1>8, <1>9, <1>10, <1>11, <1>12, <1>13, <1>14
        DEF Next, Sync, Undo

\* Paid is final: only a refund of ours, on record, reverses a paid checkout,
\* and no verdict turns back into a hold.
THEOREM PaidStaysFinal == Spec => PaidIsFinal
<1>1. ASSUME CalendarInv, [Next]_vars
      PROVE  \A c \in Checkout :
                /\ status[c] = "SUCCESSFUL" /\ status'[c] # "SUCCESSFUL" =>
                      status'[c] = "REFUNDED" /\ \E s \in refunds' : attempt_of[s] = c
                /\ status'[c] = "PENDING" => status[c] \in {Absent, "PENDING"}
  <2> TAKE c \in Checkout
  <2>1. status'[c] = "PENDING" => status[c] \in {Absent, "PENDING"}
    BY <1>1, VerdictKept DEF CalendarInv
  <2>2. status[c] = "SUCCESSFUL" /\ status'[c] # "SUCCESSFUL" =>
            status'[c] = "REFUNDED" /\ \E s \in refunds' : attempt_of[s] = c
    BY <1>1, OnlyRefundReverses DEF CalendarInv
  <2> QED BY <2>1, <2>2
<1> QED BY <1>1, CalendarInvariant, PTL DEF Spec, PaidIsFinal
=============================================================================
