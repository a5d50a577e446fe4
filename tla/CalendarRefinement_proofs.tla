----------------------- MODULE CalendarRefinement_proofs -----------------------
(***************************************************************************)
(* CheckoutFlow keeps the promise of CourtCalendar: every transaction, seen *)
(* through TenureOf, is a step the abstract calendar allows.               *)
(***************************************************************************)
EXTENDS CheckoutMoney_proofs

-----------------------------------------------------------------------------
(* What the mapping needs beyond MoneyInv: a group exists exactly when its  *)
(* checkout does, only checkouts hold, what is sold (or about to be written *)
(* by staff) belongs to a verdict of payment, and staff act on groups they  *)
(* have seen sold.                                                          *)

OnlyCheckoutsHold == \A g \in Group : booking_status[g] = "PENDING" => CheckoutOf[g] \in Checkout

BornTogether ==
    \A c \in Checkout : \A g \in ItemsOf(c) : status[c] = Absent <=> booking_status[g] = Absent

SoldIsPaid ==
    \A c \in Checkout : \A g \in ItemsOf(c) : Committed(g) => status[c] \in {"SUCCESSFUL", "REFUNDED"}

DeskKnowsGroup ==
    \A g \in Group, op \in BookingStatus :
        <<g, op>> \in desk => booking_status[g] \notin {Absent, "PENDING"}

RefinementInv == MoneyInv /\ OnlyCheckoutsHold /\ BornTogether /\ SoldIsPaid /\ DeskKnowsGroup

\* A group that exists never ceases to.
LEMMA GroupKept ==
    ASSUME TypeOK, [Next]_vars, NEW g \in Group, booking_status[g] # Absent
    PROVE  booking_status'[g] # Absent
<1>a. /\ booking_status \in [Group -> BookingStatus \cup {Absent}] /\ Absent \notin BookingStatus
      /\ {"PENDING", "CONFIRMED", "CANCELLED", "EXPIRED"} \subseteq BookingStatus
  BY DEF TypeOK, BookingStatus, Absent
<1>1. CASE Quiet
  BY <1>1 DEF Quiet
<1>2. ASSUME NEW d \in Checkout, CreateCommit(d) PROVE booking_status'[g] # Absent
  BY <1>2, <1>a DEF CreateCommit, Claim, ExpireLapsed, SetStatus
<1>3. ASSUME NEW d \in Checkout, CancelCommit(d) PROVE booking_status'[g] # Absent
  BY <1>3, <1>a DEF CancelCommit, SetStatus
<1>4. ASSUME NEW s \in Session, NEW ps \in MayaStatus, ApplyRelease(s, ps) \/ ApplyPaidLost(s, ps)
      PROVE  booking_status'[g] # Absent
  BY <1>4, <1>a DEF ApplyRelease, ApplyPaidLost, SetStatus
<1>5. ASSUME NEW s \in Session, NEW ps \in MayaStatus, ApplyPaidLive(s, ps) \/ ApplyPaidLate(s, ps)
      PROVE  booking_status'[g] # Absent
  BY <1>5, <1>a DEF ApplyPaidLive, ApplyPaidLate, Book, Claim, ExpireLapsed, SetStatus
<1>6. ASSUME NEW w \in Group, WalkInBooked(w) PROVE booking_status'[g] # Absent
  BY <1>6, <1>a DEF WalkInBooked, DeskClaim, Claim, ExpireLapsed, SetStatus
<1>7. ASSUME NEW R \in Closure, CourtsClosed(R) PROVE booking_status'[g] # Absent
  BY <1>7, <1>a DEF CourtsClosed, DeskClaim, Claim, ExpireLapsed, SetStatus
<1>8. ASSUME NEW x \in Group, NEW op \in Desk, DeskSetsStatus(x, op) PROVE booking_status'[g] # Absent
  BY <1>8, <1>a DEF DeskSetsStatus
<1> QED BY <1>1, <1>2, <1>3, <1>4, <1>5, <1>6, <1>7, <1>8, CalendarSteps

\* Only the request that creates a checkout puts its groups on hold.
LEMMA OnlyCreateHolds ==
    ASSUME TypeOK, [Next]_vars, NEW g \in Group, booking_status[g] # "PENDING", booking_status'[g] = "PENDING"
    PROVE  \E c \in Checkout : g \in ItemsOf(c) /\ CreateCommit(c)
<1>a. booking_status \in [Group -> BookingStatus \cup {Absent}]
  BY DEF TypeOK
<1>1. CASE Quiet
  BY <1>1 DEF Quiet
<1>2. ASSUME NEW d \in Checkout, CreateCommit(d) PROVE g \in ItemsOf(d)
  BY <1>2, ClaimByOthers DEF CreateCommit
<1>3. ASSUME NEW d \in Checkout, CancelCommit(d) PROVE FALSE
  BY <1>3, <1>a DEF CancelCommit, SetStatus
<1>4. ASSUME NEW s \in Session, NEW ps \in MayaStatus, ApplyRelease(s, ps) \/ ApplyPaidLost(s, ps)
      PROVE  FALSE
  BY <1>4, <1>a DEF ApplyRelease, ApplyPaidLost, SetStatus
<1>5. ASSUME NEW s \in Session, NEW ps \in MayaStatus, ApplyPaidLive(s, ps) \/ ApplyPaidLate(s, ps)
      PROVE  FALSE
  BY <1>5, <1>a DEF ApplyPaidLive, ApplyPaidLate, Book, Claim, ExpireLapsed, SetStatus
<1>6. ASSUME NEW w \in Group, WalkInBooked(w) PROVE FALSE
  BY <1>6, <1>a DEF WalkInBooked, DeskClaim, Claim, ExpireLapsed, SetStatus
<1>7. ASSUME NEW R \in Closure, CourtsClosed(R) PROVE FALSE
  BY <1>7, <1>a DEF CourtsClosed, DeskClaim, Claim, ExpireLapsed, SetStatus
<1>8. ASSUME NEW x \in Group, NEW op \in Desk, DeskSetsStatus(x, op) PROVE FALSE
  BY <1>8, <1>a DEF DeskSetsStatus, Desk
<1> QED BY <1>1, <1>2, <1>3, <1>4, <1>5, <1>6, <1>7, <1>8, CalendarSteps

\* A player's group is sold, or acted on by staff, from a payment on.
LEMMA OnlyPaidCommits ==
    ASSUME CalendarInv, [Next]_vars, NEW c \in Checkout, NEW g \in ItemsOf(c), ~Committed(g), Committed(g)'
    PROVE  \E s \in Session, ps \in MayaStatus :
              attempt_of[s] = c /\ (ApplyPaidLive(s, ps) \/ ApplyPaidLate(s, ps))
<1> USE DEF CalendarInv
<1>a. booking_status \in [Group -> BookingStatus \cup {Absent}] /\ g \in Group
  BY ItemsApart DEF TypeOK
<1>b. Sold(g)'
  <2> SUFFICES ASSUME NEW op \in BookingStatus, <<g, op>> \in desk' PROVE FALSE
    BY DEF Committed
  <2>1. ASSUME NEW x \in Group, NEW o \in Desk, DeskCheck(x, o) PROVE FALSE
    <3>1. g = x /\ op = o
      BY <2>1 DEF DeskCheck, Committed
    <3>2. op \in {"CANCELLED", "COMPLETED", "NO_SHOW"}
      BY <3>1 DEF Desk, BookingStatus
    <3>3. booking_status[g] = "CONFIRMED"
      BY <2>1, <3>1, <3>2 DEF DeskCheck, DeskAllows
    <3> QED BY <3>3 DEF Committed, Sold
  <2> QED BY <2>1, DeskSteps DEF Committed
<1>c. booking_status'[g] \notin {booking_status[g], "PENDING", "CANCELLED", "EXPIRED"}
  BY <1>b DEF Sold, Committed
<1>1. CASE Quiet
  BY <1>1, <1>c DEF Quiet
<1>2. ASSUME NEW d \in Checkout, CreateCommit(d) PROVE FALSE
  BY <1>2, <1>a, <1>c, ClaimByOthers DEF CreateCommit, Claim, SetStatus
<1>3. ASSUME NEW d \in Checkout, CancelCommit(d) PROVE FALSE
  BY <1>3, <1>a, <1>c DEF CancelCommit, SetStatus
<1>4. ASSUME NEW s \in Session, NEW ps \in MayaStatus, ApplyRelease(s, ps) \/ ApplyPaidLost(s, ps)
      PROVE  FALSE
  BY <1>4, <1>a, <1>c DEF ApplyRelease, ApplyPaidLost, SetStatus
<1>5. ASSUME NEW s \in Session, NEW ps \in MayaStatus, ApplyPaidLive(s, ps) PROVE attempt_of[s] = c
  BY <1>5, <1>a, <1>c, ItemsApart DEF ApplyPaidLive, Book, SetStatus
<1>6. ASSUME NEW s \in Session, NEW ps \in MayaStatus, ApplyPaidLate(s, ps) PROVE attempt_of[s] = c
  BY <1>6, <1>a, <1>c, ItemsApart, ClaimByOthers DEF ApplyPaidLate, Book
<1>7. ASSUME NEW w \in Group, WalkInBooked(w) PROVE FALSE
  <2>1. g \notin {w}
    BY <1>7, ItemsApart DEF WalkInBooked
  <2> QED BY <1>7, <1>a, <1>c, <2>1, ClaimByOthers DEF WalkInBooked, DeskClaim
<1>8. ASSUME NEW R \in Closure, CourtsClosed(R) PROVE FALSE
  <2>1. g \notin R
    BY ItemsApart
  <2> QED BY <1>8, <1>a, <1>c, <2>1, ClaimByOthers DEF CourtsClosed, DeskClaim
<1>9. ASSUME NEW x \in Group, NEW op \in Desk, DeskSetsStatus(x, op) PROVE FALSE
  BY <1>9, <1>a, <1>c DEF DeskSetsStatus, Committed
<1> QED BY <1>1, <1>2, <1>3, <1>4, <1>5, <1>6, <1>7, <1>8, <1>9, CalendarSteps

\* A verdict of payment is only ever followed by REFUNDED.
LEMMA PaymentVerdictKept ==
    ASSUME TypeOK, [Next]_vars, NEW c \in Checkout, status[c] \in {"SUCCESSFUL", "REFUNDED"}
    PROVE  status'[c] \in {"SUCCESSFUL", "REFUNDED"}
<1>a. status \in [Checkout -> PaymentOutcome \cup {Absent}]
  BY DEF TypeOK
<1>1. CASE Quiet
  BY <1>1 DEF Quiet
<1>2. ASSUME NEW d \in Checkout, CreateCommit(d) \/ CancelCommit(d)
      PROVE  status'[c] \in {"SUCCESSFUL", "REFUNDED"}
  BY <1>2, <1>a DEF CreateCommit, CancelCommit, CancelAllowed, IsLive, Absent
<1>3. ASSUME NEW s \in Session, NEW ps \in MayaStatus, ApplyRelease(s, ps)
      PROVE  status'[c] \in {"SUCCESSFUL", "REFUNDED"}
  BY <1>3, <1>a DEF ApplyRelease
<1>4. ASSUME NEW s \in Session, NEW ps \in MayaStatus,
             ApplyPaidLive(s, ps) \/ ApplyPaidLate(s, ps) \/ ApplyPaidLost(s, ps)
      PROVE  status'[c] \in {"SUCCESSFUL", "REFUNDED"}
  BY <1>4, <1>a DEF ApplyPaidLive, ApplyPaidLate, ApplyPaidLost, Book, Unbookable
<1>5. ASSUME NEW g \in Group, WalkInBooked(g) \/ \E op \in Desk : DeskSetsStatus(g, op)
      PROVE  status'[c] \in {"SUCCESSFUL", "REFUNDED"}
  BY <1>5 DEF WalkInBooked, DeskClaim, DeskSetsStatus, checkouts
<1>6. ASSUME NEW R \in Closure, CourtsClosed(R) PROVE status'[c] \in {"SUCCESSFUL", "REFUNDED"}
  BY <1>6 DEF CourtsClosed, DeskClaim, checkouts
<1> QED BY <1>1, <1>2, <1>3, <1>4, <1>5, <1>6, CalendarSteps

\* Nothing brings a checkout into being but its own request.
LEMMA OnlyCreateCreates ==
    ASSUME MoneyInv, [Next]_vars, NEW c \in Checkout, status[c] = Absent, status'[c] # Absent
    PROVE  CreateCommit(c)
<1> USE DEF MoneyInv, CalendarInv
<1>a. status \in [Checkout -> PaymentOutcome \cup {Absent}]
  BY DEF TypeOK
<1>b. Absent \notin {"PENDING", "CANCELLED", "SUCCESSFUL", "REFUNDED", "FAILED"}
  BY DEF Absent
<1>c. status'[c] # "REFUNDED"
  <2> SUFFICES ASSUME status'[c] = "REFUNDED" PROVE FALSE
    OBVIOUS
  <2>1. PICK s \in Session : attempt_of[s] = c /\ (undo[s] # "none" \/ s \in refunds)
    BY <1>b, OnlyUndoRefunds
  <2>2. attempt[s] # "none"
    BY <2>1 DEF Ledger
  <2> QED BY <2>1, <2>2 DEF Ledger
<1>1. CASE Quiet
  BY <1>1, <1>c DEF Quiet
<1>2. ASSUME NEW d \in Checkout, CreateCommit(d) PROVE c = d
  BY <1>2, <1>a DEF CreateCommit
<1>3. ASSUME NEW d \in Checkout, CancelCommit(d) PROVE FALSE
  BY <1>3, <1>a, <1>b DEF CancelCommit, CancelAllowed, IsLive
<1>4. ASSUME NEW s \in Session, NEW ps \in MayaStatus,
             \/ ApplyRelease(s, ps) \/ ApplyPaidLive(s, ps)
             \/ ApplyPaidLate(s, ps) \/ ApplyPaidLost(s, ps)
      PROVE  FALSE
  BY <1>4, <1>a, <1>b DEF ApplyRelease, ApplyPaidLive, ApplyPaidLate, ApplyPaidLost, Book, Unbookable
<1>5. ASSUME NEW g \in Group, WalkInBooked(g) \/ \E op \in Desk : DeskSetsStatus(g, op) PROVE FALSE
  BY <1>5 DEF WalkInBooked, DeskClaim, DeskSetsStatus, checkouts
<1>6. ASSUME NEW R \in Closure, CourtsClosed(R) PROVE FALSE
  BY <1>6 DEF CourtsClosed, DeskClaim, checkouts
<1> QED BY <1>1, <1>2, <1>3, <1>4, <1>5, <1>6, CalendarSteps

\* A player's group comes into being with its checkout.
LEMMA OnlyCreateInserts ==
    ASSUME RefinementInv, [Next]_vars, NEW c \in Checkout, NEW g \in ItemsOf(c),
           booking_status[g] = Absent, booking_status'[g] # Absent
    PROVE  CreateCommit(c)
<1> USE DEF RefinementInv, MoneyInv, CalendarInv
<1>a. booking_status \in [Group -> BookingStatus \cup {Absent}] /\ g \in Group /\ status[c] = Absent
  BY ItemsApart DEF TypeOK, BornTogether
<1>b. Absent \notin {"PENDING", "CANCELLED", "SUCCESSFUL", "REFUNDED", "FAILED"}
  BY DEF Absent
<1>1. CASE Quiet
  BY <1>1 DEF Quiet
<1>2. ASSUME NEW d \in Checkout, CreateCommit(d) PROVE c = d
  BY <1>2, <1>a, <1>b, ItemsApart, ClaimSparesSold DEF CreateCommit
<1>3. ASSUME NEW d \in Checkout, CancelCommit(d) PROVE FALSE
  <2>1. c # d
    BY <1>3, <1>a, <1>b DEF CancelCommit, CancelAllowed, IsLive
  <2> QED BY <1>3, <1>a, <2>1, ItemsApart DEF CancelCommit, SetStatus
<1>4. ASSUME NEW s \in Session, NEW ps \in MayaStatus, ApplyRelease(s, ps) \/ ApplyPaidLost(s, ps)
      PROVE  FALSE
  BY <1>4, <1>a, <1>b DEF ApplyRelease, ApplyPaidLost, SetStatus, OpenItems
<1>5. ASSUME NEW s \in Session, NEW ps \in MayaStatus, ApplyPaidLive(s, ps) \/ ApplyPaidLate(s, ps)
      PROVE  FALSE
  <2>1. c # attempt_of[s]
    BY <1>5, <1>a, <1>b DEF ApplyPaidLive, ApplyPaidLate, Book, Unbookable
  <2>2. g \notin ItemsOf(attempt_of[s])
    BY <2>1, ItemsApart
  <2>3. CASE ApplyPaidLive(s, ps)
    BY <1>a, <2>2, <2>3 DEF ApplyPaidLive, Book, SetStatus
  <2>4. CASE ApplyPaidLate(s, ps)
    BY <1>a, <1>b, <2>2, <2>4, ClaimSparesSold DEF ApplyPaidLate, Book
  <2> QED BY <1>5, <2>3, <2>4
<1>6. ASSUME NEW w \in Group, WalkInBooked(w) PROVE FALSE
  <2>1. g \notin {w}
    BY <1>6, ItemsApart DEF WalkInBooked
  <2> QED BY <1>6, <1>a, <1>b, <2>1, ClaimSparesSold DEF WalkInBooked, DeskClaim
<1>7. ASSUME NEW R \in Closure, CourtsClosed(R) PROVE FALSE
  <2>1. g \notin R
    BY ItemsApart
  <2> QED BY <1>7, <1>a, <1>b, <2>1, ClaimSparesSold DEF CourtsClosed, DeskClaim
<1>8. ASSUME NEW x \in Group, NEW op \in Desk, DeskSetsStatus(x, op) PROVE FALSE
  <2>1. x # g
    BY <1>8, <1>a DEF DeskSetsStatus, DeskKnowsGroup
  <2> QED BY <1>8, <1>a, <2>1 DEF DeskSetsStatus
<1> QED BY <1>1, <1>2, <1>3, <1>4, <1>5, <1>6, <1>7, <1>8, CalendarSteps

\* Every transaction keeps the invariant of the mapping.
LEMMA RefinementInvNext == RefinementInv /\ [Next]_vars => RefinementInv'
<1> SUFFICES ASSUME RefinementInv, [Next]_vars PROVE RefinementInv'
  OBVIOUS
<1> USE DEF RefinementInv
<1>a. TypeOK /\ CalendarInv
  BY DEF MoneyInv, CalendarInv
<1>1. MoneyInv'
  BY MoneyInvNext
<1>2. OnlyCheckoutsHold'
  BY <1>a, OnlyCreateHolds, ItemsApart DEF OnlyCheckoutsHold
<1>3. BornTogether'
  <2> SUFFICES ASSUME NEW c \in Checkout, NEW g \in ItemsOf(c)
               PROVE  status'[c] = Absent <=> booking_status'[g] = Absent
    BY DEF BornTogether
  <2>1. g \in Group /\ (status[c] = Absent <=> booking_status[g] = Absent)
    BY ItemsApart DEF BornTogether
  <2>2. CASE status[c] # Absent
    BY <1>a, <2>1, <2>2, CreatedKept, GroupKept
  <2>3. CASE CreateCommit(c)
    <3>1. status'[c] = "PENDING" /\ booking_status'[g] = "PENDING"
      BY <1>a, <2>1, <2>3 DEF CreateCommit, TypeOK, Claim, SetStatus
    <3> QED BY <3>1 DEF Absent
  <2>4. CASE status[c] = Absent /\ ~CreateCommit(c)
    BY <2>1, <2>4, OnlyCreateCreates, OnlyCreateInserts
  <2> QED BY <2>2, <2>3, <2>4
<1>4. SoldIsPaid'
  <2> SUFFICES ASSUME NEW c \in Checkout, NEW g \in ItemsOf(c), Committed(g)'
               PROVE  status'[c] \in {"SUCCESSFUL", "REFUNDED"}
    BY DEF SoldIsPaid
  <2>1. CASE Committed(g)
    BY <1>a, <2>1, PaymentVerdictKept DEF SoldIsPaid
  <2>2. CASE ~Committed(g)
    <3>1. PICK s \in Session, ps \in MayaStatus :
            attempt_of[s] = c /\ (ApplyPaidLive(s, ps) \/ ApplyPaidLate(s, ps))
      BY <1>a, <2>2, OnlyPaidCommits
    <3> QED BY <1>a, <3>1 DEF ApplyPaidLive, ApplyPaidLate, Book, TypeOK
  <2> QED BY <2>1, <2>2
<1>5. DeskKnowsGroup'
  <2> SUFFICES ASSUME NEW g \in Group, NEW op \in BookingStatus, <<g, op>> \in desk'
               PROVE  booking_status'[g] \notin {Absent, "PENDING"}
    BY DEF DeskKnowsGroup
  <2>1. CASE <<g, op>> \in desk
    <3>1. booking_status[g] \notin {Absent, "PENDING"}
      BY <2>1 DEF DeskKnowsGroup
    <3>2. ASSUME NEW c \in Checkout, g \in ItemsOf(c), CreateCommit(c) PROVE FALSE
      BY <3>1, <3>2 DEF CreateCommit, BornTogether
    <3> QED BY <1>a, <3>1, <3>2, GroupKept, OnlyCreateHolds
  <2>2. ASSUME <<g, op>> \notin desk, NEW x \in Group, NEW o \in Desk, DeskCheck(x, o)
        PROVE  booking_status'[g] \notin {Absent, "PENDING"}
    <3>1. g = x /\ op = o
      BY <2>2 DEF DeskCheck
    <3>2. op \in {"CANCELLED", "COMPLETED", "NO_SHOW"}
      BY <3>1 DEF Desk, BookingStatus
    <3>3. booking_status[g] = "CONFIRMED" /\ booking_status' = booking_status
      BY <2>2, <3>1, <3>2 DEF DeskCheck, DeskAllows, groups
    <3> QED BY <3>3 DEF Absent
  <2> QED BY <2>1, <2>2, DeskSteps
<1> QED BY <1>1, <1>2, <1>3, <1>4, <1>5

LEMMA RefinementInvInit == Init => RefinementInv
<1> SUFFICES ASSUME Init PROVE RefinementInv
  OBVIOUS
<1>1. OnlyCheckoutsHold /\ DeskKnowsGroup
  BY DEF Init, OnlyCheckoutsHold, DeskKnowsGroup, Absent
<1>2. BornTogether /\ SoldIsPaid
  BY ItemsApart DEF Init, BornTogether, SoldIsPaid, Committed, Sold, Absent
<1> QED BY <1>1, <1>2, MoneyInvInit DEF RefinementInv

\* The mapping's invariant holds in every reachable state.
THEOREM RefinementInvariant == Spec => []RefinementInv
BY RefinementInvInit, RefinementInvNext, PTL DEF Spec

-----------------------------------------------------------------------------
(* The mapping, step by step.                                               *)

\* Every group has one of the five tenures.
LEMMA TenureType ==
    ASSUME NEW g \in Group
    PROVE  TenureOf(g) \in {"absent", "held", "lapsed", "sold", "off"}
BY DEF TenureOf

\* What a status means for the hours, whatever the clock.
LEMMA TenureByStatus ==
    ASSUME TypeOK, NEW g \in Group
    PROVE  /\ TenureOf(g) = "absent" <=> booking_status[g] = Absent
           /\ TenureOf(g) \in {"held", "lapsed"} <=> booking_status[g] = "PENDING"
           /\ TenureOf(g) = "sold" <=> Sold(g)
           /\ TenureOf(g) = "off" <=> booking_status[g] \in RELEASING
           /\ TenureOf(g) = "held" <=> booking_status[g] = "PENDING" /\ expires_at[CheckoutOf[g]] > now
<1>1. booking_status[g] \in BookingStatus \cup {Absent}
  BY DEF TypeOK
<1> QED BY <1>1 DEF TenureOf, BookingStatus, Absent, RELEASING, Sold

\* A group whose status and deadline a transaction leaves alone keeps its
\* tenure.
LEMMA TenureKept ==
    ASSUME NEW g \in Group, now' = now, booking_status'[g] = booking_status[g],
           expires_at'[CheckoutOf[g]] = expires_at[CheckoutOf[g]]
    PROVE  TenureOf(g)' = TenureOf(g)
BY DEF TenureOf

\* Time, and every transaction that leaves the calendar alone, at most lets
\* holds lapse.
LEMMA QuietLapses ==
    ASSUME RefinementInv, TypeOK', Quiet
    PROVE  Calendar!Lapse
<1>a. TypeOK /\ now \in Int /\ now' \in Int /\ now <= now' /\ expires_at \in [Checkout -> Int]
  BY FlowAssumption DEF RefinementInv, MoneyInv, CalendarInv, TypeOK, FlowAssumption, Quiet
<1>1. ASSUME NEW g \in Group
      PROVE  TenureOf(g)' = TenureOf(g) \/ (TenureOf(g) = "held" /\ TenureOf(g)' = "lapsed")
  <2>1. CASE booking_status[g] = "PENDING"
    <3>1. expires_at[CheckoutOf[g]] \in Int
      BY <1>a, <2>1 DEF RefinementInv, OnlyCheckoutsHold
    <3> QED BY <1>a, <2>1, <3>1 DEF Quiet, TenureOf, Absent
  <2>2. CASE booking_status[g] # "PENDING"
    BY <2>2 DEF Quiet, TenureOf
  <2> QED BY <2>1, <2>2
<1>2. ASSUME NEW g \in Group PROVE TenureOf(g)' \in {"absent", "held", "lapsed", "sold", "off"}
  BY DEF TenureOf
<1> QED BY <1>1, <1>2 DEF Calendar!Lapse, Calendar!Tenure

\* A transaction that claims R at a clock t that has passed takes R: nobody
\* holds or has bought an hour of it, and what had lapsed in its way leaves.
LEMMA ClaimTakes ==
    ASSUME RefinementInv, NEW R \in SUBSET Group, NEW s, NEW t \in Int, t <= now, now' = now,
           CanClaim(booking_status, expires_at, R, t),
           booking_status' = Claim(booking_status, expires_at, R, s, t),
           \A g \in Group \ R : expires_at'[CheckoutOf[g]] = expires_at[CheckoutOf[g]],
           NEW to, \A g \in R : TenureOf(g)' = to
    PROVE  Calendar!Take(R, to)
<1>a. /\ TypeOK /\ now \in Int /\ expires_at \in [Checkout -> Int]
      /\ booking_status \in [Group -> BookingStatus \cup {Absent}]
  BY FlowAssumption DEF RefinementInv, MoneyInv, CalendarInv, TypeOK, FlowAssumption
<1>b. CellsIn(R) = Calendar!HoursIn(R)
  BY DEF CellsIn, Calendar!HoursIn
<1> DEFINE mid == ExpireLapsed(booking_status, expires_at, CellsIn(R), t)
<1>1. ASSUME NEW g \in Group, g \in Calendar!InTheWay(R)
      PROVE  /\ g \notin R /\ TenureOf(g) \notin {"held", "sold"}
             /\ TenureOf(g)' = IF TenureOf(g) = "lapsed" THEN "off" ELSE TenureOf(g)
  <2>1. g \notin R /\ CellsOf[g] \cap CellsIn(R) # {}
    BY <1>1, <1>b DEF Calendar!InTheWay
  <2>2. ~Occupies(mid, g)
    BY <2>1 DEF CanClaim, Accepts
  <2>3. booking_status'[g] = mid[g]
    BY <2>1 DEF Claim, SetStatus
  <2>4. CASE g \in Lapsed(booking_status, expires_at, CellsIn(R), t)
    <3>1. /\ booking_status[g] = "PENDING" /\ expires_at[CheckoutOf[g]] \in Int
          /\ expires_at[CheckoutOf[g]] <= now
      BY <1>a, <2>4 DEF Lapsed, RefinementInv, OnlyCheckoutsHold
    <3>2. TenureOf(g) = "lapsed"
      BY <1>a, <3>1 DEF TenureOf, Absent
    <3>3. booking_status'[g] = "EXPIRED"
      BY <2>3, <2>4 DEF ExpireLapsed, SetStatus
    <3>4. TenureOf(g)' = "off"
      BY <3>3 DEF TenureOf, Absent
    <3> QED BY <2>1, <3>2, <3>4
  <2>5. CASE g \notin Lapsed(booking_status, expires_at, CellsIn(R), t)
    <3>1. mid[g] = booking_status[g]
      BY <2>5 DEF ExpireLapsed, SetStatus
    <3>2. booking_status[g] \in RELEASING \cup {Absent}
      BY <2>2, <3>1 DEF Occupies
    <3>3. TenureOf(g) \in {"off", "absent"}
      BY <3>2 DEF TenureOf, RELEASING, Absent
    <3>4. TenureOf(g)' = TenureOf(g)
      BY <2>1, <2>3, <3>1, TenureKept
    <3> QED BY <2>1, <3>3, <3>4
  <2> QED BY <2>4, <2>5
<1>2. ASSUME NEW g \in Group, g \notin R, g \notin Calendar!InTheWay(R)
      PROVE  TenureOf(g)' = TenureOf(g)
  <2>1. CellsOf[g] \cap CellsIn(R) = {}
    BY <1>2, <1>b DEF Calendar!InTheWay
  <2>2. booking_status'[g] = booking_status[g]
    BY <1>2, <2>1 DEF Claim, ExpireLapsed, SetStatus, Lapsed
  <2> QED BY <1>2, <2>2, TenureKept
<1>3. \A g \in Calendar!InTheWay(R) : g \in Group
  BY DEF Calendar!InTheWay
<1>4. \A g \in Calendar!InTheWay(R) : [h \in Group |-> TenureOf(h)][g] \notin {"held", "sold"}
  BY <1>1, <1>3
<1>5. [g \in Group |-> TenureOf(g)]' =
        [g \in Group |-> IF g \in R THEN to
                         ELSE IF g \in Calendar!InTheWay(R) /\ [h \in Group |-> TenureOf(h)][g] = "lapsed"
                              THEN "off" ELSE [h \in Group |-> TenureOf(h)][g]]
  BY <1>1, <1>2
<1> QED BY <1>4, <1>5 DEF Calendar!Take

\* A transaction that ends the groups of R still on hold lets R go.
LEMMA EndingLetsGo ==
    ASSUME RefinementInv, NEW R \in SUBSET Group, NEW s \in RELEASING, now' = now, expires_at' = expires_at,
           NEW G \in SUBSET R,
           booking_status' = SetStatus(booking_status, G, s),
           \A g \in R : booking_status[g] = "PENDING" => g \in G,
           \A g \in G : booking_status[g] \in {"PENDING"} \cup RELEASING
    PROVE  Calendar!LetGo(R)
<1>a. TypeOK
  BY DEF RefinementInv, MoneyInv, CalendarInv
<1>1. ASSUME NEW g \in Group
      PROVE  TenureOf(g)' = IF g \in R /\ TenureOf(g) \in {"held", "lapsed"} THEN "off" ELSE TenureOf(g)
  <2>1. CASE g \in G
    <3>1. g \in R /\ booking_status'[g] = s
      BY <2>1 DEF SetStatus
    <3>2. TenureOf(g)' = "off"
      BY <3>1 DEF TenureOf, RELEASING, Absent
    <3>3. TenureOf(g) \in {"held", "lapsed", "off"}
      BY <1>a, <2>1, <3>1, TenureByStatus DEF RELEASING
    <3> QED BY <3>1, <3>2, <3>3
  <2>2. CASE g \notin G
    <3>1. booking_status'[g] = booking_status[g]
      BY <2>2 DEF SetStatus
    <3>2. TenureOf(g)' = TenureOf(g)
      BY <3>1, TenureKept
    <3>3. g \in R => TenureOf(g) \notin {"held", "lapsed"}
      BY <1>a, <2>2, TenureByStatus
    <3> QED BY <3>2, <3>3
  <2> QED BY <2>1, <2>2
<1>2. [g \in Group |-> TenureOf(g)]' =
        [g \in Group |-> IF g \in R /\ [h \in Group |-> TenureOf(h)][g] \in {"held", "lapsed"}
                         THEN "off" ELSE [h \in Group |-> TenureOf(h)][g]]
  BY <1>1
<1> QED BY <1>2 DEF Calendar!LetGo

\* Creating a checkout holds all its courts, or, from a request slow enough,
\* commits them lapsed.
LEMMA CreateHolds ==
    ASSUME RefinementInv, NEW c \in Checkout, CreateCommit(c)
    PROVE  Calendar!Hold(ItemsOf(c))
<1>a. /\ TypeOK /\ ClocksPast /\ now \in Int /\ HoldTicks \in Int /\ expires_at \in [Checkout -> Int]
      /\ create_now[c] \in Int /\ create_now[c] <= now /\ now' = now
      /\ ItemsOf(c) \in SUBSET Group
  BY FlowAssumption, ItemsDisjoint
     DEF RefinementInv, MoneyInv, CalendarInv, TypeOK, FlowAssumption, ClocksPast, CreateCommit, Never
<1>1. \A g \in ItemsOf(c) : [h \in Group |-> TenureOf(h)][g] = "absent"
  <2> SUFFICES ASSUME NEW g \in ItemsOf(c) PROVE TenureOf(g) = "absent"
    BY <1>a
  <2>1. booking_status[g] = Absent
    BY DEF CreateCommit, RefinementInv, BornTogether
  <2> QED BY <2>1 DEF TenureOf, Absent
<1>2. \A g \in Group \ ItemsOf(c) : expires_at'[CheckoutOf[g]] = expires_at[CheckoutOf[g]]
  BY <1>a DEF CreateCommit, ItemsOf
<1>3. \A g \in ItemsOf(c) : booking_status'[g] = "PENDING" /\ expires_at'[CheckoutOf[g]] = create_now[c] + HoldTicks
  BY <1>a DEF CreateCommit, ItemsOf, Claim, SetStatus
<1>4. CASE create_now[c] + HoldTicks > now
  <2>1. \A g \in ItemsOf(c) : TenureOf(g)' = "held"
    BY <1>a, <1>3, <1>4 DEF TenureOf, Absent
  <2>2. Calendar!Take(ItemsOf(c), "held")
    BY <1>a, <1>2, <2>1, ClaimTakes DEF CreateCommit
  <2> QED BY <1>1, <2>2 DEF Calendar!Hold
<1>5. CASE ~(create_now[c] + HoldTicks > now)
  <2>1. \A g \in ItemsOf(c) : TenureOf(g)' = "lapsed"
    BY <1>a, <1>3, <1>5 DEF TenureOf, Absent
  <2>2. Calendar!Take(ItemsOf(c), "lapsed")
    BY <1>a, <1>2, <2>1, ClaimTakes DEF CreateCommit
  <2> QED BY <1>1, <2>2 DEF Calendar!Hold
<1> QED BY <1>4, <1>5

\* Nothing of a checkout without a verdict of payment is sold.
LEMMA UnpaidUnsold ==
    ASSUME RefinementInv, NEW c \in Checkout, status[c] \in {"PENDING", "CANCELLED"}, NEW g \in ItemsOf(c)
    PROVE  booking_status[g] \in {"PENDING"} \cup RELEASING
<1>1. ~Sold(g)
  BY DEF RefinementInv, SoldIsPaid, Committed
<1>2. booking_status[g] # Absent
  BY DEF RefinementInv, BornTogether, Absent
<1>3. booking_status[g] \in BookingStatus \cup {Absent}
  BY ItemsApart DEF RefinementInv, MoneyInv, CalendarInv, TypeOK
<1> QED BY <1>1, <1>2, <1>3 DEF Sold, BookingStatus, RELEASING

\* Cancelling a hold lets its courts go.
LEMMA CancelLetsGo ==
    ASSUME RefinementInv, NEW c \in Checkout, CancelCommit(c)
    PROVE  Calendar!LetGo(ItemsOf(c))
<1>1. status[c] = "PENDING"
  BY DEF CancelCommit, CancelAllowed, IsLive
<1>2. \A g \in ItemsOf(c) : booking_status[g] \in {"PENDING"} \cup RELEASING
  BY <1>1, UnpaidUnsold
<1>3. /\ ItemsOf(c) \in SUBSET Group /\ "CANCELLED" \in RELEASING
      /\ now' = now /\ expires_at' = expires_at
      /\ booking_status' = SetStatus(booking_status, ItemsOf(c), "CANCELLED")
  BY ItemsDisjoint DEF RELEASING, CancelCommit
<1> QED BY <1>2, <1>3, EndingLetsGo

\* A declined or abandoned page, and a payment that came too late, let go what
\* is still on hold.
LEMMA EndOpenLetsGo ==
    ASSUME RefinementInv, NEW c \in Checkout, NEW s \in RELEASING, now' = now, expires_at' = expires_at,
           booking_status' = SetStatus(booking_status, OpenItems(c), s)
    PROVE  Calendar!LetGo(ItemsOf(c))
<1>1. ItemsOf(c) \in SUBSET Group
  BY ItemsDisjoint
<1>2. OpenItems(c) \in SUBSET ItemsOf(c)
  BY DEF OpenItems
<1>3. \A g \in ItemsOf(c) : booking_status[g] = "PENDING" => g \in OpenItems(c)
  BY DEF OpenItems
<1>4. \A g \in OpenItems(c) : booking_status[g] \in {"PENDING"} \cup RELEASING
  BY DEF OpenItems
<1> QED BY <1>1, <1>2, <1>3, <1>4, EndingLetsGo

\* A payment within the hold sells all its courts.
LEMMA PaidLiveSells ==
    ASSUME RefinementInv, NEW s \in Session, NEW ps \in MayaStatus, ApplyPaidLive(s, ps),
           NEW c \in Checkout, c = attempt_of[s]
    PROVE  Calendar!Sell(ItemsOf(c))
<1>a. /\ TypeOK /\ LiveHoldIsWhole /\ Exclusive(booking_status)
      /\ ItemsOf(c) \in SUBSET Group
      /\ now' = now /\ expires_at' = expires_at
      /\ booking_status' = SetStatus(booking_status, ItemsOf(c), "CONFIRMED")
  BY ItemsDisjoint
     DEF RefinementInv, MoneyInv, CalendarInv, NoDoubleBooking, ApplyPaidLive, Book
<1>1. \A g \in ItemsOf(c) : booking_status[g] = "PENDING"
  BY <1>a DEF ApplyPaidLive, LiveHoldIsWhole
<1>2. \A g \in ItemsOf(c) : TenureOf(g) \in {"held", "lapsed", "off"}
  BY <1>a, <1>1, TenureByStatus
<1>3. ASSUME NEW g \in Group, g \in Calendar!InTheWay(ItemsOf(c))
      PROVE  g \notin ItemsOf(c) /\ TenureOf(g) \in {"absent", "off"}
  <2>1. g \notin ItemsOf(c) /\ CellsOf[g] \cap Calendar!HoursIn(ItemsOf(c)) # {}
    BY <1>3 DEF Calendar!InTheWay
  <2>2. PICK h \in ItemsOf(c) : CellsOf[g] \cap CellsOf[h] # {}
    BY <2>1 DEF Calendar!HoursIn
  <2>3. h \in Group /\ g # h /\ Occupies(booking_status, h)
    BY <1>a, <1>1, <2>1, <2>2 DEF Occupies, RELEASING, Absent
  <2>4. ~Occupies(booking_status, g)
    BY <1>a, <2>2, <2>3 DEF Exclusive
  <2>5. booking_status[g] \in RELEASING \cup {Absent}
    BY <2>4 DEF Occupies
  <2> QED BY <1>a, <2>1, <2>5, TenureByStatus
<1>4. ASSUME NEW g \in Group
      PROVE  TenureOf(g)' = IF g \in ItemsOf(c) THEN "sold" ELSE TenureOf(g)
  <2>1. CASE g \in ItemsOf(c)
    <3>1. booking_status'[g] = "CONFIRMED"
      BY <1>a, <2>1 DEF SetStatus
    <3> QED BY <2>1, <3>1 DEF TenureOf, Absent
  <2>2. CASE g \notin ItemsOf(c)
    <3>1. booking_status'[g] = booking_status[g]
      BY <1>a, <2>2 DEF SetStatus
    <3> QED BY <1>a, <2>2, <3>1, TenureKept
  <2> QED BY <2>1, <2>2
<1>5. \A g \in Calendar!InTheWay(ItemsOf(c)) : g \in Group
  BY DEF Calendar!InTheWay
<1>6. \A g \in Calendar!InTheWay(ItemsOf(c)) : [h \in Group |-> TenureOf(h)][g] \notin {"held", "sold"}
  BY <1>3, <1>5
<1>7. [g \in Group |-> TenureOf(g)]' =
        [g \in Group |-> IF g \in ItemsOf(c) THEN "sold"
                         ELSE IF g \in Calendar!InTheWay(ItemsOf(c)) /\ [h \in Group |-> TenureOf(h)][g] = "lapsed"
                              THEN "off" ELSE [h \in Group |-> TenureOf(h)][g]]
  BY <1>3, <1>4
<1>8. Calendar!Take(ItemsOf(c), "sold")
  BY <1>6, <1>7 DEF Calendar!Take
<1>9. \A g \in ItemsOf(c) : [h \in Group |-> TenureOf(h)][g] \in {"held", "lapsed", "off"}
  BY <1>a, <1>2
<1> QED BY <1>8, <1>9 DEF Calendar!Sell

\* A late payment that gets its hours back sells all of them, and nobody who
\* holds or has bought one is pushed aside.
LEMMA PaidLateSells ==
    ASSUME RefinementInv, NEW s \in Session, NEW ps \in MayaStatus, ApplyPaidLate(s, ps),
           NEW c \in Checkout, c = attempt_of[s]
    PROVE  Calendar!Sell(ItemsOf(c))
<1>a. /\ TypeOK /\ now \in Int /\ ItemsOf(c) \in SUBSET Group
      /\ now' = now /\ expires_at' = expires_at
      /\ CanClaim(booking_status, expires_at, ItemsOf(c), now)
      /\ booking_status' = Claim(booking_status, expires_at, ItemsOf(c), "CONFIRMED", now)
      /\ status[c] \in {"PENDING", "CANCELLED"}
  BY FlowAssumption, ItemsDisjoint
     DEF RefinementInv, MoneyInv, CalendarInv, TypeOK, FlowAssumption, ApplyPaidLate, Reacquirable,
         Book, Unbookable
<1>1. ASSUME NEW g \in ItemsOf(c) PROVE TenureOf(g) \in {"held", "lapsed", "off"}
  BY <1>a, UnpaidUnsold, TenureByStatus DEF RELEASING
<1>2. \A g \in ItemsOf(c) : TenureOf(g)' = "sold"
  <2>1. \A g \in ItemsOf(c) : booking_status'[g] = "CONFIRMED"
    BY <1>a DEF Claim, SetStatus
  <2> QED BY <2>1 DEF TenureOf, Absent
<1>3. Calendar!Take(ItemsOf(c), "sold")
  BY <1>a, <1>2, ClaimTakes
<1>4. \A g \in ItemsOf(c) : [h \in Group |-> TenureOf(h)][g] \in {"held", "lapsed", "off"}
  BY <1>a, <1>1
<1> QED BY <1>3, <1>4 DEF Calendar!Sell

\* A walk-in or a closure enters beside whoever holds or has bought.
LEMMA DeskEnters ==
    ASSUME RefinementInv, NEW R \in SUBSET Group, DeskClaim(R)
    PROVE  Calendar!Enter(R)
<1>a. /\ TypeOK /\ now \in Int /\ now' = now /\ expires_at' = expires_at
      /\ CanClaim(booking_status, expires_at, R, now)
      /\ booking_status' = Claim(booking_status, expires_at, R, "CONFIRMED", now)
  BY FlowAssumption
     DEF RefinementInv, MoneyInv, CalendarInv, TypeOK, FlowAssumption, DeskClaim, checkouts
<1>1. \A g \in R : [h \in Group |-> TenureOf(h)][g] = "absent"
  BY DEF DeskClaim, TenureOf, Absent
<1>2. \A g \in R : TenureOf(g)' = "sold"
  <2>1. \A g \in R : booking_status'[g] = "CONFIRMED"
    BY <1>a DEF Claim, SetStatus
  <2> QED BY <2>1 DEF TenureOf, Absent
<1>3. Calendar!Take(R, "sold")
  BY <1>a, <1>2, ClaimTakes
<1> QED BY <1>1, <1>3 DEF Calendar!Enter

\* A staff write withdraws a sale, revives one whose hours are free, or changes
\* nothing about the hours.
LEMMA DeskWithdrawsOrRevives ==
    ASSUME RefinementInv, NEW g \in Group, NEW op \in Desk, DeskSetsStatus(g, op)
    PROVE  \/ Calendar!Withdraw(g) \/ Calendar!Revive(g)
           \/ [h \in Group |-> TenureOf(h)]' = [h \in Group |-> TenureOf(h)]
<1>a. /\ TypeOK /\ booking_status \in [Group -> BookingStatus \cup {Absent}]
      /\ now' = now /\ expires_at' = expires_at
      /\ booking_status' = [booking_status EXCEPT ![g] = op]
      /\ booking_status[g] \notin {Absent, "PENDING"}
      /\ op \in {"CANCELLED", "COMPLETED", "NO_SHOW"}
  BY DEF RefinementInv, MoneyInv, CalendarInv, TypeOK, DeskSetsStatus, DeskKnowsGroup, checkouts,
         Desk, BookingStatus
<1>1. TenureOf(g) \in {"sold", "off"}
  BY <1>a, TenureType, TenureByStatus
<1>2. TenureOf(g)' = IF op = "CANCELLED" THEN "off" ELSE "sold"
  <2>1. booking_status'[g] = op
    BY <1>a
  <2> QED BY <1>a, <2>1 DEF TenureOf, Absent
<1>3. \A h \in Group \ {g} : TenureOf(h)' = TenureOf(h)
  <2> SUFFICES ASSUME NEW h \in Group \ {g} PROVE TenureOf(h)' = TenureOf(h)
    OBVIOUS
  <2>1. booking_status'[h] = booking_status[h]
    BY <1>a
  <2> QED BY <1>a, <2>1, TenureKept
<1>4. CASE TenureOf(g)' = TenureOf(g)
  BY <1>3, <1>4
<1>5. CASE TenureOf(g) = "sold" /\ TenureOf(g)' = "off"
  <2>1. [h \in Group |-> TenureOf(h)]' = [[h \in Group |-> TenureOf(h)] EXCEPT ![g] = "off"]
    BY <1>3, <1>5
  <2> QED BY <1>5, <2>1 DEF Calendar!Withdraw
<1>6. CASE TenureOf(g) = "off" /\ TenureOf(g)' = "sold"
  <2>1. [h \in Group |-> TenureOf(h)]' = [[h \in Group |-> TenureOf(h)] EXCEPT ![g] = "sold"]
    BY <1>3, <1>6
  <2>2. op \notin RELEASING
    BY <1>a, <1>2, <1>6 DEF RELEASING
  <2>3. Accepts(booking_status, {g})
    BY <2>2 DEF DeskSetsStatus
  <2>4. ASSUME NEW h \in Calendar!InTheWay({g})
        PROVE  [x \in Group |-> TenureOf(x)][h] \notin {"held", "lapsed", "sold"}
    <3>1. h \in Group \ {g} /\ CellsOf[h] \cap CellsIn({g}) # {}
      BY <2>4 DEF Calendar!InTheWay, Calendar!HoursIn, CellsIn
    <3>2. ~Occupies(booking_status, h)
      BY <2>3, <3>1 DEF Accepts
    <3>3. booking_status[h] \in RELEASING \cup {Absent}
      BY <3>2 DEF Occupies
    <3>4. TenureOf(h) \in {"absent", "off"}
      BY <1>a, <3>1, <3>3, TenureByStatus
    <3> QED BY <3>1, <3>4
  <2> QED BY <1>6, <2>1, <2>4 DEF Calendar!Revive
<1> QED BY <1>1, <1>2, <1>4, <1>5, <1>6

\* A step of the flow is a step of the calendar, or leaves every tenure alone.
LEMMA StepRefines ==
    ASSUME RefinementInv, [Next]_vars
    PROVE  Calendar!CalendarNext \/ [g \in Group |-> TenureOf(g)]' = [g \in Group |-> TenureOf(g)]
<1>a. TypeOK /\ SessionsKnown /\ TypeOK'
  BY TypeNext DEF RefinementInv, MoneyInv, CalendarInv
<1>b. {"CANCELLED", "EXPIRED"} \subseteq RELEASING
  BY DEF RELEASING
<1>1. CASE Quiet
  BY <1>1, <1>a, QuietLapses DEF Calendar!CalendarNext
<1>2. ASSUME NEW c \in Checkout, CreateCommit(c) PROVE Calendar!CalendarNext
  BY <1>2, CreateHolds DEF Calendar!CalendarNext
<1>3. ASSUME NEW c \in Checkout, CancelCommit(c) PROVE Calendar!CalendarNext
  BY <1>3, CancelLetsGo DEF Calendar!CalendarNext
<1>4. ASSUME NEW s \in Session, NEW ps \in MayaStatus, ApplyRelease(s, ps)
      PROVE  Calendar!CalendarNext \/ [g \in Group |-> TenureOf(g)]' = [g \in Group |-> TenureOf(g)]
  <2>1. now' = now /\ expires_at' = expires_at
    BY <1>4 DEF ApplyRelease
  <2>2. CASE status[attempt_of[s]] # "PENDING"
    <3>1. \A g \in Group : TenureOf(g)' = TenureOf(g)
      BY <1>4, <2>1, <2>2, TenureKept DEF ApplyRelease
    <3> QED BY <3>1
  <2>3. ASSUME NEW c \in Checkout, c = attempt_of[s], status[attempt_of[s]] = "PENDING"
        PROVE  Calendar!CalendarNext
    <3>1. \E st \in RELEASING : booking_status' = SetStatus(booking_status, OpenItems(c), st)
      BY <1>4, <1>b, <2>3 DEF ApplyRelease
    <3> QED BY <2>1, <3>1, EndOpenLetsGo DEF Calendar!CalendarNext
  <2>4. attempt_of[s] \in Checkout
    <3>1. attempt[s] # "none"
      BY <1>4 DEF ApplyRelease, FirstReport, RefinementInv, MoneyInv, Ledger
    <3> QED BY <1>a, <3>1 DEF SessionsKnown
  <2> QED BY <2>2, <2>3, <2>4
<1>5. ASSUME NEW s \in Session, NEW ps \in MayaStatus, NEW c \in Checkout, c = attempt_of[s],
             ApplyPaidLive(s, ps) \/ ApplyPaidLate(s, ps)
      PROVE  Calendar!CalendarNext
  BY <1>5, PaidLiveSells, PaidLateSells DEF Calendar!CalendarNext
<1>6. ASSUME NEW s \in Session, NEW ps \in MayaStatus, NEW c \in Checkout, c = attempt_of[s],
             ApplyPaidLost(s, ps)
      PROVE  Calendar!CalendarNext
  <2>1. /\ now' = now /\ expires_at' = expires_at
        /\ booking_status' = SetStatus(booking_status, OpenItems(c), "EXPIRED")
    BY <1>6 DEF ApplyPaidLost
  <2> QED BY <1>b, <2>1, EndOpenLetsGo DEF Calendar!CalendarNext
<1>7. ASSUME NEW s \in Session, NEW ps \in MayaStatus,
             ApplyPaidLive(s, ps) \/ ApplyPaidLate(s, ps) \/ ApplyPaidLost(s, ps)
      PROVE  attempt_of[s] \in Checkout
  BY <1>7, <1>a DEF ApplyPaidLive, ApplyPaidLate, ApplyPaidLost, SessionsKnown
<1>8. ASSUME NEW w \in Group, WalkInBooked(w) PROVE Calendar!CalendarNext
  <2>1. Calendar!Enter({w})
    BY <1>8, DeskEnters DEF WalkInBooked
  <2>2. {w} \in Closure \cup {{g} : g \in WalkIn}
    BY <1>8 DEF WalkInBooked
  <2> QED BY <2>1, <2>2 DEF Calendar!CalendarNext
<1>9. ASSUME NEW R \in Closure, CourtsClosed(R) PROVE Calendar!CalendarNext
  <2>1. Calendar!Enter(R)
    BY <1>9, ClosureDisjoint, DeskEnters DEF CourtsClosed
  <2> QED BY <2>1 DEF Calendar!CalendarNext
<1>10. ASSUME NEW g \in Group, NEW op \in Desk, DeskSetsStatus(g, op)
       PROVE  Calendar!CalendarNext \/ [h \in Group |-> TenureOf(h)]' = [h \in Group |-> TenureOf(h)]
  BY <1>10, DeskWithdrawsOrRevives DEF Calendar!CalendarNext
<1> QED BY <1>a, <1>1, <1>2, <1>3, <1>4, <1>5, <1>6, <1>7, <1>8, <1>9, <1>10, CalendarSteps

\* The flow implements the calendar: whatever requests, payments, staff writes
\* and clock ticks interleave, court-hours change hands only as CourtCalendar
\* says they may.
THEOREM FlowKeepsCalendar == Spec => KeepsCalendar
<1>1. Init => Calendar!CalendarInit
  BY DEF Init, Calendar!CalendarInit, TenureOf, Absent
<1>2. RefinementInv /\ [Next]_vars => [Calendar!CalendarNext]_([g \in Group |-> TenureOf(g)])
  BY StepRefines
<1> QED BY <1>1, <1>2, RefinementInvariant, PTL DEF Spec, KeepsCalendar, Calendar!CalendarSpec
=============================================================================
