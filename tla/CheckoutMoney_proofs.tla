------------------------- MODULE CheckoutMoney_proofs -------------------------
(***************************************************************************)
(* Where the money of a checkout is, for every set of customers, courts,    *)
(* groups, sessions and requests: what is booked is paid and bought whole,  *)
(* what is paid and not booked is refunded or with staff, what is refunded  *)
(* books nothing, and staff are asked only with a reason.                  *)
(***************************************************************************)
EXTENDS CheckoutFlow_proofs

-----------------------------------------------------------------------------
(* The inductive invariant.  None of the four safety properties is inductive *)
(* alone: each speaks of a verdict, a refund or the queue, and needs to know *)
(* that a status Maya reported belongs to a recorded session of a checkout  *)
(* that exists, that a hold ends for all its courts at once, and that the    *)
(* tail of an undo only ever runs for a payment whose courts are free.       *)

\* Maya's word, an undo and a refund are about a session on record, and an
\* attempt about a checkout that was created.
Ledger ==
    /\ \A s \in Session :
          maya[s] # Absent \/ reported[s] # {} \/ undo[s] # "none" \/ s \in refunds
          => attempt[s] = "recorded"
    /\ \A s \in Session : attempt[s] # "none" => status[attempt_of[s]] # Absent
    /\ \A s \in Session, ps \in MayaStatus : <<s, ps>> \in events => ps \in reported[s]

\* Outside its hold a checkout has no court on hold.
NoStrayHold ==
    \A c \in Checkout : status[c] # "PENDING" =>
        \A g \in ItemsOf(c) : booking_status[g] # "PENDING"

PaidVerdict == \A c \in Checkout : status[c] = "SUCCESSFUL" => PaidBehind(c)

\* What we undo, or undid, was paid and its hold is over; and if the checkout
\* has no other session, no court of it is taken nor about to be revived.
Vacant(c) == \A g \in ItemsOf(c) : ~Occupies(booking_status, g) /\ ~Committed(g)

UndoingVacates ==
    \A s \in Session : undo[s] # "none" \/ s \in refunds =>
        /\ <<s, Paid>> \in events /\ status[attempt_of[s]] # "PENDING"
        /\ Sole(s) => Vacant(attempt_of[s])

\* The reasons of FlaggedForCause.
Cause(c) ==
    \E s \in Recorded(c) :
        \/ <<s, Amiss>> \in events
        \/ <<s, Paid>> \in events /\ {attempt_status[s], status[c]} # {"SUCCESSFUL"}
        \/ Captured(s) /\ \E r \in Recorded(c) \ {s} : Captured(r)
        \/ \E ps \in MayaUndone : <<s, ps>> \in events

UndoingHasCause == \A s \in Session : undo[s] # "none" => Cause(attempt_of[s])

MoneyInv ==
    /\ CalendarInv /\ Ledger /\ NoStrayHold /\ PaidVerdict
    /\ UndoingVacates /\ UndoingHasCause /\ MoneyAccounted /\ FlaggedForCause

-----------------------------------------------------------------------------
\* A checkout that was created stays created.
LEMMA CreatedKept ==
    ASSUME TypeOK, [Next]_vars, NEW c \in Checkout, status[c] # Absent
    PROVE  status'[c] # Absent
<1>a. status \in [Checkout -> PaymentOutcome \cup {Absent}]
  BY DEF TypeOK
<1>b. {"PENDING", "SUCCESSFUL", "CANCELLED", "FAILED", "REFUNDED"} \cap {Absent} = {}
  BY DEF Absent
<1>1. CASE Quiet
  BY <1>1, <1>b DEF Quiet
<1>2. ASSUME NEW d \in Checkout, CreateCommit(d) \/ CancelCommit(d) PROVE status'[c] # Absent
  BY <1>2, <1>a, <1>b DEF CreateCommit, CancelCommit
<1>3. ASSUME NEW s \in Session, NEW ps \in MayaStatus, ApplyRelease(s, ps) PROVE status'[c] # Absent
  BY <1>3, <1>a, <1>b, ReleaseOutcome DEF ApplyRelease
<1>4. ASSUME NEW s \in Session, NEW ps \in MayaStatus, ApplyPaidLive(s, ps) \/ ApplyPaidLate(s, ps)
      PROVE  status'[c] # Absent
  BY <1>4, <1>a, <1>b DEF ApplyPaidLive, ApplyPaidLate, Book
<1>5. ASSUME NEW s \in Session, NEW ps \in MayaStatus, ApplyPaidLost(s, ps) PROVE status'[c] # Absent
  BY <1>5, <1>a, <1>b DEF ApplyPaidLost
<1>6. ASSUME NEW g \in Group, WalkInBooked(g) \/ \E op \in Desk : DeskSetsStatus(g, op)
      PROVE  status'[c] # Absent
  BY <1>6 DEF WalkInBooked, DeskClaim, DeskSetsStatus, checkouts
<1>7. ASSUME NEW R \in Closure, CourtsClosed(R) PROVE status'[c] # Absent
  BY <1>7 DEF CourtsClosed, DeskClaim, checkouts
<1> QED BY <1>1, <1>2, <1>3, <1>4, <1>5, <1>6, <1>7, CalendarSteps

\* Nothing is said, undone or refunded of a session nobody recorded.
LEMMA LedgerNext ==
    ASSUME TypeOK, SessionsKnown, Ledger, [Next]_vars
    PROVE  Ledger'
<1> USE DEF payments, provider, requests
<1>a. /\ attempt \in [Session -> {"none", "asked", "recorded"}]
      /\ attempt_of \in [Session -> Checkout \cup {NoCheckout}]
      /\ maya \in [Session -> MayaStatus \cup {Absent}]
      /\ reported \in [Session -> SUBSET MayaStatus]
      /\ undo \in [Session -> {"none", "due", "done", "refused"}]
      /\ events \subseteq Session \X MayaStatus
  BY DEF TypeOK
<1> DEFINE Asked == \A s \in Session : attempt'[s] # "none" => status'[attempt_of'[s]] # Absent
           Known == \A s \in Session :
                       maya'[s] # Absent \/ reported'[s] # {} \/ undo'[s] # "none" \/ s \in refunds'
                       => attempt'[s] = "recorded"
           Said == \A s \in Session, ps \in MayaStatus : <<s, ps>> \in events' => ps \in reported'[s]
<1>b. (\A s \in Session : attempt'[s] # "none" => attempt[s] # "none" /\ attempt_of'[s] = attempt_of[s])
      => Asked
  BY CreatedKept DEF Ledger, SessionsKnown
<1>c. Absent \notin MayaStatus /\ MayaPaid \cup MayaUndone \cup MayaPending \subseteq MayaStatus
  BY DEF Absent, MayaStatus, MayaPaid, MayaFailed, MayaBackedOut, MayaUndone, MayaPending, Paid, Amiss
<1> SUFFICES Known /\ Asked /\ Said
  BY DEF Ledger
<1> USE DEF Ledger
<1>1. CASE Tick
  BY <1>1, <1>b DEF Tick
<1>2. ASSUME NEW c \in Checkout, CreateCheck(c) \/ CreateCommit(c) \/ CancelStart(c) \/ CancelCommit(c)
      PROVE  Known /\ Asked /\ Said
  BY <1>2, <1>b DEF CreateCheck, CreateCommit, CancelStart, CancelCommit
<1>3. ASSUME NEW c \in Checkout, NEW s \in Session, PayAsk(c, s) PROVE Known /\ Asked /\ Said
  <2>1. Known /\ Said
    BY <1>3, <1>a DEF PayAsk
  <2>2. status[c] = "PENDING" /\ status' = status
    BY <1>3 DEF PayAsk, IsLive, checkouts
  <2> QED BY <1>3, <1>a, <2>1, <2>2 DEF PayAsk, Absent
<1>4. ASSUME NEW s \in Session, PayRecord(s) PROVE Known /\ Asked /\ Said
  BY <1>4, <1>a, <1>b DEF PayRecord
<1>5. ASSUME NEW s \in Session, RefundByHand(s) PROVE Known /\ Asked /\ Said
  <2>1. maya[s] # Absent
    BY <1>5, <1>c DEF RefundByHand
  <2> QED BY <1>5, <1>a, <1>b, <2>1 DEF RefundByHand, MayaMoves
<1>6. ASSUME NEW s \in Session, NEW ps \in PageOutcome, Settle(s, ps) PROVE Known /\ Asked /\ Said
  <2>1. maya[s] # Absent
    BY <1>6 DEF Settle, MayaPending, MayaFailed, Absent
  <2> QED BY <1>6, <1>a, <1>b, <2>1 DEF Settle, MayaMoves
<1>7. ASSUME NEW s \in Session, NEW ps \in MayaStatus, ApplyRelease(s, ps) PROVE Known /\ Asked /\ Said
  BY <1>7, <1>a, <1>b DEF ApplyRelease, FirstReport
<1>8. ASSUME NEW s \in Session, NEW ps \in MayaStatus, ApplyForeignRefund(s, ps) \/ ApplyOwnRefund(s, ps)
      PROVE  Known /\ Asked /\ Said
  BY <1>8, <1>a, <1>b DEF ApplyForeignRefund, ApplyOwnRefund, FirstReport
<1>9. ASSUME NEW s \in Session, NEW ps \in MayaStatus, ApplyPaidUnbookable(s, ps) PROVE Known /\ Asked /\ Said
  BY <1>9, <1>a, <1>b DEF ApplyPaidUnbookable, FirstReport
<1>10. ASSUME NEW s \in Session, NEW ps \in MayaStatus, ApplyPaidLive(s, ps) \/ ApplyPaidLate(s, ps)
       PROVE  Known /\ Asked /\ Said
  BY <1>10, <1>a, <1>b DEF ApplyPaidLive, ApplyPaidLate, Book, FirstReport
<1>11. ASSUME NEW s \in Session, NEW ps \in MayaStatus, ApplyPaidLost(s, ps) PROVE Known /\ Asked /\ Said
  BY <1>11, <1>a, <1>b DEF ApplyPaidLost, FirstReport
<1>12. ASSUME NEW s \in Session, Undo(s) PROVE Known /\ Asked /\ Said
  <2>1. ASSUME NEW ps \in MayaUndone, UndoAccepted(s, ps) PROVE Known /\ Asked /\ Said
    BY <2>1, <1>a, <1>b DEF UndoAccepted, MayaMoves
  <2>2. CASE UndoRefused(s)
    BY <2>2, <1>a, <1>b DEF UndoRefused, MayaMoves
  <2>3. CASE UndoRecord(s)
    BY <2>3, <1>a, <1>b DEF UndoRecord
  <2>4. CASE UndoByHand(s)
    BY <2>4, <1>a, <1>b DEF UndoByHand
  <2> QED BY <1>12, <2>1, <2>2, <2>3, <2>4 DEF Undo
<1>13. ASSUME NEW g \in Group, WalkInBooked(g) \/ DeskResolves(g) \/ DeskMarksPaid(g)
       PROVE  Known /\ Asked /\ Said
  BY <1>13, <1>b DEF WalkInBooked, DeskClaim, DeskResolves, DeskMarksPaid
<1>14. ASSUME NEW g \in Group, NEW op \in Desk, DeskCheck(g, op) \/ DeskSetsStatus(g, op)
       PROVE  Known /\ Asked /\ Said
  BY <1>14, <1>b DEF DeskCheck, DeskSetsStatus
<1>15. ASSUME NEW R \in Closure, CourtsClosed(R) PROVE Known /\ Asked /\ Said
  BY <1>15, <1>b DEF CourtsClosed, DeskClaim
<1>16. CASE UNCHANGED vars
  BY <1>16, <1>b DEF vars
<1> QED BY <1>1, <1>2, <1>3, <1>4, <1>5, <1>6, <1>7, <1>8, <1>9, <1>10, <1>11, <1>12, <1>13, <1>14,
           <1>15, <1>16 DEF Next, Sync

-----------------------------------------------------------------------------
(* Who may do what: for each fact the invariant speaks of, the transactions *)
(* that can change it.                                                      *)

\* Only the booking of a paid checkout makes its verdict SUCCESSFUL.
LEMMA OnlyBookingSells ==
    ASSUME TypeOK, [Next]_vars, NEW c \in Checkout, status[c] # "SUCCESSFUL", status'[c] = "SUCCESSFUL"
    PROVE  \E s \in Session, ps \in MayaStatus :
              attempt_of[s] = c /\ (ApplyPaidLive(s, ps) \/ ApplyPaidLate(s, ps))
<1>a. status \in [Checkout -> PaymentOutcome \cup {Absent}]
  BY DEF TypeOK
<1>1. CASE Quiet
  BY <1>1 DEF Quiet
<1>2. ASSUME NEW d \in Checkout, CreateCommit(d) \/ CancelCommit(d) PROVE FALSE
  BY <1>2, <1>a DEF CreateCommit, CancelCommit
<1>3. ASSUME NEW s \in Session, NEW ps \in MayaStatus, ApplyRelease(s, ps) PROVE FALSE
  BY <1>3, <1>a, ReleaseOutcome DEF ApplyRelease
<1>4. ASSUME NEW s \in Session, NEW ps \in MayaStatus, ApplyPaidLive(s, ps) \/ ApplyPaidLate(s, ps)
      PROVE  attempt_of[s] = c
  BY <1>4, <1>a DEF ApplyPaidLive, ApplyPaidLate, Book
<1>5. ASSUME NEW s \in Session, NEW ps \in MayaStatus, ApplyPaidLost(s, ps) PROVE FALSE
  BY <1>5, <1>a DEF ApplyPaidLost
<1>6. ASSUME NEW g \in Group, WalkInBooked(g) \/ \E op \in Desk : DeskSetsStatus(g, op) PROVE FALSE
  BY <1>6 DEF WalkInBooked, DeskClaim, DeskSetsStatus, checkouts
<1>7. ASSUME NEW R \in Closure, CourtsClosed(R) PROVE FALSE
  BY <1>7 DEF CourtsClosed, DeskClaim, checkouts
<1> QED BY <1>1, <1>2, <1>3, <1>4, <1>5, <1>6, <1>7, CalendarSteps

\* An undo begins, and a refund is written, only for a payment that came too
\* late for its courts.
LEMMA OnlyLostIsUndone ==
    ASSUME TypeOK, [Next]_vars, NEW s \in Session, undo[s] = "none",
           undo'[s] # "none" \/ (s \notin refunds /\ s \in refunds')
    PROVE  \E ps \in MayaStatus : ApplyPaidLost(s, ps)
<1> USE DEF payments, requests
<1>a. undo \in [Session -> {"none", "due", "done", "refused"}]
  BY DEF TypeOK
<1>1. CASE Tick
  BY <1>1 DEF Tick
<1>2. ASSUME NEW c \in Checkout, CreateCheck(c) \/ CreateCommit(c) \/ CancelStart(c) \/ CancelCommit(c)
      PROVE  FALSE
  BY <1>2 DEF CreateCheck, CreateCommit, CancelStart, CancelCommit
<1>3. ASSUME NEW r \in Session,
             \/ \E c \in Checkout : PayAsk(c, r)
             \/ PayRecord(r) \/ RefundByHand(r) \/ \E ps \in PageOutcome : Settle(r, ps)
      PROVE  FALSE
  BY <1>3 DEF PayAsk, PayRecord, RefundByHand, Settle
<1>4. ASSUME NEW r \in Session, NEW ps \in MayaStatus,
             \/ ApplyRelease(r, ps) \/ ApplyForeignRefund(r, ps) \/ ApplyOwnRefund(r, ps)
             \/ ApplyPaidUnbookable(r, ps) \/ ApplyPaidLive(r, ps) \/ ApplyPaidLate(r, ps)
      PROVE  FALSE
  BY <1>4 DEF ApplyRelease, ApplyForeignRefund, ApplyOwnRefund, ApplyPaidUnbookable, ApplyPaidLive,
              ApplyPaidLate, Book
<1>5. ASSUME NEW r \in Session, NEW ps \in MayaStatus, ApplyPaidLost(r, ps) PROVE r = s
  BY <1>5, <1>a DEF ApplyPaidLost
<1>6. ASSUME NEW r \in Session, Undo(r) PROVE FALSE
  BY <1>6, <1>a DEF Undo, UndoAccepted, UndoRefused, UndoRecord, UndoByHand
<1>7. ASSUME NEW g \in Group,
             \/ WalkInBooked(g) \/ DeskResolves(g) \/ DeskMarksPaid(g)
             \/ \E op \in Desk : DeskCheck(g, op) \/ DeskSetsStatus(g, op)
      PROVE  FALSE
  BY <1>7 DEF WalkInBooked, DeskClaim, DeskResolves, DeskMarksPaid, DeskCheck, DeskSetsStatus
<1>8. ASSUME NEW R \in Closure, CourtsClosed(R) PROVE FALSE
  BY <1>8 DEF CourtsClosed, DeskClaim
<1>9. CASE UNCHANGED vars
  BY <1>9 DEF vars
<1> QED BY <1>1, <1>2, <1>3, <1>4, <1>5, <1>6, <1>7, <1>8, <1>9 DEF Next, Sync

\* A payment row reads SUCCESSFUL by its own success, applied for the first
\* time.
LEMMA RowSettlesOnce ==
    ASSUME TypeOK, [Next]_vars, NEW s \in Session, <<s, Paid>> \in events,
           attempt[s] = "recorded", attempt_status[s] # "SUCCESSFUL"
    PROVE  attempt_status'[s] # "SUCCESSFUL"
<1> USE DEF payments
<1>a. attempt_status \in [Session -> PaymentOutcome \cup {Absent}]
  BY DEF TypeOK
<1>1. CASE Tick
  BY <1>1 DEF Tick
<1>2. ASSUME NEW c \in Checkout, CreateCheck(c) \/ CreateCommit(c) \/ CancelStart(c)
      PROVE  attempt_status'[s] # "SUCCESSFUL"
  BY <1>2 DEF CreateCheck, CreateCommit, CancelStart
<1>3. ASSUME NEW c \in Checkout, CancelCommit(c) PROVE attempt_status'[s] # "SUCCESSFUL"
  BY <1>3 DEF CancelCommit
<1>4. ASSUME NEW r \in Session,
             \/ \E c \in Checkout : PayAsk(c, r)
             \/ RefundByHand(r) \/ \E ps \in PageOutcome : Settle(r, ps)
      PROVE  attempt_status'[s] # "SUCCESSFUL"
  BY <1>4 DEF PayAsk, RefundByHand, Settle
<1>5. ASSUME NEW r \in Session, PayRecord(r) PROVE attempt_status'[s] # "SUCCESSFUL"
  BY <1>5, <1>a DEF PayRecord
<1>6. ASSUME NEW r \in Session, NEW ps \in MayaStatus, ApplyRelease(r, ps)
      PROVE  attempt_status'[s] # "SUCCESSFUL"
  BY <1>6, <1>a, ReleaseOutcome DEF ApplyRelease
<1>7. ASSUME NEW r \in Session, NEW ps \in MayaStatus,
             ApplyForeignRefund(r, ps) \/ ApplyOwnRefund(r, ps) \/ ApplyPaidUnbookable(r, ps)
      PROVE  attempt_status'[s] # "SUCCESSFUL"
  BY <1>7, <1>a DEF ApplyForeignRefund, ApplyOwnRefund, ApplyPaidUnbookable
<1>8. ASSUME NEW r \in Session, NEW ps \in MayaStatus,
             ApplyPaidLive(r, ps) \/ ApplyPaidLate(r, ps) \/ ApplyPaidLost(r, ps)
      PROVE  attempt_status'[s] # "SUCCESSFUL"
  <2>1. ps = Paid /\ <<r, ps>> \notin events
    BY <1>8 DEF ApplyPaidLive, ApplyPaidLate, ApplyPaidLost, Book, Unbookable, FirstReport, MayaPaid
  <2>2. r # s
    BY <2>1
  <2>3. attempt_status'[s] = attempt_status[s]
    BY <1>8, <1>a, <2>2 DEF ApplyPaidLive, ApplyPaidLate, ApplyPaidLost, Book
  <2> QED BY <2>3
<1>9. ASSUME NEW r \in Session, Undo(r) PROVE attempt_status'[s] # "SUCCESSFUL"
  BY <1>9, <1>a DEF Undo, UndoAccepted, UndoRefused, UndoRecord, UndoByHand
<1>10. ASSUME NEW g \in Group,
              \/ WalkInBooked(g) \/ DeskResolves(g) \/ DeskMarksPaid(g)
              \/ \E op \in Desk : DeskCheck(g, op) \/ DeskSetsStatus(g, op)
       PROVE  attempt_status'[s] # "SUCCESSFUL"
  BY <1>10 DEF WalkInBooked, DeskClaim, DeskResolves, DeskMarksPaid, DeskCheck, DeskSetsStatus
<1>11. ASSUME NEW R \in Closure, CourtsClosed(R) PROVE attempt_status'[s] # "SUCCESSFUL"
  BY <1>11 DEF CourtsClosed, DeskClaim
<1>12. CASE UNCHANGED vars
  BY <1>12 DEF vars
<1> QED BY <1>1, <1>2, <1>3, <1>4, <1>5, <1>6, <1>7, <1>8, <1>9, <1>10, <1>11, <1>12 DEF Next, Sync

\* A group enters the resolution queue by one of four transactions of a
\* session of its checkout.
LEMMA OnlyPaymentsFlag ==
    ASSUME TypeOK, [Next]_vars, NEW g \in Group, ~needs_resolution[g], needs_resolution'[g]
    PROVE  \E s \in Session :
              /\ g \in ItemsOf(attempt_of[s])
              /\ \/ UndoByHand(s)
                 \/ \E ps \in MayaStatus :
                       \/ ApplyForeignRefund(s, ps) \/ ApplyPaidUnbookable(s, ps) \/ ApplyPaidLost(s, ps)
<1> USE DEF groups
<1>a. needs_resolution \in [Group -> BOOLEAN]
  BY DEF TypeOK
<1>1. CASE Tick
  BY <1>1 DEF Tick
<1>2. ASSUME NEW c \in Checkout, CreateCheck(c) \/ CreateCommit(c) \/ CancelStart(c) \/ CancelCommit(c)
      PROVE  FALSE
  BY <1>2 DEF CreateCheck, CreateCommit, CancelStart, CancelCommit
<1>3. ASSUME NEW r \in Session,
             \/ \E c \in Checkout : PayAsk(c, r)
             \/ PayRecord(r) \/ RefundByHand(r) \/ \E ps \in PageOutcome : Settle(r, ps)
      PROVE  FALSE
  BY <1>3 DEF PayAsk, PayRecord, RefundByHand, Settle
<1>4. ASSUME NEW r \in Session, NEW ps \in MayaStatus,
             \/ ApplyRelease(r, ps) \/ ApplyOwnRefund(r, ps)
             \/ ApplyPaidLive(r, ps) \/ ApplyPaidLate(r, ps)
      PROVE  FALSE
  BY <1>4 DEF ApplyRelease, ApplyOwnRefund, ApplyPaidLive, ApplyPaidLate, Book
<1>5. ASSUME NEW r \in Session, NEW ps \in MayaStatus,
             ApplyForeignRefund(r, ps) \/ ApplyPaidUnbookable(r, ps) \/ ApplyPaidLost(r, ps)
      PROVE  g \in ItemsOf(attempt_of[r])
  BY <1>5 DEF ApplyForeignRefund, ApplyPaidUnbookable, ApplyPaidLost, Flag
<1>6. ASSUME NEW r \in Session, UndoByHand(r) PROVE g \in ItemsOf(attempt_of[r])
  BY <1>6 DEF UndoByHand, Flag
<1>7. ASSUME NEW r \in Session,
             UndoRefused(r) \/ UndoRecord(r) \/ \E ps \in MayaUndone : UndoAccepted(r, ps)
      PROVE  FALSE
  BY <1>7 DEF UndoRefused, UndoRecord, UndoAccepted
<1>8. ASSUME NEW h \in Group,
             \/ WalkInBooked(h) \/ DeskMarksPaid(h)
             \/ \E op \in Desk : DeskCheck(h, op) \/ DeskSetsStatus(h, op)
      PROVE  FALSE
  BY <1>8 DEF WalkInBooked, DeskClaim, DeskMarksPaid, DeskCheck, DeskSetsStatus
<1>9. ASSUME NEW h \in Group, DeskResolves(h) PROVE FALSE
  BY <1>9, <1>a DEF DeskResolves
<1>10. ASSUME NEW R \in Closure, CourtsClosed(R) PROVE FALSE
  BY <1>10 DEF CourtsClosed, DeskClaim
<1>11. CASE UNCHANGED vars
  BY <1>11 DEF vars
<1> QED BY <1>1, <1>2, <1>3, <1>4, <1>5, <1>6, <1>7, <1>8, <1>9, <1>10, <1>11 DEF Next, Sync, Undo

\* A group leaves the hands of staff only when our undo of a payment of its
\* checkout is recorded.
LEMMA OnlyUndoUnflags ==
    ASSUME TypeOK, [Next]_vars, NEW g \in Group,
           needs_resolution[g] \/ g \in resolved, ~needs_resolution'[g], g \notin resolved'
    PROVE  \E s \in Session : g \in ItemsOf(attempt_of[s]) /\ UndoRecord(s)
<1> USE DEF groups, history
<1>a. needs_resolution \in [Group -> BOOLEAN]
  BY DEF TypeOK
<1>1. CASE Tick
  BY <1>1 DEF Tick
<1>2. ASSUME NEW c \in Checkout, CreateCheck(c) \/ CreateCommit(c) \/ CancelStart(c) \/ CancelCommit(c)
      PROVE  FALSE
  BY <1>2 DEF CreateCheck, CreateCommit, CancelStart, CancelCommit
<1>3. ASSUME NEW r \in Session,
             \/ \E c \in Checkout : PayAsk(c, r)
             \/ PayRecord(r) \/ RefundByHand(r) \/ \E ps \in PageOutcome : Settle(r, ps)
      PROVE  FALSE
  BY <1>3 DEF PayAsk, PayRecord, RefundByHand, Settle
<1>4. ASSUME NEW r \in Session, NEW ps \in MayaStatus,
             \/ ApplyRelease(r, ps) \/ ApplyOwnRefund(r, ps)
             \/ ApplyPaidLive(r, ps) \/ ApplyPaidLate(r, ps)
      PROVE  FALSE
  BY <1>4 DEF ApplyRelease, ApplyOwnRefund, ApplyPaidLive, ApplyPaidLate, Book
<1>5. ASSUME NEW r \in Session, NEW ps \in MayaStatus,
             ApplyForeignRefund(r, ps) \/ ApplyPaidUnbookable(r, ps) \/ ApplyPaidLost(r, ps)
      PROVE  FALSE
  BY <1>5 DEF ApplyForeignRefund, ApplyPaidUnbookable, ApplyPaidLost, Flag
<1>6. ASSUME NEW r \in Session,
             UndoRefused(r) \/ UndoByHand(r) \/ \E ps \in MayaUndone : UndoAccepted(r, ps)
      PROVE  FALSE
  BY <1>6 DEF UndoRefused, UndoByHand, UndoAccepted, Flag
<1>7. ASSUME NEW r \in Session, UndoRecord(r) PROVE g \in ItemsOf(attempt_of[r])
  BY <1>7 DEF UndoRecord
<1>8. ASSUME NEW h \in Group,
             \/ WalkInBooked(h) \/ DeskMarksPaid(h)
             \/ \E op \in Desk : DeskCheck(h, op) \/ DeskSetsStatus(h, op)
      PROVE  FALSE
  BY <1>8 DEF WalkInBooked, DeskClaim, DeskMarksPaid, DeskCheck, DeskSetsStatus
<1>9. ASSUME NEW h \in Group, DeskResolves(h) PROVE FALSE
  BY <1>9, <1>a DEF DeskResolves
<1>10. ASSUME NEW R \in Closure, CourtsClosed(R) PROVE FALSE
  BY <1>10 DEF CourtsClosed, DeskClaim
<1>11. CASE UNCHANGED vars
  BY <1>11 DEF vars
<1> QED BY <1>1, <1>2, <1>3, <1>4, <1>5, <1>6, <1>7, <1>8, <1>9, <1>10, <1>11 DEF Next, Sync, Undo

\* Refunds on record stay on record.
LEMMA RefundsGrow ==
    ASSUME [Next]_vars
    PROVE  refunds \subseteq refunds'
<1> USE DEF payments
<1>1. CASE Tick
  BY <1>1 DEF Tick
<1>2. ASSUME NEW c \in Checkout, CreateCheck(c) \/ CreateCommit(c) \/ CancelStart(c) \/ CancelCommit(c)
      PROVE  refunds \subseteq refunds'
  BY <1>2 DEF CreateCheck, CreateCommit, CancelStart, CancelCommit
<1>3. ASSUME NEW r \in Session,
             \/ \E c \in Checkout : PayAsk(c, r)
             \/ PayRecord(r) \/ RefundByHand(r) \/ \E ps \in PageOutcome : Settle(r, ps)
      PROVE  refunds \subseteq refunds'
  BY <1>3 DEF PayAsk, PayRecord, RefundByHand, Settle
<1>4. ASSUME NEW r \in Session, NEW ps \in MayaStatus,
             \/ ApplyRelease(r, ps) \/ ApplyForeignRefund(r, ps) \/ ApplyOwnRefund(r, ps)
             \/ ApplyPaidUnbookable(r, ps) \/ ApplyPaidLive(r, ps) \/ ApplyPaidLate(r, ps)
             \/ ApplyPaidLost(r, ps)
      PROVE  refunds \subseteq refunds'
  BY <1>4 DEF ApplyRelease, ApplyForeignRefund, ApplyOwnRefund, ApplyPaidUnbookable, ApplyPaidLive,
              ApplyPaidLate, ApplyPaidLost, Book
<1>5. ASSUME NEW r \in Session, Undo(r) PROVE refunds \subseteq refunds'
  BY <1>5 DEF Undo, UndoAccepted, UndoRefused, UndoRecord, UndoByHand
<1>6. ASSUME NEW g \in Group,
             \/ WalkInBooked(g) \/ DeskResolves(g) \/ DeskMarksPaid(g)
             \/ \E op \in Desk : DeskCheck(g, op) \/ DeskSetsStatus(g, op)
      PROVE  refunds \subseteq refunds'
  BY <1>6 DEF WalkInBooked, DeskClaim, DeskResolves, DeskMarksPaid, DeskCheck, DeskSetsStatus
<1>7. ASSUME NEW R \in Closure, CourtsClosed(R) PROVE refunds \subseteq refunds'
  BY <1>7 DEF CourtsClosed, DeskClaim
<1>8. CASE UNCHANGED vars
  BY <1>8 DEF vars
<1> QED BY <1>1, <1>2, <1>3, <1>4, <1>5, <1>6, <1>7, <1>8 DEF Next, Sync

\* A status Maya reported is written down by the transaction that applies it.
LEMMA OnlySyncApplies ==
    ASSUME [Next]_vars, NEW s, NEW ps, <<s, ps>> \notin events, <<s, ps>> \in events'
    PROVE  /\ s \in Session /\ ps \in MayaStatus
           /\ \/ ApplyRelease(s, ps) \/ ApplyForeignRefund(s, ps) \/ ApplyOwnRefund(s, ps)
              \/ ApplyPaidUnbookable(s, ps) \/ ApplyPaidLive(s, ps) \/ ApplyPaidLate(s, ps)
              \/ ApplyPaidLost(s, ps)
<1> USE DEF payments
<1>1. CASE Tick
  BY <1>1 DEF Tick
<1>2. ASSUME NEW c \in Checkout, CreateCheck(c) \/ CreateCommit(c) \/ CancelStart(c) \/ CancelCommit(c)
      PROVE  FALSE
  BY <1>2 DEF CreateCheck, CreateCommit, CancelStart, CancelCommit
<1>3. ASSUME NEW r \in Session,
             \/ \E c \in Checkout : PayAsk(c, r)
             \/ PayRecord(r) \/ RefundByHand(r) \/ \E q \in PageOutcome : Settle(r, q)
      PROVE  FALSE
  BY <1>3 DEF PayAsk, PayRecord, RefundByHand, Settle
<1>4. ASSUME NEW r \in Session, NEW q \in MayaStatus,
             \/ ApplyRelease(r, q) \/ ApplyForeignRefund(r, q) \/ ApplyOwnRefund(r, q)
             \/ ApplyPaidUnbookable(r, q) \/ ApplyPaidLive(r, q) \/ ApplyPaidLate(r, q)
             \/ ApplyPaidLost(r, q)
      PROVE  r = s /\ q = ps
  <2>1. events' = events \cup {<<r, q>>}
    BY <1>4 DEF ApplyRelease, ApplyForeignRefund, ApplyOwnRefund, ApplyPaidUnbookable, ApplyPaidLive,
                ApplyPaidLate, ApplyPaidLost, Book, FirstReport
  <2> QED BY <2>1
<1>5. ASSUME NEW r \in Session, Undo(r) PROVE FALSE
  BY <1>5 DEF Undo, UndoAccepted, UndoRefused, UndoRecord, UndoByHand
<1>6. ASSUME NEW g \in Group,
             \/ WalkInBooked(g) \/ DeskResolves(g) \/ DeskMarksPaid(g)
             \/ \E op \in Desk : DeskCheck(g, op) \/ DeskSetsStatus(g, op)
      PROVE  FALSE
  BY <1>6 DEF WalkInBooked, DeskClaim, DeskResolves, DeskMarksPaid, DeskCheck, DeskSetsStatus
<1>7. ASSUME NEW R \in Closure, CourtsClosed(R) PROVE FALSE
  BY <1>7 DEF CourtsClosed, DeskClaim
<1>8. CASE UNCHANGED vars
  BY <1>8 DEF vars
<1> QED BY <1>1, <1>2, <1>3, <1>4, <1>5, <1>6, <1>7, <1>8 DEF Next, Sync

\* Only an attempt that was asked for is ever recorded.
LEMMA OnlyRecordRecords ==
    ASSUME TypeOK, [Next]_vars, NEW s \in Session, attempt[s] # "recorded", attempt'[s] = "recorded"
    PROVE  attempt[s] = "asked" /\ attempt_of' = attempt_of /\ events' = events
<1> USE DEF payments
<1>a. attempt \in [Session -> {"none", "asked", "recorded"}]
  BY DEF TypeOK
<1>1. CASE Tick
  BY <1>1 DEF Tick
<1>2. ASSUME NEW c \in Checkout, CreateCheck(c) \/ CreateCommit(c) \/ CancelStart(c) \/ CancelCommit(c)
      PROVE  FALSE
  BY <1>2 DEF CreateCheck, CreateCommit, CancelStart, CancelCommit
<1>3. ASSUME NEW c \in Checkout, NEW r \in Session, PayAsk(c, r) PROVE FALSE
  BY <1>3, <1>a DEF PayAsk
<1>4. ASSUME NEW r \in Session, PayRecord(r)
      PROVE  attempt[s] = "asked" /\ attempt_of' = attempt_of /\ events' = events
  BY <1>4, <1>a DEF PayRecord
<1>5. ASSUME NEW r \in Session, RefundByHand(r) \/ \E ps \in PageOutcome : Settle(r, ps) PROVE FALSE
  BY <1>5 DEF RefundByHand, Settle
<1>6. ASSUME NEW r \in Session, NEW ps \in MayaStatus,
             \/ ApplyRelease(r, ps) \/ ApplyForeignRefund(r, ps) \/ ApplyOwnRefund(r, ps)
             \/ ApplyPaidUnbookable(r, ps) \/ ApplyPaidLive(r, ps) \/ ApplyPaidLate(r, ps)
             \/ ApplyPaidLost(r, ps)
      PROVE  FALSE
  BY <1>6 DEF ApplyRelease, ApplyForeignRefund, ApplyOwnRefund, ApplyPaidUnbookable, ApplyPaidLive,
              ApplyPaidLate, ApplyPaidLost, Book
<1>7. ASSUME NEW r \in Session, Undo(r) PROVE FALSE
  BY <1>7 DEF Undo, UndoAccepted, UndoRefused, UndoRecord, UndoByHand
<1>8. ASSUME NEW g \in Group,
             \/ WalkInBooked(g) \/ DeskResolves(g) \/ DeskMarksPaid(g)
             \/ \E op \in Desk : DeskCheck(g, op) \/ DeskSetsStatus(g, op)
      PROVE  FALSE
  BY <1>8 DEF WalkInBooked, DeskClaim, DeskResolves, DeskMarksPaid, DeskCheck, DeskSetsStatus
<1>9. ASSUME NEW R \in Closure, CourtsClosed(R) PROVE FALSE
  BY <1>9 DEF CourtsClosed, DeskClaim
<1>10. CASE UNCHANGED vars
  BY <1>10 DEF vars
<1> QED BY <1>1, <1>2, <1>3, <1>4, <1>5, <1>6, <1>7, <1>8, <1>9, <1>10 DEF Next, Sync

\* A checkout reads REFUNDED by an undo of one of its sessions, or its echo.
LEMMA OnlyUndoRefunds ==
    ASSUME TypeOK, [Next]_vars, NEW c \in Checkout, status[c] # "REFUNDED", status'[c] = "REFUNDED"
    PROVE  \E s \in Session :
              attempt_of[s] = c /\ (undo[s] # "none" \/ s \in refunds) /\ s \in refunds'
<1> USE DEF checkouts
<1>a. status \in [Checkout -> PaymentOutcome \cup {Absent}]
  BY DEF TypeOK
<1>1. CASE Tick
  BY <1>1 DEF Tick
<1>2. ASSUME NEW d \in Checkout, CreateCheck(d) \/ CreateCommit(d) \/ CancelStart(d) \/ CancelCommit(d)
      PROVE  FALSE
  BY <1>2, <1>a DEF CreateCheck, CreateCommit, CancelStart, CancelCommit
<1>3. ASSUME NEW r \in Session,
             \/ \E d \in Checkout : PayAsk(d, r)
             \/ PayRecord(r) \/ RefundByHand(r) \/ \E ps \in PageOutcome : Settle(r, ps)
      PROVE  FALSE
  BY <1>3 DEF PayAsk, PayRecord, RefundByHand, Settle
<1>4. ASSUME NEW r \in Session, NEW ps \in MayaStatus, ApplyRelease(r, ps) PROVE FALSE
  BY <1>4, <1>a, ReleaseOutcome DEF ApplyRelease
<1>5. ASSUME NEW r \in Session, NEW ps \in MayaStatus,
             \/ ApplyForeignRefund(r, ps) \/ ApplyPaidUnbookable(r, ps) \/ ApplyPaidLive(r, ps)
             \/ ApplyPaidLate(r, ps) \/ ApplyPaidLost(r, ps)
      PROVE  FALSE
  BY <1>5, <1>a DEF ApplyForeignRefund, ApplyPaidUnbookable, ApplyPaidLive, ApplyPaidLate,
                    ApplyPaidLost, Book
<1>6. ASSUME NEW r \in Session, NEW ps \in MayaStatus, ApplyOwnRefund(r, ps)
      PROVE  attempt_of[r] = c /\ r \in refunds /\ r \in refunds'
  BY <1>6, <1>a DEF ApplyOwnRefund
<1>7. ASSUME NEW r \in Session, UndoRecord(r) PROVE attempt_of[r] = c /\ undo[r] # "none" /\ r \in refunds'
  BY <1>7, <1>a DEF UndoRecord
<1>8. ASSUME NEW r \in Session,
             UndoRefused(r) \/ UndoByHand(r) \/ \E ps \in MayaUndone : UndoAccepted(r, ps)
      PROVE  FALSE
  BY <1>8 DEF UndoRefused, UndoByHand, UndoAccepted
<1>9. ASSUME NEW g \in Group,
             \/ WalkInBooked(g) \/ DeskResolves(g) \/ DeskMarksPaid(g)
             \/ \E op \in Desk : DeskCheck(g, op) \/ DeskSetsStatus(g, op)
      PROVE  FALSE
  BY <1>9 DEF WalkInBooked, DeskClaim, DeskResolves, DeskMarksPaid, DeskCheck, DeskSetsStatus
<1>10. ASSUME NEW R \in Closure, CourtsClosed(R) PROVE FALSE
  BY <1>10 DEF CourtsClosed, DeskClaim
<1>11. CASE UNCHANGED vars
  BY <1>11 DEF vars
<1> QED BY <1>1, <1>2, <1>3, <1>4, <1>5, <1>6, <1>7, <1>8, <1>9, <1>10, <1>11 DEF Next, Sync, Undo

-----------------------------------------------------------------------------
(* The conjuncts of the invariant, one by one.                              *)

\* A hold ends for all the courts of its checkout in the step that ends it.
LEMMA NoStrayHoldNext ==
    ASSUME CalendarInv, NoStrayHold, UndoingVacates, [Next]_vars
    PROVE  NoStrayHold'
<1> USE DEF CalendarInv, checkouts
<1> SUFFICES ASSUME NEW c \in Checkout, NEW g \in ItemsOf(c), status'[c] # "PENDING"
             PROVE  booking_status'[g] # "PENDING"
  BY DEF NoStrayHold
<1>a. /\ status \in [Checkout -> PaymentOutcome \cup {Absent}]
      /\ booking_status \in [Group -> BookingStatus \cup {Absent}]
  BY DEF TypeOK
<1>b. g \in Group /\ CheckoutOf[g] = c
  BY ItemsApart
<1>c. status[c] # "PENDING" => booking_status[g] # "PENDING"
  BY DEF NoStrayHold
<1>1. CASE Quiet
  <2>1. status[c] # "PENDING"
    <3>1. status'[c] = "REFUNDED" => status[c] # "PENDING"
      BY OnlyUndoRefunds DEF UndoingVacates
    <3> QED BY <1>1, <3>1 DEF Quiet
  <2> QED BY <1>1, <1>c, <2>1 DEF Quiet
<1>2. ASSUME NEW d \in Checkout, CreateCommit(d) PROVE booking_status'[g] # "PENDING"
  <2>1. c # d
    BY <1>2, <1>a DEF CreateCommit
  <2>2. status[c] # "PENDING" /\ g \notin ItemsOf(d)
    BY <1>2, <1>a, <2>1, ItemsApart DEF CreateCommit
  <2> QED BY <1>2, <1>b, <1>c, <2>2, ClaimByOthers DEF CreateCommit
<1>3. ASSUME NEW d \in Checkout, CancelCommit(d) PROVE booking_status'[g] # "PENDING"
  <2>1. CASE c = d
    BY <1>3, <1>b, <2>1 DEF CancelCommit, SetStatus
  <2>2. CASE c # d
    BY <1>3, <1>a, <1>b, <1>c, <2>2, ItemsApart DEF CancelCommit, SetStatus
  <2> QED BY <2>1, <2>2
<1>4. ASSUME NEW s \in Session, NEW ps \in MayaStatus, ApplyRelease(s, ps)
      PROVE  booking_status'[g] # "PENDING"
  <2>1. CASE status[c] # "PENDING"
    BY <1>4, <1>b, <1>c, <2>1 DEF ApplyRelease, SetStatus
  <2>2. CASE status[c] = "PENDING"
    <3>1. c = attempt_of[s]
      BY <1>4, <1>a, <2>2 DEF ApplyRelease
    <3> QED BY <1>4, <1>b, <2>2, <3>1 DEF ApplyRelease, SetStatus, OpenItems
  <2> QED BY <2>1, <2>2
<1>5. ASSUME NEW s \in Session, NEW ps \in MayaStatus, ApplyPaidLive(s, ps)
      PROVE  booking_status'[g] # "PENDING"
  <2>1. CASE c = attempt_of[s]
    BY <1>5, <1>b, <2>1 DEF ApplyPaidLive, Book, SetStatus
  <2>2. CASE c # attempt_of[s]
    BY <1>5, <1>a, <1>b, <1>c, <2>2, ItemsApart DEF ApplyPaidLive, Book, SetStatus
  <2> QED BY <2>1, <2>2
<1>6. ASSUME NEW s \in Session, NEW ps \in MayaStatus, ApplyPaidLate(s, ps)
      PROVE  booking_status'[g] # "PENDING"
  <2>1. CASE c = attempt_of[s]
    BY <1>6, <1>b, <2>1 DEF ApplyPaidLate, Book, Claim, SetStatus
  <2>2. CASE c # attempt_of[s]
    <3>1. status[c] # "PENDING"
      BY <1>6, <1>a, <2>2 DEF ApplyPaidLate, Book
    <3> QED BY <1>6, <1>b, <1>c, <2>2, <3>1, ItemsApart, ClaimByOthers DEF ApplyPaidLate, Book
  <2> QED BY <2>1, <2>2
<1>7. ASSUME NEW s \in Session, NEW ps \in MayaStatus, ApplyPaidLost(s, ps)
      PROVE  booking_status'[g] # "PENDING"
  <2>1. CASE c = attempt_of[s]
    BY <1>7, <1>b, <2>1 DEF ApplyPaidLost, SetStatus, OpenItems
  <2>2. CASE c # attempt_of[s]
    BY <1>7, <1>a, <1>b, <1>c, <2>2 DEF ApplyPaidLost, SetStatus
  <2> QED BY <2>1, <2>2
<1>8. ASSUME NEW w \in Group, WalkInBooked(w) PROVE booking_status'[g] # "PENDING"
  <2>1. g \notin {w}
    BY <1>8, ItemsApart DEF WalkInBooked
  <2> QED BY <1>8, <1>b, <1>c, <2>1, ClaimByOthers DEF WalkInBooked, DeskClaim
<1>9. ASSUME NEW R \in Closure, CourtsClosed(R) PROVE booking_status'[g] # "PENDING"
  <2>1. g \notin R
    BY ItemsApart
  <2> QED BY <1>9, <1>b, <1>c, <2>1, ClaimByOthers DEF CourtsClosed, DeskClaim
<1>10. ASSUME NEW x \in Group, NEW op \in Desk, DeskSetsStatus(x, op)
       PROVE  booking_status'[g] # "PENDING"
  <2>1. op # "PENDING"
    BY DEF Desk
  <2> QED BY <1>10, <1>a, <1>b, <1>c, <2>1 DEF DeskSetsStatus
<1> QED BY <1>1, <1>2, <1>3, <1>4, <1>5, <1>6, <1>7, <1>8, <1>9, <1>10, CalendarSteps

\* A SUCCESSFUL verdict has a verified payment behind it.
LEMMA PaidVerdictNext ==
    ASSUME CalendarInv, PaidVerdict, [Next]_vars
    PROVE  PaidVerdict'
<1> USE DEF CalendarInv
<1> SUFFICES ASSUME NEW c \in Checkout, status'[c] = "SUCCESSFUL" PROVE PaidBehind(c)'
  BY DEF PaidVerdict
<1>1. CASE status[c] = "SUCCESSFUL"
  BY <1>1, RecordsGrow DEF PaidVerdict, PaidBehind
<1>2. ASSUME NEW s \in Session, NEW ps \in MayaStatus, attempt_of[s] = c,
             ApplyPaidLive(s, ps) \/ ApplyPaidLate(s, ps)
      PROVE  PaidBehind(c)'
  <2>1. attempt[s] = "recorded" /\ \E statuses : Book(s, ps, statuses)
    BY <1>2 DEF ApplyPaidLive, ApplyPaidLate
  <2> QED BY <1>2, <2>1, BookedVerdict
<1> QED BY <1>1, <1>2, OnlyBookingSells

\* Sessions of a checkout only ever join.
LEMMA RecordedGrows ==
    ASSUME TypeOK, [Next]_vars, NEW c
    PROVE  Recorded(c) \subseteq Recorded(c)'
BY RecordsGrow DEF Recorded

\* A checkout nobody is booking stays vacant.
LEMMA VacantKept ==
    ASSUME CalendarInv, [Next]_vars, NEW c \in Checkout, Vacant(c), status[c] # Absent,
           \A s \in Session, ps \in MayaStatus : attempt_of[s] = c =>
               ~ApplyPaidLive(s, ps) /\ ~ApplyPaidLate(s, ps)
    PROVE  Vacant(c)'
<1> USE DEF CalendarInv
<1> SUFFICES ASSUME NEW g \in ItemsOf(c) PROVE ~Occupies(booking_status', g) /\ ~Committed(g)'
  BY DEF Vacant, Occupies
<1>a. booking_status \in [Group -> BookingStatus \cup {Absent}] /\ g \in Group
  BY ItemsApart DEF TypeOK
<1>b. booking_status[g] \in RELEASING \cup {Absent} /\ ~Committed(g)
  BY DEF Vacant, Occupies
<1>c. \A op \in BookingStatus : <<g, op>> \notin desk'
  <2>1. ASSUME NEW x \in Group, NEW o \in Desk, DeskCheck(x, o)
        PROVE  \A op \in BookingStatus : <<g, op>> \notin desk'
    <3> SUFFICES ASSUME NEW op \in BookingStatus, <<g, op>> \in desk' PROVE FALSE
      OBVIOUS
    <3>1. g = x /\ op = o
      BY <2>1, <1>b DEF DeskCheck, Committed
    <3>2. op \in {"CANCELLED", "COMPLETED", "NO_SHOW"}
      BY <3>1 DEF Desk, BookingStatus
    <3>3. booking_status[g] = "CONFIRMED"
      BY <2>1, <3>1, <3>2 DEF DeskCheck, DeskAllows
    <3> QED BY <1>b, <3>3 DEF Committed, Sold
  <2> QED BY <2>1, <1>b, DeskSteps DEF Committed
<1>d. booking_status'[g] \in {booking_status[g], "EXPIRED", "CANCELLED"}
  <2>1. CASE Quiet
    BY <2>1 DEF Quiet
  <2>2. ASSUME NEW d \in Checkout, CreateCommit(d)
        PROVE  booking_status'[g] \in {booking_status[g], "EXPIRED", "CANCELLED"}
    <3>1. c # d
      BY <2>2 DEF CreateCommit
    <3> QED BY <2>2, <1>a, <3>1, ItemsApart, ClaimByOthers DEF CreateCommit
  <2>3. ASSUME NEW d \in Checkout, CancelCommit(d)
        PROVE  booking_status'[g] \in {booking_status[g], "EXPIRED", "CANCELLED"}
    BY <2>3, <1>a DEF CancelCommit, SetStatus
  <2>4. ASSUME NEW s \in Session, NEW ps \in MayaStatus, ApplyRelease(s, ps) \/ ApplyPaidLost(s, ps)
        PROVE  booking_status'[g] \in {booking_status[g], "EXPIRED", "CANCELLED"}
    BY <2>4, <1>a DEF ApplyRelease, ApplyPaidLost, SetStatus
  <2>5. ASSUME NEW s \in Session, NEW ps \in MayaStatus, ApplyPaidLive(s, ps)
        PROVE  booking_status'[g] \in {booking_status[g], "EXPIRED", "CANCELLED"}
    <3>1. c # attempt_of[s]
      BY <2>5
    <3> QED BY <2>5, <1>a, <3>1, ItemsApart DEF ApplyPaidLive, Book, SetStatus
  <2>6. ASSUME NEW s \in Session, NEW ps \in MayaStatus, ApplyPaidLate(s, ps)
        PROVE  booking_status'[g] \in {booking_status[g], "EXPIRED", "CANCELLED"}
    <3>1. c # attempt_of[s]
      BY <2>6
    <3> QED BY <2>6, <1>a, <3>1, ItemsApart, ClaimByOthers DEF ApplyPaidLate, Book
  <2>7. ASSUME NEW w \in Group, WalkInBooked(w)
        PROVE  booking_status'[g] \in {booking_status[g], "EXPIRED", "CANCELLED"}
    <3>1. g \notin {w}
      BY <2>7, ItemsApart DEF WalkInBooked
    <3> QED BY <2>7, <1>a, <3>1, ClaimByOthers DEF WalkInBooked, DeskClaim
  <2>8. ASSUME NEW R \in Closure, CourtsClosed(R)
        PROVE  booking_status'[g] \in {booking_status[g], "EXPIRED", "CANCELLED"}
    <3>1. g \notin R
      BY ItemsApart
    <3> QED BY <2>8, <1>a, <3>1, ClaimByOthers DEF CourtsClosed, DeskClaim
  <2>9. ASSUME NEW x \in Group, NEW op \in Desk, DeskSetsStatus(x, op)
        PROVE  booking_status'[g] \in {booking_status[g], "EXPIRED", "CANCELLED"}
    <3>1. x # g
      BY <2>9, <1>b DEF DeskSetsStatus, Committed
    <3> QED BY <2>9, <1>a, <3>1 DEF DeskSetsStatus
  <2> QED BY <2>1, <2>2, <2>3, <2>4, <2>5, <2>6, <2>7, <2>8, <2>9, CalendarSteps
<1>e. booking_status'[g] \in RELEASING \cup {Absent}
  BY <1>b, <1>d DEF RELEASING
<1>f. ~Occupies(booking_status', g)
  BY <1>e DEF Occupies
<1> QED BY <1>c, <1>e, <1>f DEF Committed, Sold, RELEASING, Absent

\* The tail of an undo runs for a payment that is on record, and for a
\* checkout whose courts are free.
LEMMA UndoingVacatesNext ==
    ASSUME CalendarInv, Ledger, UndoingVacates, [Next]_vars
    PROVE  UndoingVacates'
<1> USE DEF CalendarInv
<1> SUFFICES ASSUME NEW s \in Session, undo'[s] # "none" \/ s \in refunds',
                    NEW c, c = attempt_of[s]
             PROVE  /\ <<s, Paid>> \in events' /\ status'[c] # "PENDING" /\ attempt_of'[s] = c
                    /\ Sole(s)' => Vacant(c)'
  BY DEF UndoingVacates, Vacant
<1>1. CASE undo[s] # "none" \/ s \in refunds
  <2>1. attempt[s] = "recorded" /\ c \in Checkout /\ status[c] # Absent
    BY <1>1 DEF Ledger, SessionsKnown
  <2>2. <<s, Paid>> \in events /\ status[c] # "PENDING" /\ (Sole(s) => Vacant(c))
    BY <1>1 DEF UndoingVacates
  <2>3. attempt'[s] = "recorded" /\ attempt_of'[s] = c /\ <<s, Paid>> \in events'
    BY <2>1, <2>2, RecordsGrow
  <2>4. status'[c] # "PENDING"
    BY <2>1, <2>2, VerdictKept
  <2>5. ASSUME Sole(s)' PROVE Vacant(c)'
    <3>1. Recorded(c)' = {s}
      BY <2>3, <2>5 DEF Sole, Recorded
    <3>2. s \in Recorded(c)
      BY <2>1 DEF Recorded
    <3>3. Recorded(c) = {s}
      BY <3>1, <3>2, RecordedGrows
    <3>4. Vacant(c)
      BY <2>2, <3>3 DEF Sole
    <3>5. ASSUME NEW r \in Session, NEW ps \in MayaStatus, attempt_of[r] = c,
                 ApplyPaidLive(r, ps) \/ ApplyPaidLate(r, ps)
          PROVE  FALSE
      <4>1. r = s
        BY <3>3, <3>5 DEF ApplyPaidLive, ApplyPaidLate, Recorded
      <4>2. ps = Paid /\ <<r, ps>> \notin events
        BY <3>5 DEF ApplyPaidLive, ApplyPaidLate, Book, Unbookable, FirstReport, MayaPaid
      <4> QED BY <2>2, <4>1, <4>2
    <3> QED BY <2>1, <3>4, <3>5, VacantKept
  <2> QED BY <2>3, <2>4, <2>5
<1>2. CASE undo[s] = "none" /\ s \notin refunds
  <2>1. PICK ps \in MayaStatus : ApplyPaidLost(s, ps)
    BY <1>2, OnlyLostIsUndone
  <2>2. /\ attempt[s] = "recorded" /\ ps = Paid /\ c \in Checkout
        /\ <<s, Paid>> \notin events /\ <<s, Paid>> \in events'
        /\ attempt' = attempt /\ attempt_of' = attempt_of /\ desk' = desk
    BY <2>1 DEF ApplyPaidLost, Unbookable, MayaPaid, FirstReport, SessionsKnown
  <2>3. status'[c] = "CANCELLED"
    BY <2>1, <2>2 DEF ApplyPaidLost, TypeOK
  <2>4. ASSUME Sole(s)', NEW g \in ItemsOf(c)
        PROVE  ~Occupies(booking_status', g) /\ ~Committed(g)'
    <3>1. Recorded(c) = {s}
      BY <2>2, <2>4 DEF Sole, Recorded
    <3>2. ~PaidBehind(c)
      BY <2>2, <3>1 DEF PaidBehind, Recorded
    <3>3. ~Committed(g)
      BY <2>2, <3>2 DEF VerdictFirst
    <3>4. g \in Group /\ booking_status \in [Group -> BookingStatus \cup {Absent}]
      BY <2>2, ItemsApart DEF TypeOK
    <3>5. booking_status[g] \in {"PENDING", Absent} \cup RELEASING
      BY <3>3, <3>4 DEF Committed, Sold, BookingStatus, RELEASING
    <3>6. booking_status' = SetStatus(booking_status, OpenItems(c), "EXPIRED")
      BY <2>1 DEF ApplyPaidLost
    <3>7. booking_status'[g] \in RELEASING \cup {Absent}
      BY <2>4, <3>4, <3>5, <3>6 DEF SetStatus, OpenItems, RELEASING
    <3>8. ~Sold(g)'
      BY <3>7 DEF Sold, RELEASING, Absent
    <3> QED BY <2>2, <3>3, <3>7, <3>8 DEF Committed, Occupies
  <2>5. Sole(s)' => Vacant(c)'
    BY <2>2, <2>4 DEF Vacant, Occupies
  <2> QED BY <2>2, <2>3, <2>5
<1> QED BY <1>1, <1>2

\* A reason to ask staff stays a reason.
LEMMA CauseKept ==
    ASSUME CalendarInv, [Next]_vars, NEW c \in Checkout, Cause(c)
    PROVE  Cause(c)'
<1> USE DEF CalendarInv
<1>1. PICK s \in Recorded(c) :
        \/ <<s, Amiss>> \in events
        \/ <<s, Paid>> \in events /\ {attempt_status[s], status[c]} # {"SUCCESSFUL"}
        \/ Captured(s) /\ \E r \in Recorded(c) \ {s} : Captured(r)
        \/ \E ps \in MayaUndone : <<s, ps>> \in events
  BY DEF Cause
<1>2. Recorded(c) \subseteq Recorded(c)' /\ events \subseteq events'
  BY RecordedGrows, RecordsGrow
<1>3. s \in Session /\ s \in Recorded(c)' /\ attempt[s] = "recorded"
  BY <1>2 DEF Recorded
<1>4. \A r : Captured(r) => Captured(r)'
  BY <1>2 DEF Captured
<1>5. CASE <<s, Amiss>> \in events \/ \E ps \in MayaUndone : <<s, ps>> \in events
  BY <1>2, <1>3, <1>5 DEF Cause
<1>6. CASE Captured(s) /\ \E r \in Recorded(c) \ {s} : Captured(r)
  <2>1. PICK r \in Recorded(c) \ {s} : Captured(r)
    BY <1>6
  <2>2. r \in Recorded(c)' \ {s} /\ Captured(r)' /\ Captured(s)'
    BY <1>2, <1>4, <1>6, <2>1
  <2> QED BY <1>3, <2>2 DEF Cause
<1>7. CASE <<s, Paid>> \in events /\ attempt_status[s] # "SUCCESSFUL"
  <2>1. <<s, Paid>> \in events' /\ attempt_status'[s] # "SUCCESSFUL"
    BY <1>2, <1>3, <1>7, RowSettlesOnce
  <2> QED BY <1>3, <2>1 DEF Cause
<1>8. CASE <<s, Paid>> \in events /\ status[c] # "SUCCESSFUL"
  <2>1. CASE status'[c] # "SUCCESSFUL"
    BY <1>2, <1>3, <1>8, <2>1 DEF Cause
  <2>2. CASE status'[c] = "SUCCESSFUL"
    <3>1. PICK r \in Session, ps \in MayaStatus :
            attempt_of[r] = c /\ (ApplyPaidLive(r, ps) \/ ApplyPaidLate(r, ps))
      BY <1>8, <2>2, OnlyBookingSells
    <3>2. /\ attempt[r] = "recorded" /\ ps = Paid /\ <<r, ps>> \notin events
          /\ <<r, ps>> \in events' /\ Paid \in MayaPaid
      BY <3>1 DEF ApplyPaidLive, ApplyPaidLate, Book, Unbookable, FirstReport, MayaPaid
    <3>3. r # s
      BY <1>8, <3>2
    <3>4. r \in Recorded(c)' \ {s}
      BY <1>2, <3>1, <3>2, <3>3 DEF Recorded
    <3>5. Captured(r)' /\ Captured(s)'
      BY <1>2, <1>8, <3>2 DEF Captured
    <3> QED BY <1>3, <3>4, <3>5 DEF Cause
  <2> QED BY <2>1, <2>2
<1> QED BY <1>1, <1>5, <1>6, <1>7, <1>8

\* Money that came too late is a reason.
LEMMA LostHasCause ==
    ASSUME CalendarInv, NEW s \in Session, NEW ps \in MayaStatus, ApplyPaidLost(s, ps),
           NEW c, c = attempt_of[s]
    PROVE  Cause(c)'
<1>1. ps = Paid /\ attempt[s] = "recorded" /\ c \in Checkout
  BY DEF ApplyPaidLost, Unbookable, MayaPaid, CalendarInv, SessionsKnown
<1>2. <<s, Paid>> \in events' /\ s \in Recorded(c)'
  BY <1>1 DEF ApplyPaidLost, FirstReport, Recorded
<1>3. status'[c] # "SUCCESSFUL"
  BY <1>1 DEF ApplyPaidLost, CalendarInv, TypeOK
<1> QED BY <1>2, <1>3 DEF Cause

\* Money that went back by another hand is a reason.
LEMMA ForeignRefundHasCause ==
    ASSUME CalendarInv, Ledger, NEW s \in Session, NEW ps \in MayaStatus, ApplyForeignRefund(s, ps),
           NEW c, c = attempt_of[s]
    PROVE  Cause(c)'
<1>1. ps \in MayaUndone /\ attempt[s] = "recorded"
  BY DEF ApplyForeignRefund, FirstReport, Ledger
<1>2. <<s, ps>> \in events' /\ s \in Recorded(c)'
  BY <1>1 DEF ApplyForeignRefund, FirstReport, Recorded, payments
<1> QED BY <1>1, <1>2 DEF Cause

\* Money that is amiss, comes after the verdict or is paid twice is a reason.
LEMMA UnbookableHasCause ==
    ASSUME CalendarInv, Ledger, PaidVerdict, NEW s \in Session, NEW ps \in MayaStatus,
           ApplyPaidUnbookable(s, ps), NEW c, c = attempt_of[s]
    PROVE  Cause(c)'
<1>1. /\ attempt[s] = "recorded" /\ c \in Checkout
      /\ <<s, ps>> \notin events /\ ps \in MayaPaid
  BY DEF ApplyPaidUnbookable, FirstReport, Ledger, CalendarInv, SessionsKnown
<1>2. /\ <<s, ps>> \in events' /\ events \subseteq events' /\ s \in Recorded(c)'
      /\ Recorded(c)' = Recorded(c) /\ status' = status /\ attempt_status' = attempt_status
  BY <1>1 DEF ApplyPaidUnbookable, FirstReport, Recorded, checkouts
<1>3. CASE ps = Amiss
  BY <1>2, <1>3 DEF Cause
<1>4. CASE ps = Paid /\ status[c] # "SUCCESSFUL"
  BY <1>2, <1>4 DEF Cause
<1>5. CASE ps = Paid /\ status[c] = "SUCCESSFUL"
  <2>1. PICK r \in Session : attempt[r] = "recorded" /\ attempt_of[r] = c /\ <<r, Paid>> \in events
    BY <1>1, <1>5 DEF PaidVerdict, PaidBehind
  <2>2. r \in Recorded(c)' \ {s}
    BY <1>1, <1>2, <1>5, <2>1 DEF Recorded
  <2>3. Captured(r)' /\ Captured(s)'
    BY <1>1, <1>2, <1>5, <2>1 DEF Captured
  <2> QED BY <1>2, <2>2, <2>3 DEF Cause
<1> QED BY <1>1, <1>3, <1>4, <1>5 DEF MayaPaid

\* An undo that is running has its reason, should it end with staff.
LEMMA UndoingHasCauseNext ==
    ASSUME CalendarInv, Ledger, UndoingVacates, UndoingHasCause, [Next]_vars
    PROVE  UndoingHasCause'
<1> SUFFICES ASSUME NEW s \in Session, undo'[s] # "none", NEW c, c = attempt_of[s]
             PROVE  attempt_of'[s] = c /\ Cause(c)'
  BY DEF UndoingHasCause, Cause, Recorded
<1>1. CASE undo[s] # "none"
  <2>1. attempt[s] = "recorded" /\ c \in Checkout /\ Cause(c)
    BY <1>1 DEF Ledger, CalendarInv, SessionsKnown, UndoingHasCause
  <2>2. attempt_of'[s] = c
    BY <2>1, RecordsGrow DEF CalendarInv
  <2> QED BY <2>1, <2>2, CauseKept
<1>2. CASE undo[s] = "none"
  <2>1. PICK ps \in MayaStatus : ApplyPaidLost(s, ps)
    BY <1>2, OnlyLostIsUndone DEF CalendarInv
  <2>2. attempt_of' = attempt_of
    BY <2>1 DEF ApplyPaidLost
  <2> QED BY <2>1, <2>2, LostHasCause
<1> QED BY <1>1, <1>2

\* Staff are asked only with a reason.
LEMMA FlaggedForCauseNext ==
    ASSUME MoneyInv, [Next]_vars
    PROVE  FlaggedForCause'
<1> USE DEF MoneyInv
<1> SUFFICES ASSUME NEW c \in Checkout, NEW g \in ItemsOf(c), needs_resolution'[g]
             PROVE  Cause(c)'
  BY DEF FlaggedForCause, Cause
<1>a. TypeOK /\ SessionsKnown /\ g \in Group /\ \A d : g \in ItemsOf(d) => d = c
  BY ItemsApart DEF CalendarInv
<1>1. CASE needs_resolution[g]
  <2>1. Cause(c)
    BY <1>1 DEF FlaggedForCause, Cause
  <2> QED BY <2>1, CauseKept
<1>2. ASSUME NEW s \in Session, c = attempt_of[s], UndoByHand(s) PROVE Cause(c)'
  <2>1. Cause(c)
    BY <1>2 DEF UndoByHand, UndoingHasCause
  <2> QED BY <2>1, CauseKept
<1>3. ASSUME NEW s \in Session, NEW ps \in MayaStatus, c = attempt_of[s],
             ApplyForeignRefund(s, ps) \/ ApplyPaidUnbookable(s, ps) \/ ApplyPaidLost(s, ps)
      PROVE  Cause(c)'
  BY <1>3, ForeignRefundHasCause, UnbookableHasCause, LostHasCause
<1> QED BY <1>a, <1>1, <1>2, <1>3, OnlyPaymentsFlag

\* A checkout is handed to staff by each transaction that flags it.
LEMMA FlaggedIsWithStaff ==
    ASSUME NEW s \in Session, NEW c \in Checkout, c = attempt_of[s],
           Flag(ItemsOf(attempt_of[s]))
    PROVE  WithStaff(c)'
BY ItemsApart DEF Flag, WithStaff

\* Once staff have a checkout with one session they keep it, or its refund is
\* on record.
LEMMA WithStaffKept ==
    ASSUME CalendarInv, Ledger, [Next]_vars, NEW s \in Session, NEW c \in Checkout,
           Recorded(c) = {s}, WithStaff(c)
    PROVE  WithStaff(c)' \/ s \in refunds'
<1> USE DEF CalendarInv
<1> SUFFICES ASSUME NEW g \in ItemsOf(c), ~needs_resolution'[g], g \notin resolved'
             PROVE  s \in refunds'
  BY DEF WithStaff
<1>1. g \in Group /\ \A d : g \in ItemsOf(d) => d = c
  BY ItemsApart
<1>2. PICK r \in Session : g \in ItemsOf(attempt_of[r]) /\ UndoRecord(r)
  BY <1>1, OnlyUndoUnflags DEF WithStaff
<1>3. attempt[r] = "recorded" /\ attempt_of[r] = c
  BY <1>1, <1>2 DEF UndoRecord, Ledger
<1>4. r = s
  BY <1>3 DEF Recorded
<1> QED BY <1>2, <1>4 DEF UndoRecord

\* Money never drops out of the three places it may be.
LEMMA MoneyAccountedNext ==
    ASSUME MoneyInv, [Next]_vars
    PROVE  MoneyAccounted'
<1> USE DEF MoneyInv, CalendarInv
<1> SUFFICES ASSUME NEW s \in Session, attempt'[s] = "recorded",
                    NEW c, c = attempt_of'[s], Recorded(c)' = {s}
             PROVE  /\ Captured(s)' => status'[c] = "SUCCESSFUL" \/ s \in refunds' \/ WithStaff(c)'
                    /\ \A ps \in MayaUndone : <<s, ps>> \in events' /\ s \notin refunds' => WithStaff(c)'
  BY DEF MoneyAccounted, Sole, WithStaff, Recorded
<1>a. MayaPaid \cup MayaUndone \subseteq MayaStatus
  BY DEF MayaStatus
<1>1. CASE attempt[s] # "recorded"
  <2>1. attempt[s] = "asked" /\ attempt_of' = attempt_of /\ events' = events
    BY <1>1, OnlyRecordRecords
  <2>2. \A ps \in MayaStatus : <<s, ps>> \notin events
    BY <1>1 DEF Ledger
  <2> QED BY <1>a, <2>1, <2>2 DEF Captured
<1>2. CASE attempt[s] = "recorded"
  <2>1. attempt_of[s] = c /\ c \in Checkout /\ s \in Recorded(c)
    BY <1>2, RecordsGrow DEF SessionsKnown, Recorded
  <2>2. Recorded(c) = {s} /\ Sole(s)
    BY <2>1, RecordedGrows DEF Sole
  <2>3. refunds \subseteq refunds'
    BY RefundsGrow
  <2>4. /\ Captured(s) => status[c] = "SUCCESSFUL" \/ s \in refunds \/ WithStaff(c)
        /\ \A ps \in MayaUndone : <<s, ps>> \in events /\ s \notin refunds => WithStaff(c)
    BY <1>2, <2>1, <2>2 DEF MoneyAccounted
  <2>5. WithStaff(c) => WithStaff(c)' \/ s \in refunds'
    BY <2>1, <2>2, WithStaffKept
  <2>6. status[c] = "SUCCESSFUL" => status'[c] = "SUCCESSFUL" \/ s \in refunds'
    <3> SUFFICES ASSUME status[c] = "SUCCESSFUL", status'[c] # "SUCCESSFUL" PROVE s \in refunds'
      OBVIOUS
    <3>1. PICK r \in refunds' : attempt_of[r] = c
      BY <2>1, OnlyRefundReverses
    <3>2. r \in Session /\ attempt'[r] = "recorded"
      BY <3>1, TypeNext, LedgerNext DEF TypeOK, Ledger
    <3>3. attempt_of'[r] = c
      <4>1. CASE attempt[r] = "recorded"
        BY <3>1, <3>2, <4>1, RecordsGrow
      <4>2. CASE attempt[r] # "recorded"
        BY <3>1, <3>2, <4>2, OnlyRecordRecords
      <4> QED BY <4>1, <4>2
    <3>4. r \in Recorded(c)'
      BY <3>2, <3>3 DEF Recorded
    <3> QED BY <3>1, <3>4
  <2>7. ASSUME NEW ps, <<s, ps>> \notin events, <<s, ps>> \in events', ps \in MayaUndone, s \notin refunds'
        PROVE  WithStaff(c)'
    <3>1. ApplyForeignRefund(s, ps)
      BY <2>3, <2>7, OnlySyncApplies DEF ApplyRelease, ApplyOwnRefund, ApplyPaidUnbookable,
         ApplyPaidLive, ApplyPaidLate, ApplyPaidLost, Book, MayaPaid, MayaUndone, MayaFailed,
         MayaBackedOut, Paid, Amiss
    <3> QED BY <2>1, <3>1, FlaggedIsWithStaff DEF ApplyForeignRefund
  <2>8. ASSUME NEW ps, <<s, ps>> \notin events, <<s, ps>> \in events', ps \in MayaPaid
        PROVE  status'[c] = "SUCCESSFUL" \/ WithStaff(c)'
    <3>1. \/ ApplyPaidUnbookable(s, ps) \/ ApplyPaidLive(s, ps) \/ ApplyPaidLate(s, ps)
          \/ ApplyPaidLost(s, ps)
      BY <2>8, OnlySyncApplies DEF ApplyRelease, ApplyForeignRefund, ApplyOwnRefund, MayaPaid,
         MayaUndone, MayaFailed, MayaBackedOut, Paid, Amiss
    <3>2. CASE ApplyPaidUnbookable(s, ps)
      BY <2>1, <3>2, FlaggedIsWithStaff DEF ApplyPaidUnbookable
    <3>3. CASE ApplyPaidLost(s, ps)
      BY <2>1, <3>3, FlaggedIsWithStaff DEF ApplyPaidLost
    <3>4. CASE ApplyPaidLive(s, ps) \/ ApplyPaidLate(s, ps)
      BY <2>1, <3>4 DEF ApplyPaidLive, ApplyPaidLate, Book, TypeOK
    <3> QED BY <3>1, <3>2, <3>3, <3>4
  <2>9. Captured(s)' => Captured(s) \/ \E ps \in MayaPaid : <<s, ps>> \notin events /\ <<s, ps>> \in events'
    BY DEF Captured
  <2> QED BY <2>3, <2>4, <2>5, <2>6, <2>7, <2>8, <2>9
<1> QED BY <1>1, <1>2

-----------------------------------------------------------------------------
\* The empty database satisfies the invariant.
LEMMA MoneyInvInit == Init => MoneyInv
<1> SUFFICES ASSUME Init PROVE MoneyInv
  OBVIOUS
<1>1. CalendarInv
  BY CalendarInvInit
<1>2. Ledger /\ PaidVerdict /\ UndoingVacates /\ UndoingHasCause /\ MoneyAccounted
  BY DEF Init, Ledger, PaidVerdict, UndoingVacates, UndoingHasCause, MoneyAccounted, Absent
<1>3. NoStrayHold /\ FlaggedForCause
  BY ItemsApart DEF Init, NoStrayHold, FlaggedForCause, Absent
<1> QED BY <1>1, <1>2, <1>3 DEF MoneyInv

\* Every transaction keeps the invariant.
LEMMA MoneyInvNext == MoneyInv /\ [Next]_vars => MoneyInv'
<1> SUFFICES ASSUME MoneyInv, [Next]_vars PROVE MoneyInv'
  OBVIOUS
<1>1. CalendarInv'
  BY CalendarInvNext DEF MoneyInv
<1>2. Ledger'
  BY LedgerNext DEF MoneyInv, CalendarInv
<1>3. NoStrayHold' /\ PaidVerdict' /\ UndoingVacates' /\ UndoingHasCause'
  BY NoStrayHoldNext, PaidVerdictNext, UndoingVacatesNext, UndoingHasCauseNext DEF MoneyInv
<1> QED BY <1>1, <1>2, <1>3, MoneyAccountedNext, FlaggedForCauseNext DEF MoneyInv

\* The inductive invariant holds in every reachable state.
THEOREM MoneyInvariant == Spec => []MoneyInv
BY MoneyInvInit, MoneyInvNext, PTL DEF Spec

\* An applied success of a checkout's only session is booked, refunded or with
\* staff in every reachable state: also between the flag and the undo, where
\* the process may die (payments/service.py: _paid, _undo).
THEOREM MoneyIsAccounted == Spec => []MoneyAccounted
<1>1. MoneyInv => MoneyAccounted
  BY DEF MoneyInv
<1> QED BY <1>1, MoneyInvariant, PTL

\* Money back and court kept never go together while the checkout has one
\* session (payments/service.py: _paid books nothing it undoes).
THEOREM UndoneNeverBooks == Spec => []UndoneBooksNothing
<1>1. MoneyInv => UndoneBooksNothing
  BY DEF MoneyInv, UndoingVacates, UndoneBooksNothing, Vacant, CalendarInv, TypeOK
<1> QED BY <1>1, MoneyInvariant, PTL

\* Nothing enters the resolution queue without a reason in the events
\* (payments/service.py: _flag and its callers).
THEOREM FlagsHaveCause == Spec => []FlaggedForCause
<1>1. MoneyInv => FlaggedForCause
  BY DEF MoneyInv
<1> QED BY <1>1, MoneyInvariant, PTL

-----------------------------------------------------------------------------
(* What a step may never do.                                                *)

\* The step that gives the verdict sells every group, from the hold or claimed
\* anew.
LEMMA SellingIsWhole ==
    ASSUME CalendarInv, [Next]_vars, NEW c \in Checkout, status[c] # "SUCCESSFUL", status'[c] = "SUCCESSFUL",
           NEW g \in ItemsOf(c)
    PROVE  booking_status'[g] = "CONFIRMED" /\ payment_status'[g] = "PAID"
<1>1. PICK s \in Session, ps \in MayaStatus :
        attempt_of[s] = c /\ (ApplyPaidLive(s, ps) \/ ApplyPaidLate(s, ps))
  BY OnlyBookingSells DEF CalendarInv
<1>2. g \in Group
  BY DEF ItemsOf
<1>3. payment_status'[g] = "PAID"
  BY <1>1, <1>2 DEF ApplyPaidLive, ApplyPaidLate, Book
<1>4. booking_status'[g] = "CONFIRMED"
  BY <1>1, <1>2 DEF ApplyPaidLive, ApplyPaidLate, Book, Claim, SetStatus
<1> QED BY <1>3, <1>4

\* A checkout's courts are sold together (payments/service.py: _paid, _book).
THEOREM SoldAllTogether == Spec => SoldTogether
<1>1. CalendarInv /\ [Next]_vars =>
         \A c \in Checkout : status[c] # "SUCCESSFUL" /\ status'[c] = "SUCCESSFUL" =>
            \A g \in ItemsOf(c) : booking_status'[g] = "CONFIRMED" /\ payment_status'[g] = "PAID"
  BY SellingIsWhole
<1> QED BY <1>1, CalendarInvariant, PTL DEF Spec, SoldTogether

\* A claim by others takes nothing but lapsed holds off the calendar.
LEMMA ClaimSparesSold ==
    ASSUME NEW st, NEW deadline, NEW G, NEW s, NEW t, NEW g \in Group \ G, st[g] # "PENDING"
    PROVE  Claim(st, deadline, G, s, t)[g] = st[g]
BY DEF Claim, ExpireLapsed, SetStatus, Lapsed

\* Nobody but staff changes a group of a paid checkout that stands: the cleanup
\* of lapsed holds, other customers' claims and late results of other sessions
\* pass it by.
LEMMA OnlyStaffRewriteSold ==
    ASSUME MoneyInv, [Next]_vars, NEW c \in Checkout, NEW g \in ItemsOf(c),
           status[c] = "SUCCESSFUL", booking_status'[g] # booking_status[g]
    PROVE  \E op \in Desk : DeskSetsStatus(g, op)
<1> USE DEF MoneyInv, CalendarInv
<1>a. /\ booking_status \in [Group -> BookingStatus \cup {Absent}]
      /\ g \in Group /\ booking_status[g] # "PENDING"
  BY ItemsApart DEF TypeOK, NoStrayHold
<1>1. CASE Quiet
  BY <1>1 DEF Quiet
<1>2. ASSUME NEW d \in Checkout, CreateCommit(d) PROVE FALSE
  <2>1. c # d
    BY <1>2 DEF CreateCommit, Absent
  <2> QED BY <1>2, <1>a, <2>1, ItemsApart, ClaimSparesSold DEF CreateCommit
<1>3. ASSUME NEW d \in Checkout, CancelCommit(d) PROVE FALSE
  <2>1. c # d
    BY <1>3 DEF CancelCommit, CancelAllowed, IsLive
  <2> QED BY <1>3, <1>a, <2>1, ItemsApart DEF CancelCommit, SetStatus
<1>4. ASSUME NEW s \in Session, NEW ps \in MayaStatus, ApplyRelease(s, ps) \/ ApplyPaidLost(s, ps)
      PROVE  FALSE
  BY <1>4, <1>a DEF ApplyRelease, ApplyPaidLost, SetStatus, OpenItems
<1>5. ASSUME NEW s \in Session, NEW ps \in MayaStatus, ApplyPaidLive(s, ps) \/ ApplyPaidLate(s, ps)
      PROVE  FALSE
  <2>1. c # attempt_of[s]
    BY <1>5 DEF ApplyPaidLive, ApplyPaidLate, Book, Unbookable
  <2>2. g \notin ItemsOf(attempt_of[s])
    BY <2>1, ItemsApart
  <2>3. CASE ApplyPaidLive(s, ps)
    BY <1>a, <2>2, <2>3 DEF ApplyPaidLive, Book, SetStatus
  <2>4. CASE ApplyPaidLate(s, ps)
    BY <1>a, <2>2, <2>4, ClaimSparesSold DEF ApplyPaidLate, Book
  <2> QED BY <1>5, <2>3, <2>4
<1>6. ASSUME NEW w \in Group, WalkInBooked(w) PROVE FALSE
  <2>1. g \notin {w}
    BY <1>6, ItemsApart DEF WalkInBooked
  <2> QED BY <1>6, <1>a, <2>1, ClaimSparesSold DEF WalkInBooked, DeskClaim
<1>7. ASSUME NEW R \in Closure, CourtsClosed(R) PROVE FALSE
  <2>1. g \notin R
    BY ItemsApart
  <2> QED BY <1>7, <1>a, <2>1, ClaimSparesSold DEF CourtsClosed, DeskClaim
<1>8. ASSUME NEW x \in Group, NEW op \in Desk, DeskSetsStatus(x, op) PROVE x = g
  BY <1>8, <1>a DEF DeskSetsStatus
<1> QED BY <1>1, <1>2, <1>3, <1>4, <1>5, <1>6, <1>7, <1>8, CalendarSteps

\* Of what staff do, only a cancellation takes the group off the calendar.
LEMMA PaidHoursStep ==
    ASSUME MoneyInv, [Next]_vars, NEW c \in Checkout, NEW g \in ItemsOf(c),
           status[c] = "SUCCESSFUL", Occupies(booking_status, g), ~Occupies(booking_status', g)
    PROVE  <<g, "CANCELLED">> \in desk /\ booking_status'[g] = "CANCELLED"
<1>1. PICK op \in Desk : DeskSetsStatus(g, op)
  BY OnlyStaffRewriteSold DEF Occupies
<1>2. booking_status'[g] = op
  BY <1>1, ItemsApart DEF DeskSetsStatus, MoneyInv, CalendarInv, TypeOK
<1>3. op = "CANCELLED"
  BY <1>2 DEF Occupies, RELEASING, Absent, Desk
<1> QED BY <1>1, <1>2, <1>3 DEF DeskSetsStatus

\* A paid checkout keeps its courts until staff take one off.
THEOREM PaidKeepsItsHours == Spec => PaidHoursKept
<1>1. ASSUME MoneyInv, [Next]_vars
      PROVE  \A g \in Group :
                /\ CheckoutOf[g] # NoCheckout /\ status[CheckoutOf[g]] = "SUCCESSFUL"
                /\ Occupies(booking_status, g) /\ ~Occupies(booking_status', g)
                => <<g, "CANCELLED">> \in desk /\ booking_status'[g] = "CANCELLED"
  <2> TAKE g \in Group
  <2>1. CheckoutOf[g] # NoCheckout => CheckoutOf[g] \in Checkout /\ g \in ItemsOf(CheckoutOf[g])
    BY CalendarAssumption DEF CalendarAssumption, ItemsOf
  <2> QED BY <1>1, <2>1, PaidHoursStep
<1> QED BY <1>1, MoneyInvariant, PTL DEF Spec, PaidHoursKept
=============================================================================
