------------------------------ MODULE Views_proofs ------------------------------
(***************************************************************************)
(* What the screens say is what the rows mean, for every set of courts,     *)
(* hours, customers, groups, checkouts and sessions, every lead, horizon    *)
(* and length of a hold and of Maya's page: an hour shown as available is   *)
(* granted up to the horizon, a page that says "not booked" and asks no     *)
(* more is right while Maya's hour runs, and a checkout and its bookings    *)
(* tell one story.                                                         *)
(***************************************************************************)
EXTENDS Views, CalendarRefinement_proofs, FiniteSetTheorems

\* The views add a column to the flow and nothing else.
LEMMA ViewsAreOfTheFlow == ViewsSpec => Spec
<1>1. ViewsInit => Init
  BY DEF ViewsInit
<1>2. [ViewsNext]_vvars => [Next]_vars
  <2>1. ASSUME NEW c \in Checkout, NEW s \in Session, NEW t \in 0..MaxTime, Opens(c, s, t)
        PROVE  Next
    BY <2>1 DEF Opens, Next
  <2>2. ViewsNext => Next
    BY <2>1 DEF ViewsNext
  <2> QED BY <2>2 DEF vvars
<1> QED BY <1>1, <1>2, PTL DEF ViewsSpec, Spec

-----------------------------------------------------------------------------
(* The grid.                                                                *)

\* The index grants new groups exactly the hours occupancy does not list: what
\* a request would expire on its way, occupancy has left out.
LEMMA GrantedIsFree ==
    ASSUME NEW G \in SUBSET Group, \A g \in G : booking_status[g] = Absent, NEW t
    PROVE  CanClaim(booking_status, expires_at, G, t) <=> CellsIn(G) \cap Taken(t) = {}
<1> DEFINE st == ExpireLapsed(booking_status, expires_at, CellsIn(G), t)
<1>1. \A g \in G : ~Blocks(g, t)
  BY DEF Blocks, Occupies
<1>2. ASSUME NEW h \in Group \ G, CellsOf[h] \cap CellsIn(G) # {}
      PROVE  Occupies(st, h) <=> Blocks(h, t)
  <2>1. h \in Lapsed(booking_status, expires_at, CellsIn(G), t)
        <=> booking_status[h] = "PENDING" /\ expires_at[CheckoutOf[h]] <= t
    BY <1>2 DEF Lapsed
  <2>2. st[h] = IF h \in Lapsed(booking_status, expires_at, CellsIn(G), t)
                THEN "EXPIRED" ELSE booking_status[h]
    BY DEF ExpireLapsed, SetStatus
  <2>3. CASE h \in Lapsed(booking_status, expires_at, CellsIn(G), t)
    BY <2>1, <2>2, <2>3 DEF Occupies, RELEASING, Blocks
  <2>4. CASE h \notin Lapsed(booking_status, expires_at, CellsIn(G), t)
    BY <2>1, <2>2, <2>4 DEF Occupies, Blocks
  <2> QED BY <2>3, <2>4
<1>3. CanClaim(booking_status, expires_at, G, t)
      <=> \A h \in Group : Blocks(h, t) => CellsOf[h] \cap CellsIn(G) = {}
  BY <1>1, <1>2 DEF CanClaim, Accepts
<1> QED BY <1>3 DEF Taken, CellsIn

\* A closure takes its hours like any booking.
LEMMA ClosureIsTaken ==
    ASSUME NEW t
    PROVE  TakenByClosure(t) \subseteq Taken(t) /\ Taken(t) \subseteq Cell
<1>1. Maintenance \subseteq Group /\ \A g \in Group : CellsOf[g] \subseteq Cell
  BY CalendarAssumption DEF CalendarAssumption, Maintenance
<1> QED BY <1>1 DEF TakenByClosure, Taken, CellsIn

\* What a cell of the grid reads, and when.
LEMMA GridReads ==
    ASSUME NEW x, NEW t
    PROVE  /\ GridStatus(x, t) = "CLOSED" <=> x \in TakenByClosure(t)
           /\ GridStatus(x, t) = "BOOKED" <=> x \in Taken(t) \ TakenByClosure(t)
           /\ GridStatus(x, t) = "AVAILABLE" <=>
                 x \notin Taken(t) /\ ~(StartsAt[x] < t + LeadTicks)
<1>1. TakenByClosure(t) \subseteq Taken(t)
  BY ClosureIsTaken
<1>2. CASE x \in TakenByClosure(t)
  BY <1>1, <1>2 DEF GridStatus
<1>3. CASE x \in Taken(t) \ TakenByClosure(t)
  BY <1>1, <1>3 DEF GridStatus
<1>4. CASE x \notin Taken(t) /\ StartsAt[x] < t + LeadTicks
  BY <1>1, <1>4 DEF GridStatus
<1>5. CASE x \notin Taken(t) /\ ~(StartsAt[x] < t + LeadTicks)
  BY <1>1, <1>5 DEF GridStatus
<1> QED BY <1>2, <1>3, <1>4, <1>5

\* The grid keeps its word: what a request would be granted it shows as
\* available, what it shows as available only the horizon can refuse, and the
\* console counts what the grid shows.
THEOREM GridIsTrue == ViewsSpec => []GridKeepsItsWord
<1>1. RefinementInv => GridKeepsItsWord
  <2> SUFFICES ASSUME RefinementInv PROVE GridKeepsItsWord
    OBVIOUS
  <2>1. ASSUME NEW c \in Checkout, status[c] = Absent, NEW t
        PROVE  CanClaim(booking_status, expires_at, ItemsOf(c), t)
               <=> CellsIn(ItemsOf(c)) \cap Taken(t) = {}
    <3>1. ItemsOf(c) \in SUBSET Group /\ \A g \in ItemsOf(c) : booking_status[g] = Absent
      BY <2>1 DEF ItemsOf, RefinementInv, BornTogether
    <3> QED BY <3>1, GrantedIsFree
  <2>2. ASSUME NEW c \in Checkout, status[c] = Absent
        PROVE  (\A x \in CellsIn(ItemsOf(c)) : GridStatus(x, now) = "AVAILABLE")
               <=> ~TooSoon(c, now) /\ CanClaim(booking_status, expires_at, ItemsOf(c), now)
    <3>1. \A x \in CellsIn(ItemsOf(c)) : GridStatus(x, now) = "AVAILABLE"
                                        <=> x \notin Taken(now) /\ ~(StartsAt[x] < now + LeadTicks)
      BY GridReads
    <3>2. CanClaim(booking_status, expires_at, ItemsOf(c), now)
          <=> \A x \in CellsIn(ItemsOf(c)) : x \notin Taken(now)
      BY <2>1, <2>2
    <3> QED BY <3>1, <3>2 DEF TooSoon
  <2>3. BookedHours(now) = Cardinality({x \in Cell : GridStatus(x, now) = "BOOKED"})
    <3>1. {x \in Cell : GridStatus(x, now) = "BOOKED"} = Taken(now) \ TakenByClosure(now)
      BY GridReads, ClosureIsTaken
    <3> QED BY <3>1 DEF BookedHours
  <2>4. BookableHours(now) = Cardinality({x \in Cell : GridStatus(x, now) # "CLOSED"})
    <3>1. {x \in Cell : GridStatus(x, now) # "CLOSED"} = Cell \ TakenByClosure(now)
      BY GridReads
    <3>2. TakenByClosure(now) \subseteq Cell /\ Cell \cap TakenByClosure(now) = TakenByClosure(now)
      BY ClosureIsTaken
    <3>3. Cardinality(Cell \ TakenByClosure(now)) = Cardinality(Cell) - Cardinality(Cell \cap TakenByClosure(now))
      BY ViewsAssumption, FS_Difference DEF ViewsAssumption
    <3> QED BY <3>1, <3>2, <3>3 DEF BookableHours
  <2> QED BY <2>2, <2>3, <2>4 DEF GridKeepsItsWord
<1> QED BY <1>1, ViewsAreOfTheFlow, RefinementInvariant, PTL
-----------------------------------------------------------------------------
(* The last word.  LastWordStands speaks of one step, so what that step      *)
(* starts from has to be known: which words Maya can have said of a page, and *)
(* that a declined or abandoned page has ended its hold.                    *)

\* What Maya may have said of a session tells how its page went: a page given
\* up or expired was never paid, and a paid one was never given up.
OnePage ==
    \A s \in Session :
        /\ maya[s] \notin MayaPaid \cup MayaUndone \cup MayaBackedOut => reported[s] \subseteq MayaFailed
        /\ maya[s] \in MayaBackedOut => reported[s] \subseteq MayaFailed \cup MayaBackedOut
        /\ maya[s] \in MayaPaid \cup MayaUndone =>
              reported[s] \subseteq MayaFailed \cup MayaPaid \cup MayaUndone

\* A hold is on only while none of its sessions failed or was given up.
StillOpen ==
    \A s \in Session : attempt[s] = "recorded" /\ status[attempt_of[s]] = "PENDING" =>
        \A ps \in MayaFailed \cup MayaBackedOut : <<s, ps>> \notin events

\* A refund of ours and the checkout's REFUNDED go together.
RefundedReads ==
    /\ \A s \in refunds : status[attempt_of[s]] = "REFUNDED"
    /\ \A c \in Checkout : status[c] = "REFUNDED" => \E s \in refunds : attempt_of[s] = c

ViewsInv == RefinementInv /\ OnePage /\ StillOpen /\ RefundedReads

\* The five kinds of status Maya reports have none in common.
LEMMA MayaKinds ==
    /\ MayaPaid \cap (MayaFailed \cup MayaBackedOut \cup MayaUndone \cup MayaPending) = {}
    /\ MayaFailed \cap (MayaBackedOut \cup MayaUndone \cup MayaPending) = {}
    /\ MayaBackedOut \cap (MayaUndone \cup MayaPending) = {}
    /\ MayaUndone \cap MayaPending = {}
    /\ "PENDING_TOKEN" \in MayaPending /\ "REFUNDED" \in MayaUndone /\ "VOIDED" \in MayaUndone
BY DEF MayaPaid, MayaFailed, MayaBackedOut, MayaUndone, MayaPending, Paid, Amiss

\* Maya's status of a session moves by the opening of its page, the payer, a
\* refund by hand or our undo.
LEMMA OnlyTheseMove ==
    ASSUME [Next]_vars
    PROVE  \/ UNCHANGED provider
           \/ \E s \in Session :
                 \/ PayRecord(s) \/ RefundByHand(s) \/ UndoRefused(s)
                 \/ \E ps \in PageOutcome : Settle(s, ps)
                 \/ \E ps \in MayaUndone : UndoAccepted(s, ps)
<1>1. CASE Tick
  BY <1>1 DEF Tick
<1>2. ASSUME NEW c \in Checkout,
             \/ CreateCheck(c) \/ CreateCommit(c) \/ CancelStart(c) \/ CancelCommit(c)
             \/ \E s \in Session : PayAsk(c, s)
      PROVE  UNCHANGED provider
  BY <1>2 DEF CreateCheck, CreateCommit, CancelStart, CancelCommit, PayAsk
<1>3. ASSUME NEW s \in Session, NEW ps \in MayaStatus,
             \/ ApplyRelease(s, ps) \/ ApplyForeignRefund(s, ps) \/ ApplyOwnRefund(s, ps)
             \/ ApplyPaidUnbookable(s, ps) \/ ApplyPaidLive(s, ps) \/ ApplyPaidLate(s, ps)
             \/ ApplyPaidLost(s, ps)
      PROVE  UNCHANGED provider
  BY <1>3 DEF ApplyRelease, ApplyForeignRefund, ApplyOwnRefund, ApplyPaidUnbookable, ApplyPaidLive,
              ApplyPaidLate, ApplyPaidLost, Book
<1>4. ASSUME NEW s \in Session, UndoRecord(s) \/ UndoByHand(s) PROVE UNCHANGED provider
  BY <1>4 DEF UndoRecord, UndoByHand
<1>5. ASSUME NEW g \in Group,
             \/ WalkInBooked(g) \/ DeskResolves(g) \/ DeskMarksPaid(g)
             \/ \E op \in Desk : DeskCheck(g, op) \/ DeskSetsStatus(g, op)
      PROVE  UNCHANGED provider
  BY <1>5 DEF WalkInBooked, DeskClaim, DeskResolves, DeskMarksPaid, DeskCheck, DeskSetsStatus
<1>6. ASSUME NEW R \in Closure, CourtsClosed(R) PROVE UNCHANGED provider
  BY <1>6 DEF CourtsClosed, DeskClaim
<1>7. CASE UNCHANGED vars
  BY <1>7 DEF vars
<1> QED BY <1>1, <1>2, <1>3, <1>4, <1>5, <1>6, <1>7 DEF Next, Sync, Undo

\* A page keeps to one story of its own.
LEMMA OnePageNext ==
    ASSUME TypeOK, Ledger, OnePage, [Next]_vars
    PROVE  OnePage'
<1>a. /\ maya \in [Session -> MayaStatus \cup {Absent}]
      /\ reported \in [Session -> SUBSET MayaStatus]
      /\ PageOutcome \subseteq MayaPaid \cup MayaFailed \cup MayaBackedOut
  BY FlowAssumption DEF TypeOK, FlowAssumption
<1> USE DEF OnePage
<1>1. CASE UNCHANGED provider
  BY <1>1 DEF provider
<1>2. ASSUME NEW s \in Session, PayRecord(s) PROVE OnePage'
  <2>1. reported[s] = {}
    BY <1>2 DEF PayRecord, Ledger
  <2> QED BY <1>2, <1>a, <2>1, MayaKinds DEF PayRecord
<1>3. ASSUME NEW s \in Session, RefundByHand(s) PROVE OnePage'
  BY <1>3, <1>a, MayaKinds DEF RefundByHand, MayaMoves
<1>4. ASSUME NEW s \in Session, NEW ps \in PageOutcome, Settle(s, ps) PROVE OnePage'
  <2>1. reported[s] \subseteq MayaFailed
    BY <1>4, MayaKinds DEF Settle
  <2>2. ps \in MayaPaid \cup MayaFailed \cup MayaBackedOut
    BY <1>4, <1>a
  <2> QED BY <1>4, <1>a, <2>1, <2>2, MayaKinds DEF Settle, MayaMoves
<1>5. ASSUME NEW s \in Session, NEW ps \in MayaUndone, UndoAccepted(s, ps) PROVE OnePage'
  BY <1>5, <1>a, MayaKinds DEF UndoAccepted, MayaMoves
<1>6. ASSUME NEW s \in Session, UndoRefused(s) PROVE OnePage'
  BY <1>6, <1>a, MayaKinds DEF UndoRefused, MayaMoves, provider
<1> QED BY <1>1, <1>2, <1>3, <1>4, <1>5, <1>6, OnlyTheseMove

\* The notice that fails a session ends the hold it finds.
LEMMA StillOpenNext ==
    ASSUME TypeOK, SessionsKnown, Ledger, StillOpen, [Next]_vars
    PROVE  StillOpen'
<1> SUFFICES ASSUME NEW s \in Session, attempt'[s] = "recorded",
                    NEW c, c = attempt_of'[s], status'[c] = "PENDING",
                    NEW ps \in MayaFailed \cup MayaBackedOut, <<s, ps>> \in events'
             PROVE  FALSE
  BY DEF StillOpen
<1>a. ps \in MayaStatus /\ status \in [Checkout -> PaymentOutcome \cup {Absent}]
  BY DEF MayaStatus, TypeOK
<1>1. attempt[s] = "recorded" /\ attempt_of[s] = c
  <2>1. CASE attempt[s] = "recorded"
    BY <2>1, RecordsGrow
  <2>2. CASE attempt[s] # "recorded"
    BY <2>2, <1>a, OnlyRecordRecords DEF Ledger
  <2> QED BY <2>1, <2>2
<1>2. c \in Checkout /\ status[c] # Absent
  BY <1>1 DEF SessionsKnown, Ledger
<1>3. status[c] = "PENDING"
  BY <1>2, VerdictKept
<1>4. <<s, ps>> \notin events
  BY <1>1, <1>3 DEF StillOpen
<1>5. ApplyRelease(s, ps)
  BY <1>4, MayaKinds, OnlySyncApplies
     DEF ApplyForeignRefund, ApplyOwnRefund, ApplyPaidUnbookable, ApplyPaidLive, ApplyPaidLate,
         ApplyPaidLost, Book
<1>6. status'[c] = OutcomeOf(ps)
  BY <1>5, <1>a, <1>1, <1>2, <1>3 DEF ApplyRelease
<1> QED BY <1>6, ReleaseOutcome

\* A refund is put on record by the transaction that makes the checkout REFUNDED.
LEMMA OnlyUndoRecords ==
    ASSUME [Next]_vars, NEW s, s \notin refunds, s \in refunds'
    PROVE  s \in Session /\ UndoRecord(s)
<1> USE DEF payments
<1>1. CASE Tick
  BY <1>1 DEF Tick
<1>2. ASSUME NEW c \in Checkout, CreateCheck(c) \/ CreateCommit(c) \/ CancelStart(c) \/ CancelCommit(c)
      PROVE  FALSE
  BY <1>2 DEF CreateCheck, CreateCommit, CancelStart, CancelCommit
<1>3. ASSUME NEW r \in Session,
             \/ \E c \in Checkout : PayAsk(c, r)
             \/ PayRecord(r) \/ RefundByHand(r) \/ \E ps \in PageOutcome : Settle(r, ps)
      PROVE  FALSE
  BY <1>3 DEF PayAsk, PayRecord, RefundByHand, Settle
<1>4. ASSUME NEW r \in Session, NEW ps \in MayaStatus,
             \/ ApplyRelease(r, ps) \/ ApplyForeignRefund(r, ps) \/ ApplyOwnRefund(r, ps)
             \/ ApplyPaidUnbookable(r, ps) \/ ApplyPaidLive(r, ps) \/ ApplyPaidLate(r, ps)
             \/ ApplyPaidLost(r, ps)
      PROVE  FALSE
  BY <1>4 DEF ApplyRelease, ApplyForeignRefund, ApplyOwnRefund, ApplyPaidUnbookable, ApplyPaidLive,
              ApplyPaidLate, ApplyPaidLost, Book
<1>5. ASSUME NEW r \in Session, UndoRecord(r) PROVE r = s
  BY <1>5 DEF UndoRecord
<1>6. ASSUME NEW r \in Session, UndoRefused(r) \/ UndoByHand(r) \/ \E ps \in MayaUndone : UndoAccepted(r, ps)
      PROVE  FALSE
  BY <1>6 DEF UndoRefused, UndoByHand, UndoAccepted
<1>7. ASSUME NEW g \in Group,
             \/ WalkInBooked(g) \/ DeskResolves(g) \/ DeskMarksPaid(g)
             \/ \E op \in Desk : DeskCheck(g, op) \/ DeskSetsStatus(g, op)
      PROVE  FALSE
  BY <1>7 DEF WalkInBooked, DeskClaim, DeskResolves, DeskMarksPaid, DeskCheck, DeskSetsStatus
<1>8. ASSUME NEW R \in Closure, CourtsClosed(R) PROVE FALSE
  BY <1>8 DEF CourtsClosed, DeskClaim
<1>9. CASE UNCHANGED vars
  BY <1>9 DEF vars
<1> QED BY <1>1, <1>2, <1>3, <1>4, <1>5, <1>6, <1>7, <1>8, <1>9 DEF Next, Sync, Undo

\* REFUNDED is the last verdict a checkout gets.
LEMMA RefundedReadsNext ==
    ASSUME MoneyInv, RefundedReads, [Next]_vars
    PROVE  RefundedReads'
<1> USE DEF MoneyInv, CalendarInv
<1>a. status \in [Checkout -> PaymentOutcome \cup {Absent}] /\ refunds' \subseteq Session
  BY TypeNext DEF TypeOK
<1>b. \A s \in refunds : attempt[s] = "recorded" /\ attempt_of'[s] = attempt_of[s]
                         /\ attempt_of[s] \in Checkout
  BY RecordsGrow DEF Ledger, SessionsKnown, TypeOK
<1>c. ASSUME NEW c \in Checkout, status[c] = "REFUNDED" PROVE status'[c] = "REFUNDED"
  <2>1. status'[c] # "SUCCESSFUL"
    BY <1>c, OnlyBookingSells DEF ApplyPaidLive, ApplyPaidLate, Book, Unbookable
  <2> QED BY <1>c, <2>1, PaymentVerdictKept
<1>1. ASSUME NEW s \in refunds' PROVE status'[attempt_of'[s]] = "REFUNDED"
  <2>1. CASE s \in refunds
    BY <2>1, <1>b, <1>c DEF RefundedReads
  <2>2. CASE s \notin refunds
    <3>1. s \in Session /\ UndoRecord(s)
      BY <2>2, OnlyUndoRecords
    <3>2. attempt_of[s] \in Checkout
      BY <3>1 DEF UndoRecord, Ledger, SessionsKnown
    <3> QED BY <3>1, <3>2, <1>a DEF UndoRecord
  <2> QED BY <2>1, <2>2
<1>2. ASSUME NEW c \in Checkout, status'[c] = "REFUNDED"
      PROVE  \E s \in refunds' : attempt_of'[s] = c
  <2>1. CASE status[c] = "REFUNDED"
    BY <2>1, <1>b, RefundsGrow DEF RefundedReads
  <2>2. CASE status[c] # "REFUNDED"
    <3>1. PICK s \in Session :
             attempt_of[s] = c /\ (undo[s] # "none" \/ s \in refunds) /\ s \in refunds'
      BY <1>2, <2>2, OnlyUndoRefunds
    <3>2. attempt[s] = "recorded"
      BY <3>1 DEF Ledger
    <3> QED BY <3>1, <3>2, RecordsGrow
  <2> QED BY <2>1, <2>2
<1> QED BY <1>1, <1>2 DEF RefundedReads

LEMMA ViewsInvInit == Init => ViewsInv
<1> SUFFICES ASSUME Init PROVE ViewsInv
  OBVIOUS
<1>1. RefinementInv
  BY RefinementInvInit
<1>2. OnePage /\ StillOpen
  BY MayaKinds DEF Init, OnePage, StillOpen
<1>3. RefundedReads
  BY DEF Init, RefundedReads, Absent
<1> QED BY <1>1, <1>2, <1>3 DEF ViewsInv

LEMMA ViewsInvNext == ViewsInv /\ [Next]_vars => ViewsInv'
BY RefinementInvNext, OnePageNext, StillOpenNext, RefundedReadsNext
   DEF ViewsInv, RefinementInv, MoneyInv, CalendarInv

\* What the screens rely on holds in every reachable state.
THEOREM ViewsInvariant == Spec => []ViewsInv
BY ViewsInvInit, ViewsInvNext, PTL DEF Spec

\* The last word stands while Maya's hour runs: a customer whose page says "not
\* booked" and asks no more is booked after all only when staff have the
\* checkout, when a card was declined after a cancellation and another is tried
\* on the same page, or when Maya's hour ran out with nothing heard of it.
THEOREM LastWordIsKept == ViewsSpec => LastWordStands
<1>1. ASSUME ViewsInv, [Next]_vars
      PROVE  \A c \in Checkout : ToldOver(c) /\ status'[c] = "SUCCESSFUL" =>
                WithStaff(c)' \/ DeclinedAfterwards(c) \/ RanOut(c)
  <2> USE <1>1 DEF ViewsInv, RefinementInv, MoneyInv, CalendarInv
  <2> SUFFICES ASSUME NEW c \in Checkout, ToldOver(c), status'[c] = "SUCCESSFUL", ~RanOut(c)
               PROVE  WithStaff(c)' \/ DeclinedAfterwards(c)
    OBVIOUS
  <2>1. status[c] # "SUCCESSFUL"
    BY DEF ToldOver, CheckoutDisplayStatus
  <2>2. PICK s \in Session, ps \in MayaStatus :
           attempt_of[s] = c /\ (ApplyPaidLive(s, ps) \/ ApplyPaidLate(s, ps))
    BY <2>1, OnlyBookingSells
  <2>3. /\ attempt[s] = "recorded" /\ ps \in MayaPaid /\ ps \in reported[s]
        /\ status[c] \in {"PENDING", "CANCELLED"}
    BY <2>2 DEF ApplyPaidLive, ApplyPaidLate, Book, FirstReport, Unbookable
  <2>4. Recorded(c) = {s}
    <3>1. s \in Recorded(c)
      BY <2>2, <2>3 DEF Recorded
    <3>2. PICK r : Recorded(c) = {r}
      <4>1. IsFiniteSet(Recorded(c))
        BY FS_Subset, FlowAssumption DEF FlowAssumption, Recorded
      <4> QED BY <4>1, FS_Singleton DEF ToldOver
    <3> QED BY <3>1, <3>2
  <2>5. PICK q \in MayaStatus : <<s, q>> \in events
    <3>1. IsLatest(s, c)
      BY <2>4, FlowAssumption DEF IsLatest, FlowAssumption
    <3>2. CheckoutDisplayStatus(c, now) \in {"PENDING", "CANCELLED"}
      BY <2>3 DEF CheckoutDisplayStatus
    <3>3. ~Unreported(s)
      BY <2>4, <3>1, <3>2 DEF ToldOver, AwaitingPayment, RanOut
    <3> QED BY <3>3 DEF Unreported, TypeOK
  <2>6. CASE q \in MayaPaid \cup MayaUndone
    <3>1. s \notin refunds
      BY <2>2, <2>3 DEF RefundedReads
    <3>2. WithStaff(c)
      BY <2>1, <2>2, <2>3, <2>4, <2>5, <2>6, <3>1 DEF MoneyAccounted, Sole, Captured
    <3>3. s \notin refunds'
      <4>1. RefundedReads' /\ attempt_of'[s] = c
        BY <2>2, <2>3, RefundedReadsNext, RecordsGrow
      <4> QED BY <4>1 DEF RefundedReads
    <3> QED BY <3>2, <3>3, <2>4, WithStaffKept
  <2>7. CASE q \in MayaFailed
    <3>1. status[c] = "CANCELLED"
      BY <2>2, <2>3, <2>5, <2>7 DEF StillOpen
    <3> QED BY <3>1, <2>4, <2>5, <2>7 DEF DeclinedAfterwards
  <2>8. CASE q \in MayaBackedOut \cup MayaPending
    <3>1. q \in reported[s]
      BY <2>5 DEF Ledger
    <3> QED BY <2>3, <2>8, <3>1, MayaKinds DEF OnePage
  <2> QED BY <2>6, <2>7, <2>8 DEF MayaStatus
<1> QED BY <1>1, ViewsAreOfTheFlow, ViewsInvariant, PTL DEF Spec, LastWordStands
-----------------------------------------------------------------------------
(* One story.  Staff may cancel one court of a paid checkout, or mark it     *)
(* missed, and the screens then say so; what the story promises is about     *)
(* everybody else, so here staff set no status.                             *)

\* Nothing but a request of the kind the venue's staff make is ever in flight.
DeskAsked == desk \subseteq Group \X DeskOps

\* A paid checkout has every court confirmed.
SoldWhole ==
    \A c \in Checkout : status[c] = "SUCCESSFUL" =>
        \A g \in ItemsOf(c) : booking_status[g] = "CONFIRMED"

LEMMA DeskAskedNext ==
    ASSUME DeskAsked, [Next]_vars
    PROVE  DeskAsked'
<1>1. ASSUME NEW g \in Group, NEW op \in Desk, DeskCheck(g, op) PROVE DeskAsked'
  BY <1>1 DEF DeskCheck, DeskAsked
<1> QED BY <1>1, DeskSteps DEF DeskAsked

LEMMA SoldWholeNext ==
    ASSUME DeskOps \cap BookingStatus = {}, DeskAsked, MoneyInv, SoldWhole, [Next]_vars
    PROVE  SoldWhole'
<1> SUFFICES ASSUME NEW c \in Checkout, status'[c] = "SUCCESSFUL", NEW g \in ItemsOf(c)
             PROVE  booking_status'[g] = "CONFIRMED"
  BY DEF SoldWhole
<1>1. CASE status[c] # "SUCCESSFUL"
  BY <1>1, SellingIsWhole DEF MoneyInv
<1>2. CASE status[c] = "SUCCESSFUL"
  <2>1. ~ \E op \in Desk : DeskSetsStatus(g, op)
    BY DEF DeskSetsStatus, DeskAsked
  <2>2. booking_status'[g] = booking_status[g]
    BY <1>2, <2>1, OnlyStaffRewriteSold
  <2> QED BY <1>2, <2>2 DEF SoldWhole
<1> QED BY <1>1, <1>2

\* What the console reads of a booking, by its status and its deadline.
LEMMA BookingReads ==
    ASSUME NEW g \in Group, NEW t
    PROVE  /\ booking_status[g] = "PENDING" /\ ~(expires_at[CheckoutOf[g]] <= t)
                 => DisplayStatus(g, t) = "PENDING"
           /\ booking_status[g] = "PENDING" /\ expires_at[CheckoutOf[g]] <= t
                 => DisplayStatus(g, t) = "EXPIRED"
           /\ booking_status[g] = "CONFIRMED" => DisplayStatus(g, t) \in {"CONFIRMED", "IN_PROGRESS"}
           /\ booking_status[g] \in {"CANCELLED", "EXPIRED"}
                 => DisplayStatus(g, t) \in {"CANCELLED", "EXPIRED"}
BY DEF DisplayStatus

\* A court of a checkout that exists and was not paid is on hold or let go.
LEMMA UnpaidReads ==
    ASSUME RefinementInv, NEW c \in Checkout, status[c] \in {"PENDING", "CANCELLED", "FAILED"},
           NEW g \in ItemsOf(c)
    PROVE  /\ booking_status[g] \in {"PENDING", "CANCELLED", "EXPIRED"}
           /\ status[c] # "PENDING" => booking_status[g] # "PENDING"
<1>1. g \in Group /\ booking_status[g] # Absent
  BY ItemsApart DEF RefinementInv, BornTogether, Absent
<1>2. ~Sold(g)
  BY DEF RefinementInv, SoldIsPaid, Committed
<1> QED BY <1>1, <1>2 DEF RefinementInv, MoneyInv, CalendarInv, TypeOK, BookingStatus, Sold, NoStrayHold

\* With one session, a refunded checkout has let go of its courts.
LEMMA RefundedReadsOff ==
    ASSUME ViewsInv, NEW c \in Checkout, status[c] = "REFUNDED", Cardinality(Recorded(c)) <= 1,
           NEW g \in ItemsOf(c)
    PROVE  booking_status[g] \in {"CANCELLED", "EXPIRED"}
<1> USE DEF ViewsInv, RefinementInv, MoneyInv, CalendarInv
<1>1. PICK s \in refunds : attempt_of[s] = c
  BY DEF RefundedReads
<1>2. s \in Recorded(c)
  BY <1>1 DEF Recorded, Ledger, TypeOK
<1>3. Recorded(c) = {s}
  <2>1. IsFiniteSet(Recorded(c))
    BY FS_Subset, FlowAssumption DEF FlowAssumption, Recorded
  <2>2. Cardinality(Recorded(c)) \in Nat /\ Cardinality(Recorded(c)) # 0
    BY <1>2, <2>1, FS_CardinalityType, FS_EmptySet
  <2>3. Cardinality(Recorded(c)) = 1
    BY <2>2
  <2> QED BY <1>2, <2>1, <2>3, FS_Singleton
<1>4. Vacant(c)
  BY <1>1, <1>3 DEF UndoingVacates, Sole, TypeOK
<1>5. g \in Group /\ booking_status[g] # Absent
  BY ItemsApart DEF BornTogether, Absent
<1> QED BY <1>4, <1>5 DEF Vacant, Occupies, RELEASING

\* One story: while staff set no status, of a checkout with one session what its
\* customer reads and what the console reads never contradict each other, and
\* the rows the customer is listed agree with both, but for a hold that ended
\* and that nothing has written off.
THEOREM OneStoryTold ==
    ASSUME DeskOps \cap BookingStatus = {}
    PROVE  ViewsSpec => []OneStory
<1> DEFINE Story == ViewsInv /\ DeskAsked /\ SoldWhole
<1>1. Init => Story
  BY ViewsInvInit DEF Init, DeskAsked, SoldWhole, Absent
<1>2. Story /\ [Next]_vars => Story'
  BY ViewsInvNext, DeskAskedNext, SoldWholeNext DEF ViewsInv, RefinementInv
<1>3. Story => OneStory
  <2> SUFFICES ASSUME Story, NEW c \in Checkout, status[c] # Absent, Cardinality(Recorded(c)) <= 1
               PROVE  LET console == {DisplayStatus(g, now) : g \in ItemsOf(c)}
                          listed == {CheckoutBookingStatus(g) : g \in ItemsOf(c)}
                      IN
                      CASE CheckoutDisplayStatus(c, now) = "PENDING" ->
                               console = {"PENDING"} /\ listed = {"PENDING"}
                        [] CheckoutDisplayStatus(c, now) = "SUCCESSFUL" ->
                               console \subseteq {"CONFIRMED", "IN_PROGRESS"} /\ listed = {"CONFIRMED"}
                        [] OTHER ->
                               /\ console \subseteq {"CANCELLED", "EXPIRED"}
                               /\ "PENDING" \in listed => Unswept(c)
                               /\ listed \subseteq {"PENDING", "CANCELLED", "EXPIRED"}
    BY DEF OneStory
  <2> USE DEF ViewsInv, RefinementInv, MoneyInv, CalendarInv
  <2> DEFINE console == {DisplayStatus(g, now) : g \in ItemsOf(c)}
             listed == {CheckoutBookingStatus(g) : g \in ItemsOf(c)}
             reads == CheckoutDisplayStatus(c, now)
  <2>a. /\ ItemsOf(c) # {}
        /\ \A g \in ItemsOf(c) : g \in Group /\ CheckoutOf[g] = c
        /\ now \in Int /\ expires_at[c] \in Int
    BY ItemsApart, CalendarAssumption, FlowAssumption DEF CalendarAssumption, FlowAssumption, TypeOK
  <2>b. status[c] \in PaymentOutcome
    BY DEF TypeOK
  <2>1. CASE IsLive(c, now)
    <3>1. \A g \in ItemsOf(c) :
             DisplayStatus(g, now) = "PENDING" /\ CheckoutBookingStatus(g) = "PENDING"
      BY <2>1, <2>a, BookingReads DEF IsLive, LiveHoldIsWhole, CheckoutBookingStatus
    <3>2. reads = "PENDING"
      BY <2>1 DEF IsLive, CheckoutDisplayStatus
    <3> QED BY <3>1, <3>2, <2>a
  <2>2. CASE status[c] = "PENDING" /\ ~IsLive(c, now)
    <3>1. \A g \in ItemsOf(c) : /\ DisplayStatus(g, now) \in {"CANCELLED", "EXPIRED"}
                                 /\ CheckoutBookingStatus(g) \in {"PENDING", "CANCELLED", "EXPIRED"}
      BY <2>2, <2>a, BookingReads, UnpaidReads DEF IsLive, CheckoutBookingStatus
    <3>2. reads = "CANCELLED" /\ Unswept(c)
      BY <2>2 DEF CheckoutDisplayStatus, Unswept
    <3> QED BY <3>1, <3>2
  <2>3. CASE status[c] \in {"CANCELLED", "FAILED"}
    <3>1. \A g \in ItemsOf(c) : /\ DisplayStatus(g, now) \in {"CANCELLED", "EXPIRED"}
                                 /\ CheckoutBookingStatus(g) \in {"CANCELLED", "EXPIRED"}
      BY <2>3, <2>a, BookingReads, UnpaidReads DEF CheckoutBookingStatus
    <3>2. reads = status[c]
      BY <2>3 DEF CheckoutDisplayStatus
    <3> QED BY <2>3, <3>1, <3>2
  <2>4. CASE status[c] = "SUCCESSFUL"
    <3>1. \A g \in ItemsOf(c) : /\ DisplayStatus(g, now) \in {"CONFIRMED", "IN_PROGRESS"}
                                 /\ CheckoutBookingStatus(g) = "CONFIRMED"
      BY <2>4, <2>a, BookingReads DEF SoldWhole, CheckoutBookingStatus
    <3>2. reads = "SUCCESSFUL"
      BY <2>4 DEF CheckoutDisplayStatus
    <3> QED BY <3>1, <3>2, <2>a
  <2>5. CASE status[c] = "REFUNDED"
    <3>1. \A g \in ItemsOf(c) : /\ DisplayStatus(g, now) \in {"CANCELLED", "EXPIRED"}
                                 /\ CheckoutBookingStatus(g) \in {"CANCELLED", "EXPIRED"}
      BY <2>5, <2>a, BookingReads, RefundedReadsOff DEF CheckoutBookingStatus
    <3>2. reads = "REFUNDED"
      BY <2>5 DEF CheckoutDisplayStatus
    <3> QED BY <3>1, <3>2
  <2> QED BY <2>b, <2>1, <2>2, <2>3, <2>4, <2>5 DEF PaymentOutcome, IsLive
<1> QED BY <1>1, <1>2, <1>3, ViewsAreOfTheFlow, PTL DEF Spec
=============================================================================
