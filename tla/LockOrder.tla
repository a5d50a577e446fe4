------------------------------ MODULE LockOrder ------------------------------
(***************************************************************************)
(* The writers of bookings, statement by statement: which row locks and     *)
(* index entries each transaction takes, in which order, and who waits for  *)
(* whom.  CheckoutFlow takes each of these transactions as one step.        *)
(*                                                                         *)
(* Postgres at READ COMMITTED keeps a row lock until the transaction ends.  *)
(* An UPDATE re-reads its row once it has the lock.  An event row locks the *)
(* checkout it refers to (KEY SHARE).  A writer of a slot index entry waits *)
(* for the transaction that inserted or is releasing the same court-hour.   *)
(***************************************************************************)
EXTENDS Integers, FiniteSets, Sequences, SequencesExt

CONSTANTS
    Checkout, NoCheckout,
    Group,          \* ids of booking groups: numbers, in the order of insertion
    CheckoutOf,
    Hours,          \* the court-hours of a group, in order
    Request,        \* one handler run each
    Kind,           \* sync, cancel, desk or claim
    Subject,        \* the groups of a request, in the order the code visits them
    Notice          \* the webhook event of a sync: session and status

CheckoutRow(c) == <<"checkouts", c>>
GroupRow(g) == <<"booking_groups", g>>
PaymentRow(c) == <<"payments", c>>
SlotKey(x) == <<"uq_court_slot_active", x>>
EventKey(e) == <<"webhook_events_provider_event_id_key", e>>

\* The checkout of a request about one.
About(r) == CheckoutOf[Subject[r][1]]

ASSUME LockAssumption ==
    /\ Group \subseteq Nat /\ IsFiniteSet(Group) /\ NoCheckout \notin Checkout
    /\ CheckoutOf \in [Group -> Checkout \cup {NoCheckout}]
    /\ \A g \in Group : Hours[g] \in Seq(ToSet(Hours[g]))
    /\ Kind \in [Request -> {"sync", "cancel", "desk", "claim"}]
    /\ \A r \in Request :
          /\ Subject[r] \in Seq(Group) \ {<<>>}
          /\ Kind[r] \in {"sync", "cancel"} =>
                /\ About(r) \in Checkout
                /\ ToSet(Subject[r]) = {g \in Group : CheckoutOf[g] = About(r)}
                /\ \A i \in 2..Len(Subject[r]) : Subject[r][i - 1] < Subject[r][i]

VARIABLES
    booking_status,  \* committed; "absent" before a claim inserts the group
    verdict,         \* committed checkouts.status
    lapsed,          \* checkouts whose deadline has passed
    seen,            \* committed webhook events
    phase,           \* what a request is doing
    todo,            \* the statements it still has to run
    held,            \* the locks its transaction has: row, mode
    wrote            \* the statuses its transaction has written

committed == <<booking_status, verdict, seen>>
transaction == <<phase, todo, held, wrote>>
vars == <<committed, lapsed, transaction>>

\* COMPLETED stands for NO_SHOW too.
Occupying == {"PENDING", "CONFIRMED", "COMPLETED"}
BookingStatus == Occupying \cup {"absent", "CANCELLED", "EXPIRED"}
Verdict == {"PENDING", "SUCCESSFUL", "FAILED", "CANCELLED", "REFUNDED"}
Phase == {"idle", "locking", "flag", "declined", "backed out", "book", "lost", "undo",
          "cancel", "desk", "claim", "done"}

TypeOK ==
    /\ booking_status \in [Group -> BookingStatus]
    /\ verdict \in [Checkout -> Verdict]
    /\ lapsed \subseteq Checkout
    /\ seen \subseteq {Notice[r] : r \in Request}
    /\ phase \in [Request -> Phase]
    /\ \A r \in Request :
          /\ DOMAIN wrote[r] \subseteq Group
          /\ \A l \in held[r] : l[2] \in {"KEY SHARE", "NO KEY UPDATE", "UPDATE"}

\* A transaction sees what is committed and what it wrote itself.
View(r, g) == IF g \in DOMAIN wrote[r] THEN wrote[r][g] ELSE booking_status[g]

Sharing(g) == {h \in Group : ToSet(Hours[h]) \cap ToSet(Hours[g]) # {}}

Exclusive(st) ==
    \A g \in Group : \A h \in Sharing(g) \ {g} :
        {st[g], st[h]} \subseteq Occupying => FALSE

-----------------------------------------------------------------------------
(* Statements.                                                              *)

Lock(row, mode) == [do |-> "lock", row |-> row, mode |-> mode]

\* set_status: the group's row, then its slots.
Write(g, s) ==
    [do |-> "write", row |-> GroupRow(g), mode |-> "NO KEY UPDATE", group |-> g, to |-> s]

\* One entry of the slot index.
Key(g, x) == [do |-> "key", row |-> SlotKey(x), mode |-> "UPDATE", group |-> g]

Keys(g) == [i \in DOMAIN Hours[g] |-> Key(g, Hours[g][i])]

\* expire_lapsed: its SELECT, its UPDATE and the event of each swept hold.
Find(g) == [do |-> "find", group |-> g]

Sweep(h) ==
    [do |-> "sweep", row |-> GroupRow(h), mode |-> "NO KEY UPDATE", group |-> h, to |-> "EXPIRED"]

Log(h) ==
    [do |-> "log", row |-> CheckoutRow(CheckoutOf[h]), mode |-> "KEY SHARE", group |-> h]

\* record_event.
RecordEvent(e) == [do |-> "event", row |-> EventKey(e), mode |-> "UPDATE"]

EachGroup(r, program(_)) == FlattenSeq([i \in DOMAIN Subject[r] |-> program(Subject[r][i])])

\* The checkout, then its groups by id.
LockCheckout(r) ==
    <<Lock(CheckoutRow(About(r)), "UPDATE")>>
    \o EachGroup(r, LAMBDA g : <<Lock(GroupRow(g), "UPDATE")>>)

\* Mutant of SyncOpens: the payment is locked first.
PaymentFirst(r) ==
    <<RecordEvent(Notice[r]), Lock(PaymentRow(About(r)), "UPDATE")>> \o LockCheckout(r)

SyncOpens(r) ==
    <<RecordEvent(Notice[r])>> \o LockCheckout(r) \o <<Lock(PaymentRow(About(r)), "UPDATE")>>

\* Maya has answered the void or refund, or refused it: then staff are asked.
UndoFails(r) == LockCheckout(r)

UndoRuns(r) == LockCheckout(r) \o <<Lock(PaymentRow(About(r)), "NO KEY UPDATE")>>

CancelOpens(r) == <<Lock(CheckoutRow(About(r)), "UPDATE")>>

CancelRuns(r) ==
    EachGroup(r, LAMBDA g : <<Write(g, "CANCELLED")>>)
    \o <<Lock(PaymentRow(About(r)), "NO KEY UPDATE")>>

\* A walk-in or a closure; a new checkout runs the same for its PENDING
\* groups.  One flush inserts the group's row, then its slots: it can be
\* refused only at an index entry, and others see the group when it commits.
ClaimRuns(r) ==
    EachGroup(r, LAMBDA g : <<Find(g), Write(g, "CONFIRMED")>> \o Keys(g))

\* Mutant of LiveRuns: the loop over the groups ends after the first.
LiveRunsFirst(r) == <<Write(Subject[r][1], "CONFIRMED")>> \o Keys(Subject[r][1])

LiveRuns(r) == EachGroup(r, LAMBDA g : <<Write(g, "CONFIRMED")>> \o Keys(g))

LateRuns(r) == EachGroup(r, LAMBDA g : <<Find(g), Write(g, "CONFIRMED")>> \o Keys(g))

\* What is still PENDING of the checkout is written off.
EndHold(r, s) ==
    EachGroup(r, LAMBDA g : IF booking_status[g] = "PENDING" THEN <<Write(g, s)>> ELSE <<>>)

\* What the desk writes, then an event about the group and its checkout.
DeskRuns(r, program) ==
    LET c == CheckoutOf[Subject[r][1]] IN
    program \o (IF c = NoCheckout THEN <<>> ELSE <<Lock(CheckoutRow(c), "KEY SHARE")>>)

\* Holds, and cancelled holds whose page may still be paid; the groups of a
\* claim are new.  Every request is about to run its first statement.
Init ==
    /\ verdict \in [Checkout -> {"PENDING", "CANCELLED"}]
    /\ booking_status = [g \in Group |->
          IF CheckoutOf[g] = NoCheckout THEN "absent" ELSE verdict[CheckoutOf[g]]]
    /\ Exclusive(booking_status)
    /\ lapsed = {}
    /\ seen = {}
    /\ phase = [r \in Request |->
          CASE Kind[r] = "desk" -> "idle" [] Kind[r] = "claim" -> "claim" [] OTHER -> "locking"]
    /\ todo = [r \in Request |->
          CASE Kind[r] = "sync" -> SyncOpens(r)
            [] Kind[r] = "cancel" -> CancelOpens(r)
            [] Kind[r] = "claim" -> ClaimRuns(r)
            [] Kind[r] = "desk" -> <<>>]
    /\ held = [r \in Request |-> {}]
    /\ wrote = [r \in Request |-> <<>>]

-----------------------------------------------------------------------------
(* Postgres.                                                                *)

Conflict(m, n) == "UPDATE" \in {m, n} \/ {m, n} = {"NO KEY UPDATE"}

BlockedBy(r, q) ==
    /\ q # r /\ todo[r] # <<>> /\ Head(todo[r]).do # "find"
    /\ \E l \in held[q] :
          l[1] = Head(todo[r]).row /\ Conflict(l[2], Head(todo[r]).mode)

Deadlocked(W) == W # {} /\ \A r \in W : \E q \in W : BlockedBy(r, q)

Free(r) == \A q \in Request : ~BlockedBy(r, q)

\* Mutant of StillPending: the UPDATE does not re-check what the SELECT saw.
OncePending(r, g) == TRUE

StillPending(r, g) == View(r, g) = "PENDING"

\* A conditional statement whose row no longer qualifies, or the event of a
\* hold this transaction did not sweep.
Void(r, s) ==
    \/ s.do = "sweep" /\ ~StillPending(r, s.group)
    \/ s.do = "log" /\ s.group \notin DOMAIN wrote[r]

\* Mutant of Taken: an index over holds only.
TakenByHold(r, s) ==
    \/ s.do = "key" /\ \E h \in Group \ {s.group} :
          s.row[2] \in ToSet(Hours[h]) /\ View(r, h) = "PENDING"
    \/ s.do = "event" /\ Notice[r] \in seen

\* A unique index refuses the entry.
Taken(r, s) ==
    \/ s.do = "key" /\ \E h \in Group \ {s.group} :
          s.row[2] \in ToSet(Hours[h]) /\ View(r, h) \in Occupying
    \/ s.do = "event" /\ Notice[r] \in seen

\* What a statement locks; taking a group off the calendar also keeps its
\* hours from others until the end.
LocksOf(r, s) ==
    {<<s.row, s.mode>>} \cup
    (IF s.do \in {"write", "sweep"} /\ View(r, s.group) \in Occupying /\ s.to \notin Occupying
     THEN {<<SlotKey(x), "UPDATE">> : x \in ToSet(Hours[s.group])} ELSE {})

\* What a transaction has written once it has run s.
Written(w, s) ==
    IF s.do \in {"write", "sweep"}
    THEN [g \in DOMAIN w \cup {s.group} |-> IF g = s.group THEN s.to ELSE w[g]] ELSE w

Execute(r) ==
    LET s == Head(todo[r]) IN
    /\ todo[r] # <<>> /\ s.do # "find"
    /\ Free(r) /\ ~Void(r, s) /\ ~Taken(r, s)
    /\ todo' = [todo EXCEPT ![r] = Tail(@)]
    /\ held' = [held EXCEPT ![r] = @ \cup LocksOf(r, s)]
    /\ wrote' = [wrote EXCEPT ![r] = Written(@, s)]
    /\ UNCHANGED <<committed, lapsed, phase>>

Skip(r) ==
    /\ todo[r] # <<>> /\ Void(r, Head(todo[r]))
    /\ todo' = [todo EXCEPT ![r] = Tail(@)]
    /\ UNCHANGED <<committed, lapsed, phase, held, wrote>>

\* expire_lapsed's SELECT: the lapsed holds on the hours of g, swept in any
\* order, then logged in that order.
FindLapsed(r) ==
    LET g == Head(todo[r]).group
        found == {h \in Sharing(g) : View(r, h) = "PENDING" /\ CheckoutOf[h] \in lapsed}
    IN
    /\ todo[r] # <<>> /\ Head(todo[r]).do = "find"
    /\ \E q \in SetToSeqs(found) :
          todo' = [todo EXCEPT ![r] =
              [i \in DOMAIN q |-> Sweep(q[i])] \o [i \in DOMAIN q |-> Log(q[i])] \o Tail(@)]
    /\ UNCHANGED <<committed, lapsed, phase, held, wrote>>

End(r) ==
    /\ phase' = [phase EXCEPT ![r] = "done"]
    /\ todo' = [todo EXCEPT ![r] = <<>>]
    /\ held' = [held EXCEPT ![r] = {}]
    /\ wrote' = [wrote EXCEPT ![r] = <<>>]

\* An unhandled refusal by an index, or a notice processed before: nothing
\* is kept.
Refused(r) ==
    /\ todo[r] # <<>> /\ Taken(r, Head(todo[r])) /\ Free(r)
    /\ phase[r] # "book"
    /\ End(r)
    /\ UNCHANGED <<committed, lapsed>>

\* A late payment's hours are gone: back to its savepoint, and book nothing.
TakenBack(r) ==
    /\ todo[r] # <<>> /\ Taken(r, Head(todo[r])) /\ Free(r)
    /\ phase[r] = "book"
    /\ phase' = [phase EXCEPT ![r] = "lost"]
    /\ held' = [held EXCEPT ![r] =
          {<<s.row, s.mode>> : s \in ToSet(SyncOpens(r))}]
    /\ wrote' = [wrote EXCEPT ![r] = <<>>]
    /\ todo' = [todo EXCEPT ![r] = EndHold(r, "EXPIRED")]
    /\ UNCHANGED <<committed, lapsed>>

\* Postgres ends a deadlock by failing one of the waiters.
Victim(r) ==
    /\ ~Free(r)
    /\ \E W \in SUBSET Request : r \in W /\ Deadlocked(W)
    /\ End(r)
    /\ UNCHANGED <<committed, lapsed>>

-----------------------------------------------------------------------------
(* Requests.                                                                *)

Lapse(c) ==
    /\ c \notin lapsed
    /\ lapsed' = lapsed \cup {c}
    /\ UNCHANGED <<committed, transaction>>

Proceed(r, p, program) ==
    /\ phase' = [phase EXCEPT ![r] = p]
    /\ todo' = [todo EXCEPT ![r] = program]
    /\ UNCHANGED <<committed, lapsed, held, wrote>>

\* cancel_by_staff and set_outcome read the booking, unlocked, and allow a
\* confirmed one; mark_paid and resolve write no booking_status.
DeskReads(r) ==
    LET g == Subject[r][1] IN
    /\ phase[r] = "idle"
    /\ \/ /\ booking_status[g] = "CONFIRMED"
          /\ \/ Proceed(r, "desk", DeskRuns(r, <<Write(g, "CANCELLED")>>))
             \/ Proceed(r, "desk", DeskRuns(r, <<Write(g, "COMPLETED")>> \o Keys(g)))
       \/ Proceed(r, "desk", DeskRuns(r, <<Lock(GroupRow(g), "NO KEY UPDATE")>>))

\* With the checkout, its groups and the payment locked, _apply decides.
Decide(r) ==
    LET c == About(r) IN
    /\ phase[r] = "locking" /\ todo[r] = <<>> /\ Kind[r] = "sync"
    /\ \/ Proceed(r, "flag", <<>>)
       \/ verdict[c] = "PENDING" /\ Proceed(r, "declined", EndHold(r, "CANCELLED"))
       \/ /\ verdict[c] = "PENDING"
          /\ Proceed(r, "backed out", EndHold(r, IF c \in lapsed THEN "EXPIRED" ELSE "CANCELLED"))
       \/ verdict[c] = "PENDING" /\ c \notin lapsed /\ Proceed(r, "book", LiveRuns(r))
       \/ /\ verdict[c] = "CANCELLED" \/ (verdict[c] = "PENDING" /\ c \in lapsed)
          /\ Proceed(r, "book", LateRuns(r)) \/ Proceed(r, "lost", EndHold(r, "EXPIRED"))

\* cancel reads the checkout again under its lock; its clock may be old, so
\* a hold that lapsed meanwhile may still count as live.
DecideCancel(r) ==
    /\ phase[r] = "locking" /\ todo[r] = <<>> /\ Kind[r] = "cancel"
    /\ \/ verdict[About(r)] = "PENDING" /\ Proceed(r, "cancel", CancelRuns(r))
       \/ /\ verdict[About(r)] # "PENDING" \/ About(r) \in lapsed
          /\ End(r)
          /\ UNCHANGED <<committed, lapsed>>

\* Mutant of VerdictAfter: the checkout takes its groups' status.
VerdictOfGroups(r) ==
    CASE phase[r] = "book" -> "CONFIRMED"
      [] phase[r] = "lost" -> "EXPIRED"
      [] OTHER -> "CANCELLED"

VerdictAfter(r) ==
    CASE phase[r] = "book" -> "SUCCESSFUL"
      [] phase[r] = "declined" -> "FAILED"
      [] phase[r] = "undo" -> "REFUNDED"
      [] phase[r] \in {"backed out", "cancel", "lost"} -> "CANCELLED"

Commit(r) ==
    /\ phase[r] \notin {"idle", "locking", "done"} /\ todo[r] = <<>>
    /\ booking_status' = [g \in Group |-> View(r, g)]
    /\ verdict' = IF phase[r] \in {"flag", "desk", "claim"} THEN verdict
                  ELSE [verdict EXCEPT ![About(r)] = VerdictAfter(r)]
    /\ seen' = IF Kind[r] = "sync" THEN seen \cup {Notice[r]} ELSE seen
    /\ IF phase[r] = "lost"
       THEN /\ \/ /\ phase' = [phase EXCEPT ![r] = "undo"]
                  /\ todo' = [todo EXCEPT ![r] = UndoRuns(r)]
               \/ /\ phase' = [phase EXCEPT ![r] = "flag"]
                  /\ todo' = [todo EXCEPT ![r] = UndoFails(r)]
            /\ held' = [held EXCEPT ![r] = {}]
            /\ wrote' = [wrote EXCEPT ![r] = <<>>]
       ELSE End(r)
    /\ UNCHANGED lapsed

Next ==
    \/ \E c \in Checkout : Lapse(c)
    \/ \E r \in Request :
          \/ DeskReads(r) \/ Execute(r) \/ Skip(r) \/ FindLapsed(r) \/ Refused(r) \/ TakenBack(r)
          \/ Victim(r) \/ Decide(r) \/ DecideCancel(r) \/ Commit(r)

Spec == Init /\ [][Next]_vars

-----------------------------------------------------------------------------
\* Statement by statement too, no court-hour is sold twice.
HoursExclusive == Exclusive(booking_status)

\* The writers of one checkout keep one lock order: by themselves they never
\* wait for each other in a circle.
OneLockOrder ==
    \A c \in Checkout :
        \A W \in SUBSET {r \in Request : Kind[r] \in {"sync", "cancel"} /\ About(r) = c} :
            ~Deadlocked(W)

\* A sweep found a lapsed hold, waited, and must not expire what was paid,
\* cancelled or swept meanwhile: only a hold is ever expired.
OnlyHoldsExpire ==
    [][\A g \in Group :
          booking_status'[g] = "EXPIRED" => booking_status[g] \in {"PENDING", "EXPIRED"}]_vars

\* A verdict of SUCCESSFUL and every court of the checkout commit together.
BookedTogether ==
    [][\A c \in Checkout : verdict[c] # "SUCCESSFUL" /\ verdict'[c] = "SUCCESSFUL" =>
          \A g \in Group : CheckoutOf[g] = c => booking_status'[g] = "CONFIRMED"]_vars

\* "so no two paths deadlock" (payments/persistence/repository.py:69).
NoTwoPathsDeadlock == \A W \in SUBSET Request : ~Deadlocked(W)
=============================================================================
