-------------------------- MODULE LockOrder_proofs --------------------------
(***************************************************************************)
(* Theorems about LockOrder: that its writers, statement by statement,      *)
(* never sell a court-hour twice, expire only holds, commit a payment and   *)
(* its courts together, and keep one lock order per checkout.               *)
(*                                                                         *)
(* The inductive invariant says what a transaction may count on between two *)
(* statements: which rows its writes have locked (Locked), that no two      *)
(* transactions hold conflicting locks (Disjoint), and that whoever has     *)
(* written a group on the calendar has the entries of its hours, or is      *)
(* still to ask for them (Entered).  What a transaction needs of the        *)
(* others is read from the locks alone.                                     *)
(***************************************************************************)
EXTENDS LockOrder, FiniteSetTheorems, SequenceTheorems, WellFoundedInduction, TLAPS

Mode == {"KEY SHARE", "NO KEY UPDATE", "UPDATE"}
Strong == {"NO KEY UPDATE", "UPDATE"}
OffCalendar == {"CANCELLED", "EXPIRED"}
Outcome == OffCalendar \cup {"CONFIRMED", "COMPLETED"}

Row ==
    {CheckoutRow(c) : c \in Checkout \cup {NoCheckout}} \cup {GroupRow(g) : g \in Group}
    \cup {PaymentRow(c) : c \in Checkout}

\* Every statement a request may run.
Statement ==
    UNION {
        {Lock(p[1], p[2]) : p \in Row \X Mode},
        {Write(p[1], p[2]) : p \in Group \X Outcome},
        UNION {{Key(g, x) : x \in ToSet(Hours[g])} : g \in Group},
        {Find(g) : g \in Group},
        {Sweep(g) : g \in Group},
        {Log(g) : g \in Group},
        {RecordEvent(Notice[r]) : r \in Request}}

\* The checkout of a request is one, its groups and payment are locked.
SyncLocks(r) == {<<s.row, s.mode>> : s \in ToSet(SyncOpens(r))}

\* The parts of the invariant are about one request: st the committed
\* statuses, p, t, h, w its phase, its statements to come, its locks and
\* what it wrote.
ViewOf(st, w, g) == IF g \in DOMAIN w THEN w[g] ELSE st[g]

Holds(h, row) == \E l \in h : l[1] = row
HoldsStrongly(h, row) == \E l \in h : l[1] = row /\ l[2] \in Strong

\* The statements are of the kinds the phase runs.
Kinds(t, dos) == \A s \in ToSet(t) : s.do \in dos

Writes(t, w, to) ==
    /\ \A s \in ToSet(t) : s.do = "write" => s.to \in to
    /\ \A g \in DOMAIN w : w[g] \in to

PhaseOf(r, p) ==
    CASE p \in {"declined", "backed out", "book", "lost", "undo", "flag"} -> Kind[r] = "sync"
      [] p = "cancel" -> Kind[r] = "cancel"
      [] p = "locking" -> Kind[r] \in {"sync", "cancel"}
      [] p \in {"idle", "desk"} -> Kind[r] = "desk"
      [] p = "claim" -> Kind[r] = "claim"
      [] p = "done" -> TRUE

Coded(r, p, t, h, w) ==
    /\ t \in Seq(Statement)
    /\ DOMAIN w \subseteq Group /\ \A g \in DOMAIN w : w[g] \in Outcome
    /\ \A l \in h : l[2] \in Mode
    /\ PhaseOf(r, p)
    /\ p \in {"idle", "done"} => t = <<>> /\ h = {} /\ w = <<>>
    /\ p \in {"locking", "flag", "undo"} => Kinds(t, {"lock", "event"}) /\ w = <<>>
    /\ p \in {"declined", "backed out", "lost", "cancel"} =>
          Kinds(t, {"lock", "write"}) /\ Writes(t, w, OffCalendar)
    /\ p \in {"book", "claim"} =>
          /\ Kinds(t, {"find", "write", "key", "sweep", "log"})
          /\ \A s \in ToSet(t) : s.do = "write" => s.to = "CONFIRMED"
          /\ \A g \in DOMAIN w : w[g] \in {"CONFIRMED", "EXPIRED"}
    /\ p = "desk" =>
          /\ Kinds(t, {"lock", "write", "key"})
          /\ Writes(t, w, {"CANCELLED"}) \/ Writes(t, w, {"COMPLETED"})

\* What is written is locked.
Locked(h, w) == \A g \in DOMAIN w : HoldsStrongly(h, GroupRow(g))

\* The entry of g at x is asked for by one of the statements.
Coming(t, g, x) == \E s \in ToSet(t) : s.do = "key" /\ s.group = g /\ s.row = SlotKey(x)

\* A write onto the calendar is followed by the entries of its hours, and
\* an entry is asked for once its group is written.
Followed(t) ==
    \A i \in DOMAIN t : t[i].do = "write" /\ t[i].to \in Occupying =>
        \A x \in ToSet(Hours[t[i].group]) :
            \E j \in DOMAIN t :
                j > i /\ t[j].do = "key" /\ t[j].group = t[i].group /\ t[j].row = SlotKey(x)

Preceded(t, w) ==
    \A i \in DOMAIN t : t[i].do = "key" =>
        \/ t[i].group \in DOMAIN w
        \/ \E j \in DOMAIN t : j < i /\ t[j].do = "write" /\ t[j].group = t[i].group

\* What is written on the calendar has its entries, or will ask for them.
Entered(t, h, w) ==
    \A g \in DOMAIN w : w[g] \in Occupying =>
        \A x \in ToSet(Hours[g]) : <<SlotKey(x), "UPDATE">> \in h \/ Coming(t, g, x)

\* Of two groups on the calendar at one hour, one is still to be refused.
Apart(st, t, w) ==
    \A f, g \in Group : \A x \in ToSet(Hours[f]) \cap ToSet(Hours[g]) :
        f # g /\ ViewOf(st, w, f) \in Occupying /\ ViewOf(st, w, g) \in Occupying =>
            Coming(t, f, x) \/ Coming(t, g, x)

\* Who has the entry of an hour has written every group that occupies it.
Owned(st, h, w) ==
    \A g \in Group : \A x \in ToSet(Hours[g]) :
        Holds(h, SlotKey(x)) /\ st[g] \in Occupying => g \in DOMAIN w

\* _apply has what it locked.
Opened(r, p, t, h) ==
    /\ p = "locking" /\ Kind[r] = "sync" =>
          \A s \in ToSet(SyncOpens(r)) : <<s.row, s.mode>> \in h \/ s \in ToSet(t)
    /\ p \in {"declined", "backed out", "book", "lost"} => SyncLocks(r) \subseteq h

\* Only holds are being expired.
Expiring(st, t, h, w) ==
    /\ \A g \in DOMAIN w : w[g] = "EXPIRED" => st[g] = "PENDING"
    /\ \A s \in ToSet(t) : s.do = "write" /\ s.to = "EXPIRED" =>
          st[s.group] = "PENDING" /\ HoldsStrongly(h, GroupRow(s.group))

\* What is paid for is booked, or about to be.
Booking(r, p, t, w) ==
    p = "book" => \A g \in ToSet(Subject[r]) :
        \/ g \in DOMAIN w /\ w[g] = "CONFIRMED"
        \/ \E s \in ToSet(t) : s.do = "write" /\ s.group = g /\ s.to = "CONFIRMED"

\* A writer of a checkout starts with its event, then the checkout's row.
NoEvents(t) == \A i \in DOMAIN t : t[i].do # "event"
OpensCheckout(r, t) == t # <<>> /\ Head(t) = Lock(CheckoutRow(About(r)), "UPDATE") /\ NoEvents(t)

Ordered(r, p, t, h) ==
    Kind[r] \in {"sync", "cancel"} =>
        \/ <<CheckoutRow(About(r)), "UPDATE">> \in h /\ NoEvents(t)
        \/ OpensCheckout(r, t) /\ \A l \in h : l[1] = EventKey(Notice[r])
        \/ /\ h = {} /\ t # <<>> /\ Head(t) = RecordEvent(Notice[r])
           /\ OpensCheckout(r, Tail(t))
        \/ h = {} /\ t = <<>> /\ p = "done"

Sound(r, st, p, t, h, w) ==
    /\ Coded(r, p, t, h, w)
    /\ Locked(h, w)
    /\ Followed(t) /\ Preceded(t, w)
    /\ Entered(t, h, w)
    /\ Apart(st, t, w)
    /\ Owned(st, h, w)
    /\ Opened(r, p, t, h)
    /\ Expiring(st, t, h, w)
    /\ Booking(r, p, t, w)
    /\ Ordered(r, p, t, h)

\* No two transactions have conflicting locks.
Compatible(h, k) == \A l \in h : \A m \in k : l[1] = m[1] => ~ Conflict(l[2], m[2])
Disjoint == \A r \in Request : \A q \in Request \ {r} : Compatible(held[r], held[q])

PerRequest(f) == f = [r \in Request |-> f[r]]

LockInv ==
    /\ TypeOK
    /\ PerRequest(todo) /\ PerRequest(held) /\ PerRequest(wrote)
    /\ Exclusive(booking_status)
    /\ Disjoint
    /\ \A r \in Request : Sound(r, booking_status, phase[r], todo[r], held[r], wrote[r])

-----------------------------------------------------------------------------
(* Programs in sequence.                                                    *)

\* A set of numbers has a least one.
LEMMA Least ==
    ASSUME NEW T \in SUBSET Nat, T # {}
    PROVE  \E k \in T : \A m \in T : k =< m
<1> DEFINE R == {ss \in Nat \X Nat : ss[1] < ss[2]}
<1>1. IsWellFoundedOn(R, Nat)
  BY NatLessThanWellFounded DEF OpToRel
<1>2. PICK k \in T : \A m \in T : ~ (<<m, k>> \in R)
  <2> HIDE DEF R
  <2> QED BY <1>1, WFMin
<1>3. ASSUME NEW m \in T PROVE k =< m
  <2>1. <<m, k>> \in Nat \X Nat /\ <<m, k>>[1] = m /\ <<m, k>>[2] = k
    OBVIOUS
  <2>2. ~ (m < k)
    BY <1>2, <2>1
  <2> QED BY <2>2
<1> QED BY <1>3

\* The statements of s stand in t from o on.
At(s, t, o) == \A j \in DOMAIN s : o + j \in DOMAIN t /\ t[o + j] = s[j]

\* t is made of the first k programs, one after the other.
MadeOf(ss, k, t) ==
    /\ \A b \in 1..k : \E o \in Nat : At(ss[b], t, o)
    /\ \A p \in DOMAIN t : \E b \in 1..k : \E o \in Nat :
          At(ss[b], t, o) /\ \E j \in DOMAIN ss[b] : p = o + j

Flattened(ss, k, f) == f = [i \in 1..k |-> IF i = 1 THEN ss[i] ELSE f[i - 1] \o ss[i]]

\* The recursion of FlattenSeq has a solution.
LEMMA FlattenedExists ==
    ASSUME NEW ss, NEW n \in Nat \ {0}
    PROVE  \E f : Flattened(ss, n, f)
<1> DEFINE T == {k \in Nat \ {0} : ~ \E f : Flattened(ss, k, f)}
<1>1. CASE T = {}
  BY <1>1
<1>2. CASE T # {}
  <2>1. PICK k \in T : \A m \in T : k =< m
    <3> T \in SUBSET Nat OBVIOUS
    <3> HIDE DEF T
    <3> QED BY <1>2, Least
  <2>2. k # 1
    <3>1. Flattened(ss, 1, [i \in 1..1 |-> ss[i]])
      BY DEF Flattened
    <3> QED BY <3>1, <2>1
  <2>3. k - 1 \in Nat \ {0} /\ k - 1 \notin T
    BY <2>1, <2>2
  <2>4. PICK f : Flattened(ss, k - 1, f)
    BY <2>3
  <2> DEFINE g == [i \in 1..k |-> IF i = k THEN f[k - 1] \o ss[k] ELSE f[i]]
  <2>5. \A i \in 1..k : g[i] = IF i = k THEN f[k - 1] \o ss[k] ELSE f[i]
    OBVIOUS
  <2>6. \A i \in 1..(k - 1) : f[i] = IF i = 1 THEN ss[i] ELSE f[i - 1] \o ss[i]
    BY <2>4 DEF Flattened
  <2>7. ASSUME NEW i \in 1..k
        PROVE  g[i] = IF i = 1 THEN ss[i] ELSE g[i - 1] \o ss[i]
    <3>1. CASE i = k
      <4>1. k - 1 \in 1..k /\ k - 1 # k
        BY <2>1, <2>3
      <4>2. g[k - 1] = f[k - 1]
        BY <4>1, <2>5
      <4> QED BY <4>2, <3>1, <2>2, <2>5
    <3>2. CASE i # k /\ i = 1
      <4>1. i \in 1..(k - 1)
        BY <3>2, <2>1
      <4> QED BY <4>1, <3>2, <2>5, <2>6
    <3>3. CASE i # k /\ i # 1
      <4>1. i \in 1..(k - 1) /\ i - 1 \in 1..k /\ i - 1 # k
        BY <3>3, <2>1
      <4>2. g[i - 1] = f[i - 1]
        BY <4>1, <2>5
      <4> QED BY <4>1, <4>2, <3>3, <2>5, <2>6
    <3> QED BY <3>1, <3>2, <3>3
  <2>8. g = [i \in 1..k |-> IF i = 1 THEN ss[i] ELSE g[i - 1] \o ss[i]]
    <3>1. g = [i \in 1..k |-> g[i]]
      OBVIOUS
    <3> HIDE DEF g
    <3> QED BY <3>1, <2>7
  <2> HIDE DEF g
  <2>9. Flattened(ss, k, g)
    BY <2>8 DEF Flattened
  <2> QED BY <2>9, <2>1
<1> QED BY <1>1, <1>2

\* Where a program stands in t, it stands in t followed by another one.
LEMMA AtConcat ==
    ASSUME NEW S, NEW s \in Seq(S), NEW t \in Seq(S), NEW u \in Seq(S), NEW o \in Nat
    PROVE  /\ At(s, t, o) => At(s, t \o u, o)
           /\ At(u, t \o u, Len(t))
<1>1. /\ DOMAIN t = 1..Len(t) /\ DOMAIN u = 1..Len(u) /\ DOMAIN s = 1..Len(s)
      /\ Len(t) \in Nat /\ Len(u) \in Nat /\ Len(s) \in Nat
      /\ DOMAIN (t \o u) = 1..(Len(t) + Len(u))
  OBVIOUS
<1>2. \A i \in 1..Len(t) : (t \o u)[i] = t[i]
  OBVIOUS
<1>3. \A i \in 1..Len(u) : (t \o u)[Len(t) + i] = u[i]
  OBVIOUS
<1>4. ASSUME At(s, t, o) PROVE At(s, t \o u, o)
  <2>1. ASSUME NEW j \in DOMAIN s
        PROVE  o + j \in DOMAIN (t \o u) /\ (t \o u)[o + j] = s[j]
    <3>1. o + j \in DOMAIN t /\ t[o + j] = s[j]
      BY <1>4 DEF At
    <3> QED BY <3>1, <1>1, <1>2
  <2> QED BY <2>1 DEF At
<1>5. At(u, t \o u, Len(t))
  BY <1>1, <1>3 DEF At
<1> QED BY <1>4, <1>5

\* One program more.
LEMMA MadeOfConcat ==
    ASSUME NEW S, NEW ss, NEW k \in Nat, NEW t \in Seq(S), MadeOf(ss, k, t),
           \A b \in 1..(k + 1) : ss[b] \in Seq(S)
    PROVE  MadeOf(ss, k + 1, t \o ss[k + 1])
<1> DEFINE u == ss[k + 1]
<1>1. u \in Seq(S) /\ k + 1 \in 1..(k + 1)
  OBVIOUS
<1>2. ASSUME NEW b \in 1..k, NEW o \in Nat, At(ss[b], t, o)
      PROVE  b \in 1..(k + 1) /\ At(ss[b], t \o u, o)
  <2>1. b \in 1..(k + 1) /\ ss[b] \in Seq(S)
    OBVIOUS
  <2> HIDE DEF u
  <2> QED BY <2>1, <1>1, <1>2, AtConcat
<1>3. At(u, t \o u, Len(t)) /\ Len(t) \in Nat
  <2> HIDE DEF u
  <2> QED BY <1>1, AtConcat
<1>4. ASSUME NEW b \in 1..(k + 1)
      PROVE  \E o \in Nat : At(ss[b], t \o u, o)
  <2>1. CASE b = k + 1
    BY <2>1, <1>3
  <2>2. CASE b # k + 1
    <3>1. b \in 1..k
      BY <2>2
    <3>2. PICK o \in Nat : At(ss[b], t, o)
      BY <3>1 DEF MadeOf
    <3> QED BY <3>1, <3>2, <1>2
  <2> QED BY <2>1, <2>2
<1>5. ASSUME NEW p \in DOMAIN (t \o u)
      PROVE  \E b \in 1..(k + 1) : \E o \in Nat :
                At(ss[b], t \o u, o) /\ \E j \in DOMAIN ss[b] : p = o + j
  <2>1. /\ DOMAIN t = 1..Len(t) /\ DOMAIN u = 1..Len(u)
        /\ p \in 1..(Len(t) + Len(u)) /\ Len(u) \in Nat
    <3> HIDE DEF u
    <3> QED BY <1>1
  <2>2. CASE p \in DOMAIN t
    <3>1. PICK b \in 1..k, o \in Nat : At(ss[b], t, o) /\ \E j \in DOMAIN ss[b] : p = o + j
      BY <2>2 DEF MadeOf
    <3> QED BY <3>1, <1>2
  <2>3. CASE p \notin DOMAIN t
    <3>1. p - Len(t) \in DOMAIN u /\ p = Len(t) + (p - Len(t))
      BY <2>1, <2>3, <1>3
    <3> QED BY <3>1, <1>3, <1>1
  <2> QED BY <2>2, <2>3
<1> QED BY <1>4, <1>5 DEF MadeOf

\* FlattenSeq runs its programs one after the other.
LEMMA FlattenMadeOf ==
    ASSUME NEW S, NEW n \in Nat \ {0}, NEW ss \in [1..n -> Seq(S)]
    PROVE  FlattenSeq(ss) \in Seq(S) /\ MadeOf(ss, n, FlattenSeq(ss))
<1>1. Len(ss) = n /\ n # 0
  OBVIOUS
<1> DEFINE f == CHOOSE g : Flattened(ss, n, g)
<1>2. FlattenSeq(ss) = f[n]
  BY <1>1 DEF FlattenSeq, Flattened
<1>3. Flattened(ss, n, f)
  BY FlattenedExists
<1> HIDE DEF f
<1>4. \A i \in 1..n : f[i] = IF i = 1 THEN ss[i] ELSE f[i - 1] \o ss[i]
  BY <1>3 DEF Flattened
<1> DEFINE T == {k \in 1..n : ~ (f[k] \in Seq(S) /\ MadeOf(ss, k, f[k]))}
<1>5. CASE T = {}
  <2>1. n \notin T
    <3> HIDE DEF T
    <3> QED BY <1>5
  <2>2. n \in 1..n
    OBVIOUS
  <2>3. f[n] \in Seq(S) /\ MadeOf(ss, n, f[n])
    BY <2>1, <2>2
  <2> QED BY <2>3, <1>2
<1>6. CASE T # {}
  <2>1. PICK k \in T : \A m \in T : k =< m
    <3> T \in SUBSET Nat OBVIOUS
    <3> HIDE DEF T
    <3> QED BY <1>6, Least
  <2>2. CASE k = 1
    <3>1. f[1] = ss[1] /\ ss[1] \in Seq(S) /\ 1 \in 1..n
      BY <1>4
    <3>2. At(ss[1], ss[1], 0)
      BY <3>1 DEF At
    <3>3. \A p \in DOMAIN ss[1] : p = 0 + p
      BY <3>1
    <3>4. MadeOf(ss, 1, ss[1])
      BY <3>2, <3>3 DEF MadeOf
    <3> QED BY <3>1, <3>4, <2>1, <2>2
  <2>3. CASE k # 1
    <3>1. k - 1 \in 1..n /\ k - 1 \notin T /\ k \in 1..n /\ k - 1 \in Nat /\ (k - 1) + 1 = k
      BY <2>1, <2>3
    <3>2. f[k - 1] \in Seq(S) /\ MadeOf(ss, k - 1, f[k - 1])
      BY <3>1
    <3>3. f[k] = f[k - 1] \o ss[k]
      BY <1>4, <2>3, <3>1
    <3>4. \A b \in 1..((k - 1) + 1) : ss[b] \in Seq(S)
      BY <3>1
    <3>5. MadeOf(ss, (k - 1) + 1, f[k - 1] \o ss[(k - 1) + 1])
      BY ONLY <3>1, <3>2, <3>4, MadeOfConcat
    <3>6. f[k] \in Seq(S)
      BY <3>1, <3>2, <3>3, <3>4
    <3> QED BY <3>1, <3>3, <3>5, <3>6, <2>1
  <2> QED BY <2>2, <2>3
<1> QED BY <1>5, <1>6


-----------------------------------------------------------------------------
(* Statements.                                                              *)

\* The rows of different tables differ.
LEMMA RowsDiffer ==
    /\ \A c, x : CheckoutRow(c) # SlotKey(x)
    /\ \A g, x : GroupRow(g) # SlotKey(x)
    /\ \A c, x : PaymentRow(c) # SlotKey(x)
    /\ \A e, x : EventKey(e) # SlotKey(x)
    /\ \A e, c : EventKey(e) # CheckoutRow(c)
    /\ \A x, y : SlotKey(x) = SlotKey(y) => x = y
    /\ \A g, f : GroupRow(g) = GroupRow(f) => g = f
<1>1. /\ \A c : CheckoutRow(c)[1] = "checkouts"
      /\ \A g : GroupRow(g)[1] = "booking_groups" /\ GroupRow(g)[2] = g
      /\ \A c : PaymentRow(c)[1] = "payments"
      /\ \A e : EventKey(e)[1] = "webhook_events_provider_event_id_key"
      /\ \A x : SlotKey(x)[1] = "uq_court_slot_active" /\ SlotKey(x)[2] = x
  BY DEF CheckoutRow, GroupRow, PaymentRow, SlotKey, EventKey
<1>2. /\ "checkouts" # "uq_court_slot_active"
      /\ "booking_groups" # "uq_court_slot_active"
      /\ "payments" # "uq_court_slot_active"
      /\ "webhook_events_provider_event_id_key" # "uq_court_slot_active"
      /\ "webhook_events_provider_event_id_key" # "checkouts"
  OBVIOUS
<1>3. /\ \A c, x : CheckoutRow(c) # SlotKey(x)
      /\ \A g, x : GroupRow(g) # SlotKey(x)
      /\ \A c, x : PaymentRow(c) # SlotKey(x)
  BY <1>1, <1>2
<1>4. /\ \A e, x : EventKey(e) # SlotKey(x)
      /\ \A e, c : EventKey(e) # CheckoutRow(c)
  BY <1>1, <1>2
<1>5. /\ \A x, y : SlotKey(x) = SlotKey(y) => x = y
      /\ \A g, f : GroupRow(g) = GroupRow(f) => g = f
  BY <1>1
<1> QED BY <1>3, <1>4, <1>5

\* What a statement of each kind carries.
Fits(s) ==
    /\ s.do \in {"lock", "write", "key", "find", "sweep", "log", "event"}
    /\ s.do # "find" => s.mode \in Mode
    /\ s.do \in {"write", "sweep"} =>
         /\ s.group \in Group /\ s.row = GroupRow(s.group)
         /\ s.mode = "NO KEY UPDATE" /\ s.to \in Outcome
    /\ s.do = "sweep" => s.to = "EXPIRED"
    /\ s.do = "key" =>
         /\ s.group \in Group /\ s.mode = "UPDATE"
         /\ \E x \in ToSet(Hours[s.group]) : s.row = SlotKey(x)
    /\ s.do \in {"find", "log"} => s.group \in Group
    /\ s.do = "event" => s.mode = "UPDATE"
    /\ s.do \notin {"find", "key"} => \A x : s.row # SlotKey(x)

LEMMA StatementFits ==
    ASSUME NEW s \in Statement
    PROVE  Fits(s)
<1>1. ASSUME NEW row \in Row, NEW m \in Mode, s = Lock(row, m) PROVE Fits(s)
  <2>1. s.do = "lock" /\ s.mode = m /\ \A x : s.row # SlotKey(x)
    BY <1>1, RowsDiffer DEF Lock, Row
  <2> QED BY <2>1 DEF Fits
<1>2. ASSUME NEW g \in Group, NEW to \in Outcome, s = Write(g, to) PROVE Fits(s)
  <2>1. /\ s.do = "write" /\ s.mode = "NO KEY UPDATE" /\ s.row = GroupRow(g)
        /\ s.group = g /\ s.to = to
    BY <1>2 DEF Write
  <2>2. \A x : s.row # SlotKey(x)
    BY <2>1, RowsDiffer
  <2> QED BY <2>1, <2>2 DEF Fits, Mode
<1>3. ASSUME NEW g \in Group, NEW x \in ToSet(Hours[g]), s = Key(g, x) PROVE Fits(s)
  <2>1. s.do = "key" /\ s.mode = "UPDATE" /\ s.row = SlotKey(x) /\ s.group = g
    BY <1>3 DEF Key
  <2> QED BY <2>1 DEF Fits, Mode
<1>4. ASSUME NEW g \in Group, s = Find(g) PROVE Fits(s)
  <2>1. s.do = "find" /\ s.group = g
    BY <1>4 DEF Find
  <2> QED BY <2>1 DEF Fits
<1>5. ASSUME NEW g \in Group, s = Sweep(g) PROVE Fits(s)
  <2>1. /\ s.do = "sweep" /\ s.mode = "NO KEY UPDATE" /\ s.row = GroupRow(g)
        /\ s.group = g /\ s.to = "EXPIRED"
    BY <1>5 DEF Sweep
  <2>2. \A x : s.row # SlotKey(x)
    BY <2>1, RowsDiffer
  <2> QED BY <2>1, <2>2 DEF Fits, Mode, Outcome, OffCalendar
<1>6. ASSUME NEW g \in Group, s = Log(g) PROVE Fits(s)
  <2>1. /\ s.do = "log" /\ s.mode = "KEY SHARE" /\ s.group = g
        /\ s.row = CheckoutRow(CheckoutOf[g])
    BY <1>6 DEF Log
  <2>2. \A x : s.row # SlotKey(x)
    BY <2>1, RowsDiffer
  <2> QED BY <2>1, <2>2 DEF Fits, Mode
<1>7. ASSUME NEW r \in Request, s = RecordEvent(Notice[r]) PROVE Fits(s)
  <2>1. s.do = "event" /\ s.mode = "UPDATE" /\ s.row = EventKey(Notice[r])
    BY <1>7 DEF RecordEvent
  <2>2. \A x : s.row # SlotKey(x)
    BY <2>1, RowsDiffer
  <2> QED BY <2>1, <2>2 DEF Fits, Mode
<1> QED BY <1>1, <1>2, <1>3, <1>4, <1>5, <1>6, <1>7 DEF Statement

\* Every statement is one of those.
LEMMA Statements ==
    /\ \A row \in Row, m \in Mode : Lock(row, m) \in Statement
    /\ \A g \in Group, to \in Outcome : Write(g, to) \in Statement
    /\ \A g \in Group : \A x \in ToSet(Hours[g]) : Key(g, x) \in Statement
    /\ \A g \in Group : {Find(g), Sweep(g), Log(g)} \subseteq Statement
    /\ \A r \in Request : RecordEvent(Notice[r]) \in Statement
<1>1. ASSUME NEW row \in Row, NEW m \in Mode PROVE Lock(row, m) \in Statement
  <2>1. <<row, m>> \in Row \X Mode /\ <<row, m>>[1] = row /\ <<row, m>>[2] = m
    OBVIOUS
  <2>2. Lock(<<row, m>>[1], <<row, m>>[2]) \in {Lock(p[1], p[2]) : p \in Row \X Mode}
    BY <2>1
  <2> QED BY <2>1, <2>2 DEF Statement
<1>2. ASSUME NEW g \in Group, NEW to \in Outcome PROVE Write(g, to) \in Statement
  <2>1. <<g, to>> \in Group \X Outcome /\ <<g, to>>[1] = g /\ <<g, to>>[2] = to
    OBVIOUS
  <2>2. Write(<<g, to>>[1], <<g, to>>[2]) \in {Write(p[1], p[2]) : p \in Group \X Outcome}
    BY <2>1
  <2> QED BY <2>1, <2>2 DEF Statement
<1>3. \A g \in Group : \A x \in ToSet(Hours[g]) : Key(g, x) \in Statement
  BY DEF Statement
<1>4. \A g \in Group : {Find(g), Sweep(g), Log(g)} \subseteq Statement
  BY DEF Statement
<1>5. \A r \in Request : RecordEvent(Notice[r]) \in Statement
  BY DEF Statement
<1> QED BY <1>1, <1>2, <1>3, <1>4, <1>5

LEMMA FlattenStatements ==
    ASSUME NEW n \in Nat \ {0}, NEW ss \in [1..n -> Seq(Statement)]
    PROVE  ToSet(FlattenSeq(ss)) = UNION {ToSet(ss[b]) : b \in 1..n}
<1> DEFINE t == FlattenSeq(ss)
<1>1. MadeOf(ss, n, t)
  BY FlattenMadeOf
<1> HIDE DEF t
<1>2. ASSUME NEW s \in ToSet(t) PROVE \E b \in 1..n : s \in ToSet(ss[b])
  <2>1. PICK p \in DOMAIN t : s = t[p]
    BY DEF ToSet
  <2>2. PICK b \in 1..n, o \in Nat : At(ss[b], t, o) /\ \E j \in DOMAIN ss[b] : p = o + j
    BY <1>1 DEF MadeOf
  <2>3. PICK j \in DOMAIN ss[b] : p = o + j
    BY <2>2
  <2>4. t[o + j] = ss[b][j]
    BY <2>2 DEF At
  <2> QED BY <2>1, <2>3, <2>4 DEF ToSet
<1>3. ASSUME NEW b \in 1..n, NEW s \in ToSet(ss[b]) PROVE s \in ToSet(t)
  BY <1>1 DEF ToSet, MadeOf, At
<1> QED BY <1>2, <1>3 DEF t

\* What holds within each program holds of all of them in sequence.
LEMMA FlattenFollows ==
    ASSUME NEW n \in Nat \ {0}, NEW ss \in [1..n -> Seq(Statement)],
           \A b \in 1..n : Followed(ss[b]) /\ Preceded(ss[b], <<>>)
    PROVE  Followed(FlattenSeq(ss)) /\ Preceded(FlattenSeq(ss), <<>>)
<1> DEFINE t == FlattenSeq(ss)
<1>1. MadeOf(ss, n, t)
  BY FlattenMadeOf
<1> HIDE DEF t
<1>2. ASSUME NEW p \in DOMAIN t
      PROVE  \E b \in 1..n : \E o \in Nat : \E j \in DOMAIN ss[b] :
                At(ss[b], t, o) /\ p = o + j /\ t[p] = ss[b][j]
  <2>1. PICK b \in 1..n, o \in Nat : At(ss[b], t, o) /\ \E j \in DOMAIN ss[b] : p = o + j
    BY <1>1 DEF MadeOf
  <2>2. PICK j \in DOMAIN ss[b] : p = o + j
    BY <2>1
  <2>3. t[o + j] = ss[b][j]
    BY <2>1 DEF At
  <2> QED BY <2>1, <2>2, <2>3
<1>3. \A b \in 1..n : DOMAIN ss[b] \subseteq Nat
  <2> TAKE b \in 1..n
  <2> ss[b] \in Seq(Statement)
    OBVIOUS
  <2> QED OBVIOUS
<1>4. ASSUME NEW p \in DOMAIN t, t[p].do = "write", t[p].to \in Occupying,
             NEW x \in ToSet(Hours[t[p].group])
      PROVE  \E q \in DOMAIN t :
                q > p /\ t[q].do = "key" /\ t[q].group = t[p].group /\ t[q].row = SlotKey(x)
  <2>0. PICK b \in 1..n, o \in Nat : \E i \in DOMAIN ss[b] :
            At(ss[b], t, o) /\ p = o + i /\ t[p] = ss[b][i]
    BY <1>2
  <2>1. PICK j \in DOMAIN ss[b] : At(ss[b], t, o) /\ p = o + j /\ t[p] = ss[b][j]
    BY <2>0
  <2>2. PICK k \in DOMAIN ss[b] :
            /\ k > j /\ ss[b][k].do = "key" /\ ss[b][k].group = ss[b][j].group
            /\ ss[b][k].row = SlotKey(x)
    BY <2>1, <1>4 DEF Followed
  <2>3. o + k \in DOMAIN t /\ t[o + k] = ss[b][k]
    BY <2>1 DEF At
  <2>4. o + k > p
    BY <2>1, <2>2, <1>3
  <2> QED BY <2>1, <2>2, <2>3, <2>4
<1>5. ASSUME NEW p \in DOMAIN t, t[p].do = "key"
      PROVE  \E q \in DOMAIN t : q < p /\ t[q].do = "write" /\ t[q].group = t[p].group
  <2>0. PICK b \in 1..n, o \in Nat : \E i \in DOMAIN ss[b] :
            At(ss[b], t, o) /\ p = o + i /\ t[p] = ss[b][i]
    BY <1>2
  <2>1. PICK j \in DOMAIN ss[b] : At(ss[b], t, o) /\ p = o + j /\ t[p] = ss[b][j]
    BY <2>0
  <2>2. PICK k \in DOMAIN ss[b] :
            k < j /\ ss[b][k].do = "write" /\ ss[b][k].group = ss[b][j].group
    <3> DOMAIN <<>> = {}
      OBVIOUS
    <3> Preceded(ss[b], <<>>)
      OBVIOUS
    <3> QED BY <2>1, <1>5 DEF Preceded
  <2>3. o + k \in DOMAIN t /\ t[o + k] = ss[b][k]
    BY <2>1 DEF At
  <2>4. o + k < p
    BY <2>1, <2>2, <1>3
  <2> QED BY <2>1, <2>2, <2>3, <2>4
<1> QED BY <1>4, <1>5 DEF Followed, Preceded, t

-----------------------------------------------------------------------------
(* Programs.                                                                *)

LEMMA TailFacts ==
    ASSUME NEW S, NEW t \in Seq(S), t # <<>>
    PROVE  /\ 1 \in DOMAIN t /\ Head(t) = t[1] /\ Head(t) \in S
           /\ Tail(t) \in Seq(S)
           /\ \A i \in DOMAIN Tail(t) : i + 1 \in DOMAIN t /\ Tail(t)[i] = t[i + 1]
           /\ \A i \in DOMAIN t : i # 1 => i - 1 \in DOMAIN Tail(t) /\ Tail(t)[i - 1] = t[i]
           /\ ToSet(t) = {Head(t)} \cup ToSet(Tail(t))
<1>1. /\ DOMAIN t = 1..Len(t) /\ Len(t) \in Nat \ {0} /\ 1 \in DOMAIN t
      /\ Head(t) = t[1] /\ t[1] \in S /\ Tail(t) \in Seq(S)
      /\ DOMAIN Tail(t) = 1..(Len(t) - 1)
  OBVIOUS
<1>2. \A i \in 1..(Len(t) - 1) : Tail(t)[i] = t[i + 1]
  OBVIOUS
<1>3. ASSUME NEW i \in DOMAIN t, i # 1
      PROVE  i - 1 \in DOMAIN Tail(t) /\ Tail(t)[i - 1] = t[i]
  <2>1. i - 1 \in 1..(Len(t) - 1) /\ (i - 1) + 1 = i
    BY <1>1, <1>3
  <2>2. Tail(t)[i - 1] = t[(i - 1) + 1]
    BY ONLY <2>1, <1>2
  <2> QED BY <2>1, <2>2, <1>1
<1>4. \A i \in DOMAIN Tail(t) : i + 1 \in DOMAIN t /\ Tail(t)[i] = t[i + 1]
  BY <1>1, <1>2
<1>5. ToSet(t) \subseteq {Head(t)} \cup ToSet(Tail(t))
  BY <1>1, <1>3 DEF ToSet
<1>6. {Head(t)} \cup ToSet(Tail(t)) \subseteq ToSet(t)
  BY <1>1, <1>4 DEF ToSet
<1> QED BY <1>1, <1>3, <1>4, <1>5, <1>6

LEMMA ConcatFacts ==
    ASSUME NEW S, NEW p \in Seq(S), NEW q \in Seq(S)
    PROVE  /\ p \o q \in Seq(S)
           /\ ToSet(p \o q) = ToSet(p) \cup ToSet(q)
           /\ At(p, p \o q, 0) /\ At(q, p \o q, Len(p))
           /\ \A i \in DOMAIN (p \o q) :
                i \in DOMAIN p \/ \E j \in DOMAIN q : i = Len(p) + j
<1>1. /\ DOMAIN p = 1..Len(p) /\ DOMAIN q = 1..Len(q) /\ Len(p) \in Nat /\ Len(q) \in Nat
      /\ DOMAIN (p \o q) = 1..(Len(p) + Len(q)) /\ p \o q \in Seq(S)
  OBVIOUS
<1>2. At(p, p, 0)
  BY <1>1 DEF At
<1>3. At(p, p \o q, 0) /\ At(q, p \o q, Len(p))
  BY <1>2, AtConcat
<1>4. ASSUME NEW i \in DOMAIN (p \o q), i \notin DOMAIN p
      PROVE  \E j \in DOMAIN q : i = Len(p) + j
  <2>1. i - Len(p) \in DOMAIN q /\ i = Len(p) + (i - Len(p))
    BY <1>1, <1>4
  <2> QED BY <2>1
<1>5. ToSet(p \o q) \subseteq ToSet(p) \cup ToSet(q)
  <2>1. ASSUME NEW i \in DOMAIN (p \o q) PROVE (p \o q)[i] \in ToSet(p) \cup ToSet(q)
    <3>1. CASE i \in DOMAIN p
      <4>1. (p \o q)[0 + i] = p[i] /\ 0 + i = i
        BY <3>1, <1>1, <1>3 DEF At
      <4> QED BY <4>1, <3>1 DEF ToSet
    <3>2. CASE i \notin DOMAIN p
      <4>1. PICK j \in DOMAIN q : i = Len(p) + j
        BY <3>2, <1>4
      <4>2. (p \o q)[Len(p) + j] = q[j]
        BY <1>3 DEF At
      <4> QED BY <4>1, <4>2 DEF ToSet
    <3> QED BY <3>1, <3>2
  <2> QED BY <2>1 DEF ToSet
<1>6. ToSet(p) \cup ToSet(q) \subseteq ToSet(p \o q)
  <2>1. \A j \in DOMAIN p : p[j] \in ToSet(p \o q)
    BY <1>3 DEF At, ToSet
  <2>2. \A j \in DOMAIN q : q[j] \in ToSet(p \o q)
    BY <1>3 DEF At, ToSet
  <2> QED BY <2>1, <2>2 DEF ToSet
<1> QED BY <1>1, <1>3, <1>4, <1>5, <1>6

\* One program after another keeps what each of them keeps.
LEMMA ConcatFollows ==
    ASSUME NEW p \in Seq(Statement), NEW q \in Seq(Statement), NEW w,
           Followed(p), Followed(q), Preceded(p, w), Preceded(q, w)
    PROVE  Followed(p \o q) /\ Preceded(p \o q, w)
<1> DEFINE t == p \o q
<1>1. /\ At(p, t, 0) /\ At(q, t, Len(p)) /\ Len(p) \in Nat
      /\ DOMAIN p \subseteq Nat /\ DOMAIN q \subseteq Nat
      /\ \A i \in DOMAIN t : i \in DOMAIN p \/ \E j \in DOMAIN q : i = Len(p) + j
  <2>1. Len(p) \in Nat /\ DOMAIN p \subseteq Nat /\ DOMAIN q \subseteq Nat
    OBVIOUS
  <2> QED BY <2>1, ConcatFacts
<1> HIDE DEF t
<1>2. ASSUME NEW i \in DOMAIN t
      PROVE  \/ i \in DOMAIN p /\ t[i] = p[i]
             \/ \E j \in DOMAIN q : i = Len(p) + j /\ t[i] = q[j]
  <2>1. CASE i \in DOMAIN p
    <3>1. 0 + i = i /\ t[0 + i] = p[i]
      BY <2>1, <1>1 DEF At
    <3> QED BY <2>1, <3>1
  <2>2. CASE \E j \in DOMAIN q : i = Len(p) + j
    BY <2>2, <1>1 DEF At
  <2> QED BY <1>1, <2>1, <2>2
<1>3. /\ \A j \in DOMAIN p : j \in DOMAIN t /\ t[j] = p[j]
      /\ \A j \in DOMAIN q : Len(p) + j \in DOMAIN t /\ t[Len(p) + j] = q[j]
  <2>1. \A j \in DOMAIN p : 0 + j = j
    BY <1>1
  <2> QED BY <2>1, <1>1 DEF At
<1>4. ASSUME NEW i \in DOMAIN t, t[i].do = "write", t[i].to \in Occupying,
             NEW x \in ToSet(Hours[t[i].group])
      PROVE  \E k \in DOMAIN t :
                k > i /\ t[k].do = "key" /\ t[k].group = t[i].group /\ t[k].row = SlotKey(x)
  <2>1. CASE i \in DOMAIN p /\ t[i] = p[i]
    <3>1. PICK k \in DOMAIN p :
            k > i /\ p[k].do = "key" /\ p[k].group = p[i].group /\ p[k].row = SlotKey(x)
      BY <2>1, <1>4 DEF Followed
    <3> QED BY <3>1, <2>1, <1>3
  <2>2. CASE \E j \in DOMAIN q : i = Len(p) + j /\ t[i] = q[j]
    <3>1. PICK j \in DOMAIN q : i = Len(p) + j /\ t[i] = q[j]
      BY <2>2
    <3>2. PICK k \in DOMAIN q :
            k > j /\ q[k].do = "key" /\ q[k].group = q[j].group /\ q[k].row = SlotKey(x)
      BY <3>1, <1>4 DEF Followed
    <3>3. Len(p) + k > i
      BY <3>1, <3>2, <1>1
    <3> QED BY <3>1, <3>2, <3>3, <1>3
  <2> QED BY <2>1, <2>2, <1>2
<1>5. ASSUME NEW i \in DOMAIN t, t[i].do = "key", t[i].group \notin DOMAIN w
      PROVE  \E k \in DOMAIN t : k < i /\ t[k].do = "write" /\ t[k].group = t[i].group
  <2>1. CASE i \in DOMAIN p /\ t[i] = p[i]
    <3>1. PICK k \in DOMAIN p : k < i /\ p[k].do = "write" /\ p[k].group = p[i].group
      BY <2>1, <1>5 DEF Preceded
    <3> QED BY <3>1, <2>1, <1>3
  <2>2. CASE \E j \in DOMAIN q : i = Len(p) + j /\ t[i] = q[j]
    <3>1. PICK j \in DOMAIN q : i = Len(p) + j /\ t[i] = q[j]
      BY <2>2
    <3>2. PICK k \in DOMAIN q : k < j /\ q[k].do = "write" /\ q[k].group = q[j].group
      BY <3>1, <1>5 DEF Preceded
    <3>3. Len(p) + k < i
      BY <3>1, <3>2, <1>1
    <3> QED BY <3>1, <3>2, <3>3, <1>3
  <2> QED BY <2>1, <2>2, <1>2
<1> QED BY <1>4, <1>5 DEF Followed, Preceded, t

\* A program without entries, that puts nothing on the calendar, keeps both.
LEMMA PlainFollows ==
    ASSUME NEW t, NEW w,
           \A s \in ToSet(t) : s.do # "key" /\ (s.do = "write" => s.to \notin Occupying)
    PROVE  Followed(t) /\ Preceded(t, w)
BY DEF Followed, Preceded, ToSet

LEMMA KeysProgram ==
    ASSUME NEW g \in Group
    PROVE  /\ Keys(g) \in Seq(Statement)
           /\ ToSet(Keys(g)) = {Key(g, x) : x \in ToSet(Hours[g])}
           /\ DOMAIN Keys(g) = DOMAIN Hours[g] /\ DOMAIN Hours[g] \subseteq Nat \ {0}
           /\ \A i \in DOMAIN Keys(g) : Keys(g)[i] = Key(g, Hours[g][i])
<1>1. Hours[g] \in Seq(ToSet(Hours[g]))
  BY LockAssumption
<1>2. PICK n \in Nat : DOMAIN Hours[g] = 1..n /\ \A i \in 1..n : Hours[g][i] \in ToSet(Hours[g])
  <2> DEFINE S == ToSet(Hours[g])
  <2>1. Hours[g] \in Seq(S)
    BY <1>1
  <2> HIDE DEF S
  <2>2. Len(Hours[g]) \in Nat /\ DOMAIN Hours[g] = 1..Len(Hours[g])
        /\ \A i \in 1..Len(Hours[g]) : Hours[g][i] \in S
    BY <2>1
  <2> QED BY <2>2 DEF S
<1>3. /\ DOMAIN Keys(g) = 1..n /\ Keys(g) = [i \in 1..n |-> Key(g, Hours[g][i])]
      /\ \A i \in 1..n : Keys(g)[i] = Key(g, Hours[g][i])
  BY <1>2 DEF Keys
<1>4. \A i \in 1..n : Key(g, Hours[g][i]) \in Statement
  BY <1>2, Statements
<1>5. [i \in 1..n |-> Key(g, Hours[g][i])] \in Seq(Statement)
  BY <1>4, IsASeq
<1>6. ToSet(Keys(g)) = {Key(g, x) : x \in ToSet(Hours[g])}
  BY <1>2, <1>3 DEF ToSet
<1> QED BY <1>2, <1>3, <1>5, <1>6

\* A group is written onto the calendar: its row, then the entries of its hours.
LEMMA BookOne ==
    ASSUME NEW g \in Group, NEW to \in {"CONFIRMED", "COMPLETED"},
           NEW t, t = <<Write(g, to)>> \o Keys(g)
    PROVE  /\ t \in Seq(Statement) /\ Followed(t) /\ Preceded(t, <<>>)
           /\ ToSet(t) = {Write(g, to)} \cup {Key(g, x) : x \in ToSet(Hours[g])}
<1> DEFINE p == <<Write(g, to)>>
           q == Keys(g)
<1>1. p \in Seq(Statement) /\ Len(p) = 1 /\ DOMAIN p = {1} /\ p[1] = Write(g, to)
  <2>1. Write(g, to) \in Statement
    BY Statements DEF Outcome
  <2> QED BY <2>1
<1>2. q \in Seq(Statement) /\ ToSet(q) = {Key(g, x) : x \in ToSet(Hours[g])}
  BY KeysProgram
<1>3. ToSet(p) = {Write(g, to)}
  <2>1. ToSet(p) = {p[i] : i \in {1}}
    BY <1>1 DEF ToSet
  <2> QED BY <2>1, <1>1
<1>4. t = p \o q
  OBVIOUS
<1> HIDE DEF p, q
<1>5. /\ t \in Seq(Statement)
      /\ ToSet(t) = {Write(g, to)} \cup {Key(g, x) : x \in ToSet(Hours[g])}
      /\ At(p, t, 0) /\ At(q, t, 1)
      /\ \A i \in DOMAIN t : i \in DOMAIN p \/ \E j \in DOMAIN q : i = 1 + j
  <2>1. /\ p \o q \in Seq(Statement)
        /\ ToSet(p \o q) = ToSet(p) \cup ToSet(q)
        /\ At(p, p \o q, 0) /\ At(q, p \o q, Len(p))
        /\ \A i \in DOMAIN (p \o q) :
              i \in DOMAIN p \/ \E j \in DOMAIN q : i = Len(p) + j
    <3>1. p \in Seq(Statement) /\ q \in Seq(Statement)
      BY <1>1, <1>2
    <3> QED BY ONLY <3>1, ConcatFacts
  <2> QED BY ONLY <2>1, <1>1, <1>2, <1>3, <1>4
<1>6. 1 \in DOMAIN t /\ t[1] = Write(g, to)
  <2>1. 0 + 1 \in DOMAIN t /\ t[0 + 1] = p[1]
    BY <1>1, <1>5 DEF At
  <2> QED BY <2>1, <1>1
<1>7. /\ \A j \in DOMAIN q : j \in Nat \ {0} /\ t[1 + j] = Key(g, Hours[g][j]) /\ 1 + j \in DOMAIN t
      /\ DOMAIN q = DOMAIN Hours[g]
  BY <1>5, KeysProgram DEF At, q
<1>8. Write(g, to).do = "write" /\ Write(g, to).group = g
  BY DEF Write
<1>9. \A x : Key(g, x).do = "key" /\ Key(g, x).group = g /\ Key(g, x).row = SlotKey(x)
  BY DEF Key
<1>10. ASSUME NEW i \in DOMAIN t, t[i].do = "write", NEW x \in ToSet(Hours[t[i].group])
       PROVE  \E k \in DOMAIN t :
                 k > i /\ t[k].do = "key" /\ t[k].group = t[i].group /\ t[k].row = SlotKey(x)
  <2>1. i = 1
    BY <1>1, <1>5, <1>7, <1>9, <1>10
  <2>2. x \in ToSet(Hours[g])
    BY <2>1, <1>6, <1>8
  <2>3. PICK j \in DOMAIN Hours[g] : x = Hours[g][j]
    BY <2>2 DEF ToSet
  <2>4. 1 + j \in DOMAIN t /\ t[1 + j] = Key(g, x) /\ 1 + j > 1
    BY <2>3, <1>7
  <2> QED BY <2>1, <2>4, <1>6, <1>8, <1>9
<1>11. ASSUME NEW i \in DOMAIN t, t[i].do = "key"
       PROVE  \E k \in DOMAIN t : k < i /\ t[k].do = "write" /\ t[k].group = t[i].group
  <2>1. PICK j \in DOMAIN q : i = 1 + j
    <3>1. i # 1
      BY <1>11, <1>6, <1>8
    <3> QED BY <3>1, <1>5, <1>1
  <2>2. t[i].group = g /\ 1 < i
    BY <2>1, <1>7, <1>9
  <2> QED BY <2>2, <1>6, <1>8
<1> QED BY <1>5, <1>10, <1>11 DEF Followed, Preceded

\* The same after expire_lapsed.
LEMMA FindAndBook ==
    ASSUME NEW g \in Group, NEW t, t = <<Find(g), Write(g, "CONFIRMED")>> \o Keys(g)
    PROVE  /\ t \in Seq(Statement) /\ Followed(t) /\ Preceded(t, <<>>)
           /\ ToSet(t) = {Find(g), Write(g, "CONFIRMED")} \cup {Key(g, x) : x \in ToSet(Hours[g])}
<1> DEFINE u == <<Write(g, "CONFIRMED")>> \o Keys(g)
           f == <<Find(g)>>
<1>1. /\ u \in Seq(Statement) /\ Followed(u) /\ Preceded(u, <<>>)
      /\ ToSet(u) = {Write(g, "CONFIRMED")} \cup {Key(g, x) : x \in ToSet(Hours[g])}
  BY BookOne
<1>2. f \in Seq(Statement) /\ ToSet(f) = {Find(g)}
  <2>1. Find(g) \in Statement
    BY Statements
  <2>2. DOMAIN f = {1} /\ f[1] = Find(g)
    OBVIOUS
  <2>3. ToSet(f) = {f[i] : i \in {1}}
    BY <2>2 DEF ToSet
  <2> QED BY <2>1, <2>2, <2>3
<1>3. Find(g).do = "find"
  BY DEF Find
<1>4. Followed(f) /\ Preceded(f, <<>>)
  <2> HIDE DEF f
  <2> QED BY <1>2, <1>3, PlainFollows
<1>5. t = f \o u
  <2>1. <<Find(g), Write(g, "CONFIRMED")>> = <<Find(g)>> \o <<Write(g, "CONFIRMED")>>
    OBVIOUS
  <2>2. /\ <<Find(g)>> \in Seq(Statement) /\ <<Write(g, "CONFIRMED")>> \in Seq(Statement)
        /\ Keys(g) \in Seq(Statement)
    <3>1. Write(g, "CONFIRMED") \in Statement
      BY Statements DEF Outcome
    <3> QED BY <3>1, <1>2, KeysProgram
  <2> QED BY <2>1, <2>2, ConcatAssociative
<1> HIDE DEF u, f
<1>6. t \in Seq(Statement) /\ ToSet(t) = ToSet(f) \cup ToSet(u)
  <2>1. f \in Seq(Statement) /\ u \in Seq(Statement)
    BY <1>1, <1>2
  <2>2. f \o u \in Seq(Statement) /\ ToSet(f \o u) = ToSet(f) \cup ToSet(u)
    BY ONLY <2>1, ConcatFacts
  <2> QED BY ONLY <2>2, <1>5
<1>7. Followed(t) /\ Preceded(t, <<>>)
  BY <1>1, <1>2, <1>4, <1>5, ConcatFollows
<1> QED BY <1>1, <1>2, <1>6, <1>7

LEMMA SubjectFacts ==
    ASSUME NEW r \in Request
    PROVE  /\ \E n \in Nat \ {0} : DOMAIN Subject[r] = 1..n
           /\ \A i \in DOMAIN Subject[r] : Subject[r][i] \in Group
           /\ ToSet(Subject[r]) \subseteq Group /\ 1 \in DOMAIN Subject[r]
<1>1. Subject[r] \in Seq(Group) /\ Subject[r] # <<>>
  BY LockAssumption
<1>2. DOMAIN Subject[r] = 1..Len(Subject[r]) /\ Len(Subject[r]) \in Nat \ {0}
  BY <1>1
<1>3. \A i \in DOMAIN Subject[r] : Subject[r][i] \in Group
  BY <1>1
<1> QED BY <1>2, <1>3 DEF ToSet

\* What the programs that sell have in common.
BookingCode(r, t) ==
    /\ t \in Seq(Statement) /\ Followed(t) /\ Preceded(t, <<>>)
    /\ Kinds(t, {"find", "write", "key"})
    /\ \A s \in ToSet(t) : s.do = "write" => s.to = "CONFIRMED"
    /\ \A g \in ToSet(Subject[r]) : Write(g, "CONFIRMED") \in ToSet(t)

LEMMA BookingBlocks ==
    ASSUME NEW r \in Request, NEW ss, DOMAIN ss = DOMAIN Subject[r],
           ss = [i \in DOMAIN Subject[r] |-> ss[i]],
           \A i \in DOMAIN Subject[r] :
              /\ ss[i] \in Seq(Statement) /\ Followed(ss[i]) /\ Preceded(ss[i], <<>>)
              /\ Write(Subject[r][i], "CONFIRMED") \in ToSet(ss[i])
              /\ \A s \in ToSet(ss[i]) :
                    \/ s \in {Find(Subject[r][i]), Write(Subject[r][i], "CONFIRMED")}
                    \/ \E x : s = Key(Subject[r][i], x)
    PROVE  BookingCode(r, FlattenSeq(ss))
<1>1. PICK n \in Nat \ {0} : DOMAIN Subject[r] = 1..n
  BY SubjectFacts
<1>2. ss \in [1..n -> Seq(Statement)]
  BY <1>1
<1>3. ToSet(FlattenSeq(ss)) = UNION {ToSet(ss[b]) : b \in 1..n}
  BY <1>2, FlattenStatements
<1>4. /\ FlattenSeq(ss) \in Seq(Statement)
      /\ Followed(FlattenSeq(ss)) /\ Preceded(FlattenSeq(ss), <<>>)
  <2>1. \A b \in 1..n : Followed(ss[b]) /\ Preceded(ss[b], <<>>)
    BY <1>1
  <2> QED BY <1>2, <2>1, FlattenMadeOf, FlattenFollows
<1>5. ASSUME NEW s \in ToSet(FlattenSeq(ss))
      PROVE  s.do \in {"find", "write", "key"} /\ (s.do = "write" => s.to = "CONFIRMED")
  <2>1. PICK b \in 1..n : s \in ToSet(ss[b])
    BY <1>3
  <2>2. CASE s = Find(Subject[r][b])
    BY <2>2 DEF Find
  <2>3. CASE s = Write(Subject[r][b], "CONFIRMED")
    BY <2>3 DEF Write
  <2>4. CASE \E x : s = Key(Subject[r][b], x)
    BY <2>4 DEF Key
  <2> QED BY <1>1, <2>1, <2>2, <2>3, <2>4
<1>6. ASSUME NEW g \in ToSet(Subject[r]) PROVE Write(g, "CONFIRMED") \in ToSet(FlattenSeq(ss))
  <2>1. PICK b \in 1..n : g = Subject[r][b]
    BY <1>1 DEF ToSet
  <2> QED BY <2>1, <1>1, <1>3
<1> QED BY <1>4, <1>5, <1>6 DEF BookingCode, Kinds

LEMMA BookingProgram ==
    ASSUME NEW r \in Request, NEW t \in {LiveRuns(r), LateRuns(r), ClaimRuns(r)}
    PROVE  BookingCode(r, t)
<1> DEFINE live == [i \in DOMAIN Subject[r] |->
                      <<Write(Subject[r][i], "CONFIRMED")>> \o Keys(Subject[r][i])]
           late == [i \in DOMAIN Subject[r] |->
                      <<Find(Subject[r][i]), Write(Subject[r][i], "CONFIRMED")>>
                      \o Keys(Subject[r][i])]
<1>1. t = FlattenSeq(live) \/ t = FlattenSeq(late)
  BY DEF LiveRuns, LateRuns, ClaimRuns, EachGroup
<1>2. ASSUME NEW i \in DOMAIN Subject[r]
      PROVE  /\ live[i] \in Seq(Statement) /\ Followed(live[i]) /\ Preceded(live[i], <<>>)
             /\ ToSet(live[i]) = {Write(Subject[r][i], "CONFIRMED")}
                  \cup {Key(Subject[r][i], x) : x \in ToSet(Hours[Subject[r][i]])}
  <2>1. Subject[r][i] \in Group
    BY SubjectFacts
  <2>2. live[i] = <<Write(Subject[r][i], "CONFIRMED")>> \o Keys(Subject[r][i])
    OBVIOUS
  <2> HIDE DEF live
  <2> QED BY <2>1, <2>2, BookOne
<1>3. ASSUME NEW i \in DOMAIN Subject[r]
      PROVE  /\ late[i] \in Seq(Statement) /\ Followed(late[i]) /\ Preceded(late[i], <<>>)
             /\ ToSet(late[i]) = {Find(Subject[r][i]), Write(Subject[r][i], "CONFIRMED")}
                  \cup {Key(Subject[r][i], x) : x \in ToSet(Hours[Subject[r][i]])}
  <2>1. Subject[r][i] \in Group
    BY SubjectFacts
  <2>2. late[i] = <<Find(Subject[r][i]), Write(Subject[r][i], "CONFIRMED")>>
                  \o Keys(Subject[r][i])
    OBVIOUS
  <2> HIDE DEF late
  <2> QED BY <2>1, <2>2, FindAndBook
<1>4. /\ DOMAIN live = DOMAIN Subject[r] /\ live = [i \in DOMAIN Subject[r] |-> live[i]]
      /\ DOMAIN late = DOMAIN Subject[r] /\ late = [i \in DOMAIN Subject[r] |-> late[i]]
  OBVIOUS
<1> HIDE DEF live, late
<1>5. BookingCode(r, FlattenSeq(live))
  <2>1. \A i \in DOMAIN Subject[r] :
              /\ live[i] \in Seq(Statement) /\ Followed(live[i]) /\ Preceded(live[i], <<>>)
              /\ Write(Subject[r][i], "CONFIRMED") \in ToSet(live[i])
              /\ \A s \in ToSet(live[i]) :
                    \/ s \in {Find(Subject[r][i]), Write(Subject[r][i], "CONFIRMED")}
                    \/ \E x : s = Key(Subject[r][i], x)
    BY <1>2
  <2> QED BY ONLY <1>4, <2>1, BookingBlocks, r \in Request
<1>6. BookingCode(r, FlattenSeq(late))
  <2>1. \A i \in DOMAIN Subject[r] :
              /\ late[i] \in Seq(Statement) /\ Followed(late[i]) /\ Preceded(late[i], <<>>)
              /\ Write(Subject[r][i], "CONFIRMED") \in ToSet(late[i])
              /\ \A s \in ToSet(late[i]) :
                    \/ s \in {Find(Subject[r][i]), Write(Subject[r][i], "CONFIRMED")}
                    \/ \E x : s = Key(Subject[r][i], x)
    BY <1>3
  <2> QED BY ONLY <1>4, <2>1, BookingBlocks, r \in Request
<1> QED BY <1>1, <1>5, <1>6

\* What is written off was a hold.
HoldCode(r, st, to, t) ==
    /\ t \in Seq(Statement)
    /\ \A s \in ToSet(t) :
          /\ s.do = "write" /\ s.to = to /\ s.group \in ToSet(Subject[r])
          /\ st[s.group] = "PENDING"

LEMMA EndHoldProgram ==
    ASSUME NEW r \in Request, NEW to \in OffCalendar, NEW t, t = EndHold(r, to)
    PROVE  HoldCode(r, booking_status, to, t)
<1> DEFINE block(g) == IF booking_status[g] = "PENDING" THEN <<Write(g, to)>> ELSE <<>>
           ss == [i \in DOMAIN Subject[r] |-> block(Subject[r][i])]
<1>1. t = FlattenSeq(ss)
  BY DEF EndHold, EachGroup
<1>2. PICK n \in Nat \ {0} : DOMAIN Subject[r] = 1..n
  BY SubjectFacts
<1>3. /\ DOMAIN ss = 1..n /\ ss = [i \in 1..n |-> ss[i]]
      /\ \A i \in 1..n : ss[i] = IF booking_status[Subject[r][i]] = "PENDING"
                                THEN <<Write(Subject[r][i], to)>> ELSE <<>>
  BY <1>2
<1> HIDE DEF block, ss
<1>4. ASSUME NEW i \in 1..n
      PROVE  /\ ss[i] \in Seq(Statement)
             /\ \A s \in ToSet(ss[i]) :
                   s = Write(Subject[r][i], to) /\ booking_status[Subject[r][i]] = "PENDING"
  <2>1. Write(Subject[r][i], to) \in Statement
    BY <1>2, SubjectFacts, Statements DEF Outcome
  <2>3. CASE booking_status[Subject[r][i]] = "PENDING"
    <3>1. ss[i] = <<Write(Subject[r][i], to)>>
      BY <1>3, <2>3
    <3>2. DOMAIN ss[i] = {1} /\ ss[i][1] = Write(Subject[r][i], to) /\ ss[i] \in Seq(Statement)
      BY <3>1, <2>1
    <3> QED BY <3>2, <2>3 DEF ToSet
  <2>4. CASE booking_status[Subject[r][i]] # "PENDING"
    <3>1. ss[i] = <<>>
      BY <1>3, <2>4
    <3>2. DOMAIN ss[i] = {} /\ ss[i] \in Seq(Statement)
      BY <3>1
    <3> QED BY <3>2 DEF ToSet
  <2> QED BY <2>3, <2>4
<1>5. ss \in [1..n -> Seq(Statement)]
  BY <1>3, <1>4
<1>6. t \in Seq(Statement) /\ ToSet(t) = UNION {ToSet(ss[b]) : b \in 1..n}
  <2>1. FlattenSeq(ss) \in Seq(Statement)
    BY <1>5, FlattenMadeOf
  <2> QED BY <1>1, <1>5, <2>1, FlattenStatements
<1>7. ASSUME NEW s \in ToSet(t)
      PROVE  /\ s.do = "write" /\ s.to = to /\ s.group \in ToSet(Subject[r])
             /\ booking_status[s.group] = "PENDING"
  <2>1. PICK b \in 1..n : s \in ToSet(ss[b])
    BY <1>6
  <2>2. s = Write(Subject[r][b], to) /\ booking_status[Subject[r][b]] = "PENDING"
    BY <2>1, <1>4
  <2>3. s.do = "write" /\ s.to = to /\ s.group = Subject[r][b]
    BY <2>2 DEF Write
  <2> QED BY <2>2, <2>3, <1>2 DEF ToSet
<1> QED BY <1>6, <1>7 DEF HoldCode

LEMMA ConsFacts ==
    ASSUME NEW S, NEW e \in S, NEW u \in Seq(S)
    PROVE  /\ <<e>> \o u \in Seq(S) /\ <<e>> \o u # <<>>
           /\ Head(<<e>> \o u) = e /\ Tail(<<e>> \o u) = u
           /\ ToSet(<<e>> \o u) = {e} \cup ToSet(u)
<1> DEFINE t == <<e>> \o u
<1>1. /\ <<e>> \in Seq(S) /\ Len(<<e>>) = 1 /\ Len(u) \in Nat /\ DOMAIN u = 1..Len(u)
      /\ t \in Seq(S) /\ Len(t) = 1 + Len(u) /\ t[1] = e
  OBVIOUS
<1>2. \A i \in 1..Len(u) : t[1 + i] = u[i]
  OBVIOUS
<1>3. t # <<>> /\ Head(t) = e
  BY <1>1
<1>4. Tail(t) = u
  <2>1. Tail(t) \in Seq(S) /\ Len(Tail(t)) = Len(u)
    BY <1>1, <1>3
  <2>2. ASSUME NEW i \in 1..Len(u) PROVE Tail(t)[i] = u[i]
    <3>1. i \in 1..Len(Tail(t)) /\ Tail(t)[i] = t[i + 1] /\ i + 1 = 1 + i
      BY <1>1, <1>3, <2>1
    <3> QED BY <3>1, <1>2
  <2> HIDE DEF t
  <2> QED BY <2>1, <2>2, SeqEqual, u \in Seq(S)
<1> HIDE DEF t
<1>5. ToSet(t) = {Head(t)} \cup ToSet(Tail(t))
  BY <1>1, <1>3, TailFacts
<1> QED BY <1>1, <1>3, <1>4, <1>5 DEF t

LEMMA SnocFacts ==
    ASSUME NEW S, NEW e \in S, NEW u \in Seq(S)
    PROVE  /\ u \o <<e>> \in Seq(S) /\ u \o <<e>> # <<>>
           /\ ToSet(u \o <<e>>) = ToSet(u) \cup {e}
           /\ u # <<>> => Head(u \o <<e>>) = Head(u)
<1>1. /\ <<e>> \in Seq(S) /\ DOMAIN <<e>> = {1} /\ <<e>>[1] = e
      /\ Len(u) \in Nat /\ Len(u \o <<e>>) = Len(u) + 1
  OBVIOUS
<1>2. ToSet(<<e>>) = {e}
  <2>1. ToSet(<<e>>) = {<<e>>[i] : i \in {1}}
    BY <1>1 DEF ToSet
  <2> QED BY <2>1, <1>1
<1>3. u \o <<e>> \in Seq(S) /\ ToSet(u \o <<e>>) = ToSet(u) \cup {e}
  <2>1. u \o <<e>> \in Seq(S) /\ ToSet(u \o <<e>>) = ToSet(u) \cup ToSet(<<e>>)
    BY ONLY <1>1, u \in Seq(S), ConcatFacts
  <2> QED BY ONLY <2>1, <1>2
<1>4. u # <<>> => Head(u \o <<e>>) = Head(u)
  OBVIOUS
<1>5. u \o <<e>> # <<>>
  BY <1>1
<1> QED BY <1>3, <1>4, <1>5

LEMMA OneEach ==
    ASSUME NEW r \in Request, NEW one, \A i \in DOMAIN Subject[r] : one[i] \in Statement,
           NEW ss, ss = [i \in DOMAIN Subject[r] |-> <<one[i]>>]
    PROVE  /\ FlattenSeq(ss) \in Seq(Statement)
           /\ ToSet(FlattenSeq(ss)) = {one[i] : i \in DOMAIN Subject[r]}
<1>1. PICK n \in Nat \ {0} : DOMAIN Subject[r] = 1..n
  BY SubjectFacts
<1>2. ss \in [1..n -> Seq(Statement)]
  BY <1>1
<1>3. ASSUME NEW i \in 1..n PROVE ToSet(ss[i]) = {one[i]}
  <2>1. DOMAIN ss[i] = {1} /\ ss[i][1] = one[i]
    BY <1>1
  <2>2. ToSet(ss[i]) = {ss[i][k] : k \in {1}}
    BY <2>1 DEF ToSet
  <2> QED BY <2>1, <2>2
<1>4. ToSet(FlattenSeq(ss)) = UNION {ToSet(ss[b]) : b \in 1..n}
  BY <1>2, FlattenStatements
<1>5. FlattenSeq(ss) \in Seq(Statement)
  BY <1>2, FlattenMadeOf
<1>6. UNION {ToSet(ss[b]) : b \in 1..n} = UNION {{one[b]} : b \in 1..n}
  BY ONLY <1>3
<1>7. UNION {{one[b]} : b \in 1..n} = {one[i] : i \in 1..n}
  OBVIOUS
<1> QED BY <1>1, <1>4, <1>5, <1>6, <1>7

\* The checkout is locked first, then every group of it.
LEMMA LockCheckoutProgram ==
    ASSUME NEW r \in Request, Kind[r] \in {"sync", "cancel"}
    PROVE  /\ LockCheckout(r) \in Seq(Statement) /\ LockCheckout(r) # <<>>
           /\ Head(LockCheckout(r)) = Lock(CheckoutRow(About(r)), "UPDATE")
           /\ ToSet(LockCheckout(r)) = {Lock(CheckoutRow(About(r)), "UPDATE")}
                \cup {Lock(GroupRow(g), "UPDATE") : g \in ToSet(Subject[r])}
<1> DEFINE one == [i \in DOMAIN Subject[r] |-> Lock(GroupRow(Subject[r][i]), "UPDATE")]
           ss == [i \in DOMAIN Subject[r] |-> <<one[i]>>]
           e == Lock(CheckoutRow(About(r)), "UPDATE")
<1>1. LockCheckout(r) = <<e>> \o FlattenSeq(ss)
  <2>1. ss = [i \in DOMAIN Subject[r] |-> <<Lock(GroupRow(Subject[r][i]), "UPDATE")>>]
    OBVIOUS
  <2> HIDE DEF ss
  <2> QED BY <2>1 DEF LockCheckout, EachGroup
<1>2. e \in Statement
  <2>1. About(r) \in Checkout
    BY LockAssumption
  <2> QED BY <2>1, Statements DEF Row, Mode
<1>3. \A i \in DOMAIN Subject[r] : one[i] \in Statement
  BY SubjectFacts, Statements DEF Row, Mode
<1>4. ss = [i \in DOMAIN Subject[r] |-> <<one[i]>>]
  OBVIOUS
<1>5. {one[i] : i \in DOMAIN Subject[r]} = {Lock(GroupRow(g), "UPDATE") : g \in ToSet(Subject[r])}
  BY DEF ToSet
<1> HIDE DEF one, ss, e
<1>6. /\ FlattenSeq(ss) \in Seq(Statement)
      /\ ToSet(FlattenSeq(ss)) = {one[i] : i \in DOMAIN Subject[r]}
  BY <1>3, <1>4, OneEach
<1>7. /\ <<e>> \o FlattenSeq(ss) \in Seq(Statement) /\ <<e>> \o FlattenSeq(ss) # <<>>
      /\ Head(<<e>> \o FlattenSeq(ss)) = e
      /\ ToSet(<<e>> \o FlattenSeq(ss)) = {e} \cup ToSet(FlattenSeq(ss))
  BY <1>2, <1>6, ConsFacts
<1> QED BY <1>1, <1>5, <1>6, <1>7 DEF e

\* Locks only, the checkout's first.
LockingCode(r, t) ==
    t \in Seq(Statement) /\ OpensCheckout(r, t) /\ Kinds(t, {"lock"})

LEMMA LocksOnly ==
    ASSUME NEW r \in Request, Kind[r] \in {"sync", "cancel"}
    PROVE  /\ LockingCode(r, LockCheckout(r))
           /\ \A m \in Mode :
                LET t == LockCheckout(r) \o <<Lock(PaymentRow(About(r)), m)>>
                IN LockingCode(r, t)
                   /\ ToSet(t) = ToSet(LockCheckout(r)) \cup {Lock(PaymentRow(About(r)), m)}
           /\ LockingCode(r, CancelOpens(r))
<1>1. \A row, m : Lock(row, m).do = "lock"
  BY DEF Lock
<1>2. ASSUME NEW t \in Seq(Statement), t # <<>>,
             Head(t) = Lock(CheckoutRow(About(r)), "UPDATE"),
             \A s \in ToSet(t) : \E row, m : s = Lock(row, m)
      PROVE  LockingCode(r, t)
  <2>1. Kinds(t, {"lock"})
    BY <1>1, <1>2 DEF Kinds
  <2>2. NoEvents(t)
    BY <2>1 DEF NoEvents, Kinds, ToSet
  <2> QED BY <1>2, <2>1, <2>2 DEF LockingCode, OpensCheckout
<1>3. LockingCode(r, LockCheckout(r))
  BY <1>2, LockCheckoutProgram
<1>4. ASSUME NEW m \in Mode, NEW t, t = LockCheckout(r) \o <<Lock(PaymentRow(About(r)), m)>>
      PROVE  /\ LockingCode(r, t)
             /\ ToSet(t) = ToSet(LockCheckout(r)) \cup {Lock(PaymentRow(About(r)), m)}
  <2>1. Lock(PaymentRow(About(r)), m) \in Statement
    <3>1. About(r) \in Checkout
      BY LockAssumption
    <3> QED BY <3>1, Statements DEF Row
  <2>2. /\ t \in Seq(Statement) /\ t # <<>>
        /\ ToSet(t) = ToSet(LockCheckout(r)) \cup {Lock(PaymentRow(About(r)), m)}
        /\ Head(t) = Head(LockCheckout(r))
    BY <1>4, <2>1, LockCheckoutProgram, SnocFacts
  <2> QED BY <2>2, <1>2, LockCheckoutProgram
<1>5. LockingCode(r, CancelOpens(r))
  <2> DEFINE e == Lock(CheckoutRow(About(r)), "UPDATE")
  <2>1. e \in Statement
    <3>1. About(r) \in Checkout
      BY LockAssumption
    <3> QED BY <3>1, Statements DEF Row, Mode
  <2>2. CancelOpens(r) = <<e>>
    BY DEF CancelOpens
  <2>3. <<e>> \in Seq(Statement) /\ <<e>> # <<>> /\ Head(<<e>>) = e /\ \A i \in DOMAIN <<e>> : <<e>>[i] = e
    <3> HIDE DEF e
    <3> QED BY <2>1
  <2>4. \A s \in ToSet(<<e>>) : s = e
    BY <2>3 DEF ToSet
  <2> QED BY <1>2, <2>2, <2>3, <2>4
<1> QED BY <1>3, <1>4, <1>5

\* The event first, then the checkout, its groups and its payment.
LEMMA SyncOpensProgram ==
    ASSUME NEW r \in Request, Kind[r] = "sync"
    PROVE  /\ SyncOpens(r) \in Seq(Statement) /\ SyncOpens(r) # <<>>
           /\ Head(SyncOpens(r)) = RecordEvent(Notice[r])
           /\ OpensCheckout(r, Tail(SyncOpens(r)))
           /\ Kinds(SyncOpens(r), {"lock", "event"})
           /\ Lock(CheckoutRow(About(r)), "UPDATE") \in ToSet(SyncOpens(r))
           /\ \A g \in ToSet(Subject[r]) : Lock(GroupRow(g), "UPDATE") \in ToSet(SyncOpens(r))
<1> DEFINE e == RecordEvent(Notice[r])
           p == Lock(PaymentRow(About(r)), "UPDATE")
           t == LockCheckout(r) \o <<p>>
<1>1. LockingCode(r, t) /\ ToSet(t) = ToSet(LockCheckout(r)) \cup {p}
  BY LocksOnly DEF Mode
<1>2. e \in Statement /\ p \in Statement
  <2>1. About(r) \in Checkout
    BY LockAssumption
  <2> QED BY <2>1, Statements DEF Row, Mode
<1>3. SyncOpens(r) = <<e>> \o t
  <2>1. SyncOpens(r) = (<<e>> \o LockCheckout(r)) \o <<p>>
    BY DEF SyncOpens
  <2>2. <<e>> \in Seq(Statement) /\ <<p>> \in Seq(Statement) /\ LockCheckout(r) \in Seq(Statement)
    <3>1. LockCheckout(r) \in Seq(Statement)
      BY LockCheckoutProgram
    <3> HIDE DEF e, p
    <3> QED BY <1>2, <3>1
  <2> HIDE DEF e, p
  <2> QED BY <2>1, <2>2, ConcatAssociative
<1>4. t \in Seq(Statement) /\ OpensCheckout(r, t) /\ Kinds(t, {"lock"})
  BY <1>1 DEF LockingCode
<1>5. e.do = "event"
  BY DEF RecordEvent
<1>6. Lock(CheckoutRow(About(r)), "UPDATE") \in ToSet(t)
      /\ \A g \in ToSet(Subject[r]) : Lock(GroupRow(g), "UPDATE") \in ToSet(t)
  BY <1>1, LockCheckoutProgram
<1> HIDE DEF e, p, t
<1>7. /\ <<e>> \o t \in Seq(Statement) /\ <<e>> \o t # <<>>
      /\ Head(<<e>> \o t) = e /\ Tail(<<e>> \o t) = t
      /\ ToSet(<<e>> \o t) = {e} \cup ToSet(t)
  BY <1>2, <1>4, ConsFacts
<1>8. Kinds(<<e>> \o t, {"lock", "event"})
  BY <1>4, <1>5, <1>7 DEF Kinds
<1>9. SyncOpens(r) # <<>> /\ Head(SyncOpens(r)) = e /\ OpensCheckout(r, Tail(SyncOpens(r)))
  BY <1>3, <1>4, <1>7
<1> QED BY <1>3, <1>6, <1>7, <1>8, <1>9 DEF e

LEMMA CancelProgram ==
    ASSUME NEW r \in Request, Kind[r] = "cancel", NEW t, t = CancelRuns(r)
    PROVE  /\ t \in Seq(Statement) /\ Kinds(t, {"lock", "write"})
           /\ \A s \in ToSet(t) : s.do = "write" => s.to = "CANCELLED"
<1> DEFINE one == [i \in DOMAIN Subject[r] |-> Write(Subject[r][i], "CANCELLED")]
           ss == [i \in DOMAIN Subject[r] |-> <<one[i]>>]
           p == Lock(PaymentRow(About(r)), "NO KEY UPDATE")
<1>1. t = FlattenSeq(ss) \o <<p>>
  <2>1. ss = [i \in DOMAIN Subject[r] |-> <<Write(Subject[r][i], "CANCELLED")>>]
    OBVIOUS
  <2> HIDE DEF ss
  <2> QED BY <2>1 DEF CancelRuns, EachGroup
<1>2. p \in Statement
  <2>1. About(r) \in Checkout
    BY LockAssumption
  <2> QED BY <2>1, Statements DEF Row, Mode
<1>3. ASSUME NEW i \in DOMAIN Subject[r]
      PROVE  one[i] \in Statement /\ one[i].do = "write" /\ one[i].to = "CANCELLED"
  <2>1. one[i] = Write(Subject[r][i], "CANCELLED") /\ Subject[r][i] \in Group
    BY SubjectFacts
  <2> HIDE DEF one
  <2>2. one[i] \in Statement
    BY <2>1, Statements DEF Outcome, OffCalendar
  <2>3. \A g : Write(g, "CANCELLED").do = "write" /\ Write(g, "CANCELLED").to = "CANCELLED"
    BY DEF Write
  <2> QED BY <2>1, <2>2, <2>3
<1>4. p.do = "lock"
  BY DEF Lock
<1>5. ss = [i \in DOMAIN Subject[r] |-> <<one[i]>>]
  OBVIOUS
<1> HIDE DEF one, ss, p
<1>6. /\ FlattenSeq(ss) \in Seq(Statement)
      /\ ToSet(FlattenSeq(ss)) = {one[i] : i \in DOMAIN Subject[r]}
  BY <1>3, <1>5, OneEach
<1>7. t \in Seq(Statement) /\ ToSet(t) = ToSet(FlattenSeq(ss)) \cup {p}
  BY <1>1, <1>2, <1>6, SnocFacts
<1>8. ASSUME NEW s \in ToSet(t) PROVE s.do \in {"lock", "write"} /\ (s.do = "write" => s.to = "CANCELLED")
  BY <1>3, <1>4, <1>6, <1>7
<1> QED BY <1>7, <1>8 DEF Kinds

\* The programs of the desk.
DeskCode(r, t) ==
    /\ t \in Seq(Statement) /\ Followed(t) /\ Preceded(t, <<>>)
    /\ Kinds(t, {"lock", "write", "key"})
    /\ \/ \A s \in ToSet(t) : s.do = "write" => s.to = "CANCELLED"
       \/ \A s \in ToSet(t) : s.do = "write" => s.to = "COMPLETED"

LEMMA DeskProgram ==
    ASSUME NEW r \in Request, NEW p, NEW g, g = Subject[r][1],
           p \in {<<Write(g, "CANCELLED")>>, <<Write(g, "COMPLETED")>> \o Keys(g),
                  <<Lock(GroupRow(g), "NO KEY UPDATE")>>}
    PROVE  DeskCode(r, DeskRuns(r, p))
<1> DEFINE c == CheckoutOf[g]
           e == Lock(CheckoutRow(c), "KEY SHARE")
<1>1. g \in Group
  BY SubjectFacts
<1>2. e \in Statement
  <2>1. c \in Checkout \cup {NoCheckout}
    BY <1>1, LockAssumption
  <2> QED BY <2>1, Statements DEF Row, Mode
<1>3. e.do = "lock"
  BY DEF Lock
<1>4. ASSUME NEW s \in Statement, NEW q, q = <<s>> PROVE q \in Seq(Statement) /\ ToSet(q) = {s}
  <2>1. DOMAIN q = {1} /\ q[1] = s
    BY ONLY <1>4
  <2>0. q \in Seq(Statement)
    BY ONLY <1>4
  <2>2. ToSet(q) = {q[i] : i \in {1}}
    BY <2>1 DEF ToSet
  <2> QED BY <2>0, <2>1, <2>2
<1>5. DeskCode(r, p)
  <2>1. CASE p = <<Write(g, "CANCELLED")>>
    <3>1. Write(g, "CANCELLED") \in Statement
      BY <1>1, Statements DEF Outcome, OffCalendar
    <3>2. p \in Seq(Statement) /\ ToSet(p) = {Write(g, "CANCELLED")}
      BY <2>1, <3>1, <1>4
    <3>3. Write(g, "CANCELLED").do = "write" /\ Write(g, "CANCELLED").to = "CANCELLED"
      BY DEF Write
    <3>4. Followed(p) /\ Preceded(p, <<>>)
      BY <3>2, <3>3, PlainFollows DEF Occupying
    <3> QED BY <3>2, <3>3, <3>4 DEF DeskCode, Kinds
  <2>2. CASE p = <<Write(g, "COMPLETED")>> \o Keys(g)
    <3>1. /\ p \in Seq(Statement) /\ Followed(p) /\ Preceded(p, <<>>)
          /\ ToSet(p) = {Write(g, "COMPLETED")} \cup {Key(g, x) : x \in ToSet(Hours[g])}
      BY <1>1, <2>2, BookOne
    <3>2. /\ Write(g, "COMPLETED").do = "write" /\ Write(g, "COMPLETED").to = "COMPLETED"
          /\ \A x : Key(g, x).do = "key"
      BY DEF Write, Key
    <3>3. \A s \in ToSet(p) : s.do \in {"write", "key"} /\ (s.do = "write" => s.to = "COMPLETED")
      BY <3>1, <3>2
    <3> QED BY <3>1, <3>3 DEF DeskCode, Kinds
  <2>3. CASE p = <<Lock(GroupRow(g), "NO KEY UPDATE")>>
    <3>1. Lock(GroupRow(g), "NO KEY UPDATE") \in Statement
      BY <1>1, Statements DEF Row, Mode
    <3>2. p \in Seq(Statement) /\ ToSet(p) = {Lock(GroupRow(g), "NO KEY UPDATE")}
      BY <2>3, <3>1, <1>4
    <3>3. Lock(GroupRow(g), "NO KEY UPDATE").do = "lock"
      BY DEF Lock
    <3>4. Followed(p) /\ Preceded(p, <<>>)
      BY <3>2, <3>3, PlainFollows
    <3> QED BY <3>2, <3>3, <3>4 DEF DeskCode, Kinds
  <2> QED BY <2>1, <2>2, <2>3
<1>6. CASE c = NoCheckout
  <2>1. DeskRuns(r, p) = p \o <<>>
    BY <1>6 DEF DeskRuns
  <2>2. p \in Seq(Statement)
    BY <1>5 DEF DeskCode
  <2>3. p \o <<>> = p
    BY ONLY <2>2, ConcatEmptySeq
  <2> QED BY <2>1, <2>3, <1>5
<1>7. CASE c # NoCheckout
  <2>1. DeskRuns(r, p) = p \o <<e>>
    BY <1>7 DEF DeskRuns
  <2>2. <<e>> \in Seq(Statement) /\ ToSet(<<e>>) = {e}
    <3> HIDE DEF e
    <3> QED BY <1>2, <1>4
  <2>3. Followed(<<e>>) /\ Preceded(<<e>>, <<>>)
    BY <2>2, <1>3, PlainFollows
  <2>4. Followed(p \o <<e>>) /\ Preceded(p \o <<e>>, <<>>)
    <3>1. p \in Seq(Statement) /\ Followed(p) /\ Preceded(p, <<>>)
      BY <1>5 DEF DeskCode
    <3> HIDE DEF e
    <3> QED BY <3>1, <2>2, <2>3, ConcatFollows
  <2>5. p \o <<e>> \in Seq(Statement) /\ ToSet(p \o <<e>>) = ToSet(p) \cup {e}
    <3>1. p \in Seq(Statement)
      BY <1>5 DEF DeskCode
    <3> HIDE DEF e
    <3> QED BY <3>1, <1>2, SnocFacts
  <2>6. DeskCode(r, p \o <<e>>)
    <3> HIDE DEF e, c
    <3> QED BY <1>3, <1>5, <2>4, <2>5 DEF DeskCode, Kinds
  <2> QED BY <2>1, <2>6
<1> QED BY <1>6, <1>7

-----------------------------------------------------------------------------
(* One statement.                                                           *)

LEMMA ExclusiveMeans ==
    ASSUME NEW st
    PROVE  Exclusive(st) <=>
             \A f, g \in Group : \A x \in ToSet(Hours[f]) \cap ToSet(Hours[g]) :
                f # g => ~ (st[f] \in Occupying /\ st[g] \in Occupying)
BY DEF Exclusive, Sharing

\* What a statement locks.
Locks(s, st, w) ==
    {<<s.row, s.mode>>} \cup
    (IF s.do \in {"write", "sweep"} /\ ViewOf(st, w, s.group) \in Occupying /\ s.to \notin Occupying
     THEN {<<SlotKey(x), "UPDATE">> : x \in ToSet(Hours[s.group])} ELSE {})

LEMMA WrittenFacts ==
    ASSUME NEW s, NEW w
    PROVE  /\ s.do \in {"write", "sweep"} =>
                /\ DOMAIN Written(w, s) = DOMAIN w \cup {s.group}
                /\ Written(w, s)[s.group] = s.to
                /\ \A g \in DOMAIN w : g # s.group => Written(w, s)[g] = w[g]
           /\ s.do \notin {"write", "sweep"} => Written(w, s) = w
BY DEF Written

\* A statement that the locks, the rows and the indexes allow.
Runs(r, st, p, t, h, w, s) ==
    /\ Sound(r, st, p, t, h, w) /\ Exclusive(st) /\ p \in Phase
    /\ t # <<>> /\ s = Head(t) /\ s.do # "find"
    /\ s.do = "sweep" => ViewOf(st, w, s.group) = "PENDING"
    /\ s.do = "key" => \A g \in Group \ {s.group} :
          s.row[2] \in ToSet(Hours[g]) => ViewOf(st, w, g) \notin Occupying

LEMMA HeadFacts ==
    ASSUME NEW r, NEW p, NEW t, NEW h, NEW w, Coded(r, p, t, h, w), t # <<>>, NEW s, s = Head(t)
    PROVE  /\ t \in Seq(Statement) /\ 1 \in DOMAIN t /\ s = t[1] /\ Fits(s)
           /\ Tail(t) \in Seq(Statement)
           /\ \A i \in DOMAIN t : i \in Nat \ {0}
           /\ \A i \in DOMAIN Tail(t) : i \in Nat /\ i + 1 \in DOMAIN t /\ Tail(t)[i] = t[i + 1]
           /\ \A i \in DOMAIN t : i # 1 => i - 1 \in DOMAIN Tail(t) /\ Tail(t)[i - 1] = t[i]
           /\ s \in ToSet(t) /\ \A z \in ToSet(Tail(t)) : z \in ToSet(t)
           /\ \A z \in ToSet(t) : z = s \/ z \in ToSet(Tail(t))
<1>1. t \in Seq(Statement)
  BY DEF Coded
<1>2. s \in Statement
  BY <1>1, TailFacts
<1>3. Fits(s)
  BY <1>2, StatementFits
<1>4. /\ \A i \in DOMAIN t : i \in Nat \ {0}
      /\ Tail(t) \in Seq(Statement)
  BY <1>1
<1>5. \A i \in DOMAIN Tail(t) : i \in Nat
  BY <1>4
<1>6. /\ 1 \in DOMAIN t /\ Head(t) = t[1]
      /\ \A i \in DOMAIN Tail(t) : i + 1 \in DOMAIN t /\ Tail(t)[i] = t[i + 1]
      /\ \A i \in DOMAIN t : i # 1 => i - 1 \in DOMAIN Tail(t) /\ Tail(t)[i - 1] = t[i]
      /\ ToSet(t) = {Head(t)} \cup ToSet(Tail(t))
  BY ONLY <1>1, t # <<>>, TailFacts
<1> QED BY <1>1, <1>3, <1>4, <1>5, <1>6

LEMMA RunsCoded ==
    ASSUME NEW r, NEW st, NEW p, NEW t, NEW h, NEW w, NEW s, Runs(r, st, p, t, h, w, s)
    PROVE  Coded(r, p, Tail(t), h \cup Locks(s, st, w), Written(w, s))
<1> DEFINE u == Tail(t)
           w1 == Written(w, s)
           h1 == h \cup Locks(s, st, w)
<1>1. Coded(r, p, t, h, w) /\ t # <<>> /\ s = Head(t) /\ s.do # "find" /\ p \in Phase
  BY DEF Runs, Sound
<1>2. /\ Fits(s) /\ u \in Seq(Statement)
      /\ s \in ToSet(t) /\ \A z \in ToSet(u) : z \in ToSet(t)
  BY <1>1, HeadFacts
<1>3. /\ s.do \in {"write", "sweep"} =>
           /\ DOMAIN w1 = DOMAIN w \cup {s.group} /\ w1[s.group] = s.to
           /\ \A g \in DOMAIN w : g # s.group => w1[g] = w[g]
      /\ s.do \notin {"write", "sweep"} => w1 = w
  BY WrittenFacts
<1>4. \A l \in h1 : l \in h \/ l = <<s.row, s.mode>> \/ \E x : l = <<SlotKey(x), "UPDATE">>
  BY DEF Locks
<1> HIDE DEF u, w1, h1
<1>5. \A l \in h1 : l[2] \in Mode
  <2>1. \A l \in h : l[2] \in Mode
    BY <1>1 DEF Coded
  <2>2. s.mode \in Mode
    BY <1>1, <1>2 DEF Fits
  <2>3. <<s.row, s.mode>>[2] = s.mode /\ \A x : <<SlotKey(x), "UPDATE">>[2] = "UPDATE"
    OBVIOUS
  <2> QED BY <1>4, <2>1, <2>2, <2>3 DEF Mode
<1>6. DOMAIN w1 \subseteq Group /\ \A g \in DOMAIN w1 : w1[g] \in Outcome
  <2>1. DOMAIN w \subseteq Group /\ \A g \in DOMAIN w : w[g] \in Outcome
    BY <1>1 DEF Coded
  <2>2. s.do \in {"write", "sweep"} => s.group \in Group /\ s.to \in Outcome
    BY <1>2 DEF Fits
  <2> QED BY <1>3, <2>1, <2>2
<1>7. PhaseOf(r, p) /\ p \notin {"idle", "done"}
  BY <1>1 DEF Coded
<1>8. ASSUME p \in {"locking", "flag", "undo"}
      PROVE  Kinds(u, {"lock", "event"}) /\ w1 = <<>>
  <2>1. Kinds(t, {"lock", "event"}) /\ w = <<>>
    BY <1>1, <1>8 DEF Coded
  <2>2. s.do \notin {"write", "sweep"}
    BY <2>1, <1>2 DEF Kinds
  <2> QED BY <2>1, <2>2, <1>2, <1>3 DEF Kinds
<1>9. ASSUME NEW to, Writes(t, w, to), s.do # "sweep"
      PROVE  Writes(u, w1, to)
  <2>1. /\ \A z \in ToSet(t) : z.do = "write" => z.to \in to
        /\ \A g \in DOMAIN w : w[g] \in to
    BY <1>9 DEF Writes
  <2>2. \A g \in DOMAIN w1 : w1[g] \in to
    BY <2>1, <1>2, <1>3, <1>9
  <2> QED BY <2>1, <2>2, <1>2 DEF Writes
<1>10. ASSUME p \in {"declined", "backed out", "lost", "cancel"}
       PROVE  Kinds(u, {"lock", "write"}) /\ Writes(u, w1, OffCalendar)
  <2>1. Kinds(t, {"lock", "write"}) /\ Writes(t, w, OffCalendar)
    BY <1>1, <1>10 DEF Coded
  <2>2. s.do # "sweep"
    BY <2>1, <1>2 DEF Kinds
  <2> QED BY <2>1, <2>2, <1>2, <1>9 DEF Kinds
<1>11. ASSUME p \in {"book", "claim"}
       PROVE  /\ Kinds(u, {"find", "write", "key", "sweep", "log"})
              /\ \A z \in ToSet(u) : z.do = "write" => z.to = "CONFIRMED"
              /\ \A g \in DOMAIN w1 : w1[g] \in {"CONFIRMED", "EXPIRED"}
  <2>1. /\ Kinds(t, {"find", "write", "key", "sweep", "log"})
        /\ \A z \in ToSet(t) : z.do = "write" => z.to = "CONFIRMED"
        /\ \A g \in DOMAIN w : w[g] \in {"CONFIRMED", "EXPIRED"}
    BY <1>1, <1>11 DEF Coded
  <2>2. s.do \in {"write", "sweep"} => s.to \in {"CONFIRMED", "EXPIRED"}
    BY <2>1, <1>2 DEF Fits
  <2>3. \A g \in DOMAIN w1 : w1[g] \in {"CONFIRMED", "EXPIRED"}
    BY <2>1, <2>2, <1>3
  <2> QED BY <2>1, <2>3, <1>2 DEF Kinds
<1>12. ASSUME p = "desk"
       PROVE  /\ Kinds(u, {"lock", "write", "key"})
              /\ Writes(u, w1, {"CANCELLED"}) \/ Writes(u, w1, {"COMPLETED"})
  <2>1. /\ Kinds(t, {"lock", "write", "key"})
        /\ Writes(t, w, {"CANCELLED"}) \/ Writes(t, w, {"COMPLETED"})
    BY <1>1, <1>12 DEF Coded
  <2>2. s.do # "sweep"
    BY <2>1, <1>2 DEF Kinds
  <2> QED BY <2>1, <2>2, <1>2, <1>9 DEF Kinds
<1>13. Coded(r, p, u, h1, w1)
  BY <1>2, <1>5, <1>6, <1>7, <1>8, <1>10, <1>11, <1>12 DEF Coded
<1> QED BY <1>13 DEF u, w1, h1

\* A write that takes a group off the calendar is the first one of it.
LEMMA ReleasedOnce ==
    ASSUME NEW r, NEW st, NEW p, NEW t, NEW h, NEW w, NEW s, Runs(r, st, p, t, h, w, s),
           s.do \in {"write", "sweep"}, ViewOf(st, w, s.group) \in Occupying,
           s.to \notin Occupying
    PROVE  s.group \notin DOMAIN w
<1>1. Coded(r, p, t, h, w) /\ t # <<>> /\ s = Head(t) /\ p \in Phase
  BY DEF Runs, Sound
<1>2. Fits(s) /\ s \in ToSet(t)
  BY <1>1, HeadFacts
<1> SUFFICES ASSUME s.group \in DOMAIN w PROVE FALSE
  OBVIOUS
<1>3. w[s.group] \in Occupying /\ w[s.group] \in Outcome
  BY <1>1 DEF Coded, ViewOf
<1>4. CASE s.do = "sweep"
  <2>1. w[s.group] = "PENDING"
    BY <1>4 DEF Runs, ViewOf
  <2> QED BY <2>1, <1>3 DEF Outcome, OffCalendar
<1>5. CASE s.do = "write"
  <2>1. \A to : Writes(t, w, to) => s.to \in to /\ w[s.group] \in to
    BY <1>2, <1>5 DEF Writes
  <2>2. CASE p \in {"idle", "done", "locking", "flag", "undo"}
    BY <1>1, <1>2, <1>5, <2>2 DEF Coded, Kinds
  <2>3. CASE p \in {"declined", "backed out", "lost", "cancel"}
    BY <1>1, <1>3, <2>1, <2>3 DEF Coded, OffCalendar, Occupying
  <2>4. CASE p \in {"book", "claim"}
    <3>1. s.to = "CONFIRMED"
      BY <1>1, <1>2, <1>5, <2>4 DEF Coded
    <3> QED BY <3>1 DEF Occupying
  <2>5. CASE p = "desk"
    BY <1>1, <1>3, <2>1, <2>5 DEF Coded, Occupying
  <2> QED BY <1>1, <2>2, <2>3, <2>4, <2>5 DEF Phase
<1> QED BY <1>4, <1>5

\* What the lemmas about a statement start from.
RunFacts(r, st, p, t, h, w, s) ==
    /\ Coded(r, p, t, h, w) /\ t # <<>> /\ s = Head(t) /\ s.do # "find"
    /\ Fits(s) /\ s \in ToSet(t)
    /\ 1 \in DOMAIN t /\ s = t[1]
    /\ \A z \in ToSet(Tail(t)) : z \in ToSet(t)
    /\ \A z \in ToSet(t) : z = s \/ z \in ToSet(Tail(t))
    /\ s.do \in {"write", "sweep"} =>
         /\ DOMAIN Written(w, s) = DOMAIN w \cup {s.group}
         /\ Written(w, s)[s.group] = s.to
         /\ \A g \in DOMAIN w : g # s.group => Written(w, s)[g] = w[g]
    /\ s.do \notin {"write", "sweep"} => Written(w, s) = w
    /\ <<s.row, s.mode>> \in h \cup Locks(s, st, w)
    /\ \A l \in h : l \in h \cup Locks(s, st, w)

LEMMA RunsFacts ==
    ASSUME NEW r, NEW st, NEW p, NEW t, NEW h, NEW w, NEW s, Runs(r, st, p, t, h, w, s)
    PROVE  RunFacts(r, st, p, t, h, w, s)
<1>1. Coded(r, p, t, h, w) /\ t # <<>> /\ s = Head(t) /\ s.do # "find"
  BY DEF Runs, Sound
<1>2. <<s.row, s.mode>> \in h \cup Locks(s, st, w) /\ \A l \in h : l \in h \cup Locks(s, st, w)
  BY DEF Locks
<1>3. /\ Fits(s) /\ s \in ToSet(t) /\ 1 \in DOMAIN t /\ s = t[1]
      /\ \A z \in ToSet(Tail(t)) : z \in ToSet(t)
      /\ \A z \in ToSet(t) : z = s \/ z \in ToSet(Tail(t))
  BY ONLY <1>1, HeadFacts
<1>4. /\ s.do \in {"write", "sweep"} =>
           /\ DOMAIN Written(w, s) = DOMAIN w \cup {s.group}
           /\ Written(w, s)[s.group] = s.to
           /\ \A g \in DOMAIN w : g # s.group => Written(w, s)[g] = w[g]
      /\ s.do \notin {"write", "sweep"} => Written(w, s) = w
  BY ONLY WrittenFacts
<1> QED BY ONLY <1>1, <1>2, <1>3, <1>4 DEF RunFacts

LEMMA RunsLocked ==
    ASSUME NEW r, NEW st, NEW p, NEW t, NEW h, NEW w, NEW s, Runs(r, st, p, t, h, w, s)
    PROVE  Locked(h \cup Locks(s, st, w), Written(w, s))
<1> DEFINE w1 == Written(w, s)
           h1 == h \cup Locks(s, st, w)
<1>0. RunFacts(r, st, p, t, h, w, s)
  BY RunsFacts
<1>1. /\ Fits(s) /\ <<s.row, s.mode>> \in h1 /\ \A l \in h : l \in h1
      /\ DOMAIN w1 \subseteq DOMAIN w \cup {s.group}
      /\ s.do \notin {"write", "sweep"} => DOMAIN w1 = DOMAIN w
  BY <1>0 DEF RunFacts
<1>2. Locked(h, w)
  BY DEF Runs, Sound
<1> HIDE DEF w1, h1
<1>3. ASSUME NEW g \in DOMAIN w1 PROVE HoldsStrongly(h1, GroupRow(g))
  <2>1. CASE g \in DOMAIN w
    BY <2>1, <1>1, <1>2 DEF Locked, HoldsStrongly
  <2>2. CASE g \notin DOMAIN w
    <3>1. s.do \in {"write", "sweep"} /\ g = s.group
      BY <2>2, <1>1
    <3>2. s.row = GroupRow(g) /\ s.mode = "NO KEY UPDATE"
      BY <3>1, <1>1 DEF Fits
    <3>3. <<s.row, s.mode>>[1] = s.row /\ <<s.row, s.mode>>[2] = s.mode
      OBVIOUS
    <3> QED BY <3>2, <3>3, <1>1 DEF HoldsStrongly, Strong
  <2> QED BY <2>1, <2>2
<1> QED BY <1>3 DEF Locked, w1, h1

LEMMA TailFollows ==
    ASSUME NEW r, NEW p, NEW t, NEW h, NEW w, Coded(r, p, t, h, w), t # <<>>,
           Followed(t), Preceded(t, w), NEW w1, DOMAIN w \subseteq DOMAIN w1,
           Head(t).do = "write" => Head(t).group \in DOMAIN w1
    PROVE  Followed(Tail(t)) /\ Preceded(Tail(t), w1)
<1> DEFINE u == Tail(t)
<1>1. /\ t[1] = Head(t)
      /\ \A i \in DOMAIN t : i \in Nat \ {0}
      /\ \A i \in DOMAIN u : i \in Nat /\ i + 1 \in DOMAIN t /\ u[i] = t[i + 1]
      /\ \A i \in DOMAIN t : i # 1 => i - 1 \in DOMAIN u /\ u[i - 1] = t[i]
  BY HeadFacts
<1> HIDE DEF u
<1>2. ASSUME NEW i \in DOMAIN u, u[i].do = "write", u[i].to \in Occupying,
             NEW x \in ToSet(Hours[u[i].group])
      PROVE  \E j \in DOMAIN u :
                j > i /\ u[j].do = "key" /\ u[j].group = u[i].group /\ u[j].row = SlotKey(x)
  <2>1. PICK j \in DOMAIN t :
            j > i + 1 /\ t[j].do = "key" /\ t[j].group = t[i + 1].group /\ t[j].row = SlotKey(x)
    BY <1>1, <1>2 DEF Followed
  <2>2. j - 1 \in DOMAIN u /\ u[j - 1] = t[j] /\ j - 1 > i
    BY <2>1, <1>1
  <2> QED BY <2>1, <2>2, <1>1
<1>3. ASSUME NEW i \in DOMAIN u, u[i].do = "key", u[i].group \notin DOMAIN w1
      PROVE  \E j \in DOMAIN u : j < i /\ u[j].do = "write" /\ u[j].group = u[i].group
  <2>1. PICK j \in DOMAIN t : j < i + 1 /\ t[j].do = "write" /\ t[j].group = t[i + 1].group
    BY <1>1, <1>3 DEF Preceded
  <2>2. j # 1
    BY <2>1, <1>1, <1>3
  <2>3. j - 1 \in DOMAIN u /\ u[j - 1] = t[j] /\ j - 1 < i
    BY <2>1, <2>2, <1>1
  <2> QED BY <2>1, <2>3, <1>1
<1> QED BY <1>2, <1>3 DEF Followed, Preceded, u

LEMMA RunsFollows ==
    ASSUME NEW r, NEW st, NEW p, NEW t, NEW h, NEW w, NEW s, Runs(r, st, p, t, h, w, s)
    PROVE  Followed(Tail(t)) /\ Preceded(Tail(t), Written(w, s))
<1>0. RunFacts(r, st, p, t, h, w, s)
  BY RunsFacts
<1>1. /\ Coded(r, p, t, h, w) /\ t # <<>> /\ Followed(t) /\ Preceded(t, w) /\ s = Head(t)
  BY DEF Runs, Sound
<1>2. /\ DOMAIN w \subseteq DOMAIN Written(w, s)
      /\ Head(t).do = "write" => Head(t).group \in DOMAIN Written(w, s)
  BY <1>0, <1>1 DEF RunFacts
<1> QED BY ONLY <1>1, <1>2, TailFollows

\* A group that was just written on the calendar will ask for its entries.
LEMMA WillAsk ==
    ASSUME NEW r, NEW st, NEW p, NEW t, NEW h, NEW w, NEW s, Runs(r, st, p, t, h, w, s),
           s.do = "write", s.to \in Occupying, NEW x \in ToSet(Hours[s.group])
    PROVE  Coming(Tail(t), s.group, x)
<1>0. RunFacts(r, st, p, t, h, w, s)
  BY RunsFacts
<1>1. 1 \in DOMAIN t /\ s = t[1]
  BY <1>0 DEF RunFacts
<1>2. PICK j \in DOMAIN t : j > 1 /\ t[j].do = "key" /\ t[j].group = s.group /\ t[j].row = SlotKey(x)
  BY <1>1 DEF Runs, Sound, Followed
<1>3. j # 1 /\ j - 1 \in DOMAIN Tail(t) /\ Tail(t)[j - 1] = t[j]
  <2>1. \A i \in DOMAIN t : i \in Nat \ {0}
    BY HeadFacts DEF Runs, Sound
  <2>2. j # 1
    BY <1>2, <2>1
  <2> QED BY <2>2, HeadFacts DEF Runs, Sound
<1> QED BY <1>2, <1>3 DEF Coming, ToSet

LEMMA RunsEntered ==
    ASSUME NEW r, NEW st, NEW p, NEW t, NEW h, NEW w, NEW s, Runs(r, st, p, t, h, w, s)
    PROVE  Entered(Tail(t), h \cup Locks(s, st, w), Written(w, s))
<1> DEFINE u == Tail(t)
           w1 == Written(w, s)
           h1 == h \cup Locks(s, st, w)
<1>0. RunFacts(r, st, p, t, h, w, s)
  BY RunsFacts
<1>1. /\ Fits(s) /\ <<s.row, s.mode>> \in h1 /\ \A l \in h : l \in h1
      /\ s.do \in {"write", "sweep"} =>
           /\ DOMAIN w1 = DOMAIN w \cup {s.group} /\ w1[s.group] = s.to
           /\ \A g \in DOMAIN w : g # s.group => w1[g] = w[g]
      /\ s.do \notin {"write", "sweep"} => w1 = w
      /\ \A z \in ToSet(t) : z = s \/ z \in ToSet(u)
  BY <1>0 DEF RunFacts
<1>2. Entered(t, h, w)
  BY DEF Runs, Sound
<1>3. \A x : s.do = "write" /\ s.to \in Occupying /\ x \in ToSet(Hours[s.group])
               => Coming(u, s.group, x)
  BY WillAsk
<1> HIDE DEF u, w1, h1
<1>4. ASSUME NEW g \in DOMAIN w1, w1[g] \in Occupying, NEW x \in ToSet(Hours[g])
      PROVE  <<SlotKey(x), "UPDATE">> \in h1 \/ Coming(u, g, x)
  <2>1. CASE s.do \in {"write", "sweep"} /\ g = s.group
    <3>1. s.to \in Occupying
      BY <2>1, <1>1, <1>4
    <3>2. s.do = "write"
      BY <3>1, <2>1, <1>1 DEF Fits, Occupying
    <3> QED BY <3>1, <3>2, <2>1, <1>3, <1>4
  <2>2. CASE ~ (s.do \in {"write", "sweep"} /\ g = s.group)
    <3>1. g \in DOMAIN w /\ w[g] \in Occupying
      BY <2>2, <1>1, <1>4
    <3>2. <<SlotKey(x), "UPDATE">> \in h \/ Coming(t, g, x)
      BY <3>1, <1>2, <1>4 DEF Entered
    <3>3. CASE <<SlotKey(x), "UPDATE">> \in h
      BY <3>3, <1>1
    <3>4. CASE Coming(t, g, x)
      <4>1. PICK z \in ToSet(t) : z.do = "key" /\ z.group = g /\ z.row = SlotKey(x)
        BY <3>4 DEF Coming
      <4>2. CASE z = s
        <5>1. s.row = SlotKey(x) /\ s.mode = "UPDATE"
          BY <4>1, <4>2, <1>1 DEF Fits
        <5> QED BY <5>1, <1>1
      <4>3. CASE z \in ToSet(u)
        BY <4>1, <4>3 DEF Coming
      <4> QED BY <4>2, <4>3, <1>1
    <3> QED BY <3>2, <3>3, <3>4
  <2> QED BY <2>1, <2>2
<1> QED BY <1>4 DEF Entered, u, w1, h1

LEMMA RunsApart ==
    ASSUME NEW r, NEW st, NEW p, NEW t, NEW h, NEW w, NEW s, Runs(r, st, p, t, h, w, s)
    PROVE  Apart(st, Tail(t), Written(w, s))
<1> DEFINE u == Tail(t)
           w1 == Written(w, s)
<1>0. RunFacts(r, st, p, t, h, w, s)
  BY RunsFacts
<1>1. /\ Fits(s)
      /\ s.do \in {"write", "sweep"} =>
           /\ DOMAIN w1 = DOMAIN w \cup {s.group} /\ w1[s.group] = s.to
           /\ \A g \in DOMAIN w : g # s.group => w1[g] = w[g]
      /\ s.do \notin {"write", "sweep"} => w1 = w
      /\ \A z \in ToSet(t) : z = s \/ z \in ToSet(u)
  BY <1>0 DEF RunFacts
<1>2. Apart(st, t, w)
  BY DEF Runs, Sound
<1>3. \A x : s.do = "write" /\ s.to \in Occupying /\ x \in ToSet(Hours[s.group])
               => Coming(u, s.group, x)
  BY WillAsk
<1>4. s.do = "key" => \A g \in Group \ {s.group} :
          s.row[2] \in ToSet(Hours[g]) => ViewOf(st, w, g) \notin Occupying
  BY DEF Runs
<1>5. \A g, x : Coming(t, g, x) =>
        Coming(u, g, x) \/ (s.do = "key" /\ s.group = g /\ s.row = SlotKey(x))
  BY <1>1 DEF Coming
<1> HIDE DEF u, w1
<1>6. ASSUME NEW f \in Group, NEW g \in Group, NEW x \in ToSet(Hours[f]) \cap ToSet(Hours[g]),
             f # g, ViewOf(st, w1, f) \in Occupying, ViewOf(st, w1, g) \in Occupying
      PROVE  Coming(u, f, x) \/ Coming(u, g, x)
  <2>1. CASE s.do \in {"write", "sweep"} /\ s.group \in {f, g}
    <3>1. s.to \in Occupying
      BY <2>1, <1>1, <1>6 DEF ViewOf
    <3>2. s.do = "write"
      BY <3>1, <2>1, <1>1 DEF Fits, Occupying
    <3> QED BY <2>1, <3>1, <3>2, <1>3
  <2>2. CASE ~ (s.do \in {"write", "sweep"} /\ s.group \in {f, g})
    <3>1. ViewOf(st, w, f) = ViewOf(st, w1, f) /\ ViewOf(st, w, g) = ViewOf(st, w1, g)
      BY <2>2, <1>1 DEF ViewOf
    <3>2. ViewOf(st, w, f) \in Occupying /\ ViewOf(st, w, g) \in Occupying
      BY <3>1, <1>6
    <3>3. Coming(t, f, x) \/ Coming(t, g, x)
      BY <3>2, <1>2, <1>6 DEF Apart
    <3>4. s.do = "key" /\ s.row = SlotKey(x) => s.row[2] = x
      BY DEF SlotKey
    <3>5. ~ (s.do = "key" /\ s.group \in {f, g} /\ s.row = SlotKey(x))
      BY <3>2, <3>4, <1>4, <1>6
    <3> QED BY <3>3, <3>5, <1>5
  <2> QED BY <2>1, <2>2
<1> QED BY <1>6 DEF Apart, u, w1

LEMMA RunsOwned ==
    ASSUME NEW r, NEW st, NEW p, NEW t, NEW h, NEW w, NEW s, Runs(r, st, p, t, h, w, s)
    PROVE  Owned(st, h \cup Locks(s, st, w), Written(w, s))
<1> DEFINE w1 == Written(w, s)
           h1 == h \cup Locks(s, st, w)
<1>0. RunFacts(r, st, p, t, h, w, s)
  BY RunsFacts
<1>1. /\ Fits(s) /\ s.do # "find" /\ 1 \in DOMAIN t /\ s = t[1]
      /\ DOMAIN w \subseteq DOMAIN w1
      /\ s.do \in {"write", "sweep"} => s.group \in DOMAIN w1
  BY <1>0 DEF RunFacts
<1>2. Owned(st, h, w) /\ Preceded(t, w) /\ Exclusive(st)
  BY DEF Runs, Sound
<1>3. s.do = "key" => \A g \in Group \ {s.group} :
          s.row[2] \in ToSet(Hours[g]) => ViewOf(st, w, g) \notin Occupying
  BY DEF Runs
<1>4. ASSUME NEW l \in h1
      PROVE  \/ l \in h
             \/ l = <<s.row, s.mode>>
             \/ /\ s.do \in {"write", "sweep"} /\ ViewOf(st, w, s.group) \in Occupying
                /\ s.to \notin Occupying
                /\ \E x \in ToSet(Hours[s.group]) : l = <<SlotKey(x), "UPDATE">>
  BY DEF Locks
<1>5. s.do \in {"write", "sweep"} /\ ViewOf(st, w, s.group) \in Occupying /\ s.to \notin Occupying
        => s.group \notin DOMAIN w
  BY ReleasedOnce
<1>6. \A i \in DOMAIN t : i \in Nat \ {0}
  BY HeadFacts DEF Runs, Sound
<1> HIDE DEF w1, h1
<1>7. ASSUME NEW g \in Group, NEW x \in ToSet(Hours[g]), st[g] \in Occupying,
             NEW l \in h1, l[1] = SlotKey(x)
      PROVE  g \in DOMAIN w1
  <2>1. CASE l \in h
    BY <2>1, <1>1, <1>2, <1>7 DEF Owned, Holds
  <2>2. CASE l = <<s.row, s.mode>>
    <3>1. s.row = SlotKey(x)
      BY <2>2, <1>7
    <3>2. s.do = "key"
      BY <3>1, <1>1 DEF Fits
    <3>3. s.group \in DOMAIN w
      BY <3>2, <1>1, <1>2, <1>6 DEF Preceded
    <3>4. CASE g # s.group
      <4>1. s.row[2] = x
        BY <3>1 DEF SlotKey
      <4>2. ViewOf(st, w, g) \notin Occupying
        BY <3>2, <3>4, <4>1, <1>3, <1>7
      <4>3. g \in DOMAIN w
        BY <4>2, <1>7 DEF ViewOf
      <4> QED BY <4>3, <1>1
    <3> QED BY <3>3, <3>4, <1>1
  <2>3. CASE /\ s.do \in {"write", "sweep"} /\ ViewOf(st, w, s.group) \in Occupying
             /\ s.to \notin Occupying
             /\ \E y \in ToSet(Hours[s.group]) : l = <<SlotKey(y), "UPDATE">>
    <3>1. PICK y \in ToSet(Hours[s.group]) : l = <<SlotKey(y), "UPDATE">>
      BY <2>3
    <3>2. SlotKey(y) = SlotKey(x)
      BY <3>1, <1>7
    <3>3. x \in ToSet(Hours[s.group])
      BY <3>1, <3>2, RowsDiffer
    <3>4. st[s.group] \in Occupying /\ s.group \in Group
      BY <2>3, <1>1, <1>5 DEF ViewOf, Fits
    <3>5. g = s.group
      BY <3>3, <3>4, <1>2, <1>7, ExclusiveMeans
    <3> QED BY <3>5, <2>3, <1>1
  <2> QED BY <2>1, <2>2, <2>3, <1>4
<1> QED BY <1>7 DEF Owned, Holds, w1, h1

LEMMA RunsOpened ==
    ASSUME NEW r, NEW st, NEW p, NEW t, NEW h, NEW w, NEW s, Runs(r, st, p, t, h, w, s)
    PROVE  Opened(r, p, Tail(t), h \cup Locks(s, st, w))
<1> DEFINE u == Tail(t)
           h1 == h \cup Locks(s, st, w)
<1>0. RunFacts(r, st, p, t, h, w, s)
  BY RunsFacts
<1>1. /\ <<s.row, s.mode>> \in h1 /\ \A l \in h : l \in h1
      /\ \A z \in ToSet(t) : z = s \/ z \in ToSet(u)
  BY <1>0 DEF RunFacts
<1>2. Opened(r, p, t, h)
  BY DEF Runs, Sound
<1> HIDE DEF u, h1
<1>3. Opened(r, p, u, h1)
  BY <1>1, <1>2 DEF Opened
<1> QED BY <1>3 DEF u, h1

LEMMA RunsExpiring ==
    ASSUME NEW r, NEW st, NEW p, NEW t, NEW h, NEW w, NEW s, Runs(r, st, p, t, h, w, s)
    PROVE  Expiring(st, Tail(t), h \cup Locks(s, st, w), Written(w, s))
<1> DEFINE u == Tail(t)
           w1 == Written(w, s)
<1>0. RunFacts(r, st, p, t, h, w, s)
  BY RunsFacts
<1>1. /\ Fits(s) /\ s \in ToSet(t) /\ \A z \in ToSet(u) : z \in ToSet(t)
      /\ s.do \in {"write", "sweep"} =>
           /\ DOMAIN w1 = DOMAIN w \cup {s.group} /\ w1[s.group] = s.to
           /\ \A g \in DOMAIN w : g # s.group => w1[g] = w[g]
      /\ s.do \notin {"write", "sweep"} => w1 = w
      /\ Coded(r, p, t, h, w)
  BY <1>0 DEF RunFacts
<1>2. Expiring(st, t, h, w)
  BY DEF Runs, Sound
<1>3. s.do = "sweep" => ViewOf(st, w, s.group) = "PENDING"
  BY DEF Runs
<1>4. \A g \in DOMAIN w : w[g] # "PENDING"
  BY <1>1 DEF Coded, Outcome, OffCalendar
<1> HIDE DEF u, w1
<1>5. ASSUME s.do \in {"write", "sweep"}, s.to = "EXPIRED" PROVE st[s.group] = "PENDING"
  <2>1. CASE s.do = "sweep"
    BY <2>1, <1>3, <1>4 DEF ViewOf
  <2>2. CASE s.do = "write"
    BY <2>2, <1>1, <1>2, <1>5 DEF Expiring
  <2> QED BY <1>5, <2>1, <2>2
<1>6. ASSUME NEW g \in DOMAIN w1, w1[g] = "EXPIRED" PROVE st[g] = "PENDING"
  BY <1>1, <1>2, <1>5, <1>6 DEF Expiring
<1>7. \A z \in ToSet(u) : z.do = "write" /\ z.to = "EXPIRED" =>
          st[z.group] = "PENDING" /\ HoldsStrongly(h, GroupRow(z.group))
  BY <1>1, <1>2 DEF Expiring
<1>8. \A row : HoldsStrongly(h, row) => HoldsStrongly(h \cup Locks(s, st, w), row)
  BY DEF HoldsStrongly
<1> QED BY <1>6, <1>7, <1>8 DEF Expiring, u, w1

LEMMA RunsBooking ==
    ASSUME NEW r, NEW st, NEW p, NEW t, NEW h, NEW w, NEW s, Runs(r, st, p, t, h, w, s)
    PROVE  Booking(r, p, Tail(t), Written(w, s))
<1> DEFINE u == Tail(t)
           w1 == Written(w, s)
<1>0. RunFacts(r, st, p, t, h, w, s)
  BY RunsFacts
<1>1. /\ Fits(s) /\ s \in ToSet(t) /\ \A z \in ToSet(t) : z = s \/ z \in ToSet(u)
      /\ s.do \in {"write", "sweep"} =>
           /\ DOMAIN w1 = DOMAIN w \cup {s.group} /\ w1[s.group] = s.to
           /\ \A g \in DOMAIN w : g # s.group => w1[g] = w[g]
      /\ s.do \notin {"write", "sweep"} => w1 = w
      /\ Coded(r, p, t, h, w)
  BY <1>0 DEF RunFacts
<1>2. Booking(r, p, t, w)
  BY DEF Runs, Sound
<1>3. s.do = "sweep" => ViewOf(st, w, s.group) = "PENDING"
  BY DEF Runs
<1> HIDE DEF u, w1
<1>4. ASSUME p = "book", NEW g \in ToSet(Subject[r])
      PROVE  \/ g \in DOMAIN w1 /\ w1[g] = "CONFIRMED"
             \/ \E z \in ToSet(u) : z.do = "write" /\ z.group = g /\ z.to = "CONFIRMED"
  <2>1. s.do = "write" => s.to = "CONFIRMED"
    BY <1>1, <1>4 DEF Coded
  <2>2. CASE g \in DOMAIN w /\ w[g] = "CONFIRMED"
    <3>1. ~ (s.do = "sweep" /\ s.group = g)
      BY <2>2, <1>3 DEF ViewOf
    <3> QED BY <2>1, <2>2, <3>1, <1>1
  <2>3. CASE \E z \in ToSet(t) : z.do = "write" /\ z.group = g /\ z.to = "CONFIRMED"
    BY <2>3, <1>1
  <2> QED BY <2>2, <2>3, <1>2, <1>4 DEF Booking
<1> QED BY <1>4 DEF Booking, u, w1

LEMMA RunsOrdered ==
    ASSUME NEW r, NEW st, NEW p, NEW t, NEW h, NEW w, NEW s, Runs(r, st, p, t, h, w, s)
    PROVE  Ordered(r, p, Tail(t), h \cup Locks(s, st, w))
<1> DEFINE u == Tail(t)
           h1 == h \cup Locks(s, st, w)
           c == <<CheckoutRow(About(r)), "UPDATE">>
<1>0. RunFacts(r, st, p, t, h, w, s)
  BY RunsFacts
<1>1. /\ t # <<>> /\ s = Head(t)
      /\ <<s.row, s.mode>> \in h1 /\ \A l \in h : l \in h1
  BY <1>0 DEF RunFacts
<1>2. Ordered(r, p, t, h)
  BY DEF Runs, Sound
<1>3. \A i \in DOMAIN u : i + 1 \in DOMAIN t /\ u[i] = t[i + 1]
  BY HeadFacts DEF Runs, Sound
<1>4. h1 = h \cup Locks(s, st, w)
  OBVIOUS
<1> HIDE DEF u, h1
<1>5. NoEvents(t) => NoEvents(u)
  BY <1>3 DEF NoEvents
<1> SUFFICES ASSUME Kind[r] \in {"sync", "cancel"}
             PROVE  Ordered(r, p, u, h1)
  BY DEF Ordered, u, h1
<1>6. CASE c \in h /\ NoEvents(t)
  BY <1>6, <1>1, <1>5 DEF Ordered
<1>7. CASE OpensCheckout(r, t) /\ \A l \in h : l[1] = EventKey(Notice[r])
  <2>1. s.row = CheckoutRow(About(r)) /\ s.mode = "UPDATE"
    BY <1>1, <1>7 DEF OpensCheckout, Lock
  <2>2. NoEvents(u)
    BY <1>5, <1>7 DEF OpensCheckout
  <2> QED BY <2>1, <2>2, <1>1 DEF Ordered
<1>8. CASE /\ h = {} /\ t # <<>> /\ Head(t) = RecordEvent(Notice[r])
           /\ OpensCheckout(r, u)
  <2>1. s.do = "event" /\ s.row = EventKey(Notice[r])
    BY <1>1, <1>8 DEF RecordEvent
  <2>2. h1 = {<<s.row, s.mode>>}
    BY <2>1, <1>4, <1>8 DEF Locks
  <2>3. \A l \in h1 : l[1] = EventKey(Notice[r])
    BY <2>1, <2>2
  <2> QED BY <2>3, <1>8 DEF Ordered
<1> QED BY <1>1, <1>2, <1>6, <1>7, <1>8 DEF Ordered, u

\* A statement keeps the invariant of its transaction.
LEMMA RunsSound ==
    ASSUME NEW r, NEW st, NEW p, NEW t, NEW h, NEW w, NEW s, Runs(r, st, p, t, h, w, s)
    PROVE  Sound(r, st, p, Tail(t), h \cup Locks(s, st, w), Written(w, s))
<1> DEFINE h1 == h \cup Locks(s, st, w)
<1>1. Coded(r, p, Tail(t), h1, Written(w, s))
  BY RunsCoded
<1>2. Locked(h1, Written(w, s))
  BY RunsLocked
<1>3. Followed(Tail(t)) /\ Preceded(Tail(t), Written(w, s))
  BY RunsFollows
<1>4. Entered(Tail(t), h1, Written(w, s))
  BY RunsEntered
<1>5. Apart(st, Tail(t), Written(w, s))
  BY RunsApart
<1>6. Owned(st, h1, Written(w, s))
  BY RunsOwned
<1>7. Opened(r, p, Tail(t), h1)
  BY RunsOpened
<1>8. Expiring(st, Tail(t), h1, Written(w, s))
  BY RunsExpiring
<1>9. Booking(r, p, Tail(t), Written(w, s))
  BY RunsBooking
<1>10. Ordered(r, p, Tail(t), h1)
  BY RunsOrdered
<1> HIDE DEF h1
<1>11. Sound(r, st, p, Tail(t), h1, Written(w, s))
  BY <1>1, <1>2, <1>3, <1>4, <1>5, <1>6, <1>7, <1>8, <1>9, <1>10 DEF Sound
<1> QED BY <1>11 DEF h1

LEMMA ConflictFacts ==
    /\ \A m, n : Conflict(m, n) <=> Conflict(n, m)
    /\ \A m, n \in Strong : Conflict(m, n)
    /\ \A n : Conflict("UPDATE", n)
BY DEF Conflict, Strong

LEMMA CompatibleSymmetric ==
    ASSUME NEW h, NEW k, Compatible(h, k)
    PROVE  Compatible(k, h)
BY ConflictFacts DEF Compatible

\* A statement that waits for no lock takes none that another transaction
\* has: the entries of a released group are not another one's, which would
\* have had to write the group.
LEMMA RunsCompatible ==
    ASSUME NEW r, NEW st, NEW p, NEW t, NEW h, NEW w, NEW s, Runs(r, st, p, t, h, w, s),
           NEW k, NEW v, Owned(st, k, v), Locked(k, v), Compatible(h, k),
           \A m \in k : ~ (m[1] = s.row /\ Conflict(m[2], s.mode))
    PROVE  Compatible(h \cup Locks(s, st, w), k)
<1>1. Fits(s)
  BY RunsFacts DEF RunFacts
<1>2. ASSUME NEW l \in h \cup Locks(s, st, w), NEW m \in k, l[1] = m[1], Conflict(l[2], m[2])
      PROVE  FALSE
  <2>1. CASE l \in h
    BY <2>1, <1>2 DEF Compatible
  <2>2. CASE l = <<s.row, s.mode>>
    <3>1. l[1] = s.row /\ l[2] = s.mode
      BY <2>2
    <3> QED BY <3>1, <1>2, ConflictFacts
  <2>3. CASE /\ s.do \in {"write", "sweep"} /\ ViewOf(st, w, s.group) \in Occupying
             /\ s.to \notin Occupying
             /\ \E x \in ToSet(Hours[s.group]) : l = <<SlotKey(x), "UPDATE">>
    <3>1. PICK x \in ToSet(Hours[s.group]) : l = <<SlotKey(x), "UPDATE">>
      BY <2>3
    <3>2. Holds(k, SlotKey(x))
      <4>1. l[1] = SlotKey(x)
        BY <3>1
      <4> QED BY <4>1, <1>2 DEF Holds
    <3>3. s.group \notin DOMAIN w
      BY <2>3, ReleasedOnce
    <3>4. st[s.group] \in Occupying /\ s.group \in Group /\ s.row = GroupRow(s.group)
          /\ s.mode = "NO KEY UPDATE"
      BY <2>3, <3>3, <1>1 DEF ViewOf, Fits
    <3>5. s.group \in DOMAIN v
      BY <3>2, <3>4 DEF Owned
    <3>6. PICK n \in k : n[1] = s.row /\ n[2] \in Strong
      BY <3>4, <3>5 DEF Locked, HoldsStrongly
    <3>7. Conflict(n[2], s.mode)
      BY <3>4, <3>6, ConflictFacts DEF Strong
    <3> QED BY <3>6, <3>7
  <2>4. l \in h \/ l = <<s.row, s.mode>>
        \/ (/\ s.do \in {"write", "sweep"} /\ ViewOf(st, w, s.group) \in Occupying
            /\ s.to \notin Occupying
            /\ \E x \in ToSet(Hours[s.group]) : l = <<SlotKey(x), "UPDATE">>)
    BY DEF Locks
  <2> QED BY <2>1, <2>2, <2>3, <2>4
<1> QED BY <1>2 DEF Compatible

-----------------------------------------------------------------------------
(* Steps.                                                                   *)

\* A step of one request: the others see what it commits.
LEMMA Frame ==
    ASSUME LockInv, NEW r \in Request, NEW p \in Phase, NEW t, NEW h, NEW w,
           phase' = [phase EXCEPT ![r] = p], todo' = [todo EXCEPT ![r] = t],
           held' = [held EXCEPT ![r] = h], wrote' = [wrote EXCEPT ![r] = w],
           booking_status' \in [Group -> BookingStatus], Exclusive(booking_status'),
           verdict' \in [Checkout -> Verdict], lapsed' = lapsed,
           seen' \subseteq {Notice[q] : q \in Request},
           Sound(r, booking_status', p, t, h, w),
           \A q \in Request \ {r} :
              /\ Sound(q, booking_status', phase[q], todo[q], held[q], wrote[q])
              /\ Compatible(h, held[q])
    PROVE  LockInv'
<1>1. /\ phase \in [Request -> Phase] /\ lapsed \subseteq Checkout
      /\ todo = [q \in Request |-> todo[q]] /\ held = [q \in Request |-> held[q]]
      /\ wrote = [q \in Request |-> wrote[q]]
  BY DEF LockInv, TypeOK, PerRequest
<1>2. /\ phase' \in [Request -> Phase]
      /\ PerRequest(todo') /\ PerRequest(held') /\ PerRequest(wrote')
  <2>1. phase' \in [Request -> Phase]
    BY <1>1
  <2>2. ASSUME NEW f, f = [q \in Request |-> f[q]], NEW y PROVE PerRequest([f EXCEPT ![r] = y])
    BY <2>2 DEF PerRequest
  <2> QED BY <1>1, <2>1, <2>2
<1>3. /\ phase'[r] = p /\ todo'[r] = t /\ held'[r] = h /\ wrote'[r] = w
      /\ \A q \in Request \ {r} :
            phase'[q] = phase[q] /\ todo'[q] = todo[q] /\ held'[q] = held[q] /\ wrote'[q] = wrote[q]
  BY <1>1
<1>4. ASSUME NEW q \in Request
      PROVE  Sound(q, booking_status', phase'[q], todo'[q], held'[q], wrote'[q])
  BY <1>3
<1>5. TypeOK'
  <2>1. ASSUME NEW q \in Request
        PROVE  /\ DOMAIN wrote'[q] \subseteq Group
               /\ \A l \in held'[q] : l[2] \in {"KEY SHARE", "NO KEY UPDATE", "UPDATE"}
    BY <1>4 DEF Sound, Coded, Mode
  <2> QED BY <1>1, <1>2, <2>1 DEF TypeOK
<1>6. ASSUME NEW q \in Request, NEW o \in Request \ {q}
      PROVE  Compatible(held'[q], held'[o])
  <2>1. CASE q = r
    BY <1>3, <2>1
  <2>2. CASE o = r
    BY <1>3, <2>2, CompatibleSymmetric
  <2>3. CASE q # r /\ o # r
    BY <1>3, <2>3 DEF LockInv, Disjoint
  <2> QED BY <2>1, <2>2, <2>3
<1>7. Disjoint'
  BY <1>6 DEF Disjoint
<1>8. PerRequest(todo)' /\ PerRequest(held)' /\ PerRequest(wrote)'
  BY <1>2 DEF PerRequest
<1> QED BY <1>4, <1>5, <1>7, <1>8 DEF LockInv

\* Nothing of a transaction's record changes.
LEMMA Same ==
    ASSUME LockInv, NEW r \in Request
    PROVE  /\ phase = [phase EXCEPT ![r] = phase[r]] /\ todo = [todo EXCEPT ![r] = todo[r]]
           /\ held = [held EXCEPT ![r] = held[r]] /\ wrote = [wrote EXCEPT ![r] = wrote[r]]
<1>1. PerRequest(todo) /\ PerRequest(held) /\ PerRequest(wrote) /\ PerRequest(phase)
  <2>1. phase \in [Request -> Phase]
    BY DEF LockInv, TypeOK
  <2>2. PerRequest(phase)
    BY <2>1 DEF PerRequest
  <2> QED BY <2>2 DEF LockInv
<1>2. ASSUME NEW f, PerRequest(f) PROVE f = [f EXCEPT ![r] = f[r]]
  BY <1>2 DEF PerRequest
<1> QED BY <1>1, <1>2

LEMMA FrameUncommitted ==
    ASSUME LockInv, NEW r \in Request, NEW p \in Phase, NEW t, NEW h, NEW w,
           phase' = [phase EXCEPT ![r] = p], todo' = [todo EXCEPT ![r] = t],
           held' = [held EXCEPT ![r] = h], wrote' = [wrote EXCEPT ![r] = w],
           UNCHANGED <<committed, lapsed>>,
           Sound(r, booking_status, p, t, h, w),
           \A q \in Request \ {r} : Compatible(h, held[q])
    PROVE  LockInv'
<1>1. booking_status' = booking_status /\ verdict' = verdict /\ seen' = seen /\ lapsed' = lapsed
  BY DEF committed
<1>2. /\ booking_status \in [Group -> BookingStatus] /\ Exclusive(booking_status)
      /\ verdict \in [Checkout -> Verdict] /\ seen \subseteq {Notice[q] : q \in Request}
      /\ \A q \in Request : Sound(q, booking_status, phase[q], todo[q], held[q], wrote[q])
  BY DEF LockInv, TypeOK
<1>3. /\ booking_status' \in [Group -> BookingStatus] /\ Exclusive(booking_status')
      /\ verdict' \in [Checkout -> Verdict] /\ seen' \subseteq {Notice[q] : q \in Request}
      /\ Sound(r, booking_status', p, t, h, w)
      /\ \A q \in Request \ {r} :
            /\ Sound(q, booking_status', phase[q], todo[q], held[q], wrote[q])
            /\ Compatible(h, held[q])
  BY <1>1, <1>2
<1> QED BY <1>1, <1>3, Frame

\* What the invariant says of one request.
LEMMA SoundNow ==
    ASSUME LockInv, NEW r \in Request
    PROVE  /\ Sound(r, booking_status, phase[r], todo[r], held[r], wrote[r])
           /\ Exclusive(booking_status) /\ phase[r] \in Phase
           /\ \A q \in Request \ {r} : Compatible(held[r], held[q])
BY DEF LockInv, TypeOK, Disjoint

LEMMA ViewIs ==
    ASSUME NEW r, NEW g
    PROVE  View(r, g) = ViewOf(booking_status, wrote[r], g)
BY DEF View, ViewOf

LEMMA ExecuteStep ==
    ASSUME LockInv, NEW r \in Request, Execute(r)
    PROVE  LockInv'
<1> DEFINE s == Head(todo[r])
           h == held[r] \cup Locks(s, booking_status, wrote[r])
           w == Written(wrote[r], s)
<1>1. /\ todo[r] # <<>> /\ s.do # "find" /\ Free(r) /\ ~ Void(r, s) /\ ~ Taken(r, s)
      /\ todo' = [todo EXCEPT ![r] = Tail(todo[r])]
      /\ held' = [held EXCEPT ![r] = held[r] \cup LocksOf(r, s)]
      /\ wrote' = [wrote EXCEPT ![r] = w]
      /\ UNCHANGED <<committed, lapsed, phase>>
  BY DEF Execute
<1>2. /\ Sound(r, booking_status, phase[r], todo[r], held[r], wrote[r])
      /\ Exclusive(booking_status) /\ phase[r] \in Phase
      /\ \A q \in Request \ {r} : Compatible(held[r], held[q])
  BY SoundNow
<1>3. LocksOf(r, s) = Locks(s, booking_status, wrote[r])
  BY ViewIs DEF LocksOf, Locks
<1>4. s.do = "sweep" => ViewOf(booking_status, wrote[r], s.group) = "PENDING"
  BY <1>1, ViewIs DEF Void, StillPending
<1>5. s.do = "key" => \A g \in Group \ {s.group} :
          s.row[2] \in ToSet(Hours[g]) => ViewOf(booking_status, wrote[r], g) \notin Occupying
  BY <1>1, ViewIs DEF Taken
<1> HIDE DEF s
<1>6. Runs(r, booking_status, phase[r], todo[r], held[r], wrote[r], s)
  BY <1>1, <1>2, <1>4, <1>5 DEF Runs, s
<1> USE <1>6
<1> HIDE DEF h, w
<1>7. Sound(r, booking_status, phase[r], Tail(todo[r]), h, w)
  BY ONLY <1>6, RunsSound DEF h, w
<1>8. ASSUME NEW q \in Request \ {r} PROVE Compatible(h, held[q])
  <2>1. Owned(booking_status, held[q], wrote[q]) /\ Locked(held[q], wrote[q])
    BY SoundNow DEF Sound
  <2>2. \A m \in held[q] : ~ (m[1] = s.row /\ Conflict(m[2], s.mode))
    BY <1>1 DEF Free, BlockedBy, s
  <2>3. Compatible(held[r], held[q])
    BY <1>2
  <2> QED BY ONLY <1>6, <2>1, <2>2, <2>3, RunsCompatible DEF h
<1>9. phase' = [phase EXCEPT ![r] = phase[r]]
  <2>1. phase' = phase
    BY <1>1
  <2> QED BY <2>1, Same
<1>10. held' = [held EXCEPT ![r] = h]
  BY <1>1, <1>3 DEF h
<1> QED BY <1>1, <1>2, <1>7, <1>8, <1>9, <1>10, FrameUncommitted

\* A statement of the sweep is left out.
LEMMA DropSound ==
    ASSUME NEW r, NEW st, NEW p, NEW t, NEW h, NEW w, NEW s, t # <<>>, s = Head(t),
           s.do \in {"find", "sweep", "log"}, p \in Phase, Sound(r, st, p, t, h, w)
    PROVE  Sound(r, st, p, Tail(t), h, w) /\ p \in {"book", "claim"}
<1> DEFINE u == Tail(t)
<1>1. /\ Coded(r, p, t, h, w) /\ Locked(h, w) /\ Followed(t) /\ Preceded(t, w)
      /\ Entered(t, h, w) /\ Apart(st, t, w) /\ Owned(st, h, w) /\ Opened(r, p, t, h)
      /\ Expiring(st, t, h, w) /\ Booking(r, p, t, w) /\ Ordered(r, p, t, h)
  BY DEF Sound
<1>2. /\ u \in Seq(Statement)
      /\ s \in ToSet(t) /\ \A z \in ToSet(u) : z \in ToSet(t)
      /\ \A z \in ToSet(t) : z = s \/ z \in ToSet(u)
      /\ \A i \in DOMAIN u : i + 1 \in DOMAIN t /\ u[i] = t[i + 1]
  BY <1>1, HeadFacts
<1>3. p \in {"book", "claim"}
  <2>1. \A dos : Kinds(t, dos) => s.do \in dos
    BY <1>2 DEF Kinds
  <2>2. p \notin {"idle", "done"}
    BY <1>1 DEF Coded
  <2>3. p \notin {"locking", "flag", "undo"}
    BY <1>1, <2>1 DEF Coded
  <2>4. p \notin {"declined", "backed out", "lost", "cancel"}
    BY <1>1, <2>1 DEF Coded
  <2>5. p # "desk"
    BY <1>1, <2>1 DEF Coded
  <2> QED BY <2>2, <2>3, <2>4, <2>5 DEF Phase
<1>4. Followed(u) /\ Preceded(u, w)
  BY <1>1, TailFollows
<1> HIDE DEF u
<1>5. Coded(r, p, u, h, w)
  BY <1>1, <1>2, <1>3 DEF Coded, Kinds
<1>6. \A g, x : Coming(t, g, x) => Coming(u, g, x)
  BY <1>2 DEF Coming
<1>7. Entered(u, h, w) /\ Apart(st, u, w)
  BY <1>1, <1>6 DEF Entered, Apart
<1>8. Opened(r, p, u, h)
  BY <1>1, <1>3 DEF Opened
<1>9. Expiring(st, u, h, w) /\ Booking(r, p, u, w)
  BY <1>1, <1>2 DEF Expiring, Booking
<1>10. Ordered(r, p, u, h)
  <2>1. NoEvents(t) => NoEvents(u)
    BY <1>2 DEF NoEvents
  <2>2. ~ OpensCheckout(r, t)
    BY DEF OpensCheckout, Lock
  <2>3. Head(t) # RecordEvent(Notice[r])
    BY DEF RecordEvent
  <2> QED BY <1>1, <2>1, <2>2, <2>3 DEF Ordered
<1>11. Sound(r, st, p, u, h, w)
  BY <1>1, <1>4, <1>5, <1>7, <1>8, <1>9, <1>10 DEF Sound
<1> QED BY <1>3, <1>11 DEF u

LEMMA SkipStep ==
    ASSUME LockInv, NEW r \in Request, Skip(r)
    PROVE  LockInv'
<1>1. /\ todo[r] # <<>> /\ Void(r, Head(todo[r]))
      /\ todo' = [todo EXCEPT ![r] = Tail(todo[r])]
      /\ UNCHANGED <<committed, lapsed, phase, held, wrote>>
  BY DEF Skip
<1>2. Head(todo[r]).do \in {"find", "sweep", "log"}
  BY <1>1 DEF Void
<1>3. Sound(r, booking_status, phase[r], Tail(todo[r]), held[r], wrote[r])
  BY <1>1, <1>2, SoundNow, DropSound
<1>4. /\ phase' = [phase EXCEPT ![r] = phase[r]] /\ held' = [held EXCEPT ![r] = held[r]]
      /\ wrote' = [wrote EXCEPT ![r] = wrote[r]]
  <2>1. phase' = phase /\ held' = held /\ wrote' = wrote
    BY <1>1
  <2> QED BY <2>1, Same
<1>5. phase[r] \in Phase /\ \A q \in Request \ {r} : Compatible(held[r], held[q])
  BY SoundNow
<1> QED BY <1>1, <1>3, <1>4, <1>5, FrameUncommitted


LEMMA HasCheckout ==
    ASSUME NEW r \in Request, Kind[r] = "sync", NEW h, SyncLocks(r) \subseteq h
    PROVE  <<CheckoutRow(About(r)), "UPDATE">> \in h
<1> DEFINE s == Lock(CheckoutRow(About(r)), "UPDATE")
<1>1. s \in ToSet(SyncOpens(r))
  BY SyncOpensProgram
<1>2. s.row = CheckoutRow(About(r)) /\ s.mode = "UPDATE"
  BY DEF Lock
<1> HIDE DEF s
<1> QED BY <1>1, <1>2 DEF SyncLocks

LEMMA HasGroup ==
    ASSUME NEW r \in Request, Kind[r] = "sync", NEW h, SyncLocks(r) \subseteq h,
           NEW g \in ToSet(Subject[r])
    PROVE  HoldsStrongly(h, GroupRow(g))
<1> DEFINE s == Lock(GroupRow(g), "UPDATE")
<1>1. s \in ToSet(SyncOpens(r))
  BY SyncOpensProgram
<1>2. s.row = GroupRow(g) /\ s.mode = "UPDATE"
  BY DEF Lock
<1> HIDE DEF s
<1>3. <<GroupRow(g), "UPDATE">> \in h
  BY <1>1, <1>2 DEF SyncLocks
<1> DEFINE l == <<GroupRow(g), "UPDATE">>
<1>4. l \in h /\ l[1] = GroupRow(g) /\ l[2] = "UPDATE"
  BY <1>3
<1> HIDE DEF l
<1> QED BY <1>4 DEF HoldsStrongly, Strong

LEMMA NoEventKinds ==
    ASSUME NEW t, NEW dos, Kinds(t, dos), "event" \notin dos
    PROVE  NoEvents(t)
BY DEF Kinds, NoEvents, ToSet

\* The sweep of the holds that lapsed comes before what is still to run.
LEMMA SweepsSound ==
    ASSUME NEW r \in Request, NEW st, NEW p \in {"book", "claim"}, NEW t, NEW h, NEW w,
           Sound(r, st, p, t, h, w), NEW u \in Seq(Statement),
           \A s \in ToSet(u) : s.do \in {"sweep", "log"}
    PROVE  Sound(r, st, p, u \o t, h, w)
<1> DEFINE v == u \o t
<1>1. /\ Coded(r, p, t, h, w) /\ Locked(h, w) /\ Followed(t) /\ Preceded(t, w)
      /\ Entered(t, h, w) /\ Apart(st, t, w) /\ Owned(st, h, w) /\ Opened(r, p, t, h)
      /\ Expiring(st, t, h, w) /\ Booking(r, p, t, w) /\ Ordered(r, p, t, h)
  BY DEF Sound
<1>2. t \in Seq(Statement)
  BY <1>1 DEF Coded
<1>3. v \in Seq(Statement) /\ ToSet(v) = ToSet(u) \cup ToSet(t)
  BY <1>2, ConcatFacts
<1>4. Followed(v) /\ Preceded(v, w)
  <2>1. Followed(u) /\ Preceded(u, w)
    BY PlainFollows
  <2> QED BY <1>1, <1>2, <2>1, ConcatFollows
<1> HIDE DEF v
<1>5. Coded(r, p, v, h, w)
  BY <1>1, <1>3 DEF Coded, Kinds
<1>6. \A g, x : Coming(t, g, x) => Coming(v, g, x)
  BY <1>3 DEF Coming
<1>7. Entered(v, h, w) /\ Apart(st, v, w)
  BY <1>1, <1>6 DEF Entered, Apart
<1>8. Opened(r, p, v, h)
  BY <1>1 DEF Opened
<1>9. Expiring(st, v, h, w) /\ Booking(r, p, v, w)
  BY <1>1, <1>3 DEF Expiring, Booking
<1>10. Ordered(r, p, v, h)
  <2>1. Kinds(v, {"find", "write", "key", "sweep", "log"})
    BY <1>5 DEF Coded
  <2>2. NoEvents(v)
    BY <2>1, NoEventKinds
  <2>3. CASE p = "book"
    <3>1. Kind[r] = "sync" /\ SyncLocks(r) \subseteq h
      BY <1>1, <2>3 DEF Coded, PhaseOf, Opened
    <3>2. <<CheckoutRow(About(r)), "UPDATE">> \in h
      BY <3>1, HasCheckout
    <3> QED BY <2>2, <3>2 DEF Ordered
  <2>4. CASE p = "claim"
    <3>1. Kind[r] = "claim"
      BY <1>1, <2>4 DEF Coded, PhaseOf
    <3> QED BY <3>1 DEF Ordered
  <2> QED BY <2>3, <2>4
<1>11. Sound(r, st, p, v, h, w)
  BY <1>1, <1>4, <1>5, <1>7, <1>8, <1>9, <1>10 DEF Sound
<1> QED BY <1>11 DEF v

LEMMA FindLapsedStep ==
    ASSUME LockInv, NEW r \in Request, FindLapsed(r)
    PROVE  LockInv'
<1> DEFINE g == Head(todo[r]).group
           found == {f \in Sharing(g) : View(r, f) = "PENDING" /\ CheckoutOf[f] \in lapsed}
           sweeps(q) == [i \in DOMAIN q |-> Sweep(q[i])]
           logs(q) == [i \in DOMAIN q |-> Log(q[i])]
<1>1. /\ todo[r] # <<>> /\ Head(todo[r]).do = "find"
      /\ UNCHANGED <<committed, lapsed, phase, held, wrote>>
  BY DEF FindLapsed
<1>2. PICK q \in SetToSeqs(found) :
          todo' = [todo EXCEPT ![r] = sweeps(q) \o logs(q) \o Tail(todo[r])]
  BY DEF FindLapsed
<1>3. PICK n \in Nat : q \in [1..n -> Group]
  <2>1. found \in SUBSET Group /\ IsFiniteSet(found)
    BY FS_Subset, LockAssumption DEF Sharing
  <2>2. Cardinality(found) \in Nat
    BY <2>1, FS_CardinalityType
  <2> HIDE DEF found
  <2>3. q \in [1..Cardinality(found) -> found]
    BY <1>2 DEF SetToSeqs
  <2> QED BY <2>1, <2>2, <2>3
<1>4. /\ sweeps(q) \in Seq(Statement) /\ logs(q) \in Seq(Statement)
      /\ \A s \in ToSet(sweeps(q)) \cup ToSet(logs(q)) : s.do \in {"sweep", "log"}
  <2>1. \A i \in 1..n : Sweep(q[i]) \in Statement /\ Log(q[i]) \in Statement
    BY <1>3, Statements
  <2>2. sweeps(q) \in [1..n -> Statement] /\ logs(q) \in [1..n -> Statement]
    BY <1>3, <2>1
  <2>3. \A S : \A f \in [1..n -> S] : f \in Seq(S)
    OBVIOUS
  <2>4. \A i \in 1..n : Sweep(q[i]).do = "sweep" /\ Log(q[i]).do = "log"
    BY DEF Sweep, Log
  <2>5. DOMAIN q = 1..n
    BY <1>3
  <2> QED BY <2>2, <2>3, <2>4, <2>5 DEF ToSet
<1> HIDE DEF sweeps, logs, found, g
<1> DEFINE u == sweeps(q) \o logs(q)
<1>5. u \in Seq(Statement) /\ \A s \in ToSet(u) : s.do \in {"sweep", "log"}
  BY <1>4, ConcatFacts
<1> HIDE DEF u
<1>6. /\ Sound(r, booking_status, phase[r], Tail(todo[r]), held[r], wrote[r])
      /\ phase[r] \in {"book", "claim"}
  BY <1>1, SoundNow, DropSound
<1>7. Sound(r, booking_status, phase[r], u \o Tail(todo[r]), held[r], wrote[r])
  BY <1>5, <1>6, SweepsSound
<1>8. todo' = [todo EXCEPT ![r] = u \o Tail(todo[r])]
  BY <1>2 DEF u
<1>9. /\ phase' = [phase EXCEPT ![r] = phase[r]] /\ held' = [held EXCEPT ![r] = held[r]]
      /\ wrote' = [wrote EXCEPT ![r] = wrote[r]]
  <2>1. phase' = phase /\ held' = held /\ wrote' = wrote
    BY <1>1
  <2> QED BY <2>1, Same
<1>10. phase[r] \in Phase /\ \A o \in Request \ {r} : Compatible(held[r], held[o])
  BY SoundNow
<1>11. UNCHANGED <<committed, lapsed>>
  BY <1>1
<1> QED BY <1>7, <1>8, <1>9, <1>10, <1>11, FrameUncommitted

\* A transaction that has ended.
LEMMA DoneSound ==
    ASSUME NEW r \in Request, NEW st, Exclusive(st)
    PROVE  Sound(r, st, "done", <<>>, {}, <<>>)
<1>1. DOMAIN <<>> = {} /\ ToSet(<<>>) = {} /\ <<>> \in Seq(Statement)
  BY DEF ToSet
<1>2. Coded(r, "done", <<>>, {}, <<>>)
  BY <1>1 DEF Coded, PhaseOf
<1>3. Locked({}, <<>>) /\ Followed(<<>>) /\ Preceded(<<>>, <<>>) /\ Entered(<<>>, {}, <<>>)
  BY <1>1 DEF Locked, Followed, Preceded, Entered
<1>4. Apart(st, <<>>, <<>>)
  BY <1>1, ExclusiveMeans DEF Apart, ViewOf
<1>5. Owned(st, {}, <<>>) /\ Opened(r, "done", <<>>, {})
  BY DEF Owned, Holds, Opened
<1>6. Expiring(st, <<>>, {}, <<>>) /\ Booking(r, "done", <<>>, <<>>) /\ Ordered(r, "done", <<>>, {})
  BY <1>1 DEF Expiring, Booking, Ordered
<1> QED BY <1>2, <1>3, <1>4, <1>5, <1>6 DEF Sound

LEMMA EndStep ==
    ASSUME LockInv, NEW r \in Request, End(r), UNCHANGED <<committed, lapsed>>
    PROVE  LockInv'
<1>1. /\ phase' = [phase EXCEPT ![r] = "done"] /\ todo' = [todo EXCEPT ![r] = <<>>]
      /\ held' = [held EXCEPT ![r] = {}] /\ wrote' = [wrote EXCEPT ![r] = <<>>]
  BY DEF End
<1>2. Sound(r, booking_status, "done", <<>>, {}, <<>>)
  BY SoundNow, DoneSound
<1>3. \A q \in Request \ {r} : Compatible({}, held[q])
  BY DEF Compatible
<1>4. "done" \in Phase
  BY DEF Phase
<1> QED BY <1>1, <1>2, <1>3, <1>4, FrameUncommitted


LEMMA RefusedStep ==
    ASSUME LockInv, NEW r \in Request, Refused(r)
    PROVE  LockInv'
BY EndStep DEF Refused

LEMMA VictimStep ==
    ASSUME LockInv, NEW r \in Request, Victim(r)
    PROVE  LockInv'
BY EndStep DEF Victim

\* A transaction that has written nothing.
LEMMA FreshSound ==
    ASSUME NEW r \in Request, NEW st, Exclusive(st), NEW p, NEW t, NEW h,
           Coded(r, p, t, h, <<>>), Followed(t), Preceded(t, <<>>), Owned(st, h, <<>>),
           Opened(r, p, t, h), Booking(r, p, t, <<>>), Ordered(r, p, t, h),
           \A s \in ToSet(t) : s.do = "write" /\ s.to = "EXPIRED" =>
              st[s.group] = "PENDING" /\ HoldsStrongly(h, GroupRow(s.group))
    PROVE  Sound(r, st, p, t, h, <<>>)
<1>1. DOMAIN <<>> = {}
  OBVIOUS
<1>2. Locked(h, <<>>) /\ Entered(t, h, <<>>) /\ Expiring(st, t, h, <<>>)
  BY <1>1 DEF Locked, Entered, Expiring
<1>3. Apart(st, t, <<>>)
  BY <1>1, ExclusiveMeans DEF Apart, ViewOf
<1> QED BY <1>2, <1>3 DEF Sound

\* What _apply and cancel have when they decide.
HasLocks(r, st, h) ==
    /\ Exclusive(st) /\ Owned(st, h, <<>>) /\ \A l \in h : l[2] \in Mode
    /\ <<CheckoutRow(About(r)), "UPDATE">> \in h
    /\ Kind[r] = "sync" => SyncLocks(r) \subseteq h

LEMMA NothingWritten ==
    ASSUME NEW r, NEW t, NEW h, NEW to
    PROVE  /\ DOMAIN <<>> = {}
           /\ (\A s \in ToSet(t) : s.do = "write" => s.to \in to) => Writes(t, <<>>, to)
<1>1. DOMAIN <<>> = {}
  OBVIOUS
<1> QED BY <1>1 DEF Writes

LEMMA EndHoldSound ==
    ASSUME NEW r \in Request, Kind[r] = "sync", NEW p \in {"declined", "backed out", "lost"},
           NEW to \in OffCalendar, NEW h, HasLocks(r, booking_status, h)
    PROVE  Sound(r, booking_status, p, EndHold(r, to), h, <<>>)
<1> DEFINE t == EndHold(r, to)
<1>0. HoldCode(r, booking_status, to, t)
  BY EndHoldProgram
<1> HIDE DEF t
<1>1. /\ t \in Seq(Statement)
      /\ \A s \in ToSet(t) :
            /\ s.do = "write" /\ s.to = to /\ s.group \in ToSet(Subject[r])
            /\ booking_status[s.group] = "PENDING"
  BY <1>0 DEF HoldCode
<1>2. Kinds(t, {"lock", "write"}) /\ Writes(t, <<>>, OffCalendar)
  BY <1>1, NothingWritten DEF Kinds
<1>3. Coded(r, p, t, h, <<>>)
  BY <1>1, <1>2, NothingWritten DEF Coded, PhaseOf, HasLocks
<1>4. Followed(t) /\ Preceded(t, <<>>)
  BY <1>1, PlainFollows DEF OffCalendar, Occupying
<1>5. Opened(r, p, t, h) /\ Booking(r, p, t, <<>>)
  BY DEF Opened, Booking, HasLocks
<1>6. Ordered(r, p, t, h)
  BY <1>2, NoEventKinds DEF Ordered, HasLocks
<1>7. \A s \in ToSet(t) : HoldsStrongly(h, GroupRow(s.group))
  BY <1>1, HasGroup DEF HasLocks
<1>8. Sound(r, booking_status, p, t, h, <<>>)
  BY <1>1, <1>3, <1>4, <1>5, <1>6, <1>7, FreshSound DEF HasLocks
<1> QED BY <1>8 DEF t

LEMMA BookSound ==
    ASSUME NEW r \in Request, Kind[r] = "sync", NEW t \in {LiveRuns(r), LateRuns(r)},
           NEW st, NEW h, HasLocks(r, st, h)
    PROVE  Sound(r, st, "book", t, h, <<>>)
<1>1. BookingCode(r, t)
  BY BookingProgram
<1>2. Kinds(t, {"find", "write", "key"})
  BY <1>1 DEF BookingCode
<1>3. Kinds(t, {"find", "write", "key", "sweep", "log"})
  BY <1>2 DEF Kinds
<1>4. Coded(r, "book", t, h, <<>>)
  BY <1>1, <1>3, NothingWritten DEF Coded, PhaseOf, HasLocks, BookingCode
<1>5. Followed(t) /\ Preceded(t, <<>>)
  BY <1>1 DEF BookingCode
<1>6. Opened(r, "book", t, h)
  BY DEF Opened, HasLocks
<1>7. Ordered(r, "book", t, h)
  BY <1>2, NoEventKinds DEF Ordered, HasLocks
<1>8. Booking(r, "book", t, <<>>)
  <2>1. \A g : Write(g, "CONFIRMED").do = "write" /\ Write(g, "CONFIRMED").group = g
               /\ Write(g, "CONFIRMED").to = "CONFIRMED"
    BY DEF Write
  <2> QED BY <1>1, <2>1 DEF Booking, BookingCode
<1>9. \A s \in ToSet(t) : ~ (s.do = "write" /\ s.to = "EXPIRED")
  BY <1>1 DEF BookingCode
<1> QED BY <1>4, <1>5, <1>6, <1>7, <1>8, <1>9, FreshSound DEF HasLocks

\* The locks of SyncOpens are no entries of the slot index.
LEMMA SyncLocksFacts ==
    ASSUME NEW r \in Request, Kind[r] = "sync"
    PROVE  /\ \A l \in SyncLocks(r) : l[2] \in Mode /\ \A x : l[1] # SlotKey(x)
           /\ \A st : Owned(st, SyncLocks(r), <<>>)
<1>1. ASSUME NEW l \in SyncLocks(r) PROVE l[2] \in Mode /\ \A x : l[1] # SlotKey(x)
  <2>1. PICK s \in ToSet(SyncOpens(r)) : l = <<s.row, s.mode>>
    BY DEF SyncLocks
  <2>2. s.do \in {"lock", "event"} /\ s \in Statement
    BY SyncOpensProgram DEF Kinds, ToSet
  <2>3. Fits(s)
    BY <2>2, StatementFits
  <2> QED BY <2>1, <2>2, <2>3 DEF Fits
<1> QED BY <1>1 DEF Owned, Holds

LEMMA TakenBackStep ==
    ASSUME LockInv, NEW r \in Request, TakenBack(r)
    PROVE  LockInv'
<1> DEFINE h == SyncLocks(r)
           t == EndHold(r, "EXPIRED")
<1>1. /\ phase[r] = "book"
      /\ phase' = [phase EXCEPT ![r] = "lost"] /\ todo' = [todo EXCEPT ![r] = t]
      /\ held' = [held EXCEPT ![r] = h] /\ wrote' = [wrote EXCEPT ![r] = <<>>]
      /\ UNCHANGED <<committed, lapsed>>
  BY DEF TakenBack, SyncLocks
<1>2. /\ Kind[r] = "sync" /\ h \subseteq held[r]
  BY <1>1, SoundNow DEF Sound, Coded, PhaseOf, Opened
<1>3. HasLocks(r, booking_status, h)
  BY <1>2, SyncLocksFacts, HasCheckout, SoundNow DEF HasLocks
<1>4. Sound(r, booking_status, "lost", t, h, <<>>)
  BY <1>2, <1>3, EndHoldSound DEF OffCalendar
<1>5. \A q \in Request \ {r} : Compatible(h, held[q])
  BY <1>2, SoundNow DEF Compatible
<1>6. "lost" \in Phase
  BY DEF Phase
<1>7. UNCHANGED <<committed, lapsed>>
  BY <1>1
<1> HIDE DEF h, t
<1> QED BY <1>1, <1>4, <1>5, <1>6, <1>7, FrameUncommitted

LEMMA LapseStep ==
    ASSUME LockInv, NEW c \in Checkout, Lapse(c)
    PROVE  LockInv'
<1>1. /\ lapsed' \subseteq Checkout
      /\ booking_status' = booking_status /\ verdict' = verdict /\ seen' = seen
      /\ phase' = phase /\ todo' = todo /\ held' = held /\ wrote' = wrote
  BY DEF Lapse, LockInv, TypeOK, committed, transaction
<1>2. TypeOK'
  BY <1>1 DEF LockInv, TypeOK
<1> QED BY <1>1, <1>2 DEF LockInv, Disjoint, PerRequest


LEMMA HasLocksNow ==
    ASSUME LockInv, NEW r \in Request, phase[r] = "locking", todo[r] = <<>>
    PROVE  HasLocks(r, booking_status, held[r]) /\ wrote[r] = <<>>
<1>1. Sound(r, booking_status, "locking", <<>>, held[r], wrote[r]) /\ Exclusive(booking_status)
  BY SoundNow
<1>2. ToSet(<<>>) = {}
  BY DEF ToSet
<1>3. /\ wrote[r] = <<>> /\ Kind[r] \in {"sync", "cancel"}
      /\ \A l \in held[r] : l[2] \in Mode
      /\ Owned(booking_status, held[r], wrote[r])
  BY <1>1 DEF Sound, Coded, PhaseOf
<1>4. Ordered(r, "locking", <<>>, held[r]) /\ Opened(r, "locking", <<>>, held[r])
  BY <1>1 DEF Sound
<1>5. <<CheckoutRow(About(r)), "UPDATE">> \in held[r]
  BY <1>3, <1>4 DEF Ordered, OpensCheckout
<1>6. Kind[r] = "sync" => SyncLocks(r) \subseteq held[r]
  BY <1>2, <1>4 DEF Opened, SyncLocks
<1> QED BY <1>1, <1>3, <1>5, <1>6 DEF HasLocks

LEMMA ProceedStep ==
    ASSUME LockInv, NEW r \in Request, NEW p \in Phase, NEW t, Proceed(r, p, t),
           Sound(r, booking_status, p, t, held[r], wrote[r])
    PROVE  LockInv'
<1>1. /\ phase' = [phase EXCEPT ![r] = p] /\ todo' = [todo EXCEPT ![r] = t]
      /\ held' = held /\ wrote' = wrote
  BY DEF Proceed
<1>2. held' = [held EXCEPT ![r] = held[r]] /\ wrote' = [wrote EXCEPT ![r] = wrote[r]]
  BY <1>1, Same
<1>3. \A q \in Request \ {r} : Compatible(held[r], held[q])
  BY SoundNow
<1>4. UNCHANGED <<committed, lapsed>>
  BY DEF Proceed
<1> QED BY <1>1, <1>2, <1>3, <1>4, FrameUncommitted

LEMMA FlagSound ==
    ASSUME NEW r \in Request, Kind[r] = "sync", NEW st, NEW h, HasLocks(r, st, h)
    PROVE  Sound(r, st, "flag", <<>>, h, <<>>)
<1>1. DOMAIN <<>> = {} /\ ToSet(<<>>) = {} /\ <<>> \in Seq(Statement)
  BY DEF ToSet
<1>2. Coded(r, "flag", <<>>, h, <<>>)
  BY <1>1 DEF Coded, PhaseOf, Kinds, HasLocks
<1>3. Followed(<<>>) /\ Preceded(<<>>, <<>>)
  BY <1>1 DEF Followed, Preceded
<1>4. Opened(r, "flag", <<>>, h) /\ Booking(r, "flag", <<>>, <<>>)
  BY DEF Opened, Booking
<1>5. Ordered(r, "flag", <<>>, h)
  BY <1>1 DEF Ordered, NoEvents, HasLocks
<1> QED BY <1>1, <1>2, <1>3, <1>4, <1>5, FreshSound DEF HasLocks

LEMMA DecideStep ==
    ASSUME LockInv, NEW r \in Request, Decide(r)
    PROVE  LockInv'
<1>1. phase[r] = "locking" /\ todo[r] = <<>> /\ Kind[r] = "sync"
  BY DEF Decide
<1>2. HasLocks(r, booking_status, held[r]) /\ wrote[r] = <<>>
  BY <1>1, HasLocksNow
<1>3. \/ Proceed(r, "flag", <<>>)
      \/ \E p \in {"declined", "backed out", "lost"}, to \in OffCalendar :
            Proceed(r, p, EndHold(r, to))
      \/ Proceed(r, "book", LiveRuns(r)) \/ Proceed(r, "book", LateRuns(r))
  <2>1. "CANCELLED" \in OffCalendar /\ "EXPIRED" \in OffCalendar
    BY DEF OffCalendar
  <2>2. \A c : IF c \in lapsed THEN "EXPIRED" \in OffCalendar ELSE "CANCELLED" \in OffCalendar
    BY <2>1
  <2>3. (IF About(r) \in lapsed THEN "EXPIRED" ELSE "CANCELLED") \in OffCalendar
    BY <2>1
  <2> QED BY <2>1, <2>3 DEF Decide
<1>4. {"flag", "declined", "backed out", "lost", "book"} \subseteq Phase
  BY DEF Phase
<1>5. CASE Proceed(r, "flag", <<>>)
  <2>1. Sound(r, booking_status, "flag", <<>>, held[r], wrote[r])
    BY <1>1, <1>2, FlagSound
  <2> QED BY <1>4, <1>5, <2>1, ProceedStep
<1>6. ASSUME NEW p \in {"declined", "backed out", "lost"}, NEW to \in OffCalendar,
             Proceed(r, p, EndHold(r, to))
      PROVE  LockInv'
  <2>1. Sound(r, booking_status, p, EndHold(r, to), held[r], wrote[r])
    BY <1>1, <1>2, EndHoldSound
  <2>2. p \in Phase
    BY <1>4
  <2> QED BY <1>6, <2>1, <2>2, ProceedStep
<1>7. ASSUME NEW t \in {LiveRuns(r), LateRuns(r)}, Proceed(r, "book", t)
      PROVE  LockInv'
  <2>1. Sound(r, booking_status, "book", t, held[r], wrote[r])
    BY <1>1, <1>2, BookSound
  <2> QED BY <1>4, <1>7, <2>1, ProceedStep
<1> QED BY <1>3, <1>5, <1>6, <1>7

LEMMA DecideCancelStep ==
    ASSUME LockInv, NEW r \in Request, DecideCancel(r)
    PROVE  LockInv'
<1>1. phase[r] = "locking" /\ todo[r] = <<>> /\ Kind[r] = "cancel"
  BY DEF DecideCancel
<1>2. HasLocks(r, booking_status, held[r]) /\ wrote[r] = <<>>
  BY <1>1, HasLocksNow
<1>3. CASE Proceed(r, "cancel", CancelRuns(r))
  <2> DEFINE t == CancelRuns(r)
  <2>1. /\ t \in Seq(Statement) /\ Kinds(t, {"lock", "write"})
        /\ \A s \in ToSet(t) : s.do = "write" => s.to = "CANCELLED"
    BY <1>1, CancelProgram
  <2>2. t = CancelRuns(r)
    OBVIOUS
  <2> HIDE DEF t
  <2>3. Writes(t, <<>>, OffCalendar)
    BY <2>1, NothingWritten DEF OffCalendar
  <2>4. Coded(r, "cancel", t, held[r], <<>>)
    BY <1>1, <1>2, <2>1, <2>3, NothingWritten DEF Coded, PhaseOf, HasLocks
  <2>5. Followed(t) /\ Preceded(t, <<>>)
    <3>1. \A s \in ToSet(t) : s.do # "key" /\ (s.do = "write" => s.to \notin Occupying)
      BY <2>1 DEF Kinds, Occupying
    <3> QED BY <3>1, PlainFollows
  <2>6. Opened(r, "cancel", t, held[r]) /\ Booking(r, "cancel", t, <<>>)
    BY DEF Opened, Booking
  <2>7. Ordered(r, "cancel", t, held[r])
    BY <1>2, <2>1, NoEventKinds DEF Ordered, HasLocks
  <2>8. Sound(r, booking_status, "cancel", t, held[r], <<>>)
    BY <1>2, <2>1, <2>4, <2>5, <2>6, <2>7, FreshSound DEF HasLocks
  <2>9. "cancel" \in Phase
    BY DEF Phase
  <2> QED BY <1>2, <1>3, <2>2, <2>8, <2>9, ProceedStep
<1>4. CASE End(r) /\ UNCHANGED <<committed, lapsed>>
  BY <1>4, EndStep
<1> QED BY <1>3, <1>4 DEF DecideCancel

LEMMA DeskReadsStep ==
    ASSUME LockInv, NEW r \in Request, DeskReads(r)
    PROVE  LockInv'
<1> DEFINE g == Subject[r][1]
<1>1. /\ phase[r] = "idle"
      /\ \E p \in {<<Write(g, "CANCELLED")>>, <<Write(g, "COMPLETED")>> \o Keys(g),
                   <<Lock(GroupRow(g), "NO KEY UPDATE")>>} :
            Proceed(r, "desk", DeskRuns(r, p))
  BY DEF DeskReads
<1>2. PICK t : Proceed(r, "desk", t) /\ DeskCode(r, t)
  BY <1>1, DeskProgram
<1>3. /\ Sound(r, booking_status, "idle", todo[r], held[r], wrote[r])
      /\ Exclusive(booking_status)
  BY <1>1, SoundNow
<1>4. held[r] = {} /\ wrote[r] = <<>> /\ Kind[r] = "desk"
  BY <1>3 DEF Sound, Coded, PhaseOf
<1>5. Writes(t, <<>>, {"CANCELLED"}) \/ Writes(t, <<>>, {"COMPLETED"})
  BY <1>2, NothingWritten DEF DeskCode
<1>6. Coded(r, "desk", t, {}, <<>>)
  BY <1>2, <1>4, <1>5, NothingWritten DEF Coded, PhaseOf, DeskCode
<1>7. /\ Owned(booking_status, {}, <<>>) /\ Opened(r, "desk", t, {})
      /\ Booking(r, "desk", t, <<>>) /\ Ordered(r, "desk", t, {})
  BY <1>4 DEF Owned, Holds, Opened, Booking, Ordered
<1>8. \A s \in ToSet(t) : ~ (s.do = "write" /\ s.to = "EXPIRED")
  BY <1>2 DEF DeskCode
<1>9. Followed(t) /\ Preceded(t, <<>>)
  BY <1>2 DEF DeskCode
<1>10. Sound(r, booking_status, "desk", t, held[r], wrote[r])
  BY <1>3, <1>4, <1>6, <1>7, <1>8, <1>9, FreshSound
<1>11. "desk" \in Phase
  BY DEF Phase
<1> QED BY <1>2, <1>10, <1>11, ProceedStep


\* What one transaction commits disturbs no other: it has the rows of what
\* it wrote and the entries of what it put on the calendar.
LEMMA CommitKeeps ==
    ASSUME NEW st, NEW h, NEW w, Entered(<<>>, h, w), Locked(h, w),
           NEW st1, st1 = [g \in Group |-> ViewOf(st, w, g)], Exclusive(st1),
           NEW q, NEW p, NEW t, NEW k, NEW v, Sound(q, st, p, t, k, v), Compatible(h, k)
    PROVE  Sound(q, st1, p, t, k, v)
<1>1. /\ Coded(q, p, t, k, v) /\ Locked(k, v) /\ Followed(t) /\ Preceded(t, v)
      /\ Entered(t, k, v) /\ Apart(st, t, v) /\ Owned(st, k, v) /\ Opened(q, p, t, k)
      /\ Expiring(st, t, k, v) /\ Booking(q, p, t, v) /\ Ordered(q, p, t, k)
  BY DEF Sound
<1>2. ASSUME NEW g \in Group, g \notin DOMAIN w PROVE st1[g] = st[g]
  BY <1>2 DEF ViewOf
<1>3. ASSUME NEW g \in DOMAIN w, HoldsStrongly(k, GroupRow(g)) PROVE FALSE
  <2>1. PICK l \in h : l[1] = GroupRow(g) /\ l[2] \in Strong
    BY DEF Locked, HoldsStrongly
  <2>2. PICK m \in k : m[1] = GroupRow(g) /\ m[2] \in Strong
    BY <1>3 DEF HoldsStrongly
  <2>3. Conflict(l[2], m[2])
    BY <2>1, <2>2, ConflictFacts
  <2> QED BY <2>1, <2>2, <2>3 DEF Compatible
<1>4. ASSUME NEW g \in Group, g \in DOMAIN w, st1[g] \in Occupying, NEW x \in ToSet(Hours[g]),
             Holds(k, SlotKey(x))
      PROVE  FALSE
  <2>1. w[g] \in Occupying
    BY <1>4 DEF ViewOf
  <2>2. ~ Coming(<<>>, g, x)
    BY DEF Coming, ToSet
  <2> DEFINE l == <<SlotKey(x), "UPDATE">>
  <2>3. l \in h
    BY <1>4, <2>1, <2>2 DEF Entered
  <2>4. l[1] = SlotKey(x) /\ l[2] = "UPDATE"
    OBVIOUS
  <2>5. PICK m \in k : m[1] = SlotKey(x)
    BY <1>4 DEF Holds
  <2>6. Conflict("UPDATE", m[2])
    BY ConflictFacts
  <2> HIDE DEF l
  <2> QED BY <2>3, <2>4, <2>5, <2>6 DEF Compatible
<1>5. Owned(st1, k, v)
  <2>1. ASSUME NEW g \in Group, NEW x \in ToSet(Hours[g]), Holds(k, SlotKey(x)),
               st1[g] \in Occupying
        PROVE  g \in DOMAIN v
    <3>1. g \notin DOMAIN w
      BY <1>4, <2>1
    <3> QED BY <1>1, <1>2, <2>1, <3>1 DEF Owned
  <2> QED BY <2>1 DEF Owned
<1>6. Apart(st1, t, v)
  <2>1. ASSUME NEW f \in Group, NEW g \in Group, NEW x \in ToSet(Hours[f]) \cap ToSet(Hours[g]),
               f # g, f \in DOMAIN v, g \notin DOMAIN v,
               v[f] \in Occupying, st1[g] \in Occupying
        PROVE  Coming(t, f, x) \/ Coming(t, g, x)
    <3>1. CASE g \in DOMAIN w
      <4>1. <<SlotKey(x), "UPDATE">> \in k \/ Coming(t, f, x)
        BY <1>1, <2>1 DEF Entered
      <4>2. <<SlotKey(x), "UPDATE">> \in k => Holds(k, SlotKey(x))
        <5> DEFINE l == <<SlotKey(x), "UPDATE">>
        <5>1. l[1] = SlotKey(x)
          OBVIOUS
        <5> HIDE DEF l
        <5>2. l \in k => Holds(k, SlotKey(x))
          BY <5>1 DEF Holds
        <5> QED BY <5>2 DEF l
      <4> QED BY <1>4, <2>1, <3>1, <4>1, <4>2
    <3>2. CASE g \notin DOMAIN w
      <4>1. st1[g] = st[g]
        BY <1>2, <3>2
      <4> QED BY <1>1, <2>1, <4>1 DEF Apart, ViewOf
    <3> QED BY <3>1, <3>2
  <2>2. ASSUME NEW f \in Group, NEW g \in Group, NEW x \in ToSet(Hours[f]) \cap ToSet(Hours[g]),
               f # g, ViewOf(st1, v, f) \in Occupying, ViewOf(st1, v, g) \in Occupying
        PROVE  Coming(t, f, x) \/ Coming(t, g, x)
    <3>1. CASE f \in DOMAIN v /\ g \in DOMAIN v
      BY <1>1, <2>2, <3>1 DEF Apart, ViewOf
    <3>2. CASE f \notin DOMAIN v /\ g \notin DOMAIN v
      BY <2>2, <3>2, ExclusiveMeans DEF ViewOf
    <3>3. CASE f \in DOMAIN v /\ g \notin DOMAIN v
      BY <2>1, <2>2, <3>3 DEF ViewOf
    <3>4. CASE g \in DOMAIN v /\ f \notin DOMAIN v
      <4>1. x \in ToSet(Hours[g]) \cap ToSet(Hours[f])
        OBVIOUS
      <4> QED BY <2>1, <2>2, <3>4, <4>1 DEF ViewOf
    <3> QED BY <3>1, <3>2, <3>3, <3>4
  <2> QED BY <2>2 DEF Apart
<1>7. Expiring(st1, t, k, v)
  <2>1. ASSUME NEW g \in DOMAIN v, v[g] = "EXPIRED" PROVE st1[g] = "PENDING"
    <3>1. HoldsStrongly(k, GroupRow(g)) /\ g \in Group
      BY <1>1 DEF Locked, Coded
    <3>2. g \notin DOMAIN w
      BY <1>3, <3>1
    <3> QED BY <1>1, <1>2, <2>1, <3>1, <3>2 DEF Expiring
  <2>2. ASSUME NEW s \in ToSet(t), s.do = "write", s.to = "EXPIRED"
        PROVE  st1[s.group] = "PENDING" /\ HoldsStrongly(k, GroupRow(s.group))
    <3>1. HoldsStrongly(k, GroupRow(s.group)) /\ st[s.group] = "PENDING"
      BY <1>1, <2>2 DEF Expiring
    <3>2. s.group \in Group
      <4>1. t \in Seq(Statement)
        BY <1>1 DEF Coded
      <4>2. \A i \in DOMAIN t : t[i] \in Statement
        BY <4>1
      <4>3. s \in Statement
        BY <4>2 DEF ToSet
      <4> QED BY <2>2, <4>3, StatementFits DEF Fits
    <3>3. s.group \notin DOMAIN w
      BY <1>3, <3>1
    <3> QED BY <1>2, <3>1, <3>2, <3>3
  <2> QED BY <2>1, <2>2 DEF Expiring
<1> QED BY <1>1, <1>5, <1>6, <1>7 DEF Sound

\* The undo after a commit, and the flag if it fails, lock the checkout anew.
LEMMA AgainSound ==
    ASSUME NEW r \in Request, Kind[r] = "sync", NEW st, Exclusive(st), NEW p \in {"undo", "flag"},
           NEW t, LockingCode(r, t)
    PROVE  Sound(r, st, p, t, {}, <<>>)
<1>1. t \in Seq(Statement) /\ OpensCheckout(r, t) /\ Kinds(t, {"lock"})
  BY DEF LockingCode
<1>2. Kinds(t, {"lock", "event"}) /\ \A s \in ToSet(t) : s.do = "lock"
  BY <1>1 DEF Kinds
<1>3. Coded(r, p, t, {}, <<>>)
  BY <1>1, <1>2, NothingWritten DEF Coded, PhaseOf
<1>4. Followed(t) /\ Preceded(t, <<>>)
  BY <1>2, PlainFollows
<1>5. /\ Owned(st, {}, <<>>) /\ Opened(r, p, t, {}) /\ Booking(r, p, t, <<>>)
      /\ Ordered(r, p, t, {})
  BY <1>1 DEF Owned, Holds, Opened, Booking, Ordered
<1>6. \A s \in ToSet(t) : ~ (s.do = "write" /\ s.to = "EXPIRED")
  BY <1>2
<1> QED BY <1>3, <1>4, <1>5, <1>6, FreshSound

LEMMA CommitStep ==
    ASSUME LockInv, NEW r \in Request, Commit(r)
    PROVE  LockInv'
<1> DEFINE st1 == [g \in Group |-> ViewOf(booking_status, wrote[r], g)]
<1>1. /\ phase[r] \notin {"idle", "locking", "done"} /\ todo[r] = <<>>
      /\ booking_status' = [g \in Group |-> View(r, g)]
      /\ verdict' = IF phase[r] \in {"flag", "desk", "claim"} THEN verdict
                    ELSE [verdict EXCEPT ![About(r)] = VerdictAfter(r)]
      /\ seen' = IF Kind[r] = "sync" THEN seen \cup {Notice[r]} ELSE seen
      /\ lapsed' = lapsed
  BY DEF Commit
<1>2. booking_status' = st1
  BY <1>1, ViewIs
<1>3. /\ Sound(r, booking_status, phase[r], <<>>, held[r], wrote[r])
      /\ Exclusive(booking_status) /\ phase[r] \in Phase
  BY <1>1, SoundNow
<1>4. /\ Apart(booking_status, <<>>, wrote[r]) /\ Entered(<<>>, held[r], wrote[r])
      /\ Locked(held[r], wrote[r]) /\ Coded(r, phase[r], <<>>, held[r], wrote[r])
  BY <1>3 DEF Sound
<1>5. Exclusive(st1)
  <2>1. \A g, x : ~ Coming(<<>>, g, x)
    BY DEF Coming, ToSet
  <2> QED BY <1>4, <2>1, ExclusiveMeans DEF Apart
<1>6. st1 \in [Group -> BookingStatus]
  <2>1. ASSUME NEW g \in Group PROVE ViewOf(booking_status, wrote[r], g) \in BookingStatus
    BY <1>4 DEF Coded, ViewOf, LockInv, TypeOK, Outcome, OffCalendar, BookingStatus, Occupying
  <2> QED BY <2>1
<1>7. verdict' \in [Checkout -> Verdict]
  <2>1. verdict \in [Checkout -> Verdict]
    BY DEF LockInv, TypeOK
  <2>2. phase[r] \notin {"flag", "desk", "claim"} => VerdictAfter(r) \in Verdict
    BY <1>1, <1>3 DEF VerdictAfter, Verdict, Phase
  <2> QED BY <1>1, <2>1, <2>2
<1>8. seen' \subseteq {Notice[q] : q \in Request}
  BY <1>1 DEF LockInv, TypeOK
<1> HIDE DEF st1
<1>9. ASSUME NEW q \in Request \ {r}
      PROVE  Sound(q, st1, phase[q], todo[q], held[q], wrote[q])
  <2>1. Compatible(held[r], held[q])
    BY SoundNow
  <2>2. Sound(q, booking_status, phase[q], todo[q], held[q], wrote[q])
    BY SoundNow
  <2> QED BY <1>4, <1>5, <2>1, <2>2, CommitKeeps DEF st1
<1>10. \A q \in Request \ {r} : Compatible({}, held[q])
  BY DEF Compatible
<1>11. ASSUME NEW p \in Phase, NEW t, Sound(r, st1, p, t, {}, <<>>),
              phase' = [phase EXCEPT ![r] = p], todo' = [todo EXCEPT ![r] = t],
              held' = [held EXCEPT ![r] = {}], wrote' = [wrote EXCEPT ![r] = <<>>]
       PROVE  LockInv'
  <2>1. /\ booking_status' \in [Group -> BookingStatus] /\ Exclusive(booking_status')
        /\ Sound(r, booking_status', p, t, {}, <<>>)
        /\ \A q \in Request \ {r} :
              /\ Sound(q, booking_status', phase[q], todo[q], held[q], wrote[q])
              /\ Compatible({}, held[q])
    BY <1>2, <1>5, <1>6, <1>9, <1>10, <1>11
  <2>2. lapsed' = lapsed
    BY <1>1
  <2> QED BY <1>7, <1>8, <1>11, <2>1, <2>2, Frame
<1>12. CASE phase[r] = "lost"
  <2>1. PICK p \in {"undo", "flag"}, t \in {UndoRuns(r), UndoFails(r)} :
           /\ phase' = [phase EXCEPT ![r] = p] /\ todo' = [todo EXCEPT ![r] = t]
           /\ held' = [held EXCEPT ![r] = {}] /\ wrote' = [wrote EXCEPT ![r] = <<>>]
    BY <1>12 DEF Commit
  <2>2. Kind[r] = "sync"
    BY <1>4, <1>12 DEF Coded, PhaseOf
  <2>3. LockingCode(r, t)
    BY <2>2, LocksOnly DEF UndoRuns, UndoFails, Mode
  <2>4. Sound(r, st1, p, t, {}, <<>>)
    BY <1>5, <2>2, <2>3, AgainSound
  <2>5. p \in Phase
    BY DEF Phase
  <2> QED BY <1>11, <2>1, <2>4, <2>5
<1>13. CASE phase[r] # "lost"
  <2>1. End(r)
    BY <1>13 DEF Commit
  <2>2. Sound(r, st1, "done", <<>>, {}, <<>>)
    BY <1>5, DoneSound
  <2>3. "done" \in Phase
    BY DEF Phase
  <2> QED BY <1>11, <2>1, <2>2, <2>3 DEF End
<1> QED BY <1>12, <1>13


LEMMA InitInv ==
    ASSUME Init
    PROVE  LockInv
<1>1. /\ verdict \in [Checkout -> {"PENDING", "CANCELLED"}]
      /\ booking_status = [g \in Group |->
            IF CheckoutOf[g] = NoCheckout THEN "absent" ELSE verdict[CheckoutOf[g]]]
      /\ Exclusive(booking_status) /\ lapsed = {} /\ seen = {}
      /\ held = [r \in Request |-> {}] /\ wrote = [r \in Request |-> <<>>]
  BY DEF Init
<1>2. /\ phase = [r \in Request |-> CASE Kind[r] = "desk" -> "idle"
                                       [] Kind[r] = "claim" -> "claim"
                                       [] OTHER -> "locking"]
      /\ todo = [r \in Request |-> CASE Kind[r] = "sync" -> SyncOpens(r)
                                      [] Kind[r] = "cancel" -> CancelOpens(r)
                                      [] Kind[r] = "claim" -> ClaimRuns(r)
                                      [] Kind[r] = "desk" -> <<>>]
  BY DEF Init
<1>3. DOMAIN <<>> = {} /\ ToSet(<<>>) = {} /\ <<>> \in Seq(Statement)
  BY DEF ToSet
<1>4. TypeOK
  <2>1. booking_status \in [Group -> BookingStatus]
    <3>1. \A g \in Group : CheckoutOf[g] \in Checkout \cup {NoCheckout}
      BY LockAssumption
    <3>2. {"absent", "PENDING", "CANCELLED"} \subseteq BookingStatus
      BY DEF BookingStatus, Occupying
    <3> QED BY <1>1, <3>1, <3>2
  <2>2. verdict \in [Checkout -> Verdict]
    BY <1>1 DEF Verdict
  <2>3. phase \in [Request -> Phase]
    BY <1>2 DEF Phase
  <2>4. \A r \in Request : wrote[r] = <<>> /\ held[r] = {}
    BY <1>1
  <2> QED BY <1>1, <1>3, <2>1, <2>2, <2>3, <2>4 DEF TypeOK
<1>5. PerRequest(todo) /\ PerRequest(held) /\ PerRequest(wrote)
  <2> DEFINE opens(r) == CASE Kind[r] = "sync" -> SyncOpens(r)
                           [] Kind[r] = "cancel" -> CancelOpens(r)
                           [] Kind[r] = "claim" -> ClaimRuns(r)
                           [] Kind[r] = "desk" -> <<>>
  <2>1. todo = [r \in Request |-> opens(r)]
    BY <1>2
  <2> HIDE DEF opens
  <2>2. PerRequest(todo)
    BY <2>1 DEF PerRequest
  <2> QED BY <1>1, <2>2 DEF PerRequest
<1>6. Disjoint
  BY <1>1 DEF Disjoint, Compatible
<1>7. ASSUME NEW r \in Request
      PROVE  Sound(r, booking_status, phase[r], todo[r], held[r], wrote[r])
  <2> DEFINE st == booking_status
  <2>1. held[r] = {} /\ wrote[r] = <<>> /\ Exclusive(st) /\ Owned(st, {}, <<>>)
    BY <1>1 DEF Owned, Holds
  <2>2. CASE Kind[r] = "desk"
    <3>1. phase[r] = "idle" /\ todo[r] = <<>>
      BY <1>2, <2>2
    <3>2. Coded(r, "idle", <<>>, {}, <<>>)
      BY <1>3, <2>2 DEF Coded, PhaseOf
    <3>3. /\ Followed(<<>>) /\ Preceded(<<>>, <<>>) /\ Opened(r, "idle", <<>>, {})
          /\ Booking(r, "idle", <<>>, <<>>) /\ Ordered(r, "idle", <<>>, {})
      BY <1>3, <2>2 DEF Followed, Preceded, Opened, Booking, Ordered
    <3> QED BY <1>3, <2>1, <3>1, <3>2, <3>3, FreshSound
  <2>3. CASE Kind[r] = "claim"
    <3> DEFINE t == ClaimRuns(r)
    <3>1. phase[r] = "claim" /\ todo[r] = t
      BY <1>2, <2>3
    <3>2. BookingCode(r, t)
      BY BookingProgram
    <3> HIDE DEF t
    <3>3. Kinds(t, {"find", "write", "key", "sweep", "log"})
      BY <3>2 DEF BookingCode, Kinds
    <3>4. Coded(r, "claim", t, {}, <<>>)
      BY <2>3, <3>2, <3>3, NothingWritten DEF Coded, PhaseOf, BookingCode
    <3>5. /\ Followed(t) /\ Preceded(t, <<>>) /\ Opened(r, "claim", t, {})
          /\ Booking(r, "claim", t, <<>>) /\ Ordered(r, "claim", t, {})
          /\ \A s \in ToSet(t) : ~ (s.do = "write" /\ s.to = "EXPIRED")
      BY <2>3, <3>2 DEF BookingCode, Opened, Booking, Ordered
    <3> QED BY <2>1, <3>1, <3>4, <3>5, FreshSound
  <2>4. CASE Kind[r] = "sync"
    <3> DEFINE t == SyncOpens(r)
    <3>1. phase[r] = "locking" /\ todo[r] = t
      BY <1>2, <2>4
    <3>2. /\ t \in Seq(Statement) /\ t # <<>> /\ Head(t) = RecordEvent(Notice[r])
          /\ OpensCheckout(r, Tail(t)) /\ Kinds(t, {"lock", "event"})
      BY <2>4, SyncOpensProgram
    <3>3. Opened(r, "locking", t, {})
      BY DEF Opened
    <3> HIDE DEF t
    <3>4. \A s \in ToSet(t) : s.do \in {"lock", "event"}
      BY <3>2 DEF Kinds
    <3>5. Coded(r, "locking", t, {}, <<>>)
      BY <2>4, <3>2, NothingWritten DEF Coded, PhaseOf
    <3>6. Followed(t) /\ Preceded(t, <<>>)
      BY <3>4, PlainFollows
    <3>7. Booking(r, "locking", t, <<>>) /\ Ordered(r, "locking", t, {})
      BY <3>2 DEF Booking, Ordered
    <3>8. \A s \in ToSet(t) : ~ (s.do = "write" /\ s.to = "EXPIRED")
      BY <3>4
    <3> QED BY <2>1, <3>1, <3>3, <3>5, <3>6, <3>7, <3>8, FreshSound
  <2>5. CASE Kind[r] = "cancel"
    <3> DEFINE t == CancelOpens(r)
    <3>1. phase[r] = "locking" /\ todo[r] = t
      BY <1>2, <2>5
    <3>2. LockingCode(r, t)
      BY <2>5, LocksOnly
    <3> HIDE DEF t
    <3>3. t \in Seq(Statement) /\ OpensCheckout(r, t) /\ \A s \in ToSet(t) : s.do = "lock"
      BY <3>2 DEF LockingCode, Kinds
    <3>4. Coded(r, "locking", t, {}, <<>>)
      BY <2>5, <3>3, NothingWritten DEF Coded, PhaseOf, Kinds
    <3>5. Followed(t) /\ Preceded(t, <<>>)
      BY <3>3, PlainFollows
    <3>6. /\ Opened(r, "locking", t, {}) /\ Booking(r, "locking", t, <<>>)
          /\ Ordered(r, "locking", t, {})
      BY <2>5, <3>3 DEF Opened, Booking, Ordered
    <3>7. \A s \in ToSet(t) : ~ (s.do = "write" /\ s.to = "EXPIRED")
      BY <3>3
    <3> QED BY <2>1, <3>1, <3>4, <3>5, <3>6, <3>7, FreshSound
  <2> QED BY <2>2, <2>3, <2>4, <2>5, LockAssumption
<1> QED BY <1>1, <1>4, <1>5, <1>6, <1>7 DEF LockInv

LEMMA StepInv ==
    ASSUME LockInv, [Next]_vars
    PROVE  LockInv'
<1>1. CASE UNCHANGED vars
  BY <1>1 DEF LockInv, TypeOK, Disjoint, PerRequest, vars, committed, transaction
<1>2. ASSUME NEW c \in Checkout, Lapse(c) PROVE LockInv'
  BY <1>2, LapseStep
<1>3. ASSUME NEW r \in Request,
             \/ DeskReads(r) \/ Execute(r) \/ Skip(r) \/ FindLapsed(r) \/ Refused(r)
             \/ TakenBack(r) \/ Victim(r) \/ Decide(r) \/ DecideCancel(r) \/ Commit(r)
      PROVE  LockInv'
  BY <1>3, DeskReadsStep, ExecuteStep, SkipStep, FindLapsedStep, RefusedStep, TakenBackStep,
     VictimStep, DecideStep, DecideCancelStep, CommitStep
<1> QED BY <1>1, <1>2, <1>3 DEF Next

\* The invariant of the writers' transactions holds whatever statements of
\* them interleave: sync, cancel, the desk and claims, Postgres's refusals
\* and its choice of a deadlock's victim.
THEOREM LockInvariant == Spec => []LockInv
<1>1. Init => LockInv
  BY InitInv
<1>2. LockInv /\ [Next]_vars => LockInv'
  BY StepInv
<1> QED BY <1>1, <1>2, PTL DEF Spec

-----------------------------------------------------------------------------
(* What the runs check.                                                     *)

\* A request is in one of its phases, writes groups only and holds locks of
\* the three modes; bookings and checkouts have one of their statuses.
THEOREM LocksTyped == Spec => []TypeOK
<1>1. LockInv => TypeOK
  BY DEF LockInv
<1> QED BY <1>1, LockInvariant, PTL

\* No two groups on the calendar share a court-hour, whatever the writers of
\* bookings interleave: set_status with its slot entries, expire_lapsed and
\* insert between two statements of another.
THEOREM HoursStayExclusive == Spec => []HoursExclusive
<1>1. LockInv => HoursExclusive
  BY DEF LockInv, HoursExclusive
<1> QED BY <1>1, LockInvariant, PTL

\* Only the statement that records an event waits for another's event.
LEMMA EventRows ==
    ASSUME NEW s \in Statement, s.do \notin {"find", "event"}, NEW e
    PROVE  s.row # EventKey(e)
<1>1. /\ "webhook_events_provider_event_id_key" # "checkouts"
      /\ "webhook_events_provider_event_id_key" # "booking_groups"
      /\ "webhook_events_provider_event_id_key" # "payments"
  OBVIOUS
<1>2. EventKey(e)[1] = "webhook_events_provider_event_id_key"
  BY DEF EventKey
<1>3. \A row \in Row : row # EventKey(e)
  <2>1. /\ \A c : CheckoutRow(c)[1] = "checkouts"
        /\ \A g : GroupRow(g)[1] = "booking_groups"
        /\ \A c : PaymentRow(c)[1] = "payments"
    BY DEF CheckoutRow, GroupRow, PaymentRow
  <2> QED BY <1>1, <1>2, <2>1 DEF Row
<1>4. CASE s.do = "key"
  <2>1. \E x : s.row = SlotKey(x)
    BY <1>4, StatementFits DEF Fits
  <2> QED BY <2>1, RowsDiffer
<1>5. CASE s.do \in {"write", "sweep"}
  <2>1. s.row \in Row
    BY <1>5, StatementFits DEF Fits, Row
  <2> QED BY <1>3, <2>1
<1>6. CASE s.do \in {"lock", "log"}
  <2>1. /\ \A g, to : Write(g, to).do = "write"
        /\ \A g, x : Key(g, x).do = "key"
        /\ \A g : Find(g).do = "find" /\ Sweep(g).do = "sweep"
        /\ \A f : RecordEvent(f).do = "event"
    BY DEF Write, Key, Find, Sweep, RecordEvent
  <2>2. \/ s \in {Lock(p[1], p[2]) : p \in Row \X Mode}
        \/ s \in {Log(g) : g \in Group}
    BY <1>6, <2>1 DEF Statement
  <2>3. ASSUME NEW p \in Row \X Mode, s = Lock(p[1], p[2]) PROVE s.row \in Row
    <3>1. s.row = p[1] /\ p[1] \in Row
      BY <2>3 DEF Lock
    <3> QED BY <3>1
  <2>4. ASSUME NEW g \in Group, s = Log(g) PROVE s.row \in Row
    BY <2>4, LockAssumption DEF Log, Row
  <2> QED BY <1>3, <2>2, <2>3, <2>4
<1> QED BY <1>4, <1>5, <1>6, StatementFits DEF Fits


LEMMA NoCircle ==
    ASSUME LockInv, NEW c \in Checkout,
           NEW W \in SUBSET {r \in Request : Kind[r] \in {"sync", "cancel"} /\ About(r) = c}
    PROVE  ~ Deadlocked(W)
<1> SUFFICES ASSUME W # {}, \A r \in W : \E q \in W : BlockedBy(r, q)
             PROVE  FALSE
  BY DEF Deadlocked
<1> DEFINE lock == <<CheckoutRow(c), "UPDATE">>
<1>1. lock[1] = CheckoutRow(c) /\ lock[2] = "UPDATE"
  OBVIOUS
<1> HIDE DEF lock
<1>2. ASSUME NEW r \in W
      PROVE  /\ r \in Request /\ About(r) = c /\ todo[r] # <<>> /\ Head(todo[r]).do # "find"
             /\ Head(todo[r]) \in Statement
             /\ Head(todo[r]).do # "event" \/ held[r] = {}
             /\ \/ lock \in held[r] /\ Head(todo[r]).do # "event"
                \/ /\ Head(todo[r]).row = CheckoutRow(c)
                   /\ \A l \in held[r] : l[1] = EventKey(Notice[r])
                \/ held[r] = {}
  <2>1. r \in Request /\ About(r) = c /\ Kind[r] \in {"sync", "cancel"}
    OBVIOUS
  <2>2. todo[r] # <<>> /\ Head(todo[r]).do # "find"
    BY DEF BlockedBy
  <2>3. Ordered(r, phase[r], todo[r], held[r]) /\ Coded(r, phase[r], todo[r], held[r], wrote[r])
    BY <2>1, SoundNow DEF Sound
  <2>4. todo[r] \in Seq(Statement)
    BY <2>3 DEF Coded
  <2>5. 1 \in DOMAIN todo[r] /\ Head(todo[r]) = todo[r][1] /\ Head(todo[r]) \in Statement
    BY ONLY <2>2, <2>4, TailFacts
  <2>6. NoEvents(todo[r]) => Head(todo[r]).do # "event"
    BY <2>5 DEF NoEvents
  <2>7. OpensCheckout(r, todo[r]) => Head(todo[r]).row = CheckoutRow(c) /\ Head(todo[r]).do = "lock"
    BY <2>1 DEF OpensCheckout, Lock
  <2> QED BY <2>1, <2>2, <2>3, <2>5, <2>6, <2>7 DEF Ordered, lock
<1>3. CASE \E r \in W : lock \in held[r]
  <2>1. PICK r \in W : lock \in held[r]
    BY <1>3
  <2>2. PICK q \in W : BlockedBy(r, q)
    OBVIOUS
  <2>3. q # r /\ \E l \in held[q] : l[1] = Head(todo[r]).row
    BY <2>2 DEF BlockedBy
  <2>4. lock \notin held[q]
    <3>1. Compatible(held[r], held[q])
      BY <1>2, <2>3, SoundNow
    <3> QED BY <1>1, <2>1, <3>1, ConflictFacts DEF Compatible
  <2>5. \A l \in held[q] : l[1] = EventKey(Notice[q])
    BY <1>2, <2>4
  <2>6. Head(todo[r]).row = EventKey(Notice[q])
    BY <2>3, <2>5
  <2>7. Head(todo[r]).do \notin {"find", "event"} /\ Head(todo[r]) \in Statement
    BY <1>2, <2>1
  <2> QED BY <2>6, <2>7, EventRows
<1>4. CASE \A r \in W : lock \notin held[r]
  <2>1. \A r \in W : \A l \in held[r] : l[1] = EventKey(Notice[r])
    BY <1>2, <1>4
  <2>2. PICK r \in W : TRUE
    OBVIOUS
  <2>3. PICK q \in W : BlockedBy(r, q)
    OBVIOUS
  <2>4. held[q] # {}
    BY <2>3 DEF BlockedBy
  <2>5. Head(todo[q]).row = CheckoutRow(c)
    BY <1>2, <1>4, <2>4
  <2>6. PICK o \in W : BlockedBy(q, o)
    OBVIOUS
  <2>7. PICK l \in held[o] : l[1] = CheckoutRow(c)
    BY <2>5, <2>6 DEF BlockedBy
  <2> QED BY <2>1, <2>7, RowsDiffer
<1> QED BY <1>3, <1>4

\* The syncs and cancellations of one checkout never wait for each other in
\* a circle: after its event, each takes the checkout's row before any other
\* lock (_apply, _undo, cancel).
THEOREM OneOrderPerCheckout == Spec => []OneLockOrder
<1>1. LockInv => OneLockOrder
  BY NoCircle DEF OneLockOrder
<1> QED BY <1>1, LockInvariant, PTL

LEMMA CommitsOnly ==
    ASSUME [Next]_vars
    PROVE  UNCHANGED <<booking_status, verdict>> \/ \E r \in Request : Commit(r)
BY DEF Next, vars, committed, Lapse, DeskReads, Proceed, Execute, Skip, FindLapsed, Refused,
       TakenBack, Victim, Decide, DecideCancel

\* expire_lapsed and _apply's write-offs commit EXPIRED only for what is then
\* a committed hold: the UPDATE re-checks PENDING under the row's lock, and
\* the lock keeps it so until the commit.
THEOREM ExpiresOnlyHolds == Spec => OnlyHoldsExpire
<1>1. ASSUME LockInv, [Next]_vars
      PROVE  \A g \in Group :
                booking_status'[g] = "EXPIRED" => booking_status[g] \in {"PENDING", "EXPIRED"}
  <2>1. CASE UNCHANGED <<booking_status, verdict>>
    BY <2>1
  <2>2. ASSUME NEW r \in Request, Commit(r), NEW g \in Group, booking_status'[g] = "EXPIRED"
        PROVE  booking_status[g] \in {"PENDING", "EXPIRED"}
    <3>1. ViewOf(booking_status, wrote[r], g) = "EXPIRED"
      BY <2>2, ViewIs DEF Commit
    <3>2. Expiring(booking_status, todo[r], held[r], wrote[r])
      BY <1>1, SoundNow DEF Sound
    <3> QED BY <3>1, <3>2 DEF Expiring, ViewOf
  <2> QED BY <1>1, <2>1, <2>2, CommitsOnly
<1> QED BY <1>1, LockInvariant, PTL DEF Spec, OnlyHoldsExpire

\* The commit that makes a checkout SUCCESSFUL makes every group of it
\* CONFIRMED: _apply's loop has run to its end, and a group whose hours are
\* refused takes the whole booking back.
THEOREM BookedAllTogether == Spec => BookedTogether
<1>1. ASSUME LockInv, [Next]_vars
      PROVE  \A c \in Checkout : verdict[c] # "SUCCESSFUL" /\ verdict'[c] = "SUCCESSFUL" =>
                \A g \in Group : CheckoutOf[g] = c => booking_status'[g] = "CONFIRMED"
  <2>1. ASSUME NEW r \in Request, Commit(r), NEW c \in Checkout,
               verdict[c] # "SUCCESSFUL", verdict'[c] = "SUCCESSFUL",
               NEW g \in Group, CheckoutOf[g] = c
        PROVE  booking_status'[g] = "CONFIRMED"
    <3>1. phase[r] \notin {"flag", "desk", "claim"} /\ About(r) = c /\ VerdictAfter(r) = "SUCCESSFUL"
      <4>1. verdict \in [Checkout -> Verdict]
        BY <1>1 DEF LockInv, TypeOK
      <4> QED BY <2>1, <4>1 DEF Commit
    <3>2. todo[r] = <<>> /\ phase[r] \notin {"idle", "locking", "done"}
          /\ booking_status'[g] = ViewOf(booking_status, wrote[r], g)
      BY <2>1, ViewIs DEF Commit
    <3>3. /\ Booking(r, phase[r], todo[r], wrote[r])
          /\ Coded(r, phase[r], todo[r], held[r], wrote[r]) /\ phase[r] \in Phase
      BY <1>1, SoundNow DEF Sound
    <3>4. phase[r] = "book"
      BY <3>1, <3>2, <3>3 DEF VerdictAfter, Phase
    <3>5. g \in ToSet(Subject[r])
      <4>1. Kind[r] = "sync"
        BY <3>3, <3>4 DEF Coded, PhaseOf
      <4> QED BY <2>1, <3>1, <4>1, LockAssumption
    <3>6. ToSet(<<>>) = {}
      BY DEF ToSet
    <3>7. g \in DOMAIN wrote[r] /\ wrote[r][g] = "CONFIRMED"
      BY <3>2, <3>3, <3>4, <3>5, <3>6 DEF Booking
    <3> QED BY <3>2, <3>7 DEF ViewOf
  <2>2. CASE UNCHANGED <<booking_status, verdict>>
    BY <2>2
  <2> QED BY <1>1, <2>1, <2>2, CommitsOnly
<1> QED BY <1>1, LockInvariant, PTL DEF Spec, BookedTogether
=============================================================================
