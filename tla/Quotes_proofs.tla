---------------------------- MODULE Quotes_proofs ----------------------------
(***************************************************************************)
(* What every quote is made of, for all requests, rules, items, clocks and   *)
(* TTLs.                                                                    *)
(*                                                                         *)
(* What the cache and a load hold was not yet replaced when the clock they   *)
(* carry was read, and a frozen quote's slots are priced from the rules and *)
(* the version read for that item.  A version never changes after its       *)
(* commit, so both last.                                                   *)
(***************************************************************************)
EXTENDS Quotes, FiniteSetTheorems, SequenceTheorems, WellFoundedInduction, TLAPS

\* The rules read for a court: one per day and hour.
Tariff ==
    {seen \in SUBSET PriceRule :
        \A r, s \in seen : r.court = s.court /\ (SameKey(r, s) => r = s)}

\* Values read when the clock said at: nothing had replaced them before.
Read(version, at, clock, table, ends) ==
    /\ version \in 1..Len(table) /\ at \in Nat /\ at <= clock
    /\ version < Len(table) => at <= ends[version]

TableInv ==
    /\ now \in Nat
    /\ versions \in Seq(Submitted) /\ versions # <<>>
    /\ \A v \in DOMAIN versions : Valid(versions[v])
    /\ until \in Seq(Nat) /\ Len(until) = Current - 1
    /\ \/ admin = Idle
       \/ admin \in [stage : {"write", "invalidate"}, row : Submitted] /\ Valid(admin.row)

CacheInv ==
    /\ \/ cache = Empty
       \/ /\ cache \in [version : Nat, at : Nat, late : BOOLEAN]
          /\ Read(cache.version, cache.at, now, versions, until)
    /\ BehindOnlyByOvertaking

RulesInv == rules \subseteq PriceRule /\ \A r, s \in rules : SameKey(r, s) => r = s

Stages == {"params", "rules", "default", "freeze"}

InFlight ==
    [stage : Stages, items : Seq(PickedItem), item : Nat, served : Seq(Nat \ {0}),
     seen : Seq(Tariff), load : {Empty} \cup [version : Nat, at : Nat]]

LoadInv(load, clock, table, ends) ==
    load # Empty =>
        load.at <= clock /\ (load.version # 0 => Read(load.version, load.at, clock, table, ends))

\* A request was given one version more than the items it read the rules of,
\* except while it waits for the next.
Paced(f, clock, table, ends) ==
    /\ f \in InFlight
    /\ f.item <= Len(f.items) /\ Len(f.seen) = f.item
    /\ Len(f.served) = f.item + (IF f.stage \in {"rules", "freeze"} THEN 1 ELSE 0)
    /\ f.stage = "params" => f.item = 0 /\ f.items # <<>>
    /\ f.stage = "rules" => f.item < Len(f.items)
    /\ f.stage = "default" => f.item >= 1
    /\ f.stage = "freeze" => f.item = Len(f.items) /\ f.item >= 1
    /\ f.stage \in {"rules", "freeze"} => f.load = Empty
    /\ \A k \in 1..Len(f.served) : f.served[k] <= Len(table)
    /\ LoadInv(f.load, clock, table, ends)

\* What FeeShared says of one quote.
Shared(fee, prices, shares) ==
    LET n == Len(prices)
        total == Total(prices)
    IN /\ Total(shares) = fee
       /\ \A i \in 1..n :
             LET off == shares[i] * total - fee * prices[i]
             IN IF total = 0 THEN shares[i] = 0
                ELSE shares[i] >= 0 /\ off > -total /\ off <= (n - 1) * total

Quoted(f, table) ==
    /\ f.stage = "frozen"
    /\ f.items \in Seq(PickedItem)
    /\ f.seen \in Seq(Tariff) /\ Len(f.seen) = Len(f.items)
    /\ f.served \in Seq(Nat \ {0}) /\ Len(f.served) = Len(f.items) + 1
    /\ \A k \in 1..Len(f.served) : f.served[k] <= Len(table)
    /\ Len(f.shares) = Len(f.items)
    /\ Len(f.prices) = Len(f.items) /\ Shared(f.fee, f.prices, f.shares)
    /\ \A i \in 1..Len(f.items) : \A h \in 1..f.items[i].hours :
          f.slots[i][h] = PriceAt(f.seen[i], table[f.served[i + 1]].default,
                                  f.items[i].start + h - 1)

FlightInv ==
    /\ flight = [r \in Request |-> flight[r]]
    /\ \A r \in Request :
          flight[r] = Idle \/ Paced(flight[r], now, versions, until) \/ Quoted(flight[r], versions)

QuotesInv == TableInv /\ CacheInv /\ RulesInv /\ FlightInv

-----------------------------------------------------------------------------

\* A Manila day and hour say which instant they were taken from.
LEMMA ManilaClock ==
    ASSUME NEW start \in Int
    PROVE  /\ ManilaHour(start) \in HourOfDay
           /\ ManilaDay(start) \in Int /\ ManilaDay(start) % 7 \in DayOfWeek
           /\ DayStart(ManilaDay(start)) + ManilaHour(start) = start
<1>1. ManilaHour(start) \in HourOfDay
  BY DEF ManilaHour, HourOfDay
<1>2. ManilaDay(start) \in Int
  BY DEF ManilaDay
<1>3. ManilaDay(start) % 7 \in DayOfWeek
  BY <1>2 DEF DayOfWeek
<1>4. DayStart(ManilaDay(start)) + ManilaHour(start) = start
  BY DEF ManilaDay, ManilaHour, DayStart
<1> QED BY <1>1, <1>2, <1>3, <1>4

\* The order of the keys is the order of specificity, so the first hit is it.
LEMMA MostSpecificIsCharged ==
    ASSUME NEW seen \in Tariff, NEW default, NEW start \in Int,
           NEW x \in Matching(seen, start),
           \A y \in Matching(seen, start) : Weight(y) <= Weight(x)
    PROVE  PriceAt(seen, default, start) = x.price
<1> DEFINE day == ManilaDay(start) % 7
           hour == ManilaHour(start)
           keys == Keys(day, hour)
           Hit(i) == {r \in seen : <<r.day, r.hour>> = keys[i]}
           hits == {i \in DOMAIN keys : Hit(i) # {}}
           first == CHOOSE i \in hits : \A j \in hits : i <= j
           rank == 4 - Weight(x)
<1>1. day \in 0..6 /\ hour \in 0..23
  BY ManilaClock DEF DayOfWeek, HourOfDay
<1> HIDE DEF day, hour
<1>2. DOMAIN keys = 1..4 /\ keys[1] = <<day, hour>> /\ keys[2] = <<Wild, hour>>
      /\ keys[3] = <<day, Wild>> /\ keys[4] = <<Wild, Wild>>
  BY DEF Keys
<1> HIDE DEF keys
<1>3. Matching(seen, start) = {r \in seen : r.day \in {Wild, day} /\ r.hour \in {Wild, hour}}
  BY DEF Matching, day, hour
<1>4. \A r \in Matching(seen, start) :
         Weight(r) \in 0..3 /\ r \in seen /\ <<r.day, r.hour>> = keys[4 - Weight(r)]
  <2> SUFFICES ASSUME NEW r \in Matching(seen, start)
               PROVE  Weight(r) \in 0..3 /\ r \in seen /\ <<r.day, r.hour>> = keys[4 - Weight(r)]
    OBVIOUS
  <2>1. r \in seen /\ r.day \in {Wild, day} /\ r.hour \in {Wild, hour}
    BY <1>3
  <2>2. CASE r.day = Wild /\ r.hour = Wild
    BY <2>1, <2>2, <1>2 DEF Weight, Wild
  <2>3. CASE r.day # Wild /\ r.hour = Wild
    BY <2>1, <2>3, <1>2 DEF Weight, Wild
  <2>4. CASE r.day = Wild /\ r.hour # Wild
    BY <2>1, <2>4, <1>2 DEF Weight, Wild
  <2>5. CASE r.day # Wild /\ r.hour # Wild
    BY <2>1, <2>5, <1>2 DEF Weight, Wild
  <2> QED BY <2>2, <2>3, <2>4, <2>5
<1>5. rank \in 1..4 /\ x \in Hit(rank)
  BY <1>4, <1>2
<1>6. \A j \in hits : rank <= j
  <2> SUFFICES ASSUME NEW j \in 1..4, NEW r \in Hit(j)
               PROVE  rank <= j
    BY <1>2
  <2>1. r \in seen /\ <<r.day, r.hour>> = keys[j]
    OBVIOUS
  <2>2. r.day \in {Wild, day} /\ r.hour \in {Wild, hour} /\ Weight(r) = 4 - j
    <3>1. CASE j = 1
      BY <2>1, <1>1, <1>2, <3>1 DEF Weight, Wild
    <3>2. CASE j = 2
      BY <2>1, <1>1, <1>2, <3>2 DEF Weight, Wild
    <3>3. CASE j = 3
      BY <2>1, <1>1, <1>2, <3>3 DEF Weight, Wild
    <3>4. CASE j = 4
      BY <2>1, <1>1, <1>2, <3>4 DEF Weight, Wild
    <3> QED BY <3>1, <3>2, <3>3, <3>4
  <2>3. Weight(r) <= Weight(x)
    BY <2>1, <2>2, <1>3
  <2> QED BY <2>2, <2>3, <1>4
<1>7. rank \in hits
  BY <1>5, <1>2
<1>8. first = rank
  <2>1. \A i \in hits : i \in 1..4
    BY <1>2
  <2>2. first \in hits /\ \A j \in hits : first <= j
    <3> HIDE DEF hits, rank
    <3> QED BY <1>6, <1>7
  <2> HIDE DEF hits, first
  <2> QED BY <1>5, <1>6, <1>7, <2>1, <2>2
<1>9. \A r \in Hit(rank) : r = x
  <2> SUFFICES ASSUME NEW r \in Hit(rank) PROVE r = x
    OBVIOUS
  <2>1. r \in seen /\ x \in seen /\ r.day = x.day /\ r.hour = x.hour
    BY <1>5
  <2> QED BY <2>1 DEF Tariff, SameKey
<1>10. PriceAt(seen, default, start)
          = IF hits = {} THEN default ELSE (CHOOSE r \in Hit(first) : TRUE).price
  BY DEF PriceAt, day, hour, keys
<1>11. (CHOOSE r \in Hit(first) : TRUE) = x
  <2> HIDE DEF Hit, first, rank
  <2> QED BY <1>5, <1>8, <1>9
<1> HIDE DEF Hit, first, hits
<1> QED BY <1>7, <1>10, <1>11

-----------------------------------------------------------------------------
(* What a sum of a sequence is, and what a fee loses when it is divided and  *)
(* rounded down: lemmas on Total, ConvenienceFee and AllocateFee.           *)

LEMMA Least ==
    ASSUME NEW T \in SUBSET Nat, T # {}
    PROVE  \E m \in T : \A n \in T : m =< n
<1>1. IsWellFoundedOn(OpToRel(<, Nat), Nat)
  BY NatLessThanWellFounded DEF OpToRel
<1>2. PICK m \in T : \A n \in T : ~ <<n, m>> \in OpToRel(<, Nat)
  BY <1>1, WFMin
<1>3. \A n \in T : m =< n
  <2> TAKE n \in T
  <2>1. ~ (n < m)
    BY <1>2 DEF OpToRel
  <2> QED BY <2>1
<1> QED BY <1>3

One(u) == CHOOSE x \in u : TRUE

\* a sums f over the subsets of S that are in U, one element at a time.
Sums(a, U, f) == a = [u \in U |-> IF u = {} THEN 0 ELSE f[One(u)] + a[u \ {One(u)}]]

LEMMA OneIn == ASSUME NEW u, u # {} PROVE One(u) \in u
  BY DEF One

LEMMA TotalIs ==
    ASSUME NEW s
    PROVE  Total(s) = (CHOOSE a : Sums(a, SUBSET (DOMAIN s), s))[DOMAIN s]
BY DEF Total, FoldFunction, FoldFunctionOnSet, MapThenFoldSet, Sums, One

\* The recursion of a fold has a solution.
LEMMA SumsExist ==
    ASSUME NEW S, IsFiniteSet(S), NEW f
    PROVE  \E a : Sums(a, SUBSET S, f)
<1> DEFINE Upto(k) == {u \in SUBSET S : Cardinality(u) =< k}
           T == {k \in Nat : ~ \E a : Sums(a, Upto(k), f)}
<1>1. \A u \in SUBSET S : IsFiniteSet(u) /\ Cardinality(u) \in Nat /\ Cardinality(u) =< Cardinality(S)
  BY FS_Subset, FS_CardinalityType
<1>a. Cardinality(S) \in Nat
  BY FS_CardinalityType
<1>2. \A u \in SUBSET S : u # {} =>
        One(u) \in u /\ u \ {One(u)} \in SUBSET S /\ Cardinality(u \ {One(u)}) = Cardinality(u) - 1
  BY <1>1, OneIn, FS_RemoveElement
<1>3. CASE T = {}
  <2>1. Upto(Cardinality(S)) = SUBSET S
    BY <1>1
  <2> QED BY <1>3, <1>a, <2>1
<1>4. CASE T # {}
  <2>1. PICK k \in T : \A m \in T : k =< m
    <3> T \in SUBSET Nat OBVIOUS
    <3> HIDE DEF T
    <3> QED BY <1>4, Least
  <2>2. k # 0
    <3>1. \A u \in Upto(0) : u = {}
      BY <1>1, FS_EmptySet
    <3> DEFINE z == [u \in Upto(0) |-> 0]
    <3>3. \A u \in Upto(0) : z[u] = 0
      OBVIOUS
    <3>4. z = [u \in Upto(0) |-> IF u = {} THEN 0 ELSE f[One(u)] + z[u \ {One(u)}]]
      <4>1. z = [u \in Upto(0) |-> z[u]]
        OBVIOUS
      <4> HIDE DEF z
      <4> QED BY <4>1, <3>1, <3>3
    <3>5. Sums(z, Upto(0), f)
      BY <3>4 DEF Sums
    <3> QED BY <3>5, <2>1
  <2>k. k \in Nat
    OBVIOUS
  <2>3. k \in Nat \ {0} /\ k - 1 \in Nat /\ k - 1 \notin T
    <3>1. k - 1 \in Nat /\ ~ (k =< k - 1)
      BY <2>2, <2>k
    <3> HIDE DEF T
    <3> QED BY <2>1, <2>2, <2>k, <3>1
  <2>4. PICK b : Sums(b, Upto(k - 1), f)
    BY <2>3
  <2> DEFINE Step(u) == IF u = {} THEN 0 ELSE f[One(u)] + b[u \ {One(u)}]
             a == [u \in Upto(k) |-> Step(u)]
  <2>5. \A u \in Upto(k - 1) : b[u] = Step(u)
    BY <2>4 DEF Sums
  <2>6. \A u \in Upto(k) : a[u] = Step(u)
    OBVIOUS
  <2>7. a = [u \in Upto(k) |-> a[u]]
    OBVIOUS
  <2> HIDE DEF a
  <2>8. ASSUME NEW u \in Upto(k)
        PROVE  a[u] = IF u = {} THEN 0 ELSE f[One(u)] + a[u \ {One(u)}]
    <3>1. u # {} => u \ {One(u)} \in Upto(k - 1) /\ u \ {One(u)} \in Upto(k)
      BY <1>1, <1>2, <2>3
    <3>2. u # {} => a[u \ {One(u)}] = b[u \ {One(u)}]
      BY <3>1, <2>5, <2>6
    <3> QED BY <3>2, <2>6
  <2>9. Sums(a, Upto(k), f)
    BY <2>7, <2>8 DEF Sums
  <2> QED BY <2>9, <2>1
<1> QED BY <1>3, <1>4

AllInt(f, S) == \A x \in S : f[x] \in Int
SameSum(a, b, R) == a[R] = b[R]
Part(R, S) == R \subseteq S
Agree(f, g, R) == \A x \in R : f[x] = g[x]
AnyOrder(a, S, f) == \A u \in SUBSET S : a[u] \in Int /\ \A x \in u : a[u] = f[x] + a[u \ {x}]

\* The order does not matter.
LEMMA SumsAny ==
    ASSUME NEW S, IsFiniteSet(S), NEW f, AllInt(f, S), NEW a, Sums(a, SUBSET S, f)
    PROVE  AnyOrder(a, S, f)
<1>i. \A x \in S : f[x] \in Int
  BY DEF AllInt
<1> DEFINE Good(u) == a[u] \in Int /\ \A x \in u : a[u] = f[x] + a[u \ {x}]
           T == {k \in Nat : \E u \in SUBSET S : Cardinality(u) = k /\ ~ Good(u)}
<1>0. \A u \in SUBSET S : a[u] = IF u = {} THEN 0 ELSE f[One(u)] + a[u \ {One(u)}]
  BY DEF Sums
<1>1. \A u \in SUBSET S : IsFiniteSet(u) /\ Cardinality(u) \in Nat
  BY FS_Subset, FS_CardinalityType
<1>2. \A u \in SUBSET S : \A x \in u : u \ {x} \in SUBSET S /\ Cardinality(u \ {x}) = Cardinality(u) - 1
  BY <1>1, FS_RemoveElement
<1>3. ASSUME T # {} PROVE FALSE
  <2>1. PICK k \in T : \A m \in T : k =< m
    <3> T \in SUBSET Nat OBVIOUS
    <3> HIDE DEF T
    <3> QED BY <1>3, Least
  <2>2. PICK u \in SUBSET S : Cardinality(u) = k /\ ~ Good(u)
    BY <2>1
  <2>3. \A w \in SUBSET S : Cardinality(w) < k => Good(w)
    BY <1>1, <2>1
  <2>4. u # {}
    <3>1. {} \in SUBSET S
      OBVIOUS
    <3>2. a[{}] = 0
      BY <1>0, <3>1
    <3>3. Good({})
      BY <3>2
    <3> HIDE DEF Good
    <3> QED BY <2>2, <3>3
  <2>5. PICK c \in u : a[u] = f[c] + a[u \ {c}]
    BY <1>0, <2>4, OneIn
  <2>a. \A x \in u : u \ {x} \in SUBSET S /\ Good(u \ {x})
    <3> TAKE x \in u
    <3>1. u \ {x} \in SUBSET S /\ Cardinality(u \ {x}) = k - 1 /\ k - 1 < k
      BY <1>2, <2>2, <2>1
    <3> HIDE DEF Good
    <3> QED BY <3>1, <2>3
  <2>6. Good(u \ {c})
    BY <2>a
  <2>b. c \in S /\ f[c] \in Int
    BY <1>i, <2>5
  <2>7. ASSUME NEW x \in u, x # c PROVE a[u] = f[x] + a[u \ {x}]
    <3>1. a[u \ {c}] = f[x] + a[(u \ {c}) \ {x}] /\ x \in u \ {c}
      BY <2>6, <2>7
    <3>2. Good(u \ {x}) /\ c \in u \ {x}
      BY <2>a, <2>7
    <3>3. a[u \ {x}] = f[c] + a[(u \ {x}) \ {c}]
      BY <3>2
    <3>4. (u \ {x}) \ {c} = (u \ {c}) \ {x} /\ (u \ {c}) \ {x} \in SUBSET S
      OBVIOUS
    <3> DEFINE w == (u \ {c}) \ {x}
    <3>a. Cardinality(u \ {c}) = k - 1 /\ u \ {c} \in SUBSET S
      BY <1>2, <2>2, <2>5
    <3>b. Cardinality(w) = Cardinality(u \ {c}) - 1
      BY <1>2, <3>1, <3>a
    <3>5. Cardinality(w) = k - 2 /\ w \in SUBSET S /\ k - 2 < k
      <4>1. k \in Nat /\ w \in SUBSET S
        BY <2>1, <3>4
      <4> HIDE DEF w
      <4> QED BY <3>a, <3>b, <4>1
    <3>6. a[w] \in Int
      <4>1. Good(w)
        <5> HIDE DEF w, Good
        <5> QED BY <2>3, <3>5
      <4> QED BY <4>1
    <3>7. a[u] = f[c] + a[u \ {c}] /\ a[u \ {c}] = f[x] + a[w] /\ a[u \ {x}] = f[c] + a[w]
      BY <2>5, <3>1, <3>3, <3>4
    <3>8. f[x] \in Int
      BY <1>i, <2>7
    <3> HIDE DEF w
    <3> QED BY <2>b, <3>6, <3>7, <3>8
  <2>8. a[u] \in Int
    BY <2>5, <2>6, <2>b
  <2> QED BY <2>2, <2>5, <2>7, <2>8
<1>4. \A u \in SUBSET S : Good(u)
  BY <1>1, <1>3
<1> QED BY <1>4 DEF AnyOrder

\* A sum only depends on what is summed.
LEMMA SumsSame ==
    ASSUME NEW S, NEW R, Part(R, S), IsFiniteSet(S), NEW f, NEW g, Agree(f, g, R),
           NEW a, Sums(a, SUBSET S, f), NEW b, Sums(b, SUBSET R, g)
    PROVE  SameSum(a, b, R)
<1>i. R \subseteq S /\ \A x \in R : f[x] = g[x]
  BY DEF Agree, Part
<1> DEFINE T == {k \in Nat : \E u \in SUBSET R : Cardinality(u) = k /\ a[u] # b[u]}
<1>0. \A u \in SUBSET R :
         /\ a[u] = IF u = {} THEN 0 ELSE f[One(u)] + a[u \ {One(u)}]
         /\ b[u] = IF u = {} THEN 0 ELSE g[One(u)] + b[u \ {One(u)}]
  BY <1>i DEF Sums
<1>1. \A u \in SUBSET R : IsFiniteSet(u) /\ Cardinality(u) \in Nat
  BY <1>i, FS_Subset, FS_CardinalityType
<1>2. \A u \in SUBSET R : u # {} =>
         One(u) \in R /\ u \ {One(u)} \in SUBSET R /\ Cardinality(u \ {One(u)}) = Cardinality(u) - 1
  BY <1>1, OneIn, FS_RemoveElement
<1>3. ASSUME T # {} PROVE FALSE
  <2>1. PICK k \in T : \A m \in T : k =< m
    <3> T \in SUBSET Nat OBVIOUS
    <3> HIDE DEF T
    <3> QED BY <1>3, Least
  <2>2. PICK u \in SUBSET R : Cardinality(u) = k /\ a[u] # b[u]
    BY <2>1
  <2>3. u # {}
    BY <1>0, <2>2
  <2> DEFINE w == u \ {One(u)}
  <2>4. a[w] = b[w]
    <3>a. w \in SUBSET R /\ Cardinality(w) = k - 1 /\ Cardinality(w) \in Nat
      BY <1>1, <1>2, <2>2, <2>3
    <3>1. w \in SUBSET R /\ Cardinality(w) = k - 1 /\ k - 1 < k /\ k - 1 \in Nat
      BY <3>a, <2>1
    <3> HIDE DEF w
    <3> QED BY <2>1, <3>1
  <2> QED BY <1>i, <1>0, <1>2, <2>2, <2>3, <2>4
<1>4. a[R] = b[R]
  BY <1>1, <1>3
<1> QED BY <1>4 DEF SameSum

\* The total of a sequence, one element at a time.
LEMMA TotalAppend ==
    ASSUME NEW s \in Seq(Int), NEW x \in Int
    PROVE  /\ Total(s) \in Int /\ Total(Append(s, x)) = Total(s) + x
<1> DEFINE t == Append(s, x)
           n == Len(s)
           a == CHOOSE c : Sums(c, SUBSET (1..(n + 1)), t)
           b == CHOOSE c : Sums(c, SUBSET (1..n), s)
<1>1. /\ n \in Nat /\ DOMAIN s = 1..n /\ DOMAIN t = 1..(n + 1)
      /\ \A i \in 1..n : t[i] = s[i] /\ s[i] \in Int
      /\ t[n + 1] = x /\ \A i \in 1..(n + 1) : t[i] \in Int
  OBVIOUS
<1> HIDE DEF t, n
<1>2. IsFiniteSet(1..(n + 1)) /\ IsFiniteSet(1..n)
  BY <1>1, FS_Interval
<1>3. Total(t) = a[1..(n + 1)] /\ Total(s) = b[1..n]
  BY <1>1, TotalIs
<1>4. Sums(a, SUBSET (1..(n + 1)), t) /\ Sums(b, SUBSET (1..n), s)
  BY <1>2, SumsExist
<1> HIDE DEF a, b
<1>5. 1..n \in SUBSET (1..(n + 1)) /\ (1..(n + 1)) \ {n + 1} = 1..n /\ n + 1 \in 1..(n + 1)
  BY <1>1
<1> DEFINE R == 1..n
           S == 1..(n + 1)
<1>r. /\ R \in SUBSET S /\ IsFiniteSet(S) /\ IsFiniteSet(R) /\ S \ {n + 1} = R /\ n + 1 \in S
      /\ \A i \in S : t[i] \in Int
      /\ \A i \in R : t[i] = s[i]
      /\ Sums(a, SUBSET S, t) /\ Sums(b, SUBSET R, s)
      /\ t[n + 1] = x
  BY <1>1, <1>2, <1>4, <1>5
<1> HIDE DEF R, S
<1>s. AnyOrder(a, S, t)
  <2>1. AllInt(t, S)
    BY <1>r DEF AllInt
  <2> QED BY <1>r, <2>1, SumsAny
<1>6. a[S] = x + a[R] /\ a[R] \in Int
  <2>1. S \in SUBSET S
    OBVIOUS
  <2> QED BY <1>r, <1>s, <2>1 DEF AnyOrder
<1>7. a[R] = b[R]
  <2>1. Agree(t, s, R) /\ Part(R, S)
    BY <1>r DEF Agree, Part
  <2>2. IsFiniteSet(S) /\ Sums(a, SUBSET S, t) /\ Sums(b, SUBSET R, s)
    BY <1>r
  <2>3. SameSum(a, b, R)
    BY ONLY <2>1, <2>2, SumsSame, Zenon
  <2> QED BY <2>3 DEF SameSum
<1> QED BY <1>3, <1>6, <1>7 DEF t, R, S

LEMMA TotalEmpty == Total(<< >>) = 0
<1> DEFINE a == CHOOSE c : Sums(c, SUBSET {}, << >>)
<1>1. DOMAIN << >> = {} /\ IsFiniteSet({}) /\ {} \in SUBSET {}
  BY FS_EmptySet
<1>2. Total(<< >>) = a[{}]
  BY <1>1, TotalIs
<1>3. Sums(a, SUBSET {}, << >>)
  BY <1>1, SumsExist
<1> HIDE DEF a
<1> QED BY <1>1, <1>2, <1>3 DEF Sums

First(s, k) == [i \in 1..k |-> s[i]]

LEMMA TotalFirst ==
    ASSUME NEW s, NEW n \in Nat, \A i \in 1..n : s[i] \in Int
    PROVE  /\ Total(First(s, 0)) = 0
           /\ \A k \in 0..(n - 1) : First(s, k) \in Seq(Int) /\
                 Total(First(s, k)) \in Int /\ Total(First(s, k + 1)) = Total(First(s, k)) + s[k + 1]
<1>1. First(s, 0) = << >>
  BY DEF First
<1>2. ASSUME NEW k \in 0..(n - 1)
      PROVE  /\ First(s, k) \in Seq(Int)
             /\ Total(First(s, k)) \in Int /\ Total(First(s, k + 1)) = Total(First(s, k)) + s[k + 1]
  <2>1. First(s, k) \in Seq(Int) /\ s[k + 1] \in Int /\ Len(First(s, k)) = k
    BY DEF First
  <2>2. First(s, k + 1) = Append(First(s, k), s[k + 1])
    BY <2>1 DEF First
  <2> QED BY <2>1, <2>2, TotalAppend
<1> QED BY <1>1, <1>2, TotalEmpty

LEMMA Grows ==
    ASSUME NEW fee \in Int, NEW T \in Int, NEW S \in Int, NEW Q \in Int, NEW x \in Int, NEW y \in Int
    PROVE  fee * (S + x) - T * (Q + y) = (fee * S - T * Q) + (fee * x - T * y)
<1>1. fee * (S + x) = fee * S + fee * x
  OBVIOUS
<1>2. T * (Q + y) = T * Q + T * y
  OBVIOUS
<1>3. fee * S \in Int /\ fee * x \in Int /\ T * Q \in Int /\ T * y \in Int
  OBVIOUS
<1> QED BY <1>1, <1>2, <1>3

\* Each of the first n of q is what T goes into fee times that of p, rounded down.
Rounds(p, q, fee, T, n) ==
    \A i \in 1..n : p[i] \in Nat /\ q[i] \in Int /\ fee * p[i] - T * q[i] \in 0..(T - 1)

LosesLess(p, q, fee, T, n) ==
    \A k \in 0..n :
       /\ Total(First(p, k)) \in Nat /\ Total(First(q, k)) \in Int
       /\ fee * Total(First(p, k)) - T * Total(First(q, k)) \in 0..(k * (T - 1))

\* What rounding takes from each takes less than that often from the sum.
LEMMA RoundedDown ==
    ASSUME NEW n \in Nat, NEW p, NEW q, NEW fee \in Int, NEW T \in Nat \ {0},
           Rounds(p, q, fee, T, n)
    PROVE  LosesLess(p, q, fee, T, n)
<1>0. \A i \in 1..n : p[i] \in Nat /\ q[i] \in Int /\ fee * p[i] - T * q[i] \in 0..(T - 1)
  BY DEF Rounds
<1> DEFINE A(k) == Total(First(p, k))
           B(k) == Total(First(q, k))
           Bound(k) == A(k) \in Nat /\ B(k) \in Int /\ fee * A(k) - T * B(k) \in 0..(k * (T - 1))
           C == {k \in Nat : k =< n /\ ~ Bound(k)}
<1>1. /\ A(0) = 0 /\ B(0) = 0
      /\ \A k \in 0..(n - 1) : A(k) \in Int /\ A(k + 1) = A(k) + p[k + 1]
      /\ \A k \in 0..(n - 1) : B(k) \in Int /\ B(k + 1) = B(k) + q[k + 1]
  <2>1. (\A i \in 1..n : p[i] \in Int) /\ (\A i \in 1..n : q[i] \in Int)
    BY <1>0
  <2>2. A(0) = 0 /\ \A k \in 0..(n - 1) : A(k) \in Int /\ A(k + 1) = A(k) + p[k + 1]
    BY <2>1, TotalFirst
  <2>3. B(0) = 0 /\ \A k \in 0..(n - 1) : B(k) \in Int /\ B(k + 1) = B(k) + q[k + 1]
    BY <2>1, TotalFirst
  <2> QED BY <2>2, <2>3
<1> HIDE DEF A, B
<1>2. Bound(0)
  BY <1>1
<1>3. ASSUME NEW k \in 0..(n - 1), Bound(k) PROVE Bound(k + 1)
  <2>1. k + 1 \in 1..n
    OBVIOUS
  <2>2. p[k + 1] \in Nat /\ q[k + 1] \in Int /\ fee * p[k + 1] - T * q[k + 1] \in 0..(T - 1)
    BY <1>0, <2>1
  <2>3. A(k + 1) = A(k) + p[k + 1] /\ B(k + 1) = B(k) + q[k + 1] /\ A(k) \in Nat /\ B(k) \in Int
    BY <1>1, <1>3
  <2>4. fee * A(k + 1) - T * B(k + 1)
          = (fee * A(k) - T * B(k)) + (fee * p[k + 1] - T * q[k + 1])
    BY <2>2, <2>3, Grows
  <2>5. (k + 1) * (T - 1) = k * (T - 1) + (T - 1)
    OBVIOUS
  <2>6. k * (T - 1) \in Int
    OBVIOUS
  <2>7. fee * A(k) - T * B(k) \in 0..(k * (T - 1))
    BY <1>3
  <2> QED BY <2>2, <2>3, <2>4, <2>5, <2>6, <2>7
<1>4. ASSUME C # {} PROVE FALSE
  <2>1. PICK k \in C : \A m \in C : k =< m
    <3> C \in SUBSET Nat OBVIOUS
    <3> HIDE DEF C
    <3> QED BY <1>4, Least
  <2>2. k # 0
    BY <1>2
  <2>3. k - 1 \in 0..(n - 1) /\ k - 1 \notin C /\ (k - 1) + 1 = k
    <3>1. k \in Nat /\ k =< n
      OBVIOUS
    <3>2. k - 1 \in 0..(n - 1) /\ (k - 1) + 1 = k /\ ~ (k =< k - 1)
      BY <2>2, <3>1
    <3> HIDE DEF C
    <3> QED BY <2>1, <3>2
  <2> HIDE DEF Bound
  <2>4. Bound(k - 1)
    BY <2>3
  <2>5. Bound(k)
    BY <1>3, <2>3, <2>4
  <2> QED BY <2>5
<1>5. \A k \in 0..n : Bound(k)
  <2> HIDE DEF Bound
  <2> QED BY <1>4
<1> QED BY <1>5 DEF A, B, LosesLess

LEMMA Floor ==
    ASSUME NEW x \in Int, NEW T \in Nat \ {0}
    PROVE  x \div T \in Int /\ x - T * (x \div T) \in 0..(T - 1)
OBVIOUS

LEMMA FloorNat ==
    ASSUME NEW x \in Nat, NEW T \in Nat \ {0}
    PROVE  x \div T \in Nat
OBVIOUS

LEMMA FiniteIsSeq ==
    ASSUME NEW S, NEW n \in Nat, NEW s \in [1..n -> S]
    PROVE  s \in Seq(S) /\ Len(s) = n
OBVIOUS

LEMMA TotalNat ==
    ASSUME NEW s \in Seq(Nat)
    PROVE  Total(s) \in Nat /\ s = First(s, Len(s))
<1> DEFINE n == Len(s)
           z == [i \in 1..n |-> 0]
<1>1. n \in Nat /\ s = First(s, n) /\ \A i \in 1..n : s[i] \in Nat
  BY DEF First
<1>2. \A i \in 1..n : s[i] \in Nat /\ z[i] \in Int /\ 0 * s[i] - 1 * z[i] \in 0..(1 - 1)
  BY <1>1
<1> HIDE DEF n, z
<1>3. \A k \in 0..n : Total(First(s, k)) \in Nat
  <2>1. Rounds(s, z, 0, 1, n)
    BY <1>2 DEF Rounds
  <2>2. LosesLess(s, z, 0, 1, n)
    BY <1>1, <2>1, RoundedDown
  <2> QED BY <2>2 DEF LosesLess
<1>4. n \in 0..n
  BY <1>1
<1> QED BY <1>1, <1>3, <1>4 DEF n

LEMMA ConvenienceFeeNat ==
    ASSUME NEW price \in Nat, NEW percent \in 0..(100 * PerCent)
    PROVE  /\ ConvenienceFee(price, percent) \in Nat
           /\ price = 0 => ConvenienceFee(price, percent) = 0
<1> DEFINE half == 100 * PerCent
           whole == 200 * PerCent
<1>1. half \in Nat /\ whole \in Nat \ {0} /\ half < whole /\ percent \in Nat
  BY PricingAssumption DEF PricingAssumption
<1> HIDE DEF half, whole
<1>2. 2 * price * percent + half \in Nat /\ (price = 0 => 2 * price * percent + half = half)
  BY <1>1
<1>3. (2 * price * percent + half) \div whole \in Nat
  BY <1>1, <1>2, FloorNat
<1>4. half \div whole = 0
  BY <1>1
<1>5. ConvenienceFee(price, percent) = (2 * price * percent + half) \div whole
  BY DEF ConvenienceFee, half, whole
<1> QED BY <1>2, <1>3, <1>4, <1>5

LEMMA SharesFit ==
    ASSUME NEW prices \in Seq(Nat), prices # << >>, NEW fee \in Nat, Total(prices) = 0 => fee = 0
    PROVE  Shared(fee, prices, AllocateFee(fee, prices))
<1> DEFINE n == Len(prices)
           T == Total(prices)
           q == [i \in 1..(n - 1) |-> IF T = 0 THEN 0 ELSE (fee * prices[i]) \div T]
           Q == Total(q)
           S == Total(First(prices, n - 1))
           shares == Append(q, fee - Q)
<1>1. n \in Nat /\ n - 1 \in Nat /\ n >= 1 /\ (\A i \in 1..n : prices[i] \in Nat /\ prices[i] \in Int)
      /\ n \in 1..n
  OBVIOUS
<1>2. T \in Nat /\ prices = First(prices, n)
  BY TotalNat
<1>3. AllocateFee(fee, prices) = shares
  BY DEF AllocateFee
<1> HIDE DEF n, T
<1>4. \A i \in 1..(n - 1) : q[i] = IF T = 0 THEN 0 ELSE (fee * prices[i]) \div T
  OBVIOUS
<1>5. q = First(q, n - 1)
  BY DEF First
<1>6. T = S + prices[n] /\ S \in Int
  <2>1. n - 1 \in 0..(n - 1) /\ (n - 1) + 1 = n
    BY <1>1
  <2>2. Total(First(prices, n)) = Total(First(prices, n - 1)) + prices[n] /\ S \in Int
    BY <1>1, <2>1, TotalFirst
  <2> QED BY <1>2, <2>2 DEF T
<1>7. q \in Seq(Int) /\ Len(q) = n - 1
  <2>1. \A i \in 1..(n - 1) : q[i] \in Int
    <3> TAKE i \in 1..(n - 1)
    <3> DEFINE x == fee * prices[i]
    <3>x. x \in Int
      BY <1>1
    <3> HIDE DEF x
    <3>1. T # 0 => x \div T \in Int
      BY <3>x, <1>2, Floor
    <3> QED BY <1>4, <3>1 DEF x
  <2>2. q = [i \in 1..(n - 1) |-> q[i]]
    OBVIOUS
  <2> HIDE DEF q
  <2>3. q \in [1..(n - 1) -> Int]
    BY <2>1, <2>2
  <2> QED BY <1>1, <2>3, FiniteIsSeq
<1>8. /\ \A i \in 1..(n - 1) : shares[i] = q[i]
      /\ shares[n] = fee - Q
  <2> HIDE DEF q, Q
  <2>1. (n - 1) + 1 = n
    BY <1>1
  <2> QED BY <1>1, <1>7, <2>1
<1> HIDE DEF q
<1>9. CASE T = 0
  <2>1. \A i \in 1..(n - 1) : 
            prices[i] \in Nat /\ q[i] \in Int /\ 0 * prices[i] - 1 * q[i] \in 0..(1 - 1)
    BY <1>1, <1>4, <1>9
  <2>2. \A k \in 0..(n - 1) : /\ Total(First(prices, k)) \in Nat /\ Total(First(q, k)) \in Int
           /\ 0 * Total(First(prices, k)) - 1 * Total(First(q, k)) \in 0..(k * (1 - 1))
    <3>1. Rounds(prices, q, 0, 1, n - 1)
      BY <2>1 DEF Rounds
    <3>2. LosesLess(prices, q, 0, 1, n - 1)
      BY <1>1, <3>1, RoundedDown
    <3> QED BY <3>2 DEF LosesLess
  <2>3. n - 1 \in 0..(n - 1)
    BY <1>1
  <2>4. S \in Nat /\ Q \in Int /\ 0 * S - 1 * Q \in 0..((n - 1) * (1 - 1))
    BY <1>5, <2>2, <2>3
  <2> HIDE DEF S, Q
  <2>5. Q = 0
    BY <1>1, <2>4
  <2>6. fee = 0 /\ fee - Q = 0
    BY <1>9, <2>5 DEF T
  <2>7. Total(shares) = fee
    <3>1. Total(shares) = Q + (fee - Q)
      <4>1. fee - Q \in Int
        BY <2>4
      <4> QED BY <1>7, <4>1, TotalAppend DEF Q
    <3> QED BY <2>5, <2>6, <3>1
  <2>8. \A i \in 1..n : shares[i] = 0
    <3> TAKE i \in 1..n
    <3>1. i \in 1..(n - 1) \/ i = n
      BY <1>1
    <3> HIDE DEF shares
    <3> QED BY <1>4, <1>8, <1>9, <2>6, <3>1
  <2> HIDE DEF shares
  <2> QED BY <1>3, <1>9, <2>7, <2>8 DEF Shared, T, n
<1>10. CASE T # 0
  <2>0. T \in Nat \ {0}
    BY <1>2, <1>10
  <2>a. \A i \in 1..(n - 1) :
          prices[i] \in Nat /\ q[i] \in Nat /\ fee * prices[i] - T * q[i] \in 0..(T - 1)
    <3> TAKE i \in 1..(n - 1)
    <3>1. prices[i] \in Nat /\ q[i] = (fee * prices[i]) \div T
      BY <1>1, <1>4, <1>10
    <3> DEFINE x == fee * prices[i]
    <3>2. x \in Nat
      BY <3>1
    <3>3. q[i] = x \div T
      BY <3>1
    <3> HIDE DEF x
    <3>4. x \in Int
      BY <3>2
    <3>5. x - T * (x \div T) \in 0..(T - 1)
      BY <2>0, <3>4, Floor
    <3>6. x \div T \in Nat
      BY <2>0, <3>2, FloorNat
    <3> QED BY <3>1, <3>3, <3>5, <3>6 DEF x
  <2>1. \A i \in 1..(n - 1) :
          prices[i] \in Nat /\ q[i] \in Int /\ fee * prices[i] - T * q[i] \in 0..(T - 1)
    BY <2>a
  <2>2. \A k \in 0..(n - 1) :
           /\ Total(First(prices, k)) \in Nat /\ Total(First(q, k)) \in Int
           /\ fee * Total(First(prices, k)) - T * Total(First(q, k)) \in 0..(k * (T - 1))
    <3>1. Rounds(prices, q, fee, T, n - 1)
      BY <2>1 DEF Rounds
    <3>2. LosesLess(prices, q, fee, T, n - 1)
      BY <1>1, <2>0, <3>1, RoundedDown
    <3> QED BY <3>2 DEF LosesLess
  <2>3. n - 1 \in 0..(n - 1)
    BY <1>1
  <2>4. S \in Nat /\ Q \in Int /\ fee * S - T * Q \in 0..((n - 1) * (T - 1))
    BY <1>5, <2>2, <2>3
  <2>7. Total(shares) = fee
    <3>1. Total(shares) = Q + (fee - Q)
      <4>1. fee - Q \in Int
        BY <2>4
      <4> QED BY <1>7, <4>1, TotalAppend DEF Q
    <3> QED BY <2>4, <3>1
  <2> HIDE DEF shares, S, Q
  <2>8. ASSUME NEW i \in 1..(n - 1)
        PROVE  /\ q[i] >= 0 /\ q[i] * T - fee * prices[i] > -T
               /\ q[i] * T - fee * prices[i] <= (n - 1) * T
    <3>1. prices[i] \in Nat /\ q[i] \in Nat /\ fee * prices[i] - T * q[i] \in 0..(T - 1)
      BY <2>a
    <3>2. q[i] * T = T * q[i] /\ T * q[i] \in Int
      BY <2>0, <3>1
    <3>3. fee * prices[i] \in Int
      BY <3>1
    <3>4. (n - 1) * T \in Nat
      BY <1>1, <2>0
    <3> DEFINE x == T * q[i]
               y == fee * prices[i]
               z == (n - 1) * T
    <3>5. q[i] * T = x /\ x \in Int /\ y \in Int /\ z \in Nat /\ y - x \in 0..(T - 1)
      BY <3>1, <3>2, <3>3, <3>4
    <3> HIDE DEF x, y, z
    <3>6. x - y > -T /\ x - y <= z
      BY <2>0, <3>5
    <3>7. q[i] >= 0
      BY <3>1
    <3>8. q[i] * T - y > -T /\ q[i] * T - y <= z
      BY ONLY <3>5, <3>6, Zenon
    <3> QED BY ONLY <3>7, <3>8, Zenon DEF y, z
  <2>9. /\ fee - Q >= 0 /\ (fee - Q) * T - fee * prices[n] > -T
        /\ (fee - Q) * T - fee * prices[n] <= (n - 1) * T
    <3>1. prices[n] \in Nat
      BY <1>1
    <3>2. (fee - Q) * T - fee * prices[n] = fee * S - T * Q
      <4>1. (fee - Q) * T = fee * T - T * Q
        BY <2>0, <2>4
      <4>2. fee * T = fee * S + fee * prices[n]
        BY <1>6, <2>4, <3>1
      <4>3. fee * S \in Int /\ fee * prices[n] \in Int /\ T * Q \in Int
        BY <2>0, <2>4, <3>1
      <4> QED BY <4>1, <4>2, <4>3
    <3>3. (n - 1) * (T - 1) =< (n - 1) * T /\ (n - 1) * T \in Int /\ (n - 1) * (T - 1) \in Int
      <4>1. (n - 1) * T = (n - 1) * (T - 1) + (n - 1)
        BY <1>1, <2>0
      <4>2. (n - 1) * (T - 1) \in Int
        BY <1>1, <2>0
      <4> QED BY <1>1, <4>1, <4>2
    <3>4. fee - Q >= 0
      <4>1. fee * prices[n] \in Nat
        BY <3>1
      <4>2. (fee - Q) * T = (fee * S - T * Q) + fee * prices[n]
        <5>1. (fee - Q) * T \in Int /\ fee * S - T * Q \in Int
          BY <2>0, <2>4
        <5> QED BY <3>2, <4>1, <5>1
      <4>3. (fee - Q) * T >= 0
        BY <2>4, <4>1, <4>2
      <4>4. \A x \in Int, y \in Nat \ {0} : x * y >= 0 => x >= 0
        OBVIOUS
      <4> QED BY <2>0, <2>4, <4>3, <4>4
    <3>5. fee * S - T * Q \in Int
      BY <2>0, <2>4
    <3> QED BY <2>0, <2>4, <3>2, <3>3, <3>4, <3>5
  <2>10. ASSUME NEW i \in 1..n
         PROVE  /\ shares[i] >= 0 /\ shares[i] * T - fee * prices[i] > -T
                /\ shares[i] * T - fee * prices[i] <= (n - 1) * T
    <3>1. i \in 1..(n - 1) \/ i = n
      BY <1>1
    <3> QED BY <1>8, <2>8, <2>9, <3>1
  <2> QED BY <1>3, <1>10, <2>7, <2>10 DEF Shared, T, n
<1> QED BY <1>9, <1>10

-----------------------------------------------------------------------------

\* What every step does to the table: it adds at the end, at its time.
Grown ==
    /\ now' \in Nat /\ now <= now'
    /\ Current \in Nat /\ Current' \in Nat /\ Current <= Current'
    /\ \A v \in 1..Current : versions'[v] = versions[v]
    /\ \A v \in 1..(Current - 1) : until'[v] = until[v]
    /\ Current < Current' => until'[Current] \in Nat /\ now <= until'[Current]

LEMMA TableInit == Init => TableInv
<1> SUFFICES ASSUME Init PROVE TableInv
  OBVIOUS
<1>1. FirstParameters \in Submitted /\ Valid(FirstParameters)
  BY QuotesAssumption
<1>2. versions = <<FirstParameters>> /\ until = <<>> /\ now = 0 /\ admin = Idle
  BY DEF Init
<1>3. versions \in Seq(Submitted) /\ Len(versions) = 1 /\ versions[1] = FirstParameters
  BY <1>1, <1>2
<1>4. until \in Seq(Nat) /\ Len(until) = 0
  BY <1>2
<1> QED BY <1>1, <1>2, <1>3, <1>4 DEF TableInv, Current

LEMMA TableWrite ==
    ASSUME TableInv, NEW p \in Submitted, Valid(p), Written(p), UNCHANGED now
    PROVE  /\ versions' \in Seq(Submitted) /\ versions' # <<>>
           /\ \A v \in DOMAIN versions' : Valid(versions'[v])
           /\ until' \in Seq(Nat) /\ Len(until') = Current' - 1
           /\ Grown
<1> USE DEF TableInv, Current
<1>1. versions' = Append(versions, p) /\ until' = Append(until, now)
  BY DEF Written
<1>2. Len(versions) \in Nat \ {0} /\ DOMAIN versions = 1..Len(versions)
  OBVIOUS
<1>3. /\ versions' \in Seq(Submitted) /\ Len(versions') = Len(versions) + 1
      /\ DOMAIN versions' = 1..(Len(versions) + 1)
      /\ \A v \in 1..Len(versions) : versions'[v] = versions[v]
      /\ versions'[Len(versions) + 1] = p
  BY <1>1, <1>2
<1>4. /\ until' \in Seq(Nat) /\ Len(until') = Len(versions)
      /\ \A v \in 1..(Len(versions) - 1) : until'[v] = until[v]
      /\ until'[Len(versions)] = now
  BY <1>1, <1>2
<1>5. versions' # <<>>
  BY <1>2, <1>3
<1>6. \A v \in DOMAIN versions' : Valid(versions'[v])
  BY <1>2, <1>3
<1>7. Grown
  BY <1>2, <1>3, <1>4 DEF Grown
<1> QED BY <1>3, <1>4, <1>5, <1>6, <1>7

LEMMA TableNext == TableInv /\ [Next]_vars => TableInv' /\ Grown
<1> SUFFICES ASSUME TableInv, [Next]_vars PROVE TableInv' /\ Grown
  OBVIOUS
<1>0. Len(versions) \in Nat /\ Len(until) \in Nat /\ now \in Nat
  BY DEF TableInv
<1>1. CASE UNCHANGED <<versions, until, admin>> /\ now' \in {now, now + 1}
  <2>1. TableInv'
    BY <1>0, <1>1 DEF TableInv, Current
  <2>2. Grown
    BY <1>0, <1>1 DEF TableInv, Grown, Current
  <2> QED BY <2>1, <2>2
<1>2. ASSUME NEW p \in [default : Defaults, percent : Percents], UpdateParameter(p)
      PROVE  TableInv' /\ Grown
  <2>1. p \in Submitted /\ Valid(p) /\ UNCHANGED <<versions, until, now>>
    BY <1>2, QuotesAssumption DEF UpdateParameter, Submitted
  <2>2. admin' \in [stage : {"write", "invalidate"}, row : Submitted] /\ Valid(admin'.row)
    BY <1>2, <2>1 DEF UpdateParameter
  <2>3. TableInv'
    BY <2>1, <2>2 DEF TableInv, Current
  <2>4. Grown
    BY <1>0, <2>1 DEF TableInv, Grown, Current
  <2> QED BY <2>3, <2>4
<1>3. CASE WriteParameter /\ admin.stage = "write"
  <2>1. /\ admin.row \in Submitted /\ Valid(admin.row)
        /\ admin \in [stage : {"write", "invalidate"}, row : Submitted]
    BY <1>3 DEF TableInv, Idle
  <2>2. Written(admin.row) /\ UNCHANGED now /\ admin' = [admin EXCEPT !.stage = "invalidate"]
    BY <1>3 DEF WriteParameter
  <2>3. /\ versions' \in Seq(Submitted) /\ versions' # <<>>
        /\ \A v \in DOMAIN versions' : Valid(versions'[v])
        /\ until' \in Seq(Nat) /\ Len(until') = Current' - 1
        /\ Grown
    BY <2>1, <2>2, TableWrite
  <2>4. admin' \in [stage : {"write", "invalidate"}, row : Submitted] /\ admin'.row = admin.row
    BY <2>1, <2>2
  <2>5. TableInv'
    BY <1>0, <2>1, <2>2, <2>3, <2>4 DEF TableInv
  <2> QED BY <2>3, <2>5
<1>4. CASE WriteParameter /\ admin.stage # "write"
  <2>1. UNCHANGED <<versions, until, now>> /\ admin' = Idle
    BY <1>4 DEF WriteParameter
  <2>2. TableInv'
    BY <2>1 DEF TableInv, Current
  <2>3. Grown
    BY <1>0, <2>1 DEF TableInv, Grown, Current
  <2> QED BY <2>2, <2>3
<1>5. \/ UNCHANGED <<versions, until, admin>> /\ now' \in {now, now + 1}
      \/ \E p \in [default : Defaults, percent : Percents] : UpdateParameter(p)
      \/ WriteParameter
  BY DEF Next, vars, parameters, PayNow, GetCached, GetMissed, LoadAll, StoreLoaded, ReadRules,
         Freeze, CreateRule, UpdateRule, DeleteRule, RuleStep, Tick
<1> QED BY <1>1, <1>2, <1>3, <1>4, <1>5

LEMMA ReadKept ==
    ASSUME Grown, now \in Nat, NEW version, NEW at, Read(version, at, now, versions, until)
    PROVE  Read(version, at, now', versions', until')
<1> USE DEF Current
<1>1. version \in 1..Current' /\ at <= now'
  BY DEF Read, Grown
<1>2. ASSUME version < Current' PROVE at <= until'[version]
  <2>1. CASE version < Current
    BY <2>1 DEF Read, Grown
  <2>2. CASE version = Current
    BY <1>2, <2>2 DEF Read, Grown
  <2> QED BY <2>1, <2>2 DEF Read, Grown
<1> QED BY <1>1, <1>2 DEF Read

LEMMA RulesNext == RulesInv /\ [Next]_vars => RulesInv'
<1> SUFFICES ASSUME RulesInv, [Next]_vars PROVE RulesInv'
  OBVIOUS
<1>1. CASE UNCHANGED rules
  BY <1>1 DEF RulesInv
<1>2. ASSUME NEW rule \in RuleChoices, CreateRule(rule) PROVE RulesInv'
  <2>1. rules' = rules \cup {rule} /\ rule \in PriceRule /\ \A r \in rules : ~ SameKey(r, rule)
    BY <1>2, QuotesAssumption DEF CreateRule, RuleStep, KeyFree
  <2> QED BY <2>1 DEF RulesInv, SameKey
<1>3. ASSUME NEW rule \in rules, NEW new \in RuleChoices, UpdateRule(rule, new) PROVE RulesInv'
  <2>1. rules' = (rules \ {rule}) \cup {new} /\ new \in PriceRule /\ SameKey(rule, new)
    BY <1>3, QuotesAssumption DEF UpdateRule, RuleStep
  <2>2. \A r \in rules : SameKey(r, new) \/ SameKey(new, r) => r = rule
    BY <2>1 DEF RulesInv, SameKey
  <2> QED BY <2>1, <2>2 DEF RulesInv
<1>4. ASSUME NEW rule \in rules, DeleteRule(rule) PROVE RulesInv'
  BY <1>4 DEF DeleteRule, RuleStep, RulesInv
<1> QED
  BY <1>1, <1>2, <1>3, <1>4
  DEF Next, vars, parameters, PayNow, GetCached, GetMissed, LoadAll, StoreLoaded, ReadRules,
      Freeze, UpdateParameter, WriteParameter, Tick

-----------------------------------------------------------------------------

LEMMA PacedKept ==
    ASSUME Grown, now \in Nat, NEW f, Paced(f, now, versions, until)
    PROVE  Paced(f, now', versions', until')
<1>1. \A k \in 1..Len(f.served) : f.served[k] \in Nat \ {0} /\ f.served[k] <= Len(versions')
  BY DEF Paced, InFlight, Grown, Current
<1>2. LoadInv(f.load, now', versions', until')
  <2>1. CASE f.load = Empty
    BY <2>1 DEF LoadInv
  <2>2. CASE f.load # Empty
    <3>1. f.load.at \in Nat /\ f.load.at <= now
      BY <2>2 DEF Paced, InFlight, LoadInv
    <3>2. f.load.version # 0 => Read(f.load.version, f.load.at, now', versions', until')
      BY <2>2, ReadKept DEF Paced, LoadInv
    <3> QED BY <3>1, <3>2 DEF LoadInv, Grown
  <2> QED BY <2>1, <2>2
<1> QED BY <1>1, <1>2 DEF Paced

LEMMA QuotedKept ==
    ASSUME Grown, NEW f, Quoted(f, versions)
    PROVE  Quoted(f, versions')
<1>a. f.served \in Seq(Nat \ {0}) /\ \A k \in 1..Len(f.served) : f.served[k] <= Current
  BY DEF Quoted, Current
<1>b. Current \in Nat /\ Current <= Len(versions') /\ Len(versions') \in Nat
      /\ \A v \in 1..Current : versions'[v] = versions[v]
  BY DEF Grown, Current
<1>c. \A k \in 1..Len(f.served) : f.served[k] \in 1..Current
  BY <1>a, <1>b
<1>1. \A k \in 1..Len(f.served) :
         f.served[k] \in 1..Current /\ f.served[k] <= Len(versions')
         /\ versions'[f.served[k]] = versions[f.served[k]]
  BY <1>b, <1>c
<1>2. \A i \in 1..Len(f.items) : i + 1 \in 1..Len(f.served)
  BY DEF Quoted
<1>3. \A i \in 1..Len(f.items) : \A h \in 1..f.items[i].hours :
         f.slots[i][h] = PriceAt(f.seen[i], versions'[f.served[i + 1]].default,
                                 f.items[i].start + h - 1)
  BY <1>1, <1>2 DEF Quoted
<1> QED BY <1>1, <1>3 DEF Quoted

\* A step of one request leaves the others where they were.
LEMMA OneRequestSteps ==
    ASSUME FlightInv, Grown, now \in Nat, NEW r \in Request, NEW f,
           flight' = [flight EXCEPT ![r] = f],
           Paced(f, now', versions', until') \/ Quoted(f, versions')
    PROVE  FlightInv'
<1>1. flight'[r] = f /\ \A q \in Request \ {r} : flight'[q] = flight[q]
  BY DEF FlightInv
<1>2. flight' = [q \in Request |-> flight'[q]]
  BY DEF FlightInv
<1>3. ASSUME NEW q \in Request
      PROVE  flight'[q] = Idle \/ Paced(flight'[q], now', versions', until')
                               \/ Quoted(flight'[q], versions')
  <2>1. CASE q = r
    BY <1>1, <2>1
  <2>2. CASE q # r
    <3>1. flight[q] = Idle \/ Paced(flight[q], now, versions, until) \/ Quoted(flight[q], versions)
      BY DEF FlightInv
    <3>2. Paced(flight[q], now, versions, until) => Paced(flight[q], now', versions', until')
      BY PacedKept
    <3>3. Quoted(flight[q], versions) => Quoted(flight[q], versions')
      BY QuotedKept
    <3> QED BY <1>1, <2>2, <3>1, <3>2, <3>3
  <2> QED BY <2>1, <2>2
<1> QED BY <1>2, <1>3 DEF FlightInv

LEMMA NoRequestSteps ==
    ASSUME FlightInv, Grown, now \in Nat, UNCHANGED flight
    PROVE  FlightInv'
<1>1. \A q \in Request :
         Paced(flight[q], now, versions, until) => Paced(flight[q], now', versions', until')
  BY PacedKept
<1>2. \A q \in Request : Quoted(flight[q], versions) => Quoted(flight[q], versions')
  BY QuotedKept
<1> QED BY <1>1, <1>2 DEF FlightInv


\* Who is asking, reading rules or about to freeze is being priced.
LEMMA UnderWay ==
    ASSUME FlightInv, NEW r \in Request, flight[r].stage \in Stages
    PROVE  Paced(flight[r], now, versions, until)
BY DEF FlightInv, Stages, Idle, Quoted

LEMMA GivenIsPaced ==
    ASSUME Grown, now \in Nat, UNCHANGED <<now, versions, until>>,
           NEW f, Paced(f, now, versions, until), f.stage \in {"params", "default"},
           NEW version \in 1..Current
    PROVE  Paced([Given(f, version) EXCEPT !.load = Empty], now, versions, until)
<1> DEFINE stage == IF f.item < Len(f.items) THEN "rules" ELSE "freeze"
           g == [Given(f, version) EXCEPT !.load = Empty]
<1>1. f \in InFlight /\ f.served \in Seq(Nat \ {0}) /\ version \in Nat \ {0} /\ Current \in Nat
  BY DEF Paced, InFlight, Grown
<1>2. /\ Append(f.served, version) \in Seq(Nat \ {0})
      /\ Len(Append(f.served, version)) = Len(f.served) + 1
      /\ \A k \in 1..Len(f.served) : Append(f.served, version)[k] = f.served[k]
      /\ Append(f.served, version)[Len(f.served) + 1] = version
  BY <1>1
<1>3. g = [f EXCEPT !.served = Append(f.served, version), !.stage = stage, !.load = Empty]
  BY <1>1 DEF Given, InFlight
<1>4. /\ g.served = Append(f.served, version) /\ g.stage = stage /\ g.load = Empty
      /\ g.items = f.items /\ g.item = f.item /\ g.seen = f.seen
      /\ g \in InFlight
  BY <1>1, <1>2, <1>3 DEF InFlight, Stages
<1> HIDE DEF g
<1>5. /\ f.item \in Nat /\ Len(f.items) \in Nat /\ f.items \in Seq(PickedItem)
      /\ f.item <= Len(f.items) /\ Len(f.seen) = f.item /\ Len(f.served) = f.item
      /\ f.item >= 1 \/ f.items # <<>>
  BY <1>1 DEF Paced, InFlight
<1>6. stage = "freeze" => f.item = Len(f.items) /\ f.item >= 1
  BY <1>5
<1>7. \A k \in 1..Len(g.served) : g.served[k] <= Len(versions)
  BY <1>1, <1>2, <1>4 DEF Paced, Current
<1>8. LoadInv(g.load, now, versions, until)
  BY <1>4 DEF LoadInv
<1>9. stage \in {"rules", "freeze"} /\ (stage = "rules" => f.item < Len(f.items))
  OBVIOUS
<1>10. /\ g \in InFlight /\ g.item <= Len(g.items) /\ Len(g.seen) = g.item
       /\ Len(g.served) = g.item + 1
       /\ g.stage \in {"rules", "freeze"}
       /\ g.stage = "rules" => g.item < Len(g.items)
       /\ g.stage = "freeze" => g.item = Len(g.items) /\ g.item >= 1
       /\ g.load = Empty
  BY <1>2, <1>4, <1>5, <1>6, <1>9
<1>11. Paced(g, now, versions, until)
  BY <1>7, <1>8, <1>10 DEF Paced
<1> QED BY <1>11 DEF g

LEMMA FlightPayNow ==
    ASSUME FlightInv, Grown, now \in Nat,
           NEW r \in Request, NEW items \in Baskets, PayNow(r, items)
    PROVE  FlightInv'
<1> DEFINE f == [stage |-> "params", items |-> items, item |-> 0, served |-> <<>>,
                 seen |-> <<>>, load |-> Empty]
<1>1. flight' = [flight EXCEPT ![r] = f] /\ items # <<>>
  BY DEF PayNow, ItemsAllowed
<1>2. items \in Seq(PickedItem) /\ Len(items) \in Nat
  BY QuotesAssumption
<1>3. f \in InFlight
  BY <1>2 DEF InFlight, Stages
<1>4. Paced(f, now', versions', until')
  BY <1>1, <1>2, <1>3 DEF Paced, LoadInv
<1> HIDE DEF f
<1> QED BY <1>1, <1>4, OneRequestSteps

LEMMA FlightGetCached ==
    ASSUME CacheInv, FlightInv, Grown, now \in Nat, NEW r \in Request, GetCached(r)
    PROVE  FlightInv'
<1> DEFINE f == flight[r]
           g == Given(f, cache.version)
<1>1. /\ flight' = [flight EXCEPT ![r] = g] /\ f.load = Empty
      /\ f.stage \in {"params", "default"} /\ cache.version # 0
      /\ UNCHANGED <<now, versions, until>>
  BY DEF GetCached, Asking, Serves, parameters
<1>2. Paced(f, now, versions, until)
  BY <1>1, UnderWay DEF Stages
<1>3. cache.version \in 1..Current
  BY <1>1 DEF CacheInv, Read, Empty, Current
<1>4. g = [g EXCEPT !.load = Empty]
  BY <1>1, <1>2 DEF Given, Paced, InFlight
<1> HIDE DEF f
<1>5. Paced([g EXCEPT !.load = Empty], now, versions, until)
  BY <1>1, <1>2, <1>3, GivenIsPaced
<1> HIDE DEF g
<1> QED BY <1>1, <1>4, <1>5, OneRequestSteps

LEMMA FlightGetMissed ==
    ASSUME FlightInv, Grown, now \in Nat, NEW r \in Request, GetMissed(r)
    PROVE  FlightInv'
<1> DEFINE f == flight[r]
           g == [f EXCEPT !.load = [version |-> 0, at |-> now]]
<1>1. flight' = [flight EXCEPT ![r] = g] /\ f.stage \in {"params", "default"}
      /\ UNCHANGED <<now, versions, until>>
  BY DEF GetMissed, Asking, parameters
<1>2. Paced(f, now, versions, until)
  BY <1>1, UnderWay DEF Stages
<1> HIDE DEF f
<1>3. /\ g \in InFlight /\ g.items = f.items /\ g.item = f.item /\ g.served = f.served
      /\ g.seen = f.seen /\ g.stage = f.stage /\ g.load = [version |-> 0, at |-> now]
  BY <1>2 DEF Paced, InFlight
<1> HIDE DEF g
<1>4. LoadInv(g.load, now, versions, until)
  BY <1>3 DEF LoadInv
<1>5. Paced(g, now, versions, until)
  BY <1>1, <1>2, <1>3, <1>4 DEF Paced
<1> QED BY <1>1, <1>5, OneRequestSteps

LEMMA FlightLoadAll ==
    ASSUME TableInv, FlightInv, Grown, now \in Nat, NEW r \in Request, LoadAll(r)
    PROVE  FlightInv'
<1> DEFINE f == flight[r]
           g == [f EXCEPT !.load.version = Current]
<1>1. flight' = [flight EXCEPT ![r] = g] /\ f.stage \in {"params", "default"} /\ f.load # Empty
      /\ UNCHANGED <<now, versions, until>>
  BY DEF LoadAll, Loading, Asking, parameters
<1>2. Paced(f, now, versions, until)
  BY <1>1, UnderWay DEF Stages
<1>3. Current \in Nat /\ Current >= 1
  BY DEF TableInv, Current
<1> HIDE DEF f
<1>4. f.load \in [version : Nat, at : Nat] /\ f.load.at <= now
  BY <1>1, <1>2 DEF Paced, InFlight, LoadInv
<1>5. /\ g \in InFlight /\ g.items = f.items /\ g.item = f.item /\ g.served = f.served
      /\ g.seen = f.seen /\ g.stage = f.stage
      /\ g.load = [version |-> Current, at |-> f.load.at]
  BY <1>2, <1>3, <1>4 DEF Paced, InFlight
<1> HIDE DEF g
<1>6. Read(Current, f.load.at, now, versions, until)
  BY <1>3, <1>4 DEF Read, Current
<1>7. LoadInv(g.load, now, versions, until)
  BY <1>4, <1>5, <1>6 DEF LoadInv
<1>8. Paced(g, now, versions, until)
  BY <1>1, <1>2, <1>5, <1>7 DEF Paced
<1> QED BY <1>1, <1>8, OneRequestSteps

\* What a load that has read the rows knows.
LEMMA LoadedIsRead ==
    ASSUME FlightInv, NEW r \in Request, Loading(r), flight[r].load.version # 0
    PROVE  /\ Paced(flight[r], now, versions, until)
           /\ flight[r].load \in [version : Nat, at : Nat]
           /\ Read(flight[r].load.version, flight[r].load.at, now, versions, until)
<1>1. Paced(flight[r], now, versions, until)
  BY UnderWay DEF Loading, Asking, Stages
<1>2. flight[r].load \in [version : Nat, at : Nat]
  BY <1>1 DEF Loading, Paced, InFlight
<1>3. Read(flight[r].load.version, flight[r].load.at, now, versions, until)
  BY <1>1 DEF Loading, Paced, LoadInv
<1> QED BY <1>1, <1>2, <1>3

LEMMA FlightStoreLoaded ==
    ASSUME FlightInv, Grown, now \in Nat, NEW r \in Request, StoreLoaded(r)
    PROVE  FlightInv'
<1> DEFINE f == flight[r]
           g == [Given(f, f.load.version) EXCEPT !.load = Empty]
<1>1. /\ flight' = [flight EXCEPT ![r] = g] /\ f.stage \in {"params", "default"}
      /\ UNCHANGED <<now, versions, until>>
  BY DEF StoreLoaded, Loading, Asking
<1>2. Paced(f, now, versions, until) /\ f.load.version \in 1..Current
  BY LoadedIsRead DEF StoreLoaded, Read, Current
<1> HIDE DEF f
<1>3. Paced(g, now, versions, until)
  BY <1>1, <1>2, GivenIsPaced
<1> HIDE DEF g
<1> QED BY <1>1, <1>3, OneRequestSteps

LEMMA FlightReadRules ==
    ASSUME RulesInv, FlightInv, Grown, now \in Nat, NEW r \in Request, ReadRules(r)
    PROVE  FlightInv'
<1> DEFINE f == flight[r]
           read == {x \in rules : x.court = f.items[f.item + 1].court}
           g == [f EXCEPT !.stage = "default", !.item = @ + 1, !.seen = Append(@, read)]
<1>1. f.stage = "rules" /\ UNCHANGED <<now, versions, until>>
  BY DEF ReadRules, parameters
<1>2. Paced(f, now, versions, until)
  BY <1>1, UnderWay DEF Stages
<1>3. flight' = [flight EXCEPT ![r] = g]
  BY DEF ReadRules
<1>4. read \in Tariff
  BY DEF RulesInv, Tariff
<1> HIDE DEF f, read
<1>5. Append(f.seen, read) \in Seq(Tariff) /\ Len(Append(f.seen, read)) = Len(f.seen) + 1
  BY <1>2, <1>4 DEF Paced, InFlight
<1>6. /\ g \in InFlight /\ g.items = f.items /\ g.item = f.item + 1 /\ g.served = f.served
      /\ g.seen = Append(f.seen, read) /\ g.stage = "default" /\ g.load = f.load
  <2>1. f \in InFlight /\ f.item + 1 \in Nat
    BY <1>2 DEF Paced, InFlight
  <2> DEFINE f1 == [f EXCEPT !.stage = "default"]
             f2 == [f1 EXCEPT !.item = f.item + 1]
             f3 == [f2 EXCEPT !.seen = Append(f.seen, read)]
  <2>2. f1 \in InFlight /\ f1.items = f.items /\ f1.item = f.item /\ f1.served = f.served
        /\ f1.seen = f.seen /\ f1.stage = "default" /\ f1.load = f.load
    BY <2>1 DEF InFlight, Stages
  <2> HIDE DEF f1
  <2>3. f2 \in InFlight /\ f2.items = f.items /\ f2.item = f.item + 1 /\ f2.served = f.served
        /\ f2.seen = f.seen /\ f2.stage = "default" /\ f2.load = f.load
    BY <2>1, <2>2 DEF InFlight
  <2> HIDE DEF f2
  <2>4. f3 \in InFlight /\ f3.items = f.items /\ f3.item = f.item + 1 /\ f3.served = f.served
        /\ f3.seen = Append(f.seen, read) /\ f3.stage = "default" /\ f3.load = f.load
    BY <2>3, <1>5 DEF InFlight
  <2>5. g = f3
    BY <2>1 DEF f1, f2, InFlight
  <2> QED BY <2>4, <2>5
<1> HIDE DEF g
<1>7. /\ f.item \in Nat /\ Len(f.items) \in Nat /\ f.item < Len(f.items) /\ Len(f.seen) = f.item
      /\ Len(f.served) = f.item + 1
  BY <1>1, <1>2 DEF Paced, InFlight
<1>8. Paced(g, now, versions, until)
  BY <1>1, <1>2, <1>5, <1>6, <1>7 DEF Paced
<1> QED BY <1>1, <1>3, <1>8, OneRequestSteps


\* allocate_fee gives every item a share.
LEMMA SharePerItem ==
    ASSUME NEW fee, NEW prices, Len(prices) \in Nat \ {0}
    PROVE  Len(AllocateFee(fee, prices)) = Len(prices)
<1> DEFINE total == Total(prices)
           last == Len(prices)
           share == [i \in 1..(last - 1) |->
                       IF total = 0 THEN 0 ELSE (fee * prices[i]) \div total]
           end == fee - Total(share)
           S == {share[i] : i \in 1..(last - 1)} \cup {end}
<1>1. AllocateFee(fee, prices) = Append(share, end)
  BY DEF AllocateFee
<1>2. last - 1 \in Nat /\ DOMAIN share = 1..(last - 1)
  OBVIOUS
<1>3. \A i \in 1..(last - 1) : share[i] \in S
  OBVIOUS
<1>4. share = [i \in 1..(last - 1) |-> share[i]] /\ end \in S
  OBVIOUS
<1> HIDE DEF share, S, end, last
<1>5. share \in Seq(S) /\ Len(share) = last - 1
  <2>1. share \in [1..(last - 1) -> S]
    BY <1>3, <1>4
  <2> QED BY <1>2, <2>1, FiniteIsSeq
<1>6. Len(Append(share, end)) = Len(share) + 1
  <2>1. end \in S
    BY <1>4
  <2> QED BY <1>5, <2>1, AppendProperties
<1> QED BY <1>1, <1>2, <1>5, <1>6 DEF last

LEMMA SlotIsPriced ==
    ASSUME NEW f, NEW i, f.items[i] \in PickedItem, NEW h \in 1..f.items[i].hours
    PROVE  SlotPrices(f, i)[h]
              = PriceAt(f.seen[i], versions[f.served[i + 1]].default, f.items[i].start + h - 1)
BY DEF SlotPrices, SlotStarts, PickedItem

\* No hour costs less than nothing: neither a rule's price nor the default does.
LEMMA PriceNat ==
    ASSUME NEW seen \in Tariff, NEW default \in Nat, NEW start
    PROVE  PriceAt(seen, default, start) \in Nat
<1> DEFINE keys == Keys(ManilaDay(start) % 7, ManilaHour(start))
           Hit(i) == {r \in seen : <<r.day, r.hour>> = keys[i]}
           hits == {i \in DOMAIN keys : Hit(i) # {}}
           first == CHOOSE i \in hits : \A j \in hits : i <= j
           x == CHOOSE r \in Hit(first) : TRUE
<1>1. PriceAt(seen, default, start) = IF hits = {} THEN default ELSE x.price
  BY DEF PriceAt
<1>2. CASE hits = {}
  BY <1>1, <1>2
<1>3. CASE hits # {}
  <2>1. DOMAIN keys = 1..4
    BY DEF Keys
  <2>2. hits \in SUBSET Nat
    BY <2>1
  <2>3. \E m \in hits : \A j \in hits : m =< j
    <3> HIDE DEF hits
    <3> QED BY <1>3, <2>2, Least
  <2>4. first \in hits
    <3> HIDE DEF hits
    <3> QED BY <2>3
  <2>5. Hit(first) # {}
    <3> HIDE DEF first
    <3> QED BY <2>4
  <2>6. x \in Hit(first)
    <3> HIDE DEF Hit, first
    <3> QED BY <2>5
  <2>7. x \in PriceRule
    <3> HIDE DEF x, first
    <3> QED BY <2>6 DEF Tariff
  <2> HIDE DEF x, hits
  <2> QED BY <1>1, <1>3, <2>7 DEF PriceRule
<1> QED BY <1>2, <1>3

LEMMA FlightFreeze ==
    ASSUME TableInv, FlightInv, Grown, now \in Nat, NEW r \in Request, Freeze(r)
    PROVE  FlightInv'
<1> DEFINE f == flight[r]
           slots == [i \in DOMAIN f.items |-> SlotPrices(f, i)]
           shares == AllocateFee(Fee(f), Prices(f))
           g == [stage |-> "frozen", items |-> f.items, seen |-> f.seen, served |-> f.served,
                 slots |-> slots, prices |-> Prices(f), fee |-> Fee(f), shares |-> shares]
<1>1. /\ f.stage = "freeze" /\ flight' = [flight EXCEPT ![r] = g]
      /\ UNCHANGED <<now, versions, until>>
  BY DEF Freeze, parameters
<1>2. Paced(f, now, versions, until)
  BY <1>1, UnderWay DEF Stages
<1> HIDE DEF f
<1>3. /\ f.items \in Seq(PickedItem) /\ f.seen \in Seq(Tariff) /\ f.served \in Seq(Nat \ {0})
      /\ Len(f.items) \in Nat \ {0} /\ Len(f.seen) = Len(f.items)
      /\ Len(f.served) = Len(f.items) + 1
      /\ \A k \in 1..Len(f.served) : f.served[k] <= Len(versions)
  BY <1>1, <1>2 DEF Paced, InFlight
<1>4. DOMAIN f.items = 1..Len(f.items) /\ \A i \in 1..Len(f.items) : f.items[i] \in PickedItem
  BY <1>3
<1>a. ASSUME NEW k \in 1..Len(f.served)
      PROVE  versions[f.served[k]].default \in Nat /\ versions[f.served[k]].percent \in 0..(100 * PerCent)
  <2>1. f.served[k] \in 1..Len(versions)
    BY <1>3
  <2>2. versions[f.served[k]] \in Submitted /\ Valid(versions[f.served[k]])
    BY <2>1 DEF TableInv
  <2> QED BY <2>2 DEF Submitted, Valid
<1>b. ASSUME NEW i \in 1..Len(f.items) PROVE Total(SlotPrices(f, i)) \in Nat
  <2>a. i + 1 \in 1..Len(f.served) /\ i \in 1..Len(f.seen)
    BY <1>3
  <2>b. versions[f.served[i + 1]].default \in Nat
    BY <1>a, <2>a
  <2>1. f.items[i] \in PickedItem /\ f.seen[i] \in Tariff /\ versions[f.served[i + 1]].default \in Nat
    BY <1>3, <1>4, <2>a, <2>b
  <2>2. f.items[i].hours \in Nat
    BY <2>1 DEF PickedItem
  <2>3. \A h \in 1..f.items[i].hours : SlotPrices(f, i)[h] \in Nat
    BY <2>1, SlotIsPriced, PriceNat
  <2>4. SlotPrices(f, i) \in Seq(Nat)
    <3>1. SlotPrices(f, i) = [h \in 1..f.items[i].hours |-> SlotPrices(f, i)[h]]
      BY DEF SlotPrices
    <3>2. SlotPrices(f, i) \in [1..f.items[i].hours -> Nat]
      BY <2>3, <3>1
    <3> QED BY <2>2, <3>2, FiniteIsSeq
  <2> QED BY <2>4, TotalNat
<1>c. Prices(f) \in Seq(Nat) /\ Len(Prices(f)) = Len(f.items)
  <2>1. Prices(f) = [i \in 1..Len(f.items) |-> Total(SlotPrices(f, i))]
    BY <1>4 DEF Prices
  <2>2. Prices(f) \in [1..Len(f.items) -> Nat]
    BY <1>b, <2>1
  <2> QED BY <1>3, <2>2, FiniteIsSeq
<1>d. Shared(Fee(f), Prices(f), shares)
  <2> DEFINE T == Total(Prices(f))
             percent == versions[f.served[1]].percent
  <2>1. T \in Nat
    BY <1>c, TotalNat
  <2>2. percent \in 0..(100 * PerCent)
    BY <1>3, <1>a
  <2>3. Fee(f) = ConvenienceFee(T, percent)
    BY DEF Fee
  <2> HIDE DEF percent
  <2>4. Fee(f) \in Nat /\ (T = 0 => Fee(f) = 0)
    <3> HIDE DEF T
    <3> QED BY <2>1, <2>2, <2>3, ConvenienceFeeNat
  <2>5. Prices(f) # << >>
    BY <1>3, <1>c
  <2> QED BY <1>c, <2>4, <2>5, SharesFit
<1>5. Len(shares) = Len(f.items)
  BY <1>3, <1>c, SharePerItem
<1>6. \A i \in 1..Len(f.items) : \A h \in 1..f.items[i].hours :
         slots[i][h] = PriceAt(f.seen[i], versions[f.served[i + 1]].default,
                               f.items[i].start + h - 1)
  BY <1>4, SlotIsPriced
<1> HIDE DEF slots, shares
<1>7. Quoted(g, versions)
  BY <1>3, <1>5, <1>6, <1>c, <1>d DEF Quoted
<1> HIDE DEF g
<1> QED BY <1>1, <1>7, OneRequestSteps

LEMMA FlightNext == TableInv /\ CacheInv /\ RulesInv /\ FlightInv /\ [Next]_vars => FlightInv'
<1> SUFFICES ASSUME TableInv, CacheInv, RulesInv, FlightInv, [Next]_vars
             PROVE  FlightInv'
  OBVIOUS
<1>1. Grown /\ now \in Nat
  BY TableNext DEF TableInv
<1>2. CASE UNCHANGED flight
  BY <1>1, <1>2, NoRequestSteps
<1>3. ASSUME NEW r \in Request, NEW items \in Baskets, PayNow(r, items) PROVE FlightInv'
  BY <1>1, <1>3, FlightPayNow
<1>4. ASSUME NEW r \in Request, GetCached(r) PROVE FlightInv'
  BY <1>1, <1>4, FlightGetCached
<1>5. ASSUME NEW r \in Request, GetMissed(r) PROVE FlightInv'
  BY <1>1, <1>5, FlightGetMissed
<1>6. ASSUME NEW r \in Request, LoadAll(r) PROVE FlightInv'
  BY <1>1, <1>6, FlightLoadAll
<1>7. ASSUME NEW r \in Request, StoreLoaded(r) PROVE FlightInv'
  BY <1>1, <1>7, FlightStoreLoaded
<1>8. ASSUME NEW r \in Request, ReadRules(r) PROVE FlightInv'
  BY <1>1, <1>8, FlightReadRules
<1>9. ASSUME NEW r \in Request, Freeze(r) PROVE FlightInv'
  BY <1>1, <1>9, FlightFreeze
<1> QED
  BY <1>2, <1>3, <1>4, <1>5, <1>6, <1>7, <1>8, <1>9
  DEF Next, vars, UpdateParameter, WriteParameter, CreateRule, UpdateRule, DeleteRule, RuleStep,
      Tick

-----------------------------------------------------------------------------

LEMMA CacheNext == TableInv /\ CacheInv /\ FlightInv /\ [Next]_vars => CacheInv'
<1> SUFFICES ASSUME TableInv, CacheInv, FlightInv, [Next]_vars
             PROVE  CacheInv'
  OBVIOUS
<1> USE DEF Current
<1>1. Grown /\ now \in Nat /\ Current \in Nat \ {0}
  BY TableNext DEF TableInv
<1>2. CASE UNCHANGED <<cache, versions>> /\ (UNCHANGED admin \/ admin = Idle)
  <2>1. Read(cache.version, cache.at, now, versions, until)
          => Read(cache.version, cache.at, now', versions', until')
    BY <1>1, ReadKept
  <2>2. BehindOnlyByOvertaking'
    BY <1>2 DEF CacheInv, BehindOnlyByOvertaking, Idle
  <2> QED BY <1>2, <2>1, <2>2 DEF CacheInv
<1>3. ASSUME NEW r \in Request, StoreLoaded(r) PROVE CacheInv'
  <2> DEFINE load == flight[r].load
  <2>1. load \in [version : Nat, at : Nat] /\ Read(load.version, load.at, now, versions, until)
    BY <1>3, LoadedIsRead DEF StoreLoaded
  <2>2. cache' = [version |-> load.version, at |-> load.at, late |-> load.version # Current]
        /\ UNCHANGED <<now, versions, until>>
    BY <1>3 DEF StoreLoaded, Stored
  <2> HIDE DEF load
  <2>3. cache' \in [version : Nat, at : Nat, late : BOOLEAN]
        /\ Read(cache'.version, cache'.at, now', versions', until')
    BY <2>1, <2>2
  <2>4. ASSUME cache'.version \in 1..(Current' - 1) PROVE cache'.late
    <3>1. load.version # Current
      BY <1>1, <2>1, <2>2, <2>4
    <3>2. cache'.late = (load.version # Current)
      BY <2>2
    <3> QED BY ONLY <3>1, <3>2, Zenon
  <2>5. BehindOnlyByOvertaking'
    BY ONLY <2>4, Zenon DEF BehindOnlyByOvertaking
  <2> QED BY <2>3, <2>5 DEF CacheInv
<1>4. CASE WriteParameter /\ admin.stage = "write"
  <2>1. UNCHANGED cache /\ admin'.stage = "invalidate"
    BY <1>4 DEF WriteParameter, TableInv, Idle
  <2>2. Read(cache.version, cache.at, now, versions, until)
          => Read(cache.version, cache.at, now', versions', until')
    BY <1>1, ReadKept
  <2>3. BehindOnlyByOvertaking'
    BY <2>1 DEF BehindOnlyByOvertaking
  <2> QED BY <2>1, <2>2, <2>3 DEF CacheInv
<1>5. CASE WriteParameter /\ admin.stage # "write"
  <2>1. cache' = Empty
    BY <1>5 DEF WriteParameter
  <2>2. BehindOnlyByOvertaking'
    BY <2>1 DEF BehindOnlyByOvertaking, Empty
  <2> QED BY <2>1, <2>2 DEF CacheInv
<1>6. ASSUME NEW p \in [default : Defaults, percent : Percents], UpdateParameter(p)
      PROVE  CacheInv'
  BY <1>2, <1>6 DEF UpdateParameter
<1> QED
  BY <1>2, <1>3, <1>4, <1>5, <1>6
  DEF Next, vars, parameters, PayNow, GetCached, GetMissed, LoadAll, ReadRules, Freeze,
      CreateRule, UpdateRule, DeleteRule, RuleStep, Tick

-----------------------------------------------------------------------------

LEMMA QuotesInvInit == Init => QuotesInv
<1> SUFFICES ASSUME Init PROVE QuotesInv
  OBVIOUS
<1>1. CacheInv
  BY DEF Init, CacheInv, BehindOnlyByOvertaking, Empty
<1>2. RulesInv
  BY QuotesAssumption DEF Init, RulesInv
<1>3. FlightInv
  <2>1. flight = [r \in Request |-> Idle]
    BY DEF Init
  <2>2. \A r \in Request : flight[r] = Idle
    BY <2>1
  <2>3. flight = [r \in Request |-> flight[r]]
    BY <2>1
  <2> QED BY <2>2, <2>3 DEF FlightInv
<1> QED BY TableInit, <1>1, <1>2, <1>3 DEF QuotesInv

LEMMA QuotesInvNext == QuotesInv /\ [Next]_vars => QuotesInv'
BY TableNext, CacheNext, RulesNext, FlightNext DEF QuotesInv

\* Everything said above of the table, the cache, the rules and the requests
\* holds in every reachable state.
THEOREM QuotesInvariant == Spec => []QuotesInv
<1> QED BY QuotesInvInit, QuotesInvNext, PTL DEF Spec

\* The table never fails its own validation, one rule has one day and hour
\* (uq_price_rule_specificity), and every item of a quote gets a share.
THEOREM QuotesTyped == Spec => []TypeOK
<1>1. QuotesInv => TypeOK
  <2> SUFFICES ASSUME QuotesInv PROVE TypeOK
    OBVIOUS
  <2> USE DEF QuotesInv, Current
  <2>1. cache.version \in 0..Current
    BY DEF CacheInv, TableInv, Empty, Read
  <2>2. \A r \in Request : Frozen(r) => Len(flight[r].shares) = Len(flight[r].items)
    BY DEF FlightInv, Paced, InFlight, Stages, Quoted, Idle, Frozen
  <2> QED BY <2>1, <2>2 DEF TypeOK, TableInv, RulesInv
<1> QED BY <1>1, QuotesInvariant, PTL

\* ParameterService: the cache holds replaced values only before the update
\* invalidates it, or after a load which that update overtook.
THEOREM CacheIsCurrent == Spec => []BehindOnlyByOvertaking
<1>1. QuotesInv => BehindOnlyByOvertaking
  BY DEF QuotesInv, CacheInv
<1> QED BY <1>1, QuotesInvariant, PTL

LEMMA FrozenIsQuoted ==
    ASSUME QuotesInv, NEW r \in Request, Frozen(r)
    PROVE  Quoted(flight[r], versions)
BY DEF QuotesInv, FlightInv, Paced, InFlight, Stages, Idle, Frozen

\* PriceResolver.price_at: whatever the rules, an hour is charged what the one
\* most specific of the rules that match it in Manila says.
THEOREM ChargedTheMostSpecific == Spec => []MostSpecificWins
<1>1. ASSUME QuotesInv, NEW r \in Request, Frozen(r),
             NEW i \in DOMAIN flight[r].items, NEW h \in 1..flight[r].items[i].hours,
             NEW x \in Matching(flight[r].seen[i], flight[r].items[i].start + h - 1),
             \A y \in Matching(flight[r].seen[i], flight[r].items[i].start + h - 1) :
                Weight(y) <= Weight(x)
      PROVE  flight[r].slots[i][h] = x.price
  <2> DEFINE f == flight[r]
             start == f.items[i].start + h - 1
  <2>1. Quoted(f, versions)
    BY <1>1, FrozenIsQuoted
  <2>2. i \in 1..Len(f.items) /\ f.items[i] \in PickedItem /\ f.seen[i] \in Tariff
    BY <2>1 DEF Quoted
  <2>3. start \in Int
    BY <2>2 DEF PickedItem
  <2>4. f.slots[i][h] = PriceAt(f.seen[i], versions[f.served[i + 1]].default, start)
    BY <2>1, <2>2 DEF Quoted
  <2> HIDE DEF f, start
  <2>5. PriceAt(f.seen[i], versions[f.served[i + 1]].default, start) = x.price
    BY <1>1, <2>2, <2>3, MostSpecificIsCharged DEF f, start
  <2> QED BY <2>4, <2>5 DEF f
<1>2. QuotesInv => MostSpecificWins
  BY <1>1 DEF MostSpecificWins
<1> QED BY <1>2, QuotesInvariant, PTL

\* allocate_fee: whatever the prices and the percentage, the shares add back to
\* the fee, none is negative, and none strays from its proportion by more than a
\* centavo for every other court.
THEOREM FeeIsShared == Spec => []FeeShared
<1>1. ASSUME QuotesInv, NEW r \in Request, Frozen(r), NEW q, q = flight[r]
      PROVE  /\ Total(q.shares) = q.fee
             /\ \A i \in 1..Len(q.items) :
                   LET off == q.shares[i] * Total(q.prices) - q.fee * q.prices[i]
                   IN IF Total(q.prices) = 0 THEN q.shares[i] = 0
                      ELSE /\ q.shares[i] >= 0 /\ off > -Total(q.prices)
                           /\ off <= (Len(q.items) - 1) * Total(q.prices)
  <2>1. Len(q.prices) = Len(q.items) /\ Shared(q.fee, q.prices, q.shares)
    BY <1>1, FrozenIsQuoted DEF Quoted
  <2> QED BY ONLY <2>1 DEF Shared
<1>2. QuotesInv => FeeShared
  BY <1>1 DEF FeeShared
<1> QED BY <1>2, QuotesInvariant, PTL

\* PricingService.day_prices: the preview of a Manila day lists what
\* priced_slots charges for each of its hours.
THEOREM PreviewMatchesCharge == Spec => []PreviewIsCharged
<1>1. ASSUME QuotesInv, NEW r \in Request, Frozen(r),
             NEW i \in DOMAIN flight[r].items, NEW h \in 1..flight[r].items[i].hours,
             NEW start, start = flight[r].items[i].start + h - 1
      PROVE  DayPrices(flight[r].seen[i], versions[flight[r].served[i + 1]].default,
                       ManilaDay(start))[ManilaHour(start)]
                = flight[r].slots[i][h]
  <2> DEFINE f == flight[r]
  <2>1. Quoted(f, versions)
    BY <1>1, FrozenIsQuoted
  <2>2. i \in 1..Len(f.items) /\ f.items[i] \in PickedItem
    BY <2>1 DEF Quoted
  <2>3. start \in Int
    BY <1>1, <2>2 DEF PickedItem
  <2>4. f.slots[i][h] = PriceAt(f.seen[i], versions[f.served[i + 1]].default, start)
    BY <1>1, <2>1, <2>2 DEF Quoted
  <2> QED BY <2>3, <2>4, ManilaClock DEF DayPrices
<1>2. QuotesInv => PreviewIsCharged
  BY <1>1 DEF PreviewIsCharged
<1> QED BY <1>2, QuotesInvariant, PTL


-----------------------------------------------------------------------------

\* A request is given values by the cache or by its own load.
LEMMA GivenByCacheOrLoad ==
    ASSUME QuotesInv, [Next]_vars, NEW r \in Request, Asking(r),
           flight'[r].served # flight[r].served
    PROVE  GetCached(r) \/ StoreLoaded(r)
<1>1. Paced(flight[r], now, versions, until) /\ flight[r].stage \in {"params", "default"}
  BY UnderWay DEF QuotesInv, Asking, Stages
<1>2. flight = [q \in Request |-> flight[q]] /\ flight[r] \in InFlight
  BY <1>1 DEF QuotesInv, FlightInv, Paced
<1>3. ASSUME NEW q \in Request, NEW f, flight' = [flight EXCEPT ![q] = f]
      PROVE  q = r /\ flight'[r] = f
  BY <1>2, <1>3
<1>4. ASSUME NEW q \in Request, NEW items \in Baskets, PayNow(q, items) PROVE FALSE
  BY <1>1, <1>3, <1>4 DEF PayNow, Idle
<1>5. ASSUME NEW q \in Request, GetCached(q) PROVE GetCached(r)
  BY <1>3, <1>5 DEF GetCached
<1>6. ASSUME NEW q \in Request, GetMissed(q) PROVE FALSE
  BY <1>2, <1>3, <1>6 DEF GetMissed, InFlight
<1>7. ASSUME NEW q \in Request, LoadAll(q) PROVE FALSE
  BY <1>2, <1>3, <1>7 DEF LoadAll, InFlight
<1>8. ASSUME NEW q \in Request, StoreLoaded(q) PROVE StoreLoaded(r)
  BY <1>3, <1>8 DEF StoreLoaded
<1>9. ASSUME NEW q \in Request, ReadRules(q) PROVE FALSE
  <2> DEFINE read == {x \in rules : x.court = flight[q].items[flight[q].item + 1].court}
             g == [flight[q] EXCEPT !.stage = "default", !.item = @ + 1, !.seen = Append(@, read)]
  <2>1. flight[q].stage = "rules" /\ flight' = [flight EXCEPT ![q] = g]
    BY <1>9 DEF ReadRules
  <2> HIDE DEF g
  <2> QED BY <1>1, <1>3, <2>1
<1>10. ASSUME NEW q \in Request, Freeze(q) PROVE FALSE
  BY <1>1, <1>3, <1>10 DEF Freeze
<1> QED
  BY <1>4, <1>5, <1>6, <1>7, <1>8, <1>9, <1>10
  DEF Next, vars, parameters, UpdateParameter, WriteParameter, CreateRule, UpdateRule,
      DeleteRule, RuleStep, Tick

LEMMA LastGiven ==
    ASSUME NEW f \in InFlight, NEW version \in Nat \ {0}
    PROVE  Last(Append(f.served, version)) = version
<1>1. f.served \in Seq(Nat \ {0})
  BY DEF InFlight
<1> QED BY <1>1, AppendProperties DEF Last

LEMMA FreshStep ==
    ASSUME QuotesInv, [Next]_vars, NEW r \in Request, Asking(r),
           flight'[r].served # flight[r].served, Last(flight'[r].served) < Current
    PROVE  (IF flight[r].load = Empty THEN now ELSE flight[r].load.at)
              - until[Last(flight'[r].served)] < TTL
<1> DEFINE f == flight[r]
<1>1. f \in InFlight /\ Paced(f, now, versions, until)
  BY UnderWay DEF QuotesInv, Asking, Stages, Paced
<1>2. TTL \in Nat \ {0} /\ now \in Nat /\ until \in Seq(Nat) /\ Len(until) = Current - 1
      /\ Current \in Nat
  BY QuotesAssumption DEF QuotesInv, TableInv, Current
<1>3. \A v \in 1..(Current - 1) : until[v] \in Nat
  BY <1>2
<1>4. CASE GetCached(r)
  <2>1. cache.version # 0 /\ now - cache.at < TTL /\ f.load = Empty
    BY <1>4 DEF GetCached, Serves
  <2>2. Read(cache.version, cache.at, now, versions, until)
    BY <2>1 DEF QuotesInv, CacheInv, Empty
  <2>3. flight'[r] = Given(f, cache.version)
    BY <1>4 DEF GetCached, QuotesInv, FlightInv
  <2> HIDE DEF f
  <2>4. flight'[r].served = Append(f.served, cache.version)
    BY <1>1, <2>3 DEF Given, InFlight
  <2>5. Last(flight'[r].served) = cache.version
    BY <1>1, <2>2, <2>4, LastGiven DEF Read
  <2>6. cache.at <= until[cache.version] /\ cache.version \in 1..(Current - 1) /\ cache.at \in Nat
    BY <1>2, <2>2, <2>5 DEF Read, Current
  <2>7. now - until[cache.version] < TTL
    <3>1. \A a, b \in Nat : now - a < TTL /\ a <= b => now - b < TTL
      BY <1>2
    <3>2. until[cache.version] \in Nat
      BY <1>3, <2>6
    <3> QED BY <2>1, <2>6, <3>1, <3>2
  <2> QED BY <2>1, <2>5, <2>7 DEF f
<1>5. CASE StoreLoaded(r)
  <2> DEFINE v == f.load.version
  <2>1. f.load \in [version : Nat, at : Nat] /\ Read(v, f.load.at, now, versions, until)
        /\ f.load # Empty
    BY <1>5, LoadedIsRead DEF StoreLoaded, QuotesInv, Loading
  <2>2. flight'[r] = [Given(f, v) EXCEPT !.load = Empty]
    BY <1>5 DEF StoreLoaded, QuotesInv, FlightInv
  <2> HIDE DEF f
  <2>3. flight'[r].served = Append(f.served, v)
    BY <1>1, <2>2 DEF Given, InFlight
  <2>4. Last(flight'[r].served) = v
    BY <1>1, <2>1, <2>3, LastGiven DEF Read
  <2>5. f.load.at <= until[v] /\ v \in 1..(Current - 1) /\ f.load.at \in Nat
    BY <1>2, <2>1, <2>4 DEF Read, Current
  <2>6. f.load.at - until[v] < TTL
    <3>1. \A a, b \in Nat : a <= b => a - b < TTL
      BY <1>2
    <3>2. until[v] \in Nat
      BY <1>3, <2>5
    <3> QED BY ONLY <2>5, <3>1, <3>2
  <2> QED BY <2>1, <2>4, <2>6 DEF f
<1> QED BY <1>4, <1>5, GivenByCacheOrLoad

\* ParameterService.get: no interleaving of loads, updates and invalidations
\* gives a request values that were replaced a TTL before it asked.
THEOREM ServedFresh == Spec => NeverOlderThanTTL
<1>1. QuotesInv /\ [Next]_vars =>
        [\A r \in Request :
           LET asked == IF flight[r].load = Empty THEN now ELSE flight[r].load.at
               given == Last(flight'[r].served)
           IN Asking(r) /\ flight'[r].served # flight[r].served /\ given < Current
                => asked - until[given] < TTL]_vars
  BY FreshStep
<1> QED BY <1>1, QuotesInvariant, PTL DEF Spec, NeverOlderThanTTL
=============================================================================
