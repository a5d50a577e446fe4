------------------------------- MODULE Quotes -------------------------------
(***************************************************************************)
(* What a customer is charged: the parameters table and its cache           *)
(* (parameters/service.py, parameters/admin.py), the price rules            *)
(* (pricing/service.py), and the pricing half of "Pay now"                  *)
(* (checkouts/service.py), one await at a time.                            *)
(*                                                                         *)
(* One process, so a step runs until its next await.  The versions of the   *)
(* table are numbered by their commits.                                    *)
(***************************************************************************)
EXTENDS Pricing

CONSTANTS
    Request,        \* checkouts being priced at the same time
    Court,
    Baskets,        \* the items a customer may pick
    FirstRules,     \* the price rules there may be already
    RuleChoices,    \* rules an administrator may write: [court, day, hour, price]
    Defaults,       \* submitted values of default_slot_price_centavos
    Percents,       \* submitted values of convenience_fee_percent
    FirstParameters,
    TTL,            \* how long the cache serves, in ticks
    MaxTime, MaxVersions, MaxRuleChanges

\* What Pydantic and ck_price_rules let through: rules, items, values.
PriceRule ==
    [court : Court, day : DayOfWeek \cup {Wild}, hour : HourOfDay \cup {Wild}, price : Nat]
PickedItem == [court : Court, start : Int, hours : Nat \ {0}]
Submitted == [default : Int, percent : Int]

\* Parameters: Field(ge=0) and Field(ge=0, le=100).
Valid(p) == p.default >= 0 /\ p.percent \in 0..(100 * PerCent)

SameKey(r, s) == r.court = s.court /\ r.day = s.day /\ r.hour = s.hour

ASSUME QuotesAssumption ==
    /\ TTL \in Nat \ {0} /\ {MaxTime, MaxVersions, MaxRuleChanges} \subseteq Nat
    /\ RuleChoices \subseteq PriceRule
    /\ \A first \in FirstRules :
          first \subseteq PriceRule /\ \A r, s \in first : SameKey(r, s) => r = s
    /\ Baskets \subseteq Seq(PickedItem)
    /\ Defaults \cup Percents \subseteq Int
    /\ FirstParameters \in Submitted /\ Valid(FirstParameters)

VARIABLES
    now,            \* time.monotonic
    versions,       \* every content the table had: [default, percent]
    until,          \* when each but the last was replaced
    cache,          \* _cached and _loaded_at
    admin,          \* the update in progress
    rules,          \* price_rules
    rule_changes,
    flight          \* what each request is at, at last what it froze

parameters == <<versions, until, cache, admin>>
vars == <<now, parameters, rules, rule_changes, flight>>

Empty == [version |-> 0]
Idle == [stage |-> "idle"]

Current == Len(versions)
Last(s) == s[Len(s)]

Frozen(r) == flight[r].stage = "frozen"

\* The table never fails its own validation, one rule has one day and hour.
TypeOK ==
    /\ \A v \in DOMAIN versions : Valid(versions[v])
    /\ Len(until) = Current - 1
    /\ cache.version \in 0..Current
    /\ \A r, s \in rules : SameKey(r, s) => r = s
    /\ \A r \in Request : Frozen(r) => Len(flight[r].shares) = Len(flight[r].items)

-----------------------------------------------------------------------------
(* ParameterService.get.  A request asks for the parameters at a stage, and  *)
(* goes on at the next with the version it got.                             *)

Serves(c, clock) == c.version # 0 /\ clock - c.at < TTL

\* served: the versions the request was given.
Given(f, version) ==
    [f EXCEPT !.served = Append(@, version),
              !.stage = IF f.item < Len(f.items) THEN "rules" ELSE "freeze"]

Asking(r) == flight[r].stage \in {"params", "default"}

GetCached(r) ==
    /\ Asking(r) /\ flight[r].load = Empty /\ Serves(cache, now)
    /\ flight' = [flight EXCEPT ![r] = Given(@, cache.version)]
    /\ UNCHANGED <<now, parameters, rules, rule_changes>>

\* The clock is read, then the load awaits.
GetMissed(r) ==
    /\ Asking(r) /\ flight[r].load = Empty /\ ~ Serves(cache, now)
    /\ flight' = [flight EXCEPT ![r].load = [version |-> 0, at |-> now]]
    /\ UNCHANGED <<now, parameters, rules, rule_changes>>

Loading(r) == Asking(r) /\ flight[r].load # Empty

\* load_all reads the committed rows.
LoadAll(r) ==
    /\ Loading(r) /\ flight[r].load.version = 0
    /\ flight' = [flight EXCEPT ![r].load.version = Current]
    /\ UNCHANGED <<now, parameters, rules, rule_changes>>

\* Mutant of Stored: the clock is read after the load.
StoredNow(load) == [version |-> load.version, at |-> now, late |-> load.version # Current]

\* late: the table was written since the load read it.
Stored(load) == [version |-> load.version, at |-> load.at, late |-> load.version # Current]

StoreLoaded(r) ==
    LET f == flight[r] IN
    /\ Loading(r) /\ f.load.version # 0
    /\ cache' = Stored(f.load)
    /\ flight' = [flight EXCEPT ![r] = [Given(f, f.load.version) EXCEPT !.load = Empty]]
    /\ UNCHANGED <<now, versions, until, admin, rules, rule_changes>>

-----------------------------------------------------------------------------
(* ParameterAdminService.update.                                            *)

\* lock_all: one update at a time holds the rows, changes the value of one key
\* and validates all of them.
UpdateParameter(p) ==
    /\ admin = Idle /\ Current < MaxVersions
    /\ p # versions[Current] /\ Valid(p)
    /\ p.default = versions[Current].default \/ p.percent = versions[Current].percent
    /\ admin' = [stage |-> "write", row |-> p]
    /\ UNCHANGED <<now, versions, until, cache, rules, rule_changes, flight>>

Written(p) == versions' = Append(versions, p) /\ until' = Append(until, now)

\* Mutant of WriteParameter: the cache is dropped before the commit.
WriteParameterLast ==
    \/ /\ admin.stage = "write"
       /\ cache' = Empty
       /\ admin' = [admin EXCEPT !.stage = "invalidate"]
       /\ UNCHANGED <<now, versions, until, rules, rule_changes, flight>>
    \/ /\ admin.stage = "invalidate"
       /\ Written(admin.row)
       /\ admin' = Idle
       /\ UNCHANGED <<now, cache, rules, rule_changes, flight>>

\* The commit, and after its await the invalidation.
WriteParameter ==
    \/ /\ admin.stage = "write"
       /\ Written(admin.row)
       /\ admin' = [admin EXCEPT !.stage = "invalidate"]
       /\ UNCHANGED <<now, cache, rules, rule_changes, flight>>
    \/ /\ admin.stage = "invalidate"
       /\ cache' = Empty
       /\ admin' = Idle
       /\ UNCHANGED <<now, versions, until, rules, rule_changes, flight>>

-----------------------------------------------------------------------------
(* Price rules.                                                             *)

\* Mutant of KeyFree: NULLs are distinct.
KeyFreeDistinctNulls(rule) ==
    \A r \in rules : SameKey(r, rule) => rule.day = Wild \/ rule.hour = Wild

\* uq_price_rule_specificity.
KeyFree(rule) == \A r \in rules : ~ SameKey(r, rule)

RuleStep(after) ==
    /\ rule_changes < MaxRuleChanges
    /\ rules' = after /\ rule_changes' = rule_changes + 1
    /\ UNCHANGED <<now, parameters, flight>>

CreateRule(rule) == KeyFree(rule) /\ RuleStep(rules \cup {rule})

\* Only the price can change.
UpdateRule(rule, new) ==
    rule # new /\ SameKey(rule, new) /\ RuleStep((rules \ {rule}) \cup {new})

DeleteRule(rule) == RuleStep(rules \ {rule})

-----------------------------------------------------------------------------
(* "Pay now": the parameters, then for each item its court's rules and the   *)
(* default price, then the fee and the commit.                              *)

PayNow(r, items) ==
    /\ flight[r] = Idle /\ ItemsAllowed(items)
    /\ flight' = [flight EXCEPT ![r] =
                    [stage |-> "params", items |-> items, item |-> 0, served |-> <<>>,
                     seen |-> <<>>, load |-> Empty]]
    /\ UNCHANGED <<now, parameters, rules, rule_changes>>

\* list_for_courts.
ReadRules(r) ==
    LET f == flight[r] IN
    /\ f.stage = "rules"
    /\ flight' = [flight EXCEPT
         ![r].stage = "default",
         ![r].item = @ + 1,
         ![r].seen = Append(@, {x \in rules : x.court = f.items[f.item + 1].court})]
    /\ UNCHANGED <<now, parameters, rules, rule_changes>>

\* priced_slots: each hour of item i.
SlotPrices(f, i) ==
    [h \in 1..f.items[i].hours |->
        PriceAt(f.seen[i], versions[f.served[i + 1]].default,
                SlotStarts(f.items[i].start, f.items[i].hours)[h])]

Prices(f) == [i \in DOMAIN f.items |-> Total(SlotPrices(f, i))]

Fee(f) == ConvenienceFee(Total(Prices(f)), versions[f.served[1]].percent)

Freeze(r) ==
    LET f == flight[r] IN
    /\ f.stage = "freeze"
    /\ flight' = [flight EXCEPT ![r] =
         [stage |-> "frozen", items |-> f.items, seen |-> f.seen, served |-> f.served,
          slots |-> [i \in DOMAIN f.items |-> SlotPrices(f, i)],
          prices |-> Prices(f), fee |-> Fee(f), shares |-> AllocateFee(Fee(f), Prices(f))]]
    /\ UNCHANGED <<now, parameters, rules, rule_changes>>

-----------------------------------------------------------------------------

Tick ==
    /\ now < MaxTime /\ now' = now + 1
    /\ UNCHANGED <<parameters, rules, rule_changes, flight>>

Init ==
    /\ now = 0
    /\ versions = <<FirstParameters>> /\ until = <<>>
    /\ cache = Empty /\ admin = Idle
    /\ rules \in FirstRules /\ rule_changes = 0
    /\ flight = [r \in Request |-> Idle]

Next ==
    \/ \E r \in Request :
          \/ \E items \in Baskets : PayNow(r, items)
          \/ GetCached(r)
          \/ GetMissed(r)
          \/ LoadAll(r)
          \/ StoreLoaded(r)
          \/ ReadRules(r)
          \/ Freeze(r)
    \/ \E p \in [default : Defaults, percent : Percents] : UpdateParameter(p)
    \/ WriteParameter
    \/ \E rule \in RuleChoices : CreateRule(rule)
    \/ \E rule \in rules, new \in RuleChoices : UpdateRule(rule, new)
    \/ \E rule \in rules : DeleteRule(rule)
    \/ Tick

Spec == Init /\ [][Next]_vars

-----------------------------------------------------------------------------
(* Properties.                                                              *)

\* "the TTL is short so an admin changing the fee sees it take effect
\* promptly": whatever awaits come between, a request is never given values
\* that were replaced a full TTL, or longer, before it asked.
NeverOlderThanTTL ==
    [][\A r \in Request :
         LET asked == IF flight[r].load = Empty THEN now ELSE flight[r].load.at
             given == Last(flight'[r].served)
         IN Asking(r) /\ flight'[r].served # flight[r].served /\ given < Current
              => asked - until[given] < TTL]_vars

\* The cache holds replaced values only while the update that replaced them has
\* not dropped it yet, or when a load the update overtook stored them after.
BehindOnlyByOvertaking ==
    cache.version \in 1..(Current - 1) => cache.late \/ admin.stage = "invalidate"

\* The rules of a court that match an hour, and those no other is more
\* specific than: an hour counts for more than a day.
Matching(seen, start) ==
    {x \in seen : x.day \in {Wild, ManilaDay(start) % 7} /\ x.hour \in {Wild, ManilaHour(start)}}

Weight(x) == (IF x.hour # Wild THEN 2 ELSE 0) + (IF x.day # Wild THEN 1 ELSE 0)

\* "Most specific wins": every hour of a quote costs what the one most
\* specific of the rules read for its court says, also past midnight.
MostSpecificWins ==
    \A r \in Request : Frozen(r) =>
        \A i \in DOMAIN flight[r].items : \A h \in 1..flight[r].items[i].hours :
            LET matching == Matching(flight[r].seen[i], flight[r].items[i].start + h - 1)
            IN \A x \in matching :
                  (\A y \in matching : Weight(y) <= Weight(x))
                    => flight[r].slots[i][h] = x.price

\* The preview of a Manila day lists, at each hour, what a booking of that hour
\* is charged from the same rules: the day is never sliced on UTC.
PreviewIsCharged ==
    \A r \in Request : Frozen(r) =>
        \A i \in DOMAIN flight[r].items : \A h \in 1..flight[r].items[i].hours :
            LET start == flight[r].items[i].start + h - 1
                default == versions[flight[r].served[i + 1]].default
            IN DayPrices(flight[r].seen[i], default, ManilaDay(start))[ManilaHour(start)]
                  = flight[r].slots[i][h]

\* allocate_fee: the shares "must add back to exactly" the fee shown, none is
\* negative, and none strays from its proportion by more than a centavo per other court.
FeeShared ==
    \A r \in Request : Frozen(r) =>
        LET q == flight[r]
            n == Len(q.items)
            total == Total(q.prices)
        IN /\ Total(q.shares) = q.fee
           /\ \A i \in 1..n :
                 LET off == q.shares[i] * total - q.fee * q.prices[i]
                 IN IF total = 0 THEN q.shares[i] = 0
                    ELSE q.shares[i] >= 0 /\ off > -total /\ off <= (n - 1) * total
=============================================================================
