------------------------- MODULE Organisation_proofs -------------------------
(****************************************************************************)
(* Who may do what where, for every number of venues, people, groups and    *)
(* overlapping requests: the groups keep their shape, staff change nothing  *)
(* beyond their venue however stale their request is, and what a request    *)
(* checked before it wrote still holds while nothing is committed beside it.*)
(*                                                                          *)
(* The inductive invariant has a part per kind of knowledge.  Names and     *)
(* Walled hold of a stale request too, since what they speak of never ends: *)
(* a group keeps its venue and kind, an account is not forgotten.  Decided  *)
(* holds of a fresh one: it is what the handler's reads established.        *)
(****************************************************************************)
EXTENDS Organisation, FiniteSetTheorems, SequenceTheorems, TLAPS

-----------------------------------------------------------------------------
(* The invariant.                                                           *)

\* What a group can be given, and every name there may be.
Granted == PERMISSIONS \ OWNER_ONLY

AnyName ==
    Name \cup {"Customer", "Venue master", "Front desk"}
         \cup UNION {NamesIn(grown.groups) : grown \in Grown}

GroupRecord ==
    [kind : GroupKind, venue : Nat, name : AnyName, codes : SUBSET Granted, here : BOOLEAN]

CourtRecord == [venue : Nat, edits : Nat]

\* The master group of a venue, or the customers.
Leading(v) == {g \in DOMAIN groups : groups[g].venue = v /\ groups[g].kind # "STAFF"}

GroupFits(g) ==
    /\ groups[g].venue \in 0..Len(venues)
    /\ (groups[g].kind = "CUSTOMER") <=> (groups[g].venue = NoVenue)
    /\ groups[g].kind = "CUSTOMER" => groups[g].codes = {}
    /\ Here(g) => NameFree(groups[g].venue, groups[g].name, g)

GroupsInv ==
    /\ venues \in Seq(Nat) /\ courts \in Seq(CourtRecord) /\ groups \in Seq(GroupRecord)
    /\ \A g \in DOMAIN groups : GroupFits(g)
    /\ \A v \in 0..Len(venues) : \E g \in DOMAIN groups : Leading(v) = {g}

PeopleInv ==
    /\ legacy \in Legacies
    /\ members \subseteq (DOMAIN groups) \X User
    /\ person \in [User -> [known : BOOLEAN, active : BOOLEAN, pending : BOOLEAN]]
    /\ \A u \in User : person[u].active \/ person[u].pending => person[u].known
    /\ \A m \in members : Here(m[1]) /\ person[m[2]].known

OfGroup ==
    {"rename_group", "delete_group", "set_permissions", "add_member", "remove_member", "invite"}

OfUser == {"add_member", "remove_member", "invite", "update_user"}

SavedCodes ==
    [op : {"set_permissions"}, caller : User, at : Nat, group : Nat, codes : SUBSET Granted,
     swept : SUBSET Granted, stage : {"sweep", "commit"}]

\* What a request has in hand, however stale: it names what exists, and no venue
\* ceases to be, no group changes its kind or venue, no account is forgotten.
Names(f, gs, vs, cs, ps) ==
    /\ f.op # "idle" /\ f.caller \in User /\ f.at \in Nat
    /\ f.op \in OfGroup => f.group \in DOMAIN gs
    /\ f.op \in OfUser => f.user \in User
    /\ f.op \in {"create_group", "update_venue", "create_court"} => f.venue \in DOMAIN vs
    /\ f.op \in {"create_group", "rename_group"} => f.name \in Name
    /\ f.op = "add_member" => ps[f.user].known
    /\ f.op = "update_user" => f.active \in BOOLEAN /\ ps[f.user].known
    /\ f.op = "update_court" => f.court \in DOMAIN cs
    /\ f.op = "set_permissions" =>
          f \in SavedCodes /\ (gs[f.group].kind = "CUSTOMER" => f.codes = {})

\* The request of anyone but the owner is about the venue it was made at.
Walled(f, gs, cs) ==
    /\ f.at # AllVenues
    /\ f.op \notin {"create_venue", "update_venue"}
    /\ f.op \in OfGroup => gs[f.group].kind = "STAFF" /\ gs[f.group].venue = f.at
    /\ f.op \in {"create_group", "create_court"} => f.venue = f.at
    /\ f.op = "update_court" => cs[f.court].venue = f.at

FlightInv ==
    /\ flight = [r \in Request |-> flight[r]]
    /\ \A r \in Request :
          \/ flight[r] = Idle
          \/ /\ Names(flight[r], groups, venues, courts, person)
             /\ flight[r].caller # Owner => Walled(flight[r], groups, courts)

\* StaffCodes over given groups and memberships.
CodesIn(gs, ms, u, venue, excluding) ==
    UNION {gs[g].codes : g \in {h \in DOMAIN gs :
        /\ <<h, u>> \in ms /\ h # excluding
        /\ gs[h].kind # "CUSTOMER" /\ gs[h].venue = venue}}

\* Without the group the user still manages groups at the venue.
OtherWayIn(gs, ms, u, venue, g) ==
    <<g, u>> \in ms => "USER:Manage" \in CodesIn(gs, ms, u, venue, g)

\* What a request decided from still holds while nothing was committed beside it.
Decided(f, gs, ms) ==
    /\ f.op = "delete_group" => \A m \in ms : m[1] # f.group
    /\ f.op = "set_permissions" /\ f.stage = "commit" => f.swept = gs[f.group].codes
    /\ f.caller # Owner /\ f.op = "set_permissions" =>
          /\ f.codes \ CodesIn(gs, ms, f.caller, f.at, NoGroup)
                = gs[f.group].codes \ CodesIn(gs, ms, f.caller, f.at, NoGroup)
          /\ "USER:Manage" \in gs[f.group].codes \ f.codes
                => OtherWayIn(gs, ms, f.caller, f.at, f.group)
    /\ f.caller # Owner /\ f.op = "remove_member" /\ f.user = f.caller =>
          ("USER:Manage" \in gs[f.group].codes => OtherWayIn(gs, ms, f.caller, f.at, f.group))
    /\ f.caller # Owner /\ f.op = "update_user" =>
          /\ f.user # f.caller
          /\ \A g \in DOMAIN gs : <<g, f.user>> \in ms => gs[g].kind # "MASTER" /\ gs[g].venue = f.at

FreshInv ==
    \A r \in Request : Flight(r) /\ r \notin stale => Decided(flight[r], groups, members)

OrganisationInv == GroupsInv /\ PeopleInv /\ FlightInv /\ FreshInv

-----------------------------------------------------------------------------
(* What a step writes.                                                      *)

\* What lasts: groups keep their kind and venue, courts their venue, accounts stay.
Grows ==
    /\ DOMAIN groups \subseteq DOMAIN groups' /\ DOMAIN venues \subseteq DOMAIN venues'
    /\ DOMAIN courts \subseteq DOMAIN courts'
    /\ \A g \in DOMAIN groups :
          groups'[g].kind = groups[g].kind /\ groups'[g].venue = groups[g].venue
    /\ \A c \in DOMAIN courts : courts'[c].venue = courts[c].venue
    /\ \A u \in User : person[u].known => person'[u].known

Writes(f) ==
    /\ groups' = GroupsAfter(f) /\ members' = MembersAfter(f) /\ person' = PersonAfter(f)
    /\ courts' = CourtsAfter(f) /\ venues' = VenuesAfter(f)

\* What each operation writes.
LEMMA GroupsWritten ==
    ASSUME NEW f, Writes(f)
    PROVE  /\ f.op = "set_permissions" => groups' = [groups EXCEPT ![f.group].codes = CodesAfter(f)]
           /\ f.op = "rename_group" => groups' = [groups EXCEPT ![f.group].name = f.name]
           /\ f.op = "create_group" =>
                 groups' = Append(groups, Group("STAFF", f.venue, f.name, {}))
           /\ f.op = "delete_group" =>
                 groups' = [groups EXCEPT ![f.group].here = FALSE, ![f.group].codes = {}]
           /\ f.op = "create_venue" => groups' = groups \o SeedVenueGroups(Len(venues) + 1)
           /\ f.op \notin {"set_permissions", "rename_group", "create_group", "delete_group",
                           "create_venue"} => groups' = groups
BY DEF Writes, GroupsAfter

\* What each operation does to the memberships.
LEMMA MembersWritten ==
    ASSUME NEW f, Writes(f)
    PROVE  /\ f.op \in {"add_member", "invite"} => members' = members \cup {<<f.group, f.user>>}
           /\ f.op = "remove_member" => members' = members \ {<<f.group, f.user>>}
           /\ f.op = "delete_group" => members' = {m \in members : m[1] # f.group}
           /\ f.op \notin {"add_member", "invite", "remove_member", "delete_group"}
                 => members' = members
BY DEF Writes, MembersAfter

\* What each operation does to the accounts.
LEMMA PersonWritten ==
    ASSUME NEW f, Writes(f)
    PROVE  /\ f.op = "update_user" => person' = [person EXCEPT ![f.user].active = f.active]
           /\ f.op = "invite" =>
                 person' = [person EXCEPT ![f.user] =
                              [known |-> TRUE, active |-> FALSE, pending |-> TRUE]]
           /\ f.op \notin {"update_user", "invite"} => person' = person
BY DEF Writes, PersonAfter

\* What each operation does to venues and courts.
LEMMA PlacesWritten ==
    ASSUME NEW f, Writes(f)
    PROVE  /\ f.op = "create_court" => courts' = Append(courts, [venue |-> f.venue, edits |-> 0])
           /\ f.op = "update_court" => courts' = [courts EXCEPT ![f.court].edits = @ + 1]
           /\ f.op \notin {"create_court", "update_court"} => courts' = courts
           /\ f.op = "create_venue" => venues' = Append(venues, 0)
           /\ f.op = "update_venue" => venues' = [venues EXCEPT ![f.venue] = @ + 1]
           /\ f.op \notin {"create_venue", "update_venue"} => venues' = venues
BY DEF Writes, CourtsAfter, VenuesAfter

\* One group changes, not its kind and not its venue.
LEMMA OneGroupChanges ==
    ASSUME GroupsInv, NEW g0 \in DOMAIN groups, NEW rec \in GroupRecord,
           rec.kind = groups[g0].kind, rec.venue = groups[g0].venue,
           rec.kind = "CUSTOMER" => rec.codes = {},
           rec.here => groups[g0].here /\ NameFree(rec.venue, rec.name, g0),
           groups' = [groups EXCEPT ![g0] = rec], UNCHANGED <<venues, courts>>
    PROVE  /\ GroupsInv' /\ DOMAIN groups' = DOMAIN groups
           /\ \A g \in DOMAIN groups :
                 groups'[g].kind = groups[g].kind /\ groups'[g].venue = groups[g].venue
<1>1. groups \in Seq(GroupRecord) /\ DOMAIN groups = 1..Len(groups) /\ Len(groups) \in Nat
  BY DEF GroupsInv
<1>2. groups' \in Seq(GroupRecord) /\ Len(groups') = Len(groups)
  BY <1>1
<1>3. DOMAIN groups' = DOMAIN groups
  BY <1>1, <1>2
<1>4. groups'[g0] = rec /\ \A g \in DOMAIN groups : g # g0 => groups'[g] = groups[g]
  BY <1>1
<1>5. \A g \in DOMAIN groups :
         groups'[g].kind = groups[g].kind /\ groups'[g].venue = groups[g].venue
  BY <1>4
<1>6. \A v : Leading(v)' = Leading(v)
  BY <1>3, <1>5 DEF Leading
<1>7. ASSUME NEW g \in DOMAIN groups' PROVE GroupFits(g)'
  <2>0. g \in DOMAIN groups /\ GroupFits(g) /\ GroupFits(g0)
    BY <1>3 DEF GroupsInv
  <2>1. CASE g = g0
    <3>1. Here(g)' => NameFree(groups[g].venue, groups[g].name, g)'
      BY <1>3, <1>4, <2>1 DEF NameFree, Here
    <3> QED BY <1>4, <2>0, <2>1, <3>1 DEF GroupFits
  <2>2. CASE g # g0
    <3>1. groups'[g] = groups[g]
      BY <1>4, <2>0, <2>2
    <3>2. ASSUME Here(g)' PROVE NameFree(groups[g].venue, groups[g].name, g)'
      <4>1. Here(g) /\ NameFree(groups[g].venue, groups[g].name, g)
        BY <2>0, <3>1, <3>2 DEF Here, GroupFits
      <4>2. ASSUME NEW h \in DOMAIN groups', Here(h)', h # g
            PROVE  groups'[h].venue # groups'[g].venue \/ groups'[h].name # groups'[g].name
        <5>1. CASE h = g0
          <6>1. NameFree(rec.venue, rec.name, g0)
            BY <1>4, <4>2, <5>1 DEF Here
          <6> QED BY <1>4, <2>0, <2>2, <3>1, <4>1, <5>1, <6>1 DEF NameFree
        <5>2. CASE h # g0
          BY <1>3, <1>4, <3>1, <4>1, <4>2, <5>2 DEF NameFree, Here
        <5> QED BY <5>1, <5>2
      <4> QED BY <4>2 DEF NameFree
    <3> QED BY <2>0, <3>1, <3>2 DEF GroupFits
  <2> QED BY <2>1, <2>2
<1>8. \A v \in 0..Len(venues') : \E g \in DOMAIN groups' : Leading(v)' = {g}
  BY <1>3, <1>6 DEF GroupsInv
<1>9. venues' \in Seq(Nat) /\ courts' \in Seq(CourtRecord)
  BY DEF GroupsInv
<1> QED BY <1>2, <1>3, <1>5, <1>7, <1>8, <1>9 DEF GroupsInv

\* Groups stay, and there are as many venues.
LEMMA NoGroupChanges ==
    ASSUME GroupsInv, UNCHANGED groups, venues' \in Seq(Nat), Len(venues') = Len(venues),
           courts' \in Seq(CourtRecord)
    PROVE  GroupsInv'
<1>1. \A v : Leading(v)' = Leading(v)
  BY DEF Leading
<1>2. \A g \in DOMAIN groups : GroupFits(g) => GroupFits(g)'
  BY DEF GroupFits, Here, NameFree
<1> QED BY <1>1, <1>2 DEF GroupsInv

\* A venue gets one more staff group, under a free name.
LEMMA GroupAppended ==
    ASSUME GroupsInv, NEW v \in 1..Len(venues), NEW name \in AnyName, NameFree(v, name, NoGroup),
           groups' = Append(groups, Group("STAFF", v, name, {})), UNCHANGED <<venues, courts>>
    PROVE  /\ GroupsInv' /\ DOMAIN groups \subseteq DOMAIN groups'
           /\ \A g \in DOMAIN groups : groups'[g] = groups[g]
<1> DEFINE rec == Group("STAFF", v, name, {})
           n == Len(groups)
<1>1. groups \in Seq(GroupRecord) /\ DOMAIN groups = 1..n /\ n \in Nat /\ Len(venues) \in Nat
  BY DEF GroupsInv
<1>2. rec \in GroupRecord /\ rec.kind = "STAFF" /\ rec.venue = v /\ rec.name = name /\ rec.codes = {}
      /\ rec.here
  BY <1>1 DEF GroupRecord, Group, GroupKind
<1>3. v # NoVenue /\ v \in 0..Len(venues)
  BY <1>1 DEF NoVenue
<1> HIDE DEF rec
<1>4. groups' = Append(groups, rec)
  BY DEF rec
<1> HIDE DEF n
<1>5. groups' \in Seq(GroupRecord) /\ Len(groups') = n + 1 /\ groups'[n + 1] = rec
      /\ \A g \in 1..n : groups'[g] = groups[g]
  BY <1>1, <1>2, <1>4 DEF n
<1>6. DOMAIN groups' = 1..(n + 1) /\ DOMAIN groups' = DOMAIN groups \cup {n + 1}
      /\ n + 1 \notin DOMAIN groups
  BY <1>1, <1>5
<1>7. \A w : Leading(w)' = Leading(w)
  BY <1>1, <1>2, <1>5, <1>6 DEF Leading
<1>8. ASSUME NEW g \in DOMAIN groups' PROVE GroupFits(g)'
  <2>1. CASE g \in DOMAIN groups
    <3>1. GroupFits(g) /\ groups'[g] = groups[g] /\ g # NoGroup
      BY <1>1, <1>5, <2>1 DEF GroupsInv, NoGroup
    <3>2. ASSUME Here(g)' PROVE NameFree(groups[g].venue, groups[g].name, g)'
      <4>1. Here(g) /\ NameFree(groups[g].venue, groups[g].name, g)
        BY <2>1, <3>1, <3>2 DEF Here, GroupFits
      <4>2. ASSUME NEW h \in DOMAIN groups', Here(h)', h # g
            PROVE  groups'[h].venue # groups'[g].venue \/ groups'[h].name # groups'[g].name
        <5>1. CASE h = n + 1
          <6>1. groups[g].venue # v \/ groups[g].name # name
            BY <2>1, <3>1, <4>1 DEF NameFree
          <6> QED BY <1>2, <1>5, <3>1, <5>1, <6>1
        <5>2. CASE h # n + 1
          <6>1. h \in DOMAIN groups /\ groups'[h] = groups[h] /\ Here(h)
            BY <1>1, <1>5, <1>6, <4>2, <5>2 DEF Here
          <6> QED BY <3>1, <4>1, <4>2, <6>1 DEF NameFree
        <5> QED BY <5>1, <5>2
      <4> QED BY <4>2, <3>1 DEF NameFree
    <3> QED BY <3>1, <3>2 DEF GroupFits
  <2>2. CASE g = n + 1
    <3>1. NameFree(groups[g].venue, groups[g].name, g)'
      <4>1. ASSUME NEW h \in DOMAIN groups', Here(h)', h # g
            PROVE  groups'[h].venue # v \/ groups'[h].name # name
        <5>1. h \in DOMAIN groups /\ groups'[h] = groups[h] /\ Here(h) /\ h # NoGroup
          BY <1>1, <1>5, <1>6, <4>1, <2>2 DEF Here, NoGroup
        <5> QED BY <5>1 DEF NameFree
      <4> QED BY <4>1, <1>2, <1>5, <2>2 DEF NameFree
    <3> QED BY <1>2, <1>3, <1>5, <2>2, <3>1 DEF GroupFits
  <2> QED BY <1>6, <2>1, <2>2
<1>9. \A w \in 0..Len(venues') : \E g \in DOMAIN groups' : Leading(w)' = {g}
  BY <1>6, <1>7 DEF GroupsInv
<1>10. venues' \in Seq(Nat) /\ courts' \in Seq(CourtRecord)
  BY DEF GroupsInv
<1> QED BY <1>1, <1>5, <1>6, <1>8, <1>9, <1>10 DEF GroupsInv

\* Two more at the end of a sequence.
LEMMA TwoMore ==
    ASSUME NEW S, NEW s \in Seq(S), NEW a \in S, NEW b \in S
    PROVE  /\ s \o <<a, b>> \in Seq(S) /\ Len(s \o <<a, b>>) = Len(s) + 2
           /\ \A i \in 1..Len(s) : (s \o <<a, b>>)[i] = s[i]
           /\ (s \o <<a, b>>)[Len(s) + 1] = a /\ (s \o <<a, b>>)[Len(s) + 2] = b
<1>1. <<a, b>> \in Seq(S) /\ Len(<<a, b>>) = 2 /\ <<a, b>>[1] = a /\ <<a, b>>[2] = b
  OBVIOUS
<1> DEFINE t == <<a, b>>
<1> HIDE DEF t
<1>2. t \in Seq(S) /\ Len(t) = 2 /\ t[1] = a /\ t[2] = b
  BY <1>1 DEF t
<1>3. /\ s \o t \in Seq(S) /\ Len(s \o t) = Len(s) + 2
      /\ \A i \in 1..Len(s) : (s \o t)[i] = s[i]
      /\ (s \o t)[Len(s) + 1] = a /\ (s \o t)[Len(s) + 2] = b
  <2>1. Len(s) \in Nat
    OBVIOUS
  <2>2. /\ s \o t \in Seq(S) /\ Len(s \o t) = Len(s) + Len(t)
        /\ \A i \in 1..(Len(s) + Len(t)) :
              (s \o t)[i] = IF i <= Len(s) THEN s[i] ELSE t[i - Len(s)]
    BY <1>2, ConcatProperties
  <2>3. /\ \A i \in 1..Len(s) : i \in 1..(Len(s) + 2) /\ i <= Len(s)
        /\ Len(s) + 1 \in 1..(Len(s) + 2) /\ ~ (Len(s) + 1 <= Len(s)) /\ Len(s) + 1 - Len(s) = 1
        /\ Len(s) + 2 \in 1..(Len(s) + 2) /\ ~ (Len(s) + 2 <= Len(s)) /\ Len(s) + 2 - Len(s) = 2
    BY <2>1
  <2> QED BY <1>2, <2>2, <2>3
<1> QED BY <1>3 DEF t

\* A new venue comes with its master group and its front desk.
LEMMA VenueAppended ==
    ASSUME GroupsInv, venues' = Append(venues, 0), UNCHANGED courts,
           groups' = groups \o SeedVenueGroups(Len(venues) + 1)
    PROVE  /\ GroupsInv' /\ DOMAIN groups \subseteq DOMAIN groups'
           /\ DOMAIN venues \subseteq DOMAIN venues'
           /\ \A g \in DOMAIN groups : groups'[g] = groups[g]
<1> DEFINE n == Len(groups)
           v == Len(venues) + 1
           master == Group("MASTER", v, "Venue master", MASTER_DEFAULT_CODES)
           desk == Group("STAFF", v, "Front desk", FRONT_DESK_CODES)
<1>1. groups \in Seq(GroupRecord) /\ DOMAIN groups = 1..n /\ n \in Nat /\ Len(venues) \in Nat
      /\ venues \in Seq(Nat) /\ v \in Nat \ {0}
  BY DEF GroupsInv
<1>2. venues' \in Seq(Nat) /\ Len(venues') = v /\ DOMAIN venues \subseteq DOMAIN venues'
  BY <1>1
<1>3. MASTER_DEFAULT_CODES \subseteq Granted /\ FRONT_DESK_CODES \subseteq Granted
  BY DEF MASTER_DEFAULT_CODES, FRONT_DESK_CODES, BookingOps, Granted, PERMISSIONS, OWNER_ONLY
<1>4. /\ master \in GroupRecord /\ desk \in GroupRecord
      /\ master.kind = "MASTER" /\ desk.kind = "STAFF" /\ master.venue = v /\ desk.venue = v
      /\ master.name = "Venue master" /\ desk.name = "Front desk"
  BY <1>1, <1>3 DEF GroupRecord, Group, GroupKind, AnyName
<1>5. groups' = groups \o <<master, desk>>
  BY DEF SeedVenueGroups
<1> HIDE DEF master, desk, n
<1>7. groups' \in Seq(GroupRecord) /\ Len(groups') = n + 2 /\ groups'[n + 1] = master
      /\ groups'[n + 2] = desk /\ \A g \in 1..n : groups'[g] = groups[g]
  <2>1. master \in GroupRecord /\ desk \in GroupRecord
    BY <1>4
  <2>2. groups \in Seq(GroupRecord)
    BY <1>1
  <2> HIDE DEF v
  <2> DEFINE t == groups \o <<master, desk>>
  <2>3. /\ t \in Seq(GroupRecord) /\ Len(t) = Len(groups) + 2
        /\ \A i \in 1..Len(groups) : t[i] = groups[i]
        /\ t[Len(groups) + 1] = master /\ t[Len(groups) + 2] = desk
    BY ONLY <2>1, <2>2, TwoMore
  <2>4. groups' = t
    BY <1>5
  <2> HIDE DEF t
  <2> QED BY <2>3, <2>4 DEF n
<1>8. DOMAIN groups' = 1..(n + 2) /\ DOMAIN groups' = DOMAIN groups \cup {n + 1, n + 2}
      /\ n + 1 \notin DOMAIN groups /\ n + 2 \notin DOMAIN groups
  <2>1. DOMAIN groups' = 1..(n + 2)
    BY <1>7
  <2> HIDE DEF v
  <2>2. 1..(n + 2) = 1..n \cup {n + 1, n + 2} /\ n + 1 \notin 1..n /\ n + 2 \notin 1..n
    <3>1. \A i \in 1..(n + 2) : i \in 1..n \/ i = n + 1 \/ i = n + 2
      BY <1>1
    <3>2. (\A i \in 1..n : i \in 1..(n + 2)) /\ n + 1 \in 1..(n + 2) /\ n + 2 \in 1..(n + 2)
      BY <1>1
    <3>3. n + 1 \notin 1..n /\ n + 2 \notin 1..n
      BY <1>1
    <3> QED BY <3>1, <3>2, <3>3
  <2> QED BY <1>1, <2>1, <2>2
<1> HIDE DEF v
<1>v. v = Len(venues) + 1
  BY DEF v
<1>9. \A g \in DOMAIN groups : GroupFits(g) /\ groups'[g] = groups[g] /\ groups[g].venue # v
  BY <1>1, <1>v, <1>7 DEF GroupsInv, GroupFits
<1>10. ASSUME NEW g \in DOMAIN groups PROVE GroupFits(g)'
  <2>1. GroupFits(g) /\ groups'[g] = groups[g] /\ groups[g].venue # v
    BY <1>9
  <2>2. ASSUME Here(g)' PROVE NameFree(groups[g].venue, groups[g].name, g)'
    <3>1. Here(g) /\ NameFree(groups[g].venue, groups[g].name, g)
      BY <2>1, <2>2 DEF Here, GroupFits
    <3>2. ASSUME NEW h \in DOMAIN groups', Here(h)', h # g
          PROVE  groups'[h].venue # groups'[g].venue \/ groups'[h].name # groups'[g].name
      <4>1. CASE h \in DOMAIN groups
        <5>1. Here(h) /\ groups'[h] = groups[h]
          BY <1>9, <3>2, <4>1 DEF Here
        <5> QED BY <2>1, <3>1, <3>2, <4>1, <5>1 DEF NameFree
      <4>2. CASE h \in {n + 1, n + 2}
        BY <1>4, <1>7, <2>1, <4>2
      <4> QED BY <1>8, <4>1, <4>2
    <3> QED BY <2>1, <3>2 DEF NameFree
  <2>3. groups[g].venue \in 0..Len(venues')
    BY <1>1, <1>2, <1>v, <2>1 DEF GroupFits
  <2> QED BY <2>1, <2>2, <2>3 DEF GroupFits
<1>11. ASSUME NEW g \in {n + 1, n + 2} PROVE GroupFits(g)'
  <2>a. groups'[g] = master \/ groups'[g] = desk
    BY <1>7
  <2>b. groups'[g].venue = v /\ groups'[g].kind # "CUSTOMER"
    BY <1>4, <2>a
  <2>1. groups'[g].venue = v /\ v \in 0..Len(venues') /\ v # NoVenue /\ groups'[g].kind # "CUSTOMER"
    <3>1. Len(venues') = v /\ v \in Nat \ {0}
      BY <1>1, <1>2
    <3>2. v \in 0..v /\ v # 0
      BY <3>1
    <3> QED BY <2>b, <3>1, <3>2 DEF NoVenue
  <2>2. NameFree(groups[g].venue, groups[g].name, g)'
    <3>1. ASSUME NEW h \in DOMAIN groups', h # g
          PROVE  groups'[h].venue # v \/ groups'[h].name # groups'[g].name
      <4>1. CASE h \in DOMAIN groups
        BY <1>9, <4>1
      <4>2. CASE h \in {n + 1, n + 2}
        BY <1>4, <1>7, <3>1, <4>2
      <4> QED BY <1>8, <4>1, <4>2
    <3> QED BY <2>1, <3>1 DEF NameFree
  <2> QED BY <2>1, <2>2 DEF GroupFits
<1>12. ASSUME NEW w \in 0..Len(venues') PROVE \E g \in DOMAIN groups' : Leading(w)' = {g}
  <2>1. CASE w = v
    <3>1. \A g \in DOMAIN groups' :
            groups'[g].venue = v /\ groups'[g].kind # "STAFF" <=> g = n + 1
      <4> TAKE g \in DOMAIN groups'
      <4>0. n + 2 # n + 1
        BY <1>1
      <4>1. CASE g \in DOMAIN groups
        BY <1>8, <1>9, <4>1
      <4>2. CASE g = n + 1
        BY <1>4, <1>7, <4>2
      <4>3. CASE g = n + 2
        BY <1>4, <1>7, <4>3, <4>0
      <4> QED BY <1>8, <4>1, <4>2, <4>3
    <3>2. Leading(w)' = {n + 1}
      BY <1>8, <2>1, <3>1 DEF Leading
    <3> QED BY <1>8, <3>2
  <2>2. CASE w # v
    <3>1. w \in 0..Len(venues)
      BY <1>1, <1>2, <1>v, <2>2
    <3>2. PICK g \in DOMAIN groups : Leading(w) = {g}
      BY <3>1 DEF GroupsInv
    <3>3. Leading(w)' = Leading(w)
      BY <1>4, <1>7, <1>8, <1>9, <2>2 DEF Leading
    <3> QED BY <1>8, <3>2, <3>3
  <2> QED BY <2>1, <2>2
<1>13. courts' \in Seq(CourtRecord)
  BY DEF GroupsInv
<1>14. \A g \in DOMAIN groups' : GroupFits(g)'
  BY <1>8, <1>10, <1>11
<1>15. GroupsInv'
  BY <1>2, <1>7, <1>12, <1>13, <1>14 DEF GroupsInv
<1> QED BY <1>2, <1>8, <1>9, <1>15

\* What the constraints let through, operation by operation.
LEMMA WritableSays ==
    ASSUME NEW f, Writable(f)
    PROVE  /\ f.op = "set_permissions" => Here(f.group) /\ f.stage = "commit"
           /\ f.op = "add_member" => Here(f.group)
           /\ f.op = "invite" => Here(f.group) /\ ~ person[f.user].known
           /\ f.op = "remove_member" => <<f.group, f.user>> \in members
           /\ f.op = "rename_group" =>
                 Here(f.group) /\ NameFree(groups[f.group].venue, f.name, f.group)
           /\ f.op = "create_group" => NameFree(f.venue, f.name, NoGroup)
           /\ f.op = "delete_group" => Here(f.group)
BY DEF Writable

\* A write keeps the groups as they must be, and what lasts.
LEMMA CommitGroups ==
    ASSUME GroupsInv, NEW f, Names(f, groups, venues, courts, person), Writable(f), Writes(f)
    PROVE  /\ GroupsInv' /\ DOMAIN groups \subseteq DOMAIN groups'
           /\ DOMAIN venues \subseteq DOMAIN venues' /\ DOMAIN courts \subseteq DOMAIN courts'
           /\ \A c \in DOMAIN courts : courts'[c].venue = courts[c].venue
           /\ \A g \in DOMAIN groups :
                 /\ groups'[g].kind = groups[g].kind /\ groups'[g].venue = groups[g].venue
                 /\ groups'[g] # groups[g] =>
                       f.op \in {"set_permissions", "rename_group", "delete_group"} /\ g = f.group
                 /\ Here(g) => Here(g)' \/ (f.op = "delete_group" /\ g = f.group)
<1>1. /\ groups \in Seq(GroupRecord) /\ venues \in Seq(Nat) /\ courts \in Seq(CourtRecord)
      /\ \A g \in DOMAIN groups : groups[g] \in GroupRecord /\ GroupFits(g)
  BY DEF GroupsInv
<1>p. venues' \in Seq(Nat) /\ courts' \in Seq(CourtRecord)
      /\ DOMAIN venues \subseteq DOMAIN venues' /\ DOMAIN courts \subseteq DOMAIN courts'
      /\ \A c \in DOMAIN courts : courts'[c].venue = courts[c].venue
  <2>1. CASE f.op = "create_court"
    <3>1. courts' = Append(courts, [venue |-> f.venue, edits |-> 0]) /\ venues' = venues
      BY <2>1, PlacesWritten
    <3>2. f.venue \in DOMAIN venues
      BY <2>1 DEF Names
    <3>3. [venue |-> f.venue, edits |-> 0] \in CourtRecord
      BY <1>1, <3>2 DEF CourtRecord
    <3> QED BY <1>1, <3>1, <3>3
  <2>2. CASE f.op = "update_court"
    <3>1. courts' = [courts EXCEPT ![f.court].edits = @ + 1] /\ venues' = venues
      BY <2>2, PlacesWritten
    <3>2. f.court \in DOMAIN courts
      BY <2>2 DEF Names
    <3> DEFINE old == courts[f.court]
               rec == [old EXCEPT !.edits = @ + 1]
    <3>a. old \in CourtRecord
      BY <1>1, <3>2
    <3>b. rec \in CourtRecord /\ rec.venue = old.venue
      BY <3>a DEF CourtRecord
    <3>c. courts' = [courts EXCEPT ![f.court] = rec]
      BY <3>1
    <3> HIDE DEF rec
    <3>3. courts' \in Seq(CourtRecord) /\ DOMAIN courts' = DOMAIN courts
          /\ \A c \in DOMAIN courts : courts'[c].venue = courts[c].venue
      BY <1>1, <3>2, <3>b, <3>c
    <3> QED BY <1>1, <3>1, <3>3
  <2>3. CASE f.op = "create_venue"
    <3>1. venues' = Append(venues, 0) /\ courts' = courts
      BY <2>3, PlacesWritten
    <3> QED BY <1>1, <3>1
  <2>4. CASE f.op = "update_venue"
    <3>1. venues' = [venues EXCEPT ![f.venue] = @ + 1] /\ courts' = courts
      BY <2>4, PlacesWritten
    <3>2. f.venue \in DOMAIN venues
      BY <2>4 DEF Names
    <3> QED BY <1>1, <3>1, <3>2
  <2>5. CASE f.op \notin {"create_court", "update_court", "create_venue", "update_venue"}
    <3>1. venues' = venues /\ courts' = courts
      BY <2>5, PlacesWritten
    <3> QED BY <1>1, <3>1
  <2> QED BY <2>1, <2>2, <2>3, <2>4, <2>5
<1>n. ASSUME f.op \in {"create_group", "rename_group"} PROVE f.name \in AnyName
  BY <1>n DEF Names, AnyName
<1> DEFINE Fine ==
        /\ GroupsInv' /\ DOMAIN groups \subseteq DOMAIN groups'
        /\ \A g \in DOMAIN groups :
              /\ groups'[g].kind = groups[g].kind /\ groups'[g].venue = groups[g].venue
              /\ groups'[g] # groups[g] =>
                    f.op \in {"set_permissions", "rename_group", "delete_group"} /\ g = f.group
              /\ Here(g) => Here(g)' \/ (f.op = "delete_group" /\ g = f.group)
<1>2. CASE f.op \in {"set_permissions", "rename_group", "delete_group"}
  <2>1. f.group \in DOMAIN groups /\ groups[f.group] \in GroupRecord /\ GroupFits(f.group)
    BY <1>1, <1>2 DEF Names, OfGroup
  <2>2. UNCHANGED <<venues, courts>>
    BY <1>2, PlacesWritten
  <2> DEFINE old == groups[f.group]
             rec == CASE f.op = "set_permissions" -> [old EXCEPT !.codes = CodesAfter(f)]
                      [] f.op = "rename_group" -> [old EXCEPT !.name = f.name]
                      [] OTHER -> [old EXCEPT !.here = FALSE, !.codes = {}]
  <2>3. groups' = [groups EXCEPT ![f.group] = rec]
    <3>1. CASE f.op = "set_permissions"
      <4>1. groups' = [groups EXCEPT ![f.group].codes = CodesAfter(f)]
        BY <3>1, GroupsWritten
      <4>2. rec = [old EXCEPT !.codes = CodesAfter(f)]
        BY <3>1
      <4> QED BY <4>1, <4>2
    <3>2. CASE f.op = "rename_group"
      <4>1. groups' = [groups EXCEPT ![f.group].name = f.name]
        BY <3>2, GroupsWritten
      <4>2. rec = [old EXCEPT !.name = f.name]
        BY <3>2
      <4> QED BY <4>1, <4>2
    <3>3. CASE f.op = "delete_group"
      <4>1. groups' = [groups EXCEPT ![f.group].here = FALSE, ![f.group].codes = {}]
        BY <3>3, GroupsWritten
      <4>2. rec = [old EXCEPT !.here = FALSE, !.codes = {}]
        BY <3>3
      <4> QED BY <1>1, <2>1, <4>1, <4>2
    <3> QED BY <1>2, <3>1, <3>2, <3>3
  <2>4. /\ rec \in GroupRecord /\ rec.kind = old.kind /\ rec.venue = old.venue
        /\ rec.kind = "CUSTOMER" => rec.codes = {}
        /\ rec.here => old.here /\ NameFree(rec.venue, rec.name, f.group)
        /\ old.here => rec.here \/ f.op = "delete_group"
    <3>1. CASE f.op = "set_permissions"
      <4>1. f \in SavedCodes /\ (old.kind = "CUSTOMER" => f.codes = {})
        BY <3>1 DEF Names
      <4>2. CodesAfter(f) \subseteq Granted /\ (old.kind = "CUSTOMER" => CodesAfter(f) = {})
        BY <2>1, <4>1 DEF SavedCodes, CodesAfter, GroupRecord, GroupFits
      <4>3. rec = [old EXCEPT !.codes = CodesAfter(f)]
        BY <3>1
      <4>4. old.here => NameFree(old.venue, old.name, f.group)
        BY <2>1 DEF GroupFits, Here
      <4> HIDE DEF rec, old
      <4>5. old \in GroupRecord
        BY <2>1 DEF old
      <4> QED BY <4>2, <4>3, <4>4, <4>5 DEF GroupRecord
    <3>2. CASE f.op = "rename_group"
      <4>1. NameFree(old.venue, f.name, f.group)
        BY <3>2, WritableSays
      <4>2. f.name \in AnyName
        BY <1>n, <3>2
      <4>3. rec = [old EXCEPT !.name = f.name]
        BY <3>2
      <4>4. old.kind = "CUSTOMER" => old.codes = {}
        BY <2>1 DEF GroupFits
      <4> HIDE DEF rec, old
      <4>5. old \in GroupRecord
        BY <2>1 DEF old
      <4> QED BY <4>1, <4>2, <4>3, <4>4, <4>5 DEF GroupRecord
    <3>3. CASE f.op = "delete_group"
      <4>3. rec = [old EXCEPT !.here = FALSE, !.codes = {}]
        BY <3>3
      <4> HIDE DEF rec, old
      <4>5. old \in GroupRecord
        BY <2>1 DEF old
      <4> QED BY <3>3, <4>3, <4>5 DEF GroupRecord
    <3> QED BY <1>2, <3>1, <3>2, <3>3
  <2> HIDE DEF rec
  <2>5. GroupsInv' /\ DOMAIN groups' = DOMAIN groups
        /\ \A g \in DOMAIN groups :
              groups'[g].kind = groups[g].kind /\ groups'[g].venue = groups[g].venue
    BY <2>1, <2>2, <2>3, <2>4, OneGroupChanges
  <2>6. groups'[f.group] = rec /\ \A g \in DOMAIN groups : g # f.group => groups'[g] = groups[g]
    BY <2>1, <2>3
  <2>7. \A g \in DOMAIN groups : Here(g) => Here(g)' \/ (f.op = "delete_group" /\ g = f.group)
    BY <2>4, <2>5, <2>6 DEF Here
  <2>8. Fine
    BY <1>2, <2>5, <2>6, <2>7
  <2> QED BY <1>p, <2>8
<1>3. CASE f.op = "create_group"
  <2>1. groups' = Append(groups, Group("STAFF", f.venue, f.name, {})) /\ UNCHANGED <<venues, courts>>
    BY <1>3, GroupsWritten, PlacesWritten
  <2>2. f.venue \in 1..Len(venues) /\ f.name \in AnyName /\ NameFree(f.venue, f.name, NoGroup)
    <3>1. f.venue \in DOMAIN venues
      BY <1>3 DEF Names
    <3>2. NameFree(f.venue, f.name, NoGroup)
      BY <1>3, WritableSays
    <3> QED BY <1>1, <1>3, <1>n, <3>1, <3>2
  <2>3. GroupsInv' /\ DOMAIN groups \subseteq DOMAIN groups'
        /\ \A g \in DOMAIN groups : groups'[g] = groups[g]
    BY <2>1, <2>2, GroupAppended
  <2>4. Fine
    BY <2>3 DEF Here
  <2> QED BY <1>p, <2>4
<1>4. CASE f.op = "create_venue"
  <2>1. /\ groups' = groups \o SeedVenueGroups(Len(venues) + 1)
        /\ venues' = Append(venues, 0) /\ UNCHANGED courts
    BY <1>4, GroupsWritten, PlacesWritten
  <2>3. GroupsInv' /\ DOMAIN groups \subseteq DOMAIN groups'
        /\ \A g \in DOMAIN groups : groups'[g] = groups[g]
    BY <2>1, VenueAppended
  <2>4. Fine
    BY <2>3 DEF Here
  <2> QED BY <1>p, <2>4
<1>5. CASE f.op \notin {"set_permissions", "rename_group", "create_group", "delete_group",
                        "create_venue"}
  <2>1. UNCHANGED groups
    BY <1>5, GroupsWritten
  <2>2. Len(venues') = Len(venues)
    <3>1. CASE f.op = "update_venue"
      <4>1. venues' = [venues EXCEPT ![f.venue] = @ + 1]
        BY <3>1, PlacesWritten
      <4> QED BY <1>1, <4>1
    <3>2. CASE f.op # "update_venue"
      BY <1>5, <3>2, PlacesWritten
    <3> QED BY <3>1, <3>2
  <2>3. GroupsInv'
    BY <1>p, <2>1, <2>2, NoGroupChanges
  <2>4. Fine
    BY <2>1, <2>3 DEF Here
  <2> QED BY <1>p, <2>4
<1> QED BY <1>2, <1>3, <1>4, <1>5

\* A write keeps memberships and accounts as they must be.
LEMMA CommitPeople ==
    ASSUME GroupsInv, PeopleInv, NEW f, Names(f, groups, venues, courts, person), Writable(f),
           Writes(f), UNCHANGED legacy
    PROVE  PeopleInv' /\ \A u \in User : person[u].known => person'[u].known
<1>1. DOMAIN groups \subseteq DOMAIN groups'
      /\ \A g \in DOMAIN groups : Here(g) => Here(g)' \/ (f.op = "delete_group" /\ g = f.group)
  BY CommitGroups
<1>2. /\ person' \in [User -> [known : BOOLEAN, active : BOOLEAN, pending : BOOLEAN]]
      /\ \A u \in User : person[u].known => person'[u].known
      /\ \A u \in User : person'[u].active \/ person'[u].pending => person'[u].known
  <2>0. person \in [User -> [known : BOOLEAN, active : BOOLEAN, pending : BOOLEAN]]
        /\ \A u \in User : person[u].active \/ person[u].pending => person[u].known
    BY DEF PeopleInv
  <2>1. CASE f.op = "update_user"
    <3>1. person' = [person EXCEPT ![f.user].active = f.active]
      BY <2>1, PersonWritten
    <3>2. f.user \in User /\ f.active \in BOOLEAN /\ person[f.user].known
      BY <2>1 DEF Names, OfUser
    <3>3. person'[f.user] = [person[f.user] EXCEPT !.active = f.active]
          /\ \A u \in User : u # f.user => person'[u] = person[u]
      BY <2>0, <3>1, <3>2
    <3>4. person'[f.user].known
      BY <2>0, <3>2, <3>3
    <3> QED BY <2>0, <3>1, <3>2, <3>3, <3>4
  <2>2. CASE f.op = "invite"
    <3>1. person' = [person EXCEPT ![f.user] = [known |-> TRUE, active |-> FALSE, pending |-> TRUE]]
      BY <2>2, PersonWritten
    <3>2. f.user \in User
      BY <2>2 DEF Names, OfUser
    <3> QED BY <2>0, <3>1, <3>2
  <2>3. CASE f.op \notin {"update_user", "invite"}
    <3>1. person' = person
      BY <2>3, PersonWritten
    <3> QED BY <2>0, <3>1
  <2> QED BY <2>1, <2>2, <2>3
<1>3. ASSUME NEW m \in members'
      PROVE  m \in (DOMAIN groups') \X User /\ Here(m[1])' /\ person'[m[2]].known
  <2>1. ASSUME m \in members, f.op = "delete_group" => m[1] # f.group
        PROVE  m \in (DOMAIN groups') \X User /\ Here(m[1])' /\ person'[m[2]].known
    BY <1>1, <1>2, <2>1 DEF PeopleInv
  <2>2. CASE f.op \in {"add_member", "invite"}
    <3>1. members' = members \cup {<<f.group, f.user>>}
      BY <2>2, MembersWritten
    <3>2. f.group \in DOMAIN groups /\ f.user \in User /\ Here(f.group)
      BY <2>2, WritableSays DEF Names, OfGroup, OfUser
    <3>3. person'[f.user].known
      <4>1. CASE f.op = "add_member"
        BY <1>2, <3>2, <4>1 DEF Names
      <4>2. CASE f.op = "invite"
        <5>1. person' = [person EXCEPT ![f.user] = [known |-> TRUE, active |-> FALSE, pending |-> TRUE]]
          BY <4>2, PersonWritten
        <5> QED BY <3>2, <5>1 DEF PeopleInv
      <4> QED BY <2>2, <4>1, <4>2
    <3>4. Here(f.group)'
      BY <1>1, <2>2, <3>2
    <3> QED BY <1>1, <2>1, <2>2, <3>1, <3>2, <3>3, <3>4
  <2>3. CASE f.op = "remove_member"
    BY <2>1, <2>3, MembersWritten
  <2>4. CASE f.op = "delete_group"
    BY <2>1, <2>4, MembersWritten
  <2>5. CASE f.op \notin {"add_member", "invite", "remove_member", "delete_group"}
    BY <2>1, <2>5, MembersWritten
  <2> QED BY <2>2, <2>3, <2>4, <2>5
<1>4. legacy' \in Legacies
  BY DEF PeopleInv
<1> QED BY <1>2, <1>3, <1>4 DEF PeopleInv

-----------------------------------------------------------------------------
(* What begins.                                                             *)

\* A group is typed, and fits.
LEMMA GroupTyped ==
    ASSUME GroupsInv, NEW g \in DOMAIN groups
    PROVE  groups[g] \in GroupRecord /\ GroupFits(g) /\ g \in Nat
<1>1. groups \in Seq(GroupRecord) /\ GroupFits(g)
  BY DEF GroupsInv
<1> QED BY <1>1

\* Nobody but the owner holds an owner-only code, or acts without a venue.
LEMMA StaffHold ==
    ASSUME GroupsInv, NEW u, NEW v, NEW g
    PROVE  StaffCodes(u, v, g) \subseteq Granted
<1>1. \A h \in DOMAIN groups : groups[h].codes \subseteq Granted
  BY GroupTyped DEF GroupRecord
<1> QED BY <1>1 DEF StaffCodes

\* StaffCodes and SelfLockout, over the groups and memberships there are.
LEMMA StaffCodesIn ==
    /\ \A u, v, g : StaffCodes(u, v, g) = CodesIn(groups, members, u, v, g)
    /\ \A u, v, g : ~ SelfLockout(u, v, g) => OtherWayIn(groups, members, u, v, g)
BY DEF StaffCodes, CodesIn, SelfLockout, OtherWayIn

\* Whoever is not the owner acts at one venue, with a code that can be granted.
LEMMA StaffActAtVenue ==
    ASSUME GroupsInv, NEW u \in User, NEW at \in Nat, NEW code, Guarded(u, at, code), u # Owner
    PROVE  at # AllVenues /\ code \in StaffCodes(u, at, NoGroup) /\ code \in Granted
<1>1. at \in StaffVenues(u) /\ code \in StaffCodes(u, at, NoGroup)
  BY DEF Guarded, Scopes, Permissions
<1>2. PICK h \in DOMAIN groups : groups[h].kind # "CUSTOMER" /\ groups[h].venue = at
  BY <1>1 DEF StaffVenues
<1>3. GroupFits(h)
  BY DEF GroupsInv
<1>4. at # AllVenues
  BY <1>2, <1>3 DEF GroupFits, NoVenue, AllVenues
<1> QED BY <1>1, <1>4, StaffHold

\* What a request that begins is about, and decided from.
Asks(f) ==
    /\ Names(f, groups, venues, courts, person)
    /\ f.caller # Owner => Walled(f, groups, courts)
    /\ Decided(f, groups, members)

Asking(r) == \E f : Asks(f) /\ Begin(r, f)

\* A group in one venue's scope that is no master group is a staff group there.
LEMMA StaffGroup ==
    ASSUME GroupsInv, NEW at \in Nat, at # AllVenues, NEW g \in DOMAIN groups,
           Visible(at, g), groups[g].kind # "MASTER"
    PROVE  groups[g].kind = "STAFF" /\ groups[g].venue = at
<1>1. groups[g].venue = at /\ groups[g].kind \in GroupKind /\ GroupFits(g)
  BY GroupTyped DEF Visible, Covers, GroupRecord
<1> QED BY <1>1 DEF GroupKind, GroupFits, NoVenue, AllVenues

\* Each operation begins with a request about what exists, behind the wall, on facts
\* that hold.
LEMMA AskCreateGroup ==
    ASSUME GroupsInv, NEW r, NEW u \in User, NEW at \in Nat, u # Owner => at # AllVenues,
           NEW v \in DOMAIN venues, NEW name \in Name, CreateGroup(r, u, at, v, name)
    PROVE  Asking(r)
<1> DEFINE f == [op |-> "create_group", caller |-> u, at |-> at, venue |-> v, name |-> name]
<1>1. Begin(r, f) /\ Covers(at, v)
  BY DEF CreateGroup
<1>2. Names(f, groups, venues, courts, person)
  BY DEF Names, OfGroup, OfUser
<1>3. u # Owner => Walled(f, groups, courts)
  BY <1>1 DEF Walled, OfGroup, Covers
<1>4. Decided(f, groups, members)
  BY DEF Decided
<1>5. Asks(f)
  BY <1>2, <1>3, <1>4 DEF Asks
<1> HIDE DEF f
<1> QED BY <1>1, <1>5 DEF Asking

LEMMA AskRenameGroup ==
    ASSUME GroupsInv, NEW r, NEW u \in User, NEW at \in Nat, u # Owner => at # AllVenues,
           NEW g \in DOMAIN groups, NEW name \in Name, RenameGroup(r, u, at, g, name)
    PROVE  Asking(r)
<1> DEFINE f == [op |-> "rename_group", caller |-> u, at |-> at, group |-> g, name |-> name]
<1>1. Begin(r, f) /\ Editable(u, at, g)
  BY DEF RenameGroup
<1>2. Names(f, groups, venues, courts, person)
  BY DEF Names, OfGroup, OfUser
<1>3. u # Owner => groups[g].kind = "STAFF" /\ groups[g].venue = at
  BY <1>1, StaffGroup DEF Editable
<1>4. u # Owner => Walled(f, groups, courts)
  BY <1>3 DEF Walled, OfGroup
<1>5. Decided(f, groups, members)
  BY DEF Decided
<1>6. Asks(f)
  BY <1>2, <1>4, <1>5 DEF Asks
<1> HIDE DEF f
<1> QED BY <1>1, <1>6 DEF Asking

LEMMA AskDeleteGroup ==
    ASSUME GroupsInv, PeopleInv, NEW r, NEW u \in User, NEW at \in Nat, u # Owner => at # AllVenues,
           NEW g \in DOMAIN groups, DeleteGroup(r, u, at, g)
    PROVE  Asking(r)
<1> DEFINE f == [op |-> "delete_group", caller |-> u, at |-> at, group |-> g]
<1>1. Begin(r, f) /\ Editable(u, at, g) /\ \A w \in User : <<g, w>> \notin members
  BY DEF DeleteGroup, Deletable
<1>2. Names(f, groups, venues, courts, person)
  BY DEF Names, OfGroup, OfUser
<1>3. u # Owner => groups[g].kind = "STAFF" /\ groups[g].venue = at
  BY <1>1, StaffGroup DEF Editable
<1>4. u # Owner => Walled(f, groups, courts)
  BY <1>3 DEF Walled, OfGroup
<1>5. Decided(f, groups, members)
  <2>1. \A m \in members : m = <<m[1], m[2]>> /\ m[2] \in User
    BY DEF PeopleInv
  <2>2. \A m \in members : m[1] # g
    BY <1>1, <2>1
  <2> QED BY <2>2 DEF Decided
<1>6. Asks(f)
  BY <1>2, <1>4, <1>5 DEF Asks
<1> HIDE DEF f
<1> QED BY <1>1, <1>6 DEF Asking

LEMMA AskSetPermissions ==
    ASSUME GroupsInv, NEW r, NEW u \in User, NEW at \in Nat, u # Owner => at # AllVenues,
           NEW g \in DOMAIN groups, NEW requested \in Requested,
           SetPermissions(r, u, at, g, requested)
    PROVE  Asking(r)
<1> DEFINE final == FinalCodes(u, at, g, requested)
           held == StaffCodes(u, at, NoGroup)
           f == [op |-> "set_permissions", caller |-> u, at |-> at, group |-> g,
                 codes |-> final, swept |-> {}, stage |-> "sweep"]
<1>1. Begin(r, f) /\ Editable(u, at, g) /\ Grantable(u, at, g, requested)
      /\ (u # Owner /\ "USER:Manage" \in groups[g].codes \ final => ~ SelfLockout(u, at, g))
  BY DEF SetPermissions
<1>2. requested \subseteq PERMISSIONS /\ requested \cap OWNER_ONLY = {}
      /\ (groups[g].kind = "CUSTOMER" => requested = {})
  BY <1>1, OrganisationAssumption DEF Grantable
<1>3. groups[g].codes \subseteq Granted /\ held \subseteq Granted /\ g \in Nat
  BY StaffHold, GroupTyped DEF GroupRecord
<1>4. u # Owner => final = (requested \cap held) \cup (groups[g].codes \ held)
  BY DEF FinalCodes, Permissions
<1>5. u = Owner => final = requested
  BY DEF FinalCodes
<1>6. u # Owner => groups[g].kind = "STAFF" /\ groups[g].venue = at
  BY <1>1, StaffGroup DEF Editable
<1> HIDE DEF final, held
<1>7. final \subseteq Granted /\ (groups[g].kind = "CUSTOMER" => final = {})
  BY <1>2, <1>3, <1>4, <1>5, <1>6 DEF Granted
<1>8. f \in SavedCodes
  BY <1>3, <1>7 DEF SavedCodes
<1>9. Names(f, groups, venues, courts, person)
  BY <1>7, <1>8 DEF Names, OfGroup, OfUser
<1>10. u # Owner => Walled(f, groups, courts)
  BY <1>6 DEF Walled, OfGroup
<1>11. u # Owner => final \ held = groups[g].codes \ held
  BY <1>4
<1>12. Decided(f, groups, members)
  <2>1. held = CodesIn(groups, members, u, at, NoGroup)
    BY StaffCodesIn DEF held
  <2>2. u # Owner /\ "USER:Manage" \in groups[g].codes \ final => OtherWayIn(groups, members, u, at, g)
    BY <1>1, StaffCodesIn
  <2> QED BY <1>11, <2>1, <2>2 DEF Decided
<1>13. Asks(f)
  BY <1>9, <1>10, <1>12 DEF Asks
<1> HIDE DEF f
<1> QED BY <1>1, <1>13 DEF Asking

LEMMA AskAddMember ==
    ASSUME GroupsInv, NEW r, NEW u \in User, NEW at \in Nat, u # Owner => at # AllVenues,
           NEW g \in DOMAIN groups, NEW w \in User, AddMember(r, u, at, g, w)
    PROVE  Asking(r)
<1> DEFINE f == [op |-> "add_member", caller |-> u, at |-> at, group |-> g, user |-> w]
<1>1. Begin(r, f) /\ Fillable(u, at, g) /\ person[w].known
  BY DEF AddMember
<1>2. Names(f, groups, venues, courts, person)
  BY <1>1 DEF Names, OfGroup, OfUser
<1>3. u # Owner => groups[g].kind = "STAFF" /\ groups[g].venue = at
  BY <1>1, StaffGroup DEF Fillable
<1>4. u # Owner => Walled(f, groups, courts)
  BY <1>3 DEF Walled, OfGroup
<1>5. Decided(f, groups, members)
  BY DEF Decided
<1>6. Asks(f)
  BY <1>2, <1>4, <1>5 DEF Asks
<1> HIDE DEF f
<1> QED BY <1>1, <1>6 DEF Asking

LEMMA AskRemoveMember ==
    ASSUME GroupsInv, NEW r, NEW u \in User, NEW at \in Nat, u # Owner => at # AllVenues,
           NEW g \in DOMAIN groups, NEW w \in User, RemoveMember(r, u, at, g, w)
    PROVE  Asking(r)
<1> DEFINE f == [op |-> "remove_member", caller |-> u, at |-> at, group |-> g, user |-> w]
<1>1. /\ Begin(r, f) /\ Fillable(u, at, g)
      /\ u # Owner /\ w = u /\ "USER:Manage" \in groups[g].codes => ~ SelfLockout(u, at, g)
  BY DEF RemoveMember
<1>2. Names(f, groups, venues, courts, person)
  BY <1>1 DEF Names, OfGroup, OfUser
<1>3. u # Owner => groups[g].kind = "STAFF" /\ groups[g].venue = at
  BY <1>1, StaffGroup DEF Fillable
<1>4. u # Owner => Walled(f, groups, courts)
  BY <1>3 DEF Walled, OfGroup
<1>5. Decided(f, groups, members)
  <2>1. u # Owner /\ w = u /\ "USER:Manage" \in groups[g].codes => OtherWayIn(groups, members, u, at, g)
    BY <1>1, StaffCodesIn
  <2> QED BY <2>1 DEF Decided
<1>6. Asks(f)
  BY <1>2, <1>4, <1>5 DEF Asks
<1> HIDE DEF f
<1> QED BY <1>1, <1>6 DEF Asking

LEMMA AskInvite ==
    ASSUME GroupsInv, NEW r, NEW u \in User, NEW at \in Nat, u # Owner => at # AllVenues,
           NEW g \in DOMAIN groups, NEW w \in User, Invite(r, u, at, g, w)
    PROVE  Asking(r)
<1> DEFINE f == [op |-> "invite", caller |-> u, at |-> at, group |-> g, user |-> w]
<1>1. /\ Begin(r, f) /\ Visible(at, g)
      /\ u # Owner => groups[g].kind = "STAFF"
  BY DEF Invite
<1>2. Names(f, groups, venues, courts, person)
  BY <1>1 DEF Names, OfGroup, OfUser
<1>3. u # Owner => groups[g].kind = "STAFF" /\ groups[g].venue = at
  BY <1>1, StaffGroup
<1>4. u # Owner => Walled(f, groups, courts)
  BY <1>3 DEF Walled, OfGroup
<1>5. Decided(f, groups, members)
  BY DEF Decided
<1>6. Asks(f)
  BY <1>2, <1>4, <1>5 DEF Asks
<1> HIDE DEF f
<1> QED BY <1>1, <1>6 DEF Asking

LEMMA AskUpdateUser ==
    ASSUME GroupsInv, NEW r, NEW u \in User, NEW at \in Nat, u # Owner => at # AllVenues,
           NEW w \in User, NEW active \in BOOLEAN, UpdateUser(r, u, at, w, active)
    PROVE  Asking(r)
<1> DEFINE f == [op |-> "update_user", caller |-> u, at |-> at, user |-> w, active |-> active]
<1>1. /\ Begin(r, f) /\ person[w].known /\ w # u
      /\ u # Owner => ~ IsMasterAt(w, at) /\ ~ BelongsElsewhere(w, at)
  BY DEF UpdateUser, Modifiable
<1>2. Names(f, groups, venues, courts, person)
  BY <1>1 DEF Names, OfGroup, OfUser
<1>4. u # Owner => Walled(f, groups, courts)
  BY DEF Walled, OfGroup
<1>5. Decided(f, groups, members)
  <2>1. u # Owner => \A g \in DOMAIN groups :
                       <<g, w>> \in members => groups[g].kind # "MASTER" /\ groups[g].venue = at
    BY <1>1 DEF IsMasterAt, BelongsElsewhere
  <2> QED BY <1>1, <2>1 DEF Decided
<1>6. Asks(f)
  BY <1>2, <1>4, <1>5 DEF Asks
<1> HIDE DEF f
<1> QED BY <1>1, <1>6 DEF Asking

\* Venues are the owner's alone.
LEMMA AskVenue ==
    ASSUME GroupsInv, NEW r, NEW at \in Nat, ManageVenues(r, Owner, at)
    PROVE  Asking(r)
<1>0. Owner \in User
  BY OrganisationAssumption
<1>1. CASE CreateVenue(r, Owner, at)
  <2> DEFINE f == [op |-> "create_venue", caller |-> Owner, at |-> at]
  <2>1. Begin(r, f)
    BY <1>1 DEF CreateVenue
  <2>2. Asks(f)
    BY <1>0 DEF Asks, Names, OfGroup, OfUser, Decided
  <2> HIDE DEF f
  <2> QED BY <2>1, <2>2 DEF Asking
<1>2. ASSUME NEW v \in DOMAIN venues, UpdateVenue(r, Owner, at, v) PROVE Asking(r)
  <2> DEFINE f == [op |-> "update_venue", caller |-> Owner, at |-> at, venue |-> v]
  <2>1. Begin(r, f)
    BY <1>2 DEF UpdateVenue
  <2>2. Asks(f)
    BY <1>0 DEF Asks, Names, OfGroup, OfUser, Decided
  <2> HIDE DEF f
  <2> QED BY <2>1, <2>2 DEF Asking
<1> QED BY <1>1, <1>2 DEF ManageVenues

LEMMA AskCourt ==
    ASSUME GroupsInv, NEW r, NEW u \in User, NEW at \in Nat, u # Owner => at # AllVenues,
           ManageCourts(r, u, at)
    PROVE  Asking(r)
<1>1. ASSUME NEW v \in DOMAIN venues, CreateCourt(r, u, at, v) PROVE Asking(r)
  <2> DEFINE f == [op |-> "create_court", caller |-> u, at |-> at, venue |-> v]
  <2>1. Begin(r, f) /\ Covers(at, v)
    BY <1>1 DEF CreateCourt
  <2>2. Names(f, groups, venues, courts, person) /\ Decided(f, groups, members)
    BY DEF Names, OfGroup, OfUser, Decided
  <2>3. u # Owner => Walled(f, groups, courts)
    BY <2>1 DEF Walled, OfGroup, Covers
  <2>4. Asks(f)
    BY <2>2, <2>3 DEF Asks
  <2> HIDE DEF f
  <2> QED BY <2>1, <2>4 DEF Asking
<1>2. ASSUME NEW c \in DOMAIN courts, UpdateCourt(r, u, at, c) PROVE Asking(r)
  <2> DEFINE f == [op |-> "update_court", caller |-> u, at |-> at, court |-> c]
  <2>1. Begin(r, f) /\ Covers(at, courts[c].venue)
    BY <1>2 DEF UpdateCourt
  <2>2. Names(f, groups, venues, courts, person) /\ Decided(f, groups, members)
    BY DEF Names, OfGroup, OfUser, Decided
  <2>3. u # Owner => Walled(f, groups, courts)
    BY <2>1 DEF Walled, OfGroup, Covers
  <2>4. Asks(f)
    BY <2>2, <2>3 DEF Asks
  <2> HIDE DEF f
  <2> QED BY <2>1, <2>4 DEF Asking
<1> QED BY <1>1, <1>2 DEF ManageCourts

\* Whoever begins, within their permissions, asks for something of theirs.
LEMMA EveryRequestAsks ==
    ASSUME GroupsInv, PeopleInv, NEW r, NEW u \in User, NEW at \in 0..Len(venues),
           \/ Guarded(u, at, "USER:Manage") /\ ManageGroups(r, u, at)
           \/ Guarded(u, at, "VENUE:Manage") /\ ManageVenues(r, u, at)
           \/ Guarded(u, at, "COURT:Manage") /\ ManageCourts(r, u, at)
    PROVE  Asking(r)
<1>1. at \in Nat
  BY DEF GroupsInv
<1>2. \A code : Guarded(u, at, code) /\ u # Owner => at # AllVenues /\ code \in Granted
  BY <1>1, StaffActAtVenue
<1>3. CASE Guarded(u, at, "USER:Manage") /\ ManageGroups(r, u, at)
  <2>1. u # Owner => at # AllVenues
    BY <1>2, <1>3
  <2>2. ASSUME NEW v \in DOMAIN venues, NEW name \in Name, CreateGroup(r, u, at, v, name)
        PROVE  Asking(r)
    BY <1>1, <2>1, <2>2, AskCreateGroup
  <2>3. ASSUME NEW g \in DOMAIN groups, NEW name \in Name, RenameGroup(r, u, at, g, name)
        PROVE  Asking(r)
    BY <1>1, <2>1, <2>3, AskRenameGroup
  <2>4. ASSUME NEW g \in DOMAIN groups, DeleteGroup(r, u, at, g)
        PROVE  Asking(r)
    BY <1>1, <2>1, <2>4, AskDeleteGroup
  <2>5. ASSUME NEW g \in DOMAIN groups, NEW codes \in Requested, SetPermissions(r, u, at, g, codes)
        PROVE  Asking(r)
    BY <1>1, <2>1, <2>5, AskSetPermissions
  <2>6. ASSUME NEW g \in DOMAIN groups, NEW w \in User, AddMember(r, u, at, g, w)
        PROVE  Asking(r)
    BY <1>1, <2>1, <2>6, AskAddMember
  <2>7. ASSUME NEW g \in DOMAIN groups, NEW w \in User, RemoveMember(r, u, at, g, w)
        PROVE  Asking(r)
    BY <1>1, <2>1, <2>7, AskRemoveMember
  <2>8. ASSUME NEW g \in DOMAIN groups, NEW w \in User, Invite(r, u, at, g, w)
        PROVE  Asking(r)
    BY <1>1, <2>1, <2>8, AskInvite
  <2>9. ASSUME NEW w \in User, NEW active \in BOOLEAN, UpdateUser(r, u, at, w, active)
        PROVE  Asking(r)
    BY <1>1, <2>1, <2>9, AskUpdateUser
  <2> QED BY <1>3, <2>2, <2>3, <2>4, <2>5, <2>6, <2>7, <2>8, <2>9 DEF ManageGroups
<1>4. CASE Guarded(u, at, "VENUE:Manage") /\ ManageVenues(r, u, at)
  <2>1. "VENUE:Manage" \notin Granted
    BY DEF Granted, OWNER_ONLY
  <2>2. u = Owner
    BY <1>2, <1>4, <2>1
  <2> QED BY <1>1, <1>4, <2>2, AskVenue
<1>5. CASE Guarded(u, at, "COURT:Manage") /\ ManageCourts(r, u, at)
  BY <1>1, <1>2, <1>5, AskCourt
<1> QED BY <1>3, <1>4, <1>5

-----------------------------------------------------------------------------
(* Every step.                                                              *)

\* The steps there are.
LEMMA NextSteps ==
    ASSUME GroupsInv, PeopleInv, [Next]_vars
    PROVE  \/ UNCHANGED vars
           \/ \E r \in Request : ~ Flight(r) /\ Asking(r)
           \/ \E r \in Request : Sweep(r)
           \/ \E r \in Request : Commit(r)
           \/ \E r \in Request : Abort(r)
           \/ \E w \in User : Accept(w)
BY EveryRequestAsks DEF Next, Free

\* A commit writes what the request has in hand.
LEMMA CommitWrites ==
    ASSUME GroupsInv, PeopleInv, FlightInv, NEW r \in Request, Commit(r)
    PROVE  /\ Names(flight[r], groups, venues, courts, person)
           /\ Writable(flight[r]) /\ Writes(flight[r]) /\ UNCHANGED legacy
<1>1. flight[r] # Idle
  BY DEF Commit, Flight, Idle
<1>2. Names(flight[r], groups, venues, courts, person)
  BY <1>1 DEF FlightInv
<1> QED BY <1>2 DEF Commit, Writes

\* A step that writes nothing keeps everything.
LEMMA Unchanged ==
    ASSUME GroupsInv, PeopleInv, UNCHANGED <<legacy, organisation>>
    PROVE  GroupsInv' /\ PeopleInv' /\ Grows
<1>1. UNCHANGED <<legacy, venues, courts, groups, members, person>>
  BY DEF organisation
<1>2. GroupsInv'
  BY <1>1, NoGroupChanges DEF GroupsInv
<1>3. PeopleInv'
  BY <1>1 DEF PeopleInv, Here
<1> QED BY <1>1, <1>2, <1>3 DEF Grows

\* Every step keeps groups and people as they must be, and what lasts.
LEMMA OrganisationNext ==
    ASSUME GroupsInv, PeopleInv, FlightInv, [Next]_vars
    PROVE  GroupsInv' /\ PeopleInv' /\ Grows
<1>1. CASE UNCHANGED <<legacy, organisation>>
  BY <1>1, Unchanged
<1>2. ASSUME NEW r \in Request, Commit(r) PROVE GroupsInv' /\ PeopleInv' /\ Grows
  <2> DEFINE f == flight[r]
  <2>1. Names(f, groups, venues, courts, person) /\ Writable(f) /\ Writes(f) /\ UNCHANGED legacy
    BY <1>2, CommitWrites
  <2> HIDE DEF f
  <2>2. /\ GroupsInv' /\ DOMAIN groups \subseteq DOMAIN groups'
        /\ DOMAIN venues \subseteq DOMAIN venues' /\ DOMAIN courts \subseteq DOMAIN courts'
        /\ \A c \in DOMAIN courts : courts'[c].venue = courts[c].venue
        /\ \A g \in DOMAIN groups :
              groups'[g].kind = groups[g].kind /\ groups'[g].venue = groups[g].venue
    BY <2>1, CommitGroups
  <2>3. PeopleInv' /\ \A u \in User : person[u].known => person'[u].known
    BY <2>1, CommitPeople
  <2> QED BY <2>2, <2>3 DEF Grows
<1>3. ASSUME NEW w \in User, Accept(w) PROVE GroupsInv' /\ PeopleInv' /\ Grows
  <2>1. /\ UNCHANGED <<legacy, venues, courts, groups, members>> /\ person[w].pending
        /\ person' = [person EXCEPT ![w].active = TRUE, ![w].pending = FALSE]
    BY <1>3 DEF Accept
  <2>2. /\ person' \in [User -> [known : BOOLEAN, active : BOOLEAN, pending : BOOLEAN]]
        /\ \A u \in User : person'[u].known = person[u].known
        /\ \A u \in User : u # w => person'[u] = person[u]
    BY <2>1 DEF PeopleInv
  <2>3. person[w].known
    BY <2>1 DEF PeopleInv
  <2>4. PeopleInv'
    BY <2>1, <2>2, <2>3 DEF PeopleInv, Here
  <2>5. GroupsInv'
    BY <2>1, NoGroupChanges DEF GroupsInv
  <2> QED BY <2>1, <2>2, <2>4, <2>5 DEF Grows
<1> QED BY <1>1, <1>2, <1>3, NextSteps DEF vars, Asking, Begin, Sweep, Abort

\* What a request names goes on existing.
LEMMA NamesKept ==
    ASSUME Grows, NEW f, Names(f, groups, venues, courts, person)
    PROVE  /\ Names(f, groups', venues', courts', person')
           /\ Walled(f, groups, courts) => Walled(f, groups', courts')
<1>1. Names(f, groups', venues', courts', person')
  BY DEF Grows, Names, OfGroup, OfUser
<1>2. Walled(f, groups, courts) => Walled(f, groups', courts')
  BY DEF Grows, Names, Walled
<1> QED BY <1>1, <1>2

Placed(f, gs, vs, cs, ps) ==
    Names(f, gs, vs, cs, ps) /\ (f.caller # Owner => Walled(f, gs, cs))

\* A request is idle, or placed.
LEMMA FlightIs ==
    ASSUME FlightInv, NEW r \in Request
    PROVE  flight[r] = Idle \/ Placed(flight[r], groups, venues, courts, person)
BY DEF FlightInv, Placed

\* A step of one request leaves what the others hold.
LEMMA OneFlight ==
    ASSUME FlightInv, Grows, NEW r \in Request, NEW f, flight' = [flight EXCEPT ![r] = f],
           f = Idle \/ Placed(f, groups', venues', courts', person')
    PROVE  FlightInv' /\ flight'[r] = f /\ \A q \in Request \ {r} : flight'[q] = flight[q]
<1>1. flight'[r] = f /\ \A q \in Request \ {r} : flight'[q] = flight[q]
  BY DEF FlightInv
<1>2. flight' = [q \in Request |-> flight'[q]]
  BY DEF FlightInv
<1>3. ASSUME NEW q \in Request
      PROVE  flight'[q] = Idle \/ Placed(flight'[q], groups', venues', courts', person')
  <2>1. CASE q = r
    BY <1>1, <2>1
  <2>2. CASE q # r
    <3>1. flight[q] = Idle \/ Placed(flight[q], groups, venues, courts, person)
      BY FlightIs
    <3>2. Placed(flight[q], groups, venues, courts, person)
            => Placed(flight[q], groups', venues', courts', person')
      BY NamesKept DEF Placed
    <3> QED BY <1>1, <2>2, <3>1, <3>2
  <2> QED BY <2>1, <2>2
<1> QED BY <1>1, <1>2, <1>3 DEF FlightInv, Placed

\* A step of no request keeps what they all hold.
LEMMA FlightKept ==
    ASSUME FlightInv, Grows, UNCHANGED flight
    PROVE  FlightInv'
<1>1. \A q \in Request : Names(flight[q], groups, venues, courts, person) =>
           /\ Names(flight[q], groups', venues', courts', person')
           /\ Walled(flight[q], groups, courts) => Walled(flight[q], groups', courts')
  BY NamesKept
<1> QED BY <1>1 DEF FlightInv

\* The DELETE of a save sees the codes there are.
LEMMA SweepSees ==
    ASSUME GroupsInv, FlightInv, Grows, NEW r \in Request, Sweep(r)
    PROVE  LET f == flight[r]
               g == [f EXCEPT !.stage = "commit", !.swept = groups[f.group].codes]
           IN /\ f \in SavedCodes /\ g \in SavedCodes /\ f.group \in DOMAIN groups
              /\ flight' = [flight EXCEPT ![r] = g]
              /\ Placed(g, groups, venues, courts, person)
              /\ UNCHANGED <<legacy, organisation, stale>>
<1> DEFINE f == flight[r]
           g == [f EXCEPT !.stage = "commit", !.swept = groups[f.group].codes]
<1>1. /\ f.op = "set_permissions" /\ UNCHANGED <<legacy, organisation, stale>>
      /\ flight' = [flight EXCEPT ![r].stage = "commit", ![r].swept = groups[f.group].codes]
  BY DEF Sweep
<1>2. Placed(f, groups, venues, courts, person)
  BY <1>1, FlightIs DEF Idle
<1>3. f \in SavedCodes /\ f.group \in DOMAIN groups
  BY <1>1, <1>2 DEF Placed, Names, OfGroup
<1>4. groups[f.group].codes \subseteq Granted
  BY <1>3, GroupTyped DEF GroupRecord
<1>5. flight' = [flight EXCEPT ![r] = g]
  BY <1>1 DEF FlightInv
<1> HIDE DEF f
<1>6. g \in SavedCodes /\ g.op = f.op /\ g.caller = f.caller /\ g.at = f.at /\ g.group = f.group
      /\ g.codes = f.codes
  BY <1>3, <1>4 DEF SavedCodes
<1> HIDE DEF g
<1>7. Names(g, groups, venues, courts, person)
  BY <1>1, <1>2, <1>6 DEF Placed, Names, OfGroup, OfUser, f
<1>8. g.caller # Owner => Walled(g, groups, courts)
  BY <1>1, <1>2, <1>6 DEF Placed, Walled, OfGroup, f
<1> QED BY <1>1, <1>3, <1>5, <1>6, <1>7, <1>8 DEF f, g, Placed

\* Every step keeps what requests name, however stale they are.
LEMMA FlightNext ==
    ASSUME GroupsInv, PeopleInv, FlightInv, [Next]_vars
    PROVE  FlightInv'
<1>0. Grows
  BY OrganisationNext
<1>1. CASE UNCHANGED flight
  BY <1>0, <1>1, FlightKept
<1>2. ASSUME NEW r \in Request, Asking(r) PROVE FlightInv'
  <2>1. PICK f : Asks(f) /\ Begin(r, f)
    BY <1>2 DEF Asking
  <2>2. flight' = [flight EXCEPT ![r] = f] /\ UNCHANGED <<venues, courts, groups, members, person>>
    BY <2>1 DEF Begin, organisation
  <2>3. Placed(f, groups, venues, courts, person)
    BY <2>1 DEF Asks, Placed
  <2>4. Placed(f, groups', venues', courts', person')
    BY <2>2, <2>3
  <2> QED BY <1>0, <2>2, <2>4, OneFlight
<1>3. ASSUME NEW r \in Request, Sweep(r) PROVE FlightInv'
  <2> DEFINE g == [flight[r] EXCEPT !.stage = "commit", !.swept = groups[flight[r].group].codes]
  <2>1. /\ flight' = [flight EXCEPT ![r] = g] /\ Placed(g, groups, venues, courts, person)
        /\ UNCHANGED <<legacy, organisation, stale>>
    BY <1>0, <1>3, SweepSees
  <2> HIDE DEF g
  <2>2. UNCHANGED <<venues, courts, groups, members, person>>
    BY <2>1 DEF organisation
  <2>3. Placed(g, groups', venues', courts', person')
    BY <2>1, <2>2
  <2> QED BY <1>0, <2>1, <2>3, OneFlight
<1>4. ASSUME NEW r \in Request, flight' = [flight EXCEPT ![r] = Idle] PROVE FlightInv'
  BY <1>0, <1>4, OneFlight
<1> QED BY <1>1, <1>2, <1>3, <1>4, NextSteps DEF vars, Commit, Abort, Accept

\* Every step keeps what a request decided from, while nothing was committed beside it.
LEMMA FreshNext ==
    ASSUME GroupsInv, PeopleInv, FlightInv, FreshInv, [Next]_vars
    PROVE  FreshInv'
<1>0. Grows
  BY OrganisationNext
<1>1. ASSUME UNCHANGED <<groups, members>>, stale \subseteq stale',
             NEW q \in Request, flight'[q] = flight[q], Flight(q)', q \notin stale'
      PROVE  Decided(flight'[q], groups', members')
  <2>1. Flight(q) /\ q \notin stale
    BY <1>1 DEF Flight
  <2>2. Decided(flight[q], groups, members)
    BY <2>1 DEF FreshInv
  <2> QED BY <1>1, <2>2
<1>2. CASE UNCHANGED vars
  BY <1>1, <1>2 DEF vars, organisation, FreshInv
<1>3. ASSUME NEW w \in User, Accept(w) PROVE FreshInv'
  BY <1>1, <1>3 DEF Accept, FreshInv
<1>4. ASSUME NEW r \in Request, Asking(r) PROVE FreshInv'
  <2>1. PICK f : Asks(f) /\ Begin(r, f)
    BY <1>4 DEF Asking
  <2>2. flight' = [flight EXCEPT ![r] = f] /\ UNCHANGED <<groups, members, stale>>
    BY <2>1 DEF Begin, organisation
  <2>3. flight'[r] = f /\ \A q \in Request \ {r} : flight'[q] = flight[q]
    BY <2>2 DEF FlightInv
  <2>4. Decided(flight'[r], groups', members')
    BY <2>1, <2>2, <2>3 DEF Asks
  <2>5. \A q \in Request \ {r} : Flight(q)' /\ q \notin stale' => Decided(flight'[q], groups', members')
    BY <1>1, <2>2, <2>3
  <2> QED BY <2>4, <2>5 DEF FreshInv
<1>5. ASSUME NEW r \in Request, Sweep(r) PROVE FreshInv'
  <2> DEFINE f == flight[r]
             g == [f EXCEPT !.stage = "commit", !.swept = groups[f.group].codes]
  <2>1. /\ f \in SavedCodes /\ flight' = [flight EXCEPT ![r] = g]
        /\ UNCHANGED <<legacy, organisation, stale>>
    BY <1>0, <1>5, SweepSees
  <2>2. UNCHANGED <<groups, members, stale>>
    BY <2>1 DEF organisation
  <2>3. flight'[r] = g /\ \A q \in Request \ {r} : flight'[q] = flight[q]
    BY <2>1 DEF FlightInv
  <2>4. ASSUME r \notin stale' PROVE Decided(flight'[r], groups', members')
    <3>1. Flight(r) /\ r \notin stale
      BY <1>5, <2>2, <2>4 DEF Sweep, Flight
    <3>2. Decided(f, groups, members)
      BY <3>1 DEF FreshInv
    <3> HIDE DEF f
    <3>3. /\ g.op = "set_permissions" /\ f.op = "set_permissions" /\ g.caller = f.caller
          /\ g.at = f.at /\ g.group = f.group /\ g.codes = f.codes
          /\ g.swept = groups[g.group].codes
      BY <2>1 DEF SavedCodes
    <3> HIDE DEF g
    <3>4. Decided(g, groups, members)
      BY <3>2, <3>3 DEF Decided
    <3> QED BY <2>2, <2>3, <3>4
  <2>5. \A q \in Request \ {r} : Flight(q)' /\ q \notin stale' => Decided(flight'[q], groups', members')
    BY <1>1, <2>2, <2>3
  <2> QED BY <2>4, <2>5 DEF FreshInv
<1>6. ASSUME NEW r \in Request, Commit(r) PROVE FreshInv'
  <2>1. /\ flight' = [flight EXCEPT ![r] = Idle]
        /\ stale' = (stale \cup {q \in Request : Flight(q)}) \ {r}
    BY <1>6 DEF Commit
  <2>2. flight'[r] = Idle /\ \A q \in Request \ {r} : flight'[q] = flight[q]
    BY <2>1 DEF FlightInv
  <2>3. ~ Flight(r)'
    BY <2>2 DEF Flight, Idle
  <2>4. \A q \in Request \ {r} : Flight(q)' => q \in stale'
    BY <2>1, <2>2 DEF Flight
  <2> QED BY <2>3, <2>4 DEF FreshInv
<1>7. ASSUME NEW r \in Request, Abort(r) PROVE FreshInv'
  <2>1. /\ flight' = [flight EXCEPT ![r] = Idle] /\ stale' = stale \ {r}
        /\ UNCHANGED <<groups, members>>
    BY <1>7 DEF Abort, organisation
  <2>2. flight'[r] = Idle /\ \A q \in Request \ {r} : flight'[q] = flight[q]
    BY <2>1 DEF FlightInv
  <2>3. ~ Flight(r)'
    BY <2>2 DEF Flight, Idle
  <2>4. ASSUME NEW q \in Request \ {r}, Flight(q)', q \notin stale'
        PROVE  Decided(flight'[q], groups', members')
    <3>1. Flight(q) /\ q \notin stale
      BY <2>1, <2>2, <2>4 DEF Flight
    <3>2. Decided(flight[q], groups, members)
      BY <3>1 DEF FreshInv
    <3> QED BY <2>1, <2>2, <3>2
  <2> QED BY <2>3, <2>4 DEF FreshInv
<1> QED BY <1>2, <1>3, <1>4, <1>5, <1>6, <1>7, NextSteps

-----------------------------------------------------------------------------
(* What 0006 makes.                                                         *)

\* Two sequences, one after the other.
LEMMA Joined ==
    ASSUME NEW S, NEW s \in Seq(S), NEW t \in Seq(S)
    PROVE  /\ s \o t \in Seq(S) /\ Len(s \o t) = Len(s) + Len(t)
           /\ \A i \in 1..Len(s) : (s \o t)[i] = s[i]
           /\ \A i \in 1..Len(t) : (s \o t)[Len(s) + i] = t[i]
<1>1. Len(s) \in Nat /\ Len(t) \in Nat
  OBVIOUS
<1>2. /\ s \o t \in Seq(S) /\ Len(s \o t) = Len(s) + Len(t)
      /\ \A i \in 1..(Len(s) + Len(t)) :
            (s \o t)[i] = IF i <= Len(s) THEN s[i] ELSE t[i - Len(s)]
  BY ConcatProperties
<1>3. \A i \in 1..Len(s) : i \in 1..(Len(s) + Len(t)) /\ i <= Len(s)
  BY <1>1
<1>4. \A i \in 1..Len(t) : /\ Len(s) + i \in 1..(Len(s) + Len(t)) /\ ~ (Len(s) + i <= Len(s))
                           /\ Len(s) + i - Len(s) = i
  BY <1>1
<1> QED BY <1>2, <1>3, <1>4

Customers == Group("CUSTOMER", NoVenue, "Customer", {})
MasterOf(v) == Group("MASTER", v, "Venue master", MASTER_DEFAULT_CODES)
DeskOf(v) == Group("STAFF", v, "Front desk", FRONT_DESK_CODES)

\* What 0006 makes: the customers, the masters, the front desks.
LEMMA SeededIs ==
    ASSUME NEW n \in Nat
    PROVE  LET s == SeededGroups(n) IN
           /\ s \in Seq(GroupRecord) /\ Len(s) = 1 + n + n /\ s[1] = Customers
           /\ \A v \in 1..n : s[1 + v] = MasterOf(v) /\ s[1 + n + v] = DeskOf(v)
<1> DEFINE a == <<Customers>>
           b == [v \in 1..n |-> MasterOf(v)]
           c == [v \in 1..n |-> DeskOf(v)]
<1>1. MASTER_DEFAULT_CODES \subseteq Granted /\ FRONT_DESK_CODES \subseteq Granted
  BY DEF MASTER_DEFAULT_CODES, FRONT_DESK_CODES, BookingOps, Granted, PERMISSIONS, OWNER_ONLY
<1>2. /\ Customers \in GroupRecord
      /\ \A v \in 1..n : MasterOf(v) \in GroupRecord /\ DeskOf(v) \in GroupRecord
  BY <1>1 DEF GroupRecord, Group, GroupKind, AnyName, Customers, MasterOf, DeskOf, NoVenue
<1>3. a \in Seq(GroupRecord) /\ Len(a) = 1 /\ a[1] = Customers
  BY <1>2
<1>4. b \in Seq(GroupRecord) /\ Len(b) = n /\ \A v \in 1..n : b[v] = MasterOf(v)
  BY <1>2
<1>5. c \in Seq(GroupRecord) /\ Len(c) = n /\ \A v \in 1..n : c[v] = DeskOf(v)
  BY <1>2
<1>6. SeededGroups(n) = (a \o b) \o c
  BY DEF SeededGroups, Customers, MasterOf, DeskOf
<1> HIDE DEF a, b, c
<1> DEFINE ab == a \o b
<1>7. /\ ab \in Seq(GroupRecord) /\ Len(ab) = 1 + n
      /\ ab[1] = Customers /\ \A v \in 1..n : ab[1 + v] = MasterOf(v)
  <2>1. /\ ab \in Seq(GroupRecord) /\ Len(ab) = Len(a) + Len(b)
        /\ \A i \in 1..Len(a) : ab[i] = a[i]
        /\ \A i \in 1..Len(b) : ab[Len(a) + i] = b[i]
    <3>1. a \in Seq(GroupRecord) /\ b \in Seq(GroupRecord)
      BY <1>3, <1>4
    <3> QED BY ONLY <3>1, Joined
  <2> HIDE DEF ab
  <2> QED BY <1>3, <1>4, <2>1
<1> HIDE DEF ab
<1> DEFINE s == ab \o c
<1>8. /\ s \in Seq(GroupRecord) /\ Len(s) = Len(ab) + Len(c)
      /\ \A i \in 1..Len(ab) : s[i] = ab[i]
      /\ \A i \in 1..Len(c) : s[Len(ab) + i] = c[i]
  <2>1. ab \in Seq(GroupRecord) /\ c \in Seq(GroupRecord)
    BY <1>5, <1>7
  <2> QED BY ONLY <2>1, Joined
<1>9. SeededGroups(n) = s
  BY <1>6 DEF ab
<1> HIDE DEF s
<1>10. 1 \in 1..(1 + n) /\ \A v \in 1..n : 1 + v \in 1..(1 + n)
  OBVIOUS
<1> QED BY <1>5, <1>7, <1>8, <1>9, <1>10

\* What the system starts with: the seeded groups, then staff groups that came since.
LEMMA FirstGroups ==
    ASSUME NEW grown \in Grown, NEW all, all = SeededGroups(Venues) \o grown.groups
    PROVE  /\ all \in Seq(GroupRecord) /\ Len(all) >= 1 + Venues + Venues /\ all[1] = Customers
           /\ \A v \in 1..Venues : all[1 + v] = MasterOf(v) /\ all[1 + Venues + v] = DeskOf(v)
           /\ \A g \in DOMAIN all :
                 \/ g = 1
                 \/ \E v \in 1..Venues : g = 1 + v
                 \/ all[g].kind = "STAFF" /\ all[g].venue \in 1..Venues
           /\ \A g \in DOMAIN all : all[g].here
<1> DEFINE n == Venues
           s == SeededGroups(n)
           t == grown.groups
<1>1. n \in Nat /\ t \in Seq(Added(NamesIn(t)))
  BY OrganisationAssumption
<1>2. Added(NamesIn(t)) \subseteq GroupRecord
  <2>1. NamesIn(t) \subseteq AnyName
    BY DEF AnyName
  <2> HIDE DEF t
  <2>2. 1..n \subseteq Nat
    BY <1>1
  <2>3. \A x \in Added(NamesIn(t)) : x \in GroupRecord
    BY <2>1, <2>2 DEF Added, GroupRecord, GroupKind, Granted, n
  <2> QED BY <2>3
<1>3. /\ s \in Seq(GroupRecord) /\ Len(s) = 1 + n + n /\ s[1] = Customers
      /\ \A v \in 1..n : s[1 + v] = MasterOf(v) /\ s[1 + n + v] = DeskOf(v)
  BY <1>1, SeededIs
<1> HIDE DEF s, n
<1>4. /\ Len(t) \in Nat
      /\ \A i \in 1..Len(t) : t[i].kind = "STAFF" /\ t[i].venue \in 1..n /\ t[i].here
  <2> DEFINE A == Added(NamesIn(t))
  <2>1. \A x \in A : x.kind = "STAFF" /\ x.venue \in 1..n /\ x.here
    BY DEF Added, n
  <2> HIDE DEF A
  <2>2. t \in Seq(A)
    BY <1>1 DEF A
  <2> HIDE DEF t
  <2> QED BY <2>1, <2>2
<1>5. t \in Seq(GroupRecord)
  <2> DEFINE A == Added(NamesIn(t))
  <2>1. t \in Seq(A) /\ A \subseteq GroupRecord
    BY <1>1, <1>2
  <2> HIDE DEF A, t
  <2> QED BY <2>1
<1> HIDE DEF t
<1> DEFINE st == s \o t
<1>6. /\ st \in Seq(GroupRecord) /\ Len(st) = Len(s) + Len(t)
      /\ \A i \in 1..Len(s) : st[i] = s[i]
      /\ \A i \in 1..Len(t) : st[Len(s) + i] = t[i]
  <2>1. s \in Seq(GroupRecord) /\ t \in Seq(GroupRecord)
    BY <1>3, <1>5
  <2> QED BY ONLY <2>1, Joined
<1>7. all = st
  BY DEF s, t, n
<1> HIDE DEF st
<1>8. 1 \in 1..Len(s) /\ \A v \in 1..n : 1 + v \in 1..Len(s) /\ 1 + n + v \in 1..Len(s)
  BY <1>1, <1>3
<1>9. ASSUME NEW g \in DOMAIN all
      PROVE  \/ g = 1
             \/ \E v \in 1..n : g = 1 + v
             \/ all[g].kind = "STAFF" /\ all[g].venue \in 1..n /\ all[g].here
  <2>1. g \in 1..(1 + n + n + Len(t))
    BY <1>3, <1>6, <1>7
  <2>2. CASE g \in 2..(1 + n)
    <3>1. g - 1 \in 1..n /\ g = 1 + (g - 1)
      BY <1>1, <2>2
    <3> QED BY <3>1
  <2>3. CASE g \in (1 + n + 1)..(1 + n + n)
    <3>1. g - 1 - n \in 1..n /\ g = 1 + n + (g - 1 - n)
      BY <1>1, <2>3
    <3>2. PICK v \in 1..n : g = 1 + n + v
      BY <3>1
    <3>3. all[g] = DeskOf(v)
      BY <1>3, <1>6, <1>7, <1>8, <3>2
    <3>4. DeskOf(v).kind = "STAFF" /\ DeskOf(v).venue = v /\ DeskOf(v).here
      BY DEF DeskOf, Group
    <3> QED BY <3>3, <3>4
  <2>4. CASE g > 1 + n + n
    <3>1. g - (1 + n + n) \in 1..Len(t) /\ g = (1 + n + n) + (g - (1 + n + n))
      BY <1>1, <1>4, <2>1, <2>4
    <3>2. PICK i \in 1..Len(t) : g = (1 + n + n) + i
      BY <3>1
    <3>3. all[g] = t[i]
      BY <1>3, <1>6, <1>7, <3>2
    <3> QED BY <1>4, <3>3
  <2>5. g = 1 \/ g \in 2..(1 + n) \/ g \in (1 + n + 1)..(1 + n + n) \/ g > 1 + n + n
    BY <1>1, <1>4, <2>1
  <2> QED BY <2>2, <2>3, <2>4, <2>5
<1>10. /\ all[1] = Customers
       /\ \A v \in 1..n : all[1 + v] = MasterOf(v) /\ all[1 + n + v] = DeskOf(v)
  BY <1>3, <1>6, <1>7, <1>8
<1>11. Len(all) >= 1 + n + n
  BY <1>1, <1>3, <1>4, <1>6, <1>7
<1>12. ASSUME NEW g \in DOMAIN all PROVE all[g].here
  <2>1. Customers.here /\ \A v : MasterOf(v).here
    BY DEF Customers, MasterOf, Group
  <2>2. CASE g = 1
    BY <1>10, <2>1, <2>2
  <2>3. CASE \E v \in 1..n : g = 1 + v
    BY <1>10, <2>1, <2>3
  <2> QED BY <1>9, <2>2, <2>3
<1> QED BY <1>6, <1>7, <1>9, <1>10, <1>11, <1>12 DEF n

\* What 0006 leaves is as it must be.
LEMMA OrganisationInit == Init => OrganisationInv
<1> SUFFICES ASSUME Init PROVE OrganisationInv
  OBVIOUS
<1>1. PICK grown \in Grown :
        /\ groups = SeededGroups(Venues) \o grown.groups
        /\ members = BackfillMembers(legacy, groups) \cup grown.members
  BY DEF Init
<1>2. /\ groups \in Seq(GroupRecord) /\ Len(groups) >= 1 + Venues + Venues /\ groups[1] = Customers
      /\ \A v \in 1..Venues : groups[1 + v] = MasterOf(v) /\ groups[1 + Venues + v] = DeskOf(v)
      /\ \A g \in DOMAIN groups :
            \/ g = 1
            \/ \E v \in 1..Venues : g = 1 + v
            \/ groups[g].kind = "STAFF" /\ groups[g].venue \in 1..Venues
      /\ \A g \in DOMAIN groups : groups[g].here
  BY <1>1, FirstGroups
<1>3. /\ Venues \in Nat \ {0}
      /\ grown.members \subseteq (DOMAIN groups) \X (User \ Newcomer)
      /\ \A g, h \in DOMAIN groups :
            groups[g].venue = groups[h].venue /\ groups[g].name = groups[h].name => g = h
  BY <1>1, OrganisationAssumption
<1>4. venues \in Seq(Nat) /\ Len(venues) = Venues /\ courts \in Seq(CourtRecord)
  <2>1. venues = [v \in 1..Venues |-> 0] /\ courts = [v \in 1..Venues |-> [venue |-> v, edits |-> 0]]
    BY DEF Init
  <2>2. \A v \in 1..Venues : [venue |-> v, edits |-> 0] \in CourtRecord
    BY <1>3 DEF CourtRecord
  <2> QED BY <1>3, <2>1, <2>2
<1>5. DOMAIN groups = 1..Len(groups) /\ Len(groups) \in Nat
  BY <1>2
<1>6. \A g \in DOMAIN groups : g = 1 =>
         groups[g].venue = 0 /\ groups[g].kind = "CUSTOMER" /\ groups[g].codes = {} /\ Here(g)
  BY <1>2 DEF Customers, Group, NoVenue, Here
<1>7. \A v \in 1..Venues :
         1 + v \in DOMAIN groups /\ groups[1 + v].venue = v /\ groups[1 + v].kind = "MASTER"
  <2>1. \A v : MasterOf(v).venue = v /\ MasterOf(v).kind = "MASTER"
    BY DEF MasterOf, Group
  <2>2. \A v \in 1..Venues : 1 + v \in 1..Len(groups)
    BY <1>2, <1>3, <1>5
  <2> QED BY <1>2, <1>5, <2>1, <2>2
<1>8. ASSUME NEW g \in DOMAIN groups PROVE GroupFits(g)
  <2>1. NameFree(groups[g].venue, groups[g].name, g)
    BY <1>3 DEF NameFree
  <2>2. CASE g = 1
    BY <1>4, <1>3, <1>6, <2>1, <2>2 DEF GroupFits, NoVenue
  <2>3. ASSUME NEW v \in 1..Venues, g = 1 + v PROVE GroupFits(g)
    <3>0. v \in 0..Venues /\ v # 0
      BY <1>3
    <3>1. groups[g].venue = v /\ groups[g].kind = "MASTER" /\ v \in 0..Venues /\ v # 0
      BY <3>0, <1>7, <2>3
    <3> QED BY <1>4, <2>1, <3>1 DEF GroupFits, NoVenue
  <2>4. CASE groups[g].kind = "STAFF" /\ groups[g].venue \in 1..Venues
    <3>1. groups[g].venue \in 0..Venues /\ groups[g].venue # 0
      BY <1>3, <2>4
    <3> QED BY <1>4, <2>1, <2>4, <3>1 DEF GroupFits, NoVenue
  <2> QED BY <1>2, <2>2, <2>3, <2>4
<1>9. ASSUME NEW v \in 0..Len(venues) PROVE \E g \in DOMAIN groups : Leading(v) = {g}
  <2>1. v \in 0..Venues /\ 1 + v \in DOMAIN groups
    BY <1>2, <1>3, <1>4, <1>5
  <2>2. groups[1 + v].venue = v /\ groups[1 + v].kind # "STAFF"
    <3>1. CASE v = 0
      BY <1>6, <2>1, <3>1
    <3>2. CASE v # 0
      <4>1. v \in 1..Venues
        BY <1>3, <2>1, <3>2
      <4> QED BY <1>7, <4>1
    <3> QED BY <3>1, <3>2
  <2>3. ASSUME NEW g \in DOMAIN groups, groups[g].venue = v, groups[g].kind # "STAFF"
        PROVE  g = 1 + v
    <3>1. CASE g = 1
      BY <1>6, <2>3, <3>1
    <3>2. CASE \E w \in 1..Venues : g = 1 + w
      BY <1>7, <2>3, <3>2
    <3> QED BY <1>2, <2>3, <3>1, <3>2
  <2>4. Leading(v) = {1 + v}
    BY <2>1, <2>2, <2>3 DEF Leading
  <2> QED BY <2>1, <2>4
<1>10. GroupsInv
  BY <1>2, <1>4, <1>8, <1>9 DEF GroupsInv
<1>11. \A g \in DOMAIN groups : Here(g)
  BY <1>2 DEF Here
<1>12. PeopleInv
  <2>1. /\ legacy \in Legacies
        /\ person = [u \in User |-> [known |-> u \notin Newcomer, active |-> u \notin Newcomer,
                                    pending |-> FALSE]]
    BY DEF Init
  <2>2. DOMAIN legacy = User \ (Newcomer \cup {Owner})
    BY <2>1, OrganisationAssumption DEF Legacy
  <2>3. BackfillMembers(legacy, groups) \subseteq (DOMAIN groups) \X (DOMAIN legacy)
    BY DEF BackfillMembers, Enrol
  <2>4. members \subseteq (DOMAIN groups) \X (User \ Newcomer)
    BY <1>1, <1>3, <2>2, <2>3
  <2>5. \A u \in User : /\ person[u] \in [known : BOOLEAN, active : BOOLEAN, pending : BOOLEAN]
                        /\ person[u].known <=> u \notin Newcomer
                        /\ person[u].active <=> u \notin Newcomer
                        /\ ~ person[u].pending
    BY <2>1
  <2>6. person \in [User -> [known : BOOLEAN, active : BOOLEAN, pending : BOOLEAN]]
    BY <2>1, <2>5
  <2>7. \A m \in members : m[1] \in DOMAIN groups /\ m[2] \in User \ Newcomer
    BY <2>4
  <2> QED BY <1>11, <2>1, <2>4, <2>5, <2>6, <2>7 DEF PeopleInv
<1>13. FlightInv /\ FreshInv
  <2>1. flight = [r \in Request |-> Idle]
    BY DEF Init
  <2>2. \A r \in Request : flight[r] = Idle
    BY <2>1
  <2>3. flight = [r \in Request |-> flight[r]]
    BY <2>1
  <2> QED BY <2>2, <2>3 DEF FlightInv, FreshInv, Flight, Idle
<1> QED BY <1>10, <1>12, <1>13 DEF OrganisationInv

-----------------------------------------------------------------------------
(* The invariant, and the constraints of the database.                      *)

\* What is always so: groups and people are as the tables' constraints say, a
\* request in flight names what exists and, unless it is the owner's, is about its
\* own venue, and what it decided from holds until another request commits.
THEOREM OrganisationInvariant == Spec => []OrganisationInv
<1>1. ASSUME OrganisationInv, [Next]_vars PROVE OrganisationInv'
  BY <1>1, OrganisationNext, FlightNext, FreshNext DEF OrganisationInv
<1> QED BY OrganisationInit, <1>1, PTL DEF Spec

\* TypeOK: the constraints 0006 declares are never violated, every venue keeps
\* exactly one master group and the customers their one, no group ever holds an
\* owner-only code, and a membership points at a group and an account there are.
THEOREM GroupsFit == Spec => []TypeOK
<1>1. ASSUME OrganisationInv PROVE TypeOK
  <2>1. ASSUME NEW g \in DOMAIN groups
        PROVE  /\ groups[g].kind \in GroupKind
               /\ groups[g].venue \in 0..Len(venues)
               /\ (groups[g].kind = "CUSTOMER") <=> (groups[g].venue = NoVenue)
               /\ groups[g].codes \subseteq PERMISSIONS \ OWNER_ONLY
               /\ groups[g].kind = "CUSTOMER" => groups[g].codes = {}
               /\ Here(g) => NameFree(groups[g].venue, groups[g].name, g)
    BY <1>1, GroupTyped DEF OrganisationInv, GroupRecord, GroupFits, Granted
  <2>2. ASSUME NEW v \in 0..Len(venues)
        PROVE  Cardinality({g \in DOMAIN groups :
                              groups[g].venue = v /\ groups[g].kind # "STAFF"}) = 1
    <3>1. PICK g \in DOMAIN groups : Leading(v) = {g}
      BY <1>1 DEF OrganisationInv, GroupsInv
    <3>2. Cardinality(Leading(v)) = 1
      BY <3>1, FS_Singleton
    <3> QED BY <3>2 DEF Leading
  <2>3. \A m \in members : Here(m[1]) /\ m[2] \in User /\ person[m[2]].known
    BY <1>1 DEF OrganisationInv, PeopleInv
  <2> QED BY <2>1, <2>2, <2>3 DEF TypeOK
<1> QED BY <1>1, OrganisationInvariant, PTL

-----------------------------------------------------------------------------
(* How a request ends.                                                      *)

\* A request ends by what it commits, or with nothing changed.
LEMMA EndsBy ==
    ASSUME OrganisationInv, [Next]_vars, NEW r \in Request, Ends(r)
    PROVE  \/ UNCHANGED <<legacy, organisation>>
           \/ Commit(r)
<1>0. GroupsInv /\ PeopleInv /\ FlightInv
  BY DEF OrganisationInv
<1>1. flight' # flight
  BY DEF Ends, Flight, Idle
<1>2. ASSUME NEW q \in Request, Commit(q) PROVE q = r
  <2>1. flight' = [flight EXCEPT ![q] = Idle]
    BY <1>2 DEF Commit
  <2>2. q # r => flight'[r] = flight[r]
    BY <1>0, <2>1 DEF FlightInv
  <2> QED BY <2>2 DEF Ends, Flight, Idle
<1> QED BY <1>0, <1>1, <1>2, NextSteps DEF vars, Asking, Begin, Sweep, Abort, Accept

\* What a request that ends with a change had in hand, and writes.
LEMMA Ending ==
    ASSUME OrganisationInv, NEW r \in Request, Commit(r)
    PROVE  /\ GroupsInv /\ PeopleInv
           /\ Placed(flight[r], groups, venues, courts, person)
           /\ Writable(flight[r]) /\ Writes(flight[r])
           /\ r \notin stale => Decided(flight[r], groups, members)
<1>1. GroupsInv /\ PeopleInv /\ FlightInv /\ FreshInv
  BY DEF OrganisationInv
<1>2. Flight(r) /\ flight[r] # Idle
  BY DEF Commit, Flight, Idle
<1>3. Placed(flight[r], groups, venues, courts, person)
  BY <1>1, <1>2, FlightIs
<1>4. r \notin stale => Decided(flight[r], groups, members)
  BY <1>1, <1>2 DEF FreshInv
<1> QED BY <1>1, <1>3, <1>4, CommitWrites

\* NobodyLosesAccess: a membership goes when a request names it, or with a group
\* that was empty when its deletion was decided and was filled beside it.
THEOREM AccessIsKept == Spec => NobodyLosesAccess
<1> DEFINE Step == \A m \in members \ members' :
         \E r \in Request :
            /\ Ends(r) /\ flight[r].op \in {"remove_member", "delete_group"}
            /\ flight[r].group = m[1]
            /\ flight[r].op = "remove_member" => flight[r].user = m[2]
            /\ flight[r].op = "delete_group" => r \in stale
<1>1. ASSUME OrganisationInv, [Next]_vars PROVE Step
  <2>1. ASSUME NEW m \in members, m \notin members'
        PROVE  \E r \in Request :
            /\ Ends(r) /\ flight[r].op \in {"remove_member", "delete_group"}
            /\ flight[r].group = m[1]
            /\ flight[r].op = "remove_member" => flight[r].user = m[2]
            /\ flight[r].op = "delete_group" => r \in stale
    <3>0. GroupsInv /\ PeopleInv /\ FlightInv
      BY <1>1 DEF OrganisationInv
    <3>1. PICK r \in Request : Commit(r)
      BY <1>1, <2>1, <3>0, NextSteps DEF vars, organisation, Asking, Begin, Sweep, Abort, Accept
    <3> DEFINE f == flight[r]
    <3>2. Ends(r)
      BY <3>0, <3>1 DEF Ends, Commit, FlightInv
    <3>3. Writes(f) /\ (r \notin stale => Decided(f, groups, members))
      BY <1>1, <3>1, Ending
    <3> HIDE DEF f
    <3>4. \/ f.op = "remove_member" /\ m = <<f.group, f.user>>
          \/ f.op = "delete_group" /\ m[1] = f.group
      BY <2>1, <3>3, MembersWritten
    <3>5. f.op = "delete_group" => r \in stale
      BY <2>1, <3>3, <3>4 DEF Decided
    <3> QED BY <3>2, <3>4, <3>5 DEF f
  <2> QED BY <2>1
<1> QED BY <1>1, OrganisationInvariant, PTL DEF Spec, NobodyLosesAccess

-----------------------------------------------------------------------------
(* The walls between venues.                                                *)

\* A request behind the wall changes its venue's staff groups only.
LEMMA GroupsBehindTheWall ==
    ASSUME GroupsInv, PeopleInv, NEW f, Names(f, groups, venues, courts, person), Writable(f),
           Writes(f), Walled(f, groups, courts)
    PROVE  \A g \in DOMAIN groups' :
              \/ g \in DOMAIN groups /\ groups'[g] = groups[g]
                    /\ {m \in members' : m[1] = g} = {m \in members : m[1] = g}
              \/ groups'[g].kind = "STAFF" /\ groups'[g].venue = f.at
<1>1. /\ f.op \in OfGroup => groups[f.group].kind = "STAFF" /\ groups[f.group].venue = f.at
      /\ f.op \in OfGroup => f.group \in DOMAIN groups
      /\ f.op = "create_group" => f.venue = f.at
      /\ f.op # "create_venue"
  BY DEF Walled, Names
<1>2. \A g \in DOMAIN groups :
         /\ groups'[g].kind = groups[g].kind /\ groups'[g].venue = groups[g].venue
         /\ groups'[g] # groups[g] =>
               f.op \in {"set_permissions", "rename_group", "delete_group"} /\ g = f.group
  BY CommitGroups
<1>3. \A g : f.op \notin OfGroup \/ g # f.group =>
         {m \in members' : m[1] = g} = {m \in members : m[1] = g}
  <2>1. CASE f.op \in {"add_member", "invite"}
    <3>1. members' = members \cup {<<f.group, f.user>>}
      BY <2>1, MembersWritten
    <3> QED BY <2>1, <3>1 DEF OfGroup
  <2>2. CASE f.op = "remove_member"
    <3>1. members' = members \ {<<f.group, f.user>>}
      BY <2>2, MembersWritten
    <3> QED BY <2>2, <3>1 DEF OfGroup
  <2>3. CASE f.op = "delete_group"
    <3>1. members' = {m \in members : m[1] # f.group}
      BY <2>3, MembersWritten
    <3> QED BY <2>3, <3>1 DEF OfGroup
  <2>4. CASE f.op \notin {"add_member", "invite", "remove_member", "delete_group"}
    BY <2>4, MembersWritten
  <2> QED BY <2>1, <2>2, <2>3, <2>4
<1>4. ASSUME NEW g \in DOMAIN groups', g \notin DOMAIN groups
      PROVE  groups'[g].kind = "STAFF" /\ groups'[g].venue = f.at
  <2>1. groups \in Seq(GroupRecord) /\ DOMAIN groups = 1..Len(groups) /\ Len(groups) \in Nat
    BY DEF GroupsInv
  <2>2. f.op = "create_group"
    <3>1. f.op \in {"set_permissions", "rename_group", "delete_group"} => DOMAIN groups' = DOMAIN groups
      BY GroupsWritten
    <3> QED BY <1>1, <1>4, <3>1, GroupsWritten
  <2> DEFINE rec == Group("STAFF", f.venue, f.name, {})
  <2>3. groups' = Append(groups, rec)
    BY <2>2, GroupsWritten
  <2>4. rec.kind = "STAFF" /\ rec.venue = f.at
    BY <1>1, <2>2 DEF Group
  <2> HIDE DEF rec
  <2>5. groups'[g] = rec
    BY <1>4, <2>1, <2>3
  <2> QED BY <2>4, <2>5
<1>5. ASSUME NEW g \in DOMAIN groups
      PROVE  \/ groups'[g] = groups[g] /\ {m \in members' : m[1] = g} = {m \in members : m[1] = g}
             \/ groups'[g].kind = "STAFF" /\ groups'[g].venue = f.at
  <2>1. CASE f.op \in OfGroup /\ g = f.group
    BY <1>1, <1>2, <2>1
  <2>2. CASE ~ (f.op \in OfGroup /\ g = f.group)
    BY <1>2, <1>3, <2>2 DEF OfGroup
  <2> QED BY <2>1, <2>2
<1> QED BY <1>4, <1>5

\* VenueWalls: whatever a request of staff ends with, however stale, it changes
\* courts, staff groups and memberships of its own venue only, and no venue.
THEOREM WallsHold == Spec => VenueWalls
<1> DEFINE Step == \A r \in Request : Ends(r) /\ flight[r].caller # Owner =>
         LET at == flight[r].at IN
         /\ venues' = venues
         /\ \A g \in DOMAIN groups' :
               \/ g \in DOMAIN groups /\ groups'[g] = groups[g]
                     /\ {m \in members' : m[1] = g} = {m \in members : m[1] = g}
               \/ groups'[g].kind = "STAFF" /\ groups'[g].venue = at
         /\ \A c \in DOMAIN courts' :
               (c \in DOMAIN courts /\ courts'[c] = courts[c]) \/ courts'[c].venue = at
<1>1. ASSUME OrganisationInv, [Next]_vars PROVE Step
  <2> SUFFICES ASSUME NEW r \in Request, Ends(r), flight[r].caller # Owner
               PROVE  /\ venues' = venues
                      /\ \A g \in DOMAIN groups' :
                            \/ g \in DOMAIN groups /\ groups'[g] = groups[g]
                                  /\ {m \in members' : m[1] = g} = {m \in members : m[1] = g}
                            \/ groups'[g].kind = "STAFF" /\ groups'[g].venue = flight[r].at
                      /\ \A c \in DOMAIN courts' :
                            \/ c \in DOMAIN courts /\ courts'[c] = courts[c]
                            \/ courts'[c].venue = flight[r].at
    OBVIOUS
  <2>1. CASE UNCHANGED <<legacy, organisation>>
    BY <2>1 DEF organisation
  <2>2. CASE Commit(r)
    <3> DEFINE f == flight[r]
    <3>1. GroupsInv /\ PeopleInv /\ Placed(f, groups, venues, courts, person) /\ Writable(f) /\ Writes(f)
      BY <1>1, <2>2, Ending
    <3>2. f.caller # Owner
      OBVIOUS
    <3> HIDE DEF f
    <3>3. Names(f, groups, venues, courts, person) /\ Walled(f, groups, courts)
      BY <3>1, <3>2 DEF Placed
    <3>4. venues' = venues
      BY <3>1, <3>3, PlacesWritten DEF Walled
    <3>5. ASSUME NEW c \in DOMAIN courts'
          PROVE  (c \in DOMAIN courts /\ courts'[c] = courts[c]) \/ courts'[c].venue = f.at
      <4>1. courts \in Seq(CourtRecord) /\ DOMAIN courts = 1..Len(courts) /\ Len(courts) \in Nat
        BY <3>1 DEF GroupsInv
      <4>2. CASE f.op = "create_court"
        <5> DEFINE rec == [venue |-> f.venue, edits |-> 0]
        <5>1. courts' = Append(courts, rec) /\ rec.venue = f.at
          BY <3>1, <3>3, <4>2, PlacesWritten DEF Walled
        <5> HIDE DEF rec
        <5> QED BY <3>5, <4>1, <5>1
      <4>3. CASE f.op = "update_court"
        <5>1. courts' = [courts EXCEPT ![f.court].edits = @ + 1] /\ courts[f.court].venue = f.at
          BY <3>1, <3>3, <4>3, PlacesWritten DEF Walled
        <5>2. courts[f.court] \in CourtRecord /\ c \in DOMAIN courts
          BY <3>3, <3>5, <4>1, <4>3, <5>1 DEF Names
        <5>3. c = f.court => courts'[c].venue = courts[c].venue
          BY <5>1, <5>2 DEF CourtRecord
        <5> QED BY <5>1, <5>2, <5>3
      <4>4. CASE f.op \notin {"create_court", "update_court"}
        BY <3>1, <3>5, <4>4, PlacesWritten
      <4> QED BY <4>2, <4>3, <4>4
    <3>6. \A g \in DOMAIN groups' :
              \/ g \in DOMAIN groups /\ groups'[g] = groups[g]
                    /\ {m \in members' : m[1] = g} = {m \in members : m[1] = g}
              \/ groups'[g].kind = "STAFF" /\ groups'[g].venue = f.at
      BY <3>1, <3>3, GroupsBehindTheWall
    <3> QED BY <3>4, <3>5, <3>6 DEF f
  <2> QED BY <1>1, <2>1, <2>2, EndsBy
<1> QED BY <1>1, OrganisationInvariant, PTL DEF Spec, VenueWalls

-----------------------------------------------------------------------------
(* What a fresh request leaves as it checked.                               *)

\* What a write leaves alone: every group but the one it names.
LEMMA OtherGroups ==
    ASSUME GroupsInv, NEW f, Names(f, groups, venues, courts, person), Writable(f), Writes(f),
           NEW h \in DOMAIN groups, f.op \in OfGroup => h # f.group
    PROVE  /\ h \in DOMAIN groups' /\ groups'[h] = groups[h]
           /\ \A u : <<h, u>> \in members => <<h, u>> \in members'
<1>1. h \in DOMAIN groups' /\ groups'[h] = groups[h]
  BY CommitGroups DEF OfGroup
<1>2. \A u : <<h, u>> \in members => <<h, u>> \in members'
  <2>1. CASE f.op = "remove_member"
    <3>1. members' = members \ {<<f.group, f.user>>} /\ h # f.group
      BY <2>1, MembersWritten DEF OfGroup
    <3> QED BY <3>1
  <2>2. CASE f.op = "delete_group"
    <3>1. members' = {m \in members : m[1] # f.group} /\ h # f.group
      BY <2>2, MembersWritten DEF OfGroup
    <3> QED BY <3>1
  <2>3. CASE f.op \notin {"remove_member", "delete_group"}
    BY <2>3, MembersWritten
  <2> QED BY <2>1, <2>2, <2>3
<1> QED BY <1>1, <1>2

\* A group of the user that still gives the code.
LEMMA OneGives ==
    ASSUME NEW u, NEW v, NEW h \in DOMAIN groups', h # NoGroup, <<h, u>> \in members',
           groups'[h].kind # "CUSTOMER", groups'[h].venue = v, "USER:Manage" \in groups'[h].codes
    PROVE  "USER:Manage" \in StaffCodes(u, v, NoGroup)'
BY DEF StaffCodes

\* The user manages groups at the venue by this one.
WayIn(h, u, v) ==
    /\ <<h, u>> \in members /\ groups[h].kind # "CUSTOMER"
    /\ groups[h].venue = v /\ "USER:Manage" \in groups[h].codes

\* Somebody who manages groups does so by one of them.
LEMMA GivenBy ==
    ASSUME NEW u, NEW v, NEW x, "USER:Manage" \in CodesIn(groups, members, u, v, x)
    PROVE  \E h \in DOMAIN groups : h # x /\ WayIn(h, u, v)
BY DEF CodesIn, WayIn

\* What the group a save is about has then: what the save decided.
LEMMA SavedIs ==
    ASSUME GroupsInv, NEW f, Names(f, groups, venues, courts, person), Writable(f), Writes(f),
           Decided(f, groups, members), f.op = "set_permissions"
    PROVE  groups'[f.group].codes = f.codes
<1>1. f.group \in DOMAIN groups /\ f.swept = groups[f.group].codes
  BY WritableSays DEF Names, OfGroup, Decided
<1>2. CodesAfter(f) = f.codes
  BY <1>1 DEF CodesAfter
<1>3. groups' = [groups EXCEPT ![f.group].codes = f.codes]
  BY <1>2, GroupsWritten
<1>4. groups[f.group] \in GroupRecord /\ groups \in Seq(GroupRecord)
  BY <1>1, GroupTyped DEF GroupsInv
<1> QED BY <1>1, <1>3, <1>4 DEF GroupRecord

\* A fresh request of somebody who manages groups leaves them a way to.
LEMMA WayInStays ==
    ASSUME GroupsInv, PeopleInv, NEW f, Names(f, groups, venues, courts, person), Writable(f),
           Writes(f), Decided(f, groups, members), NEW u, NEW v, u = f.caller, v = f.at, u # Owner,
           "USER:Manage" \in StaffCodes(u, v, NoGroup)
    PROVE  "USER:Manage" \in StaffCodes(u, v, NoGroup)'
<1>1. PICK h \in DOMAIN groups :
        /\ <<h, u>> \in members /\ groups[h].kind # "CUSTOMER"
        /\ groups[h].venue = v /\ "USER:Manage" \in groups[h].codes
  <2>1. "USER:Manage" \in CodesIn(groups, members, u, v, NoGroup)
    BY StaffCodesIn
  <2>2. \E g \in DOMAIN groups : g # NoGroup /\ WayIn(g, u, v)
    BY ONLY <2>1, GivenBy
  <2> QED BY <2>2 DEF WayIn
<1>2. \A g \in DOMAIN groups : g # NoGroup
  BY DEF GroupsInv, NoGroup
<1>3. ASSUME NEW g \in DOMAIN groups, <<g, u>> \in members, groups[g].kind # "CUSTOMER",
             groups[g].venue = v, "USER:Manage" \in groups[g].codes,
             f.op \in OfGroup => g # f.group
      PROVE  "USER:Manage" \in StaffCodes(u, v, NoGroup)'
  <2>1. g \in DOMAIN groups' /\ groups'[g] = groups[g] /\ <<g, u>> \in members'
    BY <1>3, OtherGroups
  <2> QED BY <1>2, <1>3, <2>1, OneGives
<1>4. ASSUME OtherWayIn(groups, members, u, v, f.group), <<f.group, u>> \in members
      PROVE  "USER:Manage" \in StaffCodes(u, v, NoGroup)'
  <2>1. "USER:Manage" \in CodesIn(groups, members, u, v, f.group)
    BY <1>4 DEF OtherWayIn
  <2>2. PICK g \in DOMAIN groups : g # f.group /\ WayIn(g, u, v)
    BY ONLY <2>1, GivenBy
  <2> QED BY <1>3, <2>2 DEF WayIn
<1>5. CASE f.op \notin OfGroup \/ h # f.group
  BY <1>1, <1>3, <1>5
<1>6. CASE f.op \in OfGroup /\ h = f.group
  <2>1. CASE f.op = "delete_group"
    BY <1>1, <1>6, <2>1 DEF Decided
  <2>2. CASE f.op = "set_permissions"
    <3>1. CASE "USER:Manage" \in f.codes
      <4>1. groups'[h].codes = f.codes
        BY <1>6, <2>2, SavedIs
      <4>2. /\ h \in DOMAIN groups' /\ groups'[h].kind = groups[h].kind
            /\ groups'[h].venue = groups[h].venue
        BY CommitGroups
      <4>3. members' = members
        BY <2>2, MembersWritten
      <4> QED BY <1>1, <1>2, <3>1, <4>1, <4>2, <4>3, OneGives
    <3>2. CASE "USER:Manage" \notin f.codes
      BY <1>1, <1>4, <1>6, <2>2, <3>2 DEF Decided
    <3> QED BY <3>1, <3>2
  <2>3. CASE f.op = "remove_member"
    <3>1. CASE f.user = f.caller
      BY <1>1, <1>4, <1>6, <2>3, <3>1 DEF Decided
    <3>2. CASE f.user # f.caller
      <4>1. members' = members \ {<<f.group, f.user>>} /\ groups' = groups
        BY <2>3, GroupsWritten, MembersWritten
      <4>2. <<h, u>> \in members'
        BY <1>1, <3>2, <4>1
      <4> QED BY <1>1, <1>2, <4>1, <4>2, OneGives
    <3> QED BY <3>1, <3>2
  <2>4. CASE f.op \in {"add_member", "invite"}
    <3>1. groups' = groups /\ <<h, u>> \in members'
      BY <1>1, <2>4, GroupsWritten, MembersWritten
    <3> QED BY <1>1, <1>2, <3>1, OneGives
  <2>5. CASE f.op = "rename_group"
    <3>1. groups' = [groups EXCEPT ![f.group].name = f.name] /\ members' = members
      BY <2>5, GroupsWritten, MembersWritten
    <3>2. groups[h] \in GroupRecord /\ groups \in Seq(GroupRecord)
      BY GroupTyped DEF GroupsInv
    <3>3. /\ h \in DOMAIN groups' /\ groups'[h].kind = groups[h].kind
          /\ groups'[h].venue = groups[h].venue
      BY CommitGroups
    <3>4. groups'[h].codes = groups[h].codes
      BY <1>6, <3>1, <3>2 DEF GroupRecord
    <3> QED BY <1>1, <1>2, <3>1, <3>3, <3>4, OneGives
  <2> QED BY <1>6, <2>1, <2>2, <2>3, <2>4, <2>5 DEF OfGroup
<1> QED BY <1>5, <1>6

\* A fresh request of u that ends with a change.
LEMMA FreshEnds ==
    ASSUME OrganisationInv, [Next]_vars, NEW r \in Request, NEW u \in User \ {Owner},
           NEW v, Fresh(r, u, v)
    PROVE  \/ UNCHANGED <<groups, members, person>>
           \/ LET f == flight[r] IN
              /\ GroupsInv /\ PeopleInv /\ Names(f, groups, venues, courts, person)
              /\ Walled(f, groups, courts) /\ Writable(f) /\ Writes(f)
              /\ Decided(f, groups, members)
              /\ f.caller = u /\ f.at = v /\ f.caller # Owner
<1>1. Ends(r) /\ r \notin stale /\ flight[r].caller = u /\ flight[r].at = v
  BY DEF Fresh
<1>2. CASE UNCHANGED <<legacy, organisation>>
  BY <1>2 DEF organisation
<1>3. CASE Commit(r)
  BY <1>1, <1>3, Ending DEF Placed
<1> QED BY <1>1, <1>2, <1>3, EndsBy

\* KeepsOwnWayIn: a request that nothing was committed beside never takes its own
\* caller's last way to manage groups at the venue (_refuse_self_lockout).
THEOREM WayInIsKept == Spec => KeepsOwnWayIn
<1> DEFINE Step == \A r \in Request, u \in User \ {Owner}, v \in DOMAIN venues :
         Fresh(r, u, v) /\ "USER:Manage" \in StaffCodes(u, v, NoGroup)
            => "USER:Manage" \in StaffCodes(u, v, NoGroup)'
<1>1. ASSUME OrganisationInv, [Next]_vars PROVE Step
  <2>1. ASSUME NEW r \in Request, NEW u \in User \ {Owner}, NEW v \in DOMAIN venues,
               Fresh(r, u, v), "USER:Manage" \in StaffCodes(u, v, NoGroup)
        PROVE  "USER:Manage" \in StaffCodes(u, v, NoGroup)'
    <3>1. CASE UNCHANGED <<groups, members, person>>
      BY <2>1, <3>1 DEF StaffCodes
    <3> DEFINE f == flight[r]
    <3>2. CASE /\ GroupsInv /\ PeopleInv /\ Names(f, groups, venues, courts, person)
               /\ Walled(f, groups, courts) /\ Writable(f) /\ Writes(f)
               /\ Decided(f, groups, members)
               /\ f.caller = u /\ f.at = v /\ f.caller # Owner
      <4> HIDE DEF f
      <4> QED BY <2>1, <3>2, WayInStays
    <3> QED BY <1>1, <2>1, <3>1, <3>2, FreshEnds
  <2> QED BY <2>1
<1> QED BY <1>1, OrganisationInvariant, PTL DEF Spec, KeepsOwnWayIn

\* SavesTouchWhatIsHeld: a save by anyone but the owner, fresh, leaves the codes
\* they do not hold as they were (set_permissions).
THEOREM SavesStayWithin == Spec => SavesTouchWhatIsHeld
<1> DEFINE Step == \A r \in Request, u \in User \ {Owner}, v \in DOMAIN venues, g \in DOMAIN groups :
         Fresh(r, u, v) /\ groups'[g].here =>
            groups'[g].codes \ StaffCodes(u, v, NoGroup)
                = groups[g].codes \ StaffCodes(u, v, NoGroup)
<1>1. ASSUME OrganisationInv, [Next]_vars PROVE Step
  <2>1. ASSUME NEW r \in Request, NEW u \in User \ {Owner}, NEW v \in DOMAIN venues,
               NEW g \in DOMAIN groups, Fresh(r, u, v), groups'[g].here
        PROVE  groups'[g].codes \ StaffCodes(u, v, NoGroup)
                  = groups[g].codes \ StaffCodes(u, v, NoGroup)
    <3>1. CASE UNCHANGED <<groups, members, person>>
      BY <3>1
    <3> DEFINE f == flight[r]
    <3>2. CASE /\ GroupsInv /\ PeopleInv /\ Names(f, groups, venues, courts, person)
               /\ Walled(f, groups, courts) /\ Writable(f) /\ Writes(f)
               /\ Decided(f, groups, members)
               /\ f.caller = u /\ f.at = v /\ f.caller # Owner
      <4> HIDE DEF f
      <4>1. groups[g] \in GroupRecord /\ groups \in Seq(GroupRecord)
        BY <3>2, GroupTyped DEF GroupsInv
      <4>2. groups'[g] # groups[g] =>
               f.op \in {"set_permissions", "rename_group", "delete_group"} /\ g = f.group
        BY <3>2, CommitGroups
      <4>3. CASE f.op = "set_permissions" /\ g = f.group
        <5>1. groups'[g].codes = f.codes
          BY <3>2, <4>3, SavedIs
        <5>2. f.codes \ CodesIn(groups, members, u, v, NoGroup)
                 = groups[g].codes \ CodesIn(groups, members, u, v, NoGroup)
          BY <3>2, <4>3 DEF Decided
        <5> QED BY <5>1, <5>2, StaffCodesIn
      <4>4. CASE f.op = "rename_group" /\ g = f.group
        <5>1. groups' = [groups EXCEPT ![g].name = f.name]
          BY <3>2, <4>4, GroupsWritten
        <5>2. groups'[g].codes = groups[g].codes
          BY <4>1, <5>1 DEF GroupRecord
        <5> QED BY <5>2
      <4>5. CASE f.op = "delete_group" /\ g = f.group
        <5>1. groups' = [groups EXCEPT ![g].here = FALSE, ![g].codes = {}]
          BY <3>2, <4>5, GroupsWritten
        <5>2. groups'[g].here = FALSE
          BY <4>1, <5>1 DEF GroupRecord
        <5> QED BY <2>1, <5>2
      <4> QED BY <4>2, <4>3, <4>4, <4>5
    <3> QED BY <1>1, <2>1, <3>1, <3>2, FreshEnds
  <2> QED BY <2>1
<1> QED BY <1>1, OrganisationInvariant, PTL DEF Spec, SavesTouchWhatIsHeld

\* ShutOutByTheirOwn: whom staff deactivate, fresh, is somebody else, in staff
\* groups of that venue only: no master, no customer, nobody of another venue
\* (_modifiable).
THEOREM ShutOutAtHome == Spec => ShutOutByTheirOwn
<1> DEFINE Step == \A r \in Request, u, w \in User \ {Owner}, v \in DOMAIN venues :
         Fresh(r, u, v) /\ person[w].active /\ ~ person'[w].active =>
            /\ w # u
            /\ \A g \in DOMAIN groups :
                  <<g, w>> \in members => groups[g].kind = "STAFF" /\ groups[g].venue = v
<1>1. ASSUME OrganisationInv, [Next]_vars PROVE Step
  <2>1. ASSUME NEW r \in Request, NEW u \in User \ {Owner}, NEW w \in User \ {Owner},
               NEW v \in DOMAIN venues,
               Fresh(r, u, v), person[w].active, ~ person'[w].active
        PROVE  /\ w # u
               /\ \A g \in DOMAIN groups :
                     <<g, w>> \in members => groups[g].kind = "STAFF" /\ groups[g].venue = v
    <3>1. CASE UNCHANGED <<groups, members, person>>
      BY <2>1, <3>1
    <3> DEFINE f == flight[r]
    <3>2. CASE /\ GroupsInv /\ PeopleInv /\ Names(f, groups, venues, courts, person)
               /\ Walled(f, groups, courts) /\ Writable(f) /\ Writes(f)
               /\ Decided(f, groups, members)
               /\ f.caller = u /\ f.at = v /\ f.caller # Owner
      <4> HIDE DEF f
      <4>1. /\ person \in [User -> [known : BOOLEAN, active : BOOLEAN, pending : BOOLEAN]]
            /\ person[w].known
        BY <2>1, <3>2 DEF PeopleInv
      <4>2. f.op = "update_user" /\ f.user = w
        <5>1. CASE f.op = "update_user"
          <6>1. person' = [person EXCEPT ![f.user].active = f.active]
            BY <3>2, <5>1, PersonWritten
          <6>2. f.user # w => person'[w] = person[w]
            BY <4>1, <6>1
          <6> QED BY <2>1, <5>1, <6>2
        <5>2. CASE f.op = "invite"
          <6>1. /\ person' = [person EXCEPT ![f.user] =
                                [known |-> TRUE, active |-> FALSE, pending |-> TRUE]]
                /\ ~ person[f.user].known
            BY <3>2, <5>2, PersonWritten, WritableSays
          <6>2. f.user # w => person'[w] = person[w]
            BY <4>1, <6>1
          <6> QED BY <2>1, <4>1, <6>1, <6>2
        <5>3. CASE f.op \notin {"update_user", "invite"}
          BY <2>1, <3>2, <5>3, PersonWritten
        <5> QED BY <5>1, <5>2, <5>3
      <4>3. /\ w # u
            /\ \A g \in DOMAIN groups :
                  <<g, w>> \in members => groups[g].kind # "MASTER" /\ groups[g].venue = v
        BY <3>2, <4>2 DEF Decided
      <4>4. v # NoVenue
        BY <3>2 DEF Walled, AllVenues, NoVenue
      <4>5. \A g \in DOMAIN groups : groups[g].kind \in GroupKind /\ GroupFits(g)
        BY <3>2, GroupTyped DEF GroupRecord
      <4> QED BY <4>3, <4>4, <4>5 DEF GroupKind, GroupFits
    <3> QED BY <1>1, <2>1, <3>1, <3>2, FreshEnds
  <2> QED BY <2>1
<1> QED BY <1>1, OrganisationInvariant, PTL DEF Spec, ShutOutByTheirOwn

-----------------------------------------------------------------------------
(* The roles, there and back.                                               *)

\* Every seeded group is one of the three kinds.
LEMMA SeededAt ==
    ASSUME NEW n \in Nat, NEW s, s = SeededGroups(n), NEW g \in DOMAIN s
    PROVE  \/ g = 1 /\ s[g] = Customers
           \/ \E v \in 1..n : g = 1 + v /\ s[g] = MasterOf(v)
           \/ \E v \in 1..n : g = 1 + n + v /\ s[g] = DeskOf(v)
<1>1. /\ s \in Seq(GroupRecord) /\ Len(s) = 1 + n + n /\ s[1] = Customers
      /\ \A v \in 1..n : s[1 + v] = MasterOf(v) /\ s[1 + n + v] = DeskOf(v)
  BY SeededIs
<1>2. g \in 1..(1 + n + n)
  BY <1>1
<1>3. g = 1 \/ g \in 2..(1 + n) \/ g \in (2 + n)..(1 + n + n)
  BY <1>2
<1>4. CASE g = 1
  BY <1>1, <1>4
<1>5. CASE g \in 2..(1 + n)
  <2>1. g - 1 \in 1..n /\ g = 1 + (g - 1)
    BY <1>5
  <2> QED BY <1>1, <2>1
<1>6. CASE g \in (2 + n)..(1 + n + n)
  <2>1. g - 1 - n \in 1..n /\ g = 1 + n + (g - 1 - n)
    BY <1>6
  <2> QED BY <1>1, <2>1
<1> QED BY <1>3, <1>4, <1>5, <1>6

\* The codes a role gives at its venue.
RoleCodes(role) == IF role = "PLAYER" THEN {} ELSE ROLE_PERMISSIONS[role]

KindOfRole(role) ==
    CASE role = "PLAYER" -> "CUSTOMER"
      [] role = "VENUE_MANAGER" -> "MASTER"
      [] OTHER -> "STAFF"

\* The user's one group, which stands for their role.
Home(list, ms, u, role, h) ==
    /\ \A g \in DOMAIN list : <<g, u>> \in ms <=> g = h
    /\ list[h].kind = KindOfRole(role.role) /\ list[h].venue = role.venue
    /\ list[h].codes = RoleCodes(role.role)

\* 0006 puts everybody with a role in exactly one group.
LEMMA OneHome ==
    ASSUME NEW roles \in Legacies, NEW s, s = SeededGroups(Venues), NEW u \in DOMAIN roles
    PROVE  /\ \E h \in DOMAIN s : Home(s, BackfillMembers(roles, s), u, roles[u], h)
           /\ u # Owner /\ roles[u].venue \in Nat
           /\ \/ roles[u].role = "PLAYER" /\ roles[u].venue = NoVenue
              \/ roles[u].role \in {"VENUE_MANAGER", "VENUE_STAFF"} /\ roles[u].venue # NoVenue
           /\ roles[u] = [role |-> roles[u].role, venue |-> roles[u].venue]
<1> DEFINE n == Venues
           ms == BackfillMembers(roles, s)
           a == roles[u].role
           v == roles[u].venue
<1>1. n \in Nat \ {0} /\ roles \in Legacy(User \ (Newcomer \cup {Owner}), 1..n)
  BY OrganisationAssumption
<1>2. u # Owner /\ \/ roles[u] \in [role : {"PLAYER"}, venue : {NoVenue}]
                   \/ roles[u] \in [role : {"VENUE_MANAGER", "VENUE_STAFF"}, venue : 1..n]
  BY <1>1 DEF Legacy
<1>3. roles[u] = [role |-> a, venue |-> v]
  BY <1>2
<1>4. \/ a = "PLAYER" /\ v = NoVenue
      \/ a \in {"VENUE_MANAGER", "VENUE_STAFF"} /\ v \in 1..n
  BY <1>2
<1>5. \A g \in DOMAIN s : <<g, u>> \in ms <=>
         \/ a = "PLAYER" /\ s[g].kind = "CUSTOMER"
         \/ a = "VENUE_MANAGER" /\ s[g].kind = "MASTER" /\ s[g].venue = v
         \/ a = "VENUE_STAFF" /\ s[g].kind = "STAFF" /\ s[g].venue = v
  BY DEF BackfillMembers, Enrol
<1>6. \A g \in DOMAIN s :
         \/ g = 1 /\ s[g] = Customers
         \/ \E x \in 1..n : g = 1 + x /\ s[g] = MasterOf(x)
         \/ \E x \in 1..n : g = 1 + n + x /\ s[g] = DeskOf(x)
  BY <1>1, SeededAt
<1>7. /\ DOMAIN s = 1..(1 + n + n) /\ s[1] = Customers
      /\ \A x \in 1..n : s[1 + x] = MasterOf(x) /\ s[1 + n + x] = DeskOf(x)
  <2>1. /\ s \in Seq(GroupRecord) /\ Len(s) = 1 + n + n /\ s[1] = Customers
        /\ \A x \in 1..n : s[1 + x] = MasterOf(x) /\ s[1 + n + x] = DeskOf(x)
    BY <1>1, SeededIs
  <2> QED BY <2>1
<1>8. /\ Customers.kind = "CUSTOMER" /\ Customers.venue = NoVenue /\ Customers.codes = {}
      /\ \A x : /\ MasterOf(x).kind = "MASTER" /\ MasterOf(x).venue = x
                /\ MasterOf(x).codes = MASTER_DEFAULT_CODES
                /\ DeskOf(x).kind = "STAFF" /\ DeskOf(x).venue = x
                /\ DeskOf(x).codes = FRONT_DESK_CODES
  BY DEF Customers, MasterOf, DeskOf, Group
<1>9. /\ RoleCodes("PLAYER") = {} /\ RoleCodes("VENUE_MANAGER") = MASTER_DEFAULT_CODES
      /\ RoleCodes("VENUE_STAFF") = FRONT_DESK_CODES
  BY DEF RoleCodes, ROLE_PERMISSIONS, MASTER_DEFAULT_CODES, FRONT_DESK_CODES
<1>10. /\ KindOfRole("PLAYER") = "CUSTOMER" /\ KindOfRole("VENUE_MANAGER") = "MASTER"
       /\ KindOfRole("VENUE_STAFF") = "STAFF"
  BY DEF KindOfRole
<1> HIDE DEF n, ms, a, v
<1>11. CASE a = "PLAYER"
  <2>1. v = NoVenue
    BY <1>4, <1>11
  <2>2. 1 \in DOMAIN s
    BY <1>1, <1>7
  <2>3. \A g \in DOMAIN s : <<g, u>> \in ms <=> g = 1
    <3>1. ASSUME NEW g \in DOMAIN s PROVE <<g, u>> \in ms <=> s[g].kind = "CUSTOMER"
      BY <1>5, <1>11
    <3>2. ASSUME NEW g \in DOMAIN s, s[g].kind = "CUSTOMER" PROVE g = 1
      BY <1>6, <1>8, <3>2
    <3>3. s[1].kind = "CUSTOMER"
      BY <1>7, <1>8
    <3> QED BY <3>1, <3>2, <3>3
  <2>4. Home(s, ms, u, roles[u], 1)
    BY <1>7, <1>8, <1>9, <1>10, <1>11, <2>1, <2>3 DEF Home, a, v
  <2> QED BY <1>2, <1>3, <1>11, <2>1, <2>2, <2>4 DEF ms, a, v, NoVenue
<1>12. CASE a = "VENUE_MANAGER"
  <2>1. v \in 1..n /\ v \in Nat /\ v # NoVenue
    BY <1>1, <1>4, <1>12 DEF NoVenue
  <2>2. 1 + v \in DOMAIN s
    BY <1>1, <1>7, <2>1
  <2>3. \A g \in DOMAIN s : <<g, u>> \in ms <=> g = 1 + v
    <3>1. ASSUME NEW g \in DOMAIN s PROVE <<g, u>> \in ms <=> s[g].kind = "MASTER" /\ s[g].venue = v
      BY <1>5, <1>12
    <3>2. ASSUME NEW g \in DOMAIN s, s[g].kind = "MASTER", s[g].venue = v PROVE g = 1 + v
      BY <1>6, <1>8, <3>2
    <3>3. s[1 + v].kind = "MASTER" /\ s[1 + v].venue = v
      BY <1>7, <1>8, <2>1
    <3> QED BY <3>1, <3>2, <3>3
  <2>4. Home(s, ms, u, roles[u], 1 + v)
    BY <1>7, <1>8, <1>9, <1>10, <1>12, <2>1, <2>3 DEF Home, a, v
  <2> QED BY <1>2, <1>3, <1>12, <2>1, <2>2, <2>4 DEF ms, a, v
<1>13. CASE a = "VENUE_STAFF"
  <2>1. v \in 1..n /\ v \in Nat /\ v # NoVenue
    BY <1>1, <1>4, <1>13 DEF NoVenue
  <2>2. 1 + n + v \in DOMAIN s
    BY <1>1, <1>7, <2>1
  <2>3. \A g \in DOMAIN s : <<g, u>> \in ms <=> g = 1 + n + v
    <3>1. ASSUME NEW g \in DOMAIN s PROVE <<g, u>> \in ms <=> s[g].kind = "STAFF" /\ s[g].venue = v
      BY <1>5, <1>13
    <3>2. ASSUME NEW g \in DOMAIN s, s[g].kind = "STAFF", s[g].venue = v PROVE g = 1 + n + v
      BY <1>6, <1>8, <3>2
    <3>3. s[1 + n + v].kind = "STAFF" /\ s[1 + n + v].venue = v
      BY <1>7, <1>8, <2>1
    <3> QED BY <3>1, <3>2, <3>3
  <2>4. Home(s, ms, u, roles[u], 1 + n + v)
    BY <1>7, <1>8, <1>9, <1>10, <1>13, <2>1, <2>3 DEF Home, a, v
  <2> QED BY <1>2, <1>3, <1>13, <2>1, <2>2, <2>4 DEF ms, a, v
<1> QED BY <1>4, <1>11, <1>12, <1>13

\* The downgrade finds the role in the one group.
LEMMA PickedIs ==
    ASSUME NEW list, NEW ms, NEW u, NEW h \in DOMAIN list,
           \A g \in DOMAIN list : <<g, u>> \in ms <=> g = h, list[h].venue \in Nat
    PROVE  Picked(list, ms, u) = h
<1>1. {g \in DOMAIN list : <<g, u>> \in ms} = {h}
  OBVIOUS
<1>2. list[h].kind = list[h].kind /\ list[h].venue <= list[h].venue
  OBVIOUS
<1> QED BY <1>1, <1>2 DEF Picked

\* RolesRoundTrip: 0006 puts everybody with a role in the one group that gives its
\* codes at their venue, and 0007's downgrade finds the same role again.
THEOREM RolesSurvive == Spec => []RolesRoundTrip
<1>1. ASSUME OrganisationInv PROVE RolesRoundTrip
  <2> DEFINE s == SeededGroups(Venues)
  <2>1. ASSUME groups = s, members = BackfillMembers(legacy, s), NEW u \in DOMAIN legacy
        PROVE  /\ RoleAfterDowngrade(groups, members, Owner, u) = legacy[u]
               /\ RestoredPermissions(legacy[u].role) = ROLE_PERMISSIONS[legacy[u].role]
               /\ \A v \in 1..Venues :
                     StaffCodes(u, v, NoGroup) =
                       IF v = legacy[u].venue THEN ROLE_PERMISSIONS[legacy[u].role] ELSE {}
    <3> DEFINE a == legacy[u].role
               x == legacy[u].venue
    <3>1. legacy \in Legacies
      BY <1>1 DEF OrganisationInv, PeopleInv
    <3>2. /\ \E h \in DOMAIN s : Home(s, BackfillMembers(legacy, s), u, legacy[u], h)
          /\ u # Owner /\ x \in Nat
          /\ \/ a = "PLAYER" /\ x = NoVenue
             \/ a \in {"VENUE_MANAGER", "VENUE_STAFF"} /\ x # NoVenue
          /\ legacy[u] = [role |-> a, venue |-> x]
      BY <3>1, OneHome
    <3>3. PICK h \in DOMAIN groups : Home(groups, members, u, legacy[u], h)
      BY <2>1, <3>2
    <3>4. /\ \A g \in DOMAIN groups : <<g, u>> \in members <=> g = h
          /\ groups[h].kind = KindOfRole(a) /\ groups[h].venue = x /\ groups[h].codes = RoleCodes(a)
      BY <3>3 DEF Home
    <3> HIDE DEF s
    <3>5. RoleAfterDowngrade(groups, members, Owner, u) = legacy[u]
      <4>1. Picked(groups, members, u) = h
        BY <3>2, <3>4, PickedIs
      <4>2. RoleOfKind[groups[h].kind] = a
        BY <3>2, <3>4 DEF RoleOfKind, KindOfRole
      <4>3. RoleAfterDowngrade(groups, members, Owner, u)
               = [role |-> RoleOfKind[groups[h].kind], venue |-> groups[h].venue]
        BY <3>2, <3>4, <4>1 DEF RoleAfterDowngrade
      <4> QED BY <3>2, <3>4, <4>2, <4>3
    <3>6. RestoredPermissions(a) = ROLE_PERMISSIONS[a]
      <4>1. DOMAIN ROLE_CODES = {"VENUE_MANAGER", "VENUE_STAFF"}
        BY DEF ROLE_CODES
      <4>2. ROLE_PERMISSIONS["PLAYER"] = {}
        BY DEF ROLE_PERMISSIONS
      <4>3. ROLE_CODES["VENUE_MANAGER"] = ROLE_PERMISSIONS["VENUE_MANAGER"]
        BY DEF ROLE_CODES, ROLE_PERMISSIONS
      <4>4. ROLE_CODES["VENUE_STAFF"] = ROLE_PERMISSIONS["VENUE_STAFF"]
        BY DEF ROLE_CODES, ROLE_PERMISSIONS
      <4>5. CASE a = "PLAYER"
        BY <4>1, <4>2, <4>5 DEF RestoredPermissions
      <4>6. CASE a \in {"VENUE_MANAGER", "VENUE_STAFF"}
        BY <4>1, <4>3, <4>4, <4>6 DEF RestoredPermissions
      <4> QED BY <3>2, <4>5, <4>6
    <3>7. ASSUME NEW v \in 1..Venues
          PROVE  StaffCodes(u, v, NoGroup) = IF v = x THEN ROLE_PERMISSIONS[a] ELSE {}
      <4> DEFINE mine == {g \in DOMAIN groups : /\ <<g, u>> \in members /\ g # NoGroup
                                                /\ groups[g].kind # "CUSTOMER" /\ groups[g].venue = v}
      <4>1. StaffCodes(u, v, NoGroup) = UNION {groups[g].codes : g \in mine}
        BY DEF StaffCodes
      <4>2. h # NoGroup
        BY <1>1 DEF OrganisationInv, GroupsInv, NoGroup
      <4>3. v # NoVenue
        BY DEF NoVenue
      <4>4. CASE v = x
        <5>1. a \in {"VENUE_MANAGER", "VENUE_STAFF"}
          BY <3>2, <4>3, <4>4
        <5>2. groups[h].kind # "CUSTOMER" /\ groups[h].codes = ROLE_PERMISSIONS[a]
          BY <3>4, <5>1 DEF KindOfRole, RoleCodes
        <5>3. mine = {h}
          BY <3>4, <4>2, <4>4, <5>2
        <5> HIDE DEF mine
        <5> QED BY <4>1, <4>4, <5>2, <5>3
      <4>5. CASE v # x
        <5>1. mine = {}
          BY <3>4, <4>5
        <5> HIDE DEF mine
        <5> QED BY <4>1, <4>5, <5>1
      <4> QED BY <4>4, <4>5
    <3> QED BY <3>5, <3>6, <3>7
  <2> QED BY <2>1 DEF RolesRoundTrip
<1> QED BY <1>1, OrganisationInvariant, PTL
=============================================================================
