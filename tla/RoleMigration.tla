--------------------------- MODULE RoleMigration ---------------------------
(***************************************************************************)
(* Permission codes, the groups every venue starts with, and the move from  *)
(* one role per user (migration 0002) to groups (0006), and back (0007).    *)
(* Only definitions: Organisation starts from what they produce.            *)
(***************************************************************************)
EXTENDS Integers, Sequences

PERMISSIONS ==
    {"VENUE:Manage", "COURT:Manage", "PRICE:Manage", "CLOSURE:Manage", "BOOKING:ReadAny",
     "BOOKING:CreateWalkIn", "BOOKING:MarkPaid", "BOOKING:SetOutcome", "BOOKING:CancelAny",
     "USER:Manage", "PARAMETER:Manage"}

GroupKind == {"CUSTOMER", "MASTER", "STAFF"}

\* Held through users.system_admin alone.
OWNER_ONLY == {"VENUE:Manage", "PARAMETER:Manage"}

BookingOps ==
    {"BOOKING:ReadAny", "BOOKING:CreateWalkIn", "BOOKING:MarkPaid", "BOOKING:SetOutcome",
     "BOOKING:CancelAny"}

MASTER_DEFAULT_CODES ==
    {"COURT:Manage", "PRICE:Manage", "CLOSURE:Manage", "USER:Manage"} \cup BookingOps

FRONT_DESK_CODES == {"CLOSURE:Manage"} \cup BookingOps

\* No venue, as NULL in venue_id.
NoVenue == 0

\* A group's id is its place in the sequence; a deleted one is not here.
Group(kind, venue, name, codes) ==
    [kind |-> kind, venue |-> venue, name |-> name, codes |-> codes, here |-> TRUE]

\* seed_venue_groups, in the transaction that creates the venue.
SeedVenueGroups(v) ==
    << Group("MASTER", v, "Venue master", MASTER_DEFAULT_CODES),
       Group("STAFF", v, "Front desk", FRONT_DESK_CODES) >>

-----------------------------------------------------------------------------
(* Roles.                                                                   *)

\* role_permissions as 0002 seeds it from ROLE_PERMISSIONS.
ROLE_PERMISSIONS ==
    [SUPER_ADMIN |-> {},
     VENUE_MANAGER |-> {"COURT:Manage", "PRICE:Manage", "CLOSURE:Manage", "USER:Manage"}
                       \cup BookingOps,
     VENUE_STAFF |-> {"CLOSURE:Manage"} \cup BookingOps,
     PLAYER |-> {}]

\* _ROLE_CODES, with which 0007's downgrade fills role_permissions again.
ROLE_CODES ==
    [VENUE_MANAGER |-> {"COURT:Manage", "PRICE:Manage", "CLOSURE:Manage", "USER:Manage"}
                       \cup BookingOps,
     VENUE_STAFF |-> {"CLOSURE:Manage"} \cup BookingOps]

RestoredPermissions(role) == IF role \in DOMAIN ROLE_CODES THEN ROLE_CODES[role] ELSE {}

\* users.role_id and users.venue_id: the two roles of a venue have one.
Legacy(users, venues) ==
    [users -> [role : {"PLAYER"}, venue : {NoVenue}]
              \cup [role : {"VENUE_MANAGER", "VENUE_STAFF"}, venue : venues]]

\* 0006: the one Customer group, every venue's master, then every front desk.
SeededGroups(n) ==
    <<Group("CUSTOMER", NoVenue, "Customer", {})>>
    \o [v \in 1..n |-> Group("MASTER", v, "Venue master", MASTER_DEFAULT_CODES)]
    \o [v \in 1..n |-> Group("STAFF", v, "Front desk", FRONT_DESK_CODES)]

\* Mutant of Enrol: the join forgets the venue.
EnrolAnywhere(roles, groups, role, kind) ==
    {m \in (DOMAIN groups) \X (DOMAIN roles) :
        roles[m[2]].role = role /\ groups[m[1]].kind = kind}

\* _enrol: the group of that kind at the user's own venue.
Enrol(roles, groups, role, kind) ==
    {m \in (DOMAIN groups) \X (DOMAIN roles) :
        /\ roles[m[2]].role = role /\ groups[m[1]].kind = kind
        /\ groups[m[1]].venue = roles[m[2]].venue}

\* Memberships are pairs of a group and a user.
BackfillMembers(roles, groups) ==
    {m \in (DOMAIN groups) \X (DOMAIN roles) :
        roles[m[2]].role = "PLAYER" /\ groups[m[1]].kind = "CUSTOMER"}
    \cup Enrol(roles, groups, "VENUE_MANAGER", "MASTER")
    \cup Enrol(roles, groups, "VENUE_STAFF", "STAFF")

\* 0007's downgrade: master, then staff, then customer, then the first venue.
KindRank == [MASTER |-> 0, STAFF |-> 1, CUSTOMER |-> 2]

RoleOfKind == [MASTER |-> "VENUE_MANAGER", STAFF |-> "VENUE_STAFF", CUSTOMER |-> "PLAYER"]

Picked(groups, members, u) ==
    LET mine == {g \in DOMAIN groups : <<g, u>> \in members}
    IN CHOOSE g \in mine : \A h \in mine :
          \/ KindRank[groups[g].kind] < KindRank[groups[h].kind]
          \/ /\ groups[g].kind = groups[h].kind
             /\ groups[g].venue <= groups[h].venue

RoleAfterDowngrade(groups, members, owner, u) ==
    IF u = owner THEN [role |-> "SUPER_ADMIN", venue |-> NoVenue]
    ELSE IF \E g \in DOMAIN groups : <<g, u>> \in members
    THEN LET g == groups[Picked(groups, members, u)]
         IN [role |-> RoleOfKind[g.kind], venue |-> g.venue]
    ELSE [role |-> "PLAYER", venue |-> NoVenue]
=============================================================================
