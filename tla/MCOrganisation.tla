--------------------------- MODULE MCOrganisation ---------------------------
(* Two venues, the owner, two people with a role, one without an account.    *)
EXTENDS Organisation, TLC

CONSTANTS owner, ann, ben, cat, r1, r2

Role(role, venue) == [role |-> role, venue |-> venue]

Manager(v) == Role("VENUE_MANAGER", v)
Staff(v) == Role("VENUE_STAFF", v)
Player == Role("PLAYER", NoVenue)

\* Ann runs the first venue; Ben is anything.
AnnManages ==
    {ann :> Manager(1) @@ ben :> role : role \in {Staff(1), Manager(2), Player}}

\* Two more groups at the first venue, whose members may manage groups only.
Leads == Group("STAFF", 1, "Leads", {"USER:Manage"})
Coaches == Group("STAFF", 1, "Coaches", {"USER:Manage"})

\* As migrated; Ben is in both, and at the desk of the second venue.
Lately ==
    {[groups |-> <<>>, members |-> {}],
     [groups |-> <<Leads, Coaches>>, members |-> {<<6, ben>>, <<7, ben>>, <<5, ben>>}]}

Forms == {{}, {"USER:Manage"}, {"USER:Manage", "VENUE:Manage"}}

Everything ==
    {"create_group", "rename_group", "delete_group", "set_permissions", "add_member",
     "remove_member", "invite", "update_user", "create_venue", "update_venue", "create_court",
     "update_court"}

Interchangeable == Permutations({r1, r2})
=============================================================================
