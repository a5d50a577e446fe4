---------------------------- MODULE Organisation ----------------------------
(***************************************************************************)
(* Venues, their courts, and the groups that say who may do what at which   *)
(* venue (users/group_service.py, users/service.py, auth/access.py,         *)
(* venues/service.py, courts/service.py).                                  *)
(*                                                                         *)
(* A request reads and decides (its action), then writes and commits        *)
(* (Commit): nothing is locked between the two.  What it decided from may    *)
(* have changed meanwhile; `stale' remembers for whom it has.  An operation  *)
(* refused by its checks changes nothing and is not a step.                 *)
(***************************************************************************)
EXTENDS RoleMigration, FiniteSets

CONSTANTS
    User, Owner,    \* Owner is the one with users.system_admin
    Newcomer,       \* those without an account yet
    Legacies,       \* the roles 0006 may find
    Request,        \* handler runs that may overlap
    Venues,         \* venues there are when 0006 runs
    Grown,          \* what was added to the migrated groups: [groups, members]
    Requested,      \* code sets that are submitted
    Name,           \* group names that are submitted
    Operation,      \* the operations an instance explores
    MaxChanges      \* bound on requests

\* A group and a member that may have been added since 0006 ran.
Added(names) ==
    [kind : {"STAFF"}, venue : 1..Venues, name : names,
     codes : SUBSET (PERMISSIONS \ OWNER_ONLY), here : {TRUE}]

NamesIn(list) == {list[g].name : g \in DOMAIN list}

ASSUME OrganisationAssumption ==
    /\ Owner \in User /\ Newcomer \subseteq User \ {Owner}
    /\ Legacies \subseteq Legacy(User \ (Newcomer \cup {Owner}), 1..Venues)
    /\ Venues \in Nat \ {0} /\ MaxChanges \in Nat
    /\ Requested \subseteq SUBSET PERMISSIONS
    /\ \A grown \in Grown :
          LET all == SeededGroups(Venues) \o grown.groups IN
          /\ grown.groups \in Seq(Added(NamesIn(grown.groups)))
          /\ grown.members \subseteq (DOMAIN all) \X (User \ Newcomer)
          /\ \A g, h \in DOMAIN all :
                all[g].venue = all[h].venue /\ all[g].name = all[h].name => g = h

VARIABLES
    legacy,         \* the roles 0006 found
    venues,         \* venue id -> how often it was updated
    courts,         \* court id -> [venue, edits]
    groups,         \* user_groups with user_group_permissions
    members,        \* user_group_members: pairs of a group and a user
    person,         \* users: [known, active, pending], pending while without a password
    flight,         \* what each request has decided to do
    stale,          \* requests that another one committed beside
    changes         \* requests begun

organisation == <<venues, courts, groups, members, person>>
vars == <<legacy, organisation, flight, stale, changes>>

Idle == [op |-> "idle"]
Flight(r) == flight[r].op # "idle"

Here(g) == g \in DOMAIN groups /\ groups[g].here

-----------------------------------------------------------------------------
(* Who may do what, where.                                                  *)

\* What staff_codes returns: the codes of a user's groups at a venue.
StaffCodes(u, venue, excluding) ==
    UNION {groups[g].codes : g \in {h \in DOMAIN groups :
        /\ <<h, u>> \in members /\ h # excluding
        /\ groups[h].kind # "CUSTOMER" /\ groups[h].venue = venue}}

NoGroup == 0

StaffVenues(u) ==
    {groups[g].venue : g \in {h \in DOMAIN groups :
        <<h, u>> \in members /\ groups[h].kind # "CUSTOMER"}}

AllVenues == 0

\* get_venue_access: the scopes X-Venue-ID (or its absence) can resolve to.
Scopes(u) == IF u = Owner THEN {AllVenues} ELSE StaffVenues(u)

Permissions(u, at) == IF u = Owner THEN PERMISSIONS ELSE StaffCodes(u, at, NoGroup)

\* VenueScope.where on a venue_id column.
Covers(at, venue) == at = AllVenues \/ venue = at

IsMasterAt(u, venue) ==
    \E g \in DOMAIN groups :
        <<g, u>> \in members /\ groups[g].kind = "MASTER" /\ groups[g].venue = venue

BelongsElsewhere(u, venue) ==
    \E g \in DOMAIN groups : <<g, u>> \in members /\ groups[g].venue # venue

\* Only an active account with a password has an access token that works.
SignedIn(u) == person[u].active /\ ~ person[u].pending

\* get_current_user, get_venue_access and require_permission.
Guarded(u, at, code) ==
    SignedIn(u) /\ at \in Scopes(u) /\ code \in Permissions(u, at)

\* get: out of scope reads as not there.
Visible(at, g) == Here(g) /\ Covers(at, groups[g].venue)

Editable(u, at, g) ==
    Visible(at, g) /\ (groups[g].kind = "MASTER" => u = Owner)

\* Mutant of Fillable: any group the caller sees.
FillableIfVisible(u, at, g) == Visible(at, g)

\* _fillable: who is a master or a customer is the owner's to say.
Fillable(u, at, g) ==
    Visible(at, g) /\ (groups[g].kind # "STAFF" => u = Owner)

\* Mutant of SelfLockout: the group counts itself.
SelfLockoutCountingAll(u, at, g) ==
    <<g, u>> \in members /\ "USER:Manage" \notin StaffCodes(u, at, NoGroup)

\* _refuse_self_lockout.
SelfLockout(u, at, g) ==
    <<g, u>> \in members /\ "USER:Manage" \notin StaffCodes(u, at, g)

-----------------------------------------------------------------------------
(* The two steps of a request.                                              *)

\* what: who asked for what, where, and what it will write.
Begin(r, what) ==
    /\ what.op \in Operation
    /\ flight' = [flight EXCEPT ![r] = what]
    /\ changes' = changes + 1
    /\ UNCHANGED <<legacy, organisation, stale>>

\* A crash, a lost connection, or a constraint of the database that refuses
\* the write: nothing is changed.
Abort(r) ==
    /\ Flight(r)
    /\ flight' = [flight EXCEPT ![r] = Idle]
    /\ stale' = stale \ {r}
    /\ UNCHANGED <<legacy, organisation, changes>>

\* uq_user_groups_venue_name.
NameFree(venue, name, g) ==
    \A h \in DOMAIN groups :
        Here(h) /\ h # g => groups[h].venue # venue \/ groups[h].name # name

\* The codes after set_codes: the DELETE removes the rows it saw (the rest was
\* inserted beside it), the INSERT adds the decided ones.
CodesAfter(f) == (groups[f.group].codes \ f.swept) \cup f.codes

\* The foreign keys, the primary keys and the unique index let it be written.
\* A group deleted since it was read is an error of every write to it.
Writable(f) ==
    CASE f.op = "set_permissions" ->
            Here(f.group) /\ f.stage = "commit"
            /\ (groups[f.group].codes \ f.swept) \cap f.codes = {}
      [] f.op = "add_member" -> Here(f.group) /\ <<f.group, f.user>> \notin members
      [] f.op = "invite" -> Here(f.group) /\ ~ person[f.user].known
      [] f.op = "remove_member" -> <<f.group, f.user>> \in members
      [] f.op = "rename_group" ->
            Here(f.group) /\ NameFree(groups[f.group].venue, f.name, f.group)
      [] f.op = "create_group" -> NameFree(f.venue, f.name, NoGroup)
      [] f.op = "delete_group" -> Here(f.group)
      [] OTHER -> TRUE

GroupsAfter(f) ==
    CASE f.op = "set_permissions" -> [groups EXCEPT ![f.group].codes = CodesAfter(f)]
      [] f.op = "rename_group" -> [groups EXCEPT ![f.group].name = f.name]
      [] f.op = "create_group" -> Append(groups, Group("STAFF", f.venue, f.name, {}))
      [] f.op = "delete_group" -> [groups EXCEPT ![f.group].here = FALSE, ![f.group].codes = {}]
      [] f.op = "create_venue" -> groups \o SeedVenueGroups(Len(venues) + 1)
      [] OTHER -> groups

\* ON DELETE CASCADE takes a deleted group's memberships with it.
MembersAfter(f) ==
    CASE f.op \in {"add_member", "invite"} -> members \cup {<<f.group, f.user>>}
      [] f.op = "remove_member" -> members \ {<<f.group, f.user>>}
      [] f.op = "delete_group" -> {m \in members : m[1] # f.group}
      [] OTHER -> members

\* An unset is_active leaves the row; what an invitation becomes is in Accounts.
PersonAfter(f) ==
    CASE f.op = "update_user" -> [person EXCEPT ![f.user].active = f.active]
      [] f.op = "invite" ->
            [person EXCEPT ![f.user] = [known |-> TRUE, active |-> FALSE, pending |-> TRUE]]
      [] OTHER -> person

CourtsAfter(f) ==
    CASE f.op = "create_court" -> Append(courts, [venue |-> f.venue, edits |-> 0])
      [] f.op = "update_court" -> [courts EXCEPT ![f.court].edits = @ + 1]
      [] OTHER -> courts

VenuesAfter(f) ==
    CASE f.op = "create_venue" -> Append(venues, 0)
      [] f.op = "update_venue" -> [venues EXCEPT ![f.venue] = @ + 1]
      [] OTHER -> venues

Commit(r) ==
    LET f == flight[r] IN
    /\ Flight(r) /\ Writable(f)
    /\ groups' = GroupsAfter(f)
    /\ members' = MembersAfter(f)
    /\ person' = PersonAfter(f)
    /\ courts' = CourtsAfter(f)
    /\ venues' = VenuesAfter(f)
    /\ flight' = [flight EXCEPT ![r] = Idle]
    /\ stale' = (stale \cup {q \in Request : Flight(q)}) \ {r}
    /\ UNCHANGED <<legacy, changes>>

-----------------------------------------------------------------------------
(* Groups.                                                                  *)

\* The owner names the venue, anyone else acts at one.
CreateGroup(r, u, at, venue, name) ==
    /\ venue \in DOMAIN venues /\ Covers(at, venue)
    /\ Begin(r, [op |-> "create_group", caller |-> u, at |-> at, venue |-> venue, name |-> name])

RenameGroup(r, u, at, g, name) ==
    /\ Editable(u, at, g)
    /\ groups[g].kind # "CUSTOMER"
    /\ Begin(r, [op |-> "rename_group", caller |-> u, at |-> at, group |-> g, name |-> name])

\* Mutant of Deletable: a group with members is deleted too.
DeletableIfStaff(u, at, g) == Editable(u, at, g) /\ groups[g].kind = "STAFF"

Deletable(u, at, g) ==
    /\ Editable(u, at, g) /\ groups[g].kind = "STAFF"
    /\ \A w \in User : <<g, w>> \notin members

DeleteGroup(r, u, at, g) ==
    /\ Deletable(u, at, g)
    /\ Begin(r, [op |-> "delete_group", caller |-> u, at |-> at, group |-> g])

\* Mutant of FinalCodes: what was submitted, whoever submitted it.
FinalCodesAsAsked(u, at, g, requested) == requested

\* Only what the caller holds is touched.
FinalCodes(u, at, g, requested) ==
    IF u = Owner THEN requested
    ELSE (requested \cap Permissions(u, at)) \cup (groups[g].codes \ Permissions(u, at))

\* Mutant of Grantable: owner-only codes pass for the owner.
GrantableByOwner(u, at, g, requested) ==
    u # Owner => requested \ groups[g].codes \subseteq Permissions(u, at)

Grantable(u, at, g, requested) ==
    /\ requested \cap OWNER_ONLY = {}
    /\ groups[g].kind = "CUSTOMER" => requested = {}
    /\ u # Owner => requested \ groups[g].codes \subseteq Permissions(u, at)

SetPermissions(r, u, at, g, requested) ==
    /\ Editable(u, at, g)
    /\ Grantable(u, at, g, requested)
    /\ LET final == FinalCodes(u, at, g, requested) IN
       /\ u # Owner /\ "USER:Manage" \in groups[g].codes \ final => ~ SelfLockout(u, at, g)
       /\ Begin(r, [op |-> "set_permissions", caller |-> u, at |-> at, group |-> g,
                    codes |-> final, swept |-> {}, stage |-> "sweep"])

\* The DELETE of set_codes takes its snapshot.
Sweep(r) ==
    LET f == flight[r] IN
    /\ f.op = "set_permissions" /\ f.stage = "sweep" /\ Here(f.group)
    /\ flight' = [flight EXCEPT ![r].stage = "commit", ![r].swept = groups[f.group].codes]
    /\ UNCHANGED <<legacy, organisation, stale, changes>>

-----------------------------------------------------------------------------
(* Members and accounts.                                                    *)

AddMember(r, u, at, g, w) ==
    /\ Fillable(u, at, g) /\ person[w].known
    /\ person[w].active \/ person[w].pending
    /\ <<g, w>> \notin members
    /\ Begin(r, [op |-> "add_member", caller |-> u, at |-> at, group |-> g, user |-> w])

RemoveMember(r, u, at, g, w) ==
    /\ Fillable(u, at, g)
    /\ <<g, w>> \in members
    /\ u # Owner =>
          /\ IsMasterAt(u, at) \/ ~ IsMasterAt(w, groups[g].venue)
          /\ w = u /\ "USER:Manage" \in groups[g].codes => ~ SelfLockout(u, at, g)
    /\ Begin(r, [op |-> "remove_member", caller |-> u, at |-> at, group |-> g, user |-> w])

\* invitable_group, then invite.
Invite(r, u, at, g, w) ==
    /\ Visible(at, g) /\ ~ person[w].known
    /\ groups[g].kind = "STAFF" \/ (groups[g].kind = "MASTER" /\ u = Owner)
    /\ Begin(r, [op |-> "invite", caller |-> u, at |-> at, group |-> g, user |-> w])

\* Mutant of Modifiable: work elsewhere does not count.
ModifiableIfHere(u, at, w) ==
    /\ w # u
    /\ at = AllVenues \/ \E g \in DOMAIN groups : <<g, w>> \in members /\ groups[g].venue = at
    /\ u # Owner => ~ IsMasterAt(w, at)

\* _modifiable: somebody at the venue, who is neither the caller, nor its
\* master, nor anything elsewhere.
Modifiable(u, at, w) ==
    /\ w # u
    /\ at = AllVenues \/ \E g \in DOMAIN groups : <<g, w>> \in members /\ groups[g].venue = at
    /\ u # Owner => ~ IsMasterAt(w, at) /\ ~ BelongsElsewhere(w, at)

UpdateUser(r, u, at, w, active) ==
    /\ person[w].known /\ Modifiable(u, at, w)
    /\ Begin(r, [op |-> "update_user", caller |-> u, at |-> at, user |-> w, active |-> active])

\* The invited set their password (Accounts has the link).
Accept(w) ==
    /\ person[w].pending
    /\ person' = [person EXCEPT ![w].active = TRUE, ![w].pending = FALSE]
    /\ UNCHANGED <<legacy, venues, courts, groups, members, flight, stale, changes>>

-----------------------------------------------------------------------------
(* Venues and courts.                                                       *)

CreateVenue(r, u, at) ==
    Begin(r, [op |-> "create_venue", caller |-> u, at |-> at])

UpdateVenue(r, u, at, venue) ==
    /\ venue \in DOMAIN venues /\ Covers(at, venue)
    /\ Begin(r, [op |-> "update_venue", caller |-> u, at |-> at, venue |-> venue])

CreateCourt(r, u, at, venue) ==
    /\ venue \in DOMAIN venues /\ Covers(at, venue)
    /\ Begin(r, [op |-> "create_court", caller |-> u, at |-> at, venue |-> venue])

UpdateCourt(r, u, at, court) ==
    /\ Covers(at, courts[court].venue)
    /\ Begin(r, [op |-> "update_court", caller |-> u, at |-> at, court |-> court])

-----------------------------------------------------------------------------

\* 0006 runs on the roles of 0002; since then some groups and members came.
Init ==
    /\ legacy \in Legacies
    /\ \E grown \in Grown :
          /\ groups = SeededGroups(Venues) \o grown.groups
          /\ members = BackfillMembers(legacy, groups) \cup grown.members
    /\ venues = [v \in 1..Venues |-> 0]
    /\ courts = [v \in 1..Venues |-> [venue |-> v, edits |-> 0]]
    /\ person = [u \in User |-> [known |-> u \notin Newcomer, active |-> u \notin Newcomer,
                              pending |-> FALSE]]
    /\ flight = [r \in Request |-> Idle]
    /\ stale = {} /\ changes = 0

\* The routes behind each permission, tried by a request that is free.
ManageGroups(r, u, at) ==
    \/ \E v \in DOMAIN venues, name \in Name : CreateGroup(r, u, at, v, name)
    \/ \E g \in DOMAIN groups, name \in Name : RenameGroup(r, u, at, g, name)
    \/ \E g \in DOMAIN groups : DeleteGroup(r, u, at, g)
    \/ \E g \in DOMAIN groups, codes \in Requested : SetPermissions(r, u, at, g, codes)
    \/ \E g \in DOMAIN groups, w \in User : AddMember(r, u, at, g, w)
    \/ \E g \in DOMAIN groups, w \in User : RemoveMember(r, u, at, g, w)
    \/ \E g \in DOMAIN groups, w \in User : Invite(r, u, at, g, w)
    \/ \E w \in User, active \in BOOLEAN : UpdateUser(r, u, at, w, active)

ManageVenues(r, u, at) ==
    \/ CreateVenue(r, u, at)
    \/ \E v \in DOMAIN venues : UpdateVenue(r, u, at, v)

ManageCourts(r, u, at) ==
    \/ \E v \in DOMAIN venues : CreateCourt(r, u, at, v)
    \/ \E c \in DOMAIN courts : UpdateCourt(r, u, at, c)

Free(r) == ~ Flight(r) /\ changes < MaxChanges

Next ==
    \/ \E r \in Request :
          \/ /\ Free(r)
             /\ \E u \in User, at \in 0..Len(venues) :
                   \/ Guarded(u, at, "USER:Manage") /\ ManageGroups(r, u, at)
                   \/ Guarded(u, at, "VENUE:Manage") /\ ManageVenues(r, u, at)
                   \/ Guarded(u, at, "COURT:Manage") /\ ManageCourts(r, u, at)
          \/ Sweep(r)
          \/ Commit(r)
          \/ Abort(r)
    \/ \E w \in User : Accept(w)

Spec == Init /\ [][Next]_vars

-----------------------------------------------------------------------------
(* Properties.                                                              *)

\* The CHECK and the unique indexes of 0006, what a membership points at, and
\* "never grantable, by anyone": no group ever holds an owner-only code.
TypeOK ==
    /\ \A g \in DOMAIN groups :
          /\ groups[g].kind \in GroupKind
          /\ groups[g].venue \in 0..Len(venues)
          /\ (groups[g].kind = "CUSTOMER") <=> (groups[g].venue = NoVenue)
          /\ groups[g].codes \subseteq PERMISSIONS \ OWNER_ONLY
          /\ groups[g].kind = "CUSTOMER" => groups[g].codes = {}
          /\ Here(g) => NameFree(groups[g].venue, groups[g].name, g)
    /\ \A v \in 0..Len(venues) :
          Cardinality({g \in DOMAIN groups : groups[g].venue = v /\ groups[g].kind # "STAFF"}) = 1
    /\ \A m \in members : Here(m[1]) /\ m[2] \in User /\ person[m[2]].known

\* 0006 keeps everybody's rights: at each venue the groups give the codes the
\* role gave there, and as long as they are as 0006 left them, 0007's downgrade
\* finds the same role again ("preferring master, then staff, then customer"),
\* and gives it the codes it had.
RolesRoundTrip ==
    LET migrated == SeededGroups(Venues) IN
    groups = migrated /\ members = BackfillMembers(legacy, migrated) =>
        \A u \in DOMAIN legacy :
            /\ RoleAfterDowngrade(groups, members, Owner, u) = legacy[u]
            /\ RestoredPermissions(legacy[u].role) = ROLE_PERMISSIONS[legacy[u].role]
            /\ \A v \in 1..Venues :
                  StaffCodes(u, v, NoGroup) =
                    IF v = legacy[u].venue THEN ROLE_PERMISSIONS[legacy[u].role] ELSE {}

\* The step ends the request.
Ends(r) == Flight(r) /\ flight'[r] = Idle

\* It ends a request of u, at a venue, that nothing was committed beside.
Fresh(r, u, at) ==
    Ends(r) /\ r \notin stale /\ flight[r].caller = u /\ flight[r].at = at

\* delete: "nobody loses access by accident".  A membership goes only when a
\* request names it, or a group is deleted beside the addition.
NobodyLosesAccess ==
    [][\A m \in members \ members' :
         \E r \in Request :
            /\ Ends(r) /\ flight[r].op \in {"remove_member", "delete_group"}
            /\ flight[r].group = m[1]
            /\ flight[r].op = "remove_member" => flight[r].user = m[2]
            /\ flight[r].op = "delete_group" => r \in stale]_vars

\* "Nobody removes their own last way to manage groups at a venue", whatever
\* the request, unless another one was committed beside it.
KeepsOwnWayIn ==
    [][\A r \in Request, u \in User \ {Owner}, v \in DOMAIN venues :
         Fresh(r, u, v) /\ "USER:Manage" \in StaffCodes(u, v, NoGroup)
            => "USER:Manage" \in StaffCodes(u, v, NoGroup)']_vars

\* A save by anyone but the owner leaves the codes they do not hold as they
\* were in a group that stays, unless another request was committed beside it.
SavesTouchWhatIsHeld ==
    [][\A r \in Request, u \in User \ {Owner}, v \in DOMAIN venues, g \in DOMAIN groups :
         Fresh(r, u, v) /\ groups'[g].here =>
            groups'[g].codes \ StaffCodes(u, v, NoGroup)
                = groups[g].codes \ StaffCodes(u, v, NoGroup)]_vars

\* What staff of a venue change, however stale their request is, is that
\* venue's: its courts, its staff groups, the people in those.  Who is master
\* or customer, which venues there are, is the owner's.
VenueWalls ==
    [][\A r \in Request : Ends(r) /\ flight[r].caller # Owner =>
         LET at == flight[r].at IN
         /\ venues' = venues
         /\ \A g \in DOMAIN groups' :
               \/ g \in DOMAIN groups /\ groups'[g] = groups[g]
                     /\ {m \in members' : m[1] = g} = {m \in members : m[1] = g}
               \/ groups'[g].kind = "STAFF" /\ groups'[g].venue = at
         /\ \A c \in DOMAIN courts' :
               (c \in DOMAIN courts /\ courts'[c] = courts[c]) \/ courts'[c].venue = at]_vars

\* Nobody is shut out of another venue, or of booking, by one venue's staff,
\* nor a master by anyone but the owner.
ShutOutByTheirOwn ==
    [][\A r \in Request, u, w \in User \ {Owner}, v \in DOMAIN venues :
         Fresh(r, u, v) /\ person[w].active /\ ~ person'[w].active =>
            /\ w # u
            /\ \A g \in DOMAIN groups :
                  <<g, w>> \in members => groups[g].kind = "STAFF" /\ groups[g].venue = v]_vars

-----------------------------------------------------------------------------
(* The code's own words, where two requests at once break them.             *)

\* "Nobody removes their own last way to manage groups at a venue"
\* (users/group_service.py:282), whatever was committed beside the request.
NobodyLocksThemselvesOut ==
    [][\A r \in Request, u \in User \ {Owner}, v \in DOMAIN venues :
         /\ Ends(r) /\ flight[r].caller = u /\ flight[r].at = v
         /\ "USER:Manage" \in StaffCodes(u, v, NoGroup)
         => "USER:Manage" \in StaffCodes(u, v, NoGroup)']_vars

\* "nobody loses access by accident" (users/group_service.py:132): a
\* membership ends only by a request that names it.
NoAccessLostByAccident ==
    [][\A m \in members \ members' :
         \E r \in Request :
            Ends(r) /\ flight[r].op = "remove_member"
            /\ <<flight[r].group, flight[r].user>> = m]_vars

\* "Replace the group's permissions with exactly `codes`"
\* (users/persistence/group_repository.py:243).
ReplacedExactly ==
    [][\A r \in Request :
         flight[r].op = "set_permissions" /\ Commit(r) =>
            groups'[flight[r].group].codes = flight[r].codes]_vars

\* "Their account is not one venue's to change" (users/service.py:144): whom
\* staff switch off works at no other venue and does not book.
NotOneVenuesToChange ==
    [][\A r \in Request, w \in User \ {Owner} :
         /\ Ends(r) /\ flight[r].caller # Owner
         /\ person[w].active /\ ~ person'[w].active
         => \A g \in DOMAIN groups :
               <<g, w>> \in members => groups[g].venue = flight[r].at]_vars
=============================================================================
