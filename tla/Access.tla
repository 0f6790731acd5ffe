------------------------------- MODULE Access -------------------------------
(***************************************************************************)
(* Who may do what in the admin portal: staff accounts, the job roles they *)
(* hold, and the grants stored for both.  createTeamMember and             *)
(* updateTeamMember of backend/src/modules/admin/team/team.service.ts,     *)
(* createRole and updateRole of modules/admin/roles/roles.service.ts,      *)
(* lib/permissions.ts, lib/staff-permissions.ts, and the staff-member and  *)
(* staff-role entries of modules/admin/trash/trash.registry.ts.            *)
(*                                                                         *)
(* One action is one round trip to PostgreSQL, or one transaction.         *)
(***************************************************************************)
EXTENDS FiniteSets

CONSTANTS
  Members,   \* the accounts that are or may become staff
  Roles,     \* the keys of StaffRole
  Callers,   \* requests in flight
  Keys,      \* ALL_PERMISSION_KEYS
  Grids,     \* the grids a form may submit: the keys switched on
  Area,      \* the area of each `<area>.all` key
  Locked,    \* StaffRole.lockedPermissions
  Builtin,   \* SYSTEM_STAFF_ROLES: the auth role of each,
  Seeded,    \* and the keys it is provisioned with
  Founder,   \* the account of the first boot, and its role
  FounderRole,
  None

Auths == {"staff", "admin"}
SystemRoles == DOMAIN Builtin

\* Drops each `<area>.all` whose area is not granted.
SanitizePermissionKeys(keys, forced) ==
  LET granted == keys \cup forced
  IN  {k \in granted : k \in DOMAIN Area => Area[k] \in granted}

Sane(keys) == SanitizePermissionKeys(keys, {}) = keys

ASSUME AccessAssumption ==
  /\ Area \in [DOMAIN Area -> Keys]
  /\ DOMAIN Area \subseteq Keys
  /\ \A k \in DOMAIN Area : Area[k] \notin DOMAIN Area
  /\ Grids \subseteq SUBSET Keys
  /\ Locked \in [Roles -> SUBSET Keys]
  /\ \A r \in Roles : Sane(Locked[r])
  /\ SystemRoles \subseteq Roles
  /\ Builtin \in [SystemRoles -> Auths]
  /\ Seeded \in [SystemRoles -> SUBSET Keys]
  /\ Founder \in Members
  /\ FounderRole \in SystemRoles
  /\ Builtin[FounderRole] = "admin"
  /\ \A r \in Roles \ SystemRoles : Locked[r] = {}
  /\ Members \cap Roles = {}
  /\ None \notin Members \cup Roles

VARIABLES
  roles,       \* the StaffRole table
  profiles,    \* the StaffProfile table
  users,       \* the role and the ban of the user row
  bin,         \* the trash entries of members and roles
  call,        \* what each request has read and will do
  overlapped,  \* history: two requests have been in flight at once
  drifted      \* history: a restore brought back an auth role its job role lost

vars == <<roles, profiles, users, bin, call, overlapped, drifted>>

\* PermissionOverrides: an absent key follows the role.
Overrides == [Keys -> {"role", "on", "off"}]
NoOverrides == [k \in Keys |-> "role"]

StaffRole == [exists : BOOLEAN, deleted : BOOLEAN, auth : Auths, grants : SUBSET Keys]
NoRole == [exists |-> FALSE, deleted |-> FALSE, auth |-> "staff", grants |-> {}]

StaffProfile ==
  [exists : BOOLEAN, deleted : BOOLEAN, active : BOOLEAN, role : Roles,
   overrides : Overrides, grants : SUBSET Keys]
NoProfile ==
  [exists |-> FALSE, deleted |-> FALSE, active |-> FALSE, role |-> FounderRole,
   overrides |-> NoOverrides, grants |-> {}]

User == [exists : BOOLEAN, banned : BOOLEAN, role : Auths \cup {"customer"}]

Live(row) == row.exists /\ ~row.deleted

-----------------------------------------------------------------------------
(* lib/permissions.ts *)

EffectivePermissions(grants, overrides, locked) ==
  SanitizePermissionKeys(
    (grants \cup {k \in Keys : overrides[k] = "on"})
       \ {k \in Keys : overrides[k] = "off"}, locked)

\* Mutant: a key the role gives and the grid leaves out is not recorded.
OverridesGranted(grants, submitted, locked) ==
  [k \in Keys |-> IF k \in SanitizePermissionKeys(submitted, locked) \ grants
                    THEN "on" ELSE "role"]

OverridesFor(grants, submitted, locked) ==
  LET wanted == SanitizePermissionKeys(submitted, locked)
      given == SanitizePermissionKeys(grants, locked)
  IN  [k \in Keys |-> IF (k \in wanted) = (k \in given) THEN "role"
                      ELSE IF k \in wanted THEN "on" ELSE "off"]

\* resolveMemberPermissions of a role with key r
ResolveMemberPermissions(r, grants, overrides) ==
  EffectivePermissions(grants, overrides, Locked[r])

-----------------------------------------------------------------------------
\* What a request keeps of the profile and of the role it has read.
Seen == [role : Roles, overrides : Overrides]
Terms == [auth : Auths, grants : SUBSET Keys]
Unread == [role |-> FounderRole, overrides |-> NoOverrides]
NoTerms == [auth |-> "staff", grants |-> {}]
SeenOf(p) == [role |-> p.role, overrides |-> p.overrides]
TermsOf(r) == [auth |-> r.auth, grants |-> r.grants]

\* The overrides read of each member of a role whose grants change.
NoneHeld == [m \in {} |-> NoOverrides]

Idle ==
  [step |-> "idle", who |-> None, role |-> None, active |-> FALSE,
   auth |-> "staff", sent |-> FALSE, grid |-> {}, reset |-> FALSE,
   seen |-> Unread, terms |-> NoTerms, held |-> NoneHeld]

Steps ==
  {"idle", "createUser", "writeProfile", "readRole", "countAdmins", "writeMember",
   "countRole", "openRole", "commitRole", "stampMember", "revoke", "allow",
   "stampRole"}

Call ==
  [step : Steps, who : Members \cup {None},
   role : Roles \cup {None}, active : BOOLEAN, auth : Auths,
   sent : BOOLEAN, grid : SUBSET Keys, reset : BOOLEAN, seen : Seen,
   terms : Terms, held : UNION {[ms -> Overrides] : ms \in SUBSET Members}]

\* requireAdmin, after the ban check of requireAuth
Passes(m) == users[m].exists /\ ~users[m].banned /\ users[m].role = "admin"

\* What assertNotLastAdmin, assertRoleNotLastAdmins and the trash guard count.
ActiveAdmins ==
  {m \in Members : Live(profiles[m]) /\ profiles[m].active /\ Passes(m)}

\* A request or a sweep starts while a request is in flight.
Begins(others) == overlapped' = (overlapped \/ \E d \in others : call[d] # Idle)

Start(c, a, request) ==
  /\ call[c] = Idle
  /\ Passes(a)
  /\ call' = [call EXCEPT ![c] = request]
  /\ Begins(Callers \ {c})

Goto(c, step) == call' = [call EXCEPT ![c].step = step]
Finish(c) == call' = [call EXCEPT ![c] = Idle]

-----------------------------------------------------------------------------
(* createTeamMember *)

BeginCreate(c, a, m, r, active, sent, grid) ==
  /\ Live(roles[r])
  /\ ~users[m].exists
  /\ Start(c, a, [Idle EXCEPT !.step = "createUser", !.who = m, !.role = r,
                           !.active = active, !.sent = sent, !.grid = grid,
                           !.terms = TermsOf(roles[r])])
  /\ UNCHANGED <<roles, profiles, users, bin, drifted>>

\* The account exists as a customer until the transaction below.
CreateUser(c) ==
  LET m == call[c].who
  IN  /\ call[c].step = "createUser"
      /\ IF users[m].exists
           THEN Finish(c) /\ UNCHANGED users
           ELSE /\ users' = [users EXCEPT ![m] = [exists |-> TRUE, banned |-> FALSE,
                                                  role |-> "customer"]]
                /\ Goto(c, "writeProfile")
      /\ UNCHANGED <<roles, profiles, bin, overlapped, drifted>>

NewProfile(c) ==
  LET q == call[c]
      o == IF q.sent THEN OverridesFor(q.terms.grants, q.grid, Locked[q.role])
           ELSE NoOverrides
  IN  [exists |-> TRUE, deleted |-> FALSE, active |-> q.active, role |-> q.role,
       overrides |-> o,
       grants |-> ResolveMemberPermissions(q.role, q.terms.grants, o)]

\* A role row that is gone fails the foreign key: the account is removed again.
WriteProfile(c) ==
  LET q == call[c]
  IN  /\ q.step = "writeProfile"
      /\ IF roles[q.role].exists
           THEN /\ users' = [users EXCEPT ![q.who].role = q.terms.auth]
                /\ profiles' = [profiles EXCEPT ![q.who] = NewProfile(c)]
           ELSE /\ users' = [users EXCEPT ![q.who].exists = FALSE]
                /\ UNCHANGED profiles
      /\ Finish(c)
      /\ UNCHANGED <<roles, bin, overlapped, drifted>>

-----------------------------------------------------------------------------
(* updateTeamMember *)

LosingAdmin(before, after, active) ==
  before.auth = "admin" /\ (after.auth # "admin" \/ ~active)

\* Nobody switches themself off or moves to another role; a status left out
\* stays what it was.
MayUpdateOneself(p, r, active) == r = p.role /\ (active \/ ~p.active)

BeginUpdate(c, a, m, r, active, sent, grid, reset) ==
  LET p == profiles[m]
      own == roles[p.role]
  IN  /\ Live(p)
      /\ a = m => MayUpdateOneself(p, r, active)
      /\ Start(c, a, [Idle EXCEPT
           !.step = IF r # p.role THEN "readRole"
                    ELSE IF LosingAdmin(own, own, active) THEN "countAdmins"
                    ELSE "writeMember",
           !.who = m, !.role = r, !.active = active, !.sent = sent,
           !.grid = grid, !.reset = reset, !.seen = SeenOf(p), !.terms = TermsOf(own)])
      /\ UNCHANGED <<roles, profiles, users, bin, drifted>>

\* The submitted role must be live.
ReadRole(c) ==
  LET q == call[c]
      target == roles[q.role]
  IN  /\ q.step = "readRole"
      /\ IF Live(target)
           THEN call' = [call EXCEPT ![c] = [q EXCEPT
                  !.step = IF LosingAdmin(q.terms, target, q.active)
                             THEN "countAdmins" ELSE "writeMember",
                  !.terms = TermsOf(target)]]
           ELSE Finish(c)
      /\ UNCHANGED <<roles, profiles, users, bin, overlapped, drifted>>

\* assertNotLastAdmin
CountAdmins(c) ==
  /\ call[c].step = "countAdmins"
  /\ IF ActiveAdmins \ {call[c].who} # {} THEN Goto(c, "writeMember") ELSE Finish(c)
  /\ UNCHANGED <<roles, profiles, users, bin, overlapped, drifted>>

RoleChanged(c) == call[c].role # call[c].seen.role

SavedOverrides(c) ==
  LET q == call[c]
  IN  IF q.reset \/ RoleChanged(c) THEN NoOverrides
      ELSE IF q.sent THEN OverridesFor(q.terms.grants, q.grid, Locked[q.role])
      ELSE q.seen.overrides

\* By id, from what was read.  A profile or a role that is gone fails it.
WriteMember(c) ==
  LET q == call[c]
  IN  /\ q.step = "writeMember"
      /\ IF profiles[q.who].exists /\ roles[q.role].exists
           THEN /\ profiles' = [profiles EXCEPT ![q.who] = [@ EXCEPT
                     !.role = q.role, !.active = q.active,
                     !.overrides = SavedOverrides(c),
                     !.grants = ResolveMemberPermissions(
                                  q.role, q.terms.grants, SavedOverrides(c))]]
                /\ users' = [users EXCEPT ![q.who].role =
                               IF RoleChanged(c) THEN q.terms.auth ELSE @]
           ELSE UNCHANGED <<profiles, users>>
      /\ Finish(c)
      /\ UNCHANGED <<roles, bin, overlapped, drifted>>

-----------------------------------------------------------------------------
(* createRole, updateRole *)

CreateRole(a, r, auth, grid) ==
  /\ Passes(a)
  /\ ~roles[r].exists
  /\ roles' = [roles EXCEPT ![r] =
                 [exists |-> TRUE, deleted |-> FALSE, auth |-> auth,
                  grants |-> SanitizePermissionKeys(grid, {})]]
  /\ Begins(Callers)
  /\ UNCHANGED <<profiles, users, bin, call, drifted>>

BeginRoleEdit(c, a, r, auth, sent, grid) ==
  LET old == roles[r]
  IN  /\ Live(old)
      /\ r \in SystemRoles => auth = old.auth
      /\ Start(c, a, [Idle EXCEPT
           !.step = IF old.auth = "admin" /\ auth # "admin" THEN "countRole"
                    ELSE "openRole",
           !.role = r, !.auth = auth, !.sent = sent, !.grid = grid,
           !.terms = TermsOf(old)])
      /\ UNCHANGED <<roles, profiles, users, bin, drifted>>

\* assertRoleNotLastAdmins
CountRole(c) ==
  LET others == {m \in ActiveAdmins : profiles[m].role # call[c].role}
      holders == {m \in Members : Live(profiles[m]) /\ profiles[m].active
                                    /\ profiles[m].role = call[c].role}
  IN  /\ call[c].step = "countRole"
      /\ IF others # {} \/ holders = {} THEN Goto(c, "openRole") ELSE Finish(c)
      /\ UNCHANGED <<roles, profiles, users, bin, overlapped, drifted>>

\* Mutant: the locked keys are not forced on.
NextUnlocked(c) ==
  IF call[c].sent THEN SanitizePermissionKeys(call[c].grid, {})
  ELSE call[c].terms.grants

NextGrants(c) ==
  IF call[c].sent THEN SanitizePermissionKeys(call[c].grid, Locked[call[c].role])
  ELSE call[c].terms.grants

GrantsChanged(c) == NextGrants(c) # call[c].terms.grants

RoleLocked(r) == \E d \in Callers : call[d].step = "commitRole" /\ call[d].role = r

\* Mutant: a deleted profile is not recomputed.
HoldersLive(r) == {m \in Members : Live(profiles[m]) /\ profiles[m].role = r}

\* Deleted profiles included.
Holders(r) == {m \in Members : profiles[m].exists /\ profiles[m].role = r}

\* The transaction locks the role row, then syncRolePermissions reads its members.
OpenRole(c) ==
  LET r == call[c].role
  IN  /\ call[c].step = "openRole"
      /\ ~RoleLocked(r)
      /\ IF roles[r].exists
           THEN call' = [call EXCEPT ![c] = [@ EXCEPT
                  !.step = "commitRole",
                  !.held = [m \in IF GrantsChanged(c) THEN Holders(r) ELSE {} |->
                              profiles[m].overrides]]]
           ELSE Finish(c)
      /\ UNCHANGED <<roles, profiles, users, bin, overlapped, drifted>>

\* A member purged meanwhile fails the whole transaction.
CommitRole(c) ==
  LET q == call[c]
      moved == DOMAIN q.held
      authChanged == q.auth # q.terms.auth
  IN  /\ q.step = "commitRole"
      /\ IF \A m \in moved : profiles[m].exists
           THEN /\ roles' = [roles EXCEPT ![q.role] = [@ EXCEPT
                     !.auth = IF authChanged THEN q.auth ELSE roles[q.role].auth,
                     !.grants = IF GrantsChanged(c) THEN NextGrants(c)
                                ELSE roles[q.role].grants]]
                /\ profiles' = [m \in Members |->
                     IF m \in moved
                       THEN [profiles[m] EXCEPT !.grants =
                               ResolveMemberPermissions(q.role, NextGrants(c), q.held[m])]
                       ELSE profiles[m]]
                /\ users' = [m \in Members |->
                     IF authChanged /\ profiles[m].role = q.role /\ Live(profiles[m])
                       THEN [users[m] EXCEPT !.role = q.auth] ELSE users[m]]
           ELSE UNCHANGED <<roles, profiles, users>>
      /\ Finish(c)
      /\ UNCHANGED <<bin, overlapped, drifted>>

-----------------------------------------------------------------------------
(* staff-member in the trash *)

\* Mutant: the account being deleted is counted as well.
GuardCountsSelf(m) == ActiveAdmins # {}

\* The guard of the descriptor, for somebody else's account.
MayTrashMember(m) ==
  roles[profiles[m].role].auth = "admin" => ActiveAdmins \ {m} # {}

TrashMember(c, a, m) ==
  /\ a # m
  /\ Live(profiles[m])
  /\ MayTrashMember(m)
  /\ Start(c, a, [Idle EXCEPT !.step = "stampMember", !.who = m])
  /\ UNCHANGED <<roles, profiles, users, bin, drifted>>

\* A profile stamped by another request is not this one's to file.
StampMember(c) ==
  LET m == call[c].who
  IN  /\ call[c].step = "stampMember"
      /\ IF Live(profiles[m])
           THEN /\ profiles' = [profiles EXCEPT ![m].deleted = TRUE]
                /\ Goto(c, "revoke")
           ELSE Finish(c) /\ UNCHANGED profiles
      /\ UNCHANGED <<roles, users, bin, overlapped, drifted>>

\* revokeStaffAccess(ids, true); the entry is filed.
RevokeStaffAccess(c) ==
  LET m == call[c].who
  IN  /\ call[c].step = "revoke"
      /\ users' = [users EXCEPT ![m].banned = TRUE]
      /\ bin' = bin \cup {m}
      /\ Finish(c)
      /\ UNCHANGED <<roles, profiles, overlapped, drifted>>

RestoreMember(c, a, m) ==
  /\ m \in bin
  /\ Start(c, a, [Idle EXCEPT !.step = "allow", !.who = m])
  /\ profiles' = [profiles EXCEPT ![m].deleted = FALSE]
  /\ UNCHANGED <<roles, users, bin, drifted>>

Disagrees(m) == users[m].role # roles[profiles[m].role].auth

\* revokeStaffAccess(ids, false): the auth role stays what it was.
RestoreStaffAccess(c) ==
  LET m == call[c].who
  IN  /\ call[c].step = "allow"
      /\ users' = [users EXCEPT ![m].banned = FALSE]
      /\ drifted' = (drifted \/ Disagrees(m))
      /\ bin' = bin \ {m}
      /\ Finish(c)
      /\ UNCHANGED <<roles, profiles, overlapped>>

\* The nightly sweep or purgeNow; an account that owns records is kept.
PurgeMember(m) ==
  /\ m \in bin
  /\ profiles' = [profiles EXCEPT ![m] = NoProfile]
  /\ bin' = bin \ {m}
  /\ Begins(Callers)
  /\ UNCHANGED <<roles, users, call, drifted>>

-----------------------------------------------------------------------------
(* staff-role in the trash *)

\* Mutant: the holders that count are those whose profile is live.
HeldByLive(r) == HoldersLive(r) # {}

\* A soft-deleted profile counts.
Held(r) == Holders(r) # {}

TrashRole(c, a, r) ==
  /\ Live(roles[r])
  /\ r \notin SystemRoles
  /\ ~Held(r)
  /\ Start(c, a, [Idle EXCEPT !.step = "stampRole", !.role = r])
  /\ UNCHANGED <<roles, profiles, users, bin, drifted>>

StampRole(c) ==
  LET r == call[c].role
  IN  /\ call[c].step = "stampRole"
      /\ ~RoleLocked(r)
      /\ IF Live(roles[r])
           THEN /\ roles' = [roles EXCEPT ![r].deleted = TRUE]
                /\ bin' = bin \cup {r}
           ELSE UNCHANGED <<roles, bin>>
      /\ Finish(c)
      /\ UNCHANGED <<profiles, users, overlapped, drifted>>

RestoreRole(a, r) ==
  /\ Passes(a)
  /\ r \in bin
  /\ ~RoleLocked(r)
  /\ roles' = [roles EXCEPT ![r].deleted = FALSE]
  /\ bin' = bin \ {r}
  /\ Begins(Callers)
  /\ UNCHANGED <<profiles, users, call, drifted>>

\* The Restrict foreign key keeps a role somebody holds.
PurgeRole(r) ==
  /\ r \in bin
  /\ Holders(r) = {}
  /\ ~RoleLocked(r)
  /\ roles' = [roles EXCEPT ![r] = NoRole]
  /\ bin' = bin \ {r}
  /\ Begins(Callers)
  /\ UNCHANGED <<profiles, users, call, drifted>>

-----------------------------------------------------------------------------
\* ensureSystemStaffRoles
Provisioned(r) == SanitizePermissionKeys(Seeded[r], Locked[r])

Init ==
  /\ roles = [r \in Roles |->
                IF r \in SystemRoles
                  THEN [exists |-> TRUE, deleted |-> FALSE, auth |-> Builtin[r],
                        grants |-> Provisioned(r)]
                  ELSE NoRole]
  /\ profiles = [m \in Members |->
                   IF m = Founder THEN [NoProfile EXCEPT !.exists = TRUE,
                           !.active = TRUE,
                           !.grants = ResolveMemberPermissions(
                             FounderRole, Provisioned(FounderRole), NoOverrides)]
                   ELSE NoProfile]
  /\ users = [m \in Members |->
                IF m = Founder
                  THEN [exists |-> TRUE, banned |-> FALSE, role |-> "admin"]
                  ELSE [exists |-> FALSE, banned |-> FALSE, role |-> "customer"]]
  /\ bin = {}
  /\ call = [c \in Callers |-> Idle]
  /\ overlapped = FALSE
  /\ drifted = FALSE

\* A request may come without a grid; one that resets the overrides or changes
\* the role has no use for it.
NoGrid == <<FALSE, {}>>
Submissions == {NoGrid} \cup ({TRUE} \X Grids)

Team(c) ==
  \/ \E a, m \in Members, r \in Roles, on \in BOOLEAN, g \in Submissions :
       BeginCreate(c, a, m, r, on, g[1], g[2])
  \/ \E a, m \in Members, r \in Roles, on, reset \in BOOLEAN, g \in Submissions :
       /\ r # profiles[m].role \/ reset => g = NoGrid
       /\ reset => r = profiles[m].role
       /\ BeginUpdate(c, a, m, r, on, g[1], g[2], reset)
  \/ CreateUser(c) \/ WriteProfile(c)
  \/ ReadRole(c) \/ CountAdmins(c) \/ WriteMember(c)

RoleEdits(c) ==
  \/ \E a \in Members, r \in Roles, auth \in Auths, g \in Submissions :
       BeginRoleEdit(c, a, r, auth, g[1], g[2])
  \/ CountRole(c) \/ OpenRole(c) \/ CommitRole(c)

Trash(c) ==
  \/ \E a, m \in Members : TrashMember(c, a, m) \/ RestoreMember(c, a, m)
  \/ \E a \in Members, r \in Roles : TrashRole(c, a, r)
  \/ StampMember(c) \/ RevokeStaffAccess(c) \/ RestoreStaffAccess(c) \/ StampRole(c)

Next ==
  \/ \E c \in Callers : Team(c) \/ RoleEdits(c) \/ Trash(c)
  \/ \E a \in Members, r \in Roles, auth \in Auths, g \in Grids : CreateRole(a, r, auth, g)
  \/ \E a \in Members, r \in Roles : RestoreRole(a, r)
  \/ \E m \in Members : PurgeMember(m)
  \/ \E r \in Roles : PurgeRole(r)

Spec == Init /\ [][Next]_vars

-----------------------------------------------------------------------------
(* Properties *)

\* Every column holds a value of its type.
TypeOK ==
  /\ roles \in [Roles -> StaffRole]
  /\ profiles \in [Members -> StaffProfile]
  /\ users \in [Members -> User]
  /\ bin \subseteq Members \cup Roles
  /\ call \in [Callers -> Call]
  /\ overlapped \in BOOLEAN
  /\ drifted \in BOOLEAN

\* No stored set holds an org-wide scope key without its area, and a role holds
\* what it locks: what the storage layer owes the guards (lib/permissions.ts),
\* whatever requests overlap and however stale what they have read is.
StoredGrantsSane ==
  /\ \A r \in Roles : roles[r].exists => Sane(roles[r].grants) /\ Locked[r] \subseteq roles[r].grants
  /\ \A m \in Members : Sane(profiles[m].grants)

\* The grants stored for a member, deleted or not, are what the member's role and
\* overrides give now: creating, editing, moving, resetting, role edits, deleting
\* and restoring all keep the materialised column up to date, as long as no two
\* requests overlap.
GrantsFollowRole ==
  ~overlapped =>
    \A m \in Members :
      profiles[m].exists =>
        profiles[m].grants =
          ResolveMemberPermissions(profiles[m].role, roles[profiles[m].role].grants,
                                   profiles[m].overrides)

\* A profile's role is a row of the table and, as long as no two requests
\* overlap, not one in the trash, where nobody could see or edit it.
HeldRolesAreLive ==
  \A m \in Members :
    profiles[m].exists =>
      /\ roles[profiles[m].role].exists
      /\ ~overlapped => ~roles[profiles[m].role].deleted

\* The last-administrator rule: some active administrator is left, as long as no
\* two requests overlap and no restore has brought back an auth role that the
\* job role has lost.
SomebodyAdministers ==
  ~overlapped /\ ~drifted => ActiveAdmins # {}

\* When a grid is saved for a member whose role stays, what is stored is the
\* grid, made sane: overridesFor and effectivePermissions are inverse on what the
\* role held when it was read.
SavedAsSubmitted ==
  [][\A c \in Callers :
       /\ call[c].step = "writeMember" /\ call'[c] = Idle
       /\ call[c].sent /\ ~call[c].reset /\ ~RoleChanged(c)
       /\ profiles' # profiles
       => profiles'[call[c].who].grants
            = SanitizePermissionKeys(call[c].grid, Locked[call[c].role])]_vars
=============================================================================
