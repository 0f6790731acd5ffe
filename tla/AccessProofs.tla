---------------------------- MODULE AccessProofs ----------------------------
(***************************************************************************)
(* Proofs about the module Access, for any accounts, roles, requests and   *)
(* permission keys.                                                        *)
(***************************************************************************)
EXTENDS Access, TLAPS

-----------------------------------------------------------------------------
(* lib/permissions.ts *)

\* What sanitizePermissionKeys returns is in the catalogue, is sane, and keeps a
\* sane forced set.
LEMMA SanitizeReturnsSane ==
  ASSUME NEW keys \in SUBSET Keys, NEW forced \in SUBSET Keys
  PROVE  /\ SanitizePermissionKeys(keys, forced) \in SUBSET Keys
         /\ Sane(SanitizePermissionKeys(keys, forced))
         /\ Sane(forced) => forced \subseteq SanitizePermissionKeys(keys, forced)
  BY AccessAssumption DEF SanitizePermissionKeys, Sane

\* effectivePermissions returns a sane set, whatever the overrides.
LEMMA EffectiveIsSane ==
  ASSUME NEW grants \in SUBSET Keys, NEW overrides \in Overrides,
         NEW locked \in SUBSET Keys
  PROVE  /\ EffectivePermissions(grants, overrides, locked) \in SUBSET Keys
         /\ Sane(EffectivePermissions(grants, overrides, locked))
<1> DEFINE chosen == (grants \cup {k \in Keys : overrides[k] = "on"})
                       \ {k \in Keys : overrides[k] = "off"}
<1>1. chosen \in SUBSET Keys
  OBVIOUS
<1> QED
  BY <1>1, SanitizeReturnsSane DEF EffectivePermissions

\* A sane set is its own reduction, with a sane forced set joined to it.
LEMMA SaneIsFixed ==
  ASSUME NEW keys \in SUBSET Keys, NEW forced \in SUBSET Keys, Sane(keys), Sane(forced)
  PROVE  SanitizePermissionKeys(keys, forced) = keys \cup forced
  BY AccessAssumption DEF SanitizePermissionKeys, Sane

\* The round trip that the comment on overridesFor promises: on a role whose
\* grants are sane, the overrides stored for a grid give back the grid, made sane.
THEOREM OverridesRoundTrip ==
  ASSUME NEW grants \in SUBSET Keys, NEW grid \in SUBSET Keys,
         NEW locked \in SUBSET Keys, Sane(grants), Sane(locked)
  PROVE  EffectivePermissions(grants, OverridesFor(grants, grid, locked), locked)
           = SanitizePermissionKeys(grid, locked)
<1> DEFINE wanted == SanitizePermissionKeys(grid, locked)
           overrides == OverridesFor(grants, grid, locked)
           chosen == (grants \cup {k \in Keys : overrides[k] = "on"})
                       \ {k \in Keys : overrides[k] = "off"}
<1>1. wanted \in SUBSET Keys /\ Sane(wanted) /\ locked \subseteq wanted
  BY SanitizeReturnsSane
<1>2. SanitizePermissionKeys(grants, locked) = grants \cup locked
  BY SaneIsFixed
<1>3. overrides = [k \in Keys |-> IF (k \in wanted) = (k \in grants \cup locked) THEN "role"
                                  ELSE IF k \in wanted THEN "on" ELSE "off"]
  BY <1>2 DEF OverridesFor
<1>4. \A k \in Keys : /\ overrides[k] = "on" <=> k \in wanted /\ k \notin grants \cup locked
                      /\ overrides[k] = "off" <=> k \notin wanted /\ k \in grants \cup locked
  BY <1>3
<1> HIDE DEF wanted, overrides
<1>5. chosen \cup locked = wanted
  BY <1>1, <1>4
<1>6. EffectivePermissions(grants, overrides, locked) = SanitizePermissionKeys(chosen, locked)
  BY DEF EffectivePermissions
<1>7. SanitizePermissionKeys(chosen, locked) = SanitizePermissionKeys(wanted, {})
  BY <1>5 DEF SanitizePermissionKeys
<1> QED
  BY <1>1, <1>6, <1>7 DEF Sane, wanted, overrides

\* overridesFor returns overrides.
LEMMA OverridesTyped ==
  ASSUME NEW grants, NEW grid, NEW locked
  PROVE  OverridesFor(grants, grid, locked) \in Overrides
  BY DEF OverridesFor, Overrides

-----------------------------------------------------------------------------
\* A request names the account and the role its step is about.
WellNamed(q) ==
  /\ q.step \in {"createUser", "writeProfile", "readRole", "countAdmins", "writeMember",
                "stampMember", "revoke", "allow"} => q.who \in Members
  /\ q.step \in {"createUser", "writeProfile", "readRole", "countAdmins", "writeMember",
                "countRole", "openRole", "commitRole", "stampRole"} => q.role \in Roles

Requests == {q \in Call : WellNamed(q)}

TypeInv == TypeOK /\ call \in [Callers -> Requests]

\* Rows of the tables, and the values requests start from, have their types.
LEMMA ConstantsTyped ==
  /\ NoRole \in StaffRole
  /\ NoProfile \in StaffProfile
  /\ NoOverrides \in Overrides
  /\ Unread \in Seen
  /\ NoTerms \in Terms
  /\ NoneHeld \in [{} -> Overrides]
  /\ Idle \in Requests
<1>1. NoOverrides \in Overrides /\ FounderRole \in Roles
  BY AccessAssumption DEF NoOverrides, Overrides
<1>2. NoneHeld \in [{} -> Overrides]
  BY DEF NoneHeld
<1>3. NoneHeld \in UNION {[ms -> Overrides] : ms \in SUBSET Members}
  BY <1>2
<1>4. Unread \in Seen /\ NoTerms \in Terms
  BY <1>1 DEF Unread, Seen, NoTerms, Terms, Auths
<1>5. Idle \in Call
  BY <1>3, <1>4 DEF Idle, Call, Steps, Auths
<1>6. WellNamed(Idle)
  BY DEF Idle, WellNamed
<1> QED
  BY <1>1, <1>2, <1>4, <1>5, <1>6 DEF NoRole, StaffRole, NoProfile, StaffProfile, Auths, Requests

\* A row's terms, what is seen of a profile and what a member resolves to have
\* their types.
LEMMA HelpersTyped ==
  ASSUME TypeOK
  PROVE  /\ \A r \in Roles : TermsOf(roles[r]) \in Terms
         /\ \A m \in Members : SeenOf(profiles[m]) \in Seen
         /\ \A r \in Roles, g \in SUBSET Keys, o \in Overrides :
              ResolveMemberPermissions(r, g, o) \in SUBSET Keys
<1>1. \A r \in Roles : Locked[r] \in SUBSET Keys
  BY AccessAssumption
<1>2. \A r \in Roles, g \in SUBSET Keys, o \in Overrides :
        ResolveMemberPermissions(r, g, o) \in SUBSET Keys
  BY <1>1, EffectiveIsSane DEF ResolveMemberPermissions
<1> QED
  BY <1>2 DEF TypeOK, TermsOf, SeenOf, Terms, Seen, StaffRole, StaffProfile

\* What a built-in role is provisioned with is sane and holds what it locks.
LEMMA ProvisionedIsSane ==
  ASSUME NEW r \in SystemRoles
  PROVE  /\ Provisioned(r) \in SUBSET Keys
         /\ Sane(Provisioned(r))
         /\ Locked[r] \subseteq Provisioned(r)
<1>1. Seeded[r] \in SUBSET Keys /\ Locked[r] \in SUBSET Keys /\ Sane(Locked[r])
  BY AccessAssumption
<1> QED
  BY <1>1, SanitizeReturnsSane DEF Provisioned

\* What the founder holds is sane.
LEMMA FounderTyped ==
  LET grants == ResolveMemberPermissions(FounderRole, Provisioned(FounderRole), NoOverrides)
  IN  grants \in SUBSET Keys /\ Sane(grants)
<1>1. /\ Provisioned(FounderRole) \in SUBSET Keys
      /\ Locked[FounderRole] \in SUBSET Keys /\ Sane(Locked[FounderRole])
  BY AccessAssumption, ProvisionedIsSane
<1> QED
  BY <1>1, ConstantsTyped, EffectiveIsSane DEF ResolveMemberPermissions

\* Moving a request to a step it is named for.
LEMMA GotoTyped ==
  ASSUME NEW c \in Callers, TypeInv, NEW step \in Steps, Goto(c, step),
         WellNamed([call[c] EXCEPT !.step = step])
  PROVE  call' \in [Callers -> Requests]
<1>1. call[c] \in Call
  BY DEF TypeInv, Requests
<1>2. [call[c] EXCEPT !.step = step] \in Call
  BY <1>1 DEF Call
<1>3. call' = [call EXCEPT ![c] = [call[c] EXCEPT !.step = step]]
  BY DEF Goto, TypeInv
<1> QED
  BY <1>2, <1>3 DEF TypeInv, Requests

\* A request that ends is idle.
LEMMA FinishTyped ==
  ASSUME NEW c \in Callers, TypeInv, Finish(c)
  PROVE  call' \in [Callers -> Requests]
  BY ConstantsTyped DEF Finish, TypeInv

\* A request that starts is one, and the overlap is recorded.
LEMMA StartTyped ==
  ASSUME NEW c \in Callers, NEW a, NEW q \in Requests, TypeInv, Start(c, a, q)
  PROVE  call' \in [Callers -> Requests] /\ overlapped' \in BOOLEAN
  BY DEF Start, Begins, TypeInv, TypeOK

\* Requests are calls.
LEMMA RequestsAreCalls ==
  ASSUME call' \in [Callers -> Requests]
  PROVE  call' \in [Callers -> Call]
  BY DEF Requests

\* A grid is a set of keys.
LEMMA SubmissionsTyped ==
  ASSUME NEW g \in Submissions
  PROVE  g[1] \in BOOLEAN /\ g[2] \in SUBSET Keys
<1>1. CASE g = NoGrid
  BY <1>1 DEF NoGrid
<1>2. CASE g \in {TRUE} \X Grids
  BY <1>2, AccessAssumption
<1> QED
  BY <1>1, <1>2 DEF Submissions

\* One column of one row.
LEMMA ColumnsTyped ==
  ASSUME TypeOK
  PROVE  /\ \A m \in Members, b \in BOOLEAN :
              /\ [users EXCEPT ![m].exists = b] \in [Members -> User]
              /\ [users EXCEPT ![m].banned = b] \in [Members -> User]
              /\ [profiles EXCEPT ![m].deleted = b] \in [Members -> StaffProfile]
         /\ \A m \in Members, a \in Auths \cup {"customer"} :
              /\ [users EXCEPT ![m].role = a] \in [Members -> User]
              /\ [users[m] EXCEPT !.role = a] \in User
         /\ \A r \in Roles, b \in BOOLEAN :
              [roles EXCEPT ![r].deleted = b] \in [Roles -> StaffRole]
<1>1. \A u \in User : /\ \A b \in BOOLEAN : /\ [u EXCEPT !.exists = b] \in User
                                            /\ [u EXCEPT !.banned = b] \in User
                      /\ \A a \in Auths \cup {"customer"} : [u EXCEPT !.role = a] \in User
  BY DEF User
<1>2. \A q \in StaffProfile, b \in BOOLEAN : [q EXCEPT !.deleted = b] \in StaffProfile
  BY DEF StaffProfile
<1>3. \A q \in StaffRole, b \in BOOLEAN : [q EXCEPT !.deleted = b] \in StaffRole
  BY DEF StaffRole
<1>4. users \in [Members -> User] /\ profiles \in [Members -> StaffProfile]
      /\ roles \in [Roles -> StaffRole]
  BY DEF TypeOK
<1> QED
  BY <1>1, <1>2, <1>3, <1>4

\* What createTeamMember stores, from a request that names a role.
LEMMA NewProfileTyped ==
  ASSUME TypeOK, NEW c \in Callers, call[c].role \in Roles
  PROVE  NewProfile(c) \in StaffProfile
<1> DEFINE q == call[c]
           o == IF q.sent THEN OverridesFor(q.terms.grants, q.grid, Locked[q.role])
                ELSE NoOverrides
<1>1. o \in Overrides
  BY OverridesTyped, ConstantsTyped
<1>2. q \in Call
  BY DEF TypeOK
<1>3. q.terms.grants \in SUBSET Keys /\ q.active \in BOOLEAN
  BY <1>2 DEF Call, Terms
<1>4. ResolveMemberPermissions(q.role, q.terms.grants, o) \in SUBSET Keys
  BY <1>1, <1>3, HelpersTyped
<1> HIDE DEF o
<1> QED
  BY <1>1, <1>3, <1>4 DEF NewProfile, StaffProfile, o

\* What updateTeamMember stores.
LEMMA SavedOverridesTyped ==
  ASSUME TypeOK, NEW c \in Callers
  PROVE  SavedOverrides(c) \in Overrides
<1>1. call[c].seen.overrides \in Overrides
  BY DEF TypeOK, Call, Seen
<1> QED
  BY <1>1, OverridesTyped, ConstantsTyped DEF SavedOverrides

(***************************************************************************)
(* Every column of the tables and every request keeps its type, in every   *)
(* behaviour.                                                              *)
(***************************************************************************)
THEOREM TypesHold == Spec => []TypeInv
<1> USE AccessAssumption
<1>1. Init => TypeInv
  <2> SUFFICES ASSUME Init PROVE TypeInv
    OBVIOUS
  <2>1. roles \in [Roles -> StaffRole]
    BY ConstantsTyped, ProvisionedIsSane DEF Init, StaffRole, SystemRoles, Auths
  <2>2. profiles \in [Members -> StaffProfile]
    BY ConstantsTyped, FounderTyped DEF Init, StaffProfile
  <2>3. users \in [Members -> User]
    BY DEF Init, User, Auths
  <2>4. call \in [Callers -> Requests]
    BY ConstantsTyped DEF Init
  <2> QED
    BY <2>1, <2>2, <2>3, <2>4 DEF Init, TypeInv, TypeOK, Requests
<1>2. TypeInv /\ [Next]_vars => TypeInv'
  <2> SUFFICES ASSUME TypeInv, [Next]_vars PROVE TypeInv'
    OBVIOUS
  <2> USE DEF TypeInv
  <2>1. TypeOK /\ call \in [Callers -> Requests]
    OBVIOUS
  <2>a. \A c \in Callers : call[c] \in Call /\ WellNamed(call[c]) /\ call[c].terms \in Terms
                           /\ call[c].grid \in SUBSET Keys
    BY DEF Requests, Call
  <2>2. ASSUME NEW c \in Callers, NEW a \in Members, NEW m \in Members, NEW r \in Roles,
               NEW active \in BOOLEAN, NEW g \in Submissions,
               BeginCreate(c, a, m, r, active, g[1], g[2])
        PROVE  TypeInv'
    <3> DEFINE q == [Idle EXCEPT !.step = "createUser", !.who = m, !.role = r,
                       !.active = active, !.sent = g[1], !.grid = g[2],
                       !.terms = TermsOf(roles[r])]
    <3>1. TermsOf(roles[r]) \in Terms /\ Idle \in Call
      BY HelpersTyped, ConstantsTyped DEF Requests
    <3>2. q \in Call
      BY <3>1, SubmissionsTyped DEF Call, Steps
    <3>3. q \in Requests
      BY <3>2 DEF Requests, WellNamed, Idle
    <3> HIDE DEF q
    <3>4. Start(c, a, q)
      BY <2>2 DEF BeginCreate, q
    <3> QED
      BY <2>2, <3>3, <3>4, StartTyped, RequestsAreCalls DEF BeginCreate, TypeOK
  <2>3. ASSUME NEW c \in Callers, CreateUser(c) PROVE TypeInv'
    <3>1. call' \in [Callers -> Requests]
      <4>1. CASE Finish(c)
        BY <4>1, FinishTyped
      <4>2. CASE Goto(c, "writeProfile")
        <5>1. WellNamed([call[c] EXCEPT !.step = "writeProfile"])
          BY <2>3, <2>a DEF CreateUser, WellNamed, Call
        <5> QED
          BY <4>2, <5>1, GotoTyped DEF Steps
      <4> QED
        BY <2>3, <4>1, <4>2 DEF CreateUser
    <3>2. users' \in [Members -> User]
      <4>1. [exists |-> TRUE, banned |-> FALSE, role |-> "customer"] \in User
        BY DEF User
      <4> QED
        BY <2>3, <4>1 DEF CreateUser, TypeOK
    <3> QED
      BY <2>3, <3>1, <3>2, RequestsAreCalls DEF CreateUser, TypeOK
  <2>4. ASSUME NEW c \in Callers, WriteProfile(c) PROVE TypeInv'
    <3>1. call' \in [Callers -> Requests]
      BY <2>4, FinishTyped DEF WriteProfile
    <3>2. call[c].role \in Roles
      BY <2>4, <2>a DEF WriteProfile, WellNamed
    <3>3. profiles' \in [Members -> StaffProfile]
      BY <2>4, <3>2, NewProfileTyped DEF WriteProfile, TypeOK
    <3>4. users' \in [Members -> User]
      <4>1. call[c].terms.auth \in Auths
        BY <2>a DEF Terms
      <4>2. call[c].who \in Members
        BY <2>4, <2>a DEF WriteProfile, WellNamed
      <4>3. CASE roles[call[c].role].exists
        BY <2>4, <4>1, <4>2, <4>3, ColumnsTyped DEF WriteProfile
      <4>4. CASE ~roles[call[c].role].exists
        <5>1. users' = [users EXCEPT ![call[c].who].exists = FALSE]
          BY <2>4, <4>4 DEF WriteProfile
        <5> QED
          BY <4>2, <5>1, ColumnsTyped
      <4> QED
        BY <4>3, <4>4
    <3> QED
      BY <2>4, <3>1, <3>3, <3>4, RequestsAreCalls DEF WriteProfile, TypeOK
  <2>5. ASSUME NEW c \in Callers, NEW a \in Members, NEW m \in Members, NEW r \in Roles,
               NEW active \in BOOLEAN, NEW sent \in BOOLEAN, NEW grid \in SUBSET Keys,
               NEW reset \in BOOLEAN, BeginUpdate(c, a, m, r, active, sent, grid, reset)
        PROVE  TypeInv'
    <3> DEFINE p == profiles[m]
               own == roles[p.role]
               step == IF r # p.role THEN "readRole"
                       ELSE IF LosingAdmin(own, own, active) THEN "countAdmins"
                       ELSE "writeMember"
               q == [Idle EXCEPT !.step = step, !.who = m, !.role = r, !.active = active,
                       !.sent = sent, !.grid = grid, !.reset = reset, !.seen = SeenOf(p),
                       !.terms = TermsOf(own)]
    <3>1. p.role \in Roles
      BY DEF TypeOK, StaffProfile
    <3>2. TermsOf(own) \in Terms /\ SeenOf(p) \in Seen /\ Idle \in Call
      BY <3>1, HelpersTyped, ConstantsTyped DEF Requests
    <3>3. step \in {"readRole", "countAdmins", "writeMember"}
      OBVIOUS
    <3> HIDE DEF step
    <3>4. q \in Call
      BY <3>2, <3>3 DEF Call, Steps
    <3>5. q \in Requests
      BY <3>3, <3>4 DEF Requests, WellNamed, Call
    <3> HIDE DEF q
    <3>6. Start(c, a, q)
      BY <2>5 DEF BeginUpdate, q, step
    <3> QED
      BY <2>5, <3>5, <3>6, StartTyped, RequestsAreCalls DEF BeginUpdate, TypeOK
  <2>6. ASSUME NEW c \in Callers, ReadRole(c) PROVE TypeInv'
    <3>1. call[c].role \in Roles /\ call[c].who \in Members
      BY <2>6, <2>a DEF ReadRole, WellNamed
    <3>2. TermsOf(roles[call[c].role]) \in Terms
      BY <3>1, HelpersTyped
    <3>3. call' \in [Callers -> Requests]
      <4>1. CASE Live(roles[call[c].role])
        <5> DEFINE step == IF LosingAdmin(call[c].terms, roles[call[c].role], call[c].active)
                             THEN "countAdmins" ELSE "writeMember"
                   q == [call[c] EXCEPT !.step = step, !.terms = TermsOf(roles[call[c].role])]
        <5>1. step \in {"countAdmins", "writeMember"}
          OBVIOUS
        <5> HIDE DEF step
        <5>a. call[c] \in Call /\ step \in Steps
          BY <2>a, <5>1 DEF Steps
        <5>2. q \in Call
          BY <3>2, <5>a DEF Call
        <5>3. q \in Requests
          BY <2>a, <3>1, <5>1, <5>2 DEF Requests, WellNamed, Call
        <5>4. call' = [call EXCEPT ![c] = q]
          BY <2>6, <4>1 DEF ReadRole, step
        <5> HIDE DEF q
        <5> QED
          BY <5>3, <5>4
      <4>2. CASE ~Live(roles[call[c].role])
        BY <2>6, <4>2, FinishTyped DEF ReadRole
      <4> QED
        BY <4>1, <4>2
    <3> QED
      BY <2>6, <3>3, RequestsAreCalls DEF ReadRole, TypeOK
  <2>7. ASSUME NEW c \in Callers, CountAdmins(c) PROVE TypeInv'
    <3>1. WellNamed([call[c] EXCEPT !.step = "writeMember"])
      BY <2>7, <2>a DEF CountAdmins, WellNamed, Call
    <3>2. call' \in [Callers -> Requests]
      <4>1. CASE Finish(c)
        BY <4>1, FinishTyped
      <4>2. CASE Goto(c, "writeMember")
        BY <3>1, <4>2, GotoTyped DEF Steps
      <4> QED
        BY <2>7, <4>1, <4>2 DEF CountAdmins
    <3> QED
      BY <2>7, <3>2, RequestsAreCalls DEF CountAdmins, TypeOK
  <2>8. ASSUME NEW c \in Callers, WriteMember(c) PROVE TypeInv'
    <3>1. call[c].role \in Roles /\ call[c].who \in Members
      BY <2>8, <2>a DEF WriteMember, WellNamed
    <3>2. call[c].terms.auth \in Auths /\ call[c].terms.grants \in SUBSET Keys
          /\ call[c].active \in BOOLEAN
      BY <2>a DEF Terms, Call
    <3>3. SavedOverrides(c) \in Overrides
      BY SavedOverridesTyped
    <3>4. ResolveMemberPermissions(call[c].role, call[c].terms.grants, SavedOverrides(c))
            \in SUBSET Keys
      BY <3>1, <3>2, <3>3, HelpersTyped
    <3>5. profiles' \in [Members -> StaffProfile]
      <4> DEFINE o == SavedOverrides(c)
                 g == ResolveMemberPermissions(call[c].role, call[c].terms.grants, o)
                 p == [profiles[call[c].who] EXCEPT !.role = call[c].role,
                         !.active = call[c].active, !.overrides = o, !.grants = g]
      <4>1. o \in Overrides /\ g \in SUBSET Keys
        BY <3>3, <3>4
      <4>2. profiles' = profiles \/ profiles' = [profiles EXCEPT ![call[c].who] = p]
        BY <2>8 DEF WriteMember
      <4> HIDE DEF o, g
      <4>3. p \in StaffProfile
        <5>1. profiles[call[c].who] \in StaffProfile
          BY <3>1 DEF TypeOK
        <5> QED
          BY <3>1, <3>2, <4>1, <5>1 DEF StaffProfile
      <4> QED
        BY <4>2, <4>3 DEF TypeOK
    <3>6. users' \in [Members -> User]
      BY <2>8, <3>2 DEF WriteMember, TypeOK, User
    <3>7. call' \in [Callers -> Requests]
      BY <2>8, FinishTyped DEF WriteMember
    <3> QED
      BY <2>8, <3>5, <3>6, <3>7, RequestsAreCalls DEF WriteMember, TypeOK
  <2>9. ASSUME NEW a \in Members, NEW r \in Roles, NEW auth \in Auths, NEW grid \in Grids,
               CreateRole(a, r, auth, grid)
        PROVE  TypeInv'
    <3>1. SanitizePermissionKeys(grid, {}) \in SUBSET Keys
      BY SanitizeReturnsSane
    <3>2. roles' \in [Roles -> StaffRole]
      BY <2>9, <3>1 DEF CreateRole, TypeOK, StaffRole
    <3> QED
      BY <2>9, <3>2 DEF CreateRole, TypeOK, Begins
  <2>10. ASSUME NEW c \in Callers, NEW a \in Members, NEW r \in Roles, NEW auth \in Auths,
                NEW g \in Submissions, BeginRoleEdit(c, a, r, auth, g[1], g[2])
         PROVE  TypeInv'
    <3> DEFINE step == IF roles[r].auth = "admin" /\ auth # "admin" THEN "countRole"
                       ELSE "openRole"
               q == [Idle EXCEPT !.step = step, !.role = r, !.auth = auth, !.sent = g[1],
                       !.grid = g[2], !.terms = TermsOf(roles[r])]
    <3>1. TermsOf(roles[r]) \in Terms /\ Idle \in Call
      BY HelpersTyped, ConstantsTyped DEF Requests
    <3>2. step \in {"countRole", "openRole"}
      OBVIOUS
    <3> HIDE DEF step
    <3>3. q \in Call
      BY <3>1, <3>2, SubmissionsTyped DEF Call, Steps
    <3>4. q \in Requests
      BY <3>2, <3>3 DEF Requests, WellNamed, Call
    <3> HIDE DEF q
    <3>5. Start(c, a, q)
      BY <2>10 DEF BeginRoleEdit, q, step
    <3> QED
      BY <2>10, <3>4, <3>5, StartTyped, RequestsAreCalls DEF BeginRoleEdit, TypeOK
  <2>11. ASSUME NEW c \in Callers, CountRole(c) PROVE TypeInv'
    <3>1. WellNamed([call[c] EXCEPT !.step = "openRole"])
      BY <2>11, <2>a DEF CountRole, WellNamed, Call
    <3>2. call' \in [Callers -> Requests]
      <4>1. CASE Finish(c)
        BY <4>1, FinishTyped
      <4>2. CASE Goto(c, "openRole")
        BY <3>1, <4>2, GotoTyped DEF Steps
      <4> QED
        BY <2>11, <4>1, <4>2 DEF CountRole
    <3> QED
      BY <2>11, <3>2, RequestsAreCalls DEF CountRole, TypeOK
  <2>12. ASSUME NEW c \in Callers, OpenRole(c) PROVE TypeInv'
    <3>1. call[c].role \in Roles
      BY <2>12, <2>a DEF OpenRole, WellNamed
    <3>2. call' \in [Callers -> Requests]
      <4>1. CASE roles[call[c].role].exists
        <5> DEFINE moved == IF GrantsChanged(c) THEN Holders(call[c].role) ELSE {}
                   held == [m \in moved |-> profiles[m].overrides]
                   q == [call[c] EXCEPT !.step = "commitRole", !.held = held]
        <5>1. moved \in SUBSET Members
          BY DEF Holders
        <5>2. \A m \in Members : profiles[m].overrides \in Overrides
          BY DEF TypeOK, StaffProfile
        <5>3. held \in [moved -> Overrides]
          BY <5>1, <5>2
        <5> HIDE DEF held, moved
        <5>4. held \in UNION {[ms -> Overrides] : ms \in SUBSET Members}
          BY <5>1, <5>3
        <5>5. call' = [call EXCEPT ![c] = q]
          BY <2>12, <4>1 DEF OpenRole, held, moved
        <5>a. call[c] \in Call /\ "commitRole" \in Steps
          BY <2>a DEF Steps
        <5>6. q \in Call
          BY <5>a, <5>4 DEF Call
        <5>7. q \in Requests
          BY <3>1, <5>6 DEF Requests, WellNamed, Call
        <5> HIDE DEF q
        <5> QED
          BY <5>5, <5>7
      <4>2. CASE ~roles[call[c].role].exists
        BY <2>12, <4>2, FinishTyped DEF OpenRole
      <4> QED
        BY <4>1, <4>2
    <3> QED
      BY <2>12, <3>2, RequestsAreCalls DEF OpenRole, TypeOK
  <2>13. ASSUME NEW c \in Callers, CommitRole(c) PROVE TypeInv'
    <3>1. call[c].role \in Roles /\ call[c].auth \in Auths
      BY <2>13, <2>a DEF CommitRole, WellNamed, Call
    <3>2. NextGrants(c) \in SUBSET Keys
      BY <2>a, <3>1, SanitizeReturnsSane DEF NextGrants, Terms
    <3>3. roles' \in [Roles -> StaffRole]
      <4>1. roles[call[c].role] \in StaffRole
        BY <3>1 DEF TypeOK
      <4>2. \A a \in Auths, g \in SUBSET Keys :
              [roles[call[c].role] EXCEPT !.auth = a, !.grants = g] \in StaffRole
        BY <4>1 DEF StaffRole
      <4>3. roles[call[c].role].auth \in Auths /\ roles[call[c].role].grants \in SUBSET Keys
        BY <4>1 DEF StaffRole
      <4> DEFINE a == IF call[c].auth # call[c].terms.auth THEN call[c].auth
                      ELSE roles[call[c].role].auth
                 g == IF GrantsChanged(c) THEN NextGrants(c) ELSE roles[call[c].role].grants
      <4>4. a \in Auths /\ g \in SUBSET Keys
        BY <3>1, <3>2, <4>3
      <4>5. \/ roles' = roles
            \/ roles' = [roles EXCEPT ![call[c].role] =
                                     [roles[call[c].role] EXCEPT !.auth = a, !.grants = g]]
        BY <2>13, <3>1 DEF CommitRole, TypeOK
      <4> HIDE DEF a, g
      <4> DEFINE row == [roles[call[c].role] EXCEPT !.auth = a, !.grants = g]
      <4>6. row \in StaffRole
        BY <4>2, <4>4
      <4> HIDE DEF row
      <4>7. roles' = roles \/ roles' = [roles EXCEPT ![call[c].role] = row]
        BY <4>5 DEF row
      <4> QED
        BY <4>6, <4>7 DEF TypeOK
    <3>4. profiles' \in [Members -> StaffProfile]
      <4>1. \A m \in DOMAIN call[c].held :
              ResolveMemberPermissions(call[c].role, NextGrants(c), call[c].held[m])
                \in SUBSET Keys
        <5>1. \A m \in DOMAIN call[c].held : call[c].held[m] \in Overrides
          BY <2>a DEF Call
        <5> QED
          BY <3>1, <3>2, <5>1, HelpersTyped
      <4>2. \A m \in Members, g \in SUBSET Keys :
              [profiles[m] EXCEPT !.grants = g] \in StaffProfile
        BY DEF TypeOK, StaffProfile
      <4>3. CASE profiles' = profiles
        BY <4>3 DEF TypeOK
      <4>4. CASE profiles' = [m \in Members |->
                     IF m \in DOMAIN call[c].held
                       THEN [profiles[m] EXCEPT !.grants = ResolveMemberPermissions(
                               call[c].role, NextGrants(c), call[c].held[m])]
                       ELSE profiles[m]]
        BY <4>1, <4>2, <4>4 DEF TypeOK
      <4> QED
        BY <2>13, <4>3, <4>4 DEF CommitRole
    <3>5. users' \in [Members -> User]
      <4>1. \A m \in Members : [users[m] EXCEPT !.role = call[c].auth] \in User
        BY <3>1, ColumnsTyped
      <4>2. \/ users' = users
            \/ users' = [m \in Members |->
                           IF call[c].auth # call[c].terms.auth
                              /\ profiles[m].role = call[c].role /\ Live(profiles[m])
                             THEN [users[m] EXCEPT !.role = call[c].auth] ELSE users[m]]
        BY <2>13 DEF CommitRole
      <4> QED
        BY <4>1, <4>2 DEF TypeOK
    <3>6. call' \in [Callers -> Requests]
      BY <2>13, FinishTyped DEF CommitRole
    <3> QED
      BY <2>13, <3>3, <3>4, <3>5, <3>6, RequestsAreCalls DEF CommitRole, TypeOK
  <2>14. ASSUME NEW c \in Callers, NEW a \in Members, NEW m \in Members, TrashMember(c, a, m)
         PROVE  TypeInv'
    <3> DEFINE q == [Idle EXCEPT !.step = "stampMember", !.who = m]
    <3>1. q \in Call
      BY ConstantsTyped DEF Requests, Call, Steps
    <3>2. q \in Requests
      BY <3>1 DEF Requests, WellNamed, Idle
    <3> HIDE DEF q
    <3>3. Start(c, a, q)
      BY <2>14 DEF TrashMember, q
    <3> QED
      BY <2>14, <3>2, <3>3, StartTyped, RequestsAreCalls DEF TrashMember, TypeOK
  <2>15. ASSUME NEW c \in Callers, StampMember(c) PROVE TypeInv'
    <3>1. WellNamed([call[c] EXCEPT !.step = "revoke"])
      BY <2>15, <2>a DEF StampMember, WellNamed, Call
    <3>2. call' \in [Callers -> Requests]
      <4>1. CASE Finish(c)
        BY <4>1, FinishTyped
      <4>2. CASE Goto(c, "revoke")
        BY <3>1, <4>2, GotoTyped DEF Steps
      <4> QED
        BY <2>15, <4>1, <4>2 DEF StampMember
    <3>3. profiles' \in [Members -> StaffProfile]
      <4>1. call[c].who \in Members
        BY <2>15, <2>a DEF StampMember, WellNamed
      <4> QED
        <5>1. \/ profiles' = profiles
              \/ profiles' = [profiles EXCEPT ![call[c].who].deleted = TRUE]
          BY <2>15 DEF StampMember
        <5>2. [profiles EXCEPT ![call[c].who].deleted = TRUE] \in [Members -> StaffProfile]
          BY <4>1, ColumnsTyped
        <5> QED
          BY <5>1, <5>2 DEF TypeOK
    <3> QED
      BY <2>15, <3>2, <3>3, RequestsAreCalls DEF StampMember, TypeOK
  <2>16. ASSUME NEW c \in Callers, RevokeStaffAccess(c) PROVE TypeInv'
    <3>1. call[c].who \in Members
      BY <2>16, <2>a DEF RevokeStaffAccess, WellNamed
    <3>2. users' \in [Members -> User]
      BY <2>16, <3>1, ColumnsTyped DEF RevokeStaffAccess
    <3>3. call' \in [Callers -> Requests]
      BY <2>16, FinishTyped DEF RevokeStaffAccess
    <3> QED
      BY <2>16, <3>1, <3>2, <3>3, RequestsAreCalls DEF RevokeStaffAccess, TypeOK
  <2>17. ASSUME NEW c \in Callers, NEW a \in Members, NEW m \in Members, RestoreMember(c, a, m)
         PROVE  TypeInv'
    <3> DEFINE q == [Idle EXCEPT !.step = "allow", !.who = m]
    <3>1. q \in Call
      BY ConstantsTyped DEF Requests, Call, Steps
    <3>2. q \in Requests
      BY <3>1 DEF Requests, WellNamed, Idle
    <3> HIDE DEF q
    <3>3. Start(c, a, q)
      BY <2>17 DEF RestoreMember, q
    <3>4. profiles' \in [Members -> StaffProfile]
      BY <2>17, ColumnsTyped DEF RestoreMember
    <3> QED
      BY <2>17, <3>2, <3>3, <3>4, StartTyped, RequestsAreCalls DEF RestoreMember, TypeOK
  <2>18. ASSUME NEW c \in Callers, RestoreStaffAccess(c) PROVE TypeInv'
    <3>a. call[c].who \in Members
      BY <2>18, <2>a DEF RestoreStaffAccess, WellNamed
    <3>1. users' \in [Members -> User]
      BY <2>18, <3>a, ColumnsTyped DEF RestoreStaffAccess
    <3>2. call' \in [Callers -> Requests]
      BY <2>18, FinishTyped DEF RestoreStaffAccess
    <3> QED
      BY <2>18, <3>1, <3>2, RequestsAreCalls DEF RestoreStaffAccess, TypeOK, Disagrees
  <2>19. ASSUME NEW m \in Members, PurgeMember(m) PROVE TypeInv'
    BY <2>19, ConstantsTyped DEF PurgeMember, TypeOK, Begins
  <2>20. ASSUME NEW c \in Callers, NEW a \in Members, NEW r \in Roles, TrashRole(c, a, r)
         PROVE  TypeInv'
    <3> DEFINE q == [Idle EXCEPT !.step = "stampRole", !.role = r]
    <3>1. q \in Call
      BY ConstantsTyped DEF Requests, Call, Steps
    <3>2. q \in Requests
      BY <3>1 DEF Requests, WellNamed, Idle
    <3> HIDE DEF q
    <3>3. Start(c, a, q)
      BY <2>20 DEF TrashRole, q
    <3> QED
      BY <2>20, <3>2, <3>3, StartTyped, RequestsAreCalls DEF TrashRole, TypeOK
  <2>21. ASSUME NEW c \in Callers, StampRole(c) PROVE TypeInv'
    <3>1. call[c].role \in Roles
      BY <2>21, <2>a DEF StampRole, WellNamed
    <3>2. roles' \in [Roles -> StaffRole]
      <4>1. \/ roles' = roles
            \/ roles' = [roles EXCEPT ![call[c].role].deleted = TRUE]
        BY <2>21 DEF StampRole
      <4>2. [roles EXCEPT ![call[c].role].deleted = TRUE] \in [Roles -> StaffRole]
        BY <3>1, ColumnsTyped
      <4> QED
        BY <4>1, <4>2 DEF TypeOK
    <3>3. call' \in [Callers -> Requests]
      BY <2>21, FinishTyped DEF StampRole
    <3> QED
      BY <2>21, <3>1, <3>2, <3>3, RequestsAreCalls DEF StampRole, TypeOK
  <2>22. ASSUME NEW a \in Members, NEW r \in Roles, RestoreRole(a, r) PROVE TypeInv'
    <3>1. roles' \in [Roles -> StaffRole]
      BY <2>22, ColumnsTyped DEF RestoreRole
    <3> QED
      BY <2>22, <3>1 DEF RestoreRole, TypeOK, Begins
  <2>23. ASSUME NEW r \in Roles, PurgeRole(r) PROVE TypeInv'
    BY <2>23, ConstantsTyped DEF PurgeRole, TypeOK, Begins
  <2>24. CASE UNCHANGED vars
    BY <2>24 DEF vars, TypeOK
  <2>25. ASSUME NEW c \in Callers, Team(c) PROVE TypeInv'
    <3> HIDE DEF TypeInv
    <3>1. ASSUME NEW a \in Members, NEW m \in Members, NEW r \in Roles, NEW on \in BOOLEAN,
                 NEW reset \in BOOLEAN, NEW g \in Submissions,
                 BeginUpdate(c, a, m, r, on, g[1], g[2], reset)
          PROVE  TypeInv'
      BY <2>5, <3>1, SubmissionsTyped
    <3>2. ASSUME NEW a \in Members, NEW m \in Members, NEW r \in Roles, NEW on \in BOOLEAN,
                 NEW g \in Submissions, BeginCreate(c, a, m, r, on, g[1], g[2])
          PROVE  TypeInv'
      BY <2>2, <3>2
    <3>3. CASE CreateUser(c) \/ WriteProfile(c) \/ ReadRole(c) \/ CountAdmins(c) \/ WriteMember(c)
      BY <2>3, <2>4, <2>6, <2>7, <2>8, <3>3
    <3> QED
      <4>1. CASE \E a, m \in Members, r \in Roles, on \in BOOLEAN, g \in Submissions :
                   BeginCreate(c, a, m, r, on, g[1], g[2])
        BY <3>2, <4>1
      <4>2. CASE \E a, m \in Members, r \in Roles, on, reset \in BOOLEAN, g \in Submissions :
                   BeginUpdate(c, a, m, r, on, g[1], g[2], reset)
        BY <3>1, <4>2
      <4> QED
        BY <2>25, <3>3, <4>1, <4>2 DEF Team
  <2>26. ASSUME NEW c \in Callers, RoleEdits(c) PROVE TypeInv'
    BY <2>10, <2>11, <2>12, <2>13, <2>26 DEF RoleEdits
  <2>27. ASSUME NEW c \in Callers, Trash(c) PROVE TypeInv'
    BY <2>14, <2>15, <2>16, <2>17, <2>18, <2>20, <2>21, <2>27 DEF Trash
  <2> QED
    BY <2>9, <2>19, <2>22, <2>23, <2>24, <2>25, <2>26, <2>27 DEF Next
<1> QED
  BY <1>1, <1>2, PTL DEF Spec

-----------------------------------------------------------------------------
\* The type invariant the runs check.
THEOREM TypeCorrect == Spec => []TypeOK
<1>1. TypeInv => TypeOK
  BY DEF TypeInv
<1> QED
  BY <1>1, TypesHold, PTL

\* The grants of a request's terms are some role's, as they once were; a built-in
\* role never leaves the table.
GrantsInv ==
  /\ StoredGrantsSane
  /\ \A r \in Roles : Sane(roles[r].grants)
  /\ \A c \in Callers : Sane(call[c].terms.grants)
  /\ \A r \in SystemRoles : roles[r].exists /\ r \notin bin
  /\ \A c \in Callers : call[c].step = "stampRole" => call[c].role \notin SystemRoles

\* A request that only moves on, or ends, keeps its terms and its role.
LEMMA TermsStay ==
  ASSUME TypeInv, GrantsInv, NEW c \in Callers,
         \/ Finish(c)
         \/ \E step \in Steps \ {"stampRole"} : Goto(c, step)
  PROVE  \A d \in Callers : /\ Sane(call'[d].terms.grants)
                            /\ call'[d].step = "stampRole" => call'[d].role \notin SystemRoles
<1>1. Sane(Idle.terms.grants) /\ Idle.step # "stampRole"
  BY DEF Idle, NoTerms, Sane, SanitizePermissionKeys
<1>2. CASE Finish(c)
  BY <1>1, <1>2 DEF Finish, TypeInv, GrantsInv
<1>3. ASSUME NEW step \in Steps \ {"stampRole"}, Goto(c, step)
      PROVE  \A d \in Callers : /\ Sane(call'[d].terms.grants)
                                /\ call'[d].step = "stampRole" => call'[d].role \notin SystemRoles
  <2>1. call[c] \in Call
    BY DEF TypeInv, Requests
  <2>2. call'[c].terms = call[c].terms /\ call'[c].step = step
    BY <1>3, <2>1 DEF Goto, TypeInv, Call
  <2>3. \A d \in Callers \ {c} : call'[d] = call[d]
    BY <1>3 DEF Goto, TypeInv
  <2> QED
    BY <2>2, <2>3 DEF GrantsInv
<1> QED
  BY <1>2, <1>3

\* A request that starts takes its terms from a role.
LEMMA TermsTaken ==
  ASSUME TypeInv, GrantsInv, NEW c \in Callers, NEW a, NEW q \in Requests, Start(c, a, q),
         Sane(q.terms.grants), q.step = "stampRole" => q.role \notin SystemRoles
  PROVE  \A d \in Callers : /\ Sane(call'[d].terms.grants)
                            /\ call'[d].step = "stampRole" => call'[d].role \notin SystemRoles
  BY DEF Start, TypeInv, GrantsInv

\* No row is written.
LEMMA RowsStay ==
  ASSUME TypeInv, GrantsInv, UNCHANGED <<roles, profiles, bin>>,
         \A d \in Callers : /\ Sane(call'[d].terms.grants)
                            /\ call'[d].step = "stampRole" => call'[d].role \notin SystemRoles
  PROVE  GrantsInv'
  BY DEF GrantsInv, StoredGrantsSane

(***************************************************************************)
(* What StoredGrantsSane rests on: every request in flight carries the     *)
(* sane grants of the role it has read, and the built-in roles stay.       *)
(***************************************************************************)
THEOREM GrantsInvariant == Spec => []GrantsInv
<1> USE AccessAssumption
<1>1. Init /\ TypeInv => GrantsInv
  <2> SUFFICES ASSUME Init, TypeInv PROVE GrantsInv
    OBVIOUS
  <2>1. Sane({})
    BY DEF Sane, SanitizePermissionKeys
  <2>2. Idle.terms.grants = {} /\ Idle.step = "idle"
    BY DEF Idle, NoTerms
  <2>3. \A r \in Roles : /\ roles[r].exists <=> r \in SystemRoles
                         /\ roles[r].grants = IF r \in SystemRoles THEN Provisioned(r) ELSE {}
    BY DEF Init, NoRole
  <2>4. \A m \in Members : Sane(profiles[m].grants)
    BY <2>1, FounderTyped DEF Init, NoProfile
  <2>5. call = [c \in Callers |-> Idle] /\ bin = {}
    BY DEF Init
  <2>6. \A r \in SystemRoles : Sane(Provisioned(r)) /\ Locked[r] \subseteq Provisioned(r)
    BY ProvisionedIsSane
  <2> HIDE DEF SystemRoles
  <2>7. \A r \in Roles : /\ Sane(roles[r].grants)
                         /\ roles[r].exists => Locked[r] \subseteq roles[r].grants
    BY <2>1, <2>3, <2>6
  <2>8. /\ \A r \in SystemRoles : roles[r].exists /\ r \notin bin
        /\ \A c \in Callers : call[c].step # "stampRole" /\ Sane(call[c].terms.grants)
    BY <2>1, <2>2, <2>3, <2>5
  <2> QED
    BY <2>4, <2>7, <2>8 DEF GrantsInv, StoredGrantsSane
<1>2. TypeInv /\ TypeInv' /\ GrantsInv /\ [Next]_vars => GrantsInv'
  <2> SUFFICES ASSUME TypeInv, TypeInv', GrantsInv, [Next]_vars PROVE GrantsInv'
    OBVIOUS
  <2>1. /\ \A c \in Callers : call[c] \in Requests /\ call[c].terms.grants \in SUBSET Keys
                              /\ call[c].grid \in SUBSET Keys
        /\ \A r \in Roles : roles[r] \in StaffRole
    BY DEF TypeInv, TypeOK, Requests, Call, Terms
  <2>2. \A r \in Roles : Locked[r] \in SUBSET Keys /\ Sane(Locked[r])
    OBVIOUS
  <2>3. \A r \in Roles : Sane(TermsOf(roles[r]).grants)
    BY DEF GrantsInv, TermsOf
  <2>4. \A r \in Roles, g \in SUBSET Keys, o \in Overrides :
          Sane(ResolveMemberPermissions(r, g, o))
    BY <2>2, EffectiveIsSane DEF ResolveMemberPermissions
  <2>5. Idle \in Requests /\ Idle.terms.grants = {} /\ Sane({})
    BY ConstantsTyped DEF Idle, NoTerms, Sane, SanitizePermissionKeys
  <2>10. ASSUME NEW c \in Callers, NEW a \in Members, NEW m \in Members, NEW r \in Roles,
                NEW active \in BOOLEAN, NEW g \in Submissions,
                BeginCreate(c, a, m, r, active, g[1], g[2])
         PROVE  GrantsInv'
    <3> DEFINE q == [Idle EXCEPT !.step = "createUser", !.who = m, !.role = r,
                       !.active = active, !.sent = g[1], !.grid = g[2],
                       !.terms = TermsOf(roles[r])]
    <3>1. q.terms = TermsOf(roles[r]) /\ q.step = "createUser"
      BY <2>5 DEF Idle
    <3>2. Start(c, a, q)
      BY <2>10 DEF BeginCreate
    <3> HIDE DEF q
    <3>3. call' = [call EXCEPT ![c] = q]
      BY <3>2 DEF Start
    <3>4. q \in Requests
      BY <3>3 DEF TypeInv
    <3> QED
      BY <2>3, <2>10, <3>1, <3>2, <3>4, TermsTaken, RowsStay DEF BeginCreate
  <2>11. ASSUME NEW c \in Callers, NEW a \in Members, NEW m \in Members, NEW r \in Roles,
                NEW active \in BOOLEAN, NEW reset \in BOOLEAN, NEW g \in Submissions,
                BeginUpdate(c, a, m, r, active, g[1], g[2], reset)
         PROVE  GrantsInv'
    <3> DEFINE p == profiles[m]
               own == roles[p.role]
               step == IF r # p.role THEN "readRole"
                       ELSE IF LosingAdmin(own, own, active) THEN "countAdmins"
                       ELSE "writeMember"
               q == [Idle EXCEPT !.step = step, !.who = m, !.role = r, !.active = active,
                       !.sent = g[1], !.grid = g[2], !.reset = reset, !.seen = SeenOf(p),
                       !.terms = TermsOf(own)]
    <3>1. q.terms = TermsOf(own) /\ q.step # "stampRole"
      BY DEF Idle
    <3>2. Start(c, a, q)
      BY <2>11 DEF BeginUpdate
    <3>3. p.role \in Roles
      BY DEF TypeInv, TypeOK, StaffProfile
    <3> HIDE DEF q
    <3>4. call' = [call EXCEPT ![c] = q]
      BY <3>2 DEF Start
    <3>5. q \in Requests
      BY <3>4 DEF TypeInv
    <3> QED
      BY <2>3, <2>11, <3>1, <3>2, <3>3, <3>5, TermsTaken, RowsStay DEF BeginUpdate
  <2>12. ASSUME NEW c \in Callers, CreateUser(c) PROVE GrantsInv'
    BY <2>12, TermsStay, RowsStay DEF CreateUser, Steps
  <2>13. ASSUME NEW c \in Callers, WriteProfile(c) PROVE GrantsInv'
    <3>1. call[c].role \in Roles
      BY <2>1, <2>13 DEF WriteProfile, WellNamed, Requests
    <3>2. Sane(NewProfile(c).grants)
      <4> DEFINE o == IF call[c].sent
                        THEN OverridesFor(call[c].terms.grants, call[c].grid, Locked[call[c].role])
                        ELSE NoOverrides
      <4>1. o \in Overrides
        BY OverridesTyped, ConstantsTyped
      <4>2. NewProfile(c).grants = ResolveMemberPermissions(call[c].role, call[c].terms.grants, o)
        BY DEF NewProfile
      <4> HIDE DEF o
      <4> QED
        BY <2>1, <2>4, <3>1, <4>1, <4>2
    <3>3. \A m \in Members : Sane(profiles'[m].grants)
      BY <2>13, <3>2 DEF WriteProfile, GrantsInv, StoredGrantsSane, TypeInv, TypeOK
    <3>4. \A d \in Callers : /\ Sane(call'[d].terms.grants)
                             /\ call'[d].step = "stampRole" => call'[d].role \notin SystemRoles
      BY <2>13, TermsStay DEF WriteProfile
    <3> QED
      BY <2>13, <3>3, <3>4 DEF WriteProfile, GrantsInv, StoredGrantsSane
  <2>14. ASSUME NEW c \in Callers, ReadRole(c) PROVE GrantsInv'
    <3>1. call[c].role \in Roles /\ call[c] \in Call
      BY <2>1, <2>14 DEF ReadRole, WellNamed, Requests
    <3>2. \A d \in Callers : /\ Sane(call'[d].terms.grants)
                             /\ call'[d].step = "stampRole" => call'[d].role \notin SystemRoles
      <4>1. CASE Finish(c)
        BY <4>1, TermsStay
      <4>2. CASE ~Finish(c)
        <5>1. call' = [call EXCEPT ![c] = [call[c] EXCEPT
                  !.step = IF LosingAdmin(call[c].terms, roles[call[c].role], call[c].active)
                             THEN "countAdmins" ELSE "writeMember",
                  !.terms = TermsOf(roles[call[c].role])]]
          BY <2>14, <4>2 DEF ReadRole
        <5>2. /\ call'[c].terms = TermsOf(roles[call[c].role])
              /\ call'[c].step # "stampRole"
              /\ \A d \in Callers \ {c} : call'[d] = call[d]
          BY <3>1, <5>1 DEF TypeInv, Call
        <5> QED
          BY <2>3, <3>1, <5>2 DEF GrantsInv
      <4> QED
        BY <4>1, <4>2
    <3> QED
      BY <2>14, <3>2, RowsStay DEF ReadRole
  <2>15. ASSUME NEW c \in Callers, CountAdmins(c) PROVE GrantsInv'
    BY <2>15, TermsStay, RowsStay DEF CountAdmins, Steps
  <2>16. ASSUME NEW c \in Callers, WriteMember(c) PROVE GrantsInv'
    <3>1. call[c].role \in Roles
      BY <2>1, <2>16 DEF WriteMember, WellNamed, Requests
    <3> DEFINE g == ResolveMemberPermissions(call[c].role, call[c].terms.grants, SavedOverrides(c))
    <3>2. Sane(g)
      BY <2>1, <2>4, <3>1, SavedOverridesTyped DEF TypeInv
    <3>3. \A m \in Members : profiles'[m].grants \in {g, profiles[m].grants}
      <4> DEFINE row == [profiles[call[c].who] EXCEPT !.role = call[c].role,
                           !.active = call[c].active, !.overrides = SavedOverrides(c),
                           !.grants = g]
      <4>1. \A m \in Members : profiles[m] \in StaffProfile
        BY DEF TypeInv, TypeOK
      <4>2. profiles' = profiles \/ profiles' = [profiles EXCEPT ![call[c].who] = row]
        BY <2>16 DEF WriteMember
      <4> HIDE DEF g
      <4>3. call[c].who \in Members => row.grants = g
        BY <4>1 DEF StaffProfile
      <4> HIDE DEF row
      <4> QED
        BY <4>2, <4>3 DEF TypeInv, TypeOK
    <3> HIDE DEF g
    <3>4. \A m \in Members : Sane(profiles'[m].grants)
      BY <3>2, <3>3 DEF GrantsInv, StoredGrantsSane
    <3>5. \A d \in Callers : /\ Sane(call'[d].terms.grants)
                             /\ call'[d].step = "stampRole" => call'[d].role \notin SystemRoles
      BY <2>16, TermsStay DEF WriteMember
    <3> QED
      BY <2>16, <3>4, <3>5 DEF WriteMember, GrantsInv, StoredGrantsSane
  <2>17. ASSUME NEW a \in Members, NEW r \in Roles, NEW auth \in Auths, NEW grid \in Grids,
                CreateRole(a, r, auth, grid)
         PROVE  GrantsInv'
    <3>1. r \notin SystemRoles
      BY <2>17 DEF CreateRole, GrantsInv
    <3>2. Sane(SanitizePermissionKeys(grid, {})) /\ Locked[r] = {}
      BY <3>1, SanitizeReturnsSane
    <3>3. /\ \A x \in Roles : x # r => roles'[x] = roles[x]
          /\ roles'[r].grants = SanitizePermissionKeys(grid, {})
          /\ roles'[r].exists
      BY <2>17 DEF CreateRole, TypeInv, TypeOK
    <3> HIDE DEF SystemRoles
    <3>4. \A x \in Roles : /\ Sane(roles'[x].grants)
                           /\ roles'[x].exists => Locked[x] \subseteq roles'[x].grants
      BY <3>2, <3>3 DEF GrantsInv, StoredGrantsSane
    <3>5. \A x \in SystemRoles : roles'[x].exists /\ x \notin bin'
      BY <2>17, <3>1, <3>3 DEF CreateRole, GrantsInv
    <3>6. StoredGrantsSane'
      BY <2>17, <3>4 DEF CreateRole, GrantsInv, StoredGrantsSane
    <3> QED
      BY <2>17, <3>4, <3>5, <3>6 DEF CreateRole, GrantsInv
  <2>18. ASSUME NEW c \in Callers, NEW a \in Members, NEW r \in Roles, NEW auth \in Auths,
                NEW g \in Submissions, BeginRoleEdit(c, a, r, auth, g[1], g[2])
         PROVE  GrantsInv'
    <3> DEFINE q == [Idle EXCEPT
                       !.step = IF roles[r].auth = "admin" /\ auth # "admin" THEN "countRole"
                                ELSE "openRole",
                       !.role = r, !.auth = auth, !.sent = g[1], !.grid = g[2],
                       !.terms = TermsOf(roles[r])]
    <3>1. q.terms = TermsOf(roles[r]) /\ q.step # "stampRole"
      BY DEF Idle
    <3>2. Start(c, a, q)
      BY <2>18 DEF BeginRoleEdit
    <3> HIDE DEF q
    <3>3. call' = [call EXCEPT ![c] = q]
      BY <3>2 DEF Start
    <3>4. q \in Requests
      BY <3>3 DEF TypeInv
    <3> QED
      BY <2>3, <2>18, <3>1, <3>2, <3>4, TermsTaken, RowsStay DEF BeginRoleEdit
  <2>19. ASSUME NEW c \in Callers, CountRole(c) PROVE GrantsInv'
    BY <2>19, TermsStay, RowsStay DEF CountRole, Steps
  <2>20. ASSUME NEW c \in Callers, OpenRole(c) PROVE GrantsInv'
    <3>1. call[c] \in Call
      BY <2>1 DEF Requests
    <3>2. \A d \in Callers : /\ Sane(call'[d].terms.grants)
                             /\ call'[d].step = "stampRole" => call'[d].role \notin SystemRoles
      <4>1. CASE Finish(c)
        BY <4>1, TermsStay
      <4>2. CASE ~Finish(c)
        <5>1. call' = [call EXCEPT ![c] = [call[c] EXCEPT
                  !.step = "commitRole",
                  !.held = [m \in IF GrantsChanged(c) THEN Holders(call[c].role) ELSE {} |->
                              profiles[m].overrides]]]
          BY <2>20, <4>2 DEF OpenRole
        <5>2. /\ call'[c].terms = call[c].terms
              /\ call'[c].step = "commitRole"
              /\ \A d \in Callers \ {c} : call'[d] = call[d]
          BY <3>1, <5>1 DEF TypeInv, Call
        <5> QED
          BY <5>2 DEF GrantsInv
      <4> QED
        BY <4>1, <4>2
    <3> QED
      BY <2>20, <3>2, RowsStay DEF OpenRole
  <2>21. ASSUME NEW c \in Callers, CommitRole(c) PROVE GrantsInv'
    <3>1. call[c].role \in Roles /\ call[c] \in Call
      BY <2>1, <2>21 DEF CommitRole, WellNamed, Requests
    <3>2. /\ NextGrants(c) \in SUBSET Keys
          /\ GrantsChanged(c) => Sane(NextGrants(c)) /\ Locked[call[c].role] \subseteq NextGrants(c)
      <4>1. /\ Locked[call[c].role] \in SUBSET Keys /\ Sane(Locked[call[c].role])
            /\ call[c].grid \in SUBSET Keys /\ call[c].terms.grants \in SUBSET Keys
        BY <2>1, <2>2, <3>1
      <4>2. CASE call[c].sent
        <5>1. NextGrants(c) = SanitizePermissionKeys(call[c].grid, Locked[call[c].role])
          BY <4>2 DEF NextGrants
        <5> QED
          BY <4>1, <5>1, SanitizeReturnsSane
      <4>3. CASE ~call[c].sent
        BY <4>1, <4>3 DEF NextGrants, GrantsChanged
      <4> QED
        BY <4>2, <4>3
    <3>3. \A x \in Roles :
            /\ roles'[x].exists = roles[x].exists
            /\ \/ roles'[x].grants = roles[x].grants
               \/ x = call[c].role /\ GrantsChanged(c) /\ roles'[x].grants = NextGrants(c)
      <4> DEFINE g == IF GrantsChanged(c) THEN NextGrants(c) ELSE roles[call[c].role].grants
                 b == IF call[c].auth # call[c].terms.auth THEN call[c].auth
                      ELSE roles[call[c].role].auth
      <4>1. \/ roles' = roles
            \/ roles' = [roles EXCEPT ![call[c].role] =
                                     [roles[call[c].role] EXCEPT !.auth = b, !.grants = g]]
        BY <2>21, <3>1 DEF CommitRole, TypeInv, TypeOK
      <4>2. \/ g = roles[call[c].role].grants
            \/ GrantsChanged(c) /\ g = NextGrants(c)
        OBVIOUS
      <4> HIDE DEF g, b
      <4>3. roles[call[c].role] \in StaffRole
        BY <2>1, <3>1
      <4> DEFINE row == [roles[call[c].role] EXCEPT !.auth = b, !.grants = g]
      <4>4. row.exists = roles[call[c].role].exists /\ row.grants = g
        BY <4>3 DEF StaffRole
      <4> HIDE DEF row
      <4>5. roles' = roles \/ roles' = [roles EXCEPT ![call[c].role] = row]
        BY <4>1 DEF row
      <4> QED
        BY <4>2, <4>4, <4>5 DEF TypeInv, TypeOK
    <3>4. \A x \in Roles : /\ Sane(roles'[x].grants)
                           /\ roles'[x].exists => Locked[x] \subseteq roles'[x].grants
      BY <3>2, <3>3 DEF GrantsInv, StoredGrantsSane
    <3>5. \A m \in Members : Sane(profiles'[m].grants)
      <4>1. \A m \in DOMAIN call[c].held :
              Sane(ResolveMemberPermissions(call[c].role, NextGrants(c), call[c].held[m]))
        <5>1. \A m \in DOMAIN call[c].held : call[c].held[m] \in Overrides
          BY <3>1 DEF Call
        <5> QED
          BY <2>4, <3>1, <3>2, <5>1
      <4>2. \A m \in Members : profiles[m] \in StaffProfile
        BY DEF TypeInv, TypeOK
      <4>3. CASE profiles' = profiles
        BY <4>3 DEF GrantsInv, StoredGrantsSane
      <4>4. CASE profiles' = [m \in Members |->
                     IF m \in DOMAIN call[c].held
                       THEN [profiles[m] EXCEPT !.grants = ResolveMemberPermissions(
                               call[c].role, NextGrants(c), call[c].held[m])]
                       ELSE profiles[m]]
        <5>1. \A m \in Members, g \in SUBSET Keys : [profiles[m] EXCEPT !.grants = g].grants = g
          BY <4>2 DEF StaffProfile
        <5>2. \A m \in DOMAIN call[c].held :
                ResolveMemberPermissions(call[c].role, NextGrants(c), call[c].held[m])
                  \in SUBSET Keys
          <6>1. \A m \in DOMAIN call[c].held : call[c].held[m] \in Overrides
            BY <3>1 DEF Call
          <6> QED
            BY <3>1, <3>2, <6>1, HelpersTyped DEF TypeInv
        <5> QED
          BY <4>1, <4>4, <5>1, <5>2 DEF GrantsInv, StoredGrantsSane
      <4> QED
        BY <2>21, <4>3, <4>4 DEF CommitRole
    <3>6. \A d \in Callers : /\ Sane(call'[d].terms.grants)
                             /\ call'[d].step = "stampRole" => call'[d].role \notin SystemRoles
      BY <2>21, TermsStay DEF CommitRole
    <3>7. \A x \in SystemRoles : roles'[x].exists /\ x \notin bin'
      <4>1. SystemRoles \subseteq Roles
        OBVIOUS
      <4> HIDE DEF SystemRoles
      <4> QED
        BY <2>21, <3>3, <4>1 DEF CommitRole, GrantsInv
    <3>8. StoredGrantsSane'
      BY <3>4, <3>5 DEF StoredGrantsSane
    <3> QED
      BY <3>4, <3>6, <3>7, <3>8 DEF GrantsInv
  <2>22. ASSUME NEW c \in Callers, NEW a \in Members, NEW m \in Members, TrashMember(c, a, m)
         PROVE  GrantsInv'
    <3> DEFINE q == [Idle EXCEPT !.step = "stampMember", !.who = m]
    <3>1. q.terms.grants = {} /\ q.step # "stampRole"
      BY DEF Idle, NoTerms
    <3>2. Start(c, a, q)
      BY <2>22 DEF TrashMember
    <3> HIDE DEF q
    <3>3. call' = [call EXCEPT ![c] = q]
      BY <3>2 DEF Start
    <3>4. q \in Requests
      BY <3>3 DEF TypeInv
    <3> QED
      BY <2>5, <2>22, <3>1, <3>2, <3>4, TermsTaken, RowsStay DEF TrashMember
  <2>23. ASSUME NEW c \in Callers, StampMember(c) PROVE GrantsInv'
    <3>1. \A m \in Members : profiles'[m].grants = profiles[m].grants
      BY <2>23 DEF StampMember, TypeInv, TypeOK, StaffProfile
    <3>2. \A d \in Callers : /\ Sane(call'[d].terms.grants)
                             /\ call'[d].step = "stampRole" => call'[d].role \notin SystemRoles
      BY <2>23, TermsStay DEF StampMember, Steps
    <3> QED
      BY <2>23, <3>1, <3>2 DEF StampMember, GrantsInv, StoredGrantsSane
  <2>24. ASSUME NEW c \in Callers, RevokeStaffAccess(c) PROVE GrantsInv'
    <3>1. call[c].who \in Members
      BY <2>1, <2>24 DEF RevokeStaffAccess, WellNamed, Requests
    <3>2. \A d \in Callers : /\ Sane(call'[d].terms.grants)
                             /\ call'[d].step = "stampRole" => call'[d].role \notin SystemRoles
      BY <2>24, TermsStay DEF RevokeStaffAccess
    <3>3. \A x \in SystemRoles : x \notin bin'
      <4>1. SystemRoles \subseteq Roles
        OBVIOUS
      <4> HIDE DEF SystemRoles
      <4> QED
        BY <2>24, <3>1, <4>1 DEF RevokeStaffAccess, GrantsInv
    <3> QED
      BY <2>24, <3>2, <3>3 DEF RevokeStaffAccess, GrantsInv, StoredGrantsSane
  <2>25. ASSUME NEW c \in Callers, NEW a \in Members, NEW m \in Members, RestoreMember(c, a, m)
         PROVE  GrantsInv'
    <3> DEFINE q == [Idle EXCEPT !.step = "allow", !.who = m]
    <3>1. q.terms.grants = {} /\ q.step # "stampRole"
      BY DEF Idle, NoTerms
    <3>2. Start(c, a, q)
      BY <2>25 DEF RestoreMember
    <3> HIDE DEF q
    <3>3. call' = [call EXCEPT ![c] = q]
      BY <3>2 DEF Start
    <3>4. q \in Requests
      BY <3>3 DEF TypeInv
    <3>5. \A d \in Callers : /\ Sane(call'[d].terms.grants)
                             /\ call'[d].step = "stampRole" => call'[d].role \notin SystemRoles
      BY <2>5, <3>1, <3>2, <3>4, TermsTaken
    <3>6. \A x \in Members : profiles'[x].grants = profiles[x].grants
      BY <2>25 DEF RestoreMember, TypeInv, TypeOK, StaffProfile
    <3> QED
      BY <2>25, <3>5, <3>6 DEF RestoreMember, GrantsInv, StoredGrantsSane
  <2>26. ASSUME NEW c \in Callers, RestoreStaffAccess(c) PROVE GrantsInv'
    <3>1. \A d \in Callers : /\ Sane(call'[d].terms.grants)
                             /\ call'[d].step = "stampRole" => call'[d].role \notin SystemRoles
      BY <2>26, TermsStay DEF RestoreStaffAccess
    <3> QED
      BY <2>26, <3>1 DEF RestoreStaffAccess, GrantsInv, StoredGrantsSane
  <2>27. ASSUME NEW m \in Members, PurgeMember(m) PROVE GrantsInv'
    <3>1. NoProfile.grants = {}
      BY DEF NoProfile
    <3>2. \A x \in Members : profiles'[x].grants \in {{}, profiles[x].grants}
      BY <2>27, <3>1 DEF PurgeMember, TypeInv, TypeOK
    <3> QED
      BY <2>5, <2>27, <3>2 DEF PurgeMember, GrantsInv, StoredGrantsSane
  <2>28. ASSUME NEW c \in Callers, NEW a \in Members, NEW r \in Roles, TrashRole(c, a, r)
         PROVE  GrantsInv'
    <3> DEFINE q == [Idle EXCEPT !.step = "stampRole", !.role = r]
    <3>1. q.terms.grants = {} /\ q.role = r
      BY DEF Idle, NoTerms
    <3>2. Start(c, a, q) /\ r \notin SystemRoles
      BY <2>28 DEF TrashRole
    <3> HIDE DEF q
    <3>3. call' = [call EXCEPT ![c] = q]
      BY <3>2 DEF Start
    <3>4. q \in Requests
      BY <3>3 DEF TypeInv
    <3> QED
      BY <2>5, <2>28, <3>1, <3>2, <3>4, TermsTaken, RowsStay DEF TrashRole
  <2>29. ASSUME NEW c \in Callers, StampRole(c) PROVE GrantsInv'
    <3>1. call[c].role \notin SystemRoles
      BY <2>29 DEF StampRole, GrantsInv
    <3>2. \A x \in Roles : roles'[x].grants = roles[x].grants /\ roles'[x].exists = roles[x].exists
      <4>1. \/ roles' = roles
            \/ roles' = [roles EXCEPT ![call[c].role].deleted = TRUE]
        BY <2>29 DEF StampRole
      <4>2. roles \in [Roles -> StaffRole]
        BY DEF TypeInv, TypeOK
      <4> QED
        BY <4>1, <4>2 DEF StaffRole
    <3>3. \A d \in Callers : /\ Sane(call'[d].terms.grants)
                             /\ call'[d].step = "stampRole" => call'[d].role \notin SystemRoles
      BY <2>29, TermsStay DEF StampRole
    <3>4. \A x \in SystemRoles : roles'[x].exists /\ x \notin bin'
      <4>1. SystemRoles \subseteq Roles
        OBVIOUS
      <4> HIDE DEF SystemRoles
      <4> QED
        BY <2>29, <3>1, <3>2, <4>1 DEF StampRole, GrantsInv
    <3> HIDE DEF SystemRoles
    <3> QED
      BY <2>29, <3>2, <3>3, <3>4 DEF StampRole, GrantsInv, StoredGrantsSane
  <2>30. ASSUME NEW a \in Members, NEW r \in Roles, RestoreRole(a, r) PROVE GrantsInv'
    <3>1. \A x \in Roles : roles'[x].grants = roles[x].grants /\ roles'[x].exists = roles[x].exists
      BY <2>30 DEF RestoreRole, TypeInv, TypeOK, StaffRole
    <3>2. SystemRoles \subseteq Roles
      OBVIOUS
    <3> HIDE DEF SystemRoles
    <3> QED
      BY <2>30, <3>1, <3>2 DEF RestoreRole, GrantsInv, StoredGrantsSane
  <2>31. ASSUME NEW r \in Roles, PurgeRole(r) PROVE GrantsInv'
    <3>1. r \notin SystemRoles
      BY <2>31 DEF PurgeRole, GrantsInv
    <3>2. ~NoRole.exists /\ NoRole.grants = {}
      BY DEF NoRole
    <3>3. roles'[r] = NoRole /\ \A x \in Roles \ {r} : roles'[x] = roles[x]
      BY <2>31 DEF PurgeRole, TypeInv, TypeOK
    <3>4. SystemRoles \subseteq Roles
      OBVIOUS
    <3> HIDE DEF SystemRoles
    <3> QED
      <4>1. Sane({})
        BY <2>5
      <4>2. call' = call /\ profiles' = profiles /\ bin' \subseteq bin
        BY <2>31 DEF PurgeRole
      <4>3. StoredGrantsSane' /\ \A x \in Roles : Sane(roles'[x].grants)
        BY <3>2, <3>3, <4>1, <4>2 DEF GrantsInv, StoredGrantsSane
      <4>4. \A x \in SystemRoles : roles'[x].exists /\ x \notin bin'
        BY <3>1, <3>3, <3>4, <4>2 DEF GrantsInv
      <4> QED
        BY <4>2, <4>3, <4>4 DEF GrantsInv
  <2>32. CASE UNCHANGED vars
    BY <2>32 DEF vars, GrantsInv, StoredGrantsSane
  <2>33. ASSUME NEW c \in Callers, Team(c) PROVE GrantsInv'
    <3>1. CASE \E a, m \in Members, r \in Roles, on \in BOOLEAN, g \in Submissions :
                 BeginCreate(c, a, m, r, on, g[1], g[2])
      BY <2>10, <3>1
    <3>2. CASE \E a, m \in Members, r \in Roles, on, reset \in BOOLEAN, g \in Submissions :
                 BeginUpdate(c, a, m, r, on, g[1], g[2], reset)
      BY <2>11, <3>2
    <3>3. CASE CreateUser(c) \/ WriteProfile(c) \/ ReadRole(c) \/ CountAdmins(c) \/ WriteMember(c)
      BY <2>12, <2>13, <2>14, <2>15, <2>16, <3>3
    <3> QED
      BY <2>33, <3>1, <3>2, <3>3 DEF Team
  <2>34. ASSUME NEW c \in Callers, RoleEdits(c) PROVE GrantsInv'
    BY <2>18, <2>19, <2>20, <2>21, <2>34 DEF RoleEdits
  <2>35. ASSUME NEW c \in Callers, Trash(c) PROVE GrantsInv'
    BY <2>22, <2>23, <2>24, <2>25, <2>26, <2>28, <2>29, <2>35 DEF Trash
  <2> QED
    BY <2>17, <2>27, <2>30, <2>31, <2>32, <2>33, <2>34, <2>35 DEF Next
<1> QED
  BY <1>1, <1>2, TypesHold, PTL DEF Spec

(***************************************************************************)
(* No stored set holds an org-wide scope without its area, and a role      *)
(* holds what it locks, for any number of overlapping requests.            *)
(***************************************************************************)
THEOREM GrantsSane == Spec => []StoredGrantsSane
<1>1. GrantsInv => StoredGrantsSane
  BY DEF GrantsInv
<1> QED
  BY <1>1, GrantsInvariant, PTL

\* SavedAsSubmitted, of one step.
SavesTheGrid ==
  \A c \in Callers :
    /\ call[c].step = "writeMember" /\ call'[c] = Idle
    /\ call[c].sent /\ ~call[c].reset /\ ~RoleChanged(c)
    /\ profiles' # profiles
    => profiles'[call[c].who].grants
         = SanitizePermissionKeys(call[c].grid, Locked[call[c].role])

\* A request about to write its member ends by writing it.
LEMMA OnlyWriteMemberEnds ==
  ASSUME TypeInv, Next, NEW c \in Callers, call[c].step = "writeMember", call'[c] = Idle
  PROVE  WriteMember(c)
<1>1. Idle.step = "idle" /\ call[c] # Idle
  BY DEF Idle
<1>2. \A d \in Callers : \A a, q : ~Start(d, a, q)
  <2> SUFFICES ASSUME NEW d \in Callers, NEW a, NEW q, Start(d, a, q) PROVE FALSE
    OBVIOUS
  <2>1. d # c /\ call'[c] = call[c]
    BY <1>1 DEF Start, TypeInv
  <2> QED
    BY <1>1, <2>1
<1>3. \A d \in Callers, step \in Steps : Goto(d, step) => d = c
  BY <1>1 DEF Goto, TypeInv
<1>4. \A d \in Callers : Finish(d) => d = c
  BY <1>1 DEF Finish, TypeInv
<1>5. \A d \in Callers : \A q : call' = [call EXCEPT ![d] = q] => d = c
  BY <1>1 DEF TypeInv
<1>6. ASSUME NEW d \in Callers, Team(d) PROVE WriteMember(c)
  <2>1. \A a, m, r, on, s, g, reset :
          ~BeginCreate(d, a, m, r, on, s, g) /\ ~BeginUpdate(d, a, m, r, on, s, g, reset)
    BY <1>2 DEF BeginCreate, BeginUpdate
  <2>2. ~CreateUser(d)
    BY <1>3, <1>4 DEF CreateUser, Steps
  <2>3. ~WriteProfile(d)
    BY <1>4 DEF WriteProfile
  <2>4. ~ReadRole(d)
    BY <1>4, <1>5 DEF ReadRole
  <2>5. ~CountAdmins(d)
    BY <1>3, <1>4 DEF CountAdmins, Steps
  <2>6. WriteMember(d) => d = c
    BY <1>4 DEF WriteMember
  <2> QED
    BY <1>6, <2>1, <2>2, <2>3, <2>4, <2>5, <2>6 DEF Team
<1>7. ASSUME NEW d \in Callers PROVE ~RoleEdits(d)
  <2>1. \A a, r, auth, s, g : ~BeginRoleEdit(d, a, r, auth, s, g)
    BY <1>2 DEF BeginRoleEdit
  <2>2. ~CountRole(d)
    BY <1>3, <1>4 DEF CountRole, Steps
  <2>3. ~OpenRole(d)
    BY <1>4, <1>5 DEF OpenRole
  <2>4. ~CommitRole(d)
    BY <1>4 DEF CommitRole
  <2> QED
    BY <2>1, <2>2, <2>3, <2>4 DEF RoleEdits
<1>8. ASSUME NEW d \in Callers PROVE ~Trash(d)
  <2>1. \A a, m : ~TrashMember(d, a, m) /\ ~RestoreMember(d, a, m)
    BY <1>2 DEF TrashMember, RestoreMember
  <2>2. \A a, r : ~TrashRole(d, a, r)
    BY <1>2 DEF TrashRole
  <2>3. ~StampMember(d)
    BY <1>3, <1>4 DEF StampMember, Steps
  <2>4. ~RevokeStaffAccess(d) /\ ~RestoreStaffAccess(d) /\ ~StampRole(d)
    BY <1>4 DEF RevokeStaffAccess, RestoreStaffAccess, StampRole
  <2> QED
    BY <2>1, <2>2, <2>3, <2>4 DEF Trash
<1>9. /\ \A a, r, auth, grid : ~CreateRole(a, r, auth, grid)
      /\ \A a, r : ~RestoreRole(a, r)
      /\ \A m : ~PurgeMember(m)
      /\ \A r : ~PurgeRole(r)
  BY <1>1 DEF CreateRole, RestoreRole, PurgeMember, PurgeRole
<1> QED
  BY <1>6, <1>7, <1>8, <1>9 DEF Next

(***************************************************************************)
(* A grid saved for a member whose role stays is what is stored, made      *)
(* sane, however stale the terms it is compared with.                      *)
(***************************************************************************)
THEOREM GridIsStored == Spec => SavedAsSubmitted
<1> USE AccessAssumption
<1>1. TypeInv /\ GrantsInv /\ [Next]_vars => [SavesTheGrid]_vars
  <2> SUFFICES ASSUME TypeInv, GrantsInv, Next, NEW c \in Callers,
                      call[c].step = "writeMember", call'[c] = Idle,
                      call[c].sent, ~call[c].reset, ~RoleChanged(c), profiles' # profiles
               PROVE  profiles'[call[c].who].grants
                        = SanitizePermissionKeys(call[c].grid, Locked[call[c].role])
    BY DEF SavesTheGrid
  <2>1. WriteMember(c)
    BY OnlyWriteMemberEnds
  <2>2. /\ call[c].role \in Roles /\ call[c].who \in Members
        /\ call[c].terms.grants \in SUBSET Keys /\ call[c].grid \in SUBSET Keys
        /\ Sane(call[c].terms.grants)
    BY DEF TypeInv, Requests, WellNamed, Call, Terms, GrantsInv
  <2>3. SavedOverrides(c) = OverridesFor(call[c].terms.grants, call[c].grid, Locked[call[c].role])
    BY DEF SavedOverrides
  <2> DEFINE g == ResolveMemberPermissions(call[c].role, call[c].terms.grants, SavedOverrides(c))
             row == [profiles[call[c].who] EXCEPT !.role = call[c].role,
                       !.active = call[c].active, !.overrides = SavedOverrides(c),
                       !.grants = g]
  <2>4. profiles' = [profiles EXCEPT ![call[c].who] = row]
    BY <2>1 DEF WriteMember
  <2>5. g = SanitizePermissionKeys(call[c].grid, Locked[call[c].role])
    BY <2>2, <2>3, OverridesRoundTrip DEF ResolveMemberPermissions
  <2> HIDE DEF g
  <2>6. row.grants = g
    BY <2>2 DEF TypeInv, TypeOK, StaffProfile
  <2> HIDE DEF row
  <2> QED
    BY <2>2, <2>4, <2>5, <2>6 DEF TypeInv, TypeOK
<1>2. SavedAsSubmitted <=> [][SavesTheGrid]_vars
  BY PTL DEF SavedAsSubmitted, SavesTheGrid
<1> QED
  BY <1>1, <1>2, TypesHold, GrantsInvariant, PTL DEF Spec

-----------------------------------------------------------------------------
(* Requests that come one after the other *)

\* A profile's role is a row of the table, even when requests overlap.
RolesExist ==
  \A m \in Members : profiles[m].exists => roles[profiles[m].role].exists

OneAtATime == \A c, d \in Callers : call[c] # Idle /\ call[d] # Idle => c = d

\* What a profile shows is what its role gives, and the role is not in the trash.
Current(m) ==
  /\ ~roles[profiles[m].role].deleted
  /\ profiles[m].grants =
       ResolveMemberPermissions(profiles[m].role, roles[profiles[m].role].grants,
                                profiles[m].overrides)

\* What a request has read still stands.
ReadsStand(c) ==
  LET q == call[c] IN
  /\ q.step \in {"createUser", "writeProfile", "countAdmins", "writeMember",
                 "countRole", "openRole", "commitRole"} =>
       Live(roles[q.role]) /\ q.terms = TermsOf(roles[q.role])
  /\ q.step \in {"readRole", "countAdmins", "writeMember"} =>
       Live(profiles[q.who]) /\ q.seen = SeenOf(profiles[q.who])
  /\ q.step = "readRole" => q.terms = TermsOf(roles[q.seen.role])
  /\ q.step = "commitRole" =>
       q.held = [m \in IF GrantsChanged(c) THEN Holders(q.role) ELSE {} |->
                   profiles[m].overrides]
  /\ q.step = "stampRole" => Holders(q.role) = {}

SerialInv ==
  /\ RolesExist
  /\ ~overlapped =>
       /\ OneAtATime
       /\ \A m \in Members : profiles[m].exists => Current(m)
       /\ \A c \in Callers : ReadsStand(c)

\* A request that only moves on keeps what it has read.
LEMMA GotoKeeps ==
  ASSUME TypeInv, NEW c \in Callers, NEW step \in Steps, Goto(c, step)
  PROVE  /\ call'[c].step = step
         /\ UNCHANGED <<call[c].who, call[c].role, call[c].active, call[c].auth,
                        call[c].sent, call[c].grid, call[c].reset, call[c].seen,
                        call[c].terms, call[c].held>>
         /\ \A d \in Callers \ {c} : call'[d] = call[d]
<1>1. call[c] \in Call
  BY DEF TypeInv, Requests
<1>2. call'[c] = [call[c] EXCEPT !.step = step] /\ \A d \in Callers \ {c} : call'[d] = call[d]
  BY DEF Goto, TypeInv
<1> QED
  BY <1>1, <1>2 DEF Call

\* A request that is done is idle, and the others are where they were.
LEMMA FinishEnds ==
  ASSUME TypeInv, NEW c \in Callers, Finish(c)
  PROVE  call'[c] = Idle /\ \A d \in Callers \ {c} : call'[d] = call[d]
  BY DEF Finish, TypeInv

\* A request that starts while nothing has overlapped finds no other.
LEMMA StartsAlone ==
  ASSUME TypeInv, NEW c \in Callers, NEW a, NEW q, Start(c, a, q), ~overlapped'
  PROVE  /\ ~overlapped /\ \A d \in Callers : call[d] = Idle
         /\ call'[c] = q /\ \A d \in Callers \ {c} : call'[d] = Idle
  BY DEF Start, Begins, TypeInv

\* So does a sweep.
LEMMA BeginsAlone ==
  ASSUME TypeInv, Begins(Callers), call' = call, ~overlapped'
  PROVE  ~overlapped /\ \A d \in Callers : call[d] = Idle /\ call'[d] = Idle
  BY DEF Begins

\* The others stay idle while one request moves.
LEMMA OthersIdle ==
  ASSUME OneAtATime, NEW c \in Callers, call[c] # Idle,
         \A d \in Callers \ {c} : call'[d] = call[d]
  PROVE  \A d \in Callers \ {c} : call'[d] = Idle
  BY DEF OneAtATime

\* An idle request has read nothing.
LEMMA IdleStands ==
  ASSUME NEW c \in Callers, call'[c] = Idle
  PROVE  ReadsStand(c)'
<1>1. Idle.step = "idle"
  BY DEF Idle
<1> QED
  BY <1>1 DEF ReadsStand

\* Nor has one that only stamps an account or its profile.
LEMMA StampsStand ==
  ASSUME NEW c \in Callers, call'[c].step \in {"stampMember", "revoke", "allow"}
  PROVE  ReadsStand(c)'
  BY DEF ReadsStand

\* One request moved, the tables are in order.
LEMMA SerialStep ==
  ASSUME RolesExist', NEW c \in Callers,
         ~overlapped' => /\ \A d \in Callers \ {c} : call'[d] = Idle
                         /\ \A m \in Members : profiles'[m].exists => Current(m)'
                         /\ ReadsStand(c)'
  PROVE  SerialInv'
<1>1. ~overlapped' => OneAtATime'
  BY DEF OneAtATime
<1>2. ASSUME ~overlapped', NEW d \in Callers PROVE ReadsStand(d)'
  BY <1>2, IdleStands
<1> QED
  BY <1>1, <1>2 DEF SerialInv

\* No row is written but for stamps that are taken back.
LEMMA RowsKept ==
  ASSUME RolesExist,
         \A m \in Members :
           UNCHANGED <<profiles[m].exists, profiles[m].role, profiles[m].overrides,
                       profiles[m].grants>>,
         \A r \in Roles :
           /\ UNCHANGED <<roles[r].exists, roles[r].grants>>
           /\ roles'[r].deleted => roles[r].deleted,
         \A m \in Members : profiles[m].role \in Roles
  PROVE  /\ RolesExist'
         /\ (\A m \in Members : profiles[m].exists => Current(m))
              => \A m \in Members : profiles'[m].exists => Current(m)'
<1>1. RolesExist'
  BY DEF RolesExist
<1>2. ASSUME NEW m \in Members, Current(m) PROVE Current(m)'
  BY <1>2 DEF Current, ResolveMemberPermissions
<1> QED
  BY <1>1, <1>2

\* Nobody is at work, the tables are in order.
LEMMA SerialRest ==
  ASSUME RolesExist',
         ~overlapped' => /\ \A d \in Callers : call'[d] = Idle
                         /\ \A m \in Members : profiles'[m].exists => Current(m)'
  PROVE  SerialInv'
<1>1. ~overlapped' => OneAtATime'
  BY DEF OneAtATime
<1>2. ASSUME ~overlapped', NEW d \in Callers PROVE ReadsStand(d)'
  BY <1>2, IdleStands
<1> QED
  BY <1>1, <1>2 DEF SerialInv

\* A request starts or moves on; the tables stay.
LEMMA SerialCall ==
  ASSUME TypeInv, SerialInv, UNCHANGED <<roles, profiles>>, NEW c \in Callers,
         ~overlapped' => /\ ~overlapped
                         /\ \A d \in Callers \ {c} : call'[d] = Idle
                         /\ ReadsStand(c)'
  PROVE  SerialInv'
<1>1. \A m \in Members : profiles[m].role \in Roles
  BY DEF TypeInv, TypeOK, StaffProfile
<1>2. RolesExist' /\ ((\A m \in Members : profiles[m].exists => Current(m))
                         => \A m \in Members : profiles'[m].exists => Current(m)')
  BY <1>1, RowsKept DEF SerialInv
<1> QED
  BY <1>2, SerialStep DEF SerialInv

(***************************************************************************)
(* While no two requests have overlapped, whatever a request has read      *)
(* still stands when it writes, and every profile shows what its role      *)
(* gives; a role that is held exists even when they overlap.               *)
(***************************************************************************)
THEOREM SerialInvariant == Spec => []SerialInv
<1> USE AccessAssumption
<1>1. Init /\ TypeInv => SerialInv
  <2> SUFFICES ASSUME Init, TypeInv PROVE SerialInv
    OBVIOUS
  <2>1. \A c \in Callers : call[c].step = "idle"
    BY DEF Init, Idle
  <2>2. \A c, d \in Callers : call[c] = Idle
    BY DEF Init
  <2>3. ASSUME NEW m \in Members, profiles[m].exists
        PROVE  roles[profiles[m].role].exists /\ Current(m)
    <3>1. m = Founder /\ profiles[m].role = FounderRole
          /\ profiles[m].overrides = NoOverrides
          /\ profiles[m].grants = ResolveMemberPermissions(
                                   FounderRole, Provisioned(FounderRole), NoOverrides)
      BY <2>3 DEF Init, NoProfile
    <3>2. roles[FounderRole].exists /\ ~roles[FounderRole].deleted
          /\ roles[FounderRole].grants = Provisioned(FounderRole)
      BY DEF Init
    <3> QED
      BY <3>1, <3>2 DEF Current
  <2> QED
    BY <2>1, <2>2, <2>3 DEF SerialInv, RolesExist, OneAtATime, ReadsStand
<1>2. TypeInv /\ TypeInv' /\ SerialInv /\ [Next]_vars => SerialInv'
  <2> SUFFICES ASSUME TypeInv, TypeInv', SerialInv, [Next]_vars PROVE SerialInv'
    OBVIOUS
  <2>1. /\ \A c \in Callers : call[c] \in Call /\ WellNamed(call[c])
        /\ \A m \in Members : profiles[m] \in StaffProfile /\ profiles[m].role \in Roles
        /\ \A r \in Roles : roles[r] \in StaffRole
    BY DEF TypeInv, TypeOK, StaffProfile, Requests
  <2>2. RolesExist
    BY DEF SerialInv
  <2>3. Idle.step = "idle" /\ Idle \in Requests
    BY ConstantsTyped DEF Idle
  <2>10. ASSUME NEW c \in Callers, NEW a \in Members, NEW m \in Members, NEW r \in Roles,
                NEW active \in BOOLEAN, NEW g \in Submissions,
                BeginCreate(c, a, m, r, active, g[1], g[2])
         PROVE  SerialInv'
    <3> DEFINE q == [Idle EXCEPT !.step = "createUser", !.who = m, !.role = r,
                       !.active = active, !.sent = g[1], !.grid = g[2],
                       !.terms = TermsOf(roles[r])]
    <3>1. q.terms = TermsOf(roles[r]) /\ q.step = "createUser" /\ q.role = r
      BY DEF Idle
    <3>2. Start(c, a, q) /\ Live(roles[r]) /\ UNCHANGED <<roles, profiles>>
      BY <2>10 DEF BeginCreate
    <3> HIDE DEF q
    <3>3. ASSUME call'[c] = q PROVE ReadsStand(c)'
      BY <3>1, <3>2, <3>3 DEF ReadsStand, Live, TermsOf
    <3> QED
      BY <3>2, <3>3, StartsAlone, SerialCall
  <2>11. ASSUME NEW c \in Callers, NEW a \in Members, NEW m \in Members, NEW r \in Roles,
                NEW active \in BOOLEAN, NEW reset \in BOOLEAN, NEW g \in Submissions,
                BeginUpdate(c, a, m, r, active, g[1], g[2], reset)
         PROVE  SerialInv'
    <3> DEFINE p == profiles[m]
               own == roles[p.role]
               step == IF r # p.role THEN "readRole"
                       ELSE IF LosingAdmin(own, own, active) THEN "countAdmins"
                       ELSE "writeMember"
               q == [Idle EXCEPT !.step = step, !.who = m, !.role = r, !.active = active,
                       !.sent = g[1], !.grid = g[2], !.reset = reset, !.seen = SeenOf(p),
                       !.terms = TermsOf(own)]
    <3>1. /\ q.terms = TermsOf(own) /\ q.step = step /\ q.who = m /\ q.role = r
          /\ q.seen = SeenOf(p)
      BY DEF Idle
    <3>2. Start(c, a, q) /\ Live(p) /\ UNCHANGED <<roles, profiles>>
      BY <2>11 DEF BeginUpdate
    <3>3. step \in {"readRole", "countAdmins", "writeMember"} /\ (step # "readRole" => r = p.role)
      OBVIOUS
    <3> HIDE DEF q, step
    <3>4. ASSUME ~overlapped PROVE Live(own)
      BY <3>2, <3>4 DEF SerialInv, RolesExist, Current, Live
    <3>5. ASSUME ~overlapped, call'[c] = q PROVE ReadsStand(c)'
      BY <3>1, <3>2, <3>3, <3>4, <3>5 DEF ReadsStand, Live, TermsOf, SeenOf
    <3> QED
      BY <3>2, <3>5, StartsAlone, SerialCall
  <2>12. ASSUME NEW c \in Callers, CreateUser(c) PROVE SerialInv'
    <3>1. call[c].step = "createUser" /\ UNCHANGED <<roles, profiles, overlapped>>
      BY <2>12 DEF CreateUser
    <3>2. CASE Finish(c)
      BY <2>3, <3>1, <3>2, FinishEnds, OthersIdle, IdleStands, SerialCall DEF SerialInv
    <3>3. CASE Goto(c, "writeProfile")
      <4>1. /\ call'[c].step = "writeProfile"
            /\ call'[c].role = call[c].role /\ call'[c].terms = call[c].terms
            /\ \A d \in Callers \ {c} : call'[d] = call[d]
        BY <3>3, GotoKeeps DEF Steps
      <4>2. ASSUME ~overlapped PROVE ReadsStand(c)'
        <5>1. ReadsStand(c)
          BY <4>2 DEF SerialInv
        <5> QED
          BY <3>1, <4>1, <5>1 DEF ReadsStand, Live, TermsOf
      <4> QED
        BY <2>3, <3>1, <4>1, <4>2, OthersIdle, SerialCall DEF SerialInv
    <3>4. Finish(c) \/ Goto(c, "writeProfile")
      BY <2>12 DEF CreateUser
    <3> QED
      BY <3>2, <3>3, <3>4
  <2>13. ASSUME NEW c \in Callers, WriteProfile(c) PROVE SerialInv'
    <3> DEFINE q == call[c]
    <3>1. /\ q.step = "writeProfile" /\ Finish(c) /\ UNCHANGED <<roles, overlapped>>
          /\ q.who \in Members /\ q.role \in Roles
      BY <2>1, <2>13 DEF WriteProfile, WellNamed
    <3>2. call'[c] = Idle /\ \A d \in Callers \ {c} : call'[d] = call[d]
      BY <3>1, FinishEnds
    <3>3. CASE roles[q.role].exists
      <4>1. profiles' = [profiles EXCEPT ![q.who] = NewProfile(c)]
        BY <2>13, <3>3 DEF WriteProfile
      <4> DEFINE row == NewProfile(c)
      <4>2. /\ row.role = q.role
            /\ row.grants = ResolveMemberPermissions(q.role, q.terms.grants, row.overrides)
        BY DEF NewProfile
      <4>3. profiles'[q.who] = row /\ \A m \in Members \ {q.who} : profiles'[m] = profiles[m]
        BY <3>1, <4>1 DEF TypeInv, TypeOK
      <4> HIDE DEF row
      <4>4. RolesExist'
        BY <2>2, <3>1, <3>3, <4>2, <4>3 DEF RolesExist
      <4>5. ASSUME ~overlapped PROVE \A m \in Members : profiles'[m].exists => Current(m)'
        <5>1. Live(roles[q.role]) /\ q.terms = TermsOf(roles[q.role])
          BY <3>1, <4>5 DEF SerialInv, ReadsStand
        <5>2. q.terms.grants = roles[q.role].grants
          BY <5>1 DEF TermsOf
        <5>3. PICK w \in Members : w = q.who
          BY <3>1
        <5>4. Current(w)'
          BY <3>1, <4>2, <4>3, <5>1, <5>2, <5>3 DEF Current, Live, ResolveMemberPermissions
        <5>5. \A m \in Members \ {w} : profiles'[m].exists => Current(m)'
          BY <3>1, <4>3, <4>5, <5>3 DEF Current, ResolveMemberPermissions, SerialInv
        <5> QED
          BY <5>4, <5>5
      <4> QED
        BY <2>3, <3>1, <3>2, <4>4, <4>5, OthersIdle, IdleStands, SerialStep DEF SerialInv
    <3>4. CASE ~roles[q.role].exists
      <4>1. profiles' = profiles
        BY <2>13, <3>4 DEF WriteProfile
      <4> QED
        BY <2>3, <3>1, <3>2, <4>1, OthersIdle, IdleStands, SerialCall DEF SerialInv
    <3> QED
      BY <3>3, <3>4
  <2>14. ASSUME NEW c \in Callers, ReadRole(c) PROVE SerialInv'
    <3> DEFINE q == call[c]
               target == roles[q.role]
    <3>1. q.step = "readRole" /\ UNCHANGED <<roles, profiles, overlapped>> /\ q.role \in Roles
      BY <2>1, <2>14 DEF ReadRole, WellNamed
    <3>2. CASE Finish(c)
      BY <2>3, <3>1, <3>2, FinishEnds, OthersIdle, IdleStands, SerialCall DEF SerialInv
    <3>3. CASE Live(target)
      <4> DEFINE s == IF LosingAdmin(q.terms, target, q.active) THEN "countAdmins"
                      ELSE "writeMember"
                 n == [q EXCEPT !.step = s, !.terms = TermsOf(target)]
      <4>1. s \in {"countAdmins", "writeMember"}
        OBVIOUS
      <4>2. call' = [call EXCEPT ![c] = n]
        BY <2>14, <3>3 DEF ReadRole
      <4>3. /\ n.step = s /\ n.terms = TermsOf(target) /\ n.role = q.role /\ n.who = q.who
            /\ n.seen = q.seen
        BY <2>1 DEF Call
      <4> HIDE DEF n, s
      <4>4. call'[c] = n /\ \A d \in Callers \ {c} : call'[d] = call[d]
        BY <4>2 DEF TypeInv
      <4>5. ASSUME ~overlapped PROVE ReadsStand(c)'
        <5>1. Live(profiles[q.who]) /\ q.seen = SeenOf(profiles[q.who])
          BY <3>1, <4>5 DEF SerialInv, ReadsStand
        <5> QED
          BY <3>1, <3>3, <4>1, <4>3, <4>4, <5>1 DEF ReadsStand, Live, TermsOf, SeenOf
      <4> QED
        BY <2>3, <3>1, <4>4, <4>5, OthersIdle, SerialCall DEF SerialInv
    <3>4. Finish(c) \/ Live(target)
      BY <2>14 DEF ReadRole
    <3> QED
      BY <3>2, <3>3, <3>4
  <2>15. ASSUME NEW c \in Callers, CountAdmins(c) PROVE SerialInv'
    <3>1. call[c].step = "countAdmins" /\ UNCHANGED <<roles, profiles, overlapped>>
      BY <2>15 DEF CountAdmins
    <3>2. CASE Finish(c)
      BY <2>3, <3>1, <3>2, FinishEnds, OthersIdle, IdleStands, SerialCall DEF SerialInv
    <3>3. CASE Goto(c, "writeMember")
      <4>1. /\ call'[c].step = "writeMember" /\ call'[c].who = call[c].who
            /\ call'[c].role = call[c].role /\ call'[c].terms = call[c].terms
            /\ call'[c].seen = call[c].seen
            /\ \A d \in Callers \ {c} : call'[d] = call[d]
        BY <3>3, GotoKeeps DEF Steps
      <4>2. ASSUME ~overlapped PROVE ReadsStand(c)'
        <5>1. ReadsStand(c)
          BY <4>2 DEF SerialInv
        <5> QED
          BY <3>1, <4>1, <5>1 DEF ReadsStand, Live, TermsOf, SeenOf
      <4> QED
        BY <2>3, <3>1, <4>1, <4>2, OthersIdle, SerialCall DEF SerialInv
    <3>4. Finish(c) \/ Goto(c, "writeMember")
      BY <2>15 DEF CountAdmins
    <3> QED
      BY <3>2, <3>3, <3>4
  <2>16. ASSUME NEW c \in Callers, WriteMember(c) PROVE SerialInv'
    <3> DEFINE q == call[c]
    <3>1. /\ q.step = "writeMember" /\ Finish(c) /\ UNCHANGED <<roles, overlapped>>
          /\ q.who \in Members /\ q.role \in Roles
      BY <2>1, <2>16 DEF WriteMember, WellNamed
    <3>2. call'[c] = Idle /\ \A d \in Callers \ {c} : call'[d] = call[d]
      BY <3>1, FinishEnds
    <3>3. CASE profiles[q.who].exists /\ roles[q.role].exists
      <4> DEFINE g == ResolveMemberPermissions(q.role, q.terms.grants, SavedOverrides(c))
                 row == [profiles[q.who] EXCEPT !.role = q.role, !.active = q.active,
                           !.overrides = SavedOverrides(c), !.grants = g]
      <4>1. profiles' = [profiles EXCEPT ![q.who] = row]
        BY <2>16, <3>3 DEF WriteMember
      <4>2. row.role = q.role /\ row.overrides = SavedOverrides(c) /\ row.grants = g
        BY <2>1, <3>1 DEF StaffProfile
      <4> HIDE DEF row
      <4>3. profiles'[q.who] = row /\ \A m \in Members \ {q.who} : profiles'[m] = profiles[m]
        BY <3>1, <4>1 DEF TypeInv, TypeOK
      <4>4. RolesExist'
        BY <2>2, <3>1, <3>3, <4>2, <4>3 DEF RolesExist
      <4>5. ASSUME ~overlapped PROVE \A m \in Members : profiles'[m].exists => Current(m)'
        <5>1. Live(roles[q.role]) /\ q.terms = TermsOf(roles[q.role])
          BY <3>1, <4>5 DEF SerialInv, ReadsStand
        <5>2. q.terms.grants = roles[q.role].grants
          BY <5>1 DEF TermsOf
        <5>3. PICK w \in Members : w = q.who
          BY <3>1
        <5>4. Current(w)'
          BY <3>1, <4>2, <4>3, <5>1, <5>2, <5>3 DEF Current, Live, ResolveMemberPermissions
        <5>5. \A m \in Members \ {w} : profiles'[m].exists => Current(m)'
          BY <3>1, <4>3, <4>5, <5>3 DEF Current, ResolveMemberPermissions, SerialInv
        <5> QED
          BY <5>4, <5>5
      <4> QED
        BY <2>3, <3>1, <3>2, <4>4, <4>5, OthersIdle, IdleStands, SerialStep DEF SerialInv
    <3>4. CASE ~(profiles[q.who].exists /\ roles[q.role].exists)
      <4>1. profiles' = profiles
        BY <2>16, <3>4 DEF WriteMember
      <4> QED
        BY <2>3, <3>1, <3>2, <4>1, OthersIdle, IdleStands, SerialCall DEF SerialInv
    <3> QED
      BY <3>3, <3>4
  <2>17. ASSUME NEW a \in Members, NEW r \in Roles, NEW auth \in Auths, NEW grid \in Grids,
                CreateRole(a, r, auth, grid)
         PROVE  SerialInv'
    <3> DEFINE row == [exists |-> TRUE, deleted |-> FALSE, auth |-> auth,
                       grants |-> SanitizePermissionKeys(grid, {})]
    <3>1. /\ ~roles[r].exists /\ roles' = [roles EXCEPT ![r] = row]
          /\ Begins(Callers) /\ UNCHANGED <<profiles, call>>
      BY <2>17 DEF CreateRole
    <3> HIDE DEF row
    <3>2. \A x \in Roles \ {r} : roles'[x] = roles[x]
      BY <3>1 DEF TypeInv, TypeOK
    <3>3. \A m \in Members : profiles[m].exists => profiles[m].role \in Roles \ {r}
      BY <2>1, <2>2, <3>1 DEF RolesExist
    <3>4. RolesExist'
      BY <2>2, <3>1, <3>2, <3>3 DEF RolesExist
    <3>5. ASSUME ~overlapped, NEW m \in Members, profiles'[m].exists PROVE Current(m)'
      BY <3>1, <3>2, <3>3, <3>5 DEF Current, ResolveMemberPermissions, SerialInv
    <3> QED
      BY <3>1, <3>4, <3>5, BeginsAlone, SerialRest
  <2>18. ASSUME NEW c \in Callers, NEW a \in Members, NEW r \in Roles, NEW auth \in Auths,
                NEW g \in Submissions, BeginRoleEdit(c, a, r, auth, g[1], g[2])
         PROVE  SerialInv'
    <3> DEFINE step == IF roles[r].auth = "admin" /\ auth # "admin" THEN "countRole"
                       ELSE "openRole"
               q == [Idle EXCEPT !.step = step, !.role = r, !.auth = auth, !.sent = g[1],
                       !.grid = g[2], !.terms = TermsOf(roles[r])]
    <3>1. q.terms = TermsOf(roles[r]) /\ q.step = step /\ q.role = r
      BY DEF Idle
    <3>2. Start(c, a, q) /\ Live(roles[r]) /\ UNCHANGED <<roles, profiles>>
      BY <2>18 DEF BeginRoleEdit
    <3>3. step \in {"countRole", "openRole"}
      OBVIOUS
    <3> HIDE DEF q, step
    <3>4. ASSUME call'[c] = q PROVE ReadsStand(c)'
      BY <3>1, <3>2, <3>3, <3>4 DEF ReadsStand, Live, TermsOf
    <3> QED
      BY <3>2, <3>4, StartsAlone, SerialCall
  <2>19. ASSUME NEW c \in Callers, CountRole(c) PROVE SerialInv'
    <3>1. call[c].step = "countRole" /\ UNCHANGED <<roles, profiles, overlapped>>
      BY <2>19 DEF CountRole
    <3>2. CASE Finish(c)
      BY <2>3, <3>1, <3>2, FinishEnds, OthersIdle, IdleStands, SerialCall DEF SerialInv
    <3>3. CASE Goto(c, "openRole")
      <4>1. /\ call'[c].step = "openRole"
            /\ call'[c].role = call[c].role /\ call'[c].terms = call[c].terms
            /\ \A d \in Callers \ {c} : call'[d] = call[d]
        BY <3>3, GotoKeeps DEF Steps
      <4>2. ASSUME ~overlapped PROVE ReadsStand(c)'
        <5>1. ReadsStand(c)
          BY <4>2 DEF SerialInv
        <5> QED
          BY <3>1, <4>1, <5>1 DEF ReadsStand, Live, TermsOf
      <4> QED
        BY <2>3, <3>1, <4>1, <4>2, OthersIdle, SerialCall DEF SerialInv
    <3>4. Finish(c) \/ Goto(c, "openRole")
      BY <2>19 DEF CountRole
    <3> QED
      BY <3>2, <3>3, <3>4
  <2>20. ASSUME NEW c \in Callers, OpenRole(c) PROVE SerialInv'
    <3> DEFINE q == call[c]
               ms == IF GrantsChanged(c) THEN Holders(q.role) ELSE {}
               held == [m \in ms |-> profiles[m].overrides]
               n == [q EXCEPT !.step = "commitRole", !.held = held]
    <3>1. q.step = "openRole" /\ UNCHANGED <<roles, profiles, overlapped>>
      BY <2>20 DEF OpenRole
    <3>2. CASE Finish(c)
      BY <2>3, <3>1, <3>2, FinishEnds, OthersIdle, IdleStands, SerialCall DEF SerialInv
    <3>3. CASE call' = [call EXCEPT ![c] = n]
      <4>1. /\ n.step = "commitRole" /\ n.held = held
            /\ n.role = q.role /\ n.terms = q.terms /\ n.sent = q.sent /\ n.grid = q.grid
        BY <2>1 DEF Call
      <4> HIDE DEF n
      <4>2. call'[c] = n /\ \A d \in Callers \ {c} : call'[d] = call[d]
        BY <3>3 DEF TypeInv
      <4>3. GrantsChanged(c)' = GrantsChanged(c)
        BY <4>1, <4>2 DEF GrantsChanged, NextGrants
      <4>4. Holders(call[c].role)' = Holders(call[c].role)
        BY <3>1, <4>1, <4>2 DEF Holders
      <4>5. ASSUME ~overlapped PROVE ReadsStand(c)'
        <5>1. Live(roles[q.role]) /\ q.terms = TermsOf(roles[q.role])
          BY <3>1, <4>5 DEF SerialInv, ReadsStand
        <5>2. call'[c].held = [m \in IF GrantsChanged(c)' THEN Holders(call[c].role)' ELSE {} |->
                                 profiles'[m].overrides]
          BY <3>1, <4>1, <4>2, <4>3, <4>4
        <5> QED
          BY <3>1, <4>1, <4>2, <5>1, <5>2 DEF ReadsStand, Live, TermsOf
      <4> QED
        BY <2>3, <3>1, <4>2, <4>5, OthersIdle, SerialCall DEF SerialInv
    <3>4. Finish(c) \/ call' = [call EXCEPT ![c] = n]
      BY <2>20 DEF OpenRole
    <3> QED
      BY <3>2, <3>3, <3>4
  <2>21. ASSUME NEW c \in Callers, CommitRole(c) PROVE SerialInv'
    <3> DEFINE q == call[c]
    <3>1. /\ q.step = "commitRole" /\ Finish(c) /\ UNCHANGED overlapped
          /\ q.role \in Roles
      BY <2>1, <2>21 DEF CommitRole, WellNamed
    <3>2. call'[c] = Idle /\ \A d \in Callers \ {c} : call'[d] = call[d]
      BY <3>1, FinishEnds
    <3>3. CASE UNCHANGED <<roles, profiles>>
      BY <2>3, <3>1, <3>2, <3>3, OthersIdle, IdleStands, SerialCall DEF SerialInv
    <3>4. CASE ~UNCHANGED <<roles, profiles>>
      <4> DEFINE a == IF q.auth # q.terms.auth THEN q.auth ELSE roles[q.role].auth
                 g == IF GrantsChanged(c) THEN NextGrants(c) ELSE roles[q.role].grants
                 row == [roles[q.role] EXCEPT !.auth = a, !.grants = g]
                 given(m) == ResolveMemberPermissions(q.role, NextGrants(c), q.held[m])
      <4>1. /\ roles' = [roles EXCEPT ![q.role] = row]
            /\ profiles' = [m \in Members |->
                 IF m \in DOMAIN q.held THEN [profiles[m] EXCEPT !.grants = given(m)]
                 ELSE profiles[m]]
        BY <2>21, <3>4 DEF CommitRole
      <4>2. row.exists = roles[q.role].exists /\ row.deleted = roles[q.role].deleted
            /\ row.grants = g
        BY <2>1, <3>1 DEF StaffRole
      <4> HIDE DEF row
      <4>3. roles'[q.role] = row /\ \A x \in Roles \ {q.role} : roles'[x] = roles[x]
        BY <3>1, <4>1 DEF TypeInv, TypeOK
      <4>4. \A m \in Members : UNCHANGED <<profiles[m].exists, profiles[m].role,
                                           profiles[m].overrides>>
        BY <2>1, <4>1 DEF StaffProfile
      <4>5. \A m \in Members : profiles'[m].grants = IF m \in DOMAIN q.held THEN given(m)
                                                    ELSE profiles[m].grants
        BY <2>1, <4>1 DEF StaffProfile
      <4>6. RolesExist'
        BY <2>1, <2>2, <4>2, <4>3, <4>4 DEF RolesExist
      <4>7. ASSUME ~overlapped, NEW m \in Members, profiles'[m].exists PROVE Current(m)'
        <5>1. /\ q.held = [x \in IF GrantsChanged(c) THEN Holders(q.role) ELSE {} |->
                             profiles[x].overrides]
              /\ Current(m)
          BY <3>1, <4>4, <4>7 DEF SerialInv, ReadsStand
        <5>2. CASE profiles[m].role # q.role
          <6>1. m \notin DOMAIN q.held
            BY <5>1, <5>2 DEF Holders
          <6>2. profiles'[m].grants = profiles[m].grants
                /\ roles'[profiles[m].role] = roles[profiles[m].role]
            BY <2>1, <4>3, <4>5, <5>2, <6>1
          <6> QED
            BY <4>4, <5>1, <6>2 DEF Current, ResolveMemberPermissions
        <5>3. CASE profiles[m].role = q.role /\ GrantsChanged(c)
          <6>1. m \in DOMAIN q.held /\ q.held[m] = profiles[m].overrides
            BY <4>4, <4>7, <5>1, <5>3 DEF Holders
          <6> QED
            BY <4>2, <4>3, <4>4, <4>5, <5>1, <5>3, <6>1 DEF Current, ResolveMemberPermissions
        <5>4. CASE profiles[m].role = q.role /\ ~GrantsChanged(c)
          <6>1. m \notin DOMAIN q.held
            BY <5>1, <5>4
          <6> QED
            BY <4>2, <4>3, <4>4, <4>5, <5>1, <5>4, <6>1 DEF Current, ResolveMemberPermissions
        <5> QED
          BY <5>2, <5>3, <5>4
      <4> QED
        BY <2>3, <3>1, <3>2, <4>6, <4>7, OthersIdle, IdleStands, SerialStep DEF SerialInv
    <3> QED
      BY <3>3, <3>4
  <2>22. ASSUME NEW c \in Callers, NEW a \in Members, NEW m \in Members, TrashMember(c, a, m)
         PROVE  SerialInv'
    <3> DEFINE q == [Idle EXCEPT !.step = "stampMember", !.who = m]
    <3>1. q.step = "stampMember"
      BY DEF Idle
    <3>2. Start(c, a, q) /\ UNCHANGED <<roles, profiles>>
      BY <2>22 DEF TrashMember
    <3> HIDE DEF q
    <3> QED
      BY <3>1, <3>2, StartsAlone, StampsStand, SerialCall
  <2>23. ASSUME NEW c \in Callers, StampMember(c) PROVE SerialInv'
    <3>1. /\ call[c].step = "stampMember" /\ UNCHANGED <<roles, overlapped>>
          /\ profiles' = profiles
             \/ profiles' = [profiles EXCEPT ![call[c].who].deleted = TRUE]
      BY <2>23 DEF StampMember
    <3>2. \A m \in Members :
            UNCHANGED <<profiles[m].exists, profiles[m].role, profiles[m].overrides,
                        profiles[m].grants>>
      BY <2>1, <3>1 DEF TypeInv, TypeOK, StaffProfile
    <3>3. /\ RolesExist'
          /\ (\A m \in Members : profiles[m].exists => Current(m))
               => \A m \in Members : profiles'[m].exists => Current(m)'
      BY <2>1, <2>2, <3>1, <3>2, RowsKept
    <3>4. ReadsStand(c)' /\ \A d \in Callers \ {c} : call'[d] = call[d]
      <4>1. CASE Finish(c)
        BY <4>1, FinishEnds, IdleStands
      <4>2. CASE Goto(c, "revoke")
        BY <4>2, GotoKeeps, StampsStand DEF Steps
      <4> QED
        BY <2>23, <4>1, <4>2 DEF StampMember
    <3> QED
      BY <2>3, <3>1, <3>3, <3>4, OthersIdle, SerialStep DEF SerialInv
  <2>24. ASSUME NEW c \in Callers, RevokeStaffAccess(c) PROVE SerialInv'
    <3>1. /\ call[c].step = "revoke" /\ Finish(c)
          /\ UNCHANGED <<roles, profiles, overlapped>>
      BY <2>24 DEF RevokeStaffAccess
    <3> QED
      BY <2>3, <3>1, FinishEnds, OthersIdle, IdleStands, SerialCall DEF SerialInv
  <2>25. ASSUME NEW c \in Callers, NEW a \in Members, NEW m \in Members, RestoreMember(c, a, m)
         PROVE  SerialInv'
    <3> DEFINE q == [Idle EXCEPT !.step = "allow", !.who = m]
    <3>1. q.step = "allow"
      BY DEF Idle
    <3>2. Start(c, a, q) /\ roles' = roles
          /\ profiles' = [profiles EXCEPT ![m].deleted = FALSE]
      BY <2>25 DEF RestoreMember
    <3> HIDE DEF q
    <3>3. \A x \in Members :
            UNCHANGED <<profiles[x].exists, profiles[x].role, profiles[x].overrides,
                        profiles[x].grants>>
      BY <2>1, <3>2 DEF TypeInv, TypeOK, StaffProfile
    <3>4. /\ RolesExist'
          /\ (\A x \in Members : profiles[x].exists => Current(x))
               => \A x \in Members : profiles'[x].exists => Current(x)'
      BY <2>1, <2>2, <3>2, <3>3, RowsKept
    <3> QED
      BY <3>1, <3>2, <3>4, StartsAlone, StampsStand, SerialStep DEF SerialInv
  <2>26. ASSUME NEW c \in Callers, RestoreStaffAccess(c) PROVE SerialInv'
    <3>1. /\ call[c].step = "allow" /\ Finish(c)
          /\ UNCHANGED <<roles, profiles, overlapped>>
      BY <2>26 DEF RestoreStaffAccess
    <3> QED
      BY <2>3, <3>1, FinishEnds, OthersIdle, IdleStands, SerialCall DEF SerialInv
  <2>27. ASSUME NEW m \in Members, PurgeMember(m) PROVE SerialInv'
    <3>1. /\ profiles' = [profiles EXCEPT ![m] = NoProfile]
          /\ Begins(Callers) /\ UNCHANGED <<roles, call>>
      BY <2>27 DEF PurgeMember
    <3>2. ~profiles'[m].exists /\ \A x \in Members \ {m} : profiles'[x] = profiles[x]
      BY <3>1 DEF TypeInv, TypeOK, NoProfile
    <3>3. RolesExist'
      BY <2>2, <3>1, <3>2 DEF RolesExist
    <3>4. ASSUME ~overlapped, NEW x \in Members, profiles'[x].exists PROVE Current(x)'
      BY <3>1, <3>2, <3>4 DEF Current, ResolveMemberPermissions, SerialInv
    <3> QED
      BY <3>1, <3>3, <3>4, BeginsAlone, SerialRest
  <2>28. ASSUME NEW c \in Callers, NEW a \in Members, NEW r \in Roles, TrashRole(c, a, r)
         PROVE  SerialInv'
    <3> DEFINE q == [Idle EXCEPT !.step = "stampRole", !.role = r]
    <3>1. q.step = "stampRole" /\ q.role = r
      BY DEF Idle
    <3>2. Start(c, a, q) /\ UNCHANGED <<roles, profiles>> /\ Holders(r) = {}
      BY <2>28 DEF TrashRole, Held
    <3> HIDE DEF q
    <3>3. ASSUME call'[c] = q PROVE ReadsStand(c)'
      BY <3>1, <3>2, <3>3 DEF ReadsStand, Holders
    <3> QED
      BY <3>2, <3>3, StartsAlone, SerialCall
  <2>29. ASSUME NEW c \in Callers, StampRole(c) PROVE SerialInv'
    <3> DEFINE r == call[c].role
    <3>1. /\ call[c].step = "stampRole" /\ Finish(c)
          /\ UNCHANGED <<profiles, overlapped>> /\ r \in Roles
          /\ roles' = roles \/ roles' = [roles EXCEPT ![r].deleted = TRUE]
      BY <2>1, <2>29 DEF StampRole, WellNamed
    <3>2. /\ \A x \in Roles : roles'[x].exists = roles[x].exists
          /\ \A x \in Roles \ {r} : roles'[x] = roles[x]
      BY <2>1, <3>1 DEF TypeInv, TypeOK, StaffRole
    <3>3. RolesExist'
      BY <2>1, <2>2, <3>1, <3>2 DEF RolesExist
    <3>4. ASSUME ~overlapped, NEW m \in Members, profiles'[m].exists PROVE Current(m)'
      <4>1. Holders(r) = {}
        BY <3>1, <3>4 DEF SerialInv, ReadsStand
      <4>2. profiles[m].role \in Roles \ {r}
        BY <2>1, <3>1, <3>4, <4>1 DEF Holders
      <4> QED
        BY <3>1, <3>2, <3>4, <4>2 DEF Current, ResolveMemberPermissions, SerialInv
    <3> QED
      BY <2>3, <3>1, <3>3, <3>4, FinishEnds, OthersIdle, IdleStands, SerialStep DEF SerialInv
  <2>30. ASSUME NEW a \in Members, NEW r \in Roles, RestoreRole(a, r) PROVE SerialInv'
    <3>1. /\ roles' = [roles EXCEPT ![r].deleted = FALSE]
          /\ Begins(Callers) /\ UNCHANGED <<profiles, call>>
      BY <2>30 DEF RestoreRole
    <3>2. \A x \in Roles : /\ UNCHANGED <<roles[x].exists, roles[x].grants>>
                           /\ roles'[x].deleted => roles[x].deleted
      BY <2>1, <3>1 DEF TypeInv, TypeOK, StaffRole
    <3>3. /\ RolesExist'
          /\ (\A m \in Members : profiles[m].exists => Current(m))
               => \A m \in Members : profiles'[m].exists => Current(m)'
      BY <2>1, <2>2, <3>1, <3>2, RowsKept
    <3> QED
      BY <3>1, <3>3, BeginsAlone, SerialRest DEF SerialInv
  <2>31. ASSUME NEW r \in Roles, PurgeRole(r) PROVE SerialInv'
    <3>1. /\ Holders(r) = {} /\ roles' = [roles EXCEPT ![r] = NoRole]
          /\ Begins(Callers) /\ UNCHANGED <<profiles, call>>
      BY <2>31 DEF PurgeRole
    <3>2. \A x \in Roles \ {r} : roles'[x] = roles[x]
      BY <3>1 DEF TypeInv, TypeOK
    <3>3. \A m \in Members : profiles[m].exists => profiles[m].role \in Roles \ {r}
      BY <2>1, <3>1 DEF Holders
    <3>4. RolesExist'
      BY <2>2, <3>1, <3>2, <3>3 DEF RolesExist
    <3>5. ASSUME ~overlapped, NEW m \in Members, profiles'[m].exists PROVE Current(m)'
      BY <3>1, <3>2, <3>3, <3>5 DEF Current, ResolveMemberPermissions, SerialInv
    <3> QED
      BY <3>1, <3>4, <3>5, BeginsAlone, SerialRest
  <2>32. CASE UNCHANGED vars
    <3>1. UNCHANGED <<roles, profiles, call, overlapped>>
      BY <2>32 DEF vars
    <3>2. \A c \in Callers : GrantsChanged(c)' = GrantsChanged(c)
      BY <3>1 DEF GrantsChanged, NextGrants
    <3>3. \A c \in Callers : Holders(call[c].role)' = Holders(call[c].role)
      BY <3>1 DEF Holders
    <3>4. \A c \in Callers : ReadsStand(c) => ReadsStand(c)'
      BY <3>1, <3>2, <3>3 DEF ReadsStand, Live
    <3>5. \A m \in Members : Current(m) => Current(m)'
      BY <3>1 DEF Current, ResolveMemberPermissions
    <3> QED
      BY <3>1, <3>4, <3>5 DEF SerialInv, RolesExist, OneAtATime
  <2>33. ASSUME NEW c \in Callers, Team(c) PROVE SerialInv'
    <3>1. CASE \E a, m \in Members, r \in Roles, on \in BOOLEAN, g \in Submissions :
                 BeginCreate(c, a, m, r, on, g[1], g[2])
      BY <2>10, <3>1
    <3>2. CASE \E a, m \in Members, r \in Roles, on, reset \in BOOLEAN, g \in Submissions :
                 BeginUpdate(c, a, m, r, on, g[1], g[2], reset)
      BY <2>11, <3>2
    <3>3. CASE CreateUser(c) \/ WriteProfile(c) \/ ReadRole(c) \/ CountAdmins(c) \/ WriteMember(c)
      BY <2>12, <2>13, <2>14, <2>15, <2>16, <3>3
    <3> QED
      BY <2>33, <3>1, <3>2, <3>3 DEF Team
  <2>34. ASSUME NEW c \in Callers, RoleEdits(c) PROVE SerialInv'
    BY <2>18, <2>19, <2>20, <2>21, <2>34 DEF RoleEdits
  <2>35. ASSUME NEW c \in Callers, Trash(c) PROVE SerialInv'
    BY <2>22, <2>23, <2>24, <2>25, <2>26, <2>28, <2>29, <2>35 DEF Trash
  <2> QED
    BY <2>17, <2>27, <2>30, <2>31, <2>32, <2>33, <2>34, <2>35 DEF Next
<1> QED
  BY <1>1, <1>2, TypesHold, PTL DEF Spec

(***************************************************************************)
(* While no two requests have overlapped, the grants stored for a member,  *)
(* deleted or not, are what the member's role and overrides give now.      *)
(***************************************************************************)
THEOREM GrantsAreCurrent == Spec => []GrantsFollowRole
<1>1. SerialInv => GrantsFollowRole
  BY DEF SerialInv, GrantsFollowRole, Current
<1> QED
  BY <1>1, SerialInvariant, PTL

(***************************************************************************)
(* A profile's role is a row of the table, for any number of overlapping   *)
(* requests; while none have overlapped it is not in the trash.            *)
(***************************************************************************)
THEOREM RolesHeldAreLive == Spec => []HeldRolesAreLive
<1>1. SerialInv => HeldRolesAreLive
  BY DEF SerialInv, HeldRolesAreLive, RolesExist, Current
<1> QED
  BY <1>1, SerialInvariant, PTL

-----------------------------------------------------------------------------
(* Accounts, profiles and the trash *)

\* The request that restores m has not reached the account yet.
BeingRestored(m) == \E c \in Callers : call[c].step = "allow" /\ call[c].who = m

\* A profile has an account, and what is in the trash is deleted.
AccountsExist ==
  /\ \A m \in Members : profiles[m].exists => users[m].exists
  /\ \A m \in bin \cap Members :
       profiles[m].exists /\ (profiles[m].deleted \/ BeingRestored(m))

\* What a request knows of the account it is about.
AccountStands(c) ==
  LET q == call[c] IN
  /\ q.step = "writeProfile" =>
       /\ users[q.who] = [exists |-> TRUE, banned |-> FALSE, role |-> "customer"]
       /\ ~profiles[q.who].exists
  /\ q.step = "revoke" => profiles[q.who].exists /\ profiles[q.who].deleted

AccountsInv == ~overlapped => AccountsExist /\ \A c \in Callers : AccountStands(c)

\* No request is at the account it restores.
NoneRestored == \A c \in Callers : call[c].step # "allow"

\* What is in the trash is deleted, nobody being restored.
Filed == \A m \in bin \cap Members : profiles[m].exists /\ profiles[m].deleted

\* Another request at work is the only one, so none is restoring.
LEMMA NotRestoring ==
  ASSUME SerialInv, ~overlapped, NEW c \in Callers, call[c].step \notin {"idle", "allow"}
  PROVE  NoneRestored
  BY DEF SerialInv, OneAtATime, NoneRestored, Idle

\* Nor is one when all are idle.
LEMMA IdleIsNotRestoring ==
  ASSUME \A c \in Callers : call[c] = Idle
  PROVE  NoneRestored
  BY DEF NoneRestored, Idle

\* Only two steps rest on what is known of the account.
LEMMA NothingKnown ==
  ASSUME NEW c \in Callers, call'[c].step \notin {"writeProfile", "revoke"}
  PROVE  AccountStands(c)'
  BY DEF AccountStands

\* One request moved, the accounts are in order.
LEMMA AccountsStep ==
  ASSUME NEW c \in Callers,
         ~overlapped' => /\ \A d \in Callers \ {c} : call'[d] = Idle
                         /\ AccountsExist'
                         /\ AccountStands(c)'
  PROVE  AccountsInv'
<1>1. Idle.step = "idle"
  BY DEF Idle
<1>2. ASSUME ~overlapped', NEW d \in Callers PROVE AccountStands(d)'
  BY <1>1, <1>2, NothingKnown
<1> QED
  BY <1>2 DEF AccountsInv

\* Nobody is at work, the accounts are in order.
LEMMA AccountsRest ==
  ASSUME ~overlapped' => /\ \A d \in Callers : call'[d] = Idle
                         /\ AccountsExist'
  PROVE  AccountsInv'
<1>1. Idle.step = "idle"
  BY DEF Idle
<1>2. ASSUME ~overlapped', NEW d \in Callers PROVE AccountStands(d)'
  BY <1>1, <1>2, NothingKnown
<1> QED
  BY <1>2 DEF AccountsInv

\* A request starts or moves on; no account, profile or entry changes.
LEMMA AccountsCall ==
  ASSUME AccountsInv, UNCHANGED <<profiles, users, bin>>, NEW c \in Callers,
         ~overlapped' => /\ ~overlapped /\ NoneRestored
                         /\ \A d \in Callers \ {c} : call'[d] = Idle
                         /\ AccountStands(c)'
  PROVE  AccountsInv'
<1>1. ASSUME ~overlapped' PROVE AccountsExist'
  BY <1>1 DEF AccountsInv, AccountsExist, NoneRestored, BeingRestored
<1> QED
  BY <1>1, AccountsStep

\* While no two requests have overlapped, every profile has an account and what is
\* in the trash is deleted or being restored: creating and restoring do not leave
\* one without the other.
THEOREM AccountsInvariant == Spec => []AccountsInv
<1> USE AccessAssumption
<1>1. Init => AccountsInv
  <2> SUFFICES ASSUME Init PROVE AccountsInv
    OBVIOUS
  <2>1. \A c \in Callers : call[c].step = "idle"
    BY DEF Init, Idle
  <2>2. \A m \in Members : profiles[m].exists => users[m].exists
    BY DEF Init, NoProfile
  <2> QED
    BY <2>1, <2>2 DEF Init, AccountsInv, AccountsExist, AccountStands
<1>2. TypeInv /\ SerialInv /\ AccountsInv /\ [Next]_vars => AccountsInv'
  <2> SUFFICES ASSUME TypeInv, SerialInv, AccountsInv, [Next]_vars PROVE AccountsInv'
    OBVIOUS
  <2>1. /\ \A c \in Callers : call[c] \in Call /\ WellNamed(call[c])
        /\ \A m \in Members : profiles[m] \in StaffProfile /\ users[m] \in User
    BY DEF TypeInv, TypeOK, Requests
  <2>2. Idle.step = "idle"
    BY DEF Idle
  <2>3. ~overlapped /\ NoneRestored =>
          Filed /\ \A m \in Members : profiles[m].exists => users[m].exists
    BY DEF AccountsInv, AccountsExist, NoneRestored, BeingRestored, Filed
  <2>4. Filed' /\ (\A m \in Members : profiles'[m].exists => users'[m].exists) => AccountsExist'
    BY DEF AccountsExist, Filed
  \* A request that starts: nobody was restoring, and it knows nothing yet.
  <2>5. ASSUME NEW c \in Callers, NEW a, NEW q, Start(c, a, q),
               q.step \notin {"writeProfile", "revoke"}, UNCHANGED <<profiles, users, bin>>
        PROVE  AccountsInv'
    BY <2>5, StartsAlone, IdleIsNotRestoring, NothingKnown, AccountsCall
  \* A request that moves on or ends, of which the same holds.
  <2>6. ASSUME NEW c \in Callers, call[c].step \notin {"idle", "allow"},
               \A d \in Callers \ {c} : call'[d] = call[d],
               call'[c].step \notin {"writeProfile", "revoke"},
               UNCHANGED <<profiles, users, bin, overlapped>>
        PROVE  AccountsInv'
    BY <2>2, <2>6, NotRestoring, OthersIdle, NothingKnown, AccountsCall DEF SerialInv
  <2>10. ASSUME NEW c \in Callers, NEW a \in Members, NEW m \in Members, NEW r \in Roles,
                NEW active \in BOOLEAN, NEW g \in Submissions,
                BeginCreate(c, a, m, r, active, g[1], g[2])
         PROVE  AccountsInv'
    <3> DEFINE q == [Idle EXCEPT !.step = "createUser", !.who = m, !.role = r,
                       !.active = active, !.sent = g[1], !.grid = g[2],
                       !.terms = TermsOf(roles[r])]
    <3>1. q.step = "createUser"
      BY DEF Idle
    <3>2. Start(c, a, q) /\ UNCHANGED <<profiles, users, bin>>
      BY <2>10 DEF BeginCreate
    <3> HIDE DEF q
    <3> QED
      BY <2>5, <3>1, <3>2
  <2>11. ASSUME NEW c \in Callers, NEW a \in Members, NEW m \in Members, NEW r \in Roles,
                NEW active \in BOOLEAN, NEW reset \in BOOLEAN, NEW g \in Submissions,
                BeginUpdate(c, a, m, r, active, g[1], g[2], reset)
         PROVE  AccountsInv'
    <3> DEFINE p == profiles[m]
               own == roles[p.role]
               step == IF r # p.role THEN "readRole"
                       ELSE IF LosingAdmin(own, own, active) THEN "countAdmins"
                       ELSE "writeMember"
               q == [Idle EXCEPT !.step = step, !.who = m, !.role = r, !.active = active,
                       !.sent = g[1], !.grid = g[2], !.reset = reset, !.seen = SeenOf(p),
                       !.terms = TermsOf(own)]
    <3>1. q.step = step /\ step \in {"readRole", "countAdmins", "writeMember"}
      BY DEF Idle
    <3>2. Start(c, a, q) /\ UNCHANGED <<profiles, users, bin>>
      BY <2>11 DEF BeginUpdate
    <3> HIDE DEF q, step
    <3> QED
      BY <2>5, <3>1, <3>2
  <2>12. ASSUME NEW c \in Callers, CreateUser(c) PROVE AccountsInv'
    <3> DEFINE w == call[c].who
               row == [exists |-> TRUE, banned |-> FALSE, role |-> "customer"]
    <3>1. /\ call[c].step = "createUser" /\ UNCHANGED <<profiles, bin, overlapped>>
          /\ w \in Members
      BY <2>1, <2>12 DEF CreateUser, WellNamed
    <3>2. CASE users[w].exists
      <4>1. Finish(c) /\ users' = users
        BY <2>12, <3>2 DEF CreateUser
      <4> QED
        BY <2>2, <2>6, <3>1, <4>1, FinishEnds
    <3>3. CASE ~users[w].exists
      <4>1. Goto(c, "writeProfile") /\ users' = [users EXCEPT ![w] = row]
        BY <2>12, <3>3 DEF CreateUser
      <4>2. /\ call'[c].step = "writeProfile" /\ call'[c].who = w
            /\ \A d \in Callers \ {c} : call'[d] = call[d]
        BY <4>1, GotoKeeps DEF Steps
      <4>3. users'[w] = row /\ \A m \in Members \ {w} : users'[m] = users[m]
        BY <3>1, <4>1 DEF TypeInv, TypeOK
      <4>4. ASSUME ~overlapped
            PROVE  /\ AccountsExist' /\ AccountStands(c)'
                   /\ \A d \in Callers \ {c} : call'[d] = Idle
        <5>1. NoneRestored
          BY <3>1, <4>4, NotRestoring
        <5>2. ~profiles[w].exists
          BY <2>3, <3>1, <3>3, <4>4, <5>1
        <5>3. AccountStands(c)'
          BY <3>1, <4>2, <4>3, <5>2 DEF AccountStands
        <5>4. AccountsExist'
          BY <2>3, <2>4, <3>1, <4>3, <4>4, <5>1, <5>2 DEF Filed
        <5>5. \A d \in Callers \ {c} : call'[d] = Idle
          BY <2>2, <3>1, <4>2, <4>4, OthersIdle DEF SerialInv
        <5> QED
          BY <5>3, <5>4, <5>5
      <4> QED
        BY <3>1, <4>4, AccountsStep
    <3> QED
      BY <3>2, <3>3
  <2>13. ASSUME NEW c \in Callers, WriteProfile(c) PROVE AccountsInv'
    <3> DEFINE w == call[c].who
    <3>1. /\ call[c].step = "writeProfile" /\ Finish(c) /\ UNCHANGED <<bin, overlapped>>
          /\ w \in Members
          /\ \/ /\ users' = [users EXCEPT ![w].role = call[c].terms.auth]
                /\ profiles' = [profiles EXCEPT ![w] = NewProfile(c)]
             \/ users' = [users EXCEPT ![w].exists = FALSE] /\ profiles' = profiles
      BY <2>1, <2>13 DEF WriteProfile, WellNamed
    <3>2. call'[c] = Idle /\ \A d \in Callers \ {c} : call'[d] = call[d]
      BY <3>1, FinishEnds
    <3>3. \A m \in Members \ {w} : profiles'[m] = profiles[m] /\ users'[m] = users[m]
      BY <3>1 DEF TypeInv, TypeOK
    <3>4. ASSUME ~overlapped PROVE AccountsExist' /\ \A d \in Callers \ {c} : call'[d] = Idle
      <4>1. users[w].exists /\ ~profiles[w].exists
        BY <3>1, <3>4 DEF AccountsInv, AccountStands
      <4>2. NoneRestored
        BY <3>1, <3>4, NotRestoring
      <4>3. w \notin bin
        BY <2>3, <3>1, <3>4, <4>1, <4>2 DEF Filed
      <4>4. profiles'[w].exists => users'[w].exists
        BY <2>1, <3>1, <4>1 DEF TypeInv, TypeOK, User
      <4>5. Filed' /\ \A m \in Members : profiles'[m].exists => users'[m].exists
        BY <2>3, <3>1, <3>3, <3>4, <4>2, <4>3, <4>4 DEF Filed
      <4>6. \A d \in Callers \ {c} : call'[d] = Idle
        BY <2>2, <3>1, <3>2, <3>4, OthersIdle DEF SerialInv
      <4> QED
        BY <2>4, <4>5, <4>6
    <3> QED
      BY <2>2, <3>1, <3>2, <3>4, NothingKnown, AccountsStep
  <2>14. ASSUME NEW c \in Callers, ReadRole(c) PROVE AccountsInv'
    <3> DEFINE target == roles[call[c].role]
               s == IF LosingAdmin(call[c].terms, target, call[c].active) THEN "countAdmins"
                    ELSE "writeMember"
               n == [call[c] EXCEPT !.step = s, !.terms = TermsOf(target)]
    <3>1. /\ call[c].step = "readRole" /\ UNCHANGED <<profiles, users, bin, overlapped>>
          /\ Finish(c) \/ call' = [call EXCEPT ![c] = n]
      BY <2>14 DEF ReadRole
    <3>2. n.step = s /\ s \in {"countAdmins", "writeMember"}
      BY <2>1 DEF Call
    <3> HIDE DEF n, s
    <3>3. \A d \in Callers \ {c} : call'[d] = call[d]
      BY <3>1, FinishEnds DEF TypeInv
    <3>4. call'[c].step \in {"idle", "countAdmins", "writeMember"}
      BY <2>2, <3>1, <3>2, FinishEnds DEF TypeInv
    <3> QED
      BY <2>6, <3>1, <3>3, <3>4
  <2>15. ASSUME NEW c \in Callers, CountAdmins(c) PROVE AccountsInv'
    <3>1. /\ call[c].step = "countAdmins" /\ UNCHANGED <<profiles, users, bin, overlapped>>
          /\ Finish(c) \/ Goto(c, "writeMember")
      BY <2>15 DEF CountAdmins
    <3> QED
      BY <2>2, <2>6, <3>1, FinishEnds, GotoKeeps DEF Steps
  <2>16. ASSUME NEW c \in Callers, WriteMember(c) PROVE AccountsInv'
    <3> DEFINE w == call[c].who
    <3>1. /\ call[c].step = "writeMember" /\ Finish(c) /\ UNCHANGED <<bin, overlapped>>
          /\ w \in Members
      BY <2>1, <2>16 DEF WriteMember, WellNamed
    <3>2. call'[c] = Idle /\ \A d \in Callers \ {c} : call'[d] = call[d]
      BY <3>1, FinishEnds
    <3>3. \A m \in Members :
            UNCHANGED <<profiles[m].exists, profiles[m].deleted, users[m].exists>>
      <4>1. CASE UNCHANGED <<profiles, users>>
        BY <4>1
      <4>2. CASE profiles[w].exists /\ roles[call[c].role].exists
        <5> DEFINE g == ResolveMemberPermissions(call[c].role, call[c].terms.grants,
                                                 SavedOverrides(c))
                   row == [profiles[w] EXCEPT !.role = call[c].role,
                             !.active = call[c].active, !.overrides = SavedOverrides(c),
                             !.grants = g]
                   auth == IF RoleChanged(c) THEN call[c].terms.auth ELSE users[w].role
        <5>1. /\ profiles' = [profiles EXCEPT ![w] = row]
              /\ users' = [users EXCEPT ![w].role = auth]
          BY <2>16, <3>1, <4>2 DEF WriteMember, TypeInv, TypeOK
        <5>2. row.exists = profiles[w].exists /\ row.deleted = profiles[w].deleted
          BY <2>1, <3>1 DEF StaffProfile
        <5> HIDE DEF row, auth
        <5> QED
          BY <2>1, <3>1, <5>1, <5>2 DEF TypeInv, TypeOK, User
      <4> QED
        BY <2>16, <4>1, <4>2 DEF WriteMember
    <3>4. ASSUME ~overlapped PROVE AccountsExist' /\ \A d \in Callers \ {c} : call'[d] = Idle
      <4>1. NoneRestored
        BY <3>1, <3>4, NotRestoring
      <4>2. Filed' /\ \A m \in Members : profiles'[m].exists => users'[m].exists
        BY <2>3, <3>1, <3>3, <3>4, <4>1 DEF Filed
      <4>3. \A d \in Callers \ {c} : call'[d] = Idle
        BY <2>2, <3>1, <3>2, <3>4, OthersIdle DEF SerialInv
      <4> QED
        BY <2>4, <4>2, <4>3
    <3> QED
      BY <2>2, <3>1, <3>2, <3>4, NothingKnown, AccountsStep
  \* A sweep, or a write of one round trip.
  <2>17. ASSUME Begins(Callers), call' = call,
                Filed => Filed',
                \A m \in Members : UNCHANGED users[m].exists
                                   /\ (profiles'[m].exists => profiles[m].exists)
         PROVE  AccountsInv'
    <3>1. ASSUME ~overlapped' PROVE AccountsExist'
      BY <2>3, <2>4, <2>17, <3>1, BeginsAlone, IdleIsNotRestoring
    <3> QED
      BY <2>17, <3>1, BeginsAlone, AccountsRest
  <2>18. ASSUME NEW a \in Members, NEW r \in Roles, NEW auth \in Auths, NEW grid \in Grids,
                CreateRole(a, r, auth, grid)
         PROVE  AccountsInv'
    BY <2>17, <2>18 DEF CreateRole, Filed
  <2>19. ASSUME NEW c \in Callers, NEW a \in Members, NEW r \in Roles, NEW auth \in Auths,
                NEW g \in Submissions, BeginRoleEdit(c, a, r, auth, g[1], g[2])
         PROVE  AccountsInv'
    <3> DEFINE step == IF roles[r].auth = "admin" /\ auth # "admin" THEN "countRole"
                       ELSE "openRole"
               q == [Idle EXCEPT !.step = step, !.role = r, !.auth = auth, !.sent = g[1],
                       !.grid = g[2], !.terms = TermsOf(roles[r])]
    <3>1. q.step = step /\ step \in {"countRole", "openRole"}
      BY DEF Idle
    <3>2. Start(c, a, q) /\ UNCHANGED <<profiles, users, bin>>
      BY <2>19 DEF BeginRoleEdit
    <3> HIDE DEF q, step
    <3> QED
      BY <2>5, <3>1, <3>2
  <2>20. ASSUME NEW c \in Callers, CountRole(c) PROVE AccountsInv'
    <3>1. /\ call[c].step = "countRole" /\ UNCHANGED <<profiles, users, bin, overlapped>>
          /\ Finish(c) \/ Goto(c, "openRole")
      BY <2>20 DEF CountRole
    <3> QED
      BY <2>2, <2>6, <3>1, FinishEnds, GotoKeeps DEF Steps
  <2>21. ASSUME NEW c \in Callers, OpenRole(c) PROVE AccountsInv'
    <3> DEFINE held == [m \in IF GrantsChanged(c) THEN Holders(call[c].role) ELSE {} |->
                          profiles[m].overrides]
               n == [call[c] EXCEPT !.step = "commitRole", !.held = held]
    <3>1. /\ call[c].step = "openRole" /\ UNCHANGED <<profiles, users, bin, overlapped>>
          /\ Finish(c) \/ call' = [call EXCEPT ![c] = n]
      BY <2>21 DEF OpenRole
    <3>2. n.step = "commitRole"
      BY <2>1 DEF Call
    <3> HIDE DEF n
    <3>3. \A d \in Callers \ {c} : call'[d] = call[d]
      BY <3>1, FinishEnds DEF TypeInv
    <3>4. call'[c].step \in {"idle", "commitRole"}
      BY <2>2, <3>1, <3>2, FinishEnds DEF TypeInv
    <3> QED
      BY <2>6, <3>1, <3>3, <3>4
  <2>22. ASSUME NEW c \in Callers, CommitRole(c) PROVE AccountsInv'
    <3> DEFINE q == call[c]
    <3>1. /\ q.step = "commitRole" /\ Finish(c) /\ UNCHANGED <<bin, overlapped>>
      BY <2>22 DEF CommitRole
    <3>2. call'[c] = Idle /\ \A d \in Callers \ {c} : call'[d] = call[d]
      BY <3>1, FinishEnds
    <3>3. \A m \in Members :
            UNCHANGED <<profiles[m].exists, profiles[m].deleted, users[m].exists>>
      <4>1. CASE UNCHANGED <<profiles, users>>
        BY <4>1
      <4>2. CASE ~UNCHANGED <<profiles, users>>
        <5> DEFINE given(m) == ResolveMemberPermissions(q.role, NextGrants(c), q.held[m])
        <5>1. /\ profiles' = [m \in Members |->
                     IF m \in DOMAIN q.held THEN [profiles[m] EXCEPT !.grants = given(m)]
                     ELSE profiles[m]]
              /\ users' = [m \in Members |->
                     IF q.auth # q.terms.auth /\ profiles[m].role = q.role /\ Live(profiles[m])
                       THEN [users[m] EXCEPT !.role = q.auth] ELSE users[m]]
          BY <2>22, <4>2 DEF CommitRole
        <5> HIDE DEF given
        <5> QED
          BY <2>1, <5>1 DEF StaffProfile, User
      <4> QED
        BY <4>1, <4>2
    <3>4. ASSUME ~overlapped PROVE AccountsExist' /\ \A d \in Callers \ {c} : call'[d] = Idle
      <4>1. NoneRestored
        BY <3>1, <3>4, NotRestoring
      <4>2. Filed' /\ \A m \in Members : profiles'[m].exists => users'[m].exists
        BY <2>3, <3>1, <3>3, <3>4, <4>1 DEF Filed
      <4>3. \A d \in Callers \ {c} : call'[d] = Idle
        BY <2>2, <3>1, <3>2, <3>4, OthersIdle DEF SerialInv
      <4> QED
        BY <2>4, <4>2, <4>3
    <3> QED
      BY <2>2, <3>1, <3>2, <3>4, NothingKnown, AccountsStep
  <2>23. ASSUME NEW c \in Callers, NEW a \in Members, NEW m \in Members, TrashMember(c, a, m)
         PROVE  AccountsInv'
    <3> DEFINE q == [Idle EXCEPT !.step = "stampMember", !.who = m]
    <3>1. q.step = "stampMember"
      BY DEF Idle
    <3>2. Start(c, a, q) /\ UNCHANGED <<profiles, users, bin>>
      BY <2>23 DEF TrashMember
    <3> HIDE DEF q
    <3> QED
      BY <2>5, <3>1, <3>2
  <2>24. ASSUME NEW c \in Callers, StampMember(c) PROVE AccountsInv'
    <3> DEFINE w == call[c].who
    <3>1. /\ call[c].step = "stampMember" /\ UNCHANGED <<users, bin, overlapped>>
          /\ w \in Members
      BY <2>1, <2>24 DEF StampMember, WellNamed
    <3>2. CASE ~Live(profiles[w])
      <4>1. Finish(c) /\ profiles' = profiles
        BY <2>24, <3>2 DEF StampMember
      <4> QED
        BY <2>2, <2>6, <3>1, <4>1, FinishEnds
    <3>3. CASE Live(profiles[w])
      <4>1. Goto(c, "revoke") /\ profiles' = [profiles EXCEPT ![w].deleted = TRUE]
        BY <2>24, <3>3 DEF StampMember
      <4>2. /\ call'[c].step = "revoke" /\ call'[c].who = w
            /\ \A d \in Callers \ {c} : call'[d] = call[d]
        BY <4>1, GotoKeeps DEF Steps
      <4>3. /\ profiles'[w].deleted
            /\ \A m \in Members : /\ profiles'[m].exists = profiles[m].exists
                                  /\ profiles[m].deleted => profiles'[m].deleted
        BY <2>1, <3>1, <4>1 DEF TypeInv, TypeOK, StaffProfile
      <4>4. AccountStands(c)'
        BY <3>1, <3>3, <4>2, <4>3 DEF AccountStands, Live
      <4>5. ASSUME ~overlapped PROVE AccountsExist' /\ \A d \in Callers \ {c} : call'[d] = Idle
        <5>1. NoneRestored
          BY <3>1, <4>5, NotRestoring
        <5>2. Filed' /\ \A m \in Members : profiles'[m].exists => users'[m].exists
          BY <2>3, <3>1, <4>3, <4>5, <5>1 DEF Filed
        <5>3. \A d \in Callers \ {c} : call'[d] = Idle
          BY <2>2, <3>1, <4>2, <4>5, OthersIdle DEF SerialInv
        <5> QED
          BY <2>4, <5>2, <5>3
      <4> QED
        BY <3>1, <4>4, <4>5, AccountsStep
    <3> QED
      BY <3>2, <3>3
  <2>25. ASSUME NEW c \in Callers, RevokeStaffAccess(c) PROVE AccountsInv'
    <3> DEFINE w == call[c].who
    <3>1. /\ call[c].step = "revoke" /\ Finish(c) /\ UNCHANGED <<profiles, overlapped>>
          /\ w \in Members /\ bin' = bin \cup {w}
          /\ users' = [users EXCEPT ![w].banned = TRUE]
      BY <2>1, <2>25 DEF RevokeStaffAccess, WellNamed
    <3>2. call'[c] = Idle /\ \A d \in Callers \ {c} : call'[d] = call[d]
      BY <3>1, FinishEnds
    <3>3. \A m \in Members : users'[m].exists = users[m].exists
      BY <2>1, <3>1 DEF TypeInv, TypeOK, User
    <3>4. ASSUME ~overlapped PROVE AccountsExist' /\ \A d \in Callers \ {c} : call'[d] = Idle
      <4>1. NoneRestored
        BY <3>1, <3>4, NotRestoring
      <4>2. profiles[w].exists /\ profiles[w].deleted
        BY <3>1, <3>4 DEF AccountsInv, AccountStands
      <4>3. Filed' /\ \A m \in Members : profiles'[m].exists => users'[m].exists
        BY <2>3, <3>1, <3>3, <3>4, <4>1, <4>2 DEF Filed
      <4>4. \A d \in Callers \ {c} : call'[d] = Idle
        BY <2>2, <3>1, <3>2, <3>4, OthersIdle DEF SerialInv
      <4> QED
        BY <2>4, <4>3, <4>4
    <3> QED
      BY <2>2, <3>1, <3>2, <3>4, NothingKnown, AccountsStep
  <2>26. ASSUME NEW c \in Callers, NEW a \in Members, NEW m \in Members, RestoreMember(c, a, m)
         PROVE  AccountsInv'
    <3> DEFINE q == [Idle EXCEPT !.step = "allow", !.who = m]
    <3>1. q.step = "allow" /\ q.who = m
      BY DEF Idle
    <3>2. Start(c, a, q) /\ UNCHANGED <<users, bin>> /\ m \in bin
          /\ profiles' = [profiles EXCEPT ![m].deleted = FALSE]
      BY <2>26 DEF RestoreMember
    <3> HIDE DEF q
    <3>3. /\ \A x \in Members : profiles'[x].exists = profiles[x].exists
          /\ \A x \in Members \ {m} : profiles'[x] = profiles[x]
      BY <2>1, <3>2 DEF TypeInv, TypeOK, StaffProfile
    <3>4. ASSUME ~overlapped' PROVE AccountsExist'
      <4>1. ~overlapped /\ NoneRestored /\ call'[c] = q
        BY <3>2, <3>4, StartsAlone, IdleIsNotRestoring
      <4>2. BeingRestored(m)'
        BY <3>1, <4>1 DEF BeingRestored
      <4> QED
        BY <2>3, <3>2, <3>3, <4>1, <4>2 DEF Filed, AccountsExist
    <3> QED
      BY <3>1, <3>2, <3>4, StartsAlone, NothingKnown, AccountsStep
  <2>27. ASSUME NEW c \in Callers, RestoreStaffAccess(c) PROVE AccountsInv'
    <3> DEFINE w == call[c].who
    <3>1. /\ call[c].step = "allow" /\ Finish(c) /\ UNCHANGED <<profiles, overlapped>>
          /\ bin' = bin \ {w} /\ users' = [users EXCEPT ![w].banned = FALSE]
      BY <2>27 DEF RestoreStaffAccess
    <3>2. call'[c] = Idle /\ \A d \in Callers \ {c} : call'[d] = call[d]
      BY <3>1, FinishEnds
    <3>3. \A m \in Members : users'[m].exists = users[m].exists
      BY <2>1, <3>1 DEF TypeInv, TypeOK, User
    <3>4. ASSUME ~overlapped PROVE AccountsExist' /\ \A d \in Callers \ {c} : call'[d] = Idle
      <4>1. \A d \in Callers \ {c} : call'[d] = Idle /\ call[d] = Idle
        BY <2>2, <3>1, <3>2, <3>4, OthersIdle DEF SerialInv
      <4>2. \A m \in Members : BeingRestored(m) => m = w
        BY <2>2, <4>1 DEF BeingRestored
      <4>3. Filed' /\ \A m \in Members : profiles'[m].exists => users'[m].exists
        BY <3>1, <3>3, <3>4, <4>2 DEF Filed, AccountsInv, AccountsExist
      <4> QED
        BY <2>4, <4>1, <4>3
    <3> QED
      BY <2>2, <3>1, <3>2, <3>4, NothingKnown, AccountsStep
  <2>28. ASSUME NEW m \in Members, PurgeMember(m) PROVE AccountsInv'
    <3>1. /\ profiles' = [profiles EXCEPT ![m] = NoProfile] /\ bin' = bin \ {m}
          /\ Begins(Callers) /\ UNCHANGED <<users, call>>
      BY <2>28 DEF PurgeMember
    <3>2. ~profiles'[m].exists /\ \A x \in Members \ {m} : profiles'[x] = profiles[x]
      BY <3>1 DEF TypeInv, TypeOK, NoProfile
    <3> QED
      BY <2>17, <3>1, <3>2 DEF Filed
  <2>29. ASSUME NEW c \in Callers, NEW a \in Members, NEW r \in Roles, TrashRole(c, a, r)
         PROVE  AccountsInv'
    <3> DEFINE q == [Idle EXCEPT !.step = "stampRole", !.role = r]
    <3>1. q.step = "stampRole"
      BY DEF Idle
    <3>2. Start(c, a, q) /\ UNCHANGED <<profiles, users, bin>>
      BY <2>29 DEF TrashRole
    <3> HIDE DEF q
    <3> QED
      BY <2>5, <3>1, <3>2
  <2>30. ASSUME NEW c \in Callers, StampRole(c) PROVE AccountsInv'
    <3>1. /\ call[c].step = "stampRole" /\ Finish(c)
          /\ UNCHANGED <<profiles, users, overlapped>>
          /\ call[c].role \in Roles /\ bin' \in {bin, bin \cup {call[c].role}}
      BY <2>1, <2>30 DEF StampRole, WellNamed
    <3>2. call'[c] = Idle /\ \A d \in Callers \ {c} : call'[d] = call[d]
      BY <3>1, FinishEnds
    <3>3. bin' \cap Members = bin \cap Members
      BY <3>1
    <3>4. ASSUME ~overlapped PROVE AccountsExist' /\ \A d \in Callers \ {c} : call'[d] = Idle
      <4>1. NoneRestored
        BY <3>1, <3>4, NotRestoring
      <4>2. Filed' /\ \A m \in Members : profiles'[m].exists => users'[m].exists
        BY <2>3, <3>1, <3>3, <3>4, <4>1 DEF Filed
      <4>3. \A d \in Callers \ {c} : call'[d] = Idle
        BY <2>2, <3>1, <3>2, <3>4, OthersIdle DEF SerialInv
      <4> QED
        BY <2>4, <4>2, <4>3
    <3> QED
      BY <2>2, <3>1, <3>2, <3>4, NothingKnown, AccountsStep
  <2>31. ASSUME NEW a \in Members, NEW r \in Roles, RestoreRole(a, r) PROVE AccountsInv'
    BY <2>17, <2>31 DEF RestoreRole, Filed
  <2>32. ASSUME NEW r \in Roles, PurgeRole(r) PROVE AccountsInv'
    BY <2>17, <2>32 DEF PurgeRole, Filed
  <2>33. CASE UNCHANGED vars
    BY <2>33 DEF vars, AccountsInv, AccountsExist, AccountStands, BeingRestored
  <2>34. ASSUME NEW c \in Callers, Team(c) PROVE AccountsInv'
    <3>1. CASE \E a, m \in Members, r \in Roles, on \in BOOLEAN, g \in Submissions :
                 BeginCreate(c, a, m, r, on, g[1], g[2])
      BY <2>10, <3>1
    <3>2. CASE \E a, m \in Members, r \in Roles, on, reset \in BOOLEAN, g \in Submissions :
                 BeginUpdate(c, a, m, r, on, g[1], g[2], reset)
      BY <2>11, <3>2
    <3>3. CASE CreateUser(c) \/ WriteProfile(c) \/ ReadRole(c) \/ CountAdmins(c) \/ WriteMember(c)
      BY <2>12, <2>13, <2>14, <2>15, <2>16, <3>3
    <3> QED
      BY <2>34, <3>1, <3>2, <3>3 DEF Team
  <2>35. ASSUME NEW c \in Callers, RoleEdits(c) PROVE AccountsInv'
    BY <2>19, <2>20, <2>21, <2>22, <2>35 DEF RoleEdits
  <2>36. ASSUME NEW c \in Callers, Trash(c) PROVE AccountsInv'
    BY <2>23, <2>24, <2>25, <2>26, <2>27, <2>29, <2>30, <2>36 DEF Trash
  <2> QED
    BY <2>18, <2>28, <2>31, <2>32, <2>33, <2>34, <2>35, <2>36 DEF Next
<1> QED
  BY <1>1, <1>2, TypesHold, SerialInvariant, PTL DEF Spec

-----------------------------------------------------------------------------
(* The last administrator *)

\* The auth role of a live member is that of the job role.
RolesAgree ==
  \A m \in Members : Live(profiles[m]) /\ Disagrees(m) => BeingRestored(m)

\* What a request that may cost an administrator has counted.
OthersCounted(c) ==
  LET q == call[c] IN
  /\ q.step = "writeMember" /\ roles[q.seen.role].auth = "admin"
       /\ (q.terms.auth # "admin" \/ ~q.active) => ActiveAdmins \ {q.who} # {}
  /\ q.step \in {"openRole", "commitRole"} /\ q.terms.auth = "admin" /\ q.auth # "admin" =>
       \E m \in ActiveAdmins : profiles[m].role # q.role
  /\ q.step = "stampMember" => ActiveAdmins \ {q.who} # {}

AdminInv ==
  ~overlapped /\ ~drifted =>
    /\ RolesAgree
    /\ ActiveAdmins # {}
    /\ \A c \in Callers : OthersCounted(c)

\* RolesAgree, nobody being restored.
AllAgree == \A m \in Members : Live(profiles[m]) => ~Disagrees(m)

\* Only some steps cost an administrator.
LEMMA NothingCounted ==
  ASSUME NEW c \in Callers,
         call'[c].step \notin {"writeMember", "openRole", "commitRole", "stampMember"}
  PROVE  OthersCounted(c)'
  BY DEF OthersCounted

\* One request moved, somebody administers.
LEMMA AdminStep ==
  ASSUME NEW c \in Callers,
         ~overlapped' /\ ~drifted' =>
           /\ \A d \in Callers \ {c} : call'[d] = Idle
           /\ RolesAgree' /\ ActiveAdmins' # {}
           /\ OthersCounted(c)'
  PROVE  AdminInv'
<1>1. Idle.step = "idle"
  BY DEF Idle
<1>2. ASSUME ~overlapped', ~drifted', NEW d \in Callers PROVE OthersCounted(d)'
  BY <1>1, <1>2, NothingCounted
<1> QED
  BY <1>2 DEF AdminInv

\* Nobody is at work, somebody administers.
LEMMA AdminRest ==
  ASSUME ~overlapped' /\ ~drifted' =>
           /\ \A d \in Callers : call'[d] = Idle
           /\ RolesAgree' /\ ActiveAdmins' # {}
  PROVE  AdminInv'
<1>1. Idle.step = "idle"
  BY DEF Idle
<1>2. ASSUME ~overlapped', ~drifted', NEW d \in Callers PROVE OthersCounted(d)'
  BY <1>1, <1>2, NothingCounted
<1> QED
  BY <1>2 DEF AdminInv

\* Auth roles that agree need nobody being restored.
LEMMA AgreeingAgree ==
  ASSUME \A m \in Members : Live(profiles'[m]) => users'[m].role = roles'[profiles'[m].role].auth
  PROVE  RolesAgree'
  BY DEF RolesAgree, Disagrees, Live

\* The columns ActiveAdmins reads.
LEMMA AdminStays ==
  ASSUME NEW m \in ActiveAdmins,
         UNCHANGED <<profiles[m].exists, profiles[m].deleted, profiles[m].active,
                     users[m].exists, users[m].banned, users[m].role>>
  PROVE  m \in ActiveAdmins'
  BY DEF ActiveAdmins, Live, Passes

\* Tables that stay keep the administrators.
LEMMA AdminsStay ==
  ASSUME UNCHANGED <<profiles, users>>
  PROVE  ActiveAdmins' = ActiveAdmins
  BY DEF ActiveAdmins, Live, Passes

\* A request starts or moves on; no row changes.
LEMMA AdminCall ==
  ASSUME AdminInv, UNCHANGED <<roles, profiles, users, drifted>>, NEW c \in Callers,
         ~overlapped' /\ ~drifted =>
           /\ ~overlapped /\ NoneRestored
           /\ \A d \in Callers \ {c} : call'[d] = Idle
           /\ OthersCounted(c)'
  PROVE  AdminInv'
<1>1. ASSUME ~overlapped', ~drifted PROVE RolesAgree' /\ ActiveAdmins' # {}
  BY <1>1, AdminsStay DEF AdminInv, RolesAgree, Disagrees, Live, NoneRestored, BeingRestored
<1> QED
  BY <1>1, AdminStep

(***************************************************************************)
(* While no two requests have overlapped and no restore has brought back   *)
(* an auth role its job role lost: somebody administers, auth roles and    *)
(* job roles agree, and a request that may cost an administrator has       *)
(* counted another one, who is still there when it writes.                 *)
(***************************************************************************)
THEOREM AdminInvariant == Spec => []AdminInv
<1> USE AccessAssumption
<1>1. Init => AdminInv
  <2> SUFFICES ASSUME Init PROVE AdminInv
    OBVIOUS
  <2>1. \A c \in Callers : call[c].step = "idle"
    BY DEF Init, Idle
  <2>2. /\ profiles[Founder].exists /\ ~profiles[Founder].deleted /\ profiles[Founder].active
        /\ profiles[Founder].role = FounderRole
        /\ users[Founder] = [exists |-> TRUE, banned |-> FALSE, role |-> "admin"]
        /\ \A m \in Members \ {Founder} : ~profiles[m].exists
    BY DEF Init, NoProfile
  <2>3. roles[FounderRole].auth = "admin"
    BY DEF Init
  <2>4. Founder \in ActiveAdmins
    BY <2>2 DEF ActiveAdmins, Live, Passes
  <2>5. RolesAgree
    BY <2>2, <2>3 DEF RolesAgree, Disagrees, Live
  <2> QED
    BY <2>1, <2>4, <2>5 DEF AdminInv, OthersCounted
<1>2. TypeInv /\ SerialInv /\ AccountsInv /\ AdminInv /\ [Next]_vars => AdminInv'
  <2> SUFFICES ASSUME TypeInv, SerialInv, AccountsInv, AdminInv, [Next]_vars PROVE AdminInv'
    OBVIOUS
  <2>1. /\ \A c \in Callers : call[c] \in Call /\ WellNamed(call[c])
        /\ \A m \in Members : profiles[m] \in StaffProfile /\ users[m] \in User
                              /\ profiles[m].role \in Roles
        /\ \A r \in Roles : roles[r] \in StaffRole
    BY DEF TypeInv, TypeOK, Requests, StaffProfile
  <2>2. Idle.step = "idle"
    BY DEF Idle
  <2>3. ~overlapped /\ ~drifted /\ NoneRestored => AllAgree /\ ActiveAdmins # {}
    BY DEF AdminInv, RolesAgree, NoneRestored, BeingRestored, AllAgree
  <2>4. \A m \in ActiveAdmins : m \in Members /\ Live(profiles[m]) /\ profiles[m].active
                                /\ users[m].exists /\ ~users[m].banned /\ users[m].role = "admin"
    BY DEF ActiveAdmins, Passes
  <2>5. ASSUME NEW c \in Callers, NEW a, NEW q, Start(c, a, q),
               UNCHANGED <<roles, profiles, users, drifted>>,
               ~overlapped /\ ~drifted /\ NoneRestored /\ call'[c] = q => OthersCounted(c)'
        PROVE  AdminInv'
    BY <2>5, StartsAlone, IdleIsNotRestoring, AdminCall
  <2>6. ASSUME NEW c \in Callers, call[c].step \notin {"idle", "allow"},
               \A d \in Callers \ {c} : call'[d] = call[d],
               ~overlapped /\ ~drifted => OthersCounted(c)',
               UNCHANGED <<roles, profiles, users, overlapped, drifted>>
        PROVE  AdminInv'
    BY <2>2, <2>6, NotRestoring, OthersIdle, AdminCall DEF SerialInv
  <2>7. ASSUME NEW c \in Callers, call[c].step \notin {"idle", "allow"}, Finish(c),
               UNCHANGED <<roles, profiles, users, overlapped, drifted>>
        PROVE  AdminInv'
    BY <2>2, <2>6, <2>7, FinishEnds, NothingCounted
  \* A request that writes and ends: what is left to show.
  <2>8. ASSUME NEW c \in Callers, call[c].step \notin {"idle", "allow"}, Finish(c),
               UNCHANGED <<overlapped, drifted>>,
               ~overlapped /\ ~drifted /\ NoneRestored => RolesAgree' /\ ActiveAdmins' # {}
        PROVE  AdminInv'
    <3>1. call'[c] = Idle /\ \A d \in Callers \ {c} : call'[d] = call[d]
      BY <2>8, FinishEnds
    <3> QED
      BY <2>2, <2>8, <3>1, NotRestoring, OthersIdle, NothingCounted, AdminStep DEF SerialInv
  \* A sweep, or a write of one round trip.
  <2>9. ASSUME Begins(Callers), call' = call, drifted' = drifted,
               ~overlapped /\ ~drifted /\ NoneRestored => RolesAgree' /\ ActiveAdmins' # {}
        PROVE  AdminInv'
    BY <2>9, BeginsAlone, IdleIsNotRestoring, AdminRest
  <2>10. ASSUME NEW c \in Callers, NEW a \in Members, NEW m \in Members, NEW r \in Roles,
                NEW active \in BOOLEAN, NEW g \in Submissions,
                BeginCreate(c, a, m, r, active, g[1], g[2])
         PROVE  AdminInv'
    <3> DEFINE q == [Idle EXCEPT !.step = "createUser", !.who = m, !.role = r,
                       !.active = active, !.sent = g[1], !.grid = g[2],
                       !.terms = TermsOf(roles[r])]
    <3>1. q.step = "createUser"
      BY DEF Idle
    <3>2. Start(c, a, q) /\ UNCHANGED <<roles, profiles, users, drifted>>
      BY <2>10 DEF BeginCreate
    <3> HIDE DEF q
    <3> QED
      BY <2>5, <3>1, <3>2, NothingCounted
  <2>11. ASSUME NEW c \in Callers, NEW a \in Members, NEW m \in Members, NEW r \in Roles,
                NEW active \in BOOLEAN, NEW reset \in BOOLEAN, NEW g \in Submissions,
                BeginUpdate(c, a, m, r, active, g[1], g[2], reset)
         PROVE  AdminInv'
    <3> DEFINE p == profiles[m]
               own == roles[p.role]
               step == IF r # p.role THEN "readRole"
                       ELSE IF LosingAdmin(own, own, active) THEN "countAdmins"
                       ELSE "writeMember"
               q == [Idle EXCEPT !.step = step, !.who = m, !.role = r, !.active = active,
                       !.sent = g[1], !.grid = g[2], !.reset = reset, !.seen = SeenOf(p),
                       !.terms = TermsOf(own)]
    <3>1. /\ q.step = step /\ q.active = active /\ q.seen.role = p.role
          /\ q.terms.auth = own.auth
      BY DEF Idle, SeenOf, TermsOf
    <3>2. Start(c, a, q) /\ UNCHANGED <<roles, profiles, users, drifted>>
      BY <2>11 DEF BeginUpdate
    <3>3. /\ step \in {"readRole", "countAdmins", "writeMember"}
          /\ step = "writeMember" => ~LosingAdmin(own, own, active)
      OBVIOUS
    <3> HIDE DEF q, step
    <3>4. ASSUME call'[c] = q PROVE OthersCounted(c)'
      <4>1. CASE step = "writeMember"
        BY <3>1, <3>2, <3>3, <3>4, <4>1 DEF OthersCounted, LosingAdmin
      <4>2. CASE step # "writeMember"
        BY <3>1, <3>3, <3>4, <4>2, NothingCounted
      <4> QED
        BY <4>1, <4>2
    <3> QED
      BY <2>5, <3>2, <3>4
  <2>12. ASSUME NEW c \in Callers, CreateUser(c) PROVE AdminInv'
    <3> DEFINE w == call[c].who
               row == [exists |-> TRUE, banned |-> FALSE, role |-> "customer"]
    <3>1. /\ call[c].step = "createUser" /\ UNCHANGED <<roles, profiles, overlapped, drifted>>
          /\ w \in Members
      BY <2>1, <2>12 DEF CreateUser, WellNamed
    <3>2. CASE users[w].exists
      <4>1. Finish(c) /\ users' = users
        BY <2>12, <3>2 DEF CreateUser
      <4> QED
        BY <2>7, <3>1, <4>1
    <3>3. CASE ~users[w].exists
      <4>1. Goto(c, "writeProfile") /\ users' = [users EXCEPT ![w] = row]
        BY <2>12, <3>3 DEF CreateUser
      <4>2. call'[c].step = "writeProfile" /\ \A d \in Callers \ {c} : call'[d] = call[d]
        BY <4>1, GotoKeeps DEF Steps
      <4>3. \A m \in Members \ {w} : users'[m] = users[m]
        BY <3>1, <4>1 DEF TypeInv, TypeOK
      <4>4. ASSUME ~overlapped, ~drifted
            PROVE  /\ RolesAgree' /\ ActiveAdmins' # {}
                   /\ \A d \in Callers \ {c} : call'[d] = Idle
        <5>1. NoneRestored /\ AllAgree /\ ActiveAdmins # {}
          BY <2>3, <3>1, <4>4, NotRestoring
        <5>2. ~profiles[w].exists
          BY <3>1, <3>3, <4>4 DEF AccountsInv, AccountsExist
        <5>3. RolesAgree'
          BY <3>1, <4>3, <5>1, <5>2, AgreeingAgree DEF AllAgree, Disagrees, Live
        <5>4. PICK m \in ActiveAdmins : TRUE
          BY <5>1
        <5>5. m \in ActiveAdmins'
          BY <2>4, <3>1, <3>3, <4>3, AdminStays
        <5>6. \A d \in Callers \ {c} : call'[d] = Idle
          BY <2>2, <3>1, <4>2, <4>4, OthersIdle DEF SerialInv
        <5> QED
          BY <5>3, <5>5, <5>6
      <4> QED
        BY <3>1, <4>2, <4>4, NothingCounted, AdminStep
    <3> QED
      BY <3>2, <3>3
  <2>13. ASSUME NEW c \in Callers, WriteProfile(c) PROVE AdminInv'
    <3> DEFINE w == call[c].who
               q == call[c]
    <3>1. /\ q.step = "writeProfile" /\ Finish(c) /\ UNCHANGED <<roles, overlapped, drifted>>
          /\ w \in Members
          /\ \/ /\ users' = [users EXCEPT ![w].role = q.terms.auth]
                /\ profiles' = [profiles EXCEPT ![w] = NewProfile(c)]
             \/ users' = [users EXCEPT ![w].exists = FALSE] /\ profiles' = profiles
      BY <2>1, <2>13 DEF WriteProfile, WellNamed
    <3>2. \A m \in Members \ {w} : profiles'[m] = profiles[m] /\ users'[m] = users[m]
      BY <3>1 DEF TypeInv, TypeOK
    <3>3. ASSUME ~overlapped, ~drifted, NoneRestored PROVE RolesAgree' /\ ActiveAdmins' # {}
      <4>1. users[w].role = "customer" /\ ~profiles[w].exists
        BY <3>1, <3>3 DEF AccountsInv, AccountStands
      <4>2. AllAgree /\ ActiveAdmins # {}
        BY <2>3, <3>3
      <4>3. PICK m \in ActiveAdmins : TRUE
        BY <4>2
      <4>4. m \in ActiveAdmins'
        BY <2>4, <3>2, <4>1, AdminStays
      <4>5. q.terms.auth = roles[q.role].auth
        <5>1. q.terms = TermsOf(roles[q.role])
          BY <3>1, <3>3 DEF SerialInv, ReadsStand
        <5> QED
          BY <5>1 DEF TermsOf
      <4>6. Live(profiles'[w]) => users'[w].role = roles'[profiles'[w].role].auth
        <5>1. CASE profiles' = profiles
          BY <4>1, <5>1 DEF Live
        <5>2. CASE profiles' # profiles
          <6>1. users'[w].role = q.terms.auth
            BY <2>1, <3>1, <5>2 DEF TypeInv, TypeOK, User
          <6>2. profiles'[w].role = q.role
            BY <3>1, <5>2 DEF TypeInv, TypeOK, NewProfile
          <6> QED
            BY <3>1, <4>5, <6>1, <6>2
        <5> QED
          BY <5>1, <5>2
      <4>7. \A x \in Members : Live(profiles'[x]) => users'[x].role = roles'[profiles'[x].role].auth
        BY <3>1, <3>2, <4>2, <4>6 DEF AllAgree, Disagrees
      <4> QED
        BY <4>4, <4>7, AgreeingAgree
    <3> QED
      BY <2>8, <3>1, <3>3
  <2>14. ASSUME NEW c \in Callers, ReadRole(c) PROVE AdminInv'
    <3> DEFINE q == call[c]
               target == roles[q.role]
               s == IF LosingAdmin(q.terms, target, q.active) THEN "countAdmins"
                    ELSE "writeMember"
               n == [q EXCEPT !.step = s, !.terms = TermsOf(target)]
    <3>1. /\ q.step = "readRole" /\ UNCHANGED <<roles, profiles, users, overlapped, drifted>>
          /\ Finish(c) \/ call' = [call EXCEPT ![c] = n]
      BY <2>14 DEF ReadRole
    <3>2. CASE Finish(c)
      BY <2>7, <3>1, <3>2
    <3>3. CASE call' = [call EXCEPT ![c] = n]
      <4>1. /\ n.step = s /\ s \in {"countAdmins", "writeMember"}
            /\ s = "writeMember" => ~LosingAdmin(q.terms, target, q.active)
            /\ n.terms = TermsOf(target) /\ n.active = q.active /\ n.seen = q.seen
        BY <2>1 DEF Call
      <4> HIDE DEF n, s
      <4>2. call'[c] = n /\ \A d \in Callers \ {c} : call'[d] = call[d]
        BY <3>3 DEF TypeInv
      <4>3. ASSUME ~overlapped PROVE OthersCounted(c)'
        <5>1. q.terms = TermsOf(roles[q.seen.role])
          BY <3>1, <4>3 DEF SerialInv, ReadsStand
        <5>2. q.terms.auth = roles[q.seen.role].auth /\ n.terms.auth = target.auth
          BY <4>1, <5>1 DEF TermsOf
        <5>3. CASE s = "writeMember"
          BY <3>1, <4>1, <4>2, <5>2, <5>3 DEF OthersCounted, LosingAdmin
        <5>4. CASE s # "writeMember"
          BY <4>1, <4>2, <5>4, NothingCounted
        <5> QED
          BY <5>3, <5>4
      <4> QED
        BY <2>6, <3>1, <4>2, <4>3
    <3> QED
      BY <3>1, <3>2, <3>3
  <2>15. ASSUME NEW c \in Callers, CountAdmins(c) PROVE AdminInv'
    <3>1. /\ call[c].step = "countAdmins"
          /\ UNCHANGED <<roles, profiles, users, overlapped, drifted>>
      BY <2>15 DEF CountAdmins
    <3>2. CASE ActiveAdmins \ {call[c].who} = {}
      <4>1. Finish(c)
        BY <2>15, <3>2 DEF CountAdmins
      <4> QED
        BY <2>7, <3>1, <4>1
    <3>3. CASE ActiveAdmins \ {call[c].who} # {}
      <4>1. Goto(c, "writeMember")
        BY <2>15, <3>3 DEF CountAdmins
      <4>2. /\ call'[c].step = "writeMember" /\ call'[c].who = call[c].who
            /\ \A d \in Callers \ {c} : call'[d] = call[d]
        BY <4>1, GotoKeeps DEF Steps
      <4>3. OthersCounted(c)'
        BY <3>1, <3>3, <4>2, AdminsStay DEF OthersCounted
      <4> QED
        BY <2>6, <3>1, <4>2, <4>3
    <3> QED
      BY <3>2, <3>3
  <2>16. ASSUME NEW c \in Callers, WriteMember(c) PROVE AdminInv'
    <3> DEFINE q == call[c]
               w == call[c].who
               auth == IF RoleChanged(c) THEN q.terms.auth ELSE users[w].role
    <3>1. /\ q.step = "writeMember" /\ Finish(c) /\ UNCHANGED <<roles, overlapped, drifted>>
          /\ w \in Members
      BY <2>1, <2>16 DEF WriteMember, WellNamed
    <3>2. CASE UNCHANGED <<profiles, users>>
      BY <2>7, <3>1, <3>2
    <3>3. CASE ~UNCHANGED <<profiles, users>>
      <4> DEFINE g == ResolveMemberPermissions(q.role, q.terms.grants, SavedOverrides(c))
                 row == [profiles[w] EXCEPT !.role = q.role, !.active = q.active,
                           !.overrides = SavedOverrides(c), !.grants = g]
      <4>1. /\ profiles' = [profiles EXCEPT ![w] = row]
            /\ users' = [users EXCEPT ![w].role = auth]
        BY <2>16, <3>1, <3>3 DEF WriteMember, TypeInv, TypeOK
      <4>2. /\ row.exists = profiles[w].exists /\ row.deleted = profiles[w].deleted
            /\ row.role = q.role /\ row.active = q.active
        BY <2>1, <3>1 DEF StaffProfile
      <4> HIDE DEF row, auth
      <4>3. /\ profiles'[w] = row
            /\ users'[w].role = auth
            /\ users'[w].exists = users[w].exists /\ users'[w].banned = users[w].banned
            /\ \A m \in Members \ {w} : profiles'[m] = profiles[m] /\ users'[m] = users[m]
        <5>1. users'[w] = [users[w] EXCEPT !.role = auth]
          BY <3>1, <4>1 DEF TypeInv, TypeOK
        <5> QED
          BY <2>1, <3>1, <4>1, <5>1 DEF TypeInv, TypeOK, User
      <4>4. ASSUME ~overlapped, ~drifted, NoneRestored PROVE RolesAgree' /\ ActiveAdmins' # {}
        <5>1. /\ Live(profiles[w]) /\ q.seen = SeenOf(profiles[w])
              /\ q.terms = TermsOf(roles[q.role])
          BY <3>1, <4>4 DEF SerialInv, ReadsStand
        <5>2. q.seen.role = profiles[w].role /\ q.terms.auth = roles[q.role].auth
          BY <5>1 DEF SeenOf, TermsOf
        <5>3. AllAgree /\ ActiveAdmins # {}
          BY <2>3, <4>4
        <5>4. users[w].role = roles[q.seen.role].auth
          BY <3>1, <5>1, <5>2, <5>3 DEF AllAgree, Disagrees
        <5>5. auth = roles[q.role].auth
          BY <5>2, <5>4 DEF auth, RoleChanged
        <5>6. \A m \in Members :
                Live(profiles'[m]) => users'[m].role = roles'[profiles'[m].role].auth
          BY <3>1, <4>2, <4>3, <5>3, <5>5 DEF AllAgree, Disagrees
        <5>7. CASE ActiveAdmins \ {w} # {}
          <6>1. PICK m \in ActiveAdmins : m # w
            BY <5>7
          <6>2. m \in ActiveAdmins'
            BY <2>4, <4>3, <6>1, AdminStays
          <6> QED
            BY <5>6, <6>2, AgreeingAgree
        <5>8. CASE ActiveAdmins \ {w} = {}
          <6>1. w \in ActiveAdmins
            BY <5>3, <5>8
          <6>2. roles[q.seen.role].auth = "admin"
            BY <2>4, <5>4, <6>1
          <6>3. q.terms.auth = "admin" /\ q.active
            BY <3>1, <4>4, <5>8, <6>2 DEF AdminInv, OthersCounted
          <6>4. PICK m \in Members : m = w
            BY <3>1
          <6>5. /\ profiles'[m].exists /\ ~profiles'[m].deleted /\ profiles'[m].active
                /\ users'[m].exists /\ ~users'[m].banned
            BY <2>4, <4>2, <4>3, <6>1, <6>3, <6>4 DEF Live
          <6>6. users'[m].role = "admin"
            BY <4>3, <5>2, <5>5, <6>3, <6>4
          <6>7. m \in ActiveAdmins'
            BY <6>5, <6>6 DEF ActiveAdmins, Live, Passes
          <6> QED
            BY <5>6, <6>7, AgreeingAgree
        <5> QED
          BY <5>7, <5>8
      <4> QED
        BY <2>8, <3>1, <4>4
    <3> QED
      BY <3>2, <3>3
  <2>17. ASSUME NEW a \in Members, NEW r \in Roles, NEW auth \in Auths, NEW grid \in Grids,
                CreateRole(a, r, auth, grid)
         PROVE  AdminInv'
    <3> DEFINE row == [exists |-> TRUE, deleted |-> FALSE, auth |-> auth,
                       grants |-> SanitizePermissionKeys(grid, {})]
    <3>1. /\ ~roles[r].exists /\ roles' = [roles EXCEPT ![r] = row]
          /\ Begins(Callers) /\ UNCHANGED <<profiles, users, call, drifted>>
      BY <2>17 DEF CreateRole
    <3> HIDE DEF row
    <3>2. \A x \in Roles \ {r} : roles'[x] = roles[x]
      BY <3>1 DEF TypeInv, TypeOK
    <3>3. \A m \in Members : Live(profiles[m]) => profiles[m].role \in Roles \ {r}
      BY <2>1, <3>1 DEF SerialInv, RolesExist, Live
    <3>4. AllAgree => RolesAgree'
      BY <3>1, <3>2, <3>3, AgreeingAgree DEF AllAgree, Disagrees
    <3> QED
      BY <2>3, <2>9, <3>1, <3>4, AdminsStay
  <2>18. ASSUME NEW c \in Callers, NEW a \in Members, NEW r \in Roles, NEW auth \in Auths,
                NEW g \in Submissions, BeginRoleEdit(c, a, r, auth, g[1], g[2])
         PROVE  AdminInv'
    <3> DEFINE step == IF roles[r].auth = "admin" /\ auth # "admin" THEN "countRole"
                       ELSE "openRole"
               q == [Idle EXCEPT !.step = step, !.role = r, !.auth = auth, !.sent = g[1],
                       !.grid = g[2], !.terms = TermsOf(roles[r])]
    <3>1. q.step = step /\ q.auth = auth /\ q.terms.auth = roles[r].auth
      BY DEF Idle, TermsOf
    <3>2. Start(c, a, q) /\ UNCHANGED <<roles, profiles, users, drifted>>
      BY <2>18 DEF BeginRoleEdit
    <3>3. /\ step \in {"countRole", "openRole"}
          /\ step = "openRole" => ~(roles[r].auth = "admin" /\ auth # "admin")
      OBVIOUS
    <3> HIDE DEF q, step
    <3>4. ASSUME call'[c] = q PROVE OthersCounted(c)'
      BY <3>1, <3>3, <3>4 DEF OthersCounted
    <3> QED
      BY <2>5, <3>2, <3>4
  <2>19. ASSUME NEW c \in Callers, CountRole(c) PROVE AdminInv'
    <3> DEFINE others == {m \in ActiveAdmins : profiles[m].role # call[c].role}
               holders == {m \in Members : Live(profiles[m]) /\ profiles[m].active
                                             /\ profiles[m].role = call[c].role}
    <3>1. /\ call[c].step = "countRole"
          /\ UNCHANGED <<roles, profiles, users, overlapped, drifted>>
          /\ \/ Finish(c)
             \/ Goto(c, "openRole") /\ (others # {} \/ holders = {})
      BY <2>19 DEF CountRole
    <3>2. CASE Finish(c)
      BY <2>7, <3>1, <3>2
    <3>3. CASE Goto(c, "openRole") /\ (others # {} \/ holders = {})
      <4>1. /\ call'[c].step = "openRole" /\ call'[c].role = call[c].role
            /\ \A d \in Callers \ {c} : call'[d] = call[d]
        BY <3>3, GotoKeeps DEF Steps
      <4>2. ASSUME ~overlapped, ~drifted PROVE OthersCounted(c)'
        <5>1. ActiveAdmins # {}
          BY <4>2 DEF AdminInv
        <5>2. \E m \in ActiveAdmins : profiles[m].role # call[c].role
          BY <2>4, <3>3, <5>1
        <5> QED
          BY <3>1, <4>1, <5>2, AdminsStay DEF OthersCounted
      <4> QED
        BY <2>6, <3>1, <4>1, <4>2
    <3> QED
      BY <3>1, <3>2, <3>3
  <2>20. ASSUME NEW c \in Callers, OpenRole(c) PROVE AdminInv'
    <3> DEFINE q == call[c]
               held == [m \in IF GrantsChanged(c) THEN Holders(q.role) ELSE {} |->
                          profiles[m].overrides]
               n == [q EXCEPT !.step = "commitRole", !.held = held]
    <3>1. /\ q.step = "openRole" /\ UNCHANGED <<roles, profiles, users, overlapped, drifted>>
          /\ Finish(c) \/ call' = [call EXCEPT ![c] = n]
      BY <2>20 DEF OpenRole
    <3>2. CASE Finish(c)
      BY <2>7, <3>1, <3>2
    <3>3. CASE call' = [call EXCEPT ![c] = n]
      <4>1. /\ n.step = "commitRole" /\ n.role = q.role /\ n.terms = q.terms
            /\ n.auth = q.auth
        BY <2>1 DEF Call
      <4> HIDE DEF n
      <4>2. call'[c] = n /\ \A d \in Callers \ {c} : call'[d] = call[d]
        BY <3>3 DEF TypeInv
      <4>3. ASSUME ~overlapped, ~drifted PROVE OthersCounted(c)'
        <5>1. q.terms.auth = "admin" /\ q.auth # "admin" =>
                \E m \in ActiveAdmins : profiles[m].role # q.role
          BY <3>1, <4>3 DEF AdminInv, OthersCounted
        <5> QED
          BY <3>1, <4>1, <4>2, <5>1, AdminsStay DEF OthersCounted
      <4> QED
        BY <2>6, <3>1, <4>2, <4>3
    <3> QED
      BY <3>1, <3>2, <3>3
  <2>21. ASSUME NEW c \in Callers, CommitRole(c) PROVE AdminInv'
    <3> DEFINE q == call[c]
               moves == q.auth # q.terms.auth
    <3>1. /\ q.step = "commitRole" /\ Finish(c) /\ UNCHANGED <<overlapped, drifted>>
          /\ q.role \in Roles /\ q.auth \in Auths /\ q.terms.auth \in Auths
      BY <2>1, <2>21 DEF CommitRole, WellNamed, Call, Terms
    <3>2. CASE UNCHANGED <<roles, profiles, users>>
      BY <2>7, <3>1, <3>2
    <3>3. CASE ~UNCHANGED <<roles, profiles, users>>
      <4> DEFINE given(m) == ResolveMemberPermissions(q.role, NextGrants(c), q.held[m])
                 a == IF moves THEN q.auth ELSE roles[q.role].auth
                 g == IF GrantsChanged(c) THEN NextGrants(c) ELSE roles[q.role].grants
                 row == [roles[q.role] EXCEPT !.auth = a, !.grants = g]
      <4>1. /\ roles' = [roles EXCEPT ![q.role] = row]
            /\ profiles' = [m \in Members |->
                 IF m \in DOMAIN q.held THEN [profiles[m] EXCEPT !.grants = given(m)]
                 ELSE profiles[m]]
            /\ users' = [m \in Members |->
                 IF moves /\ profiles[m].role = q.role /\ Live(profiles[m])
                   THEN [users[m] EXCEPT !.role = q.auth] ELSE users[m]]
        BY <2>21, <3>3 DEF CommitRole
      <4>2. row.auth = a
        BY <2>1, <3>1 DEF StaffRole
      <4> HIDE DEF row, given
      <4>3. roles'[q.role].auth = a /\ \A x \in Roles \ {q.role} : roles'[x] = roles[x]
        BY <3>1, <4>1, <4>2 DEF TypeInv, TypeOK
      <4>4. \A m \in Members : UNCHANGED <<profiles[m].exists, profiles[m].deleted,
                                           profiles[m].active, profiles[m].role>>
        BY <2>1, <4>1 DEF StaffProfile
      <4>5. \A m \in Members :
              /\ UNCHANGED <<users[m].exists, users[m].banned>>
              /\ users'[m].role = IF moves /\ profiles[m].role = q.role /\ Live(profiles[m])
                                    THEN q.auth ELSE users[m].role
        BY <2>1, <4>1 DEF User
      <4>6. ASSUME ~overlapped, ~drifted, NoneRestored PROVE RolesAgree' /\ ActiveAdmins' # {}
        <5>1. AllAgree /\ ActiveAdmins # {}
          BY <2>3, <4>6
        <5>2. ASSUME NEW m \in Members, Live(profiles'[m])
              PROVE  users'[m].role = roles'[profiles'[m].role].auth
          <6>1. Live(profiles[m]) /\ users[m].role = roles[profiles[m].role].auth
            BY <4>4, <5>1, <5>2 DEF AllAgree, Disagrees, Live
          <6>2. CASE profiles[m].role = q.role
            BY <4>3, <4>4, <4>5, <6>1, <6>2
          <6>3. CASE profiles[m].role # q.role
            BY <2>1, <4>3, <4>4, <4>5, <6>1, <6>3
          <6> QED
            BY <6>2, <6>3
        <5>3. RolesAgree'
          BY <5>2, AgreeingAgree
        <5>4. CASE moves /\ q.auth # "admin"
          <6>1. q.terms.auth = "admin"
            BY <3>1, <5>4 DEF Auths
          <6>2. PICK m \in ActiveAdmins : profiles[m].role # q.role
            BY <3>1, <4>6, <5>4, <6>1 DEF AdminInv, OthersCounted
          <6>3. m \in ActiveAdmins'
            BY <2>4, <4>4, <4>5, <6>2, AdminStays
          <6> QED
            BY <5>3, <6>3
        <5>5. CASE ~(moves /\ q.auth # "admin")
          <6>1. PICK m \in ActiveAdmins : TRUE
            BY <5>1
          <6>2. users'[m].role = "admin"
            BY <2>4, <4>5, <5>5
          <6>3. m \in ActiveAdmins'
            BY <2>4, <4>4, <4>5, <6>2, AdminStays
          <6> QED
            BY <5>3, <6>3
        <5> QED
          BY <5>4, <5>5
      <4> QED
        BY <2>8, <3>1, <4>6
    <3> QED
      BY <3>2, <3>3
  <2>22. ASSUME NEW c \in Callers, NEW a \in Members, NEW m \in Members, TrashMember(c, a, m)
         PROVE  AdminInv'
    <3> DEFINE q == [Idle EXCEPT !.step = "stampMember", !.who = m]
    <3>1. q.step = "stampMember" /\ q.who = m
      BY DEF Idle
    <3>2. /\ Start(c, a, q) /\ UNCHANGED <<roles, profiles, users, drifted>>
          /\ Live(profiles[m]) /\ MayTrashMember(m)
      BY <2>22 DEF TrashMember
    <3> HIDE DEF q
    <3>3. ASSUME ~overlapped, ~drifted, NoneRestored, call'[c] = q PROVE OthersCounted(c)'
      <4>1. AllAgree /\ ActiveAdmins # {}
        BY <2>3, <3>3
      <4>2. ActiveAdmins \ {m} # {}
        <5>1. CASE roles[profiles[m].role].auth = "admin"
          BY <3>2, <5>1 DEF MayTrashMember
        <5>2. CASE roles[profiles[m].role].auth # "admin"
          <6>1. users[m].role # "admin"
            BY <3>2, <4>1, <5>2 DEF AllAgree, Disagrees
          <6>2. m \notin ActiveAdmins
            BY <2>4, <6>1
          <6> QED
            BY <4>1, <6>2
        <5> QED
          BY <5>1, <5>2
      <4> QED
        BY <3>1, <3>2, <3>3, <4>2, AdminsStay DEF OthersCounted
    <3> QED
      BY <2>5, <3>2, <3>3
  <2>23. ASSUME NEW c \in Callers, StampMember(c) PROVE AdminInv'
    <3> DEFINE w == call[c].who
    <3>1. /\ call[c].step = "stampMember" /\ UNCHANGED <<roles, users, overlapped, drifted>>
          /\ w \in Members
      BY <2>1, <2>23 DEF StampMember, WellNamed
    <3>2. CASE ~Live(profiles[w])
      <4>1. Finish(c) /\ profiles' = profiles
        BY <2>23, <3>2 DEF StampMember
      <4> QED
        BY <2>7, <3>1, <4>1
    <3>3. CASE Live(profiles[w])
      <4>1. Goto(c, "revoke") /\ profiles' = [profiles EXCEPT ![w].deleted = TRUE]
        BY <2>23, <3>3 DEF StampMember
      <4>2. call'[c].step = "revoke" /\ \A d \in Callers \ {c} : call'[d] = call[d]
        BY <4>1, GotoKeeps DEF Steps
      <4>3. /\ profiles'[w].deleted
            /\ \A m \in Members \ {w} : profiles'[m] = profiles[m]
        BY <2>1, <3>1, <4>1 DEF TypeInv, TypeOK, StaffProfile
      <4>4. ASSUME ~overlapped, ~drifted
            PROVE  /\ RolesAgree' /\ ActiveAdmins' # {}
                   /\ \A d \in Callers \ {c} : call'[d] = Idle
        <5>1. AllAgree /\ ActiveAdmins \ {w} # {}
          BY <2>3, <3>1, <4>4, NotRestoring DEF AdminInv, OthersCounted
        <5>2. PICK m \in ActiveAdmins : m # w
          BY <5>1
        <5>3. m \in ActiveAdmins'
          BY <2>4, <3>1, <4>3, <5>2, AdminStays
        <5>4. RolesAgree'
          BY <3>1, <4>3, <5>1, AgreeingAgree DEF AllAgree, Disagrees, Live
        <5>5. \A d \in Callers \ {c} : call'[d] = Idle
          BY <2>2, <3>1, <4>2, <4>4, OthersIdle DEF SerialInv
        <5> QED
          BY <5>3, <5>4, <5>5
      <4> QED
        BY <3>1, <4>2, <4>4, NothingCounted, AdminStep
    <3> QED
      BY <3>2, <3>3
  <2>24. ASSUME NEW c \in Callers, RevokeStaffAccess(c) PROVE AdminInv'
    <3> DEFINE w == call[c].who
    <3>1. /\ call[c].step = "revoke" /\ Finish(c)
          /\ UNCHANGED <<roles, profiles, overlapped, drifted>>
          /\ w \in Members /\ users' = [users EXCEPT ![w].banned = TRUE]
      BY <2>1, <2>24 DEF RevokeStaffAccess, WellNamed
    <3>2. /\ \A m \in Members : users'[m].role = users[m].role
          /\ \A m \in Members \ {w} : users'[m] = users[m]
      BY <2>1, <3>1 DEF TypeInv, TypeOK, User
    <3>3. ASSUME ~overlapped, ~drifted, NoneRestored PROVE RolesAgree' /\ ActiveAdmins' # {}
      <4>1. profiles[w].deleted
        BY <3>1, <3>3 DEF AccountsInv, AccountStands
      <4>2. AllAgree /\ ActiveAdmins # {}
        BY <2>3, <3>3
      <4>3. PICK m \in ActiveAdmins : TRUE
        BY <4>2
      <4>4. m # w
        BY <2>4, <4>1 DEF Live
      <4>5. m \in ActiveAdmins'
        BY <2>4, <3>1, <3>2, <4>4, AdminStays
      <4> QED
        BY <3>1, <3>2, <4>2, <4>5, AgreeingAgree DEF AllAgree, Disagrees
    <3> QED
      BY <2>8, <3>1, <3>3
  <2>25. ASSUME NEW c \in Callers, NEW a \in Members, NEW m \in Members, RestoreMember(c, a, m)
         PROVE  AdminInv'
    <3> DEFINE q == [Idle EXCEPT !.step = "allow", !.who = m]
    <3>1. q.step = "allow" /\ q.who = m
      BY DEF Idle
    <3>2. Start(c, a, q) /\ UNCHANGED <<roles, users, drifted>>
          /\ profiles' = [profiles EXCEPT ![m].deleted = FALSE]
      BY <2>25 DEF RestoreMember
    <3> HIDE DEF q
    <3>3. /\ ~profiles'[m].deleted
          /\ \A x \in Members : UNCHANGED <<profiles[x].exists, profiles[x].active>>
          /\ \A x \in Members \ {m} : profiles'[x] = profiles[x]
      BY <2>1, <3>2 DEF TypeInv, TypeOK, StaffProfile
    <3>4. ASSUME ~overlapped', ~drifted PROVE RolesAgree' /\ ActiveAdmins' # {}
      <4>1. ~overlapped /\ NoneRestored /\ call'[c] = q
        BY <3>2, <3>4, StartsAlone, IdleIsNotRestoring
      <4>2. AllAgree /\ ActiveAdmins # {}
        BY <2>3, <3>4, <4>1
      <4>3. BeingRestored(m)'
        BY <3>1, <4>1 DEF BeingRestored
      <4>4. RolesAgree'
        BY <3>2, <3>3, <4>2, <4>3 DEF RolesAgree, AllAgree, Disagrees, Live
      <4>5. PICK x \in ActiveAdmins : TRUE
        BY <4>2
      <4>6. x \in ActiveAdmins'
        BY <2>4, <3>2, <3>3 DEF ActiveAdmins, Live, Passes
      <4> QED
        BY <4>4, <4>6
    <3> QED
      BY <3>1, <3>2, <3>4, StartsAlone, NothingCounted, AdminStep
  <2>26. ASSUME NEW c \in Callers, RestoreStaffAccess(c) PROVE AdminInv'
    <3> DEFINE w == call[c].who
    <3>1. /\ call[c].step = "allow" /\ Finish(c)
          /\ UNCHANGED <<roles, profiles, overlapped>> /\ w \in Members
          /\ users' = [users EXCEPT ![w].banned = FALSE]
          /\ drifted' = (drifted \/ Disagrees(w))
      BY <2>1, <2>26 DEF RestoreStaffAccess, WellNamed
    <3>2. call'[c] = Idle /\ \A d \in Callers \ {c} : call'[d] = call[d]
      BY <3>1, FinishEnds
    <3>3. /\ ~users'[w].banned
          /\ \A m \in Members : UNCHANGED <<users[m].exists, users[m].role>>
          /\ \A m \in Members \ {w} : users'[m] = users[m]
      BY <2>1, <3>1 DEF TypeInv, TypeOK, User
    <3>4. ASSUME ~overlapped, ~drifted'
          PROVE  /\ RolesAgree' /\ ActiveAdmins' # {}
                 /\ \A d \in Callers \ {c} : call'[d] = Idle
      <4>1. \A d \in Callers \ {c} : call'[d] = Idle /\ call[d] = Idle
        BY <2>2, <3>1, <3>2, <3>4, OthersIdle DEF SerialInv
      <4>2. \A m \in Members : BeingRestored(m) => m = w
        BY <2>2, <4>1 DEF BeingRestored
      <4>3. ~drifted /\ ~Disagrees(w)
        BY <3>1, <3>4
      <4>4. RolesAgree /\ ActiveAdmins # {}
        BY <3>4, <4>3 DEF AdminInv
      <4>5. \A m \in Members : Live(profiles[m]) => ~Disagrees(m)
        BY <4>2, <4>3, <4>4 DEF RolesAgree
      <4>6. RolesAgree'
        BY <3>1, <3>3, <4>5, AgreeingAgree DEF Disagrees
      <4>7. PICK m \in ActiveAdmins : TRUE
        BY <4>4
      <4>8. m \in ActiveAdmins'
        BY <2>4, <3>1, <3>3 DEF ActiveAdmins, Passes, Live
      <4> QED
        BY <4>1, <4>6, <4>8
    <3> QED
      BY <2>2, <3>1, <3>2, <3>4, NothingCounted, AdminStep
  <2>27. ASSUME NEW m \in Members, PurgeMember(m) PROVE AdminInv'
    <3>1. /\ profiles' = [profiles EXCEPT ![m] = NoProfile] /\ m \in bin
          /\ Begins(Callers) /\ UNCHANGED <<roles, users, call, drifted>>
      BY <2>27 DEF PurgeMember
    <3>2. ~profiles'[m].exists /\ \A x \in Members \ {m} : profiles'[x] = profiles[x]
      BY <3>1 DEF TypeInv, TypeOK, NoProfile
    <3>3. ASSUME ~overlapped, ~drifted, NoneRestored PROVE RolesAgree' /\ ActiveAdmins' # {}
      <4>1. profiles[m].deleted
        BY <3>1, <3>3 DEF AccountsInv, AccountsExist, NoneRestored, BeingRestored
      <4>2. AllAgree /\ ActiveAdmins # {}
        BY <2>3, <3>3
      <4>3. PICK x \in ActiveAdmins : TRUE
        BY <4>2
      <4>4. x # m
        BY <2>4, <4>1 DEF Live
      <4>5. x \in ActiveAdmins'
        BY <2>4, <3>1, <3>2, <4>4, AdminStays
      <4> QED
        BY <3>1, <3>2, <4>2, <4>5, AgreeingAgree DEF AllAgree, Disagrees, Live
    <3> QED
      BY <2>9, <3>1, <3>3
  <2>28. ASSUME NEW c \in Callers, NEW a \in Members, NEW r \in Roles, TrashRole(c, a, r)
         PROVE  AdminInv'
    <3> DEFINE q == [Idle EXCEPT !.step = "stampRole", !.role = r]
    <3>1. q.step = "stampRole"
      BY DEF Idle
    <3>2. Start(c, a, q) /\ UNCHANGED <<roles, profiles, users, drifted>>
      BY <2>28 DEF TrashRole
    <3> HIDE DEF q
    <3> QED
      BY <2>5, <3>1, <3>2, NothingCounted
  <2>29. ASSUME NEW c \in Callers, StampRole(c) PROVE AdminInv'
    <3> DEFINE r == call[c].role
    <3>1. /\ call[c].step = "stampRole" /\ Finish(c)
          /\ UNCHANGED <<profiles, users, overlapped, drifted>> /\ r \in Roles
          /\ roles' = roles \/ roles' = [roles EXCEPT ![r].deleted = TRUE]
      BY <2>1, <2>29 DEF StampRole, WellNamed
    <3>2. \A x \in Roles : roles'[x].auth = roles[x].auth
      BY <2>1, <3>1 DEF TypeInv, TypeOK, StaffRole
    <3>3. AllAgree => RolesAgree'
      BY <2>1, <3>1, <3>2, AgreeingAgree DEF AllAgree, Disagrees
    <3> QED
      BY <2>3, <2>8, <3>1, <3>3, AdminsStay
  <2>30. ASSUME NEW a \in Members, NEW r \in Roles, RestoreRole(a, r) PROVE AdminInv'
    <3>1. /\ roles' = [roles EXCEPT ![r].deleted = FALSE]
          /\ Begins(Callers) /\ UNCHANGED <<profiles, users, call, drifted>>
      BY <2>30 DEF RestoreRole
    <3>2. \A x \in Roles : roles'[x].auth = roles[x].auth
      BY <2>1, <3>1 DEF TypeInv, TypeOK, StaffRole
    <3>3. AllAgree => RolesAgree'
      BY <2>1, <3>1, <3>2, AgreeingAgree DEF AllAgree, Disagrees
    <3> QED
      BY <2>3, <2>9, <3>1, <3>3, AdminsStay
  <2>31. ASSUME NEW r \in Roles, PurgeRole(r) PROVE AdminInv'
    <3>1. /\ Holders(r) = {} /\ roles' = [roles EXCEPT ![r] = NoRole]
          /\ Begins(Callers) /\ UNCHANGED <<profiles, users, call, drifted>>
      BY <2>31 DEF PurgeRole
    <3>2. \A x \in Roles \ {r} : roles'[x] = roles[x]
      BY <3>1 DEF TypeInv, TypeOK
    <3>3. \A m \in Members : Live(profiles[m]) => profiles[m].role \in Roles \ {r}
      BY <2>1, <3>1 DEF Holders, Live
    <3>4. AllAgree => RolesAgree'
      BY <3>1, <3>2, <3>3, AgreeingAgree DEF AllAgree, Disagrees
    <3> QED
      BY <2>3, <2>9, <3>1, <3>4, AdminsStay
  <2>32. CASE UNCHANGED vars
    BY <2>32, AdminsStay DEF vars, AdminInv, RolesAgree, Disagrees, BeingRestored, OthersCounted
  <2>33. ASSUME NEW c \in Callers, Team(c) PROVE AdminInv'
    <3>1. CASE \E a, m \in Members, r \in Roles, on \in BOOLEAN, g \in Submissions :
                 BeginCreate(c, a, m, r, on, g[1], g[2])
      BY <2>10, <3>1
    <3>2. CASE \E a, m \in Members, r \in Roles, on, reset \in BOOLEAN, g \in Submissions :
                 BeginUpdate(c, a, m, r, on, g[1], g[2], reset)
      BY <2>11, <3>2
    <3>3. CASE CreateUser(c) \/ WriteProfile(c) \/ ReadRole(c) \/ CountAdmins(c) \/ WriteMember(c)
      BY <2>12, <2>13, <2>14, <2>15, <2>16, <3>3
    <3> QED
      BY <2>33, <3>1, <3>2, <3>3 DEF Team
  <2>34. ASSUME NEW c \in Callers, RoleEdits(c) PROVE AdminInv'
    BY <2>18, <2>19, <2>20, <2>21, <2>34 DEF RoleEdits
  <2>35. ASSUME NEW c \in Callers, Trash(c) PROVE AdminInv'
    BY <2>22, <2>23, <2>24, <2>25, <2>26, <2>28, <2>29, <2>35 DEF Trash
  <2> QED
    BY <2>17, <2>27, <2>30, <2>31, <2>32, <2>33, <2>34, <2>35 DEF Next
<1> QED
  BY <1>1, <1>2, TypesHold, SerialInvariant, AccountsInvariant, PTL DEF Spec

(***************************************************************************)
(* The last-administrator rule, for any accounts, roles and requests:      *)
(* while no two requests have overlapped and no restore has brought back   *)
(* an auth role its job role lost, some active administrator is left.      *)
(***************************************************************************)
THEOREM SomebodyIsLeft == Spec => []SomebodyAdministers
<1>1. AdminInv => SomebodyAdministers
  BY DEF AdminInv, SomebodyAdministers
<1> QED
  BY <1>1, AdminInvariant, PTL
=============================================================================
