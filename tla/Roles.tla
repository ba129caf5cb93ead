-------------------------------- MODULE Roles -------------------------------
(***************************************************************************)
(* The operations of src/src/roles/index.ts on one role, by several        *)
(* admins at once, and how roles/util.ts turns permissions into the grants *)
(* of Weaviate, one per action, and grants into the permissions of a Role, *)
(* which it collects under keys.                                           *)
(*                                                                         *)
(* A grant has a kind, what it is on (a collection, an alias, a user, ...),*)
(* within what (a tenant, a shard, a verbosity, ...; the collection of an  *)
(* alias) and an action; a permission has a set of actions instead.        *)
(* Weaviate, external, keeps the set of the role's grants.                 *)
(***************************************************************************)
EXTENDS Naturals, FiniteSets

CONSTANTS
  Admins,        \* clients that work on the role
  Permissions,   \* the arguments of their calls: sets of permissions
  MaxRoleCalls   \* bound: calls altogether

ASSUME MaxRoleCallsAssumption == MaxRoleCalls \in Nat

VARIABLES
  grants,      \* the grants of the role in Weaviate
  exists,      \* whether it is there
  admin,       \* admin[a]: where the call of a stands
  op,          \* op[a]: its operation
  asks,        \* asks[a]: its grants; those not answered yet of hasPermissions
  held,        \* held[a]: the answers of hasPermissions so far
  got,         \* got[a]: the grants in the answer on its way
  returned,    \* returned[a]: the entries of the Role, or the answer of hasPermissions
  roleCalls,
  wanted,      \* history: wanted[a]: the grants a asked hasPermissions for
  shrunk,      \* history: shrunk[a]: whether grants were removed since a called
  grown        \* history: grown[a]: whether grants were added since

rolesVars == <<grants, exists, admin, op, asks, held, got, returned, roleCalls, wanted,
               shrunk, grown>>
serverVars == <<grants, exists, shrunk, grown>>

RolesInit ==
  /\ grants = {} /\ exists = FALSE
  /\ admin = [a \in Admins |-> "idle"]
  /\ op = [a \in Admins |-> "none"]
  /\ asks = [a \in Admins |-> {}]
  /\ held = [a \in Admins |-> {}]
  /\ got = [a \in Admins |-> {}]
  /\ returned = [a \in Admins |-> {}]
  /\ roleCalls = 0
  /\ wanted = [a \in Admins |-> {}]
  /\ shrunk = [a \in Admins |-> FALSE] /\ grown = [a \in Admins |-> FALSE]

-----------------------------------------------------------------------------
\* permissionToWeaviate: a grant for each action.
ToWeaviate(permissions) ==
  UNION {{[kind |-> p.kind, on |-> p.on, within |-> p.within, action |-> action]
           : action \in p.actions} : p \in permissions}

\* Mutant: the tenant, shard, ... is not in the key.
KeyWithoutWithin(g) == <<g.kind, g.on>>

\* The key under which PermissionsMapping collects a grant: an alias's
\* collection is not in it, and the collection of minimal nodes is any.
KeyOf(g) ==
  IF g.kind = "aliases" THEN <<g.kind, g.on>>
  ELSE IF g.kind = "nodes" /\ g.within = "minimal" THEN <<g.kind, "*", g.within>>
  ELSE <<g.kind, g.on, g.within>>

\* roleFromWeaviate: one permission for each key, as the first grant with the
\* key has it, with the actions of all of them.
RoleFrom(all, first) ==
  {LET g == first[k]
   IN  [kind |-> g.kind, within |-> g.within,
        on |-> IF g.kind = "nodes" /\ g.within = "minimal" THEN "*" ELSE g.on,
        actions |-> {h.action : h \in {h \in all : KeyOf(h) = k}}] : k \in DOMAIN first}

\* Which grant comes first, in whatever order Weaviate or the caller lists them.
FirstsOf(all) ==
  {first \in [{KeyOf(g) : g \in all} -> all] : \A k \in DOMAIN first : KeyOf(first[k]) = k}

-----------------------------------------------------------------------------
AdminAt(a, from, to) ==
  /\ admin[a] = from
  /\ admin' = [admin EXCEPT ![a] = to]

Settled == {"idle", "resolved", "rejected", "threw"}

\* An operation is called.  A permission without an action makes it throw
\* before anything is sent: its kind is told by its actions.
CallRoles(a, operation, permissions) ==
  /\ roleCalls < MaxRoleCalls /\ roleCalls' = roleCalls + 1
  /\ admin[a] \in Settled
  /\ admin' = [admin EXCEPT
       ![a] = IF \E p \in permissions : p.actions = {} THEN "threw" ELSE "asking"]
  /\ op' = [op EXCEPT ![a] = operation]
  /\ asks' = [asks EXCEPT ![a] = ToWeaviate(permissions)]
  /\ wanted' = [wanted EXCEPT ![a] = ToWeaviate(permissions)]
  /\ held' = [held EXCEPT ![a] = {}]
  /\ got' = [got EXCEPT ![a] = {}]
  /\ returned' = [returned EXCEPT ![a] = {}]
  /\ shrunk' = [shrunk EXCEPT ![a] = FALSE] /\ grown' = [grown EXCEPT ![a] = FALSE]
  /\ UNCHANGED <<grants, exists>>

CallAny(a) ==
  \/ \E permissions \in Permissions, operation \in {"create", "add", "remove", "has"} :
       CallRoles(a, operation, permissions)
  \/ \E operation \in {"byName", "delete"} : CallRoles(a, operation, {})

\* Weaviate's side of a request that changes the role to a set of grants.
RoleBecomes(a, there, new) ==
  /\ exists' = there /\ grants' = new
  /\ shrunk' = [b \in Admins |-> shrunk[b] \/ ~(grants \subseteq new)]
  /\ grown' = [b \in Admins |-> grown[b] \/ ~(new \subseteq grants)]
  /\ AdminAt(a, "asking", "answered")

ServeRole(a) ==
  /\ \/ op[a] = "create" /\ ~exists /\ RoleBecomes(a, TRUE, asks[a]) /\ UNCHANGED got
     \/ op[a] = "add" /\ exists /\ RoleBecomes(a, TRUE, grants \cup asks[a]) /\ UNCHANGED got
     \/ op[a] = "remove" /\ exists /\ RoleBecomes(a, TRUE, grants \ asks[a]) /\ UNCHANGED got
     \/ op[a] = "delete" /\ RoleBecomes(a, FALSE, {}) /\ UNCHANGED got
     \/ /\ op[a] = "byName" /\ exists
        /\ AdminAt(a, "asking", "answered")
        /\ got' = [got EXCEPT ![a] = grants]
        /\ UNCHANGED serverVars
  /\ UNCHANGED <<op, asks, held, returned, roleCalls, wanted>>

\* The answer arrives.  create returns the role of its own permissions.
RoleArrives(a) ==
  /\ AdminAt(a, "answered", "resolved")
  /\ \/ /\ op[a] \in {"create", "byName"}
        /\ LET all == IF op[a] = "create" THEN asks[a] ELSE got[a]
           IN  \E first \in FirstsOf(all) :
                 returned' = [returned EXCEPT ![a] = RoleFrom(all, first)]
     \/ op[a] \notin {"create", "byName"} /\ UNCHANGED returned
  /\ UNCHANGED <<serverVars, op, asks, held, got, roleCalls, wanted>>

\* hasPermissions asks for each grant in a request of its own.
ServeHas(a, g) ==
  /\ op[a] = "has" /\ admin[a] = "asking" /\ exists /\ g \in asks[a]
  /\ asks' = [asks EXCEPT ![a] = @ \ {g}]
  /\ held' = [held EXCEPT ![a] = @ \cup {(g \in grants)}]
  /\ UNCHANGED <<serverVars, admin, op, got, returned, roleCalls, wanted>>

\* Mutant: one grant is enough.
AnyHeld(a) == TRUE \in held[a]

\* r.every((b) => b)
EveryHeld(a) == FALSE \notin held[a]

HasReturns(a) ==
  /\ op[a] = "has" /\ asks[a] = {}
  /\ AdminAt(a, "asking", "resolved")
  /\ returned' = [returned EXCEPT ![a] = {EveryHeld(a)}]
  /\ UNCHANGED <<serverVars, op, asks, held, got, roleCalls, wanted>>

\* A request is refused, or its answer is lost.
RoleFails(a) ==
  /\ \E at \in {"asking", "answered"} : AdminAt(a, at, "rejected")
  /\ UNCHANGED <<serverVars, op, asks, held, got, returned, roleCalls, wanted>>

RolesNext ==
  \E a \in Admins :
    \/ CallAny(a) \/ ServeRole(a) \/ RoleArrives(a) \/ HasReturns(a) \/ RoleFails(a)
    \/ \E g \in asks[a] : ServeHas(a, g)

RolesSpec == RolesInit /\ [][RolesNext]_rolesVars

-----------------------------------------------------------------------------
AllGrants == UNION {ToWeaviate(permissions) : permissions \in Permissions}

\* Types of the state.
RolesTypeOK ==
  /\ grants \subseteq AllGrants /\ exists \in BOOLEAN
  /\ admin \in [Admins -> Settled \cup {"asking", "answered"}]
  /\ op \in [Admins -> {"none", "create", "add", "remove", "delete", "has", "byName"}]
  /\ asks \in [Admins -> SUBSET AllGrants]
  /\ got \in [Admins -> SUBSET AllGrants]
  /\ held \in [Admins -> SUBSET BOOLEAN]
  /\ roleCalls \in 0..MaxRoleCalls

\* The grants of which a grant of the role is told in a Role.
Told(g) == IF g.kind = "nodes" /\ g.within = "minimal" THEN [g EXCEPT !.on = "*"] ELSE g

\* A Role that is returned has the grants that were created or read, neither
\* more nor less, however they are collected; but of an alias's grants on two
\* collections it names one of the collections only.
RoleShowsGrants ==
  \A a \in Admins : admin[a] = "resolved" /\ op[a] \in {"create", "byName"} =>
    LET all == IF op[a] = "create" THEN wanted[a] ELSE got[a]
        shown == ToWeaviate(returned[a])
        Plain(gs) == {g \in gs : g.kind # "aliases"}
        Aliases(gs) == {<<g.on, g.action>> : g \in gs \ Plain(gs)}
    IN  /\ Plain(shown) = {Told(g) : g \in Plain(all)}
        /\ Aliases(shown) = Aliases(all)
        /\ \A p \in returned[a] : p.kind = "aliases" =>
             \E g \in all : g.kind = p.kind /\ g.on = p.on /\ g.within = p.within

\* What hasPermissions returns holds at that moment for all the grants together,
\* though it asked for each on its own: they are held if nothing was removed
\* since the call, and one is missing if nothing was added.
HasIsTrue ==
  [][\A a \in Admins : admin[a] # "resolved" /\ admin'[a] = "resolved" /\ op[a] = "has" =>
       /\ returned'[a] = {TRUE} /\ ~shrunk[a] => wanted[a] \subseteq grants
       /\ returned'[a] = {FALSE} /\ ~grown[a] => ~(wanted[a] \subseteq grants)]_rolesVars
=============================================================================
