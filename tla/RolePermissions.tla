---------------------------- MODULE RolePermissions ----------------------------
(***************************************************************************)
(* What the staff roles may do: the matrix in role_permissions and the copy *)
(* of it every request is judged by, in internal/service/rbac_service.go    *)
(* and internal/repository/role_permission_repository.go.                   *)
(***************************************************************************)
EXTENDS Naturals

CONSTANTS
    Staff,        \* the roles with rows: admin, operator
    Resources,    \* what a role is let into, Reserved included
    Updaters,     \* requests that save the matrix
    MaxUpdates    \* bound: saves and starts

ASSUME RolesAssumption == MaxUpdates \in Nat

Superadmin == "superadmin"
Reserved == "roles"
Cells == Staff \X Resources

VARIABLES
    table,         \* role_permissions: the cells with a row, those allowed
    rbacCache,     \* the cells the copy allows
    lock,          \* who holds s.mu
    updater,       \* what each save does, and the matrix its refresh has read
    missed,        \* the last refresh could not read
    updates

rolesVars == <<table, rbacCache, lock, updater, missed, updates>>

Tables == [known : SUBSET Cells, allowed : SUBSET Cells]
UpdateAt(place) == [at |-> place, read |-> {}]
NoUpdate == UpdateAt("idle")
Starter == "start"
Refreshers == Updaters \cup {Starter}

\* NewRolePermissionRepository seeds, then NewRBACService refreshes.
RolesInit ==
    /\ table = [known |-> {}, allowed |-> {}]
    /\ rbacCache = {}
    /\ lock = {}
    /\ updater = [u \in Refreshers |-> UpdateAt(IF u = Starter THEN "seed" ELSE "idle")]
    /\ missed = FALSE
    /\ updates = 0

Goes(u, place) == updater' = [updater EXCEPT ![u].at = place]

\* A row is created as allowed whatever it says: gorm puts the column's default,
\* true, in the place of a false.
CreatedAllowed(cells) == cells

\* Rows that are missing are inserted; an error is dropped.
SeedDefaultPermissions ==
    /\ updater[Starter].at = "seed"
    /\ LET missing == (Staff \X (Resources \ {Reserved})) \ table.known
       IN  table' \in {table, [known |-> table.known \cup missing,
                               allowed |-> table.allowed \cup CreatedAllowed(missing)]}
    /\ Goes(Starter, "refresh")
    /\ UNCHANGED <<rbacCache, lock, missed, updates>>

\* One transaction saves the cells sent, each once; it fails as a whole.
BulkUpsertPermissions(u) ==
    /\ u # Starter /\ updater[u].at = "idle" /\ updater[Starter].at = "idle"
    /\ updates < MaxUpdates /\ updates' = updates + 1
    /\ \E sent \in SUBSET Cells, allowed \in SUBSET Cells :
           /\ allowed \subseteq sent
           /\ table' = [known |-> table.known \cup sent,
                        allowed |-> (table.allowed \ sent) \cup allowed
                                        \cup CreatedAllowed(sent \ table.known)]
    /\ Goes(u, "refresh")
    /\ UNCHANGED <<rbacCache, lock, missed>>

\* What RequirePermission asks.
CanAccess(role, resource) ==
    role = Superadmin \/ (resource # Reserved /\ <<role, resource>> \in rbacCache)

-------------------------------------------------------------------------------
(* refreshCache.                                                           *)

LockCache(u) ==
    /\ updater[u].at = "refresh" /\ lock = {}
    /\ lock' = {u}
    /\ Goes(u, "read")
    /\ UNCHANGED <<table, rbacCache, missed, updates>>

\* The matrix is read under the lock; the variant reads it before.
ReadsUnlocked(u) == updater[u].at = "refresh"
MayRead(u) == updater[u].at = "read"
GetAllPermissions(u) ==
    /\ MayRead(u)
    /\ updater' = [updater EXCEPT ![u] = [at |-> "store", read |-> table.allowed]]
    /\ UNCHANGED <<table, rbacCache, lock, missed, updates>>

\* The rows are saved and the request answers 500; the copy stays as it was.
ReadFails(u) ==
    /\ updater[u].at = "read"
    /\ missed' = TRUE
    /\ lock' = {}
    /\ updater' = [updater EXCEPT ![u] = NoUpdate]
    /\ UNCHANGED <<table, rbacCache, updates>>

StoreCache(u) ==
    /\ updater[u].at = "store"
    /\ rbacCache' = updater[u].read
    /\ missed' = FALSE
    /\ lock' = {}
    /\ updater' = [updater EXCEPT ![u] = NoUpdate]
    /\ UNCHANGED <<table, updates>>

refreshCache(u) == LockCache(u) \/ GetAllPermissions(u) \/ ReadFails(u) \/ StoreCache(u)

\* A start forgets the copy and serves nobody before its refresh.
RestartRoles ==
    /\ updates < MaxUpdates /\ updates' = updates + 1
    /\ rbacCache' = {} /\ lock' = {} /\ missed' = FALSE
    /\ updater' = [u \in Refreshers |-> UpdateAt(IF u = Starter THEN "seed" ELSE "idle")]
    /\ UNCHANGED table

RolesNext ==
    \/ SeedDefaultPermissions
    \/ \E u \in Refreshers : BulkUpsertPermissions(u) \/ refreshCache(u)
    \/ RestartRoles

RolesSpec == RolesInit /\ [][RolesNext]_rolesVars

-------------------------------------------------------------------------------
\* Every variable has its type, and the rows allowed are rows.
RolesTypeOK ==
    /\ table \in Tables /\ table.allowed \subseteq table.known
    /\ rbacCache \subseteq Cells
    /\ lock \subseteq Refreshers
    /\ updater \in [Refreshers -> [at : {"idle", "seed", "refresh", "read", "store"},
                                read : SUBSET Cells]]
    /\ missed \in BOOLEAN /\ updates \in 0 .. MaxUpdates

\* With no save under way a request is let in exactly where the matrix in the
\* table allows it, however saves and their refreshes
\* overlapped, unless the last refresh could not read.
RolesAtRest ==
    (\A u \in Refreshers : updater[u].at = "idle") =>
        missed \/ \A role \in Staff \ {Superadmin}, resource \in Resources \ {Reserved} :
                      CanAccess(role, resource) <=> <<role, resource>> \in table.allowed
===============================================================================
