---------------------------- MODULE TenantStore -----------------------------
(***************************************************************************)
(* The tenant store of celtenancy (celtenancy/src/store.rs, StoreState):   *)
(* a forest of tenants with root capabilities, quotas and usage, their     *)
(* users and the live sessions of these users.                             *)
(*                                                                         *)
(* MemTenantStore and FileTenantStore run every operation under one mutex, *)
(* so an operation is one action.  A call that fails leaves the state as   *)
(* it is: its error paths are the negations of the action's guards.        *)
(*                                                                         *)
(* Tenants and users are known by their ids.  A user's name only decides   *)
(* whether add_user fails and is left out; a token stands for its hash.    *)
(***************************************************************************)
EXTENDS Integers, FiniteSets, FiniteSetsExt

CONSTANTS
  Name,         \* tenant names
  Cap,          \* the capability bits of TenantCaps
  Token,        \* session tokens that can be live at the same time
  Dim,          \* the quota dimensions: vCPUs, memory, storage, network, IOPS
  Limit,        \* the largest counter value (u32::MAX, u64::MAX)
  Ceiling,      \* quota ceilings an operator may ask for
  Amount,       \* amounts a charge may have in a dimension
  Unmatched,    \* charges callers may release without having made them
  MaxDepth,     \* chain_from and walk refuse a deeper hierarchy (64)
  MaxTenants,   \* bound on next_tenant_id (u64::MAX)
  MaxUsers,     \* bound on next_user_id (u64::MAX)
  MaxPasswords  \* bound on the password changes of a user

ASSUME StoreAssumption ==
  /\ 0 \notin Name
  /\ Limit \in Nat
  /\ Ceiling \subseteq 0..Limit
  /\ Amount \subseteq Nat
  /\ Unmatched \subseteq [Dim -> Amount]
  /\ MaxDepth \in Nat
  /\ MaxTenants \in Nat
  /\ MaxUsers \in Nat
  /\ MaxPasswords \in Nat

Tid == 1..MaxTenants
Uid == 1..MaxUsers
None == 0                         \* Option::None; the name of no tenant

Quotas == [Dim -> 0..Limit]       \* TenantQuotas, QuotaUsage
Charge == [Dim -> Amount]         \* QuotaCharge
Zero == [d \in Dim |-> 0]         \* QuotaUsage::default()

\* struct Session; password is the version of the user's password at mint time.
Session == [token : Token, tenant : Tid, user : Uid, caps : SUBSET Cap,
            password : 0..MaxPasswords, expired : BOOLEAN]

VARIABLES
  next_tenant_id, next_user_id,
  live,        \* the keys of StoreState::tenants
  by_name,     \* StoreState::by_name
  name, parent, root_caps, quotas, usage, users,  \* fields of struct Tenant
  user_caps,   \* User::caps
  password,    \* version of User::password_hash, 0 for None
  sessions,    \* StoreState::sessions
  held         \* what callers have charged to a tenant and not yet released

ids == <<next_tenant_id, next_user_id>>
tree == <<live, by_name, name, parent, quotas>>
authority == <<root_caps, users, user_caps, password>>
vars == <<ids, tree, authority, usage, sessions, held>>

TypeOK ==
  /\ next_tenant_id \in 0..MaxTenants
  /\ next_user_id \in 0..MaxUsers
  /\ live \in SUBSET Tid
  /\ by_name \in [Name -> Tid \cup {None}]
  /\ name \in [Tid -> Name \cup {None}]
  /\ parent \in [Tid -> Tid \cup {None}]
  /\ root_caps \in [Tid -> SUBSET Cap]
  /\ quotas \in [Tid -> Quotas]
  /\ usage \in [Tid -> Quotas]
  /\ users \in [Tid -> SUBSET Uid]
  /\ user_caps \in [Uid -> SUBSET Cap]
  /\ password \in [Uid -> 0..MaxPasswords]
  /\ sessions \in SUBSET Session
  /\ held \in [Tid -> [Dim -> Nat]]

\* StoreState::default().  A tenant that does not exist has blank fields.
Init ==
  /\ next_tenant_id = 0 /\ next_user_id = 0
  /\ live = {}
  /\ by_name = [x \in Name |-> None]
  /\ name = [t \in Tid |-> None]
  /\ parent = [t \in Tid |-> None]
  /\ root_caps = [t \in Tid |-> {}]
  /\ quotas = [t \in Tid |-> Zero]
  /\ usage = [t \in Tid |-> Zero]
  /\ users = [t \in Tid |-> {}]
  /\ user_caps = [u \in Uid |-> {}]
  /\ password = [u \in Uid |-> 0]
  /\ sessions = {}
  /\ held = [t \in Tid |-> Zero]

---------------------------------------------------------------------------
(* The hierarchy. *)

Closed(S) == \A x \in S : parent[x] # None => parent[x] \in S

\* chain_from: the tenant, its parent, its grandparent and so on.
Chain(t) == {a \in Tid : \A S \in SUBSET Tid : t \in S /\ Closed(S) => a \in S}

\* What chain_from demands before it returns a chain.
ChainFrom(t) == Chain(t) \subseteq live /\ Cardinality(Chain(t)) <= MaxDepth + 1

\* walk: the tenants whose chain passes through t.
Subtree(t) == {x \in live : t \in Chain(x)}

\* walk refuses a tenant more than MaxDepth levels below its root.
WalkSucceeds(t) ==
  \A x \in Subtree(t) : Cardinality(Chain(x)) - Cardinality(Chain(t)) <= MaxDepth

---------------------------------------------------------------------------
(* Quota arithmetic (quota.rs). *)

Below(q, r) == \A d \in Dim : q[d] <= r[d]

\* Fault: the addition wraps around.
WrappingAdd(x, y) == (x + y) % (Limit + 1)

SaturatingAdd(x, y) == IF x + y > Limit THEN Limit ELSE x + y
SaturatingSub(x, y) == IF y > x THEN 0 ELSE x - y

\* charge_quota: the new usage.  It is granted if Below(new, quotas).
ChargeQuota(use, c) == [d \in Dim |-> SaturatingAdd(use[d], c[d])]

\* release_quota
ReleaseQuota(use, c) == [d \in Dim |-> SaturatingSub(use[d], c[d])]

---------------------------------------------------------------------------
(* Tenants. *)

\* Fault: ids are not checked for overflow.
IdsUnbounded == TRUE

TenantIdLeft == next_tenant_id < MaxTenants

\* StoreState::create, also through create_subtenant.
Create(x, p, caps, q) ==
  /\ by_name[x] = None
  /\ p # None => /\ p \in live
                 /\ caps \subseteq root_caps[p]
                 /\ Below(q, quotas[p])
  /\ TenantIdLeft
  /\ LET id == next_tenant_id + 1 IN
     /\ next_tenant_id' = id
     /\ live' = live \cup {id}
     /\ by_name' = [by_name EXCEPT ![x] = id]
     /\ name' = [name EXCEPT ![id] = x]
     /\ parent' = [parent EXCEPT ![id] = p]
     /\ root_caps' = [root_caps EXCEPT ![id] = caps]
     /\ quotas' = [quotas EXCEPT ![id] = q]
  /\ UNCHANGED <<next_user_id, users, user_caps, password, usage, sessions, held>>

\* Fault: the name stays in the index.
IndexKept(T) == by_name

Unindexed(T) == [x \in Name |-> IF \E t \in T : name[t] = x THEN None ELSE by_name[x]]

\* The records of the tenants in T are removed from both maps.
Remove(T) ==
  /\ live' = live \ T
  /\ by_name' = Unindexed(T)
  /\ name' = [t \in Tid |-> IF t \in T THEN None ELSE name[t]]
  /\ parent' = [t \in Tid |-> IF t \in T THEN None ELSE parent[t]]
  /\ root_caps' = [t \in Tid |-> IF t \in T THEN {} ELSE root_caps[t]]
  /\ quotas' = [t \in Tid |-> IF t \in T THEN Zero ELSE quotas[t]]
  /\ usage' = [t \in Tid |-> IF t \in T THEN Zero ELSE usage[t]]
  /\ users' = [t \in Tid |-> IF t \in T THEN {} ELSE users[t]]
  /\ UNCHANGED <<ids, user_caps, password, held>>

\* Faults: subtenants, or usage, are not looked at.
SubtenantsIgnored(t) == TRUE
UsageIgnored(T) == TRUE

NoSubtenants(t) == \A x \in live : parent[x] # t
Unused(T) == \A x \in T : usage[x] = Zero

\* StoreState::delete: refused with subtenants or usage; sessions stay.
Delete(t) ==
  /\ t \in live
  /\ NoSubtenants(t)
  /\ Unused({t})
  /\ Remove({t})
  /\ UNCHANGED sessions

\* StoreState::delete_tenant_recursive: the whole subtree or nothing.
DeleteRecursive(t) ==
  /\ t \in live
  /\ WalkSucceeds(t)
  /\ Unused(Subtree(t))
  /\ Remove(Subtree(t))
  /\ sessions' = {s \in sessions : s.tenant \notin Subtree(t)}

\* Faults: the users keep their caps, or receive the tenant's new ones.
CapsKept(t, caps) == user_caps
CapsGranted(t, caps) == [u \in Uid |-> IF u \in users[t] THEN caps ELSE user_caps[u]]

\* The users' caps after a rotation of the tenant's root caps.
Narrowed(t, caps) ==
  [u \in Uid |-> IF u \in users[t] THEN user_caps[u] \cap caps ELSE user_caps[u]]

\* StoreState::rotate_root_caps: this tenant, its users and its sessions; the
\* caps of its subtenants are not touched.
RotateRootCaps(t, caps) ==
  /\ t \in live
  /\ parent[t] # None => caps \subseteq root_caps[parent[t]]
  /\ root_caps' = [root_caps EXCEPT ![t] = caps]
  /\ user_caps' = Narrowed(t, caps)
  /\ sessions' = {s \in sessions : s.tenant # t}
  /\ UNCHANGED <<ids, tree, users, password, usage, held>>

---------------------------------------------------------------------------
(* Charges.  Both walk the chain; charge validates every level before it     *)
(* changes the first.                                                        *)

\* Fault: only the tenant's own ceiling is checked.
GrantedByTenant(t, c) == Below(ChargeQuota(usage[t], c), quotas[t])

\* The first pass of charge.
Granted(t, c) == \A a \in Chain(t) : Below(ChargeQuota(usage[a], c), quotas[a])

\* StoreState::charge
ChargeTenant(t, c) ==
  /\ t \in live
  /\ ChainFrom(t)
  /\ Granted(t, c)
  /\ usage' = [a \in Tid |-> IF a \in Chain(t) THEN ChargeQuota(usage[a], c) ELSE usage[a]]
  /\ held' = [held EXCEPT ![t] = [d \in Dim |-> @[d] + c[d]]]
  /\ UNCHANGED <<ids, tree, authority, sessions>>

\* StoreState::release: saturating on every level.
Release(t, c) ==
  /\ t \in live
  /\ ChainFrom(t)
  /\ usage' = [a \in Tid |-> IF a \in Chain(t) THEN ReleaseQuota(usage[a], c) ELSE usage[a]]
  /\ held' = [held EXCEPT ![t] = ReleaseQuota(@, c)]
  /\ UNCHANGED <<ids, tree, authority, sessions>>

---------------------------------------------------------------------------
(* Users and sessions. *)

\* Fault: the sessions of the user survive.
SessionsKept(t, u) == sessions

\* The sessions that are not of user u of tenant t.
Others(t, u) == {s \in sessions : ~(s.tenant = t /\ s.user = u)}

\* StoreState::add_user with attenuate
AddUser(t, caps) ==
  /\ t \in live
  /\ caps \subseteq root_caps[t]
  /\ next_user_id < MaxUsers
  /\ LET u == next_user_id + 1 IN
     /\ next_user_id' = u
     /\ users' = [users EXCEPT ![t] = @ \cup {u}]
     /\ user_caps' = [user_caps EXCEPT ![u] = caps]
     /\ password' = [password EXCEPT ![u] = 0]
  /\ UNCHANGED <<next_tenant_id, tree, root_caps, usage, sessions, held>>

\* StoreState::remove_user: a missing user is not an error.
RemoveUser(t, u) ==
  /\ t \in live
  /\ users' = [users EXCEPT ![t] = @ \ {u}]
  /\ sessions' = Others(t, u)
  /\ UNCHANGED <<ids, tree, root_caps, user_caps, password, usage, held>>

\* StoreState::set_password
SetPassword(t, u) ==
  /\ t \in live
  /\ u \in users[t]
  /\ password[u] < MaxPasswords
  /\ password' = [password EXCEPT ![u] = @ + 1]
  /\ sessions' = Others(t, u)
  /\ UNCHANGED <<ids, tree, root_caps, users, user_caps, usage, held>>

\* StoreState::create_session: the requested caps are cut to the user's caps.
CreateSession(t, u, caps) ==
  /\ t \in live
  /\ u \in users[t]
  /\ \E k \in Token \ {s.token : s \in sessions} :
       sessions' = sessions \cup
         {[token |-> k, tenant |-> t, user |-> u, caps |-> caps \cap user_caps[u],
           password |-> password[u], expired |-> FALSE]}
  /\ UNCHANGED <<ids, tree, authority, usage, held>>

\* The clock passes a session's expires_ms.
SessionExpires(s) ==
  /\ ~s.expired
  /\ sessions' = (sessions \ {s}) \cup {[s EXCEPT !.expired = TRUE]}
  /\ UNCHANGED <<ids, tree, authority, usage, held>>

\* revoke_token, revoke_user_sessions, revoke_tenant_sessions and
\* purge_expired_sessions keep the sessions they do not name.
Keep(kept) ==
  /\ sessions' = kept
  /\ UNCHANGED <<ids, tree, authority, usage, held>>

RevokeToken(k) == Keep({s \in sessions : s.token # k})

RevokeUserSessions(t, u) == t \in live /\ Keep(Others(t, u))

RevokeTenantSessions(t) == t \in live /\ Keep({s \in sessions : s.tenant # t})

PurgeExpiredSessions == Keep({s \in sessions : ~s.expired})

---------------------------------------------------------------------------

\* The caller is responsible for matching charge and release (quota.rs:121).
Matched(t) == {c \in Charge : Below(c, held[t])}

Next ==
  \/ \E x \in Name, p \in Tid \cup {None}, caps \in SUBSET Cap, q \in [Dim -> Ceiling] :
       Create(x, p, caps, q)
  \/ \E t \in Tid : Delete(t) \/ DeleteRecursive(t)
  \/ \E t \in Tid, caps \in SUBSET Cap : RotateRootCaps(t, caps) \/ AddUser(t, caps)
  \/ \E t \in Tid, c \in Charge : ChargeTenant(t, c)
  \/ \E t \in Tid : \E c \in Matched(t) \cup Unmatched : Release(t, c)
  \/ \E t \in Tid, u \in Uid : RemoveUser(t, u) \/ SetPassword(t, u) \/ RevokeUserSessions(t, u)
  \/ \E t \in Tid, u \in Uid, caps \in SUBSET Cap : CreateSession(t, u, caps)
  \/ \E s \in sessions : SessionExpires(s)
  \/ \E k \in Token : RevokeToken(k)
  \/ \E t \in Tid : RevokeTenantSessions(t)
  \/ PurgeExpiredSessions

Spec == Init /\ [][Next]_vars
---------------------------------------------------------------------------
(* Properties. *)

\* The tenants form a forest: the parent of a live tenant is live and older, and
\* grants at least the quotas of its child.  charge and release find every
\* ancestor ("tenant disappeared mid-charge" is never reported), whatever is
\* deleted, alone or with its subtree.
HierarchySound ==
  \A t \in live :
    /\ t <= next_tenant_id
    /\ parent[t] # None => /\ parent[t] \in live
                           /\ parent[t] < t
                           /\ Below(quotas[t], quotas[parent[t]])

\* The name index and the tenants agree ("tenant index out of sync", store.rs:986,
\* is never reported), so a name can be given again as soon as it is free.
NameIndex ==
  /\ \A x \in Name : by_name[x] # None => by_name[x] \in live /\ name[by_name[x]] = x
  /\ \A t \in live : name[t] \in Name /\ by_name[name[t]] = t

\* Authority is handed down and only ever attenuated: no user exceeds its tenant,
\* and a session of a live tenant speaks for an existing user, within that user's
\* present caps and under the user's present password.  Rotations, removals and
\* password changes happen between the mint and the use.
AuthorityIsAttenuated ==
  /\ \A t \in live : \A u \in users[t] : user_caps[u] \subseteq root_caps[t]
  /\ \A s \in sessions : s.tenant \in live =>
       /\ s.user \in users[s.tenant]
       /\ s.caps \subseteq user_caps[s.user]
       /\ s.password = password[s.user]

\* "users never gain caps from a rotation; only lose them" (store.rs:314): no
\* operation widens what a user already holds.
CapsOnlyShrink ==
  [][\A t \in live \cap live' : \A u \in users[t] \cap users'[t] :
       user_caps'[u] \subseteq user_caps[u]]_vars

\* No tenant, at any level, uses more than its ceiling, although every charge is
\* made on behalf of some tenant far below.
UsageWithinQuota == \A t \in live : Below(usage[t], quotas[t])

\* "a parent's usage always equals the sum of its own direct charges plus every
\* descendant" (docs/02_TENANCY_LAYER.md:443), if callers release what they
\* charged and ceilings lie below the counters' limit.
UsageIsSum ==
  \A t \in live : \A d \in Dim :
    usage[t][d] = SumFunctionOnSet([x \in Tid |-> held[x][d]], Subtree(t))

\* A tenant is never deleted while a caller still holds resources charged to it
\* ("so operators cannot orphan live VMs / volumes by accident", store.rs:337).
NoOrphanedCharges == [][\A t \in live \ live' : held[t] = Zero]_vars

\* "caps must be a subset of parent's root_caps" (tenant.rs:44).
SubtenantCapsWithinParent ==
  \A t \in live : parent[t] # None => root_caps[t] \subseteq root_caps[parent[t]]

=============================================================================
