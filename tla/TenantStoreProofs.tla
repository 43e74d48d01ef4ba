------------------------- MODULE TenantStoreProofs --------------------------
(***************************************************************************)
(* Proofs about the tenant store for any set of names, capabilities and    *)
(* quota dimensions, any number of tenants, users and sessions, any bound  *)
(* on the depth of the hierarchy and any mismatch of charge and release.   *)
(***************************************************************************)
EXTENDS TenantStore, SumTheorems, TLAPS

---------------------------------------------------------------------------
(* Lemmas about the hierarchy and the arithmetic. *)

LEMMA ChainHasSelf ==
  ASSUME NEW t \in Tid
  PROVE  t \in Chain(t)
  BY DEF Chain

LEMMA ChainHasParents ==
  ASSUME NEW t \in Tid, NEW a \in Chain(t), parent[a] # None, parent[a] \in Tid
  PROVE  parent[a] \in Chain(t)
  BY DEF Chain, Closed

\* The chain of the parent is part of the chain of the child: a subtree has no
\* hole, so nobody outside it has a parent inside.
LEMMA ChainOfParent ==
  ASSUME NEW t \in Tid, parent[t] # None, NEW a \in Chain(parent[t])
  PROVE  a \in Chain(t)
  BY DEF Chain, Closed

LEMMA SaturatingTypes ==
  ASSUME NEW m \in 0..Limit, NEW k \in Nat
  PROVE  /\ SaturatingAdd(m, k) \in 0..Limit
         /\ SaturatingSub(m, k) \in 0..Limit
         /\ SaturatingSub(m, k) <= m
  BY StoreAssumption DEF SaturatingAdd, SaturatingSub

LEMMA QuotaTypes ==
  ASSUME NEW use \in Quotas, NEW c \in Charge
  PROVE  /\ ChargeQuota(use, c) \in Quotas
         /\ ReleaseQuota(use, c) \in Quotas
         /\ Below(ReleaseQuota(use, c), use)
<1>1. \A d \in Dim : use[d] \in 0..Limit /\ c[d] \in Nat
  BY StoreAssumption DEF Quotas, Charge
<1>2. \A d \in Dim : /\ SaturatingAdd(use[d], c[d]) \in 0..Limit
                     /\ SaturatingSub(use[d], c[d]) \in 0..Limit
                     /\ SaturatingSub(use[d], c[d]) <= use[d]
  BY <1>1, SaturatingTypes
<1>. QED BY <1>2 DEF ChargeQuota, ReleaseQuota, Below, Quotas

LEMMA ZeroIsQuota == Zero \in Quotas /\ \A q \in Quotas : Below(Zero, q)
  BY StoreAssumption DEF Zero, Quotas, Below

LEMMA BelowTransitive ==
  ASSUME NEW q1 \in Quotas, NEW q2 \in Quotas, NEW q3 \in Quotas, Below(q1, q2), Below(q2, q3)
  PROVE  Below(q1, q3)
<1>1. \A d \in Dim : q1[d] \in Int /\ q2[d] \in Int /\ q3[d] \in Int
  BY StoreAssumption DEF Quotas
<1>. QED BY <1>1 DEF Below

LEMMA UnmatchedAreCharges == \A t : Matched(t) \cup Unmatched \subseteq Charge
  BY StoreAssumption DEF Matched, Charge

---------------------------------------------------------------------------
(* Types. *)

LEMMA InitType == Init => TypeOK
  BY StoreAssumption, ZeroIsQuota DEF Init, TypeOK, Zero

LEMMA StepType == TypeOK /\ [Next]_vars => TypeOK'
<1> SUFFICES ASSUME TypeOK, [Next]_vars PROVE TypeOK'
  OBVIOUS
<1>1. ASSUME NEW x \in Name, NEW p \in Tid \cup {None}, NEW caps \in SUBSET Cap,
             NEW q \in [Dim -> Ceiling], Create(x, p, caps, q)
      PROVE  TypeOK'
  <2>1. next_tenant_id + 1 \in Tid /\ next_tenant_id + 1 \in 0..MaxTenants
    BY <1>1, StoreAssumption DEF Create, TenantIdLeft, TypeOK, Tid
  <2>2. q \in Quotas
    BY StoreAssumption DEF Quotas
  <2>. QED BY <1>1, <2>1, <2>2 DEF Create, TypeOK
<1>2. ASSUME NEW T \in SUBSET Tid, Remove(T), sessions' \subseteq sessions PROVE TypeOK'
  BY <1>2, ZeroIsQuota DEF Remove, Unindexed, ids, TypeOK
<1>3. ASSUME NEW t \in Tid, NEW caps \in SUBSET Cap, RotateRootCaps(t, caps) PROVE TypeOK'
  BY <1>3 DEF RotateRootCaps, Narrowed, ids, tree, TypeOK
<1>4. ASSUME NEW t \in Tid, NEW caps \in SUBSET Cap, AddUser(t, caps) PROVE TypeOK'
  <2>1. next_user_id + 1 \in Uid /\ next_user_id + 1 \in 0..MaxUsers
    BY <1>4, StoreAssumption DEF AddUser, TypeOK, Uid
  <2>. QED BY <1>4, <2>1, StoreAssumption DEF AddUser, tree, TypeOK
<1>5. ASSUME NEW t \in Tid, NEW c \in Charge, ChargeTenant(t, c) PROVE TypeOK'
  <2>1. \A a \in Tid : ChargeQuota(usage[a], c) \in Quotas
    BY QuotaTypes DEF TypeOK
  <2>2. usage' \in [Tid -> Quotas]
    BY <1>5, <2>1 DEF ChargeTenant, TypeOK
  <2>3. [d \in Dim |-> held[t][d] + c[d]] \in [Dim -> Nat]
    <3>1. \A d \in Dim : held[t][d] \in Nat /\ c[d] \in Nat
      BY StoreAssumption DEF TypeOK, Charge
    <3>. QED BY <3>1
  <2>4. held' \in [Tid -> [Dim -> Nat]]
    BY <1>5, <2>3 DEF ChargeTenant, TypeOK
  <2>. QED BY <1>5, <2>2, <2>4 DEF ChargeTenant, ids, tree, authority, TypeOK
<1>6. ASSUME NEW t \in Tid, NEW c \in Charge, Release(t, c) PROVE TypeOK'
  <2>1. \A a \in Tid : ReleaseQuota(usage[a], c) \in Quotas
    BY QuotaTypes DEF TypeOK
  <2>2. usage' \in [Tid -> Quotas]
    BY <1>6, <2>1 DEF Release, TypeOK
  <2>3. ReleaseQuota(held[t], c) \in [Dim -> Nat]
    <3>1. \A d \in Dim : held[t][d] \in Nat /\ c[d] \in Nat
      BY StoreAssumption DEF TypeOK, Charge
    <3>2. \A d \in Dim : SaturatingSub(held[t][d], c[d]) \in Nat
      BY <3>1 DEF SaturatingSub
    <3>. QED BY <3>2 DEF ReleaseQuota
  <2>4. held' \in [Tid -> [Dim -> Nat]]
    BY <1>6, <2>3 DEF Release, TypeOK
  <2>. QED BY <1>6, <2>2, <2>4 DEF Release, ids, tree, authority, TypeOK
<1>7. ASSUME NEW t \in Tid, NEW u \in Uid, RemoveUser(t, u) PROVE TypeOK'
  BY <1>7 DEF RemoveUser, Others, ids, tree, TypeOK
<1>8. ASSUME NEW t \in Tid, NEW u \in Uid, SetPassword(t, u) PROVE TypeOK'
  BY <1>8, StoreAssumption DEF SetPassword, Others, ids, tree, TypeOK
<1>9. ASSUME sessions' \in SUBSET Session, UNCHANGED <<ids, tree, authority, usage, held>>
      PROVE  TypeOK'
  BY <1>9 DEF ids, tree, authority, TypeOK
<1>10. ASSUME NEW t \in Tid, NEW u \in Uid, NEW caps \in SUBSET Cap, CreateSession(t, u, caps)
       PROVE  TypeOK'
  <2> DEFINE new(k) == [token |-> k, tenant |-> t, user |-> u, caps |-> caps \cap user_caps[u],
                        password |-> password[u], expired |-> FALSE]
  <2>1. PICK k \in Token : sessions' = sessions \cup {new(k)}
    BY <1>10 DEF CreateSession
  <2>2. password[u] \in 0..MaxPasswords /\ caps \cap user_caps[u] \in SUBSET Cap
    BY DEF TypeOK
  <2>3. new(k) \in Session
    BY <2>2 DEF Session
  <2> HIDE DEF new
  <2>4. sessions' \in SUBSET Session
    BY <2>1, <2>3 DEF TypeOK
  <2>. QED BY <1>9, <1>10, <2>4 DEF CreateSession
<1>11. ASSUME NEW s \in sessions, SessionExpires(s) PROVE TypeOK'
  BY <1>9, <1>11 DEF SessionExpires, TypeOK, Session
<1>12. ASSUME NEW kept \in SUBSET sessions, Keep(kept) PROVE TypeOK'
  BY <1>9, <1>12 DEF Keep, TypeOK
<1>13. ASSUME NEW t \in Tid, Delete(t) \/ DeleteRecursive(t) PROVE TypeOK'
  BY <1>2, <1>13 DEF Delete, DeleteRecursive, Subtree, TypeOK
<1>14. ASSUME NEW t \in Tid, NEW u \in Uid, RevokeUserSessions(t, u) PROVE TypeOK'
  BY <1>12, <1>14 DEF RevokeUserSessions, Others
<1>15. ASSUME NEW t \in Tid, RevokeTenantSessions(t) PROVE TypeOK'
  BY <1>12, <1>15 DEF RevokeTenantSessions
<1>16. ASSUME NEW k \in Token, RevokeToken(k) PROVE TypeOK'
  BY <1>12, <1>16 DEF RevokeToken
<1>17. CASE PurgeExpiredSessions
  BY <1>12, <1>17 DEF PurgeExpiredSessions
<1>18. CASE UNCHANGED vars
  BY <1>9, <1>18 DEF vars, TypeOK
<1>. QED
  BY <1>1, <1>3, <1>4, <1>5, <1>6, <1>7, <1>8, <1>10, <1>11, <1>13, <1>14, <1>15, <1>16, <1>17,
     <1>18, UnmatchedAreCharges DEF Next

\* The store's records keep the types the code gives them; in particular ids and
\* usage counters never leave their range, whatever callers charge or release.
THEOREM TypeCorrect == Spec => []TypeOK
  BY InitType, StepType, PTL DEF Spec

---------------------------------------------------------------------------
(* The forest and its quotas.  A new tenant starts unused, so the invariant   *)
(* adds that tenants which do not exist have no usage.                        *)

BlankUsage == \A t \in Tid \ live : usage[t] = Zero

TreeInv == HierarchySound /\ NameIndex /\ UsageWithinQuota /\ BlankUsage

LEMMA InitTree == Init => TreeInv
  BY DEF Init, TreeInv, HierarchySound, NameIndex, UsageWithinQuota, BlankUsage

LEMMA StepTree == TypeOK /\ TreeInv /\ [Next]_vars => TreeInv'
<1> SUFFICES ASSUME TypeOK, TreeInv, [Next]_vars PROVE TreeInv'
  OBVIOUS
<1> USE DEF TreeInv
<1>0. TypeOK'
  BY StepType
<1>1. ASSUME UNCHANGED <<next_tenant_id, tree, usage>> PROVE TreeInv'
  BY <1>1 DEF tree, HierarchySound, NameIndex, UsageWithinQuota, BlankUsage
<1>2. ASSUME NEW x \in Name, NEW p \in Tid \cup {None}, NEW caps \in SUBSET Cap,
             NEW q \in [Dim -> Ceiling], Create(x, p, caps, q)
      PROVE  TreeInv'
  <2> DEFINE id == next_tenant_id + 1
  <2>1. id \in Tid /\ id \notin live /\ next_tenant_id < id
    BY <1>2, StoreAssumption DEF Create, TenantIdLeft, TypeOK, Tid, HierarchySound
  <2>2. /\ next_tenant_id' = id
        /\ live' = live \cup {id}
        /\ by_name' = [by_name EXCEPT ![x] = id]
        /\ name' = [name EXCEPT ![id] = x]
        /\ parent' = [parent EXCEPT ![id] = p]
        /\ quotas' = [quotas EXCEPT ![id] = q]
        /\ usage' = usage
        /\ by_name[x] = None
        /\ p # None => p \in live /\ Below(q, quotas[p])
    BY <1>2 DEF Create
  <2> HIDE DEF id
  <2>3. \A t \in live : t \in Tid /\ t # id /\ t <= next_tenant_id /\ t < id
    BY <2>1, StoreAssumption DEF TypeOK, HierarchySound, Tid
  <2>4. \A t \in live : /\ name'[t] = name[t] /\ parent'[t] = parent[t]
                        /\ quotas'[t] = quotas[t]
    BY <2>2, <2>3 DEF TypeOK
  <2>5. name'[id] = x /\ parent'[id] = p /\ quotas'[id] = q
    BY <2>1, <2>2 DEF TypeOK
  <2>6. HierarchySound'
    <3>1. ASSUME NEW t \in live
          PROVE  /\ t <= next_tenant_id'
                 /\ parent'[t] # None => /\ parent'[t] \in live'
                                         /\ parent'[t] < t
                                         /\ Below(quotas'[t], quotas'[parent'[t]])
      <4>1. t <= next_tenant_id'
        BY <2>1, <2>2, <2>3 DEF TypeOK, Tid
      <4>2. CASE parent[t] # None
        BY <2>2, <2>4, <4>1, <4>2 DEF HierarchySound
      <4>3. CASE parent[t] = None
        BY <2>4, <4>1, <4>3
      <4>. QED BY <4>2, <4>3
    <3>2. /\ id <= next_tenant_id'
          /\ parent'[id] # None => /\ parent'[id] \in live'
                                   /\ parent'[id] < id
                                   /\ Below(quotas'[id], quotas'[parent'[id]])
      <4>1. id <= next_tenant_id'
        BY <2>1, <2>2 DEF Tid
      <4>2. CASE p # None
        BY <2>2, <2>3, <2>4, <2>5, <4>1, <4>2
      <4>3. CASE p = None
        BY <2>5, <4>1, <4>3
      <4>. QED BY <4>2, <4>3
    <3>. QED BY <2>2, <3>1, <3>2 DEF HierarchySound
  <2>7. NameIndex'
    <3>1. None \notin Tid /\ id # None
      BY <2>1 DEF Tid, None
    <3>2. \A z \in Name \ {x} : by_name'[z] = by_name[z]
      BY <2>2 DEF TypeOK
    <3>3. by_name'[x] = id
      BY <2>2 DEF TypeOK
    <3>4. \A t \in live : name[t] # x
      BY <2>2, <2>3, <3>1 DEF NameIndex
    <3>5. \A t \in live : name[t] \in Name
      BY DEF NameIndex
    <3>. QED BY <2>2, <2>4, <2>5, <3>1, <3>2, <3>3, <3>4, <3>5 DEF NameIndex
  <2>8. UsageWithinQuota'
    <3>1. q \in Quotas
      BY StoreAssumption DEF Quotas
    <3>2. Below(usage[id], q)
      BY <2>1, <3>1, ZeroIsQuota DEF BlankUsage
    <3>. QED BY <2>2, <2>4, <2>5, <3>2 DEF UsageWithinQuota
  <2>9. BlankUsage'
    BY <2>2 DEF BlankUsage
  <2>. QED BY <2>6, <2>7, <2>8, <2>9
<1>3. ASSUME NEW T \in SUBSET live, Remove(T),
             \A t \in live \ T : parent[t] # None => parent[t] \notin T
      PROVE  TreeInv'
  <2>1. /\ live' = live \ T
        /\ by_name' = Unindexed(T)
        /\ next_tenant_id' = next_tenant_id
    BY <1>3 DEF Remove, ids
  <2>2. T \in SUBSET Tid
    BY DEF TypeOK
  <2>3. \A t \in live' : /\ t \in live /\ t \notin T /\ t \in Tid
                         /\ name'[t] = name[t] /\ parent'[t] = parent[t]
                         /\ quotas'[t] = quotas[t] /\ usage'[t] = usage[t]
    BY <1>3, <2>1 DEF Remove, TypeOK
  <2>4. HierarchySound'
    <3>1. ASSUME NEW t \in live'
          PROVE  /\ t <= next_tenant_id'
                 /\ parent'[t] # None => /\ parent'[t] \in live'
                                         /\ parent'[t] < t
                                         /\ Below(quotas'[t], quotas'[parent'[t]])
      <4>1. t <= next_tenant_id'
        BY <2>1, <2>3 DEF HierarchySound
      <4>2. CASE parent[t] # None
        <5>1. parent[t] \in live' /\ parent[t] < t /\ Below(quotas[t], quotas[parent[t]])
          BY <1>3, <2>1, <2>3, <4>2 DEF HierarchySound
        <5>. QED BY <2>3, <4>1, <5>1
      <4>3. CASE parent[t] = None
        BY <2>3, <4>1, <4>3
      <4>. QED BY <4>2, <4>3
    <3>. QED BY <3>1 DEF HierarchySound
  <2>5. NameIndex'
    <3>1. ASSUME NEW x \in Name, by_name'[x] # None
          PROVE  by_name'[x] \in live' /\ name'[by_name'[x]] = x
      <4>1. by_name'[x] = by_name[x] /\ \A t \in T : name[t] # x
        BY <2>1, <3>1 DEF Unindexed
      <4>2. by_name[x] \in live /\ name[by_name[x]] = x
        BY <3>1, <4>1 DEF NameIndex
      <4>. QED BY <2>1, <2>3, <4>1, <4>2
    <3>2. ASSUME NEW t \in live' PROVE name'[t] \in Name /\ by_name'[name'[t]] = t
      <4>1. name[t] \in Name /\ by_name[name[t]] = t
        BY <2>3 DEF NameIndex
      <4>2. \A z \in T : name[z] # name[t]
        BY <2>3, <4>1 DEF NameIndex
      <4>. QED BY <2>1, <2>3, <4>1, <4>2 DEF Unindexed
    <3>. QED BY <3>1, <3>2 DEF NameIndex
  <2>6. UsageWithinQuota'
    BY <2>3 DEF UsageWithinQuota
  <2>7. BlankUsage'
    BY <1>3, <2>1, <2>2 DEF Remove, BlankUsage, TypeOK
  <2>. QED BY <2>4, <2>5, <2>6, <2>7
<1>4. ASSUME NEW t \in Tid, Delete(t) PROVE TreeInv'
  <2>1. {t} \in SUBSET live /\ Remove({t})
    BY <1>4 DEF Delete
  <2>2. \A x \in live \ {t} : parent[x] # None => parent[x] \notin {t}
    BY <1>4 DEF Delete, NoSubtenants
  <2>. QED BY <1>3, <2>1, <2>2
<1>5. ASSUME NEW t \in Tid, DeleteRecursive(t) PROVE TreeInv'
  <2>1. Subtree(t) \in SUBSET live /\ Remove(Subtree(t))
    BY <1>5 DEF DeleteRecursive, Subtree
  <2>2. ASSUME NEW x \in live \ Subtree(t), parent[x] # None PROVE parent[x] \notin Subtree(t)
    <3>1. x \in Tid /\ t \notin Chain(x)
      BY DEF Subtree, TypeOK
    <3>. QED BY <2>2, <3>1, ChainOfParent DEF Subtree
  <2>. QED BY <1>3, <2>1, <2>2
<1>6. ASSUME NEW t \in Tid, NEW c \in Charge, ChargeTenant(t, c) \/ Release(t, c) PROVE TreeInv'
  <2>1. UNCHANGED <<next_tenant_id, tree>>
    BY <1>6 DEF ChargeTenant, Release, ids
  <2>2. Chain(t) \subseteq live
    BY <1>6 DEF ChargeTenant, Release, ChainFrom
  <2>3. BlankUsage'
    BY <1>6, <2>1, <2>2 DEF ChargeTenant, Release, BlankUsage, TypeOK, tree
  <2>4. UsageWithinQuota'
    <3>1. SUFFICES ASSUME NEW a \in live PROVE Below(usage'[a], quotas[a])
      BY <2>1 DEF UsageWithinQuota, tree
    <3>2. a \in Tid /\ usage[a] \in Quotas /\ quotas[a] \in Quotas /\ Below(usage[a], quotas[a])
      BY DEF TypeOK, UsageWithinQuota
    <3>3. CASE a \notin Chain(t)
      BY <1>6, <3>2, <3>3 DEF ChargeTenant, Release
    <3>4. CASE a \in Chain(t) /\ ChargeTenant(t, c)
      <4>1. usage'[a] = ChargeQuota(usage[a], c)
        BY <3>2, <3>4 DEF ChargeTenant
      <4>. QED BY <3>4, <4>1 DEF ChargeTenant, Granted
    <3>5. CASE a \in Chain(t) /\ Release(t, c)
      <4>1. usage'[a] = ReleaseQuota(usage[a], c)
        BY <3>2, <3>5 DEF Release
      <4>2. ReleaseQuota(usage[a], c) \in Quotas /\ Below(ReleaseQuota(usage[a], c), usage[a])
        BY <3>2, QuotaTypes
      <4>. QED BY <3>2, <4>1, <4>2, BelowTransitive
    <3>. QED BY <1>6, <3>3, <3>4, <3>5
  <2>5. HierarchySound' /\ NameIndex'
    BY <2>1 DEF tree, HierarchySound, NameIndex
  <2>. QED BY <2>3, <2>4, <2>5
<1>7. ASSUME NEW t \in Tid, NEW caps, RotateRootCaps(t, caps) \/ AddUser(t, caps) PROVE TreeInv'
  BY <1>1, <1>7 DEF RotateRootCaps, AddUser, ids
<1>8. ASSUME NEW t, NEW u, RemoveUser(t, u) \/ SetPassword(t, u) \/ RevokeUserSessions(t, u)
      PROVE  TreeInv'
  BY <1>1, <1>8 DEF RemoveUser, SetPassword, RevokeUserSessions, Keep, ids
<1>9. ASSUME NEW t, NEW u, NEW caps, CreateSession(t, u, caps) PROVE TreeInv'
  BY <1>1, <1>9 DEF CreateSession, ids
<1>10. ASSUME \/ \E s \in sessions : SessionExpires(s)
              \/ \E k \in Token : RevokeToken(k)
              \/ \E t \in Tid : RevokeTenantSessions(t)
              \/ PurgeExpiredSessions
              \/ UNCHANGED vars
       PROVE  TreeInv'
  BY <1>1, <1>10
  DEF SessionExpires, RevokeToken, RevokeTenantSessions, PurgeExpiredSessions, Keep, vars, ids
<1>. QED
  BY <1>2, <1>4, <1>5, <1>6, <1>7, <1>8, <1>9, <1>10, UnmatchedAreCharges DEF Next

LEMMA TreeInvariant == Spec => [](TypeOK /\ TreeInv)
  BY InitType, StepType, InitTree, StepTree, PTL DEF Spec

\* Tenants always form a forest with nested ceilings.
THEOREM Hierarchy == Spec => []HierarchySound
<1>1. TypeOK /\ TreeInv => HierarchySound
  BY DEF TreeInv
<1>. QED BY <1>1, TreeInvariant, PTL

\* Tenants and the name index always agree.
THEOREM Index == Spec => []NameIndex
<1>1. TypeOK /\ TreeInv => NameIndex
  BY DEF TreeInv
<1>. QED BY <1>1, TreeInvariant, PTL

\* No tenant at any level of the hierarchy exceeds its ceiling.
THEOREM Ceilings == Spec => []UsageWithinQuota
<1>1. TypeOK /\ TreeInv => UsageWithinQuota
  BY DEF TreeInv
<1>. QED BY <1>1, TreeInvariant, PTL

---------------------------------------------------------------------------
(* Authority.  Ids are handed out once: a session left behind by a deleted    *)
(* tenant names a tenant id that will not come back, and no user belongs to   *)
(* two tenants, so narrowing one tenant's users cannot undercut the sessions  *)
(* of another.                                                                *)

SessionsOfOldTenants == \A s \in sessions : s.tenant <= next_tenant_id

UsersHaveOneTenant ==
  /\ \A t \in Tid \ live : users[t] = {}
  /\ \A t \in Tid : \A u \in users[t] : u <= next_user_id
  /\ \A t1, t2 \in Tid : \A u \in users[t1] \cap users[t2] : t1 = t2

AuthInv == AuthorityIsAttenuated /\ SessionsOfOldTenants /\ UsersHaveOneTenant

LEMMA InitAuth == Init => AuthInv
  BY DEF Init, AuthInv, AuthorityIsAttenuated, SessionsOfOldTenants, UsersHaveOneTenant

\* An operation that only drops sessions, or lets them expire, keeps AuthInv.
LEMMA FewerSessions ==
  ASSUME TypeOK, AuthInv,
         \A s \in sessions' : \E r \in sessions :
           s.tenant = r.tenant /\ s.user = r.user /\ s.caps = r.caps /\ s.password = r.password,
         UNCHANGED <<ids, tree, authority>>
  PROVE  AuthInv'
  BY DEF ids, tree, authority, AuthInv, AuthorityIsAttenuated, SessionsOfOldTenants,
         UsersHaveOneTenant

LEMMA StepAuth == TypeOK /\ HierarchySound /\ AuthInv /\ [Next]_vars => AuthInv'
<1> SUFFICES ASSUME TypeOK, HierarchySound, AuthInv, [Next]_vars PROVE AuthInv'
  OBVIOUS
<1> USE DEF AuthInv
<1>0. \A t \in live : t \in Tid
  BY DEF TypeOK
<1>1. ASSUME NEW x, NEW p, NEW caps, NEW q, Create(x, p, caps, q) PROVE AuthInv'
  <2> DEFINE id == next_tenant_id + 1
  <2>1. id \in Tid /\ id \notin live /\ next_tenant_id < id /\ next_tenant_id \in Nat
    BY <1>1, StoreAssumption DEF Create, TenantIdLeft, TypeOK, Tid, HierarchySound
  <2>2. /\ next_tenant_id' = id
        /\ live' = live \cup {id}
        /\ root_caps' = [root_caps EXCEPT ![id] = caps]
        /\ UNCHANGED <<next_user_id, users, user_caps, password, sessions>>
    BY <1>1 DEF Create
  <2>3. \A s \in sessions : s.tenant # id /\ s.tenant \in Nat
    BY <2>1 DEF SessionsOfOldTenants, TypeOK, Session, Tid
  <2> HIDE DEF id
  <2>4. users[id] = {}
    BY <2>1 DEF UsersHaveOneTenant
  <2>5. \A t \in live : root_caps'[t] = root_caps[t]
    BY <2>1, <2>2 DEF TypeOK
  <2>6. AuthorityIsAttenuated'
    BY <2>2, <2>3, <2>4, <2>5 DEF AuthorityIsAttenuated
  <2>7. SessionsOfOldTenants'
    BY <2>1, <2>2, <2>3 DEF SessionsOfOldTenants, Tid
  <2>8. UsersHaveOneTenant'
    BY <2>2 DEF UsersHaveOneTenant
  <2>. QED BY <2>6, <2>7, <2>8
<1>2. ASSUME NEW T \in SUBSET live, Remove(T), sessions' \subseteq sessions PROVE AuthInv'
  <2>1. /\ live' = live \ T
        /\ UNCHANGED <<ids, user_caps, password>>
        /\ \A t \in Tid : /\ users'[t] = IF t \in T THEN {} ELSE users[t]
                          /\ root_caps'[t] = IF t \in T THEN {} ELSE root_caps[t]
    BY <1>2 DEF Remove
  <2>2. AuthorityIsAttenuated'
    BY <1>0, <1>2, <2>1 DEF AuthorityIsAttenuated
  <2>3. SessionsOfOldTenants'
    BY <1>2, <2>1 DEF SessionsOfOldTenants, ids
  <2>4. UsersHaveOneTenant'
    <3>1. \A t \in Tid : users'[t] \subseteq users[t]
      BY <2>1
    <3>2. \A t \in Tid \ live' : users'[t] = {}
      BY <2>1 DEF UsersHaveOneTenant
    <3>. QED BY <2>1, <3>1, <3>2 DEF UsersHaveOneTenant, ids
  <2>. QED BY <2>2, <2>3, <2>4
<1>3. ASSUME NEW t \in Tid, Delete(t) \/ DeleteRecursive(t) PROVE AuthInv'
  BY <1>2, <1>3 DEF Delete, DeleteRecursive, Subtree
<1>4. ASSUME NEW t \in Tid, NEW caps, RotateRootCaps(t, caps) PROVE AuthInv'
  <2>1. /\ t \in live
        /\ sessions' = {s \in sessions : s.tenant # t}
        /\ UNCHANGED <<ids, tree, users, password>>
        /\ root_caps' = [root_caps EXCEPT ![t] = caps]
        /\ \A u \in Uid : user_caps'[u] = IF u \in users[t] THEN user_caps[u] \cap caps ELSE user_caps[u]
    BY <1>4 DEF RotateRootCaps, Narrowed
  <2>2. live' = live /\ root_caps'[t] = caps /\ \A z \in Tid \ {t} : root_caps'[z] = root_caps[z]
    BY <2>1 DEF TypeOK, tree
  <2>3. \A z \in Tid : users[z] \subseteq Uid
    BY DEF TypeOK
  <2>4. \A z \in Tid \ {t} : \A u \in users[z] : user_caps'[u] = user_caps[u]
    BY <2>1, <2>3 DEF UsersHaveOneTenant
  <2>5. \A z \in live' : \A u \in users'[z] : user_caps'[u] \subseteq root_caps'[z]
    <3>1. \A u \in users'[t] : user_caps'[u] \subseteq root_caps'[t]
      <4>1. \A u \in users[t] : user_caps'[u] = user_caps[u] \cap caps
        BY <2>1, <2>3
      <4>. QED BY <2>1, <2>2, <4>1
    <3>2. ASSUME NEW z \in live', z # t, NEW u \in users'[z]
          PROVE  user_caps'[u] \subseteq root_caps'[z]
      <4>1. z \in live /\ z \in Tid /\ u \in users[z]
        BY <1>0, <2>1, <2>2
      <4>. QED BY <2>2, <2>4, <3>2, <4>1 DEF AuthorityIsAttenuated
    <3>. QED BY <3>1, <3>2
  <2>6. \A s \in sessions' : s.tenant \in live' =>
          s.user \in users'[s.tenant] /\ s.caps \subseteq user_caps'[s.user] /\ s.password = password'[s.user]
    BY <1>0, <2>1, <2>2, <2>4 DEF AuthorityIsAttenuated
  <2>7. SessionsOfOldTenants' /\ UsersHaveOneTenant'
    BY <2>1 DEF SessionsOfOldTenants, UsersHaveOneTenant, ids, tree
  <2>. QED BY <2>5, <2>6, <2>7 DEF AuthorityIsAttenuated
<1>5. ASSUME NEW t \in Tid, NEW caps, AddUser(t, caps) PROVE AuthInv'
  <2> DEFINE u == next_user_id + 1
  <2>1. /\ t \in live /\ caps \subseteq root_caps[t]
        /\ next_user_id' = u
        /\ users' = [users EXCEPT ![t] = @ \cup {u}]
        /\ user_caps' = [user_caps EXCEPT ![u] = caps]
        /\ password' = [password EXCEPT ![u] = 0]
        /\ UNCHANGED <<next_tenant_id, live, root_caps, sessions>>
    BY <1>5 DEF AddUser, tree
  <2>2. u \in Uid /\ next_user_id < u /\ next_user_id \in Nat
    BY <1>5, StoreAssumption DEF AddUser, TypeOK, Uid
  <2>3. \A z \in Tid : users[z] \subseteq Uid /\ u \notin users[z]
    BY <2>2 DEF TypeOK, UsersHaveOneTenant, Uid
  <2>4. \A z \in Tid : users'[z] = IF z = t THEN users[z] \cup {u} ELSE users[z]
    BY <2>1 DEF TypeOK
  <2> HIDE DEF u
  <2>5. \A z \in Tid : \A v \in users[z] : user_caps'[v] = user_caps[v] /\ password'[v] = password[v]
    BY <2>1, <2>3 DEF TypeOK
  <2>6. user_caps'[u] = caps
    BY <2>1, <2>2 DEF TypeOK
  <2>7. \A z \in live' : \A v \in users'[z] : user_caps'[v] \subseteq root_caps'[z]
    BY <1>0, <2>1, <2>4, <2>5, <2>6 DEF AuthorityIsAttenuated
  <2>8. \A s \in sessions' : s.tenant \in live' =>
          s.user \in users'[s.tenant] /\ s.caps \subseteq user_caps'[s.user] /\ s.password = password'[s.user]
    BY <1>0, <2>1, <2>4, <2>5 DEF AuthorityIsAttenuated
  <2>9. SessionsOfOldTenants'
    BY <2>1 DEF SessionsOfOldTenants
  <2>10. UsersHaveOneTenant'
    <3>1. \A z \in Tid \ live' : users'[z] = {}
      BY <2>1, <2>4 DEF UsersHaveOneTenant
    <3>2. \A z \in Tid : \A v \in users'[z] : v <= next_user_id'
      <4>1. \A z \in Tid : \A v \in users[z] : v \in Nat /\ v <= next_user_id
        BY <2>3 DEF UsersHaveOneTenant, Uid
      <4>. QED BY <2>1, <2>2, <2>4, <4>1 DEF Uid
    <3>3. \A t1, t2 \in Tid : \A v \in users'[t1] \cap users'[t2] : t1 = t2
      BY <2>3, <2>4 DEF UsersHaveOneTenant
    <3>. QED BY <3>1, <3>2, <3>3 DEF UsersHaveOneTenant
  <2>. QED BY <2>7, <2>8, <2>9, <2>10 DEF AuthorityIsAttenuated
<1>6. ASSUME NEW t \in Tid, NEW u \in Uid, RemoveUser(t, u) PROVE AuthInv'
  <2>1. /\ sessions' = {s \in sessions : ~(s.tenant = t /\ s.user = u)}
        /\ UNCHANGED <<ids, tree, root_caps, user_caps, password>>
        /\ users' = [users EXCEPT ![t] = @ \ {u}]
    BY <1>6 DEF RemoveUser, Others
  <2>2. /\ live' = live
        /\ \A z \in Tid : users'[z] = IF z = t THEN users[z] \ {u} ELSE users[z]
    BY <2>1 DEF TypeOK, tree
  <2>3. AuthorityIsAttenuated'
    BY <1>0, <2>1, <2>2 DEF AuthorityIsAttenuated
  <2>4. SessionsOfOldTenants' /\ UsersHaveOneTenant'
    BY <2>1, <2>2 DEF SessionsOfOldTenants, UsersHaveOneTenant, ids
  <2>. QED BY <2>3, <2>4
<1>7. ASSUME NEW t \in Tid, NEW u \in Uid, SetPassword(t, u) PROVE AuthInv'
  <2>1. /\ u \in users[t]
        /\ sessions' = {s \in sessions : ~(s.tenant = t /\ s.user = u)}
        /\ UNCHANGED <<ids, tree, root_caps, users, user_caps>>
        /\ password' = [password EXCEPT ![u] = @ + 1]
    BY <1>7 DEF SetPassword, Others
  <2>2. live' = live /\ \A v \in Uid \ {u} : password'[v] = password[v]
    BY <2>1 DEF TypeOK, tree
  <2>3. \A z \in Tid \ {t} : u \notin users[z]
    BY <2>1 DEF UsersHaveOneTenant
  <2>4. \A s \in sessions : s.user \in Uid /\ s.tenant \in Tid
    BY DEF TypeOK, Session
  <2>5. AuthorityIsAttenuated'
    BY <2>1, <2>2, <2>3, <2>4 DEF AuthorityIsAttenuated
  <2>6. SessionsOfOldTenants' /\ UsersHaveOneTenant'
    BY <2>1 DEF SessionsOfOldTenants, UsersHaveOneTenant, ids, tree
  <2>. QED BY <2>5, <2>6
<1>8. ASSUME NEW t \in Tid, NEW u \in Uid, NEW caps, CreateSession(t, u, caps) PROVE AuthInv'
  <2> DEFINE new(k) == [token |-> k, tenant |-> t, user |-> u, caps |-> caps \cap user_caps[u],
                        password |-> password[u], expired |-> FALSE]
  <2>1. PICK k : sessions' = sessions \cup {new(k)}
    BY <1>8 DEF CreateSession
  <2>2. /\ new(k).tenant = t /\ new(k).user = u /\ new(k).password = password[u]
        /\ new(k).caps \subseteq user_caps[u]
    OBVIOUS
  <2>3. t \in live /\ u \in users[t] /\ UNCHANGED <<ids, tree, authority>>
    BY <1>8 DEF CreateSession
  <2> HIDE DEF new
  <2>4. AuthorityIsAttenuated'
    BY <2>1, <2>2, <2>3 DEF AuthorityIsAttenuated, tree, authority
  <2>5. SessionsOfOldTenants'
    BY <2>1, <2>2, <2>3 DEF SessionsOfOldTenants, ids, HierarchySound
  <2>6. UsersHaveOneTenant'
    BY <2>3 DEF UsersHaveOneTenant, ids, tree, authority
  <2>. QED BY <2>4, <2>5, <2>6
<1>9. ASSUME NEW s \in sessions, SessionExpires(s) PROVE AuthInv'
  <2>1. sessions' = (sessions \ {s}) \cup {[s EXCEPT !.expired = TRUE]}
        /\ UNCHANGED <<ids, tree, authority>>
    BY <1>9 DEF SessionExpires
  <2>2. LET e == [s EXCEPT !.expired = TRUE]
        IN  e.tenant = s.tenant /\ e.user = s.user /\ e.caps = s.caps /\ e.password = s.password
    BY DEF TypeOK, Session
  <2>. QED BY <2>1, <2>2, FewerSessions
<1>10. ASSUME NEW kept \in SUBSET sessions, Keep(kept) PROVE AuthInv'
  BY <1>10, FewerSessions DEF Keep
<1>11. ASSUME NEW t \in Tid, NEW u \in Uid, RevokeUserSessions(t, u) PROVE AuthInv'
  BY <1>10, <1>11 DEF RevokeUserSessions, Others
<1>12. ASSUME NEW t \in Tid, RevokeTenantSessions(t) PROVE AuthInv'
  BY <1>10, <1>12 DEF RevokeTenantSessions
<1>13. ASSUME NEW k \in Token, RevokeToken(k) PROVE AuthInv'
  BY <1>10, <1>13 DEF RevokeToken
<1>14. CASE PurgeExpiredSessions
  BY <1>10, <1>14 DEF PurgeExpiredSessions
<1>15. ASSUME NEW t, NEW c, ChargeTenant(t, c) \/ Release(t, c) PROVE AuthInv'
  <2>1. UNCHANGED <<ids, tree, authority, sessions>>
    BY <1>15 DEF ChargeTenant, Release
  <2>. QED BY <2>1, FewerSessions
<1>16. CASE UNCHANGED vars
  BY <1>16, FewerSessions DEF vars
<1>. QED
  BY <1>1, <1>3, <1>4, <1>5, <1>6, <1>7, <1>8, <1>9, <1>11, <1>12, <1>13, <1>14, <1>15, <1>16
  DEF Next

LEMMA StoreInvariant == Spec => [](TypeOK /\ TreeInv /\ AuthInv)
<1>1. TypeOK /\ TreeInv /\ AuthInv /\ [Next]_vars => (TypeOK /\ TreeInv /\ AuthInv)'
  BY StepType, StepTree, StepAuth DEF TreeInv
<1>. QED BY <1>1, InitType, InitTree, InitAuth, PTL DEF Spec

\* No user exceeds its tenant, and every session of a live tenant stands for an
\* existing user within its present caps and under its present password.
THEOREM Attenuation == Spec => []AuthorityIsAttenuated
<1>1. TypeOK /\ TreeInv /\ AuthInv => AuthorityIsAttenuated
  BY DEF AuthInv
<1>. QED BY <1>1, StoreInvariant, PTL

\* No operation widens the caps of an existing user: only a rotation and add_user
\* write them, and add_user's id belongs to no user yet.
THEOREM OnlyShrink == Spec => CapsOnlyShrink
<1>1. ASSUME TypeOK, AuthInv, [Next]_vars,
             NEW t \in live \cap live', NEW u \in users[t] \cap users'[t]
      PROVE  user_caps'[u] \subseteq user_caps[u]
  <2>0. t \in Tid /\ u \in Uid /\ u <= next_user_id /\ next_user_id \in Nat
    BY <1>1 DEF TypeOK, AuthInv, UsersHaveOneTenant
  <2>1. ASSUME NEW x \in Tid, NEW caps, RotateRootCaps(x, caps)
        PROVE  user_caps'[u] \subseteq user_caps[u]
    BY <2>0, <2>1 DEF RotateRootCaps, Narrowed
  <2>2. ASSUME NEW x \in Tid, NEW caps, AddUser(x, caps)
        PROVE  user_caps'[u] \subseteq user_caps[u]
    <3>1. user_caps' = [user_caps EXCEPT ![next_user_id + 1] = caps]
      BY <2>2 DEF AddUser
    <3>2. u # next_user_id + 1
      BY <2>0 DEF Uid
    <3>. QED BY <1>1, <2>0, <3>1, <3>2 DEF TypeOK
  <2>3. CASE UNCHANGED user_caps
    BY <2>3
  <2>4. CASE UNCHANGED vars
    BY <2>4 DEF vars, authority
  <2>. QED
    BY <1>1, <2>1, <2>2, <2>3, <2>4
    DEF Next, Create, Delete, DeleteRecursive, Remove, ChargeTenant, Release, RemoveUser,
        SetPassword, CreateSession, SessionExpires, RevokeToken, RevokeUserSessions,
        RevokeTenantSessions, PurgeExpiredSessions, Keep, authority
<1>2. TypeOK /\ TreeInv /\ AuthInv /\ [Next]_vars =>
        \A t \in live \cap live' : \A u \in users[t] \cap users'[t] :
          user_caps'[u] \subseteq user_caps[u]
  BY <1>1
<1>. QED BY <1>2, StoreInvariant, PTL DEF Spec, CapsOnlyShrink

---------------------------------------------------------------------------
(* Accounts.  What callers hold of a tenant counts at the tenant and at every *)
(* level above it.  A new tenant must not inherit anything, so the invariant  *)
(* adds that nothing is held of tenants which do not exist; and counters are  *)
(* exact because a granted charge stays below a ceiling, thus below Limit.    *)

\* Callers release what they charged, and no ceiling is the counters' limit.
Disciplined == Unmatched = {} /\ Limit \notin Ceiling

Held(d) == [x \in Tid |-> held[x][d]]

NothingHeldOfOthers == \A t \in Tid \ live : held[t] = Zero

CeilingsAsked == \A t \in live : quotas[t] \in [Dim -> Ceiling]

AccountInv == UsageIsSum /\ NothingHeldOfOthers /\ CeilingsAsked

\* The chain of a tenant is the same as long as the parents on it are.
LEMMA ChainSame ==
  ASSUME NEW t \in Tid, parent \in [Tid -> Tid \cup {None}], \A a \in Chain(t) : parent'[a] = parent[a]
  PROVE  Chain(t)' = Chain(t)
<1>0. t \in Chain(t) /\ Chain(t) \in SUBSET Tid
  BY ChainHasSelf DEF Chain
<1>1. \A a \in Chain(t) : parent[a] # None => parent[a] \in Chain(t)
  BY <1>0, ChainHasParents
<1>2. \A a \in Chain(t) : parent'[a] # None => parent'[a] \in Chain(t)
  BY <1>1
<1>3. Chain(t)' \subseteq Chain(t)
  <2>1. \A a \in Chain(t)' : \A S \in SUBSET Tid :
          t \in S /\ (\A x \in S : parent'[x] # None => parent'[x] \in S) => a \in S
    BY DEF Chain, Closed
  <2>. QED BY <1>0, <1>2, <2>1
<1>4. ASSUME NEW b \in Chain(t), NEW S \in SUBSET Tid, t \in S, Closed(S)' PROVE b \in S
  <2>1. Closed(S \cap Chain(t))
    BY <1>1, <1>4 DEF Closed
  <2>2. S \cap Chain(t) \in SUBSET Tid /\ t \in S \cap Chain(t)
    BY <1>0, <1>4
  <2>3. b \in S \cap Chain(t)
    BY <2>1, <2>2 DEF Chain
  <2>. QED BY <2>3
<1>5. Chain(t) \subseteq Chain(t)'
  BY <1>0, <1>4 DEF Chain, Closed
<1>. QED BY <1>3, <1>5

\* A subtree contains the subtrees of its members.
LEMMA ChainTransitive ==
  ASSUME NEW t \in Tid, NEW a \in Chain(t), NEW b \in Chain(a)
  PROVE  b \in Chain(t)
  BY DEF Chain

\* The ancestors of a live tenant are live.
LEMMA ChainLives ==
  ASSUME TypeOK, HierarchySound, NEW t \in live
  PROVE  Chain(t) \subseteq live
<1>1. live \in SUBSET Tid /\ Closed(live)
  BY DEF TypeOK, HierarchySound, Closed
<1>. QED BY <1>1 DEF Chain

\* What is known of the sums over a subtree.
LEMMA HeldFacts ==
  ASSUME TypeOK, NEW d \in Dim, NEW t
  PROVE  /\ IsFiniteSet(Subtree(t)) /\ Subtree(t) \subseteq Tid
         /\ \A x \in Tid : Held(d)[x] = held[x][d] /\ Held(d)[x] \in Nat
<1>1. IsFiniteSet(Tid) /\ Subtree(t) \subseteq Tid
  <2>1. IsFiniteSet(1..MaxTenants)
    BY StoreAssumption, FS_Interval
  <2>. QED BY <2>1 DEF Tid, Subtree, TypeOK
<1>. QED BY <1>1, FS_Subset DEF Held, TypeOK

\* A tenant without usage, and every one below it, has nothing charged to it.
LEMMA UnusedHoldsNothing ==
  ASSUME TypeOK, UsageIsSum, NEW t \in live, usage[t] = Zero, NEW x \in Subtree(t)
  PROVE  held[x] = Zero
<1>1. ASSUME NEW d \in Dim PROVE held[x][d] = 0
  <2>1. usage[t][d] = SumFunctionOnSet(Held(d), Subtree(t)) /\ usage[t][d] = 0
    BY DEF UsageIsSum, Held, Zero
  <2>2. IsFiniteSet(Subtree(t)) /\ x \in Tid /\ \A z \in Subtree(t) : Held(d)[z] \in Nat
    BY HeldFacts
  <2>3. Held(d)[x] <= 0
    BY <2>1, <2>2, SumNat
  <2>. QED BY <2>2, <2>3, HeldFacts
<1>2. held[x] \in [Dim -> Nat]
  BY HeldFacts, x \in Tid DEF TypeOK, Subtree
<1>. QED BY <1>1, <1>2 DEF Zero

LEMMA InitAccounts == Init => AccountInv
  BY DEF Init, AccountInv, UsageIsSum, NothingHeldOfOthers, CeilingsAsked

LEMMA SameAccounts ==
  ASSUME AccountInv, UNCHANGED <<live, parent, quotas, usage, held>>
  PROVE  AccountInv'
  BY DEF AccountInv, UsageIsSum, NothingHeldOfOthers, CeilingsAsked, Subtree, Chain, Closed

LEMMA CreateAccounts ==
  ASSUME TypeOK, TreeInv, AccountInv, NEW x \in Name, NEW p \in Tid \cup {None}, NEW caps \in SUBSET Cap,
         NEW q \in [Dim -> Ceiling], Create(x, p, caps, q)
  PROVE  AccountInv'
<1>0. PICK id \in Tid : id = next_tenant_id + 1
  BY StoreAssumption DEF Create, TenantIdLeft, TypeOK, Tid
<1>1. id \in Tid /\ id \notin live
  BY <1>0 DEF TypeOK, TreeInv, HierarchySound
<1>2. /\ live' = live \cup {id} /\ parent' = [parent EXCEPT ![id] = p]
      /\ quotas' = [quotas EXCEPT ![id] = q] /\ usage' = usage /\ held' = held
  BY <1>0 DEF Create
<1>3. \A t \in live : t \in Tid /\ t # id /\ Chain(t) \subseteq live
  BY <1>1, ChainLives DEF TypeOK, TreeInv
<1>4. \A t \in live : Chain(t)' = Chain(t)
  <2>1. ASSUME NEW t \in live, NEW a \in Chain(t) PROVE parent'[a] = parent[a]
    BY <1>1, <1>2, <1>3 DEF TypeOK
  <2>. QED BY <1>3, <2>1, ChainSame DEF TypeOK
<1>5. held[id] = Zero /\ usage[id] = Zero
  BY <1>1 DEF AccountInv, NothingHeldOfOthers, TreeInv, BlankUsage
<1>6. ASSUME NEW t \in live', NEW d \in Dim
      PROVE  usage[t][d] = SumFunctionOnSet(Held(d), Subtree(t)')
  <2>1. IsFiniteSet(Subtree(t)) /\ Subtree(t) \subseteq live /\ \A z \in Tid : Held(d)[z] = held[z][d] /\ Held(d)[z] \in Nat
    BY HeldFacts DEF Subtree
  <2>2. Held(d)[id] = 0
    BY <1>1, <1>5, <2>1 DEF Zero
  <2>3. Subtree(t)' = {z \in live \cup {id} : t \in Chain(z)'}
    BY <1>2 DEF Subtree
  <2>4. CASE t # id
    <3>1. t \in live /\ usage[t][d] = SumFunctionOnSet(Held(d), Subtree(t))
      BY <1>2, <2>4 DEF AccountInv, UsageIsSum, Held
    <3>2. Subtree(t)' = Subtree(t) \/ Subtree(t)' = Subtree(t) \cup {id}
      BY <1>4, <2>3 DEF Subtree
    <3>3. SumFunctionOnSet(Held(d), Subtree(t) \cup {id}) = SumFunctionOnSet(Held(d), Subtree(t)) + Held(d)[id]
      <4>1. id \notin Subtree(t) /\ \A z \in Subtree(t) \cup {id} : Held(d)[z] \in Int
        BY <1>1, <1>3, <2>1
      <4>. QED BY <2>1, <4>1, SumAdd
    <3>4. SumFunctionOnSet(Held(d), Subtree(t)) \in Nat
      <4>1. \A z \in Subtree(t) : Held(d)[z] \in Nat
        BY <1>3, <2>1
      <4>. QED BY <2>1, <4>1, SumNat
    <3>5. SumFunctionOnSet(Held(d), Subtree(t) \cup {id}) = SumFunctionOnSet(Held(d), Subtree(t))
      BY <2>2, <3>3, <3>4
    <3>6. CASE Subtree(t)' = Subtree(t)
      BY <3>1, <3>6
    <3>7. CASE Subtree(t)' = Subtree(t) \cup {id}
      BY <3>1, <3>5, <3>7
    <3>. QED BY <3>2, <3>6, <3>7
  <2>5. CASE t = id
    <3>1. id \in Chain(id)'
      BY <1>1 DEF Chain, Closed
    <3>2. Subtree(t)' = {id}
      BY <1>3, <1>4, <2>3, <2>5, <3>1
    <3>3. SumFunctionOnSet(Held(d), {} \cup {id}) = SumFunctionOnSet(Held(d), {}) + Held(d)[id]
      <4>1. IsFiniteSet({}) /\ id \notin {} /\ \A z \in {} \cup {id} : Held(d)[z] \in Int
        BY <2>2, FS_EmptySet
      <4>. QED BY <4>1, SumAdd
    <3>4. {} \cup {id} = {id} /\ SumFunctionOnSet(Held(d), {}) = 0
      BY SumEmpty
    <3>. QED BY <1>5, <2>2, <2>5, <3>2, <3>3, <3>4 DEF Zero
  <2>. QED BY <2>4, <2>5
<1>7. UsageIsSum'
  BY <1>2, <1>6 DEF UsageIsSum, Held
<1>8. NothingHeldOfOthers' /\ CeilingsAsked'
  BY <1>1, <1>2, <1>3 DEF AccountInv, NothingHeldOfOthers, CeilingsAsked, TypeOK
<1>. QED BY <1>7, <1>8 DEF AccountInv

\* Tenants of whom nothing is held are removed, and nobody below the others.
LEMMA RemoveAccounts ==
  ASSUME TypeOK, TreeInv, AccountInv, NEW T \in SUBSET live, Remove(T),
         \A x \in live \ T : Chain(x) \cap T = {}, \A x \in T : held[x] = Zero
  PROVE  AccountInv'
<1>1. /\ live' = live \ T /\ held' = held /\ T \in SUBSET Tid
      /\ \A t \in live' : t \in live /\ t \in Tid /\ quotas'[t] = quotas[t] /\ usage'[t] = usage[t]
  BY DEF Remove, TypeOK
<1>2. \A t \in live' : Chain(t)' = Chain(t)
  <2>1. ASSUME NEW t \in live', NEW a \in Chain(t) PROVE parent'[a] = parent[a]
    <3>1. a \in Tid /\ a \notin T
      BY <1>1 DEF Chain
    <3>. QED BY <3>1 DEF Remove
  <2>. QED BY <1>1, <2>1, ChainSame DEF TypeOK
<1>3. ASSUME NEW t \in live', NEW d \in Dim
      PROVE  usage'[t][d] = SumFunctionOnSet(Held(d), Subtree(t)')
  <2>1. IsFiniteSet(Subtree(t)) /\ Subtree(t) \subseteq live /\ \A z \in Subtree(t) : Held(d)[z] = held[z][d] /\ Held(d)[z] \in Int
    BY HeldFacts DEF Subtree
  <2>2. Subtree(t)' = Subtree(t) \ T
    BY <1>1, <1>2 DEF Subtree
  <2>3. \A z \in Subtree(t) \ (Subtree(t) \ T) : Held(d)[z] = 0
    BY <2>1 DEF Zero
  <2>4. SumFunctionOnSet(Held(d), Subtree(t)) = SumFunctionOnSet(Held(d), Subtree(t) \ T)
    <3>1. Subtree(t) \ T \in SUBSET Subtree(t) /\ \A z \in Subtree(t) : Held(d)[z] \in Int
      BY <2>1
    <3>. QED BY <2>1, <2>3, <3>1, SumZeros
  <2>5. usage[t][d] = SumFunctionOnSet(Held(d), Subtree(t))
    BY <1>1 DEF AccountInv, UsageIsSum, Held
  <2>. QED BY <1>1, <2>2, <2>4, <2>5
<1>4. UsageIsSum'
  BY <1>1, <1>3 DEF UsageIsSum, Held
<1>5. NothingHeldOfOthers' /\ CeilingsAsked'
  BY <1>1 DEF AccountInv, NothingHeldOfOthers, CeilingsAsked
<1>. QED BY <1>4, <1>5 DEF AccountInv

LEMMA DeleteAccounts ==
  ASSUME TypeOK, TreeInv, AccountInv, NEW t \in Tid, Delete(t) \/ DeleteRecursive(t)
  PROVE  AccountInv' /\ \A x \in live \ live' : held[x] = Zero
<1>1. t \in live /\ t \in Subtree(t)
  BY ChainHasSelf DEF Delete, DeleteRecursive, Subtree
<1>2. CASE Delete(t)
  <2>1. usage[t] = Zero /\ Remove({t}) /\ {t} \in SUBSET live
    BY <1>1, <1>2 DEF Delete, Unused
  <2>2. \A x \in {t} : held[x] = Zero
    BY <1>1, <2>1, UnusedHoldsNothing DEF AccountInv
  <2>3. ASSUME NEW x \in live \ {t} PROVE Chain(x) \cap {t} = {}
    <3>1. live \ {t} \in SUBSET Tid /\ x \in live \ {t} /\ Closed(live \ {t})
      BY <1>2 DEF Delete, NoSubtenants, Closed, TreeInv, HierarchySound, TypeOK
    <3>. QED BY <3>1 DEF Chain
  <2>4. live' = live \ {t}
    BY <2>1 DEF Remove
  <2>. QED BY <2>1, <2>2, <2>3, <2>4, RemoveAccounts
<1>3. CASE DeleteRecursive(t)
  <2>1. usage[t] = Zero /\ Remove(Subtree(t)) /\ Subtree(t) \in SUBSET live
    BY <1>1, <1>3 DEF DeleteRecursive, Unused, Subtree
  <2>2. \A x \in Subtree(t) : held[x] = Zero
    BY <1>1, <2>1, UnusedHoldsNothing DEF AccountInv
  <2>3. ASSUME NEW x \in live \ Subtree(t) PROVE Chain(x) \cap Subtree(t) = {}
    <3>1. x \in Tid /\ t \notin Chain(x)
      BY DEF Subtree, TypeOK
    <3>. QED BY <3>1, ChainTransitive DEF Subtree
  <2>4. live' = live \ Subtree(t)
    BY <2>1 DEF Remove
  <2>. QED BY <2>1, <2>2, <2>3, <2>4, RemoveAccounts
<1>. QED BY <1>2, <1>3

\* A charge or a release: every level of the chain changes as the tenant's account does.
LEMMA ChargeAccounts ==
  ASSUME TypeOK, AccountInv, NEW t \in live, UNCHANGED <<live, parent, quotas>>,
         held' \in [Tid -> [Dim -> Nat]], \A x \in Tid \ {t} : held'[x] = held[x], Chain(t) \subseteq live,
         \A a \in Tid : a \notin Chain(t) => usage'[a] = usage[a],
         \A a \in Chain(t) : \A d \in Dim : usage'[a][d] = usage[a][d] + held'[t][d] - held[t][d]
  PROVE  AccountInv'
<1>0. t \in Tid /\ live \subseteq Tid
  BY DEF TypeOK
<1>1. \A a : Subtree(a)' = Subtree(a)
  BY DEF Subtree, Chain, Closed
<1>2. ASSUME NEW a \in live, NEW d \in Dim PROVE usage'[a][d] = SumFunctionOnSet(Held(d)', Subtree(a))
  <2>1. IsFiniteSet(Subtree(a)) /\ Subtree(a) \subseteq Tid /\ \A z \in Tid : Held(d)[z] = held[z][d] /\ Held(d)[z] \in Nat
    BY HeldFacts
  <2>2. \A z \in Tid : Held(d)'[z] = held'[z][d] /\ Held(d)'[z] \in Nat
    BY DEF Held
  <2>3. usage[a][d] = SumFunctionOnSet(Held(d), Subtree(a))
    BY DEF AccountInv, UsageIsSum, Held
  <2>4. CASE a \in Chain(t)
    <3>1. t \in Subtree(a)
      BY <2>4 DEF Subtree
    <3>2. \A z \in Subtree(a) : Held(d)[z] \in Int /\ Held(d)'[z] \in Int
      BY <2>1, <2>2
    <3>3. \A z \in Subtree(a) \ {t} : Held(d)'[z] = Held(d)[z]
      BY <2>1, <2>2
    <3>4. SumFunctionOnSet(Held(d)', Subtree(a)) = SumFunctionOnSet(Held(d), Subtree(a)) - Held(d)[t] + Held(d)'[t]
      BY <2>1, <3>1, <3>2, <3>3, SumChange
    <3>5. usage'[a][d] = usage[a][d] + held'[t][d] - held[t][d] /\ SumFunctionOnSet(Held(d), Subtree(a)) \in Int
      BY <2>1, <2>4, <3>2, SumRemove
    <3>6. Held(d)[t] = held[t][d] /\ Held(d)'[t] = held'[t][d] /\ held[t][d] \in Int /\ held'[t][d] \in Int
      BY <1>0, <2>1, <2>2
    <3>. QED BY <2>3, <3>4, <3>5, <3>6
  <2>5. CASE a \notin Chain(t)
    <3>1. t \notin Subtree(a) /\ usage'[a] = usage[a]
      BY <1>0, <2>5 DEF Subtree
    <3>2. \A z \in Subtree(a) : Held(d)'[z] = Held(d)[z]
      BY <2>1, <2>2, <3>1
    <3>3. SumFunctionOnSet(Held(d)', Subtree(a)) = SumFunctionOnSet(Held(d), Subtree(a))
      BY <2>1, <3>2, SumSame
    <3>. QED BY <2>3, <3>1, <3>3
  <2>. QED BY <2>4, <2>5
<1>3. UsageIsSum'
  BY <1>1, <1>2 DEF UsageIsSum, Held
<1>4. NothingHeldOfOthers' /\ CeilingsAsked'
  BY DEF AccountInv, NothingHeldOfOthers, CeilingsAsked
<1>. QED BY <1>3, <1>4 DEF AccountInv

\* A granted charge is counted in full: ceilings are below the counters' limit.
LEMMA GrantedIsExact ==
  ASSUME TypeOK, Limit \notin Ceiling, NEW a \in Tid, quotas[a] \in [Dim -> Ceiling],
         NEW c \in Charge, Below(ChargeQuota(usage[a], c), quotas[a]), NEW d \in Dim
  PROVE  ChargeQuota(usage[a], c)[d] = usage[a][d] + c[d]
<1>1. quotas[a][d] \in 0..Limit /\ quotas[a][d] # Limit /\ usage[a][d] \in Nat /\ c[d] \in Nat /\ Limit \in Nat
  <2>1. quotas[a][d] \in Ceiling
    OBVIOUS
  <2>2. quotas[a][d] # Limit
    BY <2>1
  <2>3. Limit \in Nat /\ quotas[a][d] \in 0..Limit /\ usage[a][d] \in 0..Limit
    BY StoreAssumption DEF TypeOK, Quotas
  <2>4. c[d] \in Nat
    BY StoreAssumption DEF Charge
  <2>. QED BY <2>2, <2>3, <2>4
<1>2. ChargeQuota(usage[a], c)[d] = SaturatingAdd(usage[a][d], c[d])
      /\ ChargeQuota(usage[a], c)[d] <= quotas[a][d]
  BY DEF ChargeQuota, Below
<1>. QED BY <1>1, <1>2 DEF SaturatingAdd

\* What a caller holds of a tenant is part of the usage of every level above it.
LEMMA HeldIsCounted ==
  ASSUME TypeOK, UsageIsSum, NEW t \in live, NEW a \in Chain(t) \cap live, NEW d \in Dim
  PROVE  held[t][d] <= usage[a][d]
<1>1. IsFiniteSet(Subtree(a)) /\ t \in Subtree(a) /\ \A z \in Subtree(a) : Held(d)[z] \in Nat
  BY HeldFacts DEF Subtree
<1>2. usage[a][d] = SumFunctionOnSet(Held(d), Subtree(a)) /\ Held(d)[t] = held[t][d]
  BY HeldFacts DEF UsageIsSum, Held, TypeOK
<1>. QED BY <1>1, <1>2, SumNat

LEMMA ChargeStep ==
  ASSUME Disciplined, TypeOK, AccountInv, NEW t \in Tid, NEW c \in Charge, ChargeTenant(t, c)
  PROVE  AccountInv'
<1>1. /\ t \in live /\ Chain(t) \subseteq live /\ live \subseteq Tid
      /\ UNCHANGED <<live, parent, quotas>>
      /\ usage' = [a \in Tid |-> IF a \in Chain(t) THEN ChargeQuota(usage[a], c) ELSE usage[a]]
      /\ held' = [held EXCEPT ![t] = [d \in Dim |-> @[d] + c[d]]]
  BY DEF ChargeTenant, ChainFrom, tree, TypeOK
<1>2. /\ held[t] \in [Dim -> Nat] /\ c \in [Dim -> Nat] /\ held \in [Tid -> [Dim -> Nat]]
      /\ held'[t] = [d \in Dim |-> held[t][d] + c[d]]
      /\ \A x \in Tid \ {t} : held'[x] = held[x]
  BY <1>1, StoreAssumption DEF TypeOK, Charge
<1>3. held' \in [Tid -> [Dim -> Nat]]
  <2>1. [d \in Dim |-> held[t][d] + c[d]] \in [Dim -> Nat]
    BY <1>2
  <2>. QED BY <1>1, <1>2, <2>1
<1>4. \A a \in Tid : a \notin Chain(t) => usage'[a] = usage[a]
  BY <1>1
<1>5. ASSUME NEW a \in Chain(t), NEW d \in Dim
      PROVE  usage'[a][d] = usage[a][d] + held'[t][d] - held[t][d]
  <2>1. a \in Tid /\ a \in live /\ quotas[a] \in [Dim -> Ceiling] /\ Below(ChargeQuota(usage[a], c), quotas[a])
    BY <1>1 DEF ChargeTenant, Granted, AccountInv, CeilingsAsked
  <2>2. usage'[a][d] = usage[a][d] + c[d]
    BY <1>1, <2>1, GrantedIsExact DEF Disciplined
  <2>3. held'[t][d] = held[t][d] + c[d] /\ held[t][d] \in Int /\ c[d] \in Int /\ usage[a][d] \in Int
    BY <1>2, <2>1 DEF TypeOK, Quotas
  <2>. QED BY <2>2, <2>3
<1>. QED BY <1>1, <1>2, <1>3, <1>4, <1>5, ChargeAccounts

LEMMA ReleaseStep ==
  ASSUME TypeOK, AccountInv, NEW t \in Tid, NEW c \in Matched(t), Release(t, c)
  PROVE  AccountInv'
<1>1. /\ t \in live /\ Chain(t) \subseteq live /\ live \subseteq Tid
      /\ UNCHANGED <<live, parent, quotas>>
      /\ usage' = [a \in Tid |-> IF a \in Chain(t) THEN ReleaseQuota(usage[a], c) ELSE usage[a]]
      /\ held' = [held EXCEPT ![t] = ReleaseQuota(@, c)]
  BY DEF Release, ChainFrom, tree, TypeOK
<1>2. /\ held[t] \in [Dim -> Nat] /\ c \in [Dim -> Nat] /\ held \in [Tid -> [Dim -> Nat]]
      /\ held'[t] = ReleaseQuota(held[t], c) /\ \A d \in Dim : c[d] <= held[t][d]
      /\ \A x \in Tid \ {t} : held'[x] = held[x]
  BY <1>1, StoreAssumption DEF TypeOK, Charge, Matched, Below
<1>3. \A d \in Dim : held'[t][d] = held[t][d] - c[d]
  BY <1>2 DEF ReleaseQuota, SaturatingSub
<1>4. held' \in [Tid -> [Dim -> Nat]]
  <2>1. ReleaseQuota(held[t], c) \in [Dim -> Nat]
    BY <1>2 DEF ReleaseQuota, SaturatingSub
  <2>. QED BY <1>1, <1>2, <2>1
<1>5. \A a \in Tid : a \notin Chain(t) => usage'[a] = usage[a]
  BY <1>1
<1>6. ASSUME NEW a \in Chain(t), NEW d \in Dim
      PROVE  usage'[a][d] = usage[a][d] + held'[t][d] - held[t][d]
  <2>1. a \in Tid /\ a \in live /\ held[t][d] <= usage[a][d]
    BY <1>1, HeldIsCounted DEF AccountInv
  <2>2. /\ c[d] <= held[t][d] /\ held[t][d] \in Nat /\ c[d] \in Nat /\ usage[a][d] \in Nat
        /\ usage'[a][d] = SaturatingSub(usage[a][d], c[d])
    BY <1>1, <1>2, <2>1 DEF TypeOK, Quotas, ReleaseQuota
  <2>. QED BY <1>3, <2>1, <2>2 DEF SaturatingSub
<1>. QED BY <1>1, <1>2, <1>4, <1>5, <1>6, ChargeAccounts

\* The whole step: what is preserved, and what a tenant that disappears holds.
LEMMA StepAccounts ==
  ASSUME Disciplined, TypeOK, TreeInv, AccountInv, [Next]_vars
  PROVE  AccountInv' /\ \A x \in live \ live' : held[x] = Zero
<1>1. ASSUME NEW x \in Name, NEW p \in Tid \cup {None}, NEW caps \in SUBSET Cap,
             NEW q \in [Dim -> Ceiling], Create(x, p, caps, q)
      PROVE  AccountInv' /\ live \subseteq live'
  BY <1>1, CreateAccounts DEF Create
<1>2. ASSUME NEW t \in Tid, Delete(t) \/ DeleteRecursive(t)
      PROVE  AccountInv' /\ \A x \in live \ live' : held[x] = Zero
  BY <1>2, DeleteAccounts
<1>3. ASSUME NEW t \in Tid, NEW c \in Charge, ChargeTenant(t, c) PROVE AccountInv' /\ live' = live
  BY <1>3, ChargeStep DEF ChargeTenant, tree
<1>4. ASSUME NEW t \in Tid, NEW c \in Matched(t) \cup Unmatched, Release(t, c)
      PROVE  AccountInv' /\ live' = live
  <2>1. c \in Matched(t)
    BY DEF Disciplined
  <2>. QED BY <1>4, <2>1, ReleaseStep DEF Release, tree
<1>5. CASE UNCHANGED <<live, parent, quotas, usage, held>>
  BY <1>5, SameAccounts
<1>. QED
  BY <1>1, <1>2, <1>3, <1>4, <1>5
  DEF Next, RotateRootCaps, AddUser, RemoveUser, SetPassword, RevokeUserSessions, CreateSession,
      SessionExpires, RevokeToken, RevokeTenantSessions, PurgeExpiredSessions, Keep, vars, tree

LEMMA AccountInvariant ==
  ASSUME Disciplined
  PROVE  Spec => [](TypeOK /\ TreeInv /\ AccountInv)
<1>1. TypeOK /\ TreeInv /\ AccountInv /\ [Next]_vars => (TypeOK /\ TreeInv /\ AccountInv)'
  BY StepType, StepTree, StepAccounts
<1>. QED BY <1>1, InitType, InitTree, InitAccounts, PTL DEF Spec

\* "a parent's usage always equals the sum of its own direct charges plus every
\* descendant": for every forest, every charge and every order of calls, if callers
\* release what they charged and no ceiling is the largest counter value.
THEOREM UsageSum ==
  ASSUME Disciplined
  PROVE  Spec => []UsageIsSum
<1>1. TypeOK /\ TreeInv /\ AccountInv => UsageIsSum
  BY DEF AccountInv
<1>. QED BY <1>1, AccountInvariant, PTL

\* delete and delete_tenant_recursive never remove a tenant that callers still hold
\* resources of, under the same discipline.
THEOREM NoOrphans ==
  ASSUME Disciplined
  PROVE  Spec => NoOrphanedCharges
<1>1. TypeOK /\ TreeInv /\ AccountInv /\ [Next]_vars => \A t \in live \ live' : held[t] = Zero
  BY StepAccounts
<1>. QED BY <1>1, AccountInvariant, PTL DEF Spec, NoOrphanedCharges

=============================================================================
