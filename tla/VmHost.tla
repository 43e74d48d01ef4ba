------------------------------- MODULE VmHost -------------------------------
(***************************************************************************)
(* The VM host of a node: MemVmHost (celmesh/src/host.rs) over a volume    *)
(* and a networking store, inside the tenant's quota wrapper TenantVmHost  *)
(* (celtenancy/src/runtime.rs).                                            *)
(*                                                                         *)
(* Tasks call handle concurrently.  The wrapper charges the tenant, lets   *)
(* the host apply the operation and settles the account, each under locks  *)
(* of its own; the host itself takes its locks one after the other where   *)
(* an operation looks at two stores.  A step is what happens under one     *)
(* lock.  Operations that read only (list, read) are left out.             *)
(***************************************************************************)
EXTENDS NetworkStore, VolumeStore

CONSTANTS
  Task,       \* concurrent callers in the process
  Receiver,   \* the task that serves requests of other nodes
  MAX_SLOTS,
  VmCost,     \* vcpus of a VM a caller asks for; 0 stands for an unspecified count
  Size,       \* sizes of a volume
  Prefixes,   \* prefix lengths callers ask for
  Request,    \* addresses callers ask for
  Quota,      \* the tenant's ceilings
  Mixes,      \* which kinds of operations how many callers use; one mix per behaviour
  Grants      \* capabilities the host grants: one set per behaviour

\* enum VmOp, the operations that change something.
Kinds == {"create", "start", "stop", "delete", "create_volume", "delete_volume",
          "attach_volume", "detach_volume", "create_snapshot", "delete_snapshot",
          "restore_snapshot", "create_network", "delete_network", "attach_nic",
          "detach_nic", "create_sg", "delete_sg", "create_lb", "delete_lb"}

ASSUME HostAssumption ==
  /\ MAX_SLOTS \in Nat \ {0}
  /\ IsFiniteSet(Task) /\ Receiver \notin Task
  /\ VmCost \subseteq Nat
  /\ Size \subseteq Nat
  /\ Request \subseteq Addr
  /\ Prefixes \subseteq 0..AddrBits
  /\ Quota \in [vcpus : Nat, storage_bytes : Nat]
  /\ NicVm = 0..(MAX_SLOTS - 1)
  /\ \A m \in Mixes : m.kinds \subseteq Kinds /\ m.callers \in Nat /\ {m.k8s, m.crash} \subseteq BOOLEAN

Vm == 0..(MAX_SLOTS - 1)
NoVm == [state |-> "none", volumes |-> {}, cost |-> 0]
Slot == [state : {"created", "halted", "stopped"}, volumes : SUBSET VolumeId, cost : VmCost \cup {0}] \cup {NoVm}
Terminal == {"halted", "stopped"}

VARIABLES
  mix,             \* the clients of this behaviour
  caps,            \* MemVmHost::caps
  slots,           \* MemVmHost::slots
  vault,           \* MemVmHost::vault
  nets,            \* MemVmHost::nets
  owner,           \* MemVmHost::owner is known
  usage,           \* the tenant's usage in the tenant store
  vm_charges,      \* TenantVmHost::vm_charges
  volume_charges,  \* TenantVmHost::volume_charges
  task,            \* what each task is doing
  raced,           \* two tasks were settling the same id at once
  lost             \* what was charged for things a crash took away

fixed == <<mix, caps, owner>>
stores == <<slots, vault, nets>>
accounts == <<usage, vm_charges, volume_charges, raced, lost>>
hostVars == <<mix, caps, owner, slots, vault, nets, usage, vm_charges, volume_charges, task, raced, lost>>

\* The operations whose outcome the wrapper settles.
Creating == {"create", "create_volume"}
Deleting == {"delete", "delete_volume"}
Settled == Creating \cup Deleting

NoOp == [kind |-> "none"]
NoReply == [ok |-> FALSE, id |-> 0, ip |-> NoAddr]
Idle == [pc |-> "idle", op |-> NoOp, reply |-> NoReply, cost |-> 0]

NoUsage == [vcpus |-> 0, storage_bytes |-> 0]
NoCharges == [x \in {} |-> 0]

HostInit ==
  /\ mix \in Mixes
  /\ caps \in Grants
  /\ slots = [v \in Vm |-> NoVm]
  /\ vault = NewVolumeStore
  /\ nets = NewNetworkStore
  /\ owner = FALSE
  /\ usage = NoUsage
  /\ vm_charges = NoCharges
  /\ volume_charges = NoCharges
  /\ task = [t \in Task \cup {Receiver} |-> Idle]
  /\ raced = FALSE
  /\ lost = NoUsage

---------------------------------------------------------------------------
(* Helpers. *)

\* Capabilities::required, one capability per family of kinds.
Required(op) ==
  CASE op.kind \in {"create", "start", "stop", "delete"} -> "vm_lifecycle_write"
    [] op.kind \in {"create_volume", "delete_volume"} -> "volume_write"
    [] op.kind \in {"attach_volume", "detach_volume"} -> "volume_attach"
    [] op.kind \in {"create_snapshot", "delete_snapshot", "restore_snapshot"} -> "snapshot_write"
    [] op.kind \in {"create_network", "delete_network", "attach_nic", "detach_nic"} -> "network_write"
    [] op.kind \in {"create_sg", "delete_sg"} -> "secgroup_write"
    [] op.kind \in {"create_lb", "delete_lb"} -> "lb_write"

\* MemVmHost::apply, the check before everything else.
Permitted(op) == Required(op) \in caps

Attached(v) == \E m \in Vm : v \in slots[m].volumes

\* A caller begins: task t is free and the kind is its own.
Begins(t, op, kind) == task[t].pc = "idle" /\ op.kind = kind

Goto(t, op, pc) == task' = [task EXCEPT ![t] = [Idle EXCEPT !.pc = pc, !.op = op]]

\* The host has answered.  The wrapper settles creations and deletions; the
\* receiver then sends the answer, other callers have it.  cost is what a
\* deletion took away.
Reply(t, op, ok, id, cost) ==
  task' = [task EXCEPT ![t] =
    IF op.kind \in Settled
    THEN [pc |-> "settle", op |-> op, reply |-> [NoReply EXCEPT !.ok = ok, !.id = id], cost |-> cost]
    ELSE IF t = Receiver
    THEN [Idle EXCEPT !.pc = "answer", !.op = op, !.reply = [NoReply EXCEPT !.ok = ok, !.id = id]]
    ELSE Idle]

Answer(t, op, reply) ==
  task' = [task EXCEPT ![t] =
    IF t = Receiver THEN [Idle EXCEPT !.pc = "answer", !.op = op, !.reply = reply] ELSE Idle]

---------------------------------------------------------------------------
(* TenantVmHost::handle, before and after the host. *)

\* charge_for
ChargeFor(op) ==
  CASE op.kind = "create" -> [NoUsage EXCEPT !.vcpus = op.cost]
    [] op.kind = "create_volume" -> [NoUsage EXCEPT !.storage_bytes = op.size]
    [] OTHER -> NoUsage

Plus(u, c) == [vcpus |-> u.vcpus + c.vcpus, storage_bytes |-> u.storage_bytes + c.storage_bytes]

\* TenantStore::release saturates at zero.
Minus(u, c) ==
  [vcpus |-> Max({u.vcpus - c.vcpus, 0}), storage_bytes |-> Max({u.storage_bytes - c.storage_bytes, 0})]

\* Fault: the storage ceiling is forgotten.
WithinCpuQuota(u) == u.vcpus <= Quota.vcpus

WithinQuota(u) == u.vcpus <= Quota.vcpus /\ u.storage_bytes <= Quota.storage_bytes

\* The charge comes first: a breach of the quota never enters the host.
Charge(t, op) ==
  /\ task[t].pc = "idle"
  /\ op.kind \in Creating
  /\ IF WithinQuota(Plus(usage, ChargeFor(op)))
     THEN usage' = Plus(usage, ChargeFor(op)) /\ Goto(t, op, "host")
     ELSE UNCHANGED usage /\ Answer(t, op, NoReply)
  /\ UNCHANGED <<fixed, stores, vm_charges, volume_charges, raced, lost>>

\* Another task has yet to settle the same VM or volume.
Races(t) ==
  \E u \in DOMAIN task \ {t} :
    /\ task[u].pc = "settle" /\ task[u].reply.ok /\ task[u].reply.id = task[t].reply.id
    /\ (task[u].op.kind \in {"create", "delete"}) = (task[t].op.kind \in {"create", "delete"})

\* Fault: the charge of a refused creation is kept.
SettleKeepsCharge(t) == UNCHANGED <<usage, vm_charges, volume_charges>>

\* The host refused: the charge is given back.
SettleRefused(t) ==
  /\ usage' = Minus(usage, ChargeFor(task[t].op))
  /\ UNCHANGED <<vm_charges, volume_charges>>

\* The charge of a new VM or volume is remembered.
SettleCreated(t) ==
  LET id == task[t].reply.id
      c == ChargeFor(task[t].op)
  IN
  /\ IF task[t].op.kind = "create"
     THEN vm_charges' = Insert(vm_charges, id, c) /\ UNCHANGED volume_charges
     ELSE volume_charges' = Insert(volume_charges, id, c) /\ UNCHANGED vm_charges
  /\ UNCHANGED usage

\* The entry is removed and refunded, if there is one.
SettleDeleted(t) ==
  LET id == task[t].reply.id
      charges == IF task[t].op.kind = "delete" THEN vm_charges ELSE volume_charges
  IN
  /\ usage' = IF id \in DOMAIN charges THEN Minus(usage, charges[id]) ELSE usage
  /\ IF task[t].op.kind = "delete"
     THEN vm_charges' = Remove(vm_charges, id) /\ UNCHANGED volume_charges
     ELSE volume_charges' = Remove(volume_charges, id) /\ UNCHANGED vm_charges

Settle(t) ==
  LET kind == task[t].op.kind IN
  /\ task[t].pc = "settle"
  /\ \/ ~task[t].reply.ok /\ kind \in Creating /\ SettleRefused(t)
     \/ task[t].reply.ok /\ kind \in Creating /\ SettleCreated(t)
     \/ task[t].reply.ok /\ kind \in Deleting /\ SettleDeleted(t)
     \/ ~task[t].reply.ok /\ kind \in Deleting /\ UNCHANGED <<usage, vm_charges, volume_charges>>
  /\ raced' = (raced \/ (task[t].reply.ok /\ Races(t)))
  /\ Answer(t, task[t].op, task[t].reply)
  /\ UNCHANGED <<fixed, stores, lost>>

---------------------------------------------------------------------------
(* MemVmHost::apply: VMs. *)

FreeSlots == {v \in Vm : slots[v] = NoVm}

Create(t) ==
  LET op == task[t].op
      ok == Permitted(op) /\ FreeSlots # {}
      v == Min(FreeSlots)
  IN
  /\ task[t].pc = "host" /\ op.kind = "create"
  /\ slots' = IF ok THEN [slots EXCEPT ![v] = [NoVm EXCEPT !.state = "created", !.cost = op.cost]]
                    ELSE slots
  /\ Reply(t, op, ok, IF ok THEN v ELSE 0, 0)
  /\ UNCHANGED <<fixed, vault, nets, accounts>>

Start(t, op) ==
  LET ok == Permitted(op) /\ slots[op.vm].state = "created" IN
  /\ Begins(t, op, "start")
  /\ slots' = IF ok THEN [slots EXCEPT ![op.vm].state = "halted"] ELSE slots
  /\ Reply(t, op, ok, op.vm, 0)
  /\ UNCHANGED <<fixed, vault, nets, accounts>>

Stop(t, op) ==
  LET ok == Permitted(op) /\ slots[op.vm] # NoVm IN
  /\ Begins(t, op, "stop")
  /\ slots' = IF ok /\ slots[op.vm].state \notin Terminal
              THEN [slots EXCEPT ![op.vm].state = "stopped"] ELSE slots
  /\ Reply(t, op, ok, op.vm, 0)
  /\ UNCHANGED <<fixed, vault, nets, accounts>>

Delete(t, op) ==
  LET ok == Permitted(op) /\ slots[op.vm].state \in Terminal IN
  /\ Begins(t, op, "delete")
  /\ slots' = IF ok THEN [slots EXCEPT ![op.vm] = NoVm] ELSE slots
  /\ Reply(t, op, ok, op.vm, IF ok THEN slots[op.vm].cost ELSE 0)
  /\ UNCHANGED <<fixed, vault, nets, accounts>>

---------------------------------------------------------------------------
(* MemVmHost::apply: volumes. *)

VolumeCreate(t) ==
  LET op == task[t].op
      ok == Permitted(op) /\ owner /\ ValidSize(op.size)
  IN
  /\ task[t].pc = "host" /\ op.kind = "create_volume"
  /\ vault' = IF ok THEN CreateVolume(vault, op.size) ELSE vault
  /\ Reply(t, op, ok, IF ok THEN NextVolumeId(vault) ELSE 0, 0)
  /\ UNCHANGED <<fixed, slots, nets, accounts>>

\* The attachments are checked under the slots lock, which is dropped before the
\* store deletes.
VolumeDelete(t, op) ==
  /\ Begins(t, op, "delete_volume")
  /\ IF Permitted(op) /\ ~Attached(op.volume)
     THEN Goto(t, op, "delete_volume") ELSE Reply(t, op, FALSE, op.volume, 0)
  /\ UNCHANGED <<fixed, stores, accounts>>

VolumeDelete2(t) ==
  LET op == task[t].op IN
  /\ task[t].pc = "delete_volume"
  /\ vault' = DeleteVolume(vault, op.volume)
  /\ Reply(t, op, TRUE, op.volume, IF Known(vault, op.volume) THEN vault.rows[op.volume] ELSE 0)
  /\ UNCHANGED <<fixed, slots, nets, accounts>>

\* The volume is looked up before the slots are locked.
AttachVolume(t, op) ==
  /\ Begins(t, op, "attach_volume")
  /\ IF Permitted(op) /\ Known(vault, op.volume)
     THEN Goto(t, op, "attach_volume") ELSE Reply(t, op, FALSE, 0, 0)
  /\ UNCHANGED <<fixed, stores, accounts>>

AttachVolume2(t) ==
  LET op == task[t].op
      ok == slots[op.vm] # NoVm /\ op.volume \notin slots[op.vm].volumes
  IN
  /\ task[t].pc = "attach_volume"
  /\ slots' = IF ok THEN [slots EXCEPT ![op.vm].volumes = @ \cup {op.volume}] ELSE slots
  /\ Reply(t, op, ok, op.vm, 0)
  /\ UNCHANGED <<fixed, vault, nets, accounts>>

DetachVolume(t, op) ==
  LET ok == Permitted(op) /\ slots[op.vm] # NoVm IN
  /\ Begins(t, op, "detach_volume")
  /\ slots' = IF ok THEN [slots EXCEPT ![op.vm].volumes = @ \ {op.volume}] ELSE slots
  /\ Reply(t, op, ok, op.vm, 0)
  /\ UNCHANGED <<fixed, vault, nets, accounts>>

SnapshotCreate(t, op) ==
  LET ok == Permitted(op) /\ Known(vault, op.volume) IN
  /\ Begins(t, op, "create_snapshot")
  /\ vault' = IF ok THEN CreateSnapshot(vault, op.volume) ELSE vault
  /\ Reply(t, op, ok, op.volume, 0)
  /\ UNCHANGED <<fixed, slots, nets, accounts>>

SnapshotDelete(t, op) ==
  /\ Begins(t, op, "delete_snapshot")
  /\ vault' = IF Permitted(op) THEN DeleteSnapshot(vault, op.snapshot) ELSE vault
  /\ Reply(t, op, Permitted(op), 0, 0)
  /\ UNCHANGED <<fixed, slots, nets, accounts>>

SnapshotRestore(t, op) ==
  /\ Begins(t, op, "restore_snapshot")
  /\ Reply(t, op, Permitted(op) /\ MayRestore(vault, op.snapshot), 0, 0)
  /\ UNCHANGED <<fixed, stores, accounts>>

---------------------------------------------------------------------------
(* MemVmHost::apply: networking. *)

NetworkCreate(t, op) ==
  LET ok == Permitted(op) /\ owner /\ Parses(op.prefix_len) IN
  /\ Begins(t, op, "create_network")
  /\ nets' = IF ok THEN CreateNetwork(nets, Parse(op.ip, op.prefix_len)) ELSE nets
  /\ Reply(t, op, ok, nets'.next_net, 0)
  /\ UNCHANGED <<fixed, slots, vault, accounts>>

NetworkDelete(t, op) ==
  LET ok == Permitted(op) /\ MayDeleteNetwork(nets, op.network) IN
  /\ Begins(t, op, "delete_network")
  /\ nets' = IF ok THEN DeleteNetwork(nets, op.network) ELSE nets
  /\ Reply(t, op, ok, op.network, 0)
  /\ UNCHANGED <<fixed, slots, vault, accounts>>

\* The VM is looked up under the slots lock, the NIC made after it is released.
NicAttach(t, op) ==
  /\ Begins(t, op, "attach_nic")
  /\ IF Permitted(op) /\ slots[op.vm] # NoVm
     THEN Goto(t, op, "attach_nic") ELSE Reply(t, op, FALSE, 0, 0)
  /\ UNCHANGED <<fixed, stores, accounts>>

NicAttach2(t) ==
  LET op == task[t].op
      ok == MayAttachNic(nets, op.network, op.ip)
      id == NextNicId(nets, op.network)
  IN
  /\ task[t].pc = "attach_nic"
  /\ nets' = IF ok THEN AttachNic(nets, op.network, op.vm, op.ip) ELSE nets
  /\ Answer(t, op, IF ok THEN [ok |-> TRUE, id |-> id, ip |-> nets'.nics[id].ip] ELSE NoReply)
  /\ UNCHANGED <<fixed, slots, vault, accounts>>

NicDetach(t, op) ==
  /\ Begins(t, op, "detach_nic")
  /\ nets' = IF Permitted(op) THEN DetachNic(nets, op.nic) ELSE nets
  /\ Reply(t, op, Permitted(op), 0, 0)
  /\ UNCHANGED <<fixed, slots, vault, accounts>>

SgCreate(t, op) ==
  LET ok == Permitted(op) /\ owner /\ ValidRule(op.rule) IN
  /\ Begins(t, op, "create_sg")
  /\ nets' = IF ok THEN CreateSecurityGroup(nets) ELSE nets
  /\ Reply(t, op, ok, nets'.next_sg, 0)
  /\ UNCHANGED <<fixed, slots, vault, accounts>>

SgDelete(t, op) ==
  /\ Begins(t, op, "delete_sg")
  /\ nets' = IF Permitted(op) THEN DeleteSecurityGroup(nets, op.sg) ELSE nets
  /\ Reply(t, op, Permitted(op), 0, 0)
  /\ UNCHANGED <<fixed, slots, vault, accounts>>

LbCreate(t, op) ==
  LET ok == Permitted(op) /\ owner /\ MayCreateLb(nets, op.network, op.vip, op.backends) IN
  /\ Begins(t, op, "create_lb")
  /\ nets' = IF ok THEN CreateLb(nets, op.network, op.vip, op.backends) ELSE nets
  /\ Reply(t, op, ok, nets'.next_lb, 0)
  /\ UNCHANGED <<fixed, slots, vault, accounts>>

LbDelete(t, op) ==
  /\ Begins(t, op, "delete_lb")
  /\ nets' = IF Permitted(op) THEN DeleteLb(nets, op.lb) ELSE nets
  /\ Reply(t, op, Permitted(op), 0, 0)
  /\ UNCHANGED <<fixed, slots, vault, accounts>>

---------------------------------------------------------------------------

\* The bounds of the model: at the limit of a counter no operation begins that
\* would move it on.
InFlight(kind) == Cardinality({t \in DOMAIN task : task[t].op.kind = kind})

Room(op) ==
  CASE op.kind = "create_volume" -> vault.next + InFlight("create_volume") < MaxVolumes
    [] op.kind = "create_snapshot" -> vault.next_snap[op.volume] < MaxSnaps
    [] op.kind = "create_network" -> nets.next_net < MaxNetworks
    [] op.kind = "attach_nic" ->
         (IF op.network \in DOMAIN nets.next_nic THEN nets.next_nic[op.network] ELSE 0)
           + InFlight("attach_nic") < MaxNics
    [] op.kind = "create_sg" -> nets.next_sg < MaxSgs
    [] op.kind = "create_lb" -> nets.next_lb < MaxLbs
    [] OTHER -> TRUE

\* TenantVmHost::handle up to its first lock.
Handle(t, op) ==
  Room(op) /\ (
  \/ Charge(t, op)
  \/ Start(t, op) \/ Stop(t, op) \/ Delete(t, op)
  \/ VolumeDelete(t, op) \/ AttachVolume(t, op) \/ DetachVolume(t, op)
  \/ SnapshotCreate(t, op) \/ SnapshotDelete(t, op) \/ SnapshotRestore(t, op)
  \/ NetworkCreate(t, op) \/ NetworkDelete(t, op) \/ NicAttach(t, op) \/ NicDetach(t, op)
  \/ SgCreate(t, op) \/ SgDelete(t, op) \/ LbCreate(t, op) \/ LbDelete(t, op))

\* The steps after it.
Proceed(t) ==
  \/ Create(t) \/ VolumeCreate(t) \/ VolumeDelete2(t)
  \/ AttachVolume2(t) \/ NicAttach2(t)
  \/ Settle(t)

\* The operations of a kind a caller chooses from.
Ops == [kind \in Kinds |->
  CASE kind = "create" -> [kind : {kind}, cost : VmCost]
    [] kind \in {"start", "stop", "delete"} -> [kind : {kind}, vm : Vm]
    [] kind = "create_volume" -> [kind : {kind}, size : Size]
    [] kind \in {"delete_volume", "create_snapshot"} -> [kind : {kind}, volume : VolumeId]
    [] kind \in {"attach_volume", "detach_volume"} -> [kind : {kind}, vm : Vm, volume : VolumeId]
    [] kind \in {"delete_snapshot", "restore_snapshot"} -> [kind : {kind}, snapshot : SnapshotId]
    [] kind = "create_network" -> [kind : {kind}, ip : {1}, prefix_len : Prefixes]
    [] kind = "delete_network" -> [kind : {kind}, network : NetworkId]
    [] kind = "attach_nic" -> [kind : {kind}, network : NetworkId, vm : Vm, ip : Request \cup {NoAddr}]
    [] kind = "detach_nic" -> [kind : {kind}, nic : NicId]
    [] kind = "create_sg" -> [kind : {kind}, rule : [port_min : {1}, port_max : {0, 1}]]
    [] kind = "delete_sg" -> [kind : {kind}, sg : SgId]
    [] kind = "create_lb" -> [kind : {kind}, network : NetworkId, vip : Request, backends : {<<>>}]
    [] kind = "delete_lb" -> [kind : {kind}, lb : LbId]]

\* A caller in the process begins an operation.
Local(t) ==
  /\ task[t].pc = "idle"
  /\ Cardinality({u \in Task : task[u].pc # "idle"}) < mix.callers
  /\ \E kind \in mix.kinds : \E op \in Ops[kind] : Handle(t, op)

\* What is charged for a task and not yet settled.
Owed(x) ==
  CASE x.pc = "host" -> ChargeFor(x.op)
    [] x.pc = "settle" /\ ~x.reply.ok -> ChargeFor(x.op)
    [] x.pc = "settle" /\ x.reply.ok /\ x.op.kind = "delete" -> [NoUsage EXCEPT !.vcpus = x.cost]
    [] x.pc = "settle" /\ x.reply.ok /\ x.op.kind = "delete_volume" -> [NoUsage EXCEPT !.storage_bytes = x.cost]
    [] OTHER -> NoUsage

\* What the present VMs and volumes cost, and what is on its way.
Due ==
  [vcpus |-> SumFunctionOnSet([v \in Vm |-> slots[v].cost], Vm)
             + SumFunctionOnSet([t \in DOMAIN task |-> Owed(task[t]).vcpus], DOMAIN task),
   storage_bytes |-> SumFunctionOnSet(vault.rows, DOMAIN vault.rows)
             + SumFunctionOnSet([t \in DOMAIN task |-> Owed(task[t]).storage_bytes], DOMAIN task)]

\* MemVmHost::snapshot tells the host its node id (remember_owner).
Snapshot ==
  /\ ~owner
  /\ owner' = TRUE
  /\ UNCHANGED <<mix, caps, stores, accounts, task>>

\* The process is killed: the host, its stores and the wrapper's notes are gone,
\* the tenant store is not.
Crash ==
  /\ slots' = [v \in Vm |-> NoVm]
  /\ vault' = NewVolumeStore
  /\ nets' = NewNetworkStore
  /\ vm_charges' = NoCharges
  /\ volume_charges' = NoCharges
  /\ task' = [t \in DOMAIN task |-> Idle]
  /\ lost' = IF raced THEN lost ELSE Plus(lost, Due)
  /\ owner' = FALSE
  /\ UNCHANGED <<mix, caps, usage, raced>>

=============================================================================
