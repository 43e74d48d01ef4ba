----------------------------- MODULE Federation -----------------------------
(***************************************************************************)
(* The federated VM namespace of celmesh (celmesh/src/federation.rs), the  *)
(* in-memory VM host that feeds it (host.rs) and the supervisor that       *)
(* recreates the VMs of failed nodes (mesh.rs, run_supervisor_step).       *)
(*                                                                         *)
(* A step of a task ends where it releases a lock.  The receiver, callers  *)
(* of Mesh::invoke and the supervisor of one node interleave between these *)
(* steps, and the nodes interleave with each other.  What a node believes  *)
(* of its peers is an arbitrary set `alive` that contains the node itself  *)
(* (SelfRowAuthoritative in Gossip.tla): membership may be wrong, late and *)
(* different on every node.                                                *)
(***************************************************************************)
EXTENDS Naturals, FiniteSets

CONSTANTS
  Node,       \* node identities; their order is the order of NodeId
  Slot,       \* slots of a host: 0 .. MAX_SLOTS - 1
  Label,      \* labels operators give to VMs
  LongLabel,  \* labels of 32 characters: an annotation would be cut off
  Volume,     \* volumes an operator may attach
  Task,       \* tasks of a node that apply operations: receiver, local callers
  MaxOps,     \* bound on the operations applied in the cluster
  Supervisors,\* nodes with a MeshConfig::supervisor_interval other than zero
  Mortals,    \* nodes that may crash
  MaxEpoch    \* bound on the starts of a node

ASSUME FederationAssumption ==
  /\ Node \subseteq Nat \ {0}
  /\ Slot \subseteq Nat
  /\ LongLabel \subseteq Label
  /\ MaxOps \in Nat
  /\ Supervisors \subseteq Node
  /\ Mortals \subseteq Node
  /\ MaxEpoch \in Nat

VARIABLES
  up,     \* the node's process runs
  epoch,  \* MeshConfig::epoch of the latest start
  hlc,    \* Inner::hlc, counting publications only
  alive,  \* the peers whose membership row is Alive
  host,   \* MemVmHost::slots
  rows,   \* NamespaceFederation::rows
  task,   \* per task: where its republish_after_op stands
  sup,    \* where the node's supervisor pass stands
  spent,  \* operations applied so far
  net     \* the local rows each publication put on offer to syncs

vars == <<up, epoch, hlc, alive, host, rows, task, sup, spent, net>>

\* A label is what the operator gave and the annotation "@owner", 0 for none.
NoOwner == 0
VmLabel == Label \X (Node \cup {NoOwner})

\* struct Slot: what the properties tell apart.  The state "ended" stands for the
\* terminal ones, halted, stopped and faulted, which no operation tells apart.
Vm == [label : VmLabel, policy : {"Never", "Always"},
       state : {"created", "ended"}, volumes : SUBSET Volume]
NoVm == [label |-> <<>>, policy |-> "Never", state |-> "none", volumes |-> {}]

Slots == [Slot -> Vm \cup {NoVm}]
EmptySlots == [i \in Slot |-> NoVm]

\* struct RemoteVm.  owner_alive is recomputed by every reader.
RemoteVm == [vm : Vm, epoch : Nat \ {0}, hlc : Nat]
NoRow == [vm |-> NoVm, epoch |-> 0, hlc |-> 0]

Key == Node \X Slot
EmptyTable == [k \in Key |-> NoRow]

Table == [Key -> RemoteVm \cup {NoRow}]

\* Payload::Sync as far as VMs go: the sender's own rows.
Sync == [from : Node, vms : [Slot -> RemoteVm \cup {NoRow}]]

\* A task that applies an operation, and the locals of its republish_after_op.
TaskState == [pc : {"idle", "snapshot", "publish"}, snap : Slots]
Idle == [pc |-> "idle", snap |-> EmptySlots]

\* The locals of run_supervisor_step; made stands for the Vec `out`.
SupState ==
  [pc : {"idle", "scan", "dedupe", "create", "attach", "snapshot", "publish"},
   orphans : SUBSET [key : Key, vm : Vm], made : SUBSET VmLabel,
   slot : Slot \cup {0}, volumes : SUBSET Volume, snap : Slots]
SupIdle == [pc |-> "idle", orphans |-> {}, made |-> {}, slot |-> 0,
            volumes |-> {}, snap |-> EmptySlots]

TypeOK ==
  /\ up \in [Node -> BOOLEAN]
  /\ epoch \in [Node -> 0..MaxEpoch]
  /\ hlc \in [Node -> Nat]
  /\ alive \in [Node -> SUBSET Node]
  /\ host \in [Node -> Slots]
  /\ rows \in [Node -> Table]
  /\ task \in [Node -> [Task -> TaskState]]
  /\ sup \in [Node -> SupState]
  /\ spent \in 0..MaxOps
  /\ net \in SUBSET Sync

Init ==
  /\ up = [n \in Node |-> FALSE]
  /\ epoch = [n \in Node |-> 0]
  /\ hlc = [n \in Node |-> 0]
  /\ alive = [n \in Node |-> {n}]
  /\ host = [n \in Node |-> EmptySlots]
  /\ rows = [n \in Node |-> EmptyTable]
  /\ task = [n \in Node |-> [t \in Task |-> Idle]]
  /\ sup = [n \in Node |-> SupIdle]
  /\ spent = 0
  /\ net = {}

---------------------------------------------------------------------------
(* The federation table. *)

\* The order of (epoch, hlc) pairs, strict.
Newer(a, b) ==
  \/ a.epoch > b.epoch
  \/ a.epoch = b.epoch /\ a.hlc > b.hlc

\* Deliberate faults the runs must detect, here and below.
MergeAnyForeign(self, owner, row, incoming) ==
  IF owner # self /\ incoming # NoRow THEN incoming ELSE row
MergeFirst(self, owner, row, incoming) ==
  IF owner # self /\ row = NoRow THEN incoming ELSE row

\* NamespaceFederation::merge for one row; an absent row is older than any.
Merge(self, owner, row, incoming) ==
  IF owner # self /\ Newer(incoming, row) THEN incoming ELSE row

SetLocalWithEmpty(self, table, snap, e, h) ==
  [k \in Key |-> IF k[1] # self THEN table[k] ELSE [vm |-> snap[k[2]], epoch |-> e, hlc |-> h]]

\* NamespaceFederation::set_local with the stamp of publish_local_vms: the own
\* rows are replaced wholesale, the others stay.
SetLocal(self, table, snap, e, h) ==
  [k \in Key |->
     IF k[1] # self THEN table[k]
     ELSE IF snap[k[2]] = NoVm THEN NoRow
     ELSE [vm |-> snap[k[2]], epoch |-> e, hlc |-> h]]

\* NamespaceFederation::local_rows, what send_sync carries.
LocalRows(n, table) == [from |-> n, vms |-> [i \in Slot |-> table[<<n, i>>]]]

---------------------------------------------------------------------------
(* Processes and membership. *)

\* Mesh::start, then set_host with an empty MemVmHost.  Every start has a larger
\* epoch (docs/RUNBOOK.md:32).
Start(n) ==
  /\ ~up[n]
  /\ epoch[n] < MaxEpoch
  /\ epoch' = [epoch EXCEPT ![n] = @ + 1]
  /\ up' = [up EXCEPT ![n] = TRUE]
  /\ hlc' = [hlc EXCEPT ![n] = 0]
  /\ UNCHANGED <<alive, host, rows, task, sup, spent, net>>

\* The process ends and everything it held in memory is gone.
Crash(n) ==
  /\ up[n]
  /\ up' = [up EXCEPT ![n] = FALSE]
  /\ alive' = [alive EXCEPT ![n] = {n}]
  /\ host' = [host EXCEPT ![n] = EmptySlots]
  /\ rows' = [rows EXCEPT ![n] = EmptyTable]
  /\ task' = [task EXCEPT ![n] = [t \in Task |-> Idle]]
  /\ sup' = [sup EXCEPT ![n] = SupIdle]
  /\ UNCHANGED <<epoch, hlc, spent, net>>

\* The membership table of n changes its mind about m.  Only a supervisor acts
\* on it.
ViewChange(n, m) ==
  /\ up[n]
  /\ m # n
  /\ alive' = [alive EXCEPT ![n] = IF m \in @ THEN @ \ {m} ELSE @ \cup {m}]
  /\ UNCHANGED <<up, epoch, hlc, host, rows, task, sup, spent, net>>

\* handle_envelope, Payload::Sync: every row is merged under one lock.  net
\* keeps what was sent: syncs are lost, delayed, repeated and reordered.
RecvSync(n, msg) ==
  /\ up[n]
  /\ n # msg.from
  /\ rows' = [rows EXCEPT ![n] =
       [k \in Key |-> IF k[1] = msg.from
                      THEN Merge(n, k[1], rows[n][k], msg.vms[k[2]])
                      ELSE rows[n][k]]]
  /\ UNCHANGED <<up, epoch, hlc, alive, host, task, sup, spent, net>>

---------------------------------------------------------------------------
(* Operations: MemVmHost::apply under the slots lock, then                   *)
(* republish_after_op.  A refused operation changes nothing.                 *)

Free(n) == {i \in Slot : host[n][i] = NoVm}
Used(n) == Slot \ Free(n)

\* The first free slot, as the loop over slots finds it: none or one.
FirstFree(n) == {i \in Free(n) : \A j \in Free(n) : i <= j}

\* A task applies an operation that turns slot i into vm.
Apply(n, t, i, vm) ==
  /\ up[n]
  /\ task[n][t].pc = "idle"
  /\ spent < MaxOps
  /\ spent' = spent + 1
  /\ host' = [host EXCEPT ![n][i] = vm]
  /\ task' = [task EXCEPT ![n][t].pc = "snapshot"]
  /\ UNCHANGED <<up, epoch, hlc, alive, rows, sup, net>>

\* VmOp::Create
Create(n, t, l, p) ==
  \E i \in FirstFree(n) :
    Apply(n, t, i,
          [label |-> <<l, NoOwner>>, policy |-> p, state |-> "created", volumes |-> {}])

\* VmOp::Start: MemVmHost runs the VM to its halt at once.
StartVm(n, t, i) ==
  /\ i \in Used(n)
  /\ host[n][i].state # "ended"
  /\ Apply(n, t, i, [host[n][i] EXCEPT !.state = "ended"])

\* VmOp::Stop, idempotent on a terminal VM.
StopVm(n, t, i) ==
  /\ i \in Used(n)
  /\ Apply(n, t, i, [host[n][i] EXCEPT !.state = "ended"])

\* VmOp::Delete
DeleteVm(n, t, i) ==
  /\ i \in Used(n)
  /\ host[n][i].state = "ended"
  /\ Apply(n, t, i, NoVm)

\* VmOp::AttachVolume of a volume the vault has.
AttachVolume(n, t, i, v) ==
  /\ i \in Used(n)
  /\ v \notin host[n][i].volumes
  /\ Apply(n, t, i, [host[n][i] EXCEPT !.volumes = @ \cup {v}])

\* VmOp::DetachVolume, also of a volume that is not attached.
DetachVolume(n, t, i, v) ==
  /\ i \in Used(n)
  /\ Apply(n, t, i, [host[n][i] EXCEPT !.volumes = @ \ {v}])

\* republish_after_op, first half: VmHost::snapshot.
TaskSnapshot(n, t) ==
  /\ task[n][t].pc = "snapshot"
  /\ task' = [task EXCEPT ![n][t] = [pc |-> "publish", snap |-> host[n]]]
  /\ UNCHANGED <<up, epoch, hlc, alive, host, rows, sup, spent, net>>

\* publish_local_vms without a tick of the clock.
PublishUnticked(n, snap) ==
  /\ rows' = [rows EXCEPT ![n] = SetLocal(n, @, snap, epoch[n], hlc[n])]
  /\ net' = net \cup {LocalRows(n, rows'[n])}
  /\ UNCHANGED hlc

\* Mesh::publish_local_vms: a new clock value, the own rows, and syncs (of the
\* burst and of every later gossip turn) that may carry them.
Publish(n, snap) ==
  /\ hlc' = [hlc EXCEPT ![n] = @ + 1]
  /\ rows' = [rows EXCEPT ![n] = SetLocal(n, @, snap, epoch[n], hlc[n] + 1)]
  /\ net' = net \cup {LocalRows(n, SetLocal(n, rows[n], snap, epoch[n], hlc[n] + 1))}

TaskPublish(n, t) ==
  /\ task[n][t].pc = "publish"
  /\ Publish(n, task[n][t].snap)
  /\ task' = [task EXCEPT ![n][t] = Idle]
  /\ UNCHANGED <<up, epoch, alive, host, sup, spent>>

---------------------------------------------------------------------------
(* The supervisor: run_supervisor_step, one step per lock it takes. *)

\* is_supervisor: the lowest Alive node is this one.
Elected(n) == \A m \in alive[n] : n <= m

\* orphaned_vms: rows of owners that are not Alive, Suspect ones included.
Orphaned(n, k) ==
  /\ k[1] # n
  /\ k[1] \notin alive[n]
  /\ rows[n][k] # NoRow
  /\ rows[n][k].vm.policy = "Always"

Orphans(n) == {[key |-> k, vm |-> rows[n][k].vm] : k \in {k \in Key : Orphaned(n, k)}}

LabelKept(vm, owner) == vm.label

\* The label of the recreated VM: annotated, and truncated to 32 characters.  An
\* orphan has no annotation of its own, since recreated VMs have policy Never.
NewLabel(vm, owner) ==
  IF vm.label[1] \in LongLabel THEN vm.label ELSE <<vm.label[1], owner>>

PublishedLabels(n) == {rows[n][<<n, i>>].vm.label : i \in Slot}
ExistingLabels(n) == {host[n][i].label : i \in Used(n)}

\* The BTreeMap order of the rows.
Before(k, m) == k[1] < m[1] \/ (k[1] = m[1] /\ k[2] <= m[2])
FirstOrphan(os) == {x \in os : \A y \in os : Before(x.key, y.key)}

SupElect(n) ==
  /\ up[n]
  /\ sup[n].pc = "idle"
  /\ Elected(n)
  /\ sup' = [sup EXCEPT ![n].pc = "scan"]
  /\ UNCHANGED <<up, epoch, hlc, alive, host, rows, task, spent, net>>

\* list_vms refreshes owner_alive and returns the rows.
SupScan(n) ==
  /\ sup[n].pc = "scan"
  /\ sup' = [sup EXCEPT ![n] = IF Orphans(n) = {} THEN SupIdle
                               ELSE [@ EXCEPT !.pc = "dedupe", !.orphans = Orphans(n)]]
  /\ UNCHANGED <<up, epoch, hlc, alive, host, rows, task, spent, net>>

\* The labels the host has now decide for the whole pass which orphans are
\* skipped; VMs the pass makes are not added to them.
SupDedupe(n) ==
  /\ sup[n].pc = "dedupe"
  /\ sup' = [sup EXCEPT ![n].pc = "create",
                        ![n].orphans = {x \in @ : NewLabel(x.vm, x.key[1]) \notin ExistingLabels(n)}]
  /\ UNCHANGED <<up, epoch, hlc, alive, host, rows, task, spent, net>>

\* One turn of the loop: VmOp::Create, with restart policy Never.
SupCreate(n) ==
  /\ sup[n].pc = "create"
  /\ \E i \in FirstFree(n), x \in FirstOrphan(sup[n].orphans) :
       LET l == NewLabel(x.vm, x.key[1]) IN
       /\ host' = [host EXCEPT ![n][i] =
            [label |-> l, policy |-> "Never", state |-> "created", volumes |-> {}]]
       /\ sup' = [sup EXCEPT ![n] =
            [pc |-> IF x.vm.volumes = {} THEN "create" ELSE "attach",
             orphans |-> sup[n].orphans \ {x}, made |-> sup[n].made \cup {l},
             slot |-> i, volumes |-> x.vm.volumes, snap |-> EmptySlots]]
  /\ UNCHANGED <<up, epoch, hlc, alive, rows, task, spent, net>>

\* The registry is full: the error leaves the pass, and nothing is republished.
SupFail(n) ==
  /\ sup[n].pc = "create"
  /\ sup[n].orphans # {}
  /\ Free(n) = {}
  /\ sup' = [sup EXCEPT ![n] = SupIdle]
  /\ UNCHANGED <<up, epoch, hlc, alive, host, rows, task, spent, net>>

\* attach_preserved: whatever VM is in the slot by now; an empty slot is only
\* logged.
SupAttach(n) ==
  /\ sup[n].pc = "attach"
  /\ host' = IF sup[n].slot \in Used(n)
             THEN [host EXCEPT ![n][sup[n].slot].volumes = sup[n].volumes]
             ELSE host
  /\ sup' = [sup EXCEPT ![n].pc = "create"]
  /\ UNCHANGED <<up, epoch, hlc, alive, rows, task, spent, net>>

\* The loop is over: republish if anything was made.
SupDone(n) ==
  /\ sup[n].pc = "create"
  /\ sup[n].orphans = {}
  /\ sup' = [sup EXCEPT ![n] = IF @.made = {} THEN SupIdle ELSE [SupIdle EXCEPT !.pc = "snapshot"]]
  /\ UNCHANGED <<up, epoch, hlc, alive, host, rows, task, spent, net>>

SupSnapshot(n) ==
  /\ sup[n].pc = "snapshot"
  /\ sup' = [sup EXCEPT ![n].pc = "publish", ![n].snap = host[n]]
  /\ UNCHANGED <<up, epoch, hlc, alive, host, rows, task, spent, net>>

SupPublish(n) ==
  /\ sup[n].pc = "publish"
  /\ Publish(n, sup[n].snap)
  /\ sup' = [sup EXCEPT ![n] = SupIdle]
  /\ UNCHANGED <<up, epoch, alive, host, task, spent>>

SupStep(n) ==
  \/ SupElect(n) \/ SupScan(n) \/ SupDedupe(n) \/ SupCreate(n) \/ SupFail(n)
  \/ SupAttach(n) \/ SupDone(n) \/ SupSnapshot(n) \/ SupPublish(n)

TaskStep(n, t) == TaskSnapshot(n, t) \/ TaskPublish(n, t)

Operation(n, t) ==
  \/ \E l \in Label, p \in {"Never", "Always"} : Create(n, t, l, p)
  \/ \E i \in Slot : StartVm(n, t, i) \/ StopVm(n, t, i) \/ DeleteVm(n, t, i)
  \/ \E i \in Slot, v \in Volume : AttachVolume(n, t, i, v) \/ DetachVolume(n, t, i, v)

Next ==
  \/ \E n \in Node : Start(n)
  \/ \E n \in Mortals : Crash(n)
  \/ \E n \in Supervisors : SupStep(n)
  \/ \E n \in Supervisors, m \in Node : ViewChange(n, m)
  \/ \E n \in Node, msg \in net : RecvSync(n, msg)
  \/ \E n \in Node, t \in Task : Operation(n, t) \/ TaskStep(n, t)

Spec == Init /\ [][Next]_vars

---------------------------------------------------------------------------
(* Properties. *)

\* All copies of one row, in the nodes' tables and in syncs.
Copies(k) ==
  {rows[n][k] : n \in Node} \cup {msg.vms[k[2]] : msg \in {x \in net : x.from = k[1]}}

\* A stamp identifies the content: copies of a row that carry the same (epoch,
\* hlc), in tables and in syncs, are the same row, so that last-writer-wins has
\* one winner (federation.rs:145; publish_local_vms ticks the clock).
StampsIdentifyRows ==
  \A k \in Key : \A r, s \in Copies(k) :
    (r # NoRow /\ s # NoRow /\ r.epoch = s.epoch /\ r.hlc = s.hlc) => r = s

\* While a node runs, the row it holds of a peer's VM is never replaced by an
\* older one, whatever syncs of this or a former life of the peer arrive.
RowsNeverRegress ==
  [][\A n \in Node, k \in Key :
       (up[n] /\ up'[n] /\ k[1] # n) => ~Newer(rows[n][k], rows'[n][k])]_vars

\* A recreated VM is not made again: a second VM with the same annotated label
\* appears on a node only within the pass that made the first, for another VM
\* of the lost node with the same name (mesh.rs:496, "skipped on subsequent
\* passes").
NoRepeatedRecovery ==
  [][\A n \in Node, l \in Label, o \in Node, i, j \in Slot :
       (/\ host[n][i].label = <<l, o>>
        /\ host[n][j] = NoVm
        /\ host'[n][j].label = <<l, o>>)
       => <<l, o>> \in sup[n].made]_vars

\* After an operation that succeeded the published rows show what the host has:
\* republish_after_op is "called after every successful local op" (mesh.rs:577).
\* Once no task of the node is at work, table and host agree.
RepublishedAfterOp ==
  \A n \in Node :
    (sup[n].pc = "idle" /\ \A t \in Task : task[n][t].pc = "idle") =>
      \A i \in Slot : rows[n][<<n, i>>].vm = host[n][i]

\* A node's tasks make progress while it runs; a sync with a peer's present
\* rows arrives some time, since every gossip turn sends it again.
Fairness ==
  /\ \A n \in Supervisors : WF_vars(SupStep(n))
  /\ \A n \in Node, t \in Task : WF_vars(TaskStep(n, t))
  /\ \A n, m \in Node :
       WF_vars(\E msg \in net : msg = LocalRows(m, rows[m]) /\ up[m] /\ RecvSync(n, msg))

FairSpec == Spec /\ Fairness

\* Every running node learns the rows every running peer has published last.
PeersConverge ==
  \A n, m \in Node :
    []<>(\/ ~up[n] \/ ~up[m]
         \/ \A i \in Slot : rows[m][<<m, i>>] = NoRow
                            \/ rows[n][<<m, i>>] = rows[m][<<m, i>>])

\* The host of n has a VM in place of the orphan with key k: same label, and the
\* annotation with its owner if there was room for it.
Recovered(n, k) ==
  \E i \in Used(n) :
    LET l == rows[n][k].vm.label[1] IN
    host[n][i].label = <<l, IF l \in LongLabel THEN NoOwner ELSE k[1]>>

\* A VM with restart policy Always whose owner is not Alive in the view of the
\* elected node is recreated there, unless the host has no slot left
\* (mesh.rs:492, "every orphaned VM with restart_policy=Always is recreated").
OrphansAreRecreated ==
  \A n \in Supervisors, k \in Key :
    []<>(\/ ~up[n] \/ ~Elected(n) \/ ~Orphaned(n, k) \/ Free(n) = {}
         \/ Recovered(n, k))
=============================================================================
