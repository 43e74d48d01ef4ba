-------------------------- MODULE FederationProofs --------------------------
(***************************************************************************)
(* Proofs about the federated namespace and the supervisor for any number  *)
(* of nodes, slots, tasks and supervisors.                                 *)
(***************************************************************************)
EXTENDS Federation, TLAPS

---------------------------------------------------------------------------
(* Lemmas about the operators. *)

\* A merged row is the old or the incoming one and not older than the old one;
\* the own rows are untouched.
LEMMA MergeFacts ==
  ASSUME NEW n \in Node, NEW m \in Node,
         NEW row \in RemoteVm \cup {NoRow}, NEW incoming \in RemoteVm \cup {NoRow}
  PROVE  /\ Merge(n, m, row, incoming) \in {row, incoming}
         /\ ~Newer(row, Merge(n, m, row, incoming))
         /\ m = n => Merge(n, m, row, incoming) = row
  BY DEF Merge, Newer, RemoteVm, NoRow

\* set_local yields a table, and what a sync carries of it is well typed.
LEMMA SetLocalFacts ==
  ASSUME NEW n \in Node, NEW table \in Table, NEW snap \in Slots,
         NEW e \in Nat \ {0}, NEW h \in Nat
  PROVE  /\ SetLocal(n, table, snap, e, h) \in Table
         /\ LocalRows(n, SetLocal(n, table, snap, e, h)) \in Sync
<1>. DEFINE T == SetLocal(n, table, snap, e, h)
<1>1. ASSUME NEW k \in Key PROVE T[k] \in RemoteVm \cup {NoRow}
  <2>1. T[k] = IF k[1] # n THEN table[k]
               ELSE IF snap[k[2]] = NoVm THEN NoRow
               ELSE [vm |-> snap[k[2]], epoch |-> e, hlc |-> h]
    BY DEF SetLocal
  <2>2. table[k] \in RemoteVm \cup {NoRow}
    BY DEF Table
  <2>3. snap[k[2]] \in Vm \cup {NoVm}
    BY DEF Slots, Key
  <2>. QED BY <2>1, <2>2, <2>3 DEF RemoteVm
<1>2. T \in Table
  BY <1>1 DEF Table, SetLocal
<1>3. \A i \in Slot : <<n, i>> \in Key
  BY DEF Key
<1>4. LocalRows(n, T) \in Sync
  BY <1>2, <1>3 DEF LocalRows, Sync, Table
<1>. QED BY <1>2, <1>4

\* What an operation does to the slots: it turns one slot into a VM or frees it,
\* and only VMs without an annotation appear in a free slot.
Effect(n, t) ==
  \E i \in Slot, vm \in Vm \cup {NoVm} :
    /\ Apply(n, t, i, vm)
    /\ \/ vm.label = host[n][i].label /\ host[n][i] # NoVm
       \/ vm = NoVm /\ host[n][i] # NoVm
       \/ \E l \in Label : vm.label = <<l, NoOwner>>

LEMMA OperationFacts ==
  ASSUME TypeOK, NEW n \in Node, NEW t \in Task, Operation(n, t)
  PROVE  Effect(n, t)
<1>1. ASSUME NEW i \in Used(n)
      PROVE  i \in Slot /\ host[n][i] \in Vm /\ host[n][i] # NoVm
  BY <1>1 DEF TypeOK, Slots, Used, Free
<1>2. ASSUME NEW l \in Label, NEW p \in {"Never", "Always"}, Create(n, t, l, p)
      PROVE  Effect(n, t)
  <2>. DEFINE vm == [label |-> <<l, NoOwner>>, policy |-> p, state |-> "created", volumes |-> {}]
  <2>1. PICK i \in FirstFree(n) : Apply(n, t, i, vm)
    BY <1>2 DEF Create
  <2>2. i \in Slot
    BY DEF FirstFree, Free
  <2>3. <<l, NoOwner>> \in VmLabel
    BY DEF VmLabel
  <2>4. vm \in Vm /\ vm.label = <<l, NoOwner>>
    BY <2>3 DEF Vm
  <2>. QED BY <2>1, <2>2, <2>4 DEF Effect
<1>3. ASSUME NEW i \in Slot, StartVm(n, t, i) \/ StopVm(n, t, i)
      PROVE  Effect(n, t)
  <2>. DEFINE vm == [host[n][i] EXCEPT !.state = "ended"]
  <2>1. i \in Used(n) /\ Apply(n, t, i, vm)
    BY <1>3 DEF StartVm, StopVm
  <2>2. vm \in Vm /\ vm.label = host[n][i].label
    BY <1>1, <2>1 DEF Vm
  <2>. QED BY <1>1, <2>1, <2>2 DEF Effect
<1>4. ASSUME NEW i \in Slot, DeleteVm(n, t, i)
      PROVE  Effect(n, t)
  BY <1>1, <1>4 DEF DeleteVm, Effect
<1>5. ASSUME NEW i \in Slot, NEW v \in Volume, AttachVolume(n, t, i, v) \/ DetachVolume(n, t, i, v)
      PROVE  Effect(n, t)
  <2>1. i \in Used(n)
    BY <1>5 DEF AttachVolume, DetachVolume
  <2>2. PICK vs \in SUBSET Volume : Apply(n, t, i, [host[n][i] EXCEPT !.volumes = vs])
    <3>1. host[n][i].volumes \in SUBSET Volume
      BY <1>1, <2>1 DEF Vm
    <3>2. /\ host[n][i].volumes \cup {v} \in SUBSET Volume
          /\ host[n][i].volumes \ {v} \in SUBSET Volume
      BY <3>1
    <3>. QED BY <1>5, <3>2 DEF AttachVolume, DetachVolume
  <2>. DEFINE vm == [host[n][i] EXCEPT !.volumes = vs]
  <2>3. vm \in Vm /\ vm.label = host[n][i].label
    BY <1>1, <2>1 DEF Vm
  <2>. QED BY <1>1, <2>1, <2>2, <2>3 DEF Effect
<1>. QED BY <1>2, <1>3, <1>4, <1>5 DEF Operation

\* The label of a recreated VM is a label.
LEMMA NewLabelType ==
  ASSUME NEW vm \in Vm, NEW o \in Node
  PROVE  NewLabel(vm, o) \in VmLabel
<1>1. vm.label \in VmLabel BY DEF Vm
<1>. QED BY <1>1 DEF NewLabel, VmLabel

---------------------------------------------------------------------------
(* Type correctness.  Only a running node has tasks at work, and a running   *)
(* node has an epoch, so that what it publishes is a row.                    *)

Busy ==
  \A n \in Node :
    /\ up[n] => epoch[n] # 0
    /\ sup[n].pc # "idle" => up[n]
    /\ \A t \in Task : task[n][t].pc # "idle" => up[n]

TypeInv == TypeOK /\ Busy

\* A publication keeps the types of what it changes.
LEMMA PublishTypes ==
  ASSUME TypeOK, NEW n \in Node, epoch[n] # 0, NEW snap \in Slots, Publish(n, snap)
  PROVE  /\ hlc' \in [Node -> Nat]
         /\ rows' \in [Node -> Table]
         /\ net' \in SUBSET Sync
<1>1. epoch[n] \in Nat \ {0} /\ hlc[n] + 1 \in Nat /\ rows[n] \in Table
  BY FederationAssumption DEF TypeOK
<1>. DEFINE T == SetLocal(n, rows[n], snap, epoch[n], hlc[n] + 1)
<1>2. T \in Table /\ LocalRows(n, T) \in Sync
  BY <1>1, SetLocalFacts
<1>. HIDE DEF T
<1>3. rows' = [rows EXCEPT ![n] = T] /\ net' = net \cup {LocalRows(n, T)}
      /\ hlc' = [hlc EXCEPT ![n] = hlc[n] + 1]
  BY DEF Publish, T
<1>. QED BY <1>1, <1>2, <1>3 DEF TypeOK

LEMMA EmptyTypes ==
  /\ EmptySlots \in Slots
  /\ EmptyTable \in Table
  /\ Idle \in TaskState
  /\ SupIdle \in SupState
<1>1. EmptySlots \in Slots BY DEF EmptySlots, Slots
<1>2. EmptyTable \in Table BY DEF EmptyTable, Table
<1>3. Idle \in TaskState BY <1>1 DEF Idle, TaskState
<1>4. SupIdle \in SupState BY <1>1 DEF SupIdle, SupState
<1>. QED BY <1>1, <1>2, <1>3, <1>4

LEMMA TypeInit == Init => TypeInv
  BY EmptyTypes, FederationAssumption DEF Init, TypeInv, TypeOK, Busy, Idle, SupIdle

LEMMA TypeNext == TypeInv /\ [Next]_vars => TypeInv'
<1>. SUFFICES ASSUME TypeInv, [Next]_vars PROVE TypeInv'
  OBVIOUS
<1>. USE DEF TypeInv
<1>1. ASSUME NEW n \in Node, Start(n)
      PROVE  TypeInv'
  BY <1>1, FederationAssumption DEF Start, TypeOK, Busy
<1>2. ASSUME NEW n \in Mortals, Crash(n)
      PROVE  TypeInv'
  <2>. n \in Node
    BY FederationAssumption
  <2>1. TypeOK'
    BY <1>2, EmptyTypes DEF Crash, TypeOK
  <2>2. Busy'
    BY <1>2 DEF Crash, TypeOK, Busy, Idle, SupIdle
  <2>. QED BY <2>1, <2>2
<1>3. ASSUME NEW n \in Supervisors, NEW m \in Node, ViewChange(n, m)
      PROVE  TypeInv'
  BY <1>3, FederationAssumption DEF ViewChange, TypeOK, Busy
<1>4. ASSUME NEW n \in Node, NEW msg \in net, RecvSync(n, msg)
      PROVE  TypeInv'
  <2>. DEFINE T == [k \in Key |-> IF k[1] = msg.from
                                  THEN Merge(n, k[1], rows[n][k], msg.vms[k[2]])
                                  ELSE rows[n][k]]
  <2>1. T \in Table
    <3>1. ASSUME NEW k \in Key PROVE T[k] \in RemoteVm \cup {NoRow}
      <4>1. k[1] \in Node /\ k[2] \in Slot
        BY DEF Key
      <4>2. rows[n][k] \in RemoteVm \cup {NoRow} /\ msg.vms[k[2]] \in RemoteVm \cup {NoRow}
        BY <4>1 DEF TypeOK, Table, Sync
      <4>. QED BY <4>1, <4>2, MergeFacts
    <3>. QED BY <3>1 DEF Table
  <2>. HIDE DEF T
  <2>2. rows' = [rows EXCEPT ![n] = T]
    BY <1>4 DEF RecvSync, T
  <2>. QED BY <1>4, <2>1, <2>2 DEF RecvSync, TypeOK, Busy
<1>5. ASSUME NEW n \in Node, NEW t \in Task, Operation(n, t)
      PROVE  TypeInv'
  <2>1. PICK i \in Slot, vm \in Vm \cup {NoVm} : Apply(n, t, i, vm)
    BY <1>5, OperationFacts DEF Effect
  <2>2. host' \in [Node -> Slots]
    BY <2>1 DEF Apply, TypeOK, Slots
  <2>3. task' \in [Node -> [Task -> TaskState]]
    <3>. DEFINE s == [task[n][t] EXCEPT !.pc = "snapshot"]
    <3>. task[n][t] \in TaskState
      BY DEF TypeOK
    <3>1. s \in TaskState
      BY DEF TaskState
    <3>2. task' = [task EXCEPT ![n] = [task[n] EXCEPT ![t] = s]]
      BY <2>1 DEF Apply, TypeOK
    <3>. HIDE DEF s
    <3>. QED BY <3>1, <3>2 DEF TypeOK
  <2>4. spent' \in 0..MaxOps
    BY <2>1, FederationAssumption DEF Apply, TypeOK
  <2>5. Busy'
    BY <2>1 DEF Apply, TypeOK, Busy, TaskState
  <2>. QED BY <2>1, <2>2, <2>3, <2>4, <2>5 DEF Apply, TypeOK
<1>6. ASSUME NEW n \in Node, NEW t \in Task, TaskSnapshot(n, t)
      PROVE  TypeInv'
  <2>1. task' \in [Node -> [Task -> TaskState]]
    BY <1>6 DEF TaskSnapshot, TypeOK, TaskState
  <2>2. Busy'
    BY <1>6 DEF TaskSnapshot, TypeOK, Busy, TaskState
  <2>. QED BY <1>6, <2>1, <2>2 DEF TaskSnapshot, TypeOK
<1>7. ASSUME NEW n \in Node, NEW t \in Task, TaskPublish(n, t)
      PROVE  TypeInv'
  <2>1. epoch[n] # 0 /\ task[n][t].snap \in Slots
    BY <1>7 DEF TaskPublish, TypeOK, Busy, TaskState
  <2>2. /\ hlc' \in [Node -> Nat]
        /\ rows' \in [Node -> Table]
        /\ net' \in SUBSET Sync
    BY <1>7, <2>1, PublishTypes DEF TaskPublish
  <2>3. task' \in [Node -> [Task -> TaskState]]
    BY <1>7, EmptyTypes DEF TaskPublish, TypeOK
  <2>4. Busy'
    BY <1>7 DEF TaskPublish, TypeOK, Busy, Idle
  <2>. QED BY <1>7, <2>2, <2>3, <2>4 DEF TaskPublish, TypeOK
<1>8. ASSUME NEW n \in Supervisors, SupStep(n)
      PROVE  TypeInv'
  <2>. n \in Node /\ sup[n] \in SupState
    BY FederationAssumption DEF TypeOK
  <2>1. ASSUME NEW s \in SupState, sup' = [sup EXCEPT ![n] = s], up[n],
               UNCHANGED <<up, epoch, hlc, alive, rows, task, spent, net>>,
               host' \in [Node -> Slots]
        PROVE  TypeInv'
    BY <2>1 DEF TypeOK, Busy
  <2>2. CASE SupElect(n)
    BY <2>1, <2>2 DEF SupElect, SupState, TypeOK
  <2>3. CASE SupScan(n)
    <3>1. Orphans(n) \subseteq [key : Key, vm : Vm]
      BY DEF Orphans, Orphaned, TypeOK, Table, RemoteVm
    <3>. DEFINE s == IF Orphans(n) = {} THEN SupIdle
                     ELSE [sup[n] EXCEPT !.pc = "dedupe", !.orphans = Orphans(n)]
    <3>2. s \in SupState
      BY <3>1, EmptyTypes DEF SupState
    <3>3. up[n]
      BY <2>3 DEF SupScan, Busy
    <3>. QED BY <2>1, <2>3, <3>2, <3>3 DEF SupScan, TypeOK
  <2>4. CASE SupDedupe(n)
    <3>. DEFINE s == [sup[n] EXCEPT !.pc = "create", !.orphans =
                        {x \in @ : NewLabel(x.vm, x.key[1]) \notin ExistingLabels(n)}]
    <3>1. s \in SupState
      BY DEF SupState
    <3>2. sup' = [sup EXCEPT ![n] = s] /\ up[n]
      BY <2>4 DEF SupDedupe, Busy, TypeOK
    <3>. QED BY <2>1, <2>4, <3>1, <3>2 DEF SupDedupe, TypeOK
  <2>5. CASE SupCreate(n)
    <3>1. PICK i \in FirstFree(n), x \in FirstOrphan(sup[n].orphans) :
            /\ host' = [host EXCEPT ![n][i] =
                 [label |-> NewLabel(x.vm, x.key[1]), policy |-> "Never",
                  state |-> "created", volumes |-> {}]]
            /\ sup' = [sup EXCEPT ![n] =
                 [pc |-> IF x.vm.volumes = {} THEN "create" ELSE "attach",
                  orphans |-> sup[n].orphans \ {x},
                  made |-> sup[n].made \cup {NewLabel(x.vm, x.key[1])},
                  slot |-> i, volumes |-> x.vm.volumes, snap |-> EmptySlots]]
      BY <2>5 DEF SupCreate
    <3>2. i \in Slot /\ x \in sup[n].orphans
      BY DEF FirstFree, Free, FirstOrphan
    <3>3. x.vm \in Vm /\ x.key[1] \in Node /\ x.vm.volumes \in SUBSET Volume
      BY <3>2 DEF SupState, Key, Vm
    <3>4. NewLabel(x.vm, x.key[1]) \in VmLabel
      BY <3>3, NewLabelType
    <3>5. host' \in [Node -> Slots]
      BY <3>1, <3>2, <3>4 DEF TypeOK, Slots, Vm
    <3>. DEFINE s == [pc |-> IF x.vm.volumes = {} THEN "create" ELSE "attach",
                      orphans |-> sup[n].orphans \ {x},
                      made |-> sup[n].made \cup {NewLabel(x.vm, x.key[1])},
                      slot |-> i, volumes |-> x.vm.volumes, snap |-> EmptySlots]
    <3>6. s \in SupState
      BY <3>2, <3>3, <3>4, EmptyTypes DEF SupState
    <3>7. sup' = [sup EXCEPT ![n] = s]
      BY <3>1
    <3>8. up[n]
      BY <2>5 DEF SupCreate, Busy
    <3>. HIDE DEF s
    <3>. QED BY <2>1, <2>5, <3>5, <3>6, <3>7, <3>8 DEF SupCreate
  <2>6. CASE SupFail(n)
    BY <2>1, <2>6, EmptyTypes DEF SupFail, Busy, TypeOK
  <2>7. CASE SupAttach(n)
    <3>1. sup[n].slot \in Slot \cup {0} /\ sup[n].volumes \in SUBSET Volume
      BY DEF SupState
    <3>2. host' \in [Node -> Slots]
      <4>1. ASSUME sup[n].slot \in Used(n)
            PROVE  /\ sup[n].slot \in Slot
                   /\ [host[n][sup[n].slot] EXCEPT !.volumes = sup[n].volumes] \in Vm
        <5>1. sup[n].slot \in Slot /\ host[n][sup[n].slot] \in Vm
          BY <4>1 DEF Used, Free, TypeOK, Slots
        <5>. QED BY <3>1, <5>1 DEF Vm
      <4>. QED BY <2>7, <4>1 DEF SupAttach, TypeOK, Slots
    <3>. DEFINE s == [sup[n] EXCEPT !.pc = "create"]
    <3>3. s \in SupState
      BY DEF SupState
    <3>4. sup' = [sup EXCEPT ![n] = s] /\ up[n]
      BY <2>7 DEF SupAttach, Busy, TypeOK
    <3>. QED BY <2>1, <2>7, <3>2, <3>3, <3>4 DEF SupAttach
  <2>8. CASE SupDone(n)
    <3>. DEFINE s == IF sup[n].made = {} THEN SupIdle ELSE [SupIdle EXCEPT !.pc = "snapshot"]
    <3>1. s \in SupState
      BY EmptyTypes DEF SupState
    <3>. QED BY <2>1, <2>8, <3>1 DEF SupDone, Busy, TypeOK
  <2>9. CASE SupSnapshot(n)
    <3>. DEFINE s == [sup[n] EXCEPT !.pc = "publish", !.snap = host[n]]
    <3>1. s \in SupState
      BY DEF SupState, TypeOK
    <3>2. sup' = [sup EXCEPT ![n] = s] /\ up[n]
      BY <2>9 DEF SupSnapshot, Busy, TypeOK
    <3>. QED BY <2>1, <2>9, <3>1, <3>2 DEF SupSnapshot, TypeOK
  <2>10. CASE SupPublish(n)
    <3>1. epoch[n] # 0 /\ sup[n].snap \in Slots
      BY <2>10 DEF SupPublish, Busy, SupState
    <3>2. /\ hlc' \in [Node -> Nat]
          /\ rows' \in [Node -> Table]
          /\ net' \in SUBSET Sync
      BY <2>10, <3>1, PublishTypes DEF SupPublish
    <3>3. sup' \in [Node -> SupState]
      BY <2>10, EmptyTypes DEF SupPublish, TypeOK
    <3>4. Busy'
      BY <2>10 DEF SupPublish, TypeOK, Busy, SupIdle
    <3>. QED BY <2>10, <3>2, <3>3, <3>4 DEF SupPublish, TypeOK
  <2>. QED BY <1>8, <2>2, <2>3, <2>4, <2>5, <2>6, <2>7, <2>8, <2>9, <2>10 DEF SupStep
<1>9. CASE UNCHANGED vars
  BY <1>9 DEF vars, TypeOK, Busy
<1>. QED BY <1>1, <1>2, <1>3, <1>4, <1>5, <1>6, <1>7, <1>8, <1>9 DEF Next, TaskStep

LEMMA TypeInvariant == Spec => []TypeInv
<1>. QED BY TypeInit, TypeNext, PTL DEF Spec

\* Every reachable state of federation, hosts and supervisors is well typed: in
\* particular a publication is always stamped with the epoch of a running node.
THEOREM TypeCorrect == Spec => []TypeOK
<1>1. TypeInv => TypeOK
  BY DEF TypeInv
<1>. QED BY <1>1, TypeInvariant, PTL

---------------------------------------------------------------------------
(* Stamps.  No copy of a row carries a stamp its owner has not issued, so    *)
(* the stamp of a publication is one that no copy has yet.                   *)

Last(m) == [epoch |-> epoch[m], hlc |-> hlc[m]]

StampsIssued == \A k \in Key : \A r \in Copies(k) : ~Newer(r, Last(k[1]))

StampInv == StampsIssued /\ StampsIdentifyRows

LEMMA CopyTypes ==
  ASSUME TypeOK, NEW k \in Key
  PROVE  /\ Copies(k) \subseteq RemoteVm \cup {NoRow}
         /\ k[1] \in Node /\ Last(k[1]).epoch \in Nat /\ Last(k[1]).hlc \in Nat
<1>1. k[1] \in Node /\ k[2] \in Slot
  BY DEF Key
<1>2. \A n \in Node : rows[n][k] \in RemoteVm \cup {NoRow}
  BY DEF TypeOK, Table
<1>3. \A msg \in net : msg.vms[k[2]] \in RemoteVm \cup {NoRow}
  BY <1>1 DEF TypeOK, Sync
<1>4. \A m \in Node : epoch[m] \in Nat /\ hlc[m] \in Nat
  BY FederationAssumption DEF TypeOK
<1>5. Last(k[1]).epoch \in Nat /\ Last(k[1]).hlc \in Nat
  BY <1>1, <1>4 DEF Last
<1>6. Copies(k) \subseteq RemoteVm \cup {NoRow}
  BY <1>2, <1>3 DEF Copies
<1>. QED BY <1>1, <1>5, <1>6

\* A step that makes no new row and sets no clock back keeps the stamps.
LEMMA QuietStamps ==
  ASSUME TypeOK, TypeOK', StampInv,
         \A k \in Key : Copies(k)' \subseteq Copies(k) \cup {NoRow},
         \A m \in Node : ~Newer(Last(m), Last(m)')
  PROVE  StampInv'
<1>1. ASSUME NEW k \in Key, NEW r \in Copies(k)'
      PROVE  ~Newer(r, Last(k[1])')
  <2>1. /\ k[1] \in Node
        /\ Last(k[1]).epoch \in Nat /\ Last(k[1]).hlc \in Nat
        /\ Last(k[1])'.epoch \in Nat /\ Last(k[1])'.hlc \in Nat
    <3>1. k[1] \in Node
      BY DEF Key
    <3>2. \A m \in Node : /\ epoch[m] \in Nat /\ hlc[m] \in Nat
                          /\ epoch'[m] \in Nat /\ hlc'[m] \in Nat
      BY FederationAssumption DEF TypeOK
    <3>. QED BY <3>1, <3>2 DEF Last
  <2>2. r \in RemoteVm \cup {NoRow} /\ (r = NoRow \/ ~Newer(r, Last(k[1])))
    BY <1>1, CopyTypes DEF StampInv, StampsIssued
  <2>3. ~Newer(Last(k[1]), Last(k[1])')
    BY <2>1
  <2>. QED BY <2>1, <2>2, <2>3 DEF Newer, RemoteVm, NoRow
<1>2. StampsIdentifyRows'
  BY DEF StampInv, StampsIdentifyRows
<1>. QED BY <1>1, <1>2 DEF StampInv, StampsIssued

\* A publication stamps its rows with a value nobody has seen.
LEMMA PublishStamps ==
  ASSUME TypeOK, StampInv, NEW n \in Node, epoch[n] # 0, NEW snap \in Slots,
         Publish(n, snap), UNCHANGED epoch
  PROVE  StampInv'
<1>. DEFINE T == SetLocal(n, rows[n], snap, epoch[n], hlc[n] + 1)
<1>1. epoch[n] \in Nat \ {0} /\ hlc[n] \in Nat /\ hlc[n] + 1 \in Nat /\ rows[n] \in Table
  BY FederationAssumption DEF TypeOK
<1>2. /\ \A k \in Key : k[1] # n => T[k] = rows[n][k]
      /\ \A k \in Key : k[1] = n => T[k] = NoRow \/ (T[k].epoch = epoch[n] /\ T[k].hlc = hlc[n] + 1)
      /\ \A k \in Key : T[k] \in RemoteVm \cup {NoRow}
  <2>1. T \in Table
    BY <1>1, SetLocalFacts
  <2>2. \A k \in Key : T[k] = IF k[1] # n THEN rows[n][k]
                              ELSE IF snap[k[2]] = NoVm THEN NoRow
                              ELSE [vm |-> snap[k[2]], epoch |-> epoch[n], hlc |-> hlc[n] + 1]
    BY DEF SetLocal
  <2>. HIDE DEF T
  <2>3. \A k \in Key : T[k] \in RemoteVm \cup {NoRow}
    BY <2>1 DEF Table
  <2>4. ASSUME NEW k \in Key, k[1] # n
        PROVE  T[k] = rows[n][k]
    BY <2>2, <2>4
  <2>5. ASSUME NEW k \in Key, k[1] = n, T[k] # NoRow
        PROVE  T[k].epoch = epoch[n] /\ T[k].hlc = hlc[n] + 1
    <3>1. T[k] = [vm |-> snap[k[2]], epoch |-> epoch[n], hlc |-> hlc[n] + 1]
      BY <2>2, <2>5
    <3>. QED BY <3>1
  <2>. QED BY <2>3, <2>4, <2>5
<1>. HIDE DEF T
<1>3. rows' = [rows EXCEPT ![n] = T] /\ net' = net \cup {LocalRows(n, T)}
      /\ hlc' = [hlc EXCEPT ![n] = hlc[n] + 1] /\ epoch' = epoch
  BY DEF Publish, T
<1>4. ASSUME NEW k \in Key, NEW r \in Copies(k)'
      PROVE  r \in Copies(k) \/ (k[1] = n /\ r = T[k])
  <2>1. CASE \E m \in Node : r = rows'[m][k]
    <3>1. PICK m \in Node : r = rows'[m][k]
      BY <2>1
    <3>2. CASE m # n
      BY <1>3, <3>1, <3>2 DEF Copies, TypeOK
    <3>3. CASE m = n
      BY <1>2, <1>3, <3>1, <3>3 DEF Copies, TypeOK
    <3>. QED BY <3>2, <3>3
  <2>2. CASE \E msg \in net' : msg.from = k[1] /\ r = msg.vms[k[2]]
    <3>1. PICK msg \in net' : msg.from = k[1] /\ r = msg.vms[k[2]]
      BY <2>2
    <3>2. CASE msg \in net
      BY <3>1, <3>2 DEF Copies
    <3>3. CASE msg = LocalRows(n, T)
      <4>1. k = <<k[1], k[2]>> /\ k[2] \in Slot
        BY DEF Key
      <4>2. k[1] = n
        BY <3>1, <3>3 DEF LocalRows
      <4>. QED BY <3>1, <3>3, <4>1, <4>2 DEF LocalRows
    <3>. QED BY <1>3, <3>1, <3>2, <3>3
  <2>. QED BY <1>4, <2>1, <2>2 DEF Copies
<1>5. ASSUME NEW k \in Key, NEW r \in Copies(k)
      PROVE  /\ r \in RemoteVm \cup {NoRow}
             /\ ~Newer(r, Last(k[1]))
             /\ k[1] = n => ~(r.epoch = epoch[n] /\ r.hlc = hlc[n] + 1)
  <2>1. r \in RemoteVm \cup {NoRow} /\ ~Newer(r, Last(k[1]))
    BY CopyTypes DEF StampInv, StampsIssued
  <2>. QED BY <1>1, <2>1 DEF Newer, Last, RemoteVm, NoRow
<1>6. ASSUME NEW k \in Key, NEW r \in Copies(k)'
      PROVE  ~Newer(r, Last(k[1])')
  <2>1. CASE r \in Copies(k)
    <3>1. Last(k[1])'.epoch = Last(k[1]).epoch /\ Last(k[1])'.hlc >= Last(k[1]).hlc
      BY <1>1, <1>3, CopyTypes DEF Last, TypeOK
    <3>2. /\ Last(k[1]).epoch \in Nat /\ Last(k[1]).hlc \in Nat
          /\ Last(k[1])'.hlc \in Nat
      BY <1>1, <1>3, CopyTypes DEF Last, TypeOK
    <3>. QED BY <1>5, <2>1, <3>1, <3>2 DEF Newer, RemoteVm, NoRow
  <2>2. CASE k[1] = n /\ r = T[k]
    <3>1. Last(k[1])' = [epoch |-> epoch[n], hlc |-> hlc[n] + 1]
      BY <1>1, <1>3, <2>2 DEF Last, TypeOK
    <3>. QED BY <1>1, <1>2, <2>2, <3>1 DEF Newer, NoRow
  <2>. QED BY <1>4, <1>6, <2>1, <2>2
<1>7. StampsIdentifyRows'
  <2>. SUFFICES ASSUME NEW k \in Key, NEW r \in Copies(k)', NEW s \in Copies(k)',
                       r # NoRow, s # NoRow, r.epoch = s.epoch, r.hlc = s.hlc
                PROVE  r = s
    BY DEF StampsIdentifyRows
  <2>1. CASE r \in Copies(k) /\ s \in Copies(k)
    BY <2>1 DEF StampInv, StampsIdentifyRows
  <2>2. CASE ~(r \in Copies(k) /\ s \in Copies(k))
    BY <1>2, <1>4, <1>5, <2>2
  <2>. QED BY <2>1, <2>2
<1>. QED BY <1>6, <1>7 DEF StampInv, StampsIssued

LEMMA StampInit == Init => StampInv
<1>. SUFFICES ASSUME Init PROVE StampInv
  OBVIOUS
<1>1. \A k \in Key : \A r \in Copies(k) : r = NoRow
  BY DEF Init, Copies, EmptyTable
<1>2. \A k \in Key : ~Newer(NoRow, Last(k[1]))
  BY DEF Init, Newer, NoRow, Last, Key
<1>. QED BY <1>1, <1>2 DEF StampInv, StampsIssued, StampsIdentifyRows

LEMMA StampNext == TypeInv /\ TypeInv' /\ StampInv /\ [Next]_vars => StampInv'
<1>. SUFFICES ASSUME TypeInv, TypeInv', StampInv, [Next]_vars PROVE StampInv'
  OBVIOUS
<1>. USE DEF TypeInv
<1>0. \A m \in Node : epoch[m] \in Nat /\ hlc[m] \in Nat
  BY FederationAssumption DEF TypeOK
<1>1. ASSUME UNCHANGED <<rows, net, epoch, hlc>> PROVE StampInv'
  <2>1. \A k \in Key : Copies(k)' = Copies(k)
    BY <1>1 DEF Copies
  <2>2. \A m \in Node : Last(m)' = Last(m)
    BY <1>1 DEF Last
  <2>. QED BY <2>1, <2>2 DEF StampInv, StampsIssued, StampsIdentifyRows, Key
<1>2. ASSUME NEW n \in Node, Start(n) PROVE StampInv'
  <2>1. \A k \in Key : Copies(k)' = Copies(k)
    BY <1>2 DEF Start, Copies
  <2>2. \A m \in Node : ~Newer(Last(m), Last(m)')
    BY <1>0, <1>2 DEF Start, Newer, Last, TypeOK
  <2>. QED BY <2>1, <2>2, QuietStamps
<1>3. ASSUME NEW n \in Mortals, Crash(n) PROVE StampInv'
  <2>. n \in Node
    BY FederationAssumption
  <2>1. \A k \in Key : \A m \in Node : rows'[m][k] \in {rows[m][k], NoRow}
    BY <1>3 DEF Crash, EmptyTable, TypeOK
  <2>2. \A k \in Key : Copies(k)' \subseteq Copies(k) \cup {NoRow}
    BY <1>3, <2>1 DEF Crash, Copies
  <2>3. \A m \in Node : ~Newer(Last(m), Last(m)')
    BY <1>0, <1>3 DEF Crash, Newer, Last
  <2>. QED BY <2>2, <2>3, QuietStamps
<1>4. ASSUME NEW n \in Node, NEW msg \in net, RecvSync(n, msg) PROVE StampInv'
  <2>1. ASSUME NEW k \in Key, NEW m \in Node
        PROVE  rows'[m][k] \in Copies(k)
    <3>1. k[1] \in Node /\ k[2] \in Slot
      BY DEF Key
    <3>2. rows[n][k] \in RemoteVm \cup {NoRow} /\ msg.vms[k[2]] \in RemoteVm \cup {NoRow}
      BY <3>1 DEF TypeOK, Table, Sync
    <3>3. CASE m # n
      BY <1>4, <3>3 DEF RecvSync, TypeOK, Copies
    <3>4. CASE m = n /\ k[1] # msg.from
      BY <1>4, <3>4 DEF RecvSync, TypeOK, Copies
    <3>5. CASE m = n /\ k[1] = msg.from
      <4>1. rows'[n][k] = Merge(n, k[1], rows[n][k], msg.vms[k[2]])
        BY <1>4, <3>5 DEF RecvSync, TypeOK
      <4>2. rows'[n][k] \in {rows[n][k], msg.vms[k[2]]}
        BY <3>1, <3>2, <4>1, MergeFacts
      <4>. QED BY <3>5, <4>2 DEF Copies
    <3>. QED BY <3>3, <3>4, <3>5
  <2>2. \A k \in Key : Copies(k)' \subseteq Copies(k) \cup {NoRow}
    BY <1>4, <2>1 DEF RecvSync, Copies
  <2>3. \A m \in Node : ~Newer(Last(m), Last(m)')
    BY <1>0, <1>4 DEF RecvSync, Newer, Last
  <2>. QED BY <2>2, <2>3, QuietStamps
<1>5. ASSUME NEW n \in Supervisors, NEW m \in Node, ViewChange(n, m) PROVE StampInv'
  BY <1>1, <1>5 DEF ViewChange
<1>6. ASSUME NEW n \in Node, NEW t \in Task, Operation(n, t) PROVE StampInv'
  BY <1>1, <1>6, OperationFacts DEF Effect, Apply
<1>7. ASSUME NEW n \in Node, NEW t \in Task, TaskStep(n, t) PROVE StampInv'
  <2>1. CASE TaskSnapshot(n, t)
    BY <1>1, <2>1 DEF TaskSnapshot
  <2>2. CASE TaskPublish(n, t)
    <3>1. epoch[n] # 0 /\ task[n][t].snap \in Slots
      BY <2>2 DEF TaskPublish, TypeOK, Busy, TaskState
    <3>. QED BY <2>2, <3>1, PublishStamps DEF TaskPublish
  <2>. QED BY <1>7, <2>1, <2>2 DEF TaskStep
<1>8. ASSUME NEW n \in Supervisors, SupStep(n) PROVE StampInv'
  <2>. n \in Node
    BY FederationAssumption
  <2>1. CASE SupPublish(n)
    <3>1. epoch[n] # 0 /\ sup[n].snap \in Slots
      BY <2>1 DEF SupPublish, TypeOK, Busy, SupState
    <3>. QED BY <2>1, <3>1, PublishStamps DEF SupPublish
  <2>2. CASE ~SupPublish(n)
    <3>. UNCHANGED <<rows, net, epoch, hlc>>
      BY <1>8, <2>2 DEF SupStep, SupElect, SupScan, SupDedupe, SupCreate, SupFail,
                        SupAttach, SupDone, SupSnapshot
    <3>. QED BY <1>1
  <2>. QED BY <2>1, <2>2
<1>9. CASE UNCHANGED vars
  BY <1>1, <1>9 DEF vars
<1>. QED BY <1>2, <1>3, <1>4, <1>5, <1>6, <1>7, <1>8, <1>9 DEF Next

\* Copies of a row with the same stamp are the same row, on every node and in
\* every sync that may still arrive.
THEOREM UniqueStamps == Spec => []StampsIdentifyRows
<1>1. StampInv => StampsIdentifyRows
  BY DEF StampInv
<1>. QED BY <1>1, TypeInvariant, StampInit, StampNext, PTL DEF Spec

---------------------------------------------------------------------------
(* Rows of peers only get newer. *)

LEMMA NewerIrreflexive ==
  ASSUME NEW r \in RemoteVm \cup {NoRow} PROVE ~Newer(r, r)
  BY DEF Newer, RemoteVm, NoRow

LEMMA RegressStep ==
  TypeInv /\ [Next]_vars =>
    \A n \in Node, k \in Key :
      (up[n] /\ up'[n] /\ k[1] # n) => ~Newer(rows[n][k], rows'[n][k])
<1>. SUFFICES ASSUME TypeInv, [Next]_vars, NEW n \in Node, NEW k \in Key,
                     up[n], up'[n], k[1] # n
              PROVE  ~Newer(rows[n][k], rows'[n][k])
  OBVIOUS
<1>. USE DEF TypeInv
<1>1. k[1] \in Node /\ k[2] \in Slot
  BY DEF Key
<1>2. rows[n][k] \in RemoteVm \cup {NoRow}
  BY DEF TypeOK, Table
<1>3. ASSUME rows'[n][k] = rows[n][k] PROVE ~Newer(rows[n][k], rows'[n][k])
  BY <1>2, <1>3, NewerIrreflexive
<1>4. ASSUME NEW m \in Node, epoch[m] # 0, NEW snap \in Slots, Publish(m, snap)
      PROVE  rows'[n][k] = rows[n][k]
  <2>1. epoch[m] \in Nat \ {0} /\ hlc[m] + 1 \in Nat /\ rows[m] \in Table
    BY <1>4, FederationAssumption DEF TypeOK
  <2>. DEFINE T == SetLocal(m, rows[m], snap, epoch[m], hlc[m] + 1)
  <2>2. \A q \in Key : q[1] # m => T[q] = rows[m][q]
    BY DEF SetLocal
  <2>. HIDE DEF T
  <2>3. rows' = [rows EXCEPT ![m] = T]
    BY <1>4 DEF Publish, T
  <2>. QED BY <2>2, <2>3 DEF TypeOK
<1>5. ASSUME NEW m \in Mortals, Crash(m) PROVE rows'[n][k] = rows[n][k]
  BY <1>5 DEF Crash, TypeOK
<1>6. ASSUME NEW m \in Node, NEW msg \in net, RecvSync(m, msg)
      PROVE  ~Newer(rows[n][k], rows'[n][k])
  <2>1. CASE m # n \/ k[1] # msg.from
    BY <1>3, <1>6, <2>1 DEF RecvSync, TypeOK
  <2>2. CASE m = n /\ k[1] = msg.from
    <3>1. msg.vms[k[2]] \in RemoteVm \cup {NoRow}
      BY <1>1 DEF TypeOK, Sync
    <3>2. rows'[n][k] = Merge(n, k[1], rows[n][k], msg.vms[k[2]])
      BY <1>6, <2>2 DEF RecvSync, TypeOK
    <3>. QED BY <1>1, <1>2, <3>1, <3>2, MergeFacts
  <2>. QED BY <2>1, <2>2
<1>7. ASSUME NEW m \in Node, NEW t \in Task, Operation(m, t) PROVE rows' = rows
  BY <1>7, OperationFacts DEF Effect, Apply
<1>8. ASSUME NEW m \in Node, NEW t \in Task, TaskStep(m, t) PROVE rows'[n][k] = rows[n][k]
  <2>1. CASE TaskSnapshot(m, t)
    BY <2>1 DEF TaskSnapshot
  <2>2. CASE TaskPublish(m, t)
    <3>1. epoch[m] # 0 /\ task[m][t].snap \in Slots
      BY <2>2 DEF TaskPublish, TypeOK, Busy, TaskState
    <3>. QED BY <1>4, <2>2, <3>1 DEF TaskPublish
  <2>. QED BY <1>8, <2>1, <2>2 DEF TaskStep
<1>9. ASSUME NEW m \in Supervisors, SupStep(m) PROVE rows'[n][k] = rows[n][k]
  <2>. m \in Node
    BY FederationAssumption
  <2>1. CASE SupPublish(m)
    <3>1. epoch[m] # 0 /\ sup[m].snap \in Slots
      BY <2>1 DEF SupPublish, TypeOK, Busy, SupState
    <3>. QED BY <1>4, <2>1, <3>1 DEF SupPublish
  <2>2. CASE ~SupPublish(m)
    <3>. rows' = rows
      BY <1>9, <2>2 DEF SupStep, SupElect, SupScan, SupDedupe, SupCreate, SupFail,
                        SupAttach, SupDone, SupSnapshot
    <3>. QED OBVIOUS
  <2>. QED BY <2>1, <2>2
<1>10. CASE UNCHANGED vars
  BY <1>3, <1>10 DEF vars
<1>11. ASSUME NEW m \in Node, Start(m) PROVE rows' = rows
  BY <1>11 DEF Start
<1>12. ASSUME NEW m \in Supervisors, NEW p \in Node, ViewChange(m, p) PROVE rows' = rows
  BY <1>12 DEF ViewChange
<1>. QED BY <1>3, <1>5, <1>6, <1>7, <1>8, <1>9, <1>10, <1>11, <1>12 DEF Next

\* A running node never replaces a peer's row by an older one.
THEOREM NoRegress == Spec => RowsNeverRegress
<1>. QED BY TypeInvariant, RegressStep, PTL DEF Spec, RowsNeverRegress

---------------------------------------------------------------------------
(* Recovery.  The labels the supervisor has read before its loop stay good   *)
(* enough during the loop: an annotated label it has not seen is on the host *)
(* only if the pass itself made it, since operators annotate nothing.        *)

Has(n, l) == \E i \in Slot : host[n][i].label = l

PassOf(n) ==
  sup[n].pc \in {"create", "attach"} =>
    \A x \in sup[n].orphans :
      LET l == NewLabel(x.vm, x.key[1]) IN
      (l[2] # NoOwner /\ Has(n, l)) => l \in sup[n].made

PassInv == \A n \in Node : PassOf(n)

LEMMA PassNext == TypeInv /\ PassInv /\ [Next]_vars => PassInv'
<1>. SUFFICES ASSUME TypeInv, PassInv, [Next]_vars PROVE PassInv'
  OBVIOUS
<1>. USE DEF TypeInv
<1>0. ASSUME NEW m \in Node, sup'[m] = sup[m], host'[m] = host[m] PROVE PassOf(m)'
  BY <1>0 DEF PassInv, PassOf, Has
\* A step that neither moves a supervisor nor adds annotated labels.
<1>1. ASSUME sup' = sup,
             \A n \in Node, l \in VmLabel : (l[2] # NoOwner /\ Has(n, l)') => Has(n, l)
      PROVE  PassInv'
  <2>. SUFFICES ASSUME NEW n \in Node, sup[n].pc \in {"create", "attach"}, NEW x \in sup[n].orphans,
                       NewLabel(x.vm, x.key[1])[2] # NoOwner, Has(n, NewLabel(x.vm, x.key[1]))'
                PROVE  NewLabel(x.vm, x.key[1]) \in sup[n].made
    BY <1>1 DEF PassInv, PassOf
  <2>1. x.vm \in Vm /\ x.key[1] \in Node
    BY DEF TypeOK, SupState, Key
  <2>2. NewLabel(x.vm, x.key[1]) \in VmLabel
    BY <2>1, NewLabelType
  <2>3. Has(n, NewLabel(x.vm, x.key[1]))
    BY <1>1, <2>2
  <2>. QED BY <2>3 DEF PassInv, PassOf
<1>2. ASSUME host' = host, sup' = sup PROVE PassInv'
  BY <1>1, <1>2 DEF Has
<1>3. ASSUME NEW n \in Mortals, Crash(n) PROVE PassInv'
  <2>. n \in Node
    BY FederationAssumption
  <2>1. PassOf(n)'
    BY <1>3 DEF Crash, SupIdle, TypeOK, PassOf
  <2>2. \A m \in Node \ {n} : sup'[m] = sup[m] /\ host'[m] = host[m]
    BY <1>3 DEF Crash, TypeOK
  <2>. QED BY <1>0, <2>1, <2>2 DEF PassInv
<1>4. ASSUME NEW n \in Node, NEW t \in Task, Operation(n, t) PROVE PassInv'
  <2>1. PICK i \in Slot, vm \in Vm \cup {NoVm} :
          /\ Apply(n, t, i, vm)
          /\ \/ vm.label = host[n][i].label /\ host[n][i] # NoVm
             \/ vm = NoVm /\ host[n][i] # NoVm
             \/ \E l \in Label : vm.label = <<l, NoOwner>>
    BY <1>4, OperationFacts DEF Effect
  <2>2. sup' = sup /\ host' = [host EXCEPT ![n] = [host[n] EXCEPT ![i] = vm]]
    BY <2>1 DEF Apply, TypeOK
  <2>3. ASSUME NEW m \in Node, NEW l \in VmLabel, l[2] # NoOwner, Has(m, l)'
        PROVE  Has(m, l)
    <3>1. PICK j \in Slot : host'[m][j].label = l
      BY <2>3 DEF Has
    <3>2. CASE m # n \/ j # i
      BY <2>2, <3>1, <3>2 DEF Has, TypeOK, Slots
    <3>3. CASE m = n /\ j = i
      <4>1. vm.label = l
        BY <2>2, <3>1, <3>3 DEF TypeOK, Slots
      <4>2. vm # NoVm
        BY <4>1 DEF NoVm, VmLabel
      <4>3. \A z \in Label : vm.label # <<z, NoOwner>>
        BY <2>3, <4>1
      <4>. QED BY <2>1, <3>3, <4>1, <4>2, <4>3 DEF Has
    <3>. QED BY <3>2, <3>3
  <2>. QED BY <1>1, <2>2, <2>3
<1>5. ASSUME NEW n \in Supervisors, SupStep(n) PROVE PassInv'
  <2>. n \in Node /\ sup[n] \in SupState
    BY FederationAssumption DEF TypeOK
  <2>1. \A m \in Node \ {n} : sup'[m] = sup[m] /\ host'[m] = host[m]
    BY <1>5 DEF SupStep, SupElect, SupScan, SupDedupe, SupCreate, SupFail, SupAttach,
                SupDone, SupSnapshot, SupPublish, TypeOK
  <2>. SUFFICES PassOf(n)'
    BY <1>0, <2>1 DEF PassInv
  <2>2. CASE SupElect(n) \/ SupScan(n) \/ SupFail(n) \/ SupDone(n) \/ SupSnapshot(n) \/ SupPublish(n)
    <3>1. sup'[n].pc \notin {"create", "attach"}
      <4>1. CASE SupElect(n)
        BY <4>1 DEF SupElect, SupState, TypeOK
      <4>2. CASE SupSnapshot(n)
        BY <4>2 DEF SupSnapshot, SupState, TypeOK
      <4>3. CASE SupScan(n)
        BY <4>3 DEF SupScan, SupIdle, SupState, TypeOK
      <4>4. CASE SupDone(n)
        BY <4>4 DEF SupDone, SupIdle, TypeOK
      <4>5. CASE SupFail(n) \/ SupPublish(n)
        BY <4>5 DEF SupFail, SupPublish, SupIdle, TypeOK
      <4>. QED BY <2>2, <4>1, <4>2, <4>3, <4>4, <4>5
    <3>. QED BY <3>1 DEF PassOf
  <2>3. CASE SupDedupe(n)
    <3>1. /\ sup'[n].orphans = {x \in sup[n].orphans : NewLabel(x.vm, x.key[1]) \notin ExistingLabels(n)}
          /\ host' = host
      BY <2>3 DEF SupDedupe, TypeOK, SupState
    <3>2. ASSUME NEW x \in sup'[n].orphans, Has(n, NewLabel(x.vm, x.key[1])) PROVE FALSE
      <4>1. x.vm \in Vm /\ x.key[1] \in Node
        BY <3>1 DEF SupState, Key
      <4>2. NewLabel(x.vm, x.key[1]) \in VmLabel
        BY <4>1, NewLabelType
      <4>3. PICK i \in Slot : host[n][i].label = NewLabel(x.vm, x.key[1])
        BY <3>2 DEF Has
      <4>4. i \in Used(n)
        <5>1. NoVm.label \notin VmLabel
          BY DEF NoVm, VmLabel
        <5>. QED BY <4>2, <4>3, <5>1 DEF Used, Free
      <4>. QED BY <3>1, <4>3, <4>4 DEF ExistingLabels
    <3>. QED BY <3>1, <3>2 DEF PassOf, Has
  <2>4. CASE SupCreate(n)
    <3>1. PICK i \in FirstFree(n), y \in FirstOrphan(sup[n].orphans) :
            /\ host' = [host EXCEPT ![n][i] =
                 [label |-> NewLabel(y.vm, y.key[1]), policy |-> "Never",
                  state |-> "created", volumes |-> {}]]
            /\ sup' = [sup EXCEPT ![n] =
                 [pc |-> IF y.vm.volumes = {} THEN "create" ELSE "attach",
                  orphans |-> sup[n].orphans \ {y},
                  made |-> sup[n].made \cup {NewLabel(y.vm, y.key[1])},
                  slot |-> i, volumes |-> y.vm.volumes, snap |-> EmptySlots]]
      BY <2>4 DEF SupCreate
    <3>. DEFINE new == NewLabel(y.vm, y.key[1])
    <3>2. sup'[n].orphans = sup[n].orphans \ {y} /\ sup'[n].made = sup[n].made \cup {new}
      BY <3>1 DEF TypeOK
    <3>3. \A j \in Slot : host'[n][j].label \in {host[n][j].label, new}
      BY <3>1 DEF TypeOK, Slots
    <3>4. sup[n].pc = "create"
      BY <2>4 DEF SupCreate
    <3>. HIDE DEF new
    <3>5. ASSUME NEW l, Has(n, l)' PROVE Has(n, l) \/ l = new
      BY <3>3, <3>5 DEF Has
    <3>. QED BY <3>2, <3>4, <3>5 DEF PassInv, PassOf
  <2>5. CASE SupAttach(n)
    <3>1. sup'[n].orphans = sup[n].orphans /\ sup'[n].made = sup[n].made /\ sup[n].pc = "attach"
      BY <2>5 DEF SupAttach, TypeOK, SupState
    <3>2. \A j \in Slot : host'[n][j].label = host[n][j].label
      <4>1. ASSUME sup[n].slot \in Used(n)
            PROVE  sup[n].slot \in Slot /\ host[n][sup[n].slot] \in Vm
        BY <4>1 DEF Used, Free, TypeOK, Slots
      <4>. QED BY <2>5, <4>1 DEF SupAttach, TypeOK, Slots, Vm
    <3>3. ASSUME NEW l, Has(n, l)' PROVE Has(n, l)
      BY <3>2, <3>3 DEF Has
    <3>. QED BY <3>1, <3>3 DEF PassInv, PassOf
  <2>. QED BY <1>5, <2>2, <2>3, <2>4, <2>5 DEF SupStep
<1>6. ASSUME NEW n \in Node, NEW t \in Task, TaskStep(n, t) PROVE PassInv'
  BY <1>2, <1>6 DEF TaskStep, TaskSnapshot, TaskPublish
<1>7. ASSUME NEW n \in Node, Start(n) PROVE PassInv'
  BY <1>2, <1>7 DEF Start
<1>8. ASSUME NEW n \in Supervisors, NEW m \in Node, ViewChange(n, m) PROVE PassInv'
  BY <1>2, <1>8 DEF ViewChange
<1>9. ASSUME NEW n \in Node, NEW msg \in net, RecvSync(n, msg) PROVE PassInv'
  BY <1>2, <1>9 DEF RecvSync
<1>10. CASE UNCHANGED vars
  BY <1>2, <1>10 DEF vars
<1>. QED BY <1>3, <1>4, <1>5, <1>6, <1>7, <1>8, <1>9, <1>10 DEF Next

Repeated(n, l, o, i, j) ==
  /\ host[n][i].label = <<l, o>>
  /\ host[n][j] = NoVm
  /\ host'[n][j].label = <<l, o>>

LEMMA RepeatStep ==
  TypeInv /\ PassInv /\ [Next]_vars =>
    \A n \in Node, l \in Label, o \in Node, i, j \in Slot :
      Repeated(n, l, o, i, j) => <<l, o>> \in sup[n].made
<1>. SUFFICES ASSUME TypeInv, PassInv, [Next]_vars, NEW n \in Node, NEW l \in Label, NEW o \in Node,
                     NEW i \in Slot, NEW j \in Slot, Repeated(n, l, o, i, j)
              PROVE  <<l, o>> \in sup[n].made
  OBVIOUS
<1>. USE DEF TypeInv
<1>1. /\ host[n][i].label = <<l, o>>
      /\ host[n][j] = NoVm
      /\ host'[n][j].label = <<l, o>>
  BY DEF Repeated
<1>2. o # NoOwner
  BY FederationAssumption DEF NoOwner
<1>3. host'[n][j] # host[n][j]
  <2>1. <<l, o>> \in VmLabel /\ NoVm.label \notin VmLabel
    BY DEF NoVm, VmLabel
  <2>. QED BY <1>1, <2>1
<1>4. ASSUME NEW m \in Mortals, Crash(m) PROVE FALSE
  <2>1. host'[n][j] \in {host[n][j], NoVm}
    BY <1>4 DEF Crash, EmptySlots, TypeOK
  <2>. QED BY <1>1, <1>3, <2>1
<1>5. ASSUME NEW m \in Node, NEW t \in Task, Operation(m, t) PROVE FALSE
  <2>1. PICK s \in Slot, vm \in Vm \cup {NoVm} :
          /\ Apply(m, t, s, vm)
          /\ \/ vm.label = host[m][s].label /\ host[m][s] # NoVm
             \/ vm = NoVm /\ host[m][s] # NoVm
             \/ \E z \in Label : vm.label = <<z, NoOwner>>
    BY <1>5, OperationFacts DEF Effect
  <2>2. host' = [host EXCEPT ![m] = [host[m] EXCEPT ![s] = vm]]
    BY <2>1 DEF Apply, TypeOK
  <2>3. m = n /\ s = j /\ vm = host'[n][j]
    BY <1>3, <2>2 DEF TypeOK, Slots
  <2>4. PICK z \in Label : vm.label = <<z, NoOwner>>
    BY <1>1, <2>1, <2>3
  <2>. QED BY <1>1, <1>2, <2>3, <2>4
<1>6. ASSUME NEW m \in Supervisors, SupStep(m) PROVE <<l, o>> \in sup[n].made
  <2>. m \in Node
    BY FederationAssumption
  <2>1. CASE SupCreate(m)
    <3>1. PICK s \in FirstFree(m), x \in FirstOrphan(sup[m].orphans) :
            host' = [host EXCEPT ![m][s] =
              [label |-> NewLabel(x.vm, x.key[1]), policy |-> "Never",
               state |-> "created", volumes |-> {}]]
      BY <2>1 DEF SupCreate
    <3>2. m = n /\ s = j /\ host'[n][j].label = NewLabel(x.vm, x.key[1])
      BY <1>3, <3>1 DEF TypeOK, Slots
    <3>3. x \in sup[n].orphans /\ sup[n].pc = "create"
      BY <2>1, <3>2 DEF FirstOrphan, SupCreate
    <3>4. NewLabel(x.vm, x.key[1]) = <<l, o>> /\ Has(n, <<l, o>>) /\ <<l, o>>[2] # NoOwner
      BY <1>1, <1>2, <3>2 DEF Has
    <3>. QED BY <3>3, <3>4 DEF PassInv, PassOf
  <2>2. CASE SupAttach(m)
    <3>1. host[n][j] = host'[n][j]
      <4>1. sup[m].slot \in Used(m) => sup[m].slot \in Slot /\ host[m][sup[m].slot] # NoVm
        BY DEF Used, Free
      <4>. QED BY <1>1, <2>2, <4>1 DEF SupAttach, TypeOK, Slots
    <3>. QED BY <1>3, <3>1
  <2>3. CASE ~SupCreate(m) /\ ~SupAttach(m)
    <3>. host' = host
      BY <1>6, <2>3 DEF SupStep, SupElect, SupScan, SupDedupe, SupFail, SupDone, SupSnapshot, SupPublish
    <3>. QED BY <1>3
  <2>. QED BY <2>1, <2>2, <2>3
<1>7. ASSUME host' = host PROVE FALSE
  BY <1>3, <1>7
<1>8. ASSUME NEW m \in Node, NEW t \in Task, TaskStep(m, t) PROVE host' = host
  BY <1>8 DEF TaskStep, TaskSnapshot, TaskPublish
<1>9. ASSUME NEW m \in Node, Start(m) PROVE host' = host
  BY <1>9 DEF Start
<1>10. ASSUME NEW m \in Supervisors, NEW p \in Node, ViewChange(m, p) PROVE host' = host
  BY <1>10 DEF ViewChange
<1>11. ASSUME NEW m \in Node, NEW msg \in net, RecvSync(m, msg) PROVE host' = host
  BY <1>11 DEF RecvSync
<1>12. ASSUME UNCHANGED vars PROVE host' = host
  BY <1>12 DEF vars
<1>. QED BY <1>4, <1>5, <1>6, <1>7, <1>8, <1>9, <1>10, <1>11, <1>12 DEF Next

\* The supervisor of a node recreates a VM of a lost node once: a further VM with
\* the same annotated label comes only from the pass that made the first.
THEOREM RecoveredOnce == Spec => NoRepeatedRecovery
<1>1. Init => PassInv
  BY DEF Init, PassInv, PassOf, SupIdle
<1>2. TypeInv /\ PassInv /\ [Next]_vars =>
        [\A n \in Node, l \in Label, o \in Node, i, j \in Slot :
           (/\ host[n][i].label = <<l, o>>
            /\ host[n][j] = NoVm
            /\ host'[n][j].label = <<l, o>>)
           => <<l, o>> \in sup[n].made]_vars
  BY RepeatStep DEF Repeated
<1>. QED BY <1>1, <1>2, TypeInvariant, PassNext, PTL DEF Spec, NoRepeatedRecovery
=============================================================================
