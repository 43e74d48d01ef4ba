-------------------------------- MODULE K8s ---------------------------------
(***************************************************************************)
(* The Kubernetes personality (celmesh/src/k8s.rs) on one node, driving    *)
(* the host of another by the mesh's RPC (celmesh/src/mesh.rs, invoke and  *)
(* handle_envelope): a request with an id, a pending entry, a response     *)
(* matched by id, a timeout.  Datagrams may be lost and delayed.           *)
(***************************************************************************)
EXTENDS VmHost

CONSTANTS
  Workers,       \* spec.workers
  K8sPrefixes,   \* prefix lengths of spec.cidr
  MaxNet         \* bound on the datagrams under way

ASSUME K8sAssumption == Workers \in Nat \ {0} /\ K8sPrefixes \subseteq Nat /\ MaxNet \in Nat

VARIABLES
  net,       \* requests and responses under way
  serving,   \* the request the receiver is in the host with, 0 if none
  next_req,  \* Mesh::next_req
  pending,   \* the request the caller is waiting for, 0 if none
  k8s        \* K8sCluster::create and destroy: progress and handle

rpcVars == <<net, serving, next_req, pending, k8s>>
vars == <<hostVars, rpcVars>>

MaxReq == 2 + 3 * (Workers + 1) + 2 + 3 * (Workers + 1)

\* pc names the RPC to make next; i counts the nodes, 1 is the control plane.
NoCluster == [pc |-> "none", i |-> 1, prefix_len |-> 0, network |-> 0, lb |-> 0, vm |-> 0,
              nodes |-> <<>>, err |-> FALSE]
Creation == {"network", "vm", "nic", "start", "lb"}
Destruction == {"del_lb", "detach", "stop", "delete", "del_network"}
Calling == Creation \cup Destruction

Init ==
  /\ HostInit
  /\ net = {}
  /\ serving = 0
  /\ next_req = 1
  /\ pending = 0
  /\ k8s = NoCluster

---------------------------------------------------------------------------
(* Mesh::invoke and handle_envelope. *)

Backends == [i \in 1..Workers |-> [vm |-> k8s.nodes[i + 1].vm, ip |-> k8s.nodes[i + 1].ip]]

Cidr == Parse(0, k8s.prefix_len)

\* Fault: the front end takes the first address.
FirstHost == NthHost(Cidr, 1)

\* The front-end address: the highest usable one of the block.
Vip == NthHost(Cidr, Capacity(Cidr))

\* The RPC of the present step.
NextOp ==
  CASE k8s.pc = "network" -> [kind |-> "create_network", ip |-> 0, prefix_len |-> k8s.prefix_len]
    [] k8s.pc = "vm" -> [kind |-> "create", cost |-> 0]
    [] k8s.pc = "nic" -> [kind |-> "attach_nic", network |-> k8s.network, vm |-> k8s.vm, ip |-> NoAddr]
    [] k8s.pc = "start" -> [kind |-> "start", vm |-> k8s.vm]
    [] k8s.pc = "lb" -> [kind |-> "create_lb", network |-> k8s.network, vip |-> Vip, backends |-> Backends]
    [] k8s.pc = "del_lb" -> [kind |-> "delete_lb", lb |-> k8s.lb]
    [] k8s.pc = "detach" -> [kind |-> "detach_nic", nic |-> k8s.nodes[k8s.i].nic]
    [] k8s.pc = "stop" -> [kind |-> "stop", vm |-> k8s.nodes[k8s.i].vm]
    [] k8s.pc = "delete" -> [kind |-> "delete", vm |-> k8s.nodes[k8s.i].vm]
    [] k8s.pc = "del_network" -> [kind |-> "delete_network", network |-> k8s.network]

\* Fault: the request counter is not moved on.
ReqKept == next_req

ReqAfter == next_req + 1

\* A fresh id, a pending entry and a request.
Invoke ==
  /\ k8s.pc \in Calling
  /\ pending = 0
  /\ Cardinality(net) < MaxNet
  /\ pending' = next_req
  /\ next_req' = ReqAfter
  /\ net' = net \cup {[type |-> "request", id |-> next_req, op |-> NextOp]}
  /\ UNCHANGED <<hostVars, serving, k8s>>

\* handle_envelope, Payload::Request: the receiver enters the host.
RecvRequest ==
  \E m \in net :
    /\ m.type = "request"
    /\ Handle(Receiver, m.op)
    /\ serving' = m.id
    /\ net' = net \ {m}
    /\ UNCHANGED <<next_req, pending, k8s>>

\* The response, once the host has answered.
SendResponse ==
  /\ task[Receiver].pc = "answer"
  /\ net' = net \cup {[type |-> "response", id |-> serving, op |-> task[Receiver].op,
                       reply |-> task[Receiver].reply]}
  /\ task' = [task EXCEPT ![Receiver] = Idle]
  /\ serving' = 0
  /\ UNCHANGED <<fixed, stores, accounts, next_req, pending, k8s>>

\* A datagram is lost.
Lose ==
  \E m \in net :
    /\ net' = net \ {m}
    /\ UNCHANGED <<hostVars, serving, next_req, pending, k8s>>

---------------------------------------------------------------------------
(* K8sCluster::create and destroy. *)

\* After node i: the next one or the load balancer; when destroying, the network.
NextNode(c) == IF c.i <= Workers THEN [c EXCEPT !.i = @ + 1, !.pc = "vm"] ELSE [c EXCEPT !.pc = "lb"]
NextVictim(c) == IF c.i <= Workers THEN [c EXCEPT !.i = @ + 1, !.pc = "detach"] ELSE [c EXCEPT !.pc = "del_network"]

Failed(c) == [c EXCEPT !.pc = "failed"]

\* create goes on with an answer, and gives up with the first error.
Created(c, r) ==
  IF ~r.ok THEN Failed(c) ELSE
  CASE c.pc = "network" -> [c EXCEPT !.pc = "vm", !.network = r.id]
    [] c.pc = "vm" -> [c EXCEPT !.pc = "nic", !.vm = r.id]
    [] c.pc = "nic" -> [c EXCEPT !.pc = "start", !.nodes = Append(@, [vm |-> c.vm, nic |-> r.id, ip |-> r.ip])]
    [] c.pc = "start" -> NextNode(c)
    [] c.pc = "lb" -> [c EXCEPT !.pc = "up", !.lb = r.id]

\* Fault: errors of the VMs' deletion are ignored like those of stop.
ForgivesDelete(c, r) == ~r.ok /\ c.pc \notin {"stop", "delete"}

\* destroy takes every step, and remembers errors but those of stop.
CountsAsError(c, r) == ~r.ok /\ c.pc # "stop"

Destroyed(c, r) ==
  LET d == [c EXCEPT !.err = @ \/ CountsAsError(c, r)] IN
  CASE c.pc = "del_lb" -> [d EXCEPT !.pc = "detach", !.i = 1]
    [] c.pc = "detach" -> [d EXCEPT !.pc = "stop"]
    [] c.pc = "stop" -> [d EXCEPT !.pc = "delete"]
    [] c.pc = "delete" -> NextVictim(d)
    [] c.pc = "del_network" -> [d EXCEPT !.pc = IF d.err THEN "failed" ELSE "gone"]

Advance(r) == k8s' = IF k8s.pc \in Creation THEN Created(k8s, r) ELSE Destroyed(k8s, r)

\* handle_envelope, Payload::Response: the pending entry's waiter, or a stray.
RecvResponse ==
  \E m \in net :
    /\ m.type = "response"
    /\ net' = net \ {m}
    /\ IF m.id = pending THEN Advance(m.reply) /\ pending' = 0 ELSE UNCHANGED <<k8s, pending>>
    /\ UNCHANGED <<hostVars, serving, next_req>>

\* The wait is over, the send has failed or the target is not Alive.
Timeout ==
  /\ pending # 0
  /\ Advance(NoReply)
  /\ pending' = 0
  /\ UNCHANGED <<hostVars, net, serving, next_req>>

\* An operator asks for a cluster, and later to destroy it.
K8sCreate ==
  /\ mix.k8s
  /\ k8s.pc = "none"
  /\ \E p \in K8sPrefixes : Parses(p) /\ k8s' = [NoCluster EXCEPT !.pc = "network", !.prefix_len = p]
  /\ UNCHANGED <<hostVars, net, serving, next_req, pending>>

K8sDestroy ==
  /\ k8s.pc = "up"
  /\ k8s' = [k8s EXCEPT !.pc = "del_lb"]
  /\ UNCHANGED <<hostVars, net, serving, next_req, pending>>

---------------------------------------------------------------------------

Next ==
  \/ /\ \/ \E t \in Task : Local(t)
        \/ \E t \in Task \cup {Receiver} : Proceed(t)
        \/ Snapshot
        \/ mix.crash /\ Crash
     /\ UNCHANGED rpcVars
  \/ Invoke \/ RecvRequest \/ SendResponse \/ Lose \/ RecvResponse \/ Timeout
  \/ K8sCreate \/ K8sDestroy

Spec == Init /\ [][Next]_vars

---------------------------------------------------------------------------
(* Properties. *)

TypeOK ==
  /\ slots \in [Vm -> Slot]
  /\ IsVolumeStore(vault)
  /\ IsNetworkStore(nets)
  /\ usage \in [vcpus : 0..Quota.vcpus, storage_bytes : 0..Quota.storage_bytes]
  /\ DOMAIN vm_charges \subseteq Vm
  /\ DOMAIN volume_charges \subseteq VolumeId
  /\ pending \in 0..MaxReq
  /\ next_req \in 1..(MaxReq + 1)

\* The address allocator and the NICs agree, whatever clients ask for at once.
AddressesSound == NetworkSound(nets)

\* Snapshots never outlive their volume.
SnapshotsSound == SnapshotsHaveVolumes(vault)

\* Even when an attach and a delete of a volume have crossed and left a VM with
\* an attachment to nothing, no later volume comes into being under that
\* attachment.
AttachmentsNeverAlias ==
  [][\A v \in DOMAIN vault'.rows \ DOMAIN vault.rows : ~Attached(v)]_vars

\* The tenant's usage is what its VMs and volumes cost, plus what is on its way
\* through the wrapper, plus what a crash has left behind, unless two tasks have
\* settled the same id at once.
UsageIsDue == ~raced => usage = Plus(Due, lost)

\* k8s.rs: "after create returns, you have N+1 VMs all attached to one private
\* network with deterministic IPs, plus a load balancer in front of the workers",
\* whose address is nobody else's as long as the block has one to spare.
ClusterAsPromised ==
  k8s.pc = "up" =>
    /\ Len(k8s.nodes) = Workers + 1
    /\ \A i \in 1..(Workers + 1) :
         /\ slots[k8s.nodes[i].vm] # NoVm
         /\ nets.nics[k8s.nodes[i].nic] = [network |-> k8s.network, vm |-> k8s.nodes[i].vm, ip |-> NthHost(Cidr, i)]
    /\ Cardinality({k8s.nodes[i].vm : i \in 1..(Workers + 1)}) = Workers + 1
    /\ {nets.lbs[k8s.lb].backends[PickRoundRobin(Workers, tick)].ip : tick \in 0..(Workers - 1)}
         = {NthHost(Cidr, i) : i \in 2..(Workers + 1)}
    /\ Capacity(Cidr) > Workers + 1 => \A i \in DOMAIN nets.nics : nets.nics[i].ip # Vip

\* A destroy that reports success has left nothing behind.
NothingLeft ==
  k8s.pc = "gone" =>
    /\ k8s.network \notin DOMAIN nets.networks
    /\ k8s.lb \notin DOMAIN nets.lbs
    /\ \A i \in DOMAIN nets.nics : nets.nics[i].network # k8s.network
    /\ \A v \in Vm : slots[v] # NoVm => slots[v].cost # 0

\* The answer a caller takes for its request is the host's answer to it.
AnswersOwnRequest ==
  [][\A m \in net \ net' : m.type = "response" /\ m.id = pending /\ pending' = 0 => m.op = NextOp]_vars

=============================================================================
