------------------------------- MODULE MCK8s --------------------------------
(* The host of a node for TLC: callers in the process are interchangeable. *)
EXTENDS K8s, TLC

Callers == Permutations(Task)

\* The tenant's ceilings.
Ceilings == [vcpus |-> 2, storage_bytes |-> 2]

\* Clients work with VMs and volumes, with snapshots, with networks, or run the
\* Kubernetes personality beside a caller that makes VMs.
Clients(kinds, callers) == [kinds |-> kinds, callers |-> callers, k8s |-> FALSE, crash |-> FALSE]
Workloads == {
  Clients({"create", "start", "stop", "delete"}, 2),
  Clients({"create", "stop", "delete", "create_volume", "delete_volume", "attach_volume", "detach_volume"}, 2),
  [Clients({"create_volume", "delete_volume", "create_snapshot", "delete_snapshot", "restore_snapshot"}, 2) EXCEPT !.crash = TRUE],
  Clients({"create", "create_network", "delete_network", "attach_nic", "detach_nic"}, 2),
  Clients({"create_network", "delete_network", "create_lb", "delete_lb"}, 2),
  [Clients({"create_sg", "delete_sg", "create"}, 2) EXCEPT !.crash = TRUE],
  [Clients({"create"}, 1) EXCEPT !.k8s = TRUE]}

\* Everything, or everything but the making of VMs and volumes.
AllCaps == {"vm_lifecycle_write", "volume_write", "volume_attach", "snapshot_write",
            "network_write", "secgroup_write", "lb_write"}
CapSets == {AllCaps, AllCaps \ {"vm_lifecycle_write", "volume_write"}}

=============================================================================
