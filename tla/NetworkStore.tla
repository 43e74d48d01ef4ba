---------------------------- MODULE NetworkStore ----------------------------
(***************************************************************************)
(* The networking store of a node (celvault/src/network.rs): virtual       *)
(* networks with an address allocator, NICs, security groups and load      *)
(* balancers.  Every operation runs under one mutex, so the store is a     *)
(* value and an operation maps it to the next one; the module has no       *)
(* variables of its own.                                                   *)
(***************************************************************************)
EXTENDS Integers, FiniteSets, Sequences, FiniteSetsExt, Functions

CONSTANTS
  AddrBits,              \* width of an address; the code's is 32
  MaxNetworks,           \* bound on next_net
  MaxNics,               \* bound on the NIC counter of a network
  MaxSgs,                \* bound on next_sg
  MaxLbs,                \* bound on next_lb
  MAX_NICS_PER_NETWORK,
  NicVm                  \* the vm_ids NICs are attached to

ASSUME NetworkAssumption ==
  /\ AddrBits \in Nat
  /\ MaxNetworks \in Nat /\ MaxNics \in Nat /\ MaxSgs \in Nat /\ MaxLbs \in Nat
  /\ MAX_NICS_PER_NETWORK \in Nat

\* What the proofs use of powers of two.
ASSUME PowersAssumption ==
  \A p \in 0..AddrBits : 2^p \in Nat /\ p < 2^p /\ 2^p * 2^(AddrBits - p) = 2^AddrBits

Addr == 0..(2^AddrBits - 1)
NoAddr == -1

---------------------------------------------------------------------------
(* Cidr4 *)

Cidr4 == [base : Addr, prefix_len : 0..AddrBits]

BlockSize(c) == 2^(AddrBits - c.prefix_len)

\* Cidr4::parse: degenerate prefixes are refused, the address is masked.
Parses(prefix_len) == prefix_len > 0 /\ prefix_len < AddrBits

Parse(ip, prefix_len) ==
  [base |-> ip - (ip % 2^(AddrBits - prefix_len)), prefix_len |-> prefix_len]

Capacity(c) == Max({BlockSize(c) - 2, 0})

NthHost(c, n) == c.base + n

Hosts(c) == {NthHost(c, n) : n \in 1..Capacity(c)}

Contains(c, addr) == addr - (addr % BlockSize(c)) = c.base

---------------------------------------------------------------------------
(* The store: struct MemInner. *)

NetworkId == 1..MaxNetworks
NicId == NetworkId \X (1..MaxNics)     \* "<network>/nic<counter>"
SgId == 1..MaxSgs
LbId == 1..MaxLbs

Nic == [network : NetworkId, vm : NicVm, ip : Addr]
LbBackend == [vm : NicVm, ip : Addr]
LoadBalancer == [network : NetworkId, vip : Addr, backends : Seq(LbBackend)]

IsNetworkStore(g) ==
  /\ DOMAIN g = {"next_net", "next_sg", "next_lb", "next_nic", "used_ips", "networks", "nics", "sgs", "lbs"}
  /\ g.next_net \in 0..MaxNetworks
  /\ g.next_sg \in 0..MaxSgs
  /\ g.next_lb \in 0..MaxLbs
  /\ DOMAIN g.networks \subseteq 1..g.next_net
  /\ \A n \in DOMAIN g.networks : g.networks[n] \in Cidr4
  /\ DOMAIN g.next_nic = DOMAIN g.networks
  /\ DOMAIN g.used_ips = DOMAIN g.networks
  /\ \A n \in DOMAIN g.networks :
       /\ g.next_nic[n] \in 0..MaxNics
       /\ DOMAIN g.used_ips[n] \subseteq Addr
       /\ \A a \in DOMAIN g.used_ips[n] : g.used_ips[n][a] \in NicId
  /\ DOMAIN g.nics \subseteq NicId
  /\ \A i \in DOMAIN g.nics : g.nics[i] \in Nic
  /\ g.sgs \subseteq 1..g.next_sg
  /\ DOMAIN g.lbs \subseteq 1..g.next_lb
  /\ \A l \in DOMAIN g.lbs : g.lbs[l] \in LoadBalancer

Empty == [x \in {} |-> 0]

NewNetworkStore ==
  [next_net |-> 0, next_sg |-> 0, next_lb |-> 0, next_nic |-> Empty, used_ips |-> Empty,
   networks |-> Empty, nics |-> Empty, sgs |-> {}, lbs |-> Empty]

\* BTreeMap::insert and BTreeMap::remove
Insert(f, k, v) == [x \in DOMAIN f \cup {k} |-> IF x = k THEN v ELSE f[x]]
Remove(f, k) == Restrict(f, DOMAIN f \ {k})

---------------------------------------------------------------------------
(* Networks. *)

CreateNetwork(g, cidr) ==
  LET n == g.next_net + 1 IN
  [g EXCEPT !.next_net = n,
            !.networks = Insert(@, n, cidr),
            !.next_nic = Insert(@, n, 0),
            !.used_ips = Insert(@, n, Empty)]

MayDeleteNetwork(g, n) == n \in DOMAIN g.used_ips => DOMAIN g.used_ips[n] = {}

DeleteNetwork(g, n) ==
  [g EXCEPT !.networks = Remove(@, n),
            !.next_nic = Remove(@, n),
            !.used_ips = Remove(@, n),
            !.lbs = Restrict(@, {l \in DOMAIN @ : @[l].network # n})]

---------------------------------------------------------------------------
(* NICs. *)

FreeHosts(g, n) == Hosts(g.networks[n]) \ DOMAIN g.used_ips[n]

\* Fault: the requested address is not compared with the used ones.
MayTake(g, n, ip) == Contains(g.networks[n], ip)

\* A requested address has to lie in the block and be free.
MayRequest(g, n, ip) == Contains(g.networks[n], ip) /\ ip \notin DOMAIN g.used_ips[n]

MayAttachNic(g, n, ip) ==
  /\ n \in DOMAIN g.networks
  /\ Cardinality(DOMAIN g.used_ips[n]) < MAX_NICS_PER_NETWORK
  /\ IF ip = NoAddr THEN FreeHosts(g, n) # {} ELSE MayRequest(g, n, ip)

Chosen(g, n, ip) == IF ip = NoAddr THEN Min(FreeHosts(g, n)) ELSE ip

NextNicId(g, n) == <<n, g.next_nic[n] + 1>>

AttachNic(g, n, vm, ip) ==
  LET id == NextNicId(g, n)
      addr == Chosen(g, n, ip)
  IN [g EXCEPT !.next_nic[n] = @ + 1,
               !.used_ips[n] = Insert(@, addr, id),
               !.nics = Insert(@, id, [network |-> n, vm |-> vm, ip |-> addr])]

DetachNic(g, id) ==
  IF id \notin DOMAIN g.nics THEN g
  ELSE LET nic == g.nics[id]
           n == nic.network
       IN [g EXCEPT !.nics = Remove(@, id),
                    !.used_ips = IF n \in DOMAIN @ THEN Insert(@, n, Remove(@[n], nic.ip)) ELSE @]

---------------------------------------------------------------------------
(* Security groups and load balancers. *)

\* A rule with an empty port range is refused before the store is locked.
ValidRule(r) == r.port_min <= r.port_max

CreateSecurityGroup(g) ==
  [g EXCEPT !.next_sg = @ + 1, !.sgs = @ \cup {g.next_sg + 1}]

DeleteSecurityGroup(g, s) == [g EXCEPT !.sgs = @ \ {s}]

MayCreateLb(g, n, vip, backends) ==
  /\ n \in DOMAIN g.networks
  /\ Contains(g.networks[n], vip)
  /\ \A i \in DOMAIN backends : Contains(g.networks[n], backends[i].ip)

CreateLb(g, n, vip, backends) ==
  [g EXCEPT !.next_lb = @ + 1,
            !.lbs = Insert(@, g.next_lb + 1, [network |-> n, vip |-> vip, backends |-> backends])]

DeleteLb(g, l) == [g EXCEPT !.lbs = Remove(@, l)]

\* LoadBalancer::pick of a balancer with n backends (indices from 1): the tick in
\* turn, or the first one with the fewest connections.
PickRoundRobin(n, tick) == (tick % n) + 1

PickLeastConn(n, conns) ==
  Min({i \in 1..n : \A j \in 1..n : conns[i] <= conns[j]})

---------------------------------------------------------------------------

\* The NICs and the allocator agree: an address of a network has one holder,
\* which is a NIC of that network, and lies in the network's block; no network
\* disappears under a NIC or a load balancer.
NetworkSound(g) ==
  /\ \A i \in DOMAIN g.nics :
       LET nic == g.nics[i] IN
       /\ nic.network \in DOMAIN g.networks
       /\ nic.ip \in DOMAIN g.used_ips[nic.network]
       /\ g.used_ips[nic.network][nic.ip] = i
       /\ Contains(g.networks[nic.network], nic.ip)
  /\ \A n \in DOMAIN g.used_ips : \A a \in DOMAIN g.used_ips[n] :
       LET i == g.used_ips[n][a] IN
       i \in DOMAIN g.nics /\ g.nics[i].network = n /\ g.nics[i].ip = a
  /\ \A l \in DOMAIN g.lbs : g.lbs[l].network \in DOMAIN g.networks

=============================================================================
