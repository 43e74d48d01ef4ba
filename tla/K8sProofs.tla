------------------------------ MODULE K8sProofs ------------------------------
(***************************************************************************)
(* Proofs about a node's host, its stores and the RPC that drives it, for  *)
(* any number of callers, VMs, volumes, networks and workers.              *)
(***************************************************************************)
EXTENDS K8s, SumTheorems, FiniteSetTheorems, WellFoundedInduction, TLAPS

---------------------------------------------------------------------------
(* Numbers and sets of numbers. *)

\* A set of numbers has a least one, which Min chooses.
LEMMA MinLeast ==
  ASSUME NEW S, S \subseteq Nat, S # {}
  PROVE  Min(S) \in S /\ \A y \in S : Min(S) <= y
<1>1. PICK x \in S : \A y \in S : <<y, x>> \notin OpToRel(<, Nat)
  BY NatLessThanWellFounded, WFMin
<1>2. OpToRel(<, Nat) = {ss \in Nat \X Nat : ss[1] < ss[2]}
  BY DEF OpToRel
<1>3. \A y \in S : ~(y < x)
  BY <1>1, <1>2
<1>4. \A y \in S : x <= y
  BY <1>3
<1>. QED BY <1>4 DEF Min

LEMMA MinOf ==
  ASSUME NEW S, S \subseteq Nat, S # {}
  PROVE  Min(S) \in S
  BY MinLeast

\* The larger of a number and zero.
LEMMA MaxZero ==
  ASSUME NEW n \in Int
  PROVE  Max({n, 0}) = IF n >= 0 THEN n ELSE 0
<1>. DEFINE m == IF n >= 0 THEN n ELSE 0
<1>1. m \in {n, 0} /\ \A y \in {n, 0} : m >= y
  OBVIOUS
<1>2. \A x \in {n, 0} : (\A y \in {n, 0} : x >= y) => x = m
  OBVIOUS
<1>. QED BY <1>1, <1>2 DEF Max

\* A multiple of b plus less than b, rounded down to a multiple of b.
LEMMA RoundDown ==
  ASSUME NEW b \in Nat \ {0}, NEW q \in Nat, NEW n \in 0..(b - 1)
  PROVE  (b * q + n) % b = n
<1>. DEFINE x == b * q + n
            d == x \div b
<1>1. x \in Nat /\ d \in Int /\ x = b * d + (x % b) /\ x % b \in 0..(b - 1)
  OBVIOUS
<1>2. d = q
  <2>1. ASSUME NEW u \in Int, NEW v \in Int, u >= v + 1 PROVE b * u >= b * v + b
    <3>1. b * (u - v - 1) >= 0 /\ b * u = b * v + b + b * (u - v - 1)
      BY <2>1
    <3>. QED BY <3>1
  <2>2. ~(d >= q + 1) /\ ~(q >= d + 1)
    BY <1>1, <2>1
  <2>. QED BY <1>1, <2>2
<1>. QED BY <1>1, <1>2

---------------------------------------------------------------------------
(* Blocks of addresses. *)

\* A block whose host addresses are addresses and lie in the block.
Block(c) == c \in Cidr4 /\ Hosts(c) \subseteq Addr /\ \A h \in Hosts(c) : Contains(c, h)

\* What parse accepts is a block.
LEMMA ParseBlock ==
  ASSUME NEW ip \in Addr, NEW p \in Nat, Parses(p)
  PROVE  Block(Parse(ip, p))
<1>. DEFINE B == 2^(AddrBits - p)
            P == 2^p
            c == Parse(ip, p)
            q == ip \div B
            base == ip - (ip % B)
<1>1. p \in 0..AddrBits /\ (AddrBits - p) \in 0..AddrBits /\ AddrBits - p >= 1
  BY NetworkAssumption DEF Parses
<1>2. B \in Nat /\ B >= 2 /\ P \in Nat /\ P * B = 2^AddrBits
  BY <1>1, PowersAssumption
<1>3. c = [base |-> base, prefix_len |-> p] /\ BlockSize(c) = B
  BY DEF Parse, BlockSize
<1>. HIDE DEF B, P
<1>4. 2^AddrBits \in Nat /\ ip \in Nat /\ ip < P * B
  BY <1>2 DEF Addr
<1>5. q \in Nat /\ ip = B * q + (ip % B) /\ ip % B \in 0..(B - 1)
  <2>1. ip \in Int /\ B \in Nat \ {0}
    BY <1>2, <1>4
  <2>. HIDE DEF c
  <2>2. q \in Int /\ ip = B * q + (ip % B) /\ ip % B \in 0..(B - 1)
    BY <2>1
  <2>3. q >= 0
    BY <2>1, <1>4
  <2>. QED BY <2>2, <2>3
<1>6. base = B * q
  BY <1>5, <1>2, <1>4
<1>. HIDE DEF q, base, c
<1>7. ASSUME NEW u \in Int, NEW v \in Int, u >= v PROVE B * u >= B * v
  <2>1. B * (u - v) >= 0 /\ B * u = B * v + B * (u - v)
    BY <1>2, <1>7
  <2>2. B * u \in Int /\ B * v \in Int /\ B * (u - v) \in Int
    BY <1>2
  <2>. QED BY <2>1, <2>2
<1>8. q + 1 <= P
  <2>1. ASSUME q >= P PROVE FALSE
    <3>1. B * q >= B * P
      BY <1>7, <1>5, <1>2, <2>1
    <3>2. B * P = P * B
      BY <1>2
    <3>. QED BY <3>1, <3>2, <1>2, <1>4, <1>5
  <2>. QED BY <2>1, <1>5, <1>2
<1>9. B * q + B <= 2^AddrBits /\ B * q \in Nat
  <2>1. B * P >= B * (q + 1)
    BY <1>7, <1>8, <1>5, <1>2
  <2>2. B * (q + 1) = B * q + B /\ B * P = P * B /\ B * q \in Nat
    BY <1>5, <1>2
  <2>. QED BY <2>1, <2>2, <1>2
<1>10. c \in Cidr4
  BY <1>1, <1>2, <1>3, <1>4, <1>6, <1>9 DEF Cidr4, Addr
<1>11. Capacity(c) = B - 2
  BY <1>2, <1>3, MaxZero DEF Capacity
<1>12. ASSUME NEW h \in Hosts(c) PROVE h \in Addr /\ Contains(c, h)
  <2>1. PICK n \in 1..(B - 2) : h = base + n
    BY <1>11, <1>3 DEF Hosts, NthHost
  <2>2. h = B * q + n /\ n \in 0..(B - 1)
    BY <2>1, <1>6, <1>2
  <2>3. h % B = n
    BY <2>2, RoundDown, <1>2, <1>5
  <2>4. h \in Addr
    BY <2>1, <2>2, <1>9, <1>4, <1>2 DEF Addr
  <2>5. h - (h % B) = base
    BY <2>2, <2>3, <1>6, <1>9
  <2>. QED BY <2>4, <2>5, <1>3 DEF Contains
<1>. QED BY <1>10, <1>12 DEF Block, c

---------------------------------------------------------------------------
(* The volume store. *)

\* A store of the right shape whose snapshots have their volumes.
VaultOK(g) == IsVolumeStore(g) /\ SnapshotsHaveVolumes(g)

LEMMA VaultNew == VaultOK(NewVolumeStore)
  BY VolumeAssumption DEF VaultOK, IsVolumeStore, SnapshotsHaveVolumes, NewVolumeStore

\* A new volume has an id of its own, the next one.
LEMMA VaultCreate ==
  ASSUME NEW g, VaultOK(g), g.next < MaxVolumes, NEW size \in Nat, ValidSize(size),
         NEW h, h = CreateVolume(g, size)
  PROVE  /\ VaultOK(h)
         /\ h.next = g.next + 1
         /\ DOMAIN h.rows = DOMAIN g.rows \cup {NextVolumeId(g)}
<1>. DEFINE v == g.next + 1
<1>1. g.next \in Nat /\ v \in VolumeId /\ v \notin DOMAIN g.rows
  BY VolumeAssumption DEF VaultOK, IsVolumeStore, VolumeId
<1>2. /\ DOMAIN h = DOMAIN g /\ h.next = v /\ h.next_snap = g.next_snap /\ h.snaps = g.snaps
      /\ h.rows = [x \in DOMAIN g.rows \cup {v} |-> IF x = v THEN size ELSE g.rows[x]]
  BY DEF CreateVolume, NextVolumeId, VaultOK, IsVolumeStore
<1>3. DOMAIN h.rows = DOMAIN g.rows \cup {v} /\ h.rows[v] = size
      /\ \A x \in DOMAIN g.rows : h.rows[x] = g.rows[x]
  BY <1>1, <1>2
<1>4. size \in 1..MAX_VOLUME_BYTES
  BY VolumeAssumption DEF ValidSize
<1>5. IsVolumeStore(h)
  BY <1>1, <1>2, <1>3, <1>4, VolumeAssumption DEF VaultOK, IsVolumeStore, VolumeId
<1>6. SnapshotsHaveVolumes(h)
  BY <1>2, <1>3 DEF VaultOK, SnapshotsHaveVolumes, Known
<1>. QED BY <1>2, <1>3, <1>5, <1>6 DEF VaultOK, NextVolumeId

\* A deleted volume takes its snapshots along.
LEMMA VaultDelete ==
  ASSUME NEW g, VaultOK(g), NEW v \in VolumeId, NEW h, h = DeleteVolume(g, v)
  PROVE  VaultOK(h) /\ h.next = g.next /\ DOMAIN h.rows \subseteq DOMAIN g.rows
<1>1. /\ DOMAIN h = DOMAIN g /\ h.next = g.next
      /\ h.rows = Restrict(g.rows, DOMAIN g.rows \ {v})
      /\ h.next_snap = [g.next_snap EXCEPT ![v] = 0]
      /\ h.snaps = Restrict(g.snaps, {s \in DOMAIN g.snaps : s[1] # v})
  BY DEF DeleteVolume, VaultOK, IsVolumeStore
<1>2. /\ DOMAIN h.rows = DOMAIN g.rows \ {v}
      /\ \A x \in DOMAIN h.rows : h.rows[x] = g.rows[x]
      /\ DOMAIN h.snaps = {s \in DOMAIN g.snaps : s[1] # v}
      /\ \A s \in DOMAIN h.snaps : h.snaps[s] = g.snaps[s]
  BY <1>1 DEF Restrict
<1>3. h.next_snap \in [VolumeId -> 0..MaxSnaps]
  BY <1>1, VolumeAssumption DEF VaultOK, IsVolumeStore
<1>4. IsVolumeStore(h)
  BY <1>1, <1>2, <1>3 DEF VaultOK, IsVolumeStore
<1>5. SnapshotsHaveVolumes(h)
  BY <1>2 DEF VaultOK, SnapshotsHaveVolumes, Known
<1>. QED BY <1>1, <1>2, <1>4, <1>5 DEF VaultOK

LEMMA VaultSnapshot ==
  ASSUME NEW g, VaultOK(g), NEW v \in VolumeId, Known(g, v), g.next_snap[v] < MaxSnaps,
         NEW h, h = CreateSnapshot(g, v)
  PROVE  VaultOK(h) /\ h.next = g.next /\ DOMAIN h.rows = DOMAIN g.rows
<1>. DEFINE s == <<v, g.next_snap[v] + 1>>
<1>1. /\ DOMAIN h = DOMAIN g /\ h.next = g.next /\ h.rows = g.rows
      /\ h.next_snap = [g.next_snap EXCEPT ![v] = g.next_snap[v] + 1]
      /\ h.snaps = [x \in DOMAIN g.snaps \cup {s} |-> IF x = s THEN g.rows[v] ELSE g.snaps[x]]
  BY DEF CreateSnapshot, VaultOK, IsVolumeStore
<1>2. g.next_snap[v] \in 0..MaxSnaps /\ g.next_snap[v] + 1 \in 1..MaxSnaps
  BY VolumeAssumption DEF VaultOK, IsVolumeStore
<1>3. s \in SnapshotId /\ s[1] = v
  BY <1>2 DEF SnapshotId
<1>4. h.next_snap \in [VolumeId -> 0..MaxSnaps]
  BY <1>1, <1>2, VolumeAssumption DEF VaultOK, IsVolumeStore
<1>. HIDE DEF s
<1>5. /\ DOMAIN h.snaps = DOMAIN g.snaps \cup {s} /\ h.snaps[s] = g.rows[v]
      /\ \A x \in DOMAIN g.snaps : x # s => h.snaps[x] = g.snaps[x]
  BY <1>1
<1>6. IsVolumeStore(h)
  BY <1>1, <1>3, <1>4, <1>5 DEF VaultOK, IsVolumeStore, Known
<1>7. SnapshotsHaveVolumes(h)
  BY <1>1, <1>3, <1>5 DEF VaultOK, SnapshotsHaveVolumes, Known
<1>. QED BY <1>1, <1>6, <1>7 DEF VaultOK

LEMMA VaultUnsnap ==
  ASSUME NEW g, VaultOK(g), NEW s, NEW h, h = DeleteSnapshot(g, s)
  PROVE  VaultOK(h) /\ h.next = g.next /\ DOMAIN h.rows = DOMAIN g.rows
<1>1. /\ DOMAIN h = DOMAIN g /\ h.next = g.next /\ h.rows = g.rows /\ h.next_snap = g.next_snap
      /\ h.snaps = Restrict(g.snaps, DOMAIN g.snaps \ {s})
  BY DEF DeleteSnapshot, VaultOK, IsVolumeStore
<1>2. /\ DOMAIN h.snaps = DOMAIN g.snaps \ {s}
      /\ \A x \in DOMAIN h.snaps : h.snaps[x] = g.snaps[x]
  BY <1>1 DEF Restrict
<1>. QED BY <1>1, <1>2 DEF VaultOK, IsVolumeStore, SnapshotsHaveVolumes, Known

---------------------------------------------------------------------------
(* The networking store. *)

\* Beyond soundness: networks are blocks, and a NIC's id names its network and a
\* number its network has handed out.
NetShape(g) ==
  /\ \A n \in DOMAIN g.networks : Block(g.networks[n])
  /\ \A i \in DOMAIN g.nics : i[1] = g.nics[i].network /\ i[2] <= g.next_nic[i[1]]

NetOK(g) == IsNetworkStore(g) /\ NetworkSound(g) /\ NetShape(g)

LEMMA NetNew == NetOK(NewNetworkStore)
  BY NetworkAssumption DEF NetOK, IsNetworkStore, NetworkSound, NetShape, NewNetworkStore, Empty

LEMMA NetCreate ==
  ASSUME NEW g, NetOK(g), g.next_net < MaxNetworks, NEW cidr, Block(cidr),
         NEW h, h = CreateNetwork(g, cidr)
  PROVE  /\ NetOK(h)
         /\ h.next_net = g.next_net + 1
         /\ h.next_nic = Insert(g.next_nic, g.next_net + 1, 0)
         /\ h.next_net \in NetworkId
<1>. DEFINE n == g.next_net + 1
<1>1. /\ DOMAIN h = DOMAIN g /\ h.next_net = n /\ h.next_sg = g.next_sg /\ h.next_lb = g.next_lb
      /\ h.nics = g.nics /\ h.sgs = g.sgs /\ h.lbs = g.lbs
      /\ h.networks = Insert(g.networks, n, cidr)
      /\ h.next_nic = Insert(g.next_nic, n, 0)
      /\ h.used_ips = Insert(g.used_ips, n, Empty)
  BY DEF CreateNetwork, NetOK, IsNetworkStore
<1>2. n \in 1..MaxNetworks /\ n \notin DOMAIN g.networks /\ g.next_net \in Nat
  BY NetworkAssumption DEF NetOK, IsNetworkStore
<1>. HIDE DEF n
<1>3. DOMAIN h.networks = DOMAIN g.networks \cup {n} /\ h.networks[n] = cidr
      /\ \A x \in DOMAIN g.networks : h.networks[x] = g.networks[x]
  BY <1>1, <1>2 DEF Insert
<1>4. DOMAIN h.next_nic = DOMAIN g.networks \cup {n} /\ h.next_nic[n] = 0
      /\ \A x \in DOMAIN g.networks : h.next_nic[x] = g.next_nic[x]
  BY <1>1, <1>2 DEF Insert, NetOK, IsNetworkStore
<1>5. DOMAIN h.used_ips = DOMAIN g.networks \cup {n} /\ h.used_ips[n] = Empty
      /\ \A x \in DOMAIN g.networks : h.used_ips[x] = g.used_ips[x]
  BY <1>1, <1>2 DEF Insert, NetOK, IsNetworkStore
<1>6. DOMAIN Empty = {} /\ cidr \in Cidr4
  BY DEF Empty, Block
<1>7. DOMAIN g.networks \cup {n} \subseteq 1..n
  BY <1>2 DEF NetOK, IsNetworkStore, n
<1>8. IsNetworkStore(h)
  <2>1. \A x \in DOMAIN h.networks :
          /\ h.networks[x] \in Cidr4
          /\ h.next_nic[x] \in 0..MaxNics
          /\ DOMAIN h.used_ips[x] \subseteq Addr
          /\ \A a \in DOMAIN h.used_ips[x] : h.used_ips[x][a] \in NicId
    BY <1>3, <1>4, <1>5, <1>6, NetworkAssumption DEF NetOK, IsNetworkStore
  <2>. QED BY <1>1, <1>2, <1>3, <1>4, <1>5, <1>7, <2>1 DEF NetOK, IsNetworkStore
<1>9. NetworkSound(h)
  <2>1. \A i \in DOMAIN h.nics :
          /\ h.nics[i].network \in DOMAIN h.networks
          /\ h.nics[i].ip \in DOMAIN h.used_ips[h.nics[i].network]
          /\ h.used_ips[h.nics[i].network][h.nics[i].ip] = i
          /\ Contains(h.networks[h.nics[i].network], h.nics[i].ip)
    BY <1>1, <1>3, <1>5 DEF NetOK, NetworkSound
  <2>2. \A x \in DOMAIN h.used_ips : \A a \in DOMAIN h.used_ips[x] :
          /\ h.used_ips[x][a] \in DOMAIN h.nics
          /\ h.nics[h.used_ips[x][a]].network = x /\ h.nics[h.used_ips[x][a]].ip = a
    BY <1>1, <1>5, <1>6 DEF NetOK, NetworkSound, IsNetworkStore
  <2>3. \A l \in DOMAIN h.lbs : h.lbs[l].network \in DOMAIN h.networks
    BY <1>1, <1>3 DEF NetOK, NetworkSound
  <2>. QED BY <2>1, <2>2, <2>3 DEF NetworkSound
<1>10. NetShape(h)
  <2>1. \A x \in DOMAIN h.networks : Block(h.networks[x])
    BY <1>3 DEF NetOK, NetShape
  <2>2. \A i \in DOMAIN h.nics : i[1] = h.nics[i].network /\ i[2] <= h.next_nic[i[1]]
    BY <1>1, <1>4 DEF NetOK, NetShape, NetworkSound
  <2>. QED BY <2>1, <2>2 DEF NetShape
<1>. QED BY <1>1, <1>2, <1>8, <1>9, <1>10 DEF NetOK, n, NetworkId

\* A network is deleted when none of its addresses is in use.
LEMMA NetDelete ==
  ASSUME NEW g, NetOK(g), NEW n, MayDeleteNetwork(g, n), NEW h, h = DeleteNetwork(g, n)
  PROVE  NetOK(h) /\ h.next_nic = Remove(g.next_nic, n)
<1>1. /\ DOMAIN h = DOMAIN g /\ h.next_net = g.next_net /\ h.next_sg = g.next_sg /\ h.next_lb = g.next_lb
      /\ h.nics = g.nics /\ h.sgs = g.sgs
      /\ h.lbs = Restrict(g.lbs, {l \in DOMAIN g.lbs : g.lbs[l].network # n})
      /\ h.networks = Remove(g.networks, n)
      /\ h.next_nic = Remove(g.next_nic, n)
      /\ h.used_ips = Remove(g.used_ips, n)
  BY DEF DeleteNetwork, NetOK, IsNetworkStore
<1>2. /\ DOMAIN h.lbs = {l \in DOMAIN g.lbs : g.lbs[l].network # n}
      /\ \A l \in DOMAIN h.lbs : h.lbs[l] = g.lbs[l]
  BY <1>1 DEF Restrict
<1>3. DOMAIN h.networks = DOMAIN g.networks \ {n}
      /\ \A x \in DOMAIN h.networks : h.networks[x] = g.networks[x]
  BY <1>1 DEF Remove, Restrict
<1>4. DOMAIN h.next_nic = DOMAIN g.networks \ {n}
      /\ \A x \in DOMAIN h.networks : h.next_nic[x] = g.next_nic[x]
  BY <1>1, <1>3 DEF Remove, Restrict, NetOK, IsNetworkStore
<1>5. DOMAIN h.used_ips = DOMAIN g.networks \ {n}
      /\ \A x \in DOMAIN h.networks : h.used_ips[x] = g.used_ips[x]
  BY <1>1, <1>3 DEF Remove, Restrict, NetOK, IsNetworkStore
<1>6. \A i \in DOMAIN g.nics : g.nics[i].network # n
  BY DEF NetOK, NetworkSound, MayDeleteNetwork, IsNetworkStore
<1>7. IsNetworkStore(h)
  <2>1. \A x \in DOMAIN h.networks :
          /\ h.networks[x] \in Cidr4
          /\ h.next_nic[x] \in 0..MaxNics
          /\ DOMAIN h.used_ips[x] \subseteq Addr
          /\ \A a \in DOMAIN h.used_ips[x] : h.used_ips[x][a] \in NicId
    BY <1>3, <1>4, <1>5 DEF NetOK, IsNetworkStore
  <2>. QED BY <1>1, <1>2, <1>3, <1>4, <1>5, <2>1 DEF NetOK, IsNetworkStore
<1>8. NetworkSound(h)
  <2>1. \A i \in DOMAIN h.nics :
          /\ h.nics[i].network \in DOMAIN h.networks
          /\ h.nics[i].ip \in DOMAIN h.used_ips[h.nics[i].network]
          /\ h.used_ips[h.nics[i].network][h.nics[i].ip] = i
          /\ Contains(h.networks[h.nics[i].network], h.nics[i].ip)
    BY <1>1, <1>3, <1>5, <1>6 DEF NetOK, NetworkSound
  <2>2. \A x \in DOMAIN h.used_ips : \A a \in DOMAIN h.used_ips[x] :
          /\ h.used_ips[x][a] \in DOMAIN h.nics
          /\ h.nics[h.used_ips[x][a]].network = x /\ h.nics[h.used_ips[x][a]].ip = a
    BY <1>1, <1>3, <1>5 DEF NetOK, NetworkSound, IsNetworkStore
  <2>3. \A l \in DOMAIN h.lbs : h.lbs[l].network \in DOMAIN h.networks
    BY <1>2, <1>3 DEF NetOK, NetworkSound
  <2>. QED BY <2>1, <2>2, <2>3 DEF NetworkSound
<1>9. NetShape(h)
  <2>1. \A x \in DOMAIN h.networks : Block(h.networks[x])
    BY <1>3 DEF NetOK, NetShape
  <2>2. \A i \in DOMAIN h.nics : i[1] = h.nics[i].network /\ i[2] <= h.next_nic[i[1]]
    BY <1>1, <1>3, <1>4, <1>6 DEF NetOK, NetShape, NetworkSound
  <2>. QED BY <2>1, <2>2 DEF NetShape
<1>. QED BY <1>1, <1>7, <1>8, <1>9 DEF NetOK

\* The address a NIC is given: in the block, and nobody's.
LEMMA ChosenFree ==
  ASSUME NEW g, NetOK(g), NEW n, NEW ip \in Addr \cup {NoAddr}, MayAttachNic(g, n, ip)
  PROVE  /\ Chosen(g, n, ip) \in Addr
         /\ Chosen(g, n, ip) \notin DOMAIN g.used_ips[n]
         /\ Contains(g.networks[n], Chosen(g, n, ip))
<1>1. CASE ip = NoAddr
  <2>1. Block(g.networks[n]) /\ FreeHosts(g, n) # {}
    BY <1>1 DEF MayAttachNic, NetOK, NetShape
  <2>2. FreeHosts(g, n) \subseteq Addr /\ Addr \subseteq Nat
    BY <2>1 DEF FreeHosts, Block, Addr
  <2>3. Min(FreeHosts(g, n)) \in FreeHosts(g, n)
    BY <2>1, <2>2, MinOf
  <2>. QED BY <1>1, <2>1, <2>2, <2>3 DEF Chosen, FreeHosts, Block
<1>2. CASE ip # NoAddr
  BY <1>2 DEF Chosen, MayAttachNic, MayRequest
<1>. QED BY <1>1, <1>2

LEMMA NetAttach ==
  ASSUME NEW g, NetOK(g), NEW n, NEW vm \in NicVm, NEW ip \in Addr \cup {NoAddr},
         MayAttachNic(g, n, ip), g.next_nic[n] < MaxNics,
         NEW h, h = AttachNic(g, n, vm, ip)
  PROVE  /\ NetOK(h)
         /\ DOMAIN h.next_nic = DOMAIN g.next_nic /\ h.next_nic[n] = g.next_nic[n] + 1
         /\ \A x \in DOMAIN g.next_nic : x # n => h.next_nic[x] = g.next_nic[x]
         /\ NextNicId(g, n) \in NicId
         /\ h.nics[NextNicId(g, n)].ip \in Addr
<1>. DEFINE k == g.next_nic[n] + 1
            id == <<n, k>>
            addr == Chosen(g, n, ip)
            nic == [network |-> n, vm |-> vm, ip |-> addr]
<1>1. /\ addr \in Addr /\ addr \notin DOMAIN g.used_ips[n] /\ Contains(g.networks[n], addr)
      /\ n \in DOMAIN g.networks /\ n \in NetworkId
  BY ChosenFree, NetworkAssumption DEF MayAttachNic, NetOK, IsNetworkStore, NetworkId
<1>. HIDE DEF addr
<1>2. /\ DOMAIN h = DOMAIN g /\ h.next_net = g.next_net /\ h.next_sg = g.next_sg /\ h.next_lb = g.next_lb
      /\ h.networks = g.networks /\ h.sgs = g.sgs /\ h.lbs = g.lbs
      /\ h.next_nic = [g.next_nic EXCEPT ![n] = k]
      /\ h.used_ips = [g.used_ips EXCEPT ![n] = Insert(g.used_ips[n], addr, id)]
      /\ h.nics = Insert(g.nics, id, nic)
  BY DEF AttachNic, NextNicId, NetOK, IsNetworkStore, addr
<1>3. /\ g.next_nic[n] \in Nat /\ k \in 1..MaxNics /\ nic \in Nic
      /\ nic.network = n /\ nic.ip = addr /\ id[1] = n /\ id[2] = k
  BY <1>1, NetworkAssumption DEF NetOK, IsNetworkStore, Nic
<1>4. id \in NicId
  BY <1>1, <1>3 DEF NicId
<1>5. id \notin DOMAIN g.nics
  BY <1>3 DEF NetOK, NetShape
<1>. HIDE DEF id, nic, k
<1>6. /\ DOMAIN h.next_nic = DOMAIN g.networks /\ h.next_nic[n] = k
      /\ \A x \in DOMAIN g.networks : x # n => h.next_nic[x] = g.next_nic[x]
  BY <1>1, <1>2 DEF NetOK, IsNetworkStore
<1>7. /\ DOMAIN h.used_ips = DOMAIN g.networks
      /\ DOMAIN h.used_ips[n] = DOMAIN g.used_ips[n] \cup {addr} /\ h.used_ips[n][addr] = id
      /\ \A a \in DOMAIN g.used_ips[n] : h.used_ips[n][a] = g.used_ips[n][a]
      /\ \A x \in DOMAIN g.networks : x # n => h.used_ips[x] = g.used_ips[x]
  BY <1>1, <1>2 DEF Insert, NetOK, IsNetworkStore
<1>8. /\ DOMAIN h.nics = DOMAIN g.nics \cup {id} /\ h.nics[id] = nic
      /\ \A i \in DOMAIN g.nics : h.nics[i] = g.nics[i]
  BY <1>2, <1>5 DEF Insert
<1>9. IsNetworkStore(h)
  <2>1. \A x \in DOMAIN h.networks :
          /\ h.networks[x] \in Cidr4
          /\ h.next_nic[x] \in 0..MaxNics
          /\ DOMAIN h.used_ips[x] \subseteq Addr
          /\ \A a \in DOMAIN h.used_ips[x] : h.used_ips[x][a] \in NicId
    <3>. TAKE x \in DOMAIN h.networks
    <3>1. CASE x = n
      BY <3>1, <1>1, <1>2, <1>3, <1>4, <1>6, <1>7 DEF NetOK, IsNetworkStore
    <3>2. CASE x # n
      BY <3>2, <1>2, <1>6, <1>7 DEF NetOK, IsNetworkStore
    <3>. QED BY <3>1, <3>2
  <2>2. DOMAIN h.nics \subseteq NicId /\ \A i \in DOMAIN h.nics : h.nics[i] \in Nic
    BY <1>3, <1>4, <1>8 DEF NetOK, IsNetworkStore
  <2>. QED BY <1>2, <1>6, <1>7, <2>1, <2>2 DEF NetOK, IsNetworkStore
<1>10. NetworkSound(h)
  <2>1. \A i \in DOMAIN h.nics :
          /\ h.nics[i].network \in DOMAIN h.networks
          /\ h.nics[i].ip \in DOMAIN h.used_ips[h.nics[i].network]
          /\ h.used_ips[h.nics[i].network][h.nics[i].ip] = i
          /\ Contains(h.networks[h.nics[i].network], h.nics[i].ip)
    <3>. TAKE i \in DOMAIN h.nics
    <3>1. CASE i = id
      BY <3>1, <1>1, <1>2, <1>3, <1>7, <1>8
    <3>2. CASE i # id
      BY <3>2, <1>1, <1>2, <1>7, <1>8 DEF NetOK, NetworkSound
    <3>. QED BY <3>1, <3>2
  <2>2. \A x \in DOMAIN h.used_ips : \A a \in DOMAIN h.used_ips[x] :
          /\ h.used_ips[x][a] \in DOMAIN h.nics
          /\ h.nics[h.used_ips[x][a]].network = x /\ h.nics[h.used_ips[x][a]].ip = a
    <3>. TAKE x \in DOMAIN h.used_ips
    <3>. TAKE a \in DOMAIN h.used_ips[x]
    <3>1. CASE x = n /\ a = addr
      BY <3>1, <1>3, <1>7, <1>8
    <3>2. CASE ~(x = n /\ a = addr)
      <4>1. x \in DOMAIN g.used_ips /\ a \in DOMAIN g.used_ips[x] /\ h.used_ips[x][a] = g.used_ips[x][a]
        BY <3>2, <1>7 DEF NetOK, IsNetworkStore
      <4>. QED BY <4>1, <1>8 DEF NetOK, NetworkSound
    <3>. QED BY <3>1, <3>2
  <2>3. \A l \in DOMAIN h.lbs : h.lbs[l].network \in DOMAIN h.networks
    BY <1>2 DEF NetOK, NetworkSound
  <2>. QED BY <2>1, <2>2, <2>3 DEF NetworkSound
<1>11. NetShape(h)
  <2>1. \A i \in DOMAIN h.nics : i[1] = h.nics[i].network /\ i[2] <= h.next_nic[i[1]]
    <3>. TAKE i \in DOMAIN h.nics
    <3>1. CASE i = id
      BY <3>1, <1>3, <1>6, <1>8
    <3>2. CASE i # id
      <4>1. /\ i \in DOMAIN g.nics /\ h.nics[i] = g.nics[i] /\ i[1] = g.nics[i].network
            /\ i[2] <= g.next_nic[i[1]] /\ i[1] \in DOMAIN g.networks
            /\ i[2] \in Nat
        BY <3>2, <1>8, NetworkAssumption DEF NetOK, NetShape, NetworkSound, IsNetworkStore, NicId
      <4>2. CASE i[1] = n
        BY <4>1, <4>2, <1>3, <1>6 DEF k
      <4>3. CASE i[1] # n
        BY <4>1, <4>3, <1>6
      <4>. QED BY <4>2, <4>3
    <3>. QED BY <3>1, <3>2
  <2>. QED BY <2>1, <1>2 DEF NetOK, NetShape
<1>12. DOMAIN g.next_nic = DOMAIN g.networks /\ NextNicId(g, n) = id
  BY DEF NetOK, IsNetworkStore, NextNicId, id, k
<1>. QED BY <1>1, <1>3, <1>4, <1>6, <1>8, <1>9, <1>10, <1>11, <1>12 DEF NetOK, k

\* A detached NIC gives its address back.
LEMMA NetDetach ==
  ASSUME NEW g, NetOK(g), NEW id, NEW h, h = DetachNic(g, id)
  PROVE  NetOK(h) /\ h.next_nic = g.next_nic
<1>1. CASE id \notin DOMAIN g.nics
  BY <1>1 DEF DetachNic
<1>2. CASE id \in DOMAIN g.nics
  <2>. DEFINE n == g.nics[id].network
              ip == g.nics[id].ip
  <2>1. n \in DOMAIN g.networks /\ ip \in DOMAIN g.used_ips[n] /\ g.used_ips[n][ip] = id
    BY <1>2 DEF NetOK, NetworkSound
  <2>2. /\ DOMAIN h = DOMAIN g /\ h.next_net = g.next_net /\ h.next_sg = g.next_sg /\ h.next_lb = g.next_lb
        /\ h.networks = g.networks /\ h.sgs = g.sgs /\ h.lbs = g.lbs /\ h.next_nic = g.next_nic
        /\ h.used_ips = Insert(g.used_ips, n, Remove(g.used_ips[n], ip))
        /\ h.nics = Remove(g.nics, id)
    BY <1>2, <2>1 DEF DetachNic, NetOK, IsNetworkStore
  <2>. HIDE DEF n, ip
  <2>3. /\ DOMAIN h.used_ips = DOMAIN g.networks
        /\ DOMAIN h.used_ips[n] = DOMAIN g.used_ips[n] \ {ip}
        /\ \A a \in DOMAIN h.used_ips[n] : h.used_ips[n][a] = g.used_ips[n][a]
        /\ \A x \in DOMAIN g.networks : x # n => h.used_ips[x] = g.used_ips[x]
    BY <2>1, <2>2 DEF Insert, Remove, Restrict, NetOK, IsNetworkStore
  <2>4. /\ DOMAIN h.nics = DOMAIN g.nics \ {id}
        /\ \A i \in DOMAIN h.nics : h.nics[i] = g.nics[i]
    BY <2>2 DEF Remove, Restrict
  <2>5. IsNetworkStore(h)
    <3>1. \A x \in DOMAIN h.networks :
            /\ DOMAIN h.used_ips[x] \subseteq DOMAIN g.used_ips[x]
            /\ \A a \in DOMAIN h.used_ips[x] : h.used_ips[x][a] = g.used_ips[x][a]
      BY <2>2, <2>3
    <3>. QED BY <3>1, <2>2, <2>3, <2>4 DEF NetOK, IsNetworkStore
  <2>6. NetworkSound(h)
    <3>1. \A i \in DOMAIN h.nics :
            /\ h.nics[i].network \in DOMAIN h.networks
            /\ h.nics[i].ip \in DOMAIN h.used_ips[h.nics[i].network]
            /\ h.used_ips[h.nics[i].network][h.nics[i].ip] = i
            /\ Contains(h.networks[h.nics[i].network], h.nics[i].ip)
      BY <2>1, <2>2, <2>3, <2>4 DEF NetOK, NetworkSound
    <3>2. \A x \in DOMAIN h.used_ips : \A a \in DOMAIN h.used_ips[x] :
            /\ h.used_ips[x][a] \in DOMAIN h.nics
            /\ h.nics[h.used_ips[x][a]].network = x /\ h.nics[h.used_ips[x][a]].ip = a
      <4>. TAKE x \in DOMAIN h.used_ips
      <4>. TAKE a \in DOMAIN h.used_ips[x]
      <4>1. /\ x \in DOMAIN g.used_ips /\ a \in DOMAIN g.used_ips[x]
            /\ h.used_ips[x][a] = g.used_ips[x][a] /\ ~(x = n /\ a = ip)
        BY <2>3 DEF NetOK, IsNetworkStore
      <4>2. /\ g.used_ips[x][a] \in DOMAIN g.nics
            /\ g.nics[g.used_ips[x][a]].network = x /\ g.nics[g.used_ips[x][a]].ip = a
        BY <4>1 DEF NetOK, NetworkSound
      <4>3. g.used_ips[x][a] # id
        BY <4>1, <4>2 DEF n, ip
      <4>. QED BY <4>1, <4>2, <4>3, <2>4
    <3>3. \A l \in DOMAIN h.lbs : h.lbs[l].network \in DOMAIN h.networks
      BY <2>2 DEF NetOK, NetworkSound
    <3>. QED BY <3>1, <3>2, <3>3 DEF NetworkSound
  <2>7. NetShape(h)
    BY <2>2, <2>4 DEF NetOK, NetShape
  <2>. QED BY <2>2, <2>5, <2>6, <2>7 DEF NetOK
<1>. QED BY <1>1, <1>2

\* Security groups and balancers leave networks and NICs alone.
LEMMA NetRest ==
  ASSUME NEW g, NetOK(g), NEW h,
         /\ DOMAIN h = DOMAIN g /\ h.next_net = g.next_net /\ h.networks = g.networks
         /\ h.next_nic = g.next_nic /\ h.used_ips = g.used_ips /\ h.nics = g.nics,
         h.next_sg \in 0..MaxSgs, h.sgs \subseteq 1..h.next_sg,
         h.next_lb \in 0..MaxLbs, DOMAIN h.lbs \subseteq 1..h.next_lb,
         \A l \in DOMAIN h.lbs : h.lbs[l] \in LoadBalancer /\ h.lbs[l].network \in DOMAIN g.networks
  PROVE  NetOK(h)
<1>1. IsNetworkStore(h)
  BY DEF NetOK, IsNetworkStore
<1>2. NetworkSound(h)
  BY DEF NetOK, NetworkSound
<1>3. NetShape(h)
  BY DEF NetOK, NetShape
<1>. QED BY <1>1, <1>2, <1>3 DEF NetOK

LEMMA NetSg ==
  ASSUME NEW g, NetOK(g), g.next_sg < MaxSgs, NEW h, h = CreateSecurityGroup(g)
  PROVE  NetOK(h) /\ h.next_nic = g.next_nic
<1>1. /\ DOMAIN h = DOMAIN g /\ h.next_net = g.next_net /\ h.networks = g.networks
      /\ h.next_nic = g.next_nic /\ h.used_ips = g.used_ips /\ h.nics = g.nics
      /\ h.next_lb = g.next_lb /\ h.lbs = g.lbs
      /\ h.next_sg = g.next_sg + 1 /\ h.sgs = g.sgs \cup {g.next_sg + 1}
  BY DEF CreateSecurityGroup, NetOK, IsNetworkStore
<1>2. g.next_sg \in Nat /\ h.next_sg \in 0..MaxSgs /\ h.sgs \subseteq 1..h.next_sg
  BY <1>1, NetworkAssumption DEF NetOK, IsNetworkStore
<1>3. \A l \in DOMAIN h.lbs : h.lbs[l] \in LoadBalancer /\ h.lbs[l].network \in DOMAIN g.networks
  BY <1>1 DEF NetOK, IsNetworkStore, NetworkSound
<1>4. h.next_lb \in 0..MaxLbs /\ DOMAIN h.lbs \subseteq 1..h.next_lb
  BY <1>1 DEF NetOK, IsNetworkStore
<1>. QED BY <1>1, <1>2, <1>3, <1>4, NetRest

LEMMA NetUnSg ==
  ASSUME NEW g, NetOK(g), NEW s, NEW h, h = DeleteSecurityGroup(g, s)
  PROVE  NetOK(h) /\ h.next_nic = g.next_nic
<1>1. /\ DOMAIN h = DOMAIN g /\ h.next_net = g.next_net /\ h.networks = g.networks
      /\ h.next_nic = g.next_nic /\ h.used_ips = g.used_ips /\ h.nics = g.nics
      /\ h.next_lb = g.next_lb /\ h.lbs = g.lbs
      /\ h.next_sg = g.next_sg /\ h.sgs = g.sgs \ {s}
  BY DEF DeleteSecurityGroup, NetOK, IsNetworkStore
<1>2. h.next_sg \in 0..MaxSgs /\ h.sgs \subseteq 1..h.next_sg
  BY <1>1 DEF NetOK, IsNetworkStore
<1>3. \A l \in DOMAIN h.lbs : h.lbs[l] \in LoadBalancer /\ h.lbs[l].network \in DOMAIN g.networks
  BY <1>1 DEF NetOK, IsNetworkStore, NetworkSound
<1>4. h.next_lb \in 0..MaxLbs /\ DOMAIN h.lbs \subseteq 1..h.next_lb
  BY <1>1 DEF NetOK, IsNetworkStore
<1>. QED BY <1>1, <1>2, <1>3, <1>4, NetRest

LEMMA NetLb ==
  ASSUME NEW g, NetOK(g), g.next_lb < MaxLbs, NEW n, NEW vip \in Addr, NEW backends \in Seq(LbBackend),
         MayCreateLb(g, n, vip, backends), NEW h, h = CreateLb(g, n, vip, backends)
  PROVE  NetOK(h) /\ h.next_nic = g.next_nic /\ h.next_lb \in LbId
<1>. DEFINE lb == [network |-> n, vip |-> vip, backends |-> backends]
            l == g.next_lb + 1
<1>1. /\ DOMAIN h = DOMAIN g /\ h.next_net = g.next_net /\ h.networks = g.networks
      /\ h.next_nic = g.next_nic /\ h.used_ips = g.used_ips /\ h.nics = g.nics
      /\ h.next_sg = g.next_sg /\ h.sgs = g.sgs
      /\ h.next_lb = l /\ h.lbs = Insert(g.lbs, l, lb)
  BY DEF CreateLb, NetOK, IsNetworkStore
<1>2. lb \in LoadBalancer /\ lb.network \in DOMAIN g.networks
  BY NetworkAssumption DEF LoadBalancer, MayCreateLb, NetOK, IsNetworkStore, NetworkId
<1>3. g.next_lb \in Nat /\ l \in 1..MaxLbs /\ DOMAIN g.lbs \cup {l} \subseteq 1..l
  BY NetworkAssumption DEF NetOK, IsNetworkStore
<1>. HIDE DEF l, lb
<1>4. /\ DOMAIN h.lbs = DOMAIN g.lbs \cup {l} /\ h.lbs[l] = lb
      /\ \A x \in DOMAIN g.lbs : x # l => h.lbs[x] = g.lbs[x]
  BY <1>1 DEF Insert
<1>5. \A x \in DOMAIN h.lbs : h.lbs[x] \in LoadBalancer /\ h.lbs[x].network \in DOMAIN g.networks
  BY <1>2, <1>4 DEF NetOK, IsNetworkStore, NetworkSound
<1>6. h.next_sg \in 0..MaxSgs /\ h.sgs \subseteq 1..h.next_sg
  BY <1>1 DEF NetOK, IsNetworkStore
<1>7. h.next_lb \in 0..MaxLbs /\ DOMAIN h.lbs \subseteq 1..h.next_lb
  BY <1>1, <1>3, <1>4
<1>. QED BY <1>1, <1>3, <1>5, <1>6, <1>7, NetRest DEF LbId

LEMMA NetUnLb ==
  ASSUME NEW g, NetOK(g), NEW l, NEW h, h = DeleteLb(g, l)
  PROVE  NetOK(h) /\ h.next_nic = g.next_nic
<1>1. /\ DOMAIN h = DOMAIN g /\ h.next_net = g.next_net /\ h.networks = g.networks
      /\ h.next_nic = g.next_nic /\ h.used_ips = g.used_ips /\ h.nics = g.nics
      /\ h.next_sg = g.next_sg /\ h.sgs = g.sgs
      /\ h.next_lb = g.next_lb /\ h.lbs = Remove(g.lbs, l)
  BY DEF DeleteLb, NetOK, IsNetworkStore
<1>2. DOMAIN h.lbs = DOMAIN g.lbs \ {l} /\ \A x \in DOMAIN h.lbs : h.lbs[x] = g.lbs[x]
  BY <1>1 DEF Remove, Restrict
<1>3. \A x \in DOMAIN h.lbs : h.lbs[x] \in LoadBalancer /\ h.lbs[x].network \in DOMAIN g.networks
  BY <1>2 DEF NetOK, IsNetworkStore, NetworkSound
<1>4. h.next_sg \in 0..MaxSgs /\ h.sgs \subseteq 1..h.next_sg
  BY <1>1 DEF NetOK, IsNetworkStore
<1>5. h.next_lb \in 0..MaxLbs /\ DOMAIN h.lbs \subseteq 1..h.next_lb
  BY <1>1, <1>2 DEF NetOK, IsNetworkStore
<1>. QED BY <1>1, <1>3, <1>4, <1>5, NetRest

---------------------------------------------------------------------------
(* The host: what an operation, an answer and a task look like. *)

\* An operation names VMs, volumes and networks that can exist.
OpOK(op) ==
  /\ op.kind \in Kinds
  /\ op.kind = "create" => op.cost \in VmCost \cup {0}
  /\ op.kind \in {"start", "stop", "delete", "attach_volume", "detach_volume", "attach_nic"} => op.vm \in Vm
  /\ op.kind = "create_volume" => op.size \in Nat
  /\ op.kind \in {"delete_volume", "create_snapshot", "attach_volume", "detach_volume"} => op.volume \in VolumeId
  /\ op.kind = "create_network" => op.ip \in {0, 1} /\ op.prefix_len \in Nat
  /\ op.kind = "attach_nic" => op.network \in NetworkId /\ op.ip \in Addr \cup {NoAddr}
  /\ op.kind = "create_lb" => op.network \in NetworkId /\ op.vip \in Addr /\ op.backends \in Seq(LbBackend)

\* What an answer to op may be relied on for.
ReplyOK(op, ok, id, ip) ==
  /\ ok \in BOOLEAN
  /\ ok /\ op.kind = "create" => id \in Vm
  /\ ok /\ op.kind = "create_volume" => id \in VolumeId
  /\ ok /\ op.kind = "create_network" => id \in NetworkId
  /\ ok /\ op.kind = "attach_nic" => id \in NicId /\ ip \in Addr
  /\ ok /\ op.kind = "create_lb" => id \in LbId

\* Where a task waits for no number of a volume or a NIC.
QuietPc == {"idle", "settle", "answer", "delete_volume"}

\* A task has an operation its place fits, and an answer when it is about to give one.
TaskOK(x) ==
  /\ x.pc \in QuietPc \cup {"host", "attach_volume", "attach_nic"}
  /\ x.pc # "idle" => OpOK(x.op) /\ ReplyOK(x.op, x.reply.ok, x.reply.id, x.reply.ip)
  /\ x.pc = "host" => x.op.kind \in Creating
  /\ x.pc = "settle" => x.op.kind \in Settled
  /\ x.pc \in {"delete_volume", "attach_volume", "attach_nic"} => x.op.kind = x.pc

Tasks == Task \cup {Receiver}

TasksOK(tk) == DOMAIN tk = Tasks /\ \A t \in Tasks : TaskOK(tk[t])

\* Task t has moved, with operation op if it is the receiver's.
Moved(tk, tk2, t, op) ==
  /\ TasksOK(tk2)
  /\ \A u \in Tasks \ {t} : tk2[u] = tk[u]
  /\ t = Receiver => tk2[t].op = op /\ tk2[t].pc # "idle"

\* The tasks about to take a volume's or a NIC's number.
Making(tk) == {t \in Tasks : tk[t].pc = "host" /\ tk[t].op.kind = "create_volume"}
Joining(tk, n) == {t \in Tasks : tk[t].pc = "attach_nic" /\ tk[t].op.network = n}
NicCount(s, n) == IF n \in DOMAIN s.next_nic THEN s.next_nic[n] ELSE 0

\* They all find one.
VolRoom(g, tk) == g.next + Cardinality(Making(tk)) <= MaxVolumes
NicRoom(s, tk) == \A n \in NetworkId : NicCount(s, n) + Cardinality(Joining(tk, n)) <= MaxNics

\* An attachment, made or about to be made, is to a volume that has existed.
SlotsOK(sl, next) == sl \in [Vm -> Slot] /\ \A m \in Vm : \A v \in sl[m].volumes : v <= next
Attaching(tk, next) == \A t \in Tasks : tk[t].pc = "attach_volume" => tk[t].op.volume <= next

\* The wrapper's accounts.
Amount == [vcpus : Nat, storage_bytes : Nat]
UsageOK(u) == u \in [vcpus : 0..Quota.vcpus, storage_bytes : 0..Quota.storage_bytes]
ChargesOK(c, S) == DOMAIN c \subseteq S /\ \A id \in DOMAIN c : c[id] \in Amount

\* The invariant of the host.
HostInv ==
  /\ mix \in Mixes
  /\ SlotsOK(slots, vault.next)
  /\ VaultOK(vault)
  /\ NetOK(nets)
  /\ UsageOK(usage)
  /\ ChargesOK(vm_charges, Vm) /\ ChargesOK(volume_charges, VolumeId)
  /\ TasksOK(task)
  /\ VolRoom(vault, task) /\ NicRoom(nets, task) /\ Attaching(task, vault.next)

\* Task t becomes x.
Put(tk, t, x) == [tk EXCEPT ![t] = x]

LEMMA IdleOK == TaskOK(Idle) /\ Idle.pc = "idle"
  BY DEF TaskOK, Idle, QuietPc

\* Moving a task.
LEMMA MoveTo ==
  ASSUME NEW tk, TasksOK(tk), NEW t \in Tasks, NEW x, TaskOK(x), NEW op,
         t = Receiver => x.op = op /\ x.pc # "idle",
         NEW tk2, tk2 = Put(tk, t, x)
  PROVE  Moved(tk, tk2, t, op) /\ tk2[t] = x
<1>1. DOMAIN tk2 = Tasks /\ tk2[t] = x /\ \A u \in Tasks \ {t} : tk2[u] = tk[u]
  BY DEF TasksOK, Put
<1>2. \A u \in Tasks : TaskOK(tk2[u])
  BY <1>1 DEF TasksOK
<1>. QED BY <1>1, <1>2 DEF Moved, TasksOK

LEMMA FiniteTasks ==
  ASSUME NEW S, S \subseteq Tasks
  PROVE  IsFiniteSet(S) /\ Cardinality(S) \in Nat
<1>1. IsFiniteSet(Tasks)
  BY HostAssumption, FS_AddElement DEF Tasks
<1>2. IsFiniteSet(S)
  BY <1>1, FS_Subset
<1>. QED BY <1>2, FS_CardinalityType

LEMMA Smaller ==
  ASSUME NEW S, NEW R, S \subseteq Tasks, R \subseteq S
  PROVE  Cardinality(R) <= Cardinality(S)
  BY FiniteTasks, FS_Subset

LEMMA OneMore ==
  ASSUME NEW S, NEW R, NEW t \in Tasks, S \subseteq Tasks, R \subseteq S \cup {t}
  PROVE  Cardinality(R) <= Cardinality(S) + 1
<1>1. S \cup {t} \subseteq Tasks /\ IsFiniteSet(S) /\ Cardinality(S) \in Nat
  BY FiniteTasks
<1>2. Cardinality(R) <= Cardinality(S \cup {t})
  BY <1>1, Smaller
<1>3. Cardinality(S \cup {t}) = IF t \in S THEN Cardinality(S) ELSE Cardinality(S) + 1
  BY <1>1, FS_AddElement
<1>4. Cardinality(R) \in Nat
  BY <1>1, FiniteTasks
<1>. QED BY <1>1, <1>2, <1>3, <1>4

LEMMA OneLess ==
  ASSUME NEW S, NEW R, NEW t \in S, S \subseteq Tasks, R \subseteq S \ {t}
  PROVE  Cardinality(R) + 1 <= Cardinality(S)
<1>1. S \ {t} \subseteq Tasks /\ IsFiniteSet(S) /\ Cardinality(S) \in Nat
  BY FiniteTasks
<1>2. Cardinality(R) <= Cardinality(S \ {t})
  BY <1>1, Smaller
<1>3. Cardinality(S \ {t}) = Cardinality(S) - 1
  BY <1>1, FS_RemoveElement
<1>4. Cardinality(R) \in Nat
  BY <1>1, FiniteTasks
<1>. QED BY <1>1, <1>2, <1>3, <1>4

\* A task that moves to a place where it waits for no number needs no room.
LEMMA QuietMove ==
  ASSUME NEW tk, NEW tk2, NEW t \in Tasks, NEW op, Moved(tk, tk2, t, op), tk2[t].pc \in QuietPc
  PROVE  /\ Making(tk2) \subseteq Making(tk) \ {t}
         /\ \A n : Joining(tk2, n) \subseteq Joining(tk, n) \ {t}
         /\ \A next : Attaching(tk, next) => Attaching(tk2, next)
<1>1. Making(tk2) \subseteq Making(tk) \ {t}
  BY DEF Making, Moved, QuietPc
<1>2. \A n : Joining(tk2, n) \subseteq Joining(tk, n) \ {t}
  BY DEF Joining, Moved, QuietPc
<1>3. \A next : Attaching(tk, next) => Attaching(tk2, next)
  BY DEF Attaching, Moved, QuietPc
<1>. QED BY <1>1, <1>2, <1>3

LEMMA CountType ==
  ASSUME NEW s, NetOK(s), NEW n
  PROVE  NicCount(s, n) \in Nat
  BY DEF NicCount, NetOK, IsNetworkStore

LEMMA KeepsVolRoom ==
  ASSUME NEW g, VaultOK(g), NEW h, VaultOK(h), h.next = g.next, NEW tk, NEW tk2,
         Making(tk2) \subseteq Making(tk), VolRoom(g, tk)
  PROVE  VolRoom(h, tk2)
<1>1. Making(tk) \subseteq Tasks /\ Making(tk2) \subseteq Tasks
  BY DEF Making
<1>2. /\ Cardinality(Making(tk)) \in Nat /\ Cardinality(Making(tk2)) \in Nat
      /\ Cardinality(Making(tk2)) <= Cardinality(Making(tk))
  BY <1>1, FiniteTasks, Smaller
<1>3. g.next \in Nat
  BY DEF VaultOK, IsVolumeStore
<1>. QED BY <1>2, <1>3, VolumeAssumption DEF VolRoom

LEMMA KeepsNicRoom ==
  ASSUME NEW s, NetOK(s), NEW r, NetOK(r), \A n \in NetworkId : NicCount(r, n) <= NicCount(s, n),
         NEW tk, NEW tk2, \A n : Joining(tk2, n) \subseteq Joining(tk, n), NicRoom(s, tk)
  PROVE  NicRoom(r, tk2)
<1>. SUFFICES ASSUME NEW n \in NetworkId
              PROVE  NicCount(r, n) + Cardinality(Joining(tk2, n)) <= MaxNics
  BY DEF NicRoom
<1>1. Joining(tk, n) \subseteq Tasks /\ Joining(tk2, n) \subseteq Joining(tk, n)
  BY DEF Joining
<1>2. /\ Cardinality(Joining(tk, n)) \in Nat /\ Cardinality(Joining(tk2, n)) \in Nat
      /\ Cardinality(Joining(tk2, n)) <= Cardinality(Joining(tk, n))
  BY <1>1, FiniteTasks, Smaller
<1>3. NicCount(s, n) \in Nat /\ NicCount(r, n) \in Nat
  BY CountType
<1>4. NicCount(s, n) + Cardinality(Joining(tk, n)) <= MaxNics
  BY DEF NicRoom
<1>. QED BY <1>2, <1>3, <1>4, NetworkAssumption

\* What Reply, Answer and Goto do to a task.
LEMMA ReplyMoves ==
  ASSUME TasksOK(task), NEW t \in Tasks, NEW op, OpOK(op), NEW ok, NEW id, NEW cost,
         ReplyOK(op, ok, id, NoAddr), op.kind # "attach_nic" \/ ~ok,
         Reply(t, op, ok, id, cost)
  PROVE  Moved(task, task', t, op) /\ task'[t].pc \in QuietPc
<1>1. CASE op.kind \in Settled
  <2>. DEFINE x == [pc |-> "settle", op |-> op, reply |-> [NoReply EXCEPT !.ok = ok, !.id = id], cost |-> cost]
  <2>1. task' = Put(task, t, x)
    BY <1>1 DEF Reply, Put
  <2>2. /\ x.pc = "settle" /\ x.op = op /\ x.reply.ok = ok /\ x.reply.id = id /\ x.reply.ip = NoAddr
    BY DEF NoReply
  <2>. HIDE DEF x
  <2>3. TaskOK(x)
    BY <1>1, <2>2 DEF TaskOK, QuietPc
  <2>. QED BY <2>1, <2>2, <2>3, MoveTo DEF QuietPc
<1>2. CASE op.kind \notin Settled /\ t = Receiver
  <2>. DEFINE x == [Idle EXCEPT !.pc = "answer", !.op = op, !.reply = [NoReply EXCEPT !.ok = ok, !.id = id]]
  <2>1. task' = Put(task, t, x)
    BY <1>2 DEF Reply, Put
  <2>2. /\ x.pc = "answer" /\ x.op = op /\ x.reply.ok = ok /\ x.reply.id = id /\ x.reply.ip = NoAddr
    BY DEF NoReply, Idle
  <2>. HIDE DEF x
  <2>3. TaskOK(x)
    BY <2>2 DEF TaskOK, QuietPc
  <2>. QED BY <2>1, <2>2, <2>3, MoveTo DEF QuietPc
<1>3. CASE op.kind \notin Settled /\ t # Receiver
  <2>1. task' = Put(task, t, Idle)
    BY <1>3 DEF Reply, Put
  <2>. QED BY <1>3, <2>1, IdleOK, MoveTo DEF QuietPc
<1>. QED BY <1>1, <1>2, <1>3

LEMMA AnswerMoves ==
  ASSUME TasksOK(task), NEW t \in Tasks, NEW op, OpOK(op), NEW reply,
         ReplyOK(op, reply.ok, reply.id, reply.ip), Answer(t, op, reply)
  PROVE  Moved(task, task', t, op) /\ task'[t].pc \in QuietPc
<1>1. CASE t = Receiver
  <2>. DEFINE x == [Idle EXCEPT !.pc = "answer", !.op = op, !.reply = reply]
  <2>1. task' = Put(task, t, x)
    BY <1>1 DEF Answer, Put
  <2>2. x.pc = "answer" /\ x.op = op /\ x.reply = reply
    BY DEF Idle
  <2>. HIDE DEF x
  <2>3. TaskOK(x)
    BY <2>2 DEF TaskOK, QuietPc
  <2>. QED BY <2>1, <2>2, <2>3, MoveTo DEF QuietPc
<1>2. CASE t # Receiver
  <2>1. task' = Put(task, t, Idle)
    BY <1>2 DEF Answer, Put
  <2>. QED BY <1>2, <2>1, IdleOK, MoveTo DEF QuietPc
<1>. QED BY <1>1, <1>2

LEMMA GotoMoves ==
  ASSUME TasksOK(task), NEW t \in Tasks, NEW op, OpOK(op), NEW pc,
         \/ pc = "host" /\ op.kind \in Creating
         \/ pc \in {"delete_volume", "attach_volume", "attach_nic"} /\ op.kind = pc,
         Goto(t, op, pc)
  PROVE  Moved(task, task', t, op) /\ task'[t].pc = pc /\ task'[t].op = op
<1>. DEFINE x == [Idle EXCEPT !.pc = pc, !.op = op]
<1>1. task' = Put(task, t, x)
  BY DEF Goto, Put
<1>2. x.pc = pc /\ x.op = op /\ x.reply.ok = FALSE
  BY DEF Idle, NoReply
<1>. HIDE DEF x
<1>3. TaskOK(x)
  BY <1>2 DEF TaskOK, QuietPc, ReplyOK
<1>. QED BY <1>1, <1>2, <1>3, MoveTo

\* Charges and refunds.
LEMMA ChargeType ==
  ASSUME NEW op, OpOK(op)
  PROVE  ChargeFor(op) \in Amount
<1>1. CASE op.kind = "create"
  BY <1>1, HostAssumption DEF ChargeFor, NoUsage, Amount, OpOK
<1>2. CASE op.kind = "create_volume"
  BY <1>2 DEF ChargeFor, NoUsage, Amount, OpOK
<1>3. CASE op.kind # "create" /\ op.kind # "create_volume"
  BY <1>3 DEF ChargeFor, NoUsage, Amount
<1>. QED BY <1>1, <1>2, <1>3

LEMMA PlusType ==
  ASSUME NEW u, UsageOK(u), NEW c \in Amount, WithinQuota(Plus(u, c))
  PROVE  UsageOK(Plus(u, c))
  BY HostAssumption DEF UsageOK, Amount, Plus, WithinQuota

LEMMA MinusType ==
  ASSUME NEW u, UsageOK(u), NEW c \in Amount
  PROVE  UsageOK(Minus(u, c))
<1>1. /\ u.vcpus \in 0..Quota.vcpus /\ u.storage_bytes \in 0..Quota.storage_bytes
      /\ c.vcpus \in Nat /\ c.storage_bytes \in Nat
      /\ Quota.vcpus \in Nat /\ Quota.storage_bytes \in Nat
  BY HostAssumption DEF UsageOK, Amount
<1>. DEFINE a == u.vcpus - c.vcpus
            b == u.storage_bytes - c.storage_bytes
<1>2. a \in Int /\ b \in Int /\ a <= Quota.vcpus /\ b <= Quota.storage_bytes
  BY <1>1
<1>3. Minus(u, c) = [vcpus |-> Max({a, 0}), storage_bytes |-> Max({b, 0})]
  BY DEF Minus
<1>. HIDE DEF a, b
<1>4. Max({a, 0}) \in 0..Quota.vcpus /\ Max({b, 0}) \in 0..Quota.storage_bytes
  BY <1>1, <1>2, MaxZero
<1>. QED BY <1>3, <1>4 DEF UsageOK

---------------------------------------------------------------------------
(* Steps of the host. *)

\* A step that answers, and leaves the counters of volumes and NICs alone.
LEMMA QuietStep ==
  ASSUME HostInv, NEW t \in Tasks, NEW op, Moved(task, task', t, op), task'[t].pc \in QuietPc,
         UNCHANGED mix, SlotsOK(slots', vault'.next),
         VaultOK(vault'), vault'.next = vault.next,
         NetOK(nets'), \A n \in NetworkId : NicCount(nets', n) <= NicCount(nets, n),
         UsageOK(usage'), ChargesOK(vm_charges', Vm), ChargesOK(volume_charges', VolumeId)
  PROVE  HostInv'
<1>1. /\ Making(task') \subseteq Making(task)
      /\ \A n : Joining(task', n) \subseteq Joining(task, n)
      /\ Attaching(task', vault'.next)
  BY QuietMove DEF HostInv
<1>2. VolRoom(vault', task')
  BY <1>1, KeepsVolRoom DEF HostInv
<1>3. NicRoom(nets', task')
  BY <1>1, KeepsNicRoom DEF HostInv
<1>4. TasksOK(task') /\ mix' \in Mixes
  BY DEF Moved, HostInv
<1>. QED BY <1>1, <1>2, <1>3, <1>4 DEF HostInv

LEMMA SlotStep ==
  ASSUME HostInv, NEW t \in Tasks, NEW op, Moved(task, task', t, op), task'[t].pc \in QuietPc,
         SlotsOK(slots', vault.next), UNCHANGED <<fixed, vault, nets, accounts>>
  PROVE  HostInv'
<1>1. /\ vault' = vault /\ nets' = nets /\ usage' = usage /\ vm_charges' = vm_charges
      /\ volume_charges' = volume_charges /\ mix' = mix
  BY DEF fixed, accounts
<1>2. \A n \in NetworkId : NicCount(nets', n) <= NicCount(nets, n)
  BY <1>1, CountType DEF HostInv
<1>3. /\ SlotsOK(slots', vault'.next) /\ VaultOK(vault') /\ NetOK(nets') /\ UsageOK(usage')
      /\ ChargesOK(vm_charges', Vm) /\ ChargesOK(volume_charges', VolumeId)
  BY <1>1 DEF HostInv
<1>. QED BY <1>1, <1>2, <1>3, QuietStep

LEMMA StillStep ==
  ASSUME HostInv, NEW t \in Tasks, NEW op, Moved(task, task', t, op), task'[t].pc \in QuietPc,
         UNCHANGED <<fixed, stores, accounts>>
  PROVE  HostInv'
<1>1. SlotsOK(slots', vault.next) /\ UNCHANGED <<fixed, vault, nets, accounts>>
  BY DEF stores, HostInv
<1>. QED BY <1>1, SlotStep

LEMMA VaultStep ==
  ASSUME HostInv, NEW t \in Tasks, NEW op, Moved(task, task', t, op), task'[t].pc \in QuietPc,
         VaultOK(vault'), vault'.next = vault.next, UNCHANGED <<fixed, slots, nets, accounts>>
  PROVE  HostInv'
<1>1. /\ slots' = slots /\ nets' = nets /\ usage' = usage /\ vm_charges' = vm_charges
      /\ volume_charges' = volume_charges /\ mix' = mix
  BY DEF fixed, accounts
<1>2. \A n \in NetworkId : NicCount(nets', n) <= NicCount(nets, n)
  BY <1>1, CountType DEF HostInv
<1>3. /\ SlotsOK(slots', vault'.next) /\ NetOK(nets') /\ UsageOK(usage')
      /\ ChargesOK(vm_charges', Vm) /\ ChargesOK(volume_charges', VolumeId)
  BY <1>1 DEF HostInv
<1>. QED BY <1>1, <1>2, <1>3, QuietStep

LEMMA NetStep ==
  ASSUME HostInv, NEW t \in Tasks, NEW op, Moved(task, task', t, op), task'[t].pc \in QuietPc,
         NetOK(nets'), \A n \in NetworkId : NicCount(nets', n) <= NicCount(nets, n),
         UNCHANGED <<fixed, slots, vault, accounts>>
  PROVE  HostInv'
<1>1. /\ slots' = slots /\ vault' = vault /\ usage' = usage /\ vm_charges' = vm_charges
      /\ volume_charges' = volume_charges /\ mix' = mix
  BY DEF fixed, accounts
<1>2. /\ SlotsOK(slots', vault'.next) /\ VaultOK(vault') /\ UsageOK(usage')
      /\ ChargesOK(vm_charges', Vm) /\ ChargesOK(volume_charges', VolumeId)
  BY <1>1 DEF HostInv
<1>. QED BY <1>1, <1>2, QuietStep

LEMMA SameCount ==
  ASSUME NEW s, NetOK(s), NEW r, r.next_nic = s.next_nic
  PROVE  \A n \in NetworkId : NicCount(r, n) <= NicCount(s, n)
  BY CountType DEF NicCount

\* One slot replaced.
LEMMA SlotPut ==
  ASSUME NEW sl, NEW next, SlotsOK(sl, next), NEW v \in Vm, NEW x \in Slot, \A w \in x.volumes : w <= next,
         NEW sl2, sl2 = Put(sl, v, x)
  PROVE  SlotsOK(sl2, next)
<1>1. sl2 \in [Vm -> Slot] /\ sl2[v] = x /\ \A m \in Vm \ {v} : sl2[m] = sl[m]
  BY DEF SlotsOK, Put
<1>. QED BY <1>1 DEF SlotsOK

\* A VM in another state.
LEMMA SlotState ==
  ASSUME NEW sl, NEW next, SlotsOK(sl, next), NEW v \in Vm, sl[v] # NoVm, NEW state \in {"halted", "stopped"},
         NEW sl2, sl2 = Put(sl, v, [sl[v] EXCEPT !.state = state])
  PROVE  SlotsOK(sl2, next)
<1>. DEFINE x == [sl[v] EXCEPT !.state = state]
<1>1. sl[v] \in [state : {"created", "halted", "stopped"}, volumes : SUBSET VolumeId, cost : VmCost \cup {0}]
  BY DEF SlotsOK, Slot
<1>2. x \in Slot /\ x.volumes = sl[v].volumes
  BY <1>1 DEF Slot
<1>3. \A w \in x.volumes : w <= next
  BY <1>2 DEF SlotsOK
<1>. HIDE DEF x
<1>. QED BY <1>2, <1>3, SlotPut DEF x

LEMMA StartOK ==
  ASSUME HostInv, NEW t \in Tasks, NEW op, OpOK(op), Start(t, op)
  PROVE  HostInv' /\ Moved(task, task', t, op)
<1>. DEFINE ok == Permitted(op) /\ slots[op.vm].state = "created"
<1>1. op.kind = "start" /\ op.vm \in Vm /\ TasksOK(task) /\ SlotsOK(slots, vault.next)
  BY DEF Start, Begins, OpOK, HostInv
<1>2. ok \in BOOLEAN /\ ReplyOK(op, ok, op.vm, NoAddr)
  BY <1>1 DEF ReplyOK
<1>3. Reply(t, op, ok, op.vm, 0) /\ UNCHANGED <<fixed, vault, nets, accounts>>
  BY DEF Start
<1>. HIDE DEF ok
<1>4. Moved(task, task', t, op) /\ task'[t].pc \in QuietPc
  BY <1>1, <1>2, <1>3, ReplyMoves
<1>5. SlotsOK(slots', vault.next)
  <2>1. CASE ok
    <3>1. slots[op.vm] # NoVm
      BY <2>1 DEF ok, NoVm
    <3>2. slots' = Put(slots, op.vm, [slots[op.vm] EXCEPT !.state = "halted"])
      BY <2>1 DEF Start, ok, Put
    <3>. QED BY <1>1, <3>1, <3>2, SlotState
  <2>2. CASE ~ok
    BY <2>2, <1>1 DEF Start, ok
  <2>. QED BY <2>1, <2>2
<1>. QED BY <1>3, <1>4, <1>5, SlotStep

LEMMA StopOK ==
  ASSUME HostInv, NEW t \in Tasks, NEW op, OpOK(op), Stop(t, op)
  PROVE  HostInv' /\ Moved(task, task', t, op)
<1>. DEFINE ok == Permitted(op) /\ slots[op.vm] # NoVm
<1>1. op.kind = "stop" /\ op.vm \in Vm /\ TasksOK(task) /\ SlotsOK(slots, vault.next)
  BY DEF Stop, Begins, OpOK, HostInv
<1>2. ok \in BOOLEAN /\ ReplyOK(op, ok, op.vm, NoAddr)
  BY <1>1 DEF ReplyOK
<1>3. Reply(t, op, ok, op.vm, 0) /\ UNCHANGED <<fixed, vault, nets, accounts>>
  BY DEF Stop
<1>4. Moved(task, task', t, op) /\ task'[t].pc \in QuietPc
  <2>. HIDE DEF ok
  <2>. QED BY <1>1, <1>2, <1>3, ReplyMoves
<1>5. SlotsOK(slots', vault.next)
  <2>1. CASE slots' = slots
    BY <2>1, <1>1
  <2>2. CASE slots' # slots
    <3>1. slots[op.vm] # NoVm /\ slots' = Put(slots, op.vm, [slots[op.vm] EXCEPT !.state = "stopped"])
      BY <2>2 DEF Stop, Put
    <3>. QED BY <1>1, <3>1, SlotState
  <2>. QED BY <2>1, <2>2
<1>. QED BY <1>3, <1>4, <1>5, SlotStep

LEMMA DeleteOK ==
  ASSUME HostInv, NEW t \in Tasks, NEW op, OpOK(op), Delete(t, op)
  PROVE  HostInv' /\ Moved(task, task', t, op)
<1>. DEFINE ok == Permitted(op) /\ slots[op.vm].state \in Terminal
            cost == IF ok THEN slots[op.vm].cost ELSE 0
<1>1. op.kind = "delete" /\ op.vm \in Vm /\ TasksOK(task) /\ SlotsOK(slots, vault.next)
  BY DEF Delete, Begins, OpOK, HostInv
<1>2. ok \in BOOLEAN /\ ReplyOK(op, ok, op.vm, NoAddr)
  BY <1>1 DEF ReplyOK
<1>3. Reply(t, op, ok, op.vm, cost) /\ UNCHANGED <<fixed, vault, nets, accounts>>
  BY DEF Delete
<1>4. Moved(task, task', t, op) /\ task'[t].pc \in QuietPc
  <2>. HIDE DEF ok, cost
  <2>. QED BY <1>1, <1>2, <1>3, ReplyMoves
<1>5. SlotsOK(slots', vault.next)
  <2>1. NoVm \in Slot /\ \A w \in NoVm.volumes : w <= vault.next
    BY DEF Slot, NoVm
  <2>2. slots' = slots \/ slots' = Put(slots, op.vm, NoVm)
    BY DEF Delete, Put
  <2>. QED BY <1>1, <2>1, <2>2, SlotPut
<1>. QED BY <1>3, <1>4, <1>5, SlotStep

LEMMA VolumeDeleteOK ==
  ASSUME HostInv, NEW t \in Tasks, NEW op, OpOK(op), VolumeDelete(t, op)
  PROVE  HostInv' /\ Moved(task, task', t, op)
<1>1. op.kind = "delete_volume" /\ TasksOK(task) /\ UNCHANGED <<fixed, stores, accounts>>
  BY DEF VolumeDelete, Begins, HostInv
<1>2. Goto(t, op, "delete_volume") \/ Reply(t, op, FALSE, op.volume, 0)
  BY DEF VolumeDelete
<1>3. ReplyOK(op, FALSE, op.volume, NoAddr)
  BY DEF ReplyOK
<1>4. CASE Goto(t, op, "delete_volume")
  <2>1. Moved(task, task', t, op) /\ task'[t].pc \in QuietPc
    BY <1>1, <1>4, GotoMoves DEF QuietPc
  <2>. QED BY <1>1, <2>1, StillStep
<1>5. CASE Reply(t, op, FALSE, op.volume, 0)
  <2>1. Moved(task, task', t, op) /\ task'[t].pc \in QuietPc
    BY <1>1, <1>3, <1>5, ReplyMoves
  <2>. QED BY <1>1, <2>1, StillStep
<1>. QED BY <1>2, <1>4, <1>5

\* The volume an attach has seen has a number already handed out.
LEMMA AttachVolumeOK ==
  ASSUME HostInv, NEW t \in Tasks, NEW op, OpOK(op), AttachVolume(t, op)
  PROVE  HostInv' /\ Moved(task, task', t, op)
<1>1. /\ op.kind = "attach_volume" /\ TasksOK(task) /\ UNCHANGED <<fixed, stores, accounts>>
      /\ slots' = slots /\ vault' = vault /\ nets' = nets /\ usage' = usage
      /\ vm_charges' = vm_charges /\ volume_charges' = volume_charges /\ mix' = mix
  BY DEF AttachVolume, Begins, HostInv, fixed, stores, accounts
<1>2. \/ Known(vault, op.volume) /\ Goto(t, op, "attach_volume")
      \/ Reply(t, op, FALSE, 0, 0)
  BY DEF AttachVolume
<1>3. ReplyOK(op, FALSE, 0, NoAddr)
  BY DEF ReplyOK
<1>4. CASE Known(vault, op.volume) /\ Goto(t, op, "attach_volume")
  <2>1. Moved(task, task', t, op) /\ task'[t].pc = "attach_volume" /\ task'[t].op = op
    BY <1>1, <1>4, GotoMoves
  <2>2. op.volume <= vault.next
    BY <1>4, VolumeAssumption DEF Known, HostInv, VaultOK, IsVolumeStore
  <2>3. Attaching(task', vault.next)
    BY <2>1, <2>2 DEF Attaching, Moved, HostInv
  <2>4. Making(task') \subseteq Making(task) /\ \A n : Joining(task', n) \subseteq Joining(task, n)
    BY <2>1 DEF Making, Joining, Moved
  <2>5. VolRoom(vault', task')
    BY <1>1, <2>4, KeepsVolRoom DEF HostInv
  <2>6. \A n \in NetworkId : NicCount(nets', n) <= NicCount(nets, n)
    BY <1>1, SameCount DEF HostInv
  <2>7. NicRoom(nets', task')
    BY <1>1, <2>4, <2>6, KeepsNicRoom DEF HostInv
  <2>8. TasksOK(task')
    BY <2>1 DEF Moved
  <2>. QED BY <1>1, <2>1, <2>3, <2>5, <2>7, <2>8 DEF HostInv
<1>5. CASE Reply(t, op, FALSE, 0, 0)
  <2>1. Moved(task, task', t, op) /\ task'[t].pc \in QuietPc
    BY <1>1, <1>3, <1>5, ReplyMoves
  <2>. QED BY <1>1, <2>1, StillStep
<1>. QED BY <1>2, <1>4, <1>5

LEMMA DetachVolumeOK ==
  ASSUME HostInv, NEW t \in Tasks, NEW op, OpOK(op), DetachVolume(t, op)
  PROVE  HostInv' /\ Moved(task, task', t, op)
<1>. DEFINE ok == Permitted(op) /\ slots[op.vm] # NoVm
            x == [slots[op.vm] EXCEPT !.volumes = slots[op.vm].volumes \ {op.volume}]
<1>1. op.kind = "detach_volume" /\ op.vm \in Vm /\ TasksOK(task) /\ SlotsOK(slots, vault.next)
  BY DEF DetachVolume, Begins, OpOK, HostInv
<1>2. ok \in BOOLEAN /\ ReplyOK(op, ok, op.vm, NoAddr)
  BY <1>1 DEF ReplyOK
<1>3. Reply(t, op, ok, op.vm, 0) /\ UNCHANGED <<fixed, vault, nets, accounts>>
  BY DEF DetachVolume
<1>4. Moved(task, task', t, op) /\ task'[t].pc \in QuietPc
  <2>. HIDE DEF ok
  <2>. QED BY <1>1, <1>2, <1>3, ReplyMoves
<1>5. SlotsOK(slots', vault.next)
  <2>1. CASE slots' = slots
    BY <2>1, <1>1
  <2>2. CASE slots' # slots
    <3>1. slots[op.vm] # NoVm /\ slots' = Put(slots, op.vm, x)
      BY <2>2 DEF DetachVolume, Put
    <3>2. slots[op.vm] \in [state : {"created", "halted", "stopped"}, volumes : SUBSET VolumeId, cost : VmCost \cup {0}]
      BY <1>1, <3>1 DEF SlotsOK, Slot
    <3>3. x \in Slot /\ x.volumes = slots[op.vm].volumes \ {op.volume}
      BY <3>2 DEF Slot
    <3>4. \A w \in x.volumes : w <= vault.next
      BY <1>1, <3>3 DEF SlotsOK
    <3>. HIDE DEF x
    <3>. QED BY <1>1, <3>1, <3>3, <3>4, SlotPut
  <2>. QED BY <2>1, <2>2
<1>. QED BY <1>3, <1>4, <1>5, SlotStep

LEMMA SnapshotCreateOK ==
  ASSUME HostInv, NEW t \in Tasks, NEW op, OpOK(op), Room(op), SnapshotCreate(t, op)
  PROVE  HostInv' /\ Moved(task, task', t, op)
<1>. DEFINE ok == Permitted(op) /\ Known(vault, op.volume)
<1>1. op.kind = "create_snapshot" /\ op.volume \in VolumeId /\ TasksOK(task) /\ VaultOK(vault)
  BY DEF SnapshotCreate, Begins, OpOK, HostInv
<1>2. ok \in BOOLEAN /\ ReplyOK(op, ok, op.volume, NoAddr)
  BY <1>1 DEF ReplyOK
<1>3. Reply(t, op, ok, op.volume, 0) /\ UNCHANGED <<fixed, slots, nets, accounts>>
  BY DEF SnapshotCreate
<1>4. Moved(task, task', t, op) /\ task'[t].pc \in QuietPc
  <2>. HIDE DEF ok
  <2>. QED BY <1>1, <1>2, <1>3, ReplyMoves
<1>5. VaultOK(vault') /\ vault'.next = vault.next
  <2>1. vault.next_snap[op.volume] < MaxSnaps
    BY <1>1 DEF Room
  <2>2. CASE ok
    BY <2>1, <2>2, <1>1, VaultSnapshot DEF SnapshotCreate
  <2>3. CASE ~ok
    BY <2>3, <1>1 DEF SnapshotCreate
  <2>. QED BY <2>2, <2>3
<1>. QED BY <1>3, <1>4, <1>5, VaultStep

LEMMA SnapshotDeleteOK ==
  ASSUME HostInv, NEW t \in Tasks, NEW op, OpOK(op), SnapshotDelete(t, op)
  PROVE  HostInv' /\ Moved(task, task', t, op)
<1>1. op.kind = "delete_snapshot" /\ TasksOK(task) /\ VaultOK(vault)
  BY DEF SnapshotDelete, Begins, HostInv
<1>2. Permitted(op) \in BOOLEAN /\ ReplyOK(op, Permitted(op), 0, NoAddr)
  BY <1>1 DEF ReplyOK, Permitted
<1>3. Reply(t, op, Permitted(op), 0, 0) /\ UNCHANGED <<fixed, slots, nets, accounts>>
  BY DEF SnapshotDelete
<1>4. Moved(task, task', t, op) /\ task'[t].pc \in QuietPc
  BY <1>1, <1>2, <1>3, ReplyMoves
<1>5. VaultOK(vault') /\ vault'.next = vault.next
  BY <1>1, VaultUnsnap DEF SnapshotDelete
<1>. QED BY <1>3, <1>4, <1>5, VaultStep

LEMMA SnapshotRestoreOK ==
  ASSUME HostInv, NEW t \in Tasks, NEW op, OpOK(op), SnapshotRestore(t, op)
  PROVE  HostInv' /\ Moved(task, task', t, op)
<1>. DEFINE ok == Permitted(op) /\ MayRestore(vault, op.snapshot)
<1>1. op.kind = "restore_snapshot" /\ TasksOK(task)
  BY DEF SnapshotRestore, Begins, HostInv
<1>2. ok \in BOOLEAN /\ ReplyOK(op, ok, 0, NoAddr)
  BY <1>1 DEF ReplyOK
<1>3. Reply(t, op, ok, 0, 0) /\ UNCHANGED <<fixed, stores, accounts>>
  BY DEF SnapshotRestore
<1>. HIDE DEF ok
<1>4. Moved(task, task', t, op) /\ task'[t].pc \in QuietPc
  BY <1>1, <1>2, <1>3, ReplyMoves
<1>. QED BY <1>3, <1>4, StillStep

LEMMA NetworkCreateOK ==
  ASSUME HostInv, NEW t \in Tasks, NEW op, OpOK(op), Room(op), NetworkCreate(t, op)
  PROVE  HostInv' /\ Moved(task, task', t, op)
<1>. DEFINE ok == Permitted(op) /\ owner /\ Parses(op.prefix_len)
            cidr == Parse(op.ip, op.prefix_len)
<1>1. /\ op.kind = "create_network" /\ TasksOK(task) /\ NetOK(nets)
      /\ op.ip \in {0, 1} /\ op.prefix_len \in Nat /\ nets.next_net < MaxNetworks
  BY DEF NetworkCreate, Begins, OpOK, HostInv, Room
<1>2. Reply(t, op, ok, nets'.next_net, 0) /\ UNCHANGED <<fixed, slots, vault, accounts>>
  BY DEF NetworkCreate
<1>3. CASE ok
  <2>1. op.ip \in Addr
    <3>1. AddrBits \in Nat /\ AddrBits >= 2
      BY <1>1, <1>3, NetworkAssumption DEF Parses
    <3>2. 2^AddrBits \in Nat /\ AddrBits < 2^AddrBits
      BY <3>1, PowersAssumption
    <3>. QED BY <1>1, <3>1, <3>2 DEF Addr
  <2>2. Block(cidr)
    BY <1>1, <1>3, <2>1, ParseBlock
  <2>3. nets' = CreateNetwork(nets, cidr)
    BY <1>3 DEF NetworkCreate
  <2>. HIDE DEF cidr
  <2>4. /\ NetOK(nets') /\ nets'.next_net \in NetworkId
        /\ nets'.next_nic = Insert(nets.next_nic, nets.next_net + 1, 0)
    BY <1>1, <2>2, <2>3, NetCreate
  <2>5. \A n \in NetworkId : NicCount(nets', n) <= NicCount(nets, n)
    <3>. TAKE n \in NetworkId
    <3>1. NicCount(nets, n) \in Nat
      BY <1>1, CountType
    <3>2. NicCount(nets', n) = NicCount(nets, n) \/ NicCount(nets', n) = 0
      BY <2>4 DEF NicCount, Insert
    <3>. QED BY <3>1, <3>2
  <2>6. ReplyOK(op, TRUE, nets'.next_net, NoAddr) /\ Reply(t, op, TRUE, nets'.next_net, 0)
    BY <1>1, <1>2, <1>3, <2>4 DEF ReplyOK
  <2>7. Moved(task, task', t, op) /\ task'[t].pc \in QuietPc
    BY <1>1, <2>6, ReplyMoves
  <2>. QED BY <1>2, <2>4, <2>5, <2>7, NetStep
<1>4. CASE ~ok
  <2>1. nets' = nets /\ Reply(t, op, FALSE, nets'.next_net, 0) /\ ReplyOK(op, FALSE, nets'.next_net, NoAddr)
    BY <1>4, <1>2 DEF NetworkCreate, ReplyOK
  <2>2. Moved(task, task', t, op) /\ task'[t].pc \in QuietPc
    BY <1>1, <2>1, ReplyMoves
  <2>3. \A n \in NetworkId : NicCount(nets', n) <= NicCount(nets, n)
    BY <1>1, <2>1, SameCount
  <2>4. NetOK(nets')
    BY <1>1, <2>1
  <2>. QED BY <1>2, <2>2, <2>3, <2>4, NetStep
<1>. QED BY <1>3, <1>4

LEMMA NetworkDeleteOK ==
  ASSUME HostInv, NEW t \in Tasks, NEW op, OpOK(op), NetworkDelete(t, op)
  PROVE  HostInv' /\ Moved(task, task', t, op)
<1>. DEFINE ok == Permitted(op) /\ MayDeleteNetwork(nets, op.network)
<1>1. op.kind = "delete_network" /\ TasksOK(task) /\ NetOK(nets)
  BY DEF NetworkDelete, Begins, HostInv
<1>2. ok \in BOOLEAN /\ ReplyOK(op, ok, op.network, NoAddr)
  BY <1>1 DEF ReplyOK
<1>3. Reply(t, op, ok, op.network, 0) /\ UNCHANGED <<fixed, slots, vault, accounts>>
  BY DEF NetworkDelete
<1>4. Moved(task, task', t, op) /\ task'[t].pc \in QuietPc
  <2>. HIDE DEF ok
  <2>. QED BY <1>1, <1>2, <1>3, ReplyMoves
<1>5. NetOK(nets') /\ \A n \in NetworkId : NicCount(nets', n) <= NicCount(nets, n)
  <2>1. CASE ok
    <3>1. nets' = DeleteNetwork(nets, op.network)
      BY <2>1 DEF NetworkDelete
    <3>2. NetOK(nets') /\ nets'.next_nic = Remove(nets.next_nic, op.network)
      BY <1>1, <2>1, <3>1, NetDelete
    <3>3. ASSUME NEW n \in NetworkId PROVE NicCount(nets', n) <= NicCount(nets, n)
      <4>1. NicCount(nets, n) \in Nat
        BY <1>1, CountType
      <4>2. NicCount(nets', n) = NicCount(nets, n) \/ NicCount(nets', n) = 0
        BY <3>2 DEF NicCount, Remove, Restrict
      <4>. QED BY <4>1, <4>2
    <3>. QED BY <3>2, <3>3
  <2>2. CASE ~ok
    <3>1. nets' = nets
      BY <2>2 DEF NetworkDelete
    <3>. QED BY <3>1, <1>1, SameCount
  <2>. QED BY <2>1, <2>2
<1>. QED BY <1>3, <1>4, <1>5, NetStep

\* A NIC's attach begins only if a number is left for it.
LEMMA NicAttachOK ==
  ASSUME HostInv, NEW t \in Tasks, NEW op, OpOK(op), Room(op), NicAttach(t, op)
  PROVE  HostInv' /\ Moved(task, task', t, op)
<1>1. /\ op.kind = "attach_nic" /\ op.network \in NetworkId /\ TasksOK(task) /\ NetOK(nets)
      /\ UNCHANGED <<fixed, stores, accounts>> /\ task[t].pc = "idle"
      /\ slots' = slots /\ vault' = vault /\ nets' = nets /\ usage' = usage
      /\ vm_charges' = vm_charges /\ volume_charges' = volume_charges /\ mix' = mix
  BY DEF NicAttach, Begins, OpOK, HostInv, fixed, stores, accounts
<1>2. Goto(t, op, "attach_nic") \/ Reply(t, op, FALSE, 0, 0)
  BY DEF NicAttach
<1>3. ReplyOK(op, FALSE, 0, NoAddr)
  BY DEF ReplyOK
<1>4. CASE Goto(t, op, "attach_nic")
  <2>1. Moved(task, task', t, op) /\ task'[t].pc = "attach_nic" /\ task'[t].op = op
    BY <1>1, <1>4, GotoMoves
  <2>2. Attaching(task', vault.next) /\ Making(task') \subseteq Making(task)
    BY <2>1 DEF Attaching, Making, Moved, HostInv
  <2>3. VolRoom(vault', task')
    BY <1>1, <2>2, KeepsVolRoom DEF HostInv
  <2>4. NicRoom(nets', task')
    <3>. SUFFICES ASSUME NEW n \in NetworkId
                  PROVE  NicCount(nets, n) + Cardinality(Joining(task', n)) <= MaxNics
      BY <1>1 DEF NicRoom
    <3>. DEFINE S == {u \in DOMAIN task : task[u].op.kind = "attach_nic"}
    <3>1. /\ Joining(task, n) \subseteq Tasks /\ Joining(task', n) \subseteq Tasks
          /\ NicCount(nets, n) + Cardinality(Joining(task, n)) <= MaxNics
          /\ NicCount(nets, n) \in Nat
      BY <1>1, CountType DEF Joining, HostInv, NicRoom
    <3>2. /\ Cardinality(Joining(task, n)) \in Nat /\ Cardinality(Joining(task', n)) \in Nat
      BY <3>1, FiniteTasks
    <3>3. CASE n # op.network
      <4>1. Joining(task', n) \subseteq Joining(task, n)
        BY <2>1, <3>3 DEF Joining, Moved
      <4>2. Cardinality(Joining(task', n)) <= Cardinality(Joining(task, n))
        BY <4>1, <3>1, Smaller
      <4>. QED BY <4>2, <3>1, <3>2, NetworkAssumption
    <3>4. CASE n = op.network
      <4>1. S \subseteq Tasks /\ Joining(task, n) \subseteq S
        BY <1>1 DEF TasksOK, Joining, TaskOK
      <4>2. Joining(task', n) \subseteq Joining(task, n) \cup {t}
        BY <2>1 DEF Joining, Moved
      <4>3. Cardinality(Joining(task', n)) <= Cardinality(Joining(task, n)) + 1
        BY <4>2, <3>1, OneMore
      <4>4. Cardinality(Joining(task, n)) <= Cardinality(S) /\ Cardinality(S) \in Nat
        BY <4>1, Smaller, FiniteTasks
      <4>5. NicCount(nets, n) + Cardinality(S) < MaxNics
        BY <1>1, <3>4 DEF Room, InFlight, NicCount
      <4>. HIDE DEF S
      <4>. QED BY <4>3, <4>4, <4>5, <3>1, <3>2, NetworkAssumption
    <3>. QED BY <3>3, <3>4
  <2>5. TasksOK(task')
    BY <2>1 DEF Moved
  <2>. QED BY <1>1, <2>1, <2>2, <2>3, <2>4, <2>5 DEF HostInv
<1>5. CASE Reply(t, op, FALSE, 0, 0)
  <2>1. Moved(task, task', t, op) /\ task'[t].pc \in QuietPc
    BY <1>1, <1>3, <1>5, ReplyMoves
  <2>. QED BY <1>1, <2>1, StillStep
<1>. QED BY <1>2, <1>4, <1>5

LEMMA NicDetachOK ==
  ASSUME HostInv, NEW t \in Tasks, NEW op, OpOK(op), NicDetach(t, op)
  PROVE  HostInv' /\ Moved(task, task', t, op)
<1>1. op.kind = "detach_nic" /\ TasksOK(task) /\ NetOK(nets)
  BY DEF NicDetach, Begins, HostInv
<1>2. Permitted(op) \in BOOLEAN /\ ReplyOK(op, Permitted(op), 0, NoAddr)
  BY <1>1 DEF ReplyOK, Permitted
<1>3. Reply(t, op, Permitted(op), 0, 0) /\ UNCHANGED <<fixed, slots, vault, accounts>>
  BY DEF NicDetach
<1>4. Moved(task, task', t, op) /\ task'[t].pc \in QuietPc
  BY <1>1, <1>2, <1>3, ReplyMoves
<1>5. NetOK(nets') /\ nets'.next_nic = nets.next_nic
  BY <1>1, NetDetach DEF NicDetach
<1>6. \A n \in NetworkId : NicCount(nets', n) <= NicCount(nets, n)
  BY <1>1, <1>5, SameCount
<1>. QED BY <1>3, <1>4, <1>5, <1>6, NetStep

LEMMA SgCreateOK ==
  ASSUME HostInv, NEW t \in Tasks, NEW op, OpOK(op), Room(op), SgCreate(t, op)
  PROVE  HostInv' /\ Moved(task, task', t, op)
<1>. DEFINE ok == Permitted(op) /\ owner /\ ValidRule(op.rule)
<1>1. op.kind = "create_sg" /\ TasksOK(task) /\ NetOK(nets) /\ nets.next_sg < MaxSgs
  BY DEF SgCreate, Begins, HostInv, Room
<1>2. Reply(t, op, ok, nets'.next_sg, 0) /\ UNCHANGED <<fixed, slots, vault, accounts>>
      /\ nets' = IF ok THEN CreateSecurityGroup(nets) ELSE nets
  BY DEF SgCreate
<1>3. NetOK(nets') /\ nets'.next_nic = nets.next_nic
  <2>1. CASE ok
    BY <2>1, <1>1, <1>2, NetSg
  <2>2. CASE ~ok
    BY <2>2, <1>1, <1>2
  <2>. QED BY <2>1, <2>2
<1>4. Moved(task, task', t, op) /\ task'[t].pc \in QuietPc
  <2>1. CASE ok
    <3>1. Reply(t, op, TRUE, nets'.next_sg, 0) /\ ReplyOK(op, TRUE, nets'.next_sg, NoAddr)
      BY <2>1, <1>1, <1>2 DEF ReplyOK
    <3>. QED BY <1>1, <3>1, ReplyMoves
  <2>2. CASE ~ok
    <3>1. Reply(t, op, FALSE, nets'.next_sg, 0) /\ ReplyOK(op, FALSE, nets'.next_sg, NoAddr)
      BY <2>2, <1>2 DEF ReplyOK
    <3>. QED BY <1>1, <3>1, ReplyMoves
  <2>. QED BY <2>1, <2>2
<1>5. \A n \in NetworkId : NicCount(nets', n) <= NicCount(nets, n)
  BY <1>1, <1>3, SameCount
<1>. QED BY <1>2, <1>3, <1>4, <1>5, NetStep

LEMMA SgDeleteOK ==
  ASSUME HostInv, NEW t \in Tasks, NEW op, OpOK(op), SgDelete(t, op)
  PROVE  HostInv' /\ Moved(task, task', t, op)
<1>1. op.kind = "delete_sg" /\ TasksOK(task) /\ NetOK(nets)
  BY DEF SgDelete, Begins, HostInv
<1>2. Permitted(op) \in BOOLEAN /\ ReplyOK(op, Permitted(op), 0, NoAddr)
  BY <1>1 DEF ReplyOK, Permitted
<1>3. Reply(t, op, Permitted(op), 0, 0) /\ UNCHANGED <<fixed, slots, vault, accounts>>
  BY DEF SgDelete
<1>4. Moved(task, task', t, op) /\ task'[t].pc \in QuietPc
  BY <1>1, <1>2, <1>3, ReplyMoves
<1>5. NetOK(nets') /\ nets'.next_nic = nets.next_nic
  BY <1>1, NetUnSg DEF SgDelete
<1>6. \A n \in NetworkId : NicCount(nets', n) <= NicCount(nets, n)
  BY <1>1, <1>5, SameCount
<1>. QED BY <1>3, <1>4, <1>5, <1>6, NetStep

LEMMA LbCreateOK ==
  ASSUME HostInv, NEW t \in Tasks, NEW op, OpOK(op), Room(op), LbCreate(t, op)
  PROVE  HostInv' /\ Moved(task, task', t, op)
<1>. DEFINE ok == Permitted(op) /\ owner /\ MayCreateLb(nets, op.network, op.vip, op.backends)
<1>1. /\ op.kind = "create_lb" /\ TasksOK(task) /\ NetOK(nets) /\ nets.next_lb < MaxLbs
      /\ op.vip \in Addr /\ op.backends \in Seq(LbBackend)
  BY DEF LbCreate, Begins, HostInv, Room, OpOK
<1>2. Reply(t, op, ok, nets'.next_lb, 0) /\ UNCHANGED <<fixed, slots, vault, accounts>>
      /\ nets' = IF ok THEN CreateLb(nets, op.network, op.vip, op.backends) ELSE nets
  BY DEF LbCreate
<1>3. NetOK(nets') /\ nets'.next_nic = nets.next_nic /\ (ok => nets'.next_lb \in LbId)
  <2>1. CASE ok
    BY <2>1, <1>1, <1>2, NetLb
  <2>2. CASE ~ok
    BY <2>2, <1>1, <1>2
  <2>. QED BY <2>1, <2>2
<1>4. Moved(task, task', t, op) /\ task'[t].pc \in QuietPc
  <2>1. CASE ok
    <3>1. Reply(t, op, TRUE, nets'.next_lb, 0) /\ ReplyOK(op, TRUE, nets'.next_lb, NoAddr)
      BY <2>1, <1>1, <1>2, <1>3 DEF ReplyOK
    <3>. QED BY <1>1, <3>1, ReplyMoves
  <2>2. CASE ~ok
    <3>1. Reply(t, op, FALSE, nets'.next_lb, 0) /\ ReplyOK(op, FALSE, nets'.next_lb, NoAddr)
      BY <2>2, <1>2 DEF ReplyOK
    <3>. QED BY <1>1, <3>1, ReplyMoves
  <2>. QED BY <2>1, <2>2
<1>5. \A n \in NetworkId : NicCount(nets', n) <= NicCount(nets, n)
  BY <1>1, <1>3, SameCount
<1>. QED BY <1>2, <1>3, <1>4, <1>5, NetStep

LEMMA LbDeleteOK ==
  ASSUME HostInv, NEW t \in Tasks, NEW op, OpOK(op), LbDelete(t, op)
  PROVE  HostInv' /\ Moved(task, task', t, op)
<1>1. op.kind = "delete_lb" /\ TasksOK(task) /\ NetOK(nets)
  BY DEF LbDelete, Begins, HostInv
<1>2. Permitted(op) \in BOOLEAN /\ ReplyOK(op, Permitted(op), 0, NoAddr)
  BY <1>1 DEF ReplyOK, Permitted
<1>3. Reply(t, op, Permitted(op), 0, 0) /\ UNCHANGED <<fixed, slots, vault, accounts>>
  BY DEF LbDelete
<1>4. Moved(task, task', t, op) /\ task'[t].pc \in QuietPc
  BY <1>1, <1>2, <1>3, ReplyMoves
<1>5. NetOK(nets') /\ nets'.next_nic = nets.next_nic
  BY <1>1, NetUnLb DEF LbDelete
<1>6. \A n \in NetworkId : NicCount(nets', n) <= NicCount(nets, n)
  BY <1>1, <1>5, SameCount
<1>. QED BY <1>3, <1>4, <1>5, <1>6, NetStep

\* The charge: a volume's creation begins only if a number is left for it.
LEMMA ChargeOK ==
  ASSUME HostInv, NEW t \in Tasks, NEW op, OpOK(op), Room(op), Charge(t, op)
  PROVE  HostInv' /\ Moved(task, task', t, op)
<1>. DEFINE within == WithinQuota(Plus(usage, ChargeFor(op)))
<1>1. /\ op.kind \in Creating /\ TasksOK(task) /\ UsageOK(usage) /\ mix' = mix
      /\ slots' = slots /\ vault' = vault /\ nets' = nets
      /\ vm_charges' = vm_charges /\ volume_charges' = volume_charges
  BY DEF Charge, HostInv, fixed, stores
<1>2. \A n \in NetworkId : NicCount(nets', n) <= NicCount(nets, n)
  BY <1>1, SameCount DEF HostInv
<1>3. CASE within
  <2>1. usage' = Plus(usage, ChargeFor(op)) /\ Goto(t, op, "host")
    BY <1>3 DEF Charge
  <2>2. UsageOK(usage')
    BY <1>1, <1>3, <2>1, ChargeType, PlusType
  <2>3. Moved(task, task', t, op) /\ task'[t].pc = "host" /\ task'[t].op = op
    BY <1>1, <2>1, GotoMoves
  <2>4. Attaching(task', vault.next) /\ \A n : Joining(task', n) \subseteq Joining(task, n)
    BY <2>3 DEF Attaching, Joining, Moved, HostInv
  <2>5. NicRoom(nets', task')
    BY <1>1, <1>2, <2>4, KeepsNicRoom DEF HostInv
  <2>6. VolRoom(vault', task')
    <3>1. CASE op.kind = "create_volume"
      <4>. DEFINE S == {u \in DOMAIN task : task[u].op.kind = "create_volume"}
      <4>1. S \subseteq Tasks /\ Making(task) \subseteq S /\ Making(task) \subseteq Tasks
        BY <1>1 DEF TasksOK, Making
      <4>2. Making(task') \subseteq Making(task) \cup {t} /\ Making(task') \subseteq Tasks
        BY <2>3 DEF Making, Moved
      <4>3. Cardinality(Making(task')) <= Cardinality(Making(task)) + 1
        BY <4>1, <4>2, OneMore
      <4>4. /\ Cardinality(Making(task)) <= Cardinality(S) /\ Cardinality(S) \in Nat
            /\ Cardinality(Making(task)) \in Nat /\ Cardinality(Making(task')) \in Nat
        BY <4>1, <4>2, Smaller, FiniteTasks
      <4>5. vault.next + Cardinality(S) < MaxVolumes /\ vault.next \in Nat
        BY <3>1 DEF Room, InFlight, HostInv, VaultOK, IsVolumeStore
      <4>. HIDE DEF S
      <4>. QED BY <1>1, <4>3, <4>4, <4>5, VolumeAssumption DEF VolRoom
    <3>2. CASE op.kind # "create_volume"
      <4>1. Making(task') \subseteq Making(task)
        BY <3>2, <2>3 DEF Making, Moved
      <4>. QED BY <4>1, <1>1, KeepsVolRoom DEF HostInv
    <3>. QED BY <3>1, <3>2
  <2>7. TasksOK(task')
    BY <2>3 DEF Moved
  <2>. QED BY <1>1, <2>2, <2>3, <2>4, <2>5, <2>6, <2>7 DEF HostInv
<1>4. CASE ~within
  <2>1. usage' = usage /\ Answer(t, op, NoReply)
    BY <1>4 DEF Charge
  <2>2. ReplyOK(op, NoReply.ok, NoReply.id, NoReply.ip)
    BY DEF ReplyOK, NoReply
  <2>3. Moved(task, task', t, op) /\ task'[t].pc \in QuietPc
    BY <1>1, <2>1, <2>2, AnswerMoves
  <2>4. /\ SlotsOK(slots', vault'.next) /\ VaultOK(vault') /\ vault'.next = vault.next /\ NetOK(nets')
        /\ UsageOK(usage') /\ ChargesOK(vm_charges', Vm) /\ ChargesOK(volume_charges', VolumeId)
    BY <1>1, <2>1 DEF HostInv
  <2>. QED BY <1>1, <1>2, <2>3, <2>4, QuietStep
<1>. QED BY <1>3, <1>4

\* Every handler's first step.
LEMMA HandleOK ==
  ASSUME HostInv, NEW t \in Tasks, NEW op, OpOK(op), Handle(t, op)
  PROVE  HostInv' /\ Moved(task, task', t, op)
<1>1. Room(op)
  BY DEF Handle
<1>2. CASE Charge(t, op) BY <1>1, <1>2, ChargeOK
<1>3. CASE Start(t, op) BY <1>3, StartOK
<1>4. CASE Stop(t, op) BY <1>4, StopOK
<1>5. CASE Delete(t, op) BY <1>5, DeleteOK
<1>6. CASE VolumeDelete(t, op) BY <1>6, VolumeDeleteOK
<1>7. CASE AttachVolume(t, op) BY <1>7, AttachVolumeOK
<1>8. CASE DetachVolume(t, op) BY <1>8, DetachVolumeOK
<1>9. CASE SnapshotCreate(t, op) BY <1>1, <1>9, SnapshotCreateOK
<1>10. CASE SnapshotDelete(t, op) BY <1>10, SnapshotDeleteOK
<1>11. CASE SnapshotRestore(t, op) BY <1>11, SnapshotRestoreOK
<1>12. CASE NetworkCreate(t, op) BY <1>1, <1>12, NetworkCreateOK
<1>13. CASE NetworkDelete(t, op) BY <1>13, NetworkDeleteOK
<1>14. CASE NicAttach(t, op) BY <1>1, <1>14, NicAttachOK
<1>15. CASE NicDetach(t, op) BY <1>15, NicDetachOK
<1>16. CASE SgCreate(t, op) BY <1>1, <1>16, SgCreateOK
<1>17. CASE SgDelete(t, op) BY <1>17, SgDeleteOK
<1>18. CASE LbCreate(t, op) BY <1>1, <1>18, LbCreateOK
<1>19. CASE LbDelete(t, op) BY <1>19, LbDeleteOK
<1>. QED
  BY <1>2, <1>3, <1>4, <1>5, <1>6, <1>7, <1>8, <1>9, <1>10, <1>11, <1>12, <1>13, <1>14, <1>15,
     <1>16, <1>17, <1>18, <1>19 DEF Handle

LEMMA CreateOK ==
  ASSUME HostInv, NEW t \in Tasks, Create(t)
  PROVE  HostInv' /\ Moved(task, task', t, task[t].op)
<1>. DEFINE op == task[t].op
            ok == Permitted(op) /\ FreeSlots # {}
            v == Min(FreeSlots)
            x == [NoVm EXCEPT !.state = "created", !.cost = op.cost]
<1>1. /\ op.kind = "create" /\ TasksOK(task) /\ SlotsOK(slots, vault.next)
      /\ OpOK(op) /\ op.cost \in VmCost \cup {0}
  BY DEF Create, HostInv, TasksOK, TaskOK, OpOK
<1>2. /\ slots' = IF ok THEN [slots EXCEPT ![v] = x] ELSE slots
      /\ Reply(t, op, ok, IF ok THEN v ELSE 0, 0) /\ UNCHANGED <<fixed, vault, nets, accounts>>
  BY DEF Create
<1>3. FreeSlots \subseteq Nat /\ (ok => v \in Vm)
  <2>1. FreeSlots \subseteq Vm /\ Vm \subseteq Nat
    BY HostAssumption DEF FreeSlots, Vm
  <2>. QED BY <2>1, MinOf
<1>4. x \in Slot /\ x.volumes = {}
  BY <1>1 DEF Slot, NoVm
<1>. HIDE DEF op, v, x
<1>5. CASE ok
  <2>1. slots' = Put(slots, v, x) /\ Reply(t, op, TRUE, v, 0)
    BY <1>2, <1>5 DEF Put
  <2>2. ReplyOK(op, TRUE, v, NoAddr)
    BY <1>1, <1>3, <1>5 DEF ReplyOK
  <2>3. Moved(task, task', t, op) /\ task'[t].pc \in QuietPc
    BY <1>1, <2>1, <2>2, ReplyMoves
  <2>4. SlotsOK(slots', vault.next)
    BY <1>1, <1>3, <1>4, <1>5, <2>1, SlotPut
  <2>. QED BY <1>2, <2>3, <2>4, SlotStep DEF op
<1>6. CASE ~ok
  <2>1. slots' = slots /\ Reply(t, op, FALSE, 0, 0) /\ ReplyOK(op, FALSE, 0, NoAddr)
    BY <1>2, <1>6 DEF ReplyOK
  <2>2. Moved(task, task', t, op) /\ task'[t].pc \in QuietPc
    BY <1>1, <2>1, ReplyMoves
  <2>. QED BY <1>1, <1>2, <2>1, <2>2, SlotStep DEF op
<1>. QED BY <1>5, <1>6

LEMMA VolumeCreateOK ==
  ASSUME HostInv, NEW t \in Tasks, VolumeCreate(t)
  PROVE  HostInv' /\ Moved(task, task', t, task[t].op)
<1>. DEFINE op == task[t].op
            ok == Permitted(op) /\ owner /\ ValidSize(op.size)
<1>1. /\ op.kind = "create_volume" /\ task[t].pc = "host" /\ TasksOK(task) /\ SlotsOK(slots, vault.next)
      /\ OpOK(op) /\ op.size \in Nat /\ VaultOK(vault) /\ vault.next \in Nat
  BY DEF VolumeCreate, HostInv, TasksOK, TaskOK, OpOK, VaultOK, IsVolumeStore
<1>2. /\ vault' = IF ok THEN CreateVolume(vault, op.size) ELSE vault
      /\ Reply(t, op, ok, IF ok THEN NextVolumeId(vault) ELSE 0, 0)
      /\ UNCHANGED <<fixed, slots, nets, accounts>>
  BY DEF VolumeCreate
<1>3. t \in Making(task) /\ Making(task) \subseteq Tasks
  BY <1>1 DEF Making
<1>. HIDE DEF op
<1>4. CASE ok
  <2>1. vault' = CreateVolume(vault, op.size) /\ Reply(t, op, TRUE, NextVolumeId(vault), 0)
    BY <1>2, <1>4
  <2>2. Cardinality(Making(task)) \in Nat /\ vault.next + Cardinality(Making(task)) <= MaxVolumes
    BY <1>3, FiniteTasks DEF HostInv, VolRoom
  <2>3. 1 <= Cardinality(Making(task))
    <3>1. {} \subseteq Making(task) \ {t}
      OBVIOUS
    <3>2. Cardinality({}) + 1 <= Cardinality(Making(task))
      BY <1>3, <3>1, OneLess
    <3>. QED BY <3>2, FS_EmptySet
  <2>4. vault.next < MaxVolumes
    BY <1>1, <2>2, <2>3, VolumeAssumption
  <2>5. VaultOK(vault') /\ vault'.next = vault.next + 1
    BY <1>1, <1>4, <2>1, <2>4, VaultCreate
  <2>6. ReplyOK(op, TRUE, NextVolumeId(vault), NoAddr)
    BY <1>1, <2>4, VolumeAssumption DEF ReplyOK, NextVolumeId, VolumeId
  <2>7. Moved(task, task', t, op) /\ task'[t].pc \in QuietPc
    BY <1>1, <2>1, <2>6, ReplyMoves
  <2>8. /\ Making(task') \subseteq Making(task) \ {t}
        /\ \A n : Joining(task', n) \subseteq Joining(task, n)
        /\ Attaching(task', vault.next)
    BY <2>7, QuietMove DEF HostInv
  <2>9. VolRoom(vault', task')
    <3>1. Cardinality(Making(task')) + 1 <= Cardinality(Making(task))
      BY <1>3, <2>8, OneLess
    <3>2. Cardinality(Making(task')) \in Nat
      BY <2>8, <1>3, FiniteTasks
    <3>. QED BY <1>1, <2>2, <2>5, <3>1, <3>2, VolumeAssumption DEF VolRoom
  <2>10. /\ slots' = slots /\ nets' = nets /\ usage' = usage /\ vm_charges' = vm_charges
         /\ volume_charges' = volume_charges /\ mix' = mix
    BY <1>2 DEF fixed, accounts
  <2>11. \A n \in NetworkId : NicCount(nets', n) <= NicCount(nets, n)
    BY <2>10, SameCount DEF HostInv
  <2>12. NicRoom(nets', task')
    BY <2>8, <2>10, <2>11, KeepsNicRoom DEF HostInv
  <2>13. SlotsOK(slots', vault'.next)
    <3>1. \A m \in Vm : slots[m].volumes \subseteq Nat
      BY <1>1, VolumeAssumption DEF SlotsOK, Slot, VolumeId, NoVm
    <3>. QED BY <1>1, <2>5, <2>10, <3>1 DEF SlotsOK
  <2>14. Attaching(task', vault'.next)
    <3>1. TasksOK(task')
      BY <2>7 DEF Moved
    <3>2. \A u \in Tasks : task'[u].pc = "attach_volume" => task'[u].op.volume \in Nat
      BY <3>1, VolumeAssumption DEF TasksOK, TaskOK, OpOK, VolumeId
    <3>. QED BY <2>8, <2>5, <1>1, <3>2 DEF Attaching
  <2>15. TasksOK(task')
    BY <2>7 DEF Moved
  <2>. QED BY <2>5, <2>7, <2>9, <2>10, <2>12, <2>13, <2>14, <2>15 DEF HostInv, op
<1>5. CASE ~ok
  <2>1. vault' = vault /\ Reply(t, op, FALSE, 0, 0) /\ ReplyOK(op, FALSE, 0, NoAddr)
    BY <1>2, <1>5 DEF ReplyOK
  <2>2. Moved(task, task', t, op) /\ task'[t].pc \in QuietPc
    BY <1>1, <2>1, ReplyMoves
  <2>. QED BY <1>1, <1>2, <2>1, <2>2, VaultStep DEF op
<1>. QED BY <1>4, <1>5

LEMMA VolumeDelete2OK ==
  ASSUME HostInv, NEW t \in Tasks, VolumeDelete2(t)
  PROVE  HostInv' /\ Moved(task, task', t, task[t].op)
<1>. DEFINE op == task[t].op
            cost == IF Known(vault, op.volume) THEN vault.rows[op.volume] ELSE 0
<1>1. /\ op.kind = "delete_volume" /\ TasksOK(task) /\ OpOK(op) /\ op.volume \in VolumeId /\ VaultOK(vault)
  BY DEF VolumeDelete2, HostInv, TasksOK, TaskOK, OpOK
<1>2. /\ vault' = DeleteVolume(vault, op.volume) /\ Reply(t, op, TRUE, op.volume, cost)
      /\ UNCHANGED <<fixed, slots, nets, accounts>>
  BY DEF VolumeDelete2
<1>3. ReplyOK(op, TRUE, op.volume, NoAddr)
  BY <1>1 DEF ReplyOK
<1>. HIDE DEF op, cost
<1>4. Moved(task, task', t, op) /\ task'[t].pc \in QuietPc
  BY <1>1, <1>2, <1>3, ReplyMoves
<1>5. VaultOK(vault') /\ vault'.next = vault.next
  BY <1>1, <1>2, VaultDelete
<1>. QED BY <1>2, <1>4, <1>5, VaultStep DEF op

LEMMA AttachVolume2OK ==
  ASSUME HostInv, NEW t \in Tasks, AttachVolume2(t)
  PROVE  HostInv' /\ Moved(task, task', t, task[t].op)
<1>. DEFINE op == task[t].op
            ok == slots[op.vm] # NoVm /\ op.volume \notin slots[op.vm].volumes
            x == [slots[op.vm] EXCEPT !.volumes = slots[op.vm].volumes \cup {op.volume}]
<1>1. /\ op.kind = "attach_volume" /\ TasksOK(task) /\ OpOK(op) /\ op.volume \in VolumeId /\ op.vm \in Vm
      /\ op.volume <= vault.next /\ SlotsOK(slots, vault.next)
  BY DEF AttachVolume2, HostInv, TasksOK, TaskOK, OpOK, Attaching
<1>2. /\ slots' = IF ok THEN Put(slots, op.vm, x) ELSE slots
      /\ Reply(t, op, ok, op.vm, 0) /\ UNCHANGED <<fixed, vault, nets, accounts>>
  BY DEF AttachVolume2, Put
<1>3. ok \in BOOLEAN /\ ReplyOK(op, ok, op.vm, NoAddr)
  BY <1>1 DEF ReplyOK
<1>4. SlotsOK(slots', vault.next)
  <2>1. CASE ok
    <3>1. slots[op.vm] \in [state : {"created", "halted", "stopped"}, volumes : SUBSET VolumeId, cost : VmCost \cup {0}]
      BY <1>1, <2>1 DEF SlotsOK, Slot
    <3>2. x \in Slot /\ x.volumes = slots[op.vm].volumes \cup {op.volume}
      BY <1>1, <3>1 DEF Slot
    <3>3. \A w \in x.volumes : w <= vault.next
      BY <1>1, <3>2 DEF SlotsOK
    <3>4. slots' = Put(slots, op.vm, x)
      BY <1>2, <2>1
    <3>. HIDE DEF x, op
    <3>. QED BY <1>1, <3>2, <3>3, <3>4, SlotPut
  <2>2. CASE ~ok
    BY <1>1, <1>2, <2>2
  <2>. QED BY <2>1, <2>2
<1>. HIDE DEF op, ok
<1>5. Moved(task, task', t, op) /\ task'[t].pc \in QuietPc
  BY <1>1, <1>2, <1>3, ReplyMoves
<1>. QED BY <1>2, <1>4, <1>5, SlotStep DEF op

LEMMA NicAttach2OK ==
  ASSUME HostInv, NEW t \in Tasks, NicAttach2(t)
  PROVE  HostInv' /\ Moved(task, task', t, task[t].op)
<1>. DEFINE op == task[t].op
            n == op.network
            ok == MayAttachNic(nets, n, op.ip)
            id == NextNicId(nets, n)
            reply == IF ok THEN [ok |-> TRUE, id |-> id, ip |-> nets'.nics[id].ip] ELSE NoReply
<1>1. /\ op.kind = "attach_nic" /\ task[t].pc = "attach_nic" /\ TasksOK(task) /\ OpOK(op)
      /\ n \in NetworkId /\ op.vm \in Vm /\ op.ip \in Addr \cup {NoAddr} /\ NetOK(nets)
  BY DEF NicAttach2, HostInv, TasksOK, TaskOK, OpOK
<1>2. /\ nets' = IF ok THEN AttachNic(nets, n, op.vm, op.ip) ELSE nets
      /\ Answer(t, op, reply) /\ UNCHANGED <<fixed, slots, vault, accounts>>
  BY DEF NicAttach2
<1>3. t \in Joining(task, n) /\ Joining(task, n) \subseteq Tasks
  BY <1>1 DEF Joining
<1>4. CASE ok
  <2>. HIDE DEF op
  <2>1. /\ Cardinality(Joining(task, n)) \in Nat /\ NicCount(nets, n) \in Nat
        /\ NicCount(nets, n) + Cardinality(Joining(task, n)) <= MaxNics
        /\ NicCount(nets, n) = nets.next_nic[n]
    <3>1. n \in DOMAIN nets.next_nic
      BY <1>1, <1>4 DEF MayAttachNic, NetOK, IsNetworkStore
    <3>2. NicCount(nets, n) = nets.next_nic[n]
      BY <3>1 DEF NicCount
    <3>3. Cardinality(Joining(task, n)) \in Nat
      BY <1>3, FiniteTasks
    <3>4. NicCount(nets, n) + Cardinality(Joining(task, n)) <= MaxNics
      BY <1>1 DEF HostInv, NicRoom
    <3>5. NicCount(nets, n) \in Nat
      BY <1>1, CountType
    <3>. QED BY <3>2, <3>3, <3>4, <3>5
  <2>2. 1 <= Cardinality(Joining(task, n))
    <3>1. {} \subseteq Joining(task, n) \ {t}
      OBVIOUS
    <3>2. Cardinality({}) + 1 <= Cardinality(Joining(task, n))
      BY <1>3, <3>1, OneLess
    <3>. QED BY <3>2, FS_EmptySet
  <2>3. nets.next_nic[n] < MaxNics /\ op.vm \in NicVm
    BY <1>1, <2>1, <2>2, NetworkAssumption, HostAssumption DEF Vm
  <2>4. nets' = AttachNic(nets, n, op.vm, op.ip)
    BY <1>2, <1>4
  <2>4a. MayAttachNic(nets, n, op.ip) /\ id = NextNicId(nets, n) /\ n \in DOMAIN nets.next_nic
    BY <1>1, <1>4 DEF MayAttachNic, NetOK, IsNetworkStore
  <2>. HIDE DEF n, id, ok
  <2>5. /\ NetOK(nets')
        /\ DOMAIN nets'.next_nic = DOMAIN nets.next_nic /\ nets'.next_nic[n] = nets.next_nic[n] + 1
        /\ \A x \in DOMAIN nets.next_nic : x # n => nets'.next_nic[x] = nets.next_nic[x]
        /\ id \in NicId /\ nets'.nics[id].ip \in Addr
    BY <1>1, <2>4a, <2>3, <2>4, NetAttach
  <2>6. ReplyOK(op, reply.ok, reply.id, reply.ip)
    BY <1>1, <1>4, <2>5 DEF ReplyOK
  <2>. HIDE DEF reply
  <2>7. Moved(task, task', t, op) /\ task'[t].pc \in QuietPc
    BY <1>1, <1>2, <2>6, AnswerMoves
  <2>8. /\ Making(task') \subseteq Making(task)
        /\ \A m : Joining(task', m) \subseteq Joining(task, m) \ {t}
        /\ Attaching(task', vault.next)
    BY <2>7, QuietMove DEF HostInv
  <2>9. /\ slots' = slots /\ vault' = vault /\ usage' = usage /\ vm_charges' = vm_charges
        /\ volume_charges' = volume_charges /\ mix' = mix
    BY <1>2 DEF fixed, accounts
  <2>10. VolRoom(vault', task')
    BY <2>8, <2>9, KeepsVolRoom DEF HostInv
  <2>11. NicRoom(nets', task')
    <3>. SUFFICES ASSUME NEW m \in NetworkId
                  PROVE  NicCount(nets', m) + Cardinality(Joining(task', m)) <= MaxNics
      BY DEF NicRoom
    <3>1. /\ Joining(task, m) \subseteq Tasks /\ Joining(task', m) \subseteq Joining(task, m) \ {t}
          /\ Joining(task', m) \subseteq Tasks
      BY <2>8 DEF Joining
    <3>2. Cardinality(Joining(task, m)) \in Nat /\ Cardinality(Joining(task', m)) \in Nat
      BY <3>1, FiniteTasks
    <3>3. NicCount(nets, m) \in Nat /\ NicCount(nets, m) + Cardinality(Joining(task, m)) <= MaxNics
      BY <1>1, CountType DEF HostInv, NicRoom
    <3>4. CASE m = n
      <4>1. Cardinality(Joining(task', m)) + 1 <= Cardinality(Joining(task, m))
        BY <1>3, <3>1, <3>4, OneLess
      <4>2. NicCount(nets', m) = NicCount(nets, m) + 1
        BY <2>4a, <2>5, <3>4 DEF NicCount
      <4>. QED BY <4>1, <4>2, <3>2, <3>3, NetworkAssumption
    <3>5. CASE m # n
      <4>1. NicCount(nets', m) = NicCount(nets, m)
        BY <2>5, <3>5 DEF NicCount
      <4>2. Cardinality(Joining(task', m)) <= Cardinality(Joining(task, m))
        BY <3>1, Smaller
      <4>. QED BY <4>1, <4>2, <3>2, <3>3, NetworkAssumption
    <3>. QED BY <3>4, <3>5
  <2>12. TasksOK(task')
    BY <2>7 DEF Moved
  <2>. QED BY <2>5, <2>7, <2>8, <2>9, <2>10, <2>11, <2>12 DEF HostInv, op
<1>5. CASE ~ok
  <2>1. nets' = nets /\ Answer(t, op, NoReply) /\ ReplyOK(op, NoReply.ok, NoReply.id, NoReply.ip)
    BY <1>2, <1>5 DEF ReplyOK, NoReply
  <2>. HIDE DEF op, reply
  <2>2. Moved(task, task', t, op) /\ task'[t].pc \in QuietPc
    BY <1>1, <2>1, AnswerMoves
  <2>3. \A m \in NetworkId : NicCount(nets', m) <= NicCount(nets, m)
    BY <1>1, <2>1, SameCount
  <2>. QED BY <1>1, <1>2, <2>1, <2>2, <2>3, NetStep DEF op
<1>. QED BY <1>4, <1>5

\* Remembering and forgetting a charge.
LEMMA ChargesPut ==
  ASSUME NEW c, NEW S, ChargesOK(c, S), NEW id \in S, NEW a \in Amount
  PROVE  ChargesOK(Insert(c, id, a), S)
  BY DEF ChargesOK, Insert

LEMMA ChargesDrop ==
  ASSUME NEW c, NEW S, ChargesOK(c, S), NEW id
  PROVE  ChargesOK(Remove(c, id), S)
  BY DEF ChargesOK, Remove, Restrict

LEMMA SettleOK ==
  ASSUME HostInv, NEW t \in Tasks, Settle(t)
  PROVE  HostInv' /\ Moved(task, task', t, task[t].op)
<1>. DEFINE op == task[t].op
            reply == task[t].reply
            c == ChargeFor(op)
<1>1. /\ TasksOK(task) /\ OpOK(op) /\ op.kind \in Settled
      /\ ReplyOK(op, reply.ok, reply.id, reply.ip)
  BY DEF Settle, HostInv, TasksOK, TaskOK
<1>2. /\ Answer(t, op, reply)
      /\ slots' = slots /\ vault' = vault /\ nets' = nets /\ mix' = mix
  BY DEF Settle, fixed, stores
<1>3. c \in Amount /\ UsageOK(usage) /\ ChargesOK(vm_charges, Vm) /\ ChargesOK(volume_charges, VolumeId)
  BY <1>1, ChargeType DEF HostInv
<1>4. \/ reply.ok = FALSE /\ op.kind \in Creating /\ SettleRefused(t)
      \/ reply.ok = TRUE /\ op.kind \in Creating /\ SettleCreated(t)
      \/ reply.ok = TRUE /\ op.kind \in Deleting /\ SettleDeleted(t)
      \/ UNCHANGED <<usage, vm_charges, volume_charges>>
  BY <1>1 DEF Settle, ReplyOK
<1>5. UsageOK(usage') /\ ChargesOK(vm_charges', Vm) /\ ChargesOK(volume_charges', VolumeId)
  <2>1. CASE SettleRefused(t)
    <3>1. usage' = Minus(usage, c) /\ UNCHANGED <<vm_charges, volume_charges>>
      BY <2>1 DEF SettleRefused
    <3>. QED BY <1>3, <3>1, MinusType
  <2>2. CASE reply.ok = TRUE /\ op.kind \in Creating /\ SettleCreated(t)
    <3>1. usage' = usage
      BY <2>2 DEF SettleCreated
    <3>2. CASE op.kind = "create"
      <4>1. vm_charges' = Insert(vm_charges, reply.id, c) /\ UNCHANGED volume_charges /\ reply.id \in Vm
        BY <2>2, <3>2, <1>1 DEF SettleCreated, ReplyOK
      <4>. HIDE DEF op, reply, c
      <4>. QED BY <1>3, <3>1, <4>1, ChargesPut
    <3>3. CASE op.kind # "create"
      <4>1. volume_charges' = Insert(volume_charges, reply.id, c) /\ UNCHANGED vm_charges /\ reply.id \in VolumeId
        BY <2>2, <3>3, <1>1 DEF SettleCreated, ReplyOK, Creating
      <4>. HIDE DEF op, reply, c
      <4>. QED BY <1>3, <3>1, <4>1, ChargesPut
    <3>. QED BY <3>2, <3>3
  <2>3. CASE SettleDeleted(t)
    <3>. DEFINE charges == IF op.kind = "delete" THEN vm_charges ELSE volume_charges
    <3>1. /\ usage' = IF reply.id \in DOMAIN charges THEN Minus(usage, charges[reply.id]) ELSE usage
          /\ vm_charges' = vm_charges \/ vm_charges' = Remove(vm_charges, reply.id)
          /\ volume_charges' = volume_charges \/ volume_charges' = Remove(volume_charges, reply.id)
      BY <2>3 DEF SettleDeleted
    <3>2. reply.id \in DOMAIN charges => charges[reply.id] \in Amount
      BY <1>3 DEF ChargesOK
    <3>. HIDE DEF op, reply, c, charges
    <3>3. UsageOK(usage')
      BY <1>3, <3>1, <3>2, MinusType
    <3>. QED BY <1>3, <3>1, <3>3, ChargesDrop
  <2>4. CASE UNCHANGED <<usage, vm_charges, volume_charges>>
    BY <2>4, <1>3
  <2>. QED BY <1>4, <2>1, <2>2, <2>3, <2>4
<1>. HIDE DEF op, reply, c
<1>6. Moved(task, task', t, op) /\ task'[t].pc \in QuietPc
  BY <1>1, <1>2, AnswerMoves
<1>7. /\ SlotsOK(slots', vault'.next) /\ VaultOK(vault') /\ vault'.next = vault.next /\ NetOK(nets')
      /\ \A n \in NetworkId : NicCount(nets', n) <= NicCount(nets, n)
  BY <1>2, SameCount DEF HostInv
<1>. QED BY <1>2, <1>5, <1>6, <1>7, QuietStep DEF op

\* The later steps of a handler.
LEMMA ProceedOK ==
  ASSUME HostInv, NEW t \in Tasks, Proceed(t)
  PROVE  HostInv' /\ Moved(task, task', t, task[t].op)
  BY CreateOK, VolumeCreateOK, VolumeDelete2OK, AttachVolume2OK, NicAttach2OK, SettleOK DEF Proceed

\* The operations callers in the process choose from.
LEMMA LocalOp ==
  ASSUME NEW kind \in Kinds, NEW op \in Ops[kind]
  PROVE  OpOK(op)
<1>1. op.kind = kind /\ op.kind \in Kinds
  BY DEF Ops, Kinds
<1>2. kind = "create" => op.cost \in VmCost \cup {0}
  BY DEF Ops
<1>3. kind \in {"start", "stop", "delete"} => op.vm \in Vm
  BY DEF Ops
<1>4. kind = "create_volume" => op.size \in Nat
  BY HostAssumption DEF Ops
<1>5. kind \in {"delete_volume", "create_snapshot"} => op.volume \in VolumeId
  BY DEF Ops
<1>6. kind \in {"attach_volume", "detach_volume"} => op.vm \in Vm /\ op.volume \in VolumeId
  BY DEF Ops
<1>7. kind = "create_network" => op.ip \in {0, 1} /\ op.prefix_len \in Nat
  BY HostAssumption, NetworkAssumption DEF Ops
<1>8. kind = "attach_nic" => op.network \in NetworkId /\ op.vm \in Vm /\ op.ip \in Addr \cup {NoAddr}
  BY HostAssumption DEF Ops
<1>9. kind = "create_lb" => op.network \in NetworkId /\ op.vip \in Addr /\ op.backends = <<>>
  BY HostAssumption DEF Ops
<1>10. <<>> \in Seq(LbBackend)
  OBVIOUS
<1>. QED BY <1>1, <1>2, <1>3, <1>4, <1>5, <1>6, <1>7, <1>8, <1>9, <1>10 DEF OpOK

LEMMA LocalOK ==
  ASSUME HostInv, NEW t \in Task, Local(t)
  PROVE  HostInv' /\ \E op : Moved(task, task', t, op)
<1>1. PICK kind \in mix.kinds : \E op \in Ops[kind] : Handle(t, op)
  BY DEF Local
<1>2. PICK op \in Ops[kind] : Handle(t, op)
  BY <1>1
<1>3. kind \in Kinds
  BY HostAssumption DEF HostInv
<1>4. OpOK(op) /\ t \in Tasks
  BY <1>3, LocalOp DEF Tasks
<1>. QED BY <1>2, <1>4, HandleOK

\* No room is taken, and no VM, volume or network is there, when nothing runs.
LEMMA FreshHost ==
  ASSUME NEW sl, sl = [v \in Vm |-> NoVm], NEW tk, tk = [t \in Tasks |-> Idle]
  PROVE  /\ SlotsOK(sl, NewVolumeStore.next) /\ TasksOK(tk)
         /\ VolRoom(NewVolumeStore, tk) /\ NicRoom(NewNetworkStore, tk)
         /\ Attaching(tk, NewVolumeStore.next)
         /\ ChargesOK(NoCharges, Vm) /\ ChargesOK(NoCharges, VolumeId)
<1>1. TasksOK(tk) /\ \A t \in Tasks : tk[t].pc = "idle"
  BY IdleOK DEF TasksOK
<1>2. SlotsOK(sl, NewVolumeStore.next)
  <2>1. NoVm \in Slot /\ NoVm.volumes = {}
    BY DEF Slot, NoVm
  <2>. QED BY <2>1 DEF SlotsOK
<1>3. Making(tk) = {} /\ \A n : Joining(tk, n) = {}
  BY <1>1 DEF Making, Joining
<1>4. VolRoom(NewVolumeStore, tk)
  BY <1>3, FS_EmptySet, VolumeAssumption DEF VolRoom, NewVolumeStore
<1>5. NicRoom(NewNetworkStore, tk)
  <2>1. \A n : NicCount(NewNetworkStore, n) = 0
    BY DEF NicCount, NewNetworkStore, Empty
  <2>. QED BY <2>1, <1>3, FS_EmptySet, NetworkAssumption DEF NicRoom
<1>6. Attaching(tk, NewVolumeStore.next)
  BY <1>1 DEF Attaching
<1>7. ChargesOK(NoCharges, Vm) /\ ChargesOK(NoCharges, VolumeId)
  BY DEF ChargesOK, NoCharges
<1>. QED BY <1>1, <1>2, <1>4, <1>5, <1>6, <1>7

LEMMA CrashOK ==
  ASSUME HostInv, Crash
  PROVE  HostInv' /\ task'[Receiver].pc = "idle"
<1>1. /\ slots' = [v \in Vm |-> NoVm] /\ vault' = NewVolumeStore /\ nets' = NewNetworkStore
      /\ vm_charges' = NoCharges /\ volume_charges' = NoCharges /\ usage' = usage /\ mix' = mix
      /\ task' = [t \in Tasks |-> Idle]
  BY DEF Crash, HostInv, TasksOK
<1>2. task'[Receiver].pc = "idle"
  BY <1>1, IdleOK DEF Tasks
<1>3. VaultOK(vault') /\ NetOK(nets') /\ UsageOK(usage') /\ mix' \in Mixes
  BY <1>1, VaultNew, NetNew DEF HostInv
<1>4. /\ SlotsOK(slots', vault'.next) /\ TasksOK(task')
      /\ VolRoom(vault', task') /\ NicRoom(nets', task') /\ Attaching(task', vault'.next)
      /\ ChargesOK(vm_charges', Vm) /\ ChargesOK(volume_charges', VolumeId)
  BY <1>1, FreshHost
<1>. QED BY <1>2, <1>3, <1>4 DEF HostInv

LEMMA HostInitOK == HostInit => HostInv
<1>. SUFFICES ASSUME HostInit PROVE HostInv
  OBVIOUS
<1>1. /\ slots = [v \in Vm |-> NoVm] /\ vault = NewVolumeStore /\ nets = NewNetworkStore
      /\ vm_charges = NoCharges /\ volume_charges = NoCharges /\ usage = NoUsage /\ mix \in Mixes
      /\ task = [t \in Tasks |-> Idle]
  BY DEF HostInit, Tasks
<1>2. UsageOK(usage)
  BY <1>1, HostAssumption DEF UsageOK, NoUsage
<1>3. VaultOK(vault) /\ NetOK(nets)
  BY <1>1, VaultNew, NetNew
<1>4. /\ SlotsOK(slots, vault.next) /\ TasksOK(task)
      /\ VolRoom(vault, task) /\ NicRoom(nets, task) /\ Attaching(task, vault.next)
      /\ ChargesOK(vm_charges, Vm) /\ ChargesOK(volume_charges, VolumeId)
  BY <1>1, FreshHost
<1>. QED BY <1>1, <1>2, <1>3, <1>4 DEF HostInv

---------------------------------------------------------------------------
(* The personality and its RPCs. *)

\* What create knows of a cluster's node; the places at which the network exists, and
\* at which every node does.
Node == [vm : Vm, nic : NicId, ip : Addr]
Existing == {"vm", "nic", "start", "lb", "up"} \cup Destruction
Complete == {"lb", "up"} \cup Destruction

\* How far create and destroy have come, and what they know by then.
ClusterOK(c) ==
  /\ DOMAIN c = {"pc", "i", "prefix_len", "network", "lb", "vm", "nodes", "err"}
  /\ c.pc \in Calling \cup {"none", "up", "failed", "gone"}
  /\ c.i \in 1..(Workers + 1)
  /\ c.pc # "none" => c.prefix_len \in Nat /\ Parses(c.prefix_len)
  /\ c.nodes \in Seq(Node)
  /\ c.pc \in Existing => c.network \in NetworkId
  /\ c.pc \in {"nic", "start"} => c.vm \in Vm
  /\ c.pc = "network" => c.i = 1 /\ Len(c.nodes) = 0
  /\ c.pc \in {"vm", "nic"} => Len(c.nodes) = c.i - 1
  /\ c.pc = "start" => Len(c.nodes) = c.i
  /\ c.pc \in Complete => Len(c.nodes) = Workers + 1

\* The RPCs behind a cluster.
Done(c) ==
  CASE c.pc \in {"none", "network"} -> 0
    [] c.pc = "vm" -> 3 * c.i - 2
    [] c.pc = "nic" -> 3 * c.i - 1
    [] c.pc = "start" -> 3 * c.i
    [] c.pc = "lb" -> 3 * Workers + 4
    [] c.pc \in {"up", "del_lb"} -> 3 * Workers + 5
    [] c.pc = "detach" -> 3 * Workers + 3 * c.i + 3
    [] c.pc = "stop" -> 3 * Workers + 3 * c.i + 4
    [] c.pc = "delete" -> 3 * Workers + 3 * c.i + 5
    [] c.pc = "del_network" -> 6 * Workers + 9
    [] c.pc \in {"failed", "gone"} -> 6 * Workers + 10

\* One more request than answers while the caller waits.
Waits(p) == IF p = 0 THEN 0 ELSE 1

\* A datagram carries an id handed out before, and the caller's operation if the
\* caller is waiting for that id.
MsgOK(m, nr, pd, op) ==
  /\ m.id \in Nat /\ m.id # 0 /\ m.id < nr
  /\ OpOK(m.op)
  /\ m.type = "response" => ReplyOK(m.op, m.reply.ok, m.reply.id, m.reply.ip)
  /\ m.id = pd => m.op = op

\* The invariant of the RPC: ids are issued by invoke, and what carries the id the
\* caller waits for carries its operation.
RpcOK(nt, sv, nr, pd, c, rx, op) ==
  /\ ClusterOK(c)
  /\ nr \in Nat \ {0} /\ pd \in Nat /\ pd < nr /\ sv \in Nat /\ sv < nr
  /\ nr <= 1 + Done(c) + Waits(pd)
  /\ pd # 0 => c.pc \in Calling
  /\ \A m \in nt : MsgOK(m, nr, pd, op)
  /\ rx.pc # "idle" => sv # 0 /\ (sv = pd => rx.op = op)

RpcInv == RpcOK(net, serving, next_req, pending, k8s, task[Receiver], NextOp)

LEMMA DoneType ==
  ASSUME NEW c, ClusterOK(c)
  PROVE  Done(c) \in Nat /\ Done(c) <= MaxReq /\ (c.pc \in Calling => Done(c) + 1 <= MaxReq)
<1>1. /\ c.i \in Nat /\ c.i >= 1 /\ c.i <= Workers + 1 /\ Workers \in Nat
      /\ MaxReq = 6 * Workers + 10
      /\ c.pc \in Calling \cup {"none", "up", "failed", "gone"}
  BY K8sAssumption DEF ClusterOK, MaxReq
<1>. QED BY <1>1 DEF Done, Calling, Creation, Destruction

\* The next RPC asks for what the host can make sense of.
LEMMA NextOpOK ==
  ASSUME ClusterOK(k8s), k8s.pc \in Calling
  PROVE  OpOK(NextOp)
<1>1. CASE k8s.pc = "network"
  <2>1. NextOp = [kind |-> "create_network", ip |-> 0, prefix_len |-> k8s.prefix_len]
    BY <1>1 DEF NextOp
  <2>. QED BY <1>1, <2>1 DEF OpOK, ClusterOK, Kinds
<1>2. CASE k8s.pc = "vm"
  <2>1. NextOp = [kind |-> "create", cost |-> 0]
    BY <1>2 DEF NextOp
  <2>. QED BY <1>2, <2>1 DEF OpOK, Kinds
<1>3. CASE k8s.pc = "nic"
  <2>1. NextOp = [kind |-> "attach_nic", network |-> k8s.network, vm |-> k8s.vm, ip |-> NoAddr]
    BY <1>3 DEF NextOp
  <2>. QED BY <1>3, <2>1 DEF OpOK, ClusterOK, Kinds, Existing
<1>4. CASE k8s.pc = "start"
  <2>1. NextOp = [kind |-> "start", vm |-> k8s.vm]
    BY <1>4 DEF NextOp
  <2>. QED BY <1>4, <2>1 DEF OpOK, ClusterOK, Kinds
<1>5. CASE k8s.pc = "lb"
  <2>1. NextOp = [kind |-> "create_lb", network |-> k8s.network, vip |-> Vip, backends |-> Backends]
    BY <1>5 DEF NextOp
  <2>2. Vip \in Addr
    <3>1. Block(Cidr)
      <4>1. 0 \in Addr
        BY PowersAssumption, NetworkAssumption DEF Addr
      <4>2. k8s.prefix_len \in Nat /\ Parses(k8s.prefix_len)
        BY <1>5 DEF ClusterOK
      <4>. QED BY <4>1, <4>2, ParseBlock DEF Cidr
    <3>2. Cidr.base \in Addr /\ Addr \subseteq Nat
      BY <3>1 DEF Block, Cidr4, Addr
    <3>3. Capacity(Cidr) \in Nat
      <4>1. Cidr.prefix_len \in 0..AddrBits
        BY <3>1 DEF Block, Cidr4
      <4>2. AddrBits - Cidr.prefix_len \in 0..AddrBits
        BY <4>1, NetworkAssumption
      <4>3. BlockSize(Cidr) \in Nat
        BY <4>2, PowersAssumption DEF BlockSize
      <4>. QED BY <4>3, MaxZero DEF Capacity
    <3>4. CASE Capacity(Cidr) = 0
      <4>1. Vip = Cidr.base + 0
        BY <3>4 DEF Vip, NthHost
      <4>2. Cidr.base \in Nat
        BY <3>2
      <4>. QED BY <3>2, <4>1, <4>2
    <3>5. CASE Capacity(Cidr) # 0
      <4>1. Vip \in Hosts(Cidr)
        BY <3>3, <3>5 DEF Vip, Hosts
      <4>. QED BY <3>1, <4>1 DEF Block
    <3>. QED BY <3>4, <3>5
  <2>3. Backends \in Seq(LbBackend)
    <3>1. Len(k8s.nodes) = Workers + 1 /\ k8s.nodes \in Seq(Node)
      BY <1>5 DEF ClusterOK, Complete
    <3>2. \A i \in 1..Workers : k8s.nodes[i + 1] \in Node
      BY <3>1, K8sAssumption
    <3>3. \A i \in 1..Workers : [vm |-> k8s.nodes[i + 1].vm, ip |-> k8s.nodes[i + 1].ip] \in LbBackend
      BY <3>2, HostAssumption DEF Node, LbBackend, Vm
    <3>4. Backends \in [1..Workers -> LbBackend]
      BY <3>3 DEF Backends
    <3>. QED BY <3>4, K8sAssumption
  <2>4. k8s.network \in NetworkId
    BY <1>5 DEF ClusterOK, Existing
  <2>. QED BY <2>1, <2>2, <2>3, <2>4 DEF OpOK, Kinds
<1>6. CASE k8s.pc = "del_lb"
  <2>1. NextOp = [kind |-> "delete_lb", lb |-> k8s.lb]
    BY <1>6 DEF NextOp
  <2>. QED BY <2>1 DEF OpOK, Kinds
<1>7. CASE k8s.pc = "detach"
  <2>1. NextOp = [kind |-> "detach_nic", nic |-> k8s.nodes[k8s.i].nic]
    BY <1>7 DEF NextOp
  <2>. QED BY <2>1 DEF OpOK, Kinds
<1>8. CASE k8s.pc = "stop" \/ k8s.pc = "delete"
  <2>1. NextOp = [kind |-> k8s.pc, vm |-> k8s.nodes[k8s.i].vm]
    BY <1>8 DEF NextOp
  <2>2. k8s.nodes[k8s.i] \in Node
    <3>1. Len(k8s.nodes) = Workers + 1 /\ k8s.nodes \in Seq(Node) /\ k8s.i \in 1..(Workers + 1)
      BY <1>8 DEF ClusterOK, Complete, Destruction
    <3>. QED BY <3>1
  <2>. QED BY <1>8, <2>1, <2>2 DEF OpOK, Kinds, Node
<1>9. CASE k8s.pc = "del_network"
  <2>1. NextOp = [kind |-> "delete_network", network |-> k8s.network]
    BY <1>9 DEF NextOp
  <2>. QED BY <2>1 DEF OpOK, Kinds
<1>. QED BY <1>1, <1>2, <1>3, <1>4, <1>5, <1>6, <1>7, <1>8, <1>9 DEF Calling, Creation, Destruction

LEMMA SameOp == k8s' = k8s => NextOp' = NextOp
<1>. SUFFICES ASSUME k8s' = k8s PROVE NextOp' = NextOp
  OBVIOUS
<1>1. Cidr' = Cidr /\ Backends' = Backends
  BY DEF Cidr, Backends
<1>2. Vip' = Vip
  BY <1>1 DEF Vip
<1>. QED BY <1>1, <1>2 DEF NextOp

\* An answer fit for the step the cluster is at.
Fits(c, r) ==
  /\ r.ok \in BOOLEAN
  /\ r.ok /\ c.pc = "network" => r.id \in NetworkId
  /\ r.ok /\ c.pc = "vm" => r.id \in Vm
  /\ r.ok /\ c.pc = "nic" => r.id \in NicId /\ r.ip \in Addr

\* A cluster that has failed knows what it knew.
LEMMA FailedOK ==
  ASSUME NEW c, ClusterOK(c), c.pc \in Calling, NEW d, d = Failed(c)
  PROVE  ClusterOK(d) /\ Done(d) >= Done(c) + 1
<1>1. /\ DOMAIN d = DOMAIN c /\ d.pc = "failed" /\ d.i = c.i /\ d.prefix_len = c.prefix_len
      /\ d.network = c.network /\ d.vm = c.vm /\ d.nodes = c.nodes
  BY DEF Failed, ClusterOK
<1>2. c.pc # "none"
  BY DEF Calling, Creation, Destruction
<1>3. ClusterOK(d)
  BY <1>1, <1>2 DEF ClusterOK, Calling, Creation, Destruction, Existing, Complete
<1>4. Done(d) = MaxReq
  BY <1>1, K8sAssumption DEF Done, MaxReq
<1>5. Done(c) \in Nat /\ Done(c) + 1 <= MaxReq /\ MaxReq \in Nat
  BY DoneType, K8sAssumption DEF MaxReq
<1>. QED BY <1>3, <1>4, <1>5

LEMMA CreatedOK ==
  ASSUME NEW c, ClusterOK(c), c.pc \in Creation, NEW r, Fits(c, r), NEW d, d = Created(c, r)
  PROVE  ClusterOK(d) /\ Done(d) >= Done(c) + 1
<1>0. /\ Workers \in Nat \ {0} /\ c.i \in 1..(Workers + 1) /\ c.i \in Nat /\ c.nodes \in Seq(Node)
      /\ DOMAIN c = {"pc", "i", "prefix_len", "network", "lb", "vm", "nodes", "err"}
      /\ c.prefix_len \in Nat /\ Parses(c.prefix_len)
      /\ c.pc \in {"network", "vm", "nic", "start", "lb"}
  BY K8sAssumption DEF ClusterOK, Creation
<1>1. CASE ~r.ok
  BY <1>1, FailedOK DEF Created, Calling
<1>2. CASE r.ok /\ c.pc = "network"
  <2>1. d = [c EXCEPT !.pc = "vm", !.network = r.id]
    BY <1>2 DEF Created
  <2>2. /\ DOMAIN d = DOMAIN c /\ d.pc = "vm" /\ d.i = c.i /\ d.prefix_len = c.prefix_len
        /\ d.network = r.id /\ d.vm = c.vm /\ d.nodes = c.nodes
    BY <1>0, <2>1
  <2>3. c.i = 1 /\ Len(c.nodes) = 0 /\ r.id \in NetworkId
    BY <1>2 DEF ClusterOK, Fits
  <2>4. ClusterOK(d)
    BY <1>0, <2>2, <2>3 DEF ClusterOK, Calling, Creation, Destruction, Existing, Complete
  <2>5. Done(d) >= Done(c) + 1
    BY <1>0, <1>2, <2>2, <2>3 DEF Done
  <2>. QED BY <2>4, <2>5
<1>3. CASE r.ok /\ c.pc = "vm"
  <2>1. d = [c EXCEPT !.pc = "nic", !.vm = r.id]
    BY <1>3 DEF Created
  <2>2. /\ DOMAIN d = DOMAIN c /\ d.pc = "nic" /\ d.i = c.i /\ d.prefix_len = c.prefix_len
        /\ d.network = c.network /\ d.vm = r.id /\ d.nodes = c.nodes
    BY <1>0, <2>1
  <2>3. Len(c.nodes) = c.i - 1 /\ r.id \in Vm /\ c.network \in NetworkId
    BY <1>3 DEF ClusterOK, Fits, Existing
  <2>4. ClusterOK(d)
    BY <1>0, <2>2, <2>3 DEF ClusterOK, Calling, Creation, Destruction, Existing, Complete
  <2>5. Done(d) >= Done(c) + 1
    BY <1>0, <1>3, <2>2 DEF Done
  <2>. QED BY <2>4, <2>5
<1>4. CASE r.ok /\ c.pc = "nic"
  <2>. DEFINE node == [vm |-> c.vm, nic |-> r.id, ip |-> r.ip]
              nodes == Append(c.nodes, node)
  <2>1. d = [c EXCEPT !.pc = "start", !.nodes = nodes]
    BY <1>4 DEF Created
  <2>2. Len(c.nodes) = c.i - 1 /\ node \in Node /\ c.network \in NetworkId /\ c.vm \in Vm
    BY <1>4 DEF ClusterOK, Fits, Existing, Node
  <2>. HIDE DEF node
  <2>3. nodes \in Seq(Node) /\ Len(nodes) = c.i
    BY <1>0, <2>2
  <2>. HIDE DEF nodes
  <2>4. /\ DOMAIN d = DOMAIN c /\ d.pc = "start" /\ d.i = c.i /\ d.prefix_len = c.prefix_len
        /\ d.network = c.network /\ d.vm = c.vm /\ d.nodes = nodes
    BY <1>0, <2>1
  <2>5. ClusterOK(d)
    BY <1>0, <2>2, <2>3, <2>4 DEF ClusterOK, Calling, Creation, Destruction, Existing, Complete
  <2>6. Done(d) >= Done(c) + 1
    BY <1>0, <1>4, <2>4 DEF Done
  <2>. QED BY <2>5, <2>6
<1>5. CASE r.ok /\ c.pc = "start"
  <2>1. d = NextNode(c)
    BY <1>5 DEF Created
  <2>2. Len(c.nodes) = c.i /\ c.network \in NetworkId
    BY <1>5 DEF ClusterOK, Existing
  <2>3. CASE c.i <= Workers
    <3>1. d = [c EXCEPT !.i = c.i + 1, !.pc = "vm"]
      BY <2>1, <2>3 DEF NextNode
    <3>2. /\ DOMAIN d = DOMAIN c /\ d.pc = "vm" /\ d.i = c.i + 1 /\ d.prefix_len = c.prefix_len
          /\ d.network = c.network /\ d.nodes = c.nodes
      BY <1>0, <3>1
    <3>3. ClusterOK(d)
      BY <1>0, <2>2, <2>3, <3>2 DEF ClusterOK, Calling, Creation, Destruction, Existing, Complete
    <3>4. Done(d) >= Done(c) + 1
      BY <1>0, <1>5, <3>2 DEF Done
    <3>. QED BY <3>3, <3>4
  <2>4. CASE ~(c.i <= Workers)
    <3>1. d = [c EXCEPT !.pc = "lb"]
      BY <2>1, <2>4 DEF NextNode
    <3>2. /\ DOMAIN d = DOMAIN c /\ d.pc = "lb" /\ d.i = c.i /\ d.prefix_len = c.prefix_len
          /\ d.network = c.network /\ d.nodes = c.nodes
      BY <1>0, <3>1
    <3>3. ClusterOK(d)
      BY <1>0, <2>2, <2>4, <3>2 DEF ClusterOK, Calling, Creation, Destruction, Existing, Complete
    <3>4. Done(d) >= Done(c) + 1
      BY <1>0, <1>5, <3>2 DEF Done
    <3>. QED BY <3>3, <3>4
  <2>. QED BY <2>3, <2>4
<1>6. CASE r.ok /\ c.pc = "lb"
  <2>1. d = [c EXCEPT !.pc = "up", !.lb = r.id]
    BY <1>6 DEF Created
  <2>2. Len(c.nodes) = Workers + 1 /\ c.network \in NetworkId
    BY <1>6 DEF ClusterOK, Existing, Complete
  <2>3. /\ DOMAIN d = DOMAIN c /\ d.pc = "up" /\ d.i = c.i /\ d.prefix_len = c.prefix_len
        /\ d.network = c.network /\ d.nodes = c.nodes
    BY <1>0, <2>1
  <2>4. ClusterOK(d)
    BY <1>0, <2>2, <2>3 DEF ClusterOK, Calling, Creation, Destruction, Existing, Complete
  <2>5. Done(d) >= Done(c) + 1
    BY <1>0, <1>6, <2>3 DEF Done
  <2>. QED BY <2>4, <2>5
<1>. QED BY <1>0, <1>1, <1>2, <1>3, <1>4, <1>5, <1>6

\* How destroy goes on.
LEMMA DestroyedFields ==
  ASSUME NEW c, ClusterOK(c), c.pc \in Destruction, NEW r, NEW d, d = Destroyed(c, r)
  PROVE  /\ DOMAIN d = DOMAIN c /\ d.prefix_len = c.prefix_len /\ d.network = c.network /\ d.nodes = c.nodes
         /\ d.lb = c.lb
         /\ \/ c.pc = "del_lb" /\ d.pc = "detach" /\ d.i = 1
            \/ c.pc = "detach" /\ d.pc = "stop" /\ d.i = c.i
            \/ c.pc = "stop" /\ d.pc = "delete" /\ d.i = c.i
            \/ c.pc = "delete" /\ d.pc = "detach" /\ d.i = c.i + 1 /\ c.i <= Workers
            \/ c.pc = "delete" /\ d.pc = "del_network" /\ d.i = c.i /\ ~(c.i <= Workers)
            \/ c.pc = "del_network" /\ d.pc \in {"failed", "gone"} /\ d.i = c.i
         /\ d.err = (c.err \/ CountsAsError(c, r))
         /\ d.pc = "gone" => ~d.err
<1>. DEFINE err == c.err \/ CountsAsError(c, r)
            e == [c EXCEPT !.err = err]
<1>0. /\ Workers \in Nat \ {0} /\ c.i \in Nat
      /\ DOMAIN c = {"pc", "i", "prefix_len", "network", "lb", "vm", "nodes", "err"}
      /\ c.pc \in {"del_lb", "detach", "stop", "delete", "del_network"}
  BY K8sAssumption DEF ClusterOK, Destruction
<1>1. d = CASE c.pc = "del_lb" -> [e EXCEPT !.pc = "detach", !.i = 1]
            [] c.pc = "detach" -> [e EXCEPT !.pc = "stop"]
            [] c.pc = "stop" -> [e EXCEPT !.pc = "delete"]
            [] c.pc = "delete" -> NextVictim(e)
            [] c.pc = "del_network" -> [e EXCEPT !.pc = IF e.err THEN "failed" ELSE "gone"]
  BY DEF Destroyed
<1>2. err = (c.err \/ CountsAsError(c, r))
  OBVIOUS
<1>. HIDE DEF err
<1>3. /\ DOMAIN e = DOMAIN c /\ e.pc = c.pc /\ e.i = c.i /\ e.prefix_len = c.prefix_len
      /\ e.network = c.network /\ e.nodes = c.nodes /\ e.lb = c.lb /\ e.err = err
  BY <1>0
<1>. HIDE DEF e
<1>4. CASE c.pc = "del_lb"
  BY <1>4, <1>0, <1>1, <1>2, <1>3
<1>5. CASE c.pc = "detach"
  BY <1>5, <1>0, <1>1, <1>2, <1>3
<1>6. CASE c.pc = "stop"
  BY <1>6, <1>0, <1>1, <1>2, <1>3
<1>7. CASE c.pc = "delete"
  <2>1. d = NextVictim(e)
    BY <1>7, <1>1
  <2>2. CASE e.i <= Workers
    <3>1. d = [e EXCEPT !.i = e.i + 1, !.pc = "detach"]
      BY <2>1, <2>2 DEF NextVictim
    <3>. QED BY <1>7, <2>2, <3>1, <1>0, <1>2, <1>3
  <2>3. CASE ~(e.i <= Workers)
    <3>1. d = [e EXCEPT !.pc = "del_network"]
      BY <2>1, <2>3 DEF NextVictim
    <3>. QED BY <1>7, <2>3, <3>1, <1>0, <1>2, <1>3
  <2>. QED BY <2>2, <2>3
<1>8. CASE c.pc = "del_network"
  <2>1. CASE e.err
    <3>1. d = [e EXCEPT !.pc = "failed"]
      BY <1>8, <1>1, <2>1
    <3>. QED BY <1>8, <3>1, <1>0, <1>2, <1>3
  <2>2. CASE ~e.err
    <3>1. d = [e EXCEPT !.pc = "gone"]
      BY <1>8, <1>1, <2>2
    <3>. QED BY <1>8, <2>2, <3>1, <1>0, <1>2, <1>3
  <2>. QED BY <2>1, <2>2
<1>. QED BY <1>0, <1>4, <1>5, <1>6, <1>7, <1>8

\* Destruction keeps the handle; only its place changes.
LEMMA DestroyedOK ==
  ASSUME NEW c, ClusterOK(c), c.pc \in Destruction, NEW r, NEW d, d = Destroyed(c, r)
  PROVE  ClusterOK(d) /\ Done(d) >= Done(c) + 1
<1>0. /\ Workers \in Nat \ {0} /\ c.i \in 1..(Workers + 1) /\ c.i \in Nat /\ c.nodes \in Seq(Node)
      /\ DOMAIN c = {"pc", "i", "prefix_len", "network", "lb", "vm", "nodes", "err"}
      /\ c.prefix_len \in Nat /\ Parses(c.prefix_len)
      /\ c.pc \in {"del_lb", "detach", "stop", "delete", "del_network"}
      /\ Len(c.nodes) = Workers + 1 /\ c.network \in NetworkId
  BY K8sAssumption DEF ClusterOK, Destruction, Complete, Existing
<1>3. /\ DOMAIN d = DOMAIN c /\ d.prefix_len = c.prefix_len /\ d.network = c.network /\ d.nodes = c.nodes
      /\ \/ c.pc = "del_lb" /\ d.pc = "detach" /\ d.i = 1
         \/ c.pc = "detach" /\ d.pc = "stop" /\ d.i = c.i
         \/ c.pc = "stop" /\ d.pc = "delete" /\ d.i = c.i
         \/ c.pc = "delete" /\ d.pc = "detach" /\ d.i = c.i + 1 /\ c.i <= Workers
         \/ c.pc = "delete" /\ d.pc = "del_network" /\ d.i = c.i
         \/ c.pc = "del_network" /\ d.pc \in {"failed", "gone"} /\ d.i = c.i
  BY DestroyedFields
<1>4. d.i \in 1..(Workers + 1) /\ d.pc \in Calling \cup {"failed", "gone"}
  BY <1>0, <1>3 DEF Calling, Destruction
<1>5. d.pc \in {"detach", "stop", "delete", "del_network", "failed", "gone"}
  BY <1>3
<1>6. ClusterOK(d)
  BY <1>0, <1>3, <1>4, <1>5 DEF ClusterOK
<1>7. Done(d) >= Done(c) + 1
  <2>1. CASE c.pc = "del_lb"
    BY <2>1, <1>0, <1>3 DEF Done
  <2>2. CASE c.pc = "detach"
    BY <2>2, <1>0, <1>3 DEF Done
  <2>3. CASE c.pc = "stop"
    BY <2>3, <1>0, <1>3 DEF Done
  <2>4. CASE c.pc = "delete" /\ d.pc = "detach" /\ d.i = c.i + 1
    BY <2>4, <1>0 DEF Done
  <2>5. CASE c.pc = "delete" /\ d.pc = "del_network"
    BY <2>5, <1>0 DEF Done
  <2>6. CASE c.pc = "del_network"
    BY <2>6, <1>0, <1>3 DEF Done
  <2>. QED BY <1>3, <2>1, <2>2, <2>3, <2>4, <2>5, <2>6
<1>. QED BY <1>6, <1>7

\* The answer that comes for the present request fits.
LEMMA AnswerFits ==
  ASSUME NEW op, op = NextOp, NEW r, ReplyOK(op, r.ok, r.id, r.ip)
  PROVE  Fits(k8s, r)
<1>1. k8s.pc = "network" => op.kind = "create_network"
  BY DEF NextOp
<1>2. k8s.pc = "vm" => op.kind = "create"
  BY DEF NextOp
<1>3. k8s.pc = "nic" => op.kind = "attach_nic"
  BY DEF NextOp
<1>. QED BY <1>1, <1>2, <1>3 DEF Fits, ReplyOK

\* The caller goes on: nobody waits any more, so nothing is promised of what is
\* still under way.
LEMMA AdvanceOK ==
  ASSUME RpcInv, pending # 0, NEW r, Fits(k8s, r), Advance(r), pending' = 0,
         net' \subseteq net, UNCHANGED <<hostVars, serving, next_req>>
  PROVE  RpcInv'
<1>1. /\ ClusterOK(k8s) /\ k8s.pc \in Calling /\ next_req \in Nat \ {0}
      /\ next_req <= 1 + Done(k8s) + 1
  BY DEF RpcInv, RpcOK, Waits
<1>2. ClusterOK(k8s') /\ Done(k8s') >= Done(k8s) + 1
  <2>1. CASE k8s.pc \in Creation
    BY <1>1, <2>1, CreatedOK DEF Advance
  <2>2. CASE k8s.pc \notin Creation
    BY <1>1, <2>2, DestroyedOK DEF Advance, Calling
  <2>. QED BY <2>1, <2>2
<1>3. Done(k8s) \in Nat /\ Done(k8s') \in Nat
  BY <1>1, <1>2, DoneType
<1>4. next_req' <= 1 + Done(k8s') + Waits(pending')
  BY <1>1, <1>2, <1>3 DEF Waits
<1>5. \A m \in net' : MsgOK(m, next_req', pending', NextOp')
  BY DEF RpcInv, RpcOK, MsgOK
<1>6. task' = task /\ serving' = serving
  BY DEF hostVars
<1>7. task'[Receiver].pc # "idle" => serving' # 0 /\ (serving' = pending' => task'[Receiver].op = NextOp')
  BY <1>6 DEF RpcInv, RpcOK
<1>. QED BY <1>1, <1>2, <1>4, <1>5, <1>6, <1>7 DEF RpcInv, RpcOK

\* A step of the host.
LEMMA HostStep ==
  ASSUME RpcInv, UNCHANGED rpcVars,
         \/ task'[Receiver].pc = "idle"
         \/ task[Receiver].pc # "idle" /\ task'[Receiver].op = task[Receiver].op
  PROVE  RpcInv'
<1>1. /\ net' = net /\ serving' = serving /\ next_req' = next_req /\ pending' = pending /\ k8s' = k8s
      /\ NextOp' = NextOp
  BY SameOp DEF rpcVars
<1>. QED BY <1>1 DEF RpcInv, RpcOK

\* The inductive invariant.
IInv == HostInv /\ RpcInv

LEMMA HostSame ==
  ASSUME HostInv, UNCHANGED hostVars
  PROVE  HostInv'
<1>1. /\ mix' = mix /\ slots' = slots /\ vault' = vault /\ nets' = nets /\ usage' = usage
      /\ vm_charges' = vm_charges /\ volume_charges' = volume_charges /\ task' = task
  BY DEF hostVars
<1>. QED BY <1>1 DEF HostInv

LEMMA InitInv == Init => IInv
<1>. SUFFICES ASSUME Init PROVE IInv
  OBVIOUS
<1>1. HostInv
  BY HostInitOK DEF Init
<1>2. /\ net = {} /\ serving = 0 /\ next_req = 1 /\ pending = 0 /\ k8s = NoCluster
      /\ task[Receiver].pc = "idle"
  BY IdleOK DEF Init, HostInit
<1>3. ClusterOK(NoCluster) /\ Done(NoCluster) = 0
  <2>1. <<>> \in Seq(Node) /\ Workers + 1 >= 1 /\ Workers \in Nat
    BY K8sAssumption
  <2>2. /\ DOMAIN NoCluster = {"pc", "i", "prefix_len", "network", "lb", "vm", "nodes", "err"}
        /\ NoCluster.pc = "none" /\ NoCluster.i = 1 /\ NoCluster.nodes = <<>>
    BY DEF NoCluster
  <2>. QED BY <2>1, <2>2 DEF ClusterOK, Done, Existing, Complete, Destruction
<1>4. RpcInv
  BY <1>2, <1>3 DEF RpcInv, RpcOK, Waits
<1>. QED BY <1>1, <1>4 DEF IInv

LEMMA InvokeOK ==
  ASSUME IInv, Invoke
  PROVE  IInv'
<1>1. /\ k8s.pc \in Calling /\ pending = 0 /\ pending' = next_req /\ next_req' = next_req + 1
      /\ net' = net \cup {[type |-> "request", id |-> next_req, op |-> NextOp]}
      /\ UNCHANGED hostVars /\ serving' = serving /\ k8s' = k8s /\ task' = task
  BY DEF Invoke, ReqAfter, hostVars
<1>2. HostInv'
  BY <1>1, HostSame DEF IInv
<1>3. /\ ClusterOK(k8s) /\ next_req \in Nat \ {0} /\ serving \in Nat /\ serving < next_req
      /\ next_req <= 1 + Done(k8s) /\ Done(k8s) \in Nat
      /\ \A m \in net : MsgOK(m, next_req, pending, NextOp)
  BY <1>1, DoneType DEF IInv, RpcInv, RpcOK, Waits
<1>4. NextOp' = NextOp /\ OpOK(NextOp)
  BY <1>1, <1>3, SameOp, NextOpOK
<1>5. \A m \in net' : MsgOK(m, next_req', pending', NextOp')
  <2>. TAKE m \in net'
  <2>1. CASE m \in net
    BY <2>1, <1>1, <1>3 DEF MsgOK
  <2>2. CASE m \notin net
    <3>1. m.type = "request" /\ m.id = next_req /\ m.op = NextOp
      BY <2>2, <1>1
    <3>. QED BY <3>1, <1>1, <1>3, <1>4 DEF MsgOK
  <2>. QED BY <2>1, <2>2
<1>6. task'[Receiver].pc # "idle" => serving' # 0 /\ (serving' = pending' => task'[Receiver].op = NextOp')
  BY <1>1, <1>3 DEF IInv, RpcInv, RpcOK
<1>7. RpcInv'
  BY <1>1, <1>3, <1>5, <1>6 DEF RpcInv, RpcOK, Waits
<1>. QED BY <1>2, <1>7 DEF IInv

LEMMA RecvRequestOK ==
  ASSUME IInv, RecvRequest
  PROVE  IInv'
<1>1. PICK m \in net : /\ m.type = "request" /\ Handle(Receiver, m.op) /\ serving' = m.id
                       /\ net' = net \ {m} /\ UNCHANGED <<next_req, pending, k8s>>
  BY DEF RecvRequest
<1>2. MsgOK(m, next_req, pending, NextOp) /\ Receiver \in Tasks
  BY DEF IInv, RpcInv, RpcOK, Tasks
<1>3. HostInv' /\ Moved(task, task', Receiver, m.op)
  BY <1>1, <1>2, HandleOK DEF IInv, MsgOK
<1>4. NextOp' = NextOp
  BY <1>1, SameOp
<1>5. task'[Receiver].op = m.op
  BY <1>3 DEF Moved
<1>6. RpcInv'
  BY <1>1, <1>2, <1>4, <1>5 DEF IInv, RpcInv, RpcOK, MsgOK
<1>. QED BY <1>3, <1>6 DEF IInv

LEMMA SendResponseOK ==
  ASSUME IInv, SendResponse
  PROVE  IInv'
<1>. DEFINE x == task[Receiver]
            m == [type |-> "response", id |-> serving, op |-> x.op, reply |-> x.reply]
<1>1. /\ x.pc = "answer" /\ net' = net \cup {m} /\ task' = Put(task, Receiver, Idle) /\ serving' = 0
      /\ UNCHANGED <<next_req, pending, k8s>> /\ Receiver \in Tasks
      /\ mix' = mix /\ slots' = slots /\ vault' = vault /\ nets' = nets /\ usage' = usage
      /\ vm_charges' = vm_charges /\ volume_charges' = volume_charges
  BY DEF SendResponse, Put, Tasks, fixed, stores, accounts
<1>2. TasksOK(task) /\ TaskOK(x)
  BY <1>1 DEF IInv, HostInv, TasksOK
<1>3. /\ DOMAIN task' = Tasks /\ task'[Receiver] = Idle
      /\ \A u \in Tasks \ {Receiver} : task'[u] = task[u]
  BY <1>1, <1>2 DEF Put, TasksOK
<1>4. HostInv'
  <2>1. TasksOK(task')
    BY <1>2, <1>3, IdleOK DEF TasksOK
  <2>2. /\ Making(task') \subseteq Making(task)
        /\ \A n : Joining(task', n) \subseteq Joining(task, n)
        /\ Attaching(task', vault.next)
    BY <1>3, IdleOK DEF Making, Joining, Attaching, IInv, HostInv
  <2>3. VolRoom(vault', task')
    BY <1>1, <2>2, KeepsVolRoom DEF IInv, HostInv
  <2>4. \A n \in NetworkId : NicCount(nets', n) <= NicCount(nets, n)
    BY <1>1, SameCount DEF IInv, HostInv
  <2>5. NicRoom(nets', task')
    BY <1>1, <2>2, <2>4, KeepsNicRoom DEF IInv, HostInv
  <2>. QED BY <1>1, <2>1, <2>2, <2>3, <2>5 DEF IInv, HostInv
<1>5. RpcInv'
  <2>1. NextOp' = NextOp
    BY <1>1, SameOp
  <2>2. MsgOK(m, next_req, pending, NextOp)
    BY <1>1, <1>2 DEF MsgOK, TaskOK, IInv, RpcInv, RpcOK
  <2>. HIDE DEF m
  <2>3. \A y \in net' : MsgOK(y, next_req', pending', NextOp')
    BY <1>1, <2>1, <2>2 DEF IInv, RpcInv, RpcOK
  <2>4. task'[Receiver].pc = "idle"
    BY <1>3, IdleOK
  <2>. QED BY <1>1, <2>3, <2>4 DEF IInv, RpcInv, RpcOK
<1>. QED BY <1>4, <1>5 DEF IInv

LEMMA RecvResponseOK ==
  ASSUME IInv, RecvResponse
  PROVE  IInv'
<1>1. PICK m \in net : /\ m.type = "response" /\ net' = net \ {m}
                       /\ IF m.id = pending THEN Advance(m.reply) /\ pending' = 0 ELSE UNCHANGED <<k8s, pending>>
                       /\ UNCHANGED <<hostVars, serving, next_req>>
  BY DEF RecvResponse
<1>2. HostInv'
  BY <1>1, HostSame DEF IInv
<1>3. MsgOK(m, next_req, pending, NextOp) /\ net' \subseteq net
  BY <1>1 DEF IInv, RpcInv, RpcOK
<1>4. CASE m.id = pending
  <2>1. pending # 0 /\ m.op = NextOp /\ ReplyOK(m.op, m.reply.ok, m.reply.id, m.reply.ip)
    BY <1>1, <1>3, <1>4 DEF MsgOK
  <2>2. Fits(k8s, m.reply)
    BY <2>1, AnswerFits
  <2>3. RpcInv'
    BY <1>1, <1>3, <1>4, <2>1, <2>2, AdvanceOK DEF IInv
  <2>. QED BY <1>2, <2>3 DEF IInv
<1>5. CASE m.id # pending
  <2>1. k8s' = k8s /\ pending' = pending /\ task' = task /\ NextOp' = NextOp
    BY <1>1, <1>5, SameOp DEF hostVars
  <2>2. RpcInv'
    BY <1>1, <1>3, <2>1 DEF IInv, RpcInv, RpcOK
  <2>. QED BY <1>2, <2>2 DEF IInv
<1>. QED BY <1>4, <1>5

LEMMA TimeoutOK ==
  ASSUME IInv, Timeout
  PROVE  IInv'
<1>1. /\ pending # 0 /\ Advance(NoReply) /\ pending' = 0 /\ net' \subseteq net
      /\ UNCHANGED <<hostVars, serving, next_req>>
  BY DEF Timeout
<1>2. Fits(k8s, NoReply)
  BY DEF Fits, NoReply
<1>3. RpcInv'
  BY <1>1, <1>2, AdvanceOK DEF IInv
<1>. QED BY <1>1, <1>3, HostSame DEF IInv

LEMMA LoseOK ==
  ASSUME IInv, Lose
  PROVE  IInv'
<1>1. /\ net' \subseteq net /\ UNCHANGED hostVars /\ task' = task
      /\ serving' = serving /\ next_req' = next_req /\ pending' = pending /\ k8s' = k8s
  BY DEF Lose, hostVars
<1>2. NextOp' = NextOp
  BY <1>1, SameOp
<1>3. RpcInv'
  BY <1>1, <1>2 DEF IInv, RpcInv, RpcOK
<1>. QED BY <1>1, <1>3, HostSame DEF IInv

\* An operator's request begins with nobody waiting.
LEMMA OperatorOK ==
  ASSUME IInv, k8s.pc \notin Calling, ClusterOK(k8s'), Done(k8s') = Done(k8s),
         UNCHANGED <<hostVars, net, serving, next_req, pending>>
  PROVE  IInv'
<1>1. /\ net' = net /\ UNCHANGED hostVars /\ task' = task
      /\ serving' = serving /\ next_req' = next_req /\ pending' = pending
  BY DEF hostVars
<1>2. pending = 0
  BY DEF IInv, RpcInv, RpcOK
<1>3. \A m \in net' : MsgOK(m, next_req', pending', NextOp')
  BY <1>1, <1>2 DEF IInv, RpcInv, RpcOK, MsgOK
<1>4. RpcInv'
  BY <1>1, <1>2, <1>3 DEF IInv, RpcInv, RpcOK
<1>. QED BY <1>1, <1>4, HostSame DEF IInv

LEMMA K8sCreateOK ==
  ASSUME IInv, K8sCreate
  PROVE  IInv'
<1>1. PICK p \in K8sPrefixes : Parses(p) /\ k8s' = [NoCluster EXCEPT !.pc = "network", !.prefix_len = p]
  BY DEF K8sCreate
<1>2. k8s.pc = "none" /\ UNCHANGED <<hostVars, net, serving, next_req, pending>> /\ p \in Nat
  BY K8sAssumption DEF K8sCreate
<1>3. /\ DOMAIN k8s' = {"pc", "i", "prefix_len", "network", "lb", "vm", "nodes", "err"}
      /\ k8s'.pc = "network" /\ k8s'.i = 1 /\ k8s'.nodes = <<>> /\ k8s'.prefix_len = p
  BY <1>1 DEF NoCluster
<1>4. <<>> \in Seq(Node) /\ Len(<<>>) = 0 /\ 1 \in 1..(Workers + 1)
  BY K8sAssumption
<1>5. ClusterOK(k8s')
  BY <1>1, <1>2, <1>3, <1>4 DEF ClusterOK, Calling, Creation, Destruction, Existing, Complete
<1>6. Done(k8s') = Done(k8s) /\ k8s.pc \notin Calling
  BY <1>2, <1>3 DEF Done, Calling, Creation, Destruction
<1>. QED BY <1>2, <1>5, <1>6, OperatorOK

LEMMA K8sDestroyOK ==
  ASSUME IInv, K8sDestroy
  PROVE  IInv'
<1>1. /\ k8s.pc = "up" /\ k8s' = [k8s EXCEPT !.pc = "del_lb"] /\ ClusterOK(k8s)
      /\ UNCHANGED <<hostVars, net, serving, next_req, pending>>
  BY DEF K8sDestroy, IInv, RpcInv, RpcOK
<1>2. /\ DOMAIN k8s' = DOMAIN k8s /\ k8s'.pc = "del_lb" /\ k8s'.i = k8s.i /\ k8s'.nodes = k8s.nodes
      /\ k8s'.prefix_len = k8s.prefix_len /\ k8s'.network = k8s.network
  BY <1>1 DEF ClusterOK
<1>3. ClusterOK(k8s')
  BY <1>1, <1>2 DEF ClusterOK, Calling, Creation, Destruction, Existing, Complete
<1>4. Done(k8s') = Done(k8s) /\ k8s.pc \notin Calling
  BY <1>1, <1>2 DEF Done, Calling, Creation, Destruction
<1>. QED BY <1>1, <1>3, <1>4, OperatorOK

\* A task that is idle has no later step to take.
LEMMA ProceedBusy ==
  ASSUME NEW t, Proceed(t)
  PROVE  task[t].pc # "idle"
  BY DEF Proceed, Create, VolumeCreate, VolumeDelete2, AttachVolume2, NicAttach2, Settle

LEMMA HostNextOK ==
  ASSUME IInv, UNCHANGED rpcVars,
         \/ \E t \in Task : Local(t)
         \/ \E t \in Task \cup {Receiver} : Proceed(t)
         \/ Snapshot
         \/ Crash
  PROVE  IInv'
<1>1. ASSUME NEW t \in Task, Local(t) PROVE IInv'
  <2>1. HostInv' /\ \E op : Moved(task, task', t, op)
    BY <1>1, LocalOK DEF IInv
  <2>2. task'[Receiver] = task[Receiver]
    BY <2>1, HostAssumption DEF Moved, Tasks
  <2>3. RpcInv'
    BY <2>2, HostStep DEF IInv
  <2>. QED BY <2>1, <2>3 DEF IInv
<1>2. ASSUME NEW t \in Tasks, Proceed(t) PROVE IInv'
  <2>1. HostInv' /\ Moved(task, task', t, task[t].op)
    BY <1>2, ProceedOK DEF IInv
  <2>2. task[t].pc # "idle"
    BY <1>2, ProceedBusy
  <2>3. task'[Receiver] = task[Receiver] \/ (t = Receiver /\ task'[Receiver].op = task[Receiver].op)
    BY <2>1 DEF Moved, Tasks
  <2>4. RpcInv'
    BY <2>2, <2>3, HostStep DEF IInv
  <2>. QED BY <2>1, <2>4 DEF IInv
<1>3. CASE Snapshot
  <2>1. /\ mix' = mix /\ slots' = slots /\ vault' = vault /\ nets' = nets /\ usage' = usage
        /\ vm_charges' = vm_charges /\ volume_charges' = volume_charges /\ task' = task
    BY <1>3 DEF Snapshot, stores, accounts
  <2>2. HostInv'
    BY <2>1 DEF IInv, HostInv
  <2>3. RpcInv'
    BY <2>1, HostStep DEF IInv
  <2>. QED BY <2>2, <2>3 DEF IInv
<1>4. CASE Crash
  <2>1. HostInv' /\ task'[Receiver].pc = "idle"
    BY <1>4, CrashOK DEF IInv
  <2>2. RpcInv'
    BY <2>1, HostStep DEF IInv
  <2>. QED BY <2>1, <2>2 DEF IInv
<1>. QED BY <1>1, <1>2, <1>3, <1>4 DEF Tasks

LEMMA NextInv == IInv /\ [Next]_vars => IInv'
<1>. SUFFICES ASSUME IInv, [Next]_vars PROVE IInv'
  OBVIOUS
<1>1. CASE UNCHANGED vars
  <2>1. UNCHANGED hostVars /\ UNCHANGED rpcVars /\ task' = task
    BY <1>1 DEF vars, hostVars
  <2>2. RpcInv'
    BY <2>1, HostStep DEF IInv
  <2>. QED BY <2>1, <2>2, HostSame DEF IInv
<1>2. CASE /\ \/ \E t \in Task : Local(t)
              \/ \E t \in Task \cup {Receiver} : Proceed(t)
              \/ Snapshot
              \/ mix.crash /\ Crash
           /\ UNCHANGED rpcVars
  BY <1>2, HostNextOK
<1>3. CASE Invoke BY <1>3, InvokeOK
<1>4. CASE RecvRequest BY <1>4, RecvRequestOK
<1>5. CASE SendResponse BY <1>5, SendResponseOK
<1>6. CASE Lose BY <1>6, LoseOK
<1>7. CASE RecvResponse BY <1>7, RecvResponseOK
<1>8. CASE Timeout BY <1>8, TimeoutOK
<1>9. CASE K8sCreate BY <1>9, K8sCreateOK
<1>10. CASE K8sDestroy BY <1>10, K8sDestroyOK
<1>. QED
  BY <1>1, <1>2, <1>3, <1>4, <1>5, <1>6, <1>7, <1>8, <1>9, <1>10 DEF Next

---------------------------------------------------------------------------
(* The accounts of the wrapper.  A note in vm_charges or volume_charges is    *)
(* worth what the VM or volume costs, except while one task is about to write *)
(* or to take it.  Two tasks about to settle the same id end in raced.        *)

\* The task has changed the host and has yet to settle for it.
Counts(x) == x.pc = "settle" /\ x.reply.ok

VmKinds == {"create", "delete"}
VolumeKinds == {"create_volume", "delete_volume"}

Settling(tk, K, id) == {t \in Tasks : Counts(tk[t]) /\ tk[t].op.kind \in K /\ tk[t].reply.id = id}

VmPrice(x) == [NoUsage EXCEPT !.vcpus = x.cost]
VolumePrice(g, v) == [NoUsage EXCEPT !.storage_bytes = g.rows[v]]

\* The note about id, which is here or not.
NoteOK(ch, id, here, price, tk, K) ==
  /\ Settling(tk, K, id) = {} => (id \in DOMAIN ch <=> here) /\ (here => ch[id] = price)
  /\ \A t \in Tasks : Settling(tk, K, id) = {t} =>
       IF tk[t].op.kind \in Creating THEN here /\ ChargeFor(tk[t].op) = price
       ELSE ~here /\ IF id \in DOMAIN ch THEN ch[id] = Owed(tk[t]) ELSE Owed(tk[t]) = NoUsage

StakesOK(tk) ==
  \A t \in Tasks :
    /\ Owed(tk[t]) \in Amount
    /\ Counts(tk[t]) => IF tk[t].op.kind \in VmKinds THEN tk[t].reply.id \in Vm ELSE tk[t].reply.id \in VolumeId

VmNotes(vc, sl, tk) == \A v \in Vm : NoteOK(vc, v, sl[v] # NoVm, VmPrice(sl[v]), tk, VmKinds)
VolumeNotes(dc, g, tk) == \A v \in VolumeId : NoteOK(dc, v, Known(g, v), VolumePrice(g, v), tk, VolumeKinds)

CpuHeld(sl) == SumFunctionOnSet([v \in Vm |-> sl[v].cost], Vm)
DiskHeld(g) == SumFunctionOnSet(g.rows, DOMAIN g.rows)
CpuOwed(tk) == SumFunctionOnSet([t \in Tasks |-> Owed(tk[t]).vcpus], Tasks)
DiskOwed(tk) == SumFunctionOnSet([t \in Tasks |-> Owed(tk[t]).storage_bytes], Tasks)

Balanced(us, ls, sl, g, tk) ==
  /\ us.vcpus = CpuHeld(sl) + CpuOwed(tk) + ls.vcpus
  /\ us.storage_bytes = DiskHeld(g) + DiskOwed(tk) + ls.storage_bytes

Books(us, ls, sl, g, tk, vc, dc) ==
  /\ StakesOK(tk)
  /\ Balanced(us, ls, sl, g, tk)
  /\ VmNotes(vc, sl, tk)
  /\ VolumeNotes(dc, g, tk)

BooksInv ==
  /\ lost \in Amount
  /\ ~raced => Books(usage, lost, slots, vault, task, vm_charges, volume_charges)

\* Sums.
LEMMA CpuOwedFacts ==
  ASSUME NEW tk, StakesOK(tk)
  PROVE  CpuOwed(tk) \in Nat /\ \A t \in Tasks : Owed(tk[t]).vcpus \in Nat /\ Owed(tk[t]).vcpus <= CpuOwed(tk)
<1>. DEFINE f == [t \in Tasks |-> Owed(tk[t]).vcpus]
<1>1. IsFiniteSet(Tasks)
  BY FiniteTasks
<1>2. \A t \in Tasks : f[t] = Owed(tk[t]).vcpus /\ f[t] \in Nat
  BY DEF StakesOK, Amount
<1>3. CpuOwed(tk) = SumFunctionOnSet(f, Tasks)
  BY DEF CpuOwed
<1>. HIDE DEF f
<1>4. SumFunctionOnSet(f, Tasks) \in Nat /\ \A t \in Tasks : f[t] <= SumFunctionOnSet(f, Tasks)
  BY <1>1, <1>2, SumNat
<1>. QED BY <1>2, <1>3, <1>4

LEMMA DiskOwedFacts ==
  ASSUME NEW tk, StakesOK(tk)
  PROVE  DiskOwed(tk) \in Nat /\ \A t \in Tasks : Owed(tk[t]).storage_bytes \in Nat /\ Owed(tk[t]).storage_bytes <= DiskOwed(tk)
<1>. DEFINE f == [t \in Tasks |-> Owed(tk[t]).storage_bytes]
<1>1. IsFiniteSet(Tasks)
  BY FiniteTasks
<1>2. \A t \in Tasks : f[t] = Owed(tk[t]).storage_bytes /\ f[t] \in Nat
  BY DEF StakesOK, Amount
<1>3. DiskOwed(tk) = SumFunctionOnSet(f, Tasks)
  BY DEF DiskOwed
<1>. HIDE DEF f
<1>4. SumFunctionOnSet(f, Tasks) \in Nat /\ \A t \in Tasks : f[t] <= SumFunctionOnSet(f, Tasks)
  BY <1>1, <1>2, SumNat
<1>. QED BY <1>2, <1>3, <1>4

\* One task owes something else.
LEMMA OwedMoves ==
  ASSUME NEW tk, NEW tk2, StakesOK(tk), StakesOK(tk2), NEW t \in Tasks,
         \A u \in Tasks \ {t} : Owed(tk2[u]) = Owed(tk[u])
  PROVE  /\ CpuOwed(tk2) = CpuOwed(tk) - Owed(tk[t]).vcpus + Owed(tk2[t]).vcpus
         /\ DiskOwed(tk2) = DiskOwed(tk) - Owed(tk[t]).storage_bytes + Owed(tk2[t]).storage_bytes
<1>0. IsFiniteSet(Tasks)
  BY FiniteTasks
<1>1. CpuOwed(tk2) = CpuOwed(tk) - Owed(tk[t]).vcpus + Owed(tk2[t]).vcpus
  <2>. DEFINE f == [u \in Tasks |-> Owed(tk[u]).vcpus]
              e == [u \in Tasks |-> Owed(tk2[u]).vcpus]
  <2>1. /\ \A u \in Tasks : f[u] \in Int /\ e[u] \in Int
        /\ \A u \in Tasks \ {t} : e[u] = f[u]
        /\ f[t] = Owed(tk[t]).vcpus /\ e[t] = Owed(tk2[t]).vcpus
    BY DEF StakesOK, Amount
  <2>2. CpuOwed(tk) = SumFunctionOnSet(f, Tasks) /\ CpuOwed(tk2) = SumFunctionOnSet(e, Tasks)
    BY DEF CpuOwed
  <2>. HIDE DEF f, e
  <2>3. SumFunctionOnSet(e, Tasks) = SumFunctionOnSet(f, Tasks) - f[t] + e[t]
    BY <1>0, <2>1, SumChange
  <2>. QED BY <2>1, <2>2, <2>3
<1>2. DiskOwed(tk2) = DiskOwed(tk) - Owed(tk[t]).storage_bytes + Owed(tk2[t]).storage_bytes
  <2>. DEFINE f == [u \in Tasks |-> Owed(tk[u]).storage_bytes]
              e == [u \in Tasks |-> Owed(tk2[u]).storage_bytes]
  <2>1. /\ \A u \in Tasks : f[u] \in Int /\ e[u] \in Int
        /\ \A u \in Tasks \ {t} : e[u] = f[u]
        /\ f[t] = Owed(tk[t]).storage_bytes /\ e[t] = Owed(tk2[t]).storage_bytes
    BY DEF StakesOK, Amount
  <2>2. DiskOwed(tk) = SumFunctionOnSet(f, Tasks) /\ DiskOwed(tk2) = SumFunctionOnSet(e, Tasks)
    BY DEF DiskOwed
  <2>. HIDE DEF f, e
  <2>3. SumFunctionOnSet(e, Tasks) = SumFunctionOnSet(f, Tasks) - f[t] + e[t]
    BY <1>0, <2>1, SumChange
  <2>. QED BY <2>1, <2>2, <2>3
<1>. QED BY <1>1, <1>2

LEMMA FiniteVms == IsFiniteSet(Vm) /\ \A x \in Slot : x.cost \in Nat
<1>1. IsFiniteSet(0..(MAX_SLOTS - 1))
  BY HostAssumption, FS_Interval
<1>2. ASSUME NEW x \in Slot PROVE x.cost \in Nat
  <2>1. CASE x = NoVm
    BY <2>1 DEF NoVm
  <2>2. CASE x # NoVm
    <3>1. x.cost \in VmCost \cup {0}
      BY <2>2 DEF Slot
    <3>2. \A y \in VmCost \cup {0} : y \in Nat
      BY HostAssumption
    <3>. QED BY <3>1, <3>2
  <2>. QED BY <2>1, <2>2
<1>. QED BY <1>1, <1>2 DEF Vm

\* One VM costs something else.
LEMMA CpuHeldMoves ==
  ASSUME NEW sl \in [Vm -> Slot], NEW sl2 \in [Vm -> Slot], NEW v \in Vm, \A w \in Vm \ {v} : sl2[w].cost = sl[w].cost
  PROVE  CpuHeld(sl) \in Nat /\ CpuHeld(sl2) = CpuHeld(sl) - sl[v].cost + sl2[v].cost
<1>. DEFINE f == [w \in Vm |-> sl[w].cost]
            e == [w \in Vm |-> sl2[w].cost]
<1>1. \A w \in Vm : f[w] \in Nat /\ e[w] \in Nat
  BY FiniteVms
<1>2. /\ \A w \in Vm : f[w] \in Int /\ e[w] \in Int
      /\ \A w \in Vm \ {v} : e[w] = f[w]
      /\ f[v] = sl[v].cost /\ e[v] = sl2[v].cost
  BY <1>1
<1>3. CpuHeld(sl) = SumFunctionOnSet(f, Vm) /\ CpuHeld(sl2) = SumFunctionOnSet(e, Vm)
  BY DEF CpuHeld
<1>. HIDE DEF f, e
<1>4. SumFunctionOnSet(e, Vm) = SumFunctionOnSet(f, Vm) - f[v] + e[v]
  BY FiniteVms, <1>2, SumChange
<1>5. SumFunctionOnSet(f, Vm) \in Nat
  BY FiniteVms, <1>1, SumNat
<1>. QED BY <1>2, <1>3, <1>4, <1>5

LEMMA CpuHeldType ==
  ASSUME NEW sl \in [Vm -> Slot]
  PROVE  CpuHeld(sl) \in Nat
<1>. DEFINE f == [w \in Vm |-> sl[w].cost]
<1>1. \A w \in Vm : f[w] \in Nat
  BY FiniteVms
<1>. QED BY FiniteVms, <1>1, SumNat DEF CpuHeld

LEMMA FiniteRows ==
  ASSUME NEW g, VaultOK(g)
  PROVE  IsFiniteSet(DOMAIN g.rows) /\ DiskHeld(g) \in Nat /\ \A v \in DOMAIN g.rows : g.rows[v] \in Nat
<1>1. g.next \in Nat /\ DOMAIN g.rows \subseteq 1..g.next /\ \A v \in DOMAIN g.rows : g.rows[v] \in Nat
  BY VolumeAssumption DEF VaultOK, IsVolumeStore
<1>2. IsFiniteSet(1..g.next)
  BY <1>1, FS_Interval
<1>3. IsFiniteSet(DOMAIN g.rows)
  BY <1>1, <1>2, FS_Subset
<1>4. DiskHeld(g) \in Nat
  BY <1>1, <1>3, SumNat DEF DiskHeld
<1>. QED BY <1>1, <1>3, <1>4

\* A volume comes or goes.
LEMMA DiskHeldMoves ==
  ASSUME NEW g, NEW h, VaultOK(g), VaultOK(h), NEW v, v \notin DOMAIN g.rows,
         DOMAIN h.rows = DOMAIN g.rows \cup {v}, \A w \in DOMAIN g.rows : h.rows[w] = g.rows[w]
  PROVE  DiskHeld(h) = DiskHeld(g) + h.rows[v]
<1>1. IsFiniteSet(DOMAIN g.rows) /\ \A w \in DOMAIN g.rows \cup {v} : h.rows[w] \in Int
  BY FiniteRows
<1>2. SumFunctionOnSet(h.rows, DOMAIN g.rows \cup {v}) = SumFunctionOnSet(h.rows, DOMAIN g.rows) + h.rows[v]
  BY <1>1, SumAdd
<1>3. SumFunctionOnSet(h.rows, DOMAIN g.rows) = SumFunctionOnSet(g.rows, DOMAIN g.rows)
  BY <1>1, SumSame
<1>. QED BY <1>2, <1>3 DEF DiskHeld

---------------------------------------------------------------------------
(* Notes. *)

\* Task u is as it was, as far as the notes are concerned.
CountsAlike(x, y) == (Counts(x) <=> Counts(y)) /\ (Counts(x) => y = x)

LEMMA SettlingSame ==
  ASSUME NEW tk, NEW tk2, \A u \in Tasks : CountsAlike(tk[u], tk2[u]), NEW K, NEW id
  PROVE  /\ Settling(tk2, K, id) = Settling(tk, K, id)
         /\ \A u \in Settling(tk, K, id) : tk2[u] = tk[u]
  BY DEF CountsAlike, Settling

LEMMA NoteSame ==
  ASSUME NEW tk, NEW tk2, NEW K, NEW id, NEW ch, NEW here, NEW price, NoteOK(ch, id, here, price, tk, K),
         NEW ch2, NEW here2, NEW price2, here2 <=> here, here => price2 = price,
         id \in DOMAIN ch2 <=> id \in DOMAIN ch, id \in DOMAIN ch => ch2[id] = ch[id],
         Settling(tk2, K, id) = Settling(tk, K, id), \A u \in Settling(tk, K, id) : tk2[u] = tk[u]
  PROVE  NoteOK(ch2, id, here2, price2, tk2, K)
  BY DEF NoteOK

\* Task t has made or removed id; nobody else was about to settle for it, or two are now.
LEMMA NoteBegins ==
  ASSUME NEW tk, NEW tk2, NEW K, NEW id, NEW ch, NEW here, NEW price, NoteOK(ch, id, here, price, tk, K),
         NEW here2, NEW price2, NEW t \in Tasks, t \notin Settling(tk, K, id),
         Settling(tk2, K, id) = Settling(tk, K, id) \cup {t},
         IF tk2[t].op.kind \in Creating THEN here2 /\ ChargeFor(tk2[t].op) = price2
         ELSE ~here2 /\ Owed(tk2[t]) = (IF here THEN price ELSE NoUsage)
  PROVE  NoteOK(ch, id, here2, price2, tk2, K)
<1>1. ASSUME NEW u \in Tasks, Settling(tk2, K, id) = {u} PROVE u = t /\ Settling(tk, K, id) = {}
  BY <1>1
<1>2. Settling(tk2, K, id) # {}
  OBVIOUS
<1>. QED BY <1>1, <1>2 DEF NoteOK

\* Task t alone settles for id.
LEMMA NoteEnds ==
  ASSUME NEW tk, NEW tk2, NEW K, NEW id, NEW ch, NEW here, NEW price, NoteOK(ch, id, here, price, tk, K),
         NEW ch2, NEW t \in Tasks, Settling(tk, K, id) = {t}, Settling(tk2, K, id) = {},
         IF tk[t].op.kind \in Creating THEN id \in DOMAIN ch2 /\ ch2[id] = ChargeFor(tk[t].op)
         ELSE id \notin DOMAIN ch2
  PROVE  NoteOK(ch2, id, here, price, tk2, K)
  BY DEF NoteOK

\* A task that does not count moves the sets only if it counts afterwards.
LEMMA SettlingBegins ==
  ASSUME NEW tk, NEW tk2, NEW t \in Tasks, \A u \in Tasks \ {t} : tk2[u] = tk[u], ~Counts(tk[t]), NEW K, NEW id
  PROVE  /\ t \notin Settling(tk, K, id)
         /\ \A u \in Settling(tk, K, id) : tk2[u] = tk[u]
         /\ Counts(tk2[t]) /\ tk2[t].op.kind \in K /\ tk2[t].reply.id = id
              => Settling(tk2, K, id) = Settling(tk, K, id) \cup {t}
         /\ ~(Counts(tk2[t]) /\ tk2[t].op.kind \in K /\ tk2[t].reply.id = id)
              => Settling(tk2, K, id) = Settling(tk, K, id)
<1>1. t \notin Settling(tk, K, id) /\ \A u \in Settling(tk, K, id) : tk2[u] = tk[u]
  BY DEF Settling
<1>2. CASE Counts(tk2[t]) /\ tk2[t].op.kind \in K /\ tk2[t].reply.id = id
  <2>1. Settling(tk2, K, id) = Settling(tk, K, id) \cup {t}
    BY <1>2 DEF Settling
  <2>. QED BY <1>1, <1>2, <2>1
<1>3. CASE ~(Counts(tk2[t]) /\ tk2[t].op.kind \in K /\ tk2[t].reply.id = id)
  <2>1. Settling(tk2, K, id) = Settling(tk, K, id)
    BY <1>3 DEF Settling
  <2>. QED BY <1>1, <1>3, <2>1
<1>. QED BY <1>2, <1>3

LEMMA SettlingEnds ==
  ASSUME NEW tk, NEW tk2, NEW t \in Tasks, \A u \in Tasks \ {t} : tk2[u] = tk[u], ~Counts(tk2[t]), NEW K, NEW id
  PROVE  Settling(tk2, K, id) = Settling(tk, K, id) \ {t}
  BY DEF Settling

---------------------------------------------------------------------------
(* Steps. *)

\* The stake of a task is the same.
SameStake(x, y) == Owed(y) = Owed(x) /\ CountsAlike(x, y)

\* The accounts do not depend on anything else.
LEMMA BooksSame ==
  ASSUME NEW us, NEW ls, NEW sl, NEW g, NEW tk, NEW vc, NEW dc, Books(us, ls, sl, g, tk, vc, dc),
         NEW sl2, NEW g2, NEW tk2,
         \A u \in Tasks : SameStake(tk[u], tk2[u]),
         \A v \in Vm : sl2[v].cost = sl[v].cost /\ (sl2[v] # NoVm <=> sl[v] # NoVm),
         g2.rows = g.rows
  PROVE  Books(us, ls, sl2, g2, tk2, vc, dc)
<1>1. StakesOK(tk2)
  BY DEF Books, StakesOK, SameStake, CountsAlike
<1>2. CpuHeld(sl2) = CpuHeld(sl) /\ DiskHeld(g2) = DiskHeld(g)
  <2>1. [v \in Vm |-> sl2[v].cost] = [v \in Vm |-> sl[v].cost]
    OBVIOUS
  <2>. QED BY <2>1 DEF CpuHeld, DiskHeld
<1>3. CpuOwed(tk2) = CpuOwed(tk) /\ DiskOwed(tk2) = DiskOwed(tk)
  <2>1. /\ [t \in Tasks |-> Owed(tk2[t]).vcpus] = [t \in Tasks |-> Owed(tk[t]).vcpus]
        /\ [t \in Tasks |-> Owed(tk2[t]).storage_bytes] = [t \in Tasks |-> Owed(tk[t]).storage_bytes]
    BY DEF SameStake
  <2>. QED BY <2>1 DEF CpuOwed, DiskOwed
<1>4. \A K, id : /\ Settling(tk2, K, id) = Settling(tk, K, id)
                 /\ \A u \in Settling(tk, K, id) : tk2[u] = tk[u]
  BY SettlingSame DEF SameStake
<1>5. VmNotes(vc, sl2, tk2)
  <2>. SUFFICES ASSUME NEW v \in Vm PROVE NoteOK(vc, v, sl2[v] # NoVm, VmPrice(sl2[v]), tk2, VmKinds)
    BY DEF VmNotes
  <2>1. NoteOK(vc, v, sl[v] # NoVm, VmPrice(sl[v]), tk, VmKinds) /\ VmPrice(sl2[v]) = VmPrice(sl[v])
    BY DEF Books, VmNotes, VmPrice
  <2>. QED BY <1>4, <2>1, NoteSame
<1>6. VolumeNotes(dc, g2, tk2)
  <2>. SUFFICES ASSUME NEW v \in VolumeId PROVE NoteOK(dc, v, Known(g2, v), VolumePrice(g2, v), tk2, VolumeKinds)
    BY DEF VolumeNotes
  <2>1. /\ NoteOK(dc, v, Known(g, v), VolumePrice(g, v), tk, VolumeKinds)
        /\ VolumePrice(g2, v) = VolumePrice(g, v) /\ (Known(g2, v) <=> Known(g, v))
    BY DEF Books, VolumeNotes, VolumePrice, Known
  <2>. QED BY <1>4, <2>1, NoteSame
<1>7. Balanced(us, ls, sl2, g2, tk2)
  BY <1>2, <1>3 DEF Books, Balanced
<1>. QED BY <1>1, <1>5, <1>6, <1>7 DEF Books

\* Notes when no task begins or ends to count.
LEMMA NotesSame ==
  ASSUME NEW sl, NEW g, NEW tk, NEW vc, NEW dc, VmNotes(vc, sl, tk), VolumeNotes(dc, g, tk),
         NEW tk2, \A u \in Tasks : CountsAlike(tk[u], tk2[u])
  PROVE  VmNotes(vc, sl, tk2) /\ VolumeNotes(dc, g, tk2)
<1>4. \A K, id : /\ Settling(tk2, K, id) = Settling(tk, K, id)
                 /\ \A u \in Settling(tk, K, id) : tk2[u] = tk[u]
  BY SettlingSame
<1>5. ASSUME NEW v \in Vm PROVE NoteOK(vc, v, sl[v] # NoVm, VmPrice(sl[v]), tk2, VmKinds)
  <2>1. NoteOK(vc, v, sl[v] # NoVm, VmPrice(sl[v]), tk, VmKinds)
    BY DEF VmNotes
  <2>. QED BY <1>4, <2>1, NoteSame
<1>6. ASSUME NEW v \in VolumeId PROVE NoteOK(dc, v, Known(g, v), VolumePrice(g, v), tk2, VolumeKinds)
  <2>1. NoteOK(dc, v, Known(g, v), VolumePrice(g, v), tk, VolumeKinds)
    BY DEF VolumeNotes
  <2>. QED BY <1>4, <2>1, NoteSame
<1>. QED BY <1>5, <1>6 DEF VmNotes, VolumeNotes

\* Nothing is at stake for the task.
Free(x) == Owed(x) = NoUsage /\ ~Counts(x)

LEMMA FreePcs ==
  ASSUME NEW x
  PROVE  /\ x.pc \notin {"host", "settle"} => Free(x)
         /\ x.pc = "settle" /\ ~x.reply.ok /\ x.op.kind \in Deleting => Free(x)
         /\ x.pc = "host" => Owed(x) = ChargeFor(x.op) /\ ~Counts(x)
         /\ x.pc = "settle" /\ ~x.reply.ok => Owed(x) = ChargeFor(x.op) /\ ~Counts(x)
         /\ x.pc = "settle" /\ x.reply.ok /\ x.op.kind \in Creating => Owed(x) = NoUsage /\ Counts(x)
         /\ x.pc = "settle" /\ x.reply.ok /\ x.op.kind = "delete" => Owed(x) = [NoUsage EXCEPT !.vcpus = x.cost] /\ Counts(x)
         /\ x.pc = "settle" /\ x.reply.ok /\ x.op.kind = "delete_volume" => Owed(x) = [NoUsage EXCEPT !.storage_bytes = x.cost] /\ Counts(x)
<1>1. x.pc \notin {"host", "settle"} => Free(x)
  BY DEF Free, Owed, Counts
<1>2. x.pc = "host" => Owed(x) = ChargeFor(x.op) /\ ~Counts(x)
  BY DEF Owed, Counts
<1>3. x.pc = "settle" /\ ~x.reply.ok => Owed(x) = ChargeFor(x.op) /\ ~Counts(x)
  BY DEF Owed, Counts
<1>4. x.op.kind \in Deleting => ChargeFor(x.op) = NoUsage
  BY DEF ChargeFor, Deleting
<1>5. x.pc = "settle" /\ x.reply.ok /\ x.op.kind \in Creating => Owed(x) = NoUsage /\ Counts(x)
  BY DEF Owed, Counts, Creating
<1>6. x.pc = "settle" /\ x.reply.ok /\ x.op.kind = "delete" => Owed(x) = [NoUsage EXCEPT !.vcpus = x.cost] /\ Counts(x)
  BY DEF Owed, Counts
<1>7. x.pc = "settle" /\ x.reply.ok /\ x.op.kind = "delete_volume" => Owed(x) = [NoUsage EXCEPT !.storage_bytes = x.cost] /\ Counts(x)
  BY DEF Owed, Counts
<1>. QED BY <1>1, <1>2, <1>3, <1>4, <1>5, <1>6, <1>7 DEF Free

LEMMA ReplyStake ==
  ASSUME TasksOK(task), NEW t \in Tasks, NEW op, NEW ok, NEW id, NEW cost, Reply(t, op, ok, id, cost)
  PROVE  /\ \A u \in Tasks \ {t} : task'[u] = task[u]
         /\ op.kind \in Settled => /\ task'[t].pc = "settle" /\ task'[t].op = op /\ task'[t].reply.ok = ok
                                   /\ task'[t].reply.id = id /\ task'[t].cost = cost
         /\ op.kind \notin Settled => Free(task'[t])
<1>1. CASE op.kind \in Settled
  <2>. DEFINE x == [pc |-> "settle", op |-> op, reply |-> [NoReply EXCEPT !.ok = ok, !.id = id], cost |-> cost]
  <2>1. task' = Put(task, t, x)
    BY <1>1 DEF Reply, Put
  <2>2. x.pc = "settle" /\ x.op = op /\ x.reply.ok = ok /\ x.reply.id = id /\ x.cost = cost
    BY DEF NoReply
  <2>. HIDE DEF x
  <2>. QED BY <1>1, <2>1, <2>2 DEF Put, TasksOK
<1>2. CASE op.kind \notin Settled /\ t = Receiver
  <2>. DEFINE x == [Idle EXCEPT !.pc = "answer", !.op = op, !.reply = [NoReply EXCEPT !.ok = ok, !.id = id]]
  <2>1. task' = Put(task, t, x)
    BY <1>2 DEF Reply, Put
  <2>2. x.pc = "answer"
    BY DEF Idle
  <2>. HIDE DEF x
  <2>3. Free(x)
    BY <2>2, FreePcs
  <2>. QED BY <1>2, <2>1, <2>3 DEF Put, TasksOK
<1>3. CASE op.kind \notin Settled /\ t # Receiver
  <2>1. task' = Put(task, t, Idle)
    BY <1>3 DEF Reply, Put
  <2>2. Free(Idle)
    BY IdleOK, FreePcs
  <2>. QED BY <1>3, <2>1, <2>2 DEF Put, TasksOK
<1>. QED BY <1>1, <1>2, <1>3

LEMMA ReplyFields ==
  ASSUME TasksOK(task), NEW t \in Tasks, NEW op, op.kind \in Settled, NEW ok, NEW id, NEW cost, Reply(t, op, ok, id, cost)
  PROVE  /\ \A u \in Tasks \ {t} : task'[u] = task[u]
         /\ task'[t].pc = "settle" /\ task'[t].op = op /\ task'[t].reply.ok = ok
         /\ task'[t].reply.id = id
         /\ task'[t].cost = cost
<1>1. /\ \A u \in Tasks \ {t} : task'[u] = task[u]
      /\ task'[t].pc = "settle" /\ task'[t].op = op /\ task'[t].reply.ok = ok
  BY ReplyStake
<1>. DEFINE x == [pc |-> "settle", op |-> op, reply |-> [NoReply EXCEPT !.ok = ok, !.id = id], cost |-> cost]
<1>2. task' = Put(task, t, x)
  BY DEF Reply, Put
<1>3. x.reply.id = id /\ x.cost = cost
  BY DEF NoReply
<1>. HIDE DEF x
<1>. QED BY <1>1, <1>2, <1>3 DEF Put, TasksOK

LEMMA AnswerStake ==
  ASSUME TasksOK(task), NEW t \in Tasks, NEW op, NEW reply, Answer(t, op, reply)
  PROVE  Free(task'[t]) /\ \A u \in Tasks \ {t} : task'[u] = task[u]
<1>1. CASE t = Receiver
  <2>. DEFINE x == [Idle EXCEPT !.pc = "answer", !.op = op, !.reply = reply]
  <2>1. task' = Put(task, t, x)
    BY <1>1 DEF Answer, Put
  <2>2. x.pc = "answer"
    BY DEF Idle
  <2>. HIDE DEF x
  <2>3. Free(x)
    BY <2>2, FreePcs
  <2>. QED BY <2>1, <2>3 DEF Put, TasksOK
<1>2. CASE t # Receiver
  <2>1. task' = Put(task, t, Idle)
    BY <1>2 DEF Answer, Put
  <2>2. Free(Idle)
    BY IdleOK, FreePcs
  <2>. QED BY <2>1, <2>2 DEF Put, TasksOK
<1>. QED BY <1>1, <1>2

LEMMA GotoStake ==
  ASSUME TasksOK(task), NEW t \in Tasks, NEW op, NEW pc, Goto(t, op, pc)
  PROVE  task'[t].pc = pc /\ task'[t].op = op /\ \A u \in Tasks \ {t} : task'[u] = task[u]
<1>. DEFINE x == [Idle EXCEPT !.pc = pc, !.op = op]
<1>1. task' = Put(task, t, x)
  BY DEF Goto, Put
<1>2. x.pc = pc /\ x.op = op
  BY DEF Idle
<1>. HIDE DEF x
<1>. QED BY <1>1, <1>2 DEF Put, TasksOK

\* A VM of the same cost.
Alike(x, y) == y.cost = x.cost /\ (y # NoVm <=> x # NoVm)

LEMMA AlikeState ==
  ASSUME NEW sl \in [Vm -> Slot], NEW v \in Vm, sl[v] # NoVm, NEW state \in {"halted", "stopped"}, NEW sl2,
         sl2 = [sl EXCEPT ![v].state = state]
  PROVE  \A w \in Vm : Alike(sl[w], sl2[w])
<1>1. sl[v] \in [state : {"created", "halted", "stopped"}, volumes : SUBSET VolumeId, cost : VmCost \cup {0}]
  BY DEF Slot
<1>. DEFINE x == [sl[v] EXCEPT !.state = state]
<1>2. x.cost = sl[v].cost /\ x.state # "none"
  BY <1>1
<1>3. x # NoVm
  BY <1>2 DEF NoVm
<1>4. sl2[v] = x /\ \A w \in Vm \ {v} : sl2[w] = sl[w]
  OBVIOUS
<1>. HIDE DEF x
<1>. QED BY <1>2, <1>3, <1>4 DEF Alike

LEMMA AlikeVolumes ==
  ASSUME NEW sl \in [Vm -> Slot], NEW v \in Vm, sl[v] # NoVm, NEW vols, NEW sl2,
         sl2 = [sl EXCEPT ![v].volumes = vols]
  PROVE  \A w \in Vm : Alike(sl[w], sl2[w])
<1>1. sl[v] \in [state : {"created", "halted", "stopped"}, volumes : SUBSET VolumeId, cost : VmCost \cup {0}]
  BY DEF Slot
<1>. DEFINE x == [sl[v] EXCEPT !.volumes = vols]
<1>2. x.cost = sl[v].cost /\ x.state # "none"
  BY <1>1
<1>3. x # NoVm
  BY <1>2 DEF NoVm
<1>4. sl2[v] = x /\ \A w \in Vm \ {v} : sl2[w] = sl[w]
  OBVIOUS
<1>. HIDE DEF x
<1>. QED BY <1>2, <1>3, <1>4 DEF Alike

\* Starting, stopping and detaching keep the cost of a VM.
LEMMA SlotAlike ==
  ASSUME HostInv, NEW t \in Tasks, NEW op, OpOK(op),
         Start(t, op) \/ Stop(t, op) \/ DetachVolume(t, op)
  PROVE  \A v \in Vm : Alike(slots[v], slots'[v])
<1>1. slots \in [Vm -> Slot] /\ op.vm \in Vm
  BY DEF HostInv, SlotsOK, Start, Stop, DetachVolume, Begins, OpOK
<1>2. CASE slots' = slots
  BY <1>2 DEF Alike
<1>3. CASE slots[op.vm] # NoVm /\ \E state \in {"halted", "stopped"} : slots' = [slots EXCEPT ![op.vm].state = state]
  BY <1>1, <1>3, AlikeState
<1>4. CASE slots[op.vm] # NoVm /\ \E vols : slots' = [slots EXCEPT ![op.vm].volumes = vols]
  BY <1>1, <1>4, AlikeVolumes
<1>5. CASE Start(t, op)
  <2>1. slots' = slots \/ (slots[op.vm].state = "created" /\ slots' = [slots EXCEPT ![op.vm].state = "halted"])
    BY <1>5 DEF Start
  <2>2. slots[op.vm].state = "created" => slots[op.vm] # NoVm
    BY DEF NoVm
  <2>. QED BY <1>2, <1>3, <2>1, <2>2
<1>6. CASE Stop(t, op)
  BY <1>2, <1>3, <1>6 DEF Stop
<1>7. CASE DetachVolume(t, op)
  <2>1. slots' = slots \/ (slots[op.vm] # NoVm /\ slots' = [slots EXCEPT ![op.vm].volumes = @ \ {op.volume}])
    BY <1>7 DEF DetachVolume
  <2>2. CASE slots[op.vm] # NoVm /\ slots' = [slots EXCEPT ![op.vm].volumes = @ \ {op.volume}]
    <3>1. slots' = [slots EXCEPT ![op.vm].volumes = slots[op.vm].volumes \ {op.volume}]
      BY <1>1, <2>2
    <3>. QED BY <1>4, <2>2, <3>1
  <2>. QED BY <1>2, <2>1, <2>2
<1>. QED BY <1>5, <1>6, <1>7

LEMMA AttachAlike ==
  ASSUME HostInv, NEW t \in Tasks, AttachVolume2(t)
  PROVE  \A v \in Vm : Alike(slots[v], slots'[v])
<1>0. PICK op : op = task[t].op
  OBVIOUS
<1>1. slots \in [Vm -> Slot] /\ op.vm \in Vm
  BY <1>0 DEF AttachVolume2, HostInv, SlotsOK, TasksOK, TaskOK, OpOK
<1>2. slots' = slots \/ (slots[op.vm] # NoVm /\ slots' = [slots EXCEPT ![op.vm].volumes = @ \cup {op.volume}])
  BY <1>0 DEF AttachVolume2
<1>3. CASE slots' = slots
  BY <1>3 DEF Alike
<1>4. CASE slots[op.vm] # NoVm /\ slots' = [slots EXCEPT ![op.vm].volumes = @ \cup {op.volume}]
  <2>1. slots' = [slots EXCEPT ![op.vm].volumes = slots[op.vm].volumes \cup {op.volume}]
    BY <1>1, <1>4
  <2>. QED BY <1>1, <1>4, <2>1, AlikeVolumes
<1>. QED BY <1>2, <1>3, <1>4

\* A step that concerns no account.
LEMMA QuietBooks ==
  ASSUME BooksInv, NEW t \in Tasks, Owed(task'[t]) = Owed(task[t]), ~Counts(task[t]), ~Counts(task'[t]),
         \A u \in Tasks \ {t} : task'[u] = task[u],
         UNCHANGED <<usage, vm_charges, volume_charges, lost>>, raced => raced',
         \A v \in Vm : Alike(slots[v], slots'[v]), vault'.rows = vault.rows
  PROVE  BooksInv'
<1>1. \A u \in Tasks : SameStake(task[u], task'[u])
  <2>. TAKE u \in Tasks
  <2>1. CASE u = t
    BY <2>1 DEF SameStake, CountsAlike
  <2>2. CASE u # t
    BY <2>2 DEF SameStake, CountsAlike
  <2>. QED BY <2>1, <2>2
<1>2. \A v \in Vm : slots'[v].cost = slots[v].cost /\ (slots'[v] # NoVm <=> slots[v] # NoVm)
  BY DEF Alike
<1>3. CASE ~raced
  <2>1. Books(usage, lost, slots, vault, task, vm_charges, volume_charges)
    BY <1>3 DEF BooksInv
  <2>2. Books(usage, lost, slots', vault', task', vm_charges, volume_charges)
    BY <1>1, <1>2, <2>1, BooksSame
  <2>. QED BY <2>2 DEF BooksInv
<1>4. CASE raced
  BY <1>4 DEF BooksInv
<1>. QED BY <1>3, <1>4

\* The same for a task that has nothing at stake.
LEMMA FreeBooks ==
  ASSUME BooksInv, NEW t \in Tasks, Free(task[t]), Free(task'[t]),
         \A u \in Tasks \ {t} : task'[u] = task[u], UNCHANGED accounts,
         \A v \in Vm : Alike(slots[v], slots'[v]), vault'.rows = vault.rows
  PROVE  BooksInv'
  BY QuietBooks DEF Free, accounts

---------------------------------------------------------------------------
(* The handlers. *)

\* A charge that is granted.
LEMMA ChargeBooks ==
  ASSUME HostInv, BooksInv, NEW t \in Tasks, NEW op, OpOK(op), Charge(t, op)
  PROVE  BooksInv'
<1>1. /\ TasksOK(task) /\ task[t].pc = "idle" /\ Free(task[t])
      /\ UNCHANGED <<slots, vault, vm_charges, volume_charges, raced, lost>>
  BY FreePcs DEF Charge, HostInv, fixed, stores
<1>2. CASE usage' = usage /\ Answer(t, op, NoReply)
  <2>1. Free(task'[t]) /\ \A u \in Tasks \ {t} : task'[u] = task[u]
    BY <1>1, <1>2, AnswerStake
  <2>. QED BY <1>1, <1>2, <2>1, FreeBooks DEF accounts, Alike
<1>3. CASE usage' = Plus(usage, ChargeFor(op)) /\ Goto(t, op, "host")
  <2>1. task'[t].pc = "host" /\ task'[t].op = op /\ \A u \in Tasks \ {t} : task'[u] = task[u]
    BY <1>1, <1>3, GotoStake
  <2>2. Owed(task'[t]) = ChargeFor(op) /\ ~Counts(task'[t]) /\ ChargeFor(op) \in Amount
    BY <2>1, FreePcs, ChargeType
  <2>3. \A u \in Tasks : CountsAlike(task[u], task'[u])
    <3>. TAKE u \in Tasks
    <3>. QED BY <1>1, <2>1, <2>2 DEF CountsAlike, Free
  <2>4. CASE ~raced
    <3>1. /\ StakesOK(task) /\ Balanced(usage, lost, slots, vault, task)
          /\ VmNotes(vm_charges, slots, task) /\ VolumeNotes(volume_charges, vault, task) /\ lost \in Amount
      BY <2>4 DEF BooksInv, Books
    <3>2. StakesOK(task')
      BY <2>1, <2>2, <3>1 DEF StakesOK
    <3>3. /\ CpuOwed(task') = CpuOwed(task) - Owed(task[t]).vcpus + Owed(task'[t]).vcpus
          /\ DiskOwed(task') = DiskOwed(task) - Owed(task[t]).storage_bytes + Owed(task'[t]).storage_bytes
      BY <2>1, <3>1, <3>2, OwedMoves
    <3>4. Owed(task[t]).vcpus = 0 /\ Owed(task[t]).storage_bytes = 0
      BY <1>1 DEF Free, NoUsage
    <3>5. /\ CpuOwed(task) \in Nat /\ DiskOwed(task) \in Nat
          /\ ChargeFor(op).vcpus \in Nat /\ ChargeFor(op).storage_bytes \in Nat
          /\ lost.vcpus \in Nat /\ lost.storage_bytes \in Nat
      BY <2>2, <3>1, CpuOwedFacts, DiskOwedFacts DEF Amount
    <3>6. CpuHeld(slots) \in Nat /\ DiskHeld(vault) \in Nat
      BY CpuHeldType, FiniteRows DEF HostInv, SlotsOK
    <3>7. usage'.vcpus = usage.vcpus + ChargeFor(op).vcpus /\ usage'.storage_bytes = usage.storage_bytes + ChargeFor(op).storage_bytes
      BY <1>3 DEF Plus
    <3>8. Balanced(usage', lost, slots, vault, task')
      BY <2>2, <3>1, <3>3, <3>4, <3>5, <3>6, <3>7 DEF Balanced
    <3>9. VmNotes(vm_charges, slots, task') /\ VolumeNotes(volume_charges, vault, task')
      BY <2>3, <3>1, NotesSame
    <3>. QED BY <1>1, <3>1, <3>2, <3>8, <3>9 DEF BooksInv, Books
  <2>5. CASE raced
    BY <1>1, <2>5 DEF BooksInv
  <2>. QED BY <2>4, <2>5
<1>. QED BY <1>2, <1>3 DEF Charge

\* The handlers that are done with a reply the wrapper need not settle.
LEMMA ReplyBooks ==
  ASSUME HostInv, BooksInv, NEW t \in Tasks, Free(task[t]), NEW op, op.kind \notin Settled,
         NEW ok, NEW id, NEW cost, Reply(t, op, ok, id, cost), UNCHANGED accounts,
         \A v \in Vm : Alike(slots[v], slots'[v]), vault'.rows = vault.rows
  PROVE  BooksInv'
<1>1. Free(task'[t]) /\ \A u \in Tasks \ {t} : task'[u] = task[u]
  BY ReplyStake DEF HostInv
<1>. QED BY <1>1, FreeBooks

LEMMA GotoBooks ==
  ASSUME HostInv, BooksInv, NEW t \in Tasks, Free(task[t]), NEW op,
         NEW pc \in {"delete_volume", "attach_volume", "attach_nic"}, Goto(t, op, pc), UNCHANGED <<stores, accounts>>
  PROVE  BooksInv'
<1>1. task'[t].pc = pc /\ \A u \in Tasks \ {t} : task'[u] = task[u]
  BY GotoStake DEF HostInv
<1>2. Free(task'[t])
  BY <1>1, FreePcs
<1>3. UNCHANGED accounts /\ vault'.rows = vault.rows /\ \A v \in Vm : Alike(slots[v], slots'[v])
  BY DEF stores, Alike
<1>. QED BY <1>1, <1>2, <1>3, FreeBooks

\* VMs in another state, or with other volumes.
LEMMA SlotBooks ==
  ASSUME HostInv, BooksInv, NEW t \in Tasks, NEW op, OpOK(op),
         Start(t, op) \/ Stop(t, op) \/ DetachVolume(t, op)
  PROVE  BooksInv'
<1>1. slots \in [Vm -> Slot] /\ op.vm \in Vm /\ task[t].pc = "idle" /\ op.kind \in {"start", "stop", "detach_volume"}
  BY DEF HostInv, SlotsOK, Start, Stop, DetachVolume, Begins, OpOK
<1>2. Free(task[t]) /\ op.kind \notin Settled
  BY <1>1, FreePcs DEF Settled, Creating, Deleting
<1>3. UNCHANGED accounts /\ vault'.rows = vault.rows /\ \E ok, id, cost : Reply(t, op, ok, id, cost)
  BY DEF Start, Stop, DetachVolume
<1>4. \A v \in Vm : Alike(slots[v], slots'[v])
  BY SlotAlike
<1>. QED BY <1>2, <1>3, <1>4, ReplyBooks

\* Snapshots and networks.
LEMMA OtherBooks ==
  ASSUME HostInv, BooksInv, NEW t \in Tasks, NEW op,
         \/ SnapshotCreate(t, op) \/ SnapshotDelete(t, op) \/ SnapshotRestore(t, op)
         \/ NetworkCreate(t, op) \/ NetworkDelete(t, op) \/ NicDetach(t, op)
         \/ SgCreate(t, op) \/ SgDelete(t, op) \/ LbCreate(t, op) \/ LbDelete(t, op)
  PROVE  BooksInv'
<1>1. /\ task[t].pc = "idle" /\ UNCHANGED accounts /\ slots' = slots
      /\ \E ok, id, cost : Reply(t, op, ok, id, cost)
  BY DEF SnapshotCreate, SnapshotDelete, SnapshotRestore, NetworkCreate, NetworkDelete, NicDetach,
         SgCreate, SgDelete, LbCreate, LbDelete, Begins, stores
<1>2. op.kind \notin Settled
  BY DEF SnapshotCreate, SnapshotDelete, SnapshotRestore, NetworkCreate, NetworkDelete, NicDetach,
         SgCreate, SgDelete, LbCreate, LbDelete, Begins, Settled, Creating, Deleting
<1>3. vault' = vault \/ vault' = CreateSnapshot(vault, op.volume) \/ vault' = DeleteSnapshot(vault, op.snapshot)
  BY DEF SnapshotCreate, SnapshotDelete, SnapshotRestore, NetworkCreate, NetworkDelete, NicDetach,
         SgCreate, SgDelete, LbCreate, LbDelete, stores
<1>4. vault'.rows = vault.rows
  BY <1>3 DEF CreateSnapshot, DeleteSnapshot, HostInv, VaultOK, IsVolumeStore
<1>5. Free(task[t]) /\ \A v \in Vm : Alike(slots[v], slots'[v])
  BY <1>1, FreePcs DEF Alike
<1>. QED BY <1>1, <1>2, <1>4, <1>5, ReplyBooks

\* The handlers that look before they lock again.
LEMMA LookBooks ==
  ASSUME HostInv, BooksInv, NEW t \in Tasks, NEW op,
         VolumeDelete(t, op) \/ AttachVolume(t, op) \/ NicAttach(t, op)
  PROVE  BooksInv'
<1>1. task[t].pc = "idle" /\ UNCHANGED <<stores, accounts>> /\ op.kind \in {"delete_volume", "attach_volume", "attach_nic"}
  BY DEF VolumeDelete, AttachVolume, NicAttach, Begins
<1>2. Free(task[t]) /\ TasksOK(task)
  BY <1>1, FreePcs DEF HostInv
<1>3. CASE \E pc \in {"delete_volume", "attach_volume", "attach_nic"} : Goto(t, op, pc)
  BY <1>1, <1>2, <1>3, GotoBooks
<1>4. CASE \E id : Reply(t, op, FALSE, id, 0)
  <2>1. PICK id : Reply(t, op, FALSE, id, 0)
    BY <1>4
  <2>2. /\ \A u \in Tasks \ {t} : task'[u] = task[u]
        /\ op.kind \in Settled => task'[t].pc = "settle" /\ task'[t].op = op /\ ~task'[t].reply.ok
        /\ op.kind \notin Settled => Free(task'[t])
    BY <1>2, <2>1, ReplyStake
  <2>3. op.kind \in Settled => op.kind \in Deleting
    BY <1>1 DEF Settled, Creating, Deleting
  <2>4. Free(task'[t])
    BY <2>2, <2>3, FreePcs
  <2>5. UNCHANGED accounts /\ vault'.rows = vault.rows /\ \A v \in Vm : Alike(slots[v], slots'[v])
    BY <1>1 DEF stores, Alike
  <2>. QED BY <1>2, <2>2, <2>4, <2>5, FreeBooks
<1>. QED BY <1>3, <1>4 DEF VolumeDelete, AttachVolume, NicAttach

\* A task that does not count does so after a step on id v of kinds K.
Begun(tk, tk2, t, K, v) ==
  /\ \A u \in Tasks \ {t} : tk2[u] = tk[u]
  /\ ~Counts(tk[t]) /\ Counts(tk2[t]) /\ tk2[t].op.kind \in K /\ tk2[t].reply.id = v
  /\ Owed(tk2[t]) \in Amount

\* What the task makes is the price of what is there then, or it takes what was there.
Fair(x, here, price, here2, price2) ==
  IF x.op.kind \in Creating THEN here2 /\ ChargeFor(x.op) = price2
  ELSE ~here2 /\ Owed(x) = (IF here THEN price ELSE NoUsage)

LEMMA StakesBegin ==
  ASSUME NEW tk, NEW tk2, NEW t \in Tasks, NEW K, NEW v, Begun(tk, tk2, t, K, v), StakesOK(tk),
         (K = VmKinds /\ v \in Vm) \/ (K = VolumeKinds /\ v \in VolumeId)
  PROVE  StakesOK(tk2)
<1>1. IF tk2[t].op.kind \in VmKinds THEN tk2[t].reply.id \in Vm ELSE tk2[t].reply.id \in VolumeId
  BY DEF Begun, VmKinds, VolumeKinds
<1>. QED BY <1>1 DEF Begun, StakesOK

LEMMA VmBegins ==
  ASSUME NEW us, NEW ls \in Amount, NEW sl \in [Vm -> Slot], NEW g, NEW tk, NEW vc, NEW dc,
         Books(us, ls, sl, g, tk, vc, dc), VaultOK(g),
         NEW tk2, NEW t \in Tasks, NEW v \in Vm, Begun(tk, tk2, t, VmKinds, v),
         NEW sl2 \in [Vm -> Slot], \A w \in Vm \ {v} : sl2[w] = sl[w],
         sl[v].cost + Owed(tk[t]).vcpus = sl2[v].cost + Owed(tk2[t]).vcpus,
         Owed(tk[t]).storage_bytes = Owed(tk2[t]).storage_bytes,
         Fair(tk2[t], sl[v] # NoVm, VmPrice(sl[v]), sl2[v] # NoVm, VmPrice(sl2[v]))
  PROVE  Books(us, ls, sl2, g, tk2, vc, dc)
<1>1. StakesOK(tk2) /\ StakesOK(tk)
  BY StakesBegin DEF Books
<1>2. Balanced(us, ls, sl2, g, tk2)
  <2>1. /\ CpuOwed(tk2) = CpuOwed(tk) - Owed(tk[t]).vcpus + Owed(tk2[t]).vcpus
        /\ DiskOwed(tk2) = DiskOwed(tk) - Owed(tk[t]).storage_bytes + Owed(tk2[t]).storage_bytes
    BY <1>1, OwedMoves DEF Begun
  <2>2. CpuHeld(sl) \in Nat /\ CpuHeld(sl2) = CpuHeld(sl) - sl[v].cost + sl2[v].cost
    BY CpuHeldMoves
  <2>3. sl[v].cost \in Nat /\ sl2[v].cost \in Nat
    BY FiniteVms
  <2>4. /\ CpuOwed(tk) \in Nat /\ DiskOwed(tk) \in Nat /\ ls.vcpus \in Nat /\ ls.storage_bytes \in Nat
        /\ Owed(tk[t]).vcpus \in Nat /\ Owed(tk[t]).storage_bytes \in Nat
        /\ Owed(tk2[t]).vcpus \in Nat /\ Owed(tk2[t]).storage_bytes \in Nat
    BY <1>1, CpuOwedFacts, DiskOwedFacts DEF Amount
  <2>5. DiskHeld(g) \in Nat
    BY FiniteRows
  <2>. QED BY <2>1, <2>2, <2>3, <2>4, <2>5 DEF Books, Balanced
<1>3. VmNotes(vc, sl2, tk2)
  <2>. SUFFICES ASSUME NEW w \in Vm PROVE NoteOK(vc, w, sl2[w] # NoVm, VmPrice(sl2[w]), tk2, VmKinds)
    BY DEF VmNotes
  <2>1. NoteOK(vc, w, sl[w] # NoVm, VmPrice(sl[w]), tk, VmKinds)
    BY DEF Books, VmNotes
  <2>2. /\ t \notin Settling(tk, VmKinds, w) /\ \A u \in Settling(tk, VmKinds, w) : tk2[u] = tk[u]
        /\ w = v => Settling(tk2, VmKinds, w) = Settling(tk, VmKinds, w) \cup {t}
        /\ w # v => Settling(tk2, VmKinds, w) = Settling(tk, VmKinds, w)
    BY SettlingBegins DEF Begun
  <2>3. CASE w = v
    BY <2>1, <2>2, <2>3, NoteBegins DEF Fair
  <2>4. CASE w # v
    <3>1. sl2[w] = sl[w]
      BY <2>4
    <3>. QED BY <2>1, <2>2, <2>4, <3>1, NoteSame
  <2>. QED BY <2>3, <2>4
<1>4. VolumeNotes(dc, g, tk2)
  <2>. SUFFICES ASSUME NEW w \in VolumeId PROVE NoteOK(dc, w, Known(g, w), VolumePrice(g, w), tk2, VolumeKinds)
    BY DEF VolumeNotes
  <2>1. NoteOK(dc, w, Known(g, w), VolumePrice(g, w), tk, VolumeKinds)
    BY DEF Books, VolumeNotes
  <2>2. tk2[t].op.kind \notin VolumeKinds
    BY DEF Begun, VmKinds, VolumeKinds
  <2>3. /\ Settling(tk2, VolumeKinds, w) = Settling(tk, VolumeKinds, w)
        /\ \A u \in Settling(tk, VolumeKinds, w) : tk2[u] = tk[u]
    BY <2>2, SettlingBegins DEF Begun
  <2>. QED BY <2>1, <2>3, NoteSame
<1>. QED BY <1>1, <1>2, <1>3, <1>4 DEF Books

LEMMA VolumeBegins ==
  ASSUME NEW us, NEW ls \in Amount, NEW sl \in [Vm -> Slot], NEW g, NEW tk, NEW vc, NEW dc,
         Books(us, ls, sl, g, tk, vc, dc), VaultOK(g),
         NEW tk2, NEW t \in Tasks, NEW v \in VolumeId, Begun(tk, tk2, t, VolumeKinds, v),
         NEW g2, VaultOK(g2),
         \A w \in VolumeId \ {v} : (Known(g2, w) <=> Known(g, w)) /\ (Known(g, w) => g2.rows[w] = g.rows[w]),
         DiskHeld(g) + Owed(tk[t]).storage_bytes = DiskHeld(g2) + Owed(tk2[t]).storage_bytes,
         Owed(tk[t]).vcpus = Owed(tk2[t]).vcpus,
         Fair(tk2[t], Known(g, v), VolumePrice(g, v), Known(g2, v), VolumePrice(g2, v))
  PROVE  Books(us, ls, sl, g2, tk2, vc, dc)
<1>1. StakesOK(tk2) /\ StakesOK(tk)
  BY StakesBegin DEF Books
<1>2. Balanced(us, ls, sl, g2, tk2)
  <2>1. /\ CpuOwed(tk2) = CpuOwed(tk) - Owed(tk[t]).vcpus + Owed(tk2[t]).vcpus
        /\ DiskOwed(tk2) = DiskOwed(tk) - Owed(tk[t]).storage_bytes + Owed(tk2[t]).storage_bytes
    BY <1>1, OwedMoves DEF Begun
  <2>2. CpuHeld(sl) \in Nat /\ DiskHeld(g) \in Nat /\ DiskHeld(g2) \in Nat
    BY CpuHeldType, FiniteRows
  <2>4. /\ CpuOwed(tk) \in Nat /\ DiskOwed(tk) \in Nat /\ ls.vcpus \in Nat /\ ls.storage_bytes \in Nat
        /\ Owed(tk[t]).vcpus \in Nat /\ Owed(tk[t]).storage_bytes \in Nat
        /\ Owed(tk2[t]).vcpus \in Nat /\ Owed(tk2[t]).storage_bytes \in Nat
    BY <1>1, CpuOwedFacts, DiskOwedFacts DEF Amount
  <2>5. us.vcpus = CpuHeld(sl) + CpuOwed(tk) + ls.vcpus /\ us.storage_bytes = DiskHeld(g) + DiskOwed(tk) + ls.storage_bytes
    BY DEF Books, Balanced
  <2>6. us.vcpus = CpuHeld(sl) + CpuOwed(tk2) + ls.vcpus
    BY <2>1, <2>2, <2>4, <2>5
  <2>7. us.storage_bytes = DiskHeld(g2) + DiskOwed(tk2) + ls.storage_bytes
    BY <2>1, <2>2, <2>4, <2>5
  <2>. QED BY <2>6, <2>7 DEF Balanced
<1>3. VolumeNotes(dc, g2, tk2)
  <2>. SUFFICES ASSUME NEW w \in VolumeId PROVE NoteOK(dc, w, Known(g2, w), VolumePrice(g2, w), tk2, VolumeKinds)
    BY DEF VolumeNotes
  <2>1. NoteOK(dc, w, Known(g, w), VolumePrice(g, w), tk, VolumeKinds)
    BY DEF Books, VolumeNotes
  <2>2. /\ t \notin Settling(tk, VolumeKinds, w) /\ \A u \in Settling(tk, VolumeKinds, w) : tk2[u] = tk[u]
        /\ w = v => Settling(tk2, VolumeKinds, w) = Settling(tk, VolumeKinds, w) \cup {t}
        /\ w # v => Settling(tk2, VolumeKinds, w) = Settling(tk, VolumeKinds, w)
    BY SettlingBegins DEF Begun
  <2>3. CASE w = v
    BY <2>1, <2>2, <2>3, NoteBegins DEF Fair
  <2>4. CASE w # v
    <3>1. (Known(g2, w) <=> Known(g, w)) /\ (Known(g, w) => VolumePrice(g2, w) = VolumePrice(g, w))
      BY <2>4 DEF VolumePrice
    <3>. QED BY <2>1, <2>2, <2>4, <3>1, NoteSame
  <2>. QED BY <2>3, <2>4
<1>4. VmNotes(vc, sl, tk2)
  <2>. SUFFICES ASSUME NEW w \in Vm PROVE NoteOK(vc, w, sl[w] # NoVm, VmPrice(sl[w]), tk2, VmKinds)
    BY DEF VmNotes
  <2>1. NoteOK(vc, w, sl[w] # NoVm, VmPrice(sl[w]), tk, VmKinds)
    BY DEF Books, VmNotes
  <2>2. tk2[t].op.kind \notin VmKinds
    BY DEF Begun, VmKinds, VolumeKinds
  <2>3. /\ Settling(tk2, VmKinds, w) = Settling(tk, VmKinds, w)
        /\ \A u \in Settling(tk, VmKinds, w) : tk2[u] = tk[u]
    BY <2>2, SettlingBegins DEF Begun
  <2>. QED BY <2>1, <2>3, NoteSame
<1>. QED BY <1>1, <1>2, <1>3, <1>4 DEF Books

LEMMA DeleteBooks ==
  ASSUME HostInv, BooksInv, NEW t \in Tasks, NEW op, OpOK(op), Delete(t, op)
  PROVE  BooksInv'
<1>1. /\ TasksOK(task) /\ slots \in [Vm -> Slot] /\ op.vm \in Vm /\ op.kind = "delete" /\ task[t].pc = "idle"
      /\ UNCHANGED <<vault, usage, vm_charges, volume_charges, raced, lost>> /\ UNCHANGED accounts
  BY DEF HostInv, SlotsOK, Delete, Begins, OpOK, accounts
<1>2. Free(task[t]) /\ op.kind \in Settled /\ op.kind \in Deleting /\ op.kind \notin Creating
  BY <1>1, FreePcs DEF Settled, Deleting, Creating
<1>3. CASE slots' = slots /\ Reply(t, op, FALSE, op.vm, 0)
  <2>1. /\ \A u \in Tasks \ {t} : task'[u] = task[u]
        /\ task'[t].pc = "settle" /\ task'[t].op = op /\ ~task'[t].reply.ok
    BY <1>1, <1>2, <1>3, ReplyStake
  <2>2. Free(task'[t])
    BY <1>2, <2>1, FreePcs
  <2>. QED BY <1>1, <1>2, <1>3, <2>1, <2>2, FreeBooks DEF Alike
<1>4. CASE /\ slots[op.vm].state \in Terminal /\ slots' = [slots EXCEPT ![op.vm] = NoVm]
           /\ Reply(t, op, TRUE, op.vm, slots[op.vm].cost)
  <2>0. PICK v, c : v = op.vm /\ c = slots[v].cost /\ v \in Vm
    BY <1>1
  <2>0a. Reply(t, op, TRUE, v, c)
    BY <1>4, <2>0
  <2>1. /\ \A u \in Tasks \ {t} : task'[u] = task[u]
        /\ task'[t].pc = "settle" /\ task'[t].op = op /\ task'[t].reply.ok /\ task'[t].reply.id = v
        /\ task'[t].cost = c
    BY <1>1, <1>2, <2>0a, ReplyFields
  <2>2. Owed(task'[t]) = [NoUsage EXCEPT !.vcpus = c] /\ Counts(task'[t])
    BY <1>1, <2>1, FreePcs
  <2>3. c \in Nat /\ NoVm \in Slot /\ NoVm.cost = 0
    BY <1>1, <2>0, FiniteVms DEF NoVm, Slot
  <2>4. slots[v] # NoVm
    BY <1>4, <2>0 DEF Terminal, NoVm
  <2>5. slots' \in [Vm -> Slot] /\ slots'[v] = NoVm /\ \A w \in Vm \ {v} : slots'[w] = slots[w]
    BY <1>1, <1>4, <2>0, <2>3
  <2>6. Owed(task'[t]) = VmPrice(slots[v])
    BY <2>0, <2>2 DEF VmPrice
  <2>7. Owed(task'[t]) \in Amount /\ Owed(task'[t]).vcpus = c /\ Owed(task'[t]).storage_bytes = 0
    BY <2>2, <2>3 DEF NoUsage, Amount
  <2>8. Owed(task[t]).vcpus = 0 /\ Owed(task[t]).storage_bytes = 0 /\ ~Counts(task[t])
    BY <1>2 DEF Free, NoUsage
  <2>9. Begun(task, task', t, VmKinds, v)
    BY <1>1, <2>1, <2>2, <2>7, <2>8 DEF Begun, VmKinds
  <2>10. slots[v].cost + Owed(task[t]).vcpus = slots'[v].cost + Owed(task'[t]).vcpus
    BY <2>0, <2>3, <2>5, <2>7, <2>8
  <2>11. Fair(task'[t], slots[v] # NoVm, VmPrice(slots[v]), slots'[v] # NoVm, VmPrice(slots'[v]))
    BY <1>2, <2>1, <2>4, <2>5, <2>6 DEF Fair
  <2>12. CASE ~raced
    <3>1. Books(usage, lost, slots, vault, task, vm_charges, volume_charges) /\ lost \in Amount /\ VaultOK(vault)
      BY <2>12 DEF BooksInv, HostInv
    <3>2. Books(usage, lost, slots', vault, task', vm_charges, volume_charges)
      BY <1>1, <2>0, <2>5, <2>7, <2>8, <2>9, <2>10, <2>11, <3>1, VmBegins
    <3>. QED BY <1>1, <3>1, <3>2 DEF BooksInv
  <2>13. CASE raced
    BY <1>1, <2>13 DEF BooksInv
  <2>. QED BY <2>12, <2>13
<1>. QED BY <1>3, <1>4 DEF Delete

LEMMA CreateBooks ==
  ASSUME HostInv, BooksInv, NEW t \in Tasks, Create(t)
  PROVE  BooksInv'
<1>0. PICK op, v, x : /\ op = task[t].op /\ v = Min(FreeSlots)
                      /\ x = [NoVm EXCEPT !.state = "created", !.cost = op.cost]
  OBVIOUS
<1>1. /\ op.kind = "create" /\ task[t].pc = "host" /\ TasksOK(task) /\ slots \in [Vm -> Slot]
      /\ OpOK(op) /\ op.cost \in VmCost \cup {0}
      /\ UNCHANGED <<vault, usage, vm_charges, volume_charges, raced, lost>>
  BY <1>0 DEF Create, HostInv, SlotsOK, TasksOK, TaskOK, OpOK, accounts
<1>2. /\ op.kind \in Settled /\ op.kind \in Creating /\ ChargeFor(op) = [NoUsage EXCEPT !.vcpus = op.cost]
      /\ ChargeFor(op) \in Amount
  BY <1>1, ChargeType DEF Settled, Creating, ChargeFor
<1>3. Owed(task[t]) = ChargeFor(op) /\ ~Counts(task[t])
  BY <1>0, <1>1, FreePcs
<1>4. \/ slots' = slots /\ Reply(t, op, FALSE, 0, 0)
      \/ FreeSlots # {} /\ slots' = [slots EXCEPT ![v] = x] /\ Reply(t, op, TRUE, v, 0)
  BY <1>0 DEF Create
<1>5. CASE slots' = slots /\ Reply(t, op, FALSE, 0, 0)
  <2>1. /\ \A u \in Tasks \ {t} : task'[u] = task[u]
        /\ task'[t].pc = "settle" /\ task'[t].op = op /\ ~task'[t].reply.ok
    BY <1>1, <1>2, <1>5, ReplyStake
  <2>2. Owed(task'[t]) = Owed(task[t]) /\ ~Counts(task'[t])
    BY <1>3, <2>1, FreePcs
  <2>3. \A w \in Vm : Alike(slots[w], slots'[w])
    BY <1>5 DEF Alike
  <2>. QED BY <1>1, <1>3, <2>1, <2>2, <2>3, QuietBooks
<1>6. CASE FreeSlots # {} /\ slots' = [slots EXCEPT ![v] = x] /\ Reply(t, op, TRUE, v, 0)
  <2>1. /\ \A u \in Tasks \ {t} : task'[u] = task[u]
        /\ task'[t].pc = "settle" /\ task'[t].op = op /\ task'[t].reply.ok /\ task'[t].reply.id = v
    BY <1>1, <1>2, <1>6, ReplyFields
  <2>2. v \in Vm /\ slots[v] = NoVm
    <3>1. FreeSlots \subseteq Nat
      BY HostAssumption DEF FreeSlots, Vm
    <3>2. v \in FreeSlots
      BY <1>0, <1>6, <3>1, MinOf
    <3>. QED BY <3>2 DEF FreeSlots
  <2>3. x \in Slot /\ x.cost = op.cost /\ x.state = "created"
    BY <1>0, <1>1 DEF Slot, NoVm
  <2>4. x # NoVm /\ NoVm.cost = 0
    BY <2>3 DEF NoVm
  <2>5. slots' \in [Vm -> Slot] /\ slots'[v] = x /\ \A w \in Vm \ {v} : slots'[w] = slots[w]
    BY <1>1, <1>6, <2>2, <2>3
  <2>6. Owed(task'[t]) = NoUsage /\ Counts(task'[t])
    BY <1>2, <2>1, FreePcs
  <2>7. NoUsage \in Amount /\ NoUsage.vcpus = 0 /\ NoUsage.storage_bytes = 0
    BY DEF NoUsage, Amount
  <2>8. Begun(task, task', t, VmKinds, v)
    BY <1>1, <1>3, <2>1, <2>6, <2>7 DEF Begun, VmKinds
  <2>9. ChargeFor(op).vcpus = op.cost /\ ChargeFor(op).storage_bytes = 0 /\ op.cost \in Nat
    BY <1>2 DEF NoUsage, Amount
  <2>10. slots[v].cost + Owed(task[t]).vcpus = slots'[v].cost + Owed(task'[t]).vcpus
    BY <1>3, <2>2, <2>3, <2>4, <2>5, <2>6, <2>7, <2>9
  <2>11. Owed(task[t]).storage_bytes = Owed(task'[t]).storage_bytes
    BY <1>3, <2>6, <2>7, <2>9
  <2>12. ChargeFor(op) = VmPrice(slots'[v])
    BY <1>2, <2>3, <2>5 DEF VmPrice
  <2>13. Fair(task'[t], slots[v] # NoVm, VmPrice(slots[v]), slots'[v] # NoVm, VmPrice(slots'[v]))
    BY <1>2, <2>1, <2>4, <2>5, <2>12 DEF Fair
  <2>14. CASE ~raced
    <3>1. Books(usage, lost, slots, vault, task, vm_charges, volume_charges) /\ lost \in Amount /\ VaultOK(vault)
      BY <2>14 DEF BooksInv, HostInv
    <3>2. Books(usage, lost, slots', vault, task', vm_charges, volume_charges)
      BY <1>1, <2>2, <2>5, <2>8, <2>10, <2>11, <2>13, <3>1, VmBegins
    <3>. QED BY <1>1, <3>1, <3>2 DEF BooksInv
  <2>15. CASE raced
    BY <1>1, <2>15 DEF BooksInv
  <2>. QED BY <2>14, <2>15
<1>. QED BY <1>4, <1>5, <1>6

LEMMA VolumeCreateBooks ==
  ASSUME HostInv, BooksInv, NEW t \in Tasks, VolumeCreate(t)
  PROVE  BooksInv'
<1>0. PICK op, v : op = task[t].op /\ v = NextVolumeId(vault)
  OBVIOUS
<1>1. /\ op.kind = "create_volume" /\ task[t].pc = "host" /\ TasksOK(task) /\ slots \in [Vm -> Slot]
      /\ OpOK(op) /\ op.size \in Nat /\ VaultOK(vault)
      /\ UNCHANGED <<slots, usage, vm_charges, volume_charges, raced, lost>>
  BY <1>0 DEF VolumeCreate, HostInv, SlotsOK, TasksOK, TaskOK, OpOK, accounts
<1>2. /\ op.kind \in Settled /\ op.kind \in Creating /\ ChargeFor(op) = [NoUsage EXCEPT !.storage_bytes = op.size]
      /\ ChargeFor(op) \in Amount
  BY <1>1, ChargeType DEF Settled, Creating, ChargeFor
<1>3. Owed(task[t]) = ChargeFor(op) /\ ~Counts(task[t])
  BY <1>0, <1>1, FreePcs
<1>4. \/ vault' = vault /\ Reply(t, op, FALSE, 0, 0)
      \/ vault' = CreateVolume(vault, op.size) /\ Reply(t, op, TRUE, v, 0)
  BY <1>0 DEF VolumeCreate
<1>5. CASE vault' = vault /\ Reply(t, op, FALSE, 0, 0)
  <2>1. /\ \A u \in Tasks \ {t} : task'[u] = task[u]
        /\ task'[t].pc = "settle" /\ task'[t].op = op /\ ~task'[t].reply.ok
    BY <1>1, <1>2, <1>5, ReplyStake
  <2>2. Owed(task'[t]) = Owed(task[t]) /\ ~Counts(task'[t])
    BY <1>3, <2>1, FreePcs
  <2>3. (\A w \in Vm : Alike(slots[w], slots'[w])) /\ vault'.rows = vault.rows
    BY <1>1, <1>5 DEF Alike
  <2>. QED BY <1>1, <1>3, <2>1, <2>2, <2>3, QuietBooks
<1>6. CASE vault' = CreateVolume(vault, op.size) /\ Reply(t, op, TRUE, v, 0)
  <2>1. /\ \A u \in Tasks \ {t} : task'[u] = task[u]
        /\ task'[t].pc = "settle" /\ task'[t].op = op /\ task'[t].reply.ok /\ task'[t].reply.id = v
    BY <1>1, <1>2, <1>6, ReplyFields
  <2>2. VaultOK(vault')
    BY VolumeCreateOK DEF HostInv
  <2>3. v = vault.next + 1 /\ vault.next \in Nat /\ v \notin DOMAIN vault.rows
    BY <1>0, <1>1 DEF NextVolumeId, VaultOK, IsVolumeStore
  <2>4. vault'.next = v /\ vault'.rows = [y \in DOMAIN vault.rows \cup {v} |-> IF y = v THEN op.size ELSE vault.rows[y]]
    BY <1>0, <1>1, <1>6, <2>3 DEF CreateVolume, NextVolumeId, VaultOK, IsVolumeStore
  <2>5. v \in VolumeId
    BY <2>2, <2>3, <2>4 DEF VaultOK, IsVolumeStore, VolumeId
  <2>6. /\ DOMAIN vault'.rows = DOMAIN vault.rows \cup {v} /\ vault'.rows[v] = op.size
        /\ \A w \in DOMAIN vault.rows : vault'.rows[w] = vault.rows[w]
    BY <2>3, <2>4
  <2>7. DiskHeld(vault') = DiskHeld(vault) + op.size /\ DiskHeld(vault) \in Nat
    BY <1>1, <2>2, <2>3, <2>6, DiskHeldMoves, FiniteRows
  <2>8. Owed(task'[t]) = NoUsage /\ Counts(task'[t])
    BY <1>2, <2>1, FreePcs
  <2>9. NoUsage \in Amount /\ NoUsage.vcpus = 0 /\ NoUsage.storage_bytes = 0
    BY DEF NoUsage, Amount
  <2>10. Begun(task, task', t, VolumeKinds, v)
    BY <1>1, <1>3, <2>1, <2>8, <2>9 DEF Begun, VolumeKinds
  <2>11. ChargeFor(op).storage_bytes = op.size /\ ChargeFor(op).vcpus = 0
    BY <1>2 DEF NoUsage
  <2>12. DiskHeld(vault) + Owed(task[t]).storage_bytes = DiskHeld(vault') + Owed(task'[t]).storage_bytes
    BY <1>1, <1>3, <2>7, <2>8, <2>9, <2>11
  <2>13. Owed(task[t]).vcpus = Owed(task'[t]).vcpus
    BY <1>3, <2>8, <2>9, <2>11
  <2>14. ChargeFor(op) = VolumePrice(vault', v) /\ Known(vault', v)
    BY <1>2, <2>6 DEF VolumePrice, Known
  <2>15. Fair(task'[t], Known(vault, v), VolumePrice(vault, v), Known(vault', v), VolumePrice(vault', v))
    BY <1>2, <2>1, <2>14 DEF Fair
  <2>16. \A w \in VolumeId \ {v} : /\ Known(vault', w) <=> Known(vault, w)
                                   /\ Known(vault, w) => vault'.rows[w] = vault.rows[w]
    BY <2>6 DEF Known
  <2>17. CASE ~raced
    <3>1. Books(usage, lost, slots, vault, task, vm_charges, volume_charges) /\ lost \in Amount
      BY <2>17 DEF BooksInv
    <3>2. Books(usage, lost, slots, vault', task', vm_charges, volume_charges)
      BY <1>1, <2>2, <2>5, <2>10, <2>12, <2>13, <2>15, <2>16, <3>1, VolumeBegins
    <3>. QED BY <1>1, <3>1, <3>2 DEF BooksInv
  <2>18. CASE raced
    BY <1>1, <2>18 DEF BooksInv
  <2>. QED BY <2>17, <2>18
<1>. QED BY <1>4, <1>5, <1>6

LEMMA VolumeDelete2Books ==
  ASSUME HostInv, BooksInv, NEW t \in Tasks, VolumeDelete2(t)
  PROVE  BooksInv'
<1>0. PICK op, v, c : /\ op = task[t].op /\ v = op.volume
                      /\ c = IF Known(vault, v) THEN vault.rows[v] ELSE 0
  OBVIOUS
<1>1. /\ op.kind = "delete_volume" /\ task[t].pc = "delete_volume" /\ TasksOK(task) /\ slots \in [Vm -> Slot]
      /\ v \in VolumeId /\ VaultOK(vault)
      /\ UNCHANGED <<slots, usage, vm_charges, volume_charges, raced, lost>>
  BY <1>0 DEF VolumeDelete2, HostInv, SlotsOK, TasksOK, TaskOK, OpOK, accounts
<1>2. op.kind \in Settled /\ op.kind \notin Creating
  BY <1>1 DEF Settled, Deleting, Creating
<1>3. Free(task[t])
  BY <1>1, FreePcs
<1>4. vault' = DeleteVolume(vault, v) /\ Reply(t, op, TRUE, v, c)
  BY <1>0 DEF VolumeDelete2
<1>5. /\ \A u \in Tasks \ {t} : task'[u] = task[u]
      /\ task'[t].pc = "settle" /\ task'[t].op = op /\ task'[t].reply.ok /\ task'[t].reply.id = v
      /\ task'[t].cost = c
  BY <1>1, <1>2, <1>4, ReplyFields
<1>6. VaultOK(vault')
  BY VolumeDelete2OK DEF HostInv
<1>7. vault'.rows = Restrict(vault.rows, DOMAIN vault.rows \ {v})
  BY <1>1, <1>4 DEF DeleteVolume, VaultOK, IsVolumeStore
<1>8. /\ DOMAIN vault'.rows = DOMAIN vault.rows \ {v}
      /\ \A w \in DOMAIN vault'.rows : vault'.rows[w] = vault.rows[w]
  BY <1>7 DEF Restrict
<1>9. DiskHeld(vault) \in Nat /\ DiskHeld(vault') \in Nat /\ c \in Nat
  BY <1>0, <1>1, <1>6, FiniteRows DEF Known
<1>10. DiskHeld(vault) = DiskHeld(vault') + c
  <2>1. CASE Known(vault, v)
    <3>1. c = vault.rows[v] /\ v \notin DOMAIN vault'.rows /\ DOMAIN vault.rows = DOMAIN vault'.rows \cup {v}
      BY <1>0, <1>8, <2>1 DEF Known
    <3>2. \A w \in DOMAIN vault'.rows : vault.rows[w] = vault'.rows[w]
      BY <1>8
    <3>. QED BY <1>1, <1>6, <3>1, <3>2, DiskHeldMoves
  <2>2. CASE ~Known(vault, v)
    <3>1. c = 0 /\ DOMAIN vault'.rows = DOMAIN vault.rows
      BY <1>0, <1>8, <2>2 DEF Known
    <3>2. SumFunctionOnSet(vault'.rows, DOMAIN vault.rows) = SumFunctionOnSet(vault.rows, DOMAIN vault.rows)
      BY <1>1, <1>8, <3>1, FiniteRows, SumSame
    <3>. QED BY <1>9, <3>1, <3>2 DEF DiskHeld
  <2>. QED BY <2>1, <2>2
<1>11. Owed(task'[t]) = [NoUsage EXCEPT !.storage_bytes = c] /\ Counts(task'[t])
  BY <1>1, <1>5, FreePcs
<1>12. Owed(task'[t]) \in Amount /\ Owed(task'[t]).storage_bytes = c /\ Owed(task'[t]).vcpus = 0
  BY <1>9, <1>11 DEF NoUsage, Amount
<1>13. Owed(task[t]).vcpus = 0 /\ Owed(task[t]).storage_bytes = 0 /\ ~Counts(task[t])
  BY <1>3 DEF Free, NoUsage
<1>14. Begun(task, task', t, VolumeKinds, v)
  BY <1>1, <1>5, <1>11, <1>12, <1>13 DEF Begun, VolumeKinds
<1>15. DiskHeld(vault) + Owed(task[t]).storage_bytes = DiskHeld(vault') + Owed(task'[t]).storage_bytes
  BY <1>9, <1>10, <1>12, <1>13
<1>16. Owed(task'[t]) = (IF Known(vault, v) THEN VolumePrice(vault, v) ELSE NoUsage) /\ ~Known(vault', v)
  <2>1. ~Known(vault', v)
    BY <1>8 DEF Known
  <2>2. CASE Known(vault, v)
    BY <1>0, <1>11, <2>1, <2>2 DEF VolumePrice
  <2>3. CASE ~Known(vault, v)
    BY <1>0, <1>11, <2>1, <2>3 DEF NoUsage
  <2>. QED BY <2>2, <2>3
<1>17. Fair(task'[t], Known(vault, v), VolumePrice(vault, v), Known(vault', v), VolumePrice(vault', v))
  BY <1>2, <1>5, <1>16 DEF Fair
<1>18. \A w \in VolumeId \ {v} : /\ Known(vault', w) <=> Known(vault, w)
                                 /\ Known(vault, w) => vault'.rows[w] = vault.rows[w]
  BY <1>8 DEF Known
<1>19. CASE ~raced
  <2>1. Books(usage, lost, slots, vault, task, vm_charges, volume_charges) /\ lost \in Amount
    BY <1>19 DEF BooksInv
  <2>2. Books(usage, lost, slots, vault', task', vm_charges, volume_charges)
    BY <1>1, <1>6, <1>12, <1>13, <1>14, <1>15, <1>17, <1>18, <2>1, VolumeBegins
  <2>. QED BY <1>1, <2>1, <2>2 DEF BooksInv
<1>20. CASE raced
  BY <1>1, <1>20 DEF BooksInv
<1>. QED BY <1>19, <1>20

LEMMA SecondBooks ==
  ASSUME HostInv, BooksInv, NEW t \in Tasks, AttachVolume2(t) \/ NicAttach2(t)
  PROVE  BooksInv'
<1>1. /\ task[t].pc \in {"attach_volume", "attach_nic"} /\ TasksOK(task) /\ slots \in [Vm -> Slot]
      /\ UNCHANGED accounts /\ vault' = vault
  BY DEF AttachVolume2, NicAttach2, HostInv, SlotsOK
<1>2. Free(task[t])
  BY <1>1, FreePcs
<1>3. CASE AttachVolume2(t)
  <2>0. PICK op : op = task[t].op
    OBVIOUS
  <2>1. op.kind = "attach_volume" /\ op.vm \in Vm
    BY <1>3, <2>0 DEF AttachVolume2, HostInv, TasksOK, TaskOK, OpOK
  <2>2. op.kind \notin Settled
    BY <2>1 DEF Settled, Creating, Deleting
  <2>3. /\ \E ok, id, cost : Reply(t, op, ok, id, cost)
        /\ slots' = slots \/ (slots[op.vm] # NoVm /\ slots' = [slots EXCEPT ![op.vm].volumes = @ \cup {op.volume}])
    BY <1>3, <2>0 DEF AttachVolume2
  <2>4. \A v \in Vm : Alike(slots[v], slots'[v])
    BY <1>3, AttachAlike
  <2>. QED BY <1>1, <1>2, <2>2, <2>3, <2>4, ReplyBooks
<1>4. CASE NicAttach2(t)
  <2>1. slots' = slots /\ \E op, reply : Answer(t, op, reply)
    BY <1>4 DEF NicAttach2
  <2>2. Free(task'[t]) /\ \A u \in Tasks \ {t} : task'[u] = task[u]
    BY <1>1, <2>1, AnswerStake
  <2>3. \A v \in Vm : Alike(slots[v], slots'[v])
    BY <2>1 DEF Alike
  <2>. QED BY <1>1, <1>2, <2>2, <2>3, FreeBooks
<1>. QED BY <1>3, <1>4

---------------------------------------------------------------------------
(* Settling. *)

\* A refund of what was charged is exact.
LEMMA MinusExact ==
  ASSUME NEW u, u.vcpus \in Nat, u.storage_bytes \in Nat, NEW c \in Amount,
         c.vcpus <= u.vcpus, c.storage_bytes <= u.storage_bytes
  PROVE  /\ Minus(u, c).vcpus = u.vcpus - c.vcpus
         /\ Minus(u, c).storage_bytes = u.storage_bytes - c.storage_bytes
<1>. DEFINE a == u.vcpus - c.vcpus
            b == u.storage_bytes - c.storage_bytes
<1>1. c.vcpus \in Nat /\ c.storage_bytes \in Nat
  BY DEF Amount
<1>2. a \in Int /\ b \in Int /\ a >= 0 /\ b >= 0
  BY <1>1
<1>3. Minus(u, c) = [vcpus |-> Max({a, 0}), storage_bytes |-> Max({b, 0})]
  BY DEF Minus
<1>. HIDE DEF a, b
<1>4. Max({a, 0}) = a /\ Max({b, 0}) = b
  BY <1>2, MaxZero
<1>5. Minus(u, c).vcpus = a /\ Minus(u, c).storage_bytes = b
  BY <1>3, <1>4
<1>. QED BY <1>5 DEF a, b

\* A task gives back what it owes, and what it owes is there.
LEMMA Refunds ==
  ASSUME NEW us, NEW ls \in Amount, NEW sl \in [Vm -> Slot], NEW g, VaultOK(g), NEW tk, NEW tk2, NEW t \in Tasks,
         StakesOK(tk), Balanced(us, ls, sl, g, tk), Free(tk2[t]), \A u \in Tasks \ {t} : tk2[u] = tk[u]
  PROVE  /\ StakesOK(tk2)
         /\ us.vcpus \in Nat /\ us.storage_bytes \in Nat
         /\ Owed(tk[t]).vcpus <= us.vcpus /\ Owed(tk[t]).storage_bytes <= us.storage_bytes
         /\ \A us2 : /\ us2.vcpus = us.vcpus - Owed(tk[t]).vcpus
                     /\ us2.storage_bytes = us.storage_bytes - Owed(tk[t]).storage_bytes
                     => Balanced(us2, ls, sl, g, tk2)
<1>1. NoUsage \in Amount /\ NoUsage.vcpus = 0 /\ NoUsage.storage_bytes = 0
  BY DEF NoUsage, Amount
<1>2. StakesOK(tk2)
  BY <1>1 DEF StakesOK, Free
<1>3. /\ CpuOwed(tk2) = CpuOwed(tk) - Owed(tk[t]).vcpus + Owed(tk2[t]).vcpus
      /\ DiskOwed(tk2) = DiskOwed(tk) - Owed(tk[t]).storage_bytes + Owed(tk2[t]).storage_bytes
  BY <1>2, OwedMoves
<1>4. Owed(tk2[t]).vcpus = 0 /\ Owed(tk2[t]).storage_bytes = 0
  BY <1>1 DEF Free
<1>5. CpuOwed(tk) \in Nat /\ Owed(tk[t]).vcpus \in Nat /\ Owed(tk[t]).vcpus <= CpuOwed(tk)
  BY CpuOwedFacts
<1>6. DiskOwed(tk) \in Nat /\ Owed(tk[t]).storage_bytes \in Nat /\ Owed(tk[t]).storage_bytes <= DiskOwed(tk)
  BY DiskOwedFacts
<1>7. CpuHeld(sl) \in Nat /\ DiskHeld(g) \in Nat /\ ls.vcpus \in Nat /\ ls.storage_bytes \in Nat
  BY CpuHeldType, FiniteRows DEF Amount
<1>8. us.vcpus = CpuHeld(sl) + CpuOwed(tk) + ls.vcpus /\ us.storage_bytes = DiskHeld(g) + DiskOwed(tk) + ls.storage_bytes
  BY DEF Balanced
<1>9. us.vcpus \in Nat /\ Owed(tk[t]).vcpus <= us.vcpus
  BY <1>5, <1>7, <1>8
<1>10. us.storage_bytes \in Nat /\ Owed(tk[t]).storage_bytes <= us.storage_bytes
  BY <1>6, <1>7, <1>8
<1>11. ASSUME NEW us2, us2.vcpus = us.vcpus - Owed(tk[t]).vcpus,
              us2.storage_bytes = us.storage_bytes - Owed(tk[t]).storage_bytes
       PROVE  Balanced(us2, ls, sl, g, tk2)
  <2>1. us2.vcpus = CpuHeld(sl) + CpuOwed(tk2) + ls.vcpus
    BY <1>3, <1>4, <1>5, <1>7, <1>8, <1>11
  <2>2. us2.storage_bytes = DiskHeld(g) + DiskOwed(tk2) + ls.storage_bytes
    BY <1>3, <1>4, <1>6, <1>7, <1>8, <1>11
  <2>. QED BY <2>1, <2>2 DEF Balanced
<1>. QED BY <1>2, <1>9, <1>10, <1>11

\* The charges ch become ch2, which differ in id only.
Noted(ch, ch2, id, x) ==
  /\ \A w : w # id => (w \in DOMAIN ch2 <=> w \in DOMAIN ch) /\ (w \in DOMAIN ch => ch2[w] = ch[w])
  /\ IF x.op.kind \in Creating THEN id \in DOMAIN ch2 /\ ch2[id] = ChargeFor(x.op) ELSE id \notin DOMAIN ch2

\* The task alone settles for id.
Ended(tk, tk2, t, K, id) ==
  /\ \A u \in Tasks \ {t} : tk2[u] = tk[u]
  /\ ~Counts(tk2[t]) /\ Settling(tk, K, id) = {t}

\* The tasks about to settle for w are the same, and as they were.
Kept(tk, tk2, K, w) == Settling(tk2, K, w) = Settling(tk, K, w) /\ \A u \in Settling(tk, K, w) : tk2[u] = tk[u]

LEMMA OtherNotes ==
  ASSUME NEW tk, NEW tk2, NEW t \in Tasks, NEW K, NEW id, Ended(tk, tk2, t, K, id)
  PROVE  /\ Settling(tk2, K, id) = {}
         /\ \A w : w # id => Kept(tk, tk2, K, w)
         /\ \A J : J \cap K = {} => \A w : Kept(tk, tk2, J, w)
<1>0. (\A u \in Tasks \ {t} : tk2[u] = tk[u]) /\ ~Counts(tk2[t]) /\ Settling(tk, K, id) = {t}
  BY DEF Ended
<1>1. t \in Settling(tk, K, id)
  BY <1>0
<1>2. tk[t].op.kind \in K /\ tk[t].reply.id = id
  BY <1>1 DEF Settling
<1>3. ASSUME NEW J, NEW w PROVE Settling(tk2, J, w) = Settling(tk, J, w) \ {t}
  BY <1>0, SettlingEnds
<1>4. Settling(tk2, K, id) = {}
  BY <1>0, <1>3
<1>5. ASSUME NEW J, NEW w, t \notin Settling(tk, J, w) PROVE Kept(tk, tk2, J, w)
  <2>1. Settling(tk, J, w) \subseteq Tasks
    BY DEF Settling
  <2>2. Settling(tk2, J, w) = Settling(tk, J, w)
    BY <1>3, <1>5
  <2>. QED BY <1>0, <1>5, <2>1, <2>2 DEF Kept
<1>6. ASSUME NEW w, w # id PROVE Kept(tk, tk2, K, w)
  <2>1. t \notin Settling(tk, K, w)
    BY <1>2, <1>6 DEF Settling
  <2>. QED BY <1>5, <2>1
<1>7. ASSUME NEW J, J \cap K = {}, NEW w PROVE Kept(tk, tk2, J, w)
  <2>1. t \notin Settling(tk, J, w)
    BY <1>2, <1>7 DEF Settling
  <2>. QED BY <1>5, <2>1
<1>. QED BY <1>4, <1>6, <1>7

LEMMA VmSettles ==
  ASSUME NEW sl, NEW g, NEW tk, NEW vc, NEW dc, VmNotes(vc, sl, tk), VolumeNotes(dc, g, tk),
         NEW tk2, NEW t \in Tasks, NEW id, Ended(tk, tk2, t, VmKinds, id), NEW vc2, Noted(vc, vc2, id, tk[t])
  PROVE  VmNotes(vc2, sl, tk2) /\ VolumeNotes(dc, g, tk2)
<1>1. Settling(tk2, VmKinds, id) = {} /\ \A w : w # id => Kept(tk, tk2, VmKinds, w)
  BY OtherNotes
<1>2. \A w : Kept(tk, tk2, VolumeKinds, w)
  <2>1. VolumeKinds \cap VmKinds = {}
    BY DEF VolumeKinds, VmKinds
  <2>. QED BY <2>1, OtherNotes
<1>3. ASSUME NEW w \in Vm PROVE NoteOK(vc2, w, sl[w] # NoVm, VmPrice(sl[w]), tk2, VmKinds)
  <2>1. NoteOK(vc, w, sl[w] # NoVm, VmPrice(sl[w]), tk, VmKinds)
    BY DEF VmNotes
  <2>2. CASE w = id
    <3>1. Settling(tk, VmKinds, w) = {t} /\ Settling(tk2, VmKinds, w) = {}
      BY <1>1, <2>2 DEF Ended
    <3>2. IF tk[t].op.kind \in Creating THEN w \in DOMAIN vc2 /\ vc2[w] = ChargeFor(tk[t].op) ELSE w \notin DOMAIN vc2
      BY <2>2 DEF Noted
    <3>. QED BY <2>1, <3>1, <3>2, NoteEnds
  <2>3. CASE w # id
    <3>1. (w \in DOMAIN vc2 <=> w \in DOMAIN vc) /\ (w \in DOMAIN vc => vc2[w] = vc[w])
      BY <2>3 DEF Noted
    <3>. QED BY <1>1, <2>1, <2>3, <3>1, NoteSame DEF Kept
  <2>. QED BY <2>2, <2>3
<1>4. ASSUME NEW w \in VolumeId PROVE NoteOK(dc, w, Known(g, w), VolumePrice(g, w), tk2, VolumeKinds)
  <2>1. NoteOK(dc, w, Known(g, w), VolumePrice(g, w), tk, VolumeKinds)
    BY DEF VolumeNotes
  <2>. QED BY <1>2, <2>1, NoteSame DEF Kept
<1>. QED BY <1>3, <1>4 DEF VmNotes, VolumeNotes

LEMMA VolumeSettles ==
  ASSUME NEW sl, NEW g, NEW tk, NEW vc, NEW dc, VmNotes(vc, sl, tk), VolumeNotes(dc, g, tk),
         NEW tk2, NEW t \in Tasks, NEW id, Ended(tk, tk2, t, VolumeKinds, id), NEW dc2, Noted(dc, dc2, id, tk[t])
  PROVE  VmNotes(vc, sl, tk2) /\ VolumeNotes(dc2, g, tk2)
<1>1. Settling(tk2, VolumeKinds, id) = {} /\ \A w : w # id => Kept(tk, tk2, VolumeKinds, w)
  BY OtherNotes
<1>2. \A w : Kept(tk, tk2, VmKinds, w)
  <2>1. VmKinds \cap VolumeKinds = {}
    BY DEF VolumeKinds, VmKinds
  <2>. QED BY <2>1, OtherNotes
<1>3. ASSUME NEW w \in VolumeId PROVE NoteOK(dc2, w, Known(g, w), VolumePrice(g, w), tk2, VolumeKinds)
  <2>1. NoteOK(dc, w, Known(g, w), VolumePrice(g, w), tk, VolumeKinds)
    BY DEF VolumeNotes
  <2>2. CASE w = id
    <3>1. Settling(tk, VolumeKinds, w) = {t} /\ Settling(tk2, VolumeKinds, w) = {}
      BY <1>1, <2>2 DEF Ended
    <3>2. IF tk[t].op.kind \in Creating THEN w \in DOMAIN dc2 /\ dc2[w] = ChargeFor(tk[t].op) ELSE w \notin DOMAIN dc2
      BY <2>2 DEF Noted
    <3>. QED BY <2>1, <3>1, <3>2, NoteEnds
  <2>3. CASE w # id
    <3>1. (w \in DOMAIN dc2 <=> w \in DOMAIN dc) /\ (w \in DOMAIN dc => dc2[w] = dc[w])
      BY <2>3 DEF Noted
    <3>. QED BY <1>1, <2>1, <2>3, <3>1, NoteSame DEF Kept
  <2>. QED BY <2>2, <2>3
<1>4. ASSUME NEW w \in Vm PROVE NoteOK(vc, w, sl[w] # NoVm, VmPrice(sl[w]), tk2, VmKinds)
  <2>1. NoteOK(vc, w, sl[w] # NoVm, VmPrice(sl[w]), tk, VmKinds)
    BY DEF VmNotes
  <2>. QED BY <1>2, <2>1, NoteSame DEF Kept
<1>. QED BY <1>3, <1>4 DEF VmNotes, VolumeNotes

LEMMA NotedPut ==
  ASSUME NEW ch, NEW id, NEW x, x.op.kind \in Creating
  PROVE  Noted(ch, Insert(ch, id, ChargeFor(x.op)), id, x)
<1>. DEFINE c == ChargeFor(x.op)
            ch2 == Insert(ch, id, c)
<1>. HIDE DEF c
<1>1. DOMAIN ch2 = DOMAIN ch \cup {id} /\ ch2[id] = c /\ \A w \in DOMAIN ch : w # id => ch2[w] = ch[w]
  BY DEF Insert
<1>. HIDE DEF ch2
<1>. QED BY <1>1 DEF Noted, c, ch2

LEMMA NotedDrop ==
  ASSUME NEW ch, NEW id, NEW x, x.op.kind \notin Creating
  PROVE  Noted(ch, Remove(ch, id), id, x)
  BY DEF Noted, Remove, Restrict

\* No other task is about to settle for the same id.
LEMMA SettlesAlone ==
  ASSUME TasksOK(task), NEW t \in Tasks, Counts(task[t]), task[t].op.kind \in Settled, ~Races(t)
  PROVE  /\ task[t].op.kind \in VmKinds => Settling(task, VmKinds, task[t].reply.id) = {t}
         /\ task[t].op.kind \notin VmKinds => Settling(task, VolumeKinds, task[t].reply.id) = {t}
<1>1. \A u \in Tasks \ {t} : ~(/\ Counts(task[u]) /\ task[u].reply.id = task[t].reply.id
                               /\ (task[u].op.kind \in VmKinds) = (task[t].op.kind \in VmKinds))
  BY DEF Races, Counts, VmKinds, TasksOK
<1>2. CASE task[t].op.kind \in VmKinds
  <2>1. \A u \in Tasks \ {t} : u \notin Settling(task, VmKinds, task[t].reply.id)
    BY <1>1, <1>2 DEF Settling
  <2>2. t \in Settling(task, VmKinds, task[t].reply.id) /\ Settling(task, VmKinds, task[t].reply.id) \subseteq Tasks
    BY <1>2 DEF Settling
  <2>. QED BY <1>2, <2>1, <2>2
<1>3. CASE task[t].op.kind \notin VmKinds
  <2>1. task[t].op.kind \in VolumeKinds /\ \A k \in VolumeKinds : k \notin VmKinds
    BY <1>3 DEF VolumeKinds, VmKinds, Settled, Creating, Deleting
  <2>2. \A u \in Tasks \ {t} : u \notin Settling(task, VolumeKinds, task[t].reply.id)
    BY <1>1, <1>3, <2>1 DEF Settling
  <2>3. t \in Settling(task, VolumeKinds, task[t].reply.id) /\ Settling(task, VolumeKinds, task[t].reply.id) \subseteq Tasks
    BY <2>1 DEF Settling
  <2>. QED BY <1>3, <2>2, <2>3
<1>. QED BY <1>2, <1>3

LEMMA SettleBooks ==
  ASSUME HostInv, BooksInv, NEW t \in Tasks, Settle(t)
  PROVE  BooksInv'
<1>0. PICK op, id, x : x = task[t] /\ op = x.op /\ id = x.reply.id
  OBVIOUS
<1>1. /\ TasksOK(task) /\ OpOK(op) /\ op.kind \in Settled /\ x.pc = "settle"
      /\ x.reply.ok \in BOOLEAN
      /\ slots \in [Vm -> Slot] /\ VaultOK(vault) /\ lost \in Amount
      /\ ChargesOK(vm_charges, Vm) /\ ChargesOK(volume_charges, VolumeId)
  BY <1>0 DEF Settle, HostInv, TasksOK, TaskOK, SlotsOK, BooksInv, ReplyOK
<1>2. /\ slots' = slots /\ vault' = vault /\ lost' = lost
      /\ raced' = (raced \/ (x.reply.ok /\ Races(t)))
      /\ Answer(t, op, x.reply)
  BY <1>0 DEF Settle, stores
<1>3. Free(task'[t]) /\ \A u \in Tasks \ {t} : task'[u] = task[u]
  BY <1>1, <1>2, AnswerStake
<1>4. \/ x.reply.ok = FALSE /\ op.kind \in Creating /\ SettleRefused(t)
      \/ x.reply.ok = TRUE /\ op.kind \in Creating /\ SettleCreated(t)
      \/ x.reply.ok = TRUE /\ op.kind \in Deleting /\ SettleDeleted(t)
      \/ x.reply.ok = FALSE /\ op.kind \in Deleting /\ UNCHANGED <<usage, vm_charges, volume_charges>>
  BY <1>0, <1>1 DEF Settle
<1>5. SUFFICES ASSUME ~raced'
               PROVE  Books(usage', lost, slots, vault, task', vm_charges', volume_charges')
  BY <1>1, <1>2 DEF BooksInv
<1>6. /\ StakesOK(task) /\ Balanced(usage, lost, slots, vault, task)
      /\ VmNotes(vm_charges, slots, task) /\ VolumeNotes(volume_charges, vault, task)
  BY <1>2, <1>5 DEF BooksInv, Books
<1>7. /\ StakesOK(task')
      /\ usage.vcpus \in Nat /\ usage.storage_bytes \in Nat
      /\ Owed(x).vcpus <= usage.vcpus /\ Owed(x).storage_bytes <= usage.storage_bytes
      /\ \A us2 : /\ us2.vcpus = usage.vcpus - Owed(x).vcpus
                  /\ us2.storage_bytes = usage.storage_bytes - Owed(x).storage_bytes
                  => Balanced(us2, lost, slots, vault, task')
  BY <1>0, <1>1, <1>3, <1>6, Refunds
<1>8. Owed(x) \in Amount /\ NoUsage.vcpus = 0 /\ NoUsage.storage_bytes = 0
  BY <1>0, <1>6 DEF StakesOK, NoUsage
<1>9. usage' = usage /\ Owed(x) = NoUsage => Balanced(usage', lost, slots, vault, task')
  BY <1>7, <1>8
<1>10. usage' = Minus(usage, Owed(x)) => Balanced(usage', lost, slots, vault, task')
  BY <1>7, <1>8, MinusExact
<1>11. CASE x.reply.ok = FALSE
  <2>1. Owed(x) = ChargeFor(op) /\ ~Counts(x) /\ UNCHANGED <<vm_charges, volume_charges>>
    BY <1>0, <1>1, <1>4, <1>11, FreePcs DEF SettleRefused
  <2>2. Balanced(usage', lost, slots, vault, task')
    <3>1. CASE op.kind \in Creating
      <4>1. usage' = Minus(usage, ChargeFor(op))
        BY <1>0, <1>4, <1>11, <3>1 DEF SettleRefused, Creating, Deleting
      <4>. QED BY <1>10, <2>1, <4>1
    <3>2. CASE op.kind \notin Creating
      <4>1. usage' = usage /\ op.kind \in Deleting
        BY <1>4, <1>11, <3>2
      <4>2. Owed(x) = NoUsage
        BY <1>0, <1>1, <1>11, <4>1, FreePcs DEF Free
      <4>. QED BY <1>9, <4>1, <4>2
    <3>. QED BY <3>1, <3>2
  <2>3. \A u \in Tasks : CountsAlike(task[u], task'[u])
    <3>. TAKE u \in Tasks
    <3>. QED BY <1>0, <1>3, <2>1 DEF CountsAlike, Free
  <2>4. VmNotes(vm_charges, slots, task') /\ VolumeNotes(volume_charges, vault, task')
    BY <1>6, <2>3, NotesSame
  <2>. QED BY <1>7, <2>1, <2>2, <2>4 DEF Books
<1>12. CASE x.reply.ok = TRUE
  <2>1. ~Races(t) /\ Counts(x) /\ op.kind \in Creating \cup Deleting
    BY <1>1, <1>2, <1>5, <1>12 DEF Counts, Settled
  <2>2. /\ op.kind \in VmKinds => Settling(task, VmKinds, id) = {t}
        /\ op.kind \notin VmKinds => Settling(task, VolumeKinds, id) = {t}
    BY <1>0, <1>1, <2>1, SettlesAlone
  <2>3. /\ op.kind \in VmKinds => Ended(task, task', t, VmKinds, id)
        /\ op.kind \notin VmKinds => Ended(task, task', t, VolumeKinds, id)
    BY <1>3, <2>2 DEF Ended, Free
  <2>4. IF op.kind \in VmKinds THEN id \in Vm ELSE id \in VolumeId
    BY <1>0, <1>6, <2>1 DEF StakesOK
  <2>5. CASE op.kind = "create"
    <3>1. usage' = usage /\ vm_charges' = Insert(vm_charges, id, ChargeFor(op)) /\ UNCHANGED volume_charges /\ op.kind \in VmKinds
      BY <1>0, <1>4, <1>12, <2>5 DEF SettleCreated, Creating, Deleting, VmKinds
    <3>2. Owed(x) = NoUsage /\ op.kind \in Creating
      BY <1>0, <1>1, <1>12, <2>5, FreePcs DEF Creating
    <3>3. Noted(vm_charges, vm_charges', id, task[t])
      BY <1>0, <3>1, <3>2, NotedPut
    <3>4. VmNotes(vm_charges', slots, task') /\ VolumeNotes(volume_charges, vault, task')
      BY <1>6, <2>3, <3>1, <3>3, VmSettles
    <3>. QED BY <1>7, <1>9, <3>1, <3>2, <3>4 DEF Books
  <2>6. CASE op.kind = "create_volume"
    <3>1. /\ usage' = usage /\ volume_charges' = Insert(volume_charges, id, ChargeFor(op)) /\ UNCHANGED vm_charges
          /\ op.kind \notin VmKinds
      BY <1>0, <1>4, <1>12, <2>6 DEF SettleCreated, Creating, Deleting, VmKinds
    <3>2. Owed(x) = NoUsage /\ op.kind \in Creating
      BY <1>0, <1>1, <1>12, <2>6, FreePcs DEF Creating
    <3>3. Noted(volume_charges, volume_charges', id, task[t])
      BY <1>0, <3>1, <3>2, NotedPut
    <3>4. VmNotes(vm_charges, slots, task') /\ VolumeNotes(volume_charges', vault, task')
      BY <1>6, <2>3, <3>1, <3>3, VolumeSettles
    <3>. QED BY <1>7, <1>9, <3>1, <3>2, <3>4 DEF Books
  <2>7. CASE op.kind = "delete"
    <3>1. /\ usage' = IF id \in DOMAIN vm_charges THEN Minus(usage, vm_charges[id]) ELSE usage
          /\ vm_charges' = Remove(vm_charges, id) /\ UNCHANGED volume_charges
          /\ op.kind \in VmKinds /\ op.kind \notin Creating
      BY <1>0, <1>4, <1>12, <2>7 DEF SettleDeleted, Creating, Deleting, VmKinds
    <3>2. NoteOK(vm_charges, id, slots[id] # NoVm, VmPrice(slots[id]), task, VmKinds)
      BY <1>6, <2>4, <3>1 DEF VmNotes
    <3>3. IF id \in DOMAIN vm_charges THEN vm_charges[id] = Owed(x) ELSE Owed(x) = NoUsage
      BY <1>0, <2>2, <3>1, <3>2 DEF NoteOK
    <3>4. Balanced(usage', lost, slots, vault, task')
      BY <1>9, <1>10, <3>1, <3>3
    <3>5. Noted(vm_charges, vm_charges', id, task[t])
      BY <1>0, <3>1, NotedDrop
    <3>6. VmNotes(vm_charges', slots, task') /\ VolumeNotes(volume_charges, vault, task')
      BY <1>6, <2>3, <3>1, <3>5, VmSettles
    <3>. QED BY <1>7, <3>1, <3>4, <3>6 DEF Books
  <2>8. CASE op.kind = "delete_volume"
    <3>1. /\ usage' = IF id \in DOMAIN volume_charges THEN Minus(usage, volume_charges[id]) ELSE usage
          /\ volume_charges' = Remove(volume_charges, id) /\ UNCHANGED vm_charges
          /\ op.kind \notin VmKinds /\ op.kind \notin Creating
      BY <1>0, <1>4, <1>12, <2>8 DEF SettleDeleted, Creating, Deleting, VmKinds
    <3>2. NoteOK(volume_charges, id, Known(vault, id), VolumePrice(vault, id), task, VolumeKinds)
      BY <1>6, <2>4, <3>1 DEF VolumeNotes
    <3>3. IF id \in DOMAIN volume_charges THEN volume_charges[id] = Owed(x) ELSE Owed(x) = NoUsage
      BY <1>0, <2>2, <3>1, <3>2 DEF NoteOK
    <3>4. Balanced(usage', lost, slots, vault, task')
      BY <1>9, <1>10, <3>1, <3>3
    <3>5. Noted(volume_charges, volume_charges', id, task[t])
      BY <1>0, <3>1, NotedDrop
    <3>6. VmNotes(vm_charges, slots, task') /\ VolumeNotes(volume_charges', vault, task')
      BY <1>6, <2>3, <3>1, <3>5, VolumeSettles
    <3>. QED BY <1>7, <3>1, <3>4, <3>6 DEF Books
  <2>. QED BY <2>1, <2>5, <2>6, <2>7, <2>8 DEF Creating, Deleting
<1>. QED BY <1>1, <1>11, <1>12

---------------------------------------------------------------------------
(* Beginning, and a crash. *)

\* Nothing is there, and nothing is on its way.
LEMMA FreshBooks ==
  ASSUME NEW us, NEW sl, sl = [v \in Vm |-> NoVm], NEW tk, tk = [t \in Tasks |-> Idle]
  PROVE  us.vcpus \in Nat /\ us.storage_bytes \in Nat => Books(us, us, sl, NewVolumeStore, tk, NoCharges, NoCharges)
<1>1. \A t \in Tasks : Free(tk[t])
  BY IdleOK, FreePcs
<1>2. StakesOK(tk)
  <2>1. NoUsage \in Amount
    BY DEF NoUsage, Amount
  <2>. QED BY <1>1, <2>1 DEF StakesOK, Free
<1>3. CpuHeld(sl) = 0
  <2>. DEFINE f == [v \in Vm |-> sl[v].cost]
  <2>1. \A v \in Vm : f[v] \in Int /\ f[v] = 0
    BY DEF NoVm
  <2>2. SumFunctionOnSet(f, Vm) = SumFunctionOnSet(f, {})
    BY <2>1, FiniteVms, SumZeros
  <2>. QED BY <2>2, SumEmpty DEF CpuHeld
<1>4. DiskHeld(NewVolumeStore) = 0
  <2>1. DOMAIN NewVolumeStore.rows = {}
    BY DEF NewVolumeStore
  <2>. QED BY <2>1, SumEmpty DEF DiskHeld
<1>5. CpuOwed(tk) = 0
  <2>. DEFINE f == [t \in Tasks |-> Owed(tk[t]).vcpus]
  <2>1. \A t \in Tasks : f[t] \in Int /\ f[t] = 0
    BY <1>1 DEF Free, NoUsage
  <2>2. SumFunctionOnSet(f, Tasks) = SumFunctionOnSet(f, {})
    BY <2>1, FiniteTasks, SumZeros
  <2>. QED BY <2>2, SumEmpty DEF CpuOwed
<1>6. DiskOwed(tk) = 0
  <2>. DEFINE f == [t \in Tasks |-> Owed(tk[t]).storage_bytes]
  <2>1. \A t \in Tasks : f[t] \in Int /\ f[t] = 0
    BY <1>1 DEF Free, NoUsage
  <2>2. SumFunctionOnSet(f, Tasks) = SumFunctionOnSet(f, {})
    BY <2>1, FiniteTasks, SumZeros
  <2>. QED BY <2>2, SumEmpty DEF DiskOwed
<1>7. us.vcpus \in Nat /\ us.storage_bytes \in Nat => Balanced(us, us, sl, NewVolumeStore, tk)
  BY <1>3, <1>4, <1>5, <1>6 DEF Balanced
<1>8. \A K, id : Settling(tk, K, id) = {}
  BY <1>1 DEF Settling, Free
<1>9. DOMAIN NoCharges = {}
  BY DEF NoCharges
<1>10. ASSUME NEW v \in Vm PROVE NoteOK(NoCharges, v, sl[v] # NoVm, VmPrice(sl[v]), tk, VmKinds)
  <2>1. sl[v] = NoVm /\ Settling(tk, VmKinds, v) = {}
    BY <1>8
  <2>. QED BY <1>9, <2>1 DEF NoteOK
<1>11. ASSUME NEW v \in VolumeId
       PROVE  NoteOK(NoCharges, v, Known(NewVolumeStore, v), VolumePrice(NewVolumeStore, v), tk, VolumeKinds)
  <2>1. ~Known(NewVolumeStore, v) /\ Settling(tk, VolumeKinds, v) = {}
    BY <1>8 DEF Known, NewVolumeStore
  <2>. QED BY <1>9, <2>1 DEF NoteOK
<1>. QED BY <1>2, <1>7, <1>10, <1>11 DEF Books, VmNotes, VolumeNotes

LEMMA DueIs ==
  ASSUME TasksOK(task)
  PROVE  Due = [vcpus |-> CpuHeld(slots) + CpuOwed(task), storage_bytes |-> DiskHeld(vault) + DiskOwed(task)]
<1>1. DOMAIN task = Tasks
  BY DEF TasksOK
<1>. QED BY <1>1 DEF Due, CpuHeld, CpuOwed, DiskHeld, DiskOwed

\* Usage is what the host is charged for, down to the record.
LEMMA BooksBalance ==
  ASSUME HostInv, Balanced(usage, lost, slots, vault, task)
  PROVE  usage = Plus(Due, lost)
<1>1. usage = [vcpus |-> usage.vcpus, storage_bytes |-> usage.storage_bytes]
  BY DEF HostInv, UsageOK
<1>2. Due.vcpus = CpuHeld(slots) + CpuOwed(task) /\ Due.storage_bytes = DiskHeld(vault) + DiskOwed(task)
  BY DueIs DEF HostInv
<1>. QED BY <1>1, <1>2 DEF Balanced, Plus

LEMMA CrashBooks ==
  ASSUME HostInv, BooksInv, Crash
  PROVE  BooksInv'
<1>1. /\ slots' = [v \in Vm |-> NoVm] /\ vault' = NewVolumeStore
      /\ vm_charges' = NoCharges /\ volume_charges' = NoCharges /\ usage' = usage /\ raced' = raced
      /\ task' = [t \in Tasks |-> Idle] /\ lost' = IF raced THEN lost ELSE Plus(lost, Due)
  BY DEF Crash, HostInv, TasksOK
<1>2. CASE raced
  BY <1>1, <1>2 DEF BooksInv
<1>3. CASE ~raced
  <2>1. Balanced(usage, lost, slots, vault, task) /\ lost \in Amount
    BY <1>3 DEF BooksInv, Books
  <2>2. usage = Plus(Due, lost)
    BY <2>1, BooksBalance
  <2>3. usage.vcpus \in Nat /\ usage.storage_bytes \in Nat /\ usage \in Amount
    <3>1. Quota.vcpus \in Nat /\ Quota.storage_bytes \in Nat
      BY HostAssumption
    <3>. QED BY <3>1 DEF HostInv, UsageOK, Amount
  <2>4. Due.vcpus \in Int /\ Due.storage_bytes \in Int
    <3>1. StakesOK(task) /\ slots \in [Vm -> Slot] /\ VaultOK(vault) /\ TasksOK(task)
      BY <1>3 DEF BooksInv, Books, HostInv, SlotsOK
    <3>2. CpuHeld(slots) \in Nat /\ CpuOwed(task) \in Nat /\ DiskHeld(vault) \in Nat /\ DiskOwed(task) \in Nat
      BY <3>1, CpuHeldType, FiniteRows, CpuOwedFacts, DiskOwedFacts
    <3>3. Due.vcpus = CpuHeld(slots) + CpuOwed(task) /\ Due.storage_bytes = DiskHeld(vault) + DiskOwed(task)
      BY <3>1, DueIs
    <3>. QED BY <3>2, <3>3
  <2>5. lost.vcpus \in Int /\ lost.storage_bytes \in Int
    BY <2>1 DEF Amount
  <2>6. lost' = usage
    BY <1>1, <1>3, <2>2, <2>4, <2>5 DEF Plus
  <2>7. Books(usage, usage, slots', vault', task', vm_charges', volume_charges')
    BY <1>1, <2>3, FreshBooks
  <2>. QED BY <1>1, <2>3, <2>6, <2>7 DEF BooksInv
<1>. QED BY <1>2, <1>3

LEMMA InitBooks == Init => BooksInv
<1>. SUFFICES ASSUME Init PROVE BooksInv
  OBVIOUS
<1>1. /\ slots = [v \in Vm |-> NoVm] /\ vault = NewVolumeStore
      /\ vm_charges = NoCharges /\ volume_charges = NoCharges /\ usage = NoUsage /\ lost = NoUsage
      /\ task = [t \in Tasks |-> Idle]
  BY DEF Init, HostInit, Tasks
<1>2. NoUsage \in Amount /\ NoUsage.vcpus \in Nat /\ NoUsage.storage_bytes \in Nat
  BY DEF NoUsage, Amount
<1>. QED BY <1>1, <1>2, FreshBooks DEF BooksInv

LEMMA HandleBooks ==
  ASSUME HostInv, BooksInv, NEW t \in Tasks, NEW op, OpOK(op), Handle(t, op)
  PROVE  BooksInv'
  BY ChargeBooks, SlotBooks, OtherBooks, LookBooks, DeleteBooks DEF Handle

LEMMA ProceedBooks ==
  ASSUME HostInv, BooksInv, NEW t \in Tasks, Proceed(t)
  PROVE  BooksInv'
  BY CreateBooks, VolumeCreateBooks, VolumeDelete2Books, SecondBooks, SettleBooks DEF Proceed

\* The host rests.
LEMMA RestBooks ==
  ASSUME BooksInv, UNCHANGED <<slots, vault, task, accounts>>
  PROVE  BooksInv'
<1>1. /\ slots' = slots /\ vault' = vault /\ task' = task /\ usage' = usage /\ lost' = lost /\ raced' = raced
      /\ vm_charges' = vm_charges /\ volume_charges' = volume_charges
  BY DEF accounts
<1>. QED BY <1>1 DEF BooksInv

LEMMA NextBooks == IInv /\ BooksInv /\ [Next]_vars => BooksInv'
<1>. SUFFICES ASSUME IInv, BooksInv, [Next]_vars PROVE BooksInv'
  OBVIOUS
<1>0. HostInv
  BY DEF IInv
<1>1. ASSUME NEW t \in Task, Local(t) PROVE BooksInv'
  <2>1. PICK kind \in mix.kinds : \E op \in Ops[kind] : Handle(t, op)
    BY <1>1 DEF Local
  <2>2. PICK op \in Ops[kind] : Handle(t, op)
    BY <2>1
  <2>3. kind \in Kinds
    BY <1>0, HostAssumption DEF HostInv
  <2>4. OpOK(op) /\ t \in Tasks
    BY <2>3, LocalOp DEF Tasks
  <2>. QED BY <1>0, <2>2, <2>4, HandleBooks
<1>2. ASSUME NEW t \in Task \cup {Receiver}, Proceed(t) PROVE BooksInv'
  BY <1>0, <1>2, ProceedBooks DEF Tasks
<1>3. CASE Snapshot
  BY <1>3, RestBooks DEF Snapshot, stores
<1>4. CASE Crash
  BY <1>0, <1>4, CrashBooks
<1>5. CASE RecvRequest
  <2>1. PICK m \in net : m.type = "request" /\ Handle(Receiver, m.op)
    BY <1>5 DEF RecvRequest
  <2>2. OpOK(m.op) /\ Receiver \in Tasks
    BY <2>1 DEF IInv, RpcInv, RpcOK, MsgOK, Tasks
  <2>. QED BY <1>0, <2>1, <2>2, HandleBooks
<1>6. CASE SendResponse
  <2>1. task[Receiver].pc = "answer" /\ task' = Put(task, Receiver, Idle) /\ Receiver \in Tasks /\ TasksOK(task)
    BY <1>0, <1>6 DEF SendResponse, Put, Tasks, HostInv
  <2>2. task'[Receiver] = Idle /\ \A u \in Tasks \ {Receiver} : task'[u] = task[u]
    BY <2>1 DEF Put, TasksOK
  <2>3. Free(task[Receiver]) /\ Free(task'[Receiver])
    BY <2>1, <2>2, IdleOK, FreePcs
  <2>4. UNCHANGED accounts /\ vault'.rows = vault.rows /\ \A v \in Vm : Alike(slots[v], slots'[v])
    BY <1>6 DEF SendResponse, stores, Alike
  <2>. QED BY <2>1, <2>2, <2>3, <2>4, FreeBooks
<1>7. CASE Invoke \/ Lose \/ RecvResponse \/ Timeout \/ K8sCreate \/ K8sDestroy \/ UNCHANGED vars
  <2>1. UNCHANGED hostVars
    BY <1>7 DEF Invoke, Lose, RecvResponse, Timeout, K8sCreate, K8sDestroy, vars
  <2>. QED BY <2>1, RestBooks DEF hostVars, accounts
<1>. QED BY <1>1, <1>2, <1>3, <1>4, <1>5, <1>6, <1>7 DEF Next

---------------------------------------------------------------------------
(* The course of a cluster.  Beside it there are only callers that take       *)
(* nothing away: the personality is not told when somebody else deletes its   *)
(* VMs, NICs, network or balancer.                                            *)

Harmful == {"delete", "attach_nic", "detach_nic", "delete_network", "delete_lb"}

\* The host does not restart under a cluster, other callers take nothing away and
\* ask for VMs that can be told from a cluster's.
Peaceful ==
  /\ 0 \notin VmCost
  /\ \A m \in Mixes : m.k8s => ~m.crash /\ m.kinds \cap Harmful = {}

CallersOK(tk) ==
  \A t \in Task : tk[t].pc # "idle" => tk[t].op.kind \notin Harmful /\ (tk[t].op.kind = "create" => tk[t].op.cost # 0)

\* The VMs of the cluster, which are the ones without a cost.
Unpriced(sl) == {v \in Vm : sl[v] # NoVm /\ sl[v].cost = 0}

Plan(c) == Parse(0, c.prefix_len)

\* The first node that has its VM, and the first that has its NIC.
FirstVm(c) ==
  CASE c.pc \in {"detach", "stop", "delete"} -> c.i
    [] c.pc \in {"del_network", "gone"} -> Len(c.nodes) + 1
    [] OTHER -> 1
FirstNic(c) ==
  CASE c.pc = "detach" -> c.i
    [] c.pc \in {"stop", "delete"} -> c.i + 1
    [] c.pc \in {"del_network", "gone"} -> Len(c.nodes) + 1
    [] OTHER -> 1

VmsFrom(c, a) == {c.nodes[j].vm : j \in a..Len(c.nodes)}

\* The nodes are told apart by their VMs and have the addresses of the plan.
NodesOK(c) ==
  /\ \A j \in 1..Len(c.nodes) : c.nodes[j].ip = NthHost(Plan(c), j)
  /\ \A j, k \in 1..Len(c.nodes) : c.nodes[j].vm = c.nodes[k].vm => j = k

\* The host's VMs without a cost are the nodes from a on and those in W.
VmsStand(c, sl, a, W) == Unpriced(sl) = VmsFrom(c, a) \cup W

\* The host's NICs are those of the nodes from b on.
NicsStand(c, s, b) ==
  /\ DOMAIN s.nics = {c.nodes[j].nic : j \in b..Len(c.nodes)}
  /\ \A j \in b..Len(c.nodes) :
       s.nics[c.nodes[j].nic] = [network |-> c.network, vm |-> c.nodes[j].vm, ip |-> NthHost(Plan(c), j)]

NetworkStands(c, s) == c.network \in DOMAIN s.networks /\ s.networks[c.network] = Plan(c)

WorkersOf(c) == [i \in 1..Workers |-> [vm |-> c.nodes[i + 1].vm, ip |-> c.nodes[i + 1].ip]]

LbStands(c, s) == c.lb \in DOMAIN s.lbs /\ s.lbs[c.lb].backends = WorkersOf(c)

\* What exists at a step of create or destroy.
Stands(c, sl, s) ==
  /\ NodesOK(c)
  /\ c.pc = "none" => Len(c.nodes) = 0
  /\ c.pc = "nic" => c.vm \notin VmsFrom(c, 1)
  /\ VmsStand(c, sl, FirstVm(c), IF c.pc = "nic" THEN {c.vm} ELSE {})
  /\ NicsStand(c, s, FirstNic(c))
  /\ c.pc \in Existing => NetworkStands(c, s)
  /\ c.pc \in {"up", "del_lb"} => LbStands(c, s)
  /\ c.pc \in {"detach", "stop", "delete", "del_network", "gone"} => c.lb \in 1..s.next_lb /\ c.lb \notin DOMAIN s.lbs
  /\ c.pc = "gone" => c.network \in 1..s.next_net /\ c.network \notin DOMAIN s.networks

\* A cluster that may still come to a good end.
Hopeful(c) == c.pc # "failed" /\ ~c.err

Promise(c, sl, s) == Hopeful(c) => Stands(c, sl, s)

Goes(c, r) == IF c.pc \in Creation THEN Created(c, r) ELSE Destroyed(c, r)

\* One datagram or the receiver carries the request under way; whatever else is on
\* its way has to do with stopping a VM.
Lone(nt, sv, pd, rx) ==
  /\ \A m, w \in nt : m.id = pd /\ w.id = pd => m = w
  /\ rx.pc # "idle" /\ sv = pd => \A m \in nt : m.id # pd
Strays(nt, sv, pd, rx) ==
  /\ \A m \in nt : m.id # pd => m.op.kind = "stop"
  /\ rx.pc # "idle" /\ sv # pd => rx.op.kind = "stop"

\* The request is under way to its effect; the answer r is under way.
Asked(nt, sv, pd, rx) ==
  \/ \E m \in nt : m.type = "request" /\ m.id = pd
  \/ rx.pc \in {"host", "attach_nic"} /\ sv = pd
Told(nt, sv, pd, rx, r) ==
  \/ \E m \in nt : m.type = "response" /\ m.id = pd /\ m.reply = r
  \/ rx.pc \in {"settle", "answer"} /\ sv = pd /\ rx.reply = r

Course(nt, sv, pd, c, rx, sl, s) ==
  /\ Lone(nt, sv, pd, rx)
  /\ Strays(nt, sv, pd, rx)
  /\ pd = 0 \/ c.pc = "stop" \/ Asked(nt, sv, pd, rx) => Stands(c, sl, s)
  /\ \A r : Told(nt, sv, pd, rx, r) => Promise(Goes(c, r), sl, s)

ErrOK(c) == c.err \in BOOLEAN /\ (c.pc \in Creation \cup {"none", "up", "gone"} => c.err = FALSE)

ClusterInv ==
  /\ ErrOK(k8s)
  /\ k8s.pc # "none" => mix.k8s
  /\ mix.k8s => CallersOK(task)
  /\ mix.k8s /\ Hopeful(k8s) => Course(net, serving, pending, k8s, task[Receiver], slots, nets)

---------------------------------------------------------------------------
(* Steps that leave every cluster as it is. *)

\* f2 has the entries up to k that f has.
Extends(f, f2, k) ==
  \A n \in 1..k : (n \in DOMAIN f2 <=> n \in DOMAIN f) /\ (n \in DOMAIN f => f2[n] = f[n])

NetsGrow(s, s2) ==
  /\ s2.nics = s.nics
  /\ s2.next_net \in Nat /\ s2.next_lb \in Nat /\ s.next_net <= s2.next_net /\ s.next_lb <= s2.next_lb
  /\ Extends(s.networks, s2.networks, s.next_net)
  /\ Extends(s.lbs, s2.lbs, s.next_lb)

Tame(sl, sl2, s, s2) == Unpriced(sl2) = Unpriced(sl) /\ NetsGrow(s, s2)

LEMMA TameKeeps ==
  ASSUME NEW c, NEW sl, NEW sl2, NEW s, NEW s2, IsNetworkStore(s), Tame(sl, sl2, s, s2), Stands(c, sl, s)
  PROVE  Stands(c, sl2, s2)
<1>1. /\ s.next_net \in Nat /\ s.next_lb \in Nat
      /\ DOMAIN s.networks \subseteq 1..s.next_net /\ DOMAIN s.lbs \subseteq 1..s.next_lb
  BY DEF IsNetworkStore
<1>2. s2.nics = s.nics /\ Unpriced(sl2) = Unpriced(sl)
  BY DEF Tame, NetsGrow
<1>3. VmsStand(c, sl2, FirstVm(c), IF c.pc = "nic" THEN {c.vm} ELSE {})
  BY <1>2 DEF Stands, VmsStand
<1>4. NicsStand(c, s2, FirstNic(c))
  BY <1>2 DEF Stands, NicsStand
<1>5. NetworkStands(c, s) => NetworkStands(c, s2)
  BY <1>1 DEF Tame, NetsGrow, Extends, NetworkStands
<1>6. LbStands(c, s) => LbStands(c, s2)
  BY <1>1 DEF Tame, NetsGrow, Extends, LbStands
<1>7. c.lb \in 1..s.next_lb /\ c.lb \notin DOMAIN s.lbs => c.lb \in 1..s2.next_lb /\ c.lb \notin DOMAIN s2.lbs
  BY <1>1 DEF Tame, NetsGrow, Extends
<1>8. c.network \in 1..s.next_net /\ c.network \notin DOMAIN s.networks
      => c.network \in 1..s2.next_net /\ c.network \notin DOMAIN s2.networks
  BY <1>1 DEF Tame, NetsGrow, Extends
<1>. QED BY <1>3, <1>4, <1>5, <1>6, <1>7, <1>8 DEF Stands

LEMMA TamePromise ==
  ASSUME NEW c, NEW sl, NEW sl2, NEW s, NEW s2, IsNetworkStore(s), Tame(sl, sl2, s, s2), Promise(c, sl, s)
  PROVE  Promise(c, sl2, s2)
  BY TameKeeps DEF Promise

LEMMA UnpricedAlike ==
  ASSUME NEW sl, NEW sl2, \A v \in Vm : Alike(sl[v], sl2[v])
  PROVE  Unpriced(sl2) = Unpriced(sl)
  BY DEF Unpriced, Alike

LEMMA SameNets ==
  ASSUME NEW s, IsNetworkStore(s)
  PROVE  NetsGrow(s, s)
  BY DEF NetsGrow, Extends, IsNetworkStore

LEMMA GrowNetwork ==
  ASSUME NEW s, IsNetworkStore(s), NEW cidr, NEW h, h = CreateNetwork(s, cidr)
  PROVE  /\ NetsGrow(s, h) /\ h.next_net = s.next_net + 1
         /\ h.next_net \in DOMAIN h.networks /\ h.networks[h.next_net] = cidr
<1>. DEFINE n == s.next_net + 1
<1>1. /\ h.next_net = n /\ h.next_lb = s.next_lb /\ h.nics = s.nics /\ h.lbs = s.lbs
      /\ h.networks = Insert(s.networks, n, cidr)
  BY DEF CreateNetwork, IsNetworkStore
<1>2. s.next_net \in Nat /\ s.next_lb \in Nat /\ n \notin 1..s.next_net /\ n \in Nat /\ s.next_net <= n
  BY DEF IsNetworkStore
<1>. HIDE DEF n
<1>3. Extends(s.networks, h.networks, s.next_net) /\ n \in DOMAIN h.networks /\ h.networks[n] = cidr
  BY <1>1, <1>2 DEF Insert, Extends
<1>4. Extends(s.lbs, h.lbs, s.next_lb)
  BY <1>1 DEF Extends
<1>. QED BY <1>1, <1>2, <1>3, <1>4 DEF NetsGrow, n

LEMMA GrowLb ==
  ASSUME NEW s, IsNetworkStore(s), NEW n, NEW vip, NEW backends, NEW h, h = CreateLb(s, n, vip, backends)
  PROVE  /\ NetsGrow(s, h) /\ h.next_lb = s.next_lb + 1
         /\ h.next_lb \in DOMAIN h.lbs /\ h.lbs[h.next_lb].backends = backends
<1>. DEFINE l == s.next_lb + 1
            lb == [network |-> n, vip |-> vip, backends |-> backends]
<1>1. /\ h.next_lb = l /\ h.next_net = s.next_net /\ h.nics = s.nics /\ h.networks = s.networks
      /\ h.lbs = Insert(s.lbs, l, lb)
  BY DEF CreateLb, IsNetworkStore
<1>2. s.next_net \in Nat /\ s.next_lb \in Nat /\ l \notin 1..s.next_lb /\ l \in Nat /\ s.next_lb <= l
  BY DEF IsNetworkStore
<1>3. lb.backends = backends
  OBVIOUS
<1>. HIDE DEF l, lb
<1>4. Extends(s.lbs, h.lbs, s.next_lb) /\ l \in DOMAIN h.lbs /\ h.lbs[l] = lb
  BY <1>1, <1>2 DEF Insert, Extends
<1>5. Extends(s.networks, h.networks, s.next_net)
  BY <1>1 DEF Extends
<1>. QED BY <1>1, <1>2, <1>3, <1>4, <1>5 DEF NetsGrow, l

LEMMA GrowSg ==
  ASSUME NEW s, IsNetworkStore(s), NEW h, NEW g, h = CreateSecurityGroup(s) \/ h = DeleteSecurityGroup(s, g)
  PROVE  NetsGrow(s, h)
<1>1. /\ h.next_net = s.next_net /\ h.next_lb = s.next_lb /\ h.nics = s.nics /\ h.lbs = s.lbs
      /\ h.networks = s.networks
  BY DEF CreateSecurityGroup, DeleteSecurityGroup, IsNetworkStore
<1>. QED BY <1>1 DEF NetsGrow, Extends, IsNetworkStore

\* The first step of an operation that takes nothing away.
LEMMA HandleTame ==
  ASSUME HostInv, NEW t \in Tasks, NEW op, OpOK(op), op.kind \notin Harmful \ {"attach_nic"}, Handle(t, op)
  PROVE  Tame(slots, slots', nets, nets')
<1>0. IsNetworkStore(nets)
  BY DEF HostInv, NetOK
<1>1. CASE Start(t, op) \/ Stop(t, op) \/ DetachVolume(t, op)
  <2>1. nets' = nets
    BY <1>1 DEF Start, Stop, DetachVolume
  <2>2. \A v \in Vm : Alike(slots[v], slots'[v])
    BY <1>1, SlotAlike
  <2>. QED BY <1>0, <2>1, <2>2, UnpricedAlike, SameNets DEF Tame
<1>2. CASE NetworkCreate(t, op)
  <2>1. slots' = slots /\ (nets' = nets \/ nets' = CreateNetwork(nets, Parse(op.ip, op.prefix_len)))
    BY <1>2 DEF NetworkCreate
  <2>. QED BY <1>0, <2>1, GrowNetwork, SameNets DEF Tame
<1>3. CASE LbCreate(t, op)
  <2>1. slots' = slots /\ (nets' = nets \/ nets' = CreateLb(nets, op.network, op.vip, op.backends))
    BY <1>3 DEF LbCreate
  <2>. QED BY <1>0, <2>1, GrowLb, SameNets DEF Tame
<1>4. CASE SgCreate(t, op) \/ SgDelete(t, op)
  <2>1. slots' = slots /\ (nets' = nets \/ nets' = CreateSecurityGroup(nets) \/ nets' = DeleteSecurityGroup(nets, op.sg))
    BY <1>4 DEF SgCreate, SgDelete
  <2>. QED BY <1>0, <2>1, GrowSg, SameNets DEF Tame
<1>5. CASE \/ Charge(t, op) \/ VolumeDelete(t, op) \/ AttachVolume(t, op) \/ NicAttach(t, op)
           \/ SnapshotCreate(t, op) \/ SnapshotDelete(t, op) \/ SnapshotRestore(t, op)
  <2>1. slots' = slots /\ nets' = nets
    BY <1>5 DEF Charge, VolumeDelete, AttachVolume, NicAttach, SnapshotCreate, SnapshotDelete, SnapshotRestore, stores
  <2>. QED BY <1>0, <2>1, SameNets DEF Tame
<1>6. ~Delete(t, op) /\ ~NicDetach(t, op) /\ ~NetworkDelete(t, op) /\ ~LbDelete(t, op)
  BY DEF Delete, NicDetach, NetworkDelete, LbDelete, Begins, Harmful
<1>. QED BY <1>1, <1>2, <1>3, <1>4, <1>5, <1>6 DEF Handle

\* A later step of one.
LEMMA ProceedTame ==
  ASSUME HostInv, NEW t \in Tasks, Proceed(t), task[t].pc # "attach_nic",
         task[t].op.kind = "create" /\ task[t].pc = "host" => task[t].op.cost # 0
  PROVE  Tame(slots, slots', nets, nets')
<1>0. IsNetworkStore(nets) /\ slots \in [Vm -> Slot]
  BY DEF HostInv, NetOK, SlotsOK
<1>1. CASE Create(t)
  <2>0. PICK op, v, x : /\ op = task[t].op /\ v = Min(FreeSlots)
                        /\ x = [NoVm EXCEPT !.state = "created", !.cost = op.cost]
    OBVIOUS
  <2>1. nets' = nets /\ (slots' = slots \/ (FreeSlots # {} /\ slots' = [slots EXCEPT ![v] = x])) /\ op.cost # 0
    BY <1>1, <2>0 DEF Create
  <2>2. CASE slots' = slots
    BY <1>0, <2>1, <2>2, SameNets DEF Tame
  <2>3. CASE FreeSlots # {} /\ slots' = [slots EXCEPT ![v] = x]
    <3>1. FreeSlots \subseteq Vm /\ Vm \subseteq Nat
      BY DEF FreeSlots, Vm
    <3>2. FreeSlots \subseteq Nat
      BY <3>1
    <3>3. v \in FreeSlots
      BY <2>0, <2>3, <3>2, MinOf
    <3>4. v \in Vm /\ slots[v] = NoVm /\ x.cost # 0
      BY <2>0, <2>1, <3>3 DEF FreeSlots, NoVm
    <3>5. slots'[v] = x /\ \A w \in Vm \ {v} : slots'[w] = slots[w]
      BY <1>0, <2>3, <3>4
    <3>6. Unpriced(slots') = Unpriced(slots)
      BY <3>4, <3>5 DEF Unpriced
    <3>. QED BY <1>0, <2>1, <3>6, SameNets DEF Tame
  <2>. QED BY <2>1, <2>2, <2>3
<1>2. CASE AttachVolume2(t)
  <2>1. nets' = nets
    BY <1>2 DEF AttachVolume2
  <2>2. \A v \in Vm : Alike(slots[v], slots'[v])
    BY <1>2, AttachAlike
  <2>. QED BY <1>0, <2>1, <2>2, UnpricedAlike, SameNets DEF Tame
<1>3. CASE VolumeCreate(t) \/ VolumeDelete2(t) \/ Settle(t)
  <2>1. slots' = slots /\ nets' = nets
    BY <1>3 DEF VolumeCreate, VolumeDelete2, Settle, stores
  <2>. QED BY <1>0, <2>1, SameNets DEF Tame
<1>4. ~NicAttach2(t)
  BY DEF NicAttach2
<1>. QED BY <1>1, <1>2, <1>3, <1>4 DEF Proceed

---------------------------------------------------------------------------
(* What a step of a task leaves of its operation. *)

LEMMA ReplyTells ==
  ASSUME TasksOK(task), NEW t \in Tasks, NEW op, NEW ok, NEW id, NEW cost, Reply(t, op, ok, id, cost)
  PROVE  /\ \A u \in Tasks \ {t} : task'[u] = task[u]
         /\ task'[t].pc = "idle" \/ task'[t].op = op
         /\ t = Receiver => /\ task'[t].pc \in {"settle", "answer"} /\ task'[t].op = op
                            /\ task'[t].reply.ok = ok /\ task'[t].reply.id = id
<1>1. CASE op.kind \in Settled
  BY <1>1, ReplyFields
<1>2. CASE op.kind \notin Settled /\ t = Receiver
  <2>. DEFINE x == [Idle EXCEPT !.pc = "answer", !.op = op, !.reply = [NoReply EXCEPT !.ok = ok, !.id = id]]
  <2>1. task' = Put(task, t, x)
    BY <1>2 DEF Reply, Put
  <2>2. x.pc = "answer" /\ x.op = op /\ x.reply.ok = ok /\ x.reply.id = id
    BY DEF Idle, NoReply
  <2>. HIDE DEF x
  <2>. QED BY <2>1, <2>2 DEF Put, TasksOK
<1>3. CASE op.kind \notin Settled /\ t # Receiver
  <2>1. task' = Put(task, t, Idle)
    BY <1>3 DEF Reply, Put
  <2>. QED BY <1>3, <2>1, IdleOK DEF Put, TasksOK
<1>. QED BY <1>1, <1>2, <1>3

LEMMA AnswerTells ==
  ASSUME TasksOK(task), NEW t \in Tasks, NEW op, NEW r, Answer(t, op, r)
  PROVE  /\ \A u \in Tasks \ {t} : task'[u] = task[u]
         /\ task'[t].pc = "idle" \/ task'[t].op = op
         /\ t = Receiver => task'[t].pc = "answer" /\ task'[t].op = op /\ task'[t].reply = r
<1>1. CASE t = Receiver
  <2>. DEFINE x == [Idle EXCEPT !.pc = "answer", !.op = op, !.reply = r]
  <2>1. task' = Put(task, t, x)
    BY <1>1 DEF Answer, Put
  <2>2. x.pc = "answer" /\ x.op = op /\ x.reply = r
    BY DEF Idle
  <2>. HIDE DEF x
  <2>. QED BY <2>1, <2>2 DEF Put, TasksOK
<1>2. CASE t # Receiver
  <2>1. task' = Put(task, t, Idle)
    BY <1>2 DEF Answer, Put
  <2>. QED BY <1>2, <2>1, IdleOK DEF Put, TasksOK
<1>. QED BY <1>1, <1>2

\* Task t goes on with op or is done.
Works(tk, tk2, t, op) ==
  /\ \A u \in Tasks \ {t} : tk2[u] = tk[u]
  /\ tk2[t].pc = "idle" \/ tk2[t].op = op

LEMMA ReplyWorks ==
  ASSUME TasksOK(task), NEW t \in Tasks, NEW op,
         \/ \E ok, id, cost : Reply(t, op, ok, id, cost)
         \/ \E r : Answer(t, op, r)
         \/ \E pc : Goto(t, op, pc)
  PROVE  Works(task, task', t, op)
<1>1. ASSUME NEW ok, NEW id, NEW cost, Reply(t, op, ok, id, cost) PROVE Works(task, task', t, op)
  BY <1>1, ReplyTells DEF Works
<1>2. ASSUME NEW r, Answer(t, op, r) PROVE Works(task, task', t, op)
  BY <1>2, AnswerTells DEF Works
<1>3. ASSUME NEW pc, Goto(t, op, pc) PROVE Works(task, task', t, op)
  BY <1>3, GotoStake DEF Works
<1>. QED BY <1>1, <1>2, <1>3

LEMMA HandleWorks ==
  ASSUME TasksOK(task), NEW t \in Tasks, NEW op, Handle(t, op)
  PROVE  Works(task, task', t, op) /\ task[t].pc = "idle"
<1>1. CASE Charge(t, op)
  BY <1>1, ReplyWorks DEF Charge
<1>2. CASE Start(t, op) \/ Stop(t, op) \/ Delete(t, op) \/ DetachVolume(t, op)
  BY <1>2, ReplyWorks DEF Start, Stop, Delete, DetachVolume, Begins
<1>3. CASE VolumeDelete(t, op) \/ AttachVolume(t, op) \/ NicAttach(t, op)
  BY <1>3, ReplyWorks DEF VolumeDelete, AttachVolume, NicAttach, Begins
<1>4. CASE SnapshotCreate(t, op) \/ SnapshotDelete(t, op) \/ SnapshotRestore(t, op)
  BY <1>4, ReplyWorks DEF SnapshotCreate, SnapshotDelete, SnapshotRestore, Begins
<1>5. CASE NetworkCreate(t, op) \/ NetworkDelete(t, op) \/ NicDetach(t, op)
  BY <1>5, ReplyWorks DEF NetworkCreate, NetworkDelete, NicDetach, Begins
<1>6. CASE SgCreate(t, op) \/ SgDelete(t, op) \/ LbCreate(t, op) \/ LbDelete(t, op)
  BY <1>6, ReplyWorks DEF SgCreate, SgDelete, LbCreate, LbDelete, Begins
<1>. QED BY <1>1, <1>2, <1>3, <1>4, <1>5, <1>6 DEF Handle

LEMMA ProceedWorks ==
  ASSUME TasksOK(task), NEW t \in Tasks, Proceed(t)
  PROVE  Works(task, task', t, task[t].op) /\ task[t].pc # "idle"
<1>0. PICK op : op = task[t].op
  OBVIOUS
<1>1. task[t].pc # "idle"
  BY ProceedBusy
<1>2. CASE Create(t) \/ VolumeCreate(t) \/ VolumeDelete2(t) \/ AttachVolume2(t)
  BY <1>0, <1>1, <1>2, ReplyWorks DEF Create, VolumeCreate, VolumeDelete2, AttachVolume2
<1>3. CASE NicAttach2(t) \/ Settle(t)
  BY <1>0, <1>1, <1>3, ReplyWorks DEF NicAttach2, Settle
<1>. QED BY <1>2, <1>3 DEF Proceed

\* Callers stay what they are.
LEMMA CallersKeep ==
  ASSUME CallersOK(task), NEW t \in Tasks, NEW op, Works(task, task', t, op),
         t \in Task => op.kind \notin Harmful /\ (op.kind = "create" => op.cost # 0)
  PROVE  CallersOK(task')
<1>. SUFFICES ASSUME NEW u \in Task, task'[u].pc # "idle"
              PROVE  task'[u].op.kind \notin Harmful /\ (task'[u].op.kind = "create" => task'[u].op.cost # 0)
  BY DEF CallersOK
<1>1. CASE u = t
  BY <1>1 DEF Works
<1>2. CASE u # t
  BY <1>2 DEF Works, CallersOK, Tasks
<1>. QED BY <1>1, <1>2

---------------------------------------------------------------------------
(* An answer and what stands when it is given. *)

\* How create goes on with a good answer, and that it fails with another.
LEMMA CreatedFields ==
  ASSUME NEW c, ClusterOK(c), c.pc \in Creation, NEW r, NEW d, d = Goes(c, r), Hopeful(d)
  PROVE  /\ r.ok /\ d.prefix_len = c.prefix_len
         /\ c.pc = "network" => d.pc = "vm" /\ d.network = r.id /\ d.nodes = c.nodes
         /\ c.pc = "vm" => d.pc = "nic" /\ d.vm = r.id /\ d.network = c.network /\ d.nodes = c.nodes
         /\ c.pc = "nic" => /\ d.pc = "start" /\ d.network = c.network
                           /\ d.nodes = Append(c.nodes, [vm |-> c.vm, nic |-> r.id, ip |-> r.ip])
         /\ c.pc = "start" => d.pc \in {"vm", "lb"} /\ d.network = c.network /\ d.nodes = c.nodes
         /\ c.pc = "lb" => d.pc = "up" /\ d.lb = r.id /\ d.network = c.network /\ d.nodes = c.nodes
<1>0. /\ DOMAIN c = {"pc", "i", "prefix_len", "network", "lb", "vm", "nodes", "err"}
      /\ c.pc \in {"network", "vm", "nic", "start", "lb"} /\ d = Created(c, r)
  BY DEF ClusterOK, Creation, Goes
<1>1. r.ok
  <2>. SUFFICES ASSUME ~r.ok PROVE FALSE
    OBVIOUS
  <2>1. d.pc = "failed"
    BY <1>0 DEF Created, Failed
  <2>. QED BY <2>1 DEF Hopeful
<1>2. CASE c.pc = "network"
  <2>1. d = [c EXCEPT !.pc = "vm", !.network = r.id]
    BY <1>0, <1>1, <1>2 DEF Created
  <2>. QED BY <1>0, <1>1, <1>2, <2>1
<1>3. CASE c.pc = "vm"
  <2>1. d = [c EXCEPT !.pc = "nic", !.vm = r.id]
    BY <1>0, <1>1, <1>3 DEF Created
  <2>. QED BY <1>0, <1>1, <1>3, <2>1
<1>4. CASE c.pc = "nic"
  <2>0. PICK nodes : nodes = Append(c.nodes, [vm |-> c.vm, nic |-> r.id, ip |-> r.ip])
    OBVIOUS
  <2>1. d = [c EXCEPT !.pc = "start", !.nodes = nodes]
    BY <1>0, <1>1, <1>4, <2>0 DEF Created
  <2>2. d.pc = "start" /\ d.network = c.network /\ d.nodes = nodes /\ d.prefix_len = c.prefix_len
    BY <1>0, <2>1
  <2>. QED BY <1>1, <1>4, <2>0, <2>2
<1>5. CASE c.pc = "start"
  <2>1. d = NextNode(c)
    BY <1>0, <1>1, <1>5 DEF Created
  <2>2. CASE c.i <= Workers
    <3>1. d = [c EXCEPT !.i = c.i + 1, !.pc = "vm"]
      BY <2>1, <2>2 DEF NextNode
    <3>. QED BY <1>0, <1>1, <1>5, <3>1
  <2>3. CASE ~(c.i <= Workers)
    <3>1. d = [c EXCEPT !.pc = "lb"]
      BY <2>1, <2>3 DEF NextNode
    <3>. QED BY <1>0, <1>1, <1>5, <3>1
  <2>. QED BY <2>2, <2>3
<1>6. CASE c.pc = "lb"
  <2>1. d = [c EXCEPT !.pc = "up", !.lb = r.id]
    BY <1>0, <1>1, <1>6 DEF Created
  <2>. QED BY <1>0, <1>1, <1>6, <2>1
<1>. QED BY <1>0, <1>2, <1>3, <1>4, <1>5, <1>6

LEMMA DestroyedWell ==
  ASSUME NEW c, ClusterOK(c), c.pc \in Destruction, NEW r, NEW d, d = Goes(c, r), Hopeful(d)
  PROVE  r.ok \/ c.pc = "stop"
<1>1. d = Destroyed(c, r)
  BY DEF Goes, Creation, Destruction
<1>2. d.err = (c.err \/ CountsAsError(c, r))
  BY <1>1, DestroyedFields
<1>. QED BY <1>2 DEF Hopeful, CountsAsError

\* The beginnings of the cluster at its various steps.
LEMMA Firsts ==
  ASSUME NEW c
  PROVE  /\ c.pc \notin {"detach", "stop", "delete", "del_network", "gone"} => FirstVm(c) = 1 /\ FirstNic(c) = 1
         /\ c.pc = "detach" => FirstVm(c) = c.i /\ FirstNic(c) = c.i
         /\ c.pc \in {"stop", "delete"} => FirstVm(c) = c.i /\ FirstNic(c) = c.i + 1
         /\ c.pc \in {"del_network", "gone"} => FirstVm(c) = Len(c.nodes) + 1 /\ FirstNic(c) = Len(c.nodes) + 1
  BY DEF FirstVm, FirstNic

\* The same nodes in the same network, as far as Stands looks at them.
LEMMA SameNodes ==
  ASSUME NEW c, NEW d, d.nodes = c.nodes, d.prefix_len = c.prefix_len
  PROVE  /\ Plan(d) = Plan(c) /\ NodesOK(d) = NodesOK(c)
         /\ \A a : VmsFrom(d, a) = VmsFrom(c, a)
         /\ \A sl, a, W : VmsStand(d, sl, a, W) = VmsStand(c, sl, a, W)
         /\ d.network = c.network => \A s : NetworkStands(d, s) = NetworkStands(c, s)
         /\ d.network = c.network => \A s, b : NicsStand(d, s, b) = NicsStand(c, s, b)
<1>1. Plan(d) = Plan(c)
  BY DEF Plan
<1>2. NodesOK(d) = NodesOK(c)
  BY <1>1 DEF NodesOK
<1>3. \A a : VmsFrom(d, a) = VmsFrom(c, a)
  BY DEF VmsFrom
<1>4. \A sl, a, W : VmsStand(d, sl, a, W) = VmsStand(c, sl, a, W)
  BY <1>3 DEF VmsStand
<1>5. ASSUME d.network = c.network, NEW s PROVE NetworkStands(d, s) = NetworkStands(c, s)
  BY <1>1, <1>5 DEF NetworkStands
<1>6. ASSUME d.network = c.network, NEW s, NEW b PROVE NicsStand(d, s, b) = NicsStand(c, s, b)
  BY <1>1, <1>6 DEF NicsStand
<1>. QED BY <1>1, <1>2, <1>3, <1>4, <1>5, <1>6

LEMMA NetworkMade ==
  ASSUME NEW c, ClusterOK(c), c.pc = "network", NEW sl, NEW s, Stands(c, sl, s), NEW r,
         r.ok => r.id \in DOMAIN s.networks /\ s.networks[r.id] = Plan(c)
  PROVE  Promise(Goes(c, r), sl, s)
<1>0. PICK d : d = Goes(c, r)
  OBVIOUS
<1>. SUFFICES ASSUME Hopeful(d) PROVE Stands(d, sl, s)
  BY <1>0 DEF Promise
<1>1. c.pc \in Creation /\ Len(c.nodes) = 0
  BY DEF Creation, ClusterOK
<1>2. r.ok /\ d.prefix_len = c.prefix_len /\ d.pc = "vm" /\ d.network = r.id /\ d.nodes = c.nodes
  BY <1>0, <1>1, CreatedFields
<1>3. /\ Plan(d) = Plan(c) /\ NodesOK(d) /\ VmsStand(d, sl, 1, {})
  <2>1. NodesOK(c) /\ VmsStand(c, sl, 1, {})
    BY Firsts DEF Stands
  <2>. QED BY <1>2, <2>1, SameNodes
<1>4. NicsStand(d, s, 1)
  <2>1. DOMAIN s.nics = {c.nodes[j].nic : j \in 1..0}
    BY <1>1, Firsts DEF Stands, NicsStand
  <2>2. 1..0 = {}
    OBVIOUS
  <2>. QED BY <1>1, <1>2, <2>1, <2>2 DEF NicsStand
<1>5. NetworkStands(d, s)
  BY <1>2, <1>3 DEF NetworkStands
<1>6. FirstVm(d) = 1 /\ FirstNic(d) = 1
  BY <1>2, Firsts
<1>. QED BY <1>2, <1>3, <1>4, <1>5, <1>6 DEF Stands

LEMMA VmMade ==
  ASSUME NEW c, ClusterOK(c), c.pc = "vm", NEW sl, NEW sl2, NEW s, Stands(c, sl, s), NEW r,
         r.ok => r.id \notin Unpriced(sl) /\ Unpriced(sl2) = Unpriced(sl) \cup {r.id}
  PROVE  Promise(Goes(c, r), sl2, s)
<1>0. PICK d : d = Goes(c, r)
  OBVIOUS
<1>. SUFFICES ASSUME Hopeful(d) PROVE Stands(d, sl2, s)
  BY <1>0 DEF Promise
<1>1. c.pc \in Creation /\ c.pc \in Existing
  BY DEF Creation, Existing
<1>2. /\ r.ok /\ d.prefix_len = c.prefix_len /\ d.pc = "nic" /\ d.vm = r.id /\ d.network = c.network
      /\ d.nodes = c.nodes
  BY <1>0, <1>1, CreatedFields
<1>3. NodesOK(c) /\ VmsStand(c, sl, 1, {}) /\ NicsStand(c, s, 1) /\ NetworkStands(c, s)
  BY <1>1, Firsts DEF Stands
<1>4. Unpriced(sl) = VmsFrom(c, 1)
  BY <1>3 DEF VmsStand
<1>5. NodesOK(d) /\ VmsFrom(d, 1) = VmsFrom(c, 1) /\ NicsStand(d, s, 1) /\ NetworkStands(d, s)
  BY <1>2, <1>3, SameNodes
<1>6. d.vm \notin VmsFrom(d, 1) /\ VmsStand(d, sl2, 1, {d.vm})
  BY <1>2, <1>4, <1>5 DEF VmsStand
<1>7. FirstVm(d) = 1 /\ FirstNic(d) = 1
  BY <1>2, Firsts
<1>. QED BY <1>2, <1>5, <1>6, <1>7 DEF Stands

LEMMA Started ==
  ASSUME NEW c, ClusterOK(c), c.pc = "start", NEW sl, NEW s, Stands(c, sl, s), NEW r
  PROVE  Promise(Goes(c, r), sl, s)
<1>0. PICK d : d = Goes(c, r)
  OBVIOUS
<1>. SUFFICES ASSUME Hopeful(d) PROVE Stands(d, sl, s)
  BY <1>0 DEF Promise
<1>1. c.pc \in Creation /\ c.pc \in Existing
  BY DEF Creation, Existing
<1>2. d.prefix_len = c.prefix_len /\ d.pc \in {"vm", "lb"} /\ d.network = c.network /\ d.nodes = c.nodes
  BY <1>0, <1>1, CreatedFields
<1>3. NodesOK(c) /\ VmsStand(c, sl, 1, {}) /\ NicsStand(c, s, 1) /\ NetworkStands(c, s)
  BY <1>1, Firsts DEF Stands
<1>4. NodesOK(d) /\ VmsStand(d, sl, 1, {}) /\ NicsStand(d, s, 1) /\ NetworkStands(d, s)
  BY <1>2, <1>3, SameNodes
<1>5. FirstVm(d) = 1 /\ FirstNic(d) = 1
  BY <1>2, Firsts
<1>. QED BY <1>2, <1>4, <1>5 DEF Stands

LEMMA LbMade ==
  ASSUME NEW c, ClusterOK(c), c.pc = "lb", NEW sl, NEW s, Stands(c, sl, s), NEW r,
         r.ok => r.id \in DOMAIN s.lbs /\ s.lbs[r.id].backends = WorkersOf(c)
  PROVE  Promise(Goes(c, r), sl, s)
<1>0. PICK d : d = Goes(c, r)
  OBVIOUS
<1>. SUFFICES ASSUME Hopeful(d) PROVE Stands(d, sl, s)
  BY <1>0 DEF Promise
<1>1. c.pc \in Creation /\ c.pc \in Existing
  BY DEF Creation, Existing
<1>2. /\ r.ok /\ d.prefix_len = c.prefix_len /\ d.pc = "up" /\ d.lb = r.id /\ d.network = c.network
      /\ d.nodes = c.nodes
  BY <1>0, <1>1, CreatedFields
<1>3. NodesOK(c) /\ VmsStand(c, sl, 1, {}) /\ NicsStand(c, s, 1) /\ NetworkStands(c, s)
  BY <1>1, Firsts DEF Stands
<1>4. NodesOK(d) /\ VmsStand(d, sl, 1, {}) /\ NicsStand(d, s, 1) /\ NetworkStands(d, s)
  BY <1>2, <1>3, SameNodes
<1>5. FirstVm(d) = 1 /\ FirstNic(d) = 1
  BY <1>2, Firsts
<1>6. LbStands(d, s)
  BY <1>2 DEF LbStands, WorkersOf
<1>. QED BY <1>2, <1>4, <1>5, <1>6 DEF Stands

FirstHosts(P, L) == {NthHost(P, j) : j \in 1..L}

\* With the first L host addresses taken, the allocator gives the next one.
LEMMA NextAddress ==
  ASSUME NEW s, NetOK(s), NEW n \in DOMAIN s.networks, NEW P, s.networks[n] = P, NEW L \in Nat,
         FreeHosts(s, n) # {}, DOMAIN s.used_ips[n] = FirstHosts(P, L)
  PROVE  Chosen(s, n, NoAddr) = NthHost(P, L + 1)
<1>0. PICK b, cap : b = P.base /\ cap = Capacity(P)
  OBVIOUS
<1>1. Block(P) /\ P \in Cidr4
  BY DEF NetOK, NetShape, Block
<1>2. b \in Nat /\ Addr \subseteq Nat
  BY <1>0, <1>1 DEF Cidr4, Addr
<1>3. cap \in Nat
  <2>1. P.prefix_len \in 0..AddrBits
    BY <1>1 DEF Cidr4
  <2>2. AddrBits - P.prefix_len \in 0..AddrBits
    BY <2>1, NetworkAssumption
  <2>3. BlockSize(P) \in Nat
    BY <2>2, PowersAssumption DEF BlockSize
  <2>. QED BY <1>0, <2>3, MaxZero DEF Capacity
<1>4. FreeHosts(s, n) = {b + x : x \in 1..cap} \ {b + j : j \in 1..L}
  BY <1>0 DEF FreeHosts, FirstHosts, Hosts, NthHost
<1>5. FreeHosts(s, n) \subseteq Nat
  BY <1>1, <1>2 DEF FreeHosts, Block
<1>6. PICK m : m = Min(FreeHosts(s, n))
  OBVIOUS
<1>7. m \in FreeHosts(s, n) /\ \A y \in FreeHosts(s, n) : m <= y
  BY <1>5, <1>6, MinLeast
<1>8. PICK x \in 1..cap : m = b + x /\ m \notin {b + j : j \in 1..L}
  BY <1>4, <1>7
<1>9. x > L
  BY <1>2, <1>8
<1>10. L + 1 \in 1..cap /\ \A j \in 1..L : b + (L + 1) # b + j
  BY <1>2, <1>3, <1>8, <1>9
<1>11. b + (L + 1) \in FreeHosts(s, n)
  BY <1>4, <1>10
<1>12. m <= b + (L + 1)
  BY <1>7, <1>11
<1>13. m = b + (L + 1)
  BY <1>2, <1>8, <1>9, <1>12
<1>. QED BY <1>0, <1>6, <1>13 DEF Chosen, NthHost

LEMMA NicOfNode ==
  ASSUME NEW c, NEW s, NEW b, NicsStand(c, s, b), NEW j \in b..Len(c.nodes), NEW i, i = c.nodes[j].nic
  PROVE  /\ i \in DOMAIN s.nics /\ s.nics[i].network = c.network /\ s.nics[i].vm = c.nodes[j].vm
         /\ s.nics[i].ip = NthHost(Plan(c), j)
<1>0. PICK n, v, a : n = c.network /\ v = c.nodes[j].vm /\ a = NthHost(Plan(c), j)
  OBVIOUS
<1>1. i \in DOMAIN s.nics
  BY DEF NicsStand
<1>2. s.nics[i] = [network |-> n, vm |-> v, ip |-> a]
  BY <1>0 DEF NicsStand
<1>3. s.nics[i].network = n /\ s.nics[i].vm = v /\ s.nics[i].ip = a
  BY <1>2
<1>. QED BY <1>0, <1>1, <1>3

\* A network's used addresses are those of its NICs.
LEMMA UsedByNodes ==
  ASSUME NEW c, NEW s, NetOK(s), NetworkStands(c, s), NicsStand(c, s, 1),
         NEW n, n = c.network, NEW P, P = Plan(c), NEW L, L = Len(c.nodes)
  PROVE  DOMAIN s.used_ips[n] = FirstHosts(P, L)
<1>0. PICK U : U = DOMAIN s.used_ips[n]
  OBVIOUS
<1>1. n \in DOMAIN s.used_ips
  BY <1>0 DEF NetworkStands, NetOK, IsNetworkStore
<1>2. ASSUME NEW a \in U PROVE a \in FirstHosts(P, L)
  <2>1. PICK i : i = s.used_ips[n][a]
    OBVIOUS
  <2>2. i \in DOMAIN s.nics /\ s.nics[i].ip = a
    BY <1>0, <1>1, <1>2, <2>1 DEF NetOK, NetworkSound
  <2>3. PICK j \in 1..L : i = c.nodes[j].nic
    BY <2>2 DEF NicsStand
  <2>4. s.nics[i].ip = NthHost(P, j)
    BY <2>3, NicOfNode
  <2>. QED BY <2>2, <2>4 DEF FirstHosts
<1>3. ASSUME NEW j \in 1..L PROVE NthHost(P, j) \in U
  <2>1. PICK i : i = c.nodes[j].nic
    OBVIOUS
  <2>2. i \in DOMAIN s.nics /\ s.nics[i].network = n /\ s.nics[i].ip = NthHost(P, j)
    BY <1>0, <2>1, NicOfNode
  <2>. QED BY <1>0, <2>2 DEF NetOK, NetworkSound
<1>. QED BY <1>0, <1>2, <1>3 DEF FirstHosts

LEMMA NicMade ==
  ASSUME NEW c, ClusterOK(c), c.pc = "nic", NEW sl, NEW s, NetOK(s), Stands(c, sl, s),
         MayAttachNic(s, c.network, NoAddr), NEW h, h = AttachNic(s, c.network, c.vm, NoAddr),
         NEW r, r.id = NextNicId(s, c.network), r.ip = h.nics[r.id].ip
  PROVE  Promise(Goes(c, r), sl, h)
<1>0. PICK d : d = Goes(c, r)
  OBVIOUS
<1>. SUFFICES ASSUME Hopeful(d) PROVE Stands(d, sl, h)
  BY <1>0 DEF Promise
<1>1. c.pc \in Creation /\ c.pc \in Existing
  BY DEF Creation, Existing
<1>2. PICK n, id, addr, nic, L, node :
        /\ n = c.network /\ id = NextNicId(s, n) /\ addr = Chosen(s, n, NoAddr)
        /\ nic = [network |-> n, vm |-> c.vm, ip |-> addr] /\ L = Len(c.nodes)
        /\ node = [vm |-> c.vm, nic |-> r.id, ip |-> r.ip]
  OBVIOUS
<1>3. d.prefix_len = c.prefix_len /\ d.pc = "start" /\ d.network = c.network /\ d.nodes = Append(c.nodes, node)
  BY <1>0, <1>1, <1>2, CreatedFields
<1>4. /\ NodesOK(c) /\ VmsStand(c, sl, 1, {c.vm}) /\ NicsStand(c, s, 1) /\ NetworkStands(c, s)
      /\ c.vm \notin VmsFrom(c, 1)
  BY <1>1, Firsts DEF Stands
<1>5. c.nodes \in Seq(Node) /\ L \in Nat
  BY <1>2 DEF ClusterOK
<1>6. addr = NthHost(Plan(c), L + 1)
  <2>1. n \in DOMAIN s.networks /\ s.networks[n] = Plan(c) /\ FreeHosts(s, n) # {}
    BY <1>2, <1>4 DEF NetworkStands, MayAttachNic
  <2>2. PICK P : P = Plan(c)
    OBVIOUS
  <2>3. DOMAIN s.used_ips[n] = FirstHosts(P, L)
    <3>1. n = c.network /\ L = Len(c.nodes)
      BY <1>2
    <3>. QED BY <1>4, <2>2, <3>1, UsedByNodes
  <2>. QED BY <1>2, <1>5, <2>1, <2>2, <2>3, NextAddress
<1>7. id \notin DOMAIN s.nics
  <2>1. id = <<n, s.next_nic[n] + 1>> /\ s.next_nic[n] \in Nat
    BY <1>2, <1>4 DEF NextNicId, NetworkStands, NetOK, IsNetworkStore
  <2>. SUFFICES ASSUME id \in DOMAIN s.nics PROVE FALSE
    OBVIOUS
  <2>2. id[2] <= s.next_nic[id[1]]
    BY DEF NetOK, NetShape
  <2>. QED BY <2>1, <2>2
<1>8. h.nics = Insert(s.nics, id, nic) /\ h.networks = s.networks
  BY <1>2 DEF AttachNic, NetOK, IsNetworkStore
<1>9. DOMAIN h.nics = DOMAIN s.nics \cup {id} /\ h.nics[id] = nic /\ \A i \in DOMAIN s.nics : h.nics[i] = s.nics[i]
  BY <1>7, <1>8 DEF Insert
<1>10. node.vm = c.vm /\ node.nic = id /\ node.ip = addr
  BY <1>2, <1>9
<1>11. /\ Len(d.nodes) = L + 1 /\ d.nodes[L + 1] = node
       /\ \A j \in 1..L : d.nodes[j] = c.nodes[j]
  BY <1>2, <1>3, <1>5
<1>12. 1..(L + 1) = (1..L) \cup {L + 1} /\ L + 1 \notin 1..L /\ L = Len(c.nodes)
  BY <1>2, <1>5
<1>13. Plan(d) = Plan(c)
  BY <1>3 DEF Plan
<1>14. NodesOK(d)
  <2>1. \A j \in 1..(L + 1) : d.nodes[j].ip = NthHost(Plan(d), j)
    BY <1>4, <1>6, <1>10, <1>11, <1>12, <1>13 DEF NodesOK
  <2>2. \A j \in 1..L : d.nodes[j].vm \in VmsFrom(c, 1)
    BY <1>11, <1>12 DEF VmsFrom
  <2>3. ASSUME NEW j \in 1..(L + 1), NEW k \in 1..(L + 1), d.nodes[j].vm = d.nodes[k].vm PROVE j = k
    <3>1. CASE j \in 1..L /\ k \in 1..L
      BY <1>4, <1>11, <1>12, <2>3, <3>1 DEF NodesOK
    <3>2. CASE j = L + 1 /\ k \in 1..L
      BY <1>4, <1>10, <1>11, <2>2, <2>3, <3>2
    <3>3. CASE j \in 1..L /\ k = L + 1
      BY <1>4, <1>10, <1>11, <2>2, <2>3, <3>3
    <3>4. CASE j = L + 1 /\ k = L + 1
      BY <3>4
    <3>. QED BY <1>12, <3>1, <3>2, <3>3, <3>4
  <2>. QED BY <1>11, <2>1, <2>3 DEF NodesOK
<1>15. VmsStand(d, sl, 1, {})
  <2>1. VmsFrom(d, 1) = VmsFrom(c, 1) \cup {c.vm}
    BY <1>10, <1>11, <1>12 DEF VmsFrom
  <2>. QED BY <1>4, <2>1 DEF VmsStand
<1>16. NicsStand(d, h, 1)
  <2>1. DOMAIN h.nics = {d.nodes[j].nic : j \in 1..(L + 1)}
    <3>1. DOMAIN s.nics = {c.nodes[j].nic : j \in 1..L}
      BY <1>4, <1>12 DEF NicsStand
    <3>2. DOMAIN s.nics = {d.nodes[j].nic : j \in 1..L}
      BY <1>11, <3>1
    <3>3. DOMAIN h.nics = DOMAIN s.nics \cup {d.nodes[L + 1].nic}
      BY <1>9, <1>10, <1>11
    <3>. QED BY <1>12, <3>2, <3>3
  <2>2. nic = [network |-> d.network, vm |-> d.nodes[L + 1].vm, ip |-> NthHost(Plan(d), L + 1)]
    BY <1>2, <1>3, <1>6, <1>10, <1>11, <1>13
  <2>3. ASSUME NEW j \in 1..L
        PROVE  h.nics[d.nodes[j].nic] = [network |-> d.network, vm |-> d.nodes[j].vm, ip |-> NthHost(Plan(d), j)]
    <3>1. c.nodes[j].nic \in DOMAIN s.nics
      BY <1>4, <1>12 DEF NicsStand
    <3>2. s.nics[c.nodes[j].nic] = [network |-> c.network, vm |-> c.nodes[j].vm, ip |-> NthHost(Plan(c), j)]
      BY <1>4, <1>12 DEF NicsStand
    <3>. QED BY <1>3, <1>9, <1>11, <1>13, <3>1, <3>2
  <2>4. h.nics[d.nodes[L + 1].nic] = nic
    BY <1>9, <1>10, <1>11
  <2>5. \A j \in 1..(L + 1) :
          h.nics[d.nodes[j].nic] = [network |-> d.network, vm |-> d.nodes[j].vm, ip |-> NthHost(Plan(d), j)]
    BY <1>12, <2>2, <2>3, <2>4
  <2>. QED BY <1>11, <2>1, <2>5 DEF NicsStand
<1>17. NetworkStands(d, h)
  BY <1>3, <1>4, <1>8, <1>13 DEF NetworkStands
<1>18. FirstVm(d) = 1 /\ FirstNic(d) = 1
  BY <1>3, Firsts
<1>. QED BY <1>3, <1>14, <1>15, <1>16, <1>17, <1>18 DEF Stands

\* What destroy knows of a cluster on the way.
LEMMA Destroying ==
  ASSUME NEW c, ClusterOK(c), c.pc \in Destruction, NEW r, NEW d, d = Goes(c, r)
  PROVE  /\ d.prefix_len = c.prefix_len /\ d.network = c.network /\ d.nodes = c.nodes /\ d.lb = c.lb
         /\ \/ c.pc = "del_lb" /\ d.pc = "detach" /\ d.i = 1
            \/ c.pc = "detach" /\ d.pc = "stop" /\ d.i = c.i
            \/ c.pc = "stop" /\ d.pc = "delete" /\ d.i = c.i
            \/ c.pc = "delete" /\ d.pc = "detach" /\ d.i = c.i + 1
            \/ c.pc = "delete" /\ d.pc = "del_network" /\ c.i = Workers + 1
            \/ c.pc = "del_network" /\ d.pc \in {"failed", "gone"}
<1>1. d = Destroyed(c, r)
  BY DEF Goes, Creation, Destruction
<1>2. c.i \in 1..(Workers + 1) /\ Workers \in Nat
  BY K8sAssumption DEF ClusterOK
<1>3. ~(c.i <= Workers) => c.i = Workers + 1
  BY <1>2
<1>. QED BY <1>1, <1>3, DestroyedFields

LEMMA LbGone ==
  ASSUME NEW c, ClusterOK(c), c.pc = "del_lb", NEW sl, NEW s, IsNetworkStore(s), Stands(c, sl, s),
         NEW r, NEW h, r.ok => h = DeleteLb(s, c.lb)
  PROVE  Promise(Goes(c, r), sl, h)
<1>0. PICK d : d = Goes(c, r)
  OBVIOUS
<1>. SUFFICES ASSUME Hopeful(d) PROVE Stands(d, sl, h)
  BY <1>0 DEF Promise
<1>1. c.pc \in Destruction /\ c.pc \in Existing
  BY DEF Destruction, Existing
<1>2. /\ d.prefix_len = c.prefix_len /\ d.network = c.network /\ d.nodes = c.nodes /\ d.lb = c.lb
      /\ d.pc = "detach" /\ d.i = 1 /\ r.ok
  BY <1>0, <1>1, Destroying, DestroyedWell
<1>3. NodesOK(c) /\ VmsStand(c, sl, 1, {}) /\ NicsStand(c, s, 1) /\ NetworkStands(c, s) /\ LbStands(c, s)
  BY <1>1, Firsts DEF Stands
<1>4. h.lbs = Remove(s.lbs, c.lb) /\ h.nics = s.nics /\ h.networks = s.networks /\ h.next_lb = s.next_lb
  BY <1>2 DEF DeleteLb, IsNetworkStore
<1>5. c.lb \in 1..h.next_lb /\ c.lb \notin DOMAIN h.lbs
  BY <1>3, <1>4 DEF LbStands, IsNetworkStore, Remove, Restrict
<1>6. NodesOK(d) /\ VmsStand(d, sl, 1, {}) /\ NicsStand(d, s, 1) /\ NetworkStands(d, s)
  BY <1>2, <1>3, SameNodes
<1>7. NicsStand(d, h, 1) /\ NetworkStands(d, h)
  BY <1>4, <1>6 DEF NicsStand, NetworkStands
<1>8. FirstVm(d) = 1 /\ FirstNic(d) = 1
  BY <1>2, Firsts
<1>. QED BY <1>2, <1>5, <1>6, <1>7, <1>8 DEF Stands

LEMMA PlanBase ==
  ASSUME NEW c, c.prefix_len \in Nat, Parses(c.prefix_len)
  PROVE  Plan(c).base \in Nat
<1>1. 0 \in Addr
  BY PowersAssumption, NetworkAssumption DEF Addr
<1>2. Block(Plan(c))
  BY <1>1, ParseBlock DEF Plan
<1>. QED BY <1>2 DEF Block, Cidr4, Addr

\* One NIC less.
LEMMA NicsLess ==
  ASSUME NEW c, NEW s, IsNetworkStore(s), Plan(c).base \in Nat, NEW i \in Nat, NicsStand(c, s, i),
         i <= Len(c.nodes), Len(c.nodes) \in Nat, NEW h, h = DetachNic(s, c.nodes[i].nic)
  PROVE  NicsStand(c, h, i + 1) /\ h.networks = s.networks /\ h.lbs = s.lbs /\ h.next_lb = s.next_lb
<1>0. PICK x, L : x = c.nodes[i].nic /\ L = Len(c.nodes)
  OBVIOUS
<1>1. x \in DOMAIN s.nics
  BY <1>0, NicOfNode
<1>2. h.nics = Remove(s.nics, x) /\ h.networks = s.networks /\ h.lbs = s.lbs /\ h.next_lb = s.next_lb
  BY <1>0, <1>1 DEF DetachNic, IsNetworkStore
<1>3. DOMAIN h.nics = DOMAIN s.nics \ {x} /\ \A k \in DOMAIN s.nics \ {x} : h.nics[k] = s.nics[k]
  BY <1>2 DEF Remove, Restrict
<1>5. ASSUME NEW j \in (i + 1)..L PROVE c.nodes[j].nic # x /\ j \in i..L
  <2>1. j \in i..L /\ i \in i..L /\ j \in Nat /\ j # i
    BY <1>0
  <2>2. s.nics[c.nodes[j].nic].ip = NthHost(Plan(c), j) /\ s.nics[x].ip = NthHost(Plan(c), i)
    BY <1>0, <2>1, NicOfNode
  <2>3. NthHost(Plan(c), j) # NthHost(Plan(c), i)
    BY <2>1 DEF NthHost
  <2>. QED BY <2>1, <2>2, <2>3
<1>6. \A j \in i..L : j = i \/ j \in (i + 1)..L
  BY <1>0
<1>7. DOMAIN s.nics = {c.nodes[j].nic : j \in i..L}
  BY <1>0 DEF NicsStand
<1>8. DOMAIN h.nics = {c.nodes[j].nic : j \in (i + 1)..L}
  BY <1>0, <1>3, <1>5, <1>6, <1>7
<1>9. ASSUME NEW j \in (i + 1)..L
      PROVE  h.nics[c.nodes[j].nic] = [network |-> c.network, vm |-> c.nodes[j].vm, ip |-> NthHost(Plan(c), j)]
  <2>1. j \in i..L /\ c.nodes[j].nic \in DOMAIN s.nics \ {x}
    BY <1>5, <1>7
  <2>2. s.nics[c.nodes[j].nic] = [network |-> c.network, vm |-> c.nodes[j].vm, ip |-> NthHost(Plan(c), j)]
    BY <1>0, <2>1 DEF NicsStand
  <2>. QED BY <1>3, <2>1, <2>2
<1>. QED BY <1>0, <1>2, <1>8, <1>9 DEF NicsStand

LEMMA NicGone ==
  ASSUME NEW c, ClusterOK(c), c.pc = "detach", NEW sl, NEW s, IsNetworkStore(s), Stands(c, sl, s),
         NEW r, NEW h, r.ok => h = DetachNic(s, c.nodes[c.i].nic)
  PROVE  Promise(Goes(c, r), sl, h)
<1>0. PICK d : d = Goes(c, r)
  OBVIOUS
<1>. SUFFICES ASSUME Hopeful(d) PROVE Stands(d, sl, h)
  BY <1>0 DEF Promise
<1>1. c.pc \in Destruction /\ c.pc \in Existing
  BY DEF Destruction, Existing
<1>2. /\ d.prefix_len = c.prefix_len /\ d.network = c.network /\ d.nodes = c.nodes /\ d.lb = c.lb
      /\ d.pc = "stop" /\ d.i = c.i /\ r.ok
  BY <1>0, <1>1, Destroying, DestroyedWell
<1>3. /\ NodesOK(c) /\ VmsStand(c, sl, c.i, {}) /\ NicsStand(c, s, c.i) /\ NetworkStands(c, s)
      /\ c.lb \in 1..s.next_lb /\ c.lb \notin DOMAIN s.lbs
  BY <1>1, Firsts DEF Stands
<1>4. /\ c.i \in Nat \ {0} /\ c.i <= Len(c.nodes) /\ Len(c.nodes) \in Nat
      /\ c.prefix_len \in Nat /\ Parses(c.prefix_len)
  BY <1>1, K8sAssumption DEF ClusterOK, Complete
<1>5. NicsStand(c, h, c.i + 1) /\ h.networks = s.networks /\ h.lbs = s.lbs /\ h.next_lb = s.next_lb
  <2>1. Plan(c).base \in Nat
    BY <1>4, PlanBase
  <2>2. h = DetachNic(s, c.nodes[c.i].nic) /\ c.i \in Nat
    BY <1>2, <1>4
  <2>. QED BY <1>3, <1>4, <2>1, <2>2, NicsLess
<1>6. NodesOK(d) /\ VmsStand(d, sl, d.i, {}) /\ NicsStand(d, h, d.i + 1) /\ NetworkStands(d, s)
  BY <1>2, <1>3, <1>5, SameNodes
<1>7. NetworkStands(d, h) /\ d.lb \in 1..h.next_lb /\ d.lb \notin DOMAIN h.lbs
  BY <1>2, <1>3, <1>5, <1>6 DEF NetworkStands
<1>8. FirstVm(d) = d.i /\ FirstNic(d) = d.i + 1
  BY <1>2, Firsts
<1>. QED BY <1>2, <1>6, <1>7, <1>8 DEF Stands

LEMMA Stopped ==
  ASSUME NEW c, ClusterOK(c), c.pc = "stop", NEW sl, NEW s, Stands(c, sl, s), NEW r
  PROVE  Promise(Goes(c, r), sl, s)
<1>0. PICK d : d = Goes(c, r)
  OBVIOUS
<1>1. c.pc \in Destruction /\ c.pc \in Existing
  BY DEF Destruction, Existing
<1>2. /\ d.prefix_len = c.prefix_len /\ d.network = c.network /\ d.nodes = c.nodes /\ d.lb = c.lb
      /\ d.pc = "delete" /\ d.i = c.i
  BY <1>0, <1>1, Destroying
<1>3. /\ NodesOK(c) /\ VmsStand(c, sl, c.i, {}) /\ NicsStand(c, s, c.i + 1) /\ NetworkStands(c, s)
      /\ c.lb \in 1..s.next_lb /\ c.lb \notin DOMAIN s.lbs
  BY <1>1, Firsts DEF Stands
<1>4. NodesOK(d) /\ VmsStand(d, sl, d.i, {}) /\ NicsStand(d, s, d.i + 1) /\ NetworkStands(d, s)
  BY <1>2, <1>3, SameNodes
<1>5. FirstVm(d) = d.i /\ FirstNic(d) = d.i + 1
  BY <1>2, Firsts
<1>6. Stands(d, sl, s)
  BY <1>2, <1>3, <1>4, <1>5 DEF Stands
<1>. QED BY <1>0, <1>6 DEF Promise

LEMMA VmGone ==
  ASSUME NEW c, ClusterOK(c), c.pc = "delete", NEW sl, NEW sl2, NEW s, Stands(c, sl, s), NEW r,
         r.ok => Unpriced(sl2) = Unpriced(sl) \ {c.nodes[c.i].vm}
  PROVE  Promise(Goes(c, r), sl2, s)
<1>0. PICK d : d = Goes(c, r)
  OBVIOUS
<1>. SUFFICES ASSUME Hopeful(d) PROVE Stands(d, sl2, s)
  BY <1>0 DEF Promise
<1>1. c.pc \in Destruction /\ c.pc \in Existing
  BY DEF Destruction, Existing
<1>2. /\ d.prefix_len = c.prefix_len /\ d.network = c.network /\ d.nodes = c.nodes /\ d.lb = c.lb /\ r.ok
      /\ \/ d.pc = "detach" /\ d.i = c.i + 1
         \/ d.pc = "del_network" /\ c.i = Workers + 1
  BY <1>0, <1>1, Destroying, DestroyedWell
<1>3. /\ NodesOK(c) /\ VmsStand(c, sl, c.i, {}) /\ NicsStand(c, s, c.i + 1) /\ NetworkStands(c, s)
      /\ c.lb \in 1..s.next_lb /\ c.lb \notin DOMAIN s.lbs
  BY <1>1, Firsts DEF Stands
<1>4. PICK L : L = Len(c.nodes)
  OBVIOUS
<1>5. c.i \in 1..L /\ L \in Nat /\ L = Workers + 1
  BY <1>1, <1>4, K8sAssumption DEF ClusterOK, Complete
<1>6. VmsStand(c, sl2, c.i + 1, {})
  <2>1. \A j \in c.i..L : j = c.i \/ j \in (c.i + 1)..L
    BY <1>5
  <2>2. ASSUME NEW j \in (c.i + 1)..L PROVE j \in c.i..L /\ c.nodes[j].vm # c.nodes[c.i].vm
    <3>1. j \in c.i..L /\ j \in 1..L /\ j # c.i
      BY <1>5
    <3>. QED BY <1>3, <1>4, <1>5, <3>1 DEF NodesOK
  <2>3. Unpriced(sl) = {c.nodes[j].vm : j \in c.i..L}
    BY <1>3, <1>4 DEF VmsStand, VmsFrom
  <2>4. Unpriced(sl2) = {c.nodes[j].vm : j \in (c.i + 1)..L}
    BY <1>2, <2>1, <2>2, <2>3
  <2>. QED BY <1>4, <2>4 DEF VmsStand, VmsFrom
<1>7. NodesOK(d) /\ VmsStand(d, sl2, c.i + 1, {}) /\ NicsStand(d, s, c.i + 1) /\ NetworkStands(d, s)
  BY <1>2, <1>3, <1>6, SameNodes
<1>8. FirstVm(d) = c.i + 1 /\ FirstNic(d) = c.i + 1
  BY <1>2, <1>4, <1>5, Firsts
<1>. QED BY <1>2, <1>3, <1>7, <1>8 DEF Stands

LEMMA NetworkGone ==
  ASSUME NEW c, ClusterOK(c), c.pc = "del_network", NEW sl, NEW s, IsNetworkStore(s), Stands(c, sl, s),
         NEW r, NEW h, r.ok => h = DeleteNetwork(s, c.network)
  PROVE  Promise(Goes(c, r), sl, h)
<1>0. PICK d : d = Goes(c, r)
  OBVIOUS
<1>. SUFFICES ASSUME Hopeful(d) PROVE Stands(d, sl, h)
  BY <1>0 DEF Promise
<1>1. c.pc \in Destruction /\ c.pc \in Existing
  BY DEF Destruction, Existing
<1>2. /\ d.prefix_len = c.prefix_len /\ d.network = c.network /\ d.nodes = c.nodes /\ d.lb = c.lb /\ r.ok
      /\ d.pc = "gone"
  BY <1>0, <1>1, Destroying, DestroyedWell DEF Hopeful
<1>3. PICK b : b = Len(c.nodes) + 1
  OBVIOUS
<1>4. /\ NodesOK(c) /\ VmsStand(c, sl, b, {}) /\ NicsStand(c, s, b) /\ NetworkStands(c, s)
      /\ c.lb \in 1..s.next_lb /\ c.lb \notin DOMAIN s.lbs
  BY <1>1, <1>3, Firsts DEF Stands
<1>5. /\ h.networks = Remove(s.networks, c.network) /\ h.nics = s.nics
      /\ h.next_lb = s.next_lb /\ h.next_net = s.next_net /\ DOMAIN h.lbs \subseteq DOMAIN s.lbs
  <2>1. PICK ls : ls = {l \in DOMAIN s.lbs : s.lbs[l].network # c.network}
    OBVIOUS
  <2>2. h.lbs = Restrict(s.lbs, ls) /\ h.networks = Remove(s.networks, c.network) /\ h.nics = s.nics
    BY <1>2, <2>1 DEF DeleteNetwork, IsNetworkStore
  <2>3. h.next_lb = s.next_lb /\ h.next_net = s.next_net
    BY <1>2 DEF DeleteNetwork, IsNetworkStore
  <2>4. ls \subseteq DOMAIN s.lbs /\ DOMAIN Restrict(s.lbs, ls) = ls
    BY <2>1 DEF Restrict
  <2>. QED BY <2>2, <2>3, <2>4
<1>6. d.network \in 1..h.next_net /\ d.network \notin DOMAIN h.networks
  BY <1>2, <1>4, <1>5 DEF NetworkStands, IsNetworkStore, Remove, Restrict
<1>7. NodesOK(d) /\ VmsStand(d, sl, b, {}) /\ NicsStand(d, s, b)
  BY <1>2, <1>4, SameNodes
<1>8. NicsStand(d, h, b) /\ d.lb \in 1..h.next_lb /\ d.lb \notin DOMAIN h.lbs
  BY <1>2, <1>4, <1>5, <1>7 DEF NicsStand
<1>9. FirstVm(d) = b /\ FirstNic(d) = b
  BY <1>2, <1>3, Firsts
<1>10. d.pc \notin Existing
  BY <1>2 DEF Existing, Destruction
<1>. QED BY <1>2, <1>6, <1>7, <1>8, <1>9, <1>10 DEF Stands

---------------------------------------------------------------------------
(* The receiver in the host with the request of the present step. *)

LEMMA HandleIs ==
  ASSUME NEW t, NEW op, Handle(t, op)
  PROVE  /\ op.kind = "create" => Charge(t, op)
         /\ op.kind = "start" => Start(t, op)
         /\ op.kind = "stop" => Stop(t, op)
         /\ op.kind = "delete" => Delete(t, op)
         /\ op.kind = "create_network" => NetworkCreate(t, op)
         /\ op.kind = "delete_network" => NetworkDelete(t, op)
         /\ op.kind = "attach_nic" => NicAttach(t, op)
         /\ op.kind = "detach_nic" => NicDetach(t, op)
         /\ op.kind = "create_lb" => LbCreate(t, op)
         /\ op.kind = "delete_lb" => LbDelete(t, op)
<1>1. Charge(t, op) => op.kind \in {"create", "create_volume"}
  BY DEF Charge, Creating
<1>2. /\ Start(t, op) => op.kind = "start"
      /\ Stop(t, op) => op.kind = "stop"
      /\ Delete(t, op) => op.kind = "delete"
      /\ VolumeDelete(t, op) => op.kind = "delete_volume"
      /\ AttachVolume(t, op) => op.kind = "attach_volume"
      /\ DetachVolume(t, op) => op.kind = "detach_volume"
  BY DEF Start, Stop, Delete, VolumeDelete, AttachVolume, DetachVolume, Begins
<1>3. /\ SnapshotCreate(t, op) => op.kind = "create_snapshot"
      /\ SnapshotDelete(t, op) => op.kind = "delete_snapshot"
      /\ SnapshotRestore(t, op) => op.kind = "restore_snapshot"
      /\ NetworkCreate(t, op) => op.kind = "create_network"
      /\ NetworkDelete(t, op) => op.kind = "delete_network"
      /\ NicAttach(t, op) => op.kind = "attach_nic"
      /\ NicDetach(t, op) => op.kind = "detach_nic"
  BY DEF SnapshotCreate, SnapshotDelete, SnapshotRestore, NetworkCreate, NetworkDelete, NicAttach, NicDetach, Begins
<1>4. /\ SgCreate(t, op) => op.kind = "create_sg"
      /\ SgDelete(t, op) => op.kind = "delete_sg"
      /\ LbCreate(t, op) => op.kind = "create_lb"
      /\ LbDelete(t, op) => op.kind = "delete_lb"
  BY DEF SgCreate, SgDelete, LbCreate, LbDelete, Begins
<1>. QED BY <1>1, <1>2, <1>3, <1>4 DEF Handle

\* Without a good answer nothing is promised, but for the stopping of a VM.
LEMMA Refused ==
  ASSUME NEW c, ClusterOK(c), c.pc \in Calling, c.pc # "stop", NEW r, ~r.ok, NEW sl, NEW s
  PROVE  Promise(Goes(c, r), sl, s)
<1>0. PICK d : d = Goes(c, r)
  OBVIOUS
<1>1. CASE c.pc \in Creation
  <2>1. Hopeful(d) => r.ok
    BY <1>0, <1>1, CreatedFields
  <2>. QED BY <1>0, <2>1 DEF Promise
<1>2. CASE c.pc \in Destruction
  <2>1. Hopeful(d) => r.ok
    BY <1>0, <1>2, DestroyedWell
  <2>. QED BY <1>0, <2>1 DEF Promise
<1>. QED BY <1>1, <1>2 DEF Calling

\* The receiver is on its way to the effect, or has the answer.
Handled(c, rx, sl, s) ==
  \/ rx.pc \in {"host", "attach_nic"} /\ Stands(c, sl, s)
  \/ rx.pc \in {"settle", "answer"} /\ Promise(Goes(c, rx.reply), sl, s)

\* The receiver's answer.
Says(ok, id) ==
  /\ task'[Receiver].pc \in {"settle", "answer"}
  /\ task'[Receiver].reply.ok = ok /\ task'[Receiver].reply.id = id

LEMMA ReplySays ==
  ASSUME HostInv, NEW op, NEW ok, NEW id, NEW cost, Reply(Receiver, op, ok, id, cost)
  PROVE  Says(ok, id)
<1>1. TasksOK(task) /\ Receiver \in Tasks
  BY DEF HostInv, Tasks
<1>. QED BY <1>1, ReplyTells DEF Says

LEMMA SaysNo ==
  ASSUME NEW c, ClusterOK(c), c.pc \in Calling, c.pc # "stop", NEW id, Says(FALSE, id), NEW sl, NEW s
  PROVE  Handled(c, task'[Receiver], sl, s)
<1>1. task'[Receiver].pc \in {"settle", "answer"} /\ ~task'[Receiver].reply.ok
  BY DEF Says
<1>. QED BY <1>1, Refused DEF Handled

LEMMA HandledFirst ==
  ASSUME IInv, k8s.pc \in Creation, Stands(k8s, slots, nets), NEW op, op = NextOp, Handle(Receiver, op)
  PROVE  Handled(k8s, task'[Receiver], slots', nets')
<1>0. PICK rx, r : rx = task'[Receiver] /\ r = rx.reply
  OBVIOUS
<1>1. /\ ClusterOK(k8s) /\ k8s.pc \in Calling /\ k8s.pc # "stop" /\ HostInv /\ TasksOK(task)
      /\ Receiver \in Tasks /\ NetOK(nets) /\ IsNetworkStore(nets)
  BY DEF IInv, RpcInv, RpcOK, Calling, Creation, HostInv, Tasks, NetOK
<1>2. OpOK(op)
  BY <1>1, NextOpOK
<1>3. k8s.pc \in {"network", "vm", "nic", "start", "lb"}
  BY DEF Creation
<1>4. Tame(slots, slots', nets, nets')
  <2>1. op.kind \notin Harmful \ {"attach_nic"}
    BY <1>3 DEF NextOp, Harmful
  <2>. QED BY <1>1, <1>2, <2>1, HandleTame
<1>5. Stands(k8s, slots', nets')
  BY <1>1, <1>4, TameKeeps
<1>6. CASE k8s.pc = "network"
  <2>1. op.kind = "create_network" /\ op.ip = 0 /\ op.prefix_len = k8s.prefix_len
    BY <1>6 DEF NextOp
  <2>2. NetworkCreate(Receiver, op)
    BY <2>1, HandleIs
  <2>3. \/ \E id : Reply(Receiver, op, FALSE, id, 0)
        \/ nets' = CreateNetwork(nets, Plan(k8s)) /\ Reply(Receiver, op, TRUE, nets'.next_net, 0)
    BY <2>1, <2>2 DEF NetworkCreate, Plan
  <2>4. CASE nets' = CreateNetwork(nets, Plan(k8s)) /\ Reply(Receiver, op, TRUE, nets'.next_net, 0)
    <3>1. nets'.next_net \in DOMAIN nets'.networks /\ nets'.networks[nets'.next_net] = Plan(k8s)
      BY <1>1, <2>4, GrowNetwork
    <3>2. Says(TRUE, nets'.next_net)
      BY <1>1, <2>4, ReplySays
    <3>3. rx.pc \in {"settle", "answer"} /\ r.id = nets'.next_net
      BY <1>0, <3>2 DEF Says
    <3>4. Promise(Goes(k8s, r), slots', nets')
      BY <1>1, <1>5, <1>6, <3>1, <3>3, NetworkMade
    <3>. QED BY <1>0, <3>3, <3>4 DEF Handled
  <2>. QED BY <1>1, <2>3, <2>4, ReplySays, SaysNo
<1>7. CASE k8s.pc = "vm"
  <2>1. op.kind = "create"
    BY <1>7 DEF NextOp
  <2>2. Charge(Receiver, op)
    BY <2>1, HandleIs
  <2>3. Goto(Receiver, op, "host") \/ Answer(Receiver, op, NoReply)
    BY <2>2 DEF Charge
  <2>4. CASE Goto(Receiver, op, "host")
    BY <1>1, <1>5, <2>4, GotoStake DEF Handled
  <2>5. CASE Answer(Receiver, op, NoReply)
    <3>1. rx.pc = "answer" /\ r = NoReply
      BY <1>0, <1>1, <2>5, AnswerTells
    <3>2. ~r.ok
      BY <3>1 DEF NoReply
    <3>. QED BY <1>0, <1>1, <3>1, <3>2, Refused DEF Handled
  <2>. QED BY <2>3, <2>4, <2>5
<1>8. CASE k8s.pc = "nic"
  <2>1. op.kind = "attach_nic"
    BY <1>8 DEF NextOp
  <2>2. NicAttach(Receiver, op)
    BY <2>1, HandleIs
  <2>3. Goto(Receiver, op, "attach_nic") \/ Reply(Receiver, op, FALSE, 0, 0)
    BY <2>2 DEF NicAttach
  <2>4. CASE Goto(Receiver, op, "attach_nic")
    BY <1>1, <1>5, <2>4, GotoStake DEF Handled
  <2>. QED BY <1>1, <2>3, <2>4, ReplySays, SaysNo
<1>9. CASE k8s.pc = "start"
  <2>1. op.kind = "start"
    BY <1>9 DEF NextOp
  <2>2. Start(Receiver, op)
    BY <2>1, HandleIs
  <2>3. PICK ok, id : Reply(Receiver, op, ok, id, 0)
    BY <2>2 DEF Start
  <2>4. rx.pc \in {"settle", "answer"}
    BY <1>0, <1>1, <2>3, ReplySays DEF Says
  <2>. QED BY <1>0, <1>1, <1>5, <1>9, <2>4, Started DEF Handled
<1>10. CASE k8s.pc = "lb"
  <2>1. op.kind = "create_lb" /\ op.backends = WorkersOf(k8s)
    BY <1>10 DEF NextOp, Backends, WorkersOf
  <2>2. LbCreate(Receiver, op)
    BY <2>1, HandleIs
  <2>3. \/ \E id : Reply(Receiver, op, FALSE, id, 0)
        \/ /\ nets' = CreateLb(nets, op.network, op.vip, op.backends)
           /\ Reply(Receiver, op, TRUE, nets'.next_lb, 0)
    BY <2>2 DEF LbCreate
  <2>4. CASE nets' = CreateLb(nets, op.network, op.vip, op.backends) /\ Reply(Receiver, op, TRUE, nets'.next_lb, 0)
    <3>1. nets'.next_lb \in DOMAIN nets'.lbs /\ nets'.lbs[nets'.next_lb].backends = WorkersOf(k8s)
      BY <1>1, <2>1, <2>4, GrowLb
    <3>2. Says(TRUE, nets'.next_lb)
      BY <1>1, <2>4, ReplySays
    <3>3. rx.pc \in {"settle", "answer"} /\ r.id = nets'.next_lb
      BY <1>0, <3>2 DEF Says
    <3>4. Promise(Goes(k8s, r), slots', nets')
      BY <1>1, <1>5, <1>10, <3>1, <3>3, LbMade
    <3>. QED BY <1>0, <3>3, <3>4 DEF Handled
  <2>. QED BY <1>1, <2>3, <2>4, ReplySays, SaysNo
<1>. QED BY <1>3, <1>6, <1>7, <1>8, <1>9, <1>10

LEMMA HandledLast ==
  ASSUME IInv, k8s.pc \in Destruction, Stands(k8s, slots, nets), NEW op, op = NextOp, Handle(Receiver, op)
  PROVE  Handled(k8s, task'[Receiver], slots', nets')
<1>0. PICK rx, r : rx = task'[Receiver] /\ r = rx.reply
  OBVIOUS
<1>1. /\ ClusterOK(k8s) /\ k8s.pc \in Calling /\ HostInv /\ TasksOK(task)
      /\ Receiver \in Tasks /\ NetOK(nets) /\ IsNetworkStore(nets)
  BY DEF IInv, RpcInv, RpcOK, Calling, HostInv, Tasks, NetOK
<1>2. OpOK(op)
  BY <1>1, NextOpOK
<1>3. k8s.pc \in {"del_lb", "detach", "stop", "delete", "del_network"}
  BY DEF Destruction
<1>. SUFFICES rx.pc \in {"settle", "answer"} /\ Promise(Goes(k8s, r), slots', nets')
  BY <1>0 DEF Handled
<1>4. ASSUME NEW ok, NEW id, NEW cost, Reply(Receiver, op, ok, id, cost)
      PROVE  rx.pc \in {"settle", "answer"} /\ r.ok = ok
  BY <1>0, <1>1, <1>4, ReplySays DEF Says
<1>5. CASE k8s.pc = "del_lb"
  <2>1. op.kind = "delete_lb" /\ op.lb = k8s.lb
    BY <1>5 DEF NextOp
  <2>2. LbDelete(Receiver, op)
    BY <2>1, HandleIs
  <2>3. /\ slots' = slots /\ (Permitted(op) => nets' = DeleteLb(nets, k8s.lb))
        /\ Reply(Receiver, op, Permitted(op), 0, 0)
    BY <2>1, <2>2 DEF LbDelete
  <2>4. rx.pc \in {"settle", "answer"} /\ (r.ok => nets' = DeleteLb(nets, k8s.lb))
    BY <1>4, <2>3
  <2>5. Promise(Goes(k8s, r), slots, nets')
    BY <1>1, <1>5, <2>4, LbGone
  <2>. QED BY <2>3, <2>4, <2>5
<1>6. CASE k8s.pc = "detach"
  <2>1. op.kind = "detach_nic" /\ op.nic = k8s.nodes[k8s.i].nic
    BY <1>6 DEF NextOp
  <2>2. NicDetach(Receiver, op)
    BY <2>1, HandleIs
  <2>3. /\ slots' = slots /\ (Permitted(op) => nets' = DetachNic(nets, k8s.nodes[k8s.i].nic))
        /\ Reply(Receiver, op, Permitted(op), 0, 0)
    BY <2>1, <2>2 DEF NicDetach
  <2>4. rx.pc \in {"settle", "answer"} /\ (r.ok => nets' = DetachNic(nets, k8s.nodes[k8s.i].nic))
    BY <1>4, <2>3
  <2>5. Promise(Goes(k8s, r), slots, nets')
    BY <1>1, <1>6, <2>4, NicGone
  <2>. QED BY <2>3, <2>4, <2>5
<1>7. CASE k8s.pc = "stop"
  <2>1. op.kind = "stop"
    BY <1>7 DEF NextOp
  <2>2. Tame(slots, slots', nets, nets')
    <3>1. op.kind \notin Harmful \ {"attach_nic"}
      BY <2>1 DEF Harmful
    <3>. QED BY <1>1, <1>2, <3>1, HandleTame
  <2>3. Stands(k8s, slots', nets')
    BY <1>1, <2>2, TameKeeps
  <2>4. PICK ok, id : Reply(Receiver, op, ok, id, 0)
    BY <2>1, HandleIs DEF Stop
  <2>5. rx.pc \in {"settle", "answer"}
    BY <1>4, <2>4
  <2>. QED BY <1>1, <1>7, <2>3, <2>5, Stopped
<1>8. CASE k8s.pc = "delete"
  <2>0. PICK v : v = k8s.nodes[k8s.i].vm
    OBVIOUS
  <2>1. op.kind = "delete" /\ op.vm = v /\ v \in Vm
    BY <1>2, <1>8, <2>0 DEF NextOp, OpOK
  <2>2. Delete(Receiver, op)
    BY <2>1, HandleIs
  <2>3. PICK ok, id, cost : /\ nets' = nets /\ (ok => slots' = [slots EXCEPT ![v] = NoVm])
                            /\ Reply(Receiver, op, ok, id, cost)
    BY <2>1, <2>2 DEF Delete
  <2>4. rx.pc \in {"settle", "answer"} /\ r.ok = ok
    BY <1>4, <2>3
  <2>5. r.ok => Unpriced(slots') = Unpriced(slots) \ {v}
    <3>. SUFFICES ASSUME r.ok PROVE Unpriced(slots') = Unpriced(slots) \ {v}
      OBVIOUS
    <3>1. slots \in [Vm -> Slot]
      BY <1>1 DEF HostInv, SlotsOK
    <3>2. slots'[v] = NoVm /\ \A w \in Vm \ {v} : slots'[w] = slots[w]
      BY <2>1, <2>3, <2>4, <3>1
    <3>. QED BY <3>2 DEF Unpriced
  <2>6. Promise(Goes(k8s, r), slots', nets)
    BY <1>1, <1>8, <2>0, <2>5, VmGone
  <2>. QED BY <2>3, <2>4, <2>6
<1>9. CASE k8s.pc = "del_network"
  <2>1. op.kind = "delete_network" /\ op.network = k8s.network
    BY <1>9 DEF NextOp
  <2>2. NetworkDelete(Receiver, op)
    BY <2>1, HandleIs
  <2>3. PICK ok, id : /\ slots' = slots /\ (ok => nets' = DeleteNetwork(nets, k8s.network))
                      /\ Reply(Receiver, op, ok, id, 0)
    BY <2>1, <2>2 DEF NetworkDelete
  <2>4. rx.pc \in {"settle", "answer"} /\ (r.ok => nets' = DeleteNetwork(nets, k8s.network))
    BY <1>4, <2>3
  <2>5. Promise(Goes(k8s, r), slots, nets')
    BY <1>1, <1>9, <2>4, NetworkGone
  <2>. QED BY <2>3, <2>4, <2>5
<1>. QED BY <1>3, <1>5, <1>6, <1>7, <1>8, <1>9

\* The receiver's later steps with the request of the present step.
LEMMA HandledNext ==
  ASSUME IInv, k8s.pc \in Calling, task[Receiver].op = NextOp, Proceed(Receiver),
         Handled(k8s, task[Receiver], slots, nets)
  PROVE  Handled(k8s, task'[Receiver], slots', nets')
<1>0. PICK rx, r, op : rx = task'[Receiver] /\ r = rx.reply /\ op = task[Receiver].op
  OBVIOUS
<1>1. /\ ClusterOK(k8s) /\ HostInv /\ TasksOK(task) /\ TaskOK(task[Receiver])
      /\ Receiver \in Tasks /\ NetOK(nets) /\ IsNetworkStore(nets) /\ slots \in [Vm -> Slot]
  BY DEF IInv, RpcInv, RpcOK, HostInv, Tasks, TasksOK, NetOK, SlotsOK
<1>2. op = NextOp /\ k8s.pc \in {"network", "vm", "nic", "start", "lb", "del_lb", "detach", "stop", "delete", "del_network"}
  BY <1>0 DEF Calling, Creation, Destruction
<1>3. CASE Create(Receiver)
  <2>1. task[Receiver].pc = "host" /\ op.kind = "create"
    BY <1>0, <1>3 DEF Create
  <2>2. k8s.pc = "vm" /\ op.cost = 0
    BY <1>2, <2>1 DEF NextOp
  <2>3. Stands(k8s, slots, nets) /\ k8s.pc # "stop"
    BY <2>1, <2>2 DEF Handled
  <2>4. PICK v, x : v = Min(FreeSlots) /\ x = [NoVm EXCEPT !.state = "created", !.cost = 0]
    OBVIOUS
  <2>5. nets' = nets /\ \/ \E id : Reply(Receiver, op, FALSE, id, 0)
                        \/ /\ FreeSlots # {} /\ slots' = [slots EXCEPT ![v] = x]
                           /\ Reply(Receiver, op, TRUE, v, 0)
    BY <1>0, <1>3, <2>2, <2>4 DEF Create
  <2>6. CASE FreeSlots # {} /\ slots' = [slots EXCEPT ![v] = x] /\ Reply(Receiver, op, TRUE, v, 0)
    <3>1. rx.pc \in {"settle", "answer"} /\ r.id = v
      BY <1>0, <1>1, <2>6, ReplySays DEF Says
    <3>2. FreeSlots \subseteq Nat
      BY DEF FreeSlots, Vm
    <3>3. v \in FreeSlots
      BY <2>4, <2>6, <3>2, MinOf
    <3>4. v \in Vm /\ slots[v] = NoVm
      BY <3>3 DEF FreeSlots
    <3>5. x.state = "created" /\ x.cost = 0 /\ NoVm.state = "none"
      BY <2>4 DEF NoVm
    <3>6. slots'[v] = x /\ \A w \in Vm \ {v} : slots'[w] = slots[w]
      BY <1>1, <2>6, <3>4
    <3>7. v \notin Unpriced(slots) /\ Unpriced(slots') = Unpriced(slots) \cup {v}
      BY <3>4, <3>5, <3>6 DEF Unpriced
    <3>8. Promise(Goes(k8s, r), slots', nets)
      BY <1>1, <2>2, <2>3, <3>1, <3>7, VmMade
    <3>. QED BY <1>0, <2>5, <3>1, <3>8 DEF Handled
  <2>. QED BY <1>1, <2>3, <2>5, <2>6, ReplySays, SaysNo
<1>4. CASE NicAttach2(Receiver)
  <2>1. task[Receiver].pc = "attach_nic" /\ op.kind = "attach_nic"
    BY <1>0, <1>1, <1>4 DEF NicAttach2, TaskOK
  <2>2. k8s.pc = "nic" /\ op.network = k8s.network /\ op.vm = k8s.vm /\ op.ip = NoAddr
    BY <1>2, <2>1 DEF NextOp
  <2>3. Stands(k8s, slots, nets) /\ k8s.pc # "stop"
    BY <2>1, <2>2 DEF Handled
  <2>4. PICK id : id = NextNicId(nets, k8s.network)
    OBVIOUS
  <2>5. slots' = slots /\ \/ Answer(Receiver, op, NoReply)
                          \/ /\ MayAttachNic(nets, k8s.network, NoAddr)
                             /\ nets' = AttachNic(nets, k8s.network, k8s.vm, NoAddr)
                             /\ Answer(Receiver, op, [ok |-> TRUE, id |-> id, ip |-> nets'.nics[id].ip])
    BY <1>0, <1>4, <2>2, <2>4 DEF NicAttach2
  <2>6. CASE Answer(Receiver, op, NoReply)
    <3>1. rx.pc = "answer" /\ r = NoReply
      BY <1>0, <1>1, <2>6, AnswerTells
    <3>2. ~r.ok
      BY <3>1 DEF NoReply
    <3>. QED BY <1>0, <1>1, <2>3, <3>1, <3>2, Refused DEF Handled
  <2>7. CASE /\ MayAttachNic(nets, k8s.network, NoAddr)
             /\ nets' = AttachNic(nets, k8s.network, k8s.vm, NoAddr)
             /\ Answer(Receiver, op, [ok |-> TRUE, id |-> id, ip |-> nets'.nics[id].ip])
    <3>1. rx.pc = "answer" /\ r = [ok |-> TRUE, id |-> id, ip |-> nets'.nics[id].ip]
      BY <1>0, <1>1, <2>7, AnswerTells
    <3>2. r.id = NextNicId(nets, k8s.network) /\ r.ip = nets'.nics[r.id].ip
      BY <2>4, <3>1
    <3>3. Promise(Goes(k8s, r), slots, nets')
      BY <1>1, <2>2, <2>3, <2>7, <3>2, NicMade
    <3>. QED BY <1>0, <2>5, <3>1, <3>3 DEF Handled
  <2>. QED BY <2>5, <2>6, <2>7
<1>5. CASE Settle(Receiver)
  <2>1. /\ task[Receiver].pc = "settle" /\ slots' = slots /\ nets' = nets
        /\ Answer(Receiver, op, task[Receiver].reply)
    BY <1>0, <1>5 DEF Settle, stores
  <2>2. rx.pc = "answer" /\ r = task[Receiver].reply
    BY <1>0, <1>1, <2>1, AnswerTells
  <2>3. Promise(Goes(k8s, r), slots, nets)
    BY <2>1, <2>2 DEF Handled
  <2>. QED BY <1>0, <2>1, <2>2, <2>3 DEF Handled
<1>6. ~VolumeCreate(Receiver) /\ ~VolumeDelete2(Receiver) /\ ~AttachVolume2(Receiver)
  <2>1. op.kind \notin {"create_volume", "delete_volume", "attach_volume"}
    BY <1>2 DEF NextOp
  <2>. QED BY <1>0, <1>1, <2>1 DEF VolumeCreate, VolumeDelete2, AttachVolume2, TaskOK
<1>. QED BY <1>3, <1>4, <1>5, <1>6 DEF Proceed

---------------------------------------------------------------------------
(* The steps. *)

\* create keeps no errors, and destroy reports success only without one.
LEMMA ErrGoes ==
  ASSUME NEW c, ClusterOK(c), c.pc \in Calling, ErrOK(c), NEW r, NEW d, d = Goes(c, r)
  PROVE  ErrOK(d) /\ (Hopeful(d) => Hopeful(c))
<1>1. CASE c.pc \in Creation
  <2>1. /\ DOMAIN c = {"pc", "i", "prefix_len", "network", "lb", "vm", "nodes", "err"}
        /\ c.pc \in {"network", "vm", "nic", "start", "lb"} /\ d = Created(c, r) /\ c.err = FALSE
    BY <1>1 DEF ClusterOK, Creation, Goes, ErrOK
  <2>2. CASE ~r.ok
    <3>1. d = [c EXCEPT !.pc = "failed"]
      BY <2>1, <2>2 DEF Created, Failed
    <3>. QED BY <2>1, <3>1 DEF ErrOK, Hopeful
  <2>3. CASE r.ok
    <3>1. CASE c.pc = "start"
      <4>1. d = [c EXCEPT !.i = c.i + 1, !.pc = "vm"] \/ d = [c EXCEPT !.pc = "lb"]
        BY <2>1, <2>3, <3>1 DEF Created, NextNode
      <4>. QED BY <2>1, <3>1, <4>1 DEF ErrOK, Hopeful
    <3>2. CASE c.pc = "nic"
      <4>1. PICK nodes : d = [c EXCEPT !.pc = "start", !.nodes = nodes]
        BY <2>1, <2>3, <3>2 DEF Created
      <4>. QED BY <2>1, <3>2, <4>1 DEF ErrOK, Hopeful
    <3>3. CASE c.pc \in {"network", "vm", "lb"}
      <4>1. \/ d = [c EXCEPT !.pc = "vm", !.network = r.id]
            \/ d = [c EXCEPT !.pc = "nic", !.vm = r.id]
            \/ d = [c EXCEPT !.pc = "up", !.lb = r.id]
        BY <2>1, <2>3, <3>3 DEF Created
      <4>. QED BY <2>1, <3>3, <4>1 DEF ErrOK, Hopeful
    <3>. QED BY <2>1, <3>1, <3>2, <3>3
  <2>. QED BY <2>2, <2>3
<1>2. CASE c.pc \in Destruction
  <2>1. d = Destroyed(c, r)
    BY <1>2 DEF Goes, Creation, Destruction
  <2>2. /\ d.err = (c.err \/ CountsAsError(c, r)) /\ (d.pc = "gone" => ~d.err)
        /\ d.pc \in {"detach", "stop", "delete", "del_network", "failed", "gone"}
    BY <1>2, <2>1, DestroyedFields
  <2>3. c.err \in BOOLEAN /\ CountsAsError(c, r) \in BOOLEAN
    BY DEF ErrOK, CountsAsError
  <2>4. d.err \in BOOLEAN /\ (d.pc = "gone" => d.err = FALSE) /\ (~d.err => ~c.err)
    BY <2>2, <2>3, Zenon
  <2>5. d.pc \notin Creation \cup {"none", "up"} /\ c.pc # "failed"
    BY <1>2, <2>2 DEF Creation, Destruction
  <2>. QED BY <2>4, <2>5 DEF ErrOK, Hopeful
<1>. QED BY <1>1, <1>2 DEF Calling

\* The host changes nothing of the cluster's.
LEMMA CourseTame ==
  ASSUME NEW nt, NEW sv, NEW pd, NEW c, NEW rx, NEW sl, NEW s, NEW sl2, NEW s2,
         IsNetworkStore(s), Tame(sl, sl2, s, s2), Course(nt, sv, pd, c, rx, sl, s)
  PROVE  Course(nt, sv, pd, c, rx, sl2, s2)
<1>1. pd = 0 \/ c.pc = "stop" \/ Asked(nt, sv, pd, rx) => Stands(c, sl2, s2)
  BY TameKeeps DEF Course
<1>2. ASSUME NEW r, Told(nt, sv, pd, rx, r) PROVE Promise(Goes(c, r), sl2, s2)
  BY <1>2, TamePromise DEF Course
<1>. QED BY <1>1, <1>2 DEF Course

\* A datagram disappears.
LEMMA CourseLess ==
  ASSUME NEW nt, NEW nt2, nt2 \subseteq nt, NEW sv, NEW pd, NEW c, NEW rx, NEW sl, NEW s,
         Course(nt, sv, pd, c, rx, sl, s)
  PROVE  Course(nt2, sv, pd, c, rx, sl, s)
<1>1. Lone(nt2, sv, pd, rx) /\ Strays(nt2, sv, pd, rx)
  BY DEF Course, Lone, Strays
<1>2. Asked(nt2, sv, pd, rx) => Asked(nt, sv, pd, rx)
  BY DEF Asked
<1>3. \A r : Told(nt2, sv, pd, rx, r) => Told(nt, sv, pd, rx, r)
  BY DEF Told
<1>. QED BY <1>1, <1>2, <1>3 DEF Course

\* Nobody waits, and what is under way has to do with stopping.
LEMMA CourseRests ==
  ASSUME NEW nt, NEW sv, NEW c, NEW rx, NEW sl, NEW s, Stands(c, sl, s),
         \A m \in nt : m.id # 0 /\ m.op.kind = "stop",
         rx.pc # "idle" => sv # 0 /\ rx.op.kind = "stop"
  PROVE  Course(nt, sv, 0, c, rx, sl, s)
<1>1. Lone(nt, sv, 0, rx) /\ Strays(nt, sv, 0, rx)
  BY DEF Lone, Strays
<1>2. \A r : ~Told(nt, sv, 0, rx, r)
  BY DEF Told
<1>. QED BY <1>1, <1>2 DEF Course

\* A request goes out.
LEMMA CourseAsks ==
  ASSUME NEW nt, NEW sv, NEW q, q # 0, NEW c, NEW rx, NEW sl, NEW s, Course(nt, sv, 0, c, rx, sl, s),
         \A m \in nt : m.id # 0 /\ m.id # q, sv # q, rx.pc # "idle" => sv # 0,
         NEW w, w.id = q, w.type = "request"
  PROVE  Course(nt \cup {w}, sv, q, c, rx, sl, s)
<1>0. PICK nt2 : nt2 = nt \cup {w}
  OBVIOUS
<1>1. Lone(nt2, sv, q, rx)
  BY <1>0 DEF Lone
<1>2. Strays(nt2, sv, q, rx)
  BY <1>0 DEF Course, Strays
<1>3. \A r : ~Told(nt2, sv, q, rx, r)
  BY <1>0 DEF Told
<1>4. Stands(c, sl, s)
  BY DEF Course
<1>. QED BY <1>0, <1>1, <1>2, <1>3, <1>4 DEF Course

\* The receiver takes the request of the present step, or goes on with it.
LEMMA CourseHandled ==
  ASSUME NEW nt, NEW pd, pd # 0, NEW c, NEW rx, NEW sl, NEW s, Handled(c, rx, sl, s), rx.pc # "idle",
         c.pc = "stop" => Stands(c, sl, s), \A m \in nt : m.id # pd /\ m.op.kind = "stop"
  PROVE  Course(nt, pd, pd, c, rx, sl, s)
<1>1. Lone(nt, pd, pd, rx) /\ Strays(nt, pd, pd, rx)
  BY DEF Lone, Strays
<1>2. Asked(nt, pd, pd, rx) => Stands(c, sl, s)
  BY DEF Asked, Handled
<1>3. ASSUME NEW r, Told(nt, pd, pd, rx, r) PROVE Promise(Goes(c, r), sl, s)
  BY <1>3 DEF Told, Handled
<1>. QED BY <1>1, <1>2, <1>3 DEF Course

\* The receiver takes another one.
LEMMA CourseStray ==
  ASSUME NEW nt, NEW nt2, nt2 \subseteq nt, NEW sv, NEW sv2, NEW pd, sv2 # pd, NEW c, NEW rx, NEW rx2,
         rx.pc = "idle", rx2.op.kind = "stop", NEW sl, NEW s, Course(nt, sv, pd, c, rx, sl, s)
  PROVE  Course(nt2, sv2, pd, c, rx2, sl, s)
<1>1. Lone(nt2, sv2, pd, rx2) /\ Strays(nt2, sv2, pd, rx2)
  BY DEF Course, Lone, Strays
<1>2. Asked(nt2, sv2, pd, rx2) => Asked(nt, sv, pd, rx)
  BY DEF Asked
<1>3. \A r : Told(nt2, sv2, pd, rx2, r) => Told(nt, sv, pd, rx, r)
  BY DEF Told
<1>. QED BY <1>1, <1>2, <1>3 DEF Course

\* The receiver sends its answer.
LEMMA CourseSends ==
  ASSUME NEW nt, NEW sv, sv # 0, NEW pd, NEW c, NEW rx, rx.pc = "answer", NEW rx2, rx2.pc = "idle",
         NEW sl, NEW s, Course(nt, sv, pd, c, rx, sl, s),
         NEW w, w.type = "response", w.id = sv, w.op = rx.op, w.reply = rx.reply
  PROVE  Course(nt \cup {w}, 0, pd, c, rx2, sl, s)
<1>0. PICK nt2 : nt2 = nt \cup {w}
  OBVIOUS
<1>1. Lone(nt2, 0, pd, rx2)
  BY <1>0 DEF Course, Lone
<1>2. Strays(nt2, 0, pd, rx2)
  BY <1>0 DEF Course, Strays
<1>3. Asked(nt2, 0, pd, rx2) => Asked(nt, sv, pd, rx)
  BY <1>0 DEF Asked
<1>4. ASSUME NEW r, Told(nt2, 0, pd, rx2, r) PROVE Told(nt, sv, pd, rx, r)
  BY <1>0, <1>4 DEF Told
<1>. QED BY <1>0, <1>1, <1>2, <1>3, <1>4 DEF Course

\* The clients of a behaviour are what they are.
LEMMA HandleKeeps ==
  ASSUME NEW t, NEW op, Handle(t, op)
  PROVE  mix' = mix
<1>1. CASE Charge(t, op) \/ Start(t, op) \/ Stop(t, op) \/ Delete(t, op) \/ DetachVolume(t, op)
  BY <1>1 DEF Charge, Start, Stop, Delete, DetachVolume, fixed
<1>2. CASE VolumeDelete(t, op) \/ AttachVolume(t, op) \/ NicAttach(t, op)
  BY <1>2 DEF VolumeDelete, AttachVolume, NicAttach, fixed
<1>3. CASE SnapshotCreate(t, op) \/ SnapshotDelete(t, op) \/ SnapshotRestore(t, op)
  BY <1>3 DEF SnapshotCreate, SnapshotDelete, SnapshotRestore, fixed
<1>4. CASE NetworkCreate(t, op) \/ NetworkDelete(t, op) \/ NicDetach(t, op)
  BY <1>4 DEF NetworkCreate, NetworkDelete, NicDetach, fixed
<1>5. CASE SgCreate(t, op) \/ SgDelete(t, op) \/ LbCreate(t, op) \/ LbDelete(t, op)
  BY <1>5 DEF SgCreate, SgDelete, LbCreate, LbDelete, fixed
<1>. QED BY <1>1, <1>2, <1>3, <1>4, <1>5 DEF Handle

LEMMA ProceedKeeps ==
  ASSUME NEW t, Proceed(t)
  PROVE  mix' = mix
<1>1. CASE Create(t) \/ VolumeCreate(t) \/ VolumeDelete2(t)
  BY <1>1 DEF Create, VolumeCreate, VolumeDelete2, fixed
<1>2. CASE AttachVolume2(t) \/ NicAttach2(t) \/ Settle(t)
  BY <1>2 DEF AttachVolume2, NicAttach2, Settle, fixed
<1>. QED BY <1>1, <1>2 DEF Proceed

\* A step of the host in which the receiver rests.
LEMMA ClusterHost ==
  ASSUME HostInv, ClusterInv, UNCHANGED rpcVars, mix' = mix, task'[Receiver] = task[Receiver],
         mix.k8s => CallersOK(task') /\ Tame(slots, slots', nets, nets')
  PROVE  ClusterInv'
<1>1. net' = net /\ serving' = serving /\ pending' = pending /\ k8s' = k8s
  BY DEF rpcVars
<1>2. IsNetworkStore(nets)
  BY DEF HostInv, NetOK
<1>3. ASSUME mix.k8s, Hopeful(k8s) PROVE Course(net, serving, pending, k8s, task[Receiver], slots', nets')
  <2>1. Course(net, serving, pending, k8s, task[Receiver], slots, nets)
    BY <1>3 DEF ClusterInv
  <2>. QED BY <1>2, <1>3, <2>1, CourseTame
<1>. QED BY <1>1, <1>3 DEF ClusterInv

LEMMA LocalCluster ==
  ASSUME Peaceful, IInv, ClusterInv, NEW t \in Task, Local(t), UNCHANGED rpcVars
  PROVE  ClusterInv'
<1>1. PICK kind \in mix.kinds : \E op \in Ops[kind] : Handle(t, op)
  BY DEF Local
<1>2. PICK op \in Ops[kind] : Handle(t, op)
  BY <1>1
<1>3. HostInv /\ TasksOK(task) /\ mix \in Mixes /\ t \in Tasks /\ Receiver \in Tasks
  BY DEF IInv, HostInv, Tasks
<1>4. kind \in Kinds /\ Receiver # t
  BY <1>3, HostAssumption
<1>5. OpOK(op) /\ op.kind = kind /\ (kind = "create" => op.cost \in VmCost)
  <2>1. OpOK(op)
    BY <1>4, LocalOp
  <2>2. op.kind = kind
    BY <1>4 DEF Ops, Kinds
  <2>3. kind = "create" => op.cost \in VmCost
    BY <1>4 DEF Ops
  <2>. QED BY <2>1, <2>2, <2>3
<1>6. mix' = mix /\ Works(task, task', t, op)
  <2>1. mix' = mix
    BY <1>2, HandleKeeps
  <2>. QED BY <1>2, <1>3, <2>1, HandleWorks
<1>7. task'[Receiver] = task[Receiver]
  BY <1>3, <1>4, <1>6 DEF Works
<1>8. ASSUME mix.k8s PROVE CallersOK(task') /\ Tame(slots, slots', nets, nets')
  <2>1. op.kind \notin Harmful /\ (op.kind = "create" => op.cost # 0)
    BY <1>1, <1>3, <1>5, <1>8 DEF Peaceful
  <2>2. CallersOK(task)
    BY <1>8 DEF ClusterInv
  <2>3. CallersOK(task')
    BY <1>3, <1>6, <2>1, <2>2, CallersKeep
  <2>4. op.kind \notin Harmful \ {"attach_nic"}
    BY <2>1
  <2>. QED BY <1>2, <1>3, <1>5, <2>3, <2>4, HandleTame
<1>. QED BY <1>3, <1>6, <1>7, <1>8, ClusterHost

LEMMA CallerCluster ==
  ASSUME IInv, ClusterInv, NEW t \in Task, Proceed(t), UNCHANGED rpcVars
  PROVE  ClusterInv'
<1>1. HostInv /\ TasksOK(task) /\ TaskOK(task[t]) /\ t \in Tasks /\ Receiver \in Tasks
  BY DEF IInv, HostInv, Tasks, TasksOK
<1>2. Receiver # t
  BY HostAssumption
<1>3. PICK op : op = task[t].op
  OBVIOUS
<1>4. mix' = mix /\ Works(task, task', t, op) /\ task[t].pc # "idle"
  <2>1. mix' = mix
    BY ProceedKeeps
  <2>. QED BY <1>1, <1>3, <2>1, ProceedWorks
<1>5. task'[Receiver] = task[Receiver]
  BY <1>1, <1>2, <1>4 DEF Works
<1>6. ASSUME mix.k8s PROVE CallersOK(task') /\ Tame(slots, slots', nets, nets')
  <2>1. CallersOK(task)
    BY <1>6 DEF ClusterInv
  <2>2. op.kind \notin Harmful /\ (op.kind = "create" => op.cost # 0)
    BY <1>3, <1>4, <2>1 DEF CallersOK
  <2>3. CallersOK(task')
    BY <1>1, <1>4, <2>1, <2>2, CallersKeep
  <2>4. task[t].pc # "attach_nic"
    BY <1>1, <1>3, <2>2 DEF TaskOK, Harmful
  <2>. QED BY <1>1, <1>3, <2>2, <2>3, <2>4, ProceedTame
<1>. QED BY <1>1, <1>4, <1>5, <1>6, ClusterHost

\* Where the receiver is when it has the request of the present step.
LEMMA HandledNow ==
  ASSUME NEW nt, NEW pd, pd # 0, NEW c, NEW rx, NEW sl, NEW s, Course(nt, pd, pd, c, rx, sl, s),
         rx.pc \in {"host", "attach_nic", "settle", "answer"}
  PROVE  Handled(c, rx, sl, s) /\ \A m \in nt : m.id # pd /\ m.op.kind = "stop"
<1>1. \A m \in nt : m.id # pd /\ m.op.kind = "stop"
  BY DEF Course, Lone, Strays
<1>2. rx.pc \in {"host", "attach_nic"} => Stands(c, sl, s)
  BY DEF Course, Asked
<1>3. rx.pc \in {"settle", "answer"} => Promise(Goes(c, rx.reply), sl, s)
  BY DEF Course, Told
<1>. QED BY <1>1, <1>2, <1>3 DEF Handled

LEMMA ReceiverCluster ==
  ASSUME IInv, ClusterInv, Proceed(Receiver), UNCHANGED rpcVars
  PROVE  ClusterInv'
<1>0. PICK rx : rx = task[Receiver]
  OBVIOUS
<1>1. HostInv /\ TasksOK(task) /\ TaskOK(rx) /\ Receiver \in Tasks /\ RpcInv /\ ClusterOK(k8s)
  BY <1>0 DEF IInv, HostInv, Tasks, TasksOK, RpcInv, RpcOK
<1>2. Receiver \notin Task
  BY HostAssumption
<1>3. net' = net /\ serving' = serving /\ pending' = pending /\ k8s' = k8s
  BY DEF rpcVars
<1>4. mix' = mix /\ Works(task, task', Receiver, rx.op) /\ rx.pc # "idle"
  <2>1. mix' = mix
    BY ProceedKeeps
  <2>. QED BY <1>0, <1>1, <2>1, ProceedWorks
<1>5. mix.k8s => CallersOK(task')
  BY <1>1, <1>2, <1>4, CallersKeep DEF ClusterInv
<1>6. ASSUME mix.k8s, Hopeful(k8s) PROVE Course(net, serving, pending, k8s, task'[Receiver], slots', nets')
  <2>1. Course(net, serving, pending, k8s, rx, slots, nets)
    BY <1>0, <1>6 DEF ClusterInv
  <2>2. serving # 0 /\ (serving = pending => rx.op = NextOp) /\ (pending # 0 => k8s.pc \in Calling)
    BY <1>0, <1>1, <1>4 DEF RpcInv, RpcOK
  <2>3. rx.pc \in {"host", "attach_nic", "settle", "delete_volume", "attach_volume"}
    BY <1>0, <1>1 DEF Proceed, Create, VolumeCreate, VolumeDelete2, AttachVolume2, NicAttach2, Settle
  <2>4. serving = pending
    <3>. SUFFICES ASSUME serving # pending PROVE FALSE
      OBVIOUS
    <3>1. rx.op.kind = "stop"
      BY <1>4, <2>1 DEF Course, Strays
    <3>. QED BY <1>1, <2>3, <3>1 DEF TaskOK, Creating, Deleting, Settled
  <2>5. rx.op = NextOp /\ k8s.pc \in Calling /\ pending # 0
    BY <2>2, <2>4
  <2>6. rx.pc \in {"host", "attach_nic", "settle", "answer"}
    <3>1. NextOp.kind \notin {"delete_volume", "attach_volume"}
      BY <2>5 DEF NextOp, Calling, Creation, Destruction
    <3>. QED BY <1>1, <2>3, <2>5, <3>1 DEF TaskOK
  <2>7. Handled(k8s, rx, slots, nets) /\ \A m \in net : m.id # pending /\ m.op.kind = "stop"
    BY <2>1, <2>4, <2>5, <2>6, HandledNow
  <2>8. Handled(k8s, task'[Receiver], slots', nets')
    BY <1>0, <2>5, <2>7, HandledNext
  <2>9. k8s.pc # "stop"
    <3>. SUFFICES ASSUME k8s.pc = "stop" PROVE FALSE
      OBVIOUS
    <3>1. rx.op.kind = "stop"
      BY <2>5 DEF NextOp
    <3>. QED BY <1>1, <2>3, <3>1 DEF TaskOK, Creating, Deleting, Settled
  <2>10. task'[Receiver].pc # "idle"
    BY <2>8 DEF Handled
  <2>. QED BY <2>4, <2>5, <2>7, <2>8, <2>9, <2>10, CourseHandled
<1>. QED BY <1>3, <1>4, <1>5, <1>6 DEF ClusterInv

LEMMA InvokeCluster ==
  ASSUME IInv, ClusterInv, Invoke
  PROVE  ClusterInv'
<1>1. PICK w : w = [type |-> "request", id |-> next_req, op |-> NextOp]
  OBVIOUS
<1>2. /\ pending = 0 /\ pending' = next_req /\ net' = net \cup {w} /\ serving' = serving /\ k8s' = k8s
      /\ mix' = mix /\ task' = task /\ slots' = slots /\ nets' = nets
  BY <1>1 DEF Invoke, hostVars
<1>3. /\ next_req # 0 /\ serving # next_req /\ (task[Receiver].pc # "idle" => serving # 0)
      /\ \A m \in net : m.id # 0 /\ m.id # next_req
  BY DEF IInv, RpcInv, RpcOK, MsgOK
<1>4. w.id = next_req /\ w.type = "request"
  BY <1>1
<1>5. ASSUME mix.k8s, Hopeful(k8s) PROVE Course(net', serving, next_req, k8s, task[Receiver], slots, nets)
  <2>1. Course(net, serving, 0, k8s, task[Receiver], slots, nets)
    BY <1>2, <1>5 DEF ClusterInv
  <2>. QED BY <1>2, <1>3, <1>4, <2>1, CourseAsks
<1>. QED BY <1>2, <1>5 DEF ClusterInv

LEMMA RecvRequestCluster ==
  ASSUME IInv, ClusterInv, RecvRequest
  PROVE  ClusterInv'
<1>1. PICK m \in net : /\ m.type = "request" /\ Handle(Receiver, m.op) /\ serving' = m.id
                       /\ net' = net \ {m} /\ UNCHANGED <<next_req, pending, k8s>>
  BY DEF RecvRequest
<1>2. PICK op, rx, rx2 : op = m.op /\ rx = task[Receiver] /\ rx2 = task'[Receiver]
  OBVIOUS
<1>3. /\ HostInv /\ TasksOK(task) /\ Receiver \in Tasks /\ IsNetworkStore(nets) /\ ClusterOK(k8s)
      /\ MsgOK(m, next_req, pending, NextOp) /\ (pending # 0 => k8s.pc \in Calling)
  BY DEF IInv, HostInv, Tasks, NetOK, RpcInv, RpcOK
<1>4. OpOK(op) /\ m.id # 0 /\ (m.id = pending => op = NextOp) /\ Handle(Receiver, op)
  BY <1>1, <1>2, <1>3 DEF MsgOK
<1>5. HostInv' /\ Moved(task, task', Receiver, op)
  BY <1>3, <1>4, HandleOK
<1>6. rx2.op = op /\ rx2.pc # "idle"
  BY <1>2, <1>5 DEF Moved
<1>7. mix' = mix /\ Works(task, task', Receiver, op) /\ rx.pc = "idle"
  BY <1>2, <1>3, <1>4, HandleKeeps, HandleWorks
<1>8. mix.k8s => CallersOK(task')
  <2>1. Receiver \notin Task
    BY HostAssumption
  <2>. QED BY <1>3, <1>7, <2>1, CallersKeep DEF ClusterInv
<1>9. ASSUME mix.k8s, Hopeful(k8s) PROVE Course(net', m.id, pending, k8s, rx2, slots', nets')
  <2>1. Course(net, serving, pending, k8s, rx, slots, nets)
    BY <1>2, <1>9 DEF ClusterInv
  <2>2. op.kind = "stop" => Tame(slots, slots', nets, nets')
    <3>. SUFFICES ASSUME op.kind = "stop" PROVE Tame(slots, slots', nets, nets')
      OBVIOUS
    <3>1. op.kind \notin Harmful \ {"attach_nic"}
      BY DEF Harmful
    <3>. QED BY <1>3, <1>4, <3>1, HandleTame
  <2>3. CASE m.id = pending
    <3>1. op = NextOp /\ k8s.pc \in Calling /\ pending # 0
      BY <1>3, <1>4, <2>3
    <3>2. Stands(k8s, slots, nets)
      BY <1>1, <2>1, <2>3 DEF Course, Asked
    <3>3. Handled(k8s, rx2, slots', nets')
      <4>1. CASE k8s.pc \in Creation
        BY <1>2, <1>4, <3>1, <3>2, <4>1, HandledFirst
      <4>2. CASE k8s.pc \in Destruction
        BY <1>2, <1>4, <3>1, <3>2, <4>2, HandledLast
      <4>. QED BY <3>1, <4>1, <4>2 DEF Calling
    <3>4. k8s.pc = "stop" => Stands(k8s, slots', nets')
      <4>1. k8s.pc = "stop" => op.kind = "stop"
        BY <3>1 DEF NextOp
      <4>. QED BY <1>3, <2>2, <3>2, <4>1, TameKeeps
    <3>5. \A x \in net' : x.id # pending /\ x.op.kind = "stop"
      BY <1>1, <2>1, <2>3 DEF Course, Lone, Strays
    <3>. QED BY <1>6, <2>3, <3>1, <3>3, <3>4, <3>5, CourseHandled
  <2>4. CASE m.id # pending
    <3>1. op.kind = "stop" /\ net' \subseteq net
      BY <1>1, <1>2, <2>1, <2>4 DEF Course, Strays
    <3>2. Course(net', m.id, pending, k8s, rx2, slots, nets)
      BY <1>6, <1>7, <2>1, <2>4, <3>1, CourseStray
    <3>. QED BY <1>3, <2>2, <3>1, <3>2, CourseTame
  <2>. QED BY <2>3, <2>4
<1>10. pending' = pending /\ k8s' = k8s
  BY <1>1
<1>. QED BY <1>1, <1>2, <1>7, <1>8, <1>9, <1>10 DEF ClusterInv

LEMMA SendResponseCluster ==
  ASSUME IInv, ClusterInv, SendResponse
  PROVE  ClusterInv'
<1>0. PICK rx, w : rx = task[Receiver] /\ w = [type |-> "response", id |-> serving, op |-> rx.op, reply |-> rx.reply]
  OBVIOUS
<1>1. /\ rx.pc = "answer" /\ net' = net \cup {w} /\ task' = Put(task, Receiver, Idle) /\ serving' = 0
      /\ pending' = pending /\ k8s' = k8s /\ mix' = mix /\ slots' = slots /\ nets' = nets
  BY <1>0 DEF SendResponse, Put, fixed, stores
<1>2. TasksOK(task) /\ Receiver \in Tasks /\ Receiver \notin Task
  <2>1. Receiver \notin Task
    BY HostAssumption
  <2>. QED BY <2>1 DEF IInv, HostInv, Tasks
<1>3. task'[Receiver] = Idle /\ \A u \in Task : task'[u] = task[u]
  BY <1>1, <1>2 DEF Put, TasksOK, Tasks
<1>4. serving # 0
  BY <1>0, <1>1 DEF IInv, RpcInv, RpcOK
<1>5. w.type = "response" /\ w.id = serving /\ w.op = rx.op /\ w.reply = rx.reply
  BY <1>0
<1>6. mix.k8s => CallersOK(task')
  BY <1>3 DEF ClusterInv, CallersOK
<1>7. ASSUME mix.k8s, Hopeful(k8s) PROVE Course(net', 0, pending, k8s, task'[Receiver], slots, nets)
  <2>1. Course(net, serving, pending, k8s, rx, slots, nets)
    BY <1>0, <1>7 DEF ClusterInv
  <2>2. task'[Receiver].pc = "idle"
    BY <1>3, IdleOK
  <2>. QED BY <1>1, <1>4, <1>5, <2>1, <2>2, CourseSends
<1>. QED BY <1>1, <1>6, <1>7 DEF ClusterInv

LEMMA LoseCluster ==
  ASSUME IInv, ClusterInv, net' \subseteq net, UNCHANGED <<hostVars, serving, pending, k8s>>
  PROVE  ClusterInv'
<1>1. /\ mix' = mix /\ task' = task /\ slots' = slots /\ nets' = nets
      /\ serving' = serving /\ pending' = pending /\ k8s' = k8s
  BY DEF hostVars
<1>2. ASSUME mix.k8s, Hopeful(k8s) PROVE Course(net', serving, pending, k8s, task[Receiver], slots, nets)
  <2>1. Course(net, serving, pending, k8s, task[Receiver], slots, nets)
    BY <1>2 DEF ClusterInv
  <2>. QED BY <2>1, CourseLess
<1>. QED BY <1>1, <1>2 DEF ClusterInv

\* The caller goes on with an answer.
LEMMA AdvanceCluster ==
  ASSUME IInv, ClusterInv, pending # 0, NEW r, Advance(r), pending' = 0, net' \subseteq net,
         UNCHANGED <<hostVars, serving>>,
         NEW d, d = Goes(k8s, r),
         Hopeful(k8s) /\ Hopeful(d) /\ mix.k8s =>
           /\ Stands(d, slots, nets)
           /\ \A m \in net' : m.op.kind = "stop"
           /\ task[Receiver].pc # "idle" => task[Receiver].op.kind = "stop"
  PROVE  ClusterInv'
<1>1. /\ mix' = mix /\ task' = task /\ slots' = slots /\ nets' = nets /\ serving' = serving
      /\ k8s' = d
  BY DEF hostVars, Advance, Goes
<1>2. /\ ClusterOK(k8s) /\ k8s.pc \in Calling
      /\ (task[Receiver].pc # "idle" => serving # 0) /\ \A m \in net : m.id # 0
  BY DEF IInv, RpcInv, RpcOK, MsgOK
<1>3. ErrOK(d) /\ (Hopeful(d) => Hopeful(k8s)) /\ mix.k8s
  BY <1>2, ErrGoes DEF ClusterInv, Calling, Creation, Destruction
<1>4. ASSUME Hopeful(d) PROVE Course(net', serving, 0, d, task[Receiver], slots, nets)
  BY <1>2, <1>3, <1>4, CourseRests
<1>. QED BY <1>1, <1>3, <1>4 DEF ClusterInv

LEMMA RecvResponseCluster ==
  ASSUME IInv, ClusterInv, RecvResponse
  PROVE  ClusterInv'
<1>1. PICK m \in net : /\ m.type = "response" /\ net' = net \ {m}
                       /\ IF m.id = pending THEN Advance(m.reply) /\ pending' = 0 ELSE UNCHANGED <<k8s, pending>>
                       /\ UNCHANGED <<hostVars, serving, next_req>>
  BY DEF RecvResponse
<1>2. CASE m.id = pending
  <2>0. PICK r, d : r = m.reply /\ d = Goes(k8s, r)
    OBVIOUS
  <2>1. pending # 0 /\ Advance(r) /\ pending' = 0 /\ net' \subseteq net /\ UNCHANGED <<hostVars, serving>>
    BY <1>1, <1>2, <2>0 DEF IInv, RpcInv, RpcOK, MsgOK
  <2>2. ASSUME Hopeful(k8s), Hopeful(d), mix.k8s
        PROVE  /\ Stands(d, slots, nets)
               /\ \A x \in net' : x.op.kind = "stop"
               /\ task[Receiver].pc # "idle" => task[Receiver].op.kind = "stop"
    <3>1. Course(net, serving, pending, k8s, task[Receiver], slots, nets)
      BY <2>2 DEF ClusterInv
    <3>2. Stands(d, slots, nets)
      BY <1>1, <1>2, <2>0, <2>2, <3>1 DEF Course, Told, Promise
    <3>3. \A x \in net' : x.op.kind = "stop"
      BY <1>1, <1>2, <3>1 DEF Course, Lone, Strays
    <3>4. task[Receiver].pc # "idle" => task[Receiver].op.kind = "stop"
      BY <1>1, <1>2, <3>1 DEF Course, Lone, Strays
    <3>. QED BY <3>2, <3>3, <3>4
  <2>. QED BY <2>0, <2>1, <2>2, AdvanceCluster
<1>3. CASE m.id # pending
  BY <1>1, <1>3, LoseCluster
<1>. QED BY <1>2, <1>3

LEMMA TimeoutCluster ==
  ASSUME IInv, ClusterInv, Timeout
  PROVE  ClusterInv'
<1>0. PICK r, d : r = NoReply /\ d = Goes(k8s, r)
  OBVIOUS
<1>1. /\ pending # 0 /\ Advance(r) /\ pending' = 0 /\ net' \subseteq net /\ UNCHANGED <<hostVars, serving>>
      /\ ClusterOK(k8s) /\ k8s.pc \in Calling /\ ~r.ok
  BY <1>0 DEF Timeout, IInv, RpcInv, RpcOK, NoReply
<1>2. ASSUME Hopeful(k8s), Hopeful(d), mix.k8s
      PROVE  /\ Stands(d, slots, nets)
             /\ \A m \in net' : m.op.kind = "stop"
             /\ task[Receiver].pc # "idle" => task[Receiver].op.kind = "stop"
  <2>1. Course(net, serving, pending, k8s, task[Receiver], slots, nets)
    BY <1>2 DEF ClusterInv
  <2>2. k8s.pc = "stop"
    <3>1. k8s.pc \notin Creation
      BY <1>0, <1>1, <1>2, CreatedFields
    <3>2. k8s.pc \in Destruction
      BY <1>1, <3>1 DEF Calling
    <3>. QED BY <1>0, <1>1, <1>2, <3>2, DestroyedWell
  <2>3. Stands(k8s, slots, nets)
    BY <2>1, <2>2 DEF Course
  <2>4. Promise(d, slots, nets)
    BY <1>0, <1>1, <2>2, <2>3, Stopped
  <2>5. NextOp.kind = "stop"
    BY <2>2 DEF NextOp
  <2>6. ASSUME NEW m \in net PROVE m.op.kind = "stop"
    <3>1. m.id = pending => m.op = NextOp
      BY DEF IInv, RpcInv, RpcOK, MsgOK
    <3>2. m.id # pending => m.op.kind = "stop"
      BY <2>1 DEF Course, Strays
    <3>. QED BY <2>5, <3>1, <3>2
  <2>7. task[Receiver].pc # "idle" => task[Receiver].op.kind = "stop"
    <3>1. task[Receiver].pc # "idle" /\ serving = pending => task[Receiver].op = NextOp
      BY DEF IInv, RpcInv, RpcOK
    <3>2. task[Receiver].pc # "idle" /\ serving # pending => task[Receiver].op.kind = "stop"
      BY <2>1 DEF Course, Strays
    <3>. QED BY <2>5, <3>1, <3>2
  <2>. QED BY <1>1, <1>2, <2>4, <2>6, <2>7 DEF Promise
<1>. QED BY <1>0, <1>1, <1>2, AdvanceCluster

\* An operator's request: the cluster goes on to d with nobody waiting.
LEMMA OperatorCluster ==
  ASSUME IInv, ClusterInv, pending = 0, UNCHANGED <<hostVars, net, serving, pending>>,
         ErrOK(k8s'), mix.k8s, Hopeful(k8s') => Hopeful(k8s),
         Stands(k8s, slots, nets) => Stands(k8s', slots, nets)
  PROVE  ClusterInv'
<1>1. /\ mix' = mix /\ task' = task /\ slots' = slots /\ nets' = nets
      /\ net' = net /\ serving' = serving /\ pending' = 0
  BY DEF hostVars
<1>2. (task[Receiver].pc # "idle" => serving # 0) /\ \A m \in net : m.id # 0
  BY DEF IInv, RpcInv, RpcOK, MsgOK
<1>3. ASSUME Hopeful(k8s') PROVE Course(net, serving, 0, k8s', task[Receiver], slots, nets)
  <2>1. Course(net, serving, 0, k8s, task[Receiver], slots, nets)
    BY <1>3 DEF ClusterInv
  <2>2. Stands(k8s', slots, nets)
    BY <2>1 DEF Course
  <2>3. /\ \A m \in net : m.op.kind = "stop"
        /\ task[Receiver].pc # "idle" => task[Receiver].op.kind = "stop"
    BY <1>2, <2>1 DEF Course, Strays
  <2>. QED BY <1>2, <2>2, <2>3, CourseRests
<1>. QED BY <1>1, <1>3 DEF ClusterInv

LEMMA K8sCreateCluster ==
  ASSUME IInv, ClusterInv, K8sCreate
  PROVE  ClusterInv'
<1>1. PICK p \in K8sPrefixes : Parses(p) /\ k8s' = [NoCluster EXCEPT !.pc = "network", !.prefix_len = p]
  BY DEF K8sCreate
<1>2. PICK d : d = k8s'
  OBVIOUS
<1>3. mix.k8s /\ k8s.pc = "none" /\ UNCHANGED <<hostVars, net, serving, pending>> /\ ClusterOK(k8s)
  BY DEF K8sCreate, IInv, RpcInv, RpcOK
<1>4. d.pc = "network" /\ d.nodes = <<>> /\ d.err = FALSE
  BY <1>1, <1>2 DEF NoCluster
<1>5. pending = 0
  BY <1>3 DEF IInv, RpcInv, RpcOK, Calling, Creation, Destruction
<1>6. ErrOK(d) /\ Hopeful(k8s)
  BY <1>3, <1>4 DEF ErrOK, Hopeful, ClusterInv
<1>7. ASSUME Stands(k8s, slots, nets) PROVE Stands(d, slots, nets)
  <2>1. Len(k8s.nodes) = 0 /\ Len(d.nodes) = 0
    BY <1>3, <1>4, <1>7 DEF Stands
  <2>2. FirstVm(k8s) = 1 /\ FirstNic(k8s) = 1 /\ FirstVm(d) = 1 /\ FirstNic(d) = 1
    BY <1>3, <1>4, Firsts
  <2>3. VmsStand(k8s, slots, 1, {}) /\ NicsStand(k8s, nets, 1)
    BY <1>3, <1>7, <2>2 DEF Stands
  <2>4. 1..0 = {}
    OBVIOUS
  <2>5. VmsStand(d, slots, 1, {})
    BY <2>1, <2>3, <2>4 DEF VmsStand, VmsFrom
  <2>6. NicsStand(d, nets, 1)
    BY <2>1, <2>3, <2>4 DEF NicsStand
  <2>7. NodesOK(d)
    BY <2>1, <2>4 DEF NodesOK
  <2>. QED BY <1>4, <2>2, <2>5, <2>6, <2>7 DEF Stands, Existing, Destruction
<1>. QED BY <1>2, <1>3, <1>5, <1>6, <1>7, OperatorCluster

LEMMA K8sDestroyCluster ==
  ASSUME IInv, ClusterInv, K8sDestroy
  PROVE  ClusterInv'
<1>1. PICK d : d = k8s'
  OBVIOUS
<1>2. /\ k8s.pc = "up" /\ d = [k8s EXCEPT !.pc = "del_lb"] /\ ClusterOK(k8s)
      /\ UNCHANGED <<hostVars, net, serving, pending>>
  BY <1>1 DEF K8sDestroy, IInv, RpcInv, RpcOK
<1>3. /\ d.pc = "del_lb" /\ d.nodes = k8s.nodes /\ d.prefix_len = k8s.prefix_len
      /\ d.network = k8s.network /\ d.lb = k8s.lb /\ d.err = k8s.err
  BY <1>2 DEF ClusterOK
<1>4. pending = 0 /\ mix.k8s
  BY <1>2 DEF IInv, RpcInv, RpcOK, Calling, Creation, Destruction, ClusterInv
<1>5. ErrOK(d) /\ (Hopeful(d) => Hopeful(k8s))
  BY <1>2, <1>3 DEF ErrOK, Hopeful, ClusterInv, Creation
<1>6. ASSUME Stands(k8s, slots, nets) PROVE Stands(d, slots, nets)
  <2>1. FirstVm(k8s) = 1 /\ FirstNic(k8s) = 1 /\ FirstVm(d) = 1 /\ FirstNic(d) = 1
    BY <1>2, <1>3, Firsts
  <2>2. k8s.pc \in Existing
    BY <1>2 DEF Existing
  <2>3. NodesOK(k8s) /\ VmsStand(k8s, slots, 1, {}) /\ NicsStand(k8s, nets, 1) /\ NetworkStands(k8s, nets) /\ LbStands(k8s, nets)
    BY <1>2, <1>6, <2>1, <2>2 DEF Stands
  <2>4. NodesOK(d) /\ VmsStand(d, slots, 1, {}) /\ NicsStand(d, nets, 1) /\ NetworkStands(d, nets)
    BY <1>3, <2>3, SameNodes
  <2>5. LbStands(d, nets)
    BY <1>3, <2>3 DEF LbStands, WorkersOf
  <2>. QED BY <1>3, <2>1, <2>4, <2>5 DEF Stands
<1>. QED BY <1>1, <1>2, <1>4, <1>5, <1>6, OperatorCluster

LEMMA InitCluster == Init => ClusterInv
<1>. SUFFICES ASSUME Init PROVE ClusterInv
  OBVIOUS
<1>1. /\ net = {} /\ serving = 0 /\ pending = 0 /\ k8s = NoCluster /\ slots = [v \in Vm |-> NoVm]
      /\ nets = NewNetworkStore /\ task = [t \in Task \cup {Receiver} |-> Idle]
  BY DEF Init, HostInit
<1>2. NoCluster.pc = "none" /\ NoCluster.nodes = <<>> /\ NoCluster.err = FALSE
  BY DEF NoCluster
<1>3. task[Receiver].pc = "idle" /\ CallersOK(task)
  BY <1>1, IdleOK DEF CallersOK
<1>4. ErrOK(k8s) /\ k8s.pc = "none"
  BY <1>1, <1>2 DEF ErrOK
<1>5. Stands(k8s, slots, nets)
  <2>1. Len(k8s.nodes) = 0 /\ 1..0 = {}
    BY <1>1, <1>2
  <2>2. FirstVm(k8s) = 1 /\ FirstNic(k8s) = 1
    BY <1>4, Firsts
  <2>3. Unpriced(slots) = {}
    BY <1>1 DEF Unpriced
  <2>4. VmsStand(k8s, slots, 1, {})
    BY <2>1, <2>3 DEF VmsStand, VmsFrom
  <2>5. DOMAIN nets.nics = {}
    BY <1>1 DEF NewNetworkStore, Empty
  <2>6. NicsStand(k8s, nets, 1)
    BY <2>1, <2>5 DEF NicsStand
  <2>7. NodesOK(k8s)
    BY <2>1 DEF NodesOK
  <2>. QED BY <1>4, <2>1, <2>2, <2>4, <2>6, <2>7 DEF Stands, Existing, Destruction
<1>6. Course(net, serving, 0, k8s, task[Receiver], slots, nets)
  BY <1>1, <1>3, <1>5, CourseRests
<1>. QED BY <1>1, <1>3, <1>4, <1>6 DEF ClusterInv

LEMMA NextCluster ==
  ASSUME Peaceful, IInv, ClusterInv, [Next]_vars
  PROVE  ClusterInv'
<1>1. ASSUME NEW t \in Task, Local(t), UNCHANGED rpcVars PROVE ClusterInv'
  BY <1>1, LocalCluster
<1>2. ASSUME NEW t \in Task \cup {Receiver}, Proceed(t), UNCHANGED rpcVars PROVE ClusterInv'
  <2>1. CASE t \in Task
    BY <1>2, <2>1, CallerCluster
  <2>2. CASE t = Receiver
    BY <1>2, <2>2, ReceiverCluster
  <2>. QED BY <2>1, <2>2
<1>3. CASE Snapshot /\ UNCHANGED rpcVars
  <2>1. mix' = mix /\ task' = task /\ slots' = slots /\ nets' = nets
    BY <1>3 DEF Snapshot, stores
  <2>2. HostInv /\ Tame(slots, slots', nets, nets')
    BY <2>1, SameNets DEF IInv, HostInv, NetOK, Tame
  <2>. QED BY <1>3, <2>1, <2>2, ClusterHost DEF ClusterInv
<1>4. CASE mix.crash /\ Crash /\ UNCHANGED rpcVars
  <2>1. mix' = mix /\ k8s' = k8s
    BY <1>4 DEF Crash, rpcVars
  <2>2. ~mix.k8s
    BY <1>4 DEF IInv, HostInv, Peaceful
  <2>. QED BY <2>1, <2>2 DEF ClusterInv
<1>5. CASE Invoke BY <1>5, InvokeCluster
<1>6. CASE RecvRequest BY <1>6, RecvRequestCluster
<1>7. CASE SendResponse BY <1>7, SendResponseCluster
<1>8. CASE Lose
  BY <1>8, LoseCluster DEF Lose
<1>9. CASE RecvResponse BY <1>9, RecvResponseCluster
<1>10. CASE Timeout BY <1>10, TimeoutCluster
<1>11. CASE K8sCreate BY <1>11, K8sCreateCluster
<1>12. CASE K8sDestroy BY <1>12, K8sDestroyCluster
<1>13. CASE UNCHANGED vars
  BY <1>13, LoseCluster DEF vars, rpcVars
<1>. QED BY <1>1, <1>2, <1>3, <1>4, <1>5, <1>6, <1>7, <1>8, <1>9, <1>10, <1>11, <1>12, <1>13 DEF Next

\* A block holds a number of hosts.
LEMMA PlanRoom ==
  ASSUME NEW c, c.prefix_len \in Nat, Parses(c.prefix_len)
  PROVE  Capacity(Plan(c)) \in Nat
<1>1. 0 \in Addr
  BY PowersAssumption, NetworkAssumption DEF Addr
<1>2. Plan(c) \in Cidr4
  BY <1>1, ParseBlock DEF Plan, Block
<1>3. Plan(c).prefix_len \in 0..AddrBits
  BY <1>2 DEF Cidr4
<1>4. AddrBits - Plan(c).prefix_len \in 0..AddrBits
  BY <1>3, NetworkAssumption
<1>5. BlockSize(Plan(c)) \in Nat
  BY <1>4, PowersAssumption DEF BlockSize
<1>. QED BY <1>5, MaxZero DEF Capacity

\* As many VMs as nodes.
LEMMA VmsCounted ==
  ASSUME NEW c, NodesOK(c), NEW n \in Nat, n = Len(c.nodes)
  PROVE  Cardinality({c.nodes[j].vm : j \in 1..n}) = n
<1>. DEFINE S == {c.nodes[j].vm : j \in 1..n}
            f == [j \in 1..n |-> c.nodes[j].vm]
<1>1. f \in [1..n -> S] /\ \A v \in S : \E j \in 1..n : f[j] = v
  OBVIOUS
<1>2. \A j, k \in 1..n : f[j] = f[k] => j = k
  BY DEF NodesOK
<1>. HIDE DEF f
<1>3. f \in Bijection(1..n, S)
  BY <1>1, <1>2 DEF Bijection, Injection, Surjection, IsInjective
<1>4. ExistsBijection(1..n, S)
  BY <1>3 DEF ExistsBijection
<1>. HIDE DEF S
<1>5. Cardinality(S) = n
  BY <1>4, FS_CountingElements
<1>. QED BY <1>5 DEF S

\* When nobody waits, what is to stand stands.
LEMMA StandsNow ==
  ASSUME IInv, ClusterInv, k8s.pc \in {"up", "gone"}
  PROVE  Stands(k8s, slots, nets) /\ ClusterOK(k8s)
<1>1. k8s.pc \notin Calling /\ k8s.pc \notin {"none", "failed"}
  BY DEF Calling, Creation, Destruction
<1>2. pending = 0 /\ ClusterOK(k8s)
  BY <1>1 DEF IInv, RpcInv, RpcOK
<1>3. mix.k8s /\ Hopeful(k8s)
  BY <1>1 DEF ClusterInv, ErrOK, Hopeful
<1>4. Course(net, serving, pending, k8s, task[Receiver], slots, nets)
  BY <1>3 DEF ClusterInv
<1>. QED BY <1>2, <1>4 DEF Course

LEMMA UpAsPromised ==
  ASSUME IInv, ClusterInv
  PROVE  ClusterAsPromised
<1>. SUFFICES ASSUME k8s.pc = "up" PROVE ClusterAsPromised
  BY DEF ClusterAsPromised
<1>0. PICK L, P, c : L = Workers + 1 /\ P = Cidr /\ c = k8s
  OBVIOUS
<1>1. /\ Stands(c, slots, nets) /\ ClusterOK(c) /\ Plan(c) = P
  BY <1>0, StandsNow DEF Plan, Cidr
<1>2. /\ c.pc = "up" /\ Len(c.nodes) = L /\ L \in Nat /\ Workers \in Nat \ {0}
      /\ c.prefix_len \in Nat /\ Parses(c.prefix_len)
  BY <1>0, <1>1, K8sAssumption DEF ClusterOK, Complete
<1>3. NodesOK(c) /\ VmsStand(c, slots, 1, {}) /\ NicsStand(c, nets, 1) /\ LbStands(c, nets)
  BY <1>1, <1>2, Firsts DEF Stands
<1>4. ASSUME NEW i \in 1..L
      PROVE  /\ slots[c.nodes[i].vm] # NoVm
             /\ nets.nics[c.nodes[i].nic] = [network |-> c.network, vm |-> c.nodes[i].vm, ip |-> NthHost(P, i)]
  <2>1. c.nodes[i].vm \in Unpriced(slots)
    BY <1>2, <1>3 DEF VmsStand, VmsFrom
  <2>2. nets.nics[c.nodes[i].nic] = [network |-> c.network, vm |-> c.nodes[i].vm, ip |-> NthHost(P, i)]
    BY <1>1, <1>2, <1>3 DEF NicsStand
  <2>. QED BY <2>1, <2>2 DEF Unpriced
<1>5. Cardinality({c.nodes[i].vm : i \in 1..L}) = L
  BY <1>2, <1>3, VmsCounted
<1>6. {nets.lbs[c.lb].backends[PickRoundRobin(Workers, tick)].ip : tick \in 0..(Workers - 1)}
        = {NthHost(P, i) : i \in 2..L}
  <2>1. ASSUME NEW tick \in 0..(Workers - 1)
        PROVE  nets.lbs[c.lb].backends[PickRoundRobin(Workers, tick)].ip = NthHost(P, tick + 2) /\ tick + 2 \in 2..L
    <3>1. tick % Workers = tick
      BY <1>2
    <3>2. PickRoundRobin(Workers, tick) = tick + 1 /\ tick + 1 \in 1..Workers /\ tick + 1 + 1 = tick + 2
      BY <1>2, <3>1 DEF PickRoundRobin
    <3>3. nets.lbs[c.lb].backends[tick + 1].ip = c.nodes[tick + 2].ip
      BY <1>3, <3>2 DEF LbStands, WorkersOf
    <3>4. tick + 2 \in 1..L /\ tick + 2 \in 2..L
      BY <1>0, <1>2
    <3>. QED BY <1>1, <1>2, <1>3, <3>2, <3>3, <3>4 DEF NodesOK
  <2>2. ASSUME NEW i \in 2..L PROVE i - 2 \in 0..(Workers - 1) /\ (i - 2) + 2 = i
    BY <1>0, <1>2
  <2>3. ASSUME NEW i \in 2..L
        PROVE  \E tick \in 0..(Workers - 1) :
                 NthHost(P, i) = nets.lbs[c.lb].backends[PickRoundRobin(Workers, tick)].ip
    BY <2>1, <2>2
  <2>. QED BY <2>1, <2>3
<1>7. ASSUME Capacity(P) > L, NEW i \in DOMAIN nets.nics PROVE nets.nics[i].ip # NthHost(P, Capacity(P))
  <2>1. PICK j \in 1..L : i = c.nodes[j].nic
    BY <1>2, <1>3 DEF NicsStand
  <2>2. nets.nics[i].ip = NthHost(P, j)
    BY <1>1, <1>2, <1>3, <2>1, NicOfNode
  <2>3. P.base \in Nat /\ Capacity(P) \in Nat
    BY <1>1, <1>2, PlanBase, PlanRoom
  <2>4. j # Capacity(P) /\ j \in Nat
    BY <1>2, <1>7, <2>1, <2>3
  <2>. QED BY <2>2, <2>3, <2>4 DEF NthHost
<1>. QED BY <1>0, <1>2, <1>4, <1>5, <1>6, <1>7 DEF ClusterAsPromised, Vip

LEMMA GoneLeavesNothing ==
  ASSUME IInv, ClusterInv
  PROVE  NothingLeft
<1>. SUFFICES ASSUME k8s.pc = "gone" PROVE NothingLeft
  BY DEF NothingLeft
<1>1. Stands(k8s, slots, nets) /\ ClusterOK(k8s)
  BY StandsNow
<1>2. PICK L : L = Len(k8s.nodes)
  OBVIOUS
<1>3. L \in Nat /\ (L + 1)..L = {}
  BY <1>1, <1>2 DEF ClusterOK
<1>4. VmsStand(k8s, slots, L + 1, {}) /\ NicsStand(k8s, nets, L + 1)
  BY <1>1, <1>2, Firsts DEF Stands
<1>5. DOMAIN nets.nics = {} /\ Unpriced(slots) = {}
  BY <1>2, <1>3, <1>4 DEF VmsStand, VmsFrom, NicsStand
<1>6. \A v \in Vm : slots[v] # NoVm => slots[v].cost # 0
  BY <1>5 DEF Unpriced
<1>7. k8s.network \notin DOMAIN nets.networks /\ k8s.lb \notin DOMAIN nets.lbs
  BY <1>1 DEF Stands
<1>. QED BY <1>5, <1>6, <1>7 DEF NothingLeft

---------------------------------------------------------------------------
(* Theorems. *)

\* The inductive invariant: stores that are sound in themselves, tasks that find a
\* number when they need one, attachments to volumes that have existed, and
\* datagrams that carry the operation the caller waits for.
THEOREM Invariance == Spec => []IInv
  BY InitInv, NextInv, PTL DEF Spec

\* TypeOK: the tables of the host, of its stores and of the wrapper keep their
\* shape, usage stays within the quota, and create and destroy make no more than
\* MaxReq requests.
THEOREM TypeCorrect == Spec => []TypeOK
<1>1. IInv => TypeOK
  <2>. SUFFICES ASSUME IInv PROVE TypeOK
    OBVIOUS
  <2>1. slots \in [Vm -> Slot] /\ IsVolumeStore(vault) /\ IsNetworkStore(nets)
    BY DEF IInv, HostInv, SlotsOK, VaultOK, NetOK
  <2>2. /\ usage \in [vcpus : 0..Quota.vcpus, storage_bytes : 0..Quota.storage_bytes]
        /\ DOMAIN vm_charges \subseteq Vm /\ DOMAIN volume_charges \subseteq VolumeId
    BY DEF IInv, HostInv, UsageOK, ChargesOK
  <2>3. /\ ClusterOK(k8s) /\ next_req \in Nat \ {0} /\ pending \in Nat /\ pending < next_req
        /\ next_req <= 1 + Done(k8s) + Waits(pending)
        /\ pending # 0 => k8s.pc \in Calling
    BY DEF IInv, RpcInv, RpcOK
  <2>4. /\ Done(k8s) \in Nat /\ Done(k8s) <= MaxReq /\ MaxReq \in Nat
        /\ k8s.pc \in Calling => Done(k8s) + 1 <= MaxReq
    BY <2>3, DoneType, K8sAssumption DEF MaxReq
  <2>5. next_req <= MaxReq + 1
    BY <2>3, <2>4 DEF Waits
  <2>6. pending \in 0..MaxReq /\ next_req \in 1..(MaxReq + 1)
    BY <2>3, <2>4, <2>5
  <2>. QED BY <2>1, <2>2, <2>6 DEF TypeOK
<1>. QED BY <1>1, Invariance, PTL

\* AddressesSound: however callers race, an address of a network has one holder,
\* a NIC of that network, and lies in its block, and no network disappears under a
\* NIC or a balancer (network.rs, attach_nic, detach_nic, delete_network).
THEOREM AddressesCorrect == Spec => []AddressesSound
<1>1. IInv => AddressesSound
  BY DEF IInv, HostInv, NetOK, AddressesSound
<1>. QED BY <1>1, Invariance, PTL

\* SnapshotsSound: no snapshot outlives its volume or differs from it in size
\* (celvault/src/lib.rs, delete and integrity_check).
THEOREM SnapshotsCorrect == Spec => []SnapshotsSound
<1>1. IInv => SnapshotsSound
  BY DEF IInv, HostInv, VaultOK, SnapshotsSound
<1>. QED BY <1>1, Invariance, PTL

\* A step brings at most the volume of the next number into being.
LEMMA NewRows ==
  ASSUME IInv, [Next]_vars
  PROVE  DOMAIN vault'.rows \subseteq DOMAIN vault.rows \cup {vault.next + 1}
<1>0. VaultOK(vault)
  BY DEF IInv, HostInv
<1>1. CASE vault' = vault
  BY <1>1
<1>2. ASSUME NEW t, VolumeCreate(t) PROVE DOMAIN vault'.rows \subseteq DOMAIN vault.rows \cup {vault.next + 1}
  <2>1. vault' = vault \/ vault' = CreateVolume(vault, task[t].op.size)
    BY <1>2 DEF VolumeCreate
  <2>2. CASE vault' = CreateVolume(vault, task[t].op.size)
    BY <1>0, <2>2 DEF CreateVolume, NextVolumeId, VaultOK, IsVolumeStore
  <2>. QED BY <1>1, <2>1, <2>2
<1>3. ASSUME NEW t \in Tasks, VolumeDelete2(t) PROVE DOMAIN vault'.rows \subseteq DOMAIN vault.rows
  <2>1. vault' = DeleteVolume(vault, task[t].op.volume) /\ task[t].op.volume \in VolumeId
    BY <1>3 DEF VolumeDelete2, IInv, HostInv, TasksOK, TaskOK, OpOK
  <2>. QED BY <1>0, <2>1, VaultDelete
<1>4. ASSUME NEW t, NEW op, Handle(t, op) PROVE DOMAIN vault'.rows \subseteq DOMAIN vault.rows
  <2>1. CASE SnapshotCreate(t, op)
    <3>1. vault' = vault \/ vault' = CreateSnapshot(vault, op.volume)
      BY <2>1 DEF SnapshotCreate
    <3>2. vault'.rows = vault.rows
      BY <1>0, <3>1 DEF CreateSnapshot, VaultOK, IsVolumeStore
    <3>. QED BY <3>2
  <2>2. CASE SnapshotDelete(t, op)
    <3>1. vault' = vault \/ vault' = DeleteSnapshot(vault, op.snapshot)
      BY <2>2 DEF SnapshotDelete
    <3>2. vault'.rows = vault.rows
      BY <1>0, <3>1 DEF DeleteSnapshot, VaultOK, IsVolumeStore
    <3>. QED BY <3>2
  <2>3. CASE ~SnapshotCreate(t, op) /\ ~SnapshotDelete(t, op)
    <3>1. vault' = vault
      BY <1>4, <2>3 DEF Handle, Charge, Start, Stop, Delete, VolumeDelete, AttachVolume, DetachVolume,
         SnapshotRestore, NetworkCreate, NetworkDelete, NicAttach, NicDetach, SgCreate, SgDelete, LbCreate,
         LbDelete, stores
    <3>. QED BY <3>1
  <2>. QED BY <2>1, <2>2, <2>3
<1>5. ASSUME NEW t \in Task, Local(t) PROVE DOMAIN vault'.rows \subseteq DOMAIN vault.rows
  BY <1>4, <1>5 DEF Local
<1>6. ASSUME NEW t \in Tasks, Proceed(t)
      PROVE  DOMAIN vault'.rows \subseteq DOMAIN vault.rows \cup {vault.next + 1}
  <2>1. CASE VolumeCreate(t) BY <2>1, <1>2
  <2>2. CASE VolumeDelete2(t) BY <2>2, <1>3
  <2>3. CASE ~VolumeCreate(t) /\ ~VolumeDelete2(t)
    <3>1. vault' = vault
      BY <1>6, <2>3 DEF Proceed, Create, AttachVolume2, NicAttach2, Settle, stores
    <3>. QED BY <3>1
  <2>. QED BY <2>1, <2>2, <2>3
<1>7. CASE Crash
  <2>1. DOMAIN vault'.rows = {}
    BY <1>7 DEF Crash, NewVolumeStore
  <2>. QED BY <2>1
<1>8. CASE Snapshot
  BY <1>8, <1>1 DEF Snapshot, stores
<1>9. CASE RecvRequest
  BY <1>9, <1>4 DEF RecvRequest
<1>10. CASE Invoke \/ SendResponse \/ Lose \/ RecvResponse \/ Timeout \/ K8sCreate \/ K8sDestroy \/ UNCHANGED vars
  <2>1. vault' = vault
    BY <1>10 DEF Invoke, SendResponse, Lose, RecvResponse, Timeout, K8sCreate, K8sDestroy, vars, hostVars, stores
  <2>. QED BY <2>1
<1>. QED BY <1>5, <1>6, <1>7, <1>8, <1>9, <1>10 DEF Next, Tasks

\* AttachmentsNeverAlias: an attachment that an unlucky order of attach_volume and
\* delete_volume left behind (host.rs) never becomes one to another volume.
THEOREM NoAliases == Spec => AttachmentsNeverAlias
<1>1. IInv /\ [Next]_vars => [\A v \in DOMAIN vault'.rows \ DOMAIN vault.rows : ~Attached(v)]_vars
  <2>. SUFFICES ASSUME IInv, [Next]_vars, NEW v \in DOMAIN vault'.rows \ DOMAIN vault.rows
                PROVE  ~Attached(v)
    OBVIOUS
  <2>1. v = vault.next + 1 /\ vault.next \in Nat
    BY NewRows DEF IInv, HostInv, VaultOK, IsVolumeStore
  <2>2. \A m \in Vm : v \notin slots[m].volumes
    BY <2>1 DEF IInv, HostInv, SlotsOK
  <2>. QED BY <2>2 DEF Attached
<1>. QED BY <1>1, Invariance, PTL DEF Spec, AttachmentsNeverAlias

\* AnswersOwnRequest: whatever is lost or late, the answer invoke returns to create
\* or destroy is the host's answer to the request it was made for (mesh.rs).
THEOREM OwnAnswers == Spec => AnswersOwnRequest
<1>1. IInv => \A m \in net : m.id = pending => m.op = NextOp
  BY DEF IInv, RpcInv, RpcOK, MsgOK
<1>2. IInv /\ [Next]_vars
        => [\A m \in net \ net' : m.type = "response" /\ m.id = pending /\ pending' = 0 => m.op = NextOp]_vars
  BY <1>1
<1>. QED BY <1>2, Invariance, PTL DEF Spec, AnswersOwnRequest

\* UsageIsDue: a tenant is charged for what its VMs and volumes cost, for what is on
\* its way through the wrapper, and for what a crash has left behind, to the unit,
\* unless two tasks have settled the same id at once (runtime.rs, handle).
THEOREM UsageDue == Spec => []UsageIsDue
<1>1. Spec => []BooksInv
  BY InitBooks, NextBooks, Invariance, PTL DEF Spec
<1>2. IInv /\ BooksInv => UsageIsDue
  BY BooksBalance DEF IInv, BooksInv, Books, UsageIsDue
<1>. QED BY <1>1, <1>2, Invariance, PTL

\* The inductive invariant of a cluster's course.
THEOREM ClusterInvariance ==
  ASSUME Peaceful
  PROVE  Spec => [](IInv /\ ClusterInv)
<1>1. IInv /\ ClusterInv /\ [Next]_vars => (IInv /\ ClusterInv)'
  BY NextInv, NextCluster
<1>. QED BY <1>1, InitInv, InitCluster, PTL DEF Spec

\* "after create returns, you have N+1 VMs all attached to one private network with
\* deterministic IPs, plus a load balancer in front of the workers" (k8s.rs), for
\* every number of workers, every block and every loss, delay and order of datagrams,
\* beside callers that take nothing away.
THEOREM ClusterCorrect ==
  ASSUME Peaceful
  PROVE  Spec => []ClusterAsPromised
<1>1. IInv /\ ClusterInv => ClusterAsPromised
  BY UpAsPromised
<1>. QED BY <1>1, ClusterInvariance, PTL

\* A destroy that reports success has removed the network, the balancer, every NIC
\* and every VM of the cluster, under the same conditions.
THEOREM DestroyCorrect ==
  ASSUME Peaceful
  PROVE  Spec => []NothingLeft
<1>1. IInv /\ ClusterInv => NothingLeft
  BY GoneLeavesNothing
<1>. QED BY <1>1, ClusterInvariance, PTL

=============================================================================
