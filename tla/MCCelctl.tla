------------------------------ MODULE MCCelctl ------------------------------
(***************************************************************************)
(* Model-checking instance of the command line: Celctl and TenantCli side  *)
(* by side.  The two share no file, so a behaviour runs commands of the    *)
(* one or of the other.  The image files below are written by encoders for *)
(* the formats, from what the guest is to see and how it is allocated.     *)
(***************************************************************************)
EXTENDS Celctl, TenantCli

\* Two units to a cluster, two entries to a table, two clusters in the boot page.
Clusters(n) == 0..(CeilDiv(n, ClusterLen) - 1)

\* A guest's disk of n units, all different, but for the clusters in z that are zeros.
Guest(n, z, tag) ==
  [i \in 1..n |-> IF (i - 1) \div ClusterLen \in z THEN 0 ELSE tag + i]

\* The units of cluster c; the last one is padded.
ClusterOf(g, c) ==
  [i \in 1..ClusterLen |-> IF c * ClusterLen + i <= Len(g) THEN g[c * ClusterLen + i] ELSE 0]

\* How each cluster is stored: "data", or, for zeros, "hole" or "zero" too.
Allocs(n, z) ==
  {a \in [Clusters(n) -> {"data", "hole", "zero"}] : \A c \in Clusters(n) \ z : a[c] = "data"}

\* Slots for the clusters with data, from `first` up, in ascending or descending order.
Slot(a, c, first, up) ==
  first + Cardinality({x \in DOMAIN a : a[x] = "data" /\ (IF up THEN x < c ELSE x > c)})

HeaderUnits == [i \in 1..BootLen |-> -1]

\* The data slots of a file.
DataSlots(g, a, first, up) ==
  [s \in {Slot(a, c, first, up) : c \in {x \in DOMAIN a : a[x] = "data"}} |->
     ClusterOf(g, CHOOSE c \in DOMAIN a : a[c] = "data" /\ Slot(a, c, first, up) = s)]

Tables(n) == CeilDiv(CeilDiv(n, ClusterLen), TableLen)

\* Entries of table t, by E(c) for its clusters and `none` past the disk's end.
TableOf(n, t, E(_), none) ==
  [i \in 1..TableLen |-> LET c == t * TableLen + i - 1 IN IF c \in Clusters(n) THEN E(c) ELSE none]

Overlay(f, g) == [x \in DOMAIN f \cup DOMAIN g |-> IF x \in DOMAIN g THEN g[x] ELSE f[x]]

QcowHdr(n) == [version |-> 3, spec |-> TRUE, crypt |-> FALSE, backing |-> FALSE, l1off |-> 1,
               l1size |-> Tables(n), features |-> {}, size |-> n]
Qcow(g, a, up) ==
  LET n == Len(g)
      first == 2 + Tables(n)
      none == [off |-> 0, zero |-> FALSE, compressed |-> FALSE]
      e(c) == [off |-> IF a[c] = "data" THEN Slot(a, c, first, up) ELSE 0,
               zero |-> a[c] = "zero", compressed |-> FALSE]
      used(t) == \E c \in Clusters(n) : c \div TableLen = t /\ a[c] # "hole"
      l1 == [i \in 1..Tables(n) |-> IF used(i - 1) THEN 1 + i ELSE 0]
      meta == [s \in 0..(first - 1) |->
                 CASE s = 0 -> HeaderUnits [] s = 1 -> l1
                   [] OTHER -> TableOf(n, s - 2, LAMBDA c : e(c), none)]
  IN [file |-> [magic |-> "qcow2", hdr |-> QcowHdr(n),
                slots |-> Overlay(meta, DataSlots(g, a, first, up))], guest |-> g]

VmdkHdr(n) == [compressed |-> FALSE, spec |-> TRUE, gdoff |-> 2, overhead |-> 1, size |-> n]
Vmdk(g, a, up) ==
  LET n == Len(g)
      first == 3 + Tables(n)
      e(c) == CASE a[c] = "data" -> Slot(a, c, first, up) [] a[c] = "zero" -> 1 [] OTHER -> 0
      all(t, how) == \A c \in Clusters(n) : c \div TableLen = t => a[c] = how
      gd == [i \in 1..Tables(n) |->
               CASE all(i - 1, "hole") -> 0 [] all(i - 1, "zero") -> 1 [] OTHER -> 2 + i]
      meta == [s \in 0..(first - 1) |->
                 CASE s \in {0, 1} -> HeaderUnits [] s = 2 -> gd
                   [] OTHER -> TableOf(n, s - 3, LAMBDA c : e(c), 0)]
  IN [file |-> [magic |-> "vmdk", hdr |-> VmdkHdr(n),
                slots |-> Overlay(meta, DataSlots(g, a, first, up))], guest |-> g]

VhdxHdr(n) ==
  [heads |-> <<[good |-> TRUE, seq |-> 1, log |-> 0], [good |-> TRUE, seq |-> 2, log |-> 0]>>,
   regions |-> <<[good |-> TRUE, bat |-> 1, metadata |-> TRUE, len |-> BatEntries(n)],
                 [good |-> TRUE, bat |-> 1, metadata |-> TRUE, len |-> BatEntries(n)]>>,
   parent |-> FALSE, spec |-> TRUE, size |-> n]
Vhdx(g, a, up) ==
  LET n == Len(g)
      e(c) == CASE a[c] = "data" -> [state |-> 6, off |-> Slot(a, c, 2, up)]
                [] a[c] = "zero" -> [state |-> 2, off |-> 0]
                [] OTHER         -> [state |-> IF up THEN 0 ELSE 3, off |-> 0]
      chunk == ChunkRatio + 1
      bat == [i \in 1..BatEntries(n) |->
                LET c == ((i - 1) \div chunk) * ChunkRatio + ((i - 1) % chunk)
                IN IF (i - 1) % chunk = ChunkRatio \/ c \notin Clusters(n)
                     THEN [state |-> 0, off |-> 0] ELSE e(c)]
      meta == [s \in {0, 1} |-> IF s = 0 THEN HeaderUnits ELSE bat]
  IN [file |-> [magic |-> "vhdx", hdr |-> VhdxHdr(n),
                slots |-> Overlay(meta, DataSlots(g, a, 2, up))], guest |-> g]

Raw(g) == [file |-> [magic |-> "raw", hdr |-> <<>>, slots |-> [s \in {0} |-> g]], guest |-> g]
NoImage == [file |-> [magic |-> "none", hdr |-> <<>>, slots |-> <<>>], guest |-> <<>>]

---------------------------------------------------------------------------
(* The images. *)

\* Every allocation of a disk of three clusters, the last one partial, in every format.
Sound ==
  UNION {{Raw(Guest(5, z, 0))} \cup
         UNION {{Qcow(Guest(5, z, 0), a, up), Vmdk(Guest(5, z, 0), a, up), Vhdx(Guest(5, z, 0), a, up)} :
                a \in Allocs(5, z), up \in BOOLEAN} : z \in SUBSET Clusters(5)}

\* Disks smaller than the boot page.
Small == {Raw(Guest(1, {}, 0)), Qcow(Guest(1, {}, 0), [c \in {0} |-> "data"], TRUE),
          Vhdx(Guest(3, {}, 0), [c \in {0, 1} |-> "data"], TRUE), Raw(<<>>), NoImage}

\* Files that are damaged, or that a reader must not take at their word: the guest sees
\* `Other`, which is not what the file's tables lead to.
G == Guest(5, {1}, 0)
A == [c \in 0..2 |-> IF c = 1 THEN "hole" ELSE "data"]
Other == Guest(5, {}, 50)
Q == Qcow(G, A, TRUE)
K == Vmdk(G, A, TRUE)
X == Vhdx(G, A, TRUE)
Cut(i, s) == [i EXCEPT !.file.slots = [x \in DOMAIN @ \ {s} |-> @[x]]]
LastSlot(i) == CHOOSE x \in DOMAIN i.file.slots : \A y \in DOMAIN i.file.slots : y <= x
Shorten(i) == [i EXCEPT !.file.slots[LastSlot(i)] = <<@[1]>>]
Dirty(s1, l1, s2, l2) ==
  [X EXCEPT !.file.hdr.heads = <<[good |-> TRUE, seq |-> s1, log |-> l1],
                                 [good |-> TRUE, seq |-> s2, log |-> l2]>>]
Odd ==
  {Cut(i, LastSlot(i)) : i \in {Q, K, X}} \cup {Cut(Q, 1), Cut(Q, 2), Cut(K, 2), Cut(K, 3), Cut(X, 1)}
  \cup {Shorten(i) : i \in {Q, K, X}}
  \cup {[Q EXCEPT !.file.hdr.version = 2], [Q EXCEPT !.file.hdr.version = 4],
        [Q EXCEPT !.file.hdr.spec = FALSE], [Q EXCEPT !.file.hdr.l1off = 0],
        [Q EXCEPT !.file.hdr.l1size = 1], [Q EXCEPT !.file.hdr.features = {"dirty"}],
        [Q EXCEPT !.file.hdr.crypt = TRUE, !.guest = Other],
        [Q EXCEPT !.file.hdr.backing = TRUE, !.guest = Other],
        [Q EXCEPT !.file.slots[2][1].compressed = TRUE, !.guest = Other]}
  \cup {[Q EXCEPT !.file.hdr.features = {x}, !.guest = Other] :
          x \in {"external_data", "compression_type", "extended_l2"}}
  \cup {[K EXCEPT !.file.hdr.spec = FALSE], [K EXCEPT !.file.hdr.gdoff = 0],
        [K EXCEPT !.file.hdr.overhead = 0],
        [K EXCEPT !.file.hdr.compressed = TRUE, !.guest = Other]}
  \cup {Dirty(2, 0, 1, 1), [Dirty(1, 0, 2, 1) EXCEPT !.guest = Other],
        [Dirty(2, 1, 1, 0) EXCEPT !.guest = Other],
        [Dirty(1, 0, 2, 1) EXCEPT !.file.hdr.heads[2].good = FALSE],
        [X EXCEPT !.file.hdr.heads[1].good = FALSE, !.file.hdr.heads[2].good = FALSE],
        [X EXCEPT !.file.hdr.regions[1].good = FALSE], [X EXCEPT !.file.hdr.regions[1].bat = 0],
        [X EXCEPT !.file.hdr.regions[1].len = 3], [X EXCEPT !.file.hdr.spec = FALSE],
        [X EXCEPT !.file.hdr.parent = TRUE, !.guest = Other],
        [X EXCEPT !.file.slots[1][1].state = 7, !.guest = Other]}

---------------------------------------------------------------------------
(* What is run. *)

VmCmd(op, v, sink) == [op |-> op, vm |-> v, image |-> TRUE, fits |-> TRUE, sink |-> sink]
New == VmCmd("create", 0, FALSE)
Plain == [New EXCEPT !.image = FALSE]
StartS == VmCmd("start", 0, TRUE)
StartN == VmCmd("start", 0, FALSE)
Op(op) == VmCmd(op, 0, FALSE)

VmPlan(i, later, s1, s2) ==
  [image |-> i, supply |-> later,
   scripts |-> [p \in Proc |-> IF p = 1 THEN s1 ELSE s2]]

\* One process, every image.
ReaderPlans ==
  {VmPlan(i, <<>>, <<New, StartS, Op("checksum"), Op("inspect")>>, <<>>) :
     i \in Sound \cup Small \cup Odd}

\* Two processes on one VM, and an image that is replaced by another of another format.
R2 == Raw(Other)
SharedPlans ==
  {VmPlan(X, <<R2>>, <<New, StartS, Op("reset"), StartS>>, s) :
     s \in {<<StartS, Op("reset")>>, <<Op("reset"), StartS>>, <<Op("show"), StartN>>,
            <<Op("stop"), Op("reset"), StartN>>}}
  \cup
  {VmPlan(R2, <<X>>, <<New, StartN, Op("delete"), New, StartN>>, s) :
     s \in {<<Plain, VmCmd("start", 1, FALSE)>>, <<[Plain EXCEPT !.fits = FALSE], Op("stop")>>,
            <<Plain, New, VmCmd("delete", 1, FALSE)>>, <<VmCmd("stop", 7, FALSE), StartS>>}}

NoVmPlan == VmPlan(NoImage, <<>>, <<>>, <<>>)
MCPlans == ReaderPlans \cup SharedPlans \cup {NoVmPlan}

Cmd(op, pw) == [op |-> op, user |-> "u", pw |-> pw, after |-> FALSE, audit |-> FALSE]
DryRun == [Cmd("exec", 0) EXCEPT !.after = TRUE]
Audited(c) == [c EXCEPT !.audit = TRUE]
Trial == Audited(Cmd("exec", 0))
Before == [live |-> TRUE, users |-> {"u"}, pw |-> [x \in User |-> IF x = "u" THEN 1 ELSE 0],
           sess |-> {}, used |-> 0]
TenantPlan(f, s1, s2) ==
  [store |-> f, scripts |-> [p \in Clerk |-> IF p = 1 THEN s1 ELSE s2]]

MCTenantPlans ==
  {TenantPlan(Missing, <<Cmd("create", 0), Cmd("add", 0), Cmd("password", 1), Cmd("login", 1)>>,
              <<Cmd("show", 0), Cmd("login", 1)>>),
   TenantPlan(Missing, <<>>, <<>>)}
  \cup
  {TenantPlan(Before, <<Cmd("login", 1), Cmd("whoami", 0), Cmd("logout", 0)>>, <<c, Cmd("login", 1)>>) :
     c \in {Cmd("password", 2), Cmd("remove", 0), Cmd("rotate", 0), Cmd("revoke", 0),
            Cmd("whoami", 0), Cmd("logout", 0), Cmd("delete", 0), Cmd("purge", 0)}}
  \cup
  {TenantPlan(Before, <<Cmd("charge", 0), Cmd("release", 0), Cmd("delete", 0), Cmd("create", 0)>>,
              <<c, Cmd("login", 1)>>) :
     c \in {Cmd("exec", 0), DryRun}}
  \cup
  {TenantPlan(Missing, <<Trial>>, <<>>), TenantPlan(Before, <<Audited(DryRun), Trial>>, <<>>),
   TenantPlan(Before, <<Audited(DryRun)>>, <<Trial>>), TenantPlan(Before, <<Trial>>, <<Cmd("delete", 0)>>)}

Busy == \E p \in Proc : ctl[p].script # <<>>
BusyToo == \E p \in Clerk : clerk[p].script # <<>>

Init == CInit /\ TInit /\ (Busy <=> ~BusyToo)
Next == (CNext /\ UNCHANGED tvars) \/ (TNext /\ UNCHANGED cvars)
vars == <<cvars, tvars>>
Spec == Init /\ [][Next]_vars

=============================================================================
