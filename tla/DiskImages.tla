----------------------------- MODULE DiskImages -----------------------------
(***************************************************************************)
(* The read-only disk image readers of celimage: raw, qcow2, VMDK and VHDX *)
(* files behind one trait, DiskImage, with holes that read as zeros.       *)
(*                                                                         *)
(* A file is a sequence of slots of one cluster (qcow2), grain (VMDK) or   *)
(* block (VHDX) each.  Slot 0 begins with the format's header, another     *)
(* slot holds the entries of a table or the units of guest data, and an    *)
(* entry names the slot it points at, so that offset 0 is the header and   *)
(* stands for "not allocated" as it does in the formats.  A file may end   *)
(* early: its last slots are missing or the last one is short.             *)
(*                                                                         *)
(* Fields a reader only range-checks (cluster_bits, grain_size_sectors,    *)
(* block_size, sector size, lengths and signatures) are one flag `spec`.   *)
(***************************************************************************)
EXTENDS Integers, Sequences, SequencesExt

CONSTANTS
  ClusterLen,   \* units in a cluster, grain or block
  TableLen,     \* entries in an L2 table or a grain table
  ChunkRatio,   \* payload entries of a BAT before a sector bitmap entry
  BootLen,      \* BOOT_BLOB_LEN
  CrcChunk      \* CHUNK of full_image_crc32c

ASSUME ImageAssumption ==
  {ClusterLen, TableLen, ChunkRatio, BootLen, CrcChunk} \subseteq Nat \ {0}

Least(x, y) == IF x < y THEN x ELSE y
CeilDiv(x, y) == (x + y - 1) \div y

Zeros(n) == [i \in 1..n |-> 0]
Ok(u) == [ok |-> TRUE, units |-> u]      \* Ok(bytes read)
Err == [ok |-> FALSE, units |-> <<>>]    \* any CelError

\* seek, then read until n units are there or the file ends.
ReadUpTo(f, slot, at, n) ==
  IF slot \in DOMAIN f.slots
    THEN SubSeq(f.slots[slot], at + 1, Least(at + n, Len(f.slots[slot])))
    ELSE <<>>

\* seek and read_exact.
ReadExact(f, slot, at, n) ==
  LET u == ReadUpTo(f, slot, at, n) IN IF Len(u) = n THEN Ok(u) ELSE Err

\* Entry i, counted from 0, of a table read by ReadExact; 0 past its end.
Entry(table, i) == IF i < Len(table) THEN table[i + 1] ELSE 0

\* The guest's bytes off .. off+n-1, cut at cluster borders: pieces <<offset, length>>.
Pieces(off, n) ==
  LET first == off \div ClusterLen
      last == (off + n - 1) \div ClusterLen
      from(c) == IF c = first THEN off ELSE c * ClusterLen
      upto(c) == IF c = last THEN off + n ELSE (c + 1) * ClusterLen
  IN [i \in 1..(last - first + 1) |->
        <<from(first + i - 1), upto(first + i - 1) - from(first + i - 1)>>]

\* What a read_at makes of its pieces: it gives up at the first error.
Joined(got) ==
  IF \A i \in DOMAIN got : got[i].ok
    THEN Ok(FlattenSeq([i \in DOMAIN got |-> got[i].units]))
    ELSE Err

---------------------------------------------------------------------------
(* qcow2 *)

\* parse_header and validate_header.  Bit 2 of incompatible_features (external
\* data file) and bits 0 and 1 (dirty, corrupt) are not refused.
QcowValid(h) ==
  /\ h.version \in {2, 3}
  /\ h.spec
  /\ ~h.crypt
  /\ ~h.backing
  /\ h.l1off # 0
  /\ h.version = 3 => h.features \cap {"compression_type", "extended_l2"} = {}

QcowL1(f) == IF QcowValid(f.hdr) THEN ReadExact(f, f.hdr.l1off, 0, f.hdr.l1size) ELSE Err

\* The mapping of one cluster: L1, L2, and what the L2 entry says.
QcowCluster(f, cluster, intra, take) ==
  LET l1 == QcowL1(f).units
      l1_index == cluster \div TableLen
      l2 == ReadExact(f, l1[l1_index + 1], cluster % TableLen, 1)
      e == l2.units[1]
  IN IF l1_index >= Len(l1) THEN Err
     ELSE IF l1[l1_index + 1] = 0 THEN Ok(Zeros(take))
     ELSE IF ~l2.ok \/ e.compressed THEN Err
     ELSE IF e.off = 0 \/ (f.hdr.version = 3 /\ e.zero) THEN Ok(Zeros(take))
     ELSE Ok(ReadUpTo(f, e.off, intra, take))

\* Qcow2Image::read_at: at most the rest of one cluster; short at the end of the file.
QcowReadAt(f, off, n) ==
  LET intra == off % ClusterLen
      take == Least(Least(n, f.hdr.size - off), ClusterLen - intra)
  IN IF off >= f.hdr.size THEN Ok(<<>>)
     ELSE QcowCluster(f, off \div ClusterLen, intra, take)

---------------------------------------------------------------------------
(* VMDK, monolithicSparse *)

VmdkValid(h) == ~h.compressed /\ h.spec /\ h.gdoff # 0 /\ h.overhead # 0

\* The grain directory has one entry per grain table.
VmdkGd(f) ==
  IF VmdkValid(f.hdr)
    THEN ReadExact(f, f.hdr.gdoff, 0, CeilDiv(f.hdr.size, TableLen * ClusterLen))
    ELSE Err

\* An entry 0 (not allocated) or 1 (zeroed) has no grain.
NoGrain == {0, 1}

VmdkGrain(f, off, n) ==
  LET grain == off \div ClusterLen
      gde == Entry(VmdkGd(f).units, grain \div TableLen)
      gt == ReadExact(f, gde, 0, TableLen)
      gte == Entry(gt.units, grain % TableLen)
  IN IF gde \in NoGrain THEN Ok(Zeros(n))
     ELSE IF ~gt.ok THEN Err
     ELSE IF gte \in NoGrain THEN Ok(Zeros(n))
     ELSE ReadExact(f, gte, off % ClusterLen, n)

\* VmdkImage::read_at
VmdkReadAt(f, off, n) ==
  IF off >= f.hdr.size THEN Ok(<<>>)
  ELSE LET pieces == Pieces(off, Least(n, f.hdr.size - off))
       IN Joined([i \in DOMAIN pieces |-> VmdkGrain(f, pieces[i][1], pieces[i][2])])

---------------------------------------------------------------------------
(* VHDX *)

\* pick_header: of the headers with a good checksum, the one written last.
PickHeader(h) ==
  IF h.heads[1].good /\ (h.heads[2].good => h.heads[1].seq >= h.heads[2].seq)
    THEN h.heads[1]
    ELSE h.heads[2]

\* pick_region_table: the first copy with a good checksum.
PickRegions(h) == IF h.regions[1].good THEN h.regions[1] ELSE h.regions[2]

\* Payload entries plus one sector bitmap entry per chunk.
BatEntries(size) ==
  LET pb == CeilDiv(size, ClusterLen) IN pb + CeilDiv(pb, ChunkRatio)

\* VhdxImage::open: no dirty log, both regions, no parent, a BAT that is long enough.
VhdxValid(h) ==
  /\ PickHeader(h).good /\ PickHeader(h).log = 0
  /\ PickRegions(h).good /\ PickRegions(h).bat # 0 /\ PickRegions(h).metadata
  /\ ~h.parent /\ h.spec
  /\ BatEntries(h.size) <= PickRegions(h).len

VhdxBat(f) ==
  IF VhdxValid(f.hdr)
    THEN ReadExact(f, PickRegions(f.hdr).bat, 0, BatEntries(f.hdr.size))
    ELSE Err

\* Every chunk of payload entries is followed by one sector bitmap entry.
BatIndex(block) == block + (block \div ChunkRatio)

\* BAT states: NOT_PRESENT, UNDEFINED, ZERO, UNMAPPED; FULLY_PRESENT is 6.
NoBlock == 0..3

VhdxBlock(f, off, n) ==
  LET bat == VhdxBat(f).units
      i == BatIndex(off \div ClusterLen)
  IN IF i >= Len(bat) THEN Err
     ELSE CASE bat[i + 1].state \in NoBlock -> Ok(Zeros(n))
            [] bat[i + 1].state = 6         -> ReadExact(f, bat[i + 1].off, off % ClusterLen, n)
            [] OTHER                        -> Err

\* VhdxImage::read_at
VhdxReadAt(f, off, n) ==
  IF off >= f.hdr.size THEN Ok(<<>>)
  ELSE LET pieces == Pieces(off, Least(n, f.hdr.size - off))
       IN Joined([i \in DOMAIN pieces |-> VhdxBlock(f, pieces[i][1], pieces[i][2])])

---------------------------------------------------------------------------
(* The trait *)

\* RawImage::read_at: the file is the disk, whatever it holds.
RawReadAt(f, off, n) == Ok(ReadUpTo(f, 0, off, n))

\* detect_format: by the magic; an empty file is an error.
Detects(f) == f.slots # <<>> /\ f.slots[0] # <<>>

\* open, once detect_format has answered `kind`: each reader checks its own magic.
Opens(kind, f) ==
  CASE kind = "raw"   -> f.slots # <<>>
    [] kind = "qcow2" -> f.magic = "qcow2" /\ QcowL1(f).ok
    [] kind = "vmdk"  -> f.magic = "vmdk" /\ VmdkGd(f).ok
    [] kind = "vhdx"  -> f.magic = "vhdx" /\ VhdxBat(f).ok

VirtualSize(kind, f) == IF kind = "raw" THEN Len(f.slots[0]) ELSE f.hdr.size

ReadAt(kind, f, off, n) ==
  CASE kind = "raw"   -> RawReadAt(f, off, n)
    [] kind = "qcow2" -> QcowReadAt(f, off, n)
    [] kind = "vmdk"  -> VmdkReadAt(f, off, n)
    [] kind = "vhdx"  -> VhdxReadAt(f, off, n)

\* The loop of read_exact_at and full_image_crc32c: read_at, at most `step` units
\* at a time, until n units are there; a read of nothing is an error.
Filled(kind, f, n, step) ==
  LET fill[o \in 0..n] ==
        LET r == ReadAt(kind, f, o, Least(step, n - o))
            rest == fill[o + Len(r.units)]
        IN IF o = n THEN Ok(<<>>)
           ELSE IF ~r.ok \/ r.units = <<>> THEN Err
           ELSE IF rest.ok THEN Ok(r.units \o rest.units) ELSE Err
  IN fill[0]

\* The bytes stage_boot_blob copies: the first page, or the whole of a smaller disk.
BootPage(kind, f) ==
  LET want == Least(VirtualSize(kind, f), BootLen)
  IN IF Opens(kind, f) /\ want > 0 THEN Filled(kind, f, want, want) ELSE Err

\* What full_image_crc32c digests.
WholeDisk(kind, f) ==
  LET total == VirtualSize(kind, f)
  IN IF Opens(kind, f) /\ total > 0 THEN Filled(kind, f, total, CrcChunk) ELSE Err

=============================================================================
