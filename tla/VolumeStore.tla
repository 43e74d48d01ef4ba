---------------------------- MODULE VolumeStore -----------------------------
(***************************************************************************)
(* The in-memory volume store (celvault/src/lib.rs, MemVolumeStore): one   *)
(* mutex, so every operation is a step and the store is a value.  Of the   *)
(* bodies the model keeps the size; what a body holds on a disk is the     *)
(* subject of FileVolumeStore.                                             *)
(***************************************************************************)
EXTENDS Integers, FiniteSets, Functions

CONSTANTS
  MaxVolumes,        \* bound on the counter of volumes
  MaxSnaps,          \* bound on the counter of snapshots of a volume
  MAX_VOLUME_BYTES   \* largest volume

ASSUME VolumeAssumption ==
  /\ MaxVolumes \in Nat /\ MaxSnaps \in Nat /\ MAX_VOLUME_BYTES \in Nat

VolumeId == 1..MaxVolumes                  \* "<node>/v<n>"
SnapshotId == VolumeId \X (1..MaxSnaps)    \* "<volume>@s<n>"

\* struct MemInner
IsVolumeStore(g) ==
  /\ DOMAIN g = {"next", "rows", "next_snap", "snaps"}
  /\ g.next \in 0..MaxVolumes
  /\ DOMAIN g.rows \subseteq 1..g.next
  /\ \A v \in DOMAIN g.rows : g.rows[v] \in 1..MAX_VOLUME_BYTES
  /\ g.next_snap \in [VolumeId -> 0..MaxSnaps]
  /\ DOMAIN g.snaps \subseteq SnapshotId
  /\ \A s \in DOMAIN g.snaps : g.snaps[s] \in 1..MAX_VOLUME_BYTES

NewVolumeStore ==
  [next |-> 0, rows |-> [v \in {} |-> 0], next_snap |-> [v \in VolumeId |-> 0],
   snaps |-> [s \in {} |-> 0]]

Known(g, v) == v \in DOMAIN g.rows

ValidSize(size) == size > 0 /\ size <= MAX_VOLUME_BYTES

\* Fault: ids are handed out by number.
VolumeIdByCount(g) == Cardinality(DOMAIN g.rows) + 1

NextVolumeId(g) == g.next + 1

CreateVolume(g, size) ==
  LET v == NextVolumeId(g) IN
  [g EXCEPT !.next = @ + 1,
            !.rows = [x \in DOMAIN @ \cup {v} |-> IF x = v THEN size ELSE @[x]]]

\* Fault: the snapshots of a deleted volume stay.
DeleteKeepsSnaps(g, v) ==
  [g EXCEPT !.rows = Restrict(@, DOMAIN @ \ {v}), !.next_snap[v] = 0]

DeleteVolume(g, v) ==
  [g EXCEPT !.rows = Restrict(@, DOMAIN @ \ {v}),
            !.next_snap[v] = 0,
            !.snaps = Restrict(@, {s \in DOMAIN @ : s[1] # v})]

CreateSnapshot(g, v) ==
  LET s == <<v, g.next_snap[v] + 1>> IN
  [g EXCEPT !.next_snap[v] = @ + 1,
            !.snaps = [x \in DOMAIN @ \cup {s} |-> IF x = s THEN g.rows[v] ELSE @[x]]]

DeleteSnapshot(g, s) == [g EXCEPT !.snaps = Restrict(@, DOMAIN @ \ {s})]

\* restore_snapshot: the snapshot and its volume exist and have the same size.
MayRestore(g, s) == s \in DOMAIN g.snaps /\ Known(g, s[1]) /\ g.rows[s[1]] = g.snaps[s]

\* read and write: the range lies in the body.
InBody(g, v, offset, len) == Known(g, v) /\ offset + len <= g.rows[v]

---------------------------------------------------------------------------

\* integrity_check: every snapshot has its volume, of the same size.
SnapshotsHaveVolumes(g) ==
  \A s \in DOMAIN g.snaps : Known(g, s[1]) /\ g.rows[s[1]] = g.snaps[s]

=============================================================================
