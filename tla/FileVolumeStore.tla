-------------------------- MODULE FileVolumeStore ---------------------------
(***************************************************************************)
(* The disk-backed volume store (celvault/src/file_store.rs): a manifest   *)
(* in memory under a mutex, its copy manifest.json replaced by rename, and *)
(* one body file per volume and per snapshot.                              *)
(*                                                                         *)
(* Tasks of one process call it concurrently.  A step is one call to the   *)
(* file system or what is done under the mutex between two of them.  write *)
(* and restore_snapshot release the mutex before they touch a file.  Every *)
(* file operation may fail, and the process may be killed at any time; the *)
(* file system itself does not forget what it has done.                    *)
(***************************************************************************)
EXTENDS Integers, FiniteSets, Sequences, FiniteSetsExt

CONSTANTS
  Task,        \* concurrent callers
  MaxVolumes,  \* bound on the manifest's counter of volumes
  MaxSnaps,    \* bound on the manifest's counters of snapshots
  Blocks,      \* blocks of a volume (size_bytes)
  Byte         \* contents of a block

ASSUME VaultAssumption ==
  /\ MaxVolumes \in Nat
  /\ MaxSnaps \in Nat
  /\ Blocks \in Nat \ {0}
  /\ Byte \subseteq Nat /\ 0 \in Byte

\* Volume n is <<n, 0>>, its snapshot k is <<n, k>> ("<volume-id>@s<counter>").
Vol == (1..MaxVolumes) \X {0}
Snap == (1..MaxVolumes) \X (1..MaxSnaps)
Id == Vol \cup Snap
NoId == <<0, 0>>
VolumeOf(x) == <<x[1], 0>>

\* A file is missing or holds a prefix of the blocks.
Missing == <<-1>>
Empty == <<>>
Zeros == [i \in 1..Blocks |-> 0]
Whole == [1..Blocks -> Byte]
Body == UNION {[1..n -> Byte] : n \in 0..Blocks}

\* struct Manifest
Manifest == [next : 0..MaxVolumes, next_snap : [1..MaxVolumes -> 0..MaxSnaps],
             volumes : SUBSET Vol, snapshots : SUBSET Snap]

VARIABLES
  mem,    \* FileInner::manifest
  disk,   \* manifest.json
  body,   \* volumes/<id>.bin and snapshots/<id>.bin
  task,   \* what each caller is doing
  cut,    \* ids whose deletion or restoration was interrupted or has failed
  used    \* ids that have been in manifest.json

vars == <<mem, disk, body, task, cut, used>>

UnderLock == {"create_body", "create_fill", "delete_snaps", "snap_body", "snap_fill", "save"}
Unlocked == {"restore_read", "restore_body", "restore_fill", "write"}

\* gone: the ids a caller is destroying.
TaskState == [pc : {"idle"} \cup UnderLock \cup Unlocked, id : Id \cup {NoId},
              buf : Body, gone : SUBSET Id]
Idle == [pc |-> "idle", id |-> NoId, buf |-> Empty, gone |-> {}]

TypeOK ==
  /\ mem \in Manifest
  /\ disk \in Manifest
  /\ body \in [Id -> Body \cup {Missing}]
  /\ task \in [Task -> TaskState]
  /\ cut \in SUBSET Id
  /\ used \in SUBSET Id

\* open_or_create on an empty directory: Manifest::default().
NewManifest == [next |-> 0, next_snap |-> [n \in 1..MaxVolumes |-> 0], volumes |-> {}, snapshots |-> {}]

Init ==
  /\ mem = NewManifest
  /\ disk = NewManifest
  /\ body = [x \in Id |-> Missing]
  /\ task = [t \in Task |-> Idle]
  /\ cut = {}
  /\ used = {}

---------------------------------------------------------------------------
(* Helpers. *)

Locked == \E t \in Task : task[t].pc \in UnderLock

\* A caller that is free takes the mutex.
Enter(t) == task[t].pc = "idle" /\ ~Locked

At(t, pc) == task[t].pc = pc

Goto(t, pc) == task' = [task EXCEPT ![t].pc = pc]

Return(t) == task' = [task EXCEPT ![t] = Idle]

\* seek and write_all at an offset: a gap reads as zeros.
WriteAt(f, i, b) ==
  [j \in 1..Max({Len(f), i}) |->
     IF j = i THEN b ELSE IF j <= Len(f) THEN f[j] ELSE 0]

\* write_all from the start of a file.
Overwrite(f, buf) ==
  [j \in 1..Max({Len(f), Len(buf)}) |-> IF j <= Len(buf) THEN buf[j] ELSE f[j]]

\* fs::remove_file, whose errors are ignored.
RemoveFile(x) == body' \in {[body EXCEPT ![x] = Missing], body}

\* Fault: an off-by-one in the range check.
OffsetsOnePast == 1..(Blocks + 1)

\* The offsets write accepts.
Offsets == 1..Blocks

SnapsOf(v) == {s \in mem.snapshots : VolumeOf(s) = v}

\* Fault: the counter is the number of volumes.
NextByCount == Cardinality(mem.volumes) + 1

NextVolume == mem.next + 1

---------------------------------------------------------------------------
(* Operations. *)

\* FileVolumeStore::create: count, write the zeroed body, enter it, save.
Create(t) ==
  /\ Enter(t)
  /\ NextVolume <= MaxVolumes
  /\ mem' = [mem EXCEPT !.next = NextVolume]
  /\ task' = [task EXCEPT ![t] = [Idle EXCEPT !.pc = "create_body", !.id = <<NextVolume, 0>>]]
  /\ UNCHANGED <<disk, body, cut, used>>

\* Fault: the volume is entered before its body is written.
CreateEntered(t) ==
  /\ At(t, "create_body")
  /\ body' = [body EXCEPT ![task[t].id] = Empty]
  /\ mem' = [mem EXCEPT !.volumes = @ \cup {task[t].id}]
  /\ Goto(t, "create_fill")
  /\ UNCHANGED <<disk, cut, used>>

CreateBody(t) ==
  /\ At(t, "create_body")
  /\ body' = [body EXCEPT ![task[t].id] = Empty]
  /\ Goto(t, "create_fill")
  /\ UNCHANGED <<mem, disk, cut, used>>

CreateFill(t) ==
  /\ At(t, "create_fill")
  /\ body' = [body EXCEPT ![task[t].id] = Zeros]
  /\ mem' = [mem EXCEPT !.volumes = @ \cup {task[t].id}]
  /\ Goto(t, "save")
  /\ UNCHANGED <<disk, cut, used>>

\* save_manifest: a temporary file, fsync and rename; the rename is what counts.
SaveManifest ==
  /\ disk' = mem
  /\ used' = used \cup mem.volumes \cup mem.snapshots
  /\ UNCHANGED <<mem, body, cut>>

Save(t) ==
  /\ \/ At(t, "save")
     \/ At(t, "delete_snaps") /\ SnapsOf(task[t].id) = {}
  /\ SaveManifest
  /\ Return(t)

\* FileVolumeStore::delete: the body goes before the manifest is saved.
Delete(t, v) ==
  /\ Enter(t)
  /\ mem' = [mem EXCEPT !.volumes = @ \ {v}, !.next_snap[v[1]] = 0]
  /\ IF v \in mem.volumes THEN RemoveFile(v) ELSE UNCHANGED body
  /\ task' = [task EXCEPT ![t] = [Idle EXCEPT !.pc = "delete_snaps", !.id = v,
                                              !.gone = (mem.volumes \cap {v}) \cup SnapsOf(v)]]
  /\ UNCHANGED <<disk, cut, used>>

DeleteSnap(t) ==
  /\ At(t, "delete_snaps")
  /\ \E s \in SnapsOf(task[t].id) :
       /\ RemoveFile(s)
       /\ mem' = [mem EXCEPT !.snapshots = @ \ {s}]
  /\ UNCHANGED <<disk, task, cut, used>>

\* FileVolumeStore::create_snapshot: copy the body of a volume of the right size.
CreateSnapshot(t, v) ==
  /\ Enter(t)
  /\ v \in mem.volumes
  /\ body[v] # Missing /\ Len(body[v]) = Blocks
  /\ mem.next_snap[v[1]] < MaxSnaps
  /\ mem' = [mem EXCEPT !.next_snap[v[1]] = @ + 1]
  /\ task' = [task EXCEPT ![t] = [Idle EXCEPT !.pc = "snap_body", !.buf = body[v],
                                              !.id = <<v[1], mem.next_snap[v[1]] + 1>>]]
  /\ UNCHANGED <<disk, body, cut, used>>

SnapBody(t) ==
  /\ At(t, "snap_body")
  /\ body' = [body EXCEPT ![task[t].id] = Empty]
  /\ Goto(t, "snap_fill")
  /\ UNCHANGED <<mem, disk, cut, used>>

SnapFill(t) ==
  /\ At(t, "snap_fill")
  /\ body' = [body EXCEPT ![task[t].id] = task[t].buf]
  /\ mem' = [mem EXCEPT !.snapshots = @ \cup {task[t].id}]
  /\ Goto(t, "save")
  /\ UNCHANGED <<disk, cut, used>>

\* FileVolumeStore::delete_snapshot
DeleteSnapshot(t, s) ==
  /\ Enter(t)
  /\ mem' = [mem EXCEPT !.snapshots = @ \ {s}]
  /\ IF s \in mem.snapshots THEN RemoveFile(s) ELSE UNCHANGED body
  /\ task' = [task EXCEPT ![t] = [Idle EXCEPT !.pc = "save",
                                              !.gone = mem.snapshots \cap {s}]]
  /\ UNCHANGED <<disk, cut, used>>

\* FileVolumeStore::restore_snapshot: checked under the mutex, done without it;
\* File::create empties the volume's body, or makes a new one.
RestoreSnapshot(t, s) ==
  /\ Enter(t)
  /\ s \in mem.snapshots
  /\ VolumeOf(s) \in mem.volumes
  /\ task' = [task EXCEPT ![t] = [Idle EXCEPT !.pc = "restore_read", !.id = s]]
  /\ UNCHANGED <<mem, disk, body, cut, used>>

RestoreRead(t) ==
  /\ At(t, "restore_read")
  /\ body[task[t].id] # Missing
  /\ task' = [task EXCEPT ![t].pc = "restore_body", ![t].buf = body[task[t].id]]
  /\ UNCHANGED <<mem, disk, body, cut, used>>

RestoreBody(t) ==
  LET v == VolumeOf(task[t].id) IN
  /\ At(t, "restore_body")
  /\ body' = [body EXCEPT ![v] = Empty]
  /\ task' = [task EXCEPT ![t].pc = "restore_fill", ![t].gone = {v}]
  /\ UNCHANGED <<mem, disk, cut, used>>

\* The write goes to the file RestoreBody opened, also if it was unlinked since.
RestoreFill(t) ==
  LET v == VolumeOf(task[t].id) IN
  /\ At(t, "restore_fill")
  /\ body' = IF body[v] = Missing THEN body
              ELSE [body EXCEPT ![v] = Overwrite(@, task[t].buf)]
  /\ cut' = IF v \in mem.volumes /\ body[v] # Missing THEN cut \ {v} ELSE cut
  /\ Return(t)
  /\ UNCHANGED <<mem, disk, used>>

\* FileVolumeStore::write: checked under the mutex, done without it.
WriteVolume(t, v) ==
  /\ Enter(t)
  /\ v \in mem.volumes
  /\ task' = [task EXCEPT ![t] = [Idle EXCEPT !.pc = "write", !.id = v]]
  /\ UNCHANGED <<mem, disk, body, cut, used>>

WriteBody(t) ==
  LET v == task[t].id IN
  /\ At(t, "write")
  /\ body[v] # Missing
  /\ \E i \in Offsets, b \in Byte : body' = [body EXCEPT ![v] = WriteAt(@, i, b)]
  /\ Return(t)
  /\ UNCHANGED <<mem, disk, cut, used>>

\* FileVolumeStore::flush
Flush(t) ==
  /\ Enter(t)
  /\ SaveManifest
  /\ UNCHANGED task

\* A file operation fails and the call returns its error: the manifest in memory
\* keeps what was done to it.  A delete fails only when it saves.
IoError(t) ==
  /\ ~At(t, "idle")
  /\ At(t, "delete_snaps") => SnapsOf(task[t].id) = {}
  /\ cut' = cut \cup task[t].gone
  /\ Return(t)
  /\ UNCHANGED <<mem, disk, body, used>>

\* The process is killed; open_or_create loads manifest.json again.
Crash ==
  /\ mem' = disk
  /\ cut' = cut \cup UNION {task[t].gone : t \in Task}
  /\ task' = [t \in Task |-> Idle]
  /\ UNCHANGED <<disk, body, used>>

---------------------------------------------------------------------------

Step(t) ==
  \/ Create(t) \/ CreateBody(t) \/ CreateFill(t) \/ Save(t) \/ Flush(t)
  \/ \E v \in Vol : Delete(t, v) \/ CreateSnapshot(t, v) \/ WriteVolume(t, v)
  \/ DeleteSnap(t) \/ SnapBody(t) \/ SnapFill(t)
  \/ \E s \in Snap : DeleteSnapshot(t, s) \/ RestoreSnapshot(t, s)
  \/ RestoreRead(t) \/ RestoreBody(t) \/ RestoreFill(t)
  \/ WriteBody(t)
  \/ IoError(t)

Next == Crash \/ \E t \in Task : Step(t)

Spec == Init /\ [][Next]_vars

---------------------------------------------------------------------------
(* Properties. *)

\* The ids an operation is destroying, or was when it was cut off.
Exposed == cut \cup UNION {task[t].gone : t \in Task}

\* integrity_check: a manifest entry whose body has not the declared length.
Damaged == {x \in disk.volumes \cup disk.snapshots : body[x] \notin Whole}

\* After a kill at any moment, and whatever I/O failed, integrity_check finds
\* nothing wrong with a volume or snapshot that no interrupted delete or restore
\* was about: bodies are written before they are entered, and a racing write,
\* restore or snapshot never leaves a short body behind.
BodiesIntact == Damaged \subseteq Exposed

\* The store keeps the promise of DurableVolumes: "Persists volume bodies and
\* snapshots under a root directory so data survives process restart"
\* (celvault/src/lib.rs:16), for everything no interrupted operation was about.
Durable == INSTANCE DurableVolumes WITH
  content <- [x \in disk.volumes \cup disk.snapshots |-> body[x]],
  exposed <- Exposed

ImplementsDurable == Durable!Spec

=============================================================================
