----------------------- MODULE FileVolumeStoreProofs ------------------------
(***************************************************************************)
(* Proofs about the disk-backed volume store for any number of callers,    *)
(* volumes, snapshots and blocks: types, whole bodies, and the refinement  *)
(* of DurableVolumes.                                                      *)
(***************************************************************************)
EXTENDS FileVolumeStore, TLAPS

---------------------------------------------------------------------------
(* The inductive invariant. *)

Live == mem.volumes \cup mem.snapshots
Saved == disk.volumes \cup disk.snapshots

Creating == {"create_body", "create_fill"}
Snapping == {"snap_body", "snap_fill"}
Restoring == {"restore_read", "restore_body", "restore_fill"}

\* One caller has the mutex.
LockInv ==
  \A t, u \in Task : task[t].pc \in UnderLock /\ task[u].pc \in UnderLock => t = u

\* What a caller keeps between its steps.
TaskInv ==
  \A t \in Task :
    /\ task[t].pc = "idle" => task[t] = Idle
    /\ task[t].pc \notin {"delete_snaps", "save", "restore_fill"} => task[t].gone = {}
    /\ task[t].pc \in Creating \cup {"delete_snaps", "write"} => task[t].id \in Vol
    /\ task[t].pc \in Snapping \cup Restoring => task[t].id \in Snap
    /\ task[t].pc \in Snapping \cup {"restore_body", "restore_fill"} => task[t].buf \in Whole
    /\ task[t].pc = "restore_fill" => task[t].gone = {VolumeOf(task[t].id)}

\* A deletion removes what it exposes, and nothing else.
DeleteInv ==
  \A t \in Task :
    /\ task[t].pc = "save" => task[t].gone \cap Live = {}
    /\ task[t].pc = "delete_snaps" =>
         /\ task[t].id \notin mem.volumes
         /\ SnapsOf(task[t].id) \subseteq task[t].gone
         /\ \A x \in task[t].gone : VolumeOf(x) = task[t].id

\* The counter of volumes has passed every id that was durable, is live or is in use.
CountInv ==
  /\ disk.next <= mem.next
  /\ \A x \in used : x[1] <= disk.next
  /\ \A x \in Live : x[1] <= mem.next
  /\ \A t \in Task : task[t].pc \in Unlocked => task[t].id[1] <= mem.next

\* So have the counters of the snapshots of a volume that is still there.
SnapCountInv ==
  /\ \A x \in used \cap Snap :
       /\ VolumeOf(x) \in mem.volumes => x[2] <= mem.next_snap[x[1]]
       /\ VolumeOf(x) \in disk.volumes => x[2] <= disk.next_snap[x[1]]
  /\ \A x \in mem.snapshots : VolumeOf(x) \in mem.volumes => x[2] <= mem.next_snap[x[1]]
  /\ \A t \in Task : task[t].pc \in Restoring /\ VolumeOf(task[t].id) \in mem.volumes
                       => task[t].id[2] <= mem.next_snap[task[t].id[1]]

\* The id of a creation in progress is nobody else's.
FreshInv ==
  \A t \in Task :
    /\ task[t].pc \in Creating =>
         /\ task[t].id = <<mem.next, 0>>
         /\ \A x \in used \cup Live : x[1] # mem.next
         /\ \A u \in Task : task[u].pc \in Unlocked => task[u].id[1] # mem.next
    /\ task[t].pc \in Snapping =>
         /\ task[t].id[1] <= mem.next
         /\ VolumeOf(task[t].id) \in mem.volumes
         /\ task[t].id[2] = mem.next_snap[task[t].id[1]]
         /\ task[t].id \notin used \cup Live
         /\ \A u \in Task : task[u].pc \in Restoring => task[u].id # task[t].id

\* A deletion has begun and has not been saved, or an operation was cut off.
Removing(x) == x \in cut \/ \E t \in Task : task[t].pc # "restore_fill" /\ x \in task[t].gone

\* What is saved has been saved, live ids that were durable still are, and what
\* is durable and not live is being deleted.
SavedInv ==
  /\ Saved \subseteq used
  /\ used \cap Live \subseteq Saved
  /\ \A x \in Saved \ Live : Removing(x)

\* Bodies of durable and of live things are whole, or exposed; a missing one is
\* being removed; a snapshot's is whole or missing, also while it is restored.
BodyInv ==
  /\ \A x \in Saved \cup Live : body[x] \in Whole \/ x \in Exposed
  /\ \A x \in Saved \cup Live : body[x] = Missing => Removing(x)
  /\ \A x \in disk.snapshots \cup mem.snapshots : body[x] \in Whole \cup {Missing}
  /\ \A t \in Task : task[t].pc = "restore_read" => body[task[t].id] \in Whole \cup {Missing}

IInv == /\ TypeOK /\ LockInv /\ TaskInv /\ DeleteInv
        /\ CountInv /\ SnapCountInv /\ FreshInv /\ SavedInv /\ BodyInv

\* The durable things evolve as DurableVolumes!Evolve allows.
Evolves ==
  /\ \A x \in Saved \ (Exposed \cup Exposed') : x \in Saved' /\ body'[x] = body[x]
  /\ \A x \in Saved' \ Saved : x \notin used /\ (x \notin Exposed' => body'[x] \in Whole)
  /\ \A x \in (Exposed \ Exposed') \cap Saved' : body'[x] \in Whole
  /\ used' = used \cup Saved'

\* One block of a durable volume that is not exposed is written.
Writes ==
  \E v \in Vol, i \in 1..Blocks, b \in Byte :
    /\ v \in Saved \ Exposed
    /\ body' = [body EXCEPT ![v] = [@ EXCEPT ![i] = b]]
    /\ UNCHANGED <<Saved, Exposed, used>>

---------------------------------------------------------------------------
(* Lemmas about the operators. *)

\* An id is a pair, and its volume is an id of a volume.
LEMMA IdFacts ==
  /\ \A x \in Id : /\ x = <<x[1], x[2]>>
                   /\ x[1] \in 1..MaxVolumes /\ x[2] \in Nat
                   /\ VolumeOf(x) \in Vol /\ VolumeOf(x)[1] = x[1]
                   /\ x \in Vol => VolumeOf(x) = x
  /\ Vol \subseteq Id /\ Snap \subseteq Id /\ Vol \cap Snap = {}
  /\ \A n \in 1..MaxVolumes : <<n, 0>> \in Vol
  /\ \A n \in 1..MaxVolumes, k \in 1..MaxSnaps : <<n, k>> \in Snap
  /\ NoId \notin Id
  BY VaultAssumption DEF Id, Vol, Snap, VolumeOf, NoId

LEMMA VolFacts ==
  \A v \in Vol : /\ v \in Id /\ v = <<v[1], 0>> /\ v[1] \in 1..MaxVolumes
                 /\ v \notin Snap /\ VolumeOf(v) = v
<1>1. \A v \in Vol : v = <<v[1], 0>> /\ v[1] \in 1..MaxVolumes
  BY DEF Vol
<1>. QED BY <1>1, IdFacts

LEMMA IdTypes ==
  \A x \in Id : x[1] \in 1..MaxVolumes /\ x[1] \in Nat /\ x[2] \in Nat
  BY IdFacts, VaultAssumption

\* A body is a sequence of at most Blocks bytes, and whole if it has them all.
LEMMA BodyFacts ==
  /\ \A f \in Body : /\ f \in [1..Len(f) -> Byte] /\ Len(f) \in 0..Blocks
                     /\ f \in Whole <=> Len(f) = Blocks
  /\ \A n \in 0..Blocks : \A f \in [1..n -> Byte] : f \in Body /\ Len(f) = n
  /\ Whole \subseteq Body
  /\ Missing \notin Body
  /\ Empty \in Body /\ Empty \notin Whole
  /\ Zeros \in Whole
<1>1. ASSUME NEW n \in 0..Blocks, NEW f \in [1..n -> Byte]
      PROVE  f \in Body /\ Len(f) = n
  BY VaultAssumption DEF Body
<1>2. ASSUME NEW f \in Body
      PROVE  /\ f \in [1..Len(f) -> Byte] /\ Len(f) \in 0..Blocks
             /\ f \in Whole <=> Len(f) = Blocks
  <2>1. PICK n \in 0..Blocks : f \in [1..n -> Byte]
    BY DEF Body
  <2>. QED BY <1>1, <2>1, VaultAssumption DEF Whole
<1>3. Whole \subseteq Body
  BY <1>1, VaultAssumption DEF Whole
<1>4. Missing \notin Body
  <2>. SUFFICES ASSUME NEW n \in 0..Blocks, Missing \in [1..n -> Byte] PROVE FALSE
    BY DEF Body
  <2>1. Len(Missing) = n /\ Len(Missing) = 1 /\ Missing[1] = -1
    BY <1>1 DEF Missing
  <2>. QED BY <2>1, VaultAssumption
<1>5. Empty \in Body /\ Len(Empty) = 0
  <2>1. Empty \in [1..0 -> Byte]
    BY DEF Empty
  <2>2. 0 \in 0..Blocks
    BY VaultAssumption
  <2>. QED BY <1>1, <2>1, <2>2
<1>6. Zeros \in Whole
  BY VaultAssumption DEF Zeros, Whole
<1>. QED BY <1>1, <1>2, <1>3, <1>4, <1>5, <1>6, VaultAssumption

\* Max of two naturals.
LEMMA MaxOfPair ==
  ASSUME NEW i \in Nat, NEW j \in Nat
  PROVE  Max({i, j}) \in {i, j} /\ \A k \in {i, j} : Max({i, j}) >= k
<1>1. \E x \in {i, j} : \A y \in {i, j} : x >= y
  <2>1. CASE i >= j
    BY <2>1
  <2>2. CASE j >= i
    BY <2>2
  <2>. QED BY <2>1, <2>2
<1>. QED BY <1>1 DEF Max

\* A write within a body keeps it a body; on a whole one it changes one block.
LEMMA WriteFacts ==
  ASSUME NEW f \in Body, NEW i \in Offsets, NEW b \in Byte
  PROVE  /\ WriteAt(f, i, b) \in Body
         /\ f \in Whole => /\ WriteAt(f, i, b) \in Whole
                          /\ WriteAt(f, i, b) = [f EXCEPT ![i] = b]
<1>. DEFINE m == Max({Len(f), i})
<1>1. f \in [1..Len(f) -> Byte] /\ Len(f) \in 0..Blocks /\ i \in 1..Blocks
  BY BodyFacts DEF Offsets
<1>2. m \in {Len(f), i} /\ \A k \in {Len(f), i} : m >= k
  BY <1>1, MaxOfPair
<1>3. m \in 0..Blocks
  BY <1>1, <1>2, VaultAssumption
<1>4. WriteAt(f, i, b) \in [1..m -> Byte]
  BY <1>1, <1>3, VaultAssumption DEF WriteAt
<1>5. WriteAt(f, i, b) \in Body
  BY <1>3, <1>4, BodyFacts
<1>6. ASSUME f \in Whole
      PROVE  WriteAt(f, i, b) \in Whole /\ WriteAt(f, i, b) = [f EXCEPT ![i] = b]
  <2>1. Len(f) = Blocks
    BY <1>6, BodyFacts
  <2>2. m = Blocks
    BY <2>1, <1>1, <1>2, <1>3, VaultAssumption
  <2>3. f \in [1..Blocks -> Byte]
    BY <1>6 DEF Whole
  <2>. DEFINE W == WriteAt(f, i, b)
  <2>4. W \in [1..Blocks -> Byte]
    BY <1>4, <2>2
  <2>5. ASSUME NEW j \in 1..Blocks PROVE W[j] = IF j = i THEN b ELSE f[j]
    <3>1. j \in 1..Max({Len(f), i}) /\ j <= Len(f)
      BY <2>1, <2>2, VaultAssumption
    <3>. QED BY <3>1 DEF WriteAt
  <2>6. W = [f EXCEPT ![i] = b]
    <3>. HIDE DEF W
    <3>. QED BY <1>1, <2>3, <2>4, <2>5
  <2>. QED BY <2>4, <2>6 DEF Whole
<1>. QED BY <1>5, <1>6

\* A whole buffer written from the start of a body is the new body.
LEMMA OverwriteFacts ==
  ASSUME NEW f \in Body, NEW buf \in Whole
  PROVE  Overwrite(f, buf) \in Whole
<1>. DEFINE m == Max({Len(f), Len(buf)})
<1>1. Len(f) \in 0..Blocks /\ Len(buf) = Blocks /\ buf \in [1..Blocks -> Byte]
  BY BodyFacts DEF Whole
<1>2. m \in {Len(f), Blocks} /\ \A k \in {Len(f), Blocks} : m >= k
  BY <1>1, MaxOfPair, VaultAssumption
<1>3. m = Blocks
  BY <1>1, <1>2, VaultAssumption
<1>. QED BY <1>1, <1>3, VaultAssumption DEF Overwrite, Whole

\* What is exposed, element by element.
LEMMA ExposedFacts ==
  /\ \A x : x \in Exposed <=> x \in cut \/ \E t \in Task : x \in task[t].gone
  /\ \A x : x \in Exposed' <=> x \in cut' \/ \E t \in Task : x \in task'[t].gone
  BY DEF Exposed

---------------------------------------------------------------------------
(* The invariant is inductive. *)

LEMMA InitIInv == Init => IInv
<1>. SUFFICES ASSUME Init PROVE IInv
  OBVIOUS
<1>1. TypeOK
  BY VaultAssumption, BodyFacts DEF Init, TypeOK, NewManifest, Manifest, TaskState, Idle
<1>2. /\ mem.next = 0 /\ disk.next = 0 /\ used = {} /\ cut = {} /\ Live = {} /\ Saved = {}
      /\ \A t \in Task : task[t] = Idle
  BY DEF Init, NewManifest, Live, Saved
<1>3. LockInv /\ TaskInv /\ DeleteInv
  BY <1>2 DEF LockInv, TaskInv, DeleteInv, Idle, UnderLock, Creating, Snapping, Restoring
<1>4. CountInv /\ SnapCountInv
  BY <1>2 DEF CountInv, SnapCountInv, Live, Idle, Unlocked, Restoring
<1>5. FreshInv
  BY <1>2 DEF FreshInv, Idle, Creating, Snapping
<1>6. SavedInv /\ BodyInv
  BY <1>2 DEF SavedInv, BodyInv, Live, Saved, Idle
<1>. QED BY <1>1, <1>3, <1>4, <1>5, <1>6 DEF IInv

\* What is being removed is exposed.
LEMMA RemovingExposed ==
  \A x : (Removing(x) => x \in Exposed) /\ (Removing(x)' => x \in Exposed')
  BY ExposedFacts DEF Removing

\* What the types give.
LEMMA StateFacts ==
  ASSUME IInv
  PROVE  /\ used \subseteq Id /\ Live \subseteq Id /\ Saved \subseteq Id
         /\ mem.volumes \subseteq Live /\ mem.snapshots \subseteq Live
         /\ disk.volumes \subseteq Saved /\ disk.snapshots \subseteq Saved
         /\ mem.volumes \subseteq Vol /\ mem.snapshots \subseteq Snap
         /\ disk.volumes \subseteq Vol /\ disk.snapshots \subseteq Snap
         /\ mem.next \in Nat /\ disk.next \in Nat
         /\ \A n \in 1..MaxVolumes : mem.next_snap[n] \in Nat /\ disk.next_snap[n] \in Nat
<1>1. /\ mem.next \in Nat /\ disk.next \in Nat
      /\ \A n \in 1..MaxVolumes : mem.next_snap[n] \in Nat /\ disk.next_snap[n] \in Nat
  BY VaultAssumption DEF IInv, TypeOK, Manifest
<1>2. used \subseteq Id /\ Live \subseteq Id /\ Saved \subseteq Id
  BY IdFacts DEF IInv, TypeOK, Manifest, Live, Saved
<1>3. /\ mem.volumes \subseteq Live /\ mem.snapshots \subseteq Live
      /\ disk.volumes \subseteq Saved /\ disk.snapshots \subseteq Saved
  BY DEF Live, Saved
<1>4. /\ mem.volumes \subseteq Vol /\ mem.snapshots \subseteq Snap
      /\ disk.volumes \subseteq Vol /\ disk.snapshots \subseteq Snap
  BY DEF IInv, TypeOK, Manifest
<1>. QED BY <1>1, <1>2, <1>3, <1>4

LEMMA TaskFacts ==
  ASSUME IInv, NEW u \in Task
  PROVE  /\ task[u] \in TaskState /\ task[u].gone \subseteq Id /\ task[u].buf \in Body
         /\ task[u].pc \in Unlocked \cup Snapping \cup Creating => task[u].id \in Id
         /\ task[u].pc \in Restoring => task[u].id \in Snap
<1>1. task[u] \in TaskState /\ task[u].gone \subseteq Id /\ task[u].buf \in Body
  BY DEF IInv, TypeOK, TaskState
<1>2. task[u].pc \in Unlocked \cup Snapping \cup Creating => task[u].id \in Id
  BY IdFacts DEF IInv, TaskInv, Unlocked, Snapping, Creating, Restoring
<1>. QED BY <1>1, <1>2 DEF IInv, TaskInv

\* A new volume: the counter has passed every id in use.
LEMMA CreateKeeps ==
  ASSUME IInv, NEW t \in Task, Create(t)
  PROVE  IInv' /\ Evolves
<1>1. /\ \A u \in Task : task[u].pc \notin UnderLock
      /\ task[t] = Idle /\ task[t].pc = "idle" /\ task[t].gone = {}
      /\ mem.next + 1 \in 1..MaxVolumes /\ <<mem.next + 1, 0>> \in Vol /\ <<mem.next + 1, 0>> \in Id
      /\ task' \in [Task -> TaskState]
      /\ \A u \in Task \ {t} : task'[u] = task[u]
      /\ task'[t].pc = "create_body" /\ task'[t].id = <<mem.next + 1, 0>>
      /\ task'[t].buf = Empty /\ task'[t].gone = {}
      /\ mem' \in Manifest /\ mem'.next = mem.next + 1 /\ mem'.next_snap = mem.next_snap
      /\ mem'.volumes = mem.volumes /\ mem'.snapshots = mem.snapshots
      /\ UNCHANGED <<disk, body, cut, used>>
      /\ UNCHANGED <<Live, Saved, Exposed>>
  <2>1. /\ \A u \in Task : task[u].pc \notin UnderLock
        /\ task[t] = Idle /\ task[t].pc = "idle" /\ task[t].gone = {}
        /\ mem.next + 1 \in 1..MaxVolumes /\ <<mem.next + 1, 0>> \in Vol /\ <<mem.next + 1, 0>> \in Id
    <3>1. mem.next + 1 \in 1..MaxVolumes
      BY StateFacts DEF Create, NextVolume
    <3>. QED BY <3>1, IdFacts DEF IInv, TypeOK, TaskInv, Create, Enter, Locked, Idle
  <2>2. /\ task' \in [Task -> TaskState]
        /\ \A u \in Task \ {t} : task'[u] = task[u]
        /\ task'[t].pc = "create_body" /\ task'[t].id = <<mem.next + 1, 0>>
        /\ task'[t].buf = Empty /\ task'[t].gone = {}
    <3>. DEFINE r == [Idle EXCEPT !.pc = "create_body", !.id = <<mem.next + 1, 0>>]
    <3>1. r \in TaskState
      BY <2>1, BodyFacts DEF TaskState, UnderLock, Unlocked, Idle
    <3>2. task' = [task EXCEPT ![t] = r]
      BY DEF Create, NextVolume
    <3>. QED BY <3>1, <3>2 DEF IInv, TypeOK, Idle
  <2>3. /\ mem' \in Manifest /\ mem'.next = mem.next + 1 /\ mem'.next_snap = mem.next_snap
        /\ mem'.volumes = mem.volumes /\ mem'.snapshots = mem.snapshots
        /\ UNCHANGED <<disk, body, cut, used>>
    <3>1. mem.next + 1 \in 0..MaxVolumes
      BY <2>1, VaultAssumption
    <3>. QED BY <3>1 DEF IInv, TypeOK, Manifest, Create, NextVolume
  <2>4. /\ UNCHANGED <<Live, Saved, Exposed>>
    BY <2>1, <2>2, <2>3, ExposedFacts DEF Live, Saved
  <2>. QED BY <2>1, <2>2, <2>3, <2>4
<1>2. TypeOK'
  BY <1>1, IInv, StateFacts, TaskFacts DEF IInv, TypeOK
<1>3. LockInv'
  BY <1>1, IInv, StateFacts, TaskFacts DEF IInv, LockInv, UnderLock
<1>4. TaskInv'
  BY <1>1, IInv, StateFacts, TaskFacts DEF IInv, TaskInv, Creating, Snapping, Restoring
<1>5. DeleteInv'
  BY <1>1, IInv, StateFacts, TaskFacts, IdFacts DEF IInv, LockInv, DeleteInv, SnapsOf, UnderLock
<1>6. CountInv'
  BY <1>1, IInv, StateFacts, TaskFacts, IdTypes DEF IInv, CountInv, Unlocked
<1>7. SnapCountInv'
  BY <1>1, IInv, StateFacts, TaskFacts, IdTypes DEF IInv, SnapCountInv, Restoring, Unlocked
<1>8. FreshInv'
  BY <1>1, IInv, StateFacts, TaskFacts, IdTypes DEF IInv, FreshInv, UnderLock, Unlocked, Creating, Snapping, Restoring, CountInv
<1>9. SavedInv'
  BY <1>1, IInv, StateFacts, TaskFacts DEF IInv, SavedInv, Removing
<1>10. BodyInv'
  BY <1>1, IInv, StateFacts, TaskFacts DEF IInv, BodyInv, Removing, Restoring, Unlocked
<1>11. Evolves
  BY <1>1, IInv, StateFacts, TaskFacts DEF IInv, SavedInv, Evolves
<1>. QED BY <1>2, <1>3, <1>4, <1>5, <1>6, <1>7, <1>8, <1>9, <1>10, <1>11 DEF IInv

\* The body of a new volume is created under an id of its own.
LEMMA CreateBodyKeeps ==
  ASSUME IInv, NEW t \in Task, CreateBody(t)
  PROVE  IInv' /\ Evolves
<1>1. /\ task[t].pc = "create_body" /\ task[t].pc \in Creating
      /\ \A u \in Task \ {t} : task[u].pc \notin UnderLock
      /\ task[t].id \in Id /\ task[t].gone = {}
      /\ UNCHANGED <<mem, disk, cut, used>>
      /\ task' \in [Task -> TaskState]
      /\ \A u \in Task \ {t} : task'[u] = task[u]
      /\ task'[t].pc = "create_fill" /\ task'[t].id = task[t].id
      /\ task'[t].buf = task[t].buf /\ task'[t].gone = task[t].gone
      /\ body' \in [Id -> Body \cup {Missing}]
      /\ \A x \in Saved \cup Live : body'[x] = body[x]
      /\ \A u \in Task : task[u].pc = "restore_read" => body'[task[u].id] = body[task[u].id]
      /\ UNCHANGED <<Live, Saved, Exposed>>
  <2>1. /\ task[t].pc = "create_body" /\ task[t].pc \in Creating
        /\ \A u \in Task \ {t} : task[u].pc \notin UnderLock
        /\ task[t].id \in Id /\ task[t].gone = {}
        /\ UNCHANGED <<mem, disk, cut, used>>
    BY TaskFacts, IdFacts DEF IInv, LockInv, TaskInv, UnderLock, Creating, CreateBody, At
  <2>2. /\ task' \in [Task -> TaskState]
        /\ \A u \in Task \ {t} : task'[u] = task[u]
        /\ task'[t].pc = "create_fill" /\ task'[t].id = task[t].id
        /\ task'[t].buf = task[t].buf /\ task'[t].gone = task[t].gone
    <3>. DEFINE r == [task[t] EXCEPT !.pc = "create_fill"]
    <3>1. r \in TaskState /\ task[t] \in TaskState
      BY DEF IInv, TypeOK, TaskState, UnderLock, Unlocked
    <3>2. task' = [task EXCEPT ![t] = r]
      BY DEF CreateBody, Goto
    <3>. QED BY <3>1, <3>2 DEF IInv, TypeOK, TaskState
  <2>3. /\ body' \in [Id -> Body \cup {Missing}]
        /\ \A x \in Saved \cup Live : body'[x] = body[x]
        /\ \A u \in Task : task[u].pc = "restore_read" => body'[task[u].id] = body[task[u].id]
    <3>1. body' = [body EXCEPT ![task[t].id] = Empty]
      BY DEF CreateBody
    <3>2. task[t].id \notin Saved \cup Live
      BY <2>1, StateFacts DEF IInv, FreshInv, SavedInv
    <3>3. \A u \in Task : task[u].pc = "restore_read" => task[u].id # task[t].id
      BY <2>1 DEF IInv, FreshInv, Unlocked, Restoring
    <3>. QED BY <2>1, <3>1, <3>2, <3>3, StateFacts, TaskFacts, BodyFacts DEF IInv, TypeOK, Unlocked
  <2>4. /\ UNCHANGED <<Live, Saved, Exposed>>
    BY <2>1, <2>2, ExposedFacts DEF Live, Saved
  <2>. QED BY <2>1, <2>2, <2>3, <2>4
<1>2. TypeOK'
  BY <1>1, IInv, StateFacts, TaskFacts DEF IInv, TypeOK
<1>3. LockInv'
  BY <1>1, IInv, StateFacts, TaskFacts DEF IInv, LockInv, UnderLock
<1>4. TaskInv'
  BY <1>1, IInv, StateFacts, TaskFacts DEF IInv, TaskInv, Creating, Snapping, Restoring
<1>5. DeleteInv'
  BY <1>1, IInv, StateFacts, TaskFacts, IdFacts DEF IInv, LockInv, DeleteInv, SnapsOf, UnderLock
<1>6. CountInv'
  BY <1>1, IInv, StateFacts, TaskFacts, IdTypes DEF IInv, CountInv, Unlocked
<1>7. SnapCountInv'
  BY <1>1, IInv, StateFacts, TaskFacts, IdTypes DEF IInv, SnapCountInv, Restoring, Unlocked
<1>8. FreshInv'
  BY <1>1, IInv, StateFacts, TaskFacts DEF IInv, FreshInv, UnderLock, Unlocked, Creating, Snapping, Restoring
<1>9. SavedInv'
  BY <1>1, IInv, StateFacts, TaskFacts DEF IInv, SavedInv, Removing
<1>10. BodyInv'
  BY <1>1, IInv, StateFacts, TaskFacts DEF IInv, BodyInv, Removing, Restoring, Unlocked
<1>11. Evolves
  BY <1>1, IInv, StateFacts, TaskFacts DEF IInv, SavedInv, Evolves
<1>. QED BY <1>2, <1>3, <1>4, <1>5, <1>6, <1>7, <1>8, <1>9, <1>10, <1>11 DEF IInv

\* The body of a new snapshot is created under an id of its own.
LEMMA SnapBodyKeeps ==
  ASSUME IInv, NEW t \in Task, SnapBody(t)
  PROVE  IInv' /\ Evolves
<1>1. /\ task[t].pc = "snap_body" /\ task[t].pc \in Snapping
      /\ \A u \in Task \ {t} : task[u].pc \notin UnderLock
      /\ task[t].id \in Id /\ task[t].gone = {}
      /\ UNCHANGED <<mem, disk, cut, used>>
      /\ task' \in [Task -> TaskState]
      /\ \A u \in Task \ {t} : task'[u] = task[u]
      /\ task'[t].pc = "snap_fill" /\ task'[t].id = task[t].id
      /\ task'[t].buf = task[t].buf /\ task'[t].gone = task[t].gone
      /\ body' \in [Id -> Body \cup {Missing}]
      /\ \A x \in Saved \cup Live : body'[x] = body[x]
      /\ \A u \in Task : task[u].pc = "restore_read" => body'[task[u].id] = body[task[u].id]
      /\ UNCHANGED <<Live, Saved, Exposed>>
  <2>1. /\ task[t].pc = "snap_body" /\ task[t].pc \in Snapping
        /\ \A u \in Task \ {t} : task[u].pc \notin UnderLock
        /\ task[t].id \in Id /\ task[t].gone = {}
        /\ UNCHANGED <<mem, disk, cut, used>>
    BY TaskFacts, IdFacts DEF IInv, LockInv, TaskInv, UnderLock, Snapping, SnapBody, At
  <2>2. /\ task' \in [Task -> TaskState]
        /\ \A u \in Task \ {t} : task'[u] = task[u]
        /\ task'[t].pc = "snap_fill" /\ task'[t].id = task[t].id
        /\ task'[t].buf = task[t].buf /\ task'[t].gone = task[t].gone
    <3>. DEFINE r == [task[t] EXCEPT !.pc = "snap_fill"]
    <3>1. r \in TaskState /\ task[t] \in TaskState
      BY DEF IInv, TypeOK, TaskState, UnderLock, Unlocked
    <3>2. task' = [task EXCEPT ![t] = r]
      BY DEF SnapBody, Goto
    <3>. QED BY <3>1, <3>2 DEF IInv, TypeOK, TaskState
  <2>3. /\ body' \in [Id -> Body \cup {Missing}]
        /\ \A x \in Saved \cup Live : body'[x] = body[x]
        /\ \A u \in Task : task[u].pc = "restore_read" => body'[task[u].id] = body[task[u].id]
    <3>1. body' = [body EXCEPT ![task[t].id] = Empty]
      BY DEF SnapBody
    <3>2. task[t].id \notin Saved \cup Live
      BY <2>1, StateFacts DEF IInv, FreshInv, SavedInv
    <3>3. \A u \in Task : task[u].pc = "restore_read" => task[u].id # task[t].id
      BY <2>1 DEF IInv, FreshInv, Unlocked, Restoring
    <3>. QED BY <2>1, <3>1, <3>2, <3>3, StateFacts, TaskFacts, BodyFacts DEF IInv, TypeOK, Unlocked
  <2>4. /\ UNCHANGED <<Live, Saved, Exposed>>
    BY <2>1, <2>2, ExposedFacts DEF Live, Saved
  <2>. QED BY <2>1, <2>2, <2>3, <2>4
<1>2. TypeOK'
  BY <1>1, IInv, StateFacts, TaskFacts DEF IInv, TypeOK
<1>3. LockInv'
  BY <1>1, IInv, StateFacts, TaskFacts DEF IInv, LockInv, UnderLock
<1>4. TaskInv'
  BY <1>1, IInv, StateFacts, TaskFacts DEF IInv, TaskInv, Creating, Snapping, Restoring
<1>5. DeleteInv'
  BY <1>1, IInv, StateFacts, TaskFacts, IdFacts DEF IInv, LockInv, DeleteInv, SnapsOf, UnderLock
<1>6. CountInv'
  BY <1>1, IInv, StateFacts, TaskFacts, IdTypes DEF IInv, CountInv, Unlocked
<1>7. SnapCountInv'
  BY <1>1, IInv, StateFacts, TaskFacts, IdTypes DEF IInv, SnapCountInv, Restoring, Unlocked
<1>8. FreshInv'
  BY <1>1, IInv, StateFacts, TaskFacts DEF IInv, FreshInv, UnderLock, Unlocked, Creating, Snapping, Restoring
<1>9. SavedInv'
  BY <1>1, IInv, StateFacts, TaskFacts DEF IInv, SavedInv, Removing
<1>10. BodyInv'
  BY <1>1, IInv, StateFacts, TaskFacts DEF IInv, BodyInv, Removing, Restoring, Unlocked
<1>11. Evolves
  BY <1>1, IInv, StateFacts, TaskFacts DEF IInv, SavedInv, Evolves
<1>. QED BY <1>2, <1>3, <1>4, <1>5, <1>6, <1>7, <1>8, <1>9, <1>10, <1>11 DEF IInv

\* A new volume is entered with a whole body.
LEMMA CreateFillKeeps ==
  ASSUME IInv, NEW t \in Task, CreateFill(t)
  PROVE  IInv' /\ Evolves
<1>1. /\ task[t].pc = "create_fill" /\ task[t].pc \in Creating
      /\ \A u \in Task \ {t} : task[u].pc \notin UnderLock
      /\ task[t].id \in Id /\ task[t].id \in Vol /\ task[t].gone = {}
      /\ UNCHANGED <<disk, cut, used>>
      /\ Zeros \in Whole /\ Zeros \in Body
      /\ task' \in [Task -> TaskState]
      /\ \A u \in Task \ {t} : task'[u] = task[u]
      /\ task'[t].pc = "save" /\ task'[t].id = task[t].id
      /\ task'[t].buf = task[t].buf /\ task'[t].gone = task[t].gone
      /\ body' \in [Id -> Body \cup {Missing}] /\ body'[task[t].id] \in Whole /\ body'[task[t].id] # Missing
      /\ task[t].id \notin used \cup Saved \cup Live
      /\ \A x \in Saved \cup Live : body'[x] = body[x]
      /\ \A u \in Task : task[u].pc = "restore_read" => body'[task[u].id] = body[task[u].id]
      /\ mem' \in Manifest /\ mem'.next = mem.next /\ mem'.next_snap = mem.next_snap
      /\ mem'.volumes = mem.volumes \cup {task[t].id} /\ mem'.snapshots = mem.snapshots
      /\ Live' = Live \cup {task[t].id} /\ UNCHANGED Saved
      /\ UNCHANGED Exposed
  <2>1. /\ task[t].pc = "create_fill" /\ task[t].pc \in Creating
        /\ \A u \in Task \ {t} : task[u].pc \notin UnderLock
        /\ task[t].id \in Id /\ task[t].id \in Vol /\ task[t].gone = {}
        /\ UNCHANGED <<disk, cut, used>>
        /\ Zeros \in Whole /\ Zeros \in Body
    BY TaskFacts, IdFacts, BodyFacts DEF IInv, LockInv, TaskInv, UnderLock, Creating, CreateFill, At
  <2>2. /\ task' \in [Task -> TaskState]
        /\ \A u \in Task \ {t} : task'[u] = task[u]
        /\ task'[t].pc = "save" /\ task'[t].id = task[t].id
        /\ task'[t].buf = task[t].buf /\ task'[t].gone = task[t].gone
    <3>. DEFINE r == [task[t] EXCEPT !.pc = "save"]
    <3>1. r \in TaskState /\ task[t] \in TaskState
      BY DEF IInv, TypeOK, TaskState, UnderLock, Unlocked
    <3>2. task' = [task EXCEPT ![t] = r]
      BY DEF CreateFill, Goto
    <3>. QED BY <3>1, <3>2 DEF IInv, TypeOK, TaskState
  <2>3. /\ body' \in [Id -> Body \cup {Missing}] /\ body'[task[t].id] \in Whole /\ body'[task[t].id] # Missing
        /\ task[t].id \notin used \cup Saved \cup Live
        /\ \A x \in Saved \cup Live : body'[x] = body[x]
        /\ \A u \in Task : task[u].pc = "restore_read" => body'[task[u].id] = body[task[u].id]
    <3>1. body' = [body EXCEPT ![task[t].id] = Zeros]
      BY DEF CreateFill
    <3>2. task[t].id \notin used \cup Saved \cup Live
      BY <2>1, StateFacts DEF IInv, FreshInv, SavedInv
    <3>3. \A u \in Task : task[u].pc = "restore_read" => task[u].id # task[t].id
      BY <2>1 DEF IInv, FreshInv, Unlocked, Restoring
    <3>. QED BY <2>1, <3>1, <3>2, <3>3, StateFacts, TaskFacts, BodyFacts DEF IInv, TypeOK, Unlocked
  <2>4. /\ mem' \in Manifest /\ mem'.next = mem.next /\ mem'.next_snap = mem.next_snap
        /\ mem'.volumes = mem.volumes \cup {task[t].id} /\ mem'.snapshots = mem.snapshots
    BY <2>1 DEF IInv, TypeOK, Manifest, CreateFill
  <2>5. /\ Live' = Live \cup {task[t].id} /\ UNCHANGED Saved
    BY <2>1, <2>4 DEF Live, Saved
  <2>6. /\ UNCHANGED Exposed
    BY <2>1, <2>2, ExposedFacts
  <2>. QED BY <2>1, <2>2, <2>3, <2>4, <2>5, <2>6
<1>2. TypeOK'
  BY <1>1, IInv, StateFacts, TaskFacts DEF IInv, TypeOK
<1>3. LockInv'
  BY <1>1, IInv, StateFacts, TaskFacts DEF IInv, LockInv, UnderLock
<1>4. TaskInv'
  BY <1>1, IInv, StateFacts, TaskFacts DEF IInv, TaskInv, Creating, Snapping, Restoring
<1>5. DeleteInv'
  BY <1>1, IInv, StateFacts, TaskFacts, IdFacts DEF IInv, LockInv, DeleteInv, SnapsOf, UnderLock
<1>6. CountInv'
  <2>1. task[t].id[1] <= mem.next
    BY <1>1, StateFacts DEF IInv, FreshInv
  <2>. QED BY <1>1, <2>1, StateFacts, TaskFacts DEF IInv, CountInv, Unlocked
<1>7. SnapCountInv'
  <2>1. \A x \in used \cup Live : VolumeOf(x) # task[t].id
    BY <1>1, StateFacts, IdFacts DEF IInv, FreshInv
  <2>2. \A u \in Task : task[u].pc \in Restoring => VolumeOf(task[u].id) # task[t].id
    BY <1>1, TaskFacts, IdFacts DEF IInv, FreshInv, Restoring, Unlocked
  <2>. QED BY <1>1, <2>1, <2>2, StateFacts DEF IInv, SnapCountInv, Restoring
<1>8. FreshInv'
  BY <1>1, IInv, StateFacts, TaskFacts DEF IInv, FreshInv, UnderLock, Unlocked, Creating, Snapping, Restoring
<1>9. SavedInv'
  BY <1>1, IInv, StateFacts, TaskFacts DEF IInv, SavedInv, Removing
<1>10. BodyInv'
  BY <1>1, IInv, StateFacts, TaskFacts DEF IInv, BodyInv, Removing, Restoring, Unlocked
<1>11. Evolves
  BY <1>1, IInv, StateFacts, TaskFacts DEF IInv, SavedInv, Evolves
<1>. QED BY <1>2, <1>3, <1>4, <1>5, <1>6, <1>7, <1>8, <1>9, <1>10, <1>11 DEF IInv

\* A new snapshot is entered with a whole body.
LEMMA SnapFillKeeps ==
  ASSUME IInv, NEW t \in Task, SnapFill(t)
  PROVE  IInv' /\ Evolves
<1>1. /\ task[t].pc = "snap_fill" /\ task[t].pc \in Snapping
      /\ \A u \in Task \ {t} : task[u].pc \notin UnderLock
      /\ task[t].id \in Id /\ task[t].id \in Snap /\ task[t].gone = {}
      /\ UNCHANGED <<disk, cut, used>>
      /\ task[t].buf \in Whole /\ task[t].buf \in Body
      /\ task' \in [Task -> TaskState]
      /\ \A u \in Task \ {t} : task'[u] = task[u]
      /\ task'[t].pc = "save" /\ task'[t].id = task[t].id
      /\ task'[t].buf = task[t].buf /\ task'[t].gone = task[t].gone
      /\ body' \in [Id -> Body \cup {Missing}] /\ body'[task[t].id] \in Whole /\ body'[task[t].id] # Missing
      /\ task[t].id \notin used \cup Saved \cup Live
      /\ \A x \in Saved \cup Live : body'[x] = body[x]
      /\ \A u \in Task : task[u].pc = "restore_read" => body'[task[u].id] = body[task[u].id]
      /\ mem' \in Manifest /\ mem'.next = mem.next /\ mem'.next_snap = mem.next_snap
      /\ mem'.snapshots = mem.snapshots \cup {task[t].id} /\ mem'.volumes = mem.volumes
      /\ Live' = Live \cup {task[t].id} /\ UNCHANGED Saved
      /\ UNCHANGED Exposed
  <2>1. /\ task[t].pc = "snap_fill" /\ task[t].pc \in Snapping
        /\ \A u \in Task \ {t} : task[u].pc \notin UnderLock
        /\ task[t].id \in Id /\ task[t].id \in Snap /\ task[t].gone = {}
        /\ UNCHANGED <<disk, cut, used>>
        /\ task[t].buf \in Whole /\ task[t].buf \in Body
    BY TaskFacts, IdFacts, BodyFacts DEF IInv, LockInv, TaskInv, UnderLock, Snapping, SnapFill, At
  <2>2. /\ task' \in [Task -> TaskState]
        /\ \A u \in Task \ {t} : task'[u] = task[u]
        /\ task'[t].pc = "save" /\ task'[t].id = task[t].id
        /\ task'[t].buf = task[t].buf /\ task'[t].gone = task[t].gone
    <3>. DEFINE r == [task[t] EXCEPT !.pc = "save"]
    <3>1. r \in TaskState /\ task[t] \in TaskState
      BY DEF IInv, TypeOK, TaskState, UnderLock, Unlocked
    <3>2. task' = [task EXCEPT ![t] = r]
      BY DEF SnapFill, Goto
    <3>. QED BY <3>1, <3>2 DEF IInv, TypeOK, TaskState
  <2>3. /\ body' \in [Id -> Body \cup {Missing}] /\ body'[task[t].id] \in Whole /\ body'[task[t].id] # Missing
        /\ task[t].id \notin used \cup Saved \cup Live
        /\ \A x \in Saved \cup Live : body'[x] = body[x]
        /\ \A u \in Task : task[u].pc = "restore_read" => body'[task[u].id] = body[task[u].id]
    <3>1. body' = [body EXCEPT ![task[t].id] = task[t].buf]
      BY DEF SnapFill
    <3>2. task[t].id \notin used \cup Saved \cup Live
      BY <2>1, StateFacts DEF IInv, FreshInv, SavedInv
    <3>3. \A u \in Task : task[u].pc = "restore_read" => task[u].id # task[t].id
      BY <2>1 DEF IInv, FreshInv, Unlocked, Restoring
    <3>. QED BY <2>1, <3>1, <3>2, <3>3, StateFacts, TaskFacts, BodyFacts DEF IInv, TypeOK, Unlocked
  <2>4. /\ mem' \in Manifest /\ mem'.next = mem.next /\ mem'.next_snap = mem.next_snap
        /\ mem'.snapshots = mem.snapshots \cup {task[t].id} /\ mem'.volumes = mem.volumes
    BY <2>1 DEF IInv, TypeOK, Manifest, SnapFill
  <2>5. /\ Live' = Live \cup {task[t].id} /\ UNCHANGED Saved
    BY <2>1, <2>4 DEF Live, Saved
  <2>6. /\ UNCHANGED Exposed
    BY <2>1, <2>2, ExposedFacts
  <2>. QED BY <2>1, <2>2, <2>3, <2>4, <2>5, <2>6
<1>2. TypeOK'
  BY <1>1, IInv, StateFacts, TaskFacts DEF IInv, TypeOK
<1>3. LockInv'
  BY <1>1, IInv, StateFacts, TaskFacts DEF IInv, LockInv, UnderLock
<1>4. TaskInv'
  BY <1>1, IInv, StateFacts, TaskFacts DEF IInv, TaskInv, Creating, Snapping, Restoring
<1>5. DeleteInv'
  BY <1>1, IInv, StateFacts, TaskFacts, IdFacts DEF IInv, LockInv, DeleteInv, SnapsOf, UnderLock
<1>6. CountInv'
  <2>1. task[t].id[1] <= mem.next
    BY <1>1 DEF IInv, FreshInv
  <2>. QED BY <1>1, <2>1, StateFacts, TaskFacts DEF IInv, CountInv, Unlocked
<1>7. SnapCountInv'
  <2>1. task[t].id[2] <= mem.next_snap[task[t].id[1]]
    BY <1>1, IdTypes, StateFacts DEF IInv, FreshInv
  <2>. QED BY <1>1, <2>1, StateFacts DEF IInv, SnapCountInv, Restoring
<1>8. FreshInv'
  BY <1>1, IInv, StateFacts, TaskFacts DEF IInv, FreshInv, UnderLock, Unlocked, Creating, Snapping, Restoring
<1>9. SavedInv'
  BY <1>1, IInv, StateFacts, TaskFacts DEF IInv, SavedInv, Removing
<1>10. BodyInv'
  BY <1>1, IInv, StateFacts, TaskFacts DEF IInv, BodyInv, Removing, Restoring, Unlocked
<1>11. Evolves
  BY <1>1, IInv, StateFacts, TaskFacts DEF IInv, SavedInv, Evolves
<1>. QED BY <1>2, <1>3, <1>4, <1>5, <1>6, <1>7, <1>8, <1>9, <1>10, <1>11 DEF IInv

\* A save makes the live things durable: what its caller was deleting is gone.
LEMMA SaveKeeps ==
  ASSUME IInv, NEW t \in Task, Save(t)
  PROVE  IInv' /\ Evolves
<1>1. /\ task[t].pc \in {"save", "delete_snaps"} /\ task[t].gone \cap Live = {}
      /\ \A u \in Task \ {t} : task[u].pc \notin UnderLock
      /\ disk' = mem /\ used' = used \cup Live /\ UNCHANGED <<mem, body, cut>>
      /\ task' \in [Task -> TaskState]
      /\ \A u \in Task \ {t} : task'[u] = task[u]
      /\ task'[t] = Idle /\ task'[t].pc = "idle" /\ task'[t].gone = {}
      /\ Live' = Live /\ Saved' = Live
      /\ \A x : x \in Exposed' => x \in Exposed
      /\ \A x \in Live : x \in Exposed => x \in Exposed'
  <2>1. /\ task[t].pc \in {"save", "delete_snaps"} /\ task[t].gone \cap Live = {}
        /\ \A u \in Task \ {t} : task[u].pc \notin UnderLock
        /\ disk' = mem /\ used' = used \cup Live /\ UNCHANGED <<mem, body, cut>>
    <3>1. task[t].pc \in {"save", "delete_snaps"}
      BY DEF Save, At
    <3>2. task[t].gone \cap Live = {}
      <4>1. CASE task[t].pc = "save"
        BY <4>1 DEF IInv, DeleteInv
      <4>2. CASE task[t].pc = "delete_snaps"
        <5>1. /\ SnapsOf(task[t].id) = {} /\ task[t].id \notin mem.volumes
              /\ \A x \in task[t].gone : VolumeOf(x) = task[t].id
          BY <4>2 DEF IInv, DeleteInv, Save, At
        <5>2. \A x \in mem.volumes : VolumeOf(x) = x
          BY IdFacts DEF IInv, TypeOK, Manifest
        <5>. QED BY <5>1, <5>2 DEF SnapsOf, Live
      <4>. QED BY <3>1, <4>1, <4>2
    <3>3. \A u \in Task \ {t} : task[u].pc \notin UnderLock
      BY <3>1 DEF IInv, LockInv, UnderLock
    <3>4. disk' = mem /\ used' = used \cup Live /\ UNCHANGED <<mem, body, cut>>
      BY DEF Save, SaveManifest, Live
    <3>. QED BY <3>1, <3>2, <3>3, <3>4
  <2>2. /\ task' \in [Task -> TaskState]
        /\ \A u \in Task \ {t} : task'[u] = task[u]
        /\ task'[t] = Idle /\ task'[t].pc = "idle" /\ task'[t].gone = {}
    <3>1. Idle \in TaskState
      BY BodyFacts DEF TaskState, Idle
    <3>. QED BY <3>1 DEF IInv, TypeOK, Save, Return, Idle
  <2>3. /\ Live' = Live /\ Saved' = Live
    BY <2>1 DEF Live, Saved
  <2>4. /\ \A x : x \in Exposed' => x \in Exposed
        /\ \A x \in Live : x \in Exposed => x \in Exposed'
    BY <2>1, <2>2, ExposedFacts
  <2>. QED BY <2>1, <2>2, <2>3, <2>4
<1>2. TypeOK'
  BY <1>1, IInv, StateFacts, TaskFacts DEF IInv, TypeOK
<1>3. LockInv'
  BY <1>1, IInv, StateFacts, TaskFacts DEF IInv, LockInv, UnderLock
<1>4. TaskInv'
  BY <1>1, IInv, StateFacts, TaskFacts DEF IInv, TaskInv, Creating, Snapping, Restoring
<1>5. DeleteInv'
  BY <1>1, IInv, StateFacts, TaskFacts, IdFacts DEF IInv, LockInv, DeleteInv, SnapsOf, UnderLock
<1>6. CountInv'
  BY <1>1, IInv, StateFacts, TaskFacts, IdTypes DEF IInv, CountInv, Unlocked
<1>7. SnapCountInv'
  <2>1. \A x \in Live \cap Snap : x \in mem.snapshots
    BY IdFacts DEF IInv, TypeOK, Manifest, Live
  <2>. QED BY <1>1, <2>1, StateFacts DEF IInv, SnapCountInv, Restoring, UnderLock
<1>8. FreshInv'
  BY <1>1, IInv, StateFacts, TaskFacts DEF IInv, FreshInv, UnderLock, Unlocked, Creating, Snapping, Restoring
<1>9. SavedInv'
  BY <1>1, IInv, StateFacts, TaskFacts DEF IInv, SavedInv, Removing
<1>10. BodyInv'
  BY <1>1, IInv, StateFacts, TaskFacts DEF IInv, BodyInv, Removing, Restoring, Unlocked
<1>11. Evolves
  BY <1>1, StateFacts, RemovingExposed DEF IInv, SavedInv, BodyInv, Evolves
<1>. QED BY <1>2, <1>3, <1>4, <1>5, <1>6, <1>7, <1>8, <1>9, <1>10, <1>11 DEF IInv

\* A flush makes the live things durable.
LEMMA FlushKeeps ==
  ASSUME IInv, NEW t \in Task, Flush(t)
  PROVE  IInv' /\ Evolves
<1>1. /\ \A u \in Task : task[u].pc \notin UnderLock
      /\ disk' = mem /\ used' = used \cup Live /\ UNCHANGED <<mem, body, task, cut>>
      /\ Live' = Live /\ Saved' = Live /\ UNCHANGED Exposed
  <2>1. /\ \A u \in Task : task[u].pc \notin UnderLock
        /\ disk' = mem /\ used' = used \cup Live /\ UNCHANGED <<mem, body, task, cut>>
    BY DEF Flush, Enter, Locked, SaveManifest, Live
  <2>2. /\ Live' = Live /\ Saved' = Live /\ UNCHANGED Exposed
    BY <2>1 DEF Live, Saved, Exposed
  <2>. QED BY <2>1, <2>2
<1>2. TypeOK'
  BY <1>1, IInv, StateFacts, TaskFacts DEF IInv, TypeOK
<1>3. LockInv'
  BY <1>1, IInv, StateFacts, TaskFacts DEF IInv, LockInv, UnderLock
<1>4. TaskInv'
  BY <1>1, IInv, StateFacts, TaskFacts DEF IInv, TaskInv, Creating, Snapping, Restoring
<1>5. DeleteInv'
  BY <1>1, IInv, StateFacts, TaskFacts, IdFacts DEF IInv, LockInv, DeleteInv, SnapsOf, UnderLock
<1>6. CountInv'
  BY <1>1, IInv, StateFacts, TaskFacts, IdTypes DEF IInv, CountInv, Unlocked
<1>7. SnapCountInv'
  <2>1. \A x \in Live \cap Snap : x \in mem.snapshots
    BY IdFacts DEF IInv, TypeOK, Manifest, Live
  <2>. QED BY <1>1, <2>1, StateFacts DEF IInv, SnapCountInv, Restoring, UnderLock
<1>8. FreshInv'
  BY <1>1, IInv, StateFacts, TaskFacts DEF IInv, FreshInv, UnderLock, Unlocked, Creating, Snapping, Restoring
<1>9. SavedInv'
  BY <1>1, IInv, StateFacts, TaskFacts DEF IInv, SavedInv, Removing
<1>10. BodyInv'
  BY <1>1, IInv, StateFacts, TaskFacts DEF IInv, BodyInv, Removing, Restoring, Unlocked
<1>11. Evolves
  BY <1>1, StateFacts, RemovingExposed DEF IInv, SavedInv, BodyInv, Evolves
<1>. QED BY <1>2, <1>3, <1>4, <1>5, <1>6, <1>7, <1>8, <1>9, <1>10, <1>11 DEF IInv

\* A deletion exposes the volume and its snapshots before it removes them.
LEMMA DeleteKeeps ==
  ASSUME IInv, NEW t \in Task, NEW v \in Vol, Delete(t, v)
  PROVE  IInv' /\ Evolves
<1>1. /\ \A u \in Task : task[u].pc \notin UnderLock
      /\ task[t] = Idle /\ task[t].pc = "idle" /\ task[t].gone = {}
      /\ UNCHANGED <<disk, cut, used>>
      /\ v \in Id /\ v = <<v[1], 0>> /\ v[1] \in 1..MaxVolumes /\ v \notin Snap /\ VolumeOf(v) = v
      /\ SnapsOf(v) \subseteq Id
      /\ task' \in [Task -> TaskState]
      /\ \A u \in Task \ {t} : task'[u] = task[u]
      /\ task'[t].pc = "delete_snaps" /\ task'[t].id = v
      /\ task'[t].buf = Empty /\ task'[t].gone = (mem.volumes \cap {v}) \cup SnapsOf(v)
      /\ mem' \in Manifest /\ mem'.next = mem.next /\ mem'.volumes = mem.volumes \ {v}
      /\ mem'.snapshots = mem.snapshots /\ \A n \in 1..MaxVolumes : n # v[1] => mem'.next_snap[n] = mem.next_snap[n]
      /\ body' \in [Id -> Body \cup {Missing}] /\ \A x \in Id : x # v => body'[x] = body[x]
      /\ v \notin mem.volumes => body'[v] = body[v]
      /\ Live' = Live \ {v} /\ UNCHANGED Saved /\ (v \in Live => v \in mem.volumes)
      /\ \A x : x \in Exposed' <=> x \in Exposed \/ x \in task'[t].gone
  <2>1. /\ \A u \in Task : task[u].pc \notin UnderLock
        /\ task[t] = Idle /\ task[t].pc = "idle" /\ task[t].gone = {}
        /\ UNCHANGED <<disk, cut, used>>
    BY DEF IInv, TypeOK, TaskInv, Delete, Enter, Locked, Idle
  <2>2. /\ v \in Id /\ v = <<v[1], 0>> /\ v[1] \in 1..MaxVolumes /\ v \notin Snap /\ VolumeOf(v) = v
        /\ SnapsOf(v) \subseteq Id
    BY VolFacts, IdFacts DEF IInv, TypeOK, Manifest, SnapsOf
  <2>3. /\ task' \in [Task -> TaskState]
        /\ \A u \in Task \ {t} : task'[u] = task[u]
        /\ task'[t].pc = "delete_snaps" /\ task'[t].id = v
        /\ task'[t].buf = Empty /\ task'[t].gone = (mem.volumes \cap {v}) \cup SnapsOf(v)
    <3>. DEFINE r == [Idle EXCEPT !.pc = "delete_snaps", !.id = v, !.gone = (mem.volumes \cap {v}) \cup SnapsOf(v)]
    <3>1. r \in TaskState
      BY <2>2, BodyFacts DEF TaskState, UnderLock, Unlocked, Idle
    <3>2. task' = [task EXCEPT ![t] = r]
      BY DEF Delete
    <3>. QED BY <3>1, <3>2 DEF IInv, TypeOK, Idle
  <2>4. /\ mem' \in Manifest /\ mem'.next = mem.next /\ mem'.volumes = mem.volumes \ {v}
        /\ mem'.snapshots = mem.snapshots /\ \A n \in 1..MaxVolumes : n # v[1] => mem'.next_snap[n] = mem.next_snap[n]
    <3>. DEFINE N == [mem.next_snap EXCEPT ![v[1]] = 0]
    <3>0. 0 \in 0..MaxSnaps /\ mem.next_snap \in [1..MaxVolumes -> 0..MaxSnaps]
      BY VaultAssumption DEF IInv, TypeOK, Manifest
    <3>1. N \in [1..MaxVolumes -> 0..MaxSnaps] /\ \A n \in 1..MaxVolumes : n # v[1] => N[n] = mem.next_snap[n]
      BY <3>0
    <3>2. mem' = [mem EXCEPT !.volumes = mem.volumes \ {v}, !.next_snap = N]
      BY DEF IInv, TypeOK, Manifest, Delete
    <3>. HIDE DEF N
    <3>. QED BY <3>1, <3>2 DEF IInv, TypeOK, Manifest
  <2>5. /\ body' \in [Id -> Body \cup {Missing}] /\ \A x \in Id : x # v => body'[x] = body[x]
        /\ v \notin mem.volumes => body'[v] = body[v]
    BY <2>2, BodyFacts DEF IInv, TypeOK, Delete, RemoveFile
  <2>6. /\ Live' = Live \ {v} /\ UNCHANGED Saved /\ (v \in Live => v \in mem.volumes)
    BY <2>1, <2>2, <2>4, IdFacts DEF IInv, TypeOK, Manifest, Live, Saved
  <2>7. /\ \A x : x \in Exposed' <=> x \in Exposed \/ x \in task'[t].gone
    BY <2>1, <2>3, ExposedFacts
  <2>. QED BY <2>1, <2>2, <2>3, <2>4, <2>5, <2>6, <2>7
<1>2. TypeOK'
  BY <1>1, IInv, StateFacts, TaskFacts DEF IInv, TypeOK
<1>3. LockInv'
  BY <1>1, IInv, StateFacts, TaskFacts DEF IInv, LockInv, UnderLock
<1>4. TaskInv'
  BY <1>1, IInv, StateFacts, TaskFacts DEF IInv, TaskInv, Creating, Snapping, Restoring
<1>5. DeleteInv'
  BY <1>1, IInv, StateFacts, TaskFacts, IdFacts DEF IInv, LockInv, DeleteInv, SnapsOf, UnderLock
<1>6. CountInv'
  BY <1>1, IInv, StateFacts, TaskFacts, IdTypes DEF IInv, CountInv, Unlocked
<1>7. SnapCountInv'
  <2>1. \A x \in Id : VolumeOf(x) # v => x[1] # v[1]
    BY <1>1 DEF VolumeOf
  <2>. QED BY <1>1, <2>1, StateFacts, TaskFacts, IdTypes DEF IInv, SnapCountInv, Restoring, Unlocked
<1>8. FreshInv'
  BY <1>1, IInv, StateFacts, TaskFacts DEF IInv, FreshInv, UnderLock, Unlocked, Creating, Snapping, Restoring
<1>9. SavedInv'
  BY <1>1, IInv, StateFacts, TaskFacts DEF IInv, SavedInv, Removing
<1>10. BodyInv'
  BY <1>1, IInv, StateFacts, TaskFacts DEF IInv, BodyInv, Removing, Restoring, Unlocked
<1>11. Evolves
  BY <1>1, IInv, StateFacts, TaskFacts DEF IInv, SavedInv, Evolves
<1>. QED BY <1>2, <1>3, <1>4, <1>5, <1>6, <1>7, <1>8, <1>9, <1>10, <1>11 DEF IInv

\* A deletion removes the snapshots it has exposed, one by one.
LEMMA DeleteSnapKeeps ==
  ASSUME IInv, NEW t \in Task, DeleteSnap(t)
  PROVE  IInv' /\ Evolves
<1>0. PICK s \in SnapsOf(task[t].id) :
        RemoveFile(s) /\ mem' = [mem EXCEPT !.snapshots = @ \ {s}]
  BY DEF DeleteSnap
<1>1. /\ task[t].pc = "delete_snaps"
      /\ \A u \in Task \ {t} : task[u].pc \notin UnderLock
      /\ UNCHANGED <<disk, task, cut, used>>
      /\ s \in mem.snapshots /\ VolumeOf(s) = task[t].id /\ s \in task[t].gone /\ s \notin mem.volumes
      /\ mem' \in Manifest /\ mem'.next = mem.next /\ mem'.next_snap = mem.next_snap
      /\ mem'.volumes = mem.volumes /\ mem'.snapshots = mem.snapshots \ {s}
      /\ body' \in [Id -> Body \cup {Missing}] /\ \A x \in Id : x # s => body'[x] = body[x]
      /\ body'[s] \in {body[s], Missing}
      /\ Live' = Live \ {s} /\ UNCHANGED <<Saved, Exposed>> /\ s \in Exposed
  <2>1. /\ task[t].pc = "delete_snaps"
        /\ \A u \in Task \ {t} : task[u].pc \notin UnderLock
        /\ UNCHANGED <<disk, task, cut, used>>
        /\ s \in mem.snapshots /\ VolumeOf(s) = task[t].id /\ s \in task[t].gone /\ s \notin mem.volumes
    <3>1. task[t].pc = "delete_snaps" /\ UNCHANGED <<disk, task, cut, used>>
      BY DEF DeleteSnap, At
    <3>2. s \in mem.snapshots /\ VolumeOf(s) = task[t].id /\ s \in task[t].gone
      BY <1>0, <3>1 DEF IInv, DeleteInv, SnapsOf
    <3>3. s \notin mem.volumes
      BY <3>2, StateFacts, IdFacts
    <3>. QED BY <3>1, <3>2, <3>3 DEF IInv, LockInv, UnderLock
  <2>2. /\ mem' \in Manifest /\ mem'.next = mem.next /\ mem'.next_snap = mem.next_snap
        /\ mem'.volumes = mem.volumes /\ mem'.snapshots = mem.snapshots \ {s}
    BY <1>0, <2>1 DEF IInv, TypeOK, Manifest
  <2>3. /\ body' \in [Id -> Body \cup {Missing}] /\ \A x \in Id : x # s => body'[x] = body[x]
        /\ body'[s] \in {body[s], Missing}
    BY <1>0, <2>1, StateFacts, IdFacts DEF IInv, TypeOK, RemoveFile
  <2>4. /\ Live' = Live \ {s} /\ UNCHANGED <<Saved, Exposed>> /\ s \in Exposed
    BY <2>1, <2>2, ExposedFacts DEF Live, Saved, Exposed
  <2>. QED BY <2>1, <2>2, <2>3, <2>4
<1>2. TypeOK'
  BY <1>1, IInv DEF IInv, TypeOK
<1>3. LockInv'
  BY <1>1, IInv, StateFacts, TaskFacts DEF IInv, LockInv, UnderLock
<1>4. TaskInv'
  BY <1>1, IInv, StateFacts, TaskFacts DEF IInv, TaskInv, Creating, Snapping, Restoring
<1>5. DeleteInv'
  BY <1>1, IInv, StateFacts, TaskFacts, IdFacts DEF IInv, LockInv, DeleteInv, SnapsOf, UnderLock
<1>6. CountInv'
  BY <1>1, IInv, StateFacts, TaskFacts, IdTypes DEF IInv, CountInv, Unlocked
<1>7. SnapCountInv'
  BY <1>1, IInv, StateFacts, TaskFacts, IdTypes DEF IInv, SnapCountInv, Restoring, Unlocked
<1>8. FreshInv'
  BY <1>1, IInv, StateFacts, TaskFacts DEF IInv, FreshInv, UnderLock, Unlocked, Creating, Snapping, Restoring
<1>9. SavedInv'
  BY <1>1, IInv, StateFacts, TaskFacts DEF IInv, SavedInv, Removing
<1>10. BodyInv'
  BY <1>1, IInv, StateFacts, TaskFacts DEF IInv, BodyInv, Removing, Restoring, Unlocked
<1>11. Evolves
  BY <1>1, IInv, StateFacts, TaskFacts DEF IInv, SavedInv, Evolves
<1>. QED BY <1>2, <1>3, <1>4, <1>5, <1>6, <1>7, <1>8, <1>9, <1>10, <1>11 DEF IInv

\* The deletion of a snapshot exposes it before it removes it.
LEMMA DeleteSnapshotKeeps ==
  ASSUME IInv, NEW t \in Task, NEW s \in Snap, DeleteSnapshot(t, s)
  PROVE  IInv' /\ Evolves
<1>1. /\ \A u \in Task : task[u].pc \notin UnderLock
      /\ task[t] = Idle /\ task[t].pc = "idle" /\ task[t].gone = {}
      /\ UNCHANGED <<disk, cut, used>>
      /\ s \in Id /\ s \notin mem.volumes
      /\ task' \in [Task -> TaskState]
      /\ \A u \in Task \ {t} : task'[u] = task[u]
      /\ task'[t].pc = "save" /\ task'[t].id = NoId
      /\ task'[t].buf = Empty /\ task'[t].gone = mem.snapshots \cap {s}
      /\ mem' \in Manifest /\ mem'.next = mem.next /\ mem'.next_snap = mem.next_snap
      /\ mem'.volumes = mem.volumes /\ mem'.snapshots = mem.snapshots \ {s}
      /\ body' \in [Id -> Body \cup {Missing}] /\ \A x \in Id : x # s => body'[x] = body[x]
      /\ body'[s] \in {body[s], Missing} /\ (s \notin mem.snapshots => body'[s] = body[s])
      /\ Live' = Live \ {s} /\ UNCHANGED Saved /\ (s \in Live => s \in mem.snapshots)
      /\ \A x : x \in Exposed' <=> x \in Exposed \/ x \in task'[t].gone
  <2>1. /\ \A u \in Task : task[u].pc \notin UnderLock
        /\ task[t] = Idle /\ task[t].pc = "idle" /\ task[t].gone = {}
        /\ UNCHANGED <<disk, cut, used>>
    BY DEF IInv, TypeOK, TaskInv, DeleteSnapshot, Enter, Locked, Idle
  <2>2. /\ s \in Id /\ s \notin mem.volumes
    BY StateFacts, IdFacts
  <2>3. /\ task' \in [Task -> TaskState]
        /\ \A u \in Task \ {t} : task'[u] = task[u]
        /\ task'[t].pc = "save" /\ task'[t].id = NoId
        /\ task'[t].buf = Empty /\ task'[t].gone = mem.snapshots \cap {s}
    <3>. DEFINE r == [Idle EXCEPT !.pc = "save", !.gone = mem.snapshots \cap {s}]
    <3>1. r \in TaskState
      BY <2>2, BodyFacts DEF TaskState, UnderLock, Unlocked, Idle
    <3>2. task' = [task EXCEPT ![t] = r]
      BY DEF DeleteSnapshot
    <3>. QED BY <3>1, <3>2 DEF IInv, TypeOK, Idle
  <2>4. /\ mem' \in Manifest /\ mem'.next = mem.next /\ mem'.next_snap = mem.next_snap
        /\ mem'.volumes = mem.volumes /\ mem'.snapshots = mem.snapshots \ {s}
    BY <2>1 DEF IInv, TypeOK, Manifest, DeleteSnapshot
  <2>5. /\ body' \in [Id -> Body \cup {Missing}] /\ \A x \in Id : x # s => body'[x] = body[x]
        /\ body'[s] \in {body[s], Missing} /\ (s \notin mem.snapshots => body'[s] = body[s])
    BY <2>2, BodyFacts DEF IInv, TypeOK, DeleteSnapshot, RemoveFile
  <2>6. /\ Live' = Live \ {s} /\ UNCHANGED Saved /\ (s \in Live => s \in mem.snapshots)
    BY <2>1, <2>2, <2>4 DEF Live, Saved
  <2>7. /\ \A x : x \in Exposed' <=> x \in Exposed \/ x \in task'[t].gone
    BY <2>1, <2>3, ExposedFacts
  <2>. QED BY <2>1, <2>2, <2>3, <2>4, <2>5, <2>6, <2>7
<1>2. TypeOK'
  BY <1>1, IInv, StateFacts, TaskFacts DEF IInv, TypeOK
<1>3. LockInv'
  BY <1>1, IInv, StateFacts, TaskFacts DEF IInv, LockInv, UnderLock
<1>4. TaskInv'
  BY <1>1, IInv, StateFacts, TaskFacts DEF IInv, TaskInv, Creating, Snapping, Restoring
<1>5. DeleteInv'
  BY <1>1, IInv, StateFacts, TaskFacts, IdFacts DEF IInv, LockInv, DeleteInv, SnapsOf, UnderLock
<1>6. CountInv'
  BY <1>1, IInv, StateFacts, TaskFacts, IdTypes DEF IInv, CountInv, Unlocked
<1>7. SnapCountInv'
  BY <1>1, IInv, StateFacts, TaskFacts, IdTypes DEF IInv, SnapCountInv, Restoring, Unlocked
<1>8. FreshInv'
  BY <1>1, IInv, StateFacts, TaskFacts DEF IInv, FreshInv, UnderLock, Unlocked, Creating, Snapping, Restoring
<1>9. SavedInv'
  BY <1>1, IInv, StateFacts, TaskFacts DEF IInv, SavedInv, Removing
<1>10. BodyInv'
  BY <1>1, IInv, StateFacts, TaskFacts DEF IInv, BodyInv, Removing, Restoring, Unlocked
<1>11. Evolves
  BY <1>1, IInv, StateFacts, TaskFacts DEF IInv, SavedInv, Evolves
<1>. QED BY <1>2, <1>3, <1>4, <1>5, <1>6, <1>7, <1>8, <1>9, <1>10, <1>11 DEF IInv

\* A snapshot is taken of a whole body; its counter has passed every id in use.
LEMMA CreateSnapshotKeeps ==
  ASSUME IInv, NEW t \in Task, NEW v \in Vol, CreateSnapshot(t, v)
  PROVE  IInv' /\ Evolves
<1>. DEFINE id == <<v[1], mem.next_snap[v[1]] + 1>>
<1>1. /\ \A u \in Task : task[u].pc \notin UnderLock
      /\ task[t] = Idle /\ task[t].pc = "idle" /\ task[t].gone = {}
      /\ UNCHANGED <<disk, body, cut, used>>
      /\ v \in Id /\ v = <<v[1], 0>> /\ v[1] \in 1..MaxVolumes /\ v \notin Snap /\ VolumeOf(v) = v
      /\ v \in mem.volumes /\ body[v] \in Whole /\ body[v] \in Body
      /\ id = <<v[1], mem.next_snap[v[1]] + 1>> /\ id \in Snap /\ id \in Id /\ id[1] = v[1]
      /\ id[2] = mem.next_snap[v[1]] + 1 /\ VolumeOf(id) = v
      /\ task' \in [Task -> TaskState]
      /\ \A u \in Task \ {t} : task'[u] = task[u]
      /\ task'[t].pc = "snap_body" /\ task'[t].id = id
      /\ task'[t].buf = body[v] /\ task'[t].gone = {}
      /\ mem' \in Manifest /\ mem'.next = mem.next /\ mem'.volumes = mem.volumes
      /\ mem'.snapshots = mem.snapshots /\ mem'.next_snap[v[1]] = mem.next_snap[v[1]] + 1
      /\ \A n \in 1..MaxVolumes : n # v[1] => mem'.next_snap[n] = mem.next_snap[n]
      /\ UNCHANGED <<Live, Saved>>
      /\ UNCHANGED Exposed
  <2>1. /\ \A u \in Task : task[u].pc \notin UnderLock
        /\ task[t] = Idle /\ task[t].pc = "idle" /\ task[t].gone = {}
        /\ UNCHANGED <<disk, body, cut, used>>
    BY DEF IInv, TypeOK, TaskInv, CreateSnapshot, Enter, Locked, Idle
  <2>2. /\ v \in Id /\ v = <<v[1], 0>> /\ v[1] \in 1..MaxVolumes /\ v \notin Snap /\ VolumeOf(v) = v
        /\ v \in mem.volumes /\ body[v] \in Whole /\ body[v] \in Body
    <3>1. body[v] \in Body /\ Len(body[v]) = Blocks
      BY VolFacts DEF IInv, TypeOK, CreateSnapshot
    <3>. QED BY <3>1, VolFacts, BodyFacts DEF CreateSnapshot
  <2>3. /\ id = <<v[1], mem.next_snap[v[1]] + 1>> /\ id \in Snap /\ id \in Id /\ id[1] = v[1]
        /\ id[2] = mem.next_snap[v[1]] + 1 /\ VolumeOf(id) = v
    <3>1. mem.next_snap[v[1]] + 1 \in 1..MaxSnaps
      BY <2>2, StateFacts, VaultAssumption DEF CreateSnapshot
    <3>2. id \in Snap
      BY <2>2, <3>1, IdFacts
    <3>. QED BY <2>2, <3>1, <3>2, IdFacts DEF VolumeOf
  <2>4. /\ task' \in [Task -> TaskState]
        /\ \A u \in Task \ {t} : task'[u] = task[u]
        /\ task'[t].pc = "snap_body" /\ task'[t].id = id
        /\ task'[t].buf = body[v] /\ task'[t].gone = {}
    <3>. DEFINE r == [Idle EXCEPT !.pc = "snap_body", !.buf = body[v], !.id = id]
    <3>1. r \in TaskState
      BY <2>2, <2>3 DEF TaskState, UnderLock, Unlocked, Idle
    <3>2. task' = [task EXCEPT ![t] = r]
      BY DEF CreateSnapshot
    <3>. QED BY <3>1, <3>2 DEF IInv, TypeOK, Idle
  <2>5. /\ mem' \in Manifest /\ mem'.next = mem.next /\ mem'.volumes = mem.volumes
        /\ mem'.snapshots = mem.snapshots /\ mem'.next_snap[v[1]] = mem.next_snap[v[1]] + 1
        /\ \A n \in 1..MaxVolumes : n # v[1] => mem'.next_snap[n] = mem.next_snap[n]
    <3>. DEFINE N == [mem.next_snap EXCEPT ![v[1]] = @ + 1]
    <3>1. mem.next_snap \in [1..MaxVolumes -> 0..MaxSnaps] /\ mem.next_snap[v[1]] + 1 \in 0..MaxSnaps
      BY <2>2, StateFacts, VaultAssumption DEF IInv, TypeOK, Manifest, CreateSnapshot
    <3>2. /\ N \in [1..MaxVolumes -> 0..MaxSnaps] /\ N[v[1]] = mem.next_snap[v[1]] + 1
          /\ \A n \in 1..MaxVolumes : n # v[1] => N[n] = mem.next_snap[n]
      BY <2>2, <3>1
    <3>3. mem' = [mem EXCEPT !.next_snap = N]
      BY DEF IInv, TypeOK, Manifest, CreateSnapshot
    <3>. HIDE DEF N
    <3>. QED BY <3>2, <3>3 DEF IInv, TypeOK, Manifest
  <2>6. /\ UNCHANGED <<Live, Saved>>
    BY <2>1, <2>5 DEF Live, Saved
  <2>7. /\ UNCHANGED Exposed
    BY <2>1, <2>4, ExposedFacts
  <2>. QED BY <2>1, <2>2, <2>3, <2>4, <2>5, <2>6, <2>7
<1>. HIDE DEF id
<1>2. TypeOK'
  BY <1>1, IInv, StateFacts, TaskFacts DEF IInv, TypeOK
<1>3. LockInv'
  BY <1>1, IInv, StateFacts, TaskFacts DEF IInv, LockInv, UnderLock
<1>4. TaskInv'
  BY <1>1, IInv, StateFacts, TaskFacts DEF IInv, TaskInv, Creating, Snapping, Restoring
<1>5. DeleteInv'
  BY <1>1, IInv, StateFacts, TaskFacts, IdFacts DEF IInv, LockInv, DeleteInv, SnapsOf, UnderLock
<1>6. CountInv'
  BY <1>1, IInv, StateFacts, TaskFacts, IdTypes DEF IInv, CountInv, Unlocked
<1>7. SnapCountInv'
  <2>1. \A n \in 1..MaxVolumes : mem.next_snap[n] <= mem'.next_snap[n] /\ mem'.next_snap[n] \in Nat
    BY <1>1, StateFacts
  <2>. QED BY <1>1, <2>1, StateFacts, TaskFacts, IdTypes DEF IInv, SnapCountInv, Restoring, Unlocked, UnderLock
<1>8. FreshInv'
  <2>1. id[1] <= mem.next
    BY <1>1, StateFacts DEF IInv, CountInv
  <2>2. id \notin used \cup mem.snapshots
    BY <1>1, StateFacts DEF IInv, SnapCountInv
  <2>3. id \notin Live
    BY <1>1, <2>2, StateFacts, VolFacts DEF Live
  <2>4. \A u \in Task : task[u].pc \in Restoring => task[u].id # id
    BY <1>1, StateFacts DEF IInv, SnapCountInv
  <2>. QED BY <1>1, <2>1, <2>2, <2>3, <2>4 DEF FreshInv, UnderLock, Creating, Snapping, Restoring
<1>9. SavedInv'
  BY <1>1, IInv, StateFacts, TaskFacts DEF IInv, SavedInv, Removing
<1>10. BodyInv'
  BY <1>1, IInv, StateFacts, TaskFacts DEF IInv, BodyInv, Removing, Restoring, Unlocked
<1>11. Evolves
  BY <1>1, IInv, StateFacts, TaskFacts DEF IInv, SavedInv, Evolves
<1>. QED BY <1>2, <1>3, <1>4, <1>5, <1>6, <1>7, <1>8, <1>9, <1>10, <1>11 DEF IInv

\* A restore begins with a snapshot and its volume entered.
LEMMA RestoreSnapshotKeeps ==
  ASSUME IInv, NEW t \in Task, NEW s \in Snap, RestoreSnapshot(t, s)
  PROVE  IInv' /\ Evolves
<1>1. /\ \A u \in Task : task[u].pc \notin UnderLock
      /\ task[t] = Idle /\ task[t].pc = "idle" /\ task[t].gone = {}
      /\ UNCHANGED <<mem, disk, body, cut, used>>
      /\ s \in Id /\ s \in mem.snapshots /\ VolumeOf(s) \in mem.volumes
      /\ task' \in [Task -> TaskState]
      /\ \A u \in Task \ {t} : task'[u] = task[u]
      /\ task'[t].pc = "restore_read" /\ task'[t].id = s
      /\ task'[t].buf = Empty /\ task'[t].gone = {}
      /\ UNCHANGED <<Live, Saved>>
      /\ UNCHANGED Exposed
  <2>1. /\ \A u \in Task : task[u].pc \notin UnderLock
        /\ task[t] = Idle /\ task[t].pc = "idle" /\ task[t].gone = {}
        /\ UNCHANGED <<mem, disk, body, cut, used>>
        /\ s \in Id /\ s \in mem.snapshots /\ VolumeOf(s) \in mem.volumes
    BY IdFacts DEF IInv, TypeOK, TaskInv, RestoreSnapshot, Enter, Locked, Idle
  <2>2. /\ task' \in [Task -> TaskState]
        /\ \A u \in Task \ {t} : task'[u] = task[u]
        /\ task'[t].pc = "restore_read" /\ task'[t].id = s
        /\ task'[t].buf = Empty /\ task'[t].gone = {}
    <3>. DEFINE r == [Idle EXCEPT !.pc = "restore_read", !.id = s]
    <3>1. r \in TaskState
      BY <2>1, BodyFacts DEF TaskState, UnderLock, Unlocked, Idle
    <3>2. task' = [task EXCEPT ![t] = r]
      BY DEF RestoreSnapshot
    <3>. QED BY <3>1, <3>2 DEF IInv, TypeOK, Idle
  <2>3. /\ UNCHANGED <<Live, Saved>>
    BY <2>1 DEF Live, Saved
  <2>4. /\ UNCHANGED Exposed
    BY <2>1, <2>2, ExposedFacts
  <2>. QED BY <2>1, <2>2, <2>3, <2>4
<1>2. TypeOK'
  BY <1>1, IInv, StateFacts, TaskFacts DEF IInv, TypeOK
<1>3. LockInv'
  BY <1>1, IInv, StateFacts, TaskFacts DEF IInv, LockInv, UnderLock
<1>4. TaskInv'
  BY <1>1, IInv, StateFacts, TaskFacts DEF IInv, TaskInv, Creating, Snapping, Restoring
<1>5. DeleteInv'
  BY <1>1, IInv, StateFacts, TaskFacts, IdFacts DEF IInv, LockInv, DeleteInv, SnapsOf, UnderLock
<1>6. CountInv'
  BY <1>1, IInv, StateFacts, TaskFacts, IdTypes DEF IInv, CountInv, Unlocked
<1>7. SnapCountInv'
  BY <1>1, IInv, StateFacts, TaskFacts, IdTypes DEF IInv, SnapCountInv, Restoring, Unlocked
<1>8. FreshInv'
  BY <1>1, IInv, StateFacts, TaskFacts DEF IInv, FreshInv, UnderLock, Unlocked, Creating, Snapping, Restoring
<1>9. SavedInv'
  BY <1>1, IInv, StateFacts, TaskFacts DEF IInv, SavedInv, Removing
<1>10. BodyInv'
  BY <1>1, IInv, StateFacts, TaskFacts DEF IInv, BodyInv, Removing, Restoring, Unlocked
<1>11. Evolves
  BY <1>1, IInv, StateFacts, TaskFacts DEF IInv, SavedInv, Evolves
<1>. QED BY <1>2, <1>3, <1>4, <1>5, <1>6, <1>7, <1>8, <1>9, <1>10, <1>11 DEF IInv

\* What a restore reads is whole.
LEMMA RestoreReadKeeps ==
  ASSUME IInv, NEW t \in Task, RestoreRead(t)
  PROVE  IInv' /\ Evolves
<1>1. /\ task[t].pc = "restore_read" /\ task[t].id \in Id /\ task[t].id \in Snap /\ task[t].gone = {}
      /\ UNCHANGED <<mem, disk, body, cut, used>>
      /\ body[task[t].id] \in Whole /\ body[task[t].id] \in Body
      /\ task' \in [Task -> TaskState]
      /\ \A u \in Task \ {t} : task'[u] = task[u]
      /\ task'[t].pc = "restore_body" /\ task'[t].id = task[t].id
      /\ task'[t].buf = body[task[t].id] /\ task'[t].gone = task[t].gone
      /\ UNCHANGED <<Live, Saved>>
      /\ UNCHANGED Exposed
  <2>1. /\ task[t].pc = "restore_read" /\ task[t].id \in Id /\ task[t].id \in Snap /\ task[t].gone = {}
        /\ UNCHANGED <<mem, disk, body, cut, used>>
        /\ body[task[t].id] \in Whole /\ body[task[t].id] \in Body
    <3>1. task[t].pc = "restore_read" /\ body[task[t].id] # Missing /\ UNCHANGED <<mem, disk, body, cut, used>>
      BY DEF RestoreRead, At
    <3>2. body[task[t].id] \in Whole
      BY <3>1 DEF IInv, BodyInv
    <3>. QED BY <3>1, <3>2, BodyFacts, IdFacts DEF IInv, TaskInv, Restoring
  <2>2. /\ task' \in [Task -> TaskState]
        /\ \A u \in Task \ {t} : task'[u] = task[u]
        /\ task'[t].pc = "restore_body" /\ task'[t].id = task[t].id
        /\ task'[t].buf = body[task[t].id] /\ task'[t].gone = task[t].gone
    <3>. DEFINE r == [task[t] EXCEPT !.pc = "restore_body", !.buf = body[task[t].id]]
    <3>1. r \in TaskState /\ task[t] \in TaskState
      BY <2>1 DEF IInv, TypeOK, TaskState, UnderLock, Unlocked
    <3>2. task' = [task EXCEPT ![t] = r]
      BY DEF IInv, TypeOK, RestoreRead
    <3>. QED BY <3>1, <3>2 DEF IInv, TypeOK, TaskState
  <2>3. /\ UNCHANGED <<Live, Saved>>
    BY <2>1 DEF Live, Saved
  <2>4. /\ UNCHANGED Exposed
    BY <2>1, <2>2, ExposedFacts
  <2>. QED BY <2>1, <2>2, <2>3, <2>4
<1>2. TypeOK'
  BY <1>1, IInv, StateFacts, TaskFacts DEF IInv, TypeOK
<1>3. LockInv'
  BY <1>1, IInv, StateFacts, TaskFacts DEF IInv, LockInv, UnderLock
<1>4. TaskInv'
  BY <1>1, IInv, StateFacts, TaskFacts DEF IInv, TaskInv, Creating, Snapping, Restoring
<1>5. DeleteInv'
  BY <1>1, IInv, StateFacts, TaskFacts, IdFacts DEF IInv, LockInv, DeleteInv, SnapsOf, UnderLock
<1>6. CountInv'
  BY <1>1, IInv, StateFacts, TaskFacts, IdTypes DEF IInv, CountInv, Unlocked
<1>7. SnapCountInv'
  BY <1>1, IInv, StateFacts, TaskFacts, IdTypes DEF IInv, SnapCountInv, Restoring, Unlocked
<1>8. FreshInv'
  BY <1>1, IInv, StateFacts, TaskFacts DEF IInv, FreshInv, UnderLock, Unlocked, Creating, Snapping, Restoring
<1>9. SavedInv'
  BY <1>1, IInv, StateFacts, TaskFacts DEF IInv, SavedInv, Removing
<1>10. BodyInv'
  BY <1>1, IInv, StateFacts, TaskFacts DEF IInv, BodyInv, Removing, Restoring, Unlocked
<1>11. Evolves
  BY <1>1, IInv, StateFacts, TaskFacts DEF IInv, SavedInv, Evolves
<1>. QED BY <1>2, <1>3, <1>4, <1>5, <1>6, <1>7, <1>8, <1>9, <1>10, <1>11 DEF IInv

\* A restore exposes the volume as it empties its body.
LEMMA RestoreBodyKeeps ==
  ASSUME IInv, NEW t \in Task, RestoreBody(t)
  PROVE  IInv' /\ Evolves
<1>. DEFINE v == VolumeOf(task[t].id)
<1>1. /\ task[t].pc = "restore_body" /\ task[t].id \in Id /\ task[t].id \in Snap /\ task[t].gone = {}
      /\ task[t].buf \in Whole /\ v \in Vol
      /\ UNCHANGED <<mem, disk, cut, used>>
      /\ v \in Id /\ v = <<v[1], 0>> /\ v[1] \in 1..MaxVolumes /\ v \notin Snap /\ VolumeOf(v) = v
      /\ task' \in [Task -> TaskState]
      /\ \A u \in Task \ {t} : task'[u] = task[u]
      /\ task'[t].pc = "restore_fill" /\ task'[t].id = task[t].id
      /\ task'[t].buf = task[t].buf /\ task'[t].gone = {v} /\ v = VolumeOf(task[t].id)
      /\ body' \in [Id -> Body \cup {Missing}] /\ body'[v] = Empty /\ Empty # Missing
      /\ \A x \in Id : x # v => body'[x] = body[x]
      /\ UNCHANGED <<Live, Saved>>
      /\ \A x : x \in Exposed' <=> x \in Exposed \/ x = v
  <2>1. /\ task[t].pc = "restore_body" /\ task[t].id \in Id /\ task[t].id \in Snap /\ task[t].gone = {}
        /\ task[t].buf \in Whole /\ v \in Vol
        /\ UNCHANGED <<mem, disk, cut, used>>
    BY IdFacts DEF IInv, TaskInv, Restoring, RestoreBody, At
  <2>2. /\ v \in Id /\ v = <<v[1], 0>> /\ v[1] \in 1..MaxVolumes /\ v \notin Snap /\ VolumeOf(v) = v
    BY <2>1, VolFacts
  <2>3. /\ task' \in [Task -> TaskState]
        /\ \A u \in Task \ {t} : task'[u] = task[u]
        /\ task'[t].pc = "restore_fill" /\ task'[t].id = task[t].id
        /\ task'[t].buf = task[t].buf /\ task'[t].gone = {v} /\ v = VolumeOf(task[t].id)
    <3>. DEFINE r == [task[t] EXCEPT !.pc = "restore_fill", !.gone = {v}]
    <3>1. r \in TaskState /\ task[t] \in TaskState
      BY <2>1, <2>2 DEF IInv, TypeOK, TaskState, UnderLock, Unlocked
    <3>2. task' = [task EXCEPT ![t] = r]
      BY DEF IInv, TypeOK, RestoreBody
    <3>. QED BY <3>1, <3>2 DEF IInv, TypeOK, TaskState
  <2>4. /\ body' \in [Id -> Body \cup {Missing}] /\ body'[v] = Empty /\ Empty # Missing
        /\ \A x \in Id : x # v => body'[x] = body[x]
    BY <2>2, BodyFacts DEF IInv, TypeOK, RestoreBody
  <2>5. /\ UNCHANGED <<Live, Saved>>
    BY <2>1 DEF Live, Saved
  <2>6. /\ \A x : x \in Exposed' <=> x \in Exposed \/ x = v
    BY <2>1, <2>3, ExposedFacts
  <2>. QED BY <2>1, <2>2, <2>3, <2>4, <2>5, <2>6
<1>. HIDE DEF v
<1>2. TypeOK'
  BY <1>1, IInv, StateFacts, TaskFacts DEF IInv, TypeOK
<1>3. LockInv'
  BY <1>1, IInv, StateFacts, TaskFacts DEF IInv, LockInv, UnderLock
<1>4. TaskInv'
  BY <1>1, IInv, StateFacts, TaskFacts DEF IInv, TaskInv, Creating, Snapping, Restoring
<1>5. DeleteInv'
  BY <1>1, IInv, StateFacts, TaskFacts, IdFacts DEF IInv, LockInv, DeleteInv, SnapsOf, UnderLock
<1>6. CountInv'
  BY <1>1, IInv, StateFacts, TaskFacts, IdTypes DEF IInv, CountInv, Unlocked
<1>7. SnapCountInv'
  BY <1>1, IInv, StateFacts, TaskFacts, IdTypes DEF IInv, SnapCountInv, Restoring, Unlocked
<1>8. FreshInv'
  BY <1>1, IInv, StateFacts, TaskFacts DEF IInv, FreshInv, UnderLock, Unlocked, Creating, Snapping, Restoring
<1>9. SavedInv'
  BY <1>1, IInv, StateFacts, TaskFacts DEF IInv, SavedInv, Removing
<1>10. BodyInv'
  BY <1>1, IInv, StateFacts, TaskFacts DEF IInv, BodyInv, Removing, Restoring, Unlocked
<1>11. Evolves
  BY <1>1, IInv, StateFacts, TaskFacts DEF IInv, SavedInv, Evolves
<1>. QED BY <1>2, <1>3, <1>4, <1>5, <1>6, <1>7, <1>8, <1>9, <1>10, <1>11 DEF IInv

\* A restore that has filled the body leaves a whole one, or none that was being removed.
LEMMA RestoreFillKeeps ==
  ASSUME IInv, NEW t \in Task, RestoreFill(t)
  PROVE  IInv' /\ Evolves
<1>. DEFINE v == VolumeOf(task[t].id)
<1>1. /\ task[t].pc = "restore_fill" /\ task[t].id \in Id /\ task[t].id \in Snap /\ task[t].gone = {v}
      /\ task[t].buf \in Whole /\ v \in Vol
      /\ UNCHANGED <<mem, disk, used>>
      /\ v \in Id /\ v = <<v[1], 0>> /\ v[1] \in 1..MaxVolumes /\ v \notin Snap /\ VolumeOf(v) = v
      /\ task' \in [Task -> TaskState]
      /\ \A u \in Task \ {t} : task'[u] = task[u]
      /\ task'[t] = Idle /\ task'[t].pc = "idle" /\ task'[t].gone = {}
      /\ body' \in [Id -> Body \cup {Missing}] /\ \A x \in Id : x # v => body'[x] = body[x]
      /\ body[v] = Missing => body'[v] = Missing
      /\ body[v] # Missing => body'[v] \in Whole /\ body'[v] # Missing
      /\ \A x : x # v => (x \in cut' <=> x \in cut)
      /\ v \in cut' => v \in cut
      /\ cut' \in SUBSET Id
      /\ v \notin mem.volumes \/ body[v] = Missing => cut' = cut
      /\ UNCHANGED <<Live, Saved>> /\ (v \in Live => v \in mem.volumes)
      /\ \A x : x # v => (x \in Exposed' <=> x \in Exposed)
      /\ v \in Exposed
  <2>1. /\ task[t].pc = "restore_fill" /\ task[t].id \in Id /\ task[t].id \in Snap /\ task[t].gone = {v}
        /\ task[t].buf \in Whole /\ v \in Vol
        /\ UNCHANGED <<mem, disk, used>>
    BY IdFacts DEF IInv, TaskInv, Restoring, RestoreFill, At
  <2>2. /\ v \in Id /\ v = <<v[1], 0>> /\ v[1] \in 1..MaxVolumes /\ v \notin Snap /\ VolumeOf(v) = v
    BY <2>1, VolFacts
  <2>3. /\ task' \in [Task -> TaskState]
        /\ \A u \in Task \ {t} : task'[u] = task[u]
        /\ task'[t] = Idle /\ task'[t].pc = "idle" /\ task'[t].gone = {}
    <3>1. Idle \in TaskState
      BY BodyFacts DEF TaskState, Idle
    <3>. QED BY <3>1 DEF IInv, TypeOK, RestoreFill, Return, Idle
  <2>4. /\ body' \in [Id -> Body \cup {Missing}] /\ \A x \in Id : x # v => body'[x] = body[x]
        /\ body[v] = Missing => body'[v] = Missing
        /\ body[v] # Missing => body'[v] \in Whole /\ body'[v] # Missing
    <3>1. body[v] # Missing => Overwrite(body[v], task[t].buf) \in Whole
      BY <2>1, <2>2, OverwriteFacts DEF IInv, TypeOK
    <3>. QED BY <2>2, <3>1, BodyFacts DEF IInv, TypeOK, RestoreFill
  <2>5. /\ \A x : x # v => (x \in cut' <=> x \in cut)
        /\ v \in cut' => v \in cut
        /\ cut' \in SUBSET Id
        /\ v \notin mem.volumes \/ body[v] = Missing => cut' = cut
    BY DEF IInv, TypeOK, RestoreFill
  <2>6. /\ UNCHANGED <<Live, Saved>> /\ (v \in Live => v \in mem.volumes)
    BY <2>1, <2>2, StateFacts DEF Live, Saved
  <2>7. /\ \A x : x # v => (x \in Exposed' <=> x \in Exposed)
        /\ v \in Exposed
    BY <2>1, <2>3, <2>5, ExposedFacts
  <2>. QED BY <2>1, <2>2, <2>3, <2>4, <2>5, <2>6, <2>7
<1>. HIDE DEF v
<1>2. TypeOK'
  BY <1>1, IInv, StateFacts, TaskFacts DEF IInv, TypeOK
<1>3. LockInv'
  BY <1>1, IInv, StateFacts, TaskFacts DEF IInv, LockInv, UnderLock
<1>4. TaskInv'
  BY <1>1, IInv, StateFacts, TaskFacts DEF IInv, TaskInv, Creating, Snapping, Restoring
<1>5. DeleteInv'
  BY <1>1, IInv, StateFacts, TaskFacts, IdFacts DEF IInv, LockInv, DeleteInv, SnapsOf, UnderLock
<1>6. CountInv'
  BY <1>1, IInv, StateFacts, TaskFacts, IdTypes DEF IInv, CountInv, Unlocked
<1>7. SnapCountInv'
  BY <1>1, IInv, StateFacts, TaskFacts, IdTypes DEF IInv, SnapCountInv, Restoring, Unlocked
<1>8. FreshInv'
  BY <1>1, IInv, StateFacts, TaskFacts DEF IInv, FreshInv, UnderLock, Unlocked, Creating, Snapping, Restoring
<1>9. SavedInv'
  BY <1>1, IInv, StateFacts, TaskFacts DEF IInv, SavedInv, Removing
<1>10. BodyInv'
  <2>1. \A x \in Saved \cup Live : body'[x] = Missing => body[x] = Missing /\ Removing(x)'
    BY <1>1, StateFacts DEF IInv, BodyInv, Removing
  <2>2. \A x \in Saved \cup Live : body'[x] \in Whole \/ x \in Exposed'
    <3>1. \A x : Removing(x)' => x \in Exposed'
      BY RemovingExposed
    <3>. QED BY <1>1, <2>1, <3>1, StateFacts DEF IInv, BodyInv
  <2>. QED BY <1>1, <2>1, <2>2, StateFacts, TaskFacts DEF IInv, BodyInv, Restoring, Unlocked
<1>11. Evolves
  BY <1>1, <1>10, StateFacts DEF IInv, SavedInv, BodyInv, Evolves
<1>. QED BY <1>2, <1>3, <1>4, <1>5, <1>6, <1>7, <1>8, <1>9, <1>10, <1>11 DEF IInv

\* A write begins with its volume entered.
LEMMA WriteVolumeKeeps ==
  ASSUME IInv, NEW t \in Task, NEW v \in Vol, WriteVolume(t, v)
  PROVE  IInv' /\ Evolves
<1>1. /\ \A u \in Task : task[u].pc \notin UnderLock
      /\ task[t] = Idle /\ task[t].pc = "idle" /\ task[t].gone = {}
      /\ UNCHANGED <<mem, disk, body, cut, used>>
      /\ v \in mem.volumes
      /\ v \in Id /\ v = <<v[1], 0>> /\ v[1] \in 1..MaxVolumes /\ v \notin Snap /\ VolumeOf(v) = v
      /\ task' \in [Task -> TaskState]
      /\ \A u \in Task \ {t} : task'[u] = task[u]
      /\ task'[t].pc = "write" /\ task'[t].id = v
      /\ task'[t].buf = Empty /\ task'[t].gone = {}
      /\ UNCHANGED <<Live, Saved>>
      /\ UNCHANGED Exposed
  <2>1. /\ \A u \in Task : task[u].pc \notin UnderLock
        /\ task[t] = Idle /\ task[t].pc = "idle" /\ task[t].gone = {}
        /\ UNCHANGED <<mem, disk, body, cut, used>>
        /\ v \in mem.volumes
    BY DEF IInv, TypeOK, TaskInv, WriteVolume, Enter, Locked, Idle
  <2>2. /\ v \in Id /\ v = <<v[1], 0>> /\ v[1] \in 1..MaxVolumes /\ v \notin Snap /\ VolumeOf(v) = v
    BY VolFacts
  <2>3. /\ task' \in [Task -> TaskState]
        /\ \A u \in Task \ {t} : task'[u] = task[u]
        /\ task'[t].pc = "write" /\ task'[t].id = v
        /\ task'[t].buf = Empty /\ task'[t].gone = {}
    <3>. DEFINE r == [Idle EXCEPT !.pc = "write", !.id = v]
    <3>1. r \in TaskState
      BY <2>2, BodyFacts DEF TaskState, UnderLock, Unlocked, Idle
    <3>2. task' = [task EXCEPT ![t] = r]
      BY DEF WriteVolume
    <3>. QED BY <3>1, <3>2 DEF IInv, TypeOK, Idle
  <2>4. /\ UNCHANGED <<Live, Saved>>
    BY <2>1 DEF Live, Saved
  <2>5. /\ UNCHANGED Exposed
    BY <2>1, <2>3, ExposedFacts
  <2>. QED BY <2>1, <2>2, <2>3, <2>4, <2>5
<1>2. TypeOK'
  BY <1>1, IInv, StateFacts, TaskFacts DEF IInv, TypeOK
<1>3. LockInv'
  BY <1>1, IInv, StateFacts, TaskFacts DEF IInv, LockInv, UnderLock
<1>4. TaskInv'
  BY <1>1, IInv, StateFacts, TaskFacts DEF IInv, TaskInv, Creating, Snapping, Restoring
<1>5. DeleteInv'
  BY <1>1, IInv, StateFacts, TaskFacts, IdFacts DEF IInv, LockInv, DeleteInv, SnapsOf, UnderLock
<1>6. CountInv'
  BY <1>1, IInv, StateFacts, TaskFacts, IdTypes DEF IInv, CountInv, Unlocked
<1>7. SnapCountInv'
  BY <1>1, IInv, StateFacts, TaskFacts, IdTypes DEF IInv, SnapCountInv, Restoring, Unlocked
<1>8. FreshInv'
  BY <1>1, IInv, StateFacts, TaskFacts DEF IInv, FreshInv, UnderLock, Unlocked, Creating, Snapping, Restoring
<1>9. SavedInv'
  BY <1>1, IInv, StateFacts, TaskFacts DEF IInv, SavedInv, Removing
<1>10. BodyInv'
  BY <1>1, IInv, StateFacts, TaskFacts DEF IInv, BodyInv, Removing, Restoring, Unlocked
<1>11. Evolves
  BY <1>1, IInv, StateFacts, TaskFacts DEF IInv, SavedInv, Evolves
<1>. QED BY <1>2, <1>3, <1>4, <1>5, <1>6, <1>7, <1>8, <1>9, <1>10, <1>11 DEF IInv

\* A failed call leaves exposed what it was destroying.
LEMMA IoErrorKeeps ==
  ASSUME IInv, NEW t \in Task, IoError(t)
  PROVE  IInv' /\ Evolves
<1>1. /\ cut' = cut \cup task[t].gone /\ UNCHANGED <<mem, disk, body, used>>
      /\ task' \in [Task -> TaskState]
      /\ \A u \in Task \ {t} : task'[u] = task[u]
      /\ task'[t] = Idle /\ task'[t].pc = "idle" /\ task'[t].gone = {}
      /\ cut' \in SUBSET Id
      /\ UNCHANGED <<Live, Saved>>
      /\ UNCHANGED Exposed
  <2>1. /\ cut' = cut \cup task[t].gone /\ UNCHANGED <<mem, disk, body, used>>
    BY DEF IoError
  <2>2. /\ task' \in [Task -> TaskState]
        /\ \A u \in Task \ {t} : task'[u] = task[u]
        /\ task'[t] = Idle /\ task'[t].pc = "idle" /\ task'[t].gone = {}
    <3>1. Idle \in TaskState
      BY BodyFacts DEF TaskState, Idle
    <3>. QED BY <3>1 DEF IInv, TypeOK, IoError, Return, Idle
  <2>3. /\ cut' \in SUBSET Id
    BY <2>1, TaskFacts DEF IInv, TypeOK
  <2>4. /\ UNCHANGED <<Live, Saved>>
    BY <2>1 DEF Live, Saved
  <2>5. /\ UNCHANGED Exposed
    BY <2>1, <2>2, ExposedFacts
  <2>. QED BY <2>1, <2>2, <2>3, <2>4, <2>5
<1>2. TypeOK'
  BY <1>1, IInv, StateFacts, TaskFacts DEF IInv, TypeOK
<1>3. LockInv'
  BY <1>1, IInv, StateFacts, TaskFacts DEF IInv, LockInv, UnderLock
<1>4. TaskInv'
  BY <1>1, IInv, StateFacts, TaskFacts DEF IInv, TaskInv, Creating, Snapping, Restoring
<1>5. DeleteInv'
  BY <1>1, IInv, StateFacts, TaskFacts, IdFacts DEF IInv, LockInv, DeleteInv, SnapsOf, UnderLock
<1>6. CountInv'
  BY <1>1, IInv, StateFacts, TaskFacts, IdTypes DEF IInv, CountInv, Unlocked
<1>7. SnapCountInv'
  BY <1>1, IInv, StateFacts, TaskFacts, IdTypes DEF IInv, SnapCountInv, Restoring, Unlocked
<1>8. FreshInv'
  BY <1>1, IInv, StateFacts, TaskFacts DEF IInv, FreshInv, UnderLock, Unlocked, Creating, Snapping, Restoring
<1>9. SavedInv'
  BY <1>1, IInv, StateFacts, TaskFacts DEF IInv, SavedInv, Removing
<1>10. BodyInv'
  BY <1>1, IInv, StateFacts, TaskFacts DEF IInv, BodyInv, Removing, Restoring, Unlocked
<1>11. Evolves
  BY <1>1, IInv, StateFacts, TaskFacts DEF IInv, SavedInv, Evolves
<1>. QED BY <1>2, <1>3, <1>4, <1>5, <1>6, <1>7, <1>8, <1>9, <1>10, <1>11 DEF IInv

\* After a kill the store has what was durable.
LEMMA CrashKeeps ==
  ASSUME IInv, Crash
  PROVE  IInv' /\ Evolves
<1>1. /\ mem' = disk /\ UNCHANGED <<disk, body, used>>
      /\ cut' \in SUBSET Id /\ \A x : x \in cut' <=> x \in Exposed
      /\ task' \in [Task -> TaskState]
      /\ \A u \in Task : task'[u] = Idle /\ task'[u].pc = "idle" /\ task'[u].gone = {}
      /\ Live' = Saved /\ Saved' = Saved
      /\ \A x : x \in Exposed' <=> x \in Exposed
  <2>1. /\ mem' = disk /\ UNCHANGED <<disk, body, used>>
        /\ cut' \in SUBSET Id /\ \A x : x \in cut' <=> x \in Exposed
    BY ExposedFacts, TaskFacts DEF IInv, TypeOK, Crash, Exposed
  <2>2. /\ task' \in [Task -> TaskState]
        /\ \A u \in Task : task'[u] = Idle /\ task'[u].pc = "idle" /\ task'[u].gone = {}
    <3>1. Idle \in TaskState
      BY BodyFacts DEF TaskState, Idle
    <3>. QED BY <3>1 DEF Crash, Idle
  <2>3. /\ Live' = Saved /\ Saved' = Saved
    BY <2>1 DEF Live, Saved
  <2>4. /\ \A x : x \in Exposed' <=> x \in Exposed
    BY <2>1, <2>2, ExposedFacts
  <2>. QED BY <2>1, <2>2, <2>3, <2>4
<1>2. TypeOK'
  BY <1>1, IInv, StateFacts, TaskFacts DEF IInv, TypeOK
<1>3. LockInv'
  BY <1>1, IInv, StateFacts, TaskFacts DEF IInv, LockInv, UnderLock
<1>4. TaskInv'
  BY <1>1, IInv, StateFacts, TaskFacts DEF IInv, TaskInv, Creating, Snapping, Restoring
<1>5. DeleteInv'
  BY <1>1, IInv, StateFacts, TaskFacts, IdFacts DEF IInv, LockInv, DeleteInv, SnapsOf, UnderLock
<1>6. CountInv'
  BY <1>1, IInv, StateFacts, TaskFacts, IdTypes DEF IInv, CountInv, Unlocked, SavedInv
<1>7. SnapCountInv'
  BY <1>1, IInv, StateFacts, TaskFacts, IdTypes DEF IInv, SnapCountInv, Restoring, Unlocked, SavedInv
<1>8. FreshInv'
  BY <1>1, IInv, StateFacts, TaskFacts DEF IInv, FreshInv, UnderLock, Unlocked, Creating, Snapping, Restoring
<1>9. SavedInv'
  BY <1>1, IInv, StateFacts, TaskFacts, RemovingExposed DEF IInv, SavedInv, Removing
<1>10. BodyInv'
  BY <1>1, IInv, StateFacts, TaskFacts, RemovingExposed DEF IInv, BodyInv, Removing, Restoring, Unlocked
<1>11. Evolves
  BY <1>1, IInv, StateFacts, TaskFacts DEF IInv, SavedInv, Evolves
<1>. QED BY <1>2, <1>3, <1>4, <1>5, <1>6, <1>7, <1>8, <1>9, <1>10, <1>11 DEF IInv

\* A write changes one block of a whole body, and makes no other body whole or short.
LEMMA WriteBodyKeeps ==
  ASSUME IInv, NEW t \in Task, WriteBody(t)
  PROVE  IInv' /\ (Evolves \/ Writes)
<1>. DEFINE v == task[t].id
<1>0. PICK i \in Offsets, b \in Byte : body' = [body EXCEPT ![v] = WriteAt(body[v], i, b)]
  BY DEF WriteBody
<1>1. /\ task[t].pc = "write" /\ task[t].gone = {} /\ v \in Vol
      /\ UNCHANGED <<mem, disk, cut, used>>
      /\ v \in Id /\ v = <<v[1], 0>> /\ v[1] \in 1..MaxVolumes /\ v \notin Snap /\ VolumeOf(v) = v
      /\ task' \in [Task -> TaskState]
      /\ \A u \in Task \ {t} : task'[u] = task[u]
      /\ task'[t] = Idle /\ task'[t].pc = "idle" /\ task'[t].gone = {}
      /\ body[v] \in Body
      /\ body' = [body EXCEPT ![v] = WriteAt(body[v], i, b)]
      /\ body' \in [Id -> Body \cup {Missing}] /\ \A x \in Id : x # v => body'[x] = body[x]
      /\ body'[v] # Missing /\ (body[v] \in Whole => body'[v] \in Whole)
      /\ UNCHANGED <<Live, Saved>>
      /\ UNCHANGED Exposed
  <2>1. /\ task[t].pc = "write" /\ task[t].gone = {} /\ v \in Vol
        /\ UNCHANGED <<mem, disk, cut, used>>
    BY IdFacts DEF IInv, TaskInv, WriteBody, At
  <2>2. /\ v \in Id /\ v = <<v[1], 0>> /\ v[1] \in 1..MaxVolumes /\ v \notin Snap /\ VolumeOf(v) = v
    BY <2>1, VolFacts
  <2>3. /\ task' \in [Task -> TaskState]
        /\ \A u \in Task \ {t} : task'[u] = task[u]
        /\ task'[t] = Idle /\ task'[t].pc = "idle" /\ task'[t].gone = {}
    <3>1. Idle \in TaskState
      BY BodyFacts DEF TaskState, Idle
    <3>. QED BY <3>1 DEF IInv, TypeOK, WriteBody, Return, Idle
  <2>4. /\ body[v] \in Body
        /\ body' = [body EXCEPT ![v] = WriteAt(body[v], i, b)]
        /\ body' \in [Id -> Body \cup {Missing}] /\ \A x \in Id : x # v => body'[x] = body[x]
        /\ body'[v] # Missing /\ (body[v] \in Whole => body'[v] \in Whole)
    <3>1. body[v] \in Body
      BY <2>2 DEF IInv, TypeOK, WriteBody
    <3>2. WriteAt(body[v], i, b) \in Body /\ (body[v] \in Whole => WriteAt(body[v], i, b) \in Whole)
      BY <3>1, WriteFacts
    <3>. QED BY <1>0, <2>2, <3>1, <3>2, BodyFacts DEF IInv, TypeOK
  <2>5. /\ UNCHANGED <<Live, Saved>>
    BY <2>1 DEF Live, Saved
  <2>6. /\ UNCHANGED Exposed
    BY <2>1, <2>3, ExposedFacts
  <2>. QED BY <2>1, <2>2, <2>3, <2>4, <2>5, <2>6
<1>. HIDE DEF v
<1>2. TypeOK'
  BY <1>1, IInv, StateFacts, TaskFacts DEF IInv, TypeOK
<1>3. LockInv'
  BY <1>1, IInv, StateFacts, TaskFacts DEF IInv, LockInv, UnderLock
<1>4. TaskInv'
  BY <1>1, IInv, StateFacts, TaskFacts DEF IInv, TaskInv, Creating, Snapping, Restoring
<1>5. DeleteInv'
  BY <1>1, IInv, StateFacts, TaskFacts, IdFacts DEF IInv, LockInv, DeleteInv, SnapsOf, UnderLock
<1>6. CountInv'
  BY <1>1, IInv, StateFacts, TaskFacts, IdTypes DEF IInv, CountInv, Unlocked
<1>7. SnapCountInv'
  BY <1>1, IInv, StateFacts, TaskFacts, IdTypes DEF IInv, SnapCountInv, Restoring, Unlocked
<1>8. FreshInv'
  BY <1>1, IInv, StateFacts, TaskFacts DEF IInv, FreshInv, UnderLock, Unlocked, Creating, Snapping, Restoring
<1>9. SavedInv'
  BY <1>1, IInv, StateFacts, TaskFacts DEF IInv, SavedInv, Removing
<1>10. BodyInv'
  BY <1>1, IInv, StateFacts, TaskFacts DEF IInv, BodyInv, Removing, Restoring, Unlocked
<1>11. Evolves \/ Writes
  <2>1. CASE v \in Saved \ Exposed
    <3>1. body[v] \in Whole
      BY <2>1 DEF IInv, BodyInv
    <3>2. WriteAt(body[v], i, b) = [body[v] EXCEPT ![i] = b]
      BY <1>1, <3>1, WriteFacts
    <3>. QED BY <1>1, <2>1, <3>2 DEF Writes, Offsets
  <2>2. CASE v \notin Saved \ Exposed
    BY <1>1, <2>2, StateFacts DEF IInv, SavedInv, Evolves
  <2>. QED BY <2>1, <2>2
<1>. QED BY <1>2, <1>3, <1>4, <1>5, <1>6, <1>7, <1>8, <1>9, <1>10, <1>11 DEF IInv

---------------------------------------------------------------------------
(* The theorems. *)

\* Every step keeps the invariant and is a step of DurableVolumes.
LEMMA NextKeeps == IInv /\ [Next]_vars => IInv' /\ (Evolves \/ Writes)
<1>. SUFFICES ASSUME IInv, [Next]_vars PROVE IInv' /\ (Evolves \/ Writes)
  OBVIOUS
<1>1. ASSUME UNCHANGED vars PROVE IInv' /\ Evolves
  <2>1. UNCHANGED <<mem, disk, body, task, cut, used>>
    BY <1>1 DEF vars
  <2>2. UNCHANGED <<Live, Saved, Exposed>>
    BY <2>1 DEF Live, Saved, Exposed
  <2>3. Evolves
    BY <2>1, <2>2 DEF IInv, SavedInv, Evolves
  <2>4. (TypeOK /\ LockInv /\ TaskInv /\ DeleteInv)'
    BY <2>1, <2>2 DEF IInv, TypeOK, LockInv, TaskInv, DeleteInv, SnapsOf
  <2>5. (CountInv /\ SnapCountInv /\ FreshInv)'
    BY <2>1, <2>2 DEF IInv, CountInv, SnapCountInv, FreshInv
  <2>6. (SavedInv /\ BodyInv)'
    BY <2>1, <2>2 DEF IInv, SavedInv, BodyInv, Removing
  <2>. QED BY <2>3, <2>4, <2>5, <2>6 DEF IInv
<1>2. ASSUME NEW t \in Task, Step(t) PROVE IInv' /\ (Evolves \/ Writes)
  <2>1. CASE Create(t) \/ CreateBody(t) \/ CreateFill(t) \/ Save(t) \/ Flush(t)
    BY <2>1, CreateKeeps, CreateBodyKeeps, CreateFillKeeps, SaveKeeps, FlushKeeps
  <2>2. CASE \E v \in Vol : Delete(t, v) \/ CreateSnapshot(t, v) \/ WriteVolume(t, v)
    BY <2>2, DeleteKeeps, CreateSnapshotKeeps, WriteVolumeKeeps
  <2>3. CASE DeleteSnap(t) \/ SnapBody(t) \/ SnapFill(t)
    BY <2>3, DeleteSnapKeeps, SnapBodyKeeps, SnapFillKeeps
  <2>4. CASE \E s \in Snap : DeleteSnapshot(t, s) \/ RestoreSnapshot(t, s)
    BY <2>4, DeleteSnapshotKeeps, RestoreSnapshotKeeps
  <2>5. CASE RestoreRead(t) \/ RestoreBody(t) \/ RestoreFill(t)
    BY <2>5, RestoreReadKeeps, RestoreBodyKeeps, RestoreFillKeeps
  <2>6. CASE WriteBody(t) \/ IoError(t)
    BY <2>6, WriteBodyKeeps, IoErrorKeeps
  <2>. QED BY <1>2, <2>1, <2>2, <2>3, <2>4, <2>5, <2>6 DEF Step
<1>. QED BY <1>1, <1>2, CrashKeeps DEF Next

\* The invariant is inductive.
THEOREM Invariance == Spec => []IInv
<1>1. IInv /\ [Next]_vars => IInv'
  BY NextKeeps
<1>. QED BY InitIInv, <1>1, PTL DEF Spec

\* The manifests, bodies and callers keep their types.
THEOREM TypeCorrect == Spec => []TypeOK
<1>1. IInv => TypeOK
  BY DEF IInv
<1>. QED BY Invariance, <1>1, PTL

\* integrity_check finds nothing wrong with what no interrupted operation was
\* about, however many tasks call create, delete, write, restore_snapshot and
\* flush, whatever I/O fails and wherever the process is killed.
THEOREM WholeBodies == Spec => []BodiesIntact
<1>1. IInv => BodiesIntact
  BY DEF IInv, BodyInv, BodiesIntact, Damaged, Saved
<1>. QED BY Invariance, <1>1, PTL

\* The store keeps the promise of DurableVolumes: every step creates, destroys or
\* writes what the promise allows.
THEOREM Refinement == Spec => ImplementsDurable
<1>. DEFINE content == [x \in disk.volumes \cup disk.snapshots |-> body[x]]
<1>1. Init => Durable!Init
  <2>. SUFFICES ASSUME Init PROVE Durable!Init
    OBVIOUS
  <2>1. disk.volumes = {} /\ disk.snapshots = {} /\ used = {} /\ cut = {}
    BY DEF Init, NewManifest
  <2>2. \A t \in Task : task[t].gone = {}
    BY DEF Init, Idle
  <2>3. Exposed = {}
    BY <2>1, <2>2, ExposedFacts
  <2>4. content = <<>>
    BY <2>1
  <2>. QED BY <2>1, <2>3, <2>4 DEF Durable!Init
<1>2. Evolves => Durable!Evolve
  <2>1. DOMAIN content = Saved /\ \A x \in Saved : content[x] = body[x]
    BY DEF Saved
  <2>2. DOMAIN content' = Saved' /\ \A x \in Saved' : content'[x] = body'[x]
    BY DEF Saved
  <2>. HIDE DEF content
  <2>. SUFFICES ASSUME Evolves PROVE Durable!Evolve
    OBVIOUS
  <2>3. /\ \A x \in DOMAIN content \ (Exposed \cup Exposed') :
             x \in DOMAIN content' /\ content'[x] = content[x]
        /\ \A x \in DOMAIN content' \ DOMAIN content :
             x \notin used /\ (x \notin Exposed' => content'[x] \in Whole)
        /\ \A x \in (Exposed \ Exposed') \cap DOMAIN content' : content'[x] \in Whole
        /\ used' = used \cup DOMAIN content'
    BY <2>1, <2>2 DEF Evolves
  <2>. QED BY <2>3 DEF content, Durable!Evolve, Durable!Whole, Whole
<1>3. ASSUME IInv, Writes PROVE Durable!Next
  <2>1. PICK v \in Vol, i \in 1..Blocks, b \in Byte :
          /\ v \in Saved \ Exposed
          /\ body' = [body EXCEPT ![v] = [@ EXCEPT ![i] = b]]
          /\ UNCHANGED <<Saved, Exposed, used>>
    BY <1>3 DEF Writes
  <2>2. content = [x \in Saved |-> body[x]] /\ content' = [x \in Saved |-> body'[x]]
    BY <2>1 DEF Saved
  <2>3. Saved \subseteq Id /\ DOMAIN body = Id
    BY <1>3, StateFacts DEF IInv, TypeOK
  <2>4. v \in DOMAIN content \ Exposed
    BY <2>1, <2>2
  <2>5. content' = [content EXCEPT ![v] = [@ EXCEPT ![i] = b]]
    BY <2>1, <2>2, <2>3
  <2>6. Durable!Write(v, i, b)
    BY <2>1, <2>4, <2>5 DEF Durable!Write
  <2>. QED BY <2>6 DEF Durable!Next
<1>4. IInv /\ [Next]_vars => [Durable!Next]_(Durable!vars)
  BY <1>2, <1>3, NextKeeps DEF Durable!Next
<1>. QED BY <1>1, <1>4, Invariance, PTL DEF Spec, ImplementsDurable, Durable!Spec

=============================================================================
