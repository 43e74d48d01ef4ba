--------------------------- MODULE DurableVolumes ---------------------------
(***************************************************************************)
(* What a disk-backed volume store promises (the VolumeStore trait and the *)
(* module text of celvault/src/lib.rs and file_store.rs): volumes and      *)
(* snapshots survive restarts and I/O errors, and only an operation that   *)
(* is meant to destroy a thing may harm it.                                *)
(*                                                                         *)
(* A thing is exposed from the moment an operation that deletes or         *)
(* overwrites it begins until that operation has succeeded.                *)
(***************************************************************************)
EXTENDS Integers, Sequences

CONSTANTS
  Vol,      \* volume ids
  Snap,     \* snapshot ids
  Blocks,   \* blocks of a volume
  Byte      \* contents of a block

VARIABLES
  content,  \* body of every durable volume and snapshot
  used,     \* ids that have ever been durable
  exposed   \* ids an unfinished or interrupted operation may harm

vars == <<content, used, exposed>>

Id == Vol \cup Snap
Whole == [1..Blocks -> Byte]

Init == content = <<>> /\ used = {} /\ exposed = {}

\* One block of a volume is written.
Write(v, i, b) ==
  /\ v \in DOMAIN content \ exposed
  /\ i \in 1..Blocks
  /\ content' = [content EXCEPT ![v] = [@ EXCEPT ![i] = b]]
  /\ UNCHANGED <<used, exposed>>

\* Things appear whole and under ids never used before; only exposed things
\* vanish; whatever is not exposed keeps its content.
Evolve ==
  /\ \A x \in DOMAIN content \ (exposed \cup exposed') :
       x \in DOMAIN content' /\ content'[x] = content[x]
  /\ \A x \in DOMAIN content' \ DOMAIN content :
       x \notin used /\ (x \notin exposed' => content'[x] \in Whole)
  /\ \A x \in (exposed \ exposed') \cap DOMAIN content' : content'[x] \in Whole
  /\ used' = used \cup DOMAIN content'

Next == Evolve \/ \E v \in Vol, i \in 1..Blocks, b \in Byte : Write(v, i, b)

Spec == Init /\ [][Next]_vars

=============================================================================
