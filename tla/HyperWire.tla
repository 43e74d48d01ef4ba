----------------------------- MODULE HyperWire ------------------------------
(***************************************************************************)
(* The line protocol between a host and the CelHyper kernel: what each     *)
(* side writes and what the other makes of it (celmesh/src/hyper_host.rs,  *)
(* celhyper/src/wire.rs).                                                  *)
(*                                                                         *)
(* A request is the function of the JSON keys present.  A label is its     *)
(* length and whether JSON has to escape it.  The bytes of an image travel *)
(* as hex digits without damage, or damaged.                               *)
(***************************************************************************)
EXTENDS HyperKernel

LABEL_MAX == 32
KERNEL_FRAME == 12 * 1024   \* bridge.rs MAX_FRAME_BYTES
SERVE_FRAME == 64 * 1024    \* hyper_serial.rs MAX_FRAME_BYTES

NoLabel == [len |-> 0, escaped |-> FALSE]

(* Requests the host writes (enum HyperRequest). *)
CreateFrame(label, crc) == [op |-> "create", label |-> label, boot_blob_crc32c |-> crc]
VmFrame(op, id) == [op |-> op, vm_id |-> id]
ListFrame == [op |-> "list"]
ImageFrame(image) == [op |-> "image_load", len |-> image.len, crc32c |-> Crc32c(image), bytes_hex |-> image]

\* Length of the line: the label or the digits make it long.
FrameLen(f) == (IF "label" \in DOMAIN f THEN f.label.len ELSE 0)
               + (IF "bytes_hex" \in DOMAIN f THEN 2 * f.bytes_hex.len ELSE 0)

\* Line noise: a key that is no longer known, which the decoder skips, or hex
\* digits that decode to other bytes.
Noisy(f) == {[key \in DOMAIN f \ {lost} |-> f[key]] : lost \in DOMAIN f}
            \cup IF "bytes_hex" \in DOMAIN f
                 THEN {[f EXCEPT !.bytes_hex = [@ EXCEPT !.body = "damaged"]]} ELSE {}

\* decode_request: the keys each operation cannot do without.
Needs == [create |-> {"label"}, start |-> {"vm_id"}, stop |-> {"vm_id"}, delete |-> {"vm_id"},
          list |-> {}, image_load |-> {"len", "crc32c", "bytes_hex"}]
Decodes(f) ==
  /\ "op" \in DOMAIN f
  /\ Needs[f.op] \subseteq DOMAIN f
  /\ "label" \in DOMAIN f => ~f.label.escaped /\ f.label.len <= LABEL_MAX
  /\ "bytes_hex" \in DOMAIN f /\ f.op = "image_load" => f.bytes_hex.len = f.len
CrcWanted(f) == IF "boot_blob_crc32c" \in DOMAIN f THEN f.boot_blob_crc32c ELSE None

(* Replies (enum HyperReply). *)
Error == [reply |-> "error"]
Created(id) == [reply |-> "created", vm_id |-> id]
StateIs(k, id) == [reply |-> "state", vm_id |-> id, state |-> k.vm[id].state]
Deleted(id) == [reply |-> "deleted", vm_id |-> id]
ImageLoaded(f) == [reply |-> "image_loaded", len |-> f.len, crc32c |-> f.crc32c]
ListedRows(rows) == [reply |-> "listed", rows |-> rows]

ASSUME WireAssumption == None \notin [reply : {"created", "deleted"}, vm_id : Nat]

\* bridge::build_rows: what the registry and the side tables say of each VM.
RowOf(k, s) == [vm_id |-> s, label |-> k.meta[s].label, state |-> k.vm[s].state,
                last_exit |-> k.vm[s].exit, boot_blob_crc32c |-> k.meta[s].crc]
BuildRows(k, slots) == {RowOf(k, s) : s \in slots}

\* encode_reply writes an optional field only when it has a value, and the
\* host reads a missing one as absent.
EncodeRow(row) == [key \in {key \in DOMAIN row : key = "label" \/ row[key] # None} |->
                     IF key = "label" /\ row.label = None THEN NoLabel ELSE row[key]]
DecodeRow(f) == [key \in {"vm_id", "label", "state", "last_exit", "boot_blob_crc32c"} |->
                   IF key \in DOMAIN f THEN f[key] ELSE None]
=============================================================================
