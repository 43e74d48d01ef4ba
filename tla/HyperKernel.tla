---------------------------- MODULE HyperKernel -----------------------------
(***************************************************************************)
(* The CelHyper kernel as values: the frame pool and the extended page     *)
(* tables (celhyper/src/mm.rs), the VM registry and its operations         *)
(* (manager.rs, vm.rs, sched.rs), the staging slot of boot images          *)
(* (image_loader.rs) and the side tables of the bridge (bridge.rs).        *)
(*                                                                         *)
(* Every operator takes a kernel and returns the one the operation leaves. *)
(* An image is a length and a body; its CRC32C is taken to identify the    *)
(* body.  Guest instructions, VMCS fields and the MSRs are not modelled:   *)
(* an instruction that may fail takes the outcome as a parameter.          *)
(***************************************************************************)
EXTENDS Integers, Sequences, FiniteSets, FiniteSetsExt, SequencesExt, TLC

CONSTANTS
  MAX_VMS,     \* VM slots
  POOL_PAGES,  \* frames of the pool
  Image,       \* images a loader or a host may hand over
  Embedded,    \* HELLO_BLOB
  Reason,      \* basic exit reasons of a guest
  None         \* absent

PAGE_SIZE == 4096
MAX_IMAGE_BYTES == PAGE_SIZE
EXIT_REASON_HLT == 12
GUEST_LOAD_PAGE == 1   \* GUEST_LOAD_GPA / PAGE_SIZE

Terminal == {"halted", "stopped", "faulted"}
VmState == {"created", "running"} \cup Terminal
VmEntry == [state : VmState, exit : Nat \cup {None}, vmcs : Nat, pml4 : Nat]

ASSUME KernelAssumption ==
  /\ MAX_VMS \in Nat \ {0}
  /\ POOL_PAGES \in Nat
  /\ Embedded \in Image
  /\ Image \subseteq [len : Nat, body : STRING]
  /\ Embedded.len \in 1..MAX_IMAGE_BYTES
  /\ Reason \subseteq Nat
  /\ None \notin Nat \cup STRING \cup VmState \cup VmEntry

Slot == 0 .. MAX_VMS - 1
Crc32c(image) == image.body

\* The map f with v under x.
SetIn(f, x, v) == [y \in DOMAIN f \cup {x} |-> IF y = x THEN v ELSE f[y]]

(***************************** Frames and EPT *****************************)

\* A frame of the pool: the table entries written to it, or an image's bytes.
BlankPage == [entries |-> <<>>, data |-> None]

\* An allocation in progress: the frames handed out (numbered from 1), the one
\* handed out or reached last, and whether the pool has held out.
Pool(mem) == [mem |-> mem, frame |-> 0, ok |-> TRUE]

\* KernelFrames::alloc_zeroed.
AllocZeroed(p) ==
  IF Len(p.mem) < POOL_PAGES
  THEN [p EXCEPT !.mem = Append(@, BlankPage), !.frame = Len(p.mem) + 1]
  ELSE [p EXCEPT !.ok = FALSE]

\* ept_indices.
EptIndex(page, level) == (page \div 512 ^ level) % 512

\* One level of the walk in map_4k: follow the entry, or allocate its table.
Descend(p, i) ==
  LET entries == p.mem[p.frame].entries
      fresh == AllocZeroed(p)
  IN IF ~p.ok THEN p
     ELSE IF i \in DOMAIN entries THEN [p EXCEPT !.frame = entries[i]]
     ELSE IF ~fresh.ok THEN fresh
     ELSE [fresh EXCEPT !.mem[p.frame].entries = SetIn(@, i, fresh.frame)]

\* Ept::map_4k.
Map4k(p, pml4, page, hpa) ==
  LET down(q, level) == Descend(q, EptIndex(page, level))
      walk == down(down(down([p EXCEPT !.frame = pml4], 3), 2), 1)
  IN IF walk.ok THEN [walk EXCEPT !.mem[walk.frame].entries = SetIn(@, EptIndex(page, 0), hpa)] ELSE walk

\* Fault: the page tables of the first guest serve every guest.
RootShared(p) == IF \E f \in DOMAIN p.mem : p.mem[f].entries # <<>>
                 THEN [p EXCEPT !.frame = Min({f \in DOMAIN p.mem : p.mem[f].entries # <<>>})]
                 ELSE AllocZeroed(p)
\* Ept::new.
EptNew(p) == AllocZeroed(p)

\* launch::install_first_guest: an EPT that maps a copy of the image.
InstallFirstGuest(mem, image) ==
  LET root == EptNew(Pool(mem))
      blob == AllocZeroed(root)
      full == [blob EXCEPT !.mem[blob.frame].data = image]
      done == Map4k(full, root.frame, GUEST_LOAD_PAGE, blob.frame)
  IN IF image.len > PAGE_SIZE \/ ~root.ok \/ ~blob.ok
     THEN [mem |-> blob.mem, pml4 |-> 0, ok |-> FALSE]
     ELSE [mem |-> done.mem, pml4 |-> root.frame, ok |-> done.ok]

\* The frames a guest can reach through its tables, its table frames included.
Reach(mem, pml4) ==
  LET below(S) == UNION {{mem[f].entries[i] : i \in DOMAIN mem[f].entries} : f \in S}
      L2 == below({pml4})  L1 == below(L2)  L0 == below(L1)  leaf == below(L0)
  IN {pml4} \cup L2 \cup L1 \cup L0 \cup leaf

\* Ept::translate: the frame a guest page is in, 0 when the walk fails.
Follow(mem, f, i) == IF f # 0 /\ i \in DOMAIN mem[f].entries THEN mem[f].entries[i] ELSE 0
Translate(mem, pml4, page) ==
  LET L2 == Follow(mem, pml4, EptIndex(page, 3))
      L1 == Follow(mem, L2, EptIndex(page, 2))
      L0 == Follow(mem, L1, EptIndex(page, 1))
  IN Follow(mem, L0, EptIndex(page, 0))

(****************************** Boot images *******************************)

\* BootImage::from_raw_bytes with the entry at the load address.
Loadable(image) == image.len \in 1..MAX_IMAGE_BYTES

\* BootImage::from_handoff_or_embedded: an image that is absent, half
\* described or too long gives way to the embedded one.
FromHandoffOrEmbedded(h) ==
  IF h.boot_image_phys /\ Loadable(h.boot_image) THEN h.boot_image ELSE Embedded

\* BootImage::from_staged_or_embedded.
FromStagedOrEmbedded(k, crc) ==
  IF k.staged # None /\ crc # None /\ k.staged.crc = crc THEN k.staged.image ELSE Embedded

\* image_loader::stage_from_hex: the slot is emptied before the checksum is
\* compared; the checks of the lengths come before that.
StageFromHex(k, image, len, crc) ==
  IF len \notin 1..MAX_IMAGE_BYTES \/ image.len # len THEN [k |-> k, ok |-> FALSE]
  ELSE IF Crc32c(image) # crc THEN [k |-> [k EXCEPT !.staged = None], ok |-> FALSE]
  ELSE [k |-> [k EXCEPT !.staged = [image |-> image, crc |-> crc]], ok |-> TRUE]

(******************************* VM manager *******************************)

\* What the bridge remembers of a slot (LABELS and EXTRAS).
NoMeta == [label |-> None, crc |-> None]

PowerOn == [phase |-> "start", ready |-> FALSE, vmxon |-> 0, online |-> 0, occupied |-> {},
            vm |-> [s \in Slot |-> None], deleted |-> {}, active |-> None, cursor |-> 0,
            mem |-> <<>>, staged |-> None, meta |-> [s \in Slot |-> NoMeta], serving |-> None]

\* Vm::new.
NewVm(vmcs, pml4) == [state |-> "created", exit |-> None, vmcs |-> vmcs, pml4 |-> pml4]

\* manager::init_runtime; hw: VMX is there and vmxon succeeds.
InitRuntime(k, hw) ==
  LET region == AllocZeroed(Pool(k.mem)) IN
  IF k.ready THEN [k |-> k, ok |-> FALSE]
  ELSE [k |-> [k EXCEPT !.ready = TRUE, !.mem = region.mem, !.vmxon = region.frame],
        ok |-> hw /\ region.ok]

\* lookup.
Allocated(k, id) == id \in Slot /\ k.vm[id] # None

\* manager::create_vm, with reserve_slot.  A slot and the frames of a creation
\* that fails midway are never given back.
CreateVm(k, image, hw) ==
  LET free == Slot \ k.occupied
      slot == Min(free)
      guest == InstallFirstGuest(k.mem, image)
      vmcs == AllocZeroed(Pool(guest.mem))
      reserved == [k EXCEPT !.occupied = @ \cup {slot}]
  IN IF ~k.ready \/ free = {} THEN [k |-> k, id |-> None]
     ELSE IF ~guest.ok THEN [k |-> [reserved EXCEPT !.mem = guest.mem], id |-> None]
     ELSE IF ~vmcs.ok \/ ~hw THEN [k |-> [reserved EXCEPT !.mem = vmcs.mem], id |-> None]
     ELSE [k |-> [reserved EXCEPT !.mem = vmcs.mem, !.vm[slot] = NewVm(vmcs.frame, guest.pml4)], id |-> slot]

\* Fault: an active VM is not replaced.
SetActiveOnce(k, id) == IF k.active = None THEN [k EXCEPT !.active = id] ELSE k
\* sched::set_active.
SetActive(k, id) == [k EXCEPT !.active = id]

\* manager::start_vm up to vmlaunch: "guest" when the guest has the processor.
EnterVm(k, id, hw) ==
  IF ~Allocated(k, id) \/ ~hw THEN [k |-> k, entered |-> FALSE]
  ELSE IF k.vm[id].state # "created" THEN [k |-> SetActive(k, id), entered |-> FALSE]
  ELSE [k |-> [SetActive(k, id) EXCEPT !.vm[id].state = "running"], entered |-> TRUE]

\* vm_exit_dispatch and Vm::on_exit: the exit is recorded on the active VM,
\* whose state moves only when it was running.
OnExit(k, reason) ==
  LET vm == k.vm[k.active]
      end == IF reason = EXIT_REASON_HLT THEN "halted" ELSE "faulted"
  IN [k EXCEPT !.vm[k.active] = [vm EXCEPT !.exit = reason, !.state = IF vm.state = "running" THEN end ELSE vm.state]]

\* Vm::stop.
Stop(k, id) == IF k.vm[id].state \in {"created", "running"} THEN [k EXCEPT !.vm[id].state = "stopped"] ELSE k

\* What the processor may do once vmlaunch is executed: an exit with a reason,
\* an exit the dispatcher cannot read (entry failure: nothing is recorded), or
\* a vmlaunch that falls through (start_vm stops the VM it was called for).
Outcome == [kind : {"exit"}, reason : Reason] \cup [kind : {"unreadable", "no_entry"}, reason : {0}]
Ended(k, id, o) ==
  CASE o.kind = "exit" -> OnExit(k, o.reason)
    [] o.kind = "unreadable" -> k
    [] o.kind = "no_entry" -> Stop(k, id)

\* manager::stop_vm.
StopVm(k, id) == IF Allocated(k, id) THEN [k |-> Stop(k, id), ok |-> TRUE] ELSE [k |-> k, ok |-> FALSE]

\* manager::delete_vm, then forget_label and forget_extras.
DeleteVm(k, id) ==
  IF Allocated(k, id) /\ k.vm[id].state \in Terminal /\ id \notin k.deleted
  THEN [k |-> [k EXCEPT !.deleted = @ \cup {id}, !.meta[id] = NoMeta], ok |-> TRUE]
  ELSE [k |-> k, ok |-> FALSE]

\* Fault: slots of deleted VMs are listed too.
AllListed(k) == {s \in Slot : k.vm[s] # None}
\* manager::list_vms.
Listed(k) == {s \in Slot : k.vm[s] # None /\ s \notin k.deleted}

\* Every VM that is listed is stopped.
StopAll(k) == [k EXCEPT !.vm = [s \in Slot |-> IF s \in Listed(k) THEN Stop(k, s).vm[s] ELSE k.vm[s]]]

\* manager::next_runnable: the created VM nearest after the cursor.
Runnable(k) == {s \in Slot : k.vm[s] # None /\ k.vm[s].state = "created"}
NextRunnable(k) ==
  LET ahead(s) == (s + MAX_VMS - k.cursor) % MAX_VMS
  IN CHOOSE s \in Runnable(k) : \A t \in Runnable(k) : ahead(s) <= ahead(t)
=============================================================================
