------------------------------- MODULE Celctl -------------------------------
(***************************************************************************)
(* `celctl vm` and `celctl image` (celcli: main.rs, vm.rs, boot.rs,        *)
(* bridge.rs).  Every command is a process of its own: it loads the        *)
(* controller's state file, works on the copy, and writes the whole copy   *)
(* back, without a lock.  A start stages the first page of the VM's disk   *)
(* image as vm-<id>/boot.blob, compares its digest with the one recorded   *)
(* at an earlier start, and ships the staged file to the kernel, whose     *)
(* echoed digest must be the same.                                         *)
(*                                                                         *)
(* Files are written to a name of the process's own, synced and renamed,   *)
(* so a write is one step.  A digest is taken for the bytes it is of.      *)
(* Operators replace the image file under its path at any time.            *)
(***************************************************************************)
EXTENDS DiskImages

CONSTANTS
  Proc,     \* the terminals (or scripts) that run celctl
  MaxVms,   \* MAX_VMS
  Plans     \* where a behaviour may start: see Init

ASSUME CelctlAssumption == MaxVms \in Nat \ {0}

Vm == 0..(MaxVms - 1)
NoVm == [state |-> "none"]          \* a free slot; a VmRecord has state, image and crc
NoCrc == <<>>                       \* boot_blob_crc32c: None
Terminal == {"halted", "stopped"}   \* VmState::is_terminal; nothing sets Faulted or Running

\* A command line; `vm` need not be allocated, `fits` is whether create_vm_with
\* accepts the label, the CPUs and the memory, `sink` whether CELIUM_BRIDGE_TCP is set.
VmOps == {"create", "start", "stop", "reset", "delete", "show"}
ImageOps == {"inspect", "checksum"}
CtlCommand == [op : VmOps \cup ImageOps, vm : Nat, image : BOOLEAN, fits : BOOLEAN, sink : BOOLEAN]

ASSUME PlansAssumption == \A plan \in Plans : plan.scripts \in [Proc -> Seq(CtlCommand)]

VARIABLES
  image,    \* [file, guest]: the file at the image path, what its guest sees
  supply,   \* the files that operators will put there
  past,     \* the versions of the image so far
  disk,     \* the state file
  saves,    \* how often it has been written
  blob,     \* vm-<id>/boot.blob
  ctl       \* the processes

files == <<disk, saves, blob>>
images == <<image, supply, past>>
cvars == <<images, files, ctl>>

\* Between two commands; `sum` is what the last one printed as a checksum.
Idle(script) ==
  [script |-> script, pc |-> "idle", cmd |-> "none", mem |-> <<>>, base |-> 0,
   kind |-> "none", dig |-> NoCrc, sent |-> NoCrc, sum |-> NoCrc]

CInit ==
  \E plan \in Plans :
    /\ image = plan.image
    /\ supply = plan.supply
    /\ past = {plan.image}
    /\ disk = [v \in Vm |-> NoVm]
    /\ saves = 0
    /\ blob = [v \in Vm |-> NoCrc]
    /\ ctl = [p \in Proc |-> Idle(plan.scripts[p])]

---------------------------------------------------------------------------
(* The controller's operations on its copy m of the slots (vm.rs). *)

Done(m) == [ok |-> TRUE, mem |-> m]
Refused(m) == [ok |-> FALSE, mem |-> m]

Allocated(m, v) == v \in Vm /\ m[v] # NoVm     \* lookup

\* create_vm_with: the first free slot.
CreateVm(m, c) ==
  LET free == {v \in Vm : m[v] = NoVm}
      v == CHOOSE x \in free : \A y \in free : x <= y
  IN IF c.fits /\ free # {}
       THEN Done([m EXCEPT ![v] = [state |-> "created", image |-> c.image, crc |-> NoCrc]])
       ELSE Refused(m)

\* Fault: the digest is dropped.
ResetForgets(m, v) ==
  IF m[v].state \in Terminal
    THEN Done([m EXCEPT ![v].state = "created", ![v].crc = NoCrc])
    ELSE Refused(m)

\* reset_vm keeps the digest of the earlier start.
ResetVm(m, v) ==
  IF m[v].state \in Terminal THEN Done([m EXCEPT ![v].state = "created"]) ELSE Refused(m)

StopVm(m, v) ==
  Done(IF m[v].state \in Terminal THEN m ELSE [m EXCEPT ![v].state = "stopped"])

\* delete_vm; no celctl command reaches it.
DeleteVm(m, v) == IF m[v].state \in Terminal THEN Done([m EXCEPT ![v] = NoVm]) ELSE Refused(m)

\* The part of start_vm before anything is staged.
Startable(m, v) == Allocated(m, v) /\ m[v].state = "created"

\* The end of start_vm; d is the digest of the staged page, or NoCrc.
Started(m, v, d) ==
  [m EXCEPT ![v].state = "halted", ![v].crc = IF d = NoCrc THEN @ ELSE d]

\* run_vm_cmd, but for start: list, state and stats change nothing.
Perform(m, c) ==
  IF c.op \in {"reset", "stop", "delete"} /\ ~Allocated(m, c.vm) THEN Refused(m) ELSE
  CASE c.op = "create" -> CreateVm(m, c)
    [] c.op = "show"   -> Done(m)
    [] c.op = "reset"  -> ResetVm(m, c.vm)
    [] c.op = "stop"   -> StopVm(m, c.vm)
    [] c.op = "delete" -> DeleteVm(m, c.vm)

---------------------------------------------------------------------------
(* One command. *)

At(p, pc) == ctl[p].pc = pc
Goto(p, pc) == [ctl EXCEPT ![p].pc = pc]
End(p) == [ctl EXCEPT ![p] = Idle(ctl[p].script)]

\* Controller::load; a file that is missing is an empty table.
Loaded == disk

\* main: `vm` loads the controller first, `image` goes straight to the file.
Begin(p) ==
  LET c == Head(ctl[p].script)
      first == CASE c.op = "start"                                        -> "look"
                 [] c.op \in ImageOps \/ (c.op = "create" /\ c.image)     -> "detect"
                 [] OTHER                                                 -> "run"
  IN /\ At(p, "idle") /\ ctl[p].script # <<>>
     /\ ctl' = [ctl EXCEPT ![p] = [Idle(Tail(@.script)) EXCEPT
                  !.pc = first, !.cmd = c, !.base = saves,
                  !.mem = IF c.op \in VmOps THEN Loaded ELSE <<>>]]
     /\ UNCHANGED <<images, files>>

Run(p) ==
  LET r == Perform(ctl[p].mem, ctl[p].cmd)
  IN /\ At(p, "run")
     /\ ctl' = IF r.ok THEN [Goto(p, "save") EXCEPT ![p].mem = r.mem] ELSE End(p)
     /\ UNCHANGED <<images, files>>

\* start_vm up to stage_boot_blob: a VM without an image has nothing to stage.
Look(p) ==
  LET m == ctl[p].mem
      v == ctl[p].cmd.vm
  IN /\ At(p, "look")
     /\ ctl' = IF ~Startable(m, v) THEN End(p)
               ELSE IF m[v].image THEN Goto(p, "detect")
               ELSE [Goto(p, "save") EXCEPT ![p].mem = Started(m, v, NoCrc)]
     /\ UNCHANGED <<images, files>>

\* celimage::open opens the path twice: to look at the magic, and to read.
Detect(p) ==
  /\ At(p, "detect")
  /\ ctl' = IF Detects(image.file)
              THEN [Goto(p, "open") EXCEPT ![p].kind = image.file.magic]
              ELSE End(p)
  /\ UNCHANGED <<images, files>>

\* The second open, and all reads of it.
OpenImage(p) ==
  LET k == ctl[p].kind
      f == image.file
  IN /\ At(p, "open")
     /\ ctl' = IF ~Opens(k, f) THEN End(p) ELSE
               CASE ctl[p].cmd.op = "inspect"  -> End(p)
                 [] ctl[p].cmd.op = "create"   -> Goto(p, "run")
                 [] ctl[p].cmd.op = "checksum" -> [End(p) EXCEPT ![p].sum = WholeDisk(k, f).units]
                 [] ctl[p].cmd.op = "start"    ->
                      IF BootPage(k, f).ok
                        THEN [Goto(p, "blob") EXCEPT ![p].dig = BootPage(k, f).units] ELSE End(p)
     /\ UNCHANGED <<images, files>>

\* The check of W19: the image is not the one this VM was started from.
Drifted(m, v, d) == m[v].crc # NoCrc /\ m[v].crc # d

\* The rename that ends stage_boot_blob; the check comes after it.
Blob(p) ==
  LET m == ctl[p].mem
      v == ctl[p].cmd.vm
      d == ctl[p].dig
  IN /\ At(p, "blob")
     /\ blob' = [blob EXCEPT ![v] = d]
     /\ ctl' = IF Drifted(m, v, d) THEN End(p)
               ELSE IF ctl[p].cmd.sink THEN Goto(p, "sink")
               ELSE [Goto(p, "save") EXCEPT ![p].mem = Started(m, v, d)]
     /\ UNCHANGED <<images, disk, saves>>

\* Fault: the kernel's answer is not compared.
EchoIgnored(echoed, d) == TRUE

EchoAgrees(echoed, d) == echoed = d

\* HyperBootBlobSink: the staged file is read again and sent; the kernel answers
\* with the digest of what it received.
Sink(p) ==
  LET v == ctl[p].cmd.vm
      d == ctl[p].dig
  IN /\ At(p, "sink")
     /\ ctl' = IF EchoAgrees(blob[v], d)
                 THEN [Goto(p, "save") EXCEPT ![p].mem = Started(ctl[p].mem, v, d),
                                              ![p].sent = blob[v]]
                 ELSE End(p)
     /\ UNCHANGED <<images, files>>

\* Controller::save: the whole copy, after every command that did not fail.
Save(p) ==
  /\ At(p, "save")
  /\ disk' = ctl[p].mem
  /\ saves' = saves + 1
  /\ ctl' = End(p)
  /\ UNCHANGED <<images, blob>>

\* The process dies, or a file or link operation fails: nothing is undone.
Abort(p) ==
  /\ ~At(p, "idle")
  /\ ctl' = End(p)
  /\ UNCHANGED <<images, files>>

\* An operator replaces the image.
Replace ==
  /\ supply # <<>>
  /\ image' = Head(supply)
  /\ supply' = Tail(supply)
  /\ past' = past \cup {Head(supply)}
  /\ UNCHANGED <<files, ctl>>

CNext ==
  \/ \E p \in Proc : \/ Begin(p) \/ Run(p) \/ Look(p) \/ Detect(p) \/ OpenImage(p)
                     \/ Blob(p) \/ Sink(p) \/ Save(p) \/ Abort(p)
  \/ Replace

CSpec == CInit /\ [][CNext]_cvars

---------------------------------------------------------------------------
(* Properties. *)

\* The first page, and the whole, of what guests of the image have seen so far.
Pages == {SubSeq(i.guest, 1, Least(BootLen, Len(i.guest))) : i \in past}
Disks == {i.guest : i \in past}

\* A qcow2 file whose data lies elsewhere; QcowValid lets it pass.
Elsewhere == \E i \in past : i.file.magic = "qcow2" /\ "external_data" \in i.file.hdr.features

\* The path was given a container between the two opens, and was read as raw.
Mistaken(u) ==
  \E i, j \in past : /\ i.file.magic = "raw" /\ j.file.magic \notin {"raw", "none"}
                     /\ u = ReadUpTo(j.file, 0, 0, Len(u))

\* What a start stages, records and sends to the kernel is one and the same page, and
\* it is the page that a guest of the image finds at offset 0; what `image checksum`
\* digests is the guest's disk.  All formats, all allocations, concurrent starts of one
\* VM that share boot.blob, and an image that is replaced at any moment.
KernelGetsGuestPage ==
  LET seen(u, all) == u = NoCrc \/ u \in all \/ Mistaken(u) \/ Elsewhere
  IN /\ \A v \in Vm : seen(blob[v], Pages) /\ (disk[v] # NoVm => seen(disk[v].crc, Pages))
     /\ \A p \in Proc :
          /\ seen(ctl[p].sum, Disks)
          /\ ctl[p].sent # NoCrc => ctl[p].mem[ctl[p].cmd.vm].crc = ctl[p].sent

\* "the operator must explicitly acknowledge (via delete_vm + create_vm_with)"
\* (vm.rs:399): a recorded digest is never changed or dropped while its VM exists, and
\* a command touches no VM but its own.  Only a process that loaded the state file
\* before the last save may do either, because it writes back what it loaded.
OnlyStaleSavesForget ==
  [][\A p \in Proc :
       ctl[p].pc = "save" /\ disk' = ctl[p].mem /\ saves' # saves /\ ctl[p].base = saves =>
         /\ \A v, w \in Vm : disk'[v] # disk[v] /\ disk'[w] # disk[w] => v = w
         /\ \A v \in Vm : disk[v] # NoVm /\ disk'[v] # NoVm /\ disk[v].crc # NoCrc
                            => disk'[v].crc = disk[v].crc]_cvars

=============================================================================
