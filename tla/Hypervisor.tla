----------------------------- MODULE Hypervisor -----------------------------
(***************************************************************************)
(* A host and its CelHyper kernel: the kernel boots (celhyper/src/main.rs, *)
(* bringup.rs), then serves the bridge (bridge.rs); callers of the host    *)
(* adapter (celmesh/src/hyper_host.rs) share one serial link               *)
(* (hyper_serial.rs) to it, or to the loopback kernel served in its place. *)
(*                                                                         *)
(* A call takes the link's mutex, writes a line and waits for a line; the  *)
(* wait may time out while the kernel is still at work, and its reply then *)
(* stays in the stream.  What a caller does with a reply comes after the   *)
(* mutex is released.  A guest keeps the only processor until it exits,    *)
(* which it need not do.  The line may damage one request.                 *)
(***************************************************************************)
EXTENDS HyperWire

CONSTANTS
  Caller,    \* tasks of the host that use the adapter
  Program,   \* what may be in store: the kind of kernel, the loader's handoff, the
             \* callers' operations, and how many requests the line may damage
  Ask,       \* labels and image checksums a creation may ask for
  Named,     \* VMs a caller may name, allocated or not
  Policy     \* restart policy each caller asks for

ASSUME HostAssumption ==
  /\ Ask \subseteq [label : [len : Nat, escaped : BOOLEAN], crc : {Crc32c(i) : i \in Image} \cup {None}]
  /\ Named \subseteq Nat
  /\ None \notin Caller
  /\ \A p \in Program : /\ p.noise \in Nat /\ p.kind \in {"metal", "emulator"}
                         /\ p.boot.boot_image \in Image

VARIABLES
  kind,    \* "metal", or "emulator" for LoopbackHyperLink behind serve
  boot,    \* the handoff
  kernel,  \* the kernel's memory and registers
  link,    \* SerialHyperLink: its mutex and the two directions of the stream
  caller,  \* what each caller is doing
  host,    \* CelhyperVmHost: labels, policies and the snapshot last published
  noise,   \* how many requests the line may still damage
  late,    \* whether a call has timed out
  seen,    \* number of the request whose reply was read last
  born     \* slot -> how many VMs it has had, whether the last one is there

vars == <<kind, boot, kernel, link, caller, host, noise, late, seen, born>>

MAX_PCPUS == 8
Closed == [reply |-> "closed"]    \* an I/O error, a timeout, a line that is no reply
DefaultPolicy == "never"
Calls == {"create", "start", "stop", "delete", "snapshot", "stage"}

Unborn == [gen |-> 0, policy |-> DefaultPolicy, live |-> FALSE]
Idle(todo) == [pc |-> "idle", todo |-> todo, no |-> 0, frame |-> ListFrame, got |-> Closed, at |-> <<>>]

Init ==
  /\ \E p \in Program : /\ kind = p.kind /\ boot = p.boot /\ noise = p.noise
                        /\ caller = [c \in Caller |-> Idle(p.ops[c])]
  /\ kernel = IF kind = "metal" THEN PowerOn ELSE [PowerOn EXCEPT !.phase = "emulator"]
  /\ link = [lock |-> None, toKernel |-> <<>>, toHost |-> <<>>, open |-> TRUE, sent |-> 0]
  /\ host = [labels |-> <<>>, policies |-> <<>>, snap |-> {}, at |-> <<>>]
  /\ late = FALSE /\ seen = 0
  /\ born = [s \in Slot |-> Unborn]

(********************************** Boot **********************************)

\* Topology::from_handoff.
TopologyOk(h) == h.cpu_count \in 1..MAX_PCPUS /\ (h.cpu_count > 1 <=> h.ap_apic_ids)

\* path_for and resolve_path of a VM's id: decimal digits.
Decimal[n \in Nat] == IF n < 10 THEN <<n>> ELSE Append(Decimal[n \div 10], n % 10)
ParseU32(digits) == FoldLeft(LAMBDA acc, d : 10 * acc + d, 0, digits)
RoundTrips(k, id) == ParseU32(Decimal[id]) = id /\ Allocated(k, id)

HaltBoot(k) == [k EXCEPT !.phase = "halted"]
OnBoot == UNCHANGED <<kind, boot, link, caller, host, noise, late, seen>>

\* _start and bring_up as far as the processors: without VMX, or when the
\* runtime does not come up, the kernel halts.
BootStart ==
  /\ kernel.phase = "start"
  /\ \E hw \in BOOLEAN :
       LET r == InitRuntime(kernel, hw)
           up == [r.k EXCEPT !.phase = "create_a", !.online = IF TopologyOk(boot) THEN 1 ELSE 0]
       IN kernel' = IF ~boot.valid \/ ~boot.vmx THEN HaltBoot(kernel) ELSE IF r.ok THEN up ELSE HaltBoot(r.k)
  /\ UNCHANGED born /\ OnBoot

\* A VM enters a slot.
BornIn(s, policy) == [born EXCEPT ![s] = [gen |-> @.gen + 1, policy |-> policy, live |-> TRUE]]

\* bring_up creates its two VMs; an error of the first calls ends the boot.
BootCreate ==
  /\ kernel.phase \in {"create_a", "create_b"}
  /\ \E hw \in BOOLEAN :
       LET r == CreateVm(kernel, FromHandoffOrEmbedded(boot), hw)
           next == IF kernel.phase = "create_a" THEN "create_b" ELSE "drain"
           ok == r.id # None /\ (next = "drain" => RoundTrips(r.k, 0))
       IN /\ kernel' = IF ok THEN [r.k EXCEPT !.phase = next, !.cursor = 0] ELSE HaltBoot(r.k)
          /\ born' = IF r.id # None THEN BornIn(r.id, DefaultPolicy) ELSE born
  /\ OnBoot

\* The launch loop of bring_up.
BootLaunch ==
  /\ kernel.phase = "drain" /\ Runnable(kernel) # {}
  /\ \E hw \in BOOLEAN :
       LET id == NextRunnable(kernel)
           r == EnterVm([kernel EXCEPT !.cursor = (id + 1) % MAX_VMS], id, hw)
       IN kernel' = IF r.entered THEN [r.k EXCEPT !.phase = "guest", !.serving = [no |-> 0, id |-> id]]
                    ELSE HaltBoot(r.k)
  /\ UNCHANGED born /\ OnBoot

\* The end of bring_up: every VM is stopped, and a fault keeps the bridge shut.
BootFinish ==
  /\ kernel.phase = "drain" /\ Runnable(kernel) = {}
  /\ LET faulted == \E s \in Listed(kernel) : kernel.vm[s].state = "faulted"
     IN kernel' = [StopAll(kernel) EXCEPT !.phase = IF faulted THEN "halted" ELSE "bridge"]
  /\ UNCHANGED born /\ OnBoot

(****************************** Kernel bridge *****************************)

\* The kernel has served the first line; reply is None when it writes nothing.
Request == Head(link.toKernel)
Answer(no, reply) == [of |-> no, line |-> reply, gens |-> [s \in Slot |-> born[s].gen]]
Served(k, reply) ==
  /\ kernel' = k
  /\ link' = [link EXCEPT !.toKernel = Tail(@),
                          !.toHost = IF reply = None THEN @ ELSE Append(@, Answer(Request.no, reply))]
  /\ UNCHANGED <<kind, boot, caller, host, noise, late, seen>>

Bridging == kernel.phase = "bridge" /\ link.toKernel # <<>>
Dispatching(op) == /\ Bridging
                   /\ FrameLen(Request.frame) <= KERNEL_FRAME
                   /\ Decodes(Request.frame) /\ Request.frame.op = op

\* A line too long for the buffer is dropped without an answer; one that does
\* not decode is answered with an error.
BridgeReject ==
  /\ Bridging
  /\ \/ FrameLen(Request.frame) > KERNEL_FRAME /\ Served(kernel, None)
     \/ FrameLen(Request.frame) <= KERNEL_FRAME /\ ~Decodes(Request.frame) /\ Served(kernel, Error)
  /\ UNCHANGED born

BridgeCreate ==
  /\ Dispatching("create")
  /\ \E hw \in BOOLEAN :
       LET f == Request.frame
           r == CreateVm(kernel, FromStagedOrEmbedded(kernel, CrcWanted(f)), hw)
           told == [label |-> f.label, crc |-> CrcWanted(f)]
       IN IF r.id = None THEN Served(r.k, Error) /\ UNCHANGED born
          ELSE Served([r.k EXCEPT !.meta[r.id] = told], Created(r.id)) /\ born' = BornIn(r.id, Request.policy)

BridgeStart ==
  /\ Dispatching("start")
  /\ \E hw \in BOOLEAN :
       LET id == Request.frame.vm_id
           r == EnterVm(kernel, id, hw)
       IN IF ~r.entered THEN Served(r.k, Error)
          ELSE /\ kernel' = [r.k EXCEPT !.phase = "guest", !.serving = [no |-> Request.no, id |-> id]]
               /\ link' = [link EXCEPT !.toKernel = Tail(@)]
               /\ UNCHANGED <<kind, boot, caller, host, noise, late, seen>>
  /\ UNCHANGED born

\* The guest gives the processor back; start_vm returns to whoever called it.
GuestExit ==
  /\ kernel.phase = "guest"
  /\ \E o \in Outcome :
       LET run == kernel.serving
           k == [Ended(kernel, run.id, o) EXCEPT !.phase = IF run.no = 0 THEN "drain" ELSE "bridge", !.serving = None]
       IN /\ kernel' = k
          /\ link' = IF run.no = 0 THEN link
                     ELSE [link EXCEPT !.toHost = Append(@, Answer(run.no, StateIs(k, run.id)))]
  /\ UNCHANGED <<kind, boot, caller, host, noise, late, seen, born>>

BridgeStop ==
  /\ Dispatching("stop")
  /\ LET r == StopVm(kernel, Request.frame.vm_id)
     IN Served(r.k, IF r.ok THEN StateIs(r.k, Request.frame.vm_id) ELSE Error)
  /\ UNCHANGED born

Gone(s) == [born EXCEPT ![s].live = FALSE]

BridgeDelete ==
  /\ Dispatching("delete")
  /\ LET id == Request.frame.vm_id
         r == DeleteVm(kernel, id)
     IN /\ Served(r.k, IF r.ok THEN Deleted(id) ELSE Error)
        /\ born' = IF r.ok THEN Gone(id) ELSE born

Rows(k) == ListedRows({EncodeRow(row) : row \in BuildRows(k, Listed(k))})

BridgeList == Dispatching("list") /\ Served(kernel, Rows(kernel)) /\ UNCHANGED born

BridgeImageLoad ==
  /\ Dispatching("image_load")
  /\ LET f == Request.frame
         r == StageFromHex(kernel, f.bytes_hex, f.len, f.crc32c)
     IN Served(r.k, IF r.ok THEN ImageLoaded(f) ELSE Error)
  /\ UNCHANGED born

(**************************** Loopback kernel *****************************)

\* LoopbackHyperLink::apply: the kernel left and the reply, None for an error.
\* A deleted slot is free again; a start runs to the halt at once.
Loopback(k, f) ==
  LET free == {s \in Slot : k.vm[s] = None}
      in(s, vm) == [k EXCEPT !.vm[s] = vm]
      id == f.vm_id
      fails == [k |-> k, reply |-> None]
  IN CASE f.op = "create" ->
            IF f.label.len > LABEL_MAX \/ free = {} THEN fails
            ELSE [k |-> [in(Min(free), NewVm(0, 0)) EXCEPT !.meta[Min(free)] = [label |-> f.label, crc |-> CrcWanted(f)]],
                  reply |-> Created(Min(free))]
       [] f.op = "start" ->
            IF ~Allocated(k, id) \/ k.vm[id].state # "created" THEN fails
            ELSE LET done == in(id, [k.vm[id] EXCEPT !.state = "halted", !.exit = EXIT_REASON_HLT])
                 IN [k |-> done, reply |-> StateIs(done, id)]
       [] f.op = "stop" -> IF ~Allocated(k, id) THEN fails
                           ELSE [k |-> Stop(k, id), reply |-> StateIs(Stop(k, id), id)]
       [] f.op = "delete" ->
            IF ~Allocated(k, id) \/ k.vm[id].state \notin Terminal THEN fails
            ELSE [k |-> in(id, None), reply |-> Deleted(id)]
       [] f.op = "list" -> [k |-> k, reply |-> Rows(k)]
       [] f.op = "image_load" ->
            IF f.bytes_hex.len # f.len \/ f.len \notin 1..MAX_IMAGE_BYTES \/ Crc32c(f.bytes_hex) # f.crc32c
            THEN fails ELSE [k |-> k, reply |-> ImageLoaded(f)]

\* serve: a line that is too long or does not parse, and every error of the
\* kernel behind it, closes the connection.
Readable(f) == FrameLen(f) <= SERVE_FRAME /\ "op" \in DOMAIN f /\ Needs[f.op] \subseteq DOMAIN f

EmulatorServe ==
  /\ kernel.phase = "emulator" /\ link.open /\ link.toKernel # <<>>
  /\ LET f == Request.frame
         r == IF Readable(f) THEN Loopback(kernel, f) ELSE [k |-> kernel, reply |-> None]
     IN /\ kernel' = r.k
        /\ link' = [link EXCEPT !.open = r.reply # None, !.toKernel = IF r.reply = None THEN <<>> ELSE Tail(@),
                                !.toHost = IF r.reply = None THEN @ ELSE Append(@, Answer(Request.no, r.reply))]
        /\ born' = IF r.reply = None THEN born
                   ELSE IF r.reply.reply = "created" THEN BornIn(r.reply.vm_id, Request.policy)
                   ELSE IF r.reply.reply = "deleted" THEN Gone(r.reply.vm_id) ELSE born
  /\ UNCHANGED <<kind, boot, caller, host, noise, late, seen>>

(******************************* Host adapter *****************************)

Op(c) == Head(caller[c].todo)
Booted == kernel.phase \in {"bridge", "halted", "emulator"} \/ (kernel.phase = "guest" /\ kernel.serving.no > 0)
\* Callers come when the boot is over: until then a request would only wait.
Ready(c) == Booted /\ caller[c].pc = "idle" /\ caller[c].todo # <<>>
OnHost == UNCHANGED <<kind, boot, kernel, born>>

\* The requests of an operation.
FramesOf(op) ==
  CASE op = "create" -> {CreateFrame(a.label, a.crc) : a \in Ask}
    [] op = "stage" -> {ImageFrame(i) : i \in {i \in Image : Loadable(i)}}
    [] op = "snapshot" -> {ListFrame}
    [] op \in {"start", "stop", "delete"} -> {VmFrame(op, id) : id \in Named}

\* Fault: calls are written without waiting for the link.
MayWriteAnyTime(c) == Ready(c) /\ Op(c) \in Calls
\* SerialHyperLink::call: the link's mutex is free.
MayWrite(c) == Ready(c) /\ Op(c) \in Calls /\ link.lock = None

\* The first half of a call: the request is written; the line may damage it.
Write(c) ==
  /\ MayWrite(c)
  /\ \E frame \in FramesOf(Op(c)) :
     \E sent \in {frame} \cup IF noise > 0 THEN Noisy(frame) ELSE {} :
       LET no == link.sent + 1 IN
       /\ noise' = IF sent = frame THEN noise ELSE noise - 1
       /\ link' = [link EXCEPT !.lock = c, !.sent = no,
                     !.toKernel = IF link.open THEN Append(@, [no |-> no, frame |-> sent, policy |-> Policy[c]]) ELSE @]
       /\ caller' = [caller EXCEPT ![c] = [@ EXCEPT !.pc = "sent", !.no = no, !.frame = frame, !.at = born]]
  /\ UNCHANGED <<host, late, seen>> /\ OnHost

\* The call is over: the mutex is released and the caller has its answer.
Got(c, answer, rest) ==
  /\ caller' = [caller EXCEPT ![c] = [@ EXCEPT !.pc = "got", !.got = answer]]
  /\ link' = [link EXCEPT !.lock = None, !.toHost = rest]
  /\ UNCHANGED <<host, noise>> /\ OnHost

\* The second half: the next line of the stream, whatever it answers, or the
\* end of the stream.
ReadLine(c) ==
  /\ caller[c].pc = "sent" /\ link.toHost # <<>>
  /\ Got(c, Head(link.toHost), Tail(link.toHost))
  /\ seen' = Head(link.toHost).of
  /\ UNCHANGED late
PeerClosed(c) ==
  /\ caller[c].pc = "sent" /\ link.toHost = <<>> /\ ~link.open
  /\ Got(c, Closed, <<>>)
  /\ UNCHANGED <<late, seen>>

\* Fault: the timer starts with the first byte of the reply.
ExpiresOnceBegun(c) == caller[c].pc = "sent" /\ link.toHost # <<>>
\* CALL_TIMEOUT passes.
Expires(c) == caller[c].pc = "sent"

\* A call times out.  When part of the reply has been read, the rest of it
\* stays behind as a line of its own.
TimeOut(c) ==
  /\ Expires(c)
  /\ \/ Got(c, Closed, link.toHost)
     \/ /\ link.toHost # <<>> /\ Head(link.toHost).line # Closed
        /\ Got(c, Closed, <<[Head(link.toHost) EXCEPT !.line = Closed]>> \o Tail(link.toHost))
  /\ late' = TRUE
  /\ UNCHANGED seen

\* handle, snapshot and stage_image after the call: what an answer of the kind
\* expected does to the adapter; every other answer is an error and does nothing
\* but empty the snapshot.
Done(c) == caller' = [caller EXCEPT ![c] = Idle(Tail(@.todo))]
Without(f, x) == [y \in DOMAIN f \ {x} |-> f[y]]
Lookup(f, x, default) == IF x \in DOMAIN f THEN f[x] ELSE default

\* remember and forget.
Remember(h, id, label, policy) ==
  [h EXCEPT !.labels = SetIn(@, id, label), !.policies = SetIn(@, id, policy)]
Forget(h, id) == [h EXCEPT !.labels = Without(@, id), !.policies = Without(@, id)]

\* The RemoteVm rows of snapshot.
Published(h, answer) ==
  {LET row == DecodeRow(f) IN
     [vm_id |-> row.vm_id, state |-> row.state, gen |-> answer.gens[row.vm_id],
      label |-> IF row.label.len = 0 THEN Lookup(h.labels, row.vm_id, NoLabel) ELSE row.label,
      policy |-> Lookup(h.policies, row.vm_id, DefaultPolicy)] : f \in answer.line.rows}

Conclude(c) ==
  /\ caller[c].pc = "got"
  /\ LET me == caller[c]
         line == IF me.got = Closed THEN Closed ELSE me.got.line
         says(r) == line.reply = r
     IN host' = CASE Op(c) = "create" /\ says("created") -> Remember(host, line.vm_id, me.frame.label, Policy[c])
                  [] Op(c) = "delete" /\ says("deleted") -> Forget(host, line.vm_id)
                  [] Op(c) = "snapshot" -> [host EXCEPT !.at = me.at,
                                              !.snap = IF says("listed") THEN Published(host, me.got) ELSE {}]
                  [] OTHER -> host
  /\ Done(c)
  /\ UNCHANGED <<link, noise, late, seen>> /\ OnHost

\* Operations that never reach the kernel: List, what the fallback host or the
\* strict mode answers, and an image stage_image refuses to send.
Local(c) ==
  /\ Ready(c) /\ Op(c) \notin Calls
  /\ Done(c)
  /\ UNCHANGED <<link, host, noise, late, seen>> /\ OnHost

Return(c) == ReadLine(c) \/ PeerClosed(c) \/ TimeOut(c)
KernelStep == \/ BootStart \/ BootCreate \/ BootLaunch \/ BootFinish \/ GuestExit
              \/ BridgeReject \/ BridgeCreate \/ BridgeStart \/ BridgeStop
              \/ BridgeDelete \/ BridgeList \/ BridgeImageLoad \/ EmulatorServe
HostStep == \E c \in Caller : Write(c) \/ Return(c) \/ Conclude(c) \/ Local(c)

\* The callers have nothing left to do.
Finished == (\A c \in Caller : caller[c].pc = "idle" /\ caller[c].todo = <<>>) /\ UNCHANGED vars

Next == KernelStep \/ HostStep \/ Finished

\* The host's tasks run and its timer fires; of the kernel and of the guests
\* nothing is assumed.
Spec == /\ Init /\ [][Next]_vars
        /\ \A c \in Caller : WF_vars(Return(c)) /\ WF_vars(Conclude(c))

(******************************* Properties *******************************)

\* Guests cannot reach each other or the hypervisor: no frame is reached by the
\* page tables of two VMs or holds a VMCS or the VMXON region of any, and the
\* load address of a VM holds the image whose checksum its creator named, or
\* the embedded one (Ept::map_4k, install_first_guest, from_staged_or_embedded;
\* restaging and failed creations come between).
ImageAt(s) == kernel.mem[Translate(kernel.mem, kernel.vm[s].pml4, GUEST_LOAD_PAGE)].data
GuestsIsolated ==
  kind = "metal" =>
    LET vms == {s \in Slot : kernel.vm[s] # None}
        reach == [s \in vms |-> Reach(kernel.mem, kernel.vm[s].pml4)]
        regions == {kernel.vm[s].vmcs : s \in vms} \cup {kernel.vmxon}
    IN /\ Cardinality(regions) = Cardinality(vms) + 1
       /\ \A s \in vms :
            /\ reach[s] \cap regions = {}
            /\ \A t \in vms \ {s} : reach[s] \cap reach[t] = {}
            /\ Translate(kernel.mem, kernel.vm[s].pml4, GUEST_LOAD_PAGE) # 0
            /\ kernel.meta[s] # NoMeta => ImageAt(s) = Embedded \/ kernel.meta[s].crc = Crc32c(ImageAt(s))

\* The kernel and the loopback kernel give their callers the life cycle of
\* VmLifecycle: a VM runs at most once, an exit is recorded on the VM that ran,
\* and neither the state, the exit nor the image of a VM that has ended changes
\* until it is deleted (Vm::transition, on_exit, dispatch_exit on the active VM).
LifeOf(s) ==
  IF kernel.vm[s] = None \/ s \in kernel.deleted
  THEN [state |-> "free", exit |-> None, image |-> None]
  ELSE [state |-> kernel.vm[s].state, exit |-> kernel.vm[s].exit,
        image |-> IF kind = "metal" THEN ImageAt(s) ELSE None]
Lifecycle(s) == INSTANCE VmLifecycle WITH
  life <- LifeOf(s), Image <- Image \cup {None}, NoExit <- None, Halt <- EXIT_REASON_HLT
ImplementsLifecycle ==   \* \A s \in Slot : Lifecycle(s)!Spec, in a form TLC takes
  /\ \A s \in Slot : Lifecycle(s)!Init
  /\ [][\A s \in Slot : LifeOf(s)' # LifeOf(s) => Lifecycle(s)!Next]_<<kind, kernel>>

\* Replies come in the order of the requests, each is read at most once and
\* none before its request was made; as long as no call has timed out, a caller
\* reads the reply to its own request (SerialHyperLink::call, whose replies
\* carry no number: after a timeout the stream may stay behind).
RepliesInOrder ==
  [][\A c \in Caller : ReadLine(c) =>
        /\ seen < seen' /\ seen' <= caller[c].no
        /\ ~late => seen' = caller[c].no]_vars

\* A published row was true: it is of a VM the slot has had, not ahead of what
\* the VM has come to; as long as no call has timed out the VM was there when
\* the snapshot was asked for or came later, and on the kernel, which never
\* reuses a slot, the row has the restart policy its creator asked for, or the
\* default before the adapter has remembered it (snapshot, remember, forget).
Rank(state) == IF state \in Terminal THEN 2 ELSE IF state = "running" THEN 1 ELSE 0
SnapshotWasTrue ==
  \A r \in host.snap :
    LET b == born[r.vm_id]  a == host.at[r.vm_id]
    IN /\ r.gen <= b.gen
       /\ r.gen = b.gen /\ b.live => Rank(r.state) <= Rank(kernel.vm[r.vm_id].state)
       /\ ~late => r.gen > a.gen \/ (r.gen = a.gen /\ a.live)
       /\ ~late /\ kind = "metal" => r.policy \in {b.policy, DefaultPolicy}

\* Every call returns: a kernel that has halted, a guest that never exits, a
\* request that is dropped and a closed connection do not hold a caller or the
\* link forever (the timeout of SerialHyperLink::call).
CallsReturn == \A c \in Caller : caller[c].pc = "sent" ~> caller[c].pc = "idle"
=============================================================================
