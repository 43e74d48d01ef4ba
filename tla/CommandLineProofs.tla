------------------------- MODULE CommandLineProofs --------------------------
(***************************************************************************)
(* Proofs about the commands of celctl, for any number of processes and    *)
(* scripts.  `celctl vm`: what a save may do to the state file.            *)
(* `celctl tenant`: revoked tokens stay out of the store's file, and a     *)
(* record that is cut short costs the audit log at most one other event.   *)
(***************************************************************************)
EXTENDS Celctl, TenantCli, FiniteSetTheorems, WellFoundedInduction, TLAPS

---------------------------------------------------------------------------
(* `celctl vm`: the inductive invariant. *)

\* A slot is free or a VmRecord; nothing is known of a digest.
SlotOK(x) ==
  x = NoVm \/ /\ x = [state |-> x.state, image |-> x.image, crc |-> x.crc]
              /\ x.state \in {"created", "halted", "stopped"}

Table(m) == m = [v \in Vm |-> m[v]] /\ \A v \in Vm : SlotOK(m[v])

\* n is m after one command: at most one slot differs, and a recorded digest is kept.
Kin(m, n) ==
  /\ \A v, w \in Vm : n[v] # m[v] /\ n[w] # m[w] => v = w
  /\ \A v \in Vm : m[v] # NoVm /\ n[v] # NoVm /\ m[v].crc # NoCrc => n[v].crc = m[v].crc

CtlPcs == {"idle", "run", "look", "detect", "open", "blob", "sink", "save"}

\* The fields of a process; kind, dig, sent and sum are whatever the images lead to.
Shaped(x) ==
  /\ DOMAIN x = {"script", "pc", "cmd", "mem", "base", "kind", "dig", "sent", "sum"}
  /\ x.script \in Seq(CtlCommand)
  /\ x.pc \in CtlPcs
  /\ x.base \in Nat

CtlType ==
  /\ Table(disk)
  /\ saves \in Nat
  /\ DOMAIN ctl = Proc
  /\ \A p \in Proc : Shaped(ctl[p])

\* Where a command can be, by what it does.
RightPc(x) ==
  /\ x.cmd \in CtlCommand
  /\ x.pc \in {"look", "blob", "sink"} => x.cmd.op = "start"
  /\ x.pc = "run" => x.cmd.op \in VmOps \ {"start"}
  /\ x.pc \in {"detect", "open"} => x.cmd.op \in ImageOps \cup {"create", "start"}
  /\ x.pc = "save" => x.cmd.op \in VmOps

\* What a process knows of its copy m of the table, the file being d, written n times.
\* A copy is the file's as long as nobody else has saved; the one that is about to be
\* saved is one command away from it.
CopyOK(x, d, n) ==
  /\ x.base <= n
  /\ x.cmd.op \in VmOps => Table(x.mem)
  /\ x.pc # "save" /\ x.cmd.op \in VmOps /\ x.base = n => x.mem = d
  /\ x.pc \in {"detect", "open", "blob", "sink"} /\ x.cmd.op = "start" => Startable(x.mem, x.cmd.vm)
  /\ x.pc = "sink" => ~Drifted(x.mem, x.cmd.vm, x.dig)
  /\ x.pc = "save" /\ x.base = n => Kin(d, x.mem)

ProcOK(x, d, n) == x.pc # "idle" => RightPc(x) /\ CopyOK(x, d, n)

CtlInv == CtlType /\ \A p \in Proc : ProcOK(ctl[p], disk, saves)

---------------------------------------------------------------------------
(* Lemmas about the operations. *)

\* A set of slots has a first one.
LEMMA FirstSlot ==
  ASSUME NEW free \in SUBSET Vm, free # {}
  PROVE  \E x \in free : \A y \in free : x <= y
<1>1. free \subseteq Nat
  BY CelctlAssumption DEF Vm
<1>2. PICK x \in free : \A y \in free : <<y, x>> \notin OpToRel(<, Nat)
  BY <1>1, NatLessThanWellFounded, WFMin
<1>3. OpToRel(<, Nat) = {ss \in Nat \X Nat : ss[1] < ss[2]}
  BY DEF OpToRel
<1>4. \A y \in free : ~(y < x)
  BY <1>1, <1>2, <1>3
<1>. QED BY <1>1, <1>4

\* A table with one slot replaced.
LEMMA ReplaceSlot ==
  ASSUME NEW m, Table(m), NEW v \in Vm, NEW x, SlotOK(x),
         m[v] # NoVm /\ x # NoVm /\ m[v].crc # NoCrc => x.crc = m[v].crc
  PROVE  Table([m EXCEPT ![v] = x]) /\ Kin(m, [m EXCEPT ![v] = x])
<1>. DEFINE n == [m EXCEPT ![v] = x]
<1>1. n = [w \in Vm |-> n[w]] /\ n[v] = x /\ \A w \in Vm \ {v} : n[w] = m[w]
  BY DEF Table
<1>2. Table(n)
  BY <1>1 DEF Table
<1>. HIDE DEF n
<1>3. Kin(m, n)
  BY <1>1 DEF Kin
<1>. QED BY <1>2, <1>3 DEF n

LEMMA SameTable ==
  ASSUME NEW m, Table(m)
  PROVE  Kin(m, m)
  BY DEF Kin

\* What an allocated slot holds.
LEMMA SlotFacts ==
  ASSUME NEW m, Table(m), NEW v, Allocated(m, v)
  PROVE  /\ v \in Vm /\ m[v] # NoVm /\ SlotOK(m[v])
         /\ m[v] = [state |-> m[v].state, image |-> m[v].image, crc |-> m[v].crc]
         /\ m[v].state \in {"created", "halted", "stopped"}
  BY DEF Allocated, Table, SlotOK

\* A command changes one VM and keeps its digest.
LEMMA PerformFacts ==
  ASSUME NEW m, Table(m), NEW c \in CtlCommand, c.op \in VmOps \ {"start"}, Perform(m, c).ok
  PROVE  Table(Perform(m, c).mem) /\ Kin(m, Perform(m, c).mem)
<1>. DEFINE r == Perform(m, c)
            v == c.vm
<1>1. CASE c.op = "create"
  <2>. DEFINE free == {x \in Vm : m[x] = NoVm}
              s == CHOOSE x \in free : \A y \in free : x <= y
              new == [state |-> "created", image |-> c.image, crc |-> NoCrc]
  <2>1. r = CreateVm(m, c)
    BY <1>1 DEF Perform
  <2>2. free # {} /\ r = Done([m EXCEPT ![s] = new])
    BY <2>1 DEF CreateVm, Refused, Done
  <2>3. s \in free
    BY <2>2, FirstSlot
  <2>4. s \in Vm /\ m[s] = NoVm /\ SlotOK(new)
    BY <2>3 DEF SlotOK
  <2>. HIDE DEF s, new
  <2>5. Table([m EXCEPT ![s] = new]) /\ Kin(m, [m EXCEPT ![s] = new])
    BY <2>4, ReplaceSlot
  <2>6. r.mem = [m EXCEPT ![s] = new]
    BY <2>2 DEF Done
  <2>. QED BY <2>5, <2>6
<1>2. CASE c.op = "show"
  BY <1>2, SameTable DEF Perform, Done
<1>3. CASE c.op \in {"reset", "stop", "delete"}
  <2>1. Allocated(m, v)
    BY <1>3 DEF Perform, Refused
  <2>2. /\ v \in Vm /\ m[v] # NoVm /\ SlotOK(m[v])
        /\ m[v] = [state |-> m[v].state, image |-> m[v].image, crc |-> m[v].crc]
    BY <2>1, SlotFacts
  <2>3. ASSUME NEW st \in {"created", "stopped"}
        PROVE  Table([m EXCEPT ![v].state = st]) /\ Kin(m, [m EXCEPT ![v].state = st])
    <3>. DEFINE x == [state |-> st, image |-> m[v].image, crc |-> m[v].crc]
    <3>1. [m[v] EXCEPT !.state = st] = x
      BY <2>2
    <3>2. [m EXCEPT ![v].state = st] = [m EXCEPT ![v] = x]
      BY <3>1
    <3>3. SlotOK(x) /\ x.crc = m[v].crc
      BY DEF SlotOK
    <3>. HIDE DEF x
    <3>. QED BY <2>2, <3>2, <3>3, ReplaceSlot
  <2>4. CASE c.op = "reset"
    <3>1. r = Done([m EXCEPT ![v].state = "created"])
      BY <2>1, <2>4 DEF Perform, ResetVm, Refused
    <3>. QED BY <2>3, <3>1 DEF Done
  <2>5. CASE c.op = "stop"
    <3>1. r = Done(m) \/ r = Done([m EXCEPT ![v].state = "stopped"])
      BY <2>1, <2>5 DEF Perform, StopVm
    <3>. QED BY <2>3, <3>1, SameTable DEF Done
  <2>6. CASE c.op = "delete"
    <3>1. r = Done([m EXCEPT ![v] = NoVm]) /\ SlotOK(NoVm)
      BY <2>1, <2>6 DEF Perform, DeleteVm, Refused, SlotOK
    <3>2. Table([m EXCEPT ![v] = NoVm]) /\ Kin(m, [m EXCEPT ![v] = NoVm])
      BY <2>2, <3>1, ReplaceSlot
    <3>3. r.mem = [m EXCEPT ![v] = NoVm]
      BY <3>1 DEF Done
    <3>. QED BY <3>2, <3>3
  <2>. QED BY <1>3, <2>4, <2>5, <2>6
<1>. QED BY <1>1, <1>2, <1>3 DEF VmOps

\* A start keeps the digest too, because an image that is not the recorded one is refused.
LEMMA StartedFacts ==
  ASSUME NEW m, Table(m), NEW v, Startable(m, v), NEW d, d = NoCrc \/ ~Drifted(m, v, d)
  PROVE  Table(Started(m, v, d)) /\ Kin(m, Started(m, v, d))
<1>1. /\ v \in Vm /\ m[v] # NoVm /\ SlotOK(m[v])
      /\ m[v] = [state |-> m[v].state, image |-> m[v].image, crc |-> m[v].crc]
  BY SlotFacts DEF Startable
<1>. DEFINE k == IF d = NoCrc THEN m[v].crc ELSE d
            x == [state |-> "halted", image |-> m[v].image, crc |-> k]
<1>2. Started(m, v, d) = [m EXCEPT ![v] = [m[v] EXCEPT !.state = "halted", !.crc = k]]
  BY <1>1 DEF Started, Table
<1>3. m[v].crc # NoCrc => k = m[v].crc
  BY DEF Drifted
<1>. HIDE DEF k
<1>4. [m[v] EXCEPT !.state = "halted", !.crc = k] = x
  <2>. DEFINE y == [m[v] EXCEPT !.state = "halted"]
  <2>1. y = [state |-> "halted", image |-> m[v].image, crc |-> m[v].crc]
    BY <1>1
  <2>2. [m[v] EXCEPT !.state = "halted", !.crc = k] = [y EXCEPT !.crc = k]
    OBVIOUS
  <2>. HIDE DEF y
  <2>3. [y EXCEPT !.crc = k] = x
    BY <2>1
  <2>. QED BY <2>2, <2>3
<1>5. SlotOK(x) /\ x.crc = k
  BY DEF SlotOK
<1>. HIDE DEF x
<1>6. Table([m EXCEPT ![v] = x]) /\ Kin(m, [m EXCEPT ![v] = x])
  BY <1>1, <1>3, <1>5, ReplaceSlot
<1>. QED BY <1>2, <1>4, <1>6

---------------------------------------------------------------------------
(* Every step keeps the invariant. *)

\* A process between two commands.
LEMMA IdleFacts ==
  ASSUME NEW script \in Seq(CtlCommand)
  PROVE  Shaped(Idle(script)) /\ Idle(script).pc = "idle"
  BY DEF Idle, Shaped, CtlPcs

LEMMA InitCtl == CInit => CtlInv
<1>. SUFFICES ASSUME NEW plan \in Plans,
                     disk = [v \in Vm |-> NoVm], saves = 0,
                     ctl = [p \in Proc |-> Idle(plan.scripts[p])]
              PROVE  CtlInv
  BY DEF CInit
<1>1. plan.scripts \in [Proc -> Seq(CtlCommand)]
  BY PlansAssumption
<1>2. \A p \in Proc : Shaped(ctl[p]) /\ ctl[p].pc = "idle"
  BY <1>1, IdleFacts
<1>3. Table(disk)
  BY DEF Table, SlotOK
<1>. QED BY <1>2, <1>3 DEF CtlInv, CtlType, ProcOK

\* A step of one process that saves nothing.
LEMMA QuietStep ==
  ASSUME CtlInv, NEW p \in Proc, NEW q, ctl' = [ctl EXCEPT ![p] = q], UNCHANGED <<disk, saves>>,
         Shaped(q), ProcOK(q, disk, saves)
  PROVE  CtlInv'
<1>1. /\ DOMAIN ctl' = Proc /\ ctl'[p] = q
      /\ \A x \in Proc \ {p} : ctl'[x] = ctl[x]
  BY DEF CtlInv, CtlType
<1>2. CtlType'
  BY <1>1 DEF CtlInv, CtlType
<1>3. \A x \in Proc : ProcOK(ctl'[x], disk, saves)
  BY <1>1 DEF CtlInv
<1>. QED BY <1>2, <1>3 DEF CtlInv

\* A command ends, by itself or not, and has saved nothing.
LEMMA EndStep ==
  ASSUME CtlInv, NEW p \in Proc, ctl' = End(p), UNCHANGED <<disk, saves>>
  PROVE  CtlInv'
<1>. DEFINE q == Idle(ctl[p].script)
<1>1. ctl' = [ctl EXCEPT ![p] = q]
  BY DEF End
<1>2. Shaped(q) /\ q.pc = "idle"
  BY IdleFacts DEF CtlInv, CtlType, Shaped
<1>. HIDE DEF q
<1>3. ProcOK(q, disk, saves)
  BY <1>2 DEF ProcOK
<1>. QED BY <1>1, <1>2, <1>3, QuietStep

\* What the invariant says of one process.
LEMMA CtlFacts ==
  ASSUME CtlInv, NEW p \in Proc
  PROVE  /\ Shaped(ctl[p]) /\ DOMAIN ctl = Proc /\ Table(disk) /\ saves \in Nat
         /\ ctl[p].base \in Nat /\ ctl[p].script \in Seq(CtlCommand)
         /\ ctl[p].pc # "idle" => RightPc(ctl[p]) /\ CopyOK(ctl[p], disk, saves)
  BY DEF CtlInv, CtlType, ProcOK, Shaped

\* A process that only goes on; what it may then do follows from what it is.
LEMMA GotoFacts ==
  ASSUME CtlInv, NEW p \in Proc, NEW pc \in CtlPcs
  PROVE  LET q == [ctl[p] EXCEPT !.pc = pc]
         IN /\ Goto(p, pc) = [ctl EXCEPT ![p] = q]
            /\ Shaped(q) /\ q.pc = pc /\ q.cmd = ctl[p].cmd /\ q.mem = ctl[p].mem
            /\ q.base = ctl[p].base /\ q.dig = ctl[p].dig
  BY CtlFacts DEF Goto, Shaped

\* The copy becomes n, one command away from what it was, and is saved next.
LEMMA ReadyToSave ==
  ASSUME CtlInv, NEW p \in Proc, ctl[p].pc \notin {"idle", "save"}, ctl[p].cmd.op \in VmOps,
         NEW n, Table(n), Kin(ctl[p].mem, n), UNCHANGED <<disk, saves>>,
         NEW q, ctl' = [ctl EXCEPT ![p] = q], Shaped(q), q.pc = "save",
         q.cmd = ctl[p].cmd, q.mem = n, q.base = ctl[p].base
  PROVE  CtlInv'
<1>1. RightPc(ctl[p]) /\ CopyOK(ctl[p], disk, saves)
  BY CtlFacts
<1>2. RightPc(q)
  BY <1>1 DEF RightPc
<1>3. CopyOK(q, disk, saves)
  BY <1>1 DEF CopyOK
<1>. QED BY <1>2, <1>3, QuietStep DEF ProcOK

LEMMA BeginKeeps ==
  ASSUME CtlInv, NEW p \in Proc, Begin(p)
  PROVE  CtlInv'
<1>. DEFINE c == Head(ctl[p].script)
            script == Tail(ctl[p].script)
            first == CASE c.op = "start"                                    -> "look"
                       [] c.op \in ImageOps \/ (c.op = "create" /\ c.image) -> "detect"
                       [] OTHER                                             -> "run"
            m == IF c.op \in VmOps THEN Loaded ELSE <<>>
            q == [Idle(script) EXCEPT !.pc = first, !.cmd = c, !.base = saves, !.mem = m]
<1>1. /\ ctl[p].script # <<>> /\ UNCHANGED <<disk, saves>> /\ ctl' = [ctl EXCEPT ![p] = q]
  BY DEF Begin, files
<1>2. c \in CtlCommand /\ script \in Seq(CtlCommand) /\ saves \in Nat /\ Table(disk)
  BY <1>1, CtlFacts
<1>3. /\ first \in {"look", "detect", "run"}
      /\ first = "look" => c.op = "start"
      /\ first = "detect" => c.op \in ImageOps \cup {"create"}
      /\ first = "run" => c.op \in VmOps \ {"start"}
  BY <1>2 DEF CtlCommand, VmOps, ImageOps
<1>4. c.op \in VmOps => m = disk
  BY DEF Loaded
<1>. HIDE DEF c, first, m
<1>5. /\ Shaped(q) /\ q.pc = first /\ q.cmd = c /\ q.mem = m /\ q.base = saves
  BY <1>2, <1>3 DEF Idle, Shaped, CtlPcs
<1>. HIDE DEF q
<1>6. RightPc(q)
  BY <1>2, <1>3, <1>5 DEF RightPc
<1>7. CopyOK(q, disk, saves)
  BY <1>2, <1>3, <1>4, <1>5 DEF CopyOK, ImageOps
<1>. QED BY <1>1, <1>5, <1>6, <1>7, QuietStep DEF ProcOK

LEMMA RunKeeps ==
  ASSUME CtlInv, NEW p \in Proc, Run(p)
  PROVE  CtlInv'
<1>. DEFINE r == Perform(ctl[p].mem, ctl[p].cmd)
<1>1. ctl[p].pc = "run" /\ UNCHANGED <<disk, saves>>
  BY DEF Run, At, files
<1>2. /\ ctl[p].cmd \in CtlCommand /\ ctl[p].cmd.op \in VmOps \ {"start"} /\ Table(ctl[p].mem)
  BY <1>1, CtlFacts DEF RightPc, CopyOK
<1>3. CASE r.ok
  <2>1. Table(r.mem) /\ Kin(ctl[p].mem, r.mem)
    BY <1>2, <1>3, PerformFacts
  <2>2. ctl' = [[ctl EXCEPT ![p].pc = "save"] EXCEPT ![p].mem = r.mem]
    BY <1>3 DEF Run, Goto
  <2>. HIDE DEF r
  <2>. DEFINE q == [ctl[p] EXCEPT !.pc = "save", !.mem = r.mem]
  <2>3. ctl' = [ctl EXCEPT ![p] = q]
    BY <2>2, CtlFacts
  <2>4. Shaped(q) /\ q.pc = "save" /\ q.cmd = ctl[p].cmd /\ q.mem = r.mem /\ q.base = ctl[p].base
    BY CtlFacts DEF Shaped, CtlPcs
  <2>. HIDE DEF q
  <2>. QED BY <1>1, <1>2, <2>1, <2>3, <2>4, ReadyToSave
<1>4. CASE ~r.ok
  BY <1>1, <1>4, EndStep DEF Run
<1>. QED BY <1>3, <1>4

\* start_vm's end, wherever it is reached from.
LEMMA StartedKeeps ==
  ASSUME CtlInv, NEW p \in Proc, ctl[p].pc \in {"look", "blob", "sink"},
         Startable(ctl[p].mem, ctl[p].cmd.vm),
         NEW d, d = NoCrc \/ ~Drifted(ctl[p].mem, ctl[p].cmd.vm, d),
         UNCHANGED <<disk, saves>>,
         \/ ctl' = [Goto(p, "save") EXCEPT ![p].mem = Started(ctl[p].mem, ctl[p].cmd.vm, d)]
         \/ \E s : ctl' = [Goto(p, "save") EXCEPT ![p].mem = Started(ctl[p].mem, ctl[p].cmd.vm, d),
                                                  ![p].sent = s]
  PROVE  CtlInv'
<1>. DEFINE n == Started(ctl[p].mem, ctl[p].cmd.vm, d)
<1>1. ctl[p].cmd.op \in VmOps /\ Table(ctl[p].mem)
  BY CtlFacts DEF RightPc, CopyOK, VmOps
<1>2. Table(n) /\ Kin(ctl[p].mem, n)
  BY <1>1, StartedFacts
<1>. HIDE DEF n
<1>3. CASE ctl' = [Goto(p, "save") EXCEPT ![p].mem = n]
  <2>. DEFINE q == [ctl[p] EXCEPT !.pc = "save", !.mem = n]
  <2>1. ctl' = [ctl EXCEPT ![p] = q]
    BY <1>3, CtlFacts DEF Goto
  <2>2. Shaped(q) /\ q.pc = "save" /\ q.cmd = ctl[p].cmd /\ q.mem = n /\ q.base = ctl[p].base
    BY CtlFacts DEF Shaped, CtlPcs
  <2>. HIDE DEF q
  <2>. QED BY <1>1, <1>2, <2>1, <2>2, ReadyToSave
<1>4. ASSUME NEW s, ctl' = [Goto(p, "save") EXCEPT ![p].mem = n, ![p].sent = s] PROVE CtlInv'
  <2>. DEFINE q == [ctl[p] EXCEPT !.pc = "save", !.mem = n, !.sent = s]
  <2>1. ctl' = [ctl EXCEPT ![p] = q]
    BY <1>4, CtlFacts DEF Goto
  <2>2. Shaped(q) /\ q.pc = "save" /\ q.cmd = ctl[p].cmd /\ q.mem = n /\ q.base = ctl[p].base
    BY CtlFacts DEF Shaped, CtlPcs
  <2>. HIDE DEF q
  <2>. QED BY <1>1, <1>2, <2>1, <2>2, ReadyToSave
<1>. QED BY <1>3, <1>4 DEF n

LEMMA LookKeeps ==
  ASSUME CtlInv, NEW p \in Proc, Look(p)
  PROVE  CtlInv'
<1>. DEFINE m == ctl[p].mem
            v == ctl[p].cmd.vm
<1>1. ctl[p].pc = "look" /\ UNCHANGED <<disk, saves>>
  BY DEF Look, At, files
<1>2. RightPc(ctl[p]) /\ CopyOK(ctl[p], disk, saves)
  BY <1>1, CtlFacts
<1>3. CASE ~Startable(m, v)
  BY <1>1, <1>3, EndStep DEF Look
<1>4. CASE Startable(m, v) /\ m[v].image
  <2>. DEFINE q == [ctl[p] EXCEPT !.pc = "detect"]
  <2>1. ctl' = Goto(p, "detect")
    BY <1>4 DEF Look
  <2>2. /\ ctl' = [ctl EXCEPT ![p] = q] /\ Shaped(q) /\ q.pc = "detect" /\ q.cmd = ctl[p].cmd
        /\ q.mem = m /\ q.base = ctl[p].base
    BY <2>1, GotoFacts DEF CtlPcs
  <2>. HIDE DEF q
  <2>3. RightPc(q) /\ CopyOK(q, disk, saves)
    BY <1>1, <1>2, <1>4, <2>2 DEF RightPc, CopyOK
  <2>. QED BY <1>1, <2>2, <2>3, QuietStep DEF ProcOK
<1>5. CASE Startable(m, v) /\ ~m[v].image
  BY <1>1, <1>5, StartedKeeps DEF Look
<1>. QED BY <1>3, <1>4, <1>5

LEMMA DetectKeeps ==
  ASSUME CtlInv, NEW p \in Proc, Detect(p)
  PROVE  CtlInv'
<1>1. ctl[p].pc = "detect" /\ UNCHANGED <<disk, saves>>
  BY DEF Detect, At, files
<1>2. RightPc(ctl[p]) /\ CopyOK(ctl[p], disk, saves)
  BY <1>1, CtlFacts
<1>3. CASE Detects(image.file)
  <2>. DEFINE q == [ctl[p] EXCEPT !.pc = "open", !.kind = image.file.magic]
  <2>1. ctl' = [ctl EXCEPT ![p] = q]
    BY <1>3, CtlFacts DEF Detect, Goto
  <2>2. /\ Shaped(q) /\ q.pc = "open" /\ q.cmd = ctl[p].cmd /\ q.mem = ctl[p].mem /\ q.base = ctl[p].base
    BY CtlFacts DEF Shaped, CtlPcs
  <2>. HIDE DEF q
  <2>3. RightPc(q) /\ CopyOK(q, disk, saves)
    BY <1>1, <1>2, <2>2 DEF RightPc, CopyOK
  <2>. QED BY <1>1, <2>1, <2>2, <2>3, QuietStep DEF ProcOK
<1>4. CASE ~Detects(image.file)
  BY <1>1, <1>4, EndStep DEF Detect
<1>. QED BY <1>3, <1>4

LEMMA OpenImageKeeps ==
  ASSUME CtlInv, NEW p \in Proc, OpenImage(p)
  PROVE  CtlInv'
<1>. DEFINE k == ctl[p].kind
            f == image.file
            op == ctl[p].cmd.op
<1>1. ctl[p].pc = "open" /\ UNCHANGED <<disk, saves>>
  BY DEF OpenImage, At, files
<1>2. RightPc(ctl[p]) /\ CopyOK(ctl[p], disk, saves)
  BY <1>1, CtlFacts
<1>3. op \in {"inspect", "checksum", "create", "start"}
  BY <1>1, <1>2 DEF RightPc, ImageOps
<1>4. CASE ctl' = End(p)
  BY <1>1, <1>4, EndStep
<1>5. CASE op = "create" /\ ctl' = Goto(p, "run")
  <2>. DEFINE q == [ctl[p] EXCEPT !.pc = "run"]
  <2>1. /\ ctl' = [ctl EXCEPT ![p] = q] /\ Shaped(q) /\ q.pc = "run" /\ q.cmd = ctl[p].cmd
        /\ q.mem = ctl[p].mem /\ q.base = ctl[p].base
    BY <1>5, GotoFacts DEF CtlPcs
  <2>. HIDE DEF q
  <2>2. RightPc(q) /\ CopyOK(q, disk, saves)
    BY <1>1, <1>2, <1>5, <2>1 DEF RightPc, CopyOK, VmOps
  <2>. QED BY <1>1, <2>1, <2>2, QuietStep DEF ProcOK
<1>6. ASSUME NEW u, ctl' = [End(p) EXCEPT ![p].sum = u] PROVE CtlInv'
  <2>. DEFINE q == [Idle(ctl[p].script) EXCEPT !.sum = u]
  <2>1. ctl' = [ctl EXCEPT ![p] = q]
    BY <1>6, CtlFacts DEF End
  <2>2. Shaped(q) /\ q.pc = "idle"
    BY CtlFacts DEF Idle, Shaped, CtlPcs
  <2>. HIDE DEF q
  <2>. QED BY <1>1, <2>1, <2>2, QuietStep DEF ProcOK
<1>7. ASSUME NEW u, op = "start", ctl' = [Goto(p, "blob") EXCEPT ![p].dig = u] PROVE CtlInv'
  <2>. DEFINE q == [ctl[p] EXCEPT !.pc = "blob", !.dig = u]
  <2>1. ctl' = [ctl EXCEPT ![p] = q]
    BY <1>7, CtlFacts DEF Goto
  <2>2. /\ Shaped(q) /\ q.pc = "blob" /\ q.cmd = ctl[p].cmd /\ q.mem = ctl[p].mem /\ q.base = ctl[p].base
    BY CtlFacts DEF Shaped, CtlPcs
  <2>. HIDE DEF q
  <2>3. RightPc(q) /\ CopyOK(q, disk, saves)
    BY <1>1, <1>2, <1>7, <2>2 DEF RightPc, CopyOK
  <2>. QED BY <1>1, <2>1, <2>2, <2>3, QuietStep DEF ProcOK
<1>8. \/ ctl' = End(p)
      \/ op = "create" /\ ctl' = Goto(p, "run")
      \/ ctl' = [End(p) EXCEPT ![p].sum = WholeDisk(k, f).units]
      \/ op = "start" /\ ctl' = [Goto(p, "blob") EXCEPT ![p].dig = BootPage(k, f).units]
  BY <1>3 DEF OpenImage
<1>. QED BY <1>4, <1>5, <1>6, <1>7, <1>8

LEMMA BlobKeeps ==
  ASSUME CtlInv, NEW p \in Proc, Blob(p)
  PROVE  CtlInv'
<1>. DEFINE m == ctl[p].mem
            v == ctl[p].cmd.vm
            d == ctl[p].dig
<1>1. ctl[p].pc = "blob" /\ UNCHANGED <<disk, saves>>
  BY DEF Blob, At
<1>2. RightPc(ctl[p]) /\ CopyOK(ctl[p], disk, saves)
  BY <1>1, CtlFacts
<1>3. Startable(m, v)
  BY <1>1, <1>2 DEF RightPc, CopyOK
<1>4. CASE Drifted(m, v, d)
  BY <1>1, <1>4, EndStep DEF Blob
<1>5. CASE ~Drifted(m, v, d) /\ ctl[p].cmd.sink
  <2>. DEFINE q == [ctl[p] EXCEPT !.pc = "sink"]
  <2>1. ctl' = Goto(p, "sink")
    BY <1>5 DEF Blob
  <2>2. /\ ctl' = [ctl EXCEPT ![p] = q] /\ Shaped(q) /\ q.pc = "sink" /\ q.cmd = ctl[p].cmd
        /\ q.mem = m /\ q.base = ctl[p].base /\ q.dig = d
    BY <2>1, GotoFacts DEF CtlPcs
  <2>. HIDE DEF q
  <2>3. RightPc(q) /\ CopyOK(q, disk, saves)
    BY <1>1, <1>2, <1>5, <2>2 DEF RightPc, CopyOK
  <2>. QED BY <1>1, <2>2, <2>3, QuietStep DEF ProcOK
<1>6. CASE ~Drifted(m, v, d) /\ ~ctl[p].cmd.sink
  <2>1. ctl' = [Goto(p, "save") EXCEPT ![p].mem = Started(m, v, d)]
    BY <1>6 DEF Blob
  <2>. QED BY <1>1, <1>3, <1>6, <2>1, StartedKeeps
<1>. QED BY <1>4, <1>5, <1>6

LEMMA SinkKeeps ==
  ASSUME CtlInv, NEW p \in Proc, Sink(p)
  PROVE  CtlInv'
<1>. DEFINE m == ctl[p].mem
            v == ctl[p].cmd.vm
            d == ctl[p].dig
<1>1. ctl[p].pc = "sink" /\ UNCHANGED <<disk, saves>>
  BY DEF Sink, At, files
<1>2. RightPc(ctl[p]) /\ CopyOK(ctl[p], disk, saves)
  BY <1>1, CtlFacts
<1>3. Startable(m, v) /\ ~Drifted(m, v, d)
  BY <1>1, <1>2 DEF RightPc, CopyOK
<1>4. CASE EchoAgrees(blob[v], d)
  <2>1. ctl' = [Goto(p, "save") EXCEPT ![p].mem = Started(m, v, d), ![p].sent = blob[v]]
    BY <1>4 DEF Sink
  <2>. QED BY <1>1, <1>3, <2>1, StartedKeeps
<1>5. CASE ~EchoAgrees(blob[v], d)
  BY <1>1, <1>5, EndStep DEF Sink
<1>. QED BY <1>4, <1>5

\* A save makes every other copy stale.
LEMMA SaveKeeps ==
  ASSUME CtlInv, NEW p \in Proc, Save(p)
  PROVE  CtlInv'
<1>. DEFINE q == Idle(ctl[p].script)
<1>1. ctl[p].pc = "save" /\ disk' = ctl[p].mem /\ saves' = saves + 1 /\ ctl' = [ctl EXCEPT ![p] = q]
  BY DEF Save, At, End
<1>2. Table(disk') /\ saves \in Nat /\ saves' \in Nat
  BY <1>1, CtlFacts DEF RightPc, CopyOK
<1>3. Shaped(q) /\ q.pc = "idle"
  BY CtlFacts, IdleFacts
<1>. HIDE DEF q
<1>4. /\ DOMAIN ctl' = Proc /\ ctl'[p] = q
      /\ \A x \in Proc \ {p} : ctl'[x] = ctl[x]
  BY <1>1, CtlFacts
<1>5. CtlType'
  BY <1>2, <1>3, <1>4 DEF CtlInv, CtlType
<1>6. ASSUME NEW x \in Proc PROVE ProcOK(ctl'[x], disk', saves')
  <2>1. CASE x = p
    BY <1>3, <1>4, <2>1 DEF ProcOK
  <2>2. CASE x # p
    <3>1. ctl'[x] = ctl[x] /\ ctl[x].base \in Nat
      BY <1>4, <2>2, CtlFacts
    <3>2. ctl[x].pc # "idle" => RightPc(ctl[x]) /\ CopyOK(ctl[x], disk, saves)
      BY CtlFacts
    <3>3. ctl[x].base <= saves => ctl[x].base <= saves' /\ ctl[x].base # saves'
      BY <1>1, <1>2, <3>1
    <3>4. CopyOK(ctl[x], disk, saves) => CopyOK(ctl[x], disk', saves')
      BY <3>3 DEF CopyOK
    <3>. QED BY <3>1, <3>2, <3>4 DEF ProcOK
  <2>. QED BY <2>1, <2>2
<1>. QED BY <1>5, <1>6 DEF CtlInv

LEMMA NextCtl == CtlInv /\ [CNext]_cvars => CtlInv'
<1>. SUFFICES ASSUME CtlInv, [CNext]_cvars PROVE CtlInv'
  OBVIOUS
<1>1. ASSUME NEW p \in Proc, Abort(p) PROVE CtlInv'
  BY <1>1, EndStep DEF Abort, files
<1>2. CASE Replace \/ UNCHANGED cvars
  <2>1. UNCHANGED <<disk, saves, ctl>>
    BY <1>2 DEF Replace, files, cvars
  <2>. QED BY <2>1 DEF CtlInv, CtlType
<1>. QED BY <1>1, <1>2, BeginKeeps, RunKeeps, LookKeeps, DetectKeeps, OpenImageKeeps, BlobKeeps,
            SinkKeeps, SaveKeeps DEF CNext

THEOREM CtlInvariance == CSpec => []CtlInv
  BY InitCtl, NextCtl, PTL DEF CSpec

\* A save by a process that loaded the state file after the last save changes one VM at
\* most and keeps every digest that an earlier start recorded, whatever the commands, the
\* images and their replacements are.
THEOREM StaleSavesOnly == CSpec => OnlyStaleSavesForget
<1>. DEFINE A == \A p \in Proc :
       ctl[p].pc = "save" /\ disk' = ctl[p].mem /\ saves' # saves /\ ctl[p].base = saves =>
         /\ \A v, w \in Vm : disk'[v] # disk[v] /\ disk'[w] # disk[w] => v = w
         /\ \A v \in Vm : disk[v] # NoVm /\ disk'[v] # NoVm /\ disk[v].crc # NoCrc
                            => disk'[v].crc = disk[v].crc
<1>1. CtlInv => A
  <2>. SUFFICES ASSUME CtlInv, NEW p \in Proc, ctl[p].pc = "save", disk' = ctl[p].mem,
                       ctl[p].base = saves
                PROVE  Kin(disk, disk')
    BY DEF Kin
  <2>1. Kin(disk, ctl[p].mem)
    BY CtlFacts DEF CopyOK
  <2>. QED BY <2>1
<1>2. CtlInv /\ [CNext]_cvars => [A]_cvars
  BY <1>1
<1>. QED BY CtlInvariance, <1>2, PTL DEF CSpec, OnlyStaleSavesForget

---------------------------------------------------------------------------
(* `celctl tenant`: the inductive invariant. *)

CallNames == {"create", "add", "remove", "password", "authenticate", "mint", "validate",
              "unmint", "revoke", "rotate", "delete", "purge", "charge", "release"}
Note == {"charge", "deny", "exec", "release"}
Ops == CmdOps \cup {"refund", "dryrun", "done", "forget", "session"}
Cmd == [op : Ops, user : User, pw : Nat, after : BOOLEAN, audit : BOOLEAN]
ToStep == [op : Ops, notes : Seq(Note), calls : Seq(CallNames)]
Pcs == {"idle", "open", "call", "create", "write", "rename", "session", "session2", "forget",
        "line", "newline"}

Process ==
  [script : Seq(Command), pc : Pcs, cmd : Cmd \cup {"none"}, calls : Seq(CallNames),
   mem : StoreState, base : Nat, fd : {"none", "tmp", "store", "gone"}, token : Int,
   drops : SUBSET Int, notes : Seq(Note)]

File == StoreState \cup {Missing, Empty, Torn}

TypeInv ==
  /\ store \in File /\ tmp \in File
  /\ session \in Int \cup {Missing, Empty}
  /\ clerk \in [Clerk -> Process]
  /\ minted \in Nat /\ writes \in Nat
  /\ revoked \in SUBSET Int

\* What a process has while it runs; its copy is never newer than the file.
ProcessInv ==
  \A p \in Clerk :
    /\ clerk[p].pc # "idle" => clerk[p].cmd \in Cmd
    /\ clerk[p].pc \in {"line", "newline"} => clerk[p].notes # <<>>
    /\ clerk[p].base <= writes
    /\ clerk[p].pc \notin {"create", "write", "rename"} => clerk[p].drops = {}
    /\ clerk[p].drops \cap Tokens(clerk[p].mem) = {}

\* Every token there is was minted.
TokenInv ==
  /\ \A k \in Tokens(store) \cup Tokens(tmp) \cup revoked : k <= minted
  /\ \A p \in Clerk : \A k \in Tokens(clerk[p].mem) \cup clerk[p].drops : k <= minted

Persisting == {"write", "rename"}

\* As long as no two processes were between create and rename: the one that is has the
\* tmp file to itself, and a copy that is up to date has no token that was revoked.
AloneInv ==
  ~tangled =>
    /\ \A p, q \in Clerk : clerk[p].pc \in Persisting /\ clerk[q].pc \in Persisting => p = q
    /\ \A p \in Clerk : clerk[p].pc \in Persisting => clerk[p].fd = "tmp"
    /\ \A p \in Clerk : clerk[p].pc = "write" => tmp = Empty
    /\ \A p \in Clerk : clerk[p].pc = "rename" => tmp = clerk[p].mem
    /\ store \notin {Empty, Torn}
    /\ revoked \cap Tokens(store) \subseteq revived
    /\ \A p \in Clerk : clerk[p].pc \notin {"idle", "open"} /\ clerk[p].base = writes
                          => revoked \cap Tokens(clerk[p].mem) \subseteq revived

IInv == TypeInv /\ ProcessInv /\ TokenInv /\ AloneInv

---------------------------------------------------------------------------
(* Lemmas about the operators. *)

\* A whole file has the tokens of its sessions.
LEMMA TokenFacts ==
  /\ \A m \in StoreState : Whole(m) /\ m \notin {Missing, Empty, Torn}
                           /\ Tokens(m) = {s[1] : s \in m.sess} /\ Tokens(m) \subseteq Int
  /\ Tokens(Missing) = {} /\ Tokens(Empty) = {} /\ Tokens(Torn) = {}
  /\ Default \in StoreState /\ Tokens(Default) = {}
<1>1. ASSUME NEW m \in StoreState
      PROVE  Whole(m) /\ m \notin {Missing, Empty, Torn}
             /\ Tokens(m) = {s[1] : s \in m.sess} /\ Tokens(m) \subseteq Int
  <2>1. m \notin {Missing, Empty, Torn}
    BY TenantCliAssumption
  <2>2. Whole(m) /\ Tokens(m) = {s[1] : s \in m.sess}
    BY <2>1 DEF Whole, Tokens
  <2>3. m.sess \subseteq Int \X (User \cup {"nobody"})
    BY DEF StoreState
  <2>. QED BY <2>1, <2>2, <2>3
<1>2. Tokens(Missing) = {} /\ Tokens(Empty) = {} /\ Tokens(Torn) = {}
  BY DEF Tokens, Whole
<1>3. Default \in StoreState /\ Default.sess = {}
  BY DEF Default, StoreState
<1>4. Tokens(Default) = {}
  BY <1>1, <1>3
<1>. QED BY <1>1, <1>2, <1>3, <1>4

\* A store call yields a store; only `mint` puts a token into it.
LEMMA StoreCallFacts ==
  ASSUME NEW m \in StoreState, NEW c \in Cmd, NEW call \in CallNames, NEW token \in Int,
         StoreCall(m, call, c, token).ok
  PROVE  LET n == StoreCall(m, call, c, token).mem
         IN /\ n \in StoreState
            /\ \A k \in Tokens(n) : k \in Tokens(m) \/ (call = "mint" /\ k = token)
<1>. DEFINE r == StoreCall(m, call, c, token)
            u == c.user
            T(x) == {s[1] : s \in x.sess}
<1>0. /\ m.live \in BOOLEAN /\ m.users \subseteq User /\ m.pw \in [User -> Nat]
      /\ m.sess \subseteq Int \X (User \cup {"nobody"}) /\ m.used \in Nat
      /\ u \in User /\ c.pw \in Nat
  BY DEF StoreState, Cmd
<1>1. SUFFICES /\ r.mem \in StoreState
               /\ \A k \in T(r.mem) : k \in T(m) \/ (call = "mint" /\ k = token)
  BY TokenFacts
<1>2. CASE call = "create"
  <2>. DEFINE n == [m EXCEPT !.live = TRUE]
  <2>1. r = If(~m.live, m, n)
    BY <1>2 DEF StoreCall
  <2>2. n \in StoreState /\ n.sess \in SUBSET (Int \X (User \cup {"nobody"}))
    BY <1>0 DEF StoreState
  <2>3. \A s \in n.sess : (\E z \in m.sess : s[1] = z[1])
    BY <1>0, <1>2 DEF StoreState
  <2>. HIDE DEF n
  <2>. QED BY <2>1, <2>2, <2>3 DEF If, Yes, No
<1>3. CASE call # "create" /\ ~m.live
  <2>1. r = No(m)
    BY <1>3 DEF StoreCall
  <2>. QED BY <2>1 DEF If, Yes, No
<1>4. CASE call = "add" /\ m.live
  <2>. DEFINE n == [m EXCEPT !.users = @ \cup {u}, !.pw[u] = 0]
  <2>1. r = If(u \notin m.users, m, n)
    BY <1>4 DEF StoreCall
  <2>2. n \in StoreState /\ n.sess \in SUBSET (Int \X (User \cup {"nobody"}))
    BY <1>0 DEF StoreState
  <2>3. \A s \in n.sess : (\E z \in m.sess : s[1] = z[1])
    BY <1>0, <1>4 DEF StoreState
  <2>. HIDE DEF n
  <2>. QED BY <2>1, <2>2, <2>3 DEF If, Yes, No
<1>5. CASE call = "remove" /\ m.live
  <2>. DEFINE n == [m EXCEPT !.users = @ \ {u}, !.sess = @ \ SessionsOf(m, {u})]
  <2>1. r = If(u \in m.users, m, n)
    BY <1>5 DEF StoreCall
  <2>2. n \in StoreState /\ n.sess \in SUBSET (Int \X (User \cup {"nobody"}))
    BY <1>0 DEF StoreState
  <2>3. \A s \in n.sess : (\E z \in m.sess : s[1] = z[1])
    BY <1>0, <1>5 DEF StoreState
  <2>. HIDE DEF n
  <2>. QED BY <2>1, <2>2, <2>3 DEF If, Yes, No
<1>6. CASE call = "password" /\ m.live
  <2>. DEFINE n == [m EXCEPT !.pw[u] = c.pw, !.sess = @ \ SessionsOf(m, {u})]
  <2>1. r = If(u \in m.users, m, n)
    BY <1>6 DEF StoreCall
  <2>2. n \in StoreState /\ n.sess \in SUBSET (Int \X (User \cup {"nobody"}))
    BY <1>0 DEF StoreState
  <2>3. \A s \in n.sess : (\E z \in m.sess : s[1] = z[1])
    BY <1>0, <1>6 DEF StoreState
  <2>. HIDE DEF n
  <2>. QED BY <2>1, <2>2, <2>3 DEF If, Yes, No
<1>7. CASE call = "authenticate" /\ m.live
  <2>1. r = If(u \in m.users /\ m.pw[u] = c.pw /\ c.pw # 0, m, m)
    BY <1>7 DEF StoreCall
  <2>. QED BY <2>1 DEF If, Yes, No
<1>8. CASE call = "mint" /\ m.live
  <2>. DEFINE n == [m EXCEPT !.sess = @ \cup {<<token, u>>}]
  <2>1. r = If(u \in m.users, m, n)
    BY <1>8 DEF StoreCall
  <2>2. n \in StoreState /\ n.sess \in SUBSET (Int \X (User \cup {"nobody"}))
    BY <1>0 DEF StoreState
  <2>3. \A s \in n.sess : (\E z \in m.sess : s[1] = z[1]) \/ (call = "mint" /\ s[1] = token)
    BY <1>0, <1>8 DEF StoreState
  <2>. HIDE DEF n
  <2>. QED BY <2>1, <2>2, <2>3 DEF If, Yes, No
<1>9. CASE call = "validate" /\ m.live
  <2>1. r = If(token \in Tokens(m), m, m)
    BY <1>9 DEF StoreCall
  <2>. QED BY <2>1 DEF If, Yes, No
<1>10. CASE call = "unmint" /\ m.live
  <2>. DEFINE n == [m EXCEPT !.sess = {s \in @ : s[1] # token}]
  <2>1. r = Yes(n)
    BY <1>10 DEF StoreCall
  <2>2. n \in StoreState /\ n.sess \in SUBSET (Int \X (User \cup {"nobody"}))
    BY <1>0 DEF StoreState
  <2>3. \A s \in n.sess : (\E z \in m.sess : s[1] = z[1])
    BY <1>0, <1>10 DEF StoreState
  <2>. HIDE DEF n
  <2>. QED BY <2>1, <2>2, <2>3 DEF If, Yes, No
<1>11. CASE call = "revoke" /\ m.live
  <2>. DEFINE n == [m EXCEPT !.sess = @ \ SessionsOf(m, {u})]
  <2>1. r = If(u \in m.users, m, n)
    BY <1>11 DEF StoreCall
  <2>2. n \in StoreState /\ n.sess \in SUBSET (Int \X (User \cup {"nobody"}))
    BY <1>0 DEF StoreState
  <2>3. \A s \in n.sess : (\E z \in m.sess : s[1] = z[1])
    BY <1>0, <1>11 DEF StoreState
  <2>. HIDE DEF n
  <2>. QED BY <2>1, <2>2, <2>3 DEF If, Yes, No
<1>12. CASE call = "rotate" /\ m.live
  <2>. DEFINE n == [m EXCEPT !.sess = @ \ SessionsOf(m, User)]
  <2>1. r = Yes(n)
    BY <1>12 DEF StoreCall
  <2>2. n \in StoreState /\ n.sess \in SUBSET (Int \X (User \cup {"nobody"}))
    BY <1>0 DEF StoreState
  <2>3. \A s \in n.sess : (\E z \in m.sess : s[1] = z[1])
    BY <1>0, <1>12 DEF StoreState
  <2>. HIDE DEF n
  <2>. QED BY <2>1, <2>2, <2>3 DEF If, Yes, No
<1>13. CASE call = "delete" /\ m.live
  <2>. DEFINE S == {<<s[1], "nobody">> : s \in m.sess}
              n == [Default EXCEPT !.sess = S]
  <2>1. r = If(m.used = 0, m, n)
    BY <1>13 DEF StoreCall
  <2>2. S \subseteq Int \X (User \cup {"nobody"}) /\ \A s \in S : \E z \in m.sess : s[1] = z[1]
    BY <1>0
  <2>. HIDE DEF S
  <2>3. n \in StoreState /\ n.sess = S
    BY <2>2 DEF StoreState, Default
  <2>. HIDE DEF n
  <2>. QED BY <2>1, <2>2, <2>3 DEF If, Yes, No
<1>14. CASE call = "purge" /\ m.live
  <2>. DEFINE n == [Default EXCEPT !.sess = SessionsOf(m, {"nobody"})]
  <2>1. r = If(m.used = 0, m, n)
    BY <1>14 DEF StoreCall
  <2>2. n \in StoreState /\ n.sess \in SUBSET (Int \X (User \cup {"nobody"}))
    BY <1>0 DEF StoreState, Default, SessionsOf
  <2>3. \A s \in n.sess : (\E z \in m.sess : s[1] = z[1])
    BY <1>0, <1>14 DEF StoreState, Default, SessionsOf
  <2>. HIDE DEF n
  <2>. QED BY <2>1, <2>2, <2>3 DEF If, Yes, No
<1>15. CASE call = "charge" /\ m.live
  <2>. DEFINE n == [m EXCEPT !.used = @ + 1]
  <2>1. r = If(m.used < Quota, m, n)
    BY <1>15 DEF StoreCall
  <2>2. n \in StoreState /\ n.sess \in SUBSET (Int \X (User \cup {"nobody"}))
    BY <1>0 DEF StoreState
  <2>3. \A s \in n.sess : (\E z \in m.sess : s[1] = z[1])
    BY <1>0, <1>15 DEF StoreState
  <2>. HIDE DEF n
  <2>. QED BY <2>1, <2>2, <2>3 DEF If, Yes, No
<1>16. CASE call = "release" /\ m.live
  <2>. DEFINE n == [m EXCEPT !.used = IF @ = 0 THEN 0 ELSE @ - 1]
  <2>1. r = Yes(n)
    BY <1>16 DEF StoreCall
  <2>2. n \in StoreState /\ n.sess \in SUBSET (Int \X (User \cup {"nobody"}))
    BY <1>0 DEF StoreState
  <2>3. \A s \in n.sess : (\E z \in m.sess : s[1] = z[1])
    BY <1>0, <1>16 DEF StoreState
  <2>. HIDE DEF n
  <2>. QED BY <2>1, <2>2, <2>3 DEF If, Yes, No
<1>. QED BY <1>2, <1>3, <1>4, <1>5, <1>6, <1>7, <1>8, <1>9, <1>10, <1>11, <1>12, <1>13, <1>14, <1>15, <1>16, <1>0 DEF CallNames

\* A process between two commands.
LEMMA RestFacts ==
  ASSUME NEW script \in Seq(Command)
  PROVE  /\ Rest(script) \in Process /\ Rest(script).pc = "idle" /\ Rest(script).base = 0
         /\ Rest(script).drops = {} /\ Rest(script).mem = Default
  BY TokenFacts DEF Rest, Process, Pcs

\* Every command line makes calls of the store.
LEMMA CallsFacts ==
  ASSUME NEW op \in CmdOps
  PROVE  Calls(op) \in Seq(CallNames)
<1>1. CASE op \in BinaryOps \cup UserOps \cup DeleteOps \cup AuthorityOps
  <2>1. op \in CallNames /\ Calls(op) = <<op>>
    BY <1>1 DEF Calls, CallNames, BinaryOps, TenantOps, QuotaOps, UserOps, DeleteOps, AuthorityOps
  <2>. QED BY <2>1
<1>2. CASE op \in SessionOps \cup {"login", "exec", "show"}
  <2>1. Calls(op) \in {<<"authenticate", "mint">>, <<"unmint">>, <<"validate">>, <<"charge">>, <<>>}
    BY <1>2 DEF Calls, BinaryOps, TenantOps, QuotaOps, UserOps, DeleteOps, AuthorityOps, SessionOps
  <2>2. /\ <<"authenticate", "mint">> \in Seq(CallNames) /\ <<"unmint">> \in Seq(CallNames)
        /\ <<"validate">> \in Seq(CallNames) /\ <<"charge">> \in Seq(CallNames)
        /\ <<>> \in Seq(CallNames)
    BY DEF CallNames
  <2>. QED BY <2>1, <2>2
<1>. QED BY <1>1, <1>2 DEF CmdOps

\* Where a command goes.
LEMMA StepsFacts ==
  ASSUME NEW p \in Clerk, clerk[p] \in Process, clerk[p].cmd \in Cmd, NEW ok \in BOOLEAN,
         NEW to \in Steps(p, ok)
  PROVE  to \in ToStep
<1>. DEFINE c == clerk[p].cmd
<1>0. /\ c.op \in Ops /\ c.after \in BOOLEAN /\ clerk[p].calls \in Seq(CallNames)
      /\ clerk[p].mem.live \in BOOLEAN
  BY DEF Cmd, Process, StoreState
<1>1. ASSUME NEW op \in Ops, NEW notes \in Seq(Note), NEW calls \in Seq(CallNames)
      PROVE  Step(op, notes, calls) \in ToStep /\ Step(op, <<>>, calls) \in ToStep
  BY DEF Step, ToStep
<1>2. /\ "refund" \in Ops /\ "dryrun" \in Ops /\ "done" \in Ops /\ "forget" \in Ops
      /\ "session" \in Ops
  BY DEF Ops
<1>3. /\ <<"charge">> \in Seq(Note) /\ <<"charge", "exec">> \in Seq(Note)
      /\ <<"deny", "exec">> \in Seq(Note) /\ <<"release", "exec">> \in Seq(Note)
      /\ <<"exec">> \in Seq(Note) /\ <<>> \in Seq(Note)
      /\ <<"release">> \in Seq(CallNames) /\ <<>> \in Seq(CallNames)
  BY DEF Note, CallNames
<1>4. ASSUME c.op \in {"exec", "refund", "dryrun"}, NEW x \in ExecSteps(c, clerk[p].mem.live, ok)
      PROVE  x \in ToStep
  <2>1. CASE c.op = "exec" /\ ok
    BY <1>1, <1>2, <1>3, <1>4, <2>1 DEF ExecSteps
  <2>2. CASE c.op = "exec" /\ ~ok
    <3>1. x \in {Ended("done"), Step("done", <<"deny", "exec">>, <<>>)}
      BY <1>0, <1>4, <2>2 DEF ExecSteps
    <3>. QED BY <1>1, <1>2, <1>3, <3>1 DEF Ended
  <2>3. CASE c.op = "refund"
    BY <1>1, <1>2, <1>3, <1>4, <2>3 DEF ExecSteps
  <2>4. CASE c.op = "dryrun"
    <3>1. x \in {Step("done", <<"release", "exec">>, <<>>), Step("done", <<"exec">>, <<>>)}
      BY <1>0, <1>4, <2>4 DEF ExecSteps
    <3>. QED BY <1>1, <1>2, <1>3, <3>1
  <2>. QED BY <1>4, <2>1, <2>2, <2>3, <2>4
<1>5. CASE c.op \in {"exec", "refund", "dryrun"}
  <2>1. PICK x \in ExecSteps(c, clerk[p].mem.live, ok) : to = IF c.audit THEN x ELSE [x EXCEPT !.notes = <<>>]
    BY <1>5 DEF Steps
  <2>2. x \in ToStep
    BY <1>4, <1>5
  <2>. QED BY <1>3, <2>1, <2>2 DEF ToStep
<1>6. CASE c.op \notin {"exec", "refund", "dryrun"}
  <2>1. to \in {Step("forget", <<>>, <<>>), Step("session", <<>>, <<>>),
                Step(c.op, <<>>, clerk[p].calls), Ended(c.op)}
    BY <1>6 DEF Steps
  <2>. QED BY <1>0, <1>1, <1>2, <1>3, <2>1 DEF Ended
<1>. QED BY <1>5, <1>6

\* The process after a step.
LEMMA ProceedFacts ==
  ASSUME NEW proc \in Process, proc.cmd \in Cmd, NEW to \in ToStep, NEW b \in Nat
  PROVE  LET q == Proceed(proc, to, b)
         IN /\ q \in Process
            /\ q.pc \in {"idle", "line", "call", "forget", "session"}
            /\ q.pc # "idle" => q.cmd \in Cmd /\ q.mem = proc.mem /\ q.base = b
            /\ q.pc = "idle" => q.mem = Default /\ q.base = 0
            /\ q.pc = "line" => q.notes # <<>>
            /\ q.drops = {}
<1>1. /\ to.op \in Ops /\ to.notes \in Seq(Note) /\ to.calls \in Seq(CallNames)
      /\ proc.script \in Seq(Command)
  BY DEF ToStep, Process
<1>2. Pc(to) \in {"idle", "line", "call", "forget", "session"} /\ (Pc(to) = "line" => to.notes # <<>>)
  BY DEF Pc
<1>3. CASE Pc(to) = "idle"
  BY <1>1, <1>3, RestFacts DEF Proceed
<1>4. CASE Pc(to) # "idle"
  <2>. DEFINE d == [proc.cmd EXCEPT !.op = to.op]
              q == [proc EXCEPT !.pc = Pc(to), !.cmd = d, !.notes = to.notes, !.calls = to.calls,
                                !.base = b, !.fd = "none", !.drops = {}]
  <2>1. d \in Cmd
    BY <1>1 DEF Cmd
  <2>2. Proceed(proc, to, b) = q
    BY <1>4 DEF Proceed, Process
  <2>3. Pc(to) \in Pcs
    BY <1>2 DEF Pcs
  <2>. HIDE DEF d
  <2>4. /\ q \in Process /\ q.pc = Pc(to) /\ q.cmd = d /\ q.mem = proc.mem /\ q.base = b
        /\ q.notes = to.notes /\ q.drops = {}
    BY <1>1, <2>1, <2>3 DEF Process
  <2>. HIDE DEF q
  <2>. QED BY <1>2, <1>4, <2>1, <2>2, <2>4
<1>. QED BY <1>3, <1>4

---------------------------------------------------------------------------
(* Revocation: the invariant is inductive. *)

LEMMA InitIInv == TInit => IInv
<1>. SUFFICES ASSUME NEW plan \in TenantPlans,
                     store = plan.store, tmp = Missing, session = Missing,
                     clerk = [p \in Clerk |-> Rest(plan.scripts[p])],
                     minted = 0, writes = 0, revoked = {}
              PROVE  IInv
  BY DEF TInit
<1>1. /\ plan.store \in {Missing} \cup StoreState /\ plan.scripts \in [Clerk -> Seq(Command)]
      /\ \A k \in Tokens(plan.store) : k <= 0
  BY TenantPlanAssumption
<1>2. \A p \in Clerk : /\ clerk[p] \in Process /\ clerk[p].pc = "idle" /\ clerk[p].base = 0
                       /\ clerk[p].drops = {} /\ clerk[p].mem = Default
  BY <1>1, RestFacts
<1>3. TypeInv
  BY <1>1, <1>2 DEF TypeInv, File
<1>4. ProcessInv
  BY <1>2 DEF ProcessInv
<1>6. TokenInv
  BY <1>1, <1>2, TokenFacts DEF TokenInv
<1>5. AloneInv
  BY <1>1, <1>2, TokenFacts, TenantCliAssumption DEF AloneInv, Persisting
<1>. QED BY <1>3, <1>4, <1>5, <1>6 DEF IInv

\* A step that leaves the files alone, and the process outside of persist.
LEMMA QuietKeeps ==
  ASSUME IInv, NEW p \in Clerk, NEW q \in Process,
         clerk' = [clerk EXCEPT ![p] = q],
         UNCHANGED <<store, tmp, ghosts>>,
         session' \in Int \cup {Missing, Empty},
         minted' \in Nat, minted' >= minted,
         q.pc # "idle" => q.cmd \in Cmd,
         q.pc \in {"line", "newline"} => q.notes # <<>>,
         q.base <= writes,
         q.drops \cap Tokens(q.mem) = {},
         q.pc # "create" => q.drops = {},
         \A k \in Tokens(q.mem) \cup q.drops : k <= minted',
         q.pc \notin Persisting,
         ~tangled /\ q.pc \notin {"idle", "open"} /\ q.base = writes
           => revoked \cap Tokens(q.mem) \subseteq revived
  PROVE  IInv'
<1>1. /\ \A x \in Clerk \ {p} : clerk'[x] = clerk[x]
      /\ clerk'[p] = q /\ clerk' \in [Clerk -> Process]
      /\ UNCHANGED <<store, tmp, writes, revoked, revived, tangled>>
  BY DEF IInv, TypeInv, ghosts
<1>2. TypeInv'
  BY <1>1 DEF IInv, TypeInv
<1>3. ProcessInv'
  BY <1>1 DEF IInv, ProcessInv
<1>4. TokenInv'
  <2>1. \A k \in Int : k <= minted => k <= minted'
    BY DEF IInv, TypeInv
  <2>2. /\ Tokens(store) \subseteq Int /\ Tokens(tmp) \subseteq Int /\ revoked \subseteq Int
        /\ \A x \in Clerk : Tokens(clerk[x].mem) \subseteq Int /\ clerk[x].drops \subseteq Int
    BY TokenFacts DEF IInv, TypeInv, File, Process
  <2>. QED BY <1>1, <2>1, <2>2 DEF IInv, TokenInv
<1>5. AloneInv'
  <2>. SUFFICES ASSUME ~tangled PROVE AloneInv'
    BY <1>1 DEF AloneInv
  <2>. QED BY <1>1 DEF IInv, AloneInv, Persisting
<1>. QED BY <1>2, <1>3, <1>4, <1>5 DEF IInv

\* What a process may do at rest is no matter.
LEMMA RestKeeps ==
  ASSUME IInv, NEW p \in Clerk, NEW script \in Seq(Command),
         clerk' = [clerk EXCEPT ![p] = Rest(script)],
         UNCHANGED <<store, tmp, minted, ghosts>>,
         session' \in Int \cup {Missing, Empty}
  PROVE  IInv'
<1>1. /\ Rest(script) \in Process /\ Rest(script).pc = "idle" /\ Rest(script).base = 0
      /\ Rest(script).drops = {} /\ Tokens(Rest(script).mem) = {}
  BY RestFacts, TokenFacts
<1>2. minted \in Nat /\ writes \in Nat
  BY DEF IInv, TypeInv
<1>3. \A k \in Tokens(Rest(script).mem) \cup Rest(script).drops : k <= minted
  BY <1>1
<1>4. minted >= minted /\ Rest(script).base <= writes
  BY <1>1, <1>2
<1>. QED BY <1>1, <1>2, <1>3, <1>4, QuietKeeps DEF Persisting

\* A process that only moves on.
LEMMA MoveKeeps ==
  ASSUME IInv, NEW p \in Clerk, NEW q \in Process,
         clerk' = [clerk EXCEPT ![p] = q],
         UNCHANGED <<store, tmp, minted, ghosts>>,
         session' \in Int \cup {Missing, Empty},
         clerk[p].pc \notin {"idle", "open"},
         q.pc \in {"idle", "line", "newline", "call", "forget", "session", "session2"},
         q.pc # "idle" => q.cmd \in Cmd /\ q.mem = clerk[p].mem /\ q.base = clerk[p].base,
         q.pc = "idle" => q.mem = Default /\ q.base = 0,
         q.pc \in {"line", "newline"} => q.notes # <<>>,
         q.drops = {}
  PROVE  IInv'
<1>1. minted \in Nat /\ writes \in Nat /\ Tokens(Default) = {} /\ minted >= minted
  BY TokenFacts DEF IInv, TypeInv
<1>2. CASE q.pc = "idle"
  <2>1. q.mem = Default /\ Tokens(q.mem) = {} /\ q.base <= writes
    BY <1>1, <1>2
  <2>2. \A k \in Tokens(q.mem) \cup q.drops : k <= minted
    BY <2>1
  <2>. QED BY <1>1, <1>2, <2>1, <2>2, QuietKeeps DEF Persisting
<1>3. CASE q.pc # "idle"
  <2>1. q.mem = clerk[p].mem /\ q.base = clerk[p].base /\ q.cmd \in Cmd
    BY <1>3
  <2>2. /\ q.base <= writes /\ q.drops \cap Tokens(q.mem) = {}
        /\ \A k \in Tokens(q.mem) \cup q.drops : k <= minted
    BY <2>1 DEF IInv, TokenInv, ProcessInv
  <2>3. ~tangled /\ q.base = writes => revoked \cap Tokens(q.mem) \subseteq revived
    BY <2>1 DEF IInv, AloneInv
  <2>. QED BY <1>1, <1>3, <2>1, <2>2, <2>3, QuietKeeps DEF Persisting
<1>. QED BY <1>2, <1>3

\* What the types of the processes give.
LEMMA ProcessFacts ==
  ASSUME IInv, NEW p \in Clerk
  PROVE  /\ clerk[p] \in Process /\ clerk[p].script \in Seq(Command) /\ clerk[p].base \in Nat
         /\ clerk[p].calls \in Seq(CallNames) /\ clerk[p].mem \in StoreState
         /\ clerk[p].token \in Int /\ clerk[p].notes \in Seq(Note)
         /\ clerk[p].pc # "idle" => clerk[p].cmd \in Cmd
         /\ session \in Int \cup {Missing, Empty}
  BY DEF IInv, TypeInv, ProcessInv, Process

LEMMA StartKeeps ==
  ASSUME IInv, NEW p \in Clerk, Start(p)
  PROVE  IInv'
<1>. DEFINE c == Head(clerk[p].script)
            script == Tail(clerk[p].script)
            needs == c.op \in SessionOps
<1>1. /\ c \in Command /\ script \in Seq(Command) /\ UNCHANGED <<store, tmp, session, minted, ghosts>>
  BY ProcessFacts DEF Start
<1>2. CASE needs /\ session \in {Missing, Empty}
  <2>1. clerk' = [clerk EXCEPT ![p] = Rest(script)]
    BY <1>2 DEF Start
  <2>. QED BY <1>1, <2>1, RestKeeps, ProcessFacts
<1>3. CASE ~(needs /\ session \in {Missing, Empty})
  <2>. DEFINE tok == IF needs THEN session ELSE 0
              q == [Rest(script) EXCEPT !.pc = "open", !.cmd = c, !.calls = Calls(c.op), !.token = tok]
  <2>1. clerk' = [clerk EXCEPT ![p] = q]
    BY <1>3 DEF Start
  <2>2. c \in Cmd /\ Calls(c.op) \in Seq(CallNames) /\ tok \in Int
    BY <1>1, <1>3, CallsFacts, ProcessFacts DEF Command, Cmd, Ops
  <2>. HIDE DEF tok, c, script
  <2>3. Rest(script) \in Process /\ Rest(script).base = 0 /\ Rest(script).drops = {} /\ Rest(script).mem = Default
    BY <1>1, RestFacts
  <2>4. /\ q \in Process /\ q.pc = "open" /\ q.cmd = c /\ q.base = 0 /\ q.drops = {} /\ q.mem = Default
    BY <2>2, <2>3 DEF Process, Pcs
  <2>5. minted \in Nat /\ writes \in Nat /\ Tokens(q.mem) = {} /\ minted >= minted /\ q.base <= writes
    BY <2>4, TokenFacts DEF IInv, TypeInv
  <2>. HIDE DEF q
  <2>. QED BY <1>1, <2>1, <2>2, <2>4, <2>5, QuietKeeps, ProcessFacts DEF Persisting
<1>. QED BY <1>2, <1>3

LEMMA OpenStoreKeeps ==
  ASSUME IInv, NEW p \in Clerk, OpenStore(p)
  PROVE  IInv'
<1>1. clerk[p].pc = "open" /\ UNCHANGED <<store, tmp, session, minted, ghosts>>
  BY DEF OpenStore, In
<1>2. CASE store = Torn
  <2>1. clerk' = [clerk EXCEPT ![p] = Rest(clerk[p].script)]
    BY <1>2 DEF OpenStore, Leave
  <2>. QED BY <1>1, <2>1, RestKeeps, ProcessFacts
<1>3. CASE store # Torn
  <2>. DEFINE q == [clerk[p] EXCEPT !.pc = "call", !.mem = Opened, !.base = writes]
  <2>1. clerk' = [clerk EXCEPT ![p] = q]
    BY <1>3 DEF OpenStore, Go, IInv, TypeInv
  <2>2. Opened \in StoreState /\ Tokens(Opened) = Tokens(store)
    BY <1>3, TokenFacts DEF Opened, IInv, TypeInv, File
  <2>3. writes \in Nat /\ minted \in Nat /\ minted >= minted /\ writes <= writes
    BY DEF IInv, TypeInv
  <2>4. /\ q \in Process /\ q.pc = "call" /\ q.cmd = clerk[p].cmd /\ q.base = writes
        /\ q.drops = clerk[p].drops /\ q.mem = Opened
    BY <2>2, <2>3, ProcessFacts DEF Process, Pcs
  <2>5. clerk[p].drops = {}
    BY <1>1 DEF IInv, ProcessInv
  <2>6. \A k \in Tokens(q.mem) \cup q.drops : k <= minted
    BY <2>2, <2>4, <2>5 DEF IInv, TokenInv
  <2>7. ~tangled => revoked \cap Tokens(q.mem) \subseteq revived
    BY <2>2, <2>4 DEF IInv, AloneInv
  <2>. HIDE DEF q
  <2>. QED BY <1>1, <2>1, <2>3, <2>4, <2>5, <2>6, <2>7, QuietKeeps, ProcessFacts DEF Persisting
<1>. QED BY <1>2, <1>3

LEMMA CallKeeps ==
  ASSUME IInv, NEW p \in Clerk, Call(p)
  PROVE  IInv'
<1>. DEFINE c == clerk[p].cmd
            call == Head(clerk[p].calls)
            token == IF call = "mint" THEN minted + 1 ELSE clerk[p].token
            r == StoreCall(clerk[p].mem, call, c, token)
<1>1. /\ clerk[p].pc = "call" /\ clerk[p].calls # <<>> /\ UNCHANGED <<store, tmp, session, ghosts>>
  BY DEF Call, In
<1>2. /\ minted \in Nat /\ writes \in Nat /\ clerk[p].mem \in StoreState /\ c \in Cmd
      /\ call \in CallNames /\ Tail(clerk[p].calls) \in Seq(CallNames) /\ token \in Int
  BY <1>1, ProcessFacts DEF IInv, TypeInv
<1>3. CASE r.ok
  <2>. DEFINE q == [clerk[p] EXCEPT !.pc = "create", !.calls = Tail(clerk[p].calls), !.mem = r.mem,
                     !.token = token, !.drops = Tokens(clerk[p].mem) \ Tokens(r.mem)]
  <2>1. clerk' = [[clerk EXCEPT ![p].pc = "create"] EXCEPT
                    ![p].calls = Tail(@), ![p].mem = r.mem, ![p].token = token,
                    ![p].drops = Tokens(clerk[p].mem) \ Tokens(r.mem)]
    BY <1>3 DEF Call, Go
  <2>2. minted' = IF call = "mint" THEN minted + 1 ELSE minted
    BY <1>3 DEF Call
  <2>3. /\ r.mem \in StoreState
        /\ \A k \in Tokens(r.mem) : k \in Tokens(clerk[p].mem) \/ (call = "mint" /\ k = token)
    BY <1>2, <1>3, StoreCallFacts
  <2>4. Tokens(clerk[p].mem) \subseteq Int /\ Tokens(r.mem) \subseteq Int
    BY <1>2, <2>3, TokenFacts
  <2>. HIDE DEF r, token, call, c
  <2>12. clerk' = [clerk EXCEPT ![p] = q]
    BY <2>1, ProcessFacts DEF IInv, TypeInv, Process
  <2>5. /\ q \in Process /\ q.pc = "create" /\ q.cmd = clerk[p].cmd /\ q.base = clerk[p].base
        /\ q.drops = Tokens(clerk[p].mem) \ Tokens(r.mem) /\ q.mem = r.mem
    BY <1>2, <2>3, <2>4, ProcessFacts DEF Process, Pcs
  <2>6. minted' \in Nat /\ minted' >= minted /\ (call = "mint" => token = minted + 1 /\ token <= minted')
    BY <1>2, <2>2 DEF token
  <2>7. q.base <= writes /\ q.drops \cap Tokens(q.mem) = {} /\ q.cmd \in Cmd
    BY <1>2, <2>5 DEF IInv, ProcessInv, c
  <2>8. \A k \in Tokens(clerk[p].mem) : k <= minted'
    <3>1. \A k \in Int : k <= minted => k <= minted'
      BY <1>2, <2>6
    <3>. QED BY <2>4, <3>1 DEF IInv, TokenInv
  <2>9. \A k \in Tokens(q.mem) \cup q.drops : k <= minted'
    BY <2>3, <2>5, <2>6, <2>8
  <2>10. call = "mint" => token \notin revoked
    BY <1>2, <2>6 DEF IInv, TypeInv, TokenInv
  <2>11. ~tangled /\ q.base = writes => revoked \cap Tokens(q.mem) \subseteq revived
    BY <1>1, <2>3, <2>5, <2>10 DEF IInv, AloneInv
  <2>. HIDE DEF q
  <2>. QED BY <1>1, <2>12, <2>5, <2>6, <2>7, <2>9, <2>11, QuietKeeps, ProcessFacts DEF Persisting
<1>4. CASE ~r.ok
  <2>1. PICK to \in Steps(p, FALSE) : clerk' = [clerk EXCEPT ![p] = Proceed(@, to, @.base)]
    BY <1>4 DEF Call
  <2>. DEFINE q == Proceed(clerk[p], to, clerk[p].base)
  <2>2. clerk' = [clerk EXCEPT ![p] = q] /\ UNCHANGED minted
    BY <1>4, <2>1 DEF Call, IInv, TypeInv
  <2>3. to \in ToStep
    BY <1>2, StepsFacts, ProcessFacts
  <2>4. /\ q \in Process
        /\ q.pc \in {"idle", "line", "call", "forget", "session"}
        /\ q.pc # "idle" => q.cmd \in Cmd /\ q.mem = clerk[p].mem /\ q.base = clerk[p].base
        /\ q.pc = "idle" => q.mem = Default /\ q.base = 0
        /\ q.pc = "line" => q.notes # <<>>
        /\ q.drops = {}
    BY <1>2, <2>3, ProceedFacts, ProcessFacts
  <2>. HIDE DEF q
  <2>. QED BY <1>1, <2>2, <2>4, MoveKeeps, ProcessFacts
<1>. QED BY <1>3, <1>4

\* persist begins: the tmp file is empty.
LEMMA CreateTmpKeeps ==
  ASSUME IInv, NEW p \in Clerk, CreateTmp(p)
  PROVE  IInv'
<1>. DEFINE q == [clerk[p] EXCEPT !.pc = "write", !.fd = "tmp"]
<1>1. /\ clerk[p].pc = "create" /\ tmp' = Empty
      /\ tangled' = (tangled \/ \E x \in Clerk \ {p} : clerk[x].pc \in Persisting)
      /\ UNCHANGED <<store, session, minted, writes, revoked, revived>>
  BY DEF CreateTmp, In, Persisting
<1>2. clerk' = [clerk EXCEPT ![p] = q]
  BY ProcessFacts DEF CreateTmp, Go, IInv, TypeInv, Process
<1>3. /\ q \in Process /\ q.pc = "write" /\ q.cmd = clerk[p].cmd /\ q.base = clerk[p].base
      /\ q.drops = clerk[p].drops /\ q.mem = clerk[p].mem /\ q.fd = "tmp"
  BY ProcessFacts DEF Process, Pcs
<1>. HIDE DEF q
<1>4. /\ \A x \in Clerk \ {p} : clerk'[x] = clerk[x]
      /\ clerk'[p] = q /\ clerk' \in [Clerk -> Process]
  BY <1>2, <1>3 DEF IInv, TypeInv
<1>5. TypeInv'
  BY <1>1, <1>4 DEF IInv, TypeInv, File
<1>6. ProcessInv'
  BY <1>1, <1>3, <1>4 DEF IInv, ProcessInv
<1>7. TokenInv'
  BY <1>1, <1>3, <1>4, TokenFacts DEF IInv, TokenInv
<1>8. AloneInv'
  <2>. SUFFICES ASSUME ~tangled' PROVE AloneInv'
    BY DEF AloneInv
  <2>1. ~tangled /\ \A x \in Clerk \ {p} : clerk[x].pc \notin Persisting
    BY <1>1
  <2>. QED BY <1>1, <1>3, <1>4, <2>1 DEF IInv, AloneInv, Persisting
<1>. QED BY <1>5, <1>6, <1>7, <1>8 DEF IInv

\* The copy is written to the file that was created; alone, to the tmp file.
LEMMA WriteTmpKeeps ==
  ASSUME IInv, NEW p \in Clerk, WriteTmp(p)
  PROVE  IInv'
<1>. DEFINE q == [clerk[p] EXCEPT !.pc = "rename"]
<1>1. clerk[p].pc = "write" /\ UNCHANGED <<session, minted, revoked, revived, tangled>>
  BY DEF WriteTmp, In
<1>2. clerk' = [clerk EXCEPT ![p] = q]
  BY DEF WriteTmp, Go
<1>3. /\ q \in Process /\ q.pc = "rename" /\ q.cmd = clerk[p].cmd /\ q.base = clerk[p].base
      /\ q.drops = clerk[p].drops /\ q.mem = clerk[p].mem /\ q.fd = clerk[p].fd
  BY ProcessFacts DEF Process, Pcs
<1>. HIDE DEF q
<1>4. /\ \A x \in Clerk \ {p} : clerk'[x] = clerk[x]
      /\ clerk'[p] = q /\ clerk' \in [Clerk -> Process]
  BY <1>2, <1>3 DEF IInv, TypeInv
<1>5. /\ store' \in {store, clerk[p].mem, Torn} /\ tmp' \in {tmp, clerk[p].mem, Torn}
      /\ writes' \in Nat /\ writes' >= writes
  BY DEF WriteTmp, Overwrite, IInv, TypeInv
<1>6. clerk[p].mem \in StoreState /\ writes \in Nat /\ \A x \in Clerk : clerk[x].base \in Nat
  BY ProcessFacts DEF IInv, TypeInv
<1>7. TypeInv'
  BY <1>1, <1>4, <1>5, <1>6 DEF IInv, TypeInv, File
<1>8. ProcessInv'
  BY <1>1, <1>3, <1>4, <1>5, <1>6 DEF IInv, ProcessInv
<1>9. TokenInv'
  BY <1>1, <1>3, <1>4, <1>5, TokenFacts DEF IInv, TokenInv
<1>10. AloneInv'
  <2>. SUFFICES ASSUME ~tangled PROVE AloneInv'
    BY <1>1 DEF AloneInv
  <2>1. clerk[p].fd = "tmp" /\ tmp = Empty
    BY <1>1 DEF IInv, AloneInv, Persisting
  <2>2. tmp' = clerk[p].mem /\ UNCHANGED <<store, writes>>
    BY <2>1 DEF WriteTmp, Overwrite
  <2>. QED BY <1>1, <1>3, <1>4, <2>1, <2>2 DEF IInv, AloneInv, Persisting
<1>. QED BY <1>7, <1>8, <1>9, <1>10 DEF IInv

\* The rename; a copy that is behind the file brings tokens back.
LEMMA RenameKeeps ==
  ASSUME IInv, NEW p \in Clerk, Rename(p)
  PROVE  IInv'
<1>1. clerk[p].pc = "rename" /\ UNCHANGED <<session, minted, tangled>>
  BY DEF Rename, MayRename, In
<1>2. clerk[p].cmd \in Cmd /\ clerk[p].base \in Nat /\ writes \in Nat
  BY <1>1, ProcessFacts DEF IInv, TypeInv
<1>3. CASE tmp = Missing
  <2>1. PICK to \in Steps(p, FALSE) : clerk' = [clerk EXCEPT ![p] = Proceed(@, to, @.base)]
    BY <1>3 DEF Rename
  <2>. DEFINE q == Proceed(clerk[p], to, clerk[p].base)
  <2>2. clerk' = [clerk EXCEPT ![p] = q] /\ UNCHANGED <<store, tmp, ghosts>>
    BY <1>1, <1>3, <2>1 DEF Rename, ghosts, IInv, TypeInv
  <2>3. to \in ToStep
    BY <1>2, StepsFacts, ProcessFacts
  <2>4. /\ q \in Process
        /\ q.pc \in {"idle", "line", "call", "forget", "session"}
        /\ q.pc # "idle" => q.cmd \in Cmd /\ q.mem = clerk[p].mem /\ q.base = clerk[p].base
        /\ q.pc = "idle" => q.mem = Default /\ q.base = 0
        /\ q.pc = "line" => q.notes # <<>>
        /\ q.drops = {}
    BY <1>2, <2>3, ProceedFacts, ProcessFacts
  <2>. HIDE DEF q
  <2>. QED BY <1>1, <2>2, <2>4, MoveKeeps, ProcessFacts
<1>4. CASE tmp # Missing
  <2>. DEFINE others == [x \in Clerk |-> [clerk[x] EXCEPT !.fd = Renamed(@)]]
  <2>1. PICK to \in Steps(p, TRUE) : clerk' = [others EXCEPT ![p] = Proceed(@, to, writes + 1)]
    BY <1>4 DEF Rename
  <2>2. /\ store' = tmp /\ tmp' = Missing /\ writes' = writes + 1
        /\ revoked' = revoked \cup clerk[p].drops
        /\ revived' = IF clerk[p].base = writes THEN revived ELSE revived \cup Tokens(tmp)
    BY <1>4 DEF Rename
  <2>3. \A x \in Clerk : /\ others[x] \in Process /\ others[x].pc = clerk[x].pc
                         /\ others[x].cmd = clerk[x].cmd /\ others[x].base = clerk[x].base
                         /\ others[x].drops = clerk[x].drops /\ others[x].mem = clerk[x].mem
                         /\ others[x].notes = clerk[x].notes
    <3>1. \A fd \in {"none", "tmp", "store", "gone"} : Renamed(fd) \in {"none", "tmp", "store", "gone"}
      BY DEF Renamed
    <3>. QED BY <3>1, ProcessFacts DEF Process
  <2>. DEFINE q == Proceed(others[p], to, writes + 1)
  <2>4. clerk' = [others EXCEPT ![p] = q] /\ DOMAIN others = Clerk
    BY <2>1
  <2>5. to \in ToStep /\ writes + 1 \in Nat
    <3>1. TRUE \in BOOLEAN /\ clerk[p] \in Process /\ clerk[p].cmd \in Cmd
      BY <1>2, ProcessFacts
    <3>2. to \in ToStep
      BY <2>1, <3>1, StepsFacts
    <3>3. writes + 1 \in Nat
      BY <1>2
    <3>. QED BY <3>2, <3>3
  <2>. HIDE DEF others
  <2>6. /\ q \in Process
        /\ q.pc \in {"idle", "line", "call", "forget", "session"}
        /\ q.pc # "idle" => q.cmd \in Cmd /\ q.mem = clerk[p].mem /\ q.base = writes + 1
        /\ q.pc = "idle" => q.mem = Default /\ q.base = 0
        /\ q.pc = "line" => q.notes # <<>>
        /\ q.drops = {}
    BY <1>2, <2>3, <2>5, ProceedFacts
  <2>. HIDE DEF q
  <2>7. /\ \A x \in Clerk \ {p} : clerk'[x] = others[x]
        /\ clerk'[p] = q
    BY <2>4
  <2>8. clerk' \in [Clerk -> Process]
    BY <2>3, <2>4, <2>6
  <2>9. clerk[p].drops \subseteq Int /\ \A x \in Clerk : clerk[x].base \in Nat
    BY ProcessFacts DEF Process
  <2>10. TypeInv'
    BY <1>1, <2>2, <2>5, <2>8, <2>9 DEF IInv, TypeInv, File
  <2>11. ProcessInv'
    <3>1. \A x \in Clerk : clerk[x].base <= writes => clerk[x].base <= writes + 1
      BY <1>2, <2>9
    <3>2. q.base <= writes + 1
      BY <1>2, <2>6
    <3>. QED BY <2>2, <2>3, <2>6, <2>7, <3>1, <3>2 DEF IInv, ProcessInv
  <2>12. TokenInv'
    BY <1>1, <2>2, <2>3, <2>6, <2>7, TokenFacts DEF IInv, TokenInv
  <2>13. AloneInv'
    <3>. SUFFICES ASSUME ~tangled PROVE AloneInv'
      BY <1>1 DEF AloneInv
    <3>1. tmp = clerk[p].mem /\ \A x \in Clerk \ {p} : clerk[x].pc \notin Persisting
      BY <1>1 DEF IInv, AloneInv, Persisting
    <3>2. store' = clerk[p].mem /\ store' \notin {Empty, Torn}
      BY <2>2, <3>1, ProcessFacts, TokenFacts
    <3>3. revoked' \cap Tokens(clerk[p].mem) \subseteq revived'
      <4>1. CASE clerk[p].base = writes
        BY <1>1, <2>2, <4>1 DEF IInv, AloneInv, ProcessInv
      <4>2. CASE clerk[p].base # writes
        BY <2>2, <3>1, <4>2
      <4>. QED BY <4>1, <4>2
    <3>4. \A x \in Clerk \ {p} : clerk'[x].base # writes'
      BY <1>2, <2>2, <2>3, <2>7, <2>9 DEF IInv, ProcessInv
    <3>. QED BY <2>3, <2>6, <2>7, <3>1, <3>2, <3>3, <3>4 DEF AloneInv, Persisting
  <2>. QED BY <2>10, <2>11, <2>12, <2>13 DEF IInv
<1>. QED BY <1>3, <1>4

LEMMA AnswerKeeps ==
  ASSUME IInv, NEW p \in Clerk, Answer(p)
  PROVE  IInv'
  BY RestKeeps, ProcessFacts DEF Answer, Leave

\* The session file is written and removed.
LEMMA SessionKeeps ==
  ASSUME IInv, NEW p \in Clerk, TruncateSession(p) \/ WriteSession(p) \/ RemoveSession(p)
  PROVE  IInv'
<1>1. CASE WriteSession(p) \/ RemoveSession(p)
  BY <1>1, RestKeeps, ProcessFacts DEF WriteSession, RemoveSession, Leave
<1>2. CASE TruncateSession(p)
  <2>. DEFINE q == [clerk[p] EXCEPT !.pc = "session2"]
  <2>1. clerk' = [clerk EXCEPT ![p] = q] /\ clerk[p].pc = "session"
    BY <1>2 DEF TruncateSession, Go, In
  <2>2. /\ q \in Process /\ q.pc = "session2" /\ q.cmd = clerk[p].cmd /\ q.base = clerk[p].base
        /\ q.drops = clerk[p].drops /\ q.mem = clerk[p].mem
    BY ProcessFacts DEF Process, Pcs
  <2>3. clerk[p].drops = {} /\ clerk[p].cmd \in Cmd
    BY <2>1 DEF IInv, ProcessInv
  <2>4. UNCHANGED <<store, tmp, minted, ghosts>> /\ session' = Empty
    BY <1>2 DEF TruncateSession
  <2>. HIDE DEF q
  <2>. QED BY <2>1, <2>2, <2>3, <2>4, MoveKeeps
<1>. QED BY <1>1, <1>2

\* Between two records of the log.
LEMMA NextNoteKeeps ==
  ASSUME IInv, NEW p \in Clerk, Recording(p), clerk' = NextNote(p),
         UNCHANGED <<store, tmp, session, minted, ghosts>>
  PROVE  /\ IInv'
         /\ clerk'[p].pc # "newline" /\ \A x \in Clerk \ {p} : clerk'[x] = clerk[x]
<1>. DEFINE to == Step(clerk[p].cmd.op, Tail(clerk[p].notes), clerk[p].calls)
            q == Proceed(clerk[p], to, clerk[p].base)
<1>1. /\ clerk[p].pc \in {"line", "newline"} /\ clerk[p].cmd \in Cmd /\ clerk[p].notes # <<>>
  BY DEF Recording, IInv, ProcessInv
<1>2. clerk' = [clerk EXCEPT ![p] = q]
  BY DEF NextNote, IInv, TypeInv
<1>3. to \in ToStep
  BY <1>1, ProcessFacts DEF Step, ToStep, Cmd
<1>4. /\ q \in Process
      /\ q.pc \in {"idle", "line", "call", "forget", "session"}
      /\ q.pc # "idle" => q.cmd \in Cmd /\ q.mem = clerk[p].mem /\ q.base = clerk[p].base
      /\ q.pc = "idle" => q.mem = Default /\ q.base = 0
      /\ q.pc = "line" => q.notes # <<>>
      /\ q.drops = {}
  BY <1>1, <1>3, ProceedFacts, ProcessFacts
<1>. HIDE DEF q
<1>5. IInv'
  BY <1>1, <1>2, <1>4, MoveKeeps, ProcessFacts
<1>. QED BY <1>2, <1>4, <1>5 DEF IInv, TypeInv

LEMMA WriteLineKeeps ==
  ASSUME IInv, NEW p \in Clerk, WriteLine(p)
  PROVE  IInv'
<1>. DEFINE q == [clerk[p] EXCEPT !.pc = "newline"]
<1>1. clerk' = [clerk EXCEPT ![p] = q] /\ clerk[p].pc = "line"
  BY DEF WriteLine, Go, In
<1>2. /\ q \in Process /\ q.pc = "newline" /\ q.cmd = clerk[p].cmd /\ q.base = clerk[p].base
      /\ q.drops = clerk[p].drops /\ q.mem = clerk[p].mem /\ q.notes = clerk[p].notes
  BY ProcessFacts DEF Process, Pcs
<1>3. clerk[p].drops = {} /\ clerk[p].cmd \in Cmd /\ clerk[p].notes # <<>>
  BY <1>1 DEF IInv, ProcessInv
<1>4. UNCHANGED <<store, tmp, session, minted, ghosts>>
  BY DEF WriteLine
<1>. HIDE DEF q
<1>. QED BY <1>1, <1>2, <1>3, <1>4, MoveKeeps, ProcessFacts

LEMMA DieKeeps ==
  ASSUME IInv, NEW p \in Clerk, Die(p)
  PROVE  IInv'
  BY RestKeeps, ProcessFacts DEF Die, Leave

\* Every step keeps the invariant.
LEMMA NextKeeps == IInv /\ [TNext]_tvars => IInv'
<1>. SUFFICES ASSUME IInv, [TNext]_tvars PROVE IInv'
  OBVIOUS
<1>1. ASSUME NEW p \in Clerk, WriteNewline(p) \/ RecordFails(p) PROVE IInv'
  <2>1. Recording(p)
    BY <1>1 DEF WriteNewline, RecordFails, CutShort, Recording, In
  <2>. QED BY <1>1, <2>1, NextNoteKeeps DEF WriteNewline, RecordFails
<1>2. CASE UNCHANGED tvars
  <2>1. UNCHANGED <<store, tmp, session, clerk, minted, writes, revoked, revived, tangled>>
    BY <1>2 DEF tvars, ghosts
  <2>. QED BY <2>1 DEF IInv, TypeInv, ProcessInv, TokenInv, AloneInv
<1>. QED BY <1>1, <1>2, StartKeeps, OpenStoreKeeps, CallKeeps, CreateTmpKeeps, WriteTmpKeeps,
            RenameKeeps, AnswerKeeps, SessionKeeps, WriteLineKeeps, DieKeeps DEF TNext

THEOREM TenantInvariance == TSpec => []IInv
  BY InitIInv, NextKeeps, PTL DEF TSpec

\* A token that a call which answered Ok has removed stays out of the store's file,
\* and the file stays whole, for any number of processes that run any commands and die
\* anywhere; but for processes that overlap, as RevocationHolds says.
THEOREM RevocationCorrect == TSpec => []RevocationHolds
<1>1. IInv => RevocationHolds
  BY DEF IInv, AloneInv, RevocationHolds
<1>. QED BY TenantInvariance, <1>1, PTL

---------------------------------------------------------------------------
(* The audit log. *)

Piece == Note \cup {"cut"}
Open == audit[Len(audit)]
Closed == {i \in 1..(Len(audit) - 1) : Readable(audit[i])}
Newline(p) == clerk[p].pc = "newline"

\* A record is kept, cut short, or between its line and its newline; all that the closed
\* lines lack of the kept ones is due to cuts, and a cut whose piece is still on the open
\* line has not cost anything yet.
Owed == kept + Len(Open) - cuts

LogInv ==
  /\ audit \in Seq(Seq(Piece)) /\ audit # <<>>
  /\ kept \in Nat /\ cuts \in Nat /\ crossed \in BOOLEAN
  /\ ~crossed =>
       /\ \A p, q \in Clerk : Newline(p) /\ Newline(q) => p = q
       /\ (\A p \in Clerk : ~Newline(p)) => Cardinality(Closed) >= Owed
       /\ (\E p \in Clerk : Newline(p)) => /\ Cardinality(Closed) + 1 >= Owed
                                           /\ Len(Open) >= 1 /\ Open # <<"cut">>

\* What the shape of the log gives.
LEMMA LogFacts ==
  ASSUME LogInv
  PROVE  /\ Len(audit) \in Nat /\ Len(audit) >= 1
         /\ Open \in Seq(Piece) /\ Len(Open) \in Nat
         /\ IsFiniteSet(Closed) /\ Cardinality(Closed) \in Nat
         /\ kept \in Nat /\ cuts \in Nat /\ Owed \in Int
<1>1. Len(audit) \in Nat /\ Len(audit) >= 1
  BY DEF LogInv
<1>2. Open \in Seq(Piece) /\ Len(Open) \in Nat
  BY <1>1 DEF LogInv, Open
<1>3. IsFiniteSet(1..(Len(audit) - 1))
  BY <1>1, FS_Interval
<1>4. IsFiniteSet(Closed) /\ Cardinality(Closed) \in Nat
  BY <1>3, FS_Subset, FS_CardinalityType DEF Closed
<1>. QED BY <1>1, <1>2, <1>4 DEF LogInv, Owed

LEMMA InitLog == TInit => LogInv
<1>. SUFFICES ASSUME TInit PROVE LogInv
  OBVIOUS
<1>1. audit = <<<<>>>> /\ kept = 0 /\ cuts = 0 /\ crossed = FALSE
  BY DEF TInit
<1>2. \A p \in Clerk : ~Newline(p)
  BY DEF TInit, Newline, Rest
<1>3. Len(audit) = 1 /\ Open = <<>> /\ Len(Open) = 0 /\ Owed = 0
  BY <1>1 DEF Open, Owed
<1>4. audit \in Seq(Seq(Piece))
  BY <1>1
<1>5. Closed = {}
  BY <1>3 DEF Closed
<1>6. Cardinality(Closed) = 0
  BY <1>5, FS_EmptySet
<1>7. Cardinality(Closed) >= Owed
  BY <1>3, <1>6
<1>8. audit # <<>> /\ kept \in Nat /\ cuts \in Nat /\ crossed \in BOOLEAN
  BY <1>1
<1>. QED BY <1>2, <1>4, <1>7, <1>8 DEF LogInv

\* A step that leaves the log alone, and the processes that lack a newline.
LEMMA LogUnmoved ==
  ASSUME LogInv, UNCHANGED logvars, \A x \in Clerk : Newline(x)' <=> Newline(x)
  PROVE  LogInv'
<1>1. UNCHANGED <<audit, kept, cuts, crossed>>
  BY DEF logvars
<1>2. Open' = Open /\ Closed' = Closed /\ Owed' = Owed
  BY <1>1 DEF Open, Closed, Owed
<1>. QED BY <1>1, <1>2 DEF LogInv

\* A piece is put on the open line.
LEMMA OnLastLineFacts ==
  ASSUME LogInv, NEW piece \in Piece, audit' = OnLastLine(audit, piece)
  PROVE  /\ audit' \in Seq(Seq(Piece)) /\ audit' # <<>>
         /\ Closed' = Closed
         /\ Open' = Append(Open, piece) /\ Len(Open') = Len(Open) + 1
<1>. DEFINE n == Len(audit)
<1>1. n \in Nat /\ n >= 1 /\ Open \in Seq(Piece) /\ audit \in Seq(Seq(Piece))
  BY LogFacts DEF LogInv
<1>2. audit' = [audit EXCEPT ![n] = Append(Open, piece)] /\ Append(Open, piece) \in Seq(Piece)
  BY <1>1 DEF OnLastLine, Open
<1>3. /\ audit' \in Seq(Seq(Piece)) /\ Len(audit') = n /\ audit'[n] = Append(Open, piece)
      /\ \A i \in 1..(n - 1) : audit'[i] = audit[i]
  BY <1>1, <1>2
<1>4. Open' = Append(Open, piece)
  BY <1>3 DEF Open
<1>5. Closed' = Closed
  BY <1>1, <1>3 DEF Closed
<1>6. Len(Append(Open, piece)) = Len(Open) + 1
  BY <1>1
<1>7. audit' # <<>>
  BY <1>1, <1>3
<1>. QED BY <1>3, <1>4, <1>5, <1>6, <1>7

LEMMA WriteLineLog ==
  ASSUME IInv, LogInv, NEW p \in Clerk, WriteLine(p)
  PROVE  LogInv'
<1>. DEFINE piece == Head(clerk[p].notes)
<1>1. /\ clerk[p].pc = "line" /\ audit' = OnLastLine(audit, piece)
      /\ crossed' = (crossed \/ \E q \in Clerk \ {p} : Newline(q))
      /\ UNCHANGED <<kept, cuts>> /\ clerk' = [clerk EXCEPT ![p].pc = "newline"]
  BY DEF WriteLine, In, Newline, Go
<1>2. piece \in Note /\ piece \in Piece /\ piece # "cut"
  BY <1>1, ProcessFacts DEF IInv, ProcessInv, Piece, Note
<1>3. /\ audit' \in Seq(Seq(Piece)) /\ audit' # <<>> /\ Closed' = Closed
      /\ Open' = Append(Open, piece) /\ Len(Open') = Len(Open) + 1
  BY <1>1, <1>2, OnLastLineFacts
<1>4. Newline(p)' /\ \A x \in Clerk \ {p} : Newline(x)' <=> Newline(x)
  BY <1>1 DEF IInv, TypeInv, Newline, Process
<1>5. Owed' = Owed + 1
  BY <1>1, <1>3, LogFacts DEF Owed
<1>6. Open' # <<"cut">> /\ Len(Open') >= 1
  <2>1. Open'[Len(Open) + 1] = piece /\ Len(Open) \in Nat
    BY <1>3, LogFacts
  <2>2. ASSUME Open' = <<"cut">> PROVE FALSE
    <3>1. Len(Open') = 1 /\ Open'[1] = "cut"
      BY <2>2
    <3>. QED BY <1>2, <1>3, <2>1, <3>1
  <2>. QED BY <1>3, <2>1, <2>2
<1>7. ASSUME ~crossed'
      PROVE  /\ \A x, y \in Clerk : Newline(x)' /\ Newline(y)' => x = y
             /\ Cardinality(Closed') + 1 >= Owed'
  <2>1. ~crossed /\ \A x \in Clerk : ~Newline(x)
    BY <1>1, <1>7 DEF Newline
  <2>2. Cardinality(Closed) >= Owed /\ Cardinality(Closed) \in Nat /\ Owed \in Int
    BY <2>1, LogFacts DEF LogInv
  <2>. QED BY <1>3, <1>4, <1>5, <2>1, <2>2
<1>8. kept' \in Nat /\ cuts' \in Nat /\ crossed' \in BOOLEAN
  BY <1>1 DEF LogInv
<1>. QED BY <1>3, <1>4, <1>6, <1>7, <1>8 DEF LogInv

LEMMA WriteNewlineLog ==
  ASSUME IInv, LogInv, NEW p \in Clerk, WriteNewline(p)
  PROVE  LogInv'
<1>. DEFINE n == Len(audit)
<1>1. /\ Newline(p) /\ audit' = Append(audit, <<>>) /\ kept' = kept + 1 /\ UNCHANGED <<cuts, crossed>>
  BY DEF WriteNewline, In, Newline
<1>2. ~Newline(p)' /\ \A x \in Clerk \ {p} : Newline(x)' <=> Newline(x)
  BY <1>1, NextNoteKeeps DEF WriteNewline, Recording, Newline
<1>3. /\ n \in Nat /\ n >= 1 /\ audit \in Seq(Seq(Piece)) /\ Open \in Seq(Piece)
      /\ IsFiniteSet(Closed) /\ Cardinality(Closed) \in Nat /\ kept \in Nat /\ cuts \in Nat
      /\ Len(Open) \in Nat
  BY LogFacts DEF LogInv
<1>4. /\ audit' \in Seq(Seq(Piece)) /\ Len(audit') = n + 1 /\ audit'[n + 1] = <<>>
      /\ \A i \in 1..n : audit'[i] = audit[i]
  BY <1>1, <1>3
<1>5. Open' = <<>> /\ Owed' = kept + 1 - cuts /\ audit' # <<>>
  <2>1. Open' = <<>> /\ audit' # <<>>
    BY <1>3, <1>4 DEF Open
  <2>2. Len(Open') = 0
    BY <2>1
  <2>. QED BY <1>1, <1>3, <2>1, <2>2 DEF Owed
<1>6. Closed' = IF Readable(Open) THEN Closed \cup {n} ELSE Closed
  <2>1. Closed' = {i \in 1..n : Readable(audit[i])}
    BY <1>3, <1>4 DEF Closed
  <2>2. \A i \in 1..n : i \in 1..(n - 1) \/ i = n
    BY <1>3
  <2>3. 1..(n - 1) \subseteq 1..n /\ n \in 1..n
    BY <1>3
  <2>. QED BY <2>1, <2>2, <2>3 DEF Closed, Open
<1>7. ASSUME ~crossed'
      PROVE  /\ \A x, y \in Clerk : Newline(x)' /\ Newline(y)' => x = y
             /\ \A x \in Clerk : ~Newline(x)'
             /\ Cardinality(Closed') >= Owed'
  <2>1. /\ Cardinality(Closed) + 1 >= Owed /\ Len(Open) >= 1 /\ Open # <<"cut">>
        /\ \A x \in Clerk : ~Newline(x)'
    BY <1>1, <1>2, <1>7 DEF LogInv
  <2>4. Cardinality(Closed) + 1 >= kept + Len(Open) - cuts /\ Len(Open) >= 1
    BY <2>1 DEF Owed
  <2>. SUFFICES Cardinality(Closed') >= Owed'
    BY <2>1
  <2>2. CASE Readable(Open)
    <3>1. n \notin Closed
      BY <1>3 DEF Closed
    <3>2. Cardinality(Closed') = Cardinality(Closed) + 1
      BY <1>3, <1>6, <2>2, <3>1, FS_AddElement
    <3>3. Len(Open) = 1
      BY <2>2 DEF Readable
    <3>. QED BY <1>3, <1>5, <2>4, <3>2, <3>3
  <2>3. CASE ~Readable(Open)
    <3>1. Len(Open) # 1
      BY <2>1, <2>3 DEF Readable
    <3>2. Closed' = Closed
      BY <1>6, <2>3
    <3>3. Len(Open) \in Nat /\ kept \in Nat /\ cuts \in Nat /\ Cardinality(Closed) \in Nat
      BY <1>3
    <3>4. Cardinality(Closed) >= kept + 1 - cuts
      <4>1. \A a, b, k, d \in Nat : a + 1 >= b + k - d /\ k >= 1 /\ k # 1 => a >= b + 1 - d
        OBVIOUS
      <4>. QED BY <2>4, <3>1, <3>3, <4>1
    <3>. QED BY <1>5, <3>2, <3>4
  <2>. QED BY <2>2, <2>3
<1>8. kept' \in Nat /\ cuts' \in Nat /\ crossed' \in BOOLEAN
  BY <1>1, <1>3 DEF LogInv
<1>. QED BY <1>4, <1>5, <1>7, <1>8 DEF LogInv

\* A record that stops, however it does.
LEMMA CutShortLog ==
  ASSUME IInv, LogInv, NEW p \in Clerk, CutShort(p),
         ~Newline(p)', \A x \in Clerk \ {p} : Newline(x)' <=> Newline(x)
  PROVE  LogInv'
<1>1. CASE clerk[p].pc = "line" /\ UNCHANGED logvars
  BY <1>1, LogUnmoved DEF Newline
<1>2. ASSUME clerk[p].pc = "line", audit' = OnLastLine(audit, "cut"), cuts' = cuts + 1,
             UNCHANGED <<kept, crossed>>
      PROVE  LogInv'
  <2>1. /\ audit' \in Seq(Seq(Piece)) /\ audit' # <<>> /\ Closed' = Closed
        /\ Open' = Append(Open, "cut") /\ Len(Open') = Len(Open) + 1
    BY <1>2, OnLastLineFacts DEF Piece
  <2>2. Owed' = Owed
    BY <1>2, <2>1, LogFacts DEF Owed
  <2>3. \A x \in Clerk : Newline(x)' <=> Newline(x)
    BY <1>2 DEF Newline
  <2>4. Len(Open) >= 1 => Open' # <<"cut">> /\ Len(Open') >= 1
    <3>1. Open' = <<"cut">> => Len(Open') = 1
      OBVIOUS
    <3>. QED BY <2>1, <3>1, LogFacts
  <2>5. kept' \in Nat /\ cuts' \in Nat /\ crossed' \in BOOLEAN
    BY <1>2 DEF LogInv
  <2>. QED BY <1>2, <2>1, <2>2, <2>3, <2>4, <2>5 DEF LogInv
<1>3. ASSUME Newline(p), cuts' = cuts + 1, UNCHANGED <<audit, kept, crossed>>
      PROVE  LogInv'
  <2>1. Open' = Open /\ Closed' = Closed
    BY <1>3 DEF Open, Closed
  <2>2. Owed' = Owed - 1
    BY <1>3, <2>1, LogFacts DEF Owed
  <2>3. ~crossed' => \A x \in Clerk : ~Newline(x)'
    BY <1>3 DEF LogInv
  <2>4. ~crossed' => Cardinality(Closed) + 1 >= Owed
    BY <1>3 DEF LogInv
  <2>5. ~crossed' => Cardinality(Closed') >= Owed'
    BY <2>1, <2>2, <2>4, LogFacts
  <2>6. kept' \in Nat /\ cuts' \in Nat /\ crossed' \in BOOLEAN /\ audit' \in Seq(Seq(Piece)) /\ audit' # <<>>
    BY <1>3 DEF LogInv
  <2>. QED BY <2>3, <2>5, <2>6 DEF LogInv
<1>. QED BY <1>1, <1>2, <1>3 DEF CutShort, Recording, In, Newline

\* The processes that have a line to end are the same after every other step.
LEMMA OthersLog ==
  ASSUME IInv, NEW p \in Clerk,
         \/ Start(p) \/ OpenStore(p) \/ Call(p) \/ CreateTmp(p) \/ WriteTmp(p) \/ Rename(p)
         \/ Answer(p) \/ TruncateSession(p) \/ WriteSession(p) \/ RemoveSession(p)
  PROVE  UNCHANGED logvars /\ \A x \in Clerk : Newline(x)' <=> Newline(x)
<1>1. UNCHANGED logvars
  BY DEF Start, OpenStore, Call, CreateTmp, WriteTmp, Rename, Answer, TruncateSession,
         WriteSession, RemoveSession
<1>. SUFFICES \A x \in Clerk : Newline(x)' <=> Newline(x)
  BY <1>1
<1>2. clerk[p].pc # "newline"
  BY DEF Start, OpenStore, Call, CreateTmp, WriteTmp, Rename, MayRename, Answer, TruncateSession,
         WriteSession, RemoveSession, In
<1>3. clerk \in [Clerk -> Process] /\ \A x \in Clerk : clerk[x].script \in Seq(Command)
  BY ProcessFacts DEF IInv, TypeInv
<1>4. \A script : Rest(script).pc = "idle"
  BY DEF Rest
<1>5. \A proc, to, b : proc \in Process => Proceed(proc, to, b).pc # "newline"
  BY <1>4 DEF Proceed, Pc, Process
<1>6. \A x \in Clerk : [clerk[x] EXCEPT !.fd = Renamed(@)] \in Process
                       /\ [clerk[x] EXCEPT !.fd = Renamed(@)].pc = clerk[x].pc
  <2>1. \A fd \in {"none", "tmp", "store", "gone"} : Renamed(fd) \in {"none", "tmp", "store", "gone"}
    BY DEF Renamed
  <2>. QED BY <1>3, <2>1 DEF Process
<1>7. ASSUME NEW q, clerk' = [clerk EXCEPT ![p] = q], q.pc # "newline"
      PROVE  \A x \in Clerk : Newline(x)' <=> Newline(x)
  BY <1>2, <1>3, <1>7 DEF Newline
<1>8. CASE Start(p)
  <2>. DEFINE r == Rest(Tail(clerk[p].script))
              d == Head(clerk[p].script)
              q1 == [r EXCEPT !.pc = "open", !.cmd = d, !.calls = Calls(d.op),
                              !.token = IF d.op \in SessionOps THEN session ELSE 0]
  <2>1. clerk' = [clerk EXCEPT ![p] = r] \/ clerk' = [clerk EXCEPT ![p] = q1]
    BY <1>8 DEF Start
  <2>2. r.pc # "newline" /\ q1.pc # "newline"
    BY DEF Rest
  <2>. HIDE DEF r, q1
  <2>. QED BY <1>7, <2>1, <2>2
<1>9. CASE OpenStore(p)
  <2>1. \/ clerk' = [clerk EXCEPT ![p] = Rest(clerk[p].script)]
        \/ clerk' = [clerk EXCEPT ![p] = [clerk[p] EXCEPT !.pc = "call", !.mem = Opened, !.base = writes]]
    BY <1>3, <1>9 DEF OpenStore, Leave, Go
  <2>2. [clerk[p] EXCEPT !.pc = "call", !.mem = Opened, !.base = writes].pc # "newline"
    BY <1>3 DEF Process
  <2>. QED BY <1>4, <1>7, <2>1, <2>2
<1>10. CASE Call(p)
  <2>. DEFINE call == Head(clerk[p].calls)
              token == IF call = "mint" THEN minted + 1 ELSE clerk[p].token
              r == StoreCall(clerk[p].mem, call, clerk[p].cmd, token)
              dr == Tokens(clerk[p].mem) \ Tokens(r.mem)
              q == [clerk[p] EXCEPT !.pc = "create", !.calls = Tail(clerk[p].calls), !.mem = r.mem,
                                    !.token = token, !.drops = dr]
  <2>1. \/ clerk' = [[clerk EXCEPT ![p].pc = "create"] EXCEPT
                       ![p].calls = Tail(@), ![p].mem = r.mem, ![p].token = token, ![p].drops = dr]
        \/ \E to \in Steps(p, FALSE) : clerk' = [clerk EXCEPT ![p] = Proceed(@, to, @.base)]
    BY <1>10 DEF Call, Go
  <2>2. CASE \E to \in Steps(p, FALSE) : clerk' = [clerk EXCEPT ![p] = Proceed(@, to, @.base)]
    <3>1. PICK to : clerk' = [clerk EXCEPT ![p] = Proceed(clerk[p], to, clerk[p].base)]
      BY <1>3, <2>2
    <3>. DEFINE q1 == Proceed(clerk[p], to, clerk[p].base)
    <3>2. q1.pc # "newline"
      BY <1>3, <1>5
    <3>. HIDE DEF q1
    <3>. QED BY <1>7, <3>1, <3>2 DEF q1
  <2>. HIDE DEF r, token, dr
  <2>3. CASE clerk' = [[clerk EXCEPT ![p].pc = "create"] EXCEPT
                         ![p].calls = Tail(@), ![p].mem = r.mem, ![p].token = token, ![p].drops = dr]
    <3>1. clerk' = [clerk EXCEPT ![p] = q] /\ q.pc = "create"
      BY <1>3, <2>3 DEF Process
    <3>. HIDE DEF q
    <3>. QED BY <1>7, <3>1
  <2>. QED BY <2>1, <2>2, <2>3
<1>11. CASE CreateTmp(p)
  <2>. DEFINE q == [clerk[p] EXCEPT !.pc = "write", !.fd = "tmp"]
  <2>1. clerk' = [clerk EXCEPT ![p] = q] /\ q.pc = "write"
    BY <1>3, <1>11 DEF CreateTmp, Go, Process
  <2>. HIDE DEF q
  <2>. QED BY <1>7, <2>1
<1>12. CASE WriteTmp(p) \/ TruncateSession(p)
  <2>1. PICK pc \in {"rename", "session2"} : clerk' = [clerk EXCEPT ![p] = [clerk[p] EXCEPT !.pc = pc]]
    BY <1>3, <1>12 DEF WriteTmp, TruncateSession, Go
  <2>2. [clerk[p] EXCEPT !.pc = pc].pc = pc
    BY <1>3 DEF Process
  <2>. QED BY <1>7, <2>1, <2>2
<1>13. CASE Answer(p) \/ WriteSession(p) \/ RemoveSession(p)
  BY <1>4, <1>7, <1>13 DEF Answer, WriteSession, RemoveSession, Leave
<1>14. CASE Rename(p)
  <2>1. CASE tmp = Missing
    <3>1. PICK to : clerk' = [clerk EXCEPT ![p] = Proceed(clerk[p], to, clerk[p].base)]
      BY <1>3, <1>14, <2>1 DEF Rename
    <3>. DEFINE q1 == Proceed(clerk[p], to, clerk[p].base)
    <3>2. q1.pc # "newline"
      BY <1>3, <1>5
    <3>. HIDE DEF q1
    <3>. QED BY <1>7, <3>1, <3>2 DEF q1
  <2>2. CASE tmp # Missing
    <3>. DEFINE others == [x \in Clerk |-> [clerk[x] EXCEPT !.fd = Renamed(@)]]
    <3>1. PICK to : clerk' = [others EXCEPT ![p] = Proceed(@, to, writes + 1)]
      BY <1>14, <2>2 DEF Rename
    <3>2. \A x \in Clerk : others[x] \in Process /\ others[x].pc = clerk[x].pc
      BY <1>6
    <3>3. DOMAIN others = Clerk
      OBVIOUS
    <3>. HIDE DEF others
    <3>4. /\ clerk'[p] = Proceed(others[p], to, writes + 1)
          /\ \A x \in Clerk \ {p} : clerk'[x] = others[x]
      BY <3>1, <3>3
    <3>5. clerk'[p].pc # "newline"
      BY <1>5, <3>2, <3>4
    <3>. QED BY <1>2, <3>2, <3>4, <3>5 DEF Newline
  <2>. QED BY <2>1, <2>2
<1>. QED BY <1>8, <1>9, <1>10, <1>11, <1>12, <1>13, <1>14

\* Every step keeps the account of the log.
LEMMA NextLog == IInv /\ LogInv /\ [TNext]_tvars => LogInv'
<1>. SUFFICES ASSUME IInv, LogInv, [TNext]_tvars PROVE LogInv'
  OBVIOUS
<1>1. ASSUME NEW p \in Clerk, RecordFails(p) PROVE LogInv'
  <2>1. CutShort(p) /\ Recording(p)
    BY <1>1 DEF RecordFails, CutShort, Recording, In
  <2>2. ~Newline(p)' /\ \A x \in Clerk \ {p} : Newline(x)' <=> Newline(x)
    BY <1>1, <2>1, NextNoteKeeps DEF RecordFails, Newline
  <2>. QED BY <2>1, <2>2, CutShortLog
<1>2. ASSUME NEW p \in Clerk, Die(p) PROVE LogInv'
  <2>1. ~Newline(p)' /\ \A x \in Clerk \ {p} : Newline(x)' <=> Newline(x)
    BY <1>2 DEF Die, Leave, Rest, Newline, IInv, TypeInv
  <2>2. CASE Recording(p)
    BY <1>2, <2>1, <2>2, CutShortLog DEF Die
  <2>3. CASE ~Recording(p)
    <3>1. UNCHANGED logvars /\ ~Newline(p)
      BY <1>2, <2>3 DEF Die, Recording, Newline
    <3>. QED BY <2>1, <3>1, LogUnmoved
  <2>. QED BY <2>2, <2>3
<1>3. CASE UNCHANGED tvars
  <2>1. UNCHANGED logvars /\ \A x \in Clerk : Newline(x)' <=> Newline(x)
    BY <1>3 DEF tvars, Newline
  <2>. QED BY <2>1, LogUnmoved
<1>. QED BY <1>1, <1>2, <1>3, WriteLineLog, WriteNewlineLog, OthersLog, LogUnmoved DEF TNext

\* A record that is cut short, by a kill or by a full disk, costs the log at most one
\* other event, for any number of processes that record one at a time, of any length.
THEOREM HistoryCorrect == TSpec => []HistoryNotPoisoned
<1>1. LogInv => HistoryNotPoisoned
  <2>. SUFFICES ASSUME LogInv, ~crossed PROVE Cardinality(ReadAll(audit)) >= kept - cuts
    BY DEF HistoryNotPoisoned
  <2>1. IsFiniteSet(1..Len(audit))
    BY LogFacts, FS_Interval
  <2>2. ReadAll(audit) \subseteq 1..Len(audit) /\ Closed \subseteq ReadAll(audit)
    BY LogFacts DEF ReadAll, Closed
  <2>3. IsFiniteSet(ReadAll(audit)) /\ Cardinality(ReadAll(audit)) \in Nat
    BY <2>1, <2>2, FS_Subset, FS_CardinalityType
  <2>4. Cardinality(Closed) <= Cardinality(ReadAll(audit))
    BY <2>2, <2>3, FS_Subset
  <2>5. Cardinality(Closed) >= kept - cuts
    <3>1. \/ Cardinality(Closed) >= Owed
          \/ Cardinality(Closed) + 1 >= Owed /\ Len(Open) >= 1
      BY DEF LogInv
    <3>. QED BY <3>1, LogFacts DEF Owed
  <2>. QED BY <2>3, <2>4, <2>5, LogFacts
<1>. QED BY TenantInvariance, InitLog, NextLog, <1>1, PTL DEF TSpec

=============================================================================
