---------------------------- MODULE VmLifecycle -----------------------------
(***************************************************************************)
(* The life of one VM slot as the callers of a hypervisor may rely on it   *)
(* (celhyper/src/vm.rs, and the table of transitions of the loopback link  *)
(* in celmesh/src/hyper_host.rs): a VM is created, runs once, ends for one *)
(* reason, and stays as it ended until its slot is given back.             *)
(***************************************************************************)
CONSTANTS
  Reason,  \* exit reasons
  Halt,    \* the one of a guest that halts
  NoExit,  \* no exit recorded
  Image    \* guest images

VARIABLE life  \* what the slot's VM has come to

Terminal == {"halted", "stopped", "faulted"}
Free == [state |-> "free", exit |-> NoExit, image |-> NoExit]

Init == life = Free

Create == life = Free /\ \E i \in Image : life' = [state |-> "created", exit |-> NoExit, image |-> i]
Start == life.state = "created" /\ life' = [life EXCEPT !.state = "running"]

\* A VM ends by itself, stopped from outside, or by a fault.
End == /\ life.state \in {"created", "running"}
       /\ \/ life' = [life EXCEPT !.state = "halted", !.exit = Halt]
          \/ life' = [life EXCEPT !.state = "stopped"]
          \/ \E e \in Reason \ {Halt} : life' = [life EXCEPT !.state = "faulted", !.exit = e]

Delete == life.state \in Terminal /\ life' = Free

Next == Create \/ Start \/ End \/ Delete
Spec == Init /\ [][Next]_life
=============================================================================
