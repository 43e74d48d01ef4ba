----------------------------- MODULE Membership -----------------------------
(***************************************************************************)
(* The membership table one celmesh node keeps (celmesh/src/membership.rs):*)
(* a row per node it has heard of, and per row the time since the node was *)
(* last heard from.  This module holds the table's operations as operators *)
(* on one table; Gossip.tla runs one table per node.                       *)
(*                                                                         *)
(* A table is a function from node to row.  NoRow stands for a key that is *)
(* absent from the BTreeMap.  Addresses are not modelled: a node keeps its *)
(* advertised address, so a node stands for its own address.               *)
(***************************************************************************)
EXTENDS Integers

CONSTANTS
  TimeoutSuspect,  \* Membership::timeout_suspect, in units of model time
  TimeoutDead      \* Membership::timeout_dead

ASSUME TimeoutAssumption ==
  /\ TimeoutSuspect \in Nat
  /\ TimeoutDead \in Nat \ {0}
  /\ TimeoutSuspect <= TimeoutDead

\* enum NodeStatus
NodeStatus == {"Alive", "Suspect", "Dead", "Left"}

\* struct NodeInfo without the id (the key) and the address.
NodeInfo == [epoch : Nat \ {0}, hlc : Nat, status : NodeStatus]

NoRow == [epoch |-> 0, hlc |-> 0, status |-> "None"]

Known(row) == row # NoRow

\* NodeInfo::supersedes: lexicographic on (epoch, hlc), strict.
Supersedes(a, b) ==
  \/ a.epoch > b.epoch
  \/ a.epoch = b.epoch /\ a.hlc > b.hlc

\* The order the rows are compared in, not strict.
NotOlder(a, b) == ~Supersedes(b, a)

\* Membership::bump_self on the node's own row.
BumpSelf(row, hlc) ==
  [epoch |-> row.epoch, hlc |-> IF row.hlc > hlc THEN row.hlc ELSE hlc, status |-> "Alive"]

---------------------------------------------------------------------------
(* Deliberate faults the runs must detect. *)

MergeLatestArrival(self, id, row, incoming) ==
  IF id # self /\ Known(incoming) THEN incoming ELSE row

MergeOverwritesSelf(self, id, row, incoming) ==
  IF Known(incoming) /\ (~Known(row) \/ Supersedes(incoming, row))
  THEN incoming ELSE row

TickRevivesDeparted(self, id, row, age) ==
  CASE id = self \/ ~Known(row) -> row
    [] OTHER -> [row EXCEPT !.status = IF age >= TimeoutDead THEN "Dead"
                                       ELSE IF age >= TimeoutSuspect THEN "Suspect"
                                       ELSE "Alive"]

TickNeverDead(self, id, row, age) ==
  IF id = self \/ row.status \notin {"Alive", "Suspect"} THEN row
  ELSE [row EXCEPT !.status = IF age >= TimeoutSuspect THEN "Suspect" ELSE "Alive"]

---------------------------------------------------------------------------

\* Membership::merge for one incoming row: a peer never overwrites our own
\* row; an unknown or older row is replaced, status included.
Merge(self, id, row, incoming) ==
  IF /\ id # self
     /\ Known(incoming)
     /\ Known(row) => Supersedes(incoming, row)
  THEN incoming
  ELSE row

\* What merge does to last_seen: every incoming row about a peer restarts the
\* peer's silence, also a row that does not supersede ours (line 178) and a
\* row that a third node relays.
MergeAge(self, id, age, incoming) ==
  IF id # self /\ Known(incoming) THEN 0 ELSE age

\* Membership::mark_left: the status only, (epoch, hlc) stay.
MarkLeft(self, id, row) ==
  IF id # self /\ Known(row) THEN [row EXCEPT !.status = "Left"] ELSE row

\* Membership::tick for one row that has been silent for age.
Tick(self, id, row, age) ==
  IF id = self \/ row.status \notin {"Alive", "Suspect"}
  THEN row
  ELSE [row EXCEPT !.status = CASE age >= TimeoutDead -> "Dead"
                                [] age < TimeoutDead /\ age >= TimeoutSuspect -> "Suspect"
                                [] OTHER -> "Alive"]
=============================================================================
