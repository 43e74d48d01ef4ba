------------------------------- MODULE Gossip -------------------------------
(***************************************************************************)
(* The gossip plane of celmesh (celmesh/src/mesh.rs): nodes that start,    *)
(* greet their seeds, gossip their whole membership table to one peer per  *)
(* interval, publish, leave with a Goodbye or crash, over a transport that *)
(* loses, duplicates and reorders datagrams.                               *)
(*                                                                         *)
(* One action is one handler or one turn of a loop.  The lock on Inner is  *)
(* released between the sends of a burst; what other tasks of the node do  *)
(* in these gaps is taken to happen before or after the burst.             *)
(***************************************************************************)
EXTENDS Membership, FiniteSets

CONSTANTS
  Node,         \* node identities
  Seeds,        \* MeshConfig::seeds of each node
  MaxHlc,       \* the value the logical clock saturates at (u64::MAX)
  Joins,        \* pairs (node, peer) for which an operator may call join
  Publishers,   \* nodes whose controller publishes VMs
  Mortals,      \* nodes that may shut down or crash
  MaxEpoch,     \* bound on the starts of a node
  MaxInFlight,  \* datagrams the network holds; more are dropped
  MaxCopies     \* how often the network may deliver one datagram

ASSUME GossipAssumption ==
  /\ IsFiniteSet(Node)
  /\ Seeds \in [Node -> SUBSET Node]
  /\ \A n \in Node : n \notin Seeds[n]
  /\ Joins \subseteq {j \in Node \X Node : j[1] # j[2]}
  /\ Publishers \subseteq Node
  /\ Mortals \subseteq Node
  /\ MaxHlc \in Nat \ {0}
  /\ MaxEpoch \in Nat \ {0}
  /\ MaxInFlight \in Nat
  /\ MaxCopies \in Nat \ {0}

VARIABLES
  running,  \* the node's tasks are running
  epoch,    \* MeshConfig::epoch of the latest start, 0 before the first
  hlc,      \* Inner::hlc, frozen while the node is stopped
  rows,     \* Membership::rows
  age,      \* time since LocalState::last_seen, capped at TimeoutDead
  known,    \* Inner::known
  net       \* datagrams in flight

local == <<running, epoch, hlc, rows, age, known>>
vars == <<running, epoch, hlc, rows, age, known, net>>

\* The tables of one node: Membership::rows and, per row, its silence.
Table == [Node -> NodeInfo \cup {NoRow}]
Ages == [Node -> 0..TimeoutDead]

EmptyTable == [m \in Node |-> NoRow]
NoAges == [m \in Node |-> 0]

Envelope == [kind : {"Gossip", "Goodbye"}, from : Node, to : Node,
             nodes : Table, copies : 1..MaxCopies]

TypeOK ==
  /\ running \in [Node -> BOOLEAN]
  /\ epoch \in [Node -> 0..MaxEpoch]
  /\ hlc \in [Node -> 0..MaxHlc]
  /\ rows \in [Node -> Table]
  /\ age \in [Node -> Ages]
  /\ known \in [Node -> SUBSET Node]
  /\ net \in SUBSET Envelope

\* No node has been started yet.
Init ==
  /\ running = [n \in Node |-> FALSE]
  /\ epoch = [n \in Node |-> 0]
  /\ hlc = [n \in Node |-> 0]
  /\ rows = [n \in Node |-> EmptyTable]
  /\ age = [n \in Node |-> NoAges]
  /\ known = [n \in Node |-> {}]
  /\ net = {}

---------------------------------------------------------------------------
(* The transport. *)

\* Transport::send: each datagram is lost, or arrives up to MaxCopies times.
Transmit(msgs) ==
  \E sent \in SUBSET {[m EXCEPT !.copies = c] : m \in msgs, c \in 1..MaxCopies} :
    /\ Cardinality(net \cup sent) <= MaxInFlight
    /\ net' = net \cup sent

\* Transport::recv takes one copy of a datagram.
Receive(msg) ==
  net' = (net \ {msg}) \cup
         (IF msg.copies > 1 THEN {[msg EXCEPT !.copies = @ - 1]} ELSE {})

---------------------------------------------------------------------------
(* Deliberate faults the runs must detect. *)

HlcUnbounded(h, k) == h + k

StartKeepsEpoch(n) ==
  /\ ~running[n]
  /\ epoch[n] < MaxEpoch
  /\ LET e == IF epoch[n] = 0 THEN 1 ELSE epoch[n] IN
     /\ epoch' = [epoch EXCEPT ![n] = e]
     /\ rows' = [rows EXCEPT ![n] =
          [EmptyTable EXCEPT ![n] = [epoch |-> e, hlc |-> 0, status |-> "Alive"]]]
  /\ running' = [running EXCEPT ![n] = TRUE]
  /\ hlc' = [hlc EXCEPT ![n] = 0]
  /\ known' = [known EXCEPT ![n] = Seeds[n]]
  /\ UNCHANGED <<age, net>>

---------------------------------------------------------------------------
(* What a node puts into its datagrams. *)

\* Inner::tick_hlc, k times: saturating_add.
TickHlc(h, k) == IF h + k < MaxHlc THEN h + k ELSE MaxHlc

\* A row about the node itself carries the clock value of the send; the row in
\* its own table does not change.
SelfRow(row, h) == [row EXCEPT !.hlc = h]

\* Mesh::send_hello: the own row alone.
Hello(n, p, row, h) ==
  [kind |-> "Gossip", from |-> n, to |-> p,
   nodes |-> [EmptyTable EXCEPT ![n] = SelfRow(row, h)], copies |-> 1]

\* Mesh::send_sync: every row of the table, whatever its status.
Sync(n, p, table, h) ==
  [kind |-> "Gossip", from |-> n, to |-> p,
   nodes |-> [table EXCEPT ![n] = SelfRow(@, h)], copies |-> 1]

Goodbye(n, p) ==
  [kind |-> "Goodbye", from |-> n, to |-> p, nodes |-> EmptyTable, copies |-> 1]

\* The orders in which a burst may reach its targets.
Orders(targets) ==
  {f \in [targets -> 1..Cardinality(targets)] : \A p, q \in targets : f[p] = f[q] => p = q}

---------------------------------------------------------------------------
(* A node starts, stops or loses its state. *)

\* Mesh::start.  The operator gives every start a larger epoch, as the runbook
\* demands (docs/RUNBOOK.md:32); the clock and both tables start afresh, and
\* every seed is greeted.
Start(n) ==
  /\ ~running[n]
  /\ epoch[n] < MaxEpoch
  /\ epoch' = [epoch EXCEPT ![n] = @ + 1]
  /\ LET self == [epoch |-> epoch[n] + 1, hlc |-> 0, status |-> "Alive"] IN
     /\ rows' = [rows EXCEPT ![n] = [EmptyTable EXCEPT ![n] = self]]
     /\ \E pos \in Orders(Seeds[n]) :
          Transmit({Hello(n, p, self, TickHlc(0, pos[p])) : p \in Seeds[n]})
  /\ running' = [running EXCEPT ![n] = TRUE]
  /\ hlc' = [hlc EXCEPT ![n] = TickHlc(0, Cardinality(Seeds[n]))]
  /\ known' = [known EXCEPT ![n] = Seeds[n]]
  /\ UNCHANGED age

\* The node's memory is gone: what a stopped process leaves behind.
Forget(n) ==
  /\ running' = [running EXCEPT ![n] = FALSE]
  /\ rows' = [rows EXCEPT ![n] = EmptyTable]
  /\ age' = [age EXCEPT ![n] = NoAges]
  /\ known' = [known EXCEPT ![n] = {}]
  /\ UNCHANGED epoch

Crash(n) ==
  /\ running[n]
  /\ Forget(n)
  /\ UNCHANGED <<hlc, net>>

\* Mesh::shutdown: a Goodbye to every row, then the tasks are aborted.
Shutdown(n) ==
  /\ running[n]
  /\ hlc' = [hlc EXCEPT ![n] = TickHlc(@, 1)]
  /\ Transmit({Goodbye(n, m) : m \in {m \in Node \ {n} : Known(rows[n][m])}})
  /\ Forget(n)

---------------------------------------------------------------------------
(* What a running node sends. *)

\* The rows a node may write to: every peer that has not left.
Reachable(n, table) == {p \in Node \ {n} : table[p].status \notin {"None", "Left"}}

\* Mesh::join: the address is remembered, then greeted.
Join(n, p) ==
  /\ running[n]
  /\ known' = [known EXCEPT ![n] = @ \cup {p}]
  /\ hlc' = [hlc EXCEPT ![n] = TickHlc(@, 1)]
  /\ Transmit({Hello(n, p, rows[n][n], TickHlc(hlc[n], 1))})
  /\ UNCHANGED <<running, epoch, rows, age>>

\* Mesh::publish_local_vms as far as the membership goes: the own row is
\* stamped with a new clock value and synced to every peer that has not left.
Publish(n) ==
  /\ running[n]
  /\ LET targets == Reachable(n, rows[n])
         table   == [rows[n] EXCEPT ![n] = BumpSelf(@, TickHlc(hlc[n], 1))]
     IN /\ rows' = [rows EXCEPT ![n] = table]
        /\ hlc' = [hlc EXCEPT ![n] = TickHlc(@, 1 + Cardinality(targets))]
        /\ \E pos \in Orders(targets) :
             Transmit({Sync(n, p, table, TickHlc(hlc[n], 1 + pos[p])) : p \in targets})
  /\ UNCHANGED <<running, epoch, age, known>>

\* One turn of gossiper_loop: the failure detector, then a sync to one target
\* among the rows that have not left and the addresses ever heard of.  pick_one
\* indexes a list whose tail is in HashSet order: any candidate may come up.
GossipTick(n) ==
  /\ running[n]
  /\ LET table      == [m \in Node |-> Tick(n, m, rows[n][m], age[n][m])]
         candidates == Reachable(n, table) \cup known[n]
     IN /\ rows' = [rows EXCEPT ![n] = table]
        /\ \/ /\ candidates = {}
              /\ UNCHANGED <<hlc, net>>
           \/ \E p \in candidates :
                /\ hlc' = [hlc EXCEPT ![n] = TickHlc(@, 1)]
                /\ Transmit({Sync(n, p, table, TickHlc(hlc[n], 1))})
  /\ UNCHANGED <<running, epoch, age, known>>

---------------------------------------------------------------------------
(* What a running node receives: receiver_loop and handle_envelope. *)

\* Payload::Hello and Payload::Sync merge every row they carry.
RecvGossip(msg) ==
  LET n == msg.to IN
  /\ msg.kind = "Gossip"
  /\ running[n]
  /\ Receive(msg)
  /\ known' = [known EXCEPT ![n] = @ \cup {msg.from}]
  /\ rows' = [rows EXCEPT ![n] = [m \in Node |-> Merge(n, m, rows[n][m], msg.nodes[m])]]
  /\ age' = [age EXCEPT ![n] = [m \in Node |-> MergeAge(n, m, age[n][m], msg.nodes[m])]]
  /\ UNCHANGED <<running, epoch, hlc>>

\* Payload::Goodbye
RecvGoodbye(msg) ==
  LET n == msg.to IN
  /\ msg.kind = "Goodbye"
  /\ running[n]
  /\ Receive(msg)
  /\ known' = [known EXCEPT ![n] = @ \cup {msg.from}]
  /\ rows' = [rows EXCEPT ![n][msg.from] = MarkLeft(n, msg.from, @)]
  /\ UNCHANGED <<running, epoch, hlc, age>>

\* A datagram for a stopped node is lost.
Discard(msg) ==
  /\ ~running[msg.to]
  /\ net' = net \ {msg}
  /\ UNCHANGED local

---------------------------------------------------------------------------
(* Time passes.  The silence of a row matters to tick only while the row is  *)
(* Alive or Suspect: in a Dead or Left row it is frozen here, and merge      *)
(* resets it when it revives the row.                                        *)

Ageing(n, m) == m # n /\ rows[n][m].status \in {"Alive", "Suspect"} /\ age[n][m] < TimeoutDead

Elapse ==
  /\ \E n, m \in Node : Ageing(n, m)
  /\ age' = [n \in Node |-> [m \in Node |-> IF Ageing(n, m) THEN age[n][m] + 1 ELSE age[n][m]]]
  /\ UNCHANGED <<running, epoch, hlc, rows, known, net>>

Next ==
  \/ \E n \in Node : Start(n) \/ GossipTick(n)
  \/ \E n \in Mortals : Crash(n) \/ Shutdown(n)
  \/ \E n \in Publishers : Publish(n)
  \/ \E j \in Joins : Join(j[1], j[2])
  \/ \E msg \in net : RecvGossip(msg) \/ RecvGoodbye(msg) \/ Discard(msg)
  \/ Elapse

Spec == Init /\ [][Next]_vars

---------------------------------------------------------------------------
(* Properties. *)

\* The version its owner has issued last: an upper bound on what peers may know.
Issued(m) == [epoch |-> epoch[m], hlc |-> hlc[m]]

\* Nobody holds, and no datagram carries, a version of a node's row that the
\* node has not issued: supersedes then always compares real versions, and a
\* restarted node beats whatever is left of its former life
\* (membership.rs:5, "a restart strictly wins over any pre-restart state").
VersionsAreIssued ==
  /\ \A n, m \in Node : NotOlder(Issued(m), rows[n][m])
  /\ \A msg \in net : \A m \in Node : NotOlder(Issued(m), msg.nodes[m])

\* The own row is authoritative: whatever peers gossip back about a running
\* node, its own table shows it Alive in its current epoch (merge, line 166).
\* is_supervisor relies on it: the lowest Alive row exists in every table.
SelfRowAuthoritative ==
  \A n \in Node : running[n] =>
    /\ rows[n][n].status = "Alive"
    /\ rows[n][n].epoch = epoch[n]
    /\ rows[n][n].hlc <= hlc[n]

\* While a node runs, its row about a peer is only replaced by a newer one:
\* reordered, duplicated and relayed syncs never bring an old row back.
VersionsNeverRegress ==
  [][\A n, m \in Node : running[n] /\ running'[n] => NotOlder(rows'[n][m], rows[n][m])]_vars

\* A verdict is final for the version it was passed on: as long as no newer row
\* arrives, Left stays Left and Dead stays Dead or becomes Left (tick, line 204).
VerdictIsFinal ==
  [][\A n, m \in Node :
       (running[n] /\ running'[n] /\ ~Supersedes(rows'[n][m], rows[n][m])) =>
         /\ rows[n][m].status = "Left" => rows'[n][m].status = "Left"
         /\ rows[n][m].status = "Dead" => rows'[n][m].status \in {"Dead", "Left"}]_vars

\* The nodes' own tasks keep running and time passes.  Nothing is assumed of
\* the network, and nobody has to start, stop, join or publish.
Fairness ==
  /\ WF_vars(Elapse)
  /\ \A n \in Node : WF_vars(GossipTick(n))

FairSpec == Spec /\ Fairness

\* A node that has stopped for good is eventually given up by every node that
\* keeps running: "a node that has not been heard from for more than
\* timeout_suspect is moved to Suspect; after timeout_dead it is moved to Dead"
\* (membership.rs:9).
StoppedNodeIsDetected ==
  \A n, m \in Node :
    <>[](running[n] /\ ~running[m]) => <>[](rows[n][m].status \notin {"Alive", "Suspect"})
=============================================================================
