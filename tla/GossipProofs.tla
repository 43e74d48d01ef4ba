---------------------------- MODULE GossipProofs ----------------------------
(***************************************************************************)
(* Proofs about the gossip plane for any number of nodes, any seeds, any   *)
(* clock width and any network bounds.                                     *)
(***************************************************************************)
EXTENDS Gossip, FiniteSetTheorems, TLAPS

---------------------------------------------------------------------------
(* Lemmas about the operators. *)

\* tick_hlc never moves the clock back and never leaves its range.
LEMMA TickHlcFacts ==
  ASSUME NEW h \in 0..MaxHlc, NEW j \in Nat, NEW k \in Nat, j <= k
  PROVE  /\ TickHlc(h, k) \in 0..MaxHlc
         /\ h <= TickHlc(h, k)
         /\ TickHlc(h, j) <= TickHlc(h, k)
  BY GossipAssumption DEF TickHlc

LEMMA TickHlcGrows ==
  ASSUME NEW h \in 0..MaxHlc, NEW k \in Nat
  PROVE  TickHlc(h, k) \in 0..MaxHlc /\ h <= TickHlc(h, k)
  BY GossipAssumption DEF TickHlc

\* What Transmit leaves in the network is old or a copy of what was sent.
LEMMA TransmitFacts ==
  ASSUME NEW msgs, Transmit(msgs)
  PROVE  \A x \in net' : \/ x \in net
                         \/ \E m \in msgs : \E c \in 1..MaxCopies : x = [m EXCEPT !.copies = c]
  BY DEF Transmit

\* What Receive leaves in the network carries rows that were there before.
LEMMA ReceiveFacts ==
  ASSUME NEW msg \in net, net \subseteq Envelope, Receive(msg)
  PROVE  /\ net' \subseteq Envelope
         /\ \A x \in net' : \E y \in net : x.nodes = y.nodes
<1>1. ASSUME NEW x \in net', x \notin net
      PROVE  x \in Envelope /\ x.nodes = msg.nodes
  <2>1. x = [msg EXCEPT !.copies = msg.copies - 1] /\ msg.copies > 1
    BY <1>1 DEF Receive
  <2>2. msg \in Envelope
    OBVIOUS
  <2>. QED BY <2>1, <2>2, GossipAssumption DEF Envelope
<1>. QED BY <1>1

\* The orders of a burst number its targets from 1.
LEMMA OrderFacts ==
  ASSUME NEW targets \in SUBSET Node, NEW pos \in Orders(targets), NEW p \in targets
  PROVE  /\ Cardinality(targets) \in Nat
         /\ pos[p] \in Nat
         /\ pos[p] <= Cardinality(targets)
<1>1. IsFiniteSet(targets) BY GossipAssumption, FS_Subset
<1>2. Cardinality(targets) \in Nat BY <1>1, FS_CardinalityType
<1>. QED BY <1>2 DEF Orders

\* A merged row is the old one or the incoming one, and not older than the old
\* one; the own row is untouched.
LEMMA MergeFacts ==
  ASSUME NEW n \in Node, NEW m \in Node,
         NEW row \in NodeInfo \cup {NoRow}, NEW incoming \in NodeInfo \cup {NoRow}
  PROVE  /\ Merge(n, m, row, incoming) \in {row, incoming}
         /\ NotOlder(Merge(n, m, row, incoming), row)
         /\ m = n => Merge(n, m, row, incoming) = row
         /\ Merge(n, m, row, incoming) # row =>
              ~Known(row) \/ Supersedes(Merge(n, m, row, incoming), row)
  BY DEF Merge, Known, NoRow, NodeInfo, NotOlder, Supersedes

\* The failure detector keeps a row's version, the own row and final verdicts.
LEMMA TickFacts ==
  ASSUME NEW n \in Node, NEW m \in Node,
         NEW row \in NodeInfo \cup {NoRow}, NEW g \in 0..TimeoutDead
  PROVE  /\ Tick(n, m, row, g) \in NodeInfo \cup {NoRow}
         /\ Tick(n, m, row, g).epoch = row.epoch
         /\ Tick(n, m, row, g).hlc = row.hlc
         /\ m = n => Tick(n, m, row, g) = row
         /\ row.status \in {"Dead", "Left"} => Tick(n, m, row, g) = row
  BY DEF Tick, NoRow, NodeInfo, NodeStatus

\* bump_self keeps the epoch, sets Alive and never moves the clock value back.
LEMMA BumpSelfFacts ==
  ASSUME NEW row \in NodeInfo, NEW h \in Nat
  PROVE  /\ BumpSelf(row, h) \in NodeInfo
         /\ BumpSelf(row, h).epoch = row.epoch
         /\ BumpSelf(row, h).hlc = IF row.hlc > h THEN row.hlc ELSE h
         /\ BumpSelf(row, h).status = "Alive"
  BY DEF BumpSelf, NodeInfo, NodeStatus

LEMMA MarkLeftFacts ==
  ASSUME NEW n \in Node, NEW m \in Node, NEW row \in NodeInfo \cup {NoRow}
  PROVE  /\ MarkLeft(n, m, row) \in NodeInfo \cup {NoRow}
         /\ MarkLeft(n, m, row).epoch = row.epoch
         /\ MarkLeft(n, m, row).hlc = row.hlc
         /\ m = n => MarkLeft(n, m, row) = row
         /\ row.status \in {"Dead", "Left"} => MarkLeft(n, m, row).status \in {row.status, "Left"}
  BY DEF MarkLeft, Known, NoRow, NodeInfo, NodeStatus

\* Every datagram a running node composes is an envelope.
LEMMA DatagramTypes ==
  ASSUME NEW n \in Node, NEW p \in Node, NEW table \in Table, table[n] \in NodeInfo,
         NEW h \in 0..MaxHlc, NEW c \in 1..MaxCopies
  PROVE  /\ [Hello(n, p, table[n], h) EXCEPT !.copies = c] \in Envelope
         /\ [Sync(n, p, table, h) EXCEPT !.copies = c] \in Envelope
         /\ [Goodbye(n, p) EXCEPT !.copies = c] \in Envelope
<1>1. SelfRow(table[n], h) \in NodeInfo
  BY GossipAssumption DEF SelfRow, NodeInfo
<1>2. [EmptyTable EXCEPT ![n] = SelfRow(table[n], h)] \in Table
  BY <1>1 DEF EmptyTable, Table
<1>3. [table EXCEPT ![n] = SelfRow(@, h)] \in Table
  BY <1>1 DEF Table
<1>4. EmptyTable \in Table
  BY DEF EmptyTable, Table
<1>. QED BY <1>2, <1>3, <1>4, GossipAssumption DEF Hello, Sync, Goodbye, Envelope, Table

---------------------------------------------------------------------------
(* Type correctness.  A running node has a row of its own, which is what     *)
(* makes the rows it sends about itself well formed.                         *)

OwnRow == \A n \in Node : running[n] => rows[n][n] \in NodeInfo /\ rows[n][n].epoch = epoch[n]

TypeInv == TypeOK /\ OwnRow

LEMMA InitType == Init => TypeInv
  BY GossipAssumption, TimeoutAssumption
  DEF Init, TypeInv, TypeOK, OwnRow, EmptyTable, NoAges, Table, Ages

LEMMA StepType == TypeInv /\ [Next]_vars => TypeInv'
<1> SUFFICES ASSUME TypeInv, [Next]_vars PROVE TypeInv'
  OBVIOUS
<1> USE DEF TypeInv
<1>0. rows \in [Node -> Table]
  BY DEF TypeOK, Table
<1>1. ASSUME NEW n \in Node, Start(n) PROVE TypeInv'
  <2> DEFINE self == [epoch |-> epoch[n] + 1, hlc |-> 0, status |-> "Alive"]
             fresh == [EmptyTable EXCEPT ![n] = self]
  <2>1. self \in NodeInfo /\ fresh \in Table /\ fresh[n] = self
    BY <1>1 DEF TypeOK, NodeInfo, NodeStatus, EmptyTable, Table
  <2>2. PICK pos \in Orders(Seeds[n]) :
          Transmit({Hello(n, p, self, TickHlc(0, pos[p])) : p \in Seeds[n]})
    BY <1>1 DEF Start
  <2>3. Seeds[n] \in SUBSET Node
    BY GossipAssumption
  <2>4. Cardinality(Seeds[n]) \in Nat
    BY <2>3, GossipAssumption, FS_Subset, FS_CardinalityType
  <2>5. net' \in SUBSET Envelope
    <3>1. ASSUME NEW x \in net', x \notin net PROVE x \in Envelope
      <4>1. PICK p \in Seeds[n], c \in 1..MaxCopies :
              x = [Hello(n, p, self, TickHlc(0, pos[p])) EXCEPT !.copies = c]
        BY <2>2, <3>1, TransmitFacts
      <4>2. TickHlc(0, pos[p]) \in 0..MaxHlc
        BY <2>3, OrderFacts, TickHlcFacts, GossipAssumption
      <4>. QED BY <2>1, <2>3, <4>1, <4>2, DatagramTypes
    <3>. QED BY <3>1 DEF TypeOK
  <2>6. TickHlc(0, Cardinality(Seeds[n])) \in 0..MaxHlc
    BY <2>4, TickHlcFacts, GossipAssumption
  <2>7. /\ rows' = [rows EXCEPT ![n] = fresh]
        /\ epoch' = [epoch EXCEPT ![n] = epoch[n] + 1]
        /\ epoch[n] + 1 \in 0..MaxEpoch
    BY <1>1, GossipAssumption DEF Start, TypeOK
  <2> HIDE DEF self, fresh
  <2>8. TypeOK'
    <3>1. epoch' \in [Node -> 0..MaxEpoch] /\ rows' \in [Node -> Table]
      BY <1>0, <2>1, <2>7 DEF TypeOK
    <3>2. running' \in [Node -> BOOLEAN] /\ known' \in [Node -> SUBSET Node]
      BY <1>1, <2>3 DEF Start, TypeOK
    <3>3. hlc' \in [Node -> 0..MaxHlc] /\ age' \in [Node -> Ages]
      BY <1>1, <2>6 DEF Start, TypeOK
    <3>. QED BY <2>5, <3>1, <3>2, <3>3 DEF TypeOK
  <2>9. OwnRow'
    <3>1. \A m \in Node \ {n} : running'[m] = running[m]
      BY <1>1 DEF Start, TypeOK
    <3>2. \A m \in Node \ {n} : rows'[m] = rows[m] /\ epoch'[m] = epoch[m]
      BY <1>0, <2>7 DEF TypeOK
    <3>3. rows'[n][n] = self /\ epoch'[n] = epoch[n] + 1
      BY <1>0, <2>1, <2>7 DEF TypeOK
    <3>. QED BY <2>1, <3>1, <3>2, <3>3 DEF OwnRow, self
  <2>. QED BY <2>8, <2>9
<1>2. ASSUME NEW n \in Node, Crash(n) PROVE TypeInv'
  <2>1. EmptyTable \in Table /\ NoAges \in Ages
    BY TimeoutAssumption DEF EmptyTable, Table, NoAges, Ages
  <2>2. TypeOK'
    BY <1>2, <2>1 DEF Crash, Forget, TypeOK
  <2>3. OwnRow'
    BY <1>2 DEF Crash, Forget, TypeOK, OwnRow
  <2>. QED BY <2>2, <2>3
<1>3. ASSUME NEW n \in Node, Shutdown(n) PROVE TypeInv'
  <2>1. EmptyTable \in Table /\ NoAges \in Ages
    BY TimeoutAssumption DEF EmptyTable, Table, NoAges, Ages
  <2>2. net' \in SUBSET Envelope
    <3>1. ASSUME NEW x \in net', x \notin net PROVE x \in Envelope
      <4>1. PICK p \in Node, c \in 1..MaxCopies : x = [Goodbye(n, p) EXCEPT !.copies = c]
        BY <1>3, <3>1, TransmitFacts DEF Shutdown
      <4>2. Goodbye(n, p).nodes \in Table
        BY <2>1 DEF Goodbye
      <4>. QED BY <4>1, <4>2 DEF Envelope, Goodbye, Table
    <3>. QED BY <3>1 DEF TypeOK
  <2>3. TickHlc(hlc[n], 1) \in 0..MaxHlc
    BY TickHlcFacts DEF TypeOK
  <2>4. TypeOK'
    BY <1>3, <2>1, <2>2, <2>3 DEF Shutdown, Forget, TypeOK
  <2>5. OwnRow'
    BY <1>3 DEF Shutdown, Forget, TypeOK, OwnRow
  <2>. QED BY <2>4, <2>5
<1>4. ASSUME NEW n \in Node, Publish(n) PROVE TypeInv'
  <2> DEFINE targets == Reachable(n, rows[n])
             table == [rows[n] EXCEPT ![n] = BumpSelf(@, TickHlc(hlc[n], 1))]
  <2>1. targets \in SUBSET Node /\ Cardinality(targets) \in Nat
    BY GossipAssumption, FS_Subset, FS_CardinalityType DEF Reachable
  <2>2. TickHlc(hlc[n], 1) \in 0..MaxHlc
    BY TickHlcFacts DEF TypeOK
  <2>3. rows[n][n] \in NodeInfo /\ rows[n][n].epoch = epoch[n]
    BY <1>4 DEF Publish, OwnRow
  <2>4. BumpSelf(rows[n][n], TickHlc(hlc[n], 1)) \in NodeInfo
       /\ BumpSelf(rows[n][n], TickHlc(hlc[n], 1)).epoch = epoch[n]
    <3>1. TickHlc(hlc[n], 1) \in Nat
      BY <2>2, GossipAssumption
    <3>. QED BY <2>3, <3>1, BumpSelfFacts
  <2>5. table \in Table /\ table[n] \in NodeInfo /\ table[n].epoch = epoch[n]
    BY <1>0, <2>3, <2>4 DEF Table
  <2>6. rows' = [rows EXCEPT ![n] = table]
    BY <1>4 DEF Publish
  <2>7. PICK pos \in Orders(targets) :
          Transmit({Sync(n, p, table, TickHlc(hlc[n], 1 + pos[p])) : p \in targets})
    BY <1>4 DEF Publish
  <2>8. net' \in SUBSET Envelope
    <3>1. ASSUME NEW x \in net', x \notin net PROVE x \in Envelope
      <4>1. PICK p \in targets, c \in 1..MaxCopies :
              x = [Sync(n, p, table, TickHlc(hlc[n], 1 + pos[p])) EXCEPT !.copies = c]
        BY <2>7, <3>1, TransmitFacts
      <4>2. 1 + pos[p] \in Nat
        BY <2>1, OrderFacts
      <4>3. TickHlc(hlc[n], 1 + pos[p]) \in 0..MaxHlc
        BY <4>2, TickHlcFacts DEF TypeOK
      <4>. QED BY <2>1, <2>5, <4>1, <4>3, DatagramTypes
    <3>. QED BY <3>1 DEF TypeOK
  <2>9. TickHlc(hlc[n], 1 + Cardinality(targets)) \in 0..MaxHlc
    <3>1. 1 + Cardinality(targets) \in Nat
      BY <2>1
    <3>. QED BY <3>1, TickHlcFacts DEF TypeOK
  <2>10. hlc' = [hlc EXCEPT ![n] = TickHlc(@, 1 + Cardinality(targets))]
    BY <1>4 DEF Publish
  <2> HIDE DEF targets, table
  <2>11. TypeOK'
    BY <1>0, <1>4, <2>5, <2>6, <2>8, <2>9, <2>10 DEF Publish, TypeOK
  <2>12. OwnRow'
    BY <1>0, <1>4, <2>5, <2>6 DEF Publish, TypeOK, OwnRow
  <2>. QED BY <2>11, <2>12
<1>5. ASSUME NEW n \in Node, GossipTick(n) PROVE TypeInv'
  <2> DEFINE table == [m \in Node |-> Tick(n, m, rows[n][m], age[n][m])]
             candidates == Reachable(n, table) \cup known[n]
  <2>1. \A m \in Node : rows[n][m] \in NodeInfo \cup {NoRow} /\ age[n][m] \in 0..TimeoutDead
    BY DEF TypeOK, Table, Ages
  <2>2. table \in Table /\ table[n] = rows[n][n]
    <3>1. \A m \in Node : Tick(n, m, rows[n][m], age[n][m]) \in NodeInfo \cup {NoRow}
      BY <2>1, TickFacts
    <3>2. Tick(n, n, rows[n][n], age[n][n]) = rows[n][n]
      BY <2>1, TickFacts
    <3>. QED BY <3>1, <3>2 DEF Table
  <2>3. rows' = [rows EXCEPT ![n] = table]
    BY <1>5 DEF GossipTick
  <2>4. candidates \subseteq Node
    BY DEF Reachable, TypeOK
  <2>5. rows[n][n] \in NodeInfo
    BY <1>5 DEF GossipTick, OwnRow
  <2>6. TickHlc(hlc[n], 1) \in 0..MaxHlc
    BY TickHlcFacts DEF TypeOK
  <2>7. \/ UNCHANGED <<hlc, net>>
        \/ \E p \in candidates :
             /\ hlc' = [hlc EXCEPT ![n] = TickHlc(@, 1)]
             /\ Transmit({Sync(n, p, table, TickHlc(hlc[n], 1))})
    BY <1>5 DEF GossipTick
  <2>8. hlc' \in [Node -> 0..MaxHlc] /\ net' \in SUBSET Envelope
    <3>1. CASE UNCHANGED <<hlc, net>>
      BY <3>1 DEF TypeOK
    <3>2. ASSUME NEW p \in candidates,
                 hlc' = [hlc EXCEPT ![n] = TickHlc(@, 1)],
                 Transmit({Sync(n, p, table, TickHlc(hlc[n], 1))})
          PROVE  hlc' \in [Node -> 0..MaxHlc] /\ net' \in SUBSET Envelope
      <4>1. ASSUME NEW x \in net', x \notin net PROVE x \in Envelope
        <5>1. PICK c \in 1..MaxCopies :
                x = [Sync(n, p, table, TickHlc(hlc[n], 1)) EXCEPT !.copies = c]
          BY <3>2, <4>1, TransmitFacts
        <5>. QED BY <2>2, <2>4, <2>5, <2>6, <5>1, DatagramTypes
      <4>. QED BY <2>6, <3>2, <4>1 DEF TypeOK
    <3>. QED BY <2>7, <3>1, <3>2
  <2> HIDE DEF table, candidates
  <2>9. TypeOK'
    BY <1>0, <1>5, <2>2, <2>3, <2>8 DEF GossipTick, TypeOK
  <2>10. OwnRow'
    BY <1>0, <1>5, <2>2, <2>3 DEF GossipTick, TypeOK, OwnRow
  <2>. QED BY <2>9, <2>10
<1>6. ASSUME NEW n \in Node, NEW p \in Node, Join(n, p) PROVE TypeInv'
  <2>1. TickHlc(hlc[n], 1) \in 0..MaxHlc
    BY TickHlcFacts DEF TypeOK
  <2>2. rows[n][n] \in NodeInfo
    BY <1>6 DEF Join, OwnRow
  <2>3. net' \in SUBSET Envelope
    <3>1. ASSUME NEW x \in net', x \notin net PROVE x \in Envelope
      <4>1. PICK c \in 1..MaxCopies :
              x = [Hello(n, p, rows[n][n], TickHlc(hlc[n], 1)) EXCEPT !.copies = c]
        BY <1>6, <3>1, TransmitFacts DEF Join
      <4>. QED BY <1>0, <2>1, <2>2, <4>1, DatagramTypes
    <3>. QED BY <3>1 DEF TypeOK
  <2>. QED BY <1>6, <2>1, <2>3 DEF Join, TypeOK, OwnRow
<1>7. ASSUME NEW msg \in net, RecvGossip(msg) PROVE TypeInv'
  <2> DEFINE n == msg.to
             table == [m \in Node |-> Merge(n, m, rows[n][m], msg.nodes[m])]
             ages == [m \in Node |-> MergeAge(n, m, age[n][m], msg.nodes[m])]
  <2>1. n \in Node /\ msg.from \in Node /\ msg.nodes \in Table
    BY DEF TypeOK, Envelope, Table
  <2>2. table \in Table /\ table[n] = rows[n][n]
    <3>1. \A m \in Node : /\ rows[n][m] \in NodeInfo \cup {NoRow}
                         /\ msg.nodes[m] \in NodeInfo \cup {NoRow}
      BY <1>0, <2>1 DEF Table
    <3>2. \A m \in Node : Merge(n, m, rows[n][m], msg.nodes[m]) \in NodeInfo \cup {NoRow}
      BY <2>1, <3>1, MergeFacts
    <3>3. Merge(n, n, rows[n][n], msg.nodes[n]) = rows[n][n]
      BY <2>1, <3>1, MergeFacts
    <3>. QED BY <2>1, <3>2, <3>3 DEF Table
  <2>3. ages \in Ages
    BY <2>1, TimeoutAssumption DEF MergeAge, TypeOK, Ages
  <2>4. net' \in SUBSET Envelope
    BY <1>7, ReceiveFacts DEF RecvGossip, TypeOK
  <2>5. /\ rows' = [rows EXCEPT ![n] = table]
        /\ age' = [age EXCEPT ![n] = ages]
        /\ known' = [known EXCEPT ![n] = @ \cup {msg.from}]
        /\ UNCHANGED <<running, epoch, hlc>>
    BY <1>7 DEF RecvGossip
  <2> HIDE DEF table, ages, n
  <2>6. TypeOK'
    BY <1>0, <2>1, <2>2, <2>3, <2>4, <2>5 DEF TypeOK
  <2>7. OwnRow'
    BY <1>0, <2>1, <2>2, <2>5 DEF TypeOK, OwnRow
  <2>. QED BY <2>6, <2>7
<1>8. ASSUME NEW msg \in net, RecvGoodbye(msg) PROVE TypeInv'
  <2>1. msg.to \in Node /\ msg.from \in Node
    BY DEF TypeOK, Envelope
  <2>2. net' \in SUBSET Envelope
    BY <1>8, ReceiveFacts DEF RecvGoodbye, TypeOK
  <2> DEFINE row == rows[msg.to][msg.from]
             left == MarkLeft(msg.to, msg.from, row)
  <2>3. left \in NodeInfo \cup {NoRow} /\ (msg.from = msg.to => left = row)
    BY <1>0, <2>1, MarkLeftFacts DEF Table
  <2>4. /\ rows' = [rows EXCEPT ![msg.to][msg.from] = left]
        /\ known' = [known EXCEPT ![msg.to] = @ \cup {msg.from}]
        /\ UNCHANGED <<running, epoch, hlc, age>>
    BY <1>8 DEF RecvGoodbye
  <2> HIDE DEF left
  <2>5. TypeOK'
    BY <1>0, <2>1, <2>2, <2>3, <2>4 DEF TypeOK, Table
  <2>6. OwnRow'
    BY <1>0, <2>1, <2>3, <2>4 DEF TypeOK, Table, OwnRow
  <2>. QED BY <2>5, <2>6
<1>9. ASSUME NEW msg \in net, Discard(msg) PROVE TypeInv'
  BY <1>9 DEF Discard, local, TypeOK, OwnRow
<1>10. CASE Elapse
  BY <1>10, TimeoutAssumption DEF Elapse, Ageing, TypeOK, Ages, OwnRow
<1>11. CASE UNCHANGED vars
  BY <1>11 DEF vars, TypeOK, OwnRow
<1>12. Publishers \subseteq Node /\ Mortals \subseteq Node
       /\ \A j \in Joins : j[1] \in Node /\ j[2] \in Node
  BY GossipAssumption
<1>. QED
  BY <1>1, <1>2, <1>3, <1>4, <1>5, <1>6, <1>7, <1>8, <1>9, <1>10, <1>11, <1>12 DEF Next

\* Tables, clocks and datagrams always have the types the code gives them, and
\* the logical clock never leaves its range (tick_hlc saturates).
THEOREM TypeCorrect == Spec => []TypeOK
<1>1. Spec => []TypeInv
  BY InitType, StepType, PTL DEF Spec
<1>2. TypeInv => TypeOK
  BY DEF TypeInv
<1>. QED BY <1>1, <1>2, PTL
---------------------------------------------------------------------------
(* The versions in circulation.  VersionsAreIssued is inductive once types    *)
(* and the own rows are known: a step either copies rows that were there, or  *)
(* sends the own row under a clock value the node has reached.                *)

\* Nothing is older than the missing row.
LEMMA NoRowIsOldest ==
  ASSUME TypeOK, NEW m \in Node
  PROVE  NotOlder(Issued(m), NoRow)
  BY DEF TypeOK, NotOlder, Supersedes, Issued, NoRow

\* What a row about the sender, or about somebody else, says in a datagram.
LEMMA HelloRows ==
  ASSUME NEW n \in Node, NEW p \in Node, NEW m \in Node, NEW row, NEW h, NEW c
  PROVE  [Hello(n, p, row, h) EXCEPT !.copies = c].nodes[m]
            = IF m = n THEN SelfRow(row, h) ELSE NoRow
  BY DEF Hello, EmptyTable

LEMMA SyncRows ==
  ASSUME NEW n \in Node, NEW p \in Node, NEW m \in Node, NEW table \in Table, NEW h, NEW c
  PROVE  [Sync(n, p, table, h) EXCEPT !.copies = c].nodes[m]
            = IF m = n THEN SelfRow(table[n], h) ELSE table[m]
  BY DEF Sync, Table

LEMMA SelfRowFacts ==
  ASSUME NEW row \in NodeInfo, NEW h \in Nat
  PROVE  SelfRow(row, h).epoch = row.epoch /\ SelfRow(row, h).hlc = h
  BY DEF SelfRow, NodeInfo

\* A node issues larger and larger versions, across restarts too.
LEMMA IssuedGrows ==
  ASSUME TypeInv, [Next]_vars, NEW m \in Node
  PROVE  \/ epoch'[m] > epoch[m]
         \/ epoch'[m] = epoch[m] /\ hlc'[m] >= hlc[m]
<1> USE DEF TypeInv
<1>0. epoch \in [Node -> 0..MaxEpoch] /\ hlc \in [Node -> 0..MaxHlc]
  BY DEF TypeOK
<1>1. \A n \in Node : \A k \in Nat : hlc[n] <= TickHlc(hlc[n], k)
  BY <1>0, TickHlcFacts
<1>2. ASSUME NEW n \in Node, Start(n)
      PROVE  epoch'[m] > epoch[m] \/ (epoch'[m] = epoch[m] /\ hlc'[m] >= hlc[m])
  <2>1. epoch' = [epoch EXCEPT ![n] = @ + 1] /\ hlc' = [hlc EXCEPT ![n] = TickHlc(0, Cardinality(Seeds[n]))]
    BY <1>2 DEF Start
  <2>. QED BY <1>0, <2>1, GossipAssumption
<1>3. ASSUME NEW n \in Node, NEW k \in Nat, hlc' = [hlc EXCEPT ![n] = TickHlc(@, k)], epoch' = epoch
      PROVE  epoch'[m] = epoch[m] /\ hlc'[m] >= hlc[m]
  BY <1>0, <1>1, <1>3, GossipAssumption
<1>4. ASSUME hlc' = hlc, epoch' = epoch
      PROVE  epoch'[m] = epoch[m] /\ hlc'[m] >= hlc[m]
  BY <1>0, <1>4, GossipAssumption
<1>5. ASSUME NEW n \in Node, Publish(n) PROVE epoch'[m] = epoch[m] /\ hlc'[m] >= hlc[m]
  <2>1. 1 + Cardinality(Reachable(n, rows[n])) \in Nat
    BY GossipAssumption, FS_Subset, FS_CardinalityType DEF Reachable
  <2>. QED BY <1>3, <1>5, <2>1 DEF Publish
<1>6. ASSUME NEW n \in Node, GossipTick(n) PROVE epoch'[m] = epoch[m] /\ hlc'[m] >= hlc[m]
  BY <1>3, <1>4, <1>6 DEF GossipTick
<1>7. ASSUME NEW n \in Node, Crash(n) \/ Shutdown(n)
      PROVE  epoch'[m] = epoch[m] /\ hlc'[m] >= hlc[m]
  BY <1>3, <1>4, <1>7 DEF Crash, Shutdown, Forget
<1>8. ASSUME NEW n \in Node, NEW p, Join(n, p) PROVE epoch'[m] = epoch[m] /\ hlc'[m] >= hlc[m]
  BY <1>3, <1>8 DEF Join
<1>9. ASSUME NEW msg \in net, RecvGossip(msg) \/ RecvGoodbye(msg) \/ Discard(msg)
      PROVE  epoch'[m] = epoch[m] /\ hlc'[m] >= hlc[m]
  BY <1>4, <1>9 DEF RecvGossip, RecvGoodbye, Discard, local
<1>10. ASSUME Elapse \/ UNCHANGED vars PROVE epoch'[m] = epoch[m] /\ hlc'[m] >= hlc[m]
  BY <1>4, <1>10 DEF Elapse, vars
<1>11. Publishers \subseteq Node /\ Mortals \subseteq Node
       /\ \A j \in Joins : j[1] \in Node /\ j[2] \in Node
  BY GossipAssumption
<1>. QED BY <1>2, <1>5, <1>6, <1>7, <1>8, <1>9, <1>10, <1>11 DEF Next

\* Hence what was issued before a step is issued after it.
LEMMA IssuedStays ==
  ASSUME TypeInv, [Next]_vars, NEW m \in Node, NEW row \in NodeInfo \cup {NoRow},
         NotOlder(Issued(m), row)
  PROVE  NotOlder(Issued(m)', row)
<1>1. /\ epoch[m] \in Nat /\ hlc[m] \in Nat
      /\ epoch'[m] \in Nat /\ hlc'[m] \in Nat
  BY StepType, GossipAssumption DEF TypeInv, TypeOK
<1>2. row.epoch \in Nat /\ row.hlc \in Nat
  BY DEF NodeInfo, NoRow
<1>. QED BY <1>1, <1>2, IssuedGrows DEF NotOlder, Supersedes, Issued

OwnAlive == \A n \in Node : running[n] => rows[n][n].status = "Alive"

IInv == TypeInv /\ VersionsAreIssued /\ OwnAlive

LEMMA InitIInv == Init => IInv
<1> SUFFICES ASSUME Init PROVE IInv
  OBVIOUS
<1>1. TypeInv
  BY InitType
<1>2. VersionsAreIssued
  BY <1>1, NoRowIsOldest DEF Init, VersionsAreIssued, EmptyTable, TypeInv
<1>3. OwnAlive
  BY DEF Init, OwnAlive
<1>. QED BY <1>1, <1>2, <1>3 DEF IInv

\* The network only holds issued versions if what is sent does.
LEMMA SentAreIssued ==
  ASSUME IInv, [Next]_vars, NEW msgs, Transmit(msgs),
         \A y \in msgs : \A c \in 1..MaxCopies : \A m \in Node :
           NotOlder(Issued(m)', [y EXCEPT !.copies = c].nodes[m])
  PROVE  \A x \in net' : \A m \in Node : NotOlder(Issued(m)', x.nodes[m])
<1> SUFFICES ASSUME NEW x \in net', NEW m \in Node PROVE NotOlder(Issued(m)', x.nodes[m])
  OBVIOUS
<1>1. CASE x \in net
  <2>1. x.nodes[m] \in NodeInfo \cup {NoRow} /\ NotOlder(Issued(m), x.nodes[m])
    BY <1>1 DEF IInv, TypeInv, TypeOK, Envelope, Table, VersionsAreIssued
  <2>. QED BY <2>1, IssuedStays DEF IInv
<1>2. CASE x \notin net
  <2>1. PICK y \in msgs : \E c \in 1..MaxCopies : x = [y EXCEPT !.copies = c]
    BY <1>2, TransmitFacts
  <2>2. PICK c \in 1..MaxCopies : x = [y EXCEPT !.copies = c]
    BY <2>1
  <2>3. NotOlder(Issued(m)', [y EXCEPT !.copies = c].nodes[m])
    OBVIOUS
  <2>. QED BY <2>2, <2>3, Zenon
<1>. QED BY <1>1, <1>2

\* The own row under a clock value the node has reached is an issued version.
LEMMA OwnVersionIsIssued ==
  ASSUME TypeInv', NEW n \in Node, NEW row \in NodeInfo, NEW h \in 0..MaxHlc,
         row.epoch = epoch'[n], h <= hlc'[n]
  PROVE  NotOlder(Issued(n)', SelfRow(row, h))
<1>1. epoch'[n] \in Nat /\ hlc'[n] \in Nat /\ h \in Nat
  BY GossipAssumption DEF TypeInv, TypeOK
<1>2. SelfRow(row, h).epoch = row.epoch /\ SelfRow(row, h).hlc = h
  BY <1>1, SelfRowFacts
<1>. QED BY <1>1, <1>2 DEF NotOlder, Supersedes, Issued

LEMMA StepIInv == IInv /\ [Next]_vars => IInv'
<1> SUFFICES ASSUME IInv, [Next]_vars PROVE IInv'
  OBVIOUS
<1> USE DEF IInv
<1>0. TypeInv /\ TypeInv' /\ TypeOK /\ TypeOK'
  BY StepType DEF TypeInv
<1>1. rows \in [Node -> Table] /\ rows' \in [Node -> Table] /\ net \in SUBSET Envelope
  BY <1>0 DEF TypeOK
<1>2. \A n, m \in Node : NotOlder(Issued(m)', rows[n][m])
  BY <1>0, <1>1, IssuedStays DEF VersionsAreIssued, Table
<1>3. \A x \in net : \A m \in Node : NotOlder(Issued(m)', x.nodes[m])
  BY <1>0, <1>1, IssuedStays DEF VersionsAreIssued, Table, Envelope
<1>4. \A m \in Node : NotOlder(Issued(m)', NoRow)
  <2>1. SUFFICES ASSUME NEW m \in Node PROVE NotOlder(Issued(m)', NoRow)
    OBVIOUS
  <2>2. epoch'[m] \in Nat /\ hlc'[m] \in Nat
    BY <1>0, GossipAssumption DEF TypeOK
  <2>. QED BY <2>2 DEF NotOlder, Supersedes, Issued, NoRow
\* A step that changes one node's table and leaves the network to Transmit.
<1>5. ASSUME NEW n \in Node, NEW table \in Table, rows' = [rows EXCEPT ![n] = table],
             \A m \in Node : NotOlder(Issued(m)', table[m]),
             \A x \in net' : \A m \in Node : NotOlder(Issued(m)', x.nodes[m])
      PROVE  VersionsAreIssued'
  <2>1. \A k, m \in Node : NotOlder(Issued(m)', rows'[k][m])
    BY <1>1, <1>2, <1>5
  <2>. QED BY <1>5, <2>1 DEF VersionsAreIssued, Issued
<1>6. ASSUME NEW n \in Node, Start(n) PROVE VersionsAreIssued' /\ OwnAlive'
  <2> DEFINE self == [epoch |-> epoch[n] + 1, hlc |-> 0, status |-> "Alive"]
             fresh == [EmptyTable EXCEPT ![n] = self]
  <2>1. self \in NodeInfo /\ fresh \in Table /\ fresh[n] = self
        /\ \A m \in Node \ {n} : fresh[m] = NoRow
    BY <1>0, <1>6, GossipAssumption DEF TypeOK, NodeInfo, NodeStatus, EmptyTable, Table
  <2>2. PICK pos \in Orders(Seeds[n]) :
          Transmit({Hello(n, p, self, TickHlc(0, pos[p])) : p \in Seeds[n]})
    BY <1>6 DEF Start
  <2>3. /\ rows' = [rows EXCEPT ![n] = fresh]
        /\ epoch'[n] = epoch[n] + 1
        /\ hlc'[n] = TickHlc(0, Cardinality(Seeds[n]))
    BY <1>0, <1>6 DEF Start, TypeOK
  <2>4. Seeds[n] \in SUBSET Node /\ Cardinality(Seeds[n]) \in Nat
    BY GossipAssumption, FS_Subset, FS_CardinalityType
  <2>5. self.epoch = epoch'[n] /\ self.hlc = 0
    BY <2>3
  <2>6. NotOlder(Issued(n)', self)
    <3>1. epoch'[n] \in Nat /\ hlc'[n] \in Nat
      BY <1>0, GossipAssumption DEF TypeOK
    <3>. QED BY <2>5, <3>1 DEF NotOlder, Supersedes, Issued
  <2>7. \A x \in net' : \A m \in Node : NotOlder(Issued(m)', x.nodes[m])
    <3>1. ASSUME NEW p \in Seeds[n], NEW c \in 1..MaxCopies, NEW m \in Node
          PROVE  NotOlder(Issued(m)', [Hello(n, p, self, TickHlc(0, pos[p])) EXCEPT !.copies = c].nodes[m])
      <4> DEFINE h == TickHlc(0, pos[p])
      <4>1. h \in 0..MaxHlc /\ h <= hlc'[n]
        <5>1. pos[p] \in Nat /\ pos[p] <= Cardinality(Seeds[n]) /\ 0 \in 0..MaxHlc
          BY <2>4, OrderFacts, GossipAssumption
        <5>. QED BY <2>3, <2>4, <5>1, TickHlcFacts
      <4>2. NotOlder(Issued(n)', SelfRow(self, h))
        BY <1>0, <2>1, <2>5, <4>1, OwnVersionIsIssued
      <4>3. [Hello(n, p, self, h) EXCEPT !.copies = c].nodes[m]
              = IF m = n THEN SelfRow(self, h) ELSE NoRow
        BY <2>4, HelloRows
      <4> HIDE DEF h, self
      <4>4. NotOlder(Issued(m)', [Hello(n, p, self, h) EXCEPT !.copies = c].nodes[m])
        BY <1>4, <4>2, <4>3
      <4>. QED BY <4>4 DEF h
    <3> HIDE DEF self
    <3>. QED BY <2>2, <3>1, SentAreIssued
  <2> HIDE DEF self, fresh
  <2>8. VersionsAreIssued'
    BY <1>4, <1>5, <2>1, <2>3, <2>6, <2>7
  <2>9. OwnAlive'
    <3>1. \A m \in Node \ {n} : running'[m] = running[m] /\ rows'[m] = rows[m]
      BY <1>0, <1>1, <1>6, <2>3 DEF Start, TypeOK
    <3>2. rows'[n][n].status = "Alive"
      BY <1>1, <2>1, <2>3 DEF self
    <3>. QED BY <3>1, <3>2 DEF OwnAlive
  <2>. QED BY <2>8, <2>9
<1>7. ASSUME NEW n \in Node, Crash(n) \/ Shutdown(n) PROVE VersionsAreIssued' /\ OwnAlive'
  <2>1. /\ rows' = [rows EXCEPT ![n] = EmptyTable]
        /\ running' = [running EXCEPT ![n] = FALSE]
    BY <1>7 DEF Crash, Shutdown, Forget
  <2>2. EmptyTable \in Table /\ \A m \in Node : EmptyTable[m] = NoRow
    BY DEF EmptyTable, Table
  <2>3. \A x \in net' : \A m \in Node : NotOlder(Issued(m)', x.nodes[m])
    <3>1. CASE Crash(n)
      BY <1>3, <3>1 DEF Crash
    <3>2. CASE Shutdown(n)
      <4> DEFINE targets == {m \in Node \ {n} : Known(rows[n][m])}
      <4>1. Transmit({Goodbye(n, p) : p \in targets})
        BY <3>2 DEF Shutdown
      <4>2. ASSUME NEW p \in targets, NEW c \in 1..MaxCopies, NEW m \in Node
            PROVE  NotOlder(Issued(m)', [Goodbye(n, p) EXCEPT !.copies = c].nodes[m])
        <5>1. [Goodbye(n, p) EXCEPT !.copies = c].nodes[m] = NoRow
          BY DEF Goodbye, EmptyTable
        <5>. QED BY <1>4, <5>1
      <4> HIDE DEF targets
      <4>. QED BY <4>1, <4>2, SentAreIssued
    <3>. QED BY <1>7, <3>1, <3>2
  <2>4. VersionsAreIssued'
    BY <1>4, <1>5, <2>1, <2>2, <2>3
  <2>5. OwnAlive'
    BY <1>0, <1>1, <2>1 DEF OwnAlive, TypeOK
  <2>. QED BY <2>4, <2>5
<1>8. ASSUME NEW n \in Node, Publish(n) PROVE VersionsAreIssued' /\ OwnAlive'
  <2> DEFINE targets == Reachable(n, rows[n])
             first == TickHlc(hlc[n], 1)
             own == BumpSelf(rows[n][n], first)
             table == [rows[n] EXCEPT ![n] = own]
  <2>1. targets \in SUBSET Node /\ Cardinality(targets) \in Nat
    BY GossipAssumption, FS_Subset, FS_CardinalityType DEF Reachable
  <2>2. /\ rows' = [rows EXCEPT ![n] = table]
        /\ hlc' = [hlc EXCEPT ![n] = TickHlc(@, 1 + Cardinality(targets))]
        /\ running' = running /\ epoch' = epoch
    BY <1>8 DEF Publish
  <2>3. PICK pos \in Orders(targets) :
          Transmit({Sync(n, p, table, TickHlc(hlc[n], 1 + pos[p])) : p \in targets})
    BY <1>8 DEF Publish
  <2>4. rows[n][n] \in NodeInfo /\ rows[n][n].epoch = epoch[n] /\ hlc[n] \in 0..MaxHlc
    BY <1>0, <1>8 DEF Publish, TypeInv, OwnRow, TypeOK
  <2>5. first \in 0..MaxHlc /\ first \in Nat /\ hlc[n] <= first
    <3>1. first \in 0..MaxHlc /\ hlc[n] <= first
      BY <2>4, TickHlcGrows
    <3>. QED BY <3>1, GossipAssumption
  <2>6. hlc'[n] = TickHlc(hlc[n], 1 + Cardinality(targets)) /\ first <= hlc'[n]
    <3>1. 1 + Cardinality(targets) \in Nat /\ 1 <= 1 + Cardinality(targets)
      BY <2>1
    <3>2. hlc'[n] = TickHlc(hlc[n], 1 + Cardinality(targets))
      BY <1>0, <2>2 DEF TypeOK
    <3>. QED BY <2>4, <3>1, <3>2, TickHlcFacts
  <2>7. /\ own \in NodeInfo /\ own.epoch = epoch'[n] /\ own.status = "Alive"
        /\ own.hlc = IF rows[n][n].hlc > first THEN rows[n][n].hlc ELSE first
    BY <2>2, <2>4, <2>5, BumpSelfFacts
  <2>8. table \in Table /\ table[n] = own /\ \A m \in Node \ {n} : table[m] = rows[n][m]
    BY <1>1, <2>7 DEF Table
  <2>9. NotOlder(Issued(n)', own)
    <3>1. NotOlder(Issued(n)', rows[n][n])
      BY <1>2
    <3>2. epoch'[n] \in Nat /\ hlc'[n] \in Nat
      BY <1>0, GossipAssumption DEF TypeOK
    <3> HIDE DEF own, first
    <3>. QED BY <2>2, <2>4, <2>5, <2>6, <2>7, <3>1, <3>2 DEF NotOlder, Supersedes, Issued, NodeInfo
  <2> HIDE DEF own, first, table, targets
  <2>10. \A m \in Node : NotOlder(Issued(m)', table[m])
    BY <1>2, <2>8, <2>9
  <2>11. \A x \in net' : \A m \in Node : NotOlder(Issued(m)', x.nodes[m])
    <3>1. ASSUME NEW p \in targets, NEW c \in 1..MaxCopies, NEW m \in Node
          PROVE  NotOlder(Issued(m)', [Sync(n, p, table, TickHlc(hlc[n], 1 + pos[p])) EXCEPT !.copies = c].nodes[m])
      <4> DEFINE h == TickHlc(hlc[n], 1 + pos[p])
      <4>1. h \in 0..MaxHlc /\ h <= hlc'[n]
        <5>1. 1 + pos[p] \in Nat /\ 1 + Cardinality(targets) \in Nat
              /\ 1 + pos[p] <= 1 + Cardinality(targets)
          BY <2>1, OrderFacts
        <5>. QED BY <2>4, <2>6, <5>1, TickHlcFacts
      <4> HIDE DEF h
      <4>2. NotOlder(Issued(n)', SelfRow(own, h))
        BY <1>0, <2>7, <4>1, OwnVersionIsIssued
      <4>3. [Sync(n, p, table, h) EXCEPT !.copies = c].nodes[m]
              = IF m = n THEN SelfRow(table[n], h) ELSE table[m]
        BY <2>1, <2>8, SyncRows
      <4>4. NotOlder(Issued(m)', [Sync(n, p, table, h) EXCEPT !.copies = c].nodes[m])
        BY <2>8, <2>10, <4>2, <4>3
      <4>. QED BY <4>4 DEF h
    <3>. QED BY <2>3, <3>1, SentAreIssued
  <2>12. VersionsAreIssued'
    BY <1>5, <2>2, <2>8, <2>10, <2>11
  <2>13. OwnAlive'
    BY <1>1, <2>2, <2>7, <2>8 DEF OwnAlive
  <2>. QED BY <2>12, <2>13
<1>9. ASSUME NEW n \in Node, GossipTick(n) PROVE VersionsAreIssued' /\ OwnAlive'
  <2> DEFINE table == [m \in Node |-> Tick(n, m, rows[n][m], age[n][m])]
             candidates == Reachable(n, table) \cup known[n]
  <2>1. /\ rows' = [rows EXCEPT ![n] = table]
        /\ running' = running /\ epoch' = epoch
        /\ \/ UNCHANGED <<hlc, net>>
           \/ \E p \in candidates :
                /\ hlc' = [hlc EXCEPT ![n] = TickHlc(@, 1)]
                /\ Transmit({Sync(n, p, table, TickHlc(hlc[n], 1))})
    BY <1>9 DEF GossipTick
  <2>2. \A m \in Node : rows[n][m] \in NodeInfo \cup {NoRow} /\ age[n][m] \in 0..TimeoutDead
    BY <1>0 DEF TypeOK, Table, Ages
  <2>3. \A m \in Node : /\ table[m] \in NodeInfo \cup {NoRow}
                        /\ table[m].epoch = rows[n][m].epoch
                        /\ table[m].hlc = rows[n][m].hlc
    BY <2>2, TickFacts
  <2>4. table[n] = rows[n][n]
    BY <2>2, TickFacts
  <2>5. table \in Table
    BY <2>3 DEF Table
  <2>6. candidates \subseteq Node
    BY <1>0 DEF Reachable, TypeOK
  <2>7. rows[n][n] \in NodeInfo /\ rows[n][n].epoch = epoch'[n] /\ hlc[n] \in 0..MaxHlc
    BY <1>0, <1>9, <2>1 DEF GossipTick, TypeInv, OwnRow, TypeOK
  <2> HIDE DEF table, candidates
  <2>8. \A m \in Node : NotOlder(Issued(m)', table[m])
    BY <1>2, <2>3 DEF NotOlder, Supersedes
  <2>9. \A x \in net' : \A m \in Node : NotOlder(Issued(m)', x.nodes[m])
    <3>1. CASE UNCHANGED <<hlc, net>>
      BY <1>3, <3>1
    <3>2. ASSUME NEW p \in candidates, hlc' = [hlc EXCEPT ![n] = TickHlc(@, 1)],
                 Transmit({Sync(n, p, table, TickHlc(hlc[n], 1))})
          PROVE  \A x \in net' : \A m \in Node : NotOlder(Issued(m)', x.nodes[m])
      <4> DEFINE h == TickHlc(hlc[n], 1)
      <4>1. h \in 0..MaxHlc /\ h <= hlc'[n]
        <5>1. h \in 0..MaxHlc
          BY <2>7, TickHlcFacts
        <5>2. h = hlc'[n]
          BY <1>0, <3>2 DEF TypeOK
        <5>. QED BY <5>1, <5>2, GossipAssumption
      <4> HIDE DEF h
      <4>2. NotOlder(Issued(n)', SelfRow(table[n], h))
        BY <1>0, <2>4, <2>7, <4>1, OwnVersionIsIssued
      <4>3. ASSUME NEW c \in 1..MaxCopies, NEW m \in Node
            PROVE  NotOlder(Issued(m)', [Sync(n, p, table, h) EXCEPT !.copies = c].nodes[m])
        <5>1. [Sync(n, p, table, h) EXCEPT !.copies = c].nodes[m]
                = IF m = n THEN SelfRow(table[n], h) ELSE table[m]
          BY <2>5, <2>6, SyncRows
        <5>. QED BY <2>8, <4>2, <5>1
      <4>4. Transmit({Sync(n, p, table, h)})
        BY <3>2 DEF h
      <4>. QED BY <4>3, <4>4, SentAreIssued
    <3>. QED BY <2>1, <3>1, <3>2
  <2>10. VersionsAreIssued'
    BY <1>5, <2>1, <2>5, <2>8, <2>9
  <2>11. OwnAlive'
    BY <1>1, <2>1, <2>4 DEF OwnAlive
  <2>. QED BY <2>10, <2>11
<1>10. ASSUME NEW n \in Node, NEW p \in Node, Join(n, p) PROVE VersionsAreIssued' /\ OwnAlive'
  <2> DEFINE h == TickHlc(hlc[n], 1)
  <2>1. /\ rows' = rows /\ running' = running /\ epoch' = epoch
        /\ hlc' = [hlc EXCEPT ![n] = h]
        /\ Transmit({Hello(n, p, rows[n][n], h)})
    BY <1>10 DEF Join
  <2>2. rows[n][n] \in NodeInfo /\ rows[n][n].epoch = epoch'[n] /\ rows[n] \in Table
    BY <1>0, <1>1, <1>10, <2>1 DEF Join, TypeInv, OwnRow
  <2>3. h \in 0..MaxHlc /\ h <= hlc'[n]
    <3>1. h \in 0..MaxHlc
      BY <1>0, TickHlcGrows DEF TypeOK
    <3>2. h = hlc'[n]
      BY <1>0, <2>1 DEF TypeOK
    <3>. QED BY <3>1, <3>2, GossipAssumption
  <2> HIDE DEF h
  <2>4. NotOlder(Issued(n)', SelfRow(rows[n][n], h))
    BY <1>0, <2>2, <2>3, OwnVersionIsIssued
  <2>5. ASSUME NEW c \in 1..MaxCopies, NEW m \in Node
        PROVE  NotOlder(Issued(m)', [Hello(n, p, rows[n][n], h) EXCEPT !.copies = c].nodes[m])
    <3>1. [Hello(n, p, rows[n][n], h) EXCEPT !.copies = c].nodes[m]
            = IF m = n THEN SelfRow(rows[n][n], h) ELSE NoRow
      BY HelloRows
    <3>. QED BY <1>4, <2>4, <3>1
  <2>6. \A x \in net' : \A m \in Node : NotOlder(Issued(m)', x.nodes[m])
    BY <2>1, <2>5, SentAreIssued
  <2>. QED BY <1>2, <2>1, <2>6 DEF VersionsAreIssued, Issued, OwnAlive
<1>11. ASSUME NEW msg \in net, RecvGossip(msg) PROVE VersionsAreIssued' /\ OwnAlive'
  <2> DEFINE n == msg.to
             table == [m \in Node |-> Merge(n, m, rows[n][m], msg.nodes[m])]
  <2>1. n \in Node /\ msg.nodes \in Table
    BY <1>1 DEF Envelope
  <2>2. rows' = [rows EXCEPT ![n] = table] /\ running' = running
    BY <1>11 DEF RecvGossip
  <2>3. \A m \in Node : table[m] \in {rows[n][m], msg.nodes[m]}
    <3>1. \A m \in Node : rows[n][m] \in NodeInfo \cup {NoRow} /\ msg.nodes[m] \in NodeInfo \cup {NoRow}
      BY <1>1, <2>1 DEF Table
    <3>. QED BY <2>1, <3>1, MergeFacts
  <2>4. table[n] = rows[n][n]
    BY <2>1 DEF Merge
  <2>5. table \in Table
    BY <1>1, <2>1, <2>3 DEF Table
  <2>6. \A x \in net' : \A m \in Node : NotOlder(Issued(m)', x.nodes[m])
    BY <1>1, <1>3, <1>11, ReceiveFacts DEF RecvGossip
  <2> HIDE DEF table, n
  <2>7. \A m \in Node : NotOlder(Issued(m)', table[m])
    BY <1>2, <1>3, <2>1, <2>3
  <2>8. VersionsAreIssued'
    BY <1>5, <2>1, <2>2, <2>5, <2>6, <2>7
  <2>9. OwnAlive'
    BY <1>1, <2>1, <2>2, <2>4 DEF OwnAlive
  <2>. QED BY <2>8, <2>9
<1>12. ASSUME NEW msg \in net, RecvGoodbye(msg) PROVE VersionsAreIssued' /\ OwnAlive'
  <2> DEFINE n == msg.to
             row == rows[n][msg.from]
             left == MarkLeft(n, msg.from, row)
             table == [rows[n] EXCEPT ![msg.from] = left]
  <2>1. n \in Node /\ msg.from \in Node /\ row \in NodeInfo \cup {NoRow}
    BY <1>1 DEF Envelope, Table
  <2>2. rows' = [rows EXCEPT ![n] = table] /\ running' = running
    BY <1>12 DEF RecvGoodbye
  <2>3. /\ left \in NodeInfo \cup {NoRow} /\ left.epoch = row.epoch /\ left.hlc = row.hlc
        /\ msg.from = n => left = row
    BY <2>1, MarkLeftFacts
  <2>4. \A x \in net' : \A m \in Node : NotOlder(Issued(m)', x.nodes[m])
    BY <1>1, <1>3, <1>12, ReceiveFacts DEF RecvGoodbye
  <2>5. NotOlder(Issued(msg.from)', left)
    BY <1>2, <2>1, <2>3 DEF NotOlder, Supersedes
  <2> HIDE DEF left, n
  <2>6. /\ table \in Table /\ table[msg.from] = left
        /\ \A m \in Node \ {msg.from} : table[m] = rows[n][m]
    BY <1>1, <2>1, <2>3 DEF Table
  <2>7. \A m \in Node : NotOlder(Issued(m)', table[m])
    BY <1>2, <2>1, <2>5, <2>6
  <2> HIDE DEF table
  <2>8. VersionsAreIssued'
    BY <1>5, <2>1, <2>2, <2>4, <2>6, <2>7
  <2>9. OwnAlive'
    BY <1>1, <2>1, <2>2, <2>3, <2>6 DEF OwnAlive
  <2>. QED BY <2>8, <2>9
<1>13. ASSUME NEW msg \in net, Discard(msg) PROVE VersionsAreIssued' /\ OwnAlive'
  BY <1>2, <1>3, <1>13 DEF Discard, local, VersionsAreIssued, Issued, OwnAlive
<1>14. CASE Elapse \/ UNCHANGED vars
  <2>1. UNCHANGED <<running, epoch, hlc, rows, net>>
    BY <1>14 DEF Elapse, vars
  <2>2. VersionsAreIssued'
    BY <1>2, <1>3, <2>1 DEF VersionsAreIssued, Issued
  <2>3. OwnAlive'
    BY <2>1 DEF OwnAlive
  <2>. QED BY <1>0, <2>2, <2>3
<1>15. Publishers \subseteq Node /\ Mortals \subseteq Node
       /\ \A j \in Joins : j[1] \in Node /\ j[2] \in Node
  BY GossipAssumption
<1>16. VersionsAreIssued' /\ OwnAlive'
  BY <1>6, <1>7, <1>8, <1>9, <1>10, <1>11, <1>12, <1>13, <1>14, <1>15 DEF Next
<1>. QED BY <1>0, <1>16

LEMMA InductiveInvariant == Spec => []IInv
  BY InitIInv, StepIInv, PTL DEF Spec

\* No version of a row is in circulation that its owner has not issued, for any
\* number of nodes, crashes, restarts and lost, duplicated or reordered datagrams.
THEOREM IssuedVersions == Spec => []VersionsAreIssued
<1>1. IInv => VersionsAreIssued
  BY DEF IInv
<1>. QED BY <1>1, InductiveInvariant, PTL

\* Every running node sees itself Alive in its current epoch, whatever its peers
\* have concluded about it.
THEOREM SelfRows == Spec => []SelfRowAuthoritative
<1>1. ASSUME IInv PROVE SelfRowAuthoritative
  <2>1. SUFFICES ASSUME NEW n \in Node, running[n]
                 PROVE  /\ rows[n][n].status = "Alive"
                        /\ rows[n][n].epoch = epoch[n]
                        /\ rows[n][n].hlc <= hlc[n]
    BY DEF SelfRowAuthoritative
  <2>2. rows[n][n] \in NodeInfo /\ rows[n][n].epoch = epoch[n] /\ rows[n][n].status = "Alive"
    BY <1>1, <2>1 DEF IInv, TypeInv, OwnRow, OwnAlive
  <2>3. hlc[n] \in Nat /\ epoch[n] \in Nat
    BY <1>1, GossipAssumption DEF IInv, TypeInv, TypeOK
  <2>4. NotOlder(Issued(n), rows[n][n])
    BY <1>1 DEF IInv, VersionsAreIssued
  <2>. QED BY <2>2, <2>3, <2>4 DEF NotOlder, Supersedes, Issued, NodeInfo
<1>. QED BY <1>1, InductiveInvariant, PTL

---------------------------------------------------------------------------
(* What a step may do to a row: the two action properties.                   *)

\* The row moves on to a newer version, or keeps it and with it a verdict.
Advances(old, new) ==
  /\ NotOlder(new, old)
  /\ ~Supersedes(new, old) =>
       /\ old.status = "Left" => new.status = "Left"
       /\ old.status = "Dead" => new.status \in {"Dead", "Left"}

LEMMA SameRowAdvances ==
  ASSUME NEW row \in NodeInfo \cup {NoRow}
  PROVE  Advances(row, row)
  BY DEF Advances, NotOlder, Supersedes, NodeInfo, NoRow

LEMMA SameVersionAdvances ==
  ASSUME NEW old \in NodeInfo \cup {NoRow}, NEW new \in NodeInfo \cup {NoRow},
         new.epoch = old.epoch, new.hlc = old.hlc,
         old.status \in {"Dead", "Left"} => new.status \in {old.status, "Left"}
  PROVE  Advances(old, new)
  BY DEF Advances, NotOlder, Supersedes, NodeInfo, NoRow

LEMMA MergeAdvances ==
  ASSUME NEW n \in Node, NEW m \in Node,
         NEW row \in NodeInfo \cup {NoRow}, NEW incoming \in NodeInfo \cup {NoRow}
  PROVE  Advances(row, Merge(n, m, row, incoming))
<1>1. CASE Merge(n, m, row, incoming) = row
  BY <1>1, SameRowAdvances
<1>2. CASE Merge(n, m, row, incoming) # row
  <2>1. NotOlder(Merge(n, m, row, incoming), row)
    BY MergeFacts
  <2>2. row = NoRow \/ Supersedes(Merge(n, m, row, incoming), row)
    BY <1>2, MergeFacts DEF Known
  <2>. QED BY <2>1, <2>2 DEF Advances, NoRow
<1>. QED BY <1>1, <1>2

LEMMA RowsAdvance ==
  ASSUME IInv, [Next]_vars, NEW n \in Node, NEW m \in Node, running[n], running'[n]
  PROVE  Advances(rows[n][m], rows'[n][m])
<1> USE DEF IInv, TypeInv
<1>0. /\ running \in [Node -> BOOLEAN] /\ rows \in [Node -> Table]
      /\ rows[n][m] \in NodeInfo \cup {NoRow} /\ rows[n][n] \in NodeInfo
      /\ rows[n][n].status = "Alive"
  BY DEF TypeOK, Table, OwnRow, OwnAlive
<1>1. CASE rows'[n] = rows[n]
  BY <1>0, <1>1, SameRowAdvances
<1>2. ASSUME NEW k \in Node, Start(k) PROVE rows'[n] = rows[n]
  <2>1. k # n
    BY <1>2 DEF Start
  <2>. QED BY <1>0, <1>2, <2>1 DEF Start
<1>3. ASSUME NEW k \in Node, Crash(k) \/ Shutdown(k) PROVE rows'[n] = rows[n]
  <2>1. running' = [running EXCEPT ![k] = FALSE] /\ rows' = [rows EXCEPT ![k] = EmptyTable]
    BY <1>3 DEF Crash, Shutdown, Forget
  <2>2. k # n
    BY <1>0, <2>1
  <2>. QED BY <1>0, <2>1, <2>2
<1>4. ASSUME NEW k \in Node, Publish(k) PROVE Advances(rows[n][m], rows'[n][m])
  <2> DEFINE own == BumpSelf(rows[k][k], TickHlc(hlc[k], 1))
  <2>1. rows' = [rows EXCEPT ![k] = [rows[k] EXCEPT ![k] = own]]
    BY <1>4 DEF Publish
  <2>2. rows'[n][m] = IF k = n /\ m = n THEN own ELSE rows[n][m]
    BY <1>0, <2>1 DEF Table
  <2>3. CASE k = n /\ m = n
    <3>1. TickHlc(hlc[n], 1) \in 0..MaxHlc
      BY TickHlcGrows DEF TypeOK
    <3>2. TickHlc(hlc[n], 1) \in Nat
      BY <3>1, GossipAssumption
    <3> DEFINE h == TickHlc(hlc[n], 1)
    <3>3. own.epoch = rows[n][n].epoch /\ own.hlc = IF rows[n][n].hlc > h THEN rows[n][n].hlc ELSE h
      BY <1>0, <2>3, <3>2, BumpSelfFacts
    <3> HIDE DEF own, h
    <3>4. h \in Nat
      BY <3>2 DEF h
    <3>5. NotOlder(own, rows[n][n])
      BY <1>0, <3>3, <3>4 DEF NotOlder, Supersedes, NodeInfo
    <3>. QED BY <1>0, <2>2, <2>3, <3>5 DEF Advances
  <2>4. CASE ~(k = n /\ m = n)
    <3> HIDE DEF own
    <3>. QED BY <1>0, <2>2, <2>4, SameRowAdvances
  <2>. QED BY <2>3, <2>4
<1>5. ASSUME NEW k \in Node, GossipTick(k) PROVE Advances(rows[n][m], rows'[n][m])
  <2>1. rows' = [rows EXCEPT ![k] = [x \in Node |-> Tick(k, x, rows[k][x], age[k][x])]]
    BY <1>5 DEF GossipTick
  <2>2. CASE k # n
    BY <1>0, <1>1, <2>1, <2>2
  <2>3. CASE k = n
    <3>1. rows'[n][m] = Tick(n, m, rows[n][m], age[n][m])
      BY <1>0, <2>1, <2>3
    <3>2. age[n][m] \in 0..TimeoutDead
      BY DEF TypeOK, Ages
    <3> DEFINE new == Tick(n, m, rows[n][m], age[n][m])
    <3>3. /\ new \in NodeInfo \cup {NoRow}
          /\ new.epoch = rows[n][m].epoch /\ new.hlc = rows[n][m].hlc
          /\ rows[n][m].status \in {"Dead", "Left"} => new = rows[n][m]
      <4>1. new \in NodeInfo \cup {NoRow}
        BY <1>0, <3>2, TickFacts
      <4>2. new.epoch = rows[n][m].epoch /\ new.hlc = rows[n][m].hlc
        BY <1>0 DEF Tick, NodeInfo, NoRow
      <4>3. rows[n][m].status \in {"Dead", "Left"} => new = rows[n][m]
        BY DEF Tick
      <4>. QED BY <4>1, <4>2, <4>3
    <3> HIDE DEF new
    <3>4. Advances(rows[n][m], new)
      BY <1>0, <3>3, SameVersionAdvances
    <3>. QED BY <3>1, <3>4 DEF new
  <2>. QED BY <2>2, <2>3
<1>6. ASSUME NEW msg \in net, RecvGossip(msg) PROVE Advances(rows[n][m], rows'[n][m])
  <2>1. msg.to \in Node /\ msg.nodes[m] \in NodeInfo \cup {NoRow}
    BY DEF TypeOK, Envelope, Table
  <2>2. rows' = [rows EXCEPT ![msg.to] =
                   [x \in Node |-> Merge(msg.to, x, rows[msg.to][x], msg.nodes[x])]]
    BY <1>6 DEF RecvGossip
  <2>3. rows'[n][m] \in {rows[n][m], Merge(n, m, rows[n][m], msg.nodes[m])}
    BY <1>0, <2>1, <2>2
  <2>4. Advances(rows[n][m], Merge(n, m, rows[n][m], msg.nodes[m]))
    BY <1>0, <2>1, MergeAdvances
  <2>5. Advances(rows[n][m], rows[n][m])
    BY <1>0, SameRowAdvances
  <2>. QED BY <2>3, <2>4, <2>5
<1>7. ASSUME NEW msg \in net, RecvGoodbye(msg) PROVE Advances(rows[n][m], rows'[n][m])
  <2> DEFINE left == MarkLeft(n, m, rows[n][m])
  <2>1. msg.to \in Node /\ msg.from \in Node
    BY DEF TypeOK, Envelope
  <2>2. rows'[n][m] \in {rows[n][m], left}
    BY <1>0, <1>7, <2>1 DEF RecvGoodbye, Table
  <2>3. /\ left \in NodeInfo \cup {NoRow}
        /\ left.epoch = rows[n][m].epoch /\ left.hlc = rows[n][m].hlc
        /\ rows[n][m].status \in {"Dead", "Left"} => left.status \in {rows[n][m].status, "Left"}
    BY <1>0, MarkLeftFacts
  <2> HIDE DEF left
  <2>4. Advances(rows[n][m], left)
    BY <1>0, <2>3, SameVersionAdvances
  <2>. QED BY <1>0, <2>2, <2>4, SameRowAdvances
<1>8. ASSUME \/ \E j \in Joins : Join(j[1], j[2])
             \/ \E msg \in net : Discard(msg)
             \/ Elapse
             \/ UNCHANGED vars
      PROVE  rows'[n] = rows[n]
  BY <1>8 DEF Join, Discard, local, Elapse, vars
<1>9. Publishers \subseteq Node /\ Mortals \subseteq Node
  BY GossipAssumption
<1>. QED BY <1>1, <1>2, <1>3, <1>4, <1>5, <1>6, <1>7, <1>8, <1>9 DEF Next

\* No datagram, however late, often or indirectly it arrives, replaces a row by
\* an older one.
THEOREM NoRegress == Spec => VersionsNeverRegress
<1>1. IInv /\ [Next]_vars =>
        [\A n, m \in Node : running[n] /\ running'[n] => NotOlder(rows'[n][m], rows[n][m])]_vars
  BY RowsAdvance DEF Advances
<1>. QED BY <1>1, InductiveInvariant, PTL DEF Spec, VersionsNeverRegress

\* Without news of a newer version a Dead or Left peer is not brought back.
THEOREM FinalVerdicts == Spec => VerdictIsFinal
<1>1. IInv /\ [Next]_vars =>
        [\A n, m \in Node :
           (running[n] /\ running'[n] /\ ~Supersedes(rows'[n][m], rows[n][m])) =>
             /\ rows[n][m].status = "Left" => rows'[n][m].status = "Left"
             /\ rows[n][m].status = "Dead" => rows'[n][m].status \in {"Dead", "Left"}]_vars
  BY RowsAdvance DEF Advances
<1>. QED BY <1>1, InductiveInvariant, PTL DEF Spec, VerdictIsFinal
===========================================================================
