-------------------------- MODULE HypervisorProofs --------------------------
(***************************************************************************)
(* Proofs about the kernel and its host for any number of callers, slots,  *)
(* frames, images and programs.                                            *)
(***************************************************************************)
EXTENDS Hypervisor, FiniteSetTheorems, NaturalsInduction, TLAPS

---------------------------------------------------------------------------
(* Sequences whose elements have no common type. *)

IsSeq(s) == \E S : s \in Seq(S)

LEMMA AppendFacts ==
  ASSUME NEW s, IsSeq(s), NEW e
  PROVE  /\ IsSeq(Append(s, e)) /\ Len(s) \in Nat /\ Len(Append(s, e)) = Len(s) + 1
         /\ \A i \in 1..Len(s) : Append(s, e)[i] = s[i]
         /\ Append(s, e)[Len(s) + 1] = e
<1>1. PICK S : s \in Seq(S)
  BY DEF IsSeq
<1>2. s \in Seq(S \cup {e})
  BY <1>1
<1>3. Append(s, e) \in Seq(S \cup {e})
  BY <1>2
<1>. QED BY <1>2, <1>3 DEF IsSeq

LEMMA TailFacts ==
  ASSUME NEW s, IsSeq(s), s # <<>>
  PROVE  /\ IsSeq(Tail(s)) /\ Len(s) \in Nat /\ Len(s) >= 1 /\ Len(Tail(s)) = Len(s) - 1
         /\ Head(s) = s[1]
         /\ \A i \in 1..Len(Tail(s)) : Tail(s)[i] = s[i + 1]
<1>1. PICK S : s \in Seq(S)
  BY DEF IsSeq
<1>2. Tail(s) \in Seq(S)
  BY <1>1
<1>. QED BY <1>1, <1>2 DEF IsSeq

LEMMA EmptyFacts == IsSeq(<<>>) /\ Len(<<>>) = 0
<1>1. <<>> \in Seq({})
  OBVIOUS
<1>. QED BY <1>1 DEF IsSeq

---------------------------------------------------------------------------
(* The kernel's operations leave its phase to whoever called them. *)

KernelFields ==
  {"phase", "ready", "vmxon", "online", "occupied", "vm", "deleted", "active", "cursor", "mem",
   "staged", "meta", "serving"}

SamePhase(k, n) == DOMAIN n = KernelFields /\ n.phase = k.phase

LEMMA PhaseFacts ==
  ASSUME NEW k, DOMAIN k = KernelFields
  PROVE  /\ SamePhase(k, k)
         /\ \A hw : SamePhase(k, InitRuntime(k, hw).k)
         /\ \A i, hw : SamePhase(k, CreateVm(k, i, hw).k)
         /\ \A id, hw : SamePhase(k, EnterVm(k, id, hw).k)
         /\ \A id : SamePhase(k, Stop(k, id))
         /\ \A id : SamePhase(k, StopVm(k, id).k)
         /\ \A id : SamePhase(k, DeleteVm(k, id).k)
         /\ \A i, l, c : SamePhase(k, StageFromHex(k, i, l, c).k)
         /\ \A id, o : o \in Outcome => SamePhase(k, Ended(k, id, o))
         /\ SamePhase(k, StopAll(k))
         /\ \A c : SamePhase(k, [k EXCEPT !.cursor = c])
         /\ \A s, m : SamePhase(k, [k EXCEPT !.meta[s] = m])
<1>1. SamePhase(k, k)
  BY DEF SamePhase
<1>2. ASSUME NEW hw PROVE SamePhase(k, InitRuntime(k, hw).k)
  BY DEF InitRuntime, SamePhase, KernelFields
<1>3. ASSUME NEW i, NEW hw PROVE SamePhase(k, CreateVm(k, i, hw).k)
  BY DEF CreateVm, SamePhase, KernelFields
<1>4. ASSUME NEW id, NEW hw PROVE SamePhase(k, EnterVm(k, id, hw).k)
  BY DEF EnterVm, SetActive, SamePhase, KernelFields
<1>5. ASSUME NEW id PROVE SamePhase(k, Stop(k, id))
  BY DEF Stop, SamePhase, KernelFields
<1>6. ASSUME NEW id PROVE SamePhase(k, StopVm(k, id).k)
  BY <1>1, <1>5 DEF StopVm
<1>7. ASSUME NEW id PROVE SamePhase(k, DeleteVm(k, id).k)
  BY DEF DeleteVm, SamePhase, KernelFields
<1>8. ASSUME NEW i, NEW l, NEW c PROVE SamePhase(k, StageFromHex(k, i, l, c).k)
  BY DEF StageFromHex, SamePhase, KernelFields
<1>9. ASSUME NEW id, NEW o \in Outcome PROVE SamePhase(k, Ended(k, id, o))
  <2>1. o.kind \in {"exit", "unreadable", "no_entry"}
    BY DEF Outcome
  <2>2. SamePhase(k, OnExit(k, o.reason))
    BY DEF OnExit, SamePhase, KernelFields
  <2>. QED BY <1>1, <1>5, <2>1, <2>2 DEF Ended
<1>10. SamePhase(k, StopAll(k))
  BY DEF StopAll, SamePhase, KernelFields
<1>11. ASSUME NEW c PROVE SamePhase(k, [k EXCEPT !.cursor = c])
  BY DEF SamePhase, KernelFields
<1>12. ASSUME NEW s, NEW m PROVE SamePhase(k, [k EXCEPT !.meta[s] = m])
  BY DEF SamePhase, KernelFields
<1>. QED BY <1>1, <1>2, <1>3, <1>4, <1>5, <1>6, <1>7, <1>8, <1>9, <1>10, <1>11, <1>12

---------------------------------------------------------------------------
(* The order of requests and replies. *)

\* Answers H on their way to the host, a request of number v that the kernel is at work
\* on (0 if there is none), requests K on their way to the kernel: the numbers rise from
\* what was read last, x, to what was written last, n.
Ordered(H, v, K, x, n) ==
  /\ IsSeq(H) /\ IsSeq(K) /\ v \in Nat /\ x \in Nat /\ n \in Nat /\ x <= n
  /\ \A i \in 1..Len(H) : H[i].of \in Nat /\ x < H[i].of /\ H[i].of <= n
  /\ \A j \in 1..Len(K) : K[j].no \in Nat /\ x < K[j].no /\ K[j].no <= n
  /\ \A i, j \in 1..Len(H) : i < j => H[i].of < H[j].of
  /\ \A i, j \in 1..Len(K) : i < j => K[i].no < K[j].no
  /\ \A i \in 1..Len(H), j \in 1..Len(K) : H[i].of < K[j].no
  /\ v > 0 => /\ x < v /\ v <= n
              /\ \A i \in 1..Len(H) : H[i].of < v
              /\ \A j \in 1..Len(K) : v < K[j].no

LEMMA OrderedRead ==
  ASSUME NEW H, NEW v, NEW K, NEW x, NEW n, Ordered(H, v, K, x, n), H # <<>>
  PROVE  /\ Ordered(Tail(H), v, K, Head(H).of, n)
         /\ x < Head(H).of /\ Head(H).of <= n /\ Head(H).of \in Nat
<1>1. /\ IsSeq(Tail(H)) /\ Len(H) \in Nat /\ Len(H) >= 1 /\ Len(Tail(H)) = Len(H) - 1
      /\ Head(H) = H[1] /\ \A i \in 1..Len(Tail(H)) : Tail(H)[i] = H[i + 1]
  BY TailFacts DEF Ordered
<1>2. 1 \in 1..Len(H) /\ \A i \in 1..Len(Tail(H)) : i + 1 \in 1..Len(H) /\ 1 < i + 1
  BY <1>1
<1>3. /\ Head(H).of \in Nat /\ x < Head(H).of /\ Head(H).of <= n
  BY <1>1, <1>2 DEF Ordered
<1>4. /\ \A i \in 1..Len(Tail(H)) : /\ Tail(H)[i].of \in Nat /\ Head(H).of < Tail(H)[i].of
                                    /\ Tail(H)[i].of <= n
      /\ \A i \in 1..Len(Tail(H)), j \in 1..Len(K) : Tail(H)[i].of < K[j].no
      /\ \A j \in 1..Len(K) : Head(H).of < K[j].no
      /\ v > 0 => Head(H).of < v /\ \A i \in 1..Len(Tail(H)) : Tail(H)[i].of < v
  BY <1>1, <1>2 DEF Ordered
<1>5. \A i, j \in 1..Len(Tail(H)) : i < j => Tail(H)[i].of < Tail(H)[j].of
  <2>. SUFFICES ASSUME NEW i \in 1..Len(Tail(H)), NEW j \in 1..Len(Tail(H)), i < j
                PROVE  Tail(H)[i].of < Tail(H)[j].of
    OBVIOUS
  <2>1. i + 1 \in 1..Len(H) /\ j + 1 \in 1..Len(H) /\ i + 1 < j + 1
    BY <1>1
  <2>. QED BY <1>1, <2>1 DEF Ordered
<1>. QED BY <1>1, <1>3, <1>4, <1>5 DEF Ordered

\* A request leaves the queue, answered or not.
LEMMA OrderedDrop ==
  ASSUME NEW H, NEW K, NEW x, NEW n, Ordered(H, 0, K, x, n), K # <<>>
  PROVE  /\ Ordered(H, 0, Tail(K), x, n) /\ Ordered(H, Head(K).no, Tail(K), x, n)
         /\ Head(K).no > 0 /\ Head(K) = K[1] /\ Len(K) \in Nat /\ Len(K) >= 1
<1>1. /\ IsSeq(Tail(K)) /\ Len(K) \in Nat /\ Len(K) >= 1 /\ Len(Tail(K)) = Len(K) - 1
      /\ Head(K) = K[1] /\ \A i \in 1..Len(Tail(K)) : Tail(K)[i] = K[i + 1]
  BY TailFacts DEF Ordered
<1>2. 1 \in 1..Len(K) /\ \A i \in 1..Len(Tail(K)) : i + 1 \in 1..Len(K) /\ 1 < i + 1
  BY <1>1
<1>3. /\ Head(K).no \in Nat /\ x < Head(K).no /\ Head(K).no <= n /\ Head(K).no > 0
  BY <1>1, <1>2 DEF Ordered
<1>4. /\ \A i \in 1..Len(Tail(K)) : /\ Tail(K)[i].no \in Nat /\ x < Tail(K)[i].no
                                    /\ Tail(K)[i].no <= n /\ Head(K).no < Tail(K)[i].no
      /\ \A i \in 1..Len(H), j \in 1..Len(Tail(K)) : H[i].of < Tail(K)[j].no
      /\ \A i \in 1..Len(H) : H[i].of < Head(K).no
  BY <1>1, <1>2 DEF Ordered
<1>5. \A i, j \in 1..Len(Tail(K)) : i < j => Tail(K)[i].no < Tail(K)[j].no
  <2>. SUFFICES ASSUME NEW i \in 1..Len(Tail(K)), NEW j \in 1..Len(Tail(K)), i < j
                PROVE  Tail(K)[i].no < Tail(K)[j].no
    OBVIOUS
  <2>1. i + 1 \in 1..Len(K) /\ j + 1 \in 1..Len(K) /\ i + 1 < j + 1
    BY <1>1
  <2>. QED BY <1>1, <2>1 DEF Ordered
<1>. QED BY <1>1, <1>3, <1>4, <1>5 DEF Ordered

\* What the kernel is at work on is answered.
LEMMA OrderedAnswer ==
  ASSUME NEW H, NEW v, NEW K, NEW x, NEW n, Ordered(H, v, K, x, n), v > 0, NEW a, a.of = v
  PROVE  Ordered(Append(H, a), 0, K, x, n)
<1>. DEFINE G == Append(H, a)
<1>1. /\ IsSeq(G) /\ Len(H) \in Nat /\ Len(G) = Len(H) + 1
      /\ \A i \in 1..Len(H) : G[i] = H[i]
      /\ G[Len(H) + 1] = a
  BY AppendFacts DEF Ordered
<1>. HIDE DEF G
<1>2. \A i \in 1..Len(G) : i \in 1..Len(H) \/ i = Len(H) + 1
  BY <1>1
<1>3. \A i \in 1..Len(G) : /\ G[i].of \in Nat /\ x < G[i].of /\ G[i].of <= n
                           /\ \A j \in 1..Len(K) : G[i].of < K[j].no
  BY <1>1, <1>2 DEF Ordered
<1>4. \A i, j \in 1..Len(G) : i < j => G[i].of < G[j].of
  <2>. SUFFICES ASSUME NEW i \in 1..Len(G), NEW j \in 1..Len(G), i < j PROVE G[i].of < G[j].of
    OBVIOUS
  <2>1. i \in 1..Len(H)
    BY <1>1
  <2>2. CASE j \in 1..Len(H)
    BY <1>1, <2>1, <2>2 DEF Ordered
  <2>3. CASE j = Len(H) + 1
    BY <1>1, <2>1, <2>3 DEF Ordered
  <2>. QED BY <1>2, <2>2, <2>3
<1>5. Ordered(G, 0, K, x, n)
  BY <1>1, <1>3, <1>4 DEF Ordered
<1>. QED BY <1>5 DEF G

LEMMA OrderedWrite ==
  ASSUME NEW H, NEW v, NEW K, NEW x, NEW n, Ordered(H, v, K, x, n), NEW r, r.no = n + 1
  PROVE  Ordered(H, v, Append(K, r), x, n + 1) /\ Ordered(H, v, K, x, n + 1)
<1>. DEFINE G == Append(K, r)
<1>1. /\ IsSeq(G) /\ Len(K) \in Nat /\ Len(G) = Len(K) + 1
      /\ \A i \in 1..Len(K) : G[i] = K[i]
      /\ G[Len(K) + 1] = r
  BY AppendFacts DEF Ordered
<1>. HIDE DEF G
<1>2. \A i \in 1..Len(G) : i \in 1..Len(K) \/ i = Len(K) + 1
  BY <1>1
<1>3. n \in Nat /\ x \in Nat /\ v \in Nat /\ x <= n
  BY DEF Ordered
<1>4. Ordered(H, v, K, x, n + 1)
  BY <1>3 DEF Ordered
<1>5. \A i \in 1..Len(G) : /\ G[i].no \in Nat /\ x < G[i].no /\ G[i].no <= n + 1
                           /\ \A j \in 1..Len(H) : H[j].of < G[i].no
                           /\ v > 0 => v < G[i].no
  BY <1>1, <1>2, <1>3 DEF Ordered
<1>6. \A i, j \in 1..Len(G) : i < j => G[i].no < G[j].no
  <2>. SUFFICES ASSUME NEW i \in 1..Len(G), NEW j \in 1..Len(G), i < j PROVE G[i].no < G[j].no
    OBVIOUS
  <2>1. i \in 1..Len(K)
    BY <1>1
  <2>2. CASE j \in 1..Len(K)
    BY <1>1, <2>1, <2>2 DEF Ordered
  <2>3. CASE j = Len(K) + 1
    BY <1>1, <1>3, <2>1, <2>3 DEF Ordered
  <2>. QED BY <1>2, <2>2, <2>3
<1>7. Ordered(H, v, G, x, n + 1)
  BY <1>1, <1>3, <1>4, <1>5, <1>6 DEF Ordered
<1>. QED BY <1>4, <1>7 DEF G

---------------------------------------------------------------------------
(* The invariant of the link. *)

LinkFields == {"lock", "toKernel", "toHost", "open", "sent"}
CallerFields == {"pc", "todo", "no", "frame", "got", "at"}
AnswerFields == {"of", "line", "gens"}

\* A request as the line delivers it.
FrameOK(f) == \E op \in Calls : \E g \in FramesOf(op) : f = g \/ f \in Noisy(g)

\* The number of the request the kernel is at work on; a boot's guest has none.
InService == IF kernel.phase = "guest" THEN kernel.serving.no ELSE 0

LinkType ==
  /\ DOMAIN kernel = KernelFields
  /\ DOMAIN link = LinkFields
  /\ DOMAIN caller = Caller
  /\ \A c \in Caller : DOMAIN caller[c] = CallerFields
  /\ \A i \in 1..Len(link.toKernel) : FrameOK(link.toKernel[i].frame)
  /\ \A i \in 1..Len(link.toHost) : DOMAIN link.toHost[i] = AnswerFields

\* The mutex, the order of the numbers, and what is under way as long as no call has
\* timed out: the last request at most, and nothing while no caller waits.
LinkInv ==
  /\ LinkType
  /\ Ordered(link.toHost, InService, link.toKernel, seen, link.sent)
  /\ \A c \in Caller : caller[c].pc = "sent" => link.lock = c /\ caller[c].no = link.sent
  /\ ~link.open => link.toKernel = <<>> /\ kernel.phase = "emulator"
  /\ ~late =>
       /\ \A i \in 1..Len(link.toHost) : link.toHost[i].of = link.sent
       /\ \A j \in 1..Len(link.toKernel) : link.toKernel[j].no = link.sent
       /\ InService > 0 => InService = link.sent
       /\ link.lock = None => link.toHost = <<>> /\ link.toKernel = <<>> /\ InService = 0

Ops == {"create", "start", "stop", "delete", "list", "image_load"}

LEMMA FrameFacts ==
  ASSUME NEW f, FrameOK(f), "op" \in DOMAIN f
  PROVE  f.op \in Ops
<1>0. PICK op \in Calls : \E g \in FramesOf(op) : f = g \/ f \in Noisy(g)
  BY DEF FrameOK
<1>1. PICK g \in FramesOf(op) : f = g \/ f \in Noisy(g)
  BY <1>0
<1>2. "op" \in DOMAIN g /\ g.op \in Ops
  BY DEF Calls, FramesOf, CreateFrame, ImageFrame, ListFrame, VmFrame, Ops
<1>3. CASE f \in Noisy(g)
  <2>1. CASE \E lost \in DOMAIN g : f = [key \in DOMAIN g \ {lost} |-> g[key]]
    <3>1. f["op"] = g["op"]
      BY <2>1
    <3>. QED BY <1>2, <3>1
  <2>2. CASE f = [g EXCEPT !.bytes_hex = [@ EXCEPT !.body = "damaged"]]
    <3>1. f["op"] = g["op"]
      BY <1>2, <2>2
    <3>. QED BY <1>2, <3>1
  <2>. QED BY <1>3, <2>1, <2>2 DEF Noisy
<1>. QED BY <1>1, <1>2, <1>3

LEMMA InitLink == Init => LinkInv
<1>. SUFFICES ASSUME Init PROVE LinkInv
  OBVIOUS
<1>1. /\ link = [lock |-> None, toKernel |-> <<>>, toHost |-> <<>>, open |-> TRUE, sent |-> 0]
      /\ late = FALSE /\ seen = 0
  BY DEF Init
<1>2. DOMAIN kernel = KernelFields /\ kernel.phase \in {"start", "emulator"}
  BY DEF Init, PowerOn, KernelFields
<1>3. DOMAIN caller = Caller /\ \A c \in Caller : DOMAIN caller[c] = CallerFields /\ caller[c].pc = "idle"
  BY DEF Init, Idle, CallerFields
<1>4. /\ DOMAIN link = LinkFields /\ link.lock = None /\ link.toKernel = <<>> /\ link.toHost = <<>>
      /\ link.open /\ link.sent = 0
  BY <1>1 DEF LinkFields
<1>5. InService = 0
  BY <1>2 DEF InService
<1>6. Ordered(<<>>, 0, <<>>, 0, 0)
  BY EmptyFacts DEF Ordered
<1>7. LinkType
  BY <1>2, <1>3, <1>4, EmptyFacts DEF LinkType
<1>. QED BY <1>1, <1>3, <1>4, <1>5, <1>6, <1>7, EmptyFacts DEF LinkInv

\* A step that leaves the link, the callers and what the kernel serves as they are.
LEMMA LinkUnmoved ==
  ASSUME LinkInv, UNCHANGED <<link, caller, late, seen>>, DOMAIN kernel' = KernelFields,
         InService' = InService, kernel.phase = "emulator" => kernel'.phase = "emulator"
  PROVE  LinkInv'
  BY DEF LinkInv, LinkType

\* The kernel takes the first request and leaves the host alone.
LEMMA ServedKeeps ==
  ASSUME LinkInv, NEW k, NEW reply, kernel.phase = "bridge", link.toKernel # <<>>,
         Served(k, reply), SamePhase(kernel, k)
  PROVE  LinkInv'
<1>1. /\ kernel' = k /\ UNCHANGED <<caller, late, seen>> /\ DOMAIN link = LinkFields
      /\ InService = 0 /\ link.open
  BY DEF Served, LinkInv, LinkType, InService
<1>2. DOMAIN kernel' = KernelFields /\ kernel'.phase = "bridge" /\ InService' = 0
  BY <1>1 DEF SamePhase, InService
<1>. DEFINE H == link.toHost
            K == link.toKernel
            a == Answer(Request.no, reply)
<1>3. a.of = Head(K).no /\ DOMAIN a = AnswerFields
  BY DEF Answer, Request, AnswerFields
<1>. HIDE DEF a
<1>4. /\ DOMAIN link' = LinkFields /\ link'.toKernel = Tail(K) /\ link'.lock = link.lock
      /\ link'.open = link.open /\ link'.sent = link.sent
      /\ link'.toHost = H \/ link'.toHost = Append(H, a)
  BY <1>1 DEF Served, LinkFields, a
<1>5. Ordered(H, 0, K, seen, link.sent)
  BY <1>1 DEF LinkInv
<1>6. /\ Ordered(H, 0, Tail(K), seen, link.sent) /\ Ordered(H, Head(K).no, Tail(K), seen, link.sent)
      /\ Head(K).no > 0 /\ Head(K) = K[1] /\ Len(K) \in Nat /\ Len(K) >= 1
  BY <1>5, OrderedDrop
<1>7. Ordered(Append(H, a), 0, Tail(K), seen, link.sent)
  BY <1>3, <1>6, OrderedAnswer
<1>8. /\ IsSeq(H) /\ IsSeq(K) /\ Len(Tail(K)) = Len(K) - 1
      /\ \A i \in 1..Len(Tail(K)) : Tail(K)[i] = K[i + 1] /\ i + 1 \in 1..Len(K)
  <2>1. IsSeq(H) /\ IsSeq(K)
    BY <1>5 DEF Ordered
  <2>. QED BY <1>6, <2>1, TailFacts
<1>9. /\ Len(H) \in Nat /\ Len(Append(H, a)) = Len(H) + 1
      /\ \A i \in 1..Len(Append(H, a)) : \/ i \in 1..Len(H) /\ Append(H, a)[i] = H[i]
                                         \/ i = Len(H) + 1 /\ Append(H, a)[i] = a
  <2>1. /\ Len(H) \in Nat /\ Len(Append(H, a)) = Len(H) + 1
        /\ \A i \in 1..Len(H) : Append(H, a)[i] = H[i]
        /\ Append(H, a)[Len(H) + 1] = a
    BY <1>8, AppendFacts
  <2>. QED BY <2>1
<1>10. LinkType'
  <2>1. \A i \in 1..Len(link'.toKernel) : FrameOK(link'.toKernel[i].frame)
    BY <1>4, <1>8 DEF LinkInv, LinkType
  <2>2. \A i \in 1..Len(link'.toHost) : DOMAIN link'.toHost[i] = AnswerFields
    <3>1. CASE link'.toHost = H
      BY <3>1 DEF LinkInv, LinkType
    <3>2. CASE link'.toHost = Append(H, a)
      BY <1>3, <1>9, <3>2 DEF LinkInv, LinkType
    <3>. QED BY <1>4, <3>1, <3>2
  <2>. QED BY <1>1, <1>2, <1>4, <2>1, <2>2 DEF LinkInv, LinkType
<1>11. Ordered(link'.toHost, 0, Tail(K), seen, link.sent)
  BY <1>4, <1>6, <1>7
<1>12. ASSUME ~late
       PROVE  /\ \A i \in 1..Len(link'.toHost) : link'.toHost[i].of = link.sent
              /\ \A j \in 1..Len(Tail(K)) : Tail(K)[j].no = link.sent
              /\ link.lock # None
  <2>1. /\ \A i \in 1..Len(H) : H[i].of = link.sent
        /\ \A j \in 1..Len(K) : K[j].no = link.sent
        /\ link.lock # None
    BY <1>12 DEF LinkInv
  <2>2. a.of = link.sent
    BY <1>3, <1>6, <2>1
  <2>3. \A i \in 1..Len(link'.toHost) : link'.toHost[i].of = link.sent
    <3>1. CASE link'.toHost = H
      BY <2>1, <3>1
    <3>2. CASE link'.toHost = Append(H, a)
      BY <1>9, <2>1, <2>2, <3>2
    <3>. QED BY <1>4, <3>1, <3>2
  <2>. QED BY <1>8, <2>1, <2>3
<1>. QED BY <1>1, <1>2, <1>4, <1>10, <1>11, <1>12 DEF LinkInv

LEMMA BootLink ==
  ASSUME LinkInv, BootStart \/ BootCreate \/ BootLaunch \/ BootFinish
  PROVE  LinkInv'
<1>1. /\ UNCHANGED <<link, caller, late, seen>> /\ kernel.phase \notin {"guest", "emulator"}
      /\ DOMAIN kernel = KernelFields
  BY DEF BootStart, BootCreate, BootLaunch, BootFinish, OnBoot, LinkInv, LinkType
<1>2. SUFFICES DOMAIN kernel' = KernelFields /\ (kernel'.phase = "guest" => kernel'.serving.no = 0)
  BY <1>1, LinkUnmoved DEF InService
<1>3. \A k : DOMAIN k = KernelFields => DOMAIN HaltBoot(k) = KernelFields /\ HaltBoot(k).phase = "halted"
  BY DEF HaltBoot, KernelFields
<1>4. CASE BootStart
  <2>1. PICK hw \in BOOLEAN :
          LET r == InitRuntime(kernel, hw)
              up == [r.k EXCEPT !.phase = "create_a", !.online = IF TopologyOk(boot) THEN 1 ELSE 0]
          IN kernel' = IF ~boot.valid \/ ~boot.vmx THEN HaltBoot(kernel) ELSE IF r.ok THEN up ELSE HaltBoot(r.k)
    BY <1>4 DEF BootStart
  <2>. DEFINE r == InitRuntime(kernel, hw)
              up == [r.k EXCEPT !.phase = "create_a", !.online = IF TopologyOk(boot) THEN 1 ELSE 0]
  <2>2. DOMAIN r.k = KernelFields
    BY <1>1, PhaseFacts DEF SamePhase
  <2>. HIDE DEF r
  <2>3. DOMAIN up = KernelFields /\ up.phase = "create_a"
    BY <2>2 DEF KernelFields
  <2>4. kernel' \in {HaltBoot(kernel), up, HaltBoot(r.k)}
    BY <2>1 DEF r
  <2>. HIDE DEF up
  <2>. QED BY <1>1, <1>3, <2>2, <2>3, <2>4
<1>5. CASE BootCreate
  <2>1. PICK hw \in BOOLEAN :
          LET r == CreateVm(kernel, FromHandoffOrEmbedded(boot), hw)
              next == IF kernel.phase = "create_a" THEN "create_b" ELSE "drain"
              ok == r.id # None /\ (next = "drain" => RoundTrips(r.k, 0))
          IN kernel' = IF ok THEN [r.k EXCEPT !.phase = next, !.cursor = 0] ELSE HaltBoot(r.k)
    BY <1>5 DEF BootCreate
  <2>. DEFINE r == CreateVm(kernel, FromHandoffOrEmbedded(boot), hw)
              next == IF kernel.phase = "create_a" THEN "create_b" ELSE "drain"
              up == [r.k EXCEPT !.phase = next, !.cursor = 0]
  <2>2. DOMAIN r.k = KernelFields
    BY <1>1, PhaseFacts DEF SamePhase
  <2>3. kernel' \in {up, HaltBoot(r.k)}
    BY <2>1
  <2>. HIDE DEF r
  <2>4. DOMAIN up = KernelFields /\ up.phase = next /\ next # "guest"
    BY <2>2 DEF KernelFields
  <2>. HIDE DEF up, next
  <2>. QED BY <1>3, <2>2, <2>3, <2>4
<1>6. CASE BootLaunch
  <2>1. PICK hw \in BOOLEAN :
          LET id == NextRunnable(kernel)
              r == EnterVm([kernel EXCEPT !.cursor = (id + 1) % MAX_VMS], id, hw)
          IN kernel' = IF r.entered THEN [r.k EXCEPT !.phase = "guest", !.serving = [no |-> 0, id |-> id]]
                       ELSE HaltBoot(r.k)
    BY <1>6 DEF BootLaunch
  <2>. DEFINE id == NextRunnable(kernel)
              k == [kernel EXCEPT !.cursor = (id + 1) % MAX_VMS]
              r == EnterVm(k, id, hw)
              up == [r.k EXCEPT !.phase = "guest", !.serving = [no |-> 0, id |-> id]]
  <2>2. DOMAIN k = KernelFields
    BY <1>1
  <2>3. kernel' \in {up, HaltBoot(r.k)}
    BY <2>1
  <2>. HIDE DEF k, id
  <2>4. DOMAIN r.k = KernelFields
    BY <2>2, PhaseFacts DEF SamePhase
  <2>. HIDE DEF r
  <2>5. DOMAIN up = KernelFields /\ up.serving.no = 0
    BY <2>4 DEF KernelFields
  <2>. HIDE DEF up
  <2>. QED BY <1>3, <2>3, <2>4, <2>5
<1>7. CASE BootFinish
  <2>. DEFINE k == StopAll(kernel)
  <2>1. DOMAIN k = KernelFields
    BY <1>1, PhaseFacts DEF SamePhase
  <2>2. PICK phase \in {"halted", "bridge"} : kernel' = [k EXCEPT !.phase = phase]
    BY <1>7 DEF BootFinish
  <2>. HIDE DEF k
  <2>. QED BY <2>1, <2>2 DEF KernelFields
<1>. QED BY <1>4, <1>5, <1>6, <1>7

LEMMA BridgeLink ==
  ASSUME LinkInv, \/ BridgeReject \/ BridgeCreate \/ BridgeStop \/ BridgeDelete
                  \/ BridgeList \/ BridgeImageLoad
  PROVE  LinkInv'
<1>1. Bridging /\ kernel.phase = "bridge" /\ link.toKernel # <<>> /\ DOMAIN kernel = KernelFields
  BY DEF BridgeReject, BridgeCreate, BridgeStop, BridgeDelete, BridgeList, BridgeImageLoad,
         Dispatching, Bridging, LinkInv, LinkType
<1>2. ASSUME NEW k, SamePhase(kernel, k), NEW reply, Served(k, reply)
      PROVE  LinkInv'
  BY <1>1, <1>2, ServedKeeps
<1>3. CASE BridgeReject
  BY <1>1, <1>2, <1>3, PhaseFacts DEF BridgeReject
<1>4. CASE BridgeCreate
  <2>1. PICK hw \in BOOLEAN :
          LET f == Request.frame
              r == CreateVm(kernel, FromStagedOrEmbedded(kernel, CrcWanted(f)), hw)
              told == [label |-> f.label, crc |-> CrcWanted(f)]
          IN \/ Served(r.k, Error)
             \/ Served([r.k EXCEPT !.meta[r.id] = told], Created(r.id))
    BY <1>4 DEF BridgeCreate
  <2>. DEFINE f == Request.frame
              r == CreateVm(kernel, FromStagedOrEmbedded(kernel, CrcWanted(f)), hw)
              told == [label |-> f.label, crc |-> CrcWanted(f)]
  <2>2. SamePhase(kernel, r.k)
    BY <1>1, PhaseFacts
  <2>3. SamePhase(kernel, [r.k EXCEPT !.meta[r.id] = told])
    <3>1. DOMAIN r.k = KernelFields
      BY <2>2 DEF SamePhase
    <3>. HIDE DEF r, told
    <3>2. SamePhase(r.k, [r.k EXCEPT !.meta[r.id] = told])
      BY <3>1, PhaseFacts
    <3>. QED BY <2>2, <3>2 DEF SamePhase
  <2>. QED BY <1>2, <2>1, <2>2, <2>3
<1>5. CASE BridgeStop
  BY <1>1, <1>2, <1>5, PhaseFacts DEF BridgeStop
<1>6. CASE BridgeDelete
  BY <1>1, <1>2, <1>6, PhaseFacts DEF BridgeDelete
<1>7. CASE BridgeList
  BY <1>1, <1>2, <1>7, PhaseFacts DEF BridgeList
<1>8. CASE BridgeImageLoad
  BY <1>1, <1>2, <1>8, PhaseFacts DEF BridgeImageLoad
<1>. QED BY <1>3, <1>4, <1>5, <1>6, <1>7, <1>8

LEMMA BridgeStartLink ==
  ASSUME LinkInv, BridgeStart
  PROVE  LinkInv'
<1>1. Bridging /\ kernel.phase = "bridge" /\ link.toKernel # <<>> /\ DOMAIN kernel = KernelFields
  BY DEF BridgeStart, Dispatching, Bridging, LinkInv, LinkType
<1>2. PICK hw \in BOOLEAN :
        LET id == Request.frame.vm_id
            r == EnterVm(kernel, id, hw)
        IN IF ~r.entered THEN Served(r.k, Error)
           ELSE /\ kernel' = [r.k EXCEPT !.phase = "guest", !.serving = [no |-> Request.no, id |-> id]]
                /\ link' = [link EXCEPT !.toKernel = Tail(@)]
                /\ UNCHANGED <<kind, boot, caller, host, noise, late, seen>>
  BY DEF BridgeStart
<1>. DEFINE id == Request.frame.vm_id
            r == EnterVm(kernel, id, hw)
            up == [r.k EXCEPT !.phase = "guest", !.serving = [no |-> Request.no, id |-> id]]
<1>3. SamePhase(kernel, r.k)
  BY <1>1, PhaseFacts
<1>4. CASE ~r.entered
  BY <1>1, <1>2, <1>3, <1>4, ServedKeeps
<1>5. CASE r.entered
  <2>1. /\ kernel' = up /\ link' = [link EXCEPT !.toKernel = Tail(@)]
        /\ UNCHANGED <<caller, late, seen>>
    BY <1>2, <1>5
  <2>. HIDE DEF r, id
  <2>2. DOMAIN up = KernelFields /\ up.phase = "guest" /\ up.serving.no = Request.no
    BY <1>3 DEF SamePhase, KernelFields
  <2>. HIDE DEF up
  <2>. DEFINE H == link.toHost
              K == link.toKernel
  <2>3. /\ DOMAIN link' = LinkFields /\ link'.toKernel = Tail(K) /\ link'.lock = link.lock
        /\ link'.open = link.open /\ link'.sent = link.sent /\ link'.toHost = H
    BY <2>1 DEF LinkInv, LinkType, LinkFields
  <2>4. InService = 0 /\ link.open /\ InService' = Head(K).no
    BY <1>1, <2>1, <2>2 DEF InService, LinkInv, Request
  <2>5. /\ Ordered(H, Head(K).no, Tail(K), seen, link.sent)
        /\ Head(K).no > 0 /\ Head(K) = K[1] /\ Len(K) \in Nat /\ Len(K) >= 1
    BY <1>1, <2>4, OrderedDrop DEF LinkInv
  <2>6. /\ Len(Tail(K)) = Len(K) - 1
        /\ \A i \in 1..Len(Tail(K)) : Tail(K)[i] = K[i + 1] /\ i + 1 \in 1..Len(K)
    <3>1. IsSeq(K)
      BY DEF LinkInv, Ordered
    <3>. QED BY <1>1, <2>5, <3>1, TailFacts
  <2>7. LinkType'
    BY <2>1, <2>2, <2>3, <2>6 DEF LinkInv, LinkType
  <2>8. ASSUME ~late
        PROVE  /\ \A i \in 1..Len(H) : H[i].of = link.sent
               /\ \A j \in 1..Len(Tail(K)) : Tail(K)[j].no = link.sent
               /\ Head(K).no = link.sent
               /\ link.lock # None
    BY <1>1, <2>5, <2>6, <2>8 DEF LinkInv
  <2>9. Ordered(link'.toHost, InService', link'.toKernel, seen', link'.sent)
    BY <2>1, <2>3, <2>4, <2>5
  <2>10. \A c \in Caller : caller'[c].pc = "sent" => link'.lock = c /\ caller'[c].no = link'.sent
    BY <2>1, <2>3 DEF LinkInv
  <2>. QED BY <2>1, <2>3, <2>4, <2>7, <2>8, <2>9, <2>10 DEF LinkInv
<1>. QED BY <1>4, <1>5

\* A guest that a start was for has given the processor back: the answer is written.
LEMMA GuestExitLink ==
  ASSUME LinkInv, GuestExit
  PROVE  LinkInv'
<1>. DEFINE run == kernel.serving
<1>1. kernel.phase = "guest" /\ DOMAIN kernel = KernelFields /\ UNCHANGED <<caller, late, seen>>
  BY DEF GuestExit, LinkInv, LinkType
<1>2. PICK o \in Outcome :
        LET k == [Ended(kernel, run.id, o) EXCEPT !.phase = IF run.no = 0 THEN "drain" ELSE "bridge", !.serving = None]
        IN /\ kernel' = k
           /\ link' = IF run.no = 0 THEN link
                      ELSE [link EXCEPT !.toHost = Append(@, Answer(run.no, StateIs(k, run.id)))]
  BY DEF GuestExit
<1>. DEFINE e == Ended(kernel, run.id, o)
            phase == IF run.no = 0 THEN "drain" ELSE "bridge"
            k == [e EXCEPT !.phase = phase, !.serving = None]
<1>3. DOMAIN e = KernelFields
  BY <1>1, PhaseFacts DEF SamePhase
<1>4. kernel' = k /\ link' = IF run.no = 0 THEN link
                             ELSE [link EXCEPT !.toHost = Append(@, Answer(run.no, StateIs(k, run.id)))]
  BY <1>2
<1>. HIDE DEF e
<1>5. DOMAIN kernel' = KernelFields /\ kernel'.phase = phase /\ InService' = 0 /\ phase # "emulator"
  BY <1>3, <1>4 DEF KernelFields, InService
<1>6. InService = run.no /\ InService \in Nat /\ link.open
  BY <1>1 DEF InService, LinkInv, Ordered
<1>7. CASE run.no = 0
  BY <1>1, <1>4, <1>5, <1>6, <1>7, LinkUnmoved
<1>8. CASE run.no # 0
  <2>. DEFINE a == Answer(run.no, StateIs(k, run.id))
              H == link.toHost
              K == link.toKernel
  <2>1. link' = [link EXCEPT !.toHost = Append(@, a)]
    BY <1>4, <1>8
  <2>2. a.of = run.no /\ DOMAIN a = AnswerFields
    BY DEF Answer, AnswerFields
  <2>. HIDE DEF a
  <2>3. /\ DOMAIN link' = LinkFields /\ link'.toKernel = K /\ link'.lock = link.lock
        /\ link'.open = link.open /\ link'.sent = link.sent /\ link'.toHost = Append(H, a)
    BY <2>1 DEF LinkInv, LinkType, LinkFields
  <2>4. Ordered(Append(H, a), 0, K, seen, link.sent)
    BY <1>6, <1>8, <2>2, OrderedAnswer DEF LinkInv
  <2>5. /\ Len(H) \in Nat /\ Len(Append(H, a)) = Len(H) + 1
        /\ \A i \in 1..Len(Append(H, a)) : \/ i \in 1..Len(H) /\ Append(H, a)[i] = H[i]
                                           \/ i = Len(H) + 1 /\ Append(H, a)[i] = a
    <3>1. IsSeq(H)
      BY DEF LinkInv, Ordered
    <3>2. /\ Len(H) \in Nat /\ Len(Append(H, a)) = Len(H) + 1
          /\ \A i \in 1..Len(H) : Append(H, a)[i] = H[i]
          /\ Append(H, a)[Len(H) + 1] = a
      BY <3>1, AppendFacts
    <3>. QED BY <3>2
  <2>6. LinkType'
    <3>1. \A i \in 1..Len(link'.toHost) : DOMAIN link'.toHost[i] = AnswerFields
      BY <2>2, <2>3, <2>5 DEF LinkInv, LinkType
    <3>. QED BY <1>1, <1>5, <2>3, <3>1 DEF LinkInv, LinkType
  <2>7. ASSUME ~late
        PROVE  /\ \A i \in 1..Len(Append(H, a)) : Append(H, a)[i].of = link.sent
               /\ \A j \in 1..Len(K) : K[j].no = link.sent
               /\ link.lock # None
    <3>1. /\ \A i \in 1..Len(H) : H[i].of = link.sent
          /\ \A j \in 1..Len(K) : K[j].no = link.sent
          /\ link.lock # None /\ a.of = link.sent
      BY <1>6, <1>8, <2>2, <2>7 DEF LinkInv
    <3>. QED BY <2>5, <3>1
  <2>. QED BY <1>1, <1>5, <1>6, <2>3, <2>4, <2>6, <2>7 DEF LinkInv
<1>. QED BY <1>7, <1>8

LEMMA LoopbackPhase ==
  ASSUME NEW k, DOMAIN k = KernelFields, NEW f, FrameOK(f), "op" \in DOMAIN f
  PROVE  SamePhase(k, Loopback(k, f).k)
<1>1. f.op \in Ops
  BY FrameFacts
<1>2. \A id, vm : SamePhase(k, [k EXCEPT !.vm[id] = vm])
  BY DEF SamePhase, KernelFields
<1>3. \A id, vm, s, m : SamePhase(k, [[k EXCEPT !.vm[id] = vm] EXCEPT !.meta[s] = m])
  BY DEF SamePhase, KernelFields
<1>4. SamePhase(k, k) /\ \A id : SamePhase(k, Stop(k, id))
  BY PhaseFacts
<1>5. CASE f.op = "create"
  BY <1>3, <1>4, <1>5 DEF Loopback
<1>6. CASE f.op = "start"
  BY <1>2, <1>4, <1>6 DEF Loopback
<1>7. CASE f.op = "stop"
  BY <1>4, <1>7 DEF Loopback
<1>8. CASE f.op = "delete"
  BY <1>2, <1>4, <1>8 DEF Loopback
<1>9. CASE f.op = "list"
  BY <1>4, <1>9 DEF Loopback
<1>10. CASE f.op = "image_load"
  BY <1>4, <1>10 DEF Loopback
<1>. QED BY <1>1, <1>5, <1>6, <1>7, <1>8, <1>9, <1>10 DEF Ops

LEMMA EmulatorLink ==
  ASSUME LinkInv, EmulatorServe
  PROVE  LinkInv'
<1>. DEFINE H == link.toHost
            K == link.toKernel
            f == Request.frame
            r == IF Readable(f) THEN Loopback(kernel, f) ELSE [k |-> kernel, reply |-> None]
            a == Answer(Request.no, r.reply)
<1>1. /\ kernel.phase = "emulator" /\ link.open /\ K # <<>> /\ DOMAIN kernel = KernelFields
      /\ UNCHANGED <<caller, late, seen>> /\ InService = 0 /\ DOMAIN link = LinkFields
      /\ kernel' = r.k
  BY DEF EmulatorServe, LinkInv, LinkType, InService
<1>2. /\ link' = [link EXCEPT !.open = r.reply # None, !.toKernel = IF r.reply = None THEN <<>> ELSE Tail(@),
                              !.toHost = IF r.reply = None THEN @ ELSE Append(@, a)]
  BY DEF EmulatorServe
<1>3. /\ Ordered(H, 0, K, seen, link.sent) /\ Ordered(H, 0, Tail(K), seen, link.sent)
      /\ Ordered(H, Head(K).no, Tail(K), seen, link.sent)
      /\ Head(K).no > 0 /\ Head(K) = K[1] /\ Len(K) \in Nat /\ Len(K) >= 1
  BY <1>1, OrderedDrop DEF LinkInv
<1>4. FrameOK(f)
  BY <1>3 DEF LinkInv, LinkType, Request
<1>5. DOMAIN kernel' = KernelFields /\ kernel'.phase = "emulator" /\ InService' = 0
  <2>1. SamePhase(kernel, r.k)
    <3>1. CASE Readable(f)
      BY <1>1, <1>4, <3>1, LoopbackPhase DEF Readable
    <3>2. CASE ~Readable(f)
      BY <1>1, <3>2, PhaseFacts
    <3>. QED BY <3>1, <3>2
  <2>. HIDE DEF r
  <2>. QED BY <1>1, <2>1 DEF SamePhase, InService
<1>6. a.of = Head(K).no /\ DOMAIN a = AnswerFields
  BY DEF Answer, Request, AnswerFields
<1>. HIDE DEF a, r
<1>7. CASE r.reply = None
  <2>1. /\ DOMAIN link' = LinkFields /\ link'.toKernel = <<>> /\ link'.toHost = H
        /\ link'.lock = link.lock /\ link'.sent = link.sent /\ ~link'.open
    BY <1>1, <1>2, <1>7 DEF LinkFields
  <2>2. Ordered(H, 0, <<>>, seen, link.sent)
    BY <1>3, EmptyFacts DEF Ordered
  <2>3. LinkType'
    BY <1>1, <1>5, <2>1, EmptyFacts DEF LinkInv, LinkType
  <2>4. ASSUME ~late
        PROVE  \A i \in 1..Len(H) : H[i].of = link.sent /\ link.lock # None
    BY <1>1, <2>4 DEF LinkInv
  <2>5. ~late => link.lock # None
    BY <1>1 DEF LinkInv
  <2>. QED BY <1>1, <1>5, <2>1, <2>2, <2>3, <2>4, <2>5, EmptyFacts DEF LinkInv
<1>8. CASE r.reply # None
  <2>1. /\ DOMAIN link' = LinkFields /\ link'.toKernel = Tail(K) /\ link'.toHost = Append(H, a)
        /\ link'.lock = link.lock /\ link'.sent = link.sent /\ link'.open
    BY <1>1, <1>2, <1>8 DEF LinkFields
  <2>2. Ordered(Append(H, a), 0, Tail(K), seen, link.sent)
    BY <1>3, <1>6, OrderedAnswer
  <2>3. /\ Len(Tail(K)) = Len(K) - 1 /\ IsSeq(H)
        /\ \A i \in 1..Len(Tail(K)) : Tail(K)[i] = K[i + 1] /\ i + 1 \in 1..Len(K)
    <3>1. IsSeq(K) /\ IsSeq(H)
      BY <1>3 DEF Ordered
    <3>. QED BY <1>1, <1>3, <3>1, TailFacts
  <2>4. /\ Len(H) \in Nat /\ Len(Append(H, a)) = Len(H) + 1
        /\ \A i \in 1..Len(Append(H, a)) : \/ i \in 1..Len(H) /\ Append(H, a)[i] = H[i]
                                           \/ i = Len(H) + 1 /\ Append(H, a)[i] = a
    <3>1. /\ Len(H) \in Nat /\ Len(Append(H, a)) = Len(H) + 1
          /\ \A i \in 1..Len(H) : Append(H, a)[i] = H[i]
          /\ Append(H, a)[Len(H) + 1] = a
      BY <2>3, AppendFacts
    <3>. QED BY <3>1
  <2>5. LinkType'
    <3>1. \A i \in 1..Len(link'.toHost) : DOMAIN link'.toHost[i] = AnswerFields
      BY <1>6, <2>1, <2>4 DEF LinkInv, LinkType
    <3>2. \A i \in 1..Len(link'.toKernel) : FrameOK(link'.toKernel[i].frame)
      BY <2>1, <2>3 DEF LinkInv, LinkType
    <3>. QED BY <1>1, <1>5, <2>1, <3>1, <3>2 DEF LinkInv, LinkType
  <2>6. ASSUME ~late
        PROVE  /\ \A i \in 1..Len(Append(H, a)) : Append(H, a)[i].of = link.sent
               /\ \A j \in 1..Len(Tail(K)) : Tail(K)[j].no = link.sent
               /\ link.lock # None
    <3>1. /\ \A i \in 1..Len(H) : H[i].of = link.sent
          /\ \A j \in 1..Len(K) : K[j].no = link.sent
          /\ link.lock # None
      BY <1>1, <2>6 DEF LinkInv
    <3>2. a.of = link.sent
      BY <1>3, <1>6, <3>1
    <3>. QED BY <2>3, <2>4, <3>1, <3>2
  <2>. QED BY <1>1, <1>5, <2>1, <2>2, <2>5, <2>6 DEF LinkInv
<1>. QED BY <1>7, <1>8

---------------------------------------------------------------------------
(* The host's steps. *)

LEMMA WriteLink ==
  ASSUME LinkInv, NEW c \in Caller, Write(c)
  PROVE  LinkInv'
<1>. DEFINE H == link.toHost
            K == link.toKernel
            no == link.sent + 1
<1>1. /\ link.lock = None /\ Op(c) \in Calls /\ caller[c].pc = "idle"
      /\ UNCHANGED <<kernel, late, seen>> /\ InService' = InService
      /\ DOMAIN link = LinkFields /\ DOMAIN caller = Caller
  BY DEF Write, MayWrite, Ready, OnHost, InService, LinkInv, LinkType
<1>2. PICK frame \in FramesOf(Op(c)) :
        \E sent \in {frame} \cup IF noise > 0 THEN Noisy(frame) ELSE {} :
          /\ link' = [link EXCEPT !.lock = c, !.sent = no,
                        !.toKernel = IF link.open THEN Append(@, [no |-> no, frame |-> sent, policy |-> Policy[c]]) ELSE @]
          /\ caller' = [caller EXCEPT ![c] = [@ EXCEPT !.pc = "sent", !.no = no, !.frame = frame, !.at = born]]
  BY DEF Write
<1>3. PICK sent \in {frame} \cup Noisy(frame) :
        /\ link' = [link EXCEPT !.lock = c, !.sent = no,
                      !.toKernel = IF link.open THEN Append(@, [no |-> no, frame |-> sent, policy |-> Policy[c]]) ELSE @]
        /\ caller' = [caller EXCEPT ![c] = [@ EXCEPT !.pc = "sent", !.no = no, !.frame = frame, !.at = born]]
  BY <1>2
<1>. DEFINE r == [no |-> no, frame |-> sent, policy |-> Policy[c]]
            q == [caller[c] EXCEPT !.pc = "sent", !.no = no, !.frame = frame, !.at = born]
<1>4. FrameOK(sent) /\ r.no = no /\ r.frame = sent
  BY <1>1 DEF FrameOK
<1>5. DOMAIN q = CallerFields /\ q.pc = "sent" /\ q.no = no
  BY DEF LinkInv, LinkType, CallerFields
<1>. HIDE DEF r, q
<1>6. /\ DOMAIN caller' = Caller /\ caller'[c] = q /\ \A x \in Caller \ {c} : caller'[x] = caller[x]
  BY <1>1, <1>3 DEF q
<1>7. /\ DOMAIN link' = LinkFields /\ link'.lock = c /\ link'.sent = no /\ link'.open = link.open
      /\ link'.toHost = H /\ link'.toKernel = IF link.open THEN Append(K, r) ELSE K
  BY <1>1, <1>3 DEF LinkFields, r
<1>8. /\ Ordered(H, InService, Append(K, r), seen, no) /\ Ordered(H, InService, K, seen, no)
  BY <1>4, OrderedWrite DEF LinkInv
<1>9. /\ Len(K) \in Nat /\ Len(Append(K, r)) = Len(K) + 1
      /\ \A i \in 1..Len(Append(K, r)) : \/ i \in 1..Len(K) /\ Append(K, r)[i] = K[i]
                                         \/ i = Len(K) + 1 /\ Append(K, r)[i] = r
  <2>1. IsSeq(K)
    BY DEF LinkInv, Ordered
  <2>2. /\ Len(K) \in Nat /\ Len(Append(K, r)) = Len(K) + 1
        /\ \A i \in 1..Len(K) : Append(K, r)[i] = K[i]
        /\ Append(K, r)[Len(K) + 1] = r
    BY <2>1, AppendFacts
  <2>. QED BY <2>2
<1>10. LinkType'
  <2>1. \A i \in 1..Len(link'.toKernel) : FrameOK(link'.toKernel[i].frame)
    <3>1. CASE link.open
      BY <1>4, <1>7, <1>9, <3>1 DEF LinkInv, LinkType
    <3>2. CASE ~link.open
      BY <1>7, <3>2 DEF LinkInv, LinkType
    <3>. QED BY <3>1, <3>2
  <2>. QED BY <1>1, <1>5, <1>6, <1>7, <2>1 DEF LinkInv, LinkType
<1>11. \A x \in Caller : caller'[x].pc = "sent" => link'.lock = x /\ caller'[x].no = link'.sent
  <2>1. \A x \in Caller \ {c} : caller[x].pc # "sent"
    BY <1>1, HostAssumption DEF LinkInv
  <2>. QED BY <1>5, <1>6, <1>7, <2>1
<1>12. ASSUME ~late
       PROVE  /\ \A i \in 1..Len(link'.toHost) : link'.toHost[i].of = link'.sent
              /\ \A j \in 1..Len(link'.toKernel) : link'.toKernel[j].no = link'.sent
              /\ InService = 0
  <2>1. H = <<>> /\ K = <<>> /\ InService = 0
    BY <1>1, <1>12 DEF LinkInv
  <2>2. Len(H) = 0 /\ Len(K) = 0
    BY <2>1, EmptyFacts
  <2>. QED BY <1>4, <1>7, <1>9, <2>1, <2>2
<1>13. ~link'.open => link'.toKernel = <<>> /\ kernel'.phase = "emulator"
  BY <1>1, <1>7 DEF LinkInv
<1>14. Ordered(link'.toHost, InService', link'.toKernel, seen', link'.sent)
  BY <1>1, <1>7, <1>8
<1>15. link'.lock # None
  BY <1>7, HostAssumption
<1>. QED BY <1>1, <1>10, <1>11, <1>12, <1>13, <1>14, <1>15 DEF LinkInv

\* A call is over: what it does to the caller and to the lock.
LEMMA GotFacts ==
  ASSUME LinkInv, NEW c \in Caller, NEW answer, NEW rest, Got(c, answer, rest)
  PROVE  /\ DOMAIN caller' = Caller /\ DOMAIN caller'[c] = CallerFields /\ caller'[c].pc = "got"
         /\ \A x \in Caller \ {c} : caller'[x] = caller[x]
         /\ DOMAIN link' = LinkFields /\ link'.lock = None /\ link'.toHost = rest
         /\ link'.toKernel = link.toKernel /\ link'.open = link.open /\ link'.sent = link.sent
         /\ kernel' = kernel /\ InService' = InService
<1>. DEFINE q == [caller[c] EXCEPT !.pc = "got", !.got = answer]
<1>1. DOMAIN q = CallerFields /\ q.pc = "got"
  BY DEF LinkInv, LinkType, CallerFields
<1>2. caller' = [caller EXCEPT ![c] = q] /\ link' = [link EXCEPT !.lock = None, !.toHost = rest]
      /\ kernel' = kernel
  BY DEF Got, OnHost
<1>. HIDE DEF q
<1>3. InService' = InService
  BY <1>2 DEF InService
<1>4. /\ DOMAIN caller' = Caller /\ caller'[c] = q
      /\ \A x \in Caller \ {c} : caller'[x] = caller[x]
  BY <1>2 DEF LinkInv, LinkType
<1>. QED BY <1>1, <1>2, <1>3, <1>4 DEF LinkInv, LinkType, LinkFields

\* The other callers do not wait: the mutex is the caller's.
LEMMA OnlyWaiter ==
  ASSUME LinkInv, NEW c \in Caller, caller[c].pc = "sent"
  PROVE  \A x \in Caller \ {c} : caller[x].pc # "sent"
  BY DEF LinkInv

LEMMA ReadLineLink ==
  ASSUME LinkInv, NEW c \in Caller, ReadLine(c)
  PROVE  /\ LinkInv'
         /\ seen < seen' /\ seen' <= caller[c].no
         /\ ~late => seen' = caller[c].no
<1>. DEFINE H == link.toHost
            K == link.toKernel
<1>1. /\ caller[c].pc = "sent" /\ H # <<>> /\ Got(c, Head(H), Tail(H))
      /\ seen' = Head(H).of /\ late' = late
  BY DEF ReadLine
<1>2. /\ DOMAIN caller' = Caller /\ DOMAIN caller'[c] = CallerFields /\ caller'[c].pc = "got"
      /\ \A x \in Caller \ {c} : caller'[x] = caller[x]
      /\ DOMAIN link' = LinkFields /\ link'.lock = None /\ link'.toHost = Tail(H)
      /\ link'.toKernel = K /\ link'.open = link.open /\ link'.sent = link.sent
      /\ kernel' = kernel /\ InService' = InService
  BY <1>1, GotFacts
<1>3. /\ Ordered(Tail(H), InService, K, Head(H).of, link.sent)
      /\ seen < Head(H).of /\ Head(H).of <= link.sent /\ Head(H).of \in Nat
  BY <1>1, OrderedRead DEF LinkInv
<1>4. /\ IsSeq(Tail(H)) /\ IsSeq(K) /\ Len(H) \in Nat /\ Len(H) >= 1 /\ Len(Tail(H)) = Len(H) - 1
      /\ Head(H) = H[1]
      /\ \A i \in 1..Len(Tail(H)) : Tail(H)[i] = H[i + 1] /\ i + 1 \in 1..Len(H)
  <2>1. IsSeq(H) /\ IsSeq(K)
    BY DEF LinkInv, Ordered
  <2>. QED BY <1>1, <2>1, TailFacts
<1>5. ~late => Head(H).of = link.sent
  BY <1>4 DEF LinkInv
<1>6. ASSUME ~late
      PROVE  Tail(H) = <<>> /\ K = <<>> /\ InService = 0
  <2>1. Len(Tail(H)) = 0
    <3>1. \A i \in 1..Len(Tail(H)) : FALSE
      BY <1>3, <1>5, <1>6 DEF Ordered
    <3>2. Len(Tail(H)) \in Nat
      BY <1>4
    <3>3. \A n \in Nat : (\A i \in 1..n : FALSE) => n = 0
      OBVIOUS
    <3>. QED BY <3>1, <3>2, <3>3, Zenon
  <2>2. Len(K) \in Nat
    BY <1>4, AppendFacts
  <2>3. Len(K) = 0
    <3>1. \A i \in 1..Len(K) : FALSE
      BY <1>3, <1>5, <1>6 DEF Ordered
    <3>. QED BY <2>2, <3>1
  <2>4. InService = 0
    BY <1>3, <1>5, <1>6 DEF Ordered
  <2>5. \A s : IsSeq(s) /\ Len(s) = 0 => s = <<>>
    BY DEF IsSeq
  <2>. QED BY <1>4, <2>1, <2>3, <2>4, <2>5
<1>7. LinkType'
  BY <1>2, <1>4 DEF LinkInv, LinkType
<1>8. \A x \in Caller : caller'[x].pc = "sent" => link'.lock = x /\ caller'[x].no = link'.sent
  BY <1>1, <1>2, OnlyWaiter
<1>9. ~link'.open => link'.toKernel = <<>> /\ kernel'.phase = "emulator"
  BY <1>2 DEF LinkInv
<1>10. Ordered(link'.toHost, InService', link'.toKernel, seen', link'.sent)
  BY <1>1, <1>2, <1>3
<1>11. LinkInv'
  BY <1>1, <1>2, <1>6, <1>7, <1>8, <1>9, <1>10, EmptyFacts DEF LinkInv
<1>12. caller[c].no = link.sent
  BY <1>1 DEF LinkInv
<1>. QED BY <1>1, <1>3, <1>5, <1>11, <1>12

LEMMA PeerClosedLink ==
  ASSUME LinkInv, NEW c \in Caller, PeerClosed(c)
  PROVE  LinkInv'
<1>1. /\ caller[c].pc = "sent" /\ link.toHost = <<>> /\ ~link.open /\ Got(c, Closed, <<>>)
      /\ late' = late /\ seen' = seen
  BY DEF PeerClosed
<1>2. /\ DOMAIN caller' = Caller /\ DOMAIN caller'[c] = CallerFields /\ caller'[c].pc = "got"
      /\ \A x \in Caller \ {c} : caller'[x] = caller[x]
      /\ DOMAIN link' = LinkFields /\ link'.lock = None /\ link'.toHost = <<>>
      /\ link'.toKernel = link.toKernel /\ link'.open = link.open /\ link'.sent = link.sent
      /\ kernel' = kernel /\ InService' = InService
  BY <1>1, GotFacts
<1>3. link.toKernel = <<>> /\ InService = 0
  BY <1>1 DEF LinkInv, InService
<1>4. LinkType'
  BY <1>1, <1>2 DEF LinkInv, LinkType
<1>5. \A x \in Caller : caller'[x].pc = "sent" => link'.lock = x /\ caller'[x].no = link'.sent
  BY <1>1, <1>2, OnlyWaiter
<1>. QED BY <1>1, <1>2, <1>3, <1>4, <1>5 DEF LinkInv

\* What is left of a reply whose first bytes have been read keeps its place.
LEMMA OrderedSpoil ==
  ASSUME NEW H, NEW v, NEW K, NEW x, NEW n, Ordered(H, v, K, x, n), H # <<>>,
         NEW e, e.of = Head(H).of
  PROVE  /\ Ordered(<<e>> \o Tail(H), v, K, x, n)
         /\ \A i \in 1..Len(<<e>> \o Tail(H)) :
               \/ (<<e>> \o Tail(H))[i] = e
               \/ i \in 1..Len(H) /\ (<<e>> \o Tail(H))[i] = H[i]
<1>. DEFINE G == <<e>> \o Tail(H)
<1>1. PICK S : H \in Seq(S)
  BY DEF Ordered, IsSeq
<1>2. Tail(H) \in Seq(S \cup {e}) /\ <<e>> \in Seq(S \cup {e}) /\ Len(<<e>>) = 1 /\ <<e>>[1] = e
      /\ Len(H) \in Nat /\ Len(H) >= 1 /\ Len(Tail(H)) = Len(H) - 1 /\ Head(H) = H[1]
  BY <1>1
<1>3. G \in Seq(S \cup {e}) /\ Len(G) = Len(H)
  BY <1>2
<1>4. \A i \in 1..Len(H) : G[i] = IF i = 1 THEN e ELSE Tail(H)[i - 1]
  BY <1>2
<1>5. \A i \in 1..Len(H) : i # 1 => i - 1 \in 1..Len(Tail(H)) /\ Tail(H)[i - 1] = H[i]
  BY <1>1, <1>2
<1>. HIDE DEF G
<1>6. \A i \in 1..Len(H) : (G[i] = e \/ G[i] = H[i]) /\ G[i].of = H[i].of
  BY <1>2, <1>4, <1>5
<1>7. IsSeq(G)
  BY <1>3 DEF IsSeq
<1>8. Ordered(G, v, K, x, n)
  BY <1>3, <1>6, <1>7 DEF Ordered
<1>9. \A i \in 1..Len(G) : G[i] = e \/ (i \in 1..Len(H) /\ G[i] = H[i])
  BY <1>3, <1>6
<1>. QED BY <1>8, <1>9 DEF G

LEMMA TimeOutLink ==
  ASSUME LinkInv, NEW c \in Caller, TimeOut(c)
  PROVE  LinkInv'
<1>. DEFINE H == link.toHost
            e == [Head(H) EXCEPT !.line = Closed]
<1>1. PICK rest : /\ Got(c, Closed, rest)
                  /\ \/ rest = H
                     \/ H # <<>> /\ rest = <<e>> \o Tail(H)
  BY DEF TimeOut
<1>2. caller[c].pc = "sent" /\ late' /\ seen' = seen
  BY DEF TimeOut, Expires
<1>3. /\ DOMAIN caller' = Caller /\ DOMAIN caller'[c] = CallerFields /\ caller'[c].pc = "got"
      /\ \A x \in Caller \ {c} : caller'[x] = caller[x]
      /\ DOMAIN link' = LinkFields /\ link'.lock = None /\ link'.toHost = rest
      /\ link'.toKernel = link.toKernel /\ link'.open = link.open /\ link'.sent = link.sent
      /\ kernel' = kernel /\ InService' = InService
  BY <1>1, GotFacts
<1>4. /\ Ordered(rest, InService, link.toKernel, seen, link.sent)
      /\ \A i \in 1..Len(rest) : DOMAIN rest[i] = AnswerFields
  <2>1. CASE rest = H
    BY <2>1 DEF LinkInv, LinkType
  <2>2. CASE H # <<>> /\ rest = <<e>> \o Tail(H)
    <3>1. Head(H) = H[1] /\ 1 \in 1..Len(H)
      BY <2>2, TailFacts DEF LinkInv, Ordered
    <3>2. DOMAIN e = AnswerFields /\ e.of = Head(H).of
      BY <3>1 DEF LinkInv, LinkType, AnswerFields
    <3>. HIDE DEF e
    <3>3. /\ Ordered(rest, InService, link.toKernel, seen, link.sent)
          /\ \A i \in 1..Len(rest) : rest[i] = e \/ (i \in 1..Len(H) /\ rest[i] = H[i])
      BY <2>2, <3>2, OrderedSpoil DEF LinkInv
    <3>. QED BY <3>2, <3>3 DEF LinkInv, LinkType
  <2>. QED BY <1>1, <2>1, <2>2
<1>. HIDE DEF e
<1>5. LinkType'
  BY <1>3, <1>4 DEF LinkInv, LinkType
<1>6. \A x \in Caller : caller'[x].pc = "sent" => link'.lock = x /\ caller'[x].no = link'.sent
  BY <1>2, <1>3, OnlyWaiter
<1>. QED BY <1>2, <1>3, <1>4, <1>5, <1>6 DEF LinkInv

LEMMA DoneLink ==
  ASSUME LinkInv, NEW c \in Caller, Conclude(c) \/ Local(c)
  PROVE  LinkInv'
<1>1. Done(c) /\ UNCHANGED <<link, late, seen, kernel>>
  BY DEF Conclude, Local, OnHost
<1>. DEFINE q == Idle(Tail(caller[c].todo))
<1>2. caller' = [caller EXCEPT ![c] = q] /\ DOMAIN q = CallerFields /\ q.pc = "idle"
  BY <1>1 DEF Done, Idle, CallerFields
<1>. HIDE DEF q
<1>3. /\ DOMAIN caller' = Caller /\ caller'[c] = q
      /\ \A x \in Caller \ {c} : caller'[x] = caller[x]
  BY <1>2 DEF LinkInv, LinkType
<1>4. InService' = InService
  BY <1>1 DEF InService
<1>. QED BY <1>1, <1>2, <1>3, <1>4 DEF LinkInv, LinkType

LEMMA NextLink == LinkInv /\ [Next]_vars => LinkInv'
<1>. SUFFICES ASSUME LinkInv, [Next]_vars PROVE LinkInv'
  OBVIOUS
<1>1. CASE BootStart \/ BootCreate \/ BootLaunch \/ BootFinish
  BY <1>1, BootLink
<1>2. CASE GuestExit
  BY <1>2, GuestExitLink
<1>3. CASE BridgeReject \/ BridgeCreate \/ BridgeStop \/ BridgeDelete \/ BridgeList \/ BridgeImageLoad
  BY <1>3, BridgeLink
<1>4. CASE BridgeStart
  BY <1>4, BridgeStartLink
<1>5. CASE EmulatorServe
  BY <1>5, EmulatorLink
<1>6. CASE HostStep
  <2>1. PICK c \in Caller : Write(c) \/ Return(c) \/ Conclude(c) \/ Local(c)
    BY <1>6 DEF HostStep
  <2>. QED BY <2>1, WriteLink, ReadLineLink, PeerClosedLink, TimeOutLink, DoneLink DEF Return
<1>7. CASE UNCHANGED vars
  BY <1>7, LinkUnmoved DEF vars, InService, LinkInv, LinkType
<1>. QED BY <1>1, <1>2, <1>3, <1>4, <1>5, <1>6, <1>7 DEF Next, KernelStep, Finished

\* The link's invariant holds throughout.
THEOREM LinkInvariance == Spec => []LinkInv
<1>. QED BY InitLink, NextLink, PTL DEF Spec

\* Replies are read in the order of the requests, and a caller reads its own reply as
\* long as no call has timed out (SerialHyperLink::call).
THEOREM RepliesCorrect == Spec => RepliesInOrder
<1>1. LinkInv => \A c \in Caller : ReadLine(c) =>
                    /\ seen < seen' /\ seen' <= caller[c].no
                    /\ ~late => seen' = caller[c].no
  BY ReadLineLink
<1>. QED BY <1>1, LinkInvariance, PTL DEF RepliesInOrder

---------------------------------------------------------------------------
(* The frames of the pool: what is handed out is blank and stays where it is, *)
(* and a guest is built out of new frames.                                    *)

PageFields == {"entries", "data"}
PoolFields == {"mem", "frame", "ok"}

MemOK(mem) == IsSeq(mem) /\ \A f \in 1..Len(mem) : DOMAIN mem[f] = PageFields
PoolOK(p) == DOMAIN p = PoolFields /\ MemOK(p.mem)

\* The frames of m are in n as they were.
Grown(m, n) == MemOK(n) /\ Len(m) <= Len(n) /\ \A f \in 1..Len(m) : n[f] = m[f]

\* A table of one entry.
Single(e, i, v) == DOMAIN e = {i} /\ e[i] = v

\* The five frames of a guest from r on: the root, the image and three more tables.
Built(mem, r, image) ==
  /\ Single(mem[r].entries, EptIndex(GUEST_LOAD_PAGE, 3), r + 2)
  /\ Single(mem[r + 2].entries, EptIndex(GUEST_LOAD_PAGE, 2), r + 3)
  /\ Single(mem[r + 3].entries, EptIndex(GUEST_LOAD_PAGE, 1), r + 4)
  /\ Single(mem[r + 4].entries, EptIndex(GUEST_LOAD_PAGE, 0), r + 1)
  /\ DOMAIN mem[r + 1].entries = {} /\ mem[r + 1].data = image

LEMMA BlankFacts ==
  /\ DOMAIN BlankPage = PageFields /\ DOMAIN BlankPage.entries = {}
  /\ \A i, v : Single(SetIn(BlankPage.entries, i, v), i, v)
<1>1. DOMAIN BlankPage = PageFields /\ BlankPage.entries = <<>>
  BY DEF BlankPage, PageFields
<1>2. DOMAIN <<>> = {}
  OBVIOUS
<1>. QED BY <1>1, <1>2 DEF SetIn, Single

\* A sequence with one element replaced.
Put(s, f, x) == [s EXCEPT ![f] = x]

LEMMA PutFacts ==
  ASSUME NEW s, IsSeq(s), NEW f \in 1..Len(s), NEW x
  PROVE  /\ IsSeq(Put(s, f, x)) /\ Len(Put(s, f, x)) = Len(s) /\ Put(s, f, x)[f] = x
         /\ \A g \in 1..Len(s) : g # f => Put(s, f, x)[g] = s[g]
<1>1. PICK S : s \in Seq(S)
  BY DEF IsSeq
<1>2. Len(s) \in Nat /\ DOMAIN s = 1..Len(s) /\ s \in [1..Len(s) -> S]
  BY <1>1
<1>3. Put(s, f, x) \in [1..Len(s) -> S \cup {x}]
  BY <1>2 DEF Put
<1>4. Put(s, f, x) \in Seq(S \cup {x}) /\ Len(Put(s, f, x)) = Len(s)
  BY <1>2, <1>3
<1>. QED BY <1>2, <1>4 DEF IsSeq, Put

LEMMA GrownFacts ==
  /\ \A m : MemOK(m) => Grown(m, m)
  /\ \A m, n, o : MemOK(m) /\ Grown(m, n) /\ Grown(n, o) => Grown(m, o)
<1>1. \A m : MemOK(m) => Len(m) \in Nat
  BY AppendFacts DEF MemOK
<1>2. \A m : MemOK(m) => Grown(m, m)
  BY <1>1 DEF Grown
<1>3. \A m, n, o : MemOK(m) /\ Grown(m, n) /\ Grown(n, o) => Grown(m, o)
  <2>. SUFFICES ASSUME NEW m, NEW n, NEW o, MemOK(m), Grown(m, n), Grown(n, o) PROVE Grown(m, o)
    OBVIOUS
  <2>1. Len(m) \in Nat /\ Len(n) \in Nat /\ Len(o) \in Nat
    BY <1>1 DEF Grown
  <2>2. Len(m) <= Len(o) /\ \A f \in 1..Len(m) : f \in 1..Len(n)
    BY <2>1 DEF Grown
  <2>. QED BY <2>2 DEF Grown
<1>. QED BY <1>2, <1>3

LEMMA AllocFacts ==
  ASSUME NEW p, PoolOK(p)
  PROVE  /\ PoolOK(AllocZeroed(p)) /\ Grown(p.mem, AllocZeroed(p).mem) /\ Len(p.mem) \in Nat
         /\ \/ /\ AllocZeroed(p).mem = Append(p.mem, BlankPage)
               /\ Len(AllocZeroed(p).mem) = Len(p.mem) + 1
               /\ AllocZeroed(p).mem[Len(p.mem) + 1] = BlankPage
               /\ AllocZeroed(p).frame = Len(p.mem) + 1 /\ AllocZeroed(p).ok = p.ok
            \/ AllocZeroed(p).mem = p.mem /\ AllocZeroed(p).frame = p.frame /\ ~AllocZeroed(p).ok
<1>. DEFINE m == p.mem
            n == Append(m, BlankPage)
<1>1. /\ IsSeq(n) /\ Len(m) \in Nat /\ Len(n) = Len(m) + 1
      /\ \A f \in 1..Len(m) : n[f] = m[f]
      /\ n[Len(m) + 1] = BlankPage
  BY AppendFacts DEF PoolOK, MemOK
<1>2. \A f \in 1..Len(n) : f \in 1..Len(m) \/ f = Len(m) + 1
  BY <1>1
<1>3. MemOK(n)
  BY <1>1, <1>2, BlankFacts DEF PoolOK, MemOK
<1>4. Grown(m, n)
  BY <1>1, <1>3 DEF Grown
<1>5. Grown(m, m)
  BY GrownFacts DEF PoolOK
<1>6. CASE Len(m) < POOL_PAGES
  <2>1. AllocZeroed(p) = [p EXCEPT !.mem = n, !.frame = Len(m) + 1]
    BY <1>6 DEF AllocZeroed
  <2>2. /\ DOMAIN AllocZeroed(p) = PoolFields /\ AllocZeroed(p).mem = n
        /\ AllocZeroed(p).frame = Len(m) + 1 /\ AllocZeroed(p).ok = p.ok
    BY <2>1 DEF PoolOK, PoolFields
  <2>. QED BY <1>1, <1>3, <1>4, <2>2 DEF PoolOK
<1>7. CASE ~(Len(m) < POOL_PAGES)
  <2>1. AllocZeroed(p) = [p EXCEPT !.ok = FALSE]
    BY <1>7 DEF AllocZeroed
  <2>2. /\ DOMAIN AllocZeroed(p) = PoolFields /\ AllocZeroed(p).mem = m
        /\ AllocZeroed(p).frame = p.frame /\ ~AllocZeroed(p).ok
    BY <2>1 DEF PoolOK, PoolFields
  <2>. QED BY <1>1, <1>5, <2>2 DEF PoolOK
<1>. QED BY <1>6, <1>7

\* A write to one frame: of its entries, or of its bytes.
Entered(p, f, e) == [p EXCEPT !.mem[f].entries = e]
Filled(p, f, e) == [p EXCEPT !.mem[f].data = e]

LEMMA WriteFacts ==
  ASSUME NEW p, PoolOK(p), NEW f \in 1..Len(p.mem), NEW e
  PROVE  /\ \A q : q = Entered(p, f, e) =>
               /\ PoolOK(q) /\ Len(q.mem) = Len(p.mem) /\ q.frame = p.frame /\ q.ok = p.ok
               /\ \A g \in 1..Len(p.mem) : g # f => q.mem[g] = p.mem[g]
               /\ q.mem[f].entries = e /\ q.mem[f].data = p.mem[f].data
         /\ \A q : q = Filled(p, f, e) =>
               /\ PoolOK(q) /\ Len(q.mem) = Len(p.mem) /\ q.frame = p.frame /\ q.ok = p.ok
               /\ \A g \in 1..Len(p.mem) : g # f => q.mem[g] = p.mem[g]
               /\ q.mem[f].data = e /\ q.mem[f].entries = p.mem[f].entries
<1>. DEFINE m == p.mem
            x == [m[f] EXCEPT !.entries = e]
            y == [m[f] EXCEPT !.data = e]
<1>1. /\ DOMAIN x = PageFields /\ x.entries = e /\ x.data = m[f].data
      /\ DOMAIN y = PageFields /\ y.data = e /\ y.entries = m[f].entries
  BY DEF PoolOK, MemOK, PageFields
<1>2. /\ Entered(p, f, e) = [p EXCEPT !.mem = Put(m, f, x)]
      /\ Filled(p, f, e) = [p EXCEPT !.mem = Put(m, f, y)]
  BY DEF Put, Entered, Filled
<1>. HIDE DEF x, y
<1>3. ASSUME NEW q, NEW z, DOMAIN z = PageFields, q = [p EXCEPT !.mem = Put(m, f, z)]
      PROVE  /\ PoolOK(q) /\ Len(q.mem) = Len(m) /\ q.frame = p.frame /\ q.ok = p.ok
             /\ q.mem[f] = z /\ \A g \in 1..Len(m) : g # f => q.mem[g] = m[g]
  <2>. DEFINE n == Put(m, f, z)
  <2>1. IsSeq(m) /\ f \in 1..Len(m)
    BY DEF PoolOK, MemOK
  <2>2. /\ IsSeq(n) /\ Len(n) = Len(m) /\ n[f] = z
        /\ \A g \in 1..Len(m) : g # f => n[g] = m[g]
    BY <2>1, PutFacts
  <2>3. q = [p EXCEPT !.mem = n]
    BY <1>3
  <2>. HIDE DEF n
  <2>4. DOMAIN q = PoolFields /\ q.mem = n /\ q.frame = p.frame /\ q.ok = p.ok
    BY <2>3 DEF PoolOK, PoolFields
  <2>5. MemOK(n)
    BY <1>3, <2>2 DEF PoolOK, MemOK
  <2>. QED BY <2>2, <2>4, <2>5 DEF PoolOK
<1>4. ASSUME NEW q, q = Entered(p, f, e)
      PROVE  /\ PoolOK(q) /\ Len(q.mem) = Len(m) /\ q.frame = p.frame /\ q.ok = p.ok
             /\ \A g \in 1..Len(m) : g # f => q.mem[g] = m[g]
             /\ q.mem[f].entries = e /\ q.mem[f].data = m[f].data
  <2>1. q = [p EXCEPT !.mem = Put(m, f, x)] /\ DOMAIN x = PageFields
    BY <1>1, <1>2, <1>4
  <2>2. /\ PoolOK(q) /\ Len(q.mem) = Len(m) /\ q.frame = p.frame /\ q.ok = p.ok
        /\ q.mem[f] = x /\ \A g \in 1..Len(m) : g # f => q.mem[g] = m[g]
    BY <1>3, <2>1
  <2>. QED BY <1>1, <2>2
<1>5. ASSUME NEW q, q = Filled(p, f, e)
      PROVE  /\ PoolOK(q) /\ Len(q.mem) = Len(m) /\ q.frame = p.frame /\ q.ok = p.ok
             /\ \A g \in 1..Len(m) : g # f => q.mem[g] = m[g]
             /\ q.mem[f].data = e /\ q.mem[f].entries = m[f].entries
  <2>1. q = [p EXCEPT !.mem = Put(m, f, y)] /\ DOMAIN y = PageFields
    BY <1>1, <1>2, <1>5
  <2>2. /\ PoolOK(q) /\ Len(q.mem) = Len(m) /\ q.frame = p.frame /\ q.ok = p.ok
        /\ q.mem[f] = y /\ \A g \in 1..Len(m) : g # f => q.mem[g] = m[g]
    BY <1>3, <2>1
  <2>. QED BY <1>1, <2>2
<1>. QED BY <1>4, <1>5

\* The walk reaches a blank table: it is given a new one to point to, or the pool is empty.
LEMMA DescendFacts ==
  ASSUME NEW p, PoolOK(p), p.ok, p.frame \in 1..Len(p.mem), p.mem[p.frame] = BlankPage \/ DOMAIN p.mem[p.frame].entries = {},
         NEW i, NEW q, q = Descend(p, i)
  PROVE  /\ PoolOK(q) /\ Len(p.mem) \in Nat
         /\ \/ /\ q.ok /\ Len(q.mem) = Len(p.mem) + 1 /\ q.frame = Len(p.mem) + 1
               /\ DOMAIN q.mem[q.frame].entries = {}
               /\ Single(q.mem[p.frame].entries, i, q.frame)
               /\ q.mem[p.frame].data = p.mem[p.frame].data
               /\ \A g \in 1..Len(p.mem) : g # p.frame => q.mem[g] = p.mem[g]
            \/ ~q.ok /\ q.mem = p.mem
<1>. DEFINE fresh == AllocZeroed(p)
            e == SetIn(fresh.mem[p.frame].entries, i, fresh.frame)
<1>1. DOMAIN p.mem[p.frame].entries = {}
  BY BlankFacts
<1>2. q = IF ~fresh.ok THEN fresh ELSE [fresh EXCEPT !.mem[p.frame].entries = e]
  BY <1>1 DEF Descend
<1>3. /\ PoolOK(fresh) /\ Grown(p.mem, fresh.mem) /\ Len(p.mem) \in Nat
      /\ \/ /\ Len(fresh.mem) = Len(p.mem) + 1
            /\ fresh.mem[Len(p.mem) + 1] = BlankPage
            /\ fresh.frame = Len(p.mem) + 1 /\ fresh.ok = p.ok
         \/ fresh.mem = p.mem /\ ~fresh.ok
  BY AllocFacts
<1>. HIDE DEF fresh
<1>4. CASE ~fresh.ok
  BY <1>2, <1>3, <1>4
<1>5. CASE fresh.ok
  <2>1. /\ Len(fresh.mem) = Len(p.mem) + 1 /\ fresh.mem[Len(p.mem) + 1] = BlankPage
        /\ fresh.frame = Len(p.mem) + 1 /\ p.frame \in 1..Len(fresh.mem)
        /\ p.frame # Len(p.mem) + 1 /\ fresh.mem[p.frame] = p.mem[p.frame]
    BY <1>3, <1>5 DEF Grown
  <2>2. Single(e, i, fresh.frame)
    BY <1>1, <2>1 DEF SetIn, Single
  <2>. HIDE DEF e
  <2>3. /\ PoolOK(q) /\ Len(q.mem) = Len(fresh.mem) /\ q.frame = fresh.frame /\ q.ok = fresh.ok
        /\ \A g \in 1..Len(fresh.mem) : g # p.frame => q.mem[g] = fresh.mem[g]
        /\ q.mem[p.frame].entries = e /\ q.mem[p.frame].data = fresh.mem[p.frame].data
    <3>1. q = Entered(fresh, p.frame, e)
      BY <1>2, <1>5 DEF Entered
    <3>. QED BY <1>3, <2>1, <3>1, WriteFacts
  <2>4. \A g \in 1..Len(p.mem) : g \in 1..Len(fresh.mem) /\ fresh.mem[g] = p.mem[g]
    BY <1>3, <2>1 DEF Grown
  <2>5. Len(p.mem) + 1 \in 1..Len(fresh.mem)
    BY <1>3, <2>1
  <2>6. DOMAIN q.mem[q.frame].entries = {}
    BY <2>1, <2>3, <2>5, BlankFacts
  <2>. QED BY <1>3, <1>5, <2>1, <2>2, <2>3, <2>4, <2>6
<1>. QED BY <1>4, <1>5

\* The walk of a table whose root has no entry yet.  n is the last frame before the root.
LEMMA MapFacts ==
  ASSUME NEW p, PoolOK(p), p.ok, NEW n \in Nat, Len(p.mem) = n + 2, NEW image,
         DOMAIN p.mem[n + 1].entries = {}, DOMAIN p.mem[n + 2].entries = {}, p.mem[n + 2].data = image,
         NEW q, q = Map4k(p, n + 1, GUEST_LOAD_PAGE, n + 2)
  PROVE  /\ MemOK(q.mem) /\ Len(q.mem) >= n + 2 /\ \A g \in 1..n : q.mem[g] = p.mem[g]
         /\ q.ok => Len(q.mem) = n + 5 /\ Built(q.mem, n + 1, image)
<1>. DEFINE i3 == EptIndex(GUEST_LOAD_PAGE, 3)
            i2 == EptIndex(GUEST_LOAD_PAGE, 2)
            i1 == EptIndex(GUEST_LOAD_PAGE, 1)
            i0 == EptIndex(GUEST_LOAD_PAGE, 0)
            p3 == [p EXCEPT !.frame = n + 1]
            p2 == Descend(p3, i3)
            p1 == Descend(p2, i2)
            p0 == Descend(p1, i1)
            e == SetIn(p0.mem[p0.frame].entries, i0, n + 2)
<1>1. q = IF p0.ok THEN Entered(p0, p0.frame, e) ELSE p0
  BY DEF Map4k, Entered
<1>2. PoolOK(p3) /\ p3.mem = p.mem /\ p3.frame = n + 1 /\ p3.ok
  BY DEF PoolOK, PoolFields
<1>. HIDE DEF i3, i2, i1, i0, p3
<1>3. /\ PoolOK(p2)
      /\ \/ /\ p2.ok /\ Len(p2.mem) = n + 3 /\ p2.frame = n + 3
            /\ DOMAIN p2.mem[n + 3].entries = {}
            /\ Single(p2.mem[n + 1].entries, i3, n + 3)
            /\ \A g \in 1..(n + 2) : g # n + 1 => p2.mem[g] = p.mem[g]
         \/ ~p2.ok /\ p2.mem = p.mem
  BY <1>2, DescendFacts
<1>. HIDE DEF p2
<1>4. CASE ~p2.ok
  <2>1. p1 = p2 /\ p0 = p2
    BY <1>4 DEF Descend
  <2>. QED BY <1>1, <1>3, <1>4, <2>1 DEF PoolOK
<1>5. CASE p2.ok
  <2>1. /\ PoolOK(p1)
        /\ \/ /\ p1.ok /\ Len(p1.mem) = n + 4 /\ p1.frame = n + 4
              /\ DOMAIN p1.mem[n + 4].entries = {}
              /\ Single(p1.mem[n + 3].entries, i2, n + 4)
              /\ \A g \in 1..(n + 3) : g # n + 3 => p1.mem[g] = p2.mem[g]
           \/ ~p1.ok /\ p1.mem = p2.mem
    <3>1. Len(p2.mem) = n + 3 /\ p2.frame = n + 3 /\ p2.frame \in 1..Len(p2.mem) /\ DOMAIN p2.mem[p2.frame].entries = {}
      BY <1>3, <1>5
    <3>2. PoolOK(p2)
      BY <1>3
    <3>3. /\ PoolOK(p1)
          /\ \/ /\ p1.ok /\ Len(p1.mem) = Len(p2.mem) + 1 /\ p1.frame = Len(p2.mem) + 1
                /\ DOMAIN p1.mem[p1.frame].entries = {}
                /\ Single(p1.mem[p2.frame].entries, i2, p1.frame)
                /\ \A g \in 1..Len(p2.mem) : g # p2.frame => p1.mem[g] = p2.mem[g]
             \/ ~p1.ok /\ p1.mem = p2.mem
      BY <1>5, <3>1, <3>2, DescendFacts
    <3>. HIDE DEF p1
    <3>. QED BY <3>1, <3>3
  <2>. HIDE DEF p1
  <2>2. CASE ~p1.ok
    <3>1. p0 = p1
      BY <2>2 DEF Descend
    <3>. QED BY <1>1, <1>3, <1>5, <2>1, <2>2, <3>1 DEF PoolOK
  <2>3. CASE p1.ok
    <3>1. /\ PoolOK(p0)
          /\ \/ /\ p0.ok /\ Len(p0.mem) = n + 5 /\ p0.frame = n + 5
                /\ DOMAIN p0.mem[n + 5].entries = {}
                /\ Single(p0.mem[n + 4].entries, i1, n + 5)
                /\ \A g \in 1..(n + 4) : g # n + 4 => p0.mem[g] = p1.mem[g]
             \/ ~p0.ok /\ p0.mem = p1.mem
      <4>1. Len(p1.mem) = n + 4 /\ p1.frame = n + 4 /\ p1.frame \in 1..Len(p1.mem) /\ DOMAIN p1.mem[p1.frame].entries = {}
        BY <2>1, <2>3
      <4>. QED BY <2>1, <2>3, <4>1, DescendFacts
    <3>. HIDE DEF p0
    <3>2. CASE ~p0.ok
      BY <1>1, <1>3, <1>5, <2>1, <2>3, <3>1, <3>2 DEF PoolOK
    <3>3. CASE p0.ok
      <4>1. q = Entered(p0, n + 5, e) /\ n + 5 \in 1..Len(p0.mem)
        BY <1>1, <3>1, <3>3
      <4>2. Single(e, i0, n + 2)
        BY <3>1, <3>3 DEF SetIn, Single
      <4>. HIDE DEF e
      <4>3. /\ PoolOK(q) /\ Len(q.mem) = n + 5 /\ q.mem[n + 5].entries = e
            /\ \A g \in 1..(n + 5) : g # n + 5 => q.mem[g] = p0.mem[g]
        BY <3>1, <3>3, <4>1, WriteFacts
      <4>4. /\ q.mem[n + 4] = p0.mem[n + 4]
            /\ q.mem[n + 3] = p1.mem[n + 3]
            /\ q.mem[n + 2] = p.mem[n + 2]
            /\ q.mem[n + 1] = p2.mem[n + 1]
            /\ \A g \in 1..n : q.mem[g] = p.mem[g]
        BY <1>3, <1>5, <2>1, <2>3, <3>1, <3>3, <4>3
      <4>5. Built(q.mem, n + 1, image)
        <5>1. /\ Single(q.mem[n + 1].entries, i3, n + 3)
              /\ Single(q.mem[n + 3].entries, i2, n + 4)
              /\ Single(q.mem[n + 4].entries, i1, n + 5)
              /\ Single(q.mem[n + 5].entries, i0, n + 2)
              /\ DOMAIN q.mem[n + 2].entries = {} /\ q.mem[n + 2].data = image
          BY <1>3, <1>5, <2>1, <2>3, <3>1, <3>3, <4>2, <4>3, <4>4
        <5>2. n + 1 + 1 = n + 2 /\ n + 1 + 2 = n + 3 /\ n + 1 + 3 = n + 4 /\ n + 1 + 4 = n + 5
          OBVIOUS
        <5>. QED BY <5>1, <5>2 DEF Built, i3, i2, i1, i0
      <4>. QED BY <4>3, <4>4, <4>5 DEF PoolOK
    <3>. QED BY <3>2, <3>3
  <2>. QED BY <2>2, <2>3
<1>. QED BY <1>4, <1>5

\* A guest is built out of the five frames after those handed out; one whose frames run
\* out leaves what there was.
LEMMA InstallFacts ==
  ASSUME NEW mem, MemOK(mem), NEW image, NEW r, r = InstallFirstGuest(mem, image)
  PROVE  /\ Grown(mem, r.mem) /\ Len(mem) \in Nat
         /\ r.ok => r.pml4 = Len(mem) + 1 /\ Len(r.mem) = Len(mem) + 5 /\ Built(r.mem, Len(mem) + 1, image)
<1>. DEFINE n == Len(mem)
            root == EptNew(Pool(mem))
            blob == AllocZeroed(root)
            full == [blob EXCEPT !.mem[blob.frame].data = image]
            done == Map4k(full, root.frame, GUEST_LOAD_PAGE, blob.frame)
<1>1. r = IF image.len > PAGE_SIZE \/ ~root.ok \/ ~blob.ok
          THEN [mem |-> blob.mem, pml4 |-> 0, ok |-> FALSE]
          ELSE [mem |-> done.mem, pml4 |-> root.frame, ok |-> done.ok]
  BY DEF InstallFirstGuest
<1>2. PoolOK(Pool(mem)) /\ Pool(mem).mem = mem /\ Pool(mem).ok
  BY DEF Pool, PoolOK, PoolFields
<1>3. /\ PoolOK(root) /\ Grown(mem, root.mem) /\ n \in Nat
      /\ root.ok => Len(root.mem) = n + 1 /\ root.mem[n + 1] = BlankPage /\ root.frame = n + 1
  BY <1>2, AllocFacts DEF EptNew
<1>. HIDE DEF root
<1>4. /\ PoolOK(blob) /\ Grown(root.mem, blob.mem)
      /\ root.ok /\ blob.ok => /\ Len(blob.mem) = n + 2 /\ blob.mem[n + 2] = BlankPage
                               /\ blob.frame = n + 2
  BY <1>3, AllocFacts
<1>. HIDE DEF blob
<1>5. Grown(mem, blob.mem)
  BY <1>3, <1>4, GrownFacts
<1>6. CASE image.len > PAGE_SIZE \/ ~root.ok \/ ~blob.ok
  BY <1>1, <1>3, <1>5, <1>6
<1>7. CASE ~(image.len > PAGE_SIZE) /\ root.ok /\ blob.ok
  <2>1. r = [mem |-> done.mem, pml4 |-> root.frame, ok |-> done.ok]
    BY <1>1, <1>7
  <2>2. /\ blob.mem[n + 1] = BlankPage /\ blob.mem[n + 2] = BlankPage /\ Len(blob.mem) = n + 2
        /\ blob.frame = n + 2 /\ root.frame = n + 1 /\ n + 2 \in 1..Len(blob.mem) /\ n + 1 \in 1..Len(blob.mem)
        /\ n + 1 # n + 2 /\ \A g \in 1..n : g \in 1..Len(blob.mem) /\ g # n + 2
    BY <1>3, <1>4, <1>7 DEF Grown
  <2>3. full = Filled(blob, n + 2, image)
    BY <2>2 DEF Filled
  <2>4. /\ PoolOK(full) /\ Len(full.mem) = n + 2 /\ full.ok = blob.ok
        /\ \A g \in 1..Len(blob.mem) : g # n + 2 => full.mem[g] = blob.mem[g]
        /\ full.mem[n + 2].data = image /\ full.mem[n + 2].entries = blob.mem[n + 2].entries
    BY <1>4, <2>2, <2>3, WriteFacts
  <2>. HIDE DEF full
  <2>5. DOMAIN full.mem[n + 1].entries = {} /\ DOMAIN full.mem[n + 2].entries = {} /\ full.ok
    BY <1>7, <2>2, <2>4, BlankFacts
  <2>6. done = Map4k(full, n + 1, GUEST_LOAD_PAGE, n + 2)
    BY <2>2
  <2>. HIDE DEF done
  <2>7. /\ MemOK(done.mem) /\ Len(done.mem) >= n + 2 /\ \A g \in 1..n : done.mem[g] = full.mem[g]
        /\ done.ok => Len(done.mem) = n + 5 /\ Built(done.mem, n + 1, image)
    BY <1>3, <2>4, <2>5, <2>6, MapFacts
  <2>8. Grown(mem, done.mem)
    <3>1. \A g \in 1..n : done.mem[g] = mem[g]
      BY <1>5, <2>2, <2>4, <2>7 DEF Grown
    <3>2. n <= Len(done.mem)
      <4>1. Len(done.mem) \in Nat
        BY <2>7, AppendFacts DEF MemOK
      <4>. QED BY <1>3, <2>7, <4>1
    <3>. QED BY <2>7, <3>1, <3>2 DEF Grown
  <2>. QED BY <1>3, <2>1, <2>2, <2>7, <2>8
<1>. QED BY <1>6, <1>7

---------------------------------------------------------------------------
(* The kernel's VMs: what each operation may do to a slot, and where a guest *)
(* is housed.                                                                *)

\* The registry: a VM that has not ended has no exit, a deleted one has ended.
LifeOK(k) ==
  /\ DOMAIN k = KernelFields /\ DOMAIN k.vm = Slot /\ DOMAIN k.meta = Slot
  /\ \A s \in Slot : k.vm[s] # None =>
       k.vm[s] \in VmEntry /\ (k.vm[s].state \in {"created", "running"} => k.vm[s].exit = None)
  /\ \A s \in k.deleted : s \in Slot => k.vm[s] # None /\ k.vm[s].state \in Terminal

\* The image of a VM: in the frame after its root.
ImageOf(k, s) == k.mem[k.vm[s].pml4 + 1].data

\* The frames of a VM: six in a row, beyond the VMXON region, the last one its VMCS; and
\* what is known of the image.
Housed(k, s) ==
  /\ s \in k.occupied
  /\ k.vm[s].pml4 > k.vmxon /\ k.vm[s].vmcs = k.vm[s].pml4 + 5 /\ k.vm[s].vmcs <= Len(k.mem)
  /\ Built(k.mem, k.vm[s].pml4, ImageOf(k, s))
  /\ ImageOf(k, s) \in Image
  /\ k.meta[s] # NoMeta => ImageOf(k, s) = Embedded \/ k.meta[s].crc = Crc32c(ImageOf(k, s))

Apart(v, w) == v.pml4 + 5 < w.pml4 \/ w.pml4 + 5 < v.pml4

Iso(k) ==
  /\ LifeOK(k) /\ MemOK(k.mem) /\ k.vmxon \in Nat /\ k.vmxon <= Len(k.mem)
  /\ k.staged # None => k.staged.image \in Image /\ k.staged.crc = Crc32c(k.staged.image)
  /\ \A s \in Slot : k.vm[s] # None => Housed(k, s)
  /\ \A s, t \in Slot : k.vm[s] # None /\ k.vm[t] # None /\ s # t => Apart(k.vm[s], k.vm[t])
  /\ \A s \in Slot : s \notin k.occupied => k.meta[s] = NoMeta
  /\ k.deleted \subseteq k.occupied

\* A VM goes on: it starts, or it ends.
VmMove(v, w) ==
  /\ w \in VmEntry /\ w.vmcs = v.vmcs /\ w.pml4 = v.pml4
  /\ \/ v.state = "created" /\ w.state = "running" /\ w.exit = v.exit
     \/ /\ v.state \in {"created", "running"}
        /\ \/ w.state = "halted" /\ w.exit = EXIT_REASON_HLT
           \/ w.state = "stopped" /\ w.exit = v.exit
           \/ w.state = "faulted" /\ w.exit \in Reason \ {EXIT_REASON_HLT}

\* What becomes of slot s from k to n: it is as it was, a VM comes in, or one is given up.
Kept(k, n, s) ==
  /\ s \in n.deleted <=> s \in k.deleted
  /\ n.vm[s] = k.vm[s] \/ (k.vm[s] # None /\ VmMove(k.vm[s], n.vm[s]))
Opened(k, n, s) ==
  /\ k.vm[s] = None /\ s \notin k.deleted
  /\ n.vm[s] \in VmEntry /\ n.vm[s].state = "created" /\ n.vm[s].exit = None /\ s \notin n.deleted
Shut(k, n, s) ==
  /\ k.vm[s] # None /\ s \notin k.deleted /\ k.vm[s].state \in Terminal
  /\ n.vm[s] = None \/ (n.vm[s] = k.vm[s] /\ s \in n.deleted)

\* VMs go on; of the rest nothing a guest can reach changes.
Moved(k, n) ==
  /\ DOMAIN n = KernelFields /\ DOMAIN n.vm = Slot
  /\ n.mem = k.mem /\ n.vmxon = k.vmxon /\ n.occupied = k.occupied /\ n.deleted = k.deleted
  /\ n.staged = k.staged /\ n.meta = k.meta
  /\ \A s \in Slot : Kept(k, n, s)

LEMMA VmFacts ==
  /\ None \notin VmEntry /\ None \notin Nat
  /\ \A w \in VmEntry : /\ w # None /\ w.vmcs \in Nat /\ w.pml4 \in Nat /\ w.exit \in Nat \cup {None}
                        /\ DOMAIN w = {"state", "exit", "vmcs", "pml4"}
                        /\ w.state \in {"created", "running", "halted", "stopped", "faulted"}
  /\ \A s \in Slot : s \in Nat /\ s # None
<1>1. None \notin VmEntry /\ None \notin Nat
  BY KernelAssumption
<1>2. \A w \in VmEntry : /\ w # None /\ w.vmcs \in Nat /\ w.pml4 \in Nat /\ w.exit \in Nat \cup {None}
                         /\ DOMAIN w = {"state", "exit", "vmcs", "pml4"}
                         /\ w.state \in {"created", "running", "halted", "stopped", "faulted"}
  BY <1>1 DEF VmEntry, VmState, Terminal
<1>3. \A s \in Slot : s \in Nat /\ s # None
  BY <1>1, KernelAssumption DEF Slot
<1>. QED BY <1>1, <1>2, <1>3

LEMMA LifeMoved ==
  ASSUME NEW k, NEW n, LifeOK(k), DOMAIN n = KernelFields, DOMAIN n.vm = Slot, n.meta = k.meta,
         n.deleted = k.deleted, \A s \in Slot : Kept(k, n, s)
  PROVE  LifeOK(n)
<1>1. ASSUME NEW s \in Slot, n.vm[s] # None
      PROVE  n.vm[s] \in VmEntry /\ (n.vm[s].state \in {"created", "running"} => n.vm[s].exit = None)
  <2>1. CASE n.vm[s] = k.vm[s]
    BY <1>1, <2>1 DEF LifeOK
  <2>2. CASE k.vm[s] # None /\ VmMove(k.vm[s], n.vm[s])
    BY <1>1, <2>2 DEF LifeOK, VmMove
  <2>. QED BY <2>1, <2>2 DEF Kept
<1>2. ASSUME NEW s \in n.deleted, s \in Slot
      PROVE  n.vm[s] # None /\ n.vm[s].state \in Terminal
  <2>1. k.vm[s] # None /\ k.vm[s].state \in Terminal
    BY <1>2 DEF LifeOK
  <2>2. n.vm[s] = k.vm[s]
    BY <1>2, <2>1 DEF Kept, VmMove, Terminal
  <2>. QED BY <2>1, <2>2
<1>. QED BY <1>1, <1>2 DEF LifeOK

LEMMA IsoMoved ==
  ASSUME NEW k, NEW n, Iso(k), Moved(k, n)
  PROVE  Iso(n)
<1>1. LifeOK(n)
  BY LifeMoved DEF Iso, Moved, LifeOK
<1>2. \A s \in Slot : n.vm[s] # None =>
        k.vm[s] # None /\ n.vm[s].pml4 = k.vm[s].pml4 /\ n.vm[s].vmcs = k.vm[s].vmcs
  BY DEF Moved, Kept, VmMove
<1>3. \A s \in Slot : n.vm[s] # None => Housed(n, s)
  BY <1>2 DEF Iso, Moved, Housed, ImageOf
<1>4. \A s, t \in Slot : n.vm[s] # None /\ n.vm[t] # None /\ s # t => Apart(n.vm[s], n.vm[t])
  BY <1>2 DEF Iso, Apart
<1>. QED BY <1>1, <1>3, <1>4 DEF Iso, Moved

\* From k to n guests stay isolated, frames are only added, slots are not given back, and
\* every slot but those of D is kept.
Rest(k, n, D) ==
  /\ Iso(n) /\ Grown(k.mem, n.mem) /\ k.occupied \subseteq n.occupied
  /\ \A s \in Slot : s \notin D => Kept(k, n, s)

LEMMA MovedRest ==
  ASSUME NEW k, NEW n, Iso(k), Moved(k, n)
  PROVE  Rest(k, n, {})
<1>1. Grown(k.mem, n.mem)
  BY GrownFacts DEF Iso, Moved
<1>. QED BY <1>1, IsoMoved DEF Rest, Moved

\* The fields that a guest, its memory and its life are in; the others are the caller's.
Core == {"vmxon", "mem", "occupied", "vm", "deleted", "staged", "meta"}

LEMMA CoreKept ==
  ASSUME NEW k, NEW n, LifeOK(k), DOMAIN n = KernelFields, \A f \in Core : n[f] = k[f]
  PROVE  Moved(k, n) /\ (\A s \in Slot : Kept(k, n, s)) /\ LifeOK(n) /\ (Iso(k) => Iso(n))
<1>1. /\ n.vmxon = k.vmxon /\ n.mem = k.mem /\ n.occupied = k.occupied /\ n.vm = k.vm
      /\ n.deleted = k.deleted /\ n.staged = k.staged /\ n.meta = k.meta
  BY DEF Core
<1>2. \A s \in Slot : Kept(k, n, s)
  BY <1>1 DEF Kept
<1>3. Moved(k, n)
  BY <1>1, <1>2 DEF Moved, LifeOK
<1>. QED BY <1>1, <1>2, <1>3, LifeMoved, IsoMoved DEF LifeOK

\* One VM is replaced.
VmSet(k, id, w) == [k EXCEPT !.vm[id] = w]

LEMMA VmSetFields ==
  ASSUME NEW k, LifeOK(k), NEW id \in Slot, NEW w, NEW n, n = VmSet(k, id, w)
  PROVE  /\ DOMAIN n = KernelFields /\ \A f \in KernelFields \ {"vm"} : n[f] = k[f]
         /\ DOMAIN n.vm = Slot /\ n.vm[id] = w /\ \A s \in Slot : s # id => n.vm[s] = k.vm[s]
<1>. DEFINE v == [k.vm EXCEPT ![id] = w]
<1>1. DOMAIN v = Slot /\ v[id] = w /\ \A s \in Slot : s # id => v[s] = k.vm[s]
  BY DEF LifeOK
<1>2. n = [k EXCEPT !.vm = v]
  BY DEF VmSet
<1>. HIDE DEF v
<1>3. DOMAIN n = KernelFields /\ n.vm = v /\ \A f \in KernelFields \ {"vm"} : n[f] = k[f]
  BY <1>2 DEF LifeOK, KernelFields
<1>. QED BY <1>1, <1>3

LEMMA VmSetMoves ==
  ASSUME NEW k, LifeOK(k), NEW id \in Slot, k.vm[id] # None, NEW w, VmMove(k.vm[id], w),
         NEW n, n = VmSet(k, id, w)
  PROVE  Moved(k, n)
<1>1. /\ DOMAIN n = KernelFields /\ \A f \in KernelFields \ {"vm"} : n[f] = k[f]
      /\ DOMAIN n.vm = Slot /\ n.vm[id] = w /\ \A s \in Slot : s # id => n.vm[s] = k.vm[s]
  BY VmSetFields
<1>2. /\ n.vmxon = k.vmxon /\ n.mem = k.mem /\ n.occupied = k.occupied
      /\ n.deleted = k.deleted /\ n.staged = k.staged /\ n.meta = k.meta
  BY <1>1 DEF KernelFields
<1>. QED BY <1>1, <1>2 DEF Moved, Kept

\* A stop is a move of the VM that is stopped, or nothing.
LEMMA StopFacts ==
  ASSUME NEW k, LifeOK(k), NEW id, Allocated(k, id)
  PROVE  Moved(k, Stop(k, id)) /\ Kept(k, Stop(k, id), id) /\ id \in Slot
<1>. DEFINE v == k.vm[id]
            w == [v EXCEPT !.state = "stopped"]
<1>1. id \in Slot /\ v # None /\ v \in VmEntry
  BY DEF Allocated, LifeOK
<1>2. CASE v.state \in {"created", "running"}
  <2>1. VmMove(v, w)
    BY <1>1, <1>2 DEF VmMove, VmEntry, VmState, Terminal
  <2>2. Stop(k, id) = VmSet(k, id, w)
    BY <1>2 DEF Stop, VmSet
  <2>. HIDE DEF w
  <2>. QED BY <1>1, <2>1, <2>2, VmSetMoves DEF Moved
<1>3. CASE v.state \notin {"created", "running"}
  <2>1. Stop(k, id) = k
    BY <1>3 DEF Stop
  <2>. QED BY <1>1, <2>1, CoreKept DEF LifeOK, Moved
<1>. QED BY <1>2, <1>3

LEMMA StopAllFacts ==
  ASSUME NEW k, LifeOK(k)
  PROVE  Moved(k, StopAll(k))
<1>. DEFINE n == StopAll(k)
            v == [s \in Slot |-> IF s \in Listed(k) THEN Stop(k, s).vm[s] ELSE k.vm[s]]
<1>1. n = [k EXCEPT !.vm = v]
  BY DEF StopAll
<1>2. DOMAIN v = Slot /\ \A s \in Slot : v[s] = IF s \in Listed(k) THEN Stop(k, s).vm[s] ELSE k.vm[s]
  OBVIOUS
<1>. HIDE DEF v
<1>3. /\ DOMAIN n = KernelFields /\ n.vm = v
      /\ n.mem = k.mem /\ n.vmxon = k.vmxon /\ n.occupied = k.occupied /\ n.deleted = k.deleted
      /\ n.staged = k.staged /\ n.meta = k.meta
  BY <1>1 DEF LifeOK, KernelFields
<1>. HIDE DEF n
<1>4. ASSUME NEW s \in Slot PROVE Kept(k, n, s)
  <2>1. CASE s \in Listed(k)
    <3>1. Allocated(k, s)
      BY <2>1 DEF Listed, Allocated
    <3>2. Kept(k, Stop(k, s), s)
      BY <3>1, StopFacts
    <3>3. n.vm[s] = Stop(k, s).vm[s]
      BY <1>2, <1>3, <2>1
    <3>. QED BY <1>3, <3>2, <3>3 DEF Kept
  <2>2. CASE s \notin Listed(k)
    BY <1>2, <1>3, <2>2 DEF Kept
  <2>. QED BY <2>1, <2>2
<1>5. Moved(k, n)
  BY <1>2, <1>3, <1>4 DEF Moved
<1>. QED BY <1>5 DEF n

LEMMA EnterFacts ==
  ASSUME NEW k, LifeOK(k), NEW id, NEW hw, NEW r, r = EnterVm(k, id, hw)
  PROVE  /\ Moved(k, r.k)
         /\ r.entered => Allocated(r.k, id) /\ r.k.active = id /\ r.k.vm[id].state = "running"
<1>. DEFINE k1 == [k EXCEPT !.active = id]
<1>1. /\ DOMAIN k1 = KernelFields /\ k1.active = id
      /\ \A f \in KernelFields \ {"active"} : k1[f] = k[f]
  BY DEF LifeOK, KernelFields
<1>2. r = IF ~Allocated(k, id) \/ ~hw THEN [k |-> k, entered |-> FALSE]
          ELSE IF k.vm[id].state # "created" THEN [k |-> k1, entered |-> FALSE]
          ELSE [k |-> [k1 EXCEPT !.vm[id].state = "running"], entered |-> TRUE]
  BY DEF EnterVm, SetActive
<1>. HIDE DEF k1
<1>3. Moved(k, k) /\ Moved(k, k1) /\ LifeOK(k1)
  <2>1. \A f \in Core : k1[f] = k[f]
    BY <1>1 DEF Core, KernelFields
  <2>. QED BY <1>1, <2>1, CoreKept DEF LifeOK
<1>4. CASE ~Allocated(k, id) \/ ~hw \/ k.vm[id].state # "created"
  BY <1>2, <1>3, <1>4
<1>5. CASE Allocated(k, id) /\ hw /\ k.vm[id].state = "created"
  <2>. DEFINE w == [k1.vm[id] EXCEPT !.state = "running"]
  <2>1. r.entered /\ r.k = VmSet(k1, id, w)
    BY <1>2, <1>5 DEF VmSet
  <2>2. id \in Slot /\ k1.vm[id] = k.vm[id] /\ k.vm[id] # None /\ k.vm[id] \in VmEntry
    BY <1>1, <1>5 DEF Allocated, LifeOK, KernelFields
  <2>3. VmMove(k1.vm[id], w) /\ w # None /\ w.state = "running"
    <3>1. w \in VmEntry /\ w.state = "running" /\ w.exit = k.vm[id].exit /\ w.vmcs = k.vm[id].vmcs /\ w.pml4 = k.vm[id].pml4
      BY <2>2 DEF VmEntry, VmState
    <3>. QED BY <1>5, <2>2, <3>1, VmFacts DEF VmMove
  <2>. HIDE DEF w
  <2>4. Moved(k1, r.k)
    BY <1>3, <2>1, <2>2, <2>3, VmSetMoves
  <2>5. /\ \A f \in KernelFields \ {"vm"} : r.k[f] = k1[f]
        /\ r.k.vm[id] = w
    BY <1>3, <2>1, <2>2, VmSetFields
  <2>6. Moved(k, r.k)
    BY <1>3, <2>4, <1>1 DEF Moved, Kept, KernelFields
  <2>. QED BY <1>1, <2>2, <2>3, <2>5, <2>6 DEF Allocated, KernelFields
<1>. QED BY <1>4, <1>5

\* The guest that runs ends, or what it did cannot be read.
LEMMA EndedFacts ==
  ASSUME NEW k, LifeOK(k), NEW id, k.active = id, Allocated(k, id), k.vm[id].state = "running",
         NEW o \in Outcome
  PROVE  Moved(k, Ended(k, id, o))
<1>1. id \in Slot /\ k.vm[id] # None /\ k.vm[id] \in VmEntry
  BY DEF Allocated, LifeOK
<1>2. CASE o.kind = "exit"
  <2>. DEFINE end == IF o.reason = EXIT_REASON_HLT THEN "halted" ELSE "faulted"
              w == [k.vm[id] EXCEPT !.exit = o.reason, !.state = end]
  <2>1. o.reason \in Reason /\ o.reason \in Nat
    BY <1>2, KernelAssumption DEF Outcome
  <2>3. Ended(k, id, o) = VmSet(k, id, w)
    BY <1>2 DEF Ended, OnExit, VmSet
  <2>4. VmMove(k.vm[id], w)
    <3>1. /\ w \in VmEntry /\ w.exit = o.reason /\ w.state = end /\ w.vmcs = k.vm[id].vmcs
          /\ w.pml4 = k.vm[id].pml4
      BY <1>1, <2>1 DEF VmEntry, VmState, Terminal
    <3>. QED BY <2>1, <3>1 DEF VmMove
  <2>. HIDE DEF w
  <2>. QED BY <1>1, <2>3, <2>4, VmSetMoves
<1>3. CASE o.kind = "unreadable"
  BY <1>3, CoreKept DEF Ended, LifeOK
<1>4. CASE o.kind = "no_entry"
  BY <1>4, StopFacts DEF Ended
<1>. QED BY <1>2, <1>3, <1>4 DEF Outcome

\* A staged image is one the host handed over, under its own checksum.
LEMMA StageFacts ==
  ASSUME NEW k, Iso(k), NEW image, NEW len, NEW crc, Crc32c(image) = crc => image \in Image
  PROVE  Rest(k, StageFromHex(k, image, len, crc).k, {})
<1>. DEFINE n == StageFromHex(k, image, len, crc).k
<1>1. PICK staged : /\ n = k \/ n = [k EXCEPT !.staged = staged]
                    /\ staged # None => staged.image \in Image /\ staged.crc = Crc32c(staged.image)
  <2>1. CASE len \notin 1..MAX_IMAGE_BYTES \/ image.len # len
    <3>1. n = k
      BY <2>1 DEF StageFromHex
    <3>. QED BY <3>1
  <2>2. CASE ~(len \notin 1..MAX_IMAGE_BYTES \/ image.len # len) /\ Crc32c(image) # crc
    <3>1. n = [k EXCEPT !.staged = None]
      BY <2>2 DEF StageFromHex
    <3>. QED BY <3>1
  <2>3. CASE ~(len \notin 1..MAX_IMAGE_BYTES \/ image.len # len) /\ Crc32c(image) = crc
    <3>. DEFINE staged == [image |-> image, crc |-> crc]
    <3>1. n = [k EXCEPT !.staged = staged]
      BY <2>3 DEF StageFromHex
    <3>2. staged.image \in Image /\ staged.crc = Crc32c(staged.image)
      BY <2>3
    <3>. QED BY <3>1, <3>2
  <2>. QED BY <2>1, <2>2, <2>3
<1>. HIDE DEF n
<1>2. /\ DOMAIN n = KernelFields /\ n.mem = k.mem /\ n.vmxon = k.vmxon /\ n.occupied = k.occupied
      /\ n.deleted = k.deleted /\ n.meta = k.meta /\ n.vm = k.vm
      /\ n.staged # None => n.staged.image \in Image /\ n.staged.crc = Crc32c(n.staged.image)
  BY <1>1 DEF Iso, LifeOK, KernelFields
<1>3. Iso(n)
  <2>1. LifeOK(n)
    BY <1>2 DEF Iso, LifeOK
  <2>2. \A s \in Slot : n.vm[s] # None => Housed(n, s)
    BY <1>2 DEF Iso, Housed, ImageOf
  <2>. QED BY <1>2, <2>1, <2>2 DEF Iso
<1>4. (\A s \in Slot : Kept(k, n, s)) /\ Grown(k.mem, n.mem)
  BY <1>2, GrownFacts DEF Kept, Iso
<1>. QED BY <1>2, <1>3, <1>4 DEF n, Rest

LEMMA DeleteFacts ==
  ASSUME NEW k, Iso(k), NEW id, NEW r, r = DeleteVm(k, id)
  PROVE  /\ r.ok => id \in Slot /\ Shut(k, r.k, id) /\ Rest(k, r.k, {id})
         /\ ~r.ok => Rest(k, r.k, {})
<1>1. CASE Allocated(k, id) /\ k.vm[id].state \in Terminal /\ id \notin k.deleted
  <2>. DEFINE meta == [k.meta EXCEPT ![id] = NoMeta]
              n == [k EXCEPT !.deleted = @ \cup {id}, !.meta = meta]
  <2>1. r.ok /\ r.k = [k EXCEPT !.deleted = @ \cup {id}, !.meta[id] = NoMeta]
    BY <1>1 DEF DeleteVm
  <2>2. r.k = n
    BY <2>1
  <2>3. id \in Slot /\ k.vm[id] # None
    BY <1>1 DEF Allocated
  <2>4. /\ DOMAIN meta = Slot /\ meta[id] = NoMeta /\ \A s \in Slot : s # id => meta[s] = k.meta[s]
    BY <2>3 DEF Iso, LifeOK
  <2>. HIDE DEF meta
  <2>5. /\ DOMAIN n = KernelFields /\ n.mem = k.mem /\ n.vmxon = k.vmxon /\ n.occupied = k.occupied
        /\ n.deleted = k.deleted \cup {id} /\ n.meta = meta /\ n.vm = k.vm /\ n.staged = k.staged
    BY DEF Iso, LifeOK, KernelFields
  <2>. HIDE DEF n
  <2>6. Iso(n)
    <3>1. LifeOK(n)
      BY <1>1, <2>3, <2>4, <2>5 DEF Iso, LifeOK
    <3>2. \A s \in Slot : n.vm[s] # None => Housed(n, s)
      BY <2>4, <2>5 DEF Iso, Housed, ImageOf
    <3>3. \A s \in Slot : s \notin n.occupied => n.meta[s] = NoMeta
      BY <2>4, <2>5 DEF Iso
    <3>4. n.deleted \subseteq n.occupied
      BY <2>3, <2>5 DEF Iso, Housed
    <3>. QED BY <2>5, <3>1, <3>2, <3>3, <3>4 DEF Iso
  <2>7. Shut(k, n, id) /\ \A s \in Slot : s # id => Kept(k, n, s)
    BY <1>1, <2>3, <2>5 DEF Shut, Kept
  <2>8. Rest(k, n, {id})
    BY <2>5, <2>6, <2>7, GrownFacts DEF Rest, Iso
  <2>. QED BY <2>1, <2>2, <2>3, <2>7, <2>8
<1>2. CASE ~(Allocated(k, id) /\ k.vm[id].state \in Terminal /\ id \notin k.deleted)
  <2>1. r.k = k /\ ~r.ok
    BY <1>2 DEF DeleteVm
  <2>. QED BY <2>1, GrownFacts DEF Kept, Rest, Iso
<1>. QED BY <1>1, <1>2

\* The frames handed out since do not matter to the VMs that are there.
LEMMA IsoGrown ==
  ASSUME NEW k, Iso(k), NEW n, DOMAIN n = KernelFields, Grown(k.mem, n.mem), k.occupied \subseteq n.occupied,
         n.vmxon = k.vmxon, n.vm = k.vm, n.deleted = k.deleted, n.staged = k.staged, n.meta = k.meta
  PROVE  Iso(n) /\ \A s \in Slot : Kept(k, n, s)
<1>1. Len(k.mem) \in Nat /\ Len(n.mem) \in Nat /\ Len(k.mem) <= Len(n.mem) /\ MemOK(n.mem)
  BY AppendFacts DEF Iso, Grown, MemOK
<1>2. LifeOK(n)
  BY DEF Iso, LifeOK
<1>3. ASSUME NEW s \in Slot, n.vm[s] # None PROVE Housed(n, s)
  <2>. DEFINE r == k.vm[s].pml4
  <2>1. Housed(k, s) /\ r \in Nat /\ k.vm[s].vmcs \in Nat /\ k.vmxon \in Nat
    BY <1>3, VmFacts DEF Iso, LifeOK
  <2>2. r >= 1 /\ r + 5 <= Len(k.mem)
    BY <1>1, <2>1 DEF Housed
  <2>. HIDE DEF r
  <2>3. /\ n.mem[r] = k.mem[r] /\ n.mem[r + 1] = k.mem[r + 1] /\ n.mem[r + 2] = k.mem[r + 2]
        /\ n.mem[r + 3] = k.mem[r + 3] /\ n.mem[r + 4] = k.mem[r + 4]
    <3>1. /\ r \in 1..Len(k.mem) /\ r + 1 \in 1..Len(k.mem) /\ r + 2 \in 1..Len(k.mem)
          /\ r + 3 \in 1..Len(k.mem) /\ r + 4 \in 1..Len(k.mem)
      BY <1>1, <2>1, <2>2
    <3>. QED BY <3>1 DEF Grown
  <2>4. Built(n.mem, r, ImageOf(k, s)) /\ ImageOf(n, s) = ImageOf(k, s)
    BY <2>1, <2>3 DEF Housed, Built, ImageOf, r
  <2>5. n.vm[s].vmcs <= Len(n.mem)
    BY <1>1, <2>1 DEF Housed
  <2>. QED BY <2>1, <2>4, <2>5 DEF Housed, r
<1>4. n.vmxon \in Nat /\ n.vmxon <= Len(n.mem)
  BY <1>1 DEF Iso
<1>5. Iso(n)
  BY <1>1, <1>2, <1>3, <1>4 DEF Iso
<1>. QED BY <1>5 DEF Kept

\* A VM is entered in a free slot, in six frames after those of the others.
LEMMA IsoAdd ==
  ASSUME NEW k, Iso(k), NEW s \in Slot, k.vm[s] = None, s \in k.occupied, s \notin k.deleted, k.meta[s] = NoMeta,
         NEW r \in Nat, r > k.vmxon, r + 5 <= Len(k.mem), NEW image \in Image, Built(k.mem, r, image),
         \A t \in Slot : k.vm[t] # None => k.vm[t].pml4 + 5 < r,
         NEW n, n = VmSet(k, s, NewVm(r + 5, r))
  PROVE  /\ Iso(n) /\ Opened(k, n, s) /\ ImageOf(n, s) = image
         /\ \A t \in Slot : t # s => Kept(k, n, t)
<1>. DEFINE w == NewVm(r + 5, r)
<1>1. /\ w \in VmEntry /\ w # None /\ w.state = "created" /\ w.exit = None
      /\ w.vmcs = r + 5 /\ w.pml4 = r
  <2>1. w \in VmEntry /\ w.state = "created" /\ w.exit = None /\ w.vmcs = r + 5 /\ w.pml4 = r
    BY DEF NewVm, VmEntry, VmState
  <2>. QED BY <2>1, VmFacts
<1>2. n = VmSet(k, s, w)
  OBVIOUS
<1>. HIDE DEF w
<1>3. /\ DOMAIN n = KernelFields /\ \A f \in KernelFields \ {"vm"} : n[f] = k[f]
      /\ DOMAIN n.vm = Slot /\ n.vm[s] = w /\ \A t \in Slot : t # s => n.vm[t] = k.vm[t]
  BY <1>2, VmSetFields DEF Iso
<1>4. /\ n.vmxon = k.vmxon /\ n.mem = k.mem /\ n.occupied = k.occupied
      /\ n.deleted = k.deleted /\ n.staged = k.staged /\ n.meta = k.meta
  BY <1>3 DEF KernelFields
<1>5. ImageOf(n, s) = image
  BY <1>1, <1>3, <1>4 DEF ImageOf, Built
<1>6. LifeOK(n)
  BY <1>1, <1>3, <1>4 DEF Iso, LifeOK
<1>7. ASSUME NEW t \in Slot, n.vm[t] # None PROVE Housed(n, t)
  <2>1. CASE t = s
    BY <1>1, <1>3, <1>4, <1>5, <2>1 DEF Housed
  <2>2. CASE t # s
    BY <1>3, <1>4, <1>7, <2>2 DEF Iso, Housed, ImageOf
  <2>. QED BY <2>1, <2>2
<1>8. ASSUME NEW t \in Slot, NEW u \in Slot, n.vm[t] # None, n.vm[u] # None, t # u
      PROVE  Apart(n.vm[t], n.vm[u])
  <2>1. CASE t = s
    BY <1>1, <1>3, <1>8, <2>1 DEF Apart
  <2>2. CASE u = s
    BY <1>1, <1>3, <1>8, <2>2 DEF Apart
  <2>3. CASE t # s /\ u # s
    BY <1>3, <1>8, <2>3 DEF Iso
  <2>. QED BY <2>1, <2>2, <2>3
<1>9. Iso(n)
  BY <1>4, <1>6, <1>7, <1>8 DEF Iso
<1>. QED BY <1>1, <1>3, <1>4, <1>5, <1>9 DEF Opened, Kept

\* The bridge notes what the creator asked for.
LEMMA TellFacts ==
  ASSUME NEW k, Iso(k), NEW s \in Slot, k.vm[s] # None, NEW told,
         ImageOf(k, s) = Embedded \/ told.crc = Crc32c(ImageOf(k, s)),
         NEW n, n = [k EXCEPT !.meta[s] = told]
  PROVE  Iso(n) /\ n.vm = k.vm /\ n.deleted = k.deleted /\ n.mem = k.mem /\ n.occupied = k.occupied
<1>. DEFINE meta == [k.meta EXCEPT ![s] = told]
<1>1. DOMAIN meta = Slot /\ meta[s] = told /\ \A t \in Slot : t # s => meta[t] = k.meta[t]
  BY DEF Iso, LifeOK
<1>2. n = [k EXCEPT !.meta = meta]
  OBVIOUS
<1>. HIDE DEF meta
<1>3. /\ DOMAIN n = KernelFields /\ n.mem = k.mem /\ n.vmxon = k.vmxon /\ n.occupied = k.occupied
      /\ n.deleted = k.deleted /\ n.meta = meta /\ n.vm = k.vm /\ n.staged = k.staged
  BY <1>2 DEF Iso, LifeOK, KernelFields
<1>4. LifeOK(n)
  BY <1>1, <1>3 DEF Iso, LifeOK
<1>5. ASSUME NEW t \in Slot, n.vm[t] # None PROVE Housed(n, t)
  <2>1. ImageOf(n, t) = ImageOf(k, t)
    BY <1>3 DEF ImageOf
  <2>2. Housed(k, t)
    BY <1>3, <1>5 DEF Iso
  <2>. QED BY <1>1, <1>3, <2>1, <2>2 DEF Housed
<1>6. s \in k.occupied
  BY DEF Iso, Housed
<1>. QED BY <1>1, <1>3, <1>4, <1>5, <1>6 DEF Iso

LEMMA FirstFree ==
  ASSUME NEW free \in SUBSET Slot, free # {}
  PROVE  Min(free) \in free
<1>1. free \subseteq Nat
  BY VmFacts
<1>2. PICK x \in free : \A y \in free : <<y, x>> \notin OpToRel(<, Nat)
  BY <1>1, NatLessThanWellFounded, WFMin
<1>3. OpToRel(<, Nat) = {ss \in Nat \X Nat : ss[1] < ss[2]}
  BY DEF OpToRel
<1>4. \A y \in free : ~(y < x)
  BY <1>1, <1>2, <1>3
<1>5. \A y \in free : x <= y
  BY <1>1, <1>4
<1>. QED BY <1>5 DEF Min

\* What a creation leaves behind, whether it succeeds or fails midway.
LEMMA CreateFacts ==
  ASSUME NEW k, Iso(k), NEW image \in Image, NEW hw, NEW r, r = CreateVm(k, image, hw)
  PROVE  /\ r.id = None => Rest(k, r.k, {})
         /\ r.id # None => /\ r.id \in Slot /\ r.id \notin k.occupied
                           /\ Opened(k, r.k, r.id) /\ ImageOf(r.k, r.id) = image
                           /\ Rest(k, r.k, {r.id})
<1>. DEFINE free == Slot \ k.occupied
            slot == Min(free)
            guest == InstallFirstGuest(k.mem, image)
            vmcs == AllocZeroed(Pool(guest.mem))
            reserved == [k EXCEPT !.occupied = @ \cup {slot}]
            short == [reserved EXCEPT !.mem = guest.mem]
            full == [reserved EXCEPT !.mem = vmcs.mem]
<1>1. r = IF ~k.ready \/ free = {} THEN [k |-> k, id |-> None]
          ELSE IF ~guest.ok THEN [k |-> short, id |-> None]
          ELSE IF ~vmcs.ok \/ ~hw THEN [k |-> full, id |-> None]
          ELSE [k |-> [reserved EXCEPT !.mem = vmcs.mem, !.vm[slot] = NewVm(vmcs.frame, guest.pml4)], id |-> slot]
  BY DEF CreateVm
<1>2. free # {} => slot \in Slot /\ slot \notin k.occupied /\ slot # None
  BY FirstFree, VmFacts
<1>3. [reserved EXCEPT !.mem = vmcs.mem, !.vm[slot] = NewVm(vmcs.frame, guest.pml4)] =
        VmSet(full, slot, NewVm(vmcs.frame, guest.pml4))
  BY DEF VmSet
<1>4. /\ Grown(k.mem, guest.mem) /\ Len(k.mem) \in Nat
      /\ guest.ok => /\ guest.pml4 = Len(k.mem) + 1 /\ Len(guest.mem) = Len(k.mem) + 5
                     /\ Built(guest.mem, Len(k.mem) + 1, image)
  BY InstallFacts DEF Iso
<1>. HIDE DEF slot, guest
<1>5. /\ PoolOK(vmcs) /\ Grown(guest.mem, vmcs.mem) /\ Len(guest.mem) \in Nat
      /\ vmcs.ok => Len(vmcs.mem) = Len(guest.mem) + 1 /\ vmcs.frame = Len(guest.mem) + 1
  <2>1. PoolOK(Pool(guest.mem)) /\ Pool(guest.mem).mem = guest.mem
    BY <1>4 DEF Pool, PoolOK, PoolFields, Grown
  <2>. QED BY <2>1, AllocFacts
<1>. HIDE DEF vmcs
<1>6. Grown(k.mem, vmcs.mem)
  BY <1>4, <1>5, GrownFacts DEF Iso
<1>7. /\ DOMAIN short = KernelFields /\ short.mem = guest.mem /\ short.occupied = k.occupied \cup {slot}
      /\ short.vmxon = k.vmxon /\ short.vm = k.vm /\ short.deleted = k.deleted /\ short.staged = k.staged
      /\ short.meta = k.meta
  BY DEF Iso, LifeOK, KernelFields
<1>8. /\ DOMAIN full = KernelFields /\ full.mem = vmcs.mem /\ full.occupied = k.occupied \cup {slot}
      /\ full.vmxon = k.vmxon /\ full.vm = k.vm /\ full.deleted = k.deleted /\ full.staged = k.staged
      /\ full.meta = k.meta
  BY DEF Iso, LifeOK, KernelFields
<1>. HIDE DEF short, full, reserved
<1>9. Iso(short) /\ \A s \in Slot : Kept(k, short, s)
  BY <1>4, <1>7, IsoGrown
<1>10. Iso(full) /\ \A s \in Slot : Kept(k, full, s)
  BY <1>6, <1>8, IsoGrown
<1>11. CASE ~k.ready \/ free = {}
  BY <1>1, <1>11, GrownFacts DEF Kept, Rest, Iso
<1>12. CASE k.ready /\ free # {} /\ ~guest.ok
  BY <1>1, <1>4, <1>7, <1>9, <1>12 DEF Rest
<1>13. CASE k.ready /\ free # {} /\ guest.ok /\ (~vmcs.ok \/ ~hw)
  BY <1>1, <1>6, <1>8, <1>10, <1>13 DEF Rest
<1>14. CASE k.ready /\ free # {} /\ guest.ok /\ vmcs.ok /\ hw
  <2>. DEFINE root == Len(k.mem) + 1
  <2>1. r.id = slot /\ r.k = VmSet(full, slot, NewVm(vmcs.frame, guest.pml4))
    BY <1>1, <1>3, <1>14
  <2>2. /\ vmcs.frame = root + 5 /\ guest.pml4 = root /\ root \in Nat /\ Len(full.mem) = root + 5
        /\ Len(guest.mem) = root + 4
    BY <1>4, <1>5, <1>8, <1>14
  <2>3. Built(full.mem, root, image)
    <3>1. Built(guest.mem, root, image)
      BY <1>4, <1>14
    <3>2. /\ root \in 1..Len(guest.mem) /\ root + 1 \in 1..Len(guest.mem) /\ root + 2 \in 1..Len(guest.mem)
          /\ root + 3 \in 1..Len(guest.mem) /\ root + 4 \in 1..Len(guest.mem)
      BY <1>4, <2>2
    <3>. HIDE DEF root
    <3>3. /\ full.mem[root] = guest.mem[root] /\ full.mem[root + 1] = guest.mem[root + 1]
          /\ full.mem[root + 2] = guest.mem[root + 2] /\ full.mem[root + 3] = guest.mem[root + 3]
          /\ full.mem[root + 4] = guest.mem[root + 4]
      BY <1>5, <1>8, <3>2 DEF Grown
    <3>. QED BY <3>1, <3>3 DEF Built
  <2>4. /\ slot \in Slot /\ slot \notin k.occupied /\ slot # None /\ slot \in full.occupied
        /\ full.vm[slot] = None /\ slot \notin full.deleted /\ full.meta[slot] = NoMeta
    BY <1>2, <1>8, <1>14 DEF Iso, Housed
  <2>5. full.vmxon < root /\ root + 5 <= Len(full.mem)
    BY <1>4, <1>8, <2>2 DEF Iso
  <2>6. \A t \in Slot : full.vm[t] # None => full.vm[t].pml4 + 5 < root
    <3>. SUFFICES ASSUME NEW t \in Slot, k.vm[t] # None PROVE k.vm[t].pml4 + 5 < root
      BY <1>8
    <3>1. Housed(k, t) /\ k.vm[t].pml4 \in Nat
      BY VmFacts DEF Iso, LifeOK
    <3>. QED BY <1>4, <3>1 DEF Housed
  <2>. HIDE DEF root
  <2>7. r.k = VmSet(full, slot, NewVm(root + 5, root))
    BY <2>1, <2>2
  <2>8. /\ Iso(r.k) /\ Opened(full, r.k, slot) /\ ImageOf(r.k, slot) = image
        /\ \A t \in Slot : t # slot => Kept(full, r.k, t)
    BY <1>10, <2>2, <2>3, <2>4, <2>5, <2>6, <2>7, IsoAdd
  <2>9. r.k.occupied = full.occupied /\ r.k.mem = full.mem
    <3>1. \A f \in KernelFields \ {"vm"} : r.k[f] = full[f]
      BY <1>10, <2>4, <2>7, VmSetFields DEF Iso
    <3>. QED BY <3>1 DEF KernelFields
  <2>. QED BY <1>6, <1>8, <2>1, <2>4, <2>8, <2>9 DEF Opened, Kept, Rest
<1>. QED BY <1>11, <1>12, <1>13, <1>14

\* The runtime comes up, or not: there is no VM yet.
LEMMA RuntimeFacts ==
  ASSUME NEW k, Iso(k), \A s \in Slot : k.vm[s] = None, NEW hw, NEW r, r = InitRuntime(k, hw)
  PROVE  Rest(k, r.k, {})
<1>. DEFINE region == AllocZeroed(Pool(k.mem))
            n == [k EXCEPT !.ready = TRUE, !.mem = region.mem, !.vmxon = region.frame]
<1>1. r.k = k \/ r.k = n
  BY DEF InitRuntime
<1>2. /\ MemOK(region.mem) /\ region.frame \in Nat /\ region.frame <= Len(region.mem)
      /\ Grown(k.mem, region.mem)
  <2>1. PoolOK(Pool(k.mem)) /\ Pool(k.mem).mem = k.mem /\ Pool(k.mem).frame = 0
    BY DEF Pool, PoolOK, PoolFields, Iso
  <2>2. /\ PoolOK(region) /\ Len(k.mem) \in Nat /\ Grown(k.mem, region.mem)
        /\ \/ Len(region.mem) = Len(k.mem) + 1 /\ region.frame = Len(k.mem) + 1
           \/ region.mem = k.mem /\ region.frame = 0
    BY <2>1, AllocFacts
  <2>. QED BY <2>2 DEF PoolOK
<1>. HIDE DEF region
<1>3. /\ DOMAIN n = KernelFields /\ n.mem = region.mem /\ n.vmxon = region.frame /\ n.occupied = k.occupied
      /\ n.deleted = k.deleted /\ n.meta = k.meta /\ n.vm = k.vm /\ n.staged = k.staged
  BY DEF Iso, LifeOK, KernelFields
<1>. HIDE DEF n
<1>4. Iso(n)
  <2>1. LifeOK(n)
    BY <1>3 DEF Iso, LifeOK
  <2>. QED BY <1>2, <1>3, <2>1 DEF Iso
<1>. QED BY <1>1, <1>2, <1>3, <1>4, GrownFacts DEF Kept, Rest, Iso

\* What the tables of a guest lead to.
LEMMA BuiltFacts ==
  ASSUME NEW mem, NEW r \in Nat \ {0}, NEW image, Built(mem, r, image)
  PROVE  /\ Reach(mem, r) = {r, r + 1, r + 2, r + 3, r + 4}
         /\ Translate(mem, r, GUEST_LOAD_PAGE) = r + 1
<1>. DEFINE below(S) == UNION {{mem[f].entries[i] : i \in DOMAIN mem[f].entries} : f \in S}
<1>1. below({r}) = {r + 2}
  BY DEF Built, Single
<1>2. below({r + 2}) = {r + 3}
  BY DEF Built, Single
<1>3. below({r + 3}) = {r + 4}
  BY DEF Built, Single
<1>4. below({r + 4}) = {r + 1}
  BY DEF Built, Single
<1>5. Reach(mem, r) = {r} \cup below({r}) \cup below(below({r})) \cup below(below(below({r})))
                          \cup below(below(below(below({r}))))
  BY DEF Reach
<1>. HIDE DEF below
<1>6. Reach(mem, r) = {r} \cup {r + 2} \cup {r + 3} \cup {r + 4} \cup {r + 1}
  BY <1>1, <1>2, <1>3, <1>4, <1>5
<1>7. Translate(mem, r, GUEST_LOAD_PAGE) = r + 1
  <2>1. Follow(mem, r, EptIndex(GUEST_LOAD_PAGE, 3)) = r + 2
    BY DEF Follow, Built, Single
  <2>2. Follow(mem, r + 2, EptIndex(GUEST_LOAD_PAGE, 2)) = r + 3
    BY DEF Follow, Built, Single
  <2>3. Follow(mem, r + 3, EptIndex(GUEST_LOAD_PAGE, 1)) = r + 4
    BY DEF Follow, Built, Single
  <2>4. Follow(mem, r + 4, EptIndex(GUEST_LOAD_PAGE, 0)) = r + 1
    BY DEF Follow, Built, Single
  <2>. QED BY <2>1, <2>2, <2>3, <2>4 DEF Translate
<1>. QED BY <1>6, <1>7

\* As many regions as there are VMs, and the VMXON region.
LEMMA RegionCount ==
  ASSUME NEW k, Iso(k), NEW vms, vms = {s \in Slot : k.vm[s] # None}
  PROVE  Cardinality({k.vm[s].vmcs : s \in vms} \cup {k.vmxon}) = Cardinality(vms) + 1
<1>. DEFINE regions == {k.vm[s].vmcs : s \in vms}
            f == [s \in vms |-> k.vm[s].vmcs]
<1>1. IsFiniteSet(vms)
  <2>1. MAX_VMS - 1 \in Int /\ 0 \in Int
    BY KernelAssumption
  <2>2. IsFiniteSet(0 .. MAX_VMS - 1)
    BY <2>1, FS_Interval
  <2>3. vms \in SUBSET (0 .. MAX_VMS - 1)
    BY DEF Slot
  <2>. QED BY <2>2, <2>3, FS_Subset
<1>2. \A s \in vms : k.vm[s].pml4 \in Nat /\ k.vm[s].vmcs = k.vm[s].pml4 + 5 /\ k.vm[s].pml4 > k.vmxon
  BY VmFacts DEF Iso, LifeOK, Housed
<1>3. \A s, t \in vms : s # t => k.vm[s].vmcs # k.vm[t].vmcs
  BY <1>2 DEF Iso, Apart
<1>4. ExistsBijection(vms, regions)
  <2>1. f \in [vms -> regions] /\ \A s \in vms : f[s] = k.vm[s].vmcs
    OBVIOUS
  <2>. HIDE DEF f
  <2>2. f \in Injection(vms, regions)
    BY <1>3, <2>1 DEF Injection, IsInjective
  <2>3. f \in Surjection(vms, regions)
    BY <2>1 DEF Surjection
  <2>. QED BY <2>2, <2>3 DEF ExistsBijection, Bijection
<1>5. IsFiniteSet(regions) /\ Cardinality(regions) = Cardinality(vms)
  BY <1>1, <1>4, FS_Bijection
<1>6. k.vmxon \notin regions
  BY <1>2 DEF Iso
<1>. HIDE DEF regions
<1>7. Cardinality(regions \cup {k.vmxon}) = Cardinality(vms) + 1
  BY <1>5, <1>6, FS_AddElement
<1>. QED BY <1>7 DEF regions

\* Guests are isolated from each other and from the hypervisor by where they are housed.
LEMMA Isolation ==
  ASSUME kind = "metal" => Iso(kernel)
  PROVE  GuestsIsolated
<1>. SUFFICES ASSUME kind = "metal" PROVE GuestsIsolated
  BY DEF GuestsIsolated
<1>. DEFINE vms == {s \in Slot : kernel.vm[s] # None}
            reach == [s \in vms |-> Reach(kernel.mem, kernel.vm[s].pml4)]
            regions == {kernel.vm[s].vmcs : s \in vms} \cup {kernel.vmxon}
            root(s) == kernel.vm[s].pml4
<1>1. Iso(kernel)
  OBVIOUS
<1>2. Cardinality(regions) = Cardinality(vms) + 1
  BY <1>1, RegionCount
<1>3. ASSUME NEW s \in vms
      PROVE  /\ root(s) \in Nat \ {0} /\ kernel.vm[s].vmcs = root(s) + 5 /\ kernel.vmxon < root(s)
             /\ kernel.vmxon \in Nat
             /\ reach[s] = {root(s), root(s) + 1, root(s) + 2, root(s) + 3, root(s) + 4}
             /\ Translate(kernel.mem, root(s), GUEST_LOAD_PAGE) = root(s) + 1
             /\ ImageAt(s) = ImageOf(kernel, s)
  <2>1. Housed(kernel, s) /\ root(s) \in Nat /\ kernel.vmxon \in Nat
    BY <1>1, VmFacts DEF Iso, LifeOK
  <2>2. root(s) \in Nat \ {0} /\ kernel.vm[s].vmcs = root(s) + 5 /\ kernel.vmxon < root(s)
        /\ Built(kernel.mem, root(s), ImageOf(kernel, s))
    BY <2>1 DEF Housed
  <2>3. /\ Reach(kernel.mem, root(s)) = {root(s), root(s) + 1, root(s) + 2, root(s) + 3, root(s) + 4}
        /\ Translate(kernel.mem, root(s), GUEST_LOAD_PAGE) = root(s) + 1
    BY <2>2, BuiltFacts
  <2>4. ImageAt(s) = ImageOf(kernel, s)
    BY <2>3 DEF ImageAt, ImageOf
  <2>. QED BY <2>1, <2>2, <2>3, <2>4
<1>4. \A s, t \in vms : s # t => root(s) + 5 < root(t) \/ root(t) + 5 < root(s)
  BY <1>1 DEF Iso, Apart
<1>5. ASSUME NEW s \in vms
      PROVE  /\ reach[s] \cap regions = {}
             /\ \A t \in vms \ {s} : reach[s] \cap reach[t] = {}
             /\ Translate(kernel.mem, root(s), GUEST_LOAD_PAGE) # 0
             /\ kernel.meta[s] # NoMeta => ImageAt(s) = Embedded \/ kernel.meta[s].crc = Crc32c(ImageAt(s))
  <2>. HIDE DEF reach, root
  <2>1. \A t \in vms : root(s) + 5 < root(t) \/ root(t) + 5 < root(s) \/ t = s
    BY <1>4
  <2>2. ASSUME NEW f \in reach[s], f \in regions PROVE FALSE
    <3>1. f \in Nat /\ root(s) <= f /\ f <= root(s) + 4
      BY <1>3
    <3>2. PICK t \in vms : f = root(t) + 5 \/ f = kernel.vmxon
      BY <1>3, <2>2
    <3>3. root(t) \in Nat /\ kernel.vmxon < root(s) /\ root(s) \in Nat /\ kernel.vmxon \in Nat
      BY <1>3
    <3>. QED BY <2>1, <3>1, <3>2, <3>3
  <2>3. ASSUME NEW t \in vms \ {s}, NEW f \in reach[s], f \in reach[t] PROVE FALSE
    <3>1. f \in Nat /\ root(s) <= f /\ f <= root(s) + 4 /\ root(t) <= f /\ f <= root(t) + 4
      BY <1>3, <2>3
    <3>2. root(t) \in Nat /\ root(s) \in Nat
      BY <1>3
    <3>. QED BY <2>1, <3>1, <3>2
  <2>4. Translate(kernel.mem, root(s), GUEST_LOAD_PAGE) # 0
    BY <1>3
  <2>5. kernel.meta[s] # NoMeta => ImageAt(s) = Embedded \/ kernel.meta[s].crc = Crc32c(ImageAt(s))
    BY <1>1, <1>3 DEF Iso, Housed
  <2>. QED BY <2>2, <2>3, <2>4, <2>5
<1>. HIDE DEF vms
<1>6. \A s \in vms :
        /\ reach[s] \cap regions = {}
        /\ \A t \in vms \ {s} : reach[s] \cap reach[t] = {}
        /\ Translate(kernel.mem, kernel.vm[s].pml4, GUEST_LOAD_PAGE) # 0
        /\ kernel.meta[s] # NoMeta => ImageAt(s) = Embedded \/ kernel.meta[s].crc = Crc32c(ImageAt(s))
  BY <1>5
<1>. QED BY <1>2, <1>6 DEF GuestsIsolated, vms

\* The other fields do not matter to it.
LEMMA RestCore ==
  ASSUME NEW k, NEW n, NEW D, Rest(k, n, D), NEW m, DOMAIN m = KernelFields, \A f \in Core : m[f] = n[f]
  PROVE  /\ Rest(k, m, D) /\ m.vm = n.vm /\ m.deleted = n.deleted
         /\ \A s \in Slot : /\ Opened(k, n, s) => Opened(k, m, s)
                            /\ Shut(k, n, s) => Shut(k, m, s)
<1>1. /\ m.vmxon = n.vmxon /\ m.mem = n.mem /\ m.occupied = n.occupied /\ m.vm = n.vm
      /\ m.deleted = n.deleted /\ m.staged = n.staged /\ m.meta = n.meta
  BY DEF Core
<1>2. Iso(m)
  BY CoreKept DEF Rest, Iso
<1>. QED BY <1>1, <1>2 DEF Rest, Kept, Opened, Shut

---------------------------------------------------------------------------
(* What every step of the kernel does to the slots. *)

\* No VM before the runtime is up; the guest that has the processor runs, and is the active one.
Phased(k) ==
  /\ k.phase # "emulator"
  /\ k.phase = "start" => \A s \in Slot : k.vm[s] = None
  /\ k.phase = "guest" => /\ Allocated(k, k.serving.id) /\ k.active = k.serving.id
                          /\ k.vm[k.serving.id].state = "running"

KernelInv ==
  /\ boot.boot_image \in Image
  /\ kind = "metal" => Iso(kernel) /\ Phased(kernel)
  /\ kind # "metal" => LifeOK(kernel) /\ kernel.deleted = {} /\ kernel.phase = "emulator"

BornFields == {"gen", "policy", "live"}
BornOK ==
  /\ DOMAIN born = Slot
  /\ \A s \in Slot : /\ DOMAIN born[s] = BornFields /\ born[s].gen \in Nat
                     /\ born[s].live <=> (kernel.vm[s] # None /\ s \notin kernel.deleted)
                     /\ kernel.vm[s] # None => born[s].gen > 0
                     /\ kind = "metal" /\ born[s].gen > 0 => s \in kernel.occupied

\* A slot keeps its VM, gets one, or loses it.
SlotStep(s) ==
  \/ Kept(kernel, kernel', s) /\ born'[s] = born[s]
  \/ /\ Opened(kernel, kernel', s) /\ (kind = "metal" => s \notin kernel.occupied)
     /\ \E policy : born'[s] = [gen |-> born[s].gen + 1, policy |-> policy, live |-> TRUE]
  \/ /\ Shut(kernel, kernel', s)
     /\ DOMAIN born'[s] = BornFields /\ ~born'[s].live
     /\ born'[s].gen = born[s].gen /\ born'[s].policy = born[s].policy

Turn ==
  /\ KernelInv'
  /\ DOMAIN born' = Slot /\ \A s \in Slot : SlotStep(s)
  /\ kind' = kind /\ boot' = boot
  /\ kind = "metal" => Grown(kernel.mem, kernel'.mem) /\ kernel.occupied \subseteq kernel'.occupied

LEMMA BornFacts ==
  ASSUME BornOK, NEW id \in Slot
  PROVE  /\ \A policy : /\ DOMAIN BornIn(id, policy) = Slot
                        /\ BornIn(id, policy)[id] = [gen |-> born[id].gen + 1, policy |-> policy, live |-> TRUE]
                        /\ \A s \in Slot : s # id => BornIn(id, policy)[s] = born[s]
         /\ DOMAIN Gone(id) = Slot
         /\ DOMAIN Gone(id)[id] = BornFields /\ ~Gone(id)[id].live
         /\ Gone(id)[id].gen = born[id].gen /\ Gone(id)[id].policy = born[id].policy
         /\ \A s \in Slot : s # id => Gone(id)[s] = born[s]
<1>1. DOMAIN born = Slot /\ DOMAIN born[id] = BornFields
  BY DEF BornOK
<1>2. ASSUME NEW policy
      PROVE  /\ DOMAIN BornIn(id, policy) = Slot
             /\ BornIn(id, policy)[id] = [gen |-> born[id].gen + 1, policy |-> policy, live |-> TRUE]
             /\ \A s \in Slot : s # id => BornIn(id, policy)[s] = born[s]
  BY <1>1 DEF BornIn
<1>. DEFINE b == [born[id] EXCEPT !.live = FALSE]
<1>3. DOMAIN b = BornFields /\ ~b.live /\ b.gen = born[id].gen /\ b.policy = born[id].policy
  BY <1>1 DEF BornFields
<1>4. Gone(id) = [born EXCEPT ![id] = b]
  BY DEF Gone
<1>. HIDE DEF b
<1>5. DOMAIN Gone(id) = Slot /\ Gone(id)[id] = b /\ \A s \in Slot : s # id => Gone(id)[s] = born[s]
  BY <1>1, <1>4
<1>. QED BY <1>2, <1>3, <1>5

\* A turn of the kernel on metal.
LEMMA MetalTurn ==
  ASSUME KernelInv, BornOK, kind = "metal", kind' = kind, boot' = boot, Phased(kernel'),
         \/ born' = born /\ Rest(kernel, kernel', {})
         \/ \E id \in Slot : \E policy :
              /\ born' = BornIn(id, policy) /\ Rest(kernel, kernel', {id})
              /\ Opened(kernel, kernel', id) /\ id \notin kernel.occupied
         \/ \E id \in Slot : /\ born' = Gone(id) /\ Rest(kernel, kernel', {id}) /\ Shut(kernel, kernel', id)
  PROVE  Turn
<1>1. /\ Iso(kernel') /\ Grown(kernel.mem, kernel'.mem) /\ kernel.occupied \subseteq kernel'.occupied
  BY DEF Rest
<1>2. KernelInv'
  BY <1>1 DEF KernelInv
<1>3. DOMAIN born' = Slot /\ \A s \in Slot : SlotStep(s)
  <2>1. CASE born' = born /\ Rest(kernel, kernel', {})
    BY <2>1 DEF SlotStep, Rest, BornOK
  <2>2. ASSUME NEW id \in Slot, NEW policy, born' = BornIn(id, policy), Rest(kernel, kernel', {id}),
               Opened(kernel, kernel', id), id \notin kernel.occupied
        PROVE  DOMAIN born' = Slot /\ \A s \in Slot : SlotStep(s)
    <3>1. /\ DOMAIN born' = Slot
          /\ born'[id] = [gen |-> born[id].gen + 1, policy |-> policy, live |-> TRUE]
          /\ \A s \in Slot : s # id => born'[s] = born[s]
      <4>1. /\ DOMAIN BornIn(id, policy) = Slot
            /\ BornIn(id, policy)[id] = [gen |-> born[id].gen + 1, policy |-> policy, live |-> TRUE]
            /\ \A s \in Slot : s # id => BornIn(id, policy)[s] = born[s]
        BY BornFacts
      <4>. QED BY <2>2, <4>1
    <3>2. ASSUME NEW s \in Slot PROVE SlotStep(s)
      <4>1. CASE s = id
        BY <2>2, <3>1, <4>1 DEF SlotStep
      <4>2. CASE s # id
        BY <2>2, <3>1, <4>2 DEF SlotStep, Rest
      <4>. QED BY <4>1, <4>2
    <3>. QED BY <3>1, <3>2
  <2>3. ASSUME NEW id \in Slot, born' = Gone(id), Rest(kernel, kernel', {id}), Shut(kernel, kernel', id)
        PROVE  DOMAIN born' = Slot /\ \A s \in Slot : SlotStep(s)
    <3>1. /\ DOMAIN born' = Slot
          /\ DOMAIN born'[id] = BornFields /\ ~born'[id].live
          /\ born'[id].gen = born[id].gen /\ born'[id].policy = born[id].policy
          /\ \A s \in Slot : s # id => born'[s] = born[s]
      BY <2>3, BornFacts
    <3>2. ASSUME NEW s \in Slot PROVE SlotStep(s)
      <4>1. CASE s = id
        BY <2>3, <3>1, <4>1 DEF SlotStep
      <4>2. CASE s # id
        BY <2>3, <3>1, <4>2 DEF SlotStep, Rest
      <4>. QED BY <4>1, <4>2
    <3>. QED BY <3>1, <3>2
  <2>. QED BY <2>1, <2>2, <2>3
<1>. QED BY <1>1, <1>2, <1>3 DEF Turn

LEMMA Metal ==
  ASSUME KernelInv, kernel.phase # "emulator"
  PROVE  kind = "metal" /\ Iso(kernel) /\ Phased(kernel) /\ LifeOK(kernel) /\ DOMAIN kernel = KernelFields
  BY DEF KernelInv, Iso, LifeOK

LEMMA HaltFacts ==
  ASSUME NEW k, NEW n, NEW D, Rest(k, n, D)
  PROVE  /\ Rest(k, HaltBoot(n), D) /\ Phased(HaltBoot(n))
         /\ \A s \in Slot : /\ Opened(k, n, s) => Opened(k, HaltBoot(n), s)
                            /\ Shut(k, n, s) => Shut(k, HaltBoot(n), s)
<1>1. /\ DOMAIN HaltBoot(n) = KernelFields /\ HaltBoot(n).phase = "halted"
      /\ \A f \in Core : HaltBoot(n)[f] = n[f]
  BY DEF Rest, Iso, LifeOK, HaltBoot, KernelFields, Core
<1>. QED BY <1>1, RestCore DEF Phased

LEMMA BootStartTurn ==
  ASSUME KernelInv, BornOK, BootStart
  PROVE  Turn
<1>1. kernel.phase = "start" /\ born' = born /\ kind' = kind /\ boot' = boot
  BY DEF BootStart, OnBoot
<1>2. kind = "metal" /\ Iso(kernel) /\ Phased(kernel) /\ LifeOK(kernel) /\ DOMAIN kernel = KernelFields
  BY <1>1, Metal
<1>3. PICK hw \in BOOLEAN :
        LET r == InitRuntime(kernel, hw)
            up == [r.k EXCEPT !.phase = "create_a", !.online = IF TopologyOk(boot) THEN 1 ELSE 0]
        IN kernel' = IF ~boot.valid \/ ~boot.vmx THEN HaltBoot(kernel) ELSE IF r.ok THEN up ELSE HaltBoot(r.k)
  BY DEF BootStart
<1>. DEFINE r == InitRuntime(kernel, hw)
            up == [r.k EXCEPT !.phase = "create_a", !.online = IF TopologyOk(boot) THEN 1 ELSE 0]
<1>4. kernel' \in {HaltBoot(kernel), up, HaltBoot(r.k)}
  BY <1>3
<1>5. Rest(kernel, r.k, {}) /\ Rest(kernel, kernel, {})
  <2>1. \A s \in Slot : kernel.vm[s] = None
    BY <1>1, <1>2 DEF Phased
  <2>2. Moved(kernel, kernel)
    BY <1>2, CoreKept
  <2>. QED BY <1>2, <2>1, <2>2, MovedRest, RuntimeFacts
<1>. HIDE DEF r
<1>6. DOMAIN up = KernelFields /\ up.phase = "create_a" /\ \A f \in Core : up[f] = r.k[f]
  BY <1>5 DEF Rest, Iso, LifeOK, KernelFields, Core
<1>. HIDE DEF up
<1>7. Rest(kernel, kernel', {}) /\ Phased(kernel')
  <2>1. CASE kernel' = up
    BY <1>5, <1>6, <2>1, RestCore DEF Phased
  <2>2. CASE kernel' = HaltBoot(kernel) \/ kernel' = HaltBoot(r.k)
    BY <1>5, <2>2, HaltFacts
  <2>. QED BY <1>4, <2>1, <2>2
<1>. QED BY <1>1, <1>2, <1>7, MetalTurn

LEMMA BootCreateTurn ==
  ASSUME KernelInv, BornOK, BootCreate
  PROVE  Turn
<1>1. kernel.phase \in {"create_a", "create_b"} /\ kind' = kind /\ boot' = boot
  BY DEF BootCreate, OnBoot
<1>2. kind = "metal" /\ Iso(kernel) /\ Phased(kernel) /\ LifeOK(kernel) /\ DOMAIN kernel = KernelFields
  BY <1>1, Metal
<1>3. PICK hw \in BOOLEAN :
        LET r == CreateVm(kernel, FromHandoffOrEmbedded(boot), hw)
            next == IF kernel.phase = "create_a" THEN "create_b" ELSE "drain"
            ok == r.id # None /\ (next = "drain" => RoundTrips(r.k, 0))
        IN /\ kernel' = IF ok THEN [r.k EXCEPT !.phase = next, !.cursor = 0] ELSE HaltBoot(r.k)
           /\ born' = IF r.id # None THEN BornIn(r.id, DefaultPolicy) ELSE born
  BY DEF BootCreate
<1>. DEFINE image == FromHandoffOrEmbedded(boot)
            r == CreateVm(kernel, image, hw)
            next == IF kernel.phase = "create_a" THEN "create_b" ELSE "drain"
            up == [r.k EXCEPT !.phase = next, !.cursor = 0]
<1>4. kernel' \in {HaltBoot(r.k), up} /\ born' = IF r.id # None THEN BornIn(r.id, DefaultPolicy) ELSE born
  BY <1>3
<1>5. image \in Image
  BY KernelAssumption DEF FromHandoffOrEmbedded, KernelInv
<1>. HIDE DEF image
<1>6. /\ r.id = None => Rest(kernel, r.k, {})
      /\ r.id # None => /\ r.id \in Slot /\ r.id \notin kernel.occupied
                        /\ Opened(kernel, r.k, r.id) /\ Rest(kernel, r.k, {r.id})
  BY <1>2, <1>5, CreateFacts
<1>. HIDE DEF r
<1>7. DOMAIN up = KernelFields /\ up.phase = next /\ \A f \in Core : up[f] = r.k[f]
  BY <1>6 DEF Rest, Iso, LifeOK, KernelFields, Core
<1>8. next \in {"create_b", "drain"}
  OBVIOUS
<1>. HIDE DEF up, next
<1>9. ASSUME NEW D, Rest(kernel, r.k, D)
      PROVE  /\ Rest(kernel, kernel', D) /\ Phased(kernel')
             /\ \A s \in Slot : Opened(kernel, r.k, s) => Opened(kernel, kernel', s)
  <2>1. CASE kernel' = up
    BY <1>7, <1>8, <1>9, <2>1, RestCore DEF Phased
  <2>2. CASE kernel' = HaltBoot(r.k)
    BY <1>9, <2>2, HaltFacts
  <2>. QED BY <1>4, <2>1, <2>2
<1>10. CASE r.id = None
  BY <1>1, <1>2, <1>4, <1>6, <1>9, <1>10, MetalTurn
<1>11. CASE r.id # None
  BY <1>1, <1>2, <1>4, <1>6, <1>9, <1>11, MetalTurn
<1>. QED BY <1>10, <1>11

LEMMA BootLaunchTurn ==
  ASSUME KernelInv, BornOK, BootLaunch
  PROVE  Turn
<1>1. kernel.phase = "drain" /\ kind' = kind /\ boot' = boot /\ born' = born
  BY DEF BootLaunch, OnBoot
<1>2. kind = "metal" /\ Iso(kernel) /\ Phased(kernel) /\ LifeOK(kernel) /\ DOMAIN kernel = KernelFields
  BY <1>1, Metal
<1>3. PICK hw \in BOOLEAN :
        LET id == NextRunnable(kernel)
            r == EnterVm([kernel EXCEPT !.cursor = (id + 1) % MAX_VMS], id, hw)
        IN kernel' = IF r.entered THEN [r.k EXCEPT !.phase = "guest", !.serving = [no |-> 0, id |-> id]]
                     ELSE HaltBoot(r.k)
  BY DEF BootLaunch
<1>. DEFINE id == NextRunnable(kernel)
            k == [kernel EXCEPT !.cursor = (id + 1) % MAX_VMS]
            r == EnterVm(k, id, hw)
            up == [r.k EXCEPT !.phase = "guest", !.serving = [no |-> 0, id |-> id]]
<1>4. kernel' = IF r.entered THEN up ELSE HaltBoot(r.k)
  BY <1>3
<1>5. DOMAIN k = KernelFields /\ \A f \in Core : k[f] = kernel[f]
  BY <1>2 DEF KernelFields, Core
<1>. HIDE DEF k, id
<1>6. LifeOK(k) /\ Rest(kernel, k, {}) /\ Iso(k) /\ k.vm = kernel.vm /\ k.mem = kernel.mem
      /\ k.occupied = kernel.occupied /\ k.deleted = kernel.deleted
  BY <1>2, <1>5, CoreKept, MovedRest DEF Core
<1>7. /\ Rest(k, r.k, {})
      /\ r.entered => Allocated(r.k, id) /\ r.k.active = id /\ r.k.vm[id].state = "running"
  BY <1>6, EnterFacts, MovedRest
<1>. HIDE DEF r
<1>8. Rest(kernel, r.k, {})
  BY <1>6, <1>7 DEF Rest, Kept
<1>9. CASE r.entered
  <2>1. /\ DOMAIN up = KernelFields /\ up.phase = "guest" /\ up.serving.id = id /\ up.active = r.k.active
        /\ \A f \in Core : up[f] = r.k[f]
    BY <1>8 DEF Rest, Iso, LifeOK, KernelFields, Core
  <2>2. kernel' = up
    BY <1>4, <1>9
  <2>. HIDE DEF up
  <2>3. Rest(kernel, kernel', {}) /\ kernel'.vm = r.k.vm
    BY <1>8, <2>1, <2>2, RestCore
  <2>4. Phased(kernel')
    BY <1>7, <1>9, <2>1, <2>2, <2>3 DEF Phased, Allocated
  <2>. QED BY <1>1, <1>2, <2>3, <2>4, MetalTurn
<1>10. CASE ~r.entered
  <2>1. kernel' = HaltBoot(r.k)
    BY <1>4, <1>10
  <2>. QED BY <1>1, <1>2, <1>8, <2>1, HaltFacts, MetalTurn
<1>. QED BY <1>9, <1>10

LEMMA BootFinishTurn ==
  ASSUME KernelInv, BornOK, BootFinish
  PROVE  Turn
<1>1. kernel.phase = "drain" /\ kind' = kind /\ boot' = boot /\ born' = born
  BY DEF BootFinish, OnBoot
<1>2. kind = "metal" /\ Iso(kernel) /\ Phased(kernel) /\ LifeOK(kernel) /\ DOMAIN kernel = KernelFields
  BY <1>1, Metal
<1>. DEFINE k == StopAll(kernel)
<1>3. Rest(kernel, k, {})
  BY <1>2, StopAllFacts, MovedRest
<1>4. PICK phase \in {"halted", "bridge"} : kernel' = [k EXCEPT !.phase = phase]
  BY DEF BootFinish
<1>. HIDE DEF k
<1>5. DOMAIN kernel' = KernelFields /\ kernel'.phase = phase /\ \A f \in Core : kernel'[f] = k[f]
  BY <1>3, <1>4 DEF Rest, Iso, LifeOK, KernelFields, Core
<1>6. Rest(kernel, kernel', {}) /\ Phased(kernel')
  BY <1>3, <1>5, RestCore DEF Phased
<1>. QED BY <1>1, <1>2, <1>6, MetalTurn

LEMMA GuestExitTurn ==
  ASSUME KernelInv, BornOK, GuestExit
  PROVE  Turn
<1>1. kernel.phase = "guest" /\ kind' = kind /\ boot' = boot /\ born' = born
  BY DEF GuestExit
<1>2. kind = "metal" /\ Iso(kernel) /\ Phased(kernel) /\ LifeOK(kernel) /\ DOMAIN kernel = KernelFields
  BY <1>1, Metal
<1>. DEFINE run == kernel.serving
<1>3. PICK o \in Outcome :
        kernel' = [Ended(kernel, run.id, o) EXCEPT !.phase = IF run.no = 0 THEN "drain" ELSE "bridge", !.serving = None]
  BY DEF GuestExit
<1>. DEFINE k == Ended(kernel, run.id, o)
            phase == IF run.no = 0 THEN "drain" ELSE "bridge"
<1>4. Allocated(kernel, run.id) /\ kernel.active = run.id /\ kernel.vm[run.id].state = "running"
  BY <1>1, <1>2 DEF Phased
<1>. HIDE DEF run
<1>5. Rest(kernel, k, {})
  BY <1>2, <1>4, EndedFacts, MovedRest
<1>6. kernel' = [k EXCEPT !.phase = phase, !.serving = None] /\ phase \in {"drain", "bridge"}
  BY <1>3
<1>. HIDE DEF k, phase
<1>7. DOMAIN kernel' = KernelFields /\ kernel'.phase = phase /\ \A f \in Core : kernel'[f] = k[f]
  BY <1>5, <1>6 DEF Rest, Iso, LifeOK, KernelFields, Core
<1>8. Rest(kernel, kernel', {}) /\ Phased(kernel')
  BY <1>5, <1>6, <1>7, RestCore DEF Phased
<1>. QED BY <1>1, <1>2, <1>8, MetalTurn

\* Hex digits that pass the checksum are those of an image.
LEMMA HexFacts ==
  ASSUME NEW f, FrameOK(f), Decodes(f), f.op = "image_load", Crc32c(f.bytes_hex) = f.crc32c
  PROVE  f.bytes_hex \in Image
<1>1. "op" \in DOMAIN f /\ {"len", "crc32c", "bytes_hex"} \subseteq DOMAIN f
  BY DEF Decodes, Needs
<1>2. PICK op \in Calls : \E g \in FramesOf(op) : f = g \/ f \in Noisy(g)
  BY DEF FrameOK
<1>3. PICK g \in FramesOf(op) : f = g \/ f \in Noisy(g)
  BY <1>2
<1>4. f = g \/ (\E lost \in DOMAIN g : f = [key \in DOMAIN g \ {lost} |-> g[key]])
        \/ f = [g EXCEPT !.bytes_hex = [@ EXCEPT !.body = "damaged"]]
  BY <1>3 DEF Noisy
<1>5. "op" \in DOMAIN g
  BY DEF Calls, FramesOf, CreateFrame, ImageFrame, ListFrame, VmFrame
<1>6. f["op"] = g["op"]
  BY <1>1, <1>4, <1>5
<1>7. g.op = "image_load"
  BY <1>6
<1>8. PICK i \in Image : g = ImageFrame(i)
  <2>1. op = "stage"
    BY <1>7 DEF Calls, FramesOf, CreateFrame, ListFrame, VmFrame
  <2>2. g \in {ImageFrame(i) : i \in {i \in Image : Loadable(i)}}
    BY <2>1 DEF FramesOf
  <2>. QED BY <2>2
<1>9. /\ DOMAIN g = {"op", "len", "crc32c", "bytes_hex"}
      /\ g.bytes_hex = i /\ g.crc32c = i.body
  BY <1>8 DEF ImageFrame, Crc32c
<1>10. CASE f = g
  BY <1>9, <1>10
<1>11. CASE \E lost \in DOMAIN g : f = [key \in DOMAIN g \ {lost} |-> g[key]]
  BY <1>1, <1>9, <1>11
<1>12. CASE f = [g EXCEPT !.bytes_hex = [@ EXCEPT !.body = "damaged"]]
  <2>. DEFINE j == [i EXCEPT !.body = "damaged"]
  <2>1. f.bytes_hex = j /\ f.crc32c = i.body
    BY <1>9, <1>12
  <2>2. i \in [len : Nat, body : STRING]
    BY KernelAssumption
  <2>3. j.body = "damaged"
    BY <2>2
  <2>4. i.body = "damaged"
    BY <2>1, <2>3 DEF Crc32c
  <2>5. j = i
    BY <2>2, <2>4
  <2>. QED BY <2>1, <2>5
<1>. QED BY <1>4, <1>10, <1>11, <1>12

\* The request the bridge takes up is one that was written.
LEMMA RequestFacts ==
  ASSUME LinkInv, link.toKernel # <<>>
  PROVE  FrameOK(Request.frame)
<1>1. IsSeq(link.toKernel)
  BY DEF LinkInv, Ordered
<1>2. Len(link.toKernel) \in Nat /\ Len(link.toKernel) >= 1 /\ Request = link.toKernel[1]
  BY <1>1, TailFacts DEF Request
<1>. QED BY <1>2 DEF LinkInv, LinkType

LEMMA BridgeCreateTurn ==
  ASSUME KernelInv, BornOK, BridgeCreate
  PROVE  Turn
<1>1. kernel.phase = "bridge"
  BY DEF BridgeCreate, Dispatching, Bridging
<1>2. kind = "metal" /\ Iso(kernel) /\ Phased(kernel) /\ LifeOK(kernel) /\ DOMAIN kernel = KernelFields
  BY <1>1, Metal
<1>3. PICK hw \in BOOLEAN :
        LET f == Request.frame
            r == CreateVm(kernel, FromStagedOrEmbedded(kernel, CrcWanted(f)), hw)
            told == [label |-> f.label, crc |-> CrcWanted(f)]
        IN IF r.id = None THEN Served(r.k, Error) /\ UNCHANGED born
           ELSE Served([r.k EXCEPT !.meta[r.id] = told], Created(r.id)) /\ born' = BornIn(r.id, Request.policy)
  BY DEF BridgeCreate
<1>. DEFINE f == Request.frame
            image == FromStagedOrEmbedded(kernel, CrcWanted(f))
            r == CreateVm(kernel, image, hw)
            told == [label |-> f.label, crc |-> CrcWanted(f)]
            n == [r.k EXCEPT !.meta[r.id] = told]
<1>4. /\ r.id = None => kernel' = r.k /\ born' = born
      /\ r.id # None => kernel' = n /\ born' = BornIn(r.id, Request.policy)
      /\ kind' = kind /\ boot' = boot
  BY <1>3 DEF Served
<1>5. image \in Image /\ (image = Embedded \/ told.crc = Crc32c(image))
  BY <1>2, KernelAssumption DEF FromStagedOrEmbedded, Iso
<1>. HIDE DEF image, told
<1>6. SamePhase(kernel, r.k)
  BY <1>2, PhaseFacts
<1>7. /\ r.id = None => Rest(kernel, r.k, {})
      /\ r.id # None => /\ r.id \in Slot /\ r.id \notin kernel.occupied
                        /\ Opened(kernel, r.k, r.id) /\ ImageOf(r.k, r.id) = image
                        /\ Rest(kernel, r.k, {r.id})
  BY <1>2, <1>5, CreateFacts
<1>. HIDE DEF r
<1>8. CASE r.id = None
  <2>1. Phased(kernel')
    BY <1>1, <1>4, <1>6, <1>8 DEF Phased, SamePhase
  <2>. QED BY <1>2, <1>4, <1>7, <1>8, <2>1, MetalTurn
<1>9. CASE r.id # None
  <2>1. Iso(r.k) /\ r.k.vm[r.id] # None
    BY <1>7, <1>9, VmFacts DEF Rest, Opened
  <2>2. Iso(n) /\ n.vm = r.k.vm /\ n.deleted = r.k.deleted /\ n.mem = r.k.mem /\ n.occupied = r.k.occupied
    BY <1>5, <1>7, <1>9, <2>1, TellFacts
  <2>3. n.phase = "bridge"
    BY <1>1, <1>6 DEF SamePhase, KernelFields
  <2>. HIDE DEF n
  <2>4. Rest(kernel, kernel', {r.id}) /\ Opened(kernel, kernel', r.id) /\ Phased(kernel')
    BY <1>4, <1>7, <1>9, <2>2, <2>3 DEF Rest, Opened, Kept, Phased
  <2>. QED BY <1>2, <1>4, <1>7, <1>9, <2>4, MetalTurn
<1>. QED BY <1>8, <1>9

LEMMA BridgeStartTurn ==
  ASSUME KernelInv, BornOK, BridgeStart
  PROVE  Turn
<1>1. kernel.phase = "bridge" /\ born' = born
  BY DEF BridgeStart, Dispatching, Bridging
<1>2. kind = "metal" /\ Iso(kernel) /\ Phased(kernel) /\ LifeOK(kernel) /\ DOMAIN kernel = KernelFields
  BY <1>1, Metal
<1>3. PICK hw \in BOOLEAN :
        LET id == Request.frame.vm_id
            r == EnterVm(kernel, id, hw)
        IN IF ~r.entered THEN Served(r.k, Error)
           ELSE /\ kernel' = [r.k EXCEPT !.phase = "guest", !.serving = [no |-> Request.no, id |-> id]]
                /\ link' = [link EXCEPT !.toKernel = Tail(@)]
                /\ UNCHANGED <<kind, boot, caller, host, noise, late, seen>>
  BY DEF BridgeStart
<1>. DEFINE id == Request.frame.vm_id
            r == EnterVm(kernel, id, hw)
            up == [r.k EXCEPT !.phase = "guest", !.serving = [no |-> Request.no, id |-> id]]
<1>4. kernel' = (IF r.entered THEN up ELSE r.k) /\ kind' = kind /\ boot' = boot
  BY <1>3 DEF Served
<1>. HIDE DEF id
<1>5. /\ Rest(kernel, r.k, {}) /\ SamePhase(kernel, r.k)
      /\ r.entered => Allocated(r.k, id) /\ r.k.active = id /\ r.k.vm[id].state = "running"
  BY <1>2, EnterFacts, MovedRest, PhaseFacts
<1>. HIDE DEF r
<1>6. CASE r.entered
  <2>1. /\ DOMAIN up = KernelFields /\ up.phase = "guest" /\ up.serving.id = id /\ up.active = r.k.active
        /\ \A f \in Core : up[f] = r.k[f]
    BY <1>5 DEF Rest, Iso, LifeOK, KernelFields, Core
  <2>2. kernel' = up
    BY <1>4, <1>6
  <2>. HIDE DEF up
  <2>3. Rest(kernel, kernel', {}) /\ kernel'.vm = r.k.vm
    BY <1>5, <2>1, <2>2, RestCore
  <2>4. Phased(kernel')
    BY <1>5, <1>6, <2>1, <2>2, <2>3 DEF Phased, Allocated
  <2>. QED BY <1>1, <1>2, <1>4, <2>3, <2>4, MetalTurn
<1>7. CASE ~r.entered
  <2>1. kernel' = r.k /\ Phased(r.k)
    BY <1>1, <1>4, <1>5, <1>7 DEF SamePhase, Phased
  <2>. QED BY <1>1, <1>2, <1>4, <1>5, <2>1, MetalTurn
<1>. QED BY <1>6, <1>7

LEMMA BridgeOtherTurn ==
  ASSUME LinkInv, KernelInv, BornOK,
         BridgeReject \/ BridgeStop \/ BridgeDelete \/ BridgeList \/ BridgeImageLoad
  PROVE  Turn
<1>1. kernel.phase = "bridge" /\ link.toKernel # <<>>
  BY DEF BridgeReject, BridgeStop, BridgeDelete, BridgeList, BridgeImageLoad, Dispatching, Bridging
<1>2. kind = "metal" /\ Iso(kernel) /\ Phased(kernel) /\ LifeOK(kernel) /\ DOMAIN kernel = KernelFields
  BY <1>1, Metal
<1>3. Rest(kernel, kernel, {})
  BY <1>2, CoreKept, MovedRest
<1>4. ASSUME NEW k, NEW reply, Served(k, reply), SamePhase(kernel, k),
             \/ born' = born /\ Rest(kernel, k, {})
             \/ \E id \in Slot : born' = Gone(id) /\ Rest(kernel, k, {id}) /\ Shut(kernel, k, id)
      PROVE  Turn
  <2>1. kernel' = k /\ kind' = kind /\ boot' = boot
    BY <1>4 DEF Served
  <2>2. Phased(kernel')
    BY <1>1, <1>4, <2>1 DEF SamePhase, Phased
  <2>. QED BY <1>2, <1>4, <2>1, <2>2, MetalTurn
<1>5. CASE BridgeReject
  BY <1>2, <1>3, <1>4, <1>5, PhaseFacts DEF BridgeReject
<1>6. CASE BridgeList
  BY <1>2, <1>3, <1>4, <1>6, PhaseFacts DEF BridgeList
<1>7. CASE BridgeStop
  <2>. DEFINE r == StopVm(kernel, Request.frame.vm_id)
  <2>1. Rest(kernel, r.k, {}) /\ SamePhase(kernel, r.k)
    BY <1>2, <1>3, StopFacts, MovedRest, PhaseFacts DEF StopVm
  <2>2. PICK reply : Served(r.k, reply) /\ born' = born
    BY <1>7 DEF BridgeStop
  <2>. QED BY <1>4, <2>1, <2>2
<1>8. CASE BridgeImageLoad
  <2>. DEFINE f == Request.frame
              r == StageFromHex(kernel, f.bytes_hex, f.len, f.crc32c)
  <2>1. FrameOK(f) /\ Decodes(f) /\ f.op = "image_load"
    BY <1>1, <1>8, RequestFacts DEF BridgeImageLoad, Dispatching
  <2>2. Crc32c(f.bytes_hex) = f.crc32c => f.bytes_hex \in Image
    BY <2>1, HexFacts
  <2>3. Rest(kernel, r.k, {}) /\ SamePhase(kernel, r.k)
    BY <1>2, <2>2, StageFacts, PhaseFacts
  <2>4. PICK reply : Served(r.k, reply) /\ born' = born
    BY <1>8 DEF BridgeImageLoad
  <2>. QED BY <1>4, <2>3, <2>4
<1>9. CASE BridgeDelete
  <2>. DEFINE id == Request.frame.vm_id
              r == DeleteVm(kernel, id)
  <2>1. PICK reply : Served(r.k, reply) /\ born' = IF r.ok THEN Gone(id) ELSE born
    BY <1>9 DEF BridgeDelete
  <2>2. /\ SamePhase(kernel, r.k)
        /\ r.ok => id \in Slot /\ Shut(kernel, r.k, id) /\ Rest(kernel, r.k, {id})
        /\ ~r.ok => Rest(kernel, r.k, {})
    BY <1>2, DeleteFacts, PhaseFacts
  <2>. HIDE DEF r, id
  <2>. QED BY <1>4, <2>1, <2>2
<1>. QED BY <1>5, <1>6, <1>7, <1>8, <1>9

---------------------------------------------------------------------------
(* The loopback kernel. *)

\* What a request does to its slots, by the reply it has.
LEMMA LoopbackFacts ==
  ASSUME NEW k, LifeOK(k), k.deleted = {}, NEW f, FrameOK(f), "op" \in DOMAIN f, NEW r, r = Loopback(k, f)
  PROVE  /\ LifeOK(r.k) /\ r.k.deleted = {}
         /\ \/ /\ r.reply = None \/ r.reply.reply \notin {"created", "deleted"}
               /\ \A s \in Slot : Kept(k, r.k, s)
            \/ \E id \in Slot : /\ r.reply = Created(id) /\ r.reply # None
                                /\ Opened(k, r.k, id) /\ \A s \in Slot : s # id => Kept(k, r.k, s)
            \/ \E id \in Slot : /\ r.reply = Deleted(id) /\ r.reply # None
                                /\ Shut(k, r.k, id) /\ \A s \in Slot : s # id => Kept(k, r.k, s)
<1>1. f.op \in Ops
  BY FrameFacts
<1>2. \A s \in Slot : Kept(k, k, s)
  BY DEF Kept
<1>3. ASSUME r = [k |-> k, reply |-> None]
      PROVE  LifeOK(r.k) /\ r.k.deleted = {} /\ r.reply = None /\ \A s \in Slot : Kept(k, r.k, s)
  BY <1>2, <1>3
<1>4. \A id \in Slot : Created(id) # None /\ Deleted(id) # None
  <2>1. \A id \in Slot : /\ Created(id) \in [reply : {"created", "deleted"}, vm_id : Nat]
                         /\ Deleted(id) \in [reply : {"created", "deleted"}, vm_id : Nat]
    BY VmFacts DEF Created, Deleted
  <2>. QED BY <2>1, WireAssumption
<1>5. CASE f.op = "create"
  <2>. DEFINE free == {s \in Slot : k.vm[s] = None}
              id == Min(free)
              n == VmSet(k, id, NewVm(0, 0))
              told == [label |-> f.label, crc |-> CrcWanted(f)]
              m == [n EXCEPT !.meta[id] = told]
  <2>1. \/ r = [k |-> k, reply |-> None]
        \/ free # {} /\ r = [k |-> m, reply |-> Created(id)]
    BY <1>5 DEF Loopback, VmSet
  <2>2. CASE free # {} /\ r = [k |-> m, reply |-> Created(id)]
    <3>1. id \in free
      BY <2>2, FirstFree
    <3>2. id \in Slot /\ k.vm[id] = None
      BY <3>1
    <3>. HIDE DEF id, told
    <3>3. /\ NewVm(0, 0) \in VmEntry /\ NewVm(0, 0).state = "created" /\ NewVm(0, 0).exit = None
      BY DEF NewVm, VmEntry, VmState
    <3>4. /\ DOMAIN n = KernelFields /\ \A g \in KernelFields \ {"vm"} : n[g] = k[g]
          /\ DOMAIN n.vm = Slot /\ n.vm[id] = NewVm(0, 0) /\ \A s \in Slot : s # id => n.vm[s] = k.vm[s]
      BY <3>2, VmSetFields
    <3>5. n.deleted = {} /\ n.meta = k.meta
      BY <3>4 DEF KernelFields
    <3>. HIDE DEF n
    <3>6. DOMAIN m = KernelFields /\ m.vm = n.vm /\ m.deleted = {} /\ DOMAIN m.meta = Slot
      BY <3>4, <3>5 DEF KernelFields, LifeOK
    <3>. HIDE DEF m
    <3>7. LifeOK(m)
      BY <3>3, <3>4, <3>6 DEF LifeOK
    <3>8. Opened(k, m, id) /\ \A s \in Slot : s # id => Kept(k, m, s)
      BY <3>2, <3>3, <3>4, <3>6 DEF Opened, Kept
    <3>9. r.k = m /\ r.reply = Created(id) /\ r.reply # None
      BY <1>4, <2>2, <3>2
    <3>. QED BY <3>2, <3>6, <3>7, <3>8, <3>9
  <2>. QED BY <1>3, <2>1, <2>2
<1>6. CASE f.op = "start"
  <2>. DEFINE id == f.vm_id
              w == [k.vm[id] EXCEPT !.state = "halted", !.exit = EXIT_REASON_HLT]
              n == VmSet(k, id, w)
  <2>1. \/ r = [k |-> k, reply |-> None]
        \/ Allocated(k, id) /\ k.vm[id].state = "created" /\ r = [k |-> n, reply |-> StateIs(n, id)]
    BY <1>6 DEF Loopback, VmSet
  <2>2. CASE Allocated(k, id) /\ k.vm[id].state = "created" /\ r = [k |-> n, reply |-> StateIs(n, id)]
    <3>1. id \in Slot /\ k.vm[id] # None /\ k.vm[id] \in VmEntry
      BY <2>2 DEF Allocated, LifeOK
    <3>2. VmMove(k.vm[id], w)
      <4>1. /\ w \in VmEntry /\ w.state = "halted" /\ w.exit = EXIT_REASON_HLT /\ w.vmcs = k.vm[id].vmcs
            /\ w.pml4 = k.vm[id].pml4
        BY <3>1 DEF VmEntry, VmState, Terminal, EXIT_REASON_HLT
      <4>. QED BY <2>2, <4>1 DEF VmMove
    <3>. HIDE DEF w
    <3>3. Moved(k, n)
      BY <3>1, <3>2, VmSetMoves
    <3>4. r.k = n /\ r.reply.reply = "state"
      BY <2>2 DEF StateIs
    <3>. HIDE DEF n
    <3>5. LifeOK(n) /\ n.deleted = {} /\ \A s \in Slot : Kept(k, n, s)
      BY <3>3, LifeMoved DEF Moved, LifeOK
    <3>. QED BY <3>4, <3>5
  <2>. QED BY <1>3, <2>1, <2>2
<1>7. CASE f.op = "stop"
  <2>. DEFINE id == f.vm_id
              n == Stop(k, id)
  <2>1. \/ r = [k |-> k, reply |-> None]
        \/ Allocated(k, id) /\ r = [k |-> n, reply |-> StateIs(n, id)]
    BY <1>7 DEF Loopback
  <2>2. CASE Allocated(k, id) /\ r = [k |-> n, reply |-> StateIs(n, id)]
    <3>1. Moved(k, n)
      BY <2>2, StopFacts
    <3>2. r.k = n /\ r.reply.reply = "state"
      BY <2>2 DEF StateIs
    <3>. HIDE DEF n
    <3>3. LifeOK(n) /\ n.deleted = {} /\ \A s \in Slot : Kept(k, n, s)
      BY <3>1, LifeMoved DEF Moved, LifeOK
    <3>. QED BY <3>2, <3>3
  <2>. QED BY <1>3, <2>1, <2>2
<1>8. CASE f.op = "delete"
  <2>. DEFINE id == f.vm_id
              n == VmSet(k, id, None)
  <2>1. \/ r = [k |-> k, reply |-> None]
        \/ Allocated(k, id) /\ k.vm[id].state \in Terminal /\ r = [k |-> n, reply |-> Deleted(id)]
    BY <1>8 DEF Loopback, VmSet
  <2>2. CASE Allocated(k, id) /\ k.vm[id].state \in Terminal /\ r = [k |-> n, reply |-> Deleted(id)]
    <3>1. id \in Slot /\ k.vm[id] # None
      BY <2>2 DEF Allocated
    <3>2. /\ DOMAIN n = KernelFields /\ \A g \in KernelFields \ {"vm"} : n[g] = k[g]
          /\ DOMAIN n.vm = Slot /\ n.vm[id] = None /\ \A s \in Slot : s # id => n.vm[s] = k.vm[s]
      BY <3>1, VmSetFields
    <3>3. n.deleted = {} /\ n.meta = k.meta
      BY <3>2 DEF KernelFields
    <3>4. r.k = n /\ r.reply = Deleted(id) /\ r.reply # None
      BY <1>4, <2>2, <3>1
    <3>. HIDE DEF n, id
    <3>5. LifeOK(n)
      BY <3>2, <3>3 DEF LifeOK
    <3>6. Shut(k, n, id) /\ \A s \in Slot : s # id => Kept(k, n, s)
      BY <2>2, <3>1, <3>2, <3>3 DEF Shut, Kept
    <3>. QED BY <3>1, <3>3, <3>4, <3>5, <3>6
  <2>. QED BY <1>3, <2>1, <2>2
<1>9. CASE f.op = "list"
  <2>1. r.k = k /\ r.reply.reply = "listed"
    BY <1>9 DEF Loopback, Rows, ListedRows
  <2>. QED BY <1>2, <2>1
<1>10. CASE f.op = "image_load"
  <2>1. r.k = k /\ (r.reply = None \/ r.reply.reply = "image_loaded")
    BY <1>10 DEF Loopback, ImageLoaded
  <2>. QED BY <1>2, <2>1
<1>. QED BY <1>1, <1>5, <1>6, <1>7, <1>8, <1>9, <1>10 DEF Ops

LEMMA EmulatorTurn ==
  ASSUME LinkInv, KernelInv, BornOK, EmulatorServe
  PROVE  Turn
<1>1. kernel.phase = "emulator" /\ link.toKernel # <<>> /\ kind' = kind /\ boot' = boot
  BY DEF EmulatorServe
<1>2. kind # "metal" /\ LifeOK(kernel) /\ kernel.deleted = {}
  BY <1>1 DEF KernelInv, Phased
<1>. DEFINE f == Request.frame
            r == IF Readable(f) THEN Loopback(kernel, f) ELSE [k |-> kernel, reply |-> None]
<1>3. /\ kernel' = r.k
      /\ born' = IF r.reply = None THEN born
                 ELSE IF r.reply.reply = "created" THEN BornIn(r.reply.vm_id, Request.policy)
                 ELSE IF r.reply.reply = "deleted" THEN Gone(r.reply.vm_id) ELSE born
  BY DEF EmulatorServe
<1>4. FrameOK(f)
  BY <1>1, RequestFacts
<1>5. /\ LifeOK(r.k) /\ r.k.deleted = {} /\ r.k.phase = "emulator"
      /\ \/ /\ r.reply = None \/ r.reply.reply \notin {"created", "deleted"}
            /\ \A s \in Slot : Kept(kernel, r.k, s)
         \/ \E id \in Slot : /\ r.reply = Created(id) /\ r.reply # None
                             /\ Opened(kernel, r.k, id) /\ \A s \in Slot : s # id => Kept(kernel, r.k, s)
         \/ \E id \in Slot : /\ r.reply = Deleted(id) /\ r.reply # None
                             /\ Shut(kernel, r.k, id) /\ \A s \in Slot : s # id => Kept(kernel, r.k, s)
  <2>1. CASE Readable(f)
    <3>1. "op" \in DOMAIN f /\ r = Loopback(kernel, f)
      BY <2>1 DEF Readable
    <3>2. DOMAIN kernel = KernelFields
      BY <1>2 DEF LifeOK
    <3>3. r.k.phase = "emulator"
      BY <1>1, <1>4, <3>1, <3>2, LoopbackPhase DEF SamePhase
    <3>. HIDE DEF r, f
    <3>. QED BY <1>2, <1>4, <3>1, <3>3, LoopbackFacts
  <2>2. CASE ~Readable(f)
    BY <1>1, <1>2, <2>2 DEF Kept
  <2>. QED BY <2>1, <2>2
<1>. HIDE DEF r
<1>6. KernelInv'
  BY <1>1, <1>2, <1>3, <1>5 DEF KernelInv
<1>7. DOMAIN born' = Slot /\ \A s \in Slot : SlotStep(s)
  <2>1. CASE (r.reply = None \/ r.reply.reply \notin {"created", "deleted"}) /\ \A s \in Slot : Kept(kernel, r.k, s)
    <3>1. born' = born
      BY <1>3, <2>1
    <3>. QED BY <1>3, <2>1, <3>1 DEF SlotStep, BornOK
  <2>2. ASSUME NEW id \in Slot, r.reply = Created(id), r.reply # None,
               Opened(kernel, r.k, id), \A s \in Slot : s # id => Kept(kernel, r.k, s)
        PROVE  DOMAIN born' = Slot /\ \A s \in Slot : SlotStep(s)
    <3>1. born' = BornIn(id, Request.policy)
      BY <1>3, <2>2 DEF Created
    <3>2. /\ DOMAIN BornIn(id, Request.policy) = Slot
          /\ BornIn(id, Request.policy)[id] = [gen |-> born[id].gen + 1, policy |-> Request.policy, live |-> TRUE]
          /\ \A s \in Slot : s # id => BornIn(id, Request.policy)[s] = born[s]
      BY BornFacts
    <3>3. ASSUME NEW s \in Slot PROVE SlotStep(s)
      <4>1. CASE s = id
        BY <1>2, <1>3, <2>2, <3>1, <3>2, <4>1 DEF SlotStep
      <4>2. CASE s # id
        BY <1>3, <2>2, <3>1, <3>2, <4>2 DEF SlotStep
      <4>. QED BY <4>1, <4>2
    <3>. QED BY <3>1, <3>2, <3>3
  <2>3. ASSUME NEW id \in Slot, r.reply = Deleted(id), r.reply # None,
               Shut(kernel, r.k, id), \A s \in Slot : s # id => Kept(kernel, r.k, s)
        PROVE  DOMAIN born' = Slot /\ \A s \in Slot : SlotStep(s)
    <3>1. born' = Gone(id)
      BY <1>3, <2>3 DEF Deleted
    <3>2. /\ DOMAIN born' = Slot
          /\ DOMAIN born'[id] = BornFields /\ ~born'[id].live
          /\ born'[id].gen = born[id].gen /\ born'[id].policy = born[id].policy
          /\ \A s \in Slot : s # id => born'[s] = born[s]
      BY <3>1, BornFacts
    <3>3. ASSUME NEW s \in Slot PROVE SlotStep(s)
      <4>1. CASE s = id
        BY <1>3, <2>3, <3>2, <4>1 DEF SlotStep
      <4>2. CASE s # id
        BY <1>3, <2>3, <3>2, <4>2 DEF SlotStep
      <4>. QED BY <4>1, <4>2
    <3>. QED BY <3>2, <3>3
  <2>. QED BY <1>5, <2>1, <2>2, <2>3
<1>. QED BY <1>1, <1>2, <1>6, <1>7 DEF Turn

---------------------------------------------------------------------------
(* The kernel's invariant. *)

LEMMA InitKernel == Init => KernelInv /\ BornOK
<1>. SUFFICES ASSUME Init PROVE KernelInv /\ BornOK
  OBVIOUS
<1>1. PICK p \in Program : kind = p.kind /\ boot = p.boot
  BY DEF Init
<1>2. kind \in {"metal", "emulator"} /\ boot.boot_image \in Image
  BY <1>1, HostAssumption
<1>3. /\ DOMAIN kernel = KernelFields /\ kernel.vm = [s \in Slot |-> None] /\ kernel.deleted = {}
      /\ kernel.vmxon = 0 /\ kernel.mem = <<>> /\ kernel.staged = None /\ kernel.occupied = {}
      /\ kernel.meta = [s \in Slot |-> NoMeta]
      /\ kernel.phase = IF kind = "metal" THEN "start" ELSE "emulator"
  BY DEF Init, PowerOn, KernelFields
<1>4. LifeOK(kernel)
  BY <1>3 DEF LifeOK
<1>5. MemOK(<<>>)
  BY EmptyFacts DEF MemOK
<1>6. Iso(kernel)
  BY <1>3, <1>4, <1>5, EmptyFacts DEF Iso
<1>7. KernelInv
  BY <1>2, <1>3, <1>4, <1>6 DEF KernelInv, Phased
<1>8. BornOK
  <2>1. born = [s \in Slot |-> Unborn] /\ DOMAIN Unborn = BornFields /\ Unborn.gen = 0 /\ ~Unborn.live
    BY DEF Init, Unborn, BornFields
  <2>. QED BY <1>3, <2>1 DEF BornOK
<1>. QED BY <1>7, <1>8

LEMMA BornTurn ==
  ASSUME KernelInv, BornOK, Turn
  PROVE  BornOK'
<1>1. ASSUME NEW s \in Slot
      PROVE  /\ DOMAIN born'[s] = BornFields /\ born'[s].gen \in Nat
             /\ born'[s].live <=> (kernel'.vm[s] # None /\ s \notin kernel'.deleted)
             /\ kernel'.vm[s] # None => born'[s].gen > 0
             /\ kind' = "metal" /\ born'[s].gen > 0 => s \in kernel'.occupied
  <2>1. CASE Kept(kernel, kernel', s) /\ born'[s] = born[s]
    <3>1. kernel'.vm[s] # None <=> kernel.vm[s] # None
      BY <2>1, VmFacts DEF Kept, VmMove
    <3>. QED BY <2>1, <3>1 DEF BornOK, Kept, Turn
  <2>2. CASE /\ Opened(kernel, kernel', s)
             /\ \E policy : born'[s] = [gen |-> born[s].gen + 1, policy |-> policy, live |-> TRUE]
    <3>1. kernel'.vm[s] # None /\ s \notin kernel'.deleted
      BY <2>2, VmFacts DEF Opened
    <3>2. kind' = "metal" => s \in kernel'.occupied
      BY <3>1 DEF Turn, KernelInv, Iso, Housed
    <3>3. DOMAIN born'[s] = BornFields /\ born'[s].gen \in Nat /\ born'[s].live /\ born'[s].gen > 0
      <4>1. PICK policy : born'[s] = [gen |-> born[s].gen + 1, policy |-> policy, live |-> TRUE]
        BY <2>2
      <4>2. born[s].gen \in Nat
        BY DEF BornOK
      <4>. QED BY <4>1, <4>2 DEF BornFields
    <3>. QED BY <3>1, <3>2, <3>3
  <2>3. CASE /\ Shut(kernel, kernel', s) /\ DOMAIN born'[s] = BornFields /\ ~born'[s].live
             /\ born'[s].gen = born[s].gen /\ born'[s].policy = born[s].policy
    <3>1. ~(kernel'.vm[s] # None /\ s \notin kernel'.deleted) /\ kernel.vm[s] # None
      BY <2>3 DEF Shut
    <3>. QED BY <2>3, <3>1 DEF BornOK, Turn
  <2>. QED BY <2>1, <2>2, <2>3 DEF Turn, SlotStep
<1>. QED BY <1>1 DEF BornOK, Turn

\* A step that leaves the kernel alone.
LEMMA QuietTurn ==
  ASSUME KernelInv, BornOK, UNCHANGED <<kind, boot, kernel, born>>
  PROVE  Turn
<1>1. KernelInv' /\ DOMAIN born' = Slot
  BY DEF KernelInv, BornOK, Phased
<1>2. \A s \in Slot : SlotStep(s)
  BY DEF SlotStep, Kept
<1>3. kind = "metal" => Grown(kernel.mem, kernel'.mem)
  BY GrownFacts DEF KernelInv, Iso
<1>. QED BY <1>1, <1>2, <1>3 DEF Turn

LEMMA HostQuiet ==
  ASSUME HostStep
  PROVE  UNCHANGED <<kind, boot, kernel, born>>
  BY DEF HostStep, Write, Return, ReadLine, PeerClosed, TimeOut, Got, Conclude, Local, OnHost

LEMMA NextTurn ==
  ASSUME LinkInv, KernelInv, BornOK, [Next]_vars
  PROVE  Turn
<1>1. CASE BootStart \/ BootCreate \/ BootLaunch \/ BootFinish
  BY <1>1, BootStartTurn, BootCreateTurn, BootLaunchTurn, BootFinishTurn
<1>2. CASE GuestExit
  BY <1>2, GuestExitTurn
<1>3. CASE BridgeReject \/ BridgeStop \/ BridgeDelete \/ BridgeList \/ BridgeImageLoad
  BY <1>3, BridgeOtherTurn
<1>4. CASE BridgeStart \/ BridgeCreate
  BY <1>4, BridgeStartTurn, BridgeCreateTurn
<1>5. CASE EmulatorServe
  BY <1>5, EmulatorTurn
<1>6. CASE HostStep
  BY <1>6, HostQuiet, QuietTurn
<1>7. CASE UNCHANGED vars
  BY <1>7, QuietTurn DEF vars
<1>. QED BY <1>1, <1>2, <1>3, <1>4, <1>5, <1>6, <1>7 DEF Next, KernelStep, Finished

\* The kernel's invariant holds throughout.
THEOREM KernelInvariance == Spec => [](KernelInv /\ BornOK)
<1>1. LinkInv /\ KernelInv /\ BornOK /\ [Next]_vars => (KernelInv /\ BornOK)'
  <2>. SUFFICES ASSUME LinkInv, KernelInv, BornOK, [Next]_vars PROVE (KernelInv /\ BornOK)'
    OBVIOUS
  <2>1. Turn
    BY NextTurn
  <2>. QED BY <2>1, BornTurn DEF Turn
<1>. QED BY <1>1, InitKernel, LinkInvariance, PTL DEF Spec

\* Guests reach neither each other nor the hypervisor, and hold the image they were created
\* with, however creations fail and images are staged in between (map_4k, install_first_guest,
\* create_vm, from_staged_or_embedded).
THEOREM IsolationCorrect == Spec => []GuestsIsolated
<1>1. KernelInv => GuestsIsolated
  BY Isolation DEF KernelInv
<1>. QED BY <1>1, KernelInvariance, PTL

---------------------------------------------------------------------------
(* The life cycle of a slot. *)

LEMMA ImageKnown ==
  ASSUME kind = "metal", Iso(kernel), NEW s \in Slot, kernel.vm[s] # None
  PROVE  ImageAt(s) = ImageOf(kernel, s) /\ ImageAt(s) \in Image
<1>1. Housed(kernel, s) /\ kernel.vm[s].pml4 \in Nat /\ kernel.vmxon \in Nat
  BY VmFacts DEF Iso, LifeOK
<1>2. kernel.vm[s].pml4 \in Nat \ {0} /\ Built(kernel.mem, kernel.vm[s].pml4, ImageOf(kernel, s))
  BY <1>1 DEF Housed
<1>3. Translate(kernel.mem, kernel.vm[s].pml4, GUEST_LOAD_PAGE) = kernel.vm[s].pml4 + 1
  BY <1>2, BuiltFacts
<1>. QED BY <1>1, <1>3 DEF ImageAt, ImageOf, Housed


\* The image of a slot that keeps its VM stays: frames are only added.
LEMMA ImageStays ==
  ASSUME KernelInv, Turn, NEW s \in Slot, kernel.vm[s] # None, Kept(kernel, kernel', s), kind = "metal"
  PROVE  ImageAt(s)' = ImageAt(s)
<1>1. Iso(kernel) /\ Iso(kernel') /\ kind' = "metal" /\ Grown(kernel.mem, kernel'.mem)
  BY DEF KernelInv, Turn
<1>2. kernel'.vm[s] # None /\ kernel'.vm[s].pml4 = kernel.vm[s].pml4
  BY VmFacts DEF Kept, VmMove
<1>3. ImageAt(s) = ImageOf(kernel, s) /\ ImageAt(s)' = ImageOf(kernel', s)
  <2>1. ImageAt(s) = ImageOf(kernel, s)
    BY <1>1, ImageKnown
  <2>2. (kind = "metal" /\ Iso(kernel) /\ kernel.vm[s] # None => ImageAt(s) = ImageOf(kernel, s))'
    BY ImageKnown, PTL
  <2>. QED BY <1>1, <1>2, <2>1, <2>2
<1>4. kernel.vm[s].pml4 + 1 \in 1..Len(kernel.mem)
  <2>1. Housed(kernel, s) /\ kernel.vm[s].pml4 \in Nat /\ Len(kernel.mem) \in Nat
    BY <1>1, VmFacts, AppendFacts DEF Iso, LifeOK, MemOK
  <2>. QED BY <2>1 DEF Housed
<1>. QED BY <1>1, <1>2, <1>3, <1>4 DEF Grown, ImageOf

\* A VM's life ends.
EndedAs(m, state, exit) == [m EXCEPT !.state = state, !.exit = exit]

LEMMA EndFields ==
  ASSUME NEW a, NEW b, NEW c, NEW x, NEW y, NEW m, m = [state |-> a, exit |-> b, image |-> c]
  PROVE  EndedAs(m, x, y) = [state |-> x, exit |-> y, image |-> c]
<1>. DEFINE n == [m EXCEPT !.state = x, !.exit = y]
<1>1. m \in [state : {a}, exit : {b}, image : {c}]
  OBVIOUS
<1>2. n \in [state : {a, x}, exit : {b, y}, image : {c}] /\ n.state = x /\ n.exit = y /\ n.image = c
  BY <1>1
<1>. HIDE DEF n
<1>3. n = [state |-> n.state, exit |-> n.exit, image |-> n.image]
  BY <1>2
<1>. QED BY <1>2, <1>3 DEF n, EndedAs

\* Every step of the kernel is one of the life cycle, slot by slot.
LEMMA LifeTurn ==
  ASSUME KernelInv, Turn, NEW s \in Slot, LifeOf(s)' # LifeOf(s)
  PROVE  Lifecycle(s)!Next
<1>. DEFINE v == kernel.vm[s]
            w == kernel'.vm[s]
            img == IF kind = "metal" THEN ImageAt(s) ELSE None
            img2 == (IF kind = "metal" THEN ImageAt(s) ELSE None)'
            free == [state |-> "free", exit |-> None, image |-> None]
<1>1. /\ LifeOK(kernel) /\ LifeOK(kernel')
      /\ LifeOf(s) = IF v = None \/ s \in kernel.deleted THEN free
                     ELSE [state |-> v.state, exit |-> v.exit, image |-> img]
      /\ LifeOf(s)' = IF w = None \/ s \in kernel'.deleted THEN free
                      ELSE [state |-> w.state, exit |-> w.exit, image |-> img2]
  BY DEF KernelInv, Turn, LifeOf, Iso
<1>2. CASE Kept(kernel, kernel', s)
  <2>2. CASE v = None \/ s \in kernel.deleted
    <3>1. w = v
      BY <1>1, <1>2, <2>2 DEF Kept, VmMove, LifeOK, Terminal
    <3>. QED BY <1>1, <1>2, <2>2, <3>1 DEF Kept
  <2>3. CASE v # None /\ s \notin kernel.deleted
    <3>1. img2 = img
      BY <2>3, <1>2, ImageStays DEF Turn
    <3>. HIDE DEF img, img2
    <3>2. w # None /\ s \notin kernel'.deleted /\ LifeOf(s)' = [state |-> w.state, exit |-> w.exit, image |-> img]
          /\ LifeOf(s) = [state |-> v.state, exit |-> v.exit, image |-> img]
      BY <1>1, <1>2, <2>3, <3>1, VmFacts DEF Kept, VmMove
    <3>3. VmMove(v, w)
      BY <1>2, <3>2 DEF Kept
    <3>4. CASE v.state = "created" /\ w.state = "running" /\ w.exit = v.exit
      BY <3>2, <3>4 DEF Lifecycle!Next, Lifecycle!Start
    <3>5. CASE v.state \in {"created", "running"} /\ w.state = "halted" /\ w.exit = EXIT_REASON_HLT
      <4>1. LifeOf(s).state \in {"created", "running"} /\ LifeOf(s)' = EndedAs(LifeOf(s), "halted", EXIT_REASON_HLT)
        BY <3>2, <3>5, EndFields
      <4>. QED BY <4>1, <3>5 DEF EndedAs, Lifecycle!Next, Lifecycle!End
    <3>6. CASE v.state \in {"created", "running"} /\ w.state = "stopped" /\ w.exit = v.exit
      <4>1. LifeOf(s).state \in {"created", "running"} /\ LifeOf(s)' = [LifeOf(s) EXCEPT !.state = "stopped"]
        BY <3>2, <3>6
      <4>. QED BY <4>1, <3>6 DEF Lifecycle!Next, Lifecycle!End
    <3>7. CASE v.state \in {"created", "running"} /\ w.state = "faulted" /\ w.exit \in Reason \ {EXIT_REASON_HLT}
      <4>1. LifeOf(s).state \in {"created", "running"} /\ LifeOf(s)' = EndedAs(LifeOf(s), "faulted", w.exit)
        BY <3>2, <3>7, EndFields
      <4>. QED BY <4>1, <3>7 DEF EndedAs, Lifecycle!Next, Lifecycle!End
    <3>. QED BY <3>3, <3>4, <3>5, <3>6, <3>7 DEF VmMove
  <2>. QED BY <2>2, <2>3
<1>3. CASE Opened(kernel, kernel', s)
  <2>1. img2 \in Image \cup {None}
    <3>1. (kind = "metal" /\ Iso(kernel) /\ kernel.vm[s] # None => ImageAt(s) \in Image)'
      BY ImageKnown, PTL
    <3>. QED BY <1>3, <3>1, VmFacts DEF Turn, KernelInv, Opened
  <2>. HIDE DEF img, img2
  <2>2. LifeOf(s) = free /\ LifeOf(s)' = [state |-> "created", exit |-> None, image |-> img2]
    BY <1>1, <1>3, VmFacts DEF Opened
  <2>. QED BY <2>1, <2>2 DEF Lifecycle!Next, Lifecycle!Create, Lifecycle!Free
<1>4. CASE Shut(kernel, kernel', s)
  <2>. HIDE DEF img, img2
  <2>1. LifeOf(s).state \in Terminal /\ LifeOf(s)' = free
    BY <1>1, <1>4 DEF Shut
  <2>. QED BY <2>1 DEF Terminal, Lifecycle!Next, Lifecycle!Delete, Lifecycle!Free, Lifecycle!Terminal
<1>. QED BY <1>2, <1>3, <1>4 DEF Turn, SlotStep

\* The kernel and the loopback kernel implement the life cycle of a VM for every number of
\* slots, image and exit reason (Vm::transition, on_exit, delete_vm, apply).
THEOREM LifecycleCorrect == Spec => ImplementsLifecycle
<1>1. Init => \A s \in Slot : Lifecycle(s)!Init
  <2>. SUFFICES ASSUME Init, NEW s \in Slot PROVE Lifecycle(s)!Init
    OBVIOUS
  <2>1. kernel.vm = [t \in Slot |-> None]
    BY DEF Init, PowerOn
  <2>. QED BY <2>1 DEF LifeOf, Lifecycle!Init, Lifecycle!Free
<1>2. LinkInv /\ KernelInv /\ BornOK /\ [Next]_vars
        => [\A s \in Slot : LifeOf(s)' # LifeOf(s) => Lifecycle(s)!Next]_<<kind, kernel>>
  BY NextTurn, LifeTurn
<1>. QED BY <1>1, <1>2, KernelInvariance, LinkInvariance, PTL DEF Spec, ImplementsLifecycle

---------------------------------------------------------------------------
(* What the host is told of its VMs. *)

\* A row that says VM number gen of slot s was in that state: the slot has had it, and if it
\* is still there it has not gone back.
TrueOf(k, b, s, state, gen) ==
  /\ s \in Slot /\ gen \in Nat /\ gen > 0 /\ gen <= b[s].gen
  /\ gen = b[s].gen /\ b[s].live => Rank(state) <= Rank(k.vm[s].state)

\* VM number gen of slot s was there at that time, or came later.
Since(at, s, gen) == gen > at[s].gen \/ (gen = at[s].gen /\ at[s].live)

\* The line of an answer, and what it says: its rows are true, recent, and a VM it says was
\* created has the policy asked for.
LineOf(a) == IF a = Closed THEN Closed ELSE a.line
Telling(a, f) == LineOf(a).reply = "listed" /\ f \in LineOf(a).rows
TrueAnswer(k, b, a) ==
  \A f : Telling(a, f) => TrueOf(k, b, DecodeRow(f).vm_id, DecodeRow(f).state, a.gens[DecodeRow(f).vm_id])
FreshAnswer(at, a) ==
  \A f : Telling(a, f) => Since(at, DecodeRow(f).vm_id, a.gens[DecodeRow(f).vm_id])
OwnAnswer(b, policy, a) ==
  LineOf(a).reply = "created" =>
    LET id == LineOf(a).vm_id IN id \in Slot /\ b[id].gen > 0 /\ b[id].policy = policy

\* A slot that was given up stays so, or has a later VM.
Evolved(at, b) ==
  \A s \in Slot : at[s].gen \in Nat /\ at[s].gen <= b[s].gen /\ (b[s].live => Since(at, s, b[s].gen))

HostFields == {"labels", "policies", "snap", "at"}

Told ==
  /\ DOMAIN host = HostFields
  /\ \A i \in 1..Len(link.toHost) : TrueAnswer(kernel, born, link.toHost[i])
  /\ \A c \in Caller : caller[c].pc = "got" => TrueAnswer(kernel, born, caller[c].got)
  /\ \A r \in host.snap : TrueOf(kernel, born, r.vm_id, r.state, r.gen)

\* As long as no call has timed out, what is on its way is the answer to the caller that waits.
Fresh ==
  ~late =>
    /\ \A c \in Caller : caller[c].pc = "sent" =>
         /\ Evolved(caller[c].at, born)
         /\ \A i \in 1..Len(link.toHost) : FreshAnswer(caller[c].at, link.toHost[i])
    /\ \A c \in Caller : caller[c].pc = "got" => FreshAnswer(caller[c].at, caller[c].got)
    /\ \A r \in host.snap : Since(host.at, r.vm_id, r.gen)

\* The same of the policies, on the kernel.
Owned ==
  ~late /\ kind = "metal" =>
    /\ \A c \in Caller : caller[c].pc = "sent" =>
         /\ \A j \in 1..Len(link.toKernel) : link.toKernel[j].policy = Policy[c]
         /\ \A i \in 1..Len(link.toHost) : OwnAnswer(born, Policy[c], link.toHost[i])
    /\ \A c \in Caller : caller[c].pc = "got" => OwnAnswer(born, Policy[c], caller[c].got)
    /\ \A s \in DOMAIN host.policies : s \in Slot /\ born[s].gen > 0 /\ host.policies[s] = born[s].policy
    /\ \A r \in host.snap : r.policy \in {born[r.vm_id].policy, DefaultPolicy}


LEMMA RankFacts ==
  /\ \A x : Rank(x) \in 0..2
  /\ \A v, w : VmMove(v, w) => Rank(v.state) <= Rank(w.state)
  BY DEF Rank, VmMove, Terminal

\* What was true stays true.
LEMMA TrueTurn ==
  ASSUME KernelInv, BornOK, Turn, NEW s, NEW state, NEW gen, TrueOf(kernel, born, s, state, gen)
  PROVE  TrueOf(kernel', born', s, state, gen)
<1>1. s \in Slot /\ gen \in Nat /\ gen > 0 /\ gen <= born[s].gen /\ born[s].gen \in Nat
  BY DEF TrueOf, BornOK
<1>2. CASE Kept(kernel, kernel', s) /\ born'[s] = born[s]
  <2>1. gen = born[s].gen /\ born[s].live => Rank(state) <= Rank(kernel'.vm[s].state)
    <3>. SUFFICES ASSUME gen = born[s].gen, born[s].live PROVE Rank(state) <= Rank(kernel'.vm[s].state)
      OBVIOUS
    <3>1. Rank(state) <= Rank(kernel.vm[s].state)
      BY DEF TrueOf
    <3>2. kernel'.vm[s] = kernel.vm[s] \/ VmMove(kernel.vm[s], kernel'.vm[s])
      BY <1>2 DEF Kept
    <3>3. Rank(kernel.vm[s].state) <= Rank(kernel'.vm[s].state)
      BY <3>2, RankFacts
    <3>4. Rank(state) \in 0..2 /\ Rank(kernel.vm[s].state) \in 0..2 /\ Rank(kernel'.vm[s].state) \in 0..2
      BY RankFacts
    <3>. QED BY <3>1, <3>3, <3>4
  <2>. QED BY <1>1, <1>2, <2>1 DEF TrueOf
<1>3. CASE \E policy : born'[s] = [gen |-> born[s].gen + 1, policy |-> policy, live |-> TRUE]
  <2>1. born'[s].gen = born[s].gen + 1
    BY <1>3
  <2>. QED BY <1>1, <2>1 DEF TrueOf
<1>4. CASE ~born'[s].live /\ born'[s].gen = born[s].gen
  BY <1>1, <1>4 DEF TrueOf
<1>. QED BY <1>1, <1>2, <1>3, <1>4 DEF Turn, SlotStep

LEMMA TrueAnswerTurn ==
  ASSUME KernelInv, BornOK, Turn, NEW a, TrueAnswer(kernel, born, a)
  PROVE  TrueAnswer(kernel', born', a)
  BY TrueTurn DEF TrueAnswer

LEMMA EvolvedTurn ==
  ASSUME BornOK, Turn, NEW at, Evolved(at, born)
  PROVE  Evolved(at, born')
<1>. SUFFICES ASSUME NEW s \in Slot
              PROVE  at[s].gen \in Nat /\ at[s].gen <= born'[s].gen /\ (born'[s].live => Since(at, s, born'[s].gen))
  BY DEF Evolved
<1>1. at[s].gen \in Nat /\ born[s].gen \in Nat /\ at[s].gen <= born[s].gen
      /\ (born[s].live => Since(at, s, born[s].gen))
  BY DEF Evolved, BornOK
<1>2. CASE born'[s] = born[s]
  BY <1>1, <1>2
<1>3. CASE \E policy : born'[s] = [gen |-> born[s].gen + 1, policy |-> policy, live |-> TRUE]
  <2>1. born'[s].gen = born[s].gen + 1
    BY <1>3
  <2>. QED BY <1>1, <2>1 DEF Since
<1>4. CASE ~born'[s].live /\ born'[s].gen = born[s].gen
  BY <1>1, <1>4
<1>. QED BY <1>2, <1>3, <1>4 DEF Turn, SlotStep

\* On the kernel a slot is never used again: the policy of its VM stays.
LEMMA PolicyTurn ==
  ASSUME KernelInv, BornOK, Turn, kind = "metal", NEW s \in Slot, born[s].gen > 0
  PROVE  born'[s].gen > 0 /\ born'[s].policy = born[s].policy
<1>1. s \in kernel.occupied
  BY DEF BornOK
<1>. QED BY <1>1 DEF Turn, SlotStep

\* What the kernel writes in a step: nothing, or an answer; of a list, and of a creation.
Spoke(reply) ==
  /\ reply.reply = "listed" => reply = Rows(kernel) /\ kernel' = kernel /\ born' = born
  /\ reply.reply = "created" =>
       /\ link.toKernel # <<>>
       /\ reply.vm_id \in Slot /\ born'[reply.vm_id].gen > 0 /\ born'[reply.vm_id].policy = Request.policy
Speaks ==
  /\ UNCHANGED <<caller, host, late, kind>>
  /\ \/ link'.toHost = link.toHost
     \/ \E no, reply : Spoke(reply) /\ link'.toHost = Append(link.toHost, Answer(no, reply))
  /\ \/ link'.toKernel \in {link.toKernel, <<>>}
     \/ link.toKernel # <<>> /\ link'.toKernel = Tail(link.toKernel)

LEMMA ServedSpeaks ==
  ASSUME LinkInv, link.toKernel # <<>>, NEW k, NEW reply, Served(k, reply), reply # None => Spoke(reply)
  PROVE  Speaks
<1>. DEFINE a == Answer(Request.no, reply)
<1>1. /\ UNCHANGED <<caller, host, late, kind>>
      /\ link' = [link EXCEPT !.toKernel = Tail(@), !.toHost = IF reply = None THEN @ ELSE Append(@, a)]
  BY DEF Served
<1>. HIDE DEF a
<1>2. link'.toKernel = Tail(link.toKernel) /\ link'.toHost = IF reply = None THEN link.toHost ELSE Append(link.toHost, a)
  BY <1>1 DEF LinkInv, LinkType, LinkFields
<1>. QED BY <1>1, <1>2 DEF Speaks, a

\* Any reply that is neither a list nor a creation.
LEMMA OtherReply ==
  ASSUME NEW reply, reply.reply \notin {"listed", "created"}
  PROVE  Spoke(reply)
  BY DEF Spoke

LEMMA BridgeSpeaks ==
  ASSUME LinkInv, BornOK, \/ BridgeReject \/ BridgeStop \/ BridgeDelete \/ BridgeList \/ BridgeImageLoad
  PROVE  Speaks
<1>1. link.toKernel # <<>>
  BY DEF BridgeReject, BridgeStop, BridgeDelete, BridgeList, BridgeImageLoad, Dispatching, Bridging
<1>2. ASSUME NEW k, NEW reply, Served(k, reply), reply = None \/ reply.reply \notin {"listed", "created"}
      PROVE  Speaks
  BY <1>1, <1>2, ServedSpeaks, OtherReply
<1>3. Error.reply = "error"
  BY DEF Error
<1>4. CASE BridgeReject
  BY <1>2, <1>3, <1>4 DEF BridgeReject
<1>5. CASE BridgeStop
  <2>1. PICK k, reply : Served(k, reply) /\ reply.reply \in {"state", "error"}
    BY <1>3, <1>5 DEF BridgeStop, StateIs
  <2>. QED BY <1>2, <2>1
<1>6. CASE BridgeDelete
  <2>1. PICK k, reply : Served(k, reply) /\ reply.reply \in {"deleted", "error"}
    BY <1>3, <1>6 DEF BridgeDelete, Deleted
  <2>. QED BY <1>2, <2>1
<1>7. CASE BridgeImageLoad
  <2>1. PICK k, reply : Served(k, reply) /\ reply.reply \in {"image_loaded", "error"}
    BY <1>3, <1>7 DEF BridgeImageLoad, ImageLoaded
  <2>. QED BY <1>2, <2>1
<1>8. CASE BridgeList
  <2>1. Served(kernel, Rows(kernel)) /\ born' = born /\ kernel' = kernel
    BY <1>8 DEF BridgeList, Served
  <2>2. Rows(kernel).reply = "listed"
    BY DEF Rows, ListedRows
  <2>. QED BY <1>1, <2>1, <2>2, ServedSpeaks DEF Spoke
<1>. QED BY <1>4, <1>5, <1>6, <1>7, <1>8

LEMMA BridgeCreateSpeaks ==
  ASSUME LinkInv, KernelInv, BornOK, BridgeCreate
  PROVE  Speaks
<1>1. kernel.phase = "bridge" /\ link.toKernel # <<>>
  BY DEF BridgeCreate, Dispatching, Bridging
<1>2. kind = "metal" /\ Iso(kernel)
  BY <1>1, Metal
<1>3. PICK hw \in BOOLEAN :
        LET f == Request.frame
            r == CreateVm(kernel, FromStagedOrEmbedded(kernel, CrcWanted(f)), hw)
            told == [label |-> f.label, crc |-> CrcWanted(f)]
        IN IF r.id = None THEN Served(r.k, Error) /\ UNCHANGED born
           ELSE Served([r.k EXCEPT !.meta[r.id] = told], Created(r.id)) /\ born' = BornIn(r.id, Request.policy)
  BY DEF BridgeCreate
<1>. DEFINE image == FromStagedOrEmbedded(kernel, CrcWanted(Request.frame))
            r == CreateVm(kernel, image, hw)
<1>4. PICK k : \/ r.id = None /\ Served(k, Error)
               \/ r.id # None /\ Served(k, Created(r.id)) /\ born' = BornIn(r.id, Request.policy)
  BY <1>3
<1>5. image \in Image
  BY <1>2, KernelAssumption DEF FromStagedOrEmbedded, Iso
<1>. HIDE DEF image
<1>6. r.id # None => r.id \in Slot
  BY <1>2, <1>5, CreateFacts
<1>. HIDE DEF r
<1>7. CASE r.id = None /\ Served(k, Error)
  BY <1>1, <1>7, ServedSpeaks, OtherReply DEF Error
<1>8. CASE r.id # None /\ Served(k, Created(r.id)) /\ born' = BornIn(r.id, Request.policy)
  <2>1. born'[r.id] = [gen |-> born[r.id].gen + 1, policy |-> Request.policy, live |-> TRUE]
    BY <1>6, <1>8, BornFacts
  <2>2. born[r.id].gen \in Nat
    BY <1>6, <1>8 DEF BornOK
  <2>3. Spoke(Created(r.id))
    BY <1>1, <1>6, <1>8, <2>1, <2>2 DEF Spoke, Created
  <2>. QED BY <1>1, <1>8, <2>3, ServedSpeaks
<1>. QED BY <1>4, <1>7, <1>8

LEMMA BridgeStartSpeaks ==
  ASSUME LinkInv, BridgeStart
  PROVE  Speaks
<1>1. link.toKernel # <<>>
  BY DEF BridgeStart, Dispatching, Bridging
<1>2. \/ \E k : Served(k, Error)
      \/ link' = [link EXCEPT !.toKernel = Tail(@)] /\ UNCHANGED <<kind, caller, host, late>>
  BY DEF BridgeStart
<1>3. CASE \E k : Served(k, Error)
  BY <1>1, <1>3, ServedSpeaks, OtherReply DEF Error
<1>4. CASE link' = [link EXCEPT !.toKernel = Tail(@)] /\ UNCHANGED <<kind, caller, host, late>>
  <2>1. link'.toKernel = Tail(link.toKernel) /\ link'.toHost = link.toHost
    BY <1>4 DEF LinkInv, LinkType, LinkFields
  <2>. QED BY <1>1, <1>4, <2>1 DEF Speaks
<1>. QED BY <1>2, <1>3, <1>4

LEMMA GuestExitSpeaks ==
  ASSUME LinkInv, GuestExit
  PROVE  Speaks
<1>1. UNCHANGED <<kind, caller, host, late>>
  BY DEF GuestExit
<1>2. \/ link' = link
      \/ \E no, k, id : link' = [link EXCEPT !.toHost = Append(@, Answer(no, StateIs(k, id)))]
  <2>. DEFINE run == kernel.serving
  <2>1. PICK o \in Outcome :
          LET k == [Ended(kernel, run.id, o) EXCEPT !.phase = IF run.no = 0 THEN "drain" ELSE "bridge", !.serving = None]
          IN link' = IF run.no = 0 THEN link
                     ELSE [link EXCEPT !.toHost = Append(@, Answer(run.no, StateIs(k, run.id)))]
    BY DEF GuestExit
  <2>. DEFINE k == [Ended(kernel, run.id, o) EXCEPT !.phase = IF run.no = 0 THEN "drain" ELSE "bridge", !.serving = None]
              no == run.no
              id == run.id
  <2>2. link' = IF no = 0 THEN link ELSE [link EXCEPT !.toHost = Append(@, Answer(no, StateIs(k, id)))]
    BY <2>1
  <2>. HIDE DEF k, no, id
  <2>. QED BY <2>2
<1>3. CASE link' = link
  BY <1>1, <1>3 DEF Speaks
<1>4. ASSUME NEW no, NEW k, NEW id, link' = [link EXCEPT !.toHost = Append(@, Answer(no, StateIs(k, id)))]
      PROVE  Speaks
  <2>. DEFINE a == Answer(no, StateIs(k, id))
  <2>1. link' = [link EXCEPT !.toHost = Append(@, a)]
    BY <1>4
  <2>. HIDE DEF a
  <2>2. link'.toKernel = link.toKernel /\ link'.toHost = Append(link.toHost, a)
    BY <2>1 DEF LinkInv, LinkType, LinkFields
  <2>3. Spoke(StateIs(k, id))
    BY OtherReply DEF StateIs
  <2>. QED BY <1>1, <2>2, <2>3 DEF Speaks, a
<1>. QED BY <1>2, <1>3, <1>4

LEMMA LoopbackSays ==
  ASSUME NEW k, NEW f, f.op \in Ops, NEW r, r = Loopback(k, f), r.reply # None, r.reply.reply = "listed"
  PROVE  r.k = k /\ r.reply = Rows(k)
<1>1. CASE f.op = "list"
  BY <1>1 DEF Loopback
<1>2. CASE f.op = "create"
  <2>1. r.reply.reply = "created"
    BY <1>2 DEF Loopback, Created
  <2>. QED BY <2>1
<1>3. CASE f.op = "start"
  <2>1. r.reply.reply = "state"
    BY <1>3 DEF Loopback, StateIs
  <2>. QED BY <2>1
<1>4. CASE f.op = "stop"
  <2>1. r.reply.reply = "state"
    BY <1>4 DEF Loopback, StateIs
  <2>. QED BY <2>1
<1>5. CASE f.op = "delete"
  <2>1. r.reply.reply = "deleted"
    BY <1>5 DEF Loopback, Deleted
  <2>. QED BY <2>1
<1>6. CASE f.op = "image_load"
  <2>1. r.reply.reply = "image_loaded"
    BY <1>6 DEF Loopback, ImageLoaded
  <2>. QED BY <2>1
<1>. QED BY <1>1, <1>2, <1>3, <1>4, <1>5, <1>6 DEF Ops

LEMMA EmulatorSpeaks ==
  ASSUME LinkInv, KernelInv, BornOK, EmulatorServe
  PROVE  Speaks
<1>1. kernel.phase = "emulator" /\ link.toKernel # <<>> /\ UNCHANGED <<kind, caller, host, late>>
  BY DEF EmulatorServe
<1>2. LifeOK(kernel) /\ kernel.deleted = {}
  BY <1>1 DEF KernelInv, Phased
<1>. DEFINE f == Request.frame
            r == IF Readable(f) THEN Loopback(kernel, f) ELSE [k |-> kernel, reply |-> None]
            a == Answer(Request.no, r.reply)
<1>3. /\ kernel' = r.k
      /\ link' = [link EXCEPT !.open = r.reply # None, !.toKernel = IF r.reply = None THEN <<>> ELSE Tail(@),
                              !.toHost = IF r.reply = None THEN @ ELSE Append(@, a)]
      /\ born' = IF r.reply = None THEN born
                 ELSE IF r.reply.reply = "created" THEN BornIn(r.reply.vm_id, Request.policy)
                 ELSE IF r.reply.reply = "deleted" THEN Gone(r.reply.vm_id) ELSE born
  BY DEF EmulatorServe
<1>4. FrameOK(f)
  BY <1>1, RequestFacts
<1>5. ASSUME r.reply # None
      PROVE  /\ r.reply.reply = "listed" => r.k = kernel /\ r.reply = Rows(kernel)
             /\ r.reply.reply = "created" => r.reply.vm_id \in Slot
  <2>1. Readable(f) /\ r = Loopback(kernel, f)
    BY <1>5
  <2>2. "op" \in DOMAIN f
    BY <2>1 DEF Readable
  <2>3. f.op \in Ops
    BY <1>4, <2>2, FrameFacts
  <2>. HIDE DEF r, f
  <2>4. r.reply.reply = "listed" => r.k = kernel /\ r.reply = Rows(kernel)
    BY <1>5, <2>1, <2>3, LoopbackSays
  <2>5. \/ r.reply.reply \notin {"created", "deleted"}
        \/ \E id \in Slot : r.reply = Created(id)
        \/ \E id \in Slot : r.reply = Deleted(id)
    BY <1>2, <1>4, <1>5, <2>1, <2>2, LoopbackFacts
  <2>6. \A id : Created(id).vm_id = id /\ Deleted(id).reply = "deleted"
    BY DEF Created, Deleted
  <2>. QED BY <2>4, <2>5, <2>6
<1>. HIDE DEF r, a
<1>6. /\ link'.toHost = IF r.reply = None THEN link.toHost ELSE Append(link.toHost, a)
      /\ link'.toKernel = IF r.reply = None THEN <<>> ELSE Tail(link.toKernel)
  BY <1>3 DEF LinkInv, LinkType, LinkFields
<1>7. CASE r.reply = None
  BY <1>1, <1>6, <1>7 DEF Speaks
<1>8. CASE r.reply # None
  <2>1. Spoke(r.reply)
    <3>1. CASE r.reply.reply = "created"
      <4>1. r.reply.vm_id \in Slot /\ born' = BornIn(r.reply.vm_id, Request.policy)
        BY <1>3, <1>5, <1>8, <3>1
      <4>2. born'[r.reply.vm_id] = [gen |-> born[r.reply.vm_id].gen + 1, policy |-> Request.policy, live |-> TRUE]
        BY <4>1, BornFacts
      <4>3. born[r.reply.vm_id].gen \in Nat
        BY <4>1 DEF BornOK
      <4>. QED BY <1>1, <3>1, <4>1, <4>2, <4>3 DEF Spoke
    <3>2. CASE r.reply.reply = "listed"
      BY <1>3, <1>5, <1>8, <3>2 DEF Spoke
    <3>. QED BY <3>1, <3>2, OtherReply
  <2>. QED BY <1>1, <1>6, <1>8, <2>1 DEF Speaks, a
<1>. QED BY <1>7, <1>8

LEMMA KernelSpeaks ==
  ASSUME LinkInv, KernelInv, BornOK, KernelStep
  PROVE  Speaks
<1>1. CASE BootStart \/ BootCreate \/ BootLaunch \/ BootFinish
  BY <1>1 DEF BootStart, BootCreate, BootLaunch, BootFinish, OnBoot, Speaks
<1>. QED BY <1>1, BridgeSpeaks, BridgeCreateSpeaks, BridgeStartSpeaks, GuestExitSpeaks, EmulatorSpeaks
         DEF KernelStep

---------------------------------------------------------------------------
(* What the host is told stays true. *)

\* The rows of a list, as the host decodes them.
LEMMA RowFacts ==
  ASSUME NEW k, LifeOK(k), NEW f \in Rows(k).rows
  PROVE  \E s \in Listed(k) : DecodeRow(f).vm_id = s /\ DecodeRow(f).state = k.vm[s].state
<1>1. PICK s \in Listed(k) : f = EncodeRow(RowOf(k, s))
  BY DEF Rows, ListedRows, BuildRows
<1>. DEFINE row == RowOf(k, s)
<1>2. /\ "vm_id" \in DOMAIN row /\ row["vm_id"] = s /\ "state" \in DOMAIN row /\ row["state"] = k.vm[s].state
  BY DEF RowOf
<1>3. s \in Slot /\ k.vm[s] \in VmEntry
  BY DEF Listed, LifeOK
<1>4. s # None /\ k.vm[s].state # None
  <2>1. k.vm[s].state \in {"created", "running", "halted", "stopped", "faulted"}
    BY <1>3, VmFacts
  <2>2. \A x \in {"created", "running", "halted", "stopped", "faulted"} : x # None
    BY KernelAssumption DEF VmState, Terminal
  <2>3. s # None
    BY <1>3, VmFacts
  <2>. QED BY <2>1, <2>2, <2>3
<1>5. f = EncodeRow(row)
  BY <1>1
<1>. HIDE DEF row
<1>6. "vm_id" \in DOMAIN f /\ f["vm_id"] = s /\ "state" \in DOMAIN f /\ f["state"] = k.vm[s].state
  BY <1>2, <1>4, <1>5 DEF EncodeRow
<1>7. DecodeRow(f)["vm_id"] = s /\ DecodeRow(f)["state"] = k.vm[s].state
  BY <1>6 DEF DecodeRow
<1>. QED BY <1>7

\* The answers the kernel has written: the ones before, and one more at most.
LEMMA AnswerFacts ==
  ASSUME NEW no, NEW reply
  PROVE  /\ LineOf(Answer(no, reply)) = reply
         /\ \A s \in Slot : Answer(no, reply).gens[s] = born[s].gen
<1>1. Answer(no, reply) # Closed
  <2>1. "of" \in DOMAIN Answer(no, reply) /\ "of" \notin DOMAIN Closed
    BY DEF Answer, Closed
  <2>. QED BY <2>1
<1>. QED BY <1>1 DEF LineOf, Answer

LEMMA ListFacts ==
  ASSUME KernelInv, BornOK, NEW no, NEW reply, Spoke(reply), NEW f, Telling(Answer(no, reply), f)
  PROVE  /\ kernel' = kernel /\ born' = born
         /\ \E s \in Slot : /\ DecodeRow(f).vm_id = s /\ DecodeRow(f).state = kernel.vm[s].state
                            /\ Answer(no, reply).gens[s] = born[s].gen
                            /\ born[s].live /\ born[s].gen \in Nat /\ born[s].gen > 0
<1>1. reply.reply = "listed" /\ f \in reply.rows
  BY AnswerFacts DEF Telling
<1>2. reply = Rows(kernel) /\ kernel' = kernel /\ born' = born
  BY <1>1 DEF Spoke
<1>3. LifeOK(kernel)
  BY DEF KernelInv, Iso
<1>4. PICK s \in Listed(kernel) : DecodeRow(f).vm_id = s /\ DecodeRow(f).state = kernel.vm[s].state
  BY <1>1, <1>2, <1>3, RowFacts
<1>5. s \in Slot /\ kernel.vm[s] # None /\ s \notin kernel.deleted
  BY DEF Listed
<1>6. born[s].live /\ born[s].gen \in Nat /\ born[s].gen > 0
  BY <1>5 DEF BornOK
<1>. QED BY <1>2, <1>4, <1>5, <1>6, AnswerFacts

LEMMA SentFacts ==
  ASSUME LinkInv, Speaks
  PROVE  /\ \A i \in 1..Len(link'.toHost) :
              \/ i \in 1..Len(link.toHost) /\ link'.toHost[i] = link.toHost[i]
              \/ \E no, reply : Spoke(reply) /\ link'.toHost[i] = Answer(no, reply)
         /\ \A j \in 1..Len(link'.toKernel) : \E l \in 1..Len(link.toKernel) : link'.toKernel[j] = link.toKernel[l]
<1>1. IsSeq(link.toHost) /\ IsSeq(link.toKernel)
  BY DEF LinkInv, Ordered
<1>3. ASSUME NEW no, NEW reply, Spoke(reply), link'.toHost = Append(link.toHost, Answer(no, reply)),
             NEW i \in 1..Len(link'.toHost)
      PROVE  \/ i \in 1..Len(link.toHost) /\ link'.toHost[i] = link.toHost[i]
             \/ Spoke(reply) /\ link'.toHost[i] = Answer(no, reply)
  <2>. DEFINE a == Answer(no, reply)
  <2>1. link'.toHost = Append(link.toHost, a)
    BY <1>3
  <2>. HIDE DEF a
  <2>2. /\ Len(link.toHost) \in Nat /\ Len(link'.toHost) = Len(link.toHost) + 1
        /\ \A m \in 1..Len(link.toHost) : link'.toHost[m] = link.toHost[m]
        /\ link'.toHost[Len(link.toHost) + 1] = a
    BY <1>1, <2>1, AppendFacts
  <2>3. i \in 1..Len(link.toHost) \/ i = Len(link.toHost) + 1
    BY <2>2
  <2>. QED BY <1>3, <2>2, <2>3 DEF a
<1>4. \A j \in 1..Len(link'.toKernel) : \E l \in 1..Len(link.toKernel) : link'.toKernel[j] = link.toKernel[l]
  <2>1. CASE link'.toKernel = link.toKernel
    BY <2>1
  <2>2. CASE link'.toKernel = <<>>
    BY <2>2, EmptyFacts
  <2>3. CASE link.toKernel # <<>> /\ link'.toKernel = Tail(link.toKernel)
    <3>1. /\ Len(link.toKernel) \in Nat /\ Len(link'.toKernel) = Len(link.toKernel) - 1
          /\ \A j \in 1..Len(link'.toKernel) : link'.toKernel[j] = link.toKernel[j + 1]
      BY <1>1, <2>3, TailFacts
    <3>2. \A j \in 1..Len(link'.toKernel) : j + 1 \in 1..Len(link.toKernel)
      BY <3>1
    <3>. QED BY <3>1, <3>2
  <2>. QED BY <2>1, <2>2, <2>3 DEF Speaks
<1>5. ASSUME \E no, reply : Spoke(reply) /\ link'.toHost = Append(link.toHost, Answer(no, reply))
      PROVE  \A i \in 1..Len(link'.toHost) :
               \/ i \in 1..Len(link.toHost) /\ link'.toHost[i] = link.toHost[i]
               \/ \E no, reply : Spoke(reply) /\ link'.toHost[i] = Answer(no, reply)
  <2>1. PICK no, reply : Spoke(reply) /\ link'.toHost = Append(link.toHost, Answer(no, reply))
    BY <1>5
  <2>2. \A i \in 1..Len(link'.toHost) :
          \/ i \in 1..Len(link.toHost) /\ link'.toHost[i] = link.toHost[i]
          \/ Spoke(reply) /\ link'.toHost[i] = Answer(no, reply)
    BY <1>3, <2>1
  <2>. QED BY <2>2
<1>. QED BY <1>4, <1>5 DEF Speaks

LEMMA ToldKernel ==
  ASSUME LinkInv, KernelInv, BornOK, Turn, Speaks, Told
  PROVE  Told'
<1>1. UNCHANGED <<caller, host, late, kind>>
  BY DEF Speaks
<1>2. ASSUME NEW i \in 1..Len(link'.toHost) PROVE TrueAnswer(kernel', born', link'.toHost[i])
  <2>1. CASE i \in 1..Len(link.toHost) /\ link'.toHost[i] = link.toHost[i]
    BY <2>1, TrueAnswerTurn DEF Told
  <2>2. ASSUME NEW no, NEW reply, Spoke(reply), link'.toHost[i] = Answer(no, reply)
        PROVE  TrueAnswer(kernel', born', link'.toHost[i])
    <3>. SUFFICES ASSUME NEW f, Telling(Answer(no, reply), f)
                  PROVE  TrueOf(kernel', born', DecodeRow(f).vm_id, DecodeRow(f).state,
                                Answer(no, reply).gens[DecodeRow(f).vm_id])
      BY <2>2 DEF TrueAnswer
    <3>1. kernel' = kernel /\ born' = born
      BY <2>2, ListFacts
    <3>2. PICK s \in Slot : /\ DecodeRow(f).vm_id = s /\ DecodeRow(f).state = kernel.vm[s].state
                            /\ Answer(no, reply).gens[s] = born[s].gen
                            /\ born[s].live /\ born[s].gen \in Nat /\ born[s].gen > 0
      BY <2>2, ListFacts
    <3>3. TrueOf(kernel, born, s, kernel.vm[s].state, born[s].gen)
      BY <3>2, RankFacts DEF TrueOf
    <3>. QED BY <3>1, <3>2, <3>3
  <2>. QED BY <2>1, <2>2, SentFacts
<1>3. ASSUME NEW c \in Caller, caller'[c].pc = "got" PROVE TrueAnswer(kernel', born', caller'[c].got)
  BY <1>1, <1>3, TrueAnswerTurn DEF Told
<1>4. ASSUME NEW r \in host'.snap PROVE TrueOf(kernel', born', r.vm_id, r.state, r.gen)
  BY <1>1, TrueTurn DEF Told
<1>. QED BY <1>1, <1>2, <1>3, <1>4 DEF Told

LEMMA FreshKernel ==
  ASSUME LinkInv, KernelInv, BornOK, Turn, Speaks, Fresh
  PROVE  Fresh'
<1>1. UNCHANGED <<caller, host, late, kind>>
  BY DEF Speaks
<1>. SUFFICES ASSUME ~late PROVE Fresh'
  BY <1>1 DEF Fresh
<1>2. ASSUME NEW c \in Caller, caller[c].pc = "sent"
      PROVE  /\ Evolved(caller[c].at, born')
             /\ \A i \in 1..Len(link'.toHost) : FreshAnswer(caller[c].at, link'.toHost[i])
  <2>. DEFINE at == caller[c].at
  <2>1. Evolved(at, born) /\ \A i \in 1..Len(link.toHost) : FreshAnswer(at, link.toHost[i])
    BY <1>2 DEF Fresh
  <2>. HIDE DEF at
  <2>2. Evolved(at, born')
    BY <2>1, EvolvedTurn
  <2>3. ASSUME NEW no, NEW reply, Spoke(reply) PROVE FreshAnswer(at, Answer(no, reply))
    <3>. SUFFICES ASSUME NEW f, Telling(Answer(no, reply), f)
                  PROVE  Since(at, DecodeRow(f).vm_id, Answer(no, reply).gens[DecodeRow(f).vm_id])
      BY DEF FreshAnswer
    <3>1. PICK s \in Slot : /\ DecodeRow(f).vm_id = s /\ Answer(no, reply).gens[s] = born[s].gen
                            /\ born[s].live
      BY <2>3, ListFacts
    <3>. QED BY <2>1, <3>1 DEF Evolved
  <2>4. \A i \in 1..Len(link'.toHost) : FreshAnswer(at, link'.toHost[i])
    BY <2>1, <2>3, SentFacts
  <2>. QED BY <2>2, <2>4 DEF at
<1>. QED BY <1>1, <1>2 DEF Fresh

LEMMA OwnedKernel ==
  ASSUME LinkInv, KernelInv, BornOK, Turn, Speaks, Told, Owned
  PROVE  Owned'
<1>1. UNCHANGED <<caller, host, late, kind>>
  BY DEF Speaks
<1>. SUFFICES ASSUME ~late, kind = "metal" PROVE Owned'
  BY <1>1 DEF Owned
<1>2. ASSUME NEW policy, NEW a, OwnAnswer(born, policy, a) PROVE OwnAnswer(born', policy, a)
  BY <1>2, PolicyTurn DEF OwnAnswer
<1>3. ASSUME NEW c \in Caller, caller[c].pc = "sent"
      PROVE  /\ \A j \in 1..Len(link'.toKernel) : link'.toKernel[j].policy = Policy[c]
             /\ \A i \in 1..Len(link'.toHost) : OwnAnswer(born', Policy[c], link'.toHost[i])
  <2>1. /\ \A j \in 1..Len(link.toKernel) : link.toKernel[j].policy = Policy[c]
        /\ \A i \in 1..Len(link.toHost) : OwnAnswer(born, Policy[c], link.toHost[i])
    BY <1>3 DEF Owned
  <2>2. \A j \in 1..Len(link'.toKernel) : link'.toKernel[j].policy = Policy[c]
    BY <2>1, SentFacts
  <2>3. ASSUME NEW no, NEW reply, Spoke(reply) PROVE OwnAnswer(born', Policy[c], Answer(no, reply))
    <3>. SUFFICES ASSUME reply.reply = "created"
                  PROVE  reply.vm_id \in Slot /\ born'[reply.vm_id].gen > 0 /\ born'[reply.vm_id].policy = Policy[c]
      BY AnswerFacts DEF OwnAnswer
    <3>1. link.toKernel # <<>> /\ IsSeq(link.toKernel)
      BY <2>3 DEF Spoke, LinkInv, Ordered
    <3>2. Request = link.toKernel[1] /\ 1 \in 1..Len(link.toKernel)
      BY <3>1, TailFacts DEF Request
    <3>. QED BY <2>1, <2>3, <3>2 DEF Spoke
  <2>4. \A i \in 1..Len(link'.toHost) : OwnAnswer(born', Policy[c], link'.toHost[i])
    BY <1>2, <2>1, <2>3, SentFacts
  <2>. QED BY <2>2, <2>4
<1>4. ASSUME NEW c \in Caller, caller[c].pc = "got" PROVE OwnAnswer(born', Policy[c], caller[c].got)
  BY <1>2, <1>4 DEF Owned
<1>5. \A s \in DOMAIN host.policies : s \in Slot /\ born'[s].gen > 0 /\ host.policies[s] = born'[s].policy
  BY PolicyTurn DEF Owned
<1>6. ASSUME NEW r \in host.snap PROVE r.policy \in {born'[r.vm_id].policy, DefaultPolicy}
  <2>1. r.vm_id \in Slot /\ born[r.vm_id].gen > 0
    <3>1. TrueOf(kernel, born, r.vm_id, r.state, r.gen)
      BY DEF Told
    <3>2. r.vm_id \in Slot /\ r.gen \in Nat /\ r.gen > 0 /\ r.gen <= born[r.vm_id].gen
      BY <3>1 DEF TrueOf
    <3>3. born[r.vm_id].gen \in Nat
      BY <3>2 DEF BornOK
    <3>. QED BY <3>2, <3>3
  <2>. QED BY <2>1, PolicyTurn DEF Owned
<1>. QED BY <1>1, <1>3, <1>4, <1>5, <1>6 DEF Owned

\* An answer that is not there says nothing.
LEMMA ClosedSays ==
  /\ \A k, b : TrueAnswer(k, b, Closed)
  /\ \A at : FreshAnswer(at, Closed)
  /\ \A b, policy : OwnAnswer(b, policy, Closed)
<1>1. LineOf(Closed).reply = "closed"
  BY DEF LineOf, Closed
<1>. QED BY <1>1 DEF TrueAnswer, FreshAnswer, OwnAnswer, Telling

LEMMA WriteTold ==
  ASSUME LinkInv, BornOK, NEW c \in Caller, Write(c), Told, Fresh, Owned
  PROVE  Told' /\ Fresh' /\ Owned'
<1>. DEFINE K == link.toKernel
            no == link.sent + 1
<1>1. link.lock = None /\ UNCHANGED <<host, late, kind, kernel, born>>
  BY DEF Write, MayWrite, OnHost
<1>2. PICK frame, sent :
        /\ link' = [link EXCEPT !.lock = c, !.sent = no,
                      !.toKernel = IF link.open THEN Append(@, [no |-> no, frame |-> sent, policy |-> Policy[c]]) ELSE @]
        /\ caller' = [caller EXCEPT ![c] = [@ EXCEPT !.pc = "sent", !.no = no, !.frame = frame, !.at = born]]
  BY DEF Write
<1>. DEFINE r == [no |-> no, frame |-> sent, policy |-> Policy[c]]
            q == [caller[c] EXCEPT !.pc = "sent", !.no = no, !.frame = frame, !.at = born]
<1>3. r.policy = Policy[c] /\ q.pc = "sent" /\ q.at = born
  BY DEF LinkInv, LinkType, CallerFields
<1>4. /\ link' = [link EXCEPT !.lock = c, !.sent = no, !.toKernel = IF link.open THEN Append(@, r) ELSE @]
      /\ caller' = [caller EXCEPT ![c] = q]
  BY <1>2
<1>. HIDE DEF r, q
<1>5. caller'[c] = q /\ \A x \in Caller \ {c} : caller'[x] = caller[x]
  BY <1>4 DEF LinkInv, LinkType
<1>6. link'.toHost = link.toHost /\ link'.toKernel \in {K, Append(K, r)}
  BY <1>4 DEF LinkInv, LinkType, LinkFields
<1>7. Told'
  BY <1>1, <1>3, <1>5, <1>6 DEF Told
<1>8. \A x \in Caller \ {c} : caller[x].pc # "sent"
  BY <1>1, HostAssumption DEF LinkInv
<1>9. ~late => /\ \A i \in 1..Len(link'.toHost) : FALSE
               /\ \A j \in 1..Len(link'.toKernel) : link'.toKernel[j] = r
  <2>. SUFFICES ASSUME ~late PROVE /\ \A i \in 1..Len(link'.toHost) : FALSE
                                   /\ \A j \in 1..Len(link'.toKernel) : link'.toKernel[j] = r
    OBVIOUS
  <2>1. link.toHost = <<>> /\ K = <<>>
    BY <1>1 DEF LinkInv
  <2>2. Len(<<>>) = 0 /\ Len(Append(<<>>, r)) = 1 /\ Append(<<>>, r)[1] = r
    BY EmptyFacts, AppendFacts
  <2>. QED BY <1>6, <2>1, <2>2
<1>10. Evolved(born, born)
  BY DEF Evolved, Since, BornOK
<1>11. Fresh'
  BY <1>1, <1>3, <1>5, <1>8, <1>9, <1>10 DEF Fresh
<1>12. Owned'
  BY <1>1, <1>3, <1>5, <1>8, <1>9 DEF Owned
<1>. QED BY <1>7, <1>11, <1>12

\* A call is over: the caller has an answer that is as good as those on their way, and what is
\* left on its way is no worse.
LEMMA GotTold ==
  ASSUME LinkInv, NEW c \in Caller, caller[c].pc = "sent", NEW answer, NEW rest, Got(c, answer, rest),
         Told, Fresh, Owned, late => late',
         \A i \in 1..Len(rest) : TrueAnswer(kernel, born, rest[i]),
         TrueAnswer(kernel, born, answer),
         ~late' => FreshAnswer(caller[c].at, answer) /\ (kind = "metal" => OwnAnswer(born, Policy[c], answer))
  PROVE  Told' /\ Fresh' /\ Owned'
<1>. DEFINE q == [caller[c] EXCEPT !.pc = "got", !.got = answer]
<1>1. q.pc = "got" /\ q.got = answer /\ q.at = caller[c].at
  BY DEF LinkInv, LinkType, CallerFields
<1>2. /\ caller' = [caller EXCEPT ![c] = q] /\ link' = [link EXCEPT !.lock = None, !.toHost = rest]
      /\ UNCHANGED <<host, kind, kernel, born>>
  BY DEF Got, OnHost
<1>. HIDE DEF q
<1>3. caller'[c] = q /\ \A x \in Caller \ {c} : caller'[x] = caller[x] /\ caller[x].pc # "sent"
  BY <1>2, OnlyWaiter DEF LinkInv, LinkType
<1>4. link'.toHost = rest
  BY <1>2 DEF LinkInv, LinkType, LinkFields
<1>5. Told'
  BY <1>1, <1>2, <1>3, <1>4 DEF Told
<1>6. Fresh'
  BY <1>1, <1>2, <1>3, <1>4 DEF Fresh
<1>7. Owned'
  BY <1>1, <1>2, <1>3, <1>4 DEF Owned
<1>. QED BY <1>5, <1>6, <1>7

LEMMA ReturnTold ==
  ASSUME LinkInv, NEW c \in Caller, Return(c), Told, Fresh, Owned
  PROVE  Told' /\ Fresh' /\ Owned'
<1>. DEFINE H == link.toHost
<1>1. IsSeq(H)
  BY DEF LinkInv, Ordered
<1>2. CASE ReadLine(c)
  <2>1. caller[c].pc = "sent" /\ H # <<>> /\ Got(c, Head(H), Tail(H)) /\ late' = late
    BY <1>2 DEF ReadLine
  <2>2. /\ Len(H) \in Nat /\ Head(H) = H[1] /\ 1 \in 1..Len(H)
        /\ \A i \in 1..Len(Tail(H)) : Tail(H)[i] = H[i + 1] /\ i + 1 \in 1..Len(H)
    BY <1>1, <2>1, TailFacts
  <2>3. /\ \A i \in 1..Len(Tail(H)) : TrueAnswer(kernel, born, Tail(H)[i])
        /\ TrueAnswer(kernel, born, Head(H))
    BY <2>2 DEF Told
  <2>4. ~late => FreshAnswer(caller[c].at, Head(H)) /\ (kind = "metal" => OwnAnswer(born, Policy[c], Head(H)))
    BY <2>1, <2>2 DEF Fresh, Owned
  <2>. QED BY <2>1, <2>3, <2>4, GotTold
<1>3. CASE PeerClosed(c)
  <2>1. caller[c].pc = "sent" /\ Got(c, Closed, <<>>) /\ late' = late
    BY <1>3 DEF PeerClosed
  <2>. QED BY <2>1, GotTold, ClosedSays, EmptyFacts
<1>4. CASE TimeOut(c)
  <2>. DEFINE e == [Head(H) EXCEPT !.line = Closed]
  <2>1. caller[c].pc = "sent" /\ late'
    BY <1>4 DEF TimeOut, Expires
  <2>2. PICK rest : /\ Got(c, Closed, rest)
                    /\ \/ rest = H
                       \/ H # <<>> /\ rest = <<e>> \o Tail(H)
    BY <1>4 DEF TimeOut
  <2>3. \A i \in 1..Len(rest) : TrueAnswer(kernel, born, rest[i])
    <3>1. CASE rest = H
      BY <3>1 DEF Told
    <3>2. CASE H # <<>> /\ rest = <<e>> \o Tail(H)
      <4>1. Head(H) = H[1] /\ 1 \in 1..Len(H)
        BY <1>1, <3>2, TailFacts
      <4>2. DOMAIN e = AnswerFields /\ e.of = Head(H).of /\ e.line = Closed
        BY <4>1 DEF LinkInv, LinkType, AnswerFields
      <4>. HIDE DEF e
      <4>3. \A i \in 1..Len(rest) : rest[i] = e \/ (i \in 1..Len(H) /\ rest[i] = H[i])
        BY <3>2, <4>2, OrderedSpoil DEF LinkInv
      <4>4. LineOf(e) = Closed /\ Closed.reply = "closed"
        BY <4>2 DEF LineOf, Closed
      <4>5. TrueAnswer(kernel, born, e)
        BY <4>4 DEF TrueAnswer, Telling
      <4>. QED BY <4>3, <4>5 DEF Told
    <3>. QED BY <2>2, <3>1, <3>2
  <2>. QED BY <2>1, <2>2, <2>3, GotTold, ClosedSays
<1>. QED BY <1>2, <1>3, <1>4 DEF Return

\* The rows a snapshot publishes say what the answer says.
LEMMA PublishedFacts ==
  ASSUME NEW h, NEW a, LineOf(a).reply = "listed", NEW r \in Published(h, a)
  PROVE  \E f : /\ Telling(a, f) /\ r.vm_id = DecodeRow(f).vm_id /\ r.state = DecodeRow(f).state
                /\ r.gen = a.gens[DecodeRow(f).vm_id]
                /\ r.policy = Lookup(h.policies, r.vm_id, DefaultPolicy)
<1>1. LineOf(a) = a.line
  BY DEF LineOf, Closed
<1>2. PICK f \in a.line.rows :
        LET row == DecodeRow(f) IN
        r = [vm_id |-> row.vm_id, state |-> row.state, gen |-> a.gens[row.vm_id],
             label |-> IF row.label.len = 0 THEN Lookup(h.labels, row.vm_id, NoLabel) ELSE row.label,
             policy |-> Lookup(h.policies, row.vm_id, DefaultPolicy)]
  BY DEF Published
<1>3. Telling(a, f)
  BY <1>1 DEF Telling
<1>4. /\ r.vm_id = DecodeRow(f).vm_id /\ r.state = DecodeRow(f).state /\ r.gen = a.gens[DecodeRow(f).vm_id]
      /\ r.policy = Lookup(h.policies, DecodeRow(f).vm_id, DefaultPolicy)
  BY <1>2
<1>. QED BY <1>3, <1>4

\* What the host adapter does with an answer.
LEMMA ConcludeHost ==
  ASSUME DOMAIN host = HostFields, NEW c \in Caller, Conclude(c)
  PROVE  /\ DOMAIN host' = HostFields
         /\ LET a == caller[c].got IN
            \/ host' = host
            \/ /\ LineOf(a).reply = "created" /\ host'.snap = host.snap /\ host'.at = host.at
               /\ host'.policies = SetIn(host.policies, LineOf(a).vm_id, Policy[c])
            \/ /\ host'.snap = host.snap /\ host'.at = host.at
               /\ \E id : host'.policies = Without(host.policies, id)
            \/ /\ host'.policies = host.policies /\ host'.at = caller[c].at
               /\ host'.snap = IF LineOf(a).reply = "listed" THEN Published(host, a) ELSE {}
<1>. DEFINE me == caller[c]
            line == LineOf(me.got)
            snap == IF line.reply = "listed" THEN Published(host, me.got) ELSE {}
<1>1. host' = CASE Op(c) = "create" /\ line.reply = "created" -> Remember(host, line.vm_id, me.frame.label, Policy[c])
                [] Op(c) = "delete" /\ line.reply = "deleted" -> Forget(host, line.vm_id)
                [] Op(c) = "snapshot" -> [host EXCEPT !.at = me.at, !.snap = snap]
                [] OTHER -> host
  BY DEF Conclude, LineOf
<1>. HIDE DEF snap, me, line
<1>2. CASE Op(c) = "create" /\ line.reply = "created"
  <2>1. host' = Remember(host, line.vm_id, me.frame.label, Policy[c])
    BY <1>1, <1>2
  <2>2. /\ DOMAIN host' = HostFields /\ host'.snap = host.snap /\ host'.at = host.at
        /\ host'.policies = SetIn(host.policies, line.vm_id, Policy[c])
    BY <2>1 DEF Remember, HostFields
  <2>. QED BY <1>2, <2>2 DEF me, line
<1>3. CASE Op(c) = "delete" /\ line.reply = "deleted"
  <2>1. host' = Forget(host, line.vm_id)
    BY <1>1, <1>3
  <2>2. /\ DOMAIN host' = HostFields /\ host'.snap = host.snap /\ host'.at = host.at
        /\ host'.policies = Without(host.policies, line.vm_id)
    BY <2>1 DEF Forget, HostFields
  <2>. QED BY <2>2
<1>4. CASE Op(c) = "snapshot"
  <2>1. host' = [host EXCEPT !.at = me.at, !.snap = snap]
    BY <1>1, <1>4
  <2>2. /\ DOMAIN host' = HostFields /\ host'.snap = snap /\ host'.at = me.at
        /\ host'.policies = host.policies
    BY <2>1 DEF HostFields
  <2>. QED BY <2>2 DEF me, line, snap
<1>5. CASE /\ ~(Op(c) = "create" /\ line.reply = "created") /\ ~(Op(c) = "delete" /\ line.reply = "deleted")
           /\ Op(c) # "snapshot"
  BY <1>1, <1>5
<1>. QED BY <1>2, <1>3, <1>4, <1>5

LEMMA ConcludeTold ==
  ASSUME LinkInv, NEW c \in Caller, Conclude(c), Told, Fresh, Owned
  PROVE  Told' /\ Fresh' /\ Owned'
<1>. DEFINE q == Idle(Tail(caller[c].todo))
            a == caller[c].got
<1>1. caller[c].pc = "got" /\ Done(c) /\ UNCHANGED <<link, late, kind, kernel, born>>
  BY DEF Conclude, OnHost
<1>2. caller' = [caller EXCEPT ![c] = q] /\ q.pc = "idle"
  BY <1>1 DEF Done, Idle
<1>. HIDE DEF q
<1>3. caller'[c] = q /\ \A x \in Caller \ {c} : caller'[x] = caller[x]
  BY <1>2 DEF LinkInv, LinkType
<1>4. TrueAnswer(kernel, born, a)
  BY <1>1 DEF Told
<1>5. ~late => FreshAnswer(caller[c].at, a)
  BY <1>1 DEF Fresh
<1>6. ~late /\ kind = "metal" => OwnAnswer(born, Policy[c], a)
  BY <1>1 DEF Owned
<1>. HIDE DEF a
<1>7. /\ DOMAIN host' = HostFields
      /\ \/ host' = host
         \/ /\ LineOf(a).reply = "created" /\ host'.snap = host.snap /\ host'.at = host.at
            /\ host'.policies = SetIn(host.policies, LineOf(a).vm_id, Policy[c])
         \/ /\ host'.snap = host.snap /\ host'.at = host.at
            /\ \E id : host'.policies = Without(host.policies, id)
         \/ /\ host'.policies = host.policies /\ host'.at = caller[c].at
            /\ host'.snap = IF LineOf(a).reply = "listed" THEN Published(host, a) ELSE {}
  BY ConcludeHost DEF Told, a
<1>8. ASSUME NEW r \in host'.snap, r \notin host.snap \/ host'.at # host.at
      PROVE  /\ TrueOf(kernel, born, r.vm_id, r.state, r.gen)
             /\ ~late => Since(host'.at, r.vm_id, r.gen)
             /\ r.policy = Lookup(host.policies, r.vm_id, DefaultPolicy)
  <2>1. LineOf(a).reply = "listed" /\ r \in Published(host, a) /\ host'.at = caller[c].at
    BY <1>7, <1>8
  <2>2. PICK f : /\ Telling(a, f) /\ r.vm_id = DecodeRow(f).vm_id /\ r.state = DecodeRow(f).state
                 /\ r.gen = a.gens[DecodeRow(f).vm_id]
                 /\ r.policy = Lookup(host.policies, r.vm_id, DefaultPolicy)
    BY <2>1, PublishedFacts
  <2>. QED BY <1>4, <1>5, <2>1, <2>2 DEF TrueAnswer, FreshAnswer
<1>9. Told'
  <2>1. \A r \in host'.snap : TrueOf(kernel, born, r.vm_id, r.state, r.gen)
    BY <1>8 DEF Told
  <2>. QED BY <1>1, <1>2, <1>3, <1>7, <2>1 DEF Told
<1>10. Fresh'
  <2>1. ~late => \A r \in host'.snap : Since(host'.at, r.vm_id, r.gen)
    BY <1>8 DEF Fresh
  <2>. QED BY <1>1, <1>2, <1>3, <2>1 DEF Fresh
<1>11. ASSUME ~late, kind = "metal"
       PROVE  \A s \in DOMAIN host'.policies : s \in Slot /\ born[s].gen > 0 /\ host'.policies[s] = born[s].policy
  <2>1. \A s \in DOMAIN host.policies : s \in Slot /\ born[s].gen > 0 /\ host.policies[s] = born[s].policy
    BY <1>11 DEF Owned
  <2>2. CASE LineOf(a).reply = "created" /\ host'.policies = SetIn(host.policies, LineOf(a).vm_id, Policy[c])
    BY <1>6, <1>11, <2>1, <2>2 DEF OwnAnswer, SetIn
  <2>3. CASE \E id : host'.policies = Without(host.policies, id)
    BY <2>1, <2>3 DEF Without
  <2>4. CASE host'.policies = host.policies
    BY <2>1, <2>4
  <2>. QED BY <1>7, <2>2, <2>3, <2>4
<1>12. Owned'
  <2>1. ASSUME ~late, kind = "metal", NEW r \in host'.snap
        PROVE  r.policy \in {born[r.vm_id].policy, DefaultPolicy}
    <3>1. CASE r \in host.snap
      BY <2>1, <3>1 DEF Owned
    <3>2. CASE r \notin host.snap
      BY <1>8, <2>1, <3>2 DEF Owned, Lookup
    <3>. QED BY <3>1, <3>2
  <2>. QED BY <1>1, <1>2, <1>3, <1>11, <2>1 DEF Owned
<1>. QED BY <1>9, <1>10, <1>12

LEMMA LocalTold ==
  ASSUME LinkInv, NEW c \in Caller, Local(c), Told, Fresh, Owned
  PROVE  Told' /\ Fresh' /\ Owned'
<1>. DEFINE q == Idle(Tail(caller[c].todo))
<1>1. Done(c) /\ UNCHANGED <<link, late, kind, kernel, born, host>>
  BY DEF Local, OnHost
<1>2. caller' = [caller EXCEPT ![c] = q] /\ q.pc = "idle"
  BY <1>1 DEF Done, Idle
<1>. HIDE DEF q
<1>3. caller'[c] = q /\ \A x \in Caller \ {c} : caller'[x] = caller[x]
  BY <1>2 DEF LinkInv, LinkType
<1>. QED BY <1>1, <1>2, <1>3 DEF Told, Fresh, Owned

LEMMA InitTold == Init => Told /\ Fresh /\ Owned
<1>. SUFFICES ASSUME Init PROVE Told /\ Fresh /\ Owned
  OBVIOUS
<1>1. /\ host = [labels |-> <<>>, policies |-> <<>>, snap |-> {}, at |-> <<>>]
      /\ link = [lock |-> None, toKernel |-> <<>>, toHost |-> <<>>, open |-> TRUE, sent |-> 0]
      /\ \A c \in Caller : caller[c].pc = "idle"
  BY DEF Init, Idle
<1>2. DOMAIN host = HostFields /\ host.policies = <<>> /\ host.snap = {} /\ link.toHost = <<>>
  BY <1>1 DEF HostFields
<1>3. DOMAIN host.policies = {}
  BY <1>2
<1>. QED BY <1>1, <1>2, <1>3, EmptyFacts DEF Told, Fresh, Owned

\* What the host is told is true throughout.
THEOREM ToldInvariance == Spec => [](Told /\ Fresh /\ Owned)
<1>1. LinkInv /\ KernelInv /\ BornOK /\ Told /\ Fresh /\ Owned /\ [Next]_vars => (Told /\ Fresh /\ Owned)'
  <2>. SUFFICES ASSUME LinkInv, KernelInv, BornOK, Told, Fresh, Owned, [Next]_vars
                PROVE  Told' /\ Fresh' /\ Owned'
    OBVIOUS
  <2>1. CASE KernelStep
    <3>1. Turn /\ Speaks
      BY <2>1, NextTurn, KernelSpeaks DEF Next
    <3>. QED BY <3>1, ToldKernel, FreshKernel, OwnedKernel
  <2>2. CASE HostStep
    BY <2>2, WriteTold, ReturnTold, ConcludeTold, LocalTold DEF HostStep
  <2>3. CASE UNCHANGED vars
    BY <2>3 DEF vars, Told, Fresh, Owned
  <2>. QED BY <2>1, <2>2, <2>3 DEF Next, Finished
<1>. QED BY <1>1, InitTold, LinkInvariance, KernelInvariance, PTL DEF Spec

\* A published row was true of a VM the slot has had, that VM has not gone back since, it was
\* there when the snapshot was asked for or came later, and the row has the policy its creator
\* asked for or the default one (snapshot, remember, forget).
THEOREM SnapshotCorrect == Spec => []SnapshotWasTrue
<1>1. Told /\ Fresh /\ Owned => SnapshotWasTrue
  BY DEF Told, Fresh, Owned, TrueOf, Since, SnapshotWasTrue
<1>. QED BY <1>1, ToldInvariance, PTL
=============================================================================
