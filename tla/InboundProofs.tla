---------------------------- MODULE InboundProofs ---------------------------
(***************************************************************************)
(* Proofs about Inbound: the inductive invariant of what a client and its  *)
(* session exchange, and that each step of either keeps it.  The steps are *)
(* predicates that say what an action does to the relations below;         *)
(* PublishProofs shows that the actions are such steps.                    *)
(***************************************************************************)
EXTENDS Inbound, TLAPS

-----------------------------------------------------------------------------
(* What is on the wire, what the client waits for, and what is in hand, as *)
(* relations: position, packet id, publish.                                *)

Pids(f) == 1 .. f.window
Msgs(f) == 1 .. Len(f.pubs)
Qos(f, m) == f.pubs[m].qos

Packets(f) == [t : {"publish"}, pid : 0 .. f.window, m : Msgs(f)] \cup [t : {"pubrel"}, pid : Pids(f)]
Answers(f) == [t : {"puback", "pubrec", "pubcomp"}, pid : Pids(f), ok : BOOLEAN]
Exchanges(f) == [m : Msgs(f), rec : BOOLEAN]
InHand(f) == [t : {"publish"}, pid : 0 .. f.window, m : Msgs(f), ok : BOOLEAN, added : BOOLEAN]

PubAt(b, k, p, m) == k \in 1 .. Len(b) /\ b[k].t = "publish" /\ b[k].pid = p /\ b[k].m = m
RelAt(b, k, p) == k \in 1 .. Len(b) /\ b[k].t = "pubrel" /\ b[k].pid = p
\* The answers that a publish gets, and those of them that refuse it.
AnsAt(c, k, p) == k \in 1 .. Len(c) /\ c[k].t \in {"puback", "pubrec"} /\ c[k].pid = p
RecAt(c, k, p) == k \in 1 .. Len(c) /\ c[k].t = "pubrec" /\ c[k].pid = p
NoRecAt(c, k, p) == k \in 1 .. Len(c) /\ c[k].t = "pubrec" /\ c[k].pid = p /\ ~c[k].ok

Opened(e, p, m) == [x \in DOMAIN e \cup {p} |-> IF x = p THEN [m |-> m, rec |-> FALSE] ELSE e[x]]
Shut(e, p) == [x \in DOMAIN e \ {p} |-> e[x]]
Heard(e, p) == [e EXCEPT ![p].rec = TRUE]

Open(e, p, m) == p \in DOMAIN e /\ e[p].m = m
Asks(e, p, m) == p \in DOMAIN e /\ e[p].m = m /\ ~e[p].rec
Hand(h, p, m) == h # NoPacket /\ h.pid = p /\ h.m = m
HandOk(h, p, m) == h # NoPacket /\ h.pid = p /\ h.m = m /\ h.ok
Added(h, p) == h # NoPacket /\ h.pid = p /\ h.added

-----------------------------------------------------------------------------
(* The inductive invariant of the inbound half.                            *)

InTypes ==
    /\ focus \in Foci
    /\ conn \in BOOLEAN
    /\ sent \in 0 .. Len(focus.pubs)
    /\ toBroker \in Seq(Packets(focus))
    /\ toClient \in Seq(Answers(focus))
    /\ DOMAIN exchange \subseteq Pids(focus)
    /\ exchange \in [DOMAIN exchange -> Exchanges(focus)]
    /\ inInflight \subseteq Pids(focus)
    /\ handling \in InHand(focus) \cup {NoPacket}
    /\ taken \in [Msgs(focus) -> Nat]
    /\ ~conn => /\ toBroker = <<>>
                /\ toClient = <<>>
                /\ handling = NoPacket => inInflight = {}

\* Publishes are begun in order, and have a packet id unless they are QoS 0.
Begun ==
    /\ \A k, p, m : PubAt(toBroker, k, p, m) => m \in 1 .. sent /\ (p = 0 <=> Qos(focus, m) = 0)
    /\ \A p, m : Open(exchange, p, m) => m \in 1 .. sent /\ Qos(focus, m) # 0
    /\ \A p, m : Open(exchange, p, m) /\ ~Asks(exchange, p, m) => Qos(focus, m) = 2
    /\ \A p, m : Hand(handling, p, m) => m \in 1 .. sent /\ (p = 0 <=> Qos(focus, m) = 0)
    /\ \A m \in Msgs(focus) : taken[m] > 0 => m <= sent

\* A publish keeps its packet id.
OwnPid ==
    /\ \A p, r, m : Open(exchange, p, m) /\ Open(exchange, r, m) => p = r
    /\ \A k, p, r, m : PubAt(toBroker, k, p, m) /\ Open(exchange, r, m) => p = r
    /\ \A i, k, p, r, m : PubAt(toBroker, i, p, m) /\ PubAt(toBroker, k, r, m) => p = r
    /\ \A k, p, r, m : PubAt(toBroker, k, p, m) /\ Hand(handling, r, m) => p = r
    /\ \A p, r, m : Open(exchange, p, m) /\ Hand(handling, r, m) => p = r

\* A PUBREL never overtakes, nor is overtaken by, copies of its publish.
InOrder ==
    /\ \A i, j, k, p, m :
          PubAt(toBroker, i, p, m) /\ RelAt(toBroker, j, p) /\ PubAt(toBroker, k, p, m) /\ Qos(focus, m) = 2
             => ~(i < j /\ j < k)
    /\ \A i, j, p, m :
          Asks(exchange, p, m) /\ PubAt(toBroker, i, p, m) /\ RelAt(toBroker, j, p) /\ Qos(focus, m) = 2 => j < i

\* While copies of a QoS 2 publish that was forwarded can still come, its packet
\* id is remembered, and no PUBREL comes before them.
Remembered ==
    \A m \in Msgs(focus) : Qos(focus, m) = 2 /\ taken[m] > 0 =>
        /\ taken[m] = 1
        /\ conn =>
             /\ \A k, p : PubAt(toBroker, k, p, m) =>
                   /\ p \in inInflight \/ HandOk(handling, p, m)
                   /\ \A j : RelAt(toBroker, j, p) => k < j
                   /\ ~Added(handling, p)
             /\ \A p : Asks(exchange, p, m) =>
                   /\ p \in inInflight \/ HandOk(handling, p, m)
                   /\ \A j : ~RelAt(toBroker, j, p)
                   /\ ~Added(handling, p)

\* What is in hand is not remembered already.
HandNew ==
    /\ \A p, m : Hand(handling, p, m) /\ Qos(focus, m) = 2 => p \notin inInflight
    /\ \A p, m : Hand(handling, p, m) /\ Qos(focus, m) = 1 => Added(handling, p)
    /\ \A p, m : Hand(handling, p, m) /\ Added(handling, p) => Qos(focus, m) = 1

\* A packet id that is remembered is one that the client waits for a PUBREC
\* with, or one whose PUBREL is on its way; so is one that will be remembered.
Released ==
    conn => \A p \in inInflight : ~Added(handling, p) =>
               (\E j : RelAt(toBroker, j, p)) \/ (\E m : Asks(exchange, p, m) /\ Qos(focus, m) = 2)

WireReleased ==
    conn => \A k, p, m : PubAt(toBroker, k, p, m) /\ Qos(focus, m) = 2 =>
               (\E j : RelAt(toBroker, j, p) /\ k < j) \/ Asks(exchange, p, m)

HandReleased ==
    conn => \A p, m : Hand(handling, p, m) /\ Qos(focus, m) = 2 =>
               (\E j : RelAt(toBroker, j, p)) \/ Asks(exchange, p, m)

\* A QoS 1 publish comes after the PUBREL of the QoS 2 publish before it with
\* that packet id, wherever that one is.
RelFirst ==
    conn => \A k, p, m :
               PubAt(toBroker, k, p, m) /\ Qos(focus, m) = 1 /\ p \in inInflight /\ ~Added(handling, p)
               => \E j : RelAt(toBroker, j, p) /\ j < k

HandRelFirst ==
    conn => \A k, p, m, n :
               PubAt(toBroker, k, p, m) /\ Qos(focus, m) = 1 /\ Hand(handling, p, n) /\ Qos(focus, n) = 2
               => \E j : RelAt(toBroker, j, p) /\ j < k

WireRelFirst ==
    conn => \A i, k, p, m, n :
               /\ PubAt(toBroker, k, p, m) /\ Qos(focus, m) = 1
               /\ PubAt(toBroker, i, p, n) /\ Qos(focus, n) = 2
               /\ i < k
               => \E j : RelAt(toBroker, j, p) /\ i < j /\ j < k

\* In MQTT 5 a publish is sent once: it is on its way, or in hand, or answered,
\* and its packet id is in use by no other.
WireOnce ==
    focus.v5 /\ conn => \A k, p, m : PubAt(toBroker, k, p, m) /\ p # 0 =>
        /\ Asks(exchange, p, m)
        /\ \A i, n : PubAt(toBroker, i, p, n) => i = k
        /\ \A n : ~Hand(handling, p, n)
        /\ \A i : ~AnsAt(toClient, i, p)

WireNew ==
    focus.v5 /\ conn => \A k, p, m :
        PubAt(toBroker, k, p, m) /\ p \in inInflight => \E j : RelAt(toBroker, j, p) /\ j < k

HandOnce ==
    focus.v5 /\ conn => \A p, m : Hand(handling, p, m) /\ p # 0 =>
        /\ Asks(exchange, p, m)
        /\ \A i : ~AnsAt(toClient, i, p)

AnsOnce ==
    focus.v5 /\ conn =>
        /\ \A k, p : AnsAt(toClient, k, p) => \E m : Asks(exchange, p, m) /\ (RecAt(toClient, k, p) => Qos(focus, m) = 2)
        /\ \A i, k, p : AnsAt(toClient, k, p) /\ AnsAt(toClient, i, p) => i = k
        /\ \A k, p : NoRecAt(toClient, k, p) => p \notin inInflight

\* A client that keeps to the window is not refused.
WindowKept == focus.window <= MaxInflight => ~refused

InInv ==
    /\ InTypes /\ Begun /\ OwnPid /\ InOrder /\ Remembered /\ HandNew
    /\ Released /\ WireReleased /\ HandReleased
    /\ RelFirst /\ HandRelFirst /\ WireRelFirst
    /\ WireOnce /\ WireNew /\ HandOnce /\ AnsOnce
    /\ WindowKept

-----------------------------------------------------------------------------
(* How the relations change with the wire.                                 *)

\* A publish put on the wire is behind all that is there.
LEMMA AppendPub ==
    ASSUME NEW f, NEW b \in Seq(Packets(f)), NEW p \in 0 .. f.window, NEW m \in Msgs(f)
    PROVE  LET c == Append(b, Pub(p, m)) IN
           /\ c \in Seq(Packets(f))
           /\ Len(b) \in Nat
           /\ \A k, q, n : PubAt(b, k, q, n) => k \in Nat /\ k < Len(b) + 1
           /\ \A k, q : RelAt(b, k, q) => k \in Nat /\ k < Len(b) + 1
           /\ \A k, q, n : PubAt(c, k, q, n) <=> PubAt(b, k, q, n) \/ (k = Len(b) + 1 /\ q = p /\ n = m)
           /\ \A k, q : RelAt(c, k, q) <=> RelAt(b, k, q)
<1>1. Pub(p, m) \in Packets(f)
  BY Zenon DEF Packets, Pub
<1>2. /\ Append(b, Pub(p, m)) \in Seq(Packets(f))
      /\ Len(b) \in Nat
      /\ Len(Append(b, Pub(p, m))) = Len(b) + 1
      /\ \A k \in 1 .. Len(b) : Append(b, Pub(p, m))[k] = b[k]
      /\ Append(b, Pub(p, m))[Len(b) + 1] = Pub(p, m)
  BY <1>1
<1> DEFINE c == Append(b, Pub(p, m))
<1> HIDE DEF c
<1>3. /\ Len(b) \in Nat
      /\ Len(c) = Len(b) + 1
      /\ \A k \in 1 .. Len(b) : c[k] = b[k]
      /\ c[Len(b) + 1] = Pub(p, m)
  BY <1>2, Zenon DEF c
<1>4. \A k, q, n : PubAt(c, k, q, n) <=> PubAt(b, k, q, n) \/ (k = Len(b) + 1 /\ q = p /\ n = m)
  BY <1>3 DEF PubAt, Pub
<1>5. \A k, q : RelAt(c, k, q) <=> RelAt(b, k, q)
  BY <1>3 DEF RelAt, Pub
<1>6. \A k, q, n : PubAt(b, k, q, n) => k \in Nat /\ k < Len(b) + 1
  BY <1>2 DEF PubAt
<1>7. \A k, q : RelAt(b, k, q) => k \in Nat /\ k < Len(b) + 1
  BY <1>2 DEF RelAt
<1> QED
  BY <1>2, <1>4, <1>5, <1>6, <1>7, Zenon DEF c

\* So is a PUBREL.
LEMMA AppendRel ==
    ASSUME NEW f, NEW b \in Seq(Packets(f)), NEW p \in Pids(f)
    PROVE  LET c == Append(b, Rel(p)) IN
           /\ c \in Seq(Packets(f))
           /\ Len(b) \in Nat
           /\ \A k, q, n : PubAt(b, k, q, n) => k \in Nat /\ k < Len(b) + 1
           /\ \A k, q : RelAt(b, k, q) => k \in Nat /\ k < Len(b) + 1
           /\ \A k, q, n : PubAt(c, k, q, n) <=> PubAt(b, k, q, n)
           /\ \A k, q : RelAt(c, k, q) <=> RelAt(b, k, q) \/ (k = Len(b) + 1 /\ q = p)
<1>1. Rel(p) \in Packets(f)
  BY Zenon DEF Packets, Rel
<1>2. /\ Append(b, Rel(p)) \in Seq(Packets(f))
      /\ Len(b) \in Nat
      /\ Len(Append(b, Rel(p))) = Len(b) + 1
      /\ \A k \in 1 .. Len(b) : Append(b, Rel(p))[k] = b[k]
      /\ Append(b, Rel(p))[Len(b) + 1] = Rel(p)
  BY <1>1
<1> DEFINE c == Append(b, Rel(p))
<1> HIDE DEF c
<1>3. /\ Len(b) \in Nat
      /\ Len(c) = Len(b) + 1
      /\ \A k \in 1 .. Len(b) : c[k] = b[k]
      /\ c[Len(b) + 1] = Rel(p)
  BY <1>2, Zenon DEF c
<1>4. \A k, q, n : PubAt(c, k, q, n) <=> PubAt(b, k, q, n)
  BY <1>3 DEF PubAt, Rel
<1>5. \A k, q : RelAt(c, k, q) <=> RelAt(b, k, q) \/ (k = Len(b) + 1 /\ q = p)
  BY <1>3 DEF RelAt, Rel
<1>6. \A k, q, n : PubAt(b, k, q, n) => k \in Nat /\ k < Len(b) + 1
  BY <1>2 DEF PubAt
<1>7. \A k, q : RelAt(b, k, q) => k \in Nat /\ k < Len(b) + 1
  BY <1>2 DEF RelAt
<1> QED
  BY <1>2, <1>4, <1>5, <1>6, <1>7, Zenon DEF c

\* The first packet leaves the wire: the others move up.
LEMMA TailMoves ==
    ASSUME NEW f, NEW b \in Seq(Packets(f)), b # <<>>
    PROVE  LET c == Tail(b) IN
           /\ c \in Seq(Packets(f))
           /\ Head(b) = b[1]
           /\ 1 \in 1 .. Len(b)
           /\ b[1] \in Packets(f)
           /\ \A k, q, n : PubAt(c, k, q, n) => k \in Nat /\ k > 0 /\ PubAt(b, k + 1, q, n)
           /\ \A k, q : RelAt(c, k, q) => k \in Nat /\ k > 0 /\ RelAt(b, k + 1, q)
           /\ \A k, q : RelAt(b, k, q) => k = 1 \/ (k \in Nat /\ k > 1 /\ RelAt(c, k - 1, q))
<1>1. /\ Tail(b) \in Seq(Packets(f))
      /\ Len(b) \in Nat
      /\ Len(b) > 0
      /\ Head(b) = b[1]
      /\ b[1] \in Packets(f)
      /\ Len(Tail(b)) = Len(b) - 1
      /\ \A k \in 1 .. Len(b) - 1 : Tail(b)[k] = b[k + 1]
  OBVIOUS
<1> DEFINE c == Tail(b)
<1> HIDE DEF c
<1>2. /\ Len(b) \in Nat
      /\ Len(b) > 0
      /\ Len(c) = Len(b) - 1
      /\ \A k \in 1 .. Len(b) - 1 : c[k] = b[k + 1]
  BY <1>1, Zenon DEF c
<1>3. \A k, q, n : PubAt(c, k, q, n) => k \in Nat /\ k > 0 /\ PubAt(b, k + 1, q, n)
  BY <1>2 DEF PubAt
<1>4. \A k, q : RelAt(c, k, q) => k \in Nat /\ k > 0 /\ RelAt(b, k + 1, q)
  BY <1>2, SMTT(30), Z3T(30) DEF RelAt
<1>5. ASSUME NEW k, NEW q, RelAt(b, k, q), k # 1
      PROVE  k \in Nat /\ k > 1 /\ RelAt(c, k - 1, q)
  <2>1. k \in 1 .. Len(b) /\ k \in Nat /\ k > 1 /\ k - 1 \in 1 .. Len(b) - 1
    BY <1>2, <1>5 DEF RelAt
  <2>2. c[k - 1] = b[(k - 1) + 1] /\ (k - 1) + 1 = k
    BY <2>1, <1>2
  <2> QED
    BY <2>1, <2>2, <1>2, <1>5, Zenon DEF RelAt
<1> QED
  BY <1>1, <1>3, <1>4, <1>5 DEF c

\* An answer put on the wire is behind all that is there.
LEMMA AppendAns ==
    ASSUME NEW f, NEW c \in Seq(Answers(f)), NEW a \in Answers(f)
    PROVE  LET d == Append(c, a) IN
           /\ d \in Seq(Answers(f))
           /\ Len(c) \in Nat
           /\ \A k, q : AnsAt(d, k, q) <=> AnsAt(c, k, q) \/ (k = Len(c) + 1 /\ a.t \in {"puback", "pubrec"} /\ q = a.pid)
           /\ \A k, q : RecAt(d, k, q) <=> RecAt(c, k, q) \/ (k = Len(c) + 1 /\ a.t = "pubrec" /\ q = a.pid)
           /\ \A k, q : NoRecAt(d, k, q) <=> NoRecAt(c, k, q) \/ (k = Len(c) + 1 /\ a.t = "pubrec" /\ q = a.pid /\ ~a.ok)
<1> DEFINE d == Append(c, a)
<1>1. /\ d \in Seq(Answers(f))
      /\ Len(c) \in Nat
      /\ Len(d) = Len(c) + 1
      /\ \A k \in 1 .. Len(c) : d[k] = c[k]
      /\ d[Len(c) + 1] = a
  OBVIOUS
<1> HIDE DEF d
<1>2. \A k, q : AnsAt(d, k, q) <=> AnsAt(c, k, q) \/ (k = Len(c) + 1 /\ a.t \in {"puback", "pubrec"} /\ q = a.pid)
  BY <1>1 DEF AnsAt
<1>3. \A k, q : RecAt(d, k, q) <=> RecAt(c, k, q) \/ (k = Len(c) + 1 /\ a.t = "pubrec" /\ q = a.pid)
  BY <1>1 DEF RecAt
<1>4. \A k, q : NoRecAt(d, k, q) <=> NoRecAt(c, k, q) \/ (k = Len(c) + 1 /\ a.t = "pubrec" /\ q = a.pid /\ ~a.ok)
  BY <1>1 DEF NoRecAt
<1> QED
  BY <1>1, <1>2, <1>3, <1>4, Zenon DEF d

\* The first answer leaves the wire: the others move up.
LEMMA TailAnswers ==
    ASSUME NEW f, NEW c \in Seq(Answers(f)), c # <<>>
    PROVE  LET d == Tail(c) IN
           /\ d \in Seq(Answers(f))
           /\ Head(c) = c[1]
           /\ 1 \in 1 .. Len(c)
           /\ c[1] \in Answers(f)
           /\ \A k, q : AnsAt(d, k, q) => k \in Nat /\ k > 0 /\ AnsAt(c, k + 1, q)
           /\ \A k, q : RecAt(d, k, q) => k \in Nat /\ k > 0 /\ RecAt(c, k + 1, q)
           /\ \A k, q : NoRecAt(d, k, q) => k \in Nat /\ k > 0 /\ NoRecAt(c, k + 1, q)
           /\ \A k, q : k > 0 /\ RecAt(c, k + 1, q) /\ AnsAt(d, k, q) => RecAt(d, k, q)
<1> DEFINE d == Tail(c)
<1>1. /\ d \in Seq(Answers(f))
      /\ Len(c) \in Nat
      /\ Len(c) > 0
      /\ Head(c) = c[1]
      /\ c[1] \in Answers(f)
      /\ Len(d) = Len(c) - 1
      /\ \A k \in 1 .. Len(c) - 1 : d[k] = c[k + 1]
  OBVIOUS
<1> HIDE DEF d
<1>2. \A k, q : AnsAt(d, k, q) => k \in Nat /\ k > 0 /\ AnsAt(c, k + 1, q)
  BY <1>1 DEF AnsAt
<1>3. \A k, q : RecAt(d, k, q) => k \in Nat /\ k > 0 /\ RecAt(c, k + 1, q)
  BY <1>1 DEF RecAt
<1>4. \A k, q : NoRecAt(d, k, q) => k \in Nat /\ k > 0 /\ NoRecAt(c, k + 1, q)
  BY <1>1 DEF NoRecAt
<1>5. \A k, q : k > 0 /\ RecAt(c, k + 1, q) /\ AnsAt(d, k, q) => RecAt(d, k, q)
  BY <1>1, Zenon DEF RecAt, AnsAt
<1> QED
  BY <1>1, <1>2, <1>3, <1>4, <1>5 DEF d

\* How they change with the exchanges of the client.
LEMMA OpenExchange ==
    ASSUME NEW f, NEW e, e \in [DOMAIN e -> Exchanges(f)], DOMAIN e \subseteq Pids(f),
           NEW p \in Pids(f) \ DOMAIN e, NEW m \in Msgs(f),
           NEW d, d = Opened(e, p, m)
    PROVE  /\ DOMAIN d \subseteq Pids(f)
           /\ d \in [DOMAIN d -> Exchanges(f)]
           /\ \A q, n : Open(d, q, n) <=> Open(e, q, n) \/ (q = p /\ n = m)
           /\ \A q, n : Asks(d, q, n) <=> Asks(e, q, n) \/ (q = p /\ n = m)
           /\ \A n : ~Open(e, p, n)
<1>1. DOMAIN d = DOMAIN e \cup {p}
  BY Zenon DEF Opened
<1>2. \A q \in DOMAIN e : d[q] = e[q]
  BY Zenon DEF Opened
<1>3. d[p] = [m |-> m, rec |-> FALSE]
  BY Zenon DEF Opened
<1>4. [m |-> m, rec |-> FALSE] \in Exchanges(f)
  BY Zenon DEF Exchanges
<1>5. d \in [DOMAIN d -> Exchanges(f)]
  BY <1>4, Zenon DEF Opened
<1>6. \A q, n : Open(d, q, n) <=> Open(e, q, n) \/ (q = p /\ n = m)
  BY <1>1, <1>2, <1>3 DEF Open
<1>7. \A q, n : Asks(d, q, n) <=> Asks(e, q, n) \/ (q = p /\ n = m)
  BY <1>1, <1>2, <1>3 DEF Asks
<1>8. \A n : ~Open(e, p, n)
  BY Zenon DEF Open
<1> QED
  BY <1>1, <1>5, <1>6, <1>7, <1>8, Zenon

\* An exchange that ends takes its packet id with it.
LEMMA CloseExchange ==
    ASSUME NEW f, NEW e, e \in [DOMAIN e -> Exchanges(f)], DOMAIN e \subseteq Pids(f), NEW p,
           NEW d, d = Shut(e, p)
    PROVE  /\ DOMAIN d \subseteq Pids(f)
           /\ d \in [DOMAIN d -> Exchanges(f)]
           /\ \A q, n : Open(d, q, n) <=> Open(e, q, n) /\ q # p
           /\ \A q, n : Asks(d, q, n) <=> Asks(e, q, n) /\ q # p
<1>1. DOMAIN d = DOMAIN e \ {p}
  BY Zenon DEF Shut
<1>2. \A q \in DOMAIN d : d[q] = e[q]
  BY Zenon DEF Shut
<1>3. d \in [DOMAIN d -> Exchanges(f)]
  BY Zenon DEF Shut
<1>4. \A q, n : Open(d, q, n) <=> Open(e, q, n) /\ q # p
  BY <1>1, <1>2, Zenon DEF Open
<1>5. \A q, n : Asks(d, q, n) <=> Asks(e, q, n) /\ q # p
  BY <1>1, <1>2, Zenon DEF Asks
<1> QED
  BY <1>1, <1>3, <1>4, <1>5, Zenon

\* An exchange that got its PUBREC stays open and asks for none.
LEMMA ReceiveExchange ==
    ASSUME NEW f, NEW e, e \in [DOMAIN e -> Exchanges(f)], DOMAIN e \subseteq Pids(f), NEW p \in DOMAIN e,
           NEW d, d = Heard(e, p)
    PROVE  /\ DOMAIN d \subseteq Pids(f)
           /\ d \in [DOMAIN d -> Exchanges(f)]
           /\ \A q, n : Open(d, q, n) <=> Open(e, q, n)
           /\ \A q, n : Asks(d, q, n) <=> Asks(e, q, n) /\ q # p
<1>1. DOMAIN d = DOMAIN e
  BY Zenon DEF Heard
<1>2. \A q \in DOMAIN e \ {p} : d[q] = e[q]
  BY Zenon DEF Heard
<1>3. e[p] \in Exchanges(f) /\ d[p] = [e[p] EXCEPT !.rec = TRUE]
  BY Zenon DEF Heard
<1>4. d[p] \in Exchanges(f) /\ d[p].m = e[p].m /\ d[p].rec = TRUE
  BY <1>3, Zenon DEF Exchanges
<1>5. d \in [DOMAIN d -> Exchanges(f)]
  BY <1>1, <1>2, <1>4, Zenon DEF Heard
<1>6. \A q, n : Open(d, q, n) <=> Open(e, q, n)
  BY <1>1, <1>2, <1>4, Zenon DEF Open
<1>7. \A q, n : Asks(d, q, n) <=> Asks(e, q, n) /\ q # p
  BY <1>1, <1>2, <1>4, Zenon DEF Asks
<1> QED
  BY <1>1, <1>5, <1>6, <1>7, Zenon

\* An exchange that asks for an answer is open.
LEMMA AsksOpen ==
    \A e, p, m : Asks(e, p, m) => Open(e, p, m)
BY Zenon DEF Asks, Open

\* And with the packet in hand.
LEMMA AddedHand ==
    \A h, p : Added(h, p) => \E m : Hand(h, p, m)
BY Zenon DEF Added, Hand

\* With nothing in hand nothing is added or about to be.
LEMMA NothingInHand ==
    /\ \A p, m : ~Hand(NoPacket, p, m)
    /\ \A p, m : ~HandOk(NoPacket, p, m)
    /\ \A p : ~Added(NoPacket, p)
BY Zenon DEF Hand, HandOk, Added

\* What process_publish has in hand is the packet it took.
LEMMA TakeInHand ==
    ASSUME NEW f, NEW p \in 0 .. f.window, NEW m \in Msgs(f), NEW ok \in BOOLEAN, NEW added \in BOOLEAN,
           NEW h, h = [t |-> "publish", pid |-> p, m |-> m, ok |-> ok, added |-> added]
    PROVE  /\ h \in InHand(f)
           /\ \A q, n : Hand(h, q, n) <=> q = p /\ n = m
           /\ \A q, n : HandOk(h, q, n) <=> q = p /\ n = m /\ ok
           /\ \A q : Added(h, q) <=> q = p /\ added
<1>1. h \in InHand(f)
  BY Zenon DEF InHand
<1>2. h.pid = p /\ h.m = m /\ h.ok = ok /\ h.added = added /\ h.t = "publish"
  BY Zenon
<1>3. h # NoPacket
  BY <1>2, Zenon DEF NoPacket
<1> QED
  BY <1>1, <1>2, <1>3, Zenon DEF Hand, HandOk, Added

\* What the constants are.
LEMMA FocusTypes ==
    ASSUME NEW f \in Foci
    PROVE  /\ Len(f.pubs) \in Nat
           /\ f.window \in Nat
           /\ f.v5 \in BOOLEAN
           /\ \A m \in 1 .. Len(f.pubs) : Qos(f, m) \in 0 .. 2
           /\ Msgs(f) = 1 .. Len(f.pubs)
           /\ \A p : p \in Pids(f) <=> p \in 0 .. f.window /\ p # 0
BY InboundAssumption DEF Msgs, Pids, Qos

\* Where things are.
LEMMA Places ==
    ASSUME InTypes
    PROVE  /\ Len(toBroker) \in Nat
           /\ Len(toClient) \in Nat
           /\ \A k, p, m : PubAt(toBroker, k, p, m) => k \in 1 .. Len(toBroker) /\ p \in 0 .. focus.window /\ m \in Msgs(focus)
           /\ \A k, p : RelAt(toBroker, k, p) => k \in 1 .. Len(toBroker) /\ p \in Pids(focus)
           /\ \A k, p : AnsAt(toClient, k, p) => k \in 1 .. Len(toClient) /\ p \in Pids(focus)
           /\ \A k, p : RecAt(toClient, k, p) => AnsAt(toClient, k, p)
           /\ \A k, p : NoRecAt(toClient, k, p) => RecAt(toClient, k, p)
           /\ \A p, m : Open(exchange, p, m) => p \in Pids(focus) /\ m \in Msgs(focus)
           /\ \A p, m : Asks(exchange, p, m) => Open(exchange, p, m)
           /\ \A p, m : Hand(handling, p, m) => p \in 0 .. focus.window /\ m \in Msgs(focus)
           /\ \A p, m : HandOk(handling, p, m) => Hand(handling, p, m)
           /\ \A p : Added(handling, p) => \E m : Hand(handling, p, m)
<1>1. /\ Len(toBroker) \in Nat
      /\ \A k \in 1 .. Len(toBroker) : toBroker[k] \in Packets(focus)
  BY DEF InTypes
<1>2. /\ Len(toClient) \in Nat
      /\ \A k \in 1 .. Len(toClient) : toClient[k] \in Answers(focus)
  BY DEF InTypes
<1>3. \A k, p, m : PubAt(toBroker, k, p, m) => k \in 1 .. Len(toBroker) /\ p \in 0 .. focus.window /\ m \in Msgs(focus)
  BY <1>1, Zenon DEF PubAt, Packets
<1>4. \A k, p : RelAt(toBroker, k, p) => k \in 1 .. Len(toBroker) /\ p \in Pids(focus)
  BY <1>1, Zenon DEF RelAt, Packets
<1>5. \A k, p : AnsAt(toClient, k, p) => k \in 1 .. Len(toClient) /\ p \in Pids(focus)
  BY <1>2, Zenon DEF AnsAt, Answers
<1>6. \A k, p : RecAt(toClient, k, p) => AnsAt(toClient, k, p)
  BY Zenon DEF RecAt, AnsAt
<1>7. \A k, p : NoRecAt(toClient, k, p) => RecAt(toClient, k, p)
  BY Zenon DEF RecAt, NoRecAt
<1>8. \A p, m : Open(exchange, p, m) => p \in Pids(focus) /\ m \in Msgs(focus)
  BY ZenonT(60) DEF Open, InTypes, Exchanges
<1>9. \A p, m : Hand(handling, p, m) => p \in 0 .. focus.window /\ m \in Msgs(focus)
  BY Zenon DEF Hand, InTypes, InHand
<1>10. \A p, m : HandOk(handling, p, m) => Hand(handling, p, m)
  BY Zenon DEF Hand, HandOk
<1> QED
  BY <1>1, <1>2, <1>3, <1>4, <1>5, <1>6, <1>7, <1>8, <1>9, <1>10, AsksOpen, AddedHand, Zenon

-----------------------------------------------------------------------------
(* The client.                                                             *)

\* The client begins a publish of QoS 1 or 2.
PublishNew(p) ==
    /\ conn
    /\ sent < Len(focus.pubs)
    /\ sent' = sent + 1
    /\ Qos(focus, sent + 1) > 0
    /\ p \in Pids(focus) \ DOMAIN exchange
    /\ toBroker' = Append(toBroker, Pub(p, sent + 1))
    /\ exchange' = Opened(exchange, p, sent + 1)
    /\ UNCHANGED <<focus, conn, toClient, inInflight, handling, taken, refused>>

\* The client begins a publish with a packet id of its own.
LEMMA StepPublishNew ==
    ASSUME InInv, NEW p, PublishNew(p)
    PROVE  InInv'
<1>0. /\ InTypes /\ Begun /\ OwnPid /\ InOrder /\ Remembered /\ HandNew
      /\ Released /\ WireReleased /\ HandReleased
      /\ RelFirst /\ HandRelFirst /\ WireRelFirst
      /\ WireOnce /\ WireNew /\ HandOnce /\ AnsOnce /\ WindowKept
      /\ UNCHANGED <<focus, conn, toClient, inInflight, handling, taken, refused>>
  BY Zenon DEF InInv, PublishNew
<1> DEFINE n == sent + 1
           L == Len(toBroker)
<1>1. /\ focus \in Foci
      /\ conn
      /\ sent \in Nat
      /\ p # 0
      /\ p \in 0 .. focus.window
      /\ p \in Pids(focus)
      /\ Qos(focus, n) # 0
      /\ n \in Msgs(focus)
      /\ n \notin 1 .. sent
      /\ ~(n <= sent)
      /\ n \in 1 .. n
      /\ \A m : m \in 1 .. sent => m \in 1 .. n
      /\ \A m \in Msgs(focus) : m <= sent => m <= n
      /\ sent' = n
      /\ n \in 0 .. Len(focus.pubs)
  <2>1. /\ focus \in Foci /\ conn /\ p \in Pids(focus) /\ sent' = n
        /\ sent \in 0 .. Len(focus.pubs) /\ sent < Len(focus.pubs) /\ Qos(focus, n) > 0
    BY <1>0, Zenon DEF InTypes, PublishNew
  <2>2. Msgs(focus) = 1 .. Len(focus.pubs) /\ Len(focus.pubs) \in Nat /\ p \in 0 .. focus.window /\ p # 0
    BY <2>1, FocusTypes, Zenon
  <2> QED
    BY <2>1, <2>2
<1>2. /\ toBroker' \in Seq(Packets(focus))
      /\ L \in Nat
      /\ \A k, q, m : PubAt(toBroker, k, q, m) => k \in Nat /\ k < L + 1
      /\ \A k, q : RelAt(toBroker, k, q) => k \in Nat /\ k < L + 1
      /\ \A k, q, m : PubAt(toBroker', k, q, m) <=> PubAt(toBroker, k, q, m) \/ (k = L + 1 /\ q = p /\ m = n)
      /\ \A k, q : RelAt(toBroker', k, q) <=> RelAt(toBroker, k, q)
  BY <1>0, <1>1, AppendPub, SMTT(30), Z3T(30) DEF InTypes, PublishNew
<1>3. /\ DOMAIN exchange' \subseteq Pids(focus)
      /\ exchange' \in [DOMAIN exchange' -> Exchanges(focus)]
      /\ \A q, m : Open(exchange', q, m) <=> Open(exchange, q, m) \/ (q = p /\ m = n)
      /\ \A q, m : Asks(exchange', q, m) <=> Asks(exchange, q, m) \/ (q = p /\ m = n)
      /\ \A m : ~Open(exchange, p, m)
  <2>1. /\ exchange \in [DOMAIN exchange -> Exchanges(focus)]
        /\ DOMAIN exchange \subseteq Pids(focus)
        /\ p \in Pids(focus) \ DOMAIN exchange
        /\ exchange' = Opened(exchange, p, n)
    BY <1>0, Zenon DEF InTypes, PublishNew
  <2> HIDE DEF n
  <2> QED
    BY <1>1, <2>1, OpenExchange
<1>4. \A q, m : Asks(exchange, q, m) => Open(exchange, q, m)
  BY AsksOpen, Zenon
<1> HIDE DEF n, L
<1>20. HandNew' /\ WindowKept'
  BY <1>0, Zenon DEF HandNew, WindowKept
<1>21. InTypes'
  BY <1>0, <1>1, <1>2, <1>3, <1>4, Zenon DEF InTypes
<1>22. Begun'
  BY <1>0, <1>1, <1>2, <1>3, <1>4, ZenonT(60) DEF Begun
<1>23. OwnPid'
  <2>1. /\ \A k, q, m : PubAt(toBroker, k, q, m) => m # n
        /\ \A q, m : Open(exchange, q, m) => m # n
        /\ \A q, m : Hand(handling, q, m) => m # n
    BY <1>0, <1>1, Zenon DEF Begun
  <2>2. /\ \A k, q, m : PubAt(toBroker', k, q, m) => PubAt(toBroker, k, q, m) \/ (q = p /\ m = n)
        /\ \A q, m : Open(exchange', q, m) => Open(exchange, q, m) \/ (q = p /\ m = n)
        /\ \A q, m : Hand(handling', q, m) => Hand(handling, q, m)
    BY <1>0, <1>2, <1>3
  <2> QED
    BY <1>0, <2>1, <2>2 DEF OwnPid
<1>24. InOrder'
  BY <1>0, <1>1, <1>2, <1>3, <1>4, SMTT(30), Z3T(30) DEF InOrder, Begun
<1>25. Remembered'
  BY <1>0, <1>1, <1>2, <1>3, <1>4, SMTT(30) DEF Remembered, Begun
<1>26. Released'
  BY <1>0, <1>1, <1>2, <1>3, <1>4, Zenon DEF Released
<1>27. WireReleased'
  BY <1>0, <1>1, <1>2, <1>3, <1>4, SMTT(30), Z3T(30) DEF WireReleased
<1>28. HandReleased'
  BY <1>0, <1>1, <1>2, <1>3, <1>4, Zenon DEF HandReleased
<1>29. RelFirst'
  BY <1>0, <1>1, <1>2, <1>3, <1>4, ZenonT(60) DEF RelFirst, Released
<1>30. HandRelFirst'
  BY <1>0, <1>1, <1>2, <1>3, <1>4, SMTT(30), Z3T(30) DEF HandRelFirst, HandReleased
<1>31. WireRelFirst'
  BY <1>0, <1>1, <1>2, <1>3, <1>4, SMTT(30), Z3T(30) DEF WireRelFirst, WireReleased, Begun
<1>32. WireOnce'
  BY <1>0, <1>1, <1>2, <1>3, <1>4, SMTT(30), Z3T(30) DEF WireOnce, HandOnce, AnsOnce
<1>33. WireNew'
  BY <1>0, <1>1, <1>2, <1>3, <1>4, AddedHand, SMTT(30), Z3T(30) DEF WireNew, Released, HandOnce
<1>34. HandOnce'
  BY <1>0, <1>1, <1>3, <1>4, Zenon DEF HandOnce
<1>35. AnsOnce'
  BY <1>0, <1>1, <1>3, <1>4, Zenon DEF AnsOnce
<1> QED
  BY <1>20, <1>21, <1>22, <1>23, <1>24, <1>25, <1>26, <1>27, <1>28, <1>29, <1>30, <1>31, <1>32, <1>33, <1>34, <1>35, Zenon DEF InInv

\* The client sends a publish of QoS 0.
PublishZero ==
    /\ conn
    /\ sent < Len(focus.pubs)
    /\ sent' = sent + 1
    /\ Qos(focus, sent + 1) = 0
    /\ toBroker' = Append(toBroker, Pub(0, sent + 1))
    /\ UNCHANGED <<focus, conn, toClient, exchange, inInflight, handling, taken, refused>>

\* The client sends a QoS 0 publish.
LEMMA StepPublishZero ==
    ASSUME InInv, PublishZero
    PROVE  InInv'
<1>0. /\ InTypes /\ Begun /\ OwnPid /\ InOrder /\ Remembered /\ HandNew
      /\ Released /\ WireReleased /\ HandReleased
      /\ RelFirst /\ HandRelFirst /\ WireRelFirst
      /\ WireOnce /\ WireNew /\ HandOnce /\ AnsOnce /\ WindowKept
      /\ UNCHANGED <<focus, conn, toClient, exchange, inInflight, handling, taken, refused>>
  BY Zenon DEF InInv, PublishZero
<1> DEFINE n == sent + 1
           L == Len(toBroker)
<1>1. /\ focus \in Foci
      /\ conn
      /\ sent \in Nat
      /\ 0 \in 0 .. focus.window
      /\ 0 \notin Pids(focus)
      /\ Qos(focus, n) = 0
      /\ n \in Msgs(focus)
      /\ n \notin 1 .. sent
      /\ ~(n <= sent)
      /\ n \in 1 .. n
      /\ \A m : m \in 1 .. sent => m \in 1 .. n
      /\ \A m \in Msgs(focus) : m <= sent => m <= n
      /\ sent' = n
      /\ n \in 0 .. Len(focus.pubs)
  BY <1>0, FocusTypes, SMTT(30), Z3T(30) DEF InTypes, PublishZero
<1>2. /\ toBroker' \in Seq(Packets(focus))
      /\ L \in Nat
      /\ \A k, q, m : PubAt(toBroker, k, q, m) => k \in Nat /\ k < L + 1
      /\ \A k, q : RelAt(toBroker, k, q) => k \in Nat /\ k < L + 1
      /\ \A k, q, m : PubAt(toBroker', k, q, m) <=> PubAt(toBroker, k, q, m) \/ (k = L + 1 /\ q = 0 /\ m = n)
      /\ \A k, q : RelAt(toBroker', k, q) <=> RelAt(toBroker, k, q)
  <2>1. toBroker \in Seq(Packets(focus)) /\ toBroker' = Append(toBroker, Pub(0, n))
    BY <1>0, Zenon DEF InTypes, PublishZero
  <2> HIDE DEF n
  <2>2. PICK p : p = 0 /\ p \in 0 .. focus.window
    BY <1>1, Zenon
  <2> QED
    BY <1>1, <2>1, <2>2, AppendPub
<1> HIDE DEF n, L
<1>20. HandNew' /\ HandOnce' /\ AnsOnce' /\ WindowKept'
  BY <1>0, Zenon DEF HandNew, HandOnce, AnsOnce, WindowKept
<1>21. InTypes'
  BY <1>0, <1>1, <1>2, Zenon DEF InTypes
<1>22. Begun'
  BY <1>0, <1>1, <1>2, SMTT(30), Z3T(30) DEF Begun
<1>23. OwnPid'
  BY <1>0, <1>1, <1>2, SMTT(30), Z3T(30) DEF OwnPid, Begun
<1>24. InOrder'
  BY <1>0, <1>1, <1>2, SMTT(30), Z3T(30) DEF InOrder, Begun
<1>25. Remembered'
  BY <1>0, <1>1, <1>2, SMTT(30), Z3T(30) DEF Remembered, Begun
<1>26. Released'
  BY <1>0, <1>1, <1>2, Zenon DEF Released
<1>27. WireReleased'
  BY <1>0, <1>1, <1>2 DEF WireReleased
<1>28. HandReleased'
  BY <1>0, <1>1, <1>2, Zenon DEF HandReleased
<1>29. RelFirst'
  BY <1>0, <1>1, <1>2, SMTT(30), Z3T(30) DEF RelFirst
<1>30. HandRelFirst'
  BY <1>0, <1>1, <1>2, SMTT(30), Z3T(30) DEF HandRelFirst
<1>31. WireRelFirst'
  BY <1>0, <1>1, <1>2, SMTT(30), Z3T(30) DEF WireRelFirst
<1>32. WireOnce'
  BY <1>0, <1>1, <1>2 DEF WireOnce
<1>33. WireNew'
  BY <1>0, <1>1, <1>2, Zenon DEF WireNew, InTypes
<1> QED
  BY <1>20, <1>21, <1>22, <1>23, <1>24, <1>25, <1>26, <1>27, <1>28, <1>29, <1>30, <1>31, <1>32, <1>33, Zenon DEF InInv

\* The client sends a publish again.
ResendPub(p) ==
    /\ conn
    /\ ~focus.v5
    /\ p \in DOMAIN exchange
    /\ ~exchange[p].rec
    /\ toBroker' = Append(toBroker, Pub(p, exchange[p].m))
    /\ UNCHANGED <<focus, conn, toClient, sent, exchange, inInflight, handling, taken, refused>>

\* The client sends a publish again that no PUBREC came for.
LEMMA StepResendPub ==
    ASSUME InInv, NEW p, ResendPub(p)
    PROVE  InInv'
<1>0. /\ InTypes /\ Begun /\ OwnPid /\ InOrder /\ Remembered /\ HandNew
      /\ Released /\ WireReleased /\ HandReleased
      /\ RelFirst /\ HandRelFirst /\ WireRelFirst
      /\ WireOnce /\ WireNew /\ HandOnce /\ AnsOnce /\ WindowKept
      /\ UNCHANGED <<focus, conn, toClient, sent, exchange, inInflight, handling, taken, refused>>
  BY Zenon DEF InInv, ResendPub
<1> DEFINE n == exchange[p].m
           L == Len(toBroker)
<1>1. /\ conn
      /\ ~focus.v5
      /\ n \in Msgs(focus)
      /\ p \in 0 .. focus.window
      /\ p # 0
      /\ Asks(exchange, p, n)
      /\ Open(exchange, p, n)
      /\ \A q, m : Asks(exchange, q, m) => Open(exchange, q, m)
  BY <1>0, AsksOpen, FocusTypes, Zenon DEF InTypes, ResendPub, Asks, Exchanges
<1>2. /\ toBroker' \in Seq(Packets(focus))
      /\ L \in Nat
      /\ \A k, q, m : PubAt(toBroker, k, q, m) => k \in Nat /\ k < L + 1
      /\ \A k, q : RelAt(toBroker, k, q) => k \in Nat /\ k < L + 1
      /\ \A k, q, m : PubAt(toBroker', k, q, m) <=> PubAt(toBroker, k, q, m) \/ (k = L + 1 /\ q = p /\ m = n)
      /\ \A k, q : RelAt(toBroker', k, q) <=> RelAt(toBroker, k, q)
  BY <1>0, <1>1, AppendPub, SMTT(30), Z3T(30) DEF InTypes, ResendPub
<1>3. \A m : Open(exchange, p, m) => m = n
  BY Zenon DEF Open
<1> HIDE DEF n, L
<1>20. HandNew' /\ HandOnce' /\ AnsOnce' /\ WindowKept'
  BY <1>0, Zenon DEF HandNew, HandOnce, AnsOnce, WindowKept
<1>21. InTypes'
  BY <1>0, <1>1, <1>2, <1>3, Zenon DEF InTypes
<1>22. Begun'
  BY <1>0, <1>1, <1>2, <1>3, SMTT(30), Z3T(30) DEF Begun
<1>23. OwnPid'
  BY <1>0, <1>1, <1>2, <1>3, SMTT(30), Z3T(30) DEF OwnPid
<1>24. InOrder'
  BY <1>0, <1>1, <1>2, <1>3, SMTT(30), Z3T(30) DEF InOrder
<1>25. Remembered'
  BY <1>0, <1>1, <1>2, <1>3 DEF Remembered, OwnPid
<1>26. Released'
  BY <1>0, <1>1, <1>2, <1>3, Zenon DEF Released
<1>27. WireReleased'
  BY <1>0, <1>1, <1>2, <1>3, Zenon DEF WireReleased
<1>28. HandReleased'
  BY <1>0, <1>1, <1>2, <1>3, Zenon DEF HandReleased
<1>29. RelFirst'
  BY <1>0, <1>1, <1>2, <1>3, SMTT(30), Z3T(30) DEF RelFirst, Released
<1>30. HandRelFirst'
  BY <1>0, <1>1, <1>2, <1>3, SMTT(30), Z3T(30) DEF HandRelFirst, HandReleased
<1>31. WireRelFirst'
  BY <1>0, <1>1, <1>2, <1>3, SMTT(30), Z3T(30) DEF WireRelFirst, WireReleased
<1>32. WireOnce'
  BY <1>0, <1>1, <1>2, <1>3, Zenon DEF WireOnce
<1>33. WireNew'
  BY <1>0, <1>1, <1>2, Zenon DEF WireNew
<1> QED
  BY <1>20, <1>21, <1>22, <1>23, <1>24, <1>25, <1>26, <1>27, <1>28, <1>29, <1>30, <1>31, <1>32, <1>33, ZenonT(30) DEF InInv

\* The client sends a PUBREL again.
ResendRel(p) ==
    /\ conn
    /\ ~focus.v5
    /\ p \in DOMAIN exchange
    /\ exchange[p].rec
    /\ toBroker' = Append(toBroker, Rel(p))
    /\ UNCHANGED <<focus, conn, toClient, sent, exchange, inInflight, handling, taken, refused>>

\* The client sends a PUBREL again.
LEMMA StepResendRel ==
    ASSUME InInv, NEW p, ResendRel(p)
    PROVE  InInv'
<1>0. /\ InTypes /\ Begun /\ OwnPid /\ InOrder /\ Remembered /\ HandNew
      /\ Released /\ WireReleased /\ HandReleased
      /\ RelFirst /\ HandRelFirst /\ WireRelFirst
      /\ WireOnce /\ WireNew /\ HandOnce /\ AnsOnce /\ WindowKept
      /\ UNCHANGED <<focus, conn, toClient, sent, exchange, inInflight, handling, taken, refused>>
  BY Zenon DEF InInv, ResendRel
<1> DEFINE L == Len(toBroker)
<1>1. /\ conn
      /\ ~focus.v5
      /\ p \in Pids(focus)
      /\ \A m : ~Asks(exchange, p, m)
  BY <1>0, Zenon DEF InTypes, ResendRel, Asks
<1>2. /\ toBroker' \in Seq(Packets(focus))
      /\ L \in Nat
      /\ \A k, q, m : PubAt(toBroker, k, q, m) => k \in Nat /\ k < L + 1
      /\ \A k, q : RelAt(toBroker, k, q) => k \in Nat /\ k < L + 1
      /\ \A k, q, m : PubAt(toBroker', k, q, m) <=> PubAt(toBroker, k, q, m)
      /\ \A k, q : RelAt(toBroker', k, q) <=> RelAt(toBroker, k, q) \/ (k = L + 1 /\ q = p)
  BY <1>0, <1>1, AppendRel, Zenon DEF InTypes, ResendRel
<1> HIDE DEF L
<1>20. HandNew' /\ HandOnce' /\ AnsOnce' /\ WindowKept'
  BY <1>0, Zenon DEF HandNew, HandOnce, AnsOnce, WindowKept
<1>21. InTypes'
  BY <1>0, <1>1, <1>2, Zenon DEF InTypes
<1>22. Begun'
  BY <1>0, <1>1, <1>2, SMTT(30), Z3T(30) DEF Begun
<1>23. OwnPid'
  BY <1>0, <1>1, <1>2, SMTT(30), Z3T(30) DEF OwnPid
<1>24. InOrder'
  BY <1>0, <1>1, <1>2, SMTT(30), Z3T(30) DEF InOrder
<1>25. Remembered'
  BY <1>0, <1>1, <1>2 DEF Remembered
<1>26. Released'
  BY <1>0, <1>1, <1>2, Zenon DEF Released
<1>27. WireReleased'
  BY <1>0, <1>1, <1>2, Zenon DEF WireReleased
<1>28. HandReleased'
  BY <1>0, <1>1, <1>2, Zenon DEF HandReleased
<1>29. RelFirst'
  BY <1>0, <1>1, <1>2, Zenon DEF RelFirst
<1>30. HandRelFirst'
  BY <1>0, <1>1, <1>2, Zenon DEF HandRelFirst
<1>31. WireRelFirst'
  BY <1>0, <1>1, <1>2, ZenonT(60) DEF WireRelFirst
<1>32. WireOnce'
  BY <1>0, <1>1, <1>2, Zenon DEF WireOnce
<1>33. WireNew'
  BY <1>0, <1>1, <1>2, Zenon DEF WireNew
<1> QED
  BY <1>20, <1>21, <1>22, <1>23, <1>24, <1>25, <1>26, <1>27, <1>28, <1>29, <1>30, <1>31, <1>32, <1>33, ZenonT(30) DEF InInv

\* The client gets an answer that is a late copy.
Ignore ==
    /\ conn
    /\ toClient # <<>>
    /\ toClient' = Tail(toClient)
    /\ UNCHANGED <<focus, conn, toBroker, sent, exchange, inInflight, handling, taken, refused>>

\* The client drops a late answer.
LEMMA StepIgnore ==
    ASSUME InInv, Ignore
    PROVE  InInv'
<1>0. /\ InTypes /\ Begun /\ OwnPid /\ InOrder /\ Remembered /\ HandNew
      /\ Released /\ WireReleased /\ HandReleased
      /\ RelFirst /\ HandRelFirst /\ WireRelFirst
      /\ WireOnce /\ WireNew /\ HandOnce /\ AnsOnce /\ WindowKept
      /\ UNCHANGED <<focus, conn, toBroker, sent, exchange, inInflight, handling, taken, refused>>
  BY Zenon DEF InInv, Ignore
<1>1. conn
  BY Zenon DEF Ignore
<1>2. /\ toClient' \in Seq(Answers(focus))
      /\ \A k, q : AnsAt(toClient', k, q) => k \in Nat /\ k > 0 /\ AnsAt(toClient, k + 1, q)
      /\ \A k, q : RecAt(toClient', k, q) => k \in Nat /\ k > 0 /\ RecAt(toClient, k + 1, q)
      /\ \A k, q : NoRecAt(toClient', k, q) => k \in Nat /\ k > 0 /\ NoRecAt(toClient, k + 1, q)
  BY <1>0, TailAnswers, ZenonT(30) DEF InTypes, Ignore
<1>20. Begun' /\ OwnPid' /\ InOrder' /\ Remembered' /\ HandNew' /\ Released' /\ WireReleased' /\ HandReleased' /\ RelFirst' /\ HandRelFirst' /\ WireRelFirst' /\ WireNew' /\ WindowKept'
  <2>1. Begun' /\ OwnPid' /\ InOrder' /\ Remembered' /\ HandNew'
    BY <1>0, ZenonT(60) DEF Begun, OwnPid, InOrder, Remembered, HandNew
  <2>2. Released' /\ WireReleased' /\ HandReleased' /\ RelFirst' /\ HandRelFirst' /\ WireRelFirst' /\ WireNew' /\ WindowKept'
    BY <1>0, ZenonT(60) DEF Released, WireReleased, HandReleased, RelFirst, HandRelFirst, WireRelFirst, WireNew, WindowKept
  <2> QED
    BY <2>1, <2>2, Zenon
<1>21. InTypes'
  BY <1>0, <1>1, <1>2, Zenon DEF InTypes
<1>22. WireOnce'
  BY <1>0, <1>1, <1>2, ZenonT(60) DEF WireOnce
<1>23. HandOnce'
  BY <1>0, <1>1, <1>2, Zenon DEF HandOnce
<1>24. AnsOnce'
  BY <1>0, <1>1, <1>2 DEF AnsOnce
<1> QED
  BY <1>20, <1>21, <1>22, <1>23, <1>24, Zenon DEF InInv

\* The client gets an answer that ends an exchange.
End(p) ==
    /\ conn
    /\ toClient # <<>>
    /\ p = Head(toClient).pid
    /\ p \in DOMAIN exchange
    /\ Ends(Head(toClient), exchange[p])
    /\ toClient' = Tail(toClient)
    /\ exchange' = Shut(exchange, p)
    /\ UNCHANGED <<focus, conn, toBroker, sent, inInflight, handling, taken, refused>>

\* An answer ends an exchange of the client.
LEMMA StepEnd ==
    ASSUME InInv, NEW p, End(p)
    PROVE  InInv'
<1>0. /\ InTypes /\ Begun /\ OwnPid /\ InOrder /\ Remembered /\ HandNew
      /\ Released /\ WireReleased /\ HandReleased
      /\ RelFirst /\ HandRelFirst /\ WireRelFirst
      /\ WireOnce /\ WireNew /\ HandOnce /\ AnsOnce /\ WindowKept
      /\ UNCHANGED <<focus, conn, toBroker, sent, inInflight, handling, taken, refused>>
  BY Zenon DEF InInv, End
<1>1. conn /\ p # 0
  BY <1>0, FocusTypes, Zenon DEF End, InTypes
<1>2. /\ toClient' \in Seq(Answers(focus))
      /\ \A k, q : AnsAt(toClient', k, q) => k \in Nat /\ k > 0 /\ AnsAt(toClient, k + 1, q)
      /\ \A k, q : RecAt(toClient', k, q) => k \in Nat /\ k > 0 /\ RecAt(toClient, k + 1, q)
      /\ \A k, q : NoRecAt(toClient', k, q) => k \in Nat /\ k > 0 /\ NoRecAt(toClient, k + 1, q)
      /\ Head(toClient) = toClient[1]
      /\ 1 \in 1 .. Len(toClient)
  BY <1>0, TailAnswers, Zenon DEF InTypes, End
<1>3. /\ DOMAIN exchange' \subseteq Pids(focus)
      /\ exchange' \in [DOMAIN exchange' -> Exchanges(focus)]
      /\ \A q, m : Open(exchange', q, m) <=> Open(exchange, q, m) /\ q # p
      /\ \A q, m : Asks(exchange', q, m) <=> Asks(exchange, q, m) /\ q # p
  BY <1>0, CloseExchange, SMTT(30), Z3T(30) DEF InTypes, End
<1>4. \A m : Asks(exchange, p, m) =>
         \/ Qos(focus, m) = 1 /\ AnsAt(toClient, 1, p)
         \/ Qos(focus, m) = 2 /\ AnsAt(toClient, 1, p) /\ NoRecAt(toClient, 1, p) /\ focus.v5
  BY <1>2, Zenon DEF End, Ends, Asks, AnsAt, NoRecAt, Attr, Qos
<1>20. HandNew' /\ RelFirst' /\ HandRelFirst' /\ WireRelFirst' /\ WireNew' /\ WindowKept'
  BY <1>0, Zenon DEF HandNew, RelFirst, HandRelFirst, WireRelFirst, WireNew, WindowKept
<1>21. InTypes'
  BY <1>0, <1>1, <1>2, <1>3, <1>4, Zenon DEF InTypes
<1>22. Begun'
  BY <1>0, <1>1, <1>3, <1>4, Zenon DEF Begun
<1>23. OwnPid'
  BY <1>0, <1>1, <1>3, <1>4, Zenon DEF OwnPid
<1>24. InOrder'
  BY <1>0, <1>1, <1>3, <1>4, ZenonT(60) DEF InOrder
<1>25. Remembered'
  BY <1>0, <1>1, <1>3, <1>4, ZenonT(30) DEF Remembered
<1>26. Released'
  BY <1>0, <1>1, <1>2, <1>3, <1>4, SMTT(30), Z3T(30) DEF Released, AnsOnce
<1>27. WireReleased'
  BY <1>0, <1>1, <1>2, <1>3, <1>4, SMTT(30), Z3T(30) DEF WireReleased, WireOnce
<1>28. HandReleased'
  BY <1>0, <1>1, <1>2, <1>3, <1>4, SMTT(30), Z3T(30) DEF HandReleased, HandOnce, Begun
<1>29. WireOnce'
  BY <1>0, <1>1, <1>2, <1>3, <1>4, SMTT(30), Z3T(30) DEF WireOnce
<1>30. HandOnce'
  BY <1>0, <1>1, <1>2, <1>3, <1>4, ZenonT(60) DEF HandOnce
<1>31. AnsOnce'
  BY <1>0, <1>1, <1>2, <1>3, <1>4, SMTT(30), Z3T(30) DEF AnsOnce
<1> QED
  BY <1>20, <1>21, <1>22, <1>23, <1>24, <1>25, <1>26, <1>27, <1>28, <1>29, <1>30, <1>31, Zenon DEF InInv

\* The client gets a PUBREC.
Hear(p) ==
    /\ conn
    /\ toClient # <<>>
    /\ p = Head(toClient).pid
    /\ p \in DOMAIN exchange
    /\ Releases(Head(toClient), exchange[p])
    /\ toClient' = Tail(toClient)
    /\ exchange' = Heard(exchange, p)
    /\ toBroker' = Append(toBroker, Rel(p))
    /\ UNCHANGED <<focus, conn, sent, inInflight, handling, taken, refused>>

\* A PUBREC makes the client send its PUBREL.
LEMMA StepHear ==
    ASSUME InInv, NEW p, Hear(p)
    PROVE  InInv'
<1>0. /\ InTypes /\ Begun /\ OwnPid /\ InOrder /\ Remembered /\ HandNew
      /\ Released /\ WireReleased /\ HandReleased
      /\ RelFirst /\ HandRelFirst /\ WireRelFirst
      /\ WireOnce /\ WireNew /\ HandOnce /\ AnsOnce /\ WindowKept
      /\ UNCHANGED <<focus, conn, sent, inInflight, handling, taken, refused>>
  BY Zenon DEF InInv, Hear
<1> DEFINE L == Len(toBroker)
<1>1. conn /\ p \in Pids(focus)
  BY <1>0, Zenon DEF InTypes, Hear
<1>2. /\ toBroker' \in Seq(Packets(focus))
      /\ L \in Nat
      /\ \A k, q, m : PubAt(toBroker, k, q, m) => k \in Nat /\ k < L + 1
      /\ \A k, q : RelAt(toBroker, k, q) => k \in Nat /\ k < L + 1
      /\ \A k, q, m : PubAt(toBroker', k, q, m) <=> PubAt(toBroker, k, q, m)
      /\ \A k, q : RelAt(toBroker', k, q) <=> RelAt(toBroker, k, q) \/ (k = L + 1 /\ q = p)
  BY <1>0, <1>1, AppendRel, SMTT(30), Z3T(30) DEF InTypes, Hear
<1>3. /\ toClient' \in Seq(Answers(focus))
      /\ \A k, q : AnsAt(toClient', k, q) => k \in Nat /\ k > 0 /\ AnsAt(toClient, k + 1, q)
      /\ \A k, q : RecAt(toClient', k, q) => k \in Nat /\ k > 0 /\ RecAt(toClient, k + 1, q)
      /\ \A k, q : NoRecAt(toClient', k, q) => k \in Nat /\ k > 0 /\ NoRecAt(toClient, k + 1, q)
      /\ Head(toClient) = toClient[1]
      /\ 1 \in 1 .. Len(toClient)
  BY <1>0, TailAnswers, Zenon DEF InTypes, Hear
<1>4. /\ DOMAIN exchange' \subseteq Pids(focus)
      /\ exchange' \in [DOMAIN exchange' -> Exchanges(focus)]
      /\ \A q, m : Open(exchange', q, m) <=> Open(exchange, q, m)
      /\ \A q, m : Asks(exchange', q, m) <=> Asks(exchange, q, m) /\ q # p
  BY <1>0, ReceiveExchange, SMTT(30), Z3T(30) DEF InTypes, Hear
<1>5. AnsAt(toClient, 1, p) /\ \A m : Open(exchange, p, m) => Qos(focus, m) = 2
  BY <1>3, Zenon DEF Hear, Releases, Open, AnsAt, Attr, Qos
<1> HIDE DEF L
<1>20. HandNew' /\ WindowKept'
  BY <1>0, Zenon DEF HandNew, WindowKept
<1>21. InTypes'
  BY <1>0, <1>1, <1>2, <1>3, <1>4, <1>5, Zenon DEF InTypes
<1>22. Begun'
  BY <1>0, <1>1, <1>2, <1>4, <1>5, ZenonT(60) DEF Begun
<1>23. OwnPid'
  BY <1>0, <1>1, <1>2, <1>4, <1>5 DEF OwnPid
<1>24. InOrder'
  BY <1>0, <1>1, <1>2, <1>4, <1>5, SMTT(30), Z3T(30) DEF InOrder
<1>25. Remembered'
  BY <1>0, <1>1, <1>2, <1>4, <1>5 DEF Remembered
<1>26. Released'
  BY <1>0, <1>1, <1>2, <1>4, <1>5, Zenon DEF Released
<1>27. WireReleased'
  BY <1>0, <1>1, <1>2, <1>4, <1>5, Zenon DEF WireReleased
<1>28. HandReleased'
  BY <1>0, <1>1, <1>2, <1>4, <1>5, Zenon DEF HandReleased
<1>29. RelFirst'
  BY <1>0, <1>1, <1>2, Zenon DEF RelFirst
<1>30. HandRelFirst'
  BY <1>0, <1>1, <1>2, Zenon DEF HandRelFirst
<1>31. WireRelFirst'
  BY <1>0, <1>1, <1>2, Zenon DEF WireRelFirst
<1>32. WireOnce'
  BY <1>0, <1>1, <1>2, <1>3, <1>4, <1>5, SMTT(30), Z3T(30) DEF WireOnce
<1>33. WireNew'
  BY <1>0, <1>1, <1>2, Zenon DEF WireNew
<1>34. HandOnce'
  BY <1>0, <1>1, <1>3, <1>4, <1>5, Zenon DEF HandOnce
<1>35. AnsOnce'
  BY <1>0, <1>1, <1>3, <1>4, <1>5 DEF AnsOnce
<1> QED
  BY <1>20, <1>21, <1>22, <1>23, <1>24, <1>25, <1>26, <1>27, <1>28, <1>29, <1>30, <1>31, <1>32, <1>33, <1>34, <1>35, ZenonT(60) DEF InInv

-----------------------------------------------------------------------------
(* The session.                                                            *)

\* The connection goes.
Down ==
    /\ conn' = FALSE
    /\ toBroker' = <<>>
    /\ toClient' = <<>>
    /\ \/ inInflight' = {} /\ handling' = NoPacket
       \/ handling # NoPacket /\ UNCHANGED <<inInflight, handling>>
    /\ focus.window <= MaxInflight => refused' = refused
    /\ UNCHANGED <<focus, sent, exchange, taken>>

\* The connection ends, and what was on the wire is lost.
LEMMA StepDown ==
    ASSUME InInv, Down
    PROVE  InInv'
<1>0. /\ InTypes /\ Begun /\ OwnPid /\ InOrder /\ Remembered /\ HandNew
      /\ Released /\ WireReleased /\ HandReleased
      /\ RelFirst /\ HandRelFirst /\ WireRelFirst
      /\ WireOnce /\ WireNew /\ HandOnce /\ AnsOnce /\ WindowKept
      /\ UNCHANGED <<focus, sent, exchange, taken>>
  BY Zenon DEF InInv, Down
<1>1. /\ conn' = FALSE /\ ~conn'
      /\ \A k, p, m : ~PubAt(toBroker', k, p, m)
      /\ \A k, p : ~RelAt(toBroker', k, p)
  BY DEF Down, PubAt, RelAt
<1>3. /\ toBroker' = <<>> /\ toBroker' \in Seq(Packets(focus))
      /\ toClient' = <<>> /\ toClient' \in Seq(Answers(focus))
  BY DEF Down
<1>2. \/ /\ inInflight' = {}
         /\ handling' = NoPacket
         /\ \A p, m : ~Hand(handling', p, m)
         /\ \A p, m : ~HandOk(handling', p, m)
         /\ \A p : ~Added(handling', p)
      \/ handling # NoPacket /\ UNCHANGED <<inInflight, handling>>
  BY NothingInHand, Zenon DEF Down
<1>20. InTypes'
  <2>1. /\ inInflight' \subseteq Pids(focus)
        /\ handling' \in InHand(focus) \cup {NoPacket}
        /\ handling' = NoPacket => inInflight' = {}
    BY <1>0, <1>2, Zenon DEF InTypes
  <2> QED
    BY <1>0, <1>1, <1>3, <2>1, Zenon DEF InTypes
<1>21. Begun'
  BY <1>0, <1>1, <1>2, Zenon DEF Begun
<1>22. OwnPid'
  BY <1>0, <1>1, <1>2, Zenon DEF OwnPid
<1>23. InOrder'
  BY <1>0, <1>1, Zenon DEF InOrder
<1>24. Remembered'
  BY <1>0, <1>1, <1>2, Zenon DEF Remembered
<1>25. HandNew'
  BY <1>0, <1>1, <1>2, Zenon DEF HandNew
<1>26. Released'
  BY <1>0, <1>1, <1>2, Zenon DEF Released
<1>27. WireReleased'
  BY <1>0, <1>1, Zenon DEF WireReleased
<1>28. HandReleased'
  BY <1>0, <1>1, <1>2, Zenon DEF HandReleased
<1>29. RelFirst'
  BY <1>0, <1>1, <1>2, Zenon DEF RelFirst
<1>30. HandRelFirst'
  BY <1>0, <1>1, <1>2, Zenon DEF HandRelFirst
<1>31. WireRelFirst'
  BY <1>0, <1>1, Zenon DEF WireRelFirst
<1>32. WireOnce'
  BY <1>0, <1>1, <1>2, Zenon DEF WireOnce
<1>33. WireNew'
  BY <1>0, <1>1, <1>2, Zenon DEF WireNew
<1>34. HandOnce'
  BY <1>0, <1>1, <1>2, Zenon DEF HandOnce
<1>35. AnsOnce'
  BY <1>0, <1>1, <1>2, Zenon DEF AnsOnce
<1>36. WindowKept'
  BY <1>0, Zenon DEF WindowKept, Down
<1> QED
  BY <1>20, <1>21, <1>22, <1>23, <1>24, <1>25, <1>26, <1>27, <1>28, <1>29, <1>30, <1>31, <1>32, <1>33, <1>34, <1>35, <1>36, ZenonT(60) DEF InInv

\* The client connects again, and sends what is open.
Up(s) ==
    /\ ~conn
    /\ handling = NoPacket
    /\ conn' = TRUE
    /\ \E size \in Nat : s \in [1 .. size -> DOMAIN exchange]
    /\ \A i, j \in DOMAIN s : s[i] = s[j] => i = j
    /\ toBroker' = [i \in DOMAIN s |-> IF exchange[s[i]].rec THEN Rel(s[i]) ELSE Pub(s[i], exchange[s[i]].m)]
    /\ taken' = [m \in DOMAIN taken |-> 0]
    /\ UNCHANGED <<focus, toClient, sent, exchange, inInflight, handling, refused>>

\* The client comes back to a session that remembers nothing.
LEMMA StepUp ==
    ASSUME InInv, NEW s, Up(s)
    PROVE  InInv'
<1>0. /\ InTypes /\ Begun /\ OwnPid /\ InOrder /\ Remembered /\ HandNew
      /\ Released /\ WireReleased /\ HandReleased
      /\ RelFirst /\ HandRelFirst /\ WireRelFirst
      /\ WireOnce /\ WireNew /\ HandOnce /\ AnsOnce /\ WindowKept
      /\ UNCHANGED <<focus, toClient, sent, exchange, inInflight, handling, refused>>
  BY Zenon DEF InInv, Up
<1>1. /\ conn'
      /\ inInflight' = {}
      /\ toClient' = <<>>
      /\ \A p, m : ~Hand(handling', p, m)
      /\ \A p, m : ~HandOk(handling', p, m)
      /\ \A p : ~Added(handling', p)
      /\ \A k, p : ~AnsAt(toClient', k, p)
      /\ \A k, p : ~NoRecAt(toClient', k, p)
  BY <1>0, NothingInHand DEF Up, InTypes, AnsAt, NoRecAt
<1>2. /\ toBroker' \in Seq(Packets(focus))
      /\ \A k, p, m : PubAt(toBroker', k, p, m) => Asks(exchange, p, m) /\ k \in DOMAIN s /\ p = s[k]
      /\ \A k, p, m : RelAt(toBroker', k, p) => ~Asks(exchange, p, m)
  <2>1. PICK size \in Nat : s \in [1 .. size -> DOMAIN exchange]
    BY Zenon DEF Up
  <2> DEFINE x(i) == IF exchange[s[i]].rec THEN Rel(s[i]) ELSE Pub(s[i], exchange[s[i]].m)
  <2>2. \A i \in 1 .. size : x(i) \in Packets(focus)
    <3>1. SUFFICES ASSUME NEW i \in 1 .. size PROVE x(i) \in Packets(focus)
      BY Zenon
    <3>2. focus \in Foci /\ s[i] \in Pids(focus) /\ exchange[s[i]].m \in Msgs(focus)
      BY <1>0, <2>1, Zenon DEF InTypes, Exchanges
    <3> QED
      BY <3>2, FocusTypes, Zenon DEF Rel, Pub, Packets
  <2>3. toBroker' = [i \in 1 .. size |-> x(i)]
    BY <2>1, Zenon DEF Up
  <2>4. toBroker' \in Seq(Packets(focus)) /\ Len(toBroker') = size
    <3> HIDE DEF x
    <3> QED
      BY <2>2, <2>3
  <2>5. \A k, p, m : PubAt(toBroker', k, p, m) => Asks(exchange, p, m) /\ k \in DOMAIN s /\ p = s[k]
    BY <2>1, <2>3, <2>4, Zenon DEF PubAt, Asks, Rel, Pub
  <2>6. \A k, p, m : RelAt(toBroker', k, p) => ~Asks(exchange, p, m)
    BY <2>1, <2>3, <2>4, Zenon DEF RelAt, Asks, Rel, Pub
  <2> QED
    BY <2>4, <2>5, <2>6, Zenon
<1>3. /\ \A i, k, p, m, n : PubAt(toBroker', i, p, m) /\ PubAt(toBroker', k, p, n) => i = k /\ m = n
  BY <1>2 DEF Up, Asks
<1>4. \A p, m : Asks(exchange, p, m) => Open(exchange, p, m) /\ p \in Pids(focus) /\ p # 0
  <2>1. focus \in Foci
    BY <1>0, Zenon DEF InTypes
  <2> QED
    BY <1>0, <2>1, Places, FocusTypes, Zenon
<1>5. /\ taken' \in [Msgs(focus) -> Nat]
      /\ \A m \in Msgs(focus) : ~(taken'[m] > 0)
  BY <1>0 DEF InTypes, Up
<1>20. HandNew' /\ WindowKept'
  BY <1>0, Zenon DEF HandNew, WindowKept
<1>21. InTypes'
  BY <1>0, <1>1, <1>2, <1>5, Zenon DEF InTypes
<1>22. Begun'
  BY <1>0, <1>1, <1>2, <1>4, <1>5, ZenonT(60) DEF Begun
<1>23. OwnPid'
  BY <1>0, <1>1, <1>2, <1>3, <1>4 DEF OwnPid
<1>24. InOrder'
  BY <1>0, <1>1, <1>2, <1>3, <1>4, SMTT(30), Z3T(30) DEF InOrder
<1>25. Remembered'
  BY <1>0, <1>1, <1>2, <1>5, Zenon DEF Remembered
<1>26. Released'
  BY <1>0, <1>1, <1>2, <1>3, <1>4, Zenon DEF Released
<1>27. WireReleased'
  BY <1>0, <1>1, <1>2, <1>3, <1>4, Zenon DEF WireReleased
<1>28. HandReleased'
  BY <1>0, <1>1, <1>2, <1>3, <1>4, Zenon DEF HandReleased
<1>29. RelFirst'
  BY <1>0, <1>1, <1>2, <1>3, Zenon DEF RelFirst
<1>30. HandRelFirst'
  BY <1>0, <1>1, <1>2, Zenon DEF HandRelFirst
<1>31. WireRelFirst'
  BY <1>0, <1>1, <1>2, <1>3, SMTT(30), Z3T(30) DEF WireRelFirst
<1>32. WireOnce'
  BY <1>0, <1>1, <1>2, <1>3, <1>4, Zenon DEF WireOnce
<1>33. WireNew'
  BY <1>0, <1>1, <1>2, <1>3, Zenon DEF WireNew
<1>34. HandOnce'
  BY <1>0, <1>1, <1>2, <1>4, Zenon DEF HandOnce
<1>35. AnsOnce'
  BY <1>0, <1>1, <1>2, <1>4, Zenon DEF AnsOnce
<1> QED
  BY <1>20, <1>21, <1>22, <1>23, <1>24, <1>25, <1>26, <1>27, <1>28, <1>29, <1>30, <1>31, <1>32, <1>33, <1>34, <1>35, ZenonT(60) DEF InInv

-----------------------------------------------------------------------------
(* The steps of the session.                                               *)

\* The session handles a PUBREL.
Freed(p) ==
    /\ conn
    /\ handling = NoPacket
    /\ toBroker # <<>>
    /\ Head(toBroker).t = "pubrel"
    /\ p = Head(toBroker).pid
    /\ inInflight' = inInflight \ {p}
    /\ toClient' = Append(toClient, Ack("pubcomp", p, TRUE))
    /\ toBroker' = Tail(toBroker)
    /\ UNCHANGED <<focus, conn, sent, exchange, handling, taken, refused>>

\* A PUBREL takes its packet id out of in_inflight (InInflight::remove).
LEMMA StepRelease ==
    ASSUME InInv, NEW p, Freed(p)
    PROVE  InInv'
<1>0. /\ InTypes /\ Begun /\ OwnPid /\ InOrder /\ Remembered /\ HandNew
      /\ Released /\ WireReleased /\ HandReleased
      /\ RelFirst /\ HandRelFirst /\ WireRelFirst
      /\ WireOnce /\ WireNew /\ HandOnce /\ AnsOnce /\ WindowKept
      /\ UNCHANGED <<focus, conn, sent, exchange, handling, taken, refused>>
  BY Zenon DEF InInv, Freed
<1>1. /\ conn /\ inInflight' = inInflight \ {p}
      /\ \A q, n : ~Hand(handling, q, n)
      /\ \A q, n : ~HandOk(handling, q, n)
      /\ \A q : ~Added(handling, q)
  BY NothingInHand, Zenon DEF Freed
<1>2. /\ toBroker' \in Seq(Packets(focus))
      /\ \A k, q, n : PubAt(toBroker', k, q, n) => k \in Nat /\ k > 0 /\ PubAt(toBroker, k + 1, q, n)
      /\ \A k, q : RelAt(toBroker', k, q) => k \in Nat /\ k > 0 /\ RelAt(toBroker, k + 1, q)
      /\ \A k, q : RelAt(toBroker, k, q) => k = 1 \/ (k \in Nat /\ k > 1 /\ RelAt(toBroker', k - 1, q))
      /\ 1 \in 1 .. Len(toBroker)
      /\ toBroker[1] \in Packets(focus)
      /\ Head(toBroker) = toBroker[1]
  BY <1>0, TailMoves, Zenon DEF InTypes, Freed
<1>3. /\ p \in Pids(focus)
      /\ RelAt(toBroker, 1, p)
      /\ \A q : RelAt(toBroker, 1, q) => q = p
  BY <1>2, Zenon DEF Freed, RelAt, Packets
<1>4. /\ toClient' \in Seq(Answers(focus))
      /\ \A k, q : AnsAt(toClient', k, q) <=> AnsAt(toClient, k, q)
      /\ \A k, q : RecAt(toClient', k, q) <=> RecAt(toClient, k, q)
      /\ \A k, q : NoRecAt(toClient', k, q) <=> NoRecAt(toClient, k, q)
  <2>1. toClient \in Seq(Answers(focus)) /\ toClient' = Append(toClient, Ack("pubcomp", p, TRUE))
    BY <1>0, Zenon DEF InTypes, Freed
  <2>2. /\ Ack("pubcomp", p, TRUE) \in Answers(focus)
        /\ Ack("pubcomp", p, TRUE).t = "pubcomp"
    BY <1>3, Zenon DEF Ack, Answers
  <2> QED
    BY <2>1, <2>2, AppendAns, Zenon
<1>20. WindowKept'
  BY <1>0, Zenon DEF WindowKept
<1>21. InTypes'
  BY <1>0, <1>1, <1>2, <1>3, <1>4, Zenon DEF InTypes
<1>22. Begun'
  BY <1>0, <1>1, <1>2, <1>3, ZenonT(60) DEF Begun
<1>23. OwnPid'
  BY <1>0, <1>1, <1>2, <1>3, SMTT(30), Z3T(30) DEF OwnPid
<1>24. InOrder'
  <2>1. ASSUME NEW i, NEW j, NEW k, NEW q, NEW n, Qos(focus, n) = 2, i < j, j < k,
                PubAt(toBroker', i, q, n), RelAt(toBroker', j, q), PubAt(toBroker', k, q, n)
         PROVE  FALSE
    <3>1. /\ i \in Nat /\ j \in Nat /\ k \in Nat
          /\ PubAt(toBroker, i + 1, q, n) /\ RelAt(toBroker, j + 1, q) /\ PubAt(toBroker, k + 1, q, n)
      BY <1>2, <2>1, Zenon
    <3>2. i + 1 < j + 1 /\ j + 1 < k + 1
      BY <2>1, <3>1, SMTT(30), Z3T(30)
    <3> QED
      BY <1>0, <2>1, <3>1, <3>2, Zenon DEF InOrder
  <2>2. ASSUME NEW i, NEW j, NEW q, NEW n, Qos(focus, n) = 2,
                PubAt(toBroker', i, q, n), RelAt(toBroker', j, q), Asks(exchange, q, n)
         PROVE  j < i
    <3>1. /\ i \in Nat /\ j \in Nat
          /\ PubAt(toBroker, i + 1, q, n) /\ RelAt(toBroker, j + 1, q)
      BY <1>2, <2>2, Zenon
    <3>2. j + 1 < i + 1
      BY <1>0, <2>2, <3>1, Zenon DEF InOrder
    <3> QED
      BY <3>1, <3>2
  <2> QED
    BY <1>0, <2>1, <2>2, Zenon DEF InOrder
<1>25. Remembered'
  BY <1>0, <1>1, <1>2, <1>3, SMTT(30), Z3T(30) DEF Remembered
<1>26. HandNew'
  BY <1>0, <1>1, Zenon DEF HandNew
<1>27. Released'
  BY <1>0, <1>1, <1>2, <1>3, SMTT(30), Z3T(30) DEF Released
<1>28. WireReleased'
  BY <1>0, <1>1, <1>2, <1>3, SMTT(30), Z3T(30) DEF WireReleased
<1>29. HandReleased'
  BY <1>0, <1>1, <1>2, <1>3, Zenon DEF HandReleased
<1>30. RelFirst'
  BY <1>0, <1>1, <1>2, <1>3, SMTT(30), Z3T(30) DEF RelFirst
<1>31. HandRelFirst'
  BY <1>0, <1>1, <1>2, <1>3, ZenonT(30) DEF HandRelFirst
<1>32. WireRelFirst'
  BY <1>0, <1>1, <1>2, <1>3, SMTT(30), Z3T(30) DEF WireRelFirst
<1>33. WireOnce'
  BY <1>0, <1>1, <1>2, <1>3, <1>4, SMTT(30), Z3T(30) DEF WireOnce
<1>34. WireNew'
  BY <1>0, <1>1, <1>2, <1>3, SMTT(30), Z3T(30) DEF WireNew
<1>35. HandOnce'
  BY <1>0, <1>1, <1>4, Zenon DEF HandOnce
<1>36. AnsOnce'
  BY <1>0, <1>1, <1>4, Zenon DEF AnsOnce
<1> QED
  BY <1>20, <1>21, <1>22, <1>23, <1>24, <1>25, <1>26, <1>27, <1>28, <1>29, <1>30, <1>31, <1>32, <1>33, <1>34, <1>35, <1>36, ZenonT(60) DEF InInv

\* The session handles a publish that it remembers.
Again(p, m) ==
    /\ conn
    /\ handling = NoPacket
    /\ toBroker # <<>>
    /\ Head(toBroker).t = "publish"
    /\ p = Head(toBroker).pid
    /\ m = Head(toBroker).m
    /\ Qos(focus, m) = 2
    /\ p \in inInflight
    /\ toClient' = Append(toClient, Ack("pubrec", p, FALSE))
    /\ toBroker' = Tail(toBroker)
    /\ UNCHANGED <<focus, conn, sent, exchange, inInflight, handling, taken, refused>>

\* A packet id that is remembered is answered and not forwarded (InInflight::exist).
LEMMA StepDuplicate ==
    ASSUME InInv, NEW p, NEW m, Again(p, m)
    PROVE  InInv'
<1>0. /\ InTypes /\ Begun /\ OwnPid /\ InOrder /\ Remembered /\ HandNew
      /\ Released /\ WireReleased /\ HandReleased
      /\ RelFirst /\ HandRelFirst /\ WireRelFirst
      /\ WireOnce /\ WireNew /\ HandOnce /\ AnsOnce /\ WindowKept
      /\ UNCHANGED <<focus, conn, sent, exchange, inInflight, handling, taken, refused>>
  BY Zenon DEF InInv, Again
<1>1. /\ conn /\ p \in inInflight
      /\ \A q, n : ~Hand(handling, q, n)
      /\ \A q, n : ~HandOk(handling, q, n)
      /\ \A q : ~Added(handling, q)
  BY NothingInHand, Zenon DEF Again
<1>2. /\ toBroker' \in Seq(Packets(focus))
      /\ \A k, q, n : PubAt(toBroker', k, q, n) => k \in Nat /\ k > 0 /\ PubAt(toBroker, k + 1, q, n)
      /\ \A k, q : RelAt(toBroker', k, q) => k \in Nat /\ k > 0 /\ RelAt(toBroker, k + 1, q)
      /\ \A k, q : RelAt(toBroker, k, q) => k = 1 \/ (k \in Nat /\ k > 1 /\ RelAt(toBroker', k - 1, q))
      /\ 1 \in 1 .. Len(toBroker)
      /\ Head(toBroker) = toBroker[1]
  BY <1>0, TailMoves, Zenon DEF InTypes, Again
<1>3. /\ PubAt(toBroker, 1, p, m)
      /\ \A q : ~RelAt(toBroker, 1, q)
      /\ p \in Pids(focus)
  BY <1>0, <1>2, Zenon DEF InTypes, Again, RelAt, PubAt
<1>4. ~focus.v5 /\ toClient' \in Seq(Answers(focus))
  <2>1. toClient \in Seq(Answers(focus)) /\ toClient' = Append(toClient, Ack("pubrec", p, FALSE))
    BY <1>0, Zenon DEF InTypes, Again
  <2>2. Ack("pubrec", p, FALSE) \in Answers(focus)
    BY <1>3, Zenon DEF Ack, Answers
  <2>3. \A j, q : RelAt(toBroker, j, q) => ~(j < 1)
    BY <1>0, Places
  <2> QED
    BY <1>0, <1>1, <1>3, <2>1, <2>2, <2>3, AppendAns, Zenon DEF WireNew
<1>20. HandNew' /\ WindowKept'
  BY <1>0, Zenon DEF HandNew, WindowKept
<1>21. InTypes'
  BY <1>0, <1>1, <1>2, <1>3, <1>4, ZenonT(60) DEF InTypes
<1>22. Begun'
  BY <1>0, <1>1, <1>2, <1>3, ZenonT(60) DEF Begun
<1>23. OwnPid'
  BY <1>0, <1>1, <1>2, <1>3, ZenonT(60) DEF OwnPid
<1>24. InOrder'
  <2>1. ASSUME NEW i, NEW j, NEW k, NEW q, NEW n, Qos(focus, n) = 2, i < j, j < k,
                PubAt(toBroker', i, q, n), RelAt(toBroker', j, q), PubAt(toBroker', k, q, n)
         PROVE  FALSE
    <3>1. /\ i \in Nat /\ j \in Nat /\ k \in Nat
          /\ PubAt(toBroker, i + 1, q, n) /\ RelAt(toBroker, j + 1, q) /\ PubAt(toBroker, k + 1, q, n)
      BY <1>2, <2>1, Zenon
    <3>2. i + 1 < j + 1 /\ j + 1 < k + 1
      BY <2>1, <3>1
    <3> QED
      BY <1>0, <2>1, <3>1, <3>2, Zenon DEF InOrder
  <2>2. ASSUME NEW i, NEW j, NEW q, NEW n, Qos(focus, n) = 2,
                PubAt(toBroker', i, q, n), RelAt(toBroker', j, q), Asks(exchange, q, n)
         PROVE  j < i
    <3>1. /\ i \in Nat /\ j \in Nat
          /\ PubAt(toBroker, i + 1, q, n) /\ RelAt(toBroker, j + 1, q)
      BY <1>2, <2>2, Zenon
    <3>2. j + 1 < i + 1
      BY <1>0, <2>2, <3>1, ZenonT(30) DEF InOrder
    <3> QED
      BY <3>1, <3>2, SMTT(30), Z3T(30)
  <2> QED
    BY <1>0, <2>1, <2>2, Zenon DEF InOrder
<1>25. Remembered'
  BY <1>0, <1>1, <1>2, <1>3, SMTT(30), Z3T(30) DEF Remembered
<1>26. Released'
  BY <1>0, <1>1, <1>2, <1>3, Zenon DEF Released
<1>27. WireReleased'
  BY <1>0, <1>1, <1>2, <1>3, SMTT(30), Z3T(30) DEF WireReleased
<1>28. HandReleased'
  BY <1>0, <1>1, <1>2, <1>3, Zenon DEF HandReleased
<1>29. RelFirst'
  BY <1>0, <1>1, <1>2, <1>3, SMTT(30), Z3T(30) DEF RelFirst
<1>30. HandRelFirst'
  BY <1>0, <1>1, <1>2, <1>3, Zenon DEF HandRelFirst
<1>31. WireRelFirst'
  BY <1>0, <1>1, <1>2, <1>3, SMTT(30), Z3T(30) DEF WireRelFirst
<1>32. WireOnce'
  BY <1>0, <1>1, <1>2, <1>3, <1>4, Zenon DEF WireOnce
<1>33. WireNew'
  BY <1>0, <1>1, <1>2, <1>3, SMTT(30), Z3T(30) DEF WireNew
<1>34. HandOnce'
  BY <1>0, <1>1, <1>4, Zenon DEF HandOnce
<1>35. AnsOnce'
  BY <1>0, <1>1, <1>4, Zenon DEF AnsOnce
<1> QED
  BY <1>20, <1>21, <1>22, <1>23, <1>24, <1>25, <1>26, <1>27, <1>28, <1>29, <1>30, <1>31, <1>32, <1>33, <1>34, <1>35, ZenonT(60) DEF InInv

\* The session takes a publish.
Takes(p, m, ok) ==
    /\ conn
    /\ handling = NoPacket
    /\ toBroker # <<>>
    /\ Head(toBroker).t = "publish"
    /\ p = Head(toBroker).pid
    /\ m = Head(toBroker).m
    /\ ok \in BOOLEAN
    /\ ~(Qos(focus, m) = 2 /\ p \in inInflight)
    /\ handling' = [t |-> "publish", pid |-> p, m |-> m, ok |-> ok,
                    added |-> Qos(focus, m) = 1 /\ p \notin inInflight]
    /\ inInflight' = IF Qos(focus, m) = 1 THEN inInflight \cup {p} ELSE inInflight
    /\ taken' = [taken EXCEPT ![m] = IF ok THEN @ + 1 ELSE @]
    /\ toBroker' = Tail(toBroker)
    /\ UNCHANGED <<focus, conn, toClient, sent, exchange, refused>>

\* A publish that is new is taken in hand, and forwarded or refused (_publish).
LEMMA StepTake ==
    ASSUME InInv, NEW p, NEW m, NEW ok, Takes(p, m, ok)
    PROVE  InInv'
<1>0. /\ InTypes /\ Begun /\ OwnPid /\ InOrder /\ Remembered /\ HandNew
      /\ Released /\ WireReleased /\ HandReleased
      /\ RelFirst /\ HandRelFirst /\ WireRelFirst
      /\ WireOnce /\ WireNew /\ HandOnce /\ AnsOnce /\ WindowKept
      /\ UNCHANGED <<focus, conn, toClient, sent, exchange, refused>>
  BY Zenon DEF InInv, Takes
<1>1. /\ conn
      /\ \A q, n : ~Hand(handling, q, n)
      /\ \A q, n : ~HandOk(handling, q, n)
      /\ \A q : ~Added(handling, q)
  BY NothingInHand, Zenon DEF Takes
<1>2. /\ toBroker' \in Seq(Packets(focus))
      /\ \A k, q, n : PubAt(toBroker', k, q, n) => k \in Nat /\ k > 0 /\ PubAt(toBroker, k + 1, q, n)
      /\ \A k, q : RelAt(toBroker', k, q) => k \in Nat /\ k > 0 /\ RelAt(toBroker, k + 1, q)
      /\ \A k, q : RelAt(toBroker, k, q) => k = 1 \/ (k \in Nat /\ k > 1 /\ RelAt(toBroker', k - 1, q))
      /\ 1 \in 1 .. Len(toBroker)
      /\ toBroker[1] \in Packets(focus)
      /\ Head(toBroker) = toBroker[1]
  BY <1>0, TailMoves, Zenon DEF InTypes, Takes
<1>3. /\ PubAt(toBroker, 1, p, m)
      /\ \A q : ~RelAt(toBroker, 1, q)
  BY <1>2, Zenon DEF Takes, RelAt, PubAt
<1>4. /\ m \in Msgs(focus)
      /\ p \in 0 .. focus.window
      /\ Qos(focus, m) = 1 => p \in Pids(focus)
      /\ Qos(focus, m) # 0 => p # 0
      /\ \A j, q : RelAt(toBroker, j, q) => ~(j < 1)
  <2>1. p \in 0 .. focus.window /\ m \in Msgs(focus)
    BY <1>0, <1>3, Places, Zenon
  <2>2. \A j, q : RelAt(toBroker, j, q) => ~(j < 1)
    BY <1>0, Places
  <2>3. p = 0 <=> Qos(focus, m) = 0
    BY <1>0, <1>3, Zenon DEF Begun
  <2>4. focus \in Foci
    BY <1>0, Zenon DEF InTypes
  <2> QED
    BY <2>1, <2>2, <2>3, <2>4, FocusTypes, SMTT(30), Z3T(30)
<1>5. /\ Qos(focus, m) \in {1, 2} => p \notin inInflight
      /\ inInflight' = IF Qos(focus, m) = 1 THEN inInflight \cup {p} ELSE inInflight
  BY <1>0, <1>1, <1>3, <1>4, Zenon DEF RelFirst, Takes
<1>6. /\ handling' \in InHand(focus)
      /\ \A q, n : Hand(handling', q, n) <=> q = p /\ n = m
      /\ \A q, n : HandOk(handling', q, n) <=> q = p /\ n = m /\ ok
      /\ \A q : Added(handling', q) <=> q = p /\ Qos(focus, m) = 1
  <2> DEFINE added == Qos(focus, m) = 1 /\ p \notin inInflight
  <2>1. ok \in BOOLEAN /\ handling' = [t |-> "publish", pid |-> p, m |-> m, ok |-> ok, added |-> added]
    BY Zenon DEF Takes
  <2>2. added \in BOOLEAN /\ (added <=> Qos(focus, m) = 1)
    BY <1>5, ZenonT(30)
  <2> HIDE DEF added
  <2> QED
    BY <1>4, <2>1, <2>2, TakeInHand, SMTT(30), Z3T(30)
<1>7. /\ taken' \in [Msgs(focus) -> Nat]
      /\ \A n \in Msgs(focus) : n # m => taken'[n] = taken[n]
      /\ taken'[m] = IF ok THEN taken[m] + 1 ELSE taken[m]
      /\ ok \in BOOLEAN
  <2>1. taken \in [Msgs(focus) -> Nat] /\ ok \in BOOLEAN /\ taken' = [taken EXCEPT ![m] = IF ok THEN @ + 1 ELSE @]
    BY <1>0, Zenon DEF InTypes, Takes
  <2> QED
    BY <1>4, <2>1
<1>20. WindowKept'
  BY <1>0, Zenon DEF WindowKept
<1>21. InTypes'
  BY <1>0, <1>1, <1>2, <1>4, <1>5, <1>6, <1>7, ZenonT(60) DEF InTypes
<1>22. Begun'
  BY <1>0, <1>1, <1>2, <1>3, <1>4, <1>6, <1>7, SMTT(30), Z3T(30) DEF Begun
<1>23. OwnPid'
  BY <1>0, <1>1, <1>2, <1>3, <1>6, SMTT(30), Z3T(30) DEF OwnPid
<1>24. InOrder'
  <2>1. ASSUME NEW i, NEW j, NEW k, NEW q, NEW n, Qos(focus, n) = 2, i < j, j < k,
                PubAt(toBroker', i, q, n), RelAt(toBroker', j, q), PubAt(toBroker', k, q, n)
         PROVE  FALSE
    <3>1. /\ i \in Nat /\ j \in Nat /\ k \in Nat
          /\ PubAt(toBroker, i + 1, q, n) /\ RelAt(toBroker, j + 1, q) /\ PubAt(toBroker, k + 1, q, n)
      BY <1>2, <2>1, Zenon
    <3>2. i + 1 < j + 1 /\ j + 1 < k + 1
      BY <2>1, <3>1, SMTT(30), Z3T(30)
    <3> QED
      BY <1>0, <2>1, <3>1, <3>2, Zenon DEF InOrder
  <2>2. ASSUME NEW i, NEW j, NEW q, NEW n, Qos(focus, n) = 2,
                PubAt(toBroker', i, q, n), RelAt(toBroker', j, q), Asks(exchange, q, n)
         PROVE  j < i
    <3>1. /\ i \in Nat /\ j \in Nat
          /\ PubAt(toBroker, i + 1, q, n) /\ RelAt(toBroker, j + 1, q)
      BY <1>2, <2>2, Zenon
    <3>2. j + 1 < i + 1
      BY <1>0, <2>2, <3>1, Zenon DEF InOrder
    <3> QED
      BY <3>1, <3>2
  <2> QED
    BY <1>0, <2>1, <2>2, Zenon DEF InOrder
<1>25. Remembered'
  <2>1. ASSUME NEW n \in Msgs(focus), Qos(focus, n) = 2, taken'[n] > 0, n # m
        PROVE  /\ taken'[n] = 1
               /\ \A k, q : PubAt(toBroker', k, q, n) =>
                     /\ q \in inInflight' \/ HandOk(handling', q, n)
                     /\ \A j : RelAt(toBroker', j, q) => k < j
                     /\ ~Added(handling', q)
               /\ \A q : Asks(exchange, q, n) =>
                     /\ q \in inInflight' \/ HandOk(handling', q, n)
                     /\ \A j : ~RelAt(toBroker', j, q)
                     /\ ~Added(handling', q)
    <3>1. /\ taken[n] > 0 /\ taken'[n] = taken[n] /\ taken[n] = 1
          /\ \A k, q : PubAt(toBroker, k, q, n) => q \in inInflight /\ \A j : RelAt(toBroker, j, q) => k < j
          /\ \A q : Asks(exchange, q, n) => q \in inInflight /\ \A j : ~RelAt(toBroker, j, q)
      BY <1>0, <1>1, <1>7, <2>1, Zenon DEF Remembered
    <3>2. ASSUME NEW q, q \in inInflight
          PROVE  q \in inInflight' /\ ~Added(handling', q)
      BY <1>5, <1>6, <3>2, Zenon
    <3>3. ASSUME NEW k, NEW q, PubAt(toBroker', k, q, n)
          PROVE  q \in inInflight /\ \A j : RelAt(toBroker', j, q) => k < j
      <4>1. k \in Nat /\ PubAt(toBroker, k + 1, q, n)
        BY <1>2, <3>3, Zenon
      <4>2. q \in inInflight /\ \A j : RelAt(toBroker, j, q) => k + 1 < j
        BY <3>1, <4>1, Zenon
      <4>3. \A j : RelAt(toBroker', j, q) => j \in Nat /\ k + 1 < j + 1
        BY <1>2, <4>2, Zenon
      <4> QED
        BY <4>1, <4>2, <4>3
    <3>4. ASSUME NEW q, Asks(exchange, q, n)
          PROVE  q \in inInflight /\ \A j : ~RelAt(toBroker', j, q)
      BY <1>2, <3>1, <3>4, Zenon
    <3> QED
      BY <3>1, <3>2, <3>3, <3>4, Zenon
  <2>2. ASSUME Qos(focus, m) = 2, taken'[m] > 0
        PROVE  /\ taken'[m] = 1
               /\ \A k, q : PubAt(toBroker', k, q, m) =>
                     /\ q \in inInflight' \/ HandOk(handling', q, m)
                     /\ \A j : RelAt(toBroker', j, q) => k < j
                     /\ ~Added(handling', q)
               /\ \A q : Asks(exchange, q, m) =>
                     /\ q \in inInflight' \/ HandOk(handling', q, m)
                     /\ \A j : ~RelAt(toBroker', j, q)
                     /\ ~Added(handling', q)
    <3>1. taken[m] \in Nat /\ ~(taken[m] > 0)
      BY <1>0, <1>1, <1>3, <1>4, <1>5, <2>2, ZenonT(60) DEF Remembered, InTypes
    <3>2. ok /\ taken'[m] = 1
      BY <1>7, <2>2, <3>1, SMTT(30), Z3T(30)
    <3>3. ASSUME NEW k, NEW q, PubAt(toBroker', k, q, m)
          PROVE  /\ HandOk(handling', q, m)
                 /\ \A j : RelAt(toBroker', j, q) => k < j
                 /\ ~Added(handling', q)
      <4>1. k \in Nat /\ k > 0 /\ PubAt(toBroker, k + 1, q, m) /\ q = p
        BY <1>0, <1>2, <1>3, <3>3, Zenon DEF OwnPid
      <4>2. ASSUME NEW j, RelAt(toBroker', j, q) PROVE k < j
        <5>1. j \in Nat /\ j > 0 /\ RelAt(toBroker, j + 1, p)
          BY <1>2, <4>1, <4>2, Zenon
        <5>2. ~(1 < j + 1 /\ j + 1 < k + 1)
          BY <1>0, <1>3, <2>2, <4>1, <5>1, Zenon DEF InOrder
        <5>3. j + 1 # k + 1
          BY <4>1, <5>1, ZenonT(60) DEF PubAt, RelAt
        <5> QED
          BY <4>1, <5>1, <5>2, <5>3, SMTT(30), Z3T(30)
      <4> QED
        BY <1>6, <2>2, <3>2, <4>1, <4>2, SMTT(30), Z3T(30)
    <3>4. ASSUME NEW q, Asks(exchange, q, m)
          PROVE  HandOk(handling', q, m) /\ ~Added(handling', q) /\ \A j : ~RelAt(toBroker', j, q)
      <4>1. q = p
        BY <1>0, <1>3, <3>4, AsksOpen, Zenon DEF OwnPid
      <4>2. \A j : RelAt(toBroker, j, q) => j < 1
        BY <1>0, <1>3, <2>2, <3>4, <4>1, ZenonT(60) DEF InOrder
      <4> QED
        BY <1>2, <1>4, <1>6, <2>2, <3>2, <4>1, <4>2, SMTT(30), Z3T(30)
    <3> QED
      BY <3>2, <3>3, <3>4, Zenon
  <2> QED
    BY <1>0, <2>1, <2>2, ZenonT(30) DEF Remembered
<1>26. HandNew'
  BY <1>0, <1>1, <1>5, <1>6, SMTT(30), Z3T(30) DEF HandNew
<1>27. Released'
  BY <1>0, <1>1, <1>2, <1>3, <1>4, <1>5, <1>6, SMTT(30), Z3T(30) DEF Released
<1>28. WireReleased'
  BY <1>0, <1>1, <1>2, <1>3, <1>4, SMTT(30), Z3T(30) DEF WireReleased
<1>29. HandReleased'
  BY <1>0, <1>1, <1>2, <1>3, <1>4, <1>6, SMTT(30), Z3T(30) DEF HandReleased, WireReleased
<1>30. RelFirst'
  BY <1>0, <1>1, <1>2, <1>3, <1>5, <1>6, SMTT(30), Z3T(30) DEF RelFirst
<1>31. HandRelFirst'
  BY <1>0, <1>1, <1>2, <1>3, <1>6, SMTT(30), Z3T(30) DEF WireRelFirst, HandRelFirst
<1>32. WireRelFirst'
  BY <1>0, <1>2, <1>3, SMTT(30), Z3T(30) DEF WireRelFirst
<1>33. WireOnce'
  BY <1>0, <1>1, <1>2, <1>3, <1>4, <1>6, SMTT(30), Z3T(30) DEF WireOnce
<1>34. WireNew'
  BY <1>0, <1>1, <1>2, <1>3, <1>4, <1>5, SMTT(30), Z3T(30) DEF WireNew, WireOnce
<1>35. HandOnce'
  BY <1>0, <1>1, <1>2, <1>3, <1>6, SMTT(30), Z3T(30) DEF HandOnce, WireOnce
<1>36. AnsOnce'
  <2>1. \A k, q : NoRecAt(toClient, k, q) => AnsAt(toClient, k, q)
    BY <1>0, Places, Zenon
  <2> QED
    BY <1>0, <1>1, <1>3, <1>4, <1>5, <2>1, SMTT(30), Z3T(30) DEF AnsOnce, WireOnce
<1> QED
  BY <1>20, <1>21, <1>22, <1>23, <1>24, <1>25, <1>26, <1>27, <1>28, <1>29, <1>30, <1>31, <1>32, <1>33, <1>34, <1>35, <1>36, ZenonT(60) DEF InInv

\* The session answers a publish of QoS 0 or 1.
Acks(p, m) ==
    /\ conn
    /\ handling # NoPacket
    /\ p = handling.pid
    /\ m = handling.m
    /\ Qos(focus, m) < 2
    /\ toClient' = IF Qos(focus, m) = 1 THEN Append(toClient, Ack("puback", p, handling.ok)) ELSE toClient
    /\ inInflight' = IF handling.added THEN inInflight \ {p} ELSE inInflight
    /\ handling' = NoPacket
    /\ UNCHANGED <<focus, conn, toBroker, sent, exchange, taken, refused>>

\* A QoS 1 publish is answered, and its packet id taken out again.
LEMMA StepAck ==
    ASSUME InInv, NEW p, NEW m, Acks(p, m)
    PROVE  InInv'
<1>0. /\ InTypes /\ Begun /\ OwnPid /\ InOrder /\ Remembered /\ HandNew
      /\ Released /\ WireReleased /\ HandReleased
      /\ RelFirst /\ HandRelFirst /\ WireRelFirst
      /\ WireOnce /\ WireNew /\ HandOnce /\ AnsOnce /\ WindowKept
      /\ UNCHANGED <<focus, conn, toBroker, sent, exchange, taken, refused>>
  BY Zenon DEF InInv, Acks
<1>1. /\ conn
      /\ \A q, n : Hand(handling, q, n) <=> q = p /\ n = m
      /\ \A q, n : HandOk(handling, q, n) <=> q = p /\ n = m /\ handling.ok
      /\ \A q : Added(handling, q) <=> q = p /\ handling.added
      /\ \A q, n : ~Hand(handling', q, n)
      /\ \A q, n : ~HandOk(handling', q, n)
      /\ \A q : ~Added(handling', q)
  BY NothingInHand, Zenon DEF Acks, Hand, HandOk, Added
<1>2. /\ Hand(handling, p, m)
      /\ Qos(focus, m) # 2
      /\ Qos(focus, m) = 1 => p # 0 /\ p \in Pids(focus)
      /\ \A q : q \in inInflight' <=> q \in inInflight /\ ~Added(handling, q)
  <2>1. Hand(handling, p, m) /\ focus \in Foci
    BY <1>0, <1>1, Zenon DEF InTypes
  <2>2. p \in 0 .. focus.window /\ m \in Msgs(focus) /\ (p = 0 <=> Qos(focus, m) = 0)
    BY <1>0, <2>1, Places, Zenon DEF Begun
  <2>3. Qos(focus, m) # 2
    BY DEF Acks
  <2>4. \A q : q \in inInflight' <=> q \in inInflight /\ ~Added(handling, q)
    BY <1>1, Zenon DEF Acks
  <2> QED
    BY <2>1, <2>2, <2>3, <2>4, FocusTypes, Zenon
<1>3. /\ toClient' \in Seq(Answers(focus))
      /\ Len(toClient) \in Nat
      /\ \A k, q : AnsAt(toClient, k, q) => k # Len(toClient) + 1
      /\ \A k, q : AnsAt(toClient', k, q) <=> AnsAt(toClient, k, q) \/ (k = Len(toClient) + 1 /\ q = p /\ Qos(focus, m) = 1)
      /\ \A k, q : RecAt(toClient', k, q) <=> RecAt(toClient, k, q)
      /\ \A k, q : NoRecAt(toClient', k, q) <=> NoRecAt(toClient, k, q)
      /\ \A k, q : RecAt(toClient, k, q) => AnsAt(toClient, k, q)
  <2>1. toClient \in Seq(Answers(focus)) /\ handling.ok \in BOOLEAN
    BY <1>0, Zenon DEF InTypes, Acks, InHand
  <2> DEFINE a == Ack("puback", p, handling.ok)
  <2>2. CASE Qos(focus, m) = 1
    <3>1. a \in Answers(focus) /\ a.t = "puback" /\ a.pid = p /\ toClient' = Append(toClient, a)
      BY <1>2, <2>1, <2>2, Zenon DEF Ack, Answers, Acks
    <3> HIDE DEF a
    <3>2. \A k, q : RecAt(toClient, k, q) => AnsAt(toClient, k, q)
      BY <1>0, Places, ZenonT(60)
    <3>3. \A k, q : AnsAt(toClient, k, q) => k # Len(toClient) + 1
      BY <1>0, Places
    <3> QED
      BY <2>1, <2>2, <3>1, <3>2, <3>3, AppendAns, ZenonT(30)
  <2>3. CASE Qos(focus, m) # 1
    <3>1. toClient' = toClient
      BY <2>3, Zenon DEF Acks
    <3>2. \A k, q : RecAt(toClient, k, q) => AnsAt(toClient, k, q)
      BY <1>0, Places, ZenonT(60)
    <3>3. Len(toClient) \in Nat /\ \A k, q : AnsAt(toClient, k, q) => k # Len(toClient) + 1
      BY <1>0, Places
    <3> QED
      BY <2>1, <2>3, <3>1, <3>2, <3>3, Zenon
  <2> QED
    BY <2>2, <2>3, Zenon
<1>20. InOrder' /\ WireReleased' /\ WireRelFirst' /\ WindowKept'
  BY <1>0, ZenonT(60) DEF InOrder, WireReleased, WireRelFirst, WindowKept
<1>21. InTypes'
  BY <1>0, <1>1, <1>2, <1>3 DEF InTypes, Acks
<1>22. Begun'
  BY <1>0, <1>1, <1>2, Zenon DEF Begun
<1>23. OwnPid'
  BY <1>0, <1>1, <1>2, Zenon DEF OwnPid
<1>24. Remembered'
  BY <1>0, <1>1, <1>2, Zenon DEF Remembered
<1>25. HandNew'
  BY <1>0, <1>1, <1>2, Zenon DEF HandNew
<1>26. Released'
  BY <1>0, <1>1, <1>2, Zenon DEF Released
<1>27. HandReleased'
  BY <1>0, <1>1, <1>2, Zenon DEF HandReleased
<1>28. RelFirst'
  BY <1>0, <1>1, <1>2, Zenon DEF RelFirst
<1>29. HandRelFirst'
  BY <1>0, <1>1, <1>2, ZenonT(60) DEF HandRelFirst
<1>30. WireOnce'
  <2> SUFFICES ASSUME focus.v5, NEW k, NEW q, NEW n, PubAt(toBroker, k, q, n), q # 0
               PROVE  /\ Asks(exchange, q, n)
                      /\ \A i, o : PubAt(toBroker, i, q, o) => i = k
                      /\ \A i : ~AnsAt(toClient', i, q)
    BY <1>0, <1>1, Zenon DEF WireOnce
  <2>1. /\ Asks(exchange, q, n)
        /\ \A i, o : PubAt(toBroker, i, q, o) => i = k
        /\ \A o : ~Hand(handling, q, o)
        /\ \A i : ~AnsAt(toClient, i, q)
    BY <1>0, <1>1, Zenon DEF WireOnce
  <2>2. q # p
    BY <1>2, <2>1, Zenon
  <2>3. \A i : ~AnsAt(toClient', i, q)
    BY <1>3, <2>1, <2>2, Zenon
  <2> QED
    BY <2>1, <2>3, Zenon
<1>31. WireNew'
  BY <1>0, <1>1, <1>2, <1>3, Zenon DEF WireNew, WireOnce
<1>32. HandOnce'
  BY <1>0, <1>1, <1>2, <1>3, ZenonT(30) DEF HandOnce
<1>33. AnsOnce'
  <2> SUFFICES ASSUME focus.v5
               PROVE  /\ \A k, q : AnsAt(toClient', k, q) =>
                            \E n : Asks(exchange, q, n) /\ (RecAt(toClient', k, q) => Qos(focus, n) = 2)
                      /\ \A i, k, q : AnsAt(toClient', k, q) /\ AnsAt(toClient', i, q) => i = k
                      /\ \A k, q : NoRecAt(toClient', k, q) => q \notin inInflight'
    BY <1>0, Zenon DEF AnsOnce
  <2>1. /\ \A k, q : AnsAt(toClient, k, q) =>
              \E n : Asks(exchange, q, n) /\ (RecAt(toClient, k, q) => Qos(focus, n) = 2)
        /\ \A i, k, q : AnsAt(toClient, k, q) /\ AnsAt(toClient, i, q) => i = k
        /\ \A k, q : NoRecAt(toClient, k, q) => q \notin inInflight
    BY <1>0, <1>1, Zenon DEF AnsOnce
  <2>2. Qos(focus, m) = 1 => Asks(exchange, p, m) /\ \A i : ~AnsAt(toClient, i, p)
    BY <1>0, <1>1, <1>2, ZenonT(60) DEF HandOnce
  <2>3. \A k, q : AnsAt(toClient', k, q) =>
           \E n : Asks(exchange, q, n) /\ (RecAt(toClient', k, q) => Qos(focus, n) = 2)
    BY <1>3, <2>1, <2>2, SMTT(30), Z3T(30)
  <2>4. \A i, k, q : AnsAt(toClient', k, q) /\ AnsAt(toClient', i, q) => i = k
    BY <1>3, <2>1, <2>2, SMTT(30), Z3T(30)
  <2>5. \A k, q : NoRecAt(toClient', k, q) => q \notin inInflight'
    BY <1>2, <1>3, <2>1, Zenon
  <2> QED
    BY <2>3, <2>4, <2>5, Zenon
<1> QED
  BY <1>20, <1>21, <1>22, <1>23, <1>24, <1>25, <1>26, <1>27, <1>28, <1>29, <1>30, <1>31, <1>32, <1>33, ZenonT(60) DEF InInv

\* The session answers a publish of QoS 2.
Recs(p, m) ==
    /\ conn
    /\ handling # NoPacket
    /\ p = handling.pid
    /\ m = handling.m
    /\ Qos(focus, m) = 2
    /\ toClient' = Append(toClient, Ack("pubrec", p, handling.ok))
    /\ inInflight' = IF handling.ok THEN inInflight \cup {p} ELSE inInflight
    /\ handling' = NoPacket
    /\ UNCHANGED <<focus, conn, toBroker, sent, exchange, taken, refused>>

\* A QoS 2 publish is answered, and its packet id remembered if it was forwarded.
LEMMA StepRec ==
    ASSUME InInv, NEW p, NEW m, Recs(p, m)
    PROVE  InInv'
<1>0. /\ InTypes /\ Begun /\ OwnPid /\ InOrder /\ Remembered /\ HandNew
      /\ Released /\ WireReleased /\ HandReleased
      /\ RelFirst /\ HandRelFirst /\ WireRelFirst
      /\ WireOnce /\ WireNew /\ HandOnce /\ AnsOnce /\ WindowKept
      /\ UNCHANGED <<focus, conn, toBroker, sent, exchange, taken, refused>>
  BY Zenon DEF InInv, Recs
<1>1. /\ conn
      /\ \A q, n : Hand(handling, q, n) <=> q = p /\ n = m
      /\ \A q, n : HandOk(handling, q, n) <=> q = p /\ n = m /\ handling.ok
      /\ \A q : Added(handling, q) <=> q = p /\ handling.added
      /\ \A q, n : ~Hand(handling', q, n)
      /\ \A q, n : ~HandOk(handling', q, n)
      /\ \A q : ~Added(handling', q)
  BY NothingInHand, ZenonT(60) DEF Recs, Hand, HandOk, Added
<1>2. /\ Hand(handling, p, m)
      /\ Qos(focus, m) = 2
      /\ p # 0
      /\ p \in Pids(focus)
      /\ p \notin inInflight
      /\ \A q : ~Added(handling, q)
      /\ \A q : q \in inInflight' <=> q \in inInflight \/ (q = p /\ handling.ok)
  <2>1. Hand(handling, p, m) /\ focus \in Foci /\ Qos(focus, m) = 2
    BY <1>0, <1>1, Zenon DEF InTypes, Recs
  <2>2. p \in 0 .. focus.window /\ m \in Msgs(focus) /\ (p = 0 <=> Qos(focus, m) = 0)
    BY <1>0, <2>1, Places, ZenonT(60) DEF Begun
  <2>3. p \notin inInflight /\ \A q : ~Added(handling, q)
    BY <1>0, <1>1, <2>1, SMTT(30), Z3T(30) DEF HandNew
  <2>4. \A q : q \in inInflight' <=> q \in inInflight \/ (q = p /\ handling.ok)
    BY Zenon DEF Recs
  <2> QED
    BY <2>1, <2>2, <2>3, <2>4, FocusTypes, SMTT(30), Z3T(30)
<1>3. /\ toClient' \in Seq(Answers(focus))
      /\ \A k, q : AnsAt(toClient, k, q) => k # Len(toClient) + 1
      /\ \A k, q : AnsAt(toClient', k, q) <=> AnsAt(toClient, k, q) \/ (k = Len(toClient) + 1 /\ q = p)
      /\ \A k, q : RecAt(toClient', k, q) <=> RecAt(toClient, k, q) \/ (k = Len(toClient) + 1 /\ q = p)
      /\ \A k, q : NoRecAt(toClient', k, q) <=> NoRecAt(toClient, k, q) \/ (k = Len(toClient) + 1 /\ q = p /\ ~handling.ok)
      /\ \A k, q : RecAt(toClient, k, q) => AnsAt(toClient, k, q)
      /\ \A k, q : NoRecAt(toClient, k, q) => AnsAt(toClient, k, q)
  <2>1. toClient \in Seq(Answers(focus)) /\ handling.ok \in BOOLEAN
    BY <1>0, Zenon DEF InTypes, Recs, InHand
  <2> DEFINE a == Ack("pubrec", p, handling.ok)
  <2>2. a \in Answers(focus) /\ a.t = "pubrec" /\ a.pid = p /\ a.ok = handling.ok /\ toClient' = Append(toClient, a)
    BY <1>2, <2>1, Zenon DEF Ack, Answers, Recs
  <2> HIDE DEF a
  <2>3. /\ \A k, q : RecAt(toClient, k, q) => AnsAt(toClient, k, q)
        /\ \A k, q : NoRecAt(toClient, k, q) => AnsAt(toClient, k, q)
    BY <1>0, Places, Zenon
  <2>4. \A k, q : AnsAt(toClient, k, q) => k # Len(toClient) + 1
    BY <1>0, Places
  <2> QED
    BY <2>1, <2>2, <2>3, <2>4, AppendAns, ZenonT(60)
<1>20. InOrder' /\ WireReleased' /\ WireRelFirst' /\ WindowKept'
  BY <1>0, ZenonT(60) DEF InOrder, WireReleased, WireRelFirst, WindowKept
<1>21. InTypes'
  BY <1>0, <1>1, <1>2, <1>3 DEF InTypes, Recs
<1>22. Begun'
  BY <1>0, <1>1, <1>2, <1>3, Zenon DEF Begun
<1>23. OwnPid'
  BY <1>0, <1>1, <1>2, <1>3, Zenon DEF OwnPid
<1>24. Remembered'
  BY <1>0, <1>1, <1>2, <1>3, Zenon DEF Remembered
<1>25. HandNew'
  BY <1>0, <1>1, <1>2, <1>3, Zenon DEF HandNew
<1>26. Released'
  BY <1>0, <1>1, <1>2, <1>3, Zenon DEF Released, HandReleased
<1>27. HandReleased'
  BY <1>0, <1>1, <1>2, <1>3, Zenon DEF HandReleased
<1>28. RelFirst'
  BY <1>0, <1>1, <1>2, <1>3, Zenon DEF RelFirst, HandRelFirst
<1>29. HandRelFirst'
  BY <1>0, <1>1, <1>2, <1>3, ZenonT(30) DEF HandRelFirst
<1>30. WireOnce'
  <2> SUFFICES ASSUME focus.v5, NEW k, NEW q, NEW n, PubAt(toBroker, k, q, n), q # 0
               PROVE  /\ Asks(exchange, q, n)
                      /\ \A i, o : PubAt(toBroker, i, q, o) => i = k
                      /\ \A i : ~AnsAt(toClient', i, q)
    BY <1>0, <1>1, Zenon DEF WireOnce
  <2>1. /\ Asks(exchange, q, n)
        /\ \A i, o : PubAt(toBroker, i, q, o) => i = k
        /\ \A o : ~Hand(handling, q, o)
        /\ \A i : ~AnsAt(toClient, i, q)
    BY <1>0, <1>1, Zenon DEF WireOnce
  <2>2. q # p
    BY <1>2, <2>1, Zenon
  <2>3. \A i : ~AnsAt(toClient', i, q)
    BY <1>3, <2>1, <2>2, Zenon
  <2> QED
    BY <2>1, <2>3, Zenon
<1>31. WireNew'
  <2> SUFFICES ASSUME focus.v5, NEW k, NEW q, NEW n, PubAt(toBroker, k, q, n), q \in inInflight'
               PROVE  \E j : RelAt(toBroker, j, q) /\ j < k
    BY <1>0, Zenon DEF WireNew
  <2>1. q # p
    BY <1>0, <1>1, <1>2, Zenon DEF WireOnce
  <2> QED
    BY <1>0, <1>1, <1>2, <2>1, Zenon DEF WireNew
<1>32. HandOnce'
  BY <1>0, <1>1, <1>2, <1>3, ZenonT(60) DEF HandOnce
<1>33. AnsOnce'
  <2> SUFFICES ASSUME focus.v5
               PROVE  /\ \A k, q : AnsAt(toClient', k, q) =>
                            \E n : Asks(exchange, q, n) /\ (RecAt(toClient', k, q) => Qos(focus, n) = 2)
                      /\ \A i, k, q : AnsAt(toClient', k, q) /\ AnsAt(toClient', i, q) => i = k
                      /\ \A k, q : NoRecAt(toClient', k, q) => q \notin inInflight'
    BY <1>0, Zenon DEF AnsOnce
  <2>1. /\ \A k, q : AnsAt(toClient, k, q) =>
              \E n : Asks(exchange, q, n) /\ (RecAt(toClient, k, q) => Qos(focus, n) = 2)
        /\ \A i, k, q : AnsAt(toClient, k, q) /\ AnsAt(toClient, i, q) => i = k
        /\ \A k, q : NoRecAt(toClient, k, q) => q \notin inInflight
    BY <1>0, <1>1, Zenon DEF AnsOnce
  <2>2. Asks(exchange, p, m) /\ \A i : ~AnsAt(toClient, i, p)
    BY <1>0, <1>1, <1>2, Zenon DEF HandOnce
  <2>3. \A k, q : AnsAt(toClient', k, q) =>
           \E n : Asks(exchange, q, n) /\ (RecAt(toClient', k, q) => Qos(focus, n) = 2)
    <3> SUFFICES ASSUME NEW k, NEW q, AnsAt(toClient', k, q)
                 PROVE  \E n : Asks(exchange, q, n) /\ (RecAt(toClient', k, q) => Qos(focus, n) = 2)
      OBVIOUS
    <3>1. CASE q = p
      BY <1>2, <2>2, <3>1, Zenon
    <3>2. CASE q # p
      BY <1>3, <2>1, <3>2, ZenonT(60)
    <3> QED
      BY <3>1, <3>2, Zenon
  <2>4. \A i, k, q : AnsAt(toClient', k, q) /\ AnsAt(toClient', i, q) => i = k
    BY <1>3, <2>1, <2>2
  <2>5. \A k, q : NoRecAt(toClient', k, q) => q \notin inInflight'
    BY <1>2, <1>3, <2>1, <2>2, SMTT(30), Z3T(30)
  <2> QED
    BY <2>3, <2>4, <2>5, Zenon
<1> QED
  BY <1>20, <1>21, <1>22, <1>23, <1>24, <1>25, <1>26, <1>27, <1>28, <1>29, <1>30, <1>31, <1>32, <1>33, ZenonT(60) DEF InInv

=============================================================================
