---------------------------- MODULE PublishProofs ---------------------------
(***************************************************************************)
(* Proofs about Publish: what a session has forwarded, and delayed         *)
(* publishes.                                                              *)
(***************************************************************************)
EXTENDS Publish, InboundProofs, FiniteSetTheorems

-----------------------------------------------------------------------------
(* The actions of Inbound are steps of its proofs.                         *)

\* A set of packet ids has at most as many as the window, and fewer when one
\* is free.
LEMMA RoomFor ==
    ASSUME NEW W \in Nat, NEW S \in SUBSET (1 .. W)
    PROVE  /\ IsFiniteSet(S)
           /\ Cardinality(S) \in Nat
           /\ \A p \in (1 .. W) \ S : Cardinality(S) < W
<1>1. IsFiniteSet(1 .. W) /\ Cardinality(1 .. W) = W
  BY FS_Interval, SMTT(30), Z3T(30)
<1>2. IsFiniteSet(S) /\ Cardinality(S) \in Nat
  BY <1>1, FS_Subset, FS_CardinalityType, ZenonT(60)
<1>3. ASSUME NEW p \in (1 .. W) \ S
      PROVE  Cardinality(S) < W
  <2>1. Cardinality(S \cup {p}) = Cardinality(S) + 1
    BY <1>2, FS_AddElement, Zenon
  <2>2. Cardinality(S \cup {p}) <= Cardinality(1 .. W)
    BY <1>1, FS_Subset, Zenon
  <2> QED
    BY <1>1, <1>2, <2>1, <2>2, SMTT(30), Z3T(30)
<1> QED
  BY <1>2, <1>3, ZenonT(60)

\* The client begins its next publish.
LEMMA InClientPublish ==
    ASSUME InInv, ClientPublish, UNCHANGED focus
    PROVE  InInv'
<1>1. CASE Attr(sent').qos = 0 /\ toBroker' = Append(toBroker, Pub(0, sent')) /\ UNCHANGED exchange
  <2>1. PublishZero
    BY <1>1, SMTT(30), Z3T(30) DEF ClientPublish, PublishZero, Attr, Qos
  <2> QED
    BY <2>1, StepPublishZero, ZenonT(60)
<1>2. ASSUME NEW p \in (1 .. focus.window) \ DOMAIN exchange,
             Attr(sent').qos > 0,
             toBroker' = Append(toBroker, Pub(p, sent')),
             exchange' = [x \in DOMAIN exchange \cup {p} |->
                             IF x = p THEN [m |-> sent', rec |-> FALSE] ELSE exchange[x]]
      PROVE  InInv'
  <2>1. PublishNew(p)
    BY <1>2, SMTT(30), Z3T(30) DEF ClientPublish, PublishNew, Attr, Qos, Pids, Opened
  <2> QED
    BY <2>1, StepPublishNew, ZenonT(60)
<1> QED
  BY <1>1, <1>2, ZenonT(60) DEF ClientPublish

\* The client repeats what was not answered.
LEMMA InClientRetry ==
    ASSUME InInv, ClientRetry, UNCHANGED focus
    PROVE  InInv'
<1>1. PICK p \in DOMAIN exchange :
         toBroker' = Append(toBroker, IF exchange[p].rec THEN Rel(p) ELSE Pub(p, exchange[p].m))
  BY Zenon DEF ClientRetry
<1>2. exchange[p].rec => ResendRel(p)
  BY <1>1, Zenon DEF ClientRetry, ResendRel
<1>3. ~exchange[p].rec => ResendPub(p)
  BY <1>1, ZenonT(60) DEF ClientRetry, ResendPub
<1> QED
  BY <1>2, <1>3, StepResendRel, StepResendPub, ZenonT(60)

\* The client takes an answer.
LEMMA InClientReceive ==
    ASSUME InInv, ClientReceive, UNCHANGED focus
    PROVE  InInv'
<1> DEFINE p == Head(toClient).pid
<1>1. CASE UNCHANGED <<exchange, toBroker>>
  <2>1. Ignore
    BY <1>1, ZenonT(60) DEF ClientReceive, Ignore
  <2> QED
    BY <2>1, StepIgnore, Zenon
<1>2. CASE /\ p \in DOMAIN exchange
           /\ Ends(Head(toClient), exchange[p])
           /\ exchange' = Closed(p)
           /\ UNCHANGED toBroker
  <2>1. End(p)
    BY <1>2, ZenonT(60) DEF ClientReceive, End, Closed, Shut
  <2> QED
    BY <2>1, StepEnd, ZenonT(60)
<1>3. CASE /\ p \in DOMAIN exchange
           /\ Releases(Head(toClient), exchange[p])
           /\ exchange' = [exchange EXCEPT ![p].rec = TRUE]
           /\ toBroker' = Append(toBroker, Rel(p))
  <2>1. Hear(p)
    BY <1>3, Zenon DEF ClientReceive, Hear, Heard
  <2> QED
    BY <2>1, StepHear, ZenonT(60)
<1> QED
  BY <1>1, <1>2, <1>3, ZenonT(60) DEF ClientReceive

\* The session takes a PUBREL (process_mqtt_message).
LEMMA InRelease ==
    ASSUME InInv, Release, UNCHANGED focus
    PROVE  InInv'
<1>1. Freed(Head(toBroker).pid)
  BY Zenon DEF Release, Ready, Freed
<1> QED
  BY <1>1, StepRelease, ZenonT(60)

\* The session meets a packet id it remembers (process_publish).
LEMMA InDuplicateReceived ==
    ASSUME InInv, DuplicateReceived, UNCHANGED focus
    PROVE  InInv'
<1>1. Again(Head(toBroker).pid, Head(toBroker).m)
  BY Zenon DEF DuplicateReceived, Ready, Again, Duplicate, Attr, Qos
<1> QED
  BY <1>1, StepDuplicate, ZenonT(60)

\* A session ends.  What it had in hand or remembered goes with it.
LEMMA InDisconnect ==
    ASSUME InInv, Disconnect, focus.window <= MaxInflight => refused' = refused,
           UNCHANGED <<focus, sent, exchange, taken>>
    PROVE  InInv'
<1>1. Down
  BY Zenon DEF Disconnect, Down
<1> QED
  BY <1>1, StepDown, ZenonT(60)

\* A client that keeps to the window finds room for a packet id that the
\* session does not remember.
LEMMA FreePid ==
    ASSUME InTypes, NEW p \in Pids(focus), p \notin inInflight, focus.window <= MaxInflight
    PROVE  ~WindowFull
<1>1. focus.window \in Nat /\ inInflight \in SUBSET (1 .. focus.window)
  BY FocusTypes, Zenon DEF InTypes, Pids
<1>2. Cardinality(inInflight) \in Nat /\ Cardinality(inInflight) < focus.window
  BY <1>1, RoomFor, ZenonT(60) DEF Pids
<1> QED
  BY <1>1, <1>2, InboundAssumption, SMTT(30), Z3T(30) DEF WindowFull

\* The session refuses a publish beyond the window (process_publish).
LEMMA InRefusedAtOnce ==
    ASSUME InInv, RefusedAtOnce, UNCHANGED focus
    PROVE  InInv'
<1> DEFINE p == Head(toBroker).pid
           m == Head(toBroker).m
<1>1. /\ conn /\ handling = NoPacket
      /\ PubAt(toBroker, 1, p, m)
      /\ p \in Pids(focus)
      /\ Qos(focus, m) = 1
  <2>1. toBroker \in Seq(Packets(focus)) /\ toBroker # <<>> /\ focus \in Foci /\ Begun
    BY Zenon DEF InInv, InTypes, RefusedAtOnce, Ready
  <2>2. 1 \in 1 .. Len(toBroker) /\ toBroker[1] \in Packets(focus) /\ Head(toBroker) = toBroker[1]
    BY <2>1, SMTT(30), Z3T(30)
  <2>3. PubAt(toBroker, 1, p, m) /\ Qos(focus, m) = 1
    BY <2>2, ZenonT(60) DEF PubAt, Qos, RefusedAtOnce, Attr
  <2>4. p \in 0 .. focus.window
    BY <2>2, ZenonT(60) DEF Packets, RefusedAtOnce
  <2>5. p # 0
    BY <2>1, <2>3, SMTT(30), Z3T(30) DEF Begun
  <2>6. p \in Pids(focus)
    BY <2>1, <2>4, <2>5, FocusTypes, ZenonT(60) DEF Pids
  <2> QED
    BY <2>3, <2>6, ZenonT(60) DEF RefusedAtOnce, Ready
<1> HIDE DEF p, m
<1>2. ASSUME p \in inInflight
      PROVE  FALSE
  <2>1. PICK j : RelAt(toBroker, j, p) /\ j < 1
    BY <1>1, <1>2, NothingInHand, ZenonT(60) DEF InInv, RelFirst
  <2> QED
    BY <2>1, SMTT(30), Z3T(30) DEF RelAt
<1>3. ~(focus.window <= MaxInflight)
  BY <1>1, <1>2, FreePid, ZenonT(60) DEF InInv, RefusedAtOnce
<1>4. Disconnect /\ UNCHANGED <<focus, sent, exchange, taken>>
  BY ZenonT(60) DEF RefusedAtOnce
<1> QED
  BY <1>3, <1>4, InDisconnect, ZenonT(60)

\* The session takes a publish (_publish).
LEMMA InAccepted ==
    ASSUME InInv, NEW verdict, Accepted(verdict), UNCHANGED focus
    PROVE  InInv'
<1>1. Takes(Head(toBroker).pid, Head(toBroker).m, verdict = "allow")
  BY Zenon DEF Accepted, Ready, Takes, Duplicate, Attr, Qos
<1> QED
  BY <1>1, StepTake, Zenon

\* A denied publish ends the connection.
LEMMA InDeniedDisconnect ==
    ASSUME InInv, DeniedDisconnect, UNCHANGED focus
    PROVE  InInv'
<1>1. Disconnect /\ UNCHANGED <<focus, sent, exchange, taken, refused>>
  BY Zenon DEF DeniedDisconnect
<1> QED
  BY <1>1, InDisconnect, ZenonT(60)

\* The session answers what it has in hand (process_publish).
LEMMA InReply ==
    ASSUME InInv, Reply, UNCHANGED focus
    PROVE  InInv'
<1> DEFINE p == handling.pid
           m == handling.m
<1>1. CASE conn /\ ReplyAck
  <2>1. Acks(p, m)
    BY <1>1, ZenonT(60) DEF Reply, ReplyAck, Acks, Attr, Qos
  <2> QED
    BY <2>1, StepAck, ZenonT(60)
<1>2. CASE conn /\ ReplyRec /\ ~(handling.ok /\ WindowFull)
  <2>1. Recs(p, m)
    BY <1>2, ZenonT(60) DEF Reply, ReplyRec, Recs, Attr, Qos
  <2> QED
    BY <2>1, StepRec, ZenonT(60)
<1>3. CASE conn /\ ReplyRec /\ handling.ok /\ WindowFull
  <2>1. handling \in InHand(focus) /\ focus \in Foci /\ Hand(handling, p, m) /\ Qos(focus, m) = 2
    BY <1>3, ZenonT(60) DEF InInv, InTypes, Reply, ReplyRec, Hand, Attr, Qos
  <2>2. p \in 0 .. focus.window /\ p # 0 /\ p \notin inInflight
    BY <2>1, SMTT(30), Z3T(30) DEF InInv, Begun, HandNew, InHand
  <2>3. p \in Pids(focus)
    BY <2>1, <2>2, FocusTypes, ZenonT(60) DEF Pids
  <2>4. ~(focus.window <= MaxInflight)
    BY <1>3, <2>2, <2>3, FreePid, ZenonT(60) DEF InInv
  <2>5. Disconnect /\ UNCHANGED <<focus, sent, exchange, taken>>
    BY <1>3, ZenonT(60) DEF ReplyRec
  <2> QED
    BY <2>4, <2>5, InDisconnect, ZenonT(60)
<1>4. CASE ~conn
  <2>1. Down
    BY <1>4, ZenonT(60) DEF Reply, ReplyFails, Down, InInv, InTypes
  <2> QED
    BY <2>1, StepDown, ZenonT(60)
<1> QED
  BY <1>1, <1>2, <1>3, <1>4, ZenonT(60) DEF Reply

\* The connection is lost.
LEMMA InConnectionLost ==
    ASSUME InInv, ConnectionLost, UNCHANGED focus
    PROVE  InInv'
<1>1. Down
  BY Zenon DEF ConnectionLost, Down
<1> QED
  BY <1>1, StepDown, ZenonT(60)

\* The client connects again.
LEMMA InReconnect ==
    ASSUME InInv, Reconnect, UNCHANGED focus
    PROVE  InInv'
<1>1. Cardinality(DOMAIN exchange) \in Nat
  <2>1. focus.window \in Nat /\ DOMAIN exchange \in SUBSET (1 .. focus.window)
    BY FocusTypes, ZenonT(60) DEF InInv, InTypes, Pids
  <2> QED
    BY <2>1, RoomFor, ZenonT(60)
<1>2. PICK s \in [1 .. Cardinality(DOMAIN exchange) -> DOMAIN exchange] :
        /\ \A i, j \in DOMAIN s : s[i] = s[j] => i = j
        /\ toBroker' = [i \in DOMAIN s |-> IF exchange[s[i]].rec THEN Rel(s[i]) ELSE Pub(s[i], exchange[s[i]].m)]
  BY ZenonT(60) DEF Reconnect
<1>3. Up(s)
  BY <1>1, <1>2, ZenonT(60) DEF Reconnect, Up
<1> QED
  BY <1>3, StepUp, ZenonT(60)

-----------------------------------------------------------------------------
(* The steps of the broker.                                                *)

\* The invariant is about the inbound half only.
LEMMA InUnchanged ==
    ASSUME InInv, UNCHANGED <<focus, inboundVars>>
    PROVE  InInv'
<1>1. UNCHANGED <<focus, conn, toBroker, toClient, sent, exchange, inInflight, handling, taken, refused>>
  BY ZenonT(60) DEF inboundVars
<1>2. InTypes' /\ Begun' /\ OwnPid' /\ InOrder'
  BY <1>1, ZenonT(60) DEF InInv, InTypes, Begun, OwnPid, InOrder
<1>3. Remembered' /\ HandNew' /\ Released' /\ WireReleased' /\ HandReleased'
  BY <1>1, ZenonT(60) DEF InInv, Remembered, HandNew, Released, WireReleased, HandReleased
<1>4. RelFirst' /\ HandRelFirst' /\ WireRelFirst'
  BY <1>1, ZenonT(60) DEF InInv, RelFirst, HandRelFirst, WireRelFirst
<1>5. WireOnce' /\ WireNew' /\ HandOnce' /\ AnsOnce' /\ WindowKept'
  BY <1>1, ZenonT(60) DEF InInv, WireOnce, WireNew, HandOnce, AnsOnce, WindowKept
<1> QED
  BY <1>2, <1>3, <1>4, <1>5, ZenonT(60) DEF InInv

\* At the start the invariant holds.
LEMMA InStart ==
    ASSUME Init
    PROVE  InInv
<1>1. /\ focus \in Foci /\ conn = TRUE /\ sent = 0 /\ toBroker = <<>> /\ toClient = <<>>
      /\ DOMAIN exchange = {} /\ exchange = <<>> /\ inInflight = {} /\ handling = NoPacket
      /\ refused = FALSE /\ taken = [m \in DOMAIN focus.pubs |-> 0]
  BY SMTT(30), Z3T(30) DEF Init, InboundInit
<1>2. /\ Len(focus.pubs) \in Nat
      /\ DOMAIN focus.pubs = 1 .. Len(focus.pubs)
      /\ Msgs(focus) = 1 .. Len(focus.pubs)
  BY <1>1, InboundAssumption, ZenonT(60) DEF Msgs
<1>3. InTypes
  <2>1. taken \in [Msgs(focus) -> Nat] /\ sent \in 0 .. Len(focus.pubs)
    BY <1>1, <1>2, SMTT(30), Z3T(30)
  <2>2. exchange \in [DOMAIN exchange -> Exchanges(focus)]
    BY <1>1, SMTT(30), Z3T(30)
  <2> QED
    BY <1>1, <2>1, <2>2, SMTT(30), Z3T(30) DEF InTypes
<1>4. /\ \A k, p, m : ~PubAt(toBroker, k, p, m)
      /\ \A k, p : ~RelAt(toBroker, k, p)
      /\ \A k, p : ~AnsAt(toClient, k, p)
      /\ \A k, p : ~NoRecAt(toClient, k, p)
  BY <1>1, SMTT(30), Z3T(30) DEF PubAt, RelAt, AnsAt, NoRecAt
<1>5. /\ \A p, m : ~Open(exchange, p, m)
      /\ \A p, m : ~Asks(exchange, p, m)
  BY <1>1, Zenon DEF Open, Asks
<1>6. /\ \A p, m : ~Hand(handling, p, m)
      /\ \A p, m : ~HandOk(handling, p, m)
      /\ \A p : ~Added(handling, p)
  BY <1>1, NothingInHand, ZenonT(60)
<1>7. \A m \in Msgs(focus) : ~(taken[m] > 0)
  BY <1>1, <1>2, SMTT(30), Z3T(30)
<1>8. Begun /\ OwnPid /\ InOrder /\ Remembered /\ HandNew
  BY <1>4, <1>5, <1>6, <1>7, ZenonT(60) DEF Begun, OwnPid, InOrder, Remembered, HandNew
<1>9. Released /\ WireReleased /\ HandReleased /\ RelFirst /\ HandRelFirst /\ WireRelFirst
  BY <1>1, <1>4, <1>6, ZenonT(60) DEF Released, WireReleased, HandReleased, RelFirst, HandRelFirst, WireRelFirst
<1>10. WireOnce /\ WireNew /\ HandOnce /\ AnsOnce /\ WindowKept
  BY <1>1, <1>4, <1>6, ZenonT(60) DEF WireOnce, WireNew, HandOnce, AnsOnce, WindowKept
<1> QED
  BY <1>3, <1>8, <1>9, <1>10, ZenonT(60) DEF InInv

\* Every step of the broker keeps the invariant.
LEMMA InNext ==
    ASSUME InInv, Next
    PROVE  InInv'
<1>1. CASE SessionPublish
  BY <1>1, InAccepted, ZenonT(60) DEF SessionPublish
<1>2. CASE SessionDenied
  BY <1>2, InAccepted, ZenonT(60) DEF SessionDenied
<1>3. CASE SessionReply
  BY <1>3, InReply, ZenonT(60) DEF SessionReply
<1>4. CASE SessionOther
  <2>1. InboundStep /\ UNCHANGED focus
    BY <1>4, Zenon DEF SessionOther
  <2> QED
    BY <2>1, InClientPublish, InClientRetry, InClientReceive, InRelease, InDuplicateReceived,
       InRefusedAtOnce, InDeniedDisconnect, InConnectionLost, InReconnect, ZenonT(60) DEF InboundStep
<1>5. CASE DelayedStep \/ ForwardStep \/ SubscriberStep \/ Background \/ Tick
  <2>1. UNCHANGED <<focus, inboundVars>>
    BY <1>5, ZenonT(60) DEF DelayedStep, ForwardStep, SubscriberStep, Background, Tick
  <2> QED
    BY <2>1, InUnchanged, ZenonT(60)
<1>6. CASE Restart
  <2>1. Disconnect /\ refused' = refused /\ UNCHANGED <<focus, sent, exchange, taken>>
    BY <1>6, Zenon DEF Restart
  <2> QED
    BY <2>1, InDisconnect, Zenon
<1> QED
  BY <1>1, <1>2, <1>3, <1>4, <1>5, <1>6, ZenonT(60) DEF Next

\* What a client sends is taken at most once per exchange, whatever it sends
\* again: the invariant of InboundProofs holds in every state of the broker.
THEOREM InboundInvariant == Spec => []InInv
<1>1. Init => InInv
  BY InStart, Zenon
<1>2. InInv /\ [Next]_pubvars => InInv'
  <2>1. InInv /\ UNCHANGED pubvars => InInv'
    BY InUnchanged, Zenon DEF pubvars
  <2> QED
    BY <2>1, InNext, ZenonT(60)
<1> QED
  BY <1>1, <1>2, PTL DEF Spec

\* A QoS 2 publish is forwarded at most once per connection, and a client that
\* keeps to the window is not refused, for every window, every list of
\* publishes and any number of repeats, reconnects and crashes.
THEOREM ForwardedOnce == Spec => []QoS2Once
<1>1. ASSUME InInv
      PROVE  QoS2Once
  <2>1. /\ focus \in Foci
        /\ taken \in [Msgs(focus) -> Nat]
        /\ DOMAIN taken = Msgs(focus)
        /\ \A m \in Msgs(focus) : Qos(focus, m) = 2 /\ taken[m] > 0 => taken[m] = 1
    BY <1>1, ZenonT(60) DEF InInv, InTypes, Remembered
  <2>2. \A m \in DOMAIN taken : Attr(m).qos = 2 => taken[m] <= 1
    BY <2>1, SMTT(30), Z3T(30) DEF Attr, Qos
  <2> QED
    BY <1>1, <2>2, ZenonT(60) DEF InInv, WindowKept, QoS2Once
<1> QED
  BY <1>1, InboundInvariant, PTL

-----------------------------------------------------------------------------
(* Delayed publishes.                                                      *)

\* The sender that saw a publish due will find one due: only the sender takes
\* from the heap, what comes first is due no later, and time only passes.
DueInv ==
    /\ now \in Nat
    /\ \A d \in heap : d.due \in Nat
    /\ popping => \E d \in heap : now > d.due
    /\ ~early

\* What leaves the clock and the heap alone leaves the sender alone.
LEMMA DueUnchanged ==
    ASSUME DueInv, UNCHANGED <<now, delayedVars>>
    PROVE  DueInv'
BY ZenonT(60) DEF DueInv, delayedVars

\* A new delayed publish does not make the one looked at later.
LEMMA DueSession ==
    ASSUME InInv, DueInv, SessionPublish
    PROVE  DueInv'
<1> DEFINE m == Head(toBroker).m
<1>1. /\ toBroker \in Seq(Packets(focus)) /\ toBroker # <<>>
      /\ Head(toBroker).t = "publish"
      /\ focus \in Foci
  BY Zenon DEF InInv, InTypes, SessionPublish, Accepted, Ready
<1>2. Head(toBroker) \in Packets(focus)
  BY <1>1, SMTT(30), Z3T(30)
<1>3. m \in DOMAIN focus.pubs
  BY <1>1, <1>2, InboundAssumption, ZenonT(60) DEF Packets, Msgs
<1>4. Attr(m).delay \in Nat \cup {None}
  BY <1>1, <1>3, PublishAssumption, ZenonT(60) DEF Attr
<1>5. now' = now /\ now \in Nat
  BY Zenon DEF SessionPublish, DueInv
<1> HIDE DEF m
<1>6. CASE UNCHANGED delayedVars
  BY <1>5, <1>6, DueUnchanged, ZenonT(60)
<1>7. CASE /\ Attr(m).delay # None
           /\ heap' = heap \cup {[due |-> Due(m), m |-> m, n |-> pushed]}
           /\ UNCHANGED <<popping, early>>
  <2>1. Due(m) \in Nat
    BY <1>4, <1>5, <1>7, SMTT(30), Z3T(30) DEF Due
  <2> DEFINE new == [due |-> Due(m), m |-> m, n |-> pushed]
  <2>2. new.due \in Nat /\ heap' = heap \cup {new}
    BY <1>7, <2>1, ZenonT(60)
  <2> HIDE DEF new
  <2> QED
    BY <1>5, <1>7, <2>2, ZenonT(60) DEF DueInv
<1> QED
  BY <1>6, <1>7, ZenonT(60) DEF SessionPublish, Delay, m

\* The sender pops a publish that is due, once its look found one due.
LEMMA DueDelayed ==
    ASSUME DueInv, DelayedStep
    PROVE  DueInv'
<1>1. now' = now
  BY Zenon DEF DelayedStep
<1>2. CASE DelayedPeek
  <2>1. PICK d \in First : IsExpired(d)
    BY <1>2, Zenon DEF DelayedPeek
  <2>2. d \in heap /\ now > d.due
    BY <2>1, ZenonT(60) DEF First, IsExpired
  <2> QED
    BY <1>1, <1>2, <2>2, ZenonT(60) DEF DelayedPeek, DueInv
<1>3. CASE DelayedPop
  <2>1. PICK d \in First : heap' = heap \ {d} /\ early' = (early \/ now <= d.due)
    BY <1>3, Zenon DEF DelayedPop
  <2>2. PICK e \in heap : now > e.due
    BY <1>3, Zenon DEF DelayedPop, DueInv
  <2>3. d \in heap /\ d.due <= e.due
    BY <2>1, <2>2, ZenonT(60) DEF First
  <2>4. ~(now <= d.due)
    BY <2>2, <2>3, SMTT(30), Z3T(30) DEF DueInv
  <2> QED
    BY <1>1, <1>3, <2>1, <2>4, ZenonT(60) DEF DelayedPop, DueInv
<1> QED
  BY <1>2, <1>3, ZenonT(60) DEF DelayedStep

\* Only Tick moves the clock.
LEMMA DueRest ==
    ASSUME DueInv, \/ SessionDenied \/ SessionReply \/ SessionOther
                   \/ ForwardStep \/ SubscriberStep \/ Background \/ Tick \/ Restart
    PROVE  DueInv'
<1>1. CASE SessionDenied \/ SessionReply \/ SessionOther \/ SubscriberStep
  <2>1. UNCHANGED <<now, delayedVars>>
    BY <1>1, ZenonT(60) DEF SessionDenied, SessionReply, SessionOther, SubscriberStep
  <2> QED
    BY <2>1, DueUnchanged, ZenonT(60)
<1>2. CASE ForwardStep
  <2>1. UNCHANGED <<now, delayedVars>>
    BY <1>2, ZenonT(60) DEF ForwardStep, NextMsgId, RetainRam, RetainDb, Store, Match, Send, Mark
  <2> QED
    BY <2>1, DueUnchanged, ZenonT(60)
<1>3. CASE Background
  <2>1. WorkerStep => now' = now
    BY ZenonT(60) DEF WorkerStep, Take, RamSetMessage, RamSetTree, RamSetExpiry, RamMarkExist, RamMarkWrite,
       DbSaveIdLoad, DbSaveIdInsert, DbInsert, DbTree, DbList, DbMarkExist, DbMarkWrite
  <2>2. SweepStep => now' = now
    BY Zenon DEF SweepStep, RamSweepPop, RamSweepMessage, RamSweepTree, RamSweepForwarded,
       DbSweepPop, DbSweepTree
  <2>3. ASSUME NEW x, DbFails(x)
        PROVE  now' = now
    BY <2>3, Zenon DEF DbFails
  <2>4. UNCHANGED <<now, delayedVars>>
    BY <1>3, <2>1, <2>2, <2>3, ZenonT(60) DEF Background
  <2> QED
    BY <2>4, DueUnchanged, ZenonT(60)
<1>4. CASE Tick
  BY <1>4, SMTT(30), Z3T(30) DEF Tick, DueInv, delayedVars
<1>5. CASE Restart
  BY <1>5, Zenon DEF Restart, DueInv
<1> QED
  BY <1>1, <1>2, <1>3, <1>4, <1>5, ZenonT(60)

\* A delayed publish is never sent early, however the sender's look and its pop
\* interleave with new publishes, the clock and crashes.
THEOREM NeverEarly == Spec => []DelayedOnTime
<1>1. Init => DueInv
  BY SMTT(30), Z3T(30) DEF Init, DueInv
<1>2. InInv /\ DueInv /\ [Next]_pubvars => DueInv'
  <2>1. DueInv /\ UNCHANGED pubvars => DueInv'
    BY DueUnchanged, Zenon DEF pubvars
  <2> QED
    BY <2>1, DueSession, DueDelayed, DueRest, ZenonT(60) DEF Next
<1>3. DueInv => DelayedOnTime
  BY Zenon DEF DueInv, DelayedOnTime
<1> QED
  BY <1>1, <1>2, <1>3, InboundInvariant, PTL DEF Spec

=============================================================================
