-------------------------- MODULE SessionOutProofs --------------------------
(***************************************************************************)
(* Proofs about SessionOut for every value of its constants.               *)
(***************************************************************************)
EXTENDS SessionOut, TLAPS, SequenceTheorems, WellFoundedInduction

-----------------------------------------------------------------------------
(* The operators *)

\* A non-empty set of naturals has a least element.
LEMMA LeastNatural ==
  ASSUME NEW T \in SUBSET Nat, T # {}
  PROVE  \E x \in T : \A y \in T : x <= y
<1>1. PICK x \in T : \A y \in T : ~(<<y, x>> \in OpToRel(<, Nat))
  BY NatLessThanWellFounded, WFMin, Zenon
<1>2. \A y \in T : ~(y < x)
  BY <1>1, Zenon DEF OpToRel
<1> QED  BY <1>2, SMTT(30), Z3T(30)

\* A non-empty set of packet ids has a greatest element.
LEMMA GreatestId ==
  ASSUME NEW T \in SUBSET Ids, T # {}
  PROVE  \E x \in T : \A y \in T : y <= x
<1> DEFINE U == {n \in Nat : \E i \in T : n = IdMax - i}
<1> USE SessionOutAssumption
<1>1. \A i \in T : i \in Nat /\ i <= IdMax /\ IdMax \in Nat
  BY DEF Ids
<1>2. \A i \in T : IdMax - i \in U
  BY <1>1, SMTT(30), Z3T(30)
<1>3. U \in SUBSET Nat /\ U # {}
  BY <1>2
<1>4. PICK u \in U : \A v \in U : u <= v
  BY <1>3, LeastNatural, Zenon
<1>5. PICK x \in T : u = IdMax - x
  BY <1>4
<1>6. \A y \in T : IdMax - x <= IdMax - y
  BY <1>2, <1>4, <1>5, Zenon
<1>7. \A y \in T : y <= x
  BY <1>1, <1>6, SMTT(30), Z3T(30)
<1> QED  BY <1>7

\* The allocator returns a non-zero packet id that is not in the window
\* whenever one of its u16::MAX probes finds one.
LEMMA NextIdFree ==
  ASSUME next \in Ids, Probes # {}
  PROVE  /\ next_id \in Ids \ {0}
         /\ next_id \notin InflightIds
<1> USE SessionOutAssumption DEF Ids
<1>1. Probes \in SUBSET Nat
  BY DEF Probes
<1>2. \E k \in Probes : \A j \in Probes : k <= j
  BY <1>1, LeastNatural, Zenon
<1> DEFINE k == CHOOSE k \in Probes : \A j \in Probes : k <= j
<1>3. k \in Probes
  BY <1>2
<1>4. next_id = (next + k) % (IdMax + 1)
  BY DEF next_id
<1> HIDE DEF k
<1>5. k \in Nat /\ (next + k) % (IdMax + 1) # 0 /\ (next + k) % (IdMax + 1) \notin InflightIds
  BY <1>3, <1>1, Zenon DEF Probes
<1>6. (next + k) % (IdMax + 1) \in 0..IdMax
  BY <1>5
<1> QED  BY <1>4, <1>5, <1>6, Zenon

\* Removing an entry by packet id leaves a window.
LEMMA WithoutType ==
  ASSUME NEW q \in Seq(OutInflightMessage), NEW i
  PROVE  Without(q, i) \in Seq(OutInflightMessage)
<1>1. CASE ~ \E k \in DOMAIN q : q[k].pub.id = i
  BY <1>1, Zenon DEF Without
<1>2. CASE \E k \in DOMAIN q : q[k].pub.id = i
  <2>1. At(q, i) \in DOMAIN q
    BY <1>2 DEF At
  <2>2. At(q, i) \in 1..Len(q)
    BY <2>1
  <2> DEFINE l == SubSeq(q, 1, At(q, i) - 1)
             r == SubSeq(q, At(q, i) + 1, Len(q))
  <2>3. l \in Seq(OutInflightMessage) /\ r \in Seq(OutInflightMessage)
    BY <2>2, SubSeqProperties, SMTT(30), Z3T(30)
  <2> QED  BY <1>2, <2>3, ConcatProperties, Zenon DEF Without
<1> QED  BY <1>1, <1>2, Zenon

\* Replacing the entry of a packet id in the window leaves a window.
LEMMA PushBackType ==
  ASSUME NEW q \in Seq(OutInflightMessage), NEW e \in OutInflightMessage
  PROVE  push_back(q, e) \in Seq(OutInflightMessage)
BY WithoutType, AppendProperties, Zenon DEF push_back

\* Moving the status of one entry leaves a window.
LEMMA UpdateStatusType ==
  ASSUME NEW q \in Seq(OutInflightMessage), NEW i, NEW s \in MomentStatus
  PROVE  update_status(q, i, s) \in Seq(OutInflightMessage)
<1>1. DOMAIN q = 1..Len(q) /\ Len(q) \in Nat
  OBVIOUS
<1>2. \A k \in 1..Len(q) : q[k] \in OutInflightMessage
  OBVIOUS
<1>3. \A k \in 1..Len(q) : [q[k] EXCEPT !.status = s] \in OutInflightMessage
  BY <1>2 DEF OutInflightMessage
<1>4. update_status(q, i, s) \in [1..Len(q) -> OutInflightMessage]
  BY <1>1, <1>2, <1>3, Zenon DEF update_status
<1> QED  BY <1>1, <1>4, SeqDef, Zenon

\* The type of a message says what it carries.
LEMMA MessageFields ==
  ASSUME NEW x \in Message
  PROVE  x.type \in {"Forward", "SendRerelease"} => x.pub \in Publish
BY DEF Message

\* A packet carries an id, and a PUBLISH its message.
LEMMA PacketFields ==
  ASSUME NEW p \in Packet
  PROVE  p.id \in Ids /\ (p.type = "PUBLISH" => p.m \in Msgs)
BY DEF Packet

\* What a retransmission sends the session is a message of its mailbox.
LEMMA ReforwardType ==
  ASSUME NEW e \in OutInflightMessage
  PROVE  reforward(e) \in Message
<1>1. e.pub \in Publish /\ [e.pub EXCEPT !.dup = TRUE] \in Publish
  BY Zenon DEF OutInflightMessage, Publish
<1> QED  BY <1>1, Zenon DEF reforward, Message, SendRerelease, Forward

\* Sender::send keeps one signal per queued message, and the queue within its
\* capacity, whichever policy applies.
LEMMA SendSignals ==
  ASSUME NEW q \in Seq(Publish), NEW n \in Nat, NEW p \in Publish,
         n = Len(q), Len(q) <= QueueCap
  PROVE  /\ Send(q, n, p).queue \in Seq(Publish)
         /\ Send(q, n, p).signals = Len(Send(q, n, p).queue)
         /\ Len(Send(q, n, p).queue) <= QueueCap
         /\ Send(q, n, p).drop \subseteq Msgs
<1> USE SessionOutAssumption
<1>0. SignalCap \in Nat /\ QueueCap <= SignalCap
  BY DEF SignalCap
<1>1. CASE Len(q) < QueueCap
  <2>1. n < SignalCap
    BY <1>0, <1>1, SMTT(30), Z3T(30)
  <2>2. Send(q, n, p) = [queue |-> Append(q, p), signals |-> n + 1, drop |-> {}]
    BY <1>1, <2>1, Zenon DEF Send
  <2>3. Append(q, p) \in Seq(Publish) /\ Len(Append(q, p)) = Len(q) + 1
    BY AppendProperties, Zenon
  <2> QED  BY <1>1, <2>2, <2>3, SMTT(30), Z3T(30)
<1>2. CASE ~(Len(q) < QueueCap) /\ (Qos[p.m] = 0 \/ QueueCap = 0)
  BY <1>2, Zenon DEF Send, Publish
<1>3. CASE ~(Len(q) < QueueCap) /\ ~(Qos[p.m] = 0 \/ QueueCap = 0)
  <2>1. q # <<>> /\ Len(q) = QueueCap
    BY <1>3, SMTT(30), Z3T(30)
  <2>2. Head(q) \in Publish /\ Tail(q) \in Seq(Publish) /\ Len(Tail(q)) = Len(q) - 1
    BY <2>1, HeadTailProperties, Zenon
  <2>3. Append(Tail(q), p) \in Seq(Publish) /\ Len(Append(Tail(q), p)) = Len(q)
    BY <2>2, AppendProperties, SMTT(30), Z3T(30)
  <2> QED  BY <1>3, <2>1, <2>2, <2>3, Zenon DEF Send, Publish
<1> QED  BY <1>1, <1>2, <1>3, Zenon

-----------------------------------------------------------------------------
(* The invariants *)

\* SignalsMatchQueue needs the types of the queue and of what Send is given;
\* together the two are inductive.
Inv == TypeOK /\ SignalsMatchQueue

\* A new session satisfies the invariant.
LEMMA InitInv == Init => Inv
<1> SUFFICES ASSUME Init PROVE Inv
  BY Zenon
<1> USE SessionOutAssumption DEF Init
<1>1. NoInfo \in OfflineInfo
  BY DEF NoInfo, OfflineInfo
<1>2. TypeOK
  <2>1. disturbed \in BOOLEAN
    BY Zenon
  <2> QED  BY <1>1, <2>1, SMTT(30), Z3T(30) DEF TypeOK, Modes, Ids
<1>3. SignalsMatchQueue
  BY SMTT(30), Z3T(30) DEF SignalsMatchQueue
<1> QED  BY <1>2, <1>3, Zenon DEF Inv

\* One step of each kind keeps the types and the signals of the queue.
LEMMA NextInv == Inv /\ [Next]_vars => Inv'
<1> SUFFICES ASSUME Inv, [Next]_vars PROVE Inv'
  BY Zenon
<1> USE SessionOutAssumption
<1>t. TypeOK /\ SignalsMatchQueue
  BY Zenon DEF Inv
<1>0. CASE UNCHANGED vars
  BY <1>t, <1>0, Zenon DEF Inv, TypeOK, SignalsMatchQueue, vars
<1>1. ASSUME NEW m \in Msgs, forwards_to(m) PROVE Inv'
  <2>1. Forward([m |-> m, dup |-> FALSE, id |-> 0]) \in Message
    BY SMTT(30), Z3T(30) DEF Forward, Message, Publish, Ids
  <2>r. rx \in Seq(Message)
    BY <1>t, Zenon DEF TypeOK
  <2>a. Append(rx, Forward([m |-> m, dup |-> FALSE, id |-> 0])) \in Seq(Message)
    BY <2>r, <2>1, AppendProperties, Zenon
  <2>2. rx' \in Seq(Message)
    BY <1>1, <2>r, <2>a, Zenon DEF forwards_to
  <2> QED
    BY <1>1, <1>t, <2>2, Zenon DEF forwards_to, Inv, TypeOK, SignalsMatchQueue, netVars,
       clientVars, counters
<1>2. CASE PollDeliverQueue
  <2>1. queue # <<>> /\ Len(queue) \in Nat
    BY <1>2, <1>t, SMTT(30), Z3T(30) DEF PollDeliverQueue, SignalsMatchQueue, TypeOK
  <2>2. Head(queue) \in Publish /\ Tail(queue) \in Seq(Publish)
        /\ Len(Tail(queue)) = Len(queue) - 1
    BY <1>t, <2>1, HeadTailProperties, Zenon DEF TypeOK
  <2>3. held' = <<Head(queue)>> /\ queue' = Tail(queue) /\ signals' = signals - 1
    BY <1>2, <2>1, Zenon DEF PollDeliverQueue
  <2>4. held' \in Seq(Publish) /\ Len(held') = 1
    BY <2>2, <2>3, SMTT(30), Z3T(30)
  <2> QED
    BY <1>2, <1>t, <2>1, <2>2, <2>3, <2>4, SMTT(30), Z3T(30) DEF PollDeliverQueue, Inv, TypeOK,
       SignalsMatchQueue, netVars, clientVars, historyVars, counters
<1>3. CASE deliver_expired
  <2>1. held[1] \in Publish
    BY <1>3, <1>t, SMTT(30), Z3T(30) DEF deliver_expired, TypeOK
  <2> QED
    BY <1>3, <1>t, <2>1, SMTT(30), Z3T(30) DEF deliver_expired, Inv, TypeOK, SignalsMatchQueue, Publish,
       netVars, clientVars, counters
<1>4. CASE deliver_sent
  <2> DEFINE p == IF NeedsId(held[1]) THEN [held[1] EXCEPT !.id = next_id] ELSE held[1]
  <2>1. held[1] \in Publish
    BY <1>4, <1>t, SMTT(30), Z3T(30) DEF deliver_sent, TypeOK
  <2>2. next \in Ids
    BY <1>t DEF TypeOK
  <2>3. NeedsId(held[1]) => next_id \in Ids
    BY <1>4, <2>2, NextIdFree DEF deliver_sent
  <2>4. p \in Publish
    BY <2>1, <2>3 DEF Publish
  <2>5. next' \in Ids
    BY <1>4, <2>2, <2>3, SMTT(30), Z3T(30) DEF deliver_sent, Ids
  <2>6. s2c' \in Seq(Packet)
    <3>1. [type |-> "PUBLISH", id |-> p.id, m |-> p.m] \in Packet
      BY <2>4 DEF Packet, Publish
    <3>2. <<[type |-> "PUBLISH", id |-> p.id, m |-> p.m]>> \in Seq(Packet)
      BY <3>1, SMTT(30), Z3T(30)
    <3> QED  BY <1>4, <1>t, <3>2, ConcatProperties, Zenon DEF deliver_sent, Transmit, TypeOK
  <2>7. inflight' \in Seq(OutInflightMessage)
    <3>1. [pub |-> p, status |-> "UnAck"] \in OutInflightMessage
          /\ [pub |-> p, status |-> "UnReceived"] \in OutInflightMessage
      BY <2>4, Zenon DEF OutInflightMessage, MomentStatus
    <3>2. /\ push_back(inflight, [pub |-> p, status |-> "UnAck"]) \in Seq(OutInflightMessage)
          /\ push_back(inflight, [pub |-> p, status |-> "UnReceived"]) \in Seq(OutInflightMessage)
      BY <1>t, <3>1, PushBackType, Zenon DEF TypeOK
    <3> QED  BY <1>4, <1>t, <3>2, Zenon DEF deliver_sent, TypeOK
  <2>8. held' \in Seq(Publish) /\ Len(held') <= 1
    BY <1>4, SMTT(30), Z3T(30) DEF deliver_sent
  <2> QED
    BY <1>4, <1>t, <2>5, <2>6, <2>7, <2>8, ZenonT(60) DEF deliver_sent, Inv, TypeOK,
       SignalsMatchQueue, clientVars, historyVars, counters
<1>5. CASE deliver_failed
  <2>1. next \in Ids
    BY <1>t, Zenon DEF TypeOK
  <2>2. next' \in Ids
    BY <1>5, <2>1, NextIdFree, SMTT(30), Z3T(30) DEF deliver_failed, Ids
  <2>3. linkDowns' \in Nat
    BY <1>5, <1>t, SMTT(30), Z3T(30) DEF deliver_failed, TypeOK
  <2>4. /\ mode' \in Modes /\ link' \in {"up", "down"} /\ disturbed' \in BOOLEAN
        /\ s2c' = <<>> /\ c2s' = <<>> /\ held' = <<>>
    BY <1>5, Zenon DEF deliver_failed, LeaveRunLoop, Modes
  <2>5. /\ UNCHANGED <<rx, queue, signals, inflight, info>>
        /\ UNCHANGED <<clientVars, historyVars, timeouts, takeovers>>
    BY <1>5, Zenon DEF deliver_failed
  <2>6. held' \in Seq(Publish) /\ Len(held') <= 1 /\ s2c' \in Seq(Packet) /\ c2s' \in Seq(Packet)
    BY <2>4, SMTT(30), Z3T(30)
  <2> QED
    BY <1>t, <2>2, <2>3, <2>4, <2>5, <2>6, Zenon DEF Inv, TypeOK, SignalsMatchQueue,
       clientVars, historyVars
<1>6. CASE process_forward \/ offline_forward
  <2>1. rx # <<>> /\ Head(rx).type = "Forward" /\ rx \in Seq(Message)
    BY <1>6, <1>t DEF process_forward, offline_forward, Taken, TypeOK
  <2>2. Head(rx) \in Message /\ Tail(rx) \in Seq(Message)
    BY <2>1, HeadTailProperties
  <2>3. Head(rx).pub \in Publish
    BY <2>1, <2>2, MessageFields
  <2> DEFINE r == Send(queue, signals, Head(rx).pub)
  <2>4. /\ r.queue \in Seq(Publish) /\ r.signals = Len(r.queue)
        /\ Len(r.queue) <= QueueCap /\ r.drop \subseteq Msgs
    BY <1>t, <2>3, SendSignals, ZenonT(60) DEF TypeOK, SignalsMatchQueue
  <2>5. /\ queue' = r.queue /\ signals' = r.signals /\ dropped' = dropped \cup r.drop
        /\ rx' = Tail(rx)
    BY <1>6 DEF process_forward, offline_forward
  <2>6. /\ UNCHANGED <<mode, held, inflight, next, info, published, acked, behind>>
        /\ UNCHANGED <<netVars, clientVars, counters>>
    BY <1>6, Zenon DEF process_forward, offline_forward
  <2> HIDE DEF r
  <2>7. signals' \in Nat
    BY <2>4, <2>5, SMTT(30), Z3T(30)
  <2> QED
    BY <1>t, <2>2, <2>4, <2>5, <2>6, <2>7, ZenonT(60) DEF Inv, TypeOK, SignalsMatchQueue, netVars,
       clientVars, counters
<1>7. CASE send_rerelease
  <2>1. rx # <<>> /\ Head(rx).type = "SendRerelease" /\ rx \in Seq(Message)
    BY <1>7, <1>t, Zenon DEF send_rerelease, Taken, TypeOK
  <2>2. Head(rx) \in Message /\ Tail(rx) \in Seq(Message)
    BY <2>1, HeadTailProperties, Zenon
  <2>3. Head(rx).pub \in Publish
    BY <2>1, <2>2, MessageFields, Zenon
  <2>4. [pub |-> Head(rx).pub, status |-> "UnComplete"] \in OutInflightMessage
    BY <2>3, Zenon DEF OutInflightMessage, MomentStatus
  <2>5. inflight' \in Seq(OutInflightMessage)
    BY <1>7, <1>t, <2>4, PushBackType, Zenon DEF send_rerelease, TypeOK
  <2>6. <<Ack("PUBREL", Head(rx).pub.id)>> \in Seq(Packet)
    BY <2>3, SMTT(30), Z3T(30) DEF Ack, Packet, Publish
  <2>7. s2c' \in Seq(Packet)
    <3>1. s2c \in Seq(Packet) /\ <<>> \in Seq(Packet)
      BY <1>t, SMTT(30), Z3T(30) DEF TypeOK
    <3>2. s2c \o <<Ack("PUBREL", Head(rx).pub.id)>> \in Seq(Packet)
      BY <3>1, <2>6, ConcatProperties, Zenon
    <3> QED  BY <1>7, <3>1, <3>2, Zenon DEF send_rerelease, Transmit, LeaveRunLoop
  <2> QED
    BY <1>7, <1>t, <2>2, <2>5, <2>7, ZenonT(60) DEF send_rerelease, LeaveRunLoop, Inv, TypeOK, Modes,
       SignalsMatchQueue, clientVars, historyVars, counters
<1>8. CASE process_kick \/ offline_kick \/ offline_drained \/ offline_answer
          \/ offline_ignored
  <2>0. rx \in Seq(Message) /\ info \in OfflineInfo /\ NoInfo \in OfflineInfo
    BY <1>t, SMTT(30), Z3T(30) DEF TypeOK, NoInfo, OfflineInfo
  <2>1. rx' \in Seq(Message)
    BY <1>8, <2>0, HeadTailProperties, Zenon DEF process_kick, offline_kick, offline_drained, offline_answer,
       offline_ignored, Taken
  <2>2. info' \in OfflineInfo
    BY <1>8, <2>0, Zenon DEF process_kick, offline_kick, offline_drained, offline_answer, offline_ignored
  <2>3. mode' \in Modes
    BY <1>8, <1>t, Zenon DEF process_kick, offline_kick, offline_drained, offline_answer, offline_ignored,
       TypeOK, Modes
  <2>4. /\ link' \in {"up", "down"} /\ s2c' \in Seq(Packet) /\ c2s' \in Seq(Packet)
    <3>1. \/ UNCHANGED <<link, s2c, c2s>>
          \/ link' = "down" /\ s2c' = <<>> /\ c2s' = <<>>
      BY <1>8, Zenon DEF process_kick, offline_kick, offline_drained, offline_answer, offline_ignored, netVars
    <3>2. link \in {"up", "down"} /\ s2c \in Seq(Packet) /\ c2s \in Seq(Packet)
      BY <1>t DEF TypeOK
    <3>3. <<>> \in Seq(Packet)
      OBVIOUS
    <3>4. CASE UNCHANGED <<link, s2c, c2s>>
      BY <3>2, <3>4, Zenon
    <3>5. CASE link' = "down" /\ s2c' = <<>> /\ c2s' = <<>>
      BY <3>3, <3>5, Zenon
    <3> QED  BY <3>1, <3>4, <3>5, Zenon
  <2>5. /\ UNCHANGED <<queue, signals, held, inflight, next>>
        /\ UNCHANGED <<clientVars, published, acked, dropped, timeouts, linkDowns, takeovers>>
    BY <1>8, Zenon DEF process_kick, offline_kick, offline_drained, offline_answer, offline_ignored,
       historyVars, counters
  <2>6. disturbed' \in BOOLEAN
    BY <1>8, <1>t, Zenon DEF process_kick, offline_kick, offline_drained, offline_answer, offline_ignored, counters,
       TypeOK
  <2>7. behind' \subseteq Msgs
    <3>1. \A k \in 2..Len(rx) : rx[k] \in Message
      BY <2>0, SMTT(30), Z3T(30)
    <3>2. \A k \in 2..Len(rx) : rx[k].type = "Forward" => rx[k].pub.m \in Msgs
      BY <3>1, MessageFields, SMTT(30), Z3T(30) DEF Publish
    <3>3. \A k \in 2..Len(rx) : k \in 2..k
      BY SMTT(30), Z3T(30)
    <3>4. ForwardsBehind \subseteq Msgs
      BY <3>2, <3>3, Zenon DEF ForwardsBehind
    <3>5. behind' = ForwardsBehind \/ behind' = behind
      BY <1>8, Zenon DEF process_kick, offline_kick, offline_drained, offline_answer,
         offline_ignored, historyVars
    <3> QED  BY <1>t, <3>4, <3>5, Zenon DEF TypeOK
  <2> QED
    BY <1>t, <2>1, <2>2, <2>3, <2>4, <2>5, <2>6, <2>7, ZenonT(60) DEF Inv, TypeOK, SignalsMatchQueue,
       clientVars
<1>9. CASE process_transfer
  <2>1. rx' \in Seq(Message)
    BY <1>9, <1>t, HeadTailProperties, ZenonT(60) DEF process_transfer, Taken, TypeOK
  <2> DEFINE ids == {info.inflights[i].pub.id : i \in DOMAIN info.inflights}
             max == CHOOSE i \in ids : \A j \in ids : j <= i
  <2>2. info.inflights \in Seq(OutInflightMessage)
    BY <1>t, ZenonT(60) DEF TypeOK, OfflineInfo
  <2>3. ids \in SUBSET Ids
    <3>1. \A i \in DOMAIN info.inflights : info.inflights[i] \in OutInflightMessage
      BY <2>2, SMTT(30), Z3T(30)
    <3>2. \A i \in DOMAIN info.inflights : info.inflights[i].pub.id \in Ids
      BY <3>1, Zenon DEF OutInflightMessage, Publish
    <3> QED  BY <3>2, Zenon
  <2>4. ids # {} => max \in Ids
    BY <2>3, GreatestId, ZenonT(60)
  <2>5. next' = IF ids = {} THEN next ELSE advance_next_id(next, max)
    BY <1>9, Zenon DEF process_transfer
  <2> HIDE DEF ids, max
  <2>6. next' \in Ids
    BY <1>t, <2>4, <2>5, SMTT(30), Z3T(30) DEF advance_next_id, Ids, TypeOK
  <2> QED
    BY <1>9, <1>t, <2>1, <2>6, ZenonT(60) DEF process_transfer, Inv, TypeOK, Modes, SignalsMatchQueue,
       netVars, clientVars, historyVars, counters
<1>10. CASE transfer_session_state
  <2>0. /\ info.inflights \in Seq(OutInflightMessage) /\ info.offline \in Seq(Publish)
        /\ rx \in Seq(Message)
    BY <1>t, Zenon DEF TypeOK, OfflineInfo
  <2>1. info' \in OfflineInfo /\ rx' \in Seq(Message) /\ mode' \in Modes
    <3>1. CASE /\ info.inflights # <<>>
               /\ LET e == info.inflights[Len(info.inflights)]
                  IN  \/ rx' = Append(rx, reforward(e))
                      \/ e.status = "UnComplete" /\ e.pub.m \in Expiring /\ UNCHANGED rx
               /\ info' = [info EXCEPT !.inflights = SubSeq(@, 1, Len(@) - 1)]
               /\ UNCHANGED mode
      <4>1. info.inflights[Len(info.inflights)] \in OutInflightMessage
        BY <2>0, <3>1, SMTT(30), Z3T(30)
      <4>2. reforward(info.inflights[Len(info.inflights)]) \in Message
        BY <4>1, ReforwardType, Zenon
      <4>3. SubSeq(info.inflights, 1, Len(info.inflights) - 1) \in Seq(OutInflightMessage)
        BY <2>0, <3>1, SubSeqProperties, SMTT(30), Z3T(30)
      <4>a. Append(rx, reforward(info.inflights[Len(info.inflights)])) \in Seq(Message)
        BY <2>0, <4>2, AppendProperties, Zenon
      <4>4. rx' \in Seq(Message)
        BY <2>0, <3>1, <4>a, Zenon
      <4>5. info' \in OfflineInfo
        BY <1>t, <3>1, <4>3, Zenon DEF OfflineInfo, TypeOK
      <4> QED  BY <1>t, <3>1, <4>4, <4>5 DEF TypeOK
    <3>2. CASE /\ info.inflights = <<>> /\ info.offline # <<>>
               /\ rx' = Append(rx, Forward(Head(info.offline)))
               /\ info' = [info EXCEPT !.offline = Tail(@)]
               /\ UNCHANGED mode
      <4>1. Head(info.offline) \in Publish /\ Tail(info.offline) \in Seq(Publish)
        BY <2>0, <3>2, HeadTailProperties, Zenon
      <4>2. Forward(Head(info.offline)) \in Message
        BY <4>1, Zenon DEF Forward, Message
      <4>3. rx' \in Seq(Message)
        BY <2>0, <3>2, <4>2, AppendProperties, ZenonT(60)
      <4>4. info' \in OfflineInfo
        BY <1>t, <3>2, <4>1, Zenon DEF OfflineInfo, TypeOK
      <4> QED  BY <1>t, <3>2, <4>3, <4>4, ZenonT(60) DEF TypeOK
    <3>3. CASE info = NoInfo /\ mode' = "online" /\ UNCHANGED <<rx, info>>
      BY <1>t, <3>3, Zenon DEF TypeOK, Modes
    <3> QED  BY <1>10, <3>1, <3>2, <3>3, ZenonT(60) DEF transfer_session_state
  <2> QED
    BY <1>10, <1>t, <2>1, Zenon DEF transfer_session_state, Inv, TypeOK, SignalsMatchQueue,
       netVars, clientVars, historyVars, counters
<1>11. CASE process_ack
  <2>1. c2s # <<>> /\ c2s \in Seq(Packet)
    BY <1>11, <1>t, Zenon DEF process_ack, Incoming, TypeOK
  <2>2. c2s' \in Seq(Packet)
    BY <1>11, <2>1, HeadTailProperties, Zenon DEF process_ack
  <2>3. inflight' \in Seq(OutInflightMessage)
    BY <1>11, <1>t, WithoutType, Zenon DEF process_ack, TypeOK
  <2>4. acked' \subseteq Msgs
    <3>1. \A i \in DOMAIN inflight : inflight[i].pub.m \in Msgs
      <4>1. \A i \in DOMAIN inflight : inflight[i] \in OutInflightMessage
        BY <1>t, SMTT(30), Z3T(30) DEF TypeOK
      <4> QED  BY <4>1, Zenon DEF OutInflightMessage, Publish
    <3> QED  BY <1>11, <1>t, <3>1, ZenonT(60) DEF process_ack, TypeOK
  <2> QED
    BY <1>11, <1>t, <2>2, <2>3, <2>4, ZenonT(60) DEF process_ack, Inv, TypeOK, SignalsMatchQueue,
       clientVars, counters
<1>12. CASE process_pubrec
  <2>1. c2s # <<>> /\ c2s \in Seq(Packet) /\ s2c \in Seq(Packet)
    BY <1>12, <1>t, Zenon DEF process_pubrec, Incoming, TypeOK
  <2>2. c2s' \in Seq(Packet) /\ Head(c2s) \in Packet
    BY <1>12, <2>1, HeadTailProperties, Zenon DEF process_pubrec
  <2>3. Ack("PUBREL", Head(c2s).id) \in Packet
    BY <2>2, PacketFields, Zenon DEF Ack, Packet
  <2>4. s2c' \in Seq(Packet)
    BY <1>12, <2>1, <2>3, AppendProperties, Zenon DEF process_pubrec
  <2>5. inflight' \in Seq(OutInflightMessage)
    BY <1>12, <1>t, UpdateStatusType, Zenon DEF process_pubrec, TypeOK, MomentStatus
  <2> QED
    BY <1>12, <1>t, <2>2, <2>4, <2>5, Zenon DEF process_pubrec, Inv, TypeOK, SignalsMatchQueue,
       clientVars, historyVars, counters
<1>13. CASE connection_lost
  BY <1>13, <1>t, SMTT(30), Z3T(30) DEF connection_lost, LeaveRunLoop, Inv, TypeOK, Modes, SignalsMatchQueue,
     clientVars, historyVars, counters
<1>14. CASE deliver_timeout
  <2>1. inflight # <<>> /\ inflight \in Seq(OutInflightMessage) /\ rx \in Seq(Message)
    BY <1>14, <1>t DEF deliver_timeout, TypeOK
  <2>2. Head(inflight) \in OutInflightMessage /\ Tail(inflight) \in Seq(OutInflightMessage)
    BY <2>1, HeadTailProperties, Zenon
  <2>3. reforward(Head(inflight)) \in Message
    BY <2>2, ReforwardType, Zenon
  <2>4. rx' \in Seq(Message)
    <3>1. Append(rx, reforward(Head(inflight))) \in Seq(Message)
      BY <2>1, <2>3, AppendProperties, Zenon
    <3> QED  BY <1>14, <2>1, <3>1, Zenon DEF deliver_timeout
  <2> QED
    BY <1>14, <1>t, <2>2, <2>4, SMTT(30), Z3T(30) DEF deliver_timeout, Inv, TypeOK, SignalsMatchQueue,
       netVars, clientVars, historyVars
<1>15. CASE session_expired
  <2>1. PubsOf(queue) \subseteq Msgs
    <3>1. \A i \in DOMAIN queue : queue[i] \in Publish
      BY <1>t, SMTT(30), Z3T(30) DEF TypeOK
    <3>2. \A i \in DOMAIN queue : queue[i].m \in Msgs
      BY <3>1, Zenon DEF Publish
    <3> QED  BY <3>2, Zenon DEF PubsOf
  <2>2. MsgsIn(inflight) \subseteq Msgs
    <3>1. \A i \in DOMAIN inflight : inflight[i] \in OutInflightMessage
      BY <1>t, SMTT(30), Z3T(30) DEF TypeOK
    <3>2. \A i \in DOMAIN inflight : inflight[i].pub.m \in Msgs
      BY <3>1, Zenon DEF OutInflightMessage, Publish
    <3> QED  BY <3>2, Zenon DEF MsgsIn
  <2>3. NoInfo \in OfflineInfo
    BY SMTT(30), Z3T(30) DEF NoInfo, OfflineInfo
  <2> QED
    BY <1>15, <1>t, <2>1, <2>2, <2>3, SMTT(30), Z3T(30) DEF session_expired, Inv, TypeOK, Modes,
       SignalsMatchQueue, netVars, clientVars, counters
<1>16. CASE handshake
  <2>1. Kick \in Message
    BY Zenon DEF Kick, Message
  <2>2. rx' \in Seq(Message)
    <3>1. rx \in Seq(Message)
      BY <1>t, Zenon DEF TypeOK
    <3>2. Append(rx, Kick) \in Seq(Message)
      BY <2>1, <3>1, AppendProperties, Zenon
    <3> QED  BY <1>16, <3>1, <3>2, Zenon DEF handshake
  <2> QED
    BY <1>16, <1>t, <2>2, SMTT(30), Z3T(30) DEF handshake, Inv, TypeOK, Modes, SignalsMatchQueue,
       netVars, historyVars
<1>17. CASE to_offline_info
  <2>1. info' \in OfflineInfo
    BY <1>17, <1>t, Zenon DEF to_offline_info, TypeOK, OfflineInfo
  <2> QED
    BY <1>17, <1>t, <2>1, SMTT(30), Z3T(30) DEF to_offline_info, Inv, TypeOK, Modes, SignalsMatchQueue,
       netVars, clientVars, historyVars, counters
<1>18. CASE session_set
  BY <1>18, <1>t, SMTT(30), Z3T(30) DEF session_set, Inv, TypeOK, Modes, Ids, SignalsMatchQueue,
     netVars, clientVars, historyVars, counters
<1>19. CASE session_run
  <2>1. SessionStateTransfer \in Message
    BY Zenon DEF SessionStateTransfer, Message
  <2>2. rx' \in Seq(Message)
    BY <1>19, <1>t, <2>1, AppendProperties, Zenon DEF session_run, TypeOK
  <2> QED
    BY <1>19, <1>t, <2>2, Zenon DEF session_run, Inv, TypeOK, Modes, SignalsMatchQueue,
       clientVars, historyVars, counters
<1>20. CASE client_recv
  <2>1. s2c # <<>> /\ s2c \in Seq(Packet) /\ c2s \in Seq(Packet)
    BY <1>20, <1>t, Zenon DEF client_recv, TypeOK
  <2>2. s2c' \in Seq(Packet) /\ Head(s2c) \in Packet
    BY <1>20, <2>1, HeadTailProperties, Zenon DEF client_recv
  <2>3. Head(s2c).id \in Ids /\ (Head(s2c).type = "PUBLISH" => Head(s2c).m \in Msgs)
    BY <2>2, PacketFields, Zenon
  <2>4. \A t \in {"PUBACK", "PUBREC", "PUBCOMP"} : Ack(t, Head(s2c).id) \in Packet
    BY <2>3 DEF Ack, Packet
  <2>5. c2s' \in Seq(Packet)
    <3>1. \A t \in {"PUBACK", "PUBREC", "PUBCOMP"} :
            Append(c2s, Ack(t, Head(s2c).id)) \in Seq(Packet)
      BY <2>1, <2>4, AppendProperties, Zenon
    <3> QED  BY <1>20, <2>1, <3>1, Zenon DEF client_recv
  <2>6. got' \in [Msgs -> Nat] /\ received' \subseteq Ids
    <3>1. got \in [Msgs -> Nat] /\ received \subseteq Ids
      BY <1>t, ZenonT(60) DEF TypeOK
    <3>2. got' \in [Msgs -> Nat]
      BY <1>20, <2>3, <3>1, SMTT(30), Z3T(30) DEF client_recv
    <3>3. received' \subseteq Ids
      BY <1>20, <2>3, <3>1, Zenon DEF client_recv
    <3> QED  BY <3>2, <3>3, Zenon
  <2> QED
    BY <1>20, <1>t, <2>2, <2>5, <2>6, Zenon DEF client_recv, Inv, TypeOK, SignalsMatchQueue,
       sessionVars, historyVars, counters
<1>21. CASE link_down
  BY <1>21, <1>t, SMTT(30), Z3T(30) DEF link_down, Inv, TypeOK, SignalsMatchQueue, sessionVars, clientVars,
     historyVars
<1> QED
  BY <1>0, <1>1, <1>2, <1>3, <1>4, <1>5, <1>6, <1>7, <1>8, <1>9, <1>10, <1>11, <1>12,
     <1>13, <1>14, <1>15, <1>16, <1>17, <1>18, <1>19, <1>20, <1>21, ZenonT(60)
     DEF Next, RunLoop, OfflineRunLoop, Handshake

\* Every behaviour of the session's outbound path keeps its types, whatever the
\* window, the queue, the packet-id width and the number of failures.
THEOREM TypeCorrect == Spec => []TypeOK
<1>1. Inv => TypeOK
  BY DEF Inv
<1> QED  BY <1>1, InitInv, NextInv, PTL DEF Spec

\* No wake-up of the deliver queue is lost or duplicated: as long as a session
\* task owns the queue there is exactly one signal per queued message, and the
\* queue never exceeds max_mqueue_len, through evictions, takeovers and expiry.
THEOREM NoLostWakeup == Spec => []SignalsMatchQueue
<1>1. Inv => SignalsMatchQueue
  BY DEF Inv
<1> QED  BY <1>1, InitInv, NextInv, PTL DEF Spec
=============================================================================
