----------------------------- MODULE SessionOut -----------------------------
(***************************************************************************)
(* The outbound half of one client's session: what happens to a PUBLISH    *)
(* from the moment Shared::forwards_to hands it to the session's channel    *)
(* until the subscriber acknowledges it, across connection loss, the        *)
(* offline event loop, session takeover and the transfer of the old         *)
(* session's state to the new one.                                          *)
(*                                                                         *)
(*   Message channel tx/rx        rx                                        *)
(*   Session::deliver_queue       queue, signals (the wake-up channel)      *)
(*   governor's RatelimitedStream held (the item taken but not yet yielded) *)
(*   Session::out_inflight        inflight, next                            *)
(*   the TCP connection           link, s2c, c2s                            *)
(*   the subscriber               received, got                             *)
(*                                                                         *)
(* One session is followed through successive incarnations.  A takeover in  *)
(* which the old session never answers the Kick (the five second timeout)   *)
(* is the subject of another module; here every Kick is answered.           *)
(***************************************************************************)
EXTENDS Integers, Sequences, Functions, FiniteSets

CONSTANTS
  Msgs,          \* the messages routed to this client, each published once
  Qos,           \* the QoS a message is forwarded with
  Expiring,      \* the messages whose expiry interval may elapse
  Cap,           \* OutInflight::cap, the fitter's max_inflight
  QueueCap,      \* the fitter's max_mqueue_len
  IdMax,         \* u16::MAX; packet ids are 1..IdMax, the allocator is mod IdMax+1
  FirstIds,      \* where the allocator may be after the messages delivered before
  MaxTimeouts,   \* bound on retransmission timeouts; 0: every answer is in time
  MaxLinkDowns,  \* bound on connection failures
  MaxTakeovers   \* bound on reconnections of the client

ASSUME SessionOutAssumption ==
  /\ Qos \in [Msgs -> 0..2]
  /\ Expiring \subseteq Msgs
  /\ Cap \in Nat \ {0}
  /\ QueueCap \in Nat
  /\ IdMax \in Nat \ {0}
  /\ FirstIds \subseteq 0..IdMax
  /\ MaxTimeouts \in Nat
  /\ MaxLinkDowns \in Nat
  /\ MaxTakeovers \in Nat

VARIABLES
  mode,       \* where the session is in its life, see Modes
  rx,         \* messages sent to the session task and not yet taken
  queue,      \* deliver_queue
  signals,    \* units in the channel that wakes the receiver of deliver_queue
  held,       \* at most one publish buffered by the rate limiter
  inflight,   \* out_inflight in insertion order
  next,       \* OutInflight::next
  info,       \* the OfflineInfo travelling to the next incarnation
  link,       \* whether the connection is up
  s2c, c2s,   \* packets on the connection
  received,   \* packet ids of QoS 2 publishes the client has not seen released
  got,        \* how often the client's application was given each message
  published, acked, dropped, \* history: forwarded, message_acked, message_dropped
  timeouts, linkDowns, takeovers, \* history: what has happened so far
  disturbed,  \* history: something met a session that was being resumed, a
              \* connection ended with a retransmission outside the window, or a
              \* transferred window held the largest packet id
  behind      \* history: the messages behind the Kick an offline session took

sessionVars == <<mode, rx, queue, signals, held, inflight, next, info>>
netVars == <<link, s2c, c2s>>
clientVars == <<received, got>>
historyVars == <<published, acked, dropped, behind>>
counters == <<timeouts, linkDowns, takeovers, disturbed>>
vars == <<mode, rx, queue, signals, held, inflight, next, info, link, s2c, c2s,
          received, got, published, acked, dropped, timeouts, linkDowns, takeovers, disturbed,
          behind>>

-----------------------------------------------------------------------------
(* Data *)

Modes == {"online",     \* run_loop
          "transferring", \* inside transfer_session_state
          "offline",    \* offline_run_loop
          "draining",   \* offline_run_loop, emptying its channel for a Kick
          "answering",  \* offline_run_loop, about to answer the Kick
          "kicked",     \* the Kick is answered, the session is still registered
          "collected",  \* unregistered, its state taken by the kicker
          "starting",   \* the new session is registered, its loop not started
          "gone"}       \* expired and cleaned

Ids == 0..IdMax  \* 0 is a publish without packet id

Publish == [m: Msgs, dup: BOOLEAN, id: Ids]

MomentStatus == {"UnAck", "UnReceived", "UnComplete"}

OutInflightMessage == [pub: Publish, status: MomentStatus]

OfflineInfo == [offline: Seq(Publish), inflights: Seq(OutInflightMessage)]

NoInfo == [offline |-> <<>>, inflights |-> <<>>]

\* The variants of Message this path uses.  The OfflineInfo that a
\* SessionStateTransfer carries is the variable info: there is one at a time.
Message == [type: {"Forward", "SendRerelease"}, pub: Publish]
           \cup [type: {"Kick", "SessionStateTransfer"}]

Forward(p) == [type |-> "Forward", pub |-> p]
SendRerelease(p) == [type |-> "SendRerelease", pub |-> p]
Kick == [type |-> "Kick"]
SessionStateTransfer == [type |-> "SessionStateTransfer"]

Packet == [type: {"PUBLISH"}, id: Ids, m: Msgs]
          \cup [type: {"PUBREL", "PUBACK", "PUBREC", "PUBCOMP"}, id: Ids]

Ack(t, i) == [type |-> t, id |-> i]

-----------------------------------------------------------------------------
(* OutInflight *)

InflightIds == {inflight[i].pub.id : i \in DOMAIN inflight}

\* Position of the entry kept under a packet id.
At(q, i) == CHOOSE k \in DOMAIN q : q[k].pub.id = i

Without(q, i) ==
  IF \E k \in DOMAIN q : q[k].pub.id = i
  THEN SubSeq(q, 1, At(q, i) - 1) \o SubSeq(q, At(q, i) + 1, Len(q))
  ELSE q

\* push_back: an entry already kept under the id is replaced.
push_back(q, e) == Append(Without(q, e.pub.id), e)

\* update_status: nothing happens when the id is not in the window.
update_status(q, i, s) ==
  [k \in DOMAIN q |-> IF q[k].pub.id = i THEN [q[k] EXCEPT !.status = s] ELSE q[k]]

\* The subtraction cap - len is on usize and wraps in a release build, so the
\* result is positive whenever the two differ.
has_credit == Len(inflight) # Cap

\* next_id: at most u16::MAX probes of the wrapping counter, skipping zero and
\* the ids now in the window.
Probes == {k \in 0..(IdMax - 1) :
             LET i == (next + k) % (IdMax + 1)
             IN  i # 0 /\ i \notin InflightIds}

next_id ==
  LET k == CHOOSE k \in Probes : \A j \in Probes : k <= j
  IN  (next + k) % (IdMax + 1)

\* Mutant: the reserved id itself is handed out next.
advance_next_id_off_by_one(n, max) == IF max > n THEN max ELSE n

\* advance_next_id: fetch_max with a saturating successor.
advance_next_id(n, max) ==
  LET succ == IF max < IdMax THEN max + 1 ELSE max
  IN  IF succ > n THEN succ ELSE n

-----------------------------------------------------------------------------
(* Publishing to the client *)

\* A resumed session that has not yet been through its predecessor's window.
Resuming ==
  \/ mode \in {"starting", "transferring"}
  \/ \E i \in DOMAIN rx : rx[i].type \in {"SessionStateTransfer", "SendRerelease"}

\* Shared::forwards_to.  The subscriber's channel is found through its
\* registration; without one, or once the old session task has dropped its
\* receiver, the message is reported through the message_dropped hook.
forwards_to(m) ==
  /\ m \notin published
  /\ published' = published \cup {m}
  /\ disturbed' = (disturbed \/ mode = "starting")
  /\ \/ /\ mode \notin {"collected", "gone"}
        /\ rx' = Append(rx, Forward([m |-> m, dup |-> FALSE, id |-> 0]))
        /\ UNCHANGED dropped
     \/ /\ mode \in {"kicked", "collected", "gone"}
        /\ dropped' = dropped \cup {m}
        /\ UNCHANGED rx
  /\ UNCHANGED <<mode, queue, signals, held, inflight, next, info, acked, behind>>
  /\ UNCHANGED <<netVars, clientVars, timeouts, linkDowns, takeovers>>

-----------------------------------------------------------------------------
(* The deliver queue *)

SignalCap == (3 * QueueCap) \div 2

\* Mutant: an eviction signals the receiver again.
Send_extra_signal(q, n, p) ==
  IF Len(q) < QueueCap
  THEN [queue |-> Append(q, p), signals |-> n + 1, drop |-> {}]
  ELSE IF Qos[p.m] = 0 \/ QueueCap = 0
       THEN [queue |-> q, signals |-> n, drop |-> {p.m}]
       ELSE [queue |-> Append(Tail(q), p), signals |-> n + 1, drop |-> {Head(q).m}]

\* Mutant: the evicted message is not returned to the caller.
Send_silent_eviction(q, n, p) ==
  IF Len(q) < QueueCap
  THEN [queue |-> Append(q, p), signals |-> n + 1, drop |-> {}]
  ELSE [queue |-> Append(Tail(q), p), signals |-> n, drop |-> {}]

\* Mutant: no signal follows a push.
Send_no_signal(q, n, p) ==
  IF Len(q) < QueueCap
  THEN [queue |-> Append(q, p), signals |-> n, drop |-> {}]
  ELSE [queue |-> q, signals |-> n, drop |-> {p.m}]

\* Sender::send with the policy of deliver_queue_channel: a full queue refuses
\* a QoS 0 message and evicts its oldest message for any other.  Yields the
\* queue, the signals and the messages given to message_dropped.
Send(q, n, p) ==
  IF Len(q) < QueueCap
  THEN [queue |-> Append(q, p), signals |-> IF n < SignalCap THEN n + 1 ELSE n,
        drop |-> {}]
  ELSE IF Qos[p.m] = 0 \/ QueueCap = 0
       THEN [queue |-> q, signals |-> n, drop |-> {p.m}]
       ELSE [queue |-> Append(Tail(q), p), signals |-> n, drop |-> {Head(q).m}]

\* One poll of the rate-limited receiver: a signal is consumed and the popped
\* message waits in the limiter's buffer.  A signal whose message is gone
\* yields Some(None), which run_loop only logs.
PollDeliverQueue ==
  /\ mode = "online" /\ has_credit
  /\ held = <<>> /\ signals > 0
  /\ signals' = signals - 1
  /\ IF queue = <<>> THEN UNCHANGED <<queue, held>>
     ELSE held' = <<Head(queue)>> /\ queue' = Tail(queue)
  /\ UNCHANGED <<mode, rx, inflight, next, info>>
  /\ UNCHANGED <<netVars, clientVars, historyVars, counters>>

-----------------------------------------------------------------------------
(* The online event loop, SessionState::run_loop *)

\* A publish that has a packet id is on its way back into the window, on the
\* channel, in the deliver queue or in the rate limiter.
Retransmitting ==
  \/ \E i \in DOMAIN rx : rx[i].type \in {"Forward", "SendRerelease"} /\ rx[i].pub.id # 0
  \/ \E i \in DOMAIN queue : queue[i].id # 0
  \/ \E i \in DOMAIN held : held[i].id # 0

\* Every error leaves run_loop for the offline loop; the sink is closed.
LeaveRunLoop ==
  /\ mode' = "offline"
  /\ disturbed' = (disturbed \/ Retransmitting \/ Resuming)
  /\ link' = "down" /\ s2c' = <<>> /\ c2s' = <<>>

\* A packet the sink accepted reaches the peer only while the link is up.
Transmit(pkts) == s2c' = IF link = "up" THEN s2c \o pkts ELSE s2c

\* deliver, up to the point where the sink has taken the packet.
deliver_expired ==
  /\ mode = "online" /\ has_credit /\ held # <<>>
  /\ held[1].m \in Expiring
  /\ held' = <<>>
  /\ dropped' = dropped \cup {held[1].m}
  /\ UNCHANGED <<mode, rx, queue, signals, inflight, next, info, published, acked, behind>>
  /\ UNCHANGED <<netVars, clientVars, counters>>

\* The publish deliver sends: a retransmission keeps its packet id.
NeedsId(p) == Qos[p.m] > 0 /\ (~p.dup \/ p.id = 0)

deliver_sent ==
  /\ mode = "online" /\ has_credit /\ held # <<>>
  /\ NeedsId(held[1]) => Probes # {}
  /\ LET p == IF NeedsId(held[1]) THEN [held[1] EXCEPT !.id = next_id] ELSE held[1]
     IN  /\ next' = IF NeedsId(held[1]) THEN (next_id + 1) % (IdMax + 1) ELSE next
         /\ Transmit(<<[type |-> "PUBLISH", id |-> p.id, m |-> p.m]>>)
         /\ inflight' =
              CASE Qos[p.m] = 1 -> push_back(inflight, [pub |-> p, status |-> "UnAck"])
                [] Qos[p.m] = 2 -> push_back(inflight, [pub |-> p, status |-> "UnReceived"])
                [] OTHER -> inflight
  /\ held' = <<>>
  /\ UNCHANGED <<mode, rx, queue, signals, info, link, c2s>>
  /\ UNCHANGED <<clientVars, historyVars, counters>>

\* deliver fails and the publish is nowhere: it has left the queue and has not
\* entered the window.  next_id has given up after u16::MAX probes, or the sink
\* refuses the packet, on a connection that is gone or on one that is up and is
\* closed for it, which counts as a failure of the connection.
deliver_failed ==
  /\ mode = "online" /\ has_credit /\ held # <<>>
  /\ \/ /\ NeedsId(held[1]) /\ Probes = {}
        /\ next' = (next + IdMax) % (IdMax + 1)
        /\ UNCHANGED linkDowns
     \/ /\ NeedsId(held[1]) => Probes # {}
        /\ next' = IF NeedsId(held[1]) THEN (next_id + 1) % (IdMax + 1) ELSE next
        /\ \/ link = "down" /\ UNCHANGED linkDowns
           \/ link = "up" /\ linkDowns < MaxLinkDowns /\ linkDowns' = linkDowns + 1
  /\ held' = <<>>
  /\ LeaveRunLoop
  /\ UNCHANGED <<rx, queue, signals, inflight, info>>
  /\ UNCHANGED <<clientVars, historyVars, timeouts, takeovers>>

\* Mutant: a retransmission is not marked, so deliver gives it a new packet id.
reforward_not_dup(e) ==
  IF e.status = "UnComplete" THEN SendRerelease(e.pub) ELSE Forward(e.pub)

\* reforward: what is put back on the session's own channel for an entry.
reforward(e) ==
  IF e.status = "UnComplete" THEN SendRerelease(e.pub)
  ELSE Forward([e.pub EXCEPT !.dup = TRUE])

\* The deliver timeout: the oldest entry is popped and reforwarded; one whose
\* release is owed is given up when its message has expired.
deliver_timeout ==
  /\ mode = "online" /\ timeouts < MaxTimeouts
  /\ inflight # <<>>
  /\ inflight' = Tail(inflight)
  /\ \/ rx' = Append(rx, reforward(Head(inflight)))
     \/ /\ Head(inflight).status = "UnComplete"
        /\ Head(inflight).pub.m \in Expiring
        /\ UNCHANGED rx
  /\ timeouts' = timeouts + 1
  /\ UNCHANGED <<mode, queue, signals, held, next, info, linkDowns, takeovers, disturbed>>
  /\ UNCHANGED <<netVars, clientVars, historyVars>>

\* process_message takes the head of rx.
Taken(t) == rx # <<>> /\ Head(rx).type = t

process_forward ==
  /\ mode = "online" /\ Taken("Forward")
  /\ LET r == Send(queue, signals, Head(rx).pub)
     IN  queue' = r.queue /\ signals' = r.signals /\ dropped' = dropped \cup r.drop
  /\ rx' = Tail(rx)
  /\ UNCHANGED <<mode, held, inflight, next, info, published, acked, behind>>
  /\ UNCHANGED <<netVars, clientVars, counters>>

\* send_rerelease registers the entry whatever the credit, then sends PUBREL.
send_rerelease ==
  /\ mode = "online" /\ Taken("SendRerelease")
  /\ rx' = Tail(rx)
  /\ inflight' = push_back(inflight, [pub |-> Head(rx).pub, status |-> "UnComplete"])
  /\ \/ Transmit(<<Ack("PUBREL", Head(rx).pub.id)>>) /\ UNCHANGED <<mode, link, c2s, disturbed>>
     \/ link = "down" /\ LeaveRunLoop
  /\ UNCHANGED <<queue, signals, held, next, info>>
  /\ UNCHANGED <<clientVars, historyVars, timeouts, linkDowns, takeovers>>

\* The online Kick is answered at once; what is behind it in rx is not looked at.
process_kick ==
  /\ mode = "online" /\ Taken("Kick")
  /\ rx' = Tail(rx)
  /\ mode' = "kicked"
  /\ link' = "down" /\ s2c' = <<>> /\ c2s' = <<>>
  /\ disturbed' = (disturbed \/ Retransmitting)
  /\ UNCHANGED <<queue, signals, held, inflight, next, info>>
  /\ UNCHANGED <<clientVars, historyVars, timeouts, linkDowns, takeovers>>

\* transfer_session_state, first part: the allocator moves past the packet ids
\* of the transferred window.
process_transfer ==
  /\ mode = "online" /\ Taken("SessionStateTransfer")
  /\ rx' = Tail(rx)
  /\ LET ids == {info.inflights[i].pub.id : i \in DOMAIN info.inflights}
     IN  /\ next' = IF ids = {} THEN next
                    ELSE advance_next_id(next, CHOOSE i \in ids : \A j \in ids : j <= i)
         /\ disturbed' = (disturbed \/ IdMax \in ids)
  /\ mode' = "transferring"
  /\ UNCHANGED <<queue, signals, held, inflight, info>>
  /\ UNCHANGED <<netVars, clientVars, historyVars, timeouts, linkDowns, takeovers>>

\* The window is popped from its back and reforwarded, then the offline
\* messages are forwarded; publishers may send in between.
transfer_session_state ==
  /\ mode = "transferring"
  /\ \/ /\ info.inflights # <<>>
        /\ LET e == info.inflights[Len(info.inflights)]
           IN  \/ rx' = Append(rx, reforward(e))
               \/ e.status = "UnComplete" /\ e.pub.m \in Expiring /\ UNCHANGED rx
        /\ info' = [info EXCEPT !.inflights = SubSeq(@, 1, Len(@) - 1)]
        /\ UNCHANGED mode
     \/ /\ info.inflights = <<>> /\ info.offline # <<>>
        /\ rx' = Append(rx, Forward(Head(info.offline)))
        /\ info' = [info EXCEPT !.offline = Tail(@)]
        /\ UNCHANGED mode
     \/ /\ info = NoInfo
        /\ mode' = "online"
        /\ UNCHANGED <<rx, info>>
  /\ UNCHANGED <<queue, signals, held, inflight, next>>
  /\ UNCHANGED <<netVars, clientVars, historyVars, counters>>

\* process_mqtt_message takes a packet from the connection.
Incoming(t) == mode = "online" /\ c2s # <<>> /\ Head(c2s).type = t

\* PublishAck and PublishComplete remove the entry and report it acknowledged.
process_ack ==
  /\ Incoming("PUBACK") \/ Incoming("PUBCOMP")
  /\ acked' = acked \cup {e.pub.m : e \in {inflight[i] : i \in
                {i \in DOMAIN inflight : inflight[i].pub.id = Head(c2s).id}}}
  /\ inflight' = Without(inflight, Head(c2s).id)
  /\ c2s' = Tail(c2s)
  /\ UNCHANGED <<mode, rx, queue, signals, held, next, info, link, s2c, published, dropped,
                 behind>>
  /\ UNCHANGED <<clientVars, counters>>

\* PublishReceived is always answered with PUBREL.
process_pubrec ==
  /\ Incoming("PUBREC")
  /\ inflight' = update_status(inflight, Head(c2s).id, "UnComplete")
  /\ s2c' = Append(s2c, Ack("PUBREL", Head(c2s).id))
  /\ c2s' = Tail(c2s)
  /\ UNCHANGED <<mode, rx, queue, signals, held, next, info, link>>
  /\ UNCHANGED <<clientVars, historyVars, counters>>

\* The loop notices the lost connection, through recv or the keep-alive timer.
connection_lost ==
  /\ mode = "online" /\ link = "down"
  /\ LeaveRunLoop
  /\ UNCHANGED <<rx, queue, signals, held, inflight, next, info>>
  /\ UNCHANGED <<clientVars, historyVars, timeouts, linkDowns, takeovers>>
-----------------------------------------------------------------------------
(* The offline event loop, SessionState::offline_run_loop *)

offline_forward ==
  /\ mode \in {"offline", "draining"} /\ Taken("Forward")
  /\ LET r == Send(queue, signals, Head(rx).pub)
     IN  queue' = r.queue /\ signals' = r.signals /\ dropped' = dropped \cup r.drop
  /\ rx' = Tail(rx)
  /\ UNCHANGED <<mode, held, inflight, next, info, published, acked, behind>>
  /\ UNCHANGED <<netVars, clientVars, counters>>

\* The messages of the Forwards that follow the head of the channel without
\* a message of another kind in between.
ForwardsBehind ==
  {rx[i].pub.m : i \in {i \in 2..Len(rx) : \A j \in 2..i : rx[j].type = "Forward"}}

\* Mutant: the Kick is answered before the channel is drained.
offline_kick_undrained ==
  /\ mode = "offline" /\ Taken("Kick")
  /\ rx' = Tail(rx)
  /\ mode' = "answering"
  /\ behind' = ForwardsBehind
  /\ UNCHANGED <<queue, signals, held, inflight, next, info, published, acked, dropped>>
  /\ UNCHANGED <<netVars, clientVars, counters>>

\* The Forwards queued behind a Kick are moved to the deliver queue first.
offline_kick ==
  /\ mode = "offline" /\ Taken("Kick")
  /\ rx' = Tail(rx)
  /\ mode' = "draining"
  /\ behind' = ForwardsBehind
  /\ UNCHANGED <<queue, signals, held, inflight, next, info, published, acked, dropped>>
  /\ UNCHANGED <<netVars, clientVars, counters>>

\* try_recv finds nothing, or takes a message that is no Forward and discards it.
offline_drained ==
  /\ mode = "draining" /\ ~Taken("Forward")
  /\ rx' = IF rx = <<>> THEN rx ELSE Tail(rx)
  /\ mode' = "answering"
  /\ UNCHANGED <<queue, signals, held, inflight, next, info>>
  /\ UNCHANGED <<netVars, clientVars, historyVars, counters>>

\* Then the Kick is answered; what was sent since the last try_recv stays in the
\* channel.
offline_answer ==
  /\ mode = "answering"
  /\ mode' = "kicked"
  /\ UNCHANGED <<rx, queue, signals, held, inflight, next, info>>
  /\ UNCHANGED <<netVars, clientVars, historyVars, counters>>

\* Any other message is logged and forgotten.
offline_ignored ==
  /\ mode = "offline" /\ (Taken("SendRerelease") \/ Taken("SessionStateTransfer"))
  /\ info' = IF Taken("SessionStateTransfer") THEN NoInfo ELSE info
  /\ rx' = Tail(rx)
  /\ UNCHANGED <<mode, queue, signals, held, inflight, next>>
  /\ UNCHANGED <<netVars, clientVars, historyVars, counters>>

PubsOf(q) == {q[i].m : i \in DOMAIN q}
MsgsIn(q) == {q[i].pub.m : i \in DOMAIN q}

\* The session expires (at once for a clean session) and clean() reports what
\* is in the queue and in the window; the channel is dropped with the task.
session_expired ==
  /\ mode = "offline"
  /\ mode' = "gone"
  /\ dropped' = dropped \cup PubsOf(queue) \cup MsgsIn(inflight)
  /\ queue' = <<>> /\ inflight' = <<>>
  /\ rx' = <<>> /\ held' = <<>> /\ signals' = 0 /\ info' = NoInfo
  /\ UNCHANGED <<next, published, acked, behind>>
  /\ UNCHANGED <<netVars, clientVars, counters>>

-----------------------------------------------------------------------------
(* The handshake of a reconnecting client, as far as it moves messages *)

\* LockEntry::kick sends the Kick, or finds no session.  One handshake per
\* client id is in progress at a time.
handshake ==
  /\ takeovers < MaxTakeovers
  /\ \/ /\ mode \in {"online", "transferring", "offline"}
        /\ \A i \in DOMAIN rx : rx[i] # Kick
        /\ rx' = Append(rx, Kick)
        /\ UNCHANGED <<mode, received>>
     \/ /\ mode = "gone"
        /\ mode' = "collected"
        /\ received' = {}
        /\ UNCHANGED rx
  /\ takeovers' = takeovers + 1
  /\ disturbed' = (disturbed \/ Resuming)
  /\ behind' = {}
  /\ UNCHANGED <<queue, signals, held, inflight, next, info, got, timeouts, linkDowns>>
  /\ UNCHANGED <<netVars, published, acked, dropped>>

\* _remove and to_offline_info; the old session task ends and its channel,
\* wake-up channel and rate limiter are dropped with what they hold.
to_offline_info ==
  /\ mode = "kicked"
  /\ mode' = "collected"
  /\ info' = [offline |-> queue, inflights |-> inflight]
  /\ queue' = <<>> /\ inflight' = <<>>
  /\ rx' = <<>> /\ held' = <<>> /\ signals' = 0
  /\ UNCHANGED next
  /\ UNCHANGED <<netVars, clientVars, historyVars, counters>>

\* Session::new and entry.set.
session_set ==
  /\ mode = "collected"
  /\ mode' = "starting"
  /\ next' = 1
  /\ UNCHANGED <<rx, queue, signals, held, inflight, info>>
  /\ UNCHANGED <<netVars, clientVars, historyVars, counters>>

\* The SessionStateTransfer message is queued (an empty one has no effect on
\* this path) and run() starts on a new connection.
session_run ==
  /\ mode = "starting"
  /\ mode' = "online"
  /\ rx' = IF info = NoInfo THEN rx ELSE Append(rx, SessionStateTransfer)
  /\ link' = "up"
  /\ UNCHANGED <<queue, signals, held, inflight, next, info, s2c, c2s>>
  /\ UNCHANGED <<clientVars, historyVars, counters>>

-----------------------------------------------------------------------------
(* The subscriber and the network *)

\* A subscriber that follows the protocol: a QoS 2 publish is handed to the
\* application unless its packet id is one it has not seen released.
client_recv ==
  /\ s2c # <<>>
  /\ s2c' = Tail(s2c)
  /\ LET p == Head(s2c) IN
     \/ /\ p.type = "PUBLISH" /\ Qos[p.m] = 0
        /\ got' = [got EXCEPT ![p.m] = @ + 1]
        /\ UNCHANGED <<received, c2s>>
     \/ /\ p.type = "PUBLISH" /\ Qos[p.m] = 1
        /\ got' = [got EXCEPT ![p.m] = @ + 1]
        /\ c2s' = Append(c2s, Ack("PUBACK", p.id))
        /\ UNCHANGED received
     \/ /\ p.type = "PUBLISH" /\ Qos[p.m] = 2
        /\ got' = IF p.id \in received THEN got ELSE [got EXCEPT ![p.m] = @ + 1]
        /\ received' = received \cup {p.id}
        /\ c2s' = Append(c2s, Ack("PUBREC", p.id))
     \/ /\ p.type = "PUBREL"
        /\ received' = received \ {p.id}
        /\ c2s' = Append(c2s, Ack("PUBCOMP", p.id))
        /\ UNCHANGED got
  /\ UNCHANGED <<sessionVars, link, historyVars, counters>>

link_down ==
  /\ link = "up" /\ linkDowns < MaxLinkDowns
  /\ link' = "down" /\ s2c' = <<>> /\ c2s' = <<>>
  /\ linkDowns' = linkDowns + 1
  /\ disturbed' = (disturbed \/ Resuming)
  /\ UNCHANGED <<sessionVars, clientVars, historyVars, timeouts, takeovers>>
-----------------------------------------------------------------------------
(* The specification *)

\* A connected client to which nothing is under way: it has just connected, or
\* all that was delivered before is settled.
Init ==
  /\ mode = "online"
  /\ rx = <<>> /\ queue = <<>> /\ signals = 0 /\ held = <<>>
  /\ inflight = <<>> /\ next \in FirstIds /\ info = NoInfo
  /\ link = "up" /\ s2c = <<>> /\ c2s = <<>>
  /\ received = {} /\ got = [m \in Msgs |-> 0]
  /\ published = {} /\ acked = {} /\ dropped = {} /\ behind = {}
  /\ timeouts = 0 /\ linkDowns = 0 /\ takeovers = 0 /\ disturbed = FALSE

\* The arms of the two select! loops.
RunLoop ==
  \/ PollDeliverQueue \/ deliver_expired \/ deliver_sent \/ deliver_failed
  \/ process_forward \/ send_rerelease \/ process_kick \/ process_transfer
  \/ transfer_session_state \/ process_ack \/ process_pubrec \/ connection_lost

OfflineRunLoop ==
  offline_forward \/ offline_kick \/ offline_drained \/ offline_answer \/ offline_ignored

Handshake == to_offline_info \/ session_set \/ session_run

Next ==
  \/ \E m \in Msgs : forwards_to(m)
  \/ RunLoop \/ deliver_timeout
  \/ OfflineRunLoop \/ session_expired
  \/ handshake \/ Handshake
  \/ client_recv \/ link_down

Spec == Init /\ [][Next]_vars

\* select! polls its arms in random order, so an arm that stays ready is
\* eventually taken; a reconnecting client is served; the subscriber reads its
\* connection.  Nothing obliges the retransmission timer, the expiry timer, the
\* publishers or the client to act.
Fairness ==
  /\ WF_vars(PollDeliverQueue) /\ WF_vars(deliver_sent \/ deliver_expired \/ deliver_failed)
  /\ WF_vars(process_forward \/ send_rerelease \/ process_kick \/ process_transfer)
  /\ WF_vars(transfer_session_state)
  /\ WF_vars(process_ack \/ process_pubrec) /\ WF_vars(connection_lost)
  /\ WF_vars(OfflineRunLoop) /\ WF_vars(Handshake) /\ WF_vars(client_recv)

FairSpec == Spec /\ Fairness

-----------------------------------------------------------------------------
(* Properties *)

\* Every variable keeps its type: in particular packet ids stay in u16, and a
\* window entry always has a packet id the allocator or the old session gave it.
TypeOK ==
  /\ mode \in Modes
  /\ rx \in Seq(Message)
  /\ queue \in Seq(Publish)
  /\ signals \in Nat
  /\ held \in Seq(Publish) /\ Len(held) <= 1
  /\ inflight \in Seq(OutInflightMessage)
  /\ next \in Ids
  /\ info \in OfflineInfo
  /\ link \in {"up", "down"}
  /\ s2c \in Seq(Packet) /\ c2s \in Seq(Packet)
  /\ received \subseteq Ids
  /\ got \in [Msgs -> Nat]
  /\ published \subseteq Msgs /\ acked \subseteq Msgs /\ dropped \subseteq Msgs
  /\ behind \subseteq Msgs
  /\ timeouts \in Nat /\ linkDowns \in Nat /\ takeovers \in Nat /\ disturbed \in BOOLEAN

\* While a session task owns the deliver queue, the wake-up channel holds
\* exactly one signal per queued message: no queued message waits without a
\* signal (Sender::send sends none when it evicts) and no signal is spurious.
SignalsMatchQueue ==
  /\ signals = Len(queue)
  /\ Len(queue) <= QueueCap

\* The publishes the broker holds for the client, wherever they are.
RxPubs == {rx[i].pub : i \in {i \in DOMAIN rx : rx[i].type \in {"Forward", "SendRerelease"}}}
WindowPubs == {inflight[i].pub : i \in DOMAIN inflight}
InfoPubs == Range(info.offline) \cup {info.inflights[i].pub : i \in DOMAIN info.inflights}
Owned == RxPubs \cup Range(queue) \cup Range(held) \cup WindowPubs \cup InfoPubs

\* No two messages the broker holds for one client have the same packet id, in
\* the window or on the way back into it, across the wrap of the counter, the
\* retransmissions and the transfer of a window: push_back never replaces the
\* entry of another message.  Not so when something met a session that was being
\* resumed, when a retransmission was outside the window as a connection ended,
\* or when a transferred window held the largest id, where advance_next_id
\* saturates.  IdMax exceeds the ids given out while a retransmission waits.
PacketIdUnique ==
  ~disturbed => \A p, q \in Owned : p.id # 0 /\ p.id = q.id => p.m = q.m

\* A QoS 2 message reaches the subscriber's application at most once, whenever the
\* connection fails and the session is taken over, unless its retransmission timer
\* ran out or something met the session while it was being resumed.
ExactlyOnce ==
  timeouts = 0 /\ ~disturbed => \A m \in Msgs : Qos[m] = 2 => got[m] <= 1

\* A QoS 1 or 2 message handed to the session is in the broker's hands, or
\* acknowledged, or reported dropped; one that expired after the subscriber had
\* it is only logged.
Accounted(m) ==
  \/ m \in acked \cup dropped
  \/ \E p \in Owned : p.m = m
  \/ m \in Expiring /\ got[m] > 0

\* The hooks tell the truth about a message and tell one story: while the connection
\* lasts none is lost in silence; one reported as acknowledged has reached the
\* subscriber's application, unless something met a session that was being resumed or a
\* retransmission was outside the window when the connection ended, or the client
\* came back after a timeout with a packet id it had not seen released; and none is reported both acknowledged and dropped.
NoSilentLoss ==
  /\ linkDowns = 0 /\ takeovers = 0 => \A m \in published : Qos[m] > 0 => Accounted(m)
  /\ ~disturbed /\ (timeouts = 0 \/ takeovers = 0) => \A m \in acked : got[m] > 0
  /\ acked \cap dropped = {}

\* What a session state collected by a takeover holds is never given up without
\* notice: each step keeps it in the broker's hands or reports it dropped.
OfflineInfoKept ==
  [][\A p \in InfoPubs : \/ \E q \in Owned' : q.m = p.m
                         \/ p.m \in acked' \cup dropped'
                         \/ p.m \in Expiring /\ got[p.m] > 0]_vars

\* What stood behind the Kick in the channel of an offline session, up to the
\* first message of another kind, is in the state the kicker collects or was
\* reported dropped, whatever is sent while the session drains its channel,
\* answers and is taken out of the registry.
OfflineKickDrains ==
  mode \in {"collected", "starting"} => behind \subseteq PubsOf(info.offline) \cup dropped

\* Every QoS 1 or 2 message is eventually acknowledged or reported dropped; one
\* that expires when the subscriber has it and owes only the PUBCOMP is given up
\* with a line in the log.
EventuallySettled ==
  \A m \in Msgs : (m \in published /\ Qos[m] > 0)
                  ~> (m \in acked \cup dropped \/ (m \in Expiring /\ Qos[m] = 2 /\ got[m] > 0))
=============================================================================
