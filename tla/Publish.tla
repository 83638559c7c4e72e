------------------------------- MODULE Publish ------------------------------
(***************************************************************************)
(* A publish from the session that receives it to its subscribers:         *)
(* SessionState::forwards with the queue of delayed publishes,             *)
(* inner_forwards with the retainer and the message manager, forwards of   *)
(* DefaultShared, and what a subscriber is sent when it subscribes.        *)
(*                                                                         *)
(* inner_forwards runs in the session of the publisher and in the task of  *)
(* the delayed sender.  Each subscription starts a task that sends the     *)
(* retained and then the stored messages.  All of them interleave with the *)
(* workers and clean-ups of the retainer and the message manager.          *)
(***************************************************************************)
EXTENDS Inbound, Retainer

CONSTANTS
    Clients,      \* subscribers
    DelayedMax,   \* mqtt_delayed_publish_max
    Immediate,    \* mqtt_delayed_publish_immediate
    QueueMax      \* posts a worker's channel holds

ASSUME PublishAssumption ==
    /\ RetainLife \in Nat
    /\ \A f \in Foci : \A m \in DOMAIN f.pubs : f.pubs[m].delay \in Nat \cup {None}

VARIABLES
    heap,         \* msgs of the delayed sender: publishes and when they are due
    pushed,       \* pushes so far
    popping,      \* the delayed sender saw that the first is due
    early,        \* a delayed publish was sent before it was due
    task,         \* the session and the delayed sender in inner_forwards
    sub,          \* client -> how it is subscribed
    online,       \* clients with a session
    loads,        \* the tasks of subscriptions
    got,          \* client -> what it was sent, and how
    unmarked,     \* publishes for which posting a command timed out
    restarts

delayedVars == <<heap, pushed, popping, early>>
subVars == <<sub, online, loads, got>>
pubvars == <<inboundVars, storeVars, retainVars, delayedVars, subVars, focus, now, task, unmarked, restarts>>
NoTask == [pc |-> "idle"]
Tasks == {"session", "delayed"}

Init ==
    /\ focus \in Foci
    /\ now = 0
    /\ backend = focus.backend
    /\ retainer = focus.retainer
    /\ InboundInit
    /\ StoreInit
    /\ RetainInit
    /\ heap = {}
    /\ pushed = 0
    /\ popping = FALSE
    /\ early = FALSE
    /\ task = [t \in Tasks |-> NoTask]
    /\ sub = [c \in Clients |-> IF c \in focus.subscribed THEN focus.how ELSE None]
    /\ online = Clients
    /\ loads = <<>>
    /\ got = [c \in Clients |-> {}]
    /\ unmarked = {}
    /\ restarts = 0

-----------------------------------------------------------------------------
(* forwards: a delayed publish waits, unless the queue is full.            *)

Due(m) == now + Attr(m).delay

\* delay_publish, and what forwards does with a publish it gives back
Delay(t, m) ==
    \/ /\ Cardinality(heap) < DelayedMax
       /\ heap' = heap \cup {[due |-> Due(m), m |-> m, n |-> pushed]}
       /\ pushed' = pushed + 1
       /\ task' = [task EXCEPT ![t] = [pc |-> "end"]]
       /\ UNCHANGED <<popping, early>>
    \/ /\ Cardinality(heap) >= DelayedMax
       /\ task' = [task EXCEPT ![t] = IF Immediate THEN [pc |-> "begin", m |-> m] ELSE [pc |-> "end"]]
       /\ UNCHANGED delayedVars

SessionPublish ==
    /\ Accepted("allow")
    /\ LET m == Head(toBroker).m
       IN  IF Attr(m).delay # None
           THEN Delay("session", m)
           ELSE /\ task' = [task EXCEPT !["session"] = [pc |-> "begin", m |-> m]]
                /\ UNCHANGED delayedVars
    /\ UNCHANGED <<focus, now, storeVars, retainVars, subVars, unmarked, restarts>>

SessionDenied ==
    /\ Accepted("deny")
    /\ task' = [task EXCEPT !["session"] = [pc |-> "end"]]
    /\ UNCHANGED <<focus, now, storeVars, retainVars, delayedVars, subVars, unmarked, restarts>>

SessionReply ==
    /\ task["session"].pc = "end"
    /\ Reply
    /\ task' = [task EXCEPT !["session"] = NoTask]
    /\ UNCHANGED <<focus, now, storeVars, retainVars, delayedVars, subVars, unmarked, restarts>>

SessionOther ==
    /\ InboundStep
    /\ UNCHANGED <<focus, now, storeVars, retainVars, delayedVars, subVars, task, unmarked, restarts>>

-----------------------------------------------------------------------------
(* The task of the delayed sender.                                         *)

IsExpired_soon(d) == now + 1 > d.due
IsExpired(d) == now > d.due

First == {d \in heap : \A e \in heap : d.due <= e.due}

DelayedPeek_last ==
    /\ ~popping
    /\ task["delayed"] = NoTask
    /\ heap # {}
    /\ \A d \in heap : IsExpired(d)
    /\ popping' = TRUE
    /\ UNCHANGED <<heap, pushed, early, task>>

\* under the read lock
DelayedPeek ==
    /\ ~popping
    /\ task["delayed"] = NoTask
    /\ \E d \in First : IsExpired(d)
    /\ popping' = TRUE
    /\ UNCHANGED <<heap, pushed, early, task>>

\* under the write lock, whatever is first by then
DelayedPop ==
    /\ popping
    /\ popping' = FALSE
    /\ \E d \in First :
          /\ heap' = heap \ {d}
          /\ early' = (early \/ now <= d.due)
          /\ task' = [task EXCEPT !["delayed"] = [pc |-> "begin", m |-> d.m]]
    /\ UNCHANGED pushed

DelayedStep ==
    /\ DelayedPeek \/ DelayedPop
    /\ UNCHANGED <<focus, now, inboundVars, storeVars, retainVars, subVars, unmarked, restarts>>

-----------------------------------------------------------------------------
(* inner_forwards.                                                         *)

On(t, pc) == task[t].pc = pc
TaskTo(t, r) == task' = [task EXCEPT ![t] = r]

AfterId(m) == IF retainer # "none" /\ Attr(m).retain THEN "retain" ELSE IF Enabled THEN "store" ELSE "match"
AfterRetain == IF Enabled THEN "store" ELSE "match"

\* The end of inner_forwards: the session answers, the sender goes on.
Ended(t) == IF t = "session" THEN [pc |-> "end"] ELSE NoTask

NextMsgId(t) ==
    /\ On(t, "begin")
    /\ TaskTo(t, [pc |-> AfterId(task[t].m), m |-> task[t].m, id |-> IF Enabled THEN idGen ELSE None])
    /\ idGen' = IF Enabled THEN idGen + 1 ELSE idGen
    /\ UNCHANGED <<backend, savedId, queue, worker, messages, topicTree, expiries, forwardeds, sweep, failed,
                   retainVars, delayedVars, subVars, unmarked>>

PostOf(t) == Post(Attr(task[t].m).topic, task[t].m, task[t].id, Attr(task[t].m).clear)

\* The retainer in memory looks at its limit first and says nothing of it.
RetainRam(t) ==
    /\ retainer = "ram"
    /\ \/ /\ On(t, "retain")
          /\ TaskTo(t, [task[t] EXCEPT !.pc = IF RamRoom THEN "retainSet" ELSE AfterRetain])
          /\ UNCHANGED retainVars
       \/ /\ On(t, "retainSet")
          /\ RamSet(PostOf(t))
          /\ TaskTo(t, [task[t] EXCEPT !.pc = AfterRetain])
    /\ UNCHANGED <<storeVars, delayedVars, subVars, unmarked>>

RetainDb(t) ==
    /\ retainer = "db"
    /\ On(t, "retain")
    /\ DbSet(PostOf(t))
    /\ TaskTo(t, [task[t] EXCEPT !.pc = AfterRetain])
    /\ UNCHANGED <<storeVars, delayedVars, subVars, unmarked>>

\* A command is posted, or the channel is full and posting it times out.
PostCmd(cmd, m) ==
    LET x == IF backend = "ram" THEN 0 ELSE WorkerOf(cmd)
    IN  /\ \/ /\ Len(queue[x]) < QueueMax
              /\ queue' = Posted(cmd)
              /\ UNCHANGED unmarked
           \/ /\ Len(queue[x]) >= QueueMax
              /\ unmarked' = unmarked \cup {m}
              /\ UNCHANGED queue
        /\ UNCHANGED <<backend, idGen, savedId, worker, messages, topicTree, expiries, forwardeds, sweep, failed>>

Store(t) ==
    /\ On(t, "store")
    /\ PostCmd(StoreCmd(task[t].id, task[t].m), task[t].m)
    /\ TaskTo(t, [task[t] EXCEPT !.pc = "match"])
    /\ UNCHANGED <<retainVars, delayedVars, subVars>>

\* Whom the router names: all subscribers, and one member of a shared group.
Members == {c \in Clients : sub[c] = "shared"}
Relations(m) ==
    IF Attr(m).target # None
    THEN {{[c |-> Attr(m).target, group |-> {}]}}
    ELSE LET plain == {[c |-> c, group |-> {}] : c \in {d \in Clients : sub[d] = "plain"}}
         IN  IF Members = {} THEN {plain} ELSE {plain \cup {[c |-> c, group |-> Members]} : c \in Members}

Match(t) ==
    /\ On(t, "match")
    /\ \E rels \in Relations(task[t].m) :
          TaskTo(t, [pc |-> "send", m |-> task[t].m, id |-> task[t].id, rels |-> rels])
    /\ UNCHANGED <<storeVars, retainVars, delayedVars, subVars, unmarked>>

\* The clients a delivery is recorded for: the whole group has it.
RecipientsOf(r) ==
    IF r.group = {} THEN {<<r.c, None>>}
    ELSE {<<c, IF c = r.c THEN "g" ELSE None>> : c \in r.group}

\* forwards_to: a client whose session is gone is an error for that one only.
Send(t) ==
    /\ On(t, "send")
    /\ LET ok == {r \in task[t].rels : r.c \in online}
           to == UNION {RecipientsOf(r) : r \in ok}
       IN  /\ got' = [c \in Clients |->
                        IF \E r \in ok : r.c = c THEN got[c] \cup {<<task[t].m, "live">>} ELSE got[c]]
           /\ TaskTo(t, IF Enabled /\ to # {}
                        THEN [pc |-> "mark", m |-> task[t].m, id |-> task[t].id, to |-> to]
                        ELSE Ended(t))
    /\ UNCHANGED <<storeVars, retainVars, delayedVars, sub, online, loads, unmarked>>

Mark(t) ==
    /\ On(t, "mark")
    /\ PostCmd(MarkCmd(task[t].id, task[t].to), task[t].m)
    /\ TaskTo(t, Ended(t))
    /\ UNCHANGED <<retainVars, delayedVars, subVars>>

ForwardStep ==
    /\ \E t \in Tasks :
          NextMsgId(t) \/ RetainRam(t) \/ RetainDb(t) \/ Store(t) \/ Match(t) \/ Send(t) \/ Mark(t)
    /\ UNCHANGED <<focus, now, inboundVars, restarts>>

-----------------------------------------------------------------------------
(* Subscribers.                                                            *)

\* Retain handling: the retained messages are sent always, for a new
\* subscription only, or never.
SendsRetained(when, c) ==
    CASE when = "atSubscribe" -> TRUE [] when = "new" -> sub[c] = None [] when = "never" -> FALSE

Subscribe(c, how, retain) ==
    /\ c \in online
    /\ Len(loads) < focus.subscribes
    /\ sub' = [sub EXCEPT ![c] = how]
    /\ loads' = Append(loads, [pc |-> IF retainer # "none" /\ SendsRetained(retain, c) THEN "retains" ELSE "tree",
                               c |-> c, group |-> IF how = "shared" THEN "g" ELSE None, excl |-> {}])
    /\ UNCHANGED <<online, got>>

\* The session ends: it is taken from the registry, then from the router.
Leave(c) ==
    /\ focus.leave
    /\ c \in online
    /\ online' = online \ {c}
    /\ UNCHANGED <<sub, loads, got>>

Unsubscribe(c) ==
    /\ sub[c] # None
    /\ c \notin online
    /\ sub' = [sub EXCEPT ![c] = None]
    /\ UNCHANGED <<online, loads, got>>

LoadTo(k, r) == loads' = [loads EXCEPT ![k] = r]

\* retain_load_with: what is retained now is what will be sent, and stored
\* messages with those ids are not sent again.
LoadRetains(k) ==
    /\ loads[k].pc = "retains"
    /\ LET ts == RetGet(focus.wild, IF focus.wild THEN Topics ELSE {CHOOSE t \in Topics : TRUE})
       IN  LoadTo(k, [pc |-> "sendRetains", c |-> loads[k].c, group |-> loads[k].group,
                      excl |-> {retained[t].id : t \in ts} \ {None},
                      ms |-> {retained[t].m : t \in ts}])
    /\ UNCHANGED <<sub, online, got>>

LoadSendRetains(k) ==
    /\ loads[k].pc = "sendRetains"
    /\ got' = [got EXCEPT ![loads[k].c] =
                  IF loads[k].c \in online THEN @ \cup {<<m, "retained">> : m \in loads[k].ms} ELSE @]
    /\ LoadTo(k, [pc |-> "tree", c |-> loads[k].c, group |-> loads[k].group, excl |-> loads[k].excl])
    /\ UNCHANGED <<sub, online>>

Over == [pc |-> "over"]

LoadTree(k) ==
    /\ loads[k].pc = "tree"
    /\ LoadTo(k, IF Enabled /\ topicTree # {}
                 THEN [pc |-> "check", c |-> loads[k].c, group |-> loads[k].group, excl |-> loads[k].excl,
                       ids |-> topicTree, found |-> {}]
                 ELSE Over)
    /\ UNCHANGED <<sub, online, got>>

\* get asks for one message after the other.
LoadCheck(k) ==
    /\ loads[k].pc = "check"
    /\ \E id \in loads[k].ids :
          /\ ~Held(id)
          /\ LET ld == loads[k]
                 ok == Kept(id) /\ Offered(id, ld.c, ld.group, Attr(messages[id].m).target)
                 found == IF ok THEN ld.found \cup {<<id, messages[id].m>>} ELSE ld.found
             IN  LoadTo(k, IF ld.ids # {id}
                           THEN [ld EXCEPT !.ids = @ \ {id}, !.found = found]
                           ELSE IF found = {} THEN Over
                           ELSE [pc |-> "send", c |-> ld.c, group |-> ld.group, excl |-> ld.excl, found |-> found])
    /\ UNCHANGED <<sub, online, got>>

LoadNext(k, f) == IF loads[k].found = {f} THEN Over ELSE [loads[k] EXCEPT !.found = @ \ {f}]

\* _send_storaged_messages: one is skipped that was sent as retained, or that
\* the session can no longer take; the others are marked.
LoadSkip(k) ==
    /\ loads[k].pc = "send"
    /\ \E f \in loads[k].found :
          /\ f[1] \in loads[k].excl \/ loads[k].c \notin online
          /\ LoadTo(k, LoadNext(k, f))
    /\ UNCHANGED <<sub, online, got>>

LoadSend(k) ==
    /\ loads[k].pc = "send"
    /\ loads[k].c \in online
    /\ \E f \in loads[k].found :
          /\ f[1] \notin loads[k].excl
          /\ got' = [got EXCEPT ![loads[k].c] = @ \cup {<<f[2], "stored">>}]
          /\ PostCmd(MarkCmd(f[1], {<<loads[k].c, loads[k].group>>}), f[2])
          /\ LoadTo(k, LoadNext(k, f))
    /\ UNCHANGED <<sub, online>>

SubscriberStep ==
    /\ \/ /\ \/ \E c \in Clients :
                   \/ \E retain \in focus.retains : Subscribe(c, focus.how, retain)
                   \/ Leave(c) \/ Unsubscribe(c)
             \/ \E k \in DOMAIN loads :
                   LoadRetains(k) \/ LoadSendRetains(k) \/ LoadTree(k) \/ LoadCheck(k) \/ LoadSkip(k)
          /\ UNCHANGED <<storeVars, unmarked>>
       \/ \E k \in DOMAIN loads : LoadSend(k)
    /\ UNCHANGED <<focus, now, inboundVars, retainVars, delayedVars, task, restarts>>

-----------------------------------------------------------------------------

Background ==
    /\ \/ (WorkerStep \/ SweepStep) /\ UNCHANGED retainVars
       \/ RetainStep /\ UNCHANGED <<storeVars, now>>
       \/ focus.fails /\ (\E x \in DOMAIN worker : DbFails(x)) /\ UNCHANGED retainVars
       \/ focus.fails /\ RetFails /\ UNCHANGED <<storeVars, now>>
    /\ UNCHANGED <<focus, inboundVars, delayedVars, subVars, task, unmarked, restarts>>

Tick ==
    /\ now < focus.ticks
    /\ now' = now + 1
    /\ UNCHANGED <<focus, inboundVars, storeVars, retainVars, delayedVars, subVars, task, unmarked, restarts>>

\* The node crashes and starts again with what its databases hold.
Restart ==
    /\ restarts < focus.restarts
    /\ restarts' = restarts + 1
    /\ StoreRestart \/ RamRestart \/ (~Enabled /\ UNCHANGED storeVars)
    /\ RetRestart \/ RamRetRestart \/ (retainer = "none" /\ UNCHANGED retainVars)
    /\ Disconnect
    /\ task' = [t \in Tasks |-> NoTask]
    /\ heap' = {}
    /\ popping' = FALSE
    /\ sub' = [c \in Clients |-> None]
    /\ online' = Clients
    /\ loads' = [k \in DOMAIN loads |-> Over]
    /\ got' = [c \in Clients |-> {}]
    /\ UNCHANGED <<focus, now, conns, sent, retries, exchange, taken, refused, pushed, early, unmarked>>

Next ==
    \/ SessionPublish \/ SessionDenied \/ SessionReply \/ SessionOther
    \/ DelayedStep \/ ForwardStep \/ SubscriberStep \/ Background \/ Tick \/ Restart

\* The tasks of the runtime go on.
Fairness == WF_pubvars(DelayedStep) /\ WF_pubvars(ForwardStep)

Spec == Init /\ [][Next]_pubvars /\ Fairness

-----------------------------------------------------------------------------
(* Properties.                                                             *)

\* A connection has a QoS 2 publish forwarded at most once, however often the
\* client sends it, and a client that keeps to its window is never refused:
\* the packet id is in in_inflight from the forward to the PUBREL, and is
\* taken out by every path that ends the exchange.
QoS2Once ==
    /\ \A m \in DOMAIN taken : Attr(m).qos = 2 => taken[m] <= 1
    /\ focus.window <= MaxInflight => ~refused

\* No delayed publish is sent before its time: between the look at the heap
\* and the pop another publish may have become the first.
DelayedOnTime == ~early

\* A delayed publish that is due is sent, whatever is queued behind it.
DelayedIsSent == (\E d \in heap : now > d.due) ~> (\A d \in heap : now <= d.due)

RetainIdle == retQueue = <<>> /\ retBatch = NoBatch /\ \A t \in Tasks : task[t].pc \notin {"retain", "retainSet"}

\* Once the posts are worked off, a topic has the message that was last set
\* for it and not refused, until that expires: batches, the limit and restarts
\* included.
SetIsKept ==
    RetainIdle => \A t \in Topics :
        lastSet[t].exp > now => t \in DOMAIN retained /\ retained[t].m = lastSet[t].m

StoreIdle == \A x \in DOMAIN worker : worker[x] = Idle /\ queue[x] = <<>>
Sent(c) == {g[1] : g \in {h \in got[c] : h[2] \in {"live", "stored"}}}

\* Once the commands are worked off, a message that is kept is in the topic
\* tree and in the list that the clean-up reads, nothing else is, and the
\* clients that were sent a message are recorded with it, so that it is not
\* offered to them again.
StoreAgrees ==
    Enabled /\ StoreIdle /\ sweep = Asleep =>
        /\ topicTree = {e[2] : e \in expiries}
        /\ {id \in DOMAIN messages : Kept(id) /\ messages[id].exp > now} \ failed \subseteq topicTree
        /\ backend = "ram" => DOMAIN messages = topicTree
        /\ (\A t \in Tasks : task[t].pc # "mark") =>
              \A id \in DOMAIN messages \ failed, c \in Clients :
                  Kept(id) /\ messages[id].m \in Sent(c) \ unmarked => \E r \in Recipients(id) : r[1] = c

\* What the broker keeps for later, retained and stored, is what was last set and
\* what was sent, once the queues are empty.
KeptAgrees == SetIsKept /\ StoreAgrees
=============================================================================
