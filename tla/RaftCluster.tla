---------------------------- MODULE RaftCluster ----------------------------
(***************************************************************************)
(* A cluster of FerroMQ raft nodes over an unreliable network: every turn  *)
(* of a node's loop, messages lost or reported lost, clients that propose, *)
(* snapshots taken in the background, nodes that crash, start again        *)
(* without their log and join, and a leader that leaves.                   *)
(***************************************************************************)
EXTENDS RaftNode, Bags

CONSTANTS Nodes,       \* node ids
          Proposals    \* what clients propose, each once

VARIABLES
    node,     \* the nodes
    net,      \* messages on their way, a bag
    unr,      \* <<i, j>>: a failed send to j that i has not been told of yet
    reply,    \* what each proposal's caller was answered
    join,     \* how far each node's join has come: [at, leader]
    chosen,   \* history: the first entry committed at each index
    led,      \* history: <<term, node>> of every leader
    left      \* bounds: how often each kind of event may still happen

vars == <<node, net, unr, reply, join, chosen, led, left>>

Unsent == Answer("unsent", 0)
Unanswered == Answer("none", 0)
NotJoining == [at |-> "no", leader |-> 0]

(***************************************************************************)
(* What a turn of node i leaves behind.                                    *)
(***************************************************************************)
BagOf(msgs) ==
    [m \in {msgs[k] : k \in DOMAIN msgs} |-> Cardinality({k \in DOMAIN msgs : msgs[k] = m})]

\* The entries that node n newly knows to be committed.
Learnt(n) ==
    {k \in FirstIndex(n.log) .. n.log.committed : k \notin DOMAIN chosen}

AnswersTo(n, kind) == {k \in DOMAIN n.rep : n.rep[k].chan.kind = kind}

\* Only the first answer reaches a caller: it is sent over a oneshot channel.
ReplyAfter(n, rs) ==
    [p \in DOMAIN rs |->
        IF \E k \in AnswersTo(n, "propose") : n.rep[k].chan.id = p /\ rs[p] = Unanswered
        THEN n.rep[CHOOSE k \in AnswersTo(n, "propose") : n.rep[k].chan.id = p].answer
        ELSE rs[p]]

\* Whatever the answer to its removal, a joining node goes on to ask for its
\* addition; only JoinSuccess lets it run.
JoinAfter(n, js) ==
    [j \in DOMAIN js |->
        CASE js[j].at = "removing" /\ (\E k \in AnswersTo(n, "remove") : n.rep[k].chan.id = j) ->
               [js[j] EXCEPT !.at = "removed"]
          [] js[j].at = "adding" /\ (\E k \in AnswersTo(n, "add") : n.rep[k].chan.id = j) ->
               LET k == CHOOSE k \in AnswersTo(n, "add") : n.rep[k].chan.id = j
               IN IF n.rep[k].answer.what = "JoinSuccess" THEN [js[j] EXCEPT !.at = "added"]
                  ELSE NotJoining
          [] OTHER -> js[j]]

\* A node whose addition is answered learns the leader's peers and runs.
NodesAfter(i, n, js) ==
    [k \in Nodes |->
        CASE k = i -> [n EXCEPT !.out = <<>>, !.rep = <<>>]
          [] k # i /\ js[k].at = "adding" /\ JoinAfter(n, js)[k].at = "added" ->
               [node[k] EXCEPT !.run = TRUE, !.peers = @ \cup (n.peers \ {k})]
          [] OTHER -> node[k]]

Turn(i, n, clock, messages, js, rs) ==
    \E t \in {n} : \E r \in {EndTurn(t, clock)} :
       /\ ClockFits(t, clock)
       /\ clock.due => Len(r.tasks) > Len(t.tasks)
       /\ node' = NodesAfter(i, r, js)
       /\ net' = messages (+) BagOf(r.out)
       /\ reply' = ReplyAfter(r, rs)
       /\ join' = JoinAfter(r, js)
       /\ chosen' = [k \in DOMAIN chosen \cup Learnt(r) |->
                       IF k \in DOMAIN chosen THEN chosen[k] ELSE EntryAt(r.log, k)]
       /\ led' = led \cup (IF IsLeader(r) THEN {<<r.term, i>>} ELSE {})

\* Every bounded event costs one of its kind.  A clock that never stops (Forever)
\* is not used up; "turn" then names the step: a tick of that node, a message or
\* something else.
Forever == 99
Mail == 98
PayFor(kinds, turn) ==
    /\ \A k \in kinds : left[k] > 0
    /\ left' = [k \in DOMAIN left |->
                  CASE k = "turn" -> IF left.tick = Forever THEN turn ELSE 0
                    [] k \in kinds /\ left[k] # Forever -> left[k] - 1
                    [] OTHER -> left[k]]
Pay(kinds) == PayFor(kinds, 0)

\* A turn that takes a message ticks only when the loop is late.
Costs(clock, kind) ==
    (IF clock.tick THEN {kind} ELSE {}) \cup (IF clock.due THEN {"snap"} ELSE {})

(***************************************************************************)
(* Turns of a node.                                                        *)
(***************************************************************************)
Deliver(m) ==
    \E clock \in Clocks :
        /\ node[m.to].run
        /\ PayFor(Costs(clock, "late"), Mail)
        /\ Turn(m.to, OnRaft(node[m.to], m), clock, net (-) SetToBag({m}), join, reply)
        /\ UNCHANGED unr

\* Nothing came for a heartbeat interval.
Tick(i) ==
    \E clock \in Clocks, timeout \in BOOLEAN :
        /\ node[i].run
        /\ clock.tick
        /\ left.tick = Forever => net = EmptyBag /\ unr = {}
        /\ PayFor(Costs(clock, "tick"), i)
        /\ Turn(i, TakeAndPropose(node[i], timeout), clock, net, join, reply)
        /\ UNCHANGED unr

Unreachable(i, j) ==
    \E clock \in Clocks :
        /\ node[i].run
        /\ <<i, j>> \in unr
        /\ unr' = unr \ {<<i, j>>}
        /\ PayFor(Costs(clock, "late"), Mail)
        /\ Turn(i, OnReportUnreachable(node[i], j), clock, net, join, reply)

ClientPropose(i, p) ==
    \E clock \in Clocks, busy, timeout \in BOOLEAN :
        /\ node[i].run
        /\ reply[p] = Unsent
        /\ \A q \in Proposals : q < p => reply[q] # Unsent
        /\ Pay({"prop"} \cup Costs(clock, "late"))
        /\ Turn(i, OnPropose(node[i], p, busy, timeout), clock, net, join,
                [reply EXCEPT ![p] = Unanswered])
        /\ UNCHANGED unr

\* Raft::leave, which only a leader does.
Leave(i) ==
    \E clock \in Clocks :
        /\ node[i].run
        /\ IsLeader(node[i])
        /\ Pay({"leave"} \cup Costs(clock, "late"))
        /\ Turn(i, OnConfigChange(node[i], Chan("leave", i),
                       [type |-> "RemoveNode", id |-> i, stale |-> FALSE]),
                clock, net, join, reply)
        /\ UNCHANGED unr

(***************************************************************************)
(* The background task of a snapshot: it reads the store, then hands the   *)
(* snapshot to the node.                                                   *)
(***************************************************************************)
SnapRead(i, k) ==
    /\ node[i].run
    /\ node[i].tasks[k].data = NoData
    /\ node' = [node EXCEPT ![i].tasks[k].data = DataOf(node[i])]
    /\ UNCHANGED <<net, unr, reply, join, chosen, led, left>>

SnapSet(i, k) ==
    \E clock \in Clocks :
        /\ node[i].run
        /\ node[i].tasks[k].data # NoData
        /\ Pay(Costs(clock, "late"))
        /\ Turn(i, SetSnapshotOf([node[i] EXCEPT !.tasks = RemoveAt(@, k)],
                                 node[i].tasks[k]),
                clock, net, join, reply)
        /\ UNCHANGED unr

(***************************************************************************)
(* Faults.                                                                 *)
(***************************************************************************)
\* MessageSender sends again when a send fails and reports the node unreachable
\* once it gives up.  A send may fail though the message arrived: it is then
\* reported or sent twice.
Lose(m) ==
    /\ Pay({"fail"})
    /\ net' = net (-) SetToBag({m})
    /\ unr' = unr \cup {<<m.from, m.to>>}
    /\ UNCHANGED <<node, reply, join, chosen, led>>

Misreport(m) ==
    /\ Pay({"fail"})
    /\ unr' = unr \cup {<<m.from, m.to>>}
    /\ UNCHANGED <<node, net, reply, join, chosen, led>>

Resend(m) ==
    /\ Pay({"fail"})
    /\ net' = net (+) SetToBag({m})
    /\ UNCHANGED <<node, unr, reply, join, chosen, led>>

Without(i) == [m \in {m \in BagToSet(net) : m.to # i} |-> net[m]]

\* The store is in memory: nothing survives a crash.
Crash(i) ==
    /\ node[i].run
    /\ Pay({"crash"})
    /\ node' = [node EXCEPT ![i] = NewFollower(i)]
    /\ net' = Without(i)
    /\ unr' = {u \in unr : u[1] # i}
    /\ join' = [join EXCEPT ![i] = NotJoining]
    /\ UNCHANGED <<reply, chosen, led>>

(***************************************************************************)
(* Raft::join.  A peer names the leader; the node has itself removed, in   *)
(* case it was a member before, and added again.                           *)
(***************************************************************************)
Joined(j, at, leader) == [join EXCEPT ![j] = [at |-> at, leader |-> leader]]

\* request_leader answers with the leader and its address.
LeaderKnownTo(k) == node[k].run /\ node[k].leader # 0 /\ node[k].leader \in node[k].peers

FindLeader(j) ==
    /\ ~node[j].run /\ ~node[j].quit
    /\ join[j] = NotJoining
    /\ Pay({"join"})
    /\ \E k \in Nodes \ {j} :
          /\ LeaderKnownTo(k)
          /\ node[k].leader # j
          /\ join' = Joined(j, "found", node[k].leader)
          /\ node' = [node EXCEPT ![j] = [NewFollower(j) EXCEPT !.peers = {node[k].leader}]]
    /\ UNCHANGED <<net, unr, reply, chosen, led>>

AskRemove(j) ==
    LET l == join[j].leader
    IN \E clock \in Clocks :
        /\ join[j].at = "found"
        /\ node[l].run
        /\ Pay(Costs(clock, "late"))
        /\ Turn(l, OnConfigChange(node[l], Chan("remove", j),
                       [type |-> "RemoveNode", id |-> j, stale |-> TRUE]),
                clock, net, Joined(j, "removing", l), reply)
        /\ UNCHANGED unr

AskAdd(j) ==
    LET l == join[j].leader
    IN \E clock \in Clocks :
        /\ join[j].at = "removed"
        /\ node[l].run
        /\ Pay(Costs(clock, "late"))
        /\ Turn(l, OnConfigChange(node[l], Chan("add", j),
                       [type |-> "AddNode", id |-> j, stale |-> FALSE]),
                clock, net, Joined(j, "adding", l), reply)
        /\ UNCHANGED unr

\* change_config gives up after its timeout: the removal is then taken as done,
\* the addition as failed.
JoinTimeout(j) ==
    /\ join[j].at \in {"removing", "adding"}
    /\ Pay({"timeout"})
    /\ join' = IF join[j].at = "removing" THEN Joined(j, "removed", join[j].leader)
               ELSE [join EXCEPT ![j] = NotJoining]
    /\ UNCHANGED <<node, net, unr, reply, chosen, led>>

\* The leader it was sent to is gone.
JoinRefused(j) ==
    /\ join[j].at \in {"found", "removing", "removed", "adding"}
    /\ ~node[join[j].leader].run
    /\ join' = [join EXCEPT ![j] = NotJoining]
    /\ UNCHANGED <<node, net, unr, reply, chosen, led, left>>

Turns ==
    \/ \E m \in BagToSet(net) : Deliver(m)
    \/ \E i, j \in Nodes : Unreachable(i, j)
    \/ \E i \in Nodes, p \in Proposals : ClientPropose(i, p)
    \/ \E i \in Nodes : Tick(i) \/ Leave(i)
    \/ \E i \in Nodes : \E k \in DOMAIN node[i].tasks : SnapRead(i, k) \/ SnapSet(i, k)

Faults ==
    \/ \E m \in BagToSet(net) : Lose(m) \/ Misreport(m) \/ Resend(m)
    \/ \E i \in Nodes : Crash(i)

Joins ==
    \E j \in Nodes :
        FindLeader(j) \/ AskRemove(j) \/ AskAdd(j) \/ JoinTimeout(j) \/ JoinRefused(j)

Next == Turns \/ Faults \/ Joins

\* A snapshot task gets to read the store, messages on their way are delivered
\* and every loop ticks: WF of SnapRead and of Deliver, SF of each Tick (its wait
\* for an empty net is a bound, not the program's).  For the last two ENABLED is
\* written out and the step recognised by its turn.
CanDeliver == (\E m \in BagToSet(net) : node[m.to].run) \/ (\E u \in unr : node[u[1]].run)
CanTick(i) == node[i].run /\ net = EmptyBag /\ unr = {}

Fairness ==
    /\ WF_vars(\E i \in Nodes : \E k \in DOMAIN node[i].tasks : SnapRead(i, k))
    /\ []<>(~CanDeliver) \/ []<><<left'.turn = Mail>>_vars
    /\ \A i \in Nodes : <>[](~CanTick(i)) \/ []<><<left'.turn = i>>_vars

(***************************************************************************)
(* Properties.                                                             *)
(***************************************************************************)
\* A term has one leader, whatever messages are lost, late or repeated
\* (Raft::step, poll, become_leader).
OneLeader == \A a, b \in led : a[1] = b[1] => a[2] = b[2]

\* What one node has committed no other node contradicts, across elections,
\* snapshots and configuration changes (RaftLog::maybe_append, maybe_commit,
\* restore); on the way no fatal! of raft-rs is reached, no panic! of its memory
\* storage and no expect or assertion of the loop.
CommittedAgree ==
    \A i \in Nodes :
        /\ ~node[i].log.bad
        /\ \A k \in FirstIndex(node[i].log) .. node[i].log.committed :
               EntryAt(node[i].log, k) = chosen[k]

\* The value a store holds after the first k entries.
ValueAt(k) ==
    LET puts == {j \in DOMAIN chosen : j <= k /\ chosen[j].put # <<>>}
    IN IF puts = {} THEN 0 ELSE Last(chosen[Max(puts)].put)

\* A store that has been through everything its snapshot was ahead of holds what
\* the chosen entries make of it: nothing is skipped or applied out of order
\* when entries, snapshots and the ready that advances them overlap.
StoreIsChosen ==
    \A i \in Nodes :
        node[i].run /\ node[i].srecv /\ node[i].cur >= node[i].seen =>
            node[i].app = ValueAt(node[i].cur)

LastOfAll == Max({LastIndex(node[i].log) : i \in Nodes})

\* Where the clocks never stop, what was lost is sent again, by the heartbeats'
\* answers: in the end every node has committed everything
\* (Raft::handle_heartbeat_response, handle_unreachable, handle_append_response).
EventuallyReplicated ==
    <>[](\A i \in Nodes : node[i].run => node[i].log.committed = LastOfAll)

=============================================================================
