------------------------------- MODULE MCRaft -------------------------------
(***************************************************************************)
(* Model checking of RaftCluster.  A focus starts from a cluster that has  *)
(* formed, node 1 leading and the others joined in order, with bounds of   *)
(* its own on what may still happen.  Formed(q) is what the joins of       *)
(* 2 .. q leave behind when every message is delivered in order.           *)
(***************************************************************************)
EXTENDS RaftCluster, RaftConfChange

CONSTANT Foci

\* Node j is removed by entry 2j - 1 and added by entry 2j.
JoinEntry(j, k) ==
    [ConfEntry(k - 3, [type |-> IF k = 2 * j THEN "AddNode" ELSE "RemoveNode",
                       id |-> j, stale |-> k # 2 * j])
       EXCEPT !.index = k, !.term = 2]

\* Node i started from the snapshot of its own join and compacted its log at the
\* snapshot of the last one.
StoreOf(i, q) ==
    LET conf == [EmptyConf EXCEPT !.voters = 1 .. q]
    IN [ents |-> IF i = q THEN <<JoinEntry(q, 2 * q)>>
                 ELSE <<JoinEntry(q, 2 * q - 1), JoinEntry(q, 2 * q)>>,
        at |-> [index |-> 2 * i - 1, term |-> IF i = 1 THEN 1 ELSE 2],
        hs |-> [term |-> 2, vote |-> IF i = 1 THEN 1 ELSE 0, commit |-> 2 * q],
        conf |-> conf,
        snap |-> [index |-> 2 * q - 1, term |-> 2, conf |-> conf,
                  data |-> [app |-> 0, seen |-> 2 * q - 1]]]

Member(i, q) ==
    [NewNode(i, StoreOf(i, q)) EXCEPT
        !.log.applied = 2 * q, !.leader = 1, !.run = TRUE, !.srecv = TRUE,
        !.peers = 1 .. q, !.since = 2 * q, !.cur = 2 * q, !.seen = 2 * q,
        !.prs = [j \in 1 .. q |->
                   LET next == IF j <= i THEN 2 * i - 1 ELSE 2 * j
                   IN [NewProgress(next) EXCEPT !.active = TRUE,
                         !.matched = IF j = i THEN next - 1 ELSE 0]]]

Leading(n, q) ==
    [n EXCEPT !.state = "Leader", !.pconf = 2 * q, !.seq = 2 * q - 2,
              !.prs = [j \in 1 .. q |->
                         [NewProgress(2 * q + 1) EXCEPT
                            !.matched = 2 * q, !.state = "Replicate", !.active = TRUE]]]

Formed(q) ==
    [i \in Nodes |-> CASE i > q -> NewFollower(i)
                       [] i = 1 /\ i <= q -> Leading(Member(i, q), q)
                       [] OTHER -> Member(i, q)]

Alone == [i \in Nodes |-> IF i = 1 THEN NewLeader(1) ELSE NewFollower(i)]

\* Nodes 2 and 3 have not heard of the leader for a while.
Aged(ns) == [i \in Nodes |-> IF i = 1 THEN ns[i] ELSE [ns[i] EXCEPT !.elapsed = 2]]

\* Proposal 1 is entry 7; in the log of node 1, or committed at nodes 1 and 2.
Entry7 == [PutEntry(4, <<1>>) EXCEPT !.index = 7, !.term = 2]
WithEntry(n) ==
    [n EXCEPT !.log.store.ents = Append(@, Entry7), !.log.offset = 8, !.log.persisted = 7]
Committed(n) ==
    [WithEntry(n) EXCEPT !.log.store.hs.commit = 7, !.log.committed = 7, !.log.applied = 7,
                         !.since = 7, !.cur = 7, !.seen = 7, !.app = 1]
\* The progress after entry 7 was sent to j, and after j confirmed it.
Sent(n, j) == [n EXCEPT !.prs[j].next = 8, !.prs[j].ins = <<7>>]
Got(n, j) == [n EXCEPT !.prs[j].next = 8, !.prs[j].matched = 7]
Put7(ns) ==
    [ns EXCEPT ![1] = [Sent(Sent(Got(WithEntry(ns[1]), 1), 2), 3) EXCEPT
                         !.seq = 5, !.unc = [s \in {4} |-> <<Chan("propose", 1)>>]]]
Missed7(ns) ==
    [ns EXCEPT ![1] = [Sent(Got(Got(Committed(ns[1]), 1), 2), 3) EXCEPT !.seq = 5],
               ![2] = Committed(ns[2])]
Append7(j) ==
    [Message("Append", j) EXCEPT !.from = 1, !.term = 2, !.index = 6, !.logterm = 2,
                                 !.ents = <<Entry7>>, !.commit = 6]

\* Node 3 has just been added: the leader probes it.
Added3(ns) ==
    [ns EXCEPT ![1].prs[3] = [NewProgress(6) EXCEPT !.active = TRUE, !.paused = TRUE],
               ![3] = [NewFollower(3) EXCEPT !.run = TRUE, !.peers = {1, 2}]]
Probe3 ==
    [Message("Append", 3) EXCEPT !.from = 1, !.term = 2, !.index = 5, !.logterm = 2,
                                 !.ents = <<JoinEntry(3, 6)>>, !.commit = 6]

Bounds ==
    [tick |-> 0, late |-> 0, prop |-> 0, fail |-> 0, crash |-> 0, snap |-> 0,
     join |-> 0, timeout |-> 0, leave |-> 0, turn |-> 0]

Start(ns, mail, bounds) == [nodes |-> ns, mail |-> mail, bounds |-> bounds]

Starts(f) ==
    CASE f = "conf" -> Start(Alone, <<>>, Bounds)
      \* the leader is gone: two candidates, a message lost, late or repeated
      [] f = "elect" -> Start([Aged(Formed(3)) EXCEPT ![1] = NewFollower(1)], <<>>,
                              [Bounds EXCEPT !.tick = 2, !.fail = 1])
      \* the leader is alive but was not heard of
      [] f = "unseat" -> Start(Aged(Formed(3)), <<>>, [Bounds EXCEPT !.tick = 1])
      \* ... and has an entry that nobody else has, or that one other will have
      [] f = "alone" -> Start(Aged(Put7(Formed(3))), <<>>, [Bounds EXCEPT !.tick = 1])
      [] f = "half" -> Start(Aged(Put7(Formed(3))), <<Append7(2)>>, [Bounds EXCEPT !.tick = 1])
      \* ... or that all but one have
      [] f = "missed" -> Start(Aged(Missed7(Formed(3))), <<>>, [Bounds EXCEPT !.tick = 1])
      \* two proposals, snapshots in the background
      [] f = "batch" -> Start(Formed(2), <<>>, [Bounds EXCEPT !.prop = 2, !.snap = 2])
      [] f = "put" -> Start(Formed(3), <<>>, [Bounds EXCEPT !.prop = 1, !.fail = 1])
      \* node 3 missed an entry that a snapshot is about to compact away
      [] f = "lag" -> Start(Missed7(Formed(3)), <<>>, [Bounds EXCEPT !.prop = 1, !.snap = 1])
      [] f = "form" -> Start(Alone, <<>>, [Bounds EXCEPT !.join = 1, !.tick = 1, !.late = 1,
                                                            !.crash = 1])
      [] f = "restart" -> Start(Formed(3), <<>>, [Bounds EXCEPT !.crash = 1, !.join = 1,
                                                                !.timeout = 1])
      [] f = "leave" -> Start(Aged(Formed(2)), <<>>, [Bounds EXCEPT !.leave = 1, !.tick = 1,
                                                                  !.prop = 1])
      [] f = "live" -> Start(Formed(2), <<>>, [Bounds EXCEPT !.tick = Forever, !.prop = 1,
                                                            !.fail = 1])
      [] f = "added" -> Start(Added3(Formed(3)), <<Probe3>>,
                              [Bounds EXCEPT !.tick = Forever, !.fail = 1])

Known(n) == FirstIndex(n.log) .. n.log.committed
InitFor(f, start) ==
    LET ns == start.nodes
    IN /\ node = ns
       /\ net = BagOf(start.mail)
       /\ unr = {}
       /\ reply = [p \in Proposals |->
                     CASE \E i \in Nodes : \E k \in DOMAIN ns[i].unc :
                            ns[i].unc[k] = <<Chan("propose", p)>> -> Unanswered
                       [] ns[1].app = p -> Answer("Response", p)
                       [] OTHER -> Unsent]
       /\ join = [i \in Nodes |-> NotJoining]
       /\ chosen = [k \in UNION {Known(ns[i]) : i \in Nodes} |->
                      EntryAt(ns[CHOOSE i \in Nodes : k \in Known(ns[i])].log, k)]
       /\ led = {<<2, 1>>}
       /\ left = start.bounds
       /\ IF f = "conf" THEN ConfInit ELSE cfg = NoConfig

MCInit == \E f \in Foci : \E start \in {Starts(f)} : InitFor(f, start)
MCNext == (Next /\ UNCHANGED cfg) \/ (ConfNext /\ UNCHANGED vars)
MCSpec == MCInit /\ [][MCNext]_<<vars, cfg>>
FairSpec == MCSpec /\ Fairness
=============================================================================
