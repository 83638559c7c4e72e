------------------------------ MODULE RaftNode ------------------------------
(***************************************************************************)
(* A FerroMQ raft node: RawNode's ready and advance, and the loop of       *)
(* ferromq-raft's RaftNode around it, with the proposals and configuration *)
(* changes that wait for an answer, the store and its snapshots.           *)
(*                                                                         *)
(* A node is run by its mailbox: every turn of the loop takes one message, *)
(* ticks when a heartbeat interval has passed, and handles the Ready.      *)
(***************************************************************************)
EXTENDS RaftStep

CONSTANT BatchSize    \* proposal_batch_size

\* A caller that waits: [kind, id], a proposal or a step of a join.
Chan(kind, id) == [kind |-> kind, id |-> id]

\* Fields of the driver: the peers it has an address of, the counter and table
\* of waiting callers (unc), the proposals not yet batched (mrg), the store
\* (app), snapshot tasks, and what the turn at hand sends and answers.
NewNode(i, store) ==
    [id |-> i, term |-> store.hs.term, vote |-> store.hs.vote, state |-> "Follower",
     leader |-> 0, elapsed |-> 0, pconf |-> 0, votes |-> NoVotes,
     log |-> [NewLog(store) EXCEPT !.committed = store.hs.commit],
     conf |-> Restore(store.conf), prom |-> i \in store.conf.voters,
     prs |-> [j \in store.conf.voters |->
                [NewProgress(StoreLast(store) + 1) EXCEPT
                   !.matched = IF j = i THEN StoreLast(store) ELSE 0]],
     msgs |-> <<>>, since |-> 0,
     run |-> FALSE, peers |-> {}, seq |-> 0, unc |-> <<>>, mrg |-> <<>>,
     srecv |-> FALSE, quit |-> FALSE, tasks |-> <<>>, due |-> FALSE,
     app |-> 0, cur |-> store.at.index, seen |-> store.at.index,
     out |-> <<>>, rep |-> <<>>]

NewFollower(i) == NewNode(i, NewStore)

\* The first node makes itself leader over a snapshot with itself as the only
\* voter, so that everyone else starts from a snapshot.
FirstSnapshot(i) ==
    [index |-> 1, term |-> 1, conf |-> [EmptyConf EXCEPT !.voters = {i}],
     data |-> [app |-> 0, seen |-> 1]]
NewLeader(i) ==
    LET n == NewNode(i, ApplySnapshot(NewStore, FirstSnapshot(i)))
    IN [BecomeLeader(BecomeCandidate(n)) EXCEPT !.run = TRUE, !.srecv = TRUE,
                                                !.peers = {i}]

(***************************************************************************)
(* Waiting callers.                                                        *)
(***************************************************************************)
Wait(n, chans) ==
    [n EXCEPT !.unc = [s \in DOMAIN @ \cup {n.seq} |-> IF s = n.seq THEN chans ELSE @[s]],
              !.seq = @ + 1]
Waiting(n, seq) == IF seq \in DOMAIN n.unc THEN n.unc[seq] ELSE <<>>
Forget(n, seq) == [n EXCEPT !.unc = [s \in DOMAIN @ \ {seq} |-> @[s]]]
Reply(n, chan, answer) ==
    [n EXCEPT !.rep = Append(@, [chan |-> chan, answer |-> answer])]
Answer(what, of) == [what |-> what, of |-> of]

(***************************************************************************)
(* Snapshots of the store.                                                 *)
(***************************************************************************)
AppliedTerm(n) == Most(0, Term(n.log, n.log.applied))
SnapshotHere(n) ==
    CreateSnapshot(n.log.store, n.log.applied, AppliedTerm(n), NoData)
DataOf(n) == [app |-> n.app, seen |-> n.seen]

SetSnapshotOf(n, snap) ==
    [Fatal(n, snap.index <= StoreLast(n.log.store) + 1)
       EXCEPT !.log.store = SetSnapshot(@, snap)]

GenerateSnapshotSync(n) ==
    SetSnapshotOf(Fatal(n, CanSnapshot(n.log.store)),
                  [SnapshotHere(n) EXCEPT !.data = DataOf(n)])

\* The index is taken now, the store is read by a task later.
GenerateSnapshotAsync(n) ==
    [Fatal(n, CanSnapshot(n.log.store))
       EXCEPT !.tasks = Append(@, SnapshotHere(n)), !.due = FALSE]

(***************************************************************************)
(* Committed entries.                                                      *)
(***************************************************************************)
PeersAfter(n, cc) ==
    CASE cc.type = "AddNode" -> [n EXCEPT !.peers = @ \cup {cc.id}]
      [] cc.type = "RemoveNode" /\ cc.id = n.id -> [n EXCEPT !.quit = @ \/ ~cc.stale]
      [] OTHER -> [n EXCEPT !.peers = @ \ {cc.id}]

\* The new configuration is stored, and a snapshot for whoever is added taken.
StoreConf(n, cc) ==
    LET n1 == [n EXCEPT !.log.store.conf = ToConfState(n.conf)]
    IN IF cc.type = "AddNode" /\ cc.id # n.id THEN GenerateSnapshotSync(n1) ELSE n1

AnswerChange(n, e, waiting) ==
    IF Len(waiting) # 1 THEN n
    ELSE Reply(n, waiting[1],
               Answer(IF e.cc.type = "AddNode" THEN "JoinSuccess" ELSE "Ok", e.cc.id))

\* A change that raft refuses leaves the configuration and the store alone.
ChangeConf(n, cc) ==
    IF ConfAfter(n, cc) = NoConfig THEN n ELSE StoreConf(ApplyConfChange(n, cc), cc)

HandleConfigChange(n, e) ==
    AnswerChange(Forget(ChangeConf(PeersAfter(n, e.cc), e.cc), e.seq), e, Waiting(n, e.seq))

\* The callers of a batch are answered in its order; a caller that waits for a
\* single proposal is not answered by a batch, nor the other way round.
AnswerBatch(n, put, waiting) ==
    IF (Len(waiting) = 1) # (Len(put) = 1) THEN n
    ELSE [n EXCEPT !.rep = @ \o [k \in 1 .. Least(Len(waiting), Len(put)) |->
             [chan |-> waiting[k], answer |-> Answer("Response", put[k])]]]

SnapshotIfDue(n) == IF n.due THEN GenerateSnapshotAsync(n) ELSE n

HandleNormal(n, e) ==
    SnapshotIfDue(AnswerBatch([Forget(n, e.seq) EXCEPT !.app = Last(e.put)],
                              e.put, Waiting(n, e.seq)))

Handled(n, e) == [n EXCEPT !.cur = e.index, !.seen = Most(@, e.index)]
HandleCommitted(n, e) ==
    Handled(CASE ~HasData(e) -> n
              [] HasData(e) /\ IsConf(e) -> HandleConfigChange(n, e)
              [] OTHER -> HandleNormal(n, e), e)

HandleCommittedEntries(n, ents) == FoldLeft(HandleCommitted, n, ents)

(***************************************************************************)
(* Ready and advance, as on_ready goes through them.                       *)
(***************************************************************************)
\* send_messages: to a node without an address nothing is sent.
SendMessages(n, msgs) ==
    [n EXCEPT !.out = @ \o SelectSeq(msgs, LAMBDA m : m.to \in n.peers)]

HandleReadySnapshot_unread(n) ==
    LET s == n.log.usnap
    IN IF s = NoSnap THEN n
       ELSE [Fatal(n, ~SnapshotOutOfDate(n.log.store, s) /\ n.since <= s.index)
               EXCEPT !.since = s.index, !.log.store = ApplySnapshot(@, s), !.cur = s.index]

HandleReadySnapshot(n) ==
    LET s == n.log.usnap
    IN IF s = NoSnap THEN n
       ELSE [Fatal(n, ~SnapshotOutOfDate(n.log.store, s) /\ n.since <= s.index)
               EXCEPT !.since = s.index, !.log.store = ApplySnapshot(@, s),
                      !.app = s.data.app, !.seen = s.data.seen, !.cur = s.index]

SinceAfter(since, ents) == IF ents = <<>> THEN since ELSE Last(ents).index

\* The committed entries a Ready or a LightReady hands out are handled.
HandOut(n, ents) == HandleCommittedEntries([n EXCEPT !.since = SinceAfter(@, ents)], ents)

\* The unstable entries and the hard state are stored; hs is as ready() saw it.
StoreReady(n, ents, hs) ==
    [Fatal(n, CanAppend(n.log.store, ents))
       EXCEPT !.log.store = [StoreAppend(@, ents) EXCEPT !.hs = hs]]

\* What ready() hands out, up to the point where it is stored.  A leader sends
\* first, everyone else when all of it is stored.
HandleReady(n) ==
    LET hs == [term |-> n.term, vote |-> n.vote, commit |-> n.log.committed]
        sent == IF n.state = "Leader" THEN n.msgs ELSE <<>>
        unsent == IF n.state = "Leader" THEN <<>> ELSE n.msgs
        n1 == HandleReadySnapshot(SendMessages([n EXCEPT !.msgs = <<>>], sent))
        ents == NextEntriesSince(n.log, n1.since)
        n2 == Fatal(n1, n.log.usnap # NoSnap => ents = <<>>)
    IN SendMessages(StoreReady(HandOut(n2, ents), n.log.uents, hs), unsent)

\* commit_ready and on_persist_ready; s and ents are what was stored.
PersistSnap(n, s) == IF s = NoSnap THEN n ELSE [n EXCEPT !.log = MaybePersistSnap(@, s.index)]
PersistEntries(n, ents) ==
    IF ents = <<>> THEN n ELSE OnPersistEntries(n, Last(ents).index, Last(ents).term)
Persisted(n) ==
    PersistEntries(PersistSnap([n EXCEPT !.log = StableEntries(StableSnap(@))], n.log.usnap),
                   n.log.uents)

\* advance hands out what became committed by storing.
Advanced(n) ==
    [Fatal(n, n.state = "Leader" \/ n.msgs = <<>>)
       EXCEPT !.log = AppliedTo(@, n.since), !.msgs = <<>>,
              !.log.store.hs.commit = n.log.committed]
ApplyAll(n) == [n EXCEPT !.log = AppliedTo(@, n.since)]
HandleLightReady(n) ==
    ApplyAll(HandOut(SendMessages(Advanced(n), n.msgs), NextEntriesSince(n.log, n.since)))

\* should_quit ends the loop at its next turn.
Finished(n) == [n EXCEPT !.due = FALSE, !.run = ~n.quit]
OnReady(n) == Finished(HandleLightReady(Persisted(HandleReady(n))))

(***************************************************************************)
(* Turns of the loop.                                                      *)
(***************************************************************************)
IsLeader(n) == n.state = "Leader"

\* RawNode::propose and propose_conf_change step a local message.
Propose(n, e) == Step(n, [Message("Propose", 0) EXCEPT !.from = n.id, !.ents = <<e>>])

\* take_and_propose: a full batch, or whatever there is after the timeout.
TakeAndPropose(n, timeout) ==
    LET k == Least(Len(n.mrg), BatchSize)
        put == SubSeq(n.mrg, 1, k)
        n1 == Wait([n EXCEPT !.mrg = SubSeq(@, k + 1, Len(@))],
                   [j \in 1 .. k |-> Chan("propose", put[j])])
    IN IF k > 0 /\ (k = BatchSize \/ timeout) THEN Propose(n1, PutEntry(n.seq, put)) ELSE n

OnPropose(n, p, busy, timeout) ==
    CASE ~IsLeader(n) -> Reply(n, Chan("propose", p), Answer("WrongLeader", 0))
      [] IsLeader(n) /\ busy -> Reply(n, Chan("propose", p), Answer("Busy", 0))
      [] OTHER -> TakeAndPropose([n EXCEPT !.mrg = Append(@, p)], timeout)

OnConfigChange(n, chan, cc) ==
    IF ~IsLeader(n) THEN Reply(n, chan, Answer("WrongLeader", 0))
    ELSE Propose(Wait(n, <<chan>>), ConfEntry(n.seq, cc))

\* Heartbeats are ignored until the first snapshot has come.
OnRaft(n, m) ==
    IF ~n.srecv /\ m.type = "Heartbeat" THEN n
    ELSE [RawStep(n, m) EXCEPT !.srecv = @ \/ m.type = "Snapshot"]

OnReportUnreachable(n, j) == Step(n, [Message("Unreachable", 0) EXCEPT !.from = j])

TickNode(n, passes) == IF IsLeader(n) THEN TickHeartbeat(n) ELSE TickElection(n, passes)

\* The choices of one turn that come from the clock: whether the heartbeat
\* interval, the election timeout and the snapshot interval have passed.
Clocks == [tick : BOOLEAN, passes : BOOLEAN, due : BOOLEAN]
ClockFits(n, c) ==
    /\ c.passes => c.tick /\ ~IsLeader(n) /\ MayPass(n)
    /\ c.tick /\ ~IsLeader(n) /\ MustPass(n) => c.passes

EndTurn(n, c) ==
    LET t == IF c.tick THEN TickNode(n, c.passes) ELSE n
    IN OnReady([t EXCEPT !.due = c.due])
=============================================================================
