------------------------------ MODULE RaftCore ------------------------------
(***************************************************************************)
(* The Raft state machine of one node: raft-rs's Raft with its progress    *)
(* tracker, as functions from a node and an input to the node after it.    *)
(* Messages to send are collected in n.msgs, as the code collects them for *)
(* the next Ready.                                                         *)
(*                                                                         *)
(* Not here because nothing in FerroMQ reaches it: leadership transfer,    *)
(* read index, requested snapshots, group commit, priorities, append       *)
(* batching and the limit on uncommitted bytes (NO_LIMIT).                 *)
(***************************************************************************)
EXTENDS RaftLog, RaftConf

CONSTANTS ElectionTick,   \* election_tick, in heartbeat intervals
          MaxEntries,     \* entries that fit max_size_per_msg
          MaxInflight     \* max_inflight_msgs

(***************************************************************************)
(* Progress of one follower, with the window of messages in flight.        *)
(***************************************************************************)
NewProgress(next) ==
    [matched |-> 0, next |-> next, state |-> "Probe", paused |-> FALSE,
     psnap |-> 0, active |-> FALSE, ins |-> <<>>]

ResetState(p, state) ==
    [p EXCEPT !.paused = FALSE, !.psnap = 0, !.state = state, !.ins = <<>>]

BecomeProbe(p) ==
    [ResetState(p, "Probe") EXCEPT
        !.next = IF p.state = "Snapshot" THEN Most(p.matched + 1, p.psnap + 1)
                 ELSE p.matched + 1]
BecomeReplicate(p) == [ResetState(p, "Replicate") EXCEPT !.next = p.matched + 1]
BecomeSnapshot(p, i) == [ResetState(p, "Snapshot") EXCEPT !.psnap = i]
IsSnapshotCaughtUp(p) == p.state = "Snapshot" /\ p.matched >= p.psnap

\* An answer to an old message moves nothing.
UpdatesTo(p, i) == p.matched < i
MaybeUpdate(p, i) ==
    [p EXCEPT !.next = Most(@, i + 1), !.matched = Most(@, i),
              !.paused = IF UpdatesTo(p, i) THEN FALSE ELSE @]

\* A rejection is stale when it is not about the last probe.
DecrApplies(p, rejected) ==
    IF p.state = "Replicate" THEN rejected > p.matched ELSE p.next - 1 = rejected
MaybeDecrTo(p, rejected, hint) ==
    CASE ~DecrApplies(p, rejected) -> p
      [] DecrApplies(p, rejected) /\ p.state = "Replicate" -> BecomeProbe(p)
      [] OTHER -> [p EXCEPT !.next = Most(1, Least(rejected, hint + 1)),
                            !.paused = FALSE]

Full(p) == Len(p.ins) = MaxInflight
IsPaused(p) ==
    CASE p.state = "Probe" -> p.paused
      [] p.state = "Replicate" -> Full(p)
      [] p.state = "Snapshot" -> TRUE

\* update_state: entries up to i are on their way.
UpdateState(p, i) ==
    IF p.state = "Replicate" THEN [p EXCEPT !.next = i + 1, !.ins = Append(@, i)]
    ELSE [p EXCEPT !.paused = TRUE]

FreeTo(p, i) == [p EXCEPT !.ins = SelectSeq(@, LAMBDA j : j > i)]
FreeFirstOne(p) == IF p.ins = <<>> THEN p ELSE FreeTo(p, p.ins[1])

(***************************************************************************)
(* Messages and the node.                                                  *)
(***************************************************************************)
Message(type, to) ==
    [type |-> type, from |-> 0, to |-> to, term |-> 0, index |-> 0, logterm |-> 0,
     commit |-> 0, cterm |-> 0, reject |-> FALSE, hint |-> 0, ents |-> <<>>,
     snap |-> NoSnap]

VoteTypes == {"RequestVote", "RequestPreVote", "RequestVoteResponse",
              "RequestPreVoteResponse"}
ResponseTypes == {"AppendResponse", "RequestVoteResponse", "HeartbeatResponse",
                  "RequestPreVoteResponse"}

\* Vote messages bring their term; a forwarded proposal has none.
Send(n, m) ==
    [n EXCEPT !.msgs = Append(@,
        [m EXCEPT !.from = IF @ = 0 THEN n.id ELSE @,
                  !.term = IF m.type \in VoteTypes \cup {"Propose"} THEN @ ELSE n.term])]

NoVotes == [yes |-> {}, no |-> {}]

Fatal(n, cond) == [n EXCEPT !.log = Check(@, cond)]

Peers(n) == SetToSeq(DOMAIN n.prs \ {n.id})

(***************************************************************************)
(* Replication to a follower.                                              *)
(***************************************************************************)
\* The follower needs entries that are gone: it is sent the stored snapshot,
\* if it was heard of lately.
SendSnapshot(n, to) ==
    LET snap == StoredSnapshot(n.log.store)
    IN IF ~n.prs[to].active THEN n
       ELSE Send([Fatal(n, snap.index # 0 /\ CanSnapshot(n.log.store))
                    EXCEPT !.prs[to] = BecomeSnapshot(@, snap.index)],
                 [Message("Snapshot", to) EXCEPT !.snap = snap])

SendEntries(n, to, ents) ==
    LET p == n.prs[to]
    IN Send([n EXCEPT !.prs[to] =
                 IF ents = <<>> THEN p ELSE UpdateState(p, Last(ents).index)],
            [Message("Append", to) EXCEPT
                !.index = p.next - 1, !.logterm = Term(n.log, p.next - 1),
                !.ents = ents, !.commit = n.log.committed])

MaybeSendAppend(n, to, allowEmpty) ==
    LET p == n.prs[to]
        gone == p.next <= LastIndex(n.log) /\ Compacted(n.log, p.next)
        ents == Entries(n.log, p.next, MaxEntries)
    IN CASE IsPaused(p) -> n
         [] ~IsPaused(p) /\ gone -> IF allowEmpty THEN SendSnapshot(n, to) ELSE n
         [] OTHER -> IF ~allowEmpty /\ ents = <<>> THEN n
                     ELSE IF Term(n.log, p.next - 1) = NoTerm THEN SendSnapshot(n, to)
                     ELSE SendEntries(n, to, ents)

SendAppend(n, to) == MaybeSendAppend(n, to, TRUE)

\* As long as entries go out; each round that sends takes at least one.
SendAppendAggressively(n, to) ==
    FoldLeft(LAMBDA r, k : MaybeSendAppend(r, to, FALSE), n,
             [k \in 1 .. (LastIndex(n.log) + 1 - n.prs[to].next) |-> k])

BcastAppend(n) == FoldLeft(SendAppend, n, Peers(n))

SendHeartbeat(n, to) ==
    Send(n, [Message("Heartbeat", to) EXCEPT
                !.commit = Least(n.prs[to].matched, n.log.committed)])
BcastHeartbeat(n) == FoldLeft(SendHeartbeat, n, Peers(n))

(***************************************************************************)
(* Commit and append.                                                      *)
(***************************************************************************)
MaximalCommittedIndex(n) ==
    CommittedIndex(n.conf,
        [v \in VoterIds(n.conf) |-> IF v \in DOMAIN n.prs THEN n.prs[v].matched ELSE 0])

Commits(n) == CanCommit(n.log, MaximalCommittedIndex(n), n.term)
MaybeCommit(n) ==
    IF Commits(n)
    THEN [Fatal(n, n.id \in DOMAIN n.prs)
            EXCEPT !.log = CommitTo(@, MaximalCommittedIndex(n))]
    ELSE n

HasPendingConf(n) == n.pconf > n.log.applied

AppendEntry(n, es) ==
    LET li == LastIndex(n.log)
    IN [n EXCEPT !.log = Append1(@, [k \in 1 .. Len(es) |->
                             [es[k] EXCEPT !.term = n.term, !.index = li + k]])]

\* The leader counts its own entries once they are stored.
OnPersistEntries(n, index, term) ==
    LET n1 == [n EXCEPT !.log.persisted = index]
        n2 == [Fatal(n1, n.id \in DOMAIN n.prs)
                 EXCEPT !.prs[n.id] = MaybeUpdate(@, index)]
    IN CASE ~CanPersist(n.log, index, term) -> n
         [] CanPersist(n.log, index, term) /\ n.state # "Leader" -> n1
         [] OTHER -> IF UpdatesTo(n1.prs[n.id], index) /\ Commits(n2)
                     THEN BcastAppend(MaybeCommit(n2)) ELSE n2

(***************************************************************************)
(* Roles.                                                                  *)
(***************************************************************************)
ResetTerm(n, term) ==
    [n EXCEPT !.vote = IF n.term = term THEN @ ELSE 0, !.term = term,
              !.leader = 0, !.elapsed = 0, !.votes = NoVotes, !.pconf = 0,
              !.prs = [i \in DOMAIN @ |->
                  [NewProgress(LastIndex(n.log) + 1) EXCEPT
                     !.matched = IF i = n.id THEN n.log.persisted ELSE 0]]]

BecomeFollower(n, term, leader) ==
    [ResetTerm(n, term) EXCEPT !.leader = leader, !.state = "Follower"]

BecomeCandidate(n) ==
    [ResetTerm(Fatal(n, n.state # "Leader"), n.term + 1)
       EXCEPT !.vote = n.id, !.state = "Candidate"]

BecomePreCandidate(n) ==
    [Fatal(n, n.state # "Leader")
       EXCEPT !.state = "PreCandidate", !.votes = NoVotes, !.leader = 0]

\* Configuration changes wait until everything the log holds now is applied.
BecomeLeader(n) ==
    LET last == LastIndex(n.log)
        n1 == [ResetTerm(Fatal(n, n.state # "Follower" /\ last = n.log.persisted
                                  /\ n.id \in DOMAIN n.prs), n.term)
                 EXCEPT !.leader = n.id, !.state = "Leader", !.pconf = last,
                        !.prs[n.id] = BecomeReplicate(@)]
    IN AppendEntry(n1, <<EmptyEntry>>)

(***************************************************************************)
(* Elections.  poll and campaign call each other; a pre-election that is   *)
(* won campaigns for real, an election that is won makes a leader.         *)
(***************************************************************************)
RecordVote(n, from, yes) ==
    IF from \in n.votes.yes \cup n.votes.no THEN n
    ELSE IF yes THEN [n EXCEPT !.votes.yes = @ \cup {from}]
    ELSE [n EXCEPT !.votes.no = @ \cup {from}]

Won(n) == VoteWon(n.conf, n.votes.yes)
Lost(n) == ~Won(n) /\ VoteLost(n.conf, n.votes.no)

SendVoteRequests(n, type, term) ==
    FoldLeft(LAMBDA r, to :
                Send(r, [Message(type, to) EXCEPT
                           !.term = term, !.index = LastIndex(n.log),
                           !.logterm = LastTerm(n.log), !.commit = n.log.committed,
                           !.cterm = Term(n.log, n.log.committed)]),
             n, SetToSeq(VoterIds(n.conf) \ {n.id}))

CountVotes(r) ==
    CASE Won(r) -> BcastAppend(BecomeLeader(r))
      [] Lost(r) -> BecomeFollower(r, r.term, 0)
      [] OTHER -> r
PollCandidate(n, from, yes) == CountVotes(RecordVote(n, from, yes))

AskVotes(r) ==
    IF r.state = "Leader" THEN r ELSE SendVoteRequests(r, "RequestVote", r.term)
CampaignElection(n) == AskVotes(PollCandidate(BecomeCandidate(n), n.id, TRUE))

CountPreVotes(r) ==
    CASE Won(r) -> CampaignElection(r)
      [] Lost(r) -> BecomeFollower(r, r.term, 0)
      [] OTHER -> r
PollPreCandidate(n, from, yes) == CountPreVotes(RecordVote(n, from, yes))

AskPreVotes(r) ==
    IF r.state = "PreCandidate" THEN SendVoteRequests(r, "RequestPreVote", r.term + 1) ELSE r
CampaignPreElection(n) == AskPreVotes(PollPreCandidate(BecomePreCandidate(n), n.id, TRUE))

\* No campaign while a committed configuration change is not applied.
Hup(n) ==
    CASE Compacted(n.log, n.log.applied + 1) -> Fatal(n, FALSE)
      [] \E k \in n.log.applied + 1 .. n.log.committed :
            ~Compacted(n.log, n.log.applied + 1) /\ IsConf(EntryAt(n.log, k)) -> n
      [] OTHER -> CampaignPreElection(n)

\* The timeout is drawn from ElectionTick .. 2 * ElectionTick - 1 anew at every
\* reset and seen only here: that it has passed is chosen when it is looked at.
MayPass(n) == n.elapsed + 1 >= ElectionTick
MustPass(n) == n.elapsed + 1 >= 2 * ElectionTick - 1

TickElection(n, passes) ==
    IF passes /\ n.prom THEN Hup([n EXCEPT !.elapsed = 0])
    ELSE [n EXCEPT !.elapsed = Least(@ + 1, 2 * ElectionTick - 1)]

\* MsgCheckQuorum: a leader that has not heard of a quorum for a whole election
\* timeout steps down.
CheckQuorum(n) ==
    LET active == {i \in DOMAIN n.prs : n.prs[i].active} \cup ({n.id} \cap DOMAIN n.prs)
        n1 == [n EXCEPT !.elapsed = 0,
                        !.prs = [i \in DOMAIN @ |-> [@[i] EXCEPT !.active = (i = n.id)]]]
    IN IF HasQuorum(n.conf, active) THEN n1 ELSE BecomeFollower(n1, n.term, 0)

BeatIfLeader(n) == IF n.state = "Leader" THEN BcastHeartbeat(n) ELSE n
TickHeartbeat(n) ==
    BeatIfLeader(IF n.elapsed + 1 >= ElectionTick THEN CheckQuorum(n)
                 ELSE [n EXCEPT !.elapsed = @ + 1])
=============================================================================
