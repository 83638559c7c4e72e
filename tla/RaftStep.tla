------------------------------ MODULE RaftStep ------------------------------
(***************************************************************************)
(* How a Raft node takes a message: Raft::step with the handlers of every  *)
(* role, configuration changes and the restoration of a snapshot.          *)
(***************************************************************************)
EXTENDS RaftCore

(***************************************************************************)
(* Configuration.                                                          *)
(***************************************************************************)
\* The progress of a node that is new starts at the last entry.
ApplyConf(n, c) ==
    [n EXCEPT !.conf = c, !.prom = n.id \in VoterIds(c),
              !.prs = [i \in c.prs |-> IF i \in DOMAIN n.prs THEN n.prs[i]
                         ELSE [NewProgress(LastIndex(n.log)) EXCEPT !.active = TRUE]]]

\* A leader that is still a voter sends what the new quorum commits, or probes
\* whoever is new.
PostConfChange(n) ==
    CASE n.state # "Leader" \/ ~n.prom -> n
      [] n.state = "Leader" /\ n.prom /\ Commits(n) -> BcastAppend(MaybeCommit(n))
      [] OTHER -> FoldLeft(LAMBDA r, to : MaybeSendAppend(r, to, FALSE), n, Peers(n))

\* Only single changes are ever proposed here.
ConfAfter(n, cc) == Simple(n.conf, <<cc>>)
TryConf(n, c) == IF c = NoConfig THEN n ELSE PostConfChange(ApplyConf(n, c))
ApplyConfChange(n, cc) == TryConf(n, ConfAfter(n, cc))

(***************************************************************************)
(* Followers.                                                              *)
(***************************************************************************)
AppendResponse(n, m) ==
    [Message("AppendResponse", m.from) EXCEPT !.commit = n.log.committed]

Appended(n, m) ==
    Send(n, [AppendResponse(n, m) EXCEPT !.index = m.index + Len(m.ents)])
Rejected(n, m, hint) ==
    Send(Fatal(n, hint[2] # NoTerm),
         [AppendResponse(n, m) EXCEPT !.index = m.index, !.reject = TRUE,
                                      !.hint = hint[1], !.logterm = hint[2]])

HandleAppendEntries(n, m) ==
    CASE m.index < n.log.committed ->
           Send(n, [AppendResponse(n, m) EXCEPT !.index = n.log.committed])
      [] m.index >= n.log.committed /\ CanMaybeAppend(n.log, m.index, m.logterm) ->
           Appended([n EXCEPT !.log = MaybeAppend(@, m.index, m.commit, m.ents)], m)
      [] OTHER ->
           Rejected(n, m, FindConflictByTerm(n.log, Least(m.index, LastIndex(n.log)),
                                             m.logterm))

AnswerHeartbeat(n, m) ==
    Send(n, [Message("HeartbeatResponse", m.from) EXCEPT !.commit = n.log.committed])
HandleHeartbeat(n, m) == AnswerHeartbeat([n EXCEPT !.log = CommitTo(@, m.commit)], m)

\* A snapshot behind the commit index, or without this node, is ignored; one
\* whose last entry is in the log only moves the commit index.
Concerns(n, s) ==
    /\ s.index >= n.log.committed
    /\ n.id \in s.conf.voters \cup s.conf.learners \cup s.conf.outgoing

SelfMatched(n) == [n EXCEPT !.prs[n.id] = MaybeUpdate(@, @.next - 1)]
RestoreConf(n, cs, c) ==
    SelfMatched(ApplyConf(Fatal(n, c # NoConfig /\ ToConfState(c) = cs), c))
RestoreSnapshot(n, s) ==
    RestoreConf([n EXCEPT !.log = LogRestore(@, s), !.prs = <<>>], s.conf, Restore(s.conf))

AckSnapshot(n, m, index) == Send(n, [Message("AppendResponse", m.from) EXCEPT !.index = index])
AckRestored(n, m) == AckSnapshot(n, m, LastIndex(n.log))
AckIgnored(n, m) == AckSnapshot(n, m, n.log.committed)

HandleSnapshot(n, m) ==
    CASE Concerns(n, m.snap) /\ ~MatchTerm(n.log, m.snap.index, m.snap.term) ->
           AckRestored(RestoreSnapshot(n, m.snap), m)
      [] Concerns(n, m.snap) /\ MatchTerm(n.log, m.snap.index, m.snap.term) ->
           AckIgnored([n EXCEPT !.log = CommitTo(@, m.snap.index)], m)
      [] OTHER -> AckIgnored(n, m)

LeaderTypes == {"Append", "Heartbeat", "Snapshot"}
FromLeader(n, m) ==
    CASE m.type = "Append" -> HandleAppendEntries(n, m)
      [] m.type = "Heartbeat" -> HandleHeartbeat(n, m)
      [] m.type = "Snapshot" -> HandleSnapshot(n, m)

\* A leader of this term is followed: step_follower, step_candidate.
Following(n, m) ==
    IF n.state = "Follower" THEN [n EXCEPT !.elapsed = 0, !.leader = m.from]
    ELSE BecomeFollower(n, m.term, m.from)

\* A proposal goes on to the leader, if one is known.
StepFollower(n, m) ==
    IF m.type = "Propose" /\ n.leader # 0 THEN Send(n, [m EXCEPT !.to = n.leader]) ELSE n

(***************************************************************************)
(* Candidates.                                                             *)
(***************************************************************************)
\* Commit information in vote messages; a campaign does not outlive a
\* configuration change that is learnt so.
HoldsConf(n, from) ==
    \E k \in from .. n.log.committed : IsConf(EntryAt(n.log, k))
AfterVoteCommit(n, from) ==
    IF n.state # "Follower" /\ HoldsConf(n, from) THEN BecomeFollower(n, n.term, 0) ELSE n
MaybeCommitByVote(n, m) ==
    IF m.commit = 0 \/ m.cterm = 0 \/ n.state = "Leader"
       \/ ~CanCommit(n.log, m.commit, m.cterm) THEN n
    ELSE AfterVoteCommit([n EXCEPT !.log = CommitTo(@, m.commit)], n.log.committed + 1)

\* An answer to the other kind of campaign is stale.
StepCandidate(n, m) ==
    CASE m.type = "RequestPreVoteResponse" /\ n.state = "PreCandidate" ->
           MaybeCommitByVote(PollPreCandidate(n, m.from, ~m.reject), m)
      [] m.type = "RequestVoteResponse" /\ n.state = "Candidate" ->
           MaybeCommitByVote(PollCandidate(n, m.from, ~m.reject), m)
      [] OTHER -> n

(***************************************************************************)
(* Leaders.                                                                *)
(***************************************************************************)
\* A configuration change that comes while another may be unapplied is replaced
\* by an empty entry; its context is lost with it.
Proposed(n, e) == IF IsConf(e) /\ HasPendingConf(n) THEN EmptyEntry ELSE e

AppendProposed(n, e) ==
    BcastAppend(AppendEntry(IF IsConf(e) THEN [n EXCEPT !.pconf = LastIndex(n.log) + 1] ELSE n,
                            <<e>>))
HandlePropose(n, m) ==
    IF n.id \notin DOMAIN n.prs THEN n ELSE AppendProposed(n, Proposed(n, m.ents[1]))

RejectedAppend(n, m) ==
    LET probe == IF m.logterm > 0 THEN FindConflictByTerm(n.log, m.hint, m.logterm)[1]
                 ELSE m.hint
        n1 == [n EXCEPT !.prs[m.from] = MaybeDecrTo(@, m.index, probe)]
    IN IF DecrApplies(n.prs[m.from], m.index) THEN SendAppend(n1, m.from) ELSE n1

Acked(p, i) ==
    CASE p.state = "Probe" -> BecomeReplicate(p)
      [] p.state = "Snapshot" -> IF IsSnapshotCaughtUp(p) THEN BecomeProbe(p) ELSE p
      [] p.state = "Replicate" -> FreeTo(p, i)

\* A commit is announced; a follower that was paused is at least sent to.
AfterAck(n, from, paused) ==
    CASE Commits(n) -> BcastAppend(MaybeCommit(n))
      [] ~Commits(n) /\ paused -> SendAppend(n, from)
      [] OTHER -> n

AcceptedAppend(n, m) ==
    LET old == n.prs[m.from]
        p == MaybeUpdate(old, m.index)
    IN IF ~UpdatesTo(old, m.index) THEN [n EXCEPT !.prs[m.from] = p]
       ELSE SendAppendAggressively(
              AfterAck([n EXCEPT !.prs[m.from] = Acked(p, m.index)], m.from, IsPaused(old)),
              m.from)

HandleAppendResponse(n, m) ==
    LET n1 == [n EXCEPT !.prs[m.from].active = TRUE]
    IN IF m.from \notin DOMAIN n.prs THEN n
       ELSE IF m.reject THEN RejectedAppend(n1, m) ELSE AcceptedAppend(n1, m)

\* One slot of a full window is freed, so that a lost answer cannot block it.
Resumed(p) == IF p.state = "Replicate" /\ Full(p) THEN FreeFirstOne(p) ELSE p
SendMissing_never(n, to) == n

SendMissing(n, to) ==
    IF n.prs[to].matched < LastIndex(n.log) THEN SendAppend(n, to) ELSE n
HandleHeartbeatResponse(n, m) ==
    IF m.from \notin DOMAIN n.prs THEN n
    ELSE SendMissing([n EXCEPT !.prs[m.from] =
                         Resumed([@ EXCEPT !.active = TRUE, !.paused = FALSE])], m.from)

HandleUnreachable(n, m) ==
    IF m.from \in DOMAIN n.prs /\ n.prs[m.from].state = "Replicate"
    THEN [n EXCEPT !.prs[m.from] = BecomeProbe(@)] ELSE n

StepLeader(n, m) ==
    CASE m.type = "Propose" -> HandlePropose(n, m)
      [] m.type = "AppendResponse" -> HandleAppendResponse(n, m)
      [] m.type = "HeartbeatResponse" -> HandleHeartbeatResponse(n, m)
      [] m.type = "Unreachable" -> HandleUnreachable(n, m)
      [] OTHER -> n

(***************************************************************************)
(* Raft::step.                                                             *)
(***************************************************************************)
\* A node that hears from a leader does not help to unseat it.
InLease(n) == n.leader # 0 /\ n.elapsed < ElectionTick

IgnoresVote(n, m) == m.type \in {"RequestVote", "RequestPreVote"} /\ InLease(n)

KeepsTerm(m) ==
    m.type = "RequestPreVote" \/ (m.type = "RequestPreVoteResponse" /\ ~m.reject)

AtTermOf(n, m) ==
    IF m.term <= n.term \/ KeepsTerm(m) THEN n
    ELSE BecomeFollower(n, m.term,
             IF m.type \in LeaderTypes THEN m.from ELSE 0)

\* A message of an old term: its sender learns the new one.
LowerTerm(n, m) ==
    CASE m.type \in {"Heartbeat", "Append"} -> Send(n, Message("AppendResponse", m.from))
      [] m.type = "RequestPreVote" ->
           Send(n, [Message("RequestPreVoteResponse", m.from) EXCEPT
                       !.term = n.term, !.reject = TRUE])
      [] OTHER -> n

ResponseType(m) == IF m.type = "RequestVote" THEN "RequestVoteResponse"
                   ELSE "RequestPreVoteResponse"

CanVote_again(n, m) == n.leader = 0 \/ (m.type = "RequestPreVote" /\ m.term > n.term)

CanVote(n, m) ==
    \/ n.vote = m.from
    \/ n.vote = 0 /\ n.leader = 0
    \/ m.type = "RequestPreVote" /\ m.term > n.term

HandleVote(n, m) ==
    LET granted == Send(n, [Message(ResponseType(m), m.from) EXCEPT !.term = m.term])
        refused == Send(n, [Message(ResponseType(m), m.from) EXCEPT
                               !.term = n.term, !.reject = TRUE,
                               !.commit = n.log.committed,
                               !.cterm = Term(n.log, n.log.committed)])
    IN IF CanVote(n, m) /\ IsUpToDate(n.log, m.index, m.logterm)
       THEN IF m.type = "RequestVote"
            THEN [granted EXCEPT !.elapsed = 0, !.vote = m.from] ELSE granted
       ELSE MaybeCommitByVote(refused, m)

Handle(n, m) ==
    LET vote == m.type \in {"RequestVote", "RequestPreVote"}
        leads == m.type \in LeaderTypes
    IN CASE vote -> HandleVote(n, m)
         [] ~vote /\ n.state = "Leader" -> StepLeader(n, m)
         [] leads /\ n.state # "Leader" -> FromLeader(Following(n, m), m)
         [] ~vote /\ ~leads /\ n.state = "Follower" -> StepFollower(n, m)
         [] OTHER -> StepCandidate(n, m)

\* A local message has term 0.
Step(n, m) ==
    CASE m.term > n.term /\ IgnoresVote(n, m) -> n
      [] m.term # 0 /\ m.term < n.term -> LowerTerm(n, m)
      [] OTHER -> Handle(AtTermOf(n, m), m)

\* RawNode::step: an answer of a node that is not tracked is not stepped.
RawStep(n, m) ==
    IF m.type \in ResponseTypes /\ m.from \notin DOMAIN n.prs THEN n ELSE Step(n, m)
=============================================================================
