------------------------------ MODULE RaftConf ------------------------------
(***************************************************************************)
(* Quorums and configuration changes of raft-rs: majority and joint        *)
(* quorums, the Changer that computes the next configuration, and the      *)
(* restoration of a configuration from a ConfState.                        *)
(*                                                                         *)
(* A configuration is [voters, outgoing, learners, next, auto, prs]: the   *)
(* two halves of a joint quorum, the learners, the learners held back      *)
(* until the joint phase ends, the auto-leave flag and the ids that have a *)
(* progress entry.  An id is a positive number; 0 names no node.           *)
(***************************************************************************)
EXTENDS Integers, Sequences, Functions, FiniteSets

Majority(n) == (n \div 2) + 1

(***************************************************************************)
(* MajorityConfig: "yes" and "no" are the ids that voted so.               *)
(***************************************************************************)
MajorityWon(voters, yes) ==
    voters = {} \/ Cardinality(voters \cap yes) >= Majority(Cardinality(voters))
MajorityLost(voters, no) ==
    /\ voters # {}
    /\ Cardinality(voters \ no) < Majority(Cardinality(voters))

\* The largest index that a majority of the voters has reached.
MajorityCommitted(voters, acked) ==
    CHOOSE i \in {acked[v] : v \in voters} :
        /\ MajorityWon(voters, {v \in voters : acked[v] >= i})
        /\ \A j \in {acked[v] : v \in voters} :
              MajorityWon(voters, {v \in voters : acked[v] >= j}) => j <= i

(***************************************************************************)
(* JointConfig: both halves have to agree; an empty half always does.      *)
(***************************************************************************)
VoteWon(c, yes) == MajorityWon(c.voters, yes) /\ MajorityWon(c.outgoing, yes)
VoteLost(c, no) == MajorityLost(c.voters, no) \/ MajorityLost(c.outgoing, no)
HasQuorum(c, ids) == VoteWon(c, ids)

\* voters is never empty where this is called, outgoing may be.
CommittedIndex(c, acked) ==
    LET i == MajorityCommitted(c.voters, acked)
        o == MajorityCommitted(c.outgoing, acked)
    IN IF c.outgoing = {} \/ i < o THEN i ELSE o

VoterIds(c) == c.voters \cup c.outgoing
Joint(c) == c.outgoing # {}
(***************************************************************************)
(* Changer.  A result that is an Err of the code is NoConfig.              *)
(***************************************************************************)
EmptyConfig ==
    [voters |-> {}, outgoing |-> {}, learners |-> {}, next |-> {},
     auto |-> FALSE, prs |-> {}]
NoConfig == [EmptyConfig EXCEPT !.auto = TRUE]

\* ConfState: what a snapshot keeps of a configuration.
ToConfState(c) ==
    [voters |-> c.voters, outgoing |-> c.outgoing, learners |-> c.learners,
     next |-> c.next, auto |-> c.auto]

CheckInvariants(c) ==
    /\ VoterIds(c) \cup c.learners \cup c.next \subseteq c.prs
    /\ c.learners \cap VoterIds(c) = {}
    /\ c.next \subseteq c.outgoing
    /\ ~Joint(c) => c.next = {} /\ ~c.auto

InitProgress(c, id, learner) ==
    [c EXCEPT !.prs = @ \cup {id},
              !.voters = IF learner THEN @ ELSE @ \cup {id},
              !.learners = IF learner THEN @ \cup {id} ELSE @]

MakeVoter(c, id) ==
    IF id \notin c.prs THEN InitProgress(c, id, FALSE)
    ELSE [c EXCEPT !.voters = @ \cup {id}, !.learners = @ \ {id}, !.next = @ \ {id}]

\* A voter of the outgoing half becomes a learner only when the joint phase ends.
MakeLearner(c, id) ==
    IF id \notin c.prs THEN InitProgress(c, id, TRUE)
    ELSE IF id \in c.learners THEN c
    ELSE [c EXCEPT !.voters = @ \ {id},
                   !.next = IF id \in c.outgoing THEN @ \cup {id} ELSE @ \ {id},
                   !.learners = IF id \in c.outgoing THEN @ ELSE @ \cup {id}]

\* The progress of a voter of the outgoing half is kept.
RemoveNode(c, id) ==
    IF id \notin c.prs THEN c
    ELSE [c EXCEPT !.voters = @ \ {id}, !.learners = @ \ {id}, !.next = @ \ {id},
                   !.prs = IF id \in c.outgoing THEN @ ELSE @ \ {id}]

ApplyChange(c, cc) ==
    CASE cc.id = 0 -> c
      [] cc.id # 0 /\ cc.type = "AddNode" -> MakeVoter(c, cc.id)
      [] cc.id # 0 /\ cc.type = "AddLearnerNode" -> MakeLearner(c, cc.id)
      [] cc.id # 0 /\ cc.type = "RemoveNode" -> RemoveNode(c, cc.id)

ApplyChanges(c, ccs) ==
    LET After[k \in 0 .. Len(ccs)] ==
          IF k = 0 THEN c ELSE ApplyChange(After[k - 1], ccs[k])
    IN After[Len(ccs)]

\* Removing every voter and breaking an invariant are errors.
Accepted(c) == c.voters # {} /\ CheckInvariants(c)

OneApart_two(v, w) == Cardinality((v \ w) \cup (w \ v)) <= 2

OneApart(v, w) == Cardinality((v \ w) \cup (w \ v)) <= 1

Simple(c, ccs) ==
    LET r == ApplyChanges(c, ccs)
    IN IF ~Joint(c) /\ CheckInvariants(c) /\ OneApart(c.voters, r.voters) /\ Accepted(r)
       THEN r ELSE NoConfig

EnterJoint(c, auto, ccs) ==
    LET r == [ApplyChanges([c EXCEPT !.outgoing = c.voters], ccs) EXCEPT !.auto = auto]
    IN IF ~Joint(c) /\ CheckInvariants(c) /\ c.voters # {} /\ Accepted(r)
       THEN r ELSE NoConfig

\* Staged learners become learners; whoever is in neither half any more is
\* dropped.
LeaveJoint(c) ==
    LET learners == c.learners \cup c.next
        r == [c EXCEPT !.learners = learners, !.next = {}, !.outgoing = {},
                       !.auto = FALSE,
                       !.prs = @ \ {id \in c.outgoing : id \notin c.voters \cup learners}]
    IN IF Joint(c) /\ CheckInvariants(c) /\ CheckInvariants(r) THEN r ELSE NoConfig

(***************************************************************************)
(* restore: the ConfState is replayed as changes on an empty               *)
(* configuration, the outgoing voters first and one by one.                *)
(***************************************************************************)
Listing(ids) == CHOOSE e \in [1 .. Cardinality(ids) -> ids] : IsInjective(e)
ChangesOf(type, ids) ==
    [k \in 1 .. Cardinality(ids) |-> [type |-> type, id |-> Listing(ids)[k]]]

Outgoing(cs) == ChangesOf("AddNode", cs.outgoing)
Incoming_now(cs) ==
    ChangesOf("RemoveNode", cs.outgoing) \o ChangesOf("AddNode", cs.voters)
    \o ChangesOf("AddLearnerNode", cs.learners)

Incoming(cs) ==
    ChangesOf("RemoveNode", cs.outgoing) \o ChangesOf("AddNode", cs.voters)
    \o ChangesOf("AddLearnerNode", cs.learners) \o ChangesOf("AddLearnerNode", cs.next)

OneByOne(c, ccs) ==
    LET After[k \in 0 .. Len(ccs)] ==
          IF k = 0 THEN c
          ELSE IF After[k - 1] = NoConfig THEN NoConfig
          ELSE Simple(After[k - 1], <<ccs[k]>>)
    IN After[Len(ccs)]

Restore(cs) ==
    IF cs.outgoing = {} THEN OneByOne(EmptyConfig, Incoming(cs))
    ELSE LET c == OneByOne(EmptyConfig, Outgoing(cs))
         IN IF c = NoConfig THEN c ELSE EnterJoint(c, cs.auto, Incoming(cs))
=============================================================================
