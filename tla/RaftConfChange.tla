--------------------------- MODULE RaftConfChange ---------------------------
(***************************************************************************)
(* The configuration of a cluster as Raft::apply_conf_change moves it: a   *)
(* simple change of at most one voter, or into and out of a joint phase.   *)
(***************************************************************************)
EXTENDS RaftConf

CONSTANTS Ids,          \* the nodes that may take part
          MaxChanges    \* single changes in one ConfChangeV2

ASSUME ConfAssumption ==
    IsFiniteSet(Ids) /\ Ids \subseteq Nat \ {0} /\ MaxChanges \in Nat

VARIABLE cfg

ChangeTypes == {"AddNode", "AddLearnerNode", "RemoveNode"}
Changes == [type : ChangeTypes, id : Ids]
ChangeLists == UNION {[1 .. k -> Changes] : k \in 1 .. MaxChanges}

ConfInit == \E id \in Ids : cfg = MakeVoter(EmptyConfig, id)

\* apply_conf_change: an Err leaves the configuration as it is.
Become(c) == c # NoConfig /\ cfg' = c

ApplySimple == \E ccs \in ChangeLists : Become(Simple(cfg, ccs))
ApplyEnterJoint == \E ccs \in ChangeLists, auto \in BOOLEAN :
                      Become(EnterJoint(cfg, auto, ccs))
ApplyLeaveJoint == Become(LeaveJoint(cfg))

ConfNext == ApplySimple \/ ApplyEnterJoint \/ ApplyLeaveJoint
ConfSpec == ConfInit /\ [][ConfNext]_cfg

Quorums(c) == {q \in SUBSET c.prs : HasQuorum(c, q)}

\* Whatever change is applied, a quorum of the configuration before and one of
\* the configuration after share a node: a leader elected, or an entry
\* committed, under one is seen under the other.
QuorumsMeet ==
    [][\A p \in Quorums(cfg), q \in Quorums(cfg') : p \cap q # {}]_cfg

\* The ConfState written to a snapshot restores to the configuration it was
\* written from, progress entries included, so that the check on a restored
\* configuration never fails.
RestoresExactly == cfg.voters # {} => Restore(ToConfState(cfg)) = cfg
=============================================================================
