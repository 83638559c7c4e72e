----------------------------- MODULE RaftProofs ------------------------------
(***************************************************************************)
(* Proofs about the configurations of raft-rs, for any finite set of nodes *)
(* and any length of a ConfChangeV2.                                       *)
(*                                                                         *)
(* ConfInv, every configuration that is reached is proper, is inductive;   *)
(* from it follows that quorums of consecutive configurations meet.  Facts *)
(* about lists of changes are proved by least counterexample: LeastNat     *)
(* gives the first position at which the claim would fail.                 *)
(***************************************************************************)
EXTENDS RaftConfChange, FiniteSetTheorems, WellFoundedInduction, TLAPS

Configs == [voters : SUBSET Ids, outgoing : SUBSET Ids, learners : SUBSET Ids,
            next : SUBSET Ids, auto : BOOLEAN, prs : SUBSET Ids]

\* Every nonempty set of naturals has a least element.
LEMMA LeastNat ==
  ASSUME NEW T \in SUBSET Nat, T # {}
  PROVE  \E x \in T : \A y \in T : x <= y
<1>1. PICK x \in T : \A y \in T : ~(<<y, x>> \in OpToRel(<, Nat))
  BY NatLessThanWellFounded, WFMin, Zenon
<1>2. \A y \in T : ~(y < x)
  BY <1>1, Zenon DEF OpToRel
<1>. QED  BY <1>2

\* f holds the intermediate configurations of ApplyChanges(c, ccs).
IsRun(f, c, ccs) ==
  f[0] = c /\ \A k \in 1 .. Len(ccs) : f[k] = ApplyChange(f[k - 1], ccs[k])

\* They exist, and the last one is the result.
LEMMA ChangesRun ==
  ASSUME NEW c, NEW ccs, Len(ccs) \in Nat
  PROVE  \E f : IsRun(f, c, ccs) /\ ApplyChanges(c, ccs) = f[Len(ccs)]
<1>. DEFINE Run(f, n) == f = [k \in 0 .. n |-> IF k = 0 THEN c ELSE ApplyChange(f[k - 1], ccs[k])]
            Bad == {n \in Nat : ~ \E f : Run(f, n)}
<1>. HIDE DEF Run
<1>1. Bad = {}
  <2>. SUFFICES ASSUME Bad # {} PROVE FALSE  OBVIOUS
  <2>1. PICK n \in Bad : \A m \in Bad : n <= m
    BY LeastNat, Zenon
  <2>2. n # 0
    <3>1. Run([k \in 0 .. 0 |-> c], 0)  BY DEF Run
    <3>. QED  BY <3>1, <2>1
  <2>3. PICK f : Run(f, n - 1)
    BY <2>1, <2>2, SMTT(30), Z3T(30)
  <2>. DEFINE g == [k \in 0 .. n |-> IF k < n THEN f[k] ELSE ApplyChange(f[n - 1], ccs[n])]
  <2>4. \A k \in 0 .. n : g[k] = IF k = 0 THEN c ELSE ApplyChange(g[k - 1], ccs[k])
    BY <2>2, <2>3, SMTT(30), Z3T(30) DEF Run
  <2>5. Run(g, n)
    BY <2>4, Zenon DEF Run
  <2>. QED  BY <2>5, <2>1
<1>. DEFINE h == CHOOSE f : Run(f, Len(ccs))
<1>2. Run(h, Len(ccs))
  BY <1>1
<1>3. ApplyChanges(c, ccs) = h[Len(ccs)]
  BY DEF ApplyChanges, Run
<1>. HIDE DEF h
<1>4. IsRun(h, c, ccs)
  BY <1>2 DEF IsRun, Run
<1>. QED  BY <1>3, <1>4

\* A configuration of which only the parts a single change touches differ.
Patch(c, v, n, l, p) ==
  [voters |-> v, outgoing |-> c.outgoing, learners |-> l, next |-> n, auto |-> c.auto, prs |-> p]

\* Such a configuration has its type, and keeps the outgoing half and the flag.
LEMMA Patched ==
  ASSUME NEW c \in Configs,
         NEW v \in SUBSET Ids, NEW n \in SUBSET Ids, NEW l \in SUBSET Ids, NEW p \in SUBSET Ids
  PROVE  /\ Patch(c, v, n, l, p) \in Configs
         /\ Patch(c, v, n, l, p).outgoing = c.outgoing
         /\ Patch(c, v, n, l, p).auto = c.auto
BY DEF Configs, Patch

\* A single change keeps the type of a configuration and its outgoing half
\* (Changer::make_voter, make_learner, remove).
LEMMA ChangeType ==
  ASSUME NEW c \in Configs, NEW cc \in Changes
  PROVE  /\ ApplyChange(c, cc) \in Configs
         /\ ApplyChange(c, cc).outgoing = c.outgoing
         /\ ApplyChange(c, cc).auto = c.auto
<1>. cc.id \in Ids /\ cc.id # 0 /\ cc.type \in ChangeTypes
  BY ConfAssumption DEF Changes
<1>. c.voters \in SUBSET Ids /\ c.next \in SUBSET Ids /\ c.learners \in SUBSET Ids /\ c.prs \in SUBSET Ids
  BY DEF Configs
<1>. DEFINE Plus(s) == s \cup {cc.id}
            Less(s) == s \ {cc.id}
            If(s, t) == IF cc.id \in c.outgoing THEN s ELSE t
<1>. \A s \in SUBSET Ids : Plus(s) \in SUBSET Ids /\ Less(s) \in SUBSET Ids
  OBVIOUS
<1>. \A s, t \in SUBSET Ids : If(s, t) \in SUBSET Ids
  OBVIOUS
<1>1. CASE cc.type = "AddNode"
  <2>1. ApplyChange(c, cc) = MakeVoter(c, cc.id)
    BY <1>1 DEF ApplyChange
  <2>2. CASE cc.id \notin c.prs
    <3>1. ApplyChange(c, cc) = Patch(c, Plus(c.voters), c.next, c.learners, Plus(c.prs))
      BY <2>1, <2>2, Zenon DEF MakeVoter, InitProgress, Configs, Patch
    <3>. HIDE DEF Plus, Less, If
    <3>. QED  BY <3>1, Patched
  <2>3. CASE cc.id \in c.prs
    <3>1. ApplyChange(c, cc) = Patch(c, Plus(c.voters), Less(c.next), Less(c.learners), c.prs)
      BY <2>1, <2>3, Zenon DEF MakeVoter, Configs, Patch
    <3>. HIDE DEF Plus, Less, If
    <3>. QED  BY <3>1, Patched
  <2>. QED  BY <2>2, <2>3
<1>2. CASE cc.type = "AddLearnerNode"
  <2>1. ApplyChange(c, cc) = MakeLearner(c, cc.id)
    BY <1>2 DEF ApplyChange
  <2>2. CASE cc.id \notin c.prs
    <3>1. ApplyChange(c, cc) = Patch(c, c.voters, c.next, Plus(c.learners), Plus(c.prs))
      BY <2>1, <2>2, Zenon DEF MakeLearner, InitProgress, Configs, Patch
    <3>. HIDE DEF Plus, Less, If
    <3>. QED  BY <3>1, Patched
  <2>3. CASE cc.id \in c.prs /\ cc.id \in c.learners
    <3>1. ApplyChange(c, cc) = Patch(c, c.voters, c.next, c.learners, c.prs)
      BY <2>1, <2>3, Zenon DEF MakeLearner, Configs, Patch
    <3>. HIDE DEF Plus, Less, If
    <3>. QED  BY <3>1, Patched
  <2>4. CASE cc.id \in c.prs /\ cc.id \notin c.learners
    <3>1. ApplyChange(c, cc) = Patch(c, Less(c.voters), If(Plus(c.next), Less(c.next)), If(c.learners, Plus(c.learners)), c.prs)
      BY <2>1, <2>4, Zenon DEF MakeLearner, Configs, Patch
    <3>. HIDE DEF Plus, Less, If
    <3>. QED  BY <3>1, Patched
  <2>. QED  BY <2>2, <2>3, <2>4, Zenon
<1>3. CASE cc.type = "RemoveNode"
  <2>1. ApplyChange(c, cc) = RemoveNode(c, cc.id)
    BY <1>3 DEF ApplyChange
  <2>2. CASE cc.id \notin c.prs
    <3>1. ApplyChange(c, cc) = Patch(c, c.voters, c.next, c.learners, c.prs)
      BY <2>1, <2>2, Zenon DEF RemoveNode, Configs, Patch
    <3>. HIDE DEF Plus, Less, If
    <3>. QED  BY <3>1, Patched
  <2>3. CASE cc.id \in c.prs
    <3>1. ApplyChange(c, cc) = Patch(c, Less(c.voters), Less(c.next), Less(c.learners), If(c.prs, Less(c.prs)))
      BY <2>1, <2>3, Zenon DEF RemoveNode, Configs, Patch
    <3>. HIDE DEF Plus, Less, If
    <3>. QED  BY <3>1, Patched
  <2>. QED  BY <2>2, <2>3
<1>. QED  BY <1>1, <1>2, <1>3 DEF ChangeTypes

\* So does a list of them: what EnterJoint made the outgoing half stays so.
LEMMA ChangesType ==
  ASSUME NEW c \in Configs, NEW ccs \in Seq(Changes)
  PROVE  /\ ApplyChanges(c, ccs) \in Configs
         /\ ApplyChanges(c, ccs).outgoing = c.outgoing
         /\ ApplyChanges(c, ccs).auto = c.auto
<1>1. PICK f : IsRun(f, c, ccs) /\ ApplyChanges(c, ccs) = f[Len(ccs)]
  <2>1. Len(ccs) \in Nat  OBVIOUS
  <2>. QED  BY <2>1, ChangesRun, Zenon
<1>. DEFINE Good(k) == f[k] \in Configs /\ f[k].outgoing = c.outgoing /\ f[k].auto = c.auto
            Bad == {k \in 0 .. Len(ccs) : ~Good(k)}
<1>. HIDE DEF Good
<1>2. Bad = {}
  <2>. SUFFICES ASSUME Bad # {} PROVE FALSE  OBVIOUS
  <2>1. PICK n \in Bad : \A m \in Bad : n <= m
    <3>1. Bad \in SUBSET Nat  OBVIOUS
    <3>. QED  BY <3>1, LeastNat, Zenon
  <2>2. n # 0
    BY <1>1, <2>1 DEF Good, IsRun
  <2>3. Good(n - 1)
    BY <2>1, <2>2
  <2>4. f[n] = ApplyChange(f[n - 1], ccs[n]) /\ ccs[n] \in Changes
    BY <1>1, <2>2, SMTT(30), Z3T(30) DEF IsRun
  <2>5. Good(n)
    <3>1. f[n - 1] \in Configs /\ f[n - 1].outgoing = c.outgoing /\ f[n - 1].auto = c.auto
      BY <2>3 DEF Good
    <3>2. f[n] \in Configs /\ f[n].outgoing = f[n - 1].outgoing /\ f[n].auto = f[n - 1].auto
      BY <2>4, <3>1, ChangeType, SMTT(30), Z3T(30)
    <3>. QED  BY <3>1, <3>2 DEF Good
  <2>. QED  BY <2>1, <2>5
<1>3. Good(Len(ccs))
  BY <1>2
<1>. QED  BY <1>1, <1>3 DEF Good

-----------------------------------------------------------------------------
(* Quorums *)

\* Two majorities of one set share a member (MajorityConfig::vote_result).
LEMMA MajoritiesMeet ==
  ASSUME NEW V, IsFiniteSet(V), V # {}, NEW p, NEW q, MajorityWon(V, p), MajorityWon(V, q)
  PROVE  p \cap q # {}
<1>1. Cardinality(V) \in Nat /\ Cardinality(V \cap p) \in Nat /\ Cardinality(V \cap q) \in Nat
  BY FS_CardinalityType, FS_Subset
<1>2. Cardinality(V \cap p) + Cardinality(V \cap q) > Cardinality(V)
  BY <1>1 DEF MajorityWon, Majority
<1>3. (V \cap p) \cap (V \cap q) # {}
  BY <1>2, FS_MajoritiesIntersect
<1>. QED  BY <1>3

\* So do a majority of a set and one of the set with one member more.
LEMMA GrownMajoritiesMeet ==
  ASSUME NEW V, IsFiniteSet(V), V # {}, NEW x, x \notin V,
         NEW p, NEW q, MajorityWon(V, p), MajorityWon(V \cup {x}, q)
  PROVE  p \cap q # {}
<1>. DEFINE W == V \cup {x}
<1>1. IsFiniteSet(W) /\ Cardinality(W) = Cardinality(V) + 1 /\ W # {}
  BY FS_AddElement
<1>2. /\ Cardinality(V) \in Nat /\ Cardinality(W) \in Nat
      /\ Cardinality(V \cap p) \in Nat /\ Cardinality(W \cap q) \in Nat
  BY <1>1, FS_CardinalityType, FS_Subset
<1>3. Cardinality(V \cap p) >= Majority(Cardinality(V)) /\ Cardinality(W \cap q) >= Majority(Cardinality(W))
  BY <1>1 DEF MajorityWon
<1>. HIDE DEF W
<1>4. Cardinality(V \cap p) + Cardinality(W \cap q) > Cardinality(W)
  BY <1>1, <1>2, <1>3 DEF Majority
<1>5. V \cap p \subseteq W /\ W \cap q \subseteq W
  BY DEF W
<1>6. (V \cap p) \cap (W \cap q) # {}
  BY <1>1, <1>4, <1>5, FS_MajoritiesIntersect
<1>. QED  BY <1>6

\* And majorities of two sets that differ in at most one member, which is what
\* Changer::simple lets pass (symmetric_difference ... > 1).
LEMMA NeighbourMajoritiesMeet ==
  ASSUME NEW V, NEW W, IsFiniteSet(V), IsFiniteSet(W), V # {}, W # {}, OneApart(V, W),
         NEW p, NEW q, MajorityWon(V, p), MajorityWon(W, q)
  PROVE  p \cap q # {}
<1>. DEFINE D == (V \ W) \cup (W \ V)
<1>1. IsFiniteSet(D) /\ Cardinality(D) \in Nat /\ Cardinality(D) <= 1
  BY FS_Difference, FS_Union, FS_CardinalityType, Zenon DEF OneApart
<1>2. CASE Cardinality(D) = 0
  <2>1. V = W
    BY <1>1, <1>2, FS_EmptySet
  <2>. QED  BY <2>1, MajoritiesMeet, Zenon
<1>3. CASE Cardinality(D) = 1
  <2>1. PICK x : D = {x}
    BY <1>1, <1>3, FS_Singleton, Zenon
  <2>2. CASE x \in V
    <3>1. V = W \cup {x} /\ x \notin W
      BY <2>1, <2>2
    <3>. QED  BY <3>1, GrownMajoritiesMeet
  <2>3. CASE x \notin V
    <3>1. W = V \cup {x} /\ x \notin V
      BY <2>1, <2>3
    <3>. QED  BY <3>1, GrownMajoritiesMeet
  <2>. QED  BY <2>2, <2>3
<1>. QED  BY <1>1, <1>2, <1>3, SMTT(30), Z3T(30)

-----------------------------------------------------------------------------
(* The configurations that are reached *)

\* Nothing has a progress entry but the members, and a learner held back does
\* not vote in the incoming half.
Tight(c) ==
  /\ c.prs \subseteq c.voters \cup c.outgoing \cup c.learners
  /\ c.next \subseteq c.prs \ c.voters

Proper(c) == c \in Configs /\ Accepted(c) /\ Tight(c)

ConfInv == Proper(cfg)

\* A single change keeps a configuration tight (Changer::apply).
LEMMA ChangeTight ==
  ASSUME NEW c \in Configs, NEW cc \in Changes, Tight(c)
  PROVE  Tight(ApplyChange(c, cc))
<1>. cc.id \in Ids /\ cc.id # 0 /\ cc.type \in ChangeTypes
  BY ConfAssumption DEF Changes
<1>1. CASE cc.type = "AddNode"
  <2>1. ApplyChange(c, cc) = MakeVoter(c, cc.id)
    BY <1>1 DEF ApplyChange
  <2>2. CASE cc.id \in c.prs
    BY <2>1, <2>2 DEF MakeVoter, Configs, Tight
  <2>3. CASE cc.id \notin c.prs
    BY <2>1, <2>3, SMTT(30), Z3T(30) DEF MakeVoter, InitProgress, Configs, Tight
  <2>. QED  BY <2>2, <2>3
<1>2. CASE cc.type = "AddLearnerNode"
  <2>1. ApplyChange(c, cc) = MakeLearner(c, cc.id)
    BY <1>2 DEF ApplyChange
  <2>. QED  BY <2>1 DEF MakeLearner, InitProgress, Configs, Tight
<1>3. CASE cc.type = "RemoveNode"
  <2>1. ApplyChange(c, cc) = RemoveNode(c, cc.id)
    BY <1>3 DEF ApplyChange
  <2>. QED  BY <2>1 DEF RemoveNode, Configs, Tight
<1>. QED  BY <1>1, <1>2, <1>3 DEF ChangeTypes

\* So does a list of changes (Changer::apply).
LEMMA ChangesTight ==
  ASSUME NEW c \in Configs, NEW ccs \in Seq(Changes), Tight(c)
  PROVE  Tight(ApplyChanges(c, ccs))
<1>1. PICK f : IsRun(f, c, ccs) /\ ApplyChanges(c, ccs) = f[Len(ccs)]
  <2>1. Len(ccs) \in Nat  OBVIOUS
  <2>. QED  BY <2>1, ChangesRun, Zenon
<1>. DEFINE Good(k) == f[k] \in Configs /\ Tight(f[k])
            Bad == {k \in 0 .. Len(ccs) : ~Good(k)}
<1>. HIDE DEF Good
<1>2. Bad = {}
  <2>. SUFFICES ASSUME Bad # {} PROVE FALSE  OBVIOUS
  <2>1. PICK n \in Bad : \A m \in Bad : n <= m
    <3>1. Bad \in SUBSET Nat  OBVIOUS
    <3>. QED  BY <3>1, LeastNat, Zenon
  <2>2. n # 0
    BY <1>1, <2>1 DEF Good, IsRun
  <2>3. Good(n - 1)
    BY <2>1, <2>2
  <2>4. f[n] = ApplyChange(f[n - 1], ccs[n]) /\ ccs[n] \in Changes
    BY <1>1, <2>2, SMTT(30), Z3T(30) DEF IsRun
  <2>5. Good(n)
    BY <2>3, <2>4, ChangeType, ChangeTight, Zenon DEF Good
  <2>. QED  BY <2>1, <2>5
<1>3. Good(Len(ccs))
  BY <1>2
<1>. QED  BY <1>1, <1>3 DEF Good

\* The lists a ConfChangeV2 holds are sequences of changes.
LEMMA ListsAreSequences == ChangeLists \subseteq Seq(Changes)
BY ConfAssumption DEF ChangeLists

\* A simple change that is accepted leaves a proper configuration, outside a
\* joint phase and at most one voter away (Changer::simple).
LEMMA SimpleProper ==
  ASSUME NEW c, Proper(c), NEW ccs \in Seq(Changes), Simple(c, ccs) # NoConfig
  PROVE  /\ Proper(Simple(c, ccs))
         /\ c.outgoing = {} /\ Simple(c, ccs).outgoing = {}
         /\ OneApart(c.voters, Simple(c, ccs).voters)
<1>. DEFINE r == ApplyChanges(c, ccs)
<1>1. r \in Configs /\ r.outgoing = c.outgoing /\ Tight(r)
  BY ChangesType, ChangesTight DEF Proper
<1>. HIDE DEF r
<1>2. Simple(c, ccs) = r /\ ~Joint(c) /\ OneApart(c.voters, r.voters) /\ Accepted(r)
  BY DEF Simple, r
<1>. QED  BY <1>1, <1>2 DEF Proper, Joint

\* Entering a joint phase keeps the old voters as the outgoing half
\* (Changer::enter_joint).
LEMMA EnterJointProper ==
  ASSUME NEW c, Proper(c), NEW ccs \in Seq(Changes), NEW auto \in BOOLEAN,
         EnterJoint(c, auto, ccs) # NoConfig
  PROVE  /\ Proper(EnterJoint(c, auto, ccs))
         /\ c.outgoing = {} /\ EnterJoint(c, auto, ccs).outgoing = c.voters
<1>. DEFINE d == [c EXCEPT !.outgoing = c.voters]
            s == ApplyChanges(d, ccs)
            r == [s EXCEPT !.auto = auto]
<1>0. EnterJoint(c, auto, ccs) = r /\ ~Joint(c) /\ CheckInvariants(c) /\ Accepted(r)
  BY DEF EnterJoint
<1>1. d \in Configs /\ d.outgoing = c.voters /\ d.prs = c.prs /\ d.voters = c.voters
      /\ d.learners = c.learners /\ d.next = c.next
  BY DEF Proper, Configs
<1>2. Tight(d)
  BY <1>0, <1>1, Zenon DEF Proper, Tight, Joint
<1>. HIDE DEF d
<1>3. s \in Configs /\ s.outgoing = c.voters /\ Tight(s)
  BY <1>1, <1>2, ChangesType, ChangesTight, Zenon
<1>. HIDE DEF s
<1>4. r \in Configs /\ r.outgoing = c.voters
  BY <1>3 DEF Configs
<1>5. Tight(r)
  BY <1>3, Zenon DEF Configs, Tight
<1>. HIDE DEF r
<1>. QED  BY <1>0, <1>4, <1>5 DEF Proper, Joint

\* Leaving it keeps the incoming voters (Changer::leave_joint).
LEMMA LeaveJointProper ==
  ASSUME NEW c, Proper(c), LeaveJoint(c) # NoConfig
  PROVE  /\ Proper(LeaveJoint(c))
         /\ LeaveJoint(c).voters = c.voters /\ LeaveJoint(c).outgoing = {}
<1>. DEFINE l == c.learners \cup c.next
            p == c.prs \ {id \in c.outgoing : id \notin c.voters \cup l}
            r == [c EXCEPT !.learners = l, !.next = {}, !.outgoing = {}, !.auto = FALSE, !.prs = p]
<1>1. LeaveJoint(c) = r /\ CheckInvariants(r) /\ c \in Configs /\ c.voters # {} /\ Tight(c)
  BY DEF LeaveJoint, Proper, Accepted
<1>2. l \in SUBSET Ids /\ p \in SUBSET Ids /\ p \subseteq c.voters \cup l
  BY <1>1 DEF Configs, Tight
<1>. HIDE DEF l, p
<1>3. r \in Configs
  BY <1>1, <1>2, Zenon DEF Configs
<1>4. r.voters = c.voters /\ r.outgoing = {} /\ r.next = {} /\ r.learners = l /\ r.prs = p
  BY <1>1 DEF Configs
<1>. HIDE DEF r
<1>. QED  BY <1>1, <1>2, <1>3, <1>4, Zenon DEF Proper, Accepted, Tight

\* A cluster of one voter is proper.
LEMMA ConfInitInv == ConfInit => ConfInv
<1>. SUFFICES ASSUME NEW id \in Ids, cfg = MakeVoter(EmptyConfig, id) PROVE ConfInv
  BY DEF ConfInit
<1>1. cfg = [voters |-> {id}, outgoing |-> {}, learners |-> {}, next |-> {}, auto |-> FALSE, prs |-> {id}]
  BY Zenon DEF MakeVoter, EmptyConfig, InitProgress
<1>2. cfg \in Configs
  BY <1>1 DEF Configs
<1>. QED  BY <1>1, <1>2 DEF ConfInv, Proper, Accepted, CheckInvariants, VoterIds, Joint, Tight

\* Every change that is applied leaves a proper configuration.
LEMMA ConfNextInv == ConfInv /\ [ConfNext]_cfg => ConfInv'
<1>. SUFFICES ASSUME ConfInv, [ConfNext]_cfg PROVE ConfInv'
  OBVIOUS
<1>1. CASE ApplySimple
  BY <1>1, ListsAreSequences, SimpleProper, Zenon DEF ApplySimple, Become, ConfInv
<1>2. CASE ApplyEnterJoint
  BY <1>2, ListsAreSequences, EnterJointProper, SMTT(30), Z3T(30) DEF ApplyEnterJoint, Become, ConfInv
<1>3. CASE ApplyLeaveJoint
  BY <1>3, LeaveJointProper DEF ApplyLeaveJoint, Become, ConfInv
<1>4. CASE UNCHANGED cfg
  BY <1>4 DEF ConfInv
<1>. QED  BY <1>1, <1>2, <1>3, <1>4, Zenon DEF ConfNext

\* Whatever changes are applied, in whatever order, the configuration keeps its
\* invariants (check_invariants), has a voter, and has a progress entry for its
\* members and for nobody else.
THEOREM ConfigsAreProper == ConfSpec => []ConfInv
<1>. QED  BY ConfInitInv, ConfNextInv, PTL DEF ConfSpec

\* Quorums of consecutive configurations share a node, for every set of nodes
\* and every list of changes (Changer::simple, enter_joint, leave_joint).
THEOREM ConsecutiveQuorumsMeet == ConfSpec => QuorumsMeet
<1>1. ConfInv /\ [ConfNext]_cfg => [\A p \in Quorums(cfg), q \in Quorums(cfg') : p \cap q # {}]_cfg
  <2>. SUFFICES ASSUME ConfInv, ConfNext, NEW p \in Quorums(cfg), NEW q \in Quorums(cfg')
                PROVE  p \cap q # {}
    OBVIOUS
  <2>1. Proper(cfg) /\ Proper(cfg')
    BY ConfNextInv, Zenon DEF ConfInv
  <2>2. /\ IsFiniteSet(cfg.voters) /\ cfg.voters # {}
        /\ IsFiniteSet(cfg'.voters) /\ cfg'.voters # {}
    BY <2>1, ConfAssumption, FS_Subset, Zenon DEF Proper, Configs, Accepted
  <2>3. /\ MajorityWon(cfg.voters, p)
        /\ MajorityWon(cfg'.voters, q) /\ MajorityWon(cfg'.outgoing, q)
    BY Zenon DEF Quorums, HasQuorum, VoteWon
  <2>4. CASE ApplySimple
    <3>1. OneApart(cfg.voters, cfg'.voters)
      BY <2>4, ListsAreSequences, SimpleProper, Zenon DEF ApplySimple, Become, ConfInv
    <3>. QED  BY <2>2, <2>3, <3>1, NeighbourMajoritiesMeet, Zenon
  <2>5. CASE ApplyEnterJoint
    <3>1. cfg'.outgoing = cfg.voters
      BY <2>5, ListsAreSequences, EnterJointProper, Zenon DEF ApplyEnterJoint, Become, ConfInv
    <3>. QED  BY <2>2, <2>3, <3>1, MajoritiesMeet, Zenon
  <2>6. CASE ApplyLeaveJoint
    <3>1. cfg'.voters = cfg.voters
      BY <2>6, LeaveJointProper, Zenon DEF ApplyLeaveJoint, Become, ConfInv
    <3>. QED  BY <2>2, <2>3, <3>1, MajoritiesMeet, Zenon
  <2>. QED  BY <2>4, <2>5, <2>6, Zenon DEF ConfNext
<1>. QED  BY <1>1, ConfigsAreProper, PTL DEF ConfSpec, QuorumsMeet

-----------------------------------------------------------------------------
(* A ConfState restores to the configuration it was written from           *)
(* (confchange::restore).  Lists of changes are first shown to do,         *)
(* whatever their order, what Applied says of the set of their ids; the    *)
(* replay is then computed part by part.                                   *)

(* What a list of changes of one type does, whatever its order *)

\* The ids of a set, one by one.
LEMMA Enumerated ==
  ASSUME NEW S \in SUBSET Ids
  PROVE  /\ Cardinality(S) \in Nat
         /\ Listing(S) \in [1 .. Cardinality(S) -> S]
         /\ \A j, k \in 1 .. Cardinality(S) : Listing(S)[j] = Listing(S)[k] => j = k
         /\ \A x \in S : \E k \in 1 .. Cardinality(S) : Listing(S)[k] = x
<1>. DEFINE n == Cardinality(S)
            e == Listing(S)
<1>1. IsFiniteSet(S) /\ n \in Nat /\ ExistsBijection(1 .. n, S)
  BY ConfAssumption, FS_Subset, FS_CardinalityType, Zenon
<1>2. \E f \in [1 .. n -> S] : IsInjective(f)
  BY <1>1 DEF ExistsBijection, Bijection, Injection
<1>3. e \in [1 .. n -> S] /\ IsInjective(e)
  BY <1>2 DEF Listing
<1>4. IsFiniteSet(1 .. n) /\ Cardinality(1 .. n) = n
  BY <1>1, FS_Interval
<1>5. e \in Injection(1 .. n, S)
  BY <1>3 DEF Injection
<1>6. e \in Surjection(1 .. n, S)
  BY <1>1, <1>4, <1>5, FS_Injection, Zenon
<1>. QED  BY <1>1, <1>3, <1>6, Zenon DEF IsInjective, Surjection

\* The replayed changes of one type name the ids of the set, in the order of
\* its enumeration.
LEMMA ChangesOfList ==
  ASSUME NEW S \in SUBSET Ids, NEW t \in ChangeTypes
  PROVE  /\ ChangesOf(t, S) \in Seq(Changes)
         /\ Len(ChangesOf(t, S)) = Cardinality(S)
         /\ \A k \in 1 .. Cardinality(S) : /\ ChangesOf(t, S)[k].type = t
                                           /\ ChangesOf(t, S)[k].id = Listing(S)[k]
<1>1. \A k \in 1 .. Cardinality(S) : [type |-> t, id |-> Listing(S)[k]] \in Changes
  BY Enumerated DEF Changes
<1>. QED  BY <1>1, Enumerated, SMTT(30), Z3T(30) DEF ChangesOf

\* Members have a progress entry, learners do not vote, and learners held back
\* are outgoing voters.
Listed(c) ==
  /\ VoterIds(c) \cup c.learners \cup c.next \subseteq c.prs
  /\ c.learners \cap VoterIds(c) = {}
  /\ c.next \subseteq c.outgoing

\* The changes of type t for the ids S, all at once.
Applied(t, c, S) ==
  IF t = "AddNode" THEN Patch(c, c.voters \cup S, c.next \ S, c.learners \ S, c.prs \cup S)
  ELSE IF t = "AddLearnerNode"
       THEN Patch(c, c.voters \ S, (c.next \ S) \cup (S \cap c.outgoing),
                  c.learners \cup (S \ c.outgoing), c.prs \cup S)
  ELSE Patch(c, c.voters \ S, c.next \ S, c.learners \ S, c.prs \ (S \ c.outgoing))

\* Two configurations with the same parts are the same.
LEMMA SameConfig ==
  ASSUME NEW c \in Configs, NEW d \in Configs,
         c.voters = d.voters, c.outgoing = d.outgoing, c.learners = d.learners,
         c.next = d.next, c.auto = d.auto, c.prs = d.prs
  PROVE  c = d
BY SMTT(30), Z3T(30) DEF Configs

\* The result has its type.
LEMMA AppliedType ==
  ASSUME NEW c \in Configs, NEW S \in SUBSET Ids, NEW t
  PROVE  Applied(t, c, S) \in Configs
<1>. c.voters \in SUBSET Ids /\ c.next \in SUBSET Ids /\ c.learners \in SUBSET Ids /\ c.prs \in SUBSET Ids
  BY DEF Configs
<1>1. Patch(c, c.voters \cup S, c.next \ S, c.learners \ S, c.prs \cup S) \in Configs
  BY DEF Patch, Configs
<1>2. Patch(c, c.voters \ S, (c.next \ S) \cup (S \cap c.outgoing),
            c.learners \cup (S \ c.outgoing), c.prs \cup S) \in Configs
  BY DEF Patch, Configs
<1>3. Patch(c, c.voters \ S, c.next \ S, c.learners \ S, c.prs \ (S \ c.outgoing)) \in Configs
  BY DEF Patch, Configs
<1>. QED  BY <1>1, <1>2, <1>3, Zenon DEF Applied

\* The result is listed again.
LEMMA AppliedListed ==
  ASSUME NEW c \in Configs, Listed(c), NEW S \in SUBSET Ids, NEW t
  PROVE  Listed(Applied(t, c, S))
<1>1. CASE t = "AddNode"
  BY <1>1, Zenon DEF Applied, Patch, Listed, VoterIds
<1>2. CASE t = "AddLearnerNode"
  BY <1>2, Zenon DEF Applied, Patch, Listed, VoterIds
<1>3. CASE t \notin {"AddNode", "AddLearnerNode"}
  BY <1>3 DEF Applied, Patch, Listed, VoterIds
<1>. QED  BY <1>1, <1>2, <1>3, Zenon

\* No ids, no change.
LEMMA AppliedNone ==
  ASSUME NEW c \in Configs, NEW t
  PROVE  Applied(t, c, {}) = c
<1>1. Applied(t, c, {}) \in Configs
  BY AppliedType, Zenon
<1>2. /\ Applied(t, c, {}).voters = c.voters /\ Applied(t, c, {}).outgoing = c.outgoing
      /\ Applied(t, c, {}).learners = c.learners /\ Applied(t, c, {}).next = c.next
      /\ Applied(t, c, {}).auto = c.auto /\ Applied(t, c, {}).prs = c.prs
  BY Zenon DEF Applied, Patch, Configs
<1>. QED  BY <1>1, <1>2, SameConfig

\* On a listed configuration a single change does what Applied says.
LEMMA AppliedOne ==
  ASSUME NEW c \in Configs, Listed(c), NEW cc \in Changes
  PROVE  ApplyChange(c, cc) = Applied(cc.type, c, {cc.id})
<1>. cc.id \in Ids /\ cc.id # 0 /\ cc.type \in ChangeTypes
  BY ConfAssumption, Zenon DEF Changes
<1>. DEFINE d == ApplyChange(c, cc)
            e == Applied(cc.type, c, {cc.id})
<1>1. d \in Configs /\ e \in Configs /\ d.outgoing = c.outgoing /\ d.auto = c.auto
  BY ChangeType, AppliedType, Zenon
<1>2. e.outgoing = c.outgoing /\ e.auto = c.auto
  BY Zenon DEF Applied, Patch
<1>3. d.voters = e.voters /\ d.next = e.next /\ d.learners = e.learners /\ d.prs = e.prs
  <2>1. CASE cc.type = "AddNode"
    <3>1. d = MakeVoter(c, cc.id)
      BY <2>1 DEF ApplyChange
    <3>2. CASE cc.id \in c.prs
      BY <2>1, <3>1, <3>2, SMTT(30), Z3T(30) DEF MakeVoter, Configs, Applied, Patch
    <3>3. CASE cc.id \notin c.prs
      BY <2>1, <3>1, <3>3, SMTT(30), Z3T(30) DEF MakeVoter, InitProgress, Configs, Applied, Patch, Listed, VoterIds
    <3>. QED  BY <3>2, <3>3
  <2>2. CASE cc.type = "AddLearnerNode"
    <3>1. d = MakeLearner(c, cc.id)
      BY <2>2 DEF ApplyChange
    <3>2. CASE cc.id \notin c.prs
      BY <2>2, <3>1, <3>2, SMTT(30), Z3T(30) DEF MakeLearner, InitProgress, Configs, Applied, Patch, Listed, VoterIds
    <3>3. CASE cc.id \in c.prs /\ cc.id \in c.learners
      BY <2>2, <3>1, <3>3, ZenonT(60) DEF MakeLearner, Configs, Applied, Patch, Listed, VoterIds
    <3>4. CASE cc.id \in c.prs /\ cc.id \notin c.learners
      BY <2>2, <3>1, <3>4, SMTT(30), Z3T(30) DEF MakeLearner, Configs, Applied, Patch, Listed, VoterIds
    <3>. QED  BY <3>2, <3>3, <3>4, Zenon
  <2>3. CASE cc.type = "RemoveNode"
    <3>1. d = RemoveNode(c, cc.id)
      BY <2>3, Zenon DEF ApplyChange
    <3>. QED  BY <2>3, <3>1 DEF RemoveNode, Configs, Applied, Patch, Listed, VoterIds
  <2>. QED  BY <2>1, <2>2, <2>3, Zenon DEF ChangeTypes
<1>. HIDE DEF d, e
<1>4. d = e
  BY <1>1, <1>2, <1>3, SameConfig, Zenon
<1>. QED  BY <1>4 DEF d, e

\* One more id, applied after the others.
LEMMA AppliedMore ==
  ASSUME NEW c \in Configs, NEW S \in SUBSET Ids, NEW i \in Ids, NEW t
  PROVE  Applied(t, Applied(t, c, S), {i}) = Applied(t, c, S \cup {i})
<1>. DEFINE d == Applied(t, Applied(t, c, S), {i})
            e == Applied(t, c, S \cup {i})
<1>1. d \in Configs /\ e \in Configs
  BY AppliedType, Zenon
<1>2. /\ d.voters = e.voters /\ d.outgoing = e.outgoing /\ d.learners = e.learners
      /\ d.next = e.next /\ d.auto = e.auto /\ d.prs = e.prs
  <2>1. CASE t = "AddNode"
    BY <2>1, Zenon DEF Applied, Patch
  <2>2. CASE t = "AddLearnerNode"
    BY <2>2, Zenon DEF Applied, Patch
  <2>3. CASE t \notin {"AddNode", "AddLearnerNode"}
    BY <2>3, ZenonT(60) DEF Applied, Patch
  <2>. QED  BY <2>1, <2>2, <2>3, Zenon
<1>. HIDE DEF d, e
<1>3. d = e
  BY <1>1, <1>2, SameConfig, Zenon
<1>. QED  BY <1>3, Zenon DEF d, e

\* The changes of one type for a set of ids, in any order, come to this.
LEMMA ApplyChangesOf ==
  ASSUME NEW c \in Configs, Listed(c), NEW S \in SUBSET Ids, NEW t \in ChangeTypes
  PROVE  ApplyChanges(c, ChangesOf(t, S)) = Applied(t, c, S)
<1>. DEFINE ccs == ChangesOf(t, S)
            n == Cardinality(S)
            e == Listing(S)
            Upto(k) == {e[j] : j \in 1 .. k}
<1>1. /\ n \in Nat /\ e \in [1 .. n -> S] /\ \A x \in S : \E k \in 1 .. n : e[k] = x
  BY Enumerated
<1>2. /\ ccs \in Seq(Changes) /\ Len(ccs) = n
      /\ \A k \in 1 .. n : ccs[k].type = t /\ ccs[k].id = e[k]
  BY ChangesOfList, Zenon
<1>. HIDE DEF ccs, n, e
<1>3. PICK f : IsRun(f, c, ccs) /\ ApplyChanges(c, ccs) = f[Len(ccs)]
  <2>1. Len(ccs) \in Nat  BY <1>1, <1>2
  <2>. QED  BY <2>1, ChangesRun, Zenon
<1>. DEFINE Good(k) == f[k] = Applied(t, c, Upto(k))
            Bad == {k \in 0 .. n : ~Good(k)}
<1>4. \A k \in 0 .. n : Upto(k) \in SUBSET Ids
  BY <1>1, SMTT(30), Z3T(30)
<1>5. Bad = {}
  <2>. SUFFICES ASSUME Bad # {} PROVE FALSE  BY Zenon
  <2>1. PICK k \in Bad : \A m \in Bad : k <= m
    <3>1. Bad \in SUBSET Nat  BY <1>1, SMTT(30), Z3T(30)
    <3>. HIDE DEF Bad
    <3>. QED  BY <3>1, LeastNat, Zenon
  <2>2. k # 0
    <3>1. Upto(0) = {}  BY SMTT(30), Z3T(30)
    <3>2. f[0] = c  BY <1>3, Zenon DEF IsRun
    <3>3. Good(0)  BY <3>1, <3>2, AppliedNone, Zenon
    <3>. QED  BY <2>1, <3>3, Zenon
  <2>3. k - 1 \in 0 .. n /\ k \in 1 .. n /\ Good(k - 1)
    BY <1>1, <2>1, <2>2, SMTT(30), Z3T(30)
  <2>4. Upto(k) = Upto(k - 1) \cup {e[k]} /\ e[k] \in Ids
    BY <1>1, <2>3
  <2>. DEFINE b == Applied(t, c, Upto(k - 1))
  <2>5. b \in Configs /\ Listed(b)
    BY <1>4, <2>3, AppliedType, AppliedListed, Zenon
  <2>6. f[k] = ApplyChange(b, ccs[k]) /\ ccs[k] \in Changes /\ ccs[k].type = t /\ ccs[k].id = e[k]
    BY <1>2, <1>3, <2>2, <2>3, SMTT(30), Z3T(30) DEF IsRun
  <2>. HIDE DEF b
  <2>7. f[k] = Applied(t, b, {e[k]})
    BY <2>5, <2>6, AppliedOne, Zenon
  <2>8. Applied(t, b, {e[k]}) = Applied(t, c, Upto(k))
    <3>. HIDE DEF Upto
    <3>. QED  BY <1>4, <2>3, <2>4, AppliedMore, SMTT(30), Z3T(30) DEF b
  <2>. QED  BY <2>1, <2>7, <2>8
<1>6. Upto(n) = S
  BY <1>1, Zenon
<1>7. f[n] = Applied(t, c, S)
  <2>. HIDE DEF Good
  <2>1. Good(n)  BY <1>1, <1>5, SMTT(30), Z3T(30)
  <2>. QED  BY <1>6, <2>1, Zenon DEF Good
<1>. QED  BY <1>2, <1>3, <1>7, Zenon DEF ccs

\* Two runs over the same changes agree.
Parallel(n, f, g, s, u) ==
  /\ f[0] = g[0]
  /\ \A k \in 1 .. n : /\ f[k] = ApplyChange(f[k - 1], s[k])
                        /\ g[k] = ApplyChange(g[k - 1], u[k])
                        /\ s[k] = u[k]

\* They end in the same configuration.
LEMMA RunsAgree ==
  ASSUME NEW n \in Nat, NEW f, NEW g, NEW s, NEW u, Parallel(n, f, g, s, u)
  PROVE  f[n] = g[n]
<1>. DEFINE Bad == {k \in 0 .. n : f[k] # g[k]}
<1>1. Bad = {}
  <2>. SUFFICES ASSUME Bad # {} PROVE FALSE  OBVIOUS
  <2>1. PICK k \in Bad : \A m \in Bad : k <= m
    <3>1. Bad \in SUBSET Nat  OBVIOUS
    <3>. HIDE DEF Bad
    <3>. QED  BY <3>1, LeastNat, Zenon
  <2>2. k \in 1 .. n /\ k - 1 \in 0 .. n
    BY <2>1, SMTT(30), Z3T(30) DEF Parallel
  <2>3. f[k - 1] = g[k - 1]
    BY <2>1, <2>2, SMTT(30), Z3T(30)
  <2>. QED  BY <2>1, <2>2, <2>3, Zenon DEF Parallel
<1>. QED  BY <1>1, SMTT(30), Z3T(30)

\* Applying two lists in a row is applying the one after the other.
LEMMA ApplyConcat ==
  ASSUME NEW c, NEW s \in Seq(Changes), NEW u \in Seq(Changes)
  PROVE  ApplyChanges(c, s \o u) = ApplyChanges(ApplyChanges(c, s), u)
<1>. DEFINE v == s \o u
            d == ApplyChanges(c, s)
<1>1. /\ v \in Seq(Changes) /\ Len(s) \in Nat /\ Len(u) \in Nat /\ Len(v) = Len(s) + Len(u)
      /\ \A k \in 1 .. Len(s) : v[k] = s[k]
      /\ \A k \in 1 .. Len(u) : v[Len(s) + k] = u[k]
  OBVIOUS
<1>. HIDE DEF v, d
<1>2. PICK f : IsRun(f, c, v) /\ ApplyChanges(c, v) = f[Len(v)]
  <2>1. Len(v) \in Nat  BY <1>1
  <2>. QED  BY <2>1, ChangesRun, Zenon
<1>3. PICK g : IsRun(g, c, s) /\ ApplyChanges(c, s) = g[Len(s)]
  BY <1>1, ChangesRun, Zenon
<1>4. PICK h : IsRun(h, d, u) /\ ApplyChanges(d, u) = h[Len(u)]
  BY <1>1, ChangesRun, Zenon
<1>5. f[Len(s)] = d
  <2>1. f[0] = g[0]
    BY <1>2, <1>3, Zenon DEF IsRun
  <2>2. \A k \in 1 .. Len(s) : /\ f[k] = ApplyChange(f[k - 1], v[k])
                               /\ g[k] = ApplyChange(g[k - 1], s[k])
                               /\ v[k] = s[k]
    <3>1. \A k \in 1 .. Len(s) : k \in 1 .. Len(v)
      BY <1>1, SMTT(30), Z3T(30)
    <3>2. \A k \in 1 .. Len(v) : f[k] = ApplyChange(f[k - 1], v[k])
      BY <1>2, Zenon DEF IsRun
    <3>3. \A k \in 1 .. Len(s) : g[k] = ApplyChange(g[k - 1], s[k])
      BY <1>3, Zenon DEF IsRun
    <3>. QED  BY <1>1, <3>1, <3>2, <3>3, Zenon
  <2>3. f[Len(s)] = g[Len(s)]
    <3>1. Parallel(Len(s), f, g, v, s)  BY <2>1, <2>2, Zenon DEF Parallel
    <3>. QED  BY <1>1, <3>1, RunsAgree, Zenon
  <2>. QED  BY <1>3, <2>3, Zenon DEF d
<1>. DEFINE r == [k \in 0 .. Len(u) |-> f[Len(s) + k]]
            w == [k \in 1 .. Len(u) |-> v[Len(s) + k]]
<1>6. r[0] = h[0]
  BY <1>1, <1>4, <1>5, SMTT(30), Z3T(30) DEF IsRun
<1>7. \A k \in 1 .. Len(u) : /\ r[k] = ApplyChange(r[k - 1], w[k])
                             /\ h[k] = ApplyChange(h[k - 1], u[k])
                             /\ w[k] = u[k]
  <2>. SUFFICES ASSUME NEW k \in 1 .. Len(u)
                PROVE  /\ r[k] = ApplyChange(r[k - 1], w[k])
                       /\ h[k] = ApplyChange(h[k - 1], u[k])
                       /\ w[k] = u[k]
    BY Zenon
  <2>1. f[Len(s) + k] = ApplyChange(f[Len(s) + k - 1], v[Len(s) + k])
    BY <1>1, <1>2, SMTT(30), Z3T(30) DEF IsRun
  <2>2. r[k] = f[Len(s) + k] /\ r[k - 1] = f[Len(s) + k - 1] /\ w[k] = v[Len(s) + k]
    BY <1>1, SMTT(30), Z3T(30)
  <2>. QED  BY <1>1, <1>4, <2>1, <2>2, Zenon DEF IsRun
<1>. HIDE DEF r, w
<1>8. r[Len(u)] = h[Len(u)]
  <2>1. Parallel(Len(u), r, h, w, u)  BY <1>6, <1>7, Zenon DEF Parallel
  <2>. QED  BY <1>1, <2>1, RunsAgree, Zenon
<1>9. r[Len(u)] = f[Len(v)]
  BY <1>1, SMTT(30), Z3T(30) DEF r
<1>. QED  BY <1>2, <1>4, <1>8, <1>9, Zenon DEF v, d

-----------------------------------------------------------------------------
(* Changes applied one by one (confchange::restore) *)

OneMore(r, cc) == IF r = NoConfig THEN NoConfig ELSE Simple(r, <<cc>>)

IsWalk(f, c, ccs) ==
  f[0] = c /\ \A k \in 1 .. Len(ccs) : f[k] = OneMore(f[k - 1], ccs[k])

\* The configurations on the way exist, and the last one is the result.
LEMMA OneByOneWalk ==
  ASSUME NEW c, NEW ccs, Len(ccs) \in Nat
  PROVE  \E f : IsWalk(f, c, ccs) /\ OneByOne(c, ccs) = f[Len(ccs)]
<1>. DEFINE Run(f, n) == f = [k \in 0 .. n |-> IF k = 0 THEN c ELSE OneMore(f[k - 1], ccs[k])]
            Bad == {n \in Nat : ~ \E f : Run(f, n)}
<1>. HIDE DEF Run
<1>1. Bad = {}
  <2>. SUFFICES ASSUME Bad # {} PROVE FALSE  OBVIOUS
  <2>1. PICK n \in Bad : \A m \in Bad : n <= m
    BY LeastNat, Zenon
  <2>2. n # 0
    <3>1. Run([k \in 0 .. 0 |-> c], 0)  BY DEF Run
    <3>. QED  BY <3>1, <2>1, Zenon
  <2>3. PICK f : Run(f, n - 1)
    BY <2>1, <2>2, SMTT(30), Z3T(30)
  <2>. DEFINE g == [k \in 0 .. n |-> IF k < n THEN f[k] ELSE OneMore(f[n - 1], ccs[n])]
  <2>4. \A k \in 0 .. n : g[k] = IF k = 0 THEN c ELSE OneMore(g[k - 1], ccs[k])
    BY <2>2, <2>3, SMTT(30), Z3T(30) DEF Run
  <2>5. Run(g, n)
    BY <2>4, Zenon DEF Run
  <2>. QED  BY <2>5, <2>1, Zenon
<1>. DEFINE h == CHOOSE f : Run(f, Len(ccs))
<1>2. Run(h, Len(ccs))
  BY <1>1
<1>3. OneByOne(c, ccs) = h[Len(ccs)]
  BY DEF OneByOne, Run, OneMore
<1>. HIDE DEF h
<1>4. IsWalk(h, c, ccs)
  BY <1>2, SMTT(30), Z3T(30) DEF IsWalk, Run
<1>. QED  BY <1>3, <1>4, Zenon

\* A configuration that is in no joint phase.
Plain(V, L) ==
  [voters |-> V, outgoing |-> {}, learners |-> L, next |-> {}, auto |-> FALSE, prs |-> V \cup L]

\* It is a configuration, no error, and passes check_invariants.
LEMMA PlainConfig ==
  ASSUME NEW V \in SUBSET Ids, NEW L \in SUBSET Ids
  PROVE  /\ Plain(V, L) \in Configs
         /\ Plain(V, L) # NoConfig
         /\ V \cap L = {} => CheckInvariants(Plain(V, L)) /\ ~Joint(Plain(V, L)) /\ Listed(Plain(V, L))
<1>1. Plain(V, L) \in Configs
  BY DEF Plain, Configs
<1>2. Plain(V, L).auto = FALSE /\ NoConfig.auto = TRUE
  BY Zenon DEF Plain, NoConfig, EmptyConfig
<1>3. V \cap L = {} => CheckInvariants(Plain(V, L)) /\ ~Joint(Plain(V, L)) /\ Listed(Plain(V, L))
  BY Zenon DEF Plain, CheckInvariants, Joint, VoterIds, Listed
<1>. QED  BY <1>1, <1>2, <1>3, Zenon

\* A list of one change.
LEMMA ApplySingle ==
  ASSUME NEW c, NEW cc
  PROVE  ApplyChanges(c, <<cc>>) = ApplyChange(c, cc)
<1>1. Len(<<cc>>) = 1 /\ <<cc>>[1] = cc
  BY Zenon
<1>2. PICK f : IsRun(f, c, <<cc>>) /\ ApplyChanges(c, <<cc>>) = f[Len(<<cc>>)]
  BY <1>1, ChangesRun, Zenon
<1>. QED  BY <1>1, <1>2, SMTT(30), Z3T(30) DEF IsRun

\* A new voter, or a new learner once there is a voter, is let in.
Grown(V, L, cc) ==
  IF cc.type = "AddNode" THEN Plain(V \cup {cc.id}, L) ELSE Plain(V, L \cup {cc.id})

\* The step that lets it in succeeds (Changer::simple on one change).
LEMMA PlainStep ==
  ASSUME NEW V \in SUBSET Ids, NEW L \in SUBSET Ids, V \cap L = {},
         NEW cc \in Changes, cc.id \notin V \cup L,
         cc.type = "AddNode" \/ (cc.type = "AddLearnerNode" /\ V # {})
  PROVE  OneMore(Plain(V, L), cc) = Grown(V, L, cc)
<1>. DEFINE c == Plain(V, L)
            W == IF cc.type = "AddNode" THEN V \cup {cc.id} ELSE V
            M == IF cc.type = "AddNode" THEN L ELSE L \cup {cc.id}
            r == ApplyChange(c, cc)
<1>0. cc.id \in Ids /\ cc.type \in ChangeTypes
  BY Zenon DEF Changes
<1>1. W \in SUBSET Ids /\ M \in SUBSET Ids /\ W \cap M = {} /\ W # {}
  BY <1>0, Zenon
<1>2. r = Plain(W, M)
  <2>1. r = Applied(cc.type, c, {cc.id})
    BY AppliedOne, PlainConfig, Zenon
  <2>2. /\ c.voters = V /\ c.outgoing = {} /\ c.learners = L /\ c.next = {} /\ c.auto = FALSE
        /\ c.prs = V \cup L
    BY Zenon DEF Plain
  <2>. HIDE DEF c, r
  <2>. DEFINE S == {cc.id}
              P == (V \cup L) \cup S
  <2>3. /\ L \ S = L /\ V \ S = V /\ {} \ S = {} /\ ({} \ S) \cup (S \cap {}) = {} /\ S \ {} = S
        /\ (V \cup S) \cup L = P /\ V \cup (L \cup S) = P
    BY Zenon
  <2>4. CASE cc.type = "AddNode"
    <3>1. r = Patch(c, V \cup S, {} \ S, L \ S, P)
      BY <2>1, <2>2, <2>4, Zenon DEF Applied
    <3>2. r = Patch(c, V \cup S, {}, L, P)
      BY <2>3, <3>1
    <3>3. Plain(W, M) = Patch(c, V \cup S, {}, L, P)
      BY <2>2, <2>3, <2>4, ZenonT(60) DEF Patch, Plain
    <3>. QED  BY <3>2, <3>3, Zenon
  <2>5. CASE cc.type = "AddLearnerNode"
    <3>1. r = Patch(c, V \ S, ({} \ S) \cup (S \cap {}), L \cup (S \ {}), P)
      BY <2>1, <2>2, <2>5, Zenon DEF Applied
    <3>2. r = Patch(c, V, {}, L \cup S, P)
      BY <2>3, <3>1
    <3>3. Plain(W, M) = Patch(c, V, {}, L \cup S, P)
      BY <2>2, <2>3, <2>5, Zenon DEF Patch, Plain
    <3>. QED  BY <3>2, <3>3, Zenon
  <2>. QED  BY <2>4, <2>5, Zenon
<1>3. OneApart(c.voters, r.voters)
  <2>. HIDE DEF r, W, M
  <2>1. c.voters = V /\ r.voters = W
    BY <1>2, Zenon DEF Plain
  <2>. USE DEF W
  <2>. DEFINE D == (V \ W) \cup (W \ V)
  <2>2. D = {} \/ D = {cc.id}
    OBVIOUS
  <2>. HIDE DEF D
  <2>3. Cardinality(D) <= 1
    <3>1. Cardinality({}) = 0 /\ Cardinality({cc.id}) = 1
      BY FS_EmptySet, FS_Singleton, Zenon
    <3>. QED  BY <2>2, <3>1
  <2>. QED  BY <2>1, <2>3, Zenon DEF OneApart, D
<1>4. Accepted(r)
  <2>. HIDE DEF r, W, M
  <2>1. r.voters = W
    BY <1>2, Zenon DEF Plain
  <2>2. CheckInvariants(r)
    BY <1>1, <1>2, PlainConfig, Zenon
  <2>. QED  BY <1>1, <2>1, <2>2, Zenon DEF Accepted
<1>5. c # NoConfig /\ ~Joint(c) /\ CheckInvariants(c)
  BY PlainConfig, Zenon
<1>. HIDE DEF c, r
<1>6. Simple(c, <<cc>>) = r
  BY <1>3, <1>4, <1>5, ApplySingle, Zenon DEF Simple, r
<1>. QED  BY <1>2, <1>5, <1>6, Zenon DEF OneMore, c, Grown

\* New voters and learners, a voter first, are let in one by one.
LEMMA OneByOnePlain ==
  ASSUME NEW ccs \in Seq(Changes), Len(ccs) > 0, ccs[1].type = "AddNode",
         \A k \in 1 .. Len(ccs) : ccs[k].type \in {"AddNode", "AddLearnerNode"},
         \A j, k \in 1 .. Len(ccs) : ccs[j].id = ccs[k].id => j = k
  PROVE  OneByOne(EmptyConfig, ccs) =
           Plain({x \in Ids : \E j \in 1 .. Len(ccs) : ccs[j].type = "AddNode" /\ ccs[j].id = x},
                 {x \in Ids : \E j \in 1 .. Len(ccs) : ccs[j].type = "AddLearnerNode" /\ ccs[j].id = x})
<1>. DEFINE V(k) == {x \in Ids : \E j \in 1 .. k : ccs[j].type = "AddNode" /\ ccs[j].id = x}
            L(k) == {x \in Ids : \E j \in 1 .. k : ccs[j].type = "AddLearnerNode" /\ ccs[j].id = x}
<1>1. PICK f : IsWalk(f, EmptyConfig, ccs) /\ OneByOne(EmptyConfig, ccs) = f[Len(ccs)]
  <2>1. Len(ccs) \in Nat  OBVIOUS
  <2>. QED  BY ONLY <2>1, OneByOneWalk, Zenon
<1>. DEFINE Good(k) == f[k] = Plain(V(k), L(k))
            Bad == {k \in 0 .. Len(ccs) : ~Good(k)}
<1>2. Good(0)
  <2>1. V(0) = {} /\ L(0) = {}
    BY SMTT(30), Z3T(30)
  <2>2. f[0] = EmptyConfig
    BY <1>1, Zenon DEF IsWalk
  <2>. QED  BY <2>1, <2>2, Zenon DEF Plain, EmptyConfig
<1>3. ASSUME NEW k \in 1 .. Len(ccs), Good(k - 1) PROVE Good(k)
  <2>. DEFINE W == V(k - 1)
              M == L(k - 1)
              cc == ccs[k]
  <2>1. cc \in Changes /\ cc.id \in Ids
    <3>1. cc \in Changes  BY SMTT(30), Z3T(30)
    <3>. QED  BY <3>1, Zenon DEF Changes
  <2>2. W \in SUBSET Ids /\ M \in SUBSET Ids /\ W \cap M = {} /\ cc.id \notin W \cup M
    <3>1. W \in SUBSET Ids /\ M \in SUBSET Ids  BY Zenon
    <3>2. W \cap M = {}
      BY SMTT(30), Z3T(30)
    <3>3. cc.id \notin W \cup M
      BY SMTT(30), Z3T(30)
    <3>. QED  BY <3>1, <3>2, <3>3, Zenon
  <2>3. cc.type = "AddNode" \/ (cc.type = "AddLearnerNode" /\ W # {})
    <3>1. CASE k = 1
      BY <3>1, Zenon
    <3>2. CASE k # 1
      <4>1. ccs[1].id \in Ids
        <5>1. ccs[1] \in Changes  BY SMTT(30), Z3T(30)
        <5>. QED  BY <5>1, Zenon DEF Changes
      <4>2. ccs[1].id \in W
        BY <3>2, <4>1, SMTT(30), Z3T(30)
      <4>. QED  BY <4>2, Zenon
    <3>. QED  BY <3>1, <3>2, Zenon
  <2>4. /\ V(k) = IF cc.type = "AddNode" THEN W \cup {cc.id} ELSE W
        /\ L(k) = IF cc.type = "AddNode" THEN M ELSE M \cup {cc.id}
    BY <2>1, <2>3, SMTT(30), Z3T(30)
  <2>5. f[k] = OneMore(Plain(W, M), cc)
    BY <1>1, <1>3, Zenon DEF IsWalk
  <2>. HIDE DEF V, L, W, M, cc
  <2>6. f[k] = Grown(W, M, cc)
    BY <2>1, <2>2, <2>3, <2>5, PlainStep, Zenon
  <2>. QED  BY <2>3, <2>4, <2>6, Zenon DEF Grown
<1>. HIDE DEF Good
<1>4. Bad = {}
  <2>. SUFFICES ASSUME Bad # {} PROVE FALSE  OBVIOUS
  <2>1. PICK n \in Bad : \A m \in Bad : n <= m
    <3>1. Bad \in SUBSET Nat  OBVIOUS
    <3>. HIDE DEF Bad
    <3>. QED  BY <3>1, LeastNat, Zenon
  <2>2. n \in 1 .. Len(ccs) /\ Good(n - 1)
    BY <1>2, <2>1, SMTT(30), Z3T(30)
  <2>. QED  BY <1>3, <2>1, <2>2, Zenon
<1>5. Good(Len(ccs))
  BY <1>4, SMTT(30), Z3T(30)
<1>. QED  BY <1>1, <1>5, Zenon DEF Good

\* No ids, no changes.
LEMMA NoChanges ==
  ASSUME NEW t
  PROVE  ChangesOf(t, {}) = <<>>
<1>1. 1 .. Cardinality({}) = {}
  BY FS_EmptySet
<1>. QED  BY <1>1 DEF ChangesOf

\* The changes that bring in voters, then learners.
LEMMA OneByOneSets ==
  ASSUME NEW V \in SUBSET Ids, NEW L \in SUBSET Ids, V # {}, V \cap L = {}
  PROVE  OneByOne(EmptyConfig, ChangesOf("AddNode", V) \o ChangesOf("AddLearnerNode", L)) = Plain(V, L)
<1>. DEFINE a == ChangesOf("AddNode", V)
            b == ChangesOf("AddLearnerNode", L)
            m == Cardinality(V)
            n == Cardinality(L)
            d == Listing(V)
            e == Listing(L)
            ccs == a \o b
<1>1. /\ a \in Seq(Changes) /\ Len(a) = m /\ m \in Nat
      /\ \A k \in 1 .. m : a[k].type = "AddNode" /\ a[k].id = d[k]
  BY ChangesOfList, Enumerated, Zenon DEF ChangeTypes
<1>2. /\ b \in Seq(Changes) /\ Len(b) = n /\ n \in Nat
      /\ \A k \in 1 .. n : b[k].type = "AddLearnerNode" /\ b[k].id = e[k]
  BY ChangesOfList, Enumerated, Zenon DEF ChangeTypes
<1>3. /\ d \in [1 .. m -> V]
      /\ \A j, k \in 1 .. m : d[j] = d[k] => j = k
      /\ \A x \in V : \E k \in 1 .. m : d[k] = x
  BY Enumerated, Zenon
<1>4. /\ e \in [1 .. n -> L]
      /\ \A j, k \in 1 .. n : e[j] = e[k] => j = k
      /\ \A x \in L : \E k \in 1 .. n : e[k] = x
  BY Enumerated, Zenon
<1>5. m > 0
  BY <1>1, <1>3, SMTT(30), Z3T(30)
<1>. HIDE DEF a, b, m, n, d, e
<1>6. /\ ccs \in Seq(Changes) /\ Len(ccs) = m + n
      /\ \A k \in 1 .. m : ccs[k] = a[k]
      /\ \A k \in 1 .. n : ccs[m + k] = b[k]
  BY <1>1, <1>2, SMTT(30), Z3T(30)
<1>. HIDE DEF ccs
<1>7. /\ \A k \in 1 .. m : ccs[k].type = "AddNode" /\ ccs[k].id = d[k]
      /\ \A k \in (m + 1) .. (m + n) : ccs[k].type = "AddLearnerNode" /\ ccs[k].id = e[k - m]
  <2>1. \A k \in 1 .. m : ccs[k].type = "AddNode" /\ ccs[k].id = d[k]
    BY <1>1, <1>6, Zenon
  <2>2. ASSUME NEW k \in (m + 1) .. (m + n) PROVE ccs[k].type = "AddLearnerNode" /\ ccs[k].id = e[k - m]
    <3>1. k - m \in 1 .. n /\ m + (k - m) = k
      BY <1>1, <1>2, SMTT(30), Z3T(30)
    <3>. QED  BY <1>2, <1>6, <3>1, SMTT(30), Z3T(30)
  <2>. QED  BY <2>1, <2>2
<1>8. \A k \in 1 .. Len(ccs) : ccs[k].type \in {"AddNode", "AddLearnerNode"}
  BY <1>1, <1>2, <1>6, <1>7, SMTT(30), Z3T(30)
<1>9. ASSUME NEW j \in 1 .. Len(ccs), NEW k \in 1 .. Len(ccs), ccs[j].id = ccs[k].id PROVE j = k
  <2>1. CASE j <= m /\ k <= m
    BY <1>1, <1>3, <1>7, <1>9, <2>1, SMTT(30), Z3T(30)
  <2>2. CASE j > m /\ k > m
    <3>1. j - m \in 1 .. n /\ k - m \in 1 .. n /\ e[j - m] = e[k - m]
      BY <1>1, <1>2, <1>6, <1>7, <1>9, <2>2, SMTT(30), Z3T(30)
    <3>2. j - m = k - m
      BY <1>4, <3>1, Zenon
    <3>. QED  BY <1>1, <3>2, SMTT(30), Z3T(30)
  <2>3. CASE j <= m /\ k > m
    <3>1. ccs[j].id \in V
      BY <1>1, <1>3, <1>7, <2>3, SMTT(30), Z3T(30)
    <3>2. k - m \in 1 .. n /\ ccs[k].id = e[k - m]
      BY <1>1, <1>2, <1>6, <1>7, <2>3, SMTT(30), Z3T(30)
    <3>. QED  BY <1>4, <1>9, <3>1, <3>2, Zenon
  <2>4. CASE j > m /\ k <= m
    <3>1. ccs[k].id \in V
      BY <1>1, <1>3, <1>7, <2>4, SMTT(30), Z3T(30)
    <3>2. j - m \in 1 .. n /\ ccs[j].id = e[j - m]
      BY <1>1, <1>2, <1>6, <1>7, <2>4, SMTT(30), Z3T(30)
    <3>. QED  BY <1>4, <1>9, <3>1, <3>2
  <2>. QED  BY <1>1, <1>2, <1>6, <2>1, <2>2, <2>3, <2>4, SMTT(30), Z3T(30)
<1>10. ccs[1].type = "AddNode" /\ Len(ccs) > 0
  <2>1. 1 \in 1 .. m /\ m + n > 0
    BY <1>1, <1>2, <1>5, SMTT(30), Z3T(30)
  <2>2. Len(ccs) = m + n
    BY <1>6, Zenon
  <2>3. ccs[1].type = "AddNode"
    BY <1>7, <2>1, Zenon
  <2>. QED  BY <2>1, <2>2, <2>3, Zenon
<1>. DEFINE W == {x \in Ids : \E j \in 1 .. Len(ccs) : ccs[j].type = "AddNode" /\ ccs[j].id = x}
            M == {x \in Ids : \E j \in 1 .. Len(ccs) : ccs[j].type = "AddLearnerNode" /\ ccs[j].id = x}
<1>11. W = V
  <2>1. ASSUME NEW x \in W PROVE x \in V
    <3>1. PICK j \in 1 .. Len(ccs) : ccs[j].type = "AddNode" /\ ccs[j].id = x
      BY Zenon
    <3>2. j \in 1 .. m
      <4>1. j \notin (m + 1) .. (m + n)
        BY <1>7, <3>1, Zenon
      <4>. QED  BY <1>1, <1>2, <1>6, <4>1, SMTT(30), Z3T(30)
    <3>. QED  BY <1>3, <1>7, <3>1, <3>2, SMTT(30), Z3T(30)
  <2>2. ASSUME NEW x \in V PROVE x \in W
    <3>1. PICK k \in 1 .. m : d[k] = x
      BY <1>3, Zenon
    <3>2. k \in 1 .. Len(ccs)
      BY <1>1, <1>2, <1>6, SMTT(30), Z3T(30)
    <3>3. ccs[k].type = "AddNode" /\ ccs[k].id = x
      BY <1>7, <3>1, Zenon
    <3>. QED  BY <3>2, <3>3, Zenon
  <2>. QED  BY <2>1, <2>2, Zenon
<1>12. M = L
  <2>1. ASSUME NEW x \in M PROVE x \in L
    <3>1. PICK j \in 1 .. Len(ccs) : ccs[j].type = "AddLearnerNode" /\ ccs[j].id = x
      BY Zenon
    <3>2. j \in (m + 1) .. (m + n) /\ j - m \in 1 .. n
      BY <1>1, <1>2, <1>6, <1>7, <3>1, SMTT(30), Z3T(30)
    <3>. QED  BY <1>4, <1>7, <3>1, <3>2, SMTT(30), Z3T(30)
  <2>2. ASSUME NEW x \in L PROVE x \in M
    <3>1. PICK k \in 1 .. n : e[k] = x
      BY <1>4, Zenon
    <3>2. m + k \in (m + 1) .. (m + n) /\ m + k \in 1 .. Len(ccs) /\ (m + k) - m = k
      BY <1>1, <1>2, <1>6, SMTT(30), Z3T(30)
    <3>. QED  BY <1>7, <3>1, <3>2, ZenonT(60)
  <2>. QED  BY <2>1, <2>2, Zenon
<1>13. OneByOne(EmptyConfig, ccs) = Plain(W, M)
  BY <1>6, <1>8, <1>9, <1>10, OneByOnePlain, Zenon
<1>. QED  BY <1>11, <1>12, <1>13, Zenon DEF ccs, a, b

\* A configuration outside a joint phase is restored: its voters, then its
\* learners, are let in one by one.
LEMMA RestoreSingle ==
  ASSUME NEW c, Proper(c), c.outgoing = {}
  PROVE  Restore(ToConfState(c)) = c
<1>. DEFINE V == c.voters
            L == c.learners
            a == ChangesOf("AddNode", V)
            b == ChangesOf("AddLearnerNode", L)
            cs == ToConfState(c)
<1>1. /\ c \in Configs /\ V \in SUBSET Ids /\ L \in SUBSET Ids /\ V # {} /\ V \cap L = {}
      /\ c.next = {} /\ c.auto = FALSE /\ c.prs = V \cup L
  BY Zenon DEF Proper, Configs, Accepted, CheckInvariants, Tight, VoterIds, Joint
<1>2. a \in Seq(Changes) /\ b \in Seq(Changes)
  BY <1>1, ChangesOfList, Zenon DEF ChangeTypes
<1>3. cs.outgoing = {} /\ cs.voters = V /\ cs.learners = L /\ cs.next = {}
  BY <1>1, Zenon DEF ToConfState
<1>. HIDE DEF cs
<1>4. Incoming(cs) = ((<<>> \o a) \o b) \o <<>>
  BY <1>3, NoChanges, Zenon DEF Incoming
<1>. HIDE DEF a, b
<1>5. ((<<>> \o a) \o b) \o <<>> = a \o b
  <2>1. <<>> \o a = a
    BY <1>2
  <2>2. (a \o b) \o <<>> = a \o b
    BY <1>2, SMTT(30), Z3T(30)
  <2>. QED  BY <2>1, <2>2, Zenon
<1>6. OneByOne(EmptyConfig, a \o b) = Plain(V, L)
  BY <1>1, OneByOneSets, Zenon DEF a, b
<1>7. Plain(V, L) = c
  <2>1. Plain(V, L) \in Configs
    BY <1>1, PlainConfig
  <2>2. /\ Plain(V, L).voters = V /\ Plain(V, L).outgoing = {} /\ Plain(V, L).learners = L
        /\ Plain(V, L).next = {} /\ Plain(V, L).auto = FALSE /\ Plain(V, L).prs = V \cup L
    BY Zenon DEF Plain
  <2>. QED  BY <1>1, <2>1, <2>2, SameConfig, Zenon
<1>8. Restore(cs) = OneByOne(EmptyConfig, Incoming(cs))
  BY <1>3, Zenon DEF Restore
<1>. QED  BY <1>4, <1>5, <1>6, <1>7, <1>8, Zenon DEF cs

\* A configuration with the given parts.
Full(v, o, l, n, a, p) ==
  [voters |-> v, outgoing |-> o, learners |-> l, next |-> n, auto |-> a, prs |-> p]

\* It has the type of one.
LEMMA FullConfig ==
  ASSUME NEW v \in SUBSET Ids, NEW o \in SUBSET Ids, NEW l \in SUBSET Ids,
         NEW n \in SUBSET Ids, NEW a \in BOOLEAN, NEW p \in SUBSET Ids
  PROVE  Full(v, o, l, n, a, p) \in Configs
BY DEF Full, Configs

\* Copying the voters to the outgoing half touches nothing else.
LEMMA Entered ==
  ASSUME NEW c \in Configs, NEW o \in SUBSET Ids
  PROVE  [c EXCEPT !.outgoing = o] = Full(c.voters, o, c.learners, c.next, c.auto, c.prs)
<1>. DEFINE d == [c EXCEPT !.outgoing = o]
            e == Full(c.voters, o, c.learners, c.next, c.auto, c.prs)
<1>1. d \in Configs /\ e \in Configs
  BY DEF Configs, Full
<1>2. /\ d.voters = e.voters /\ d.outgoing = e.outgoing /\ d.learners = e.learners
      /\ d.next = e.next /\ d.auto = e.auto /\ d.prs = e.prs
  BY Zenon DEF Configs, Full
<1>. HIDE DEF d, e
<1>3. d = e
  BY <1>1, <1>2, SameConfig, Zenon
<1>. QED  BY <1>3 DEF d, e

\* A configuration in a joint phase is restored: the outgoing voters one by
\* one, then a joint change that replaces them by the incoming half, the
\* learners and the learners held back.
LEMMA RestoreJoint ==
  ASSUME NEW c, Proper(c), c.outgoing # {}
  PROVE  Restore(ToConfState(c)) = c
<1>. DEFINE V == c.voters
            O == c.outgoing
            L == c.learners
            N == c.next
            cs == ToConfState(c)
            r == ChangesOf("RemoveNode", O)
            a == ChangesOf("AddNode", V)
            b == ChangesOf("AddLearnerNode", L)
            e == ChangesOf("AddLearnerNode", N)
            first == Plain(O, {})
            d0 == Full(O, O, {}, {}, FALSE, O)
            d1 == Full({}, O, {}, {}, FALSE, O)
            d2 == Full(V, O, {}, {}, FALSE, O \cup V)
            d3 == Full(V, O, L, {}, FALSE, (O \cup V) \cup L)
            d4 == Full(V, O, L, N, FALSE, ((O \cup V) \cup L) \cup N)
<1>1. /\ c \in Configs /\ V \in SUBSET Ids /\ O \in SUBSET Ids /\ L \in SUBSET Ids /\ N \in SUBSET Ids
      /\ V # {} /\ O # {} /\ L \cap V = {} /\ L \cap O = {} /\ N \subseteq O /\ N \cap V = {}
      /\ c.auto \in BOOLEAN /\ c.prs = ((O \cup V) \cup L) \cup N
  BY Zenon DEF Proper, Configs, Accepted, CheckInvariants, Tight, VoterIds, Joint
<1>2. /\ cs.outgoing = O /\ cs.voters = V /\ cs.learners = L /\ cs.next = N /\ cs.auto = c.auto
  BY DEF ToConfState
<1>3. r \in Seq(Changes) /\ a \in Seq(Changes) /\ b \in Seq(Changes) /\ e \in Seq(Changes)
  BY <1>1, ChangesOfList, Zenon DEF ChangeTypes
<1>. HIDE DEF cs
<1>4. Incoming(cs) = ((r \o a) \o b) \o e
  BY <1>2 DEF Incoming
<1>5. OneByOne(EmptyConfig, Outgoing(cs)) = first
  <2>. DEFINE out == ChangesOf("AddNode", O)
  <2>1. out \in Seq(Changes)
    BY <1>1, ChangesOfList, Zenon DEF ChangeTypes
  <2>2. out \o <<>> = out
    BY <2>1, SMTT(30), Z3T(30)
  <2>3. OneByOne(EmptyConfig, out \o ChangesOf("AddLearnerNode", {})) = first
    BY <1>1, OneByOneSets, SMTT(30), Z3T(30)
  <2>. QED  BY <1>2, <2>2, <2>3, NoChanges, ZenonT(60) DEF Outgoing
<1>6. /\ d0 \in Configs /\ d1 \in Configs /\ d2 \in Configs /\ d3 \in Configs
      /\ Listed(d0) /\ Listed(d1) /\ Listed(d2) /\ Listed(d3)
  <2>1. d0 \in Configs /\ d1 \in Configs /\ d2 \in Configs /\ d3 \in Configs
    <3>. FALSE \in BOOLEAN /\ {} \in SUBSET Ids /\ O \cup V \in SUBSET Ids /\ (O \cup V) \cup L \in SUBSET Ids
      BY <1>1
    <3>. QED  BY <1>1, FullConfig, Zenon
  <2>2. Listed(d0) /\ Listed(d1)
    BY Zenon DEF Listed, VoterIds, Full
  <2>3. Listed(d2)
    BY Zenon DEF Listed, VoterIds, Full
  <2>4. Listed(d3)
    BY <1>1, Zenon DEF Listed, VoterIds, Full
  <2>. QED  BY <2>1, <2>2, <2>3, <2>4, Zenon
<1>7. [first EXCEPT !.outgoing = first.voters] = d0
  <2>1. first \in Configs
    BY <1>1, PlainConfig, Zenon
  <2>2. /\ first.voters = O /\ first.learners = {} /\ first.next = {} /\ first.auto = FALSE
        /\ first.prs = O
    BY Zenon DEF Plain
  <2>. HIDE DEF first
  <2>3. [first EXCEPT !.outgoing = O] = Full(first.voters, O, first.learners, first.next, first.auto, first.prs)
    BY <1>1, <2>1, Entered, Zenon
  <2>. QED  BY <2>2, <2>3, Zenon
<1>8. ApplyChanges(d0, r) = d1
  <2>1. ApplyChanges(d0, r) = Applied("RemoveNode", d0, O)
    BY <1>1, <1>6, ApplyChangesOf, Zenon DEF ChangeTypes
  <2>2. /\ O \ O = {} /\ {} \ O = {} /\ O \ (O \ O) = O
    OBVIOUS
  <2>3. Applied("RemoveNode", d0, O) = Full(O \ O, O, {} \ O, {} \ O, FALSE, O \ (O \ O))
    BY Zenon DEF Applied, Patch, Full
  <2>. QED  BY <2>1, <2>2, <2>3, Zenon
<1>9. ApplyChanges(d1, a) = d2
  <2>1. ApplyChanges(d1, a) = Applied("AddNode", d1, V)
    BY <1>1, <1>6, ApplyChangesOf, Zenon DEF ChangeTypes
  <2>2. {} \cup V = V /\ {} \ V = {}
    OBVIOUS
  <2>3. Applied("AddNode", d1, V) = Full({} \cup V, O, {} \ V, {} \ V, FALSE, O \cup V)
    BY Zenon DEF Applied, Patch, Full
  <2>. QED  BY <2>1, <2>2, <2>3, Zenon
<1>10. ApplyChanges(d2, b) = d3
  <2>1. ApplyChanges(d2, b) = Applied("AddLearnerNode", d2, L)
    BY <1>1, <1>6, ApplyChangesOf, Zenon DEF ChangeTypes
  <2>2. V \ L = V /\ {} \cup (L \ O) = L /\ ({} \ L) \cup (L \cap O) = {}
    BY <1>1, Zenon
  <2>3. Applied("AddLearnerNode", d2, L)
          = Full(V \ L, O, {} \cup (L \ O), ({} \ L) \cup (L \cap O), FALSE, (O \cup V) \cup L)
    BY Zenon DEF Applied, Patch, Full
  <2>. QED  BY <2>1, <2>2, <2>3, Zenon
<1>11. ApplyChanges(d3, e) = d4
  <2>1. ApplyChanges(d3, e) = Applied("AddLearnerNode", d3, N)
    BY <1>1, <1>6, ApplyChangesOf, Zenon DEF ChangeTypes
  <2>2. V \ N = V /\ L \cup (N \ O) = L /\ ({} \ N) \cup (N \cap O) = N
    BY <1>1, Zenon
  <2>3. Applied("AddLearnerNode", d3, N)
          = Full(V \ N, O, L \cup (N \ O), ({} \ N) \cup (N \cap O), FALSE, ((O \cup V) \cup L) \cup N)
    BY Zenon DEF Applied, Patch, Full
  <2>. QED  BY <2>1, <2>2, <2>3, Zenon
<1>12. [d4 EXCEPT !.auto = c.auto] = c
  <2>. DEFINE f == Full(V, O, L, N, c.auto, c.prs)
  <2>1. [d4 EXCEPT !.auto = c.auto] = f
    BY <1>1, SMTT(30), Z3T(30) DEF Full
  <2>2. f \in Configs
    BY <1>1 DEF Configs, Full
  <2>3. f.voters = V /\ f.outgoing = O /\ f.learners = L /\ f.next = N /\ f.auto = c.auto /\ f.prs = c.prs
    BY Zenon DEF Full
  <2>. HIDE DEF f
  <2>4. f = c
    BY <1>1, <2>2, <2>3, SameConfig, Zenon
  <2>. QED  BY <2>1, <2>4, Zenon
<1>13. /\ ~Joint(first) /\ CheckInvariants(first) /\ first.voters # {} /\ first # NoConfig
  <2>1. first.voters = O
    BY Zenon DEF Plain
  <2>. QED  BY <1>1, <2>1, PlainConfig, Zenon
<1>. HIDE DEF r, a, b, e, first, d0, d1, d2, d3, d4
<1>14. ApplyChanges(d0, Incoming(cs)) = d4
  <2>. DEFINE q == r \o a
              s == q \o b
  <2>1. q \in Seq(Changes)
    BY <1>3
  <2>2. ApplyChanges(d0, q) = d2
    BY <1>3, <1>8, <1>9, ApplyConcat, Zenon
  <2>. HIDE DEF q
  <2>3. s \in Seq(Changes)
    BY <1>3, <2>1, SMTT(30), Z3T(30)
  <2>4. ApplyChanges(d0, s) = d3
    BY <1>3, <1>10, <2>1, <2>2, ApplyConcat, ZenonT(60)
  <2>. HIDE DEF s
  <2>5. ApplyChanges(d0, s \o e) = d4
    BY <1>3, <1>11, <2>3, <2>4, ApplyConcat, ZenonT(60)
  <2>. QED  BY <1>4, <2>5, Zenon DEF q, s
<1>15. EnterJoint(first, cs.auto, Incoming(cs)) = c
  BY <1>2, <1>7, <1>12, <1>13, <1>14, Zenon DEF EnterJoint, Proper
<1>16. Restore(cs) = EnterJoint(first, cs.auto, Incoming(cs))
  BY <1>1, <1>2, <1>5, <1>13, Zenon DEF Restore
<1>. QED  BY <1>15, <1>16, Zenon DEF cs

\* The ConfState a snapshot keeps restores to exactly the configuration it was
\* written from (confchange::restore), for any number of nodes and any history
\* of simple and joint changes.
THEOREM SnapshotsRestore == ConfSpec => []RestoresExactly
<1>1. ConfInv => RestoresExactly
  BY RestoreSingle, RestoreJoint DEF ConfInv, RestoresExactly
<1>. QED  BY <1>1, ConfigsAreProper, PTL

==============================================================================
