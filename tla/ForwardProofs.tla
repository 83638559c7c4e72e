---------------------------- MODULE ForwardProofs ----------------------------
(***************************************************************************)
(* Proofs about a PUBLISH on its way through a cluster, for any number of  *)
(* nodes and subscribers, in all three modes.                              *)
(***************************************************************************)
EXTENDS ClusterForward, TLAPS

Rels == [c : FClient, shared : BOOLEAN]
MsgTypes == {"ForwardsTo", "ForwardsToAck", "Forwards", "Reply"}
Replies == [state : {"none", "ok", "failed"}, shareds : SUBSET Rels, recips : SUBSET FClient]

FwTypeOK ==
  /\ fmode \in {"single", "raft", "broadcast"}
  /\ ftarget \in FClient \cup {"none"}
  /\ frun \in {"forwards", "join", "done"}
  /\ fup \subseteq FClient
  /\ fgot \in [FClient -> {0, 1}]
  /\ fwire \subseteq [type : MsgTypes, node : FNode, rels : SUBSET Rels, recips : SUBSET FClient]
  /\ freply \in [FNode -> Replies]
  /\ fmarked \subseteq FClient
  /\ fhist \in [gone : BOOLEAN, stopped : BOOLEAN, lost : SUBSET FNode]

\* Before forwards runs nothing was sent to anybody.
NothingYet ==
  frun = "forwards" =>
    /\ fwire = {} /\ fmarked = {} /\ ~fhist.stopped
    /\ \A c \in FClient : fgot[c] = 0

\* A client was served, or a member of its group was.
Reached(c) == fgot[c] > 0 \/ (c \in Group /\ GroupGot # {})

\* What handling the relations rels will reach.
WillReach(c, rels) ==
  (\E r \in rels : r.c = c) \/ (c \in Group /\ \E r \in rels : r.c \in Group)

ForwardsToOK(m) ==
  /\ frun = "done"
  /\ \A r \in m.rels : Home[r.c] = m.node /\ fgot[r.c] = 0
  /\ fmode = "raft" => \A c \in m.recips : WillReach(c, m.rels)

AckOK(m) == frun = "done" /\ \A c \in m.recips : Reached(c)

ForwardsOK(m) ==
  /\ frun = "join" /\ m.node \in Others /\ freply[m.node] = NoReply
  /\ \A c \in FClient : Home[c] = m.node => fgot[c] = 0

ReplyOK(m) ==
  /\ frun = "join" /\ m.node \in Others /\ freply[m.node] = NoReply
  /\ \A r \in m.rels : ftarget = "none" /\ r.c \in Group
  /\ \A c \in m.recips : fgot[c] > 0

\* No message is for somebody who has a copy, and an acknowledgement or a reply
\* names only clients that have one.  There is one message for each node.
WireOK ==
  /\ \A m \in fwire :
       /\ m.type = "ForwardsTo" => ForwardsToOK(m)
       /\ m.type = "ForwardsToAck" => AckOK(m)
       /\ m.type = "Forwards" => ForwardsOK(m)
       /\ m.type = "Reply" => ReplyOK(m)
  /\ \A m, q \in fwire : m.node = q.node => m = q

\* While broadcast collects the answers no member of the group is served.
JoinOK ==
  frun = "join" =>
    /\ fmode = "broadcast"
    /\ ftarget = "none" => \A c \in Group : fgot[c] = 0
    /\ \A n \in FNode :
         /\ \A r \in freply[n].shareds : ftarget = "none" /\ r.c \in Group
         /\ \A c \in freply[n].recips : Reached(c) \/ (c \in Group /\ ftarget = "none")

\* At most one member of the group has a copy or is about to get one.
Coming(c) == \E m \in fwire : m.type = "ForwardsTo" /\ \E r \in m.rels : r.c = c
Touched(c) == fgot[c] > 0 \/ Coming(c)
OneMember == ftarget = "none" => \A a, b \in Group : Touched(a) /\ Touched(b) => a = b

\* A plain subscriber that stays has its copy or a message is under way to it.
Asked(n) == \E m \in fwire : m.type = "Forwards" /\ m.node = n
Known(c) == fmode = "single" => Home[c] = Origin
PlainServed ==
  frun # "forwards" /\ ftarget = "none" /\ ~fhist.stopped =>
    \A c \in fup \ Group :
      Known(c) /\ Home[c] \notin fhist.lost => Touched(c) \/ Asked(Home[c])

\* With nothing lost a node of a member was asked, offers one, or one is served.
Offers(n) == freply[n].shareds # {} \/ \E m \in fwire : m.type = "Reply" /\ m.node = n /\ m.rels # {}
MemberServed ==
  ftarget = "none" /\ Smooth =>
    \A c \in Group :
      /\ frun = "join" => Offers(Home[c]) \/ Asked(Home[c])
      /\ frun = "done" /\ Known(c) => \E d \in Group : Touched(d)

MarkedOK ==
  \A c \in fmarked : Reached(c) \/ (c \in Group /\ fmode = "broadcast" /\ ftarget = "none")

GoneOK ==
  /\ fhist.gone \/ fup = FClient
  /\ fhist.stopped => fhist.gone

FwInv ==
  FwTypeOK /\ NothingYet /\ WireOK /\ JoinOK /\ OneMember /\ PlainServed /\ MemberServed
    /\ MarkedOK /\ GoneOK

-----------------------------------------------------------------------------
(* Matching and sending *)

\* What the router gives for the nodes ns: relations to clients on them, all the
\* plain ones, and one member of the group if it has any there.
Fits(rels, ns) ==
  /\ rels \subseteq Rels
  /\ \A r \in rels : Home[r.c] \in ns /\ (r.shared <=> r.c \in Group)
  /\ \A c \in FClient \ Group : Home[c] \in ns => \E r \in rels : r.c = c
  /\ \A r, q \in rels : r.c \in Group /\ q.c \in Group => r.c = q.c
  /\ (\E c \in Group : Home[c] \in ns) => \E r \in rels : r.c \in Group

\* What the router matches for some nodes fits them.
LEMMA MatchesFit ==
  ASSUME NEW ns, NEW rels \in Matches(ns)
  PROVE  Fits(rels, ns)
<1>. DEFINE plain == {Rel(c, FALSE) : c \in {d \in Plain : Home[d] \in ns}}
            members == {c \in Group : Home[c] \in ns}
<1>1. \A r \in plain : r \in Rels /\ Home[r.c] \in ns /\ r.shared = FALSE /\ r.c \notin Group
  <2>. SUFFICES ASSUME NEW c \in Plain, Home[c] \in ns, NEW r, r = Rel(c, FALSE)
                PROVE  r \in Rels /\ Home[r.c] \in ns /\ r.shared = FALSE /\ r.c \notin Group
    BY Zenon
  <2>1. r.c = c /\ r.shared = FALSE
    BY DEF Rel
  <2>2. r \in Rels
    BY DEF Rel, Rels, Plain
  <2>. QED  BY <2>1, <2>2, Zenon DEF Plain
<1>2. \A c \in FClient \ Group : Home[c] \in ns => \E r \in plain : r.c = c
  <2>. SUFFICES ASSUME NEW c \in FClient \ Group, Home[c] \in ns PROVE \E r \in plain : r.c = c
    BY Zenon
  <2>1. Rel(c, FALSE) \in plain /\ Rel(c, FALSE).c = c
    BY Zenon DEF Rel, Plain
  <2>. QED  BY <2>1, Zenon
<1>3. \A c \in members : /\ Rel(c, TRUE) \in Rels /\ Rel(c, TRUE).c = c /\ Rel(c, TRUE).shared = TRUE
                         /\ Home[c] \in ns /\ c \in Group
  BY ForwardAssumption DEF Rel, Rels
<1>4. (rels = plain /\ members = {}) \/ \E c \in members : rels = plain \cup {Rel(c, TRUE)}
  BY Zenon DEF Matches
<1>. HIDE DEF plain
<1>5. CASE rels = plain /\ members = {}
  BY <1>1, <1>2, <1>5 DEF Fits
<1>6. ASSUME NEW c \in members, rels = plain \cup {Rel(c, TRUE)} PROVE Fits(rels, ns)
  <2>. DEFINE q == Rel(c, TRUE)
  <2>1. q \in Rels /\ q.c = c /\ q.shared = TRUE /\ Home[c] \in ns /\ c \in Group
    BY <1>3, Zenon
  <2>. HIDE DEF q
  <2>2. rels = plain \cup {q}
    BY <1>6 DEF q
  <2>. QED  BY <1>1, <1>2, <2>1, <2>2 DEF Fits
<1>. QED  BY <1>4, <1>5, <1>6, Zenon

\* Everybody the relations name and that is there gets a copy, nobody else does.
SendsTo(rels) ==
  /\ fgot' \in [FClient -> {0, 1}]
  /\ \A c \in FClient : fgot[c] > 0 => fgot'[c] > 0
  /\ \A r \in rels : r.c \in fup => fgot'[r.c] > 0
  /\ \A c \in FClient : (\A r \in rels : r.c # c) => fgot'[c] = fgot[c]
  /\ \A c \in FClient : Reached(c) => Reached(c)'

\* forwards_to gives each client that is up and has no copy one.
LEMMA SendStep ==
  ASSUME FwTypeOK, NEW rels, \A r \in rels : r.c \in FClient /\ fgot[r.c] = 0, forwards_to(rels)
  PROVE  SendsTo(rels)
<1>1. \A c \in FClient : fgot'[c] = IF \E r \in rels : r.c = c /\ c \in fup THEN fgot[c] + 1 ELSE fgot[c]
  BY DEF forwards_to, Sent
<1>2. fgot' \in [FClient -> {0, 1}]
  <2>1. DOMAIN fgot' = FClient /\ fgot' = [c \in FClient |-> fgot'[c]]
    BY DEF forwards_to, Sent
  <2>2. \A c \in FClient : fgot'[c] \in {0, 1}
    BY <1>1 DEF FwTypeOK
  <2>. QED  BY <2>1, <2>2
<1>3. \A c \in FClient : fgot[c] > 0 => fgot'[c] > 0
  BY <1>1 DEF FwTypeOK
<1>4. \A r \in rels : r.c \in fup => fgot'[r.c] > 0
  BY <1>1
<1>5. \A c \in FClient : (\A r \in rels : r.c # c) => fgot'[c] = fgot[c]
  BY <1>1
<1>6. \A c \in FClient : Reached(c) => Reached(c)'
  BY <1>3, ForwardAssumption DEF Reached, GroupGot
<1>. QED  BY <1>2, <1>3, <1>4, <1>5, <1>6 DEF SendsTo

\* Before forwards runs the invariant holds.
LEMMA FwInitInv == FwdInit => FwInv
<1>. SUFFICES ASSUME FwdInit PROVE FwInv  OBVIOUS
<1>1. FwTypeOK
  BY ForwardAssumption DEF FwdInit, FwTypeOK, Replies, NoReply
<1>2. NothingYet /\ WireOK /\ JoinOK /\ PlainServed
  BY DEF FwdInit, NothingYet, WireOK, JoinOK, PlainServed
<1>3. OneMember
  BY ForwardAssumption DEF FwdInit, OneMember, Touched, Coming
<1>4. MemberServed /\ MarkedOK
  BY DEF FwdInit, MemberServed, MarkedOK
<1>5. GoneOK
  BY Zenon DEF FwdInit, GoneOK
<1>. QED  BY <1>1, <1>2, <1>3, <1>4, <1>5 DEF FwInv

\* What the router gives is well typed; a shared relation is one to a member.
Sound(rels) == rels \subseteq Rels /\ \A r \in rels : r.shared => r.c \in Group

\* The relations forwards works with are sound, with a target client too.
LEMMA RouterGives ==
  ASSUME FwTypeOK, NEW ns, NEW rels, rels \in IF ftarget = "none" THEN Matches(ns) ELSE {TargetRels}
  PROVE  Sound(rels) /\ (ftarget = "none" => Fits(rels, ns))
<1>1. CASE ftarget = "none"
  <2>1. Fits(rels, ns)
    BY <1>1, MatchesFit
  <2>. QED  BY <2>1 DEF Fits, Sound
<1>2. CASE ftarget # "none"
  <2>1. rels = {Rel(ftarget, FALSE)} /\ ftarget \in FClient
    BY <1>2, Zenon DEF TargetRels, FwTypeOK
  <2>2. Rel(ftarget, FALSE) \in Rels /\ ~Rel(ftarget, FALSE).shared
    BY <2>1 DEF Rel, Rels
  <2>. QED  BY <1>2, <2>1, <2>2, Zenon DEF Sound
<1>. QED  BY <1>1, <1>2

\* The recipients recorded for some relations are those serving them reaches.
LEMMA RecipientsReach ==
  ASSUME NEW rels, Sound(rels), NEW ns
  PROVE  /\ Recipients(rels, ns) \subseteq FClient
         /\ \A c \in Recipients(rels, ns) : WillReach(c, rels)
<1>1. \A r \in rels : r.c \in FClient
  BY DEF Sound, Rels
<1>. SUFFICES ASSUME NEW c \in Recipients(rels, ns) PROVE c \in FClient /\ WillReach(c, rels)
  OBVIOUS
<1>2. (\E r \in rels : r.c = c) \/ ((\E r \in rels : r.shared) /\ c \in Group)
  BY DEF Recipients
<1>. QED  BY <1>1, <1>2, ForwardAssumption DEF Sound, WillReach

\* When everybody is up, serving the relations reaches whom they promise.
LEMMA ServedReached ==
  ASSUME FwTypeOK, NEW rels, Sound(rels), NEW all, SendsTo(all), rels \subseteq all,
         \A r \in rels : r.c \in fup, NEW c, WillReach(c, rels)
  PROVE  Reached(c)'
<1>1. \A r \in rels : fgot'[r.c] > 0
  BY DEF SendsTo
<1>. QED  BY <1>1 DEF WillReach, Reached, GroupGot

\* While nothing was sent yet.
LEMMA FirstSend ==
  ASSUME FwTypeOK, NothingYet, frun = "forwards", NEW rels, Sound(rels), forwards_to(rels)
  PROVE  SendsTo(rels) /\ \A c \in FClient : fgot'[c] > 0 => \E r \in rels : r.c = c
<1>1. \A r \in rels : r.c \in FClient /\ fgot[r.c] = 0
  BY DEF Sound, Rels, NothingYet
<1>2. SendsTo(rels)
  BY <1>1, SendStep
<1>. QED  BY <1>2 DEF SendsTo, NothingYet

-----------------------------------------------------------------------------
(* One lemma for each action *)

\* forwards of a single node keeps the invariant.
LEMMA SingleInv ==
  ASSUME FwInv, forwards_single
  PROVE  FwInv'
<1>. USE DEF FwInv
<1>1. PICK rels \in IF ftarget = "none" THEN Matches({Origin}) ELSE {TargetRels} :
        /\ forwards_to(rels)
        /\ fmarked' = IF ftarget # "none" /\ Gone(rels) # {} THEN {}
                      ELSE Recipients(rels \ Gone(rels), {Origin})
  BY Zenon DEF forwards_single
<1>2. /\ fmode = "single" /\ frun = "forwards" /\ frun' = "done"
      /\ UNCHANGED <<fmode, ftarget, fup, fwire, freply, fhist>>
      /\ fwire = {}
  BY DEF forwards_single, NothingYet
<1>3. Sound(rels) /\ (ftarget = "none" => Fits(rels, {Origin}))
  BY RouterGives
<1>4. SendsTo(rels) /\ \A c \in FClient : fgot'[c] > 0 => \E r \in rels : r.c = c
  BY <1>1, <1>2, <1>3, FirstSend
<1>5. \A c \in fmarked' : c \in FClient /\ Reached(c)'
  <2>. DEFINE here == rels \ Gone(rels)
  <2>1. Sound(here) /\ here \subseteq rels /\ \A r \in here : r.c \in fup
    BY <1>3 DEF Sound, Gone
  <2>. SUFFICES ASSUME NEW c \in Recipients(here, {Origin}) PROVE c \in FClient /\ Reached(c)'
    BY <1>1
  <2>. HIDE DEF here
  <2>2. c \in FClient /\ WillReach(c, here)
    BY <2>1, RecipientsReach
  <2>. QED  BY <1>4, <2>1, <2>2, ServedReached
<1>6. FwTypeOK'
  BY <1>2, <1>4, <1>5, Zenon DEF FwTypeOK, SendsTo
<1>7. NothingYet' /\ WireOK' /\ JoinOK' /\ MarkedOK' /\ GoneOK'
  BY <1>2, <1>5 DEF NothingYet, WireOK, JoinOK, MarkedOK, GoneOK
<1>8. OneMember'
  BY <1>2, <1>3, <1>4, ForwardAssumption DEF OneMember, Touched, Coming, Fits
<1>9. PlainServed'
  <2>. SUFFICES ASSUME ftarget = "none", NEW c \in fup \ Group, Home[c] = Origin PROVE fgot'[c] > 0
    BY <1>2 DEF PlainServed, Known, Touched
  <2>1. \E r \in rels : r.c = c
    BY <1>3 DEF Fits, FwTypeOK
  <2>. QED  BY <1>4, <2>1 DEF SendsTo
<1>10. MemberServed'
  <2>. SUFFICES ASSUME ftarget = "none", Smooth, NEW c \in Group, Home[c] = Origin
                PROVE  \E d \in Group : fgot'[d] > 0
    BY <1>2 DEF MemberServed, Known, Touched, Smooth
  <2>1. PICK r \in rels : r.c \in Group
    BY <1>3 DEF Fits
  <2>2. r.c \in fup
    BY <2>1, ForwardAssumption DEF GoneOK, Smooth
  <2>. QED  BY <1>4, <2>1, <2>2 DEF SendsTo
<1>. QED  BY <1>6, <1>7, <1>8, <1>9, <1>10

\* So does forwards in raft mode, which knows the relations of every node.
LEMMA RaftInv ==
  ASSUME FwInv, forwards_raft
  PROVE  FwInv'
<1>. USE DEF FwInv
<1>1. PICK rels \in IF ftarget = "none" THEN Matches(FNode) ELSE {TargetRels} :
        /\ forwards_to(OnNode(rels, Origin))
        /\ Marked(rels, Gone(OnNode(rels, Origin)) = {})
        /\ fwire' = {Msg("ForwardsTo", n, OnNode(rels, n), Recipients(OnNode(rels, n), FNode)) :
                       n \in {Home[r.c] : r \in rels} \ {Origin}}
  BY Zenon DEF forwards_raft
<1>2. /\ fmode = "raft" /\ frun = "forwards" /\ frun' = "done"
      /\ UNCHANGED <<fmode, ftarget, fup, freply, fhist>>
      /\ fwire = {} /\ fmarked = {}
  BY DEF forwards_raft, NothingYet
<1>. DEFINE here == OnNode(rels, Origin)
<1>3. Sound(rels) /\ (ftarget = "none" => Fits(rels, FNode))
  BY RouterGives
<1>4. Sound(here) /\ \A n \in FNode : Sound(OnNode(rels, n))
  BY <1>3, Zenon DEF Sound, OnNode
<1>5. SendsTo(here) /\ \A c \in FClient : fgot'[c] > 0 => \E r \in here : r.c = c
  BY <1>1, <1>2, <1>4, FirstSend
<1>6. \A r \in rels : r.c \in FClient /\ Home[r.c] \in FNode
  BY <1>3, ForwardAssumption, Zenon DEF Sound, Rels
<1>7. \A m \in fwire' : /\ m.type = "ForwardsTo" /\ m.node \in FNode \ {Origin}
                        /\ m.rels = OnNode(rels, m.node)
                        /\ m.recips = Recipients(OnNode(rels, m.node), FNode)
                        /\ m = Msg("ForwardsTo", m.node, OnNode(rels, m.node), m.recips)
  BY <1>1, <1>6, SMTT(30), Z3T(30) DEF Msg
<1>8. \A c \in fmarked' : c \in FClient /\ Reached(c)'
  <2>. SUFFICES ASSUME NEW c \in Recipients(here, FNode), Gone(here) = {}
                PROVE  c \in FClient /\ Reached(c)'
    BY <1>1, <1>2 DEF Marked
  <2>1. \A r \in here : r.c \in fup
    BY DEF Gone
  <2>. HIDE DEF here
  <2>2. c \in FClient /\ WillReach(c, here)
    BY <1>4, RecipientsReach, Zenon
  <2>. QED  BY <1>4, <1>5, <2>1, <2>2, ServedReached, Zenon
<1>9. \A m \in fwire' : m.recips \subseteq FClient /\ \A c \in m.recips : WillReach(c, m.rels)
  BY <1>4, <1>7, RecipientsReach, SMTT(30), Z3T(30)
<1>10. FwTypeOK'
  <2>1. fwire' \subseteq [type : MsgTypes, node : FNode, rels : SUBSET Rels, recips : SUBSET FClient]
    <3>. SUFFICES ASSUME NEW m \in fwire'
                  PROVE  m \in [type : MsgTypes, node : FNode, rels : SUBSET Rels, recips : SUBSET FClient]
      OBVIOUS
    <3>1. m.rels \in SUBSET Rels /\ m.recips \in SUBSET FClient /\ m.node \in FNode
      BY <1>3, <1>7, <1>9, Zenon DEF OnNode, Sound
    <3>2. m = Msg("ForwardsTo", m.node, m.rels, m.recips)
      BY <1>7, Zenon
    <3>. QED  BY <3>1, <3>2 DEF Msg, MsgTypes
  <2>. QED  BY <1>2, <1>5, <1>8, <2>1 DEF FwTypeOK, SendsTo
<1>11. \A r \in rels : Home[r.c] # Origin => fgot'[r.c] = 0
  BY <1>2, <1>5, <1>6 DEF NothingYet, SendsTo, OnNode
<1>12. WireOK'
  <2>1. ASSUME NEW m \in fwire' PROVE ForwardsToOK(m)'
    BY <1>2, <1>7, <1>9, <1>11, ZenonT(60) DEF ForwardsToOK, WillReach, OnNode
  <2>2. \A m, q \in fwire' : m.node = q.node => m = q
    BY <1>7
  <2>. QED  BY <1>7, <2>1, <2>2 DEF WireOK
<1>13. NothingYet' /\ JoinOK' /\ MarkedOK' /\ GoneOK'
  BY <1>2, <1>8 DEF NothingYet, JoinOK, MarkedOK, GoneOK
<1>14. \A c \in FClient : Touched(c)' => \E r \in rels : r.c = c
  BY <1>5, <1>7, ZenonT(60) DEF Touched, Coming, OnNode
<1>15. \A r \in rels : r.c \in fup => Touched(r.c)'
  <2>. SUFFICES ASSUME NEW r \in rels, r.c \in fup PROVE Touched(r.c)'
    BY Zenon
  <2>1. CASE Home[r.c] = Origin
    <3>1. r \in here
      BY <2>1, Zenon DEF OnNode
    <3>. QED  BY <1>5, <3>1 DEF SendsTo, Touched
  <2>2. CASE Home[r.c] # Origin
    <3>. DEFINE n == Home[r.c]
                m == Msg("ForwardsTo", n, OnNode(rels, n), Recipients(OnNode(rels, n), FNode))
    <3>1. m \in fwire'
      BY <1>1, <2>2, Zenon
    <3>2. m.type = "ForwardsTo" /\ m.rels = OnNode(rels, n)
      BY DEF Msg
    <3>3. r \in OnNode(rels, n)
      BY DEF OnNode
    <3>. QED  BY <3>1, <3>2, <3>3 DEF Touched, Coming
  <2>. QED  BY <2>1, <2>2
<1>16. OneMember'
  BY <1>2, <1>3, <1>14, ForwardAssumption DEF OneMember, Fits
<1>17. PlainServed'
  <2>. SUFFICES ASSUME ftarget = "none", NEW c \in fup \ Group PROVE Touched(c)'
    BY <1>2, Zenon DEF PlainServed
  <2>1. \E r \in rels : r.c = c
    BY <1>3, ForwardAssumption DEF Fits, FwTypeOK
  <2>. QED  BY <1>15, <2>1, Zenon
<1>18. MemberServed'
  <2>. SUFFICES ASSUME ftarget = "none", Smooth, NEW c \in Group PROVE \E d \in Group : Touched(d)'
    BY <1>2, Zenon DEF MemberServed, Smooth
  <2>1. PICK r \in rels : r.c \in Group
    BY <1>3, ForwardAssumption DEF Fits
  <2>2. r.c \in fup
    BY <2>1, ForwardAssumption, Zenon DEF GoneOK, Smooth
  <2>. QED  BY <1>15, <2>1, <2>2, Zenon
<1>. QED  BY <1>10, <1>12, <1>13, <1>16, <1>17, <1>18, Zenon

\* The messages Forwards that ask every other node.
AskAll == {Msg("Forwards", n, {}, {}) : n \in Others}

\* Broadcast asks every other node, and nothing else is on the wire.
LEMMA AskedAll ==
  ASSUME fwire' = AskAll
  PROVE  /\ \A m \in fwire' : m.type = "Forwards" /\ m.node \in Others /\ m = Msg("Forwards", m.node, {}, {})
         /\ \A n \in Others : Asked(n)'
         /\ fwire' \subseteq [type : MsgTypes, node : FNode, rels : SUBSET Rels, recips : SUBSET FClient]
         /\ \A c : ~Coming(c)'
<1>1. \A m \in fwire' : m.type = "Forwards" /\ m.node \in Others /\ m = Msg("Forwards", m.node, {}, {})
  BY DEF AskAll, Msg
<1>2. ASSUME NEW n \in Others PROVE Asked(n)'
  <2>1. Msg("Forwards", n, {}, {}) \in fwire'
    BY DEF AskAll
  <2>2. Msg("Forwards", n, {}, {}).type = "Forwards" /\ Msg("Forwards", n, {}, {}).node = n
    BY Zenon DEF Msg
  <2>. QED  BY <2>1, <2>2 DEF Asked
<1>3. fwire' \subseteq [type : MsgTypes, node : FNode, rels : SUBSET Rels, recips : SUBSET FClient]
  BY DEF AskAll, Msg, MsgTypes, Others
<1>. QED  BY <1>1, <1>2, <1>3 DEF Coming

\* forwards in broadcast mode keeps the invariant.
LEMMA BroadcastInv ==
  ASSUME FwInv, forwards_broadcast
  PROVE  FwInv'
<1>. USE DEF FwInv
<1>1. PICK rels \in Matches({Origin}) :
        LET plain == {r \in rels : ~r.shared} IN
        /\ forwards_to(plain)
        /\ IF Gone(plain) # {}
           THEN /\ frun' = "done" /\ fhist' = [fhist EXCEPT !.stopped = TRUE]
                /\ UNCHANGED <<fwire, freply, fmarked>>
           ELSE /\ frun' = "join" /\ fwire' = AskAll
                /\ freply' = [n \in FNode |-> IF n = Origin
                                THEN [state |-> "ok", shareds |-> rels \ plain, recips |-> Recipients(rels, {Origin})]
                                ELSE NoReply]
                /\ UNCHANGED <<fmarked, fhist>>
  BY Zenon DEF forwards_broadcast, AskAll
<1>2. /\ fmode = "broadcast" /\ frun = "forwards" /\ ftarget = "none"
      /\ UNCHANGED <<fmode, ftarget, fup>>
      /\ fwire = {} /\ fmarked = {} /\ ~fhist.stopped
  BY DEF forwards_broadcast, NothingYet
<1>. DEFINE plain == {r \in rels : ~r.shared}
<1>3. Fits(rels, {Origin})
  BY MatchesFit, Zenon
<1>4. /\ Sound(rels) /\ Sound(plain)
      /\ \A r \in plain : r.c \in FClient /\ r.c \notin Group /\ Home[r.c] = Origin
      /\ \A r \in rels \ plain : r.c \in Group
  BY <1>3 DEF Fits, Sound, Rels
<1>5. SendsTo(plain) /\ \A c \in FClient : fgot'[c] > 0 => \E r \in plain : r.c = c
  BY <1>1, <1>2, <1>4, FirstSend, Zenon
<1>6. \A c \in Group : ~(fgot'[c] > 0) /\ fgot'[c] = 0
  BY <1>4, <1>5, ForwardAssumption DEF SendsTo
<1>7. CASE Gone(plain) # {}
  <2>1. /\ frun' = "done" /\ fhist' = [fhist EXCEPT !.stopped = TRUE]
        /\ UNCHANGED <<fwire, freply, fmarked>>
    BY <1>1, <1>7
  <2>2. fhist.gone
    <3>1. PICK r \in plain : r.c \notin fup
      BY <1>7 DEF Gone
    <3>. QED  BY <1>4, <3>1 DEF GoneOK
  <2>3. fhist'.gone /\ fhist'.stopped /\ fhist' \in [gone : BOOLEAN, stopped : BOOLEAN, lost : SUBSET FNode]
    BY <2>1, <2>2, Zenon DEF FwTypeOK
  <2>4. FwTypeOK'
    BY <1>2, <1>5, <2>1, <2>3 DEF FwTypeOK, SendsTo
  <2>5. NothingYet' /\ WireOK' /\ JoinOK' /\ MarkedOK' /\ GoneOK'
    BY <1>2, <2>1, <2>3 DEF NothingYet, WireOK, JoinOK, MarkedOK, GoneOK
  <2>6. OneMember'
    BY <1>2, <1>6, <2>1, Zenon DEF OneMember, Touched, Coming
  <2>7. PlainServed' /\ MemberServed'
    BY <2>3 DEF PlainServed, MemberServed, Smooth
  <2>. QED  BY <2>4, <2>5, <2>6, <2>7
<1>8. CASE Gone(plain) = {}
  <2>. DEFINE own == [state |-> "ok", shareds |-> rels \ plain, recips |-> Recipients(rels, {Origin})]
  <2>1. /\ frun' = "join" /\ fwire' = AskAll
        /\ freply' = [n \in FNode |-> IF n = Origin THEN own ELSE NoReply]
        /\ UNCHANGED <<fmarked, fhist>>
    BY <1>1, <1>8, Zenon
  <2>2. /\ \A m \in fwire' : m.type = "Forwards" /\ m.node \in Others /\ m = Msg("Forwards", m.node, {}, {})
        /\ \A n \in Others : Asked(n)'
        /\ fwire' \subseteq [type : MsgTypes, node : FNode, rels : SUBSET Rels, recips : SUBSET FClient]
        /\ \A c : ~Coming(c)'
    BY <2>1, AskedAll
  <2>3. \A r \in plain : r.c \in fup
    BY <1>8, Zenon DEF Gone
  <2>4. \A c \in Recipients(rels, {Origin}) : c \in FClient /\ (Reached(c)' \/ c \in Group)
    <3>. SUFFICES ASSUME NEW c \in Recipients(rels, {Origin}), c \notin Group
                  PROVE  Reached(c)'
      BY <1>4, RecipientsReach, Zenon
    <3>1. \E r \in plain : r.c = c
      BY Zenon DEF Recipients
    <3>. QED  BY <1>5, <2>3, <3>1, Zenon DEF SendsTo, Reached
  <2>5. /\ own \in Replies /\ NoReply \in Replies
        /\ own.shareds = rels \ plain /\ own.recips = Recipients(rels, {Origin})
        /\ NoReply.state = "none" /\ NoReply.shareds = {} /\ NoReply.recips = {}
    BY <1>4, <2>4, SMTT(30) DEF Sound, NoReply, Replies
  <2>. HIDE DEF own
  <2>6. freply'[Origin] = own /\ \A n \in Others : freply'[n] = NoReply
    BY <2>1, ForwardAssumption, Zenon DEF Others
  <2>7. FwTypeOK'
    BY <1>2, <1>5, <2>1, <2>2, <2>5, Zenon DEF FwTypeOK, SendsTo
  <2>8. WireOK'
    <3>1. \A c \in FClient : Home[c] # Origin => fgot'[c] = 0
      BY <1>2, <1>4, <1>5, SMTT(30), Z3T(30) DEF SendsTo, NothingYet
    <3>2. \A m \in fwire' : ForwardsOK(m)'
      BY <2>1, <2>2, <2>5, <2>6, <3>1, Zenon DEF ForwardsOK, Others
    <3>3. \A m, q \in fwire' : m.node = q.node => m = q
      BY <2>2
    <3>. QED  BY <2>2, <3>2, <3>3, Zenon DEF WireOK
  <2>9. JoinOK'
    <3>1. \A n \in FNode : n = Origin \/ n \in Others
      BY DEF Others
    <3>. QED  BY <1>2, <1>4, <1>6, <2>4, <2>5, <2>6, <3>1, ZenonT(60) DEF JoinOK
  <2>10. NothingYet' /\ MarkedOK' /\ GoneOK'
    BY <1>2, <2>1 DEF NothingYet, MarkedOK, GoneOK
  <2>11. OneMember'
    BY <1>2, <1>6, <2>2 DEF OneMember, Touched
  <2>12. PlainServed'
    <3>. SUFFICES ASSUME NEW c \in fup \ Group PROVE Touched(c)' \/ Asked(Home[c])'
      BY <1>2, Zenon DEF PlainServed
    <3>1. CASE Home[c] = Origin
      <4>1. PICK r \in rels : r.c = c
        BY <1>3, <3>1, Zenon DEF Fits, FwTypeOK
      <4>2. r \in plain
        BY <1>4, <4>1, Zenon
      <4>. QED  BY <1>5, <4>1, <4>2, Zenon DEF SendsTo, Touched
    <3>2. CASE Home[c] # Origin
      BY <2>2, <3>2, ForwardAssumption DEF Others, FwTypeOK
    <3>. QED  BY <3>1, <3>2
  <2>13. MemberServed'
    <3>. SUFFICES ASSUME NEW c \in Group PROVE Offers(Home[c])' \/ Asked(Home[c])'
      BY <1>2, <2>1, Zenon DEF MemberServed
    <3>1. CASE Home[c] = Origin
      <4>1. PICK r \in rels : r.c \in Group
        BY <1>3, <3>1, Zenon DEF Fits
      <4>2. r \in rels \ plain
        BY <1>4, <4>1
      <4>. QED  BY <2>5, <2>6, <3>1, <4>2, Zenon DEF Offers
    <3>2. CASE Home[c] # Origin
      BY <2>2, <3>2, ForwardAssumption, Zenon DEF Others
    <3>. QED  BY <3>1, <3>2, Zenon
  <2>. QED  BY <2>7, <2>8, <2>9, <2>10, <2>11, <2>12, <2>13
<1>. QED  BY <1>7, <1>8, Zenon

\* So does a publish to one client by its id.
LEMMA TargetInv ==
  ASSUME FwInv, forwards_target
  PROVE  FwInv'
<1>. USE DEF FwInv
<1>1. /\ fmode = "broadcast" /\ frun = "forwards" /\ ftarget # "none" /\ ftarget \in FClient
      /\ UNCHANGED <<fmode, ftarget, fup, fhist>>
      /\ fwire = {} /\ fmarked = {} /\ ~fhist.stopped
  BY Zenon DEF forwards_target, NothingYet, FwTypeOK
<1>2. OneMember' /\ PlainServed' /\ MemberServed' /\ GoneOK'
  BY <1>1 DEF OneMember, PlainServed, MemberServed, GoneOK
<1>3. CASE Home[ftarget] = Origin /\ ftarget \in fup
  <2>1. forwards_to(TargetRels) /\ fmarked' = {ftarget} /\ frun' = "done" /\ UNCHANGED <<fwire, freply>>
    BY <1>3 DEF forwards_target
  <2>2. Sound(TargetRels)
    BY <1>1, RouterGives
  <2>3. SendsTo(TargetRels)
    BY <1>1, <2>1, <2>2, FirstSend, Zenon
  <2>4. fgot'[ftarget] > 0
    BY <1>3, <2>3 DEF SendsTo, TargetRels, Rel
  <2>5. FwTypeOK'
    BY <1>1, <2>1, <2>3, ZenonT(60) DEF FwTypeOK, SendsTo
  <2>6. NothingYet' /\ WireOK' /\ JoinOK' /\ MarkedOK'
    BY <1>1, <2>1, <2>4, Zenon DEF NothingYet, WireOK, JoinOK, MarkedOK, Reached
  <2>. QED  BY <1>2, <2>5, <2>6
<1>4. CASE ~(Home[ftarget] = Origin /\ ftarget \in fup)
  <2>. DEFINE own == [NoReply EXCEPT !.state = "ok"]
  <2>1. /\ frun' = "join" /\ fwire' = AskAll
        /\ freply' = [n \in FNode |-> IF n = Origin THEN own ELSE NoReply]
        /\ UNCHANGED <<fgot, fmarked>>
    BY <1>4 DEF forwards_target, AskAll
  <2>2. /\ \A m \in fwire' : m.type = "Forwards" /\ m.node \in Others /\ m = Msg("Forwards", m.node, {}, {})
        /\ fwire' \subseteq [type : MsgTypes, node : FNode, rels : SUBSET Rels, recips : SUBSET FClient]
    BY <2>1, AskedAll
  <2>3. /\ own \in Replies /\ NoReply \in Replies
        /\ own.shareds = {} /\ own.recips = {}
        /\ NoReply.state = "none" /\ NoReply.shareds = {} /\ NoReply.recips = {}
    BY Zenon DEF NoReply, Replies
  <2>. HIDE DEF own
  <2>4. FwTypeOK'
    BY <1>1, <2>1, <2>2, <2>3 DEF FwTypeOK
  <2>5. WireOK'
    <3>1. \A m \in fwire' : ForwardsOK(m)'
      BY <1>1, <2>1, <2>2, <2>3, Zenon DEF ForwardsOK, Others, NothingYet
    <3>. QED  BY <2>2, <3>1, ZenonT(60) DEF WireOK
  <2>6. JoinOK'
    BY <1>1, <2>1, <2>3, Zenon DEF JoinOK
  <2>7. NothingYet' /\ MarkedOK'
    BY <1>1, <2>1 DEF NothingYet, MarkedOK
  <2>. QED  BY <1>2, <2>4, <2>5, <2>6, <2>7
<1>. QED  BY <1>3, <1>4

\* Before the answers are complete there are only questions and answers under way,
\* afterwards only relations to serve and acknowledgements.
LEMMA WirePhases ==
  ASSUME FwInv, NEW m \in fwire
  PROVE  /\ m.type \in MsgTypes
         /\ m.type \in {"Forwards", "Reply"} <=> frun = "join"
         /\ m.type \in {"ForwardsTo", "ForwardsToAck"} <=> frun = "done"
         /\ m.node \in FNode /\ m.rels \subseteq Rels /\ m.recips \subseteq FClient
<1>1. m.type \in MsgTypes /\ m.node \in FNode /\ m.rels \subseteq Rels /\ m.recips \subseteq FClient
  BY Zenon DEF FwInv, FwTypeOK
<1>2. /\ m.type \in {"Forwards", "Reply"} => frun = "join"
      /\ m.type \in {"ForwardsTo", "ForwardsToAck"} => frun = "done"
  BY DEF FwInv, WireOK, ForwardsOK, ReplyOK, ForwardsToOK, AckOK
<1>. QED  BY <1>1, <1>2 DEF MsgTypes

\* The handler of ForwardsTo keeps the invariant.
LEMMA OnForwardsToInv ==
  ASSUME FwInv, NEW m \in fwire, on_ForwardsTo(m)
  PROVE  FwInv'
<1>. DEFINE ack == Msg("ForwardsToAck", m.node, {}, m.recips)
            acked == fmode = "raft" /\ Gone(m.rels) = {}
<1>1. /\ m.type = "ForwardsTo" /\ forwards_to(m.rels)
      /\ fwire' = (fwire \ {m}) \cup (IF acked THEN {ack} ELSE {})
      /\ UNCHANGED <<fmode, ftarget, frun, fup, freply, fmarked, fhist>>
  BY ZenonT(60) DEF on_ForwardsTo
<1>2. ForwardsToOK(m) /\ frun = "done"
  BY <1>1 DEF FwInv, WireOK, ForwardsToOK
<1>3. \A r \in m.rels : r.c \in FClient /\ fgot[r.c] = 0 /\ Home[r.c] = m.node
  BY <1>2, WirePhases, ZenonT(30) DEF ForwardsToOK, Rels
<1>4. SendsTo(m.rels)
  BY <1>3, <1>1, SendStep DEF FwInv
<1>5. ack.type = "ForwardsToAck" /\ ack.node = m.node /\ ack.rels = {} /\ ack.recips = m.recips
  BY Zenon DEF Msg
<1>6. ack \in [type : MsgTypes, node : FNode, rels : SUBSET Rels, recips : SUBSET FClient]
  BY WirePhases, Zenon DEF Msg, MsgTypes
<1>. HIDE DEF ack
<1>7. FwTypeOK'
  BY <1>1, <1>4, <1>6, Zenon DEF FwInv, FwTypeOK, SendsTo
<1>8. ASSUME acked PROVE \A c \in m.recips : Reached(c)'
  <2>. SUFFICES ASSUME NEW c \in m.recips PROVE Reached(c)'  OBVIOUS
  <2>1. WillReach(c, m.rels)
    BY <1>2, <1>8, Zenon DEF ForwardsToOK
  <2>2. \A r \in m.rels : r.c \in fup /\ fgot'[r.c] > 0
    BY <1>4, <1>8 DEF Gone, SendsTo
  <2>. QED  BY <2>1, <2>2 DEF WillReach, Reached, GroupGot
<1>. HIDE DEF acked
<1>9. \A q \in fwire' : (q \in fwire /\ q # m /\ q.node # m.node) \/ (q = ack /\ acked)
  BY <1>1 DEF FwInv, WireOK
<1>10. WireOK'
  <2>1. ASSUME NEW q \in fwire', q.type = "ForwardsTo" PROVE ForwardsToOK(q)'
    <3>1. q \in fwire /\ q.node # m.node
      BY <1>5, <1>9, <2>1, Zenon
    <3>2. ForwardsToOK(q) /\ \A r \in q.rels : r.c \in FClient
      BY <2>1, <3>1, WirePhases DEF FwInv, WireOK, Rels
    <3>. QED  BY <1>1, <1>3, <1>4, <3>1, <3>2, SMTT(30), Z3T(30) DEF ForwardsToOK, WillReach, SendsTo
  <2>2. ASSUME NEW q \in fwire', q.type = "ForwardsToAck" PROVE AckOK(q)'
    <3>1. CASE q \in fwire
      <4>1. AckOK(q) /\ q.recips \subseteq FClient
        BY <2>2, <3>1, WirePhases, Zenon DEF FwInv, WireOK
      <4>. QED  BY <1>1, <1>4, <4>1, Zenon DEF AckOK, SendsTo
    <3>2. CASE q = ack /\ acked
      BY <1>1, <1>2, <1>5, <1>8, <3>2, Zenon DEF AckOK
    <3>. QED  BY <1>9, <3>1, <3>2, Zenon
  <2>3. \A q \in fwire' : q.type \notin {"Forwards", "Reply"}
    BY <1>2, <1>5, <1>9, WirePhases, Zenon
  <2>4. \A p, q \in fwire' : p.node = q.node => p = q
    BY <1>5, <1>9, Zenon DEF FwInv, WireOK
  <2>. QED  BY <2>1, <2>2, <2>3, <2>4, ZenonT(60) DEF WireOK
<1>11. NothingYet' /\ JoinOK' /\ GoneOK'
  BY <1>1, <1>2, Zenon DEF FwInv, NothingYet, JoinOK, GoneOK
<1>12. MarkedOK'
  BY <1>1, <1>4, Zenon DEF FwInv, FwTypeOK, MarkedOK, SendsTo
<1>13. \A c \in FClient : Touched(c)' => Touched(c)
  BY <1>1, <1>4, <1>5, <1>9, Zenon DEF Touched, Coming, SendsTo
<1>14. \A c \in fup : Touched(c) => Touched(c)'
  <2>. SUFFICES ASSUME NEW c \in fup, Touched(c) PROVE Touched(c)'  OBVIOUS
  <2>1. CASE fgot[c] > 0
    BY <1>4, <2>1, Zenon DEF SendsTo, Touched, FwInv, FwTypeOK
  <2>2. ASSUME NEW q \in fwire, q.type = "ForwardsTo", NEW r \in q.rels, r.c = c PROVE Touched(c)'
    <3>1. CASE q = m
      BY <1>4, <2>2, <3>1 DEF SendsTo, Touched
    <3>2. CASE q # m
      <4>1. q \in fwire'
        BY <1>1, <3>2, Zenon
      <4>. QED  BY <2>2, <4>1, Zenon DEF Touched, Coming
    <3>. QED  BY <3>1, <3>2, Zenon
  <2>. QED  BY <2>1, <2>2 DEF Touched, Coming
<1>15. OneMember'
  BY <1>1, <1>13, ForwardAssumption, Zenon DEF FwInv, OneMember
<1>16. \A n : ~Asked(n)
  BY <1>2, WirePhases, Zenon DEF Asked
<1>17. PlainServed'
  BY <1>1, <1>2, <1>14, <1>16 DEF FwInv, PlainServed, Known
<1>18. MemberServed'
  <2>. SUFFICES ASSUME ftarget = "none", Smooth, NEW c \in Group, Known(c)
                PROVE  \E d \in Group : Touched(d)'
    BY <1>1, <1>2 DEF MemberServed, Smooth, Known
  <2>1. PICK d \in Group : Touched(d)
    BY <1>2, SMTT(30) DEF FwInv, MemberServed
  <2>2. d \in fup
    BY <2>1, ForwardAssumption DEF FwInv, GoneOK, Smooth
  <2>. QED  BY <1>14, <2>1, <2>2, Zenon
<1>. QED  BY <1>7, <1>10, <1>11, <1>12, <1>15, <1>17, <1>18, Zenon DEF FwInv

\* So does the acknowledgement, which marks the recipients.
LEMMA OnAckInv ==
  ASSUME FwInv, NEW m \in fwire, on_ForwardsToAck(m)
  PROVE  FwInv'
<1>1. /\ m.type = "ForwardsToAck" /\ fmarked' = fmarked \cup m.recips /\ fwire' = fwire \ {m}
      /\ UNCHANGED <<fmode, ftarget, frun, fup, fgot, freply, fhist>>
  BY Zenon DEF on_ForwardsToAck
<1>2. frun = "done" /\ \A c \in m.recips : Reached(c)
  BY <1>1, Zenon DEF FwInv, WireOK, AckOK
<1>3. FwTypeOK'
  BY <1>1, WirePhases, ZenonT(60) DEF FwInv, FwTypeOK
<1>4. \A c : Reached(c)' <=> Reached(c)
  BY <1>1, Zenon DEF Reached, GroupGot
<1>5. WireOK'
  <2>1. \A q \in fwire' : /\ ForwardsToOK(q)' <=> ForwardsToOK(q)
                          /\ AckOK(q)' <=> AckOK(q)
                          /\ ForwardsOK(q)' <=> ForwardsOK(q)
                          /\ ReplyOK(q)' <=> ReplyOK(q)
    BY <1>1, <1>4, ZenonT(60) DEF ForwardsToOK, AckOK, ForwardsOK, ReplyOK, WillReach
  <2>. QED  BY <1>1, <2>1 DEF FwInv, WireOK
<1>6. NothingYet' /\ JoinOK' /\ MarkedOK' /\ GoneOK'
  BY <1>1, <1>2, <1>4, Zenon DEF FwInv, NothingYet, JoinOK, MarkedOK, GoneOK
<1>7. \A c : Touched(c)' <=> Touched(c)
  BY <1>1 DEF Touched, Coming
<1>8. \A n : Asked(n)' <=> Asked(n)
  BY <1>1, ZenonT(60) DEF Asked
<1>9. OneMember' /\ PlainServed' /\ MemberServed'
  BY <1>1, <1>2, <1>7, <1>8, Zenon DEF FwInv, OneMember, PlainServed, MemberServed, Smooth, Known
<1>. QED  BY <1>3, <1>5, <1>6, <1>9, Zenon DEF FwInv

\* The handler of Forwards keeps the invariant.
LEMMA OnForwardsInv ==
  ASSUME FwInv, NEW m \in fwire, on_Forwards(m)
  PROVE  FwInv'
<1>1. PICK rels \in IF ftarget = "none" THEN Matches({m.node})
                    ELSE {IF Home[ftarget] = m.node THEN TargetRels ELSE {}} :
        LET plain == {r \in rels : ~r.shared} IN
        /\ forwards_to(plain)
        /\ fwire' = (fwire \ {m}) \cup
             {Msg("Reply", m.node, IF Gone(plain) = {} THEN rels \ plain ELSE {},
                  Recipients(plain \ Gone(plain), {m.node}))}
  BY Zenon DEF on_Forwards
<1>. DEFINE plain == {r \in rels : ~r.shared}
            offer == IF Gone(plain) = {} THEN rels \ plain ELSE {}
            reached == Recipients(plain \ Gone(plain), {m.node})
            reply == Msg("Reply", m.node, offer, reached)
<1>2. /\ m.type = "Forwards"
      /\ forwards_to(plain) /\ fwire' = (fwire \ {m}) \cup {reply}
      /\ UNCHANGED <<fmode, ftarget, frun, fup, freply, fmarked, fhist>>
  BY <1>1, ZenonT(30) DEF on_Forwards
<1>3. /\ frun = "join" /\ m.node \in Others /\ freply[m.node] = NoReply
      /\ \A c \in FClient : Home[c] = m.node => fgot[c] = 0
  BY <1>2, ZenonT(60) DEF FwInv, WireOK, ForwardsOK
<1>4. /\ Sound(rels) /\ \A r \in rels : Home[r.c] = m.node
      /\ ftarget = "none" => Fits(rels, {m.node})
      /\ \A r \in rels \ plain : ftarget = "none" /\ r.c \in Group
  <2>1. CASE ftarget = "none"
    <3>1. Fits(rels, {m.node})
      BY <1>1, <2>1, MatchesFit
    <3>. QED  BY <2>1, <3>1, ZenonT(60) DEF Fits, Sound
  <2>2. CASE ftarget # "none"
    <3>1. rels \subseteq {Rel(ftarget, FALSE)} /\ ftarget \in FClient
          /\ (Home[ftarget] = m.node \/ rels = {})
      BY <1>1, <2>2, Zenon DEF TargetRels, FwInv, FwTypeOK
    <3>2. /\ Rel(ftarget, FALSE) \in Rels /\ ~Rel(ftarget, FALSE).shared
          /\ Rel(ftarget, FALSE).c = ftarget
      BY <3>1 DEF Rel, Rels
    <3>. QED  BY <2>2, <3>1, <3>2, Zenon DEF Sound
  <2>. QED  BY <2>1, <2>2
<1>5. /\ Sound(plain) /\ Sound(plain \ Gone(plain)) /\ \A r \in plain \ Gone(plain) : r.c \in fup
      /\ \A r \in plain : r.c \in FClient /\ Home[r.c] = m.node /\ fgot[r.c] = 0 /\ ~r.shared
  BY <1>3, <1>4, ZenonT(30) DEF Sound, Gone, Rels
<1>6. SendsTo(plain)
  BY <1>2, <1>5, SendStep, ZenonT(60) DEF FwInv
<1>7. offer \subseteq Rels /\ \A r \in offer : ftarget = "none" /\ r.c \in Group
  BY <1>4, Zenon DEF Sound
<1>8. reached \subseteq FClient /\ \A c \in reached : fgot'[c] > 0
  <2>1. \A c \in reached : \E r \in plain \ Gone(plain) : r.c = c
    BY ZenonT(60) DEF Recipients
  <2>2. \A r \in plain \ Gone(plain) : r.c \in FClient /\ fgot'[r.c] > 0
    BY <1>5, <1>6 DEF SendsTo
  <2>. HIDE DEF reached, plain
  <2>. QED  BY <2>1, <2>2
<1>9. /\ reply.type = "Reply" /\ reply.node = m.node /\ reply.rels = offer /\ reply.recips = reached
      /\ reply \in [type : MsgTypes, node : FNode, rels : SUBSET Rels, recips : SUBSET FClient]
  BY <1>7, <1>8, WirePhases, Zenon DEF Msg, MsgTypes
<1>10. ftarget = "none" => \A c \in Group : fgot'[c] = fgot[c]
  BY <1>4, <1>6, ForwardAssumption, Zenon DEF SendsTo, Fits
<1>11. ftarget = "none" /\ Smooth /\ (\E c \in Group : Home[c] = m.node) => offer # {}
  <2>. SUFFICES ASSUME ftarget = "none", Smooth, NEW c \in Group, Home[c] = m.node PROVE offer # {}
    BY Zenon
  <2>1. PICK r \in rels : r.c \in Group
    BY <1>4, Zenon DEF Fits
  <2>2. r \in rels \ plain
    BY <1>4, <2>1, Zenon DEF Fits
  <2>3. Gone(plain) = {}
    BY <1>5, Zenon DEF Gone, FwInv, GoneOK, Smooth
  <2>. QED  BY <2>2, <2>3, Zenon
<1>12. ftarget = "none" => \A c \in FClient \ Group : Home[c] = m.node => \E r \in plain : r.c = c
  <2>. SUFFICES ASSUME ftarget = "none", NEW c \in FClient \ Group, Home[c] = m.node PROVE \E r \in plain : r.c = c
    OBVIOUS
  <2>1. PICK r \in rels : r.c = c /\ ~r.shared
    BY <1>4, ZenonT(60) DEF Fits
  <2>. QED  BY <2>1, Zenon
<1>. HIDE DEF reply, offer, reached, plain
<1>13. \A q \in fwire' : (q \in fwire /\ q # m /\ q.node # m.node) \/ q = reply
  BY <1>2 DEF FwInv, WireOK
<1>14. FwTypeOK'
  BY <1>2, <1>6, <1>9, ZenonT(60) DEF FwInv, FwTypeOK, SendsTo
<1>15. WireOK'
  <2>1. \A q \in fwire' : q.type \notin {"ForwardsTo", "ForwardsToAck"}
    BY <1>3, <1>9, <1>13, WirePhases, Zenon
  <2>2. ASSUME NEW q \in fwire', q.type = "Forwards" PROVE ForwardsOK(q)'
    <3>1. q \in fwire /\ q.node # m.node
      BY <1>9, <1>13, <2>2, Zenon
    <3>2. ForwardsOK(q)
      BY <2>2, <3>1, Zenon DEF FwInv, WireOK
    <3>. QED  BY <1>2, <1>5, <1>6, <3>1, <3>2, ZenonT(60) DEF ForwardsOK, SendsTo
  <2>3. ASSUME NEW q \in fwire', q.type = "Reply" PROVE ReplyOK(q)'
    <3>1. CASE q \in fwire
      <4>1. ReplyOK(q) /\ q.recips \subseteq FClient
        BY <2>3, <3>1, WirePhases DEF FwInv, WireOK
      <4>2. \A c \in FClient : fgot[c] > 0 => fgot'[c] > 0
        BY <1>6, ZenonT(60) DEF SendsTo
      <4>. QED  BY <1>2, <4>1, <4>2, Zenon DEF ReplyOK
    <3>2. CASE q = reply
      BY <1>2, <1>3, <1>7, <1>8, <1>9, <3>2, Zenon DEF ReplyOK
    <3>. QED  BY <1>13, <3>1, <3>2, Zenon
  <2>4. \A p, q \in fwire' : p.node = q.node => p = q
    BY <1>9, <1>13, Zenon DEF FwInv, WireOK
  <2>. QED  BY <2>1, <2>2, <2>3, <2>4, Zenon DEF WireOK
<1>16. NothingYet' /\ GoneOK'
  BY <1>2, <1>3, Zenon DEF FwInv, NothingYet, GoneOK
<1>17. JoinOK' /\ MarkedOK'
  <2>1. \A c \in FClient : Reached(c) => Reached(c)'
    BY <1>6, Zenon DEF SendsTo
  <2>2. fmarked \subseteq FClient /\ \A n \in FNode : freply[n].recips \subseteq FClient
    BY DEF FwInv, FwTypeOK, Replies
  <2>. QED  BY <1>2, <1>3, <1>10, <2>1, <2>2, Zenon DEF FwInv, JoinOK, MarkedOK
<1>18. \A c : ~Coming(c) /\ ~Coming(c)'
  BY <1>3, <1>9, <1>13, WirePhases, ZenonT(30) DEF Coming
<1>19. OneMember'
  BY <1>2, <1>10, <1>18, ZenonT(30) DEF FwInv, OneMember, Touched
<1>20. \A n : n # m.node /\ Asked(n) => Asked(n)'
  BY <1>2, Zenon DEF Asked
<1>21. PlainServed'
  <2>. SUFFICES ASSUME ftarget = "none", ~fhist.stopped, NEW c \in fup \ Group, Known(c), Home[c] \notin fhist.lost
                PROVE  Touched(c)' \/ Asked(Home[c])'
    BY <1>2, Zenon DEF PlainServed, Known
  <2>1. Touched(c) \/ Asked(Home[c])
    BY <1>3, Zenon DEF FwInv, PlainServed
  <2>2. c \in FClient /\ (fgot[c] > 0 => fgot'[c] > 0)
    BY <1>6, Zenon DEF SendsTo, FwInv, FwTypeOK
  <2>3. Home[c] = m.node => fgot'[c] > 0
    <3>. SUFFICES ASSUME Home[c] = m.node PROVE fgot'[c] > 0  BY Zenon
    <3>1. PICK r \in plain : r.c = c
      BY <1>12, <2>2, ZenonT(60)
    <3>. QED  BY <1>6, <3>1, Zenon DEF SendsTo
  <2>. QED  BY <1>18, <1>20, <2>1, <2>2, <2>3, Zenon DEF Touched
<1>22. MemberServed'
  <2>. SUFFICES ASSUME ftarget = "none", Smooth, NEW c \in Group PROVE Offers(Home[c])' \/ Asked(Home[c])'
    BY <1>2, <1>3, ZenonT(30) DEF MemberServed, Smooth
  <2>1. Offers(Home[c]) \/ Asked(Home[c])
    BY <1>3, ZenonT(30) DEF FwInv, MemberServed
  <2>2. CASE Home[c] = m.node
    <3>1. offer # {} /\ reply \in fwire'
      BY <1>2, <1>11, <2>2, Zenon
    <3>. QED  BY <1>9, <2>2, <3>1, Zenon DEF Offers
  <2>3. CASE Home[c] # m.node
    <3>1. Offers(Home[c]) => Offers(Home[c])'
      BY <1>2, <2>3, Zenon DEF Offers
    <3>. QED  BY <1>20, <2>1, <2>3, <3>1, Zenon
  <2>. QED  BY <2>2, <2>3
<1>. QED  BY <1>14, <1>15, <1>16, <1>17, <1>19, <1>21, <1>22 DEF FwInv

\* So does its reply, which offers members of the group.
LEMMA OnReplyInv ==
  ASSUME FwInv, NEW m \in fwire, on_Reply(m)
  PROVE  FwInv'
<1>. DEFINE new == [state |-> "ok", shareds |-> m.rels, recips |-> m.recips]
<1>1. /\ m.type = "Reply" /\ freply' = [freply EXCEPT ![m.node] = new] /\ fwire' = fwire \ {m}
      /\ UNCHANGED <<fmode, ftarget, frun, fup, fgot, fmarked, fhist>>
  BY Zenon DEF on_Reply
<1>2. frun = "join" /\ ReplyOK(m)
  BY <1>1, Zenon DEF FwInv, WireOK, ReplyOK
<1>3. new \in Replies /\ new.shareds = m.rels /\ new.recips = m.recips
  BY WirePhases, Zenon DEF Replies
<1>. HIDE DEF new
<1>4. FwTypeOK'
  BY <1>1, <1>3, Zenon DEF FwInv, FwTypeOK
<1>5. freply'[m.node] = new /\ \A n \in FNode : n # m.node => freply'[n] = freply[n]
  BY <1>1, WirePhases, Zenon DEF FwInv, FwTypeOK
<1>6. \A c : Reached(c)' <=> Reached(c)
  BY <1>1 DEF Reached, GroupGot
<1>7. WireOK'
  <2>1. \A q \in fwire' : q \in fwire /\ q.node # m.node /\ q.node \in FNode
    BY <1>1, WirePhases, Zenon DEF FwInv, WireOK
  <2>2. \A q \in fwire' : /\ ForwardsOK(q) => ForwardsOK(q)'
                          /\ ReplyOK(q) => ReplyOK(q)'
                          /\ q.type \notin {"ForwardsTo", "ForwardsToAck"}
    BY <1>1, <1>2, <1>5, <2>1, WirePhases, Zenon DEF ForwardsOK, ReplyOK
  <2>. QED  BY <2>1, <2>2, ZenonT(60) DEF FwInv, WireOK
<1>8. JoinOK'
  BY <1>1, <1>2, <1>3, <1>5, <1>6, SMTT(30), Z3T(30) DEF FwInv, JoinOK, ReplyOK, Reached
<1>9. NothingYet' /\ MarkedOK' /\ GoneOK'
  BY <1>1, <1>2, <1>6, Zenon DEF FwInv, NothingYet, MarkedOK, GoneOK
<1>10. \A c : Touched(c)' <=> Touched(c)
  BY <1>1 DEF Touched, Coming
<1>11. \A n : Asked(n)' <=> Asked(n)
  BY <1>1, ZenonT(60) DEF Asked
<1>12. OneMember' /\ PlainServed'
  BY <1>1, <1>10, <1>11 DEF FwInv, OneMember, PlainServed, Known
<1>13. \A n \in FNode : Offers(n) => Offers(n)'
  <2>. SUFFICES ASSUME NEW n \in FNode, Offers(n) PROVE Offers(n)'  BY Zenon
  <2>1. CASE n = m.node
    <3>1. freply[n].shareds = {}
      BY <1>2, <2>1, SMTT(30), Z3T(30) DEF ReplyOK, NoReply
    <3>2. m.rels # {}
      BY <2>1, <3>1, Zenon DEF Offers, FwInv, WireOK
    <3>. QED  BY <1>3, <1>5, <2>1, <3>2, Zenon DEF Offers
  <2>2. CASE n # m.node
    BY <1>1, <1>5, <2>2, Zenon DEF Offers
  <2>. QED  BY <2>1, <2>2
<1>14. MemberServed'
  BY <1>1, <1>2, <1>11, <1>13, ForwardAssumption, Zenon DEF FwInv, MemberServed, Smooth
<1>. QED  BY <1>4, <1>7, <1>8, <1>9, <1>12, <1>14, Zenon DEF FwInv

\* So does the end of join_all, where one of the offered members is chosen.
LEMMA JoinAllInv ==
  ASSUME FwInv, join_all
  PROVE  FwInv'
<1>. DEFINE offered == UNION {freply[n].shareds : n \in FNode}
<1>1. PICK chosen \in GroupChoices(offered) :
        /\ forwards_to(OnNode(chosen, Origin))
        /\ fwire' = fwire \cup {Msg("ForwardsTo", Home[r.c], {r}, {}) : r \in chosen \ OnNode(chosen, Origin)}
  BY ZenonT(60) DEF join_all
<1>2. /\ frun = "join" /\ frun' = "done" /\ fmode = "broadcast"
      /\ \A n \in Others : freply[n].state # "none"
      /\ fmarked' = UNION {freply[n].recips : n \in FNode}
      /\ UNCHANGED <<fmode, ftarget, fup, freply, fhist>>
  BY Zenon DEF join_all, FwInv, JoinOK
<1>3. fwire = {}
  <2>. SUFFICES ASSUME NEW m \in fwire PROVE FALSE  BY ZenonT(60)
  <2>1. ForwardsOK(m) \/ ReplyOK(m)
    BY <1>2, WirePhases, Zenon DEF FwInv, WireOK
  <2>. QED  BY <1>2, <2>1 DEF ForwardsOK, ReplyOK, NoReply
<1>4. \A r \in offered : r \in Rels /\ ftarget = "none" /\ r.c \in Group
  BY <1>2, SMTT(30), Z3T(30) DEF FwInv, FwTypeOK, Replies, JoinOK
<1>5. /\ chosen \subseteq offered /\ \A r, q \in chosen : r = q
      /\ offered # {} => chosen # {}
  BY Zenon DEF GroupChoices
<1>. HIDE DEF offered
<1>6. \A r \in chosen : r \in Rels /\ r.c \in FClient /\ Home[r.c] \in FNode /\ ftarget = "none"
                       /\ r.c \in Group /\ fgot[r.c] = 0
  BY <1>2, <1>4, <1>5, ForwardAssumption DEF FwInv, JoinOK
<1>7. SendsTo(OnNode(chosen, Origin))
  BY <1>1, <1>6, SendStep, ZenonT(60) DEF OnNode, FwInv
<1>8. \A m \in fwire' : \E r \in chosen : /\ m.type = "ForwardsTo" /\ m.rels = {r} /\ m.node = Home[r.c]
                                           /\ Home[r.c] # Origin /\ m = Msg("ForwardsTo", Home[r.c], {r}, {})
  BY <1>1, <1>3, SMTT(30), Z3T(30) DEF Msg, OnNode
<1>9. FwTypeOK'
  <2>1. fwire' \subseteq [type : MsgTypes, node : FNode, rels : SUBSET Rels, recips : SUBSET FClient]
    BY <1>6, <1>8 DEF Msg, MsgTypes
  <2>2. fmarked' \subseteq FClient
    BY <1>2 DEF FwInv, FwTypeOK, Replies
  <2>. QED  BY <1>2, <1>7, <2>1, <2>2, Zenon DEF FwInv, FwTypeOK, SendsTo
<1>10. WireOK'
  <2>1. ASSUME NEW m \in fwire' PROVE ForwardsToOK(m)'
    <3>1. PICK r \in chosen : m.rels = {r} /\ m.node = Home[r.c] /\ Home[r.c] # Origin
      BY <1>8, Zenon
    <3>2. fgot'[r.c] = 0
      BY <1>6, <1>7, <3>1 DEF SendsTo, OnNode
    <3>. QED  BY <1>2, <3>1, <3>2 DEF ForwardsToOK
  <2>2. \A m, q \in fwire' : m = q
    BY <1>5, <1>8, Zenon
  <2>. QED  BY <1>8, <2>1, <2>2, Zenon DEF WireOK
<1>11. NothingYet' /\ JoinOK' /\ GoneOK'
  BY <1>2, Zenon DEF FwInv, NothingYet, JoinOK, GoneOK
<1>12. MarkedOK'
  <2>. SUFFICES ASSUME NEW n \in FNode, NEW c \in freply[n].recips
                PROVE  Reached(c)' \/ (c \in Group /\ ftarget = "none")
    BY <1>2 DEF MarkedOK
  <2>1. c \in FClient /\ (Reached(c) \/ (c \in Group /\ ftarget = "none"))
    BY <1>2, ZenonT(30) DEF FwInv, FwTypeOK, Replies, JoinOK
  <2>. QED  BY <1>7, <2>1, Zenon DEF SendsTo
<1>13. OneMember'
  <2>1. \A c \in Group : ftarget = "none" /\ Touched(c)' => \E r \in chosen : r.c = c
    <3>. SUFFICES ASSUME NEW c \in Group, ftarget = "none", Touched(c)' PROVE \E r \in chosen : r.c = c
      BY ZenonT(60)
    <3>1. fgot'[c] > 0 => \E r \in chosen : r.c = c
      <4>1. c \in FClient
        BY ForwardAssumption, Zenon
      <4>2. fgot[c] = 0
        BY <1>2 DEF FwInv, JoinOK
      <4>3. (\A r \in OnNode(chosen, Origin) : r.c # c) => fgot'[c] = fgot[c]
        BY <1>7, <4>1, Zenon DEF SendsTo
      <4>4. OnNode(chosen, Origin) \subseteq chosen
        BY Zenon DEF OnNode
      <4>5. fgot'[c] > 0 => fgot'[c] # fgot[c]
        BY <4>2
      <4>. QED  BY <4>3, <4>4, <4>5, Zenon
    <3>2. Coming(c)' => \E r \in chosen : r.c = c
      BY <1>8, ZenonT(30) DEF Coming
    <3>. QED  BY <3>1, <3>2 DEF Touched
  <2>2. \A c, d \in Group : ftarget = "none" /\ Touched(c)' /\ Touched(d)' => c = d
    BY <1>5, <2>1, Zenon
  <2>3. ftarget' = ftarget
    BY <1>2, Zenon
  <2>. QED  BY <2>2, <2>3, Zenon DEF OneMember
<1>14. PlainServed'
  <2>. SUFFICES ASSUME ftarget = "none", ~fhist.stopped, NEW c \in fup \ Group, Known(c), Home[c] \notin fhist.lost
                PROVE  fgot'[c] > 0
    BY <1>2, ZenonT(30) DEF PlainServed, Known, Touched
  <2>1. Touched(c) \/ Asked(Home[c])
    BY <1>2, Zenon DEF FwInv, PlainServed
  <2>2. fgot[c] > 0 /\ c \in FClient
    BY <1>3, <2>1, Zenon DEF Touched, Coming, Asked, FwInv, FwTypeOK
  <2>. QED  BY <1>7, <2>2, ZenonT(30) DEF SendsTo
<1>15. MemberServed'
  <2>. SUFFICES ASSUME ftarget = "none", Smooth, NEW c \in Group PROVE \E d \in Group : Touched(d)'
    BY <1>2, ZenonT(30) DEF MemberServed, Smooth
  <2>1. freply[Home[c]].shareds # {} /\ Home[c] \in FNode
    BY <1>2, <1>3, ForwardAssumption, Zenon DEF FwInv, MemberServed, Offers, Asked
  <2>2. PICK r \in chosen : TRUE
    BY <1>5, <2>1, Zenon DEF offered
  <2>3. CASE Home[r.c] = Origin
    <3>1. r \in OnNode(chosen, Origin) /\ r.c \in fup
      BY <1>6, <2>3, Zenon DEF OnNode, FwInv, GoneOK, Smooth
    <3>. QED  BY <1>6, <1>7, <3>1, Zenon DEF SendsTo, Touched
  <2>4. CASE Home[r.c] # Origin
    <3>. DEFINE m == Msg("ForwardsTo", Home[r.c], {r}, {})
    <3>1. m \in fwire'
      BY <1>1, <2>4, Zenon DEF OnNode
    <3>2. m.type = "ForwardsTo" /\ m.rels = {r}
      BY DEF Msg
    <3>3. Touched(r.c)'
      BY <3>1, <3>2, Zenon DEF Touched, Coming
    <3>. QED  BY <1>6, <3>3
  <2>. QED  BY <2>3, <2>4
<1>. QED  BY <1>9, <1>10, <1>11, <1>12, <1>13, <1>14, <1>15 DEF FwInv

\* So does the loss of a message.
LEMMA LostInv ==
  ASSUME FwInv, NEW m \in fwire, Lost(m)
  PROVE  FwInv'
<1>1. /\ fwire' = fwire \ {m}
      /\ fhist' = [fhist EXCEPT !.lost = @ \cup {m.node}]
      /\ UNCHANGED <<fmode, ftarget, frun, fup, fgot, fmarked>>
  BY DEF Lost
<1>2. /\ fhist' \in [gone : BOOLEAN, stopped : BOOLEAN, lost : SUBSET FNode]
      /\ fhist'.gone = fhist.gone /\ fhist'.stopped = fhist.stopped
      /\ fhist'.lost = fhist.lost \cup {m.node}
  BY <1>1, WirePhases, ZenonT(60) DEF FwInv, FwTypeOK
<1>3. /\ freply' \in [FNode -> Replies]
      /\ \A n \in FNode : freply'[n].shareds = freply[n].shareds /\ freply'[n].recips = freply[n].recips
      /\ \A n \in FNode : n # m.node => freply'[n] = freply[n]
  <2>1. CASE m.type \in {"Forwards", "Reply"}
    <3>. DEFINE new == [freply[m.node] EXCEPT !.state = "failed"]
    <3>1. freply' = [freply EXCEPT ![m.node] = new] /\ freply[m.node] \in Replies
      BY <2>1, WirePhases DEF Lost, FwInv, FwTypeOK
    <3>2. new \in Replies /\ new.shareds = freply[m.node].shareds /\ new.recips = freply[m.node].recips
      BY <3>1, Zenon DEF Replies
    <3>. HIDE DEF new
    <3>. QED  BY <3>1, <3>2 DEF FwInv, FwTypeOK
  <2>2. CASE m.type \notin {"Forwards", "Reply"}
    <3>1. freply' = freply
      BY <2>2 DEF Lost
    <3>. QED  BY <3>1 DEF FwInv, FwTypeOK
  <2>. QED  BY <2>1, <2>2, Zenon
<1>4. FwTypeOK'
  BY <1>1, <1>2, <1>3 DEF FwInv, FwTypeOK
<1>5. \A c : Reached(c)' <=> Reached(c)
  BY <1>1, Zenon DEF Reached, GroupGot
<1>6. WireOK'
  <2>1. \A q \in fwire' : q \in fwire /\ q.node # m.node /\ q.node \in FNode
    BY <1>1, WirePhases DEF FwInv, WireOK
  <2>2. \A q \in fwire' : /\ ForwardsOK(q) => ForwardsOK(q)'
                          /\ ReplyOK(q) => ReplyOK(q)'
                          /\ ForwardsToOK(q) => ForwardsToOK(q)'
                          /\ AckOK(q) => AckOK(q)'
    BY <1>1, <1>3, <1>5, <2>1 DEF ForwardsOK, ReplyOK, ForwardsToOK, AckOK, WillReach
  <2>. QED  BY <2>1, <2>2 DEF FwInv, WireOK
<1>7. JoinOK'
  BY <1>1, <1>3, <1>5 DEF FwInv, JoinOK
<1>8. NothingYet' /\ MarkedOK' /\ GoneOK'
  BY <1>1, <1>2, <1>5 DEF FwInv, NothingYet, MarkedOK, GoneOK
<1>9. \A c : Touched(c)' => Touched(c)
  BY <1>1 DEF Touched, Coming
<1>10. OneMember'
  BY <1>1, <1>9, Zenon DEF FwInv, OneMember
<1>11. PlainServed'
  <2>. SUFFICES ASSUME frun # "forwards", ftarget = "none", ~fhist.stopped,
                       NEW c \in fup \ Group, Known(c), Home[c] \notin fhist.lost, Home[c] # m.node
                PROVE  Touched(c)' \/ Asked(Home[c])'
    BY <1>1, <1>2, Zenon DEF PlainServed, Known
  <2>1. Touched(c) \/ Asked(Home[c])
    BY Zenon DEF FwInv, PlainServed
  <2>2. m.type = "ForwardsTo" => \A r \in m.rels : r.c # c
    BY DEF FwInv, WireOK, ForwardsToOK
  <2>3. Touched(c) => Touched(c)'
    BY <1>1, <2>2 DEF Touched, Coming
  <2>4. Asked(Home[c]) => Asked(Home[c])'
    BY <1>1, Zenon DEF Asked
  <2>. QED  BY <2>1, <2>3, <2>4
<1>12. MemberServed'
  BY <1>2, Zenon DEF MemberServed, Smooth
<1>. QED  BY <1>4, <1>6, <1>7, <1>8, <1>10, <1>11, <1>12 DEF FwInv

\* So does the end of a session.
LEMMA SessionEndsInv ==
  ASSUME FwInv, NEW c \in FClient, SessionEnds(c)
  PROVE  FwInv'
<1>1. /\ fup' = fup \ {c} /\ fhist' = [fhist EXCEPT !.gone = TRUE]
      /\ UNCHANGED <<fmode, ftarget, frun, fgot, fwire, freply, fmarked>>
  BY DEF SessionEnds
<1>2. /\ fhist' \in [gone : BOOLEAN, stopped : BOOLEAN, lost : SUBSET FNode]
      /\ fhist'.gone /\ fhist'.stopped = fhist.stopped /\ fhist'.lost = fhist.lost
  BY <1>1, Zenon DEF FwInv, FwTypeOK
<1>3. FwTypeOK'
  BY <1>1, <1>2 DEF FwInv, FwTypeOK
<1>4. \A d : (Reached(d)' <=> Reached(d)) /\ (Touched(d)' <=> Touched(d)) /\ (Asked(d)' <=> Asked(d))
  BY <1>1 DEF Reached, GroupGot, Touched, Coming, Asked
<1>5. WireOK'
  <2>1. \A q \in fwire : /\ ForwardsOK(q) => ForwardsOK(q)'
                         /\ ReplyOK(q) => ReplyOK(q)'
                         /\ ForwardsToOK(q) => ForwardsToOK(q)'
                         /\ AckOK(q) => AckOK(q)'
    BY <1>1, <1>4 DEF ForwardsOK, ReplyOK, ForwardsToOK, AckOK, WillReach
  <2>. QED  BY <1>1, <2>1 DEF FwInv, WireOK
<1>6. NothingYet' /\ JoinOK' /\ MarkedOK' /\ GoneOK'
  BY <1>1, <1>2, <1>4 DEF FwInv, NothingYet, JoinOK, MarkedOK, GoneOK
<1>7. OneMember' /\ PlainServed' /\ MemberServed'
  BY <1>1, <1>2, <1>4, Zenon DEF FwInv, OneMember, PlainServed, MemberServed, Smooth, Known
<1>. QED  BY <1>3, <1>5, <1>6, <1>7 DEF FwInv

\* Every step keeps the invariant.
LEMMA FwNextInv == FwInv /\ [FwdNext]_fwdVars => FwInv'
<1>. SUFFICES ASSUME FwInv, [FwdNext]_fwdVars PROVE FwInv'  BY Zenon
<1>1. CASE UNCHANGED fwdVars
  <2>1. \A d : (Reached(d)' <=> Reached(d)) /\ (Touched(d)' <=> Touched(d)) /\ (Asked(d)' <=> Asked(d))
              /\ (Offers(d)' <=> Offers(d))
    BY <1>1, ZenonT(60) DEF fwdVars, Reached, GroupGot, Touched, Coming, Asked, Offers
  <2>2. \A q \in fwire : /\ ForwardsOK(q) => ForwardsOK(q)'
                         /\ ReplyOK(q) => ReplyOK(q)'
                         /\ ForwardsToOK(q) => ForwardsToOK(q)'
                         /\ AckOK(q) => AckOK(q)'
    BY <1>1, <2>1, Zenon DEF fwdVars, ForwardsOK, ReplyOK, ForwardsToOK, AckOK, WillReach
  <2>3. FwTypeOK' /\ NothingYet' /\ GoneOK'
    BY <1>1 DEF fwdVars, FwInv, FwTypeOK, NothingYet, GoneOK
  <2>4. WireOK' /\ JoinOK' /\ MarkedOK'
    BY <1>1, <2>1, <2>2, Zenon DEF fwdVars, FwInv, WireOK, JoinOK, MarkedOK
  <2>5. OneMember' /\ PlainServed' /\ MemberServed'
    BY <1>1, <2>1, Zenon DEF fwdVars, FwInv, OneMember, PlainServed, MemberServed, Smooth, Known
  <2>. QED  BY <2>3, <2>4, <2>5 DEF FwInv
<1>2. CASE forwards_single \/ forwards_raft \/ forwards_broadcast \/ forwards_target \/ join_all
  BY <1>2, SingleInv, RaftInv, BroadcastInv, TargetInv, JoinAllInv, Zenon
<1>3. ASSUME NEW m \in fwire,
             on_ForwardsTo(m) \/ on_ForwardsToAck(m) \/ on_Forwards(m) \/ on_Reply(m) \/ Lost(m)
      PROVE  FwInv'
  BY <1>3, OnForwardsToInv, OnAckInv, OnForwardsInv, OnReplyInv, LostInv
<1>4. ASSUME NEW c \in FClient, SessionEnds(c) PROVE FwInv'
  BY <1>4, SessionEndsInv
<1>. QED  BY <1>1, <1>2, <1>3, <1>4 DEF FwdNext

-----------------------------------------------------------------------------
(* Results *)

\* The inductive invariant of forwards in its three modes: no message is under way
\* to a client that has a copy, at most one member of a group is touched, and who
\* is recorded as reached was.
THEOREM ForwardInvariant == FwdSpec => []FwInv
<1>. QED  BY FwInitInv, FwNextInv, PTL DEF FwdSpec

\* ForwardDelivers holds for any number of nodes and subscribers: one copy each,
\* one for a group, everybody who stays is reached, and marks are earned
\* (forwards and forward_to_subscriptions of the three Shared).
THEOREM DeliveryHolds == FwdSpec => []ForwardDelivers
<1>1. FwInv => DeliveredOnce
  <2>. SUFFICES ASSUME FwInv PROVE DeliveredOnce  BY Zenon
  <2>1. \A c \in FClient : fgot[c] <= 1
    BY DEF FwInv, FwTypeOK
  <2>2. ftarget = "none" => \A c, d \in GroupGot : c = d
    BY DEF FwInv, OneMember, Touched, GroupGot
  <2>. QED  BY <2>1, <2>2 DEF DeliveredOnce
<1>2. FwInv => ReachesLive
  <2>. SUFFICES ASSUME FwInv, FwdDone, ftarget = "none", ~fhist.stopped
                PROVE  /\ \A c \in fup \ Group : Known(c) /\ Home[c] \notin fhist.lost => fgot[c] = 1
                       /\ Smooth /\ (\E c \in Group : Known(c)) => GroupGot # {}
    BY ZenonT(30) DEF ReachesLive, Known
  <2>1. frun = "done" /\ \A d : ~Asked(d) /\ ~Coming(d)
    BY Zenon DEF FwdDone, Asked, Coming
  <2>2. \A c \in fup \ Group : Known(c) /\ Home[c] \notin fhist.lost => fgot[c] > 0
    BY <2>1, Zenon DEF FwInv, PlainServed, Touched
  <2>3. \A c \in fup \ Group : fgot[c] > 0 => fgot[c] = 1
    BY SMTT(30), Z3T(30) DEF FwInv, FwTypeOK
  <2>4. Smooth /\ (\E c \in Group : Known(c)) => GroupGot # {}
    BY <2>1, Zenon DEF FwInv, MemberServed, Touched, GroupGot
  <2>. QED  BY <2>2, <2>3, <2>4, ZenonT(30)
<1>3. FwInv => MarkedWasSent
  <2>. SUFFICES ASSUME FwInv, NEW c \in fmarked, ~Reached(c), Smooth, FwdDone PROVE FALSE
    BY DEF MarkedWasSent, Reached, FwInv, MarkedOK
  <2>1. c \in Group /\ fmode = "broadcast" /\ ftarget = "none"
    BY Zenon DEF FwInv, MarkedOK
  <2>2. frun = "done" /\ Known(c) /\ \A d : ~Coming(d)
    BY <2>1, Zenon DEF FwdDone, Coming, Known
  <2>3. GroupGot # {}
    BY <2>1, <2>2 DEF FwInv, MemberServed, Touched, GroupGot
  <2>. QED  BY <2>1, <2>3, Zenon DEF Reached
<1>. QED  BY <1>1, <1>2, <1>3, ForwardInvariant, PTL DEF ForwardDelivers
==============================================================================
