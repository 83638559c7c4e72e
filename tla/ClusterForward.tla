---------------------------- MODULE ClusterForward ----------------------------
(***************************************************************************)
(* One PUBLISH, stored under a message id, on its way to the subscribers of   *)
(* a cluster: Shared::forwards and forwards_to of the single node             *)
(* (ferromq/src/shared.rs), of ferromq-cluster-raft and of                    *)
(* ferromq-cluster-broadcast, the handlers of ForwardsTo, Forwards and        *)
(* ForwardsToAck, and the gRPC calls between them (ferromq/src/grpc.rs).      *)
(*                                                                         *)
(* A subscriber is named by its client; the members of Group share one        *)
(* subscription, the others have one of their own.  A session may end while   *)
(* the routes to it are still there.                                          *)
(***************************************************************************)
EXTENDS Naturals

CONSTANTS
  FNode, Origin,     \* the nodes; the one that has the publisher
  FClient, Home,     \* the subscribers; the node of each
  Group,             \* the members of the shared subscription
  Modes              \* subset of {"single", "raft", "broadcast"}

ASSUME ForwardAssumption ==
  /\ Origin \in FNode /\ Home \in [FClient -> FNode] /\ Group \subseteq FClient
  /\ Modes \subseteq {"single", "raft", "broadcast"}

VARIABLES
  fmode,      \* which Shared is installed
  ftarget,    \* publish.target_clientid, or "none"
  frun,       \* where forwards is on the origin
  fup,        \* clients with a session
  fgot,       \* copies sent into each session
  fwire,      \* gRPC messages under way
  freply,     \* what join_all has of each node
  fmarked,    \* mark_forwarded: whom the stored message has reached
  fhist       \* history: a session ended; broadcast stopped; the nodes lost messages were for

fwdVars == <<fmode, ftarget, frun, fup, fgot, fwire, freply, fmarked, fhist>>

Others == FNode \ {Origin}
Plain == FClient \ Group

\* A relation to a client, as a plain subscriber or chosen for the group.
Rel(c, shared) == [c |-> c, shared |-> shared]
NoReply == [state |-> "none", shareds |-> {}, recips |-> {}]

FwdInit ==
  /\ fmode \in Modes
  /\ ftarget \in FClient \cup {"none"}
  /\ frun = "forwards"
  /\ fup \in SUBSET {c \in FClient : fmode = "single" => Home[c] = Origin}
  /\ fgot = [c \in FClient |-> 0]
  /\ fwire = {} /\ fmarked = {}
  /\ freply = [n \in FNode |-> NoReply]
  /\ fhist = [gone |-> fup # FClient, stopped |-> FALSE, lost |-> {}]

-----------------------------------------------------------------------------
(* Matching and sending *)

\* The plain relations on the nodes ns, with one member of the group, if there
\* is one among them: the router chooses it.
Matches(ns) ==
  LET plain == {Rel(c, FALSE) : c \in {d \in Plain : Home[d] \in ns}}
      members == {c \in Group : Home[c] \in ns}
  IN IF members = {} THEN {plain} ELSE {plain \cup {Rel(c, TRUE)} : c \in members}

OnNode(rels, n) == {r \in rels : Home[r.c] = n}

\* sub_relations_to_client_ids, _collect_subscription_client_ids: a relation to
\* the group stands for all its members the router knows on the nodes ns.
Recipients(rels, ns) ==
  {r.c : r \in {x \in rels : ~x.shared}}
    \cup (IF \E r \in rels : r.shared THEN {c \in Group : Home[c] \in ns} ELSE {})

Gone(rels) == {r \in rels : r.c \notin fup}

\* DefaultShared::forwards_to: every relation is tried.
Sent(rels) == [c \in FClient |-> IF \E r \in rels : r.c = c /\ c \in fup THEN fgot[c] + 1 ELSE fgot[c]]

forwards_to(rels) == fgot' = Sent(rels)

Msg(type, n, rels, recips) == [type |-> type, node |-> n, rels |-> rels, recips |-> recips]
TargetRels == {Rel(ftarget, FALSE)}

-----------------------------------------------------------------------------
(* A single node *)

\* DefaultShared::forwards: those reached are marked, also when some were not.
forwards_single ==
  /\ fmode = "single" /\ frun = "forwards"
  /\ \E rels \in IF ftarget = "none" THEN Matches({Origin}) ELSE {TargetRels} :
       /\ forwards_to(rels)
       /\ fmarked' = IF ftarget # "none" /\ Gone(rels) # {} THEN {}
                     ELSE Recipients(rels \ Gone(rels), {Origin})
  /\ frun' = "done"
  /\ UNCHANGED <<fmode, ftarget, fup, fwire, freply, fhist>>

-----------------------------------------------------------------------------
(* Raft: every node knows all routes *)

\* The recipients on this node are marked when all were reached.
Marked(rels, ok) == fmarked' = IF ok THEN fmarked \cup Recipients(OnNode(rels, Origin), FNode) ELSE fmarked

\* forward_to_subscriptions, forward_to_target_client: the relations of this node
\* first, then a ForwardsTo for each other node.
forwards_raft ==
  /\ fmode = "raft" /\ frun = "forwards"
  /\ \E rels \in IF ftarget = "none" THEN Matches(FNode) ELSE {TargetRels} :
       /\ forwards_to(OnNode(rels, Origin))
       /\ Marked(rels, Gone(OnNode(rels, Origin)) = {})
       /\ fwire' = {Msg("ForwardsTo", n, OnNode(rels, n), Recipients(OnNode(rels, n), FNode)) :
                      n \in {Home[r.c] : r \in rels} \ {Origin}}
  /\ frun' = "done"
  /\ UNCHANGED <<fmode, ftarget, fup, freply, fhist>>

\* ClusterShared::forwards_to for another node's message: an acknowledgement goes
\* back when all were reached.  A message without id, from broadcast, has none.
on_ForwardsTo(m) ==
  /\ m \in fwire /\ m.type = "ForwardsTo"
  /\ forwards_to(m.rels)
  /\ fwire' = (fwire \ {m}) \cup
       (IF fmode = "raft" /\ Gone(m.rels) = {} THEN {Msg("ForwardsToAck", m.node, {}, m.recips)} ELSE {})
  /\ UNCHANGED <<fmode, ftarget, frun, fup, freply, fmarked, fhist>>

on_ForwardsToAck(m) ==
  /\ m \in fwire /\ m.type = "ForwardsToAck"
  /\ fmarked' = fmarked \cup m.recips
  /\ fwire' = fwire \ {m}
  /\ UNCHANGED <<fmode, ftarget, frun, fup, fgot, freply, fhist>>

-----------------------------------------------------------------------------
(* Broadcast: every node knows its own routes *)

\* forward_to_subscriptions: plain relations of this node are served; when one
\* of them is gone nothing else happens.  Then Forwards goes to every other node.
forwards_broadcast ==
  /\ fmode = "broadcast" /\ frun = "forwards" /\ ftarget = "none"
  /\ \E rels \in Matches({Origin}) :
       LET plain == {r \in rels : ~r.shared} IN
       /\ forwards_to(plain)
       /\ IF Gone(plain) # {}
          THEN /\ frun' = "done" /\ fhist' = [fhist EXCEPT !.stopped = TRUE]
               /\ UNCHANGED <<fwire, freply, fmarked>>
          ELSE /\ frun' = "join" /\ fwire' = {Msg("Forwards", n, {}, {}) : n \in Others}
               /\ freply' = [n \in FNode |-> IF n = Origin
                               THEN [state |-> "ok", shareds |-> rels \ plain, recips |-> Recipients(rels, {Origin})]
                               ELSE NoReply]
               /\ UNCHANGED <<fmarked, fhist>>
  /\ UNCHANGED <<fmode, ftarget, fup>>

\* forward_to_target_client: here, or to every other node.
forwards_target ==
  /\ fmode = "broadcast" /\ frun = "forwards" /\ ftarget # "none"
  /\ IF Home[ftarget] = Origin /\ ftarget \in fup
     THEN /\ forwards_to(TargetRels)
          /\ fmarked' = {ftarget} /\ frun' = "done"
          /\ UNCHANGED <<fwire, freply>>
     ELSE /\ frun' = "join" /\ fwire' = {Msg("Forwards", n, {}, {}) : n \in Others}
          /\ freply' = [n \in FNode |-> IF n = Origin THEN [NoReply EXCEPT !.state = "ok"] ELSE NoReply]
          /\ UNCHANGED <<fgot, fmarked>>
  /\ UNCHANGED <<fmode, ftarget, fup, fhist>>

\* forwards_and_get_shareds on another node.  When a plain subscriber is gone
\* the node offers no member of the group.
on_Forwards(m) ==
  /\ m \in fwire /\ m.type = "Forwards"
  /\ \E rels \in IF ftarget = "none" THEN Matches({m.node})
                 ELSE {IF Home[ftarget] = m.node THEN TargetRels ELSE {}} :
       LET plain == {r \in rels : ~r.shared} IN
       /\ forwards_to(plain)
       /\ fwire' = (fwire \ {m}) \cup
            {Msg("Reply", m.node, IF Gone(plain) = {} THEN rels \ plain ELSE {},
                 Recipients(plain \ Gone(plain), {m.node}))}
  /\ UNCHANGED <<fmode, ftarget, frun, fup, freply, fmarked, fhist>>

on_Reply(m) ==
  /\ m \in fwire /\ m.type = "Reply"
  /\ freply' = [freply EXCEPT ![m.node] = [state |-> "ok", shareds |-> m.rels, recips |-> m.recips]]
  /\ fwire' = fwire \ {m}
  /\ UNCHANGED <<fmode, ftarget, frun, fup, fgot, fmarked, fhist>>

\* Mutant: the members this node offered are chosen from apart.
GroupChoices_each(offered) == {offered}

\* The second choice: one of the members the nodes offered.
GroupChoices(offered) == IF offered = {} THEN {{}} ELSE {{r} : r \in offered}

\* All nodes have answered or failed: everybody collected is marked, and the
\* chosen member is served, on this node or by a ForwardsTo without id.
join_all ==
  /\ frun = "join"
  /\ \A n \in Others : freply[n].state # "none"
  /\ \E chosen \in GroupChoices(UNION {freply[n].shareds : n \in FNode}) :
       /\ forwards_to(OnNode(chosen, Origin))
       /\ fwire' = fwire \cup {Msg("ForwardsTo", Home[r.c], {r}, {}) : r \in chosen \ OnNode(chosen, Origin)}
  /\ fmarked' = UNION {freply[n].recips : n \in FNode}
  /\ frun' = "done"
  /\ UNCHANGED <<fmode, ftarget, fup, freply, fhist>>

-----------------------------------------------------------------------------
(* Faults *)

\* A call fails (timeout, open circuit breaker) before or after its handler ran,
\* a notification is lost.
Lost(m) ==
  /\ m \in fwire
  /\ fwire' = fwire \ {m}
  /\ freply' = IF m.type \in {"Forwards", "Reply"} THEN [freply EXCEPT ![m.node].state = "failed"] ELSE freply
  /\ fhist' = [fhist EXCEPT !.lost = @ \cup {m.node}]
  /\ UNCHANGED <<fmode, ftarget, frun, fup, fgot, fmarked>>

\* A session ends; its routes are removed later.
SessionEnds(c) ==
  /\ c \in fup /\ fup' = fup \ {c}
  /\ fhist' = [fhist EXCEPT !.gone = TRUE]
  /\ UNCHANGED <<fmode, ftarget, frun, fgot, fwire, freply, fmarked>>

FwdNext ==
  \/ forwards_single \/ forwards_raft \/ forwards_broadcast \/ forwards_target \/ join_all
  \/ \E m \in fwire : on_ForwardsTo(m) \/ on_ForwardsToAck(m) \/ on_Forwards(m) \/ on_Reply(m) \/ Lost(m)
  \/ \E c \in FClient : SessionEnds(c)

FwdSpec == FwdInit /\ [][FwdNext]_fwdVars

-----------------------------------------------------------------------------
(* Properties *)

GroupGot == {c \in Group : fgot[c] > 0}

\* Whatever is lost and whoever leaves, no subscriber gets two copies and at
\* most one member of a shared subscription gets one: the two choices of
\* broadcast, one on each node and one among the nodes, agree on one member.
DeliveredOnce ==
  /\ \A c \in FClient : fgot[c] <= 1
  /\ ftarget = "none" => \A c, d \in GroupGot : c = d

FwdDone == frun = "done" /\ fwire = {}
Smooth == ~fhist.gone /\ fhist.lost = {}

\* What is forwarded reaches every plain subscriber that stays: a lost message
\* harms its own node only, and a subscriber that left harms nobody else on the
\* nodes after it, unless broadcast met it on the publisher's node and stopped.
\* With nothing lost and nobody gone the group is served too.
ReachesLive ==
  FwdDone /\ ftarget = "none" /\ ~fhist.stopped =>
    /\ \A c \in fup \ Group :
         (fmode = "single" => Home[c] = Origin) /\ Home[c] \notin fhist.lost => fgot[c] = 1
    /\ Smooth /\ (\E c \in Group : fmode = "single" => Home[c] = Origin) => GroupGot # {}

\* Whoever is marked as reached got the message, or shares a subscription with a
\* member that did, so that the stored message is owed to nobody who is marked.
\* Broadcast marks the group before its chosen member is served.
MarkedWasSent ==
  \A c \in fmarked :
    \/ fgot[c] > 0
    \/ c \in Group /\ GroupGot # {}
    \/ c \in Group /\ fmode = "broadcast" /\ ~(Smooth /\ FwdDone)

\* A forwarded message goes once to everyone it should and to nobody else, and
\* those recorded as having it have it (forward_to_subscriptions of both modes).
ForwardDelivers == DeliveredOnce /\ ReachesLive /\ MarkedWasSent
=============================================================================
