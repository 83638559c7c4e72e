---------------------------- MODULE ClusterRetain ----------------------------
(***************************************************************************)
(* Retained messages on the nodes of a cluster, each with a store of its own  *)
(* (RetainSyncMode::Full): a node that retains a message notifies the others  *)
(* (retain_set_broadcast, SetRetain), and a node that starts fetches what its  *)
(* peers have, page by page (sync_retains_from_peers, GetAllRetains).  Both     *)
(* cluster plugins have the same code.  A message is its create_time.          *)
(***************************************************************************)
EXTENDS Naturals, Sequences, FiniteSets, SequencesExt

CONSTANTS
  RNode, RTopic,
  MaxSets        \* bound: retained messages published

VARIABLES
  ret,       \* each node's message for each topic, 0 for none
  rwire,     \* SetRetain notifications under way
  rsync,     \* for each pair: the fetch of a starting node from a peer
  rclock,
  rlast,     \* history: the message last published for each topic
  rracing    \* history: topics two updates of which were under way together

retVars == <<ret, rwire, rsync, rclock, rlast, rracing>>

Idle == [pc |-> "idle", offset |-> 0, item |-> 0, val |-> 0]

\* Every node has the messages published so far.
RetInit ==
  /\ \E kept \in SUBSET RTopic : rlast = [t \in RTopic |-> IF t \in kept THEN 1 ELSE 0]
  /\ ret = [n \in RNode |-> rlast]
  /\ rwire = {} /\ rracing = {} /\ rclock = 1
  /\ rsync = [p \in RNode \X RNode |-> Idle]

Syncing == {p \in DOMAIN rsync : rsync[p].pc # "idle"}

\* A page fetched and not yet stored.
Fetched(t) == \E p \in Syncing : rsync[p].pc \in {"get", "set"} /\ rsync[p].item = t

\* History: an update of t on n meets a page that holds an older message, or,
\* removing t, shifts the pages somebody is fetching from n.
Meets(n, t, v) ==
  IF v = 0 /\ \E p \in Syncing : p[2] = n THEN RTopic ELSE IF Fetched(t) THEN {t} ELSE {}
Notified(t) == IF \E m \in rwire : m.topic = t THEN {t} ELSE {}

\* A retained message is published on n, an empty one clears the topic: the store
\* of n, then retain_set_broadcast.
publish_retained(n, t, clear) ==
  /\ rclock <= MaxSets
  /\ rclock' = rclock + 1
  /\ \E v \in {IF clear THEN 0 ELSE rclock + 1} :
       /\ ret' = [ret EXCEPT ![n][t] = v]
       /\ rlast' = [rlast EXCEPT ![t] = v]
       /\ rwire' = rwire \cup {[to |-> k, topic |-> t, val |-> v] : k \in RNode \ {n}}
       /\ rracing' = rracing \cup Meets(n, t, v) \cup Notified(t)
  /\ UNCHANGED rsync

\* Message::SetRetain
on_SetRetain(m) ==
  /\ m \in rwire
  /\ ret' = [ret EXCEPT ![m.to][m.topic] = m.val]
  /\ rwire' = rwire \ {m}
  /\ rracing' = rracing \cup Meets(m.to, m.topic, m.val)
  /\ UNCHANGED <<rsync, rclock, rlast>>

\* The notification is lost, or its node restarts.
LoseSetRetain(m) ==
  /\ m \in rwire
  /\ rwire' = rwire \ {m}
  /\ rracing' = rracing \cup {m.topic}
  /\ UNCHANGED <<ret, rsync, rclock, rlast>>

\* A node restarts with an empty store and fetches from every peer at once.
\* What was under way to it is lost; the pages it fetches make up for that, but
\* not for what is still under way to its peers.
restart(n) ==
  /\ \A p \in Syncing : FALSE
  /\ ret' = [ret EXCEPT ![n] = [t \in RTopic |-> 0]]
  /\ rwire' = {m \in rwire : m.to # n}
  /\ rsync' = [p \in DOMAIN rsync |-> IF p[1] = n /\ p[2] # n THEN [Idle EXCEPT !.pc = "fetch"] ELSE rsync[p]]
  /\ rracing' = rracing \cup {m.topic : m \in {w \in rwire : w.to # n}}
  /\ UNCHANGED <<rclock, rlast>>

\* get_all_paginated on node n: what it has, in the order of its tree.
Pages(n) == SetToSortSeq({t \in RTopic : ret[n][t] # 0}, <)


has_more(n, offset) == offset + 1 < Len(Pages(n))

\* GetAllRetains: one page of one topic.
sync_fetch(p) ==
  /\ rsync[p].pc = "fetch"
  /\ IF rsync[p].offset < Len(Pages(p[2]))
     THEN \E t \in {Pages(p[2])[rsync[p].offset + 1]} :
            /\ rsync' = [rsync EXCEPT ![p] = [pc |-> "get", item |-> t, val |-> ret[p[2]][t],
                           offset |-> IF has_more(p[2], @.offset) THEN @.offset + 1 ELSE 0]]
            /\ rracing' = rracing \cup Notified(t)
     ELSE rsync' = [rsync EXCEPT ![p] = Idle] /\ UNCHANGED rracing
  /\ UNCHANGED <<ret, rwire, rclock, rlast>>

AfterItem(p) == [Idle EXCEPT !.pc = IF rsync[p].offset = 0 THEN "idle" ELSE "fetch", !.offset = rsync[p].offset]

\* should_update
Newer(p) == rsync[p].val > ret[p[1]][rsync[p].item]

\* The node compares with what it has ...
sync_get(p) ==
  /\ rsync[p].pc = "get"
  /\ rsync' = [rsync EXCEPT ![p] = IF Newer(p) THEN [@ EXCEPT !.pc = "set"] ELSE AfterItem(p)]
  /\ UNCHANGED <<ret, rwire, rclock, rlast, rracing>>

\* ... and stores the newer one.
sync_set(p) ==
  /\ rsync[p].pc = "set"
  /\ ret' = [ret EXCEPT ![p[1]][rsync[p].item] = rsync[p].val]
  /\ rsync' = [rsync EXCEPT ![p] = AfterItem(p)]
  /\ UNCHANGED <<rwire, rclock, rlast, rracing>>

RetNext ==
  \/ \E n \in RNode, t \in RTopic, clear \in BOOLEAN : publish_retained(n, t, clear)
  \/ \E m \in rwire : on_SetRetain(m) \/ LoseSetRetain(m)
  \/ \E n \in RNode : restart(n)
  \/ \E p \in DOMAIN rsync : sync_fetch(p) \/ sync_get(p) \/ sync_set(p)

RetSpec == RetInit /\ [][RetNext]_retVars

-----------------------------------------------------------------------------

=============================================================================
