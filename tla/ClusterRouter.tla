---------------------------- MODULE ClusterRouter ----------------------------
(***************************************************************************)
(* The state machine that ferromq-cluster-raft replicates (ClusterRouter,   *)
(* impl Store): where each client is registered and the routes of its        *)
(* subscriptions.  Everything is keyed by the client, so the model follows   *)
(* one client; a session is named by the number of the connection attempt    *)
(* that made it, and numbers grow with create_time.                          *)
(*                                                                         *)
(*   client_states      st     ClientStatus, id 0 when there is no entry      *)
(*   inner.relations    rel    for each filter the session that subscribed    *)
(*   inner.topics       tree   the filters in the tree                        *)
(*   topics_count, relations_count   tc, rc                                   *)
(***************************************************************************)
EXTENDS Integers, FiniteSets

CONSTANT Topic

NoStatus == [id |-> 0, online |-> FALSE, shaking |-> FALSE]

\* ClientStatus::new.  The flag stands for handshaking together with its start
\* time: it falls when try_lock_timeout has passed on the replica's own clock.
ClientStatus(i, online, shaking) == [id |-> i, online |-> online, shaking |-> shaking]

EmptyStore == [st |-> NoStatus, rel |-> [t \in Topic |-> 0], tree |-> {}, tc |-> 0, rc |-> 0]

\* What a proposal answers: an error, or the previous session of a try-lock.
Reply(ok, prev) == [ok |-> ok, prev |-> prev]
Success == Reply(TRUE, 0)
Refused == Reply(FALSE, 0)

Command(type, i, t) == [type |-> type, id |-> i, topic |-> t]

-----------------------------------------------------------------------------
(* apply *)

\* The client is taken over by i unless a handshake for it is in progress.
TryLock(s, i) ==
  IF s.st.id # 0 /\ s.st.shaking
  THEN [s |-> s, reply |-> Refused]
  ELSE [s |-> [s EXCEPT !.st = ClientStatus(i, FALSE, TRUE)], reply |-> Reply(TRUE, s.st.id)]

\* A session older than the one recorded is refused.
Connected(s, i) ==
  IF s.st.id > i
  THEN [s |-> s, reply |-> Refused]
  ELSE [s |-> [s EXCEPT !.st = ClientStatus(i, TRUE, FALSE)], reply |-> Success]


Disconnected(s, i) == IF s.st.id = i THEN [s EXCEPT !.st.online = FALSE] ELSE s

SessionTerminated(s, i) == IF s.st.id = i THEN [s EXCEPT !.st = NoStatus] ELSE s

\* DefaultRouter::add and remove, which no other step of this replica interrupts.
AddRoute(s, t, i) ==
  [s EXCEPT !.rel[t] = i, !.tree = @ \cup {t},
            !.tc = IF s.rel[t] = 0 THEN @ + 1 ELSE @,
            !.rc = IF s.rel[t] = 0 THEN @ + 1 ELSE @]

RemoveRoute(s, t, i) ==
  IF s.rel[t] # i \/ i = 0 THEN s
  ELSE [s EXCEPT !.rel[t] = 0, !.tree = @ \ {t}, !.tc = @ - 1, !.rc = @ - 1]

\* One committed proposal.
ApplyCommand(s, m) ==
  CASE m.type = "HandshakeTryLock"  -> TryLock(s, m.id)
    [] m.type = "Connected"         -> Connected(s, m.id)
    [] m.type = "Disconnected"      -> [s |-> Disconnected(s, m.id), reply |-> Success]
    [] m.type = "SessionTerminated" -> [s |-> SessionTerminated(s, m.id), reply |-> Success]
    [] m.type = "Add"               -> [s |-> AddRoute(s, m.topic, m.id), reply |-> Success]
    [] m.type = "Remove"            -> [s |->RemoveRoute(s, m.topic, m.id), reply |-> Success]

-----------------------------------------------------------------------------
(* snapshot, restore *)

\* The parts a snapshot copies, in the order of copying; the proposals applied
\* meanwhile show in the later ones.
SnapRelations(snap, s) == [snap EXCEPT !.rel = s.rel]
SnapStates(snap, s) == [snap EXCEPT !.st = s.st]
SnapCounts(snap, s) == [snap EXCEPT !.tc = s.tc, !.rc = s.rc]


\* Relations, states and counts are replaced.  The filters go into the tree
\* beside those already there.
restore(s, snap) == [snap EXCEPT !.tree = s.tree \cup {t \in Topic : snap.rel[t] # 0}]

\* is_online and _client_node_id look the client up in the replica.
is_online(s) == s.st.id # 0 /\ s.st.online
=============================================================================
