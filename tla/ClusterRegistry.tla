--------------------------- MODULE ClusterRegistry ---------------------------
(***************************************************************************)
(* A client connects, subscribes and disconnects on the nodes of a raft      *)
(* cluster (ferromq-cluster-raft: shared.rs, router.rs, handler.rs).  A       *)
(* handshake takes the client's lock through raft, kicks the previous         *)
(* session on the node that has it, records itself through raft and           *)
(* registers locally.  Ends of connections and removals of routes are          *)
(* proposed by background tasks that retry.                                    *)
(*                                                                         *)
(* Raft is its log of committed proposals, which every node applies in order   *)
(* and at its own pace (RaftCluster shows the log is the same everywhere);    *)
(* a proposal is answered when the leader has applied it.  What a kick does    *)
(* inside one node is one step here and the subject of Takeover.              *)
(***************************************************************************)
EXTENDS ClusterRouter, Sequences

CONSTANTS
  Node, Leader,
  Attempts,    \* connection attempts, 1..n in the order of their create_time
  Scenarios    \* what may go wrong, the bound of proposals, the node of each attempt

Failures ==
  {"answer",    \* a proposal is committed and its answer is lost
   "kick",      \* the request or the answer of a gRPC Kick is lost
   "expire",    \* a handshake outlives try_lock_timeout on some replica
   "abort",     \* a handshake fails once it has the lock
   "giveup",    \* a background task ends its retries
   "crash",     \* a node restarts
   "snapshot"}  \* the leader makes a snapshot

ASSUME RegistryAssumption ==
  /\ Leader \in Node
  /\ Attempts = 1..Cardinality(Attempts)
  /\ Scenarios \subseteq [may : SUBSET Failures, log : Nat, at : [Attempts -> Node]]

VARIABLES
  scen,       \* the scenario
  log,        \* the committed proposals
  store,      \* each node's ClusterRouter
  applied,    \* how many proposals each node has applied
  peers,      \* each node's registered session of the client, id 0 for none
  lockers,    \* each node's local handshake lock: the attempt that has it, or 0
  att,        \* each connection attempt
  jobs,       \* background tasks that propose until they are answered
  snap,       \* the snapshot in the making, or made
  failed,     \* history: the failures that have happened
  raced       \* history: filters subscribed again before the removal was applied

regVars == <<scen, log, store, applied, peers, lockers, att, jobs, snap, failed, raced>>

-----------------------------------------------------------------------------
(* Data *)

NoSession == [id |-> 0, up |-> FALSE, clean |-> FALSE, subs |-> {}]
Session(i, clean) == [id |-> i, up |-> TRUE, clean |-> clean, subs |-> {}]

\* pc: where the attempt is; wait: the index of the proposal it waits for; prev:
\* the session the try-lock replaced; info: the subscriptions in the
\* OfflineInfo of the kick; todo: filters to add; topic: the one being added, with
\* tries proposals so far.
NewAttempt(clean) == [pc |-> "idle", clean |-> clean, wait |-> 0, prev |-> 0,
                      info |-> {}, todo |-> {}, topic |-> 0, tries |-> 0]

\* node: where the task runs; wait: the index of its proposal, 0 between two tries.
Job(n, m) == [node |-> n, m |-> m, wait |-> 0]

\* index: the proposals the snapshot claims to hold; upto: those the client
\* states in it really hold.
NoSnap == [stage |-> "none", index |-> 0, upto |-> 0, s |-> EmptyStore]

RegInit ==
  /\ scen \in Scenarios
  /\ log = <<>>
  /\ store = [n \in Node |-> EmptyStore]
  /\ applied = [n \in Node |-> 0]
  /\ peers = [n \in Node |-> NoSession]
  /\ lockers = [n \in Node |-> 0]
  /\ att \in [Attempts -> {NewAttempt(c) : c \in BOOLEAN}]
  /\ jobs = {} /\ snap = NoSnap /\ failed = {} /\ raced = {}

Fail(f) == f \in scen.may /\ failed' = failed \cup {f}

\* send_proposal: the proposal goes through the leader into the log.
Propose(m) == Len(log) < scen.log /\ log' = Append(log, m)

Move(i, pc) == att' = [att EXCEPT ![i].pc = pc]
Await(i, pc) == att' = [att EXCEPT ![i].pc = pc, ![i].wait = Len(log) + 1]

-----------------------------------------------------------------------------
(* The log reaches the nodes *)

\* What the answer r does to attempt a, which waits for it.
Answered(a, r) ==
  CASE a.pc = "locking"    -> [a EXCEPT !.wait = 0, !.prev = r.prev, !.pc = IF r.ok THEN "locked" ELSE "refused"]
    [] a.pc = "connecting" -> [a EXCEPT !.wait = 0, !.pc = IF r.ok THEN "register" ELSE "undo"]
    [] a.pc = "adding"     -> [a EXCEPT !.wait = 0, !.pc = "added"]
    [] OTHER               -> a

\* handle_committed_normal on one node; the leader answers whoever waits.
ApplyAt(n) ==
  /\ applied[n] < Len(log)
  /\ \E k \in {applied[n] + 1} : \E res \in {ApplyCommand(store[n], log[k])} :
       /\ applied' = [applied EXCEPT ![n] = k]
       /\ store' = [store EXCEPT ![n] = res.s]
       /\ IF n = Leader
          THEN /\ att' = [i \in Attempts |-> IF att[i].wait = k THEN Answered(att[i], res.reply) ELSE att[i]]
               /\ jobs' = {j \in jobs : j.wait # k}
          ELSE UNCHANGED <<att, jobs>>
  /\ UNCHANGED <<scen, log, peers, lockers, snap, failed, raced>>

\* The answer to an attempt is lost: try_lock and set give up, an add tries
\* again up to three times.
LoseAnswer(i) ==
  /\ Fail("answer")
  /\ att[i].wait # 0
  /\ att' = [att EXCEPT ![i].wait = 0,
                        ![i].pc = CASE @ = "locking" -> "refused"
                                    [] @ = "connecting" -> "undo"
                                    [] @ = "adding" -> IF att[i].tries < 3 THEN "add" ELSE "unadded"]
  /\ UNCHANGED <<scen, log, store, applied, peers, lockers, jobs, snap, raced>>

\* The handshake that holds the client is too old for this replica.
Expire(n) ==
  /\ Fail("expire")
  /\ store[n].st.shaking
  /\ store' = [store EXCEPT ![n].st.shaking = FALSE]
  /\ UNCHANGED <<scen, log, applied, peers, lockers, att, jobs, snap, raced>>

-----------------------------------------------------------------------------
(* Background tasks: retry(backoff_strategy, send_proposal) *)

JobProposes(j) ==
  /\ j.wait = 0
  /\ Propose(j.m)
  /\ jobs' = (jobs \ {j}) \cup {[j EXCEPT !.wait = Len(log) + 1]}
  /\ UNCHANGED <<scen, store, applied, peers, lockers, att, snap, failed, raced>>

\* The answer is lost and the proposal is made again.
JobRetries(j) ==
  /\ Fail("answer")
  /\ j.wait # 0
  /\ jobs' = (jobs \ {j}) \cup {[j EXCEPT !.wait = 0]}
  /\ UNCHANGED <<scen, log, store, applied, peers, lockers, att, snap, raced>>

JobGivesUp(j) ==
  /\ Fail("giveup")
  /\ jobs' = jobs \ {j}
  /\ UNCHANGED <<scen, log, store, applied, peers, lockers, att, snap, raced>>

-----------------------------------------------------------------------------
(* The handshake: ClusterLockEntry::try_lock, kick, set *)

try_lock(i) ==
  /\ att[i].pc = "idle"
  /\ \A k \in 1..(i - 1) : att[k].pc # "idle"
  /\ Propose(Command("HandshakeTryLock", i, 0))
  /\ Await(i, "locking")
  /\ UNCHANGED <<scen, store, applied, peers, lockers, jobs, snap, failed, raced>>

\* inner.try_lock: when the node's own lock is taken the handshake fails, and
\* the one it holds through raft stays until it expires.
inner_try_lock(i) ==
  /\ att[i].pc = "locked"
  /\ IF lockers[scen.at[i]] = 0
     THEN lockers' = [lockers EXCEPT ![scen.at[i]] = i] /\ Move(i, "kick") /\ UNCHANGED failed
     ELSE Move(i, "refused") /\ failed' = failed \cup {"abort"} /\ UNCHANGED lockers
  /\ UNCHANGED <<scen, log, store, applied, peers, jobs, snap, raced>>

\* A session is not in the middle of an add, and so takes a Kick.
TakesKick(n) == \A i \in Attempts : peers[n].id = i => att[i].pc = "online"

\* The tasks that remove the routes of a session: _unsubscribe for each filter.
Removals(n, s) == {Job(n, Command("Remove", s.id, t)) : t \in s.subs}

\* Mutant: the kick stays on this node.
PrevNode_own(i) == scen.at[i]

\* prev_node_id, or this node.
PrevNode(i) == IF att[i].prev = 0 THEN scen.at[i] ELSE scen.at[att[i].prev]

\* inner.kick on this node: the subscriptions of the old session are cleared
\* when the new one starts clean, and otherwise handed over.
kick_local(i) ==
  /\ att[i].pc = "kick" /\ PrevNode(i) = scen.at[i]
  /\ TakesKick(scen.at[i])
  /\ \E s \in {peers[scen.at[i]]} :
       /\ peers' = [peers EXCEPT ![scen.at[i]] = NoSession]
       /\ jobs' = jobs \cup (IF att[i].clean THEN Removals(scen.at[i], s) ELSE {})
       /\ att' = [att EXCEPT ![i].pc = "set", ![i].info = IF att[i].clean THEN {} ELSE s.subs]
  /\ UNCHANGED <<scen, log, store, applied, lockers, snap, failed, raced>>

\* Message::Kick is sent to the other node.
kick_send(i) ==
  /\ att[i].pc = "kick" /\ PrevNode(i) # scen.at[i]
  /\ Move(i, "kicking")
  /\ UNCHANGED <<scen, log, store, applied, peers, lockers, jobs, snap, failed, raced>>

\* History: a kick finds a session that raft has recorded and that is not yet
\* registered on its node.  The handler takes no lock there.
Overtakes(n) == IF \E k \in Attempts : scen.at[k] = n /\ att[k].pc = "register" THEN {"overtaken"} ELSE {}

\* The other node kicks whatever it has, clearing the routes, and answers.
\* When the answer is lost the kick counts as NotExist.
kick_remote(i) ==
  /\ att[i].pc = "kicking"
  /\ TakesKick(PrevNode(i))
  /\ \E n \in {PrevNode(i)} : \E s \in {peers[n]} :
       /\ peers' = [peers EXCEPT ![n] = NoSession]
       /\ jobs' = jobs \cup Removals(n, s)
       /\ \/ /\ att' = [att EXCEPT ![i].pc = "set", ![i].info = IF att[i].clean THEN {} ELSE s.subs]
             /\ failed' = failed \cup Overtakes(n)
          \/ /\ Move(i, "set")
             /\ "kick" \in scen.may /\ failed' = failed \cup {"kick"} \cup Overtakes(n)
  /\ UNCHANGED <<scen, log, store, applied, lockers, snap, raced>>

\* The request is lost, or refused by the circuit breaker.
kick_lost(i) ==
  /\ Fail("kick")
  /\ att[i].pc = "kicking"
  /\ Move(i, "set")
  /\ UNCHANGED <<scen, log, store, applied, peers, lockers, jobs, snap, raced>>

set(i) ==
  /\ att[i].pc = "set"
  /\ Propose(Command("Connected", i, 0))
  /\ Await(i, "connecting")
  /\ UNCHANGED <<scen, store, applied, peers, lockers, jobs, snap, failed, raced>>

\* inner.set; the session then transfers what the kick handed over.
register(i) ==
  /\ att[i].pc = "register"
  /\ peers' = [peers EXCEPT ![scen.at[i]] = Session(i, att[i].clean)]
  /\ lockers' = [lockers EXCEPT ![scen.at[i]] = 0]
  /\ att' = [att EXCEPT ![i].pc = IF att[i].info = {} THEN "online" ELSE "add", ![i].todo = att[i].info]
  /\ UNCHANGED <<scen, log, store, applied, jobs, snap, failed, raced>>

\* The handshake fails or is abandoned: the local lock is given back and the
\* one held through raft is not.
abort(i) ==
  /\ \/ att[i].pc \in {"kick", "set"} /\ Fail("abort")
     \/ att[i].pc = "undo" /\ UNCHANGED failed
  /\ lockers' = [lockers EXCEPT ![scen.at[i]] = 0]
  /\ Move(i, "refused")
  /\ UNCHANGED <<scen, log, store, applied, peers, jobs, snap, raced>>

-----------------------------------------------------------------------------
(* A registered session *)

Registered(i) == peers[scen.at[i]].id = i

\* A SUBSCRIBE; transfer_session_state does the same for each filter handed over.
subscribe(i, t) ==
  /\ att[i].pc = "online" /\ Registered(i) /\ peers[scen.at[i]].up
  /\ t \notin peers[scen.at[i]].subs
  /\ att' = [att EXCEPT ![i].pc = "add", ![i].todo = {t}]
  /\ raced' = IF \E j \in jobs : j.m = Command("Remove", i, t) THEN raced \cup {t} ELSE raced
  /\ UNCHANGED <<scen, log, store, applied, peers, lockers, jobs, snap, failed>>

\* Router::add proposes the route, at most three times ...
add(i, t) ==
  /\ att[i].pc = "add" /\ t \in att[i].todo
  /\ att[i].tries > 0 => t = att[i].topic
  /\ Propose(Command("Add", i, t))
  /\ att' = [att EXCEPT ![i].pc = "adding", ![i].wait = Len(log) + 1, ![i].tries = @ + 1, ![i].topic = t]
  /\ UNCHANGED <<scen, store, applied, peers, lockers, jobs, snap, failed, raced>>

\* ... and the session lists the filter.  When every try failed a SUBSCRIBE
\* fails, while transfer_session_state goes on.
subscriptions_add(i) ==
  /\ att[i].pc \in {"added", "unadded"}
  /\ \E t \in {att[i].topic} :
       /\ att' = [att EXCEPT ![i].todo = @ \ {t}, ![i].tries = 0, ![i].topic = 0,
                             ![i].info = @ \ {t},
                             ![i].pc = IF att[i].todo = {t} THEN "online" ELSE "add"]
       /\ peers' = IF att[i].pc = "added" \/ t \in att[i].info
                   THEN [peers EXCEPT ![scen.at[i]].subs = @ \cup {t}] ELSE peers
  /\ UNCHANGED <<scen, log, store, applied, lockers, jobs, snap, failed, raced>>

\* UNSUBSCRIBE: Router::remove answers at once and proposes in the background.
unsubscribe(i, t) ==
  /\ att[i].pc = "online" /\ Registered(i) /\ peers[scen.at[i]].up
  /\ t \in peers[scen.at[i]].subs
  /\ jobs' = jobs \cup {Job(scen.at[i], Command("Remove", i, t))}
  /\ peers' = [peers EXCEPT ![scen.at[i]].subs = @ \ {t}]
  /\ UNCHANGED <<scen, log, store, applied, lockers, att, snap, failed, raced>>

\* clean: SessionTerminated is proposed and the session is removed with its routes.
Cleaned(n) == {Job(n, Command("SessionTerminated", peers[n].id, 0))} \cup Removals(n, peers[n])

\* The connection ends: Disconnected is proposed; a clean session goes, another
\* stays in its offline loop.
disconnect(i) ==
  /\ att[i].pc = "online" /\ Registered(i) /\ peers[scen.at[i]].up
  /\ jobs' = jobs \cup {Job(scen.at[i], Command("Disconnected", i, 0))}
                  \cup (IF peers[scen.at[i]].clean THEN Cleaned(scen.at[i]) ELSE {})
  /\ peers' = [peers EXCEPT ![scen.at[i]] = IF @.clean THEN NoSession ELSE [@ EXCEPT !.up = FALSE]]
  /\ UNCHANGED <<scen, log, store, applied, lockers, att, snap, failed, raced>>

\* The session expires.
expire(n) ==
  /\ peers[n].id # 0 /\ ~peers[n].up
  /\ jobs' = jobs \cup Cleaned(n)
  /\ peers' = [peers EXCEPT ![n] = NoSession]
  /\ UNCHANGED <<scen, log, store, applied, lockers, att, snap, failed, raced>>

\* An administrator kicks the client through some node: the leader says where it
\* is, and the session there ends and is cleaned.
admin_kick ==
  /\ store[Leader].st.id # 0
  /\ \E n \in {scen.at[store[Leader].st.id]} :
       /\ peers[n].id # 0 /\ TakesKick(n)
       /\ jobs' = jobs \cup {Job(n, Command("Disconnected", peers[n].id, 0))} \cup Cleaned(n)
       /\ peers' = [peers EXCEPT ![n] = NoSession]
  /\ UNCHANGED <<scen, log, store, applied, lockers, att, snap, failed, raced>>

-----------------------------------------------------------------------------
(* Snapshots and restarts *)

\* generate_snapshot_async: the index is taken first ...
snap_begin ==
  /\ "snapshot" \in scen.may /\ snap.stage = "none"
  /\ \E n \in Node : applied[n] < applied[Leader]
  /\ snap' = [NoSnap EXCEPT !.stage = "relations", !.index = applied[Leader]]
  /\ UNCHANGED <<scen, log, store, applied, peers, lockers, att, jobs, failed, raced>>

\* ... and the parts are copied one after the other while the leader goes on.
snap_copy ==
  /\ \/ /\ snap.stage = "relations"
        /\ snap' = [snap EXCEPT !.stage = "states", !.s = SnapRelations(@, store[Leader])]
     \/ /\ snap.stage = "states"
        /\ snap' = [snap EXCEPT !.stage = "counts", !.upto = applied[Leader], !.s = SnapStates(@, store[Leader])]
     \/ /\ snap.stage = "counts"
        /\ snap' = [snap EXCEPT !.stage = "made", !.s = SnapCounts(@, store[Leader])]
  /\ UNCHANGED <<scen, log, store, applied, peers, lockers, att, jobs, failed, raced>>

\* A node that is behind gets the snapshot instead of the proposals.
install(n) ==
  /\ n # Leader /\ snap.stage = "made" /\ applied[n] < snap.index
  /\ store' = [store EXCEPT ![n] = restore(@, snap.s)]
  /\ applied' = [applied EXCEPT ![n] = snap.index]
  /\ failed' = failed \cup (IF snap.upto > snap.index THEN {"ahead"} ELSE {})
  /\ UNCHANGED <<scen, log, peers, lockers, att, jobs, snap, raced>>

\* A node restarts: its raft log was in memory, and so were its sessions.
crash(n) ==
  /\ n # Leader /\ "crash" \notin failed /\ Fail("crash")
  /\ store' = [store EXCEPT ![n] = EmptyStore]
  /\ applied' = [applied EXCEPT ![n] = 0]
  /\ peers' = [peers EXCEPT ![n] = NoSession]
  /\ lockers' = [lockers EXCEPT ![n] = 0]
  /\ att' = [i \in Attempts |-> IF scen.at[i] = n /\ att[i].pc # "idle"
                                THEN [NewAttempt(att[i].clean) EXCEPT !.pc = "refused"] ELSE att[i]]
  /\ jobs' = {j \in jobs : j.node # n}
  /\ UNCHANGED <<scen, log, snap, raced>>

-----------------------------------------------------------------------------

AttemptStep(i) ==
  \/ try_lock(i) \/ inner_try_lock(i)
  \/ kick_local(i) \/ kick_send(i) \/ kick_remote(i) \/ kick_lost(i)
  \/ set(i) \/ register(i) \/ abort(i) \/ LoseAnswer(i)
  \/ \E t \in Topic : subscribe(i, t) \/ add(i, t) \/ unsubscribe(i, t)
  \/ subscriptions_add(i) \/ disconnect(i)

NodeStep(n) == ApplyAt(n) \/ Expire(n) \/ expire(n) \/ install(n) \/ crash(n)

RegNext ==
  \/ \E i \in Attempts : AttemptStep(i)
  \/ \E n \in Node : NodeStep(n)
  \/ \E j \in jobs : JobProposes(j) \/ JobRetries(j) \/ JobGivesUp(j)
  \/ admin_kick \/ snap_begin \/ snap_copy

RegSpec == RegInit /\ [][RegNext]_regVars

-----------------------------------------------------------------------------
(* Properties *)


\* Two sessions of one client serve on two nodes only after a kick, an answer or
\* a handshake was lost or ran out of time, or a kick overtook a registration.
OneServing ==
  \A n, k \in Node :
    n # k /\ peers[n].id # 0 /\ peers[k].id # 0
      => failed \cap {"answer", "kick", "expire", "abort", "crash", "overtaken"} # {}

\* Nothing is under way: every proposal is applied and nobody will propose.
Quiet ==
  /\ \A n \in Node : applied[n] = Len(log)
  /\ jobs = {}
  /\ \A i \in Attempts : att[i].pc \in {"idle", "refused", "online"}

=============================================================================
