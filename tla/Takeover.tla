------------------------------ MODULE Takeover ------------------------------
(***************************************************************************)
(* Successive connections under one client id on one node: the handshake    *)
(* lock, LockEntry::kick with its five second timeout, the registration of  *)
(* the new session, the end of the old one (will, offline loop, clean) and   *)
(* the two places a subscription is kept, the session and the router.        *)
(*                                                                         *)
(*   DefaultShared::peers     peers   the registered session of the client   *)
(*   DefaultShared::lockers   lockers, held                                  *)
(*   DefaultRouter relation   route   the Id kept for one topic filter        *)
(*   SessionSubs              subs    whether a session lists that filter     *)
(*   SessionState             task, mbox, kicked, disc, pending               *)
(*   _handshake, kick         pc, reply, info, todo                           *)
(*                                                                         *)
(* A connection attempt and the session it creates share an identifier: the  *)
(* attempt's Id.  What the session holds besides the subscription is the      *)
(* subject of SessionOut.                                                    *)
(***************************************************************************)
EXTENDS Integers, Sequences, FiniteSets

CONSTANTS
  Attempts,   \* connection attempts of the client
  Admin,      \* the kick of the administration interface, which takes no lock
  None,
  Profiles,   \* the CONNECTs the client may send, see Profile
  Faults      \* what may go wrong, see Faulty

\* v5: the protocol version; start: Clean Start (clean session in v3); clean: the
\* session ends with its connection; delay: the will has a delay interval.
Profile == [v5: BOOLEAN, start: BOOLEAN, clean: BOOLEAN, delay: BOOLEAN]

\* timeout: a Kick may remain unanswered for five seconds; admin: the
\* administrator kicks; connack: the CONNACK cannot be sent; reject: the
\* handshake fails after the Kick; cut: a connection ends before its
\* SessionStateTransfer is processed; overlap: a SUBSCRIBE arrives while an old
\* session is still removing its own subscriptions.
Faulty == {"timeout", "admin", "connack", "reject", "cut", "overlap"}

ASSUME TakeoverAssumption ==
  /\ Admin \notin Attempts /\ None \notin Attempts \cup {Admin}
  /\ Profiles \subseteq Profile
  /\ Faults \subseteq Faulty

Kickers == Attempts \cup {Admin}

VARIABLES
  pc,        \* where each attempt, and the administrator, is
  prof,      \* the CONNECT of each attempt
  reply,     \* the oneshot channel of each kicker
  info,      \* the OfflineInfo a kicker collected
  todo,      \* the session whose filter an actor is removing or adding
  task,      \* where each session is in its life
  mbox,      \* each session's message channel
  kicked,    \* who kicked each session
  disc,      \* DISCONNECT received
  pending,   \* a delayed will is pending
  wills,     \* how often each session's will was published
  peers, lockers, held, subs, route

handshakeVars == <<pc, prof, reply, info, lockers, held>>
sessionVars == <<task, mbox, kicked, disc, pending, wills>>
vars == <<pc, prof, reply, info, todo, task, mbox, kicked, disc, pending, wills,
          peers, lockers, held, subs, route>>

-----------------------------------------------------------------------------
(* Data *)

\* Inside the part of _handshake that the lock protects.
Locked == {"kick", "waiting", "collect", "unroute", "unsub", "build", "set", "unlock", "abort"}

Places == Locked \cup {"idle", "release", "aborted", "connack", "done", "refused"}

Tasks == {"none", "created", "online", "extending", "subscribing", "unsubscribing",
          "leaving", "offline", "cleaning", "unrouting", "unsubbing", "ended"}

\* An OfflineInfo is absent, or holds the filter, or holds no subscription.
OfflineInfo == {"none", "empty", "subs"}

Kick(k) == [type |-> "Kick", by |-> k]
SessionStateTransfer == [type |-> "SessionStateTransfer", by |-> None]
Messages == [type: {"Kick"}, by: Kickers] \cup {SessionStateTransfer}

clean_start(k) == k = Admin \/ (k \in Attempts /\ prof[k].start)

\* The receiver half of a session's channel lives as long as its SessionState.
Open(i) == task[i] \notin {"none", "ended"}

\* The replies once session i has dropped its channel: a Kick it has not
\* answered is dropped with its oneshot sender.
Dropped(i, r) ==
  [k \in Kickers |->
     IF r[k] = "pending" /\ \E n \in DOMAIN mbox[i] : mbox[i][n] = Kick(k)
     THEN "dropped" ELSE r[k]]

\* Session i moves to place t; its channel closes with it when it ends.
MoveTo(i, t, r) ==
  /\ task' = [task EXCEPT ![i] = t]
  /\ reply' = IF t = "ended" THEN Dropped(i, r) ELSE r

-----------------------------------------------------------------------------
(* The handshake lock *)

Mutexes == Attempts   \* a mutex is named after the attempt that inserted it

\* Mutant: an entry that never got the lock removes the locker when dropped.
try_lock_drops_locker(i) ==
  IF lockers = None
  THEN lockers' = i /\ held' = [held EXCEPT ![i] = i] /\ pc' = [pc EXCEPT ![i] = "kick"]
  ELSE lockers' = None /\ pc' = [pc EXCEPT ![i] = "refused"] /\ UNCHANGED held

\* try_lock.  The map's shard stays locked until try_lock_owned has answered,
\* so looking the mutex up and locking it are one step.
try_lock(i) ==
  LET mutex == IF lockers = None THEN i ELSE lockers IN
  IF \E j \in Attempts : held[j] = mutex
  THEN pc' = [pc EXCEPT ![i] = "refused"] /\ UNCHANGED <<lockers, held>>
  ELSE /\ lockers' = mutex
       /\ held' = [held EXCEPT ![i] = mutex]
       /\ pc' = [pc EXCEPT ![i] = "kick"]

\* A CONNECT arrives and its handshake asks for the lock.
connect(i, p) ==
  /\ pc[i] = "idle"
  /\ prof' = [prof EXCEPT ![i] = p]
  /\ try_lock(i)
  /\ UNCHANGED <<reply, info, todo, sessionVars, peers, subs, route>>

\* The administration interface kicks a client it finds registered.
admin_kick ==
  /\ "admin" \in Faults
  /\ pc[Admin] = "idle" /\ peers # None
  /\ pc' = [pc EXCEPT ![Admin] = "kick"]
  /\ UNCHANGED <<prof, reply, info, todo, sessionVars, peers, lockers, held, subs, route>>

\* LockEntry is dropped: first its Drop, which forgets the locker, then its
\* guard, which unlocks the mutex.
drop_entry(i) ==
  /\ pc[i] \in {"unlock", "abort"}
  /\ lockers' = None
  /\ pc' = [pc EXCEPT ![i] = IF @ = "unlock" THEN "release" ELSE "aborted"]
  /\ UNCHANGED <<prof, reply, info, todo, held, sessionVars, peers, subs, route>>

\* Mutant: an aborted handshake does not give its guard back.
drop_guard_leaks(i) ==
  /\ pc[i] \in {"release", "aborted"}
  /\ held' = IF pc[i] = "release" THEN [held EXCEPT ![i] = None] ELSE held
  /\ pc' = [pc EXCEPT ![i] = IF @ = "release" THEN "connack" ELSE "refused"]
  /\ UNCHANGED <<prof, reply, info, todo, lockers, sessionVars, peers, subs, route>>

drop_guard(i) ==
  /\ pc[i] \in {"release", "aborted"}
  /\ held' = [held EXCEPT ![i] = None]
  /\ pc' = [pc EXCEPT ![i] = IF @ = "release" THEN "connack" ELSE "refused"]
  /\ UNCHANGED <<prof, reply, info, todo, lockers, sessionVars, peers, subs, route>>
-----------------------------------------------------------------------------
(* LockEntry::kick *)

\* Mutant: the kicker does not wait for the answer.
send_kick_no_wait(k) ==
  /\ pc[k] = "kick"
  /\ pc' = [pc EXCEPT ![k] = "collect"]
  /\ mbox' = IF peers # None /\ Open(peers) THEN [mbox EXCEPT ![peers] = Append(@, Kick(k))] ELSE mbox
  /\ reply' = [reply EXCEPT ![k] = "closed"]
  /\ UNCHANGED <<prof, info, todo, task, kicked, disc, pending, wills>>
  /\ UNCHANGED <<peers, lockers, held, subs, route>>

\* The Kick is sent to the registered session unless its channel is closed.
send_kick(k) ==
  /\ pc[k] = "kick"
  /\ IF peers # None /\ Open(peers)
     THEN /\ mbox' = [mbox EXCEPT ![peers] = Append(@, Kick(k))]
          /\ reply' = [reply EXCEPT ![k] = "pending"]
          /\ pc' = [pc EXCEPT ![k] = "waiting"]
     ELSE pc' = [pc EXCEPT ![k] = "collect"] /\ UNCHANGED <<mbox, reply>>
  /\ UNCHANGED <<prof, info, todo, task, kicked, disc, pending, wills>>
  /\ UNCHANGED <<peers, lockers, held, subs, route>>

\* The answer, its loss, or the timeout, after which the receiver is dropped.
kick_result(k) ==
  /\ pc[k] = "waiting"
  /\ \/ /\ reply[k] = "sent"
        /\ pc' = [pc EXCEPT ![k] = "collect"]
        /\ UNCHANGED reply
     \/ /\ reply[k] = "dropped"
        /\ pc' = [pc EXCEPT ![k] = IF k = Admin THEN "refused" ELSE "abort"]
        /\ UNCHANGED reply
     \/ /\ "timeout" \in Faults /\ reply[k] = "pending"
        /\ reply' = [reply EXCEPT ![k] = "closed"]
        /\ pc' = [pc EXCEPT ![k] = "collect"]
  /\ UNCHANGED <<prof, info, todo, sessionVars, peers, lockers, held, subs, route>>

\* Where a kicker goes once the old session is out of the way.
Collected(k) == IF k = Admin THEN "done" ELSE "build"

\* Mutant: the subscriptions of the old session are copied and not kept.
collect_forgets_subs(k) ==
  /\ pc[k] = "collect"
  /\ peers' = None
  /\ info' = [info EXCEPT ![k] = IF peers = None THEN "none" ELSE "empty"]
  /\ subs' = IF peers = None THEN subs ELSE [subs EXCEPT ![peers] = FALSE]
  /\ pc' = [pc EXCEPT ![k] = Collected(k)]
  /\ UNCHANGED <<prof, reply, todo, sessionVars, lockers, held, route>>

\* _remove, whoever is registered by now; the clean start clears its
\* subscriptions one by one, otherwise to_offline_info takes them.
collect(k) ==
  /\ pc[k] = "collect"
  /\ peers' = None
  /\ \/ /\ peers = None
        /\ pc' = [pc EXCEPT ![k] = Collected(k)]
        /\ UNCHANGED <<info, todo, subs>>
     \/ /\ peers # None /\ clean_start(k)
        /\ todo' = [todo EXCEPT ![k] = peers]
        /\ pc' = [pc EXCEPT ![k] = IF subs[peers] THEN "unroute" ELSE Collected(k)]
        /\ UNCHANGED <<info, subs>>
     \/ /\ peers # None /\ ~clean_start(k)
        /\ info' = [info EXCEPT ![k] = IF subs[peers] THEN "subs" ELSE "empty"]
        /\ subs' = [subs EXCEPT ![peers] = FALSE]
        /\ pc' = [pc EXCEPT ![k] = Collected(k)]
        /\ UNCHANGED todo
  /\ UNCHANGED <<prof, reply, sessionVars, lockers, held, route>>

\* _unsubscribe, first half: Router::remove ignores a relation of another Id.
RouterRemove(i) == route' = IF route = i THEN None ELSE route

\* _unsubscribe, second half: the filter leaves the session registered now.
SubscriptionsRemove == subs' = IF peers = None THEN subs ELSE [subs EXCEPT ![peers] = FALSE]

kick_unroute(k) ==
  /\ pc[k] = "unroute"
  /\ RouterRemove(todo[k])
  /\ pc' = [pc EXCEPT ![k] = "unsub"]
  /\ UNCHANGED <<prof, reply, info, todo, sessionVars, peers, lockers, held, subs>>

kick_unsub(k) ==
  /\ pc[k] = "unsub"
  /\ SubscriptionsRemove
  /\ pc' = [pc EXCEPT ![k] = Collected(k)]
  /\ UNCHANGED <<prof, reply, info, todo, sessionVars, peers, lockers, held, route>>

-----------------------------------------------------------------------------
(* The rest of _handshake *)

\* Session::new and entry.set, unless the keep-alive is not acceptable.
entry_set(i) ==
  /\ pc[i] = "build"
  /\ \/ /\ peers' = i
        /\ task' = [task EXCEPT ![i] = "created"]
        /\ pc' = [pc EXCEPT ![i] = "set"]
     \/ /\ "reject" \in Faults
        /\ pc' = [pc EXCEPT ![i] = "abort"]
        /\ UNCHANGED <<peers, task>>
  /\ UNCHANGED <<prof, reply, info, todo, mbox, kicked, disc, pending, wills>>
  /\ UNCHANGED <<lockers, held, subs, route>>

\* The hooks have run and the collected state is sent to the new session.
transfer(i) ==
  /\ pc[i] = "set"
  /\ mbox' = IF info[i] = "none" THEN mbox
             ELSE [mbox EXCEPT ![i] = Append(@, SessionStateTransfer)]
  /\ pc' = [pc EXCEPT ![i] = "unlock"]
  /\ UNCHANGED <<prof, reply, info, todo, task, kicked, disc, pending, wills>>
  /\ UNCHANGED <<peers, lockers, held, subs, route>>

\* CONNACK, then run(); when it cannot be sent the SessionState is dropped.
connack(i) ==
  /\ pc[i] = "connack"
  /\ \/ MoveTo(i, "online", reply) /\ pc' = [pc EXCEPT ![i] = "done"]
     \/ /\ "connack" \in Faults
        /\ MoveTo(i, "ended", reply)
        /\ pc' = [pc EXCEPT ![i] = "refused"]
  /\ UNCHANGED <<prof, info, todo, mbox, kicked, disc, pending, wills>>
  /\ UNCHANGED <<peers, lockers, held, subs, route>>
-----------------------------------------------------------------------------
(* A session that is connected *)

HeadIs(i, t) == mbox[i] # <<>> /\ Head(mbox[i]).type = t

\* What a Kick does to session i, which then moves to t: nothing when the
\* kicker has stopped waiting.
Answer(i, t) ==
  LET k == Head(mbox[i]).by IN
  IF reply[k] = "pending"
  THEN /\ kicked' = [kicked EXCEPT ![i] = k]
       /\ MoveTo(i, t, [reply EXCEPT ![k] = "sent"])
  ELSE UNCHANGED <<kicked, task, reply>>

process_kick(i) ==
  /\ task[i] = "online" /\ HeadIs(i, "Kick")
  /\ Answer(i, "leaving")
  /\ mbox' = [mbox EXCEPT ![i] = Tail(@)]
  /\ UNCHANGED <<pc, prof, info, todo, disc, pending, wills, peers, lockers, held, subs, route>>

\* transfer_session_state adds the routes, then the subscriptions.
transfer_session_state(i) ==
  /\ task[i] = "online" /\ HeadIs(i, "SessionStateTransfer")
  /\ mbox' = [mbox EXCEPT ![i] = Tail(@)]
  /\ IF info[i] = "subs"
     THEN route' = i /\ task' = [task EXCEPT ![i] = "extending"]
     ELSE UNCHANGED <<route, task>>
  /\ UNCHANGED <<handshakeVars, todo, kicked, disc, pending, wills, peers, subs>>

subscriptions_extend(i) ==
  /\ task[i] = "extending"
  /\ subs' = [subs EXCEPT ![i] = TRUE]
  /\ task' = [task EXCEPT ![i] = "online"]
  /\ UNCHANGED <<handshakeVars, todo, mbox, kicked, disc, pending, wills, peers, route>>

\* A SUBSCRIBE: LockEntry::subscribe looks up the registered session, adds the
\* route under its own Id and then the filter to the session it looked up.
subscribe(i) ==
  /\ task[i] = "online" /\ ~disc[i] /\ peers # None
  /\ "overlap" \notin Faults => \A j \in Attempts : task[j] \notin {"unrouting", "unsubbing"}
  /\ route' = i
  /\ todo' = [todo EXCEPT ![i] = peers]
  /\ task' = [task EXCEPT ![i] = "subscribing"]
  /\ UNCHANGED <<handshakeVars, mbox, kicked, disc, pending, wills, peers, subs>>

subscriptions_add(i) ==
  /\ task[i] = "subscribing"
  /\ subs' = [subs EXCEPT ![todo[i]] = TRUE]
  /\ task' = [task EXCEPT ![i] = "online"]
  /\ UNCHANGED <<handshakeVars, todo, mbox, kicked, disc, pending, wills, peers, route>>

\* An UNSUBSCRIBE: the route, then the filter of the session looked up.
unsubscribe(i) ==
  /\ task[i] = "online" /\ ~disc[i] /\ peers # None
  /\ RouterRemove(i)
  /\ todo' = [todo EXCEPT ![i] = peers]
  /\ task' = [task EXCEPT ![i] = "unsubscribing"]
  /\ UNCHANGED <<handshakeVars, mbox, kicked, disc, pending, wills, peers, subs>>

subscriptions_remove(i) ==
  /\ task[i] = "unsubscribing"
  /\ subs' = [subs EXCEPT ![todo[i]] = FALSE]
  /\ task' = [task EXCEPT ![i] = "online"]
  /\ UNCHANGED <<handshakeVars, todo, mbox, kicked, disc, pending, wills, peers, route>>

\* DISCONNECT only sets a flag; the loop goes on until the stream ends.  In v5
\* it may carry another session expiry interval, zero or not.
disconnect(i) ==
  /\ task[i] = "online" /\ ~disc[i]
  /\ disc' = [disc EXCEPT ![i] = TRUE]
  /\ \E zero \in IF prof[i].v5 THEN BOOLEAN ELSE {prof[i].clean} :
       prof' = [prof EXCEPT ![i].clean = zero]
  /\ UNCHANGED <<pc, reply, info, lockers, held, todo, task, mbox, kicked, pending, wills>>
  /\ UNCHANGED <<peers, subs, route>>

\* The connection ends, is lost, or its keep-alive elapses.
connection_lost(i) ==
  /\ task[i] = "online"
  /\ "cut" \notin Faults => ~HeadIs(i, "SessionStateTransfer")
  /\ task' = [task EXCEPT ![i] = "leaving"]
  /\ UNCHANGED <<handshakeVars, todo, mbox, kicked, disc, pending, wills, peers, subs, route>>

-----------------------------------------------------------------------------
(* The end of a session *)

PublishWill(i) == wills' = [wills EXCEPT ![i] = @ + 1]

\* Mutant: a takeover cancels the will, a clean start included.
last_will_enable_unkicked(i) == ~(disc[i] \/ kicked[i] # None)

\* last_will_enable: not after a DISCONNECT, nor when the session lives on in
\* the connection that kicked it.
last_will_enable(i) ==
  LET session_present == kicked[i] # None /\ ~clean_start(kicked[i]) /\ ~prof[i].clean
  IN  ~(disc[i] \/ session_present)

\* The tail of run() after run_loop.
leave(i) ==
  /\ task[i] = "leaving"
  /\ IF last_will_enable(i) /\ (prof[i].clean \/ ~prof[i].delay)
     THEN PublishWill(i) ELSE UNCHANGED wills
  /\ pending' = [pending EXCEPT ![i] =
                   last_will_enable(i) /\ ~prof[i].clean /\ prof[i].delay]
  /\ MoveTo(i, IF kicked[i] = Admin THEN "cleaning"
               ELSE IF kicked[i] # None THEN "ended"
               ELSE IF prof[i].clean THEN "cleaning" ELSE "offline", reply)
  /\ UNCHANGED <<pc, prof, info, todo, mbox, kicked, disc, peers, lockers, held, subs, route>>

\* offline_run_loop ends on an answered Kick; an administrator's Kick is not
\* followed by clean here.
offline_kick(i) ==
  /\ task[i] = "offline" /\ HeadIs(i, "Kick")
  /\ Answer(i, "ended")
  /\ mbox' = [mbox EXCEPT ![i] = Tail(@)]
  /\ UNCHANGED <<pc, prof, info, todo, disc, pending, wills, peers, lockers, held, subs, route>>

offline_ignored(i) ==
  /\ task[i] = "offline" /\ HeadIs(i, "SessionStateTransfer")
  /\ mbox' = [mbox EXCEPT ![i] = Tail(@)]
  /\ UNCHANGED <<handshakeVars, todo, task, kicked, disc, pending, wills, peers, subs, route>>

\* Mutant: the pending will is left set when it is published.
will_delay_elapsed_again(i) ==
  /\ task[i] = "offline" /\ pending[i] /\ wills[i] < 2
  /\ PublishWill(i)
  /\ UNCHANGED <<handshakeVars, todo, task, mbox, kicked, disc, pending, peers, subs, route>>

will_delay_elapsed(i) ==
  /\ task[i] = "offline" /\ pending[i]
  /\ PublishWill(i)
  /\ pending' = [pending EXCEPT ![i] = FALSE]
  /\ UNCHANGED <<handshakeVars, todo, task, mbox, kicked, disc, peers, subs, route>>

session_expired(i) ==
  /\ task[i] = "offline"
  /\ IF pending[i] THEN PublishWill(i) ELSE UNCHANGED wills
  /\ task' = [task EXCEPT ![i] = "cleaning"]
  /\ UNCHANGED <<handshakeVars, todo, mbox, kicked, disc, pending, peers, subs, route>>

\* Mutant: a session that is cleaned unregisters whoever is registered.
clean_any(i) ==
  /\ task[i] = "cleaning"
  /\ peers' = None
  /\ MoveTo(i, IF peers = i /\ subs[i] THEN "unrouting" ELSE "ended", reply)
  /\ UNCHANGED <<pc, prof, info, todo, mbox, kicked, disc, pending, wills, lockers, held>>
  /\ UNCHANGED <<subs, route>>

\* clean: once the hooks have run, the session unregisters itself if it is
\* still the registered one, and then removes its subscriptions.
clean(i) ==
  /\ task[i] = "cleaning"
  /\ peers' = IF peers = i THEN None ELSE peers
  /\ MoveTo(i, IF peers = i /\ subs[i] THEN "unrouting" ELSE "ended", reply)
  /\ UNCHANGED <<pc, prof, info, todo, mbox, kicked, disc, pending, wills, lockers, held>>
  /\ UNCHANGED <<subs, route>>

clean_unroute(i) ==
  /\ task[i] = "unrouting"
  /\ RouterRemove(i)
  /\ task' = [task EXCEPT ![i] = "unsubbing"]
  /\ UNCHANGED <<handshakeVars, todo, mbox, kicked, disc, pending, wills, peers, subs>>

clean_unsub(i) ==
  /\ task[i] = "unsubbing"
  /\ SubscriptionsRemove
  /\ MoveTo(i, "ended", reply)
  /\ UNCHANGED <<pc, prof, info, todo, mbox, kicked, disc, pending, wills, peers, lockers, held>>
  /\ UNCHANGED route
-----------------------------------------------------------------------------
(* The specification *)

\* The client has never connected.
Init ==
  /\ pc = [k \in Kickers |-> "idle"]
  /\ prof = [i \in Attempts |-> [v5 |-> FALSE, start |-> TRUE, clean |-> TRUE, delay |-> FALSE]]
  /\ reply = [k \in Kickers |-> "none"]
  /\ info = [k \in Kickers |-> "none"]
  /\ todo = [k \in Kickers |-> None]
  /\ task = [i \in Attempts |-> "none"]
  /\ mbox = [i \in Attempts |-> <<>>]
  /\ kicked = [i \in Attempts |-> None]
  /\ disc = [i \in Attempts |-> FALSE]
  /\ pending = [i \in Attempts |-> FALSE]
  /\ wills = [i \in Attempts |-> 0]
  /\ peers = None /\ lockers = None
  /\ held = [i \in Attempts |-> None]
  /\ subs = [i \in Attempts |-> FALSE]
  /\ route = None

KickStep(k) == send_kick(k) \/ kick_result(k) \/ collect(k) \/ kick_unroute(k) \/ kick_unsub(k)

HandshakeStep(i) ==
  KickStep(i) \/ entry_set(i) \/ transfer(i) \/ drop_entry(i) \/ drop_guard(i) \/ connack(i)

\* What a session does by itself once it has something to do.
SessionStep(i) ==
  \/ process_kick(i) \/ transfer_session_state(i) \/ subscriptions_extend(i)
  \/ subscriptions_add(i) \/ subscriptions_remove(i) \/ leave(i)
  \/ offline_kick(i) \/ offline_ignored(i)
  \/ clean(i) \/ clean_unroute(i) \/ clean_unsub(i)

\* What the client, the network and the timers may do.
ClientStep(i) ==
  \/ \E p \in Profiles : connect(i, p)
  \/ subscribe(i) \/ unsubscribe(i) \/ disconnect(i) \/ connection_lost(i)
  \/ will_delay_elapsed(i) \/ session_expired(i)

Next ==
  \/ admin_kick \/ KickStep(Admin)
  \/ \E i \in Attempts : HandshakeStep(i) \/ SessionStep(i) \/ ClientStep(i)

Spec == Init /\ [][Next]_vars

\* Tasks that can run do run; clients and timers owe nothing.  run_loop's select!
\* picks among its ready branches at random, so a busy client cannot keep the
\* session from its channel for ever.
FairSpec ==
  /\ Spec
  /\ WF_vars(KickStep(Admin))
  /\ \A i \in Attempts :
       /\ WF_vars(HandshakeStep(i)) /\ WF_vars(SessionStep(i))
       /\ SF_vars(process_kick(i) \/ transfer_session_state(i))

-----------------------------------------------------------------------------
(* Properties *)

TypeOK ==
  /\ pc \in [Kickers -> Places]
  /\ prof \in [Attempts -> Profile]
  /\ reply \in [Kickers -> {"none", "pending", "sent", "dropped", "closed"}]
  /\ info \in [Kickers -> OfflineInfo]
  /\ todo \in [Kickers -> Attempts \cup {None}]
  /\ task \in [Attempts -> Tasks]
  /\ mbox \in [Attempts -> Seq(Messages)]
  /\ kicked \in [Attempts -> Kickers \cup {None}]
  /\ disc \in [Attempts -> BOOLEAN] /\ pending \in [Attempts -> BOOLEAN]
  /\ wills \in [Attempts -> Nat]
  /\ peers \in Attempts \cup {None}
  /\ lockers \in Mutexes \cup {None}
  /\ held \in [Attempts -> Mutexes \cup {None}]
  /\ subs \in [Attempts -> BOOLEAN]
  /\ route \in Attempts \cup {None}

\* At most one handshake of a client id is between try_lock and the drop of its
\* entry, although Drop forgets the mutex while its guard is still locked.
LockExclusive ==
  \A i, j \in Attempts : pc[i] \in Locked /\ pc[j] \in Locked => i = j

Serving == {"created", "online", "extending", "subscribing", "unsubscribing", "offline"}

\* A session that serves its client, connected or not, is the registered one:
\* no second session of the client is left running and unreachable.
ServingIsRegistered == \A i \in Attempts : task[i] \in Serving => peers = i

\* Only a Kick that timed out leaves a session serving its client without being
\* registered: neither its own end, nor the late end of an older session that was
\* left running, nor a later Kick unregisters a session that goes on serving.  (An
\* administrator's kick, which takes no lock, can.)
StrayWasTimedOut ==
  \A i \in Attempts : task[i] \in Serving /\ peers # i =>
    \E k \in Kickers \ {i} : reply[k] = "closed"

\* The registered session has a task behind it, or someone is replacing it.
RegisteredIsServed ==
  peers # None /\ task[peers] = "ended" =>
    \E k \in Kickers : pc[k] \in {"waiting", "collect"}

\* No actor is in the middle of anything.
Quiet ==
  /\ \A k \in Kickers : pc[k] \in {"idle", "done", "refused"}
  /\ \A i \in Attempts : /\ task[i] \in {"none", "online", "offline", "ended"}
                         /\ Open(i) => mbox[i] = <<>>

\* The registry is true: every registration has a session behind it or is about
\* to be reclaimed, and when everything is at rest the router and the registered
\* session agree on the subscription, and no route is left for a session that is
\* gone.
RegistryAgrees ==
  /\ RegisteredIsServed
  /\ Quiet => IF peers = None THEN route = None
              ELSE route = IF subs[peers] THEN peers ELSE None

\* A will is published at most once, whichever of the connection's end, the
\* delay, the expiry and the takeover comes first.
WillOnce == \A i \in Attempts : wills[i] <= 1

\* A session that is over without a DISCONNECT, and was not continued by a
\* later connection, has published its will.
WillOwed ==
  \A i \in Attempts :
    /\ task[i] = "ended" /\ pc[i] = "done" /\ ~disc[i]
    /\ kicked[i] = None \/ clean_start(kicked[i]) \/ prof[i].clean
    => wills[i] = 1

\* Every Kick is answered, or its channel closed, without the timeout: the
\* kicker never waits for a session that waits for it.  So every connection
\* attempt is accepted or refused and gives its lock back.
HandshakeSettles ==
  /\ \A k \in Kickers : pc[k] = "waiting" ~> pc[k] # "waiting"
  /\ \A i \in Attempts : pc[i] # "idle" ~> pc[i] \in {"done", "refused"} /\ held[i] = None
=============================================================================
