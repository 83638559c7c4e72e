---------------------------- MODULE MessageStore ----------------------------
(***************************************************************************)
(* The message managers of ferromq-message-storage: published messages are *)
(* kept so that a client that subscribes later still gets them, together   *)
(* with the clients that already have.  Publishers only post commands;     *)
(* worker tasks carry them out, and a clean-up task takes out what has     *)
(* expired.                                                                *)
(*                                                                         *)
(* RamMessageManager has one worker and keeps everything in memory.        *)
(* StorageMessageManager has several, each for its own message ids, and    *)
(* keeps the messages in a database, so that they survive a restart; the   *)
(* topic tree over them is in memory and rebuilt then.                     *)
(***************************************************************************)
EXTENDS Integers, Sequences, FiniteSets, FiniteSetsExt

CONSTANTS
    Workers,      \* WORKER_COUNT; the manager in memory uses worker 0 only
    CacheMax,     \* cache_max_count of the manager in memory
    CleanupCount, \* cleanup_count
    Life,         \* the message expiry interval
    MaxTime,      \* bound on the clock
    None

VARIABLES
    now,          \* the clock
    backend,      \* "ram", "db", or "none" where no message manager is installed
    idGen,        \* the next message id
    savedId,      \* the one in the database, None before the first is saved
    queue,        \* worker -> commands posted to it
    worker,       \* worker -> the command it is carrying out, and how far it is
    messages,     \* message id -> the message and when it expires
    topicTree,    \* ids in the topic tree
    expiries,     \* <<when, id>>: the heap, or the list of topics, by expiry
    forwardeds,   \* message id -> the clients that have it, and through which group
    sweep,        \* the clean-up task
    failed        \* ids for which the database failed a command

storeVars == <<backend, idGen, savedId, queue, worker, messages, topicTree, expiries, forwardeds, sweep, failed>>

Idle == [pc |-> "idle"]
Asleep == [pc |-> "asleep", ids |-> <<>>]

StoreInit ==
    /\ idGen = 1
    /\ savedId = None
    /\ queue = [x \in 0 .. Workers - 1 |-> <<>>]
    /\ worker = [x \in 0 .. Workers - 1 |-> Idle]
    /\ messages = <<>>
    /\ topicTree = {}
    /\ expiries = {}
    /\ forwardeds = <<>>
    /\ sweep = Asleep
    /\ failed = {}

Enabled == backend # "none"

\* A map with an entry more, and one with some less.
With(f, k, e) == [x \in DOMAIN f \cup {k} |-> IF x = k THEN e ELSE f[x]]
Without(f, k) == [x \in DOMAIN f \ {k} |-> f[x]]

\* is_expiry; the database drops the map of a message by its time to live
IsExpiry(id) == messages[id].exp < now
Lapsed(id) == backend = "db" /\ messages[id].ttl < now
Kept(id) == id \in DOMAIN messages /\ ~Lapsed(id)

-----------------------------------------------------------------------------
(* Commands.                                                               *)

WorkerOf_mark(cmd) == IF cmd.op = "mark" THEN 0 ELSE cmd.id % Workers

\* All commands about a message go to one worker.
WorkerOf(cmd) == cmd.id % Workers

Posted(cmd) ==
    LET x == IF backend = "ram" THEN 0 ELSE WorkerOf(cmd)
    IN  [queue EXCEPT ![x] = Append(@, cmd)]

StoreCmd(id, m) == [op |-> "store", id |-> id, m |-> m]
MarkCmd(id, to) == [op |-> "mark", id |-> id, to |-> to]

Take(x) ==
    /\ worker[x] = Idle
    /\ queue[x] # <<>>
    /\ worker' = [worker EXCEPT ![x] = [pc |-> "taken", cmd |-> Head(queue[x])]]
    /\ queue' = [queue EXCEPT ![x] = Tail(@)]
    /\ UNCHANGED <<now, backend, idGen, savedId, messages, topicTree, expiries, forwardeds, sweep, failed>>

At(x, pc, op) == worker[x].pc = pc /\ worker[x].cmd.op = op
Goto(x, pc) == worker' = [worker EXCEPT ![x].pc = pc]
Finished(x) == worker' = [worker EXCEPT ![x] = Idle]

Recipients(id) == IF id \in DOMAIN forwardeds THEN forwardeds[id] ELSE {}

-----------------------------------------------------------------------------
(* The manager in memory.                                                  *)

\* _set holds the entry of the message until the message is in the tree and
\* in the heap.
RamSetMessage(x) ==
    /\ backend = "ram"
    /\ At(x, "taken", "store")
    /\ messages' = With(messages, worker[x].cmd.id, [m |-> worker[x].cmd.m, exp |-> now + Life])
    /\ Goto(x, "tree")
    /\ UNCHANGED <<now, backend, idGen, savedId, queue, topicTree, expiries, forwardeds, sweep, failed>>

RamSetTree(x) ==
    /\ backend = "ram"
    /\ At(x, "tree", "store")
    /\ topicTree' = topicTree \cup {worker[x].cmd.id}
    /\ Goto(x, "expiry")
    /\ UNCHANGED <<now, backend, idGen, savedId, queue, messages, expiries, forwardeds, sweep, failed>>

RamSetExpiry(x) ==
    /\ backend = "ram"
    /\ At(x, "expiry", "store")
    /\ expiries' = expiries \cup {<<messages[worker[x].cmd.id].exp, worker[x].cmd.id>>}
    /\ Finished(x)
    /\ UNCHANGED <<now, backend, idGen, savedId, queue, messages, topicTree, forwardeds, sweep, failed>>

\* The entry is locked, so that others wait for the worker.
Held(id) ==
    /\ backend = "ram"
    /\ \E x \in DOMAIN worker : worker[x].pc \in {"tree", "expiry"} /\ worker[x].cmd.id = id

RamMarkExist(x) ==
    /\ backend = "ram"
    /\ At(x, "taken", "mark")
    /\ IF worker[x].cmd.id \in DOMAIN messages THEN Goto(x, "write") ELSE Finished(x)
    /\ UNCHANGED <<now, backend, idGen, savedId, queue, messages, topicTree, expiries, forwardeds, sweep, failed>>

RamMarkWrite(x) ==
    /\ backend = "ram"
    /\ At(x, "write", "mark")
    /\ LET id == worker[x].cmd.id
       IN  forwardeds' = With(forwardeds, id, Recipients(id) \cup worker[x].cmd.to)
    /\ Finished(x)
    /\ UNCHANGED <<now, backend, idGen, savedId, queue, messages, topicTree, expiries, sweep, failed>>

-----------------------------------------------------------------------------
(* The clean-up of the manager in memory.                                  *)

Queued(es, Before(_, _)) ==
    CHOOSE s \in [1 .. Cardinality(es) -> es] : \A i, j \in DOMAIN s : i < j => Before(s[i], s[j])

\* The heap gives the soonest deadline, and for one deadline the largest id.
Sooner(a, b) == a[1] < b[1] \/ (a[1] = b[1] /\ a[2] > b[2])

\* The entries one round pops: those that have expired, and, when the cache
\* is over its limit, any others, the number of messages being what it was
\* when the round began; at most cleanup_count + 1.
Popped ==
    LET es == Queued(expiries, Sooner)
        due(e) == e[1] <= now \/ Cardinality(DOMAIN messages) > CacheMax
        n == CHOOSE k \in 0 .. Len(es) :
                /\ \A i \in 1 .. k : due(es[i])
                /\ k <= CleanupCount + 1
                /\ k = Len(es) \/ k = CleanupCount + 1 \/ ~due(es[k + 1])
    IN  SubSeq(es, 1, n)

RamSweepPop ==
    /\ backend = "ram"
    /\ sweep.pc = "asleep"
    /\ Popped # <<>>
    /\ expiries' = expiries \ Range(Popped)
    /\ sweep' = [pc |-> "message", ids |-> [i \in DOMAIN Popped |-> Popped[i][2]]]
    /\ UNCHANGED <<now, backend, idGen, savedId, queue, worker, messages, topicTree, forwardeds, failed>>

SweepOn == IF Len(sweep.ids) = 1 THEN Asleep ELSE [pc |-> "message", ids |-> Tail(sweep.ids)]

RamSweepMessage ==
    /\ backend = "ram"
    /\ sweep.pc = "message"
    /\ ~Held(Head(sweep.ids))
    /\ messages' = Without(messages, Head(sweep.ids))
    /\ sweep' = IF Head(sweep.ids) \in DOMAIN messages THEN [sweep EXCEPT !.pc = "tree"] ELSE SweepOn
    /\ UNCHANGED <<now, backend, idGen, savedId, queue, worker, topicTree, expiries, forwardeds, failed>>

RamSweepTree ==
    /\ backend = "ram"
    /\ sweep.pc = "tree"
    /\ topicTree' = topicTree \ {Head(sweep.ids)}
    /\ sweep' = [sweep EXCEPT !.pc = "forwarded"]
    /\ UNCHANGED <<now, backend, idGen, savedId, queue, worker, messages, expiries, forwardeds, failed>>

RamSweepForwarded ==
    /\ backend = "ram"
    /\ sweep.pc = "forwarded"
    /\ forwardeds' = Without(forwardeds, Head(sweep.ids))
    /\ sweep' = SweepOn
    /\ UNCHANGED <<now, backend, idGen, savedId, queue, worker, messages, topicTree, expiries, failed>>

-----------------------------------------------------------------------------
(* The manager on a database.  A message and its clients are one map of    *)
(* the database, with the expiry of the message as its time to live.       *)

DbSaveIdLoad(x) ==
    /\ backend = "db"
    /\ At(x, "taken", "store")
    /\ worker' = [worker EXCEPT ![x] = [pc |-> "save", cmd |-> @.cmd, curr |-> idGen]]
    /\ UNCHANGED <<now, backend, idGen, savedId, queue, messages, topicTree, expiries, forwardeds, sweep, failed>>

DbSaveIdInsert(x) ==
    /\ backend = "db"
    /\ At(x, "save", "store")
    /\ savedId' = worker[x].curr
    /\ worker' = [worker EXCEPT ![x] = [pc |-> "insert", cmd |-> @.cmd, exp |-> now + Life]]
    /\ UNCHANGED <<now, backend, idGen, queue, messages, topicTree, expiries, forwardeds, sweep, failed>>

\* A map that only has clients: it lapsed before they were written, and the
\* map they began has no time to live.
Orphan(id) == id \in DOMAIN forwardeds \ DOMAIN messages
Never == MaxTime + Life

\* The time to live is set by the insert that begins the map.
DbInsert(x) ==
    /\ backend = "db"
    /\ At(x, "insert", "store")
    /\ LET id == worker[x].cmd.id
       IN  /\ messages' = With(messages, id,
                  [m |-> worker[x].cmd.m, exp |-> worker[x].exp,
                   ttl |-> CASE Kept(id) -> messages[id].ttl [] Orphan(id) -> Never [] OTHER -> now + Life])
           /\ forwardeds' = IF Kept(id) \/ Orphan(id) THEN forwardeds ELSE Without(forwardeds, id)
    /\ Goto(x, "tree")
    /\ UNCHANGED <<now, backend, idGen, savedId, queue, topicTree, expiries, sweep, failed>>

DbTree(x) ==
    /\ backend = "db"
    /\ At(x, "tree", "store")
    /\ topicTree' = topicTree \cup {worker[x].cmd.id}
    /\ Goto(x, "list")
    /\ UNCHANGED <<now, backend, idGen, savedId, queue, messages, expiries, forwardeds, sweep, failed>>

DbList(x) ==
    /\ backend = "db"
    /\ At(x, "list", "store")
    /\ expiries' = expiries \cup {<<worker[x].exp, worker[x].cmd.id>>}
    /\ Finished(x)
    /\ UNCHANGED <<now, backend, idGen, savedId, queue, messages, topicTree, forwardeds, sweep, failed>>

DbMarkExist(x) ==
    /\ backend = "db"
    /\ At(x, "taken", "mark")
    /\ IF Kept(worker[x].cmd.id) THEN Goto(x, "write") ELSE Finished(x)
    /\ UNCHANGED <<now, backend, idGen, savedId, queue, messages, topicTree, expiries, forwardeds, sweep, failed>>

\* one client after the other
DbMarkWrite(x) ==
    /\ backend = "db"
    /\ At(x, "write", "mark")
    /\ \E r \in worker[x].cmd.to :
          /\ LET id == worker[x].cmd.id
                 old == IF Kept(id) \/ Orphan(id) THEN Recipients(id) ELSE {}
             IN  /\ forwardeds' = With(forwardeds, id, old \cup {r})
                 /\ messages' = IF Kept(id) THEN messages ELSE Without(messages, id)
          /\ IF worker[x].cmd.to = {r} THEN Finished(x)
             ELSE worker' = [worker EXCEPT ![x].cmd.to = @ \ {r}]
    /\ UNCHANGED <<now, backend, idGen, savedId, queue, topicTree, expiries, sweep, failed>>

\* A call of the database fails or times out: the worker gives the command up.
DbFails(x) ==
    /\ backend = "db"
    /\ worker[x].pc \notin {"idle", "tree", "list"}
    /\ failed' = failed \cup {worker[x].cmd.id}
    /\ Finished(x)
    /\ UNCHANGED <<now, backend, idGen, savedId, queue, messages, topicTree, expiries, forwardeds, sweep>>

\* topic_list is ordered by the deadline and the topic, which ends in the id.
Listed(a, b) == a[1] < b[1] \/ (a[1] = b[1] /\ a[2] < b[2])

DbPopped ==
    LET es == SelectSeq(Queued(expiries, Listed), LAMBDA e : e[1] <= now)
    IN  SubSeq(es, 1, Min({Len(es), CleanupCount + 1}))

DbSweepPop ==
    /\ backend = "db"
    /\ sweep.pc = "asleep"
    /\ DbPopped # <<>>
    /\ expiries' = expiries \ Range(DbPopped)
    /\ sweep' = [pc |-> "tree", ids |-> [i \in DOMAIN DbPopped |-> DbPopped[i][2]]]
    /\ UNCHANGED <<now, backend, idGen, savedId, queue, worker, messages, topicTree, forwardeds, failed>>

DbSweepTree ==
    /\ backend = "db"
    /\ sweep.pc = "tree"
    /\ topicTree' = topicTree \ {Head(sweep.ids)}
    /\ sweep' = IF Len(sweep.ids) = 1 THEN Asleep ELSE [sweep EXCEPT !.ids = Tail(@)]
    /\ UNCHANGED <<now, backend, idGen, savedId, queue, worker, messages, expiries, forwardeds, failed>>

\* The node stops and starts again: new, then restore_topic_tree.
StoreRestart ==
    /\ backend = "db"
    /\ idGen' = IF savedId = None THEN 1 ELSE savedId
    /\ queue' = [x \in DOMAIN queue |-> <<>>]
    /\ worker' = [x \in DOMAIN worker |-> Idle]
    /\ topicTree' = {id \in DOMAIN messages : Kept(id) /\ ~IsExpiry(id)}
    /\ expiries' = {<<messages[id].exp, id>> : id \in topicTree'}
    /\ sweep' = Asleep
    /\ UNCHANGED <<now, backend, savedId, messages, forwardeds, failed>>

RamRestart ==
    /\ backend = "ram"
    /\ idGen' = 1
    /\ queue' = [x \in DOMAIN queue |-> <<>>]
    /\ worker' = [x \in DOMAIN worker |-> Idle]
    /\ messages' = <<>>
    /\ topicTree' = {}
    /\ expiries' = {}
    /\ forwardeds' = <<>>
    /\ sweep' = Asleep
    /\ UNCHANGED <<now, backend, savedId, failed>>

-----------------------------------------------------------------------------
(* What a subscriber is offered.                                           *)

\* A client that has the message, or whose group has it through this filter.
IsForwarded(id, c, group) ==
    \E r \in Recipients(id) : r[1] = c \/ (group # None /\ r[2] = group)

Offered(id, c, group, target) ==
    /\ Kept(id)
    /\ ~IsExpiry(id)
    /\ ~IsForwarded(id, c, group)
    /\ target \in {None, c}

WorkerStep ==
    \E x \in DOMAIN worker :
        \/ Take(x)
        \/ RamSetMessage(x) \/ RamSetTree(x) \/ RamSetExpiry(x)
        \/ RamMarkExist(x) \/ RamMarkWrite(x)
        \/ DbSaveIdLoad(x) \/ DbSaveIdInsert(x) \/ DbInsert(x) \/ DbTree(x) \/ DbList(x)
        \/ DbMarkExist(x) \/ DbMarkWrite(x)

SweepStep ==
    \/ RamSweepPop \/ RamSweepMessage \/ RamSweepTree \/ RamSweepForwarded
    \/ DbSweepPop \/ DbSweepTree

=============================================================================
