------------------------------- MODULE Storage ------------------------------
(***************************************************************************)
(* DefaultStorageDB, the storage that plugins open: the calls of the       *)
(* StorageDB, Map and List traits, sent to the backend the configuration   *)
(* names, with the circuit breaker and its timeout in front of them.       *)
(*                                                                         *)
(* A behaviour is one of a backend with one kind of data (keys and         *)
(* counters, maps, or lists).  The breaker itself is a library: it opens   *)
(* on failures, at a rate that is left open here, lets calls through again *)
(* after a while, and closes when one of them succeeds.                    *)
(***************************************************************************)
EXTENDS SledStorage, RedbStorage, RedisStorage

CONSTANTS
    Foci,       \* the backends and kinds of data to choose from
    Guarded,    \* those of them that have a circuit breaker
    Hot,        \* the names that get deadlines and counters
    Locals,     \* the clients of an embedded database; others only push to lists
    v, w        \* two values

VARIABLES
    focus,      \* the backend and the kind of data
    breaker,    \* the circuit breaker
    spoiled     \* maps and lists on which a clean-up or another handle's clear
                \* may have fallen in the middle of a write

allvars == <<vars, redisVars, focus, breaker, spoiled>>

-----------------------------------------------------------------------------
(* The calls a client may make.                                            *)

\* Only keys are re-armed: for maps and lists one deadline is enough.
Horizon == IF focus.kind = "KV" THEN MaxTime ELSE 1
Later == now + 1 .. Horizon

KvCalls ==
    {[op |-> "insert", n |-> n, v |-> v, kind |-> "KV"] : n \in Hot}
    \cup {[op |-> "remove", n |-> n, kind |-> "KV"] : n \in Hot}
    \cup {[op |-> "batchInsert", puts |-> [n \in Names |-> v], kind |-> "KV"],
          [op |-> "batchRemove", puts |-> [n \in Names |-> None], kind |-> "KV"]}

CounterCalls ==
    {[op |-> "kvAdd", n |-> n, by |-> b, kind |-> "KV"] : n \in Hot, b \in {-1, 1}}
    \cup {[op |-> "counterSet", n |-> n, v |-> 1, kind |-> "KV"] : n \in Hot}
    \cup {[op |-> "counterGet", n |-> n, kind |-> "KV"] : n \in Hot}

ReadCalls(kind) ==
    {[op |-> "contains", n |-> n, kind |-> kind] : n \in Hot}
    \cup IF kind = "KV" THEN {[op |-> "get", n |-> n, kind |-> kind] : n \in Hot} ELSE {}

TtlCalls(kind) == {[op |-> "expireAt", n |-> n, at |-> t, kind |-> kind] : n \in Hot, t \in Later}

\* The other names are there to be written and cleared.
MapCalls ==
    {[op |-> "mapNew", n |-> n, at |-> t, kind |-> "Map"] :
        n \in Hot, t \in Later \cup IF focus.backend # "redb" THEN {None} ELSE {}}
    \cup {[op |-> "mapInsert", n |-> n, i |-> i, v |-> v, kind |-> "Map"] : n \in Names, i \in Items}
    \cup {[op |-> "mapBatch", n |-> n, pairs |-> <<<<i, v>>>>, kind |-> "Map"] : n \in Hot, i \in Items}
    \cup {[op |-> "map", n |-> n, puts |-> One(i, None), kind |-> "Map"] : n \in Hot, i \in Items}
    \cup {[op |-> "mapClear", n |-> n, kind |-> "Map"] : n \in Names}
    \cup {[op |-> o, n |-> n, kind |-> "Map"] :
            o \in {"mapRemove", "mapIter"}
                  \cup CASE focus.backend = "redb"  -> {"mapEmpty"}
                         [] focus.backend = "redis" -> {"mapPrefix"}
                         [] OTHER                   -> {},
            n \in Hot}
    \cup {[op |-> o, n |-> n, i |-> i, kind |-> "Map"] :
            o \in {"mapGet", "mapHas", "mapFetch"}, n \in Hot, i \in Items}

Limit == 1

ListCalls ==
    {[op |-> "listNew", n |-> n, at |-> t, kind |-> "List"] : n \in Hot, t \in Later}
    \cup {[op |-> "push", n |-> n, vs |-> vs, kind |-> "List"] : n \in Hot, vs \in {<<v>>, <<w, v>>}}
    \cup {[op |-> "pushLimit", n |-> n, vs |-> <<w>>, limit |-> Limit, popFront |-> p, kind |-> "List"] :
            n \in Hot, p \in BOOLEAN}
    \cup {[op |-> "pushLimit", n |-> n, vs |-> <<w>>, limit |-> Limit, popFront |-> FALSE, kind |-> "List"] :
            n \in Names \ Hot}
    \cup {[op |-> "listClear", n |-> n, kind |-> "List"] : n \in Names}
    \cup {[op |-> o, n |-> n, kind |-> "List"] :
            o \in {"listPop", "listRemove", "listAll", "listLen"}, n \in Hot}
    \cup {[op |-> "listIndex", n |-> n, i |-> 0, kind |-> "List"] : n \in Hot}

Calls ==
    CASE focus.kind = "KV"   -> KvCalls \cup CounterCalls \cup ReadCalls("KV") \cup TtlCalls("KV")
      [] focus.kind = "Map"  -> MapCalls \cup ReadCalls("Map") \cup TtlCalls("Map")
      [] focus.kind = "List" -> ListCalls \cup ReadCalls("List") \cup TtlCalls("List")

Init ==
    /\ focus \in Foci
    /\ db = EmptyDb
    /\ now = 0
    /\ handle = [x \in Clients |-> [n \in Names |-> "empty"]]
    /\ queue = <<>>
    /\ run = Idle
    /\ waiting = {}
    /\ reply = [x \in Clients |-> <<"none">>]
    /\ sweep = NoSweep
    /\ server = EmptyServer
    /\ task = [x \in Clients |-> NoTask]
    /\ lease = [x \in Clients |-> [n \in Names |-> FALSE]]
    /\ breaker = "closed"
    /\ spoiled = {}

-----------------------------------------------------------------------------
(* The circuit breaker.                                                    *)

Dispatch(x, cmd) ==
    \/ /\ focus.backend # "redis"
       /\ x \in Locals
       /\ Send(x, cmd)
       /\ UNCHANGED redisVars
    \/ /\ focus.backend = "redis"
       /\ x \in Locals \/ (cmd.op = "pushLimit" /\ cmd.n \notin Hot)
       /\ RedisSend(x, cmd)

\* A call that is let through goes to the backend.
RawCall ==
    /\ breaker # "open"
    /\ \E x \in Clients, cmd \in Calls : Dispatch(x, cmd)
    /\ UNCHANGED breaker

\* One that is not returns an error, and the backend never hears of it.
OpenCircuit ==
    /\ breaker # "closed"
    /\ \E x \in Clients \ waiting : reply' = [reply EXCEPT ![x] = <<"rejected">>]
    /\ UNCHANGED <<db, now, handle, queue, run, waiting, sweep, redisVars, breaker>>

\* operation_timeout, which the breaker counts as a failure
OperationTimeout ==
    /\ focus.kind = "KV" /\ focus.backend # "redis"
    /\ \E x \in Clients : Abandon(x)
    /\ UNCHANGED redisVars
    /\ breaker' \in {breaker} \cup IF focus \in Guarded THEN {"open"} ELSE {}

BreakerHalfOpens ==
    /\ breaker = "open"
    /\ breaker' = "half"
    /\ UNCHANGED <<vars, redisVars>>

BreakerCloses ==
    /\ breaker = "half"
    /\ \E x \in Clients : reply[x][1] \in {"ok", "is", "value"}
    /\ breaker' = "closed"
    /\ UNCHANGED <<vars, redisVars>>

Breaker == RawCall \/ OpenCircuit \/ OperationTimeout \/ BreakerHalfOpens \/ BreakerCloses

-----------------------------------------------------------------------------
\* The two threads, and the server of Redis.
Commands ==
    \/ focus.backend = "sled" /\ (TakeCommand \/ CommandStep) /\ UNCHANGED redisVars
    \/ focus.backend = "redb" /\ (TakeRedb \/ RedbStep) /\ UNCHANGED redisVars
    \/ focus.backend = "redis" /\ RedisStep

Sweeps ==
    \/ focus.backend = "sled" /\ Cleanup /\ UNCHANGED redisVars
    \/ focus.backend = "redb" /\ RedbCleanup /\ UNCHANGED redisVars
    \/ focus.backend = "redis" /\ ServerExpires

Spoils ==
    {n \in Names :
        \/ \E e \in db.expireKeys \cup db'.expireKeys : e[2] = n /\ e[1] <= now'
        \/ /\ db.mapCount[n] /\ ~db'.mapCount[n]
           /\ \E x \in Clients : handle'[x][n] = "filled"}

Bookkeeping ==
    /\ spoiled' = spoiled \cup Spoils
    /\ UNCHANGED focus

Next ==
    /\ \/ Breaker
       \/ UNCHANGED breaker /\ ((now < Horizon /\ Tick /\ UNCHANGED redisVars) \/ Commands \/ Sweeps)
    /\ Bookkeeping

Spec == Init /\ [][Next]_allvars

\* The thread that cleans up keeps running.
FairSpec == Spec /\ WF_allvars(Sweeps /\ UNCHANGED breaker /\ Bookkeeping)

-----------------------------------------------------------------------------
(* What StorageDB calls val, deadline and due.  A write of two steps takes *)
(* effect with the first of them, as far as a caller can see.              *)

IsKv == focus.kind = "KV"

Pending == IF run.steps = <<>> THEN [op |-> "none"] ELSE Head(run.steps)

ValOf(n) ==
    IF focus.backend = "redis" THEN server.kv[n]
    ELSE IF focus.backend = "sled" /\ Pending.op = "kv" /\ Pending.late /\ n \in DOMAIN Pending.puts
    THEN Pending.puts[n] ELSE db.kv[n]

DeadlineOf(n) ==
    IF focus.backend = "redis" THEN server.expire["KV"][n]
    ELSE IF focus.backend = "sled" /\ Pending.op = "dropTtl" /\ Pending.late /\ n \in Pending.ns
    THEN None ELSE db.keyExpire[n]

DueOf ==
    IF focus.backend = "redis"
    THEN {<<server.expire["KV"][n], n>> : n \in {x \in Names : server.expire["KV"][x] # None}}
    ELSE {<<e[1], e[2]>> : e \in db.expireKeys \cup sweep.batch}

Keys == INSTANCE StorageDB WITH
    val      <- [n \in Names |-> IF IsKv THEN ValOf(n) ELSE None],
    deadline <- [n \in Names |-> IF IsKv THEN DeadlineOf(n) ELSE None],
    due      <- IF IsKv THEN DueOf ELSE {},
    clock    <- now,
    reply    <- IF IsKv THEN reply ELSE [x \in Clients |-> <<"none">>]

(* Properties.                                                             *)

Deadlines == Time \cup {None}

\* The tables, the threads and the replies have the shapes the code gives them.
TypeOK ==
    /\ db.kv \in [Names -> Stored \cup {None}]
    /\ db.mapItem \in [Names -> [Items -> Values \cup {None}]]
    /\ db.mapCount \in [Names -> BOOLEAN]
    /\ db.listItem \in [Names -> [0 .. MaxLen -> Values \cup {None}]]
    /\ \A n \in Names : db.listCount[n] = None
                         \/ db.listCount[n] \in (0 .. MaxLen) \X (0 .. MaxLen)
    /\ db.keyExpire \in [Names -> Deadlines]
    /\ db.expireKeys \subseteq Time \X Names \X Kinds
    /\ sweep.batch \subseteq Time \X Names \X Kinds
    /\ now \in Time
    /\ waiting \subseteq Clients
    /\ Len(queue) <= MaxQueue
    /\ breaker \in {"closed", "open", "half"}
    /\ server.kv \in [Names -> Stored \cup {None}]
    /\ server.hash \in [Names -> [Items -> Values \cup {None}]]
    /\ \A n \in Names : server.list[n] \in Seq(Values) /\ Len(server.list[n]) <= MaxLen
    /\ server.expire \in [Kinds -> [Names -> Deadlines]]

\* Keys and counters of the three backends keep the promise of the trait, although
\* a write of sled takes several steps and the cleanup runs in between.
Promise == Keys!Spec

Slots(n) == {i \in 0 .. MaxLen : db.listItem[n][i] # None}

Occupied(n) ==
    LET b == Bounds(db, n)
    IN  IF focus.backend = "sled" THEN b[1] + 1 .. b[2] ELSE b[1] .. b[2] - 1

ListOf(n) ==
    IF focus.backend = "redis" THEN server.list[n] ELSE ReadSlots(db.listItem[n], 0, MaxLen)

\* Between two commands a list holds a value in exactly the slots its count
\* record spans, and a sled map that holds anything has the count record
\* without which nothing in it can be read; unless a clean-up, or a clear
\* behind the handle's back, came in between.  A list that is only ever pushed to
\* with push_limit stays within the limit; with Redis each further client may
\* exceed it by one, because the length is read in a command of its own.
ContentReadable ==
    /\ run.steps = <<>> =>
           \A n \in Names \ spoiled :
               /\ Slots(n) = Occupied(n)
               /\ focus.backend = "sled" /\ ItemsOf(db, n) # {} => db.mapCount[n]
    /\ \A n \in Names \ Hot :
           Len(ListOf(n)) <= Limit + IF focus.backend = "redis" THEN Cardinality(Clients) - 1 ELSE 0

\* A list is a queue: a step appends to it, drops its first value, or clears
\* it, and the value a pop returns is the first one.
ListIsQueue ==
    [][\A n \in Names :
        LET old == ListOf(n)
            new == ListOf(n)'
        IN  n \notin spoiled' =>
              /\ \/ new = <<>>
                 \/ \E k \in {0, 1} :
                        /\ k <= Len(old)
                        /\ Len(new) >= Len(old) - k
                        /\ SubSeq(new, 1, Len(old) - k) = SubSeq(old, k + 1, Len(old))
              /\ (old # <<>> /\ new = Tail(old)) =>
                    \A x \in Clients : \/ reply'[x] = reply[x]
                                        \/ reply'[x] \in {<<"ok">>, <<"value", Head(old)>>}]_allvars

\* What has expired does not stay for ever: the clean-up removes it, or it is
\* written again.  (A deadline set again, to the same millisecond, while the
\* clean-up is dealing with the old one may lose its index entry.)
ExpiredIsSwept ==
    \A n \in Hot :
        (/\ \E e \in db.expireKeys \ sweep.batch : e[1] = db.keyExpire[n] /\ e[2] = n
         /\ Lapsed(db, n))
        ~> ~Lapsed(db, n)

=============================================================================
