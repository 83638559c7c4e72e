---------------------------- MODULE RedisStorage ----------------------------
(***************************************************************************)
(* The Redis backend.  Every client talks to the server itself: a command, *)
(* or a pipeline marked atomic, is one step, and the steps of different    *)
(* clients interleave.  Keys, hashes (maps) and lists each have their own  *)
(* name space and their own deadlines; the server drops what has expired   *)
(* before anything touches it (external).                                  *)
(*                                                                         *)
(* A handle of a map or a list has the expiry it was opened with, which is *)
(* set with the first write, while the handle believes that the map or the *)
(* list is empty.                                                          *)
(***************************************************************************)
EXTENDS StorageTrees

VARIABLES
    server,     \* what the server holds, and the deadlines
    task,       \* the steps each client has left, and a count it has read
    lease       \* the expiry of each client's handle

redisVars == <<server, task, lease>>

EmptyServer ==
    [ kv     |-> [n \in Names |-> None],
      hash   |-> [n \in Names |-> [i \in Items |-> None]],
      list   |-> [n \in Names |-> <<>>],
      expire |-> [k \in Kinds |-> [n \in Names |-> None]] ]

NoTask == [steps |-> <<>>, count |-> 0]

Fields(sv, n) == {i \in Items : sv.hash[n][i] # None}

Exists(sv, n, kind) ==
    CASE kind = "KV"   -> sv.kv[n] # None
      [] kind = "Map"  -> Fields(sv, n) # {}
      [] kind = "List" -> sv.list[n] # <<>>

Expired(n, kind) == server.expire[kind][n] # None /\ server.expire[kind][n] <= now

\* A hash or a list that becomes empty is gone, and its deadline with it.
Trim(sv, n, kind) == IF Exists(sv, n, kind) THEN sv ELSE [sv EXCEPT !.expire[kind][n] = None]

ServerExpires ==
    \E n \in Names, kind \in Kinds :
        /\ Expired(n, kind)
        /\ server' = [server EXCEPT
                !.kv[n]   = IF kind = "KV" THEN None ELSE @,
                !.hash[n] = IF kind = "Map" THEN [i \in Items |-> None] ELSE @,
                !.list[n] = IF kind = "List" THEN <<>> ELSE @,
                !.expire[kind][n] = None]
        /\ UNCHANGED <<vars, task, lease>>

-----------------------------------------------------------------------------
(* Calls and replies.                                                      *)

\* The steps a call takes: all but two take one.
RedisSteps(cmd) ==
    CASE cmd.op = "pushLimit" -> <<[op |-> "llen", n |-> cmd.n, kind |-> "List"], cmd>>
      [] cmd.op = "mapPrefix" -> <<[op |-> "hscan", n |-> cmd.n, kind |-> "Map"], cmd>>
      [] OTHER                -> <<cmd>>

RedisSend(c, cmd) ==
    /\ c \notin waiting
    /\ task' = [task EXCEPT ![c].steps = RedisSteps(cmd)]
    /\ waiting' = waiting \cup {c}
    /\ reply' = [reply EXCEPT ![c] = <<"none">>]
    /\ UNCHANGED <<db, now, handle, queue, run, sweep, server, lease>>

Step(c) == Head(task[c].steps)

Named(s) == IF s.op \in {"batchInsert", "batchRemove"} THEN DOMAIN s.puts ELSE {s.n}

\* A client whose next step is one of these, on something that is not expired.
Ready(ops) ==
    {c \in Clients : /\ task[c].steps # <<>>
                     /\ Step(c).op \in ops
                     /\ \A n \in Named(Step(c)) : ~Expired(n, Step(c).kind)}

Finish(c, res) ==
    /\ task' = [task EXCEPT ![c] = NoTask]
    /\ waiting' = waiting \ {c}
    /\ reply' = [reply EXCEPT ![c] = res]
    /\ UNCHANGED <<db, now, queue, run, sweep>>

-----------------------------------------------------------------------------
(* Keys and counters.                                                      *)

\* SET, MSET and DEL drop the deadline.
RedisWrite ==
    \E c \in Ready({"insert", "remove", "batchInsert", "batchRemove", "counterSet"}) :
        LET s    == Step(c)
            puts == CASE s.op \in {"insert", "counterSet"} -> [x \in {s.n} |-> s.v]
                      [] s.op = "remove"                   -> [x \in {s.n} |-> None]
                      [] OTHER                             -> s.puts
        IN  /\ server' = [server EXCEPT
                    !.kv = [n \in Names |-> IF n \in DOMAIN puts THEN puts[n] ELSE @[n]],
                    !.expire["KV"] = [n \in Names |-> IF n \in DOMAIN puts THEN None ELSE @[n]]]
            /\ UNCHANGED <<handle, lease>>
            /\ Finish(c, <<"ok">>)

\* INCRBY keeps the deadline; on a value that is not a number it is an error.
RedisIncr ==
    \E c \in Ready({"kvAdd"}) :
        LET s   == Step(c)
            old == IF server.kv[s.n] = None THEN 0 ELSE server.kv[s.n]
        IN  /\ old \in Int => old + s.by \in -MaxNum .. MaxNum
            /\ UNCHANGED <<handle, lease>>
            /\ IF old \in Int
                  THEN server' = [server EXCEPT !.kv[s.n] = old + s.by] /\ Finish(c, <<"ok">>)
                  ELSE UNCHANGED server /\ Finish(c, <<"error">>)

RedisRead ==
    \E c \in Ready({"get", "counterGet", "contains"}) :
        LET s == Step(c)
        IN  /\ UNCHANGED <<server, handle, lease>>
            /\ Finish(c, CASE s.op = "contains" -> <<"is", Exists(server, s.n, s.kind)>>
                           [] s.op = "get"      -> <<"value", server.kv[s.n]>>
                           [] s.op = "counterGet" ->
                                IF server.kv[s.n] \in Int \cup {None}
                                THEN <<"value", server.kv[s.n]>> ELSE <<"error">>)

\* PEXPIREAT; of a time that has passed it removes the key.
RedisExpireAt ==
    \E c \in Ready({"expireAt"}) :
        LET s == Step(c)
        IN  /\ server' = IF Exists(server, s.n, s.kind)
                         THEN [server EXCEPT !.expire[s.kind][s.n] = s.at] ELSE server
            /\ UNCHANGED <<handle, lease>>
            /\ Finish(c, <<"is", Exists(server, s.n, s.kind)>>)

-----------------------------------------------------------------------------
(* Maps and lists.                                                         *)

\* Opening one asks the server only when there is an expiry to set.
RedisOpen ==
    \E c \in Ready({"mapNew", "listNew"}) :
        LET s == Step(c)
        IN  /\ handle' = [handle EXCEPT ![c][s.n] =
                    IF s.at = None \/ ~Exists(server, s.n, s.kind) THEN "empty" ELSE "filled"]
            /\ lease' = [lease EXCEPT ![c][s.n] = s.at # None]
            /\ UNCHANGED server
            /\ Finish(c, <<"ok">>)

\* The deadline goes with the write that the handle thinks is the first one.
Leased(sv, c, n, kind) ==
    IF lease[c][n] /\ handle[c][n] = "empty" THEN [sv EXCEPT !.expire[kind][n] = now + 1] ELSE sv

Touched(c, n) ==
    handle' = IF lease[c][n] /\ handle[c][n] = "empty"
              THEN [handle EXCEPT ![c][n] = "filled"] ELSE handle

\* insert and batch_insert
HashPut ==
    \E c \in Ready({"mapInsert", "mapBatch"}) :
        LET s == Step(c)
            f == IF s.op = "mapInsert" THEN <<s.i, s.v>> ELSE s.pairs[1]
        IN  /\ server' = Leased([server EXCEPT !.hash[s.n][f[1]] = f[2]], c, s.n, "Map")
            /\ Touched(c, s.n)
            /\ UNCHANGED lease
            /\ Finish(c, <<"ok">>)

\* HDEL, and DEL for clear and map_remove; only clear tells the handle
HashDel ==
    \E c \in Ready({"map", "mapClear", "mapRemove", "mapPrefix"}) :
        LET s   == Step(c)
            cut == IF s.op = "map" THEN DOMAIN s.puts ELSE Items
        IN  /\ server' = Trim([server EXCEPT !.hash[s.n] = [i \in Items |->
                                    IF i \in cut THEN None ELSE @[i]]], s.n, "Map")
            /\ handle' = IF s.op = "mapClear" THEN [handle EXCEPT ![c][s.n] = "empty"] ELSE handle
            /\ UNCHANGED lease
            /\ Finish(c, <<"ok">>)

\* HGET and HDEL in one pipeline
HashFetch ==
    \E c \in Ready({"mapFetch"}) :
        LET s == Step(c)
        IN  /\ server' = Trim([server EXCEPT !.hash[s.n][s.i] = None], s.n, "Map")
            /\ UNCHANGED <<handle, lease>>
            /\ Finish(c, <<"value", server.hash[s.n][s.i]>>)

HashRead ==
    \E c \in Ready({"mapGet", "mapHas", "mapIter"}) :
        LET s == Step(c)
        IN  /\ UNCHANGED <<server, handle, lease>>
            /\ Finish(c, CASE s.op = "mapGet"  -> <<"value", server.hash[s.n][s.i]>>
                           [] s.op = "mapHas"  -> <<"is", server.hash[s.n][s.i] # None>>
                           [] s.op = "mapIter" -> <<"items", Fields(server, s.n)>>)

\* push and pushs
ListRpush ==
    \E c \in Ready({"push"}) :
        LET s == Step(c)
        IN  /\ Len(server.list[s.n]) + Len(s.vs) <= MaxLen
            /\ server' = Leased([server EXCEPT !.list[s.n] = @ \o s.vs], c, s.n, "List")
            /\ Touched(c, s.n)
            /\ UNCHANGED lease
            /\ Finish(c, <<"ok">>)

\* push_limit and remove_with_prefix look first, in a step of their own.
Look ==
    \E c \in Ready({"llen", "hscan"}) :
        LET s == Step(c)
        IN  /\ task' = [task EXCEPT ![c] = [steps |-> Tail(@.steps), count |-> Len(server.list[s.n])]]
            /\ UNCHANGED <<vars, server, lease>>

ListLimit ==
    \E c \in Ready({"pushLimit"}) :
        LET s    == Step(c)
            full == task[c].count >= s.limit
            old  == server.list[s.n]
            base == IF full /\ old # <<>> THEN Tail(old) ELSE old
        IN  /\ Len(base) < MaxLen
            /\ Touched(c, s.n)
            /\ UNCHANGED lease
            /\ IF full /\ ~s.popFront
                  THEN UNCHANGED server /\ Finish(c, <<"error">>)
                  ELSE /\ server' = Leased([server EXCEPT !.list[s.n] = base \o s.vs], c, s.n, "List")
                       /\ Finish(c, <<"ok">>)

\* LPOP, and DEL for clear and list_remove
ListTake ==
    \E c \in Ready({"listPop", "listClear", "listRemove"}) :
        LET s   == Step(c)
            old == server.list[s.n]
            new == IF s.op = "listPop" /\ old # <<>> THEN Tail(old) ELSE <<>>
        IN  /\ server' = Trim([server EXCEPT !.list[s.n] = new], s.n, "List")
            /\ handle' = IF s.op = "listClear" THEN [handle EXCEPT ![c][s.n] = "empty"] ELSE handle
            /\ UNCHANGED lease
            /\ Finish(c, IF s.op # "listPop" THEN <<"ok">>
                         ELSE <<"value", IF old = <<>> THEN None ELSE Head(old)>>)

ListRead ==
    \E c \in Ready({"listAll", "listLen", "listIndex"}) :
        LET s   == Step(c)
            old == server.list[s.n]
        IN  /\ UNCHANGED <<server, handle, lease>>
            /\ Finish(c, CASE s.op = "listAll"   -> <<"list", old>>
                           [] s.op = "listLen"   -> <<"value", Len(old)>>
                           [] s.op = "listIndex" ->
                                <<"value", IF s.i < Len(old) THEN old[s.i + 1] ELSE None>>)

RedisStep ==
    \/ RedisWrite \/ RedisIncr \/ RedisRead \/ RedisExpireAt \/ RedisOpen
    \/ HashPut \/ HashDel \/ HashFetch \/ HashRead
    \/ ListRpush \/ Look \/ ListLimit \/ ListTake \/ ListRead
=============================================================================
