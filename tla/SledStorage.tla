---------------------------- MODULE SledStorage -----------------------------
(***************************************************************************)
(* The sled backend.  Commands are executed one after another by one       *)
(* thread, but not in transactions: every tree operation or batch takes    *)
(* effect on its own, and the cleanup thread runs between any two of them. *)
(* key_expire_tree (name -> deadline) and expire_key_tree ((deadline,      *)
(* name) -> kind) are shared by keys, maps and lists.                      *)
(***************************************************************************)
EXTENDS StorageTrees

-----------------------------------------------------------------------------
(* Deadlines.                                                              *)

\* Something that is not there counts as expired.
IsExpired(n, kind) == ~Contains(db, n, kind) \/ Lapsed(db, n)

RemoveExpireKey ==
    \E s \in Due({"dropTtl"}) :
        /\ db' = [db EXCEPT
                    !.keyExpire = [n \in Names |-> IF n \in s.ns THEN None ELSE @[n]],
                    !.expireKeys = {e \in @ :
                        ~(e[2] \in s.ns /\ e[1] = db.keyExpire[e[2]])}]
        /\ UNCHANGED handle
        /\ Done(s, <<"ok">>, TRUE)

\* batch_insert drops only the deadlines that have passed already.
RemoveLapsed ==
    \E s \in Due({"dropLapsed"}) :
        LET gone == {n \in s.ns : Contains(db, n, "KV") /\ Lapsed(db, n)}
        IN  /\ db' = [db EXCEPT
                        !.keyExpire = [n \in Names |-> IF n \in gone THEN None ELSE @[n]],
                        !.expireKeys = {e \in @ :
                            ~(e[2] \in gone /\ e[1] = db.keyExpire[e[2]])}]
            /\ UNCHANGED handle
            /\ Done(s, <<"ok">>, TRUE)

\* Writing to an expired map or list makes it live for ever.
RemoveIfExpired ==
    \E s \in Due({"dropExpired"}) :
        /\ db' = IF IsExpired(s.n, s.kind) THEN WithoutTtl(db, s.n) ELSE db
        /\ UNCHANGED handle
        /\ Done(s, <<"ok">>, TRUE)

\* The entry of an earlier deadline stays in expire_key_tree.
ExpireAt ==
    \E s \in Due({"expireAt"}) :
        /\ db' = IF ~Contains(db, s.n, s.kind) THEN db
                 ELSE [db EXCEPT !.keyExpire[s.n] = s.at,
                                 !.expireKeys = {e \in @ : <<e[1], e[2]>> # <<s.at, s.n>>}
                                                    \cup {<<s.at, s.n, s.kind>>}]
        /\ UNCHANGED handle
        /\ Done(s, <<"is", /\ Contains(db, s.n, s.kind)
                           /\ ~\E e \in db.expireKeys : <<e[1], e[2]>> = <<s.at, s.n>> >>, TRUE)

-----------------------------------------------------------------------------
(* Keys and counters.                                                      *)

KvApply ==
    \E s \in Due({"kv"}) :
        /\ db' = [db EXCEPT !.kv = [n \in Names |->
                                        IF n \in DOMAIN s.puts THEN s.puts[n] ELSE @[n]]]
        /\ UNCHANGED handle
        /\ Done(s, <<"ok">>, TRUE)

\* fetch_and_update; a value that is not a number counts as zero.
CounterAdd ==
    \E s \in Due({"kvAdd"}) :
        LET old == IF db.kv[s.n] \in Int THEN db.kv[s.n] ELSE 0
        IN  /\ old + s.by \in -MaxNum .. MaxNum
            /\ db' = [db EXCEPT !.kv[s.n] = old + s.by]
            /\ UNCHANGED handle
            /\ Done(s, <<"ok">>, TRUE)

KvGet ==
    \E s \in Due({"get"}) :
        /\ UNCHANGED <<db, handle>>
        /\ Done(s, <<"value", IF IsExpired(s.n, "KV") THEN None ELSE db.kv[s.n]>>, TRUE)

CounterGet ==
    \E s \in Due({"counterGet"}) :
        /\ UNCHANGED <<db, handle>>
        /\ Done(s, IF IsExpired(s.n, "KV") THEN <<"value", None>>
                   ELSE IF db.kv[s.n] \in Int THEN <<"value", db.kv[s.n]>> ELSE <<"error">>, TRUE)

\* contains_key, map_contains_key, list_contains_key
ContainsKey ==
    \E s \in Due({"contains"}) :
        /\ UNCHANGED <<db, handle>>
        /\ Done(s, <<"is", ~IsExpired(s.n, s.kind)>>, TRUE)

-----------------------------------------------------------------------------
(* Maps.  A handle remembers whether its map was empty when it looked; the *)
(* count record, which says that the map exists, is written only then.     *)

ItemsOf(d, n) == {i \in Items : d.mapItem[n][i] # None}

MapNew ==
    \E s \in Due({"mapNew"}) :
        /\ handle' = [handle EXCEPT ![s.c][s.n] =
                        IF IsExpired(s.n, "Map") \/ ItemsOf(db, s.n) = {}
                        THEN "empty" ELSE "filled"]
        /\ UNCHANGED db
        /\ Done(s, <<"ok">>, TRUE)

CounterInit ==
    \E s \in Due({"mapInit"}) :
        /\ IF handle[s.c][s.n] = "empty"
              THEN /\ db' = [db EXCEPT !.mapCount[s.n] = TRUE]
                   /\ handle' = [handle EXCEPT ![s.c][s.n] = "filled"]
              ELSE UNCHANGED <<db, handle>>
        /\ Done(s, <<"ok">>, TRUE)

\* insert (one item), remove, batch_remove and remove_with_prefix (None)
MapApply ==
    \E s \in Due({"map"}) :
        /\ db' = [db EXCEPT !.mapItem[s.n] = [i \in Items |->
                                IF i \in DOMAIN s.puts THEN s.puts[i] ELSE @[i]]]
        /\ UNCHANGED handle
        /\ Done(s, <<"ok">>, TRUE)

\* Only the handle that clears learns of it; map_remove uses a new one.
MapClear ==
    \E s \in Due({"mapClear"}) :
        /\ db' = [db EXCEPT !.mapItem[s.n] = [i \in Items |-> None],
                            !.mapCount[s.n] = FALSE]
        /\ handle' = IF s.c = None THEN handle
                     ELSE [handle EXCEPT ![s.c][s.n] = "empty"]
        /\ Done(s, <<"ok">>, TRUE)

MapGet ==
    \E s \in Due({"mapGet"}) :
        /\ UNCHANGED <<db, handle>>
        /\ Done(s, <<"value", IF IsExpired(s.n, "Map") THEN None ELSE db.mapItem[s.n][s.i]>>, TRUE)

\* The map's contains_key does not look at the deadline.
MapContainsKey ==
    \E s \in Due({"mapHas"}) :
        /\ UNCHANGED <<db, handle>>
        /\ Done(s, <<"is", db.mapItem[s.n][s.i] # None>>, TRUE)

MapRemoveAndFetch ==
    \E s \in Due({"mapFetch"}) :
        /\ db' = IF IsExpired(s.n, "Map") THEN db
                 ELSE [db EXCEPT !.mapItem[s.n][s.i] = None]
        /\ UNCHANGED handle
        /\ Done(s, <<"value", IF IsExpired(s.n, "Map") THEN None ELSE db.mapItem[s.n][s.i]>>, TRUE)

\* iter, key_iter, prefix_iter, and with them is_empty
MapIter ==
    \E s \in Due({"mapIter"}) :
        /\ UNCHANGED <<db, handle>>
        /\ Done(s, <<"items", IF IsExpired(s.n, "Map") THEN {} ELSE ItemsOf(db, s.n)>>, TRUE)

-----------------------------------------------------------------------------
(* Lists: values in the slots start + 1 .. end.                            *)

\* push and pushs write the count record before the values.
ListGrow ==
    \E s \in Due({"listGrow"}) :
        LET b == Bounds(db, s.n)
        IN  /\ b[2] + s.by <= MaxLen
            /\ db' = [db EXCEPT !.listCount[s.n] = <<b[1], b[2] + s.by>>]
            /\ UNCHANGED <<handle, now, queue, sweep, waiting, reply>>
            /\ run' = [run EXCEPT !.steps = Tail(@), !.local = b[2]]

ListFill ==
    \E s \in Due({"listFill"}) :
        /\ db' = [db EXCEPT !.listItem[s.n] = PutAfter(@, run.local, s.vs)]
        /\ UNCHANGED handle
        /\ Done(s, <<"ok">>, TRUE)

PushLimit ==
    \E s \in Due({"listLimit"}) :
        LET b     == Bounds(db, s.n)
            full  == b[2] - b[1] >= s.limit
            front == IF full /\ b[1] + 1 <= MaxLen THEN db.listItem[s.n][b[1] + 1] ELSE None
        IN  /\ b[2] + 1 <= MaxLen
            /\ UNCHANGED handle
            /\ IF full /\ ~s.popFront
                  THEN UNCHANGED db /\ Done(s, <<"error">>, FALSE)
                  ELSE /\ db' = [db EXCEPT
                                    !.listCount[s.n] = <<IF front = None THEN b[1] ELSE b[1] + 1,
                                                         b[2] + 1>>,
                                    !.listItem[s.n] = IF front = None THEN @
                                                      ELSE [@ EXCEPT ![b[1] + 1] = None]]
                       /\ run' = [run EXCEPT !.steps = Tail(@), !.local = b[2]]
                       /\ UNCHANGED <<now, queue, sweep, waiting, reply>>

\* Mutant: the value is removed and the start of the list is not moved.
ListPop_start ==
    \E s \in Due({"listPop"}) :
        LET b     == Bounds(db, s.n)
            front == IF IsExpired(s.n, "List") \/ b[2] - b[1] <= 0 THEN None
                     ELSE db.listItem[s.n][b[1] + 1]
        IN  /\ db' = IF front = None THEN db
                     ELSE [db EXCEPT !.listItem[s.n][b[1] + 1] = None]
            /\ UNCHANGED handle
            /\ Done(s, <<"value", front>>, TRUE)

ListPop ==
    \E s \in Due({"listPop"}) :
        LET b     == Bounds(db, s.n)
            front == IF IsExpired(s.n, "List") \/ b[2] - b[1] <= 0 THEN None
                     ELSE db.listItem[s.n][b[1] + 1]
        IN  /\ db' = IF front = None THEN db
                     ELSE [db EXCEPT !.listItem[s.n][b[1] + 1] = None,
                                     !.listCount[s.n] = <<b[1] + 1, b[2]>>]
            /\ UNCHANGED handle
            /\ Done(s, <<"value", front>>, TRUE)

ListClear ==
    \E s \in Due({"listClear"}) :
        /\ db' = [db EXCEPT !.listItem[s.n] = [i \in 0 .. MaxLen |-> None],
                            !.listCount[s.n] = None]
        /\ UNCHANGED handle
        /\ Done(s, <<"ok">>, TRUE)

\* all, iter and is_empty read the slots, whatever the count record says.
ListAll ==
    \E s \in Due({"listAll"}) :
        /\ UNCHANGED <<db, handle>>
        /\ Done(s, <<"list", IF IsExpired(s.n, "List") THEN <<>>
                             ELSE ReadSlots(db.listItem[s.n], 0, MaxLen)>>, TRUE)

ListLen ==
    \E s \in Due({"listLen"}) :
        LET b == Bounds(db, s.n)
        IN  /\ UNCHANGED <<db, handle>>
            /\ Done(s, <<"value", IF IsExpired(s.n, "List") THEN 0 ELSE b[2] - b[1]>>, TRUE)

ListGetIndex ==
    \E s \in Due({"listIndex"}) :
        LET b == Bounds(db, s.n)
        IN  /\ UNCHANGED <<db, handle>>
            /\ Done(s, <<"value", IF IsExpired(s.n, "List") \/ s.i >= b[2] - b[1] THEN None
                                  ELSE db.listItem[s.n][b[1] + s.i + 1]>>, TRUE)

-----------------------------------------------------------------------------
(* What the thread does for each command.  `late` marks the step that      *)
(* finishes a write begun by the step before it.                           *)

One(k, v) == [x \in {k} |-> v]

\* Mutant: insert leaves the deadline of the value it replaces.
InsertSteps_keep(n, x) == <<[op |-> "kv", puts |-> One(n, x), late |-> FALSE]>>

InsertSteps(n, x) ==
    <<[op |-> "kv", puts |-> One(n, x), late |-> FALSE],
      [op |-> "dropTtl", ns |-> {n}, late |-> TRUE]>>

KvSteps(cmd) ==
    CASE cmd.op = "insert"      -> InsertSteps(cmd.n, cmd.v)
      [] cmd.op = "remove"      -> <<[op |-> "kv", puts |-> One(cmd.n, None), late |-> FALSE],
                                     [op |-> "dropTtl", ns |-> {cmd.n}, late |-> TRUE]>>
      [] cmd.op = "batchInsert" -> <<[op |-> "dropLapsed", ns |-> DOMAIN cmd.puts],
                                     [op |-> "kv", puts |-> cmd.puts, late |-> TRUE]>>
      [] cmd.op = "batchRemove" -> <<[op |-> "dropTtl", ns |-> DOMAIN cmd.puts, late |-> FALSE],
                                     [op |-> "kv", puts |-> cmd.puts, late |-> TRUE]>>
      [] cmd.op = "counterSet"  -> <<[op |-> "dropTtl", ns |-> {cmd.n}, late |-> FALSE],
                                     [op |-> "kv", puts |-> One(cmd.n, cmd.v), late |-> TRUE]>>
      [] OTHER                  -> <<cmd>>

Arm(cmd) == <<[op |-> "expireAt", n |-> cmd.n, at |-> cmd.at, kind |-> cmd.kind]>>

InsertItem(c, n, i, v) ==
    <<[op |-> "mapInit", c |-> c, n |-> n],
      [op |-> "map", n |-> n, puts |-> One(i, v)],
      [op |-> "dropExpired", n |-> n, kind |-> "Map"]>>

MapSteps(c, cmd) ==
    CASE cmd.op = "mapNew"    -> <<[op |-> "mapNew", c |-> c, n |-> cmd.n]>>
                                 \o IF cmd.at = None THEN <<>> ELSE Arm(cmd)
      [] cmd.op = "mapInsert" -> InsertItem(c, cmd.n, cmd.i, cmd.v)
      [] cmd.op = "mapBatch"  -> \* one insert after another
            [k \in 1 .. 3 * Len(cmd.pairs) |->
                LET p == cmd.pairs[(k + 2) \div 3]
                IN  InsertItem(c, cmd.n, p[1], p[2])[((k - 1) % 3) + 1]]
      [] cmd.op = "mapClear"  -> <<[op |-> "mapClear", c |-> c, n |-> cmd.n]>>
      [] cmd.op = "mapRemove" -> <<[op |-> "mapClear", c |-> None, n |-> cmd.n],
                                   [op |-> "dropTtl", ns |-> {cmd.n}, late |-> TRUE]>>
      [] OTHER                -> <<cmd>>

ListSteps(cmd) ==
    CASE cmd.op = "listNew"    -> Arm(cmd)
      [] cmd.op = "push"       -> <<[op |-> "listGrow", n |-> cmd.n, by |-> Len(cmd.vs)],
                                    [op |-> "listFill", n |-> cmd.n, vs |-> cmd.vs],
                                    [op |-> "dropExpired", n |-> cmd.n, kind |-> "List"]>>
      [] cmd.op = "pushLimit"  -> <<[op |-> "listLimit", n |-> cmd.n, limit |-> cmd.limit,
                                     popFront |-> cmd.popFront],
                                    [op |-> "listFill", n |-> cmd.n, vs |-> cmd.vs],
                                    [op |-> "dropExpired", n |-> cmd.n, kind |-> "List"]>>
      [] cmd.op = "listRemove" -> <<[op |-> "listClear", n |-> cmd.n],
                                    [op |-> "dropTtl", ns |-> {cmd.n}, late |-> TRUE]>>
      [] OTHER                 -> <<cmd>>

Steps(c, cmd) ==
    CASE cmd.kind = "KV"   -> KvSteps(cmd)
      [] cmd.kind = "Map"  -> MapSteps(c, cmd)
      [] cmd.kind = "List" -> ListSteps(cmd)

TakeCommand ==
    /\ queue # <<>>
    /\ Take(Steps(Head(queue).from, Head(queue).cmd))

CommandStep ==
    \/ RemoveExpireKey \/ RemoveLapsed \/ RemoveIfExpired \/ ExpireAt
    \/ KvApply \/ CounterAdd \/ KvGet \/ CounterGet \/ ContainsKey
    \/ MapNew \/ CounterInit \/ MapApply \/ MapClear \/ MapGet
    \/ MapContainsKey \/ MapRemoveAndFetch \/ MapIter
    \/ ListGrow \/ ListFill \/ PushLimit \/ ListPop \/ ListClear
    \/ ListAll \/ ListLen \/ ListGetIndex

-----------------------------------------------------------------------------
(* The cleanup thread: collect the lapsed entries, remove what they name,  *)
(* then take the entries out of the two deadline trees.  Nothing keeps the *)
(* command thread from running in between.                                 *)

NoSweep == [pc |-> "idle", batch |-> {}, left |-> {}, cut |-> {}]

SweepUnchanged == UNCHANGED <<now, handle, queue, run, waiting, reply>>

CleanupCollect ==
    LET old == {e \in db.expireKeys : e[1] <= now}
    IN  /\ sweep.pc = "idle"
        /\ old # {}
        /\ sweep' = [pc |-> "remove", batch |-> old, left |-> old, cut |-> {}]
        /\ UNCHANGED db
        /\ SweepUnchanged

CleanupKv ==
    /\ sweep.pc = "remove"
    /\ \E e \in sweep.left :
        /\ e[3] = "KV"
        /\ db' = [db EXCEPT !.kv[e[2]] = None]
        /\ sweep' = [sweep EXCEPT !.left = @ \ {e}]
    /\ SweepUnchanged

\* Clearing a map or a list scans for the records, then removes those found.
CleanupScan ==
    /\ sweep.pc = "remove"
    /\ \E e \in sweep.left :
        LET found == IF e[3] = "Map" THEN ItemsOf(db, e[2])
                     ELSE {i \in 0 .. MaxLen : db.listItem[e[2]][i] # None}
        IN  /\ e[3] # "KV"
            /\ sweep' = [sweep EXCEPT !.pc = "clear", !.left = @ \ {e},
                            !.cut = [name |-> e[2], kind |-> e[3], recs |-> found,
                                     count |-> e[3] = "List" \/ db.mapCount[e[2]]]]
    /\ UNCHANGED db
    /\ SweepUnchanged

CleanupClear ==
    LET n == sweep.cut.name
        Cut(f) == [i \in DOMAIN f |-> IF i \in sweep.cut.recs THEN None ELSE f[i]]
    IN  /\ sweep.pc = "clear"
        /\ db' = IF sweep.cut.kind = "Map"
                 THEN [db EXCEPT !.mapItem[n] = Cut(@),
                                 !.mapCount[n] = @ /\ ~sweep.cut.count]
                 ELSE [db EXCEPT !.listItem[n] = Cut(@), !.listCount[n] = None]
        /\ sweep' = [sweep EXCEPT !.pc = "remove", !.cut = {}]
        /\ SweepUnchanged

CleanupKeyExpire ==
    /\ sweep.pc = "remove" /\ sweep.left = {}
    /\ db' = [db EXCEPT !.keyExpire = [n \in Names |->
                    IF \E e \in sweep.batch : e[2] = n THEN None ELSE @[n]]]
    /\ sweep' = [sweep EXCEPT !.pc = "index"]
    /\ SweepUnchanged

CleanupExpireKeys ==
    /\ sweep.pc = "index"
    /\ db' = [db EXCEPT !.expireKeys = {e \in @ :
                    ~\E b \in sweep.batch : <<b[1], b[2]>> = <<e[1], e[2]>>}]
    /\ sweep' = NoSweep
    /\ SweepUnchanged

Cleanup ==
    \/ CleanupCollect \/ CleanupKv \/ CleanupScan \/ CleanupClear
    \/ CleanupKeyExpire \/ CleanupExpireKeys
=============================================================================
