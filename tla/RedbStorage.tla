---------------------------- MODULE RedbStorage -----------------------------
(***************************************************************************)
(* The redb backend.  Every executor runs in one write transaction, or     *)
(* reads one snapshot; the few that use two transactions take two steps.   *)
(* The cleanup thread reads the lapsed entries in one transaction and      *)
(* deletes them in a second one.                                           *)
(*                                                                         *)
(* Names are numbers, ordered as the byte strings of the names are: range  *)
(* scans over a table run from a name's records to the end of the table.   *)
(* Without "map_len" no map ever has a count record.                       *)
(***************************************************************************)
EXTENDS StorageTrees, Functions

-----------------------------------------------------------------------------
(* Deadlines.                                                              *)

ClearTtl(d, ns) ==
    [d EXCEPT !.keyExpire = [n \in Names |-> IF n \in ns THEN None ELSE @[n]],
              !.expireKeys = {e \in @ : ~(e[2] \in ns /\ e[1] = d.keyExpire[e[2]])}]

SetKeyTtl(d, n, at) ==
    LET old == ClearTtl(d, {n})
    IN  [old EXCEPT !.keyExpire[n] = at, !.expireKeys = @ \cup {<<at, n, "KV">>}]

\* A deadline is stored as eight big-endian bytes.  Some readers decode them
\* as a variable-length integer, which ends at the first byte, a zero.
VarintOf(at) == 0
MisreadLapsed(d, n) == d.keyExpire[n] # None /\ VarintOf(d.keyExpire[n]) <= now

\* expire_at and expire of a key look it up in one transaction, in all three
\* tables, and write the deadline in another.
DbExpireCheck ==
    \E s \in Due({"ttlCheck"}) :
        /\ UNCHANGED <<db, handle>>
        /\ Done(s, <<"is", FALSE>>, \E k \in Kinds : Contains(db, s.n, k))

DbExpireSet ==
    \E s \in Due({"ttlSet"}) :
        /\ db' = SetKeyTtl(db, s.n, s.at)
        /\ UNCHANGED handle
        /\ Done(s, <<"is", TRUE>>, TRUE)

ContainerExpireAt ==
    \E s \in Due({"expireAt"}) :
        /\ db' = IF Contains(db, s.n, s.kind) THEN SetKeyTtl(db, s.n, s.at) ELSE db
        /\ UNCHANGED handle
        /\ Done(s, <<"is", Contains(db, s.n, s.kind)>>, TRUE)

-----------------------------------------------------------------------------
(* Keys and counters.                                                      *)

\* insert, remove, batch_insert, batch_remove
DbWrite ==
    \E s \in Due({"write"}) :
        LET put == [db EXCEPT !.kv = [n \in Names |->
                        IF n \in DOMAIN s.puts THEN s.puts[n] ELSE @[n]]]
        IN  /\ db' = ClearTtl(put, DOMAIN s.puts)
            /\ UNCHANGED handle
            /\ Done(s, <<"ok">>, TRUE)

CounterIncr ==
    \E s \in Due({"kvAdd"}) :
        LET old == IF db.kv[s.n] \in Int THEN db.kv[s.n] ELSE 0
        IN  /\ old + s.by \in -MaxNum .. MaxNum
            /\ db' = [db EXCEPT !.kv[s.n] = old + s.by]
            /\ UNCHANGED handle
            /\ Done(s, <<"ok">>, TRUE)

\* The deadline stays.
CounterSet ==
    \E s \in Due({"counterSet"}) :
        /\ db' = [db EXCEPT !.kv[s.n] = s.v]
        /\ UNCHANGED handle
        /\ Done(s, <<"ok">>, TRUE)

DbGet ==
    \E s \in Due({"get"}) :
        /\ UNCHANGED <<db, handle>>
        /\ Done(s, <<"value", IF Lapsed(db, s.n) THEN None ELSE db.kv[s.n]>>, TRUE)

\* Does not look at the deadline, and reads a value as the number zero.
CounterRead ==
    \E s \in Due({"counterGet"}) :
        /\ UNCHANGED <<db, handle>>
        /\ Done(s, <<"value", IF db.kv[s.n] \in Int \cup {None} THEN db.kv[s.n] ELSE 0>>, TRUE)

DbContains ==
    \E s \in Due({"contains"}) :
        /\ UNCHANGED <<db, handle>>
        /\ Done(s, <<"is", /\ Contains(db, s.n, s.kind)
                           /\ ~(IF s.kind = "KV" THEN Lapsed(db, s.n)
                                                  ELSE MisreadLapsed(db, s.n))>>, TRUE)

-----------------------------------------------------------------------------
(* Maps.                                                                   *)

MapItems(d, n) == {i \in Items : d.mapItem[n][i] # None}

MapInsert ==
    \E s \in Due({"mapInsert"}) :
        LET put == [db EXCEPT !.mapItem[s.n][s.i] = s.v]
        IN  /\ db' = IF db.keyExpire[s.n] = None \/ Lapsed(db, s.n)
                     THEN ClearTtl(put, {s.n}) ELSE put
            /\ UNCHANGED handle
            /\ Done(s, <<"ok">>, TRUE)

\* batch_insert, remove, batch_remove and remove_with_prefix of a map
MapWrite ==
    \E s \in Due({"map"}) :
        /\ db' = [db EXCEPT !.mapItem[s.n] = [i \in Items |->
                                IF i \in DOMAIN s.puts THEN s.puts[i] ELSE @[i]]]
        /\ UNCHANGED handle
        /\ Done(s, <<"ok">>, TRUE)

\* Removes every record from the map's first item to the end of the table.
\* map_remove does the same, and leaves the deadline.
MapClearAll ==
    \E s \in Due({"mapClear"}) :
        /\ db' = [db EXCEPT !.mapItem = [m \in Names |->
                                IF m >= s.n THEN [i \in Items |-> None] ELSE @[m]],
                            !.mapCount = [m \in Names |-> IF m >= s.n THEN FALSE ELSE @[m]]]
        /\ UNCHANGED handle
        /\ Done(s, <<"ok">>, TRUE)

MapRead ==
    \E s \in Due({"mapGet"}) :
        /\ UNCHANGED <<db, handle>>
        /\ Done(s, <<"value", IF Lapsed(db, s.n) THEN None ELSE db.mapItem[s.n][s.i]>>, TRUE)

MapHas ==
    \E s \in Due({"mapHas"}) :
        /\ UNCHANGED <<db, handle>>
        /\ Done(s, <<"is", db.mapItem[s.n][s.i] # None /\ ~MisreadLapsed(db, s.n)>>, TRUE)

\* Looks for any record from the map's first item to the end of the table.
MapIsEmpty ==
    \E s \in Due({"mapEmpty"}) :
        /\ UNCHANGED <<db, handle>>
        /\ Done(s, <<"is", \/ MisreadLapsed(db, s.n)
                           \/ \A m \in Names : m >= s.n => MapItems(db, m) = {}>>, TRUE)

\* remove_and_fetch asks whether the map has expired in a transaction of its own.
NotExpired ==
    \E s \in Due({"notExpired"}) :
        /\ UNCHANGED <<db, handle>>
        /\ Done(s, <<"value", None>>, ~Lapsed(db, s.n))

MapFetch ==
    \E s \in Due({"mapFetch"}) :
        /\ db' = [db EXCEPT !.mapItem[s.n][s.i] = None]
        /\ UNCHANGED handle
        /\ Done(s, <<"value", db.mapItem[s.n][s.i]>>, TRUE)

MapIterate ==
    \E s \in Due({"mapIter"}) :
        /\ UNCHANGED <<db, handle>>
        /\ Done(s, <<"items", IF Lapsed(db, s.n) THEN {} ELSE MapItems(db, s.n)>>, TRUE)

-----------------------------------------------------------------------------
(* Lists: values in the slots start .. end - 1.                            *)

ListTtl ==
    \E s \in Due({"listTtl"}) :
        /\ db' = IF Lapsed(db, s.n) THEN ClearTtl(db, {s.n}) ELSE db
        /\ UNCHANGED handle
        /\ Done(s, <<"ok">>, TRUE)

ListPush ==
    \E s \in Due({"listPush"}) :
        LET b == Bounds(db, s.n)
        IN  /\ b[2] + Len(s.vs) <= MaxLen
            /\ db' = [db EXCEPT !.listItem[s.n] = PutAfter(@, b[2] - 1, s.vs),
                                !.listCount[s.n] = <<b[1], b[2] + Len(s.vs)>>]
            /\ UNCHANGED handle
            /\ Done(s, <<"ok">>, TRUE)

ListPushLimit ==
    \E s \in Due({"listLimit"}) :
        LET b    == Bounds(db, s.n)
            full == b[2] - b[1] >= s.limit
            cut  == IF full THEN [db.listItem[s.n] EXCEPT ![b[1]] = None] ELSE db.listItem[s.n]
        IN  /\ b[2] + 1 <= MaxLen
            /\ UNCHANGED handle
            /\ IF full /\ ~s.popFront
                  THEN UNCHANGED db /\ Done(s, <<"error">>, FALSE)
                  ELSE /\ db' = [db EXCEPT
                                    !.listItem[s.n] = PutAfter(cut, b[2] - 1, s.vs),
                                    !.listCount[s.n] = <<IF full THEN b[1] + 1 ELSE b[1],
                                                         b[2] + 1>>]
                       /\ Done(s, <<"ok">>, TRUE)

\* Mutant: pop takes the last value.
ListPopFront_last ==
    \E s \in Due({"listPop"}) :
        LET b == Bounds(db, s.n)
        IN  /\ db' = IF b[1] >= b[2] THEN db
                     ELSE [db EXCEPT !.listItem[s.n][b[2] - 1] = None,
                                     !.listCount[s.n] = <<b[1], b[2] - 1>>]
            /\ UNCHANGED handle
            /\ Done(s, <<"value", IF b[1] >= b[2] THEN None ELSE db.listItem[s.n][b[2] - 1]>>, TRUE)

ListPopFront ==
    \E s \in Due({"listPop"}) :
        LET b == Bounds(db, s.n)
        IN  /\ db' = IF b[1] >= b[2] THEN db
                     ELSE [db EXCEPT !.listItem[s.n][b[1]] = None,
                                     !.listCount[s.n] = <<b[1] + 1, b[2]>>]
            /\ UNCHANGED handle
            /\ Done(s, <<"value", IF b[1] >= b[2] THEN None ELSE db.listItem[s.n][b[1]]>>, TRUE)

\* Removes every record from the list's first value to the end of the table.
ListClearAll ==
    \E s \in Due({"listClear"}) :
        /\ db' = [db EXCEPT !.listItem = [m \in Names |->
                                IF m >= s.n THEN [i \in 0 .. MaxLen |-> None] ELSE @[m]],
                            !.listCount = [m \in Names |-> IF m >= s.n THEN None ELSE @[m]]]
        /\ UNCHANGED handle
        /\ Done(s, <<"ok">>, TRUE)

ListReadAll ==
    \E s \in Due({"listAll"}) :
        LET b == Bounds(db, s.n)
        IN  /\ UNCHANGED <<db, handle>>
            /\ Done(s, <<"list", IF MisreadLapsed(db, s.n) THEN <<>>
                                 ELSE ReadSlots(db.listItem[s.n], b[1], b[2] - 1)>>, TRUE)

ListLength ==
    \E s \in Due({"listLen"}) :
        LET b == Bounds(db, s.n)
        IN  /\ UNCHANGED <<db, handle>>
            /\ Done(s, <<"value", IF MisreadLapsed(db, s.n) THEN 0 ELSE b[2] - b[1]>>, TRUE)

ListIndex ==
    \E s \in Due({"listIndex"}) :
        LET b == Bounds(db, s.n)
        IN  /\ UNCHANGED <<db, handle>>
            /\ Done(s, <<"value", IF Lapsed(db, s.n) \/ b[1] + s.i >= b[2] THEN None
                                  ELSE db.listItem[s.n][b[1] + s.i]>>, TRUE)

-----------------------------------------------------------------------------
(* The transactions each command takes.                                    *)

DeadlineTxns(cmd) ==
    <<[op |-> "ttlCheck", n |-> cmd.n], [op |-> "ttlSet", n |-> cmd.n, at |-> cmd.at]>>

KvTxns(cmd) ==
    CASE cmd.op = "insert"   -> <<[op |-> "write", puts |-> [x \in {cmd.n} |-> cmd.v]]>>
      [] cmd.op = "remove"   -> <<[op |-> "write", puts |-> [x \in {cmd.n} |-> None]]>>
      [] cmd.op \in {"batchInsert", "batchRemove"} -> <<[op |-> "write", puts |-> cmd.puts]>>
      [] cmd.op = "expireAt" -> DeadlineTxns(cmd)
      [] OTHER               -> <<cmd>>

MapTxns(cmd) ==
    CASE cmd.op = "mapNew"    -> DeadlineTxns(cmd)
      [] cmd.op = "mapBatch"  ->
            <<[op |-> "map", n |-> cmd.n,
               puts |-> [i \in {p[1] : p \in Range(cmd.pairs)} |->
                            (CHOOSE p \in Range(cmd.pairs) : p[1] = i)[2]]]>>
      [] cmd.op = "mapRemove" -> <<[op |-> "mapClear", n |-> cmd.n]>>
      [] cmd.op = "mapFetch"  -> <<[op |-> "notExpired", n |-> cmd.n], cmd>>
      [] OTHER                -> <<cmd>>

ListTxns(cmd) ==
    CASE cmd.op = "listNew"    -> DeadlineTxns(cmd)
      [] cmd.op = "push"       ->
            IF Len(cmd.vs) = 1
            THEN <<[op |-> "listTtl", n |-> cmd.n], [op |-> "listPush", n |-> cmd.n, vs |-> cmd.vs]>>
            ELSE <<[op |-> "listPush", n |-> cmd.n, vs |-> cmd.vs]>>
      [] cmd.op = "pushLimit"  -> <<[op |-> "listLimit", n |-> cmd.n, vs |-> cmd.vs,
                                     limit |-> cmd.limit, popFront |-> cmd.popFront]>>
      [] cmd.op = "listPop"    -> <<[op |-> "notExpired", n |-> cmd.n], cmd>>
      [] cmd.op = "listRemove" -> <<[op |-> "listClear", n |-> cmd.n]>>
      [] OTHER                 -> <<cmd>>

RedbSteps(c, cmd) ==
    CASE cmd.kind = "KV"   -> KvTxns(cmd)
      [] cmd.kind = "Map"  -> MapTxns(cmd)
      [] cmd.kind = "List" -> ListTxns(cmd)

TakeRedb ==
    /\ queue # <<>>
    /\ Take(RedbSteps(Head(queue).from, Head(queue).cmd))

RedbStep ==
    \/ DbExpireCheck \/ DbExpireSet \/ ContainerExpireAt
    \/ DbWrite \/ CounterIncr \/ CounterSet \/ DbGet \/ CounterRead \/ DbContains
    \/ MapInsert \/ MapWrite \/ MapClearAll \/ MapRead \/ MapHas \/ MapIsEmpty
    \/ NotExpired \/ MapFetch \/ MapIterate
    \/ ListTtl \/ ListPush \/ ListPushLimit \/ ListPopFront \/ ListClearAll
    \/ ListReadAll \/ ListLength \/ ListIndex

-----------------------------------------------------------------------------
(* The cleanup thread.  The names of maps and lists are no keys of their   *)
(* tables, so what a container holds is left where it is.                  *)

CleanupRead ==
    LET old == {e \in db.expireKeys : e[1] <= now}
    IN  /\ sweep.pc = "idle"
        /\ old # {}
        /\ sweep' = [sweep EXCEPT !.pc = "delete", !.batch = old]
        /\ UNCHANGED <<db, now, handle, queue, run, waiting, reply>>

\* Mutant: the entry of key_expire stays.
CleanupDelete_kv ==
    LET named == {e[2] : e \in sweep.batch}
    IN  /\ sweep.pc = "delete"
        /\ db' = [db EXCEPT
                    !.kv = [n \in Names |-> IF n \in named THEN None ELSE @[n]],
                    !.expireKeys = @ \ sweep.batch]
        /\ sweep' = [sweep EXCEPT !.pc = "idle", !.batch = {}]
        /\ UNCHANGED <<now, handle, queue, run, waiting, reply>>

CleanupDelete ==
    LET named == {e[2] : e \in sweep.batch}
    IN  /\ sweep.pc = "delete"
        /\ db' = [db EXCEPT
                    !.kv = [n \in Names |-> IF n \in named THEN None ELSE @[n]],
                    !.keyExpire = [n \in Names |-> IF n \in named THEN None ELSE @[n]],
                    !.expireKeys = @ \ sweep.batch]
        /\ sweep' = [sweep EXCEPT !.pc = "idle", !.batch = {}]
        /\ UNCHANGED <<now, handle, queue, run, waiting, reply>>

RedbCleanup == CleanupRead \/ CleanupDelete
=============================================================================
