------------------------------ MODULE Retainer ------------------------------
(***************************************************************************)
(* The retained messages of ferromq-retainer: at most one per topic.       *)
(*                                                                         *)
(* RamRetainer keeps them in a tree under one lock.  The retainer on a     *)
(* database only posts what is to be set; a task takes the posts in        *)
(* batches, updates a tree of the topics that have a message, and then     *)
(* writes the batch to the database: all removals first, then all          *)
(* insertions.                                                             *)
(***************************************************************************)
EXTENDS MessageStore

CONSTANTS
    Topics,       \* topic names
    RetainMax,    \* max_retained_messages, 0 for no limit
    BatchLimit,   \* batch_messages_limit
    RetainLife    \* how long a retained message lives

VARIABLES
    retainer,     \* "ram", "db", or "none"
    retained,     \* topic -> what is kept for it: the tree, or the database
    retCount,     \* the counter of the retainer in memory
    retQueue,     \* posts to the task of the retainer on a database
    retTopics,    \* topic -> when it expires: that task's tree
    retBatch,     \* what that task is about to write
    lastSet       \* topic -> what was last set for it, and not refused

retainVars == <<retainer, retained, retCount, retQueue, retTopics, retBatch, lastSet>>

Nothing == [m |-> None, exp |-> 0]
NoBatch == [pc |-> "idle", left |-> <<>>, removes |-> {}, inserts |-> <<>>]

RetainInit ==
    /\ retained = <<>>
    /\ retCount = 0
    /\ retQueue = <<>>
    /\ retTopics = <<>>
    /\ retBatch = NoBatch
    /\ lastSet = [t \in Topics |-> Nothing]

\* What set is called with: a message, its id, and whether its payload is
\* empty, which clears the topic.
Post(t, m, id, clear) == [t |-> t, m |-> m, id |-> id, clear |-> clear]

RetExpired(e) == e.exp <= now

-----------------------------------------------------------------------------
(* The retainer in memory.                                                 *)

\* The limit is looked at before the tree is locked.
RamRoom == RetainMax = 0 \/ retCount < RetainMax

RamSet(p) ==
    /\ retained' = IF p.clear THEN Without(retained, p.t)
                   ELSE With(retained, p.t, [m |-> p.m, id |-> p.id, exp |-> now + RetainLife])
    /\ retCount' = retCount
                   + (IF p.clear \/ p.t \in DOMAIN retained THEN 0 ELSE 1)
                   - (IF p.clear /\ p.t \in DOMAIN retained THEN 1 ELSE 0)
    /\ lastSet' = [lastSet EXCEPT ![p.t] = IF p.clear THEN Nothing ELSE [m |-> p.m, exp |-> now + RetainLife]]
    /\ UNCHANGED <<retainer, retQueue, retTopics, retBatch>>

\* every ten seconds
RamRemoveExpired ==
    LET gone == {t \in DOMAIN retained : RetExpired(retained[t])}
    IN  /\ retainer = "ram"
        /\ gone # {}
        /\ retained' = [t \in DOMAIN retained \ gone |-> retained[t]]
        /\ retCount' = retCount - Cardinality(gone)
        /\ UNCHANGED <<retainer, retQueue, retTopics, retBatch, lastSet>>

-----------------------------------------------------------------------------
(* The retainer on a database.                                             *)

DbSet(p) ==
    /\ retQueue' = Append(retQueue, p)
    /\ UNCHANGED <<retainer, retained, retCount, retTopics, retBatch, lastSet>>

\* The task waits for one post and takes what else is there, up to the limit.
RetTake ==
    /\ retainer = "db"
    /\ retBatch.pc = "idle"
    /\ retQueue # <<>>
    /\ LET n == Min({Len(retQueue), BatchLimit})
       IN  /\ retBatch' = [NoBatch EXCEPT !.pc = "merge", !.left = SubSeq(retQueue, 1, n)]
           /\ retQueue' = SubSeq(retQueue, n + 1, Len(retQueue))
    /\ UNCHANGED <<retainer, retained, retCount, retTopics, lastSet>>

\* check_constraints counts the topics of the tree, expired ones included.
DbRoom == RetainMax = 0 \/ Cardinality(DOMAIN retTopics) < RetainMax

RetMerge ==
    /\ retainer = "db"
    /\ retBatch.pc = "merge"
    /\ LET p == Head(retBatch.left)
           b == [retBatch EXCEPT !.left = Tail(@), !.pc = IF Tail(retBatch.left) = <<>> THEN "remove" ELSE @]
           e == [m |-> p.m, id |-> p.id, exp |-> now + RetainLife]
       IN  IF p.clear
           THEN /\ retTopics' = Without(retTopics, p.t)
                /\ retBatch' = [b EXCEPT !.removes = @ \cup {p.t}]
                /\ lastSet' = [lastSet EXCEPT ![p.t] = Nothing]
           ELSE IF DbRoom
           THEN /\ retTopics' = With(retTopics, p.t, e.exp)
                /\ retBatch' = [b EXCEPT !.inserts = Append(@, <<p.t, e>>)]
                /\ lastSet' = [lastSet EXCEPT ![p.t] = [m |-> p.m, exp |-> e.exp]]
           ELSE /\ retBatch' = b
                /\ UNCHANGED <<retTopics, lastSet>>
    /\ UNCHANGED <<retainer, retained, retCount, retQueue>>

RetRemove ==
    /\ retainer = "db"
    /\ retBatch.pc = "remove"
    /\ retained' = [t \in DOMAIN retained \ retBatch.removes |-> retained[t]]
    /\ retBatch' = [retBatch EXCEPT !.pc = "insert"]
    /\ UNCHANGED <<retainer, retCount, retQueue, retTopics, lastSet>>

\* The insertions of a batch are made in order, and so the last one stays.
RetInsert ==
    /\ retainer = "db"
    /\ retBatch.pc = "insert"
    /\ retained' = LET ts == {retBatch.inserts[i][1] : i \in DOMAIN retBatch.inserts}
                       last(t) == retBatch.inserts[Max({i \in DOMAIN retBatch.inserts : retBatch.inserts[i][1] = t})][2]
                   IN  [t \in DOMAIN retained \cup ts |-> IF t \in ts THEN last(t) ELSE retained[t]]
    /\ retBatch' = NoBatch
    /\ UNCHANGED <<retainer, retCount, retQueue, retTopics, lastSet>>

\* A call of the database fails or times out: the rest of the batch is gone,
\* but not what it did to the tree.
InDb(t) == IF t \in DOMAIN retained THEN [m |-> retained[t].m, exp |-> retained[t].exp] ELSE Nothing

RetFails ==
    /\ retainer = "db"
    /\ retBatch.pc \in {"remove", "insert"}
    /\ retBatch' = NoBatch
    /\ lastSet' = [t \in Topics |-> InDb(t)]
    /\ UNCHANGED <<retainer, retained, retCount, retQueue, retTopics>>

\* A node that starts again scans the database for its tree.
RetRestart ==
    /\ retainer = "db"
    /\ retTopics' = [t \in {u \in DOMAIN retained : ~RetExpired(retained[u])} |-> retained[t].exp]
    /\ retQueue' = <<>>
    /\ retBatch' = NoBatch
    /\ lastSet' = [t \in Topics |-> InDb(t)]
    /\ UNCHANGED <<retainer, retained, retCount>>

RamRetRestart ==
    /\ retainer = "ram"
    /\ retained' = <<>>
    /\ retCount' = 0
    /\ lastSet' = [t \in Topics |-> Nothing]
    /\ UNCHANGED <<retainer, retQueue, retTopics, retBatch>>

RetainStep == RamRemoveExpired \/ RetTake \/ RetMerge \/ RetRemove \/ RetInsert

-----------------------------------------------------------------------------
(* What a subscriber gets: with wildcards the tree says for which topics   *)
(* the database is asked, without them the database is asked.              *)

Matched(wild) ==
    IF retainer = "db" /\ wild
    THEN {t \in DOMAIN retTopics : retTopics[t] > now} \cap DOMAIN retained
    ELSE DOMAIN retained

RetGet(wild, ts) == {t \in Matched(wild) \cap ts : ~RetExpired(retained[t])}

=============================================================================
