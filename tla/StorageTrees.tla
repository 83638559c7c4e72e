---------------------------- MODULE StorageTrees ----------------------------
(***************************************************************************)
(* What the embedded backends of ferromq-storage have in common: the five  *)
(* tables a database file holds, the clock that deadlines are compared     *)
(* with, the command channel, the one thread that executes commands in the *)
(* order they were sent, and the callers that wait for their replies.      *)
(*                                                                         *)
(* A command is executed as a sequence of steps.  One step is what the     *)
(* cleanup thread cannot interrupt: an operation (or batch) on sled trees, *)
(* a transaction in redb.  SledStorage and RedbStorage say which steps     *)
(* each command takes and what the cleanup thread does.                    *)
(*                                                                         *)
(* The build is the one the plugins use: feature "ttl" on, "map_len" off.  *)
(***************************************************************************)
EXTENDS Integers, Sequences, FiniteSets

CONSTANTS
    Names,      \* keys, map names and list names
    Items,      \* keys inside a map
    Values,     \* stored values that are not numbers
    None,       \* nothing stored, no deadline, no caller
    Clients,    \* tasks that use the database
    MaxTime,    \* bound on the clock
    MaxNum,     \* bound on a counter's magnitude
    MaxLen,     \* bound on the indices of a list
    MaxQueue    \* bound on commands sent and not yet finished

ASSUME StorageConstants ==
    /\ MaxTime \in Nat /\ MaxNum \in Nat /\ MaxLen \in Nat /\ MaxQueue \in Nat
    /\ None \notin Values

VARIABLES
    db,         \* the tables
    now,        \* timestamp_millis()
    handle,     \* the `empty` flag of the map handle a client holds, per map
    queue,      \* the command channel
    run,        \* the command being executed: its caller, steps left, a local
    waiting,    \* the clients whose call has not returned
    reply,      \* what a client's last call returned
    sweep       \* the cleanup thread

vars == <<db, now, handle, queue, run, waiting, reply, sweep>>

Kinds == {"KV", "Map", "List"}
Time  == 0 .. MaxTime
Stored == Values \cup (-MaxNum .. MaxNum)

-----------------------------------------------------------------------------
(* The tables.                                                             *)

EmptyDb ==
    [ kv         |-> [n \in Names |-> None],
      mapItem    |-> [n \in Names |-> [i \in Items |-> None]],
      mapCount   |-> [n \in Names |-> FALSE],
      listItem   |-> [n \in Names |-> [i \in 0 .. MaxLen |-> None]],
      listCount  |-> [n \in Names |-> None],
      keyExpire  |-> [n \in Names |-> None],
      expireKeys |-> {} ]

\* Where a list starts and ends; a list with no count record is at (0, 0).
Bounds(d, n) == IF d.listCount[n] = None THEN <<0, 0>> ELSE d.listCount[n]

\* Is there a key, a map or a list of this name in its table?
Contains(d, n, kind) ==
    CASE kind = "KV"   -> d.kv[n] # None
      [] kind = "Map"  -> d.mapCount[n]
      [] kind = "List" -> d.listCount[n] # None

Lapsed(d, n) == d.keyExpire[n] # None /\ d.keyExpire[n] <= now

WithoutTtl(d, n) ==
    [d EXCEPT !.keyExpire[n] = None,
              !.expireKeys = {e \in @ : ~(e[1] = d.keyExpire[n] /\ e[2] = n)}]

\* Puts a sequence of values into the slots that follow `last`.
PutAfter(slots, last, vs) ==
    [i \in DOMAIN slots |->
        IF i \in last + 1 .. last + Len(vs) THEN vs[i - last] ELSE slots[i]]

\* The values in the slots of an index range, in order, gaps left out.
ReadSlots(slots, from, to) ==
    LET full == SelectSeq([i \in 1 .. MaxLen + 1 |-> i - 1],
                          LAMBDA i : i \in from .. to /\ slots[i] # None)
    IN  [i \in 1 .. Len(full) |-> slots[full[i]]]

-----------------------------------------------------------------------------
(* Calls, the command thread and replies.                                  *)

Idle == [caller |-> None, steps |-> <<>>, local |-> 0]

\* A client sends a command and waits for the answer.
Send(c, cmd) ==
    /\ c \notin waiting
    /\ Len(queue) + (IF run.steps = <<>> THEN 0 ELSE 1) < MaxQueue
    /\ queue' = Append(queue, [caller |-> c, from |-> c, cmd |-> cmd])
    /\ waiting' = waiting \cup {c}
    /\ reply' = [reply EXCEPT ![c] = <<"none">>]
    /\ UNCHANGED <<db, now, handle, run, sweep>>

\* The thread takes the next command, which has these steps, when it is done with
\* the last one.
Take(steps) ==
    /\ run.steps = <<>>
    /\ run' = [caller |-> Head(queue).caller, steps |-> steps, local |-> 0]
    /\ queue' = Tail(queue)
    /\ UNCHANGED <<db, now, handle, waiting, reply, sweep>>

\* The step the thread is about to take, when it is one of these.
Due(ops) ==
    IF run.steps = <<>> THEN {} ELSE {s \in {Head(run.steps)} : s.op \in ops}

\* The step is done: the next one, or the reply.  An error ends the command.
Done(s, res, ok) ==
    LET rest == IF ok THEN Tail(run.steps) ELSE <<>>
    IN  /\ run' = IF rest = <<>> THEN Idle ELSE [run EXCEPT !.steps = rest]
        /\ IF rest = <<>> /\ run.caller # None
              THEN /\ waiting' = waiting \ {run.caller}
                   /\ reply' = [reply EXCEPT ![run.caller] = res]
              ELSE UNCHANGED <<waiting, reply>>
        /\ UNCHANGED <<now, queue, sweep>>

\* The caller gives up (a timeout drops the future).  Its command stays in
\* the channel, or goes on, and its reply is sent to nobody.
Abandon(c) ==
    /\ c \in waiting
    /\ waiting' = waiting \ {c}
    /\ queue' = [i \in DOMAIN queue |->
                    IF queue[i].caller = c THEN [queue[i] EXCEPT !.caller = None]
                                           ELSE queue[i]]
    /\ run' = IF run.caller = c THEN [run EXCEPT !.caller = None] ELSE run
    /\ reply' = [reply EXCEPT ![c] = <<"timeout">>]
    /\ UNCHANGED <<db, now, handle, sweep>>

Tick ==
    /\ now < MaxTime
    /\ now' = now + 1
    /\ UNCHANGED <<db, handle, queue, run, waiting, reply, sweep>>
=============================================================================
