------------------------------- MODULE Router -------------------------------
(***************************************************************************)
(* DefaultRouter: the tree of topic filters behind a tokio RwLock and the   *)
(* map from each filter to its subscribers, a DashMap.  Adding and removing *)
(* a subscription touch the two one after the other with nothing held in    *)
(* between, so the operations of different tasks interleave between their   *)
(* steps.  A task runs one operation at a time.  It is a session, or the    *)
(* handshake or the clean-up that removes the subscriptions of a session,   *)
(* so that two tasks may act for one client, and for one session.           *)
(***************************************************************************)
EXTENDS TopicTree, FiniteSets

CONSTANTS
  Tasks,       \* the tasks that call the router
  Clients,     \* client identifiers
  Filters,     \* topic filters that clients subscribe to
  TopicNames,  \* topic names that messages are published to
  NoLocal,     \* filters subscribed to with the No Local option
  Shared,      \* filters subscribed to as one shared group
  MaxIds,      \* bound: how many sessions one client opens
  MaxCount     \* bound: no add begins with relations_count at this value; the
               \* counter drifts upwards when entries are lost

ASSUME RouterAssumption ==
  /\ \A f \in Filters : f \in Seq(Level) /\ is_valid(f)
  /\ \A t \in TopicNames : t \in Seq(Level) /\ is_topic_name(t)
  /\ NoLocal \subseteq Filters /\ Shared \subseteq Filters
  /\ MaxIds \in Nat \ {0}
  /\ MaxCount \in Nat

VARIABLES
  topics,           \* the tree
  entries,          \* the keys of the map
  relations,        \* for each filter and client the Id that subscribed, or None
  topics_count,     \* Counter
  relations_count,  \* Counter
  task,             \* the operation each task has in progress
  id,               \* the Id of each client's latest session
  subs,             \* history: the subscriptions as the completed calls left them
  raced             \* history: filters on which an add and the clean-up of a
                    \* remove were in progress at once

vars == <<topics, entries, relations, topics_count, relations_count, task, id, subs, raced>>

None == 0
Ids == 1..MaxIds

Stage(s, f) == [stage |-> s, filter |-> f]
Idle == Stage("idle", <<>>)

\* An add that has been to the tree, for session i of client c.
Relate(f, c, i) == [stage |-> "relate", filter |-> f, client |-> c, id |-> i]

Busy == [stage : {"drop", "prune"}, filter : Filters]
        \cup [stage : {"relate"}, filter : Filters, client : Clients, id : Ids]

NoSubscriber == [c \in Clients |-> None]

Init ==
  /\ topics = EmptyTree
  /\ entries = {}
  /\ relations = [f \in Filters |-> NoSubscriber]
  /\ topics_count = 0
  /\ relations_count = 0
  /\ task = [t \in Tasks |-> Idle]
  /\ id = [c \in Clients |-> 1]
  /\ subs = [f \in Filters |-> NoSubscriber]
  /\ raced = {}

At(t, s, f) == task[t].stage = s /\ task[t].filter = f

Racing(f) == /\ \E t \in Tasks : At(t, "relate", f)
             /\ \E t \in Tasks : At(t, "drop", f) \/ At(t, "prune", f)

Watch == raced' = raced \cup {f \in Filters : Racing(f)'}

-----------------------------------------------------------------------------
(* Router::add *)

\* The filter goes into the tree under the write lock.  A session that was taken
\* over may still be at it, when it did not answer its Kick in time.
add_topic(t, c, i, f) ==
  /\ task[t] = Idle
  /\ i <= id[c]
  /\ relations_count < MaxCount
  /\ topics' = insert(topics, f)
  /\ task' = [task EXCEPT ![t] = Relate(f, c, i)]
  /\ UNCHANGED <<entries, relations, topics_count, relations_count, id, subs>>
  /\ Watch

\* The entry of the map is made when it is missing, and the client's Id put in
\* under the guard of the entry.
add_relation(t, c, i, f) ==
  /\ task[t] = Relate(f, c, i)
  /\ entries' = entries \cup {f}
  /\ topics_count' = IF f \in entries THEN topics_count ELSE topics_count + 1
  /\ relations' = [relations EXCEPT ![f][c] = i]
  /\ relations_count' = IF relations[f][c] = None THEN relations_count + 1 ELSE relations_count
  /\ task' = [task EXCEPT ![t] = Idle]
  /\ subs' = [subs EXCEPT ![f][c] = i]
  /\ UNCHANGED <<topics, id>>
  /\ Watch

-----------------------------------------------------------------------------
(* Router::remove *)

\* Mutant: the Id of the subscription is not compared.
remove_relation_any(t, c, f, i) ==
  /\ task[t] = Idle
  /\ i <= id[c]
  /\ IF f \in entries /\ relations[f][c] # None
     THEN /\ relations' = [relations EXCEPT ![f][c] = None]
          /\ relations_count' = relations_count - 1
          /\ task' = [task EXCEPT ![t] = IF relations'[f] = NoSubscriber
                                         THEN Stage("drop", f) ELSE Idle]
     ELSE UNCHANGED <<relations, relations_count, task>>
  /\ subs' = IF subs[f][c] = i THEN [subs EXCEPT ![f][c] = None] ELSE subs
  /\ UNCHANGED <<topics, entries, topics_count, id>>
  /\ Watch

\* Under the guard of the entry the client's relation is removed, if this Id
\* made it, and whether the entry is empty now is remembered.  A call with
\* another Id, or for a filter that has no entry, returns false.
remove_relation(t, c, f, i) ==
  /\ task[t] = Idle
  /\ i <= id[c]
  /\ IF f \in entries /\ relations[f][c] = i
     THEN /\ relations' = [relations EXCEPT ![f][c] = None]
          /\ relations_count' = relations_count - 1
          /\ task' = [task EXCEPT ![t] = IF relations'[f] = NoSubscriber
                                         THEN Stage("drop", f) ELSE Idle]
     ELSE UNCHANGED <<relations, relations_count, task>>
  /\ subs' = IF subs[f][c] = i THEN [subs EXCEPT ![f][c] = None] ELSE subs
  /\ UNCHANGED <<topics, entries, topics_count, id>>
  /\ Watch

\* Mutant: the count of the filters is left alone.
remove_entry_uncounted(t, f) ==
  /\ At(t, "drop", f)
  /\ entries' = entries \ {f}
  /\ relations' = [relations EXCEPT ![f] = NoSubscriber]
  /\ task' = [task EXCEPT ![t] = Stage("prune", f)]
  /\ UNCHANGED <<topics, topics_count, relations_count, id, subs>>
  /\ Watch

\* The entry that was empty is removed from the map, whatever it holds now.
remove_entry(t, f) ==
  /\ At(t, "drop", f)
  /\ entries' = entries \ {f}
  /\ topics_count' = IF f \in entries THEN topics_count - 1 ELSE topics_count
  /\ relations' = [relations EXCEPT ![f] = NoSubscriber]
  /\ task' = [task EXCEPT ![t] = Stage("prune", f)]
  /\ UNCHANGED <<topics, relations_count, id, subs>>
  /\ Watch

\* Mutant: the filter stays in the tree.
remove_topic_kept(t, f) ==
  /\ At(t, "prune", f)
  /\ task' = [task EXCEPT ![t] = Idle]
  /\ UNCHANGED <<topics, entries, relations, topics_count, relations_count, id, subs>>
  /\ Watch

\* The filter is removed from the tree under the write lock.
remove_topic(t, f) ==
  /\ At(t, "prune", f)
  /\ topics' = remove(topics, f)
  /\ task' = [task EXCEPT ![t] = Idle]
  /\ UNCHANGED <<entries, relations, topics_count, relations_count, id, subs>>
  /\ Watch

\* The client connects again, under a new Id.
renew(c) ==
  /\ id[c] < MaxIds
  /\ id' = [id EXCEPT ![c] = @ + 1]
  /\ UNCHANGED <<topics, entries, relations, topics_count, relations_count, task, subs>>
  /\ Watch

-----------------------------------------------------------------------------

Next ==
  \/ \E c \in Clients : renew(c)
  \/ \E t \in Tasks, f \in Filters :
       \/ \E c \in Clients, i \in Ids :
            add_topic(t, c, i, f) \/ add_relation(t, c, i, f) \/ remove_relation(t, c, f, i)
       \/ remove_entry(t, f)
       \/ remove_topic(t, f)

Spec == Init /\ [][Next]_vars

-----------------------------------------------------------------------------
(* Router::matches *)

\* The subscribers of a filter for a message of client p; a No Local subscription
\* is skipped for the session that made it.
candidates(p, f) ==
  {c \in Clients : /\ f \in entries /\ relations[f][c] # None
                   /\ ~(f \in NoLocal /\ c = p /\ relations[f][c] = id[p])}

\* _matches under the read lock of the tree: the filters it finds, their
\* candidates, and of a shared group one, whichever the plugin chooses.  The
\* set of the possible results.
_matches(p, t) ==
  LET found == {f \in matches(topics, t) : candidates(p, f) # {}}
      plain == UNION {candidates(p, f) : f \in found \ Shared}
      choices == {q \in [found \cap Shared -> Clients] :
                    \A f \in found \cap Shared : q[f] \in candidates(p, f)}
  IN  {plain \cup {q[f] : f \in DOMAIN q} : q \in choices}

-----------------------------------------------------------------------------
(* Properties *)

TypeOK ==
  /\ topics \in [nodes : SUBSET Seq(Level), values : SUBSET Filters]
  /\ entries \subseteq Filters
  /\ relations \in [Filters -> [Clients -> Ids \cup {None}]]
  /\ topics_count \in Nat
  /\ relations_count \in Nat
  /\ task \in [Tasks -> Busy \cup {Idle}]
  /\ id \in [Clients -> Ids]
  /\ subs \in [Filters -> [Clients -> Ids \cup {None}]]
  /\ raced \subseteq Filters

\* Every node of the tree is on the way to a stored filter (trie.rs: automatic
\* node cleanup during removal), and every stored filter can be reached.
TreeIsPruned ==
  topics.nodes = UNION {Path(f) : f \in topics.values}

\* Whatever was added and removed before, the walk down the tree finds, for every
\* topic name, exactly the stored filters that match it, in a tree that has no
\* other nodes.  The matcher of the access rules (Topic::matches_str) agrees, but
\* for a + in front of a $ level.
MatchesExact ==
  /\ TreeIsPruned
  /\ \A t \in TopicNames : matches(topics, t) = {f \in topics.values : Matches(f, t)}
  /\ \A f \in topics.values, t \in TopicNames :
       (f[1] = SingleWildcard => t[1] \notin Metadata)
         => (matches_str(f, t) <=> Matches(f, t))

\* From the return of its subscribe to the call of its unsubscribe a client is
\* indexed under its filter and the Id that subscribed, in the tree and in the map,
\* whatever other clients and its own earlier sessions do, unless its filter was
\* added by one task while the clean-up of a remove of the same filter was in
\* progress in another.
SubscribedIsIndexed ==
  \A f \in Filters \ raced, c \in Clients :
    subs[f][c] # None => /\ f \in topics.values
                         /\ f \in entries
                         /\ relations[f][c] = subs[f][c]

\* A message reaches every subscriber whose filter matches its topic and one
\* member of every shared group (same exception), and nobody else: in particular
\* not the session that publishes through its own No Local subscription.
SubscribersFound ==
  \A t \in TopicNames, p \in Clients :
    LET Due(f) == {c \in Clients : /\ subs[f][c] # None /\ Matches(f, t)
                                   /\ ~(f \in NoLocal /\ c = p /\ subs[f][c] = id[p])}
    IN  \A to \in _matches(p, t) :
          /\ \A f \in Filters \ raced : IF f \in Shared THEN Due(f) # {} => Due(f) \cap to # {}
                                                       ELSE Due(f) \subseteq to
          /\ to \subseteq UNION {Due(f) : f \in Filters}

\* A filter that stays in the tree has a subscriber, or an operation that will
\* give it one or remove it is in progress: the tree does not leak filters.
NoDeadTopic ==
  \A f \in topics.values :
    \/ f \in entries /\ relations[f] # NoSubscriber
    \/ \E t \in Tasks : task[t].filter = f

Pairs == {p \in Filters \X Clients : relations[p[1]][p[2]] # None}

\* The filters are counted exactly; the subscriptions are never counted short,
\* and exactly unless an entry was dropped with a subscriber in it.
CountersExact ==
  /\ topics_count = Cardinality(entries)
  /\ relations_count >= Cardinality(Pairs)
  /\ raced = {} => relations_count = Cardinality(Pairs)

=============================================================================
